---------------------------- MODULE FramingProofs ----------------------------
(***************************************************************************)
(* Proofs about Framing for every set of payloads, limit, base and number  *)
(* of digits of a length, room in the pipe and number of frames.           *)
(***************************************************************************)
EXTENDS Framing, SequenceTheorems, TLAPS

(* Sequences of bytes *)

LEMMA Associative ==
  \A s, t, u \in Seq(Byte) : (s \o t) \o u = s \o (t \o u)
  BY ConcatAssociative

\* What two concatenations that are equal begin with is equal if it is as long.
LEMMA SameBeginning ==
  ASSUME NEW S, NEW a \in Seq(S), NEW b \in Seq(S), NEW c \in Seq(S), NEW d \in Seq(S),
         a \o b = c \o d, Len(a) = Len(c)
  PROVE  a = c /\ b = d
<1>1. Len(a) \in Nat /\ Len(b) \in Nat /\ Len(d) \in Nat
  BY LenProperties
<1>2. \A i \in 1..Len(a) : (a \o b)[i] = a[i] /\ (c \o d)[i] = c[i]
  BY <1>1, ConcatProperties
<1>3. a = c
  BY <1>2, SeqEqual
<1> QED
  BY <1>3, ConcatSimplifications

\* A piece of a sequence and what is left of it.
LEMMA PieceAndRest ==
  ASSUME NEW S, NEW s \in Seq(S), NEW n \in 1..Len(s)
  PROVE  /\ SubSeq(s, 1, n) \in Seq(S) /\ Len(SubSeq(s, 1, n)) = n
         /\ Dropped(s, n) \in Seq(S) /\ Len(Dropped(s, n)) = Len(s) - n
         /\ SubSeq(s, 1, n) \o Dropped(s, n) = s
<1>1. Len(s) \in Nat /\ \A i \in 1..Len(s) : s[i] \in S
  BY LenProperties, ElementOfSeq
<1>2. SubSeq(s, 1, n) \in Seq(S) /\ Len(SubSeq(s, 1, n)) = n
  BY <1>1, SubSeqProperties
<1>3. Dropped(s, n) \in Seq(S) /\ Len(Dropped(s, n)) = Len(s) - n
  <2>1. \A i \in n + 1..Len(s) : s[i] \in S
    BY <1>1
  <2> QED
    BY <1>1, <2>1, SubSeqProperties DEF Dropped
<1>4. SubSeq(s, 1, n) \o SubSeq(s, n + 1, Len(s)) = SubSeq(s, 1, Len(s))
  BY <1>1, ConcatAdjacentSubSeq
<1> QED
  BY <1>2, <1>3, <1>4, SubSeqFull DEF Dropped

\* All of a sequence but its last element.
LEMMA Front ==
  ASSUME NEW S, NEW s \in Seq(S), Len(s) > 0
  PROVE  LET front == SubSeq(s, 1, Len(s) - 1) IN
           /\ front \in Seq(S) /\ Len(front) = Len(s) - 1
           /\ \A i \in 1..Len(s) - 1 : front[i] = s[i]
<1>1. Len(s) \in Nat /\ Len(s) - 1 \in Int
  BY LenProperties
<1>2. \A i \in 1..Len(s) - 1 : s[i] \in S
  BY <1>1, ElementOfSeq
<1> DEFINE n == Len(s) - 1
<1>3. n \in Nat /\ \A i \in 1..n : s[i] \in S
  BY <1>1, <1>2
<1> HIDE DEF n
<1>4. /\ SubSeq(s, 1, n) \in Seq(S)
      /\ Len(SubSeq(s, 1, n)) = IF 1 <= n THEN n - 1 + 1 ELSE 0
      /\ \A i \in 1..n - 1 + 1 : SubSeq(s, 1, n)[i] = s[1 + i - 1]
  BY <1>3, SubSeqProperties
<1>5. Len(SubSeq(s, 1, n)) = n /\ \A i \in 1..n : SubSeq(s, 1, n)[i] = s[i]
  BY <1>3, <1>4
<1> QED
  BY <1>4, <1>5 DEF n

\* A frame on the wire: the length, and the payload.
LEMMA FramedFacts ==
  ASSUME NEW data \in Payload
  PROVE  /\ data \in Seq(Byte) /\ Len(data) \in Nat
         /\ LittleEndian(Len(data)) \in Seq(Byte) /\ Len(LittleEndian(Len(data))) = LengthBytes
         /\ LengthOf(LittleEndian(Len(data))) = Len(data)
         /\ Framed(data) \in Seq(Byte) /\ Len(Framed(data)) = LengthBytes + Len(data)
<1>1. data \in Seq(Byte) /\ Len(data) \in Nat /\ LengthBytes \in Nat
  BY FramingAssumption, LenProperties
<1>2. /\ LittleEndian(Len(data)) \in [1..LengthBytes -> Byte]
      /\ LengthOf(LittleEndian(Len(data))) = Len(data)
  BY DigitsAssumption
<1>3. LittleEndian(Len(data)) \in Seq(Byte) /\ Len(LittleEndian(Len(data))) = LengthBytes
  BY <1>1, <1>2
<1> QED
  BY <1>1, <1>2, <1>3, ConcatProperties DEF Framed
-----------------------------------------------------------------------------
(* Types *)

LEMMA InitTypeOK == Init => TypeOK
  BY FramingAssumption, EmptySeq DEF Init, TypeOK

LEMMA NextTypeOK ==
  ASSUME TypeOK, [Next]_vars
  PROVE  TypeOK'
<1> USE DEF TypeOK
<1>1. LengthBytes \in Nat \ {0} /\ Room \in Nat /\ MaxFrames \in Nat
  BY FramingAssumption
<1>2. Len(wire) \in Nat /\ Len(outgoing) \in Nat /\ Len(header) \in Nat /\ Len(payload) \in Nat
      /\ Len(offered) \in Nat /\ <<>> \in Seq(Byte) /\ Len(<<>>) = 0
  BY LenProperties, EmptySeq
<1>3. ASSUME NEW data \in Payload, Offer(data) PROVE TypeOK'
  <2>1. Append(offered, data) \in Seq(Payload) /\ Len(Append(offered, data)) = Len(offered) + 1
    BY AppendProperties
  <2>2. Framed(data) \in Seq(Byte)
    BY FramedFacts
  <2>3. /\ offered' \in Seq(Payload) /\ Len(offered') <= MaxFrames /\ outgoing' \in Seq(Byte)
        /\ sender' \in {"open", "closed"}
    <3>1. CASE checked /\ ~IsValidLength(Len(data))
      BY <1>3, <3>1 DEF Offer
    <3>2. CASE ~(checked /\ ~IsValidLength(Len(data)))
      <4>1. /\ offered' = Append(offered, data) /\ outgoing' = Framed(data) /\ sender' = sender
            /\ Len(offered) < MaxFrames
        BY <1>3, <3>2 DEF Offer
      <4>2. Len(offered') <= MaxFrames
        BY <1>1, <1>2, <2>1, <4>1
      <4> QED
        BY <2>1, <2>2, <4>1, <4>2
    <3> QED
      BY <3>1, <3>2
  <2> QED
    BY <1>3, <2>3 DEF Offer, reading
<1>4. CASE Write
  <2>1. PICK n \in 1..Len(outgoing) :
          /\ Len(wire) + n <= Room
          /\ wire' = wire \o SubSeq(outgoing, 1, n) /\ outgoing' = Dropped(outgoing, n)
    BY <1>4 DEF Write
  <2>2. /\ SubSeq(outgoing, 1, n) \in Seq(Byte) /\ Len(SubSeq(outgoing, 1, n)) = n
        /\ Dropped(outgoing, n) \in Seq(Byte)
    BY PieceAndRest
  <2>3. wire' \in Seq(Byte) /\ Len(wire') = Len(wire) + n
    BY <2>1, <2>2, ConcatProperties
  <2> QED
    BY <1>4, <2>1, <2>2, <2>3 DEF Write, reading
<1>5. CASE Stop
  BY <1>5 DEF Stop, reading
<1>6. CASE Read
  <2>1. PICK n \in 1..Len(wire) : /\ n <= Wanted
                                  /\ ReadHeader(n) \/ ReadPayload(n)
                                  /\ wire' = Dropped(wire, n)
    BY <1>6 DEF Read
  <2>2. /\ SubSeq(wire, 1, n) \in Seq(Byte) /\ Len(SubSeq(wire, 1, n)) = n
        /\ wire' \in Seq(Byte) /\ Len(wire') = Len(wire) - n
    BY <2>1, PieceAndRest
  <2>3. Len(wire') <= Room
    BY <1>1, <1>2, <2>2
  <2>4. UNCHANGED <<checked, offered, outgoing, sender>>
    BY <1>6 DEF Read, writing
  <2>5. CASE ReadHeader(n)
    <3> DEFINE prefix == header \o SubSeq(wire, 1, n)
    <3>1. prefix \in Seq(Byte) /\ Len(prefix) = Len(header) + n
      BY <2>2, ConcatProperties
    <3>2. n <= LengthBytes - Len(header)
      BY <1>1, <1>2, <2>1, <2>5, EmptySeq DEF Wanted, ReadHeader
    <3> HIDE DEF prefix
    <3>3. Len(prefix) <= LengthBytes /\ payload = <<>>
      BY <1>1, <1>2, <2>5, <3>1, <3>2 DEF ReadHeader
    <3>4. CASE Len(prefix) = LengthBytes /\ ~IsValidLength(LengthOf(prefix))
      <4>1. reader' = "failed" /\ header' = <<>> /\ payload' = payload
        BY <2>5, <3>4 DEF ReadHeader, prefix
      <4> QED
        BY <1>1, <1>2, <2>2, <2>3, <2>4, <3>3, <4>1
    <3>5. CASE ~(Len(prefix) = LengthBytes /\ ~IsValidLength(LengthOf(prefix)))
      <4>1. header' = prefix /\ payload' = payload /\ reader' = reader
        BY <2>5, <3>5 DEF ReadHeader, prefix
      <4>2. Len(prefix) = LengthBytes =>
              LengthOf(prefix) \in 1..MAX_FRAME_BYTES /\ Len(payload) < LengthOf(prefix)
        BY <3>3, <3>5, EmptySeq, FramingAssumption DEF IsValidLength
      <4> QED
        BY <1>1, <2>2, <2>3, <2>4, <3>1, <3>3, <4>1, <4>2
    <3> QED
      BY <3>4, <3>5
  <2>6. CASE ReadPayload(n)
    <3> DEFINE data == payload \o SubSeq(wire, 1, n)
    <3>1. data \in Seq(Byte) /\ Len(data) = Len(payload) + n /\ Len(data) \in Nat
      BY <2>2, ConcatProperties, LenProperties
    <3>2. /\ Len(header) = LengthBytes /\ header # <<>>
          /\ LengthOf(header) \in Nat /\ n <= LengthOf(header) - Len(payload)
      BY <1>1, <2>1, <2>6, EmptySeq, FramingAssumption DEF Wanted, ReadPayload
    <3> HIDE DEF data
    <3>3. Len(data) <= LengthOf(header)
      BY <1>2, <3>1, <3>2
    <3>4. CASE Len(data) = LengthOf(header)
      <4>1. reader' = reader /\ header' = <<>> /\ payload' = <<>>
        BY <2>6, <3>4 DEF ReadPayload, data
      <4> QED
        BY <1>1, <1>2, <2>2, <2>3, <2>4, <4>1
    <3>5. CASE Len(data) # LengthOf(header)
      <4>1. payload' = data /\ header' = header /\ reader' = reader
        BY <2>6, <3>5 DEF ReadPayload, data
      <4>2. Len(data) < LengthOf(header)
        <5>1. \A a, b \in Nat : a <= b /\ a # b => a < b
          OBVIOUS
        <5> QED
          BY <3>1, <3>2, <3>3, <3>5, <5>1
      <4> QED
        BY <1>1, <2>2, <2>3, <2>4, <3>1, <3>2, <4>1, <4>2
    <3> QED
      BY <3>4, <3>5
  <2> QED
    BY <2>1, <2>5, <2>6
<1>7. CASE EndOfStream \/ ReadFails
  BY <1>7 DEF EndOfStream, ReadFails, writing
<1>8. CASE UNCHANGED vars
  BY <1>8 DEF vars, writing, reading
<1> QED
  BY <1>3, <1>4, <1>5, <1>6, <1>7, <1>8 DEF Next
-----------------------------------------------------------------------------
(* What is in flight *)

\* The latest payload offered.
Last == offered[Len(offered)]

\* The bytes of the frames that have not been returned, as far as they have been read, are on the
\* wire or will be written.
Pending == (header \o payload) \o (wire \o outgoing)

\* rest[k] is what the frames from the k-th on have come to, written one after the other.
IsRest(rest) ==
  /\ \A k \in Len(frames) + 1..Len(offered) + 1 : rest[k] \in Seq(Byte)
  /\ rest[Len(offered) + 1] = <<>>
  /\ \A k \in Len(frames) + 1..Len(offered) : rest[k] = Framed(offered[k]) \o rest[k + 1]
  /\ \A k \in Len(frames) + 1..Len(offered) - 1 : Len(rest[k]) > Len(Framed(Last))

\* The frames returned are the first of those offered, and as long as the reader has not failed
\* the others are pending, one after the other.
InStep ==
  /\ frames \in Seq(Payload) /\ Len(frames) <= Len(offered)
  /\ \A k \in 1..Len(frames) : frames[k] = offered[k]
  /\ reader = "reading" => \E rest : IsRest(rest) /\ Pending = rest[Len(frames) + 1]

\* What is not written is of the latest frame.
OutgoingIsOfLast ==
  outgoing # <<>> => offered # <<>> /\ Len(outgoing) <= Len(Framed(Last))

IInv == TypeOK /\ InStep /\ OutgoingIsOfLast

LEMMA Lengths ==
  ASSUME TypeOK
  PROVE  /\ LengthBytes \in Nat \ {0}
         /\ Len(offered) \in Nat /\ Len(outgoing) \in Nat /\ Len(wire) \in Nat
         /\ Len(header) \in Nat /\ Len(payload) \in Nat
         /\ wire \o outgoing \in Seq(Byte) /\ header \o payload \in Seq(Byte)
         /\ \A k \in 1..Len(offered) : offered[k] \in Payload
         /\ <<>> \in Seq(Byte) /\ Len(<<>>) = 0
  BY FramingAssumption, LenProperties, ConcatProperties, ElementOfSeq, EmptySeq DEF TypeOK

\* Bytes pass from one sequence to the one before it.
LEMMA BytesPass ==
  \A a, s, b \in Seq(Byte) : \A n \in 1..Len(s) :
    (a \o SubSeq(s, 1, n)) \o (Dropped(s, n) \o b) = a \o (s \o b)
<1> TAKE a, s, b \in Seq(Byte)
<1> TAKE n \in 1..Len(s)
<1> DEFINE piece == SubSeq(s, 1, n)
           left == Dropped(s, n)
<1>1. piece \in Seq(Byte) /\ left \in Seq(Byte)
  BY PieceAndRest
<1>2. piece \o left = s
  BY PieceAndRest
<1> HIDE DEF piece, left
<1>3. left \o b \in Seq(Byte)
  BY <1>1, ConcatProperties
<1>4. (a \o piece) \o (left \o b) = a \o (piece \o (left \o b))
  <2>1. \A u \in Seq(Byte) : (a \o piece) \o u = a \o (piece \o u)
    BY <1>1, Associative, Zenon
  <2> QED
    BY <1>3, <2>1
<1>5. (piece \o left) \o b = piece \o (left \o b)
  <2>1. \A u \in Seq(Byte) : (piece \o left) \o u = piece \o (left \o u)
    BY <1>1, Associative, Zenon
  <2> QED
    BY <2>1
<1> QED
  BY <1>2, <1>4, <1>5 DEF piece, left

\* A complete prefix is the one of the frame the bytes begin with, and a complete payload its
\* payload.
LEMMA FrameComesOut ==
  ASSUME NEW data \in Payload, NEW prefix \in Seq(Byte), NEW got \in Seq(Byte), NEW left \in Seq(Byte),
         NEW rest \in Seq(Byte), (prefix \o got) \o left = Framed(data) \o rest,
         Len(prefix) = LengthBytes, Len(got) = LengthOf(prefix)
  PROVE  got = data /\ left = rest
<1> DEFINE length == LittleEndian(Len(data))
<1>1. /\ data \in Seq(Byte) /\ length \in Seq(Byte) /\ Len(length) = LengthBytes
      /\ LengthOf(length) = Len(data)
  BY FramedFacts
<1>2. Framed(data) = length \o data
  BY DEF Framed
<1> HIDE DEF length
<1>3. got \o left \in Seq(Byte) /\ data \o rest \in Seq(Byte)
  BY <1>1, ConcatProperties
<1>4. prefix \o (got \o left) = length \o (data \o rest)
  <2>1. \A u \in Seq(Byte) : (prefix \o got) \o u = prefix \o (got \o u)
    BY Associative, Zenon
  <2>2. \A u \in Seq(Byte) : (length \o data) \o u = length \o (data \o u)
    BY <1>1, Associative, Zenon
  <2> QED
    BY <1>2, <2>1, <2>2
<1>5. prefix = length /\ got \o left = data \o rest
  <2> DEFINE read == got \o left
             sent == data \o rest
  <2>1. read \in Seq(Byte) /\ sent \in Seq(Byte) /\ prefix \o read = length \o sent
    BY <1>3, <1>4
  <2> HIDE DEF read, sent
  <2>2. prefix = length /\ read = sent
    BY <1>1, <2>1, SameBeginning
  <2> QED
    BY <2>2 DEF read, sent
<1> QED
  BY <1>1, <1>5, SameBeginning

\* As long as there are bytes there is a frame they are of.
LEMMA RestFacts ==
  ASSUME TypeOK, Len(frames) \in Nat, Len(frames) <= Len(offered), NEW rest, IsRest(rest),
         NEW k \in Len(frames) + 1..Len(offered) + 1
  PROVE  /\ rest[k] \in Seq(Byte)
         /\ k = Len(offered) + 1 => rest[k] = <<>>
         /\ k # Len(offered) + 1 =>
              /\ k \in 1..Len(offered) /\ offered[k] \in Payload /\ rest[k + 1] \in Seq(Byte)
              /\ rest[k] = Framed(offered[k]) \o rest[k + 1]
              /\ Len(rest[k]) > 0 /\ rest[k] # <<>>
<1>1. /\ LengthBytes \in Nat \ {0} /\ Len(offered) \in Nat
      /\ \A j \in 1..Len(offered) : offered[j] \in Payload
      /\ Len(<<>>) = 0
  BY Lengths
<1>2. rest[k] \in Seq(Byte) /\ (k = Len(offered) + 1 => rest[k] = <<>>)
  BY DEF IsRest
<1>3. ASSUME k # Len(offered) + 1
      PROVE  /\ k \in 1..Len(offered) /\ offered[k] \in Payload /\ rest[k + 1] \in Seq(Byte)
             /\ rest[k] = Framed(offered[k]) \o rest[k + 1]
             /\ Len(rest[k]) > 0 /\ rest[k] # <<>>
  <2>1. k \in Len(frames) + 1..Len(offered) /\ k + 1 \in Len(frames) + 1..Len(offered) + 1
        /\ k \in 1..Len(offered)
    BY <1>1, <1>3
  <2>2. offered[k] \in Payload /\ rest[k + 1] \in Seq(Byte)
        /\ rest[k] = Framed(offered[k]) \o rest[k + 1]
    BY <1>1, <2>1 DEF IsRest
  <2>3. Framed(offered[k]) \in Seq(Byte) /\ Len(Framed(offered[k])) > 0
    <3>1. Framed(offered[k]) \in Seq(Byte) /\ Len(Framed(offered[k])) = LengthBytes + Len(offered[k])
          /\ Len(offered[k]) \in Nat
      BY <2>2, FramedFacts
    <3> QED
      BY <1>1, <3>1
  <2>4. Len(rest[k]) = Len(Framed(offered[k])) + Len(rest[k + 1]) /\ Len(rest[k + 1]) \in Nat
        /\ Len(Framed(offered[k])) \in Nat
    BY <2>2, <2>3, ConcatProperties, LenProperties
  <2>5. Len(rest[k]) > 0
    <3>1. \A a, b \in Nat : a > 0 => a + b > 0
      OBVIOUS
    <3> QED
      BY <2>3, <2>4, <3>1
  <2>6. rest[k] # <<>>
    BY <1>1, <2>5
  <2> QED
    BY <2>1, <2>2, <2>5, <2>6
<1> QED
  BY <1>2, <1>3
-----------------------------------------------------------------------------
(* The steps *)

Returned == Len(frames)

LEMMA PendingFacts ==
  ASSUME TypeOK
  PROVE  /\ Pending \in Seq(Byte)
         /\ Len(Pending) = Len(header) + Len(payload) + Len(wire) + Len(outgoing)
<1>1. /\ header \in Seq(Byte) /\ payload \in Seq(Byte) /\ wire \in Seq(Byte) /\ outgoing \in Seq(Byte)
      /\ Len(header) \in Nat /\ Len(payload) \in Nat /\ Len(wire) \in Nat /\ Len(outgoing) \in Nat
  BY Lengths DEF TypeOK
<1>2. /\ header \o payload \in Seq(Byte) /\ Len(header \o payload) = Len(header) + Len(payload)
      /\ wire \o outgoing \in Seq(Byte) /\ Len(wire \o outgoing) = Len(wire) + Len(outgoing)
  BY <1>1, ConcatProperties
<1>3. /\ (header \o payload) \o (wire \o outgoing) \in Seq(Byte)
      /\ Len((header \o payload) \o (wire \o outgoing))
           = Len(header \o payload) + Len(wire \o outgoing)
  BY <1>2, ConcatProperties
<1> QED
  BY <1>1, <1>2, <1>3 DEF Pending

\* What a read does: bytes pass from the wire to the prefix or the payload, and the payload that
\* they complete is the next that was offered.
LEMMA ReadFacts ==
  ASSUME IInv, reader = "reading", NEW n \in 1..Len(wire), n <= Wanted, wire' = Dropped(wire, n),
         UNCHANGED <<offered, outgoing>>,
         NEW rest, IsRest(rest), Pending = rest[Returned + 1]
  PROVE  /\ ReadHeader(n) => frames' = frames /\ (reader' = "reading" => Pending' = Pending)
         /\ ReadPayload(n) =>
              \/ frames' = frames /\ Pending' = Pending
              \/ LET next == Returned + 1 IN
                   /\ next \in 1..Len(offered) /\ frames' = Append(frames, offered[next])
                   /\ Pending' = rest[next + 1]
                   /\ Len(offered[next]) \in 1..MAX_FRAME_BYTES
                   /\ next = Len(offered) => outgoing = <<>>
<1> DEFINE piece == SubSeq(wire, 1, n)
           next == Returned + 1
<1>1. /\ header \in Seq(Byte) /\ payload \in Seq(Byte) /\ wire \in Seq(Byte) /\ outgoing \in Seq(Byte)
      /\ header \o payload \in Seq(Byte) /\ wire \o outgoing \in Seq(Byte)
      /\ Len(header) \in Nat /\ Len(payload) \in Nat /\ Len(wire) \in Nat /\ Len(outgoing) \in Nat
      /\ LengthBytes \in Nat \ {0} /\ <<>> \in Seq(Byte) /\ Len(<<>>) = 0
  BY Lengths DEF IInv, TypeOK
<1>2. /\ piece \in Seq(Byte) /\ Len(piece) = n
      /\ wire' \in Seq(Byte) /\ wire' \o outgoing \in Seq(Byte)
  BY <1>1, PieceAndRest, ConcatProperties
<1>3. ((header \o payload) \o piece) \o (wire' \o outgoing) = Pending
  <2>1. ((header \o payload) \o piece) \o (Dropped(wire, n) \o outgoing)
          = (header \o payload) \o (wire \o outgoing)
    <3> DEFINE a == header \o payload
    <3>1. a \in Seq(Byte)
      BY <1>1
    <3> HIDE DEF a
    <3>2. (a \o SubSeq(wire, 1, n)) \o (Dropped(wire, n) \o outgoing) = a \o (wire \o outgoing)
      <4>1. wire \in Seq(Byte) /\ outgoing \in Seq(Byte)
        BY <1>1
      <4> QED
        BY <3>1, <4>1, BytesPass, Zenon
    <3> QED
      BY <3>2 DEF a
  <2> QED
    BY <2>1 DEF Pending
<1>4. ASSUME ReadHeader(n)
      PROVE  frames' = frames /\ (reader' = "reading" => Pending' = Pending)
  <2>1. payload = <<>> /\ payload' = <<>> /\ frames' = frames
    BY <1>1, <1>4 DEF ReadHeader, IInv, TypeOK
  <2>2. ASSUME reader' = "reading" PROVE Pending' = Pending
    <3>1. header' = header \o piece
      BY <1>4, <2>2 DEF ReadHeader
    <3>2. header \o payload = header /\ header' \o payload' = header'
      <4>1. header' \in Seq(Byte)
        BY <1>1, <1>2, <3>1, ConcatProperties
      <4> QED
        BY <1>1, <2>1, <4>1, ConcatEmptySeq
    <3> HIDE DEF piece
    <3> QED
      BY <1>3, <3>1, <3>2 DEF Pending
  <2> QED
    BY <2>1, <2>2
<1>5. ASSUME ReadPayload(n)
      PROVE  \/ frames' = frames /\ Pending' = Pending
             \/ /\ next \in 1..Len(offered) /\ frames' = Append(frames, offered[next])
                /\ Pending' = rest[next + 1]
                /\ Len(offered[next]) \in 1..MAX_FRAME_BYTES
                /\ next = Len(offered) => outgoing = <<>>
  <2> DEFINE data == payload \o piece
  <2>1. /\ Len(header) = LengthBytes /\ LengthOf(header) \in 1..MAX_FRAME_BYTES
        /\ data \in Seq(Byte)
    BY <1>1, <1>2, <1>5, ConcatProperties DEF ReadPayload, IInv, TypeOK
  <2>2. header \o data = (header \o payload) \o piece
    <3>1. header \in Seq(Byte) /\ payload \in Seq(Byte) /\ piece \in Seq(Byte)
      BY <1>1, <1>2
    <3> HIDE DEF piece
    <3> QED
      BY <3>1, Associative, Zenon
  <2>3. CASE Len(data) # LengthOf(header)
    <3>1. frames' = frames /\ header' = header /\ payload' = data
      BY <1>5, <2>3 DEF ReadPayload
    <3> HIDE DEF data, piece
    <3> QED
      BY <1>3, <2>2, <3>1 DEF Pending
  <2>4. CASE Len(data) = LengthOf(header)
    <3>1. frames' = Append(frames, data) /\ header' = <<>> /\ payload' = <<>>
      BY <1>5, <2>4 DEF ReadPayload
    <3>2. /\ next \in 1..Len(offered) /\ offered[next] \in Payload /\ rest[next + 1] \in Seq(Byte)
          /\ rest[next] = Framed(offered[next]) \o rest[next + 1]
      <4>1. /\ Returned \in Nat /\ Returned <= Len(offered) /\ Len(offered) \in Nat
        BY Lengths, LenProperties DEF IInv, InStep, Returned
      <4>2. next \in Len(frames) + 1..Len(offered) + 1
        BY <4>1 DEF Returned
      <4>3. Len(rest[next]) # 0
        BY <1>1, PendingFacts DEF IInv
      <4>4. next # Len(offered) + 1
        BY <1>1, <4>3 DEF IsRest
      <4> QED
        BY <4>1, <4>2, <4>4, RestFacts DEF IInv, Returned
    <3> HIDE DEF data, piece, next
    <3>3. (header \o data) \o (wire' \o outgoing) = Framed(offered[next]) \o rest[next + 1]
      BY <1>3, <2>2, <3>2 DEF next
    <3>4. data = offered[next] /\ wire' \o outgoing = rest[next + 1]
      <4> DEFINE p == offered[next]
                 left == wire' \o outgoing
                 r == rest[next + 1]
      <4>1. p \in Payload /\ left \in Seq(Byte) /\ r \in Seq(Byte)
        BY <1>2, <3>2
      <4>2. (header \o data) \o left = Framed(p) \o r
        BY <3>3
      <4> HIDE DEF p, left, r
      <4>3. data = p /\ left = r
        BY <1>1, <2>1, <2>4, <4>1, <4>2, FrameComesOut
      <4> QED
        BY <4>3 DEF p, left, r
    <3>5. Pending' = rest[next + 1]
      <4>1. (<<>> \o <<>>) \o (wire' \o outgoing) = wire' \o outgoing
        BY <1>1, <1>2, ConcatEmptySeq
      <4> QED
        BY <3>1, <3>4, <4>1 DEF Pending
    <3>6. next = Len(offered) => outgoing = <<>>
      <4>1. next = Len(offered) => wire' \o outgoing = <<>>
        BY <3>4 DEF IsRest
      <4> QED
        BY <1>1, <1>2, <4>1, ConcatEqualIffEmpty
    <3> QED
      BY <2>1, <2>4, <3>1, <3>2, <3>4, <3>5, <3>6
  <2> QED
    BY <2>3, <2>4
<1> QED
  BY <1>4, <1>5

\* A write moves bytes to the wire.
LEMMA WriteFacts ==
  ASSUME IInv, Write
  PROVE  /\ Pending' = Pending /\ outgoing # <<>> /\ outgoing' \in Seq(Byte)
         /\ Len(outgoing') < Len(outgoing)
<1>1. PICK n \in 1..Len(outgoing) :
        wire' = wire \o SubSeq(outgoing, 1, n) /\ outgoing' = Dropped(outgoing, n)
  BY DEF Write
<1>2. UNCHANGED <<header, payload>>
  BY DEF Write, reading
<1>3. wire \in Seq(Byte) /\ outgoing \in Seq(Byte) /\ Len(outgoing) \in Nat /\ Len(<<>>) = 0
  BY Lengths DEF IInv, TypeOK
<1>4. outgoing' \in Seq(Byte) /\ Len(outgoing') = Len(outgoing) - n
  BY <1>1, <1>3, PieceAndRest
<1>5. wire' \o outgoing' = wire \o outgoing
  <2>1. /\ SubSeq(outgoing, 1, n) \in Seq(Byte) /\ Dropped(outgoing, n) \in Seq(Byte)
        /\ SubSeq(outgoing, 1, n) \o Dropped(outgoing, n) = outgoing
    BY <1>3, PieceAndRest
  <2>2. (wire \o SubSeq(outgoing, 1, n)) \o Dropped(outgoing, n)
          = wire \o (SubSeq(outgoing, 1, n) \o Dropped(outgoing, n))
    BY <1>3, <2>1, Associative, Zenon
  <2> QED
    BY <1>1, <2>1, <2>2
<1>6. outgoing # <<>> /\ Len(outgoing') < Len(outgoing)
  BY <1>3, <1>4
<1> QED
  BY <1>2, <1>4, <1>5, <1>6 DEF Pending

\* An offer that is not refused comes behind what is pending.
LEMMA OfferFacts ==
  ASSUME IInv, NEW data \in Payload, Offer(data), outgoing' # outgoing
  PROVE  /\ outgoing = <<>> /\ offered' = Append(offered, data) /\ outgoing' = Framed(data)
         /\ Len(offered') = Len(offered) + 1 /\ offered'[Len(offered) + 1] = data
         /\ \A k \in 1..Len(offered) : offered'[k] = offered[k]
         /\ Pending' = Pending \o Framed(data)
<1>1. /\ outgoing = <<>> /\ offered' = Append(offered, data) /\ outgoing' = Framed(data)
      /\ UNCHANGED <<wire, header, payload>>
  BY DEF Offer, reading
<1>2. /\ Len(offered') = Len(offered) + 1 /\ offered'[Len(offered) + 1] = data
      /\ \A k \in 1..Len(offered) : offered'[k] = offered[k]
  BY <1>1, AppendProperties DEF IInv, TypeOK
<1>3. Pending' = Pending \o Framed(data)
  <2> DEFINE a == header \o payload
             frame == Framed(data)
  <2>1. a \in Seq(Byte) /\ wire \in Seq(Byte) /\ frame \in Seq(Byte)
    BY Lengths, FramedFacts DEF IInv, TypeOK
  <2>2. wire \o outgoing = wire
    BY <1>1, <2>1, ConcatEmptySeq
  <2> HIDE DEF a, frame
  <2>3. (a \o wire) \o frame = a \o (wire \o frame)
    BY <2>1, Associative, Zenon
  <2> QED
    BY <1>1, <2>2, <2>3 DEF Pending, a, frame
<1> QED
  BY <1>1, <1>2, <1>3

LEMMA NextInStep ==
  ASSUME IInv, [Next]_vars
  PROVE  InStep'
<1>1. /\ frames \in Seq(Payload) /\ Len(frames) <= Len(offered)
      /\ \A k \in 1..Len(frames) : frames[k] = offered[k]
      /\ reader = "reading" => \E rest : IsRest(rest) /\ Pending = rest[Len(frames) + 1]
      /\ Len(frames) \in Nat /\ Len(offered) \in Nat
  BY LenProperties DEF IInv, TypeOK, InStep
<1>2. ASSUME UNCHANGED <<offered, frames>>, reader' = "reading" => reader = "reading" /\ Pending' = Pending
      PROVE  InStep'
  BY <1>1, <1>2 DEF InStep, IsRest, Last
<1>3. ASSUME NEW data \in Payload, Offer(data) PROVE InStep'
  <2>1. UNCHANGED <<frames, reader, wire, header, payload>>
    BY <1>3 DEF Offer, reading
  <2>2. CASE outgoing' = outgoing
    <3>1. UNCHANGED offered
      <4>1. ~(offered' = Append(offered, data) /\ outgoing' = Framed(data))
        <5>1. outgoing = <<>> /\ Len(Framed(data)) > 0 /\ Len(<<>>) = 0
          BY <1>3, FramedFacts, Lengths DEF Offer, IInv
        <5> QED
          BY <2>2, <5>1
      <4> QED
        BY <1>3, <4>1 DEF Offer
    <3> QED
      BY <1>2, <2>1, <2>2, <3>1 DEF Pending
  <2>3. CASE outgoing' # outgoing
    <3> DEFINE frame == Framed(data)
               m == Len(frames) + 1
               n == Len(offered)
    <3>1. /\ Len(offered') = n + 1 /\ offered'[n + 1] = data
          /\ \A k \in 1..n : offered'[k] = offered[k]
          /\ Pending' = Pending \o frame
      BY <1>3, <2>3, OfferFacts
    <3>2. frame \in Seq(Byte) /\ Len(frame) \in Nat
      BY FramedFacts, LenProperties
    <3>3. ASSUME NEW rest, IsRest(rest), Pending = rest[m], reader = "reading"
          PROVE  \E new : IsRest(new)' /\ Pending' = new[m]
      <4>0. PICK new : new = [k \in Nat |-> IF k = n + 2 THEN <<>> ELSE rest[k] \o frame]
        OBVIOUS
      <4>1. \A k \in m..n + 1 :
              /\ rest[k] \in Seq(Byte)
              /\ k = n + 1 => rest[k] = <<>>
              /\ k # n + 1 => /\ k \in 1..n /\ offered[k] \in Payload /\ rest[k + 1] \in Seq(Byte)
                              /\ rest[k] = Framed(offered[k]) \o rest[k + 1]
                              /\ Len(rest[k]) > 0
        BY <1>1, <3>3, RestFacts DEF IInv
      <4>2. /\ \A k \in m..n + 1 : new[k] = rest[k] \o frame
            /\ new[n + 2] = <<>>
        BY <1>1, <4>0
      <4> HIDE DEF frame
      <4>3. \A k \in m..n + 1 : new[k] \in Seq(Byte) /\ Len(new[k]) = Len(rest[k]) + Len(frame)
        <5> SUFFICES ASSUME NEW k \in m..n + 1
                     PROVE  new[k] \in Seq(Byte) /\ Len(new[k]) = Len(rest[k]) + Len(frame)
          OBVIOUS
        <5>1. rest[k] \in Seq(Byte) /\ new[k] = rest[k] \o frame
          BY <4>1, <4>2
        <5> QED
          BY <3>2, <5>1, ConcatProperties
      <4>4. ASSUME NEW k \in m..n + 1
            PROVE  new[k] = Framed(offered'[k]) \o new[k + 1]
        <5>1. CASE k = n + 1
          <6>1. new[k] = <<>> \o frame /\ new[k + 1] = <<>>
            <7>1. k + 1 = n + 2
              BY <1>1, <5>1
            <7>2. rest[k] = <<>>
              BY <3>3, <5>1 DEF IsRest
            <7> QED
              BY <4>2, <7>1, <7>2
          <6>2. <<>> \o frame = frame /\ frame \o <<>> = frame
            BY <3>2, ConcatEmptySeq
          <6> QED
            BY <3>1, <5>1, <6>1, <6>2 DEF frame
        <5>2. CASE k # n + 1
          <6> DEFINE own == Framed(offered[k])
          <6>1. /\ own \in Seq(Byte) /\ rest[k + 1] \in Seq(Byte) /\ rest[k] = own \o rest[k + 1]
            BY <4>1, <5>2, FramedFacts
          <6>2. new[k] = rest[k] \o frame /\ new[k + 1] = rest[k + 1] \o frame
            <7>1. k + 1 \in m..n + 1
              BY <1>1, <4>4, <5>2
            <7> QED
              BY <4>2, <7>1
          <6>3. offered'[k] = offered[k]
            BY <3>1, <4>1, <5>2
          <6> HIDE DEF own
          <6>4. (own \o rest[k + 1]) \o frame = own \o (rest[k + 1] \o frame)
            BY <3>2, <6>1, Associative, Zenon
          <6> QED
            BY <6>1, <6>2, <6>3, <6>4 DEF own
        <5> QED
          BY <5>1, <5>2
      <4>5. \A k \in m..n : Len(new[k]) > Len(frame)
        <5> SUFFICES ASSUME NEW k \in m..n PROVE Len(new[k]) > Len(frame)
          OBVIOUS
        <5>1. k \in m..n + 1 /\ k # n + 1
          BY <1>1
        <5>2. Len(rest[k]) > 0 /\ Len(rest[k]) \in Nat /\ Len(new[k]) = Len(rest[k]) + Len(frame)
          BY <4>1, <4>3, <5>1, LenProperties
        <5>3. \A a, b \in Nat : a > 0 => a + b > b
          OBVIOUS
        <5> QED
          BY <3>2, <5>2, <5>3
      <4>6. /\ Len(frames') + 1 = m /\ Len(offered') + 1 = n + 2 /\ Len(offered') - 1 = n
            /\ Last' = data
        BY <1>1, <2>1, <3>1 DEF Last
      <4>7. \A k \in m..n + 2 : new[k] \in Seq(Byte)
        <5>1. \A k \in m..n + 2 : k \in m..n + 1 \/ k = n + 2
          BY <1>1
        <5>2. <<>> \in Seq(Byte)
          BY EmptySeq
        <5> QED
          BY <4>2, <4>3, <5>1, <5>2
      <4>8. IsRest(new)'
        <5>1. \A k : k \in m..Len(offered') <=> k \in m..n + 1
          BY <3>1
        <5>2. \A k : k \in m..Len(offered') - 1 <=> k \in m..n
          BY <4>6
        <5>3. \A k : k \in m..Len(offered') + 1 <=> k \in m..n + 2
          BY <4>6
        <5> HIDE DEF m, n
        <5> QED
          BY <4>2, <4>4, <4>5, <4>6, <4>7, <5>1, <5>2, <5>3 DEF IsRest, frame
      <4>9. Pending' = new[m]
        BY <1>1, <3>1, <3>3, <4>2
      <4> QED
        BY <4>8, <4>9
    <3>4. \A k \in 1..Len(frames') : frames'[k] = offered'[k]
      BY <1>1, <2>1, <3>1
    <3>5. Len(frames') <= Len(offered')
      BY <1>1, <2>1, <3>1
    <3> QED
      BY <1>1, <2>1, <3>3, <3>4, <3>5 DEF InStep
  <2> QED
    BY <2>2, <2>3
<1>4. CASE Write
  <2>1. UNCHANGED <<offered, frames, reader>>
    BY <1>4 DEF Write, reading
  <2> QED
    BY <1>2, <1>4, <2>1, WriteFacts
<1>5. CASE Read
  <2>1. PICK n \in 1..Len(wire) : /\ n <= Wanted
                                  /\ ReadHeader(n) \/ ReadPayload(n)
                                  /\ wire' = Dropped(wire, n)
    BY <1>5 DEF Read
  <2>2. PICK rest : IsRest(rest) /\ Pending = rest[Len(frames) + 1]
    BY <1>1, <1>5 DEF Read
  <2>3. UNCHANGED <<offered, outgoing>> /\ reader = "reading"
    BY <1>5 DEF Read, writing
  <2>4. /\ ReadHeader(n) => frames' = frames /\ (reader' = "reading" => Pending' = Pending)
        /\ ReadPayload(n) =>
             \/ frames' = frames /\ Pending' = Pending
             \/ LET next == Returned + 1 IN
                  /\ next \in 1..Len(offered) /\ frames' = Append(frames, offered[next])
                  /\ Pending' = rest[next + 1]
                  /\ Len(offered[next]) \in 1..MAX_FRAME_BYTES
                  /\ next = Len(offered) => outgoing = <<>>
    BY <2>1, <2>2, <2>3, ReadFacts DEF Returned
  <2>5. CASE frames' = frames /\ (reader' = "reading" => Pending' = Pending)
    BY <1>2, <2>3, <2>5
  <2>6. CASE LET next == Returned + 1 IN
               /\ next \in 1..Len(offered) /\ frames' = Append(frames, offered[next])
               /\ Pending' = rest[next + 1]
    <3> DEFINE next == Len(frames) + 1
    <3>1. next \in 1..Len(offered) /\ offered[next] \in Payload /\ Pending' = rest[next + 1]
      BY <2>6, Lengths DEF Returned, IInv
    <3>2. /\ frames' \in Seq(Payload) /\ Len(frames') = next /\ frames'[next] = offered[next]
          /\ \A k \in 1..Len(frames) : frames'[k] = frames[k]
      BY <1>1, <2>6, <3>1, AppendProperties DEF Returned
    <3>3. \A k \in 1..Len(frames') : frames'[k] = offered'[k]
      BY <1>1, <2>3, <3>1, <3>2
    <3>4. IsRest(rest)'
      <4>1. \A k : k \in Len(frames') + 1..Len(offered) + 1 => k \in Len(frames) + 1..Len(offered) + 1
        BY <1>1, <3>2
      <4>2. \A k : k \in Len(frames') + 1..Len(offered) => k \in Len(frames) + 1..Len(offered)
        BY <1>1, <3>2
      <4>3. \A k : k \in Len(frames') + 1..Len(offered) - 1 => k \in Len(frames) + 1..Len(offered) - 1
        BY <1>1, <3>2
      <4> QED
        BY <2>2, <2>3, <4>1, <4>2, <4>3 DEF IsRest, Last
    <3>5. Len(frames') <= Len(offered') /\ Pending' = rest[Len(frames') + 1]
      BY <2>3, <3>1, <3>2, Lengths DEF IInv
    <3> QED
      BY <3>2, <3>3, <3>4, <3>5, Zenon DEF InStep
  <2> QED
    BY <2>1, <2>4, <2>5, <2>6
<1>6. CASE Stop \/ EndOfStream \/ ReadFails
  BY <1>2, <1>6 DEF Stop, EndOfStream, ReadFails, writing, reading, Pending
<1>7. CASE UNCHANGED vars
  BY <1>2, <1>7 DEF vars, writing, reading, Pending
<1> QED
  BY <1>3, <1>4, <1>5, <1>6, <1>7 DEF Next

LEMMA NextOutgoing ==
  ASSUME IInv, [Next]_vars
  PROVE  OutgoingIsOfLast'
<1>1. CASE UNCHANGED <<offered, outgoing>>
  BY <1>1 DEF IInv, OutgoingIsOfLast, Last
<1>2. ASSUME NEW data \in Payload, Offer(data), outgoing' # outgoing PROVE OutgoingIsOfLast'
  <2>1. /\ Len(offered') = Len(offered) + 1 /\ offered'[Len(offered) + 1] = data
        /\ outgoing' = Framed(data) /\ offered' = Append(offered, data)
    BY <1>2, OfferFacts
  <2>2. offered' # <<>>
    BY <2>1, AppendProperties DEF IInv, TypeOK
  <2>3. Len(Framed(data)) \in Nat
    BY FramedFacts, LenProperties
  <2> QED
    BY <2>1, <2>2, <2>3 DEF OutgoingIsOfLast, Last
<1>3. ASSUME NEW data \in Payload, Offer(data), outgoing' = outgoing PROVE UNCHANGED offered
  <2>1. outgoing = <<>> /\ Len(Framed(data)) > 0 /\ Len(<<>>) = 0
    BY <1>3, FramedFacts, Lengths DEF Offer, IInv
  <2> QED
    BY <1>3, <2>1 DEF Offer
<1>4. CASE Write
  <2>1. UNCHANGED offered
    BY <1>4 DEF Write
  <2>2. outgoing # <<>> /\ Len(outgoing') < Len(outgoing) /\ outgoing' \in Seq(Byte)
    BY <1>4, WriteFacts
  <2>3. offered # <<>> /\ Len(outgoing) <= Len(Framed(Last))
    BY <2>2 DEF IInv, OutgoingIsOfLast
  <2>4. Len(outgoing') \in Nat /\ Len(outgoing) \in Nat /\ Len(Framed(Last)) \in Nat
    <3>1. Last \in Payload
      BY <2>3, Lengths, EmptySeq DEF IInv, TypeOK, Last
    <3> QED
      BY <2>2, <3>1, Lengths, FramedFacts, LenProperties DEF IInv
  <2> QED
    BY <2>1, <2>2, <2>3, <2>4 DEF OutgoingIsOfLast, Last
<1>5. CASE Stop \/ Read \/ EndOfStream \/ ReadFails \/ UNCHANGED vars
  BY <1>1, <1>5 DEF Stop, Read, EndOfStream, ReadFails, writing, vars
<1> QED
  BY <1>1, <1>2, <1>3, <1>4, <1>5 DEF Next

LEMMA InitInvariant == Init => IInv
<1> SUFFICES ASSUME Init PROVE IInv
  OBVIOUS
<1>1. /\ offered = <<>> /\ frames = <<>> /\ header = <<>> /\ payload = <<>> /\ wire = <<>>
      /\ outgoing = <<>>
  BY DEF Init
<1>2. Len(<<>>) = 0 /\ <<>> \in Seq(Byte) /\ frames \in Seq(Payload)
  BY <1>1, EmptySeq
<1>3. Pending = <<>>
  BY <1>1, <1>2, ConcatEmptySeq DEF Pending
<1>4. \E rest : IsRest(rest) /\ Pending = rest[Len(frames) + 1]
  <2> PICK rest : rest = [k \in {1} |-> <<>>]
    OBVIOUS
  <2>1. Len(frames) = 0 /\ Len(offered) = 0
    BY <1>1, <1>2
  <2>2. IsRest(rest)
    BY <1>2, <2>1 DEF IsRest
  <2> QED
    BY <1>3, <2>1, <2>2
<1>5. InStep
  BY <1>1, <1>2, <1>4 DEF InStep
<1>6. OutgoingIsOfLast
  BY <1>1 DEF OutgoingIsOfLast
<1> QED
  BY <1>5, <1>6, InitTypeOK DEF IInv

LEMMA NextInvariant == IInv /\ [Next]_vars => IInv'
  BY NextTypeOK, NextInStep, NextOutgoing DEF IInv
-----------------------------------------------------------------------------
(* The stream of frames *)

\* How the writer's end looks from the reader's.
Closing == IF sender = "open" THEN "open" ELSE IF IsTorn THEN "torn" ELSE "closed"

\* The frames written whole are all that were offered, but for the last while it is written.
LEMMA WholeFacts ==
  ASSUME IInv
  PROVE  /\ Whole \in Seq(Payload)
         /\ outgoing = <<>> => Whole = offered
         /\ outgoing # <<>> => Len(Whole) + 1 = Len(offered)
         /\ \A k \in 1..Len(Whole) : Whole[k] = offered[k]
<1>1. offered \in Seq(Payload) /\ Len(offered) \in Nat /\ \A k \in 1..Len(offered) : offered[k] \in Payload
  BY Lengths DEF IInv, TypeOK
<1>2. CASE outgoing = <<>>
  BY <1>1, <1>2 DEF Whole
<1>3. CASE outgoing # <<>>
  <2>1. Len(offered) \in Nat \ {0}
    BY <1>1, <1>3, EmptySeq DEF IInv, OutgoingIsOfLast
  <2>3. /\ SubSeq(offered, 1, Len(offered) - 1) \in Seq(Payload)
        /\ Len(SubSeq(offered, 1, Len(offered) - 1)) = Len(offered) - 1
        /\ \A k \in 1..Len(offered) - 1 : SubSeq(offered, 1, Len(offered) - 1)[k] = offered[k]
    BY <1>1, <2>1, Front
  <2> QED
    BY <1>3, <2>1, <2>3 DEF Whole
<1> QED
  BY <1>2, <1>3

\* The frames are those that were written whole if nothing is left of them.
LEMMA CleanEnd ==
  ASSUME IInv, reader = "reading", header = <<>>, wire = <<>>
  PROVE  ~IsTorn /\ frames = Whole
<1>1. /\ LengthBytes \in Nat \ {0} /\ Len(<<>>) = 0 /\ <<>> \in Seq(Byte)
      /\ Len(offered) \in Nat /\ Len(outgoing) \in Nat
      /\ outgoing \in Seq(Byte)
  BY Lengths DEF IInv, TypeOK
<1>2. payload = <<>>
  BY <1>1 DEF IInv, TypeOK
<1>3. Pending = outgoing
  BY <1>1, <1>2, ConcatEmptySeq DEF Pending
<1>4. PICK rest : IsRest(rest) /\ Pending = rest[Len(frames) + 1]
  BY DEF IInv, InStep
<1>5. /\ frames \in Seq(Payload) /\ Len(frames) \in Nat /\ Len(frames) <= Len(offered)
      /\ \A k \in 1..Len(frames) : frames[k] = offered[k]
  BY LenProperties DEF IInv, InStep
<1> DEFINE m == Len(frames) + 1
<1>6. m \in Len(frames) + 1..Len(offered) + 1
  BY <1>1, <1>5
<1>7. /\ m = Len(offered) + 1 => rest[m] = <<>>
      /\ m # Len(offered) + 1 => rest[m] # <<>>
  BY <1>4, <1>5, <1>6, RestFacts DEF IInv
<1>8. Whole \in Seq(Payload) /\ \A k \in 1..Len(Whole) : Whole[k] = offered[k]
  BY WholeFacts
<1>9. ASSUME Len(frames) = Len(Whole) PROVE frames = Whole
  BY <1>5, <1>8, <1>9, SeqEqual
<1>10. CASE outgoing = <<>>
  <2>1. Len(frames) = Len(offered) /\ Whole = offered
    <3>1. rest[m] = <<>> /\ Whole = offered
      BY <1>3, <1>4, <1>10, WholeFacts
    <3>2. m = Len(offered) + 1
      BY <1>7, <3>1
    <3> QED
      BY <1>1, <1>5, <3>1, <3>2
  <2> QED
    BY <1>9, <1>10, <2>1 DEF IsTorn
<1>11. CASE outgoing # <<>>
  <2>1. m \in 1..Len(offered) /\ Len(Whole) + 1 = Len(offered)
    BY <1>3, <1>4, <1>5, <1>6, <1>7, <1>11, WholeFacts
  <2>2. Len(outgoing) <= Len(Framed(Last)) /\ Last \in Payload /\ Len(Framed(Last)) \in Nat
    <3>1. Last \in Payload
      BY <2>1, Lengths DEF IInv, Last
    <3> QED
      BY <1>11, <3>1, FramedFacts, LenProperties DEF IInv, OutgoingIsOfLast
  <2>3. m = Len(offered)
    <3> SUFFICES ASSUME m # Len(offered) PROVE FALSE
      OBVIOUS
    <3>1. m \in Len(frames) + 1..Len(offered) - 1
      BY <1>1, <1>5, <2>1
    <3>2. Len(rest[m]) > Len(Framed(Last))
      BY <1>4, <3>1 DEF IsRest
    <3> QED
      BY <1>1, <1>3, <1>4, <2>2, <3>2
  <2>4. outgoing = Framed(Last)
    <3>1. rest[m] = Framed(offered[m]) \o rest[m + 1] /\ rest[m + 1] = <<>>
      <4>1. m \in Len(frames) + 1..Len(offered)
        BY <1>1, <1>5, <2>1
      <4> HIDE DEF m
      <4> QED
        BY <1>4, <2>3, <4>1 DEF IsRest
    <3>2. Framed(Last) \o <<>> = Framed(Last)
      BY <2>2, FramedFacts, ConcatEmptySeq
    <3> QED
      BY <1>3, <1>4, <2>3, <3>1, <3>2 DEF Last
  <2>5. ~IsTorn
    BY <1>1, <2>2, <2>4 DEF IsTorn, Last
  <2>6. Len(frames) = Len(Whole)
    <3>1. Len(Whole) \in Nat
      BY <1>8, LenProperties
    <3> QED
      BY <1>1, <1>5, <2>1, <2>3, <3>1
  <2> QED
    BY <1>9, <2>5, <2>6
<1> QED
  BY <1>10, <1>11

LEMMA InitStream == Init => Stream!Init
  BY DEF Init, Stream!Init, Whole, IsTorn

LEMMA NextStream ==
  ASSUME IInv, IInv', [Next]_vars
  PROVE  [Stream!Next]_<<Whole, Closing, frames, reader>>
<1>1. ASSUME UNCHANGED <<Whole, Closing, frames>>, reader = "reading", reader' = "failed"
      PROVE  Stream!Next
  BY <1>1 DEF Stream!Next, Stream!Fail, Closing
<1>2. ASSUME UNCHANGED <<offered, outgoing, frames, reader>>, sender = "open", sender' = "closed"
      PROVE  Stream!Next
  <2>1. UNCHANGED Whole
    BY <1>2 DEF Whole
  <2> QED
    BY <1>2, <2>1 DEF Stream!Next, Stream!Leave
<1>3. ASSUME NEW data \in Payload, Offer(data)
      PROVE  [Stream!Next]_<<Whole, Closing, frames, reader>>
  <2>1. UNCHANGED <<frames, reader>> /\ sender = "open" /\ outgoing = <<>>
    BY <1>3 DEF Offer, reading
  <2>2. CASE sender' = "closed"
    <3>1. UNCHANGED <<offered, outgoing>>
      BY <1>3, <2>1, <2>2 DEF Offer
    <3> QED
      BY <1>2, <2>1, <2>2, <3>1
  <2>3. CASE sender' # "closed"
    <3>1. outgoing' = Framed(data) /\ sender' = sender
      BY <1>3, <2>3 DEF Offer
    <3>2. outgoing' # outgoing
      BY <2>1, <3>1, FramedFacts, Lengths DEF IInv
    <3>3. /\ Len(offered') = Len(offered) + 1
          /\ \A k \in 1..Len(offered) : offered'[k] = offered[k]
          /\ offered' \in Seq(Payload)
      BY <1>3, <3>2, OfferFacts DEF IInv, TypeOK
    <3>4. /\ Whole = offered /\ Whole \in Seq(Payload) /\ Len(offered) \in Nat
      BY <2>1, WholeFacts, Lengths DEF IInv
    <3>5. Whole' = SubSeq(offered', 1, Len(offered') - 1)
      BY <2>1, <3>2 DEF Whole
    <3>6. Whole' = Whole
      <4>1. Len(offered') - 1 = Len(offered) /\ Len(offered') > 0
        BY <3>3, <3>4
      <4>2. /\ Whole' \in Seq(Payload) /\ Len(Whole') = Len(offered)
            /\ \A k \in 1..Len(offered) : Whole'[k] = offered'[k]
        BY <3>3, <3>5, <4>1, Front
      <4> QED
        BY <3>3, <3>4, <4>2, SeqEqual
    <3>7. Closing' = Closing
      BY <2>1, <3>1 DEF Closing
    <3> QED
      BY <2>1, <3>6, <3>7
  <2> QED
    BY <2>2, <2>3
<1>4. CASE Write
  <2>1. UNCHANGED <<frames, reader, offered, sender>> /\ sender = "open" /\ outgoing # <<>>
    BY <1>4, WriteFacts DEF Write, reading
  <2>2. Closing' = Closing
    BY <2>1 DEF Closing
  <2>3. CASE outgoing' # <<>>
    BY <2>1, <2>2, <2>3 DEF Whole
  <2>4. CASE outgoing' = <<>>
    <3>1. /\ Whole \in Seq(Payload) /\ Len(Whole) + 1 = Len(offered) /\ Whole' = offered
          /\ \A k \in 1..Len(Whole) : Whole[k] = offered[k]
      BY <2>1, <2>4, WholeFacts DEF Whole
    <3>2. Len(Whole) \in Nat /\ offered \in Seq(Payload) /\ Last \in Payload
      BY <3>1, LenProperties, Lengths DEF IInv, TypeOK, Last
    <3>3. offered = Append(Whole, Last)
      <4>1. /\ Append(Whole, Last) \in Seq(Payload) /\ Len(Append(Whole, Last)) = Len(offered)
            /\ \A k \in 1..Len(Whole) : Append(Whole, Last)[k] = Whole[k]
            /\ Append(Whole, Last)[Len(offered)] = Last
        BY <3>1, <3>2, AppendProperties
      <4>2. \A k \in 1..Len(offered) : k \in 1..Len(Whole) \/ k = Len(offered)
        BY <3>1, <3>2
      <4>3. \A k \in 1..Len(offered) : offered[k] = Append(Whole, Last)[k]
        BY <3>1, <4>1, <4>2 DEF Last
      <4> QED
        BY <3>2, <4>1, <4>3, SeqEqual
    <3>4. Stream!Send(Last)
      BY <2>1, <2>2, <3>1, <3>3 DEF Stream!Send, Closing
    <3> QED
      BY <3>2, <3>4 DEF Stream!Next
  <2> QED
    BY <2>3, <2>4
<1>5. CASE Stop
  BY <1>2, <1>5 DEF Stop, reading
<1>6. CASE Read
  <2>1. PICK n \in 1..Len(wire) : /\ n <= Wanted
                                  /\ ReadHeader(n) \/ ReadPayload(n)
                                  /\ wire' = Dropped(wire, n)
    BY <1>6 DEF Read
  <2>2. UNCHANGED <<offered, outgoing, sender>> /\ reader = "reading"
    BY <1>6 DEF Read, writing
  <2>3. UNCHANGED <<Whole, Closing>>
    BY <2>2 DEF Whole, Closing, IsTorn
  <2>4. PICK rest : IsRest(rest) /\ Pending = rest[Returned + 1]
    BY <2>2 DEF IInv, InStep, Returned
  <2>5. CASE ReadHeader(n)
    <3>1. frames' = frames /\ reader' \in {reader, "failed"}
      BY <2>5 DEF ReadHeader
    <3> QED
      BY <1>1, <2>2, <2>3, <3>1
  <2>6. CASE ReadPayload(n) /\ frames' # frames
    <3> DEFINE next == Returned + 1
    <3>1. /\ next \in 1..Len(offered) /\ frames' = Append(frames, offered[next])
          /\ Len(offered[next]) \in 1..MAX_FRAME_BYTES
          /\ next = Len(offered) => outgoing = <<>>
      BY <2>1, <2>2, <2>4, <2>6, ReadFacts
    <3>2. /\ Whole \in Seq(Payload) /\ \A k \in 1..Len(Whole) : Whole[k] = offered[k]
          /\ outgoing = <<>> => Whole = offered
          /\ outgoing # <<>> => Len(Whole) + 1 = Len(offered)
      BY WholeFacts
    <3>3. Len(Whole) \in Nat /\ Len(offered) \in Nat /\ Len(frames) \in Nat
      BY <3>2, LenProperties, Lengths DEF IInv, InStep
    <3>4. next \in 1..Len(Whole)
      BY <3>1, <3>2, <3>3 DEF Returned
    <3>5. Len(frames) < Len(Whole) /\ frames' = Append(frames, Whole[Len(frames) + 1])
      BY <3>1, <3>2, <3>3, <3>4 DEF Returned
    <3>6. Len(frames'[Len(frames')]) \in 1..MAX_FRAME_BYTES
      <4>1. offered[next] \in Payload /\ frames \in Seq(Payload)
        BY <3>1, Lengths DEF IInv, InStep
      <4>2. Len(frames') = next /\ frames'[next] = offered[next]
        BY <3>1, <4>1, AppendProperties DEF Returned
      <4> QED
        BY <3>1, <4>2
    <3>7. reader' = reader
      BY <2>6 DEF ReadPayload
    <3> QED
      BY <2>2, <2>3, <3>5, <3>6, <3>7 DEF Stream!Next, Stream!Get, Closing
  <2>7. CASE ReadPayload(n) /\ frames' = frames
    BY <2>3, <2>7 DEF ReadPayload
  <2> QED
    BY <2>1, <2>5, <2>6, <2>7
<1>7. CASE EndOfStream
  <2>1. UNCHANGED <<offered, outgoing, sender, frames>> /\ reader = "reading"
        /\ wire = <<>> /\ sender = "closed"
    BY <1>7 DEF EndOfStream, writing
  <2>2. UNCHANGED <<Whole, Closing>>
    BY <2>1 DEF Whole, Closing, IsTorn
  <2>3. CASE header = <<>>
    <3>1. reader' = "ended"
      BY <1>7, <2>3 DEF EndOfStream
    <3>2. ~IsTorn /\ frames = Whole
      BY <2>1, <2>3, CleanEnd
    <3> QED
      BY <2>1, <2>2, <3>1, <3>2 DEF Stream!Next, Stream!End, Closing
  <2>4. CASE header # <<>>
    BY <1>1, <1>7, <2>1, <2>2, <2>4 DEF EndOfStream
  <2> QED
    BY <2>3, <2>4
<1>8. CASE ReadFails
  <2>1. UNCHANGED <<Whole, Closing>>
    BY <1>8 DEF ReadFails, writing, Whole, Closing, IsTorn
  <2> QED
    BY <1>1, <1>8, <2>1 DEF ReadFails
<1>9. CASE UNCHANGED vars
  BY <1>9 DEF vars, writing, reading, Whole, Closing, IsTorn
<1> QED
  BY <1>3, <1>4, <1>5, <1>6, <1>7, <1>8, <1>9 DEF Next
-----------------------------------------------------------------------------
(* The results *)

LEMMA AlwaysInvariant == Spec => []IInv
  BY InitInvariant, NextInvariant, PTL DEF Spec

\* The state has its types: whoever writes, the buffer for a payload is as long as the complete
\* prefix says, and that is within the limit (protocol.rs:73-96).
THEOREM FramingTypeCorrect == Spec => []TypeOK
<1>1. IInv => TypeOK
  BY DEF IInv
<1> QED
  BY <1>1, AlwaysInvariant, PTL

\* The safety part of FramesKept: the frames come out as they went in, each within the limit, a
\* torn one never does, and a clean end is reported only after all of them, however the bytes are
\* cut into reads and writes and wherever the stream ends (protocol.rs:53-103).
THEOREM FramesAreKept ==
  Spec => Stream!Init /\ [][Stream!Next]_<<Whole, Closing, frames, reader>>
<1>1. Init => Stream!Init
  BY InitStream
<1>2. IInv /\ IInv' /\ [Next]_vars => [Stream!Next]_<<Whole, Closing, frames, reader>>
  BY NextStream
<1> QED
  BY <1>1, <1>2, AlwaysInvariant, PTL DEF Spec
=============================================================================
