-------------------------- MODULE NativeScanProofs --------------------------
(***************************************************************************)
(* Proofs about NativeScan for every set of files, chunk size, limit, rule *)
(* table and room in the socket: the pipeline from the extension to the    *)
(* daemon, and that what the call resolves to is the truth or no answer.   *)
(***************************************************************************)
EXTENDS NativeScan, SequenceTheorems, TLAPS

Session == INSTANCE ScanSessionProofs
  WITH Identifier <- {ScanId}, ValidIdentifier <- {ScanId},
       DeclaredSize <- {Len(bytes) : bytes \in File}, Offset <- Nat, ChunkData <- AllChunks

LEMMA ChunkCountIsNat ==
  ASSUME NEW bytes \in Seq(Byte)
  PROVE  ChunkCount(bytes) \in Nat
<1>1. Len(bytes) \in Nat /\ RAW_CHUNK_BYTES \in Nat \ {0}
  BY NativeAssumption, LenProperties
<1> QED
  BY <1>1 DEF ChunkCount

LEMMA ChunkFrameFacts ==
  ASSUME NEW bytes \in Seq(Byte), NEW n \in 1..ChunkCount(bytes)
  PROVE  LET frame == ChunkFrame(bytes, n) IN
           /\ frame = [type |-> "scan_chunk", id |-> ScanId, offset |-> frame.offset,
                       data |-> frame.data]
           /\ frame.offset \in Nat
           /\ frame.data \in Seq(Byte)
           /\ \E end \in 0..Len(bytes) : frame.data = SubSeq(bytes, frame.offset + 1, end)
<1> DEFINE offset == (n - 1) * RAW_CHUNK_BYTES
           end == IF offset + RAW_CHUNK_BYTES < Len(bytes) THEN offset + RAW_CHUNK_BYTES ELSE Len(bytes)
<1>1. Len(bytes) \in Nat /\ RAW_CHUNK_BYTES \in Nat \ {0} /\ n \in Nat \ {0}
  BY NativeAssumption, LenProperties, ChunkCountIsNat
<1>2. offset \in Nat
  BY <1>1
<1> HIDE DEF offset
<1>3. end \in 0..Len(bytes)
  BY <1>1, <1>2
<1> HIDE DEF end
<1>4. SubSeq(bytes, offset + 1, end) \in Seq(Byte)
  BY <1>1, <1>2, <1>3, SubSeqProperties
<1> DEFINE data == SubSeq(bytes, offset + 1, end)
           frame == [type |-> "scan_chunk", id |-> ScanId, offset |-> offset, data |-> data]
<1>5. ChunkFrame(bytes, n) = frame
  BY DEF ChunkFrame, offset, end
<1>6. data \in Seq(Byte) /\ data = SubSeq(bytes, offset + 1, end)
  BY <1>4
<1> HIDE DEF data
<1>7. frame.offset = offset /\ frame.data = data /\ frame.offset \in Nat
  BY <1>2
<1>8. frame.data = SubSeq(bytes, frame.offset + 1, end)
  BY <1>6, <1>7
<1>9. frame = [type |-> "scan_chunk", id |-> ScanId, offset |-> frame.offset, data |-> frame.data]
  BY <1>7
<1> HIDE DEF frame
<1> QED
  BY <1>3, <1>5, <1>6, <1>7, <1>8, <1>9

\* What multiplication by the chunk size does, and the quotient that ChunkCount takes.
LEMMA Products ==
  ASSUME NEW R \in Nat \ {0}, NEW k \in Nat, NEW n \in Nat, k <= n
  PROVE  k * R \in Nat /\ n * R \in Nat /\ k * R <= n * R /\ (k + 1) * R = k * R + R
<1>1. PICK d \in Nat : n = k + d
  BY n - k \in Nat /\ n = k + (n - k)
<1>2. d * R \in Nat /\ k * R \in Nat /\ n * R = k * R + d * R
  BY <1>1
<1> QED
  BY <1>2

LEMMA Quotient ==
  ASSUME NEW R \in Nat \ {0}, NEW a \in Nat
  PROVE  a \div R \in Nat /\ (a \div R) * R <= a /\ a < (a \div R) * R + R
  OBVIOUS

\* The chunks cover the file, and each of them starts inside it.
LEMMA ChunkCountFacts ==
  ASSUME NEW bytes \in Seq(Byte)
  PROVE  /\ Len(bytes) <= ChunkCount(bytes) * RAW_CHUNK_BYTES
         /\ \A n \in 1..ChunkCount(bytes) : (n - 1) * RAW_CHUNK_BYTES < Len(bytes)
         /\ ChunkCount(bytes) <= Len(bytes)
<1> DEFINE L == Len(bytes)
           R == RAW_CHUNK_BYTES
           C == ChunkCount(bytes)
<1>1. L \in Nat /\ R \in Nat \ {0} /\ C \in Nat
  BY NativeAssumption, LenProperties, ChunkCountIsNat
<1>2. C * R <= L + R - 1 /\ L + R - 1 < C * R + R
  BY <1>1, Quotient DEF ChunkCount
<1> HIDE DEF L, R, C
<1>3. C * R \in Nat
  BY <1>1, Products
<1>4. L <= C * R
  BY <1>1, <1>2, <1>3
<1>5. ASSUME NEW n \in 1..C
      PROVE  (n - 1) * R < L
  <2>1. n - 1 \in Nat /\ C - 1 \in Nat /\ n - 1 <= C - 1 /\ (C - 1) + 1 = C
    BY <1>1
  <2>2. (n - 1) * R \in Nat /\ (C - 1) * R \in Nat /\ (n - 1) * R <= (C - 1) * R
    BY <1>1, <2>1, Products
  <2>3. C * R = (C - 1) * R + R
    BY <1>1, <2>1, Products
  <2> QED
    BY <1>1, <1>2, <1>3, <2>2, <2>3
<1>6. C <= L
  <2> SUFFICES ASSUME C # 0 PROVE C <= L
    BY <1>1
  <2>1. C - 1 \in Nat /\ C \in 1..C
    BY <1>1
  <2>2. (C - 1) * R < L
    BY <1>5, <2>1
  <2>3. C - 1 <= (C - 1) * R
    <3>1. PICK r \in Nat : R = r + 1
      BY <1>1, R - 1 \in Nat /\ R = (R - 1) + 1
    <3>2. (C - 1) * r \in Nat /\ (C - 1) * (r + 1) = (C - 1) * r + (C - 1)
      BY <2>1
    <3> QED
      BY <2>1, <3>1, <3>2
  <2>4. (C - 1) * R \in Nat
    BY <1>1, <2>1, Products
  <2> QED
    BY <1>1, <2>1, <2>2, <2>3, <2>4
<1> QED
  BY <1>4, <1>5, <1>6 DEF L, R, C

\* How many bytes of the file its first n chunks hold.
Upto(bytes, n) == IF n * RAW_CHUNK_BYTES < Len(bytes) THEN n * RAW_CHUNK_BYTES ELSE Len(bytes)

\* nativeClient.ts:72-75: a chunk starts where the ones before it end.
LEMMA ChunkIsNext ==
  ASSUME NEW bytes \in Seq(Byte), NEW n \in 1..ChunkCount(bytes)
  PROVE  /\ Upto(bytes, n - 1) \in 0..Len(bytes) /\ Upto(bytes, n) \in Upto(bytes, n - 1)..Len(bytes)
         /\ ChunkFrame(bytes, n) =
              [type |-> "scan_chunk", id |-> ScanId, offset |-> Upto(bytes, n - 1),
               data |-> SubSeq(bytes, Upto(bytes, n - 1) + 1, Upto(bytes, n))]
<1> DEFINE L == Len(bytes)
           R == RAW_CHUNK_BYTES
           start == (n - 1) * R
<1>1. L \in Nat /\ R \in Nat \ {0} /\ n \in Nat \ {0} /\ n - 1 \in Nat
  BY NativeAssumption, LenProperties, ChunkCountIsNat
<1>2. start \in Nat /\ n * R = start + R
  BY <1>1, (n - 1) + 1 = n, Products
<1>3. start < L
  BY ChunkCountFacts
<1>4. Upto(bytes, n - 1) = start
  BY <1>3 DEF Upto
<1>5. Upto(bytes, n) = IF start + R < L THEN start + R ELSE L
  BY <1>2 DEF Upto
<1>6. ChunkFrame(bytes, n) = [type |-> "scan_chunk", id |-> ScanId, offset |-> start,
                              data |-> SubSeq(bytes, start + 1, Upto(bytes, n))]
  BY <1>5 DEF ChunkFrame
<1>7. start \in 0..L /\ Upto(bytes, n) \in start..L
  <2> HIDE DEF L, R, start
  <2> QED
    BY <1>1, <1>2, <1>3, <1>5
<1> QED
  BY <1>4, <1>6, <1>7 DEF L

\* After its last chunk the file is complete, and before its first nothing of it is there.
LEMMA ChunksAreTheFile ==
  ASSUME NEW bytes \in Seq(Byte)
  PROVE  Upto(bytes, 0) = 0 /\ Upto(bytes, ChunkCount(bytes)) = Len(bytes)
<1>1. Len(bytes) \in Nat /\ RAW_CHUNK_BYTES \in Nat
  BY NativeAssumption, LenProperties
<1>2. 0 * RAW_CHUNK_BYTES = 0
  BY <1>1
<1>3. Upto(bytes, 0) = 0
  BY <1>1, <1>2 DEF Upto
<1>4. Len(bytes) <= ChunkCount(bytes) * RAW_CHUNK_BYTES
  BY ChunkCountFacts
<1>5. ChunkCount(bytes) * RAW_CHUNK_BYTES \in Nat
  BY NativeAssumption, ChunkCountIsNat, Products
<1>6. Upto(bytes, ChunkCount(bytes)) = Len(bytes)
  BY <1>1, <1>4, <1>5 DEF Upto
<1> QED
  BY <1>3, <1>6

LEMMA ChunksAreBytes == AllChunks \subseteq Seq(Byte)
  BY NativeAssumption, ChunkFrameFacts DEF AllChunks

\* What the module of the session's proofs supposes of its constants.
LEMMA SessionAssumptions ==
  /\ {ScanId} \subseteq {ScanId}
  /\ MAX_FILE_BYTES \in Nat /\ MaxFrames \in Nat
  /\ {Len(bytes) : bytes \in File} \subseteq Nat /\ Nat \subseteq Nat
  /\ AllChunks \subseteq Seq(Byte) /\ BadBase64 \notin Seq(Byte)
  /\ PROTOCOL_VERSION \in Protocol
  /\ None \notin [id: {ScanId}, declared_size: Nat, bytes: Seq(Byte)]
  /\ RULES \in Seq([id: RuleId, pattern: Seq(SUBSET Byte)]) /\ NoRule \notin RuleId
<1>1. {Len(bytes) : bytes \in File} \subseteq Nat
  BY NativeAssumption, LenProperties
<1>2. None \notin [id: {ScanId}, declared_size: Nat, bytes: Seq(Byte)]
  BY MarksAssumption DEF Daemon!ActiveScan
<1>3. MaxFrames \in Nat
  BY NativeAssumption DEF MaxFrames
<1> QED
  BY <1>1, <1>2, <1>3, ChunksAreBytes, NativeAssumption, MarksAssumption

LEMMA ScanIsVerdict ==
  ASSUME NEW bytes \in Seq(Byte)
  PROVE  Daemon!Scan(bytes) \in Daemon!Verdict
<1>1. Session!Scan(bytes) \in Session!Verdict
  BY SessionAssumptions, Session!ScanIsVerdict
<1> QED
  BY <1>1 DEF Session!Scan, Session!Verdict, Session!Matches, Session!Allow, Session!Block,
              Daemon!Scan, Daemon!Verdict, Daemon!Matches, Daemon!Allow, Daemon!Block
-----------------------------------------------------------------------------
(* The frames of a call *)

\* Each of them is a request of its call: about its file and under its identifier.
IsFrameOf(request, frame) ==
  \/ /\ request.kind = "health"
     /\ frame = [type |-> "health", id |-> ScanId, protocol |-> request.protocol]
  \/ /\ request.kind = "scan"
     /\ frame = [type |-> "scan_begin", id |-> ScanId, size |-> Len(request.file),
                 protocol |-> request.protocol]
  \/ /\ request.kind = "scan"
     /\ \E n \in 1..ChunkCount(request.file) : frame = ChunkFrame(request.file, n)
  \/ /\ request.kind = "scan"
     /\ frame = [type |-> "scan_end", id |-> ScanId]

Call == [kind: {"scan"}, file: File, protocol: Protocol]
          \cup [kind: {"health"}, file: {<<>>}, protocol: Protocol]

LEMMA FramesOfCall ==
  ASSUME NEW request \in Call
  PROVE  /\ Frames(request) \in Seq(Daemon!Request)
         /\ \A k \in 1..Len(Frames(request)) : IsFrameOf(request, Frames(request)[k])
<1> DEFINE S == {frame \in Daemon!Request : IsFrameOf(request, frame)}
<1>1. Frames(request) \in Seq(S)
  <2>1. CASE request.kind = "health"
    <3>1. request.protocol \in Protocol
      BY DEF Call
    <3>2. [type |-> "health", id |-> ScanId, protocol |-> request.protocol] \in S
      BY <2>1, <3>1 DEF IsFrameOf, Daemon!Request, Daemon!HealthRequest
    <3> QED
      BY <2>1, <3>2 DEF Frames
  <2>2. CASE request.kind = "scan"
    <3>1. request.protocol \in Protocol /\ request.file \in File /\ request.file \in Seq(Byte)
      BY <2>2, NativeAssumption DEF Call
    <3> DEFINE first == [type |-> "scan_begin", id |-> ScanId, size |-> Len(request.file),
                         protocol |-> request.protocol]
               chunks == [n \in 1..ChunkCount(request.file) |-> ChunkFrame(request.file, n)]
               last == [type |-> "scan_end", id |-> ScanId]
    <3>2. first \in S
      BY <2>2, <3>1 DEF IsFrameOf, Daemon!Request, Daemon!BeginRequest
    <3>3. last \in S
      BY <2>2 DEF IsFrameOf, Daemon!Request, Daemon!EndRequest
    <3>4. \A n \in 1..ChunkCount(request.file) : ChunkFrame(request.file, n) \in S
      <4> SUFFICES ASSUME NEW n \in 1..ChunkCount(request.file)
                   PROVE  ChunkFrame(request.file, n) \in S
        OBVIOUS
      <4>1. ChunkFrame(request.file, n).data \in AllChunks
        BY <3>1 DEF AllChunks
      <4>2. ChunkFrame(request.file, n) \in Daemon!ChunkRequest
        BY <3>1, <4>1, ChunkFrameFacts DEF Daemon!ChunkRequest
      <4> QED
        BY <2>2, <4>2 DEF IsFrameOf, Daemon!Request
    <3>5. chunks \in Seq(S)
      <4>1. ChunkCount(request.file) \in Nat
        BY <3>1, ChunkCountIsNat
      <4> QED
        BY <3>4, <4>1
    <3>6. <<first>> \in Seq(S) /\ <<last>> \in Seq(S)
      BY <3>2, <3>3
    <3>7. <<first>> \o chunks \o <<last>> \in Seq(S)
      <4> HIDE DEF S, chunks, first, last
      <4> QED
        BY <3>5, <3>6, ConcatProperties
    <3> QED
      BY <2>2, <3>7 DEF Frames
  <2> QED
    BY <2>1, <2>2 DEF Call
<1>2. Frames(request) \in Seq(Daemon!Request)
  BY <1>1, SeqMonotonic
<1>3. \A k \in 1..Len(Frames(request)) : Frames(request)[k] \in S
  BY <1>1, ElementOfSeq
<1> QED
  BY <1>2, <1>3

\* One element, a sequence and another element.
LEMMA Enclosed ==
  ASSUME NEW S, NEW first \in S, NEW middle \in Seq(S), NEW last \in S
  PROVE  LET all == <<first>> \o middle \o <<last>> IN
           /\ Len(all) = Len(middle) + 2
           /\ all[1] = first
           /\ \A n \in 1..Len(middle) : all[n + 1] = middle[n]
           /\ all[Len(middle) + 2] = last
<1> DEFINE head == <<first>>
           end == <<last>>
           opening == head \o middle
           all == opening \o end
           m == Len(middle)
<1>1. /\ head \in Seq(S) /\ Len(head) = 1 /\ head[1] = first
      /\ end \in Seq(S) /\ Len(end) = 1 /\ end[1] = last
      /\ m \in Nat
  BY LenProperties
<1> HIDE DEF head, end
<1>2. /\ opening \in Seq(S) /\ Len(opening) = 1 + m
      /\ \A i \in 1..(1 + m) : opening[i] = IF i <= 1 THEN head[i] ELSE middle[i - 1]
  <2>1. /\ opening \in Seq(S) /\ Len(opening) = Len(head) + m
        /\ \A i \in 1..(Len(head) + m) :
              opening[i] = IF i <= Len(head) THEN head[i] ELSE middle[i - Len(head)]
    BY <1>1, ConcatProperties
  <2> HIDE DEF opening, m
  <2> QED
    BY <1>1, <2>1
<1> HIDE DEF opening, m
<1>3. /\ Len(all) = m + 2
      /\ \A i \in 1..(m + 2) : all[i] = IF i <= 1 + m THEN opening[i] ELSE end[i - (1 + m)]
  <2>1. /\ Len(all) = Len(opening) + Len(end)
        /\ \A i \in 1..(Len(opening) + Len(end)) :
              all[i] = IF i <= Len(opening) THEN opening[i] ELSE end[i - Len(opening)]
    BY <1>1, <1>2, ConcatProperties
  <2>2. Len(opening) + Len(end) = m + 2
    BY <1>1, <1>2
  <2> HIDE DEF all
  <2> QED
    BY <1>2, <2>1, <2>2
<1> HIDE DEF all
<1>4. all[1] = first
  <2>1. 1 \in 1..(m + 2) /\ 1 <= 1 + m /\ 1 \in 1..(1 + m)
    BY <1>1
  <2> QED
    BY <1>1, <1>2, <1>3, <2>1
<1>5. ASSUME NEW n \in 1..m
      PROVE  all[n + 1] = middle[n]
  <2>1. /\ n + 1 \in 1..(m + 2) /\ n + 1 <= 1 + m /\ n + 1 \in 1..(1 + m)
        /\ ~(n + 1 <= 1) /\ (n + 1) - 1 = n
    BY <1>1
  <2> QED
    BY <1>2, <1>3, <2>1
<1>6. all[m + 2] = last
  <2>1. m + 2 \in 1..(m + 2) /\ ~(m + 2 <= 1 + m) /\ (m + 2) - (1 + m) = 1
    BY <1>1
  <2> QED
    BY <1>1, <1>3, <2>1
<1> QED
  BY <1>3, <1>4, <1>5, <1>6 DEF all, opening, head, end, m

\* The frames of a scan by their position.
LEMMA FramesOfScan ==
  ASSUME NEW request \in Call, request.kind = "scan"
  PROVE  /\ Len(Frames(request)) = ChunkCount(request.file) + 2
         /\ Frames(request)[1] = [type |-> "scan_begin", id |-> ScanId,
                                  size |-> Len(request.file), protocol |-> request.protocol]
         /\ \A n \in 1..ChunkCount(request.file) :
               Frames(request)[n + 1] = ChunkFrame(request.file, n)
         /\ Frames(request)[ChunkCount(request.file) + 2] = [type |-> "scan_end", id |-> ScanId]
<1> DEFINE C == ChunkCount(request.file)
           first == [type |-> "scan_begin", id |-> ScanId, size |-> Len(request.file),
                     protocol |-> request.protocol]
           chunks == [n \in 1..C |-> ChunkFrame(request.file, n)]
           last == [type |-> "scan_end", id |-> ScanId]
           S == {first, last} \cup {ChunkFrame(request.file, n) : n \in 1..C}
<1>1. C \in Nat
  BY ChunkCountIsNat, NativeAssumption DEF Call
<1>2. Frames(request) = <<first>> \o chunks \o <<last>>
  BY DEF Frames
<1>3. first \in S /\ last \in S
  OBVIOUS
<1>4. /\ chunks \in Seq(S) /\ Len(chunks) = C
      /\ \A n \in 1..C : chunks[n] = ChunkFrame(request.file, n)
  <2> HIDE DEF C, first, last
  <2> QED
    BY <1>1
<1> HIDE DEF C, first, last, chunks, S
<1>5. LET all == <<first>> \o chunks \o <<last>> IN
        /\ Len(all) = Len(chunks) + 2
        /\ all[1] = first
        /\ \A n \in 1..Len(chunks) : all[n + 1] = chunks[n]
        /\ all[Len(chunks) + 2] = last
  BY <1>3, <1>4, Enclosed
<1> QED
  BY <1>2, <1>4, <1>5 DEF C, first, last
-----------------------------------------------------------------------------
(* Prefixes, and frames that move from one queue to the next *)

LEMMA PrefixByElements ==
  ASSUME NEW S, NEW s \in Seq(S), NEW t \in Seq(S)
  PROVE  IsPrefix(s, t) <=> Len(s) <= Len(t) /\ \A k \in 1..Len(s) : s[k] = t[k]
<1>1. Len(s) \in Nat /\ Len(t) \in Nat
  BY LenProperties
<1>2. SubSeq(s, 1, Len(s)) = s
  BY SubSeqFull
<1>3. ASSUME Len(s) <= Len(t)
      PROVE  /\ SubSeq(t, 1, Len(s)) \in Seq(S)
             /\ Len(SubSeq(t, 1, Len(s))) = Len(s)
             /\ \A k \in 1..Len(s) : SubSeq(t, 1, Len(s))[k] = t[k]
  <2>1. \A k \in 1..Len(s) : t[k] \in S
    BY <1>1, <1>3, ElementOfSeq
  <2> QED
    BY <1>1, <2>1, SubSeqProperties
<1>4. ASSUME Len(s) <= Len(t), \A k \in 1..Len(s) : s[k] = t[k]
      PROVE  s = SubSeq(t, 1, Len(s))
  BY <1>3, <1>4, SeqEqual
<1> QED
  BY <1>2, <1>3, <1>4 DEF IsPrefix

LEMMA MoveHead ==
  ASSUME NEW S, NEW a \in Seq(S), NEW b \in Seq(S), b # <<>>
  PROVE  Append(a, Head(b)) \o Tail(b) = a \o b
<1>1. Head(b) \in S /\ Tail(b) \in Seq(S) /\ b = <<Head(b)>> \o Tail(b)
  BY HeadTailProperties
<1>2. Append(a, Head(b)) = a \o <<Head(b)>> /\ <<Head(b)>> \in Seq(S)
  BY <1>1, AppendIsConcat
<1> QED
  BY <1>1, <1>2, ConcatAssociative

\* The head of a sequence becomes the last of the one before it.
HeadMoves(S) ==
  \A a, b, c \in Seq(S) : c # <<>> => (a \o Append(b, Head(c))) \o Tail(c) = (a \o b) \o c

LEMMA MoveHeadBehind ==
  ASSUME NEW S
  PROVE  HeadMoves(S)
<1> SUFFICES ASSUME NEW a \in Seq(S), NEW b \in Seq(S), NEW c \in Seq(S)
             PROVE  c # <<>> => (a \o Append(b, Head(c))) \o Tail(c) = (a \o b) \o c
  BY DEF HeadMoves
<1>1. \A t, u \in Seq(S) : (a \o t) \o u = a \o (t \o u)
  BY ConcatAssociative
<1>2. SUFFICES ASSUME c # <<>>
               PROVE  (a \o Append(b, Head(c))) \o Tail(c) = (a \o b) \o c
  OBVIOUS
<1> DEFINE more == Append(b, Head(c))
           rest == Tail(c)
<1>3. Head(c) \in S /\ rest \in Seq(S)
  BY <1>2, HeadTailProperties
<1>4. more \in Seq(S)
  BY <1>3, AppendProperties
<1>5. more \o rest = b \o c
  BY <1>2, MoveHead
<1> HIDE DEF more, rest
<1>6. (a \o more) \o rest = a \o (more \o rest)
  BY <1>1, <1>3, <1>4, Zenon
<1>7. (a \o b) \o c = a \o (b \o c)
  BY <1>1, Zenon
<1> QED
  BY <1>5, <1>6, <1>7 DEF more, rest

LEMMA PrefixOfLess ==
  ASSUME NEW S, NEW a \in Seq(S), NEW b \in Seq(S), NEW t \in Seq(S), IsPrefix(a \o b, t),
         NEW k \in 0..Len(b)
  PROVE  SubSeq(b, 1, k) \in Seq(S) /\ IsPrefix(a \o SubSeq(b, 1, k), t)
<1>1. Len(a) \in Nat /\ Len(b) \in Nat /\ Len(t) \in Nat
  BY LenProperties
<1>2. /\ SubSeq(b, 1, k) \in Seq(S) /\ Len(SubSeq(b, 1, k)) = k
      /\ \A j \in 1..k : SubSeq(b, 1, k)[j] = b[j]
  <2>1. \A j \in 1..k : b[j] \in S
    BY <1>1, ElementOfSeq
  <2> QED
    BY <1>1, <2>1, SubSeqProperties
<1> DEFINE less == SubSeq(b, 1, k)
<1> HIDE DEF less
<1>3. /\ a \o less \in Seq(S) /\ Len(a \o less) = Len(a) + k
      /\ \A j \in 1..(Len(a) + k) : (a \o less)[j] = IF j <= Len(a) THEN a[j] ELSE less[j - Len(a)]
  BY <1>2, ConcatProperties DEF less
<1>4. /\ a \o b \in Seq(S) /\ Len(a \o b) = Len(a) + Len(b)
      /\ \A j \in 1..(Len(a) + Len(b)) : (a \o b)[j] = IF j <= Len(a) THEN a[j] ELSE b[j - Len(a)]
  BY ConcatProperties
<1>5. \A j \in 1..(Len(a) + k) : (a \o less)[j] = (a \o b)[j]
  BY <1>1, <1>2, <1>3, <1>4 DEF less
<1>6. Len(a \o b) <= Len(t) /\ \A j \in 1..Len(a \o b) : (a \o b)[j] = t[j]
  BY <1>4, PrefixByElements
<1>7. Len(a \o less) <= Len(t) /\ \A j \in 1..Len(a \o less) : (a \o less)[j] = t[j]
  BY <1>1, <1>3, <1>4, <1>5, <1>6
<1>8. IsPrefix(a \o less, t)
  BY <1>3, <1>7, PrefixByElements
<1> QED
  BY <1>2, <1>8 DEF less

LEMMA PrefixOfFirst ==
  ASSUME NEW S, NEW a \in Seq(S), NEW b \in Seq(S), NEW t \in Seq(S), IsPrefix(a \o b, t)
  PROVE  IsPrefix(a, t)
<1>1. IsPrefix(a \o SubSeq(b, 1, 0), t)
  BY PrefixOfLess, LenProperties
<1>2. SubSeq(b, 1, 0) = <<>>
  BY SubSeqEmpty
<1>3. a \o <<>> = a
  BY ConcatEmptySeq
<1> QED
  BY <1>1, <1>2, <1>3
-----------------------------------------------------------------------------
(* The inductive invariant *)

\* The frames come from the call, in order, and nothing is anywhere before it has posted them.
InOrder ==
  /\ ask \in Call
  /\ IsPrefix(log \o toDaemon, Frames(ask))
  /\ conn = "open" => IsPrefix(log \o toDaemon \o toBroker, Frames(ask))
  /\ port = "open" /\ conn = "open" => log \o toDaemon \o toBroker = Frames(ask)
  /\ port = "posting" => toBroker = <<>> /\ toDaemon = <<>> /\ log = <<>>

\* What the daemon has reassembled is a part of the file from its start.
BufferIsAPart ==
  active # None =>
    /\ ask.kind = "scan" /\ ask.protocol = PROTOCOL_VERSION
    /\ \E m \in 0..Len(ask.file) :
         active = [id |-> ScanId, declared_size |-> Len(ask.file), bytes |-> SubSeq(ask.file, 1, m)]

\* The requests in the socket that the daemon will answer.
Asking == {k \in 1..Len(toDaemon) : toDaemon[k].type \in {"health", "scan_end"}}

\* While the broker waits there is one answer at most, and none is asked for behind it.
OneAnswer ==
  broker = "awaiting" /\ taken < Len(written) => taken + 1 = Len(written) /\ Asking = {}

IsTrue(message) == OutcomeOf(message) \in Promise!Truths(ask)

AnswersAreTrue ==
  /\ \A n \in 1..Len(written) : IsTrue(written[n])
  /\ \A n \in 1..Len(toClient) : IsTrue(toClient[n])

IInv == TypeOK /\ InOrder /\ LockStep /\ OneAnswer /\ BufferIsAPart /\ AnswersAreTrue

LEMMA InitInvariant == Init => IInv
<1> SUFFICES ASSUME Init PROVE IInv
  OBVIOUS
<1> USE EmptySeq DEF Init, Daemon!Init
<1>1. ask \in Call
  BY DEF Call
<1>2. TypeOK
  BY <1>1, NativeAssumption DEF TypeOK, Daemon!TypeOK, Call
<1>3. /\ log \o toDaemon = <<>> /\ log \o toDaemon \o toBroker = <<>>
  BY ConcatEmptySeq
<1>4. IsPrefix(<<>>, Frames(ask))
  <2>1. Frames(ask) \in Seq(Daemon!Request)
    BY <1>1, FramesOfCall
  <2> DEFINE frames == Frames(ask)
             none == <<>>
  <2>2. frames \in Seq(Daemon!Request) /\ Len(frames) \in Nat
    BY <2>1, LenProperties
  <2>3. none \in Seq(Daemon!Request) /\ Len(none) = 0
    BY EmptySeq
  <2> HIDE DEF frames, none
  <2>5. Len(none) <= Len(frames) /\ \A k \in 1..Len(none) : none[k] = frames[k]
    BY <2>2, <2>3
  <2>4. IsPrefix(none, frames)
    BY <2>2, <2>3, <2>5, PrefixByElements
  <2> QED
    BY <2>4 DEF frames, none
<1>5. InOrder
  BY <1>1, <1>3, <1>4 DEF InOrder
<1> QED
  BY <1>2, <1>5 DEF IInv, LockStep, OneAnswer, BufferIsAPart, AnswersAreTrue
-----------------------------------------------------------------------------
(* The daemon's turn *)

\* What one turn of the daemon's loop does.
Effect(request) ==
  \/ /\ request.type = "health" /\ UNCHANGED <<conn, active>>
     /\ written' = Append(written, [type |-> "health", at |-> Len(log) + 1, id |-> request.id,
                                    protocol |-> PROTOCOL_VERSION,
                                    status |-> Daemon!HealthStatus(request.protocol)])
  \/ /\ request.type = "scan_begin" /\ Daemon!CanBegin(request) /\ UNCHANGED <<conn, written>>
     /\ active' = [id |-> request.id, declared_size |-> request.size, bytes |-> <<>>]
  \/ /\ request.type = "scan_chunk" /\ Daemon!CanAppend(request) /\ UNCHANGED <<conn, written>>
     /\ active' = [active EXCEPT !.bytes = @ \o request.data]
  \/ /\ request.type = "scan_end" /\ Daemon!CanFinish(request) /\ UNCHANGED conn
     /\ active' = None
     /\ written' = Append(written, [type |-> "verdict", at |-> Len(log) + 1, id |-> request.id,
                                    verdict |-> Daemon!Scan(active.bytes)])
  \/ conn' = "failed" /\ active' = None /\ written' = written

LEMMA HandleEffect ==
  ASSUME NEW request, Daemon!Handle(request)
  PROVE  conn = "open" /\ log' = Append(log, request) /\ Effect(request)
  BY DEF Daemon!Handle, Daemon!Health, Daemon!Begin, Daemon!Chunk, Daemon!End, Daemon!Reject,
         Daemon!WriteFails, Daemon!Fail, Daemon!Read, Daemon!Respond, Daemon!CanServe, Effect

\* The frame it takes is the one of the call that follows those it has read.
LEMMA HeadIsNext ==
  ASSUME IInv, toDaemon # <<>>
  PROVE  Len(log) + 1 \in 1..Len(Frames(ask)) /\ Head(toDaemon) = Frames(ask)[Len(log) + 1]
<1>1. log \in Seq(Daemon!Request) /\ toDaemon \in Seq(Daemon!Request)
  BY DEF IInv, TypeOK, Daemon!TypeOK
<1>2. /\ Len(log) \in Nat /\ Len(toDaemon) \in Nat \ {0}
      /\ Head(toDaemon) \in Daemon!Request /\ Head(toDaemon) = toDaemon[1]
  BY <1>1, EmptySeq, LenProperties, HeadTailProperties
<1>3. ask \in Call /\ Frames(ask) \in Seq(Daemon!Request)
  BY FramesOfCall DEF IInv, InOrder
<1>4. /\ Len(log \o toDaemon) = Len(log) + Len(toDaemon) /\ log \o toDaemon \in Seq(Daemon!Request)
      /\ (log \o toDaemon)[Len(log) + 1] = toDaemon[1]
  BY <1>1, <1>2, ConcatProperties
<1>5. Len(log) + 1 \in 1..Len(Frames(ask)) /\ toDaemon[1] = Frames(ask)[Len(log) + 1]
  <2> DEFINE read == log \o toDaemon
             frames == Frames(ask)
  <2>1. IsPrefix(read, frames)
    BY DEF IInv, InOrder
  <2>2. read \in Seq(Daemon!Request) /\ frames \in Seq(Daemon!Request) /\ Len(frames) \in Nat
    BY <1>3, <1>4, LenProperties
  <2>3. Len(read) = Len(log) + Len(toDaemon) /\ read[Len(log) + 1] = toDaemon[1]
    BY <1>4
  <2> HIDE DEF read, frames
  <2>4. Len(read) <= Len(frames) /\ \A k \in 1..Len(read) : read[k] = frames[k]
    BY <2>1, <2>2, PrefixByElements
  <2>5. Len(log) + 1 \in 1..Len(frames) /\ toDaemon[1] = frames[Len(log) + 1]
    BY <1>2, <2>2, <2>3, <2>4
  <2> QED
    BY <2>5 DEF frames
<1> QED
  BY <1>2, <1>5

LEMMA HeadOfSocket ==
  ASSUME IInv, toDaemon # <<>>
  PROVE  Head(toDaemon) \in Daemon!Request /\ IsFrameOf(ask, Head(toDaemon))
<1>1. toDaemon \in Seq(Daemon!Request) /\ ask \in Call
  BY DEF IInv, TypeOK, InOrder
<1>2. Head(toDaemon) \in Daemon!Request
  BY <1>1, HeadTailProperties
<1> QED
  BY <1>1, <1>2, HeadIsNext, FramesOfCall

\* The verdict of the whole file is the truth, and so is a health report.
LEMMA VerdictIsTrue ==
  ASSUME ask.kind = "scan", ask.protocol = PROTOCOL_VERSION, NEW at
  PROVE  IsTrue([type |-> "verdict", at |-> at, id |-> ScanId, verdict |-> Daemon!Scan(ask.file)])
<1>1. Promise!Scan(ask.file) = Daemon!Scan(ask.file)
  BY DEF Promise!Scan, Promise!Matches, Promise!Allow, Promise!Block,
         Daemon!Scan, Daemon!Matches, Daemon!Allow, Daemon!Block
<1> QED
  BY <1>1 DEF IsTrue, OutcomeOf, IsExpected, Promise!Truths

LEMMA HealthIsTrue ==
  ASSUME ask.kind = "health", NEW at
  PROVE  IsTrue([type |-> "health", at |-> at, id |-> ScanId, protocol |-> PROTOCOL_VERSION,
                 status |-> Daemon!HealthStatus(ask.protocol)])
  BY DEF IsTrue, OutcomeOf, IsExpected, Promise!Truths, Daemon!HealthStatus

\* What is true of a call stays so.
LEMMA TruthStays ==
  ASSUME UNCHANGED ask
  PROVE  \A message : IsTrue(message)' <=> IsTrue(message)
  BY DEF IsTrue, OutcomeOf, IsExpected
-----------------------------------------------------------------------------
(* The client's steps *)

\* Nothing the invariant says of the daemon's side is touched by a step of the client.
LEMMA ServerSideStays ==
  ASSUME IInv, UNCHANGED <<ask, broker, toDaemon, taken, daemonVars>>
  PROVE  /\ LockStep' /\ OneAnswer' /\ BufferIsAPart'
         /\ \A n \in 1..Len(written') : IsTrue(written[n])'
         /\ ask' \in Call /\ IsPrefix(log \o toDaemon, Frames(ask))'
         /\ Daemon!TypeOK'
<1>1. LockStep'
  BY DEF IInv, LockStep, daemonVars
<1>2. OneAnswer'
  BY DEF IInv, OneAnswer, Asking, daemonVars
<1>3. BufferIsAPart'
  BY DEF IInv, BufferIsAPart, daemonVars
<1>4. \A n \in 1..Len(written') : IsTrue(written[n])'
  BY TruthStays DEF IInv, AnswersAreTrue, daemonVars
<1>5. ask' \in Call /\ IsPrefix(log \o toDaemon, Frames(ask))'
  BY DEF IInv, InOrder, daemonVars
<1>6. Daemon!TypeOK'
  BY DEF IInv, TypeOK, Daemon!TypeOK, daemonVars
<1> QED
  BY <1>1, <1>2, <1>3, <1>4, <1>5, <1>6

LEMMA FinishEffect ==
  ASSUME IInv, UNCHANGED <<toDaemon, daemonVars>>,
         NEW outcome \in Promise!Outcome, NEW pipe \in Seq(Daemon!Request),
         conn = "open" => IsPrefix(log \o toDaemon \o pipe, Frames(ask)),
         Finish(outcome, pipe)
  PROVE  /\ ask' = ask /\ result' # Pending /\ port' = "closed"
         /\ toBroker' \in Seq(Daemon!Request)
         /\ (conn = "open" => IsPrefix(log \o toDaemon \o toBroker, Frames(ask)))'
<1>1. ask' = ask /\ result' # Pending /\ port' = "closed"
  BY MarksAssumption DEF Finish
<1>2. PICK kept \in 0..Len(pipe) : toBroker' = SubSeq(pipe, 1, kept)
  BY DEF Finish
<1> DEFINE read == log \o toDaemon
           frames == Frames(ask)
<1>3. read \in Seq(Daemon!Request) /\ frames \in Seq(Daemon!Request)
  BY ConcatProperties, FramesOfCall DEF IInv, TypeOK, Daemon!TypeOK, InOrder
<1>4. read' = read /\ frames' = frames /\ conn' = conn
  BY <1>1 DEF daemonVars
<1> HIDE DEF read, frames
<1>5. SubSeq(pipe, 1, kept) \in Seq(Daemon!Request)
  BY ElementOfSeq, SubSeqProperties, LenProperties
<1>6. conn = "open" => IsPrefix(read \o SubSeq(pipe, 1, kept), frames)
  BY <1>3, PrefixOfLess DEF read, frames
<1>7. (conn = "open" => IsPrefix(read \o toBroker, frames))'
  BY <1>2, <1>4, <1>6
<1> QED
  BY <1>1, <1>2, <1>5, <1>7 DEF read, frames

\* The end of a call, whatever brings it.
LEMMA FinishKeepsInvariant ==
  ASSUME IInv, NEW outcome \in Promise!Outcome, NEW pipe \in Seq(Daemon!Request),
         conn = "open" => IsPrefix(log \o toDaemon \o pipe, Frames(ask)),
         Finish(outcome, pipe), UNCHANGED <<toDaemon, broker, taken, daemonVars>>,
         toClient' \in Seq(Daemon!HealthResponse \cup Daemon!VerdictResponse),
         \A n \in 1..Len(toClient') : IsTrue(toClient'[n])
  PROVE  IInv'
<1>1. /\ ask' = ask /\ result' # Pending /\ port' = "closed"
      /\ toBroker' \in Seq(Daemon!Request)
      /\ (conn = "open" => IsPrefix(log \o toDaemon \o toBroker, Frames(ask)))'
  BY FinishEffect DEF daemonVars
<1>2. /\ LockStep' /\ OneAnswer' /\ BufferIsAPart'
      /\ \A n \in 1..Len(written') : IsTrue(written[n])'
      /\ ask' \in Call /\ IsPrefix(log \o toDaemon, Frames(ask))'
      /\ Daemon!TypeOK'
  BY <1>1, ServerSideStays
<1>3. TypeOK'
  BY <1>1, <1>2 DEF IInv, TypeOK, daemonVars
<1>4. InOrder'
  BY <1>1, <1>2 DEF InOrder
<1>5. AnswersAreTrue'
  BY <1>1, <1>2, TruthStays DEF AnswersAreTrue
<1> QED
  BY <1>2, <1>3, <1>4, <1>5 DEF IInv

LEMMA UnavailableIsOutcome ==
  ASSUME NEW reason \in FailureReason
  PROVE  Promise!Unavailable(reason) \in Promise!Outcome
  BY DEF Promise!Outcome

\* What is true is an outcome.
LEMMA TruthsAreOutcomes ==
  ASSUME NEW request \in Call
  PROVE  Promise!Truths(request) \subseteq Promise!Outcome
<1>1. CASE request.kind = "scan"
  <2>1. request.file \in Seq(Byte)
    BY <1>1, NativeAssumption DEF Call
  <2>2. Daemon!Scan(request.file) \in Daemon!Verdict
    BY <2>1, ScanIsVerdict
  <2>3. Promise!Scan(request.file) \in Promise!Verdict
    BY <2>2 DEF Promise!Scan, Promise!Verdict, Promise!Matches, Promise!Allow, Promise!Block,
                Daemon!Scan, Daemon!Verdict, Daemon!Matches, Daemon!Allow, Daemon!Block
  <2> HIDE DEF Promise!Scan, Promise!Verdict
  <2> QED
    BY <1>1, <2>3 DEF Promise!Truths, Promise!Outcome
<1>2. CASE request.kind = "health"
  BY <1>2 DEF Promise!Truths, Promise!Outcome
<1> QED
  BY <1>1, <1>2 DEF Call

LEMMA PostKeepsInvariant ==
  ASSUME IInv, Post
  PROVE  IInv'
<1> DEFINE frames == Frames(ask)
<1>1. /\ frames \in Seq(Daemon!Request) /\ toBroker = <<>> /\ toDaemon = <<>> /\ log = <<>>
      /\ frames' = frames /\ UNCHANGED <<ask, broker, toDaemon, taken, daemonVars>>
  BY FramesOfCall DEF IInv, InOrder, Post, brokerVars
<1>2. toBroker' = Frames(ask)
  BY <1>1, ConcatEmptySeq DEF Post
<1>3. (log \o toDaemon \o toBroker)' = Frames(ask)'
  <2>1. log' = <<>> /\ toDaemon' = <<>> /\ toBroker' = frames
    BY <1>1, <1>2 DEF daemonVars
  <2>2. <<>> \o frames = frames /\ <<>> \o <<>> = <<>>
    <3> HIDE DEF frames
    <3> QED
      BY <1>1, ConcatEmptySeq, EmptySeq
  <2> QED
    BY <1>1, <2>1, <2>2
<1>4. IsPrefix(Frames(ask)', Frames(ask)')
  <2> HIDE DEF frames
  <2>1. Len(frames) \in Nat
    BY <1>1, LenProperties
  <2>2. IsPrefix(frames, frames)
    BY <1>1, <2>1, PrefixByElements
  <2> QED
    BY <1>1, <2>2 DEF frames
<1>5. /\ LockStep' /\ OneAnswer' /\ BufferIsAPart'
      /\ \A n \in 1..Len(written') : IsTrue(written[n])'
      /\ ask' \in Call /\ IsPrefix(log \o toDaemon, Frames(ask))'
      /\ Daemon!TypeOK'
  BY <1>1, ServerSideStays
<1>6. TypeOK'
  BY <1>1, <1>2, <1>5 DEF IInv, TypeOK, Post, brokerVars, daemonVars
<1>7. InOrder'
  BY <1>3, <1>4, <1>5 DEF InOrder, Post
<1>8. AnswersAreTrue'
  <2>1. toClient' = toClient /\ ask' = ask
    BY <1>1 DEF Post, brokerVars
  <2>2. \A n \in 1..Len(toClient') : IsTrue(toClient[n])'
    BY <2>1, TruthStays DEF IInv, AnswersAreTrue
  <2> QED
    BY <1>5, <2>2 DEF AnswersAreTrue
<1> QED
  BY <1>5, <1>6, <1>7, <1>8 DEF IInv

\* The answer the client takes is true.
LEMMA HeadIsTrue ==
  ASSUME IInv, toClient # <<>>
  PROVE  /\ IsTrue(Head(toClient))
         /\ Tail(toClient) \in Seq(Daemon!HealthResponse \cup Daemon!VerdictResponse)
         /\ \A n \in 1..Len(Tail(toClient)) : IsTrue(Tail(toClient)[n])
<1> DEFINE S == Daemon!HealthResponse \cup Daemon!VerdictResponse
<1>1. toClient \in Seq(S)
  BY DEF IInv, TypeOK
<1> HIDE DEF S
<1>2. /\ Len(toClient) \in Nat \ {0} /\ Head(toClient) = toClient[1]
      /\ Tail(toClient) \in Seq(S) /\ Len(Tail(toClient)) = Len(toClient) - 1
      /\ \A n \in 1..Len(Tail(toClient)) : Tail(toClient)[n] = toClient[n + 1]
  BY <1>1, EmptySeq, HeadTailProperties
<1>3. \A n \in 1..Len(toClient) : IsTrue(toClient[n])
  BY DEF IInv, AnswersAreTrue
<1> HIDE DEF IsTrue
<1> QED
  BY <1>2, <1>3 DEF S

LEMMA ClientKeepsInvariant ==
  ASSUME IInv, ClientStep
  PROVE  IInv'
<1>1. ASSUME NEW outcome \in Promise!Outcome, NEW pipe \in Seq(Daemon!Request),
             conn = "open" => IsPrefix(log \o toDaemon \o pipe, Frames(ask)),
             Finish(outcome, pipe), UNCHANGED <<toDaemon, brokerVars, daemonVars>>
      PROVE  IInv'
  <2>1. toClient' \in Seq(Daemon!HealthResponse \cup Daemon!VerdictResponse)
    BY <1>1 DEF IInv, TypeOK, brokerVars
  <2>2. \A n \in 1..Len(toClient') : IsTrue(toClient'[n])
    BY <1>1 DEF IInv, AnswersAreTrue, brokerVars
  <2> QED
    BY <1>1, <2>1, <2>2, FinishKeepsInvariant DEF brokerVars
<1>2. toBroker \in Seq(Daemon!Request) /\ ask \in Call /\ Frames(ask) \in Seq(Daemon!Request)
  BY FramesOfCall DEF IInv, TypeOK, InOrder
<1>3. conn = "open" => IsPrefix(log \o toDaemon \o toBroker, Frames(ask))
  BY DEF IInv, InOrder
<1>4. CASE Post
  BY <1>4, PostKeepsInvariant
<1>5. CASE PostThrows
  <2> DEFINE frames == Frames(ask)
  <2>1. log \o toDaemon = <<>>
    BY <1>5, ConcatEmptySeq, EmptySeq DEF PostThrows, IInv, InOrder
  <2>2. <<>> \o frames = frames /\ Len(frames) \in Nat /\ frames \in Seq(Daemon!Request)
    <3> HIDE DEF frames
    <3> QED
      BY <1>2, ConcatEmptySeq, LenProperties DEF frames
  <2>3. IsPrefix(frames, frames)
    <3> HIDE DEF frames
    <3> QED
      BY <2>2, PrefixByElements
  <2>4. IsPrefix(log \o toDaemon \o Frames(ask), Frames(ask))
    BY <2>1, <2>2, <2>3
  <2>5. Promise!Unavailable("host_unavailable") \in Promise!Outcome
    BY UnavailableIsOutcome DEF FailureReason
  <2> QED
    BY <1>1, <1>2, <1>5, <2>4, <2>5 DEF PostThrows
<1>6. CASE TimerFires
  <2>1. Promise!Unavailable("timeout") \in Promise!Outcome
    BY UnavailableIsOutcome DEF FailureReason
  <2> QED
    BY <1>1, <1>2, <1>3, <1>6, <2>1 DEF TimerFires
<1>7. CASE OnMessage
  <2>1. /\ IsTrue(Head(toClient))
        /\ toClient' \in Seq(Daemon!HealthResponse \cup Daemon!VerdictResponse)
        /\ \A n \in 1..Len(toClient') : IsTrue(toClient'[n])
    BY <1>7, HeadIsTrue DEF OnMessage
  <2>2. OutcomeOf(Head(toClient)) \in Promise!Outcome
    BY <1>2, <2>1, TruthsAreOutcomes DEF IsTrue
  <2> QED
    BY <1>2, <1>3, <1>7, <2>1, <2>2, FinishKeepsInvariant DEF OnMessage
<1>8. CASE OnDisconnect
  <2>1. Promise!Unavailable("host_disconnected") \in Promise!Outcome
    BY UnavailableIsOutcome DEF FailureReason
  <2> QED
    BY <1>1, <1>2, <1>3, <1>8, <2>1 DEF OnDisconnect
<1> QED
  BY <1>4, <1>5, <1>6, <1>7, <1>8 DEF ClientStep
-----------------------------------------------------------------------------
(* The broker's steps *)

\* The steps that leave the frames and the daemon alone.
LEMMA BrokerTurnKeepsInvariant ==
  ASSUME IInv, UNCHANGED <<clientVars, toBroker, toDaemon, daemonVars>>,
         broker' \in {"connecting", "reading", "awaiting", "exited"}, taken' \in 0..Len(written),
         broker' \in {"connecting", "reading"} => Len(written) - taken' = 0 /\ Asking = {},
         broker' # "awaiting",
         toClient' \in Seq(Daemon!HealthResponse \cup Daemon!VerdictResponse),
         \A n \in 1..Len(toClient') : IsTrue(toClient'[n])
  PROVE  IInv'
<1>1. UNCHANGED <<ask, result, port, toBroker, toDaemon, conn, active, written, log>>
  BY DEF clientVars, daemonVars
<1>2. TypeOK'
  BY <1>1 DEF IInv, TypeOK, Daemon!TypeOK
<1>3. InOrder'
  BY <1>1 DEF IInv, InOrder
<1>4. LockStep' /\ OneAnswer'
  BY <1>1 DEF LockStep, OneAnswer, Asking
<1>5. BufferIsAPart'
  BY <1>1 DEF IInv, BufferIsAPart
<1>6. AnswersAreTrue'
  <2>1. \A n \in 1..Len(written) : IsTrue(written[n])
    BY DEF IInv, AnswersAreTrue
  <2> QED
    BY <1>1, <2>1, TruthStays DEF AnswersAreTrue
<1> QED
  BY <1>2, <1>3, <1>4, <1>5, <1>6 DEF IInv

LEMMA ForwardKeepsInvariant ==
  ASSUME IInv, BrokerForwards
  PROVE  IInv'
<1> DEFINE R == Daemon!Request
           frame == Head(toBroker)
<1>1. UNCHANGED <<ask, result, port, conn, active, written, log, taken, toClient>>
  BY DEF BrokerForwards, clientVars, daemonVars
<1>2. log \in Seq(R) /\ toDaemon \in Seq(R) /\ toBroker \in Seq(R) /\ toBroker # <<>>
  BY DEF IInv, TypeOK, Daemon!TypeOK, BrokerForwards
<1>3. /\ conn = "open" /\ Len(toDaemon) < SocketFrames /\ broker = "reading"
      /\ toBroker' = Tail(toBroker) /\ toDaemon' = Append(toDaemon, frame)
      /\ broker' = IF frame.type \in {"health", "scan_end"} THEN "awaiting" ELSE "reading"
  BY DEF BrokerForwards, ExpectsResponse
<1>4. frame \in R /\ Tail(toBroker) \in Seq(R)
  <2> HIDE DEF R
  <2> QED
    BY <1>2, HeadTailProperties
<1>5. /\ Append(toDaemon, frame) \in Seq(R) /\ Len(toDaemon) \in Nat
      /\ Len(Append(toDaemon, frame)) = Len(toDaemon) + 1
      /\ \A k \in 1..Len(toDaemon) : Append(toDaemon, frame)[k] = toDaemon[k]
      /\ Append(toDaemon, frame)[Len(toDaemon) + 1] = frame
  <2> HIDE DEF R, frame
  <2> QED
    BY <1>2, <1>4, AppendProperties, LenProperties
<1>6. TypeOK'
  BY <1>1, <1>3, <1>4, <1>5, NativeAssumption DEF IInv, TypeOK, Daemon!TypeOK
<1>7. InOrder'
  <2>1. (log \o toDaemon \o toBroker)' = log \o toDaemon \o toBroker
    <3>1. (log \o Append(toDaemon, Head(toBroker))) \o Tail(toBroker) = (log \o toDaemon) \o toBroker
      <4> HIDE DEF R
      <4>1. HeadMoves(R)
        BY MoveHeadBehind
      <4>2. \A c \in Seq(R) :
              c # <<>> => (log \o Append(toDaemon, Head(c))) \o Tail(c) = (log \o toDaemon) \o c
        BY <1>2, <4>1, Zenon DEF HeadMoves
      <4> QED
        BY <1>2, <4>2
    <3> QED
      BY <1>1, <1>3, <3>1
  <2>2. IsPrefix(log \o toDaemon \o toBroker, Frames(ask))
    BY <1>3 DEF IInv, InOrder
  <2>3. IsPrefix((log \o toDaemon \o toBroker)', Frames(ask))
    BY <2>1, <2>2
  <2>4. IsPrefix(log' \o toDaemon', Frames(ask))
    <3> DEFINE read == log' \o toDaemon'
               frames == Frames(ask)
    <3>1. read \in Seq(R)
      <4> HIDE DEF R, frame
      <4> QED
        BY <1>1, <1>2, <1>3, <1>5, ConcatProperties
    <3>2. toBroker' \in Seq(R) /\ frames \in Seq(R)
      BY <1>3, <1>4, FramesOfCall DEF IInv, InOrder
    <3>3. IsPrefix(read \o toBroker', frames)
      BY <2>3
    <3> HIDE DEF read, frames, R
    <3>4. IsPrefix(read, frames)
      BY <3>1, <3>2, <3>3, PrefixOfFirst
    <3> QED
      BY <3>4 DEF read, frames
  <2>5. port # "posting"
    BY <1>2 DEF IInv, InOrder
  <2> QED
    BY <1>1, <2>1, <2>2, <2>4, <2>5 DEF IInv, InOrder
<1>8. Len(written) - taken = 0 /\ Asking = {}
  BY <1>3 DEF IInv, LockStep, Asking
<1>9. Asking' = IF frame.type \in {"health", "scan_end"} THEN {Len(toDaemon) + 1} ELSE {}
  <2> HIDE DEF R, frame
  <2>1. \A k \in 1..Len(toDaemon) : toDaemon[k].type \notin {"health", "scan_end"}
    BY <1>8 DEF Asking
  <2>2. \A k \in 1..(Len(toDaemon) + 1) :
          toDaemon'[k].type \in {"health", "scan_end"}
            <=> k = Len(toDaemon) + 1 /\ frame.type \in {"health", "scan_end"}
    BY <1>3, <1>5, <2>1
  <2>3. Asking' = {k \in 1..(Len(toDaemon) + 1) : toDaemon'[k].type \in {"health", "scan_end"}}
    BY <1>3, <1>5 DEF Asking
  <2> QED
    BY <1>5, <2>2, <2>3
<1>10. Len(toDaemon) + 1 \in 1..Len(toDaemon')
  BY <1>3, <1>5
<1>11. LockStep' /\ OneAnswer'
  <2> HIDE DEF R, frame
  <2>1. Len(written') - taken' = 0 /\ taken \in Nat /\ Len(written) \in Nat
    BY <1>1, <1>8, LenProperties DEF IInv, TypeOK, Daemon!TypeOK
  <2>2. OneAnswer'
    BY <1>1, <2>1 DEF OneAnswer
  <2>3. Asking' = {k \in 1..Len(toDaemon') : toDaemon'[k].type \in {"health", "scan_end"}}
    BY DEF Asking
  <2>4. LockStep'
    BY <1>3, <1>9, <1>10, <2>1, <2>3 DEF LockStep
  <2> QED
    BY <2>2, <2>4
<1>12. BufferIsAPart'
  BY <1>1 DEF IInv, BufferIsAPart
<1>13. AnswersAreTrue'
  <2>1. (\A n \in 1..Len(written) : IsTrue(written[n])) /\ (\A n \in 1..Len(toClient) : IsTrue(toClient[n]))
    BY DEF IInv, AnswersAreTrue
  <2> QED
    BY <1>1, <2>1, TruthStays DEF AnswersAreTrue
<1> QED
  BY <1>6, <1>7, <1>11, <1>12, <1>13 DEF IInv

LEMMA BrokerKeepsInvariant ==
  ASSUME IInv, BrokerStep \/ BrokerDies
  PROVE  IInv'
<1> DEFINE S == Daemon!HealthResponse \cup Daemon!VerdictResponse
<1>1. /\ taken \in 0..Len(written) /\ Len(written) \in Nat /\ taken \in Nat
      /\ written \in Seq(S) /\ toClient \in Seq(S)
      /\ \A n \in 1..Len(toClient) : IsTrue(toClient[n])
      /\ \A n \in 1..Len(written) : IsTrue(written[n])
  <2>1. taken \in 0..Len(written) /\ written \in Seq(S) /\ toClient \in Seq(S)
    BY DEF IInv, TypeOK, Daemon!TypeOK
  <2>2. Len(written) \in Nat
    BY <2>1, LenProperties
  <2>3. /\ \A n \in 1..Len(toClient) : IsTrue(toClient[n])
        /\ \A n \in 1..Len(written) : IsTrue(written[n])
    BY DEF IInv, AnswersAreTrue
  <2> HIDE DEF S, IsTrue
  <2> QED
    BY <2>1, <2>2, <2>3
<1>2. broker \in {"connecting", "reading"} => Len(written) - taken = 0 /\ Asking = {}
  BY DEF IInv, LockStep, Asking
<1>3. CASE BrokerForwards
  BY <1>3, ForwardKeepsInvariant
<1>4. CASE BrokerConnects
  <2>1. /\ broker = "connecting" /\ broker' = "reading" /\ taken' = taken /\ toClient' = toClient
        /\ UNCHANGED <<clientVars, toBroker, toDaemon, daemonVars>>
    BY <1>4 DEF BrokerConnects
  <2> QED
    BY <1>1, <1>2, <2>1, BrokerTurnKeepsInvariant
<1>5. CASE BrokerDies \/ BrokerLosesDaemon \/ BrokerEndOfInput
  <2>1. /\ broker' = "exited" /\ taken' = taken /\ toClient' = toClient
        /\ UNCHANGED <<clientVars, toBroker, toDaemon, daemonVars>>
    BY <1>5 DEF BrokerDies, BrokerLosesDaemon, BrokerEndOfInput
  <2> QED
    BY <1>1, <2>1, BrokerTurnKeepsInvariant
<1>6. CASE BrokerAnswers
  <2>1. /\ broker = "awaiting" /\ taken < Len(written) /\ taken' = taken + 1 /\ broker' = "reading"
        /\ toClient' = Append(toClient, written[taken + 1])
        /\ UNCHANGED <<clientVars, toBroker, toDaemon, daemonVars>>
    BY <1>6 DEF BrokerAnswers
  <2>2. taken + 1 = Len(written) /\ Asking = {} /\ taken + 1 \in 1..Len(written)
    BY <1>1, <2>1 DEF IInv, OneAnswer
  <2> DEFINE answer == written[taken + 1]
  <2>3. answer \in S /\ IsTrue(answer)
    <3> HIDE DEF S, IsTrue
    <3> QED
      BY <1>1, <2>2, ElementOfSeq
  <2> HIDE DEF S, IsTrue, answer
  <2>4. /\ Append(toClient, answer) \in Seq(S) /\ Len(Append(toClient, answer)) = Len(toClient) + 1
        /\ \A k \in 1..Len(toClient) : Append(toClient, answer)[k] = toClient[k]
        /\ Append(toClient, answer)[Len(toClient) + 1] = answer /\ Len(toClient) \in Nat
    BY <1>1, <2>3, AppendProperties, LenProperties
  <2>5. toClient' \in Seq(S) /\ \A n \in 1..Len(toClient') : IsTrue(toClient'[n])
    BY <1>1, <2>1, <2>3, <2>4 DEF answer
  <2>6. broker' \in {"connecting", "reading"} => Len(written) - taken' = 0 /\ Asking = {}
    BY <1>1, <2>1, <2>2
  <2>7. taken' \in 0..Len(written)
    BY <1>1, <2>1, <2>2
  <2> QED
    BY <2>1, <2>5, <2>6, <2>7, BrokerTurnKeepsInvariant DEF S
<1>7. CASE BrokerCannotAnswer
  <2>1. /\ taken < Len(written) /\ taken' = taken + 1 /\ broker' = "exited" /\ toClient' = toClient
        /\ UNCHANGED <<clientVars, toBroker, toDaemon, daemonVars>>
    BY <1>7 DEF BrokerCannotAnswer
  <2>2. taken' \in 0..Len(written)
    BY <1>1, <2>1
  <2> QED
    BY <1>1, <2>1, <2>2, BrokerTurnKeepsInvariant
<1> QED
  BY <1>3, <1>4, <1>5, <1>6, <1>7 DEF BrokerStep
-----------------------------------------------------------------------------
(* The daemon's steps *)

\* session.rs:59-88 against scanWithNativeHost's loop: a chunk that is accepted lengthens the
\* part of the file the buffer holds, whatever chunk of the file it is.
LEMMA ChunkExtendsPart ==
  ASSUME NEW bytes \in Seq(Byte), NEW m \in 0..Len(bytes), NEW end \in 0..Len(bytes)
  PROVE  \E k \in 0..Len(bytes) :
           SubSeq(bytes, 1, m) \o SubSeq(bytes, m + 1, end) = SubSeq(bytes, 1, k)
<1>1. Len(bytes) \in Nat
  BY LenProperties
<1>2. CASE m <= end
  <2>1. m \in (1 - 1)..Len(bytes) /\ end \in m..Len(bytes) /\ 1 \in 1..(Len(bytes) + 1)
    BY <1>1, <1>2
  <2>2. SubSeq(bytes, 1, m) \o SubSeq(bytes, m + 1, end) = SubSeq(bytes, 1, end)
    BY <2>1, ConcatAdjacentSubSeq
  <2> QED
    BY <2>2
<1>3. CASE end < m
  <2>1. SubSeq(bytes, m + 1, end) = <<>>
    BY <1>1, <1>3, SubSeqEmpty
  <2>2. SubSeq(bytes, 1, m) \in Seq(Byte)
    BY <1>1, ElementOfSeq, SubSeqProperties
  <2>3. SubSeq(bytes, 1, m) \o <<>> = SubSeq(bytes, 1, m)
    <3> DEFINE part == SubSeq(bytes, 1, m)
    <3>1. part \in Seq(Byte)
      BY <2>2
    <3> HIDE DEF part
    <3>2. part \o <<>> = part
      BY <3>1, ConcatEmptySeq
    <3> QED
      BY <3>2 DEF part
  <2> QED
    BY <2>1, <2>3
<1> QED
  BY <1>1, <1>2, <1>3

LEMMA ServeOutcome ==
  ASSUME IInv, DaemonServes
  PROVE  /\ conn = "open" /\ conn' \in {"open", "failed"}
         /\ active' \in Daemon!ActiveScan \cup {None}
         /\ BufferIsAPart'
         /\ \/ /\ written' = written
               /\ conn' = "failed" \/ Head(toDaemon).type \notin {"health", "scan_end"}
            \/ /\ Head(toDaemon).type \in {"health", "scan_end"}
               /\ \E answer \in Daemon!HealthResponse \cup Daemon!VerdictResponse :
                     IsTrue(answer) /\ written' = Append(written, answer)
<1> DEFINE request == Head(toDaemon)
           S == Daemon!HealthResponse \cup Daemon!VerdictResponse
<1>1. conn = "open" /\ log' = Append(log, request) /\ Effect(request)
  BY HandleEffect DEF DaemonServes
<1>2. IsFrameOf(ask, request)
  BY HeadOfSocket DEF DaemonServes
<1>3. ask' = ask /\ ask \in Call /\ Len(log) + 1 \in Nat
  BY LenProperties DEF DaemonServes, clientVars, IInv, InOrder, TypeOK, Daemon!TypeOK
<1>4. /\ active \in Daemon!ActiveScan \cup {None}
      /\ BufferIsAPart
  BY DEF IInv, TypeOK, Daemon!TypeOK
<1> HIDE DEF request
<1>5. CASE /\ request.type = "health" /\ UNCHANGED <<conn, active>>
           /\ written' = Append(written, [type |-> "health", at |-> Len(log) + 1, id |-> request.id,
                                          protocol |-> PROTOCOL_VERSION,
                                          status |-> Daemon!HealthStatus(request.protocol)])
  <2>1. /\ ask.kind = "health" /\ request.id = ScanId /\ request.protocol = ask.protocol
    BY <1>2, <1>5 DEF IsFrameOf, ChunkFrame
  <2> DEFINE answer == [type |-> "health", at |-> Len(log) + 1, id |-> ScanId,
                        protocol |-> PROTOCOL_VERSION, status |-> Daemon!HealthStatus(ask.protocol)]
  <2>2. answer \in S
    BY <1>3 DEF Daemon!HealthResponse, Daemon!HealthStatus
  <2>3. IsTrue(answer)
    BY <2>1, HealthIsTrue
  <2>4. written' = Append(written, answer)
    BY <1>5, <2>1
  <2>5. BufferIsAPart'
    BY <1>3, <1>4, <1>5 DEF BufferIsAPart
  <2> HIDE DEF answer
  <2> QED
    BY <1>1, <1>4, <1>5, <2>2, <2>3, <2>4, <2>5 DEF request
<1>6. CASE /\ request.type = "scan_begin" /\ Daemon!CanBegin(request) /\ UNCHANGED <<conn, written>>
           /\ active' = [id |-> request.id, declared_size |-> request.size, bytes |-> <<>>]
  <2>1. /\ ask.kind = "scan" /\ request.id = ScanId /\ request.protocol = ask.protocol
        /\ request.size = Len(ask.file)
    BY <1>2, <1>6 DEF IsFrameOf, ChunkFrame
  <2>2. ask.file \in Seq(Byte) /\ Len(ask.file) \in Nat
    BY <1>3, <2>1, NativeAssumption, LenProperties DEF Call
  <2>3. ask.protocol = PROTOCOL_VERSION
    BY <1>6, <2>1 DEF Daemon!CanBegin
  <2>4. SubSeq(ask.file, 1, 0) = <<>> /\ 0 \in 0..Len(ask.file)
    BY <2>2, SubSeqEmpty
  <2>5. active' = [id |-> ScanId, declared_size |-> Len(ask.file), bytes |-> SubSeq(ask.file, 1, 0)]
    BY <1>6, <2>1, <2>4
  <2>6. BufferIsAPart'
    BY <1>3, <2>1, <2>3, <2>4, <2>5 DEF BufferIsAPart
  <2>7. active' \in Daemon!ActiveScan
    BY <1>6, <2>1, <2>2, EmptySeq DEF Daemon!ActiveScan
  <2> QED
    BY <1>1, <1>6, <2>6, <2>7 DEF request
<1>7. CASE /\ request.type = "scan_chunk" /\ Daemon!CanAppend(request) /\ UNCHANGED <<conn, written>>
           /\ active' = [active EXCEPT !.bytes = @ \o request.data]
  <2>1. /\ active # None /\ request.offset = Len(active.bytes)
    BY <1>7 DEF Daemon!CanAppend
  <2>2. /\ ask.kind = "scan" /\ ask.protocol = PROTOCOL_VERSION
        /\ \E m \in 0..Len(ask.file) :
             active = [id |-> ScanId, declared_size |-> Len(ask.file), bytes |-> SubSeq(ask.file, 1, m)]
    BY <1>4, <2>1 DEF BufferIsAPart
  <2>3. ask.file \in Seq(Byte) /\ Len(ask.file) \in Nat
    BY <1>3, <2>2, NativeAssumption, LenProperties DEF Call
  <2>4. PICK m \in 0..Len(ask.file) :
          active = [id |-> ScanId, declared_size |-> Len(ask.file), bytes |-> SubSeq(ask.file, 1, m)]
    BY <2>2
  <2>5. Len(SubSeq(ask.file, 1, m)) = m
    BY <2>3, ElementOfSeq, SubSeqProperties
  <2>6. request.offset = m
    BY <2>1, <2>4, <2>5
  <2>7. PICK n \in 1..ChunkCount(ask.file) : request = ChunkFrame(ask.file, n)
    BY <1>2, <1>7 DEF IsFrameOf
  <2>8. PICK end \in 0..Len(ask.file) : request.data = SubSeq(ask.file, m + 1, end)
    BY <2>3, <2>6, <2>7, ChunkFrameFacts
  <2>9. PICK k \in 0..Len(ask.file) :
          SubSeq(ask.file, 1, m) \o SubSeq(ask.file, m + 1, end) = SubSeq(ask.file, 1, k)
    BY <2>3, ChunkExtendsPart
  <2>10. active' = [id |-> ScanId, declared_size |-> Len(ask.file), bytes |-> SubSeq(ask.file, 1, k)]
    BY <1>7, <2>4, <2>8, <2>9
  <2>11. BufferIsAPart'
    BY <1>3, <2>2, <2>10 DEF BufferIsAPart
  <2>12. SubSeq(ask.file, 1, k) \in Seq(Byte)
    BY <2>3, ElementOfSeq, SubSeqProperties
  <2>13. active' \in Daemon!ActiveScan
    BY <2>3, <2>10, <2>12 DEF Daemon!ActiveScan
  <2> QED
    BY <1>1, <1>7, <2>11, <2>13 DEF request
<1>8. CASE /\ request.type = "scan_end" /\ Daemon!CanFinish(request) /\ UNCHANGED conn
           /\ active' = None
           /\ written' = Append(written, [type |-> "verdict", at |-> Len(log) + 1, id |-> request.id,
                                          verdict |-> Daemon!Scan(active.bytes)])
  <2>1. active # None /\ active.id = request.id /\ Len(active.bytes) = active.declared_size
    BY <1>8 DEF Daemon!CanFinish
  <2>2. /\ ask.kind = "scan" /\ ask.protocol = PROTOCOL_VERSION
        /\ \E m \in 0..Len(ask.file) :
             active = [id |-> ScanId, declared_size |-> Len(ask.file), bytes |-> SubSeq(ask.file, 1, m)]
    BY <1>4, <2>1 DEF BufferIsAPart
  <2>3. ask.file \in Seq(Byte) /\ Len(ask.file) \in Nat
    BY <1>3, <2>2, NativeAssumption, LenProperties DEF Call
  <2>4. PICK m \in 0..Len(ask.file) :
          active = [id |-> ScanId, declared_size |-> Len(ask.file), bytes |-> SubSeq(ask.file, 1, m)]
    BY <2>2
  <2>5. Len(SubSeq(ask.file, 1, m)) = m
    BY <2>3, ElementOfSeq, SubSeqProperties
  <2>6. m = Len(ask.file)
    BY <2>1, <2>4, <2>5
  <2>7. active.bytes = ask.file /\ request.id = ScanId
    BY <2>1, <2>3, <2>4, <2>6, SubSeqFull
  <2> DEFINE answer == [type |-> "verdict", at |-> Len(log) + 1, id |-> ScanId,
                        verdict |-> Daemon!Scan(ask.file)]
  <2>8. answer \in S
    <3>1. Daemon!Scan(ask.file) \in Daemon!Verdict
      BY <2>3, ScanIsVerdict
    <3> HIDE DEF Daemon!Scan, Daemon!Verdict
    <3> QED
      BY <1>3, <3>1 DEF Daemon!VerdictResponse
  <2>9. IsTrue(answer)
    BY <2>2, VerdictIsTrue
  <2>10. written' = Append(written, answer)
    BY <1>8, <2>7
  <2>11. BufferIsAPart'
    BY <1>8 DEF BufferIsAPart
  <2> HIDE DEF answer
  <2> QED
    BY <1>1, <1>8, <2>8, <2>9, <2>10, <2>11 DEF request
<1>9. CASE conn' = "failed" /\ active' = None /\ written' = written
  <2>1. BufferIsAPart'
    BY <1>9 DEF BufferIsAPart
  <2> QED
    BY <1>1, <1>9, <2>1
<1> QED
  BY <1>1, <1>5, <1>6, <1>7, <1>8, <1>9 DEF Effect

\* The requests in the socket move up by one.
LEMMA AskingMovesUp ==
  ASSUME NEW S, toDaemon \in Seq(S), toDaemon # <<>>, toDaemon' = Tail(toDaemon)
  PROVE  /\ Asking = {} => Asking' = {} /\ Head(toDaemon).type \notin {"health", "scan_end"}
         /\ \A k \in 1..Len(toDaemon) : Asking = {k} =>
              IF k = 1 THEN Asking' = {} /\ Head(toDaemon).type \in {"health", "scan_end"}
              ELSE /\ Asking' = {k - 1} /\ k - 1 \in 1..Len(toDaemon')
                   /\ Head(toDaemon).type \notin {"health", "scan_end"}
<1>1. /\ Len(toDaemon) \in Nat \ {0} /\ Head(toDaemon) = toDaemon[1]
      /\ Len(toDaemon') = Len(toDaemon) - 1
      /\ \A k \in 1..Len(toDaemon') : toDaemon'[k] = toDaemon[k + 1]
  BY EmptySeq, HeadTailProperties
<1>2. \A k \in 1..Len(toDaemon) : k \in Asking <=> toDaemon[k].type \in {"health", "scan_end"}
  BY DEF Asking
<1>3. \A k \in 1..Len(toDaemon') : k \in Asking' <=> k + 1 \in Asking
  BY <1>1 DEF Asking
<1>4. Asking \subseteq 1..Len(toDaemon) /\ Asking' \subseteq 1..Len(toDaemon')
  BY DEF Asking
<1>5. 1 \in Asking <=> Head(toDaemon).type \in {"health", "scan_end"}
  BY <1>1, <1>2
<1>6. ASSUME Asking = {} PROVE Asking' = {} /\ Head(toDaemon).type \notin {"health", "scan_end"}
  BY <1>3, <1>4, <1>5, <1>6
<1>7. ASSUME NEW k \in 1..Len(toDaemon), Asking = {k}
      PROVE  IF k = 1 THEN Asking' = {} /\ Head(toDaemon).type \in {"health", "scan_end"}
             ELSE /\ Asking' = {k - 1} /\ k - 1 \in 1..Len(toDaemon')
                  /\ Head(toDaemon).type \notin {"health", "scan_end"}
  <2>1. CASE k = 1
    BY <1>1, <1>3, <1>4, <1>5, <1>7, <2>1
  <2>2. CASE k # 1
    <3>1. k - 1 \in 1..Len(toDaemon') /\ (k - 1) + 1 = k
      BY <1>1, <2>2
    <3>2. k - 1 \in Asking'
      BY <1>3, <1>7, <3>1
    <3>3. \A j \in Asking' : j = k - 1
      BY <1>1, <1>3, <1>4, <1>7
    <3>4. Asking' = {k - 1}
      BY <3>2, <3>3
    <3> QED
      BY <1>5, <1>7, <2>2, <3>1, <3>4
  <2> QED
    BY <2>1, <2>2
<1> QED
  BY <1>6, <1>7

\* The daemon takes a frame from the socket and deals with it.
LEMMA ServeKeepsInvariant ==
  ASSUME IInv, DaemonServes
  PROVE  IInv'
<1> DEFINE R == Daemon!Request
           S == Daemon!HealthResponse \cup Daemon!VerdictResponse
           request == Head(toDaemon)
<1>1. /\ toDaemon # <<>> /\ toDaemon' = Tail(toDaemon) /\ log' = Append(log, request)
      /\ UNCHANGED <<ask, result, port, toBroker, broker, taken, toClient>>
  BY HandleEffect DEF DaemonServes, clientVars, brokerVars
<1>2. /\ log \in Seq(R) /\ toDaemon \in Seq(R) /\ written \in Seq(S) /\ toClient \in Seq(S)
      /\ taken \in 0..Len(written) /\ Len(toDaemon) <= SocketFrames
  BY DEF IInv, TypeOK, Daemon!TypeOK
<1>3. /\ request \in R /\ Tail(toDaemon) \in Seq(R) /\ Len(Tail(toDaemon)) = Len(toDaemon) - 1
      /\ Append(log, request) \in Seq(R) /\ Len(toDaemon) \in Nat
  <2> HIDE DEF R
  <2> QED
    BY <1>1, <1>2, HeadTailProperties, AppendProperties, LenProperties
<1>4. /\ conn = "open" /\ conn' \in {"open", "failed"}
      /\ active' \in Daemon!ActiveScan \cup {None} /\ BufferIsAPart'
      /\ \/ /\ written' = written
            /\ conn' = "failed" \/ request.type \notin {"health", "scan_end"}
         \/ /\ request.type \in {"health", "scan_end"}
            /\ \E answer \in S : IsTrue(answer) /\ written' = Append(written, answer)
  BY ServeOutcome
<1>5. \/ /\ written' = written
         /\ conn' = "failed" \/ request.type \notin {"health", "scan_end"}
      \/ /\ request.type \in {"health", "scan_end"} /\ Len(written') = Len(written) + 1
  <2> HIDE DEF R, S, IsTrue, request
  <2> QED
    BY <1>2, <1>4, AppendProperties
<1>6. written' \in Seq(S) /\ Len(written) \in Nat /\ taken \in 0..Len(written')
  <2> HIDE DEF R, S, IsTrue, request
  <2>1. Len(written) \in Nat
    BY <1>2, LenProperties
  <2>2. CASE written' = written
    BY <1>2, <2>1, <2>2
  <2>3. ASSUME NEW answer \in S, written' = Append(written, answer)
        PROVE  written' \in Seq(S) /\ taken \in 0..Len(written')
    <3>1. Append(written, answer) \in Seq(S) /\ Len(Append(written, answer)) = Len(written) + 1
      BY <1>2, AppendProperties
    <3> QED
      BY <1>2, <2>1, <2>3, <3>1
  <2> QED
    BY <1>4, <2>1, <2>2, <2>3
<1>7. \A n \in 1..Len(written') : IsTrue(written'[n])
  <2> HIDE DEF R, S, IsTrue, request
  <2>1. \A n \in 1..Len(written) : IsTrue(written[n])
    BY DEF IInv, AnswersAreTrue
  <2>2. ASSUME NEW answer \in S, IsTrue(answer), written' = Append(written, answer)
        PROVE  \A n \in 1..Len(written') : IsTrue(written'[n])
    <3>1. /\ Len(Append(written, answer)) = Len(written) + 1
          /\ \A n \in 1..Len(written) : Append(written, answer)[n] = written[n]
          /\ Append(written, answer)[Len(written) + 1] = answer
      BY <1>2, AppendProperties
    <3> QED
      BY <1>6, <2>1, <2>2, <3>1
  <2> QED
    BY <1>4, <2>1, <2>2
<1>8. TypeOK'
  BY <1>1, <1>2, <1>3, <1>4, <1>6, NativeAssumption DEF IInv, TypeOK, Daemon!TypeOK
<1>9. InOrder'
  <2>1. Append(log, Head(toDaemon)) \o Tail(toDaemon) = log \o toDaemon
    <3> HIDE DEF R
    <3> QED
      BY <1>1, <1>2, MoveHead
  <2>2. (log \o toDaemon)' = log \o toDaemon
    BY <1>1, <2>1
  <2>3. (log \o toDaemon \o toBroker)' = log \o toDaemon \o toBroker
    BY <1>1, <2>2
  <2>4. port # "posting"
    BY <1>1 DEF IInv, InOrder
  <2> QED
    BY <1>1, <1>4, <2>2, <2>3, <2>4 DEF IInv, InOrder
<1>10. LockStep' /\ OneAnswer'
  <2> HIDE DEF R, S, IsTrue, request
  <2>1. /\ Asking = {} => Asking' = {} /\ request.type \notin {"health", "scan_end"}
        /\ \A k \in 1..Len(toDaemon) : Asking = {k} =>
             IF k = 1 THEN Asking' = {} /\ request.type \in {"health", "scan_end"}
             ELSE /\ Asking' = {k - 1} /\ k - 1 \in 1..Len(toDaemon')
                  /\ request.type \notin {"health", "scan_end"}
    BY <1>1, <1>2, AskingMovesUp DEF request
  <2>2. broker' = broker /\ taken' = taken /\ taken \in Nat /\ Len(written) \in Nat
    BY <1>1, <1>2, <1>6
  <2>3. Asking' = {k \in 1..Len(toDaemon') : toDaemon'[k].type \in {"health", "scan_end"}}
    BY DEF Asking
  <2>4. CASE broker \in {"connecting", "reading"}
    <3>1. Len(written) - taken = 0 /\ Asking = {}
      BY <2>4 DEF IInv, LockStep, Asking
    <3>2. Asking' = {} /\ written' = written
      BY <1>5, <2>1, <3>1
    <3> QED
      BY <2>2, <2>3, <2>4, <3>1, <3>2 DEF LockStep, OneAnswer
  <2>5. CASE broker = "awaiting"
    <3>1. \/ Len(written) - taken = 1 /\ Asking = {}
          \/ Len(written) - taken = 0 /\ \E k \in 1..Len(toDaemon) : Asking = {k}
      BY <1>4, <2>5 DEF IInv, LockStep, Asking
    <3>2. CASE Len(written) - taken = 1 /\ Asking = {}
      <4>1. Asking' = {} /\ written' = written
        BY <1>5, <2>1, <3>2
      <4> QED
        BY <2>2, <2>3, <2>5, <3>2, <4>1 DEF LockStep, OneAnswer
    <3>3. ASSUME Len(written) - taken = 0, NEW k \in 1..Len(toDaemon), Asking = {k}
          PROVE  LockStep' /\ OneAnswer'
      <4>1. CASE k = 1
        <5>1. Asking' = {} /\ request.type \in {"health", "scan_end"}
          BY <2>1, <3>3, <4>1
        <5>2. CASE written' = written /\ conn' = "failed"
          BY <2>2, <2>5, <3>3, <5>2 DEF LockStep, OneAnswer
        <5>3. CASE Len(written') = Len(written) + 1
          BY <2>2, <2>3, <2>5, <3>3, <5>1, <5>3 DEF LockStep, OneAnswer
        <5> QED
          BY <1>5, <5>1, <5>2, <5>3
      <4>2. CASE k # 1
        <5>1. /\ Asking' = {k - 1} /\ k - 1 \in 1..Len(toDaemon') /\ written' = written
          BY <1>5, <2>1, <3>3, <4>2
        <5> QED
          BY <2>2, <2>3, <2>5, <3>3, <5>1 DEF LockStep, OneAnswer
      <4> QED
        BY <4>1, <4>2
    <3> QED
      BY <3>1, <3>2, <3>3
  <2>6. CASE broker = "exited"
    BY <2>2, <2>6 DEF LockStep, OneAnswer
  <2> QED
    BY <2>4, <2>5, <2>6 DEF IInv, TypeOK
<1>11. AnswersAreTrue'
  <2>1. \A n \in 1..Len(toClient) : IsTrue(toClient[n])
    BY DEF IInv, AnswersAreTrue
  <2> QED
    BY <1>1, <1>7, <2>1, TruthStays DEF AnswersAreTrue
<1> QED
  BY <1>4, <1>8, <1>9, <1>10, <1>11 DEF IInv

\* The connection ends: by an error that takes what is in the socket with it, or at its end.
LEMMA EndKeepsInvariant ==
  ASSUME IInv, DaemonDrops \/ DaemonSeesEnd
  PROVE  IInv'
<1>1. /\ conn' \in {"closed", "failed"} /\ active' = None /\ toDaemon' = <<>>
      /\ UNCHANGED <<ask, result, port, toBroker, broker, taken, toClient, written, log>>
  BY DEF DaemonDrops, DaemonSeesEnd, Daemon!ReadFails, Daemon!EndOfStream, Daemon!Fail,
         clientVars, brokerVars
<1>2. /\ log \in Seq(Daemon!Request) /\ toDaemon \in Seq(Daemon!Request)
      /\ Frames(ask) \in Seq(Daemon!Request)
  BY FramesOfCall DEF IInv, InOrder, TypeOK, Daemon!TypeOK
<1>3. TypeOK'
  BY <1>1, EmptySeq, NativeAssumption DEF IInv, TypeOK, Daemon!TypeOK
<1>4. InOrder'
  <2>1. IsPrefix(log \o toDaemon, Frames(ask))
    BY DEF IInv, InOrder
  <2>2. IsPrefix(log, Frames(ask))
    <3> DEFINE R == Daemon!Request
               frames == Frames(ask)
    <3>1. log \in Seq(R) /\ toDaemon \in Seq(R) /\ frames \in Seq(R)
      BY <1>2
    <3>2. IsPrefix(log \o toDaemon, frames)
      BY <2>1
    <3> HIDE DEF R, frames
    <3>3. IsPrefix(log, frames)
      BY <3>1, <3>2, PrefixOfFirst
    <3> QED
      BY <3>3 DEF frames
  <2>3. log \o <<>> = log
    BY <1>2, ConcatEmptySeq
  <2>4. IsPrefix(log \o toDaemon, Frames(ask))'
    BY <1>1, <2>2, <2>3
  <2> QED
    BY <1>1, <2>4 DEF IInv, InOrder
<1>5. Asking' = {}
  BY <1>1, EmptySeq DEF Asking
<1>6. LockStep' /\ OneAnswer'
  <2>1. broker \in {"connecting", "reading"} => Len(written) - taken = 0
    BY DEF IInv, LockStep
  <2>2. broker = "awaiting" /\ taken < Len(written) => taken + 1 = Len(written)
    BY DEF IInv, OneAnswer
  <2>3. Asking' = {k \in 1..Len(toDaemon') : toDaemon'[k].type \in {"health", "scan_end"}}
    BY DEF Asking
  <2> QED
    BY <1>1, <1>5, <2>1, <2>2, <2>3 DEF LockStep, OneAnswer
<1>7. BufferIsAPart'
  BY <1>1 DEF BufferIsAPart
<1>8. AnswersAreTrue'
  BY <1>1, TruthStays DEF IInv, AnswersAreTrue
<1> QED
  BY <1>3, <1>4, <1>6, <1>7, <1>8 DEF IInv
-----------------------------------------------------------------------------
LEMMA StutterKeepsInvariant ==
  ASSUME IInv, UNCHANGED vars
  PROVE  IInv'
<1>1. UNCHANGED <<clientVars, toBroker, toDaemon, daemonVars>> /\ UNCHANGED brokerVars
  BY DEF vars, clientVars, brokerVars, daemonVars
<1>2. UNCHANGED <<ask, broker, toDaemon, taken, daemonVars>>
  BY <1>1 DEF clientVars, brokerVars
<1>3. /\ LockStep' /\ OneAnswer' /\ BufferIsAPart'
      /\ \A n \in 1..Len(written') : IsTrue(written[n])'
  BY <1>2, ServerSideStays
<1>4. TypeOK'
  BY DEF IInv, TypeOK, Daemon!TypeOK, vars
<1>5. InOrder'
  BY DEF IInv, InOrder, vars
<1>6. AnswersAreTrue'
  <2>1. toClient' = toClient /\ ask' = ask
    BY DEF vars
  <2>2. \A n \in 1..Len(toClient') : IsTrue(toClient[n])'
    BY <2>1, TruthStays DEF IInv, AnswersAreTrue
  <2> QED
    BY <1>3, <2>2 DEF AnswersAreTrue
<1> QED
  BY <1>3, <1>4, <1>5, <1>6 DEF IInv

LEMMA NextInvariant == IInv /\ [Next]_vars => IInv'
<1> SUFFICES ASSUME IInv, [Next]_vars PROVE IInv'
  OBVIOUS
<1>1. CASE ClientStep
  BY <1>1, ClientKeepsInvariant
<1>2. CASE BrokerStep \/ BrokerDies
  BY <1>2, BrokerKeepsInvariant
<1>3. CASE DaemonServes
  BY <1>3, ServeKeepsInvariant
<1>4. CASE DaemonDrops \/ DaemonSeesEnd
  BY <1>4, EndKeepsInvariant
<1>5. CASE UNCHANGED vars
  BY <1>5, StutterKeepsInvariant
<1> QED
  BY <1>1, <1>2, <1>3, <1>4, <1>5 DEF Next, DaemonStep

LEMMA NativeInvariant == Spec => []IInv
  BY InitInvariant, NextInvariant, PTL DEF Spec
-----------------------------------------------------------------------------
(* The theorems *)

\* The state has its types for every set of files, chunk size and room in the socket; the
\* socket never holds more frames than it has room for.
THEOREM NativeTypeCorrect == Spec => []TypeOK
<1>1. IInv => TypeOK
  BY DEF IInv
<1> QED
  BY <1>1, NativeInvariant, PTL

\* nativeClient.ts:66-84, relay.rs:49-57, protocol.rs:128-177: through both queues the daemon
\* reads the frames of the call, each once and in order, whatever fails and whenever; nothing
\* between the two ends is lost while the port and the connection last.
THEOREM PipelineCarriesTheUpload == Spec => []PipelineIsTheUpload
<1>1. IInv => PipelineIsTheUpload
  BY DEF IInv, InOrder, PipelineIsTheUpload
<1> QED
  BY <1>1, NativeInvariant, PTL

\* relay.rs:29-38,50-56: the broker waits exactly when an answer is due, so that no answer is
\* left in the socket to be taken for that of a later request.
THEOREM RelayStaysInStep == Spec => []LockStep
<1>1. IInv => LockStep
  BY DEF IInv
<1> QED
  BY <1>1, NativeInvariant, PTL

\* Each step settles the promise as NativePromise allows, with the verdict of exactly the
\* bytes it was asked about, a truthful health report or a failure that claims nothing, or
\* leaves it alone.
LEMMA StepIsSettle ==
  ASSUME IInv, [Next]_vars
  PROVE  [Promise!Settle]_<<ask, result>>
<1> DEFINE Failed == {Promise!Unavailable(reason) : reason \in FailureReason}
<1>1. ASSUME NEW outcome, NEW pipe, Finish(outcome, pipe), outcome \in Promise!Truths(ask) \cup Failed
      PROVE  Promise!Settle
  BY <1>1 DEF Finish, Promise!Settle
<1>2. CASE PostThrows
  <2>1. Promise!Unavailable("host_unavailable") \in Failed
    BY DEF FailureReason
  <2> QED
    BY <1>1, <1>2, <2>1 DEF PostThrows
<1>3. CASE TimerFires
  <2>1. Promise!Unavailable("timeout") \in Failed
    BY DEF FailureReason
  <2> QED
    BY <1>1, <1>3, <2>1 DEF TimerFires
<1>4. CASE OnDisconnect
  <2>1. Promise!Unavailable("host_disconnected") \in Failed
    BY DEF FailureReason
  <2> QED
    BY <1>1, <1>4, <2>1 DEF OnDisconnect
<1>5. CASE OnMessage
  <2>1. OutcomeOf(Head(toClient)) \in Promise!Truths(ask)
    BY <1>5, HeadIsTrue DEF OnMessage, IsTrue
  <2> QED
    BY <1>1, <1>5, <2>1 DEF OnMessage
<1>6. CASE Post \/ BrokerStep \/ BrokerDies \/ DaemonStep \/ DaemonDrops \/ UNCHANGED vars
  <2>1. UNCHANGED <<ask, result>>
    BY <1>6 DEF Post, BrokerStep, BrokerDies, DaemonStep, DaemonDrops, BrokerConnects,
       BrokerForwards, BrokerLosesDaemon, BrokerAnswers, BrokerCannotAnswer, BrokerEndOfInput,
       DaemonServes, DaemonSeesEnd, clientVars, vars
  <2> QED
    BY <2>1
<1> QED
  BY <1>2, <1>3, <1>4, <1>5, <1>6 DEF Next, ClientStep

\* nativeClient.ts:29-139 with relay.rs, protocol.rs and session.rs behind it implement the
\* safety part of NativePromise: every behaviour starts as a promise does, and each of its
\* steps settles the promise as NativePromise allows, or leaves it alone.
THEOREM CallKeepsItsPromise == Spec => Promise!Init /\ [][Promise!Settle]_<<ask, result>>
<1>1. Init => Promise!Init
  <2> SUFFICES ASSUME Init PROVE Promise!Init
    OBVIOUS
  <2>1. ask \in Call /\ result = Pending
    BY DEF Init, Call
  <2>2. <<>> \in Seq(Byte)
    BY EmptySeq
  <2>3. ask \in [kind: {"scan", "health"}, file: Seq(Byte), protocol: Protocol]
    BY <2>1, <2>2, NativeAssumption DEF Call
  <2> QED
    BY <2>1, <2>3 DEF Promise!Init, Promise!Ask
<1>2. IInv /\ [Next]_vars => [Promise!Settle]_<<ask, result>>
  BY StepIsSettle
<1> QED
  BY <1>1, <1>2, NativeInvariant, PTL DEF Spec
-----------------------------------------------------------------------------
(* What the daemon's session holds after each frame of the call *)

\* The frame the daemon takes next, by how many it has read.
LEMMA HeadByPosition ==
  ASSUME IInv, toDaemon # <<>>
  PROVE  \/ /\ ask.kind = "health" /\ Len(log) = 0
            /\ Head(toDaemon) = [type |-> "health", id |-> ScanId, protocol |-> ask.protocol]
         \/ /\ ask.kind = "scan" /\ Len(log) = 0
            /\ Head(toDaemon) = [type |-> "scan_begin", id |-> ScanId, size |-> Len(ask.file),
                                 protocol |-> ask.protocol]
         \/ /\ ask.kind = "scan" /\ Len(log) \in 1..ChunkCount(ask.file)
            /\ Head(toDaemon) = ChunkFrame(ask.file, Len(log))
         \/ /\ ask.kind = "scan" /\ Len(log) = ChunkCount(ask.file) + 1
            /\ Head(toDaemon) = [type |-> "scan_end", id |-> ScanId]
<1>1. ask \in Call /\ Len(log) \in Nat
  BY LenProperties DEF IInv, InOrder, TypeOK, Daemon!TypeOK
<1>2. Len(log) + 1 \in 1..Len(Frames(ask)) /\ Head(toDaemon) = Frames(ask)[Len(log) + 1]
  BY HeadIsNext
<1>3. CASE ask.kind = "health"
  <2>1. Frames(ask) = << [type |-> "health", id |-> ScanId, protocol |-> ask.protocol] >>
    BY <1>3 DEF Frames
  <2> QED
    BY <1>1, <1>2, <1>3, <2>1
<1>4. CASE ask.kind = "scan"
  <2> DEFINE C == ChunkCount(ask.file)
             k == Len(log)
             frames == Frames(ask)
  <2>1. C \in Nat
    BY <1>1, <1>4, ChunkCountIsNat, NativeAssumption DEF Call
  <2>2. /\ Len(frames) = C + 2
        /\ frames[1] = [type |-> "scan_begin", id |-> ScanId, size |-> Len(ask.file),
                        protocol |-> ask.protocol]
        /\ \A n \in 1..C : frames[n + 1] = ChunkFrame(ask.file, n)
        /\ frames[C + 2] = [type |-> "scan_end", id |-> ScanId]
    BY <1>1, <1>4, FramesOfScan
  <2>3. k \in Nat /\ k + 1 \in 1..Len(frames) /\ Head(toDaemon) = frames[k + 1]
    BY <1>1, <1>2
  <2> HIDE DEF C, k, frames
  <2>4. k = 0 \/ k \in 1..C \/ k = C + 1
    BY <2>1, <2>2, <2>3
  <2>5. CASE k = 0
    BY <1>4, <2>2, <2>3, <2>5 DEF k
  <2>6. CASE k \in 1..C
    BY <1>4, <2>2, <2>3, <2>6 DEF k, C
  <2>7. CASE k = C + 1
    <3>1. k + 1 = C + 2
      BY <2>1, <2>7
    <3> QED
      BY <1>4, <2>2, <2>3, <2>7, <3>1 DEF k, C
  <2> QED
    BY <2>4, <2>5, <2>6, <2>7
<1> QED
  BY <1>1, <1>3, <1>4 DEF Call

\* While the connection lasts the session holds exactly what the frames read so far make of it:
\* nothing before the declaration and after the end, the chunks read in between.
InPlace ==
  conn = "open" =>
    IF log = <<>> \/ ask.kind = "health" \/ Len(log) = ChunkCount(ask.file) + 2
    THEN active = None
    ELSE /\ IsServable(ask)
         /\ active = [id |-> ScanId, declared_size |-> Len(ask.file),
                      bytes |-> SubSeq(ask.file, 1, Upto(ask.file, Len(log) - 1))]

LEMMA ServeKeepsInPlace ==
  ASSUME IInv, InPlace, DaemonServes
  PROVE  InPlace'
<1> DEFINE request == Head(toDaemon)
           bytes == ask.file
           C == ChunkCount(bytes)
<1>1. /\ conn = "open" /\ log' = Append(log, request) /\ Effect(request) /\ ask' = ask
      /\ toDaemon # <<>>
  BY HandleEffect DEF DaemonServes, clientVars
<1>2. Len(log) \in Nat /\ Len(log') = Len(log) + 1 /\ log' # <<>>
  <2>1. log \in Seq(Daemon!Request) /\ request \in Daemon!Request
    BY <1>1, HeadOfSocket DEF IInv, TypeOK, Daemon!TypeOK
  <2> HIDE DEF request
  <2> QED
    BY <1>1, <2>1, AppendProperties, LenProperties
<1>3. CASE conn' = "failed"
  BY <1>3 DEF InPlace
<1>4. CASE /\ ask.kind = "health" /\ Len(log) = 0
           /\ request = [type |-> "health", id |-> ScanId, protocol |-> ask.protocol]
  <2>1. request.type = "health" /\ log = <<>>
    BY <1>4, EmptySeq DEF IInv, TypeOK, Daemon!TypeOK
  <2>2. active = None
    BY <1>1, <2>1 DEF InPlace
  <2>3. active' = None
    BY <1>1, <2>1, <2>2 DEF Effect
  <2> QED
    BY <1>1, <1>4, <2>3 DEF InPlace
<1>5. CASE ask.kind = "scan"
  <2>1. bytes \in Seq(Byte) /\ C \in Nat /\ Len(bytes) \in Nat
    BY <1>5, ChunkCountIsNat, NativeAssumption, LenProperties DEF IInv, InOrder, Call
  <2>2. CASE /\ Len(log) = 0
             /\ request = [type |-> "scan_begin", id |-> ScanId, size |-> Len(bytes),
                           protocol |-> ask.protocol]
    <3>1. /\ request.type = "scan_begin" /\ request.id = ScanId /\ request.size = Len(bytes)
          /\ request.protocol = ask.protocol
      BY <2>2
    <3> HIDE DEF request
    <3>2. CASE Daemon!CanBegin(request) /\ active' = [id |-> request.id, declared_size |-> request.size, bytes |-> <<>>]
      <4>1. IsServable(ask)
        BY <3>1, <3>2 DEF Daemon!CanBegin, IsServable
      <4>2. SubSeq(bytes, 1, Upto(bytes, Len(log') - 1)) = <<>>
        <5>1. Len(log') - 1 = 0 /\ Upto(bytes, 0) = 0
          BY <1>2, <2>1, <2>2, ChunksAreTheFile
        <5>2. SubSeq(bytes, 1, 0) = <<>>
          BY <2>1, SubSeqEmpty
        <5> QED
          BY <5>1, <5>2
      <4>3. Len(log') # C + 2
        BY <1>2, <2>1, <2>2
      <4>4. active' = [id |-> ScanId, declared_size |-> Len(bytes),
                       bytes |-> SubSeq(bytes, 1, Upto(bytes, Len(log') - 1))]
        BY <3>1, <3>2, <4>2
      <4> QED
        BY <1>1, <1>2, <1>5, <4>1, <4>3, <4>4 DEF InPlace, IsServable
    <3> QED
      BY <1>1, <1>3, <3>1, <3>2 DEF Effect
  <2>3. CASE Len(log) \in 1..C /\ request = ChunkFrame(bytes, Len(log))
    <3> DEFINE n == Len(log)
               sent == Upto(bytes, n - 1)
               more == Upto(bytes, n)
    <3>1. /\ sent \in 0..Len(bytes) /\ more \in sent..Len(bytes)
          /\ request = [type |-> "scan_chunk", id |-> ScanId, offset |-> sent,
                        data |-> SubSeq(bytes, sent + 1, more)]
      BY <2>1, <2>3, ChunkIsNext
    <3>2. log # <<>> /\ n # C + 2 /\ Len(log') - 1 = n /\ Len(log') # C + 2
      BY <1>2, <2>1, <2>3, EmptySeq
    <3>3. IsServable(ask) /\ active = [id |-> ScanId, declared_size |-> Len(bytes),
                                       bytes |-> SubSeq(bytes, 1, sent)]
      BY <1>1, <1>5, <3>2 DEF InPlace
    <3> HIDE DEF sent, more, n
    <3>4. SubSeq(bytes, 1, sent) \o SubSeq(bytes, sent + 1, more) = SubSeq(bytes, 1, more)
      <4>1. sent \in (1 - 1)..Len(bytes) /\ more \in sent..Len(bytes) /\ 1 \in 1..(Len(bytes) + 1)
        BY <2>1, <3>1
      <4> QED
        BY <2>1, <4>1, ConcatAdjacentSubSeq
    <3>5. request.type = "scan_chunk" /\ request.data = SubSeq(bytes, sent + 1, more)
      BY <3>1
    <3> HIDE DEF request
    <3>6. CASE active' = [active EXCEPT !.bytes = @ \o request.data]
      <4>1. active' = [id |-> ScanId, declared_size |-> Len(bytes), bytes |-> SubSeq(bytes, 1, more)]
        BY <3>3, <3>4, <3>5, <3>6
      <4> QED
        BY <1>1, <1>2, <1>5, <3>2, <3>3, <4>1 DEF InPlace, IsServable, more
    <3> QED
      BY <1>1, <1>3, <3>5, <3>6 DEF Effect
  <2>4. CASE Len(log) = C + 1 /\ request = [type |-> "scan_end", id |-> ScanId]
    <3>1. Len(log') = C + 2
      BY <1>2, <2>1, <2>4
    <3>2. request.type = "scan_end"
      BY <2>4
    <3>3. active' = None
      BY <1>1, <3>2 DEF Effect
    <3> QED
      BY <1>1, <1>5, <3>1, <3>3 DEF InPlace
  <2> QED
    BY <1>1, <1>5, <2>2, <2>3, <2>4, HeadByPosition
<1> QED
  BY <1>1, <1>4, <1>5, HeadByPosition

LEMMA NextInPlace == IInv /\ InPlace /\ [Next]_vars => InPlace'
<1> SUFFICES ASSUME IInv, InPlace, [Next]_vars PROVE InPlace'
  OBVIOUS
<1>1. CASE DaemonServes
  BY <1>1, ServeKeepsInPlace
<1>2. CASE DaemonDrops \/ DaemonSeesEnd
  BY <1>2 DEF DaemonDrops, DaemonSeesEnd, Daemon!ReadFails, Daemon!EndOfStream, Daemon!Fail, InPlace
<1>3. CASE ClientStep \/ BrokerStep \/ BrokerDies \/ UNCHANGED vars
  <2>1. UNCHANGED <<ask, conn, active, log>>
    BY <1>3 DEF ClientStep, Post, PostThrows, TimerFires, OnMessage, OnDisconnect, Finish,
       BrokerStep, BrokerDies, BrokerConnects, BrokerForwards, BrokerLosesDaemon, BrokerAnswers,
       BrokerCannotAnswer, BrokerEndOfInput, clientVars, daemonVars, vars
  <2> QED
    BY <2>1 DEF InPlace
<1> QED
  BY <1>1, <1>2, <1>3 DEF Next, DaemonStep

LEMMA AlwaysInPlace == Spec => [](IInv /\ InPlace)
<1>1. Init => InPlace
  BY DEF Init, Daemon!Init, InPlace
<1> QED
  BY <1>1, NextInPlace, InitInvariant, NextInvariant, PTL DEF Spec

\* The next frame passes the checks of session.rs exactly if the daemon serves the call.
LEMMA NextFrameIsTaken ==
  ASSUME IInv, InPlace
  PROVE  EveryFrameIsTaken
<1> SUFFICES ASSUME conn = "open", toDaemon # <<>>
             PROVE  Len(log) < MaxFrames /\ (Daemon!CanServe(Head(toDaemon)) <=> IsServable(ask))
  BY DEF EveryFrameIsTaken
<1> DEFINE request == Head(toDaemon)
           bytes == ask.file
           C == ChunkCount(bytes)
<1>1. MAX_FILE_BYTES \in Nat /\ MaxFrames = MAX_FILE_BYTES + 2
  BY NativeAssumption DEF MaxFrames
<1>2. Len(log) = 0 => log = <<>>
  BY EmptySeq DEF IInv, TypeOK, Daemon!TypeOK
<1>3. CASE /\ ask.kind = "health" /\ Len(log) = 0
           /\ request = [type |-> "health", id |-> ScanId, protocol |-> ask.protocol]
  <2>1. request.type = "health" /\ request.id = ScanId
    BY <1>3
  <2> HIDE DEF request
  <2>2. Daemon!CanServe(request) /\ IsServable(ask)
    BY <1>3, <2>1 DEF Daemon!CanServe, IsServable
  <2> QED
    BY <1>1, <1>3, <2>2 DEF request
<1>4. CASE ask.kind = "scan"
  <2>1. bytes \in Seq(Byte) /\ C \in Nat /\ Len(bytes) \in Nat
    BY <1>4, ChunkCountIsNat, NativeAssumption, LenProperties DEF IInv, InOrder, Call
  <2>2. CASE /\ Len(log) = 0
             /\ request = [type |-> "scan_begin", id |-> ScanId, size |-> Len(bytes),
                           protocol |-> ask.protocol]
    <3>1. /\ request.type = "scan_begin" /\ request.id = ScanId /\ request.size = Len(bytes)
          /\ request.protocol = ask.protocol
      BY <2>2
    <3>2. active = None
      BY <1>2, <2>2 DEF InPlace
    <3> HIDE DEF request
    <3>3. Daemon!CanServe(request) <=> Daemon!CanBegin(request)
      BY <3>1 DEF Daemon!CanServe
    <3>4. Daemon!CanBegin(request) <=> IsServable(ask)
      BY <1>4, <3>1, <3>2 DEF Daemon!CanBegin, IsServable
    <3> QED
      BY <1>1, <2>2, <3>3, <3>4 DEF request
  <2>3. ASSUME log # <<>>, Len(log) # C + 2
        PROVE  /\ IsServable(ask) /\ Len(bytes) <= MAX_FILE_BYTES
               /\ active = [id |-> ScanId, declared_size |-> Len(bytes),
                            bytes |-> SubSeq(bytes, 1, Upto(bytes, Len(log) - 1))]
    BY <1>4, <2>3 DEF InPlace, IsServable
  <2>4. \A k \in 0..Len(bytes) :
          SubSeq(bytes, 1, k) \in Seq(Byte) /\ Len(SubSeq(bytes, 1, k)) = k
    BY <2>1, ElementOfSeq, SubSeqProperties
  <2>5. ASSUME NEW k \in 0..Len(bytes)
        PROVE  [id |-> ScanId, declared_size |-> Len(bytes), bytes |-> SubSeq(bytes, 1, k)] # None
    BY <2>1, <2>4, MarksAssumption DEF Daemon!ActiveScan
  <2>6. CASE Len(log) \in 1..C /\ request = ChunkFrame(bytes, Len(log))
    <3> DEFINE n == Len(log)
               sent == Upto(bytes, n - 1)
               more == Upto(bytes, n)
               data == SubSeq(bytes, sent + 1, more)
    <3>1. /\ sent \in 0..Len(bytes) /\ more \in sent..Len(bytes)
          /\ request = [type |-> "scan_chunk", id |-> ScanId, offset |-> sent, data |-> data]
      BY <2>1, <2>6, ChunkIsNext
    <3>2. log # <<>> /\ n # C + 2 /\ n < MaxFrames
      <4>1. log # <<>> /\ n # C + 2 /\ n \in Nat /\ n <= C
        BY <2>1, <2>6, EmptySeq
      <4>2. C <= Len(bytes) /\ Len(bytes) <= MAX_FILE_BYTES
        BY <2>1, <2>3, <4>1, ChunkCountFacts
      <4> HIDE DEF C, n, bytes
      <4> QED
        BY <1>1, <2>1, <4>1, <4>2
    <3>3. /\ IsServable(ask)
          /\ active = [id |-> ScanId, declared_size |-> Len(bytes), bytes |-> SubSeq(bytes, 1, sent)]
      BY <2>3, <3>2
    <3>4. active # None
      BY <2>5, <3>1, <3>3
    <3>5. data \in Seq(Byte) /\ Len(data) = more - sent
      <4>1. \A i \in (sent + 1)..more : bytes[i] \in Byte
        BY <2>1, <3>1, ElementOfSeq
      <4> HIDE DEF sent, more, n
      <4> QED
        BY <2>1, <3>1, <4>1, SubSeqProperties
    <3>6. data # BadBase64
      BY <3>5, MarksAssumption
    <3> HIDE DEF data, sent, more, n
    <3>7. /\ request.type = "scan_chunk" /\ request.id = ScanId /\ request.offset = sent
          /\ request.data = data
      BY <3>1
    <3> HIDE DEF request
    <3>8. Len(active.bytes) = sent /\ active.id = ScanId /\ active.declared_size = Len(bytes)
      BY <2>4, <3>1, <3>3
    <3>9. Len(active.bytes) + Len(request.data) <= active.declared_size
      BY <2>1, <3>1, <3>5, <3>7, <3>8
    <3>10. Daemon!CanAppend(request)
      BY <3>4, <3>6, <3>7, <3>8, <3>9 DEF Daemon!CanAppend
    <3>11. Daemon!CanServe(request)
      BY <3>7, <3>10 DEF Daemon!CanServe
    <3> QED
      BY <3>2, <3>3, <3>11 DEF request, n
  <2>7. CASE Len(log) = C + 1 /\ request = [type |-> "scan_end", id |-> ScanId]
    <3>1. log # <<>> /\ Len(log) # C + 2 /\ Len(log) - 1 = C
      BY <2>1, <2>7, EmptySeq
    <3>2. Upto(bytes, C) = Len(bytes) /\ C <= Len(bytes)
      BY <2>1, ChunksAreTheFile, ChunkCountFacts
    <3>3. /\ IsServable(ask) /\ Len(bytes) <= MAX_FILE_BYTES
          /\ active = [id |-> ScanId, declared_size |-> Len(bytes),
                       bytes |-> SubSeq(bytes, 1, Len(bytes))]
      BY <2>3, <3>1, <3>2
    <3>4. active # None
      BY <2>1, <2>5, <3>3
    <3>5. request.type = "scan_end" /\ request.id = ScanId
      BY <2>7
    <3> HIDE DEF request
    <3>6. /\ Len(active.bytes) = Len(bytes) /\ active.id = ScanId
          /\ active.declared_size = Len(bytes)
      BY <2>1, <2>4, <3>3
    <3>7. Daemon!CanFinish(request)
      BY <3>4, <3>5, <3>6 DEF Daemon!CanFinish
    <3>8. Daemon!CanServe(request)
      BY <3>5, <3>7 DEF Daemon!CanServe
    <3>9. Len(log) < MaxFrames
      <4> HIDE DEF C, bytes
      <4> QED
        BY <1>1, <2>1, <2>7, <3>2, <3>3
    <3> QED
      BY <3>3, <3>8, <3>9 DEF request
  <2> QED
    BY <1>4, <2>2, <2>6, <2>7, HeadByPosition
<1> QED
  BY <1>3, <1>4, HeadByPosition

\* nativeClient.ts:66-84 against session.rs:41-103: for every length of the file and every size
\* of the chunks, the daemon rejects no frame of a call it serves, and the first one of any other.
THEOREM CallsFramesAreTaken == Spec => []EveryFrameIsTaken
  BY AlwaysInPlace, NextFrameIsTaken, PTL
-----------------------------------------------------------------------------
(* The daemon's side is a connection of ScanSession *)

\* Every step of the composition is one of the connection, or none of its business.
LEMMA StepOfConnection ==
  ASSUME IInv, [Next]_vars
  PROVE  [Daemon!Next]_(Daemon!vars)
<1>1. CASE DaemonServes
  <2>1. Daemon!Handle(Head(toDaemon)) /\ Head(toDaemon) \in Daemon!Request
    BY <1>1, HeadOfSocket DEF DaemonServes
  <2> QED
    BY <2>1 DEF Daemon!Next
<1>2. CASE DaemonDrops \/ DaemonSeesEnd
  BY <1>2 DEF DaemonDrops, DaemonSeesEnd, Daemon!Next
<1>3. CASE ClientStep \/ BrokerStep \/ BrokerDies \/ UNCHANGED vars
  <2>1. UNCHANGED <<conn, active, written, log>>
    BY <1>3 DEF ClientStep, Post, PostThrows, TimerFires, OnMessage, OnDisconnect,
       BrokerStep, BrokerDies, BrokerConnects, BrokerForwards, BrokerLosesDaemon, BrokerAnswers,
       BrokerCannotAnswer, BrokerEndOfInput, daemonVars, vars
  <2> QED
    BY <2>1 DEF Daemon!vars
<1> QED
  BY <1>1, <1>2, <1>3 DEF Next, DaemonStep

\* protocol.rs:123-177: behind the broker, the daemon's connection does nothing that ScanSession
\* does not do for an arbitrary client, so that whatever is proved of ScanSession holds here.
THEOREM DaemonIsScanSession == Spec => Daemon!Spec
<1>1. Init => Daemon!Init
  BY DEF Init
<1>2. IInv /\ [Next]_vars => [Daemon!Next]_(Daemon!vars)
  BY StepOfConnection
<1> QED
  BY <1>1, <1>2, NativeInvariant, PTL DEF Spec, Daemon!Spec

\* The instance of the module and that of its proofs have the same definitions.
LEMMA SameStep == [Daemon!Next]_(Daemon!vars) => [Session!Next]_(Session!vars)
<1>1. Daemon!Request = Session!Request
  BY DEF Daemon!Request, Daemon!HealthRequest, Daemon!BeginRequest, Daemon!ChunkRequest,
         Daemon!EndRequest, Session!Request, Session!HealthRequest, Session!BeginRequest,
         Session!ChunkRequest, Session!EndRequest
<1>2. \A bytes : Daemon!Scan(bytes) = Session!Scan(bytes)
  BY DEF Session!Scan, Session!Matches, Session!Allow, Session!Block,
         Daemon!Scan, Daemon!Matches, Daemon!Allow, Daemon!Block
<1>3. ASSUME NEW request
      PROVE  /\ Daemon!CanServe(request) <=> Session!CanServe(request)
             /\ Daemon!Read(request) <=> Session!Read(request)
  BY DEF Daemon!CanServe, Daemon!CanBegin, Daemon!CanAppend, Daemon!CanFinish, Daemon!Read,
         Session!CanServe, Session!CanBegin, Session!CanAppend, Session!CanFinish, Session!Read
<1>4. ASSUME NEW request
      PROVE  Daemon!Handle(request) => Session!Handle(request)
  <2>1. Daemon!Health(request) => Session!Health(request)
    BY <1>3 DEF Daemon!Health, Session!Health, Daemon!Respond, Session!Respond,
       Daemon!HealthStatus, Session!HealthStatus
  <2>2. Daemon!Begin(request) => Session!Begin(request)
    BY <1>3 DEF Daemon!Begin, Session!Begin
  <2>3. Daemon!Chunk(request) => Session!Chunk(request)
    BY <1>3 DEF Daemon!Chunk, Session!Chunk
  <2>4. Daemon!End(request) => Session!End(request)
    BY <1>2, <1>3 DEF Daemon!End, Session!End, Daemon!Respond, Session!Respond
  <2>5. /\ Daemon!Reject(request) => Session!Reject(request)
        /\ Daemon!WriteFails(request) => Session!WriteFails(request)
    BY <1>3 DEF Daemon!Reject, Session!Reject, Daemon!WriteFails, Session!WriteFails,
       Daemon!Fail, Session!Fail
  <2> QED
    BY <2>1, <2>2, <2>3, <2>4, <2>5 DEF Daemon!Handle, Session!Handle
<1>5. /\ Daemon!ReadFails => Session!ReadFails
      /\ Daemon!EndOfStream => Session!EndOfStream
  BY DEF Daemon!ReadFails, Session!ReadFails, Daemon!EndOfStream, Session!EndOfStream,
         Daemon!Fail, Session!Fail
<1>6. Daemon!Next => Session!Next
  <2>1. ASSUME NEW request \in Daemon!Request, Daemon!Handle(request)
        PROVE  request \in Session!Request /\ Session!Handle(request)
    BY <1>1, <1>4, <2>1
  <2> QED
    BY <1>5, <2>1 DEF Daemon!Next, Session!Next
<1>7. UNCHANGED Daemon!vars => UNCHANGED Session!vars
  BY DEF Daemon!vars, Session!vars
<1> QED
  BY <1>6, <1>7

LEMMA SameProperties ==
  /\ Session!VerdictIsAboutTheDeclaredFile => Daemon!VerdictIsAboutTheDeclaredFile
  /\ Session!AnswersFollowRequests => Daemon!AnswersFollowRequests
<1>1. \A bytes : Daemon!Scan(bytes) = Session!Scan(bytes)
  BY DEF Session!Scan, Session!Matches, Session!Allow, Session!Block,
         Daemon!Scan, Daemon!Matches, Daemon!Allow, Daemon!Block
<1>2. ASSUME NEW requests, NEW first, NEW last, NEW id, NEW content,
             Session!Delivers(requests, first, last, id, content)
      PROVE  Daemon!Delivers(requests, first, last, id, content)
  BY <1>2 DEF Session!Delivers, Session!Fits, Session!Covers, Daemon!Delivers, Daemon!Fits, Daemon!Covers
<1>3. ASSUME NEW answer, Session!IsAboutItsFile(log, answer)
      PROVE  Daemon!IsAboutItsFile(log, answer)
  BY <1>1, <1>2, <1>3 DEF Session!IsAboutItsFile, Daemon!IsAboutItsFile
<1>4. Session!VerdictIsAboutTheDeclaredFile => Daemon!VerdictIsAboutTheDeclaredFile
  BY <1>3 DEF Session!VerdictIsAboutTheDeclaredFile, Daemon!VerdictIsAboutTheDeclaredFile
<1>5. Session!AnswersFollowRequests => Daemon!AnswersFollowRequests
  BY DEF Session!AnswersFollowRequests, Session!Answered, Session!Awaited, Session!Corresponds,
         Daemon!AnswersFollowRequests, Daemon!Answered, Daemon!Awaited, Daemon!Corresponds
<1> QED
  BY <1>4, <1>5

\* On the connection of the call, whatever fails, a verdict is that of a complete upload, and the
\* answers go to the requests the broker waits for (VerdictSound and AnswersInStep, instantiated).
THEOREM ConnectionKeepsItsPromises ==
  Spec => [](Daemon!VerdictIsAboutTheDeclaredFile /\ Daemon!AnswersFollowRequests)
<1>1. Init => Session!Init
  BY DEF Init, Daemon!Init, Session!Init
<1>2. IInv /\ [Next]_vars => [Session!Next]_(Session!vars)
  BY StepOfConnection, SameStep
<1>3. Spec => Session!Spec
  BY <1>1, <1>2, NativeInvariant, PTL DEF Spec, Session!Spec
<1>4. Session!Spec => []Session!VerdictIsAboutTheDeclaredFile
  BY SessionAssumptions, Session!VerdictSound
<1>5. Session!Spec => []Session!AnswersFollowRequests
  BY SessionAssumptions, Session!AnswersInStep
<1> QED
  BY <1>3, <1>4, <1>5, SameProperties, PTL
-----------------------------------------------------------------------------
(* What the worker that asks may rely on *)

\* Some rule of the table matches the bytes.
IsSecret(bytes) == \E r \in DOMAIN RULES : Daemon!Matches(bytes, RULES[r].pattern)

\* A settled scan is a verdict that says whether the file has a secret, or one of the reasons
\* for which there is none.
SettledScan ==
  ask.kind = "scan" /\ result # Pending =>
    \/ /\ result.kind = "verdict"
       /\ result.verdict.decision = IF IsSecret(ask.file) THEN "block" ELSE "allow"
    \/ \E reason \in FailureReason : result = Promise!Unavailable(reason)

\* The decision of a verdict, without the rule it names (scan.rs:72-81).
LEMMA DecisionOfScan ==
  ASSUME NEW bytes
  PROVE  Promise!Scan(bytes).decision = IF IsSecret(bytes) THEN "block" ELSE "allow"
<1> DEFINE hits == {r \in DOMAIN RULES : Promise!Matches(bytes, RULES[r].pattern)}
<1>1. IsSecret(bytes) <=> hits # {}
  BY DEF IsSecret, Promise!Matches, Daemon!Matches
<1>2. CASE hits = {}
  <2>1. Promise!Scan(bytes) = Promise!Allow
    BY <1>2 DEF Promise!Scan
  <2> QED
    BY <1>1, <1>2, <2>1 DEF Promise!Allow
<1>3. CASE hits # {}
  <2>1. Promise!Scan(bytes)
          = Promise!Block(RULES[CHOOSE r \in hits : \A q \in hits : r <= q].id)
    BY <1>3 DEF Promise!Scan
  <2> HIDE DEF hits
  <2> QED
    BY <1>1, <1>3, <2>1 DEF Promise!Block
<1> QED
  BY <1>2, <1>3

LEMMA SettleIsSound ==
  ASSUME SettledScan, [Promise!Settle]_<<ask, result>>
  PROVE  SettledScan'
<1>1. CASE UNCHANGED <<ask, result>>
  BY <1>1 DEF SettledScan
<1>2. CASE Promise!Settle
  <2> SUFFICES ASSUME ask.kind = "scan"
               PROVE  \/ /\ result'.kind = "verdict"
                         /\ result'.verdict.decision = IF IsSecret(ask.file) THEN "block" ELSE "allow"
                      \/ \E reason \in FailureReason : result' = Promise!Unavailable(reason)
    BY <1>2 DEF SettledScan, Promise!Settle
  <2>1. CASE result' \in Promise!Truths(ask)
    <3>1. result' = Promise!Verdicted(Promise!Scan(ask.file))
      BY <2>1 DEF Promise!Truths
    <3>2. result'.kind = "verdict" /\ result'.verdict = Promise!Scan(ask.file)
      BY <3>1 DEF Promise!Verdicted
    <3> QED
      BY <3>2, DecisionOfScan
  <2>2. CASE result' \in {Promise!Unavailable(reason) : reason \in FailureReason}
    BY <2>2
  <2> QED
    BY <1>2, <2>1, <2>2 DEF Promise!Settle
<1> QED
  BY <1>1, <1>2

\* nativeClient.ts:29-85 with the broker and the daemon behind it is the native host that
\* scanService.ts:58-68 is supposed to ask: what the worker gets is whether a rule matches exactly
\* the bytes it handed over, or that no answer could be had; never an answer that was refused.
THEOREM SettledScanIsSound == Spec => []SettledScan
<1>1. Init => SettledScan
  BY DEF Init, SettledScan
<1>2. IInv /\ SettledScan /\ [Next]_vars => SettledScan'
  BY StepIsSettle, SettleIsSound
<1> QED
  BY <1>1, <1>2, NativeInvariant, PTL DEF Spec
=============================================================================
