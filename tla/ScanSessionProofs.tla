------------------------- MODULE ScanSessionProofs -------------------------
(***************************************************************************)
(* Proofs about ScanSession for every alphabet, rule table, set of         *)
(* identifiers, limit and bound.  IInv is inductive; the theorems about    *)
(* the specification follow from it.                                       *)
(***************************************************************************)
EXTENDS ScanSession, SequenceTheorems, WellFoundedInduction, TLAPS

\* Every step that reads a request extends the log by it.
LEMMA LogGrows ==
  ASSUME TypeOK, NEW request \in Request, Read(request)
  PROVE  /\ log' \in Seq(Request)
         /\ Len(log') = Len(log) + 1
         /\ \A k \in 1..Len(log) : log'[k] = log[k]
         /\ log'[Len(log) + 1] = request
<1>1. log \in Seq(Request) /\ log' = Append(log, request)
  BY DEF TypeOK, Read
<1> QED
  BY <1>1, AppendProperties

\* A set of natural numbers that is not empty has a least element.
LEMMA LeastElement ==
  ASSUME NEW S \in SUBSET Nat, S # {}
  PROVE  \E m \in S : \A q \in S : m <= q
<1> DEFINE R == OpToRel(<, Nat)
<1>1. PICK m \in S : \A q \in S : ~ (<<q, m>> \in R)
  <2> HIDE DEF R
  <2>1. IsWellFoundedOn(R, Nat)
    BY NatLessThanWellFounded DEF R
  <2> QED
    BY <2>1, WFMin
<1>2. \A q \in S : ~ (q < m)
  BY <1>1 DEF OpToRel
<1> QED
  BY <1>2

\* The verdict of a sequence of bytes is one the protocol knows (scan.rs:72-81).
LEMMA ScanIsVerdict ==
  ASSUME NEW bytes \in Seq(Byte)
  PROVE  Scan(bytes) \in Verdict
<1> DEFINE hits == {r \in DOMAIN RULES : Matches(bytes, RULES[r].pattern)}
           first == CHOOSE r \in hits : \A q \in hits : r <= q
<1>1. CASE hits = {}
  BY <1>1 DEF Scan, Verdict
<1>2. CASE hits # {}
  <2>1. PICK m \in hits : \A q \in hits : m <= q
    <3>1. hits \subseteq Nat
      BY RulesAssumption
    <3> QED
      BY <1>2, <3>1, LeastElement
  <2>2. first \in hits
    BY <2>1
  <2>3. RULES[first].id \in RuleId
    <3>1. first \in DOMAIN RULES
      BY <2>2
    <3> HIDE DEF first
    <3>2. RULES[first] \in [id: RuleId, pattern: Seq(SUBSET Byte)]
      BY <3>1, RulesAssumption, ElementOfSeq, LenProperties
    <3> QED
      BY <3>2
  <2>4. Scan(bytes) = Block(RULES[first].id)
    BY <1>2 DEF Scan
  <2> QED
    BY <2>3, <2>4 DEF Verdict
<1> QED
  BY <1>1, <1>2
-----------------------------------------------------------------------------
\* A step reads a request of one of the four kinds, or none.
LEMMA NextCases ==
  ASSUME Next
  PROVE  \/ \E request \in HealthRequest : Health(request)
         \/ \E request \in BeginRequest : Begin(request)
         \/ \E request \in ChunkRequest : Chunk(request)
         \/ \E request \in EndRequest : End(request)
         \/ \E request \in Request : Reject(request) \/ WriteFails(request)
         \/ ReadFails
         \/ EndOfStream
<1>1. ASSUME NEW request \in Request
      PROVE  /\ request.type = "health" => request \in HealthRequest
             /\ request.type = "scan_begin" => request \in BeginRequest
             /\ request.type = "scan_chunk" => request \in ChunkRequest
             /\ request.type = "scan_end" => request \in EndRequest
  BY <1>1 DEF Request, HealthRequest, BeginRequest, ChunkRequest, EndRequest
<1>2. ASSUME NEW request \in Request, Handle(request)
      PROVE  \/ request \in HealthRequest /\ Health(request)
             \/ request \in BeginRequest /\ Begin(request)
             \/ request \in ChunkRequest /\ Chunk(request)
             \/ request \in EndRequest /\ End(request)
             \/ Reject(request) \/ WriteFails(request)
  BY <1>1, <1>2 DEF Handle
<1> QED
  BY <1>2 DEF Next

\* A new connection has the types of the state (session.rs:36-39, protocol.rs:123-127).
LEMMA InitTypeOK == Init => TypeOK
  BY EmptySeq DEF Init, TypeOK

\* Every step preserves the types.
LEMMA NextTypeOK == TypeOK /\ [Next]_vars => TypeOK'
<1> SUFFICES ASSUME TypeOK, [Next]_vars PROVE TypeOK'
  OBVIOUS
<1> USE DEF TypeOK
<1>1. ASSUME NEW request \in HealthRequest, Health(request) PROVE TypeOK'
  <2>1. log' \in Seq(Request)
    BY <1>1, LogGrows DEF Health, Request
  <2> DEFINE response == [type |-> "health", at |-> Len(log) + 1, id |-> request.id,
                          protocol |-> PROTOCOL_VERSION,
                          status |-> HealthStatus(request.protocol)]
  <2>2. request.id \in ValidIdentifier
    BY <1>1 DEF Health, CanServe, HealthRequest
  <2>3. response \in HealthResponse
    BY <2>2, LenProperties DEF HealthResponse, HealthStatus
  <2>4. written' \in Seq(HealthResponse \cup VerdictResponse)
    <3> HIDE DEF response
    <3>1. written' = Append(written, response)
      BY <1>1 DEF Health, Respond, response
    <3> QED
      BY <2>3, <3>1, AppendProperties
  <2> QED
    BY <1>1, <2>1, <2>4 DEF Health
<1>2. ASSUME NEW request \in BeginRequest, Begin(request) PROVE TypeOK'
  <2>1. log' \in Seq(Request)
    BY <1>2, LogGrows DEF Begin, Request
  <2>2. active' \in ActiveScan
    BY <1>2, SessionAssumption, EmptySeq DEF Begin, BeginRequest, ActiveScan
  <2> QED
    BY <1>2, <2>1, <2>2 DEF Begin
<1>3. ASSUME NEW request \in ChunkRequest, Chunk(request) PROVE TypeOK'
  <2>1. log' \in Seq(Request)
    BY <1>3, LogGrows DEF Chunk, Request
  <2>2. active \in ActiveScan /\ request.data \in Seq(Byte)
    BY <1>3, SessionAssumption DEF Chunk, CanServe, CanAppend, ChunkRequest
  <2>3. active' \in ActiveScan
    BY <1>3, <2>2, ConcatProperties DEF Chunk, ActiveScan
  <2> QED
    BY <1>3, <2>1, <2>3 DEF Chunk
<1>4. ASSUME NEW request \in EndRequest, End(request) PROVE TypeOK'
  <2>1. log' \in Seq(Request)
    BY <1>4, LogGrows DEF End, Request
  <2>2. active \in ActiveScan /\ request.id \in ValidIdentifier
    BY <1>4 DEF End, CanServe, CanFinish, EndRequest
  <2> DEFINE response == [type |-> "verdict", at |-> Len(log) + 1, id |-> request.id,
                          verdict |-> Scan(active.bytes)]
  <2>3. response \in VerdictResponse
    BY <2>2, ScanIsVerdict, LenProperties DEF VerdictResponse, ActiveScan
  <2>4. written' \in Seq(HealthResponse \cup VerdictResponse)
    <3> HIDE DEF response
    <3>1. written' = Append(written, response)
      BY <1>4 DEF End, Respond, response
    <3> QED
      BY <2>3, <3>1, AppendProperties
  <2> QED
    BY <1>4, <2>1, <2>4 DEF End
<1>5. ASSUME NEW request \in Request, Reject(request) \/ WriteFails(request) PROVE TypeOK'
  BY <1>5, LogGrows DEF Reject, WriteFails, Fail
<1>6. CASE ReadFails
  BY <1>6 DEF ReadFails, Fail
<1>7. CASE EndOfStream
  BY <1>7 DEF EndOfStream
<1>8. CASE UNCHANGED vars
  BY <1>8 DEF vars
<1> QED
  BY <1>1, <1>2, <1>3, <1>4, <1>5, <1>6, <1>7, <1>8, NextCases

\* The state of a connection has its types.
THEOREM TypeCorrect == Spec => []TypeOK
<1> QED
  BY InitTypeOK, NextTypeOK, PTL DEF Spec
-----------------------------------------------------------------------------
\* A chunk is appended only where the declaration has room, and a scan is dropped with the
\* connection, at every step (session.rs:84-87).
LEMMA NextBufferWithinDeclaration ==
  TypeOK /\ BufferWithinDeclaration /\ [Next]_vars => BufferWithinDeclaration'
<1> SUFFICES ASSUME TypeOK, BufferWithinDeclaration, [Next]_vars PROVE BufferWithinDeclaration'
  OBVIOUS
<1> USE DEF BufferWithinDeclaration
<1>1. ASSUME NEW request \in HealthRequest, Health(request) PROVE BufferWithinDeclaration'
  BY <1>1 DEF Health
<1>2. ASSUME NEW request \in BeginRequest, Begin(request) PROVE BufferWithinDeclaration'
  <2>1. request.size \in Nat /\ request.size <= MAX_FILE_BYTES
    BY <1>2, SessionAssumption DEF Begin, CanServe, CanBegin, BeginRequest
  <2> QED
    BY <1>2, <2>1, EmptySeq DEF Begin, Read
<1>3. ASSUME NEW request \in ChunkRequest, Chunk(request) PROVE BufferWithinDeclaration'
  <2>1. CanAppend(request)
    BY <1>3 DEF Chunk, CanServe, ChunkRequest
  <2>2. active \in ActiveScan /\ request.data \in Seq(Byte)
    BY <2>1, SessionAssumption DEF CanAppend, ChunkRequest, TypeOK
  <2>3. Len(active.bytes \o request.data) = Len(active.bytes) + Len(request.data)
    BY <2>2, ConcatProperties DEF ActiveScan
  <2>4. active' = [active EXCEPT !.bytes = active.bytes \o request.data]
    BY <1>3 DEF Chunk
  <2> QED
    BY <1>3, <2>1, <2>2, <2>3, <2>4 DEF Chunk, Read, CanAppend, ActiveScan
<1>4. ASSUME NEW request \in EndRequest, End(request) PROVE BufferWithinDeclaration'
  BY <1>4 DEF End
<1>5. ASSUME NEW request, Reject(request) \/ WriteFails(request) PROVE BufferWithinDeclaration'
  BY <1>5 DEF Reject, WriteFails, Fail
<1>6. CASE ReadFails \/ EndOfStream
  BY <1>6 DEF ReadFails, EndOfStream, Fail
<1>7. CASE UNCHANGED vars
  BY <1>7 DEF vars
<1> QED
  BY <1>1, <1>2, <1>3, <1>4, <1>5, <1>6, <1>7, NextCases DEF Request
-----------------------------------------------------------------------------
\* What a log says of a completed stretch does not change when the log grows.
LEMMA DeliversStable ==
  ASSUME NEW l, NEW m, NEW n \in Nat, \A k \in 1..n : m[k] = l[k],
         NEW first \in 1..n, NEW last \in 1..(n + 1), NEW id, NEW content,
         Delivers(l, first, last, id, content)
  PROVE  Delivers(m, first, last, id, content)
<1>1. m[first] = l[first] /\ \A k \in (first + 1)..(last - 1) : m[k] = l[k]
  OBVIOUS
<1> QED
  BY <1>1 DEF Delivers

\* A request that fits the longer content extends an upload, provided that it carries the
\* bytes the content has gained.
LEMMA UploadExtends ==
  ASSUME NEW l, NEW m, NEW n \in Nat, \A k \in 1..n : m[k] = l[k],
         NEW first \in 1..n, NEW id, NEW content, NEW longer,
         Delivers(l, first, n + 1, id, content),
         \A k \in 1..n : Fits(l[k], id, content) => Fits(l[k], id, longer),
         Fits(m[n + 1], id, longer),
         \A x \in 1..Len(longer) : x \in 1..Len(content) \/ Covers(m[n + 1], x)
  PROVE  Delivers(m, first, n + 2, id, longer)
<1>1. /\ \A k \in (first + 1)..n : k \in 1..n /\ m[k] = l[k] /\ k \in (first + 1)..(n + 1)
      /\ \A k \in (first + 1)..(n + 1) : k = n + 1 \/ k \in (first + 1)..n
      /\ n + 1 \in (first + 1)..(n + 1)
      /\ (n + 1) - 1 = n /\ (n + 2) - 1 = n + 1
      /\ m[first] = l[first]
  OBVIOUS
<1>2. /\ l[first].type = "scan_begin" /\ l[first].id = id
      /\ \A k \in (first + 1)..n : Fits(l[k], id, content)
      /\ \A x \in 1..Len(content) : \E k \in (first + 1)..n : Covers(l[k], x)
  BY <1>1 DEF Delivers
<1>3. \A k \in (first + 1)..(n + 1) : Fits(m[k], id, longer)
  BY <1>1, <1>2
<1>4. \A x \in 1..Len(longer) : \E k \in (first + 1)..(n + 1) : Covers(m[k], x)
  BY <1>1, <1>2
<1> QED
  BY <1>1, <1>2, <1>3, <1>4 DEF Delivers

\* What fits a content fits every continuation of it.
LEMMA FitsLonger ==
  ASSUME NEW content \in Seq(Byte), NEW more \in Seq(Byte), NEW id, NEW request,
         Fits(request, id, content)
  PROVE  Fits(request, id, content \o more)
<1> DEFINE longer == content \o more
<1>1. \A x \in 1..Len(content) : x \in 1..Len(longer) /\ longer[x] = content[x]
  BY ConcatProperties, LenProperties
<1> HIDE DEF longer
<1>2. Fits(request, id, longer)
  BY <1>1 DEF Fits
<1> QED
  BY <1>2 DEF longer

\* A chunk at the end of the buffer fits the buffer with its data, and carries what is new.
LEMMA ChunkFits ==
  ASSUME NEW content \in Seq(Byte), NEW request,
         request.type = "scan_chunk",
         request.data \in Seq(Byte), request.data # BadBase64,
         request.offset = Len(content)
  PROVE  /\ Fits(request, request.id, content \o request.data)
         /\ \A x \in 1..Len(content \o request.data) :
              x \in 1..Len(content) \/ Covers(request, x)
<1> DEFINE more == request.data
           longer == content \o more
<1>1. /\ Len(content) \in Nat /\ Len(more) \in Nat
      /\ Len(longer) = Len(content) + Len(more)
      /\ \A i \in 1..(Len(content) + Len(more)) :
            longer[i] = IF i <= Len(content) THEN content[i] ELSE more[i - Len(content)]
  BY ConcatProperties, LenProperties
<1> HIDE DEF longer
<1>2. ASSUME NEW j \in 1..Len(more)
      PROVE  Len(content) + j \in 1..Len(longer) /\ longer[Len(content) + j] = more[j]
  <2>1. /\ Len(content) + j \in 1..(Len(content) + Len(more))
        /\ ~(Len(content) + j <= Len(content))
        /\ (Len(content) + j) - Len(content) = j
    BY <1>1
  <2> QED
    BY <1>1, <2>1
<1>3. Fits(request, request.id, longer)
  BY <1>2 DEF Fits
<1>4. ASSUME NEW x \in 1..Len(longer)
      PROVE  x \in 1..Len(content) \/ Covers(request, x)
  BY <1>1 DEF Covers
<1> QED
  BY <1>3, <1>4 DEF longer
-----------------------------------------------------------------------------
\* While a scan is active the buffer is the upload at the end of the log, at every step.
LEMMA NextBufferIsDelivered ==
  TypeOK /\ BufferIsDelivered /\ [Next]_vars => BufferIsDelivered'
<1> SUFFICES ASSUME TypeOK, BufferIsDelivered, [Next]_vars PROVE BufferIsDelivered'
  OBVIOUS
<1> DEFINE n == Len(log)
<1>n. n \in Nat
  BY LenProperties DEF TypeOK
<1>g. ASSUME NEW request \in Request, Read(request)
      PROVE  /\ Len(log') = n + 1 /\ \A k \in 1..n : log'[k] = log[k]
             /\ log'[n + 1] = request
  BY <1>g, LogGrows
<1>u. ASSUME active # None
      PROVE  \E first \in 1..n : /\ log[first].type = "scan_begin"
                                 /\ log[first].size = active.declared_size
                                 /\ Delivers(log, first, n + 1, active.id, active.bytes)
  BY <1>u DEF BufferIsDelivered
<1>v. ASSUME NEW first \in 1..(n + 1), Len(log') = n + 1,
             log'[first].type = "scan_begin",
             log'[first].size = active'.declared_size,
             Delivers(log', first, n + 2, active'.id, active'.bytes)
      PROVE  BufferIsDelivered'
  <2>1. first \in 1..Len(log') /\ Len(log') + 1 = n + 2
    BY <1>n, <1>v
  <2> QED
    BY <1>v, <2>1 DEF BufferIsDelivered
<1> HIDE DEF n
<1>1. ASSUME NEW request \in HealthRequest, Health(request), active # None
      PROVE  BufferIsDelivered'
  <2>1. PICK first \in 1..n : /\ log[first].type = "scan_begin"
                              /\ log[first].size = active.declared_size
                              /\ Delivers(log, first, n + 1, active.id, active.bytes)
    BY <1>1, <1>u
  <2>2. /\ Len(log') = n + 1 /\ \A k \in 1..n : log'[k] = log[k]
        /\ log'[n + 1] = request /\ active' = active
    BY <1>1, <1>g DEF Health, Request
  <2>3. Fits(log'[n + 1], active.id, active.bytes)
    BY <2>2 DEF Fits, HealthRequest
  <2>4. Delivers(log', first, n + 2, active.id, active.bytes)
    BY <1>n, <2>1, <2>2, <2>3, UploadExtends
  <2>5. first \in 1..(n + 1) /\ log'[first] = log[first]
    BY <1>n, <2>2
  <2> QED
    BY <1>v, <2>1, <2>2, <2>4, <2>5
<1>2. ASSUME NEW request \in BeginRequest, Begin(request) PROVE BufferIsDelivered'
  <2>1. /\ Len(log') = n + 1 /\ log'[n + 1] = request
        /\ active' = [id |-> request.id, declared_size |-> request.size, bytes |-> <<>>]
    BY <1>2, <1>g DEF Begin, Request
  <2>2. request.type = "scan_begin"
    BY DEF BeginRequest
  <2>3. /\ ((n + 1) + 1)..((n + 2) - 1) = {} /\ 1..0 = {} /\ n + 1 \in 1..(n + 1)
    BY <1>n
  <2>4. Delivers(log', n + 1, n + 2, request.id, <<>>)
    BY <2>1, <2>2, <2>3, EmptySeq DEF Delivers
  <2> QED
    BY <1>v, <2>1, <2>2, <2>3, <2>4
<1>3. ASSUME NEW request \in ChunkRequest, Chunk(request) PROVE BufferIsDelivered'
  <2>1. CanAppend(request) /\ request.type = "scan_chunk"
    BY <1>3 DEF Chunk, CanServe, ChunkRequest
  <2>2. active \in ActiveScan /\ request.data \in Seq(Byte) /\ request.data # BadBase64
    BY <2>1, SessionAssumption DEF CanAppend, ChunkRequest, TypeOK
  <2>3. active.bytes \in Seq(Byte)
    BY <2>2 DEF ActiveScan
  <2>4. PICK first \in 1..n : /\ log[first].type = "scan_begin"
                              /\ log[first].size = active.declared_size
                              /\ Delivers(log, first, n + 1, active.id, active.bytes)
    BY <1>u, <2>1 DEF CanAppend
  <2>5. /\ Len(log') = n + 1 /\ \A k \in 1..n : log'[k] = log[k] /\ log'[n + 1] = request
    BY <1>3, <1>g DEF Chunk, Request
  <2> DEFINE longer == active.bytes \o request.data
  <2>6. /\ active'.id = active.id /\ active'.declared_size = active.declared_size
        /\ active'.bytes = longer
    BY <1>3, <2>2 DEF Chunk, ActiveScan
  <2>7. /\ Fits(request, active.id, longer)
        /\ \A x \in 1..Len(longer) : x \in 1..Len(active.bytes) \/ Covers(request, x)
    BY <2>1, <2>2, <2>3, ChunkFits DEF CanAppend
  <2>8. \A k \in 1..n : Fits(log[k], active.id, active.bytes) => Fits(log[k], active.id, longer)
    BY <2>2, <2>3, FitsLonger
  <2> HIDE DEF longer
  <2>9. Delivers(log', first, n + 2, active.id, longer)
    BY <1>n, <2>4, <2>5, <2>7, <2>8, UploadExtends
  <2>10. first \in 1..(n + 1) /\ log'[first] = log[first]
    BY <1>n, <2>5
  <2> QED
    BY <1>v, <2>4, <2>5, <2>6, <2>9, <2>10
<1>4. ASSUME active' = None PROVE BufferIsDelivered'
  BY <1>4 DEF BufferIsDelivered
<1>5. CASE UNCHANGED vars
  BY <1>5 DEF vars, BufferIsDelivered
<1> QED
  BY <1>1, <1>2, <1>3, <1>4, <1>5, NextCases
  DEF Health, End, Reject, WriteFails, ReadFails, EndOfStream, Fail
-----------------------------------------------------------------------------
\* An answer that is about its file stays so when the log grows.
LEMMA AboutItsFileStable ==
  ASSUME NEW answer, NEW request \in Request, TypeOK, Read(request),
         IsAboutItsFile(log, answer)
  PROVE  IsAboutItsFile(log', answer)
<1> DEFINE n == Len(log)
<1>1. /\ n \in Nat /\ Len(log') = n + 1 /\ \A k \in 1..n : log'[k] = log[k]
  BY LogGrows, LenProperties DEF TypeOK
<1>2. /\ answer.at \in 1..n /\ log[answer.at].type = "scan_end"
      /\ log[answer.at].id = answer.id
  BY DEF IsAboutItsFile
<1>3. PICK first \in 1..(answer.at - 1) :
        /\ log[first].type = "scan_begin"
        /\ \E content \in [1..log[first].size -> Byte] :
             /\ Delivers(log, first, answer.at, answer.id, content)
             /\ answer.verdict = Scan(content)
  BY DEF IsAboutItsFile
<1>4. PICK content \in [1..log[first].size -> Byte] :
        /\ Delivers(log, first, answer.at, answer.id, content)
        /\ answer.verdict = Scan(content)
  BY <1>3
<1> HIDE DEF n
<1>5. /\ first \in 1..n /\ answer.at \in 1..(n + 1) /\ answer.at \in 1..Len(log')
      /\ log'[first] = log[first] /\ log'[answer.at] = log[answer.at]
  BY <1>1, <1>2, <1>3
<1>6. Delivers(log', first, answer.at, answer.id, content)
  BY <1>1, <1>4, <1>5, DeliversStable
<1> QED
  BY <1>2, <1>3, <1>4, <1>5, <1>6 DEF IsAboutItsFile

\* Every verdict written is about its file, at every step.
LEMMA NextVerdict ==
  /\ TypeOK /\ BufferIsDelivered /\ VerdictIsAboutTheDeclaredFile /\ [Next]_vars
  => VerdictIsAboutTheDeclaredFile'
<1> SUFFICES ASSUME TypeOK, BufferIsDelivered, VerdictIsAboutTheDeclaredFile, [Next]_vars
             PROVE  VerdictIsAboutTheDeclaredFile'
  OBVIOUS
<1>1. ASSUME NEW request \in Request, Read(request), UNCHANGED written
      PROVE  VerdictIsAboutTheDeclaredFile'
  BY <1>1, AboutItsFileStable DEF VerdictIsAboutTheDeclaredFile
<1>2. ASSUME NEW request \in Request, Read(request), NEW response, Respond(response),
             response.type = "verdict" => IsAboutItsFile(log', response)
      PROVE  VerdictIsAboutTheDeclaredFile'
  <2>1. \A k \in 1..Len(written') :
          (k \in 1..Len(written) /\ written'[k] = written[k]) \/ written'[k] = response
    BY <1>2, AppendProperties, LenProperties DEF Respond, TypeOK
  <2> QED
    BY <1>2, <2>1, AboutItsFileStable DEF VerdictIsAboutTheDeclaredFile
<1>3. ASSUME NEW request \in HealthRequest, Health(request)
      PROVE  VerdictIsAboutTheDeclaredFile'
  BY <1>2, <1>3 DEF Health, Request
<1>4. ASSUME NEW request \in EndRequest, End(request) PROVE VerdictIsAboutTheDeclaredFile'
  <2> DEFINE n == Len(log)
             response == [type |-> "verdict", at |-> n + 1, id |-> request.id,
                          verdict |-> Scan(active.bytes)]
  <2>1. CanFinish(request) /\ request.type = "scan_end"
    BY <1>4 DEF End, CanServe, EndRequest
  <2>2. active \in ActiveScan
    BY <2>1 DEF CanFinish, TypeOK
  <2>3. /\ n \in Nat /\ Len(log') = n + 1 /\ \A k \in 1..n : log'[k] = log[k]
        /\ log'[n + 1] = request
    BY <1>4, LogGrows, LenProperties DEF End, Request, TypeOK
  <2>4. PICK first \in 1..n : /\ log[first].type = "scan_begin"
                              /\ log[first].size = active.declared_size
                              /\ Delivers(log, first, n + 1, active.id, active.bytes)
    BY <2>1 DEF CanFinish, BufferIsDelivered
  <2>5. active.bytes \in [1..log[first].size -> Byte]
    BY <2>1, <2>2, <2>4, LenProperties DEF CanFinish, ActiveScan
  <2> HIDE DEF n
  <2>6. Delivers(log', first, n + 1, request.id, active.bytes)
    <3>1. n + 1 \in 1..(n + 1) /\ active.id = request.id
      BY <2>1, <2>3 DEF CanFinish
    <3> QED
      BY <2>3, <2>4, <3>1, DeliversStable
  <2>7. /\ response.at \in 1..Len(log') /\ first \in 1..(response.at - 1)
        /\ log'[first] = log[first] /\ log'[response.at] = request
        /\ response.id = request.id /\ response.verdict = Scan(active.bytes)
        /\ response.at = n + 1
    BY <2>3
  <2>8. Respond(response)
    BY <1>4 DEF End, n
  <2> HIDE DEF response
  <2>9. IsAboutItsFile(log', response)
    BY <2>1, <2>4, <2>5, <2>6, <2>7 DEF IsAboutItsFile
  <2> QED
    BY <1>2, <1>4, <2>8, <2>9 DEF End, Request
<1>5. CASE UNCHANGED <<written, log>>
  BY <1>5 DEF VerdictIsAboutTheDeclaredFile
<1> QED
  BY <1>1, <1>3, <1>4, <1>5, NextCases
  DEF Request, Begin, Chunk, Reject, WriteFails, ReadFails, EndOfStream, vars
-----------------------------------------------------------------------------
\* A request that is read is awaited or not; those before it stay as they were.
LEMMA AwaitedGrows ==
  ASSUME TypeOK, NEW request \in Request, Read(request)
  PROVE  Awaited(log') = Awaited(log) \cup
           (IF request.type \in {"health", "scan_end"} THEN {Len(log) + 1} ELSE {})
<1> DEFINE n == Len(log)
<1>1. /\ n \in Nat /\ Len(log') = n + 1 /\ \A k \in 1..n : log'[k] = log[k]
      /\ log'[n + 1] = request
  BY LogGrows, LenProperties DEF TypeOK
<1> HIDE DEF n
<1>2. /\ Awaited(log') = {k \in 1..(n + 1) : log'[k].type \in {"health", "scan_end"}}
      /\ Awaited(log) = {k \in 1..n : log[k].type \in {"health", "scan_end"}}
  BY <1>1 DEF Awaited, n
<1>3. \A k \in 1..(n + 1) : k \in 1..n \/ k = n + 1
  BY <1>1
<1>4. 1..n \subseteq 1..(n + 1) /\ n + 1 \in 1..(n + 1) /\ n + 1 \notin 1..n
  BY <1>1
<1>5. Awaited(log') = Awaited(log) \cup
        (IF request.type \in {"health", "scan_end"} THEN {n + 1} ELSE {})
  BY <1>1, <1>2, <1>3, <1>4
<1> QED
  BY <1>5 DEF n

\* Answering the request just read keeps the answers in step with the requests.
LEMMA AnswerKeepsStep ==
  ASSUME TypeOK, AnswersFollowRequests, conn = "open", conn' = "open",
         NEW request \in Request, Read(request), request.type \in {"health", "scan_end"},
         NEW response \in HealthResponse \cup VerdictResponse, Respond(response),
         response.at = Len(log) + 1, Corresponds(response, request)
  PROVE  AnswersFollowRequests'
<1> DEFINE n == Len(log)
           w == Len(written)
<1>1. /\ n \in Nat /\ Len(log') = n + 1 /\ \A k \in 1..n : log'[k] = log[k]
      /\ log'[n + 1] = request
  BY LogGrows, LenProperties DEF TypeOK
<1>2. /\ w \in Nat /\ Len(written') = w + 1 /\ \A k \in 1..w : written'[k] = written[k]
      /\ written'[w + 1] = response
  BY AppendProperties, LenProperties DEF Respond, TypeOK
<1> HIDE DEF n, w
<1>3. \A k \in 1..w : written[k].at \in 1..n
  BY DEF AnswersFollowRequests, Answered, Awaited, n, w
<1>4. \A k \in 2..(w + 1) : written'[k - 1].at < written'[k].at
  <2> SUFFICES ASSUME NEW k \in 2..(w + 1) PROVE written'[k - 1].at < written'[k].at
    OBVIOUS
  <2>1. CASE k = w + 1
    <3>1. k - 1 \in 1..w /\ k - 1 = w
      BY <1>2, <2>1
    <3>2. written'[k - 1].at \in 1..n /\ written'[k].at = n + 1
      BY <1>2, <1>3, <2>1, <3>1 DEF n
    <3> QED
      BY <1>1, <3>2
  <2>2. CASE k # w + 1
    <3>1. k \in 2..w /\ k - 1 \in 1..w /\ k \in 1..w
      BY <1>2, <2>2
    <3> QED
      BY <1>2, <3>1 DEF AnswersFollowRequests, w
  <2> QED
    BY <2>1, <2>2
<1>5. Answered(written') = Answered(written) \cup {n + 1}
  <2>1. /\ Answered(written') = {written'[k].at : k \in 1..(w + 1)}
        /\ Answered(written) = {written[k].at : k \in 1..w}
    BY <1>2 DEF Answered, w
  <2>2. (\A k \in 1..(w + 1) : k \in 1..w \/ k = w + 1) /\ 1..w \subseteq 1..(w + 1)
        /\ w + 1 \in 1..(w + 1)
    BY <1>2
  <2> QED
    BY <1>2, <2>1, <2>2 DEF n
<1>6. Awaited(log') = Awaited(log) \cup {n + 1}
  BY AwaitedGrows DEF n
<1>7. \A k \in 1..(w + 1) : Corresponds(written'[k], log'[written'[k].at])
  <2> SUFFICES ASSUME NEW k \in 1..(w + 1)
               PROVE  Corresponds(written'[k], log'[written'[k].at])
    OBVIOUS
  <2>1. CASE k = w + 1
    BY <1>1, <1>2, <2>1 DEF n
  <2>2. CASE k \in 1..w
    BY <1>1, <1>2, <1>3, <2>2 DEF AnswersFollowRequests, w
  <2> QED
    BY <1>2, <2>1, <2>2
<1>8. Awaited(log) = Answered(written)
  BY DEF AnswersFollowRequests
<1> QED
  BY <1>2, <1>4, <1>5, <1>6, <1>7, <1>8 DEF AnswersFollowRequests

\* Reading a request without an answer keeps it if none is awaited, or if the loop is left.
LEMMA SilenceKeepsStep ==
  ASSUME TypeOK, AnswersFollowRequests, conn = "open", UNCHANGED written,
         NEW request \in Request, Read(request),
         conn' = "failed" \/ (conn' = "open" /\ request.type \notin {"health", "scan_end"})
  PROVE  AnswersFollowRequests'
<1>1. /\ Len(log) \in Nat /\ Len(log') = Len(log) + 1
      /\ \A k \in 1..Len(log) : log'[k] = log[k]
  BY LogGrows, LenProperties DEF TypeOK
<1>2. Awaited(log) = Answered(written)
  BY DEF AnswersFollowRequests
<1>3. /\ Answered(written') \subseteq Awaited(log')
      /\ IF conn' = "failed" THEN Awaited(log') \ Answered(written') \subseteq {Len(log')}
         ELSE Awaited(log') = Answered(written')
  BY <1>1, <1>2, AwaitedGrows
<1>4. \A k \in 1..Len(written) : log'[written[k].at] = log[written[k].at]
  BY <1>1 DEF AnswersFollowRequests, Answered, Awaited
<1> QED
  BY <1>3, <1>4 DEF AnswersFollowRequests

\* Every turn of the request loop keeps the answers in step with the requests.
LEMMA NextAnswers == TypeOK /\ AnswersFollowRequests /\ [Next]_vars => AnswersFollowRequests'
<1> SUFFICES ASSUME TypeOK, AnswersFollowRequests, [Next]_vars PROVE AnswersFollowRequests'
  OBVIOUS
<1>1. ASSUME NEW request \in HealthRequest, Health(request) PROVE AnswersFollowRequests'
  <2> DEFINE response == [type |-> "health", at |-> Len(log) + 1, id |-> request.id,
                          protocol |-> PROTOCOL_VERSION,
                          status |-> HealthStatus(request.protocol)]
  <2>1. request \in Request /\ request.type = "health" /\ request.id \in ValidIdentifier
    BY <1>1 DEF Health, CanServe, HealthRequest, Request
  <2>2. response \in HealthResponse /\ response.at = Len(log) + 1
    BY <2>1, LenProperties DEF HealthResponse, HealthStatus, TypeOK
  <2>3. Corresponds(response, request)
    BY <2>1 DEF Corresponds
  <2>4. conn = "open" /\ conn' = "open" /\ Read(request) /\ Respond(response)
    BY <1>1 DEF Health, Read
  <2> HIDE DEF response
  <2> QED
    BY <2>1, <2>2, <2>3, <2>4, AnswerKeepsStep
<1>2. ASSUME NEW request \in EndRequest, End(request) PROVE AnswersFollowRequests'
  <2> DEFINE response == [type |-> "verdict", at |-> Len(log) + 1, id |-> request.id,
                          verdict |-> Scan(active.bytes)]
  <2>1. request \in Request /\ request.type = "scan_end" /\ CanFinish(request)
    BY <1>2 DEF End, CanServe, EndRequest, Request
  <2>2. active.bytes \in Seq(Byte) /\ request.id \in ValidIdentifier
    BY <2>1 DEF CanFinish, TypeOK, ActiveScan
  <2>3. response \in VerdictResponse /\ response.at = Len(log) + 1
    BY <2>2, ScanIsVerdict, LenProperties DEF VerdictResponse, TypeOK
  <2>4. Corresponds(response, request)
    BY <2>1 DEF Corresponds
  <2>5. conn = "open" /\ conn' = "open" /\ Read(request) /\ Respond(response)
    BY <1>2 DEF End, Read
  <2> HIDE DEF response
  <2> QED
    BY <2>1, <2>3, <2>4, <2>5, AnswerKeepsStep
<1>3. ASSUME NEW request \in BeginRequest, Begin(request) PROVE AnswersFollowRequests'
  BY <1>3, SilenceKeepsStep DEF Begin, Read, BeginRequest, Request
<1>4. ASSUME NEW request \in ChunkRequest, Chunk(request) PROVE AnswersFollowRequests'
  BY <1>4, SilenceKeepsStep DEF Chunk, Read, ChunkRequest, Request
<1>5. ASSUME NEW request \in Request, Reject(request) \/ WriteFails(request)
      PROVE  AnswersFollowRequests'
  BY <1>5, SilenceKeepsStep DEF Reject, WriteFails, Fail, Read
<1>6. CASE ReadFails \/ EndOfStream
  BY <1>6 DEF ReadFails, EndOfStream, Fail, AnswersFollowRequests
<1>7. CASE UNCHANGED vars
  BY <1>7 DEF vars, AnswersFollowRequests
<1> QED
  BY <1>1, <1>2, <1>3, <1>4, <1>5, <1>6, <1>7, NextCases
-----------------------------------------------------------------------------
\* The strengthened invariant holds of a new connection.
LEMMA InitInvariant == Init => IInv
  BY InitTypeOK, EmptySeq
  DEF Init, IInv, BufferIsTheUpload, BufferWithinDeclaration, BufferIsDelivered,
      VerdictIsAboutTheDeclaredFile

\* Every turn of the request loop keeps it (protocol.rs:131-175).
LEMMA NextInvariant == IInv /\ [Next]_vars => IInv'
  BY NextTypeOK, NextBufferWithinDeclaration, NextBufferIsDelivered, NextVerdict
  DEF IInv, BufferIsTheUpload

\* Whatever a client sends, a verdict the daemon writes is the verdict of one complete,
\* contiguous upload of the declared size (session.rs:91-103, protocol.rs:159-175).
THEOREM VerdictSound == Spec => []VerdictIsAboutTheDeclaredFile
<1>1. IInv => VerdictIsAboutTheDeclaredFile
  BY DEF IInv
<1> QED
  BY <1>1, InitInvariant, NextInvariant, PTL DEF Spec

\* While a scan is active its buffer is the content of the chunks since its declaration, and of
\* nothing else, within the capacity allocated for it (session.rs:32-89).
THEOREM BufferFollowsUpload == Spec => []BufferIsTheUpload
<1>1. IInv => BufferIsTheUpload
  BY DEF IInv
<1> QED
  BY <1>1, InitInvariant, NextInvariant, PTL DEF Spec

\* The answers of a connection go to the requests the broker waits for, in their order and
\* each once, and while it has not failed none is owed (protocol.rs:131-175, relay.rs:29-38).
THEOREM AnswersInStep == Spec => []AnswersFollowRequests
<1>1. Init => AnswersFollowRequests
  BY EmptySeq DEF Init, AnswersFollowRequests, Awaited, Answered
<1> QED
  BY <1>1, InitTypeOK, NextTypeOK, NextAnswers, PTL DEF Spec
-----------------------------------------------------------------------------
(* The content a verdict is about *)

AgreeAt(c, d, x) == c[x] = d[x]

\* A chunk that carries a byte of two contents gives both the same byte there.
LEMMA ChunkDetermines ==
  ASSUME NEW request \in Request, NEW id, NEW c, NEW d, NEW x \in Nat,
         Fits(request, id, c), Fits(request, id, d), Covers(request, x)
  PROVE  AgreeAt(c, d, x)
<1>1. request.type = "scan_chunk" /\ request.data # BadBase64
  BY DEF Covers, Fits
<1>2. request.offset \in Nat /\ request.data \in Seq(Byte)
  BY <1>1, SessionAssumption
  DEF Request, HealthRequest, BeginRequest, ChunkRequest, EndRequest
<1>3. Len(request.data) \in Nat
  BY <1>2, LenProperties
<1> DEFINE j == x - request.offset
<1>4. j \in 1..Len(request.data) /\ request.offset + j = x
  BY <1>2, <1>3 DEF Covers
<1> HIDE DEF j
<1>5. c[request.offset + j] = request.data[j] /\ d[request.offset + j] = request.data[j]
  BY <1>1, <1>4 DEF Fits
<1> QED
  BY <1>4, <1>5 DEF AgreeAt

\* protocol.rs:131-175: the requests before a scan_end determine which declaration it ends and
\* what was uploaded since, so that "the file" of VerdictIsAboutTheDeclaredFile is one file.
THEOREM UploadHasOneContent ==
  ASSUME NEW requests \in Seq(Request), NEW at \in 1..Len(requests), NEW id,
         NEW f \in 1..(at - 1), NEW g \in 1..(at - 1),
         requests[f].type = "scan_begin", requests[g].type = "scan_begin",
         NEW c \in [1..requests[f].size -> Byte], NEW d \in [1..requests[g].size -> Byte],
         Delivers(requests, f, at, id, c), Delivers(requests, g, at, id, d)
  PROVE  f = g /\ c = d
<1>1. Len(requests) \in Nat /\ at \in Nat
  BY LenProperties
<1>2. \A k \in (f + 1)..(at - 1) : Fits(requests[k], id, c)
  BY DEF Delivers
<1>3. \A k \in (g + 1)..(at - 1) : Fits(requests[k], id, d)
  BY DEF Delivers
<1>4. /\ \A k \in (f + 1)..(at - 1) : requests[k].type # "scan_begin"
      /\ \A k \in (g + 1)..(at - 1) : requests[k].type # "scan_begin"
  BY <1>2, <1>3 DEF Fits
<1>5. f = g
  BY <1>1, <1>4
<1>6. requests[f] \in Request
  BY <1>1, ElementOfSeq
<1> DEFINE L == requests[f].size
<1>7. L \in Nat
  BY <1>6, SessionAssumption
  DEF Request, HealthRequest, BeginRequest, ChunkRequest, EndRequest
<1>8. c \in [1..L -> Byte] /\ d \in [1..L -> Byte]
  BY <1>5
<1>9. Len(c) = L
  BY <1>7, <1>8, LenProperties
<1>10. ASSUME NEW x \in 1..L
       PROVE  AgreeAt(c, d, x)
  <2>1. PICK k \in (f + 1)..(at - 1) : Covers(requests[k], x)
    BY <1>9 DEF Delivers
  <2>2. Fits(requests[k], id, c) /\ Fits(requests[k], id, d)
    BY <1>2, <1>3, <1>5
  <2>3. requests[k] \in Request /\ x \in Nat
    <3>1. k \in 1..Len(requests)
      BY <1>1
    <3> QED
      BY <1>7, <3>1, ElementOfSeq
  <2> QED
    BY <2>1, <2>2, <2>3, ChunkDetermines
<1> HIDE DEF L
<1>11. c = d
  <2>1. c = [x \in 1..L |-> c[x]] /\ d = [x \in 1..L |-> d[x]]
    BY <1>8
  <2> QED
    BY <1>10, <2>1 DEF AgreeAt
<1> QED
  BY <1>5, <1>11
-----------------------------------------------------------------------------
(* The scanner *)

\* The pattern of a rule is a sequence of sets of bytes.
LEMMA PatternOfRule ==
  ASSUME NEW r \in DOMAIN RULES
  PROVE  Len(RULES[r].pattern) \in Nat /\ DOMAIN RULES[r].pattern = 1..Len(RULES[r].pattern)
<1>1. RULES[r] \in [id: RuleId, pattern: Seq(SUBSET Byte)]
  BY RulesAssumption, ElementOfSeq, LenProperties
<1> QED
  BY <1>1, LenProperties

\* What a pattern matches it matches in every file around it.
LEMMA MatchesInside ==
  ASSUME NEW before \in Seq(Byte), NEW bytes \in Seq(Byte), NEW after \in Seq(Byte),
         NEW pattern, Len(pattern) \in Nat, DOMAIN pattern = 1..Len(pattern),
         Matches(bytes, pattern)
  PROVE  Matches(before \o bytes \o after, pattern)
<1> DEFINE opening == before \o bytes
           all == opening \o after
           b == Len(before)
           n == Len(bytes)
<1>1. b \in Nat /\ n \in Nat /\ Len(after) \in Nat
  BY LenProperties
<1>2. /\ opening \in Seq(Byte) /\ Len(opening) = b + n
      /\ \A i \in 1..(b + n) : opening[i] = IF i <= b THEN before[i] ELSE bytes[i - b]
  BY ConcatProperties
<1> HIDE DEF opening, b, n
<1>3. /\ Len(all) = Len(opening) + Len(after)
      /\ \A i \in 1..(Len(opening) + Len(after)) :
            all[i] = IF i <= Len(opening) THEN opening[i] ELSE after[i - Len(opening)]
  BY <1>2, ConcatProperties
<1> HIDE DEF all
<1>4. ASSUME NEW i \in 1..n
      PROVE  all[b + i] = bytes[i]
  <2>1. /\ b + i \in 1..(b + n) /\ b + i \in 1..(Len(opening) + Len(after))
        /\ b + i <= Len(opening) /\ ~(b + i <= b) /\ (b + i) - b = i
    BY <1>1, <1>2
  <2> QED
    BY <1>2, <1>3, <2>1
<1>5. PICK start \in 0..(n - Len(pattern)) : \A i \in DOMAIN pattern : bytes[start + i] \in pattern[i]
  BY DEF Matches, n
<1>6. b + start \in 0..(Len(all) - Len(pattern))
  <2> DEFINE rest == Len(after)
             room == Len(pattern)
  <2>1. b \in Nat /\ n \in Nat /\ rest \in Nat /\ room \in Nat /\ start \in 0..(n - room)
    BY <1>1, <1>5
  <2>2. Len(all) = (b + n) + rest
    BY <1>2, <1>3
  <2> HIDE DEF rest, room
  <2>3. b + start \in 0..(((b + n) + rest) - room)
    BY <2>1
  <2> QED
    BY <2>2, <2>3 DEF room
<1>7. ASSUME NEW i \in DOMAIN pattern
      PROVE  all[(b + start) + i] \in pattern[i]
  <2>1. start + i \in 1..n /\ (b + start) + i = b + (start + i)
    BY <1>1, <1>5
  <2> QED
    BY <1>4, <1>5, <2>1
<1>8. Matches(all, pattern)
  BY <1>6, <1>7 DEF Matches
<1> QED
  BY <1>8 DEF all, opening

\* scan.rs:72-81: the verdict names the first rule of the table that matches.
THEOREM FirstRuleDecides ==
  ASSUME NEW bytes, NEW r \in DOMAIN RULES, Matches(bytes, RULES[r].pattern),
         \A q \in DOMAIN RULES : q < r => ~Matches(bytes, RULES[q].pattern)
  PROVE  Scan(bytes) = Block(RULES[r].id)
<1> DEFINE hits == {q \in DOMAIN RULES : Matches(bytes, RULES[q].pattern)}
<1>1. r \in hits /\ hits \subseteq Nat
  BY RulesAssumption, LenProperties
<1>2. \A q \in hits : r <= q
  BY <1>1
<1>3. (CHOOSE p \in hits : \A q \in hits : p <= q) = r
  <2> HIDE DEF hits
  <2>1. \A p \in hits : (\A q \in hits : p <= q) => p = r
    BY <1>1, <1>2
  <2> QED
    BY <1>1, <1>2, <2>1
<1> QED
  BY <1>1, <1>3 DEF Scan

\* scan.rs:13-81: what surrounds a secret never hides it.  A file that contains the bytes of a
\* blocked file is blocked, wherever they start and at whatever chunk they were cut.
THEOREM SurroundingsHideNothing ==
  ASSUME NEW before \in Seq(Byte), NEW bytes \in Seq(Byte), NEW after \in Seq(Byte),
         Scan(bytes) # Allow
  PROVE  Scan(before \o bytes \o after).decision = "block"
<1> DEFINE all == before \o bytes \o after
           hits == {r \in DOMAIN RULES : Matches(all, RULES[r].pattern)}
<1>1. PICK r \in DOMAIN RULES : Matches(bytes, RULES[r].pattern)
  BY DEF Scan
<1>2. r \in hits
  BY <1>1, PatternOfRule, MatchesInside
<1> HIDE DEF all
<1>3. Scan(all) = Block(RULES[CHOOSE p \in hits : \A q \in hits : p <= q].id)
  BY <1>2 DEF Scan
<1> HIDE DEF hits
<1> QED
  BY <1>3 DEF Block, all
=============================================================================
