---------------------------- MODULE ScanSession ----------------------------
(***************************************************************************)
(* One client connection of the detached scanner: the request loop of      *)
(* daemon/src/protocol.rs (run_scanner_protocol) around the per-connection *)
(* reassembly state of daemon/src/session.rs (ScanSession).                *)
(*                                                                         *)
(* The client is arbitrary: any frame may arrive next, in any order.  The  *)
(* first request the daemon cannot serve ends the loop and with it the     *)
(* connection.  log and the position "at" of an answer are history: they   *)
(* record what was read so that the properties can say which bytes a       *)
(* verdict is about; no guard reads them except the bound MaxFrames.       *)
(***************************************************************************)
EXTENDS Naturals, Sequences, SecretScan

CONSTANTS
  Identifier,        \* the scan identifiers a client may send
  ValidIdentifier,   \* those of them validate_identifier accepts
  MAX_FILE_BYTES,    \* session.rs: the largest declaration the daemon accepts
  DeclaredSize,      \* the sizes a client may declare
  Offset,            \* the offsets a client may give its chunks
  ChunkData,         \* the decoded data a chunk may carry
  BadBase64,         \* chunk data that does not decode
  Protocol,          \* the protocol versions a client may speak
  PROTOCOL_VERSION,  \* the one the daemon speaks
  MaxFrames,         \* bound on the frames of one connection
  None               \* no scan is active

ASSUME SessionAssumption ==
  /\ ValidIdentifier \subseteq Identifier
  /\ MAX_FILE_BYTES \in Nat /\ MaxFrames \in Nat
  /\ DeclaredSize \subseteq Nat /\ Offset \subseteq Nat
  /\ ChunkData \subseteq Seq(Byte) /\ BadBase64 \notin Seq(Byte)
  /\ PROTOCOL_VERSION \in Protocol
  /\ None \notin [id: Identifier, declared_size: Nat, bytes: Seq(Byte)]

VARIABLES
  conn,     \* "open", "closed" (clean end of stream) or "failed" (loop left by an error)
  active,   \* ScanSession.active: None or the scan being reassembled
  written,  \* the responses written, in order, each with the position of its request
  log       \* the requests read so far (history)

vars == <<conn, active, written, log>>
-----------------------------------------------------------------------------
HealthRequest == [type: {"health"}, id: Identifier, protocol: Protocol]
BeginRequest == [type: {"scan_begin"}, id: Identifier, size: DeclaredSize, protocol: Protocol]
ChunkRequest ==
  [type: {"scan_chunk"}, id: Identifier, offset: Offset, data: ChunkData \cup {BadBase64}]
EndRequest == [type: {"scan_end"}, id: Identifier]
Request == HealthRequest \cup BeginRequest \cup ChunkRequest \cup EndRequest

HealthStatus(protocol) == IF protocol = PROTOCOL_VERSION THEN "ready" ELSE "incompatible"

HealthResponse ==
  [type: {"health"}, at: Nat, id: ValidIdentifier,
   protocol: {PROTOCOL_VERSION}, status: {"ready", "incompatible"}]
VerdictResponse == [type: {"verdict"}, at: Nat, id: ValidIdentifier, verdict: Verdict]

ActiveScan == [id: Identifier, declared_size: Nat, bytes: Seq(Byte)]

Init == conn = "open" /\ active = None /\ written = <<>> /\ log = <<>>

\* The early returns of session.rs: a request is accepted only when none of them is taken.
CanBegin(request) ==
  /\ request.id \in ValidIdentifier
  /\ request.protocol = PROTOCOL_VERSION
  /\ active = None
  /\ request.size <= MAX_FILE_BYTES

\* (CanAppendAnywhere, CanFinishEarly and CanServeUnchecked leave a check out: the mistakes the
\* mutation runs plant.)
CanAppendAnywhere(request) ==
  /\ request.id \in ValidIdentifier
  /\ active # None
  /\ active.id = request.id
  /\ request.data # BadBase64
  /\ Len(active.bytes) + Len(request.data) <= active.declared_size

CanAppend(request) ==
  /\ request.id \in ValidIdentifier
  /\ active # None
  /\ active.id = request.id
  /\ request.offset = Len(active.bytes)
  /\ request.data # BadBase64
  /\ Len(active.bytes) + Len(request.data) <= active.declared_size

CanFinishEarly(request) ==
  /\ request.id \in ValidIdentifier
  /\ active # None
  /\ active.id = request.id

CanFinish(request) ==
  /\ request.id \in ValidIdentifier
  /\ active # None
  /\ active.id = request.id
  /\ Len(active.bytes) = active.declared_size

CanServeUnchecked(request) ==
  CASE request.type = "health"     -> TRUE
    [] request.type = "scan_begin" -> CanBegin(request)
    [] request.type = "scan_chunk" -> CanAppend(request)
    [] request.type = "scan_end"   -> CanFinish(request)

CanServe(request) ==
  CASE request.type = "health"     -> request.id \in ValidIdentifier
    [] request.type = "scan_begin" -> CanBegin(request)
    [] request.type = "scan_chunk" -> CanAppend(request)
    [] request.type = "scan_end"   -> CanFinish(request)

\* read_frame returned a complete frame whose JSON is a request.
Read(request) ==
  /\ conn = "open"
  /\ Len(log) < MaxFrames
  /\ log' = Append(log, request)

Respond(response) == written' = Append(written, response)

\* Any error leaves the loop, which drops the session and closes the stream.
Fail == conn' = "failed" /\ active' = None

Health(request) ==
  /\ Read(request)
  /\ CanServe(request)
  /\ Respond([type |-> "health", at |-> Len(log) + 1, id |-> request.id,
              protocol |-> PROTOCOL_VERSION, status |-> HealthStatus(request.protocol)])
  /\ UNCHANGED <<conn, active>>

Begin(request) ==
  /\ Read(request)
  /\ CanServe(request)
  /\ active' = [id |-> request.id, declared_size |-> request.size, bytes |-> <<>>]
  /\ UNCHANGED <<conn, written>>

Chunk(request) ==
  /\ Read(request)
  /\ CanServe(request)
  /\ active' = [active EXCEPT !.bytes = @ \o request.data]
  /\ UNCHANGED <<conn, written>>

\* finish takes the active scan out of the session before it looks at it.
End(request) ==
  /\ Read(request)
  /\ CanServe(request)
  /\ Respond([type |-> "verdict", at |-> Len(log) + 1, id |-> request.id,
              verdict |-> Scan(active.bytes)])
  /\ active' = None
  /\ UNCHANGED conn

\* A mistake for the mutation runs: a bad request is skipped and the loop goes on.
Skip(request) == Read(request) /\ ~CanServe(request) /\ UNCHANGED <<conn, active, written>>

\* A request whose handler returns an error.
Reject(request) == Read(request) /\ ~CanServe(request) /\ Fail /\ UNCHANGED written

\* The answer cannot be written: the peer is gone, or the write timed out.
WriteFails(request) == Read(request) /\ CanServe(request) /\ Fail /\ UNCHANGED written

\* A frame of length zero or above the limit, one cut short, one that is not the JSON
\* of a request, or none within the read timeout.
ReadFails == conn = "open" /\ Fail /\ UNCHANGED <<written, log>>

\* End of stream in front of a frame: the loop ends without an error.
EndOfStream == conn = "open" /\ conn' = "closed" /\ active' = None /\ UNCHANGED <<written, log>>

\* One turn of the loop with a request in hand.
Handle(request) ==
  \/ request.type = "health" /\ Health(request)
  \/ request.type = "scan_begin" /\ Begin(request)
  \/ request.type = "scan_chunk" /\ Chunk(request)
  \/ request.type = "scan_end" /\ End(request)
  \/ Reject(request)
  \/ request.type \in {"health", "scan_end"} /\ WriteFails(request)

Next == (\E request \in Request : Handle(request)) \/ ReadFails \/ EndOfStream

Spec == Init /\ [][Next]_vars
-----------------------------------------------------------------------------
\* The state has its types.
TypeOK ==
  /\ conn \in {"open", "closed", "failed"}
  /\ active \in ActiveScan \cup {None}
  /\ written \in Seq(HealthResponse \cup VerdictResponse)
  /\ log \in Seq(Request)

\* A request that may come between the declaration and the end of an upload of content under
\* id: a health probe, or a chunk of that identifier whose data is what content has there.
Fits(request, id, content) ==
  /\ request.type \in {"health", "scan_chunk"}
  /\ request.type = "scan_chunk" =>
       /\ request.id = id
       /\ request.data # BadBase64
       /\ \A j \in 1..Len(request.data) :
             /\ request.offset + j \in 1..Len(content)
             /\ content[request.offset + j] = request.data[j]

\* The request is a chunk that carries the byte at position x.
Covers(request, x) ==
  /\ request.type = "scan_chunk"
  /\ request.offset < x /\ x <= request.offset + Len(request.data)

\* The requests at first .. last-1 are one upload of content under id: they start with its
\* declaration, all the others fit, and together they cover every byte.
Delivers(requests, first, last, id, content) ==
  /\ requests[first].type = "scan_begin" /\ requests[first].id = id
  /\ \A k \in (first + 1)..(last - 1) : Fits(requests[k], id, content)
  /\ \A x \in 1..Len(content) : \E k \in (first + 1)..(last - 1) : Covers(requests[k], x)

\* The answer is the verdict of a content that was uploaded, in full and under its
\* identifier, by the requests up to the scan_end it answers.
IsAboutItsFile(requests, answer) ==
  /\ answer.at \in 1..Len(requests)
  /\ requests[answer.at].type = "scan_end"
  /\ requests[answer.at].id = answer.id
  /\ \E first \in 1..(answer.at - 1) :
       /\ requests[first].type = "scan_begin"
       /\ \E content \in [1..requests[first].size -> Byte] :
            /\ Delivers(requests, first, answer.at, answer.id, content)
            /\ answer.verdict = Scan(content)

\* protocol.rs:159-175, session.rs:91-103: a verdict answers the scan_end of an upload that
\* delivered, contiguously and under one identifier, a content of exactly the declared size,
\* and it is the verdict of that content: never of a prefix, of bytes left from an earlier
\* scan of the connection, or of a mixture of two scans.
VerdictIsAboutTheDeclaredFile ==
  \A k \in 1..Len(written) : written[k].type = "verdict" => IsAboutItsFile(log, written[k])

\* The positions of the requests the broker waits for, and of those answered.
Awaited(requests) == {k \in 1..Len(requests) : requests[k].type \in {"health", "scan_end"}}
Answered(answers) == {answers[n].at : n \in 1..Len(answers)}

\* The answer is of the kind and for the identifier its request asks for.
Corresponds(answer, request) ==
  /\ answer.type = IF request.type = "health" THEN "health" ELSE "verdict"
  /\ answer.id = request.id

\* relay.rs:29-38 waits for exactly one frame after a health or a scan_end request and for
\* none after the others; this is what the daemon's loop gives it: the answers go to those
\* requests, in their order, each once, and on a connection that did not fail all of them
\* have theirs.
AnswersFollowRequests ==
  /\ \A n \in 2..Len(written) : written[n - 1].at < written[n].at
  /\ Answered(written) \subseteq Awaited(log)
  /\ IF conn = "failed" THEN Awaited(log) \ Answered(written) \subseteq {Len(log)}
     ELSE Awaited(log) = Answered(written)
  /\ \A n \in 1..Len(written) : Corresponds(written[n], log[written[n].at])

-----------------------------------------------------------------------------
(* The inductive invariant of ScanSessionProofs: what the log says of the scan that is     *)
(* still being reassembled.                                                                *)

\* The bytes never outgrow the capacity allocated for the declared size, and only an open
\* connection holds any.
BufferWithinDeclaration ==
  active # None => /\ conn = "open"
                   /\ Len(active.bytes) <= active.declared_size
                   /\ active.declared_size <= MAX_FILE_BYTES

\* The log ends with the upload so far, and the bytes are what it has delivered.
BufferIsDelivered ==
  active # None =>
    \E first \in 1..Len(log) :
      /\ log[first].type = "scan_begin"
      /\ log[first].size = active.declared_size
      /\ Delivers(log, first, Len(log) + 1, active.id, active.bytes)

\* session.rs:29-34,50-54,84-87 against the requests of protocol.rs:131-175: while a scan is
\* active its buffer is what the requests since its declaration have delivered, of the declared
\* size, which makes the verdict of the buffer the verdict of the file; and the buffer is never
\* reallocated ("exact preallocation avoids reallocating sensitive bytes into abandoned
\* buffers"), nor does it outlive the connection.
BufferIsTheUpload == BufferWithinDeclaration /\ BufferIsDelivered

IInv == TypeOK /\ BufferIsTheUpload /\ VerdictIsAboutTheDeclaredFile
=============================================================================
