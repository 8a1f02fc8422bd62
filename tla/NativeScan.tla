----------------------------- MODULE NativeScan -----------------------------
(***************************************************************************)
(* One call of the native path, end to end: the extension's port           *)
(* (bridge/nativeClient.ts), the short-lived broker Chrome starts for it   *)
(* (daemon/src/relay.rs) and the connection the daemon serves it on        *)
(* (ScanSession, here the instance Daemon), joined by the broker's stdin,  *)
(* the local socket and the broker's stdout, which are FIFO.               *)
(*                                                                         *)
(* Any of the three may fail at any point, and the client's timer may fire *)
(* at any point after the requests were posted.  The daemon's response     *)
(* frames stay in written: taken counts those the broker has read.         *)
(***************************************************************************)
EXTENDS Naturals, Sequences, SequencesExt

CONSTANTS
  Byte, RULES, RuleId, NoRule,                  \* see SecretScan
  MAX_FILE_BYTES, BadBase64, None, Pending,     \* see ScanSession, NativePromise
  Protocol, PROTOCOL_VERSION,
  File,               \* the files a scan may be asked for
  ScanId,             \* the identifier of the call (a fresh random one in the code)
  RAW_CHUNK_BYTES,    \* protocol.ts: bytes per chunk
  SocketFrames        \* frames the socket buffers before the broker's write blocks

ASSUME NativeAssumption ==
  /\ File \subseteq Seq(Byte)
  /\ RAW_CHUNK_BYTES \in Nat \ {0} /\ SocketFrames \in Nat \ {0}
  /\ PROTOCOL_VERSION \in Protocol /\ MAX_FILE_BYTES \in Nat
  /\ RULES \in Seq([id: RuleId, pattern: Seq(SUBSET Byte)]) /\ NoRule \notin RuleId

VARIABLES
  ask,        \* the call: [kind, file, protocol]
  result,     \* what the promise resolved to, or Pending
  port,       \* "posting", then "open" until finish disconnects it ("closed")
  toBroker,   \* frames in the broker's stdin
  broker,     \* "connecting", "reading", "awaiting" (an answer) or "exited"
  toDaemon,   \* frames in the socket, towards the daemon
  taken,      \* how many of the daemon's answers the broker has read
  toClient,   \* frames in the broker's stdout
  conn, active, written, log   \* the daemon's side of the connection (ScanSession)

clientVars == <<ask, result, port>>
brokerVars == <<broker, taken, toClient>>
daemonVars == <<conn, active, written, log>>
vars == <<ask, result, port, toBroker, broker, toDaemon, taken, toClient,
          conn, active, written, log>>
-----------------------------------------------------------------------------
\* The number of chunks of a file: the loop of scanWithNativeHost steps by RAW_CHUNK_BYTES.
ChunkCount(bytes) == (Len(bytes) + RAW_CHUNK_BYTES - 1) \div RAW_CHUNK_BYTES

ChunkFrame(bytes, n) ==
  LET offset == (n - 1) * RAW_CHUNK_BYTES
      end == IF offset + RAW_CHUNK_BYTES < Len(bytes) THEN offset + RAW_CHUNK_BYTES ELSE Len(bytes)
  IN  [type |-> "scan_chunk", id |-> ScanId, offset |-> offset,
       data |-> SubSeq(bytes, offset + 1, end)]

\* A mistake for the mutation runs: only whole chunks are sent.
WholeChunksOnly(request) ==
  IF request.kind = "health"
  THEN << [type |-> "health", id |-> ScanId, protocol |-> request.protocol] >>
  ELSE << [type |-> "scan_begin", id |-> ScanId, size |-> Len(request.file),
           protocol |-> request.protocol] >>
       \o [n \in 1..(Len(request.file) \div RAW_CHUNK_BYTES) |-> ChunkFrame(request.file, n)]
       \o << [type |-> "scan_end", id |-> ScanId] >>

\* What the call posts, in one turn of the event loop.
Frames(request) ==
  IF request.kind = "health"
  THEN << [type |-> "health", id |-> ScanId, protocol |-> request.protocol] >>
  ELSE << [type |-> "scan_begin", id |-> ScanId, size |-> Len(request.file),
           protocol |-> request.protocol] >>
       \o [n \in 1..ChunkCount(request.file) |-> ChunkFrame(request.file, n)]
       \o << [type |-> "scan_end", id |-> ScanId] >>

AllChunks == UNION {{ChunkFrame(bytes, n).data : n \in 1..ChunkCount(bytes)} : bytes \in File}
MaxFrames == 2 + MAX_FILE_BYTES

Daemon == INSTANCE ScanSession
  WITH Identifier <- {ScanId}, ValidIdentifier <- {ScanId},
       DeclaredSize <- {Len(bytes) : bytes \in File}, Offset <- Nat, ChunkData <- AllChunks

FailureReason == {"host_unavailable", "host_disconnected", "timeout"}
Promise == INSTANCE NativePromise

ASSUME MarksAssumption ==
  /\ BadBase64 \notin Seq(Byte) /\ None \notin Daemon!ActiveScan
  /\ Pending \notin Promise!Outcome

\* A mistake for the mutation runs: the relay waits after scan_begin too.
ExpectsAcknowledgement(request) == request.type # "scan_chunk"

\* relay.rs:29-38.
ExpectsResponse(request) == request.type \in {"health", "scan_end"}

Init ==
  /\ ask \in [kind: {"scan"}, file: File, protocol: Protocol]
       \cup [kind: {"health"}, file: {<<>>}, protocol: Protocol]
  /\ result = Pending /\ port = "posting"
  /\ toBroker = <<>> /\ broker = "connecting"
  /\ toDaemon = <<>> /\ taken = 0 /\ toClient = <<>>
  /\ Daemon!Init
-----------------------------------------------------------------------------
(* The client *)

\* finish: the first caller settles the promise and disconnects the port; Chrome then drops
\* whatever the broker's stdin has not taken yet.
Finish(outcome, pipe) ==
  /\ result = Pending
  /\ result' = outcome
  /\ port' = "closed"
  /\ \E kept \in 0..Len(pipe) : toBroker' = SubSeq(pipe, 1, kept)
  /\ UNCHANGED ask

\* Every frame is posted before any listener can run.
Post ==
  /\ port = "posting"
  /\ port' = "open"
  /\ toBroker' = toBroker \o Frames(ask)
  /\ UNCHANGED <<ask, result, toDaemon, brokerVars, daemonVars>>

\* An exception while connecting or after some of the frames were posted.
PostThrows ==
  /\ port = "posting"
  /\ Finish(Promise!Unavailable("host_unavailable"), Frames(ask))
  /\ UNCHANGED <<toDaemon, brokerVars, daemonVars>>

TimerFires ==
  /\ port = "open"
  /\ Finish(Promise!Unavailable("timeout"), toBroker)
  /\ UNCHANGED <<toDaemon, brokerVars, daemonVars>>

\* isNativeVerdict and isNativeHealth: the answer has the asked kind and identifier.
IsExpected(message) ==
  /\ message.type = IF ask.kind = "health" THEN "health" ELSE "verdict"
  /\ message.id = ScanId

\* The outcome the listener derives from a message.
OutcomeOf(message) ==
  CASE ~IsExpected(message) -> Promise!Unavailable("invalid_response")
    [] IsExpected(message) /\ ask.kind = "scan" -> Promise!Verdicted(message.verdict)
    [] IsExpected(message) /\ ask.kind = "health" ->
         IF message.status = "ready" /\ message.protocol = ask.protocol
         THEN Promise!Available ELSE Promise!Unavailable("protocol_mismatch")

OnMessage ==
  /\ port = "open"
  /\ toClient # <<>>
  /\ toClient' = Tail(toClient)
  /\ Finish(OutcomeOf(Head(toClient)), toBroker)
  /\ UNCHANGED <<toDaemon, broker, taken, daemonVars>>

\* A mistake for the mutation runs: a lost host is taken for a clean file.
OnDisconnectAllows ==
  /\ port = "open"
  /\ broker = "exited" /\ toClient = <<>>
  /\ Finish(Promise!Verdicted(Daemon!Allow), toBroker)
  /\ UNCHANGED <<toDaemon, brokerVars, daemonVars>>

\* The broker is gone and everything it wrote has been delivered.
OnDisconnect ==
  /\ port = "open"
  /\ broker = "exited" /\ toClient = <<>>
  /\ Finish(Promise!Unavailable("host_disconnected"), toBroker)
  /\ UNCHANGED <<toDaemon, brokerVars, daemonVars>>
-----------------------------------------------------------------------------
(* The broker *)

\* lib.rs run_stdio: the socket is connected before the first request is read.
BrokerConnects ==
  /\ broker = "connecting"
  /\ broker' = "reading"
  /\ UNCHANGED <<clientVars, toBroker, toDaemon, taken, toClient, daemonVars>>

\* The socket is missing or unsafe, a frame is invalid, a write fails, or Chrome kills the
\* process: every error return of run_stdio and relay::run ends it.
BrokerDies ==
  /\ broker # "exited"
  /\ broker' = "exited"
  /\ UNCHANGED <<clientVars, toBroker, toDaemon, taken, toClient, daemonVars>>

\* Two mistakes for the mutation runs: the frame is sent again after a retry, and the
\* socket's backpressure is ignored.
ForwardsTwice ==
  /\ broker = "reading"
  /\ toBroker # <<>>
  /\ conn = "open" /\ Len(toDaemon) < SocketFrames
  /\ toBroker' \in {toBroker, Tail(toBroker)}
  /\ toDaemon' = Append(toDaemon, Head(toBroker))
  /\ broker' = IF ExpectsResponse(Head(toBroker)) THEN "awaiting" ELSE "reading"
  /\ UNCHANGED <<clientVars, taken, toClient, daemonVars>>

ForwardsWithoutBlocking ==
  /\ broker = "reading"
  /\ toBroker # <<>>
  /\ conn = "open"
  /\ toBroker' = Tail(toBroker)
  /\ toDaemon' = Append(toDaemon, Head(toBroker))
  /\ broker' = IF ExpectsResponse(Head(toBroker)) THEN "awaiting" ELSE "reading"
  /\ UNCHANGED <<clientVars, taken, toClient, daemonVars>>

\* One turn of the relay loop: read a frame, forward it, wait if it has an answer.
BrokerForwards ==
  /\ broker = "reading"
  /\ toBroker # <<>>
  /\ conn = "open" /\ Len(toDaemon) < SocketFrames
  /\ toBroker' = Tail(toBroker)
  /\ toDaemon' = Append(toDaemon, Head(toBroker))
  /\ broker' = IF ExpectsResponse(Head(toBroker)) THEN "awaiting" ELSE "reading"
  /\ UNCHANGED <<clientVars, taken, toClient, daemonVars>>

\* The daemon has closed the socket: the write fails, or the read finds the end of it.
BrokerLosesDaemon ==
  /\ \/ broker = "reading" /\ toBroker # <<>>
     \/ broker = "awaiting"
  /\ conn # "open"
  /\ broker' = "exited"
  /\ UNCHANGED <<clientVars, toBroker, toDaemon, taken, toClient, daemonVars>>

\* The answer is read from the socket and written to stdout.
BrokerAnswers ==
  /\ broker = "awaiting"
  /\ taken < Len(written)
  /\ port = "open"
  /\ taken' = taken + 1
  /\ toClient' = Append(toClient, written[taken + 1])
  /\ broker' = "reading"
  /\ UNCHANGED <<clientVars, toBroker, toDaemon, daemonVars>>

\* Chrome has closed stdout: the answer cannot be written.
BrokerCannotAnswer ==
  /\ broker = "awaiting"
  /\ taken < Len(written)
  /\ port = "closed"
  /\ taken' = taken + 1
  /\ broker' = "exited"
  /\ UNCHANGED <<clientVars, toBroker, toDaemon, toClient, daemonVars>>

\* A mistake for the mutation runs: the end of stdin is polled again.
PollsInput ==
  broker = "reading" /\ port = "closed" /\ toBroker = <<>> /\ UNCHANGED vars

\* End of stdin in front of a frame.
BrokerEndOfInput ==
  /\ broker = "reading"
  /\ port = "closed" /\ toBroker = <<>>
  /\ broker' = "exited"
  /\ UNCHANGED <<clientVars, toBroker, toDaemon, taken, toClient, daemonVars>>
-----------------------------------------------------------------------------
(* The daemon's connection *)

DaemonServes ==
  /\ toDaemon # <<>>
  /\ toDaemon' = Tail(toDaemon)
  /\ Daemon!Handle(Head(toDaemon))
  /\ UNCHANGED <<clientVars, toBroker, brokerVars>>

\* The client's limit of connections is reached, the read times out, or the daemon dies.
DaemonDrops ==
  /\ broker # "connecting"
  /\ Daemon!ReadFails
  /\ toDaemon' = <<>>
  /\ UNCHANGED <<clientVars, toBroker, brokerVars>>

DaemonSeesEnd ==
  /\ broker = "exited" /\ toDaemon = <<>>
  /\ Daemon!EndOfStream
  /\ UNCHANGED <<clientVars, toBroker, toDaemon, brokerVars>>
-----------------------------------------------------------------------------
ClientStep == Post \/ PostThrows \/ TimerFires \/ OnMessage \/ OnDisconnect
BrokerStep == BrokerConnects \/ BrokerForwards \/ BrokerLosesDaemon \/ BrokerAnswers
              \/ BrokerCannotAnswer \/ BrokerEndOfInput
DaemonStep == DaemonServes \/ DaemonSeesEnd

Next == ClientStep \/ BrokerStep \/ BrokerDies \/ DaemonStep \/ DaemonDrops

\* Nothing is assumed of the broker or of the daemon: the client's own code and its timer run.
Spec == Init /\ [][Next]_vars /\ WF_vars(ClientStep)

\* The two processes, as long as they live, run too; only CleanedUp assumes it.
ProcessesRun == WF_vars(BrokerStep) /\ WF_vars(DaemonStep)
-----------------------------------------------------------------------------
\* The state has its types; the socket holds no more frames than it has room for.
TypeOK ==
  /\ ask \in [kind: {"scan", "health"}, file: File \cup {<<>>}, protocol: Protocol]
  /\ \/ result = Pending /\ port \in {"posting", "open"}
     \/ result # Pending /\ port = "closed"
  /\ broker \in {"connecting", "reading", "awaiting", "exited"}
  /\ toBroker \in Seq(Daemon!Request)
  /\ toDaemon \in Seq(Daemon!Request) /\ Len(toDaemon) <= SocketFrames
  /\ taken \in 0..Len(written)
  /\ toClient \in Seq(Daemon!HealthResponse \cup Daemon!VerdictResponse)
  /\ Daemon!TypeOK

\* nativeClient.ts:66-84, relay.rs:49-57, protocol.rs:128-177: what the daemon has read is a
\* prefix of what the call meant to send, each frame once and in order, and while the port
\* and the connection last nothing between the two ends is lost.
PipelineIsTheUpload ==
  /\ IsPrefix(log \o toDaemon, Frames(ask))
  /\ port = "open" /\ conn = "open" => log \o toDaemon \o toBroker = Frames(ask)

\* relay.rs:29-38,50-56 against protocol.rs:131-176: the broker and the daemon agree on which
\* requests have an answer.  While the broker waits, exactly one answer is on its way (its
\* request still in the socket, or the response unread) unless the connection is gone; while
\* it does not wait, none is: it neither blocks for an answer that never comes nor leaves one
\* in the socket to be taken for the answer of a later request.
LockStep ==
  LET unread == Len(written) - taken
      asking == {k \in 1..Len(toDaemon) : toDaemon[k].type \in {"health", "scan_end"}}
  IN  /\ broker \in {"connecting", "reading"} => unread = 0 /\ asking = {}
      /\ broker = "awaiting" /\ conn = "open"
           => \/ unread = 1 /\ asking = {}
              \/ unread = 0 /\ \E k \in 1..Len(toDaemon) : asking = {k}

\* The daemon serves the call: it speaks its protocol and, a scan, its file is within the limit.
IsServable(request) ==
  request.kind = "scan"
    => request.protocol = PROTOCOL_VERSION /\ Len(request.file) <= MAX_FILE_BYTES

\* nativeClient.ts:66-84 against session.rs:41-103: the offsets, lengths and number of the
\* chunks the client's loop cuts are what the daemon's checks ask for.  No frame of a call the
\* daemon serves is ever rejected, whatever the file's length, and of the others the first one
\* is, so that nothing of an oversized file or in another protocol is buffered; and the frames
\* of a call never meet MaxFrames, which bounds nothing here.
EveryFrameIsTaken ==
  conn = "open" /\ toDaemon # <<>> =>
    Len(log) < MaxFrames /\ (Daemon!CanServe(Head(toDaemon)) <=> IsServable(ask))

\* nativeClient.ts:29-139 with everything behind it: the call keeps the promise of
\* NativePromise.  Its promise settles once, always (the timer), with the verdict of exactly
\* the file asked about, with a truthful health report, or with no answer, whatever fails,
\* and the answer of a genuine daemon is never rejected as invalid.
PromiseKept == Promise!Spec

\* relay.rs:49-58, protocol.rs:128, session.rs:91-103: once the call is settled, the broker
\* process ends and the daemon's connection, with the bytes it buffers, is released, as long as
\* both are run.
CleanedUp ==
  ProcessesRun => (result # Pending ~> broker = "exited" /\ conn # "open" /\ active = None)
=============================================================================
