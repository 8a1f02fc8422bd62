------------------------------ MODULE EndToEnd ------------------------------
(***************************************************************************)
(* The content script of a page (UploadGuard) with the background worker   *)
(* (ScanService), the stores of the policy and the native host: what       *)
(* becomes of an upload from the gesture to the page.                      *)
(*                                                                         *)
(* One operation, any one, is followed through the worker: tracked.  To it *)
(* the others are what they are to UploadGuard, whose worker may answer    *)
(* anything; the worker keeps nothing between messages, so that they meet  *)
(* in the content script and in the stores only.  Which one is tracked and *)
(* how large its file is are chosen at the start.  The native host is as   *)
(* NativeScan shows it: it resolves, and a verdict is the truth.           *)
(***************************************************************************)
EXTENDS GuardPolicy, Sequences, FiniteSets

CONSTANTS
  Input, File, NoFile, None, Unmapped, MaxOps,      \* of UploadGuard
  FileSize, Candidate, Foreign, Unread, MaxChanges, \* of ScanService
  SizeOf,     \* the size of each file
  Secret      \* the files a rule matches

ASSUME EndToEndAssumption ==
  /\ SizeOf \in [File -> FileSize] /\ Secret \subseteq File
  /\ NoFile \notin File /\ MaxOps \in Nat /\ None \notin Input \cup Nat
  /\ Unmapped \notin Nat /\ None # Unmapped
  /\ Undefined \in Candidate /\ Unread \notin Candidate /\ Foreign \notin Origin
  /\ FileSize \subseteq Nat /\ MaxChanges \in Nat

VARIABLES
  installed, ops, current, activeOps, overlay, guard, status, held, connected, picking, healthDone,
  missed,
  local, managed, changes, request, stage, readLocal, readManaged, policy, answer, bytes, inForce,
  moved,
  tracked,    \* the operation whose messages the worker of this model handles
  regime,     \* the policies in force while it was undecided (history)
  torn        \* a load for it was undone by two stores that changed, or a read that failed (history)

Guard == INSTANCE UploadGuard
Service == INSTANCE ScanService

ASSUME NoAnswerAssumption ==
  None \notin Guard!ScanFileResult \cup Service!ScanFileResult \cup Service!GuardHealthResult

contentScript ==
  <<installed, ops, current, activeOps, overlay, guard, status, held, connected, picking, healthDone,
    missed>>
worker ==
  <<local, managed, changes, request, stage, readLocal, readManaged, policy, answer, bytes, inForce,
    moved>>
vars == <<contentScript, worker, tracked, regime, torn>>
-----------------------------------------------------------------------------
IsStarted == tracked \in 1..Len(ops)
IsUndecided == IsStarted /\ ops[tracked].decision = None
Requesting(place) == IsStarted /\ ops[tracked].request = place

Init ==
  /\ Guard!Init /\ Service!Init
  /\ \A i \in Input : connected[i]
  /\ request.kind = "upload" /\ request.origin \in Origin
  /\ tracked \in 1..MaxOps /\ regime = {} /\ torn = FALSE

\* What the worker's answer is to the content script.
Received(result) ==
  CASE result.decision = "allow" /\ result.by \in {"scanner", "unprotected"} -> Guard!Allow(result.by)
    [] result.decision = "allow" /\ result.by \in Service!FailureReason      -> Guard!Allow("policy")
    [] result.decision = "block" /\ result.by = "scanner"                    -> Guard!Block("rule")
    [] result.decision = "block" /\ result.by = "too_large"                  -> Guard!Block("too_large")
    [] result.decision = "block" /\ result.by \in Service!FailureReason \ {"too_large"} ->
         Guard!FailClosed
-----------------------------------------------------------------------------
(* The content script *)

\* All it does but wait for the worker, where a file or an operation is concerned (the health
\* report, the dismissal of an overlay and an unmapped drop are left to UploadGuard, and so are
\* inputs outside the document, where a file gets to the page without an operation).  The file
\* of the tracked operation has the size foreseen.
ContentScriptActs ==
  /\ \/ \E i \in Input, file \in File :
          Guard!Pick(i, file) \/ Guard!PickChangeOnly(i, file) \/ Guard!Drop(i, file)
     \/ Guard!FollowingChange \/ Guard!Uninstall
     \/ \E i \in Input : Guard!PageEmpties(i)
     \/ \E op \in Guard!AllOps \ {tracked} : Guard!RequestStep(op)
     \/ IsStarted /\ (Guard!BytesRead(tracked) \/ Guard!Deadline(tracked))
  /\ IsStarted' => SizeOf[ops'[tracked].file] = request.size
  /\ UNCHANGED worker

\* The worker's answer to the preflight asks for the file.
FileIsAskedFor ==
  /\ stage = "reading" /\ IsStarted /\ Guard!PreflightScan(tracked)
  /\ UNCHANGED worker

FileUnreadable == IsStarted /\ Guard!ReadFails(tracked) /\ Service!FileUnreadable

\* A result arrives, of the preflight or of the scan.
ResultArrives ==
  /\ stage = "answered" /\ (Requesting("preflight") \/ Requesting("scanning"))
  /\ Guard!Settle(tracked, "done", Received(answer))
  /\ UNCHANGED worker

\* A message is rejected: the worker has been terminated, or the extension reloaded.
MessageFails ==
  /\ Requesting("preflight") \/ Requesting("scanning")
  /\ Guard!Settle(tracked, "done", Guard!FailClosed)
  /\ UNCHANGED worker
-----------------------------------------------------------------------------
(* The worker, its stores and the native host *)

PreflightArrives == IsStarted /\ Service!PreflightArrives /\ UNCHANGED contentScript
BytesArrive == Requesting("scanning") /\ Service!BytesArrive /\ UNCHANGED contentScript

NativeResolves ==
  /\ Service!NativeResolves
  /\ answer'.by = "scanner"
       => answer'.decision = IF ops[tracked].file \in Secret THEN "block" ELSE "allow"
  /\ UNCHANGED contentScript

\* (The stores may hold anything when the operation is started, and no change of them makes a
\* difference once it is decided.)
WorkerActs ==
  /\ \/ Service!PreflightDecides \/ Service!ScanDecides
     \/ Service!ReadStore("local") \/ Service!ReadStore("managed")
     \/ IsUndecided /\ (Service!Change("local") \/ Service!Change("managed"))
  /\ UNCHANGED contentScript
-----------------------------------------------------------------------------
Next ==
  /\ UNCHANGED tracked
  /\ \/ ContentScriptActs \/ FileIsAskedFor \/ FileUnreadable \/ ResultArrives \/ MessageFails
     \/ PreflightArrives \/ BytesArrive \/ NativeResolves \/ WorkerActs
  /\ regime' = regime \cup (IF IsUndecided' THEN {InForce(local', managed')} ELSE {})
  /\ torn' = (torn \/ Cardinality(moved') = 2)

Spec == Init /\ [][Next]_vars
-----------------------------------------------------------------------------
\* The policy lets the file through although the scanner does not.
Releases(p) ==
  IF ~originIsProtected(request.origin, p) THEN TRUE
  ELSE IF request.size > p.maxFileBytes THEN p.onTooLarge = "allow"
  ELSE p.onUnavailable = "allow"

\* README.md:3-5, scanService.ts:36-69, uploadGuard.ts:58-85,141-175: the page finds a file with a
\* secret in an input only if a policy that was in force since the user chose it lets such a
\* file through unscanned, however replaced operations, deadlines, lost messages, changes of
\* the policy and the page's own steps interleave.  (Inputs stay in the document here.)
SecretStaysOut ==
  IsStarted =>
    LET op == ops[tracked] IN
      op.file \in Secret /\ current[op.input] = tracked /\ held[op.input] = op.file /\ ~torn
        => \E p \in regime : Releases(p)

\* bridge/protocol.ts:32-46, uploadGuard.ts:65-68,79: UploadGuard supposes of a worker that it
\* answers what it is typed to answer; this one does, and never a preflight with a verdict.
\* So all that UploadGuard shows holds with this worker.
WorkerIsAsSupposed ==
  stage = "answered" =>
    /\ Requesting("preflight") => Received(answer) \in Guard!PreflightResult
    /\ Requesting("scanning") => Received(answer) \in Guard!ScanFileResult
=============================================================================
