---------------------------- MODULE UploadGuard ----------------------------
(***************************************************************************)
(* The content script of one protected page: intercept/uploadGuard.ts with *)
(* resumeUpload.ts and the single overlay of mountUploadOverlay.tsx.       *)
(*                                                                         *)
(* Every callback runs to completion, so each is one action: the event     *)
(* handlers, the continuations of a scan request (answers of the           *)
(* background worker, the file read), the two deadlines, teardown.  The    *)
(* worker is arbitrary: it may answer anything it is typed to answer, at   *)
(* any time, or never.  The page may empty, detach and reattach inputs     *)
(* between any two callbacks, also between the input and the change event  *)
(* of a gesture, where its mutation observers run.  The listeners are the  *)
(* window's: they get the events of an input in the document, and none of  *)
(* an input outside it, where the user's choice goes to the page unseen.   *)
(*                                                                         *)
(* An operation is known by its position in ops, in the order of starting. *)
(* The decision kept in an operation is history, and so is missed.         *)
(***************************************************************************)
EXTENDS Naturals, Sequences, FiniteSets

CONSTANTS
  Input,    \* the file inputs of the page
  File,     \* the files the user may choose
  NoFile,   \* an empty input
  None,     \* no operation, no overlay, no decision
  Unmapped, \* the overlay of a drop that maps to no input
  MaxOps    \* bound on the operations started

ASSUME GuardAssumption ==
  /\ NoFile \notin File /\ MaxOps \in Nat /\ None \notin Input
  /\ None \notin Nat /\ Unmapped \notin Nat /\ None # Unmapped

VARIABLES
  installed,    \* the guard is installed
  ops,          \* the operations: [input, file, suppress, request, decision]
  current,      \* WeakMap operations: the operation an input belongs to
  activeOps,    \* Set activeOperations
  overlay,      \* the mounted overlay: of an operation, of an unmapped drop, or None
  guard,        \* data-secureintent-guard on the page's root element
  status,       \* data-secureintent-status on it
  held,         \* the file in each input: what a page script can read
  connected,    \* whether each input is in the document
  picking,      \* the input whose trusted change event follows its input event, or None
  healthDone,   \* the health request has settled
  missed        \* the inputs at which an event was fired outside the document since the latest
                \* choice captured there

page == <<overlay, guard, status, held>>
vars == <<installed, ops, current, activeOps, overlay, guard, status, held, connected,
          picking, healthDone, missed>>
-----------------------------------------------------------------------------
Op == 1..MaxOps
AllOps == 1..Len(ops)

Allow(source) == [decision |-> "allow", cause |-> source]
Block(cause) == [decision |-> "block", cause |-> cause]

\* ScanFileResult, with the failure reasons that are not told apart merged into "failure".
PreflightResult == {Allow("unprotected"), Allow("policy"), Block("too_large"), Block("failure")}
ScanFileResult == PreflightResult \cup {Allow("scanner"), Block("rule")}
FailClosed == Block("failure")

ASSUME DecisionAssumption == None \notin ScanFileResult

Operation ==
  [input: Input, file: File, suppress: BOOLEAN,
   request: {"preflight", "reading", "scanning", "done"},
   decision: ScanFileResult \cup {None}]

Init ==
  /\ installed = TRUE /\ ops = <<>>
  /\ current = [i \in Input |-> None] /\ activeOps = {}
  /\ overlay = None /\ guard = "checking" /\ status = "none"
  /\ held = [i \in Input |-> NoFile] /\ connected \in [Input -> BOOLEAN]
  /\ picking = None /\ healthDone = FALSE /\ missed = {}

\* remove() of an overlay that is no longer mounted does nothing.
Unmounted(mounted, owner) == IF mounted = owner /\ owner # None THEN None ELSE mounted
-----------------------------------------------------------------------------
(* The event handlers *)

\* A mistake for the mutation runs: the previous operation stays in the set.
StartKeepingPrevious(file, i, suppressFollowingChange, mounted) ==
  /\ Len(ops) < MaxOps
  /\ ops' = Append(ops, [input |-> i, file |-> file, suppress |-> suppressFollowingChange,
                         request |-> "preflight", decision |-> None])
  /\ overlay' = Unmounted(mounted, current[i])
  /\ activeOps' = activeOps \cup {Len(ops) + 1}
  /\ current' = [current EXCEPT ![i] = Len(ops) + 1]
  /\ status' = "scanning"
  /\ missed' = missed \ {i}

\* start: the new operation takes the input over from the previous one.
Start(file, i, suppressFollowingChange, mounted) ==
  /\ Len(ops) < MaxOps
  /\ ops' = Append(ops, [input |-> i, file |-> file, suppress |-> suppressFollowingChange,
                         request |-> "preflight", decision |-> None])
  /\ overlay' = Unmounted(mounted, current[i])
  /\ activeOps' = (activeOps \ {current[i]}) \cup {Len(ops) + 1}
  /\ current' = [current EXCEPT ![i] = Len(ops) + 1]
  /\ status' = "scanning"
  /\ missed' = missed \ {i}

\* interceptInput: the user picked a file, and the trusted input event is captured.
Pick(i, file) ==
  /\ installed /\ picking = None /\ connected[i]
  /\ held' = [held EXCEPT ![i] = NoFile]
  /\ Start(file, i, TRUE, overlay)
  /\ picking' = i
  /\ UNCHANGED <<installed, guard, connected, healthDone>>

\* The user picked a file at an input outside the document, in an engine that fires both events
\* or only change: no handler runs, and the file is in the input.
PickUnseen(i, file) ==
  /\ installed /\ picking = None /\ ~connected[i]
  /\ held' = [held EXCEPT ![i] = file]
  /\ picking' \in {i, None}
  /\ missed' = missed \cup {i}
  /\ UNCHANGED <<installed, ops, current, activeOps, overlay, guard, status, connected, healthDone>>

\* A mistake for the mutation runs: the flag is not consumed, and swallows a later change.
InterceptChangeKeepingFlag(i, inside) ==
  IF current[i] # None /\ ops[current[i]].suppress
  THEN /\ held' = [held EXCEPT ![i] = inside]
       /\ UNCHANGED <<ops, current, activeOps, overlay, status, missed>>
  ELSE IF inside # NoFile
  THEN held' = [held EXCEPT ![i] = NoFile] /\ Start(inside, i, FALSE, overlay)
  ELSE UNCHANGED <<ops, current, activeOps, overlay, status, held, missed>>

\* interceptChange, with the file inside the input when the event is fired: suppressed after
\* an input event, else the fallback for engines that fire only change; an empty input's
\* event is the page's.
InterceptChange(i, inside) ==
  IF current[i] # None /\ ops[current[i]].suppress
  THEN /\ ops' = [ops EXCEPT ![current[i]].suppress = FALSE]
       /\ held' = [held EXCEPT ![i] = inside]
       /\ UNCHANGED <<current, activeOps, overlay, status, missed>>
  ELSE IF inside # NoFile
  THEN held' = [held EXCEPT ![i] = NoFile] /\ Start(inside, i, FALSE, overlay)
  ELSE UNCHANGED <<ops, current, activeOps, overlay, status, held, missed>>

\* The change event that follows an input event, and that is lost where the input has left the
\* document.
FollowingChange ==
  /\ picking # None
  /\ picking' = None
  /\ IF installed /\ connected[picking] THEN InterceptChange(picking, held[picking])
     ELSE /\ missed' = IF installed THEN missed \cup {picking} ELSE missed
          /\ UNCHANGED <<ops, current, activeOps, overlay, status, held>>
  /\ UNCHANGED <<installed, guard, connected, healthDone>>

\* A pick in an engine that fires only change.
PickChangeOnly(i, file) ==
  /\ installed /\ picking = None /\ connected[i]
  /\ InterceptChange(i, file)
  /\ UNCHANGED <<installed, guard, connected, picking, healthDone>>

\* onDrop, mapped to one input.
Drop(i, file) ==
  /\ installed /\ picking = None /\ connected[i]
  /\ held' = [held EXCEPT ![i] = NoFile]
  /\ Start(file, i, FALSE, Unmounted(overlay, Unmapped))
  /\ UNCHANGED <<installed, guard, connected, picking, healthDone>>

\* onDrop without a file or without an unambiguous input.
DropUnmapped ==
  /\ installed /\ picking = None
  /\ overlay' = Unmapped /\ guard' = "degraded" /\ status' = "blocked"
  /\ UNCHANGED <<installed, ops, current, activeOps, held, connected, picking, healthDone, missed>>

\* The user dismisses the overlay.
Dismiss ==
  /\ overlay # None /\ overlay' = None
  /\ UNCHANGED <<installed, ops, current, activeOps, guard, status, held, connected, picking,
                 healthDone, missed>>
-----------------------------------------------------------------------------
(* The result of a scan *)

\* The result is block: the operation stays active, with its overlay.
ShowBlock(op, result) ==
  /\ guard' = IF result = Block("failure") THEN "degraded" ELSE "active"
  /\ status' = "blocked"
  /\ overlay' = op
  /\ UNCHANGED <<activeOps, held>>

\* The result is allow: the file goes back into its input, if that is still in the document
\* and the browser lets the content script write it (resumeIntoInput).
Resume(op, result) ==
  LET i == ops[op].input IN
    /\ activeOps' = activeOps \ {op}
    /\ guard' = IF result = Allow("policy") THEN "degraded" ELSE guard
    /\ \/ /\ connected[i]
          /\ held' = [held EXCEPT ![i] = ops[op].file]
          /\ status' = "allowed"
       \/ /\ status' = "canceled"
          /\ UNCHANGED held
    /\ UNCHANGED overlay

\* A mistake for the mutation runs: a result is applied whichever operation the input has.
IsObsoleteIfRemoved(op) == ~installed

\* The result of an operation that was replaced, or that outlived the guard, is dropped.
IsObsolete(op) == ~installed \/ current[ops[op].input] # op

Apply(op, result) ==
  \/ IsObsolete(op) /\ UNCHANGED <<activeOps, page>>
  \/ ~IsObsolete(op) /\ result.decision = "block" /\ ShowBlock(op, result)
  \/ ~IsObsolete(op) /\ result.decision = "allow" /\ Resume(op, result)

\* The request of op goes on to next; the first of its result and the deadline is applied.
Settle(op, next, result) ==
  /\ ops' = [ops EXCEPT ![op].request = next,
                        ![op].decision = IF @ = None THEN result ELSE @]
  /\ IF ops[op].decision = None THEN Apply(op, result) ELSE UNCHANGED <<activeOps, page>>
  /\ UNCHANGED <<installed, current, connected, picking, healthDone, missed>>

\* The worker answers the preflight with a final result.  (An invalid or missing answer is
\* one that fails closed, and so does a rejected request.)
PreflightFinal(op) ==
  /\ ops[op].request = "preflight"
  /\ \E result \in PreflightResult : Settle(op, "done", result)

\* The preflight asks for the file, which is read.
PreflightScan(op) ==
  /\ ops[op].request = "preflight"
  /\ ops' = [ops EXCEPT ![op].request = "reading"]
  /\ UNCHANGED <<installed, current, activeOps, page, connected, picking, healthDone, missed>>

\* The bytes have been read and are sent to the worker; the content script keeps its own.
BytesRead(op) ==
  /\ ops[op].request = "reading"
  /\ ops' = [ops EXCEPT ![op].request = "scanning"]
  /\ UNCHANGED <<installed, current, activeOps, page, connected, picking, healthDone, missed>>

\* A mistake for the mutation runs: the failure is swallowed.
ReadFailsSilently(op) ==
  /\ ops[op].request = "reading"
  /\ ops' = [ops EXCEPT ![op].request = "done"]
  /\ UNCHANGED <<installed, current, activeOps, page, connected, picking, healthDone, missed>>

\* The file cannot be read any more.
ReadFails(op) == ops[op].request = "reading" /\ Settle(op, "done", FailClosed)

\* The worker answers, or the message fails; the bytes are overwritten.
WorkerAnswers(op) ==
  /\ ops[op].request = "scanning"
  /\ \E result \in ScanFileResult : Settle(op, "done", result)

\* A mistake for the mutation runs: a replaced operation is given up without a decision.
DeadlineIfCurrent(op) ==
  /\ ops[op].decision = None /\ ~IsObsolete(op)
  /\ Settle(op, ops[op].request, FailClosed)

\* CONTENT_SCAN_TIMEOUT_MS: fail closed.  The request itself is not canceled.
Deadline(op) ==
  /\ ops[op].decision = None
  /\ Settle(op, ops[op].request, FailClosed)

\* The content script holds a copy of the file's bytes.
HoldsBytes(op) == ops[op].request = "scanning"
-----------------------------------------------------------------------------
(* Health, teardown and the page *)

\* The answer of the health request, or its deadline or failure, whichever comes first.
HealthSettles ==
  /\ ~healthDone /\ healthDone' = TRUE
  /\ guard' \in IF installed THEN {"active", "degraded", "absent"} ELSE {guard}
  /\ UNCHANGED <<installed, ops, current, activeOps, overlay, status, held, connected, picking,
                 missed>>

\* A mistake for the mutation runs: the overlay of an unmapped drop is forgotten.
UninstallForgettingDrop ==
  /\ installed /\ installed' = FALSE
  /\ overlay' = IF overlay \in activeOps THEN None ELSE overlay
  /\ activeOps' = {}
  /\ guard' = "absent" /\ status' = "none"
  /\ UNCHANGED <<ops, current, held, connected, picking, healthDone, missed>>

\* The function installUploadGuard returns.
Uninstall ==
  /\ installed /\ installed' = FALSE
  /\ overlay' = IF overlay \in activeOps \cup {Unmapped} THEN None ELSE overlay
  /\ activeOps' = {}
  /\ guard' = "absent" /\ status' = "none"
  /\ UNCHANGED <<ops, current, held, connected, picking, healthDone, missed>>

\* The page takes the file out of an input, or detaches or reattaches the input.
PageEmpties(i) ==
  /\ held[i] # NoFile
  /\ held' = [held EXCEPT ![i] = NoFile]
  /\ UNCHANGED <<installed, ops, current, activeOps, overlay, guard, status, connected, picking,
                 healthDone, missed>>

PageMoves(i) ==
  /\ connected' = [connected EXCEPT ![i] = ~@]
  /\ UNCHANGED <<installed, ops, current, activeOps, page, picking, healthDone, missed>>
-----------------------------------------------------------------------------
UserStep ==
  \/ \E i \in Input, file \in File :
       Pick(i, file) \/ PickUnseen(i, file) \/ PickChangeOnly(i, file) \/ Drop(i, file)
  \/ FollowingChange
  \/ DropUnmapped
  \/ Dismiss

RequestStep(op) ==
  \/ PreflightFinal(op) \/ PreflightScan(op)
  \/ BytesRead(op) \/ ReadFails(op)
  \/ WorkerAnswers(op)
  \/ Deadline(op)

PageStep == \E i \in Input : PageEmpties(i) \/ PageMoves(i)

Next ==
  \/ UserStep
  \/ \E op \in AllOps : RequestStep(op)
  \/ HealthSettles
  \/ Uninstall
  \/ PageStep

Spec == Init /\ [][Next]_vars

\* Timers fire and files are read; the user, the page and the worker need not do anything.
FairSpec ==
  /\ Spec
  /\ \A op \in Op : /\ WF_vars(op \in AllOps /\ Deadline(op))
                    /\ WF_vars(op \in AllOps /\ (BytesRead(op) \/ ReadFails(op)))
-----------------------------------------------------------------------------
\* The state has its types; an input belongs to an operation of its own, and a request that has
\* ended has decided its operation.
TypeOK ==
  /\ installed \in BOOLEAN /\ healthDone \in BOOLEAN
  /\ ops \in Seq(Operation) /\ Len(ops) <= MaxOps
  /\ current \in [Input -> Op \cup {None}]
  /\ activeOps \subseteq AllOps
  /\ overlay \in AllOps \cup {Unmapped, None}
  /\ guard \in {"checking", "active", "degraded", "absent"}
  /\ status \in {"none", "scanning", "allowed", "blocked", "canceled"}
  /\ held \in [Input -> File \cup {NoFile}] /\ connected \in [Input -> BOOLEAN]
  /\ picking \in Input \cup {None} /\ missed \subseteq Input
  /\ \A i \in Input : current[i] # None => current[i] \in AllOps /\ ops[current[i]].input = i
  /\ \A op \in AllOps : ops[op].request = "done" => ops[op].decision # None

\* uploadGuard.ts:118-119,141-150,155,165,247-248: the two registries of operations agree.  The set
\* holds exactly the operations that own their input and are undecided or show a block; no
\* replaced or released one is retained in it, and after teardown none.
RegistriesAgree ==
  activeOps = {op \in AllOps : /\ installed
                               /\ current[ops[op].input] = op
                               /\ ops[op].decision \in {None} \cup {Block(c) : c \in
                                    {"too_large", "failure", "rule"}}}

\* uploadGuard.ts:142-143,155-162,226-236,245-251, mountUploadOverlay.tsx:5-39: an operation's overlay is about a
\* choice that was blocked and still is the latest one of its input; when the guard is gone,
\* it has left no overlay and neither of its attributes, and a late result, health report or
\* gesture brings none of them back.
OverlayIsCurrent ==
  /\ overlay \in AllOps => /\ current[ops[overlay].input] = overlay
                           /\ ops[overlay].decision # None
                           /\ ops[overlay].decision.decision = "block"
  /\ ~installed => overlay = None /\ guard = "absent" /\ status = "none"

\* The input belongs to an operation that waits for a change event to suppress.
IsSuppressing(i) == current[i] # None /\ ops[current[i]].suppress

\* uploadGuard.ts:146,187,194-200: a change event is suppressed only as the second half of the
\* gesture whose input event was captured, and that half ends the suppression; the one way to
\* leave the flag behind, for a later gesture that fires only change, is to take the input out
\* of the document before its change event.  A choice captured later at the input ends that too.
SuppressionIsConsumed ==
  installed => \A i \in Input : IsSuppressing(i) => picking = i \/ i \in missed

\* The choice made at an input, as UploadGate sees it.
GateChoice(i) ==
  IF ~installed \/ current[i] = None THEN [file |-> NoFile, state |-> "none"]
  ELSE LET op == ops[current[i]] IN
    [file |-> op.file,
     state |-> IF op.decision = None THEN "pending"
               ELSE IF op.decision.decision = "block" THEN "blocked" ELSE "allowed"]

\* The inputs where the change event to suppress has been lost.
Strays == {i \in Input : installed /\ picking # i /\ IsSuppressing(i)}

Gate == INSTANCE UploadGate
  WITH open <- installed, choice <- [i \in Input |-> GateChoice(i)], visible <- held,
       present <- connected, strays <- Strays

\* uploadGuard.ts:141-257: the content script keeps the promise of UploadGate, whatever order
\* the answers, deadlines, gestures, moves of inputs and teardown come in: at an input in the
\* document a file is in the page's reach only because it is the latest choice captured there
\* and was allowed; an answer to a replaced operation, a second answer, or one after teardown
\* changes nothing.  A choice escapes it only at an input outside the document, and one more
\* for each change event that was lost there.
GateKept == Gate!Spec

\* uploadGuard.ts:42-56,153: every operation is decided, replaced or not, even if the worker
\* never answers ("always resolves fail-closed").
EveryOperationDecides ==
  \A op \in Op : op \in AllOps ~> op \in AllOps /\ ops[op].decision # None

\* ARCHITECTURE.md: "The content script and worker overwrite their owned Uint8Array views
\* after each decision"; uploadGuard.ts:15-16: the outer deadline "prevents a wedged worker
\* from retaining page bytes forever".  (The deadline decides without ending the request,
\* whose finally block is what overwrites the bytes.)
BytesOverwrittenAfterDecision ==
  \A op \in Op : op \in AllOps /\ ops[op].decision # None ~> op \in AllOps /\ ~HoldsBytes(op)
=============================================================================
