-------------------------- MODULE UploadGuardProofs --------------------------
(***************************************************************************)
(* Proofs about UploadGuard for every set of inputs and files and every    *)
(* number of operations: its invariants, and that it implements            *)
(* UploadGate.                                                             *)
(***************************************************************************)
EXTENDS UploadGuard, SequenceTheorems, TLAPS

IInv == TypeOK /\ RegistriesAgree /\ OverlayIsCurrent /\ SuppressionIsConsumed
-----------------------------------------------------------------------------
(* The sequence of operations *)

\* A new operation leaves those before it as they were.
LEMMA OpsGrow ==
  ASSUME TypeOK, NEW file \in File, NEW i \in Input, NEW suppress \in BOOLEAN, NEW mounted,
         Start(file, i, suppress, mounted)
  PROVE  LET n == Len(ops) IN
         /\ n \in Nat /\ n < MaxOps /\ Len(ops') = n + 1 /\ ops' \in Seq(Operation)
         /\ \A op \in 1..n : ops'[op] = ops[op]
         /\ ops'[n + 1] = [input |-> i, file |-> file, suppress |-> suppress,
                           request |-> "preflight", decision |-> None]
<1> DEFINE new == [input |-> i, file |-> file, suppress |-> suppress,
                   request |-> "preflight", decision |-> None]
<1>1. new \in Operation
  BY DEF Operation
<1>2. ops \in Seq(Operation) /\ ops' = Append(ops, new) /\ Len(ops) < MaxOps
  BY DEF TypeOK, Start
<1> HIDE DEF new
<1>3. /\ Len(ops) \in Nat /\ Len(ops') = Len(ops) + 1 /\ ops' \in Seq(Operation)
      /\ \A op \in 1..Len(ops) : ops'[op] = ops[op]
      /\ ops'[Len(ops) + 1] = new
  BY <1>1, <1>2, AppendProperties, LenProperties
<1> QED
  BY <1>2, <1>3 DEF new

\* An operation is a record, and a change of one leaves the others as they were.
LEMMA OpsChange ==
  ASSUME TypeOK, NEW op \in AllOps
  PROVE  /\ ops[op] \in Operation
         /\ \A new \in Operation :
              ops' = [ops EXCEPT ![op] = new] =>
                /\ ops' \in Seq(Operation) /\ Len(ops') = Len(ops) /\ ops'[op] = new
                /\ \A other \in AllOps \ {op} : ops'[other] = ops[other]
  BY ElementOfSeq, ExceptSeq DEF TypeOK, AllOps

\* An operation is changed without becoming another one.
Keeps(op, new) ==
  /\ new \in Operation
  /\ new.input = ops[op].input /\ new.file = ops[op].file
  /\ new.request = "done" => new.decision # None
  /\ ops' = [ops EXCEPT ![op] = new]
-----------------------------------------------------------------------------
(* What a step does, in the terms of the invariant *)

\* A gesture starts an operation.
Begins(i, file, suppress) ==
  /\ installed /\ picking \in {None, i} /\ picking' = IF suppress THEN i ELSE None
  /\ held' = [held EXCEPT ![i] = NoFile]
  /\ Start(file, i, suppress, overlay) \/ Start(file, i, suppress, Unmounted(overlay, Unmapped))
  /\ UNCHANGED <<installed, guard, connected, healthDone>>

\* The flag of the operation at an input is cleared.
Unsuppresses(i) ==
  /\ current[i] # None
  /\ Keeps(current[i], [ops[current[i]] EXCEPT !.suppress = FALSE])

\* The change event that follows a gesture is suppressed, or it finds nothing to do.
Follows(i) ==
  /\ picking = i /\ picking' = None
  /\ \/ Unsuppresses(i)
     \/ UNCHANGED ops /\ (installed => ~IsSuppressing(i))
  /\ UNCHANGED <<installed, current, activeOps, page, connected, healthDone, missed>>

\* An event is lost, with the user's choice or without.
Misses(i) ==
  /\ installed /\ ~connected[i] /\ picking \in {None, i} /\ picking' \in {None, i}
  /\ held' \in {held} \cup {[held EXCEPT ![i] = file] : file \in File}
  /\ missed' = missed \cup {i}
  /\ UNCHANGED <<installed, ops, current, activeOps, overlay, guard, status, connected, healthDone>>

\* A gesture is taken for the second half of an earlier one.
Mistakes(i, file) ==
  /\ installed /\ picking = None /\ i \in missed /\ IsSuppressing(i) /\ Unsuppresses(i)
  /\ held' = [held EXCEPT ![i] = file]
  /\ UNCHANGED <<installed, current, activeOps, overlay, guard, status, connected, picking,
                 healthDone, missed>>

\* A request goes on, with or without a result for an operation that has no decision.
Advances(op, new) ==
  /\ Keeps(op, new) /\ new.suppress = ops[op].suppress /\ new.decision = ops[op].decision
  /\ UNCHANGED <<installed, current, activeOps, page, connected, picking, healthDone, missed>>

Decides(op, new) ==
  /\ Keeps(op, new) /\ new.suppress = ops[op].suppress
  /\ ops[op].decision = None /\ new.decision \in ScanFileResult
  /\ Apply(op, new.decision)
  /\ UNCHANGED <<installed, current, connected, picking, healthDone, missed>>

Gesture ==
  \/ \E i \in Input, file \in File, suppress \in BOOLEAN : Begins(i, file, suppress)
  \/ \E i \in Input : Follows(i) \/ Misses(i)
  \/ \E i \in Input, file \in File : Mistakes(i, file)
  \/ DropUnmapped \/ Dismiss

Effect ==
  \/ Gesture
  \/ \E op \in AllOps, new \in Operation : Advances(op, new) \/ Decides(op, new)
  \/ HealthSettles \/ Uninstall \/ PageStep

\* The steps of a request.
LEMMA RequestEffect ==
  ASSUME TypeOK, NEW op \in AllOps, RequestStep(op)
  PROVE  \E new \in Operation : Advances(op, new) \/ Decides(op, new)
<1>1. ops[op] \in Operation /\ (ops[op].request = "done" => ops[op].decision # None)
  BY OpsChange DEF TypeOK
<1>2. ASSUME NEW next \in {"reading", "scanning"}, ops' = [ops EXCEPT ![op].request = next],
             UNCHANGED <<installed, current, activeOps, page, connected, picking, healthDone, missed>>
      PROVE  \E new \in Operation : Advances(op, new)
  <2> DEFINE new == [ops[op] EXCEPT !.request = next]
  <2>1. /\ new \in Operation /\ new.input = ops[op].input /\ new.file = ops[op].file
        /\ new.request = next /\ new.suppress = ops[op].suppress
        /\ new.decision = ops[op].decision
    BY <1>1 DEF Operation
  <2>2. ops' = [ops EXCEPT ![op] = new]
    BY <1>2
  <2> HIDE DEF new
  <2> QED
    BY <1>2, <2>1, <2>2 DEF Advances, Keeps
<1>3. ASSUME NEW result \in ScanFileResult, NEW next \in {"done", ops[op].request},
             Settle(op, next, result),
             next = "done" \/ ops[op].decision = None
      PROVE  \E new \in Operation : Advances(op, new) \/ Decides(op, new)
  <2> DEFINE decision == IF ops[op].decision = None THEN result ELSE ops[op].decision
             new == [ops[op] EXCEPT !.request = next, !.decision = decision]
  <2>1. /\ next \in {"preflight", "reading", "scanning", "done"}
        /\ decision \in ScanFileResult /\ decision # None
    BY <1>1, DecisionAssumption DEF Operation
  <2>2. /\ new \in Operation /\ new.input = ops[op].input /\ new.file = ops[op].file
        /\ new.suppress = ops[op].suppress /\ new.decision = decision
    BY <1>1, <2>1 DEF Operation
  <2>3. ops' = [ops EXCEPT ![op] = new]
    BY <1>1, <1>3 DEF Settle, Operation
  <2>4. UNCHANGED <<installed, current, connected, picking, healthDone, missed>>
    BY <1>3 DEF Settle
  <2> HIDE DEF new
  <2>5. CASE ops[op].decision = None
    <3>1. Apply(op, result)
      BY <1>3, <2>5 DEF Settle
    <3> QED
      BY <2>1, <2>2, <2>3, <2>4, <2>5, <3>1 DEF Decides, Keeps
  <2>6. CASE ops[op].decision # None
    <3>1. UNCHANGED <<activeOps, page>>
      BY <1>3, <2>6 DEF Settle
    <3> QED
      BY <2>1, <2>2, <2>3, <2>4, <2>6, <3>1 DEF Advances, Keeps
  <2> QED
    BY <2>5, <2>6
<1>4. FailClosed \in ScanFileResult /\ PreflightResult \subseteq ScanFileResult
  BY DEF FailClosed, ScanFileResult, PreflightResult
<1> QED
  BY <1>2, <1>3, <1>4
  DEF RequestStep, PreflightFinal, PreflightScan, BytesRead, ReadFails, WorkerAnswers, Deadline

\* Clearing the flag leaves the operation what it is.
LEMMA UnsuppressFacts ==
  ASSUME TypeOK, NEW i \in Input, IsSuppressing(i)
  PROVE  LET op == current[i]
             new == [ops[op] EXCEPT !.suppress = FALSE] IN
         /\ op \in AllOps /\ new \in Operation
         /\ new.input = ops[op].input /\ new.file = ops[op].file /\ new.request = ops[op].request
         /\ new.decision = ops[op].decision /\ new.suppress = FALSE
         /\ ops' = [ops EXCEPT ![op].suppress = FALSE] => Unsuppresses(i)
<1> DEFINE op == current[i]
           new == [ops[op] EXCEPT !.suppress = FALSE]
<1>1. op \in AllOps /\ op # None /\ ops[op] \in Operation
  BY OpsChange DEF TypeOK, IsSuppressing
<1>2. /\ new \in Operation /\ new.input = ops[op].input /\ new.file = ops[op].file
      /\ new.request = ops[op].request /\ new.decision = ops[op].decision
      /\ new.suppress = FALSE
  BY <1>1 DEF Operation
<1>3. ops[op].request = "done" => ops[op].decision # None
  BY <1>1 DEF TypeOK
<1>4. ops' = [ops EXCEPT ![op].suppress = FALSE] => ops' = [ops EXCEPT ![op] = new]
  OBVIOUS
<1>5. ops' = [ops EXCEPT ![op].suppress = FALSE] => Keeps(op, new)
  <2> HIDE DEF new
  <2> QED
    BY <1>2, <1>3, <1>4 DEF Keeps
<1> QED
  BY <1>1, <1>2, <1>5 DEF Unsuppresses

\* The steps of the user's gestures.
LEMMA UserEffect ==
  ASSUME TypeOK, SuppressionIsConsumed, UserStep
  PROVE  Gesture
<1>1. ASSUME NEW i \in Input, NEW file \in File, Pick(i, file) PROVE Gesture
  BY <1>1 DEF Pick, Begins, Gesture
<1>2. ASSUME NEW i \in Input, NEW file \in File, Drop(i, file) PROVE Gesture
  BY <1>2 DEF Drop, Begins, Gesture
<1>3. ASSUME NEW i \in Input, NEW file \in File, PickUnseen(i, file) PROVE Gesture
  BY <1>3 DEF PickUnseen, Misses, Gesture
<1>4. ASSUME NEW i \in Input, NEW file \in File, PickChangeOnly(i, file) PROVE Gesture
  <2>1. /\ installed /\ picking = None /\ InterceptChange(i, file)
        /\ UNCHANGED <<installed, guard, connected, picking, healthDone>>
    BY <1>4 DEF PickChangeOnly
  <2>2. CASE IsSuppressing(i)
    <3>1. i \in missed
      BY <2>1, <2>2, GuardAssumption DEF SuppressionIsConsumed
    <3>2. /\ ops' = [ops EXCEPT ![current[i]].suppress = FALSE]
          /\ held' = [held EXCEPT ![i] = file]
          /\ UNCHANGED <<current, activeOps, overlay, status, missed>>
      BY <2>1, <2>2 DEF InterceptChange, IsSuppressing
    <3>3. Unsuppresses(i)
      BY <2>2, <3>2, UnsuppressFacts
    <3>4. Mistakes(i, file)
      BY <2>1, <2>2, <3>1, <3>2, <3>3 DEF Mistakes
    <3> QED
      BY <3>4 DEF Gesture
  <2>3. CASE ~IsSuppressing(i)
    <3>1. Begins(i, file, FALSE)
      BY <2>1, <2>3, GuardAssumption DEF InterceptChange, Begins, IsSuppressing
    <3> QED
      BY <3>1 DEF Gesture
  <2> QED
    BY <2>2, <2>3
<1>5. CASE FollowingChange
  <2> DEFINE i == picking
  <2>1. /\ i \in Input /\ picking' = None
        /\ UNCHANGED <<installed, guard, connected, healthDone>>
        /\ held \in [Input -> File \cup {NoFile}]
    BY <1>5 DEF FollowingChange, TypeOK
  <2>2. CASE ~installed
    BY <1>5, <2>1, <2>2 DEF FollowingChange, Follows, Gesture, page
  <2>3. CASE installed /\ ~connected[i]
    <3>1. UNCHANGED <<ops, current, activeOps, overlay, status, held>> /\ missed' = missed \cup {i}
      BY <1>5, <2>3 DEF FollowingChange
    <3>2. Misses(i)
      BY <2>1, <2>3, <3>1 DEF Misses
    <3> QED
      BY <2>1, <3>2 DEF Gesture
  <2>4. CASE installed /\ connected[i] /\ IsSuppressing(i)
    <3>1. /\ ops' = [ops EXCEPT ![current[i]].suppress = FALSE]
          /\ held' = [held EXCEPT ![i] = held[i]]
          /\ UNCHANGED <<current, activeOps, overlay, status, missed>>
      BY <1>5, <2>4 DEF FollowingChange, InterceptChange, IsSuppressing
    <3>2. held' = held
      BY <2>1, <3>1
    <3>3. Unsuppresses(i)
      BY <2>1, <2>4, <3>1, UnsuppressFacts
    <3>4. Follows(i)
      BY <2>1, <3>1, <3>2, <3>3 DEF Follows, page
    <3> QED
      BY <2>1, <3>4 DEF Gesture
  <2>5. CASE installed /\ connected[i] /\ ~IsSuppressing(i) /\ held[i] # NoFile
    <3>1. /\ held[i] \in File /\ held' = [held EXCEPT ![i] = NoFile]
          /\ Start(held[i], i, FALSE, overlay)
      BY <1>5, <2>1, <2>5 DEF FollowingChange, InterceptChange, IsSuppressing
    <3>2. Begins(i, held[i], FALSE)
      BY <2>1, <2>5, <3>1 DEF Begins
    <3> QED
      BY <2>1, <3>1, <3>2 DEF Gesture
  <2>6. CASE installed /\ connected[i] /\ ~IsSuppressing(i) /\ held[i] = NoFile
    <3>1. UNCHANGED <<ops, current, activeOps, overlay, status, held, missed>>
      BY <1>5, <2>6 DEF FollowingChange, InterceptChange, IsSuppressing
    <3> QED
      BY <2>1, <2>6, <3>1 DEF Follows, Gesture, page
  <2> QED
    BY <2>2, <2>3, <2>4, <2>5, <2>6
<1> QED
  BY <1>1, <1>2, <1>3, <1>4, <1>5 DEF UserStep, Gesture

\* Every step has one of the effects.
LEMMA StepEffect ==
  ASSUME TypeOK, SuppressionIsConsumed, Next
  PROVE  Effect
  BY RequestEffect, UserEffect DEF Next, Effect, Gesture
-----------------------------------------------------------------------------
(* The invariants *)

\* What an operation that is started does to the registries and to the overlay.
LEMMA StartFacts ==
  ASSUME IInv, NEW i \in Input, NEW file \in File, NEW suppress \in BOOLEAN,
         Begins(i, file, suppress)
  PROVE  /\ overlay' \in (AllOps \ {current[i]}) \cup {Unmapped, None}
         /\ overlay' \in AllOps => overlay' = overlay
         /\ activeOps' = (activeOps \ {current[i]}) \cup {Len(ops) + 1}
         /\ current' = [current EXCEPT ![i] = Len(ops) + 1]
         /\ status' = "scanning"
<1>1. PICK mounted \in {overlay, Unmounted(overlay, Unmapped)} : Start(file, i, suppress, mounted)
  BY DEF Begins
<1>2. overlay \in AllOps \cup {Unmapped, None} /\ AllOps \subseteq Nat
  BY DEF IInv, TypeOK, AllOps
<1>3. mounted \in AllOps \cup {Unmapped, None} /\ (mounted \in AllOps => mounted = overlay)
  BY <1>2, GuardAssumption DEF Unmounted
<1>4. overlay' = Unmounted(mounted, current[i])
  BY <1>1 DEF Start
<1>5. /\ overlay' \in (AllOps \ {current[i]}) \cup {Unmapped, None}
      /\ overlay' \in AllOps => overlay' = mounted
  BY <1>2, <1>3, <1>4, GuardAssumption DEF Unmounted, IInv, TypeOK
<1> QED
  BY <1>1, <1>2, <1>3, <1>5, GuardAssumption DEF Start

\* Changing an operation without making it another one keeps what TypeOK says of operations.
LEMMA KeepsTypes ==
  ASSUME TypeOK, NEW op \in AllOps, NEW new, Keeps(op, new)
  PROVE  /\ ops' \in Seq(Operation) /\ Len(ops') = Len(ops) /\ AllOps' = AllOps
         /\ ops'[op] = new /\ \A other \in AllOps \ {op} : ops'[other] = ops[other]
         /\ \A other \in AllOps : ops'[other].input = ops[other].input
         /\ \A other \in AllOps : ops'[other].request = "done" => ops'[other].decision # None
  BY OpsChange DEF Keeps, TypeOK, AllOps

\* Every step keeps the types.
LEMMA NextTypeOK ==
  ASSUME IInv, [Next]_vars
  PROVE  TypeOK'
<1> USE DEF IInv
<1>1. ASSUME NEW i \in Input, NEW file \in File, NEW suppress \in BOOLEAN,
             Begins(i, file, suppress)
      PROVE  TypeOK'
  <2> DEFINE n == Len(ops)
  <2>1. PICK mounted : Start(file, i, suppress, mounted)
    BY <1>1 DEF Begins
  <2>2. /\ n \in Nat /\ n < MaxOps /\ Len(ops') = n + 1 /\ ops' \in Seq(Operation)
        /\ \A op \in 1..n : ops'[op] = ops[op]
        /\ ops'[n + 1] = [input |-> i, file |-> file, suppress |-> suppress,
                          request |-> "preflight", decision |-> None]
    BY <2>1, OpsGrow
  <2> HIDE DEF n
  <2>3. /\ AllOps = 1..n /\ AllOps' = 1..(n + 1) /\ Len(ops') <= MaxOps
        /\ 1..n \subseteq 1..(n + 1) /\ n + 1 \in Op
        /\ \A op \in 1..(n + 1) : op \in 1..n \/ op = n + 1
    BY <2>2, GuardAssumption DEF AllOps, Op, n
  <2>4. /\ overlay' \in AllOps' \cup {Unmapped, None} /\ activeOps' \subseteq AllOps'
        /\ current' = [current EXCEPT ![i] = n + 1] /\ status' = "scanning"
    <3>1. /\ overlay' \in (AllOps \ {current[i]}) \cup {Unmapped, None}
          /\ activeOps' = (activeOps \ {current[i]}) \cup {Len(ops) + 1}
          /\ current' = [current EXCEPT ![i] = Len(ops) + 1]
          /\ status' = "scanning"
      BY ONLY IInv, <1>1, StartFacts
    <3>2. n = Len(ops)
      BY DEF n
    <3>3. AllOps \subseteq AllOps' /\ n + 1 \in AllOps'
      BY <2>2, <2>3
    <3>4. activeOps \subseteq AllOps
      BY DEF TypeOK
    <3> HIDE DEF IInv
    <3> QED
      BY <3>1, <3>2, <3>3, <3>4
  <2>5. current' \in [Input -> Op \cup {None}]
    BY <2>3, <2>4 DEF TypeOK
  <2>6. ASSUME NEW j \in Input, current'[j] # None
        PROVE  current'[j] \in AllOps' /\ ops'[current'[j]].input = j
    <3>1. CASE j = i
      BY <2>2, <2>3, <2>4, <3>1 DEF TypeOK
    <3>2. CASE j # i
      <4>1. current'[j] = current[j]
        BY <2>4, <3>2 DEF TypeOK
      <4>2. current[j] \in 1..n /\ ops[current[j]].input = j
        BY <2>3, <2>6, <4>1 DEF TypeOK
      <4> QED
        BY <2>2, <2>3, <4>1, <4>2
    <3> QED
      BY <3>1, <3>2
  <2>7. \A op \in AllOps' : ops'[op].request = "done" => ops'[op].decision # None
    BY <2>2, <2>3 DEF TypeOK
  <2>8. /\ held' \in [Input -> File \cup {NoFile}] /\ picking' \in Input \cup {None}
        /\ missed' \subseteq Input
    BY <1>1, <2>1 DEF Begins, Start, TypeOK
  <2> QED
    BY <1>1, <2>2, <2>3, <2>4, <2>5, <2>6, <2>7, <2>8 DEF Begins, TypeOK
<1>2. ASSUME NEW i \in Input, Follows(i) PROVE TypeOK'
  <2>1. CASE UNCHANGED ops
    BY <1>2, <2>1 DEF Follows, TypeOK, AllOps, page
  <2>2. CASE Unsuppresses(i)
    <3>1. current[i] \in AllOps
      BY <2>2 DEF Unsuppresses, TypeOK
    <3> QED
      BY <1>2, <2>2, <3>1, KeepsTypes DEF Follows, Unsuppresses, TypeOK, page
  <2> QED
    BY <1>2, <2>1, <2>2 DEF Follows
<1>3. ASSUME NEW op \in AllOps, NEW new \in Operation, Advances(op, new) PROVE TypeOK'
  BY <1>3, KeepsTypes DEF Advances, TypeOK, page
<1>4. ASSUME NEW op \in AllOps, NEW new \in Operation, Decides(op, new) PROVE TypeOK'
  <2>1. /\ activeOps' \subseteq AllOps /\ overlay' \in AllOps \cup {Unmapped, None}
        /\ guard' \in {"checking", "active", "degraded", "absent"}
        /\ status' \in {"none", "scanning", "allowed", "blocked", "canceled"}
        /\ held' \in [Input -> File \cup {NoFile}]
    <3>1. ops[op].file \in File
      BY OpsChange DEF Operation
    <3> QED
      BY <1>4, <3>1 DEF Decides, Apply, ShowBlock, Resume, TypeOK, page
  <2> QED
    BY <1>4, <2>1, KeepsTypes DEF Decides, TypeOK
<1>5. CASE DropUnmapped \/ Dismiss \/ HealthSettles \/ Uninstall
  BY <1>5 DEF DropUnmapped, Dismiss, HealthSettles, Uninstall, TypeOK, AllOps
<1>6. CASE PageStep
  BY <1>6 DEF PageStep, PageEmpties, PageMoves, TypeOK, AllOps, page
<1>7. ASSUME NEW i \in Input, Misses(i) PROVE TypeOK'
  BY <1>7 DEF Misses, TypeOK, AllOps
<1>8. ASSUME NEW i \in Input, NEW file \in File, Mistakes(i, file) PROVE TypeOK'
  <2>1. current[i] \in AllOps
    BY <1>8 DEF Mistakes, Unsuppresses, TypeOK
  <2>2. held' \in [Input -> File \cup {NoFile}]
    BY <1>8 DEF Mistakes, TypeOK
  <2> QED
    BY <1>8, <2>1, <2>2, KeepsTypes DEF Mistakes, Unsuppresses, TypeOK
<1>9. CASE UNCHANGED vars
  BY <1>9 DEF vars, TypeOK, AllOps
<1> QED
  BY <1>1, <1>2, <1>3, <1>4, <1>5, <1>6, <1>7, <1>8, <1>9, StepEffect DEF Effect, Gesture

\* Clearing a flag changes one operation, in nothing that is decided or delivered.
LEMMA ClearedOperation ==
  ASSUME TypeOK, NEW i \in Input, Unsuppresses(i)
  PROVE  /\ current[i] \in AllOps /\ ops'[current[i]].suppress = FALSE
         /\ \A other \in AllOps \ {current[i]} : ops'[other] = ops[other]
         /\ \E op \in AllOps, new \in Operation :
              /\ op = current[i] /\ Keeps(op, new)
              /\ new.decision = ops[op].decision /\ new.request = ops[op].request
              /\ new.file = ops[op].file
<1> DEFINE op == current[i]
           new == [ops[op] EXCEPT !.suppress = FALSE]
<1>1. op \in AllOps /\ ops[op] \in Operation
  BY OpsChange DEF Unsuppresses, TypeOK
<1>2. /\ new \in Operation /\ new.decision = ops[op].decision /\ new.file = ops[op].file
      /\ new.request = ops[op].request /\ new.suppress = FALSE
  BY <1>1 DEF Operation
<1>3. Keeps(op, new)
  BY DEF Unsuppresses
<1> HIDE DEF new
<1>4. ops'[op] = new /\ \A other \in AllOps \ {op} : ops'[other] = ops[other]
  BY <1>1, <1>3, KeepsTypes
<1> QED
  BY <1>1, <1>2, <1>3, <1>4

\* A decision is a block exactly if it is one of the blocks RegistriesAgree names.
LEMMA Blocks ==
  ASSUME NEW decision \in ScanFileResult
  PROVE  /\ decision.decision \in {"allow", "block"}
         /\ decision.decision = "block"
              <=> decision \in {Block(c) : c \in {"too_large", "failure", "rule"}}
  BY DEF ScanFileResult, PreflightResult, Allow, Block

\* The operations that own their input and are undecided or blocked.
Shown(op) ==
  /\ installed /\ current[ops[op].input] = op
  /\ ops[op].decision = None \/ ops[op].decision.decision = "block"

\* RegistriesAgree, operation by operation.
ActiveIsShown == \A op \in AllOps : op \in activeOps <=> Shown(op)

\* The two say the same, in the next state too.
LEMMA RegistriesByOperation ==
  TypeOK => (RegistriesAgree <=> ActiveIsShown)
<1> SUFFICES ASSUME TypeOK PROVE RegistriesAgree <=> ActiveIsShown
  OBVIOUS
<1>1. ASSUME NEW op \in AllOps
      PROVE  ops[op].decision \in {None} \cup {Block(c) : c \in {"too_large", "failure", "rule"}}
               <=> ops[op].decision = None \/ ops[op].decision.decision = "block"
  <2>1. ops[op].decision \in ScanFileResult \cup {None}
    BY OpsChange DEF Operation
  <2>2. None \notin {Block(c) : c \in {"too_large", "failure", "rule"}}
    BY DecisionAssumption DEF ScanFileResult, PreflightResult
  <2> QED
    BY <2>1, <2>2, Blocks
<1>2. activeOps \subseteq AllOps
  BY DEF TypeOK
<1> QED
  BY <1>1, <1>2 DEF RegistriesAgree, ActiveIsShown, Shown

\* (The previous lemma, primed.)
LEMMA RegistriesByOperationNext ==
  TypeOK' => (RegistriesAgree' <=> ActiveIsShown')
  BY RegistriesByOperation, PTL

\* Every step keeps the registries in agreement.
LEMMA NextRegistries ==
  ASSUME IInv, [Next]_vars
  PROVE  RegistriesAgree'
<1>1. \A op \in AllOps : op \in activeOps <=> Shown(op)
  BY RegistriesByOperation DEF IInv, ActiveIsShown
<1>2. TypeOK /\ TypeOK'
  BY NextTypeOK DEF IInv
<1>3. SUFFICES \A op \in AllOps' : op \in activeOps' <=> Shown(op)'
  BY <1>2, RegistriesByOperationNext DEF ActiveIsShown
<1>4. ASSUME NEW i \in Input, NEW file \in File, NEW suppress \in BOOLEAN,
             Begins(i, file, suppress), NEW op \in AllOps'
      PROVE  op \in activeOps' <=> Shown(op)'
  <2> DEFINE n == Len(ops)
  <2>1. PICK mounted : Start(file, i, suppress, mounted)
    BY <1>4 DEF Begins
  <2>2. /\ n \in Nat /\ Len(ops') = n + 1 /\ \A k \in 1..n : ops'[k] = ops[k]
        /\ ops'[n + 1].input = i /\ ops'[n + 1].decision = None
    <3>1. /\ n \in Nat /\ Len(ops') = n + 1 /\ \A k \in 1..n : ops'[k] = ops[k]
          /\ ops'[n + 1] = [input |-> i, file |-> file, suppress |-> suppress,
                            request |-> "preflight", decision |-> None]
      BY <1>2, <2>1, OpsGrow
    <3> HIDE DEF n
    <3> QED
      BY <3>1
  <2>3. /\ activeOps' = (activeOps \ {current[i]}) \cup {n + 1}
        /\ current' = [current EXCEPT ![i] = n + 1] /\ installed /\ installed'
    BY <1>4, StartFacts DEF Begins
  <2> HIDE DEF n
  <2>4. /\ AllOps = 1..n /\ AllOps' = 1..(n + 1) /\ n + 1 \notin 1..n
        /\ op \in AllOps \/ op = n + 1
    BY <2>2 DEF AllOps, n
  <2>5. CASE op = n + 1
    BY <1>2, <2>2, <2>3, <2>5 DEF Shown, TypeOK
  <2>6. CASE op \in AllOps
    <3>1. ops'[op] = ops[op] /\ ops[op].input \in Input
      BY <1>2, <2>2, <2>4, <2>6, OpsChange DEF Operation
    <3>2. CASE ops[op].input = i
      BY <1>1, <1>2, <2>3, <2>4, <2>6, <3>1, <3>2 DEF Shown, TypeOK
    <3>3. CASE ops[op].input # i
      <4>1. current'[ops[op].input] = current[ops[op].input]
        BY <1>2, <2>3, <3>1, <3>3 DEF TypeOK
      <4>2. op # current[i] /\ op # n + 1
        <5>1. op \in 1..n /\ op # None /\ op # n + 1
          BY <2>2, <2>4, <2>6, GuardAssumption
        <5> QED
          BY <1>2, <1>4, <3>3, <5>1 DEF TypeOK
      <4>3. op \in activeOps' <=> op \in activeOps
        BY <2>3, <4>2
      <4>4. Shown(op)' <=> Shown(op)
        BY <2>3, <3>1, <4>1 DEF Shown
      <4> QED
        BY <1>1, <2>6, <4>3, <4>4
    <3> QED
      BY <3>2, <3>3
  <2> QED
    BY <2>4, <2>5, <2>6
<1>5. ASSUME NEW op \in AllOps, NEW new \in Operation, Keeps(op, new),
             new.decision = ops[op].decision, UNCHANGED <<installed, current, activeOps>>,
             NEW other \in AllOps'
      PROVE  other \in activeOps' <=> Shown(other)'
  <2>1. /\ other \in AllOps /\ ops'[other].input = ops[other].input
        /\ ops'[other].decision = ops[other].decision
    BY <1>2, <1>5, KeepsTypes
  <2>2. Shown(other)' <=> Shown(other)
    BY <1>5, <2>1 DEF Shown
  <2> QED
    BY <1>1, <1>5, <2>1, <2>2
<1>6. ASSUME UNCHANGED <<installed, ops, current, activeOps>>, NEW other \in AllOps'
      PROVE  other \in activeOps' <=> Shown(other)'
  BY <1>1, <1>6 DEF Shown, AllOps
<1>7. ASSUME NEW i \in Input, NEW other \in AllOps',
             Follows(i) \/ Misses(i) \/ (\E file \in File : Mistakes(i, file))
      PROVE  other \in activeOps' <=> Shown(other)'
  <2>1. UNCHANGED <<installed, current, activeOps>>
    BY <1>7 DEF Follows, Misses, Mistakes
  <2>2. CASE UNCHANGED ops
    BY <1>6, <2>1, <2>2
  <2>3. CASE Unsuppresses(i)
    <3>1. PICK op \in AllOps, new \in Operation :
            /\ op = current[i] /\ Keeps(op, new)
            /\ new.decision = ops[op].decision /\ new.request = ops[op].request
            /\ new.file = ops[op].file
      BY ONLY <1>2, <2>3, i \in Input, ClearedOperation
    <3> QED
      BY <1>5, <2>1, <3>1
  <2> QED
    BY <1>7, <2>2, <2>3 DEF Follows, Misses, Mistakes
<1>8. ASSUME NEW op \in AllOps, NEW new \in Operation, Decides(op, new), NEW other \in AllOps'
      PROVE  other \in activeOps' <=> Shown(other)'
  <2>1. /\ AllOps' = AllOps /\ ops'[op] = new
        /\ \A k \in AllOps \ {op} : ops'[k] = ops[k]
        /\ \A k \in AllOps : ops'[k].input = ops[k].input
        /\ UNCHANGED <<installed, current>>
    BY <1>2, <1>8, KeepsTypes DEF Decides
  <2>2. /\ ops[op].decision = None /\ new.decision \in ScanFileResult /\ new.decision # None
        /\ new.decision.decision \in {"allow", "block"}
    BY <1>8, Blocks, DecisionAssumption DEF Decides
  <2>3. CASE IsObsolete(op)
    <3>1. activeOps' = activeOps
      BY <1>8, <2>3 DEF Decides, Apply, ShowBlock, Resume
    <3> QED
      BY <1>1, <2>1, <2>3, <3>1 DEF Shown, IsObsolete
  <2>4. CASE ~IsObsolete(op) /\ new.decision.decision = "block"
    <3>1. activeOps' = activeOps
      BY <1>8, <2>4 DEF Decides, Apply, ShowBlock, Resume
    <3> QED
      BY <1>1, <2>1, <2>2, <2>4, <3>1 DEF Shown
  <2>5. CASE ~IsObsolete(op) /\ new.decision.decision = "allow"
    <3>1. activeOps' = activeOps \ {op}
      BY <1>8, <2>5 DEF Decides, Apply, ShowBlock, Resume
    <3> QED
      BY <1>1, <2>1, <2>2, <2>5, <3>1 DEF Shown
  <2> QED
    BY <2>2, <2>3, <2>4, <2>5
<1>9. ASSUME Uninstall, NEW other \in AllOps'
      PROVE  other \in activeOps' <=> Shown(other)'
  BY <1>9 DEF Uninstall, Shown
<1>10. CASE DropUnmapped \/ Dismiss \/ HealthSettles \/ PageStep \/ UNCHANGED vars
  BY <1>6, <1>10 DEF DropUnmapped, Dismiss, HealthSettles, PageStep, PageEmpties, PageMoves, vars
<1> QED
  BY <1>2, <1>4, <1>5, <1>7, <1>8, <1>9, <1>10, StepEffect DEF Effect, Gesture, Advances, IInv

\* Every step keeps the overlay that of the latest, blocked choice.
LEMMA NextOverlay ==
  ASSUME IInv, [Next]_vars
  PROVE  OverlayIsCurrent'
<1>1. TypeOK /\ OverlayIsCurrent /\ RegistriesAgree
  BY DEF IInv
<1>2. ASSUME NEW i \in Input, NEW file \in File, NEW suppress \in BOOLEAN,
             Begins(i, file, suppress)
      PROVE  OverlayIsCurrent'
  <2>1. PICK mounted : Start(file, i, suppress, mounted)
    BY <1>2 DEF Begins
  <2>2. \A k \in AllOps : ops'[k] = ops[k]
    BY <1>1, <2>1, OpsGrow DEF AllOps
  <2>3. installed'
    BY <1>2 DEF Begins
  <2>4. ASSUME overlay' \in AllOps'
        PROVE  /\ current'[ops'[overlay'].input] = overlay'
               /\ ops'[overlay'].decision # None
               /\ ops'[overlay'].decision.decision = "block"
    <3>1. overlay' \in AllOps \ {current[i]} /\ overlay' = overlay
      <4>1. AllOps' \subseteq Nat
        BY DEF AllOps
      <4> QED
        BY <1>2, <2>4, <4>1, StartFacts, GuardAssumption
    <3>2. /\ current[ops[overlay].input] = overlay /\ ops[overlay].decision # None
          /\ ops[overlay].decision.decision = "block"
      BY <1>1, <3>1 DEF OverlayIsCurrent
    <3>3. ops[overlay].input # i /\ ops[overlay].input \in Input
      BY <1>1, <3>1, <3>2, OpsChange DEF Operation
    <3>4. current'[ops[overlay].input] = current[ops[overlay].input]
      BY <1>1, <1>2, <3>3, StartFacts DEF TypeOK
    <3> QED
      BY <2>2, <3>1, <3>2, <3>4
  <2> QED
    BY <2>3, <2>4 DEF OverlayIsCurrent
<1>3. ASSUME NEW op \in AllOps, NEW new \in Operation, Keeps(op, new),
             new.decision = ops[op].decision,
             UNCHANGED <<installed, current, overlay, guard, status>>
      PROVE  OverlayIsCurrent'
  BY <1>1, <1>3, KeepsTypes DEF OverlayIsCurrent
<1>4. ASSUME NEW i \in Input,
             Follows(i) \/ Misses(i) \/ (\E file \in File : Mistakes(i, file))
      PROVE  OverlayIsCurrent'
  <2>1. UNCHANGED <<installed, current, overlay, guard, status>>
    BY <1>4 DEF Follows, Misses, Mistakes, page
  <2>2. CASE UNCHANGED ops
    BY <1>1, <2>1, <2>2 DEF OverlayIsCurrent, AllOps
  <2>3. CASE Unsuppresses(i)
    <3>1. PICK op \in AllOps, new \in Operation :
            /\ op = current[i] /\ Keeps(op, new)
            /\ new.decision = ops[op].decision /\ new.request = ops[op].request
            /\ new.file = ops[op].file
      BY ONLY <1>1, <2>3, i \in Input, ClearedOperation
    <3> QED
      BY <1>3, <2>1, <3>1
  <2> QED
    BY <1>4, <2>2, <2>3 DEF Follows, Misses, Mistakes
<1>5. ASSUME NEW op \in AllOps, NEW new \in Operation, Decides(op, new) PROVE OverlayIsCurrent'
  <2>1. /\ AllOps' = AllOps /\ ops'[op] = new
        /\ \A k \in AllOps \ {op} : ops'[k] = ops[k]
        /\ \A k \in AllOps : ops'[k].input = ops[k].input
        /\ UNCHANGED <<installed, current>>
    BY <1>1, <1>5, KeepsTypes DEF Decides
  <2>2. ops[op].decision = None /\ new.decision # None
    BY <1>5, DecisionAssumption DEF Decides
  <2>3. CASE UNCHANGED page
    BY <1>1, <2>1, <2>2, <2>3 DEF OverlayIsCurrent, page
  <2>4. CASE ~IsObsolete(op) /\ new.decision.decision = "block" /\ ShowBlock(op, new.decision)
    BY <1>1, <2>1, <2>2, <2>4 DEF OverlayIsCurrent, ShowBlock, IsObsolete
  <2>5. CASE ~IsObsolete(op) /\ Resume(op, new.decision)
    BY <1>1, <2>1, <2>2, <2>5 DEF OverlayIsCurrent, Resume, IsObsolete
  <2> QED
    BY <1>5, <2>3, <2>4, <2>5 DEF Decides, Apply
<1>6. CASE Uninstall
  <2>1. AllOps' = AllOps /\ overlay \in AllOps \cup {Unmapped, None}
    BY <1>1, <1>6 DEF Uninstall, AllOps, TypeOK
  <2>2. overlay \in AllOps => overlay \in activeOps
    BY <1>1, <1>6, RegistriesByOperation DEF OverlayIsCurrent, ActiveIsShown, Shown, Uninstall
  <2>3. overlay' = None /\ None \notin AllOps
    BY <1>6, <2>1, <2>2, GuardAssumption DEF Uninstall, AllOps
  <2> QED
    BY <1>6, <2>1, <2>3 DEF Uninstall, OverlayIsCurrent
<1>7. CASE DropUnmapped \/ Dismiss
  <2>1. overlay' \notin AllOps'
    BY <1>7, GuardAssumption DEF DropUnmapped, Dismiss, AllOps
  <2> QED
    BY <1>1, <1>7, <2>1 DEF DropUnmapped, Dismiss, OverlayIsCurrent
<1>8. CASE HealthSettles \/ PageStep \/ UNCHANGED vars
  BY <1>1, <1>8 DEF HealthSettles, PageStep, PageEmpties, PageMoves, vars, page, AllOps,
                    OverlayIsCurrent
<1> QED
  BY <1>2, <1>3, <1>4, <1>5, <1>6, <1>7, <1>8, StepEffect
  DEF Effect, Gesture, Advances, page, IInv

\* What each effect does to the flags.
LEMMA FlagOfNewOperation ==
  ASSUME IInv, NEW i \in Input, NEW file \in File, NEW suppress \in BOOLEAN,
         Begins(i, file, suppress)
  PROVE  /\ IsSuppressing(i)' <=> suppress
         /\ \A j \in Input \ {i} : IsSuppressing(j)' <=> IsSuppressing(j)
<1> DEFINE n == Len(ops)
<1>1. TypeOK
  BY DEF IInv
<1>2. PICK mounted : Start(file, i, suppress, mounted)
  BY DEF Begins
<1>3. n \in Nat /\ (\A k \in 1..n : ops'[k] = ops[k]) /\ ops'[n + 1].suppress = suppress
  <2>1. /\ n \in Nat /\ \A k \in 1..n : ops'[k] = ops[k]
        /\ ops'[n + 1] = [input |-> i, file |-> file, suppress |-> suppress,
                          request |-> "preflight", decision |-> None]
    BY <1>1, <1>2, OpsGrow
  <2> HIDE DEF n
  <2> QED
    BY <2>1
<1>4. current' = [current EXCEPT ![i] = n + 1] /\ AllOps = 1..n
  BY StartFacts DEF AllOps
<1> HIDE DEF n
<1>5. current'[i] = n + 1 /\ n + 1 # None
  BY <1>1, <1>3, <1>4, GuardAssumption DEF TypeOK
<1>6. \A j \in Input \ {i} : /\ current'[j] = current[j]
                             /\ current[j] # None => ops'[current[j]] = ops[current[j]]
  BY <1>1, <1>3, <1>4 DEF TypeOK
<1> QED
  BY <1>3, <1>5, <1>6 DEF IsSuppressing

LEMMA FlagCleared ==
  ASSUME TypeOK, NEW i \in Input, Unsuppresses(i), UNCHANGED current
  PROVE  /\ ~IsSuppressing(i)'
         /\ \A j \in Input \ {i} : IsSuppressing(j)' <=> IsSuppressing(j)
<1>1. /\ current[i] \in AllOps /\ ops'[current[i]].suppress = FALSE
      /\ \A other \in AllOps \ {current[i]} : ops'[other] = ops[other]
  BY ClearedOperation
<1>2. \A j \in Input \ {i} : current[j] # None => current[j] \in AllOps \ {current[i]}
  BY <1>1 DEF TypeOK
<1> QED
  BY <1>1, <1>2 DEF IsSuppressing

LEMMA FlagsOfRequests ==
  ASSUME TypeOK, NEW op \in AllOps, NEW new \in Operation, Advances(op, new) \/ Decides(op, new)
  PROVE  \A j \in Input : IsSuppressing(j)' <=> IsSuppressing(j)
<1>1. (\A k \in AllOps : ops'[k].suppress = ops[k].suppress) /\ UNCHANGED current
  BY KeepsTypes DEF Advances, Decides
<1> QED
  BY <1>1 DEF IsSuppressing, TypeOK

\* Every step keeps the suppression to the change event that follows.
LEMMA NextSuppression ==
  ASSUME IInv, [Next]_vars
  PROVE  SuppressionIsConsumed'
<1>1. TypeOK /\ SuppressionIsConsumed
  BY DEF IInv
<1>2. SUFFICES ASSUME installed', NEW j \in Input, IsSuppressing(j)'
               PROVE  picking' = j \/ j \in missed'
  BY DEF SuppressionIsConsumed
<1>3. installed
  BY <1>1, <1>2, StepEffect
  DEF Effect, Gesture, Begins, Follows, Misses, Mistakes, DropUnmapped, Dismiss, Advances, Decides,
      HealthSettles, Uninstall, PageStep, PageEmpties, PageMoves, vars, TypeOK
<1>4. ASSUME NEW i \in Input, NEW file \in File, NEW suppress \in BOOLEAN,
             Begins(i, file, suppress)
      PROVE  picking' = j \/ j \in missed'
  <2>1. missed' = missed \ {i}
    BY <1>4 DEF Begins, Start
  <2>2. CASE j = i
    BY <1>2, <1>4, <2>2, FlagOfNewOperation DEF Begins
  <2>3. CASE j # i
    <3>1. picking = j \/ j \in missed
      BY <1>1, <1>2, <1>3, <1>4, <2>3, FlagOfNewOperation DEF SuppressionIsConsumed
    <3> QED
      BY <1>4, <2>1, <2>3, <3>1, GuardAssumption DEF Begins
  <2> QED
    BY <2>2, <2>3
<1>5. ASSUME NEW i \in Input, Follows(i) PROVE picking' = j \/ j \in missed'
  <2>1. j # i /\ IsSuppressing(j)
    <3>1. CASE Unsuppresses(i)
      BY <1>1, <1>2, <1>5, <3>1, FlagCleared DEF Follows
    <3>2. CASE UNCHANGED ops /\ ~IsSuppressing(i)
      BY <1>2, <1>5, <3>2 DEF Follows, IsSuppressing
    <3> QED
      BY <1>3, <1>5, <3>1, <3>2 DEF Follows
  <2> QED
    BY <1>1, <1>3, <1>5, <2>1 DEF Follows, SuppressionIsConsumed
<1>6. ASSUME NEW i \in Input, Misses(i) PROVE picking' = j \/ j \in missed'
  <2>1. picking = j \/ j \in missed
    BY <1>1, <1>2, <1>3, <1>6 DEF Misses, IsSuppressing, SuppressionIsConsumed
  <2> QED
    BY <1>6, <2>1, GuardAssumption DEF Misses
<1>7. ASSUME NEW i \in Input, NEW file \in File, Mistakes(i, file)
      PROVE  picking' = j \/ j \in missed'
  BY <1>1, <1>2, <1>3, <1>7, FlagCleared DEF Mistakes, SuppressionIsConsumed
<1>8. ASSUME NEW op \in AllOps, NEW new \in Operation, Advances(op, new) \/ Decides(op, new)
      PROVE  picking' = j \/ j \in missed'
  BY <1>1, <1>2, <1>3, <1>8, FlagsOfRequests DEF Advances, Decides, SuppressionIsConsumed
<1>9. CASE DropUnmapped \/ Dismiss \/ HealthSettles \/ PageStep \/ UNCHANGED vars
  BY <1>1, <1>2, <1>3, <1>9
  DEF DropUnmapped, Dismiss, HealthSettles, PageStep, PageEmpties, PageMoves, vars, IsSuppressing,
      SuppressionIsConsumed
<1>10. ~Uninstall
  BY <1>2 DEF Uninstall
<1> QED
  BY <1>1, <1>4, <1>5, <1>6, <1>7, <1>8, <1>9, <1>10, StepEffect DEF Effect, Gesture

\* The invariants hold of a page that has just been loaded.
LEMMA InitInvariant == Init => IInv
<1> SUFFICES ASSUME Init PROVE IInv
  OBVIOUS
<1>1. ops = <<>> /\ Len(ops) = 0 /\ AllOps = {} /\ ops \in Seq(Operation)
  BY EmptySeq DEF Init, AllOps
<1>2. TypeOK
  <2>1. /\ current \in [Input -> Op \cup {None}] /\ \A i \in Input : current[i] = None
        /\ held \in [Input -> File \cup {NoFile}] /\ connected \in [Input -> BOOLEAN]
    BY DEF Init
  <2>2. Len(ops) <= MaxOps /\ activeOps = {} /\ overlay = None /\ picking = None /\ missed = {}
    BY <1>1, GuardAssumption DEF Init
  <2> QED
    BY <1>1, <2>1, <2>2 DEF Init, TypeOK
<1>3. RegistriesAgree /\ OverlayIsCurrent /\ SuppressionIsConsumed
  BY <1>1 DEF Init, RegistriesAgree, OverlayIsCurrent, SuppressionIsConsumed, IsSuppressing
<1> QED
  BY <1>2, <1>3 DEF IInv

\* Every callback keeps them.
LEMMA NextInvariant == IInv /\ [Next]_vars => IInv'
  BY NextTypeOK, NextRegistries, NextOverlay, NextSuppression DEF IInv
-----------------------------------------------------------------------------
(* The refinement *)

\* The choice at an input is what its operation says.
LEMMA ChoiceOfInput ==
  ASSUME TypeOK, NEW i \in Input
  PROVE  /\ ~installed \/ current[i] = None => GateChoice(i) = [file |-> NoFile, state |-> "none"]
         /\ installed /\ current[i] # None /\ ops[current[i]].decision = None =>
              GateChoice(i) = [file |-> ops[current[i]].file, state |-> "pending"]
         /\ installed /\ current[i] # None /\ ops[current[i]].decision # None
              /\ ops[current[i]].decision.decision = "block" =>
              GateChoice(i) = [file |-> ops[current[i]].file, state |-> "blocked"]
         /\ installed /\ current[i] # None /\ ops[current[i]].decision # None
              /\ ops[current[i]].decision.decision = "allow" =>
              GateChoice(i) = [file |-> ops[current[i]].file, state |-> "allowed"]
  BY DEF GateChoice

\* A page that has just been loaded has an open gate and no choices.
LEMMA InitGate == Init => Gate!Init
  BY DEF Init, Gate!Init, Gate!NoChoice, GateChoice, Strays, IsSuppressing

\* A choice depends on its own operation only.
LEMMA OtherChoices ==
  ASSUME NEW j \in Input, UNCHANGED installed, current'[j] = current[j],
         current[j] # None =>
           /\ ops'[current[j]].file = ops[current[j]].file
           /\ ops'[current[j]].decision = ops[current[j]].decision
  PROVE  GateChoice(j)' = GateChoice(j)
  BY DEF GateChoice

\* Every step of the content script is one of the gate, or none.
LEMMA NextGate ==
  ASSUME IInv, TypeOK', [Next]_vars
  PROVE  [Gate!Next]_<<installed, [i \in Input |-> GateChoice(i)], held, connected, Strays>>
<1> DEFINE choice == [i \in Input |-> GateChoice(i)]
           Step == [Gate!Next]_<<installed, choice, held, connected, Strays>>
<1>1. TypeOK
  BY DEF IInv
<1>2. ASSUME UNCHANGED <<installed, held, connected, Strays>>,
             \A j \in Input : GateChoice(j)' = GateChoice(j)
      PROVE  Step
  <2>1. choice' = choice
    BY <1>2
  <2> QED
    BY <1>2, <2>1
<1>3. ASSUME NEW i \in Input, NEW file \in File, NEW suppress \in BOOLEAN,
             Begins(i, file, suppress)
      PROVE  Step
  <2> DEFINE n == Len(ops)
  <2>1. PICK mounted : Start(file, i, suppress, mounted)
    BY <1>3 DEF Begins
  <2>2. /\ n \in Nat /\ \A k \in 1..n : ops'[k] = ops[k]
        /\ ops'[n + 1] = [input |-> i, file |-> file, suppress |-> suppress,
                          request |-> "preflight", decision |-> None]
    BY <1>1, <2>1, OpsGrow
  <2>3. current' = [current EXCEPT ![i] = n + 1] /\ UNCHANGED installed /\ installed
    BY <1>1, <1>3, StartFacts DEF Begins, IInv
  <2>4. held' = [held EXCEPT ![i] = NoFile]
    BY <1>3 DEF Begins
  <2>5. AllOps = 1..n
    BY DEF AllOps
  <2> HIDE DEF n
  <2>6. current'[i] = n + 1 /\ n + 1 # None
    BY <1>1, <2>2, <2>3, GuardAssumption DEF TypeOK
  <2>7. GateChoice(i)' = [file |-> file, state |-> "pending"]
    BY <2>2, <2>3, <2>6 DEF GateChoice
  <2>8. \A j \in Input \ {i} : GateChoice(j)' = GateChoice(j)
    <3> SUFFICES ASSUME NEW j \in Input \ {i} PROVE GateChoice(j)' = GateChoice(j)
      OBVIOUS
    <3>1. current'[j] = current[j] /\ (current[j] # None => ops'[current[j]] = ops[current[j]])
      BY <1>1, <2>2, <2>3, <2>5 DEF TypeOK
    <3> QED
      BY <2>3, <3>1, OtherChoices
  <2>9. choice' = [choice EXCEPT ![i] = Gate!Pending(file)]
    BY <2>7, <2>8 DEF Gate!Pending
  <2>10. Strays' = Strays \ {i}
    <3>1. \A j \in Input \ {i} : (IsSuppressing(j)' <=> IsSuppressing(j)) /\ picking # j /\ picking' # j
      BY <1>3, FlagOfNewOperation, GuardAssumption DEF Begins
    <3>2. ~(IsSuppressing(i)' /\ picking' # i)
      BY <1>3, FlagOfNewOperation DEF Begins
    <3> QED
      BY <2>3, <3>1, <3>2 DEF Strays
  <2>11. Gate!Choose(i, file)
    BY <1>3, <2>3, <2>4, <2>9, <2>10 DEF Gate!Choose, Begins
  <2> QED
    BY <2>11 DEF Gate!Next
<1>4. ASSUME NEW i \in Input, Unsuppresses(i) \/ UNCHANGED ops, UNCHANGED <<installed, current>>
      PROVE  \A j \in Input : GateChoice(j)' = GateChoice(j)
  <2>1. \A k \in AllOps : ops'[k].file = ops[k].file /\ ops'[k].decision = ops[k].decision
    <3>1. CASE UNCHANGED ops
      BY <3>1
    <3>2. CASE Unsuppresses(i)
      <4>1. PICK op \in AllOps, new \in Operation :
              /\ op = current[i] /\ Keeps(op, new)
              /\ new.decision = ops[op].decision /\ new.request = ops[op].request
              /\ new.file = ops[op].file
        BY ONLY <1>1, <3>2, i \in Input, ClearedOperation
      <4>2. ops'[op] = new /\ \A k \in AllOps \ {op} : ops'[k] = ops[k]
        BY <1>1, <4>1, KeepsTypes
      <4> QED
        BY <4>1, <4>2
    <3> QED
      BY <1>4, <3>1, <3>2
  <2> QED
    BY <1>1, <1>4, <2>1, OtherChoices DEF TypeOK
<1>5. ASSUME NEW i \in Input, Follows(i) PROVE Step
  <2>1. \A j \in Input : GateChoice(j)' = GateChoice(j)
    BY <1>4, <1>5 DEF Follows
  <2>2. /\ installed => ~IsSuppressing(i)'
        /\ \A j \in Input \ {i} : IsSuppressing(j)' <=> IsSuppressing(j)
    <3>1. CASE Unsuppresses(i)
      BY <1>1, <1>5, <3>1, FlagCleared DEF Follows
    <3>2. CASE UNCHANGED ops /\ (installed => ~IsSuppressing(i))
      BY <1>5, <3>2 DEF Follows, IsSuppressing
    <3> QED
      BY <1>5, <3>1, <3>2 DEF Follows
  <2>3. picking = i /\ picking' \notin Input
    BY <1>5, GuardAssumption DEF Follows
  <2>4. UNCHANGED Strays
    BY <1>5, <2>2, <2>3 DEF Follows, Strays
  <2> QED
    BY <1>2, <1>5, <2>1, <2>4 DEF Follows, page
<1>6. ASSUME NEW i \in Input, Misses(i) PROVE Step
  <2>1. choice' = choice
    BY <1>4, <1>6 DEF Misses
  <2>2. \A j \in Input : /\ IsSuppressing(j)' <=> IsSuppressing(j)
                         /\ j # i => picking # j /\ picking' # j
    BY <1>6, GuardAssumption DEF Misses, IsSuppressing
  <2>3. Strays' \in {Strays \ {i}, Strays \cup {i}}
    <3>1. Strays' \ {i} = Strays \ {i}
      BY <1>6, <2>2 DEF Misses, Strays
    <3> QED
      BY <3>1
  <2>4. Gate!Lose(i)
    BY <1>6, <2>1, <2>3 DEF Misses, Gate!Lose
  <2> QED
    BY <2>4 DEF Gate!Next
<1>7. ASSUME NEW i \in Input, NEW file \in File, Mistakes(i, file) PROVE Step
  <2>1. choice' = choice
    BY <1>4, <1>7 DEF Mistakes
  <2>2. /\ i \in Strays
        /\ ~IsSuppressing(i)' /\ \A j \in Input \ {i} : IsSuppressing(j)' <=> IsSuppressing(j)
    BY <1>1, <1>7, FlagCleared, GuardAssumption DEF Mistakes, Strays
  <2>3. Strays' = Strays \ {i}
    BY <1>7, <2>2 DEF Mistakes, Strays
  <2>4. Gate!Mistake(i)
    BY <1>7, <2>1, <2>2, <2>3 DEF Mistakes, Gate!Mistake
  <2> QED
    BY <2>4 DEF Gate!Next
<1>8. ASSUME NEW op \in AllOps, NEW new \in Operation, Advances(op, new) \/ Decides(op, new)
       PROVE  UNCHANGED <<installed, connected, Strays>>
  BY <1>1, <1>8, FlagsOfRequests DEF Advances, Decides, Strays
<1>9. ASSUME NEW op \in AllOps, NEW new \in Operation, Advances(op, new) PROVE Step
  <2>1. \A k \in AllOps : ops'[k].file = ops[k].file /\ ops'[k].decision = ops[k].decision
    BY <1>1, <1>9, KeepsTypes DEF Advances, Keeps
  <2>2. \A j \in Input : GateChoice(j)' = GateChoice(j)
    BY <1>1, <1>9, <2>1, OtherChoices DEF Advances, TypeOK
  <2> QED
    BY <1>2, <1>8, <1>9, <2>2 DEF Advances, page
<1>10. ASSUME NEW op \in AllOps, NEW new \in Operation, Decides(op, new) PROVE Step
  <2>1. PICK i \in Input : i = ops[op].input
    BY <1>1, OpsChange DEF Operation
  <2>2. /\ AllOps' = AllOps /\ ops'[op] = new
        /\ \A k \in AllOps \ {op} : ops'[k] = ops[k]
        /\ new.file = ops[op].file
        /\ UNCHANGED <<installed, current>>
    BY <1>1, <1>10, KeepsTypes DEF Decides, Keeps
  <2>3. /\ ops[op].decision = None /\ new.decision # None
        /\ new.decision.decision \in {"allow", "block"}
    BY <1>10, Blocks, DecisionAssumption DEF Decides
  <2>4. \A j \in Input : ~installed \/ current[j] # op => GateChoice(j)' = GateChoice(j)
    <3> SUFFICES ASSUME NEW j \in Input, ~installed \/ current[j] # op
                 PROVE  GateChoice(j)' = GateChoice(j)
      OBVIOUS
    <3>1. CASE ~installed
      BY <2>2, <3>1 DEF GateChoice
    <3>2. CASE current[j] # op
      BY <1>1, <2>2, <3>2, OtherChoices DEF TypeOK
    <3> QED
      BY <3>1, <3>2
  <2>5. \A j \in Input : current[j] = op => j = i
    BY <1>1, <2>1, GuardAssumption DEF TypeOK, AllOps
  <2>6. UNCHANGED <<installed, connected, Strays>>
    BY <1>8, <1>10
  <2>7. CASE IsObsolete(op)
    <3>1. \A j \in Input : GateChoice(j)' = GateChoice(j)
      BY <2>1, <2>4, <2>5, <2>7 DEF IsObsolete
    <3>2. UNCHANGED held
      BY <1>10, <2>7 DEF Decides, Apply, page
    <3> QED
      BY <1>2, <2>6, <3>1, <3>2
  <2>8. CASE ~IsObsolete(op)
    <3>1. installed /\ current[i] = op /\ op # None
      BY <1>1, <2>1, <2>8, GuardAssumption DEF IsObsolete, AllOps
    <3>2. GateChoice(i) = [file |-> ops[op].file, state |-> "pending"]
      BY <2>3, <3>1 DEF GateChoice
    <3>3. \A j \in Input \ {i} : GateChoice(j)' = GateChoice(j)
      BY <2>4, <2>5
    <3>4. choice[i] = [file |-> ops[op].file, state |-> "pending"]
      BY <2>3, <3>2
    <3>5. CASE new.decision.decision = "block"
      <4>1. GateChoice(i)' = [file |-> ops[op].file, state |-> "blocked"]
        BY <2>2, <2>3, <3>1, <3>5 DEF GateChoice
      <4>2. choice' = [choice EXCEPT ![i].state = "blocked"]
        <5>1. [choice[i] EXCEPT !.state = "blocked"] = [file |-> ops[op].file, state |-> "blocked"]
          BY <3>4
        <5>2. choice' = [choice EXCEPT ![i] = [file |-> ops[op].file, state |-> "blocked"]]
          BY <3>3, <4>1
        <5> QED
          BY <5>1, <5>2
      <4>3. UNCHANGED <<installed, held>>
        BY <1>10, <2>2, <2>8, <3>5 DEF Decides, Apply, ShowBlock, page
      <4>4. Gate!Refuse(i)
        BY <2>6, <3>1, <3>4, <4>2, <4>3 DEF Gate!Refuse
      <4> QED
        BY <2>3, <4>4 DEF Gate!Next
    <3>6. CASE new.decision.decision = "allow"
      <4>1. GateChoice(i)' = [file |-> ops[op].file, state |-> "allowed"]
        BY <2>2, <2>3, <3>1, <3>6 DEF GateChoice
      <4>2. choice' = [choice EXCEPT ![i].state = "allowed"]
        <5>1. [choice[i] EXCEPT !.state = "allowed"] = [file |-> ops[op].file, state |-> "allowed"]
          BY <3>4
        <5>2. choice' = [choice EXCEPT ![i] = [file |-> ops[op].file, state |-> "allowed"]]
          BY <3>3, <4>1
        <5> QED
          BY <5>1, <5>2
      <4>3. Resume(op, new.decision)
        BY <1>10, <2>8, <3>6 DEF Decides, Apply
      <4>4. held' \in {held, [held EXCEPT ![i] = choice[i].file]}
        BY <2>1, <3>4, <4>3 DEF Resume
      <4>5. Gate!Permit(i)
        BY <2>6, <3>1, <3>4, <4>2, <4>4 DEF Gate!Permit
      <4> QED
        BY <2>3, <4>5 DEF Gate!Next
    <3> QED
      BY <2>3, <3>5, <3>6
  <2> QED
    BY <2>7, <2>8
<1>11. CASE Uninstall
  <2>1. choice' = [i \in Input |-> Gate!NoChoice]
    BY <1>11 DEF Uninstall, GateChoice, Gate!NoChoice
  <2>2. Strays' = {}
    BY <1>11 DEF Uninstall, Strays
  <2>3. Gate!Close
    BY <1>11, <2>1, <2>2 DEF Uninstall, Gate!Close
  <2> QED
    BY <2>3 DEF Gate!Next
<1>12. ASSUME UNCHANGED <<installed, ops, current, picking>>
       PROVE  choice' = choice /\ Strays' = Strays
  BY <1>12 DEF GateChoice, Strays, IsSuppressing
<1>13. CASE PageStep
  <2>1. PICK i \in Input : PageEmpties(i) \/ PageMoves(i)
    BY <1>13 DEF PageStep
  <2>2. CASE PageEmpties(i)
    <3>1. choice' = choice /\ Strays' = Strays
      BY <1>12, <2>2 DEF PageEmpties
    <3>2. Gate!Empty(i)
      BY <2>2, <3>1 DEF PageEmpties, Gate!Empty
    <3> QED
      BY <3>2 DEF Gate!Next
  <2>3. CASE PageMoves(i)
    <3>1. choice' = choice /\ Strays' = Strays
      BY <1>12, <2>3 DEF PageMoves
    <3>2. Gate!Move(i)
      BY <2>3, <3>1 DEF PageMoves, page, Gate!Move
    <3> QED
      BY <3>2 DEF Gate!Next
  <2> QED
    BY <2>1, <2>2, <2>3
<1>14. CASE DropUnmapped \/ Dismiss \/ HealthSettles \/ UNCHANGED vars
  <2>1. UNCHANGED <<installed, ops, current, picking, held, connected>>
    BY <1>14 DEF DropUnmapped, Dismiss, HealthSettles, vars
  <2> QED
    BY <1>12, <2>1
<1> QED
  BY <1>1, <1>3, <1>5, <1>6, <1>7, <1>9, <1>10, <1>11, <1>13, <1>14, StepEffect
  DEF Effect, Gesture, IInv
-----------------------------------------------------------------------------
\* The state has its types (uploadGuard.ts:87-119).
THEOREM GuardTypeCorrect == Spec => []TypeOK
<1>1. IInv => TypeOK
  BY DEF IInv
<1> QED
  BY <1>1, InitInvariant, NextInvariant, PTL DEF Spec

\* The two registries of operations agree, with any number of inputs and operations
\* (uploadGuard.ts:118-119,141-165,245-251).
THEOREM RegistriesAlwaysAgree == Spec => []RegistriesAgree
<1>1. IInv => RegistriesAgree
  BY DEF IInv
<1> QED
  BY <1>1, InitInvariant, NextInvariant, PTL DEF Spec

\* An overlay is about the latest, blocked choice, and teardown is final
\* (uploadGuard.ts:155-162,245-251).
THEOREM OverlayAlwaysCurrent == Spec => []OverlayIsCurrent
<1>1. IInv => OverlayIsCurrent
  BY DEF IInv
<1> QED
  BY <1>1, InitInvariant, NextInvariant, PTL DEF Spec

\* A flag outlives its gesture only where the change event was lost, because the page took the
\* input out of the document in the middle of the gesture (uploadGuard.ts:187,194-200).
THEOREM SuppressionAlwaysConsumed == Spec => []SuppressionIsConsumed
<1>1. IInv => SuppressionIsConsumed
  BY DEF IInv
<1> QED
  BY <1>1, InitInvariant, NextInvariant, PTL DEF Spec

\* The content script keeps the promise of UploadGate: at an input in the document the page gets
\* a file only because it is the latest choice captured there and was allowed; what escapes is
\* a choice made outside the document, and one more for each event lost there, with any
\* number of inputs and any moves of them (uploadGuard.ts:141-257).
THEOREM GuardImplementsGate == Spec => GateKept
<1>1. IInv /\ [Next]_vars
        => IInv'
           /\ [Gate!Next]_<<installed, [i \in Input |-> GateChoice(i)], held, connected, Strays>>
  BY NextInvariant, NextGate DEF IInv
<1> QED
  BY <1>1, InitInvariant, InitGate, PTL DEF Spec, GateKept, Gate!Spec
=============================================================================
