--------------------------- MODULE EndToEndProofs ---------------------------
(***************************************************************************)
(* Proofs about EndToEnd for every set of inputs, files and origins, every *)
(* number of operations and changes, and every content of the stores: that *)
(* a secret reaches the page only by leave of a policy in force, and that  *)
(* content script and worker are to each other what their own modules      *)
(* suppose.  The invariants of the parts are those of UploadGuardProofs    *)
(* and ScanServiceProofs.                                                  *)
(***************************************************************************)
EXTENDS EndToEnd, SequenceTheorems, FiniteSetTheorems, TLAPS

Script == INSTANCE UploadGuardProofs
Worker == INSTANCE ScanServiceProofs
-----------------------------------------------------------------------------
(* The assumptions of the parts *)

LEMMA ScriptAssumptions ==
  /\ NoFile \notin File /\ MaxOps \in Nat /\ None \notin Input
  /\ None \notin Nat /\ Unmapped \notin Nat /\ None # Unmapped
  /\ None \notin Script!ScanFileResult
  BY EndToEndAssumption, NoAnswerAssumption
  DEF Guard!ScanFileResult, Guard!PreflightResult, Guard!Allow, Guard!Block,
      Script!ScanFileResult, Script!PreflightResult, Script!Allow, Script!Block

LEMMA WorkerAssumptions ==
  /\ Origin # {} /\ MAX_FILE_BYTES \in Nat \ {0}
  /\ Invalid \notin Worker!Policy
  /\ Undefined \in Candidate /\ Unread \notin Candidate /\ Foreign \notin Origin
  /\ FileSize \subseteq Nat /\ MaxChanges \in Nat
  /\ None \notin Worker!ScanFileResult \cup Worker!GuardHealthResult
<1>1. Invalid \notin Worker!Policy
  BY InvalidAssumption DEF Policy, FailureAction, Worker!Policy, Worker!FailureAction
<1>2. None \notin Worker!ScanFileResult \cup Worker!GuardHealthResult
  BY NoAnswerAssumption
  DEF Service!ScanFileResult, Service!GuardHealthResult, Service!FailureReason, Service!NativeFailure,
      Service!FailureAction, Service!Result,
      Worker!ScanFileResult, Worker!GuardHealthResult, Worker!FailureReason, Worker!NativeFailure,
      Worker!FailureAction, Worker!Result
<1> QED
  BY <1>1, <1>2, PolicyAssumption, EndToEndAssumption

LEMMA WorkerKeeps ==
  ASSUME Worker!IInv, [Worker!Next]_(Worker!vars)
  PROVE  Worker!IInv'
  BY WorkerAssumptions, Worker!NextInvariant

LEMMA ScriptKeeps ==
  ASSUME Script!IInv, [Script!Next]_(Script!vars)
  PROVE  Script!IInv'
  BY ScriptAssumptions, Script!NextInvariant
-----------------------------------------------------------------------------
(* The parts and the modules of their proofs have the same definitions *)

LEMMA SameUserStep ==
  /\ Guard!UserStep => Script!UserStep
  /\ \A i \in Input : Guard!PageEmpties(i) => Script!PageEmpties(i)
  /\ Guard!PageStep => Script!PageStep
  /\ Guard!Uninstall => Script!Uninstall
  /\ Guard!HealthSettles => Script!HealthSettles
<1>1. ASSUME NEW i \in Input, NEW file \in File
      PROVE  /\ Guard!Pick(i, file) => Script!Pick(i, file)
             /\ Guard!PickUnseen(i, file) => Script!PickUnseen(i, file)
             /\ Guard!PickChangeOnly(i, file) => Script!PickChangeOnly(i, file)
             /\ Guard!Drop(i, file) => Script!Drop(i, file)
  BY DEF Guard!Pick, Guard!PickUnseen, Guard!PickChangeOnly, Guard!Drop, Guard!InterceptChange, Guard!Start,
         Guard!Unmounted,
         Script!Pick, Script!PickUnseen, Script!PickChangeOnly, Script!Drop, Script!InterceptChange, Script!Start,
         Script!Unmounted
<1>2. Guard!FollowingChange => Script!FollowingChange
  BY DEF Guard!FollowingChange, Guard!InterceptChange, Guard!Start, Guard!Unmounted,
         Script!FollowingChange, Script!InterceptChange, Script!Start, Script!Unmounted
<1>3. /\ Guard!DropUnmapped => Script!DropUnmapped
      /\ Guard!Dismiss => Script!Dismiss
      /\ Guard!HealthSettles => Script!HealthSettles
      /\ Guard!Uninstall => Script!Uninstall
      /\ Guard!PageStep => Script!PageStep
      /\ \A i \in Input : Guard!PageEmpties(i) => Script!PageEmpties(i)
  BY DEF Guard!DropUnmapped, Guard!Dismiss, Guard!HealthSettles, Guard!Uninstall, Guard!PageStep,
         Guard!PageEmpties, Guard!PageMoves, Guard!page,
         Script!DropUnmapped, Script!Dismiss, Script!HealthSettles, Script!Uninstall,
         Script!PageStep, Script!PageEmpties, Script!PageMoves, Script!page
<1> QED
  BY <1>1, <1>2, <1>3 DEF Guard!UserStep, Script!UserStep

LEMMA SameResults ==
  /\ Guard!PreflightResult = Script!PreflightResult
  /\ Guard!ScanFileResult = Script!ScanFileResult
  /\ Guard!FailClosed = Script!FailClosed
  BY DEF Guard!PreflightResult, Guard!ScanFileResult, Guard!FailClosed, Guard!Allow, Guard!Block,
         Script!PreflightResult, Script!ScanFileResult, Script!FailClosed, Script!Allow, Script!Block

LEMMA SameSettle ==
  ASSUME NEW op, NEW next, NEW result, Guard!Settle(op, next, result)
  PROVE  Script!Settle(op, next, result)
  BY DEF Guard!Settle, Guard!Apply, Guard!IsObsolete, Guard!ShowBlock, Guard!Resume, Guard!Allow,
         Guard!Block, Guard!page,
         Script!Settle, Script!Apply, Script!IsObsolete, Script!ShowBlock, Script!Resume,
         Script!Allow, Script!Block, Script!page

LEMMA SameRequestStep ==
  ASSUME NEW op, Guard!RequestStep(op)
  PROVE  Script!RequestStep(op)
  BY SameResults, SameSettle
  DEF Guard!RequestStep, Guard!PreflightFinal, Guard!PreflightScan, Guard!BytesRead,
      Guard!ReadFails, Guard!WorkerAnswers, Guard!Deadline, Guard!page,
      Script!RequestStep, Script!PreflightFinal, Script!PreflightScan, Script!BytesRead,
      Script!ReadFails, Script!WorkerAnswers, Script!Deadline, Script!page

LEMMA SameGuard ==
  /\ Guard!Init => Script!Init
  /\ [Guard!Next]_(Guard!vars) => [Script!Next]_(Script!vars)
<1>1. Guard!Init => Script!Init
  BY DEF Guard!Init, Script!Init
<1>2. Guard!Next => Script!Next
  BY SameUserStep, SameRequestStep DEF Guard!Next, Guard!AllOps, Script!Next, Script!AllOps
<1>3. Guard!vars = Script!vars /\ Guard!vars' = Script!vars'
  BY DEF Guard!vars, Script!vars
<1> QED
  BY <1>1, <1>2, <1>3

LEMMA SamePolicy ==
  /\ Service!DEFAULT_GUARD_POLICY = DEFAULT_GUARD_POLICY
  /\ Worker!DEFAULT_GUARD_POLICY = DEFAULT_GUARD_POLICY
  /\ \A l, m : Service!InForce(l, m) = InForce(l, m) /\ Worker!InForce(l, m) = InForce(l, m)
  /\ \A l, m : Service!LoadedPolicy(l, m) = Worker!LoadedPolicy(l, m)
  /\ \A outcome, p : Service!resolveScanOutcome(outcome, p) = Worker!resolveScanOutcome(outcome, p)
<1>1. /\ Service!DEFAULT_GUARD_POLICY = DEFAULT_GUARD_POLICY
      /\ Worker!DEFAULT_GUARD_POLICY = DEFAULT_GUARD_POLICY
  BY DEF DEFAULT_GUARD_POLICY, Service!DEFAULT_GUARD_POLICY, Worker!DEFAULT_GUARD_POLICY
<1>2. Service!Policy = Policy /\ Worker!Policy = Policy
  BY DEF Policy, FailureAction, Service!Policy, Service!FailureAction, Worker!Policy,
         Worker!FailureAction
<1>3. ASSUME NEW l, NEW m
      PROVE  Service!InForce(l, m) = InForce(l, m) /\ Worker!InForce(l, m) = InForce(l, m)
  BY <1>1, <1>2 DEF InForce, IsValid, Sets, Service!InForce, Service!IsValid, Service!Sets,
                    Worker!InForce, Worker!IsValid, Worker!Sets
<1>4. ASSUME NEW l, NEW m
      PROVE  Service!LoadedPolicy(l, m) = Worker!LoadedPolicy(l, m)
  BY <1>1, <1>2
  DEF Service!LoadedPolicy, Service!OrElse, Service!applyGuardPolicyOverride, Service!Merged,
      Service!Sets,
      Worker!LoadedPolicy, Worker!OrElse, Worker!applyGuardPolicyOverride, Worker!Merged, Worker!Sets
<1>5. ASSUME NEW outcome, NEW p
      PROVE  Service!resolveScanOutcome(outcome, p) = Worker!resolveScanOutcome(outcome, p)
  BY DEF Service!resolveScanOutcome, Service!Result, Worker!resolveScanOutcome, Worker!Result
<1> QED
  BY <1>1, <1>3, <1>4, <1>5

LEMMA SameWorker ==
  /\ Service!Init => Worker!Init
  /\ [Service!Next]_(Service!vars) => [Worker!Next]_(Worker!vars)
<1>1. Service!Init => Worker!Init
  BY SamePolicy
  DEF Service!Init, Service!Request, Worker!Init, Worker!Request
<1>2. /\ Service!Loading <=> Worker!Loading
      /\ Service!HasRead <=> Worker!HasRead
      /\ Service!Loaded = Worker!Loaded
      /\ Service!BeginsLoad <=> Worker!BeginsLoad
      /\ Service!EndsLoad <=> Worker!EndsLoad
      /\ Service!Overwrites <=> Worker!Overwrites
      /\ \A result : Service!Answers(result) <=> Worker!Answers(result)
      /\ \A decision, by : Service!Result(decision, by) = Worker!Result(decision, by)
      /\ \A reason : Service!Unavailable(reason) = Worker!Unavailable(reason)
      /\ \A decision : Service!Verdict(decision) = Worker!Verdict(decision)
      /\ \A origin, p : Service!originIsProtected(origin, p) <=> Worker!originIsProtected(origin, p)
  BY SamePolicy
  DEF Service!Loading, Service!HasRead, Service!Loaded, Service!BeginsLoad, Service!EndsLoad,
      Service!Overwrites, Service!Answers, Service!Result, Service!Unavailable, Service!Verdict,
      Service!originIsProtected,
      Worker!Loading, Worker!HasRead, Worker!Loaded, Worker!BeginsLoad, Worker!EndsLoad,
      Worker!Overwrites, Worker!Answers, Worker!Result, Worker!Unavailable, Worker!Verdict,
      Worker!originIsProtected
<1>3. ASSUME NEW store
      PROVE  /\ Service!Change(store) => Worker!Change(store)
             /\ Service!ReadStore(store) => Worker!ReadStore(store)
  BY <1>2, SamePolicy
  DEF Service!Change, Service!ReadStore, Service!stores, Service!loading, Service!history,
      Worker!Change, Worker!ReadStore, Worker!stores, Worker!loading, Worker!history
<1>4. Service!PreflightArrives => Worker!PreflightArrives
  BY <1>2
  DEF Service!PreflightArrives, Service!denied, Service!stores, Service!loading, Service!history,
      Worker!PreflightArrives, Worker!denied, Worker!stores, Worker!loading, Worker!history
<1>5. /\ Service!PreflightDecides => Worker!PreflightDecides
      /\ Service!ScanDecides => Worker!ScanDecides
      /\ Service!NativeResolves => Worker!NativeResolves
  BY <1>2, SamePolicy
  DEF Service!PreflightDecides, Service!ScanDecides, Service!NativeResolves, Service!NativeFailure,
      Service!stores, Service!loading, Service!history,
      Worker!PreflightDecides, Worker!ScanDecides, Worker!NativeResolves, Worker!NativeFailure,
      Worker!stores, Worker!loading, Worker!history
<1>6. /\ Service!BytesArrive => Worker!BytesArrive
      /\ Service!FileUnreadable => Worker!FileUnreadable
      /\ Service!HealthArrives => Worker!HealthArrives
      /\ Service!HealthDecides => Worker!HealthDecides
      /\ Service!HealthResolves => Worker!HealthResolves
  BY <1>2
  DEF Service!BytesArrive, Service!FileUnreadable, Service!HealthArrives, Service!HealthDecides,
      Service!HealthResolves, Service!stores, Service!loading, Service!history,
      Worker!BytesArrive, Worker!FileUnreadable, Worker!HealthArrives, Worker!HealthDecides,
      Worker!HealthResolves, Worker!stores, Worker!loading, Worker!history
<1>7. Service!Next => Worker!Next
  BY <1>3, <1>4, <1>5, <1>6
  DEF Service!Next, Service!WorkerStep, Worker!Next, Worker!WorkerStep
<1>8. Service!vars = Worker!vars /\ Service!vars' = Worker!vars'
  BY DEF Service!vars, Service!stores, Service!loading, Service!history,
         Worker!vars, Worker!stores, Worker!loading, Worker!history
<1> QED
  BY <1>1, <1>7, <1>8
-----------------------------------------------------------------------------
(* The inductive invariant *)

\* The tracked operation has been let through.
Passed == IsStarted /\ ops[tracked].decision # None /\ ops[tracked].decision.decision = "allow"

HasSecret == IsStarted /\ ops[tracked].file \in Secret

\* The worker is not ahead of the operation, and a preflight is not answered with a verdict.
Coupled ==
  /\ request.kind = "upload" /\ request.origin \in Origin /\ tracked \in 1..MaxOps
  /\ IF stage = "sent" THEN inForce = {} ELSE IsStarted
  /\ Requesting("preflight") => stage \notin {"scan", "native"}
  /\ Requesting("preflight") /\ stage = "answered" => answer.by # "scanner"

\* The policy the worker waits with lets the file be scanned, and the one it has let it pass
\* unscanned by says so.
PolicyIsTheReason ==
  /\ stage = "native" => /\ originIsProtected(request.origin, policy)
                         /\ request.size <= policy.maxFileBytes
  /\ stage = "answered" /\ answer.decision = "allow" /\ HasSecret => Releases(policy)

\* What has been in force since the user's choice is remembered as long as it matters.
Remembered ==
  /\ IsUndecided => inForce \subseteq regime
  /\ Cardinality(moved) = 2 => torn
  /\ Passed /\ HasSecret /\ ~torn => \E p \in regime : Releases(p)

\* The page finds the file in its input only if the operation has been let through.
ReachedIfPassed ==
  IsStarted =>
    LET op == ops[tracked] IN
      current[op.input] = tracked /\ held[op.input] = op.file => Passed

\* The inputs stay in the document, and no event is lost.
InDocument == missed = {} /\ \A i \in Input : connected[i]

IInv ==
  /\ Script!IInv /\ Worker!IInv /\ InDocument
  /\ Coupled /\ PolicyIsTheReason /\ Remembered /\ ReachedIfPassed
-----------------------------------------------------------------------------
(* What the steps of the content script do to an operation *)

\* An operation keeps what it is about, and the page does not get at its file.
Untouched(op) ==
  /\ ops'[op].input = ops[op].input /\ ops'[op].file = ops[op].file
  /\ ops'[op].request = ops[op].request /\ ops'[op].decision = ops[op].decision
  /\ current'[ops[op].input] = op /\ held'[ops[op].input] = ops[op].file
       => current[ops[op].input] = op /\ held[ops[op].input] = ops[op].file

LEMMA OpsAreTyped ==
  ASSUME Script!IInv
  PROVE  /\ ops \in Seq(Script!Operation) /\ Len(ops) \in Nat
         /\ \A op \in 1..Len(ops) :
              /\ ops[op] \in Script!Operation
              /\ ops[op].input \in Input /\ ops[op].file \in File
         /\ current \in [Input -> 1..MaxOps \cup {None}] /\ held \in [Input -> File \cup {NoFile}]
<1>1. ops \in Seq(Script!Operation)
  BY DEF Script!IInv, Script!TypeOK
<1>2. Len(ops) \in Nat /\ \A op \in 1..Len(ops) : ops[op] \in Script!Operation
  BY <1>1, LenProperties, ElementOfSeq
<1> QED
  BY <1>1, <1>2 DEF Script!IInv, Script!TypeOK, Script!Op, Script!Operation

\* A gesture leaves the operations there are alone, and starts a new one with its input empty.
LEMMA GestureFacts ==
  ASSUME Script!IInv, InDocument, Script!Gesture \/ Script!Uninstall \/ Script!PageStep
  PROVE  /\ Len(ops') \in Nat /\ Len(ops) <= Len(ops')
         /\ \A op \in 1..Len(ops) : Untouched(op)
         /\ \A op \in 1..Len(ops') : op \notin 1..Len(ops) =>
              /\ ops'[op].request = "preflight" /\ ops'[op].decision = None
              /\ held'[ops'[op].input] # ops'[op].file
<1>1. /\ ops \in Seq(Script!Operation) /\ Len(ops) \in Nat
      /\ \A op \in 1..Len(ops) : ops[op].input \in Input /\ ops[op].file \in File
      /\ current \in [Input -> 1..MaxOps \cup {None}] /\ held \in [Input -> File \cup {NoFile}]
  BY OpsAreTyped
<1>2. Script!TypeOK
  BY DEF Script!IInv
<1>3. ASSUME NEW i \in Input, NEW file \in File, NEW suppress \in BOOLEAN,
             Script!Begins(i, file, suppress)
      PROVE  /\ Len(ops') \in Nat /\ Len(ops) <= Len(ops')
             /\ \A op \in 1..Len(ops) : Untouched(op)
             /\ \A op \in 1..Len(ops') : op \notin 1..Len(ops) =>
                  /\ ops'[op].request = "preflight" /\ ops'[op].decision = None
                  /\ held'[ops'[op].input] # ops'[op].file
  <2>1. PICK mounted : Script!Start(file, i, suppress, mounted)
    BY <1>3 DEF Script!Begins
  <2>2. /\ Len(ops') = Len(ops) + 1
        /\ \A op \in 1..Len(ops) : ops'[op] = ops[op]
        /\ ops'[Len(ops) + 1] = [input |-> i, file |-> file, suppress |-> suppress,
                                 request |-> "preflight", decision |-> None]
    BY <1>2, <2>1, ScriptAssumptions, Script!OpsGrow
  <2>3. held' = [held EXCEPT ![i] = NoFile] /\ NoFile \notin File
    BY <1>3, EndToEndAssumption DEF Script!Begins
  <2>4. current' = [current EXCEPT ![i] = Len(ops) + 1]
    BY <2>1 DEF Script!Start
  <2>5. \A op \in 1..Len(ops) : Untouched(op)
    BY <1>1, <2>2, <2>3, <2>4 DEF Untouched
  <2>6. \A op \in 1..Len(ops') : op \notin 1..Len(ops) => op = Len(ops) + 1
    BY <1>1, <2>2
  <2> QED
    BY <1>1, <2>2, <2>3, <2>5, <2>6
<1>4. ASSUME NEW i \in Input, Script!Follows(i)
      PROVE  Len(ops') = Len(ops) /\ \A op \in 1..Len(ops) : Untouched(op)
  <2>1. current' = current /\ held' = held
    BY <1>4 DEF Script!Follows, Script!page
  <2>2. CASE UNCHANGED ops
    BY <2>1, <2>2 DEF Untouched
  <2>3. CASE Script!Unsuppresses(i)
    <3> DEFINE op == current[i]
               new == [ops[op] EXCEPT !.suppress = FALSE]
    <3>1. op \in Script!AllOps /\ op \in 1..Len(ops) /\ Script!Keeps(op, new)
      BY <1>2, <2>3 DEF Script!TypeOK, Script!AllOps, Script!Unsuppresses
    <3>2. /\ Len(ops') = Len(ops) /\ ops'[op] = new
          /\ \A other \in 1..Len(ops) \ {op} : ops'[other] = ops[other]
      BY <1>2, <3>1, ScriptAssumptions, Script!KeepsTypes DEF Script!AllOps
    <3>3. /\ new.input = ops[op].input /\ new.file = ops[op].file
          /\ new.request = ops[op].request /\ new.decision = ops[op].decision
      BY <3>1, OpsAreTyped DEF Script!Operation
    <3> HIDE DEF new, op
    <3>4. \A other \in 1..Len(ops) : /\ ops'[other].input = ops[other].input
                                     /\ ops'[other].file = ops[other].file
                                     /\ ops'[other].request = ops[other].request
                                     /\ ops'[other].decision = ops[other].decision
      BY <3>2, <3>3
    <3> QED
      BY <2>1, <3>2, <3>4 DEF Untouched
  <2> QED
    BY <1>4, <2>2, <2>3 DEF Script!Follows
<1>5. CASE Script!DropUnmapped \/ Script!Dismiss \/ Script!Uninstall
  <2>1. UNCHANGED <<ops, current, held>>
    BY <1>5 DEF Script!DropUnmapped, Script!Dismiss, Script!Uninstall
  <2> QED
    BY <1>1, <2>1 DEF Untouched
<1>6. CASE Script!PageStep
  <2>1. PICK i \in Input : Script!PageEmpties(i) \/ Script!PageMoves(i)
    BY <1>6 DEF Script!PageStep
  <2>2. /\ UNCHANGED <<ops, current>>
        /\ held' = held \/ held' = [held EXCEPT ![i] = NoFile]
    BY <2>1 DEF Script!PageEmpties, Script!PageMoves, Script!page
  <2>3. \A op \in 1..Len(ops) : Untouched(op)
    BY <1>1, <2>2, EndToEndAssumption DEF Untouched
  <2> QED
    BY <1>1, <2>2, <2>3
<1>7. \A i \in Input : ~Script!Misses(i) /\ \A file \in File : ~Script!Mistakes(i, file)
  BY DEF InDocument, Script!Misses, Script!Mistakes
<1> QED
  BY <1>1, <1>3, <1>4, <1>5, <1>6, <1>7 DEF Script!Gesture

\* A step of one operation's request leaves the others alone: a file given back to an input that
\* another has taken over would take that one's current place.
LEMMA OthersAreUntouched ==
  ASSUME Script!IInv, NEW op \in 1..Len(ops), Script!RequestStep(op), NEW other \in 1..Len(ops) \ {op}
  PROVE  Len(ops') = Len(ops) /\ Untouched(other)
<1>1. /\ Script!TypeOK /\ op \in Script!AllOps
      /\ \A o \in 1..Len(ops) : ops[o].input \in Input /\ ops[o].file \in File
      /\ held \in [Input -> File \cup {NoFile}]
  BY OpsAreTyped DEF Script!IInv, Script!AllOps
<1>2. PICK new \in Script!Operation : Script!Advances(op, new) \/ Script!Decides(op, new)
  BY <1>1, ScriptAssumptions, Script!RequestEffect
<1>3. Script!Keeps(op, new) /\ current' = current
  BY <1>2 DEF Script!Advances, Script!Decides
<1>4. Len(ops') = Len(ops) /\ ops'[other] = ops[other]
  BY <1>1, <1>3, ScriptAssumptions, Script!KeepsTypes DEF Script!AllOps
<1>5. \/ held' = held
      \/ current[ops[op].input] = op /\ held' = [held EXCEPT ![ops[op].input] = ops[op].file]
  BY <1>2 DEF Script!Advances, Script!Decides, Script!Apply, Script!IsObsolete, Script!ShowBlock,
              Script!Resume, Script!page
<1> QED
  BY <1>1, <1>3, <1>4, <1>5 DEF Untouched

\* What a request's result or its deadline does to its operation.
LEMMA SettleFacts ==
  ASSUME Script!IInv, NEW op \in 1..Len(ops), NEW next, NEW result, Guard!Settle(op, next, result)
  PROVE  /\ Len(ops') = Len(ops)
         /\ ops'[op].input = ops[op].input /\ ops'[op].file = ops[op].file
         /\ ops'[op].request = next
         /\ ops'[op].decision = IF ops[op].decision = None THEN result ELSE ops[op].decision
         /\ current' = current
         /\ held' = held \/ (ops[op].decision = None /\ result.decision = "allow")
<1> DEFINE decision == IF ops[op].decision = None THEN result ELSE ops[op].decision
           new == [ops[op] EXCEPT !.request = next, !.decision = decision]
<1>1. ops \in Seq(Script!Operation) /\ ops[op] \in Script!Operation
  BY OpsAreTyped
<1>2. ops' = [ops EXCEPT ![op] = new]
  BY <1>1 DEF Guard!Settle, Script!Operation
<1>3. /\ new.input = ops[op].input /\ new.file = ops[op].file
      /\ new.request = next /\ new.decision = decision
  BY <1>1 DEF Script!Operation
<1>4. ops \in [1..Len(ops) -> Script!Operation] /\ Len(ops) \in Nat
  BY <1>1, LenProperties
<1>5. Len(ops') = Len(ops) /\ ops'[op] = new
  <2> HIDE DEF new
  <2>1. ops'[op] = new
    BY <1>2, <1>4
  <2>2. Len([ops EXCEPT ![op] = new]) = Len(ops)
    BY <1>4
  <2> QED
    BY <1>2, <2>1, <2>2
<1>6. /\ current' = current
      /\ held' = held \/ (ops[op].decision = None /\ result.decision = "allow")
  BY DEF Guard!Settle, Guard!Apply, Guard!ShowBlock, Guard!Resume, Guard!page
<1> QED
  BY <1>3, <1>5, <1>6

LEMMA AdvanceFacts ==
  ASSUME Script!IInv, NEW op \in 1..Len(ops), NEW next, ops' = [ops EXCEPT ![op].request = next]
  PROVE  /\ Len(ops') = Len(ops)
         /\ ops'[op].input = ops[op].input /\ ops'[op].file = ops[op].file
         /\ ops'[op].request = next /\ ops'[op].decision = ops[op].decision
<1> DEFINE new == [ops[op] EXCEPT !.request = next]
<1>1. ops \in Seq(Script!Operation) /\ ops[op] \in Script!Operation
  BY OpsAreTyped
<1>2. ops' = [ops EXCEPT ![op] = new]
  OBVIOUS
<1>3. /\ new.input = ops[op].input /\ new.file = ops[op].file
      /\ new.request = next /\ new.decision = ops[op].decision
  BY <1>1 DEF Script!Operation
<1>4. ops \in [1..Len(ops) -> Script!Operation] /\ Len(ops) \in Nat
  BY <1>1, LenProperties
<1>5. Len(ops') = Len(ops) /\ ops'[op] = new
  <2> HIDE DEF new
  <2>1. ops'[op] = new
    BY <1>2, <1>4
  <2>2. Len([ops EXCEPT ![op] = new]) = Len(ops)
    BY <1>4
  <2> QED
    BY <1>2, <2>1, <2>2
<1> QED
  BY <1>3, <1>5
-----------------------------------------------------------------------------
(* The start *)

LEMMA InitInvariant == Init => IInv
<1> SUFFICES ASSUME Init PROVE IInv
  OBVIOUS
<1>1. Script!IInv
  BY ScriptAssumptions, SameGuard, Script!InitInvariant DEF Init
<1>2. Worker!IInv
  BY WorkerAssumptions, SameWorker, Worker!InitInvariant DEF Init
<1>3. ~IsStarted
  BY EndToEndAssumption DEF Init, Guard!Init, IsStarted
<1>4. stage = "sent" /\ inForce = {} /\ moved = {}
  BY DEF Init, Service!Init
<1>5. Cardinality(moved) = 0
  BY <1>4, FS_EmptySet
<1> QED
  BY <1>1, <1>2, <1>3, <1>4, <1>5
  DEF Init, Guard!Init, IInv, InDocument, Coupled, PolicyIsTheReason, Remembered, ReachedIfPassed,
      IsUndecided, Requesting, Passed
-----------------------------------------------------------------------------
(* Content script and worker are to each other what their modules suppose *)

\* The worker's answer to an upload is one the content script knows, with the same decision.
LEMMA AnswerFacts ==
  ASSUME IInv, stage = "answered"
  PROVE  /\ Received(answer) \in Guard!ScanFileResult
         /\ Received(answer).decision = answer.decision
         /\ answer.by # "scanner" => Received(answer) \in Guard!PreflightResult
<1>1. answer \in Worker!ScanFileResult
  BY DEF IInv, Worker!IInv, Worker!TypeOK, Coupled
<1>2. CASE answer = Worker!Result("allow", "unprotected")
  <2>1. answer.decision = "allow" /\ answer.by = "unprotected"
    BY <1>2 DEF Worker!Result
  <2>2. Received(answer) = Guard!Allow("unprotected")
    BY <2>1 DEF Received, Service!FailureReason, Service!NativeFailure
  <2> QED
    BY <2>1, <2>2 DEF Guard!Allow, Guard!ScanFileResult, Guard!PreflightResult
<1>3. CASE /\ answer.decision \in {"allow", "block"}
           /\ answer.by \in Service!FailureReason \cup {"scanner"}
  <2>1. CASE answer.decision = "allow" /\ answer.by = "scanner"
    BY <2>1 DEF Received, Guard!Allow, Guard!ScanFileResult, Service!FailureReason,
                Service!NativeFailure
  <2>2. CASE answer.decision = "allow" /\ answer.by \in Service!FailureReason
    <3>1. answer.by \notin {"scanner", "unprotected"}
      BY <2>2 DEF Service!FailureReason, Service!NativeFailure
    <3> QED
      BY <2>2, <3>1 DEF Received, Guard!Allow, Guard!ScanFileResult, Guard!PreflightResult
  <2>3. CASE answer.decision = "block" /\ answer.by = "scanner"
    BY <2>3 DEF Received, Guard!Block, Guard!ScanFileResult, Service!FailureReason,
                Service!NativeFailure
  <2>4. CASE answer.decision = "block" /\ answer.by = "too_large"
    BY <2>4 DEF Received, Guard!Block, Guard!ScanFileResult, Guard!PreflightResult
  <2>5. CASE answer.decision = "block" /\ answer.by \in Service!FailureReason \ {"too_large"}
    <3>1. answer.by # "scanner"
      BY <2>5 DEF Service!FailureReason, Service!NativeFailure
    <3> QED
      BY <2>5, <3>1 DEF Received, Guard!FailClosed, Guard!Block, Guard!ScanFileResult,
                        Guard!PreflightResult
  <2> QED
    BY <1>3, <2>1, <2>2, <2>3, <2>4, <2>5
<1> QED
  BY <1>1, <1>2, <1>3
  DEF Worker!ScanFileResult, Worker!FailureAction, Worker!FailureReason, Worker!NativeFailure,
      Service!FailureReason, Service!NativeFailure

\* What the content script does here is a step of UploadGuard.
LEMMA GuardStep ==
  ASSUME IInv, Next
  PROVE  [Guard!Next]_(Guard!vars)
<1>1. CASE ContentScriptActs
  <2>1. Guard!UserStep \/ Guard!Uninstall \/ Guard!PageStep
          \/ \E op \in Guard!AllOps : Guard!RequestStep(op)
    BY <1>1 DEF ContentScriptActs, Guard!UserStep, Guard!PageStep, Guard!RequestStep, IsStarted,
                Guard!AllOps
  <2> QED
    BY <2>1 DEF Guard!Next
<1>2. CASE FileIsAskedFor \/ FileUnreadable
  BY <1>2 DEF FileIsAskedFor, FileUnreadable, IsStarted, Guard!Next, Guard!AllOps, Guard!RequestStep
<1>3. CASE ResultArrives
  <2>1. /\ Received(answer) \in Guard!ScanFileResult
        /\ Requesting("preflight") => Received(answer) \in Guard!PreflightResult
    BY <1>3, AnswerFacts DEF ResultArrives, IInv, Coupled
  <2>2. Guard!PreflightFinal(tracked) \/ Guard!WorkerAnswers(tracked)
    BY <1>3, <2>1 DEF ResultArrives, Requesting, Guard!PreflightFinal, Guard!WorkerAnswers
  <2> QED
    BY <1>3, <2>2 DEF ResultArrives, Requesting, IsStarted, Guard!Next, Guard!AllOps,
                      Guard!RequestStep
<1>4. CASE MessageFails
  <2>1. Guard!FailClosed \in Guard!PreflightResult /\ Guard!FailClosed \in Guard!ScanFileResult
    BY DEF Guard!FailClosed, Guard!PreflightResult, Guard!ScanFileResult
  <2>2. Guard!PreflightFinal(tracked) \/ Guard!WorkerAnswers(tracked)
    BY <1>4, <2>1 DEF MessageFails, Requesting, Guard!PreflightFinal, Guard!WorkerAnswers
  <2> QED
    BY <1>4, <2>2 DEF MessageFails, Requesting, IsStarted, Guard!Next, Guard!AllOps,
                      Guard!RequestStep
<1>5. CASE PreflightArrives \/ BytesArrive \/ NativeResolves \/ WorkerActs
  BY <1>5 DEF PreflightArrives, BytesArrive, NativeResolves, WorkerActs, contentScript, Guard!vars
<1> QED
  BY <1>1, <1>2, <1>3, <1>4, <1>5 DEF Next

\* What the worker and its stores do here is a step of ScanService.
LEMMA ServiceStep ==
  ASSUME Next
  PROVE  [Service!Next]_(Service!vars)
<1>1. CASE UNCHANGED worker
  BY <1>1 DEF worker, Service!vars, Service!stores, Service!loading, Service!history
<1>2. CASE FileUnreadable \/ PreflightArrives \/ BytesArrive \/ NativeResolves
  BY <1>2 DEF FileUnreadable, PreflightArrives, BytesArrive, NativeResolves, Service!Next,
              Service!WorkerStep
<1>3. CASE WorkerActs
  BY <1>3 DEF WorkerActs, Service!Next, Service!WorkerStep
<1> QED
  BY <1>1, <1>2, <1>3 DEF Next, ContentScriptActs, FileIsAskedFor, ResultArrives, MessageFails

LEMMA PartsKeep ==
  ASSUME IInv, Next
  PROVE  Script!IInv' /\ Worker!IInv'
<1>1. [Script!Next]_(Script!vars) /\ [Worker!Next]_(Worker!vars)
  BY GuardStep, ServiceStep, SameGuard, SameWorker
<1> QED
  BY <1>1, ScriptKeeps, WorkerKeeps DEF IInv

LEMMA NextInDocument ==
  ASSUME IInv, Next
  PROVE  InDocument'
<1>1. InDocument /\ Script!IInv
  BY DEF IInv
<1>2. SUFFICES UNCHANGED connected /\ missed' \subseteq missed
  BY <1>1 DEF InDocument
<1>3. CASE UNCHANGED <<connected, missed>>
  BY <1>3
<1>4. CASE ContentScriptActs
  <2>1. CASE Guard!UserStep
    <3>1. Script!Gesture
      BY <1>1, <2>1, SameUserStep, ScriptAssumptions, Script!UserEffect DEF Script!IInv
    <3>2. \A i \in Input : ~Script!Misses(i) /\ \A file \in File : ~Script!Mistakes(i, file)
      BY <1>1 DEF InDocument, Script!Misses, Script!Mistakes
    <3> QED
      BY <3>1, <3>2 DEF Script!Gesture, Script!Begins, Script!Start, Script!Follows,
                        Script!DropUnmapped, Script!Dismiss
  <2>2. CASE Guard!Uninstall \/ \E i \in Input : Guard!PageEmpties(i)
    BY <2>2 DEF Guard!Uninstall, Guard!PageEmpties
  <2>3. CASE \E op : Guard!RequestStep(op)
    BY <2>3
    DEF Guard!RequestStep, Guard!PreflightFinal, Guard!PreflightScan, Guard!BytesRead,
        Guard!ReadFails, Guard!WorkerAnswers, Guard!Deadline, Guard!Settle
  <2> QED
    BY <1>4, <2>1, <2>2, <2>3 DEF ContentScriptActs, Guard!UserStep, Guard!RequestStep
<1>5. CASE FileIsAskedFor \/ FileUnreadable \/ ResultArrives \/ MessageFails
  BY <1>5 DEF FileIsAskedFor, FileUnreadable, ResultArrives, MessageFails, Guard!PreflightScan,
              Guard!ReadFails, Guard!Settle
<1>6. CASE PreflightArrives \/ BytesArrive \/ NativeResolves \/ WorkerActs
  BY <1>6 DEF PreflightArrives, BytesArrive, NativeResolves, WorkerActs, contentScript
<1> QED
  BY <1>4, <1>5, <1>6 DEF Next
-----------------------------------------------------------------------------
(* What a step does to the tracked operation *)

\* The worker's answer lets it through.
LetThrough ==
  IsUndecided /\ stage = "answered" /\ answer.decision = "allow" /\ UNCHANGED worker

\* Once started it keeps its file, does not go back, is decided once, is let through by the
\* worker's answer only, and its file is in the page's reach only then.
GoesOn ==
  LET before == ops[tracked]
      after == ops'[tracked]
  IN /\ IsStarted'
     /\ after.input = before.input /\ after.file = before.file
     /\ after.request = "preflight" => before.request = "preflight"
     /\ before.decision # None => after.decision = before.decision
     /\ /\ before.decision = None /\ after.decision # None
        /\ after.decision.decision = "allow"
        => LetThrough
     /\ current'[before.input] = tracked /\ held'[before.input] = before.file =>
          \/ current[before.input] = tracked /\ held[before.input] = before.file
          \/ Passed'

\* It is started undecided, with its input empty, and the worker has no part in that.
IsBegun ==
  LET after == ops'[tracked] IN
    IsStarted' => after.decision = None /\ held'[after.input] # after.file

LEMMA SettleGoesOn ==
  ASSUME IInv, IsStarted, tracked' = tracked,
         NEW next, next \in {ops[tracked].request, "done"},
         NEW result \in Guard!ScanFileResult, result.decision = "allow" => LetThrough \/ ~IsUndecided,
         Guard!Settle(tracked, next, result)
  PROVE  GoesOn
<1>1. tracked \in 1..Len(ops) /\ Script!IInv
  BY DEF IsStarted, IInv
<1>2. /\ Len(ops') = Len(ops)
      /\ ops'[tracked].input = ops[tracked].input /\ ops'[tracked].file = ops[tracked].file
      /\ ops'[tracked].request = next
      /\ ops'[tracked].decision =
           IF ops[tracked].decision = None THEN result ELSE ops[tracked].decision
      /\ current' = current
      /\ held' = held \/ (ops[tracked].decision = None /\ result.decision = "allow")
  BY <1>1, SettleFacts
<1>3. result # None
  BY NoAnswerAssumption
<1>4. IsStarted'
  BY <1>1, <1>2 DEF IsStarted
<1>5. IsUndecided <=> ops[tracked].decision = None
  BY DEF IsUndecided
<1> QED
  BY <1>2, <1>3, <1>4, <1>5 DEF GoesOn, Passed

LEMMA UntouchedGoesOn ==
  ASSUME IsStarted, tracked' = tracked, Len(ops) \in Nat, Len(ops') \in Nat, Len(ops) <= Len(ops'),
         Untouched(tracked)
  PROVE  GoesOn
  BY DEF IsStarted, Untouched, GoesOn

LEMMA TrackedStep ==
  ASSUME IInv, Next
  PROVE  IF IsStarted THEN GoesOn ELSE IsBegun /\ UNCHANGED worker
<1>1. tracked' = tracked /\ Script!IInv /\ InDocument /\ Len(ops) \in Nat
  BY OpsAreTyped DEF Next, IInv
<1>2. ASSUME Script!Gesture \/ Script!Uninstall \/ Script!PageStep, UNCHANGED worker
      PROVE  IF IsStarted THEN GoesOn ELSE IsBegun /\ UNCHANGED worker
  <2>1. /\ Len(ops') \in Nat /\ Len(ops) <= Len(ops')
        /\ \A op \in 1..Len(ops) : Untouched(op)
        /\ \A op \in 1..Len(ops') : op \notin 1..Len(ops) =>
             ops'[op].decision = None /\ held'[ops'[op].input] # ops'[op].file
    BY <1>1, <1>2, GestureFacts
  <2> QED
    BY <1>1, <1>2, <2>1, UntouchedGoesOn DEF IsStarted, IsBegun
<1>3. CASE UNCHANGED contentScript /\ (IsStarted \/ UNCHANGED worker)
  <2>1. Untouched(tracked) /\ ops' = ops
    BY <1>3 DEF contentScript, Untouched
  <2>2. IsStarted' <=> IsStarted
    BY <1>1, <2>1 DEF IsStarted
  <2> QED
    BY <1>1, <1>3, <2>1, <2>2, UntouchedGoesOn DEF IsBegun
<1>4. CASE ContentScriptActs
  <2>1. UNCHANGED worker
    BY <1>4 DEF ContentScriptActs
  <2>2. CASE \/ \E i \in Input, file \in File :
                  Guard!Pick(i, file) \/ Guard!PickChangeOnly(i, file) \/ Guard!Drop(i, file)
             \/ Guard!FollowingChange \/ Guard!Uninstall
             \/ \E i \in Input : Guard!PageEmpties(i)
    <3>1. Script!UserStep \/ Script!Uninstall \/ Script!PageStep
      BY <2>2, SameUserStep DEF Guard!UserStep, Script!PageStep
    <3>2. Script!Gesture \/ Script!Uninstall \/ Script!PageStep
      BY <1>1, <3>1, ScriptAssumptions, Script!UserEffect DEF Script!IInv
    <3> QED
      BY <1>2, <2>1, <3>2
  <2>3. ASSUME NEW op \in Guard!AllOps \ {tracked}, Guard!RequestStep(op)
        PROVE  IF IsStarted THEN GoesOn ELSE IsBegun /\ UNCHANGED worker
    <3>1. Script!RequestStep(op) /\ op \in 1..Len(ops)
      BY <2>3, SameRequestStep DEF Guard!AllOps
    <3>2. CASE IsStarted
      <4>1. Len(ops') = Len(ops) /\ Untouched(tracked)
        BY <1>1, <2>3, <3>1, <3>2, OthersAreUntouched DEF IsStarted
      <4> QED
        BY <1>1, <3>2, <4>1, UntouchedGoesOn
    <3>3. CASE ~IsStarted
      <4>1. Len(ops') = Len(ops)
        <5>1. PICK new \in Script!Operation : Script!Advances(op, new) \/ Script!Decides(op, new)
          BY <1>1, <3>1, ScriptAssumptions, Script!RequestEffect DEF Script!IInv, Script!AllOps
        <5>2. Script!Keeps(op, new)
          BY <5>1 DEF Script!Advances, Script!Decides
        <5> QED
          BY <1>1, <3>1, <5>2, ScriptAssumptions, Script!KeepsTypes DEF Script!AllOps, Script!IInv
      <4>2. ~IsStarted'
        BY <1>1, <3>3, <4>1 DEF IsStarted
      <4> QED
        BY <2>1, <3>3, <4>2 DEF IsBegun
    <3> QED
      BY <3>2, <3>3
  <2>4. CASE IsStarted /\ Guard!BytesRead(tracked)
    <3>1. tracked \in 1..Len(ops) /\ ops' = [ops EXCEPT ![tracked].request = "scanning"]
          /\ current' = current /\ held' = held
      BY <2>4 DEF Guard!BytesRead, IsStarted, Guard!page
    <3>2. /\ Len(ops') = Len(ops) /\ ops'[tracked].input = ops[tracked].input
          /\ ops'[tracked].file = ops[tracked].file /\ ops'[tracked].request = "scanning"
          /\ ops'[tracked].decision = ops[tracked].decision
      BY <1>1, <3>1, AdvanceFacts
    <3>3. IsStarted'
      BY <1>1, <3>1, <3>2 DEF IsStarted
    <3> QED
      BY <2>4, <3>1, <3>2, <3>3 DEF GoesOn
  <2>5. CASE IsStarted /\ Guard!Deadline(tracked)
    <3>1. Guard!Settle(tracked, ops[tracked].request, Guard!FailClosed)
      BY <2>5 DEF Guard!Deadline
    <3>2. Guard!FailClosed \in Guard!ScanFileResult /\ Guard!FailClosed.decision = "block"
      BY DEF Guard!FailClosed, Guard!ScanFileResult, Guard!PreflightResult, Guard!Block
    <3> QED
      BY <1>1, <2>5, <3>1, <3>2, SettleGoesOn
  <2> QED
    BY <1>4, <2>2, <2>3, <2>4, <2>5 DEF ContentScriptActs
<1>5. CASE FileIsAskedFor
  <2>1. tracked \in 1..Len(ops) /\ ops' = [ops EXCEPT ![tracked].request = "reading"]
        /\ current' = current /\ held' = held
    BY <1>5 DEF FileIsAskedFor, Guard!PreflightScan, IsStarted, Guard!page
  <2>2. /\ Len(ops') = Len(ops) /\ ops'[tracked].input = ops[tracked].input
        /\ ops'[tracked].file = ops[tracked].file /\ ops'[tracked].request = "reading"
        /\ ops'[tracked].decision = ops[tracked].decision
    BY <1>1, <2>1, AdvanceFacts
  <2>3. IsStarted /\ IsStarted'
    BY <1>1, <2>1, <2>2 DEF IsStarted
  <2> QED
    BY <2>1, <2>2, <2>3 DEF GoesOn
<1>6. CASE FileUnreadable \/ MessageFails
  <2>1. IsStarted /\ Guard!Settle(tracked, "done", Guard!FailClosed)
    BY <1>6 DEF FileUnreadable, MessageFails, Requesting, Guard!ReadFails
  <2>2. Guard!FailClosed \in Guard!ScanFileResult /\ Guard!FailClosed.decision = "block"
    BY DEF Guard!FailClosed, Guard!ScanFileResult, Guard!PreflightResult, Guard!Block
  <2> QED
    BY <1>1, <2>1, <2>2, SettleGoesOn
<1>7. CASE ResultArrives
  <2>1. /\ IsStarted /\ stage = "answered" /\ UNCHANGED worker
        /\ Guard!Settle(tracked, "done", Received(answer))
    BY <1>7 DEF ResultArrives, Requesting
  <2>2. Received(answer) \in Guard!ScanFileResult /\ Received(answer).decision = answer.decision
    BY <2>1, AnswerFacts
  <2>3. Received(answer).decision = "allow" => LetThrough \/ ~IsUndecided
    BY <2>1, <2>2 DEF LetThrough
  <2> QED
    BY <1>1, <2>1, <2>2, <2>3, SettleGoesOn
<1>8. CASE PreflightArrives \/ BytesArrive \/ NativeResolves \/ WorkerActs
  <2>1. UNCHANGED contentScript
    BY <1>8 DEF PreflightArrives, BytesArrive, NativeResolves, WorkerActs
  <2>2. IsStarted
    BY <1>8
    DEF PreflightArrives, BytesArrive, NativeResolves, WorkerActs, Requesting, IsUndecided, IInv,
        Coupled, Service!NativeResolves, Service!PreflightDecides, Service!ScanDecides,
        Service!ReadStore, Service!Loading, Service!HasRead
  <2> QED
    BY <1>3, <2>1, <2>2
<1> QED
  BY <1>4, <1>5, <1>6, <1>7, <1>8 DEF Next
-----------------------------------------------------------------------------
(* What a step leaves of the reasons *)

\* The upload's origin and size are fixed, and before its message arrives the worker is idle.
LEMMA NextFacts ==
  ASSUME IInv, Next
  PROVE  /\ tracked' = tracked /\ request' = request /\ request.size \in Nat
         /\ \A p : Releases(p)' <=> Releases(p)
         /\ stage # "sent" => IsStarted /\ stage' # "sent"
         /\ IsStarted => IsStarted' /\ (HasSecret' <=> HasSecret)
<1>1. tracked' = tracked
  BY DEF Next
<1>2. request' = request
  BY ServiceStep
  DEF Service!vars, Service!Next, Service!WorkerStep, Service!Change, Service!ReadStore,
      Service!PreflightArrives, Service!PreflightDecides, Service!BytesArrive,
      Service!FileUnreadable, Service!ScanDecides, Service!NativeResolves, Service!HealthArrives,
      Service!HealthDecides, Service!HealthResolves
<1>3. request.size \in Nat
  <2>1. request \in Worker!Request
    BY DEF IInv, Worker!IInv, Worker!TypeOK
  <2>2. request.size \in FileSize \cup {0}
    <3>1. CASE request \in [kind: {"upload"}, origin: Origin \cup {Foreign}, size: FileSize]
      BY <3>1
    <3>2. CASE request \in [kind: {"health"}, origin: Origin \cup {Foreign}, size: {0}]
      BY <3>2
    <3> QED
      BY <2>1, <3>1, <3>2 DEF Worker!Request
  <2>3. FileSize \cup {0} \subseteq Nat
    BY EndToEndAssumption
  <2> QED
    BY <2>2, <2>3
<1>4. \A p : Releases(p)' <=> Releases(p)
  BY <1>2 DEF Releases, originIsProtected
<1>5. stage # "sent" => stage' # "sent"
  BY ServiceStep
  DEF Service!vars, Service!Next, Service!WorkerStep, Service!Change, Service!ReadStore,
      Service!PreflightArrives, Service!PreflightDecides, Service!BytesArrive, Service!Answers,
      Service!FileUnreadable, Service!ScanDecides, Service!NativeResolves, Service!HealthArrives,
      Service!HealthDecides, Service!HealthResolves
<1>6. stage # "sent" => IsStarted
  BY DEF IInv, Coupled
<1>7. IsStarted => IsStarted' /\ (HasSecret' <=> HasSecret)
  BY <1>1, TrackedStep DEF GoesOn, HasSecret
<1> QED
  BY <1>1, <1>2, <1>3, <1>4, <1>5, <1>6, <1>7

LEMMA NextCoupled ==
  ASSUME IInv, Next
  PROVE  Coupled'
<1>1. /\ tracked' = tracked /\ request' = request
      /\ stage # "sent" => IsStarted /\ stage' # "sent"
      /\ IsStarted => IsStarted'
  BY NextFacts
<1>2. request.kind = "upload" /\ request.origin \in Origin /\ tracked \in 1..MaxOps
  BY DEF IInv, Coupled
<1>3. Requesting("preflight")' => Requesting("preflight") \/ (~IsStarted /\ UNCHANGED worker)
  BY <1>1, TrackedStep DEF GoesOn, Requesting
<1>4. IF stage' = "sent" THEN inForce' = {} ELSE IsStarted'
  <2>1. CASE IsStarted
    <3>1. stage' = "sent" => inForce' = {}
      BY ServiceStep DEF IInv, Coupled,
        Service!vars, Service!Next, Service!WorkerStep, Service!Change, Service!ReadStore,
        Service!PreflightArrives, Service!PreflightDecides, Service!BytesArrive, Service!Answers,
        Service!FileUnreadable, Service!ScanDecides, Service!NativeResolves, Service!HealthArrives,
        Service!HealthDecides, Service!HealthResolves, Service!Loading, Service!HasRead,
        Service!history
    <3> QED
      BY <1>1, <2>1, <3>1
  <2>2. CASE ~IsStarted
    BY <2>2, TrackedStep DEF IInv, Coupled, worker
  <2> QED
    BY <2>1, <2>2
<1>5. ASSUME Requesting("preflight")'
      PROVE  stage' \notin {"scan", "native"} /\ (stage' = "answered" => answer'.by # "scanner")
  <2>1. CASE ~IsStarted /\ UNCHANGED worker
    BY <2>1 DEF IInv, Coupled, worker
  <2>2. CASE Requesting("preflight")
    <3>1. stage \notin {"scan", "native"} /\ (stage = "answered" => answer.by # "scanner")
      BY <2>2 DEF IInv, Coupled
    <3>2. CASE UNCHANGED worker
      BY <3>1, <3>2 DEF worker
    <3>3. CASE FileUnreadable \/ PreflightArrives
      BY <1>2, <3>3 DEF FileUnreadable, PreflightArrives, Service!FileUnreadable,
                        Service!PreflightArrives, Service!Answers, Service!Result
    <3>4. CASE BytesArrive
      BY <2>2, <3>4 DEF BytesArrive, Requesting
    <3>5. CASE NativeResolves
      BY <3>1, <3>5 DEF NativeResolves, Service!NativeResolves
    <3>6. CASE Service!PreflightDecides
      BY <3>6 DEF Service!PreflightDecides, Service!Answers, Service!Result,
                  Service!resolveScanOutcome, Service!Unavailable
    <3>7. CASE Service!ScanDecides
      BY <3>1, <3>7 DEF Service!ScanDecides
    <3>8. CASE \/ Service!ReadStore("local") \/ Service!ReadStore("managed")
               \/ Service!Change("local") \/ Service!Change("managed")
      BY <3>1, <3>8 DEF Service!ReadStore, Service!Change
    <3> QED
      BY <3>2, <3>3, <3>4, <3>5, <3>6, <3>7, <3>8
      DEF Next, ContentScriptActs, FileIsAskedFor, ResultArrives, MessageFails, WorkerActs
  <2> QED
    BY <1>3, <1>5, <2>1, <2>2
<1> QED
  BY <1>1, <1>2, <1>4, <1>5 DEF Coupled, Requesting

\* A decision made without the scanner is one the policy decided by releases the file by.
LEMMA NextPolicyIsTheReason ==
  ASSUME IInv, Next
  PROVE  PolicyIsTheReason'
<1>1. /\ request' = request /\ request.size \in Nat
      /\ \A p : Releases(p)' <=> Releases(p)
      /\ stage # "sent" => IsStarted
      /\ IsStarted => (HasSecret' <=> HasSecret)
  BY NextFacts
<1>2. /\ stage = "native" => /\ originIsProtected(request.origin, policy)
                             /\ request.size <= policy.maxFileBytes
      /\ stage = "answered" /\ answer.decision = "allow" /\ HasSecret => Releases(policy)
  BY DEF IInv, PolicyIsTheReason
<1>3. SUFFICES
        /\ stage' = "native" => /\ originIsProtected(request.origin, policy')
                                /\ request.size <= policy'.maxFileBytes
        /\ stage' = "answered" /\ answer'.decision = "allow" /\ HasSecret' => Releases(policy')
  BY <1>1 DEF PolicyIsTheReason, Releases, originIsProtected
<1>4. CASE stage' = stage /\ policy' = policy /\ answer' = answer
  BY <1>1, <1>2, <1>4
<1>5. CASE FileUnreadable \/ PreflightArrives \/ BytesArrive
  BY <1>5 DEF FileUnreadable, PreflightArrives, BytesArrive, Service!FileUnreadable,
              Service!PreflightArrives, Service!BytesArrive, Service!Answers, Service!Result,
              IInv, Coupled
<1>6. CASE NativeResolves
  <2>1. stage' = "answered" /\ policy' = policy
    BY <1>6 DEF NativeResolves, Service!NativeResolves, Service!Answers
  <2>2. PICK outcome \in {Service!Verdict("allow"), Service!Verdict("block")}
                           \cup {Service!Unavailable(reason) : reason \in Service!NativeFailure} :
          answer' = Service!resolveScanOutcome(outcome, policy)
    BY <1>6 DEF NativeResolves, Service!NativeResolves, Service!Answers
  <2>3. CASE outcome.kind = "verdict"
    <3>1. answer'.by = "scanner"
      BY <2>2, <2>3 DEF Service!resolveScanOutcome, Service!Result
    <3>2. HasSecret => answer'.decision = "block"
      BY <1>6, <3>1 DEF NativeResolves, HasSecret
    <3> QED
      BY <1>1, <1>6, <2>1, <3>2 DEF NativeResolves, Service!NativeResolves
  <2>4. CASE \E reason \in Service!NativeFailure : outcome = Service!Unavailable(reason)
    <3>1. answer'.decision = policy.onUnavailable
      BY <2>2, <2>4 DEF Service!NativeFailure, Service!Unavailable, Service!resolveScanOutcome,
                        Service!Result
    <3>2. originIsProtected(request.origin, policy) /\ request.size <= policy.maxFileBytes
      BY <1>2, <1>6 DEF NativeResolves, Service!NativeResolves
    <3>3. ~(request.size > policy.maxFileBytes)
      <4>1. policy.maxFileBytes \in Nat
        BY PolicyAssumption
        DEF IInv, Worker!IInv, Worker!TypeOK, Worker!Policy
      <4> QED
        BY <1>1, <3>2, <4>1
    <3> QED
      BY <2>1, <3>1, <3>2, <3>3 DEF Releases
  <2> QED
    BY <2>3, <2>4 DEF Service!Verdict
<1>7. CASE Service!PreflightDecides \/ Service!ScanDecides
  <2>1. policy' = Service!Loaded
    BY <1>7 DEF Service!PreflightDecides, Service!ScanDecides
  <2>2. CASE ~originIsProtected(request.origin, Service!Loaded)
    <3>1. stage' = "answered"
      BY <1>7, <2>2 DEF Service!PreflightDecides, Service!ScanDecides, Service!Answers,
                        Service!originIsProtected, originIsProtected
    <3> QED
      BY <2>1, <2>2, <3>1 DEF Releases
  <2>3. CASE /\ originIsProtected(request.origin, Service!Loaded)
             /\ request.size > Service!Loaded.maxFileBytes
    <3>1. /\ stage' = "answered"
          /\ answer' = Service!resolveScanOutcome(Service!Unavailable("too_large"), Service!Loaded)
      BY <1>7, <2>3 DEF Service!PreflightDecides, Service!ScanDecides, Service!Answers,
                        Service!originIsProtected, originIsProtected
    <3>2. answer'.decision = Service!Loaded.onTooLarge
      BY <3>1 DEF Service!resolveScanOutcome, Service!Unavailable, Service!Result
    <3> QED
      BY <2>1, <2>3, <3>1, <3>2 DEF Releases
  <2>4. CASE /\ originIsProtected(request.origin, Service!Loaded)
             /\ ~(request.size > Service!Loaded.maxFileBytes)
    <3>1. stage' \in {"reading", "native"}
      BY <1>7, <2>4 DEF Service!PreflightDecides, Service!ScanDecides,
                        Service!originIsProtected, originIsProtected
    <3>2. Service!Loaded.maxFileBytes \in Nat
      <4>1. Worker!Loaded = Service!Loaded /\ Worker!Loaded \in Worker!Policy
        BY WorkerAssumptions, SamePolicy, Worker!LoadedIsInForce DEF Worker!Loaded, Service!Loaded
      <4> QED
        BY <4>1, PolicyAssumption DEF Worker!Policy
    <3>3. request.size <= Service!Loaded.maxFileBytes
      BY <1>1, <2>4, <3>2
    <3> QED
      BY <2>1, <2>4, <3>1, <3>3
  <2> QED
    BY <2>2, <2>3, <2>4
<1> QED
  BY <1>4, <1>5, <1>6, <1>7
  DEF Next, ContentScriptActs, FileIsAskedFor, ResultArrives, MessageFails, WorkerActs, worker,
      Service!ReadStore, Service!Change

\* Two stores have moved, or fewer.
LEMMA AtMostTwoMove ==
  ASSUME moved \subseteq {"local", "managed"}, Cardinality(moved) # 2
  PROVE  Cardinality(moved) < 2
<1>1. Cardinality({"local"}) = 1 /\ IsFiniteSet({"local"})
  BY FS_Singleton
<1>2. IsFiniteSet({"local", "managed"}) /\ Cardinality({"local", "managed"}) = 2
  <2>1. {"local", "managed"} = {"local"} \cup {"managed"} /\ "managed" \notin {"local"}
    OBVIOUS
  <2> QED
    BY <1>1, <2>1, FS_AddElement
<1>3. Cardinality(moved) \in Nat /\ Cardinality(moved) <= 2
  BY <1>2, FS_Subset, FS_CardinalityType
<1> QED
  BY <1>3

LEMMA NextRemembered ==
  ASSUME IInv, Next
  PROVE  Remembered'
<1>1. /\ tracked' = tracked
      /\ \A p : Releases(p)' <=> Releases(p)
      /\ IsStarted => (HasSecret' <=> HasSecret)
  BY NextFacts
<1>2. /\ regime' = regime \cup (IF IsUndecided' THEN {InForce(local', managed')} ELSE {})
      /\ torn' = (torn \/ Cardinality(moved') = 2)
  BY DEF Next
<1>3. Remembered /\ Coupled /\ PolicyIsTheReason
  BY DEF IInv
<1>4. inForce' \subseteq inForce \cup {InForce(local', managed')}
  BY ServiceStep, SamePolicy
  DEF Service!vars, Service!Next, Service!WorkerStep, Service!Change, Service!ReadStore,
      Service!PreflightArrives, Service!PreflightDecides, Service!BytesArrive,
      Service!FileUnreadable, Service!ScanDecides, Service!NativeResolves, Service!HealthArrives,
      Service!HealthDecides, Service!HealthResolves, Service!BeginsLoad, Service!history,
      Service!stores
<1>5. IsUndecided' => inForce' \subseteq regime'
  <2>1. CASE ~IsStarted
    BY <2>1, <1>3, TrackedStep DEF Coupled, worker
  <2>2. CASE IsStarted
    <3>1. IsUndecided' => IsUndecided
      BY <1>1, <2>2, TrackedStep DEF GoesOn, IsUndecided
    <3> QED
      BY <1>2, <1>3, <1>4, <3>1 DEF Remembered
  <2> QED
    BY <2>1, <2>2
<1>6. ASSUME Passed', HasSecret', ~torn'
      PROVE  \E p \in regime' : Releases(p)'
  <2>1. IsStarted
    BY <1>1, <1>6, TrackedStep DEF IsBegun, Passed
  <2>2. HasSecret
    BY <1>1, <1>6, <2>1
  <2>3. ~torn
    BY <1>2, <1>6
  <2>4. CASE Passed
    BY <1>1, <1>2, <1>3, <2>2, <2>3, <2>4 DEF Remembered
  <2>5. CASE ~Passed
    <3>1. LetThrough
      BY <1>1, <1>6, <2>1, <2>5, TrackedStep DEF GoesOn, Passed
    <3>2. Cardinality(moved) < 2
      <4>1. Cardinality(moved) # 2
        BY <1>3, <2>3 DEF Remembered
      <4>2. moved \subseteq {"local", "managed"}
        BY DEF IInv, Worker!IInv, Worker!TypeOK
      <4> QED
        BY <4>1, <4>2, AtMostTwoMove
    <3>3. policy \in inForce
      <4>1. Worker!DecidedByAPolicyInForce
        BY DEF IInv, Worker!IInv
      <4>2. request.origin \in Origin /\ stage = "answered"
        BY <1>3, <3>1 DEF Coupled, LetThrough
      <4> QED
        BY <3>2, <4>1, <4>2 DEF Worker!DecidedByAPolicyInForce, Worker!Cardinality, Cardinality
    <3>4. policy \in regime /\ Releases(policy)
      BY <1>3, <2>2, <3>1, <3>3 DEF LetThrough, Remembered, PolicyIsTheReason
    <3> QED
      BY <1>1, <1>2, <3>4
  <2> QED
    BY <2>4, <2>5
<1> QED
  BY <1>2, <1>5, <1>6 DEF Remembered

LEMMA NextReachedIfPassed ==
  ASSUME IInv, Next
  PROVE  ReachedIfPassed'
<1>1. tracked' = tracked
  BY NextFacts
<1>2. CASE IsStarted
  <2>1. Passed => Passed'
    BY <1>1, <1>2, TrackedStep DEF GoesOn, Passed
  <2> QED
    BY <1>1, <1>2, <2>1, TrackedStep DEF GoesOn, IInv, ReachedIfPassed
<1>3. CASE ~IsStarted
  BY <1>1, <1>3, TrackedStep DEF IsBegun, ReachedIfPassed
<1> QED
  BY <1>2, <1>3
-----------------------------------------------------------------------------
(* The results *)

LEMMA NextInvariant == IInv /\ [Next]_vars => IInv'
<1> SUFFICES ASSUME IInv, [Next]_vars PROVE IInv'
  OBVIOUS
<1>1. CASE Next
  BY <1>1, PartsKeep, NextInDocument, NextCoupled, NextPolicyIsTheReason, NextRemembered, NextReachedIfPassed
  DEF IInv
<1>2. CASE UNCHANGED vars
  <2>1. Script!IInv'
    <3>1. UNCHANGED Script!vars
      BY <1>2 DEF vars, contentScript, Script!vars
    <3> QED
      BY <3>1, ScriptKeeps DEF IInv
  <2>2. Worker!IInv'
    <3>1. UNCHANGED Worker!vars
      BY <1>2 DEF vars, worker, Worker!vars, Worker!stores, Worker!loading, Worker!history
    <3> QED
      BY <3>1, WorkerKeeps DEF IInv
  <2>3. InDocument' /\ Coupled' /\ PolicyIsTheReason' /\ Remembered' /\ ReachedIfPassed'
    BY <1>2
    DEF IInv, InDocument, vars, contentScript, worker, Coupled, PolicyIsTheReason, Remembered, ReachedIfPassed,
        Passed, HasSecret, IsStarted, IsUndecided, Requesting, Releases, originIsProtected
  <2> QED
    BY <2>1, <2>2, <2>3 DEF IInv
<1> QED
  BY <1>1, <1>2

LEMMA AlwaysInvariant == Spec => []IInv
<1> QED
  BY InitInvariant, NextInvariant, PTL DEF Spec

\* The page finds a file with a secret in an input only if a policy in force since the user's
\* choice releases it unscanned: the scan, its policy and the page's operations cannot be made to
\* disagree by any order of gestures, answers, deadlines and changes of the policy
\* (scanService.ts:36-69, uploadGuard.ts:58-85,141-175).
THEOREM SecretAlwaysStaysOut == Spec => []SecretStaysOut
<1>1. IInv => SecretStaysOut
  BY DEF IInv, Remembered, ReachedIfPassed, Passed, HasSecret, SecretStaysOut, IsStarted
<1> QED
  BY <1>1, AlwaysInvariant, PTL

\* The worker answers a message of the content script with what the content script is typed to
\* expect of it (bridge/protocol.ts:32-46, scanService.ts:36-69).
THEOREM WorkerAlwaysAsSupposed == Spec => []WorkerIsAsSupposed
<1>1. IInv => WorkerIsAsSupposed
  BY AnswerFacts DEF IInv, Coupled, WorkerIsAsSupposed
<1> QED
  BY <1>1, AlwaysInvariant, PTL

\* Seen from the page, the content script with this worker does what UploadGuard lets it do with
\* any worker, so that whatever is proved of UploadGuard holds here (uploadGuard.ts).
THEOREM ContentScriptIsUploadGuard == Spec => Guard!Spec
<1>1. Init => Guard!Init
  BY DEF Init
<1>2. IInv /\ [Next]_vars => [Guard!Next]_(Guard!vars)
  BY GuardStep DEF vars, contentScript, Guard!vars
<1> QED
  BY <1>1, <1>2, AlwaysInvariant, PTL DEF Spec, Guard!Spec

\* And the worker with this content script does what ScanService lets it do with any
\* (scanService.ts:36-69).
THEOREM WorkerIsScanService == Spec => Service!Init /\ [][Service!Next]_(Service!vars)
<1>1. Init => Service!Init
  BY DEF Init
<1>2. [Next]_vars => [Service!Next]_(Service!vars)
  BY ServiceStep
  DEF vars, worker, Service!vars, Service!stores, Service!loading, Service!history
<1> QED
  BY <1>1, <1>2, PTL DEF Spec
=============================================================================
