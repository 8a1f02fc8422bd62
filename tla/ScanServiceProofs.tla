-------------------------- MODULE ScanServiceProofs --------------------------
(***************************************************************************)
(* Proofs about GuardPolicy and ScanService for every set of origins,      *)
(* candidates and file sizes and any number of changes of the stores.      *)
(***************************************************************************)
EXTENDS ScanService, FiniteSetTheorems, TLAPS

(* The policy *)

Key == {"onUnavailable", "onTooLarge", "maxFileBytes", "protectedOrigins"}

\* The values a key may have.
ValueOf(key) ==
  CASE key \in {"onUnavailable", "onTooLarge"} -> FailureAction
    [] key = "maxFileBytes"                    -> 1..MAX_FILE_BYTES
    [] key = "protectedOrigins"                -> (SUBSET Origin) \ {{}}

\* A policy is a function that gives each key one of its values.
LEMMA PolicyByKeys ==
  ASSUME NEW p
  PROVE  p \in Policy <=> /\ p = [key \in Key |-> p[key]]
                          /\ \A key \in Key : p[key] \in ValueOf(key)
<1>1. ASSUME p \in Policy
      PROVE  p = [key \in Key |-> p[key]] /\ \A key \in Key : p[key] \in ValueOf(key)
  BY <1>1 DEF Policy, Key, ValueOf
<1>2. ASSUME p = [key \in Key |-> p[key]], \A key \in Key : p[key] \in ValueOf(key)
      PROVE  p \in Policy
  <2>1. /\ p.onUnavailable \in FailureAction /\ p.onTooLarge \in FailureAction
        /\ p.maxFileBytes \in 1..MAX_FILE_BYTES
        /\ p.protectedOrigins \in (SUBSET Origin) \ {{}}
    BY <1>2 DEF Key, ValueOf
  <2>2. p = [onUnavailable |-> p.onUnavailable, onTooLarge |-> p.onTooLarge,
             maxFileBytes |-> p.maxFileBytes, protectedOrigins |-> p.protectedOrigins]
    BY <1>2 DEF Key
  <2> QED
    BY <2>1, <2>2 DEF Policy
<1> QED
  BY <1>1, <1>2

\* The built-in policy is one (policy.ts:40-46).
LEMMA DefaultIsPolicy == DEFAULT_GUARD_POLICY \in Policy
<1>1. Origin \in (SUBSET Origin) \ {{}}
  BY PolicyAssumption
<1>2. MAX_FILE_BYTES \in 1..MAX_FILE_BYTES
  BY PolicyAssumption
<1> QED
  BY <1>1, <1>2 DEF DEFAULT_GUARD_POLICY, Policy, FailureAction

\* What a valid candidate is, by its keys (policy.ts:79-129).
LEMMA ValidByKeys ==
  ASSUME NEW candidate, candidate # Undefined
  PROVE  IsValid(candidate) <=> /\ DOMAIN candidate \subseteq Key
                                /\ \A key \in DOMAIN candidate : candidate[key] \in ValueOf(key)
<1> DEFINE Set(key) == [DEFAULT_GUARD_POLICY EXCEPT ![key] = candidate[key]]
<1>1. DOMAIN DEFAULT_GUARD_POLICY = Key
  BY DEF DEFAULT_GUARD_POLICY, Key
<1>2. \A key \in Key : DEFAULT_GUARD_POLICY[key] \in ValueOf(key)
  BY DefaultIsPolicy, PolicyByKeys
<1>3. \A key \in Key : /\ Set(key) = [k \in Key |-> Set(key)[k]]
                        /\ Set(key)[key] = candidate[key]
                        /\ \A k \in Key \ {key} : Set(key)[k] = DEFAULT_GUARD_POLICY[k]
  BY <1>1
<1>4. \A key \in Key : Set(key) \in Policy <=> candidate[key] \in ValueOf(key)
  <2> SUFFICES ASSUME NEW key \in Key
               PROVE  Set(key) \in Policy <=> candidate[key] \in ValueOf(key)
    OBVIOUS
  <2> HIDE DEF Set
  <2>1. Set(key) \in Policy <=> \A k \in Key : Set(key)[k] \in ValueOf(k)
    BY <1>3, PolicyByKeys
  <2> QED
    BY <1>2, <1>3, <2>1
<1> QED
  BY <1>1, <1>4 DEF IsValid

\* Overriding a policy either gives a policy with the candidate's keys, or is refused as a whole.
LEMMA OverrideByKeys ==
  ASSUME NEW candidate, NEW base \in Policy
  PROVE  LET overridden == OrElse(applyGuardPolicyOverride(candidate, base), base) IN
           overridden = [key \in Key |-> IF IsValid(candidate) /\ Sets(candidate, key)
                                        THEN candidate[key] ELSE base[key]]
<1> DEFINE merged == Merged(candidate, base)
<1>1. DOMAIN base = Key /\ base = [key \in Key |-> base[key]]
      /\ \A key \in Key : base[key] \in ValueOf(key)
  BY PolicyByKeys
<1>2. CASE candidate = Undefined
  BY <1>1, <1>2, InvalidAssumption DEF applyGuardPolicyOverride, OrElse, IsValid
<1>3. CASE candidate # Undefined
  <2>1. merged \in Policy <=> IsValid(candidate)
    <3>1. DOMAIN merged = Key \cup DOMAIN candidate
      BY <1>1 DEF Merged
    <3>2. \A key \in Key : merged[key] = IF Sets(candidate, key) THEN candidate[key] ELSE base[key]
      BY <1>1 DEF Merged
    <3>3. ASSUME merged \in Policy PROVE IsValid(candidate)
      <4> HIDE DEF merged
      <4>1. DOMAIN merged = Key /\ \A key \in Key : merged[key] \in ValueOf(key)
        BY <3>3, PolicyByKeys
      <4> QED
        BY <3>1, <3>2, <4>1, <1>3, ValidByKeys DEF Sets
    <3>4. ASSUME IsValid(candidate) PROVE merged \in Policy
      <4>1. DOMAIN candidate \subseteq Key /\ \A key \in DOMAIN candidate : candidate[key] \in ValueOf(key)
        BY <3>4, <1>3, ValidByKeys
      <4>2. Key \cup DOMAIN candidate = Key
        BY <4>1
      <4>3. merged = [key \in Key |-> merged[key]]
        BY <1>1, <4>2 DEF Merged
      <4>4. \A key \in Key : merged[key] \in ValueOf(key)
        BY <1>1, <3>2, <4>1 DEF Sets
      <4> HIDE DEF merged
      <4> QED
        BY <4>3, <4>4, PolicyByKeys
    <3> QED
      BY <3>3, <3>4
  <2>2. ASSUME IsValid(candidate)
        PROVE  merged = [key \in Key |-> IF Sets(candidate, key) THEN candidate[key] ELSE base[key]]
    <3>1. Key \cup DOMAIN candidate = Key
      BY <2>2, <1>3, ValidByKeys
    <3> QED
      BY <1>1, <3>1 DEF Merged
  <2>3. CASE IsValid(candidate)
    BY <2>1, <2>2, <2>3, <1>3, InvalidAssumption DEF applyGuardPolicyOverride, OrElse
  <2>4. CASE ~IsValid(candidate)
    BY <2>1, <2>4, <1>1, <1>3, InvalidAssumption DEF applyGuardPolicyOverride, OrElse
  <2> QED
    BY <2>3, <2>4
<1> QED
  BY <1>2, <1>3

\* So it gives a policy in any case.
LEMMA OverrideIsPolicy ==
  ASSUME NEW candidate, NEW base \in Policy
  PROVE  OrElse(applyGuardPolicyOverride(candidate, base), base) \in Policy
  BY InvalidAssumption DEF applyGuardPolicyOverride, OrElse

\* What is loaded from the two stores is the policy that the documented precedence puts in force:
\* the managed candidate wins, each candidate counts as a whole or not at all, and what
\* neither sets is built in (policyStore.ts:20-30, policy.ts:79-129).
THEOREM LoadedIsInForce ==
  ASSUME NEW l, NEW m
  PROVE  LoadedPolicy(l, m) = InForce(l, m) /\ InForce(l, m) \in Policy
<1> DEFINE first == OrElse(applyGuardPolicyOverride(l, DEFAULT_GUARD_POLICY), DEFAULT_GUARD_POLICY)
           second == OrElse(applyGuardPolicyOverride(m, first), first)
<1>1. first \in Policy
  BY DefaultIsPolicy, OverrideIsPolicy
<1>2. first = [key \in Key |-> IF IsValid(l) /\ Sets(l, key) THEN l[key]
                               ELSE DEFAULT_GUARD_POLICY[key]]
  BY DefaultIsPolicy, OverrideByKeys
<1> HIDE DEF first
<1>3. second \in Policy
  BY <1>1, OverrideIsPolicy
<1>4. second = [key \in Key |-> IF IsValid(m) /\ Sets(m, key) THEN m[key] ELSE first[key]]
  BY <1>1, OverrideByKeys
<1>5. LoadedPolicy(l, m) = second
  BY DEF LoadedPolicy, first
<1> HIDE DEF second
<1>6. InForce(l, m) = second
  BY <1>2, <1>4 DEF InForce, DEFAULT_GUARD_POLICY, Key
<1> QED
  BY <1>3, <1>5, <1>6
-----------------------------------------------------------------------------
(* The inductive invariant *)

\* Each message has its own stages, and the worker holds the bytes during the second.
Stages ==
  /\ stage \in {"preflight", "reading", "scan", "native"} => request.kind = "upload"
  /\ stage \in {"health", "probing"} => request.kind = "health"
  /\ bytes = "held" <=> stage \in {"scan", "native"}

\* What has been read is what is in the store, unless the store has changed since, and with
\* either store unchanged the policy of what is known of both has been in force.
ReadsAreInForce ==
  Loading =>
    /\ InForce(local, managed) \in inForce
    /\ "local" \notin moved =>
         /\ readLocal # Unread => readLocal = local
         /\ readManaged # Unread => InForce(local, readManaged) \in inForce
    /\ "managed" \notin moved =>
         /\ readManaged # Unread => readManaged = managed
         /\ readLocal # Unread => InForce(readLocal, managed) \in inForce

IInv == TypeOK /\ Stages /\ ReadsAreInForce /\ DecidedByAPolicyInForce /\ AskedWithinBounds

\* Two stores have not both moved if fewer than two have.
LEMMA OneHasNotMoved ==
  ASSUME moved \subseteq {"local", "managed"}, Cardinality(moved) < 2
  PROVE  "local" \notin moved \/ "managed" \notin moved
<1>1. Cardinality({"local", "managed"}) = 2
  <2>1. {"managed"} = {} \cup {"managed"}
    OBVIOUS
  <2>2. Cardinality({"managed"}) = 1 /\ IsFiniteSet({"managed"})
    BY FS_Singleton
  <2>3. "local" \notin {"managed"} /\ {"local", "managed"} = {"managed"} \cup {"local"}
    OBVIOUS
  <2> QED
    BY <2>2, <2>3, FS_AddElement
<1>2. ASSUME "local" \in moved, "managed" \in moved PROVE FALSE
  <2>1. moved = {"local", "managed"}
    BY <1>2
  <2> QED
    BY <1>1, <2>1
<1> QED
  BY <1>2

\* A load that ends with at most one store moved has loaded a policy in force.
LEMMA LoadedHasBeenInForce ==
  ASSUME TypeOK, ReadsAreInForce, HasRead
  PROVE  Loaded \in Policy /\ (Cardinality(moved) < 2 => Loaded \in inForce)
<1>1. Loaded = InForce(readLocal, readManaged) /\ Loaded \in Policy
  BY LoadedIsInForce DEF Loaded
<1>2. ASSUME Cardinality(moved) < 2 PROVE InForce(readLocal, readManaged) \in inForce
  BY <1>2, OneHasNotMoved DEF TypeOK, ReadsAreInForce, HasRead
<1> QED
  BY <1>1, <1>2

\* An outcome comes to a result the content script knows.
LEMMA ResolvedIsResult ==
  ASSUME NEW p \in Policy, NEW outcome,
         \/ \E decision \in FailureAction : outcome = Verdict(decision)
         \/ \E reason \in FailureReason : outcome = Unavailable(reason)
  PROVE  resolveScanOutcome(outcome, p) \in ScanFileResult
<1>1. p.onUnavailable \in FailureAction /\ p.onTooLarge \in FailureAction
  BY DEF Policy
<1> QED
  BY <1>1 DEF Verdict, Unavailable, resolveScanOutcome, Result, ScanFileResult

LEMMA InitInvariant == Init => IInv
<1> SUFFICES ASSUME Init PROVE IInv
  OBVIOUS
<1>1. TypeOK
  BY DefaultIsPolicy, ServiceAssumption DEF Init, TypeOK
<1> QED
  BY <1>1 DEF Init, IInv, Stages, ReadsAreInForce, Loading, DecidedByAPolicyInForce,
              AskedWithinBounds
-----------------------------------------------------------------------------
(* The steps *)

\* A change of a store.
LEMMA ChangeKeepsInvariant ==
  ASSUME IInv, Change("local") \/ Change("managed")
  PROVE  IInv'
<1> USE DEF IInv
<1>1. changes' \in 0..MaxChanges
  BY ServiceAssumption DEF Change, TypeOK
<1>2. local' \in Candidate /\ managed' \in Candidate
  BY DEF Change, TypeOK
<1>3. inForce' \subseteq Policy /\ moved' \subseteq {"local", "managed"}
  BY LoadedIsInForce DEF Change, TypeOK, history
<1>4. TypeOK'
  BY <1>1, <1>2, <1>3 DEF Change, TypeOK, loading
<1>5. ReadsAreInForce'
  <2>1. CASE Loading /\ Change("local")
    BY <2>1 DEF ReadsAreInForce, Change, Loading, loading
  <2>2. CASE Loading /\ Change("managed")
    BY <2>2 DEF ReadsAreInForce, Change, Loading, loading
  <2> QED
    BY <2>1, <2>2 DEF ReadsAreInForce, Change, Loading
<1>6. DecidedByAPolicyInForce'
  BY DEF Change, Loading, DecidedByAPolicyInForce, history
<1> QED
  BY <1>4, <1>5, <1>6 DEF Change, Stages, AskedWithinBounds

\* A read, or a message that begins a load.
LEMMA LoadKeepsInvariant ==
  ASSUME IInv,
         \/ ReadStore("local") \/ ReadStore("managed")
         \/ PreflightArrives \/ BytesArrive \/ HealthArrives
  PROVE  IInv'
<1> USE DEF IInv
<1>1. CASE ReadStore("local")
  <2>1. TypeOK'
    BY <1>1, ServiceAssumption DEF ReadStore, TypeOK, stores
  <2>2. ReadsAreInForce'
    BY <1>1 DEF ReadStore, TypeOK, ReadsAreInForce, Loading, stores
  <2> QED
    BY <1>1, <2>1, <2>2 DEF ReadStore, Loading, Stages, DecidedByAPolicyInForce, AskedWithinBounds
<1>2. CASE ReadStore("managed")
  <2>1. TypeOK'
    BY <1>2, ServiceAssumption DEF ReadStore, TypeOK, stores
  <2>2. ReadsAreInForce'
    BY <1>2 DEF ReadStore, TypeOK, ReadsAreInForce, Loading, stores
  <2> QED
    BY <1>2, <2>1, <2>2 DEF ReadStore, Loading, Stages, DecidedByAPolicyInForce, AskedWithinBounds
<1>3. ASSUME BeginsLoad, UNCHANGED <<stores, request, policy>>, answer' = answer,
             \/ stage' = "preflight" /\ stage = "sent" /\ request.kind = "upload" /\ bytes' = bytes
             \/ stage' = "scan" /\ stage = "reading" /\ bytes' = "held"
             \/ stage' = "health" /\ stage = "sent" /\ request.kind = "health" /\ bytes' = bytes
      PROVE  IInv'
  <2>1. TypeOK'
    BY <1>3, LoadedIsInForce DEF BeginsLoad, TypeOK, stores
  <2>2. ReadsAreInForce'
    BY <1>3 DEF BeginsLoad, ReadsAreInForce, stores
  <2> QED
    BY <1>3, <2>1, <2>2 DEF Stages, DecidedByAPolicyInForce, AskedWithinBounds
<1>4. CASE PreflightArrives /\ request.origin \notin Origin
  <2>1. denied \in ScanFileResult /\ denied # None
    BY AnswerAssumption DEF denied, Result, ScanFileResult, FailureAction, FailureReason
  <2>2. TypeOK'
    BY <1>4, <2>1 DEF PreflightArrives, Answers, TypeOK, stores, loading, history
  <2> QED
    BY <1>4, <2>2 DEF PreflightArrives, Answers, Stages, ReadsAreInForce, Loading,
                      DecidedByAPolicyInForce, AskedWithinBounds, stores
<1> QED
  BY <1>1, <1>2, <1>3, <1>4 DEF PreflightArrives, BytesArrive, HealthArrives

\* An answer, by a policy that has been in force.
LEMMA AnswerKeepsInvariant ==
  ASSUME IInv, stage' = "answered", UNCHANGED <<stores, request, history>>,
         answer' \in IF request.kind = "health" THEN GuardHealthResult ELSE ScanFileResult,
         Overwrites, policy' \in Policy,
         \/ policy' = policy /\ stage \in {"reading", "native", "probing"}
         \/ Cardinality(moved) < 2 => policy' \in inForce,
         EndsLoad \/ UNCHANGED loading
  PROVE  IInv'
<1>1. TypeOK'
  BY AnswerAssumption DEF IInv, TypeOK, stores, history, loading, EndsLoad, Overwrites
<1> QED
  BY <1>1 DEF IInv, Stages, ReadsAreInForce, Loading, DecidedByAPolicyInForce, AskedWithinBounds,
              stores, history, Overwrites

\* A handler goes on under the policy it has loaded.
LEMMA DecisionKeepsInvariant ==
  ASSUME IInv, HasRead, policy' = Loaded, EndsLoad,
         UNCHANGED <<stores, request, history, bytes, answer>>,
         \/ stage = "preflight" /\ stage' = "reading"
         \/ stage = "scan" /\ stage' = "native" /\ ~(request.size > Loaded.maxFileBytes)
         \/ stage = "health" /\ stage' = "probing"
  PROVE  IInv'
<1>1. Loaded \in Policy /\ (Cardinality(moved) < 2 => Loaded \in inForce)
  BY LoadedHasBeenInForce DEF IInv
<1>2. TypeOK'
  BY <1>1 DEF IInv, TypeOK, stores, history, EndsLoad
<1>3. AskedWithinBounds'
  <2>1. request.size \in Nat
    <3>1. request.size \in FileSize \/ request.size = 0
      BY DEF IInv, TypeOK, Request
    <3>2. FileSize \subseteq Nat
      BY ServiceAssumption
    <3>3. CASE request.size \in FileSize
      BY <3>2, <3>3
    <3>4. CASE request.size = 0
      BY <3>4
    <3> QED
      BY <3>1, <3>3, <3>4
  <2>2. Loaded.maxFileBytes \in 1..MAX_FILE_BYTES
    BY <1>1 DEF Policy
  <2> QED
    BY <2>1, <2>2, PolicyAssumption DEF AskedWithinBounds
<1> QED
  BY <1>1, <1>2, <1>3 DEF IInv, Stages, ReadsAreInForce, Loading, DecidedByAPolicyInForce,
                          stores, history

LEMMA NextInvariant == IInv /\ [Next]_vars => IInv'
<1> SUFFICES ASSUME IInv, [Next]_vars PROVE IInv'
  OBVIOUS
<1>1. ASSUME HasRead
      PROVE  Loaded \in Policy /\ (Cardinality(moved) < 2 => Loaded \in inForce)
  BY <1>1, LoadedHasBeenInForce DEF IInv
<1>2. Result("allow", "unprotected") \in ScanFileResult
  BY DEF ScanFileResult
<1>3. ASSUME HasRead
      PROVE  resolveScanOutcome(Unavailable("too_large"), Loaded) \in ScanFileResult
  BY <1>1, <1>3, ResolvedIsResult DEF FailureReason
<1>4. CASE PreflightDecides
  <2>1. request.kind = "upload" /\ bytes # "held"
    BY <1>4 DEF PreflightDecides, IInv, Stages
  <2>2. CASE stage' = "reading"
    BY <1>4, <2>2, DecisionKeepsInvariant DEF PreflightDecides, Answers
  <2>3. CASE stage' = "answered"
    BY <1>1, <1>2, <1>3, <1>4, <2>1, <2>3, AnswerKeepsInvariant
    DEF PreflightDecides, Answers, Overwrites
  <2> QED
    BY <1>4, <2>2, <2>3 DEF PreflightDecides, Answers
<1>5. CASE FileUnreadable
  <2>1. request.kind = "upload" /\ bytes # "held" /\ policy \in Policy
    BY <1>5 DEF FileUnreadable, IInv, Stages, TypeOK
  <2>2. Result("block", "host_unavailable") \in ScanFileResult
    BY DEF Result, ScanFileResult, FailureAction, FailureReason, NativeFailure
  <2> QED
    BY <1>5, <2>1, <2>2, AnswerKeepsInvariant DEF FileUnreadable, Answers, Overwrites
<1>6. CASE ScanDecides
  <2>1. request.kind = "upload"
    BY <1>6 DEF ScanDecides, IInv, Stages
  <2>2. CASE stage' = "native"
    BY <1>6, <2>2, DecisionKeepsInvariant DEF ScanDecides, Answers
  <2>3. CASE stage' = "answered"
    BY <1>1, <1>2, <1>3, <1>6, <2>1, <2>3, AnswerKeepsInvariant DEF ScanDecides, Answers
  <2> QED
    BY <1>6, <2>2, <2>3 DEF ScanDecides, Answers
<1>7. CASE NativeResolves
  <2>1. request.kind = "upload" /\ policy \in Policy
    BY <1>7 DEF NativeResolves, IInv, Stages, TypeOK
  <2>2. answer' \in ScanFileResult
    BY <1>7, <2>1, ResolvedIsResult DEF NativeResolves, Answers, FailureAction, FailureReason
  <2> QED
    BY <1>7, <2>1, <2>2, AnswerKeepsInvariant DEF NativeResolves, Answers
<1>8. CASE HealthDecides
  <2>1. request.kind = "health" /\ bytes # "held"
    BY <1>8 DEF HealthDecides, IInv, Stages
  <2>2. CASE stage' = "probing"
    BY <1>8, <2>2, DecisionKeepsInvariant DEF HealthDecides, Answers
  <2>3. CASE stage' = "answered"
    <3>1. answer' \in GuardHealthResult
      <4>1. answer' = [available |-> FALSE, protected |-> FALSE]
        BY <1>8, <2>3 DEF HealthDecides, Answers
      <4> QED
        BY <4>1 DEF GuardHealthResult
    <3> QED
      BY <1>1, <1>8, <2>1, <2>3, <3>1, AnswerKeepsInvariant DEF HealthDecides, Overwrites
  <2> QED
    BY <1>8, <2>2, <2>3 DEF HealthDecides, Answers
<1>9. CASE HealthResolves
  <2>1. request.kind = "health" /\ bytes # "held" /\ policy \in Policy
    BY <1>9 DEF HealthResolves, IInv, Stages, TypeOK
  <2>2. answer' \in GuardHealthResult
    BY <1>9 DEF HealthResolves, Answers, GuardHealthResult
  <2> QED
    BY <1>9, <2>1, <2>2, AnswerKeepsInvariant DEF HealthResolves, Answers, Overwrites
<1>10. CASE UNCHANGED vars
  BY <1>10 DEF vars, stores, loading, history, IInv, TypeOK, Stages, ReadsAreInForce, Loading,
               DecidedByAPolicyInForce, AskedWithinBounds
<1> QED
  BY <1>4, <1>5, <1>6, <1>7, <1>8, <1>9, <1>10, ChangeKeepsInvariant, LoadKeepsInvariant
  DEF Next, WorkerStep
-----------------------------------------------------------------------------
\* The worker's state has its types (scanService.ts, background.ts).
THEOREM ServiceTypeCorrect == Spec => []TypeOK
<1>1. IInv => TypeOK
  BY DEF IInv
<1> QED
  BY <1>1, InitInvariant, NextInvariant, PTL DEF Spec

\* A decision is by a policy that was in force since its load began, unless both stores have
\* changed during it or a read has failed (policyStore.ts:22-30, scanService.ts:43-56).
THEOREM PolicyWasInForce == Spec => []DecidedByAPolicyInForce
<1>1. IInv => DecidedByAPolicyInForce
  BY DEF IInv
<1> QED
  BY <1>1, InitInvariant, NextInvariant, PTL DEF Spec

\* The native host is never asked about a file the daemon would refuse for its size
\* (scanService.ts:61-66, policy.ts:79-129).
THEOREM AlwaysAskedWithinBounds == Spec => []AskedWithinBounds
<1>1. IInv => AskedWithinBounds
  BY DEF IInv
<1> QED
  BY <1>1, InitInvariant, NextInvariant, PTL DEF Spec

\* An answer is given only when the worker's copy of the bytes is overwritten
\* (scanService.ts:59-68).
THEOREM OverwrittenWhenAnswered == Spec => [](answer # None => bytes # "held")
<1>1. IInv => (answer # None => bytes # "held")
  BY DEF IInv, TypeOK, Stages
<1> QED
  BY <1>1, InitInvariant, NextInvariant, PTL DEF Spec
=============================================================================
