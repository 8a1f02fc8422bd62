----------------------------- MODULE GuardPolicy -----------------------------
(***************************************************************************)
(* The guard's policy: bridge/policy.ts, and the precedence of the two     *)
(* stores in bridge/policyStore.ts.                                        *)
(*                                                                         *)
(* scanTimeoutMs only moves the moment a timer fires, so a policy has no   *)
(* such key here.  A candidate is a record of the keys it sets (an absent  *)
(* key and one that is null are the same to ??); one that is no object, or *)
(* has an invalid timeout, is a record with a key no policy has.           *)
(***************************************************************************)
EXTENDS Naturals

CONSTANTS
  Origin,          \* SUPPORTED_ORIGINS: the origins the content script runs on
  MAX_FILE_BYTES,
  Undefined,       \* no candidate in the store, or the store cannot be read
  Invalid          \* applyGuardPolicyOverride returned null

ASSUME PolicyAssumption ==
  Origin # {} /\ MAX_FILE_BYTES \in Nat \ {0}

FailureAction == {"allow", "block"}

Policy ==
  [onUnavailable: FailureAction, onTooLarge: FailureAction,
   maxFileBytes: 1..MAX_FILE_BYTES, protectedOrigins: (SUBSET Origin) \ {{}}]

ASSUME InvalidAssumption == Invalid \notin Policy

DEFAULT_GUARD_POLICY ==
  [onUnavailable |-> "block", onTooLarge |-> "block",
   maxFileBytes |-> MAX_FILE_BYTES, protectedOrigins |-> Origin]

Sets(candidate, key) == key \in DOMAIN candidate

\* The keys set by the candidate replace the base's.
Merged(candidate, base) ==
  [key \in DOMAIN base \cup DOMAIN candidate |->
     IF Sets(candidate, key) THEN candidate[key] ELSE base[key]]

\* A mistake for the mutation runs: the limit is not bounded by the build-time one.
ApplyUnbounded(candidate, base) ==
  IF candidate = Undefined THEN base
  ELSE IF [Merged(candidate, base) EXCEPT !.maxFileBytes = base.maxFileBytes] \in Policy
  THEN Merged(candidate, base)
  ELSE Invalid

\* All or nothing.
applyGuardPolicyOverride(candidate, base) ==
  IF candidate = Undefined THEN base
  ELSE IF Merged(candidate, base) \in Policy THEN Merged(candidate, base)
  ELSE Invalid

OrElse(policy, base) == IF policy = Invalid THEN base ELSE policy

\* loadGuardPolicy, once both stores have been read.
LoadedPolicy(local, managed) ==
  LET localPolicy == OrElse(applyGuardPolicyOverride(local, DEFAULT_GUARD_POLICY),
                            DEFAULT_GUARD_POLICY)
  IN  OrElse(applyGuardPolicyOverride(managed, localPolicy), localPolicy)

originIsProtected(origin, policy) == origin \in policy.protectedOrigins
-----------------------------------------------------------------------------
(* What a scan's outcome comes to under a policy *)

Unavailable(reason) == [kind |-> "unavailable", reason |-> reason]
Verdict(decision) == [kind |-> "verdict", decision |-> decision]

\* ScanFileResult, without the rule of a verdict.
Result(decision, by) == [decision |-> decision, by |-> by]

resolveScanOutcome(outcome, policy) ==
  IF outcome.kind = "verdict" THEN Result(outcome.decision, "scanner")
  ELSE Result(IF outcome.reason = "too_large" THEN policy.onTooLarge ELSE policy.onUnavailable,
              outcome.reason)
-----------------------------------------------------------------------------
(* The reference: each key by itself *)

\* Every key a candidate sets is one a policy has, with a value it could have.
IsValid(candidate) ==
  /\ candidate # Undefined
  /\ \A key \in DOMAIN candidate :
       /\ key \in DOMAIN DEFAULT_GUARD_POLICY
       /\ [DEFAULT_GUARD_POLICY EXCEPT ![key] = candidate[key]] \in Policy

\* policyStore.ts:21: "Managed policy wins over local development policy.  Invalid candidates
\* are ignored atomically."
InForce(local, managed) ==
  [key \in DOMAIN DEFAULT_GUARD_POLICY |->
     IF IsValid(managed) /\ Sets(managed, key) THEN managed[key]
     ELSE IF IsValid(local) /\ Sets(local, key) THEN local[key]
     ELSE DEFAULT_GUARD_POLICY[key]]
=============================================================================
