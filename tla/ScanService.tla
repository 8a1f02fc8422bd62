----------------------------- MODULE ScanService -----------------------------
(***************************************************************************)
(* The background worker's part in one upload, or in a page's one question *)
(* whether it is protected: preflightScan and scanFile of                  *)
(* bridge/scanService.ts and the health handler of                         *)
(* entrypoints/background.ts, each with its own load of the policy from    *)
(* two stores (bridge/policyStore.ts), while an administrator and a        *)
(* developer change what the stores hold.  The two reads of a load, and    *)
(* the wait for the native host, are points where the stores may change.   *)
(***************************************************************************)
EXTENDS GuardPolicy, FiniteSets

CONSTANTS
  FileSize,     \* the sizes of the files chosen
  Candidate,    \* what a store may hold
  Foreign,      \* an origin outside SUPPORTED_ORIGINS
  Unread,       \* a store the current load has not read yet
  None,         \* no answer yet
  MaxChanges    \* bound on the changes made to the stores

ASSUME ServiceAssumption ==
  /\ Undefined \in Candidate /\ Unread \notin Candidate /\ Foreign \notin Origin
  /\ FileSize \subseteq Nat /\ MaxChanges \in Nat

VARIABLES
  local, managed,   \* the two stores
  changes,          \* the changes made so far
  request,          \* an upload, with its origin and the size of its file, or a health check
  stage,            \* what the request is waiting for
  readLocal, readManaged,   \* the candidates the current load has read
  policy,           \* the policy a handler holds while the native host works
  answer,           \* the result given to the content script
  bytes,            \* the worker's copy of the file: "none", "held" or "overwritten"
  inForce,          \* the policies in force since the current load began (history)
  moved             \* the stores that changed or failed during it (history)

stores == <<local, managed, changes>>
loading == <<readLocal, readManaged>>
history == <<inForce, moved>>
vars == <<stores, request, stage, loading, policy, answer, bytes, history>>
-----------------------------------------------------------------------------
Request ==
  [kind: {"upload"}, origin: Origin \cup {Foreign}, size: FileSize]
    \cup [kind: {"health"}, origin: Origin \cup {Foreign}, size: {0}]
NativeFailure == {"host_unavailable", "host_disconnected", "timeout", "protocol_mismatch"}
FailureReason == NativeFailure \cup {"invalid_request", "invalid_response", "too_large"}
ScanFileResult == [decision: FailureAction, by: FailureReason \cup {"scanner"}]
                    \cup {Result("allow", "unprotected")}
GuardHealthResult == [available: BOOLEAN, protected: BOOLEAN]

ASSUME AnswerAssumption == None \notin ScanFileResult \cup GuardHealthResult

denied == Result("block", "invalid_request")

\* A message arrives and its handler begins to load the policy.
BeginsLoad ==
  /\ readLocal' = Unread /\ readManaged' = Unread
  /\ inForce' = {InForce(local, managed)} /\ moved' = {}

Init ==
  /\ local \in Candidate /\ managed \in Candidate /\ changes = 0
  /\ request \in Request /\ stage = "sent"
  /\ readLocal = Unread /\ readManaged = Unread /\ policy = DEFAULT_GUARD_POLICY
  /\ answer = None /\ bytes = "none"
  /\ inForce = {} /\ moved = {}

Answers(result) == stage' = "answered" /\ answer' = result

\* scanFile's finally.
Overwrites == bytes' = IF bytes = "held" THEN "overwritten" ELSE bytes
-----------------------------------------------------------------------------
(* The stores *)

Loading == stage \in {"preflight", "scan", "health"}

Change(store) ==
  /\ changes < MaxChanges /\ changes' = changes + 1
  /\ CASE store = "local"   -> local' \in Candidate /\ UNCHANGED managed
       [] store = "managed" -> managed' \in Candidate /\ UNCHANGED local
  /\ IF Loading THEN /\ inForce' = inForce \cup {InForce(local', managed')}
                     /\ moved' = moved \cup {store}
     ELSE UNCHANGED history
  /\ UNCHANGED <<request, stage, loading, policy, answer, bytes>>

\* One of the two reads; a read that fails counts as finding nothing.
ReadStore(store) ==
  /\ Loading
  /\ \/ /\ store = "local" /\ readLocal = Unread
        /\ readLocal' \in {local, Undefined} /\ UNCHANGED readManaged
        /\ moved' = IF readLocal' = local THEN moved ELSE moved \cup {"local", "managed"}
     \/ /\ store = "managed" /\ readManaged = Unread
        /\ readManaged' \in {managed, Undefined} /\ UNCHANGED readLocal
        /\ moved' = IF readManaged' = managed THEN moved ELSE moved \cup {"local", "managed"}
  /\ UNCHANGED <<stores, request, stage, policy, answer, bytes, inForce>>

HasRead == Loading /\ readLocal # Unread /\ readManaged # Unread
Loaded == LoadedPolicy(readLocal, readManaged)
EndsLoad == readLocal' = Unread /\ readManaged' = Unread
-----------------------------------------------------------------------------
(* The two messages *)

\* preflightScan, up to its load: only the build-time origins go on.
PreflightArrives ==
  /\ stage = "sent" /\ request.kind = "upload"
  /\ IF request.origin \in Origin
     THEN stage' = "preflight" /\ BeginsLoad /\ UNCHANGED answer
     ELSE Answers(denied) /\ UNCHANGED <<loading, history>>
  /\ UNCHANGED <<stores, request, policy, bytes>>

\* A mistake for the mutation runs: nothing can be hidden in an empty file.
PreflightPassesEmpty ==
  /\ HasRead /\ stage = "preflight"
  /\ policy' = Loaded /\ EndsLoad
  /\ IF request.size = 0 THEN Answers(Result("allow", "scanner"))
     ELSE stage' = "reading" /\ UNCHANGED answer
  /\ UNCHANGED <<stores, request, bytes, history>>

\* preflightScan, after its load.
PreflightDecides ==
  /\ HasRead /\ stage = "preflight"
  /\ policy' = Loaded /\ EndsLoad
  /\ IF ~originIsProtected(request.origin, Loaded) THEN Answers(Result("allow", "unprotected"))
     ELSE IF request.size > Loaded.maxFileBytes
     THEN Answers(resolveScanOutcome(Unavailable("too_large"), Loaded))
     ELSE stage' = "reading" /\ UNCHANGED answer
  /\ UNCHANGED <<stores, request, bytes, history>>

\* The content script has read the file and sends it: scanFile begins with a load of its own.
BytesArrive ==
  /\ stage = "reading"
  /\ stage' = "scan" /\ bytes' = "held"
  /\ BeginsLoad
  /\ UNCHANGED <<stores, request, policy, answer>>

\* The content script cannot read it, and decides for itself.
FileUnreadable ==
  /\ stage = "reading"
  /\ Answers(Result("block", "host_unavailable"))
  /\ UNCHANGED <<stores, request, loading, policy, bytes, history>>

\* A mistake for the mutation runs: the preflight's policy is used again.
ScanReusesPreflight ==
  /\ HasRead /\ stage = "scan"
  /\ stage' = "native" /\ EndsLoad /\ UNCHANGED <<answer, bytes, policy>>
  /\ UNCHANGED <<stores, request, history>>

\* A mistake for the mutation runs: an early return outside of the try.
ScanReturnsEarly ==
  /\ HasRead /\ stage = "scan"
  /\ policy' = Loaded /\ EndsLoad
  /\ IF ~originIsProtected(request.origin, Loaded)
     THEN Answers(Result("allow", "unprotected")) /\ UNCHANGED bytes
     ELSE IF request.size > Loaded.maxFileBytes
     THEN Answers(resolveScanOutcome(Unavailable("too_large"), Loaded)) /\ Overwrites
     ELSE stage' = "native" /\ UNCHANGED <<answer, bytes>>
  /\ UNCHANGED <<stores, request, history>>

\* scanFile, after its load.
ScanDecides ==
  /\ HasRead /\ stage = "scan"
  /\ policy' = Loaded /\ EndsLoad
  /\ IF ~originIsProtected(request.origin, Loaded)
     THEN Answers(Result("allow", "unprotected")) /\ Overwrites
     ELSE IF request.size > Loaded.maxFileBytes
     THEN Answers(resolveScanOutcome(Unavailable("too_large"), Loaded)) /\ Overwrites
     ELSE stage' = "native" /\ UNCHANGED <<answer, bytes>>
  /\ UNCHANGED <<stores, request, history>>

\* scanWithNativeHost resolves (it always does: NativeScan): the policy loaded before applies.
NativeResolves ==
  /\ stage = "native"
  /\ \E outcome \in {Verdict("allow"), Verdict("block")}
                      \cup {Unavailable(reason) : reason \in NativeFailure} :
       Answers(resolveScanOutcome(outcome, policy))
  /\ Overwrites
  /\ UNCHANGED <<stores, request, loading, policy, history>>
-----------------------------------------------------------------------------
(* The health message *)

\* Its handler loads the policy whatever the origin.
HealthArrives ==
  /\ stage = "sent" /\ request.kind = "health"
  /\ stage' = "health" /\ BeginsLoad
  /\ UNCHANGED <<stores, request, policy, answer, bytes>>

HealthDecides ==
  /\ HasRead /\ stage = "health"
  /\ policy' = Loaded /\ EndsLoad
  /\ IF originIsProtected(request.origin, Loaded)
     THEN stage' = "probing" /\ UNCHANGED answer
     ELSE Answers([available |-> FALSE, protected |-> FALSE])
  /\ UNCHANGED <<stores, request, bytes, history>>

\* checkNativeHost resolves (it always does: NativeScan).
HealthResolves ==
  /\ stage = "probing"
  /\ \E available \in BOOLEAN : Answers([available |-> available, protected |-> TRUE])
  /\ UNCHANGED <<stores, request, loading, policy, bytes, history>>
-----------------------------------------------------------------------------
WorkerStep ==
  \/ PreflightArrives \/ PreflightDecides
  \/ BytesArrive \/ FileUnreadable
  \/ ScanDecides \/ NativeResolves
  \/ HealthArrives \/ HealthDecides \/ HealthResolves
  \/ ReadStore("local") \/ ReadStore("managed")

Next == WorkerStep \/ Change("local") \/ Change("managed")

\* Storage reads and the native call settle, and the content script goes on after a preflight.
Spec == Init /\ [][Next]_vars /\ WF_vars(WorkerStep)
-----------------------------------------------------------------------------
\* The state has its types.
TypeOK ==
  /\ local \in Candidate /\ managed \in Candidate /\ changes \in 0..MaxChanges
  /\ request \in Request
  /\ stage \in {"sent", "preflight", "reading", "scan", "native", "health", "probing", "answered"}
  /\ {readLocal, readManaged} \subseteq Candidate \cup {Unread}
  /\ policy \in Policy
  /\ answer \in {None} \cup IF request.kind = "health" THEN GuardHealthResult ELSE ScanFileResult
  /\ answer # None <=> stage = "answered"
  /\ bytes \in {"none", "held", "overwritten"}
  /\ inForce \subseteq Policy /\ moved \subseteq {"local", "managed"}

\* policyStore.ts:22-30, scanService.ts:43-44,56, background.ts:41: the policy a step decides by is one that was in
\* force, as the reference InForce defines it, at some moment since that step's own load
\* began, however the changes to a store fall between the two reads.  (If both stores change
\* within one load, or a read fails, the policy can be one that never was in force.)
DecidedByAPolicyInForce ==
  /\ request.origin \in Origin /\ stage \in {"reading", "native", "probing", "answered"}
  /\ Cardinality(moved) < 2
  => policy \in inForce

\* policy.ts:79-129, scanService.ts:61-66, session.rs:46-48: whatever the stores hold, the native
\* host is never asked about a file larger than the limit the daemon has too, so that the
\* daemon never refuses a scan for its size.
AskedWithinBounds == stage = "native" => request.size <= MAX_FILE_BYTES

\* scanService.ts:59-68: every request is answered, and by then no copy of the bytes is left as
\* it was in the worker.
AnsweredAndOverwritten == <>[](answer # None /\ bytes # "held")
=============================================================================
