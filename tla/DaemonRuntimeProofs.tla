------------------------- MODULE DaemonRuntimeProofs -------------------------
(***************************************************************************)
(* Proofs about DaemonRuntime for every set of clients and every number of *)
(* permits.  The types and the permits need each other: a permit that is   *)
(* returned was taken because the permits are those of threads, and the    *)
(* threads are no more than the permits.                                   *)
(***************************************************************************)
EXTENDS DaemonRuntime, FiniteSetTheorems, TLAPS

IInv == TypeOK /\ PermitsAreThreads

\* The clients that are served are finitely many.
LEMMA ServedIsFinite ==
  ASSUME NEW clients
  PROVE  LET served == {c \in Client : clients[c] = "served"}
         IN IsFiniteSet(served) /\ Cardinality(served) \in Nat
  BY RuntimeAssumption, FS_Subset, FS_CardinalityType

\* A client that is handed to a thread, or leaves one, changes the threads by one.
LEMMA ServedChangesByOne ==
  ASSUME TypeOK, NEW c \in Client
  PROVE  /\ client[c] # "served" /\ client' = [client EXCEPT ![c] = "served"]
              => Cardinality(Served') = Cardinality(Served) + 1
         /\ client[c] = "served" /\ client' = [client EXCEPT ![c] = "away"]
              => Cardinality(Served') = Cardinality(Served) - 1
         /\ client[c] # "served" /\ client' = [client EXCEPT ![c] = "away"]
              => Served' = Served
         /\ client[c] # "served" /\ client' = [client EXCEPT ![c] = "queued"]
              => Served' = Served
<1>1. IsFiniteSet(Served)
  BY ServedIsFinite DEF Served
<1>2. client \in [Client -> {"away", "queued", "served"}]
  BY DEF TypeOK
<1>3. ASSUME client[c] # "served", client' = [client EXCEPT ![c] = "served"]
      PROVE  Cardinality(Served') = Cardinality(Served) + 1
  <2>1. Served' = Served \cup {c} /\ c \notin Served
    BY <1>2, <1>3 DEF Served
  <2> QED
    BY <1>1, <2>1, FS_AddElement
<1>4. ASSUME client[c] = "served", client' = [client EXCEPT ![c] = "away"]
      PROVE  Cardinality(Served') = Cardinality(Served) - 1
  <2>1. Served' = Served \ {c} /\ c \in Served
    BY <1>2, <1>4 DEF Served
  <2> QED
    BY <1>1, <2>1, FS_RemoveElement
<1>5. ASSUME client[c] # "served",
             client' = [client EXCEPT ![c] = "away"] \/ client' = [client EXCEPT ![c] = "queued"]
      PROVE  Served' = Served
  BY <1>2, <1>5 DEF Served
<1> QED
  BY <1>3, <1>4, <1>5

\* When the process exits all is reset, and what the listener leaves in its backlog had no thread.
LEMMA EndsKeepInvariant ==
  ASSUME IInv, Exit \/ (Alive /\ LeaveLoop)
  PROVE  IInv'
<1>1. CASE Exit
  <2>1. Served' = {} /\ client' \in [Client -> {"away", "queued", "served"}]
    BY <1>1 DEF Exit, Served
  <2>2. Cardinality(Served') = 0
    BY <2>1, FS_EmptySet
  <2>3. TypeOK'
    BY <1>1, <2>1, RuntimeAssumption DEF Exit, IInv, TypeOK
  <2> QED
    BY <1>1, <2>2, <2>3 DEF Exit, IInv, PermitsAreThreads
<1>2. CASE Alive /\ LeaveLoop
  <2>1. /\ client' \in [Client -> {"away", "queued", "served"}]
        /\ \A c \in Client : client'[c] = "served" <=> client[c] = "served"
    BY <1>2 DEF LeaveLoop, IInv, TypeOK
  <2>2. Served' = Served
    BY <2>1 DEF Served
  <2>3. TypeOK'
    BY <1>2, <2>1 DEF LeaveLoop, desktop, IInv, TypeOK
  <2> QED
    BY <1>2, <2>2, <2>3 DEF LeaveLoop, IInv, PermitsAreThreads
<1> QED
  BY <1>1, <1>2

\* A new process has taken no permit.
LEMMA InitInvariant == Init => IInv
<1> SUFFICES ASSUME Init PROVE IInv
  OBVIOUS
<1>1. Served = {}
  BY DEF Init, Served
<1>2. Cardinality(Served) = 0
  BY <1>1, FS_EmptySet
<1>3. TypeOK
  <2>1. 0 \in 0..MAX_CONCURRENT_CLIENTS
    BY RuntimeAssumption
  <2>2. client \in [Client -> {"away", "queued", "served"}]
    BY DEF Init
  <2>3. CASE host = "native"
    BY <2>1, <2>2, <2>3 DEF Init, TypeOK
  <2>4. CASE host = "tauri"
    BY <2>1, <2>2, <2>4 DEF Init, TypeOK
  <2> QED
    BY <2>3, <2>4 DEF Init
<1>4. active = 0 /\ ending = 0
  BY DEF Init
<1>5. PermitsAreThreads
  BY <1>2, <1>4 DEF PermitsAreThreads
<1> QED
  BY <1>3, <1>5 DEF IInv

\* Every step of the loop keeps the invariant (daemon_runtime.rs:48-90).
LEMMA LoopKeepsInvariant == IInv /\ LoopStep => IInv'
<1> SUFFICES ASSUME IInv, LoopStep PROVE IInv'
  OBVIOUS
<1> USE DEF IInv
<1>1. CASE Bind
  <2>1. CASE Alive /\ LeaveLoop
    BY <2>1, EndsKeepInvariant
  <2>2. CASE listener' = "accepting" /\ UNCHANGED <<host, client, active, ending, desktop>>
    BY <2>2 DEF TypeOK, PermitsAreThreads, Served, desktop
  <2> QED
    BY <1>1, <2>1, <2>2 DEF Bind
<1>2. CASE AcceptFails
  BY <1>2, EndsKeepInvariant DEF AcceptFails
<1>3. ASSUME NEW c \in Client, Connect(c) PROVE IInv'
  <2>1. client[c] # "served" /\ client' = [client EXCEPT ![c] = "queued"]
    BY <1>3 DEF Connect
  <2>2. Served' = Served
    BY <2>1, ServedChangesByOne
  <2>3. TypeOK'
    BY <1>3 DEF Connect, TypeOK, desktop
  <2> QED
    BY <1>3, <2>2, <2>3 DEF Connect, PermitsAreThreads
<1>4. ASSUME NEW c \in Client, Accept(c) PROVE IInv'
  <2>1. client[c] # "served" /\ Cardinality(Served) \in Nat
    BY <1>4, ServedIsFinite DEF Accept, Served
  <2>2. CASE IsOwnUser(c) /\ PermitLeft
    <3>1. active' = active + 1 /\ client' = [client EXCEPT ![c] = "served"]
      BY <1>4, <2>2 DEF Accept
    <3>2. Cardinality(Served') = Cardinality(Served) + 1
      BY <2>1, <3>1, ServedChangesByOne
    <3>3. active' \in 0..MAX_CONCURRENT_CLIENTS
      BY <2>2, <3>1, RuntimeAssumption DEF PermitLeft, TypeOK
    <3>4. TypeOK'
      BY <1>4, <3>1, <3>3 DEF Accept, TypeOK, desktop
    <3>5. active' = Cardinality(Served') + ending'
      BY <1>4, <2>1, <3>1, <3>2 DEF Accept, TypeOK, PermitsAreThreads
    <3> QED
      BY <3>4, <3>5 DEF PermitsAreThreads
  <2>3. CASE ~(IsOwnUser(c) /\ PermitLeft)
    <3>1. active' = active /\ client' = [client EXCEPT ![c] = "away"]
      BY <1>4, <2>3 DEF Accept
    <3>2. Served' = Served
      BY <2>1, <3>1, ServedChangesByOne
    <3>3. TypeOK'
      BY <1>4, <3>1 DEF Accept, TypeOK, desktop
    <3> QED
      BY <1>4, <3>1, <3>2, <3>3 DEF Accept, PermitsAreThreads
  <2> QED
    BY <2>2, <2>3
<1>5. ASSUME NEW c \in Client, SpawnFails(c) PROVE IInv'
  BY <1>5, EndsKeepInvariant DEF SpawnFails
<1> QED
  BY <1>1, <1>2, <1>3, <1>4, <1>5 DEF LoopStep

\* The end of a connection keeps it: the permit is returned once (daemon_runtime.rs:41-46).
LEMMA ThreadKeepsInvariant == IInv /\ ThreadStep => IInv'
<1> SUFFICES ASSUME IInv, ThreadStep PROVE IInv'
  OBVIOUS
<1> USE DEF IInv
<1>1. Cardinality(Served) \in Nat /\ active \in Nat /\ ending \in Nat
  BY ServedIsFinite, RuntimeAssumption DEF Served, TypeOK
<1>2. CASE PermitReturns
  <2>1. Served' = Served
    BY <1>2 DEF PermitReturns, Served
  <2>2. active' \in 0..MAX_CONCURRENT_CLIENTS /\ ending' \in 0..MAX_CONCURRENT_CLIENTS
    BY <1>1, <1>2, RuntimeAssumption DEF PermitReturns, PermitsAreThreads, TypeOK
  <2>3. TypeOK'
    BY <1>2, <2>2 DEF PermitReturns, TypeOK, desktop
  <2>4. active' = Cardinality(Served) + ending'
    BY <1>1, <1>2 DEF PermitReturns, PermitsAreThreads
  <2> QED
    BY <2>1, <2>3, <2>4 DEF PermitsAreThreads
<1>3. ASSUME NEW c \in Client, ConnectionEnds(c) PROVE IInv'
  <2>1. client[c] = "served" /\ client' = [client EXCEPT ![c] = "away"]
    BY <1>3 DEF ConnectionEnds
  <2>2. Cardinality(Served') = Cardinality(Served) - 1 /\ Cardinality(Served') \in Nat
    BY <2>1, ServedChangesByOne, ServedIsFinite DEF Served
  <2>3. active' = active /\ active' = Cardinality(Served') + ending'
    BY <1>1, <1>3, <2>2 DEF ConnectionEnds, PermitsAreThreads
  <2>4. ending' \in 0..MAX_CONCURRENT_CLIENTS
    BY <1>1, <1>3, <2>2, <2>3, RuntimeAssumption DEF ConnectionEnds, TypeOK
  <2>5. TypeOK'
    BY <1>3, <2>1, <2>3, <2>4 DEF ConnectionEnds, TypeOK, desktop
  <2> QED
    BY <2>3, <2>5 DEF PermitsAreThreads
<1> QED
  BY <1>2, <1>3 DEF ThreadStep

\* The hosts and the desktop session keep it: they touch no permit but by ending the process.
LEMMA HostKeepsInvariant == IInv /\ (HostStep \/ DesktopQuits) => IInv'
<1> SUFFICES ASSUME IInv, HostStep \/ DesktopQuits PROVE IInv'
  OBVIOUS
<1>1. CASE Exit
  BY <1>1, EndsKeepInvariant
<1>2. ASSUME UNCHANGED <<host, loop>>, host = "tauri",
             main' \in {"building", "built", "monitored", "running", "exited"},
             monitor' \in {"none", "waiting", "done"}, exiting' \in BOOLEAN
      PROVE  IInv'
  BY <1>2 DEF IInv, TypeOK, PermitsAreThreads, Served, loop
<1>3. CASE TauriBuilds \/ SpawnMonitor \/ RunApplication
  <2>1. host = "tauri"
    BY <1>3 DEF TauriBuilds, SpawnMonitor, RunApplication, IInv, TypeOK
  <2> QED
    BY <1>1, <1>2, <1>3, <2>1 DEF TauriBuilds, SpawnMonitor, RunApplication, IInv, TypeOK
<1>4. CASE MonitorReceives
  BY <1>4 DEF MonitorReceives, IInv, TypeOK, PermitsAreThreads, Served, loop
<1> QED
  BY <1>1, <1>3, <1>4 DEF HostStep, HostRuns, NativeExits, ApplicationExits, DesktopQuits

\* Every step keeps the invariant.
LEMMA NextInvariant == IInv /\ [Next]_vars => IInv'
<1>1. ASSUME IInv, UNCHANGED vars PROVE IInv'
  BY <1>1 DEF vars, loop, desktop, IInv, TypeOK, PermitsAreThreads, Served
<1> QED
  BY <1>1, LoopKeepsInvariant, ThreadKeepsInvariant, HostKeepsInvariant DEF Next

\* The daemon never takes more permits than it has, and its threads and hosts are where their
\* code can be (daemon_runtime.rs:31-46, tauri_host.rs:17-43).
THEOREM RuntimeTypeCorrect == Spec => []TypeOK
<1>1. IInv => TypeOK
  BY DEF IInv
<1> QED
  BY <1>1, InitInvariant, NextInvariant, PTL DEF Spec

\* Permits neither leak nor are returned twice: those taken are those of the threads that hold
\* one, with any number of clients (daemon_runtime.rs:31-46,72-82).
THEOREM PermitsSound == Spec => []PermitsAreThreads
<1>1. IInv => PermitsAreThreads
  BY DEF IInv
<1> QED
  BY <1>1, InitInvariant, NextInvariant, PTL DEF Spec
=============================================================================
