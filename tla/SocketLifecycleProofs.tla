------------------------ MODULE SocketLifecycleProofs ------------------------
(***************************************************************************)
(* Proofs about SocketLifecycle, and about BrokerConnection and Deployment *)
(* which extend it, for every set of daemons and every bound on the socket *)
(* files.                                                                  *)
(***************************************************************************)
EXTENDS BrokerConnection, Deployment, TLAPS

(* The parts of the inductive invariant that hold always *)

Bound == {"listen", "chmod", "validate", "serving", "unlinking", "closing"}

\* A daemon owns a socket from its bind to its end, no two the same, and the sockets that
\* accept connections are those of daemons past listen(2).
Ownership ==
  /\ \A d \in Daemon : own[d] # 0 <=> pc[d] \in Bound
  /\ \A d, e \in Daemon : own[d] = own[e] /\ own[d] # 0 => d = e
  /\ \A d \in Daemon : pc[d] \in Bound \ {"listen"} => own[d] \in listening
  /\ \A x \in listening : \E d \in Daemon : own[d] = x

\* Daemons have got past the inspection only where the directory is private, and past the
\* lookup only where no foreign file is.
Checked ==
  \A d \in Daemon :
    /\ pc[d] \in Bound \cup {"lookup", "probe", "reclaim", "bind"} => directory = "private"
    /\ pc[d] \in Bound \cup {"probe", "reclaim", "bind"} => path # NotASocket

(* The parts that hold until startups have overlapped *)

\* No daemon replaces or publishes a socket while another serves or is about to unlink its own.
OneTakesOver ==
  \A d, e \in Daemon :
    /\ pc[d] \in Starting /\ pc[e] \in Starting => d = e
    /\ pc[d] \in {"reclaim", "bind", "listen", "chmod", "validate"}
         => pc[e] \notin {"serving", "unlinking"}

\* The path names the socket of a daemon that publishes, serves, or is about to unlink, and
\* what is reclaimed is stale.
PathIsOwn ==
  \A d \in Daemon :
    /\ pc[d] \in Bound \ {"closing"} => path = own[d]
    /\ pc[d] = "serving" => path \in private /\ recorded[d] = own[d]
    /\ pc[d] = "reclaim" => path \notin listening

(* The part about a daemon that was started when no other ran *)

Solitude ==
  \A d \in Daemon : alone[d] =>
    /\ \A e \in Daemon \ {d} : pc[e] \in Stopped
    /\ pc[d] = "mkdir" => ~DirectoryExists
    /\ pc[d] = "inspect" => DirectoryExists
    /\ pc[d] \in {"probe", "reclaim"} => path # 0
    /\ pc[d] = "bind" => path = 0
    /\ pc[d] \in {"listen", "chmod", "validate"} => path = own[d]
    /\ pc[d] = "validate" => path \in private

IInv ==
  /\ TypeOK /\ Ownership /\ Checked
  /\ ~overlapped => OneTakesOver /\ PathIsOwn
  /\ Solitude
-----------------------------------------------------------------------------
(* What a step does, in the terms of the invariant *)

Exits(d) ==
  \E how \in Stopped : End(d, how) /\ UNCHANGED <<directory, path, created, private, history>>

\* A daemon goes from one place of its code to the next, having found what that needs.
Turn(d, place) ==
  \/ pc[d] = "find" /\ place = "inspect" /\ DirectoryExists
  \/ pc[d] = "find" /\ place = "mkdir" /\ ~DirectoryExists
  \/ pc[d] = "inspect" /\ place = "lookup" /\ directory = "private"
  \/ pc[d] = "lookup" /\ place = "bind" /\ path = 0
  \/ pc[d] = "lookup" /\ place = "probe" /\ path \in 1..created
  \/ pc[d] = "probe" /\ place = "reclaim" /\ path \notin listening
  \/ pc[d] = "serving" /\ place = "unlinking" /\ path # 0 /\ path = recorded[d]
  \/ pc[d] = "serving" /\ place = "closing"

Moves(d) ==
  \E place \in Starting \cup {"unlinking", "closing"} : Turn(d, place) /\ Proceeds(d, place)

Creates(d) ==
  /\ pc[d] = "mkdir" /\ Goto(d, "inspect") /\ directory' = "private"
  /\ UNCHANGED <<path, created, private, listening, own, recorded, history>>

Clears(d) ==
  /\ \/ pc[d] = "reclaim" /\ Goto(d, "bind")
     \/ pc[d] = "unlinking" /\ Goto(d, "closing")
  /\ path' = 0
  /\ UNCHANGED <<directory, created, private, listening, own, recorded, history>>

Binds(d) ==
  /\ pc[d] = "bind" /\ Goto(d, "listen")
  /\ path = 0 /\ created < MaxInodes
  /\ created' = created + 1 /\ path' = created + 1
  /\ own' = [own EXCEPT ![d] = created + 1]
  /\ UNCHANGED <<directory, private, listening, recorded, history>>

Publishes(d) ==
  /\ pc[d] = "chmod" /\ Goto(d, "validate")
  /\ path # 0 /\ private' = private \cup {path}
  /\ UNCHANGED <<directory, path, created, listening, own, recorded, history>>

Records(d) ==
  /\ pc[d] = "validate" /\ Goto(d, "serving")
  /\ path \in private /\ recorded' = [recorded EXCEPT ![d] = path]
  /\ UNCHANGED <<directory, path, created, private, listening, own, history>>

Effect(d) ==
  \/ Start(d) \/ Exits(d) \/ Moves(d) \/ Creates(d) \/ Clears(d)
  \/ Binds(d) \/ Listen(d) \/ Publishes(d) \/ Records(d)

\* Each system call has one of these effects.
LEMMA CallEffect ==
  ASSUME TypeOK
  PROVE  \A d \in Daemon :
           Start(d) \/ StartStep(d) \/ Drop(d) \/ StopStep(d) \/ Kill(d) => Effect(d)
<1>1. ASSUME NEW d \in Daemon, Fails(d) PROVE Effect(d)
  BY <1>1 DEF Fails, Exits, Effect, Stopped
<1>2. ASSUME NEW d \in Daemon, NEW place \in Starting \cup {"unlinking", "closing"},
             Turn(d, place), Proceeds(d, place)
      PROVE  Effect(d)
  BY <1>2 DEF Moves, Effect
<1>3. ASSUME NEW d \in Daemon, FindDirectory(d) PROVE Effect(d)
  BY <1>1, <1>2, <1>3 DEF FindDirectory, Turn, Starting, DirectoryExists, TypeOK, Directory
<1>4. ASSUME NEW d \in Daemon, MakeDirectory(d) PROVE Effect(d)
  BY <1>1, <1>4 DEF MakeDirectory, Creates, Effect
<1>5. ASSUME NEW d \in Daemon, InspectDirectory(d) PROVE Effect(d)
  BY <1>1, <1>2, <1>5 DEF InspectDirectory, Turn, Starting
<1>6. ASSUME NEW d \in Daemon, Lookup(d) PROVE Effect(d)
  <2>1. CASE path = 0
    BY <1>1, <1>2, <1>6, <2>1, SocketAssumption DEF Lookup, Turn, Starting, NotASocket
  <2>2. CASE path = NotASocket
    BY <1>1, <1>2, <1>6, <2>2, SocketAssumption DEF Lookup, Turn, Starting, NotASocket, TypeOK
  <2>3. CASE path \in 1..created
    BY <1>1, <1>2, <1>6, <2>3, SocketAssumption DEF Lookup, Turn, Starting, NotASocket, TypeOK
  <2> QED
    BY <2>1, <2>2, <2>3, SocketAssumption DEF TypeOK
<1>7. ASSUME NEW d \in Daemon, Probe(d) PROVE Effect(d)
  BY <1>1, <1>2, <1>7 DEF Probe, Turn, Starting
<1>8. ASSUME NEW d \in Daemon, Reclaim(d) PROVE Effect(d)
  BY <1>1, <1>8 DEF Reclaim, Clears, Effect
<1>9. ASSUME NEW d \in Daemon, Bind(d) PROVE Effect(d)
  BY <1>1, <1>9 DEF Bind, Binds, Effect
<1>10. ASSUME NEW d \in Daemon, Chmod(d) PROVE Effect(d)
  BY <1>1, <1>10 DEF Chmod, Publishes, Effect
<1>11. ASSUME NEW d \in Daemon, Validate(d) PROVE Effect(d)
  BY <1>1, <1>11 DEF Validate, Records, Effect
<1>12. ASSUME NEW d \in Daemon, Drop(d) PROVE Effect(d)
  BY <1>2, <1>12 DEF Drop, Turn
<1>13. ASSUME NEW d \in Daemon, Unlink(d) PROVE Effect(d)
  BY <1>13 DEF Unlink, Clears, Effect
<1>14. ASSUME NEW d \in Daemon, Close(d) \/ Kill(d) PROVE Effect(d)
  BY <1>14 DEF Close, Kill, Exits, Effect, Stopped
<1> QED
  BY <1>3, <1>4, <1>5, <1>6, <1>7, <1>8, <1>9, <1>10, <1>11, <1>12, <1>13, <1>14
  DEF StartStep, StopStep, Effect

\* A step is one of them, of one daemon.
LEMMA StepEffect ==
  ASSUME Next, TypeOK
  PROVE  \E d \in Daemon : Effect(d)
  BY CallEffect DEF Next

\* Every effect keeps the types.
LEMMA EffectTypeOK ==
  ASSUME TypeOK, Ownership,
         NEW x \in Daemon, pc[x] = "chmod" => path # NotASocket, Effect(x)
  PROVE  TypeOK'
<1> USE SocketAssumption DEF TypeOK, Starting, Stopped, Bound, NotASocket, Directory
<1>1. ASSUME NEW d \in Daemon, Start(d) PROVE TypeOK'
  BY <1>1 DEF Start, Spawned, Goto, history
<1>2. ASSUME NEW d \in Daemon, Exits(d) PROVE TypeOK'
  <2>1. PICK how \in Stopped :
          End(d, how) /\ UNCHANGED <<directory, path, created, private, history>>
    BY <1>2 DEF Exits
  <2>2. /\ pc' \in [Daemon -> Starting \cup {"serving", "unlinking", "closing"} \cup Stopped]
        /\ own' \in [Daemon -> 0..created'] /\ recorded' \in [Daemon -> 0..created']
    BY <2>1 DEF End, Goto
  <2>3. \A e \in Daemon : recorded'[e] # 0 <=> pc'[e] \in {"serving", "unlinking", "closing"}
    <3> SUFFICES ASSUME NEW e \in Daemon
                 PROVE  recorded'[e] # 0 <=> pc'[e] \in {"serving", "unlinking", "closing"}
      OBVIOUS
    <3>1. CASE e = d
      BY <2>1, <3>1 DEF End, Goto
    <3>2. CASE e # d
      BY <2>1, <3>2 DEF End, Goto
    <3> QED
      BY <3>1, <3>2
  <2> QED
    BY <2>1, <2>2, <2>3 DEF End, history
<1>3. ASSUME NEW d \in Daemon, Moves(d) PROVE TypeOK'
  BY <1>3 DEF Moves, Turn, Proceeds, Goto, history
<1>4. ASSUME NEW d \in Daemon, Creates(d) PROVE TypeOK'
  BY <1>4 DEF Creates, Goto, history
<1>5. ASSUME NEW d \in Daemon, Clears(d) PROVE TypeOK'
  BY <1>5 DEF Clears, Goto, history
<1>6. ASSUME NEW d \in Daemon, Binds(d) PROVE TypeOK'
  BY <1>6 DEF Binds, Goto, history
<1>7. ASSUME NEW d \in Daemon, Listen(d) PROVE TypeOK'
  <2>1. own[d] \in 1..created
    BY <1>7 DEF Listen, Ownership, Bound
  <2> QED
    BY <1>7, <2>1 DEF Listen, Goto, history
<1>8. ASSUME NEW d \in Daemon, pc[d] = "chmod" => path # NotASocket, Publishes(d) PROVE TypeOK'
  BY <1>8 DEF Publishes, Goto, history
<1>9. ASSUME NEW d \in Daemon, Records(d) PROVE TypeOK'
  BY <1>9 DEF Records, Goto, history
<1> QED
  BY <1>1, <1>2, <1>3, <1>4, <1>5, <1>6, <1>7, <1>8, <1>9 DEF Effect

\* Every effect keeps each socket the property of the daemon that has bound it.
LEMMA EffectOwnership ==
  ASSUME TypeOK, Ownership, NEW x \in Daemon, Effect(x)
  PROVE  Ownership'
<1> USE SocketAssumption DEF TypeOK, Ownership, Starting, Stopped, Bound
<1>1. ASSUME NEW d \in Daemon, Start(d) PROVE Ownership'
  BY <1>1 DEF Start, Spawned, Goto, history
<1>2. ASSUME NEW d \in Daemon, Exits(d) PROVE Ownership'
  BY <1>2 DEF Exits, End, Goto, history
<1>3. ASSUME NEW d \in Daemon, Moves(d) PROVE Ownership'
  BY <1>3 DEF Moves, Turn, Proceeds, Goto, history
<1>4. ASSUME NEW d \in Daemon, Creates(d) PROVE Ownership'
  BY <1>4 DEF Creates, Goto, history
<1>5. ASSUME NEW d \in Daemon, Clears(d) PROVE Ownership'
  BY <1>5 DEF Clears, Goto, history
<1>6. ASSUME NEW d \in Daemon, Binds(d) PROVE Ownership'
  BY <1>6 DEF Binds, Goto, history
<1>7. ASSUME NEW d \in Daemon, Listen(d) PROVE Ownership'
  BY <1>7 DEF Listen, Goto, history
<1>8. ASSUME NEW d \in Daemon, Publishes(d) PROVE Ownership'
  BY <1>8 DEF Publishes, Goto, history
<1>9. ASSUME NEW d \in Daemon, Records(d) PROVE Ownership'
  BY <1>9 DEF Records, Goto, history
<1> QED
  BY <1>1, <1>2, <1>3, <1>4, <1>5, <1>6, <1>7, <1>8, <1>9 DEF Effect

\* So does every step.
LEMMA NextTypesAndOwners ==
  ASSUME TypeOK, Ownership, Checked, [Next]_vars
  PROVE  TypeOK' /\ Ownership'
<1>1. CASE Next
  <2>1. PICK x \in Daemon : Effect(x)
    BY <1>1, StepEffect
  <2>2. pc[x] = "chmod" => path # NotASocket
    BY DEF Checked, Bound
  <2> QED
    BY <2>1, <2>2, EffectTypeOK, EffectOwnership
<1>2. CASE UNCHANGED vars
  BY <1>2 DEF vars, history, TypeOK, Ownership
<1> QED
  BY <1>1, <1>2

\* Every step keeps to the checks made before it.
LEMMA NextChecked ==
  ASSUME TypeOK, Checked, [Next]_vars
  PROVE  Checked'
<1> USE SocketAssumption DEF TypeOK, Checked, Starting, Stopped, Bound, NotASocket
<1>1. ASSUME NEW d \in Daemon, Start(d) PROVE Checked'
  BY <1>1 DEF Start, Spawned, Goto, history
<1>2. ASSUME NEW d \in Daemon, Exits(d) PROVE Checked'
  BY <1>2 DEF Exits, End, Goto, history
<1>3. ASSUME NEW d \in Daemon, Moves(d) PROVE Checked'
  BY <1>3 DEF Moves, Turn, Proceeds, Goto, history
<1>4. ASSUME NEW d \in Daemon, Creates(d) PROVE Checked'
  BY <1>4 DEF Creates, Goto, history
<1>5. ASSUME NEW d \in Daemon, Clears(d) PROVE Checked'
  BY <1>5 DEF Clears, Goto, history
<1>6. ASSUME NEW d \in Daemon, Binds(d) PROVE Checked'
  BY <1>6 DEF Binds, Goto, history
<1>7. ASSUME NEW d \in Daemon, Listen(d) PROVE Checked'
  BY <1>7 DEF Listen, Goto, history
<1>8. ASSUME NEW d \in Daemon, Publishes(d) PROVE Checked'
  BY <1>8 DEF Publishes, Goto, history
<1>9. ASSUME NEW d \in Daemon, Records(d) PROVE Checked'
  BY <1>9 DEF Records, Goto, history
<1>10. CASE UNCHANGED vars
  BY <1>10 DEF vars, history
<1> QED
  BY <1>1, <1>2, <1>3, <1>4, <1>5, <1>6, <1>7, <1>8, <1>9, <1>10,
     StepEffect DEF Effect

\* Every step leaves a daemon alone what it has found.
LEMMA NextSolitude ==
  ASSUME TypeOK, Ownership, Solitude, [Next]_vars
  PROVE  Solitude'
<1> USE SocketAssumption DEF TypeOK, Ownership, Solitude, Starting, Stopped, Bound, DirectoryExists
<1>1. ASSUME NEW d \in Daemon, Start(d) PROVE Solitude'
  <2>1. /\ pc' = [pc EXCEPT ![d] = "find"]
        /\ \A e \in Daemon : alone'[e] => e = d /\ \A other \in Daemon : pc[other] \in Stopped
    BY <1>1 DEF Start, Spawned, Goto
  <2>2. pc'[d] = "find" /\ \A e \in Daemon \ {d} : pc'[e] = pc[e]
    BY <2>1
  <2> QED
    BY <2>1, <2>2
<1>2. ASSUME NEW d \in Daemon, Exits(d) PROVE Solitude'
  BY <1>2 DEF Exits, End, Goto, history
<1>3. ASSUME NEW d \in Daemon, Moves(d) PROVE Solitude'
  <2>1. PICK place \in Starting \cup {"unlinking", "closing"} : Turn(d, place) /\ Proceeds(d, place)
    BY <1>3 DEF Moves
  <2>2. pc'[d] = place /\ \A e \in Daemon \ {d} : pc'[e] = pc[e]
    BY <2>1 DEF Proceeds, Goto
  <2>3. UNCHANGED <<directory, path, private, own, alone>>
    BY <2>1 DEF Proceeds, history
  <2>4. \A e \in Daemon : alone[e] => e = d
    BY <2>1 DEF Turn
  <2>5. CASE place \in {"inspect", "mkdir", "lookup", "bind"}
    BY <2>1, <2>2, <2>3, <2>4, <2>5 DEF Turn
  <2>6. CASE place \in {"probe", "reclaim", "unlinking", "closing"}
    BY <2>1, <2>2, <2>3, <2>4, <2>6 DEF Turn
  <2> QED
    BY <2>1, <2>5, <2>6 DEF Turn
<1>4. ASSUME NEW d \in Daemon, Creates(d) PROVE Solitude'
  BY <1>4 DEF Creates, Goto, history
<1>5. ASSUME NEW d \in Daemon, Clears(d) PROVE Solitude'
  BY <1>5 DEF Clears, Goto, history
<1>6. ASSUME NEW d \in Daemon, Binds(d) PROVE Solitude'
  BY <1>6 DEF Binds, Goto, history
<1>7. ASSUME NEW d \in Daemon, Listen(d) PROVE Solitude'
  BY <1>7 DEF Listen, Goto, history
<1>8. ASSUME NEW d \in Daemon, Publishes(d) PROVE Solitude'
  BY <1>8 DEF Publishes, Goto, history
<1>9. ASSUME NEW d \in Daemon, Records(d) PROVE Solitude'
  BY <1>9 DEF Records, Goto, history
<1>10. CASE UNCHANGED vars
  BY <1>10 DEF vars, history
<1> QED
  BY <1>1, <1>2, <1>3, <1>4, <1>5, <1>6, <1>7, <1>8, <1>9, <1>10,
     StepEffect DEF Effect

\* Without overlapping startups, every step leaves at most one daemon that takes the path over.
LEMMA NextOneTakesOver ==
  ASSUME TypeOK, Ownership, ~overlapped', OneTakesOver, PathIsOwn, [Next]_vars
  PROVE  OneTakesOver'
<1> USE SocketAssumption DEF TypeOK, Ownership, OneTakesOver, PathIsOwn, Starting, Stopped, Bound
<1>1. ASSUME NEW d \in Daemon, Start(d) PROVE OneTakesOver'
  <2>1. pc' = [pc EXCEPT ![d] = "find"] /\ \A e \in Daemon : pc[e] \notin Starting
    BY <1>1 DEF Start, Spawned, Goto
  <2>2. pc'[d] = "find" /\ \A e \in Daemon \ {d} : pc'[e] = pc[e] /\ pc'[e] \notin Starting
    BY <2>1
  <2> QED
    BY <2>2
<1>2. ASSUME NEW d \in Daemon, Exits(d) PROVE OneTakesOver'
  BY <1>2 DEF Exits, End, Goto, history
<1>3. ASSUME NEW d \in Daemon, Moves(d) PROVE OneTakesOver'
  BY <1>3 DEF Moves, Turn, Proceeds, Goto, history
<1>4. ASSUME NEW d \in Daemon, Creates(d) PROVE OneTakesOver'
  BY <1>4 DEF Creates, Goto, history
<1>5. ASSUME NEW d \in Daemon, Clears(d) PROVE OneTakesOver'
  BY <1>5 DEF Clears, Goto, history
<1>6. ASSUME NEW d \in Daemon, Binds(d) PROVE OneTakesOver'
  BY <1>6 DEF Binds, Goto, history
<1>7. ASSUME NEW d \in Daemon, Listen(d) PROVE OneTakesOver'
  BY <1>7 DEF Listen, Goto, history
<1>8. ASSUME NEW d \in Daemon, Publishes(d) PROVE OneTakesOver'
  BY <1>8 DEF Publishes, Goto, history
<1>9. ASSUME NEW d \in Daemon, Records(d) PROVE OneTakesOver'
  BY <1>9 DEF Records, Goto, history
<1>10. CASE UNCHANGED vars
  BY <1>10 DEF vars, history
<1> QED
  BY <1>1, <1>2, <1>3, <1>4, <1>5, <1>6, <1>7, <1>8, <1>9, <1>10,
     StepEffect DEF Effect

\* Without overlapping startups, every step leaves the path to its owner.
LEMMA NextPathIsOwn ==
  ASSUME TypeOK, Ownership, ~overlapped', OneTakesOver, PathIsOwn, [Next]_vars
  PROVE  PathIsOwn'
<1> USE SocketAssumption DEF TypeOK, Ownership, OneTakesOver, PathIsOwn, Starting, Stopped, Bound
<1>1. ASSUME NEW d \in Daemon, Start(d) PROVE PathIsOwn'
  BY <1>1 DEF Start, Spawned, Goto, history
<1>2. ASSUME NEW d \in Daemon, Exits(d) PROVE PathIsOwn'
  BY <1>2 DEF Exits, End, Goto, history
<1>3. ASSUME NEW d \in Daemon, Moves(d) PROVE PathIsOwn'
  BY <1>3 DEF Moves, Turn, Proceeds, Goto, history
<1>4. ASSUME NEW d \in Daemon, Creates(d) PROVE PathIsOwn'
  BY <1>4 DEF Creates, Goto, history
<1>5. ASSUME NEW d \in Daemon, Clears(d) PROVE PathIsOwn'
  BY <1>5 DEF Clears, Goto, history
<1>6. ASSUME NEW d \in Daemon, Binds(d) PROVE PathIsOwn'
  BY <1>6 DEF Binds, Goto, history
<1>7. ASSUME NEW d \in Daemon, Listen(d) PROVE PathIsOwn'
  BY <1>7 DEF Listen, Goto, history
<1>8. ASSUME NEW d \in Daemon, Publishes(d) PROVE PathIsOwn'
  BY <1>8 DEF Publishes, Goto, history
<1>9. ASSUME NEW d \in Daemon, Records(d) PROVE PathIsOwn'
  BY <1>9 DEF Records, Goto, history
<1>10. CASE UNCHANGED vars
  BY <1>10 DEF vars, history
<1> QED
  BY <1>1, <1>2, <1>3, <1>4, <1>5, <1>6, <1>7, <1>8, <1>9, <1>10,
     StepEffect DEF Effect

\* Startups that have overlapped stay so.
LEMMA OverlapStays ==
  ASSUME TypeOK, [Next]_vars, overlapped
  PROVE  overlapped'
<1>1. ASSUME NEW d \in Daemon, Effect(d) PROVE overlapped'
  BY <1>1 DEF Effect, Start, Spawned, Exits, Moves, Proceeds, Creates, Clears, Binds, Listen,
              Publishes, Records, history
<1> QED
  BY <1>1, StepEffect DEF vars, history

\* The invariant holds before any daemon is started.
LEMMA InitInvariant == Init => IInv
<1> SUFFICES ASSUME Init PROVE IInv
  OBVIOUS
<1>1. TypeOK
  <2>1. created \in 0..MaxInodes /\ path \in 0..created \cup {NotASocket}
    BY SocketAssumption DEF Init
  <2>2. /\ own \in [Daemon -> 0..created] /\ recorded \in [Daemon -> 0..created]
        /\ pc \in [Daemon -> Starting \cup {"serving", "unlinking", "closing"} \cup Stopped]
        /\ \A d \in Daemon : recorded[d] # 0 <=> pc[d] \in {"serving", "unlinking", "closing"}
    BY DEF Init, Stopped
  <2>3. private = {} /\ listening = {} /\ directory \in Directory
    BY DEF Init
  <2>4. alone \in [Daemon -> BOOLEAN] /\ overlapped \in BOOLEAN
    BY DEF Init
  <2> QED
    BY <2>1, <2>2, <2>3, <2>4 DEF TypeOK
<1>2. Ownership /\ Checked /\ OneTakesOver /\ PathIsOwn /\ Solitude
  BY DEF Init, Ownership, Checked, OneTakesOver, PathIsOwn, Solitude, Bound, Starting, Stopped
<1> QED
  BY <1>1, <1>2 DEF IInv

\* Every system call keeps it.
LEMMA NextInvariant == IInv /\ [Next]_vars => IInv'
<1> SUFFICES ASSUME IInv, [Next]_vars PROVE IInv'
  OBVIOUS
<1>1. TypeOK' /\ Ownership' /\ Checked' /\ Solitude'
  BY NextTypesAndOwners, NextChecked, NextSolitude DEF IInv
<1>2. ASSUME ~overlapped' PROVE OneTakesOver' /\ PathIsOwn'
  BY <1>2, OverlapStays, NextOneTakesOver, NextPathIsOwn DEF IInv
<1> QED
  BY <1>1, <1>2 DEF IInv
-----------------------------------------------------------------------------
\* The state has its types: a DaemonListener has its inode exactly while it exists
\* (ipc.rs:208-231).
THEOREM SocketTypeCorrect == Spec => []TypeOK
<1>1. IInv => TypeOK
  BY DEF IInv
<1> QED
  BY <1>1, InitInvariant, NextInvariant, PTL DEF Spec

\* Of any number of daemons whose startups do not overlap one serves (ipc.rs:27-28,190-193).
THEOREM OneServesAlways == Spec => []OneServes
<1>1. IInv => OneServes
  BY DEF IInv, OneServes, AtMostOneServes, PathIsOwn, Ownership, Bound
<1> QED
  BY <1>1, InitInvariant, NextInvariant, PTL DEF Spec

\* Brokers reach a daemon that serves, whichever daemons have ended, and however, since it was
\* started (ipc.rs:216-230,239-251).
THEOREM ServingIsReachableAlways == Spec => []ServingIsReachable
<1>1. IInv => ServingIsReachable
  BY DEF IInv, ServingIsReachable, Reaches, PathIsOwn, Ownership, Bound
<1> QED
  BY <1>1, InitInvariant, NextInvariant, PTL DEF Spec

\* No daemon removes what is not its own (ipc.rs:185-201,239-251).
THEOREM NothingElseIsRemoved == Spec => OthersAreNotRemoved
<1> DEFINE A == path # 0 /\ path' # path =>
                  /\ path # NotASocket
                  /\ path \in listening /\ ~overlapped
                       => \E d \in Daemon : pc[d] = "unlinking" /\ own[d] = path
<1>1. ASSUME IInv, [Next]_vars PROVE A
  <2>1. ASSUME NEW d \in Daemon, Clears(d) PROVE A
    BY <2>1, <1>1 DEF Clears, IInv, Checked, PathIsOwn, Bound
  <2>2. ASSUME NEW d \in Daemon, Effect(d), ~Clears(d), path # 0 PROVE path' = path
    BY <2>2 DEF Effect, Start, Spawned, Exits, Moves, Proceeds, Creates, Binds, Listen,
                Publishes, Records, history
  <2>3. CASE UNCHANGED vars
    BY <2>3 DEF vars
  <2> QED
    BY <1>1, <2>1, <2>2, <2>3, StepEffect DEF IInv
<1>2. IInv /\ [Next]_vars => [A]_vars
  BY <1>1
<1> HIDE DEF A
<1>3. Spec => [][A]_vars
  BY <1>2, InitInvariant, NextInvariant, PTL DEF Spec
<1> QED
  BY <1>3 DEF A, OthersAreNotRemoved

\* A daemon started when no other runs gets to serve, whatever others have left
\* (ipc.rs:147-157,180-230).
THEOREM StaleIsAlwaysReclaimed == Spec => StaleIsReclaimed
<1> DEFINE A == \A d \in Daemon :
                  /\ pc[d] \in Starting /\ pc'[d] = "failed"
                  /\ directory \in {"private", "creatable"} /\ path # NotASocket
                  => ~alone[d]
<1>1. ASSUME IInv, [Next]_vars PROVE A
  <2> SUFFICES ASSUME NEW d \in Daemon, pc[d] \in Starting, pc'[d] = "failed",
                      directory \in {"private", "creatable"}, path # NotASocket, alone[d]
               PROVE  FALSE
    OBVIOUS
  <2>1. PICK e \in Daemon : Start(e) \/ StartStep(e) \/ Drop(e) \/ StopStep(e) \/ Kill(e)
    BY <1>1 DEF Next, vars, Starting
  <2>2. e = d
    <3>1. \E place : pc' = [pc EXCEPT ![e] = place]
      BY <1>1, <2>1, CallEffect DEF IInv, Effect, Start, Spawned, Exits, End, Moves, Proceeds,
                                    Creates, Clears, Binds, Listen, Publishes, Records, Goto
    <3> QED
      BY <3>1, <1>1 DEF IInv, TypeOK, Starting
  <2>3. StartStep(d)
    BY <2>1, <2>2, <1>1 DEF Start, Spawned, Drop, StopStep, Unlink, Close, Kill, End, Goto, IInv,
                            TypeOK, Starting, Stopped
  <2>4. listening = {} \/ pc[d] \notin {"find", "mkdir", "inspect", "lookup", "probe"}
    BY <1>1 DEF IInv, TypeOK, Ownership, Solitude, Bound, Stopped
  <2>5. Solitude /\ TypeOK /\ Ownership
    BY <1>1 DEF IInv
  <2>6. CASE FindDirectory(d) \/ MakeDirectory(d) \/ InspectDirectory(d)
    BY <2>5, <2>6 DEF FindDirectory, MakeDirectory, InspectDirectory, Fails, End, Proceeds, Goto,
                      Solitude, TypeOK, DirectoryExists
  <2>7. CASE Lookup(d) \/ Probe(d) \/ Reclaim(d)
    <3>1. ASSUME NEW place \in Starting, Proceeds(d, place) PROVE FALSE
      BY <2>5, <3>1 DEF Proceeds, Goto, TypeOK, Starting
    <3>2. CASE Lookup(d)
      <4>1. path = 0 \/ path \in 1..created
        BY <2>5, SocketAssumption DEF TypeOK
      <4>2. Proceeds(d, "bind") \/ Proceeds(d, "probe")
        BY <3>2, <4>1 DEF Lookup
      <4> QED
        BY <3>1, <4>2 DEF Starting
    <3>3. CASE Probe(d)
      BY <2>4, <3>1, <3>3 DEF Probe, Starting
    <3>4. CASE Reclaim(d)
      BY <2>5, <3>4 DEF Reclaim, Goto, Solitude, TypeOK
    <3> QED
      BY <2>7, <3>2, <3>3, <3>4
  <2>8. CASE Bind(d) \/ Listen(d) \/ Chmod(d) \/ Validate(d)
    BY <1>1, <2>5, <2>8 DEF Bind, Listen, Chmod, Validate, Fails, End, Proceeds, Goto, Solitude,
                      TypeOK, Ownership, Bound, DirectoryExists, IInv, Checked
  <2> QED
    BY <2>3, <2>6, <2>7, <2>8 DEF StartStep
<1>2. IInv /\ [Next]_vars => [A]_vars
  BY <1>1
<1> HIDE DEF A
<1>3. Spec => [][A]_vars
  BY <1>2, InitInvariant, NextInvariant, PTL DEF Spec
<1> QED
  BY <1>3 DEF A, StaleIsReclaimed
-----------------------------------------------------------------------------
(* The broker *)

BInv ==
  /\ IInv
  /\ steady \subseteq Serving
  /\ broker \in {"inspect directory", "inspect file", "connect"} \cup Ended

\* A broker changes nothing of the daemons.
LEMMA DaemonsOnly == [BrokerNext]_bvars => [Next]_vars
  BY DEF BrokerNext, DaemonsRun, BrokerStarts, InspectsDirectory, InspectsFile, Connects, Checks,
         bvars

\* It remembers only daemons that still serve.
LEMMA BrokerInvariant ==
  /\ BrokerInit => BInv
  /\ BInv /\ [BrokerNext]_bvars => BInv'
<1>1. BrokerInit => BInv
  BY InitInvariant DEF BrokerInit, BInv, Ended
<1>2. ASSUME BInv, [BrokerNext]_bvars PROVE BInv'
  <2>1. IInv'
    BY <1>2, DaemonsOnly, NextInvariant DEF BInv
  <2>2. ASSUME DaemonsRun PROVE steady' \subseteq Serving'
    BY <2>2 DEF DaemonsRun
  <2>3. ASSUME UNCHANGED vars, steady' = Serving \/ steady' = steady
        PROVE  steady' \subseteq Serving'
    <3>1. Serving' = Serving
      BY <2>3 DEF Serving, vars
    <3> QED
      BY <1>2, <2>3, <3>1 DEF BInv
  <2>4. steady' \subseteq Serving'
    BY <1>2, <2>2, <2>3 DEF BrokerNext, BrokerStarts, InspectsDirectory, InspectsFile, Connects,
                            Checks, bvars
  <2>5. broker' \in {"inspect directory", "inspect file", "connect"} \cup Ended
    BY <1>2 DEF BInv, BrokerNext, DaemonsRun, BrokerStarts, InspectsDirectory, InspectsFile,
                Connects, Checks, Ended, bvars
  <2> QED
    BY <2>1, <2>4, <2>5 DEF BInv
<1> QED
  BY <1>1, <1>2

\* All that is shown of the daemons holds with brokers connecting to them (ipc.rs:171-178).
THEOREM DaemonsAreUndisturbed == BrokerSpec => Spec
  BY DaemonsOnly, PTL DEF BrokerSpec, BrokerInit, Spec

\* The state of daemons and broker has its types (ipc.rs:171-178, 180-251).
THEOREM BrokerTypeCorrect == BrokerSpec => []BrokerTypeOK
<1>1. BInv => BrokerTypeOK
  BY DEF BInv, IInv, BrokerTypeOK
<1> QED
  BY <1>1, BrokerInvariant, PTL DEF BrokerSpec

\* A broker is not refused while a daemon serves throughout (ipc.rs:171-178).
THEOREM ServedAlways == BrokerSpec => ServedIfOneServes
<1> DEFINE A == broker \notin Ended /\ broker' = "refused" => steady = {} \/ overlapped
<1>1. ASSUME BInv, [BrokerNext]_bvars PROVE A
  <2> SUFFICES ASSUME broker \notin Ended, broker' = "refused", ~overlapped,
                      NEW d \in Daemon, d \in steady
               PROVE  FALSE
    BY <1>1 DEF BInv, Serving
  <2>1. pc[d] = "serving"
    BY <1>1 DEF BInv, Serving
  <2>2. directory = "private" /\ path \in private /\ path \in listening
    <3>1. Checked /\ PathIsOwn /\ Ownership
      BY <1>1 DEF BInv, IInv
    <3>2. pc[d] \in Bound /\ pc[d] \notin {"listen", "closing"}
      BY <2>1 DEF Bound
    <3>3. directory = "private"
      BY <3>1, <3>2 DEF Checked
    <3>4. path \in private /\ path = own[d]
      BY <2>1, <3>1, <3>2 DEF PathIsOwn
    <3>5. own[d] \in listening
      BY <3>1, <3>2 DEF Ownership
    <3> QED
      BY <3>3, <3>4, <3>5
  <2>3. broker' # broker /\ ~BrokerStarts
    BY DEF BrokerStarts, Ended
  <2>4. InspectsDirectory \/ InspectsFile \/ Connects
    BY <1>1, <2>3 DEF BrokerNext, DaemonsRun, bvars
  <2> QED
    BY <2>2, <2>4 DEF InspectsDirectory, InspectsFile, Connects, Checks
<1>2. BInv /\ [BrokerNext]_bvars => [A]_bvars
  BY <1>1
<1> HIDE DEF A
<1>3. BrokerSpec => [][A]_bvars
  BY <1>2, BrokerInvariant, PTL DEF BrokerSpec
<1> QED
  BY <1>3 DEF A, ServedIfOneServes
-----------------------------------------------------------------------------
(* Installation and uninstallation: the parts of the inductive invariant.  Those about the     *)
(* daemons are weaker than above, as scripts and service manager take the path away under them. *)

Past(steps) == script \in steps \/ outcome = "uninstalled"

\* What a daemon has bound is at the path, or nothing is; startups have not overlapped.
Order ==
  /\ \A d, e \in Daemon : pc[d] \in Starting /\ pc[e] \in Starting => d = e
  /\ \A d \in Daemon :
       /\ pc[d] \in {"listen", "chmod", "validate"} => path \in {0, own[d]}
       /\ recorded[d] # 0 => recorded[d] = own[d]
       /\ pc[d] = "reclaim" => path \notin listening
       /\ pc[d] = "unlinking" => raced \/ path \in {0, own[d]}

\* A runtime directory that is removed has no socket of the service, and none that is there
\* was made before the service was stopped.
Freshness ==
  /\ own[Service] # 0 => own[Service] \in ofService
  /\ setup.runtimeDirectory => /\ tidy => path \notin ofService
                               /\ path \in ofService => path > since

\* What the uninstallation has removed is not there, and the service not restarted.
Progress ==
  /\ script # "idle" => outcome = "none"
  /\ Past({"remove unit", "remove socket", "reload"}) => ~manifest
  /\ mode # "ephemeral" /\ Past({"remove socket", "reload"}) => ~unit
  /\ mode = "install" =>
       /\ outcome = "uninstalled" => ~wanted
       /\ setup.manager = "launchd"
            => (script \in {"remove manifest", "remove unit", "remove socket"} => ~wanted)

\* While nobody else starts one no daemon runs once the service has been stopped, and
\* no socket comes back.
Quiet ==
  undisturbed =>
    /\ \A d \in Hand : pc[d] \in Stopped
    /\ Past({"remove manifest", "remove unit", "remove socket", "reload"}) => ~ServiceRuns
    /\ Past({"reload"}) => path = 0

DInv ==
  /\ DeploymentTypeOK /\ Ownership /\ path # NotASocket
  /\ ~overlapped => Order
  /\ Freshness /\ Progress /\ Quiet
-----------------------------------------------------------------------------
(* What a step does to the daemons *)

\* The service is started, in a directory made for it or found.
Launched == Spawned(Service) /\ directory' \in Directory

\* The path is taken away from under the daemons, or is not.
PathIsLost == directory' \in Directory /\ path' \in {0, path}

Halted ==
  /\ \E how \in Stopped : End(Service, how)
  /\ PathIsLost /\ UNCHANGED <<created, private, history>>

Loses == PathIsLost /\ UNCHANGED <<pc, created, private, listening, own, recorded, history>>

\* The daemons' own steps: those of a daemon that runs, and the others are as before.
LEMMA RunningSteps ==
  ASSUME TypeOK, NEW d \in Daemon, StartStep(d) \/ Drop(d) \/ StopStep(d) \/ Kill(d)
  PROVE  /\ Effect(d) /\ pc[d] \notin Stopped
         /\ \A e \in Daemon \ {d} : pc'[e] = pc[e]
<1>1. Effect(d)
  BY CallEffect
<1>2. pc[d] \notin Stopped
  BY DEF StartStep, FindDirectory, MakeDirectory, InspectDirectory, Lookup, Probe, Reclaim, Bind,
         Listen, Chmod, Validate, Drop, StopStep, Unlink, Close, Kill, Stopped
<1>3. \E place : pc' = [pc EXCEPT ![d] = place]
  BY <1>1 DEF Effect, Start, Spawned, Exits, End, Moves, Proceeds, Creates, Clears, Binds, Listen,
              Publishes, Records, Goto
<1>4. \A e \in Daemon \ {d} : pc'[e] = pc[e]
  BY <1>3 DEF TypeOK
<1> QED
  BY <1>1, <1>2, <1>4

\* What stops the service, whether it runs or not.
LEMMA StopsHalts ==
  ASSUME TypeOK, StopsService
  PROVE  Halted
<1>1. \E how \in Stopped : End(Service, how)
  BY DeploymentAssumption DEF StopsService, ServiceRuns, Stopped
<1>2. PathIsLost /\ UNCHANGED <<created, private, history>>
  BY DEF StopsService, PathIsLost, TypeOK, Directory
<1> QED
  BY <1>1, <1>2 DEF Halted

\* Every step has one of four effects on the daemons, and a race is remembered.
LEMMA DeploymentEffect ==
  ASSUME DeploymentTypeOK, [DeploymentNext]_dvars
  PROVE  /\ (\E d \in Daemon : Effect(d)) \/ Launched \/ Halted \/ Loses
         /\ raced => raced'
         /\ created' # created /\ (\E d \in Daemon : pc[d] = "unlinking") => raced'
<1> DEFINE Goal == /\ (\E d \in Daemon : Effect(d)) \/ Launched \/ Halted \/ Loses
                   /\ raced => raced'
                   /\ created' # created /\ (\E d \in Daemon : pc[d] = "unlinking") => raced'
<1> SUFFICES Goal
  OBVIOUS
<1>1. TypeOK
  BY DEF DeploymentTypeOK
<1>2. ASSUME UNCHANGED vars PROVE Loses
  BY <1>1, <1>2 DEF vars, Loses, PathIsLost, TypeOK
<1>3. ASSUME created' = created, raced' = raced,
             (\E d \in Daemon : Effect(d)) \/ Launched \/ Halted \/ Loses
      PROVE  Goal
  BY <1>3
<1>4. ASSUME UNCHANGED vars, raced' = raced PROVE Goal
  <2>1. created' = created
    BY <1>4 DEF vars
  <2> QED
    BY <1>2, <1>3, <1>4, <2>1
<1> HIDE DEF Goal
<1>5. CASE DaemonRuns
  BY <1>1, <1>5, CallEffect DEF DaemonRuns, Goal
<1>6. CASE StartedByHand
  <2>1. created' = created /\ raced' = raced /\ \E d \in Daemon : Effect(d)
    BY <1>6 DEF StartedByHand, Effect, Hand, Start, Spawned
  <2> QED
    BY <1>3, <2>1
<1>7. CASE Restarted \/ StartService
  <2>1. Launched
    BY <1>1, <1>7 DEF Restarted, StartService, Launch, Launched, TypeOK, Directory
  <2>2. created' = created /\ raced' = raced
    BY <1>7 DEF Restarted, StartService, Launch, Spawned, remembered
  <2> QED
    BY <1>3, <2>1, <2>2
<1>8. CASE DirectoryRemoved \/ RemoveSocket
  <2>1. Loses
    BY <1>1, <1>8 DEF DirectoryRemoved, RemoveSocket, Loses, PathIsLost, TypeOK, Directory, history
  <2>2. created' = created /\ raced' = raced
    BY <1>8 DEF DirectoryRemoved, RemoveSocket, remembered
  <2> QED
    BY <1>3, <2>1, <2>2
<1>9. CASE StopForRestart
  <2>1. Halted /\ created' = created /\ raced' = raced
    BY <1>1, <1>9, StopsHalts DEF StopForRestart, StopsService
  <2> QED
    BY <1>3, <2>1
<1>10. CASE StopService
  <2>1. (Halted \/ Loses) /\ created' = created /\ raced' = raced
    BY <1>1, <1>2, <1>10, StopsHalts DEF StopService, StopsService, vars
  <2> QED
    BY <1>3, <2>1
<1>11. CASE RunInstall \/ WriteManifest \/ WriteUnit \/ FindSocket \/ CheckService \/ CheckMode
  <2>1. UNCHANGED vars /\ raced' = raced
    BY <1>11 DEF RunInstall, WriteManifest, WriteUnit, FindSocket, CheckService, CheckMode, remembered
  <2> QED
    BY <1>4, <2>1
<1>12. CASE RunUninstall \/ RemoveManifest \/ RemoveUnit \/ Reload \/ Interrupted
  <2>1. UNCHANGED vars /\ raced' = raced
    BY <1>12 DEF RunUninstall, RemoveManifest, RemoveUnit, Reload, Interrupted, remembered
  <2> QED
    BY <1>4, <2>1
<1>13. CASE UNCHANGED dvars
  <2>1. UNCHANGED vars /\ raced' = raced
    BY <1>13 DEF dvars, remembered
  <2> QED
    BY <1>4, <2>1
<1> QED
  BY <1>5, <1>6, <1>7, <1>8, <1>9, <1>10, <1>11, <1>12, <1>13
  DEF DeploymentNext, ManagerStep, InstallStep, UninstallStep
-----------------------------------------------------------------------------
(* The daemons *)

\* No effect of a daemon's step makes anything but a socket.
LEMMA EffectOnPath ==
  ASSUME TypeOK, NEW d \in Daemon, Effect(d)
  PROVE  \/ path' \in {0, path} /\ created' = created
            /\ \A e \in Daemon : own'[e] \in {0, own[e]}
         \/ Binds(d)
<1>1. ASSUME Exits(d) PROVE \A e \in Daemon : own'[e] \in {0, own[e]}
  BY <1>1 DEF Exits, End, TypeOK
<1> QED
  BY <1>1 DEF Effect, Start, Spawned, Exits, End, Moves, Proceeds, Creates, Clears, Listen, Publishes,
              Records

\* Daemons, scripts and service manager keep the types, and each socket its owner.
LEMMA DeploymentDaemons ==
  ASSUME DeploymentTypeOK, Ownership, path # NotASocket, [DeploymentNext]_dvars
  PROVE  TypeOK' /\ Ownership' /\ path' # NotASocket
<1>1. TypeOK
  BY DEF DeploymentTypeOK
<1>2. ASSUME NEW d \in Daemon, Effect(d) PROVE TypeOK' /\ Ownership' /\ path' # NotASocket
  <2>1. path' # NotASocket
    BY <1>1, <1>2, EffectOnPath, SocketAssumption DEF Binds, TypeOK, NotASocket
  <2> QED
    BY <1>1, <1>2, <2>1, EffectTypeOK, EffectOwnership
<1>3. ASSUME Launched PROVE TypeOK' /\ Ownership' /\ path' # NotASocket
  <2> USE DEF TypeOK, Starting, Stopped
  <2>1. pc' = [pc EXCEPT ![Service] = "find"] /\ pc[Service] \in Stopped
        /\ UNCHANGED <<path, created, private, listening, own, recorded>> /\ directory' \in Directory
    BY <1>3 DEF Launched, Spawned, Goto
  <2>2. alone' \in [Daemon -> BOOLEAN] /\ overlapped' \in BOOLEAN
    BY <1>1, <1>3 DEF Launched, Spawned
  <2>3. TypeOK'
    BY <1>1, <2>1, <2>2
  <2>4. Ownership'
    BY <1>1, <2>1 DEF Ownership, Bound
  <2> QED
    BY <2>1, <2>3, <2>4
<1>4. ASSUME Halted PROVE TypeOK' /\ Ownership' /\ path' # NotASocket
  <2> USE DEF TypeOK, Stopped
  <2>1. PICK how \in Stopped : End(Service, how)
    BY <1>4 DEF Halted
  <2>2. /\ pc' = [pc EXCEPT ![Service] = how] /\ listening' = listening \ {own[Service]}
        /\ own' = [own EXCEPT ![Service] = 0] /\ recorded' = [recorded EXCEPT ![Service] = 0]
    BY <2>1 DEF End, Goto
  <2>3. directory' \in Directory /\ path' \in {0, path} /\ UNCHANGED <<created, private, alone, overlapped>>
    BY <1>4 DEF Halted, PathIsLost, history
  <2>4. TypeOK'
    <3>1. pc' \in [Daemon -> Starting \cup {"serving", "unlinking", "closing"} \cup Stopped]
      BY <1>1, <2>2
    <3>2. own' \in [Daemon -> 0..created'] /\ recorded' \in [Daemon -> 0..created']
      <4>1. 0 \in 0..created
        BY <1>1, SocketAssumption
      <4> QED
        BY <1>1, <2>2, <2>3, <4>1
    <3>3. ASSUME NEW e \in Daemon
          PROVE  recorded'[e] # 0 <=> pc'[e] \in {"serving", "unlinking", "closing"}
      <4>1. CASE e = Service
        BY <1>1, <2>2, <4>1
      <4>2. CASE e # Service
        BY <1>1, <2>2, <4>2
      <4> QED
        BY <4>1, <4>2
    <3>4. path' \in 0..created' \cup {NotASocket} /\ created' \in 0..MaxInodes
      BY <1>1, <2>3
    <3>5. /\ private' \subseteq 1..created' /\ listening' \subseteq 1..created'
          /\ alone' \in [Daemon -> BOOLEAN] /\ overlapped' \in BOOLEAN
      BY <1>1, <2>2, <2>3
    <3> QED
      BY <2>3, <3>1, <3>2, <3>3, <3>4, <3>5
  <2>5. Ownership'
    <3>1. \A e \in Daemon : IF e = Service THEN pc'[e] = how /\ own'[e] = 0
                                           ELSE pc'[e] = pc[e] /\ own'[e] = own[e]
      BY <1>1, <2>2
    <3>2. how \notin Bound
      BY DEF Bound
    <3> HIDE DEF TypeOK, Stopped
    <3>3. /\ \A e \in Daemon : own'[e] # 0 <=> pc'[e] \in Bound
          /\ \A d, e \in Daemon : own'[d] = own'[e] /\ own'[d] # 0 => d = e
      BY <3>1, <3>2 DEF Ownership
    <3>4. ASSUME NEW d \in Daemon, pc'[d] \in Bound \ {"listen"} PROVE own'[d] \in listening'
      <4>1. d # Service /\ pc[d] \in Bound \ {"listen"} /\ own'[d] = own[d]
        BY <3>1, <3>2, <3>4
      <4>2. own[d] \in listening /\ own[d] # own[Service]
        BY <4>1, DeploymentAssumption DEF Ownership
      <4> QED
        BY <2>2, <4>1, <4>2
    <3>5. \A x \in listening' : \E d \in Daemon : own'[d] = x
      BY <2>2, <3>1 DEF Ownership
    <3> QED
      BY <3>3, <3>4, <3>5 DEF Ownership
  <2> QED
    BY <2>3, <2>4, <2>5, SocketAssumption DEF NotASocket
<1>5. ASSUME Loses PROVE TypeOK' /\ Ownership' /\ path' # NotASocket
  <2>1. TypeOK'
    BY <1>1, <1>5 DEF TypeOK, Loses, PathIsLost, history
  <2>2. Ownership'
    BY <1>5 DEF Ownership, Loses
  <2> QED
    BY <1>5, <2>1, <2>2, SocketAssumption DEF Loses, PathIsLost, NotASocket
<1> QED
  BY <1>2, <1>3, <1>4, <1>5, DeploymentEffect

\* They keep the order, as long as startups do not overlap.
LEMMA DeploymentOrder ==
  ASSUME DeploymentTypeOK, Ownership, ~overlapped => Order, ~overlapped', [DeploymentNext]_dvars
  PROVE  Order'
<1> USE DEF Starting, Stopped, Bound
<1>1. TypeOK
  BY DEF DeploymentTypeOK
<1>2. ~overlapped /\ Order
  <2>1. ASSUME NEW d \in Daemon, Effect(d) PROVE ~overlapped
    BY <2>1 DEF Effect, Start, Spawned, Exits, Moves, Proceeds, Creates, Clears, Binds, Listen,
                Publishes, Records, history
  <2>2. ASSUME Launched \/ Halted \/ Loses PROVE ~overlapped
    BY <2>2 DEF Launched, Spawned, Halted, Loses, history
  <2> QED
    BY <2>1, <2>2, DeploymentEffect
<1>3. raced => raced'
  BY DeploymentEffect
<1>4. ASSUME NEW d \in Daemon, Spawned(d) PROVE Order'
  <2>1. /\ pc' = [pc EXCEPT ![d] = "find"] /\ \A e \in Daemon : pc[e] \notin Starting
        /\ UNCHANGED <<path, listening, own, recorded>>
    BY <1>4 DEF Spawned, Goto
  <2>2. pc'[d] = "find" /\ \A e \in Daemon \ {d} : pc'[e] = pc[e]
    BY <1>1, <2>1 DEF TypeOK
  <2>3. \A e, f \in Daemon : pc'[e] \in Starting /\ pc'[f] \in Starting => e = f
    BY <2>1, <2>2
  <2>4. ASSUME NEW e \in Daemon
        PROVE  /\ pc'[e] \in {"listen", "chmod", "validate"} => path' \in {0, own'[e]}
               /\ recorded'[e] # 0 => recorded'[e] = own'[e]
               /\ pc'[e] = "reclaim" => path' \notin listening'
               /\ pc'[e] = "unlinking" => raced' \/ path' \in {0, own'[e]}
    BY <1>2, <1>3, <2>1, <2>2 DEF Order
  <2> QED
    BY <2>3, <2>4 DEF Order
<1>5. ASSUME NEW d \in Daemon, Effect(d) PROVE Order'
  <2> USE <1>1, <1>2, <1>3 DEF TypeOK, Order, Ownership
  <2>1. CASE Start(d)
    BY <1>4, <2>1 DEF Start
  <2>2. CASE Exits(d)
    BY <2>2 DEF Exits, End, Goto, history
  <2>3. CASE Moves(d)
    <3>1. PICK place \in Starting \cup {"unlinking", "closing"} :
            Turn(d, place) /\ Proceeds(d, place)
      BY <2>3 DEF Moves
    <3>2. pc'[d] = place /\ \A e \in Daemon \ {d} : pc'[e] = pc[e]
      BY <3>1 DEF Proceeds, Goto
    <3>3. UNCHANGED <<path, listening, own, recorded>>
      BY <3>1 DEF Proceeds
    <3>4. place \in Starting => pc[d] \in Starting
      BY <3>1 DEF Turn
    <3>5. place \notin {"listen", "chmod", "validate"}
      BY <3>1 DEF Turn
    <3>6. place = "reclaim" => path \notin listening
      BY <3>1 DEF Turn
    <3>7. place = "unlinking" => path \in {0, own[d]}
      BY <3>1 DEF Turn
    <3> QED
      BY <3>2, <3>3, <3>4, <3>5, <3>6, <3>7
  <2>4. CASE Creates(d)
    BY <2>4 DEF Creates, Goto, history
  <2>5. CASE Clears(d)
    BY <2>5 DEF Clears, Goto, history
  <2>6. CASE Binds(d)
    <3>1. created' # created
      BY <2>6 DEF Binds
    <3>2. ASSUME NEW e \in Daemon, pc[e] = "unlinking" PROVE raced'
      BY <3>1, <3>2, DeploymentEffect
    <3> QED
      BY <2>6, <3>2 DEF Binds, Goto, history
  <2>7. CASE Listen(d)
    BY <2>7 DEF Listen, Goto, history
  <2>8. CASE Publishes(d)
    BY <2>8 DEF Publishes, Goto, history
  <2>9. CASE Records(d)
    BY <2>9 DEF Records, Goto, history
  <2> QED
    BY <1>5, <2>1, <2>2, <2>3, <2>4, <2>5, <2>6, <2>7, <2>8, <2>9 DEF Effect
<1>6. CASE Launched
  BY <1>4, <1>6, DeploymentAssumption DEF Launched
<1>7. CASE Halted
  BY <1>1, <1>2, <1>3, <1>7 DEF Halted, PathIsLost, End, Goto, TypeOK, Order, Ownership
<1>8. CASE Loses
  BY <1>1, <1>2, <1>3, <1>8 DEF Loses, PathIsLost, TypeOK, Order, Ownership
<1> QED
  BY <1>5, <1>6, <1>7, <1>8, DeploymentEffect
-----------------------------------------------------------------------------
(* The service and its sockets *)

\* systemctl stop leaves no service, and the others alone.
LEMMA StopsFacts ==
  ASSUME TypeOK, StopsService
  PROVE  /\ ~ServiceRuns' /\ \A d \in Hand : pc'[d] = pc[d]
         /\ own'[Service] = 0 /\ tidy' = TRUE /\ wanted' = FALSE
         /\ since' = created /\ created' = created
         /\ path' = IF tidy THEN path ELSE 0
         /\ UNCHANGED <<setup, ofService, raced>>
<1>1. PICK how \in Stopped : End(Service, how)
  BY StopsHalts DEF Halted
<1>2. pc' = [pc EXCEPT ![Service] = how] /\ own' = [own EXCEPT ![Service] = 0]
  BY <1>1 DEF End, Goto
<1>3. pc'[Service] = how /\ own'[Service] = 0 /\ \A d \in Hand : pc'[d] = pc[d]
  BY <1>2, DeploymentAssumption DEF TypeOK, Hand
<1> QED
  BY <1>3 DEF StopsService, ServiceRuns

\* Daemons that run do not start others, and the service is not started by hand.
LEMMA DaemonFacts ==
  ASSUME TypeOK, DaemonRuns \/ StartedByHand
  PROVE  /\ ServiceRuns' => ServiceRuns
         /\ DaemonRuns => \A d \in Daemon : pc[d] \in Stopped => pc'[d] = pc[d]
<1>1. CASE DaemonRuns
  <2>1. PICK d \in Daemon : StartStep(d) \/ Drop(d) \/ StopStep(d) \/ Kill(d)
    BY <1>1 DEF DaemonRuns
  <2>2. pc[d] \notin Stopped /\ \A e \in Daemon \ {d} : pc'[e] = pc[e]
    BY <2>1, RunningSteps
  <2> QED
    BY <2>2, DeploymentAssumption DEF ServiceRuns
<1>2. CASE StartedByHand
  <2>1. PICK d \in Hand : Start(d)
    BY <1>2 DEF StartedByHand
  <2>2. pc'[Service] = pc[Service]
    BY <2>1, DeploymentAssumption DEF Hand, Start, Spawned, Goto, TypeOK
  <2>3. ASSUME DaemonRuns PROVE \A e \in Daemon : pc[e] \in Stopped => pc'[e] = pc[e]
    BY <1>1, <2>3
  <2> QED
    BY <2>2, <2>3 DEF ServiceRuns
<1> QED
  BY <1>1, <1>2

\* Only the service manager and the installer start the service.
LEMMA OnlyLaunched ==
  ASSUME TypeOK, [DeploymentNext]_dvars, ServiceRuns', ~ServiceRuns
  PROVE  Restarted \/ StartService
<1>1. ASSUME UNCHANGED vars PROVE FALSE
  BY <1>1 DEF vars, ServiceRuns
<1>2. ~DaemonRuns /\ ~StartedByHand
  BY DaemonFacts
<1>3. ~StopsService
  BY StopsFacts
<1>4. ~DirectoryRemoved /\ ~RemoveSocket
  BY DEF DirectoryRemoved, RemoveSocket, ServiceRuns
<1>5. ~RunInstall /\ ~WriteManifest /\ ~WriteUnit /\ ~FindSocket /\ ~CheckService /\ ~CheckMode
  BY <1>1 DEF RunInstall, WriteManifest, WriteUnit, FindSocket, CheckService, CheckMode
<1>6. ~RunUninstall /\ ~RemoveManifest /\ ~RemoveUnit /\ ~Reload /\ ~Interrupted
  BY <1>1 DEF RunUninstall, RemoveManifest, RemoveUnit, Reload, Interrupted
<1>7. ~StopForRestart /\ ~StopService
  BY <1>1, <1>3 DEF StopForRestart, StopService
<1> QED
  BY <1>1, <1>2, <1>4, <1>5, <1>6, <1>7
  DEF DeploymentNext, ManagerStep, InstallStep, UninstallStep, dvars

\* Socket files are only added.
LEMMA OnlyCreated ==
  ASSUME DeploymentTypeOK, [DeploymentNext]_dvars
  PROVE  created' = created \/ created' = created + 1
<1>1. ASSUME NEW d \in Daemon, Effect(d) PROVE created' = created \/ created' = created + 1
  BY <1>1, EffectOnPath DEF DeploymentTypeOK, Binds
<1> QED
  BY <1>1, DeploymentEffect DEF Launched, Spawned, Halted, Loses

\* The sockets of the service, and where its directory is.
LEMMA NextFreshness ==
  ASSUME DeploymentTypeOK, Ownership, Freshness, [DeploymentNext]_dvars
  PROVE  /\ Freshness' /\ since' \in 0..created' /\ ofService' \subseteq 1..created'
         /\ setup' = setup /\ tidy' \in BOOLEAN
         /\ setup.runtimeDirectory => (ServiceRuns' => ~tidy')
<1> DEFINE Goal == /\ Freshness' /\ since' \in 0..created' /\ ofService' \subseteq 1..created'
                   /\ setup' = setup /\ tidy' \in BOOLEAN
                   /\ setup.runtimeDirectory => (ServiceRuns' => ~tidy')
<1> SUFFICES Goal
  OBVIOUS
<1>1. /\ TypeOK /\ created \in Nat /\ since \in 0..created /\ ofService \subseteq 1..created
      /\ tidy \in BOOLEAN /\ setup \in Setup
      /\ setup.runtimeDirectory => (ServiceRuns => ~tidy)
  <2>1. /\ TypeOK /\ since \in 0..created /\ ofService \subseteq 1..created
        /\ tidy \in BOOLEAN /\ setup \in Setup
        /\ setup.runtimeDirectory => (ServiceRuns => ~tidy)
    BY DEF DeploymentTypeOK
  <2>2. created \in Nat
    BY <2>1, SocketAssumption DEF TypeOK
  <2> QED
    BY <2>1, <2>2
<1>2. ASSUME UNCHANGED <<setup, tidy, since, ofService, created>>,
             own'[Service] \in {0, own[Service]}, path' \in {0, path}, ServiceRuns' => ServiceRuns
      PROVE  Goal
  BY <1>1, <1>2 DEF Freshness
<1>3. CASE DaemonRuns
  <2>1. PICK d \in Daemon : Effect(d)
    BY <1>1, <1>3, CallEffect DEF DaemonRuns
  <2>2. /\ UNCHANGED <<setup, tidy, since>> /\ ofService' = ofService \cup ({own'[Service]} \ {0})
        /\ ServiceRuns' => ServiceRuns
    BY <1>1, <1>3, DaemonFacts DEF DaemonRuns, service
  <2>3. CASE path' \in {0, path} /\ created' = created /\ \A e \in Daemon : own'[e] \in {0, own[e]}
    <3>1. own'[Service] \in {0, own[Service]}
      BY <2>3, DeploymentAssumption
    <3>2. ofService' = ofService
      BY <2>2, <3>1 DEF Freshness
    <3> QED
      BY <1>2, <2>2, <2>3, <3>1, <3>2
  <2>4. CASE Binds(d)
    <3>1. /\ created' = created + 1 /\ path' = created + 1 /\ pc[d] = "bind"
          /\ own' = [own EXCEPT ![d] = created + 1]
      BY <2>4 DEF Binds
    <3>2. own'[Service] = IF d = Service THEN created + 1 ELSE own[Service]
      BY <1>1, <3>1, DeploymentAssumption DEF TypeOK
    <3>3. own'[Service] # 0 => own'[Service] \in ofService'
      BY <2>2
    <3>4. ofService' = IF d = Service THEN ofService \cup {created + 1} ELSE ofService
      BY <1>1, <2>2, <3>2 DEF Freshness
    <3>5. ofService' \subseteq 1..created' /\ since' \in 0..created' /\ path' > since'
      <4>1. ofService' \subseteq ofService \cup {created + 1}
        BY <3>4
      <4>2. 1..created \cup {created + 1} \subseteq 1..created + 1
            /\ 0..created \subseteq 0..created + 1 /\ created + 1 > since
        BY <1>1
      <4>3. since' = since
        BY <2>2
      <4> QED
        BY <1>1, <3>1, <4>1, <4>2, <4>3
    <3>6. ASSUME setup.runtimeDirectory, tidy PROVE path' \notin ofService'
      <4>1. d # Service
        BY <1>1, <3>1, <3>6 DEF ServiceRuns, Stopped
      <4> QED
        BY <1>1, <3>1, <3>4, <4>1
    <3> QED
      BY <1>1, <2>2, <3>3, <3>5, <3>6 DEF Freshness
  <2> QED
    BY <1>1, <2>1, <2>3, <2>4, EffectOnPath
<1>4. CASE StartedByHand
  <2>1. UNCHANGED <<setup, tidy, since, ofService, created, own, path>>
    BY <1>4 DEF StartedByHand, Start, Spawned, service
  <2> QED
    BY <1>1, <1>2, <1>4, <2>1, DaemonFacts
<1>5. ASSUME Launch, UNCHANGED <<setup, since, ofService>> PROVE Goal
  <2>1. UNCHANGED <<created, own, path>> /\ tidy = TRUE /\ tidy' = ~setup.runtimeDirectory
    BY <1>1, <1>5 DEF Launch, Spawned
  <2>2. tidy' \in BOOLEAN
    BY <1>1, <2>1 DEF Setup
  <2> QED
    BY <1>1, <1>5, <2>1, <2>2 DEF Freshness
<1>6. ASSUME StopsService PROVE Goal
  <2>1. /\ ~ServiceRuns' /\ own'[Service] = 0 /\ tidy' = TRUE /\ since' = created /\ created' = created
        /\ path' = IF tidy THEN path ELSE 0
        /\ UNCHANGED <<setup, ofService>>
    BY <1>1, <1>6, StopsFacts
  <2>2. setup.runtimeDirectory => path' \notin ofService
    BY <1>1, <2>1 DEF Freshness
  <2> QED
    BY <1>1, <2>1, <2>2 DEF Freshness
<1>7. CASE DirectoryRemoved
  <2>1. /\ UNCHANGED <<setup, since, ofService, created, own>> /\ tidy' = TRUE /\ path' = 0
        /\ ~ServiceRuns'
    BY <1>7 DEF DirectoryRemoved, remembered, ServiceRuns
  <2> QED
    BY <1>1, <2>1 DEF Freshness
<1>8. CASE RemoveSocket
  <2>1. /\ UNCHANGED <<setup, tidy, since, ofService, created, own>> /\ path' \in {0, path}
        /\ ServiceRuns' => ServiceRuns
    BY <1>8 DEF RemoveSocket, service, remembered, ServiceRuns
  <2> QED
    BY <1>2, <2>1
<1>9. ASSUME UNCHANGED <<vars, setup, tidy, since, ofService>> PROVE Goal
  BY <1>2, <1>9 DEF vars, ServiceRuns
<1> HIDE DEF Goal
<1>10. CASE Restarted \/ StartService
  BY <1>5, <1>10 DEF Restarted, StartService, remembered
<1>11. CASE StopForRestart \/ StopService
  BY <1>6, <1>9, <1>11 DEF StopForRestart, StopService, service
<1>12. CASE RunInstall \/ WriteManifest \/ WriteUnit \/ FindSocket \/ CheckService \/ CheckMode
  BY <1>9, <1>12 DEF RunInstall, WriteManifest, WriteUnit, FindSocket, CheckService, CheckMode,
                     service, remembered
<1>13. CASE RunUninstall \/ RemoveManifest \/ RemoveUnit \/ Reload \/ Interrupted
  BY <1>9, <1>13 DEF RunUninstall, RemoveManifest, RemoveUnit, Reload, Interrupted, service,
                     remembered
<1>14. CASE UNCHANGED dvars
  BY <1>9, <1>14 DEF dvars, service, remembered
<1> QED
  BY <1>3, <1>4, <1>7, <1>8, <1>10, <1>11, <1>12, <1>13, <1>14
  DEF DeploymentNext, ManagerStep, InstallStep, UninstallStep
-----------------------------------------------------------------------------
(* The scripts *)

\* What the types say of scripts, files and history.
ScriptTypes ==
  /\ mode \in Mode
  /\ script \in {"idle", "write manifest", "write unit", "stop for restart", "start",
                 "find socket", "check service", "check mode", "stop service",
                 "remove manifest", "remove unit", "remove socket", "reload"}
  /\ outcome \in {"none", "installed", "failed", "uninstalled"}
  /\ wanted \in BOOLEAN /\ manifest \in BOOLEAN /\ unit \in BOOLEAN
  /\ undisturbed \in BOOLEAN /\ raced \in BOOLEAN

LEMMA NextScriptTypes ==
  ASSUME ScriptTypes, [DeploymentNext]_dvars
  PROVE  ScriptTypes'
<1> USE DEF ScriptTypes, Goes, Ends, files, run, service, remembered
<1>1. CASE DaemonRuns
  BY <1>1 DEF DaemonRuns
<1>2. CASE StartedByHand \/ Restarted \/ DirectoryRemoved
  BY <1>2 DEF StartedByHand, Restarted, DirectoryRemoved
<1>3. CASE StopForRestart \/ StopService
  BY <1>3 DEF StopForRestart, StopService, StopsService
<1>4. CASE RunInstall \/ RunUninstall
  BY <1>4 DEF RunInstall, RunUninstall, Mode
<1>5. CASE WriteManifest \/ WriteUnit \/ StartService \/ FindSocket \/ CheckService \/ CheckMode
  BY <1>5 DEF WriteManifest, WriteUnit, StartService, FindSocket, CheckService, CheckMode
<1>6. CASE RemoveManifest \/ RemoveUnit \/ RemoveSocket \/ Reload \/ Interrupted
  BY <1>6 DEF RemoveManifest, RemoveUnit, RemoveSocket, Reload, Interrupted
<1>7. CASE UNCHANGED dvars
  BY <1>7 DEF dvars
<1> QED
  BY <1>1, <1>2, <1>3, <1>4, <1>5, <1>6, <1>7
  DEF DeploymentNext, ManagerStep, InstallStep, UninstallStep

\* What has been removed stays so until the next script.
LEMMA NextProgress ==
  ASSUME ScriptTypes, setup \in Setup, Progress, [DeploymentNext]_dvars
  PROVE  Progress'
<1>1. setup.manager \in {"systemd", "launchd"}
  BY DEF Setup
<1> USE DEF ScriptTypes, Progress, Past, Goes, Ends, Mode, files, run, service, remembered
<1>2. setup' = setup
  BY DEF DeploymentNext, DaemonRuns, StartedByHand, ManagerStep, Restarted, DirectoryRemoved,
         InstallStep, RunInstall, WriteManifest, WriteUnit, StopForRestart, StartService, FindSocket,
         CheckService, CheckMode, UninstallStep, RunUninstall, StopService, RemoveManifest,
         RemoveUnit, RemoveSocket, Reload, Interrupted, StopsService, dvars
<1>3. CASE DaemonRuns \/ StartedByHand \/ Restarted \/ DirectoryRemoved
  <2>1. UNCHANGED <<setup, wanted, manifest, unit, script, mode, outcome>>
    BY <1>3 DEF DaemonRuns, StartedByHand, Restarted, DirectoryRemoved
  <2> QED
    BY <2>1
<1>4. CASE RunInstall \/ RunUninstall
  BY <1>2, <1>4 DEF RunInstall, RunUninstall
<1>5. CASE WriteManifest \/ WriteUnit
  BY <1>2, <1>5 DEF WriteManifest, WriteUnit
<1>6. CASE StartService \/ FindSocket \/ CheckService \/ CheckMode
  BY <1>2, <1>6 DEF StartService, FindSocket, CheckService, CheckMode
<1>7. CASE StopForRestart
  BY <1>2, <1>7 DEF StopForRestart, StopsService
<1>8. CASE StopService
  BY <1>2, <1>8 DEF StopService, StopsService
<1>9. CASE RemoveManifest \/ RemoveUnit
  <2>1. CASE RemoveManifest
    BY <1>2, <1>9, <2>1 DEF RemoveManifest
  <2>2. CASE RemoveUnit
    BY <1>2, <1>9, <2>2 DEF RemoveUnit
  <2> QED
    BY <1>9, <2>1, <2>2
<1>10. CASE RemoveSocket
  BY <1>1, <1>2, <1>10 DEF RemoveSocket
<1>11. CASE Reload \/ Interrupted
  <2>1. CASE Reload
    BY <1>2, <2>1 DEF Reload
  <2>2. CASE Interrupted
    BY <1>2, <2>2 DEF Interrupted
  <2> QED
    BY <1>11, <2>1, <2>2
<1>12. CASE UNCHANGED dvars
  BY <1>12 DEF dvars
<1> QED
  BY <1>3, <1>4, <1>5, <1>6, <1>7, <1>8, <1>9, <1>10, <1>11, <1>12
  DEF DeploymentNext, ManagerStep, InstallStep, UninstallStep

\* While nobody else starts one, no daemon runs again once the service has been stopped.
LEMMA NextQuiet ==
  ASSUME DeploymentTypeOK, path # NotASocket, Progress, Quiet, [DeploymentNext]_dvars
  PROVE  Quiet'
<1> DEFINE Still == /\ \A d \in Hand : pc'[d] \in Stopped
                    /\ ServiceRuns' => ServiceRuns
                    /\ ~ServiceRuns => path' \in {0, path}
           Goal == /\ \A d \in Hand : pc'[d] \in Stopped
                   /\ Past({"remove manifest", "remove unit", "remove socket", "reload"})'
                        => ~ServiceRuns'
                   /\ Past({"reload"})' => path' = 0
<1> SUFFICES ASSUME undisturbed' PROVE Goal
  BY DEF Quiet, Past, ServiceRuns
<1> USE DEF Past
<1>1. TypeOK
  BY DEF DeploymentTypeOK
<1>2. ASSUME undisturbed, Still, UNCHANGED <<script, outcome>> PROVE Goal
  BY <1>2 DEF Quiet
<1>3. ASSUME undisturbed, UNCHANGED vars PROVE Still
  BY <1>3 DEF vars, Quiet, ServiceRuns
<1>4. CASE DaemonRuns
  <2>1. undisturbed /\ UNCHANGED <<script, outcome>>
    BY <1>4 DEF DaemonRuns, run
  <2>2. \A d \in Hand : pc'[d] \in Stopped
    BY <1>1, <1>4, <2>1, DaemonFacts DEF Quiet, Hand
  <2>3. ServiceRuns' => ServiceRuns
    BY <1>1, <1>4, DaemonFacts
  <2>4. ASSUME ~ServiceRuns PROVE FALSE
    <3>1. PICK d \in Daemon : StartStep(d) \/ Drop(d) \/ StopStep(d) \/ Kill(d)
      BY <1>4 DEF DaemonRuns
    <3>2. pc[d] \notin Stopped
      BY <1>1, <3>1, RunningSteps
    <3> QED
      BY <2>1, <2>4, <3>2 DEF Quiet, Hand, ServiceRuns
  <2> QED
    BY <1>2, <2>1, <2>2, <2>3, <2>4
<1>5. ~StartedByHand /\ ~Restarted /\ ~RunInstall
  BY DEF StartedByHand, Restarted, RunInstall
<1>6. CASE DirectoryRemoved
  <2>1. undisturbed /\ UNCHANGED <<script, outcome>>
    BY <1>6 DEF DirectoryRemoved, run, remembered
  <2>2. Still
    BY <1>6, <2>1 DEF DirectoryRemoved, Quiet, ServiceRuns
  <2> QED
    BY <1>2, <2>1, <2>2
<1>7. CASE RunUninstall
  <2>1. UNCHANGED pc /\ \A d \in Hand : pc[d] \in Stopped
    BY <1>7 DEF RunUninstall, vars
  <2>2. script' = "remove manifest" => ~ServiceRuns
    BY <1>7 DEF RunUninstall
  <2>3. script' \in {"stop service", "remove manifest"} /\ outcome' = "none"
    BY <1>7 DEF RunUninstall
  <2> QED
    BY <2>1, <2>2, <2>3 DEF ServiceRuns
<1>8. CASE StopForRestart \/ StopService
  <2>1. undisturbed /\ outcome = "none" /\ outcome' = "none"
        /\ script' \in {"start", "remove manifest"}
    BY <1>8 DEF StopForRestart, StopService, StopsService, Goes, remembered, Progress
  <2>2. ~ServiceRuns' /\ \A d \in Hand : pc'[d] = pc[d]
    BY <1>1, <1>8, StopsFacts DEF StopForRestart, StopService, ServiceRuns, vars
  <2> QED
    BY <2>1, <2>2 DEF Quiet
<1>9. CASE StartService
  <2>1. undisturbed /\ outcome = "none" /\ outcome' = "none" /\ script' = "find socket"
    BY <1>9 DEF StartService, Goes, remembered, Progress
  <2>2. \A d \in Hand : pc'[d] = pc[d]
    BY <1>1, <1>9 DEF StartService, Launch, Spawned, Goto, TypeOK, Hand
  <2> QED
    BY <2>1, <2>2 DEF Quiet
<1>10. CASE WriteManifest \/ WriteUnit \/ FindSocket \/ CheckService \/ CheckMode \/ Interrupted
  <2>1. /\ undisturbed /\ UNCHANGED vars /\ outcome' # "uninstalled"
        /\ script' \in {"idle", "write unit", "stop for restart", "check service", "check mode",
                        "find socket"}
    BY <1>10 DEF WriteManifest, WriteUnit, FindSocket, CheckService, CheckMode, Interrupted, Goes, Ends,
                 remembered, Progress
  <2> QED
    BY <1>3, <2>1
<1>11. CASE RemoveManifest \/ RemoveUnit
  <2>1. /\ undisturbed /\ UNCHANGED vars /\ script \in {"remove manifest", "remove unit"}
        /\ outcome' = "none" /\ script' \in {"remove unit", "remove socket"}
    BY <1>11 DEF RemoveManifest, RemoveUnit, Goes, remembered, Progress
  <2> QED
    BY <1>3, <2>1 DEF Quiet
<1>12. CASE RemoveSocket
  <2>1. undisturbed /\ UNCHANGED pc /\ script = "remove socket"
    BY <1>12 DEF RemoveSocket, remembered
  <2>2. path' = 0
    <3>1. path \in 0..created /\ created \in Nat
      BY <1>1, SocketAssumption DEF TypeOK
    <3>2. path = 0 \/ path \in 1..created
      BY <3>1
    <3> QED
      BY <1>12, <3>2 DEF RemoveSocket, IsSocket
  <2> QED
    BY <2>1, <2>2 DEF Quiet, ServiceRuns
<1>13. CASE Reload
  <2>1. undisturbed /\ UNCHANGED vars /\ script = "reload"
    BY <1>13 DEF Reload, remembered
  <2> QED
    BY <2>1 DEF Quiet, ServiceRuns, vars
<1>14. CASE UNCHANGED dvars
  <2>1. undisturbed /\ UNCHANGED vars /\ UNCHANGED <<script, outcome>>
    BY <1>14 DEF dvars, run, remembered
  <2> QED
    BY <1>2, <1>3, <2>1
<1> QED
  BY <1>4, <1>5, <1>6, <1>7, <1>8, <1>9, <1>10, <1>11, <1>12, <1>13, <1>14
  DEF DeploymentNext, ManagerStep, InstallStep, UninstallStep
-----------------------------------------------------------------------------
(* The invariant *)

LEMMA InitDeployment == DeploymentInit => DInv
<1> SUFFICES ASSUME DeploymentInit PROVE DInv
  OBVIOUS
<1>1. TypeOK /\ Ownership
  BY InitInvariant DEF DeploymentInit, IInv
<1>2. /\ pc = [d \in Daemon |-> "stopped"] /\ own = [d \in Daemon |-> 0]
      /\ recorded = [d \in Daemon |-> 0] /\ created = 0 /\ path = 0
  BY DEF DeploymentInit, Init
<1>3. /\ setup \in Setup /\ tidy = TRUE /\ wanted = FALSE /\ manifest = FALSE /\ unit = FALSE
      /\ script = "idle" /\ mode = "install" /\ outcome = "none" /\ since = 0 /\ ofService = {}
      /\ undisturbed = FALSE /\ raced = FALSE
  BY DEF DeploymentInit
<1>4. ~ServiceRuns
  BY <1>2, DeploymentAssumption DEF ServiceRuns, Stopped
<1>5. DeploymentTypeOK
  <2>1. since \in 0..created /\ ofService \subseteq 1..created
    BY <1>2, <1>3
  <2>2. {tidy, wanted, manifest, unit, undisturbed, raced} \subseteq BOOLEAN
    BY <1>3
  <2>3. mode \in Mode
    BY <1>3 DEF Mode
  <2> QED
    BY <1>1, <1>3, <1>4, <2>1, <2>2, <2>3 DEF DeploymentTypeOK
<1>6. path # NotASocket
  BY <1>2, SocketAssumption DEF NotASocket
<1>7. Order
  BY <1>2 DEF Order, Starting
<1>8. Freshness
  BY <1>2, <1>3, DeploymentAssumption DEF Freshness
<1>9. Progress /\ Quiet
  BY <1>3 DEF Progress, Quiet, Past
<1> QED
  BY <1>1, <1>5, <1>6, <1>7, <1>8, <1>9 DEF DInv

LEMMA NextDeployment == DInv /\ [DeploymentNext]_dvars => DInv'
<1> SUFFICES ASSUME DInv, [DeploymentNext]_dvars PROVE DInv'
  OBVIOUS
<1> USE DEF DInv
<1>1. TypeOK' /\ Ownership' /\ path' # NotASocket
  BY DeploymentDaemons
<1>2. /\ Freshness' /\ since' \in 0..created' /\ ofService' \subseteq 1..created'
      /\ setup' = setup /\ tidy' \in BOOLEAN
      /\ setup.runtimeDirectory => (ServiceRuns' => ~tidy')
  BY NextFreshness
<1>3. ScriptTypes /\ setup \in Setup
  BY DEF DeploymentTypeOK, ScriptTypes
<1>4. ScriptTypes' /\ Progress'
  BY <1>3, NextScriptTypes, NextProgress
<1>5. Quiet'
  BY NextQuiet
<1>6. ~overlapped' => Order'
  BY DeploymentOrder
<1>7. DeploymentTypeOK'
  BY <1>1, <1>2, <1>3, <1>4 DEF DeploymentTypeOK, ScriptTypes
<1> QED
  BY <1>1, <1>2, <1>4, <1>5, <1>6, <1>7

LEMMA DeploymentInvariant == DeploymentSpec => []DInv
  BY InitDeployment, NextDeployment, PTL DEF DeploymentSpec

\* Daemons, scripts and service manager have their types, and a runtime directory exists as long
\* as the service runs (install-host.sh:197).
THEOREM DeploymentTypeCorrect == DeploymentSpec => []DeploymentTypeOK
<1>1. DInv => DeploymentTypeOK
  BY DEF DInv
<1> QED
  BY <1>1, DeploymentInvariant, PTL

\* A full uninstallation that nobody has disturbed leaves nothing, whatever was installed,
\* interrupted or killed before (uninstall-host.sh:61-115).
THEOREM NothingIsLeft == DeploymentSpec => []UninstallLeavesNothing
<1>1. DInv => UninstallLeavesNothing
  <2> SUFFICES ASSUME DInv, outcome = "uninstalled", undisturbed
               PROVE  /\ ~ServiceRuns /\ ~IsSocket /\ ~manifest
                      /\ mode = "install" => ~wanted
                      /\ mode # "ephemeral" => ~unit
    BY DEF UninstallLeavesNothing
  <2>1. ~ServiceRuns /\ path = 0
    BY DEF DInv, Quiet, Past
  <2>2. /\ ~manifest
        /\ mode = "install" => ~wanted
        /\ mode # "ephemeral" => ~unit
    BY DEF DInv, Progress, Past
  <2>3. ~IsSocket
    BY <2>1 DEF IsSocket
  <2> QED
    BY <2>1, <2>2, <2>3
<1> QED
  BY <1>1, DeploymentInvariant, PTL

\* The socket on which a full installation reports success is not one the service has left
\* behind (install-host.sh:264-292).
THEOREM AlwaysVouchesForFresh == DeploymentSpec => VouchesForFreshSocket
<1> DEFINE A == script = "check mode" /\ outcome' = "installed" /\ setup.runtimeDirectory
                  /\ path \in ofService => path > since
<1>1. DInv /\ [DeploymentNext]_dvars => [A]_dvars
  BY DEF DInv, Freshness
<1> HIDE DEF A
<1>2. DeploymentSpec => [][A]_dvars
  BY <1>1, DeploymentInvariant, PTL DEF DeploymentSpec
<1> QED
  BY <1>2 DEF A, VouchesForFreshSocket

\* Nothing brings the service back after a full uninstallation (uninstall-host.sh:73-79,111-113).
THEOREM NothingIsEverRestarted == DeploymentSpec => NothingIsRestarted
<1> DEFINE A == outcome = "uninstalled" /\ mode = "install" /\ outcome' = outcome
                  => ~ServiceRuns' \/ ServiceRuns
<1>1. ASSUME DInv, [DeploymentNext]_dvars PROVE A
  <2> SUFFICES ASSUME outcome = "uninstalled", mode = "install", ServiceRuns', ~ServiceRuns
               PROVE  FALSE
    OBVIOUS
  <2>1. Restarted \/ StartService
    BY <1>1, OnlyLaunched DEF DInv, DeploymentTypeOK
  <2>2. ~wanted /\ script = "idle"
    BY <1>1 DEF DInv, Progress
  <2> QED
    BY <2>1, <2>2 DEF Restarted, StartService
<1>2. DInv /\ [DeploymentNext]_dvars => [A]_dvars
  BY <1>1
<1> HIDE DEF A
<1>3. DeploymentSpec => [][A]_dvars
  BY <1>2, DeploymentInvariant, PTL DEF DeploymentSpec
<1> QED
  BY <1>3 DEF A, NothingIsRestarted

\* What is private is a file.
LEMMA PrivateIsFile ==
  ASSUME TypeOK
  PROVE  0 \notin private
<1>1. private \subseteq 1..created /\ created \in Nat
  BY SocketAssumption DEF TypeOK
<1> QED
  BY <1>1

\* A daemon that reaches the end of its startup is reached, and stays so until it ends or the
\* uninstaller takes its socket (install-host.sh:197, ipc.rs:239-251).
LEMMA ServiceStaysReachable ==
  ASSUME DInv, DInv', [DeploymentNext]_dvars, ~overlapped', ~raced', script # "remove socket",
         pc'[Service] = "serving", pc[Service] = "serving" => Reaches(Service)
  PROVE  Reaches(Service)'
<1>1. TypeOK /\ TypeOK' /\ Ownership /\ Ownership' /\ Service \in Daemon
  BY DeploymentAssumption DEF DInv, DeploymentTypeOK
<1>2. ~overlapped /\ ~raced /\ Order
  <2>1. raced => raced'
    BY DeploymentEffect DEF DInv
  <2>2. ASSUME NEW d \in Daemon, Effect(d) PROVE overlapped => overlapped'
    BY <2>2 DEF Effect, Start, Spawned, Exits, Moves, Proceeds, Creates, Clears, Binds, Listen,
                Publishes, Records, history
  <2>3. ASSUME Launched \/ Halted \/ Loses PROVE overlapped => overlapped'
    BY <2>3 DEF Launched, Spawned, Halted, Loses, history
  <2> QED
    BY <2>1, <2>2, <2>3, DeploymentEffect DEF DInv
<1>3. 0 \notin private
  BY <1>1, PrivateIsFile
<1>4. own'[Service] \in listening'
  BY <1>1 DEF Ownership, Bound
<1>5. ASSUME pc[Service] = "serving", UNCHANGED <<path, private, own>> PROVE Reaches(Service)'
  BY <1>4, <1>5 DEF Reaches
<1>6. ASSUME NEW d \in Daemon, Effect(d) PROVE Reaches(Service)'
  <2>1. CASE pc[Service] # "serving"
    <3>1. d = Service /\ Records(d)
      <4> USE DEF Effect, Start, Spawned, Exits, End, Moves, Turn, Proceeds, Creates, Clears, Binds,
                  Listen, Publishes, Records, Goto, TypeOK, Stopped, Starting
      <4>1. \E place : pc' = [pc EXCEPT ![d] = place]
        BY <1>6
      <4>2. d = Service /\ pc'[Service] # pc[Service]
        BY <1>1, <2>1, <4>1
      <4> QED
        BY <1>1, <1>6, <2>1, <4>2
    <3>2. path \in {0, own[Service]} /\ path \in private /\ UNCHANGED <<path, private, own>>
      BY <1>2, <3>1 DEF Records, Order
    <3>3. path # 0
      BY <1>3, <3>2
    <3> QED
      BY <1>4, <3>2, <3>3 DEF Reaches
  <2>2. CASE pc[Service] = "serving"
    <3>1. path = own[Service] /\ path \in private /\ path \in listening /\ path # 0
      BY <1>3, <2>2 DEF Reaches
    <3>2. ~Clears(d)
      <4>1. pc[d] = "reclaim" => path \notin listening
        BY <1>2 DEF Order
      <4>2. pc[d] = "unlinking" => d = Service
        BY <1>1, <1>2, <3>1 DEF Order, Ownership
      <4> QED
        BY <2>2, <3>1, <4>1, <4>2 DEF Clears
    <3>3. ~Binds(d)
      BY <3>1 DEF Binds
    <3>4. path' = path /\ private \subseteq private' /\ own'[Service] \in {0, own[Service]}
      <4>1. ASSUME Exits(d) PROVE own'[Service] \in {0, own[Service]}
        BY <1>1, <4>1 DEF Exits, End, TypeOK
      <4> QED
        BY <1>6, <3>2, <3>3, <4>1 DEF Effect, Start, Spawned, Exits, End, Moves, Proceeds, Creates,
                                      Listen, Publishes, Records
    <3>5. own'[Service] # 0
      BY <1>1 DEF Ownership, Bound
    <3> QED
      BY <1>4, <3>1, <3>4, <3>5 DEF Reaches
  <2> QED
    BY <2>1, <2>2
<1>7. ~Launched
  BY <1>1 DEF Launched, Spawned, Goto, TypeOK
<1>8. ~Halted
  BY <1>1 DEF Halted, End, Goto, TypeOK, Stopped
<1>9. ASSUME Loses PROVE Reaches(Service)'
  <2>1. pc[Service] = "serving" /\ UNCHANGED <<private, own, listening>>
    BY <1>9 DEF Loses
  <2>2. path' = path
    <3>1. ASSUME UNCHANGED vars PROVE path' = path
      BY <3>1 DEF vars
    <3>2. ServiceRuns
      BY <2>1 DEF ServiceRuns, Stopped
    <3>3. ~DirectoryRemoved /\ ~RemoveSocket
      BY <3>2 DEF DirectoryRemoved, RemoveSocket
    <3>4. ASSUME DaemonRuns \/ StartedByHand PROVE path' = path
      <4>1. PICK d \in Daemon : Effect(d)
        BY <1>1, <3>4, CallEffect DEF DaemonRuns, StartedByHand, Effect, Hand
      <4> QED
        BY <1>6, <2>1, <4>1 DEF Reaches
    <3>5. ~StopsService
      BY <1>1, <2>1, <1>9, StopsFacts DEF ServiceRuns, Stopped, Loses
    <3>6. ~Restarted /\ ~StartService /\ ~StopForRestart
      BY <3>2, <3>5 DEF Restarted, StartService, Launch, Spawned, ServiceRuns, StopForRestart
    <3>7. ASSUME StopService PROVE UNCHANGED vars
      BY <3>2, <3>5, <3>7 DEF StopService
    <3>8. ASSUME RunInstall \/ WriteManifest \/ WriteUnit \/ FindSocket \/ CheckService
                   \/ CheckMode
          PROVE  UNCHANGED vars
      BY <3>8 DEF RunInstall, WriteManifest, WriteUnit, FindSocket, CheckService, CheckMode
    <3>9. ASSUME RunUninstall \/ RemoveManifest \/ RemoveUnit \/ Reload \/ Interrupted
          PROVE  UNCHANGED vars
      BY <3>9 DEF RunUninstall, RemoveManifest, RemoveUnit, Reload, Interrupted
    <3> QED
      BY <3>1, <3>3, <3>4, <3>6, <3>7, <3>8, <3>9
      DEF DeploymentNext, ManagerStep, InstallStep, UninstallStep, dvars
  <2> QED
    BY <1>4, <2>1, <2>2 DEF Reaches
<1> QED
  BY <1>6, <1>7, <1>8, <1>9, DeploymentEffect DEF DInv

\* The service is reachable from the end of its startup to its own.
THEOREM ServiceIsAlwaysReachable == DeploymentSpec => ServiceIsReachable
<1> DEFINE A == /\ ~overlapped' /\ ~raced' /\ script # "remove socket"
                /\ pc'[Service] = "serving" /\ (pc[Service] = "serving" => Reaches(Service))
                => Reaches(Service)'
<1>1. DInv /\ DInv' /\ [DeploymentNext]_dvars => [A]_dvars
  BY ServiceStaysReachable
<1> HIDE DEF A
<1>2. DeploymentSpec => [][A]_dvars
  BY <1>1, DeploymentInvariant, PTL DEF DeploymentSpec
<1> QED
  BY <1>2 DEF A, ServiceIsReachable
=============================================================================
