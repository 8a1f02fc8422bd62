---------------------------- MODULE DaemonRuntime ----------------------------
(***************************************************************************)
(* The persistent daemon as a process: the accept loop with its permits,   *)
(* daemon/src/daemon_runtime.rs, in the two hosts that run it.             *)
(* bin/daemon.rs runs it on the main thread; bin/tauri_host.rs on a thread *)
(* of its own beside the desktop runtime, with a monitor thread that ends  *)
(* the runtime when the loop has ended.                                    *)
(*                                                                         *)
(* What a connection does is ScanSession's matter: here it ends sometime,  *)
(* or never (the read timeout is per read, a client may feed it).          *)
(***************************************************************************)
EXTENDS Naturals, FiniteSets

CONSTANTS
  Client,                   \* the local processes that may connect
  Foreign,                  \* those of another user
  MAX_CONCURRENT_CLIENTS

ASSUME RuntimeAssumption ==
  /\ IsFiniteSet(Client) /\ Foreign \subseteq Client
  /\ MAX_CONCURRENT_CLIENTS \in Nat \ {0}

VARIABLES
  host,       \* "native" or "tauri"
  listener,   \* "binding", "accepting" or "ended" (run returned an error, or panicked)
  client,     \* "away", "queued" in the backlog, or "served" by a thread
  active,     \* active_connections, the permits taken
  ending,     \* the threads whose stream is closed and whose permit is not yet returned
  main,       \* the main thread: "listening" (native), or "building", "built", "monitored"
              \* and "running" (tauri); "exited" is the end of the process
  monitor,    \* the monitor thread: "none", "waiting" or "done"
  exiting     \* the desktop runtime has been asked to exit

loop == <<listener, client, active, ending>>
desktop == <<main, monitor, exiting>>
vars == <<host, loop, desktop>>
-----------------------------------------------------------------------------
Alive == main # "exited"
Served == {c \in Client : client[c] = "served"}

\* verify_peer: the client's process has the daemon's user.
IsOwnUser(c) == c \notin Foreign

\* acquire_connection finds a permit.
PermitLeft == active < MAX_CONCURRENT_CLIENTS

Init ==
  /\ host \in {"native", "tauri"}
  /\ listener = "binding"
  /\ client = [c \in Client |-> "away"] /\ active = 0 /\ ending = 0
  /\ main = IF host = "native" THEN "listening" ELSE "building"
  /\ monitor = "none" /\ exiting = FALSE

\* The process exits, with all its threads.
Exit ==
  /\ main' = "exited" /\ listener' = "ended"
  /\ client' = [c \in Client |-> "away"] /\ active' = 0 /\ ending' = 0
  /\ UNCHANGED <<host, monitor, exiting>>

\* run is left: the listener is dropped, which resets what is in its backlog.
LeaveLoop ==
  /\ listener' = "ended"
  /\ client' = [c \in Client |-> IF client[c] = "queued" THEN "away" ELSE client[c]]
  /\ UNCHANGED <<host, active, ending, desktop>>
-----------------------------------------------------------------------------
(* The accept loop *)

Bind ==
  /\ Alive /\ listener = "binding"
  /\ \/ listener' = "accepting" /\ UNCHANGED <<host, client, active, ending, desktop>>
     \/ LeaveLoop

Connect(c) ==
  /\ Alive /\ listener = "accepting" /\ client[c] = "away"
  /\ client' = [client EXCEPT ![c] = "queued"]
  /\ UNCHANGED <<host, listener, active, ending, desktop>>

\* Two mistakes for the mutation runs: one permit too many, and a loop that waits for one.
AcceptOneMore(c) ==
  /\ Alive /\ listener = "accepting" /\ client[c] = "queued"
  /\ IF IsOwnUser(c) /\ active <= MAX_CONCURRENT_CLIENTS
     THEN active' = active + 1 /\ client' = [client EXCEPT ![c] = "served"]
     ELSE client' = [client EXCEPT ![c] = "away"] /\ UNCHANGED active
  /\ UNCHANGED <<host, listener, ending, desktop>>

AcceptWhenFree(c) ==
  /\ Alive /\ listener = "accepting" /\ client[c] = "queued"
  /\ PermitLeft
  /\ IF IsOwnUser(c)
     THEN active' = active + 1 /\ client' = [client EXCEPT ![c] = "served"]
     ELSE client' = [client EXCEPT ![c] = "away"] /\ UNCHANGED active
  /\ UNCHANGED <<host, listener, ending, desktop>>

\* One turn of the loop: the stream of another user, or one without a permit, is dropped;
\* else a thread is spawned for it, which owns the permit.
Accept(c) ==
  /\ Alive /\ listener = "accepting" /\ client[c] = "queued"
  /\ IF IsOwnUser(c) /\ PermitLeft
     THEN active' = active + 1 /\ client' = [client EXCEPT ![c] = "served"]
     ELSE client' = [client EXCEPT ![c] = "away"] /\ UNCHANGED active
  /\ UNCHANGED <<host, listener, ending, desktop>>

\* The thread cannot be spawned: the closure is dropped with the permit and the stream, and
\* the loop is left.
SpawnFails(c) ==
  /\ Alive /\ listener = "accepting" /\ client[c] = "queued"
  /\ IsOwnUser(c) /\ PermitLeft
  /\ LeaveLoop

\* accept fails for another reason than an interruption.
AcceptFails == Alive /\ listener = "accepting" /\ LeaveLoop

\* A mistake for the mutation runs: a connection that ends in an error keeps its permit.
ConnectionEndsLeaking(c) ==
  /\ Alive /\ client[c] = "served"
  /\ client' = [client EXCEPT ![c] = "away"]
  /\ ending' \in {ending, ending + 1}
  /\ UNCHANGED <<host, listener, active, desktop>>

\* serve_connection returns or unwinds, and has dropped the stream.
ConnectionEnds(c) ==
  /\ Alive /\ client[c] = "served"
  /\ client' = [client EXCEPT ![c] = "away"]
  /\ ending' = ending + 1
  /\ UNCHANGED <<host, listener, active, desktop>>

\* The closure ends: Drop for ConnectionPermit.
PermitReturns ==
  /\ Alive /\ ending > 0
  /\ ending' = ending - 1 /\ active' = active - 1
  /\ UNCHANGED <<host, listener, client, desktop>>
-----------------------------------------------------------------------------
(* The hosts *)

\* bin/daemon.rs: main exits when run_daemon has returned.
NativeExits == host = "native" /\ Alive /\ listener = "ended" /\ Exit

\* The desktop runtime is built, or fails to be, unless it waits for desktop services.
TauriBuilds ==
  /\ main = "building"
  /\ \/ main' = "built" /\ UNCHANGED <<host, loop, monitor, exiting>>
     \/ Exit

SpawnMonitor ==
  /\ main = "built"
  /\ \/ main' = "monitored" /\ monitor' = "waiting" /\ UNCHANGED <<host, loop, exiting>>
     \/ Exit

\* application.run.
RunApplication ==
  /\ main = "monitored"
  /\ main' = "running"
  /\ UNCHANGED <<host, loop, monitor, exiting>>

\* A mistake for the mutation runs: only a clean end of the listener is passed on.
MonitorIgnoresErrors ==
  /\ Alive /\ monitor = "waiting" /\ listener = "ended"
  /\ monitor' = "done"
  /\ UNCHANGED <<host, loop, main, exiting>>

\* recv returns the listener's result, or the error that its sender is gone.
MonitorReceives ==
  /\ Alive /\ monitor = "waiting" /\ listener = "ended"
  /\ monitor' = "done" /\ exiting' = TRUE
  /\ UNCHANGED <<host, loop, main>>

\* The event loop takes the request to exit, also one made before it ran.
ApplicationExits == main = "running" /\ exiting /\ Exit

\* The desktop session ends the event loop.
DesktopQuits == main = "running" /\ Exit
-----------------------------------------------------------------------------
LoopStep == Bind \/ AcceptFails \/ \E c \in Client : Connect(c) \/ Accept(c) \/ SpawnFails(c)
ThreadStep == PermitReturns \/ \E c \in Client : ConnectionEnds(c)
\* What the hosts do on their own.
HostRuns == NativeExits \/ SpawnMonitor \/ RunApplication \/ MonitorReceives \/ ApplicationExits
HostStep == HostRuns \/ TauriBuilds

Next == LoopStep \/ ThreadStep \/ HostStep \/ DesktopQuits

\* The loop and the host's threads run.  No connection need ever end, and the desktop runtime
\* need never be built: it may wait for desktop services, and build has no time limit.
Spec ==
  /\ Init /\ [][Next]_vars
  /\ \A c \in Client : WF_vars(Accept(c))
  /\ WF_vars(HostRuns)
-----------------------------------------------------------------------------
\* The state has its types; no more permits are taken than there are.
TypeOK ==
  /\ host \in {"native", "tauri"}
  /\ listener \in {"binding", "accepting", "ended"}
  /\ client \in [Client -> {"away", "queued", "served"}]
  /\ active \in 0..MAX_CONCURRENT_CLIENTS /\ ending \in 0..MAX_CONCURRENT_CLIENTS
  /\ main \in IF host = "native" THEN {"listening", "exited"}
              ELSE {"building", "built", "monitored", "running", "exited"}
  /\ monitor \in {"none", "waiting", "done"} /\ exiting \in BOOLEAN

\* daemon_runtime.rs:31-46,72-82: the permits taken are exactly those of the threads that still
\* hold one, however connections end and whatever fails: none leaks, which would lower
\* the limit for good, and none is returned twice.
PermitsAreThreads == active = Cardinality(Served) + ending

\* daemon_runtime.rs:59-76: every client that connects is taken out of the backlog, to be served
\* or dropped, even while slow clients hold all the permits for ever.
EveryClientIsHandled == \A c \in Client : client[c] = "queued" ~> client[c] # "queued"

\* tauri_host.rs:25-50, bin/daemon.rs: once the desktop runtime is built, a listener that cannot
\* continue ends the process, so that the service manager restarts it: its end is not lost,
\* also when it came while the runtime was being built, before there was a monitor, or
\* before the event loop that has to take the request to exit.  (While it is being built
\* nobody waits for the listener, and a process that does not listen may live on.)
EndOfListenerEndsProcess == listener = "ended" /\ main # "building" ~> main = "exited"
=============================================================================
