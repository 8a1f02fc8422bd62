-------------------------- MODULE SocketLifecycle --------------------------
(***************************************************************************)
(* The daemon's socket file, daemon/src/ipc.rs: how starting daemons       *)
(* prepare its directory, probe for a live socket, reclaim a stale one,    *)
(* bind and publish their own, and how a stopping daemon removes it.       *)
(* Every system call is an action, so that the steps of two daemons        *)
(* interleave as the kernel lets them; a process may be killed between any *)
(* two of them, which closes its socket and leaves the file.               *)
(*                                                                         *)
(* The service manager runs one daemon at a time; another may be started   *)
(* by hand, usually when the first one serves.  overlapped remembers that  *)
(* two have been in their startup at once.                                 *)
(***************************************************************************)
EXTENDS Naturals, FiniteSets

CONSTANTS
  Daemon,      \* the daemon processes (one for each place they are started from)
  MaxInodes    \* bound on the socket files ever created

ASSUME SocketAssumption == MaxInodes \in Nat

VARIABLES
  pc,         \* where each daemon is
  directory,  \* the parent of the socket path
  path,       \* the inode the socket path names, 0 if there is no file
  created,    \* the socket files created so far; the inode of the latest
  private,    \* the inodes whose mode is 0600
  listening,  \* the inodes whose socket accepts connections
  own,        \* the inode of the socket a daemon has bound, 0 if none
  recorded,   \* DaemonListener.inode
  alone,      \* no other daemon has been running since this one was started (history)
  overlapped  \* some startup began during another one (history)

history == <<alone, overlapped>>
vars == <<pc, directory, path, created, private, listening, own, recorded, history>>

Inode == 1..MaxInodes

\* A file at the path that is not a socket of this user.
NotASocket == MaxInodes + 1

\* "creatable" and "uncreatable": there is none, and its own parent is, or is not, private.
Directory == {"private", "insecure", "creatable", "uncreatable"}
DirectoryExists == directory \in {"private", "insecure"}

Starting == {"find", "mkdir", "inspect", "lookup", "probe", "reclaim", "bind", "listen", "chmod",
             "validate"}
Stopped == {"stopped", "failed", "killed"}

Init ==
  /\ pc = [d \in Daemon |-> "stopped"]
  /\ directory \in Directory
  /\ path \in IF DirectoryExists THEN {0, NotASocket} ELSE {0}
  /\ created = 0 /\ private = {} /\ listening = {}
  /\ own = [d \in Daemon |-> 0] /\ recorded = [d \in Daemon |-> 0]
  /\ alone = [d \in Daemon |-> FALSE] /\ overlapped = FALSE

Goto(d, place) == pc' = [pc EXCEPT ![d] = place]

\* The process ends: the kernel closes its socket.
End(d, how) ==
  /\ Goto(d, how)
  /\ listening' = listening \ {own[d]}
  /\ own' = [own EXCEPT ![d] = 0]
  /\ recorded' = [recorded EXCEPT ![d] = 0]

Fails(d) == End(d, "failed") /\ UNCHANGED <<directory, path, created, private, history>>
-----------------------------------------------------------------------------
(* DaemonListener::bind *)

\* The process is started; what starts it may see to the directory.
Spawned(d) ==
  /\ pc[d] \in Stopped
  /\ Goto(d, "find")
  /\ alone' = [e \in Daemon |-> e = d /\ \A other \in Daemon : pc[other] \in Stopped]
  /\ overlapped' = (overlapped \/ \E e \in Daemon : pc[e] \in Starting)
  /\ UNCHANGED <<path, created, private, listening, own, recorded>>

Start(d) == Spawned(d) /\ UNCHANGED directory

\* The daemon goes on, with no other effect.
Proceeds(d, place) ==
  Goto(d, place)
    /\ UNCHANGED <<directory, path, created, private, listening, own, recorded, history>>

\* prepare_private_directory looks for the directory, and at the parent if there is none.
FindDirectory(d) ==
  /\ pc[d] = "find"
  /\ CASE DirectoryExists             -> Proceeds(d, "inspect")
       [] directory = "creatable"     -> Proceeds(d, "mkdir")
       [] directory = "uncreatable"   -> Fails(d)

\* A directory that is there by now is an error.
MakeDirectory(d) ==
  /\ pc[d] = "mkdir"
  /\ \/ DirectoryExists /\ Fails(d)
     \/ /\ ~DirectoryExists /\ directory' = "private"
        /\ Goto(d, "inspect")
        /\ UNCHANGED <<path, created, private, listening, own, recorded, history>>

\* validate_private_directory
InspectDirectory(d) ==
  /\ pc[d] = "inspect"
  /\ IF directory = "private" THEN Proceeds(d, "lookup") ELSE Fails(d)

\* A mistake for the mutation runs: what is not a socket is treated as a stale one.
LookupAnyFile(d) ==
  /\ pc[d] = "lookup"
  /\ Proceeds(d, IF path = 0 THEN "bind" ELSE "probe")

\* remove_stale_socket looks for the file, and refuses one that is not a socket.
Lookup(d) ==
  /\ pc[d] = "lookup"
  /\ CASE path = 0          -> Proceeds(d, "bind")
       [] path = NotASocket -> Fails(d)
       [] path \in 1..created -> Proceeds(d, "probe")

\* A mistake for the mutation runs: whatever is found is taken to be stale.
AssumeStale(d) ==
  /\ pc[d] = "probe"
  /\ Proceeds(d, "reclaim")

\* It connects to the socket: success means AlreadyRunning, refusal a stale file.
Probe(d) ==
  /\ pc[d] = "probe"
  /\ \/ path \in listening /\ Fails(d)
     \/ path \notin listening /\ Proceeds(d, "reclaim")

\* A mistake for the mutation runs: the stale file is left for bind to replace.
LeaveStale(d) ==
  /\ pc[d] = "reclaim"
  /\ Proceeds(d, "bind")

\* It removes whatever is at the path by now; nothing there is an error.
Reclaim(d) ==
  /\ pc[d] = "reclaim"
  /\ \/ path = 0 /\ Fails(d)
     \/ /\ path # 0 /\ path' = 0
        /\ Goto(d, "bind")
        /\ UNCHANGED <<directory, created, private, listening, own, recorded, history>>

\* UnixListener::bind is bind(2), which fails if the path exists, and listen(2).
Bind(d) ==
  /\ pc[d] = "bind"
  /\ \/ (path # 0 \/ ~DirectoryExists) /\ Fails(d)
     \/ /\ path = 0 /\ DirectoryExists /\ created < MaxInodes
        /\ created' = created + 1 /\ path' = created + 1
        /\ own' = [own EXCEPT ![d] = created + 1]
        /\ Goto(d, "listen")
        /\ UNCHANGED <<directory, private, listening, recorded, history>>

Listen(d) ==
  /\ pc[d] = "listen"
  /\ listening' = listening \cup {own[d]}
  /\ Goto(d, "chmod")
  /\ UNCHANGED <<directory, path, created, private, own, recorded, history>>

\* set_permissions changes the file at the path.
Chmod(d) ==
  /\ pc[d] = "chmod"
  /\ \/ path = 0 /\ Fails(d)
     \/ /\ path # 0 /\ private' = private \cup {path}
        /\ Goto(d, "validate")
        /\ UNCHANGED <<directory, path, created, listening, own, recorded, history>>

\* A mistake for the mutation runs: the inode is not recorded.
ValidateOnly(d) ==
  /\ pc[d] = "validate"
  /\ \/ path \notin private /\ Fails(d)
     \/ path \in private /\ Proceeds(d, "serving")

\* validate_socket_file reads the metadata of the file at the path, and bind records it.
Validate(d) ==
  /\ pc[d] = "validate"
  /\ \/ path \notin private /\ Fails(d)
     \/ /\ path \in private
        /\ recorded' = [recorded EXCEPT ![d] = path]
        /\ Goto(d, "serving")
        /\ UNCHANGED <<directory, path, created, private, listening, own, history>>
-----------------------------------------------------------------------------
(* The end of a daemon *)

\* A mistake for the mutation runs: the inodes are not compared.
DropAnyFile(d) ==
  /\ pc[d] = "serving"
  /\ Proceeds(d, IF path # 0 THEN "unlinking" ELSE "closing")

\* run returns an error: Drop for DaemonListener compares the file's inode with its own ...
Drop(d) ==
  /\ pc[d] = "serving"
  /\ Proceeds(d, IF path # 0 /\ path = recorded[d] THEN "unlinking" ELSE "closing")

\* ... then removes the path ...
Unlink(d) ==
  /\ pc[d] = "unlinking"
  /\ path' = 0
  /\ Goto(d, "closing")
  /\ UNCHANGED <<directory, created, private, listening, own, recorded, history>>

\* ... and the listener is closed last.
Close(d) == pc[d] = "closing" /\ End(d, "stopped") /\ UNCHANGED <<directory, path, created, private, history>>

\* SIGTERM or SIGKILL: no destructor runs.
Kill(d) ==
  /\ pc[d] \notin Stopped
  /\ End(d, "killed")
  /\ UNCHANGED <<directory, path, created, private, history>>

\* A broker's connect finds a private socket at the path, on which this daemon accepts.
Reaches(d) == path = own[d] /\ path \in private \cap listening

StartStep(d) ==
  \/ FindDirectory(d) \/ MakeDirectory(d) \/ InspectDirectory(d)
  \/ Lookup(d) \/ Probe(d) \/ Reclaim(d)
  \/ Bind(d) \/ Listen(d) \/ Chmod(d) \/ Validate(d)
StopStep(d) == Unlink(d) \/ Close(d)

Next == \E d \in Daemon : Start(d) \/ StartStep(d) \/ Drop(d) \/ StopStep(d) \/ Kill(d)

Spec == Init /\ [][Next]_vars
-----------------------------------------------------------------------------
\* The state has its types; a DaemonListener exists, with its inode, while the daemon serves and
\* until it has been dropped.
TypeOK ==
  /\ pc \in [Daemon -> Starting \cup {"serving", "unlinking", "closing"} \cup Stopped]
  /\ created \in 0..MaxInodes
  /\ directory \in Directory /\ path \in 0..created \cup {NotASocket}
  /\ private \subseteq 1..created /\ listening \subseteq 1..created
  /\ own \in [Daemon -> 0..created] /\ recorded \in [Daemon -> 0..created]
  /\ \A d \in Daemon : recorded[d] # 0 <=> pc[d] \in {"serving", "unlinking", "closing"}
  /\ alone \in [Daemon -> BOOLEAN] /\ overlapped \in BOOLEAN

\* ipc.rs:27-28,190-193 and the test rejects_a_second_live_daemon (345-353): a daemon that
\* serves is the only one that does.
AtMostOneServes ==
  \A d, e \in Daemon : pc[d] = "serving" /\ pc[e] = "serving" => d = e

\* It is so as long as startups have not overlapped; ends may overlap starts.
OneServes == ~overlapped => AtMostOneServes

\* ipc.rs:216-230,239-251: the path of a serving daemon names its own private socket, so that
\* a broker which validates and connects to the path reaches it, unless startups have
\* overlapped; no Drop of an earlier daemon takes it away.
ServingIsReachable ==
  ~overlapped =>
    \A d \in Daemon : pc[d] = "serving" => Reaches(d) /\ recorded[d] = own[d]

\* ipc.rs:147-157,196-203,239-251 and the tests safely_reclaims_an_owned_stale_socket (356-369)
\* and creates_a_private_same_user_socket (293-313): where the directory is private or can be made so and
\* no foreign file is in the way, a startup fails only because of another daemon running at
\* some time during it.  Whatever earlier ones have left, killed at any point or bound over
\* one another, a daemon started when none runs gets to serve.
StaleIsReclaimed ==
  [][\A d \in Daemon :
       /\ pc[d] \in Starting /\ pc'[d] = "failed"
       /\ directory \in {"private", "creatable"} /\ path # NotASocket
       => ~alone[d]]_vars

\* ipc.rs:185-188,196-201,239-251 and the tests never_replaces_a_regular_file_at_the_socket_path
\* (328-342) and rejects_a_second_live_daemon (345-353): a file that is not a socket is never
\* removed, and, unless startups have overlapped, a socket that accepts connections is
\* removed by its own daemon only.
OthersAreNotRemoved ==
  [][path # 0 /\ path' # path =>
       /\ path # NotASocket
       /\ path \in listening /\ ~overlapped
            => \E d \in Daemon : pc[d] = "unlinking" /\ own[d] = path]_vars
=============================================================================
