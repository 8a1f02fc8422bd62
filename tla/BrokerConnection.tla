-------------------------- MODULE BrokerConnection --------------------------
(***************************************************************************)
(* A broker that connects to the socket, connect of daemon/src/ipc.rs,     *)
(* while the daemons of SocketLifecycle come and go: it inspects the       *)
(* directory, then the file, and then connects to whatever is at the path  *)
(* by that time.  The daemon's user is its own, so the check of the peer   *)
(* passes.                                                                 *)
(***************************************************************************)
EXTENDS SocketLifecycle

VARIABLES
  broker,   \* what the broker does next, or how connect has ended
  steady    \* the daemons that have served since it was started (history)

bvars == <<vars, broker, steady>>

Ended == {"connected", "refused"}
Serving == {d \in Daemon : pc[d] = "serving"}

BrokerInit == Init /\ broker = "refused" /\ steady = {}

DaemonsRun ==
  /\ Next
  /\ steady' = steady \cap Serving'
  /\ UNCHANGED broker

\* Chrome starts a broker for each call.
BrokerStarts ==
  /\ broker \in Ended /\ broker' = "inspect directory"
  /\ steady' = Serving
  /\ UNCHANGED vars

\* One step of connect, whose failure ends the broker.
Checks(place, holds, next) ==
  /\ broker = place
  /\ broker' = IF holds THEN next ELSE "refused"
  /\ UNCHANGED <<vars, steady>>

InspectsDirectory == Checks("inspect directory", directory = "private", "inspect file")
InspectsFile == Checks("inspect file", path \in private, "connect")
Connects == Checks("connect", path \in listening, "connected")

BrokerNext == DaemonsRun \/ BrokerStarts \/ InspectsDirectory \/ InspectsFile \/ Connects

BrokerSpec == BrokerInit /\ [][BrokerNext]_bvars
-----------------------------------------------------------------------------
\* The state has its types.
BrokerTypeOK ==
  /\ TypeOK
  /\ broker \in {"inspect directory", "inspect file", "connect"} \cup Ended
  /\ steady \subseteq Serving

\* ipc.rs:171-178 against 180-251: a broker is refused only if no daemon served from its start
\* to its last step, unless startups have overlapped: no check of it meets a file that a
\* starting or stopping daemon has put or left in the place of a serving one's.
ServedIfOneServes ==
  [][broker \notin Ended /\ broker' = "refused" => steady = {} \/ overlapped]_bvars
=============================================================================
