----------------------------- MODULE Deployment -----------------------------
(***************************************************************************)
(* scripts/install-host.sh and scripts/uninstall-host.sh around the        *)
(* daemons of SocketLifecycle: one of them is the user service that        *)
(* systemd or launchd runs and restarts, the others are started by hand.   *)
(* A script is a sequence of commands, between which daemons and service   *)
(* manager go on; any command may fail, or be interrupted, and ends it.    *)
(*                                                                         *)
(* What the unit file asks of systemd is external: Restart=on-failure, and *)
(* RuntimeDirectory, which is made for the service and removed with all it *)
(* holds when the service has ended.  It holds the socket unless a path    *)
(* for the socket is configured; launchd has nothing like it.              *)
(***************************************************************************)
EXTENDS SocketLifecycle

CONSTANT Service   \* the daemon the service manager runs

ASSUME DeploymentAssumption == Service \in Daemon

VARIABLES
  setup,     \* the service manager, and whether the socket is in the runtime directory
  tidy,      \* the service manager has no runtime directory to remove
  wanted,    \* the service manager restarts the service
  manifest,  \* the broker's registration exists
  unit,      \* the service's definition exists
  script,    \* the next step of the running script, or "idle"
  mode,      \* SHADOW_SERVICE_MODE of the running or the last script
  outcome,   \* how the last script ended: "none" before, and while one runs
  since,     \* the socket files created when a script last stopped the service (history)
  ofService, \* those bound by the service (history)
  undisturbed, \* nobody else has started daemons since the last script began (history)
  raced      \* a socket was bound while another daemon was about to unlink its own (history)

service == <<setup, tidy, wanted>>
files == <<manifest, unit>>
run == <<script, mode, outcome>>
remembered == <<since, ofService, undisturbed, raced>>
dvars == <<vars, service, files, run, remembered>>
-----------------------------------------------------------------------------
Mode == {"install", "files-only", "ephemeral"}
Hand == Daemon \ {Service}
ServiceRuns == pc[Service] \notin Stopped
IsSocket == path \in 1..created

\* Whether the socket is below the runtime directory of systemd.
Setup == {[manager |-> "systemd", runtimeDirectory |-> TRUE],
          [manager |-> "systemd", runtimeDirectory |-> FALSE],
          [manager |-> "launchd", runtimeDirectory |-> FALSE]}

\* The directories and files no daemon accepts are SocketLifecycle's.
DeploymentInit ==
  /\ Init /\ directory \in {"private", "creatable"} /\ path = 0
  /\ setup \in Setup /\ tidy = TRUE /\ wanted = FALSE
  /\ manifest = FALSE /\ unit = FALSE
  /\ script = "idle" /\ mode = "install" /\ outcome = "none"
  /\ since = 0 /\ ofService = {} /\ undisturbed = FALSE /\ raced = FALSE
-----------------------------------------------------------------------------
(* Daemons and service manager *)

DaemonRuns ==
  /\ \E d \in Daemon : StartStep(d) \/ Drop(d) \/ StopStep(d) \/ Kill(d)
  /\ ofService' = ofService \cup ({own'[Service]} \ {0})
  /\ raced' = (raced \/ (created' # created /\ \E d \in Daemon : pc[d] = "unlinking"))
  /\ UNCHANGED <<service, files, run, since, undisturbed>>

StartedByHand ==
  /\ \E d \in Hand : Start(d)
  /\ undisturbed' = FALSE
  /\ UNCHANGED <<service, files, run, since, ofService, raced>>

\* The service has ended, and its runtime directory goes with it.
DirectoryRemoved ==
  /\ ~tidy /\ ~ServiceRuns
  /\ tidy' = TRUE /\ directory' = "creatable" /\ path' = 0
  /\ UNCHANGED <<pc, created, private, listening, own, recorded, history,
                 setup, wanted, files, run, remembered>>

\* A mistake for the mutation runs: the definition asks for the directory to be preserved.
LaunchPreserving ==
  /\ tidy /\ tidy' = TRUE
  /\ Spawned(Service)
  /\ directory' = IF setup.runtimeDirectory THEN "private" ELSE directory

\* The manager starts the service, in a runtime directory of its own if it has one.
Launch ==
  /\ tidy /\ tidy' = ~setup.runtimeDirectory
  /\ Spawned(Service)
  /\ directory' = IF setup.runtimeDirectory THEN "private" ELSE directory

Restarted ==
  /\ wanted
  /\ Launch /\ undisturbed' = FALSE
  /\ UNCHANGED <<setup, wanted, files, run, since, ofService, raced>>

\* systemctl stop (and the first half of a restart), launchctl bootout: the process is ended by
\* a signal, no destructor runs, and the command returns when all is done.
StopsService ==
  /\ ~ServiceRuns => tidy
  /\ End(Service, IF ServiceRuns THEN "killed" ELSE pc[Service])
  /\ directory' = IF tidy THEN directory ELSE "creatable"
  /\ path' = IF tidy THEN path ELSE 0
  /\ tidy' = TRUE /\ wanted' = FALSE
  /\ since' = created
  /\ UNCHANGED <<created, private, history, setup, ofService, raced>>
-----------------------------------------------------------------------------
(* The scripts *)

Goes(step) == script' = step /\ UNCHANGED <<mode, outcome>>
Ends(how) == script' = "idle" /\ outcome' = how /\ UNCHANGED mode

\* set -e: a command has failed; or the user has interrupted the script.
Interrupted ==
  /\ script # "idle"
  /\ Ends("failed")
  /\ UNCHANGED <<vars, service, files, remembered>>

RunInstall ==
  /\ script = "idle"
  /\ script' = "write manifest" /\ mode' \in Mode /\ outcome' = "none"
  /\ undisturbed' = FALSE
  /\ UNCHANGED <<vars, service, files, since, ofService, raced>>

\* Written beside it and renamed.
WriteManifest ==
  /\ script = "write manifest"
  /\ manifest' = TRUE
  /\ IF mode = "ephemeral" THEN Ends("installed") ELSE Goes("write unit")
  /\ UNCHANGED <<vars, service, unit, remembered>>

WriteUnit ==
  /\ script = "write unit"
  /\ unit' = TRUE
  /\ IF mode = "install" THEN Goes("stop for restart") ELSE Ends("installed")
  /\ UNCHANGED <<vars, service, manifest, remembered>>

\* systemctl restart; bootout and bootstrap.
StopForRestart ==
  /\ script = "stop for restart"
  /\ StopsService
  /\ Goes("start")
  /\ UNCHANGED <<files, undisturbed>>

StartService ==
  /\ script = "start"
  /\ Launch /\ wanted' = TRUE
  /\ Goes("find socket")
  /\ UNCHANGED <<setup, files, remembered>>

\* The loop ends as soon as there is a socket, or after its last attempt.
FindSocket ==
  /\ script = "find socket"
  /\ IF ~IsSocket THEN Ends("failed")
     ELSE Goes(IF setup.manager = "systemd" THEN "check service" ELSE "check mode")
  /\ UNCHANGED <<vars, service, files, remembered>>

CheckService ==
  /\ script = "check service"
  /\ IF ServiceRuns THEN Goes("check mode") ELSE Ends("failed")
  /\ UNCHANGED <<vars, service, files, remembered>>

CheckMode ==
  /\ script = "check mode"
  /\ Ends(IF path \in private THEN "installed" ELSE "failed")
  /\ UNCHANGED <<vars, service, files, remembered>>

\* undisturbed: without the service's command nobody stops the daemon.
RunUninstall ==
  /\ script = "idle"
  /\ mode' \in Mode /\ outcome' = "none"
  /\ script' = IF mode' = "install" THEN "stop service" ELSE "remove manifest"
  /\ undisturbed' = /\ \A d \in Hand : pc[d] \in Stopped
                    /\ mode' # "install" => ~ServiceRuns
  /\ UNCHANGED <<vars, service, files, since, ofService, raced>>

\* A mistake for the mutation runs: the service is only disabled, which leaves it running.
DisableOnly ==
  /\ script = "stop service"
  /\ Goes("remove manifest")
  /\ UNCHANGED <<vars, service, files, remembered>>

\* A service that waits for its restart is not active: systemctl stop is left out.
StopService ==
  /\ script = "stop service"
  /\ IF setup.manager = "systemd" /\ ~ServiceRuns
     THEN UNCHANGED <<vars, service, since, ofService, raced>>
     ELSE StopsService
  /\ Goes("remove manifest")
  /\ UNCHANGED <<files, undisturbed>>

RemoveManifest ==
  /\ script = "remove manifest"
  /\ manifest' = FALSE
  /\ Goes(IF mode = "ephemeral" THEN "remove socket" ELSE "remove unit")
  /\ UNCHANGED <<vars, service, unit, remembered>>

RemoveUnit ==
  /\ script = "remove unit"
  /\ unit' = FALSE
  /\ Goes("remove socket")
  /\ UNCHANGED <<vars, service, manifest, remembered>>

\* Whatever socket is at the path, whoever listens on it.
RemoveSocket ==
  /\ script = "remove socket"
  /\ path' = IF IsSocket THEN 0 ELSE path
  /\ IF mode = "install" /\ setup.manager = "systemd" THEN Goes("reload") ELSE Ends("uninstalled")
  /\ UNCHANGED <<pc, directory, created, private, listening, own, recorded, history, service,
                 files, remembered>>

\* A mistake for the mutation runs: the manager is not told.
EndWithoutReload ==
  /\ script = "reload"
  /\ Ends("uninstalled")
  /\ UNCHANGED <<vars, service, files, remembered>>

\* systemctl daemon-reload: a service without a definition is not restarted.
Reload ==
  /\ script = "reload"
  /\ wanted' = FALSE
  /\ Ends("uninstalled")
  /\ UNCHANGED <<vars, setup, tidy, files, remembered>>
-----------------------------------------------------------------------------
InstallStep ==
  \/ RunInstall \/ WriteManifest \/ WriteUnit \/ StopForRestart \/ StartService
  \/ FindSocket \/ CheckService \/ CheckMode
UninstallStep ==
  \/ RunUninstall \/ StopService \/ RemoveManifest \/ RemoveUnit \/ RemoveSocket \/ Reload
ManagerStep == Restarted \/ DirectoryRemoved

DeploymentNext ==
  DaemonRuns \/ StartedByHand \/ ManagerStep \/ InstallStep \/ UninstallStep \/ Interrupted

DeploymentSpec == DeploymentInit /\ [][DeploymentNext]_dvars
-----------------------------------------------------------------------------
\* The state has its types; a runtime directory exists as long as the service runs.
DeploymentTypeOK ==
  /\ TypeOK
  /\ setup \in Setup
  /\ {tidy, wanted, manifest, unit, undisturbed, raced} \subseteq BOOLEAN
  /\ mode \in Mode
  /\ script \in {"idle", "write manifest", "write unit", "stop for restart", "start",
                 "find socket", "check service", "check mode", "stop service",
                 "remove manifest", "remove unit", "remove socket", "reload"}
  /\ outcome \in {"none", "installed", "failed", "uninstalled"}
  /\ since \in 0..created /\ ofService \subseteq 1..created
  /\ setup.runtimeDirectory => (ServiceRuns => ~tidy)

\* install-host.sh:264-292 with RuntimeDirectory (197): the socket on which a full installation
\* reports success is not one that the service has left behind, however it ended before; if
\* it is the service's, it was made since the restart.
VouchesForFreshSocket ==
  [][script = "check mode" /\ outcome' = "installed" /\ setup.runtimeDirectory
       /\ path \in ofService => path > since]_dvars

\* uninstall-host.sh:61-115, README.md:200, test-install.sh:163: after a full uninstallation no
\* service, registration, definition or socket is left and none comes back, also after daemons
\* were killed anywhere and installations interrupted, unless someone else has started a
\* daemon meanwhile: by hand, or the manager, whose restart of the service was due when the script
\* asked whether it was active.
UninstallLeavesNothing ==
  outcome = "uninstalled" /\ undisturbed
    => /\ ~ServiceRuns /\ ~IsSocket /\ ~manifest
       /\ mode = "install" => ~wanted
       /\ mode # "ephemeral" => ~unit

\* uninstall-host.sh:73-79,111-113: once a full uninstallation has reported success nothing brings
\* the service back, now or later, also when its restart was due while the script asked
\* whether it was active, or daemons and directories have come and gone meanwhile.
NothingIsRestarted ==
  [][outcome = "uninstalled" /\ mode = "install" /\ outcome' = outcome
       => ~ServiceRuns' \/ ServiceRuns]_dvars

\* install-host.sh:197, ipc.rs:239-251: when the service gets to serve brokers reach it, and they
\* do until it ends, although its runtime directory is removed under daemons started by
\* hand, whose ends remove sockets too; only an uninstallation takes the socket away.  (A
\* startup that overlaps another may, too, and a daemon whose own socket was replaced after its
\* Drop had compared the inodes.)
ServiceIsReachable ==
  [][/\ ~overlapped' /\ ~raced' /\ script # "remove socket"
     /\ pc'[Service] = "serving" /\ (pc[Service] = "serving" => Reaches(Service))
     => Reaches(Service)']_dvars

\* install-host.sh:245,279: "Detached daemon did not create its private socket" is what the
\* installer says when it found none: the socket it accepts is one created since it restarted
\* the service, with every service manager and wherever the socket is.
AcceptedSocketIsFresh ==
  [][script = "check mode" /\ outcome' = "installed" => path > since]_dvars
=============================================================================
