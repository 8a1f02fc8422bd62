# Verification of the SecureIntent upload interceptor

TLA+ models of `shadow-upload-interceptor`: a browser extension that takes a file the user
picks or drops on a protected page, has a local Rust daemon scan its bytes for secrets, and
gives the file back to the page only if the decision is "allow". Around them are modelled the
processes that host the daemon and the scripts that install it. The models are checked with
TLC. Every invariant and every action property of the runs is also proved with TLAPS, and so are
the safety parts of the refinements; liveness is checked with TLC only.

Paths below are relative to the repository (`src/` in `PROJECT.json`).

## 1. The system

```
 page  <-- content script --- messages --- background worker --- port --- broker --- socket --- daemon
           uploadGuard.ts                  scanService.ts        native   relay.rs   ipc.rs     protocol.rs
           overlay                         policy*.ts            Client.ts                      session.rs, scan.rs
```

| Component | State it keeps | Operations | Talks to |
|---|---|---|---|
| Upload guard (`extension/src/intercept`) | WeakMap and Set of operations, overlays, two attributes on the page, `installed` | input, change, drop; results, deadline; health report; teardown | page (events, attributes, `input.files`), worker (messages) |
| Scan service, policy (`extension/src/bridge`, `background.ts`) | none between messages; the policy lives in two browser stores | `preflightScan`, `scanFile`, the health handler, `loadGuardPolicy` | content script, stores, native client |
| Native client (`nativeClient.ts`) | one promise and one port per call | post frames, timer, message, disconnect, exception | broker, through Chrome |
| Broker (`daemon/src/relay.rs`, `lib.rs`) | one process per call, no data | forward a frame, wait for the one answer | Chrome (stdin, stdout), daemon (socket) |
| Daemon connection (`protocol.rs`, `session.rs`) | the scan being reassembled | health, begin, chunk, end, every error | broker |
| Rules (`scan.rs`) | none | first matching rule decides | |
| Framing (`protocol.rs`) | a frame half read or half written | read and write a frame, refuse a length | both ends of every stream |
| Daemon listener (`ipc.rs`) | the socket file, its inode, its directory | prepare, probe, reclaim, bind, publish, drop; a broker's connect | file system, other daemons |
| Accept loop (`daemon_runtime.rs`) | eight permits | accept, refuse, spawn, drop of a permit | connections |
| Hosts (`bin/daemon.rs`, `bin/tauri_host.rs`) | the threads around the loop | start, monitor, exit | accept loop, desktop runtime, service manager |
| Installer, uninstaller (`scripts/*-host.sh`) | manifest, unit file, the service's state | write, restart, wait for the socket; stop, remove | service manager, socket path, browser |
| Doctor, demo and smoke scripts, demo page | none of their own | checks and administration | all of the above | |

What is hard here. (a) Results arrive late: an operation can have been replaced, blocked by
its deadline, or outlived its page. (b) Three processes and two pipes stand between a question
and its verdict, any of which may go away, and only a timer is certain. (c) The daemon
reassembles a file from frames of a client it does not control. (d) The policy can change
between its two stores' reads, between the two messages of an upload, and during a scan.
(e) Daemons probe, remove and bind one path with separate system calls and may be killed in
between. (f) The loop shares eight permits with threads that end in any way, and its end must
end the process around it. (g) The scripts stop, start and inspect a daemon that a service
manager restarts on its own, and may be interrupted between any two commands. (h) The streams between the processes are bytes,
read and written in pieces and cut anywhere. The hazards are
listed line by line in `PROJECT.json`.

What makes each component correct:

- connection: a verdict is about one complete upload; memory stays within the declaration;
  exactly the requests the broker waits for are answered;
- native path: one answer, true or none, in bounded time; afterwards nothing is left running;
- worker: decisions follow a policy that was in force; the bytes are overwritten;
- guard: at an input in the document, a file reaches the page only because the latest choice
  there was allowed;
- all of them together: a secret reaches the page only if a policy in force lets it through;
- framing: frames come out as they went in, and a torn one never does;
- listener: one daemon serves, brokers reach it, and no leftover stops the next;
- loop and hosts: permits are exactly the living threads, every client is taken from the
  backlog, a listener that has ended ends its process (in the Tauri host, once the desktop
  runtime is built);
- scripts: with a runtime directory, the socket the installer accepts is not an old one of the
  service; a full uninstallation during which nobody starts a daemon leaves nothing, and once it
  has reported success nothing comes back; the service stays reachable until it ends.

## 2. Modules

| Module | Models | Kind |
|---|---|---|
| `SecretScan` | `scan.rs` | operators: `Scan`, `Matches` |
| `ScanSession` | `protocol.rs` loop with `session.rs` | state machine of one connection |
| `FrameStream` | what a framed byte stream promises its ends | abstract specification |
| `Framing` | `read_frame`, `write_payload_frame` of `protocol.rs` over bytes | state machine of one direction; implements `FrameStream` |
| `NativePromise` | what a native call promises | abstract specification |
| `NativeScan` | `nativeClient.ts`, `relay.rs`, `lib.rs` around an instance of `ScanSession` | composition; implements `NativePromise` |
| `GuardPolicy` | `policy.ts`, precedence of `policyStore.ts` | operators, and `InForce`, their reference |
| `ScanService` | `scanService.ts`, the health handler of `background.ts`, the loads of `policyStore.ts` | state machine of one upload, or one health request |
| `UploadGate` | what the guard promises its user | abstract specification |
| `UploadGuard` | `uploadGuard.ts`, `resumeUpload.ts`, `mountUploadOverlay.tsx` | state machine of one page; implements `UploadGate` |
| `EndToEnd` | content script, worker, stores and native host | composition of instances of `UploadGuard` and `ScanService` |
| `SocketLifecycle` | `ipc.rs`: directory, bind and Drop per system call | state machine of several daemons |
| `BrokerConnection` | `connect` of `ipc.rs` against those daemons | composition, EXTENDS `SocketLifecycle` |
| `DaemonRuntime` | `daemon_runtime.rs` in `bin/daemon.rs` and `bin/tauri_host.rs` | state machine of one process |
| `Deployment` | `install-host.sh`, `uninstall-host.sh` and the service manager, around `SocketLifecycle` | composition, EXTENDS `SocketLifecycle` |
| `MCScanSession`, `MCFraming`, `MCNativeScan`, `MCScanService`, `MCEndToEnd` | small instances | definitions for TLC; the other `.cfg` files set the constants directly |
| `ScanSessionProofs`, `FramingProofs`, `NativeScanProofs`, `ScanServiceProofs`, `UploadGuardProofs`, `EndToEndProofs`, `DaemonRuntimeProofs` | theorems about the modules they name | TLAPS |
| `SocketLifecycleProofs` | theorems about `SocketLifecycle` and the two modules that extend it, `BrokerConnection` and `Deployment` | TLAPS |

`NativeScan` has `Daemon == INSTANCE ScanSession`: `DaemonServes` is one turn of the daemon's
loop (`Daemon!Handle`) on the frame at the head of the socket. The definitions marked "a
mistake for the mutation runs" are not part of any specification; each breaks one property.

### How state and actions correspond to the code

`ScanSession`. `active` is `ScanSession.active`; `conn` says how the loop stands. `CanBegin`,
`CanAppend`, `CanFinish` collect the early returns of `session.rs`, `CanServe` adds those of
`protocol.rs`. A request that cannot be served is `Reject`: the error leaves
`run_scanner_protocol`, which drops session and stream. A frame is a request or an error
(`ReadFails` stands for bad length, cut frame, bad JSON, timeout); base64 is data or
`BadBase64`. `log` and the position `at` in an answer are history.

`Framing`. One direction of a stream: `outgoing` is what `write_all` still has, `wire` the pipe
or socket, `header` and `payload` the buffers of `read_frame`. `Write` and `Read` move any
number of bytes, as system calls do. The writer is `write_payload_frame` (`checked`) or a
foreign process that frames whatever it likes. `Stop` cuts the stream between any two bytes. A
length has `LengthBytes` digits of base `Base` instead of four bytes. `FrameStream` is what
`ScanSession` and `NativeScan` suppose when they treat a stream as a queue of frames.

`NativeScan`. `ask`, `result`, `port` are one call and its promise; `toBroker`, `toDaemon`,
`toClient` are stdin, socket and stdout; the daemon's answers stay in `written` and `taken`
counts what the broker has read. `Post` is one action because the whole of
`scanWithNativeHost` after `connectNative` runs in one turn of the event loop, so no listener
can run between two frames. `Finish` disconnects; Chrome may then drop any suffix of what
the broker has not read. The broker blocks while the socket holds `SocketFrames` frames.
`BrokerDies` and `DaemonDrops` may happen at any time.

`ScanService`. One upload, from the preflight to its answer. A load is two reads
(`ReadStore`) in any order, each of which may fail (then the store counts as empty, as in
`readPolicyCandidate`), and a decision when both are in. The stores change at any time.
A policy candidate is a record of the keys it sets. The content script sends well-formed
messages whose size is the byte count, so the guards for others are not exercised. The health
message shares load and native call with the upload; it may come from a page
that is not protected, and then answers without a native call.

`UploadGuard`. An operation is its index in `ops`. `current` is the WeakMap, `activeOps` the
Set. Picking with an engine that fires `input` then `change` is `Pick` and `FollowingChange`,
between which promise callbacks can run; `PickChangeOnly` is the fallback. `Settle` is
`settleWithTimeout`: the first of result and deadline is applied, and the request itself goes
on. `Apply` is the continuation of `start`, with its check for obsolete operations. An
operation's `decision` is history. The worker may answer anything of its type, or never. A
selection of several files is reduced to its first, as in the code.

The listeners are the window's, so that they see the events of an input in the document only.
`Pick`, `PickChangeOnly` and `Drop` are the captured gestures; `PickUnseen` is a choice at an input
outside the document (created by a script and clicked without being inserted, or taken out while
the user was choosing): no handler runs and the page has the file. The page may detach and
reattach an input (`PageMoves`) between any two callbacks, also between the `input` and the `change`
event of one gesture, where the status that `start` sets wakes its mutation observers. The change
event is then lost (`FollowingChange`), and the flag that was to suppress it stays. `missed` is
history: the inputs at which an event was fired outside the document since the latest choice
captured there. `UploadGate` promises nothing for an input outside the document (`Lose`), and for
each event lost there after a captured choice (`strays`) one later choice may escape (`Mistake`);
everything else is decided first.

`EndToEnd`. The operation `tracked` is followed through preflight, read, second load, native
scan and answer; to the others `UploadGuard`'s worker may answer anything, which loses nothing,
since the worker keeps no state between messages. Which operation is tracked, and how large its
file is, is chosen at the start: every behaviour appears with each of its operations tracked.
Actions of the parts are composed where a message passes (`FileIsAskedFor`,
`ResultArrives`, `Received`); either end may lose the message (`MessageFails`). The native host is what
`NativePromise` says, with a verdict that is the truth about the file. `regime` and `torn` are
history: the policies in force while the operation was undecided, and that both stores changed
or a read failed within one load. The health report, the dismissal of an overlay, an unmapped
drop touch neither file nor worker and are left to `UploadGuard`. So are inputs outside the document:
here all inputs are in it and stay there (`InDocument` of the proofs), as a secret chosen outside
it reaches the page whatever worker and policy say, and the moves multiply the states beyond
what TLC can do in a few minutes.

`SocketLifecycle`. `path` is the inode at the socket path; inode numbers are not reused.
`directory` is its parent: private, insecure, or still to be made. Each
action is one system call, so a second daemon may act between any two; `Kill` closes a
process's socket and leaves the file, at every step. `Reaches(d)` is what a broker's `connect`
needs: the path names the inode on which `d` listens. Two startups may overlap; `overlapped` is
history: some startup has begun during another one. Ends may overlap starts freely. The
properties about a single server are conditional on it; `socket_overlap` shows why. `alone` is
history too: that no other daemon has run since this one was started.

`BrokerConnection`. A broker inspects the directory, then the file, then connects, while the
daemons do anything. `steady` is history: the daemons that have served all along.

`DaemonRuntime`. `client` says where a client's connection is, `active` is the counter behind
`acquire_connection`. A thread drops its stream before its permit: `ending` counts the threads
in between, in which a client that has seen its connection close may still be refused.
`IsOwnUser` stands for `verify_peer`. The native host runs the loop on its main thread; the
Tauri host has the loop's thread, the thread that builds and runs the desktop runtime, and the
monitor between them. Building the desktop runtime may take for ever (`TauriBuilds` is not fair), and
until it is done there is no monitor. That `AppHandle::exit`, called before the event loop runs, is
taken when it does, is an assumption about the external runtime.

`Deployment`. `script` is the next command of the running script; between two commands daemons
and service manager go on, and `Interrupted` ends a script anywhere. The service is one of
`SocketLifecycle`'s daemons, the others are started by hand. External, from what the unit file
asks: `Restart=on-failure` (`wanted`), and a `RuntimeDirectory` made before the service starts
and removed, with whatever socket is in it, after it has ended (`tidy`, `DirectoryRemoved`); a
daemon started by hand may make it anew, or lose it. A service that waits for its
restart is not active. `systemctl enable` and `disable` take effect at the next login and are left out;
`launchctl kickstart -k`, which kills the service just started and starts it again, has no
action of its own, but its effect is among the behaviours (`Kill`, then `Restarted`). With launchd, or a configured socket path, there is no runtime
directory. History: `since` and `ofService` are the socket files there were when
a script last stopped the service and those the service made; `undisturbed`, that nobody else
started a daemon during the script; `raced`, that a socket was bound while another daemon was
between the comparison and the removal of its `Drop`.

## 3. Runs

| Run | Bounds | What it shows |
|---|---|---|
| `scan_session` | 6 frames, two valid identifiers and an invalid one, sizes 0 to above the limit | verdicts are about the declared file, whatever is sent; answers follow requests |
| `framing` | 3 frames, lengths of two binary digits, payloads empty, at and above the limit of 2 bytes, a pipe of 3 bytes | `Framing` implements `FrameStream`: frames come out as they went in, a torn one never does; a frame larger than the pipe gets through |
| `native_scan` | files of 0 to 4 bytes, chunks of 2, limit 3, socket of 2 frames, two protocol versions | `NativeScan` implements `NativePromise`; the pipeline loses and repeats nothing; broker and daemon stay in step; no frame of a call the daemon serves is rejected; processes and connection go away after the answer |
| `scan_service` | 2 origins, 7 candidates (3 invalid), sizes 1 to 3, limit 2, 2 changes, uploads and health requests | decisions are by a policy in force; limits; every request answered, bytes overwritten |
| `upload_guard` | 1 input, in the document or not, 2 files, 2 captured operations, any number of unseen choices and moves | `UploadGuard` implements `UploadGate`; registries, overlays; the change flag outlives its gesture only where the change event was lost; every operation is decided |
| `end_to_end` | 1 input, a file with a secret and one without, 2 operations, 2 policies, 1 change of the stores | a secret reaches the page only by leave of a policy in force; the worker is one that `UploadGuard` supposes |
| `socket_lifecycle` | 3 daemons, 3 socket files, every state of the directory, a broker; startups may overlap | without overlap one serves, is reachable, and no broker is refused meanwhile; a daemon started alone always gets to serve; nothing of others is removed |
| `daemon_runtime` | 4 clients, one of another user; 2 permits; both hosts | permits are threads; the backlog is emptied; the listener's end ends the process once the desktop runtime is built |
| `deployment` | the service and one daemon by hand, 2 socket files, all setups and modes | what the installer accepts is not the service's old socket (with a runtime directory); a full uninstallation that nobody disturbs leaves nothing and nothing comes back; the service is reachable while it serves |

Why the bounds are enough. Six frames hold a whole upload, a health probe inside it, and the
start of a second upload on the same connection. In `framing` every frame with a payload is at
least as long as the pipe, two length digits can be cut in the middle, and payload bytes
look like digits, so that a reader out of step would go on with wrong frames. Chunks of two
bytes with files of 0, 2, 3 and 4 bytes give none, one full, a short last and two full chunks,
and the secret lies across a chunk boundary. Two operations on one input let one be
replaced by another; the guard forgets a replaced operation at once, so that a third would
meet what the second did (and the proofs need no bound). That operations on different inputs do not disturb each other
is left to the theorems, which hold for any number of inputs: with the input free to move, two of
them have too many states for the liveness of the run. Two changes of the stores are one
before and one after a read, or one in each store; in `end_to_end` one is enough for a policy to be
in force for a part of the upload only. Three daemons are one that stops, one that starts and
one that left a file, and as many files. Two permits and three clients of the user are all
permits taken and one client too many. In `deployment` two socket files are one left behind
and one fresh.

Only `MCScanSession` uses symmetry (on its two valid identifiers), in a run without liveness
properties; no definition tells them apart.
Deadlock is not checked: a connection, a stream, a call, an upload, a page and a daemon all end,
and the bound on socket files stops the daemons.

**Fairness.** `Framing!Spec` assumes that both ends go on reading and writing what they can, and
that the end of a stream is noticed: both sit in blocking calls on threads of their own; that a
frame is offered, or that either end lives on, is not assumed. `NativeScan!Spec` assumes only that the client's own code and its timer run.
`CleanedUp` has a premise of its own, `ProcessesRun`: living brokers and daemons take their
steps; dying stays unfair. `ScanService!Spec` assumes that
storage reads settle, that the native call resolves (which `PromiseKept` shows), and that the
content script goes on after a preflight. `UploadGuard!FairSpec` assumes that timers fire and
that reading a file ends; nothing of the user, the page or the worker.
`DaemonRuntime!Spec` assumes that the loop takes every queued client and that the host's threads run
(`HostRuns`); not that any connection ends, nor that the desktop runtime is ever built, which
`tauri_host.rs:6-8` says may wait for desktop services. The other specifications assume nothing: their properties are about
safety.

**Disagreements.** Three runs end in a counterexample to something a document, comment or test
says:

- `upload_guard_bytes`: the outer deadline decides, but the bytes of a request to a wedged
  worker are not overwritten (`uploadGuard.ts:15-16`, `ARCHITECTURE.md:165-166`);
- `socket_overlap`: with overlapping startups two daemons serve (`ipc.rs:27`, `ipc.rs:345`);
- `deployment_stale`: without a runtime directory, the socket the installer accepts as its new
  daemon's is the one left by the daemon it has just stopped (`install-host.sh:245`, `:279`).

Observations without a run of their own, each a few steps of a model:

- A file chosen at an input outside the document reaches the page undecided (`PickUnseen`), although
  `ARCHITECTURE.md:51-52` has the listener cover "dynamically created inputs".
- A page that takes the input out of the document between the `input` and the `change` event of a
  gesture leaves the flag of `uploadGuard.ts:195-196` set; where the next choice at that input fires
  `change` alone, its event is swallowed and the page keeps the file (`Mistake` of `UploadGate`). A
  choice that fires `input` first is captured and replaces the flag.
- A listener that ends while the desktop runtime waits to be built leaves a living process that does
  not listen, and that the service manager does not restart: the monitor is spawned only
  afterwards (`tauri_host.rs:16`, `:25`; 6-8 say that "local upload protection must not wait").
- The policy that selects Allow or Block after a native scan is the one loaded before it
  (`scanService.ts:56`; `ARCHITECTURE.md:144` can be read otherwise), so `SecretStaysOut` speaks of
  the policies in force since the gesture, not of the last one.
- The guard attribute set by a failed operation stays until the next one sets it, so that a scanned
  file can arrive while the page still says "degraded" (`uploadGuard.ts:167`).
- `Drop` compares inodes, then removes by path (`ipc.rs:245`): its own file may be replaced in
  between, by a daemon in the runtime directory that systemd has made anew. `ServiceIsReachable`
  excludes that case (`raced`); without such a directory `PathIsOwn` of the proofs shows that it
  cannot happen as long as startups do not overlap.

## 4. Proofs

The theorems hold for every value of the constants that meets the named assumptions of the
modules, in particular without the bounds on frames, clients, daemons, socket files and
operations of the runs. Each proof has an inductive invariant (`IInv`; `DInv` for `Deployment`),
of which TLC has checked every conjunct on the instance of the component's run. `PROJECT.json`
lists the theorems with the property each states.

**`ScanSessionProofs`** (`SessionAssumption`, `RulesAssumption`): `TypeCorrect`, `BufferFollowsUpload`,
`VerdictSound`, `AnswersInStep`.
`VerdictIsAboutTheDeclaredFile` is not inductive: when `scan_end` arrives, one must know what the
buffer has to do with the requests read so far. `BufferIsTheUpload` says it: while a scan
is active, the log ends with a declaration of its size followed only by health probes and
chunks of its identifier that fit the buffer and together cover it (`BufferIsDelivered`), and the
buffer is within its declaration. The argument: a chunk at the
end of the buffer fits the longer buffer and covers what is new (`ChunkFits`), what fitted
before still does (`FitsLonger`, `UploadExtends`), `scan_end` turns the buffer into the
content the verdict is about (`NextVerdict`), and a log that only grows leaves older
verdicts as they were (`AboutItsFileStable`). `AnswersFollowRequests` is inductive with the
types: the awaited requests of a longer log are those of the shorter and perhaps the last
(`AwaitedGrows`), and a step either answers the request it reads (`AnswerKeepsStep`) or
reads one that nobody waits for (`SilenceKeepsStep`). The upload is described by quantifiers
over the log, not by a recursive reassembly function, so that no induction over data is needed.
`UploadHasOneContent` shows that nothing is lost by it: the requests before a `scan_end` determine the
declaration it ends and every byte uploaded since (two contents that fit a chunk agree where the chunk
covers them, and together the chunks cover all), so that a verdict is about one file.
`FirstRuleDecides` and `SurroundingsHideNothing` say what that verdict is, for every rule table: the
`CHOOSE` of `Scan` is the first rule that matches, as in the loop of `scan.rs`, and a file that contains the
bytes of a blocked file is blocked, wherever they start (a window that fits is still one, shifted by
what comes before it: `MatchesInside`).

**`FramingProofs`** (`FramingAssumption`, `DigitsAssumption`): `FramingTypeCorrect`, and
`FramesAreKept`, the safety part of `FramesKept`. The frames returned are a prefix of those
offered, and while the reader has not failed the bytes it holds, those on the wire and those
still to be written are, one after the other, exactly the remaining frames (`InStep`). The
remaining bytes would be a recursive function of the frames; to do without induction, `InStep` says that
there *is* a function `rest` in which each frame precedes the rest of the next. Moving bytes from
one buffer to the one before it leaves their concatenation as it is (`BytesPass`), and a complete prefix
and payload at its head are those of the next frame (`FrameComesOut`). For a clean end
one must know that what is not written is of the last frame only (`OutgoingIsOfLast`).
`DigitsAssumption`, that the digits of the length of an offered payload give that length back, is
a fact of arithmetic whose proof is an induction over the digits; TLC evaluates it.

**`NativeScanProofs`** (`NativeAssumption`, `MarksAssumption`): `NativeTypeCorrect`,
`PipelineCarriesTheUpload`, `RelayStaysInStep`, and `CallKeepsItsPromise`, the safety part of
`PromiseKept`. `InOrder` says that what the daemon has read, the socket, the broker's hands and its stdin are
together the frames of the call; with it, the daemon's buffer is a part of the file
(`BufferIsAPart`), and whatever is written is a true answer to the call (`AnswersAreTrue`). One answer
reaches the client because the broker waits exactly when one is due (`LockStep`, `OneAnswer`).
`CallsFramesAreTaken` proves `EveryFrameIsTaken` for every length of file and size of chunk: with
`InPlace` the session holds exactly the chunks read so far, each chunk starts where those before it end
(`ChunkIsNext`), the last one ends with the file (`ChunksAreTheFile`), and their number is at most the
file's length, so that `MaxFrames` is never met (`ChunkCountFacts`). `DaemonIsScanSession` shows that the composition implements `ScanSession`, so that
`ConnectionKeepsItsPromises` is `VerdictSound` and `AnswersInStep` instantiated. `SettledScanIsSound`
puts the result in the terms of the worker that asks: a settled scan says whether a rule matches
exactly its bytes, or gives one of three reasons for having no answer. This is what `NativeResolves` of
`EndToEnd` supposes of the native host, with `Secret` the files some rule matches.

**`ScanServiceProofs`** (the assumptions of `GuardPolicy` and `ScanService`): `LoadedIsInForce`,
that the code's order of checks computes the policy that the precedence puts in force, for every pair
of candidates; `ServiceTypeCorrect`, `PolicyWasInForce`, `AlwaysAskedWithinBounds`;
`OverwrittenWhenAnswered`, the safety part of `AnsweredAndOverwritten`. `PolicyWasInForce` needs to
know which read of a load has seen which change of a store: with one change within the load
either order of the two reads gives the policy before or after it.

**`UploadGuardProofs`** (`GuardAssumption`, and `DecisionAssumption`: no result is the mark of a missing one):
`GuardTypeCorrect`, `RegistriesAlwaysAgree`, `OverlayAlwaysCurrent`,
`SuppressionAlwaysConsumed`, and `GuardImplementsGate`, the refinement of `UploadGate` by
`UploadGuard`. The page acts between any two events, and inputs may be outside the document from
the start; what escapes the guard there is a step of the gate that says so (`Lose`, `Mistake`), so
that the theorem bounds it. The three invariants are inductive together: an overlay is current
because a replaced operation leaves both registries in the same step, and a flag is set only by
the captured event that starts its gesture (`FlagOfNewOperation`), and cleared by its change event unless
the input was outside the document (`FlagCleared`). The refinement needs them where a
result is applied: the operation the check for obsolete ones lets through is the choice the gate
knows (`ChoiceOfInput`, `OtherChoices`).

**`EndToEndProofs`** (`EndToEndAssumption`, `NoAnswerAssumption`, and those of the parts):
`SecretAlwaysStaysOut`, `WorkerAlwaysAsSupposed`, `ContentScriptIsUploadGuard` and `WorkerIsScanService`. The
composition is shown to implement both of its parts (the second without its fairness), so that
the invariants of `UploadGuardProofs` and `ScanServiceProofs` are instantiated rather than proved again.
To them it adds how the two are coupled: which message of the tracked operation is where
(`Coupled`), that a verdict or a policy in `regime` is the reason of a decision
(`PolicyIsTheReason`, `Remembered`), and that a file which has reached the page was passed on for
such a reason (`ReachedIfPassed`). As no step of the composition moves an input, the inputs stay in the
document (`InDocument`).

**`DaemonRuntimeProofs`** (`RuntimeAssumption`): `RuntimeTypeCorrect`, `PermitsSound`. Types and
permits need each other: a permit that is returned had been taken because permits are those of
threads. The count of threads is a cardinality; each step changes it by at most one
(`ServedChangesByOne`).

**`SocketLifecycleProofs`** (`SocketAssumption`; for the scripts also `DeploymentAssumption`).
The daemons: `OneServesAlways`, `ServingIsReachableAlways`,
`NothingElseIsRemoved`, `StaleIsAlwaysReclaimed` for any number of daemons; `ServedAlways`
with a broker, whose steps disturb nothing (`DaemonsAreUndisturbed`). `OneServes` says nothing of
a daemon that is about to serve, so `OneTakesOver` adds that no daemon goes past its probe
while another serves or is about to unlink, and `PathIsOwn` that from bind to unlink the path
is the daemon's own file; both hold until startups overlap. `Ownership` (who listens on what)
and `Checked` (what inspection has established) hold always. `Solitude` does for a daemon that
was started alone what the others do for all: what its own calls have found is still so. The
steps are first reduced to their effects (`CallEffect`, `StepEffect`), of which there are nine.

The scripts: `DeploymentTypeCorrect`, `NothingIsLeft`, `AlwaysVouchesForFresh`,
`NothingIsEverRestarted`, `ServiceIsAlwaysReachable`. `PathIsOwn` is false here, as scripts and service manager take
the path away under the daemons. What remains is `Order`: until startups overlap, a daemon that publishes
its socket finds it at the path, or nothing, and one that is about to unlink does unless a
socket was bound meanwhile (`raced`). `Freshness` says what the runtime directory is for: as soon as it
is removed no socket of the service is at the path, so that one found there was made since. `Progress`
and `Quiet` say what the uninstallation has achieved at each of its commands; that the
service does not come back follows because only two steps start it (`OnlyLaunched`).

Only model-checked. Liveness under fairness (`CleanedUp`, `EveryOperationDecides`,
`EveryClientIsHandled`, `EndOfListenerEndsProcess`, `FramesFlow`, and those parts of
`PromiseKept`, `FramesKept` and `AnsweredAndOverwritten`) is out of the prover's reach. What
recursive definitions compute for every input (`DigitsAssumption`) would need
induction over data, which the installed provers cannot instantiate. The three counterexamples
of section 3 are TLC's.

## 5. Not modelled

- JSON and base64 as formats: whether a frame's payload decodes is an input.
- Zeroization and the number of copies a runtime makes.
- The peer credentials, of which only the result is modelled.
- Messages to the worker that the content script never sends.
- In `EndToEnd`, inputs outside the document: `UploadGuard` has them.
- Choices made after the guard has been removed, and inputs in shadow roots, whose events the
  window's listeners see with another target (`ARCHITECTURE.md:53` leaves them to adapters).
- `systemctl enable` and `disable`, and `launchctl kickstart -k` as a command of its own (section 2).
- Building the binaries and checking arguments in the installation scripts.
- The overlay's markup, the demo page, the doctor, demo and smoke scripts, end-to-end tests:
  presentation, or sequential checks that only read what the models have.

## 6. Plan

Done: all modules of section 2, the compositions (native path, end to end, broker and daemons,
deployment), and the proofs of section 4, which state every invariant and action property of the runs.

Left to prove: that `EndToEnd` with `NativeScan` in the place of its `NativeResolves` implements
`EndToEnd`. `SettledScanIsSound` is the fact this rests on; the composed module is not written, as its
state space is the product of the two runs and its steps are those of the two parts.
