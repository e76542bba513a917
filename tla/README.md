# rodeo, specified

rodeo runs Luau scripts inside Roblox Studio from outside of it.  This directory holds TLA+
specifications of the program in `src/`, the TLC configurations that check them on small instances,
and proofs that the TLA+ proof system (TLAPS) checks for every instance.  `PROJECT.json` maps every
definition to the lines it was translated from.

## 1. The system

```
 run client  --RunRequest-->  MASTER  --MasterMessage-->  STUDIO BACKEND  --ServerMessage-->  PLUGIN
 rodeo-client <--RunEvent--  (gRPC)   <--BackendMessage--  (one per machine) <--PluginMessage-- (one per
 rodeo CLI, TS, Lune                                                             (websocket)     DataModel)
```

A *DOM* is a DataModel with a rodeo plugin in it: an edit session, or the server or a client of a play
session.  A *session* is a Studio instance, launched by rodeo (it then has a session guid) or opened by
hand.  A *run* is one script submitted by one client.

| Component | State it keeps | Operations |
| --- | --- | --- |
| Master: runs (`rodeo-cli/src/master`) | queue of unrouted runs, active runs, event senders, registered backends and their last snapshot | accept a run, route or queue it, reconcile, complete, kill, disconnect, lose a backend |
| Master: targets | target mode per session, DOM set last pushed to | derive and push targets |
| Master: launch, save, close | the watches on its snapshots, pending saves | send, wait for the snapshots that answer, or time out |
| Studio backend (`rodeo-cli/src/studio_backend`) | registry of connected DOMs, rows of launched Studios, relay and outgoing lanes | relay messages, take snapshots, launch, save and close Studios, serve plugin sockets |
| StudioMCP bridge | one JSON-RPC child process behind a mutex, the ids it gives Studios | tell DataModels their ids, pair a launch with its Studio, serve scripts' `mcp.call` |
| Profile scanner (`rodeo-cli/rbx-control`) | profiled executions | register, poll, unregister and drain |
| Patched settings (`filepatch`, `fflags.rs`, `layout.rs`) | a lock file per patch beside the file, a handle per patch | apply, restore, sweep what the dead left; merge flags, hide panels |
| Plugin files (`plugin_sweep.rs`, `plugin_embed.rs`) | one file per build and port in the directory every Studio loads | install, sweep, remove |
| Plugin (`rodeo-plugin/src`) | socket, message handler and its process tables, executing scripts, mode driver | dial, put a script together, run, kill, report, converge to the target mode |
| Run client (`rodeo-client/src`) | event stream, exit code, open files, child processes, captured output | message loop, a task per call of the script |
| Viewport captures (`roblox.rs`) | a snapshot of the directory per capture | begin, collect, give up |
| JSON-RPC process (`spawn_canonical_client.rs`) | the line in hand, a task per streaming run | answer lines one after the other, pump a run, cancel it |
| CLI (`commands/`) | one command's progress | `run --place`: launch, run, save, close; `serve`; `kill`, `state` |
| TypeScript, Lune and Lute clients, widget | bindings of the JSON-RPC process; user interface | |

How they interact: the run client holds one gRPC stream per run; each backend holds one control stream
to the master, on which the messages of all its DOMs are multiplexed; each plugin holds one websocket
to its backend.  Everything the master does runs under one mutex, so a handler is atomic there; between
processes there are only FIFO channels.  The backend's outgoing lane has *two* feeders, the relay
forwarder and the snapshot task, so a snapshot may overtake the events it reflects.

What is hard about it:

* the master routes on *snapshots* that are always somewhat old, while DOMs come and go;
* any handler may dispatch queued runs, and may drain or complete others while it does;
* the plugin, its socket, its message handler, its DataModel and its script have five different
  lifetimes, and a report only reaches the master if the right ones coincide;
* a socket loop of the backend outlives the connection it was made for;
* a control stream may die with reports unread, and with it goes the only channel that could carry
  the news of its DOMs;
* a profiled run stays active after its end, until a drain that several processes take part in;
* launch, save, close and the exit of one Studio are four tasks over one row, and the master learns of
  them from snapshots only;
* several rodeo processes patch one user's settings and sweep one plugin directory without a lock
  between them, and may die at any file operation;
* StudioMCP has one active Studio and one pipe, which a loop, launches and scripts share, and an answer
  may come after the caller has given up;
* the calls of a script are served beside the loop that decides when its run is over, under a lock that
  a read may hold for as long as a child process is silent;
* a script travels in pieces through two reassemblies, and the receiver may be replaced between two.

What makes each part correct (where the code leaves an exception open, the property names it; see section 3):

* *routing and queue*: a run is dispatched at most once, only to a DOM its request fits, and never
  waits while the master sees such a DOM; a pinned or session-bound run never goes astray;
* *process list*: a run that the master lists as running can still end; a kill ends it; an acknowledged
  kill is true; a lost backend, socket or DataModel ends it;
* *client*: exit code 0 means the script ran and succeeded; a client always gets an end; a client that
  leaves does not leave its script behind;
* *profiling*: a drained run always has a process that owes it its `FilesComplete`;
* *target modes*: a connected plugin applies the master's target; a run lands in the mode it asked for;
  waiting runs get their mode and the driver then rests;
* *launch, save, close*: a command that was to save and reports success has saved; closed means dead; a
  dead Studio never counts as connected again; a launch is answered; whatever ends a Studio, its
  settings and its temporary place go;
* *file patching*: what the user had is in the file or in the only lock, wherever a process dies; a
  patch in use stays in force; no patch is built on another;
* *plugin files*: a serving backend has its plugin file, and a sweep takes none from a running Studio;
* *StudioMCP*: a caller gets its own answer, from its own Studio; no Studio goes by another's id;
* *client*: what the script wrote arrives, an exit it asked for counts, a run that has ended lets its
  client return;
* *captures*: a frame is whole, of the right size and taken during the capture;
* *JSON-RPC process*: a stream has one end, a cancelled run stops;
* *script transfer*: a plugin executes whole scripts only, each once, and all that it was sent.

## 2. The modules

| Module | What it is |
| --- | --- |
| `RunBoard` | the abstract specification: what the master promises about every run, with no process, channel or failure in it |
| `RunLifecycle` | the detailed one: master, backends, plugins, run clients, their channels and failures |
| `MCRunLifecycle` | the instance TLC checks: DOMs, routes and scenarios |
| `RunLifecycleRouting` | proofs: type correctness, the queue is served, `RunLifecycle` implements `RunBoard`, scripts stay where they were placed |
| `RunLifecycleOnce` | proofs: a run's script exists once, a client exits 0 only after a success, an acknowledged kill has stopped its run, a started run has what will end it, a run that waits for its files will get them |
| `Route` | the routing specification: how a sparse request resolves to mode, DOM kind and context, or to an error |
| `StudioModes` | how one Studio gets into the mode a queued run asks for: the master's target, the plugins' mode drivers, the engine |
| `MCStudioModes` | its instance: the routes asked for and the scenarios |
| `StudioModesFollow` | proofs: type correctness, drivers follow the master's target, runs land as they asked |
| `StudioLaunch` | `rodeo run --place`: command, master, the backend's tasks, Studio |
| `MCStudioLaunch` | its instance: nine ways of calling the command |
| `StudioLaunchProofs` | proofs: type correctness and the three safety properties of `StudioLaunch` |
| `FilePatch` | a settings file patched, restored and swept by processes that may die |
| `PluginFiles` | the plugin directory: install, sweep, remove, and the Studios that load from it |
| `HostProofs` | proofs about `PluginFiles`, `McpBridge`, `FilePatch` and `StudioSettings`: serving backends and running Studios keep their plugin file, calls get their own answer, ids are right, a patched file is never lost, settings are what was asked for |
| `StudioSettings` | what is written into the settings: flags merged, panels hidden, over all small inputs |
| `McpBridge` | the StudioMCP process and the tasks that share it |
| `MCHost` | the instance of `FilePatch`, `PluginFiles`, `StudioSettings` and `McpBridge`: they share a host and no state |
| `ClientRun` | a run's message loop beside the script's calls |
| `Daemon` | the JSON-RPC process |
| `CaptureFrames` | viewport captures in one directory |
| `ScriptTransfer` | a script's way to the plugin in pieces |
| `ClientProofs` | proofs about `ClientRun`, `Daemon` and `CaptureFrames`: what is written arrives, exits are honoured, one end per stream, frames of their own time; and, over `MCClient`, that every variable keeps its type |
| `ScriptProofs` | proofs about `ScriptTransfer`: what cutting up makes of a script, and that it arrives whole |
| `Induction` | induction over the natural numbers, and that a recursive definition has a solution, in a form that needs no operator parameter |
| `MCClient` | the instance of `ClientRun`, `Daemon`, `CaptureFrames` and `ScriptTransfer`: scripts, lines, captures, uploads |

`MCHost` and `MCClient` each check four modules in one run.  The modules share no variable, so a behaviour
is about one of them (`part`) and the state graph is the sum of theirs.

### RunLifecycle and the code

One action is one handler, with every call it makes.  The master's handlers all end in
`Reconcile(P, A, V, note, extra)` where the code calls `reconcile`: `P`, `A` and `V` are the queue, the
active runs and the view of DOMs that the handler leaves, `note` and `extra` what it has already told
clients and backends.  `Dispatch` is one outcome of it: `process_pending` (every queued run that fits a
DOM in view is sent, the newest first, see `NewestFirst`), then `drain_dead_sessions`.

| Code | Model |
| --- | --- |
| `RodeoService::run` | `Submit`, `Reject` |
| `find_match_for_run` | `Fits`, `Placements`: every DOM that fits, since all report a load of 0 and the tie is broken by hash order |
| `handle_backend_msg` | `HandleNudge`, `HandleDomDisconnect`, `HandleFinished`, `HandleSnapshot`, `HandleFiles` |
| `complete_run` | `CompleteRuns`, with `Completed`, `CompletionNote`, `Notices` |
| end of `control` | `BackendLost` |
| `kill_process`, `disconnect_run`, `close_studio` | `Kill`, `ReaderEnd`, `Close` |
| `run_master_loop` | `Forward`, `TakeSnapshot`, `BackendReceive` (with `handle_master_msg`), `FilesDone` |
| `handle_studio_client` | `Dial` (handshake, new entry), `LoopEnd` (end of the socket loop) |
| `AppContext`, `MessageHandler` | `Lose`, `Rewire`, `PluginReceive`, `ScriptEnd` |
| `message_loop` of the client | `ClientReceive`, `ClientStreamEnd`, `ClientDrop` |
| the world | `Die` (a DataModel goes), `BackendCrash` |

Connections are numbered per DOM: `sock[d]` is the plugin's, `doms[d]` the one the backend's entry
serves, `loops[d]` those whose loop is still alive, and a script remembers the connection it reports
on.  That is what lets an old loop remove a new entry, as it does in the code.

Abstractions.  A script is one message here; its pieces are `ScriptTransfer`'s subject.  Script text, output, files and RPCs
are left out here; `process.exit` is the one RPC that reaches this state, because it asks for a kill and sets
the exit code, so `SuccessIsReal` speaks of scripts that do not call it.  `Home` fixes which backend a
plugin dials.  Target modes are not here: a play session is a DOM that connects.

### RunBoard

A run is `unborn`, `queued`, `running` or `ended`, and moves forward only; its request is fixed at
birth; it is given a DOM exactly when it starts to run, and the DOM fits.  The refinement mapping is
`phase <- Phase(r)` (from `request`, `pending`, `active`) and `place <- placed`.  `placed` is a history
variable written where the code inserts into `active_runs`.

### Route, StudioModes and the code

`Route` is `RouteSpec::resolve` as operators: `Resolve` fills in the defaults and `Valid` says whether
the result is an error.  `StudioModes` extends it.

| Code | Model |
| --- | --- |
| `reconcile` | `Reconcile`: dispatch what fits, then `Derive` the target from the rest (`derive_and_push_targets`, `Changed` decides whether it is pushed) |
| `RodeoService::run`, `disconnect_run`, `StateSnapshot`, the other reconciling handlers | `Submit`, `Leave`, `HandleSnapshot`, `Nudge` |
| `set_target_mode` | `SetTargetMode`: its entry goes by the session guid, the derived one by the studio id, and the next derivation forgets the former |
| `mode_driver.luau` | `SetTarget`, `Start` (edit DOM), `EndTest` (server DOM), `busy` for its `inFlight`; `NeedsAction`, `ModeMatches` |
| `computeState`, `CanLeaveTest` | `Reported`, `Tell`: a test's server says "play" until its client has told it |
| the engine, as the driver's comments describe it | `Begins`, `Ends`, `TornDown`, `UserStart`, `UserStop` |

A driver's retry loop needs no state: it runs exactly while `NeedsAction` of its target holds, and what
changes a DOM's own mode is the end of its session.  The settling wait before the first start is
modelled by its purpose, no start in the instant of a teardown, except in the scenario `unsettled`.
Runs go from the queue to a DOM and are forgotten (`landed` remembers the DOM);
their execution is `RunLifecycle`'s subject.  There is one Studio, launched by rodeo, and no run is
pinned to it by name.

### StudioLaunch and the code

| Code | Model |
| --- | --- |
| `submit_and_run`, `finish_launched_studio` | `Launch`, `Ready`, `LaunchFails`, `RunEnds`, `Finish`, `SaveAnswered`, `Close`, `Closed`, `Interrupt` (Ctrl-C) |
| `launch_studio`, `close_studio`, `save_place` of the master | `Opens`, `Closes`, `AsksSave`, then `WatchOpening`, `WatchClosing`, `WatchesEnd`, `DeliverReply`, `SaveTimeout` |
| `handle_backend_msg` (`StateSnapshot`) | `DeliverSnapshot`: the view of the backend's sessions is replaced, and what waits for a snapshot has a fresh one |
| `handle_master_msg` of the backend | `Receive`, which starts a task |
| launch task | `LaunchBegins`, `Spawn`, `SpawnFails`, `SpawnDropped`, `FailLaunch`, `StoreHandle`, `ArmExit` |
| `claim_pending_instance` | `Handshake` (after `PluginDials`) |
| save task | `SaveBaseline`, `SaveFires`, `SaveEnds`, `SaveBlind` |
| close task, `Studio::cleanup` | `CloseSkips`, `CloseCleans`, `CloseWaits`, `CloseRestores`, `CloseKills`, `CloseDrops` |
| `on_exit` callback | `ExitCleans`, `ExitMarks` |
| shutdown of a serve | `ServeEnds`, by `ServeStopped` or `OwnedServeEnds` |
| Studio and its user | `StudioEnds`, `KeyLands`, `KeyDropped`, `UserSaves`, `UserCloses` |

A place is two bits: the document holds the script's edits (`doc`), the file does (`disk`).  Saving is a
keystroke that Studio may drop and that the code repeats while it watches the file's time.  Cleaning up
runs once (`cleaned`), whoever comes first, as the code's atomic flag has it.

### FilePatch, PluginFiles, StudioSettings and the code

| Code | Model |
| --- | --- |
| `apply` | `Begin`, `List`, `Claim` or `MoveAside` or `WriteSentinel`, `Inspect`, `ReadBackup`, `WritePatch`; errors `TakeFails`, `BuildFails`, `Skip` |
| `Handle::restore`, `Drop` | `Restore`, `RemovePatch`, `PutOriginal` |
| `sweep_stale`, `restore_from_lock` | `Start`, `Visit`, `SweepRemove`, `SweepPut` |
| a process dies; Studio rewrites its settings | `Crash`, `StudioWrites` |
| `run_studio_backend`, `run_master` | `StartMaster`, `Scan`, `Probe`, `Decide`, `Install`, `Exit`, `Dies` |
| `sweep_decisions`, `live_ports` | `SweepDecisions`, `LivePorts` |
| `fflags::apply`, `parse_overrides`, `inject_profile` | `PatchFlags`, `Merge`, `ParseOverrides`, `InjectProfile` |
| `apply_show_widgets`, `collect_hidden`, `strip_panels` | `PatchLayout`, `Hidden`, `StripPanels` |

A lock file is named after its owner, so `lock[h]` is the lock of handle `h`.  One file operation is one
step, with everything the others do in between.  The crate takes no lock between processes, and two
operations that overlap may indeed lose the original: `clash` remembers that some did, and the properties
speak of the behaviours where none have.  A process that dies in the middle of an operation is not an
overlap; nor is a handle that is held while another process patches.

A sweep judges a file by what it hears at the file's port and by the Studios it finds, and both may fail.
A master that errs or does not answer within `PROBE_TIMEOUT` counts as gone (`slow` in `Probe`), and so does
one that runs on another host (`Remote`); a Studio whose command line or bootstrap cannot be read is not found,
and when the processes cannot be listed none is (`missed` in `Decide`).  A live backend can then lose its file,
and a running Studio its plugin.  The properties name these cases: `raced` remembers a serve that
started in the middle of another's sweep, `unheard` the serves that were there and did not answer, `unseen`
those whose Studio a sweep did not find, or could not have found because it was launched, by a serve the sweep had
not heard, after it had looked.

`StudioSettings` has no interleaving: it computes what is written for every input of a small domain, each an
initial state.  An override may be typed with or without its prefix and with or without a value; the
profiler's flags are added after the overrides unless one of these, as it is typed, begins with the flag's key
(`BeginsAs`), which a flag of a longer name does too; settings that cannot be parsed start afresh (`Original`).

### McpBridge and the code

| Code | Model |
| --- | --- |
| `StudioMcpClient::rpc`, `recv_line` | `Ask`, `Receive`, `ReadTimesOut`, `ReadsEnd`; `Settle` is the caller's next step |
| `list_studios`, `set_active_studio`, `call_tool` | the request of each, answered by `McpServes` (external) |
| `run_reconciliation` | `LoopLists` ... `LoopEnds`, with the guard kept across its calls |
| `dispatch_mcp`, `handle_mcp_call` | `CallComes`, `CallSets`, `CallFails`, `CallRuns`, `CallAnswered` |
| the launch's search for its id | `LaunchLists`, `LaunchListed`, `LaunchPolls`, `LaunchPolled`, `LaunchPicks`, `LaunchGivesUp`, `LaunchCloses` |

StudioMCP itself is external: it answers its lines in order, and only the Studios that are up.  A read that
times out may have consumed part of the next line (`torn`), which then fails to parse.  `McpIdsRight`
exempts two cases: a launch whose first list failed (`blind`), which compares with an empty one, and
another Studio that came up beside the search (`crowd`).

### ClientRun, Daemon, CaptureFrames, ScriptTransfer and the code

| Code | Model |
| --- | --- |
| `message_loop` | `TakeCall`, `TakeEnd`, `Judge`, `AwaitTasks`, `TakeLast`, `ForwardCaptured`, `SendResponse`, `Flush` |
| the run's end as the stream shows it | `ScriptEnds`, `Killed`, `Lost`, `Leave` |
| `dispatch_client` and the calls | `TaskStep`: `OpenLoads`, `OpenEnters`, `Write`, `CloseHandle`, `ExportTakes`, `ExportWrites`, `Read`, `ReadReturns`, `CreateSpawns`, `CreateEnters`, `RunChild`, `WaitTakes`, `WaitReturns`, `KillChild`, `Exit`; `Feed`, `FeedReturns` (a write to a child's input), `ReadInput`, `InputReturns` (the client's own) |
| `main`, `dispatch` of the JSON-RPC process | `TakeLine`, one disjunct per method; `CallReturns` for a launch, a close or a snippet that is answered; `WaitEnds`, `WaitTimesOut` for the waits on the master's view |
| `pump_stream` | `PumpEvent`, `PumpCanceled`, `PumpLeaves` |
| `roblox_capture_begin`, `roblox_capture_collect`, `select_capture_file` | `CaptureBegin`, `CollectScans` with `Select`, `CollectGivesUp` |
| `run_inner` | `Submits`, `Sends`; `PiecesOf` and `Cut` on both legs |
| `RodeoService::run`, `dispatch_run`, `build_run_command` | `MasterReads`, `MasterReadsEnd`, `Dispatches`, `Messages` |
| `createHandler`, `executeRun`, `AppProvider` | `PluginReads`, `Starts`, `Rewires`, `Redials` |

A script of `ClientRun` is a set of coroutines, each a sequence of calls; the state they share is behind a
mutex (`Reaches` is having it), which a read of a child's output keeps while it waits, and so does a write to a child that
does not read.  A read of the client's own standard input waits without it.  A handle is opened once, and used only
when its `fs.open` has returned (`HasHandle`).  A script of `ScriptTransfer` is the
sequence of the widths of its characters, so that a piece must be cut between two of them.  All the pieces
of a run are sent under the master's lock and every channel is FIFO, so no kill arrives between two
pieces of the run it kills; a lost socket or a replaced handler may come there (`torn`).

A line of `Daemon` waits in one of two ways.  In a *call* it waits for the stream of a launch or a close, or for a
snippet run in the Studio (`startMultiplayerTest`, `connectClient`, `disconnectClient`, `close` of a test): none has a
deadline, even where the line carries a `timeoutMs`.  In `wait_for_instance` it waits for the master's view,
with the line's `timeoutMs` as its deadline if it has one (`timed`).  Every other method is a unary call that the
master answers by itself, a save within its 70 seconds; the model answers these at once.

## 3. The runs

| Run | Instance | What it shows |
| --- | --- | --- |
| `routing` | 2 runs of 3 routes, 2 DOMs on 2 backends, crashes | `QueueServed`, `OneCopy`, `RightDom`, and the system implements `RunBoard` |
| `faults` | 1 run, 1 DOM that may connect twice, six combinations of disturbances | types, `StartedRunHasFuture`, `SuccessIsReal`, `DrainHasFuture`, `KillAckTruthful` |
| `fair` | 1 run, `FairSpec`, seven combinations of disturbances | `KillEnds`, `AbandonedRunStops`, `EndedRunExits` |
| `modes` | 2 runs, the first for a run session or a test's client, the second for a client; 2 play sessions, five disturbances, `FairSpec` | types, `DriverFollows`, `LandsAsAsked`, `Settles` |
| `host` | 3 patches by 2 processes, 3 serves and a backend whose master is elsewhere, all small settings, 5 scenes around StudioMCP | `OriginalKept`, `BuiltOnOriginal`, `PatchHolds`; `LiveBackendHasPlugin`, `SweepSparesStudios`; `SettingsAsAsked`; `McpAnswersOwn`, `McpIdsRight` |
| `launch` | 1 Studio, 1 backend, 9 ways of calling the command, `FairSpec` | types, `SuccessIsSaved`, `ClosedIsDead`, `DeadStaysDead`, `LaunchAnswered`, `StudioGoesWithRun`, `LeavesNothing` |
| `client` | 31 scripts of 2 coroutines, 10 sequences of lines, 3 captures, 2 uploads of 4 sizes | types, `WrittenArrives`, `ExitHonoured`, `EndedRunReturns`; `StreamEndsOnce`, `CanceledRunStops`; `FrameIsRecent`; `ScriptArrivesWhole` |
| `stale_route` | 1 run, a socket that is lost and dialled again | violation of `RunningRunHasFuture` |
| `stray_kill` | 1 run, the handler rebuilt, a kill | violation of `KilledIsStopped` |
| `dead_session` | 1 run queued for a session, a backend that crashes | violation of `DeadSessionEnds` |
| `profile_flags` | all small settings | violation of `OverridesWin` |
| `play_route` | 2 runs for a test and a play session, `FairSpec` | violation of `EitherWillDo` |

Bounds of the run lifecycle.  `Runs`: two are needed for a handler to dispatch one run while it completes another and for
the order of the queue to show; the properties of `faults` speak of one run at a time, and a second
one meets it only in the queue.  `Doms`, `Backends`: two of each let a run go astray and one backend
die while the other has the run.  `MaxConn = 2`: a plugin that connects again while the old loop is
alive; a third connection only repeats the second's position.  `MaxSnap = 1`: one snapshot in flight per
backend, which is already overtaken by and overtakes the relayed events.  `MaxKill = 1`: a second kill
finds what a kill of a finished run finds.  `Scenarios`: sets of environment moves, one of which each
behaviour may use; they combine the disturbances that share a hazard, where all of them at once would
not finish.  Those of `fair` include the ones its properties make an exception for: a kill with a dying DataModel, a
crash, a lost socket or a rebuilt handler, a client that leaves with a lost socket.  `PlainWhileLost`: beside a lost
socket the run of `fair` is not profiled.  `Requests`: any DOM, a session and kind, a pin, profiled or not, a studio id.

Bounds of the modes.  A run session that makes way for a test is the one transition that needs both an
end and a start; the second session is the one after it, and a Studio that has used both is exempt from
`Settles` only while it is idle.  `MaxMoves = 1`: one press of a button, one lost socket or one explicit
mode, at any point.  `SetModes`: "edit" ends sessions and "run" starts one.

Bounds of the host.  Three handles make a chain: a patch over a patch, and one more by a process that
has already restored; two processes, because a third only stands where the second has died.  Operations
on a file may overlap in the instance where the user had one (`Overlaps`); that types hold whatever overlaps
is a theorem, and the other properties speak of behaviours without.  Serves: two
that use one port after each other and one of another build and port, which is what the sweep decides
on; a backend whose master is elsewhere takes the place of the second.  Settings: four names, the profiler's three
and one that begins with one of these, two prefixes or none, in three sources, at most two overrides; three
panels, of which one has an alias, and containers of at most two references.  StudioMCP: two launches, a launch
beside a user's Studio, two calls, and each beside the loop; at most four request ids and one timed-out
read, after which a second only repeats the torn pipe.

Bounds of the launch.  One Studio and one backend; the calls combine `--save`, `--detach`, an owned or a
foreign serve, a file or a place id with another terminal that saves, closes or stops the serve.  Keystrokes
may be lost without bound.

Bounds of the client.  Two coroutines: the second one is what runs beside the loop's end.  Each of the 31
scripts meets no disturbance, a kill, a lost stream and a consumer that leaves.  Lines: each sequence with its lines' deadlines and
without; what a waiting line can hold up is one cancel; a run prints at most twice (`MaxOutput`), before and after it.  Captures: two of one size at once and a leftover of another.  Uploads:
one to three pieces, one script over the ceiling, two sockets lost or handlers replaced.

Deadlock is not checked: a system whose clients have all left and whose plugins have gone has
nothing left to do.

Fairness.  `RunLifecycle`: weak fairness on every task that drains a channel, notices a closed socket or a
closed stream, or ticks: they are tokio tasks and event handlers that nothing blocks for ever.  No
fairness on submissions, on scripts ending, on plugins dialling, on kills or faults: nothing in the code
makes them happen.  `StudioModes` assumes less, one weak fairness of the whole `System`: while the
backend, the master, a driver or the engine can act, one of them does.  `StudioLaunch`: weak fairness of
`Progress`, the tasks, channels and timeouts of the code, a Studio that comes up or ends and a run that
ends, and of a save's first keystroke; Studio may ignore keystrokes and users do nothing they need
not.  `ClientRun`: the loop, the tasks that can take a step, a kill that was asked for, and a child that
has what it waits for; the script itself need not end.  `Daemon`: the lines, the pumps, and the deadline of a wait
on the master's view whose line carries one; nothing is assumed of runs, of Studios and of the answers to a launch, a
close and a snippet.

What the liveness properties except is what the code leaves open.  `KillEnds`: a run may be `Stranded`.  Its script was
dispatched to a DOM that has gone or lost its entry, where the backend drops the run and the kill alike
(`backend.rs:371`); or run or kill were lost with a backend; or it was profiled and the backend that collects its files has
died.  It then stays in the process list.  A kill that is answered `killed: true` while the run's DOM is in no snapshot is never sent
(`grpc.rs:674`), so the property speaks of kills that are on their way.  `AbandonedRunStops`: the script may be
`OutOfReach`.  The handler that tracked it has been replaced, or the plugin has dialled again after a lost
socket, when the script goes on and the kill finds nothing to stop.  `EndedRunReturns`: a call of the script may
wait for ever on a child that does not print, read or end, or on the client's own standard input.
`CanceledRunStops`: the line in hand may wait for ever, in a call or without a `timeoutMs`.

### What the violations show

* `stale_route`: the master completes the active runs of a DOM when its disconnect is handled, but
  routes on the last snapshot until the next one arrives.  A run dispatched in between is dropped by
  the backend with a log line and stays `running` in the process list: the very thing the comment at
  the sweep (`master/grpc.rs:213`) says is prevented.  `StartedRunHasFuture` is the part that does hold.
* `stray_kill`: toggling "verbose" in the widget rebuilds the plugin's message handler on the same
  socket.  A kill then finds no execution and is acknowledged, as the comment at
  `MessageHandler.luau:249` argues it must be for runs that ended or were lost to a reload, while the
  script of the old handler goes on.  `KillAckTruthful` is the part that holds.
* `dead_session`: the loss of a backend reconciles only if it orphaned an active run.  Otherwise
  a run queued for one of its sessions waits, against the comment of `drain_dead_sessions`
  (`master/mod.rs:591`).
* `profile_flags`: the flags of a profiled launch are added after the caller's overrides unless one of these
  begins with the flag's key as it is typed.  So an override without its prefix, which `auto_prefix` completes later,
  is overruled, against the comment that explicit overrides win (`studio_backend/launch.rs:41`).
  `SettingsAsAsked` states the precedence as it is.
* `play_route`: the driver takes test and play for one another (`mode_driver.luau:34`), the routing
  compares the mode exactly.  A run that asks for play while the Studio is in a test waits until somebody
  else ends the session.  `Settles` is the part that holds: it exempts this state (`Confused`).

## 4. The proofs

| Theorem | Module | What it says, for every value of the constants |
| --- | --- | --- |
| `TypeCorrect` | `RunLifecycleRouting` | `Spec => []TypeOK` |
| `QueueIsServed` | `RunLifecycleRouting` | `Spec => []QueueServed`: nothing queued fits a DOM the master sees |
| `ImplementsBoard` | `RunLifecycleRouting` | `Spec => BoardSpec`: the system implements `RunBoard` |
| `RightDomAlways` | `RunLifecycleRouting` | `Spec => []RightDom`: a script is on the DOM its run was placed on |
| `OneCopyAlways` | `RunLifecycleOnce` | `Spec => []OneCopy`: a script is queued, on its way to one DOM or executing on one, never two of these |
| `SuccessAlwaysReal` | `RunLifecycleOnce` | `Spec => []SuccessIsReal`: a client exits 0 only after its script returned without an error |
| `KillAcksTrue` | `RunLifecycleOnce` | `Spec => []KillAckTruthful`: while no socket is lost and no handler replaced, an acknowledged kill has stopped its script |
| `StartedRunsHaveFuture` | `RunLifecycleOnce` | `Spec => []StartedRunHasFuture`: a run that has started and is still listed as running has something left that will end it |
| `DrainsHaveFuture` | `RunLifecycleOnce` | `Spec => []DrainHasFuture`: while the backends live, a run that waits for its files has them coming |
| `ModesTypeCorrect` | `StudioModesFollow` | `Spec => []TypeOK` of `StudioModes` |
| `DriversFollow` | `StudioModesFollow` | `Spec => []DriverFollows`: what a driver applies, once its messages are read, is the master's target |
| `RunsLandAsAsked` | `StudioModesFollow` | `Spec => []LandsAsAsked`: a run lands on a DOM of its kind, in a session of its mode (a test may be taken for play) |
| `TypesKept` | `HostProofs` | `Spec => []TypeOK` of `FilePatch`, whatever overlaps |
| `UserFileKept` | `HostProofs` | `Spec => []OriginalKept`: the user's file is in place or in the only lock |
| `PatchesPure` | `HostProofs` | `Spec => []BuiltOnOriginal`: no patch is built on a patch |
| `PatchesHold` | `HostProofs` | `Spec => []PatchHolds`: a patch in use stays in force |
| `LaunchTypes` | `StudioLaunchProofs` | `Spec => []TypeOK` of `StudioLaunch` |
| `SuccessMeansSaved` | `StudioLaunchProofs` | `Spec => []SuccessIsSaved`: a command told to save that succeeds has saved |
| `ClosedMeansDead` | `StudioLaunchProofs` | `OneBackend => (Spec => []ClosedIsDead)`: what is reported closed has ended |
| `DeadForGood` | `StudioLaunchProofs` | `Spec => []DeadStaysDead`: after the exit callback nothing connects the session |
| `BackendKeepsPlugin` | `HostProofs` | `PluginsSpec => []LiveBackendHasPlugin`: a backend that is up and was heard by every sweep has its plugin file |
| `StudiosKeepPlugin` | `HostProofs` | `PluginsSpec => SweepSparesStudios`, a property of steps: no sweep deletes the file of a running Studio it could find, but for a master of another build |
| `CallsAnsweredRight` | `HostProofs` | `McpSpec => []McpAnswersOwn`: a call that gets a result gets that of its own tool, run in its own Studio |
| `IdsFoundRight` | `HostProofs` | `McpSpec => []McpIdsRight`: nobody holds another Studio's id, but for the two excuses of the property |
| `SettingsWritten` | `HostProofs` | `SettingsSpec => []SettingsAsAsked`: flags by the precedence the code has, and only the listed panels, in their order and counted |
| `ScriptsArriveWhole` | `ScriptProofs` | `ScriptSpec => []ScriptArrivesWhole`: a plugin executes whole scripts only, each once, and all that it was sent |
| `WritesArrive` | `ClientProofs` | `RunSpec => []WrittenArrives`: a completed run's output has been seen whole and in order, and every file begins with what the script saw written |
| `ExitsHonoured` | `ClientProofs` | `RunSpec => []ExitHonoured`: a run ended by an exit leaves with a code that was asked for |
| `StreamsEndOnce` | `ClientProofs` | `DaemonSpec => []StreamEndsOnce`: a stream has one end, whatever cancel it meets |
| `FramesAreRecent` | `ClientProofs` | `CapturesSpec => []FrameIsRecent`: a frame is whole and of its capture's time and size |
| `ClientTypesKept` | `ClientProofs` | `ClientSpec => []ClientTypeOK`: every variable of the four client modules keeps its type, and no message is larger than a piece |

They rest on the assumptions `RunLifecycle` names: the runs are a finite set of numbers
(`RunsAssumption`), the DOMs a finite set, each with a home backend and perhaps a session guid
(`DomsAssumption`), the requests records whose pin is a DOM or `None` (`RequestsAssumption`), the bounds
numbers (`BoundsAssumption`), and `None` is no entry of the process list and no outcome of a script (`NoneAssumption`).  `StudioModes` assumes of its constants that the runs are a finite set
of numbers, that what they ask for resolves without error, that the sessions a user starts are tests or
plays, that `None` is no request, mode, kind, context or target, and that the bounds are numbers.  `FilePatch`
assumes finitely many handles, each with a process that owns it, and that `None` is not one
(`PatchAssumption`).  `StudioLaunch` assumes that every session has a home backend and every command one of
the ways of calling it (`LaunchAssumption`); `ClosedMeansDead` has the hypothesis `OneBackend`, without
which it is false (section 5).  `PluginFiles` assumes that the answer "no serve" is no build
(`ServesAssumption`), `McpBridge` that Studios, launches, calls and the loop are told apart
(`McpAssumption`), `Daemon` that its inputs are sequences of lines in which a stream id is used once
(`PlansAssumption`, `IdsAssumption`), `CaptureFrames` that sizes are numbers
(`CapturesAssumption`), `ClientRun` that the scripts are sequences of calls and that a coroutine is not taken for
`None` or for a message (`ScriptsAssumption`), `ScriptTransfer` that no script is empty and no character wider than
a piece (`SourcesAssumption`), `StudioSettings` that the profiler's flag is one and that no panel is called by a word
that means something else on the command line (`SettingsAssumption`).  TLC
evaluates all of them on the runs of their modules.

*Types.*  `TypeOK` is inductive.  One lemma per helper says what it returns (`Dispatch`, `CompleteRuns`,
the channels), one per action that the action keeps it.

*The queue.*  `QueueServed` alone is not inductive: a submission must not change the request of a run that
already waits.  `QueueInv` adds that queued runs have one (`Minted`).  The
argument is that `Reconcile` removes from the queue exactly what fits the view it stores, and that no
other action shrinks the view's misfits or extends queue or view without it; a submitted run is queued
only when nothing fits it.

*The refinement.*  The initial states map to `RunBoard`'s.  A handler that reconciles may move several
runs at once, which is why `RunBoard`'s step lets each run move; `ReconcileRoutes` shows from `Dispatch`
that every run makes a legal move and is placed, if at all, on a DOM it fits, and `ChoiceStep` collects
that for all actions.  The invariant it needs is `ChosenOnce`: a placed run has left the queue and keeps
its place.

*Where scripts are.*  `RightDom` speaks of messages and scripts; that they agree with `placed` follows
from `ChosenOnce` and `WireRight` (every message that carries a
run, on any channel, goes to the place of its run).  Their conjunction `RouteInv` is inductive.

*One copy.*  `OnceInv` says where the command that starts a run is: at one place of one backend's lane
(`OneDown`), or at one of one plugin's (`OneInbox`), never in both (`OneLane`); once its script has begun it
is nowhere (`NotAgain`), and scripts only execute runs that have begun (`ScriptsBegun`).  The master adds a
command only for a run that is not placed, which by `WireRight` is nowhere (`Adds`); what the backends and
plugins do moves a lane up by one place (`Shifted`), and a command they pass on leaves one lane as it enters
the next.

*Success.*  What a client hears depends on reports that have passed two lanes, and for a profiled run on a
drain that goes down to the backends and back.  `TrueInv` says that each of these messages is true: a Done
on its way is that of a script that succeeded, a RunCompleted, a FilesComplete or a flush belongs to a run
that is `Settled` (`LanesTrue`), and a Complete on its way to a client comes after the event that sets its exit
code or ends it, unless the script succeeded (`Honest`).  A script's outcome is fixed once, because a script
that executes is the only one of its run (`ScriptsFresh`, from `OnceInv`).

*Kills.*  `KillInv` follows a kill down the lanes: every command is on the lane of the DOM its run is placed on
(`LanesHome`), and a kill is behind the command that starts its run (`KillLast`, `InKillLast`), so when the
plugin reads it nothing of the run is left to start.  What executes the handler knows (`HandlerKnows`), which is
where the two excluded disturbances come in, so it stops it; and a run that is `Stopped` stays so until the
acknowledgement has been read (`AcksTrue`).

*Drains.*  `DrainHasFuture` speaks of runs that have ended; whether their files come is settled while they run, since
a backend answers a notice with a flush only for a run it has registered with its scanner.  `DrainInv` follows a
profiled run from its placement, as long as every backend lives: while it runs, its command is on the lane of its
home backend or the backend has registered it (`Scans`); once it has ended, the backend is flushing, or the
notice is on the lane, behind the command if that is still there, or the files are on the stream (`Drains`).  A
notice is only ever sent for a placed run that no longer runs, so the backend never reads one too early.

*Started runs.*  `StartedRunHasFuture` follows a run from the start of its script through everything that can
cut it off from the master.  `FutureInv` names what is left for it on its own DOM (`Future`): a script on the open
connection, a message that ends the run or its DOM on the way to the master (`Spoken`), the loop of a
connection that is no longer the open one, or a backend that has died.  It is inductive with the sockets' own
invariant (`Dialed`: the open connection has a loop, and a loop never runs a connection not yet made), so that
losing a socket leaves a loop behind and dialling again does not pass for the old one; with `NotAgain`, since the
master may only put a run into its list that has not started; and with `RouteInv`, since a script must have
started on the DOM the master has the run on.  The commands still on a lane and the closing sessions of `HasFuture`
are not needed.

*Drivers follow.*  `DriverFollows` speaks of the DOMs the master sees, and the master pushes a target
only when it or the DOM set changes; so the proof must show that nothing else changes.  `FollowInv` adds
that a plugin that is not connected has no target and nothing on its way, and that a connected one is of
a session that lives (`Gone`); that the snapshots on their way list every connected DOM of the view, each
one those before it, and for the rest only DOMs that exist or have died (`Grows`); that the master remembers
the DOM set it last pushed to (`Known`); and the property itself for every connected DOM of the view
(`Follows`).  A DOM of a dead session does not come back, because sessions are numbered as the engine
creates them.

*Runs land as they asked.*  The master compares a route with the modes a snapshot lists, which may be of the
past.  `LandInv` says why that is enough: what a view or a snapshot says of a session's DOM is its session's
kind, or "play" of a test whose server does not know it yet (`TrueView`); and a session that has begun keeps its
kind (`SessionsKept`), so what was true when the snapshot was taken, or the run placed, stays true.

*Patches.*  The three properties speak of the file, the locks and one handle; what a step does depends on
what its handle has read and found, and on who else is at work.  The inductive invariant is `PatchInv`: types
(`Typed`), and, as long as no two operations have overlapped, `Safe`.  `Safe` says that at most one
operation is under way (`Solo`); that a lock holds the user's file or its sentinel (`LockIsBackup`), that
there is at most one (`OneLock`), and that without one the user's file is in place (`NoLockRestored`); what
each caller of `apply` and `restore` and each sweep knows at each of its points (`CallersKnow`,
`SweepersKnow`); that a held patch is in force (`HeldInForce`) and no patch rests on another
(`PatchPure`).  A process that dies leaves one of the states the next patch or sweep starts from.
`clash` never goes back, so the step from a
state without overlap is the only one with something to show.

*Launch.*  The four theorems need three invariants beside the types, which say among other things that the
launch task stores only a Studio it has started.  `Marked`: the exit callback is armed by the last step of
the launch task and leaves a row that nothing promotes, since a handshake promotes `launching` rows only.
`ClosedInv`: close tasks exist only for a stored Studio and drop its row only after it is dead
(`TableInv`); so a session that leaves a snapshot after it was in one is dead (`SnapInv`), and a close is
asked only by somebody who has seen the session (`CallInv`), which makes "not in the snapshot" mean dead.
`SaveInv`: the command's save acts after the run has put its edits into the document (`SaveAsked`), on a
place that is a file (`SaveWatched`), so the mtime that moves is that of a place written with the edits,
and this fact travels with the save task, its reply, the master's call and the command (`SaveDone`).

*Plugin files.*  `FilesInv` says that a port has one master beside those on other hosts (`OneMaster`), one bound
backend (`OneBackend`) and, unless a serve has started during a sweep: what a sweep learnt from a port is still true
when it deletes, of every serve that was always heard (`ProbesHold`); what it has doomed is the file of another build
than the one that answered, or of a port where no Studio runs that it could find (`Decided`); and a serve that is up
and was always heard is installed (`UpInstalled`).

*StudioMCP.*  The process answers in order, but after a read that timed out requests and replies of a
task that has let go of the client are still on the pipes.  `HostInv` says that ids are given out in order and
only the last one is read for (`IdsInOrder`), so a stale reply is never taken for the answer; that who has
begun an rpc holds the client (`HoldsIt`); that a snippet or a tool on its way finds its Studio active, with no
request before it that makes another one so (`Aimed`), which is where the order of the pipes comes in; what each
reply that will be taken says (`Rpcs`, `Tells`): a Studio that could be made active is, and nothing follows it on
the pipe; and what a launch that searches has seen (`Searches`): every Studio that is up is its own, or was
in its first list, or excuses it.

*A run's client.*  `RunInv` says where each call is: in the stream, in its task or among the answers, once
(`CallPlaces`); how the stream is ordered (`StreamOrdered`); and that once the loop has waited for its tasks no
call comes and no output is left (`SettledAtEnd`), which with `OutputKept` gives the output and with `ExitKnown`
the code: the code is read before the tasks are waited for, so that it is an exit's needs the kill to come from
an answer the loop has sent.  The files are the hard part, because the script sees a write later than the file does.
`FilesKept` relates each handle to what the script has been told: an open handle is the one it knows, or is being
opened (`HandleOpen`), a handle it takes for open has been closed only by a close on its way (`HandleShut`), and
what a file holds begins with what was answered (`FileKept`).  That is not inductive by itself: two coroutines may
write at once, and an answer adds its write at the end of what the script knows, so it must be the one that comes
next in the file.  `Placed` therefore gives each unanswered write its place in the file, in the order of the
answers and without a gap.  A handle that a script is just opening, discarding or exporting is excused (`Unsure`).
The proof turned up two faults of the model, which it now has right: an appender cannot be exported, as
`take_file_writer` refuses it, and a write after the close is answered though nothing is written.

*Streams and frames.*  `StreamInv`: the lines to come open no stream twice (`LinesFresh`), and a pump that
has not left its loop has told data only (`PumpTells`).  `CaptureInv`: what was not in the directory before
a capture was written during it (`NewIsRecent`), and a capture that is not done has no frame (`NoneYet`).

*Scripts.*  Two things are proved.  What cutting up makes of a script, by induction: the sizes of its beginnings
grow with every character (`BytesSum`, `BytesGrow`), so from any character on there is a cut that fits and is the
last that does (`CutWithin`, `CutUp`); the pieces end at growing positions, the last at the end of the script, each of
them fits and what has been put together after so many of them is the script up to there (`PiecesSplit`, `MadeOf`).
And where the pieces are.  `TransferInv` says of the leg to the master that there are numbers j <= k such that the
messages up to the j-th have been read and what they gathered is the script up to there, those from j to k are in
the client's stream and the rest is still with the client (`Fed`).  Of the leg to the plugin it says, for a run the
master has sent, that there is a number i such that the messages after the i-th lie on the wire (the socket and
the backend's lane behind it) in order and without a gap, with at most a kill behind them (`Laid`), and that the
plugin has put together the first i pieces, or nothing of them if a socket or a handler was lost since (`Received`);
and of a run the master has not sent that nothing of it is there (`Untouched`).  Losing the socket moves i on
past the pieces that were on it, which leaves the tail of a run whose first piece is gone, and such a tail is never
executed (`ReceivedLoses`).

*Settings.*  A step computes the whole result, so the proof is about functions.  After n overrides each flag has the
value of the last of them that names it (`LastDecides`, by induction), each of the profiler's flags is appended
unless an override begins with it (`ProfileSays`), and the file and the user's own flags give what is not overridden.  What remains of the references
of a container has for each its place among the old ones, in order (`RemainsInOrder`, by induction); of these none
is hidden, so stripping again leaves all (`AllRemain`).  That the panels hidden are those not listed needs that the
words of the command line name no panel.

*Induction.*  The library's induction theorems take an operator as a parameter, which the provers at hand cannot
instantiate.  `Induction` states what is needed over sets instead: a set of numbers with an element has a least one
(`NatLeast`), a set that has 0 and with each number below N the next has all of them (`NatUpTo`), and a step
function has a function that follows it (`Recursion`).  The recursive definitions the proofs speak of are therefore
recursive functions over the length of their argument.

*Types of the client.*  `ClientSpec` lets one part move and the others stand, so it implies the specifications of its
four parts (`PartsBehave`).  `RunInv` and `TransferTypes` hold the types of two of them; those of `Daemon` and
`CaptureFrames` are inductive beside `StreamInv` (a run line names a stream) and `CaptureInv` (a capture has no frame
before it is collected).

*Only model-checked.*  The liveness properties (`KillEnds`, `AbandonedRunStops`, `EndedRunExits`, `Settles`,
`LaunchAnswered`, `StudioGoesWithRun`, `LeavesNothing`, `EndedRunReturns`, `CanceledRunStops`), since liveness under
fairness and `ENABLED` are out of the prover's reach.

## 5. What is not modelled

* Message sizes and back-pressure: the envelope guard of the relay and the socket send under the
  backend's lock (both listed as hazards).
* Several Studios in `StudioModes` and `StudioLaunch`, several backends in the latter; runs pinned to a
  Studio by name.  With two backends `close_studio` may ask the wrong one, and "closed" then says nothing.
* The persistent mode of `rodeo run`, the version check before a command, the wait of a command for a
  serve it has started.
* `scene.rs`, `scene_motion.rs` and `mesh.rs`: pure conversions of geometry and place files, a sixth of
  the code.  Script bundling, CLI arguments and output, the widget: conversions and user interface.
* HTTP, directory and path operations of the client's services; the text of their errors.
* Job objects and the watcher that ends a process with its parent; window handling.
* StudioMCP's notifications and the three datamodel types a tool call may name; that a tool call which
  timed out may still be executed; that a StudioMCP process that closed is not started again.
* The files of the profile scanner, which polls a directory.
* The TypeScript, Lune and Lute bindings of the JSON-RPC process.

## 6. The plan

1. `StudioLaunch` with two backends and two Studios, and the persistent mode of `rodeo run`.
2. Executing runs beside mode changes: `StudioModes` and `RunLifecycle` in one instance.
3. The envelope guard of the relay, with sizes.
