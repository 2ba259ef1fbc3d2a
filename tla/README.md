# Formal models of BitBake

The repository is a Poky tree: BitBake, the program that builds a Linux
distribution, and the metadata it builds from (`src/poky/meta*`, recipes and
classes). The program logic is in `src/poky/bitbake`. This directory holds TLA+
modules of that program, TLC configurations that check them on small instances,
and theorems that TLAPS checks for every value of the constants.

Paths below are relative to `src/poky/bitbake`.

| file | role |
|---|---|
| `RunQueueGraph.tla` | the task graph and the scene-queue graph derived from it |
| `RunQueue.tla`, `TaskOrder.tla` | execution of the run queue; what a run queue promises of each task |
| `BitbakeWorker.tla` | a worker process between the run queue and the tasks |
| `Cooker.tla` | commands, idle functions, states of the cooker, events to user interfaces |
| `ProcessServer.tla` | clients and servers of a build directory: election, sockets, timeouts |
| `LockFile.tla`, `FileLock.tla` | a lock on a file that is removed when released; what it promises |
| `HashServ.tla` | hash equivalence server, its clients, the cache of unihashes in a build |
| `PRServ.tla` | PR server |
| `RunQueueProofs.tla`, `RunQueueSafety.tla`, `BitbakeWorkerProofs.tla`, `CookerProofs.tla`, `ProcessServerProofs.tla`, `LockFileProofs.tla`, `HashServProofs.tla`, `PRServProofs.tla` | theorems with their proofs |
| `MC*.tla`, `MC*.cfg` | values of the constants for TLC; one configuration per run |

To check a run: `tlc -config MCbuild.cfg MCRunQueue` (`PROJECT.json` names the module of each
configuration). To check the proofs of a module: `tlapm LockFileProofs.tla`.

Operators whose name ends in a suffix after an underscore (`Reopen_Not`, `Promote_Waits`, ...) are
faulty variants of the operator they stand next to. No action uses them; they record, for each
property, a change of the code that the property detects.

How the modules fit together: `Cooker` starts a build and sees its run queue as something that
runs, is told to stop and ends; `RunQueue` is that run queue, with the cooker as something that calls
it and may ask it to stop. `RunQueue` sees its worker as processes that exit; `BitbakeWorker` is the worker,
with the run queue as something that writes commands and reads answers. `RunQueue` gets unihashes
from tasks; `HashServ` is where they come from. `ProcessServer` uses the lock `FileLock` specifies, which
`LockFile` implements; its serving loop is the one `Cooker` details.

## 1. Inventory of the system

### Run queue (`lib/bb/runqueue.py`)

Turns the tasks a target needs into a graph and executes it. State machine of
`RunQueue`: prepare, scene init, running, clean-up, complete or failed; it is
advanced by an idle callback of the server.

* `RunQueueData.prepare()` builds `runtaskentries` (depends and revdeps), the targets,
  the weights of tasks, and refuses circular dependencies.
* `build_scenequeue_data()` derives the *scene queue*. A task X may have a variant
  X_setscene that restores X's output from shared state. Setscene variants are
  decided from the targets downwards: covered (restored, or nothing to do) or not
  covered (X must be built). A restored X makes the real tasks only it needs
  superfluous. `[depends]` between setscene tasks ("hard dependencies") complicate the
  order.
* `RunQueueExecute` runs both at once. State: `runq_buildable/running/complete`,
  `runq_tasksrun`, `failed_tids`, `stats`; `sq_buildable/running/live/deferred`,
  `scenequeue_covered/notcovered`, `tasks_scenequeue_done`,
  `holdoff_tasks`, `tasks_covered`, `tasks_notcovered`, `sqdone`;
  `updated_taskhash_queue`, `pending_migrations`; `build_stamps`.
* `RunQueueScheduler.next()` chooses a real task under `BB_NUMBER_THREADS`,
  `[number_threads]`, and CPU, I/O and memory pressure.
* `runQueuePipe.read()` reads exit codes and events from the worker.

Interactions: starts `bitbake-worker` processes and writes `<runtask>` messages;
exit codes come back in any order; tasks fire `taskUniHashUpdate` when the hash
equivalence server maps their output to another unihash, and the queue then resets
setscene tasks *while other tasks run* (`process_possible_migrations()`); the cooker may call
`finish_runqueue()` at any tick.

Hard: scene queue and real queue decide about the same tasks at once and share
sets that a dozen methods update; rehashing undoes decisions; deferral of equal
setscene tasks can deadlock; failures, `-k`, worker death, stops.

Correct when: no task runs before its dependencies are complete or on inputs that were
never made; every setscene task is decided exactly once (per hash); restoring and building
the same thing never overlap; no more than the permitted processes; the build always ends;
it says "complete" only when it is.

### Stamps (`lib/bb/build.py`, `check_stamp_task()` in `runqueue.py`)

A file per task and hash says the task was done. `make_stamp()` removes the task's other
stamps; a stamp is current if no dependency of the same recipe is newer. Hard: the
setscene and the real stamp of a task; memoised recursive checks.

### bitbake-worker (`bin/bitbake-worker`)

`serve()` loop: reads messages, forks a child per task, collects exit codes with
`waitpid`, forwards events, kills the children on `finishnow`. State: `build_pids`, `build_pipes`, a
queue of commands, and `worker_queue`, which a second thread flushes. Hard: three pipes of limited size in
a circle, SIGTERM at any point, processes between `fork()` and `setsid()`. Correct when every
`<runtask>` is answered by one exit code after all events of the task, and no child outlives a forced stop.

### Cooker (`lib/bb/cooker.py`) and commands (`lib/bb/command.py`)

The cooker has states initial, parsing, running, shutdown, force-shutdown,
stopped, error; `buildTargets` registers an idle callback that drives the run
queue. A command is synchronous or asynchronous; one asynchronous command at a time.
State: `state`, `baseconfig_valid`, `parsecache_valid`, the parser, inotify notifications,
`currentAsyncCommand`, the idle functions, the parsed statements of classes (`cached_statements`) and modification times kept in caches. Hard: states changed by
stops, SIGTERM and resets while a command runs or parses; files that change between being read and being watched; a UI that leaves while its build goes on. Correct when every command is ended by one event,
"Busy" means busy, a stop reaches the build, and a build uses current configuration.

### Server process (`lib/bb/server/process.py`)

Elects a server with a lock file and a socket, runs idle functions, accepts one UI,
times out without one, restarts when a UI connects to a dying server; `setup_bitbake()` of
`lib/bb/main.py` is the other side. Hard: start-up and shutdown races between processes, clients that
give up and retry. Correct when a build directory has one server, its socket is its own, and it ends.

### Events (`lib/bb/event.py`)

Handlers by event class, the UI's queue, buffering of events while no UI is registered,
forwarding of worker events. Hard: which UI an event reaches.

### Hash equivalence server (`lib/hashserv`) and PR server (`lib/prserv`)

Databases behind asyncrpc servers (`lib/bb/asyncrpc`). The first maps (method, output hash) to a unihash, keeps
the oldest equivalent task hash, and may copy from an upstream. The second hands out
increasing revisions per (version, architecture, checksum). Hard: handlers that wait for an
upstream server, clients that repeat requests, one database connection for all handlers, servers killed
before a commit. Correct when a unihash that was handed out never changes, and a revision never
shrinks.

### Signatures (`lib/bb/siggen.py`)

Task hashes from the data store; unihashes with a cache and the hash server as fallback.

### Locks and persistent data (`lib/bb/utils.py`, `lib/bb/persist_data.py`)

`lockfile()` opens, flocks, and compares inode numbers, as `unlockfile()` may have removed the
file in between. Correct when two processes never hold the same lock.

### Disk monitor (`lib/bb/monitordisk.py`)

Called on heartbeat events; warns, or stops the run queue, when space runs out.

### Parts with little state of their own

Task data and providers, fetchers, parser and data store, user interfaces, utilities,
layer tools and Toaster, vendored libraries, metadata. `PROJECT.json` lists them with the reason
each is not modelled.

## 2. Plan

Most important behaviour first.

| order | module(s) | content | theorems |
|---|---|---|---|
| 1 | `RunQueueGraph`, `RunQueue`, `TaskOrder` | execution of the run queue (**done**) | types, `DepsComplete`, `SceneDoneDecided`, one process per task, decisions, counters, stamps, inputs, verdict, end of the build, refinement of `TaskOrder`, the scheduler does not run out of work too early, deferred tasks in turn (**done**) |
| 2 | `LockFile`, `FileLock` | locks on files that are removed (**done**) | exclusion, the file is kept, refusals, refinement (**done**) |
| 3 | `HashServ` | hash equivalence under concurrent and repeating clients, upstream, crashes (**done**) | unihashes are stable, builds and server agree, one unihash per output (**done**) |
| 4 | `BitbakeWorker` | serve, fork, wait, kill (**done**) | types, `HashesAsSent`, `ExitCodeLast` (**done**) |
| 5 | `ProcessServer` | election, sockets, retries (**done**) | one server, its socket, its client (**done**) |
| 6 | `Cooker` | commands, states, parsing, stops, events (**done**) | one answer, busy has work, stops reach the build, builds are current (**done**) |
| 7 | `PRServ` | revisions (**done**) | revisions grow (**done**) |
| 8 | `SceneQueueBuild` | the work lists of `build_scenequeue_data()` against the closed definitions of `RunQueueGraph`; task weights | invariants of the work lists |
| 9 | `DiskMonitor`, stamp memo, multi-worker `RunQueue` | thresholds; `stampcache`; workers per multiconfig and fakeroot | - |

Next to prove: in `RunQueue`, `FailsForCause` and `BuildsRest` for graphs with hard dependencies, and `TwinsInTurn` with hard dependencies
for any graph in which it is true (section 5 says what is missing).

## 3. What is modelled

### RunQueueGraph

The graph is constant (`Tasks`, `Depends`, `Setscene`, `HardChildren`, ...). `CoveredBy`, `Squash`,
`SqRevdeps`, `Unskippable` and `NewlyDone` say in closed form, as least fixed points, what the work
lists of `build_scenequeue_data()`, `process_endpoints()` and `scenequeue_updatecounters()`
compute. No recursion is used, so TLAPS can use the module too.

### RunQueue

The cooker is one thread. `pc` is where it is in an idle tick:

```
top -> read -> migrate -> scene -> settle -> task -> wait -> waitread -> top
 |               (each of scene, task and wait may return to top, as execute() does)
 +-> waitread (finish() while tasks are active)
 +-> teardown -> end
```

Worker processes, the death of the worker and the UI's stop requests interleave with the
steps of the cooker. The methods of `RunQueueExecute` call each other, so most are
operators from the record they update to the updated record, and an action composes the ones the
handler calls. `PROJECT.json` maps each definition to its lines.

| variable | in the code |
|---|---|
| `rq` | `rq.state`, `runq_buildable`, `runq_running`, `runq_complete`, `runq_tasksrun`, `failed_tids`, `stats.active` |
| `sq` | `sq_buildable`, `sq_running`, `sq_live`, `scenequeue_covered`, `scenequeue_notcovered`, `tasks_scenequeue_done`, `sq_deferred`, `sqdata.outrightfail`, `sqdata.valid`, `holdoff_need_update`, stamps remembered per setscene task |
| `hold` | `tasks_covered`, `tasks_notcovered`, `holdoff_tasks`, `sqdone` |
| `hash` | unihashes, `updated_taskhash_queue`, `pending_migrations` |
| `build_stamps` | `build_stamps` |
| `procs` | task processes whose exit code has not been read |
| `disk` | stamp files |
| `env` | options of the build, stop state of the cooker, the worker process |

| actions | code |
|---|---|
| `Execute`, `Finish`, `FinishNow`, `Teardown` | `buildTargetsIdle()`, `_execute_runqueue()`, `finish()`, `finish_now()`, `teardown_workers()` |
| `ReadExit`, `ReadUnihash`, `ReadDone`, `Polled` | `runQueuePipe.read()`, `runqueue_process_waitpid()`, `read_workers()` |
| `MigrateNothing`, `Migrate` | `process_possible_migrations()` |
| `SceneSkip`, `SceneFailOutright`, `SceneRun`, `SceneNone` | first half of `execute()` |
| `Settle` | `update_holdofftasks()`, end of the setscene phase |
| `TaskForbidden`, `TaskSkipped`, `TaskNoExec`, `TaskSpawnFails`, `TaskRun`, `TaskNone` | second half of `execute()`, `RunQueueScheduler.next()` |
| `WriteFails` | `execute_runqueue()` when a write to a dead worker raises |
| `WaitForTasks`, `ForceDeferred`, `Conclude` | the end of `execute()` and the sanity checks |
| `WorkerExit`, `WorkerDies` | `bitbake-worker` |
| `StopRequest` | the UI |

Abstractions of `RunQueue`:

* **Data.** Hashes are members of a small set `Unihashes`; the new unihash of a task downstream
  of a rehashed one is any of them, or unchanged. Stamp ages are absent, from an earlier build, from this one.
* **Stamps.** A setscene stamp that is present is newer than the real one: `make_stamp()` of the
  real task removes it, `make_stamp()` of the setscene task does not remove the real one. Two files with
  the same modification time are left out. Tasks that share a stamp path (`StampBase`) differ in their extra
  information, so `disk` is per task. `stampcache` is not modelled: every check looks at the disk.
* **Choices.** The order of the scheduler and of the sorted setscene tasks is a free choice among the tasks
  that qualify; so are the contents of shared state, pressure, the answer of
  `setscene_depvalidate`, and which deferred task is released first.
* **Atomicity.** The stamp and the exit code of a process appear together: the cooker looks
  at no stamp of an outstanding task in between. A `read()` drains the pipe; the limit of
  102400 bytes per read is not modelled. Exit codes may be read in any order.
* **Worker.** One worker; the workers of other multiconfigs and of fakeroot are folded into it, except
  that the fakeroot worker of a task in `SpawnFails` cannot be started. Its start for a setscene task
  always succeeds. Writing `<newtaskhashes>` to a dead worker is not modelled.
* **Hard dependencies** are between setscene tasks of the queue.
* **execute() returning.** Where the code returns `True` after starting a task, `pc` goes
  back to `top`; where it falls through, to the next stage, so one more task may start within one call, also after a halt.
* The `continue` in `execute()` that is meant to wait for covered running tasks (2115-2118) only leaves
  the inner loop; it does nothing, and the model has no action for it. `RestoreWaits` checks that
  the hold-off makes it unnecessary.

### TaskOrder

Three sets: running, complete, failed. A task starts once, after its dependencies are
complete, and completes or fails once. `RunQueue` implements it with
`rq.running`, `rq.complete`, `rq.failed` (property `RefinesTaskOrder`, theorem `ImplementsTaskOrder`); the setscene code, the scheduler,
migrations and the worker become stutters. With BB_SETSCENE_ENFORCE it does not: a task that is refused has failed without being started.

### LockFile and FileLock

| variable | in the code |
|---|---|
| `file` | the inode the name of the lock file stands for |
| `fd`, `flock` | each process's open descriptor and the `flock()` held through it |
| `req`, `pc` | arguments of `lockfile()` and where the process is |
| `met` | ghost: whether somebody held the lock during the call |

| actions | code |
|---|---|
| `Call`, `Open`, `Flock`, `Check` | `lockfile()`: `open()`, `flock()`, the comparison of inodes, and the loop around them |
| `Unlock`, `Promote`, `Unlink`, `Release` | `unlockfile()`: the non-blocking exclusive `flock()`, the removal, the close |
| `Drop`, `Die` | a holder whose file object is just closed; a process that ends at any point |

`Grants` and `Waited` are `flock(2)`: a promotion may lose the shared lock before it is refused, as the manual
page says. Inode numbers are reused once nothing stands for them, the case in which the comparison could be fooled.
`FileLock` is many readers or one writer, and `LockFile` implements it with `hold` as the lock.

### HashServ

| variable | in the code |
|---|---|
| `uni`, `out` | tables `unihashes_v2` and `outhashes_v2` as the shared connection sees them |
| `disk` | both as committed |
| `conn` | per connection the request and how far its handler is |
| `backfill`, `worker` | `backfill_queue` and `_backfill_worker()` |
| `upstream` | the upstream server, if there is one |
| `call` | per build the call in progress and its attempts |
| `cache` | the unihashes a build goes by |
| `told`, `origin`, `calls`, `crashes` | ghosts and counters |

| actions | code |
|---|---|
| `Report`, `ReportResumes`, `ReportEquiv`, `GetStream`, `GetStreamResumes` | the handlers, split at their `await` of the upstream |
| `Backfill`, `BackfillFails`, `HandlerFails`, `Crash` | the backfill task, an exception in a handler, the end of the server |
| `Call`, `Send`, `AttemptFails`, `GiveUp`, `Receive` | `SignatureGeneratorUniHashMixIn`, `_send_wrapper()` of the client |

A build calls from one thread. The upstream server answers what it holds, or nothing; it does not change what it
holds. The tables keep no columns but those a unihash depends on, and one method.

### BitbakeWorker

| variable | in the code |
|---|---|
| `rq`, `writing`, `hashes`, `sent`, `got` | the run queue: stage, the command it is blocked in, versions of the task hashes, answers read |
| `stdin`, `stdout`, `pipe` | the pipes, with room for a few entries |
| `queue`, `rank`, `pc`, `newhashes` | the worker's `queue`, the `handle_item()` call whose loop it was in last in this round (0: none), its thread, the hashes it has |
| `build_pids`, `todo`, `terminating` | processes; those still to be signalled, then those whose pipe is still to be read; whether SIGTERM led there |
| `worker_queue` | what `worker_flush()` has to write |
| `child`, `fired`, `missed` | the processes of tasks, events written, those no signal reached |

| actions | code |
|---|---|
| `RunTask`, `NewTaskHashes`, `FinishNow`, `Teardown`, `Written`, `Read`, `Close`, `Die` | the run queue's side of the pipes |
| `Select`, `SelectEOF`, `Handle...`, `Misread`, `EndRound`, `ReadPipe`, `ProcessWaitpid` | `serve()` and the handlers |
| `Kill`, `Wait`, `Signalled`, `Drain`, `Finished` | `handle_finishnow()`, process by process and then pipe by pipe |
| `Flush`, `Join` | the writer thread and waiting for it |
| `Bind`, `Lead`, `Fire`, `End`, `Terminate` | a task's process: `prctl`, `setsid`, events, its end |

Commands and messages are whole; partial reads and writes are not modelled, room in a pipe counts them. `<newtaskhashes>` is
written without `flush()`, but the next command flushes it in order. The configuration sent first is left out.

The loop of `handle_item()` (429-439) looks for the next closing tag of its kind anywhere in the queue. While the queue begins with
that kind this is the command's own; when another command lies between two of one kind, the loop takes both and what is between them for
one command, `pickle.loads()` raises, and the worker ends (`Torn`, `Misread`).

### ProcessServer

| variable | in the code |
|---|---|
| `holders`, `contents` | who has the locked `bitbake.lock` open; the server named in it |
| `sockfile` | whose socket `bitbake.sock` is |
| `srv` | per server: phase, `controllersock`, `haveui`, `hadanyui`, the kernel's backlog, `newconnections`, `lockcontents` |
| `pc`, `retries`, `on` | per client where `setup_bitbake()` is, retries left, its connection |
| `wire`, `replies`, `timeout` | commands and answers under way; the server timeout |

| actions | code |
|---|---|
| `Start`, `Lock`, `Spawn`, `Spawned`, `SpawnFails`, `NotRunning`, `Busy`, `AwaitLock`, `Unlocked`, `AwaitTimesOut`, `Retry` | `setup_bitbake()`, `BitBakeServer.__init__()` |
| `Connect`, `ConnectFails`, `Reply`, `NoReply`, `Leave` | `connectProcessServer()`, `runCommand()` |
| `Bind`, `Ready`, `NotReady` | `execServer()` |
| `Accept`, `Connected`, `RunCommand`, `Disconnect`, `TimeOut`, `IdleFails` | the loop of `main()` |
| `RemoveSocket`, `CloseLock`, `Relock`, `Unlock`, `Superseded` | the end of `main()` |
| `Crash` | a server killed at any point |

The passing of time is a choice: a timeout may come early. Server numbers are processes; one that has ended may be used
again. A UI whose `setFeatures` is answered with an error leaves, which is `Leave`.

### Cooker

| variable | in the code |
|---|---|
| `pc`, `todo`, `idle` | the loop of `main()`; `_idlefuns` and those this tick has yet to call |
| `ck` | `BBCooker`: `state`, `baseconfig_valid`, `parsecache_valid`, the parser, `inotify_modified_files`; how far `configwatcher` and `watcher` are set up; the version of each file it goes by, of the class in `BBHandler.cached_statements`, and of the recipe in the mtime cache of `bb.parse`; `missed`, a ghost: the files with an edit that nobody notices |
| `cmd` | `currentAsyncCommand` |
| `rq` | the run queue of the build: none, running, stopping, killed |
| `pending`, `edits` | inotify notifications; edits of files |
| `uiready`, `ui_queue`, `inbox` | `_uiready`, `ui_queue`, what was sent to each UI |
| `ui`, `answers`, `stopping`, `count` | the UIs; ghosts and counters |

| actions | code |
|---|---|
| `Connect`, `Disconnect`, `SetFeatures`, `UpdateConfig`, `SyncCommand`, `StopCommand`, `AsyncCommand` | requests: `runCommand()` |
| `AddFilewatch` | the end of `initConfigurationData()`: files that were read are watched |
| `Inotify`, `RunStopped`, `RunUpdates`, `Update`, `ParseMore`, `ParseComplete`, `ParseFails`, `Run...` | idle functions: `runAsyncCommand()`, `updateCache()` |
| `BuildContinues`, `BuildEnds`, `BuildRaises` | `buildTargetsIdle()`, `buildFileIdle()` |
| `TickEnds`, `Exit` | the rest of the loop, `post_serve()` |
| `Take`, `Leave`, `Edit`, `Sigterm` | the UI, the user |

Commands are taken by what they need and how they end: `buildTargets`, `buildFile`, one that needs the cache, one that does not,
`triggerEvent`, `resetCooker`, `clientComplete`. A request is atomic, as the server has one thread, but for what the rest of the world may do in it: edit a file that was read
and is not watched yet. The configuration fails to parse only if it was edited.

Three kinds of file are told apart, one file of each. `config` is what is read afresh by every `initConfigurationData()`. `class` is a `.bbclass` or `.inc` of the configuration,
which is read through `cached_statements`; only `updateCacheSync()` drops an entry, for what `inotify_modified_files` names, and `reset()` (`setFeatures`, `updateConfig`, `resetCooker`) does
not call it. `recipe` is what `updateCache()` parses; whether it has changed since it was parsed last is seen from `bb.parse`'s cache of modification times. The first two are watched by
`configwatcher` once all of the configuration is read; a recipe by `watcher`, its directory while the recipes are collected and the rest as results come in. Watchers are
replaced, and with them go notifications that were not read.
 What `triggerEvent` fires counts as its answer. After a client has gone the server stays or ends, as its
timeout says (`ProcessServer`); `terminateServer` is left to that module.

### PRServ

| variable | in the code |
|---|---|
| `db`, `holder`, `work` | committed rows; the server in a transaction; the rows it sees |
| `at`, `query`, `dirty` | per server the statement it is before, the checksum asked for, `PRTable.dirty` |
| `told`, `last`, `imported` | ghosts: which checksums a value was the answer for, the last answer, imported values |

| actions | code |
|---|---|
| `Start`, `Begin`, `BeginFails`, `Commit` | `PRTable.__init__()`, `sync()` |
| `GetValue`, `Insert`, `GetFails` | `handle_get_pr()`, `_getValueNohist()` |
| `ImportOne`, `ImportFails` | `_importNohist()`, the exception path of `dispatch_message()` |
| `Down`, `Stop`, `Crash` | the end of a server |

One (version, pkgarch), the no-history mode, a writable server. Handlers do not await, so they are split only at statements
of the database. A statement that finds the database locked fails or goes on later.

## 4. Runs

In the runs of `MCRunQueue`, six tasks: `c1`, `c2` compile, `p1`, `p2` populate_sysroot with setscene variants, `x` a tool, `r`
the image. Graphs: `Net` (second recipe on the first, and a tool), `Par` (independent recipes), `Tool` (independent recipes
on the tool), `Shared` (common sources, and the second recipe uses the first).

| run | question | properties |
|---|---|---|
| `build` | six option sets over what earlier builds left, with a noexec and a nostamp task and a hard dependency: accounting, decisions, inputs, verdict | `CoveredOrNot`, `CountsExact`, `OneProcessPerTask`, `ContinueBuildsRest`, `FailureHasCause`, `RestoredInputs`, `CompleteIsComplete` |
| `rehash` | the hash server moves unihashes under a build with `-k` | `DepsComplete`, `BuiltInputs`, `RestoreWaits`, `RestoredNotRebuilt`, `SceneDoneDecided`, `RefinesTaskOrder` |
| `twins` | multiconfig variants that share a shared-state object and a work directory, `[number_threads]`, pressure, stops at any tick, a worker that dies or does not start: turns, endings | `TwinsInTurn`, `NoDuplicateStamps`, `ConcludesIdle`, `Terminates` |
| `lockfile` | three processes, exclusive, shared and non-waiting calls | `HolderKeepsFile`, `RefusedOnlyIfHeld`, `ImplementsFileLock`, `SomeoneGetsIt` |
| `hashserv` | two builds, two task hashes, with and without upstream, repeated calls, a crash | `CacheAgrees`, `SameOutput`, `UnihashStable`, `CallsEnd` |
| `worker` | two tasks, short pipes, failing forks, the death of the server | `ExitCodeLast`, `HashesAsSent`, `ServedCommandsGoThrough`, `Answered`, `NoTaskLeft` |
| `server` | a UI and a `bitbake -m`, two servers, three timeouts, crashes | `OneServer`, `SocketServed`, `ServedClient`, `ServersEnd` |
| `cooker` | two UIs, settings that reset the cooker, two commands; a stop, a SIGTERM and an edit, two of the three in a behaviour | `AnsweredOnce`, `BusyHasWork`, `StopReachesBuild`, `BuildIsCurrent`, `UiAnswered` |
| `prserv` | two servers, three checksums, an import, crashes except between an answer and its commit | `RevisionsGrow` |

What each property says stands with its definition. For each of them `PROJECT.json` names, under
`mutants`, a faulty variant of one operator with which TLC finds the property violated in the same run.

### Where code and documentation disagree

Each of these runs checks one sentence of the repository and finds it violated.

| run | property | what happens |
|---|---|---|
| `deadworker` | `CompleteIsComplete` | a dead worker makes the build end as complete with tasks missing |
| `orphan` | `ToldOfOwn` | a build whose UI left goes on, and the next UI takes its end for that of its own command |
| `prcrash` | `NotDecremented` | the answer is sent before the commit; a server killed in between has told a revision that is given again, or undercut, after the restart |

`CompleteIsComplete` makes an exception of `BB_SETSCENE_ENFORCE`: there a setscene task that fails
puts the queue to clean-up without an entry in `failed_tids`, and the build ends as complete as well.

Properties of the run queue hold under the option sets their runs name. The following was met while modelling;
it bounds what those runs claim and is not among them:

* With `[number_threads]` and `-k`, a failed task stays in `runq_running` without entering `runq_complete`
  and holds its slot (`lib/bb/runqueue.py:245`): independent tasks of that name are not built. `ContinueBuildsRest` is
  checked without limits.
* `--setscene-only` with no setscene task at all: `sqdone` is set from the start, the sanity checks find every task unbuilt, and the build ends as
  failed with nothing failed. `FailureHasCause` is checked on graphs that have setscene tasks.
* A rehashed setscene task whose stamp is current is covered by `update_scenequeue_data()` and, if a hard dependency
  is not covered, failed right after (2563): it is in both sets. A deferred setscene task that fails with the task it hard-depends on (2580) stays
  in `sq_deferred`; when the task it waits for completes, `update_scenequeue_data()` may cover it: both sets again, which "is a bug" (2062).
  `CoveredOrNot` is checked without rehashing or deferrals where there are hard dependencies.
* With `-k`, a task refused by `BB_SETSCENE_ENFORCE` is failed but stays buildable (2214): it is picked again for ever.
  `Terminates` is checked without `BB_SETSCENE_ENFORCE`.
* After a rehash the table that defers equal setscene tasks is not extended (2554): two that move to one new unihash are
  not serialised. `TwinsInTurn` is checked without rehashing.
* Equal setscene tasks are run together, which "is prone to races" (`lib/bb/runqueue.py:1993`), in two more ways; `TwinsInTurn` is checked on one pair of equal
  tasks that come after no other, and its theorems have hypotheses that exclude both. (a) The forced release takes the first deferred task, buildable or not (2276).
  With pairs (`d0`, `d1`) and (`o`, `s1`), where `o` and `s1` come after `d1`: both deferred tasks, `d1` and `s1`, can be forced
  while `o` is undecided, `s1` first; when `d1` then fails, `o` and `s1` become buildable at once. (b) Of four equal tasks one of the deferred
  ones has a stamp of an earlier build, so it is covered from the start but stays in `sq_deferred`. When the owner completes, `task_completeoutright()` releases just that
  one and defers the other two after it (1989); it is complete already, so neither of them waits for anything.
* Two `<runtask>` with a `<newtaskhashes>` between them that arrive at the worker in one read end the worker (`Misread`). `HashesAsSent`
  holds all the same, as no task is started from what was misread; `Answered` excepts a worker that has ended.
* Worker and server can wait for each other for ever. An event of a task fills stdout and the exit code of another is in `worker_queue` when a `fork()` fails: the worker's main
  thread ends in `join()` of the thread that flushes (`bin/bitbake-worker:544-551`) and reads no more commands, while the server is blocked writing one that stdin has no room for, and
  reads no answers. `Hung` is this state; `ServedCommandsGoThrough` and `Answered` except it, and nothing else that is not a stop or the end of the worker.
* `resetCooker` says "Reset the cooker to its initial state, thus forcing a reparse" (`lib/bb/command.py`). If a class was edited, `reset()` takes its old statements from `cached_statements` (`lib/bb/cooker.py:1771-1775`,
  `lib/bb/parse/parse_py/BBHandler.py:66-88`) and marks the configuration valid, so that a build goes by the old class until something else makes the configuration invalid. `setFeatures` and `updateConfig` do
  the same.
* Edits are also missed when a file changes after it was read and before it is watched (`lib/bb/cooker.py:402-404`, 1663, 2384), after a parse of the configuration failed, which
  leaves no watch, or when its notification had not been read as `setupConfigWatcher()` or `setupParserWatcher()` replaced its watcher; for a recipe the parser then trusts a cached modification time. `BuildIsCurrent` excepts
  a file while such an edit is not read (`missed`), and shows that there is no other way for a build to use an outdated one.
* `bitbake -m` does not wait for an answer: if the server sees its end of file before its `terminateServer` (`lib/bb/server/process.py:191`),
  the command is lost. `ServersEnd` therefore does not rely on it.

### Bounds

* *RunQueue.* Six tasks, two of them setscene, two processes: enough for two decisions to race with a
  third task, for a task covered by one setscene task and needed by another, for a hard dependency and for a
  pair of equal tasks. Larger graphs repeat these patterns; the theorems do not depend on a size.
  `MaxUpdates` bounds the unihash updates of a build; one is enough to move two setscene tasks at once, before,
  while and after they are decided. `ActiveFloor` stops `stats.active` from falling for ever: refusals under
  `BB_SETSCENE_ENFORCE` decrement a count that was never incremented. Below the floor the code compares the count as it does
  at the floor. `InitStamps`, `InitSceneStamps`, `RehashStamps`, `RehashSceneStamps` select what earlier builds left: in `build`
  any subset of the stamps of the two recipes, elsewhere none or a few typical ones. Tasks whose hash is tainted (by
  `-f` or nostamp) and what is built on them start without stamps. `Options` lists the option sets a run starts with.
* *LockFile.* Three processes: a holder, one that removes, one that makes the file again. Three inodes, so that a number
  can be reused; a process has one open.
* *HashServ.* `MaxCalls` 2 and `MaxCrashes` 1, one retry, two connections: two reports of one output hash overlap at their
  await, and a call is repeated after a crash. The proofs have no such bounds.
* *BitbakeWorker.* Two tasks, one with an event and one without; stdin has room for three commands (as many as it takes to misread them), where `<newtaskhashes>`, which
  carries the hashes of all tasks, counts as two (`Size`); one message in stdout, one event in a task's pipe. Each pipe is full at some time, stdin while the run queue is running too: two updates
  of the hashes fill it, which is how `Hung` comes about. `StopHashes` 1: a stop and the death of the server are tried with one update at most.
* *ProcessServer.* Two clients with one retry, two server processes (used again after they end), a backlog of one.
* *Cooker.* `MaxCommands` 2, `MaxStops`, `MaxTerms`, `MaxEdits` 1, `MaxTroubles` 2 of these in one behaviour (none in `orphan`): enough for a stop
  or a signal to meet an edit, and for an edit to fall into each window. The theorems have no such bounds. The commands are builds, `buildFile`, `resetCooker`, `clientComplete` and
  `triggerEvent`; the two other kinds do less than these on the same paths.
* *PRServ.* `MaxValue` 5 lets each of three checksums get a new revision above an imported one; servers and checksums are
  symmetric. `CrashAt` lists the statements before which a server may die.

Two branches of `RunQueue` are modelled and not reached in these runs: `HaltMigration` ("needing to rerun? Halting
build"), whose condition needs a task that was passed over as covered below a setscene task that can still move (`NeverTooLate` proves
that there is none where hard dependencies meet neither reports nor deferrals); and, in `process_possible_migrations()`, the rehash of a task deferred after one that moved
(`Follows`), as the owner would have to be a real task that reports while the other is still deferred.

Deadlock is checked in the runs of `RunQueue`, `LockFile` and `PRServ`. The others stop where the system does: all
calls made, worker gone, clients done, server ended.

### Fairness

* `RunQueue`: `WF_vars(CookerStep)`, the server's idle loop keeps calling the
  callback while a command is active, and a call returns; and for each task weak fairness of its
  `WorkerExit`: a task's process ends. Nothing is assumed of the UI, the hash server, the death of the worker,
  or of the order of choices. Both are needed: without the second, a build waits for a task for ever.
* `LockFile`: each process goes on with its call, or gives up what it holds. `SomeoneGetsIt` further assumes that processes do not die
  in `lockfile()` for ever.
* `HashServ`: handlers run; a build goes on with its call, and its attempt fails when the connection is closed or, for a report, when
  it may time out. A stream of `get_unihash` has no timeout in the code and gets none here.
* `BitbakeWorker`: both threads of the worker run, its pipes are read when they have something, the run queue goes on reading while it
  is not blocked in a write, and a child gets through its first steps and dies of a signal. That a task ends by itself is *not* assumed, except as the
  premise of `Answered`.
* `ProcessServer`: servers and clients keep running; timeouts come eventually because they are among those steps.
* `Cooker`: the loop turns; a UI reads its events; parsing and builds, if they can end again and again, end (`RunQueue`'s `Terminates` is why
  a build does). These two are strong, as the server interleaves them with other steps.
* `PRServ` has no liveness property and no fairness.

## 5. Theorems

All of them hold for every value of the constants that satisfies the named assumptions of the module.

| module | theorem | statement |
|---|---|---|
| `RunQueueProofs` | `TypeCorrect` | `Spec => []TypeOK` |
| | `DepsCompleteInvariant` | no task is buildable or started before everything it depends on is complete |
| | `SceneDoneInvariant` | when the search for setscene tasks is closed in a running build, every setscene task is decided and no task is held off |
| `RunQueueSafety` | `OneProcess` | under `HardOrRehash`, a task has one process at most (`OneProcessPerTask`) |
| | `RestoresWait` | under `HardOrRehash`, nothing that a running setscene task would replace is running (`RestoreWaits`) |
| | `DecidedOnce` | under `HardOrDeferred`, no setscene task is covered and not covered (`CoveredOrNot`) |
| | `BuiltNotRestored` | under `HardOrDeferred`, what is built is not covered (`RestoredNotRebuilt`) |
| | `ExactCounts` | under `HardOrRehash` and `EnforceHalts`, the counters are exact and bound the processes (`CountsExact`) |
| | `StampsApart` | under `MaxUpdates = 0`, no two processes work towards one stamp (`NoDuplicateStamps`) |
| | `CompleteVerdict` | under `HardOrRehash`, `EnforceHalts` and `MayDie = FALSE`, what is reported as complete is complete (`CompleteIsComplete`) |
| | `InputsExist` | under `HardOrDeferred`, a task is built on what was built or restored (`BuiltInputs`) |
| | `NeverTooLate` | under `HardOrDeferred`, no migration needs a task that was passed over (`NoStaleMigration`) |
| | `RestoredOnRestored` | under `HardOrDeferred`, a task is restored while what it hard-depends on is covered (`RestoredInputs`) |
| | `ImplementsTaskOrder` | under `HardOrDeferred` and `NoEnforce`, `Spec => RefinesTaskOrder` |
| | `ConcludesInOrder` | under `HardOrRehash` and `NoEnforce`, the build ends with nothing outstanding (`ConcludesIdle`) |
| | `FailsForCause` | under `NoHardDepends`, `NoEnforce`, a worker that starts and lives, and no `--setscene-only` without setscene tasks, a build that failed has a failed task (`FailureHasCause`) |
| | `BuildsRest` | under the same on worker and graph, without `[number_threads]`, and with no `-k --setscene-only`, a build that ends with `-k` has built whatever does not depend on a failed task (`ContinueBuildsRest`) |
| | `TwinsOfTwoConfigs` | under `MaxUpdates = 0`, `PairedTwins`, `OneConfigOwns`, `NoHardDepends` and `EnforceHalts`, equal setscene tasks are restored one after the other (`TwinsInTurn`) |
| | `TwinsAtTheTop` | the same under `TwinsFirst` and `TwinsManaged` in place of `PairedTwins` and `OneConfigOwns` |
| | `TwinsUnforced` | under `MaxUpdates = 0` and `TwinsManaged`, the same for behaviours that take no `ForceDeferred` step |
| `LockFileProofs` | `Exclusion` | two processes hold the lock only if both asked for a shared one |
| | `FileKept` | the file of a holder is not removed (`HolderKeepsFile`) |
| | `Refused` | a call that does not wait fails only if another process held the lock at some moment of it |
| | `Refinement` | `Spec => ImplementsFileLock` |
| `HashServProofs` | `Stable` | a committed unihash never changes |
| | `Agreement` | a build goes by what the server hands out, once it was told (`CacheAgrees`) |
| | `OneOutput` | without upstream, reports of one output hash give one unihash (`SameOutput`) |
| `BitbakeWorkerProofs` | `TypeCorrect` | `Spec => []TypeOK` |
| | `Hashes` | a task runs with the hashes the run queue went by when it chose it (`HashesAsSent`) |
| | `LastWord` | the exit code is read after all events of the task, and is the true one (`ExitCodeLast`) |
| `CookerProofs` | `Answers`, `Works` | one event ends each command (`AnsweredOnce`); a busy server has work (`BusyHasWork`) |
| | `Stops` | a stop reaches the build before the next request is served (`StopReachesBuild`) |
| | `Current` | a build goes by what was there when it was asked for, or newer, except for files with an edit that went unnoticed (`BuildIsCurrent`, an action property) |
| `ProcessServerProofs` | `Singleton`, `Served` | one server at a time (`OneServer`), and the socket is its own (`SocketServed`) |
| | `Attends` | a client that runs its interface is the one its server serves (`ServedClient`) |
| `PRServProofs` | `Revisions` | `ASSUME "sync" \notin CrashAt PROVE Spec => []RevisionsGrow` |

* *RunQueue, types.* One lemma per operator that updates a record (`Decide`, `SqTaskFail`, `Undefer`, `Requeue`, ...), then
  one lemma per action. `Migrate` needs most: the sets of possible unihashes and disks.
* *`DepsComplete`* is inductive on top of the types. `runq_complete` only grows, and the three places that
  add to `runq_buildable` check the dependencies against it: the initial leaves, `TaskCompleteOutright`,
  `SettledBuildable`. The other actions start only buildable tasks or leave both sets alone.
* *`SceneDoneDecided`* needs one fact besides the types: a queue that left the running state does not come
  back to it (`RunningBefore`). `sqdone` is set only by a `Settle` that finds every setscene task decided and nothing held
  off, and no action but a migration takes a decision back
  (`SceneDoneElsewhere`, from one `...Stays` lemma per operator). A migration that resets a setscene task clears `sqdone`
  in the same step (`SceneDoneMigrate`), and one that gives up leaves the running state.
* *Setscene and real tasks, `RunQueueSafety`.* Every action is shown to do one of four things to the scene queue: decide a set of tasks
  (`Decides`), send one (`Sends`), recompute `holdoff_tasks` (`Settle`) or restart some (`Restarts`); and one of three to the run queue: start a task, complete
  one, or neither (`RqStep`). The invariant `Apart` has one part per set the two sides consult. `SqDecided`, `SqHard`: what is decided was chosen, and is
  neither live nor chosen before the tasks it hard-depends on. `Fresh`: between two computations `holdoff_tasks` still protects every undecided task and
  what it covers, because a decision asks for a new computation and a real task is only chosen after one. `Untouched`: nothing around
  a live setscene task runs, nor around one that may still be chosen. `Started`: processes are those of live and of started tasks, one each.
  `Exclusive` adds what may *become* covered (`MayCover`, the deferred tasks: the completion of another task can cover them in any state), and that the
  tasks last computed to be built are not among them; without the deferred ones it is not inductive. `Counts` adds finiteness, and the counters for as long as tasks may start
  (`Counting`, which includes the rest of a tick after a failure).
* *Stamps.* `build_stamps` is read when a task is about to start and cleared when an exit code is read. `Stamps` says that it has the stamp
  of every process that is out, and that these differ; the comparison before a start (or the refusal to) then keeps them so.
* *Inputs.* A passed-over task is complete without having run, so `DepsComplete` says nothing about it. `Inputs`: what was passed over is still covered from
  every side (`StillCovered`), because nothing that is covered is reset, and what the scheduler may run, by the sets last computed, has none but restored
  tasks among its passed-over dependencies. The sets are those of the present whenever no computation is due (`Accurate`). `NeverTooLate`
  follows, with the fact that only uncovered tasks wait to be migrated (`PendingNotCovered`).
* *Restored inputs.* `HardOver`: a setscene task that could not be restored has decided those that hard-depend on it, except where their stamps were current.
  Nothing of what is spared is restored later, as its stamp stays: `DiskTold` says whose stamps there are, and that what is being built had none
  (`MakeStampKeeps`), so that a stamp that is made never takes away one that others were spared for.
* *The verdict and the end.* `Verdict` relates the state of the queue to `pc`, the worker and the failures; that `Conclude` finds no process is `Counts` again
  (`ConcludeIdle`). After a forced stop or in a teardown the counter is no longer exact, only an upper bound (`Outstanding`), which is what
  `finish()` waits by.
* *Refinement of `TaskOrder`.* A task that fails was started, and its process is gone (`FailuresOver`). With it every `RqStep` is a `Start`, `Complete` or
  `Fail` of `TaskOrder`, or a stutter; `DepsComplete` gives the guard of `Start`, `NeverTooLate` rules out the migration that would fail a task that never started.
* *Progress.* That the scheduler does not run out of work too early is an invariant about what is *offered*, and then a count of what is under way. The graph has
  no cycles (`AcyclicAssumption`), so every set of tasks has one with no dependent in it (`TopExists`), and every set of setscene tasks one that comes after no
  other of them (`SceneTopExists`). `Onward`: a setscene task whose dependents are decided is buildable (`Released`), a chosen one is decided or
  live (`Accounted`), and `tasks_scenequeue_done` is closed downwards (`DoneBelow`), so that nobody waits for a decision that was overlooked; a migration takes
  decisions back, and `ResetOnward` and `RequeueOnward` say that what it resets is released again. `Offered` is the same for the run queue: what is needed and has its
  dependencies complete is buildable. `Explained`: what was started and is not complete failed or has a process. With nothing under way, `Quiesced` has everything decided
  by the first, hence every task placed (`PlacedAll`: the ends of the graph are unskippable, and everything else is covered or needed by
  them, `EveryTaskPlaced`), and `QuietPlaced` everything else complete by the other two. `Searched` ties this to the tick: `execute()` comes past
  a choice with nothing under way only if there was nothing to choose. The two verdicts (`SettleSound`, `ConcludeSound`) then find no task to complain about, and they are
  the only steps that end a build as failed while nothing failed (`FailedStep`). With `-k` the same argument leaves, besides failed
  tasks, only those that depend on one (`QuietRest`).
* *Deferrals.* `sq_deferred` changes in three ways only (`DeferralStep`): a real task completes and the first task deferred after it goes on, with the others
  deferred after that one (`Undeferred`); a deferred task whose owner is complete is chosen; a task is forced. `TwinsInTurn` alone is not inductive, as it says nothing of
  who may be started next. `Turns` does: of the equal tasks that are not deferred one at most is undecided, and while others are deferred
  it is the one they wait for. A twin that is decided is not live (`SqDecided`), so `TwinsInTurn` (`TwinsApart` in the proof) follows. That a completed owner is a decided
  one needs `Untouched`: a setscene task that may still be chosen has no real task that runs. What is left is the forced release, for which there are two arguments.
  In `TwinsOfTwoConfigs`: it is taken with nothing under way (`ForcedStill`, from `Counts`) after a search that found every choosable setscene task blocked (`SearchedAll`).
  The set of owners comes after none but tasks that are never deferred, so its first undecided one would be choosable and not blocked
  (`SceneTopExists`, `Onward`): every owner is decided (`ForcedLate`), and the forced task is the last of its pair. In `TwinsAtTheTop` owners may be
  deferred themselves, after the release of others; but the forced task is buildable, as it comes after nothing, so it is chosen next: until it is decided
  it is `Alone`, nothing else live, choosable or built, and no other is forced (`AloneStep`).
* *What `RunQueueSafety` assumes.* `HardOrRehash`: no setscene task has a hard dependency (`[depends]` of a setscene task), or no worker reports
  unihashes (`MaxUpdates = 0`). `HardOrDeferred`: no hard dependency, or neither reports nor setscene tasks with equal indexes. `EnforceHalts`: no `-k` with
  `BB_SETSCENE_ENFORCE`. Every run satisfies these three. They are there because the features do interfere (section 4): with hard dependencies and reports, or and
  deferrals, `CoveredOrNot` is false. Whether `OneProcessPerTask` survives hard dependencies together with reports is open: TLC found no violation in one
  small instance. With `-k`, a task refused by `BB_SETSCENE_ENFORCE` decrements `stats.active` although it never ran, and tasks keep being started.
  `NoEnforce`: no option set has `BB_SETSCENE_ENFORCE`; its refusals fail tasks that were never started (`RefinesTaskOrder` is false) and put `stats.active` below the number of processes
  (`ConcludesIdle` needs it). All runs but `build` satisfy it, those that check the two properties among them. `MayDie = FALSE`: the
  worker does not die; `deadworker` shows what happens otherwise. `MaxUpdates = 0` of `StampsApart`: after a rehash the scheduler compares
  outdated stamps (`lib/bb/runqueue.py:261`).
  The two progress theorems assume more, for what ends a build early without a failed task, or spares a task: a worker that dies (`MayDie`) or cannot be spawned
  (`SpawnFails`), `--setscene-only` without a setscene task (a finding of section 4), `[number_threads]` (`NumberThreads`), as a failed task keeps its slot
  (`lib/bb/runqueue.py:245`), and `-k --setscene-only`, which builds nothing by design. They are also about graphs without hard dependencies:
  a task that is spared is not released by the failed one, and something else must have decided it. The reports of unihashes
  and their migrations are included (`MaxUpdates` is arbitrary).
  The theorems on `TwinsInTurn` take `MaxUpdates = 0`, as a rehash does not extend the table of deferrals. `PairedTwins` (`FewTwins`): an object is restored by
  two (three) setscene tasks at most. `FreshTwins`: no deferred task is noexec or has a stamp of an earlier build; `TwinsManaged` is `FewTwins`, or `FreshTwins` and no hard dependencies, which excludes
  (b) of section 4. `OneConfigOwns` and `TwinsFirst` exclude (a): there is a set of setscene tasks that are never deferred, contains every owner, and
  whose members come after each other only; or a task with a twin comes after no setscene task at all. The first is what the code produces for two multiconfigs without `mcdepends`:
  owners are taken from the configurations in sorted order (`lib/bb/runqueue.py:2898`), so all of them are tasks of the first if no two tasks of one configuration are equal. The constants of `twins` satisfy all of these,
  and `ForceDeferred` is taken there. The constants of `rehash` satisfy both lists of assumptions; `build`, which
  checks the two properties, has a hard dependency and `BB_SETSCENE_ENFORCE`, so that it and the theorems cover different ground.
* *LockFile.* `Inv` says what each stage of a process implies of its descriptor and `flock` (`Owed`), that `flock()` excludes per inode
  (`Exclusive`), that a holder's inode is the one the name stands for, and that one about to close is not (`OnDisk`), and
  that a call in progress has met every holder (`Seen`). Exclusion alone is not inductive: two inodes can be locked at once, so the proof
  needs that only one of them has the name. The refinement follows step by step: `Check` is the abstract `Acquire` or a stutter, and so on.
* *HashServ.* `Inv`: between steps the connection sees what is committed (`Durable`, as every handler commits before it lets go), an
  answer on its way is what is on disk (`AnswersKept`), a build and its connection speak of one request (`Linked`), and a build asks only for what it
  was not told (`Asked`). Without the last, a late answer to an older question could replace what a report said. `OneOutput` has an invariant of its
  own, `Alone`: without upstream, a row of the output table is committed together with the unihash of its task hash (`Owned`), and a unihash that a report
  set is the one of the oldest row of its output hash (`Chosen`). A repeated report finds the same oldest row, as rows are not removed.
* *BitbakeWorker.* Both properties are about what is under way, so the invariant is too. The commands not yet handled are one sequence (`Pending`: the
  worker's queue, the pipe, what the run queue is writing); a step appends to it, takes its head, or leaves it alone. `InOrder`: each `runtask` in it will
  meet the version of the hashes it was sent with, which is a statement about the commands before it (`Newest`), and its task is neither forked nor
  in the sequence twice. `UpToDate` says the same of the version the run queue is about to send. The messages not yet read are one sequence as well (`Unread`);
  an exit code in it is the last message of a task that is reaped and has an empty pipe (`ExitsIn`), and events read, under way and in the pipe
  add up to those fired (`Counted`). That a reaped task is never forked again is `InOrder`.
* *Cooker.* `Inv` numbers commands as they are accepted, and adds to `BusyHasWork` what holds inside a turn of `runCommands()`. Every
  action leaves the commands alone (`Same`), ends the current one (`Finished`) or accepts one (`Accepted`); three lemmas say that each keeps the
  numbering, and each action is shown to be one of the three. `Stops`: the state that stops (shutdown, force-shutdown, stopped, error) stays until the build had its
  turn in the same tick (`StopOnItsWay`). `Current`: what a valid configuration or parse cache holds is the last version, or the file
  is in `pending` or `missed`; what `cached_statements` and the mtime cache hold is it too, or the file is in `pending`, `missed` or `inotify_modified_files` (`Tracks`). The third is what `updateCacheSync()` goes by and
  `reset()` passes over. What the command under way has read is at least as new as when it was accepted, or the file is missed (`Fresh`), and no step loses either (`Follows`).
* *ProcessServer.* `Elected`: whoever starts a server, is a server that has not yet removed its socket, or removes the lock file has the lock open,
  and at most one process has. It needs only a few types (`Shape`). `SocketServed` adds that a socket is bound by the elected server only.
  `ServedClient` needs to follow connections (`Linked`): they are numbered by client and retry, a server whose number is used again has none of the old ones, and a
  connection is in one place only: the backlog, the queue of new connections, or being served.
* *PRServ.* Rows of a transaction differ from the committed ones only between an answer and its commit (`Clean`), so that the loss of a transaction loses no
  answer; answered values are bounded by the highest row (`Bounded`), and the highest row that was not imported belongs to one checksum (`TopOwned`). With a
  crash at `"sync"`, `Clean` says nothing, and `prcrash` is the counterexample.

Only model-checked:

* `TwinsInTurn` where a hypothesis of its theorems is missing. Without `MaxUpdates = 0`, or where (a) or (b) of section 4 applies, it is false. Between these and the
  hypotheses lie forced releases with hard dependencies (a spared task is not released by the failed one, so `Onward` does not hold) or with
  chains of deferrals over three and more configurations.
* `FailureHasCause` and `ContinueBuildsRest` where there are hard dependencies or `BB_SETSCENE_ENFORCE`: the setscene
  graph is then no longer the squashed task graph, whose lack of cycles the proof uses, and a task that fails does not release those that hard-depend on it
  (`lib/bb/runqueue.py:2578`), as they fail with it unless their stamp spares them; `Released` does not hold as it stands. `build` checks both.
* What is out of the reach of the prover, the liveness properties `Terminates`, `SomeoneGetsIt`, `CallsEnd`, `ServedCommandsGoThrough`, `Answered`, `NoTaskLeft`,
  `ServersEnd` and `UiAnswered`.

## 6. Not modelled

`PROJECT.json` lists every component with its status and the reason. Planned parts are in section 2. Left out
for good: the parser, the data store and the fetchers (text processing and I/O, no protocol that a
property here is about), user interfaces except for the commands they send (presentation), Toaster and layer tools (front ends), vendored
libraries, and metadata: recipes, classes and the test suites and scripts of Poky, by far most of the repository's lines.

Within modelled components:

* Run queue: `prepare()`, signature dumping and `print_diffscenetasks()`, the `stampcache`.
* Worker: configuration messages and `ping`; what `fork_off_task()` sets up for the task (fakeroot, environment, umask).
* Server: the XML-RPC server, `terminateServer` sent over it, systemd and pid files.
* Cooker: configuration tracking, read-only queries one by one, `BB_SERVER` features; an overflow of the inotify queue, which invalidates everything, and directories made or removed; a class of the
  configuration that lies in a directory the watcher of the parser watches too; a failure of `handlePRServ()`; a SIGTERM whose state is overwritten by a parse that completes is in the model, but no
  property asks that it stop the server.
* Hash equivalence: statistics, `backfill-wait` (with a dead backfill task it does not return, `lib/hashserv/server.py:540`), the read-only server, chunked
  messages and the handshake of asyncrpc, a reply that arrives after its request was given up.
* PR server: history mode, export, the read-only server, concurrency of several (version, pkgarch): they share only the lock of the database, which `holder` is.
