------------------------------ MODULE RunQueue ------------------------------
(***************************************************************************)
(* The execution of a BitBake run queue: RunQueue and RunQueueExecute of   *)
(* bitbake/lib/bb/runqueue.py, driven by the idle callback of              *)
(* cooker.buildTargets() and serviced by bitbake-worker processes.         *)
(*                                                                         *)
(* The cooker is one thread.  An idle tick ("top") handles a stop request  *)
(* and calls execute_runqueue(), whose execute() is split at the points    *)
(* where it can return: read the worker pipes ("read"), migrate rehashed   *)
(* setscene tasks ("migrate"), choose a setscene task ("scene"), recompute *)
(* what is held off ("settle"), choose a real task ("task"), wait or       *)
(* conclude ("wait"), read the pipes again ("waitread").  Worker processes *)
(* write stamps and exit at any time.                                      *)
(*                                                                         *)
(* The methods of RunQueueExecute call each other, so they are operators   *)
(* from the record they update to the updated record.                      *)
(***************************************************************************)
EXTENDS RunQueueGraph, Functions

CONSTANTS
  NumberTasks,     \* BB_NUMBER_THREADS
  NumberThreads,   \* [number_threads] flag of a task name, 0 when unset
  Options,         \* the sets of options a build may be started with
  EnforceAllowed,  \* tasks that match BB_SETSCENE_ENFORCE_IGNORE_TASKS
  PressureLimited, \* a BB_PRESSURE_MAX_* limit is set
  SpawnFails,      \* fakeroot tasks whose fakeroot worker cannot be spawned
  StampBase,       \* stamp path of a task up to its unihash
  HashGroup,       \* pn and task name, equal for the multiconfig variants of a task
  Unihashes, InitUnihash,              \* unihash values, and those of prepare()
  InitStamps, InitSceneStamps,         \* stamps an earlier build may have left
  RehashStamps, RehashSceneStamps,     \* the same for the stamps of a new unihash
  Stops,           \* stop requests the UI may send: "shutdown", "force"
  MayDie,          \* whether the bitbake-worker process may die
  MaxUpdates,      \* bound: number of unihash updates workers report
  ActiveFloor      \* bound: stats.active is not followed below -ActiveFloor

ASSUME ConfigAssumption ==
  /\ NumberTasks \in Nat \ {0}
  /\ NumberThreads \in [{TaskName[t] : t \in Tasks} -> Nat]
  /\ Options \subseteq SUBSET {"continue", "force", "setsceneonly", "skipsetscene", "enforce"}
  /\ {PressureLimited, MayDie} \subseteq BOOLEAN
  /\ EnforceAllowed \subseteq Tasks
  /\ SpawnFails \subseteq Tasks
  /\ Stops \subseteq {"shutdown", "force"}
  /\ InitUnihash \in [Tasks -> Unihashes]
  /\ InitStamps \subseteq SUBSET Tasks
  /\ InitSceneStamps \subseteq SUBSET Setscene
  /\ RehashStamps \subseteq {0, 1}
  /\ RehashSceneStamps \subseteq BOOLEAN
  /\ MaxUpdates \in Nat
  /\ ActiveFloor \in Nat

VARIABLES
  pc,           \* where the cooker thread is
  rq,           \* real tasks: state, the runq_* sets, failed_tids, stats.active
  sq,           \* setscene tasks: the sq_* and scenequeue_* sets, SQData
  hold,         \* tasks_covered, tasks_notcovered, holdoff_tasks, sqdone
  hash,         \* unihashes, updated_taskhash_queue, pending_migrations
  build_stamps, \* stamp of each outstanding task
  procs,        \* task processes the worker has not reported on
  disk,         \* stamp files: real (0 absent, 1 earlier build, 2 this one), scene
  env           \* options of the build, cooker's stop state, the worker process

vars == <<pc, rq, sq, hold, hash, build_stamps, procs, disk, env>>

(* The command line, on which -k ("continue") clears halt, and             *)
(* BB_SETSCENE_ENFORCE.                                                    *)
Halt == "continue" \notin env.options
Forced == "force" \in env.options
SetsceneOnly == "setsceneonly" \in env.options
SkipSetscene == "skipsetscene" \in env.options
Enforce == "enforce" \in env.options

----------------------------------------------------------------------------
(* Stamps.                                                                 *)

RealStamp(t, u)  == <<StampBase[t], "real", u>>
SceneStamp(t, u) == <<StampBase[t], "setscene", u>>

(* check_stamp_task() without recursion.  A setscene stamp is only ever    *)
(* present together with an older real one: make_stamp of the real task    *)
(* removes it.                                                             *)
StampCurrent(dk, t) ==
  /\ dk.real[t] > 0
  /\ t \notin NoStamp
  /\ \A d \in Depends[t] :
       \/ d \in dk.scene
       \/ Recipe[d] # Recipe[t]
       \/ dk.real[d] > 0 /\ dk.real[t] >= dk.real[d]

(* The setscene tasks for which check_stamp_task(recurse = True) answers    *)
(* yes: with the dependencies it looks up in turn, each is current.        *)
RecursivelyCurrent(dk) ==
  {s \in Setscene : \E C \in SUBSET Tasks :
     /\ s \in C
     /\ \A t \in C : /\ StampCurrent(dk, t)
                     /\ {d \in Depends[t] \ dk.scene : Recipe[d] = Recipe[t]} \subseteq C}

(* make_stamp() of a real task removes its other stamps, setscene or not. *)
MakeStamp(dk, t) == [dk EXCEPT !.real = [@ EXCEPT ![t] = 2], !.scene = @ \ {t}]

(* check_setscene_stamps() creates the setscene stamp of noexec tasks. *)
MakeNoExecStamps(dk, T) == [dk EXCEPT !.scene = @ \cup (T \cap NoExec)]

----------------------------------------------------------------------------
(* The scene queue.                                                        *)

\* Mutant: the real tasks below are never released.
Decide_NotDone(q, C, N) ==
  LET decided == q.covered \cup C \cup q.notcovered \cup N
  IN  [q EXCEPT !.covered = @ \cup C, !.notcovered = @ \cup N,
                !.buildable = @ \cup {d \in Setscene : SqRevdeps[d] \subseteq decided},
                !.done = @ \cup C \cup N, !.need_update = TRUE]

(* scenequeue_updatecounters() and the additions that precede it: C has    *)
(* just been covered, N has just been found not covered.                   *)
Decide(q, C, N) ==
  LET covered    == q.covered \cup C
      notcovered == q.notcovered \cup N
      freed      == {d \in Setscene :
                       /\ SqRevdeps[d] \subseteq covered \cup notcovered
                       /\ \E t \in C \cup N : /\ d \in SqDeps[t]
                                              /\ ~(t \in N /\ d \in HardChildren[t])}
  IN  [q EXCEPT !.covered = covered, !.notcovered = notcovered,
                !.buildable = @ \cup freed,
                !.done = @ \cup NewlyDone(@, C \cup N),
                !.need_update = TRUE]

(* sq_task_skip() of each task of T. *)
SqTaskSkip(q, T) ==
  Decide([q EXCEPT !.running = @ \cup T, !.buildable = @ \cup T], T, {})

\* Mutant: tasks that were decided before fail as well.
FailClosure_Decided(q, t, dk) == {t} \cup HardChildren[t]

(* The tasks that fail with t: it, and through [depends] of the setscene   *)
(* tasks, those that cannot be restored without it, unless already decided *)
(* or in no need of running.                                               *)
FailClosure(q, t, dk) ==
  LET spared == q.covered \cup q.notcovered \cup NoExec \cup dk.scene \cup RecursivelyCurrent(dk)
  IN  {s \in Setscene : \A U \in SUBSET Setscene :
         (t \in U /\ \A u \in U : HardChildren[u] \ spared \subseteq U) => s \in U}

SqTaskFailOutright(q, t, dk) ==
  LET F == FailClosure(q, t, dk)
  IN  Decide([q EXCEPT !.running = @ \cup F, !.buildable = @ \cup F], {}, F)

\* Mutant: the tasks that fail with t are not marked as running.
SqTaskFail_Restarts(q, t, dk) ==
  LET F == FailClosure(q, t, dk)
  IN  Decide([q EXCEPT !.buildable = @ \cup F], {}, F)

(* sq_task_fail(): t itself is already running. *)
SqTaskFail(q, t, dk) ==
  LET F == FailClosure(q, t, dk)
  IN  Decide([q EXCEPT !.running = @ \cup (F \ {t}), !.buildable = @ \cup (F \ {t})], {}, F)

(* update_scenequeue_data(): tasks that need no work are skipped, the      *)
(* others are looked up in the shared state (avail is what it holds).      *)
UpdateSceneQueueData(q, T, dk, avail) ==
  LET present == (T \ NoExec) \cap (dk.scene \cup RecursivelyCurrent(dk))
      skipped == present \cup (T \cap NoExec)
      q1      == IF skipped = {} THEN q ELSE SqTaskSkip(q, skipped)
      valid   == (q.valid \ T) \cup (avail \cap (T \ skipped))
      decided == skipped \cup valid \cup q1.covered \cup q1.notcovered \cup DOMAIN q.deferred
  IN  [q1 EXCEPT !.valid = valid,
                 !.outrightfail = (@ \ T) \cup (T \ decided)]

(* The end of task_completeoutright(): the first task deferred after t may *)
(* go on, the others wait for that one.                                    *)
Undefer(q, t, dk, avail) ==
  LET waiting == {s \in DOMAIN q.deferred : q.deferred[s] = t}
      found   == CHOOSE s \in waiting : TRUE
      rest    == [s \in DOMAIN q.deferred \ {found} |->
                    IF s \in waiting THEN found ELSE q.deferred[s]]
  IN  IF waiting = {} THEN q
      ELSE UpdateSceneQueueData([q EXCEPT !.deferred = rest], {found}, dk, avail)

UndeferMakesStamps(q, t, dk) ==
  LET waiting == {s \in DOMAIN q.deferred : q.deferred[s] = t}
  IN  IF waiting = {} THEN dk ELSE MakeNoExecStamps(dk, {CHOOSE s \in waiting : TRUE})

\* Mutant: the entry stays.
DropDeferred_Not(q, s) == q

DropDeferred(q, s) == [q EXCEPT !.deferred = Restrict(@, DOMAIN @ \ {s})]

----------------------------------------------------------------------------
(* The run queue.                                                          *)

TaskCompleteOutright(r, t) ==
  LET complete == r.complete \cup {t}
  IN  [r EXCEPT !.complete = complete,
                !.buildable = @ \cup {d \in Revdeps[t] \ r.running : Depends[d] \subseteq complete}]

Decrement(n) == IF n > -ActiveFloor THEN n - 1 ELSE n

TaskComplete(r, t) ==
  [TaskCompleteOutright(r, t) EXCEPT !.tasksrun = @ \cup {t}, !.active = Decrement(@)]

\* Mutants: stats.active leaks; -k halts; failed_tids is not extended.
TaskFail_Leaks(r, t) ==
  [r EXCEPT !.failed = @ \cup {t}, !.state = IF Halt THEN "CleanUp" ELSE @]
TaskFail_Halts(r, t) ==
  [r EXCEPT !.failed = @ \cup {t}, !.active = Decrement(@), !.state = "CleanUp"]
TaskFail_Unrecorded(r, t) ==
  [r EXCEPT !.active = Decrement(@), !.state = IF Halt THEN "CleanUp" ELSE @]

TaskFail(r, t) ==
  [r EXCEPT !.failed = @ \cup {t}, !.active = Decrement(@),
            !.state = IF Halt THEN "CleanUp" ELSE @]

\* Mutant: stats.active is decremented.
TaskSkip_Decrements(r, t) ==
  TaskCompleteOutright([r EXCEPT !.running = @ \cup {t}, !.buildable = @ \cup {t},
                                 !.active = Decrement(@)], t)

(* stats.taskSkipped() and stats.taskCompleted() cancel out on active. *)
TaskSkip(r, t) ==
  TaskCompleteOutright([r EXCEPT !.running = @ \cup {t}, !.buildable = @ \cup {t}], t)

CanStartTask == rq.active + Cardinality(sq.live) < NumberTasks

(* What execute_runqueue() does when execute() returns in state st. *)
Return(st) == IF st \in {"Complete", "Failed"} THEN "teardown" ELSE "top"

Outcome == IF rq.failed # {} THEN "Failed" ELSE "Complete"

----------------------------------------------------------------------------
(* The initial state: RunQueueExecute.__init__() has run.                  *)

(* pending_hash_index(): setscene tasks with equal indexes restore the same *)
(* shared-state object, and only the first of them may run.                *)
HashIndex(t, u) == <<HashGroup[t], u>>

HashOwner ==
  [h \in {HashIndex(s, InitUnihash[s]) : s \in Setscene} |->
     CHOOSE s \in Setscene : HashIndex(s, InitUnihash[s]) = h]

\* Mutant: nothing is deferred.
InitialDeferred_None == <<>>

InitialDeferred ==
  LET owner(s) == HashOwner[HashIndex(s, InitUnihash[s])]
  IN  [s \in {x \in Setscene : x # owner(x)} |-> owner(s)]

(* The hashes of nostamp tasks, and with bitbake -f those of the targets,  *)
(* are tainted, and so is the hash of everything built on them: no earlier *)
(* build has stamped these.                                                *)
Tainted ==
  LET tainted == NoStamp \cup (IF Forced THEN Targets ELSE {})
  IN  tainted \cup Dependents(tainted)

Init ==
  /\ pc = "top"
  /\ rq = [state |-> "Running",
           buildable |-> IF Setscene = {} THEN {t \in Tasks : Depends[t] = {}} ELSE InitialBuildable,
           running |-> {}, complete |-> {}, tasksrun |-> {}, failed |-> {}, active |-> 0]
  /\ \E o \in Options : env = [options |-> o, stop |-> "none", worker |-> "up"]
  /\ \E old \in {S \ Tainted : S \in InitStamps}, avail \in SUBSET Setscene,
        oldscene \in {S \ Tainted : S \in InitSceneStamps} :
       LET dk == [real |-> [t \in Tasks |-> IF t \in old THEN 1 ELSE 0], scene |-> oldscene]
           q  == [buildable |-> InitialSqBuildable, running |-> {}, live |-> {},
                  covered |-> {}, notcovered |-> {}, done |-> InitialDone,
                  deferred |-> InitialDeferred, outrightfail |-> {}, valid |-> {},
                  need_update |-> TRUE, stamp |-> Restrict(InitUnihash, Setscene)]
       IN  /\ disk = MakeNoExecStamps(dk, Setscene)
           /\ sq = UpdateSceneQueueData(q, Setscene, dk, avail)
  /\ hold = [covered |-> {}, notcovered |-> IF Setscene = {} THEN Tasks ELSE {},
             tasks |-> {}, sqdone |-> Setscene = {}]
  /\ hash = [uni |-> InitUnihash, queue |-> {}, pending |-> {}, updates |-> 0]
  /\ build_stamps = <<>>
  /\ procs = {}

----------------------------------------------------------------------------
(* The worker.                                                             *)

(* _exec_task() makes the stamp of a task that succeeded; with             *)
(* BB_SETSCENE_ENFORCE real tasks are only run dry.                        *)
StampedBy(p) ==
  IF p.scene THEN [disk EXCEPT !.scene = @ \cup {p.task}]
  ELSE IF Enforce \/ p.task \in NoStamp THEN disk ELSE MakeStamp(disk, p.task)

(* A task process ends; bitbake-worker queues its exit code in the pipe. *)
WorkerExit(p) ==
  /\ env.worker = "up"
  /\ p.status = "running"
  /\ \E status \in {"ok", "fail"} :
       /\ procs' = (procs \ {p}) \cup {[p EXCEPT !.status = status]}
       /\ disk' = IF status = "ok" THEN StampedBy(p) ELSE disk
  /\ UNCHANGED <<pc, rq, sq, hold, hash, build_stamps, env>>

(* The worker process dies and its tasks with it.  The cooker finds out    *)
(* when it next polls it.                                                  *)
WorkerDies ==
  /\ MayDie
  /\ env.worker = "up"
  /\ env' = [env EXCEPT !.worker = "dead"]
  /\ procs' = {p \in procs : p.status # "running"}
  /\ UNCHANGED <<pc, rq, sq, hold, hash, build_stamps, disk>>

(* The UI asks the cooker to stop; a second request may follow. *)
StopRequest ==
  /\ pc = "top"
  /\ \E s \in Stops :
       /\ env.stop = "none" \/ (env.stop = "shutdown" /\ s = "force")
       /\ env' = [env EXCEPT !.stop = s]
  /\ UNCHANGED <<pc, rq, sq, hold, hash, build_stamps, procs, disk>>

----------------------------------------------------------------------------
(* The idle tick.                                                          *)

(* read_workers() polls the worker before it reads its pipe.  When it has  *)
(* died, finish_now() is called, but the reading and execute() go on.      *)
Polled(st) == IF env.worker = "dead" THEN Outcome ELSE st

(* finish_now(), then execute_runqueue() goes straight to the teardown. *)
FinishNow ==
  /\ pc = "top"
  /\ env.stop = "force"
  /\ rq' = [rq EXCEPT !.state = Outcome]
  /\ pc' = "teardown"
  /\ UNCHANGED <<sq, hold, hash, build_stamps, procs, disk, env>>

(* finish(): reads the workers as long as tasks are active.  Without       *)
(* workers it returns an empty list, which ends the command.               *)
Finish ==
  /\ pc = "top"
  /\ env.stop = "shutdown" \/ (env.stop = "none" /\ rq.state = "CleanUp")
  /\ IF rq.active + Cardinality(sq.live) > 0
     THEN /\ rq' = [rq EXCEPT !.state = Polled("CleanUp")]
          /\ pc' = IF env.worker = "gone" THEN "end" ELSE "waitread"
     ELSE /\ rq' = [rq EXCEPT !.state = Outcome]
          /\ pc' = "teardown"
  /\ UNCHANGED <<sq, hold, hash, build_stamps, procs, disk, env>>

(* _execute_runqueue() in state runQueueRunning. *)
Execute ==
  /\ pc = "top"
  /\ env.stop = "none"
  /\ rq.state = "Running"
  /\ rq' = [rq EXCEPT !.state = Polled(@)]
  /\ pc' = "read"
  /\ UNCHANGED <<sq, hold, hash, build_stamps, procs, disk, env>>

(* teardown_workers() has drained the pipes; what still runs is never      *)
(* reported.  A failure read meanwhile may have put the state to CleanUp.  *)
Teardown ==
  /\ pc = "teardown"
  /\ \A p \in procs : p.status = "running"
  /\ procs' = {}
  /\ env' = [env EXCEPT !.worker = "gone"]
  /\ pc' = IF rq.state \in {"Complete", "Failed"} THEN "end" ELSE "top"
  /\ UNCHANGED <<rq, sq, hold, hash, build_stamps, disk>>

----------------------------------------------------------------------------
(* runQueuePipe.read().                                                    *)

Reading == pc \in {"read", "waitread", "teardown"}

(* runqueue_process_waitpid(): the exit code of a task is attributed to its *)
(* setscene variant when that one is live.                                 *)
ReadExit(p) ==
  /\ Reading
  /\ p.status # "running"
  /\ procs' = procs \ {p}
  /\ build_stamps' = Restrict(build_stamps, DOMAIN build_stamps \ {p.task})
  /\ \E avail \in SUBSET Setscene :
       IF p.task \in sq.live
       THEN LET q == IF p.status = "ok" THEN Decide(sq, {p.task}, {})
                                        ELSE SqTaskFail(sq, p.task, disk)
            IN  /\ sq' = [q EXCEPT !.live = @ \ {p.task}]
                /\ rq' = IF p.status = "fail" /\ Enforce /\ p.task \notin EnforceAllowed
                         THEN [rq EXCEPT !.state = "CleanUp"] ELSE rq
                /\ disk' = disk
       ELSE IF p.status = "ok"
       THEN /\ rq' = TaskComplete(rq, p.task)
            /\ sq' = Undefer(sq, p.task, disk, avail)
            /\ disk' = UndeferMakesStamps(sq, p.task, disk)
       ELSE /\ rq' = TaskFail(rq, p.task)
            /\ UNCHANGED <<sq, disk>>
  /\ UNCHANGED <<pc, hold, hash, env>>

(* taskUniHashUpdate, fired by a real task before it ends: the hash server *)
(* knows an equivalent output under another unihash.                       *)
ReadUnihash(p) ==
  /\ pc \in {"read", "waitread"}
  /\ ~p.scene
  /\ p.status = "running"
  /\ hash.updates < MaxUpdates
  /\ \E u \in Unihashes \ {hash.uni[p.task]} :
       hash' = [hash EXCEPT !.queue = @ \cup {<<p.task, u>>}, !.updates = @ + 1]
  /\ UNCHANGED <<pc, rq, sq, hold, build_stamps, procs, disk, env>>

(* The pipes are empty. *)
ReadDone ==
  /\ pc \in {"read", "waitread"}
  /\ \A p \in procs : p.status = "running"
  /\ pc' = IF pc = "read" THEN "migrate" ELSE Return(rq.state)
  /\ UNCHANGED <<rq, sq, hold, hash, build_stamps, procs, disk, env>>

----------------------------------------------------------------------------
(* process_possible_migrations().                                          *)

Busy(T) == T \cap (rq.running \ rq.complete)

(* The entries of updated_taskhash_queue whose task is not still running,  *)
(* the unihashes once they are applied (a task deferred after one of them  *)
(* follows it), and the tasks whose unihash that changes.                  *)
Drained == {e \in hash.queue : Busy({e[1]}) = {}}

Follows(t, e) ==
  /\ e[2] # hash.uni[e[1]]
  /\ t = e[1] \/ (t \in DOMAIN sq.deferred /\ sq.deferred[t] = e[1])

Rehashed == {t \in Tasks : \E e \in Drained : Follows(t, e)}

AppliedUnihash ==
  [t \in Tasks |-> IF t \in Rehashed THEN (CHOOSE e \in Drained : Follows(t, e))[2]
                                     ELSE hash.uni[t]]

(* Tasks that did not stamp the path of their new unihash themselves. *)
Moved(uni) ==
  {t \in Tasks : uni[t] # hash.uni[t]}
    \ {t \in {e[1] : e \in Drained} : uni[t] = AppliedUnihash[t]}

\* Mutant: tasks that were restored are rehashed as well.
NewUnihashes_Covered ==
  {u \in [Tasks -> Unihashes] :
     \A t \in Tasks : u[t] = AppliedUnihash[t]
                        \/ (t \in Dependents(Rehashed) /\ \E d \in Depends[t] : u[d] # hash.uni[d])}

(* The new unihashes of the tasks downstream.  One only changes when that  *)
(* of a dependency did, and not if the task is covered or being restored.  *)
NewUnihashes ==
  LET down == Dependents(Rehashed)
  IN  {u \in [Tasks -> Unihashes] :
         \A t \in Tasks :
           \/ u[t] = AppliedUnihash[t]
           \/ /\ t \in down \ (sq.covered \cup sq.live)
              /\ \E d \in Depends[t] : u[d] # hash.uni[d]}

(* The stamps of the tasks that moved to another stamp path: an earlier    *)
(* build may have left them unless the task already made a stamp, which    *)
(* removes others.                                                         *)
RehashedDisks(moved) ==
  {dk \in [real : [Tasks -> 0..2], scene : SUBSET Setscene] :
     \A t \in Tasks :
       IF t \in moved
       THEN /\ dk.real[t] \in IF disk.real[t] = 0 THEN RehashStamps ELSE {0}
            /\ t \in Setscene =>
                 (t \in dk.scene) \in IF t \in disk.scene \/ disk.real[t] > 0
                                      THEN {FALSE} ELSE RehashSceneStamps
       ELSE dk.real[t] = disk.real[t] /\ (t \in dk.scene <=> t \in disk.scene)}

(* The setscene tasks of M start over. *)
Reset(q, M, uni) ==
  LET below == (UNION {CoveredBy[m] : m \in M}) \ rq.complete
  IN  [q EXCEPT !.done = (@ \ M) \ (below \ Unskippable),
                !.buildable = @ \ M, !.running = @ \ M, !.outrightfail = @ \ M,
                !.covered = @ \ M, !.notcovered = @ \ M,
                !.stamp = [s \in Setscene |-> IF s \in M THEN uni[s] ELSE @[s]]]

HardDepFail(q, M) ==
  {m \in M : \E p \in q.notcovered : m \in HardChildren[p]}

(* What follows for the tasks that were reset: buildable again, deferred   *)
(* after the owner of their new index, looked up in the shared state, and  *)
(* failed outright when a task they hard-depend on was not covered.        *)
Requeue(q, M, uni, dk, avail) ==
  LET fails    == HardDepFail(q, M)
      free     == {m \in M : \/ SqRevdeps[m] = {}
                             \/ m \notin fails /\ SqRevdeps[m] \subseteq q.covered \cup q.notcovered}
      twins    == {m \in M : /\ HashIndex(m, uni[m]) \in DOMAIN HashOwner
                             /\ HashOwner[HashIndex(m, uni[m])] # m}
      deferred == [s \in DOMAIN q.deferred \cup twins |->
                     IF s \in twins THEN HashOwner[HashIndex(s, uni[s])] ELSE q.deferred[s]]
      q1 == UpdateSceneQueueData([q EXCEPT !.buildable = @ \cup free, !.deferred = deferred],
                                 M, dk, avail)
      F  == UNION {FailClosure(q1, m, dk) : m \in fails}
  IN  IF fails = {} THEN q1
      ELSE Decide([q1 EXCEPT !.running = @ \cup F, !.buildable = @ \cup F], {}, F)

(* "Too late, task already running, not much we can do now" *)
TooLate == rq.running \cup sq.live

\* Mutant: the search stays closed.
Reopen_Not(h, M) == h

(* The search for setscene tasks starts again when any was reset. *)
Reopen(h, M) == [h EXCEPT !.sqdone = @ /\ M = {}]

(* pending_migrations, less those too late; those that no running task     *)
(* blocks; and those that cover a task passed over as covered.             *)
Changed(uni) == {t \in Tasks : uni[t] # AppliedUnihash[t]}

PendingMigrations(uni) == (hash.pending \cup (Changed(uni) \cap Setscene)) \ TooLate

\* Mutant: running tasks do not block a migration.
ReadyMigrations_Now(uni) == PendingMigrations(uni)

ReadyMigrations(uni) == {t \in PendingMigrations(uni) : Busy(CoveredBy[t]) = {}}

StaleMigrations(uni) ==
  {t \in ReadyMigrations(uni) : ~((CoveredBy[t] \cap rq.complete) \subseteq rq.tasksrun)}

MigratedHash(uni, left) == [hash EXCEPT !.uni = uni, !.queue = @ \ Drained, !.pending = left]

MigrateReady(uni, dk) ==
  LET ready == ReadyMigrations(uni)
  IN  /\ hash' = MigratedHash(uni, PendingMigrations(uni) \ ready)
      /\ build_stamps' = Restrict(build_stamps, DOMAIN build_stamps \ ready)
      /\ \E avail \in SUBSET Setscene :
           LET q == Requeue(Reset(sq, ready, uni), ready, uni, dk, avail)
           IN  sq' = IF ready = {} THEN [sq EXCEPT !.need_update = (@ \/ Changed(uni) # {})]
                                   ELSE [q EXCEPT !.need_update = TRUE]
      /\ hold' = Reopen(hold, ready)
      /\ disk' = MakeNoExecStamps(dk, ready)
      /\ UNCHANGED rq

(* "marked as completed but now needing to rerun? Halting build."  Some    *)
(* tasks, M, were reset before, and some below t, B, are no longer done.   *)
HaltMigration(uni, dk) ==
  \E t \in StaleMigrations(uni), M \in SUBSET (ReadyMigrations(uni) \ StaleMigrations(uni)) :
  \E B \in SUBSET (CoveredBy[t] \ (rq.complete \cup Unskippable)) :
    /\ hash' = MigratedHash(uni, PendingMigrations(uni) \ (M \cup {t}))
    /\ build_stamps' = Restrict(build_stamps, DOMAIN build_stamps \ M)
    /\ sq' = [Reset(sq, M, uni) EXCEPT !.done = @ \ ({t} \cup B)]
    /\ rq' = [rq EXCEPT !.failed = @ \cup {t}, !.state = "CleanUp"]
    /\ disk' = dk
    /\ UNCHANGED hold

MigrateNothing ==
  /\ pc = "migrate"
  /\ hash.queue = {} /\ hash.pending = {}
  /\ pc' = "scene"
  /\ UNCHANGED <<rq, sq, hold, hash, build_stamps, procs, disk, env>>

(* A setscene task that was rehashed in time is reset.  It is too late     *)
(* once the task runs, and not possible while a task it covers is running. *)
Migrate ==
  /\ pc = "migrate"
  /\ hash.queue # {} \/ hash.pending # {}
  /\ \E uni \in NewUnihashes :
     \E dk \in RehashedDisks(Moved(uni)) :
       IF StaleMigrations(uni) = {} THEN MigrateReady(uni, dk) ELSE HaltMigration(uni, dk)
  /\ pc' = "scene"
  /\ UNCHANGED <<procs, env>>

----------------------------------------------------------------------------
(* Choosing a setscene task.                                               *)

SkipCandidate(s) ==
  /\ s \notin Unskippable /\ s \notin Targets
  /\ SqRevdeps[s] # {} /\ SqRevdeps[s] \subseteq sq.covered

Blocked(s) == s \in DOMAIN sq.deferred /\ sq.deferred[s] \notin rq.complete

SceneCandidates ==
  IF hold.sqdone \/ ~CanStartTask THEN {}
  ELSE {s \in sq.buildable \ sq.running :
          SceneStamp(s, sq.stamp[s]) \notin Range(build_stamps)}

(* A shared-state object was found and neither the stamp of the real task  *)
(* nor the command line makes restoring it pointless.                      *)
Restorable(s) ==
  /\ s \in SceneCandidates /\ ~Blocked(s)
  /\ s \notin sq.outrightfail \cup RecursivelyCurrent(disk)
  /\ ~(Forced /\ s \in Targets)

(* check_dependencies() may find that everything above s was restored, so  *)
(* that s is not needed; or s has been restored already.                   *)
NeedsNoRestore(s) ==
  \/ SkipCandidate(s)
  \/ Restorable(s) /\ s \in disk.scene

SceneSkip(s) ==
  /\ pc = "scene"
  /\ s \in SceneCandidates
  /\ NeedsNoRestore(s)
  /\ sq' = SqTaskSkip(DropDeferred(sq, s), {s})
  /\ pc' = Return(rq.state)
  /\ UNCHANGED <<rq, hold, hash, build_stamps, procs, disk, env>>

(* A task without a shared-state object fails outright: it was not found,  *)
(* or it was deferred and is not found now (avail).  So does one that the  *)
(* real task's stamp, or the command line, makes pointless.                *)
SceneFailOutright(s) ==
  /\ pc = "scene"
  /\ s \in SceneCandidates /\ ~Blocked(s)
  /\ \E avail \in BOOLEAN :
       /\ \/ s \in DOMAIN sq.deferred /\ ~avail
          \/ s \in sq.outrightfail
          \/ s \in RecursivelyCurrent(disk)
          \/ Forced /\ s \in Targets
          \/ SkipSetscene /\ s \notin disk.scene
       /\ sq' = SqTaskFailOutright(DropDeferred(sq, s), s, disk)
  /\ pc' = Return(rq.state)
  /\ UNCHANGED <<rq, hold, hash, build_stamps, procs, disk, env>>

(* The setscene task is sent to the worker; with room for more, execute()  *)
(* returns.                                                                *)
SceneRun(s) ==
  /\ pc = "scene"
  /\ env.worker = "up"
  /\ Restorable(s)
  /\ s \notin disk.scene /\ ~SkipSetscene
  /\ sq' = [DropDeferred(sq, s) EXCEPT !.running = @ \cup {s}, !.live = @ \cup {s}]
  /\ build_stamps' = [t \in DOMAIN build_stamps \cup {s} |->
                        IF t = s THEN SceneStamp(s, hash.uni[s]) ELSE build_stamps[t]]
  /\ procs' = procs \cup {[task |-> s, scene |-> TRUE, status |-> "running"]}
  /\ pc' = IF rq.active + Cardinality(sq'.live) < NumberTasks THEN Return(rq.state) ELSE "settle"
  /\ UNCHANGED <<rq, hold, hash, disk, env>>

SceneNone ==
  /\ pc = "scene"
  /\ \A s \in SceneCandidates : Blocked(s)
  /\ pc' = "settle"
  /\ UNCHANGED <<rq, sq, hold, hash, build_stamps, procs, disk, env>>

----------------------------------------------------------------------------
(* update_holdofftasks() and the end of the setscene phase.                *)

Undecided == Setscene \ (sq.covered \cup sq.notcovered)

\* Mutant: what was not covered before stays so.
NotCovered_Stale ==
  hold.notcovered \cup
    (sq.done \cap (sq.notcovered \cup CantSkip \cup (Unskippable \ Setscene)
                     \cup UNION {CoveredBy[s] : s \in sq.notcovered}))

NotCovered ==
  sq.done \cap (sq.notcovered \cup CantSkip \cup (Unskippable \ Setscene)
                  \cup UNION {CoveredBy[s] : s \in sq.notcovered})

\* Mutant: a task counts as covered although another setscene task needs it.
Covered_Overlap == sq.done \cap (sq.covered \cup UNION {CoveredBy[s] : s \in sq.covered})

Covered ==
  sq.done \cap ((sq.covered \cup UNION {CoveredBy[s] : s \in sq.covered}) \ NotCovered)

HeldOff == Undecided \cup ((UNION {CoveredBy[s] : s \in Undecided}) \ rq.complete)

SettledHold ==
  IF sq.need_update
  THEN [hold EXCEPT !.covered = Covered, !.notcovered = NotCovered, !.tasks = HeldOff]
  ELSE hold

\* Mutant: whatever is decided is buildable.
SettledBuildable_All == rq.buildable \cup hold.covered \cup hold.notcovered

SettledBuildable ==
  rq.buildable \cup
    (IF sq.need_update THEN {t \in Covered \cup NotCovered : Depends[t] \subseteq rq.complete} ELSE {})

(* summarise_scenequeue_errors(): what it reports as an error. *)
SceneErrors(buildable, h) ==
  \/ sq.deferred # <<>> \/ hash.queue # {} \/ h.tasks # {}
  \/ ~(Setscene \subseteq (sq.covered \cup sq.notcovered) \cap sq.buildable \cap sq.running)
  \/ ~(Tasks \subseteq (h.covered \cup h.notcovered) \cap sq.done)
  \/ \E t \in Tasks : Depends[t] = {} /\ t \notin buildable

SceneFinished(h) ==
  sq.live = {} /\ ~hold.sqdone /\ sq.deferred = <<>> /\ hash.queue = {} /\ h.tasks = {}

Settle ==
  /\ pc = "settle"
  /\ sq' = [sq EXCEPT !.need_update = FALSE]
  /\ LET h      == SettledHold
         ended  == SceneFinished(h)
         err    == ended /\ SceneErrors(SettledBuildable, h)
         only   == ended /\ ~err /\ SetsceneOnly
     IN  /\ hold' = [h EXCEPT !.sqdone = (@ \/ (ended /\ ~err /\ ~only))]
         /\ rq' = [rq EXCEPT !.buildable = SettledBuildable,
                             !.state = IF err THEN "Failed" ELSE IF only THEN "Complete" ELSE @]
         /\ pc' = IF err \/ only THEN "teardown" ELSE "task"
  /\ UNCHANGED <<hash, build_stamps, procs, disk, env>>

----------------------------------------------------------------------------
(* Choosing a real task: RunQueueScheduler.next().  Which task of those    *)
(* that qualify comes first is the scheduler's business.                   *)

TooManyThreads(t) ==
  LET limit == NumberThreads[TaskName[t]]
  IN  limit > 0 /\ Cardinality({r \in Busy(Tasks) : TaskName[r] = TaskName[t]}) >= limit

\* Mutant: the stamps under way are not looked at.
TaskCandidates_NoStamps ==
  IF SetsceneOnly \/ ~CanStartTask THEN {}
  ELSE {t \in ((rq.buildable \ rq.running) \ hold.tasks) \cap (hold.covered \cup hold.notcovered) :
          ~TooManyThreads(t)}

TaskCandidates ==
  IF SetsceneOnly \/ ~CanStartTask THEN {}
  ELSE {t \in ((rq.buildable \ rq.running) \ hold.tasks) \cap (hold.covered \cup hold.notcovered) :
          /\ ~TooManyThreads(t)
          /\ RealStamp(t, InitUnihash[t]) \notin Range(build_stamps)}

(* check_setscene_ignore_tasks(): BB_SETSCENE_ENFORCE forbids t to run. *)
Forbidden(t) ==
  /\ Enforce /\ t \notin EnforceAllowed
  /\ t \notin hold.covered \cup NoExec
  /\ ~StampCurrent(disk, t)

TaskForbidden(t) ==
  /\ pc = "task" /\ t \in TaskCandidates /\ Forbidden(t)
  /\ rq' = TaskFail(rq, t)
  /\ pc' = Return(rq'.state)
  /\ UNCHANGED <<sq, hold, hash, build_stamps, procs, disk, env>>

(* A covered task, or one whose stamp is current, is complete as it is. *)
TaskSkipped(t) ==
  /\ pc = "task" /\ t \in TaskCandidates /\ ~Forbidden(t)
  /\ t \in hold.covered \/ StampCurrent(disk, t)
  /\ rq' = [TaskSkip(rq, t) EXCEPT !.tasksrun = IF t \in hold.covered THEN @ ELSE @ \cup {t}]
  /\ \E avail \in SUBSET Setscene :
       sq' = Undefer(sq, t, disk, avail)
  /\ disk' = UndeferMakesStamps(sq, t, disk)
  /\ pc' = Return(rq.state)
  /\ UNCHANGED <<hold, hash, build_stamps, procs, env>>

MustRun(t) ==
  /\ pc = "task" /\ t \in TaskCandidates /\ ~Forbidden(t)
  /\ t \notin hold.covered /\ ~StampCurrent(disk, t)

TaskNoExec(t) ==
  /\ MustRun(t) /\ t \in NoExec
  /\ rq' = TaskComplete([rq EXCEPT !.running = @ \cup {t}, !.active = @ + 1], t)
  /\ LET dk == IF Enforce THEN disk ELSE MakeStamp(disk, t)
     IN  /\ \E avail \in SUBSET Setscene :
              sq' = Undefer(sq, t, dk, avail)
         /\ disk' = UndeferMakesStamps(sq, t, dk)
  /\ pc' = Return(rq.state)
  /\ UNCHANGED <<hold, hash, build_stamps, procs, env>>

(* start_fakeworker() raises OSError; dry runs do not start one. *)
Unspawnable == IF Enforce THEN {} ELSE SpawnFails

TaskSpawnFails(t) ==
  /\ MustRun(t) /\ t \in Unspawnable \ NoExec
  /\ rq' = [rq EXCEPT !.state = "Failed", !.active = Decrement(@)]
  /\ pc' = "teardown"
  /\ UNCHANGED <<sq, hold, hash, build_stamps, procs, disk, env>>

TaskRun(t) ==
  /\ MustRun(t) /\ t \notin NoExec \cup Unspawnable
  /\ env.worker = "up"
  /\ rq' = [rq EXCEPT !.running = @ \cup {t}, !.active = @ + 1]
  /\ build_stamps' = [d \in DOMAIN build_stamps \cup {t} |->
                        IF d = t THEN RealStamp(t, hash.uni[t]) ELSE build_stamps[d]]
  /\ procs' = procs \cup {[task |-> t, scene |-> FALSE, status |-> "running"]}
  /\ pc' = IF rq'.active + Cardinality(sq.live) < NumberTasks THEN Return(rq.state) ELSE "wait"
  /\ UNCHANGED <<sq, hold, hash, disk, env>>

TaskNone ==
  /\ pc = "task"
  /\ TaskCandidates = {} \/ (PressureLimited /\ rq.active # 0)
  /\ pc' = "wait"
  /\ UNCHANGED <<rq, sq, hold, hash, build_stamps, procs, disk, env>>

(* A <runtask> written to a worker that died raises: execute_runqueue()    *)
(* tears the workers down and gives up.                                    *)
WriteFails ==
  /\ env.worker = "dead"
  /\ \/ /\ pc = "scene" /\ ~SkipSetscene
        /\ \E s \in Setscene \ disk.scene : Restorable(s)
     \/ \E t \in Tasks : MustRun(t) /\ t \notin NoExec \cup Unspawnable
  /\ rq' = [rq EXCEPT !.state = "Complete"]
  /\ pc' = "end"
  /\ procs' = {}
  /\ env' = [env EXCEPT !.worker = "gone"]
  /\ UNCHANGED <<sq, hold, hash, build_stamps, disk>>

----------------------------------------------------------------------------
(* The end of execute().                                                   *)

NothingLives == pc = "wait" /\ rq.active <= 0 /\ sq.live = {}

WaitForTasks ==
  /\ pc = "wait"
  /\ rq.active > 0 \/ sq.live # {}
  /\ rq' = [rq EXCEPT !.state = Polled(@)]
  /\ pc' = "waitread"
  /\ UNCHANGED <<sq, hold, hash, build_stamps, procs, disk, env>>

(* "Runqueue deadlocked on deferred tasks": the first one is let go. *)
ForceDeferred ==
  /\ NothingLives
  /\ sq.deferred # <<>>
  /\ \E s \in DOMAIN sq.deferred : sq' = DropDeferred(sq, s)
  /\ pc' = Return(rq.state)
  /\ UNCHANGED <<rq, hold, hash, build_stamps, procs, disk, env>>

(* The verdict, after the sanity checks: every task was buildable, ran and *)
(* completed.                                                              *)
SanityErrors ==
  \/ SceneErrors(rq.buildable, hold)
  \/ ~(Tasks \subseteq rq.buildable \cap rq.running \cap rq.complete)

Conclude ==
  /\ NothingLives
  /\ sq.deferred = <<>>
  /\ rq' = [rq EXCEPT !.state = IF rq.failed # {} \/ SanityErrors THEN "Failed" ELSE "Complete"]
  /\ pc' = "teardown"
  /\ UNCHANGED <<sq, hold, hash, build_stamps, procs, disk, env>>

(* The command has ended. *)
Ended == pc = "end" /\ UNCHANGED vars

----------------------------------------------------------------------------
CookerStep ==
  \/ FinishNow \/ Finish \/ Execute \/ Teardown
  \/ \E p \in procs : ReadExit(p)
  \/ ReadDone \/ MigrateNothing \/ Migrate
  \/ \E s \in Setscene : \/ SceneSkip(s) \/ SceneFailOutright(s) \/ SceneRun(s)
  \/ SceneNone \/ Settle
  \/ \E t \in Tasks : \/ TaskForbidden(t) \/ TaskSkipped(t) \/ TaskNoExec(t)
                      \/ TaskSpawnFails(t) \/ TaskRun(t)
  \/ TaskNone \/ WriteFails \/ WaitForTasks \/ ForceDeferred \/ Conclude

Next ==
  \/ CookerStep
  \/ \E p \in procs : WorkerExit(p) \/ ReadUnihash(p)
  \/ WorkerDies \/ StopRequest \/ Ended

Spec == Init /\ [][Next]_vars

(* The idle loop keeps calling the callback, and a task process ends.      *)
FairSpec ==
  /\ Spec
  /\ WF_vars(CookerStep)
  /\ \A t \in Tasks, scene \in BOOLEAN :
       WF_vars(\E p \in procs : p.task = t /\ p.scene = scene /\ WorkerExit(p))

----------------------------------------------------------------------------
(* Type correctness.                                                       *)

States == {"Running", "CleanUp", "Complete", "Failed"}

Pcs == {"top", "read", "waitread", "migrate", "scene", "settle", "task", "wait",
        "teardown", "end"}

Partial(D, R) == UNION {[S -> R] : S \in SUBSET D}

RqType ==
  [state : States, buildable : SUBSET Tasks, running : SUBSET Tasks,
   complete : SUBSET Tasks, tasksrun : SUBSET Tasks, failed : SUBSET Tasks, active : Int]

SqType ==
  [buildable : SUBSET Setscene, running : SUBSET Setscene, live : SUBSET Setscene,
   covered : SUBSET Setscene, notcovered : SUBSET Setscene, done : SUBSET Tasks,
   deferred : Partial(Setscene, Setscene), outrightfail : SUBSET Setscene,
   valid : SUBSET Setscene, need_update : BOOLEAN, stamp : [Setscene -> Unihashes]]

HoldType ==
  [covered : SUBSET Tasks, notcovered : SUBSET Tasks, tasks : SUBSET Tasks, sqdone : BOOLEAN]

HashType ==
  [uni : [Tasks -> Unihashes], queue : SUBSET (Tasks \X Unihashes),
   pending : SUBSET Setscene, updates : Nat]

ProcType ==
  [task : Setscene, scene : {TRUE}, status : {"running", "ok", "fail"}]
    \cup [task : Tasks, scene : {FALSE}, status : {"running", "ok", "fail"}]

DiskType == [real : [Tasks -> 0..2], scene : SUBSET Setscene]

EnvType == [options : Options, stop : {"none"} \cup Stops, worker : {"up", "dead", "gone"}]

(* Every part of the state has the shape the code gives it. *)
TypeOK ==
  /\ pc \in Pcs
  /\ rq \in RqType
  /\ sq \in SqType
  /\ hold \in HoldType
  /\ hash \in HashType
  /\ DOMAIN build_stamps \subseteq Tasks
  /\ procs \subseteq ProcType
  /\ disk \in DiskType
  /\ env \in EnvType

----------------------------------------------------------------------------
(* Safety.                                                                 *)

RealProcs == {p \in procs : ~p.scene}
SceneProcs == {p \in procs : p.scene}

(* A task is marked buildable, and started, only when every task it        *)
(* depends on is complete, whichever of task_completeoutright(),           *)
(* update_holdofftasks() and the start-up code marked it.                  *)
DepsComplete ==
  \A t \in rq.buildable \cup rq.running : Depends[t] \subseteq rq.complete

(* A real task runs only on inputs that exist: each direct dependency was  *)
(* run (or its stamp was current), or was restored from shared state.  No  *)
(* task runs on top of one that was merely skipped as covered.             *)
BuiltInputs ==
  \A p \in RealProcs : Depends[p.task] \subseteq rq.tasksrun \cup sq.covered

(* A setscene task that declares a dependency on another one is restored   *)
(* only while that one is covered.                                         *)
RestoredInputs ==
  \A p \in SceneProcs : \A q \in Setscene : p.task \in HardChildren[q] => q \in sq.covered

(* A task and its setscene variant are never outstanding together, so that *)
(* runqueue_process_waitpid(), which tells them apart by sq_live alone,    *)
(* attributes every exit code to the right one.                            *)
OneProcessPerTask ==
  \A p, q \in procs : p.task = q.task => p = q

(* "If covered tasks are running, need to wait for them to complete": no   *)
(* setscene task runs while a task it would replace is running.            *)
RestoreWaits == \A p \in SceneProcs : Busy(CoveredBy[p.task]) = {}

(* "Cache of stamp files so duplicates can't run in parallel": two         *)
(* outstanding processes never work towards the same stamp.                *)
NoDuplicateStamps ==
  LET stamp(p) == IF p.scene THEN SceneStamp(p.task, hash.uni[p.task])
                             ELSE RealStamp(p.task, hash.uni[p.task])
  IN  \A p, q \in procs : p # q => stamp(p) # stamp(q)

(* "No task should end up in both covered and uncovered, that is a bug." *)
CoveredOrNot == sq.covered \cap sq.notcovered = {}

(* A task that was restored is not built as well. *)
RestoredNotRebuilt == \A p \in RealProcs : p.task \notin sq.covered

(* While real tasks may start, stats.active and sq_live count exactly the  *)
(* outstanding processes; finish() relies on it, and can_start_task(),     *)
(* which sees nothing else and must not let the worker have more than      *)
(* BB_NUMBER_THREADS of them.                                              *)
CountsExact ==
  /\ Cardinality(procs) <= NumberTasks
  /\ rq.state = "Running" /\ pc # "end" /\ env.worker = "up" =>
       /\ rq.active = Cardinality(RealProcs)
       /\ sq.live = {p.task : p \in SceneProcs}

(* Only one of the setscene tasks that would restore the same object is    *)
(* under way; the others are deferred, as running them together "is prone  *)
(* to races".                                                              *)
TwinsInTurn ==
  \A s, t \in sq.live : s # t => HashIndex(s, hash.uni[s]) # HashIndex(t, hash.uni[t])

(* Once sqdone stops the search for setscene tasks, and unless the build   *)
(* is stopping, each has been decided, so none of them can hold a real     *)
(* task off for ever; process_possible_migrations() has to undo sqdone.    *)
SceneDoneDecided ==
  hold.sqdone /\ rq.state = "Running" => Undecided = {} /\ hold.tasks = {}

(* The build ends as failed only because something failed: the sanity      *)
(* checks ("never buildable", "never ran", "never marked as covered")      *)
(* never fire, that is, the scheduler never runs out of work too early.    *)
FailureHasCause == rq.state = "Failed" => rq.failed # {}

(* Unless it was stopped, asked for the setscene tasks only, or restricted *)
(* to them by BB_SETSCENE_ENFORCE, a build that ends as complete has        *)
(* completed every task.                                                   *)
CompleteIsComplete ==
  rq.state = "Complete" /\ env.stop = "none" /\ ~SetsceneOnly /\ ~Enforce =>
    rq.complete = Tasks /\ rq.failed = {}

(* bitbake -k: when the build ends, everything that does not depend on a   *)
(* failed task is complete.                                                *)
ContinueBuildsRest ==
  pc = "end" /\ env.stop = "none" /\ ~Halt =>
    Tasks \ (rq.failed \cup Dependents(rq.failed)) \subseteq rq.complete

(* The build does not conclude, and an orderly stop does not end it, while *)
(* a task process is outstanding.                                          *)
ConcludesIdle ==
  [][(pc \in {"top", "wait"} /\ pc' = "teardown" /\ env.stop # "force") => (procs = {})]_vars

(* The run queue implements TaskOrder: each task is started at most once,  *)
(* after its dependencies, and completes or fails once, for good.          *)
Order == INSTANCE TaskOrder
           WITH running <- rq.running, complete <- rq.complete, failed <- rq.failed

RefinesTaskOrder == Order!Spec

----------------------------------------------------------------------------
(* Liveness.                                                               *)

(* Every build ends. *)
Terminates == <>(pc = "end")

=============================================================================
