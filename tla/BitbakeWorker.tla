--------------------------- MODULE BitbakeWorker ---------------------------
(***************************************************************************)
(* A bitbake-worker: the process between the run queue of the server and   *)
(* the tasks, each of which is a child process of its own.                 *)
(*                                                                         *)
(* The server writes commands to the worker's stdin, the tasks write their *)
(* events to a pipe each, and the worker puts events and exit codes on its *)
(* stdout.  The server is one thread: while it waits for room in stdin it  *)
(* reads nothing.  The worker has two: one that serves and one that        *)
(* flushes worker_queue to stdout.                                         *)
(*                                                                         *)
(* What the server sends first (configuration, workerdata) is left out: it *)
(* is read before the first task.                                          *)
(***************************************************************************)
EXTENDS Naturals, Sequences, FiniteSets

CONSTANTS
  Tasks,
  None,
  MaxEvents,     \* [Tasks -> bound on the events of the task]
  MaxHashes,     \* bound on the updates of task hashes
  StopHashes,    \* bound on those before the build is stopped or the server dies
  InRoom,        \* room in the worker's stdin, see Size
  OutRoom,       \* messages its stdout has room for
  TaskRoom,      \* events the pipe of a task has room for
  ForkFails,     \* whether fork() may fail
  ServerDies     \* whether the server may die

Commands ==
  [kind : {"runtask"}, task : Tasks] \cup [kind : {"newtaskhashes"}, version : 1..MaxHashes]
    \cup [kind : {"finishnow", "quit"}]

ExitCodes == {"ok", "failed", "killed"}
Messages == Tasks \X ({"event"} \cup ExitCodes)

ASSUME WorkerAssumption ==
  /\ None \notin Nat \cup Commands \cup ExitCodes
  /\ MaxEvents \in [Tasks -> Nat]
  /\ MaxHashes \in Nat /\ StopHashes \in Nat
  /\ {InRoom, OutRoom, TaskRoom} \subseteq Nat \ {0}
  /\ {ForkFails, ServerDies} \subseteq BOOLEAN

VARIABLES
  rq,            \* what the run queue is about
  writing,       \* the command it is writing, or None
  hashes,        \* version of the task hashes it goes by
  sent,          \* [Tasks -> version when the task was sent, or None]
  got,           \* [Tasks -> number of events and exit code it has read]
  stdin,         \* commands in the pipe to the worker
  stdout,        \* messages in the pipe from the worker
  queue,         \* commands the worker has read and not handled
  pc,            \* where its main thread is
  rank,          \* the handle_item() call whose loop it was in last, or 0
  newhashes,     \* version of the task hashes it has
  build_pids,    \* tasks it keeps a process and a pipe of
  todo,          \* tasks handle_finishnow() has yet to signal, then to read
  terminating,   \* handle_finishnow() was called by sigterm_exception()
  worker_queue,  \* messages for the flushing thread
  child,         \* [Tasks -> state, exit code and hashes of the process]
  fired,         \* [Tasks -> number of events it has written]
  pipe,          \* [Tasks -> number of them the worker has not read]
  missed         \* tasks that no signal reached when the worker ended

server == <<rq, writing, hashes, sent, got>>
worker == <<queue, pc, rank, newhashes, build_pids, todo, terminating>>
task == <<child, fired, pipe, missed>>
vars == <<server, worker, task, stdin, stdout, worker_queue>>

Init ==
  /\ rq = "running"
  /\ writing = None
  /\ hashes = 0
  /\ sent = [t \in Tasks |-> None]
  /\ got = [t \in Tasks |-> [events |-> 0, exit |-> None]]
  /\ stdin = << >> /\ stdout = << >> /\ queue = << >> /\ worker_queue = << >>
  /\ pc = "select"
  /\ rank = 0
  /\ newhashes = 0
  /\ build_pids = {}
  /\ todo = {}
  /\ terminating = FALSE
  /\ child = [t \in Tasks |-> [at |-> "none", exit |-> None, hashes |-> None]]
  /\ fired = [t \in Tasks |-> 0]
  /\ pipe = [t \in Tasks |-> 0]
  /\ missed = {}

(***************************************************************************)
(* The run queue                                                           *)
(***************************************************************************)

Write(command) ==
  /\ writing = None
  /\ writing' = command
  /\ UNCHANGED <<got, worker, task, stdin, stdout, worker_queue>>

RunTask(t) ==
  /\ rq = "running" /\ sent[t] = None
  /\ Write([kind |-> "runtask", task |-> t])
  /\ sent' = [sent EXCEPT ![t] = hashes]
  /\ UNCHANGED <<rq, hashes>>

NewTaskHashes ==
  /\ rq = "running" /\ hashes < MaxHashes
  /\ hashes' = hashes + 1
  /\ Write([kind |-> "newtaskhashes", version |-> hashes'])
  /\ UNCHANGED <<rq, sent>>

(* finish_now() *)
FinishNow ==
  /\ rq = "running" /\ hashes <= StopHashes
  /\ rq' = "finishing"
  /\ Write([kind |-> "finishnow"])
  /\ UNCHANGED <<hashes, sent>>

(* _teardown_worker(): after finish_now(), or when every task was answered *)
Teardown ==
  /\ \/ rq = "finishing"
     \/ rq = "running" /\ \A t \in Tasks : sent[t] # None => got[t].exit # None
  /\ rq' = "teardown"
  /\ Write([kind |-> "quit"])
  /\ UNCHANGED <<hashes, sent>>

(* The hashes of all tasks are more than any other command. *)
Size(command) == IF command.kind = "newtaskhashes" THEN 2 ELSE 1

HasRoom == Len(stdin) + Cardinality({i \in DOMAIN stdin : Size(stdin[i]) = 2}) + Size(writing) <= InRoom

(* Room in the pipe, or an error because nobody reads it any more. *)
Written ==
  /\ writing # None
  /\ \/ pc # "gone" /\ HasRoom /\ stdin' = Append(stdin, writing)
     \/ pc = "gone" /\ UNCHANGED stdin
  /\ writing' = None
  /\ UNCHANGED <<rq, hashes, sent, got, worker, task, stdout, worker_queue>>

(* runQueuePipe.read() *)
Read ==
  /\ rq \notin {"dead", "closed"} /\ writing = None
  /\ stdout # << >>
  /\ LET t == Head(stdout)[1]
         what == Head(stdout)[2]
     IN got' = IF what = "event" THEN [got EXCEPT ![t].events = @ + 1] ELSE [got EXCEPT ![t].exit = what]
  /\ stdout' = Tail(stdout)
  /\ UNCHANGED <<rq, writing, hashes, sent, worker, task, stdin, worker_queue>>

(* The loops of _teardown_worker() end, pipe.close() *)
Close ==
  /\ rq = "teardown" /\ writing = None
  /\ pc = "gone" /\ stdout = << >>
  /\ rq' = "closed"
  /\ UNCHANGED <<writing, hashes, sent, got, worker, task, stdin, stdout, worker_queue>>

Die ==
  /\ ServerDies /\ hashes <= StopHashes
  /\ rq \notin {"dead", "closed"}
  /\ rq' = "dead"
  /\ writing' = None
  /\ UNCHANGED <<hashes, sent, got, worker, task, stdin, stdout, worker_queue>>

(***************************************************************************)
(* The worker: serve()                                                     *)
(***************************************************************************)

(* The order of the handle_item() calls of one round *)
Kinds == <<"newtaskhashes", "runtask", "finishnow", "quit">>
Rank(command) == CHOOSE i \in DOMAIN Kinds : Kinds[i] = command.kind

EndOfFile == stdin = << >> /\ writing = None /\ rq \in {"teardown", "dead"}

Select_Prepends ==
  /\ pc = "select" /\ ~EndOfFile
  /\ stdin # << >> \/ queue # << >>
  /\ queue' = stdin \o queue
  /\ stdin' = << >>
  /\ pc' = "items"
  /\ rank' = 0
  /\ UNCHANGED <<newhashes, build_pids, todo, terminating, server, task, stdout, worker_queue>>

Select_Writes ==
  /\ pc = "select" /\ ~EndOfFile /\ worker_queue = << >>
  /\ stdin # << >> \/ queue # << >>
  /\ queue' = queue \o stdin
  /\ stdin' = << >>
  /\ pc' = "items"
  /\ rank' = 0
  /\ UNCHANGED <<newhashes, build_pids, todo, terminating, server, task, stdout, worker_queue>>

(* select() and the read of everything there is *)
Select ==
  /\ pc = "select" /\ ~EndOfFile
  /\ stdin # << >> \/ queue # << >>
  /\ queue' = queue \o stdin
  /\ stdin' = << >>
  /\ pc' = "items"
  /\ rank' = 0
  /\ UNCHANGED <<newhashes, build_pids, todo, terminating, server, task, stdout, worker_queue>>

(* sigterm_exception(): the server must have terminated *)
SelectEOF ==
  /\ pc = "select" /\ EndOfFile
  /\ pc' = "kill"
  /\ todo' = build_pids
  /\ terminating' = TRUE
  /\ UNCHANGED <<queue, rank, newhashes, build_pids, server, task, stdin, stdout, worker_queue>>

(* The loop of handle_item() looks for one more closing tag of its kind,   *)
(* and takes all that is before it for one command of that kind.           *)
Torn == \E i \in DOMAIN queue : Rank(queue[i]) = rank /\ Rank(Head(queue)) # rank

Due == queue # << >> /\ Rank(Head(queue)) >= rank /\ ~Torn

Handle(kind) ==
  /\ pc = "items" /\ Due /\ Head(queue).kind = kind
  /\ queue' = Tail(queue)
  /\ rank' = Rank(Head(queue))
  /\ UNCHANGED <<server, stdin, stdout, worker_queue>>

HandleNewTaskHashes ==
  /\ Handle("newtaskhashes")
  /\ newhashes' = Head(queue).version
  /\ UNCHANGED <<pc, build_pids, todo, terminating, task>>

(* fork_off_task(), which ends the worker if fork() fails *)
HandleRunTask ==
  LET t == Head(queue).task IN
  /\ Handle("runtask")
  /\ \/ /\ child' = [child EXCEPT ![t] = [at |-> "forked", exit |-> None, hashes |-> newhashes]]
        /\ build_pids' = build_pids \cup {t}
        /\ UNCHANGED pc
     \/ /\ ForkFails
        /\ pc' = "join"
        /\ UNCHANGED <<child, build_pids>>
  /\ UNCHANGED <<newhashes, todo, terminating, fired, pipe, missed>>

HandleFinishNow ==
  /\ Handle("finishnow")
  /\ pc' = "kill"
  /\ todo' = build_pids
  /\ UNCHANGED <<newhashes, build_pids, terminating, task>>

HandleQuit ==
  /\ Handle("quit")
  /\ pc' = "join"
  /\ UNCHANGED <<newhashes, build_pids, todo, terminating, task>>

(* pickle.loads() raises, which ends the worker. *)
Misread ==
  /\ pc = "items" /\ Torn
  /\ pc' = "join"
  /\ UNCHANGED <<queue, rank, newhashes, build_pids, todo, terminating, server, task, stdin, stdout, worker_queue>>

EndRound ==
  /\ pc = "items" /\ ~Due /\ ~Torn
  /\ pc' = "select"
  /\ UNCHANGED <<queue, rank, newhashes, build_pids, todo, terminating, server, task, stdin, stdout, worker_queue>>

Events(t) == [i \in 1..pipe[t] |-> <<t, "event">>]

(* runQueueWorkerPipe.read() *)
ReadPipe(t) ==
  /\ pc = "select" /\ t \in build_pids /\ pipe[t] > 0
  /\ worker_queue' = worker_queue \o Events(t)
  /\ pipe' = [pipe EXCEPT ![t] = 0]
  /\ UNCHANGED <<server, worker, child, fired, missed, stdin, stdout>>

ProcessWaitpid_Unread(t) ==
  /\ pc = "select" /\ build_pids # {} /\ child[t].at = "exited"
  /\ child' = [child EXCEPT ![t].at = "reaped"]
  /\ build_pids' = build_pids \ {t}
  /\ worker_queue' = Append(worker_queue, <<t, child[t].exit>>)
  /\ pipe' = [pipe EXCEPT ![t] = 0]
  /\ UNCHANGED <<queue, pc, rank, newhashes, todo, terminating, server, fired, missed, stdin, stdout>>

ProcessWaitpid_OnData(t) ==
  /\ pc = "select" /\ build_pids # {} /\ child[t].at = "exited" /\ pipe[t] > 0
  /\ child' = [child EXCEPT ![t].at = "reaped"]
  /\ build_pids' = build_pids \ {t}
  /\ worker_queue' = Append(worker_queue \o Events(t), <<t, child[t].exit>>)
  /\ pipe' = [pipe EXCEPT ![t] = 0]
  /\ UNCHANGED <<queue, pc, rank, newhashes, todo, terminating, server, fired, missed, stdin, stdout>>

(* process_waitpid(): close() reads what is left in the pipe of the task *)
ProcessWaitpid(t) ==
  /\ pc = "select" /\ build_pids # {} /\ child[t].at = "exited"
  /\ child' = [child EXCEPT ![t].at = "reaped"]
  /\ build_pids' = build_pids \ {t}
  /\ worker_queue' = Append(worker_queue \o Events(t), <<t, child[t].exit>>)
  /\ pipe' = [pipe EXCEPT ![t] = 0]
  /\ UNCHANGED <<queue, pc, rank, newhashes, todo, terminating, server, fired, missed, stdin, stdout>>

(***************************************************************************)
(* handle_finishnow()                                                      *)
(***************************************************************************)

Alive(t) == child[t].at \notin {"none", "exited", "reaped"}

Kill_Dead(t) ==
  /\ pc = "kill" /\ t \in todo
  /\ todo' = todo \ {t}
  /\ IF child[t].at \in {"leader", "dying", "exited"}
     THEN pc' = "wait"
     ELSE UNCHANGED pc
  /\ UNCHANGED <<child, queue, rank, newhashes, build_pids, terminating, server, fired, pipe, missed, stdin, stdout,
                 worker_queue>>

(* os.kill(-pid, SIGTERM), which fails if there is no such process group   *)
Kill(t) ==
  /\ pc = "kill" /\ t \in todo
  /\ todo' = todo \ {t}
  /\ IF child[t].at \in {"leader", "dying", "exited"}
     THEN /\ pc' = "wait"
          /\ child' = [child EXCEPT ![t].at = IF @ = "leader" THEN "dying" ELSE @]
     ELSE UNCHANGED <<pc, child>>
  /\ UNCHANGED <<queue, rank, newhashes, build_pids, terminating, server, fired, pipe, missed, stdin, stdout,
                 worker_queue>>

(* os.waitpid(-1, 0): whichever child comes first, its exit code is lost *)
Wait(t) ==
  /\ pc = "wait" /\ child[t].at = "exited"
  /\ child' = [child EXCEPT ![t].at = "reaped"]
  /\ pc' = "kill"
  /\ UNCHANGED <<queue, rank, newhashes, build_pids, todo, terminating, server, fired, pipe, missed, stdin, stdout,
                 worker_queue>>

(* The children are signalled when their parent ends, from prctl() on. *)
Ends ==
  /\ child' = [t \in Tasks |->
                 IF child[t].at \in {"bound", "leader"} THEN [child[t] EXCEPT !.at = "dying"] ELSE child[t]]
  /\ missed' = {t \in Tasks : child[t].at = "forked"}
  /\ pc' = "gone"

Signalled ==
  /\ pc = "kill" /\ todo = {}
  /\ pc' = "drain"
  /\ todo' = build_pids
  /\ UNCHANGED <<queue, rank, newhashes, build_pids, terminating, server, task, stdin, stdout, worker_queue>>

(* The pipes are read one after the other, while tasks go on. *)
Drain(t) ==
  /\ pc = "drain" /\ t \in todo
  /\ todo' = todo \ {t}
  /\ worker_queue' = worker_queue \o Events(t)
  /\ pipe' = [pipe EXCEPT ![t] = 0]
  /\ UNCHANGED <<queue, pc, rank, newhashes, build_pids, terminating, server, child, fired, missed, stdin, stdout>>

(* After sigterm_exception() the worker is killed. *)
Finished ==
  /\ pc = "drain" /\ todo = {}
  /\ IF terminating THEN Ends ELSE pc' = "items" /\ UNCHANGED <<child, missed>>
  /\ UNCHANGED <<queue, rank, newhashes, build_pids, todo, terminating, server, fired, pipe, stdin, stdout,
                 worker_queue>>

(***************************************************************************)
(* worker_flush(), and the end of the worker that waits for it             *)
(***************************************************************************)

Flush ==
  /\ pc # "gone" /\ worker_queue # << >>
  /\ rq # "dead" /\ Len(stdout) < OutRoom
  /\ stdout' = Append(stdout, Head(worker_queue))
  /\ worker_queue' = Tail(worker_queue)
  /\ UNCHANGED <<server, worker, task, stdin>>

Join ==
  /\ pc = "join" /\ worker_queue = << >>
  /\ Ends
  /\ UNCHANGED <<queue, rank, newhashes, build_pids, todo, terminating, server, fired, pipe, stdin, stdout,
                 worker_queue>>

(***************************************************************************)
(* Tasks                                                                   *)
(***************************************************************************)

Becomes(t, from, to) ==
  /\ child[t].at = from
  /\ child' = [child EXCEPT ![t].at = to]
  /\ UNCHANGED <<server, worker, fired, pipe, missed, stdin, stdout, worker_queue>>

(* signal_on_parent_exit("SIGTERM"); too late if the parent has gone *)
Bind(t) == Becomes(t, "forked", "bound")

(* os.setsid() *)
Lead(t) == Becomes(t, "bound", "leader")

(* worker_child_fire() waits for room; without a reader the task ends *)
Fire(t) ==
  /\ child[t].at = "leader" /\ fired[t] < MaxEvents[t]
  /\ \/ /\ pc # "gone" /\ pipe[t] < TaskRoom
        /\ pipe' = [pipe EXCEPT ![t] = @ + 1]
        /\ fired' = [fired EXCEPT ![t] = @ + 1]
        /\ UNCHANGED child
     \/ /\ pc = "gone"
        /\ child' = [child EXCEPT ![t].at = "dying"]
        /\ UNCHANGED <<pipe, fired>>
  /\ UNCHANGED <<server, worker, missed, stdin, stdout, worker_queue>>

Exit(t, at, codes) ==
  /\ child[t].at = at
  /\ \E code \in codes : child' = [child EXCEPT ![t] = [@ EXCEPT !.at = "exited", !.exit = code]]
  /\ UNCHANGED <<server, worker, fired, pipe, missed, stdin, stdout, worker_queue>>

End(t) == Exit(t, "leader", {"ok", "failed"})

(* sigterm_handler() *)
Terminate(t) == Exit(t, "dying", {"killed"})

WorkerStep ==
  \/ Select \/ SelectEOF
  \/ HandleNewTaskHashes \/ HandleRunTask \/ HandleFinishNow \/ HandleQuit \/ Misread \/ EndRound
  \/ Signalled \/ Finished \/ Join
  \/ \E t \in Tasks : ReadPipe(t) \/ ProcessWaitpid(t) \/ Kill(t) \/ Wait(t) \/ Drain(t)

Next ==
  \/ \E t \in Tasks : RunTask(t)
  \/ NewTaskHashes \/ FinishNow \/ Teardown \/ Written \/ Read \/ Close \/ Die
  \/ WorkerStep \/ Flush
  \/ \E t \in Tasks : Bind(t) \/ Lead(t) \/ Fire(t) \/ End(t) \/ Terminate(t)

Spec == Init /\ [][Next]_vars

(* The threads run, the run queue reads and ends what it stopped; a task   *)
(* becomes the leader of its group and dies of SIGTERM, but may run for    *)
(* ever.                                                                   *)
FairSpec ==
  /\ Spec
  /\ WF_vars(Written) /\ WF_vars(Read) /\ WF_vars(rq = "finishing" /\ Teardown)
  /\ WF_vars(WorkerStep) /\ WF_vars(Flush)
  /\ \A t \in Tasks : WF_vars(ReadPipe(t)) /\ WF_vars(ProcessWaitpid(t))
  /\ \A t \in Tasks : WF_vars(Bind(t) \/ Lead(t)) /\ WF_vars(Terminate(t))

(***************************************************************************)
(* Properties                                                              *)
(***************************************************************************)

TypeOK ==
  /\ rq \in {"running", "finishing", "teardown", "closed", "dead"}
  /\ writing \in Commands \cup {None}
  /\ hashes \in 0..MaxHashes
  /\ sent \in [Tasks -> 0..MaxHashes \cup {None}]
  /\ got \in [Tasks -> [events : Nat, exit : ExitCodes \cup {None}]]
  /\ stdin \in Seq(Commands) /\ queue \in Seq(Commands)
  /\ stdout \in Seq(Messages) /\ worker_queue \in Seq(Messages)
  /\ pc \in {"select", "items", "kill", "wait", "drain", "join", "gone"}
  /\ rank \in 0..Len(Kinds)
  /\ newhashes \in 0..MaxHashes
  /\ build_pids \subseteq Tasks /\ todo \subseteq Tasks /\ missed \subseteq Tasks
  /\ terminating \in BOOLEAN
  /\ child \in [Tasks -> [at : {"none", "forked", "bound", "leader", "dying", "exited", "reaped"},
                          exit : ExitCodes \cup {None}, hashes : 0..MaxHashes \cup {None}]]
  /\ fired \in [Tasks -> Nat] /\ pipe \in [Tasks -> Nat]

(* The exit code of a task is read by the run queue after every event of   *)
(* the task, its unihash among them, and is the one the task ended with.   *)
ExitCodeLast ==
  \A t \in Tasks : got[t].exit # None =>
    /\ got[t].exit = child[t].exit
    /\ got[t].events = fired[t]

(* A task runs with the task hashes the run queue went by when it chose    *)
(* the task, however commands pile up.                                     *)
HashesAsSent ==
  \A t \in Tasks : child[t].at # "none" => child[t].hashes = sent[t]

(* The main thread has begun to end and waits for the flushing thread,     *)
(* which waits for room in stdout; the server, which would make room,      *)
(* waits for room in stdin, which nobody reads any more.                   *)
Hung ==
  /\ pc = "join" /\ worker_queue # << >> /\ Len(stdout) = OutRoom
  /\ writing # None /\ ~HasRoom

(* "We can end up with write contention with the cooker [...]. Therefore   *)
(* use a separate thread": the run queue never hangs writing a command,    *)
(* although it reads nothing meanwhile and tasks may run for ever, unless  *)
(* the worker has begun to end.                                            *)
ServedCommandsGoThrough == writing # None ~> writing = None \/ Hung

(* Every task is answered, if tasks end, unless the build is stopped, the  *)
(* worker has ended, or a worker that could not fork or misread its stdin  *)
(* and the server wait for each other for ever.                            *)
Answered ==
  (\A t \in Tasks : WF_vars(End(t)))
    => \A t \in Tasks : sent[t] # None ~> got[t].exit # None \/ rq # "running" \/ pc = "gone" \/ Hung

(* A worker that has begun to end waits until its messages are written,    *)
(* which worker_flush() tries for ever: in vain if the server is dead.     *)
Stuck == Hung \/ (pc = "join" /\ worker_queue # << >> /\ rq = "dead")

(* After a forced stop or the death of the server no task goes on, even    *)
(* one that would never end.  Those that the worker forked a moment before *)
(* its own end are missed.                                                 *)
NoTaskLeft == rq # "running" ~> Stuck \/ \A t \in Tasks \ missed : ~Alive(t)

=============================================================================
