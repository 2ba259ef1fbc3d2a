------------------------ MODULE BitbakeWorkerProofs ------------------------
(***************************************************************************)
(* Theorems about BitbakeWorker, for all tasks, bounds and rooms in pipes. *)
(*                                                                         *)
(* Neither property is inductive, as both are about what is under way.     *)
(*                                                                         *)
(* Hashes: the commands that the worker has not handled are a sequence,    *)
(* Pending, which spreads over its queue, its stdin and the command the    *)
(* run queue is writing; every runtask in it will be handled with the      *)
(* version of the hashes it was sent with (InOrder), which is about those  *)
(* that precede it, and the run queue's own version is what the worker has *)
(* once all are handled (UpToDate).                                        *)
(*                                                                         *)
(* Exit codes: the messages that the run queue has not read are a sequence *)
(* too, Unread; every exit code in it is the last message of a task whose  *)
(* process is reaped and whose pipe is empty (ExitsIn), and the events     *)
(* that were read, under way or in the pipe are all there are (Counted).   *)
(***************************************************************************)
EXTENDS BitbakeWorker, FiniteSetTheorems, SequenceTheorems, TLAPS

(***************************************************************************)
(* Types                                                                   *)
(***************************************************************************)

(* What a command carries *)
LEMMA CommandParts ==
  ASSUME NEW c \in Commands
  PROVE  /\ c.kind \in {"newtaskhashes", "runtask", "finishnow", "quit"}
         /\ c.kind = "runtask" => c.task \in Tasks
         /\ c.kind = "newtaskhashes" => c.version \in 1..MaxHashes
         /\ c # None
BY WorkerAssumption DEF Commands

(* Every command has its handler. *)
LEMMA RankType == ASSUME NEW c \in Commands PROVE Rank(c) \in 1..Len(Kinds)
<1>1. \E i \in DOMAIN Kinds : Kinds[i] = c.kind
  <2>1. /\ DOMAIN Kinds = 1..4
        /\ Kinds[1] = "newtaskhashes" /\ Kinds[2] = "runtask" /\ Kinds[3] = "finishnow" /\ Kinds[4] = "quit"
    BY DEF Kinds
  <2>2. c.kind \in {"newtaskhashes", "runtask", "finishnow", "quit"}
    BY CommandParts
  <2> QED
    BY <2>1, <2>2
<1>2. Rank(c) \in DOMAIN Kinds
  BY <1>1 DEF Rank
<1> QED
  BY <1>2 DEF Kinds

(* A handled command was the first of the queue. *)
LEMMA HandleType ==
  ASSUME TypeOK, NEW kind, Handle(kind)
  PROVE  /\ Head(queue) \in Commands /\ Head(queue).kind = kind /\ queue' \in Seq(Commands)
         /\ rank' \in 0..Len(Kinds)
<1>1. queue # << >> /\ Head(queue).kind = kind /\ queue' = Tail(queue) /\ rank' = Rank(Head(queue))
  BY DEF Handle, Due
<1>2. Head(queue) \in Commands /\ Tail(queue) \in Seq(Commands)
  BY <1>1 DEF TypeOK
<1> QED
  BY <1>1, <1>2, RankType DEF Kinds

(* What is read from the pipe of a task are messages. *)
LEMMA EventsType ==
  ASSUME TypeOK, NEW t \in Tasks
  PROVE  /\ Events(t) \in Seq(Messages) /\ Len(Events(t)) = pipe[t]
         /\ \A i \in 1..pipe[t] : Events(t)[i] = <<t, "event">>
<1>1. pipe[t] \in Nat /\ <<t, "event">> \in Messages
  BY DEF TypeOK, Messages
<1>2. Events(t) \in [1..pipe[t] -> Messages] /\ \A i \in 1..pipe[t] : Events(t)[i] = <<t, "event">>
  BY <1>1 DEF Events
<1>3. Events(t) \in Seq(Messages)
  BY <1>1, <1>2, SeqDef
<1>4. Len(Events(t)) \in Nat /\ DOMAIN Events(t) = 1..Len(Events(t)) /\ DOMAIN Events(t) = 1..pipe[t]
  BY <1>2, <1>3, LenProperties
<1>5. Len(Events(t)) = pipe[t]
  BY <1>1, <1>4
<1> QED
  BY <1>2, <1>3, <1>5

(* The types of child processes *)
ChildStates ==
  [at : {"none", "forked", "bound", "leader", "dying", "exited", "reaped"},
   exit : ExitCodes \cup {None}, hashes : 0..MaxHashes \cup {None}]

(* A process that has ended has an exit code. *)
Exited == \A t \in Tasks : child[t].at \in {"exited", "reaped"} => child[t].exit \in ExitCodes

(* The end of the worker leaves processes well formed. *)
LEMMA EndsType ==
  ASSUME TypeOK, Ends
  PROVE  child' \in [Tasks -> ChildStates] /\ missed' \subseteq Tasks /\ pc' = "gone"
<1>1. ASSUME NEW t \in Tasks PROVE [child[t] EXCEPT !.at = "dying"] \in ChildStates
  BY DEF TypeOK, ChildStates
<1> QED
  BY <1>1 DEF Ends, TypeOK, ChildStates

(* Types are kept by every step of the run queue. *)
LEMMA ServerTypeStep ==
  ASSUME TypeOK,
         (\E t \in Tasks : RunTask(t)) \/ NewTaskHashes \/ FinishNow \/ Teardown \/ Written \/ Read \/ Close \/ Die
  PROVE  TypeOK'
<1>1. ASSUME NEW t \in Tasks, RunTask(t) PROVE TypeOK'
  <2>1. [kind |-> "runtask", task |-> t] \in Commands
    BY DEF Commands
  <2> QED
    BY <1>1, <2>1 DEF RunTask, Write, TypeOK, worker, task
<1>2. CASE NewTaskHashes
  <2>1. hashes' \in 1..MaxHashes
    BY <1>2, WorkerAssumption DEF NewTaskHashes, TypeOK
  <2>2. [kind |-> "newtaskhashes", version |-> hashes'] \in Commands
    BY <2>1 DEF Commands
  <2> QED
    BY <1>2, <2>1, <2>2 DEF NewTaskHashes, Write, TypeOK, worker, task
<1>3. CASE FinishNow \/ Teardown
  <2>1. [kind |-> "finishnow"] \in Commands /\ [kind |-> "quit"] \in Commands
    BY DEF Commands
  <2> QED
    BY <1>3, <2>1 DEF FinishNow, Teardown, Write, TypeOK, worker, task
<1>4. CASE Written
  <2>1. writing \in Commands /\ stdin \in Seq(Commands)
    BY <1>4 DEF Written, TypeOK
  <2>2. Append(stdin, writing) \in Seq(Commands)
    BY <2>1
  <2>3. stdin' \in Seq(Commands)
    BY <1>4, <2>1, <2>2 DEF Written
  <2> QED
    BY <1>4, <2>3 DEF Written, TypeOK, worker, task
<1>5. CASE Read
  <2>1. stdout # << >> /\ Head(stdout) \in Messages /\ stdout' \in Seq(Messages)
    BY <1>5 DEF Read, TypeOK
  <2> DEFINE t == Head(stdout)[1]
             what == Head(stdout)[2]
  <2>2. t \in Tasks /\ what \in {"event"} \cup ExitCodes
    BY <2>1 DEF Messages
  <2>4. got \in [Tasks -> [events : Nat, exit : ExitCodes \cup {None}]]
    BY DEF TypeOK
  <2> DEFINE e == [got[t] EXCEPT !.events = got[t].events + 1]
             x == [got[t] EXCEPT !.exit = what]
             GotStates == [events : Nat, exit : ExitCodes \cup {None}]
  <2>6. e \in GotStates /\ (what # "event" => x \in GotStates)
    BY <2>2, <2>4
  <2>7. got' = [got EXCEPT ![t] = IF what = "event" THEN e ELSE x]
    BY <1>5 DEF Read
  <2> HIDE DEF t, what, e, x
  <2>3. got' \in [Tasks -> [events : Nat, exit : ExitCodes \cup {None}]]
    BY <2>2, <2>4, <2>6, <2>7
  <2> QED
    BY <1>5, <2>1, <2>3 DEF Read, TypeOK, worker, task
<1>6. CASE Close \/ Die
  BY <1>6 DEF Close, Die, TypeOK, worker, task
<1> QED
  BY <1>1, <1>2, <1>3, <1>4, <1>5, <1>6

(* Types are kept by every step of the worker. *)
LEMMA WorkerTypeStep == ASSUME TypeOK, Exited, WorkerStep \/ Flush PROVE TypeOK'
<1> USE DEF server, worker, task
<1>1. CASE Select
  <2>1. queue' \in Seq(Commands) /\ stdin' \in Seq(Commands)
    BY <1>1 DEF Select, TypeOK
  <2> QED
    BY <1>1, <2>1 DEF Select, TypeOK, Kinds
<1>2. CASE SelectEOF \/ Misread \/ EndRound \/ Signalled
  BY <1>2 DEF SelectEOF, Misread, EndRound, Signalled, TypeOK
<1>3. CASE HandleNewTaskHashes
  <2>1. newhashes' \in 0..MaxHashes
    BY <1>3, HandleType, CommandParts, WorkerAssumption DEF HandleNewTaskHashes
  <2> QED
    BY <1>3, <2>1, HandleType DEF HandleNewTaskHashes, Handle, TypeOK
<1>4. CASE HandleRunTask
  <2> DEFINE t == Head(queue).task
  <2>1. Handle("runtask")
    BY <1>4 DEF HandleRunTask
  <2>2. t \in Tasks
    BY <2>1, HandleType, CommandParts
  <2>3. child' \in [Tasks -> ChildStates]
    <3>1. [at |-> "forked", exit |-> None, hashes |-> newhashes] \in ChildStates
      BY DEF TypeOK, ChildStates
    <3>2. child' = child \/ child' = [child EXCEPT ![t] = [at |-> "forked", exit |-> None, hashes |-> newhashes]]
      BY <1>4 DEF HandleRunTask
    <3> QED
      BY <2>2, <3>1, <3>2 DEF TypeOK, ChildStates
  <2>4. build_pids' \subseteq Tasks /\ pc' \in {"items", "join"}
    BY <1>4, <2>1, <2>2 DEF HandleRunTask, TypeOK, Handle
  <2> QED
    BY <1>4, <2>1, <2>3, <2>4, HandleType DEF HandleRunTask, Handle, TypeOK, ChildStates
<1>5. CASE HandleFinishNow \/ HandleQuit
  <2>1. PICK kind : Handle(kind)
    BY <1>5 DEF HandleFinishNow, HandleQuit
  <2> QED
    BY <1>5, <2>1, HandleType DEF HandleFinishNow, HandleQuit, Handle, TypeOK
<1>6. CASE Finished \/ Join
  <2>1. child' \in [Tasks -> ChildStates] /\ missed' \subseteq Tasks /\ pc' \in {"items", "gone"}
    BY <1>6, EndsType DEF Finished, Join, TypeOK, ChildStates
  <2> QED
    BY <1>6, <2>1 DEF Finished, Join, TypeOK, ChildStates
<1>7. ASSUME NEW t \in Tasks, ReadPipe(t) \/ Drain(t) PROVE TypeOK'
  <2>1. worker_queue \in Seq(Messages) /\ Events(t) \in Seq(Messages)
    BY EventsType DEF TypeOK
  <2>2. worker_queue' = worker_queue \o Events(t) /\ pipe' = [pipe EXCEPT ![t] = 0]
    BY <1>7 DEF ReadPipe, Drain
  <2>3. worker_queue' \in Seq(Messages) /\ pipe' \in [Tasks -> Nat]
    BY <2>1, <2>2, ConcatProperties DEF TypeOK
  <2> QED
    BY <1>7, <2>3 DEF ReadPipe, Drain, TypeOK
<1>8. ASSUME NEW t \in Tasks, ProcessWaitpid(t) PROVE TypeOK'
  <2>1. worker_queue \o Events(t) \in Seq(Messages)
    BY EventsType, ConcatProperties DEF TypeOK
  <2>2. <<t, child[t].exit>> \in Messages
    BY <1>8 DEF ProcessWaitpid, Exited, Messages
  <2>3. worker_queue' \in Seq(Messages)
    BY <1>8, <2>1, <2>2 DEF ProcessWaitpid
  <2>4. child' = [child EXCEPT ![t] = [child[t] EXCEPT !.at = "reaped"]]
    BY <1>8 DEF ProcessWaitpid
  <2>5. [child[t] EXCEPT !.at = "reaped"] \in ChildStates
    BY DEF TypeOK, ChildStates
  <2>6. child' \in [Tasks -> ChildStates]
    BY <2>4, <2>5 DEF TypeOK, ChildStates
  <2> QED
    BY <1>8, <2>3, <2>6 DEF ProcessWaitpid, TypeOK, ChildStates
<1>9. ASSUME NEW t \in Tasks, Kill(t) \/ Wait(t) PROVE TypeOK'
  <2>1. \A at \in {"dying", "reaped", child[t].at} : [child[t] EXCEPT !.at = at] \in ChildStates
    BY DEF TypeOK, ChildStates
  <2>2. child' = child \/ \E at \in {"dying", "reaped", child[t].at} : child' = [child EXCEPT ![t] = [child[t] EXCEPT !.at = at]]
    BY <1>9 DEF Kill, Wait
  <2>3. child' \in [Tasks -> ChildStates]
    BY <2>1, <2>2 DEF TypeOK, ChildStates
  <2> QED
    BY <1>9, <2>3 DEF Kill, Wait, TypeOK, ChildStates
<1>10. CASE Flush
  <2>1. Head(worker_queue) \in Messages /\ worker_queue' \in Seq(Messages) /\ stdout' \in Seq(Messages)
    BY <1>10 DEF Flush, TypeOK
  <2> QED
    BY <1>10, <2>1 DEF Flush, TypeOK
<1> QED
  BY <1>1, <1>2, <1>3, <1>4, <1>5, <1>6, <1>7, <1>8, <1>9, <1>10 DEF WorkerStep
(***************************************************************************)
(* Processes                                                               *)
(***************************************************************************)

(* The process of a task is forked with the hashes the worker has, and     *)
(* keeps them; what is reaped does not change any more.                    *)
Moves(t) ==
  \/ child'[t] = child[t]
  \/ /\ Handle("runtask") /\ Head(queue).task = t
     /\ child'[t] = [at |-> "forked", exit |-> None, hashes |-> newhashes]
  \/ /\ child[t].at \notin {"none", "reaped"}
     /\ child'[t].at # "none" /\ child'[t].hashes = child[t].hashes
     /\ child'[t].at \in {"exited", "reaped"} => child'[t].exit \in ExitCodes
     /\ child[t].at = "exited" => child'[t].exit = child[t].exit

(* What becomes of the state of a process when only its stage changes *)
LEMMA StageMoves ==
  ASSUME TypeOK, Exited, NEW t \in Tasks, NEW at \in {"bound", "leader", "dying", "reaped"},
         child[t].at \notin {"none", "reaped"}, at = "reaped" => child[t].at = "exited",
         child'[t] = [child[t] EXCEPT !.at = at]
  PROVE  Moves(t)
<1>1. child[t] \in ChildStates
  BY DEF TypeOK, ChildStates
<1>2. child'[t].at = at /\ child'[t].exit = child[t].exit /\ child'[t].hashes = child[t].hashes
  BY <1>1 DEF ChildStates
<1>3. child'[t].at \in {"exited", "reaped"} => child'[t].exit \in ExitCodes
  BY <1>2 DEF Exited
<1> QED
  BY <1>2, <1>3 DEF Moves

(* The end of the worker signals processes that are bound to it. *)
LEMMA EndsMoves ==
  ASSUME TypeOK, Exited, Ends, NEW t \in Tasks PROVE Moves(t)
<1>1. CASE child[t].at \in {"bound", "leader"}
  <2>1. child'[t] = [child[t] EXCEPT !.at = "dying"]
    BY <1>1 DEF Ends
  <2> QED
    BY <1>1, <2>1, StageMoves
<1>2. CASE child[t].at \notin {"bound", "leader"}
  BY <1>2 DEF Ends, Moves
<1> QED
  BY <1>1, <1>2

(* Every step moves processes on. *)
LEMMA ChildStep ==
  ASSUME TypeOK, Exited, [Next]_vars, NEW t \in Tasks PROVE Moves(t)
<1> USE DEF TypeOK
<1>s. ASSUME UNCHANGED child PROVE Moves(t)
  BY <1>s DEF Moves
<1>1. ASSUME NEW u \in Tasks, NEW at \in {"bound", "leader", "dying", "reaped"},
             child[u].at \notin {"none", "reaped"}, at = "reaped" => child[u].at = "exited",
             child' = [child EXCEPT ![u].at = at]
      PROVE  Moves(t)
  <2>1. CASE u = t
    <3>1. child'[t] = [child[t] EXCEPT !.at = at]
      BY <1>1, <2>1
    <3> QED
      BY <1>1, <2>1, <3>1, StageMoves
  <2>2. CASE u # t
    BY <1>1, <2>2 DEF Moves
  <2> QED
    BY <2>1, <2>2
<1>2. CASE HandleRunTask
  BY <1>2 DEF HandleRunTask, Moves
<1>3. ASSUME NEW u \in Tasks, ProcessWaitpid(u) \/ Wait(u) PROVE Moves(t)
  BY <1>3, <1>1 DEF ProcessWaitpid, Wait
<1>4. ASSUME NEW u \in Tasks, Kill(u) PROVE Moves(t)
  <2>1. UNCHANGED child \/ (child[u].at = "leader" /\ child' = [child EXCEPT ![u].at = "dying"])
    BY <1>4 DEF Kill
  <2> QED
    BY <2>1, <1>1, <1>s
<1>5. CASE Finished \/ Join
  BY <1>5, <1>s, EndsMoves DEF Finished, Join
<1>6. ASSUME NEW u \in Tasks, Bind(u) \/ Lead(u) \/ Fire(u) PROVE Moves(t)
  BY <1>6, <1>1, <1>s DEF Bind, Lead, Fire, Becomes
<1>7. ASSUME NEW u \in Tasks, End(u) \/ Terminate(u) PROVE Moves(t)
  <2>1. PICK code \in ExitCodes :
          /\ child[u].at \in {"leader", "dying"}
          /\ child' = [child EXCEPT ![u] = [@ EXCEPT !.at = "exited", !.exit = code]]
    BY <1>7 DEF End, Terminate, Exit, ExitCodes
  <2>2. CASE u = t
    <3>1. child'[t] = [child[t] EXCEPT !.at = "exited", !.exit = code]
      BY <2>1, <2>2
    <3>2. child[t] \in ChildStates
      BY DEF ChildStates
    <3>3. child'[t].at = "exited" /\ child'[t].exit = code /\ child'[t].hashes = child[t].hashes
      BY <3>1, <3>2 DEF ChildStates
    <3> QED
      BY <2>1, <2>2, <3>3 DEF Moves
  <2>3. CASE u # t
    BY <2>1, <2>3 DEF Moves
  <2> QED
    BY <2>2, <2>3
<1>8. CASE UNCHANGED vars \/ (\E u \in Tasks : RunTask(u)) \/ NewTaskHashes \/ FinishNow \/ Teardown \/ Written
             \/ Read \/ Close \/ Die \/ Select \/ SelectEOF \/ HandleNewTaskHashes \/ HandleFinishNow \/ HandleQuit
             \/ Misread \/ EndRound \/ Signalled \/ Flush \/ \E u \in Tasks : ReadPipe(u) \/ Drain(u)
  <2>1. UNCHANGED child
    BY <1>8 DEF vars, RunTask, NewTaskHashes, FinishNow, Teardown, Write, Written, Read, Close, Die, Select, SelectEOF,
                HandleNewTaskHashes, HandleFinishNow, HandleQuit, Misread, EndRound, Signalled, Flush, ReadPipe, Drain,
                task
  <2> QED
    BY <2>1, <1>s
<1> QED
  BY <1>2, <1>3, <1>4, <1>5, <1>6, <1>7, <1>8 DEF Next, WorkerStep

(* Types of processes are kept by what tasks do. *)
LEMMA TaskTypeStep ==
  ASSUME TypeOK, \E t \in Tasks : Bind(t) \/ Lead(t) \/ Fire(t) \/ End(t) \/ Terminate(t) PROVE TypeOK'
<1> USE DEF server, worker
<1>1. PICK t \in Tasks : Bind(t) \/ Lead(t) \/ Fire(t) \/ End(t) \/ Terminate(t)
  OBVIOUS
<1>2. child[t] \in ChildStates
  BY DEF TypeOK, ChildStates
<1>3. CASE Bind(t) \/ Lead(t) \/ Fire(t)
  <2>1. child' = child \/ \E at \in {"bound", "leader", "dying"} : child' = [child EXCEPT ![t] = [child[t] EXCEPT !.at = at]]
    BY <1>3 DEF Bind, Lead, Fire, Becomes
  <2>2. \A at \in {"bound", "leader", "dying"} : [child[t] EXCEPT !.at = at] \in ChildStates
    BY <1>2 DEF ChildStates
  <2>3. child' \in [Tasks -> ChildStates]
    BY <2>1, <2>2 DEF TypeOK, ChildStates
  <2>4. fired' \in [Tasks -> Nat] /\ pipe' \in [Tasks -> Nat]
    <3>1. fired \in [Tasks -> Nat] /\ pipe \in [Tasks -> Nat]
      BY DEF TypeOK
    <3>2. CASE Fire(t)
      BY <3>1, <3>2 DEF Fire
    <3>3. CASE Bind(t) \/ Lead(t)
      BY <3>1, <3>3 DEF Bind, Lead, Becomes
    <3> QED
      BY <1>3, <3>2, <3>3
  <2> QED
    BY <1>3, <2>3, <2>4 DEF Bind, Lead, Fire, Becomes, TypeOK, ChildStates
<1>4. CASE End(t) \/ Terminate(t)
  <2>1. PICK code \in ExitCodes : child' = [child EXCEPT ![t] = [child[t] EXCEPT !.at = "exited", !.exit = code]]
    BY <1>4 DEF End, Terminate, Exit, ExitCodes
  <2>2. [child[t] EXCEPT !.at = "exited", !.exit = code] \in ChildStates
    BY <1>2 DEF ChildStates
  <2>3. child' \in [Tasks -> ChildStates]
    BY <2>1, <2>2 DEF TypeOK, ChildStates
  <2> QED
    BY <1>4, <2>3 DEF End, Terminate, Exit, TypeOK, ChildStates
<1> QED
  BY <1>1, <1>3, <1>4

(* Types are kept, and what has ended has an exit code. *)
LEMMA TypeStep == TypeOK /\ Exited /\ [Next]_vars => TypeOK' /\ Exited'
<1> SUFFICES ASSUME TypeOK, Exited, [Next]_vars PROVE TypeOK' /\ Exited'
  OBVIOUS
<1>1. TypeOK'
  <2>1. CASE UNCHANGED vars
    BY <2>1 DEF vars, server, worker, task, TypeOK
  <2> QED
    BY <2>1, ServerTypeStep, WorkerTypeStep, TaskTypeStep DEF Next
<1>2. Exited'
  <2> SUFFICES ASSUME NEW t \in Tasks, child'[t].at \in {"exited", "reaped"} PROVE child'[t].exit \in ExitCodes
    BY DEF Exited
  <2> QED
    BY ChildStep DEF Moves, Exited
<1> QED
  BY <1>1, <1>2
(***************************************************************************)
(* Commands under way                                                      *)
(***************************************************************************)

(* A sequence is taken from its front, also where others follow it. *)
LEMMA TailConcat ==
  ASSUME NEW S, NEW q \in Seq(S), NEW s \in Seq(S), q # << >>
  PROVE  q \o s # << >> /\ (q \o s)[1] = Head(q) /\ Tail(q \o s) = Tail(q) \o s
<1>1. /\ Len(q) \in Nat \ {0} /\ Tail(q) \in Seq(S) /\ Len(Tail(q)) = Len(q) - 1
      /\ \A i \in 1..Len(Tail(q)) : Tail(q)[i] = q[i+1]
  BY HeadTailProperties, EmptySeq
<1>2. /\ q \o s \in Seq(S) /\ Len(q \o s) = Len(q) + Len(s) /\ Len(s) \in Nat
      /\ \A i \in 1 .. Len(q) + Len(s) : (q \o s)[i] = IF i <= Len(q) THEN q[i] ELSE s[i - Len(q)]
  BY ConcatProperties, LenProperties
<1>3. q \o s # << >> /\ (q \o s)[1] = q[1] /\ q[1] = Head(q)
  BY <1>1, <1>2
<1>4. /\ Tail(q \o s) \in Seq(S) /\ Len(Tail(q \o s)) = Len(q) + Len(s) - 1
      /\ \A i \in 1 .. Len(q) + Len(s) - 1 : Tail(q \o s)[i] = (q \o s)[i+1]
  BY <1>2, <1>3, HeadTailProperties
<1>5. /\ Tail(q) \o s \in Seq(S) /\ Len(Tail(q) \o s) = Len(q) - 1 + Len(s)
      /\ \A i \in 1 .. Len(q) - 1 + Len(s) :
           (Tail(q) \o s)[i] = IF i <= Len(q) - 1 THEN Tail(q)[i] ELSE s[i - (Len(q) - 1)]
  BY <1>1, ConcatProperties
<1>6. ASSUME NEW i \in 1 .. Len(q) + Len(s) - 1 PROVE Tail(q \o s)[i] = (Tail(q) \o s)[i]
  <2>1. i + 1 \in 1 .. Len(q) + Len(s) /\ i \in 1 .. Len(q) - 1 + Len(s)
    BY <1>1, <1>2
  <2>2. Tail(q \o s)[i] = IF i + 1 <= Len(q) THEN q[i+1] ELSE s[i + 1 - Len(q)]
    BY <1>2, <1>4, <2>1
  <2>3. (Tail(q) \o s)[i] = IF i <= Len(q) - 1 THEN Tail(q)[i] ELSE s[i - (Len(q) - 1)]
    BY <1>5, <2>1
  <2>4. CASE i + 1 <= Len(q)
    BY <1>1, <2>2, <2>3, <2>4
  <2>5. CASE ~ (i + 1 <= Len(q))
    <3>1. i + 1 - Len(q) = i - (Len(q) - 1)
      BY <1>1
    <3> QED
      BY <1>1, <2>2, <2>3, <2>5, <3>1
  <2> QED
    BY <2>4, <2>5
<1>7. Tail(q \o s) = Tail(q) \o s
  BY <1>1, <1>2, <1>4, <1>5, <1>6, SeqEqual
<1> QED
  BY <1>3, <1>7

(* A sequence is added to at its end, also where others precede it. *)
LEMMA AppendConcat ==
  ASSUME NEW S, NEW q \in Seq(S), NEW s \in Seq(S), NEW c \in S
  PROVE  q \o Append(s, c) = Append(q \o s, c)
<1>1. <<c>> \in Seq(S) /\ q \o s \in Seq(S)
  BY ConcatProperties
<1> QED
  BY <1>1, AppendIsConcat, ConcatAssociative

(* The command the run queue is writing *)
Last == IF writing = None THEN << >> ELSE <<writing>>

(* All commands that the worker has not handled, in order *)
Pending == (queue \o stdin) \o Last

(* Commands under way are commands. *)
LEMMA PendingType ==
  ASSUME TypeOK PROVE Pending \in Seq(Commands) /\ queue \o stdin \in Seq(Commands) /\ Last \in Seq(Commands)
<1>1. queue \o stdin \in Seq(Commands)
  BY ConcatProperties DEF TypeOK
<1>2. Last \in Seq(Commands)
  BY DEF TypeOK, Last
<1> QED
  BY <1>1, <1>2, ConcatProperties DEF Pending

HandleStep == HandleNewTaskHashes \/ HandleRunTask \/ HandleFinishNow \/ HandleQuit

(* The worker handles the first of the commands under way. *)
LEMMA Handled ==
  ASSUME TypeOK, NEW kind, Handle(kind)
  PROVE  /\ Pending # << >> /\ Pending[1] = Head(queue) /\ Pending' = Tail(Pending)
         /\ UNCHANGED <<rq, writing, hashes, sent>>
<1>1. queue # << >> /\ queue' = Tail(queue) /\ stdin' = stdin /\ UNCHANGED <<rq, writing, hashes, sent>>
  BY DEF Handle, Due, server
<1>2. queue \in Seq(Commands) /\ stdin \in Seq(Commands)
  BY DEF TypeOK
<1>3. /\ queue \o stdin # << >> /\ (queue \o stdin)[1] = Head(queue)
      /\ Tail(queue \o stdin) = Tail(queue) \o stdin
  BY <1>1, <1>2, TailConcat
<1>4. queue \o stdin \in Seq(Commands) /\ Last \in Seq(Commands) /\ Last' = Last
  BY <1>1, PendingType DEF Last
<1>5. /\ Pending # << >> /\ Pending[1] = Head(queue \o stdin)
      /\ Tail(Pending) = Tail(queue \o stdin) \o Last
  BY <1>3, <1>4, TailConcat DEF Pending
<1>6. Head(queue \o stdin) = Head(queue)
  BY <1>3, <1>4
<1> QED
  BY <1>1, <1>3, <1>4, <1>5, <1>6 DEF Pending

(* Writing a command puts it last. *)
LEMMA WritePending ==
  ASSUME TypeOK, NEW c \in Commands, Write(c)
  PROVE  Pending' = Append(Pending, c) /\ newhashes' = newhashes
<1>1. writing = None /\ writing' = c /\ c # None /\ queue' = queue /\ stdin' = stdin /\ newhashes' = newhashes
  BY CommandParts DEF Write, worker
<1>2. Last = << >> /\ Last' = Append(<< >>, c)
  BY <1>1 DEF Last
<1>3. queue \o stdin \in Seq(Commands) /\ Pending = queue \o stdin
  BY <1>2, PendingType, ConcatEmptySeq DEF Pending
<1>4. << >> \in Seq(Commands)
  OBVIOUS
<1>5. (queue \o stdin) \o Append(<< >>, c) = Append((queue \o stdin) \o << >>, c)
  BY <1>3, <1>4, AppendConcat
<1> QED
  BY <1>1, <1>2, <1>5 DEF Pending

(* A command that goes into the pipe stays where it is. *)
LEMMA WrittenPending ==
  ASSUME TypeOK, Written, pc # "gone" PROVE Pending' = Pending
<1>1. writing \in Commands /\ writing # None /\ writing' = None /\ queue' = queue /\ stdin' = Append(stdin, writing)
  BY DEF Written, TypeOK, worker
<1>2. queue \in Seq(Commands) /\ stdin \in Seq(Commands)
  BY DEF TypeOK
<1>3. queue \o stdin \in Seq(Commands) /\ Append(queue \o stdin, writing) \in Seq(Commands)
  BY <1>1, PendingType
<1>4. Pending = Append(queue \o stdin, writing)
  BY <1>1, <1>3, AppendIsConcat DEF Pending, Last
<1>5. Pending' = (queue \o Append(stdin, writing)) \o << >>
  BY <1>1 DEF Pending, Last
<1> QED
  BY <1>1, <1>2, <1>3, <1>4, <1>5, AppendConcat, ConcatEmptySeq

(* What select() finds is read behind what was read before. *)
LEMMA SelectPending ==
  ASSUME TypeOK, Select PROVE Pending' = Pending
<1>1. queue' = queue \o stdin /\ stdin' = << >> /\ writing' = writing
  BY DEF Select, server
<1> QED
  BY <1>1, PendingType, ConcatEmptySeq DEF Pending, Last
(***************************************************************************)
(* Task hashes                                                             *)
(***************************************************************************)

(* [v] is the version of the hashes the worker will have when it handles   *)
(* the [i]-th of the commands [p], if it has version [h] now.              *)
Newest(p, h, i, v) ==
  \/ v = h /\ \A j \in 1..(i-1) : p[j].kind # "newtaskhashes"
  \/ \E j \in 1..(i-1) :
       /\ p[j].kind = "newtaskhashes" /\ p[j].version = v
       /\ \A k \in (j+1)..(i-1) : p[k].kind # "newtaskhashes"

Starts(c, t) == c.kind = "runtask" /\ c.task = t

(* A task that was sent and not yet forked will be forked with the hashes  *)
(* it was sent with, and once.                                             *)
Awaits(p, h, i, t) ==
  /\ sent[t] # None /\ child[t].at = "none"
  /\ Newest(p, h, i, sent[t])
  /\ \A j \in DOMAIN p : Starts(p[j], t) => j = i

InOrder ==
  pc # "gone" =>
    \A i \in DOMAIN Pending : \A t \in Tasks : Starts(Pending[i], t) => Awaits(Pending, newhashes, i, t)

(* When all is handled the worker will have the hashes the run queue has.  *)
UpToDate == pc # "gone" /\ rq = "running" => Newest(Pending, newhashes, Len(Pending) + 1, hashes)

AsSent == \A t \in Tasks : child[t].at # "none" => child[t].hashes = sent[t] /\ sent[t] # None

(* What a command is handled with does not depend on what follows it. *)
LEMMA NewestAppend ==
  ASSUME NEW p \in Seq(Commands), NEW c \in Commands, NEW h, NEW v, NEW i \in 1..(Len(p)+1)
  PROVE  Newest(p, h, i, v) <=> Newest(Append(p, c), h, i, v)
<1> DEFINE r == Append(p, c)
<1>1. \A j \in 1..(i-1) : r[j] = p[j]
  BY AppendProperties, LenProperties
<1>2. i \in Nat
  BY LenProperties
<1> HIDE DEF r
<1>3. \A j \in 1..(i-1) : \A k \in (j+1)..(i-1) : k \in 1..(i-1)
  BY <1>2
<1>4. \A j \in 1..(i-1) : (\A k \in (j+1)..(i-1) : p[k].kind # "newtaskhashes")
                          <=> (\A k \in (j+1)..(i-1) : r[k].kind # "newtaskhashes")
  BY <1>1, <1>3, Zenon
<1>5. Newest(p, h, i, v) <=> Newest(r, h, i, v)
  BY <1>1, <1>4, Zenon DEF Newest
<1> QED
  BY <1>5 DEF r

(* A command for new hashes, or another one, decides for what comes next. *)
LEMMA NewestNext ==
  ASSUME NEW p \in Seq(Commands), NEW c \in Commands, NEW h, NEW v, Newest(p, h, Len(p) + 1, v)
  PROVE  Newest(Append(p, c), h, Len(p) + 2, IF c.kind = "newtaskhashes" THEN c.version ELSE v)
<1>1. /\ \A j \in 1..Len(p) : Append(p, c)[j] = p[j]
      /\ Append(p, c)[Len(p)+1] = c /\ Len(p) \in Nat
  BY AppendProperties, LenProperties
<1> DEFINE n == Len(p)
           r == Append(p, c)
<1> HIDE DEF n, r
<1>2. (\A j \in 1..n : r[j] = p[j]) /\ r[n+1] = c /\ n \in Nat
  BY <1>1 DEF n, r
<1>3. Newest(p, h, n + 1, v)
  BY DEF n
<1>4. CASE c.kind = "newtaskhashes"
  BY <1>2, <1>4 DEF Newest, n, r
<1>5. CASE c.kind # "newtaskhashes"
  <2>1. CASE v = h /\ \A j \in 1..n : p[j].kind # "newtaskhashes"
    <3>1. \A j \in 1..(n+2-1) : r[j].kind # "newtaskhashes"
      BY <1>2, <1>5, <2>1
    <3> QED
      BY <1>5, <2>1, <3>1 DEF Newest, n, r
  <2>2. ASSUME NEW j \in 1..n, p[j].kind = "newtaskhashes", p[j].version = v,
               \A k \in (j+1)..n : p[k].kind # "newtaskhashes"
        PROVE  Newest(r, h, n + 2, v)
    <3>1. \A k \in (j+1)..(n+2-1) : r[k].kind # "newtaskhashes"
      BY <1>2, <1>5, <2>2
    <3>2. j \in 1..(n+2-1) /\ r[j] = p[j]
      BY <1>2
    <3>3. \E l \in 1..(n+2-1) : /\ r[l].kind = "newtaskhashes" /\ r[l].version = v
                                /\ \A k \in (l+1)..(n+2-1) : r[k].kind # "newtaskhashes"
      BY <2>2, <3>1, <3>2
    <3> QED
      BY <1>2, <3>3 DEF Newest
  <2>3. n + 1 - 1 = n
    BY <1>2
  <2> QED
    BY <1>3, <1>5, <2>1, <2>2, <2>3 DEF Newest, n, r
<1> QED
  BY <1>4, <1>5

(* Handling the first command brings the worker closer to the others. *)
LEMMA NewestTail ==
  ASSUME NEW p \in Seq(Commands), p # << >>, NEW h, NEW v, NEW i \in 2..(Len(p)+1), Newest(p, h, i, v)
  PROVE  Newest(Tail(p), IF p[1].kind = "newtaskhashes" THEN p[1].version ELSE h, i - 1, v)
<1> DEFINE n == Len(p)
           r == Tail(p)
           g == IF p[1].kind = "newtaskhashes" THEN p[1].version ELSE h
<1>1. (\A j \in 1..(n-1) : r[j] = p[j+1]) /\ n \in Nat \ {0} /\ i \in 2..(n+1)
  BY HeadTailProperties, EmptySeq
<1> HIDE DEF n, r
<1>2. CASE v = h /\ \A j \in 1..(i-1) : p[j].kind # "newtaskhashes"
  <2>1. p[1].kind # "newtaskhashes" /\ \A j \in 1..(i-1-1) : r[j].kind # "newtaskhashes"
    BY <1>1, <1>2
  <2> QED
    BY <1>2, <2>1 DEF Newest, r
<1>3. ASSUME NEW j \in 1..(i-1), p[j].kind = "newtaskhashes", p[j].version = v,
             \A k \in (j+1)..(i-1) : p[k].kind # "newtaskhashes"
      PROVE  Newest(r, g, i - 1, v)
  <2>1. CASE j = 1
    <3>1. \A k \in 1..(i-1-1) : r[k].kind # "newtaskhashes"
      BY <1>1, <1>3, <2>1
    <3> QED
      BY <1>3, <2>1, <3>1 DEF Newest
  <2>2. CASE j # 1
    <3>1. j - 1 \in 1..(i-1-1) /\ r[j-1] = p[j]
      BY <1>1, <2>2
    <3>2. ASSUME NEW k \in (j-1+1)..(i-1-1) PROVE r[k].kind # "newtaskhashes"
      <4>1. k + 1 \in (j+1)..(i-1) /\ k \in 1..(n-1)
        BY <1>1, <2>2
      <4> QED
        BY <1>1, <1>3, <4>1
    <3> QED
      BY <1>3, <3>1, <3>2 DEF Newest
  <2> QED
    BY <2>1, <2>2
<1> QED
  BY <1>2, <1>3 DEF Newest, r

(* Tasks that have not been forked stay so, but for the one handled. *)
LEMMA NotForked ==
  ASSUME TypeOK, Exited, [Next]_vars, NEW t \in Tasks, child[t].at = "none",
         \A kind : Handle(kind) => ~ Starts(Head(queue), t)
  PROVE  child'[t].at = "none"
<1>1. Handle("runtask") => Head(queue).kind = "runtask"
  BY DEF Handle
<1> QED
  BY <1>1, ChildStep DEF Moves, Starts

(* A step that handles nothing keeps the queue, or is taken elsewhere than *)
(* in the round of handlers.                                               *)
LEMMA HandlesNothing ==
  ASSUME TypeOK, queue' = queue \/ pc # "items", NEW kind PROVE ~ Handle(kind)
<1> SUFFICES ASSUME Handle(kind) PROVE FALSE
  OBVIOUS
<1>1. pc = "items" /\ queue # << >> /\ queue' = Tail(queue)
  BY DEF Handle, Due
<1>2. Len(Tail(queue)) = Len(queue) - 1 /\ Len(queue) \in Nat
  BY <1>1, HeadTailProperties, EmptySeq DEF TypeOK
<1> QED
  BY <1>1, <1>2
(* One more command under way: a task that was not sent before, with the   *)
(* hashes the run queue has, new hashes, or neither.                       *)
LEMMA SentInOrder ==
  ASSUME TypeOK, InOrder, UpToDate, AsSent, pc # "gone", pc' # "gone",
         NEW c \in Commands, Pending' = Append(Pending, c), newhashes' = newhashes, rq = "running",
         \A t \in Tasks : child[t].at = "none" => child'[t].at = "none",
         \A t \in Tasks : Starts(c, t) => sent[t] = None /\ sent'[t] = hashes,
         \A t \in Tasks : ~ Starts(c, t) => sent'[t] = sent[t],
         hashes' = IF c.kind = "newtaskhashes" THEN c.version ELSE hashes
  PROVE  InOrder' /\ UpToDate'
<1> DEFINE p == Pending
           q == Append(p, c)
           n == Len(p)
<1>1. p \in Seq(Commands) /\ n \in Nat /\ Len(q) = n + 1 /\ DOMAIN p = 1..n /\ DOMAIN q = 1..(n+1)
  BY PendingType, LenProperties, AppendProperties
<1>2. (\A i \in 1..n : q[i] = p[i]) /\ q[n+1] = c
  BY <1>1, AppendProperties
<1>3. \A h, v : \A i \in 1..(n+1) : Newest(p, h, i, v) <=> Newest(q, h, i, v)
  BY <1>1, NewestAppend
<1>4. \A i \in 1..n : \A t \in Tasks : Starts(p[i], t) => Awaits(p, newhashes, i, t)
  BY <1>1 DEF InOrder
<1>5. Newest(p, newhashes, n + 1, hashes)
  BY DEF UpToDate
<1>6. Newest(q, newhashes, n + 2, hashes')
  BY <1>1, <1>5, NewestNext
<1> HIDE DEF p, q, n
<1>7. ASSUME NEW i \in 1..(n+1), NEW t \in Tasks, Starts(q[i], t)
      PROVE  /\ sent'[t] # None /\ child'[t].at = "none"
             /\ Newest(q, newhashes, i, sent'[t])
             /\ \A j \in DOMAIN q : Starts(q[j], t) => j = i
  <2>1. CASE i \in 1..n
    <3>1. Awaits(p, newhashes, i, t)
      BY <1>2, <1>4, <1>7, <2>1
    <3>2. sent[t] # None /\ ~ Starts(c, t) /\ sent'[t] = sent[t] /\ child'[t].at = "none"
      BY <3>1 DEF Awaits
    <3>3. Newest(q, newhashes, i, sent'[t])
      BY <1>3, <2>1, <3>1, <3>2 DEF Awaits
    <3>4. ASSUME NEW j \in 1..(n+1), Starts(q[j], t) PROVE j = i
      BY <1>1, <1>2, <2>1, <3>1, <3>2, <3>4 DEF Awaits
    <3> QED
      BY <1>1, <3>2, <3>3, <3>4
  <2>2. CASE i = n + 1
    <3>1. Starts(c, t) /\ sent[t] = None /\ sent'[t] = hashes
      BY <1>2, <1>7, <2>2
    <3>2. child'[t].at = "none"
      BY <3>1 DEF AsSent
    <3>3. Newest(q, newhashes, i, sent'[t])
      BY <1>1, <1>3, <1>5, <2>2, <3>1
    <3>4. ASSUME NEW j \in 1..n, Starts(q[j], t) PROVE FALSE
      <4>1. Awaits(p, newhashes, j, t)
        BY <1>2, <1>4, <3>4
      <4> QED
        BY <4>1, <3>1 DEF Awaits
    <3>5. sent'[t] # None
      BY <3>1, WorkerAssumption DEF TypeOK
    <3> QED
      BY <1>1, <2>2, <3>2, <3>3, <3>4, <3>5
  <2> QED
    BY <1>1, <2>1, <2>2
<1>8. InOrder'
  BY <1>1, <1>7 DEF InOrder, Awaits, p, q
<1>9. UpToDate'
  BY <1>1, <1>6 DEF UpToDate, p, q
<1> QED
  BY <1>8, <1>9

(* Nothing changes, or the run queue stops and its last command is one of  *)
(* no task or is lost.                                                     *)
LEMMA StoppedInOrder ==
  ASSUME TypeOK, InOrder, pc # "gone", pc' # "gone", newhashes' = newhashes, sent' = sent,
         \A t \in Tasks : child[t].at = "none" => child'[t].at = "none",
         \/ Pending' = Pending
         \/ \E c \in Commands : Pending' = Append(Pending, c) /\ c.kind # "runtask"
         \/ Pending' \in Seq(Commands) /\ \E c \in Commands : Pending = Append(Pending', c)
  PROVE  InOrder'
<1> DEFINE p == Pending
<1>0. PICK q : q = Pending'
  OBVIOUS
<1>1. p \in Seq(Commands) /\ DOMAIN p = 1..Len(p) /\ Len(p) \in Nat
  BY PendingType, LenProperties
<1>2. \A i \in DOMAIN p : \A t \in Tasks : Starts(p[i], t) => Awaits(p, newhashes, i, t)
  BY DEF InOrder
<1> HIDE DEF p
<1>3. ASSUME NEW i \in DOMAIN q, NEW t \in Tasks, Starts(q[i], t)
      PROVE  /\ sent[t] # None /\ child'[t].at = "none"
             /\ Newest(q, newhashes, i, sent[t])
             /\ \A j \in DOMAIN q : Starts(q[j], t) => j = i
  <2>1. CASE q = p
    BY <1>2, <1>3, <2>1 DEF Awaits
  <2>2. ASSUME NEW c \in Commands, q = Append(p, c), c.kind # "runtask"
        PROVE  /\ sent[t] # None /\ child'[t].at = "none"
               /\ Newest(q, newhashes, i, sent[t])
               /\ \A j \in DOMAIN q : Starts(q[j], t) => j = i
    <3>1. /\ DOMAIN q = 1..(Len(p)+1)
          /\ \A j \in 1..Len(p) : q[j] = p[j] 
          /\ q[Len(p)+1] = c
      <4>1. q \in Seq(Commands) /\ Len(q) = Len(p) + 1
        BY <1>1, <2>2, AppendProperties
      <4> QED
        BY <1>1, <2>2, <4>1, AppendProperties, LenProperties
    <3>2. \A j \in DOMAIN q : Starts(q[j], t) => j \in DOMAIN p /\ Starts(p[j], t)
      BY <1>1, <2>2, <3>1 DEF Starts
    <3>3. i \in 1..Len(p) /\ Awaits(p, newhashes, i, t)
      BY <1>1, <1>2, <1>3, <3>2
    <3>4. Newest(q, newhashes, i, sent[t])
      BY <1>1, <2>2, <3>3, NewestAppend DEF Awaits
    <3> QED
      BY <3>2, <3>3, <3>4 DEF Awaits
  <2>3. ASSUME NEW c \in Commands, q \in Seq(Commands), p = Append(q, c)
        PROVE  /\ sent[t] # None /\ child'[t].at = "none"
               /\ Newest(q, newhashes, i, sent[t])
               /\ \A j \in DOMAIN q : Starts(q[j], t) => j = i
    <3>1. /\ DOMAIN q = 1..Len(q) /\ Len(q) \in Nat /\ DOMAIN p = 1..(Len(q)+1)
          /\ \A j \in 1..Len(q) : q[j] = p[j]
      BY <2>3, AppendProperties, LenProperties
    <3>2. \A j \in DOMAIN q : Starts(q[j], t) => j \in DOMAIN p /\ Starts(p[j], t)
      BY <3>1
    <3>3. i \in 1..Len(q) /\ Awaits(p, newhashes, i, t)
      BY <1>2, <1>3, <3>1, <3>2
    <3>4. Newest(q, newhashes, i, sent[t])
      BY <2>3, <3>1, <3>3, NewestAppend DEF Awaits
    <3> QED
      BY <3>2, <3>3, <3>4 DEF Awaits
  <2> QED
    BY <1>0, <2>1, <2>2, <2>3 DEF p
<1> QED
  BY <1>0, <1>3 DEF InOrder, Awaits

(* The worker handles the first command. *)
LEMMA HandledInOrder ==
  ASSUME TypeOK, InOrder, UpToDate, pc # "gone", pc' # "gone", Exited, [Next]_vars, HandleStep
  PROVE  InOrder' /\ UpToDate'
<1> DEFINE p == Pending
           q == Tail(p)
           n == Len(p)
<1>1. PICK kind : Handle(kind)
  BY DEF HandleStep, HandleNewTaskHashes, HandleRunTask, HandleFinishNow, HandleQuit
<1>2. /\ p # << >> /\ p[1] = Head(queue) /\ Pending' = q
      /\ UNCHANGED <<rq, hashes, sent>>
  BY <1>1, Handled
<1>3. newhashes' = IF p[1].kind = "newtaskhashes" THEN p[1].version ELSE newhashes
  BY <1>2 DEF HandleStep, HandleNewTaskHashes, HandleRunTask, HandleFinishNow, HandleQuit, Handle
<1>4. p \in Seq(Commands) /\ n \in Nat \ {0} /\ DOMAIN p = 1..n /\ DOMAIN q = 1..(n-1) /\ Len(q) = n - 1
  BY <1>2, PendingType, LenProperties, HeadTailProperties, EmptySeq
<1>5. \A j \in 1..(n-1) : q[j] = p[j+1]
  BY <1>2, <1>4, HeadTailProperties
<1>6. \A i \in 2..(n+1) : \A v : Newest(p, newhashes, i, v) => Newest(q, newhashes', i - 1, v)
  BY <1>2, <1>3, <1>4, NewestTail
<1>7. \A i \in 1..n : \A t \in Tasks : Starts(p[i], t) => Awaits(p, newhashes, i, t)
  BY <1>4 DEF InOrder
<1>8. rq' = "running" => Newest(p, newhashes, n + 1, hashes)
  BY <1>2 DEF UpToDate
<1>9. \A kk : Handle(kk) => Head(queue) = p[1]
  BY <1>2
<1> HIDE DEF p, q, n
<1>10. ASSUME NEW i \in 1..(n-1), NEW t \in Tasks, Starts(q[i], t)
       PROVE  /\ sent'[t] # None /\ child'[t].at = "none"
              /\ Newest(q, newhashes', i, sent'[t])
              /\ \A j \in DOMAIN q : Starts(q[j], t) => j = i
  <2>1. i + 1 \in 2..n /\ i + 1 \in 1..n /\ q[i] = p[i+1] /\ i + 1 - 1 = i
    BY <1>4, <1>5
  <2>2. Awaits(p, newhashes, i + 1, t)
    BY <1>7, <1>10, <2>1
  <2>3. ~ Starts(p[1], t)
    BY <1>4, <2>1, <2>2 DEF Awaits
  <2>4. child'[t].at = "none"
    BY <1>9, <2>2, <2>3, NotForked DEF Awaits
  <2>5. Newest(q, newhashes', i, sent'[t])
    BY <1>2, <1>4, <1>6, <2>1, <2>2 DEF Awaits
  <2>6. ASSUME NEW j \in 1..(n-1), Starts(q[j], t) PROVE j = i
    <3>1. j + 1 \in 1..n /\ Starts(p[j+1], t)
      BY <1>4, <1>5, <2>6
    <3>2. j + 1 = i + 1
      BY <1>4, <2>2, <3>1 DEF Awaits
    <3> QED
      BY <3>2
  <2> QED
    BY <1>2, <1>4, <2>2, <2>4, <2>5, <2>6 DEF Awaits
<1>11. InOrder'
  BY <1>2, <1>4, <1>10 DEF InOrder, Awaits
<1>12. UpToDate'
  <2>1. rq' = "running" => Newest(q, newhashes', n + 1 - 1, hashes)
    BY <1>4, <1>6, <1>8
  <2>2. n + 1 - 1 = Len(q) + 1
    BY <1>4
  <2> QED
    BY <1>2, <2>1, <2>2 DEF UpToDate
<1> QED
  BY <1>11, <1>12
(* What other steps than those of handlers do to the commands under way, a *)
(* worker that has not ended being there to read them                      *)
LEMMA OtherPending ==
  ASSUME TypeOK, pc # "gone",
         \/ Written \/ Read \/ Close \/ Flush \/ UNCHANGED vars
         \/ Select \/ SelectEOF \/ Misread \/ EndRound \/ Signalled \/ Finished \/ Join
         \/ \E t \in Tasks : \/ ReadPipe(t) \/ ProcessWaitpid(t) \/ Kill(t) \/ Wait(t) \/ Drain(t)
                             \/ Bind(t) \/ Lead(t) \/ Fire(t) \/ End(t) \/ Terminate(t)
  PROVE  /\ Pending' = Pending
         /\ UNCHANGED <<newhashes, sent, hashes>>
         /\ rq' = "running" => rq = "running"
         /\ queue' = queue \/ pc # "items"
<1>1. CASE Written
  BY <1>1, WrittenPending DEF Written, worker
<1>2. CASE Select
  BY <1>2, SelectPending DEF Select, server
<1>3. CASE \/ Read \/ Close \/ Flush \/ UNCHANGED vars
           \/ SelectEOF \/ Misread \/ EndRound \/ Signalled \/ Finished \/ Join
           \/ \E t \in Tasks : \/ ReadPipe(t) \/ ProcessWaitpid(t) \/ Kill(t) \/ Wait(t) \/ Drain(t)
                               \/ Bind(t) \/ Lead(t) \/ Fire(t) \/ End(t) \/ Terminate(t)
  <2>1. UNCHANGED <<queue, stdin, writing, newhashes, sent, hashes>> /\ (rq' = "running" => rq = "running")
    BY <1>3 DEF Read, Close, Flush, vars, SelectEOF, Misread, EndRound, Signalled, Finished, Join, ReadPipe,
                ProcessWaitpid, Kill, Wait, Drain, Bind, Lead, Becomes, Fire, End, Terminate, Exit, server, worker
  <2> QED
    BY <2>1 DEF Pending, Last
<1> QED
  BY <1>1, <1>2, <1>3

(* A worker that has ended does not come back. *)
LEMMA GoneStays == ASSUME [Next]_vars, pc = "gone" PROVE pc' = "gone"
BY DEF Next, WorkerStep, RunTask, NewTaskHashes, FinishNow, Teardown, Write, Written, Read, Close, Die, Select, SelectEOF,
       HandleNewTaskHashes, HandleRunTask, HandleFinishNow, HandleQuit, Handle, Misread, EndRound, Signalled, Finished,
       Join, ReadPipe, ProcessWaitpid, Kill, Wait, Drain, Flush, Bind, Lead, Becomes, Fire, End, Terminate, Exit,
       worker, vars

(* Commands are kept in order by every step. *)
LEMMA OrderStep ==
  ASSUME TypeOK, Exited, InOrder, UpToDate, AsSent, [Next]_vars PROVE InOrder' /\ UpToDate'
<1>1. CASE pc' = "gone"
  BY <1>1 DEF InOrder, UpToDate
<1>2. CASE pc' # "gone"
  <2>1. pc # "gone"
    BY <1>2, GoneStays
  <2>s. ASSUME queue' = queue \/ pc # "items" PROVE \A t \in Tasks : child[t].at = "none" => child'[t].at = "none"
    BY <2>s, HandlesNothing, NotForked
  <2>2. CASE HandleStep
    BY <1>2, <2>1, <2>2, HandledInOrder
  <2>3. ASSUME NEW t \in Tasks, RunTask(t) PROVE InOrder' /\ UpToDate'
    <3> DEFINE c == [kind |-> "runtask", task |-> t]
    <3>1. c \in Commands /\ c.kind = "runtask" /\ \A u \in Tasks : Starts(c, u) <=> u = t
      BY DEF Commands, Starts
    <3>2. Pending' = Append(Pending, c) /\ newhashes' = newhashes
      BY <2>3, <3>1, WritePending DEF RunTask
    <3>3. /\ rq = "running" /\ hashes' = hashes /\ queue' = queue
          /\ sent[t] = None /\ sent'[t] = hashes /\ \A u \in Tasks \ {t} : sent'[u] = sent[u]
      BY <2>3 DEF RunTask, Write, worker, TypeOK
    <3> HIDE DEF c
    <3> QED
      BY <1>2, <2>1, <2>s, <3>1, <3>2, <3>3, SentInOrder
  <2>4. CASE NewTaskHashes
    <3> DEFINE c == [kind |-> "newtaskhashes", version |-> hashes + 1]
    <3>0. hashes + 1 \in 1..MaxHashes
      BY <2>4, WorkerAssumption DEF NewTaskHashes, TypeOK
    <3>1. c \in Commands /\ c.kind = "newtaskhashes" /\ c.version = hashes + 1 /\ \A u \in Tasks : ~ Starts(c, u)
      BY <3>0 DEF Commands, Starts
    <3>2. Pending' = Append(Pending, c) /\ newhashes' = newhashes
      BY <2>4, <3>1, WritePending DEF NewTaskHashes
    <3>3. rq = "running" /\ hashes' = hashes + 1 /\ queue' = queue /\ sent' = sent
      BY <2>4 DEF NewTaskHashes, Write, worker
    <3> HIDE DEF c
    <3> QED
      BY <1>2, <2>1, <2>s, <3>1, <3>2, <3>3, SentInOrder
  <2>5. CASE FinishNow \/ Teardown
    <3>1. PICK c \in {[kind |-> "finishnow"], [kind |-> "quit"]} : Write(c)
      BY <2>5 DEF FinishNow, Teardown
    <3>2. c \in Commands /\ c.kind # "runtask"
      BY <3>1 DEF Commands
    <3>3. Pending' = Append(Pending, c) /\ newhashes' = newhashes
      BY <3>1, <3>2, WritePending
    <3>4. rq' # "running" /\ sent' = sent /\ queue' = queue
      BY <2>5 DEF FinishNow, Teardown, Write, worker
    <3>5. InOrder'
      BY <1>2, <2>1, <2>s, <3>2, <3>3, <3>4, StoppedInOrder
    <3> QED
      BY <3>4, <3>5 DEF UpToDate
  <2>6. CASE Die
    <3>1. /\ rq' # "running" /\ sent' = sent /\ queue' = queue /\ stdin' = stdin /\ newhashes' = newhashes
          /\ writing' = None
      BY <2>6 DEF Die, worker
    <3>2. queue \o stdin \in Seq(Commands)
      BY PendingType
    <3>3. Pending' = queue \o stdin
      BY <3>1, <3>2, ConcatEmptySeq DEF Pending, Last
    <3>4. CASE writing = None
      <4>1. Pending' = Pending
        BY <3>2, <3>3, <3>4, ConcatEmptySeq DEF Pending, Last
      <4>2. InOrder'
        BY <1>2, <2>1, <2>s, <3>1, <4>1, StoppedInOrder
      <4> QED
        BY <3>1, <4>2 DEF UpToDate
    <3>5. CASE writing # None
      <4>1. writing \in Commands
        BY <3>5 DEF TypeOK
      <4>2. Pending = Append(queue \o stdin, writing)
        BY <3>2, <3>5, <4>1, AppendIsConcat DEF Pending, Last
      <4>3. InOrder'
        BY <1>2, <2>1, <2>s, <3>1, <3>2, <3>3, <4>1, <4>2, StoppedInOrder
      <4> QED
        BY <3>1, <4>3 DEF UpToDate
    <3> QED
      BY <3>4, <3>5
  <2>7. ASSUME Pending' = Pending, UNCHANGED <<newhashes, sent, hashes>>, rq' = "running" => rq = "running",
               queue' = queue \/ pc # "items"
        PROVE  InOrder' /\ UpToDate'
    <3>1. InOrder'
      BY <1>2, <2>1, <2>s, <2>7, StoppedInOrder
    <3>2. UpToDate'
      BY <2>1, <2>7 DEF UpToDate
    <3> QED
      BY <3>1, <3>2
  <2> QED
    BY <2>1, <2>2, <2>3, <2>4, <2>5, <2>6, <2>7, OtherPending DEF Next, WorkerStep, HandleStep
<1> QED
  BY <1>1, <1>2

(* A task is sent once. *)
LEMMA SentOnce == ASSUME TypeOK, [Next]_vars, NEW t \in Tasks, sent[t] # None PROVE sent'[t] = sent[t]
BY DEF Next, WorkerStep, RunTask, NewTaskHashes, FinishNow, Teardown, Write, Written, Read, Close, Die, Select, SelectEOF,
       HandleNewTaskHashes, HandleRunTask, HandleFinishNow, HandleQuit, Handle, Misread, EndRound, Signalled, Finished,
       Join, ReadPipe, ProcessWaitpid, Kill, Wait, Drain, Flush, Bind, Lead, Becomes, Fire, End, Terminate, Exit,
       server, vars, TypeOK

(* Processes keep the hashes their tasks were sent with. *)
LEMMA AsSentStep ==
  ASSUME TypeOK, Exited, InOrder, AsSent, [Next]_vars PROVE AsSent'
<1> SUFFICES ASSUME NEW t \in Tasks, child'[t].at # "none" PROVE child'[t].hashes = sent'[t] /\ sent'[t] # None
  BY DEF AsSent
<1>1. CASE child'[t] = child[t]
  BY <1>1, SentOnce DEF AsSent
<1>2. CASE child[t].at # "none" /\ child'[t].hashes = child[t].hashes
  BY <1>2, SentOnce DEF AsSent
<1>3. CASE Handle("runtask") /\ Head(queue).task = t /\ child'[t] = [at |-> "forked", exit |-> None, hashes |-> newhashes]
  <2>1. pc = "items" /\ Head(queue).kind = "runtask"
    BY <1>3 DEF Handle
  <2>2. Pending # << >> /\ Pending[1] = Head(queue) /\ Pending \in Seq(Commands)
    BY <1>3, Handled, PendingType
  <2>3. 1 \in DOMAIN Pending
    BY <2>2, EmptySeq, LenProperties
  <2>4. Awaits(Pending, newhashes, 1, t)
    BY <1>3, <2>1, <2>2, <2>3 DEF InOrder, Starts
  <2>5. sent[t] = newhashes /\ sent[t] # None
    BY <2>4 DEF Awaits, Newest
  <2> QED
    BY <1>3, <2>5, SentOnce
<1> QED
  BY <1>1, <1>2, <1>3, ChildStep DEF Moves
(***************************************************************************)
(* Events and exit codes                                                   *)
(***************************************************************************)

(* All messages that the run queue has not read, in order *)
Unread == stdout \o worker_queue

(* The process of a task is reaped and nothing is left in its pipe. *)
Over(t, code) == child[t].at = "reaped" /\ child[t].exit = code /\ pipe[t] = 0

NoneOf(q, t) == \A i \in DOMAIN q : q[i][1] # t

(* An exit code under way is the last message of its task, and true. *)
ExitsIn(q) ==
  \A i \in DOMAIN q : q[i][2] # "event" =>
    /\ Over(q[i][1], q[i][2])
    /\ \A j \in DOMAIN q : q[j][1] = q[i][1] => j <= i

(* So is one that the run queue has read. *)
GotBefore(q) == \A t \in Tasks : got[t].exit # None => Over(t, got[t].exit) /\ NoneOf(q, t)

ExitsLast == ExitsIn(Unread) /\ GotBefore(Unread)

EventsIn(q, t) == {i \in DOMAIN q : q[i] = <<t, "event">>}

(* Every event of a task is in its pipe, under way, or was read. *)
Counted == \A t \in Tasks : got[t].events + Cardinality(EventsIn(Unread, t)) + pipe[t] = fired[t]

(* Messages under way are messages. *)
LEMMA UnreadType ==
  ASSUME TypeOK
  PROVE  /\ Unread \in Seq(Messages) /\ Len(Unread) \in Nat /\ DOMAIN Unread = 1..Len(Unread)
         /\ \A i \in DOMAIN Unread : Unread[i] \in Messages
<1>1. Unread \in Seq(Messages)
  BY ConcatProperties DEF TypeOK, Unread
<1> QED
  BY <1>1, LenProperties, ElementOfSeq

(* What there is of events in a sequence is finite. *)
LEMMA EventsFinite ==
  ASSUME NEW q \in Seq(Messages), NEW t
  PROVE  IsFiniteSet(EventsIn(q, t)) /\ Cardinality(EventsIn(q, t)) \in Nat
<1>1. Len(q) \in Nat /\ DOMAIN q = 1..Len(q)
  BY LenProperties
<1>2. IsFiniteSet(1..Len(q)) /\ EventsIn(q, t) \in SUBSET (1..Len(q))
  BY <1>1, FS_Interval DEF EventsIn
<1> QED
  BY <1>2, FS_Subset, FS_CardinalityType

(* One more message *)
LEMMA CountAppend ==
  ASSUME NEW q \in Seq(Messages), NEW m \in Messages, NEW t
  PROVE  Cardinality(EventsIn(Append(q, m), t))
           = Cardinality(EventsIn(q, t)) + (IF m = <<t, "event">> THEN 1 ELSE 0)
<1> DEFINE n == Len(q)
           r == Append(q, m)
<1>1. n \in Nat /\ DOMAIN q = 1..n /\ r \in Seq(Messages) /\ Len(r) = n + 1
  BY LenProperties, AppendProperties
<1>2. DOMAIN r = 1..(n+1) /\ (\A i \in 1..n : r[i] = q[i]) /\ r[n+1] = m
  BY <1>1, LenProperties, AppendProperties
<1>6. IsFiniteSet(EventsIn(q, t)) /\ Cardinality(EventsIn(q, t)) \in Nat
  BY EventsFinite
<1> HIDE DEF n, r
<1>7. n + 1 \notin EventsIn(q, t)
  BY <1>1 DEF EventsIn
<1>3. IsFiniteSet(EventsIn(q, t)) /\ n + 1 \notin EventsIn(q, t) /\ Cardinality(EventsIn(q, t)) \in Nat
  BY <1>6, <1>7
<1>4. CASE m = <<t, "event">>
  <2>1. EventsIn(r, t) = EventsIn(q, t) \cup {n + 1}
    BY <1>1, <1>2, <1>4 DEF EventsIn
  <2> QED
    BY <1>3, <1>4, <2>1, FS_AddElement DEF r
<1>5. CASE m # <<t, "event">>
  <2>1. \A i \in 1..(n+1) : i \in EventsIn(r, t) <=> i \in EventsIn(q, t)
    <3>1. n + 1 \notin EventsIn(r, t)
      BY <1>2, <1>5 DEF EventsIn
    <3>2. \A i \in 1..n : i \in EventsIn(r, t) <=> i \in EventsIn(q, t)
      BY <1>1, <1>2 DEF EventsIn
    <3> QED
      BY <1>1, <1>7, <3>1, <3>2
  <2>2. EventsIn(r, t) \subseteq 1..(n+1) /\ EventsIn(q, t) \subseteq 1..(n+1)
    BY <1>1, <1>2 DEF EventsIn
  <2>3. EventsIn(r, t) = EventsIn(q, t)
    BY <2>1, <2>2
  <2> QED
    BY <1>3, <1>5, <2>3 DEF r
<1> QED
  BY <1>4, <1>5

(* One message less *)
LEMMA CountTail ==
  ASSUME NEW q \in Seq(Messages), q # << >>, NEW t
  PROVE  Cardinality(EventsIn(Tail(q), t))
           = Cardinality(EventsIn(q, t)) - (IF q[1] = <<t, "event">> THEN 1 ELSE 0)
<1> DEFINE n == Len(q)
           r == Tail(q)
           R == EventsIn(q, t) \ {1}
           f == [i \in R |-> i - 1]
<1>1. n \in Nat \ {0} /\ DOMAIN q = 1..n /\ r \in Seq(Messages) /\ Len(r) = n - 1
  BY LenProperties, HeadTailProperties, EmptySeq
<1>2. DOMAIN r = 1..(n-1) /\ (\A i \in 1..(n-1) : r[i] = q[i+1])
  BY <1>1, LenProperties, HeadTailProperties
<1> HIDE DEF n, r
<1>3. IsFiniteSet(EventsIn(q, t)) /\ Cardinality(EventsIn(q, t)) \in Nat
  BY EventsFinite
<1>4. IsFiniteSet(R) /\ Cardinality(R) = Cardinality(EventsIn(q, t)) - (IF q[1] = <<t, "event">> THEN 1 ELSE 0)
  <2>1. 1 \in EventsIn(q, t) <=> q[1] = <<t, "event">>
    BY <1>1 DEF EventsIn
  <2> QED
    BY <1>3, <2>1, FS_RemoveElement
<1>5. f \in Bijection(R, EventsIn(r, t))
  <2>1. R \subseteq 2..n /\ \A i \in 2..n : i \in R <=> q[i] = <<t, "event">>
    BY <1>1 DEF EventsIn
  <2>2. EventsIn(r, t) \subseteq 1..(n-1) /\ \A i \in 1..(n-1) : i \in EventsIn(r, t) <=> q[i+1] = <<t, "event">>
    BY <1>2 DEF EventsIn
  <2>3. \A i \in 2..n : i - 1 \in 1..(n-1) /\ i - 1 + 1 = i
    BY <1>1
  <2>4. \A i \in R : i - 1 \in EventsIn(r, t)
    BY <2>1, <2>2, <2>3
  <2>5. ASSUME NEW j \in EventsIn(r, t) PROVE j + 1 \in R /\ j + 1 - 1 = j
    <3>1. j \in 1..(n-1) /\ j + 1 \in 2..n
      BY <1>1, <2>2
    <3> QED
      BY <2>1, <2>2, <3>1
  <2>6. \A i, j \in R : i - 1 = j - 1 => i = j
    BY <1>1, <2>1
  <2> DEFINE E == EventsIn(r, t)
  <2>7. /\ \A i \in R : i - 1 \in E
        /\ \A j \in E : j \in Int /\ j + 1 \in R
    BY <2>2, <2>4, <2>5
  <2> HIDE DEF R, E
  <2>8. f \in [R -> E]
    BY <2>7
  <2>9. \A i, j \in R : f[i] = f[j] => i = j
    BY <2>6
  <2>10. ASSUME NEW j \in E PROVE \E i \in R : f[i] = j
    <3>1. PICK i \in R : i = j + 1
      BY <2>7
    <3>2. f[i] = i - 1
      OBVIOUS
    <3>3. f[i] = j
      BY <2>7, <3>1, <3>2
    <3> QED
      BY <3>3
  <2>11. DOMAIN f = R
    OBVIOUS
  <2> HIDE DEF f
  <2>12. f \in Bijection(R, E)
    BY <2>8, <2>9, <2>10, <2>11 DEF Bijection, Injection, Surjection, IsInjective
  <2> QED
    BY <2>12 DEF E
<1>6. Cardinality(EventsIn(r, t)) = Cardinality(R)
  BY <1>4, <1>5, FS_Bijection DEF ExistsBijection
<1> QED
  BY <1>4, <1>6 DEF r

(* The messages read from the pipe of a task *)
LEMMA WithEvents ==
  ASSUME TypeOK, NEW t \in Tasks
  PROVE  /\ Unread \o Events(t) \in Seq(Messages) /\ Len(Unread \o Events(t)) = Len(Unread) + pipe[t]
         /\ DOMAIN (Unread \o Events(t)) = 1..(Len(Unread) + pipe[t])
         /\ \A i \in 1..Len(Unread) : (Unread \o Events(t))[i] = Unread[i]
         /\ \A i \in (Len(Unread)+1)..(Len(Unread) + pipe[t]) : (Unread \o Events(t))[i] = <<t, "event">>
<1> DEFINE q == Unread \o Events(t)
           n == Len(Unread)
<1>1. pipe[t] \in Nat /\ Unread \in Seq(Messages) /\ n \in Nat
  BY UnreadType DEF TypeOK
<1>2. Events(t) \in Seq(Messages) /\ Len(Events(t)) = pipe[t] /\ \A i \in 1..pipe[t] : Events(t)[i] = <<t, "event">>
  BY EventsType
<1>3. /\ q \in Seq(Messages) /\ Len(q) = n + pipe[t]
      /\ \A i \in 1..(n + pipe[t]) : q[i] = IF i <= n THEN Unread[i] ELSE Events(t)[i - n]
  BY <1>1, <1>2, ConcatProperties
<1>4. DOMAIN q = 1..(n + pipe[t])
  BY <1>3, LenProperties
<1> HIDE DEF q, n
<1>5. ASSUME NEW i \in 1..n PROVE q[i] = Unread[i]
  <2>1. i \in 1..(n + pipe[t]) /\ i <= n
    BY <1>1
  <2> QED
    BY <1>3, <2>1
<1>6. ASSUME NEW i \in (n+1)..(n + pipe[t]) PROVE q[i] = <<t, "event">>
  <2>1. i \in 1..(n + pipe[t]) /\ ~ (i <= n) /\ i - n \in 1..pipe[t]
    BY <1>1
  <2> QED
    BY <1>2, <1>3, <2>1
<1> QED
  BY <1>3, <1>4, <1>5, <1>6 DEF q, n

(* The size of an interval *)
LEMMA IntervalSize ==
  ASSUME NEW n \in Nat, NEW k \in Nat
  PROVE  IsFiniteSet((n+1)..(n+k)) /\ Cardinality((n+1)..(n+k)) = k
<1>1. PICK a \in Int : a = n + 1
  OBVIOUS
<1>2. PICK b \in Int : b = n + k
  OBVIOUS
<1>3. IsFiniteSet(a..b) /\ Cardinality(a..b) = IF a > b THEN 0 ELSE b - a + 1
  BY FS_Interval
<1>4. (IF a > b THEN 0 ELSE b - a + 1) = k
  BY <1>1, <1>2
<1> QED
  BY <1>1, <1>2, <1>3, <1>4

(* Reading the pipe of a task moves its events. *)
LEMMA CountEvents ==
  ASSUME TypeOK, NEW u \in Tasks, NEW t
  PROVE  Cardinality(EventsIn(Unread \o Events(u), t))
           = Cardinality(EventsIn(Unread, t)) + (IF t = u THEN pipe[u] ELSE 0)
<1> DEFINE q == Unread \o Events(u)
           n == Len(Unread)
           new == (n+1)..(n + pipe[u])
<1>1. /\ DOMAIN q = 1..(n + pipe[u])
      /\ \A i \in 1..n : q[i] = Unread[i]
      /\ \A i \in (n+1)..(n + pipe[u]) : q[i] = <<u, "event">>
  BY WithEvents
<1>2. n \in Nat /\ DOMAIN Unread = 1..n /\ pipe[u] \in Nat /\ Unread \in Seq(Messages)
  BY UnreadType DEF TypeOK
<1>3. IsFiniteSet(EventsIn(Unread, t)) /\ Cardinality(EventsIn(Unread, t)) \in Nat
  BY <1>2, EventsFinite
<1> HIDE DEF q, n
<1>4. CASE t = u
  <2>1. EventsIn(q, t) = EventsIn(Unread, t) \cup new
    BY <1>1, <1>2, <1>4 DEF EventsIn
  <2>2. EventsIn(Unread, t) \cap new = {}
    BY <1>2 DEF EventsIn
  <2>3. IsFiniteSet(new) /\ Cardinality(new) = pipe[u]
    BY <1>2, IntervalSize
  <2>4. Cardinality(EventsIn(q, t)) = Cardinality(EventsIn(Unread, t)) + pipe[u] - Cardinality(EventsIn(Unread, t) \cap new)
    BY <1>3, <2>1, <2>3, FS_Union
  <2>5. Cardinality(EventsIn(Unread, t) \cap new) = 0
    BY <2>2, FS_EmptySet
  <2> QED
    BY <1>2, <1>3, <1>4, <2>4, <2>5 DEF q
<1>5. CASE t # u
  <2>1. EventsIn(q, t) = EventsIn(Unread, t)
    BY <1>1, <1>2, <1>5 DEF EventsIn
  <2> QED
    BY <1>3, <1>5, <2>1 DEF q
<1> QED
  BY <1>4, <1>5
(* What is over stays so: only a task that was never forked is handled. *)
OverStays == \A t \in Tasks : child[t].at = "reaped" /\ pipe[t] = 0 => child'[t] = child[t] /\ pipe'[t] = 0

LEMMA Stays == ASSUME TypeOK, Exited, InOrder, [Next]_vars PROVE OverStays
<1> SUFFICES ASSUME NEW t \in Tasks, child[t].at = "reaped", pipe[t] = 0 PROVE child'[t] = child[t] /\ pipe'[t] = 0
  BY DEF OverStays
<1>1. ~ (Handle("runtask") /\ Head(queue).task = t)
  <2> SUFFICES ASSUME Handle("runtask"), Head(queue).task = t PROVE FALSE
    OBVIOUS
  <2>1. pc = "items" /\ Head(queue).kind = "runtask"
    BY DEF Handle
  <2>2. Pending # << >> /\ Pending[1] = Head(queue) /\ Pending \in Seq(Commands)
    BY Handled, PendingType
  <2>3. 1 \in DOMAIN Pending
    BY <2>2, EmptySeq, LenProperties
  <2>4. Awaits(Pending, newhashes, 1, t)
    BY <2>1, <2>2, <2>3 DEF InOrder, Starts
  <2> QED
    BY <2>4 DEF Awaits
<1>2. child'[t] = child[t]
  BY <1>1, ChildStep DEF Moves
<1>3. pipe'[t] = 0
  <2>1. pipe \in [Tasks -> Nat]
    BY DEF TypeOK
  <2>2. ASSUME NEW u \in Tasks, Fire(u) PROVE pipe'[t] = 0
    BY <2>1, <2>2 DEF Fire
  <2>3. ASSUME NEW u \in Tasks, ReadPipe(u) \/ ProcessWaitpid(u) \/ Drain(u) PROVE pipe'[t] = 0
    BY <2>1, <2>3 DEF ReadPipe, ProcessWaitpid, Drain
  <2>4. CASE pipe' = pipe
    BY <2>4
  <2>5. \/ pipe' = pipe
        \/ \E u \in Tasks : Fire(u) \/ ReadPipe(u) \/ ProcessWaitpid(u) \/ Drain(u)
    BY DEF Next, WorkerStep, RunTask, NewTaskHashes, FinishNow, Teardown, Write, Written, Read, Close, Die, Select,
           SelectEOF, HandleNewTaskHashes, HandleRunTask, HandleFinishNow, HandleQuit, Misread, EndRound, Signalled,
           Finished, Join, Kill, Wait, Flush, Bind, Lead, Becomes, End, Terminate, Exit, task, vars
  <2> QED
    BY <2>2, <2>3, <2>4, <2>5
<1> QED
  BY <1>2, <1>3

(* Exit codes stay last as long as no other messages come. *)
LEMMA LastStays ==
  ASSUME OverStays, NEW q \in Seq(Messages), ExitsIn(q), GotBefore(q), Unread' = q, got' = got
  PROVE  ExitsLast'
<1>1. \A i \in DOMAIN q : q[i] \in Messages /\ q[i][1] \in Tasks
  BY ElementOfSeq, LenProperties DEF Messages
<1>2. ExitsIn(Unread)'
  BY <1>1 DEF ExitsIn, Over, OverStays
<1>3. GotBefore(Unread)'
  BY DEF GotBefore, Over, NoneOf, OverStays
<1> QED
  BY <1>2, <1>3 DEF ExitsLast

(* What is read from the pipe of a task is not over: no exit code precedes *)
(* it.                                                                     *)
LEMMA ReadLast ==
  ASSUME TypeOK, ExitsLast, NEW t \in Tasks
  PROVE  ExitsIn(Unread \o Events(t)) /\ GotBefore(Unread \o Events(t))
<1> DEFINE q == Unread \o Events(t)
           n == Len(Unread)
<1>1. /\ DOMAIN q = 1..(n + pipe[t])
      /\ \A i \in 1..n : q[i] = Unread[i]
      /\ \A i \in (n+1)..(n + pipe[t]) : q[i] = <<t, "event">>
  BY WithEvents
<1>2. n \in Nat /\ DOMAIN Unread = 1..n /\ pipe[t] \in Nat
  BY UnreadType DEF TypeOK
<1> HIDE DEF q, n
<1>3. \A i \in DOMAIN q : i \in 1..n \/ i \in (n+1)..(n + pipe[t])
  BY <1>1, <1>2
<1>4. pipe[t] = 0 => DOMAIN q = 1..n
  BY <1>1, <1>2
<1>5. ExitsIn(q)
  <2> SUFFICES ASSUME NEW i \in DOMAIN q, q[i][2] # "event"
               PROVE  Over(q[i][1], q[i][2]) /\ \A j \in DOMAIN q : q[j][1] = q[i][1] => j <= i
    BY DEF ExitsIn
  <2>1. i \in 1..n /\ q[i] = Unread[i]
    BY <1>1, <1>3
  <2>2. Over(q[i][1], q[i][2]) /\ \A j \in 1..n : Unread[j][1] = Unread[i][1] => j <= i
    BY <1>2, <2>1 DEF ExitsLast, ExitsIn
  <2>3. ASSUME NEW j \in DOMAIN q, q[j][1] = q[i][1] PROVE j \in 1..n
    <3>1. CASE q[i][1] = t
      BY <1>4, <2>2, <3>1 DEF Over
    <3>2. CASE q[i][1] # t
      BY <1>1, <1>3, <2>3, <3>2
    <3> QED
      BY <3>1, <3>2
  <2> QED
    BY <1>1, <2>1, <2>2, <2>3
<1>6. GotBefore(q)
  <2> SUFFICES ASSUME NEW u \in Tasks, got[u].exit # None PROVE Over(u, got[u].exit) /\ NoneOf(q, u)
    BY DEF GotBefore
  <2>1. Over(u, got[u].exit) /\ NoneOf(Unread, u)
    BY DEF ExitsLast, GotBefore
  <2>2. CASE u = t
    BY <1>1, <1>2, <1>4, <2>1, <2>2 DEF Over, NoneOf
  <2>3. CASE u # t
    BY <1>1, <1>2, <1>3, <2>1, <2>3 DEF NoneOf
  <2> QED
    BY <2>1, <2>2, <2>3
<1> QED
  BY <1>5, <1>6 DEF q

(* The exit code of a process that was not reaped before comes last. *)
LEMMA ReapLast ==
  ASSUME OverStays, NEW q \in Seq(Messages), ExitsIn(q), GotBefore(q), got' = got,
         NEW t \in Tasks, NEW c, c \in ExitCodes, Unread' = Append(q, <<t, c>>), child[t].at # "reaped",
         child'[t].at = "reaped", child'[t].exit = c, pipe'[t] = 0
  PROVE  ExitsLast'
<1> DEFINE n == Len(q)
           r == Unread'
<1>1. \A i \in DOMAIN q : q[i] \in Messages /\ q[i][1] \in Tasks
  BY ElementOfSeq, LenProperties DEF Messages
<1>2. n \in Nat /\ DOMAIN q = 1..n /\ <<t, c>> \in Messages
  BY LenProperties DEF Messages
<1>3. DOMAIN r = 1..(n+1) /\ (\A i \in 1..n : r[i] = q[i]) /\ r[n+1] = <<t, c>>
  BY <1>2, LenProperties, AppendProperties
<1>4. \A i \in 1..n : q[i][1] = t => q[i][2] = "event"
  BY <1>2 DEF ExitsIn, Over
<1> HIDE DEF n
<1>5. \A i \in DOMAIN r : i \in 1..n \/ i = n + 1
  BY <1>2, <1>3
<1>6. ASSUME NEW i \in DOMAIN r, r[i][2] # "event"
      PROVE  /\ child'[r[i][1]].at = "reaped" /\ child'[r[i][1]].exit = r[i][2] /\ pipe'[r[i][1]] = 0
             /\ \A j \in DOMAIN r : r[j][1] = r[i][1] => j <= i
  <2>1. CASE i = n + 1
    BY <1>2, <1>3, <1>5, <2>1
  <2>2. CASE i \in 1..n
    <3>1. q[i][2] # "event" /\ r[i] = q[i] /\ q[i][1] # t /\ q[i][1] \in Tasks
      BY <1>1, <1>2, <1>3, <1>4, <1>6, <2>2
    <3>2. Over(q[i][1], q[i][2]) /\ \A j \in 1..n : q[j][1] = q[i][1] => j <= i
      BY <1>2, <2>2, <3>1 DEF ExitsIn
    <3> QED
      BY <1>3, <1>5, <3>1, <3>2 DEF Over, OverStays
  <2> QED
    BY <1>5, <2>1, <2>2
<1>7. ExitsIn(Unread)'
  BY <1>6 DEF ExitsIn, Over
<1>8. GotBefore(Unread)'
  <2> SUFFICES ASSUME NEW u \in Tasks, got[u].exit # None
               PROVE  /\ child'[u].at = "reaped" /\ child'[u].exit = got[u].exit /\ pipe'[u] = 0
                      /\ \A i \in DOMAIN r : r[i][1] # u
    BY DEF GotBefore, Over, NoneOf
  <2>1. Over(u, got[u].exit) /\ NoneOf(q, u)
    BY DEF GotBefore
  <2>2. u # t
    BY <2>1 DEF Over
  <2> QED
    BY <1>2, <1>3, <1>5, <2>1, <2>2 DEF Over, NoneOf, OverStays
<1> QED
  BY <1>7, <1>8 DEF ExitsLast
(* A sequence is its head and what follows. *)
LEMMA HeadFirst == ASSUME NEW S, NEW q \in Seq(S), q # << >> PROVE <<Head(q)>> \o Tail(q) = q
<1> DEFINE h == <<Head(q)>>
           r == h \o Tail(q)
<1>1. /\ Head(q) = q[1] /\ Head(q) \in S /\ Len(q) \in Nat \ {0} /\ Tail(q) \in Seq(S) /\ Len(Tail(q)) = Len(q) - 1
      /\ \A i \in 1..Len(Tail(q)) : Tail(q)[i] = q[i+1]
  BY HeadTailProperties, EmptySeq
<1>2. h \in Seq(S) /\ Len(h) = 1 /\ h[1] = q[1]
  BY <1>1
<1> HIDE DEF h
<1>3. /\ r \in Seq(S) /\ Len(r) = 1 + (Len(q) - 1)
      /\ \A i \in 1 .. 1 + (Len(q) - 1) : r[i] = IF i <= 1 THEN h[i] ELSE Tail(q)[i - 1]
  <2>1. /\ r \in Seq(S) /\ Len(r) = Len(h) + Len(Tail(q))
        /\ \A i \in 1 .. Len(h) + Len(Tail(q)) : r[i] = IF i <= Len(h) THEN h[i] ELSE Tail(q)[i - Len(h)]
    BY <1>1, <1>2, ConcatProperties
  <2> HIDE DEF r
  <2> QED
    BY <1>1, <1>2, <2>1
<1> HIDE DEF r
<1>4. ASSUME NEW i \in 1..Len(q) PROVE r[i] = q[i]
  <2>1. i \in 1 .. 1 + (Len(q) - 1)
    BY <1>1
  <2>2. CASE i = 1
    BY <1>2, <1>3, <2>1, <2>2
  <2>3. CASE i # 1
    <3>1. i - 1 \in 1..Len(Tail(q)) /\ (i - 1) + 1 = i
      BY <1>1, <2>3
    <3> QED
      BY <1>1, <1>3, <2>1, <2>3, <3>1
  <2> QED
    BY <2>2, <2>3
<1>5. Len(r) = Len(q)
  BY <1>1, <1>3
<1>6. r = q
  BY <1>3, <1>4, <1>5, SeqEqual
<1> QED
  BY <1>6 DEF r, h

(* The thread that flushes passes messages on in order. *)
LEMMA FlushKeeps == ASSUME TypeOK, Flush PROVE Unread' = Unread
<1>1. /\ worker_queue # << >> /\ stdout' = Append(stdout, Head(worker_queue)) /\ worker_queue' = Tail(worker_queue)
      /\ stdout \in Seq(Messages) /\ worker_queue \in Seq(Messages)
  BY DEF Flush, TypeOK
<1>2. Head(worker_queue) \in Messages /\ Tail(worker_queue) \in Seq(Messages)
  BY <1>1
<1>3. stdout' = stdout \o <<Head(worker_queue)>> /\ <<Head(worker_queue)>> \in Seq(Messages)
  BY <1>1, <1>2, AppendIsConcat
<1>4. Unread' = stdout \o (<<Head(worker_queue)>> \o Tail(worker_queue))
  BY <1>1, <1>2, <1>3, ConcatAssociative DEF Unread
<1> QED
  BY <1>1, <1>4, HeadFirst DEF Unread

(* What a step does to messages, to what was read of them, to pipes and    *)
(* events                                                                  *)
Sends(t) ==
  /\ UNCHANGED <<fired, got>>
  /\ pipe' = [pipe EXCEPT ![t] = 0]
  /\ \/ Unread' = Unread \o Events(t)
     \/ /\ child[t].at = "exited" /\ child'[t].at = "reaped" /\ child'[t].exit = child[t].exit
        /\ Unread' = Append(Unread \o Events(t), <<t, child[t].exit>>)

LEMMA MessageStep ==
  ASSUME TypeOK, Exited, [Next]_vars
  PROVE  \/ Read
         \/ \E t \in Tasks : Sends(t)
         \/ /\ UNCHANGED <<got, Unread>>
            /\ \/ UNCHANGED <<fired, pipe>>
               \/ \E t \in Tasks : fired' = [fired EXCEPT ![t] = fired[t] + 1] /\ pipe' = [pipe EXCEPT ![t] = pipe[t] + 1]
<1>1. ASSUME NEW t \in Tasks, ReadPipe(t) \/ Drain(t) PROVE Sends(t)
  <2>1. /\ stdout' = stdout /\ worker_queue' = worker_queue \o Events(t) /\ pipe' = [pipe EXCEPT ![t] = 0]
        /\ UNCHANGED <<fired, got>>
    BY <1>1 DEF ReadPipe, Drain, server
  <2>2. Unread' = Unread \o Events(t)
    <3>1. stdout \in Seq(Messages) /\ worker_queue \in Seq(Messages) /\ Events(t) \in Seq(Messages)
      BY EventsType DEF TypeOK
    <3>2. Unread' = stdout \o (worker_queue \o Events(t))
      BY <2>1 DEF Unread
    <3>3. (stdout \o worker_queue) \o Events(t) = stdout \o (worker_queue \o Events(t))
      BY <3>1, ConcatAssociative
    <3> QED
      BY <3>2, <3>3 DEF Unread
  <2> QED
    BY <2>1, <2>2 DEF Sends
<1>2. ASSUME NEW t \in Tasks, ProcessWaitpid(t) PROVE Sends(t)
  <2>1. /\ stdout' = stdout /\ worker_queue' = Append(worker_queue \o Events(t), <<t, child[t].exit>>)
        /\ pipe' = [pipe EXCEPT ![t] = 0] /\ UNCHANGED <<fired, got>>
        /\ child[t].at = "exited" /\ child' = [child EXCEPT ![t] = [child[t] EXCEPT !.at = "reaped"]]
    BY <1>2 DEF ProcessWaitpid, server
  <2>2. child[t] \in ChildStates /\ child \in [Tasks -> ChildStates] /\ child[t].exit \in ExitCodes
    BY <2>1 DEF TypeOK, ChildStates, Exited
  <2>3. child'[t] = [child[t] EXCEPT !.at = "reaped"]
    BY <2>1, <2>2
  <2>4. child'[t].at = "reaped" /\ child'[t].exit = child[t].exit
    BY <2>2, <2>3 DEF ChildStates
  <2>5. /\ stdout \in Seq(Messages) /\ worker_queue \in Seq(Messages) /\ Events(t) \in Seq(Messages)
        /\ <<t, child[t].exit>> \in Messages /\ worker_queue \o Events(t) \in Seq(Messages)
    BY <2>2, EventsType, ConcatProperties DEF TypeOK, Messages
  <2>6. Unread' = Append(stdout \o (worker_queue \o Events(t)), <<t, child[t].exit>>)
    BY <2>1, <2>5, AppendConcat DEF Unread
  <2>7. Unread' = Append(Unread \o Events(t), <<t, child[t].exit>>)
    <3>1. (stdout \o worker_queue) \o Events(t) = stdout \o (worker_queue \o Events(t))
      BY <2>5, ConcatAssociative
    <3> QED
      BY <2>6, <3>1 DEF Unread
  <2> QED
    BY <2>1, <2>4, <2>7 DEF Sends
<1>3. CASE Flush
  <2>1. UNCHANGED <<got, fired, pipe>>
    BY <1>3 DEF Flush, server, task
  <2> QED
    BY <1>3, <2>1, FlushKeeps
<1>4. ASSUME NEW t \in Tasks, Fire(t)
      PROVE  /\ UNCHANGED <<got, Unread>>
             /\ \/ UNCHANGED <<fired, pipe>>
                \/ fired' = [fired EXCEPT ![t] = fired[t] + 1] /\ pipe' = [pipe EXCEPT ![t] = pipe[t] + 1]
  BY <1>4 DEF Fire, server, Unread
<1>5. CASE \/ UNCHANGED vars \/ (\E t \in Tasks : RunTask(t)) \/ NewTaskHashes \/ FinishNow \/ Teardown \/ Written \/ Close
           \/ Die \/ Select \/ SelectEOF \/ HandleStep \/ Misread \/ EndRound \/ Signalled \/ Finished \/ Join
           \/ \E t \in Tasks : Kill(t) \/ Wait(t) \/ Bind(t) \/ Lead(t) \/ End(t) \/ Terminate(t)
  <2>1. UNCHANGED <<got, fired, pipe, stdout, worker_queue>>
    BY <1>5 DEF RunTask, NewTaskHashes, FinishNow, Teardown, Write, Written, Close, Die, Select, SelectEOF, HandleStep,
                HandleNewTaskHashes, HandleRunTask, HandleFinishNow, HandleQuit, Handle, Misread, EndRound, Signalled,
                Finished, Join, Kill, Wait, Bind, Lead, Becomes, End, Terminate, Exit, server, task, vars
  <2> QED
    BY <2>1 DEF Unread
<1> QED
  BY <1>1, <1>2, <1>3, <1>4, <1>5 DEF Next, WorkerStep, HandleStep
(* Reading a message: an event is counted, an exit code was the last.      *)
LEMMA ReadStep ==
  ASSUME TypeOK, OverStays, ExitsLast, Counted, Read PROVE ExitsLast' /\ Counted'
<1> DEFINE m == Head(stdout)
           q == Tail(Unread)
           n == Len(Unread)
<1>1. /\ stdout # << >> /\ stdout' = Tail(stdout) /\ worker_queue' = worker_queue /\ UNCHANGED <<fired, pipe>>
      /\ stdout \in Seq(Messages) /\ worker_queue \in Seq(Messages)
      /\ got' = IF m[2] = "event" THEN [got EXCEPT ![m[1]].events = @ + 1] ELSE [got EXCEPT ![m[1]].exit = m[2]]
  BY DEF Read, TypeOK, task
<1>2. Unread # << >> /\ Unread[1] = m /\ Unread' = q
  BY <1>1, TailConcat DEF Unread
<1>3. Unread \in Seq(Messages) /\ n \in Nat \ {0} /\ DOMAIN Unread = 1..n /\ m \in Messages
  <2>1. m \in Messages
    BY <1>1
  <2> QED
    BY <1>2, <2>1, UnreadType, EmptySeq
<1>4. m[1] \in Tasks /\ m[2] \in {"event"} \cup ExitCodes /\ m = <<m[1], m[2]>>
  BY <1>3 DEF Messages
<1>5. q \in Seq(Messages) /\ DOMAIN q = 1..(n-1) /\ \A i \in 1..(n-1) : q[i] = Unread[i+1]
  <2>1. q \in Seq(Messages) /\ Len(q) = n - 1 /\ \A i \in 1..Len(q) : q[i] = Unread[i+1]
    BY <1>2, <1>3, HeadTailProperties
  <2> QED
    BY <2>1, LenProperties
<1>6. got \in [Tasks -> [events : Nat, exit : ExitCodes \cup {None}]]
  BY DEF TypeOK
<1> HIDE DEF m, q, n
<1>7. \A i \in 1..(n-1) : i \in 1..n /\ i + 1 \in 1..n
  BY <1>3
<1>8. \A t \in Tasks : t # m[1] => got'[t] = got[t]
  BY <1>1, <1>4, <1>6
<1>9. m[2] = "event" => got'[m[1]].events = got[m[1]].events + 1 /\ got'[m[1]].exit = got[m[1]].exit
  BY <1>1, <1>4, <1>6
<1>10. m[2] # "event" => got'[m[1]].events = got[m[1]].events /\ got'[m[1]].exit = m[2]
  BY <1>1, <1>4, <1>6
<1>11. ExitsIn(Unread)'
  <2> SUFFICES ASSUME NEW i \in DOMAIN q, q[i][2] # "event"
               PROVE  /\ child'[q[i][1]].at = "reaped" /\ child'[q[i][1]].exit = q[i][2] /\ pipe'[q[i][1]] = 0
                      /\ \A j \in DOMAIN q : q[j][1] = q[i][1] => j <= i
    BY <1>2 DEF ExitsIn, Over
  <2>1. i \in 1..(n-1) /\ i + 1 \in DOMAIN Unread /\ q[i] = Unread[i+1] /\ q[i] \in Messages
    BY <1>3, <1>5, <1>7, ElementOfSeq
  <2>2. Over(q[i][1], q[i][2]) /\ \A j \in DOMAIN Unread : Unread[j][1] = q[i][1] => j <= i + 1
    BY <2>1 DEF ExitsLast, ExitsIn
  <2>3. ASSUME NEW j \in DOMAIN q, q[j][1] = q[i][1] PROVE j <= i
    <3>1. j \in Nat /\ i \in Nat /\ j + 1 \in DOMAIN Unread /\ Unread[j+1][1] = q[i][1]
      BY <1>3, <1>5, <1>7, <2>1, <2>3
    <3>2. j + 1 <= i + 1
      BY <2>2, <3>1
    <3> QED
      BY <3>1, <3>2
  <2> QED
    BY <2>1, <2>2, <2>3 DEF Over, OverStays, Messages
<1>12. GotBefore(Unread)'
  <2> SUFFICES ASSUME NEW t \in Tasks, got'[t].exit # None
               PROVE  /\ child'[t].at = "reaped" /\ child'[t].exit = got'[t].exit /\ pipe'[t] = 0
                      /\ \A i \in DOMAIN q : q[i][1] # t
    BY <1>2 DEF GotBefore, Over, NoneOf
  <2>1. CASE got'[t].exit = got[t].exit /\ got[t].exit # None
    <3>1. Over(t, got[t].exit) /\ \A i \in 1..n : Unread[i][1] # t
      BY <1>3, <2>1 DEF ExitsLast, GotBefore, NoneOf
    <3> QED
      BY <1>5, <1>7, <2>1, <3>1 DEF Over, OverStays
  <2>2. CASE t = m[1] /\ m[2] # "event"
    <3>1. 1 \in DOMAIN Unread
      BY <1>3
    <3>2. Over(t, m[2]) /\ \A j \in 1..n : Unread[j][1] = t => j <= 1
      BY <1>2, <1>3, <2>2, <3>1 DEF ExitsLast, ExitsIn
    <3>3. ASSUME NEW i \in 1..(n-1) PROVE q[i][1] # t
      <4>1. i + 1 \in 1..n /\ ~ (i + 1 <= 1)
        BY <1>3
      <4> QED
        BY <1>5, <3>2, <4>1
    <3> QED
      BY <1>5, <1>10, <2>2, <3>2, <3>3 DEF Over, OverStays
  <2> QED
    BY <1>8, <1>9, <2>1, <2>2
<1>13. Counted'
  <2> SUFFICES ASSUME NEW t \in Tasks
               PROVE  got'[t].events + Cardinality(EventsIn(q, t)) + pipe[t] = fired[t]
    BY <1>1, <1>2 DEF Counted
  <2>1. Cardinality(EventsIn(q, t)) = Cardinality(EventsIn(Unread, t)) - (IF m = <<t, "event">> THEN 1 ELSE 0)
    BY <1>2, <1>3, CountTail DEF q
  <2>2. got[t].events + Cardinality(EventsIn(Unread, t)) + pipe[t] = fired[t]
    BY DEF Counted
  <2>3. got[t].events \in Nat /\ Cardinality(EventsIn(Unread, t)) \in Nat /\ pipe[t] \in Nat
    BY <1>3, <1>6, EventsFinite DEF TypeOK
  <2>4. got'[t].events = got[t].events + (IF m = <<t, "event">> THEN 1 ELSE 0)
    <3>1. CASE m = <<t, "event">>
      BY <1>4, <1>9, <3>1
    <3>2. CASE m # <<t, "event">>
      <4>1. got'[t].events = got[t].events
        BY <1>4, <1>8, <1>10, <3>2
      <4> QED
        BY <2>3, <3>2, <4>1
    <3> QED
      BY <3>1, <3>2
  <2> QED
    BY <2>1, <2>2, <2>3, <2>4
<1> QED
  BY <1>11, <1>12, <1>13 DEF ExitsLast

(* Reading the pipe of a task moves its events on, and may end with its    *)
(* exit code.                                                              *)
LEMMA SendsStep ==
  ASSUME TypeOK, Exited, OverStays, ExitsLast, Counted, NEW t \in Tasks, Sends(t) PROVE ExitsLast' /\ Counted'
<1> DEFINE q == Unread \o Events(t)
<1>1. /\ UNCHANGED <<fired, got>> /\ pipe' = [pipe EXCEPT ![t] = 0] /\ pipe \in [Tasks -> Nat] /\ pipe'[t] = 0
  BY DEF Sends, TypeOK
<1>2. q \in Seq(Messages) /\ ExitsIn(q) /\ GotBefore(q)
  BY WithEvents, ReadLast
<1>3. \A u \in Tasks : Cardinality(EventsIn(q, u)) = Cardinality(EventsIn(Unread, u)) + (IF u = t THEN pipe[t] ELSE 0)
  BY CountEvents
<1>4. \A u \in Tasks : Cardinality(EventsIn(q, u)) \in Nat /\ Cardinality(EventsIn(Unread, u)) \in Nat
  BY <1>2, UnreadType, EventsFinite
<1>5. \A u \in Tasks : got[u].events + Cardinality(EventsIn(q, u)) + pipe'[u] = fired[u]
  <2> SUFFICES ASSUME NEW u \in Tasks PROVE got[u].events + Cardinality(EventsIn(q, u)) + pipe'[u] = fired[u]
    OBVIOUS
  <2>1. got[u].events + Cardinality(EventsIn(Unread, u)) + pipe[u] = fired[u] /\ got[u].events \in Nat /\ pipe[u] \in Nat
    BY DEF Counted, TypeOK
  <2>2. /\ Cardinality(EventsIn(q, u)) = Cardinality(EventsIn(Unread, u)) + (IF u = t THEN pipe[t] ELSE 0)
        /\ Cardinality(EventsIn(q, u)) \in Nat /\ Cardinality(EventsIn(Unread, u)) \in Nat
        /\ pipe'[u] = IF u = t THEN 0 ELSE pipe[u]
    BY <1>1, <1>3, <1>4
  <2> HIDE DEF q
  <2> QED
    BY <2>1, <2>2
<1>6. CASE Unread' = q
  <2>1. ExitsLast'
    BY <1>1, <1>2, <1>6, LastStays
  <2>2. Counted'
    BY <1>1, <1>5, <1>6 DEF Counted
  <2> QED
    BY <2>1, <2>2
<1>7. CASE /\ child[t].at = "exited" /\ child'[t].at = "reaped" /\ child'[t].exit = child[t].exit
           /\ Unread' = Append(q, <<t, child[t].exit>>)
  <2>1. child[t].exit \in ExitCodes /\ <<t, child[t].exit>> \in Messages
    BY <1>7 DEF Exited, Messages
  <2>2. ExitsLast'
    BY <1>1, <1>2, <1>7, <2>1, ReapLast
  <2>3. ASSUME NEW u \in Tasks PROVE Cardinality(EventsIn(Append(q, <<t, child[t].exit>>), u)) = Cardinality(EventsIn(q, u))
    <3>1. <<t, child[t].exit>> # <<u, "event">>
      BY <2>1 DEF ExitCodes
    <3>2. Cardinality(EventsIn(Append(q, <<t, child[t].exit>>), u)) = Cardinality(EventsIn(q, u)) + 0
      BY <1>2, <2>1, <3>1, CountAppend
    <3> QED
      BY <1>4, <3>2
  <2>4. Counted'
    BY <1>1, <1>5, <1>7, <2>3 DEF Counted
  <2> QED
    BY <2>2, <2>4
<1> QED
  BY <1>6, <1>7 DEF Sends

(* No step puts a message of a task behind its exit code, or loses one.    *)
LEMMA MessagesStep ==
  ASSUME TypeOK, Exited, InOrder, ExitsLast, Counted, [Next]_vars PROVE ExitsLast' /\ Counted'
<1>1. OverStays
  BY Stays
<1>2. CASE Read
  BY <1>1, <1>2, ReadStep
<1>3. ASSUME NEW t \in Tasks, Sends(t) PROVE ExitsLast' /\ Counted'
  BY <1>1, <1>3, SendsStep
<1>4. ASSUME UNCHANGED <<got, Unread>>,
             \/ UNCHANGED <<fired, pipe>>
             \/ \E t \in Tasks : fired' = [fired EXCEPT ![t] = fired[t] + 1] /\ pipe' = [pipe EXCEPT ![t] = pipe[t] + 1]
      PROVE  ExitsLast' /\ Counted'
  <2>1. ExitsLast'
    BY <1>1, <1>4, UnreadType, LastStays DEF ExitsLast
  <2>2. Counted'
    <3> SUFFICES ASSUME NEW u \in Tasks
                 PROVE  got[u].events + Cardinality(EventsIn(Unread, u)) + pipe'[u] = fired'[u]
      BY <1>4 DEF Counted
    <3>1. /\ got[u].events + Cardinality(EventsIn(Unread, u)) + pipe[u] = fired[u]
          /\ got[u].events \in Nat /\ pipe[u] \in Nat /\ Cardinality(EventsIn(Unread, u)) \in Nat
      BY UnreadType, EventsFinite DEF Counted, TypeOK
    <3>2. \/ pipe'[u] = pipe[u] /\ fired'[u] = fired[u]
          \/ pipe'[u] = pipe[u] + 1 /\ fired'[u] = fired[u] + 1
      <4>1. pipe \in [Tasks -> Nat] /\ fired \in [Tasks -> Nat]
        BY DEF TypeOK
      <4>2. CASE UNCHANGED <<fired, pipe>>
        BY <4>2
      <4>3. ASSUME NEW t \in Tasks, fired' = [fired EXCEPT ![t] = fired[t] + 1], pipe' = [pipe EXCEPT ![t] = pipe[t] + 1]
            PROVE  \/ pipe'[u] = pipe[u] /\ fired'[u] = fired[u]
                   \/ pipe'[u] = pipe[u] + 1 /\ fired'[u] = fired[u] + 1
        BY <4>1, <4>3
      <4> QED
        BY <1>4, <4>2, <4>3
    <3> QED
      BY <3>1, <3>2
  <2> QED
    BY <2>1, <2>2
<1> QED
  BY <1>2, <1>3, <1>4, MessageStep

(***************************************************************************)
(* Theorems                                                                *)
(***************************************************************************)

Inv == TypeOK /\ Exited /\ InOrder /\ UpToDate /\ AsSent /\ ExitsLast /\ Counted

(* At first nothing is under way. *)
LEMMA InitInv == Init => Inv
<1> SUFFICES ASSUME Init PROVE Inv
  OBVIOUS
<1>1. TypeOK
  <2>1. /\ writing = None /\ hashes = 0 /\ rq = "running" /\ pc = "select" /\ rank = 0 /\ newhashes = 0
        /\ build_pids = {} /\ todo = {} /\ missed = {} /\ terminating = FALSE /\ stdin = << >> /\ stdout = << >>
        /\ queue = << >> /\ worker_queue = << >> /\ sent = [t \in Tasks |-> None]
    BY DEF Init
  <2>2. /\ hashes \in 0..MaxHashes /\ newhashes \in 0..MaxHashes /\ rank \in 0..Len(Kinds)
    BY <2>1, WorkerAssumption DEF Kinds
  <2>3. got \in [Tasks -> [events : Nat, exit : ExitCodes \cup {None}]]
    BY DEF Init
  <2>4. child \in [Tasks -> ChildStates] /\ fired \in [Tasks -> Nat] /\ pipe \in [Tasks -> Nat]
    BY DEF Init, ChildStates
  <2>5. sent \in [Tasks -> 0..MaxHashes \cup {None}]
    BY <2>1
  <2>6. /\ stdin \in Seq(Commands) /\ queue \in Seq(Commands)
        /\ stdout \in Seq(Messages) /\ worker_queue \in Seq(Messages)
    <3>1. << >> \in Seq(Commands) /\ << >> \in Seq(Messages)
      OBVIOUS
    <3> QED
      BY <2>1, <3>1
  <2>7. /\ rq \in {"running", "finishing", "teardown", "closed", "dead"} /\ writing \in Commands \cup {None}
        /\ pc \in {"select", "items", "kill", "wait", "drain", "join", "gone"} /\ terminating \in BOOLEAN
        /\ build_pids \subseteq Tasks /\ todo \subseteq Tasks /\ missed \subseteq Tasks
    BY <2>1
  <2> QED
    BY <2>2, <2>3, <2>4, <2>5, <2>6, <2>7 DEF TypeOK, ChildStates
<1>2. Exited /\ AsSent
  BY DEF Init, Exited, AsSent
<1>3. Pending = << >> /\ Unread = << >>
  <2>1. << >> \in Seq(Commands) /\ << >> \in Seq(Messages)
    OBVIOUS
  <2> QED
    BY <2>1, ConcatEmptySeq DEF Init, Pending, Last, Unread
<1>4. InOrder
  BY <1>3 DEF InOrder
<1>5. UpToDate
  <2>1. Len(Pending) = 0
    BY <1>3
  <2>2. 1..(Len(Pending) + 1 - 1) = {}
    BY <2>1
  <2> QED
    BY <2>2 DEF UpToDate, Newest, Init
<1>6. ExitsLast
  BY <1>3, WorkerAssumption DEF ExitsLast, ExitsIn, GotBefore, Init
<1>7. Counted
  <2>1. \A t \in Tasks : EventsIn(Unread, t) = {}
    BY <1>3 DEF EventsIn
  <2>2. Cardinality({}) = 0
    BY FS_EmptySet
  <2>3. \A t \in Tasks : got[t].events = 0 /\ pipe[t] = 0 /\ fired[t] = 0
    BY DEF Init
  <2>4. \A t \in Tasks : Cardinality(EventsIn(Unread, t)) = 0
    BY <2>1, <2>2
  <2>5. ASSUME NEW t \in Tasks PROVE got[t].events + Cardinality(EventsIn(Unread, t)) + pipe[t] = fired[t]
    <3>1. got[t].events = 0 /\ pipe[t] = 0 /\ fired[t] = 0 /\ Cardinality(EventsIn(Unread, t)) = 0
      BY <2>3, <2>4
    <3> QED
      BY <3>1
  <2> QED
    BY <2>5 DEF Counted
<1> QED
  BY <1>1, <1>2, <1>4, <1>5, <1>6, <1>7 DEF Inv

(* Every step keeps it. *)
LEMMA StepInv == Inv /\ [Next]_vars => Inv'
BY TypeStep, OrderStep, AsSentStep, MessagesStep DEF Inv

(* All states satisfy it. *)
LEMMA Invariance == Spec => []Inv
BY InitInv, StepInv, PTL DEF Spec

(* The variables of a worker, its server and its tasks keep their types.   *)
THEOREM TypeCorrect == Spec => []TypeOK
BY Invariance, PTL DEF Inv

(* HashesAsSent: a task runs with the task hashes the run queue went by    *)
(* when it chose the task.                                                 *)
THEOREM Hashes == Spec => []HashesAsSent
<1>1. Inv => HashesAsSent
  BY DEF Inv, AsSent, HashesAsSent
<1> QED
  BY <1>1, Invariance, PTL

(* ExitCodeLast: the run queue reads the exit code of a task after every   *)
(* event of the task, and it is the one the task ended with.               *)
THEOREM LastWord == Spec => []ExitCodeLast
<1>1. Inv => ExitCodeLast
  <2> SUFFICES ASSUME Inv, NEW t \in Tasks, got[t].exit # None
               PROVE  got[t].exit = child[t].exit /\ got[t].events = fired[t]
    BY DEF ExitCodeLast
  <2>1. Over(t, got[t].exit) /\ NoneOf(Unread, t)
    BY DEF Inv, ExitsLast, GotBefore
  <2>2. EventsIn(Unread, t) = {}
    BY <2>1 DEF NoneOf, EventsIn
  <2>3. Cardinality(EventsIn(Unread, t)) = 0
    BY <2>2, FS_EmptySet
  <2>4. got[t].events + 0 + 0 = fired[t] /\ got[t].events \in Nat
    BY <2>1, <2>3 DEF Inv, Counted, Over, TypeOK
  <2> QED
    BY <2>1, <2>4 DEF Over
<1> QED
  BY <1>1, Invariance, PTL

=============================================================================
