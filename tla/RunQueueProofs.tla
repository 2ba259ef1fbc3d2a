--------------------------- MODULE RunQueueProofs ---------------------------
(***************************************************************************)
(* Theorems about RunQueue, for every task graph and every configuration   *)
(* that GraphAssumption and ConfigAssumption admit.                        *)
(*                                                                         *)
(* The methods of RunQueueExecute are operators on the records rq and sq,  *)
(* so each gets a lemma that it preserves the type of its record; the      *)
(* proof for an action then only combines the lemmas of what it calls.     *)
(***************************************************************************)
EXTENDS RunQueue, TLAPS

----------------------------------------------------------------------------
(* The scene queue.                                                        *)

(* The setscene tasks that fail together are setscene tasks. *)
LEMMA FailClosureType ==
  ASSUME NEW q, NEW t, NEW dk
  PROVE  FailClosure(q, t, dk) \subseteq Setscene
BY DEF FailClosure

(* Deciding setscene tasks keeps the scene queue well formed. *)
LEMMA DecideType ==
  ASSUME NEW q \in SqType, NEW C \in SUBSET Setscene, NEW N \in SUBSET Setscene
  PROVE  Decide(q, C, N) \in SqType
<1>1. NewlyDone(q.done, C \cup N) \subseteq Tasks
  BY DEF NewlyDone
<1> QED BY <1>1 DEF Decide, SqType

(* So does skipping them. *)
LEMMA SqTaskSkipType ==
  ASSUME NEW q \in SqType, NEW T \in SUBSET Setscene
  PROVE  SqTaskSkip(q, T) \in SqType
<1> DEFINE q1 == [q EXCEPT !.running = @ \cup T, !.buildable = @ \cup T]
<1>1. q1 \in SqType
  BY DEF SqType
<1> QED BY <1>1, DecideType DEF SqTaskSkip

(* So does failing them before they ran. *)
LEMMA SqTaskFailOutrightType ==
  ASSUME NEW q \in SqType, NEW t, NEW dk
  PROVE  SqTaskFailOutright(q, t, dk) \in SqType
<1> DEFINE F  == FailClosure(q, t, dk)
           q1 == [q EXCEPT !.running = @ \cup F, !.buildable = @ \cup F]
<1>1. F \in SUBSET Setscene
  BY FailClosureType
<1> HIDE DEF F
<1>2. q1 \in SqType
  BY <1>1 DEF SqType
<1> QED BY <1>1, <1>2, DecideType DEF SqTaskFailOutright, F

(* So does failing them after they ran. *)
LEMMA SqTaskFailType ==
  ASSUME NEW q \in SqType, NEW t, NEW dk
  PROVE  SqTaskFail(q, t, dk) \in SqType
<1> DEFINE F  == FailClosure(q, t, dk)
           q1 == [q EXCEPT !.running = @ \cup (F \ {t}), !.buildable = @ \cup (F \ {t})]
<1>1. F \in SUBSET Setscene
  BY FailClosureType
<1> HIDE DEF F
<1>2. q1 \in SqType
  BY <1>1 DEF SqType
<1> QED BY <1>1, <1>2, DecideType DEF SqTaskFail, F

(* So does looking them up in the shared state. *)
LEMMA UpdateSceneQueueDataType ==
  ASSUME NEW q \in SqType, NEW T \in SUBSET Setscene, NEW dk,
         NEW avail \in SUBSET Setscene
  PROVE  UpdateSceneQueueData(q, T, dk, avail) \in SqType
<1> DEFINE present == (T \ NoExec) \cap (dk.scene \cup RecursivelyCurrent(dk))
           skipped == present \cup (T \cap NoExec)
           q1      == IF skipped = {} THEN q ELSE SqTaskSkip(q, skipped)
           valid   == (q.valid \ T) \cup (avail \cap (T \ skipped))
           decided == skipped \cup valid \cup q1.covered \cup q1.notcovered \cup DOMAIN q.deferred
<1>1. skipped \in SUBSET Setscene
  OBVIOUS
<1> HIDE DEF skipped
<1>2. q1 \in SqType
  BY <1>1, SqTaskSkipType
<1> HIDE DEF q1
<1>3. valid \in SUBSET Setscene
  BY DEF SqType
<1> HIDE DEF valid, decided
<1>4. [q1 EXCEPT !.valid = valid, !.outrightfail = (@ \ T) \cup (T \ decided)] \in SqType
  BY <1>2, <1>3 DEF SqType
<1> QED BY <1>4 DEF UpdateSceneQueueData, present, skipped, q1, valid, decided

(* The functions from a part of D to R. *)
LEMMA PartialIntro ==
  ASSUME NEW D, NEW R, NEW S \in SUBSET D, NEW f \in [S -> R]
  PROVE  f \in Partial(D, R)
BY DEF Partial

(* A function in Partial(D, R) has its domain and its values there. *)
LEMMA PartialElim ==
  ASSUME NEW D, NEW R, NEW f \in Partial(D, R)
  PROVE  DOMAIN f \in SUBSET D /\ f \in [DOMAIN f -> R]
BY DEF Partial

(* Dropping a deferral keeps the scene queue well formed. *)
LEMMA DropDeferredType ==
  ASSUME NEW q \in SqType, NEW s
  PROVE  DropDeferred(q, s) \in SqType
<1> DEFINE f == q.deferred
           S == DOMAIN f \ {s}
           g == Restrict(f, S)
<1>1. f \in Partial(Setscene, Setscene)
  BY DEF SqType
<1>2. S \in SUBSET Setscene /\ f \in [DOMAIN f -> Setscene]
  BY <1>1, PartialElim
<1>3. g \in [S -> Setscene]
  BY <1>2 DEF Restrict
<1>4. g \in Partial(Setscene, Setscene)
  BY <1>2, <1>3, PartialIntro
<1> HIDE DEF g
<1>5. [q EXCEPT !.deferred = g] \in SqType
  BY <1>4 DEF SqType
<1> QED BY <1>5 DEF DropDeferred, g

(* So does letting a task go that was deferred after t. *)
LEMMA UndeferType ==
  ASSUME NEW q \in SqType, NEW t, NEW dk, NEW avail \in SUBSET Setscene
  PROVE  Undefer(q, t, dk, avail) \in SqType
<1> DEFINE waiting == {s \in DOMAIN q.deferred : q.deferred[s] = t}
           found   == CHOOSE s \in waiting : TRUE
           rest    == [s \in DOMAIN q.deferred \ {found} |->
                         IF s \in waiting THEN found ELSE q.deferred[s]]
           q1      == [q EXCEPT !.deferred = rest]
<1>1. CASE waiting = {}
  BY <1>1 DEF Undefer
<1>2. CASE waiting # {}
  <2>1. DOMAIN q.deferred \in SUBSET Setscene /\ q.deferred \in [DOMAIN q.deferred -> Setscene]
    BY PartialElim DEF SqType
  <2>2. found \in waiting
    BY <1>2
  <2>3. found \in Setscene
    BY <2>1, <2>2
  <2> HIDE DEF found
  <2>4. rest \in Partial(Setscene, Setscene)
    <3>1. rest \in [DOMAIN q.deferred \ {found} -> Setscene]
      BY <2>1, <2>3
    <3> QED BY <2>1, <3>1, PartialIntro
  <2> HIDE DEF rest
  <2>5. q1 \in SqType
    BY <2>4 DEF SqType
  <2> HIDE DEF q1
  <2>6. UpdateSceneQueueData(q1, {found}, dk, avail) \in SqType
    BY <2>3, <2>5, UpdateSceneQueueDataType
  <2> QED BY <1>2, <2>6 DEF Undefer, q1, rest, found
<1> QED BY <1>1, <1>2

----------------------------------------------------------------------------
(* The run queue.                                                          *)

(* Completing, failing and skipping a task keep the run queue well formed. *)
LEMMA TaskCompleteOutrightType ==
  ASSUME NEW r \in RqType, NEW t \in Tasks
  PROVE  TaskCompleteOutright(r, t) \in RqType
<1>1. Revdeps[t] \subseteq Tasks
  BY DEF Revdeps
<1> QED BY <1>1 DEF TaskCompleteOutright, RqType

(* stats.active stays an integer. *)
LEMMA DecrementType ==
  ASSUME NEW n \in Int
  PROVE  Decrement(n) \in Int
BY DEF Decrement

(* task_complete() keeps the run queue well formed. *)
LEMMA TaskCompleteType ==
  ASSUME NEW r \in RqType, NEW t \in Tasks
  PROVE  TaskComplete(r, t) \in RqType
<1> DEFINE r1 == TaskCompleteOutright(r, t)
<1>1. r1 \in RqType
  BY TaskCompleteOutrightType
<1> HIDE DEF r1
<1>2. Decrement(r1.active) \in Int
  BY <1>1, DecrementType DEF RqType
<1>3. [r1 EXCEPT !.tasksrun = @ \cup {t}, !.active = Decrement(@)] \in RqType
  BY <1>1, <1>2 DEF RqType
<1> QED BY <1>3 DEF TaskComplete, r1

(* So does task_fail(). *)
LEMMA TaskFailType ==
  ASSUME NEW r \in RqType, NEW t \in Tasks
  PROVE  TaskFail(r, t) \in RqType
<1>1. Decrement(r.active) \in Int
  BY DecrementType DEF RqType
<1> QED BY <1>1 DEF TaskFail, RqType, States

(* So does starting a task. *)
LEMMA TaskActiveType ==
  ASSUME NEW r \in RqType, NEW t \in Tasks
  PROVE  [r EXCEPT !.running = @ \cup {t}, !.active = @ + 1] \in RqType
<1>1. r.running \cup {t} \in SUBSET Tasks
  BY DEF RqType
<1>2. r.active + 1 \in Int
  BY DEF RqType
<1> QED BY <1>1, <1>2 DEF RqType

(* So does task_skip(). *)
LEMMA TaskSkipType ==
  ASSUME NEW r \in RqType, NEW t \in Tasks
  PROVE  TaskSkip(r, t) \in RqType
<1> DEFINE r1 == [r EXCEPT !.running = @ \cup {t}, !.buildable = @ \cup {t}]
<1>1. r1 \in RqType
  BY DEF RqType
<1> QED BY <1>1, TaskCompleteOutrightType DEF TaskSkip

----------------------------------------------------------------------------
(* The stamps.                                                             *)

(* Making stamps keeps the record of the stamp files well formed. *)
LEMMA MakeStampType ==
  ASSUME NEW dk \in DiskType, NEW t \in Tasks
  PROVE  MakeStamp(dk, t) \in DiskType
<1> DEFINE real == [dk.real EXCEPT ![t] = 2]
<1>1. real \in [Tasks -> 0..2]
  BY DEF DiskType
<1> HIDE DEF real
<1>2. [dk EXCEPT !.real = real, !.scene = @ \ {t}] \in DiskType
  BY <1>1 DEF DiskType
<1> QED BY <1>2 DEF MakeStamp, real

(* Stamping noexec setscene tasks keeps the disk well formed. *)
LEMMA MakeNoExecStampsType ==
  ASSUME NEW dk \in DiskType, NEW T \in SUBSET Setscene
  PROVE  MakeNoExecStamps(dk, T) \in DiskType
BY DEF MakeNoExecStamps, DiskType

(* So does the lookup of a task that is no longer deferred. *)
LEMMA UndeferMakesStampsType ==
  ASSUME NEW q \in SqType, NEW t, NEW dk \in DiskType
  PROVE  UndeferMakesStamps(q, t, dk) \in DiskType
<1> DEFINE waiting == {s \in DOMAIN q.deferred : q.deferred[s] = t}
           found   == CHOOSE s \in waiting : TRUE
<1>1. CASE waiting = {}
  BY <1>1 DEF UndeferMakesStamps
<1>2. CASE waiting # {}
  <2>1. DOMAIN q.deferred \in SUBSET Setscene
    BY PartialElim DEF SqType
  <2>2. found \in Setscene
    BY <1>2, <2>1
  <2> HIDE DEF found
  <2>3. MakeNoExecStamps(dk, {found}) \in DiskType
    BY <2>2, MakeNoExecStampsType
  <2> QED BY <1>2, <2>3 DEF UndeferMakesStamps, found
<1> QED BY <1>1, <1>2

----------------------------------------------------------------------------
(* The initial state.                                                      *)

(* The owner of a hash index is a setscene task. *)
LEMMA HashOwnerType == \A h \in DOMAIN HashOwner : HashOwner[h] \in Setscene
<1> TAKE h \in DOMAIN HashOwner
<1>1. PICK s \in Setscene : HashIndex(s, InitUnihash[s]) = h
  BY DEF HashOwner
<1>2. HashOwner[h] = CHOOSE x \in Setscene : HashIndex(x, InitUnihash[x]) = h
  BY DEF HashOwner
<1> QED BY <1>1, <1>2

(* Every setscene task has a hash index, so the initial deferrals are well *)
(* formed.                                                                 *)
LEMMA InitialDeferredType == InitialDeferred \in Partial(Setscene, Setscene)
<1> DEFINE owner(s) == HashOwner[HashIndex(s, InitUnihash[s])]
           S == {x \in Setscene : x # owner(x)}
<1>1. \A s \in Setscene : owner(s) \in Setscene
  <2> TAKE s \in Setscene
  <2>1. HashIndex(s, InitUnihash[s]) \in DOMAIN HashOwner
    BY DEF HashOwner
  <2> QED BY <2>1, HashOwnerType
<1>2. [s \in S |-> owner(s)] \in [S -> Setscene]
  BY <1>1
<1> HIDE DEF owner
<1>3. [s \in S |-> owner(s)] \in Partial(Setscene, Setscene)
  BY <1>2, PartialIntro
<1> QED BY <1>3 DEF InitialDeferred, owner

(* The initial states are well formed. *)
LEMMA InitType == Init => TypeOK
<1> SUFFICES ASSUME Init PROVE TypeOK
  OBVIOUS
<1> USE DEF Init
<1>1. pc \in Pcs /\ build_stamps = <<>> /\ procs \subseteq ProcType
  BY DEF Pcs
<1>2. DOMAIN build_stamps \subseteq Tasks
  BY <1>1
<1>3. rq \in RqType
  BY DEF RqType, States, InitialBuildable, InitialDone, Unskippable
<1>4. PICK old \in {S \ Tainted : S \in InitStamps}, avail \in SUBSET Setscene,
           oldscene \in {S \ Tainted : S \in InitSceneStamps} :
        LET dk == [real |-> [t \in Tasks |-> IF t \in old THEN 1 ELSE 0], scene |-> oldscene]
            q  == [buildable |-> InitialSqBuildable, running |-> {}, live |-> {},
                   covered |-> {}, notcovered |-> {}, done |-> InitialDone,
                   deferred |-> InitialDeferred, outrightfail |-> {}, valid |-> {},
                   need_update |-> TRUE, stamp |-> Restrict(InitUnihash, Setscene)]
        IN  /\ disk = MakeNoExecStamps(dk, Setscene)
            /\ sq = UpdateSceneQueueData(q, Setscene, dk, avail)
  OBVIOUS
<1> DEFINE dk == [real |-> [t \in Tasks |-> IF t \in old THEN 1 ELSE 0], scene |-> oldscene]
           q  == [buildable |-> InitialSqBuildable, running |-> {}, live |-> {},
                  covered |-> {}, notcovered |-> {}, done |-> InitialDone,
                  deferred |-> InitialDeferred, outrightfail |-> {}, valid |-> {},
                  need_update |-> TRUE, stamp |-> Restrict(InitUnihash, Setscene)]
<1>5. dk \in DiskType
  BY ConfigAssumption DEF DiskType
<1>6. q \in SqType
  <2>1. Restrict(InitUnihash, Setscene) \in [Setscene -> Unihashes]
    BY GraphAssumption, ConfigAssumption DEF Restrict
  <2>2. InitialSqBuildable \subseteq Setscene /\ InitialDone \subseteq Tasks
    BY DEF InitialSqBuildable, InitialDone, Unskippable
  <2> QED BY <2>1, <2>2, InitialDeferredType DEF SqType
<1>7. disk \in DiskType /\ sq \in SqType
  <2> HIDE DEF dk, q
  <2>1. disk = MakeNoExecStamps(dk, Setscene) /\ sq = UpdateSceneQueueData(q, Setscene, dk, avail)
    BY <1>4 DEF dk, q
  <2> QED BY <1>5, <1>6, <2>1, MakeNoExecStampsType, UpdateSceneQueueDataType
<1>8. hold \in HoldType
  BY DEF HoldType
<1>9. hash \in HashType
  BY ConfigAssumption DEF HashType
<1>10. env \in EnvType
  BY DEF EnvType
<1> QED BY <1>1, <1>2, <1>3, <1>7, <1>8, <1>9, <1>10 DEF TypeOK

----------------------------------------------------------------------------
(* One lemma for the actions of each phase.                                *)

(* Wherever execute() returns to is a place of the cooker. *)
LEMMA ReturnType == ASSUME NEW st PROVE Return(st) \in Pcs
BY DEF Return, Pcs

(* The verdict of finish() is a state of the run queue. *)
LEMMA OutcomeType == Outcome \in States
BY DEF Outcome, States

(* Worker processes and stop requests. *)
LEMMA OutsideType ==
  ASSUME TypeOK, (\E p \in procs : WorkerExit(p)) \/ WorkerDies \/ StopRequest
  PROVE  TypeOK'
<1> USE DEF TypeOK
<1>1. ASSUME NEW p \in procs, WorkerExit(p) PROVE TypeOK'
  <2>1. PICK status \in {"ok", "fail"} :
          /\ procs' = (procs \ {p}) \cup {[p EXCEPT !.status = status]}
          /\ disk' = IF status = "ok" THEN StampedBy(p) ELSE disk
    BY <1>1 DEF WorkerExit
  <2>2. procs' \subseteq ProcType
    BY <2>1 DEF ProcType
  <2>3. disk' \in DiskType
    <3>1. CASE p.scene
      <4>1. p.task \in Setscene
        BY <3>1 DEF ProcType
      <4> QED BY <2>1, <3>1, <4>1 DEF StampedBy, DiskType
    <3>2. CASE ~p.scene
      <4>1. p.task \in Tasks
        BY GraphAssumption DEF ProcType
      <4> QED BY <2>1, <3>2, <4>1, MakeStampType DEF StampedBy
    <3> QED BY <3>1, <3>2
  <2> QED BY <1>1, <2>2, <2>3 DEF WorkerExit
<1>2. ASSUME WorkerDies PROVE TypeOK'
  BY <1>2 DEF WorkerDies, EnvType
<1>3. ASSUME StopRequest PROVE TypeOK'
  BY <1>3 DEF StopRequest, EnvType
<1> QED BY <1>1, <1>2, <1>3

(* Polling the worker leaves the run queue in a known state. *)
LEMMA PolledType == ASSUME NEW st \in States PROVE Polled(st) \in States
BY OutcomeType DEF Polled

(* The idle tick. *)
LEMMA TickType ==
  ASSUME TypeOK, FinishNow \/ Finish \/ Execute \/ Teardown
  PROVE  TypeOK'
<1> USE DEF TypeOK
<1>1. ASSUME FinishNow PROVE TypeOK'
  BY <1>1, OutcomeType DEF FinishNow, RqType, Pcs
<1>2. ASSUME Finish PROVE TypeOK'
  <2>1. Polled("CleanUp") \in States
    BY PolledType DEF States
  <2>2. \E st \in States : rq' = [rq EXCEPT !.state = st]
    BY <1>2, <2>1, OutcomeType DEF Finish
  <2> QED BY <1>2, <2>2 DEF Finish, RqType, Pcs
<1>3. ASSUME Execute PROVE TypeOK'
  BY <1>3, PolledType DEF Execute, RqType, Pcs
<1>4. ASSUME Teardown PROVE TypeOK'
  BY <1>4 DEF Teardown, Pcs, EnvType
<1> QED BY <1>1, <1>2, <1>3, <1>4

(* What is read from the worker pipes. *)
LEMMA ReadType ==
  ASSUME TypeOK, (\E p \in procs : ReadExit(p) \/ ReadUnihash(p)) \/ ReadDone
  PROVE  TypeOK'
<1> USE DEF TypeOK
<1>1. ASSUME NEW p \in procs, ReadExit(p) PROVE TypeOK'
  <2>1. p.task \in Tasks
    BY GraphAssumption DEF ProcType
  <2>2. PICK avail \in SUBSET Setscene :
          IF p.task \in sq.live
          THEN LET q == IF p.status = "ok" THEN Decide(sq, {p.task}, {})
                                           ELSE SqTaskFail(sq, p.task, disk)
               IN  /\ sq' = [q EXCEPT !.live = @ \ {p.task}]
                   /\ rq' = IF p.status = "fail" /\ Enforce /\ p.task \notin EnforceAllowed
                            THEN [rq EXCEPT !.state = "CleanUp"] ELSE rq
                   /\ disk' = disk
          ELSE IF p.status = "ok"
          THEN /\ rq' = TaskComplete(rq, p.task)
               /\ sq' = Undefer(sq, p.task, disk, avail)
               /\ disk' = UndeferMakesStamps(sq, p.task, disk)
          ELSE /\ rq' = TaskFail(rq, p.task)
               /\ UNCHANGED <<sq, disk>>
    BY <1>1 DEF ReadExit
  <2>3. rq' \in RqType /\ sq' \in SqType /\ disk' \in DiskType
    <3>1. CASE p.task \in sq.live
      <4> DEFINE q == IF p.status = "ok" THEN Decide(sq, {p.task}, {})
                                         ELSE SqTaskFail(sq, p.task, disk)
      <4>1. {p.task} \in SUBSET Setscene
        BY <3>1 DEF SqType
      <4>2. q \in SqType
        BY <4>1, DecideType, SqTaskFailType
      <4> HIDE DEF q
      <4>3. [q EXCEPT !.live = @ \ {p.task}] \in SqType
        BY <4>2 DEF SqType
      <4>4. [rq EXCEPT !.state = "CleanUp"] \in RqType
        BY DEF RqType, States
      <4> QED BY <2>2, <3>1, <4>3, <4>4 DEF q
    <3>2. CASE p.task \notin sq.live /\ p.status = "ok"
      BY <2>1, <2>2, <3>2, TaskCompleteType, UndeferType, UndeferMakesStampsType
    <3>3. CASE p.task \notin sq.live /\ p.status # "ok"
      BY <2>1, <2>2, <3>3, TaskFailType
    <3> QED BY <3>1, <3>2, <3>3
  <2>4. DOMAIN build_stamps' \subseteq Tasks
    BY <1>1 DEF ReadExit, Restrict
  <2> QED BY <1>1, <2>3, <2>4 DEF ReadExit
<1>2. ASSUME NEW p \in procs, ReadUnihash(p) PROVE TypeOK'
  <2>1. p.task \in Tasks
    BY GraphAssumption DEF ProcType
  <2>2. PICK u \in Unihashes :
          hash' = [hash EXCEPT !.queue = @ \cup {<<p.task, u>>}, !.updates = @ + 1]
    BY <1>2 DEF ReadUnihash
  <2>3. hash' \in HashType
    <3>1. hash.queue \cup {<<p.task, u>>} \in SUBSET (Tasks \X Unihashes)
      BY <2>1 DEF HashType
    <3>2. hash.updates + 1 \in Nat
      BY DEF HashType
    <3> QED BY <2>2, <3>1, <3>2 DEF HashType
  <2> QED BY <1>2, <2>3 DEF ReadUnihash
<1>3. ASSUME ReadDone PROVE TypeOK'
  BY <1>3, ReturnType DEF ReadDone, Pcs
<1> QED BY <1>1, <1>2, <1>3

(* Migration of rehashed setscene tasks. *)
LEMMA ResetType ==
  ASSUME NEW q \in SqType, NEW M \in SUBSET Setscene, NEW uni \in [Tasks -> Unihashes]
  PROVE  Reset(q, M, uni) \in SqType
<1> DEFINE stamp == [s \in Setscene |-> IF s \in M THEN uni[s] ELSE q.stamp[s]]
<1>1. stamp \in [Setscene -> Unihashes]
  BY GraphAssumption DEF SqType
<1> HIDE DEF stamp
<1>2. ASSUME NEW below
      PROVE  [q EXCEPT !.done = (@ \ M) \ (below \ Unskippable),
                       !.buildable = @ \ M, !.running = @ \ M, !.outrightfail = @ \ M,
                       !.covered = @ \ M, !.notcovered = @ \ M, !.stamp = stamp] \in SqType
  BY <1>1 DEF SqType
<1> QED BY <1>2 DEF Reset, stamp

(* Requeueing the tasks that were reset keeps the scene queue well formed. *)
LEMMA RequeueType ==
  ASSUME NEW q \in SqType, NEW M \in SUBSET Setscene, NEW uni, NEW dk,
         NEW avail \in SUBSET Setscene
  PROVE  Requeue(q, M, uni, dk, avail) \in SqType
<1> DEFINE fails    == HardDepFail(q, M)
           free     == {m \in M : \/ SqRevdeps[m] = {}
                                  \/ m \notin fails /\ SqRevdeps[m] \subseteq q.covered \cup q.notcovered}
           twins    == {m \in M : /\ HashIndex(m, uni[m]) \in DOMAIN HashOwner
                                  /\ HashOwner[HashIndex(m, uni[m])] # m}
           deferred == [s \in DOMAIN q.deferred \cup twins |->
                          IF s \in twins THEN HashOwner[HashIndex(s, uni[s])] ELSE q.deferred[s]]
           q0       == [q EXCEPT !.buildable = @ \cup free, !.deferred = deferred]
           q1       == UpdateSceneQueueData(q0, M, dk, avail)
           F        == UNION {FailClosure(q1, m, dk) : m \in fails}
           q2       == [q1 EXCEPT !.running = @ \cup F, !.buildable = @ \cup F]
<1>1. deferred \in Partial(Setscene, Setscene)
  <2>1. \A h \in DOMAIN HashOwner : HashOwner[h] \in Setscene
    BY HashOwnerType
  <2>2. DOMAIN q.deferred \in SUBSET Setscene /\ q.deferred \in [DOMAIN q.deferred -> Setscene]
    BY PartialElim DEF SqType
  <2>3. twins \subseteq Setscene
    OBVIOUS
  <2>4. \A s \in twins : HashOwner[HashIndex(s, uni[s])] \in Setscene
    BY <2>1
  <2> HIDE DEF twins
  <2>5. deferred \in [DOMAIN q.deferred \cup twins -> Setscene]
    BY <2>2, <2>4
  <2> HIDE DEF deferred
  <2> QED BY <2>2, <2>3, <2>5, PartialIntro
<1>2. free \in SUBSET Setscene
  OBVIOUS
<1> HIDE DEF deferred, free
<1>3. q0 \in SqType
  BY <1>1, <1>2 DEF SqType
<1> HIDE DEF q0
<1>4. q1 \in SqType
  BY <1>3, UpdateSceneQueueDataType
<1> HIDE DEF q1
<1>5. F \in SUBSET Setscene
  BY FailClosureType
<1> HIDE DEF F
<1>6. q2 \in SqType
  BY <1>4, <1>5 DEF SqType
<1> HIDE DEF q2
<1>7. Decide(q2, {}, F) \in SqType
  BY <1>5, <1>6, DecideType
<1> QED BY <1>4, <1>7 DEF Requeue, q2, F, q1, q0, deferred, twins, free, fails

(* process_possible_migrations() keeps the state well formed. *)
LEMMA MigrateType ==
  ASSUME TypeOK, MigrateNothing \/ Migrate
  PROVE  TypeOK'
<1> USE DEF TypeOK
<1>1. ASSUME MigrateNothing PROVE TypeOK'
  BY <1>1 DEF MigrateNothing, Pcs
<1>2. ASSUME Migrate PROVE TypeOK'
  <2>1. PICK uni \in NewUnihashes : \E dk \in RehashedDisks(Moved(uni)) :
          IF StaleMigrations(uni) = {} THEN MigrateReady(uni, dk) ELSE HaltMigration(uni, dk)
    BY <1>2 DEF Migrate
  <2>2. PICK dk \in RehashedDisks(Moved(uni)) :
          IF StaleMigrations(uni) = {} THEN MigrateReady(uni, dk) ELSE HaltMigration(uni, dk)
    BY <2>1
  <2>3. uni \in [Tasks -> Unihashes]
    BY DEF NewUnihashes
  <2>4. dk \in DiskType
    BY DEF RehashedDisks, DiskType
  <2>5. PendingMigrations(uni) \subseteq Setscene
    BY DEF PendingMigrations, HashType
  <2>6. ReadyMigrations(uni) \subseteq Setscene /\ StaleMigrations(uni) \subseteq Setscene
    BY <2>5 DEF ReadyMigrations, StaleMigrations
  <2>7. ASSUME NEW left \in SUBSET Setscene PROVE MigratedHash(uni, left) \in HashType
    BY <2>3 DEF MigratedHash, HashType
  <2>8. ASSUME NEW S PROVE DOMAIN Restrict(build_stamps, DOMAIN build_stamps \ S) \subseteq Tasks
    BY DEF Restrict
  <2>9. pc' \in Pcs /\ procs' = procs /\ env' = env
    BY <1>2 DEF Migrate, Pcs
  <2>10. ASSUME MigrateReady(uni, dk) PROVE TypeOK'
    <3> DEFINE ready == ReadyMigrations(uni)
    <3>1. PICK avail \in SUBSET Setscene :
            sq' = IF ready = {} THEN [sq EXCEPT !.need_update = (@ \/ Changed(uni) # {})]
                  ELSE [Requeue(Reset(sq, ready, uni), ready, uni, dk, avail)
                          EXCEPT !.need_update = TRUE]
      BY <2>10 DEF MigrateReady
    <3>2. Requeue(Reset(sq, ready, uni), ready, uni, dk, avail) \in SqType
      BY <2>3, <2>6, ResetType, RequeueType
    <3>3. sq' \in SqType
      BY <3>1, <3>2 DEF SqType
    <3>4. hold' \in HoldType
      BY <2>10 DEF MigrateReady, Reopen, HoldType
    <3>5. disk' \in DiskType
      BY <2>4, <2>6, <2>10, MakeNoExecStampsType DEF MigrateReady
    <3>6. hash' \in HashType
      BY <2>5, <2>7, <2>10 DEF MigrateReady
    <3>7. DOMAIN build_stamps' \subseteq Tasks /\ rq' = rq
      BY <2>8, <2>10 DEF MigrateReady
    <3> QED BY <2>9, <3>3, <3>4, <3>5, <3>6, <3>7
  <2>11. ASSUME HaltMigration(uni, dk) PROVE TypeOK'
    <3>1. PICK t \in StaleMigrations(uni),
               M \in SUBSET (ReadyMigrations(uni) \ StaleMigrations(uni)) :
          \E B \in SUBSET (CoveredBy[t] \ (rq.complete \cup Unskippable)) :
            /\ hash' = MigratedHash(uni, PendingMigrations(uni) \ (M \cup {t}))
            /\ build_stamps' = Restrict(build_stamps, DOMAIN build_stamps \ M)
            /\ sq' = [Reset(sq, M, uni) EXCEPT !.done = @ \ ({t} \cup B)]
            /\ rq' = [rq EXCEPT !.failed = @ \cup {t}, !.state = "CleanUp"]
            /\ disk' = dk
            /\ UNCHANGED hold
      BY <2>11 DEF HaltMigration
    <3>2. t \in Tasks /\ M \in SUBSET Setscene
      BY <2>6, GraphAssumption
    <3>3. Reset(sq, M, uni) \in SqType
      BY <2>3, <3>2, ResetType
    <3>4. sq' \in SqType
      BY <3>1, <3>3 DEF SqType
    <3>5. rq' \in RqType
      <4>1. rq' = [rq EXCEPT !.failed = @ \cup {t}, !.state = "CleanUp"]
        BY <3>1
      <4> QED BY <3>2, <4>1 DEF RqType, States
    <3>6. hash' \in HashType
      BY <2>5, <2>7, <3>1
    <3>7. DOMAIN build_stamps' \subseteq Tasks /\ disk' \in DiskType /\ hold' = hold
      BY <2>4, <2>8, <3>1
    <3> QED BY <2>9, <3>4, <3>5, <3>6, <3>7
  <2> QED BY <2>2, <2>10, <2>11
<1> QED BY <1>1, <1>2

(* Choosing a setscene task. *)
LEMMA SceneType ==
  ASSUME TypeOK,
         \/ \E s \in Setscene : SceneSkip(s) \/ SceneFailOutright(s) \/ SceneRun(s)
         \/ SceneNone
  PROVE  TypeOK'
<1> USE DEF TypeOK
<1>1. ASSUME NEW s \in Setscene, SceneSkip(s) PROVE TypeOK'
  <2>1. SqTaskSkip(DropDeferred(sq, s), {s}) \in SqType
    BY DropDeferredType, SqTaskSkipType
  <2> QED BY <1>1, <2>1, ReturnType DEF SceneSkip
<1>2. ASSUME NEW s \in Setscene, SceneFailOutright(s) PROVE TypeOK'
  <2>1. SqTaskFailOutright(DropDeferred(sq, s), s, disk) \in SqType
    BY DropDeferredType, SqTaskFailOutrightType
  <2> QED BY <1>2, <2>1, ReturnType DEF SceneFailOutright
<1>3. ASSUME NEW s \in Setscene, SceneRun(s) PROVE TypeOK'
  <2>1. DropDeferred(sq, s) \in SqType
    BY DropDeferredType
  <2>2. sq' \in SqType
    BY <1>3, <2>1 DEF SceneRun, SqType
  <2>3. DOMAIN build_stamps' \subseteq Tasks
    BY <1>3, GraphAssumption DEF SceneRun
  <2>4. procs' \subseteq ProcType
    <3>1. [task |-> s, scene |-> TRUE, status |-> "running"] \in ProcType
      BY DEF ProcType
    <3> QED BY <1>3, <3>1 DEF SceneRun
  <2>5. pc' \in Pcs
    BY <1>3, ReturnType DEF SceneRun, Pcs
  <2> QED BY <1>3, <2>2, <2>3, <2>4, <2>5 DEF SceneRun
<1>4. ASSUME SceneNone PROVE TypeOK'
  BY <1>4 DEF SceneNone, Pcs
<1> QED BY <1>1, <1>2, <1>3, <1>4

(* The end of the setscene phase. *)
LEMMA SettledType ==
  ASSUME TypeOK
  PROVE  SettledHold \in HoldType /\ SettledBuildable \in SUBSET Tasks
<1> USE DEF TypeOK
<1>1. NotCovered \subseteq Tasks /\ Covered \subseteq Tasks
  BY DEF NotCovered, Covered, SqType
<1>2. HeldOff \subseteq Tasks
  <2>1. \A s \in Setscene : CoveredBy[s] \subseteq Tasks
    BY DEF CoveredBy, RealTasks
  <2>2. Undecided \subseteq Setscene
    BY DEF Undecided
  <2> QED BY <2>1, <2>2, GraphAssumption DEF HeldOff
<1>3. SettledHold \in HoldType
  BY <1>1, <1>2 DEF SettledHold, HoldType
<1>4. SettledBuildable \in SUBSET Tasks
  BY <1>1 DEF SettledBuildable, RqType
<1> QED BY <1>3, <1>4

(* update_holdofftasks() and the end of the setscene phase do. *)
LEMMA SettleType ==
  ASSUME TypeOK, Settle
  PROVE  TypeOK'
<1> USE DEF TypeOK
<1> DEFINE ended == SceneFinished(SettledHold)
           err   == ended /\ SceneErrors(SettledBuildable, SettledHold)
           only  == ended /\ ~err /\ SetsceneOnly
<1>1. /\ sq' = [sq EXCEPT !.need_update = FALSE]
      /\ hold' = [SettledHold EXCEPT !.sqdone = (@ \/ (ended /\ ~err /\ ~only))]
      /\ rq' = [rq EXCEPT !.buildable = SettledBuildable,
                          !.state = IF err THEN "Failed" ELSE IF only THEN "Complete" ELSE @]
      /\ pc' = IF err \/ only THEN "teardown" ELSE "task"
      /\ UNCHANGED <<hash, build_stamps, procs, disk, env>>
  BY DEF Settle
<1> HIDE DEF ended, err, only
<1>2. sq' \in SqType
  BY <1>1 DEF SqType
<1>3. hold' \in HoldType
  BY <1>1, SettledType DEF HoldType
<1>4. rq' \in RqType
  <2> DEFINE st == IF err THEN "Failed" ELSE IF only THEN "Complete" ELSE rq.state
  <2>1. st \in States
    BY DEF RqType, States
  <2> HIDE DEF st
  <2>2. [rq EXCEPT !.buildable = SettledBuildable, !.state = st] \in RqType
    BY <2>1, SettledType DEF RqType
  <2> QED BY <1>1, <2>2 DEF st
<1> QED BY <1>1, <1>2, <1>3, <1>4 DEF Pcs

(* Choosing a real task. *)
LEMMA TaskType ==
  ASSUME TypeOK,
         \/ \E t \in Tasks : \/ TaskForbidden(t) \/ TaskSkipped(t) \/ TaskNoExec(t)
                             \/ TaskSpawnFails(t) \/ TaskRun(t)
         \/ TaskNone
         \/ WriteFails
  PROVE  TypeOK'
<1> USE DEF TypeOK
<1>1. ASSUME NEW t \in Tasks, TaskForbidden(t) PROVE TypeOK'
  BY <1>1, TaskFailType, ReturnType DEF TaskForbidden
<1>2. ASSUME NEW t \in Tasks, TaskSkipped(t) PROVE TypeOK'
  <2>1. rq' \in RqType
    <3> DEFINE r == TaskSkip(rq, t)
    <3>1. r \in RqType
      BY TaskSkipType
    <3>2. rq' = [r EXCEPT !.tasksrun = IF t \in hold.covered THEN @ ELSE @ \cup {t}]
      BY <1>2 DEF TaskSkipped
    <3> HIDE DEF r
    <3> QED BY <3>1, <3>2 DEF RqType
  <2>2. sq' \in SqType
    BY <1>2, UndeferType DEF TaskSkipped
  <2>3. disk' \in DiskType
    BY <1>2, UndeferMakesStampsType DEF TaskSkipped
  <2> QED BY <1>2, <2>1, <2>2, <2>3, ReturnType DEF TaskSkipped
<1>3. ASSUME NEW t \in Tasks, TaskNoExec(t) PROVE TypeOK'
  <2>1. rq' \in RqType
    <3> DEFINE r == [rq EXCEPT !.running = @ \cup {t}, !.active = @ + 1]
    <3>1. r \in RqType
      BY TaskActiveType
    <3>2. rq' = TaskComplete(r, t)
      BY <1>3 DEF TaskNoExec
    <3> HIDE DEF r
    <3> QED BY <3>1, <3>2, TaskCompleteType
  <2> DEFINE dk == IF Enforce THEN disk ELSE MakeStamp(disk, t)
  <2>2. dk \in DiskType
    BY MakeStampType
  <2>3. /\ \E avail \in SUBSET Setscene : sq' = Undefer(sq, t, dk, avail)
        /\ disk' = UndeferMakesStamps(sq, t, dk)
    BY <1>3 DEF TaskNoExec
  <2> HIDE DEF dk
  <2>4. sq' \in SqType /\ disk' \in DiskType
    BY <2>2, <2>3, UndeferType, UndeferMakesStampsType
  <2> QED BY <1>3, <2>1, <2>4, ReturnType DEF TaskNoExec
<1>4. ASSUME NEW t \in Tasks, TaskSpawnFails(t) PROVE TypeOK'
  <2>1. Decrement(rq.active) \in Int
    BY DecrementType DEF RqType
  <2> QED BY <1>4, <2>1 DEF TaskSpawnFails, RqType, States, Pcs
<1>5. ASSUME NEW t \in Tasks, TaskRun(t) PROVE TypeOK'
  <2>1. rq' \in RqType
    BY <1>5, TaskActiveType DEF TaskRun
  <2>2. DOMAIN build_stamps' \subseteq Tasks
    BY <1>5 DEF TaskRun
  <2>3. procs' \subseteq ProcType
    <3>1. [task |-> t, scene |-> FALSE, status |-> "running"] \in ProcType
      BY DEF ProcType
    <3> QED BY <1>5, <3>1 DEF TaskRun
  <2>4. pc' \in Pcs
    BY <1>5, ReturnType DEF TaskRun, Pcs
  <2> QED BY <1>5, <2>1, <2>2, <2>3, <2>4 DEF TaskRun
<1>6. ASSUME TaskNone PROVE TypeOK'
  BY <1>6 DEF TaskNone, Pcs
<1>7. ASSUME WriteFails PROVE TypeOK'
  <2>1. rq' = [rq EXCEPT !.state = "Complete"] /\ pc' = "end" /\ procs' = {}
    BY <1>7 DEF WriteFails
  <2>2. rq' \in RqType
    BY <2>1 DEF RqType, States
  <2>3. env' \in EnvType
    BY <1>7 DEF WriteFails, EnvType
  <2> QED BY <1>7, <2>1, <2>2, <2>3 DEF WriteFails, Pcs
<1> QED BY <1>1, <1>2, <1>3, <1>4, <1>5, <1>6, <1>7

(* The end of execute(). *)
LEMMA WaitType ==
  ASSUME TypeOK, WaitForTasks \/ ForceDeferred \/ Conclude \/ Ended
  PROVE  TypeOK'
<1> USE DEF TypeOK
<1>1. ASSUME WaitForTasks PROVE TypeOK'
  BY <1>1, PolledType DEF WaitForTasks, RqType, Pcs
<1>2. ASSUME ForceDeferred PROVE TypeOK'
  BY <1>2, DropDeferredType, ReturnType DEF ForceDeferred
<1>3. ASSUME Conclude PROVE TypeOK'
  BY <1>3 DEF Conclude, RqType, States, Pcs
<1>4. ASSUME Ended PROVE TypeOK'
  BY <1>4 DEF Ended, vars
<1> QED BY <1>1, <1>2, <1>3, <1>4

----------------------------------------------------------------------------
(* The theorems.                                                           *)

(* Whatever the task graph, the options and the interleaving of cooker and *)
(* workers, every part of the state keeps the shape the code gives it.     *)
THEOREM TypeCorrect == Spec => []TypeOK
<1>1. Init => TypeOK
  BY InitType
<1>2. TypeOK /\ [Next]_vars => TypeOK'
  <2> SUFFICES ASSUME TypeOK, [Next]_vars PROVE TypeOK'
    OBVIOUS
  <2>1. CASE Next
    BY <2>1, OutsideType, TickType, ReadType, MigrateType, SceneType, SettleType,
       TaskType, WaitType DEF Next, CookerStep
  <2>2. CASE UNCHANGED vars
    BY <2>2 DEF TypeOK, vars
  <2> QED BY <2>1, <2>2
<1> QED BY <1>1, <1>2, PTL DEF Spec

----------------------------------------------------------------------------
(* DepsComplete only depends on rq.                                        *)

RqDepsComplete(r) ==
  \A t \in r.buildable \cup r.running : Depends[t] \subseteq r.complete

(* Completing a task releases only tasks whose dependencies are complete. *)
LEMMA TaskCompleteOutrightDeps ==
  ASSUME NEW r \in RqType, NEW t \in Tasks, RqDepsComplete(r)
  PROVE  RqDepsComplete(TaskCompleteOutright(r, t))
<1> DEFINE c == r.complete \cup {t}
           b == r.buildable \cup {d \in Revdeps[t] \ r.running : Depends[d] \subseteq c}
<1>1. TaskCompleteOutright(r, t) = [r EXCEPT !.complete = c, !.buildable = b]
  BY DEF TaskCompleteOutright
<1>2. \A d \in b \cup r.running : Depends[d] \subseteq c
  BY DEF RqDepsComplete
<1> HIDE DEF c, b
<1> QED BY <1>1, <1>2 DEF RqDepsComplete, RqType

(* So does task_complete(). *)
LEMMA TaskCompleteDeps ==
  ASSUME NEW r \in RqType, NEW t \in Tasks, RqDepsComplete(r)
  PROVE  RqDepsComplete(TaskComplete(r, t))
<1> DEFINE r1 == TaskCompleteOutright(r, t)
<1>1. r1 \in RqType /\ RqDepsComplete(r1)
  BY TaskCompleteOutrightType, TaskCompleteOutrightDeps
<1> HIDE DEF r1
<1>2. ASSUME NEW n
      PROVE  RqDepsComplete([r1 EXCEPT !.tasksrun = @ \cup {t}, !.active = n])
  BY <1>1 DEF RqDepsComplete, RqType
<1> QED BY <1>2 DEF TaskComplete, r1

(* So does task_fail(). *)
LEMMA TaskFailDeps ==
  ASSUME NEW r \in RqType, NEW t \in Tasks, RqDepsComplete(r)
  PROVE  RqDepsComplete(TaskFail(r, t))
<1>1. /\ TaskFail(r, t).buildable = r.buildable
      /\ TaskFail(r, t).running = r.running
      /\ TaskFail(r, t).complete = r.complete
  BY DEF TaskFail, RqType
<1> QED BY <1>1 DEF RqDepsComplete

(* A task may be started or skipped once its dependencies are complete. *)
LEMMA TaskActiveDeps ==
  ASSUME NEW r \in RqType, NEW t \in Tasks, RqDepsComplete(r), Depends[t] \subseteq r.complete
  PROVE  RqDepsComplete([r EXCEPT !.running = @ \cup {t}, !.active = @ + 1])
BY DEF RqDepsComplete, RqType

(* So does skipping a task whose dependencies are complete. *)
LEMMA TaskSkipDeps ==
  ASSUME NEW r \in RqType, NEW t \in Tasks, RqDepsComplete(r), Depends[t] \subseteq r.complete
  PROVE  RqDepsComplete(TaskSkip(r, t))
<1> DEFINE r1 == [r EXCEPT !.running = @ \cup {t}, !.buildable = @ \cup {t}]
<1>1. r1 \in RqType
  BY DEF RqType
<1>2. RqDepsComplete(r1)
  BY DEF RqDepsComplete, RqType
<1> QED BY <1>1, <1>2, TaskCompleteOutrightDeps DEF TaskSkip

(* The scheduler only picks buildable tasks. *)
LEMMA CandidateDeps ==
  ASSUME RqDepsComplete(rq), NEW t \in TaskCandidates
  PROVE  Depends[t] \subseteq rq.complete
BY DEF TaskCandidates, RqDepsComplete

(* Every step keeps the dependencies of buildable and started tasks        *)
(* complete.                                                               *)
LEMMA DepsCompleteStep ==
  ASSUME TypeOK, RqDepsComplete(rq), Next
  PROVE  RqDepsComplete(rq')
<1> DEFINE Same == /\ rq'.buildable = rq.buildable
                   /\ rq'.running = rq.running
                   /\ rq'.complete = rq.complete
<1>1. rq \in RqType
  BY DEF TypeOK
<1>2. ASSUME Same PROVE RqDepsComplete(rq')
  BY <1>2 DEF RqDepsComplete
<1>3. ASSUME rq' = rq PROVE RqDepsComplete(rq')
  BY <1>3 DEF RqDepsComplete
<1>4. CASE FinishNow \/ Finish \/ Execute \/ WaitForTasks \/ Conclude \/ WriteFails
  <2>1. \E st : rq' = [rq EXCEPT !.state = st]
    BY <1>4 DEF FinishNow, Finish, Execute, WaitForTasks, Conclude, WriteFails
  <2>2. Same
    BY <1>1, <2>1 DEF RqType
  <2> QED BY <1>2, <2>2
<1>5. ASSUME NEW p \in procs, ReadExit(p) PROVE RqDepsComplete(rq')
  <2>1. p.task \in Tasks
    BY GraphAssumption DEF TypeOK, ProcType
  <2>2. \/ rq' = rq
        \/ rq' = [rq EXCEPT !.state = "CleanUp"]
        \/ rq' = TaskComplete(rq, p.task)
        \/ rq' = TaskFail(rq, p.task)
    BY <1>5 DEF ReadExit
  <2>3. CASE rq' = [rq EXCEPT !.state = "CleanUp"]
    <3>1. Same
      BY <1>1, <2>3 DEF RqType
    <3> QED BY <1>2, <3>1
  <2> QED BY <1>1, <1>3, <2>1, <2>2, <2>3, TaskCompleteDeps, TaskFailDeps
<1>6. CASE Migrate
  <2>1. \E uni, dk : MigrateReady(uni, dk) \/ HaltMigration(uni, dk)
    BY <1>6 DEF Migrate
  <2>2. rq' = rq \/ \E t : rq' = [rq EXCEPT !.failed = @ \cup {t}, !.state = "CleanUp"]
    BY <2>1 DEF MigrateReady, HaltMigration
  <2>3. Same
    BY <1>1, <2>2 DEF RqType
  <2> QED BY <1>2, <2>3
<1>7. CASE Settle
  <2>1. \E st : rq' = [rq EXCEPT !.buildable = SettledBuildable, !.state = st]
    BY <1>7 DEF Settle
  <2>2. /\ rq'.buildable = SettledBuildable
        /\ rq'.running = rq.running
        /\ rq'.complete = rq.complete
    BY <1>1, <2>1 DEF RqType
  <2>3. \A t \in SettledBuildable : Depends[t] \subseteq rq.complete
    BY DEF SettledBuildable, RqDepsComplete
  <2> QED BY <2>2, <2>3 DEF RqDepsComplete
<1>8. ASSUME NEW t \in Tasks, TaskForbidden(t) PROVE RqDepsComplete(rq')
  BY <1>1, <1>8, TaskFailDeps DEF TaskForbidden
<1>9. ASSUME NEW t \in Tasks, TaskSkipped(t) PROVE RqDepsComplete(rq')
  <2> DEFINE r == TaskSkip(rq, t)
  <2>1. r \in RqType
    BY <1>1, TaskSkipType
  <2>2. RqDepsComplete(r)
    BY <1>1, <1>9, TaskSkipDeps, CandidateDeps DEF TaskSkipped
  <2>3. \E ran : rq' = [r EXCEPT !.tasksrun = ran]
    BY <1>9 DEF TaskSkipped
  <2> HIDE DEF r
  <2> QED BY <2>1, <2>2, <2>3 DEF RqDepsComplete, RqType
<1>10. ASSUME NEW t \in Tasks, TaskNoExec(t) PROVE RqDepsComplete(rq')
  <2> DEFINE r == [rq EXCEPT !.running = @ \cup {t}, !.active = @ + 1]
  <2>1. r \in RqType
    BY <1>1, TaskActiveType
  <2>2. RqDepsComplete(r)
    BY <1>1, <1>10, TaskActiveDeps, CandidateDeps DEF TaskNoExec, MustRun
  <2>3. rq' = TaskComplete(r, t)
    BY <1>10 DEF TaskNoExec
  <2> HIDE DEF r
  <2> QED BY <2>1, <2>2, <2>3, TaskCompleteDeps
<1>11. ASSUME NEW t \in Tasks, TaskSpawnFails(t) PROVE RqDepsComplete(rq')
  <2>1. Same
    BY <1>1, <1>11 DEF TaskSpawnFails, RqType
  <2> QED BY <1>2, <2>1
<1>12. ASSUME NEW t \in Tasks, TaskRun(t) PROVE RqDepsComplete(rq')
  BY <1>1, <1>12, TaskActiveDeps, CandidateDeps DEF TaskRun, MustRun
<1>13. CASE \/ Teardown \/ ReadDone \/ MigrateNothing
            \/ \E s \in Setscene : SceneSkip(s) \/ SceneFailOutright(s) \/ SceneRun(s)
            \/ SceneNone \/ TaskNone \/ ForceDeferred
            \/ \E p \in procs : WorkerExit(p) \/ ReadUnihash(p)
            \/ WorkerDies \/ StopRequest \/ Ended
  <2>1. rq' = rq
    BY <1>13 DEF Teardown, ReadDone, MigrateNothing, SceneSkip, SceneFailOutright, SceneRun,
       SceneNone, TaskNone, ForceDeferred, WorkerExit, ReadUnihash,
       WorkerDies, StopRequest, Ended, vars
  <2> QED BY <1>3, <2>1
<1> QED
  BY <1>4, <1>5, <1>6, <1>7, <1>8, <1>9, <1>10, <1>11, <1>12, <1>13
  DEF Next, CookerStep

(* No interleaving of worker exits, rehashing, setscene decisions and      *)
(* scheduling makes a task buildable, let alone starts it, before          *)
(* everything it depends on is complete.                                   *)
THEOREM DepsCompleteInvariant == Spec => []DepsComplete
<1>1. Init => RqDepsComplete(rq)
  <2> SUFFICES ASSUME Init PROVE RqDepsComplete(rq)
    OBVIOUS
  <2>1. rq.running = {} /\ \A t \in rq.buildable : Depends[t] = {}
    BY DEF Init, InitialBuildable
  <2> QED BY <2>1 DEF RqDepsComplete
<1>2. TypeOK /\ RqDepsComplete(rq) /\ [Next]_vars => RqDepsComplete(rq)'
  <2> SUFFICES ASSUME TypeOK, RqDepsComplete(rq), [Next]_vars PROVE RqDepsComplete(rq')
    OBVIOUS
  <2>1. CASE Next
    BY <2>1, DepsCompleteStep
  <2>2. CASE UNCHANGED vars
    BY <2>2 DEF vars
  <2> QED BY <2>1, <2>2
<1>3. RqDepsComplete(rq) => DepsComplete
  BY DEF RqDepsComplete, DepsComplete
<1> QED BY <1>1, <1>2, <1>3, TypeCorrect, PTL DEF Spec

----------------------------------------------------------------------------
(* What was decided stays decided, except where a migration resets it.     *)

StaysDecided(q, r) == q.covered \subseteq r.covered /\ q.notcovered \subseteq r.notcovered

(* scenequeue_updatecounters() takes no decision back. *)
LEMMA DecideStays ==
  ASSUME NEW q \in SqType, NEW C, NEW N
  PROVE  StaysDecided(q, Decide(q, C, N))
BY DEF StaysDecided, Decide, SqType

(* Nor does sq_task_skip(). *)
LEMMA SqTaskSkipStays ==
  ASSUME NEW q \in SqType, NEW T \in SUBSET Setscene
  PROVE  StaysDecided(q, SqTaskSkip(q, T))
<1> DEFINE q1 == [q EXCEPT !.running = @ \cup T, !.buildable = @ \cup T]
<1>1. q1 \in SqType /\ q1.covered = q.covered /\ q1.notcovered = q.notcovered
  BY DEF SqType
<1> QED BY <1>1, DecideStays DEF SqTaskSkip, StaysDecided

(* Nor does sq_task_failoutright(). *)
LEMMA SqTaskFailOutrightStays ==
  ASSUME NEW q \in SqType, NEW t, NEW dk
  PROVE  StaysDecided(q, SqTaskFailOutright(q, t, dk))
<1> DEFINE F  == FailClosure(q, t, dk)
           q1 == [q EXCEPT !.running = @ \cup F, !.buildable = @ \cup F]
<1>1. F \in SUBSET Setscene
  BY FailClosureType
<1> HIDE DEF F
<1>2. q1 \in SqType /\ q1.covered = q.covered /\ q1.notcovered = q.notcovered
  BY <1>1 DEF SqType
<1> QED BY <1>2, DecideStays DEF SqTaskFailOutright, StaysDecided, F

(* Nor does sq_task_fail(). *)
LEMMA SqTaskFailStays ==
  ASSUME NEW q \in SqType, NEW t, NEW dk
  PROVE  StaysDecided(q, SqTaskFail(q, t, dk))
<1> DEFINE F  == FailClosure(q, t, dk)
           q1 == [q EXCEPT !.running = @ \cup (F \ {t}), !.buildable = @ \cup (F \ {t})]
<1>1. F \in SUBSET Setscene
  BY FailClosureType
<1> HIDE DEF F
<1>2. q1 \in SqType /\ q1.covered = q.covered /\ q1.notcovered = q.notcovered
  BY <1>1 DEF SqType
<1> QED BY <1>2, DecideStays DEF SqTaskFail, StaysDecided, F

(* Nor does update_scenequeue_data(). *)
LEMMA UpdateSceneQueueDataStays ==
  ASSUME NEW q \in SqType, NEW T \in SUBSET Setscene, NEW dk, NEW avail
  PROVE  StaysDecided(q, UpdateSceneQueueData(q, T, dk, avail))
<1> DEFINE present == (T \ NoExec) \cap (dk.scene \cup RecursivelyCurrent(dk))
           skipped == present \cup (T \cap NoExec)
           q1      == IF skipped = {} THEN q ELSE SqTaskSkip(q, skipped)
<1>1. skipped \in SUBSET Setscene
  OBVIOUS
<1> HIDE DEF skipped
<1>2. q1 \in SqType /\ StaysDecided(q, q1)
  BY <1>1, SqTaskSkipType, SqTaskSkipStays DEF StaysDecided
<1> HIDE DEF q1
<1>3. ASSUME NEW v, NEW o
      PROVE  StaysDecided(q, [q1 EXCEPT !.valid = v, !.outrightfail = o])
  BY <1>2 DEF StaysDecided, SqType
<1> QED BY <1>3 DEF UpdateSceneQueueData, q1, skipped, present

(* Nor does letting a deferred task go. *)
LEMMA UndeferStays ==
  ASSUME NEW q \in SqType, NEW t, NEW dk, NEW avail \in SUBSET Setscene
  PROVE  StaysDecided(q, Undefer(q, t, dk, avail))
<1> DEFINE waiting == {s \in DOMAIN q.deferred : q.deferred[s] = t}
           found   == CHOOSE s \in waiting : TRUE
           rest    == [s \in DOMAIN q.deferred \ {found} |->
                         IF s \in waiting THEN found ELSE q.deferred[s]]
           q1      == [q EXCEPT !.deferred = rest]
<1>1. CASE waiting = {}
  BY <1>1 DEF Undefer, StaysDecided
<1>2. CASE waiting # {}
  <2>1. DOMAIN q.deferred \in SUBSET Setscene /\ q.deferred \in [DOMAIN q.deferred -> Setscene]
    BY PartialElim DEF SqType
  <2>2. found \in waiting /\ found \in Setscene
    BY <1>2, <2>1
  <2> HIDE DEF found
  <2>3. rest \in Partial(Setscene, Setscene)
    <3>1. rest \in [DOMAIN q.deferred \ {found} -> Setscene]
      BY <2>1, <2>2
    <3> QED BY <2>1, <3>1, PartialIntro
  <2> HIDE DEF rest
  <2>4. q1 \in SqType /\ q1.covered = q.covered /\ q1.notcovered = q.notcovered
    BY <2>3 DEF SqType
  <2> HIDE DEF q1
  <2>5. StaysDecided(q1, UpdateSceneQueueData(q1, {found}, dk, avail))
    BY <2>2, <2>4, UpdateSceneQueueDataStays
  <2>6. Undefer(q, t, dk, avail) = UpdateSceneQueueData(q1, {found}, dk, avail)
    BY <1>2 DEF Undefer, q1, rest, found
  <2> QED BY <2>4, <2>5, <2>6 DEF StaysDecided
<1> QED BY <1>1, <1>2

(* Nor does dropping a deferral. *)
LEMMA DropDeferredStays ==
  ASSUME NEW q \in SqType, NEW s
  PROVE  StaysDecided(q, DropDeferred(q, s))
BY DEF StaysDecided, DropDeferred, SqType

----------------------------------------------------------------------------
(* The end of the setscene phase is final while the build runs.            *)

(* A stop or a failure is never taken back. *)
LEMMA RunningBefore ==
  ASSUME TypeOK, Next, rq'.state = "Running"
  PROVE  rq.state = "Running"
<1>1. rq \in RqType
  BY DEF TypeOK
<1>2. CASE FinishNow \/ Finish \/ Conclude \/ WriteFails
  <2>1. \E st \in States \ {"Running"} : rq' = [rq EXCEPT !.state = st]
    BY <1>2 DEF FinishNow, Finish, Conclude, WriteFails, Polled, Outcome, States
  <2> QED BY <1>1, <2>1 DEF RqType
<1>3. ASSUME NEW p \in procs, ReadExit(p) PROVE rq.state = "Running"
  <2>1. \/ rq' = rq
        \/ rq' = [rq EXCEPT !.state = "CleanUp"]
        \/ rq' = TaskComplete(rq, p.task)
        \/ rq' = TaskFail(rq, p.task)
    BY <1>3 DEF ReadExit
  <2> QED BY <1>1, <2>1 DEF RqType, TaskComplete, TaskCompleteOutright, TaskFail
<1>4. CASE WaitForTasks
  <2>1. rq'.state = Polled(rq.state)
    BY <1>1, <1>4 DEF WaitForTasks, RqType
  <2> QED BY <2>1 DEF Polled, Outcome
<1>5. CASE Migrate
  <2>1. \E uni, dk : MigrateReady(uni, dk) \/ HaltMigration(uni, dk)
    BY <1>5 DEF Migrate
  <2>2. rq' = rq \/ \E t : rq' = [rq EXCEPT !.failed = @ \cup {t}, !.state = "CleanUp"]
    BY <2>1 DEF MigrateReady, HaltMigration
  <2> QED BY <1>1, <2>2 DEF RqType
<1>6. CASE Settle
  <2>1. \E st \in {rq.state, "Failed", "Complete"} :
           rq' = [rq EXCEPT !.buildable = SettledBuildable, !.state = st]
    BY <1>6 DEF Settle
  <2> QED BY <1>1, <2>1 DEF RqType
<1>7. ASSUME NEW t \in Tasks, TaskForbidden(t) \/ TaskSpawnFails(t) PROVE rq.state = "Running"
  BY <1>1, <1>7 DEF TaskForbidden, TaskSpawnFails, TaskFail, RqType
<1>8. ASSUME NEW t \in Tasks, TaskSkipped(t) \/ TaskNoExec(t) \/ TaskRun(t)
      PROVE  rq.state = "Running"
  BY <1>1, <1>8
  DEF TaskSkipped, TaskNoExec, TaskRun, TaskSkip, TaskComplete, TaskCompleteOutright, RqType
<1>9. CASE \/ Execute \/ Teardown \/ ReadDone \/ MigrateNothing
           \/ \E s \in Setscene : SceneSkip(s) \/ SceneFailOutright(s) \/ SceneRun(s)
           \/ SceneNone \/ TaskNone \/ ForceDeferred
           \/ \E p \in procs : WorkerExit(p) \/ ReadUnihash(p)
           \/ WorkerDies \/ StopRequest \/ Ended
  BY <1>9 DEF Execute, Teardown, ReadDone, MigrateNothing, SceneSkip, SceneFailOutright, SceneRun,
     SceneNone, TaskNone, ForceDeferred, WorkerExit, ReadUnihash,
     WorkerDies, StopRequest, Ended, vars
<1> QED
  BY <1>2, <1>3, <1>4, <1>5, <1>6, <1>7, <1>8, <1>9 DEF Next, CookerStep

(* Whatever leaves hold alone and takes no decision back keeps the setscene *)
(* phase ended.                                                            *)
LEMMA SceneDoneKept ==
  ASSUME SceneDoneDecided, rq'.state = "Running" => rq.state = "Running",
         hold' = hold, StaysDecided(sq, sq')
  PROVE  SceneDoneDecided'
BY DEF SceneDoneDecided, Undecided, StaysDecided

(* A migration that resets a setscene task starts the phase again. *)
LEMMA SceneDoneMigrate ==
  ASSUME TypeOK, SceneDoneDecided, rq'.state = "Running" => rq.state = "Running", Migrate
  PROVE  SceneDoneDecided'
<1>1. PICK uni, dk : MigrateReady(uni, dk) \/ HaltMigration(uni, dk)
  BY DEF Migrate
<1> DEFINE ready == ReadyMigrations(uni)
<1>2. CASE MigrateReady(uni, dk) /\ ready = {}
  <2>1. hold' = hold
    BY <1>2 DEF MigrateReady, Reopen, TypeOK, HoldType
  <2>2. sq' = [sq EXCEPT !.need_update = (@ \/ Changed(uni) # {})]
    BY <1>2 DEF MigrateReady
  <2>3. StaysDecided(sq, sq')
    BY <2>2 DEF StaysDecided, TypeOK, SqType
  <2> QED BY <2>1, <2>3, SceneDoneKept
<1>3. CASE MigrateReady(uni, dk) /\ ready # {}
  <2>1. hold'.sqdone = FALSE
    BY <1>3 DEF MigrateReady, Reopen, TypeOK, HoldType
  <2> QED BY <2>1 DEF SceneDoneDecided
<1>4. CASE HaltMigration(uni, dk)
  <2>1. rq'.state = "CleanUp"
    BY <1>4 DEF HaltMigration, TypeOK, RqType
  <2> QED BY <2>1 DEF SceneDoneDecided
<1> QED BY <1>1, <1>2, <1>3, <1>4

(* update_holdofftasks() holds nothing off once the phase has ended, and   *)
(* the phase ends only when all is decided.                                *)
LEMMA SceneDoneSettle ==
  ASSUME TypeOK, SceneDoneDecided, rq'.state = "Running" => rq.state = "Running", Settle
  PROVE  SceneDoneDecided'
<1> DEFINE h     == SettledHold
           ended == SceneFinished(h)
           err   == ended /\ SceneErrors(SettledBuildable, h)
           only  == ended /\ ~err /\ SetsceneOnly
<1>1. sq'.covered = sq.covered /\ sq'.notcovered = sq.notcovered
  BY DEF Settle, TypeOK, SqType
<1>2. Undecided' = Undecided
  BY <1>1 DEF Undecided
<1>3. h \in HoldType
  BY SettledType
<1>4. hold' = [h EXCEPT !.sqdone = (@ \/ (ended /\ ~err /\ ~only))]
  BY DEF Settle
<1>5. hold'.tasks = h.tasks
  BY <1>3, <1>4 DEF HoldType
<1>6. h.sqdone = hold.sqdone
  BY DEF SettledHold, TypeOK, HoldType
<1>7. ASSUME hold.sqdone, rq.state = "Running" PROVE Undecided = {} /\ h.tasks = {}
  <2>1. Undecided = {} /\ hold.tasks = {}
    BY <1>7 DEF SceneDoneDecided
  <2>2. HeldOff = {}
    BY <2>1 DEF HeldOff
  <2>3. SettledHold.tasks \in {hold.tasks, HeldOff}
    BY DEF SettledHold, TypeOK, HoldType
  <2> QED BY <2>1, <2>2, <2>3
<1>8. ASSUME ended, ~err PROVE Undecided = {} /\ h.tasks = {}
  <2>1. Setscene \subseteq sq.covered \cup sq.notcovered
    BY <1>8 DEF SceneErrors
  <2> QED BY <1>8, <2>1 DEF SceneFinished, Undecided
<1> HIDE DEF h, ended, err, only
<1>9. hold'.sqdone => hold.sqdone \/ (ended /\ ~err)
  BY <1>3, <1>4, <1>6 DEF HoldType
<1> QED BY <1>2, <1>5, <1>7, <1>8, <1>9 DEF SceneDoneDecided

(* Every other action decides more or leaves the scene queue alone. *)
LEMMA SceneDoneElsewhere ==
  ASSUME TypeOK, Next, ~Migrate, ~Settle
  PROVE  hold' = hold /\ StaysDecided(sq, sq')
<1>1. sq \in SqType
  BY DEF TypeOK
<1>2. CASE sq' = sq /\ hold' = hold
  BY <1>2 DEF StaysDecided
<1>3. ASSUME NEW p \in procs, ReadExit(p) PROVE hold' = hold /\ StaysDecided(sq, sq')
  <2>1. hold' = hold
    BY <1>3 DEF ReadExit
  <2>2. PICK avail \in SUBSET Setscene :
          \/ sq' = [Decide(sq, {p.task}, {}) EXCEPT !.live = @ \ {p.task}] /\ p.task \in sq.live
          \/ sq' = [SqTaskFail(sq, p.task, disk) EXCEPT !.live = @ \ {p.task}]
          \/ sq' = Undefer(sq, p.task, disk, avail)
          \/ sq' = sq
    BY <1>3 DEF ReadExit
  <2>3. CASE sq' = [Decide(sq, {p.task}, {}) EXCEPT !.live = @ \ {p.task}] /\ p.task \in sq.live
    <3> DEFINE q == Decide(sq, {p.task}, {})
    <3>1. {p.task} \in SUBSET Setscene
      BY <1>1, <2>3 DEF SqType
    <3>2. q \in SqType /\ StaysDecided(sq, q)
      BY <1>1, <3>1, DecideType, DecideStays
    <3> HIDE DEF q
    <3>3. sq' = [q EXCEPT !.live = @ \ {p.task}]
      BY <2>3 DEF q
    <3> QED BY <2>1, <3>2, <3>3 DEF StaysDecided, SqType
  <2>4. CASE sq' = [SqTaskFail(sq, p.task, disk) EXCEPT !.live = @ \ {p.task}]
    <3> DEFINE q == SqTaskFail(sq, p.task, disk)
    <3>1. q \in SqType /\ StaysDecided(sq, q)
      BY <1>1, SqTaskFailType, SqTaskFailStays
    <3> HIDE DEF q
    <3>2. sq' = [q EXCEPT !.live = @ \ {p.task}]
      BY <2>4 DEF q
    <3> QED BY <2>1, <3>1, <3>2 DEF StaysDecided, SqType
  <2>5. CASE sq' = Undefer(sq, p.task, disk, avail)
    BY <1>1, <2>1, <2>5, UndeferStays
  <2>6. CASE sq' = sq
    BY <2>1, <2>6 DEF StaysDecided
  <2> QED BY <2>2, <2>3, <2>4, <2>5, <2>6
<1>4. ASSUME NEW s \in Setscene, SceneSkip(s) \/ SceneFailOutright(s) \/ SceneRun(s)
      PROVE  hold' = hold /\ StaysDecided(sq, sq')
  <2> DEFINE q == DropDeferred(sq, s)
  <2>1. q \in SqType /\ StaysDecided(sq, q)
    BY <1>1, DropDeferredType, DropDeferredStays
  <2> HIDE DEF q
  <2>2. CASE SceneSkip(s)
    <3>1. StaysDecided(q, SqTaskSkip(q, {s}))
      BY <2>1, SqTaskSkipStays
    <3>2. sq' = SqTaskSkip(q, {s}) /\ hold' = hold
      BY <2>2 DEF SceneSkip, q
    <3> QED BY <2>1, <3>1, <3>2 DEF StaysDecided
  <2>3. CASE SceneFailOutright(s)
    <3>1. StaysDecided(q, SqTaskFailOutright(q, s, disk))
      BY <2>1, SqTaskFailOutrightStays
    <3>2. sq' = SqTaskFailOutright(q, s, disk) /\ hold' = hold
      BY <2>3 DEF SceneFailOutright, q
    <3> QED BY <2>1, <3>1, <3>2 DEF StaysDecided
  <2>4. CASE SceneRun(s)
    <3>1. sq' = [q EXCEPT !.running = @ \cup {s}, !.live = @ \cup {s}] /\ hold' = hold
      BY <2>4 DEF SceneRun, q
    <3> QED BY <2>1, <3>1 DEF StaysDecided, SqType
  <2> QED BY <1>4, <2>2, <2>3, <2>4
<1>5. ASSUME NEW t \in Tasks, TaskSkipped(t) \/ TaskNoExec(t)
      PROVE  hold' = hold /\ StaysDecided(sq, sq')
  <2>1. hold' = hold /\ \E dk : \E avail \in SUBSET Setscene : sq' = Undefer(sq, t, dk, avail)
    BY <1>5 DEF TaskSkipped, TaskNoExec
  <2> QED BY <1>1, <2>1, UndeferStays
<1>6. CASE ForceDeferred
  BY <1>1, <1>6, DropDeferredStays DEF ForceDeferred
<1>7. CASE \/ FinishNow \/ Finish \/ Execute \/ Teardown \/ ReadDone \/ MigrateNothing
           \/ SceneNone \/ TaskNone \/ WriteFails \/ WaitForTasks \/ Conclude
           \/ \E t \in Tasks : TaskForbidden(t) \/ TaskSpawnFails(t) \/ TaskRun(t)
           \/ \E p \in procs : WorkerExit(p) \/ ReadUnihash(p)
           \/ WorkerDies \/ StopRequest \/ Ended
  <2>1. sq' = sq /\ hold' = hold
    BY <1>7 DEF FinishNow, Finish, Execute, Teardown, ReadDone, MigrateNothing,
       SceneNone, TaskNone, WriteFails, WaitForTasks, Conclude, TaskForbidden,
       TaskSpawnFails, TaskRun, WorkerExit, ReadUnihash, WorkerDies, StopRequest, Ended, vars
  <2> QED BY <1>2, <2>1
<1> QED
  BY <1>3, <1>4, <1>5, <1>6, <1>7 DEF Next, CookerStep

(* Once the search for setscene tasks is closed none of them is undecided  *)
(* and no real task is held off, whatever is rehashed, deferred or         *)
(* reported afterwards: sqdone is set, and reset, at the right moments.    *)
THEOREM SceneDoneInvariant == Spec => []SceneDoneDecided
<1>1. Init => SceneDoneDecided
  <2> SUFFICES ASSUME Init PROVE SceneDoneDecided
    OBVIOUS
  <2>1. hold.sqdone = (Setscene = {}) /\ hold.tasks = {}
    BY DEF Init
  <2> QED BY <2>1 DEF SceneDoneDecided, Undecided
<1>2. TypeOK /\ SceneDoneDecided /\ [Next]_vars => SceneDoneDecided'
  <2> SUFFICES ASSUME TypeOK, SceneDoneDecided, [Next]_vars PROVE SceneDoneDecided'
    OBVIOUS
  <2>1. CASE Next
    <3>1. rq'.state = "Running" => rq.state = "Running"
      BY <2>1, RunningBefore
    <3>2. CASE Migrate
      BY <3>1, <3>2, SceneDoneMigrate
    <3>3. CASE Settle
      BY <3>1, <3>3, SceneDoneSettle
    <3>4. CASE ~Migrate /\ ~Settle
      BY <2>1, <3>1, <3>4, SceneDoneElsewhere, SceneDoneKept
    <3> QED BY <3>2, <3>3, <3>4
  <2>2. CASE UNCHANGED vars
    BY <2>2 DEF vars, SceneDoneDecided, Undecided
  <2> QED BY <2>1, <2>2
<1> QED BY <1>1, <1>2, TypeCorrect, PTL DEF Spec

=============================================================================
