--------------------------- MODULE RunQueueSafety ---------------------------
(***************************************************************************)
(* What keeps the setscene side and the real side of a run queue apart.    *)
(* A setscene task and the tasks it would replace are excluded from each   *)
(* other by sets that are maintained far from where they are read: sq_live, *)
(* runq_running, the covered and notcovered sets, holdoff_tasks, the        *)
(* deferrals.  The theorems say that they never disagree, and what follows *)
(* from that: the counters are exact, tasks that share a stamp run one     *)
(* after the other, a task is built or restored on inputs that exist, the  *)
(* build concludes when nothing is under way, what it reports as complete  *)
(* is complete, the queue implements TaskOrder, the scheduler does not run *)
(* out of work as long as a task can be built, and the setscene tasks that *)
(* would restore the same object do so in turn.                            *)
(*                                                                         *)
(* Two features of the setscene code do disagree when they meet: a hard    *)
(* dependency between setscene tasks fails a task with its parent, and a   *)
(* unihash reported by a worker restarts tasks that were decided.  The     *)
(* theorems are about builds in which one of them is absent; MaxUpdates is *)
(* otherwise arbitrary, but for the deferrals.                             *)
(***************************************************************************)
EXTENDS RunQueueProofs, FiniteSetTheorems

(* No setscene task declares a dependency on another one. *)
NoHardDepends == \A s \in Setscene : HardChildren[s] = {}

(* Hard dependencies and rehashing do not meet. *)
HardOrRehash == NoHardDepends \/ MaxUpdates = 0

(* Hard dependencies meet neither rehashing nor deferrals. *)
HardOrDeferred == NoHardDepends \/ (MaxUpdates = 0 /\ DOMAIN InitialDeferred = {})

(* BB_SETSCENE_ENFORCE is not combined with -k. *)
EnforceHalts == \A o \in Options : ~({"continue", "enforce"} \subseteq o)

----------------------------------------------------------------------------
(* The invariant.                                                          *)

Decided(q) == q.covered \cup q.notcovered

(* A decided task was chosen; one that is live was chosen, is not decided  *)
(* and not deferred.                                                       *)
SqDecided(q) ==
  /\ q.live \subseteq q.buildable \cap q.running
  /\ Decided(q) \subseteq q.buildable \cap q.running
  /\ q.live \cap Decided(q) = {}
  /\ DOMAIN q.deferred \cap q.live = {}

(* An undecided task may be chosen only once the tasks it hard-depends on  *)
(* are decided.                                                            *)
SqHard(q) ==
  \A w \in Setscene : \A s \in (q.buildable \ Decided(q)) \cap HardChildren[w] : w \in Decided(q)

(* Without reports nothing is rehashed. *)
NoRehash == MaxUpdates = 0 => hash.updates = 0 /\ hash.queue = {} /\ hash.pending = {}

(* The real tasks that a setscene task may replace. *)
Around(s) == {s} \cup (CoveredBy[s] \ rq.complete)

HeldOffUndecided(S) == \A s \in S \ Decided(sq) : Around(s) \subseteq hold.tasks

(* holdoff_tasks is recomputed before a real task is chosen; between two   *)
(* computations it protects what may still be restored.                    *)
Fresh ==
  /\ pc = "task" => ~sq.need_update
  /\ ~sq.need_update => HeldOffUndecided(sq.buildable)
  /\ ~sq.need_update /\ rq.state = "Running" => HeldOffUndecided(Setscene)

(* Where a setscene task may still be chosen. *)
Choosing == rq.state = "Running" \/ pc \in {"read", "migrate", "scene"}

(* Neither the real variant of a task of S nor what it covers is running. *)
Idle(S) == \A s \in S : s \notin rq.running /\ Busy(CoveredBy[s]) = {}

Untouched ==
  /\ Idle(sq.live)
  /\ Choosing => Idle(Setscene \ Decided(sq))

(* The processes are those of live setscene tasks and of started real      *)
(* tasks, one for each.                                                    *)
Started ==
  /\ rq.complete \subseteq rq.running
  /\ \A p \in SceneProcs : p.task \in sq.live
  /\ \A p \in RealProcs : p.task \in rq.running \ rq.complete
  /\ \A p, q \in procs : p.task = q.task /\ p.scene = q.scene => p = q

Apart == SqDecided(sq) /\ SqHard(sq) /\ NoRehash /\ Fresh /\ Untouched /\ Started

----------------------------------------------------------------------------
(* What a decision does to the scene queue.                                *)

(* From q to r, C is covered and N is found not covered. *)
Grown(q, r, C, N) ==
  /\ r \in SqType /\ C \in SUBSET Setscene /\ N \in SUBSET Setscene
  /\ r.covered = q.covered \cup C /\ r.notcovered = q.notcovered \cup N
  /\ r.running = q.running \cup C \cup N
  /\ q.buildable \cup C \cup N \subseteq r.buildable
  /\ \A d \in r.buildable : d \in q.buildable \cup C \cup N \/ SqRevdeps[d] \subseteq Decided(r)
  /\ r.live = q.live \ (C \cup N)
  /\ DOMAIN r.deferred \subseteq DOMAIN q.deferred
  /\ r.stamp = q.stamp
  /\ \/ r.need_update
     \/ /\ C \cup N = {} /\ ~q.need_update
        /\ r.buildable = q.buildable /\ r.done = q.done

(* Nothing happens when nothing is decided. *)
LEMMA GrownSame ==
  ASSUME NEW q \in SqType
  PROVE  Grown(q, q, {}, {})
BY DEF Grown, SqType

(* A decision leaves the scene queue consistent. *)
LEMMA GrownSafe ==
  ASSUME NEW q \in SqType, NEW r, NEW C, NEW N, Grown(q, r, C, N), SqDecided(q), SqHard(q)
  PROVE  SqDecided(r) /\ SqHard(r)
<1> USE DEF Grown, Decided
<1>1. SqDecided(r)
  BY DEF SqDecided
<1>2. ASSUME NEW w \in Setscene, NEW s \in (r.buildable \ Decided(r)) \cap HardChildren[w]
      PROVE  w \in Decided(r)
  <2>1. CASE s \in q.buildable
    <3>1. s \in (q.buildable \ Decided(q)) \cap HardChildren[w]
      BY <2>1
    <3> QED BY <3>1 DEF SqHard
  <2>2. CASE SqRevdeps[s] \subseteq Decided(r)
    <3>1. s \in Setscene
      BY DEF SqType
    <3>2. w \in SqRevdeps[s]
      BY <3>1 DEF SqRevdeps
    <3> QED BY <2>2, <3>2
  <2> QED BY <2>1, <2>2
<1> QED BY <1>1, <1>2 DEF SqHard

(* Two changes of the scene queue that decide at most once are a decision. *)
LEMMA DecideGrows ==
  ASSUME NEW q \in SqType, NEW C \in SUBSET Setscene, NEW N \in SUBSET Setscene,
         NEW q1 \in SqType, q1.covered = q.covered, q1.notcovered = q.notcovered,
         q1.running = q.running \cup C \cup N, q1.buildable = q.buildable \cup C \cup N,
         q1.live = q.live, DOMAIN q1.deferred \subseteq DOMAIN q.deferred, q1.stamp = q.stamp
  PROVE  Grown(q, [Decide(q1, C, N) EXCEPT !.live = @ \ (C \cup N)], C, N)
<1> DEFINE d == Decide(q1, C, N)
           r == [d EXCEPT !.live = @ \ (C \cup N)]
<1>1. d \in SqType
  BY DecideType
<1>2. /\ d.covered = q.covered \cup C /\ d.notcovered = q.notcovered \cup N
      /\ d.running = q1.running /\ d.live = q1.live /\ d.deferred = q1.deferred
      /\ d.need_update = TRUE /\ d.stamp = q.stamp
      /\ q1.buildable \subseteq d.buildable
      /\ \A x \in d.buildable : x \in q1.buildable
                                \/ SqRevdeps[x] \subseteq q.covered \cup C \cup q.notcovered \cup N
  BY DEF Decide, SqType
<1> HIDE DEF d
<1>3. /\ r \in SqType
      /\ r.covered = d.covered /\ r.notcovered = d.notcovered /\ r.running = d.running
      /\ r.buildable = d.buildable /\ r.live = d.live \ (C \cup N)
      /\ r.deferred = d.deferred /\ r.need_update = d.need_update /\ r.stamp = d.stamp
  BY <1>1 DEF SqType
<1> HIDE DEF r
<1>4. \A x \in r.buildable : x \in q.buildable \cup C \cup N \/ SqRevdeps[x] \subseteq Decided(r)
  BY <1>2, <1>3 DEF Decided
<1>5. Grown(q, r, C, N)
  BY <1>2, <1>3, <1>4 DEF Grown
<1> QED BY <1>5 DEF r, d

(* The same without a live task among those decided. *)
LEMMA DecideGrowsIdle ==
  ASSUME NEW q \in SqType, NEW C \in SUBSET Setscene, NEW N \in SUBSET Setscene,
         NEW q1 \in SqType, q1.covered = q.covered, q1.notcovered = q.notcovered,
         q1.running = q.running \cup C \cup N, q1.buildable = q.buildable \cup C \cup N,
         q1.live = q.live, DOMAIN q1.deferred \subseteq DOMAIN q.deferred, q1.stamp = q.stamp,
         q.live \cap (C \cup N) = {}
  PROVE  Grown(q, Decide(q1, C, N), C, N)
<1> DEFINE d == Decide(q1, C, N)
<1>1. d \in SqType /\ d.live = q.live
  <2>1. d \in SqType
    BY DecideType
  <2>2. d.live = q1.live
    BY DEF Decide, SqType
  <2> QED BY <2>1, <2>2
<1>2. Grown(q, [d EXCEPT !.live = @ \ (C \cup N)], C, N)
  BY DecideGrows
<1> HIDE DEF d
<1>3. d.live \ (C \cup N) = d.live
  BY <1>1
<1>4. [d EXCEPT !.live = @ \ (C \cup N)] = d
  BY <1>1, <1>3 DEF SqType
<1> QED BY <1>2, <1>4 DEF d

(* A task fails with t only if it is neither decided nor live. *)
LEMMA FailClosureApart ==
  ASSUME NEW q \in SqType, NEW t \in Setscene \ Decided(q), NEW dk,
         SqDecided(q), SqHard(q), t \in q.buildable
  PROVE  /\ t \in FailClosure(q, t, dk)
         /\ FailClosure(q, t, dk) \cap (Decided(q) \cup q.live) \subseteq {t}
         /\ NoHardDepends => FailClosure(q, t, dk) = {t}
<1> DEFINE spared == q.covered \cup q.notcovered \cup NoExec \cup dk.scene \cup RecursivelyCurrent(dk)
           closed(U) == t \in U /\ \A u \in U : HardChildren[u] \ spared \subseteq U
           U1 == {t} \cup (Setscene \ (Decided(q) \cup q.live))
<1>1. FailClosure(q, t, dk) = {s \in Setscene : \A U \in SUBSET Setscene : closed(U) => s \in U}
  BY DEF FailClosure
<1>2. t \in FailClosure(q, t, dk)
  BY <1>1
<1>3. closed(U1)
  <2> SUFFICES ASSUME NEW u \in U1, NEW c \in HardChildren[u], c \notin spared
               PROVE  c \in U1
    OBVIOUS
  <2>1. u \in Setscene /\ u \notin Decided(q)
    OBVIOUS
  <2>2. c \in Setscene
    BY <2>1, GraphAssumption
  <2>3. c \notin Decided(q)
    BY DEF Decided
  <2>4. c \notin q.live
    BY <2>1, <2>3 DEF SqHard, SqDecided
  <2> QED BY <2>2, <2>3, <2>4
<1>4. U1 \in SUBSET Setscene
  OBVIOUS
<1>5. FailClosure(q, t, dk) \subseteq U1
  BY <1>1, <1>3, <1>4
<1>6. ASSUME NoHardDepends PROVE FailClosure(q, t, dk) = {t}
  <2>1. closed({t}) /\ {t} \in SUBSET Setscene
    BY <1>6 DEF NoHardDepends
  <2> QED BY <1>1, <1>2, <2>1
<1> QED BY <1>2, <1>5, <1>6

(* sq_task_skip() of tasks that are not live covers them. *)
LEMMA SqTaskSkipGrows ==
  ASSUME NEW q \in SqType, NEW T \in SUBSET Setscene, q.live \cap T = {}
  PROVE  Grown(q, SqTaskSkip(q, T), T, {})
<1> DEFINE q1 == [q EXCEPT !.running = @ \cup T, !.buildable = @ \cup T]
<1>1. /\ q1 \in SqType /\ q1.covered = q.covered /\ q1.notcovered = q.notcovered
      /\ q1.running = q.running \cup T \cup {} /\ q1.buildable = q.buildable \cup T \cup {}
      /\ q1.live = q.live /\ q1.deferred = q.deferred /\ q1.stamp = q.stamp
  BY DEF SqType
<1>2. SqTaskSkip(q, T) = Decide(q1, T, {})
  BY DEF SqTaskSkip
<1> HIDE DEF q1
<1>3. q.live \cap (T \cup {}) = {}
  OBVIOUS
<1>4. Grown(q, Decide(q1, T, {}), T, {})
  BY <1>1, <1>3, DecideGrowsIdle
<1> QED BY <1>2, <1>4

(* What is looked up in the shared state, unless live, is covered or waits. *)
LEMMA UpdateSceneQueueDataGrows ==
  ASSUME NEW q \in SqType, NEW T \in SUBSET Setscene, NEW dk, NEW avail \in SUBSET Setscene,
         q.live \cap T = {}
  PROVE  \E C \in SUBSET T :
            /\ Grown(q, UpdateSceneQueueData(q, T, dk, avail), C, {})
            /\ UpdateSceneQueueData(q, T, dk, avail).deferred = q.deferred
<1> DEFINE present == (T \ NoExec) \cap (dk.scene \cup RecursivelyCurrent(dk))
           skipped == present \cup (T \cap NoExec)
           q1      == IF skipped = {} THEN q ELSE SqTaskSkip(q, skipped)
           valid   == (q.valid \ T) \cup (avail \cap (T \ skipped))
           decided == skipped \cup valid \cup q1.covered \cup q1.notcovered \cup DOMAIN q.deferred
           r       == [q1 EXCEPT !.valid = valid, !.outrightfail = (@ \ T) \cup (T \ decided)]
<1>1. skipped \in SUBSET T
  OBVIOUS
<1>2. r \in SqType
  BY UpdateSceneQueueDataType DEF UpdateSceneQueueData
<1>3. UpdateSceneQueueData(q, T, dk, avail) = r
  BY DEF UpdateSceneQueueData
<1> HIDE DEF skipped
<1>4. q1 \in SqType
  BY <1>1, SqTaskSkipType
<1>5. Grown(q, q1, skipped, {}) /\ q1.deferred = q.deferred
  <2>1. CASE skipped = {}
    BY <2>1, GrownSame
  <2>2. CASE skipped # {}
    <3>1. Grown(q, SqTaskSkip(q, skipped), skipped, {})
      BY <1>1, SqTaskSkipGrows
    <3>2. SqTaskSkip(q, skipped).deferred = q.deferred
      BY DEF SqTaskSkip, Decide, SqType
    <3> QED BY <2>2, <3>1, <3>2
  <2> QED BY <2>1, <2>2
<1> HIDE DEF q1, valid, decided
<1>6. /\ r.covered = q1.covered /\ r.notcovered = q1.notcovered /\ r.running = q1.running
      /\ r.buildable = q1.buildable /\ r.live = q1.live /\ r.deferred = q1.deferred
      /\ r.need_update = q1.need_update /\ r.stamp = q1.stamp /\ r.done = q1.done
  BY <1>4 DEF SqType
<1> HIDE DEF r
<1>7. Grown(q, r, skipped, {}) /\ r.deferred = q.deferred
  BY <1>2, <1>5, <1>6 DEF Grown, Decided
<1> QED BY <1>1, <1>3, <1>7

(* Letting a deferred task go covers at most that one. *)
LEMMA UndeferGrows ==
  ASSUME NEW q \in SqType, NEW t, NEW dk, NEW avail \in SUBSET Setscene, SqDecided(q)
  PROVE  \E C \in SUBSET DOMAIN q.deferred : Grown(q, Undefer(q, t, dk, avail), C, {})
<1> DEFINE waiting == {s \in DOMAIN q.deferred : q.deferred[s] = t}
           found   == CHOOSE s \in waiting : TRUE
           rest    == [s \in DOMAIN q.deferred \ {found} |->
                         IF s \in waiting THEN found ELSE q.deferred[s]]
           q1      == [q EXCEPT !.deferred = rest]
<1>1. CASE waiting = {}
  <2>1. Undefer(q, t, dk, avail) = q
    BY <1>1 DEF Undefer
  <2> QED BY <2>1, GrownSame
<1>2. CASE waiting # {}
  <2>1. DOMAIN q.deferred \in SUBSET Setscene /\ q.deferred \in [DOMAIN q.deferred -> Setscene]
    BY PartialElim DEF SqType
  <2>2. found \in waiting /\ found \in Setscene
    BY <1>2, <2>1
  <2>3. Undefer(q, t, dk, avail) = UpdateSceneQueueData(q1, {found}, dk, avail)
    BY <1>2 DEF Undefer
  <2> HIDE DEF found
  <2>4. rest \in Partial(Setscene, Setscene) /\ DOMAIN rest = DOMAIN q.deferred \ {found}
    <3>1. rest \in [DOMAIN q.deferred \ {found} -> Setscene]
      BY <2>1, <2>2
    <3> QED BY <2>1, <3>1, PartialIntro
  <2> HIDE DEF rest
  <2>5. /\ q1 \in SqType /\ q1.covered = q.covered /\ q1.notcovered = q.notcovered
        /\ q1.running = q.running /\ q1.buildable = q.buildable /\ q1.live = q.live
        /\ q1.deferred = rest /\ q1.need_update = q.need_update
        /\ q1.stamp = q.stamp /\ q1.done = q.done
    BY <2>4 DEF SqType
  <2>6. q1.live \cap {found} = {}
    BY <2>2, <2>5 DEF SqDecided
  <2> HIDE DEF q1
  <2>7. PICK C \in SUBSET {found} :
           /\ Grown(q1, UpdateSceneQueueData(q1, {found}, dk, avail), C, {})
           /\ UpdateSceneQueueData(q1, {found}, dk, avail).deferred = q1.deferred
    <3>1. q1 \in SqType /\ {found} \in SUBSET Setscene
      BY <2>2, <2>5
    <3> QED BY <2>6, <3>1, UpdateSceneQueueDataGrows
  <2> DEFINE r == UpdateSceneQueueData(q1, {found}, dk, avail)
  <2> HIDE DEF r
  <2>8. Grown(q1, r, C, {}) /\ DOMAIN r.deferred = DOMAIN q.deferred \ {found}
    BY <2>4, <2>5, <2>7 DEF r
  <2>9. Grown(q, r, C, {})
    BY <2>5, <2>8 DEF Grown
  <2>10. C \in SUBSET DOMAIN q.deferred
    BY <2>2
  <2>11. Undefer(q, t, dk, avail) = r
    BY <2>3 DEF r
  <2> QED BY <2>9, <2>10, <2>11
<1> QED BY <1>1, <1>2

(* Dropping a deferral changes nothing else. *)
LEMMA DropDeferredSame ==
  ASSUME NEW q \in SqType, NEW s
  PROVE  LET r == DropDeferred(q, s)
         IN  /\ r \in SqType
             /\ r.covered = q.covered /\ r.notcovered = q.notcovered /\ r.running = q.running
             /\ r.buildable = q.buildable /\ r.live = q.live /\ r.need_update = q.need_update
             /\ r.stamp = q.stamp /\ r.done = q.done
             /\ DOMAIN r.deferred = DOMAIN q.deferred \ {s}
<1> DEFINE r == DropDeferred(q, s)
<1>1. r \in SqType
  BY DropDeferredType
<1>2. /\ r.covered = q.covered /\ r.notcovered = q.notcovered /\ r.running = q.running
      /\ r.buildable = q.buildable /\ r.live = q.live /\ r.need_update = q.need_update
      /\ r.stamp = q.stamp /\ r.done = q.done
      /\ r.deferred = Restrict(q.deferred, DOMAIN q.deferred \ {s})
  BY DEF DropDeferred, SqType
<1>3. DOMAIN r.deferred = DOMAIN q.deferred \ {s}
  BY <1>2 DEF Restrict
<1> QED BY <1>1, <1>2, <1>3

(* sq_task_skip() of a task that was chosen. *)
LEMMA SceneSkipGrows ==
  ASSUME NEW q \in SqType, NEW s \in Setscene \ q.running, SqDecided(q)
  PROVE  Grown(q, SqTaskSkip(DropDeferred(q, s), {s}), {s}, {})
<1> DEFINE q1 == DropDeferred(q, s)
           r  == SqTaskSkip(q1, {s})
<1>1. /\ q1 \in SqType
      /\ q1.covered = q.covered /\ q1.notcovered = q.notcovered /\ q1.running = q.running
      /\ q1.buildable = q.buildable /\ q1.live = q.live /\ q1.need_update = q.need_update
      /\ q1.stamp = q.stamp /\ q1.done = q.done
      /\ DOMAIN q1.deferred = DOMAIN q.deferred \ {s}
  BY DropDeferredSame
<1> HIDE DEF q1
<1>2. q1.live \cap {s} = {}
  BY <1>1 DEF SqDecided
<1>3. Grown(q1, r, {s}, {})
  BY <1>1, <1>2, SqTaskSkipGrows
<1> HIDE DEF r
<1>4. Grown(q, r, {s}, {})
  BY <1>1, <1>3 DEF Grown
<1> QED BY <1>4 DEF r, q1

(* sq_task_failoutright() of a task that was chosen. *)
LEMMA SceneFailGrows ==
  ASSUME NEW q \in SqType, NEW s \in q.buildable \ q.running, NEW dk, SqDecided(q), SqHard(q)
  PROVE  \E N \in SUBSET (Setscene \ Decided(q)) :
            LET r == SqTaskFailOutright(DropDeferred(q, s), s, dk)
            IN  /\ Grown(q, r, {}, N)
                /\ N \cap q.live = {}
                /\ NoHardDepends => N \cap DOMAIN r.deferred = {}
<1> DEFINE q1 == DropDeferred(q, s)
           F  == FailClosure(q1, s, dk)
           q2 == [q1 EXCEPT !.running = @ \cup F, !.buildable = @ \cup F]
           r  == SqTaskFailOutright(q1, s, dk)
<1>1. /\ q1 \in SqType
      /\ q1.covered = q.covered /\ q1.notcovered = q.notcovered /\ q1.running = q.running
      /\ q1.buildable = q.buildable /\ q1.live = q.live /\ q1.need_update = q.need_update
      /\ q1.stamp = q.stamp /\ q1.done = q.done
      /\ DOMAIN q1.deferred = DOMAIN q.deferred \ {s}
  BY DropDeferredSame
<1>2. r = Decide(q2, {}, F)
  BY DEF SqTaskFailOutright
<1> HIDE DEF q1, r
<1>3. SqDecided(q1) /\ SqHard(q1)
  BY <1>1 DEF SqDecided, SqHard, Decided
<1>4. s \in Setscene \ Decided(q1) /\ s \in q1.buildable /\ s \notin q1.live
  BY <1>1 DEF SqDecided, Decided, SqType
<1>5. /\ F \cap (Decided(q1) \cup q1.live) \subseteq {s}
      /\ NoHardDepends => F = {s}
  BY <1>1, <1>3, <1>4, FailClosureApart
<1>6. F \in SUBSET Setscene
  BY FailClosureType
<1> HIDE DEF F
<1>7. /\ q2 \in SqType /\ q2.covered = q1.covered /\ q2.notcovered = q1.notcovered
      /\ q2.running = q1.running \cup F /\ q2.buildable = q1.buildable \cup F
      /\ q2.live = q1.live /\ q2.deferred = q1.deferred /\ q2.stamp = q1.stamp
  BY <1>1, <1>6 DEF SqType
<1> HIDE DEF q2
<1>8. Grown(q, r, {}, F)
  <2>1. /\ q2.covered = q.covered /\ q2.notcovered = q.notcovered
        /\ q2.running = q.running \cup {} \cup F /\ q2.buildable = q.buildable \cup {} \cup F
        /\ q2.live = q.live /\ DOMAIN q2.deferred \subseteq DOMAIN q.deferred
        /\ q2.stamp = q.stamp
    BY <1>1, <1>7
  <2>2. q.live \cap ({} \cup F) = {}
    BY <1>1, <1>4, <1>5
  <2>3. Grown(q, Decide(q2, {}, F), {}, F)
    BY <1>6, <1>7, <2>1, <2>2, DecideGrowsIdle
  <2> QED BY <1>2, <2>3
<1>9. F \in SUBSET (Setscene \ Decided(q))
  BY <1>1, <1>4, <1>5, <1>6 DEF Decided
<1>10. ASSUME NoHardDepends PROVE F \cap DOMAIN r.deferred = {}
  <2>1. DOMAIN r.deferred = DOMAIN q.deferred \ {s}
    <3>1. Decide(q2, {}, F).deferred = q2.deferred
      BY <1>7 DEF Decide, SqType
    <3> QED BY <1>1, <1>2, <1>7, <3>1
  <2> QED BY <1>5, <1>10, <2>1
<1>11. F \cap q.live = {}
  BY <1>1, <1>4, <1>5
<1> QED BY <1>8, <1>9, <1>10, <1>11 DEF r, q1

----------------------------------------------------------------------------
(* What each action does to the scene queue.                               *)

(* The step covers C and finds N not covered: C was live, deferred or just *)
(* chosen, N was undecided.                                                *)
Decides(C, N) ==
  /\ Grown(sq, sq', C, N)
  /\ C \subseteq sq.live \cup DOMAIN sq.deferred
                   \cup (IF pc = "scene" THEN Setscene \ Decided(sq) ELSE {})
  /\ N \subseteq Setscene \ Decided(sq)
  /\ C = {} \/ N = {}
  /\ NoHardDepends => N \cap DOMAIN sq'.deferred = {}

(* The exit code of a setscene task decides it, and what fails with it;    *)
(* that of a real task may let a deferred one go.                          *)
LEMMA ReadDecides ==
  ASSUME TypeOK, SqDecided(sq), SqHard(sq), NEW p \in procs, ReadExit(p)
  PROVE  (\E C, N : Decides(C, N)) /\ sq'.live = sq.live \ {p.task}
<1> DEFINE t == p.task
<1>1. sq \in SqType
  BY DEF TypeOK
<1>2. PICK avail \in SUBSET Setscene :
        \/ t \in sq.live /\ sq' = [Decide(sq, {t}, {}) EXCEPT !.live = @ \ {t}]
        \/ t \in sq.live /\ sq' = [SqTaskFail(sq, t, disk) EXCEPT !.live = @ \ {t}]
        \/ t \notin sq.live /\ sq' = Undefer(sq, t, disk, avail)
        \/ t \notin sq.live /\ sq' = sq
  BY DEF ReadExit
<1>3. ASSUME t \in sq.live
      PROVE  t \in Setscene \ Decided(sq) /\ t \in sq.buildable /\ t \in sq.running
             /\ t \notin DOMAIN sq.deferred
  BY <1>1, <1>3 DEF SqDecided, SqType
<1>4. CASE t \in sq.live /\ sq' = [Decide(sq, {t}, {}) EXCEPT !.live = @ \ {t}]
  <2>1. {t} \in SUBSET Setscene /\ {} \in SUBSET Setscene
    BY <1>3, <1>4
  <2>2. sq.running = sq.running \cup {t} \cup {} /\ sq.buildable = sq.buildable \cup {t} \cup {}
    BY <1>3, <1>4
  <2>3. Grown(sq, [Decide(sq, {t}, {}) EXCEPT !.live = @ \ ({t} \cup {})], {t}, {})
    BY <1>1, <2>1, <2>2, DecideGrows
  <2>4. {t} \cup {} = {t}
    OBVIOUS
  <2>5. Grown(sq, sq', {t}, {})
    BY <1>4, <2>3, <2>4
  <2>6. Decides({t}, {})
    BY <1>4, <2>5 DEF Decides
  <2>7. sq'.live = sq.live \ {t}
    BY <2>5 DEF Grown
  <2> QED BY <2>6, <2>7
<1>5. CASE t \in sq.live /\ sq' = [SqTaskFail(sq, t, disk) EXCEPT !.live = @ \ {t}]
  <2> DEFINE F  == FailClosure(sq, t, disk)
             q1 == [sq EXCEPT !.running = @ \cup (F \ {t}), !.buildable = @ \cup (F \ {t})]
             d  == Decide(q1, {}, F)
  <2>1. t \in F /\ F \cap (Decided(sq) \cup sq.live) \subseteq {t} /\ (NoHardDepends => F = {t})
    BY <1>1, <1>3, <1>5, FailClosureApart
  <2>2. F \in SUBSET Setscene
    BY FailClosureType
  <2>3. SqTaskFail(sq, t, disk) = d
    BY DEF SqTaskFail
  <2> HIDE DEF F
  <2>4. /\ q1 \in SqType /\ q1.covered = sq.covered /\ q1.notcovered = sq.notcovered
        /\ q1.running = sq.running \cup {} \cup F /\ q1.buildable = sq.buildable \cup {} \cup F
        /\ q1.live = sq.live /\ q1.deferred = sq.deferred /\ q1.stamp = sq.stamp
    BY <1>1, <1>3, <1>5, <2>2 DEF SqType
  <2> HIDE DEF q1
  <2>5. Grown(sq, [d EXCEPT !.live = @ \ ({} \cup F)], {}, F)
    BY <1>1, <2>2, <2>4, DecideGrows
  <2>6. d \in SqType /\ d.live = sq.live /\ d.deferred = sq.deferred
    <3>1. d \in SqType
      BY <2>2, <2>4, DecideType
    <3>2. d.live = q1.live /\ d.deferred = q1.deferred
      BY <2>4 DEF Decide, SqType
    <3> QED BY <2>4, <3>1, <3>2
  <2> HIDE DEF d
  <2>7. d.live \ ({} \cup F) = d.live \ {t}
    BY <2>1, <2>6
  <2>8. sq' = [d EXCEPT !.live = @ \ ({} \cup F)]
    BY <1>5, <2>3, <2>6, <2>7
  <2>9. Grown(sq, sq', {}, F)
    BY <2>5, <2>8
  <2>10. F \subseteq Setscene \ Decided(sq)
    BY <1>3, <1>5, <2>1, <2>2
  <2>11. ASSUME NoHardDepends PROVE F \cap DOMAIN sq'.deferred = {}
    BY <1>3, <1>5, <2>1, <2>9, <2>11 DEF Grown
  <2>12. Decides({}, F)
    BY <2>9, <2>10, <2>11 DEF Decides
  <2>13. sq'.live = sq.live \ {t}
    BY <2>1, <2>9 DEF Grown
  <2> QED BY <2>12, <2>13
<1>6. CASE t \notin sq.live /\ sq' = Undefer(sq, t, disk, avail)
  <2>1. PICK C \in SUBSET DOMAIN sq.deferred : Grown(sq, Undefer(sq, t, disk, avail), C, {})
    BY <1>1, UndeferGrows
  <2>2. Decides(C, {})
    BY <1>6, <2>1 DEF Decides
  <2>3. sq'.live = sq.live \ {t}
    BY <1>6, <2>1 DEF Grown, SqDecided
  <2> QED BY <2>2, <2>3
<1>7. CASE t \notin sq.live /\ sq' = sq
  <2>1. Grown(sq, sq', {}, {})
    BY <1>1, <1>7, GrownSame
  <2>2. Decides({}, {})
    BY <2>1 DEF Decides
  <2> QED BY <1>7, <2>2
<1> QED BY <1>2, <1>4, <1>5, <1>6, <1>7

(* A setscene task that is chosen and not sent to the worker is decided.   *)
LEMMA SceneDecides ==
  ASSUME TypeOK, SqDecided(sq), SqHard(sq), NEW s \in Setscene,
         SceneSkip(s) \/ SceneFailOutright(s)
  PROVE  (\E C, N : Decides(C, N)) /\ sq'.live = sq.live
<1>1. sq \in SqType
  BY DEF TypeOK
<1>2. pc = "scene" /\ s \in sq.buildable \ sq.running
  BY DEF SceneSkip, SceneFailOutright, SceneCandidates
<1>3. s \in Setscene \ Decided(sq)
  BY <1>2 DEF SqDecided
<1>4. CASE SceneSkip(s)
  <2>1. Grown(sq, sq', {s}, {})
    BY <1>1, <1>2, <1>4, SceneSkipGrows DEF SceneSkip
  <2>2. Decides({s}, {})
    BY <1>2, <1>3, <2>1 DEF Decides
  <2>3. sq'.live = sq.live
    BY <1>2, <2>1 DEF Grown, SqDecided
  <2> QED BY <2>2, <2>3
<1>5. CASE SceneFailOutright(s)
  <2>1. sq' = SqTaskFailOutright(DropDeferred(sq, s), s, disk)
    BY <1>5 DEF SceneFailOutright
  <2>2. PICK N \in SUBSET (Setscene \ Decided(sq)) :
          LET r == SqTaskFailOutright(DropDeferred(sq, s), s, disk)
          IN  /\ Grown(sq, r, {}, N)
              /\ N \cap sq.live = {}
              /\ NoHardDepends => N \cap DOMAIN r.deferred = {}
    BY <1>1, <1>2, SceneFailGrows
  <2>3. Decides({}, N)
    BY <2>1, <2>2 DEF Decides
  <2>4. sq'.live = sq.live
    BY <2>1, <2>2 DEF Grown
  <2> QED BY <2>3, <2>4
<1> QED BY <1>4, <1>5

(* Elsewhere at most a deferred task is let go. *)
LEMMA OtherDecides ==
  ASSUME TypeOK, SqDecided(sq), SqHard(sq),
         \/ \E t \in Tasks : TaskSkipped(t) \/ TaskNoExec(t)
         \/ ForceDeferred
         \/ sq' = sq
  PROVE  (\E C, N : Decides(C, N)) /\ sq'.live = sq.live
<1>1. sq \in SqType
  BY DEF TypeOK
<1>2. ASSUME NEW t \in Tasks, TaskSkipped(t) \/ TaskNoExec(t)
      PROVE  (\E C, N : Decides(C, N)) /\ sq'.live = sq.live
  <2>1. PICK dk : \E avail \in SUBSET Setscene : sq' = Undefer(sq, t, dk, avail)
    BY <1>2 DEF TaskSkipped, TaskNoExec
  <2>2. PICK avail \in SUBSET Setscene : sq' = Undefer(sq, t, dk, avail)
    BY <2>1
  <2>3. PICK C \in SUBSET DOMAIN sq.deferred : Grown(sq, Undefer(sq, t, dk, avail), C, {})
    BY <1>1, UndeferGrows
  <2>4. Decides(C, {})
    BY <2>2, <2>3 DEF Decides
  <2>5. sq'.live = sq.live
    BY <2>2, <2>3 DEF Grown, SqDecided
  <2> QED BY <2>4, <2>5
<1>3. CASE ForceDeferred
  <2>1. PICK s \in DOMAIN sq.deferred : sq' = DropDeferred(sq, s)
    BY <1>3 DEF ForceDeferred
  <2>2. LET r == DropDeferred(sq, s)
        IN  /\ r \in SqType
            /\ r.covered = sq.covered /\ r.notcovered = sq.notcovered /\ r.running = sq.running
            /\ r.buildable = sq.buildable /\ r.live = sq.live /\ r.need_update = sq.need_update
            /\ r.stamp = sq.stamp /\ r.done = sq.done
            /\ DOMAIN r.deferred = DOMAIN sq.deferred \ {s}
    BY <1>1, DropDeferredSame
  <2>3. Grown(sq, sq', {}, {})
    BY <1>1, <2>1, <2>2 DEF Grown, SqType
  <2>4. Decides({}, {})
    BY <2>3 DEF Decides
  <2>5. sq'.live = sq.live
    BY <2>1, <2>2
  <2> QED BY <2>4, <2>5
<1>4. CASE sq' = sq
  <2>1. Grown(sq, sq', {}, {})
    BY <1>1, <1>4, GrownSame
  <2>2. Decides({}, {})
    BY <2>1 DEF Decides
  <2> QED BY <1>4, <2>2
<1> QED BY <1>2, <1>3, <1>4

(* The setscene task s is sent to the worker. *)
Sends(s) ==
  /\ s \in sq.buildable \ sq.running
  /\ sq' \in SqType
  /\ sq'.covered = sq.covered /\ sq'.notcovered = sq.notcovered /\ sq'.buildable = sq.buildable
  /\ sq'.running = sq.running \cup {s} /\ sq'.live = sq.live \cup {s}
  /\ DOMAIN sq'.deferred = DOMAIN sq.deferred \ {s}
  /\ sq'.need_update = sq.need_update /\ sq'.stamp = sq.stamp /\ sq'.done = sq.done

(* SceneRun() does exactly that to the scene queue. *)
LEMMA SceneRunSends ==
  ASSUME TypeOK, NEW s \in Setscene, SceneRun(s)
  PROVE  Sends(s)
<1> DEFINE q == DropDeferred(sq, s)
<1>1. sq \in SqType
  BY DEF TypeOK
<1>2. /\ q \in SqType
      /\ q.covered = sq.covered /\ q.notcovered = sq.notcovered /\ q.running = sq.running
      /\ q.buildable = sq.buildable /\ q.live = sq.live /\ q.need_update = sq.need_update
      /\ q.stamp = sq.stamp /\ q.done = sq.done
      /\ DOMAIN q.deferred = DOMAIN sq.deferred \ {s}
  BY <1>1, DropDeferredSame
<1>3. sq' = [q EXCEPT !.running = @ \cup {s}, !.live = @ \cup {s}]
  BY DEF SceneRun
<1> HIDE DEF q
<1>4. s \in sq.buildable \ sq.running
  BY DEF SceneRun, Restorable, SceneCandidates
<1> QED BY <1>2, <1>3, <1>4 DEF Sends, SqType

(* Every step decides, sends a task, recomputes or restarts.               *)
LEMMA SqStep ==
  ASSUME TypeOK, SqDecided(sq), SqHard(sq), Next
  PROVE  \/ \E C, N : Decides(C, N)
         \/ \E s \in Setscene : SceneRun(s)
         \/ Settle
         \/ Migrate
<1>1. CASE \E p \in procs : ReadExit(p)
  BY <1>1, ReadDecides
<1>2. CASE \E s \in Setscene : SceneSkip(s) \/ SceneFailOutright(s)
  BY <1>2, SceneDecides
<1>3. CASE ForceDeferred \/ \E t \in Tasks : TaskSkipped(t) \/ TaskNoExec(t)
  BY <1>3, OtherDecides
<1>4. CASE \/ FinishNow \/ Finish \/ Execute \/ Teardown \/ ReadDone \/ MigrateNothing
           \/ SceneNone \/ TaskNone \/ WriteFails \/ WaitForTasks \/ Conclude
           \/ \E t \in Tasks : TaskForbidden(t) \/ TaskSpawnFails(t) \/ TaskRun(t)
           \/ \E p \in procs : WorkerExit(p) \/ ReadUnihash(p)
           \/ WorkerDies \/ StopRequest \/ Ended
  <2>1. sq' = sq
    BY <1>4 DEF FinishNow, Finish, Execute, Teardown, ReadDone, MigrateNothing,
       SceneNone, TaskNone, WriteFails, WaitForTasks, Conclude, TaskForbidden,
       TaskSpawnFails, TaskRun, WorkerExit, ReadUnihash, WorkerDies, StopRequest, Ended, vars
  <2> QED BY <2>1, OtherDecides
<1> QED
  BY <1>1, <1>2, <1>3, <1>4 DEF Next, CookerStep

----------------------------------------------------------------------------
(* Migration, when no setscene task has a hard dependency.                 *)

(* The tasks of M start over; those of C are covered at once. *)
Restarts(M, C) ==
  /\ M \in SUBSET Setscene /\ C \in SUBSET M
  /\ M \cap (rq.running \cup sq.live) = {}
  /\ \A m \in M : Busy(CoveredBy[m]) = {} /\ CoveredBy[m] \cap rq.complete \subseteq rq.tasksrun
  /\ sq' \in SqType
  /\ sq'.covered = (sq.covered \ M) \cup C /\ sq'.notcovered = sq.notcovered \ M
  /\ sq'.running = (sq.running \ M) \cup C
  /\ (sq.buildable \ M) \cup C \subseteq sq'.buildable
  /\ sq'.live = sq.live
  /\ DOMAIN sq'.deferred \subseteq DOMAIN sq.deferred \cup M
  /\ \/ sq'.need_update
     \/ /\ C = {} /\ ~sq.need_update /\ sq'.buildable = sq.buildable \ M
        /\ DOMAIN sq'.deferred = DOMAIN sq.deferred
        /\ (M = {} /\ sq'.done = sq.done) \/ rq'.state = "CleanUp"

(* Only tasks that are neither running nor live, and cover nothing that    *)
(* runs, may migrate.                                                      *)
LEMMA ReadyIdle ==
  ASSUME TypeOK, NEW uni
  PROVE  /\ ReadyMigrations(uni) \in SUBSET Setscene
         /\ ReadyMigrations(uni) \cap (rq.running \cup sq.live) = {}
         /\ \A m \in ReadyMigrations(uni) : Busy(CoveredBy[m]) = {}
<1>1. PendingMigrations(uni) \subseteq Setscene
  BY DEF PendingMigrations, TypeOK, HashType
<1>2. PendingMigrations(uni) \cap (rq.running \cup sq.live) = {}
  BY DEF PendingMigrations, TooLate
<1> QED BY <1>1, <1>2 DEF ReadyMigrations

(* What follows for the tasks that were reset. *)
LEMMA RequeueGrows ==
  ASSUME NoHardDepends, NEW q \in SqType, NEW M \in SUBSET Setscene, NEW uni, NEW dk,
         NEW avail \in SUBSET Setscene, q.live \cap M = {}
  PROVE  \E C \in SUBSET M :
            LET r == Requeue(q, M, uni, dk, avail)
            IN  /\ r \in SqType
                /\ r.covered = q.covered \cup C /\ r.notcovered = q.notcovered
                /\ r.running = q.running \cup C /\ q.buildable \cup C \subseteq r.buildable
                /\ r.live = q.live
                /\ DOMAIN r.deferred \subseteq DOMAIN q.deferred \cup M
<1> DEFINE fails    == HardDepFail(q, M)
           free     == {m \in M : \/ SqRevdeps[m] = {}
                                  \/ m \notin fails /\ SqRevdeps[m] \subseteq q.covered \cup q.notcovered}
           twins    == {m \in M : /\ HashIndex(m, uni[m]) \in DOMAIN HashOwner
                                  /\ HashOwner[HashIndex(m, uni[m])] # m}
           deferred == [s \in DOMAIN q.deferred \cup twins |->
                          IF s \in twins THEN HashOwner[HashIndex(s, uni[s])] ELSE q.deferred[s]]
           q0       == [q EXCEPT !.buildable = @ \cup free, !.deferred = deferred]
           q1       == UpdateSceneQueueData(q0, M, dk, avail)
           r        == Requeue(q, M, uni, dk, avail)
<1>1. fails = {}
  BY DEF HardDepFail, NoHardDepends, SqType
<1>2. r = q1
  BY <1>1 DEF Requeue
<1>3. deferred \in Partial(Setscene, Setscene)
  <2>1. \A h \in DOMAIN HashOwner : HashOwner[h] \in Setscene
    BY HashOwnerType
  <2>2. DOMAIN q.deferred \in SUBSET Setscene /\ q.deferred \in [DOMAIN q.deferred -> Setscene]
    BY PartialElim DEF SqType
  <2>3. twins \subseteq Setscene
    OBVIOUS
  <2>4. \A s \in twins : HashOwner[HashIndex(s, uni[s])] \in Setscene
    BY <2>1
  <2> HIDE DEF twins
  <2>5. deferred \in [DOMAIN q.deferred \cup twins -> Setscene]
    BY <2>2, <2>4
  <2> HIDE DEF deferred
  <2> QED BY <2>2, <2>3, <2>5, PartialIntro
<1>4. free \in SUBSET Setscene /\ DOMAIN deferred \subseteq DOMAIN q.deferred \cup M
  OBVIOUS
<1> HIDE DEF deferred, free, fails
<1>5. /\ q0 \in SqType /\ q0.covered = q.covered /\ q0.notcovered = q.notcovered
      /\ q0.running = q.running /\ q0.buildable = q.buildable \cup free /\ q0.live = q.live
      /\ q0.deferred = deferred
  BY <1>3, <1>4 DEF SqType
<1> HIDE DEF q0, r
<1>6. q0.live \cap M = {}
  BY <1>5
<1>7. PICK C \in SUBSET M : Grown(q0, q1, C, {}) /\ q1.deferred = q0.deferred
  BY <1>5, <1>6, UpdateSceneQueueDataGrows
<1> HIDE DEF q1
<1>8. /\ r \in SqType
      /\ r.covered = q.covered \cup C /\ r.notcovered = q.notcovered
      /\ r.running = q.running \cup C /\ q.buildable \cup C \subseteq r.buildable
      /\ r.live = q.live
      /\ DOMAIN r.deferred \subseteq DOMAIN q.deferred \cup M
  <2>1. q0.live \ (C \cup {}) = q.live
    BY <1>5, <1>6
  <2> QED BY <1>2, <1>4, <1>5, <1>7, <2>1 DEF Grown
<1> QED BY <1>8 DEF r

(* process_possible_migrations() only restarts tasks that are idle. *)
LEMMA MigrateRestarts ==
  ASSUME NoHardDepends, TypeOK, Migrate
  PROVE  /\ \E M, C : Restarts(M, C)
         /\ rq'.running = rq.running /\ rq'.complete = rq.complete
         /\ hold'.tasks = hold.tasks /\ hold'.covered = hold.covered
         /\ hold'.notcovered = hold.notcovered
         /\ procs' = procs /\ pc = "migrate" /\ pc' = "scene"
<1>1. sq \in SqType /\ rq \in RqType /\ hold \in HoldType
  BY DEF TypeOK
<1>2. PICK uni \in NewUnihashes : \E dk :
        (StaleMigrations(uni) = {} /\ MigrateReady(uni, dk)) \/ HaltMigration(uni, dk)
  BY DEF Migrate
<1>3. PICK dk : (StaleMigrations(uni) = {} /\ MigrateReady(uni, dk)) \/ HaltMigration(uni, dk)
  BY <1>2
<1>4. uni \in [Tasks -> Unihashes]
  BY DEF NewUnihashes
<1>5. procs' = procs /\ pc = "migrate" /\ pc' = "scene"
  BY DEF Migrate
<1> DEFINE ready == ReadyMigrations(uni)
<1>6. /\ ready \in SUBSET Setscene
      /\ ready \cap (rq.running \cup sq.live) = {}
      /\ \A m \in ready : Busy(CoveredBy[m]) = {}
  BY ReadyIdle
<1>7. \A m \in ready \ StaleMigrations(uni) : CoveredBy[m] \cap rq.complete \subseteq rq.tasksrun
  BY DEF StaleMigrations
<1>8. CASE StaleMigrations(uni) = {} /\ MigrateReady(uni, dk)
  <2>1. rq' = rq
    BY <1>8 DEF MigrateReady
  <2>2. hold'.tasks = hold.tasks /\ hold'.covered = hold.covered /\ hold'.notcovered = hold.notcovered
    BY <1>1, <1>8 DEF MigrateReady, Reopen, HoldType
  <2>3. \E M, C : Restarts(M, C)
    <3>1. CASE ready = {}
      <4>1. sq' = [sq EXCEPT !.need_update = (@ \/ Changed(uni) # {})]
        BY <1>8, <3>1 DEF MigrateReady
      <4> DEFINE n == sq.need_update \/ Changed(uni) # {}
      <4>2. n \in BOOLEAN /\ (~n => ~sq.need_update)
        OBVIOUS
      <4>3. sq' = [sq EXCEPT !.need_update = n]
        BY <4>1
      <4> HIDE DEF n
      <4>4. Restarts({}, {})
        BY <1>1, <4>2, <4>3 DEF Restarts, SqType
      <4> QED BY <4>4
    <3>2. CASE ready # {}
      <4>1. PICK avail \in SUBSET Setscene :
              sq' = [Requeue(Reset(sq, ready, uni), ready, uni, dk, avail)
                       EXCEPT !.need_update = TRUE]
        BY <1>8, <3>2 DEF MigrateReady
      <4> DEFINE q == Reset(sq, ready, uni)
                 r == Requeue(q, ready, uni, dk, avail)
      <4> HIDE DEF ready
      <4>2. /\ q \in SqType
            /\ q.covered = sq.covered \ ready /\ q.notcovered = sq.notcovered \ ready
            /\ q.running = sq.running \ ready /\ q.buildable = sq.buildable \ ready
            /\ q.live = sq.live /\ q.deferred = sq.deferred
        <5>1. q \in SqType
          BY <1>1, <1>4, <1>6, ResetType
        <5> QED BY <1>1, <5>1 DEF Reset, SqType
      <4> HIDE DEF q
      <4>3. q.live \cap ready = {}
        BY <1>6, <4>2
      <4>4. PICK C \in SUBSET ready :
              /\ r \in SqType
              /\ r.covered = q.covered \cup C /\ r.notcovered = q.notcovered
              /\ r.running = q.running \cup C /\ q.buildable \cup C \subseteq r.buildable
              /\ r.live = q.live
              /\ DOMAIN r.deferred \subseteq DOMAIN q.deferred \cup ready
        BY <1>6, <4>2, <4>3, RequeueGrows
      <4>5. sq' = [r EXCEPT !.need_update = TRUE]
        BY <4>1 DEF q
      <4> HIDE DEF r
      <4>6. /\ sq' \in SqType /\ sq'.covered = r.covered /\ sq'.notcovered = r.notcovered
            /\ sq'.running = r.running /\ sq'.buildable = r.buildable /\ sq'.live = r.live
            /\ sq'.deferred = r.deferred /\ sq'.need_update = TRUE
        BY <4>4, <4>5 DEF SqType
      <4>7. Restarts(ready, C)
        BY <1>6, <1>8, <1>7, <4>2, <4>4, <4>6 DEF Restarts
      <4> QED BY <4>7
    <3> QED BY <3>1, <3>2
  <2> QED BY <1>5, <2>1, <2>2, <2>3
<1>9. CASE HaltMigration(uni, dk)
  <2>1. PICK t \in StaleMigrations(uni), M \in SUBSET (ready \ StaleMigrations(uni)) :
        \E B \in SUBSET (CoveredBy[t] \ (rq.complete \cup Unskippable)) :
          /\ sq' = [Reset(sq, M, uni) EXCEPT !.done = @ \ ({t} \cup B)]
          /\ rq' = [rq EXCEPT !.failed = @ \cup {t}, !.state = "CleanUp"]
          /\ hold' = hold
    BY <1>9 DEF HaltMigration
  <2>10. PICK B : /\ sq' = [Reset(sq, M, uni) EXCEPT !.done = @ \ ({t} \cup B)]
                 /\ rq' = [rq EXCEPT !.failed = @ \cup {t}, !.state = "CleanUp"]
                 /\ hold' = hold
    BY <2>1
  <2> HIDE DEF ready
  <2>2. M \in SUBSET Setscene
    BY <1>6
  <2> DEFINE q == Reset(sq, M, uni)
  <2>3. /\ q \in SqType
        /\ q.covered = sq.covered \ M /\ q.notcovered = sq.notcovered \ M
        /\ q.running = sq.running \ M /\ q.buildable = sq.buildable \ M
        /\ q.live = sq.live /\ q.deferred = sq.deferred /\ q.need_update = sq.need_update
    <3>1. q \in SqType
      BY <1>1, <1>4, <2>2, ResetType
    <3> QED BY <1>1, <3>1 DEF Reset, SqType
  <2>4. sq' = [q EXCEPT !.done = @ \ ({t} \cup B)]
    BY <2>10
  <2> HIDE DEF q
  <2>5. /\ sq' \in SqType /\ sq'.covered = q.covered /\ sq'.notcovered = q.notcovered
        /\ sq'.running = q.running /\ sq'.buildable = q.buildable /\ sq'.live = q.live
        /\ sq'.deferred = q.deferred /\ sq'.need_update = q.need_update
    BY <2>3, <2>4 DEF SqType
  <2>6. rq'.running = rq.running /\ rq'.complete = rq.complete /\ rq'.state = "CleanUp"
    BY <1>1, <2>10 DEF RqType
  <2>7. /\ M \cap (rq.running \cup sq.live) = {}
        /\ \A m \in M : Busy(CoveredBy[m]) = {} /\ CoveredBy[m] \cap rq.complete \subseteq rq.tasksrun
    BY <1>6, <1>7
  <2>8. sq.need_update \in BOOLEAN
    BY <1>1 DEF SqType
  <2>9. Restarts(M, {})
    BY <2>2, <2>3, <2>5, <2>6, <2>7, <2>8 DEF Restarts
  <2> QED BY <1>5, <2>10, <2>6, <2>9
<1> QED BY <1>3, <1>8, <1>9

----------------------------------------------------------------------------
(* What each action does to the run queue.                                 *)

(* The scheduler starts t, and may find that it is complete already. *)
Starts(t) ==
  /\ pc = "task" /\ t \in TaskCandidates
  /\ rq'.running = rq.running \cup {t}
  /\ rq'.complete \in {rq.complete, rq.complete \cup {t}}
  /\ pc' \notin {"read", "migrate", "scene"}

(* A real task completes. *)
Completes(p) ==
  /\ p.task \notin sq.live
  /\ rq'.running = rq.running /\ rq'.complete = rq.complete \cup {p.task}
  /\ procs' = procs \ {p}

RqSame == rq'.running = rq.running /\ rq'.complete = rq.complete

(* What task_skip() and a task with nothing to execute leave behind. *)
LEMMA StartsComplete ==
  ASSUME NEW r \in RqType, NEW t \in Tasks
  PROVE  /\ TaskSkip(r, t).running = r.running \cup {t}
         /\ TaskSkip(r, t).complete = r.complete \cup {t}
         /\ TaskComplete([r EXCEPT !.running = @ \cup {t}, !.active = @ + 1], t).running
              = r.running \cup {t}
         /\ TaskComplete([r EXCEPT !.running = @ \cup {t}, !.active = @ + 1], t).complete
              = r.complete \cup {t}
<1> DEFINE r1 == [r EXCEPT !.running = @ \cup {t}, !.buildable = @ \cup {t}]
           r2 == [r EXCEPT !.running = @ \cup {t}, !.active = @ + 1]
<1>1. r1 \in RqType /\ r1.running = r.running \cup {t} /\ r1.complete = r.complete
  BY DEF RqType
<1>2. r2 \in RqType /\ r2.running = r.running \cup {t} /\ r2.complete = r.complete
  BY TaskActiveType DEF RqType
<1> HIDE DEF r1, r2
<1>3. /\ TaskCompleteOutright(r1, t).running = r.running \cup {t}
      /\ TaskCompleteOutright(r1, t).complete = r.complete \cup {t}
  BY <1>1 DEF TaskCompleteOutright, RqType
<1>4. /\ TaskComplete(r2, t).running = r.running \cup {t}
      /\ TaskComplete(r2, t).complete = r.complete \cup {t}
  BY <1>2 DEF TaskComplete, TaskCompleteOutright, RqType
<1> QED BY <1>3, <1>4 DEF TaskSkip, r1, r2

(* task_complete() and task_fail() of a task that was started. *)
LEMMA EndsComplete ==
  ASSUME NEW r \in RqType, NEW t \in Tasks
  PROVE  /\ TaskComplete(r, t).running = r.running
         /\ TaskComplete(r, t).complete = r.complete \cup {t}
         /\ TaskFail(r, t).running = r.running
         /\ TaskFail(r, t).complete = r.complete
BY DEF TaskComplete, TaskCompleteOutright, TaskFail, RqType

(* An exit code changes the sets of the run queue only by completing a     *)
(* real task.                                                              *)
LEMMA ReadCompletes ==
  ASSUME TypeOK, NEW p \in procs, ReadExit(p)
  PROVE  RqSame \/ Completes(p)
<1>1. rq \in RqType /\ p.task \in Tasks
  BY GraphAssumption DEF TypeOK, ProcType
<1>2. procs' = procs \ {p}
  BY DEF ReadExit
<1>3. \/ rq' = rq
      \/ rq' = [rq EXCEPT !.state = "CleanUp"]
      \/ rq' = TaskComplete(rq, p.task) /\ p.task \notin sq.live
      \/ rq' = TaskFail(rq, p.task)
  BY DEF ReadExit
<1>4. ASSUME rq' = [rq EXCEPT !.state = "CleanUp"] PROVE RqSame
  BY <1>1, <1>4 DEF RqSame, RqType
<1> QED BY <1>1, <1>2, <1>3, <1>4, EndsComplete DEF RqSame, Completes

(* The scheduler starts one task, or none. *)
LEMMA TaskStarts ==
  ASSUME TypeOK, NEW t \in Tasks, TaskSkipped(t) \/ TaskNoExec(t) \/ TaskRun(t)
  PROVE  Starts(t)
<1>1. rq \in RqType
  BY DEF TypeOK
<1>2. pc = "task" /\ t \in TaskCandidates /\ pc' \notin {"read", "migrate", "scene"}
  BY DEF TaskSkipped, TaskNoExec, TaskRun, MustRun, Return
<1>3. CASE TaskSkipped(t)
  <2> DEFINE r == TaskSkip(rq, t)
  <2>1. r \in RqType /\ r.running = rq.running \cup {t} /\ r.complete = rq.complete \cup {t}
    BY <1>1, TaskSkipType, StartsComplete
  <2>2. \E ran : rq' = [r EXCEPT !.tasksrun = ran]
    BY <1>3 DEF TaskSkipped
  <2> HIDE DEF r
  <2>3. rq'.running = r.running /\ rq'.complete = r.complete
    BY <2>1, <2>2 DEF RqType
  <2> QED BY <1>2, <2>1, <2>3 DEF Starts
<1>4. CASE TaskNoExec(t)
  <2>1. rq' = TaskComplete([rq EXCEPT !.running = @ \cup {t}, !.active = @ + 1], t)
    BY <1>4 DEF TaskNoExec
  <2> QED BY <1>1, <1>2, <2>1, StartsComplete DEF Starts
<1>5. CASE TaskRun(t)
  <2>1. rq' = [rq EXCEPT !.running = @ \cup {t}, !.active = @ + 1]
    BY <1>5 DEF TaskRun
  <2>2. rq'.running = rq.running \cup {t} /\ rq'.complete = rq.complete
    BY <1>1, <2>1 DEF RqType
  <2> QED BY <1>2, <2>2 DEF Starts
<1> QED BY <1>3, <1>4, <1>5

(* The other actions leave these sets alone. *)
LEMMA OtherRqSame ==
  ASSUME TypeOK,
         \/ FinishNow \/ Finish \/ Execute \/ Teardown \/ ReadDone \/ MigrateNothing \/ Migrate
         \/ \E s \in Setscene : SceneSkip(s) \/ SceneFailOutright(s) \/ SceneRun(s)
         \/ SceneNone \/ Settle
         \/ \E t \in Tasks : TaskForbidden(t) \/ TaskSpawnFails(t)
         \/ TaskNone \/ WriteFails \/ WaitForTasks \/ ForceDeferred \/ Conclude
         \/ \E p \in procs : WorkerExit(p) \/ ReadUnihash(p)
         \/ WorkerDies \/ StopRequest \/ Ended
  PROVE  RqSame
<1>1. rq \in RqType
  BY DEF TypeOK
<1>2. CASE FinishNow \/ Finish \/ Execute \/ WaitForTasks \/ Conclude \/ WriteFails
  <2>1. \E st : rq' = [rq EXCEPT !.state = st]
    BY <1>2 DEF FinishNow, Finish, Execute, WaitForTasks, Conclude, WriteFails
  <2> QED BY <1>1, <2>1 DEF RqSame, RqType
<1>3. CASE Migrate
  <2>1. \E uni, dk : MigrateReady(uni, dk) \/ HaltMigration(uni, dk)
    BY <1>3 DEF Migrate
  <2>2. rq' = rq \/ \E t : rq' = [rq EXCEPT !.failed = @ \cup {t}, !.state = "CleanUp"]
    BY <2>1 DEF MigrateReady, HaltMigration
  <2> QED BY <1>1, <2>2 DEF RqSame, RqType
<1>4. CASE Settle
  <2>1. \E st : rq' = [rq EXCEPT !.buildable = SettledBuildable, !.state = st]
    BY <1>4 DEF Settle
  <2> QED BY <1>1, <2>1 DEF RqSame, RqType
<1>5. ASSUME NEW t \in Tasks, TaskForbidden(t) PROVE RqSame
  BY <1>1, <1>5, EndsComplete DEF TaskForbidden, RqSame
<1>6. ASSUME NEW t \in Tasks, TaskSpawnFails(t) PROVE RqSame
  BY <1>1, <1>6 DEF TaskSpawnFails, RqSame, RqType
<1>7. CASE \/ Teardown \/ ReadDone \/ MigrateNothing
           \/ \E s \in Setscene : SceneSkip(s) \/ SceneFailOutright(s) \/ SceneRun(s)
           \/ SceneNone \/ TaskNone \/ ForceDeferred
           \/ \E p \in procs : WorkerExit(p) \/ ReadUnihash(p)
           \/ WorkerDies \/ StopRequest \/ Ended
  <2>1. rq' = rq
    BY <1>7 DEF Teardown, ReadDone, MigrateNothing, SceneSkip, SceneFailOutright, SceneRun,
       SceneNone, TaskNone, ForceDeferred, WorkerExit, ReadUnihash,
       WorkerDies, StopRequest, Ended, vars
  <2> QED BY <2>1 DEF RqSame
<1> QED BY <1>2, <1>3, <1>4, <1>5, <1>6, <1>7

(* Every step starts a task, completes one, or leaves these sets alone. *)
LEMMA RqStep ==
  ASSUME TypeOK, Next
  PROVE  \/ RqSame
         \/ \E t \in Tasks : Starts(t)
         \/ \E p \in procs : Completes(p)
<1>1. CASE \E p \in procs : ReadExit(p)
  BY <1>1, ReadCompletes
<1>2. CASE \E t \in Tasks : TaskSkipped(t) \/ TaskNoExec(t) \/ TaskRun(t)
  BY <1>2, TaskStarts
<1>3. CASE \/ FinishNow \/ Finish \/ Execute \/ Teardown \/ ReadDone \/ MigrateNothing \/ Migrate
           \/ \E s \in Setscene : SceneSkip(s) \/ SceneFailOutright(s) \/ SceneRun(s)
           \/ SceneNone \/ Settle
           \/ \E t \in Tasks : TaskForbidden(t) \/ TaskSpawnFails(t)
           \/ TaskNone \/ WriteFails \/ WaitForTasks \/ ForceDeferred \/ Conclude
           \/ \E p \in procs : WorkerExit(p) \/ ReadUnihash(p)
           \/ WorkerDies \/ StopRequest \/ Ended
  BY <1>3, OtherRqSame
<1> QED BY <1>1, <1>2, <1>3 DEF Next, CookerStep

(* execute() can only be on its way to a setscene task when the run queue  *)
(* was running as it began.                                                *)
LEMMA ChoosingBefore ==
  ASSUME TypeOK, Next, Choosing'
  PROVE  Choosing
<1>1. CASE rq'.state = "Running"
  BY <1>1, RunningBefore DEF Choosing
<1>2. CASE pc' \in {"read", "migrate", "scene"}
  <2>1. CASE pc' = pc
    BY <1>2, <2>1 DEF Choosing
  <2>2. CASE Execute \/ ReadDone \/ MigrateNothing \/ Migrate
    BY <1>2, <2>2 DEF Execute, ReadDone, MigrateNothing, Migrate, Return, Choosing
  <2>3. CASE \/ FinishNow \/ Finish \/ Teardown
             \/ \E s \in Setscene : SceneSkip(s) \/ SceneFailOutright(s) \/ SceneRun(s)
             \/ SceneNone \/ Settle
             \/ \E t \in Tasks : \/ TaskForbidden(t) \/ TaskSkipped(t) \/ TaskNoExec(t)
                                 \/ TaskSpawnFails(t) \/ TaskRun(t)
             \/ TaskNone \/ WriteFails \/ WaitForTasks \/ ForceDeferred \/ Conclude
    <3>1. pc' \notin {"read", "migrate", "scene"}
      BY <2>3 DEF FinishNow, Finish, Teardown, SceneSkip, SceneFailOutright, SceneRun, SceneNone,
         Settle, TaskForbidden, TaskSkipped, TaskNoExec, TaskSpawnFails, TaskRun, TaskNone,
         WriteFails, WaitForTasks, ForceDeferred, Conclude, Return
    <3> QED BY <1>2, <3>1
  <2>4. CASE \/ \E p \in procs : ReadExit(p) \/ WorkerExit(p) \/ ReadUnihash(p)
             \/ WorkerDies \/ StopRequest \/ Ended
    <3>1. pc' = pc
      BY <2>4 DEF ReadExit, WorkerExit, ReadUnihash, WorkerDies, StopRequest, Ended, vars
    <3> QED BY <2>1, <3>1
  <2> QED BY <2>2, <2>3, <2>4 DEF Next, CookerStep
<1> QED BY <1>1, <1>2 DEF Choosing

(* execute() reaches the choice of a real task only through                *)
(* update_holdofftasks().                                                  *)
LEMMA TaskBefore ==
  ASSUME TypeOK, Next, pc' = "task", ~Settle
  PROVE  pc = "task" /\ sq' = sq
<1>1. CASE \/ \E p \in procs : WorkerExit(p) \/ ReadUnihash(p)
           \/ WorkerDies \/ StopRequest \/ Ended
  BY <1>1 DEF WorkerExit, ReadUnihash, WorkerDies, StopRequest, Ended, vars
<1>2. CASE CookerStep
  <2>1. pc' # "task"
    <3>1. CASE \E p \in procs : ReadExit(p)
      BY <3>1 DEF ReadExit, Reading
    <3>2. CASE \/ FinishNow \/ Finish \/ Execute \/ Teardown \/ ReadDone \/ MigrateNothing \/ Migrate
               \/ \E s \in Setscene : SceneSkip(s) \/ SceneFailOutright(s) \/ SceneRun(s)
               \/ SceneNone
               \/ \E t \in Tasks : \/ TaskForbidden(t) \/ TaskSkipped(t) \/ TaskNoExec(t)
                                   \/ TaskSpawnFails(t) \/ TaskRun(t)
               \/ TaskNone \/ WriteFails \/ WaitForTasks \/ ForceDeferred \/ Conclude
      BY <3>2 DEF FinishNow, Finish, Execute, Teardown, ReadDone, MigrateNothing, Migrate,
         SceneSkip, SceneFailOutright, SceneRun, SceneNone, TaskForbidden, TaskSkipped,
         TaskNoExec, TaskSpawnFails, TaskRun, TaskNone, WriteFails, WaitForTasks,
         ForceDeferred, Conclude, Return
    <3> QED BY <1>2, <3>1, <3>2 DEF CookerStep
  <2> QED BY <2>1
<1> QED BY <1>1, <1>2 DEF Next

----------------------------------------------------------------------------
(* The invariant is preserved.                                             *)

(* Only a report starts a migration. *)
LEMMA MigrateRehash ==
  ASSUME HardOrRehash, NoRehash, ConfigAssumption, Migrate
  PROVE  NoHardDepends
BY DEF HardOrRehash, NoRehash, Migrate

(* Without reports nothing is rehashed, ever. *)
LEMMA NoRehashStep ==
  ASSUME TypeOK, NoRehash, Next
  PROVE  NoRehash'
<1> SUFFICES ASSUME MaxUpdates = 0
             PROVE  hash'.updates = 0 /\ hash'.queue = {} /\ hash'.pending = {}
  BY DEF NoRehash
<1>1. hash.updates = 0 /\ hash.queue = {} /\ hash.pending = {}
  BY DEF NoRehash
<1>2. CASE hash' = hash
  BY <1>1, <1>2
<1>3. ~Migrate /\ ~\E p \in procs : ReadUnihash(p)
  BY <1>1 DEF Migrate, ReadUnihash
<1>4. CASE \/ \E p \in procs : ReadExit(p) \/ WorkerExit(p)
           \/ FinishNow \/ Finish \/ Execute \/ Teardown \/ ReadDone \/ MigrateNothing
           \/ \E s \in Setscene : SceneSkip(s) \/ SceneFailOutright(s) \/ SceneRun(s)
           \/ SceneNone \/ Settle
           \/ \E t \in Tasks : \/ TaskForbidden(t) \/ TaskSkipped(t) \/ TaskNoExec(t)
                               \/ TaskSpawnFails(t) \/ TaskRun(t)
           \/ TaskNone \/ WriteFails \/ WaitForTasks \/ ForceDeferred \/ Conclude
           \/ WorkerDies \/ StopRequest \/ Ended
  <2>1. hash' = hash
    BY <1>4 DEF ReadExit, WorkerExit, FinishNow, Finish, Execute, Teardown, ReadDone,
       MigrateNothing, SceneSkip, SceneFailOutright, SceneRun, SceneNone, Settle, TaskForbidden,
       TaskSkipped, TaskNoExec, TaskSpawnFails, TaskRun, TaskNone, WriteFails, WaitForTasks,
       ForceDeferred, Conclude, WorkerDies, StopRequest, Ended, vars
  <2> QED BY <1>2, <2>1
<1> QED BY <1>3, <1>4 DEF Next, CookerStep

(* What settling leaves of the scene queue. *)
LEMMA SettleSame ==
  ASSUME TypeOK, Settle
  PROVE  /\ sq' \in SqType
         /\ sq'.covered = sq.covered /\ sq'.notcovered = sq.notcovered
         /\ sq'.running = sq.running /\ sq'.buildable = sq.buildable /\ sq'.live = sq.live
         /\ sq'.deferred = sq.deferred /\ sq'.need_update = FALSE
         /\ sq'.stamp = sq.stamp /\ sq'.done = sq.done
         /\ procs' = procs
<1>1. sq \in SqType
  BY DEF TypeOK
<1> QED BY <1>1 DEF Settle, SqType

(* The scene queue stays consistent. *)
LEMMA SqSafeStep ==
  ASSUME HardOrRehash, TypeOK, SqDecided(sq), SqHard(sq), NoRehash, Next
  PROVE  SqDecided(sq') /\ SqHard(sq')
<1>1. sq \in SqType
  BY DEF TypeOK
<1>2. ASSUME NEW C, NEW N, Decides(C, N) PROVE SqDecided(sq') /\ SqHard(sq')
  BY <1>1, <1>2, GrownSafe DEF Decides
<1>3. ASSUME NEW s \in Setscene, SceneRun(s) PROVE SqDecided(sq') /\ SqHard(sq')
  <2>1. Sends(s)
    BY <1>3, SceneRunSends
  <2>2. Decided(sq') = Decided(sq) /\ s \notin Decided(sq)
    BY <2>1 DEF Sends, SqDecided, Decided
  <2> QED BY <2>1, <2>2 DEF Sends, SqDecided, SqHard
<1>4. CASE Settle
  BY <1>4, SettleSame DEF SqDecided, SqHard, Decided
<1>5. CASE Migrate
  <2>1. NoHardDepends
    BY <1>5, ConfigAssumption, MigrateRehash
  <2>2. PICK M, C : Restarts(M, C)
    BY <1>5, <2>1, MigrateRestarts
  <2>3. SqDecided(sq')
    BY <2>2 DEF Restarts, SqDecided, Decided
  <2> QED BY <2>1, <2>3 DEF NoHardDepends, SqHard
<1> QED BY <1>2, <1>3, <1>4, <1>5, SqStep

(* While nothing is decided or taken back, what was held off stays held    *)
(* off.                                                                    *)
LEMMA HeldOffKept ==
  ASSUME NEW S, NEW S2, HeldOffUndecided(S), S2 \subseteq S \cup Decided(sq'),
         Decided(sq) \cap S2 \subseteq Decided(sq'),
         rq.complete \subseteq rq'.complete, hold.tasks \subseteq hold'.tasks
  PROVE  \A s \in S2 \ Decided(sq') : {s} \cup (CoveredBy[s] \ rq'.complete) \subseteq hold'.tasks
BY DEF HeldOffUndecided, Around

(* holdoff_tasks stays fresh. *)
LEMMA FreshStep ==
  ASSUME HardOrRehash, TypeOK, SqDecided(sq), SqHard(sq), NoRehash, Fresh, Next
  PROVE  Fresh'
<1>1. sq \in SqType /\ rq \in RqType /\ hold \in HoldType
  BY DEF TypeOK
<1>2. rq.complete \subseteq rq'.complete
  BY RqStep DEF RqSame, Starts, Completes
<1>3. SUFFICES
        /\ pc' = "task" => ~sq'.need_update
        /\ ~sq'.need_update =>
             \A s \in sq'.buildable \ Decided(sq') :
               {s} \cup (CoveredBy[s] \ rq'.complete) \subseteq hold'.tasks
        /\ ~sq'.need_update /\ rq'.state = "Running" =>
             \A s \in Setscene \ Decided(sq') :
               {s} \cup (CoveredBy[s] \ rq'.complete) \subseteq hold'.tasks
  BY DEF Fresh, HeldOffUndecided, Around
<1>4. CASE Settle
  <2>1. Decided(sq') = Decided(sq) /\ ~sq'.need_update /\ sq'.buildable = sq.buildable
    BY <1>4, SettleSame DEF Decided
  <2>2. hold'.tasks = SettledHold.tasks
    BY <1>4, SettledType DEF Settle, HoldType
  <2>3. CASE sq.need_update
    <3>1. hold'.tasks = HeldOff
      BY <1>1, <2>2, <2>3 DEF SettledHold, HoldType
    <3>2. \A s \in Setscene \ Decided(sq) :
             {s} \cup (CoveredBy[s] \ rq.complete) \subseteq HeldOff
      <4> TAKE s \in Setscene \ Decided(sq)
      <4>1. s \in Undecided
        BY DEF Undecided, Decided
      <4> DEFINE U == UNION {CoveredBy[x] : x \in Undecided}
      <4>2. CoveredBy[s] \subseteq U
        BY <4>1
      <4>3. HeldOff = Undecided \cup (U \ rq.complete)
        BY DEF HeldOff
      <4> HIDE DEF U
      <4> QED BY <4>1, <4>2, <4>3
    <3>3. sq.buildable \subseteq Setscene
      BY <1>1 DEF SqType
    <3> QED BY <1>2, <2>1, <3>1, <3>2, <3>3
  <2>4. CASE ~sq.need_update
    <3>1. hold'.tasks = hold.tasks
      BY <2>2, <2>4 DEF SettledHold
    <3>2. rq'.state = "Running" => rq.state = "Running"
      BY RunningBefore
    <3>3. HeldOffUndecided(sq.buildable) /\ (rq.state = "Running" => HeldOffUndecided(Setscene))
      BY <2>4 DEF Fresh
    <3> QED BY <1>2, <2>1, <3>1, <3>2, <3>3, HeldOffKept
  <2> QED BY <2>3, <2>4
<1>5. ASSUME ~Settle PROVE pc' = "task" => ~sq'.need_update
  BY <1>5, TaskBefore DEF Fresh
<1>6. CASE Migrate
  <2>1. NoHardDepends
    BY <1>6, ConfigAssumption, MigrateRehash
  <2>2. PICK M, C : Restarts(M, C)
    BY <1>6, <2>1, MigrateRestarts
  <2>3. hold'.tasks = hold.tasks /\ pc' = "scene"
    BY <1>6, <2>1, MigrateRestarts
  <2>4. CASE sq'.need_update
    BY <2>3, <2>4
  <2>5. CASE ~sq'.need_update
    <3>1. /\ ~sq.need_update /\ sq'.buildable = sq.buildable \ M
          /\ M = {} \/ rq'.state = "CleanUp"
          /\ Decided(sq') = Decided(sq) \ M
      BY <2>2, <2>5 DEF Restarts, Decided
    <3>2. HeldOffUndecided(sq.buildable)
      BY <3>1 DEF Fresh
    <3>3. \A s \in sq'.buildable \ Decided(sq') :
             {s} \cup (CoveredBy[s] \ rq'.complete) \subseteq hold'.tasks
      BY <1>2, <2>3, <3>1, <3>2, HeldOffKept
    <3>4. ASSUME rq'.state = "Running"
          PROVE  \A s \in Setscene \ Decided(sq') :
                    {s} \cup (CoveredBy[s] \ rq'.complete) \subseteq hold'.tasks
      <4>1. Decided(sq') = Decided(sq)
        BY <3>1, <3>4
      <4>2. HeldOffUndecided(Setscene)
        BY <3>1, <3>4, RunningBefore DEF Fresh
      <4> QED BY <1>2, <2>3, <4>1, <4>2, HeldOffKept
    <3> QED BY <2>3, <3>3, <3>4
  <2> QED BY <2>4, <2>5
<1>7. CASE ~Settle /\ ~Migrate
  <2>1. hold' = hold
    BY <1>7, SceneDoneElsewhere
  <2>2. ASSUME ~sq'.need_update
        PROVE  /\ ~sq.need_update /\ sq'.buildable = sq.buildable
               /\ Decided(sq) \subseteq Decided(sq')
    <3>1. ASSUME NEW C, NEW N, Decides(C, N)
          PROVE  /\ ~sq.need_update /\ sq'.buildable = sq.buildable
                 /\ Decided(sq) \subseteq Decided(sq')
      BY <2>2, <3>1 DEF Decides, Grown, Decided
    <3>2. ASSUME NEW s \in Setscene, SceneRun(s)
          PROVE  /\ ~sq.need_update /\ sq'.buildable = sq.buildable
                 /\ Decided(sq) \subseteq Decided(sq')
      BY <2>2, <3>2, SceneRunSends DEF Sends, Decided
    <3> QED BY <1>7, <3>1, <3>2, SqStep
  <2>3. ASSUME ~sq'.need_update
        PROVE  \A s \in sq'.buildable \ Decided(sq') :
                  {s} \cup (CoveredBy[s] \ rq'.complete) \subseteq hold'.tasks
    <3>1. HeldOffUndecided(sq.buildable)
      BY <2>2, <2>3 DEF Fresh
    <3> QED BY <1>2, <2>1, <2>2, <2>3, <3>1, HeldOffKept
  <2>4. ASSUME ~sq'.need_update, rq'.state = "Running"
        PROVE  \A s \in Setscene \ Decided(sq') :
                  {s} \cup (CoveredBy[s] \ rq'.complete) \subseteq hold'.tasks
    <3>1. HeldOffUndecided(Setscene)
      BY <2>2, <2>4, RunningBefore DEF Fresh
    <3> QED BY <1>2, <2>1, <2>2, <2>4, <3>1, HeldOffKept
  <2> QED BY <1>5, <1>7, <2>3, <2>4
<1> QED BY <1>4, <1>6, <1>7

(* What starts is held off from no task of S that is protected. *)
LEMMA IdleKept ==
  ASSUME TypeOK, Next, NEW S, Idle(S), S \subseteq Setscene,
         pc = "task" => HeldOffUndecided(S), S \cap Decided(sq) = {}
  PROVE  \A s \in S : s \notin rq'.running /\ CoveredBy[s] \cap (rq'.running \ rq'.complete) = {}
<1> SUFFICES ASSUME NEW s \in S
             PROVE  s \notin rq'.running /\ CoveredBy[s] \cap (rq'.running \ rq'.complete) = {}
  OBVIOUS
<1>1. s \notin rq.running /\ CoveredBy[s] \cap (rq.running \ rq.complete) = {}
  BY DEF Idle, Busy
<1>2. CASE RqSame
  BY <1>1, <1>2 DEF RqSame
<1>3. ASSUME NEW t \in Tasks, Starts(t)
      PROVE  s \notin rq'.running /\ CoveredBy[s] \cap (rq'.running \ rq'.complete) = {}
  <2>1. t \notin hold.tasks
    BY <1>3 DEF Starts, TaskCandidates
  <2>2. Around(s) \subseteq hold.tasks
    BY <1>3 DEF Starts, HeldOffUndecided
  <2>3. t # s /\ t \notin CoveredBy[s] \ rq.complete
    BY <2>1, <2>2 DEF Around
  <2> QED BY <1>1, <1>3, <2>3 DEF Starts
<1>4. ASSUME NEW p \in procs, Completes(p)
      PROVE  s \notin rq'.running /\ CoveredBy[s] \cap (rq'.running \ rq'.complete) = {}
  BY <1>1, <1>4 DEF Completes
<1> QED BY <1>2, <1>3, <1>4, RqStep

(* Setscene tasks that may run or run, and what they cover, stay untouched. *)
LEMMA UntouchedStep ==
  ASSUME HardOrRehash, TypeOK, SqDecided(sq), SqHard(sq), NoRehash, Fresh, Untouched, Next
  PROVE  Untouched'
<1> DEFINE Alone(s) == s \notin rq'.running /\ CoveredBy[s] \cap (rq'.running \ rq'.complete) = {}
<1>1. sq \in SqType
  BY DEF TypeOK
<1>2. SUFFICES /\ \A s \in sq'.live : Alone(s)
               /\ Choosing' => \A s \in Setscene \ Decided(sq') : Alone(s)
  BY DEF Untouched, Idle, Busy
<1>3. \A s \in sq.live : Alone(s)
  <2>1. sq.live \subseteq Setscene /\ sq.live \cap Decided(sq) = {} /\ sq.live \subseteq sq.buildable
    BY <1>1 DEF SqDecided, SqType
  <2>2. pc = "task" => HeldOffUndecided(sq.live)
    BY <2>1 DEF Fresh, HeldOffUndecided
  <2> QED BY <2>1, <2>2, IdleKept DEF Untouched
<1>4. ASSUME Choosing' PROVE \A s \in Setscene \ Decided(sq) : Alone(s)
  <2>1. Idle(Setscene \ Decided(sq))
    BY <1>4, ChoosingBefore DEF Untouched
  <2>2. CASE \E t \in Tasks : Starts(t)
    <3>1. rq'.state = "Running" /\ pc = "task"
      BY <1>4, <2>2 DEF Starts, Choosing
    <3>2. HeldOffUndecided(Setscene)
      BY <3>1, RunningBefore DEF Fresh
    <3>3. HeldOffUndecided(Setscene \ Decided(sq))
      BY <3>2 DEF HeldOffUndecided
    <3> QED BY <2>1, <3>3, IdleKept
  <2>3. CASE RqSame \/ \E p \in procs : Completes(p)
    BY <2>1, <2>3 DEF RqSame, Completes, Idle, Busy
  <2> QED BY <2>2, <2>3, RqStep
<1>5. ASSUME NEW C, NEW N, Decides(C, N)
      PROVE  sq'.live \subseteq sq.live /\ Decided(sq) \subseteq Decided(sq')
  BY <1>5 DEF Decides, Grown, Decided
<1>6. CASE \E C, N : Decides(C, N)
  BY <1>3, <1>4, <1>5, <1>6
<1>7. CASE Settle
  BY <1>3, <1>4, <1>7, SettleSame DEF Decided
<1>8. ASSUME NEW s \in Setscene, SceneRun(s)
      PROVE  /\ \A x \in sq'.live : Alone(x)
             /\ Choosing' => \A x \in Setscene \ Decided(sq') : Alone(x)
  <2>1. Sends(s)
    BY <1>8, SceneRunSends
  <2>2. pc = "scene" /\ RqSame
    BY <1>8, OtherRqSame DEF SceneRun
  <2>3. s \in Setscene \ Decided(sq)
    BY <2>1 DEF Sends, SqDecided
  <2>4. s \notin rq.running /\ Busy(CoveredBy[s]) = {}
    BY <2>2, <2>3 DEF Untouched, Choosing, Idle
  <2>5. Alone(s)
    BY <2>2, <2>4 DEF RqSame, Busy
  <2> QED BY <1>3, <1>4, <2>1, <2>5 DEF Sends, Decided
<1>9. CASE Migrate
  <2>1. NoHardDepends
    BY <1>9, ConfigAssumption, MigrateRehash
  <2>2. PICK M, C : Restarts(M, C)
    BY <1>9, <2>1, MigrateRestarts
  <2>3. RqSame
    BY <1>9, OtherRqSame
  <2>4. \A m \in M : Alone(m)
    BY <2>2, <2>3 DEF Restarts, RqSame, Busy
  <2>5. Decided(sq) \subseteq Decided(sq') \cup M
    BY <2>2 DEF Restarts, Decided
  <2>6. sq'.live = sq.live
    BY <2>2 DEF Restarts
  <2> QED BY <1>3, <1>4, <2>4, <2>5, <2>6
<1> QED BY <1>6, <1>7, <1>8, <1>9, SqStep

(* What else happens to the processes: some end, or one changes its status. *)
LEMMA ProcsStep ==
  ASSUME TypeOK, SqDecided(sq), SqHard(sq), NoRehash, HardOrRehash, Next
  PROVE  \/ \E p \in procs : ReadExit(p)
         \/ \E p \in procs : WorkerExit(p)
         \/ \E s \in Setscene : SceneRun(s)
         \/ \E t \in Tasks : TaskRun(t)
         \/ /\ procs' \subseteq procs /\ sq'.live = sq.live
            /\ RqSame \/ \E t \in Tasks : Starts(t)
<1>1. CASE \E t \in Tasks : TaskSkipped(t) \/ TaskNoExec(t)
  <2>1. procs' = procs
    BY <1>1 DEF TaskSkipped, TaskNoExec
  <2> QED BY <1>1, <2>1, OtherDecides, TaskStarts
<1>2. CASE \E s \in Setscene : SceneSkip(s) \/ SceneFailOutright(s)
  <2>1. procs' = procs
    BY <1>2 DEF SceneSkip, SceneFailOutright
  <2> QED BY <1>2, <2>1, SceneDecides, OtherRqSame
<1>3. CASE Migrate
  <2>1. NoHardDepends
    BY <1>3, ConfigAssumption, MigrateRehash
  <2>2. PICK M, C : Restarts(M, C)
    BY <1>3, <2>1, MigrateRestarts
  <2>3. procs' = procs /\ RqSame /\ sq'.live = sq.live
    BY <1>3, <2>1, <2>2, MigrateRestarts, OtherRqSame DEF Restarts
  <2> QED BY <2>3
<1>4. CASE Settle
  BY <1>4, SettleSame, OtherRqSame
<1>5. CASE ForceDeferred
  <2>1. procs' = procs
    BY <1>5 DEF ForceDeferred
  <2> QED BY <1>5, <2>1, OtherDecides, OtherRqSame
<1>6. CASE \/ FinishNow \/ Finish \/ Execute \/ Teardown \/ ReadDone \/ MigrateNothing
           \/ SceneNone
           \/ \E t \in Tasks : TaskForbidden(t) \/ TaskSpawnFails(t)
           \/ TaskNone \/ WriteFails \/ WaitForTasks \/ Conclude
           \/ \E p \in procs : ReadUnihash(p)
           \/ WorkerDies \/ StopRequest \/ Ended
  <2>1. procs' \subseteq procs /\ sq' = sq
    BY <1>6 DEF FinishNow, Finish, Execute, Teardown, ReadDone, MigrateNothing, SceneNone,
       TaskForbidden, TaskSpawnFails, TaskNone, WriteFails, WaitForTasks, Conclude,
       ReadUnihash, WorkerDies, StopRequest, Ended, vars
  <2> QED BY <1>6, <2>1, OtherRqSame
<1> QED BY <1>1, <1>2, <1>3, <1>4, <1>5, <1>6 DEF Next, CookerStep

(* The processes stay those of live setscene tasks and started real tasks. *)
LEMMA StartedStep ==
  ASSUME HardOrRehash, TypeOK, Apart, Next
  PROVE  Started'
<1> USE DEF Apart
<1>1. sq \in SqType /\ rq \in RqType /\ procs \subseteq ProcType
  BY DEF TypeOK
<1>2. \A p \in procs : p.scene \in BOOLEAN /\ p.task \in Tasks
  BY <1>1, GraphAssumption DEF ProcType
<1>3. SUFFICES
        /\ rq'.complete \subseteq rq'.running
        /\ \A p \in procs' : p.scene => p.task \in sq'.live
        /\ \A p \in procs' : ~p.scene => p.task \in rq'.running \ rq'.complete
        /\ \A p, q \in procs' : p.task = q.task /\ p.scene = q.scene => p = q
  BY DEF Started, SceneProcs, RealProcs
<1>4. /\ rq.complete \subseteq rq.running
      /\ \A p \in procs : p.scene => p.task \in sq.live
      /\ \A p \in procs : ~p.scene => p.task \in rq.running \ rq.complete
      /\ \A p, q \in procs : p.task = q.task /\ p.scene = q.scene => p = q
  BY DEF Started, SceneProcs, RealProcs
<1>5. \A s \in sq.live : s \notin rq.running
  BY DEF Untouched, Idle
<1>6. ASSUME NEW p \in procs, ReadExit(p)
      PROVE  /\ rq'.complete \subseteq rq'.running
             /\ \A x \in procs' : x.scene => x.task \in sq'.live
             /\ \A x \in procs' : ~x.scene => x.task \in rq'.running \ rq'.complete
             /\ \A x, y \in procs' : x.task = y.task /\ x.scene = y.scene => x = y
  <2>1. sq'.live = sq.live \ {p.task} /\ procs' = procs \ {p}
    BY <1>6, ReadDecides DEF ReadExit
  <2>2. RqSame \/ Completes(p)
    BY <1>6, ReadCompletes
  <2>3. \A x \in procs' : x \in procs /\ x # p
    BY <2>1
  <2>4. \A x \in procs' : x.scene => x.task # p.task
    BY <1>2, <1>4, <1>5, <2>3
  <2>5. \A x \in procs' : ~x.scene => x.task # p.task
    BY <1>2, <1>4, <1>5, <2>3
  <2>6. Completes(p) => p.task \in rq.running
    BY <1>4 DEF Completes
  <2> QED BY <1>4, <2>1, <2>2, <2>3, <2>4, <2>5, <2>6 DEF RqSame, Completes
<1>7. ASSUME NEW p \in procs, WorkerExit(p)
      PROVE  /\ rq'.complete \subseteq rq'.running
             /\ \A x \in procs' : x.scene => x.task \in sq'.live
             /\ \A x \in procs' : ~x.scene => x.task \in rq'.running \ rq'.complete
             /\ \A x, y \in procs' : x.task = y.task /\ x.scene = y.scene => x = y
  <2>1. PICK status \in {"ok", "fail"} :
           procs' = (procs \ {p}) \cup {[p EXCEPT !.status = status]}
    BY <1>7 DEF WorkerExit
  <2> DEFINE n == [p EXCEPT !.status = status]
  <2>2. n.task = p.task /\ n.scene = p.scene
    BY <1>1 DEF ProcType
  <2> HIDE DEF n
  <2>3. procs' = (procs \ {p}) \cup {n}
    BY <2>1 DEF n
  <2>4. sq' = sq /\ rq' = rq
    BY <1>7 DEF WorkerExit
  <2> QED BY <1>4, <2>2, <2>3, <2>4
<1>8. ASSUME NEW s \in Setscene, SceneRun(s)
      PROVE  /\ rq'.complete \subseteq rq'.running
             /\ \A x \in procs' : x.scene => x.task \in sq'.live
             /\ \A x \in procs' : ~x.scene => x.task \in rq'.running \ rq'.complete
             /\ \A x, y \in procs' : x.task = y.task /\ x.scene = y.scene => x = y
  <2> DEFINE n == [task |-> s, scene |-> TRUE, status |-> "running"]
  <2>1. n.task = s /\ n.scene = TRUE
    OBVIOUS
  <2>2. procs' = procs \cup {n} /\ rq' = rq
    BY <1>8 DEF SceneRun
  <2> HIDE DEF n
  <2>3. sq'.live = sq.live \cup {s} /\ s \notin sq.live
    BY <1>8, SceneRunSends DEF Sends, SqDecided
  <2>4. \A x \in procs : x.scene => x.task # s
    BY <1>4, <2>3
  <2> QED BY <1>4, <2>1, <2>2, <2>3, <2>4
<1>9. ASSUME NEW t \in Tasks, TaskRun(t)
      PROVE  /\ rq'.complete \subseteq rq'.running
             /\ \A x \in procs' : x.scene => x.task \in sq'.live
             /\ \A x \in procs' : ~x.scene => x.task \in rq'.running \ rq'.complete
             /\ \A x, y \in procs' : x.task = y.task /\ x.scene = y.scene => x = y
  <2> DEFINE n == [task |-> t, scene |-> FALSE, status |-> "running"]
  <2>1. n.task = t /\ n.scene = FALSE
    OBVIOUS
  <2>2. procs' = procs \cup {n} /\ sq' = sq
    BY <1>9 DEF TaskRun
  <2> HIDE DEF n
  <2>3. rq' = [rq EXCEPT !.running = @ \cup {t}, !.active = @ + 1]
    BY <1>9 DEF TaskRun
  <2>4. rq'.running = rq.running \cup {t} /\ rq'.complete = rq.complete
    BY <1>1, <2>3 DEF RqType
  <2>5. t \notin rq.running
    BY <1>9 DEF TaskRun, MustRun, TaskCandidates
  <2>6. \A x \in procs : ~x.scene => x.task # t
    BY <1>4, <2>5
  <2> QED BY <1>2, <1>4, <2>1, <2>2, <2>4, <2>5, <2>6
<1>10. ASSUME /\ procs' \subseteq procs /\ sq'.live = sq.live
              /\ RqSame \/ \E t \in Tasks : Starts(t)
       PROVE  /\ rq'.complete \subseteq rq'.running
              /\ \A x \in procs' : x.scene => x.task \in sq'.live
              /\ \A x \in procs' : ~x.scene => x.task \in rq'.running \ rq'.complete
              /\ \A x, y \in procs' : x.task = y.task /\ x.scene = y.scene => x = y
  <2>1. CASE RqSame
    BY <1>4, <1>10, <2>1 DEF RqSame
  <2>2. ASSUME NEW t \in Tasks, Starts(t)
        PROVE  /\ rq'.complete \subseteq rq'.running
               /\ \A x \in procs' : ~x.scene => x.task \in rq'.running \ rq'.complete
    <3>1. t \notin rq.running
      BY <2>2 DEF Starts, TaskCandidates
    <3> QED BY <1>4, <1>10, <2>2, <3>1 DEF Starts
  <2> QED BY <1>4, <1>10, <2>1, <2>2
<1> QED BY <1>6, <1>7, <1>8, <1>9, <1>10, ProcsStep

(* The first update_scenequeue_data() may cover tasks that need no work. *)
LEMMA InitialScene ==
  ASSUME Init
  PROVE  \E q \in SqType, C \in SUBSET Setscene :
           /\ Grown(q, sq, C, {})
           /\ q.buildable = InitialSqBuildable /\ q.running = {} /\ q.live = {}
           /\ q.covered = {} /\ q.notcovered = {} /\ q.need_update = TRUE
           /\ q.deferred = InitialDeferred /\ q.stamp = Restrict(InitUnihash, Setscene)
<1>1. PICK avail \in SUBSET Setscene : \E dk :
        LET q  == [buildable |-> InitialSqBuildable, running |-> {}, live |-> {},
                   covered |-> {}, notcovered |-> {}, done |-> InitialDone,
                   deferred |-> InitialDeferred, outrightfail |-> {}, valid |-> {},
                   need_update |-> TRUE, stamp |-> Restrict(InitUnihash, Setscene)]
        IN  sq = UpdateSceneQueueData(q, Setscene, dk, avail)
  BY DEF Init
<1> DEFINE q  == [buildable |-> InitialSqBuildable, running |-> {}, live |-> {},
                  covered |-> {}, notcovered |-> {}, done |-> InitialDone,
                  deferred |-> InitialDeferred, outrightfail |-> {}, valid |-> {},
                  need_update |-> TRUE, stamp |-> Restrict(InitUnihash, Setscene)]
<1>2. q \in SqType
  <2>1. Restrict(InitUnihash, Setscene) \in [Setscene -> Unihashes]
    BY GraphAssumption, ConfigAssumption DEF Restrict
  <2>2. InitialSqBuildable \subseteq Setscene /\ InitialDone \subseteq Tasks
    BY DEF InitialSqBuildable, InitialDone, Unskippable
  <2> QED BY <2>1, <2>2, InitialDeferredType DEF SqType
<1>3. /\ q.buildable = InitialSqBuildable /\ q.running = {} /\ q.live = {}
      /\ q.covered = {} /\ q.notcovered = {} /\ q.need_update = TRUE
      /\ q.deferred = InitialDeferred /\ q.stamp = Restrict(InitUnihash, Setscene)
  OBVIOUS
<1>4. PICK dk : sq = UpdateSceneQueueData(q, Setscene, dk, avail)
  BY <1>1
<1> HIDE DEF q
<1>5. q.live \cap Setscene = {}
  BY <1>3
<1>6. PICK C \in SUBSET Setscene : Grown(q, sq, C, {})
  BY <1>2, <1>4, <1>5, UpdateSceneQueueDataGrows
<1> QED BY <1>2, <1>3, <1>6

(* The initial states satisfy the invariant. *)
LEMMA ApartInit ==
  ASSUME Init
  PROVE  Apart
<1>1. rq.state = "Running" /\ rq.running = {} /\ rq.complete = {} /\ pc = "top" /\ procs = {}
  BY DEF Init
<1>2. hash.updates = 0 /\ hash.queue = {} /\ hash.pending = {}
  BY DEF Init
<1>3. PICK q \in SqType, C \in SUBSET Setscene :
        /\ Grown(q, sq, C, {})
        /\ q.buildable = InitialSqBuildable /\ q.running = {} /\ q.live = {}
        /\ q.covered = {} /\ q.notcovered = {} /\ q.need_update = TRUE
        /\ q.deferred = InitialDeferred
  BY InitialScene
<1>4. SqDecided(q)
  BY <1>3 DEF SqDecided, Decided
<1>5. SqHard(q)
  <2> SUFFICES ASSUME NEW w \in Setscene, NEW s \in InitialSqBuildable \cap HardChildren[w]
               PROVE  FALSE
    BY <1>3 DEF SqHard, Decided
  <2>1. s \in Setscene /\ SqRevdeps[s] = {}
    BY DEF InitialSqBuildable
  <2>2. w \in SqRevdeps[s]
    BY <2>1 DEF SqRevdeps
  <2> QED BY <2>1, <2>2
<1>6. SqDecided(sq) /\ SqHard(sq)
  BY <1>3, <1>4, <1>5, GrownSafe
<1>7. sq.need_update /\ sq.live = {}
  BY <1>3 DEF Grown
<1>8. NoRehash /\ Fresh /\ Untouched /\ Started
  BY <1>1, <1>2, <1>7 DEF NoRehash, Fresh, Untouched, Started, Idle, Busy, SceneProcs, RealProcs
<1> QED BY <1>6, <1>8 DEF Apart

(* Where hard dependencies and rehashing do not meet, the two sides of the *)
(* run queue never meet either.                                            *)
LEMMA ApartInvariant ==
  ASSUME HardOrRehash
  PROVE  Spec => []Apart
<1>1. Init => Apart
  BY ApartInit
<1>2. TypeOK /\ Apart /\ [Next]_vars => Apart'
  <2> SUFFICES ASSUME TypeOK, Apart, [Next]_vars PROVE Apart'
    OBVIOUS
  <2>1. CASE Next
    <3>1. SqDecided(sq) /\ SqHard(sq) /\ NoRehash /\ Fresh /\ Untouched
      BY DEF Apart
    <3>2. SqDecided(sq)' /\ SqHard(sq)'
      BY <2>1, <3>1, SqSafeStep DEF SqDecided, SqHard, Decided
    <3>3. NoRehash' /\ Fresh' /\ Untouched' /\ Started'
      BY <2>1, <3>1, NoRehashStep, FreshStep, UntouchedStep, StartedStep
    <3> QED BY <3>2, <3>3 DEF Apart
  <2>2. CASE UNCHANGED vars
    BY <2>2 DEF vars, Apart, SqDecided, SqHard, Decided, NoRehash, Fresh, HeldOffUndecided,
       Around, Untouched, Choosing, Idle, Busy, Started, SceneProcs, RealProcs
  <2> QED BY <2>1, <2>2
<1> QED BY <1>1, <1>2, TypeCorrect, PTL DEF Spec

----------------------------------------------------------------------------
(* The theorems.                                                           *)

(* A task is never run and restored at the same time, so every exit code   *)
(* is attributed to the process it came from: whatever was chosen,         *)
(* rehashed, deferred or skipped in between.                               *)
THEOREM OneProcess ==
  ASSUME HardOrRehash
  PROVE  Spec => []OneProcessPerTask
<1>1. TypeOK /\ Apart => OneProcessPerTask
  <2> SUFFICES ASSUME TypeOK, Apart, NEW p \in procs, NEW q \in procs, p.task = q.task
               PROVE  p = q
    BY DEF OneProcessPerTask
  <2>1. p.scene \in BOOLEAN /\ q.scene \in BOOLEAN
    BY DEF TypeOK, ProcType
  <2>2. CASE p.scene = q.scene
    BY <2>2 DEF Apart, Started
  <2>3. CASE p.scene # q.scene
    <3>1. \A x, y \in procs : x.scene /\ ~y.scene => x.task # y.task
      BY DEF Apart, Started, Untouched, Idle, SceneProcs, RealProcs
    <3> QED BY <2>1, <2>3, <3>1
  <2> QED BY <2>2, <2>3
<1> QED BY <1>1, ApartInvariant, TypeCorrect, PTL

(* While a setscene task runs, no task that it would replace is running:   *)
(* holdoff_tasks and the bookkeeping of rehashed tasks see to it.          *)
THEOREM RestoresWait ==
  ASSUME HardOrRehash
  PROVE  Spec => []RestoreWaits
<1>1. Apart => RestoreWaits
  BY DEF Apart, Started, Untouched, Idle, SceneProcs, RestoreWaits
<1> QED BY <1>1, ApartInvariant, PTL

----------------------------------------------------------------------------
(* What was restored is neither given up nor built.                        *)

(* Without equal indexes and without reports nothing is deferred. *)
NeverDeferred == MaxUpdates = 0 /\ DOMAIN InitialDeferred = {} => DOMAIN sq.deferred = {}

(* What the scheduler may run, rather than skip as covered. *)
ToRun == hold.notcovered \ hold.covered

(* What is covered, or may be as soon as the task it waits for completes. *)
MayCover == sq.covered \cup DOMAIN sq.deferred

Exclusive ==
  /\ NeverDeferred
  /\ MayCover \cap sq.notcovered = {}
  /\ ~sq.need_update => Setscene \cap ToRun \cap MayCover = {}
  /\ \A p \in RealProcs : p.task \notin MayCover

(* The deferrals of equal setscene tasks are the first and, without        *)
(* reports, the last ones.                                                 *)
LEMMA NeverDeferredStep ==
  ASSUME TypeOK, SqDecided(sq), SqHard(sq), NoRehash, NeverDeferred, Next
  PROVE  NeverDeferred'
<1> SUFFICES ASSUME MaxUpdates = 0, DOMAIN InitialDeferred = {}
             PROVE  DOMAIN sq'.deferred = {}
  BY DEF NeverDeferred
<1>1. DOMAIN sq.deferred = {}
  BY DEF NeverDeferred
<1>2. ~Migrate
  BY DEF NoRehash, Migrate
<1>3. ASSUME NEW C, NEW N, Decides(C, N) PROVE DOMAIN sq'.deferred = {}
  BY <1>1, <1>3 DEF Decides, Grown
<1>4. ASSUME NEW s \in Setscene, SceneRun(s) PROVE DOMAIN sq'.deferred = {}
  BY <1>1, <1>4, SceneRunSends DEF Sends
<1>5. CASE Settle
  BY <1>1, <1>5, SettleSame
<1> QED BY <1>2, <1>3, <1>4, <1>5, SqStep

(* A decision is never taken about what was decided the other way. *)
LEMMA CoveredApartStep ==
  ASSUME HardOrDeferred, TypeOK, SqDecided(sq), SqHard(sq), NoRehash, Exclusive, Next
  PROVE  (sq'.covered \cup DOMAIN sq'.deferred) \cap sq'.notcovered = {}
<1>1. MayCover \cap sq.notcovered = {}
  BY DEF Exclusive
<1>2. ASSUME NEW C, NEW N, Decides(C, N)
      PROVE  (sq'.covered \cup DOMAIN sq'.deferred) \cap sq'.notcovered = {}
  <2>1. /\ sq'.covered = sq.covered \cup C /\ sq'.notcovered = sq.notcovered \cup N
        /\ DOMAIN sq'.deferred \subseteq DOMAIN sq.deferred
    BY <1>2 DEF Decides, Grown
  <2>2. C \cap sq.notcovered = {} /\ N \cap sq.covered = {} /\ C \cap N = {}
    <3>1. C \subseteq sq.live \cup DOMAIN sq.deferred \cup (Setscene \ Decided(sq))
      BY <1>2 DEF Decides
    <3>2. sq.live \cap sq.notcovered = {}
      BY DEF SqDecided, Decided
    <3> QED BY <1>1, <1>2, <3>1, <3>2 DEF Decides, MayCover, Decided
  <2>3. N \cap DOMAIN sq'.deferred = {}
    <3>1. CASE NoHardDepends
      BY <1>2, <3>1 DEF Decides
    <3>2. CASE MaxUpdates = 0 /\ DOMAIN InitialDeferred = {}
      BY <2>1, <3>2 DEF Exclusive, NeverDeferred
    <3> QED BY <3>1, <3>2 DEF HardOrDeferred
  <2> QED BY <1>1, <2>1, <2>2, <2>3 DEF MayCover
<1>3. ASSUME NEW s \in Setscene, SceneRun(s)
      PROVE  (sq'.covered \cup DOMAIN sq'.deferred) \cap sq'.notcovered = {}
  BY <1>1, <1>3, SceneRunSends DEF Sends, MayCover
<1>4. CASE Settle
  BY <1>1, <1>4, SettleSame DEF MayCover
<1>5. CASE Migrate
  <2>1. NoHardDepends
    BY <1>5, ConfigAssumption, MigrateRehash DEF HardOrDeferred, HardOrRehash
  <2>2. PICK M, C : Restarts(M, C)
    BY <1>5, <2>1, MigrateRestarts
  <2>3. /\ sq'.covered \subseteq sq.covered \cup M /\ sq'.notcovered = sq.notcovered \ M
        /\ DOMAIN sq'.deferred \subseteq DOMAIN sq.deferred \cup M
    BY <2>2 DEF Restarts
  <2> QED BY <1>1, <2>3 DEF MayCover
<1> QED BY <1>2, <1>3, <1>4, <1>5, SqStep

(* Between two computations of the covered tasks nothing that they say is  *)
(* to be built becomes covered.                                            *)
LEMMA ToRunStep ==
  ASSUME HardOrDeferred, TypeOK, SqDecided(sq), SqHard(sq), NoRehash, Exclusive, Next
  PROVE  ~sq'.need_update =>
           Setscene \cap (hold'.notcovered \ hold'.covered)
             \cap (sq'.covered \cup DOMAIN sq'.deferred) = {}
<1> SUFFICES ASSUME ~sq'.need_update
             PROVE  Setscene \cap (hold'.notcovered \ hold'.covered)
                      \cap (sq'.covered \cup DOMAIN sq'.deferred) = {}
  OBVIOUS
<1>1. hold \in HoldType /\ sq \in SqType
  BY DEF TypeOK
<1>2. CASE Settle
  <2>1. hold'.covered = SettledHold.covered /\ hold'.notcovered = SettledHold.notcovered
    BY <1>2, SettledType DEF Settle, HoldType
  <2>2. sq'.covered = sq.covered /\ sq'.deferred = sq.deferred
    BY <1>2, SettleSame
  <2>3. CASE sq.need_update
    <3>1. hold'.notcovered = NotCovered
      BY <1>1, <2>1, <2>3 DEF SettledHold, HoldType
    <3> DEFINE U == UNION {CoveredBy[s] : s \in sq.notcovered}
    <3>2. U \cap Setscene = {}
      <4>1. sq.notcovered \subseteq Setscene
        BY <1>1 DEF SqType
      <4>2. \A s \in sq.notcovered : CoveredBy[s] \cap Setscene = {}
        BY <4>1 DEF CoveredBy, RealTasks
      <4> QED BY <4>2
    <3>3. NotCovered = sq.done \cap (sq.notcovered \cup CantSkip \cup (Unskippable \ Setscene) \cup U)
      BY DEF NotCovered
    <3> HIDE DEF U
    <3>4. NotCovered \cap Setscene \subseteq sq.notcovered
      BY <3>2, <3>3 DEF CantSkip
    <3> QED BY <2>2, <3>1, <3>4 DEF Exclusive, MayCover
  <2>4. CASE ~sq.need_update
    <3>1. hold'.notcovered = hold.notcovered /\ hold'.covered = hold.covered
      BY <2>1, <2>4 DEF SettledHold
    <3> QED BY <2>2, <2>4, <3>1 DEF Exclusive, MayCover, ToRun
  <2> QED BY <2>3, <2>4
<1>3. ASSUME ~sq.need_update, sq'.covered \subseteq sq.covered,
             DOMAIN sq'.deferred \subseteq DOMAIN sq.deferred,
             hold'.covered = hold.covered, hold'.notcovered = hold.notcovered
      PROVE  Setscene \cap (hold'.notcovered \ hold'.covered)
               \cap (sq'.covered \cup DOMAIN sq'.deferred) = {}
  BY <1>3 DEF Exclusive, MayCover, ToRun
<1>4. CASE Migrate
  <2>1. NoHardDepends
    BY <1>4, ConfigAssumption, MigrateRehash DEF HardOrDeferred, HardOrRehash
  <2>2. PICK M, C : Restarts(M, C)
    BY <1>4, <2>1, MigrateRestarts
  <2>3. hold'.covered = hold.covered /\ hold'.notcovered = hold.notcovered
    BY <1>4, <2>1, MigrateRestarts
  <2>4. /\ ~sq.need_update /\ sq'.covered \subseteq sq.covered
        /\ DOMAIN sq'.deferred \subseteq DOMAIN sq.deferred
    BY <2>2 DEF Restarts
  <2> QED BY <1>3, <2>3, <2>4
<1>5. CASE ~Settle /\ ~Migrate
  <2>1. hold' = hold
    BY <1>5, SceneDoneElsewhere
  <2>2. ASSUME NEW C, NEW N, Decides(C, N)
        PROVE  /\ ~sq.need_update /\ sq'.covered \subseteq sq.covered
               /\ DOMAIN sq'.deferred \subseteq DOMAIN sq.deferred
    BY <2>2 DEF Decides, Grown
  <2>3. ASSUME NEW s \in Setscene, SceneRun(s)
        PROVE  /\ ~sq.need_update /\ sq'.covered \subseteq sq.covered
               /\ DOMAIN sq'.deferred \subseteq DOMAIN sq.deferred
    BY <2>3, SceneRunSends DEF Sends
  <2> QED BY <1>3, <1>5, <2>1, <2>2, <2>3, SqStep
<1> QED BY <1>2, <1>4, <1>5

(* Where the real processes come from. *)
LEMMA RealProcsStep ==
  ASSUME TypeOK, Next, NEW p \in procs', ~p.scene
  PROVE  \/ \E q \in RealProcs : q.task = p.task
         \/ TaskRun(p.task)
<1>1. procs \subseteq ProcType
  BY DEF TypeOK
<1>2. CASE p \in procs
  BY <1>2 DEF RealProcs
<1>3. ASSUME NEW q \in procs, WorkerExit(q), p \notin procs
      PROVE  \E r \in RealProcs : r.task = p.task
  <2>1. PICK status \in {"ok", "fail"} : p = [q EXCEPT !.status = status]
    BY <1>3 DEF WorkerExit
  <2>2. p.task = q.task /\ p.scene = q.scene
    BY <1>1, <2>1 DEF ProcType
  <2> QED BY <2>2 DEF RealProcs
<1>4. ASSUME NEW s \in Setscene, SceneRun(s) PROVE p \in procs
  <2>1. p \in procs \/ p = [task |-> s, scene |-> TRUE, status |-> "running"]
    BY <1>4 DEF SceneRun
  <2> QED BY <2>1
<1>5. ASSUME NEW t \in Tasks, TaskRun(t) PROVE p \in procs \/ p.task = t
  <2>1. p \in procs \/ p = [task |-> t, scene |-> FALSE, status |-> "running"]
    BY <1>5 DEF TaskRun
  <2> QED BY <2>1
<1>6. ASSUME \/ \E q \in procs : ReadExit(q) \/ ReadUnihash(q)
             \/ FinishNow \/ Finish \/ Execute \/ Teardown \/ ReadDone \/ MigrateNothing \/ Migrate
             \/ \E s \in Setscene : SceneSkip(s) \/ SceneFailOutright(s)
             \/ SceneNone \/ Settle
             \/ \E t \in Tasks : \/ TaskForbidden(t) \/ TaskSkipped(t) \/ TaskNoExec(t)
                                 \/ TaskSpawnFails(t)
             \/ TaskNone \/ WriteFails \/ WaitForTasks \/ ForceDeferred \/ Conclude
             \/ WorkerDies \/ StopRequest \/ Ended
      PROVE  p \in procs
  BY <1>6 DEF ReadExit, ReadUnihash, FinishNow, Finish, Execute, Teardown, ReadDone,
     MigrateNothing, Migrate, SceneSkip, SceneFailOutright, SceneNone, Settle, TaskForbidden,
     TaskSkipped, TaskNoExec, TaskSpawnFails, TaskNone, WriteFails, WaitForTasks, ForceDeferred,
     Conclude, WorkerDies, StopRequest, Ended, vars
<1> QED BY <1>2, <1>3, <1>4, <1>5, <1>6 DEF Next, CookerStep

(* What is being built does not become covered. *)
LEMMA BuiltApartStep ==
  ASSUME HardOrDeferred, TypeOK, Apart, Exclusive, Next
  PROVE  \A p \in procs' : ~p.scene => p.task \notin sq'.covered \cup DOMAIN sq'.deferred
<1> SUFFICES ASSUME NEW p \in procs', ~p.scene
             PROVE  p.task \notin sq'.covered \cup DOMAIN sq'.deferred
  OBVIOUS
<1> USE DEF Apart
<1>1. sq \in SqType
  BY DEF TypeOK
<1>2. ASSUME TaskRun(p.task)
      PROVE  p.task \notin sq'.covered \cup DOMAIN sq'.deferred
  <2>1. pc = "task" /\ sq' = sq /\ p.task \in ToRun
    BY <1>2 DEF TaskRun, MustRun, TaskCandidates, ToRun
  <2>2. MayCover \subseteq Setscene
    <3>1. DOMAIN sq.deferred \subseteq Setscene
      BY <1>1, PartialElim DEF SqType
    <3> QED BY <1>1, <3>1 DEF MayCover, SqType
  <2>3. p.task \notin MayCover
    BY <2>1, <2>2 DEF Fresh, Exclusive
  <2> QED BY <2>1, <2>3 DEF MayCover
<1>3. ASSUME NEW q \in RealProcs, q.task = p.task
      PROVE  p.task \notin sq'.covered \cup DOMAIN sq'.deferred
  <2> DEFINE t == p.task
  <2>1. t \in rq.running /\ t \notin MayCover
    BY <1>3 DEF Started, Exclusive
  <2>2. t \notin sq.live
    BY <2>1 DEF Untouched, Idle
  <2>3. ASSUME NEW C, NEW N, Decides(C, N)
        PROVE  t \notin sq'.covered \cup DOMAIN sq'.deferred
    <3>1. pc = "scene" => t \notin Setscene \ Decided(sq)
      BY <2>1 DEF Untouched, Choosing, Idle
    <3>2. t \notin C
      BY <2>1, <2>2, <2>3, <3>1 DEF Decides, MayCover
    <3> QED BY <2>1, <2>3, <3>2 DEF Decides, Grown, MayCover
  <2>4. ASSUME NEW s \in Setscene, SceneRun(s)
        PROVE  t \notin sq'.covered \cup DOMAIN sq'.deferred
    BY <2>1, <2>4, SceneRunSends DEF Sends, MayCover
  <2>5. CASE Settle
    BY <2>1, <2>5, SettleSame DEF MayCover
  <2>6. CASE Migrate
    <3>1. NoHardDepends
      BY <2>6, ConfigAssumption, MigrateRehash DEF HardOrDeferred, HardOrRehash
    <3>2. PICK M, C : Restarts(M, C)
      BY <2>6, <3>1, MigrateRestarts
    <3> QED BY <2>1, <3>2 DEF Restarts, MayCover
  <2> QED BY <2>3, <2>4, <2>5, <2>6, SqStep
<1> QED BY <1>2, <1>3, RealProcsStep

(* The initial states exclude what the invariant excludes. *)
LEMMA ExclusiveInit ==
  ASSUME Init
  PROVE  Exclusive
<1>1. procs = {}
  BY DEF Init
<1>2. PICK q \in SqType, C \in SUBSET Setscene :
        /\ Grown(q, sq, C, {})
        /\ q.buildable = InitialSqBuildable /\ q.running = {} /\ q.live = {}
        /\ q.covered = {} /\ q.notcovered = {} /\ q.need_update = TRUE
        /\ q.deferred = InitialDeferred
  BY InitialScene
<1>3. sq.notcovered = {} /\ sq.need_update /\ DOMAIN sq.deferred \subseteq DOMAIN InitialDeferred
  BY <1>2 DEF Grown
<1> QED BY <1>1, <1>3 DEF Exclusive, NeverDeferred, RealProcs

(* Where hard dependencies meet neither rehashing nor deferrals, what is   *)
(* covered excludes what is not covered and what is built.                 *)
LEMMA ExclusiveInvariant ==
  ASSUME HardOrDeferred
  PROVE  Spec => []Exclusive
<1>1. HardOrRehash
  BY DEF HardOrDeferred, HardOrRehash
<1>2. Init => Exclusive
  BY ExclusiveInit
<1>3. TypeOK /\ Apart /\ Exclusive /\ [Next]_vars => Exclusive'
  <2> SUFFICES ASSUME TypeOK, Apart, Exclusive, [Next]_vars PROVE Exclusive'
    OBVIOUS
  <2>1. CASE Next
    <3>1. SqDecided(sq) /\ SqHard(sq) /\ NoRehash /\ NeverDeferred
      BY DEF Apart, Exclusive
    <3>2. NeverDeferred'
      BY <2>1, <3>1, NeverDeferredStep
    <3>3. (MayCover \cap sq.notcovered = {})'
      BY <2>1, <3>1, CoveredApartStep DEF MayCover
    <3>4. (~sq.need_update => Setscene \cap ToRun \cap MayCover = {})'
      BY <2>1, <3>1, ToRunStep DEF MayCover, ToRun
    <3>5. (\A p \in RealProcs : p.task \notin MayCover)'
      BY <2>1, BuiltApartStep DEF MayCover, RealProcs
    <3> QED BY <3>2, <3>3, <3>4, <3>5 DEF Exclusive
  <2>2. CASE UNCHANGED vars
    BY <2>2 DEF vars, Exclusive, NeverDeferred, MayCover, ToRun, RealProcs
  <2> QED BY <2>1, <2>2
<1> QED BY <1>1, <1>2, <1>3, ApartInvariant, TypeCorrect, PTL DEF Spec

(* No setscene task is ever both covered and not covered: a decision is    *)
(* taken once, until the task is reset.                                    *)
THEOREM DecidedOnce ==
  ASSUME HardOrDeferred
  PROVE  Spec => []CoveredOrNot
<1>1. Exclusive => CoveredOrNot
  BY DEF Exclusive, MayCover, CoveredOrNot
<1> QED BY <1>1, ExclusiveInvariant, PTL

(* While a task is built nothing restores it or skips it as restored, not  *)
(* even the completion of the task that its own restore was deferred after. *)
THEOREM BuiltNotRestored ==
  ASSUME HardOrDeferred
  PROVE  Spec => []RestoredNotRebuilt
<1>1. Exclusive => RestoredNotRebuilt
  BY DEF Exclusive, MayCover, RestoredNotRebuilt
<1> QED BY <1>1, ExclusiveInvariant, PTL

----------------------------------------------------------------------------
(* The counters.                                                           *)

(* Where stats.active is still used to start tasks.  Halting and failing   *)
(* leave the counters to themselves.                                       *)
Counting == (rq.state = "Running" /\ pc # "end") \/ pc \in {"read", "migrate", "scene", "settle", "task"}

Counted ==
  /\ rq.active = Cardinality(RealProcs)
  /\ sq.live = {p.task : p \in SceneProcs}
  /\ Cardinality(procs) <= rq.active + Cardinality(sq.live)

Counts ==
  /\ IsFiniteSet(procs)
  /\ Cardinality(procs) <= NumberTasks
  /\ Counting /\ env.worker = "up" => Counted

(* A counter that stands for a task can be decremented. *)
LEMMA DecrementExact ==
  ASSUME NEW n \in Nat \ {0}
  PROVE  Decrement(n) = n - 1
BY ConfigAssumption DEF Decrement

(* Both kinds of processes are finitely many. *)
LEMMA KindsFinite ==
  ASSUME IsFiniteSet(procs)
  PROVE  /\ IsFiniteSet(RealProcs) /\ Cardinality(RealProcs) \in Nat
         /\ Cardinality(procs) \in Nat
<1>1. RealProcs \in SUBSET procs
  BY DEF RealProcs
<1>2. IsFiniteSet(RealProcs)
  BY ONLY <1>1, FS_Subset, IsFiniteSet(procs)
<1>3. Cardinality(RealProcs) \in Nat
  BY ONLY <1>2, FS_CardinalityType
<1>4. Cardinality(procs) \in Nat
  BY ONLY FS_CardinalityType, IsFiniteSet(procs)
<1> QED BY <1>2, <1>3, <1>4

(* The live tasks are finitely many. *)
LEMMA LiveFinite ==
  ASSUME TypeOK
  PROVE  IsFiniteSet(sq.live) /\ Cardinality(sq.live) \in Nat
<1>1. sq.live \in SUBSET Tasks /\ IsFiniteSet(Tasks)
  BY GraphAssumption DEF TypeOK, SqType
<1>2. IsFiniteSet(sq.live)
  BY ONLY <1>1, FS_Subset
<1> QED BY ONLY <1>2, FS_CardinalityType

(* The counters were in use before every step after which they are. *)
LEMMA CountingBefore ==
  ASSUME TypeOK, Next, Counting'
  PROVE  Counting
<1>1. CASE rq'.state = "Running" /\ pc' # "end"
  <2>1. rq.state = "Running"
    BY <1>1, RunningBefore
  <2>2. CASE pc = "end"
    <3>1. pc' = "end"
      BY <2>2 DEF Next, CookerStep, FinishNow, Finish, Execute, Teardown, ReadExit, Reading,
         ReadDone, MigrateNothing, Migrate, SceneSkip, SceneFailOutright, SceneRun, SceneNone,
         Settle, TaskForbidden, TaskSkipped, TaskNoExec, TaskSpawnFails, TaskRun, MustRun,
         TaskNone, WriteFails, WaitForTasks, ForceDeferred, Conclude, NothingLives, WorkerExit,
         ReadUnihash, WorkerDies, StopRequest, Ended, vars
    <3> QED BY <1>1, <3>1
  <2> QED BY <2>1, <2>2 DEF Counting
<1>2. CASE pc' \in {"read", "migrate", "scene", "settle", "task"}
  <2>1. CASE pc' = pc
    BY <1>2, <2>1 DEF Counting
  <2>2. CASE \/ Execute \/ ReadDone \/ MigrateNothing \/ Migrate \/ SceneNone \/ Settle
             \/ \E s \in Setscene : SceneRun(s)
    BY <1>2, <2>2 DEF Execute, ReadDone, MigrateNothing, Migrate, SceneNone, Settle, SceneRun,
       Return, Counting
  <2>3. CASE \/ FinishNow \/ Finish \/ Teardown
             \/ \E s \in Setscene : SceneSkip(s) \/ SceneFailOutright(s)
             \/ \E t \in Tasks : \/ TaskForbidden(t) \/ TaskSkipped(t) \/ TaskNoExec(t)
                                 \/ TaskSpawnFails(t) \/ TaskRun(t)
             \/ TaskNone \/ WriteFails \/ WaitForTasks \/ ForceDeferred \/ Conclude
    <3>1. pc' \notin {"read", "migrate", "scene", "settle", "task"}
      BY <2>3 DEF FinishNow, Finish, Teardown, SceneSkip, SceneFailOutright, TaskForbidden,
         TaskSkipped, TaskNoExec, TaskSpawnFails, TaskRun, TaskNone, WriteFails, WaitForTasks,
         ForceDeferred, Conclude, Return
    <3> QED BY <1>2, <3>1
  <2>4. CASE \/ \E p \in procs : ReadExit(p) \/ WorkerExit(p) \/ ReadUnihash(p)
             \/ WorkerDies \/ StopRequest \/ Ended
    <3>1. pc' = pc
      BY <2>4 DEF ReadExit, WorkerExit, ReadUnihash, WorkerDies, StopRequest, Ended, vars
    <3> QED BY <2>1, <3>1
  <2> QED BY <2>2, <2>3, <2>4 DEF Next, CookerStep
<1> QED BY <1>1, <1>2 DEF Counting

(* What changes neither a counter nor a process. *)
CountsSame == rq'.active = rq.active /\ sq'.live = sq.live /\ procs' = procs

(* A task that is skipped, or has nothing to execute, leaves stats.active  *)
(* as it was.                                                              *)
LEMMA SkipCounts ==
  ASSUME TypeOK, SqDecided(sq), SqHard(sq), rq.active \in Nat,
         NEW t \in Tasks, TaskSkipped(t) \/ TaskNoExec(t)
  PROVE  CountsSame
<1>1. rq \in RqType
  BY DEF TypeOK
<1>2. procs' = procs
  BY DEF TaskSkipped, TaskNoExec
<1>3. sq'.live = sq.live
  BY OtherDecides
<1>4. CASE TaskSkipped(t)
  <2> DEFINE r == TaskSkip(rq, t)
  <2>1. r \in RqType
    BY <1>1, TaskSkipType
  <2>2. r.active = rq.active
    BY <1>1 DEF TaskSkip, TaskCompleteOutright, RqType
  <2>3. \E ran : rq' = [r EXCEPT !.tasksrun = ran]
    BY <1>4 DEF TaskSkipped
  <2> HIDE DEF r
  <2>4. rq'.active = r.active
    BY <2>1, <2>3 DEF RqType
  <2> QED BY <1>2, <1>3, <2>2, <2>4 DEF CountsSame
<1>5. CASE TaskNoExec(t)
  <2> DEFINE r == [rq EXCEPT !.running = @ \cup {t}, !.active = @ + 1]
  <2>1. r \in RqType /\ r.active = rq.active + 1
    <3>1. r \in RqType
      BY <1>1, TaskActiveType
    <3> QED BY <1>1, <3>1 DEF RqType
  <2>2. rq' = TaskComplete(r, t)
    BY <1>5 DEF TaskNoExec
  <2> HIDE DEF r
  <2>3. TaskComplete(r, t).active = Decrement(r.active)
    BY <2>1 DEF TaskComplete, TaskCompleteOutright, RqType
  <2>4. Decrement(rq.active + 1) = rq.active
    BY DecrementExact
  <2> QED BY <1>2, <1>3, <2>1, <2>2, <2>3, <2>4 DEF CountsSame
<1> QED BY <1>4, <1>5

(* These do not either, but for the failure of a task that may not run and *)
(* of a spawn, after which nothing more is started.                        *)
LEMMA OtherCounts ==
  ASSUME EnforceHalts, HardOrRehash, TypeOK, SqDecided(sq), SqHard(sq), NoRehash, Counting',
         \/ FinishNow \/ Finish \/ Execute \/ ReadDone \/ MigrateNothing \/ Migrate
         \/ \E s \in Setscene : SceneSkip(s) \/ SceneFailOutright(s)
         \/ SceneNone \/ Settle
         \/ \E t \in Tasks : TaskForbidden(t) \/ TaskSpawnFails(t)
         \/ TaskNone \/ WaitForTasks \/ ForceDeferred \/ Conclude
         \/ \E p \in procs : ReadUnihash(p)
         \/ StopRequest \/ Ended
  PROVE  CountsSame /\ (env'.worker = "up" => env.worker = "up")
<1>1. sq \in SqType /\ rq \in RqType /\ env \in EnvType
  BY DEF TypeOK
<1>2. ~\E t \in Tasks : TaskForbidden(t)
  <2> SUFFICES ASSUME NEW t \in Tasks, TaskForbidden(t) PROVE FALSE
    OBVIOUS
  <2>1. Halt
    BY <1>1 DEF TaskForbidden, Forbidden, Enforce, Halt, EnforceHalts, EnvType
  <2>2. rq'.state = "CleanUp"
    <3>1. rq' = TaskFail(rq, t)
      BY DEF TaskForbidden
    <3>2. TaskFail(rq, t).state = "CleanUp"
      BY <1>1, <2>1 DEF TaskFail, RqType
    <3> QED BY <3>1, <3>2
  <2>3. pc' \in {"teardown", "top"}
    BY DEF TaskForbidden, Return
  <2> QED BY <2>2, <2>3 DEF Counting
<1>3. ~\E t \in Tasks : TaskSpawnFails(t)
  <2> SUFFICES ASSUME NEW t \in Tasks, TaskSpawnFails(t) PROVE FALSE
    OBVIOUS
  <2>1. rq'.state = "Failed" /\ pc' = "teardown"
    BY <1>1 DEF TaskSpawnFails, RqType
  <2> QED BY <2>1 DEF Counting
<1>4. CASE FinishNow \/ Finish \/ Execute \/ WaitForTasks \/ Conclude
  <2>1. \E st : rq' = [rq EXCEPT !.state = st]
    BY <1>4 DEF FinishNow, Finish, Execute, WaitForTasks, Conclude
  <2>2. sq' = sq /\ procs' = procs /\ env' = env
    BY <1>4 DEF FinishNow, Finish, Execute, WaitForTasks, Conclude
  <2> QED BY <1>1, <2>1, <2>2 DEF CountsSame, RqType
<1>5. CASE Migrate
  <2>1. NoHardDepends
    BY <1>5, ConfigAssumption, MigrateRehash
  <2>2. PICK M, C : Restarts(M, C)
    BY <1>5, <2>1, MigrateRestarts
  <2>3. \E uni, dk : MigrateReady(uni, dk) \/ HaltMigration(uni, dk)
    BY <1>5 DEF Migrate
  <2>4. rq' = rq \/ \E t : rq' = [rq EXCEPT !.failed = @ \cup {t}, !.state = "CleanUp"]
    BY <2>3 DEF MigrateReady, HaltMigration
  <2>5. procs' = procs /\ env' = env
    BY <1>5 DEF Migrate
  <2> QED BY <1>1, <2>2, <2>4, <2>5 DEF CountsSame, Restarts, RqType
<1>6. CASE Settle
  <2>1. \E st : rq' = [rq EXCEPT !.buildable = SettledBuildable, !.state = st]
    BY <1>6 DEF Settle
  <2>2. procs' = procs /\ env' = env /\ sq'.live = sq.live
    BY <1>6, SettleSame DEF Settle
  <2> QED BY <1>1, <2>1, <2>2 DEF CountsSame, RqType
<1>7. CASE ForceDeferred \/ \E s \in Setscene : SceneSkip(s) \/ SceneFailOutright(s)
  <2>1. rq' = rq /\ procs' = procs /\ env' = env
    BY <1>7 DEF ForceDeferred, SceneSkip, SceneFailOutright
  <2>2. sq'.live = sq.live
    BY <1>7, OtherDecides, SceneDecides
  <2> QED BY <2>1, <2>2 DEF CountsSame
<1>8. CASE \/ ReadDone \/ MigrateNothing \/ SceneNone \/ TaskNone
           \/ \E p \in procs : ReadUnihash(p)
           \/ StopRequest \/ Ended
  <2>1. rq' = rq /\ sq' = sq /\ procs' = procs
    BY <1>8 DEF ReadDone, MigrateNothing, SceneNone, TaskNone, ReadUnihash, StopRequest, Ended, vars
  <2>2. env' = env \/ \E s : env' = [env EXCEPT !.stop = s]
    BY <1>8 DEF ReadDone, MigrateNothing, SceneNone, TaskNone, ReadUnihash, StopRequest, Ended, vars
  <2> QED BY <1>1, <2>1, <2>2 DEF CountsSame, EnvType
<1> QED BY <1>2, <1>3, <1>4, <1>5, <1>6, <1>7, <1>8

(* Shorthands for the next state. *)
RealsOf(P) == {p \in P : ~p.scene}
ScenesOf(P) == {p \in P : p.scene}

(* What the invariant says of counters and processes given explicitly. *)
CountedAs(active, live, P) ==
  /\ active = Cardinality(RealsOf(P))
  /\ live = {p.task : p \in ScenesOf(P)}
  /\ Cardinality(P) <= active + Cardinality(live)

(* A task that is sent is counted: sq_live gains it, or stats.active.      *)
LEMMA SendCounts ==
  ASSUME TypeOK, SqDecided(sq), Started, Counts, Counting, env.worker = "up",
         (\E s \in Setscene : SceneRun(s)) \/ (\E t \in Tasks : TaskRun(t))
  PROVE  /\ IsFiniteSet(procs') /\ Cardinality(procs') <= NumberTasks
         /\ CountedAs(rq'.active, sq'.live, procs')
<1>1. IsFiniteSet(procs) /\ IsFiniteSet(RealProcs) /\ IsFiniteSet(sq.live)
  BY KindsFinite, LiveFinite DEF Counts
<1>2. /\ Cardinality(procs) \in Nat /\ Cardinality(RealProcs) \in Nat
      /\ Cardinality(sq.live) \in Nat
  BY <1>1, KindsFinite, LiveFinite
<1>3. /\ rq.active = Cardinality(RealProcs)
      /\ sq.live = {p.task : p \in SceneProcs}
      /\ Cardinality(procs) <= rq.active + Cardinality(sq.live)
  BY DEF Counts, Counted
<1>4. NumberTasks \in Nat
  BY ConfigAssumption
<1>5. ASSUME NEW s \in Setscene, SceneRun(s)
      PROVE  /\ IsFiniteSet(procs') /\ Cardinality(procs') <= NumberTasks
             /\ CountedAs(rq'.active, sq'.live, procs')
  <2> DEFINE n == [task |-> s, scene |-> TRUE, status |-> "running"]
  <2>1. procs' = procs \cup {n} /\ rq' = rq
    BY <1>5 DEF SceneRun
  <2>2. sq'.live = sq.live \cup {s} /\ s \notin sq.live
    BY <1>5, SceneRunSends DEF Sends, SqDecided
  <2>3. n.scene = TRUE /\ n.task = s
    OBVIOUS
  <2>4. rq.active + Cardinality(sq.live) < NumberTasks
    BY <1>5 DEF SceneRun, Restorable, SceneCandidates, CanStartTask
  <2> HIDE DEF n
  <2>5. n \notin procs
    BY <2>2, <2>3 DEF Started, SceneProcs
  <2>6. IsFiniteSet(procs') /\ Cardinality(procs') = Cardinality(procs) + 1
    BY ONLY <1>1, <2>1, <2>5, FS_AddElement
  <2>7. Cardinality(sq'.live) = Cardinality(sq.live) + 1
    BY ONLY <1>1, <2>2, FS_AddElement
  <2>8. RealsOf(procs') = RealProcs /\ ScenesOf(procs') = SceneProcs \cup {n}
    BY <2>1, <2>3 DEF RealsOf, ScenesOf, RealProcs, SceneProcs
  <2>9. sq'.live = {p.task : p \in ScenesOf(procs')}
    BY <1>3, <2>2, <2>3, <2>8
  <2>10. Cardinality(procs) + 1 <= rq.active + (Cardinality(sq.live) + 1)
    BY ONLY <1>2, <1>3
  <2>11. Cardinality(procs) + 1 <= NumberTasks
    BY ONLY <1>2, <1>3, <1>4, <2>4
  <2> QED BY <1>3, <2>1, <2>6, <2>7, <2>8, <2>9, <2>10, <2>11 DEF CountedAs
<1>6. ASSUME NEW t \in Tasks, TaskRun(t)
      PROVE  /\ IsFiniteSet(procs') /\ Cardinality(procs') <= NumberTasks
             /\ CountedAs(rq'.active, sq'.live, procs')
  <2> DEFINE n == [task |-> t, scene |-> FALSE, status |-> "running"]
  <2>1. procs' = procs \cup {n} /\ sq' = sq
    BY <1>6 DEF TaskRun
  <2>2. rq'.active = rq.active + 1
    <3>1. rq \in RqType
      BY DEF TypeOK
    <3> QED BY <1>6, <3>1 DEF TaskRun, RqType
  <2>3. n.scene = FALSE /\ n.task = t
    OBVIOUS
  <2>4. rq.active + Cardinality(sq.live) < NumberTasks /\ t \notin rq.running
    BY <1>6 DEF TaskRun, MustRun, TaskCandidates, CanStartTask
  <2> HIDE DEF n
  <2>5. n \notin procs
    BY <2>3, <2>4 DEF Started, RealProcs
  <2>6. IsFiniteSet(procs') /\ Cardinality(procs') = Cardinality(procs) + 1
    BY ONLY <1>1, <2>1, <2>5, FS_AddElement
  <2>7. RealsOf(procs') = RealProcs \cup {n} /\ ScenesOf(procs') = SceneProcs /\ n \notin RealProcs
    BY <2>1, <2>3, <2>5 DEF RealsOf, ScenesOf, RealProcs, SceneProcs
  <2>8. Cardinality(RealsOf(procs')) = Cardinality(RealProcs) + 1
    BY ONLY <1>1, <2>7, FS_AddElement
  <2>9. Cardinality(procs) + 1 <= (rq.active + 1) + Cardinality(sq.live)
    BY ONLY <1>2, <1>3
  <2>10. Cardinality(procs) + 1 <= NumberTasks
    BY ONLY <1>2, <1>3, <1>4, <2>4
  <2> QED BY <1>3, <2>1, <2>2, <2>6, <2>7, <2>8, <2>9, <2>10 DEF CountedAs
<1> QED BY <1>5, <1>6

(* An exit code takes the task out of sq_live, or of stats.active. *)
LEMMA ExitCounts ==
  ASSUME TypeOK, Apart, Counts, Counting, env.worker = "up", NEW p \in procs, ReadExit(p)
  PROVE  CountedAs(rq'.active, sq'.live, procs')
<1> USE DEF Apart
<1>1. IsFiniteSet(procs) /\ IsFiniteSet(RealProcs) /\ IsFiniteSet(sq.live)
  BY KindsFinite, LiveFinite DEF Counts
<1>2. /\ Cardinality(procs) \in Nat /\ Cardinality(RealProcs) \in Nat
      /\ Cardinality(sq.live) \in Nat
  BY <1>1, KindsFinite, LiveFinite
<1>3. /\ rq.active = Cardinality(RealProcs)
      /\ sq.live = {x.task : x \in SceneProcs}
      /\ Cardinality(procs) <= rq.active + Cardinality(sq.live)
  BY DEF Counts, Counted
<1>4. rq \in RqType /\ p.task \in Tasks /\ \A x \in procs : x.scene \in BOOLEAN
  BY GraphAssumption DEF TypeOK, ProcType
<1>5. procs' = procs \ {p}
  BY DEF ReadExit
<1>6. sq'.live = sq.live \ {p.task}
  BY ReadDecides
<1>7. Cardinality(procs') = Cardinality(procs) - 1
  BY ONLY <1>1, <1>5, p \in procs, FS_RemoveElement
<1>8. \A x \in procs : x.scene /\ x # p => x.task # p.task \/ ~p.scene
  BY <1>4 DEF Started
<1>9. \A x \in RealProcs : x.task \notin sq.live
  BY DEF Started, Untouched, Idle
<1>10. CASE p.scene
  <2>1. p.task \in sq.live
    BY <1>10 DEF Started, SceneProcs
  <2>2. rq'.active = rq.active
    <3>1. rq' = rq \/ rq' = [rq EXCEPT !.state = "CleanUp"]
      BY <2>1 DEF ReadExit
    <3> QED BY <1>4, <3>1 DEF RqType
  <2>3. RealsOf(procs') = RealProcs /\ ScenesOf(procs') = SceneProcs \ {p}
    BY <1>5, <1>10 DEF RealsOf, ScenesOf, RealProcs, SceneProcs
  <2>4. sq'.live = {x.task : x \in ScenesOf(procs')}
    <3>1. \A x \in SceneProcs : x # p => x.task # p.task
      BY <1>8, <1>10 DEF SceneProcs
    <3> QED BY <1>3, <1>6, <2>3, <3>1
  <2>5. Cardinality(sq'.live) = Cardinality(sq.live) - 1
    BY ONLY <1>1, <1>6, <2>1, FS_RemoveElement
  <2>6. Cardinality(procs) - 1 <= rq.active + (Cardinality(sq.live) - 1)
    BY ONLY <1>2, <1>3
  <2> QED BY <1>3, <1>7, <2>2, <2>3, <2>4, <2>5, <2>6 DEF CountedAs
<1>11. CASE ~p.scene
  <2>1. p \in RealProcs /\ p.task \notin sq.live
    BY <1>9, <1>11 DEF RealProcs
  <2>2. RealsOf(procs') = RealProcs \ {p} /\ ScenesOf(procs') = SceneProcs
    BY <1>5, <1>11 DEF RealsOf, ScenesOf, RealProcs, SceneProcs
  <2>3. Cardinality(RealsOf(procs')) = Cardinality(RealProcs) - 1
    BY ONLY <1>1, <2>1, <2>2, FS_RemoveElement
  <2>4. Cardinality(RealProcs) # 0
    BY ONLY <1>1, <2>1, FS_EmptySet
  <2>5. rq.active \in Nat \ {0}
    BY <1>2, <1>3, <2>4
  <2>6. rq'.active = Decrement(rq.active)
    <3>1. rq' = TaskComplete(rq, p.task) \/ rq' = TaskFail(rq, p.task)
      BY <2>1 DEF ReadExit
    <3>2. TaskComplete(rq, p.task).active = Decrement(rq.active)
      BY <1>4 DEF TaskComplete, TaskCompleteOutright, RqType
    <3>3. TaskFail(rq, p.task).active = Decrement(rq.active)
      BY <1>4 DEF TaskFail, RqType
    <3> QED BY <3>1, <3>2, <3>3
  <2>7. rq'.active = rq.active - 1
    BY <2>5, <2>6, DecrementExact
  <2>8. sq'.live = sq.live
    BY <1>6, <2>1
  <2>9. Cardinality(procs) - 1 <= (rq.active - 1) + Cardinality(sq.live)
    BY ONLY <1>2, <1>3
  <2> QED BY <1>3, <1>7, <2>2, <2>3, <2>7, <2>8, <2>9 DEF CountedAs
<1> QED BY <1>4, <1>10, <1>11

(* A process that ends is still counted, until its exit code is read. *)
LEMMA EndCounts ==
  ASSUME TypeOK, Started, Counts, NEW p \in procs, WorkerExit(p)
  PROVE  /\ IsFiniteSet(procs') /\ Cardinality(procs') = Cardinality(procs)
         /\ Cardinality(RealsOf(procs')) = Cardinality(RealProcs)
         /\ Counting /\ env.worker = "up" => CountedAs(rq'.active, sq'.live, procs')
<1>1. IsFiniteSet(procs) /\ IsFiniteSet(RealProcs)
  BY KindsFinite DEF Counts
<1>2. Cardinality(procs) \in Nat /\ Cardinality(RealProcs) \in Nat
  BY <1>1, KindsFinite
<1>3. PICK status \in {"ok", "fail"} :
         procs' = (procs \ {p}) \cup {[p EXCEPT !.status = status]}
  BY DEF WorkerExit
<1> DEFINE n == [p EXCEPT !.status = status]
           Q == procs \ {p}
<1>4. n.task = p.task /\ n.scene = p.scene
  BY DEF TypeOK, ProcType
<1>5. sq' = sq /\ rq' = rq
  BY DEF WorkerExit
<1>6. procs' = Q \cup {n}
  BY <1>3
<1>7. p.scene \in BOOLEAN
  BY DEF TypeOK, ProcType
<1> HIDE DEF n
<1>8. n \notin Q
  BY <1>4 DEF Started
<1>9. IsFiniteSet(Q) /\ Cardinality(Q) = Cardinality(procs) - 1
  BY ONLY <1>1, p \in procs, FS_RemoveElement
<1>10. IsFiniteSet(procs') /\ Cardinality(procs') = Cardinality(Q) + 1
  BY ONLY <1>6, <1>8, <1>9, FS_AddElement
<1>11. Cardinality(procs') = Cardinality(procs)
  BY ONLY <1>2, <1>9, <1>10
<1>12. {x.task : x \in ScenesOf(procs')} = {x.task : x \in SceneProcs}
  BY <1>4, <1>6 DEF ScenesOf, SceneProcs
<1>13. Cardinality(RealsOf(procs')) = Cardinality(RealProcs)
  <2>1. CASE p.scene
    <3>1. RealsOf(procs') = RealProcs
      BY <1>4, <1>6, <2>1 DEF RealsOf, RealProcs
    <3> QED BY <3>1
  <2>2. CASE ~p.scene
    <3> DEFINE R == RealProcs \ {p}
    <3>1. RealsOf(procs') = R \cup {n} /\ p \in RealProcs
      BY <1>4, <1>6, <2>2 DEF RealsOf, RealProcs
    <3>2. n \notin R
      BY <1>8 DEF RealProcs
    <3>3. IsFiniteSet(R) /\ Cardinality(R) = Cardinality(RealProcs) - 1
      BY ONLY <1>1, <3>1, FS_RemoveElement
    <3>4. Cardinality(RealsOf(procs')) = Cardinality(R) + 1
      BY ONLY <3>1, <3>2, <3>3, FS_AddElement
    <3> QED BY ONLY <1>2, <3>3, <3>4
  <2> QED BY <1>7, <2>1, <2>2
<1>14. ASSUME Counting, env.worker = "up" PROVE CountedAs(rq'.active, sq'.live, procs')
  BY <1>5, <1>11, <1>12, <1>13, <1>14 DEF Counts, Counted, CountedAs
<1> QED BY <1>10, <1>11, <1>13, <1>14

(* The counters stay exact. *)
LEMMA CountsStep ==
  ASSUME EnforceHalts, HardOrRehash, TypeOK, Apart, Counts, Next
  PROVE  /\ IsFiniteSet(procs') /\ Cardinality(procs') <= NumberTasks
         /\ Counting' /\ env'.worker = "up" => CountedAs(rq'.active, sq'.live, procs')
<1> USE DEF Apart
<1>1. IsFiniteSet(procs) /\ Cardinality(procs) <= NumberTasks /\ NumberTasks \in Nat
  BY ConfigAssumption DEF Counts
<1>2. Cardinality(procs) \in Nat
  BY <1>1, KindsFinite
<1>3. \A T \in SUBSET procs : IsFiniteSet(T) /\ Cardinality(T) <= NumberTasks
  <2> TAKE T \in SUBSET procs
  <2>1. IsFiniteSet(T) /\ Cardinality(T) <= Cardinality(procs)
    BY ONLY <1>1, FS_Subset, T \in SUBSET procs
  <2>2. Cardinality(T) \in Nat
    BY ONLY <2>1, FS_CardinalityType
  <2>3. Cardinality(T) <= NumberTasks
    BY ONLY <1>1, <1>2, <2>1, <2>2
  <2> QED BY <2>1, <2>3
<1>4. env \in EnvType
  BY DEF TypeOK
<1>5. CASE (\E s \in Setscene : SceneRun(s)) \/ (\E t \in Tasks : TaskRun(t))
  <2>1. env.worker = "up" /\ Counting
    BY <1>5 DEF SceneRun, TaskRun, MustRun, Counting
  <2> QED BY <1>5, <2>1, SendCounts
<1>6. ASSUME NEW p \in procs, ReadExit(p)
      PROVE  /\ IsFiniteSet(procs') /\ Cardinality(procs') <= NumberTasks
             /\ Counting' /\ env'.worker = "up" => CountedAs(rq'.active, sq'.live, procs')
  <2>1. procs' \in SUBSET procs /\ env' = env
    BY <1>6 DEF ReadExit
  <2> QED BY <1>3, <1>6, <2>1, CountingBefore, ExitCounts
<1>7. ASSUME NEW p \in procs, WorkerExit(p)
      PROVE  /\ IsFiniteSet(procs') /\ Cardinality(procs') <= NumberTasks
             /\ Counting' /\ env'.worker = "up" => CountedAs(rq'.active, sq'.live, procs')
  <2>1. env' = env
    BY <1>7 DEF WorkerExit
  <2> QED BY <1>1, <1>7, <2>1, CountingBefore, EndCounts
<1>8. CASE Teardown \/ WriteFails \/ WorkerDies
  <2>1. procs' \in SUBSET procs
    BY <1>8 DEF Teardown, WriteFails, WorkerDies
  <2>2. env'.worker # "up"
    BY <1>4, <1>8 DEF Teardown, WriteFails, WorkerDies, EnvType
  <2> QED BY <1>3, <2>1, <2>2
<1>9. ASSUME CountsSame, env'.worker = "up" => env.worker = "up"
      PROVE  /\ IsFiniteSet(procs') /\ Cardinality(procs') <= NumberTasks
             /\ Counting' /\ env'.worker = "up" => CountedAs(rq'.active, sq'.live, procs')
  BY <1>1, <1>9, CountingBefore
  DEF CountsSame, Counts, Counted, CountedAs, RealsOf, ScenesOf, RealProcs, SceneProcs
<1>10. CASE \E t \in Tasks : TaskSkipped(t) \/ TaskNoExec(t)
  <2>1. procs' = procs /\ env' = env
    BY <1>10 DEF TaskSkipped, TaskNoExec
  <2>2. ASSUME env.worker = "up" PROVE rq.active \in Nat
    <3>1. Counting
      BY <1>10 DEF TaskSkipped, TaskNoExec, MustRun, Counting
    <3> QED BY <1>1, <2>2, <3>1, KindsFinite DEF Counts, Counted
  <2>3. CASE env.worker = "up"
    BY <1>9, <1>10, <2>1, <2>2, <2>3, SkipCounts
  <2>4. CASE env.worker # "up"
    BY <1>1, <2>1, <2>4
  <2> QED BY <2>3, <2>4
<1>11. CASE \/ FinishNow \/ Finish \/ Execute \/ ReadDone \/ MigrateNothing \/ Migrate
            \/ \E s \in Setscene : SceneSkip(s) \/ SceneFailOutright(s)
            \/ SceneNone \/ Settle
            \/ \E t \in Tasks : TaskForbidden(t) \/ TaskSpawnFails(t)
            \/ TaskNone \/ WaitForTasks \/ ForceDeferred \/ Conclude
            \/ \E p \in procs : ReadUnihash(p)
            \/ StopRequest \/ Ended
  <2>1. procs' = procs
    BY <1>11 DEF FinishNow, Finish, Execute, ReadDone, MigrateNothing, Migrate, SceneSkip,
       SceneFailOutright, SceneNone, Settle, TaskForbidden, TaskSpawnFails, TaskNone,
       WaitForTasks, ForceDeferred, Conclude, ReadUnihash, StopRequest, Ended, vars
  <2>2. CASE Counting'
    BY <1>9, <1>11, <2>2, OtherCounts
  <2> QED BY <1>1, <2>1, <2>2
<1> QED BY <1>5, <1>6, <1>7, <1>8, <1>10, <1>11 DEF Next, CookerStep

(* The counters hold throughout. *)
LEMMA CountsInvariant ==
  ASSUME HardOrRehash, EnforceHalts
  PROVE  Spec => []Counts
<1>1. Init => Counts
  <2> SUFFICES ASSUME Init PROVE Counts
    OBVIOUS
  <2>1. procs = {} /\ rq.active = 0
    BY DEF Init
  <2>2. IsFiniteSet({}) /\ Cardinality({}) = 0
    BY ONLY FS_EmptySet
  <2>3. sq.live = {}
    <3>1. \E q \in SqType, C \in SUBSET Setscene : Grown(q, sq, C, {}) /\ q.live = {}
      BY InitialScene
    <3> QED BY <3>1 DEF Grown
  <2>4. RealProcs = {} /\ SceneProcs = {} /\ {p.task : p \in SceneProcs} = {}
    BY <2>1 DEF RealProcs, SceneProcs
  <2> QED BY <2>1, <2>2, <2>3, <2>4, ConfigAssumption DEF Counts, Counted
<1>2. TypeOK /\ Apart /\ Counts /\ [Next]_vars => Counts'
  <2> SUFFICES ASSUME TypeOK, Apart, Counts, [Next]_vars PROVE Counts'
    OBVIOUS
  <2>1. CASE Next
    BY <2>1, CountsStep DEF Counts, Counted, CountedAs, RealsOf, ScenesOf, RealProcs, SceneProcs
  <2>2. CASE UNCHANGED vars
    BY <2>2 DEF vars, Counts, Counting, Counted, RealProcs, SceneProcs
  <2> QED BY <2>1, <2>2
<1> QED BY <1>1, <1>2, ApartInvariant, TypeCorrect, PTL DEF Spec

(* While tasks may start, stats.active and sq_live count the outstanding   *)
(* processes, one each, and the worker never has more than                 *)
(* BB_NUMBER_THREADS of them, at any time.                                 *)
THEOREM ExactCounts ==
  ASSUME HardOrRehash, EnforceHalts
  PROVE  Spec => []CountsExact
<1>1. Counts => CountsExact
  BY DEF Counts, Counting, Counted, CountsExact
<1> QED BY <1>1, CountsInvariant, PTL

----------------------------------------------------------------------------
(* The cache of stamps.                                                    *)

(* The stamp that a process works towards when nothing is rehashed. *)
StampOf(p) ==
  IF p.scene THEN SceneStamp(p.task, InitUnihash[p.task])
             ELSE RealStamp(p.task, InitUnihash[p.task])

(* build_stamps, B, has the stamp of every outstanding process of P, and   *)
(* no two of them share it.                                                *)
Registered(P, B) ==
  /\ \A p \in P : p.task \in DOMAIN B /\ B[p.task] = StampOf(p)
  /\ \A p, q \in P : p # q => StampOf(p) # StampOf(q)

Stamps ==
  /\ hash.uni = InitUnihash
  /\ \A s \in Setscene : sq.stamp[s] = InitUnihash[s]
  /\ Registered(procs, build_stamps)

(* A process may enter with a stamp that is not in the cache. *)
LEMMA RegisteredEnters ==
  ASSUME NEW P, NEW B, Registered(P, B), NEW p,
         \A q \in P : q.task # p.task, StampOf(p) \notin Range(B)
  PROVE  Registered(P \cup {p}, [d \in DOMAIN B \cup {p.task} |->
                                   IF d = p.task THEN StampOf(p) ELSE B[d]])
<1> DEFINE t == p.task
           u == StampOf(p)
           B2 == [d \in DOMAIN B \cup {t} |-> IF d = t THEN u ELSE B[d]]
<1>1. \A q \in P : q.task \in DOMAIN B /\ B[q.task] = StampOf(q) /\ q.task # t
  BY DEF Registered
<1>2. \A q \in P : StampOf(q) # u
  BY <1>1 DEF Range
<1>3. \A q \in P : StampOf(q) \in Range(B)
  BY <1>1 DEF Range
<1>4. \A q, r \in P : q # r => StampOf(q) # StampOf(r)
  BY DEF Registered
<1>5. p.task = t /\ StampOf(p) = u
  OBVIOUS
<1> HIDE DEF t, u
<1>6. \A q \in P \cup {p} : q.task \in DOMAIN B2 /\ B2[q.task] = StampOf(q)
  BY <1>1, <1>5
<1>7. \A q, r \in P \cup {p} : q # r => StampOf(q) # StampOf(r)
  BY <1>2, <1>4, <1>5
<1>8. Registered(P \cup {p}, B2)
  BY <1>6, <1>7 DEF Registered
<1> QED BY <1>8 DEF t, u

(* The stamp of a process that is alone with its task may be dropped with it. *)
LEMMA RegisteredLeaves ==
  ASSUME NEW P, NEW B, Registered(P, B), NEW p \in P, \A q \in P : q.task = p.task => q = p
  PROVE  Registered(P \ {p}, Restrict(B, DOMAIN B \ {p.task}))
BY DEF Registered, Restrict

(* What else happens to the processes keeps them registered. *)
LEMMA RegisteredKept ==
  ASSUME NEW P, NEW B, Registered(P, B), NEW Q \in SUBSET P
  PROVE  Registered(Q, B)
BY DEF Registered

(* Without reports no setscene task changes its stamp. *)
LEMMA StampsKept ==
  ASSUME MaxUpdates = 0, TypeOK, SqDecided(sq), SqHard(sq), NoRehash, Next
  PROVE  sq'.stamp = sq.stamp
<1>1. ~Migrate
  BY DEF NoRehash, Migrate
<1>2. ASSUME NEW C, NEW N, Decides(C, N) PROVE sq'.stamp = sq.stamp
  BY <1>2 DEF Decides, Grown
<1>3. ASSUME NEW s \in Setscene, SceneRun(s) PROVE sq'.stamp = sq.stamp
  BY <1>3, SceneRunSends DEF Sends
<1>4. CASE Settle
  BY <1>4, SettleSame
<1> QED BY <1>1, <1>2, <1>3, <1>4, SqStep

(* A task that is about to be sent to the worker has no process yet. *)
LEMMA ChosenAlone ==
  ASSUME TypeOK, Apart
  PROVE  /\ \A s \in Setscene : SceneRun(s) => \A q \in procs : q.task # s
         /\ \A t \in Tasks : TaskRun(t) => \A q \in procs : q.task # t
<1> USE DEF Apart
<1>1. \A q \in procs : q.scene \in BOOLEAN
  BY DEF TypeOK, ProcType
<1>2. \A q \in procs : IF q.scene THEN q.task \in sq.live ELSE q.task \in rq.running
  BY <1>1 DEF Started, SceneProcs, RealProcs
<1>3. ASSUME NEW s \in Setscene, SceneRun(s) PROVE s \notin sq.live /\ s \notin rq.running
  <2>1. pc = "scene" /\ s \in sq.buildable \ sq.running
    BY <1>3 DEF SceneRun, Restorable, SceneCandidates
  <2>2. s \notin sq.live /\ s \notin Decided(sq)
    BY <2>1 DEF SqDecided
  <2> QED BY <2>1, <2>2 DEF Untouched, Choosing, Idle
<1>4. ASSUME NEW t \in Tasks, TaskRun(t) PROVE t \notin sq.live /\ t \notin rq.running
  <2>1. pc = "task" /\ t \notin rq.running /\ t \notin hold.tasks
    BY <1>4 DEF TaskRun, MustRun, TaskCandidates
  <2>2. sq.live \subseteq sq.buildable \ Decided(sq)
    BY DEF SqDecided
  <2>3. \A s \in sq.buildable \ Decided(sq) : s \in hold.tasks
    BY <2>1 DEF Fresh, HeldOffUndecided, Around
  <2> QED BY <2>1, <2>2, <2>3
<1> QED BY <1>1, <1>2, <1>3, <1>4

(* Every process stays registered, alone with its stamp. *)
LEMMA StampsStep ==
  ASSUME MaxUpdates = 0, TypeOK, Apart, OneProcessPerTask, Stamps, Next
  PROVE  /\ hash'.uni = InitUnihash
         /\ \A s \in Setscene : sq'.stamp[s] = InitUnihash[s]
         /\ Registered(procs', build_stamps')
<1> USE DEF Apart
<1>1. procs \subseteq ProcType
  BY DEF TypeOK
<1>2. \A s \in Setscene : sq'.stamp[s] = InitUnihash[s]
  BY StampsKept DEF Stamps
<1>3. ~Migrate
  BY DEF NoRehash, Migrate
<1>4. Registered(procs, build_stamps) /\ hash.uni = InitUnihash
  BY DEF Stamps
<1>5. hash'.uni = InitUnihash
  <2>1. CASE \E p \in procs : ReadUnihash(p)
    <3>1. hash \in HashType
      BY DEF TypeOK
    <3>2. \E queue, n : hash' = [hash EXCEPT !.queue = queue, !.updates = n]
      BY <2>1 DEF ReadUnihash
    <3> QED BY <1>4, <3>1, <3>2 DEF HashType
  <2>2. CASE \/ \E p \in procs : ReadExit(p) \/ WorkerExit(p)
             \/ FinishNow \/ Finish \/ Execute \/ Teardown \/ ReadDone \/ MigrateNothing
             \/ \E s \in Setscene : SceneSkip(s) \/ SceneFailOutright(s) \/ SceneRun(s)
             \/ SceneNone \/ Settle
             \/ \E t \in Tasks : \/ TaskForbidden(t) \/ TaskSkipped(t) \/ TaskNoExec(t)
                                 \/ TaskSpawnFails(t) \/ TaskRun(t)
             \/ TaskNone \/ WriteFails \/ WaitForTasks \/ ForceDeferred \/ Conclude
             \/ WorkerDies \/ StopRequest \/ Ended
    <3>1. hash' = hash
      BY <2>2 DEF ReadExit, WorkerExit, FinishNow, Finish, Execute, Teardown, ReadDone,
         MigrateNothing, SceneSkip, SceneFailOutright, SceneRun, SceneNone, Settle, TaskForbidden,
         TaskSkipped, TaskNoExec, TaskSpawnFails, TaskRun, TaskNone, WriteFails, WaitForTasks,
         ForceDeferred, Conclude, WorkerDies, StopRequest, Ended, vars
    <3> QED BY <1>4, <3>1
  <2> QED BY <1>3, <2>1, <2>2 DEF Next, CookerStep
<1>6. ASSUME NEW p \in procs, ReadExit(p) PROVE Registered(procs', build_stamps')
  <2>1. \A q \in procs : q.task = p.task => q = p
    BY DEF OneProcessPerTask
  <2>2. procs' = procs \ {p} /\ build_stamps' = Restrict(build_stamps, DOMAIN build_stamps \ {p.task})
    BY <1>6 DEF ReadExit
  <2> QED BY <1>4, <2>1, <2>2, RegisteredLeaves
<1>7. ASSUME NEW p \in procs, WorkerExit(p) PROVE Registered(procs', build_stamps')
  <2>1. PICK status \in {"ok", "fail"} : procs' = (procs \ {p}) \cup {[p EXCEPT !.status = status]}
    BY <1>7 DEF WorkerExit
  <2> DEFINE new == [p EXCEPT !.status = status]
  <2>2. new.task = p.task /\ new.scene = p.scene
    BY <1>1 DEF ProcType
  <2>3. build_stamps' = build_stamps
    BY <1>7 DEF WorkerExit
  <2> HIDE DEF new
  <2>4. procs' = (procs \ {p}) \cup {new}
    BY <2>1 DEF new
  <2>5. StampOf(new) = StampOf(p)
    BY <2>2 DEF StampOf
  <2> QED BY <1>4, <2>2, <2>3, <2>4, <2>5 DEF Registered
<1>8. ASSUME NEW s \in Setscene, SceneRun(s) PROVE Registered(procs', build_stamps')
  <2> DEFINE p == [task |-> s, scene |-> TRUE, status |-> "running"]
  <2>1. p.task = s /\ StampOf(p) = SceneStamp(s, InitUnihash[s])
    BY DEF StampOf
  <2>2. SceneStamp(s, InitUnihash[s]) \notin Range(build_stamps)
    BY <1>8 DEF SceneRun, Restorable, SceneCandidates, Stamps
  <2>3. \A q \in procs : q.task # s
    BY <1>8, ChosenAlone
  <2>4. /\ procs' = procs \cup {p}
        /\ build_stamps' = [t \in DOMAIN build_stamps \cup {s} |->
              IF t = s THEN SceneStamp(s, InitUnihash[s]) ELSE build_stamps[t]]
    BY <1>4, <1>8 DEF SceneRun
  <2> HIDE DEF p
  <2>5. Registered(procs \cup {p}, [d \in DOMAIN build_stamps \cup {p.task} |->
                                      IF d = p.task THEN StampOf(p) ELSE build_stamps[d]])
    BY <1>4, <2>1, <2>2, <2>3, RegisteredEnters
  <2> QED BY <2>1, <2>4, <2>5
<1>9. ASSUME NEW t \in Tasks, TaskRun(t) PROVE Registered(procs', build_stamps')
  <2> DEFINE p == [task |-> t, scene |-> FALSE, status |-> "running"]
  <2>1. p.task = t /\ StampOf(p) = RealStamp(t, InitUnihash[t])
    BY DEF StampOf
  <2>2. RealStamp(t, InitUnihash[t]) \notin Range(build_stamps)
    BY <1>9 DEF TaskRun, MustRun, TaskCandidates
  <2>3. \A q \in procs : q.task # t
    BY <1>9, ChosenAlone
  <2>4. /\ procs' = procs \cup {p}
        /\ build_stamps' = [d \in DOMAIN build_stamps \cup {t} |->
              IF d = t THEN RealStamp(t, InitUnihash[t]) ELSE build_stamps[d]]
    BY <1>4, <1>9 DEF TaskRun
  <2> HIDE DEF p
  <2>5. Registered(procs \cup {p}, [d \in DOMAIN build_stamps \cup {p.task} |->
                                      IF d = p.task THEN StampOf(p) ELSE build_stamps[d]])
    BY <1>4, <2>1, <2>2, <2>3, RegisteredEnters
  <2> QED BY <2>1, <2>4, <2>5
<1>10. CASE \/ FinishNow \/ Finish \/ Execute \/ Teardown \/ ReadDone \/ MigrateNothing
            \/ \E s \in Setscene : SceneSkip(s) \/ SceneFailOutright(s)
            \/ SceneNone \/ Settle
            \/ \E t \in Tasks : \/ TaskForbidden(t) \/ TaskSkipped(t) \/ TaskNoExec(t)
                                \/ TaskSpawnFails(t)
            \/ TaskNone \/ WriteFails \/ WaitForTasks \/ ForceDeferred \/ Conclude
            \/ \E p \in procs : ReadUnihash(p)
            \/ WorkerDies \/ StopRequest \/ Ended
  <2>1. procs' \subseteq procs /\ build_stamps' = build_stamps
    BY <1>10 DEF FinishNow, Finish, Execute, Teardown, ReadDone,
       MigrateNothing, SceneSkip, SceneFailOutright, SceneNone, Settle, TaskForbidden,
       TaskSkipped, TaskNoExec, TaskSpawnFails, TaskNone, WriteFails, WaitForTasks,
       ForceDeferred, Conclude, ReadUnihash, WorkerDies, StopRequest, Ended, vars
  <2> QED BY <1>2, <1>4, <1>5, <2>1, RegisteredKept
<1> QED BY <1>2, <1>3, <1>5, <1>6, <1>7, <1>8, <1>9, <1>10 DEF Next, CookerStep

(* Without reports, build_stamps keeps any two processes from working      *)
(* towards the same stamp: every process that is outstanding has its entry, *)
(* and neither an exit code nor a skipped task drops the entry of another. *)
THEOREM StampsApart ==
  ASSUME MaxUpdates = 0
  PROVE  Spec => []NoDuplicateStamps
<1>1. HardOrRehash
  BY DEF HardOrRehash
<1>2. Init => Stamps
  <2> SUFFICES ASSUME Init PROVE Stamps
    OBVIOUS
  <2>1. hash.uni = InitUnihash /\ procs = {}
    BY DEF Init
  <2>2. \A s \in Setscene : sq.stamp[s] = InitUnihash[s]
    <3>1. PICK q \in SqType : q.stamp = Restrict(InitUnihash, Setscene) /\ sq.stamp = q.stamp
      BY InitialScene DEF Grown
    <3> QED BY <3>1 DEF Restrict
  <2> QED BY <2>1, <2>2 DEF Stamps, Registered
<1>3. TypeOK /\ Apart /\ OneProcessPerTask /\ Stamps /\ [Next]_vars => Stamps'
  <2> SUFFICES ASSUME TypeOK, Apart, OneProcessPerTask, Stamps, [Next]_vars PROVE Stamps'
    OBVIOUS
  <2>1. CASE Next
    BY <2>1, StampsStep DEF Stamps
  <2>2. CASE UNCHANGED vars
    BY <2>2 DEF vars, Stamps
  <2> QED BY <2>1, <2>2
<1>4. Stamps => NoDuplicateStamps
  BY DEF Stamps, Registered, StampOf, NoDuplicateStamps
<1> QED BY <1>1, <1>2, <1>3, <1>4, ApartInvariant, OneProcess, TypeCorrect, PTL DEF Spec

----------------------------------------------------------------------------
(* The verdict.                                                            *)

(* The builds that CompleteIsComplete is about, once they are over, and    *)
(* those that wait for the end of what runs.                               *)
Succeeded == rq.state = "Complete" /\ env.stop = "none" /\ ~SetsceneOnly /\ ~Enforce
Halted == rq.state = "CleanUp" /\ env.stop = "none" /\ ~Enforce

Verdict ==
  /\ env.worker # "dead"
  /\ rq.state = "Running" => pc \notin {"teardown", "end"} /\ env.worker = "up"
  /\ rq.state \in {"Complete", "Failed"} => pc \in {"teardown", "end"}
  /\ Halted => rq.failed # {}
  /\ Succeeded => rq.complete = Tasks /\ rq.failed = {} /\ procs = {}

(* Where the state is neither decided nor left, the verdict stands. *)
LEMMA VerdictKept ==
  ASSUME Verdict, rq'.state = rq.state, rq.failed \subseteq rq'.failed, env' = env,
         pc' = pc \/ (pc \notin {"teardown", "end"} /\ pc' \notin {"teardown", "end"}),
         Succeeded => rq' = rq /\ procs' \subseteq procs
  PROVE  Verdict'
BY DEF Verdict, Succeeded, Halted, SetsceneOnly, Enforce

(* Nothing has failed unseen, and nothing runs, when the build concludes. *)
LEMMA ConcludeIdle ==
  ASSUME TypeOK, Counts, Verdict, NothingLives, rq.state = "Running"
  PROVE  procs = {}
<1>1. Counting /\ env.worker = "up"
  BY DEF Verdict, Counting, NothingLives
<1>2. /\ IsFiniteSet(procs) /\ rq.active = Cardinality(RealProcs)
      /\ sq.live = {p.task : p \in SceneProcs}
  BY <1>1 DEF Counts, Counted
<1>3. IsFiniteSet(RealProcs) /\ Cardinality(RealProcs) \in Nat
  BY <1>2, KindsFinite
<1>4. Cardinality(RealProcs) = 0
  BY <1>2, <1>3 DEF NothingLives
<1>5. RealProcs = {}
  BY ONLY <1>3, <1>4, FS_EmptySet
<1>6. SceneProcs = {}
  BY <1>2 DEF NothingLives
<1> QED BY <1>5, <1>6 DEF RealProcs, SceneProcs

(* An exit code that is read reopens a verdict only by a failure. *)
LEMMA ReadVerdict ==
  ASSUME TypeOK, Verdict, NEW p \in procs, ReadExit(p)
  PROVE  Verdict'
<1>1. rq \in RqType /\ p.task \in Tasks
  BY GraphAssumption DEF TypeOK, ProcType
<1>2. pc' = pc /\ env' = env
  BY DEF ReadExit
<1>3. ~Succeeded
  BY DEF Verdict
<1>4. \/ rq' = rq
      \/ rq' = [rq EXCEPT !.state = "CleanUp"] /\ Enforce
      \/ rq' = TaskComplete(rq, p.task)
      \/ rq' = TaskFail(rq, p.task)
  BY DEF ReadExit
<1>5. CASE rq' = rq
  BY <1>2, <1>3, <1>5, VerdictKept
<1>6. CASE rq' = [rq EXCEPT !.state = "CleanUp"] /\ Enforce
  <2>1. rq'.state = "CleanUp"
    BY <1>1, <1>6 DEF RqType
  <2>2. Enforce'
    BY <1>2, <1>6 DEF Enforce
  <2> QED BY <1>2, <2>1, <2>2 DEF Verdict, Succeeded, Halted
<1>7. CASE rq' = TaskComplete(rq, p.task)
  <2>1. rq'.state = rq.state /\ rq'.failed = rq.failed
    BY <1>1, <1>7 DEF TaskComplete, TaskCompleteOutright, RqType
  <2> QED BY <1>2, <1>3, <2>1, VerdictKept
<1>8. CASE rq' = TaskFail(rq, p.task)
  <2>1. rq'.failed = rq.failed \cup {p.task} /\ rq'.state = IF Halt THEN "CleanUp" ELSE rq.state
    BY <1>1, <1>8 DEF TaskFail, RqType
  <2>2. CASE Halt
    BY <1>2, <2>1, <2>2 DEF Verdict, Succeeded, Halted
  <2>3. CASE ~Halt
    BY <1>2, <1>3, <2>1, <2>3, VerdictKept
  <2> QED BY <2>2, <2>3
<1> QED BY <1>4, <1>5, <1>6, <1>7, <1>8

(* Choosing a real task does not decide the build but by a failure. *)
LEMMA TaskVerdict ==
  ASSUME TypeOK, Verdict, NEW t \in Tasks,
         TaskForbidden(t) \/ TaskSkipped(t) \/ TaskNoExec(t) \/ TaskSpawnFails(t) \/ TaskRun(t)
  PROVE  Verdict'
<1>1. rq \in RqType
  BY DEF TypeOK
<1>2. pc = "task" /\ env' = env
  BY DEF TaskForbidden, TaskSkipped, TaskNoExec, TaskSpawnFails, TaskRun, MustRun
<1>3. ~Succeeded /\ rq.state \in {"Running", "CleanUp"}
  BY <1>1, <1>2 DEF Verdict, Succeeded, RqType, States
<1>4. CASE TaskForbidden(t)
  <2> DEFINE r == TaskFail(rq, t)
  <2>1. r.failed = rq.failed \cup {t} /\ r.state = IF Halt THEN "CleanUp" ELSE rq.state
    BY <1>1 DEF TaskFail, RqType
  <2>2. rq' = r /\ pc' = Return(rq'.state)
    BY <1>4 DEF TaskForbidden
  <2> HIDE DEF r
  <2>3. pc' = "top"
    BY <1>3, <2>1, <2>2 DEF Return
  <2>4. CASE Halt
    BY <1>2, <2>1, <2>2, <2>3, <2>4 DEF Verdict, Succeeded, Halted
  <2>5. CASE ~Halt
    BY <1>2, <1>3, <2>1, <2>2, <2>3, <2>5, VerdictKept
  <2> QED BY <2>4, <2>5
<1>5. CASE TaskSpawnFails(t)
  <2>1. rq'.state = "Failed" /\ pc' = "teardown"
    BY <1>1, <1>5 DEF TaskSpawnFails, RqType
  <2> QED BY <1>2, <2>1 DEF Verdict, Succeeded, Halted
<1>6. CASE TaskSkipped(t) \/ TaskNoExec(t) \/ TaskRun(t)
  <2>1. rq'.state = rq.state /\ rq'.failed = rq.failed
    <3>1. CASE TaskSkipped(t)
      <4> DEFINE r == TaskSkip(rq, t)
      <4>1. r \in RqType
        BY <1>1, TaskSkipType
      <4>2. r.state = rq.state /\ r.failed = rq.failed
        BY <1>1 DEF TaskSkip, TaskCompleteOutright, RqType
      <4>3. \E ran : rq' = [r EXCEPT !.tasksrun = ran]
        BY <3>1 DEF TaskSkipped
      <4> HIDE DEF r
      <4> QED BY <4>1, <4>2, <4>3 DEF RqType
    <3>2. CASE TaskNoExec(t)
      <4> DEFINE r == [rq EXCEPT !.running = @ \cup {t}, !.active = @ + 1]
      <4>1. r \in RqType /\ r.state = rq.state /\ r.failed = rq.failed
        <5>1. r \in RqType
          BY <1>1, TaskActiveType
        <5> QED BY <1>1, <5>1 DEF RqType
      <4>2. rq' = TaskComplete(r, t)
        BY <3>2 DEF TaskNoExec
      <4> HIDE DEF r
      <4> QED BY <4>1, <4>2 DEF TaskComplete, TaskCompleteOutright, RqType
    <3>3. CASE TaskRun(t)
      BY <1>1, <3>3 DEF TaskRun, RqType
    <3> QED BY <1>6, <3>1, <3>2, <3>3
  <2>2. pc' \notin {"teardown", "end"}
    BY <1>3, <1>6 DEF TaskSkipped, TaskNoExec, TaskRun, Return
  <2> QED BY <1>2, <1>3, <2>1, <2>2, VerdictKept
<1> QED BY <1>4, <1>5, <1>6

(* The end of an idle tick, an orderly stop and the conclusion decide as   *)
(* the failures say.                                                       *)
LEMMA EndVerdict ==
  ASSUME TypeOK, Counts, Verdict,
         FinishNow \/ Finish \/ Execute \/ Teardown \/ Settle \/ WaitForTasks \/ Conclude
  PROVE  Verdict'
<1>1. rq \in RqType /\ sq \in SqType /\ env \in EnvType
  BY DEF TypeOK
<1>2. \A st : Polled(st) = st
  BY DEF Polled, Verdict
<1>3. CASE FinishNow
  <2>1. rq'.state \in {"Complete", "Failed"} /\ pc' = "teardown" /\ env' = env /\ env.stop # "none"
    BY <1>1, <1>3 DEF FinishNow, Outcome, RqType
  <2> QED BY <2>1 DEF Verdict, Succeeded, Halted
<1>4. CASE Finish
  <2>1. pc = "top" /\ env' = env /\ (env.stop # "none" \/ rq.state = "CleanUp")
    BY <1>4 DEF Finish
  <2>2. rq'.failed = rq.failed /\ rq'.complete = rq.complete
    BY <1>1, <1>4 DEF Finish, RqType
  <2>3. \/ rq'.state = "CleanUp" /\ pc' \in {"end", "waitread"}
        \/ rq'.state = Outcome /\ pc' = "teardown"
    BY <1>1, <1>2, <1>4 DEF Finish, RqType
  <2>4. CASE rq'.state = "CleanUp" /\ pc' \in {"end", "waitread"}
    BY <2>1, <2>2, <2>4 DEF Verdict, Succeeded, Halted, Enforce, SetsceneOnly
  <2>5. CASE rq'.state = Outcome /\ pc' = "teardown"
    <3>1. rq'.state \in {"Complete", "Failed"} /\ (rq.failed # {} => rq'.state = "Failed")
      BY <2>5 DEF Outcome
    <3>2. ~Succeeded'
      BY <2>1, <3>1 DEF Verdict, Succeeded, Halted, Enforce, SetsceneOnly
    <3> QED BY <2>1, <2>5, <3>1, <3>2 DEF Verdict, Halted
  <2> QED BY <2>3, <2>4, <2>5
<1>5. CASE Execute \/ WaitForTasks
  <2>1. rq' = [rq EXCEPT !.state = rq.state] /\ env' = env /\ procs' = procs
    BY <1>2, <1>5 DEF Execute, WaitForTasks
  <2>2. rq' = rq
    BY <1>1, <2>1 DEF RqType
  <2>3. pc \notin {"teardown", "end"} /\ pc' \notin {"teardown", "end"}
    BY <1>5 DEF Execute, WaitForTasks
  <2> QED BY <2>1, <2>2, <2>3, VerdictKept
<1>6. CASE Teardown
  <2>1. /\ rq' = rq /\ procs' = {} /\ pc = "teardown"
        /\ env'.worker = "gone" /\ env'.stop = env.stop /\ env'.options = env.options
        /\ pc' = IF rq.state \in {"Complete", "Failed"} THEN "end" ELSE "top"
    BY <1>1, <1>6 DEF Teardown, EnvType
  <2> QED BY <2>1 DEF Verdict, Succeeded, Halted, Enforce, SetsceneOnly
<1>7. CASE Settle
  <2>1. pc = "settle" /\ env' = env
    BY <1>7 DEF Settle
  <2>2. rq'.failed = rq.failed
    BY <1>1, <1>7 DEF Settle, RqType
  <2>3. \/ rq'.state = "Failed" /\ pc' = "teardown"
        \/ rq'.state = "Complete" /\ pc' = "teardown" /\ SetsceneOnly
        \/ rq'.state = rq.state /\ pc' = "task"
    BY <1>1, <1>7 DEF Settle, RqType
  <2>4. CASE rq'.state = rq.state /\ pc' = "task"
    <3>1. ~Succeeded
      BY <2>1 DEF Verdict, Succeeded
    <3> QED BY <2>1, <2>2, <2>4, <3>1, VerdictKept
  <2>5. CASE rq'.state = "Failed" /\ pc' = "teardown"
    BY <2>1, <2>5 DEF Verdict, Succeeded, Halted
  <2>6. CASE rq'.state = "Complete" /\ pc' = "teardown" /\ SetsceneOnly
    BY <2>1, <2>6 DEF Verdict, Succeeded, Halted, SetsceneOnly
  <2> QED BY <2>3, <2>4, <2>5, <2>6
<1>8. CASE Conclude
  <2>1. /\ NothingLives /\ pc = "wait" /\ pc' = "teardown" /\ env' = env /\ procs' = procs
    BY <1>8 DEF Conclude, NothingLives
  <2>2. rq'.failed = rq.failed /\ rq'.complete = rq.complete
    BY <1>1, <1>8 DEF Conclude, RqType
  <2>3. rq'.state = IF rq.failed # {} \/ SanityErrors THEN "Failed" ELSE "Complete"
    BY <1>1, <1>8 DEF Conclude, RqType
  <2>4. rq.state \in {"Running", "CleanUp"}
    BY <1>1, <2>1 DEF Verdict, RqType, States
  <2>5. ASSUME Succeeded'
        PROVE  rq'.complete = Tasks /\ rq'.failed = {} /\ procs' = {}
    <3>1. rq.failed = {} /\ ~SanityErrors
      BY <2>3, <2>5 DEF Succeeded
    <3>2. rq.complete = Tasks
      BY <1>1, <3>1 DEF SanityErrors, RqType
    <3>3. rq.state = "Running"
      BY <2>1, <2>4, <2>5, <3>1 DEF Verdict, Succeeded, Halted, Enforce
    <3> QED BY <2>1, <2>2, <3>1, <3>2, <3>3, ConcludeIdle
  <2> QED BY <2>1, <2>3, <2>5 DEF Verdict, Halted
<1> QED BY <1>3, <1>4, <1>5, <1>6, <1>7, <1>8

(* Every other step leaves the verdict open. *)
LEMMA VerdictStep ==
  ASSUME MayDie = FALSE, TypeOK, Counts, Verdict, Next
  PROVE  Verdict'
<1>1. rq \in RqType /\ env \in EnvType
  BY DEF TypeOK
<1>2. ~WorkerDies /\ ~WriteFails
  BY DEF WorkerDies, WriteFails, Verdict
<1>3. CASE Migrate
  <2>1. pc = "migrate" /\ pc' = "scene" /\ env' = env
    BY <1>3 DEF Migrate
  <2>2. \E uni, dk : MigrateReady(uni, dk) \/ HaltMigration(uni, dk)
    BY <1>3 DEF Migrate
  <2>3. rq' = rq \/ \E t : rq' = [rq EXCEPT !.failed = @ \cup {t}, !.state = "CleanUp"]
    BY <2>2 DEF MigrateReady, HaltMigration
  <2>4. CASE rq' = rq
    BY <2>1, <2>4 DEF Verdict, Succeeded, Halted, Enforce, SetsceneOnly
  <2>5. ASSUME NEW t, rq' = [rq EXCEPT !.failed = @ \cup {t}, !.state = "CleanUp"]
        PROVE  Verdict'
    <3>1. rq'.state = "CleanUp" /\ rq'.failed # {}
      BY <1>1, <2>5 DEF RqType
    <3> QED BY <2>1, <3>1 DEF Verdict, Succeeded, Halted
  <2> QED BY <2>3, <2>4, <2>5
<1>4. ASSUME NEW p \in procs, WorkerExit(p) \/ ReadUnihash(p)
      PROVE  Verdict'
  <2>1. rq' = rq /\ pc' = pc /\ env' = env
    BY <1>4 DEF WorkerExit, ReadUnihash
  <2>2. ~Succeeded
    BY DEF Verdict
  <2> QED BY <2>1, <2>2, VerdictKept
<1>5. CASE StopRequest
  <2>1. /\ rq' = rq /\ pc' = pc
        /\ env'.stop # "none" /\ env'.worker = env.worker
    BY <1>1, <1>5, ConfigAssumption DEF StopRequest, EnvType
  <2> QED BY <2>1 DEF Verdict, Succeeded, Halted
<1>6. CASE Ended
  BY <1>6, VerdictKept DEF Ended, vars
<1>7. CASE \/ ReadDone \/ MigrateNothing \/ SceneNone \/ TaskNone \/ ForceDeferred
           \/ \E s \in Setscene : SceneSkip(s) \/ SceneFailOutright(s) \/ SceneRun(s)
  <2>1. /\ rq' = rq /\ env' = env /\ pc \notin {"teardown", "end"}
        /\ pc' \in {"migrate", "scene", "settle", "wait", Return(rq.state)}
    BY <1>7 DEF ReadDone, MigrateNothing, SceneNone, TaskNone, ForceDeferred, NothingLives,
       SceneSkip, SceneFailOutright, SceneRun
  <2>2. ~Succeeded /\ Return(rq.state) = "top"
    BY <2>1 DEF Verdict, Succeeded, Return
  <2> QED BY <2>1, <2>2, VerdictKept
<1> QED BY <1>2, <1>3, <1>4, <1>5, <1>6, <1>7, ReadVerdict, TaskVerdict, EndVerdict
        DEF Next, CookerStep

(* Unless the worker dies, a build that was neither stopped nor restricted *)
(* and that ends as complete has completed every task, and nothing that    *)
(* was still running could fail after the verdict.                         *)
THEOREM CompleteVerdict ==
  ASSUME HardOrRehash, EnforceHalts, MayDie = FALSE
  PROVE  Spec => []CompleteIsComplete
<1>1. Init => Verdict
  BY DEF Init, Verdict, Succeeded, Halted
<1>2. TypeOK /\ Counts /\ Verdict /\ [Next]_vars => Verdict'
  <2> SUFFICES ASSUME TypeOK, Counts, Verdict, [Next]_vars PROVE Verdict'
    OBVIOUS
  <2>1. CASE Next
    BY <2>1, VerdictStep
  <2>2. CASE UNCHANGED vars
    BY <2>2 DEF vars, Verdict, Succeeded, Halted, SetsceneOnly, Enforce
  <2> QED BY <2>1, <2>2
<1>3. Verdict => CompleteIsComplete
  BY DEF Verdict, Succeeded, CompleteIsComplete
<1> QED BY <1>1, <1>2, <1>3, CountsInvariant, TypeCorrect, PTL DEF Spec

----------------------------------------------------------------------------
(* The inputs of a task that is built.                                     *)

(* What a setscene task covers is closed under dependencies, up to the     *)
(* next setscene tasks.                                                    *)
LEMMA CoveredByClosed ==
  ASSUME NEW s \in Setscene, NEW d \in RealTasks
  PROVE  /\ d \in Depends[s] => d \in CoveredBy[s]
         /\ \A t \in CoveredBy[s] : d \in Depends[t] => d \in CoveredBy[s]
<1> DEFINE Closed(U) == /\ Depends[s] \cap RealTasks \subseteq U
                        /\ \A u \in U : Depends[u] \cap RealTasks \subseteq U
<1>1. CoveredBy[s] = {t \in RealTasks : \A U \in SUBSET RealTasks : Closed(U) => t \in U}
  BY DEF CoveredBy
<1>2. ASSUME NEW U \in SUBSET RealTasks, Closed(U), d \in Depends[s] PROVE d \in U
  BY <1>2
<1>3. ASSUME NEW t \in CoveredBy[s], d \in Depends[t], NEW U \in SUBSET RealTasks, Closed(U)
      PROVE  d \in U
  <2>1. t \in U
    BY <1>1, <1>3
  <2> QED BY <1>3, <2>1
<1> HIDE DEF Closed
<1> QED BY <1>1, <1>2, <1>3

(* The unskippable tasks are closed under dependencies, down to the first  *)
(* setscene tasks, and contain the targets without a setscene variant.     *)
LEMMA UnskippableClosed ==
  /\ CantSkip \subseteq Unskippable
  /\ \A t \in Unskippable \ Setscene : Depends[t] \subseteq Unskippable
<1> DEFINE Closed(U) == /\ {e \in Tasks : Revdeps[e] = {}} \cup CantSkip \subseteq U
                        /\ \A u \in U \ Setscene : Depends[u] \subseteq U
<1>1. Unskippable = {t \in Tasks : \A U \in SUBSET Tasks : Closed(U) => t \in U}
  BY DEF Unskippable
<1>2. CantSkip \subseteq Tasks
  BY GraphAssumption DEF CantSkip
<1>3. ASSUME NEW t \in CantSkip, NEW U \in SUBSET Tasks, Closed(U) PROVE t \in U
  BY <1>3
<1>4. ASSUME NEW t \in Unskippable \ Setscene, NEW d \in Depends[t]
      PROVE  d \in Unskippable
  <2>1. d \in Tasks
    BY <1>1, <1>4, GraphAssumption
  <2>2. ASSUME NEW U \in SUBSET Tasks, Closed(U) PROVE d \in U
    <3>1. t \in U
      BY <1>1, <1>4, <2>2
    <3> QED BY <1>4, <2>2, <3>1
  <2> HIDE DEF Closed
  <2> QED BY <1>1, <2>1, <2>2
<1> HIDE DEF Closed
<1> QED BY <1>1, <1>2, <1>3, <1>4

(* The tasks that were passed over because something covers them. *)
PassedOver == rq.complete \ rq.tasksrun

(* Where nothing has changed since, tasks_covered and tasks_notcovered are *)
(* what update_holdofftasks() would compute now.                           *)
Accurate ==
  ~sq.need_update /\ rq.state = "Running" =>
    hold.covered = Covered /\ hold.notcovered = NotCovered

(* What was passed over stays covered, from every side.                    *)
StillCovered(d) ==
  IF d \in Setscene THEN d \in sq.covered
  ELSE d \notin Unskippable /\ \A s \in Setscene : d \in CoveredBy[s] => s \in sq.covered

(* What the scheduler may run has only restored inputs among those that    *)
(* were passed over.                                                       *)
InputsRestored ==
  \A t \in ToRun : Depends[t] \cap PassedOver \subseteq sq.covered

Inputs ==
  /\ Accurate
  /\ Counting => \A d \in PassedOver : StillCovered(d)
  /\ Counting /\ ~sq.need_update => InputsRestored
  /\ BuiltInputs

(* A task that is not covered has only restored inputs among those that    *)
(* are covered from every side.                                            *)
LEMMA NotCoveredInputs ==
  ASSUME sq \in SqType, CoveredOrNot, NEW d \in Tasks, StillCovered(d)
  PROVE  \A t \in NotCovered : d \in Depends[t] => d \in sq.covered
<1> SUFFICES ASSUME NEW t \in NotCovered, d \in Depends[t], d \notin Setscene
             PROVE  FALSE
  BY DEF StillCovered
<1>1. d \in RealTasks
  BY DEF RealTasks
<1>2. d \notin Unskippable /\ \A s \in Setscene : d \in CoveredBy[s] => s \in sq.covered
  BY DEF StillCovered
<1> DEFINE U == UNION {CoveredBy[s] : s \in sq.notcovered}
<1>3. NotCovered = sq.done \cap (sq.notcovered \cup CantSkip \cup (Unskippable \ Setscene) \cup U)
  BY DEF NotCovered
<1>4. ASSUME NEW s \in sq.notcovered, d \in CoveredBy[s] PROVE FALSE
  BY <1>2, <1>4 DEF CoveredOrNot, SqType
<1>5. CASE t \in U
  <2>1. PICK s \in sq.notcovered : t \in CoveredBy[s]
    BY <1>5
  <2>2. s \in Setscene
    BY DEF SqType
  <2>3. d \in CoveredBy[s]
    BY <1>1, <2>1, <2>2, CoveredByClosed
  <2> QED BY <1>4, <2>3
<1> HIDE DEF U
<1>6. CASE t \in sq.notcovered
  <2>1. t \in Setscene
    BY <1>6 DEF SqType
  <2>2. d \in CoveredBy[t]
    BY <1>1, <2>1, CoveredByClosed
  <2> QED BY <1>4, <1>6, <2>2
<1>7. CASE t \in CantSkip \cup (Unskippable \ Setscene)
  <2>1. t \in Unskippable \ Setscene
    BY <1>7, UnskippableClosed DEF CantSkip
  <2> QED BY <1>2, <2>1, UnskippableClosed
<1> QED BY <1>3, <1>5, <1>6, <1>7

(* Where tasks_covered is accurate, a covered task that is not held off is *)
(* covered from every side.                                                *)
LEMMA CoveredStillCovered ==
  ASSUME sq \in SqType, rq \in RqType, NEW d \in Covered, d \notin rq.complete, d \notin hold.tasks,
         HeldOffUndecided(Setscene)
  PROVE  StillCovered(d)
<1> DEFINE U == UNION {CoveredBy[s] : s \in sq.covered}
           V == UNION {CoveredBy[s] : s \in sq.notcovered}
<1>1. d \in sq.done /\ d \in sq.covered \cup U /\ d \notin NotCovered
  BY DEF Covered
<1>2. d \notin sq.notcovered \cup CantSkip \cup (Unskippable \ Setscene) \cup V
  BY <1>1 DEF NotCovered
<1>3. CASE d \in Setscene
  <2>1. d \notin U
    <3>1. \A s \in sq.covered : CoveredBy[s] \cap Setscene = {}
      BY DEF CoveredBy, RealTasks, SqType
    <3> QED BY <1>3, <3>1
  <2> QED BY <1>1, <1>3, <2>1 DEF StillCovered
<1>4. CASE d \notin Setscene
  <2>1. ASSUME NEW s \in Setscene, d \in CoveredBy[s] PROVE s \in sq.covered
    <3>1. s \notin sq.notcovered
      BY <1>2, <2>1
    <3>2. s \in Decided(sq)
      BY <2>1 DEF HeldOffUndecided, Around
    <3> QED BY <3>1, <3>2 DEF Decided
  <2> QED BY <1>2, <1>4, <2>1 DEF StillCovered
<1> QED BY <1>3, <1>4

(* A task completes without having run only when it is skipped as covered. *)
LEMMA PassedOverStep ==
  ASSUME TypeOK, Next
  PROVE  /\ rq.complete \subseteq rq'.complete /\ rq.tasksrun \subseteq rq'.tasksrun
         /\ \/ rq'.complete \ rq'.tasksrun \subseteq PassedOver
            \/ \E t \in Tasks : /\ TaskSkipped(t) /\ t \in hold.covered
                                /\ rq'.complete \ rq'.tasksrun = PassedOver \cup ({t} \ rq.tasksrun)
<1>1. rq \in RqType
  BY DEF TypeOK
<1>2. ASSUME RqSame, rq'.tasksrun = rq.tasksrun
      PROVE  /\ rq.complete \subseteq rq'.complete /\ rq.tasksrun \subseteq rq'.tasksrun
             /\ rq'.complete \ rq'.tasksrun \subseteq PassedOver
  BY <1>2 DEF RqSame, PassedOver
<1>3. ASSUME NEW t, rq'.complete = rq.complete \cup {t}, rq'.tasksrun = rq.tasksrun \cup {t}
      PROVE  /\ rq.complete \subseteq rq'.complete /\ rq.tasksrun \subseteq rq'.tasksrun
             /\ rq'.complete \ rq'.tasksrun \subseteq PassedOver
  BY <1>3 DEF PassedOver
<1>4. \A r \in RqType, t \in Tasks :
        /\ TaskComplete(r, t).complete = r.complete \cup {t}
        /\ TaskComplete(r, t).tasksrun = r.tasksrun \cup {t}
        /\ TaskFail(r, t).tasksrun = r.tasksrun
  BY DEF TaskComplete, TaskCompleteOutright, TaskFail, RqType
<1>5. ASSUME NEW p \in procs, ReadExit(p)
      PROVE  /\ rq.complete \subseteq rq'.complete /\ rq.tasksrun \subseteq rq'.tasksrun
             /\ rq'.complete \ rq'.tasksrun \subseteq PassedOver
  <2>1. p.task \in Tasks
    BY GraphAssumption DEF TypeOK, ProcType
  <2>2. \/ rq' = rq
        \/ rq' = [rq EXCEPT !.state = "CleanUp"]
        \/ rq' = TaskComplete(rq, p.task)
        \/ rq' = TaskFail(rq, p.task)
    BY <1>5 DEF ReadExit
  <2>3. CASE rq' = TaskComplete(rq, p.task)
    BY <1>1, <1>3, <1>4, <2>1, <2>3
  <2>4. CASE rq' = TaskFail(rq, p.task)
    <3>1. RqSame /\ rq'.tasksrun = rq.tasksrun
      BY <1>1, <1>4, <2>1, <2>4, EndsComplete DEF RqSame
    <3> QED BY <1>2, <3>1
  <2>5. CASE rq' = rq \/ rq' = [rq EXCEPT !.state = "CleanUp"]
    <3>1. RqSame /\ rq'.tasksrun = rq.tasksrun
      BY <1>1, <2>5 DEF RqSame, RqType
    <3> QED BY <1>2, <3>1
  <2> QED BY <2>2, <2>3, <2>4, <2>5
<1>6. ASSUME NEW t \in Tasks, TaskNoExec(t)
      PROVE  /\ rq.complete \subseteq rq'.complete /\ rq.tasksrun \subseteq rq'.tasksrun
             /\ rq'.complete \ rq'.tasksrun \subseteq PassedOver
  <2> DEFINE r == [rq EXCEPT !.running = @ \cup {t}, !.active = @ + 1]
  <2>1. r \in RqType /\ r.complete = rq.complete /\ r.tasksrun = rq.tasksrun
    <3>1. r \in RqType
      BY <1>1, TaskActiveType
    <3> QED BY <1>1, <3>1 DEF RqType
  <2>2. rq' = TaskComplete(r, t)
    BY <1>6 DEF TaskNoExec
  <2> HIDE DEF r
  <2> QED BY <1>3, <1>4, <2>1, <2>2
<1>7. ASSUME NEW t \in Tasks, TaskSkipped(t)
      PROVE  /\ rq.complete \subseteq rq'.complete /\ rq.tasksrun \subseteq rq'.tasksrun
             /\ \/ rq'.complete \ rq'.tasksrun \subseteq PassedOver
                \/ /\ t \in hold.covered
                   /\ rq'.complete \ rq'.tasksrun = PassedOver \cup ({t} \ rq.tasksrun)
  <2> DEFINE r == TaskSkip(rq, t)
             ran == IF t \in hold.covered THEN r.tasksrun ELSE r.tasksrun \cup {t}
  <2>1. r \in RqType /\ r.complete = rq.complete \cup {t} /\ r.tasksrun = rq.tasksrun
    <3>1. r \in RqType /\ r.complete = rq.complete \cup {t}
      BY <1>1, TaskSkipType, StartsComplete
    <3>2. r.tasksrun = rq.tasksrun
      BY <1>1 DEF TaskSkip, TaskCompleteOutright, RqType
    <3> QED BY <3>1, <3>2
  <2>2. rq' = [r EXCEPT !.tasksrun = ran]
    BY <1>7 DEF TaskSkipped
  <2> HIDE DEF r
  <2>3. rq'.complete = rq.complete \cup {t} /\ rq'.tasksrun = ran
    BY <2>1, <2>2 DEF RqType
  <2>4. CASE t \in hold.covered
    BY <2>1, <2>3, <2>4 DEF PassedOver
  <2>5. CASE t \notin hold.covered
    BY <2>1, <2>3, <2>5, <1>3
  <2> QED BY <2>4, <2>5
<1>8. ASSUME NEW t \in Tasks, TaskRun(t)
      PROVE  /\ rq.complete \subseteq rq'.complete /\ rq.tasksrun \subseteq rq'.tasksrun
             /\ rq'.complete \ rq'.tasksrun \subseteq PassedOver
  <2>1. rq' = [rq EXCEPT !.running = @ \cup {t}, !.active = @ + 1]
    BY <1>8 DEF TaskRun
  <2>2. rq'.complete = rq.complete /\ rq'.tasksrun = rq.tasksrun
    BY <1>1, <2>1 DEF RqType
  <2> QED BY <2>2 DEF PassedOver
<1>9. CASE \/ FinishNow \/ Finish \/ Execute \/ Teardown \/ ReadDone \/ MigrateNothing \/ Migrate
           \/ \E s \in Setscene : SceneSkip(s) \/ SceneFailOutright(s) \/ SceneRun(s)
           \/ SceneNone \/ Settle
           \/ \E t \in Tasks : TaskForbidden(t) \/ TaskSpawnFails(t)
           \/ TaskNone \/ WriteFails \/ WaitForTasks \/ ForceDeferred \/ Conclude
           \/ \E p \in procs : WorkerExit(p) \/ ReadUnihash(p)
           \/ WorkerDies \/ StopRequest \/ Ended
  <2>1. RqSame
    BY <1>9, OtherRqSame
  <2>2. rq'.tasksrun = rq.tasksrun
    <3>1. CASE FinishNow \/ Finish \/ Execute \/ WaitForTasks \/ Conclude \/ WriteFails
      <4>1. \E st : rq' = [rq EXCEPT !.state = st]
        BY <3>1 DEF FinishNow, Finish, Execute, WaitForTasks, Conclude, WriteFails
      <4> QED BY <1>1, <4>1 DEF RqType
    <3>2. CASE Migrate
      <4>1. \E uni, dk : MigrateReady(uni, dk) \/ HaltMigration(uni, dk)
        BY <3>2 DEF Migrate
      <4>2. rq' = rq \/ \E t : rq' = [rq EXCEPT !.failed = @ \cup {t}, !.state = "CleanUp"]
        BY <4>1 DEF MigrateReady, HaltMigration
      <4> QED BY <1>1, <4>2 DEF RqType
    <3>3. CASE Settle
      <4>1. \E st : rq' = [rq EXCEPT !.buildable = SettledBuildable, !.state = st]
        BY <3>3 DEF Settle
      <4> QED BY <1>1, <4>1 DEF RqType
    <3>4. ASSUME NEW t \in Tasks, TaskForbidden(t) PROVE rq'.tasksrun = rq.tasksrun
      BY <1>1, <1>4, <3>4 DEF TaskForbidden
    <3>5. ASSUME NEW t \in Tasks, TaskSpawnFails(t) PROVE rq'.tasksrun = rq.tasksrun
      BY <1>1, <3>5 DEF TaskSpawnFails, RqType
    <3>6. CASE \/ Teardown \/ ReadDone \/ MigrateNothing
               \/ \E s \in Setscene : SceneSkip(s) \/ SceneFailOutright(s) \/ SceneRun(s)
               \/ SceneNone \/ TaskNone \/ ForceDeferred
               \/ \E p \in procs : WorkerExit(p) \/ ReadUnihash(p)
               \/ WorkerDies \/ StopRequest \/ Ended
      BY <3>6 DEF Teardown, ReadDone, MigrateNothing, SceneSkip, SceneFailOutright, SceneRun,
         SceneNone, TaskNone, ForceDeferred, WorkerExit, ReadUnihash, WorkerDies, StopRequest,
         Ended, vars
    <3> QED BY <1>9, <3>1, <3>2, <3>3, <3>4, <3>5, <3>6
  <2> QED BY <1>2, <2>1, <2>2
<1> QED BY <1>5, <1>6, <1>7, <1>8, <1>9 DEF Next, CookerStep

(* What is covered stays so, but for what a migration restarts. *)
LEMMA CoveredKept ==
  ASSUME HardOrRehash, TypeOK, SqDecided(sq), SqHard(sq), NoRehash, Next
  PROVE  sq.covered \subseteq sq'.covered
           \/ (Migrate /\ \E M, C : Restarts(M, C) /\ sq.covered \ M \subseteq sq'.covered)
<1>1. ASSUME NEW C, NEW N, Decides(C, N) PROVE sq.covered \subseteq sq'.covered
  BY <1>1 DEF Decides, Grown
<1>2. ASSUME NEW s \in Setscene, SceneRun(s) PROVE sq.covered \subseteq sq'.covered
  BY <1>2, SceneRunSends DEF Sends
<1>3. CASE Settle
  BY <1>3, SettleSame
<1>4. CASE Migrate
  <2>1. NoHardDepends
    BY <1>4, ConfigAssumption, MigrateRehash
  <2>2. PICK M, C : Restarts(M, C)
    BY <1>4, <2>1, MigrateRestarts
  <2>3. sq.covered \ M \subseteq sq'.covered
    BY <2>2 DEF Restarts
  <2> QED BY <1>4, <2>2, <2>3
<1> QED BY <1>1, <1>2, <1>3, <1>4, SqStep

(* What the scene queue says about covered tasks is constant as long as    *)
(* update_holdofftasks() has nothing to do.                                *)
LEMMA SettledKept ==
  ASSUME HardOrRehash, TypeOK, SqDecided(sq), SqHard(sq), NoRehash, Next, ~Settle, ~sq'.need_update
  PROVE  /\ ~sq.need_update
         /\ hold'.covered = hold.covered /\ hold'.notcovered = hold.notcovered
         /\ \/ /\ sq'.covered = sq.covered /\ sq'.notcovered = sq.notcovered
               /\ sq'.done = sq.done
            \/ rq'.state = "CleanUp"
<1>1. CASE Migrate
  <2>1. NoHardDepends
    BY <1>1, ConfigAssumption, MigrateRehash
  <2>2. PICK M, C : Restarts(M, C)
    BY <1>1, <2>1, MigrateRestarts
  <2>3. hold'.covered = hold.covered /\ hold'.notcovered = hold.notcovered
    BY <1>1, <2>1, MigrateRestarts
  <2> QED BY <2>2, <2>3 DEF Restarts
<1>2. CASE ~Migrate
  <2>1. hold' = hold
    BY <1>2, SceneDoneElsewhere
  <2>2. ASSUME NEW C, NEW N, Decides(C, N)
        PROVE  /\ ~sq.need_update
               /\ sq'.covered = sq.covered /\ sq'.notcovered = sq.notcovered
               /\ sq'.done = sq.done
    BY <2>2 DEF Decides, Grown
  <2>3. ASSUME NEW s \in Setscene, SceneRun(s)
        PROVE  /\ ~sq.need_update
               /\ sq'.covered = sq.covered /\ sq'.notcovered = sq.notcovered
               /\ sq'.done = sq.done
    BY <2>3, SceneRunSends DEF Sends
  <2> QED BY <1>2, <2>1, <2>2, <2>3, SqStep
<1> QED BY <1>1, <1>2

(* tasks_covered and tasks_notcovered stay accurate. *)
LEMMA AccurateStep ==
  ASSUME HardOrRehash, TypeOK, SqDecided(sq), SqHard(sq), NoRehash, Accurate, Next
  PROVE  Accurate'
<1>1. ASSUME sq'.covered = sq.covered, sq'.notcovered = sq.notcovered, sq'.done = sq.done
      PROVE  Covered' = Covered /\ NotCovered' = NotCovered
  BY <1>1 DEF Covered, NotCovered
<1>2. rq'.state = "Running" => rq.state = "Running"
  BY RunningBefore
<1>3. CASE Settle
  <2>1. Covered' = Covered /\ NotCovered' = NotCovered
    BY <1>1, <1>3, SettleSame
  <2>2. hold'.covered = SettledHold.covered /\ hold'.notcovered = SettledHold.notcovered
    BY <1>3, SettledType DEF Settle, HoldType
  <2>3. sq.need_update => SettledHold.covered = Covered /\ SettledHold.notcovered = NotCovered
    BY DEF SettledHold, TypeOK, HoldType
  <2>4. ~sq.need_update => SettledHold = hold
    BY DEF SettledHold
  <2> QED BY <1>2, <2>1, <2>2, <2>3, <2>4 DEF Accurate
<1>4. CASE ~Settle
  BY <1>1, <1>2, <1>4, SettledKept DEF Accurate
<1> QED BY <1>3, <1>4

(* A task that is skipped as covered while the build goes on is covered    *)
(* from every side.                                                        *)
LEMMA SkippedStillCovered ==
  ASSUME TypeOK, Apart, Accurate, NEW t \in Tasks, TaskSkipped(t), t \in hold.covered, Counting'
  PROVE  StillCovered(t) /\ rq.state = "Running" /\ ~sq.need_update
<1> USE DEF Apart
<1>1. rq \in RqType /\ sq \in SqType
  BY DEF TypeOK
<1>2. pc = "task" /\ t \in TaskCandidates /\ pc' = Return(rq.state)
  BY DEF TaskSkipped
<1>3. rq'.state = rq.state
  <2> DEFINE r == TaskSkip(rq, t)
  <2>1. r \in RqType
    BY <1>1, TaskSkipType
  <2>2. r.state = rq.state
    BY <1>1 DEF TaskSkip, TaskCompleteOutright, RqType
  <2>3. \E ran : rq' = [r EXCEPT !.tasksrun = ran]
    BY DEF TaskSkipped
  <2> HIDE DEF r
  <2> QED BY <2>1, <2>2, <2>3 DEF RqType
<1>4. rq.state = "Running"
  BY <1>2, <1>3 DEF Counting, Return
<1>5. ~sq.need_update /\ HeldOffUndecided(Setscene)
  BY <1>2, <1>4 DEF Fresh
<1>6. t \in Covered
  BY <1>4, <1>5 DEF Accurate
<1>7. t \notin rq.complete /\ t \notin hold.tasks
  BY <1>2 DEF TaskCandidates, Started
<1>8. StillCovered(t)
  BY <1>1, <1>5, <1>6, <1>7, CoveredStillCovered
<1> QED BY <1>4, <1>5, <1>8

(* What was passed over stays covered. *)
LEMMA StillCoveredStep ==
  ASSUME HardOrRehash, TypeOK, Apart, Accurate, Counting => \A d \in PassedOver : StillCovered(d),
         Next, Counting'
  PROVE  \A d \in rq'.complete \ rq'.tasksrun :
           IF d \in Setscene THEN d \in sq'.covered
           ELSE d \notin Unskippable /\ \A s \in Setscene : d \in CoveredBy[s] => s \in sq'.covered
<1> USE DEF Apart
<1>1. \A d \in PassedOver : StillCovered(d)
  BY CountingBefore
<1>2. CASE sq.covered \subseteq sq'.covered
  <2>1. ASSUME NEW d \in rq'.complete \ rq'.tasksrun PROVE StillCovered(d)
    <3>1. CASE rq'.complete \ rq'.tasksrun \subseteq PassedOver
      BY <1>1, <2>1, <3>1
    <3>2. ASSUME NEW t \in Tasks, TaskSkipped(t), t \in hold.covered,
                 rq'.complete \ rq'.tasksrun = PassedOver \cup ({t} \ rq.tasksrun)
          PROVE  StillCovered(d)
      <4>1. StillCovered(t)
        BY <3>2, SkippedStillCovered
      <4> QED BY <1>1, <2>1, <3>2, <4>1
    <3> QED BY <3>1, <3>2, PassedOverStep
  <2> QED BY <1>2, <2>1 DEF StillCovered
<1>3. ASSUME Migrate, NEW M, NEW C, Restarts(M, C), sq.covered \ M \subseteq sq'.covered
      PROVE  \A d \in rq'.complete \ rq'.tasksrun :
               IF d \in Setscene THEN d \in sq'.covered
               ELSE d \notin Unskippable /\ \A s \in Setscene : d \in CoveredBy[s] => s \in sq'.covered
  <2> SUFFICES ASSUME NEW d \in rq'.complete \ rq'.tasksrun
               PROVE  IF d \in Setscene THEN d \in sq'.covered
                      ELSE d \notin Unskippable
                           /\ \A s \in Setscene : d \in CoveredBy[s] => s \in sq'.covered
    OBVIOUS
  <2>1. ~\E t \in Tasks : TaskSkipped(t)
    BY <1>3 DEF Migrate, TaskSkipped
  <2>2. d \in PassedOver
    BY <2>1, PassedOverStep
  <2>3. d \notin M
    BY <1>3, <2>2 DEF Restarts, PassedOver, Started
  <2>4. \A m \in M : d \notin CoveredBy[m]
    BY <1>3, <2>2 DEF Restarts, PassedOver
  <2> QED BY <1>1, <1>3, <2>2, <2>3, <2>4 DEF StillCovered
<1> QED BY <1>2, <1>3, CoveredKept

(* What the scheduler may run keeps its inputs. *)
LEMMA InputsRestoredStep ==
  ASSUME HardOrRehash, TypeOK, Apart, CoveredOrNot, Accurate,
         Counting => \A d \in PassedOver : StillCovered(d),
         Counting /\ ~sq.need_update => InputsRestored, Next, Counting', ~sq'.need_update
  PROVE  \A t \in hold'.notcovered \ hold'.covered :
           Depends[t] \cap (rq'.complete \ rq'.tasksrun) \subseteq sq'.covered
<1> USE DEF Apart
<1>1. Counting /\ \A d \in PassedOver : StillCovered(d)
  BY CountingBefore
<1>2. sq \in SqType /\ rq \in RqType /\ hold \in HoldType
  BY DEF TypeOK
<1>3. PassedOver \subseteq Tasks
  BY <1>2 DEF PassedOver, RqType
<1>4. CASE Settle
  <2>1. ~\E t \in Tasks : TaskSkipped(t)
    BY <1>4 DEF Settle, TaskSkipped
  <2>2. rq'.complete \ rq'.tasksrun \subseteq PassedOver
    BY <2>1, PassedOverStep
  <2>3. sq'.covered = sq.covered
    BY <1>4, SettleSame
  <2>4. hold'.covered = SettledHold.covered /\ hold'.notcovered = SettledHold.notcovered
    BY <1>4, SettledType DEF Settle, HoldType
  <2>5. CASE sq.need_update
    <3>1. hold'.notcovered = NotCovered
      BY <1>2, <2>4, <2>5 DEF SettledHold, HoldType
    <3> QED BY <1>1, <1>2, <1>3, <2>2, <2>3, <3>1, NotCoveredInputs
  <2>6. CASE ~sq.need_update
    <3>1. hold'.notcovered = hold.notcovered /\ hold'.covered = hold.covered
      BY <2>4, <2>6 DEF SettledHold
    <3> QED BY <1>1, <2>2, <2>3, <2>6, <3>1 DEF InputsRestored, ToRun
  <2> QED BY <2>5, <2>6
<1>5. CASE ~Settle
  <2>1. /\ ~sq.need_update
        /\ hold'.covered = hold.covered /\ hold'.notcovered = hold.notcovered
    BY <1>5, SettledKept
  <2>2. InputsRestored
    BY <1>1, <2>1
  <2>3. ASSUME NEW t \in Tasks, TaskSkipped(t), t \in hold.covered,
               rq'.complete \ rq'.tasksrun = PassedOver \cup ({t} \ rq.tasksrun)
        PROVE  \A x \in hold'.notcovered \ hold'.covered :
                 Depends[x] \cap (rq'.complete \ rq'.tasksrun) \subseteq sq'.covered
    <3>1. StillCovered(t) /\ rq.state = "Running"
      BY <2>3, SkippedStillCovered
    <3>2. hold.notcovered = NotCovered
      BY <2>1, <3>1 DEF Accurate
    <3>3. \A x \in NotCovered : t \in Depends[x] => t \in sq.covered
      BY <1>2, <3>1, NotCoveredInputs
    <3>4. sq.covered \subseteq sq'.covered
      <4>1. ~Migrate
        BY <2>3 DEF Migrate, TaskSkipped
      <4> QED BY <4>1, CoveredKept
    <3> QED BY <2>1, <2>2, <2>3, <3>2, <3>3, <3>4 DEF InputsRestored, ToRun
  <2>4. ASSUME rq'.complete \ rq'.tasksrun \subseteq PassedOver
        PROVE  \A x \in hold'.notcovered \ hold'.covered :
                 Depends[x] \cap (rq'.complete \ rq'.tasksrun) \subseteq sq'.covered
    <3>1. ASSUME NEW M, NEW C, Restarts(M, C), sq.covered \ M \subseteq sq'.covered
          PROVE  sq.covered \cap PassedOver \subseteq sq'.covered
      BY <3>1 DEF Restarts, PassedOver, Started
    <3>2. sq.covered \cap PassedOver \subseteq sq'.covered
      BY <3>1, CoveredKept
    <3> QED BY <2>1, <2>2, <2>4, <3>2 DEF InputsRestored, ToRun
  <2> QED BY <2>3, <2>4, PassedOverStep
<1> QED BY <1>4, <1>5

(* The inputs of what is being built stay there, and those of what is      *)
(* started are.                                                            *)
LEMMA BuiltInputsStep ==
  ASSUME HardOrRehash, TypeOK, DepsComplete, Apart, Inputs, Next
  PROVE  \A p \in procs' : ~p.scene => Depends[p.task] \subseteq rq'.tasksrun \cup sq'.covered
<1> SUFFICES ASSUME NEW p \in procs', ~p.scene
             PROVE  Depends[p.task] \subseteq rq'.tasksrun \cup sq'.covered
  OBVIOUS
<1> USE DEF Apart
<1>1. rq.tasksrun \subseteq rq'.tasksrun
  BY PassedOverStep
<1>2. ASSUME NEW q \in RealProcs, q.task = p.task
      PROVE  Depends[p.task] \subseteq rq'.tasksrun \cup sq'.covered
  <2>1. Depends[p.task] \subseteq rq.tasksrun \cup sq.covered
    BY <1>2 DEF Inputs, BuiltInputs
  <2>2. p.task \in rq.running
    BY <1>2 DEF Started
  <2>3. Depends[p.task] \subseteq rq.running
    BY <2>2 DEF DepsComplete, Started
  <2>4. ASSUME NEW M, NEW C, Restarts(M, C), sq.covered \ M \subseteq sq'.covered
        PROVE  sq.covered \cap rq.running \subseteq sq'.covered
    BY <2>4 DEF Restarts
  <2>5. sq.covered \cap rq.running \subseteq sq'.covered
    BY <2>4, CoveredKept
  <2> QED BY <1>1, <2>1, <2>3, <2>5
<1>3. ASSUME TaskRun(p.task)
      PROVE  Depends[p.task] \subseteq rq'.tasksrun \cup sq'.covered
  <2>1. pc = "task" /\ sq' = sq /\ p.task \in ToRun /\ p.task \in rq.buildable
    BY <1>3 DEF TaskRun, MustRun, TaskCandidates, ToRun
  <2>2. Counting /\ ~sq.need_update
    BY <2>1 DEF Counting, Fresh
  <2>3. Depends[p.task] \cap PassedOver \subseteq sq.covered
    BY <2>1, <2>2 DEF Inputs, InputsRestored
  <2>4. Depends[p.task] \subseteq rq.complete
    BY <2>1 DEF DepsComplete
  <2> QED BY <1>1, <2>1, <2>3, <2>4 DEF PassedOver
<1> QED BY <1>2, <1>3, RealProcsStep

(* The inputs are there throughout. *)
LEMMA InputsInvariant ==
  ASSUME HardOrDeferred
  PROVE  Spec => []Inputs
<1>1. HardOrRehash
  BY DEF HardOrDeferred, HardOrRehash
<1>2. Init => Inputs
  <2> SUFFICES ASSUME Init PROVE Inputs
    OBVIOUS
  <2>1. procs = {} /\ rq.complete = {}
    BY DEF Init
  <2>2. sq.need_update
    <3>1. \E q \in SqType, C \in SUBSET Setscene : Grown(q, sq, C, {}) /\ q.need_update = TRUE
      BY InitialScene
    <3> QED BY <3>1 DEF Grown
  <2> QED BY <2>1, <2>2 DEF Inputs, Accurate, PassedOver, BuiltInputs, RealProcs
<1>3. TypeOK /\ DepsComplete /\ Apart /\ Exclusive /\ Inputs /\ [Next]_vars => Inputs'
  <2> SUFFICES ASSUME TypeOK, DepsComplete, Apart, Exclusive, Inputs, [Next]_vars PROVE Inputs'
    OBVIOUS
  <2>1. CASE Next
    <3>1. SqDecided(sq) /\ SqHard(sq) /\ NoRehash
      BY DEF Apart
    <3>2. CoveredOrNot
      BY DEF Exclusive, MayCover, CoveredOrNot
    <3>3. /\ Accurate
          /\ Counting => \A d \in PassedOver : StillCovered(d)
          /\ Counting /\ ~sq.need_update => InputsRestored
      BY DEF Inputs
    <3>4. Accurate'
      BY <1>1, <2>1, <3>1, <3>3, AccurateStep
    <3>5. (Counting => \A d \in PassedOver : StillCovered(d))'
      BY <1>1, <2>1, <3>3, StillCoveredStep DEF PassedOver, StillCovered
    <3>6. (Counting /\ ~sq.need_update => InputsRestored)'
      BY <1>1, <2>1, <3>2, <3>3, InputsRestoredStep DEF InputsRestored, ToRun, PassedOver
    <3>7. BuiltInputs'
      BY <1>1, <2>1, BuiltInputsStep DEF BuiltInputs, RealProcs
    <3> QED BY <3>4, <3>5, <3>6, <3>7 DEF Inputs
  <2>2. CASE UNCHANGED vars
    BY <2>2 DEF vars, Inputs, Accurate, Counting, PassedOver, StillCovered, InputsRestored, ToRun,
       BuiltInputs, RealProcs, Covered, NotCovered
  <2> QED BY <2>1, <2>2
<1> QED BY <1>1, <1>2, <1>3, TypeCorrect, DepsCompleteInvariant, ApartInvariant,
           ExclusiveInvariant, PTL DEF Spec

(* Where hard dependencies meet neither rehashing nor deferrals, a task is *)
(* built only on inputs that were built or restored: what is covered and   *)
(* skipped is needed by nothing that runs, whatever was decided, skipped   *)
(* or reset since.                                                         *)
THEOREM InputsExist ==
  ASSUME HardOrDeferred
  PROVE  Spec => []BuiltInputs
<1>1. Inputs => BuiltInputs
  BY DEF Inputs
<1> QED BY <1>1, InputsInvariant, PTL

----------------------------------------------------------------------------
(* A migration never comes too late for what it covers.                    *)

(* Only tasks that were not covered wait to be migrated. *)
PendingNotCovered == hash.pending \subseteq sq.notcovered

(* What a new unihash moves is neither covered nor being restored. *)
LEMMA ChangedUncovered ==
  ASSUME NEW uni \in NewUnihashes
  PROVE  Changed(uni) \cap (sq.covered \cup sq.live) = {}
<1> SUFFICES ASSUME NEW t \in Changed(uni) PROVE t \notin sq.covered \cup sq.live
  OBVIOUS
<1>1. t \in Tasks /\ uni[t] # AppliedUnihash[t]
  BY DEF Changed
<1> QED BY <1>1 DEF NewUnihashes

(* So no task that migrates is covered. *)
LEMMA MigrationsUncovered ==
  ASSUME TypeOK, CoveredOrNot, PendingNotCovered, NEW uni \in NewUnihashes
  PROVE  PendingMigrations(uni) \subseteq Setscene \ sq.covered
<1>1. sq \in SqType /\ hash \in HashType
  BY DEF TypeOK
<1>2. hash.pending \subseteq Setscene /\ hash.pending \cap sq.covered = {}
  BY <1>1 DEF PendingNotCovered, HashType, CoveredOrNot
<1> QED BY <1>2, ChangedUncovered DEF PendingMigrations

(* What was passed over is still covered, so no task that migrates covers  *)
(* any of it.                                                              *)
NoStaleMigration ==
  pc = "migrate" => \A uni \in NewUnihashes : StaleMigrations(uni) = {}

LEMMA NotStale ==
  ASSUME TypeOK, CoveredOrNot, Inputs, PendingNotCovered
  PROVE  NoStaleMigration
<1> SUFFICES ASSUME pc = "migrate", NEW uni \in NewUnihashes, NEW t \in StaleMigrations(uni)
             PROVE  FALSE
  BY DEF NoStaleMigration
<1>1. Counting
  BY DEF Counting
<1>2. t \in PendingMigrations(uni) /\ ~(CoveredBy[t] \cap rq.complete \subseteq rq.tasksrun)
  BY DEF StaleMigrations, ReadyMigrations
<1>3. t \in Setscene /\ t \notin sq.covered
  BY <1>2, MigrationsUncovered
<1>4. PICK d \in CoveredBy[t] : d \in PassedOver
  BY <1>2 DEF PassedOver
<1>5. d \notin Setscene
  BY <1>3, <1>4 DEF CoveredBy, RealTasks
<1>6. StillCovered(d)
  BY <1>1, <1>4 DEF Inputs
<1> QED BY <1>3, <1>4, <1>5, <1>6 DEF StillCovered

(* A task that has to wait for what it covers was decided, so it waits     *)
(* uncovered.                                                              *)
LEMMA PendingStep ==
  ASSUME HardOrRehash, TypeOK, Apart, CoveredOrNot, NoStaleMigration, PendingNotCovered, Next
  PROVE  hash'.pending \subseteq sq'.notcovered
<1> USE DEF Apart
<1>1. sq \in SqType /\ hash \in HashType
  BY DEF TypeOK
<1>2. CASE Migrate
  <2>1. NoHardDepends
    BY <1>2, ConfigAssumption, MigrateRehash
  <2>2. PICK M, C : Restarts(M, C)
    BY <1>2, <2>1, MigrateRestarts
  <2>3. pc = "migrate"
    BY <1>2 DEF Migrate
  <2>4. PICK uni \in NewUnihashes : \E dk : MigrateReady(uni, dk)
    <3>1. PICK uni \in NewUnihashes : \E dk :
            IF StaleMigrations(uni) = {} THEN MigrateReady(uni, dk) ELSE HaltMigration(uni, dk)
      BY <1>2 DEF Migrate
    <3>2. StaleMigrations(uni) = {}
      BY <2>3 DEF NoStaleMigration
    <3> QED BY <3>1, <3>2
  <2>5. hash'.pending = PendingMigrations(uni) \ ReadyMigrations(uni)
    <3>1. hash' = MigratedHash(uni, PendingMigrations(uni) \ ReadyMigrations(uni))
      BY <2>4 DEF MigrateReady
    <3> QED BY <1>1, <3>1 DEF MigratedHash, HashType
  <2> SUFFICES ASSUME NEW t \in PendingMigrations(uni), t \notin ReadyMigrations(uni)
               PROVE  t \in sq'.notcovered
    BY <2>5
  <2>6. Busy(CoveredBy[t]) # {}
    BY DEF ReadyMigrations
  <2>7. t \in Setscene /\ t \notin sq.covered
    BY MigrationsUncovered
  <2>8. t \in sq.notcovered
    BY <2>3, <2>6, <2>7 DEF Untouched, Choosing, Idle, Decided
  <2>9. t \notin M
    BY <2>2, <2>6 DEF Restarts
  <2> QED BY <2>2, <2>8, <2>9 DEF Restarts
<1>3. ASSUME ~Migrate PROVE hash'.pending = hash.pending
  <2>1. CASE \E p \in procs : ReadUnihash(p)
    <3>1. \E queue, n : hash' = [hash EXCEPT !.queue = queue, !.updates = n]
      BY <2>1 DEF ReadUnihash
    <3> QED BY <1>1, <3>1 DEF HashType
  <2>2. CASE \/ \E p \in procs : ReadExit(p) \/ WorkerExit(p)
             \/ FinishNow \/ Finish \/ Execute \/ Teardown \/ ReadDone \/ MigrateNothing
             \/ \E s \in Setscene : SceneSkip(s) \/ SceneFailOutright(s) \/ SceneRun(s)
             \/ SceneNone \/ Settle
             \/ \E t \in Tasks : \/ TaskForbidden(t) \/ TaskSkipped(t) \/ TaskNoExec(t)
                                 \/ TaskSpawnFails(t) \/ TaskRun(t)
             \/ TaskNone \/ WriteFails \/ WaitForTasks \/ ForceDeferred \/ Conclude
             \/ WorkerDies \/ StopRequest \/ Ended
    <3>1. hash' = hash
      BY <2>2 DEF ReadExit, WorkerExit, FinishNow, Finish, Execute, Teardown, ReadDone,
         MigrateNothing, SceneSkip, SceneFailOutright, SceneRun, SceneNone, Settle, TaskForbidden,
         TaskSkipped, TaskNoExec, TaskSpawnFails, TaskRun, TaskNone, WriteFails, WaitForTasks,
         ForceDeferred, Conclude, WorkerDies, StopRequest, Ended, vars
    <3> QED BY <3>1
  <2> QED BY <1>3, <2>1, <2>2 DEF Next, CookerStep
<1>4. ASSUME NEW C, NEW N, Decides(C, N) PROVE sq.notcovered \subseteq sq'.notcovered
  BY <1>4 DEF Decides, Grown
<1>5. ASSUME NEW s \in Setscene, SceneRun(s) PROVE sq.notcovered \subseteq sq'.notcovered
  BY <1>5, SceneRunSends DEF Sends
<1>6. CASE Settle
  <2>1. sq'.notcovered = sq.notcovered /\ ~Migrate
    BY <1>6, SettleSame DEF Settle, Migrate
  <2> QED BY <1>3, <2>1 DEF PendingNotCovered
<1> QED BY <1>2, <1>3, <1>4, <1>5, <1>6, SqStep DEF PendingNotCovered

(* What waits to be migrated is not covered. *)
LEMMA PendingInvariant ==
  ASSUME HardOrDeferred
  PROVE  Spec => []PendingNotCovered
<1>1. HardOrRehash
  BY DEF HardOrDeferred, HardOrRehash
<1>2. Init => PendingNotCovered
  BY DEF Init, PendingNotCovered
<1>3. TypeOK /\ Apart /\ Exclusive /\ Inputs /\ PendingNotCovered /\ [Next]_vars
        => PendingNotCovered'
  <2> SUFFICES ASSUME TypeOK, Apart, Exclusive, Inputs, PendingNotCovered, [Next]_vars
               PROVE  PendingNotCovered'
    OBVIOUS
  <2>1. CoveredOrNot
    BY DEF Exclusive, MayCover, CoveredOrNot
  <2>2. CASE Next
    BY <1>1, <2>1, <2>2, NotStale, PendingStep DEF PendingNotCovered
  <2>3. CASE UNCHANGED vars
    BY <2>3 DEF vars, PendingNotCovered
  <2> QED BY <2>2, <2>3
<1> QED BY <1>1, <1>2, <1>3, TypeCorrect, ApartInvariant, ExclusiveInvariant, InputsInvariant,
           PTL DEF Spec

(* "Task marked as completed but now needing to rerun? Halting build." is  *)
(* never reached: what was passed over as covered is covered by nothing    *)
(* that may still migrate.                                                 *)
THEOREM NeverTooLate ==
  ASSUME HardOrDeferred
  PROVE  Spec => []NoStaleMigration
<1>1. TypeOK /\ Exclusive /\ Inputs /\ PendingNotCovered => NoStaleMigration
  <2>1. Exclusive => CoveredOrNot
    BY DEF Exclusive, MayCover, CoveredOrNot
  <2> QED BY <2>1, NotStale
<1> QED BY <1>1, TypeCorrect, ExclusiveInvariant, InputsInvariant, PendingInvariant, PTL

----------------------------------------------------------------------------
(* The run queue implements TaskOrder.                                     *)

(* BB_SETSCENE_ENFORCE, which fails tasks before they start, is not set. *)
NoEnforce == \A o \in Options : "enforce" \notin o

(* A task that failed was started, and nothing of it is outstanding. *)
FailuresOver ==
  /\ rq.failed \subseteq rq.running
  /\ \A p \in RealProcs : p.task \notin rq.failed

(* What a step does to a task, as TaskOrder sees it. *)
Launches(t) ==
  /\ t \in Tasks /\ Starts(t) /\ rq'.failed = rq.failed /\ t \in rq.buildable

Finishes(p) ==
  /\ p \in RealProcs /\ procs' = procs \ {p} /\ rq'.running = rq.running
  /\ \/ rq'.complete = rq.complete \cup {p.task} /\ rq'.failed = rq.failed
     \/ rq'.complete = rq.complete /\ rq'.failed = rq.failed \cup {p.task}

(* The exit code of a real task completes it or fails it. *)
LEMMA ReadFinishes ==
  ASSUME TypeOK, Started, NEW p \in procs, ReadExit(p)
  PROVE  (RqSame /\ rq'.failed = rq.failed) \/ Finishes(p)
<1>1. rq \in RqType /\ p.task \in Tasks /\ p.scene \in BOOLEAN
  BY GraphAssumption DEF TypeOK, ProcType
<1>2. procs' = procs \ {p}
  BY DEF ReadExit
<1>3. CASE rq' = rq \/ rq' = [rq EXCEPT !.state = "CleanUp"]
  BY <1>1, <1>3 DEF RqSame, RqType
<1>4. ASSUME p.task \notin sq.live PROVE p \in RealProcs
  BY <1>1, <1>4 DEF Started, SceneProcs, RealProcs
<1>5. CASE p.task \notin sq.live /\ rq' = TaskComplete(rq, p.task)
  <2>1. rq'.failed = rq.failed
    BY <1>1, <1>5 DEF TaskComplete, TaskCompleteOutright, RqType
  <2> QED BY <1>1, <1>2, <1>4, <1>5, <2>1, EndsComplete DEF Finishes
<1>6. CASE p.task \notin sq.live /\ rq' = TaskFail(rq, p.task)
  <2>1. rq'.failed = rq.failed \cup {p.task}
    BY <1>1, <1>6 DEF TaskFail, RqType
  <2> QED BY <1>1, <1>2, <1>4, <1>6, <2>1, EndsComplete DEF Finishes
<1> QED BY <1>3, <1>5, <1>6 DEF ReadExit

(* The scheduler launches one task. *)
LEMMA TaskLaunches ==
  ASSUME TypeOK, NEW t \in Tasks, TaskSkipped(t) \/ TaskNoExec(t) \/ TaskRun(t)
  PROVE  Launches(t)
<1>1. rq \in RqType
  BY DEF TypeOK
<1>2. Starts(t)
  BY TaskStarts
<1>3. t \in rq.buildable
  BY <1>2 DEF Starts, TaskCandidates
<1>4. rq'.failed = rq.failed
  <2>1. CASE TaskSkipped(t)
    <3> DEFINE r == TaskSkip(rq, t)
    <3>1. r \in RqType
      BY <1>1, TaskSkipType
    <3>2. r.failed = rq.failed
      BY <1>1 DEF TaskSkip, TaskCompleteOutright, RqType
    <3>3. \E ran : rq' = [r EXCEPT !.tasksrun = ran]
      BY <2>1 DEF TaskSkipped
    <3> HIDE DEF r
    <3> QED BY <3>1, <3>2, <3>3 DEF RqType
  <2>2. CASE TaskNoExec(t)
    <3> DEFINE r == [rq EXCEPT !.running = @ \cup {t}, !.active = @ + 1]
    <3>1. r \in RqType /\ r.failed = rq.failed
      <4>1. r \in RqType
        BY <1>1, TaskActiveType
      <4> QED BY <1>1, <4>1 DEF RqType
    <3>2. rq' = TaskComplete(r, t)
      BY <2>2 DEF TaskNoExec
    <3> HIDE DEF r
    <3> QED BY <3>1, <3>2 DEF TaskComplete, TaskCompleteOutright, RqType
  <2>3. CASE TaskRun(t)
    BY <1>1, <2>3 DEF TaskRun, RqType
  <2> QED BY <2>1, <2>2, <2>3
<1> QED BY <1>2, <1>3, <1>4 DEF Launches

(* Nothing else moves a task, unless a migration halts the build or        *)
(* BB_SETSCENE_ENFORCE forbids a task.                                     *)
LEMMA OrderStep ==
  ASSUME NoEnforce, TypeOK, Started, NoStaleMigration, Next
  PROVE  \/ RqSame /\ rq'.failed = rq.failed
         \/ \E t \in Tasks : Launches(t)
         \/ \E p \in procs : Finishes(p)
<1>1. rq \in RqType /\ env \in EnvType
  BY DEF TypeOK
<1>2. CASE \E p \in procs : ReadExit(p)
  BY <1>2, ReadFinishes
<1>3. CASE \E t \in Tasks : TaskSkipped(t) \/ TaskNoExec(t) \/ TaskRun(t)
  BY <1>3, TaskLaunches
<1>4. CASE \E t \in Tasks : TaskForbidden(t)
  BY <1>1, <1>4 DEF TaskForbidden, Forbidden, Enforce, NoEnforce, EnvType
<1>5. CASE FinishNow \/ Finish \/ Execute \/ WaitForTasks \/ Conclude \/ WriteFails
  <2>1. \E st : rq' = [rq EXCEPT !.state = st]
    BY <1>5 DEF FinishNow, Finish, Execute, WaitForTasks, Conclude, WriteFails
  <2>2. rq'.failed = rq.failed
    BY <1>1, <2>1 DEF RqType
  <2> QED BY <1>5, <2>2, OtherRqSame
<1>6. CASE Migrate
  <2>1. \E uni, dk : MigrateReady(uni, dk)
    BY <1>6 DEF Migrate, NoStaleMigration
  <2> QED BY <2>1 DEF MigrateReady, RqSame
<1>7. CASE Settle
  <2>1. \E st : rq' = [rq EXCEPT !.buildable = SettledBuildable, !.state = st]
    BY <1>7 DEF Settle
  <2>2. rq'.failed = rq.failed
    BY <1>1, <2>1 DEF RqType
  <2> QED BY <1>7, <2>2, OtherRqSame
<1>8. ASSUME NEW t \in Tasks, TaskSpawnFails(t) PROVE RqSame /\ rq'.failed = rq.failed
  BY <1>1, <1>8 DEF TaskSpawnFails, RqSame, RqType
<1>9. CASE \/ Teardown \/ ReadDone \/ MigrateNothing
           \/ \E s \in Setscene : SceneSkip(s) \/ SceneFailOutright(s) \/ SceneRun(s)
           \/ SceneNone \/ TaskNone \/ ForceDeferred
           \/ \E p \in procs : WorkerExit(p) \/ ReadUnihash(p)
           \/ WorkerDies \/ StopRequest \/ Ended
  <2>1. rq' = rq
    BY <1>9 DEF Teardown, ReadDone, MigrateNothing, SceneSkip, SceneFailOutright, SceneRun,
       SceneNone, TaskNone, ForceDeferred, WorkerExit, ReadUnihash,
       WorkerDies, StopRequest, Ended, vars
  <2> QED BY <2>1 DEF RqSame
<1> QED BY <1>2, <1>3, <1>4, <1>5, <1>6, <1>7, <1>8, <1>9 DEF Next, CookerStep

(* A failure stays over. *)
LEMMA FailuresOverStep ==
  ASSUME NoEnforce, TypeOK, Started, FailuresOver, NoStaleMigration, Next
  PROVE  /\ rq'.failed \subseteq rq'.running
         /\ \A p \in procs' : ~p.scene => p.task \notin rq'.failed
<1>1. rq'.failed \subseteq rq'.running
  <2>1. ASSUME NEW p \in procs, Finishes(p) PROVE rq'.failed \subseteq rq'.running
    BY <2>1 DEF Finishes, FailuresOver, Started
  <2> QED BY <2>1, OrderStep DEF FailuresOver, RqSame, Launches, Starts
<1>2. ASSUME NEW p \in procs', ~p.scene PROVE p.task \notin rq'.failed
  <2>1. CASE TaskRun(p.task)
    <3>1. p.task \in TaskCandidates
      BY <2>1 DEF TaskRun, MustRun
    <3>2. p.task \notin rq.running
      BY <3>1 DEF TaskCandidates
    <3>3. rq'.failed = rq.failed
      <4>1. rq \in RqType
        BY DEF TypeOK
      <4> QED BY <2>1, <4>1 DEF TaskRun, RqType
    <3> QED BY <3>2, <3>3 DEF FailuresOver
  <2>2. ASSUME NEW q \in RealProcs, q.task = p.task PROVE p.task \notin rq'.failed
    <3>1. q.task \notin rq.failed
      BY <2>2 DEF FailuresOver
    <3>2. ASSUME NEW r \in procs, Finishes(r) PROVE q.task \notin rq'.failed
      <4>1. CASE r.task # q.task
        BY <3>1, <3>2, <4>1 DEF Finishes
      <4>2. CASE r.task = q.task
        <5>1. p \in procs /\ p # r
          BY <1>2, <3>2 DEF Finishes
        <5> QED BY <1>2, <2>2, <3>2, <4>2, <5>1 DEF Finishes, RealProcs, Started, TypeOK, ProcType
      <4> QED BY <4>1, <4>2
    <3> QED BY <2>2, <3>1, <3>2, OrderStep DEF RqSame, Launches
  <2> QED BY <1>2, <2>1, <2>2, RealProcsStep
<1> QED BY <1>1, <1>2

(* Every step of the run queue is a step of TaskOrder, or none. *)
LEMMA OrderImplemented ==
  ASSUME NoEnforce, TypeOK, DepsComplete, Started, FailuresOver, NoStaleMigration, Next
  PROVE  [Order!Next]_Order!vars
<1>1. ASSUME RqSame, rq'.failed = rq.failed PROVE UNCHANGED Order!vars
  BY <1>1 DEF RqSame, Order!vars
<1>2. ASSUME NEW t \in Tasks, Launches(t) PROVE Order!Next
  <2>1. t \notin rq.running /\ Depends[t] \subseteq rq.complete
    BY <1>2 DEF Launches, Starts, TaskCandidates, DepsComplete
  <2>2. Order!Ready(t)
    BY <2>1 DEF Order!Ready
  <2>3. Order!Start(t) \/ Order!Skip(t)
    BY <1>2, <2>2 DEF Launches, Starts, Order!Start, Order!Skip
  <2> QED BY <2>3 DEF Order!Next
<1>3. ASSUME NEW p \in procs, Finishes(p) PROVE Order!Next
  <2>1. p.task \in rq.running \ (rq.complete \cup rq.failed)
    BY <1>3 DEF Finishes, Started, FailuresOver
  <2>2. Order!Succeed(p.task) \/ Order!Fail(p.task)
    BY <1>3, <2>1 DEF Finishes, Order!Succeed, Order!Fail
  <2>3. p.task \in Tasks
    BY <2>1 DEF TypeOK, RqType
  <2> QED BY <2>2, <2>3 DEF Order!Next
<1> QED BY <1>1, <1>2, <1>3, OrderStep

(* Without BB_SETSCENE_ENFORCE, and where hard dependencies meet neither   *)
(* rehashing nor deferrals, the run queue implements TaskOrder: each task  *)
(* is started at most once, after its dependencies, and completes or fails *)
(* at most once, whatever is restored, rehashed, stopped or torn down.     *)
THEOREM ImplementsTaskOrder ==
  ASSUME HardOrDeferred, NoEnforce
  PROVE  Spec => RefinesTaskOrder
<1>1. HardOrRehash
  BY DEF HardOrDeferred, HardOrRehash
<1>2. Apart => Started
  BY DEF Apart
<1>3. Init => FailuresOver /\ Order!Init
  BY DEF Init, FailuresOver, RealProcs, Order!Init
<1>4. TypeOK /\ Apart /\ NoStaleMigration /\ FailuresOver /\ [Next]_vars => FailuresOver'
  <2> SUFFICES ASSUME TypeOK, Apart, NoStaleMigration, FailuresOver, [Next]_vars
               PROVE  FailuresOver'
    OBVIOUS
  <2>1. CASE Next
    BY <1>2, <2>1, FailuresOverStep DEF FailuresOver, RealProcs
  <2>2. CASE UNCHANGED vars
    BY <2>2 DEF vars, FailuresOver, RealProcs
  <2> QED BY <2>1, <2>2
<1>5. TypeOK /\ DepsComplete /\ Apart /\ NoStaleMigration /\ FailuresOver /\ [Next]_vars
        => [Order!Next]_Order!vars
  <2> SUFFICES ASSUME TypeOK, DepsComplete, Apart, NoStaleMigration, FailuresOver, [Next]_vars
               PROVE  [Order!Next]_Order!vars
    OBVIOUS
  <2>1. CASE Next
    BY <1>2, <2>1, OrderImplemented
  <2>2. CASE UNCHANGED vars
    BY <2>2 DEF vars, Order!vars
  <2> QED BY <2>1, <2>2
<1> QED BY <1>1, <1>3, <1>4, <1>5, TypeCorrect, DepsCompleteInvariant, ApartInvariant,
           NeverTooLate, PTL DEF Spec, RefinesTaskOrder, Order!Spec

----------------------------------------------------------------------------
(* The end of the build.                                                   *)

(* Until the workers are torn down, every process of a real task is        *)
(* counted in stats.active; afterwards there are none.                     *)
Outstanding ==
  /\ env.worker = "gone" => procs = {}
  /\ pc \notin {"teardown", "end"} /\ env.worker # "gone" =>
       Cardinality(RealProcs) <= rq.active

(* What leaves the counter alone keeps it above the processes. *)
LEMMA OutstandingKept ==
  ASSUME Outstanding, rq'.active = rq.active, RealsOf(procs') = RealProcs, env'.worker = env.worker,
         pc \in {"teardown", "end"} => pc' \in {"teardown", "end"},
         env.worker = "gone" => procs' = procs
  PROVE  Outstanding'
BY DEF Outstanding, RealsOf, RealProcs

(* An exit code takes a real task out of stats.active together with its    *)
(* process.                                                                *)
LEMMA ReadOutstanding ==
  ASSUME TypeOK, Apart, IsFiniteSet(procs), Outstanding, NEW p \in procs, ReadExit(p)
  PROVE  Outstanding'
<1> USE DEF Apart
<1>1. IsFiniteSet(RealProcs) /\ Cardinality(RealProcs) \in Nat
  BY KindsFinite
<1>2. rq \in RqType /\ p.task \in Tasks /\ p.scene \in BOOLEAN /\ rq.active \in Int
  BY GraphAssumption DEF TypeOK, ProcType, RqType
<1>3. procs' = procs \ {p} /\ pc' = pc /\ env' = env
  BY DEF ReadExit
<1>4. env.worker # "gone"
  BY DEF Outstanding
<1>5. CASE p.scene
  <2>1. p.task \in sq.live
    BY <1>5 DEF Started, SceneProcs
  <2>2. rq' = rq \/ rq' = [rq EXCEPT !.state = "CleanUp"]
    BY <2>1 DEF ReadExit
  <2>3. rq'.active = rq.active
    BY <1>2, <2>2 DEF RqType
  <2>4. RealsOf(procs') = RealProcs
    BY <1>3, <1>5 DEF RealsOf, RealProcs
  <2> QED BY <1>3, <1>4, <2>3, <2>4, OutstandingKept
<1>6. CASE ~p.scene
  <2>1. p \in RealProcs
    BY <1>6 DEF RealProcs
  <2>2. p.task \notin sq.live
    BY <2>1 DEF Started, Untouched, Idle
  <2>3. rq' = TaskComplete(rq, p.task) \/ rq' = TaskFail(rq, p.task)
    BY <2>2 DEF ReadExit
  <2>4. rq'.active = Decrement(rq.active)
    <3>1. TaskComplete(rq, p.task).active = Decrement(rq.active)
      BY <1>2 DEF TaskComplete, TaskCompleteOutright, RqType
    <3>2. TaskFail(rq, p.task).active = Decrement(rq.active)
      BY <1>2 DEF TaskFail, RqType
    <3> QED BY <2>3, <3>1, <3>2
  <2>5. RealsOf(procs') = RealProcs \ {p}
    BY <1>3 DEF RealsOf, RealProcs
  <2>6. Cardinality(RealsOf(procs')) = Cardinality(RealProcs) - 1
    BY ONLY <1>1, <2>1, <2>5, FS_RemoveElement
  <2>7. Cardinality(RealProcs) # 0
    BY ONLY <1>1, <2>1, FS_EmptySet
  <2>8. ASSUME Cardinality(RealProcs) <= rq.active
        PROVE  Cardinality(RealsOf(procs')) <= rq'.active
    <3>1. rq.active \in Nat \ {0}
      BY ONLY <1>1, <1>2, <2>7, <2>8
    <3>2. rq'.active = rq.active - 1
      BY <2>4, <3>1, DecrementExact
    <3> QED BY ONLY <1>1, <1>2, <2>6, <2>8, <3>2
  <2>9. RealProcs' = RealsOf(procs')
    BY DEF RealsOf, RealProcs
  <2> QED BY <1>3, <1>4, <2>8, <2>9 DEF Outstanding
<1> QED BY <1>2, <1>5, <1>6

(* Every process of a real task stays counted. *)
LEMMA OutstandingStep ==
  ASSUME HardOrRehash, NoEnforce, TypeOK, Apart, Counts, Outstanding, Next
  PROVE  Outstanding'
<1> USE DEF Apart
<1>1. rq \in RqType /\ env \in EnvType /\ sq \in SqType /\ rq.active \in Int
  BY DEF TypeOK, RqType
<1>2. IsFiniteSet(RealProcs) /\ Cardinality(RealProcs) \in Nat
  BY KindsFinite DEF Counts
<1>3. ~\E t \in Tasks : TaskForbidden(t)
  BY <1>1 DEF NoEnforce, EnvType, TaskForbidden, Forbidden, Enforce
<1>4. RealsOf(procs) = RealProcs
  BY DEF RealsOf, RealProcs
<1>5. ASSUME NEW s \in Setscene, SceneRun(s) PROVE Outstanding'
  <2>1. procs' = procs \cup {[task |-> s, scene |-> TRUE, status |-> "running"]}
    BY <1>5 DEF SceneRun
  <2>2. RealsOf(procs') = RealProcs
    BY <2>1 DEF RealsOf, RealProcs
  <2>3. rq' = rq /\ env' = env /\ env.worker = "up" /\ pc = "scene"
    BY <1>5 DEF SceneRun
  <2> QED BY <2>2, <2>3, OutstandingKept
<1>6. ASSUME NEW t \in Tasks, TaskRun(t) PROVE Outstanding'
  <2> DEFINE n == [task |-> t, scene |-> FALSE, status |-> "running"]
  <2>1. procs' = procs \cup {n}
    BY <1>6 DEF TaskRun
  <2>2. rq'.active = rq.active + 1
    BY <1>1, <1>6 DEF TaskRun, RqType
  <2>3. n.scene = FALSE /\ n.task = t
    OBVIOUS
  <2>4. t \notin rq.running
    BY <1>6 DEF TaskRun, MustRun, TaskCandidates
  <2> HIDE DEF n
  <2>5. RealsOf(procs') = RealProcs \cup {n} /\ n \notin RealProcs
    BY <2>1, <2>3, <2>4 DEF RealsOf, RealProcs, Started
  <2>6. Cardinality(RealsOf(procs')) = Cardinality(RealProcs) + 1
    BY ONLY <1>2, <2>5, FS_AddElement
  <2>7. pc = "task" /\ env.worker = "up" /\ env' = env
    BY <1>6 DEF TaskRun, MustRun
  <2>8. Cardinality(RealProcs) <= rq.active
    BY <2>7 DEF Outstanding
  <2>9. Cardinality(RealsOf(procs')) <= rq'.active
    BY ONLY <1>1, <1>2, <2>2, <2>6, <2>8
  <2>10. RealProcs' = RealsOf(procs')
    BY DEF RealsOf, RealProcs
  <2> QED BY <2>7, <2>9, <2>10 DEF Outstanding
<1>7. ASSUME NEW p \in procs, WorkerExit(p) PROVE Outstanding'
  <2>1. Cardinality(RealsOf(procs')) = Cardinality(RealProcs)
    BY <1>7, EndCounts
  <2>2. pc' = pc /\ rq' = rq /\ env' = env /\ env.worker = "up"
    BY <1>7 DEF WorkerExit
  <2>3. RealProcs' = RealsOf(procs')
    BY DEF RealsOf, RealProcs
  <2> QED BY <2>1, <2>2, <2>3 DEF Outstanding
<1>8. CASE Teardown \/ WriteFails
  <2>1. procs' = {} /\ env'.worker = "gone"
    BY <1>1, <1>8 DEF Teardown, WriteFails, EnvType
  <2> QED BY <2>1 DEF Outstanding
<1>9. CASE WorkerDies
  <2>1. procs' \in SUBSET procs /\ pc' = pc /\ rq' = rq /\ env.worker = "up" /\ env'.worker = "dead"
    BY <1>1, <1>9 DEF WorkerDies, EnvType
  <2>2. RealsOf(procs') \in SUBSET RealProcs
    BY <2>1 DEF RealsOf, RealProcs
  <2>3. /\ Cardinality(RealsOf(procs')) \in Nat
        /\ Cardinality(RealsOf(procs')) <= Cardinality(RealProcs)
    <3>1. /\ IsFiniteSet(RealsOf(procs'))
          /\ Cardinality(RealsOf(procs')) <= Cardinality(RealProcs)
      BY ONLY <1>2, <2>2, FS_Subset
    <3> QED BY ONLY <3>1, FS_CardinalityType
  <2>4. Cardinality(RealProcs) <= rq.active => Cardinality(RealsOf(procs')) <= rq'.active
    BY <1>1, <1>2, <2>1, <2>3
  <2>5. RealProcs' = RealsOf(procs')
    BY DEF RealsOf, RealProcs
  <2> QED BY <2>1, <2>4, <2>5 DEF Outstanding
<1>10. ASSUME NEW t \in Tasks, TaskSkipped(t) \/ TaskNoExec(t) PROVE Outstanding'
  <2>1. procs' = procs /\ env' = env /\ pc = "task"
    BY <1>10 DEF TaskSkipped, TaskNoExec, MustRun
  <2>2. CASE env.worker = "gone"
    BY <2>1, <2>2 DEF Outstanding
  <2>3. CASE env.worker # "gone"
    <3>1. Cardinality(RealProcs) <= rq.active
      BY <2>1, <2>3 DEF Outstanding
    <3>2. rq.active \in Nat
      BY ONLY <1>1, <1>2, <3>1
    <3>3. rq'.active = rq.active
      BY <1>10, <3>2, SkipCounts DEF CountsSame
    <3> QED BY <1>4, <2>1, <3>3, OutstandingKept
  <2> QED BY <2>2, <2>3
<1>11. CASE \/ FinishNow \/ Finish \/ Execute \/ ReadDone \/ MigrateNothing \/ Migrate
            \/ \E s \in Setscene : SceneSkip(s) \/ SceneFailOutright(s)
            \/ SceneNone \/ Settle \/ TaskNone \/ WaitForTasks \/ ForceDeferred \/ Conclude
            \/ \E p \in procs : ReadUnihash(p)
            \/ StopRequest \/ Ended
  <2>1. procs' = procs
    BY <1>11 DEF FinishNow, Finish, Execute, ReadDone, MigrateNothing, Migrate, SceneSkip,
       SceneFailOutright, SceneNone, Settle, TaskNone, WaitForTasks, ForceDeferred, Conclude,
       ReadUnihash, StopRequest, Ended, vars
  <2>2. pc \in {"teardown", "end"} => pc' = pc
    <3>1. CASE ReadDone \/ (\E p \in procs : ReadUnihash(p)) \/ StopRequest \/ Ended
      BY <3>1 DEF ReadDone, ReadUnihash, StopRequest, Ended, vars
    <3>2. CASE \/ FinishNow \/ Finish \/ Execute \/ MigrateNothing \/ Migrate
               \/ \E s \in Setscene : SceneSkip(s) \/ SceneFailOutright(s)
               \/ SceneNone \/ Settle \/ TaskNone \/ WaitForTasks \/ ForceDeferred \/ Conclude
      <4>1. pc \in {"top", "migrate", "scene", "settle", "task", "wait"}
        BY <3>2 DEF FinishNow, Finish, Execute, MigrateNothing, Migrate, SceneSkip,
           SceneFailOutright, SceneNone, Settle, TaskNone, WaitForTasks, ForceDeferred, Conclude,
           NothingLives
      <4> QED BY <4>1
    <3> QED BY <1>11, <3>1, <3>2
  <2>3. env' = env \/ \E s : env' = [env EXCEPT !.stop = s]
    BY <1>11 DEF FinishNow, Finish, Execute, ReadDone, MigrateNothing, Migrate, SceneSkip,
       SceneFailOutright, SceneNone, Settle, TaskNone, WaitForTasks, ForceDeferred, Conclude,
       ReadUnihash, StopRequest, Ended, vars
  <2>4. env'.worker = env.worker
    BY <1>1, <2>3 DEF EnvType
  <2>5. rq'.active = rq.active
    <3>1. CASE FinishNow \/ Finish \/ Execute \/ WaitForTasks \/ Conclude
      <4>1. \E st : rq' = [rq EXCEPT !.state = st]
        BY <3>1 DEF FinishNow, Finish, Execute, WaitForTasks, Conclude
      <4> QED BY <1>1, <4>1 DEF RqType
    <3>2. CASE Migrate
      <4>1. \E uni, dk : MigrateReady(uni, dk) \/ HaltMigration(uni, dk)
        BY <3>2 DEF Migrate
      <4>2. rq' = rq \/ \E t : rq' = [rq EXCEPT !.failed = @ \cup {t}, !.state = "CleanUp"]
        BY <4>1 DEF MigrateReady, HaltMigration
      <4> QED BY <1>1, <4>2 DEF RqType
    <3>3. CASE Settle
      <4>1. \E st : rq' = [rq EXCEPT !.buildable = SettledBuildable, !.state = st]
        BY <3>3 DEF Settle
      <4> QED BY <1>1, <4>1 DEF RqType
    <3>4. CASE \/ ReadDone \/ MigrateNothing
               \/ \E s \in Setscene : SceneSkip(s) \/ SceneFailOutright(s)
               \/ SceneNone \/ TaskNone \/ ForceDeferred
               \/ \E p \in procs : ReadUnihash(p)
               \/ StopRequest \/ Ended
      BY <3>4 DEF ReadDone, MigrateNothing, SceneSkip, SceneFailOutright, SceneNone, TaskNone,
         ForceDeferred, ReadUnihash, StopRequest, Ended, vars
    <3> QED BY <1>11, <3>1, <3>2, <3>3, <3>4
  <2> QED BY <1>4, <2>1, <2>4, <2>5, <2>2, OutstandingKept
<1>12. ASSUME NEW t \in Tasks, TaskSpawnFails(t) PROVE Outstanding'
  BY <1>12 DEF TaskSpawnFails, Outstanding
<1>13. ASSUME NEW p \in procs, ReadExit(p) PROVE Outstanding'
  BY <1>13, ReadOutstanding DEF Counts
<1> QED BY <1>3, <1>5, <1>6, <1>7, <1>8, <1>9, <1>10, <1>11, <1>12, <1>13 DEF Next, CookerStep

(* Nothing is outstanding when nothing is counted. *)
LEMMA UncountedIdle ==
  ASSUME TypeOK, Started, IsFiniteSet(procs), Outstanding, pc \notin {"teardown", "end"},
         rq.active <= 0, sq.live = {}
  PROVE  procs = {}
<1>1. CASE env.worker = "gone"
  BY <1>1 DEF Outstanding
<1>2. CASE env.worker # "gone"
  <2>1. IsFiniteSet(RealProcs) /\ Cardinality(RealProcs) \in Nat
    BY KindsFinite
  <2>2. rq.active \in Int /\ Cardinality(RealProcs) <= rq.active
    BY <1>2 DEF Outstanding, TypeOK, RqType
  <2>3. Cardinality(RealProcs) = 0
    BY ONLY <2>1, <2>2, rq.active <= 0
  <2>4. RealProcs = {}
    BY ONLY <2>1, <2>3, FS_EmptySet
  <2>5. SceneProcs = {}
    BY DEF Started
  <2> QED BY <2>4, <2>5 DEF RealProcs, SceneProcs
<1> QED BY <1>1, <1>2

(* A step that ends the build in order finds nothing outstanding. *)
LEMMA ConcludesStep ==
  ASSUME TypeOK, Started, IsFiniteSet(procs), Outstanding, Next,
         pc \in {"top", "wait"}, pc' = "teardown", env.stop # "force"
  PROVE  procs = {}
<1>1. CASE Finish
  <2>1. ~(rq.active + Cardinality(sq.live) > 0)
    BY <1>1 DEF Finish
  <2>2. IsFiniteSet(sq.live) /\ Cardinality(sq.live) \in Nat /\ rq.active \in Int
    BY LiveFinite DEF TypeOK, RqType
  <2>3. rq.active <= 0
    BY ONLY <2>1, <2>2
  <2>4. CASE env.worker = "gone"
    BY <2>4 DEF Outstanding
  <2>5. CASE env.worker # "gone"
    <3>1. IsFiniteSet(RealProcs) /\ Cardinality(RealProcs) \in Nat
      BY KindsFinite
    <3>2. Cardinality(RealProcs) <= rq.active
      BY <2>5 DEF Outstanding
    <3>3. Cardinality(sq.live) = 0
      BY ONLY <2>1, <2>2, <3>1, <3>2
    <3>4. sq.live = {}
      BY ONLY <2>2, <3>3, FS_EmptySet
    <3> QED BY <2>3, <3>4, UncountedIdle
  <2> QED BY <2>4, <2>5
<1>2. CASE ForceDeferred \/ Conclude
  BY <1>2, UncountedIdle DEF ForceDeferred, Conclude, NothingLives
<1>3. CASE ~(Finish \/ ForceDeferred \/ Conclude)
  BY <1>3 DEF Next, CookerStep, FinishNow, Execute, Teardown, ReadExit, ReadDone, MigrateNothing,
     Migrate, SceneSkip, SceneFailOutright, SceneRun, SceneNone, Settle, TaskForbidden,
     TaskSkipped, TaskNoExec, TaskSpawnFails, TaskRun, TaskNone, WriteFails, WaitForTasks,
     MustRun, WorkerExit, ReadUnihash, WorkerDies, StopRequest, Ended, vars
<1> QED BY <1>1, <1>2, <1>3

(* Without BB_SETSCENE_ENFORCE, which counts down for tasks that never ran, *)
(* a build does not conclude, nor does an orderly stop end it, while a     *)
(* task process is outstanding.                                            *)
THEOREM ConcludesInOrder ==
  ASSUME HardOrRehash, NoEnforce
  PROVE  Spec => ConcludesIdle
<1>1. EnforceHalts
  BY DEF NoEnforce, EnforceHalts
<1>2. Apart => Started
  BY DEF Apart
<1>3. Counts => IsFiniteSet(procs)
  BY DEF Counts
<1>4. Init => Outstanding
  <2> SUFFICES ASSUME Init PROVE Outstanding
    OBVIOUS
  <2>1. procs = {} /\ rq.active = 0 /\ RealProcs = {}
    BY DEF Init, RealProcs
  <2>2. Cardinality({}) = 0
    BY ONLY FS_EmptySet
  <2> QED BY <2>1, <2>2 DEF Outstanding
<1>5. TypeOK /\ Apart /\ Counts /\ Outstanding /\ [Next]_vars => Outstanding'
  <2> SUFFICES ASSUME TypeOK, Apart, Counts, Outstanding, [Next]_vars PROVE Outstanding'
    OBVIOUS
  <2>1. CASE Next
    BY <2>1, OutstandingStep
  <2>2. CASE UNCHANGED vars
    BY <2>2 DEF vars, Outstanding, RealProcs
  <2> QED BY <2>1, <2>2
<1>6. TypeOK /\ Apart /\ Counts /\ Outstanding /\ [Next]_vars
        => [(pc \in {"top", "wait"} /\ pc' = "teardown" /\ env.stop # "force") => (procs = {})]_vars
  BY <1>2, <1>3, ConcludesStep
<1> QED BY <1>1, <1>4, <1>5, <1>6, CountsInvariant, ApartInvariant, TypeCorrect,
           PTL DEF Spec, ConcludesIdle

----------------------------------------------------------------------------
(* What a restored task is built on.                                       *)

(* The tasks whose stamps make restoring them pointless. *)
Stamped(dk) == dk.scene \cup RecursivelyCurrent(dk)

(* The disk agrees with the scene queue for as long as there are workers:  *)
(* a setscene stamp is that of a covered task, or of one whose exit code   *)
(* was not read; what is being built was not current.                      *)
DiskTold ==
  env.worker # "gone" =>
    /\ disk.scene \subseteq sq.covered \cup {p.task : p \in {q \in SceneProcs : q.status = "ok"}}
    /\ \A p \in RealProcs : p.status = "running" => ~StampCurrent(disk, p.task)

(* A task that could not be restored takes along those that hard-depend on *)
(* it, except where these are stamped; what is restored has all its hard   *)
(* dependencies restored.                                                  *)
HardOver ==
  /\ NoExec \cap Setscene \subseteq sq.covered
  /\ env.worker # "gone" =>
       \A w \in sq.notcovered : HardChildren[w] \subseteq Decided(sq) \cup Stamped(disk)
  /\ \A w \in Setscene, s \in sq.live : s \in HardChildren[w] => w \in sq.covered

(* FailClosure takes along every hard child it does not spare. *)
LEMMA FailClosureClosed ==
  ASSUME NEW q, NEW t, NEW dk, NEW u \in FailClosure(q, t, dk), NEW c \in HardChildren[u]
  PROVE  c \in FailClosure(q, t, dk) \cup Decided(q) \cup NoExec \cup Stamped(dk)
<1> DEFINE spared == q.covered \cup q.notcovered \cup NoExec \cup dk.scene \cup RecursivelyCurrent(dk)
           closed(U) == t \in U /\ \A x \in U : HardChildren[x] \ spared \subseteq U
<1>1. FailClosure(q, t, dk) = {s \in Setscene : \A U \in SUBSET Setscene : closed(U) => s \in U}
  BY DEF FailClosure
<1>2. u \in Setscene /\ c \in Setscene
  BY <1>1, GraphAssumption
<1>3. ASSUME c \notin spared, NEW U \in SUBSET Setscene, closed(U) PROVE c \in U
  BY <1>1, <1>3
<1>4. c \notin spared => c \in FailClosure(q, t, dk)
  <2> HIDE DEF closed, spared
  <2> QED BY <1>1, <1>2, <1>3
<1> QED BY <1>4 DEF Decided, Stamped

(* The stamp of a task that is made where it was not current, and had no   *)
(* setscene stamp, makes no other stamp pointless.                         *)
LEMMA MakeStampKeeps ==
  ASSUME NEW dk \in DiskType, NEW t \in Tasks, t \notin dk.scene, ~StampCurrent(dk, t)
  PROVE  Stamped(dk) \subseteq Stamped(MakeStamp(dk, t))
<1> DEFINE d == MakeStamp(dk, t)
<1>1. /\ d.scene = dk.scene /\ d.real[t] = 2
      /\ \A x \in Tasks \ {t} : d.real[x] = dk.real[x]
  BY DEF MakeStamp, DiskType
<1> HIDE DEF d
<1>2. ASSUME NEW s \in RecursivelyCurrent(dk) PROVE s \in RecursivelyCurrent(d)
  <2>1. s \in Setscene
    BY DEF RecursivelyCurrent
  <2>2. PICK C \in SUBSET Tasks :
          /\ s \in C
          /\ \A x \in C : /\ StampCurrent(dk, x)
                          /\ {y \in Depends[x] \ dk.scene : Recipe[y] = Recipe[x]} \subseteq C
    BY DEF RecursivelyCurrent
  <2>3. t \notin C
    BY <2>2
  <2>4. ASSUME NEW x \in C PROVE StampCurrent(d, x)
    <3>1. x \in Tasks /\ Depends[x] \subseteq Tasks /\ d.real[x] = dk.real[x]
      BY <1>1, <2>3, GraphAssumption
    <3>2. StampCurrent(dk, x) /\ {y \in Depends[x] \ dk.scene : Recipe[y] = Recipe[x]} \subseteq C
      BY <2>2
    <3>3. ASSUME NEW y \in Depends[x]
          PROVE  \/ y \in d.scene
                 \/ Recipe[y] # Recipe[x]
                 \/ d.real[y] > 0 /\ d.real[x] >= d.real[y]
      <4>1. y \in dk.scene \/ Recipe[y] # Recipe[x] \/ y \in C
        BY <3>2
      <4>2. ASSUME y \in C, y \notin dk.scene, Recipe[y] = Recipe[x]
            PROVE  d.real[y] > 0 /\ d.real[x] >= d.real[y]
        <5>1. d.real[y] = dk.real[y]
          BY <1>1, <2>3, <4>2
        <5>2. dk.real[y] > 0 /\ dk.real[x] >= dk.real[y]
          BY <3>2, <4>2 DEF StampCurrent
        <5> QED BY <3>1, <5>1, <5>2
      <4> QED BY <1>1, <4>1, <4>2
    <3>4. d.real[x] > 0 /\ x \notin NoStamp
      BY <3>1, <3>2 DEF StampCurrent
    <3> QED BY <3>3, <3>4 DEF StampCurrent
  <2>5. \A x \in C : {y \in Depends[x] \ d.scene : Recipe[y] = Recipe[x]} \subseteq C
    BY <1>1, <2>2
  <2> QED BY <2>1, <2>2, <2>4, <2>5 DEF RecursivelyCurrent
<1>3. Stamped(dk) \subseteq Stamped(d)
  BY <1>1, <1>2 DEF Stamped
<1> QED BY <1>3 DEF d

(* Neither does a setscene stamp. *)
LEMMA SceneStampKeeps ==
  ASSUME NEW dk \in DiskType, NEW T \in SUBSET Setscene
  PROVE  Stamped(dk) \subseteq Stamped([dk EXCEPT !.scene = @ \cup T])
<1> DEFINE d == [dk EXCEPT !.scene = @ \cup T]
<1>1. d.scene = dk.scene \cup T /\ d.real = dk.real
  BY DEF DiskType
<1> HIDE DEF d
<1>2. \A x \in Tasks : StampCurrent(dk, x) => StampCurrent(d, x)
  BY <1>1 DEF StampCurrent
<1>3. ASSUME NEW s \in RecursivelyCurrent(dk) PROVE s \in RecursivelyCurrent(d)
  <2>1. PICK C \in SUBSET Tasks :
          /\ s \in C
          /\ \A x \in C : /\ StampCurrent(dk, x)
                          /\ {y \in Depends[x] \ dk.scene : Recipe[y] = Recipe[x]} \subseteq C
    BY DEF RecursivelyCurrent
  <2>2. \A x \in C : /\ StampCurrent(d, x)
                     /\ {y \in Depends[x] \ d.scene : Recipe[y] = Recipe[x]} \subseteq C
    BY <1>1, <1>2, <2>1
  <2>3. s \in Setscene
    BY DEF RecursivelyCurrent
  <2> QED BY <2>1, <2>2, <2>3 DEF RecursivelyCurrent
<1>4. Stamped(dk) \subseteq Stamped(d)
  BY <1>1, <1>3 DEF Stamped
<1> QED BY <1>4 DEF d

(* The currency of a task only depends on the stamps of its recipe that it *)
(* looks at: its own and those of its dependencies.                        *)
LEMMA CurrentSame ==
  ASSUME NEW d, NEW dk, NEW t, d.real[t] = dk.real[t],
         \A y \in Depends[t] : d.real[y] = dk.real[y] /\ (y \in d.scene <=> y \in dk.scene)
  PROVE  StampCurrent(d, t) <=> StampCurrent(dk, t)
BY DEF StampCurrent

(* A process that runs was there before, or has just been started. *)
LEMMA RunsBefore ==
  ASSUME TypeOK, Next, NEW p \in procs', p.status = "running"
  PROVE  \/ p \in procs /\ ~WorkerExit(p)
         \/ ~p.scene /\ TaskRun(p.task)
         \/ p.scene /\ \E s \in Setscene : SceneRun(s) /\ p.task = s
<1>1. procs \subseteq ProcType
  BY DEF TypeOK
<1>2. ASSUME NEW q \in procs, WorkerExit(q) PROVE p \in procs /\ p # q
  <2>1. PICK status \in {"ok", "fail"} : procs' = (procs \ {q}) \cup {[q EXCEPT !.status = status]}
    BY <1>2 DEF WorkerExit
  <2>2. [q EXCEPT !.status = status].status = status
    BY <1>1 DEF ProcType
  <2> QED BY <2>1, <2>2
<1>3. ASSUME p \in procs, WorkerExit(p) PROVE FALSE
  BY <1>2, <1>3
<1>4. ASSUME NEW s \in Setscene, SceneRun(s)
      PROVE  p \in procs \/ (p.scene /\ p.task = s)
  <2>1. procs' = procs \cup {[task |-> s, scene |-> TRUE, status |-> "running"]}
    BY <1>4 DEF SceneRun
  <2> QED BY <2>1
<1>5. ASSUME NEW t \in Tasks, TaskRun(t)
      PROVE  p \in procs \/ (~p.scene /\ p.task = t)
  <2>1. procs' = procs \cup {[task |-> t, scene |-> FALSE, status |-> "running"]}
    BY <1>5 DEF TaskRun
  <2> QED BY <2>1
<1>6. ASSUME \/ \E q \in procs : ReadExit(q) \/ ReadUnihash(q)
             \/ FinishNow \/ Finish \/ Execute \/ Teardown \/ ReadDone \/ MigrateNothing \/ Migrate
             \/ \E s \in Setscene : SceneSkip(s) \/ SceneFailOutright(s)
             \/ SceneNone \/ Settle
             \/ \E t \in Tasks : \/ TaskForbidden(t) \/ TaskSkipped(t) \/ TaskNoExec(t)
                                 \/ TaskSpawnFails(t)
             \/ TaskNone \/ WriteFails \/ WaitForTasks \/ ForceDeferred \/ Conclude
             \/ WorkerDies \/ StopRequest \/ Ended
      PROVE  p \in procs
  BY <1>6 DEF ReadExit, ReadUnihash, FinishNow, Finish, Execute, Teardown, ReadDone,
     MigrateNothing, Migrate, SceneSkip, SceneFailOutright, SceneNone, Settle, TaskForbidden,
     TaskSkipped, TaskNoExec, TaskSpawnFails, TaskNone, WriteFails, WaitForTasks, ForceDeferred,
     Conclude, WorkerDies, StopRequest, Ended, vars
<1> QED BY <1>2, <1>3, <1>4, <1>5, <1>6 DEF Next, CookerStep

(* Workers that are gone do not come back. *)
LEMMA WorkersBefore ==
  ASSUME TypeOK, Next, env'.worker # "gone"
  PROVE  env.worker # "gone"
<1>1. env \in EnvType
  BY DEF TypeOK
<1>2. \/ env' = env
      \/ \E s : env' = [env EXCEPT !.stop = s]
      \/ env' = [env EXCEPT !.worker = "gone"]
      \/ WorkerDies
  <2>1. CASE Teardown \/ WriteFails
    BY <2>1 DEF Teardown, WriteFails
  <2>2. CASE StopRequest
    BY <2>2 DEF StopRequest
  <2>3. CASE \/ FinishNow \/ Finish \/ Execute \/ ReadDone \/ MigrateNothing \/ Migrate
             \/ \E s \in Setscene : SceneSkip(s) \/ SceneFailOutright(s) \/ SceneRun(s)
             \/ SceneNone \/ Settle
             \/ \E t \in Tasks : \/ TaskForbidden(t) \/ TaskSkipped(t) \/ TaskNoExec(t)
                                 \/ TaskSpawnFails(t) \/ TaskRun(t)
             \/ TaskNone \/ WaitForTasks \/ ForceDeferred \/ Conclude
             \/ \E p \in procs : ReadExit(p) \/ WorkerExit(p) \/ ReadUnihash(p)
             \/ Ended
    BY <2>3 DEF FinishNow, Finish, Execute, ReadDone, MigrateNothing, Migrate, SceneSkip,
       SceneFailOutright, SceneRun, SceneNone, Settle, TaskForbidden, TaskSkipped, TaskNoExec,
       TaskSpawnFails, TaskRun, TaskNone, WaitForTasks, ForceDeferred, Conclude, ReadExit,
       WorkerExit, ReadUnihash, Ended, vars
  <2> QED BY <2>1, <2>2, <2>3 DEF Next, CookerStep
<1> QED BY <1>1, <1>2 DEF EnvType, WorkerDies

(* Where nothing migrates and nothing is deferred, stamps are only made by *)
(* a process that ends and by a task without anything to execute.          *)
LEMMA DiskStep ==
  ASSUME TypeOK, ~Migrate, DOMAIN sq.deferred = {}, Next
  PROVE  \/ disk' = disk
         \/ \E p \in SceneProcs : /\ WorkerExit(p)
                                  /\ disk' = [disk EXCEPT !.scene = @ \cup {p.task}]
                                  /\ [p EXCEPT !.status = "ok"] \in procs'
         \/ \E p \in RealProcs : WorkerExit(p) /\ disk' = MakeStamp(disk, p.task)
         \/ \E t \in Tasks : TaskNoExec(t) /\ disk' = MakeStamp(disk, t)
<1>1. \A t, dk : UndeferMakesStamps(sq, t, dk) = dk
  BY DEF UndeferMakesStamps
<1>2. ASSUME NEW p \in procs, ReadExit(p) PROVE disk' = disk
  BY <1>1, <1>2 DEF ReadExit
<1>3. ASSUME NEW p \in procs, WorkerExit(p)
      PROVE  \/ disk' = disk
             \/ /\ p \in SceneProcs /\ disk' = [disk EXCEPT !.scene = @ \cup {p.task}]
                /\ [p EXCEPT !.status = "ok"] \in procs'
             \/ p \in RealProcs /\ disk' = MakeStamp(disk, p.task)
  BY <1>3 DEF WorkerExit, StampedBy, SceneProcs, RealProcs
<1>4. ASSUME NEW t \in Tasks, TaskSkipped(t) PROVE disk' = disk
  BY <1>1, <1>4 DEF TaskSkipped
<1>5. ASSUME NEW t \in Tasks, TaskNoExec(t) PROVE disk' = disk \/ disk' = MakeStamp(disk, t)
  BY <1>1, <1>5 DEF TaskNoExec
<1>6. CASE \/ FinishNow \/ Finish \/ Execute \/ Teardown \/ ReadDone \/ MigrateNothing
           \/ \E s \in Setscene : SceneSkip(s) \/ SceneFailOutright(s) \/ SceneRun(s)
           \/ SceneNone \/ Settle
           \/ \E t \in Tasks : TaskForbidden(t) \/ TaskSpawnFails(t) \/ TaskRun(t)
           \/ TaskNone \/ WriteFails \/ WaitForTasks \/ ForceDeferred \/ Conclude
           \/ \E p \in procs : ReadUnihash(p)
           \/ WorkerDies \/ StopRequest \/ Ended
  BY <1>6 DEF FinishNow, Finish, Execute, Teardown, ReadDone, MigrateNothing, SceneSkip,
     SceneFailOutright, SceneRun, SceneNone, Settle, TaskForbidden, TaskSpawnFails, TaskRun,
     TaskNone, WriteFails, WaitForTasks, ForceDeferred, Conclude, ReadUnihash, WorkerDies,
     StopRequest, Ended, vars
<1> QED BY <1>2, <1>3, <1>4, <1>5, <1>6 DEF Next, CookerStep

(* A task gets the stamp of its real variant only where it had no setscene *)
(* stamp and was not current.                                              *)
LEMMA StampsFresh ==
  ASSUME TypeOK, Apart, Exclusive, DiskTold
  PROVE  /\ \A p \in RealProcs : WorkerExit(p) =>
              p.task \in Tasks /\ p.task \notin disk.scene /\ ~StampCurrent(disk, p.task)
         /\ \A t \in Tasks : TaskNoExec(t) /\ env.worker # "gone" =>
              t \notin disk.scene /\ ~StampCurrent(disk, t)
<1> USE DEF Apart
<1>1. sq \in SqType /\ disk \in DiskType /\ procs \subseteq ProcType
  BY DEF TypeOK
<1>2. \A p \in SceneProcs : p.task \in sq.live
  BY DEF Started
<1>3. ASSUME NEW p \in RealProcs, WorkerExit(p)
      PROVE  p.task \in Tasks /\ p.task \notin disk.scene /\ ~StampCurrent(disk, p.task)
  <2>1. p.task \in rq.running /\ p.task \notin sq.covered
    BY DEF Started, Exclusive, MayCover
  <2>2. p.task \notin sq.live
    BY <2>1 DEF Untouched, Idle
  <2>3. env.worker = "up" /\ p.status = "running"
    BY <1>3 DEF WorkerExit
  <2>4. p.task \in Tasks
    BY <1>1, GraphAssumption DEF ProcType, RealProcs
  <2> QED BY <1>2, <2>1, <2>2, <2>3, <2>4 DEF DiskTold
<1>4. ASSUME NEW t \in Tasks, TaskNoExec(t), env.worker # "gone"
      PROVE  t \notin disk.scene /\ ~StampCurrent(disk, t)
  <2>1. /\ pc = "task" /\ t \notin hold.tasks /\ t \notin hold.covered
        /\ t \in hold.covered \cup hold.notcovered /\ ~StampCurrent(disk, t)
    BY <1>4 DEF TaskNoExec, MustRun, TaskCandidates
  <2>2. ~sq.need_update
    BY <2>1 DEF Fresh
  <2>3. t \notin Setscene \/ t \notin sq.covered
    BY <2>1, <2>2 DEF Exclusive, ToRun, MayCover
  <2>4. t \notin sq.live
    <3>1. sq.live \subseteq sq.buildable \ Decided(sq)
      BY DEF SqDecided
    <3>2. \A s \in sq.buildable \ Decided(sq) : s \in hold.tasks
      BY <2>2 DEF Fresh, HeldOffUndecided, Around
    <3> QED BY <2>1, <3>1, <3>2
  <2>5. disk.scene \subseteq Setscene
    BY <1>1 DEF DiskType
  <2> QED BY <1>2, <1>4, <2>1, <2>3, <2>4, <2>5 DEF DiskTold
<1> QED BY <1>3, <1>4

(* So what is stamped stays stamped. *)
LEMMA StampedKept ==
  ASSUME TypeOK, Apart, Exclusive, DiskTold, ~Migrate, DOMAIN sq.deferred = {}, Next,
         env'.worker # "gone"
  PROVE  Stamped(disk) \subseteq Stamped(disk')
<1>1. disk \in DiskType /\ procs \subseteq ProcType
  BY DEF TypeOK
<1>2. env.worker # "gone"
  BY WorkersBefore
<1>3. ASSUME NEW p \in SceneProcs, disk' = [disk EXCEPT !.scene = @ \cup {p.task}]
      PROVE  Stamped(disk) \subseteq Stamped(disk')
  <2>1. {p.task} \in SUBSET Setscene
    BY <1>1 DEF SceneProcs, ProcType
  <2> QED BY <1>1, <1>3, <2>1, SceneStampKeeps
<1>4. ASSUME NEW p \in RealProcs, WorkerExit(p), disk' = MakeStamp(disk, p.task)
      PROVE  Stamped(disk) \subseteq Stamped(disk')
  BY <1>1, <1>4, StampsFresh, MakeStampKeeps
<1>5. ASSUME NEW t \in Tasks, TaskNoExec(t), disk' = MakeStamp(disk, t)
      PROVE  Stamped(disk) \subseteq Stamped(disk')
  BY <1>1, <1>2, <1>5, StampsFresh, MakeStampKeeps
<1> QED BY <1>3, <1>4, <1>5, DiskStep

(* Setscene stamps keep to what is covered, or about to be. *)
LEMMA SceneStampsTold ==
  ASSUME TypeOK, Apart, DiskTold, ~Migrate, DOMAIN sq.deferred = {}, sq.covered \subseteq sq'.covered,
         Next, env'.worker # "gone"
  PROVE  disk'.scene \subseteq
           sq'.covered \cup {p.task : p \in {q \in ScenesOf(procs') : q.status = "ok"}}
<1> DEFINE done(u) == u \in sq'.covered \/ \E p \in procs' : p.scene /\ p.status = "ok" /\ p.task = u
<1>1. disk \in DiskType /\ procs \subseteq ProcType /\ sq \in SqType
  BY DEF TypeOK
<1>2. env.worker # "gone"
  BY WorkersBefore
<1>3. ASSUME NEW p \in SceneProcs, p.status = "ok" PROVE done(p.task)
  <2>1. p \in procs /\ p.scene /\ p.task \in sq.live
    BY <1>3 DEF Apart, Started, SceneProcs
  <2>2. ASSUME ReadExit(p) PROVE p.task \in sq'.covered
    <3>1. sq' = [Decide(sq, {p.task}, {}) EXCEPT !.live = @ \ {p.task}]
      BY <1>3, <2>1, <2>2 DEF ReadExit
    <3>2. Decide(sq, {p.task}, {}) \in SqType
      <4>1. {p.task} \in SUBSET Setscene /\ {} \in SUBSET Setscene
        BY <1>1, <2>1 DEF SqType
      <4> QED BY <1>1, <4>1, DecideType
    <3>3. Decide(sq, {p.task}, {}).covered = sq.covered \cup {p.task}
      BY <1>1 DEF Decide, SqType
    <3> QED BY <3>1, <3>2, <3>3 DEF SqType
  <2>3. ASSUME NEW q \in procs, ReadExit(q), q # p PROVE p \in procs'
    BY <2>1, <2>3 DEF ReadExit
  <2>4. ASSUME NEW q \in procs, WorkerExit(q) PROVE p \in procs'
    BY <1>3, <2>1, <2>4 DEF WorkerExit
  <2>5. ASSUME WorkerDies PROVE p \in procs'
    BY <1>3, <2>1, <2>5 DEF WorkerDies
  <2>6. ~(Teardown \/ WriteFails)
    <3>1. env \in EnvType
      BY DEF TypeOK
    <3> QED BY <3>1 DEF Teardown, WriteFails, EnvType
  <2>7. ASSUME \/ FinishNow \/ Finish \/ Execute \/ ReadDone \/ MigrateNothing \/ Migrate
               \/ \E s \in Setscene : SceneSkip(s) \/ SceneFailOutright(s) \/ SceneRun(s)
               \/ SceneNone \/ Settle
               \/ \E t \in Tasks : \/ TaskForbidden(t) \/ TaskSkipped(t) \/ TaskNoExec(t)
                                   \/ TaskSpawnFails(t) \/ TaskRun(t)
               \/ TaskNone \/ WaitForTasks \/ ForceDeferred \/ Conclude
               \/ \E q \in procs : ReadUnihash(q)
               \/ StopRequest \/ Ended
        PROVE  p \in procs'
    <3>1. procs \subseteq procs'
      BY <2>7 DEF FinishNow, Finish, Execute, ReadDone, MigrateNothing, Migrate, SceneSkip,
         SceneFailOutright, SceneRun, SceneNone, Settle, TaskForbidden, TaskSkipped, TaskNoExec,
         TaskSpawnFails, TaskRun, TaskNone, WaitForTasks, ForceDeferred, Conclude,
         ReadUnihash, StopRequest, Ended, vars
    <3> QED BY <2>1, <3>1
  <2>8. p.task \in sq'.covered \/ p \in procs'
    BY <2>1, <2>2, <2>3, <2>4, <2>5, <2>6, <2>7 DEF Next, CookerStep
  <2> QED BY <1>3, <2>1, <2>8
<1>4. ASSUME NEW u \in disk.scene PROVE done(u)
  <2>1. u \in sq.covered \/ \E p \in SceneProcs : p.status = "ok" /\ p.task = u
    BY <1>2 DEF DiskTold
  <2> HIDE DEF done
  <2>2. u \in sq'.covered => done(u)
    BY DEF done
  <2> QED BY <1>3, <2>1, <2>2
<1>5. ASSUME NEW u \in disk'.scene PROVE done(u)
  <2>1. ASSUME NEW p \in SceneProcs, disk' = [disk EXCEPT !.scene = @ \cup {p.task}],
               [p EXCEPT !.status = "ok"] \in procs', u = p.task
        PROVE  done(u)
    <3> DEFINE n == [p EXCEPT !.status = "ok"]
    <3>1. n.scene = p.scene /\ n.task = p.task /\ n.status = "ok" /\ p.scene
      BY <1>1 DEF SceneProcs, ProcType
    <3> HIDE DEF n
    <3>2. n \in procs'
      BY <2>1 DEF n
    <3> QED BY <2>1, <3>1, <3>2
  <2>2. ASSUME NEW p \in SceneProcs, disk' = [disk EXCEPT !.scene = @ \cup {p.task}],
               [p EXCEPT !.status = "ok"] \in procs', u # p.task
        PROVE  u \in disk.scene
    BY <1>1, <1>5, <2>2 DEF DiskType
  <2>3. ASSUME NEW t, disk' = MakeStamp(disk, t) PROVE u \in disk.scene
    BY <1>1, <1>5, <2>3 DEF MakeStamp, DiskType
  <2> HIDE DEF done
  <2> QED BY <1>4, <1>5, <2>1, <2>2, <2>3, DiskStep
<1> QED BY <1>5 DEF ScenesOf

(* What is being built stays out of date until it has been built. *)
LEMMA RunningNotCurrent ==
  ASSUME TypeOK, DepsComplete, Apart, DiskTold, ~Migrate, DOMAIN sq.deferred = {}, Next,
         env'.worker # "gone", NEW p \in procs', ~p.scene, p.status = "running"
  PROVE  ~StampCurrent(disk', p.task)
<1> USE DEF Apart
<1> DEFINE t == p.task
<1>1. disk \in DiskType /\ procs \subseteq ProcType
  BY DEF TypeOK
<1>2. env.worker # "gone"
  BY WorkersBefore
<1>3. CASE TaskRun(t)
  BY <1>3 DEF TaskRun, MustRun
<1>4. CASE p \in procs /\ ~WorkerExit(p)
  <2>1. p \in RealProcs /\ t \in rq.running /\ t \in Tasks
    BY <1>1, <1>4, GraphAssumption DEF RealProcs, Started, ProcType
  <2>2. ~StampCurrent(disk, t)
    BY <1>2, <2>1 DEF DiskTold
  <2>3. Depends[t] \subseteq rq.complete /\ rq.complete \subseteq rq.running
    BY <2>1 DEF DepsComplete, Started
  <2>4. Depends[t] \subseteq Tasks
    BY <2>1, GraphAssumption
  <2>5. ASSUME NEW q \in SceneProcs, disk' = [disk EXCEPT !.scene = @ \cup {q.task}]
        PROVE  ~StampCurrent(disk', t)
    <3>1. q.task \in sq.live
      BY DEF Started
    <3>2. q.task \notin rq.running
      BY <3>1 DEF Untouched, Idle
    <3>3. disk'.real = disk.real /\ disk'.scene = disk.scene \cup {q.task}
      BY <1>1, <2>5 DEF DiskType
    <3>4. \A y \in Depends[t] : y \in disk'.scene <=> y \in disk.scene
      BY <2>3, <3>2, <3>3
    <3> QED BY <2>2, <3>3, <3>4, CurrentSame
  <2>6. ASSUME NEW u, disk' = MakeStamp(disk, u), u # t, u \notin Depends[t]
        PROVE  ~StampCurrent(disk', t)
    <3>1. /\ disk'.scene = disk.scene \ {u}
          /\ \A x \in Tasks \ {u} : disk'.real[x] = disk.real[x]
      BY <1>1, <2>6 DEF MakeStamp, DiskType
    <3> QED BY <2>1, <2>2, <2>4, <2>6, <3>1, CurrentSame
  <2>7. ASSUME NEW q \in RealProcs, WorkerExit(q) PROVE q.task # t /\ q.task \notin Depends[t]
    <3>1. q # p
      BY <1>4, <2>7
    <3>2. q \in procs /\ p \in procs /\ ~q.scene /\ q.scene \in BOOLEAN /\ p.scene \in BOOLEAN
      BY <1>1, <1>4 DEF RealProcs, ProcType
    <3>3. q.scene = p.scene
      BY <3>2
    <3>4. q.task # p.task
      BY <3>1, <3>2, <3>3 DEF Started
    <3>5. q.task \notin rq.complete
      BY <2>7 DEF Started
    <3> QED BY <2>3, <3>4, <3>5
  <2>8. ASSUME NEW u \in Tasks, TaskNoExec(u) PROVE u # t /\ u \notin Depends[t]
    BY <2>1, <2>3, <2>8 DEF TaskNoExec, MustRun, TaskCandidates
  <2> QED BY <2>2, <2>5, <2>6, <2>7, <2>8, DiskStep
<1> QED BY <1>3, <1>4, RunsBefore

(* A task that is newly found not covered takes along what hard-depends on *)
(* it and is not stamped.                                                  *)
LEMMA FailsTogether ==
  ASSUME TypeOK, SqDecided(sq), ~Migrate, Next,
         NEW w \in sq'.notcovered \ sq.notcovered, NEW c \in HardChildren[w]
  PROVE  c \in sq'.notcovered \cup Decided(sq) \cup NoExec \cup Stamped(disk)
<1>1. sq \in SqType
  BY DEF TypeOK
<1>2. ASSUME NEW q, NEW t, Decided(q) = Decided(sq),
             sq'.notcovered = sq.notcovered \cup FailClosure(q, t, disk)
      PROVE  c \in sq'.notcovered \cup Decided(sq) \cup NoExec \cup Stamped(disk)
  <2>1. w \in FailClosure(q, t, disk)
    BY <1>2
  <2>2. c \in FailClosure(q, t, disk) \cup Decided(q) \cup NoExec \cup Stamped(disk)
    BY <2>1, FailClosureClosed
  <2> QED BY <1>2, <2>2
<1>3. ASSUME NEW p \in procs, ReadExit(p)
      PROVE  c \in sq'.notcovered \cup Decided(sq) \cup NoExec \cup Stamped(disk)
  <2> DEFINE t == p.task
  <2>1. PICK avail \in SUBSET Setscene :
          \/ t \in sq.live /\ sq' = [Decide(sq, {t}, {}) EXCEPT !.live = @ \ {t}]
          \/ t \in sq.live /\ sq' = [SqTaskFail(sq, t, disk) EXCEPT !.live = @ \ {t}]
          \/ t \notin sq.live /\ sq' = Undefer(sq, t, disk, avail)
          \/ t \notin sq.live /\ sq' = sq
    BY <1>3 DEF ReadExit
  <2>2. CASE t \in sq.live /\ sq' = [Decide(sq, {t}, {}) EXCEPT !.live = @ \ {t}]
    <3>1. Decide(sq, {t}, {}) \in SqType
      <4>1. {t} \in SUBSET Setscene /\ {} \in SUBSET Setscene
        BY <1>1, <2>2 DEF SqType
      <4> QED BY <1>1, <4>1, DecideType
    <3>2. Decide(sq, {t}, {}).notcovered = sq.notcovered
      BY <1>1 DEF Decide, SqType
    <3> QED BY <2>2, <3>1, <3>2 DEF SqType
  <2>3. CASE t \in sq.live /\ sq' = [SqTaskFail(sq, t, disk) EXCEPT !.live = @ \ {t}]
    <3> DEFINE F  == FailClosure(sq, t, disk)
               q1 == [sq EXCEPT !.running = @ \cup (F \ {t}), !.buildable = @ \cup (F \ {t})]
               d  == Decide(q1, {}, F)
    <3>1. F \in SUBSET Setscene
      BY FailClosureType
    <3>2. SqTaskFail(sq, t, disk) = d
      BY DEF SqTaskFail
    <3> HIDE DEF F
    <3>3. q1 \in SqType /\ q1.notcovered = sq.notcovered
      BY <1>1, <3>1 DEF SqType
    <3> HIDE DEF q1
    <3>4. d \in SqType /\ d.notcovered = sq.notcovered \cup F
      <4>1. d \in SqType
        BY <3>1, <3>3, DecideType
      <4> QED BY <3>3, <4>1 DEF Decide, SqType
    <3> HIDE DEF d
    <3>5. sq'.notcovered = sq.notcovered \cup F
      BY <2>3, <3>2, <3>4 DEF SqType
    <3> QED BY <1>2, <3>5 DEF F
  <2>4. CASE t \notin sq.live /\ sq' = Undefer(sq, t, disk, avail)
    <3>1. PICK C \in SUBSET DOMAIN sq.deferred : Grown(sq, Undefer(sq, t, disk, avail), C, {})
      BY <1>1, UndeferGrows
    <3> QED BY <2>4, <3>1 DEF Grown
  <2> QED BY <2>1, <2>2, <2>3, <2>4
<1>4. ASSUME NEW s \in Setscene, SceneFailOutright(s)
      PROVE  c \in sq'.notcovered \cup Decided(sq) \cup NoExec \cup Stamped(disk)
  <2> DEFINE q  == DropDeferred(sq, s)
             F  == FailClosure(q, s, disk)
             q1 == [q EXCEPT !.running = @ \cup F, !.buildable = @ \cup F]
             d  == Decide(q1, {}, F)
  <2>1. q \in SqType /\ q.covered = sq.covered /\ q.notcovered = sq.notcovered
    BY <1>1, DropDeferredSame
  <2>2. sq' = SqTaskFailOutright(q, s, disk)
    BY <1>4 DEF SceneFailOutright
  <2> HIDE DEF q
  <2>3. F \in SUBSET Setscene
    BY FailClosureType
  <2>4. sq' = d
    BY <2>2 DEF SqTaskFailOutright
  <2> HIDE DEF F
  <2>5. q1 \in SqType /\ q1.notcovered = sq.notcovered
    BY <2>1, <2>3 DEF SqType
  <2> HIDE DEF q1
  <2>6. sq'.notcovered = sq.notcovered \cup F
    <3>1. d \in SqType
      BY <2>3, <2>5, DecideType
    <3> QED BY <2>4, <2>5, <3>1 DEF Decide, SqType
  <2>7. Decided(q) = Decided(sq)
    BY <2>1 DEF Decided
  <2> QED BY <1>2, <2>6, <2>7 DEF F
<1>5. ASSUME NEW s \in Setscene, SceneSkip(s) PROVE sq'.notcovered = sq.notcovered
  <2>1. s \in Setscene \ sq.running
    BY <1>5 DEF SceneSkip, SceneCandidates
  <2>2. Grown(sq, sq', {s}, {})
    BY <1>1, <1>5, <2>1, SceneSkipGrows DEF SceneSkip
  <2> QED BY <2>2 DEF Grown
<1>6. ASSUME NEW t \in Tasks, TaskSkipped(t) \/ TaskNoExec(t) PROVE sq'.notcovered = sq.notcovered
  <2>1. PICK dk : \E avail \in SUBSET Setscene : sq' = Undefer(sq, t, dk, avail)
    BY <1>6 DEF TaskSkipped, TaskNoExec
  <2>2. PICK avail \in SUBSET Setscene : sq' = Undefer(sq, t, dk, avail)
    BY <2>1
  <2>3. PICK C \in SUBSET DOMAIN sq.deferred : Grown(sq, Undefer(sq, t, dk, avail), C, {})
    BY <1>1, UndeferGrows
  <2> QED BY <2>2, <2>3 DEF Grown
<1>7. CASE ForceDeferred
  BY <1>1, <1>7, DropDeferredSame DEF ForceDeferred
<1>8. ASSUME NEW s \in Setscene, SceneRun(s) PROVE sq'.notcovered = sq.notcovered
  BY <1>8, SceneRunSends DEF Sends
<1>9. CASE Settle
  BY <1>9, SettleSame
<1>10. CASE \/ FinishNow \/ Finish \/ Execute \/ Teardown \/ ReadDone \/ MigrateNothing
            \/ SceneNone \/ TaskNone \/ WriteFails \/ WaitForTasks \/ Conclude
            \/ \E t \in Tasks : TaskForbidden(t) \/ TaskSpawnFails(t) \/ TaskRun(t)
            \/ \E p \in procs : WorkerExit(p) \/ ReadUnihash(p)
            \/ WorkerDies \/ StopRequest \/ Ended
  <2>1. sq' = sq
    BY <1>10 DEF FinishNow, Finish, Execute, Teardown, ReadDone, MigrateNothing,
       SceneNone, TaskNone, WriteFails, WaitForTasks, Conclude, TaskForbidden,
       TaskSpawnFails, TaskRun, WorkerExit, ReadUnihash, WorkerDies, StopRequest, Ended, vars
  <2> QED BY <2>1
<1> QED BY <1>3, <1>4, <1>5, <1>6, <1>7, <1>8, <1>9, <1>10 DEF Next, CookerStep

(* A setscene task is only started where what it hard-depends on is        *)
(* covered.                                                                *)
LEMMA RunsOnCovered ==
  ASSUME TypeOK, Apart, HardOver, NEW s \in Setscene, SceneRun(s), NEW w \in Setscene,
         s \in HardChildren[w]
  PROVE  w \in sq.covered
<1>1. s \in sq.buildable \ sq.running /\ s \notin Stamped(disk) /\ env.worker = "up"
  BY DEF SceneRun, Restorable, SceneCandidates, Stamped
<1>2. s \notin Decided(sq)
  BY <1>1 DEF Apart, SqDecided
<1>3. w \in Decided(sq)
  BY <1>1, <1>2 DEF Apart, SqHard
<1>4. w \notin sq.notcovered
  BY <1>1, <1>2 DEF HardOver
<1> QED BY <1>3, <1>4 DEF Decided

(* What is live was live, or is just started. *)
LEMMA LiveBefore ==
  ASSUME TypeOK, SqDecided(sq), SqHard(sq), ~Migrate, Next, NEW s \in sq'.live
  PROVE  s \in sq.live \/ (s \in Setscene /\ SceneRun(s))
<1>1. ASSUME NEW C, NEW N, Decides(C, N) PROVE s \in sq.live
  BY <1>1 DEF Decides, Grown
<1>2. ASSUME NEW r \in Setscene, SceneRun(r) PROVE s \in sq.live \/ s = r
  BY <1>2, SceneRunSends DEF Sends
<1>3. CASE Settle
  BY <1>3, SettleSame
<1> QED BY <1>1, <1>2, <1>3, SqStep

(* Decisions are not taken back where nothing migrates. *)
LEMMA DecidedKept ==
  ASSUME TypeOK, SqDecided(sq), SqHard(sq), ~Migrate, Next
  PROVE  sq' \in SqType /\ sq.covered \subseteq sq'.covered /\ Decided(sq) \subseteq Decided(sq')
<1> DEFINE kept == /\ sq' \in SqType
                   /\ sq.covered \subseteq sq'.covered /\ sq.notcovered \subseteq sq'.notcovered
<1>1. ASSUME NEW C, NEW N, Decides(C, N) PROVE kept
  BY <1>1 DEF Decides, Grown
<1>2. ASSUME NEW s \in Setscene, SceneRun(s) PROVE kept
  BY <1>2, SceneRunSends DEF Sends
<1>3. ASSUME Settle PROVE kept
  BY <1>3, SettleSame
<1>4. kept
  <2> HIDE DEF kept
  <2> QED BY <1>1, <1>2, <1>3, SqStep
<1> QED BY <1>4 DEF Decided

(* The disk keeps agreeing with the scene queue, and restored tasks keep   *)
(* their hard dependencies.                                                *)
LEMMA HardOverStep ==
  ASSUME MaxUpdates = 0, DOMAIN InitialDeferred = {},
         TypeOK, DepsComplete, Apart, Exclusive, DiskTold, HardOver, Next
  PROVE  DiskTold' /\ HardOver'
<1>1. SqDecided(sq) /\ SqHard(sq) /\ ~Migrate /\ DOMAIN sq.deferred = {}
  BY DEF Apart, NoRehash, Migrate, Exclusive, NeverDeferred
<1>2. /\ sq' \in SqType
      /\ sq.covered \subseteq sq'.covered /\ Decided(sq) \subseteq Decided(sq')
  BY <1>1, DecidedKept
<1>3. DiskTold'
  <2> SUFFICES ASSUME env'.worker # "gone"
               PROVE  /\ disk'.scene \subseteq
                           sq'.covered \cup {p.task : p \in {q \in ScenesOf(procs') : q.status = "ok"}}
                      /\ \A p \in RealsOf(procs') : p.status = "running" => ~StampCurrent(disk', p.task)
    BY DEF DiskTold, SceneProcs, RealProcs, ScenesOf, RealsOf
  <2>1. disk'.scene \subseteq
          sq'.covered \cup {p.task : p \in {q \in ScenesOf(procs') : q.status = "ok"}}
    BY <1>1, <1>2, SceneStampsTold
  <2>2. \A p \in RealsOf(procs') : p.status = "running" => ~StampCurrent(disk', p.task)
    BY <1>1, RunningNotCurrent DEF RealsOf
  <2> QED BY <2>1, <2>2
<1>4. NoExec \cap Setscene \subseteq sq'.covered
  BY <1>2 DEF HardOver
<1>5. ASSUME env'.worker # "gone", NEW w \in sq'.notcovered, NEW c \in HardChildren[w]
      PROVE  c \in Decided(sq') \cup Stamped(disk')
  <2>1. Stamped(disk) \subseteq Stamped(disk') /\ env.worker # "gone"
    BY <1>1, <1>5, StampedKept, WorkersBefore
  <2>2. CASE w \in sq.notcovered
    BY <1>2, <1>5, <2>1, <2>2 DEF HardOver
  <2>3. CASE w \notin sq.notcovered
    <3>1. c \in sq'.notcovered \cup Decided(sq) \cup NoExec \cup Stamped(disk)
      BY <1>1, <1>5, <2>3, FailsTogether
    <3>2. c \in Setscene
      <4>1. w \in Setscene
        BY <1>2, <1>5 DEF SqType
      <4> QED BY <1>5, <4>1, GraphAssumption
    <3> QED BY <1>2, <1>4, <2>1, <3>1, <3>2 DEF Decided
  <2> QED BY <2>2, <2>3
<1>6. ASSUME NEW w \in Setscene, NEW s \in sq'.live, s \in HardChildren[w]
      PROVE  w \in sq'.covered
  <2>1. CASE s \in sq.live
    BY <1>2, <1>6, <2>1 DEF HardOver
  <2>2. CASE s \in Setscene /\ SceneRun(s)
    BY <1>2, <1>6, <2>2, RunsOnCovered
  <2> QED BY <1>1, <2>1, <2>2, LiveBefore
<1>7. HardOver'
  BY <1>4, <1>5, <1>6 DEF HardOver, Decided
<1> QED BY <1>3, <1>7

(* What is looked up in the shared state is covered where it is stamped or *)
(* has nothing to execute.                                                 *)
LEMMA UpdateSceneQueueDataCovers ==
  ASSUME NEW q \in SqType, NEW T \in SUBSET Setscene, NEW dk, NEW avail
  PROVE  T \cap (NoExec \cup dk.scene) \subseteq UpdateSceneQueueData(q, T, dk, avail).covered
<1> DEFINE present == (T \ NoExec) \cap (dk.scene \cup RecursivelyCurrent(dk))
           skipped == present \cup (T \cap NoExec)
           q1      == IF skipped = {} THEN q ELSE SqTaskSkip(q, skipped)
           valid   == (q.valid \ T) \cup (avail \cap (T \ skipped))
           decided == skipped \cup valid \cup q1.covered \cup q1.notcovered \cup DOMAIN q.deferred
           r       == [q1 EXCEPT !.valid = valid, !.outrightfail = (@ \ T) \cup (T \ decided)]
<1>1. skipped \in SUBSET T /\ T \cap (NoExec \cup dk.scene) \subseteq skipped
  OBVIOUS
<1>2. UpdateSceneQueueData(q, T, dk, avail) = r
  BY DEF UpdateSceneQueueData
<1> HIDE DEF skipped
<1>3. q1 \in SqType
  BY <1>1, SqTaskSkipType
<1>4. skipped \subseteq q1.covered
  <2>1. CASE skipped = {}
    BY <2>1
  <2>2. CASE skipped # {}
    <3>1. SqTaskSkip(q, skipped).covered = q.covered \cup skipped
      BY <1>1 DEF SqTaskSkip, Decide, SqType
    <3> QED BY <2>2, <3>1
  <2> QED BY <2>1, <2>2
<1> HIDE DEF q1, valid, decided
<1>5. r.covered = q1.covered
  BY <1>3 DEF SqType
<1> QED BY <1>1, <1>2, <1>4, <1>5

(* The initial states satisfy the invariant. *)
LEMMA HardOverInit ==
  ASSUME Init
  PROVE  DiskTold /\ HardOver
<1>1. PICK old \in {S \ Tainted : S \in InitStamps}, avail \in SUBSET Setscene,
           oldscene \in {S \ Tainted : S \in InitSceneStamps} :
        LET dk == [real |-> [t \in Tasks |-> IF t \in old THEN 1 ELSE 0], scene |-> oldscene]
            q  == [buildable |-> InitialSqBuildable, running |-> {}, live |-> {},
                   covered |-> {}, notcovered |-> {}, done |-> InitialDone,
                   deferred |-> InitialDeferred, outrightfail |-> {}, valid |-> {},
                   need_update |-> TRUE, stamp |-> Restrict(InitUnihash, Setscene)]
        IN  /\ disk = MakeNoExecStamps(dk, Setscene)
            /\ sq = UpdateSceneQueueData(q, Setscene, dk, avail)
  BY DEF Init
<1> DEFINE dk == [real |-> [t \in Tasks |-> IF t \in old THEN 1 ELSE 0], scene |-> oldscene]
           q  == [buildable |-> InitialSqBuildable, running |-> {}, live |-> {},
                  covered |-> {}, notcovered |-> {}, done |-> InitialDone,
                  deferred |-> InitialDeferred, outrightfail |-> {}, valid |-> {},
                  need_update |-> TRUE, stamp |-> Restrict(InitUnihash, Setscene)]
<1>2. q \in SqType
  <2>1. Restrict(InitUnihash, Setscene) \in [Setscene -> Unihashes]
    BY GraphAssumption, ConfigAssumption DEF Restrict
  <2>2. InitialSqBuildable \subseteq Setscene /\ InitialDone \subseteq Tasks
    BY DEF InitialSqBuildable, InitialDone, Unskippable
  <2> QED BY <2>1, <2>2, InitialDeferredType DEF SqType
<1>3. disk.scene = oldscene \cup (Setscene \cap NoExec) /\ dk.scene = oldscene
  BY <1>1 DEF MakeNoExecStamps
<1>4. oldscene \subseteq Setscene
  BY ConfigAssumption
<1>5. sq = UpdateSceneQueueData(q, Setscene, dk, avail)
  BY <1>1
<1> HIDE DEF q, dk
<1>6. Setscene \cap (NoExec \cup dk.scene) \subseteq sq.covered
  BY <1>2, <1>5, UpdateSceneQueueDataCovers
<1>7. disk.scene \cup (NoExec \cap Setscene) \subseteq sq.covered
  BY <1>3, <1>4, <1>6
<1>8. sq.notcovered = {} /\ sq.live = {}
  BY InitialScene DEF Grown
<1>9. RealProcs = {}
  BY DEF Init, RealProcs
<1> QED BY <1>7, <1>8, <1>9 DEF DiskTold, HardOver

(* A setscene task that declares a dependency on another one is restored   *)
(* only while that one is covered: none is started after one it needs      *)
(* failed, because sq_task_fail() fails them together, except those whose  *)
(* stamps make restoring them pointless for the rest of the build.         *)
THEOREM RestoredOnRestored ==
  ASSUME HardOrDeferred
  PROVE  Spec => []RestoredInputs
<1>1. HardOrRehash
  BY DEF HardOrDeferred, HardOrRehash
<1>2. CASE NoHardDepends
  <2>1. TypeOK => RestoredInputs
    BY <1>2 DEF NoHardDepends, RestoredInputs
  <2> QED BY <2>1, TypeCorrect, PTL
<1>3. CASE MaxUpdates = 0 /\ DOMAIN InitialDeferred = {}
  <2>1. Init => DiskTold /\ HardOver
    BY HardOverInit
  <2>2. TypeOK /\ DepsComplete /\ Apart /\ Exclusive /\ DiskTold /\ HardOver /\ [Next]_vars
          => DiskTold' /\ HardOver'
    <3> SUFFICES ASSUME TypeOK, DepsComplete, Apart, Exclusive, DiskTold, HardOver, [Next]_vars
                 PROVE  DiskTold' /\ HardOver'
      OBVIOUS
    <3>1. CASE Next
      BY <1>3, <3>1, HardOverStep
    <3>2. CASE UNCHANGED vars
      BY <3>2 DEF vars, DiskTold, HardOver, SceneProcs, RealProcs, Decided
    <3> QED BY <3>1, <3>2
  <2>3. Apart /\ HardOver => RestoredInputs
    BY DEF Apart, Started, HardOver, RestoredInputs
  <2> QED BY <1>1, <2>1, <2>2, <2>3, ApartInvariant, ExclusiveInvariant, DepsCompleteInvariant,
             TypeCorrect, PTL DEF Spec
<1> QED BY <1>2, <1>3 DEF HardOrDeferred

----------------------------------------------------------------------------
(* The graph from the top.                                                 *)

(* Some task of every set has no reverse dependency in it: without cycles, *)
(* the smallest set in which every task has one, less a task that depends  *)
(* on nothing in it, would be smaller.                                     *)
LEMMA TopExists ==
  ASSUME NEW S \in SUBSET Tasks, S # {}
  PROVE  \E t \in S : Revdeps[t] \cap S = {}
<1> DEFINE NoTop(T) == \A t \in T : Revdeps[t] \cap T # {}
           Bad == {T \in SUBSET Tasks : T # {} /\ NoTop(T)}
<1> SUFFICES ASSUME NoTop(S) PROVE FALSE
  OBVIOUS
<1>1. Bad # {} /\ Bad \subseteq SUBSET Tasks
  OBVIOUS
<1>2. IsWellFoundedOn(StrictSubsetOrdering(Tasks), SUBSET Tasks)
  BY FS_StrictSubsetOrderingWellFounded, FS_FiniteSubsetsOfFinite, GraphAssumption
<1>3. PICK T \in Bad : \A U \in Bad : ~(<<U, T>> \in StrictSubsetOrdering(Tasks))
  <2> HIDE DEF Bad
  <2> QED BY ONLY <1>1, <1>2, WFMin
<1>4. T \in SUBSET Tasks /\ T # {} /\ NoTop(T)
  OBVIOUS
<1>5. PICK t \in T : Depends[t] \cap T = {}
  BY <1>4, AcyclicAssumption
<1> DEFINE U == T \ {t}
<1>6. \A x \in Tasks, y \in Tasks : y \in Revdeps[x] <=> x \in Depends[y]
  BY DEF Revdeps
<1>7. U \in SUBSET Tasks /\ U # T /\ U \subseteq T
  BY <1>4
<1>8. NoTop(U)
  <2>1. SUFFICES ASSUME NEW x \in U PROVE Revdeps[x] \cap U # {}
    OBVIOUS
  <2>2. PICK y \in T : y \in Revdeps[x]
    BY <1>4
  <2>3. y # t
    BY <1>4, <1>5, <1>6, <2>2
  <2> QED BY <2>2, <2>3
<1>9. U # {}
  <2>1. PICK y \in T : y \in Revdeps[t]
    BY <1>4
  <2>2. y # t
    BY <1>4, <1>5, <1>6, <2>1
  <2> QED BY <2>2
<1>10. <<U, T>> \in StrictSubsetOrdering(Tasks)
  BY <1>4, <1>7 DEF StrictSubsetOrdering
<1>11. U \in Bad
  BY <1>7, <1>8, <1>9
<1> QED BY <1>3, <1>10, <1>11

(* A task that a setscene task covers is a dependency of it, or of another *)
(* task that it covers.                                                    *)
LEMMA CoveredByReached ==
  ASSUME NEW s \in Setscene, NEW d \in CoveredBy[s]
  PROVE  d \in RealTasks /\ (d \in Depends[s] \/ \E u \in CoveredBy[s] : d \in Depends[u])
<1> DEFINE Closed(U) == /\ Depends[s] \cap RealTasks \subseteq U
                        /\ \A u \in U : Depends[u] \cap RealTasks \subseteq U
           R == {e \in CoveredBy[s] : e \in Depends[s] \/ \E u \in CoveredBy[s] : e \in Depends[u]}
<1>1. CoveredBy[s] = {t \in RealTasks : \A U \in SUBSET RealTasks : Closed(U) => t \in U}
  BY DEF CoveredBy
<1>2. R \in SUBSET RealTasks
  BY <1>1
<1>3. Depends[s] \cap RealTasks \subseteq R
  BY CoveredByClosed
<1>4. \A u \in R : Depends[u] \cap RealTasks \subseteq R
  BY CoveredByClosed
<1>5. d \in R
  <2>1. \A U \in SUBSET RealTasks : Closed(U) => d \in U
    BY <1>1
  <2>2. Closed(R)
    BY <1>3, <1>4
  <2> HIDE DEF Closed, R
  <2> QED BY <1>2, <2>1, <2>2
<1> QED BY <1>2, <1>5

(* Without hard dependencies, some setscene task of every set comes after  *)
(* tasks outside of it only.                                               *)
LEMMA SceneTopExists ==
  ASSUME NoHardDepends, NEW S \in SUBSET Setscene, S # {}
  PROVE  \E s \in S : SqRevdeps[s] \cap S = {}
<1> DEFINE X == S \cup UNION {CoveredBy[p] : p \in S}
<1> SUFFICES ASSUME \A s \in S : SqRevdeps[s] \cap S # {} PROVE FALSE
  OBVIOUS
<1>1. \A p \in S : CoveredBy[p] \subseteq RealTasks
  BY DEF CoveredBy
<1>2. X \in SUBSET Tasks /\ X # {}
  BY <1>1, GraphAssumption DEF RealTasks
<1>3. \A x \in Tasks, y \in Tasks : y \in Revdeps[x] <=> x \in Depends[y]
  BY DEF Revdeps
<1>4. ASSUME NEW x \in S PROVE Revdeps[x] \cap X # {}
  <2>1. PICK p \in S : p \in SqRevdeps[x]
    BY <1>4
  <2>2. p \in Squash[x]
    BY <2>1, GraphAssumption DEF SqRevdeps, NoHardDepends
  <2>3. x \in Depends[p] \/ \E t \in CoveredBy[p] : x \in Depends[t]
    BY <2>2 DEF Squash
  <2>4. \E y \in X : x \in Depends[y]
    BY <2>3
  <2> QED BY <1>2, <1>3, <2>4
<1>5. ASSUME NEW p \in S, NEW x \in CoveredBy[p] PROVE Revdeps[x] \cap X # {}
  <2>1. x \in Depends[p] \/ \E u \in CoveredBy[p] : x \in Depends[u]
    BY CoveredByReached
  <2>2. \E y \in X : x \in Depends[y]
    BY <2>1
  <2> QED BY <1>2, <1>3, <2>2
<1>6. \A x \in X : Revdeps[x] \cap X # {}
  BY <1>4, <1>5
<1> HIDE DEF X
<1> QED BY <1>2, <1>6, TopExists

(* Every end of the graph is unskippable. *)
LEMMA EndsUnskippable == \A e \in Tasks : Revdeps[e] = {} => e \in Unskippable
BY DEF Unskippable

(* Every real task is unskippable or covered by some setscene task. *)
LEMMA EveryTaskPlaced == RealTasks \subseteq Unskippable \cup UNION {CoveredBy[s] : s \in Setscene}
<1> DEFINE P == Unskippable \cup UNION {CoveredBy[s] : s \in Setscene}
           X == RealTasks \ P
<1> SUFFICES ASSUME X # {} PROVE FALSE
  OBVIOUS
<1>1. X \in SUBSET Tasks
  BY DEF RealTasks
<1>2. PICK t \in X : Revdeps[t] \cap X = {}
  BY <1>1, TopExists
<1>3. PICK r \in Tasks : r \in Revdeps[t]
  BY <1>1, <1>2, EndsUnskippable DEF Revdeps
<1>4. t \in Depends[r] /\ t \in RealTasks
  BY <1>1, <1>3 DEF Revdeps
<1>5. CASE r \in Setscene
  <2>1. t \in CoveredBy[r]
    BY <1>4, <1>5, CoveredByClosed
  <2> QED BY <1>5, <2>1
<1>6. CASE r \notin Setscene
  <2>1. r \in P
    BY <1>2, <1>3, <1>6 DEF RealTasks
  <2>2. CASE r \in Unskippable
    BY <1>4, <1>6, <2>2, UnskippableClosed
  <2>3. CASE \E s \in Setscene : r \in CoveredBy[s]
    <3>1. PICK s \in Setscene : r \in CoveredBy[s]
      BY <2>3
    <3>2. t \in CoveredBy[s]
      BY <1>4, <3>1, CoveredByClosed
    <3> QED BY <3>2
  <2> QED BY <2>1, <2>2, <2>3
<1> QED BY <1>5, <1>6

----------------------------------------------------------------------------
(* The scene queue goes on.                                                *)

(* A setscene task becomes buildable as soon as those before it are        *)
(* decided; a chosen one is decided or live; and tasks_scenequeue_done is  *)
(* closed downwards.                                                       *)
Released(q) == \A s \in Setscene : SqRevdeps[s] \subseteq Decided(q) => s \in q.buildable
Accounted(q) == q.running \subseteq Decided(q) \cup q.live
DoneBelow(q) ==
  /\ Decided(q) \cup InitialDone \subseteq q.done
  /\ \A d \in RealTasks : Revdeps[d] # {} /\ Revdeps[d] \subseteq q.done => d \in q.done

Onward(q) == Released(q) /\ Accounted(q) /\ DoneBelow(q)

(* Once everything is decided, everything is done. *)
LEMMA DecidedDone ==
  ASSUME NEW q \in SqType, DoneBelow(q), Setscene \subseteq Decided(q)
  PROVE  q.done = Tasks
<1> DEFINE X == Tasks \ q.done
<1>1. q.done \subseteq Tasks
  BY DEF SqType
<1> SUFFICES ASSUME X # {} PROVE FALSE
  BY <1>1
<1>2. PICK t \in X : Revdeps[t] \cap X = {}
  BY TopExists
<1>3. t \in RealTasks /\ Revdeps[t] \subseteq q.done
  BY <1>2 DEF DoneBelow, RealTasks, Revdeps
<1>4. Revdeps[t] = {}
  BY <1>2, <1>3 DEF DoneBelow
<1>5. t \in InitialDone
  BY <1>3, <1>4, EndsUnskippable DEF InitialDone, RealTasks
<1> QED BY <1>2, <1>5 DEF DoneBelow

(* NewlyDone adds what was decided and all that follows from it.           *)
LEMMA NewlyDoneCloses ==
  ASSUME NEW D, NEW X \in SUBSET Tasks,
         \A d \in RealTasks : Revdeps[d] # {} /\ Revdeps[d] \subseteq D => d \in D
  PROVE  /\ X \subseteq NewlyDone(D, X)
         /\ \A d \in RealTasks :
              Revdeps[d] # {} /\ Revdeps[d] \subseteq D \cup NewlyDone(D, X)
                => d \in D \cup NewlyDone(D, X)
<1> DEFINE Closed(U) == /\ X \subseteq U
                        /\ \A d \in RealTasks \ D :
                             (Revdeps[d] \cap U # {} /\ Revdeps[d] \subseteq D \cup U) => d \in U
           N == NewlyDone(D, X)
<1>1. N = {t \in Tasks : \A U \in SUBSET Tasks : Closed(U) => t \in U}
  BY DEF NewlyDone
<1>2. X \subseteq N
  BY <1>1
<1>3. ASSUME NEW d \in RealTasks \ D, Revdeps[d] # {}, Revdeps[d] \subseteq D \cup N
      PROVE  d \in N
  <2>1. Revdeps[d] \cap N # {}
    BY <1>3
  <2>2. ASSUME NEW U \in SUBSET Tasks, Closed(U) PROVE d \in U
    <3>1. N \subseteq U
      BY <1>1, <2>2
    <3> HIDE DEF N
    <3> QED BY <1>3, <2>1, <2>2, <3>1
  <2>3. d \in Tasks
    BY DEF RealTasks
  <2> HIDE DEF Closed
  <2> QED BY <1>1, <2>2, <2>3
<1> HIDE DEF N, Closed
<1>4. ASSUME NEW d \in RealTasks, Revdeps[d] # {}, Revdeps[d] \subseteq D \cup N
      PROVE  d \in D \cup N
  BY <1>3, <1>4
<1> QED BY <1>2, <1>4 DEF N

(* A decision releases what waited for it. *)
LEMMA DecideOnward ==
  ASSUME NoHardDepends, NEW q \in SqType, NEW C \in SUBSET Setscene, NEW N \in SUBSET Setscene,
         Released(q), DoneBelow(q), q.running \subseteq Decided(q) \cup q.live \cup C \cup N
  PROVE  LET r == Decide(q, C, N)
         IN  Onward(r) /\ r \in SqType /\ r.live = q.live /\ r.running = q.running
             /\ Decided(r) = Decided(q) \cup C \cup N
<1> DEFINE r == Decide(q, C, N)
           freed == {d \in Setscene :
                       /\ SqRevdeps[d] \subseteq q.covered \cup C \cup (q.notcovered \cup N)
                       /\ \E t \in C \cup N : /\ d \in SqDeps[t]
                                              /\ ~(t \in N /\ d \in HardChildren[t])}
           new == NewlyDone(q.done, C \cup N)
<1>1. r \in SqType
  BY DecideType
<1>2. /\ r.covered = q.covered \cup C /\ r.notcovered = q.notcovered \cup N
      /\ r.buildable = q.buildable \cup freed /\ r.done = q.done \cup new
      /\ r.running = q.running /\ r.live = q.live
  BY DEF Decide, SqType
<1>3. C \cup N \subseteq Tasks
  BY GraphAssumption
<1> HIDE DEF r, new
<1>4. Decided(r) = Decided(q) \cup C \cup N
  BY <1>2 DEF Decided
<1>5. Released(r)
  <2>1. SUFFICES ASSUME NEW s \in Setscene, SqRevdeps[s] \subseteq Decided(r) PROVE s \in r.buildable
    BY DEF Released
  <2>2. CASE SqRevdeps[s] \subseteq Decided(q)
    BY <1>2, <2>2 DEF Released
  <2>3. CASE \E t \in C \cup N : t \in SqRevdeps[s]
    <3>1. PICK t \in C \cup N : t \in SqRevdeps[s]
      BY <2>3
    <3>2. s \in SqDeps[t] /\ s \notin HardChildren[t]
      BY <3>1 DEF SqDeps, NoHardDepends
    <3>3. SqRevdeps[s] \subseteq q.covered \cup C \cup (q.notcovered \cup N)
      BY <1>4, <2>1 DEF Decided
    <3>4. s \in freed
      BY <3>1, <3>2, <3>3
    <3> QED BY <1>2, <3>4
  <2> QED BY <1>4, <2>1, <2>2, <2>3
<1> HIDE DEF freed
<1>6. Accounted(r)
  BY <1>2, <1>4 DEF Accounted
<1>7. C \cup N \subseteq new /\ \A d \in RealTasks :
        Revdeps[d] # {} /\ Revdeps[d] \subseteq q.done \cup new => d \in q.done \cup new
  BY <1>3, NewlyDoneCloses DEF DoneBelow, new
<1>8. DoneBelow(r)
  BY <1>2, <1>4, <1>7 DEF DoneBelow
<1>9. Onward(r) /\ r \in SqType /\ r.live = q.live /\ r.running = q.running
             /\ Decided(r) = Decided(q) \cup C \cup N
  BY <1>1, <1>2, <1>4, <1>5, <1>6, <1>8 DEF Onward
<1> QED BY <1>9 DEF r

(* What changes neither decisions nor buildable tasks keeps all that. *)
LEMMA OnwardSame ==
  ASSUME NEW q, NEW r, Onward(q), r.covered = q.covered, r.notcovered = q.notcovered,
         q.buildable \subseteq r.buildable, r.done = q.done, r.running = q.running, r.live = q.live
  PROVE  Onward(r)
BY DEF Onward, Released, Accounted, DoneBelow, Decided

(* A skipped task is decided. *)
LEMMA SqTaskSkipOnward ==
  ASSUME NoHardDepends, NEW q \in SqType, NEW T \in SUBSET Setscene, Onward(q)
  PROVE  Onward(SqTaskSkip(q, T))
<1> DEFINE q1 == [q EXCEPT !.running = @ \cup T, !.buildable = @ \cup T]
<1>1. /\ q1 \in SqType /\ q1.covered = q.covered /\ q1.notcovered = q.notcovered
      /\ q1.running = q.running \cup T /\ q1.buildable = q.buildable \cup T
      /\ q1.live = q.live /\ q1.done = q.done
  BY DEF SqType
<1>2. SqTaskSkip(q, T) = Decide(q1, T, {})
  BY DEF SqTaskSkip
<1> HIDE DEF q1
<1>3. Released(q1) /\ DoneBelow(q1) /\ q1.running \subseteq Decided(q1) \cup q1.live \cup T \cup {}
  BY <1>1 DEF Onward, Released, Accounted, DoneBelow, Decided
<1> QED BY <1>1, <1>2, <1>3, DecideOnward

(* The tasks that fail with t are decided. *)
LEMMA FailOnward ==
  ASSUME NoHardDepends, NEW q \in SqType, NEW F \in SUBSET Setscene, NEW G \in SUBSET F, Onward(q)
  PROVE  LET r == Decide([q EXCEPT !.running = @ \cup G, !.buildable = @ \cup G], {}, F)
         IN  Onward(r) /\ r \in SqType /\ r.live = q.live
             /\ r.running = q.running \cup G /\ Decided(r) = Decided(q) \cup F
<1> DEFINE q1 == [q EXCEPT !.running = @ \cup G, !.buildable = @ \cup G]
<1>1. /\ q1 \in SqType /\ q1.covered = q.covered /\ q1.notcovered = q.notcovered
      /\ q1.running = q.running \cup G /\ q1.buildable = q.buildable \cup G
      /\ q1.live = q.live /\ q1.done = q.done
  BY DEF SqType
<1>2. {} \in SUBSET Setscene /\ Decided(q1) \cup {} \cup F = Decided(q) \cup F
  BY <1>1 DEF Decided
<1> HIDE DEF q1
<1>3. Released(q1) /\ DoneBelow(q1) /\ q1.running \subseteq Decided(q1) \cup q1.live \cup {} \cup F
  BY <1>1 DEF Onward, Released, Accounted, DoneBelow, Decided
<1>4. LET r == Decide(q1, {}, F)
      IN  Onward(r) /\ r \in SqType /\ r.live = q1.live
          /\ r.running = q1.running /\ Decided(r) = Decided(q1) \cup {} \cup F
  <2> DEFINE N == {}
  <2>1. N \in SUBSET Setscene /\ q1.running \subseteq Decided(q1) \cup q1.live \cup N \cup F
    BY <1>3
  <2> HIDE DEF N
  <2>2. LET r == Decide(q1, N, F)
        IN  Onward(r) /\ r \in SqType /\ r.live = q1.live
            /\ r.running = q1.running /\ Decided(r) = Decided(q1) \cup N \cup F
    <3>1. q1 \in SqType /\ Released(q1) /\ DoneBelow(q1)
      BY <1>1, <1>3
    <3> QED BY ONLY NoHardDepends, F \in SUBSET Setscene, <2>1, <3>1, DecideOnward
  <2> QED BY <2>2 DEF N
<1>5. LET r == Decide(q1, {}, F)
      IN  Onward(r) /\ r \in SqType /\ r.live = q.live
          /\ r.running = q.running \cup G /\ Decided(r) = Decided(q) \cup F
  BY <1>1, <1>2, <1>4
<1> QED BY <1>5 DEF q1

(* update_scenequeue_data() only skips tasks. *)
LEMMA UpdateSceneQueueDataOnward ==
  ASSUME NoHardDepends, NEW q \in SqType, NEW T \in SUBSET Setscene, NEW dk, NEW avail, Onward(q)
  PROVE  Onward(UpdateSceneQueueData(q, T, dk, avail))
<1> DEFINE present == (T \ NoExec) \cap (dk.scene \cup RecursivelyCurrent(dk))
           skipped == present \cup (T \cap NoExec)
           q1      == IF skipped = {} THEN q ELSE SqTaskSkip(q, skipped)
           valid   == (q.valid \ T) \cup (avail \cap (T \ skipped))
           decided == skipped \cup valid \cup q1.covered \cup q1.notcovered \cup DOMAIN q.deferred
           r       == [q1 EXCEPT !.valid = valid, !.outrightfail = (@ \ T) \cup (T \ decided)]
<1>1. skipped \in SUBSET Setscene
  OBVIOUS
<1>2. UpdateSceneQueueData(q, T, dk, avail) = r
  BY DEF UpdateSceneQueueData
<1> HIDE DEF skipped
<1>3. q1 \in SqType /\ Onward(q1)
  BY <1>1, SqTaskSkipType, SqTaskSkipOnward
<1> HIDE DEF q1, valid, decided
<1>4. /\ r.covered = q1.covered /\ r.notcovered = q1.notcovered /\ r.running = q1.running
      /\ r.buildable = q1.buildable /\ r.live = q1.live /\ r.done = q1.done
  BY <1>3 DEF SqType
<1> QED BY <1>2, <1>3, <1>4, OnwardSame

(* And so does what undefers them. *)
LEMMA UndeferOnward ==
  ASSUME NoHardDepends, NEW q \in SqType, NEW t, NEW dk, NEW avail, Onward(q)
  PROVE  Onward(Undefer(q, t, dk, avail))
<1> DEFINE waiting == {s \in DOMAIN q.deferred : q.deferred[s] = t}
           found   == CHOOSE s \in waiting : TRUE
           rest    == [s \in DOMAIN q.deferred \ {found} |->
                         IF s \in waiting THEN found ELSE q.deferred[s]]
           q1      == [q EXCEPT !.deferred = rest]
<1>1. CASE waiting = {}
  BY <1>1 DEF Undefer
<1>2. CASE waiting # {}
  <2>1. Undefer(q, t, dk, avail) = UpdateSceneQueueData(q1, {found}, dk, avail)
    BY <1>2 DEF Undefer
  <2>2. DOMAIN q.deferred \in SUBSET Setscene /\ q.deferred \in [DOMAIN q.deferred -> Setscene]
    BY PartialElim DEF SqType
  <2>3. found \in DOMAIN q.deferred
    BY <1>2
  <2> HIDE DEF found
  <2>4. rest \in [DOMAIN q.deferred \ {found} -> Setscene]
    BY <2>2, <2>3
  <2>5. rest \in Partial(Setscene, Setscene)
    <3> HIDE DEF rest
    <3> QED BY <2>2, <2>4, PartialIntro
  <2> HIDE DEF rest
  <2>6. /\ q1 \in SqType /\ q1.covered = q.covered /\ q1.notcovered = q.notcovered
        /\ q1.buildable = q.buildable /\ q1.done = q.done /\ q1.running = q.running
        /\ q1.live = q.live
    BY <2>5 DEF SqType
  <2> HIDE DEF q1
  <2>7. Onward(q1) /\ {found} \in SUBSET Setscene
    BY <2>2, <2>3, <2>6, OnwardSame
  <2> QED BY <2>1, <2>6, <2>7, UpdateSceneQueueDataOnward
<1> QED BY <1>1, <1>2

(* Deferrals do not matter to it. *)
LEMMA DropDeferredOnward ==
  ASSUME NEW q \in SqType, NEW s, Onward(q)
  PROVE  DropDeferred(q, s) \in SqType /\ Onward(DropDeferred(q, s))
<1> DEFINE r == DropDeferred(q, s)
<1>1. /\ r \in SqType
      /\ r.covered = q.covered /\ r.notcovered = q.notcovered /\ r.running = q.running
      /\ r.buildable = q.buildable /\ r.live = q.live /\ r.done = q.done
  BY DropDeferredSame
<1> HIDE DEF r
<1>2. Onward(r)
  BY <1>1, OnwardSame
<1> QED BY <1>1, <1>2 DEF r

(* Restarting the tasks of M takes away what follows from their decisions, *)
(* and no more: below a task that ran, everything is complete.             *)
LEMMA ResetOnward ==
  ASSUME NEW q \in SqType, NEW M \in SUBSET Setscene, NEW uni \in [Tasks -> Unihashes], Onward(q),
         q.live \cap M = {}, \A t \in rq.complete : Depends[t] \subseteq rq.complete
  PROVE  LET r == Reset(q, M, uni)
         IN  /\ \A s \in Setscene \ M : SqRevdeps[s] \subseteq Decided(r) => s \in r.buildable
             /\ Accounted(r) /\ DoneBelow(r)
<1> DEFINE below == (UNION {CoveredBy[m] : m \in M}) \ rq.complete
           r == Reset(q, M, uni)
<1>1. /\ r.covered = q.covered \ M /\ r.notcovered = q.notcovered \ M
      /\ r.running = q.running \ M /\ r.buildable = q.buildable \ M
      /\ r.live = q.live /\ r.done = (q.done \ M) \ (below \ Unskippable)
  BY DEF Reset, SqType
<1>2. \A m \in M : CoveredBy[m] \subseteq RealTasks
  BY DEF CoveredBy
<1>3. below \subseteq RealTasks
  BY <1>2
<1> HIDE DEF r
<1>4. Decided(r) = Decided(q) \ M
  BY <1>1 DEF Decided
<1>5. \A s \in Setscene \ M : SqRevdeps[s] \subseteq Decided(r) => s \in r.buildable
  BY <1>1, <1>4 DEF Onward, Released
<1>6. Accounted(r)
  BY <1>1, <1>4 DEF Onward, Accounted
<1>7. Decided(r) \cup InitialDone \subseteq r.done
  <2>1. Decided(q) \subseteq Setscene
    BY DEF Decided, SqType
  <2>2. InitialDone \cap M = {} /\ InitialDone \subseteq Unskippable
    BY DEF InitialDone
  <2>3. Decided(q) \cup InitialDone \subseteq q.done
    BY DEF Onward, DoneBelow
  <2> HIDE DEF below
  <2> QED BY <1>1, <1>3, <1>4, <2>1, <2>2, <2>3 DEF RealTasks
<1>8. ASSUME NEW d \in RealTasks, Revdeps[d] # {}, Revdeps[d] \subseteq r.done
      PROVE  d \in r.done
  <2>1. d \in q.done /\ d \notin M
    BY <1>1, <1>8 DEF Onward, DoneBelow, RealTasks
  <2>2. SUFFICES ASSUME d \in below, d \notin Unskippable PROVE FALSE
    BY <1>1, <2>1
  <2>3. PICK m \in M : d \in CoveredBy[m]
    BY <2>2
  <2>4. d \notin rq.complete
    BY <2>2
  <2>5. d \in Depends[m] \/ \E u \in CoveredBy[m] : d \in Depends[u]
    BY <2>3, CoveredByReached
  <2>6. CASE d \in Depends[m]
    <3>1. m \in Revdeps[d]
      BY <2>6, GraphAssumption DEF Revdeps, RealTasks
    <3> QED BY <1>1, <1>8, <3>1
  <2>7. ASSUME NEW u \in CoveredBy[m], d \in Depends[u] PROVE FALSE
    <3>1. u \in RealTasks
      BY <1>2
    <3>2. u \in Revdeps[d]
      BY <2>7, <3>1 DEF Revdeps, RealTasks
    <3>3. u \notin below \/ u \in Unskippable
      BY <1>1, <1>8, <3>2
    <3>4. CASE u \in Unskippable
      BY <2>2, <2>7, <3>1, <3>4, UnskippableClosed DEF RealTasks
    <3>5. CASE u \in rq.complete
      BY <2>4, <2>7, <3>5
    <3> QED BY <3>3, <3>4, <3>5
  <2> QED BY <2>5, <2>6, <2>7
<1>9. Accounted(r) /\ DoneBelow(r)
  BY <1>6, <1>7, <1>8 DEF DoneBelow
<1> QED BY <1>5, <1>9 DEF r

(* Those that restart are released at once if nothing before them does. *)
LEMMA RequeueOnward ==
  ASSUME NoHardDepends, NEW q \in SqType, NEW M \in SUBSET Setscene, NEW uni, NEW dk,
         NEW avail \in SUBSET Setscene, Accounted(q), DoneBelow(q),
         \A s \in Setscene \ M : SqRevdeps[s] \subseteq Decided(q) => s \in q.buildable
  PROVE  Onward(Requeue(q, M, uni, dk, avail))
<1> DEFINE fails    == HardDepFail(q, M)
           free     == {m \in M : \/ SqRevdeps[m] = {}
                                  \/ m \notin fails /\ SqRevdeps[m] \subseteq q.covered \cup q.notcovered}
           twins    == {m \in M : /\ HashIndex(m, uni[m]) \in DOMAIN HashOwner
                                  /\ HashOwner[HashIndex(m, uni[m])] # m}
           deferred == [s \in DOMAIN q.deferred \cup twins |->
                          IF s \in twins THEN HashOwner[HashIndex(s, uni[s])] ELSE q.deferred[s]]
           q0       == [q EXCEPT !.buildable = @ \cup free, !.deferred = deferred]
           q1       == UpdateSceneQueueData(q0, M, dk, avail)
<1>1. fails = {}
  BY DEF HardDepFail, NoHardDepends, SqType
<1>2. Requeue(q, M, uni, dk, avail) = q1
  BY <1>1 DEF Requeue
<1>3. deferred \in Partial(Setscene, Setscene)
  <2>1. \A h \in DOMAIN HashOwner : HashOwner[h] \in Setscene
    BY HashOwnerType
  <2>2. DOMAIN q.deferred \in SUBSET Setscene /\ q.deferred \in [DOMAIN q.deferred -> Setscene]
    BY PartialElim DEF SqType
  <2>3. twins \subseteq Setscene
    OBVIOUS
  <2>4. \A s \in twins : HashOwner[HashIndex(s, uni[s])] \in Setscene
    BY <2>1
  <2> HIDE DEF twins
  <2>5. deferred \in [DOMAIN q.deferred \cup twins -> Setscene]
    BY <2>2, <2>4
  <2> HIDE DEF deferred
  <2> QED BY <2>2, <2>3, <2>5, PartialIntro
<1>4. free \in SUBSET Setscene /\ \A m \in M : SqRevdeps[m] \subseteq Decided(q) => m \in free
  BY <1>1 DEF Decided
<1> HIDE DEF deferred, free, fails
<1>5. /\ q0 \in SqType /\ q0.covered = q.covered /\ q0.notcovered = q.notcovered
      /\ q0.running = q.running /\ q0.buildable = q.buildable \cup free /\ q0.live = q.live
      /\ q0.done = q.done
  BY <1>3, <1>4 DEF SqType
<1> HIDE DEF q0
<1>6. Decided(q0) = Decided(q)
  BY <1>5 DEF Decided
<1>7. Released(q0)
  BY <1>4, <1>5, <1>6 DEF Released
<1>8. Onward(q0)
  BY <1>5, <1>6, <1>7 DEF Onward, Accounted, DoneBelow
<1> QED BY <1>2, <1>5, <1>8, UpdateSceneQueueDataOnward

(* Every action keeps the scene queue going. *)
LEMMA OnwardRead ==
  ASSUME NoHardDepends, TypeOK, SqDecided(sq), Onward(sq), NEW p \in procs, ReadExit(p)
  PROVE  Onward(sq')
<1> DEFINE t == p.task
<1>1. sq \in SqType
  BY DEF TypeOK
<1>2. PICK avail \in SUBSET Setscene :
        \/ t \in sq.live /\ sq' = [Decide(sq, {t}, {}) EXCEPT !.live = @ \ {t}]
        \/ t \in sq.live /\ sq' = [SqTaskFail(sq, t, disk) EXCEPT !.live = @ \ {t}]
        \/ t \notin sq.live /\ sq' = Undefer(sq, t, disk, avail)
        \/ t \notin sq.live /\ sq' = sq
  BY DEF ReadExit
<1>3. ASSUME t \in sq.live PROVE t \in Setscene \ Decided(sq) /\ t \in sq.running
  BY <1>1, <1>3 DEF SqDecided, SqType
<1>4. ASSUME NEW r \in SqType, Onward(r), t \in Decided(r), sq' = [r EXCEPT !.live = @ \ {t}]
      PROVE  Onward(sq')
  <2>1. /\ sq'.covered = r.covered /\ sq'.notcovered = r.notcovered /\ sq'.running = r.running
        /\ sq'.buildable = r.buildable /\ sq'.live = r.live \ {t} /\ sq'.done = r.done
    BY <1>4 DEF SqType
  <2> QED BY <1>4, <2>1 DEF Onward, Released, Accounted, DoneBelow, Decided
<1>5. CASE t \in sq.live /\ sq' = [Decide(sq, {t}, {}) EXCEPT !.live = @ \ {t}]
  <2> DEFINE N == {}
             r == Decide(sq, {t}, N)
  <2>1. {t} \in SUBSET Setscene /\ N \in SUBSET Setscene
    BY <1>3, <1>5
  <2>2. Released(sq) /\ DoneBelow(sq) /\ sq.running \subseteq Decided(sq) \cup sq.live \cup {t} \cup N
    BY DEF Onward, Accounted
  <2>3. sq' = [r EXCEPT !.live = @ \ {t}]
    BY <1>5
  <2> HIDE DEF N
  <2>4. Onward(r) /\ r \in SqType /\ Decided(r) = Decided(sq) \cup {t} \cup N
    BY ONLY NoHardDepends, <1>1, <2>1, <2>2, DecideOnward
  <2> HIDE DEF r
  <2> QED BY <1>4, <2>3, <2>4
<1>6. CASE t \in sq.live /\ sq' = [SqTaskFail(sq, t, disk) EXCEPT !.live = @ \ {t}]
  <2> DEFINE F == FailClosure(sq, t, disk)
             G == F \ {t}
             r == Decide([sq EXCEPT !.running = @ \cup G, !.buildable = @ \cup G], {}, F)
  <2>1. F \in SUBSET Setscene /\ G \in SUBSET F
    BY FailClosureType
  <2>2. t \in F
    BY <1>3, <1>6 DEF FailClosure
  <2>3. sq' = [r EXCEPT !.live = @ \ {t}]
    BY <1>6 DEF SqTaskFail
  <2> HIDE DEF F, G
  <2>4. Onward(r) /\ r \in SqType /\ Decided(r) = Decided(sq) \cup F
    BY ONLY NoHardDepends, Onward(sq), <1>1, <2>1, FailOnward
  <2> HIDE DEF r
  <2> QED BY <1>4, <2>2, <2>3, <2>4
<1>7. CASE sq' = Undefer(sq, t, disk, avail)
  BY <1>1, <1>7, UndeferOnward
<1> HIDE DEF t
<1> QED BY <1>2, <1>5, <1>6, <1>7

(* A choice decides the task it takes, or sends it. *)
LEMMA OnwardScene ==
  ASSUME NoHardDepends, TypeOK, Onward(sq), NEW s \in Setscene,
         SceneSkip(s) \/ SceneFailOutright(s) \/ SceneRun(s)
  PROVE  Onward(sq')
<1> DEFINE q == DropDeferred(sq, s)
<1>1. sq \in SqType
  BY DEF TypeOK
<1>2. q \in SqType /\ Onward(q)
  BY <1>1, DropDeferredOnward
<1>3. CASE SceneSkip(s)
  <2>1. sq' = SqTaskSkip(q, {s})
    BY <1>3 DEF SceneSkip
  <2> HIDE DEF q
  <2> QED BY <1>2, <2>1, SqTaskSkipOnward
<1>4. CASE SceneFailOutright(s)
  <2> DEFINE F == FailClosure(q, s, disk)
             r == Decide([q EXCEPT !.running = @ \cup F, !.buildable = @ \cup F], {}, F)
  <2>1. sq' = r
    BY <1>4 DEF SceneFailOutright, SqTaskFailOutright
  <2>2. F \in SUBSET Setscene /\ F \in SUBSET F
    BY FailClosureType
  <2> HIDE DEF F, q
  <2>3. Onward(r)
    BY ONLY NoHardDepends, <1>2, <2>2, FailOnward
  <2> QED BY <2>1, <2>3
<1>5. CASE SceneRun(s)
  <2>1. sq' = [q EXCEPT !.running = @ \cup {s}, !.live = @ \cup {s}]
    BY <1>5 DEF SceneRun
  <2> HIDE DEF q
  <2>2. /\ sq'.covered = q.covered /\ sq'.notcovered = q.notcovered /\ sq'.done = q.done
        /\ sq'.buildable = q.buildable /\ sq'.running = q.running \cup {s}
        /\ sq'.live = q.live \cup {s}
    BY <1>2, <2>1 DEF SqType
  <2> QED BY <1>2, <2>2 DEF Onward, Released, Accounted, DoneBelow, Decided
<1> QED BY <1>3, <1>4, <1>5

(* What a migration resets is released again. *)
LEMMA OnwardMigrate ==
  ASSUME NoHardDepends, TypeOK, DepsComplete, Started, NoStaleMigration, Onward(sq), Migrate
  PROVE  Onward(sq')
<1>1. sq \in SqType
  BY DEF TypeOK
<1>2. PICK uni \in NewUnihashes : \E dk : MigrateReady(uni, dk)
  BY DEF Migrate, NoStaleMigration
<1>3. PICK dk : MigrateReady(uni, dk)
  BY <1>2
<1>4. uni \in [Tasks -> Unihashes]
  BY DEF NewUnihashes
<1> DEFINE M == ReadyMigrations(uni)
<1>5. M \in SUBSET Setscene /\ sq.live \cap M = {}
  BY ReadyIdle
<1>6. PICK avail \in SUBSET Setscene :
        sq' = IF M = {} THEN [sq EXCEPT !.need_update = (@ \/ Changed(uni) # {})]
                        ELSE [Requeue(Reset(sq, M, uni), M, uni, dk, avail)
                                EXCEPT !.need_update = TRUE]
  BY <1>3 DEF MigrateReady
<1> HIDE DEF M
<1>7. ASSUME NEW r \in SqType, Onward(r), NEW n, sq' = [r EXCEPT !.need_update = n]
      PROVE  Onward(sq')
  <2>1. /\ sq'.covered = r.covered /\ sq'.notcovered = r.notcovered /\ sq'.running = r.running
        /\ sq'.buildable = r.buildable /\ sq'.live = r.live /\ sq'.done = r.done
    BY <1>7 DEF SqType
  <2> QED BY <1>7, <2>1, OnwardSame
<1>8. CASE M = {}
  <2> DEFINE n == sq.need_update \/ Changed(uni) # {}
  <2>1. sq' = [sq EXCEPT !.need_update = n]
    BY <1>6, <1>8
  <2> HIDE DEF n
  <2> QED BY <1>1, <1>7, <2>1
<1>9. CASE M # {}
  <2> DEFINE q == Reset(sq, M, uni)
             r == Requeue(q, M, uni, dk, avail)
  <2>1. \A t \in rq.complete : Depends[t] \subseteq rq.complete
    BY DEF Started, DepsComplete
  <2>2. q \in SqType
    BY <1>1, <1>4, <1>5, ResetType
  <2>3. /\ \A s \in Setscene \ M : SqRevdeps[s] \subseteq Decided(q) => s \in q.buildable
        /\ Accounted(q) /\ DoneBelow(q)
    BY <1>1, <1>4, <1>5, <2>1, ResetOnward
  <2>4. sq' = [r EXCEPT !.need_update = TRUE]
    BY <1>6, <1>9
  <2> HIDE DEF q
  <2>5. r \in SqType /\ Onward(r)
    BY <1>5, <2>2, <2>3, RequeueType, RequeueOnward
  <2> HIDE DEF r
  <2> QED BY <1>7, <2>4, <2>5
<1> QED BY <1>8, <1>9

(* No step leaves a setscene task behind. *)
LEMMA OnwardStep ==
  ASSUME NoHardDepends, TypeOK, DepsComplete, Started, SqDecided(sq), NoStaleMigration,
         Onward(sq), Next
  PROVE  Onward(sq')
<1>1. sq \in SqType
  BY DEF TypeOK
<1>2. CASE \E p \in procs : ReadExit(p)
  BY <1>2, OnwardRead
<1>3. CASE \E s \in Setscene : SceneSkip(s) \/ SceneFailOutright(s) \/ SceneRun(s)
  BY <1>3, OnwardScene
<1>4. CASE Migrate
  BY <1>4, OnwardMigrate
<1>5. CASE \E t \in Tasks : TaskSkipped(t) \/ TaskNoExec(t)
  <2>1. PICK t \in Tasks : TaskSkipped(t) \/ TaskNoExec(t)
    BY <1>5
  <2>2. PICK dk : \E avail \in SUBSET Setscene : sq' = Undefer(sq, t, dk, avail)
    BY <2>1 DEF TaskSkipped, TaskNoExec
  <2> QED BY <1>1, <2>2, UndeferOnward
<1>6. CASE ForceDeferred
  BY <1>1, <1>6, DropDeferredOnward DEF ForceDeferred
<1>7. CASE Settle
  <2>1. /\ sq'.covered = sq.covered /\ sq'.notcovered = sq.notcovered /\ sq'.running = sq.running
        /\ sq'.buildable = sq.buildable /\ sq'.live = sq.live /\ sq'.done = sq.done
    BY <1>7, SettleSame
  <2> QED BY <2>1, OnwardSame
<1>8. CASE sq' = sq
  BY <1>8
<1>9. \/ FinishNow \/ Finish \/ Execute \/ Teardown \/ ReadDone \/ MigrateNothing
      \/ SceneNone
      \/ (\E t \in Tasks : TaskForbidden(t) \/ TaskSpawnFails(t) \/ TaskRun(t))
      \/ TaskNone \/ WriteFails \/ WaitForTasks \/ Conclude
      \/ (\E p \in procs : WorkerExit(p) \/ ReadUnihash(p))
      \/ WorkerDies \/ StopRequest \/ Ended
      => sq' = sq
  BY DEF FinishNow, Finish, Execute, Teardown, ReadDone, MigrateNothing, SceneNone, TaskForbidden,
         TaskSpawnFails, TaskRun, TaskNone, WriteFails, WaitForTasks, Conclude, WorkerExit,
         ReadUnihash, WorkerDies, StopRequest, Ended, vars
<1> QED BY <1>2, <1>3, <1>4, <1>5, <1>6, <1>7, <1>8, <1>9 DEF Next, CookerStep

(* The endpoints are released from the start. *)
LEMMA OnwardInit ==
  ASSUME NoHardDepends, Init
  PROVE  Onward(sq)
<1> DEFINE q == [buildable |-> InitialSqBuildable, running |-> {}, live |-> {},
                 covered |-> {}, notcovered |-> {}, done |-> InitialDone,
                 deferred |-> InitialDeferred, outrightfail |-> {}, valid |-> {},
                 need_update |-> TRUE, stamp |-> Restrict(InitUnihash, Setscene)]
<1>1. PICK dk : \E avail \in SUBSET Setscene : sq = UpdateSceneQueueData(q, Setscene, dk, avail)
  BY DEF Init
<1>2. q \in SqType
  <2>1. InitialDeferred \in Partial(Setscene, Setscene)
    BY InitialDeferredType
  <2>2. Restrict(InitUnihash, Setscene) \in [Setscene -> Unihashes]
    BY GraphAssumption, ConfigAssumption DEF Restrict
  <2>3. InitialSqBuildable \in SUBSET Setscene /\ InitialDone \in SUBSET Tasks
    BY DEF InitialSqBuildable, InitialDone, Unskippable
  <2> QED BY <2>1, <2>2, <2>3 DEF SqType
<1>3. Decided(q) = {} /\ q.running = {} /\ q.done = InitialDone /\ q.buildable = InitialSqBuildable
  BY DEF Decided
<1> HIDE DEF q
<1>4. Released(q) /\ Accounted(q)
  BY <1>3 DEF Released, Accounted, InitialSqBuildable
<1>5. ASSUME NEW d \in RealTasks, Revdeps[d] # {}, Revdeps[d] \subseteq InitialDone
      PROVE  d \in InitialDone
  <2>1. PICK r \in InitialDone : r \in Revdeps[d]
    BY <1>5
  <2>2. r \in Unskippable \ Setscene /\ d \in Depends[r]
    BY <2>1 DEF InitialDone, Revdeps, RealTasks
  <2> QED BY <2>2, UnskippableClosed DEF InitialDone, RealTasks
<1>6. Onward(q)
  BY <1>3, <1>4, <1>5 DEF Onward, DoneBelow
<1> QED BY <1>1, <1>2, <1>6, UpdateSceneQueueDataOnward

----------------------------------------------------------------------------
(* The run queue goes on.                                                  *)

(* What is needed and has its dependencies complete is buildable. *)
RqOffers(r, H) ==
  /\ r.running \subseteq r.buildable
  /\ \A t \in H : Depends[t] \subseteq r.complete => t \in r.buildable

Offered == RqOffers(rq, hold.covered \cup hold.notcovered)

(* Completing t keeps the offers: it makes its dependents buildable. *)
LEMMA CompleteOffers ==
  ASSUME NEW r \in RqType, NEW t \in Tasks, NEW H \in SUBSET Tasks, RqOffers(r, H)
  PROVE  RqOffers(TaskCompleteOutright(r, t), H)
<1> DEFINE q == TaskCompleteOutright(r, t)
           new == {d \in Revdeps[t] \ r.running : Depends[d] \subseteq r.complete \cup {t}}
<1>1. q.running = r.running /\ q.complete = r.complete \cup {t} /\ q.buildable = r.buildable \cup new
  BY DEF TaskCompleteOutright, RqType
<1> HIDE DEF q
<1>2. ASSUME NEW x \in H, Depends[x] \subseteq q.complete PROVE x \in q.buildable
  <2>1. CASE t \in Depends[x]
    <3>1. x \in Revdeps[t]
      BY <2>1 DEF Revdeps
    <3>2. x \in r.running => x \in r.buildable
      BY DEF RqOffers
    <3> QED BY <1>1, <1>2, <3>1, <3>2
  <2>2. CASE t \notin Depends[x]
    <3>1. Depends[x] \subseteq r.complete
      BY <1>1, <1>2, <2>2
    <3>2. x \in r.buildable
      BY <3>1 DEF RqOffers
    <3> QED BY <1>1, <3>2
  <2> QED BY <2>1, <2>2
<1>3. q.running \subseteq q.buildable
  BY <1>1 DEF RqOffers
<1>4. RqOffers(q, H)
  BY <1>2, <1>3 DEF RqOffers
<1> QED BY <1>4 DEF q

(* update_holdofftasks() marks what it places. *)
LEMMA OfferedSettle ==
  ASSUME TypeOK, Offered, Settle
  PROVE  Offered'
<1>1. rq \in RqType
  BY DEF TypeOK
<1>2. /\ rq'.running = rq.running /\ rq'.complete = rq.complete /\ rq'.buildable = SettledBuildable
      /\ hold'.covered = SettledHold.covered /\ hold'.notcovered = SettledHold.notcovered
  <2>1. SettledHold \in HoldType
    BY SettledType
  <2> QED BY <1>1, <2>1 DEF Settle, RqType, HoldType
<1>3. rq.buildable \subseteq SettledBuildable
  BY DEF SettledBuildable
<1>4. CASE sq.need_update
  <2>1. SettledHold.covered = Covered /\ SettledHold.notcovered = NotCovered
    BY <1>4 DEF SettledHold, TypeOK, HoldType
  <2>2. \A t \in Covered \cup NotCovered : Depends[t] \subseteq rq.complete => t \in SettledBuildable
    BY <1>4 DEF SettledBuildable
  <2>3. rq'.running \subseteq rq'.buildable
    BY <1>2, <1>3 DEF Offered, RqOffers
  <2>4. \A t \in hold'.covered \cup hold'.notcovered :
          Depends[t] \subseteq rq'.complete => t \in rq'.buildable
    BY <1>2, <2>1, <2>2
  <2> QED BY <2>3, <2>4 DEF Offered, RqOffers
<1>5. CASE ~sq.need_update
  <2>1. SettledHold = hold
    BY <1>5 DEF SettledHold
  <2>2. rq'.running \subseteq rq'.buildable
    BY <1>2, <1>3 DEF Offered, RqOffers
  <2>4. \A t \in hold'.covered \cup hold'.notcovered :
          Depends[t] \subseteq rq'.complete => t \in rq'.buildable
    BY <1>2, <1>3, <2>1 DEF Offered, RqOffers
  <2> QED BY <2>2, <2>4 DEF Offered, RqOffers
<1> QED BY <1>4, <1>5

(* Whatever is needed and has its inputs is buildable, throughout. *)
LEMMA OfferedStep ==
  ASSUME TypeOK, Offered, Next
  PROVE  Offered'
<1>1. rq \in RqType /\ hold \in HoldType
  BY DEF TypeOK
<1> DEFINE H == hold.covered \cup hold.notcovered
<1>2. H \in SUBSET Tasks /\ RqOffers(rq, H)
  BY <1>1 DEF HoldType, Offered
<1>3. ASSUME hold'.covered = hold.covered, hold'.notcovered = hold.notcovered,
             rq'.running = rq.running, rq'.complete = rq.complete, rq'.buildable = rq.buildable
      PROVE  Offered'
  BY <1>3 DEF Offered, RqOffers
<1>4. ASSUME hold' = hold, RqOffers(rq', H)
      PROVE  Offered'
  BY <1>4 DEF Offered
<1> HIDE DEF H
<1>5. ASSUME NEW p \in procs, ReadExit(p) PROVE Offered'
  <2>1. p.task \in Tasks
    BY GraphAssumption DEF TypeOK, ProcType
  <2>2. hold' = hold
    BY <1>5 DEF ReadExit
  <2>3. CASE rq' = TaskComplete(rq, p.task)
    <3>1. RqOffers(TaskCompleteOutright(rq, p.task), H)
      BY <1>1, <1>2, <2>1, CompleteOffers
    <3>2. TaskCompleteOutright(rq, p.task) \in RqType
      BY <1>1, <2>1, TaskCompleteOutrightType
    <3> DEFINE c == TaskCompleteOutright(rq, p.task)
    <3>3. rq' = [c EXCEPT !.tasksrun = @ \cup {p.task}, !.active = Decrement(@)]
      BY <2>3 DEF TaskComplete
    <3> HIDE DEF c
    <3>4. rq'.running = c.running /\ rq'.complete = c.complete /\ rq'.buildable = c.buildable
      BY <3>2, <3>3 DEF RqType, c
    <3>5. RqOffers(rq', H)
      BY <3>1, <3>4 DEF RqOffers, c
    <3> QED BY <1>4, <2>2, <3>5
  <2>4. CASE rq' = TaskFail(rq, p.task) \/ rq' = rq \/ rq' = [rq EXCEPT !.state = "CleanUp"]
    <3>1. rq'.running = rq.running /\ rq'.complete = rq.complete /\ rq'.buildable = rq.buildable
      BY <1>1, <2>4 DEF TaskFail, RqType
    <3> QED BY <1>3, <2>2, <3>1
  <2> QED BY <1>5, <2>3, <2>4 DEF ReadExit
<1>6. ASSUME NEW t \in Tasks, TaskSkipped(t) PROVE Offered'
  <2> DEFINE r == [rq EXCEPT !.running = @ \cup {t}, !.buildable = @ \cup {t}]
             c == TaskCompleteOutright(r, t)
  <2>1. r \in RqType /\ r.running = rq.running \cup {t} /\ r.buildable = rq.buildable \cup {t}
        /\ r.complete = rq.complete
    BY <1>1 DEF RqType
  <2>2. hold' = hold /\ rq' = [c EXCEPT !.tasksrun = IF t \in hold.covered THEN @ ELSE @ \cup {t}]
    BY <1>6 DEF TaskSkipped, TaskSkip
  <2> HIDE DEF r
  <2>3. RqOffers(r, H)
    BY <1>2, <2>1 DEF RqOffers
  <2>4. RqOffers(c, H) /\ c \in RqType
    BY <1>2, <2>1, <2>3, CompleteOffers, TaskCompleteOutrightType
  <2> HIDE DEF c
  <2>5. rq'.running = c.running /\ rq'.complete = c.complete /\ rq'.buildable = c.buildable
    BY <2>2, <2>4 DEF RqType
  <2>6. RqOffers(rq', H)
    BY <2>4, <2>5 DEF RqOffers
  <2> QED BY <1>4, <2>2, <2>6
<1>7. ASSUME NEW t \in Tasks, TaskNoExec(t) PROVE Offered'
  <2> DEFINE r == [rq EXCEPT !.running = @ \cup {t}, !.active = @ + 1]
             c == TaskCompleteOutright(r, t)
  <2>1. r \in RqType /\ r.running = rq.running \cup {t} /\ r.buildable = rq.buildable
        /\ r.complete = rq.complete
    <3>1. r \in RqType
      BY <1>1, TaskActiveType
    <3>2. r.running = rq.running \cup {t} /\ r.buildable = rq.buildable /\ r.complete = rq.complete
      BY <1>1 DEF RqType
    <3> QED BY <3>1, <3>2
  <2>2. hold' = hold /\ rq' = [c EXCEPT !.tasksrun = @ \cup {t}, !.active = Decrement(@)]
    BY <1>7 DEF TaskNoExec, TaskComplete
  <2>3. t \in rq.buildable
    BY <1>7 DEF TaskNoExec, MustRun, TaskCandidates
  <2> HIDE DEF r
  <2>4. RqOffers(r, H)
    BY <1>2, <2>1, <2>3 DEF RqOffers
  <2>5. RqOffers(c, H) /\ c \in RqType
    BY <1>2, <2>1, <2>4, CompleteOffers, TaskCompleteOutrightType
  <2> HIDE DEF c
  <2>6. rq'.running = c.running /\ rq'.complete = c.complete /\ rq'.buildable = c.buildable
    BY <2>2, <2>5 DEF RqType
  <2>7. RqOffers(rq', H)
    BY <2>5, <2>6 DEF RqOffers
  <2> QED BY <1>4, <2>2, <2>7
<1>8. ASSUME NEW t \in Tasks, TaskRun(t) PROVE Offered'
  <2>1. t \in rq.buildable /\ hold' = hold
    BY <1>8 DEF TaskRun, MustRun, TaskCandidates
  <2>2. rq'.running = rq.running \cup {t} /\ rq'.complete = rq.complete
        /\ rq'.buildable = rq.buildable
    BY <1>1, <1>8 DEF TaskRun, RqType
  <2>3. RqOffers(rq', H)
    BY <1>2, <2>1, <2>2 DEF RqOffers
  <2> QED BY <1>4, <2>1, <2>3
<1>9. CASE Migrate
  <2>0. PICK uni \in NewUnihashes : \E dk \in RehashedDisks(Moved(uni)) :
          MigrateReady(uni, dk) \/ HaltMigration(uni, dk)
    BY <1>9 DEF Migrate
  <2>1. PICK dk \in RehashedDisks(Moved(uni)) : MigrateReady(uni, dk) \/ HaltMigration(uni, dk)
    BY <2>0
  <2>2. hold'.covered = hold.covered /\ hold'.notcovered = hold.notcovered
    BY <1>1, <2>1 DEF MigrateReady, HaltMigration, Reopen, HoldType
  <2>3. rq' = rq \/ \E t : rq' = [rq EXCEPT !.failed = @ \cup {t}, !.state = "CleanUp"]
    BY <2>1 DEF MigrateReady, HaltMigration
  <2>4. rq'.running = rq.running /\ rq'.complete = rq.complete /\ rq'.buildable = rq.buildable
    BY <1>1, <2>3 DEF RqType
  <2> QED BY <1>3, <2>2, <2>4
<1>10. CASE Settle
  BY <1>10, OfferedSettle
<1>11. CASE \/ FinishNow \/ Finish \/ Execute \/ Teardown \/ ReadDone \/ MigrateNothing
            \/ (\E s \in Setscene : SceneSkip(s) \/ SceneFailOutright(s) \/ SceneRun(s))
            \/ SceneNone
            \/ (\E t \in Tasks : TaskForbidden(t) \/ TaskSpawnFails(t))
            \/ TaskNone \/ WriteFails \/ WaitForTasks \/ ForceDeferred \/ Conclude
            \/ (\E p \in procs : WorkerExit(p) \/ ReadUnihash(p))
            \/ WorkerDies \/ StopRequest \/ Ended
  <2>1. hold' = hold
    BY <1>11 DEF FinishNow, Finish, Execute, Teardown, ReadDone, MigrateNothing, SceneSkip,
      SceneFailOutright, SceneRun, SceneNone, TaskForbidden, TaskSpawnFails, TaskNone, WriteFails,
      WaitForTasks, ForceDeferred, Conclude, WorkerExit, ReadUnihash, WorkerDies, StopRequest,
      Ended, vars
  <2>2. \/ rq' = rq
        \/ \E st : rq' = [rq EXCEPT !.state = st]
        \/ \E st, a : rq' = [rq EXCEPT !.state = st, !.active = a]
        \/ \E t : rq' = TaskFail(rq, t)
    BY <1>11 DEF FinishNow, Finish, Execute, Teardown, ReadDone, MigrateNothing, SceneSkip,
      SceneFailOutright, SceneRun, SceneNone, TaskForbidden, TaskSpawnFails, TaskNone, WriteFails,
      WaitForTasks, ForceDeferred, Conclude, WorkerExit, ReadUnihash, WorkerDies, StopRequest,
      Ended, vars
  <2>3. rq'.running = rq.running /\ rq'.complete = rq.complete /\ rq'.buildable = rq.buildable
    BY <1>1, <2>2 DEF RqType, TaskFail
  <2> QED BY <1>3, <2>1, <2>3
<1> QED BY <1>5, <1>6, <1>7, <1>8, <1>9, <1>10, <1>11 DEF Next, CookerStep

(* A task that started and is not complete has failed or has a process;    *)
(* and so has each stamp in build_stamps.                                  *)
Explained ==
  env.worker = "up" =>
    /\ \A t \in rq.running \ rq.complete : t \in rq.failed \/ \E p \in RealProcs : p.task = t
    /\ \A d \in DOMAIN build_stamps : \E p \in procs : p.task = d

(* After the migrations, only tasks that did not end have their reports    *)
(* unprocessed.                                                            *)
ReportsAtWork ==
  pc \in {"scene", "settle", "task", "wait"} => \A e \in hash.queue : e[1] \in rq.running \ rq.complete

(* Which steps the cooker takes between its migrations and its wait. *)
LEMMA ChoiceStep ==
  ASSUME TypeOK, Next, pc' \in {"scene", "settle", "task", "wait"}
  PROVE  \/ MigrateNothing \/ Migrate \/ SceneNone \/ Settle \/ TaskNone
         \/ (\E s \in Setscene : SceneRun(s)) \/ (\E t \in Tasks : TaskRun(t))
         \/ pc' = pc /\ ((\E p \in procs : WorkerExit(p)) \/ WorkerDies)
<1>1. \A st : Return(st) \in {"top", "teardown"}
  BY DEF Return
<1>2. ASSUME FinishNow \/ Finish \/ Execute \/ Teardown \/ ReadDone
      PROVE  FALSE
  BY <1>1, <1>2 DEF FinishNow, Finish, Execute, Teardown, ReadDone
<1>3. ASSUME NEW p \in procs, ReadExit(p) \/ ReadUnihash(p) PROVE FALSE
  BY <1>3 DEF ReadExit, ReadUnihash, Reading
<1>4. ASSUME NEW s \in Setscene, SceneSkip(s) \/ SceneFailOutright(s) PROVE FALSE
  BY <1>1, <1>4 DEF SceneSkip, SceneFailOutright
<1>5. ASSUME NEW t \in Tasks, TaskForbidden(t) \/ TaskSkipped(t) \/ TaskNoExec(t) \/ TaskSpawnFails(t)
      PROVE  FALSE
  BY <1>1, <1>5 DEF TaskForbidden, TaskSkipped, TaskNoExec, TaskSpawnFails
<1>6. ASSUME WriteFails \/ WaitForTasks \/ ForceDeferred \/ Conclude \/ StopRequest \/ Ended
      PROVE  FALSE
  BY <1>1, <1>6 DEF WriteFails, WaitForTasks, ForceDeferred, Conclude, StopRequest, Ended, vars
<1>7. ASSUME NEW p \in procs, WorkerExit(p) PROVE pc' = pc
  BY <1>7 DEF WorkerExit
<1>8. WorkerDies => pc' = pc
  BY DEF WorkerDies
<1> QED BY <1>2, <1>3, <1>4, <1>5, <1>6, <1>7, <1>8 DEF Next, CookerStep

(* What is reported for a task that ended is drained before a task is chosen. *)
LEMMA ReportsStep ==
  ASSUME TypeOK, Started, NoStaleMigration, ReportsAtWork, Next
  PROVE  ReportsAtWork'
<1> SUFFICES ASSUME pc' \in {"scene", "settle", "task", "wait"}
             PROVE  \A e \in hash'.queue : e[1] \in rq'.running \ rq'.complete
  BY DEF ReportsAtWork
<1>1. hash \in HashType /\ rq \in RqType
  BY DEF TypeOK
<1>2. CASE MigrateNothing
  BY <1>2 DEF MigrateNothing
<1>3. CASE Migrate
  <2>1. PICK uni \in NewUnihashes : \E dk \in RehashedDisks(Moved(uni)) : MigrateReady(uni, dk)
    BY <1>3 DEF Migrate, NoStaleMigration
  <2>2. hash'.queue = hash.queue \ Drained /\ rq' = rq
    BY <1>1, <2>1 DEF MigrateReady, MigratedHash, HashType
  <2> QED BY <2>2 DEF Drained, Busy
<1>4. ASSUME NEW t \in Tasks, TaskRun(t) PROVE \A e \in hash'.queue : e[1] \in rq'.running \ rq'.complete
  <2>1. pc = "task" /\ hash' = hash
    BY <1>4 DEF TaskRun, MustRun
  <2>2. rq'.running = rq.running \cup {t} /\ rq'.complete = rq.complete
    BY <1>1, <1>4 DEF TaskRun, RqType
  <2> QED BY <2>1, <2>2 DEF ReportsAtWork
<1>5. ASSUME \/ SceneNone \/ Settle \/ TaskNone \/ (\E s \in Setscene : SceneRun(s))
             \/ pc' = pc /\ ((\E p \in procs : WorkerExit(p)) \/ WorkerDies)
      PROVE  \A e \in hash'.queue : e[1] \in rq'.running \ rq'.complete
  <2>1. pc \in {"scene", "settle", "task", "wait"} /\ hash' = hash
    BY <1>5 DEF SceneNone, Settle, TaskNone, SceneRun, WorkerExit, WorkerDies
  <2>2. RqSame
    BY <1>5, OtherRqSame
  <2> QED BY <2>1, <2>2 DEF ReportsAtWork, RqSame
<1> QED BY <1>2, <1>3, <1>4, <1>5, ChoiceStep

(* The exit of a process leaves nothing unexplained. *)
LEMMA ExplainedRead ==
  ASSUME TypeOK, Started, Untouched, Explained, NEW p \in procs, ReadExit(p)
  PROVE  Explained'
<1>1. rq \in RqType /\ p.task \in Tasks /\ env' = env /\ procs' = procs \ {p}
  BY GraphAssumption DEF TypeOK, ProcType, ReadExit
<1> SUFFICES ASSUME env.worker = "up"
             PROVE  /\ \A t \in rq'.running \ rq'.complete :
                         t \in rq'.failed \/ \E q \in procs' : ~q.scene /\ q.task = t
                    /\ \A d \in DOMAIN build_stamps' : \E q \in procs' : q.task = d
  BY <1>1 DEF Explained, RealProcs
<1>2. ASSUME NEW d \in DOMAIN build_stamps' PROVE \E q \in procs' : q.task = d
  <2>1. d \in DOMAIN build_stamps /\ d # p.task
    BY DEF ReadExit, Restrict
  <2> QED BY <1>1, <2>1 DEF Explained
<1>3. ASSUME NEW t \in rq'.running \ rq'.complete
      PROVE  t \in rq'.failed \/ \E q \in procs' : ~q.scene /\ q.task = t
  <2>1. CASE p.scene
    <3>1. p.task \in sq.live
      BY <2>1 DEF Started, SceneProcs
    <3>2. rq'.running = rq.running /\ rq'.complete = rq.complete /\ rq'.failed = rq.failed
      BY <1>1, <3>1 DEF ReadExit, RqType
    <3> QED BY <1>1, <1>3, <2>1, <3>2 DEF Explained, RealProcs
  <2>2. CASE ~p.scene
    <3>1. p.task \notin sq.live
      BY <2>2 DEF Started, RealProcs, Untouched, Idle
    <3>2. rq' = TaskComplete(rq, p.task) \/ rq' = TaskFail(rq, p.task)
      BY <3>1 DEF ReadExit
    <3>3. /\ rq'.running = rq.running
          /\ \/ rq'.complete = rq.complete \cup {p.task} /\ rq'.failed = rq.failed
             \/ rq'.complete = rq.complete /\ rq'.failed = rq.failed \cup {p.task}
      BY <1>1, <3>2 DEF TaskComplete, TaskCompleteOutright, TaskFail, RqType
    <3>4. t \in rq.running \ rq.complete
      BY <1>3, <3>3
    <3>5. CASE t = p.task
      BY <1>3, <3>3, <3>5
    <3>6. CASE t # p.task
      BY <1>1, <3>3, <3>4, <3>6 DEF Explained, RealProcs
    <3> QED BY <3>5, <3>6
  <2> QED BY <2>1, <2>2
<1> QED BY <1>2, <1>3

(* No step loses track of a task. *)
LEMMA ExplainedStep ==
  ASSUME TypeOK, Started, Untouched, Explained, Next
  PROVE  Explained'
<1>1. rq \in RqType
  BY DEF TypeOK
<1> DEFINE Reals(t) == \E q \in procs' : ~q.scene /\ q.task = t
<1>2. ASSUME env'.worker = "up" =>
               /\ \A t \in rq'.running \ rq'.complete : t \in rq'.failed \/ Reals(t)
               /\ \A d \in DOMAIN build_stamps' : \E q \in procs' : q.task = d
      PROVE  Explained'
  BY <1>2 DEF Explained, RealProcs
<1>3. ASSUME env.worker = "up"
      PROVE  /\ \A t \in rq.running \ rq.complete :
                  t \in rq.failed \/ \E q \in procs : ~q.scene /\ q.task = t
             /\ \A d \in DOMAIN build_stamps : \E q \in procs : q.task = d
  BY <1>3 DEF Explained, RealProcs
<1>4. ASSUME NEW p \in procs, ReadExit(p) PROVE Explained'
  BY <1>4, ExplainedRead
<1>5. ASSUME NEW p \in procs, WorkerExit(p) PROVE Explained'
  <2>1. PICK st \in {"ok", "fail"} : procs' = (procs \ {p}) \cup {[p EXCEPT !.status = st]}
    BY <1>5 DEF WorkerExit
  <2> DEFINE e == [p EXCEPT !.status = st]
  <2>2. e.task = p.task /\ e.scene = p.scene
    BY DEF TypeOK, ProcType
  <2>3. rq' = rq /\ build_stamps' = build_stamps /\ env' = env
    BY <1>5 DEF WorkerExit
  <2> HIDE DEF e
  <2>4. \A q \in procs : \E x \in procs' : x.task = q.task /\ x.scene = q.scene
    BY <2>1, <2>2 DEF e
  <2> QED BY <1>2, <1>3, <2>3, <2>4 DEF Explained, RealProcs
<1>6. ASSUME NEW s \in Setscene, SceneRun(s) PROVE Explained'
  <2> DEFINE n == [task |-> s, scene |-> TRUE, status |-> "running"]
  <2>1. procs' = procs \cup {n} /\ n.task = s /\ rq' = rq /\ env' = env
        /\ DOMAIN build_stamps' = DOMAIN build_stamps \cup {s}
    BY <1>6 DEF SceneRun
  <2> HIDE DEF n
  <2> QED BY <1>2, <1>3, <2>1 DEF Explained, RealProcs
<1>7. ASSUME NEW t \in Tasks, TaskRun(t) PROVE Explained'
  <2> DEFINE n == [task |-> t, scene |-> FALSE, status |-> "running"]
  <2>1. procs' = procs \cup {n} /\ n.task = t /\ ~n.scene /\ env' = env
        /\ DOMAIN build_stamps' = DOMAIN build_stamps \cup {t}
    BY <1>7 DEF TaskRun
  <2>2. rq'.running = rq.running \cup {t} /\ rq'.complete = rq.complete /\ rq'.failed = rq.failed
    BY <1>1, <1>7 DEF TaskRun, RqType
  <2> HIDE DEF n
  <2> QED BY <1>2, <1>3, <2>1, <2>2 DEF Explained, RealProcs
<1>8. ASSUME NEW t \in Tasks, TaskSkipped(t) \/ TaskNoExec(t) PROVE Explained'
  <2>1. procs' = procs /\ build_stamps' = build_stamps /\ env' = env
    BY <1>8 DEF TaskSkipped, TaskNoExec
  <2>2. rq'.running = rq.running \cup {t} /\ rq'.complete = rq.complete \cup {t}
    <3>1. \/ rq'.complete = TaskSkip(rq, t).complete /\ rq'.running = TaskSkip(rq, t).running
          \/ rq' = TaskComplete([rq EXCEPT !.running = @ \cup {t}, !.active = @ + 1], t)
      BY <1>1, <1>8, TaskSkipType DEF TaskSkipped, TaskNoExec, RqType
    <3> QED BY <1>1, <3>1, StartsComplete
  <2>3. rq'.failed = rq.failed
    BY <1>8, TaskLaunches DEF Launches, TypeOK
  <2> QED BY <1>2, <1>3, <2>1, <2>2, <2>3 DEF Explained, RealProcs
<1>9. CASE Migrate
  <2>1. procs' = procs /\ env' = env /\ RqSame
    BY <1>9, OtherRqSame DEF Migrate
  <2>2. PICK uni \in NewUnihashes : \E dk \in RehashedDisks(Moved(uni)) :
          MigrateReady(uni, dk) \/ HaltMigration(uni, dk)
    BY <1>9 DEF Migrate
  <2>3. DOMAIN build_stamps' \subseteq DOMAIN build_stamps
    <3>1. \E S : build_stamps' = Restrict(build_stamps, DOMAIN build_stamps \ S)
      BY <2>2 DEF MigrateReady, HaltMigration
    <3> QED BY <3>1 DEF Restrict
  <2>4. rq.failed \subseteq rq'.failed
    <3>1. rq' = rq \/ \E t : rq' = [rq EXCEPT !.failed = @ \cup {t}, !.state = "CleanUp"]
      BY <2>2 DEF MigrateReady, HaltMigration
    <3> QED BY <1>1, <3>1 DEF RqType
  <2> QED BY <1>2, <1>3, <2>1, <2>3, <2>4 DEF RqSame
<1>10. CASE Teardown \/ WriteFails \/ WorkerDies
  <2>1. env'.worker # "up"
    BY <1>10 DEF Teardown, WriteFails, WorkerDies, TypeOK, EnvType
  <2> QED BY <1>2, <2>1
<1>11. CASE \/ FinishNow \/ Finish \/ Execute \/ ReadDone \/ MigrateNothing
            \/ (\E s \in Setscene : SceneSkip(s) \/ SceneFailOutright(s))
            \/ SceneNone \/ Settle
            \/ (\E t \in Tasks : TaskForbidden(t) \/ TaskSpawnFails(t))
            \/ TaskNone \/ WaitForTasks \/ ForceDeferred \/ Conclude
            \/ (\E p \in procs : ReadUnihash(p))
            \/ StopRequest \/ Ended
  <2>1. procs' = procs /\ build_stamps' = build_stamps /\ env'.worker = env.worker
    BY <1>11 DEF FinishNow, Finish, Execute, ReadDone, MigrateNothing, SceneSkip, SceneFailOutright,
       SceneNone, Settle, TaskForbidden, TaskSpawnFails, TaskNone, WaitForTasks, ForceDeferred,
       Conclude, ReadUnihash, StopRequest, Ended, vars, TypeOK, EnvType
  <2>2. RqSame
    BY <1>11, OtherRqSame
  <2>3. rq.failed \subseteq rq'.failed
    <3>1. \/ rq' = rq
          \/ \E st : rq' = [rq EXCEPT !.state = st]
          \/ \E st, a : rq' = [rq EXCEPT !.state = st, !.active = a]
          \/ \E b, st : rq' = [rq EXCEPT !.buildable = b, !.state = st]
          \/ \E t : rq' = TaskFail(rq, t)
      BY <1>11 DEF FinishNow, Finish, Execute, ReadDone, MigrateNothing, SceneSkip, SceneFailOutright,
         SceneNone, Settle, TaskForbidden, TaskSpawnFails, TaskNone, WaitForTasks, ForceDeferred,
         Conclude, ReadUnihash, StopRequest, Ended, vars
    <3> QED BY <1>1, <3>1 DEF RqType, TaskFail
  <2> QED BY <1>2, <1>3, <2>1, <2>2, <2>3 DEF Explained, RealProcs, RqSame
<1> QED BY <1>4, <1>5, <1>6, <1>7, <1>8, <1>9, <1>10, <1>11 DEF Next, CookerStep

----------------------------------------------------------------------------
(* The run queue is never out of work before its time.                     *)

(* The build goes on, and nothing is under way. *)
Quiet == rq.state = "Running" /\ procs = {} /\ sq.live = {} /\ sq.deferred = <<>>

(* --setscene-only, with something to restore. *)
RestoresOnly == SetsceneOnly /\ Setscene # {}

(* In execute() no stop is pending, and once holdoff_tasks is recomputed   *)
(* it is up to date until the pipes are read again.  What is held off is   *)
(* held off for an undecided setscene task.                                *)
Undisturbed ==
  /\ pc \in {"read", "migrate", "scene", "settle", "task", "wait"} => env.stop = "none"
  /\ pc \in {"task", "wait"} => ~sq.need_update
  /\ rq.state = "Running" /\ ~sq.need_update /\ Undecided = {} => hold.tasks = {}

(* When nothing is under way, execute() only comes past a choice that      *)
(* found nothing to choose; with --setscene-only it does not come past the *)
(* end of the setscene phase.                                              *)
Searched ==
  /\ pc \in {"settle", "task", "wait"} /\ Quiet => hold.sqdone \/ sq.buildable \subseteq sq.running
  /\ RestoresOnly => ~hold.sqdone
  /\ pc \in {"task", "wait"} /\ Quiet /\ rq.failed = {} => ~RestoresOnly
  /\ pc = "wait" /\ Quiet => TaskCandidates = {}

(* No step disturbs them. *)
LEMMA UndisturbedStep ==
  ASSUME HardOrRehash, TypeOK, SqDecided(sq), SqHard(sq), NoRehash, Fresh, Undisturbed, Next
  PROVE  Undisturbed'
<1>1. sq \in SqType /\ env \in EnvType
  BY DEF TypeOK
<1>2. pc' \in {"read", "migrate", "scene", "settle", "task", "wait"} => env'.stop = "none"
  <2>1. CASE pc' = "read"
    <3>1. Execute \/ (pc = "read" /\ env'.stop = env.stop)
      <4>1. \A st : Return(st) # "read"
        BY DEF Return
      <4> QED BY <1>1, <2>1, <4>1 DEF EnvType, Next, CookerStep, FinishNow, Finish, Execute,
            Teardown, ReadExit, ReadDone, MigrateNothing, Migrate, SceneSkip, SceneFailOutright, SceneRun, SceneNone,
            Settle, TaskForbidden, TaskSkipped, TaskNoExec, TaskSpawnFails, TaskRun, TaskNone,
            WriteFails, WaitForTasks, ForceDeferred, Conclude, WorkerExit, ReadUnihash, WorkerDies,
            StopRequest, Ended, vars
    <3> QED BY <3>1 DEF Execute, Undisturbed
  <2>2. CASE pc' = "migrate"
    <3>1. pc \in {"read", "migrate"} /\ env'.stop = env.stop
      <4>1. \A st : Return(st) # "migrate"
        BY DEF Return
      <4> QED BY <1>1, <2>2, <4>1 DEF EnvType, Next, CookerStep, FinishNow, Finish, Execute,
            Teardown, ReadExit, ReadDone, MigrateNothing, Migrate, SceneSkip, SceneFailOutright, SceneRun, SceneNone,
            Settle, TaskForbidden, TaskSkipped, TaskNoExec, TaskSpawnFails, TaskRun, TaskNone,
            WriteFails, WaitForTasks, ForceDeferred, Conclude, WorkerExit, ReadUnihash, WorkerDies,
            StopRequest, Ended, vars
    <3> QED BY <3>1 DEF Undisturbed
  <2>3. CASE pc' \in {"scene", "settle", "task", "wait"}
    <3>1. pc \in {"migrate", "scene", "settle", "task", "wait"} /\ env'.stop = env.stop
      BY <1>1, <2>3, ChoiceStep DEF EnvType, MigrateNothing, Migrate, SceneNone, Settle, TaskNone,
         SceneRun, TaskRun, MustRun, WorkerExit, WorkerDies
    <3> QED BY <3>1 DEF Undisturbed
  <2> QED BY <2>1, <2>2, <2>3
<1>3. pc' \in {"task", "wait"} => ~sq'.need_update
  <2> SUFFICES ASSUME pc' \in {"task", "wait"} PROVE ~sq'.need_update
    OBVIOUS
  <2>1. CASE Settle
    BY <2>1, SettleSame
  <2>2. CASE ~Settle
    <3>1. pc \in {"task", "wait"} /\ sq' = sq
      <4>1. \A st : Return(st) \in {"top", "teardown"}
        BY DEF Return
      <4> QED BY <2>2, <4>1, ChoiceStep DEF MigrateNothing, Migrate, SceneNone, TaskNone, SceneRun,
            TaskRun, MustRun, WorkerExit, WorkerDies
    <3> QED BY <3>1 DEF Undisturbed
  <2> QED BY <2>1, <2>2
<1>4. rq'.state = "Running" /\ ~sq'.need_update /\ Undecided' = {} => hold'.tasks = {}
  <2> SUFFICES ASSUME rq'.state = "Running", ~sq'.need_update, Undecided' = {} PROVE hold'.tasks = {}
    OBVIOUS
  <2>0. rq.state = "Running"
    BY RunningBefore
  <2>1. CASE Settle
    <3>1. Undecided = {}
      BY <2>1, SettleSame DEF Undecided
    <3>2. hold'.tasks = SettledHold.tasks
      BY <2>1, SettledType DEF Settle, HoldType
    <3>3. CASE sq.need_update
      <4>1. SettledHold.tasks = HeldOff
        BY <3>3 DEF SettledHold, TypeOK, HoldType
      <4>2. HeldOff = {}
        BY <3>1 DEF HeldOff
      <4> QED BY <3>2, <4>1, <4>2
    <3>4. CASE ~sq.need_update
      BY <2>0, <3>1, <3>2, <3>4 DEF SettledHold, Undisturbed
    <3> QED BY <3>3, <3>4
  <2>2. CASE ~Settle
    <3>1. ~sq.need_update /\ Undecided = {}
      BY <2>2, SettledKept DEF Undecided
    <3>2. hold'.tasks = hold.tasks
      <4>1. CASE Migrate
        <5>1. NoHardDepends
          BY <4>1, ConfigAssumption, MigrateRehash
        <5> QED BY <4>1, <5>1, MigrateRestarts
      <4>2. CASE ~Migrate
        BY <2>2, <4>2, SceneDoneElsewhere
      <4> QED BY <4>1, <4>2
    <3> QED BY <2>0, <3>1, <3>2 DEF Undisturbed
  <2> QED BY <2>1, <2>2
<1> QED BY <1>2, <1>3, <1>4 DEF Undisturbed

(* With everything decided, every task is placed. *)
LEMMA PlacedAll ==
  ASSUME TypeOK, Setscene \subseteq Decided(sq), sq.done = Tasks
  PROVE  Covered \cup NotCovered = Tasks
<1>1. Covered \subseteq Tasks /\ NotCovered \subseteq Tasks
  BY DEF Covered, NotCovered, TypeOK, SqType
<1>2. ASSUME NEW t \in Tasks PROVE t \in Covered \cup NotCovered
  <2>1. CASE t \in Setscene
    BY <2>1 DEF Decided, Covered, NotCovered
  <2>2. CASE t \in RealTasks /\ t \in Unskippable
    BY <2>2 DEF NotCovered, RealTasks
  <2>3. ASSUME NEW s \in Setscene, t \in CoveredBy[s] PROVE t \in Covered \cup NotCovered
    <3>1. CASE s \in sq.covered
      BY <2>3, <3>1 DEF Covered
    <3>2. CASE s \in sq.notcovered
      BY <2>3, <3>2 DEF NotCovered
    <3> QED BY <3>1, <3>2 DEF Decided
  <2>4. t \in Setscene \/ t \in RealTasks
    BY DEF RealTasks
  <2> QED BY <2>1, <2>2, <2>3, <2>4, EveryTaskPlaced
<1> QED BY <1>1, <1>2

(* When nothing is under way, everything is decided and what was started   *)
(* is complete, or failed.                                                 *)
LEMMA Quiesced ==
  ASSUME NoHardDepends, TypeOK, SqDecided(sq), Onward(sq), Explained, ReportsAtWork,
         SceneDoneDecided, Verdict, Searched, Quiet, pc \in {"settle", "task", "wait"}
  PROVE  /\ Undecided = {} /\ rq.running \ rq.complete \subseteq rq.failed
         /\ DOMAIN build_stamps = {} /\ (rq.failed = {} => hash.queue = {})
<1>1. sq \in SqType
  BY DEF TypeOK
<1>2. env.worker = "up"
  BY DEF Verdict, Quiet
<1>3. rq.running \ rq.complete \subseteq rq.failed /\ DOMAIN build_stamps = {}
  BY <1>2 DEF Explained, Quiet, RealProcs
<1>4. rq.failed = {} => hash.queue = {}
  BY <1>3 DEF ReportsAtWork
<1>5. CASE hold.sqdone
  BY <1>3, <1>4, <1>5 DEF SceneDoneDecided, Quiet
<1>6. CASE ~hold.sqdone
  <2>1. sq.buildable \subseteq sq.running
    BY <1>6 DEF Searched
  <2>2. sq.running \subseteq Decided(sq)
    BY DEF Onward, Accounted, Quiet
  <2>3. ASSUME Undecided # {} PROVE FALSE
    <3>1. PICK s \in Undecided : SqRevdeps[s] \cap Undecided = {}
      BY <2>3, SceneTopExists DEF Undecided
    <3>2. s \in Setscene /\ SqRevdeps[s] \subseteq Setscene
      BY DEF Undecided, SqRevdeps, Squash
    <3>3. SqRevdeps[s] \subseteq Decided(sq)
      BY <3>1, <3>2 DEF Undecided, Decided
    <3>4. s \in sq.buildable
      BY <3>2, <3>3 DEF Onward, Released
    <3> QED BY <2>1, <2>2, <3>4 DEF Undecided, Decided
  <2> QED BY <1>3, <1>4, <2>3
<1> QED BY <1>5, <1>6

(* With everything decided, nothing is held off. *)
LEMMA SettledNone ==
  ASSUME TypeOK, Undisturbed, rq.state = "Running", Undecided = {}
  PROVE  SettledHold.tasks = {}
<1>1. CASE sq.need_update
  <2>1. SettledHold.tasks = HeldOff
    BY <1>1 DEF SettledHold, TypeOK, HoldType
  <2> QED BY <2>1 DEF HeldOff
<1>2. CASE ~sq.need_update
  BY <1>2 DEF SettledHold, Undisturbed
<1> QED BY <1>1, <1>2

(* The steps that leave nothing under way started nothing. *)
LEMMA QuietStep ==
  ASSUME MayDie = FALSE, TypeOK, Next, Quiet', pc' \in {"settle", "task", "wait"}
  PROVE  Quiet /\ (SceneNone \/ Settle \/ TaskNone)
<1>1. rq.state = "Running"
  BY RunningBefore DEF Quiet
<1>2. ~Migrate /\ ~MigrateNothing /\ ~WorkerDies
  BY DEF Migrate, MigrateNothing, WorkerDies
<1>3. ~(\E s \in Setscene : SceneRun(s)) /\ ~(\E t \in Tasks : TaskRun(t))
      /\ ~(\E p \in procs : WorkerExit(p))
  BY DEF Quiet, SceneRun, TaskRun, WorkerExit
<1>4. SceneNone \/ Settle \/ TaskNone
  BY <1>2, <1>3, ChoiceStep
<1>5. CASE SceneNone \/ TaskNone
  BY <1>4, <1>5 DEF SceneNone, TaskNone, Quiet
<1>6. CASE Settle
  <2>1. procs' = procs /\ sq'.live = sq.live /\ sq'.deferred = sq.deferred
    BY <1>6, SettleSame
  <2> QED BY <1>1, <1>6, <2>1 DEF Quiet
<1> QED BY <1>4, <1>5, <1>6

(* A search that finds nothing had nothing to find. *)
LEMMA SceneNoneSearched ==
  ASSUME TypeOK, Explained, Verdict, Counts, Quiet, SceneNone
  PROVE  hold.sqdone \/ sq.buildable \subseteq sq.running
<1>1. env.worker = "up"
  BY DEF Verdict, Quiet
<1>2. DOMAIN build_stamps = {}
  BY <1>1 DEF Explained, Quiet
<1>3. Range(build_stamps) = {}
  BY <1>2 DEF Range
<1>4. CanStartTask
  <2> DEFINE N == {}
  <2>1. RealProcs = N /\ sq.live = N
    BY DEF Quiet, RealProcs
  <2>2. rq.active = Cardinality(N)
    BY <1>1, <2>1 DEF Counts, Counted, Counting, SceneNone
  <2>3. Cardinality(N) = 0
    BY FS_EmptySet
  <2> HIDE DEF N
  <2> QED BY <2>1, <2>2, <2>3, ConfigAssumption DEF CanStartTask
<1>5. \A s \in SceneCandidates : FALSE
  <2>1. \A s : ~Blocked(s)
    BY DEF Blocked, Quiet
  <2> QED BY <2>1 DEF SceneNone
<1> QED BY <1>3, <1>4, <1>5 DEF SceneCandidates

(* The active real tasks are none. *)
LEMMA QuietActive ==
  ASSUME Verdict, Counts, Quiet, pc \in {"task", "wait"}
  PROVE  rq.active = 0 /\ CanStartTask
<1> DEFINE N == {}
<1>1. RealProcs = N /\ sq.live = N
  BY DEF Quiet, RealProcs
<1>2. env.worker = "up"
  BY DEF Verdict, Quiet
<1>3. rq.active = Cardinality(N)
  BY <1>1, <1>2 DEF Counts, Counted, Counting, Quiet
<1>4. Cardinality(N) = 0
  BY FS_EmptySet
<1> HIDE DEF N
<1> QED BY <1>1, <1>3, <1>4, ConfigAssumption DEF CanStartTask

(* The tick does not come past a choice it could have made. *)
LEMMA SearchedStep ==
  ASSUME NoHardDepends, MayDie = FALSE, TypeOK, SqDecided(sq), Onward(sq), Explained, ReportsAtWork,
         SceneDoneDecided, Verdict, Counts, Undisturbed, Searched, Next
  PROVE  Searched'
<1>1. hold \in HoldType
  BY DEF TypeOK
<1>2. env'.options = env.options
  BY DEF Next, CookerStep, FinishNow, Finish, Execute, Teardown, ReadExit,
            ReadDone, MigrateNothing, Migrate, SceneSkip, SceneFailOutright, SceneRun, SceneNone,
            Settle, TaskForbidden, TaskSkipped, TaskNoExec, TaskSpawnFails, TaskRun, TaskNone,
            WriteFails, WaitForTasks, ForceDeferred, Conclude, WorkerExit, ReadUnihash, WorkerDies,
            StopRequest, Ended, vars, TypeOK, EnvType
<1>3. RestoresOnly' <=> RestoresOnly
  BY <1>2 DEF RestoresOnly, SetsceneOnly
<1>4. RestoresOnly' => ~hold'.sqdone
  <2> SUFFICES ASSUME RestoresOnly PROVE ~hold'.sqdone
    BY <1>3
  <2>0. ~hold.sqdone /\ SetsceneOnly
    BY DEF Searched, RestoresOnly
  <2>1. CASE Settle
    <3>1. SettledHold.sqdone = hold.sqdone /\ SettledHold \in HoldType
      BY <1>1, SettledType DEF SettledHold, HoldType
    <3> DEFINE ended == SceneFinished(SettledHold)
               err == ended /\ SceneErrors(SettledBuildable, SettledHold)
    <3>2. hold' = [SettledHold EXCEPT !.sqdone = (@ \/ (ended /\ ~err /\ ~(ended /\ ~err /\ SetsceneOnly)))]
      BY <2>1 DEF Settle
    <3>3. hold'.sqdone = (SettledHold.sqdone \/ (ended /\ ~err /\ ~(ended /\ ~err /\ SetsceneOnly)))
      BY <3>1, <3>2 DEF HoldType
    <3> HIDE DEF ended, err
    <3> QED BY <2>0, <3>1, <3>3
  <2>2. CASE Migrate
    <3>1. hold' = hold \/ \E M : hold' = Reopen(hold, M)
      BY <2>2 DEF Migrate, MigrateReady, HaltMigration
    <3> QED BY <1>1, <2>0, <3>1 DEF Reopen, HoldType
  <2>3. CASE ~Settle /\ ~Migrate
    BY <2>0, <2>3, SceneDoneElsewhere
  <2> QED BY <2>1, <2>2, <2>3
<1>5. ASSUME pc' \in {"settle", "task", "wait"}, Quiet'
      PROVE  /\ hold'.sqdone \/ sq'.buildable \subseteq sq'.running
             /\ pc' \in {"task", "wait"} /\ rq'.failed = {} => ~RestoresOnly
             /\ pc' = "wait" => TaskCandidates' = {}
  <2>1. Quiet /\ (SceneNone \/ Settle \/ TaskNone)
    BY <1>5, QuietStep
  <2>2. CASE SceneNone
    BY <2>1, <2>2, SceneNoneSearched DEF SceneNone
  <2>3. CASE Settle
    <3>1. Undecided = {} /\ (rq.failed = {} => hash.queue = {})
      BY <2>1, <2>3, Quiesced DEF Settle
    <3>2. SettledHold.tasks = {} /\ rq'.failed = rq.failed
      BY <2>1, <2>3, <3>1, SettledNone DEF Quiet, Settle, TypeOK, RqType
    <3>3. sq'.buildable = sq.buildable /\ sq'.running = sq.running
      BY <2>3, SettleSame
    <3>4. hold.sqdone => hold'.sqdone
      <4>1. SettledHold.sqdone = hold.sqdone /\ SettledHold \in HoldType
        BY <1>1, SettledType DEF SettledHold, HoldType
      <4> QED BY <2>3, <4>1 DEF Settle, HoldType
    <3>5. pc' = "task"
      BY <1>5, <2>3 DEF Settle
    <3>6. rq'.failed = {} => ~RestoresOnly
      <4>1. SUFFICES ASSUME rq.failed = {}, RestoresOnly PROVE FALSE
        BY <3>2
      <4>2. SceneFinished(SettledHold) /\ SetsceneOnly
        BY <2>1, <3>1, <3>2, <4>1 DEF SceneFinished, Searched, Quiet, RestoresOnly
      <4> QED BY <2>3, <3>5, <4>2 DEF Settle
    <3> QED BY <2>1, <2>3, <3>3, <3>4, <3>5, <3>6 DEF Searched, Settle
  <2>4. CASE TaskNone
    <3>1. /\ pc = "task" /\ UNCHANGED <<rq, sq, hold, hash, build_stamps, procs, disk, env>>
          /\ TaskCandidates = {} \/ rq.active # 0
      BY <2>4 DEF TaskNone
    <3>2. TaskCandidates = {}
      BY <2>1, <3>1, QuietActive
    <3>3. TaskCandidates' = TaskCandidates
      BY <3>1 DEF TaskCandidates, SetsceneOnly, CanStartTask, TooManyThreads, Busy
    <3> QED BY <2>1, <3>1, <3>2, <3>3 DEF Searched
  <2> QED BY <2>1, <2>2, <2>3, <2>4
<1> QED BY <1>3, <1>4, <1>5 DEF Searched

(* The setscene phase ends without an error. *)
LEMMA SettleSound ==
  ASSUME TypeOK, SqDecided(sq), DoneBelow(sq), Fresh, Accurate, Offered, rq.state = "Running",
         SceneFinished(SettledHold)
  PROVE  ~SceneErrors(SettledBuildable, SettledHold)
<1>1. sq \in SqType /\ hold \in HoldType
  BY DEF TypeOK
<1> DEFINE h == SettledHold
<1>2. h.tasks = {} /\ sq.deferred = <<>> /\ hash.queue = {}
  BY DEF SceneFinished
<1>3. sq.need_update => h.covered = Covered /\ h.notcovered = NotCovered /\ h.tasks = HeldOff
  BY <1>1 DEF SettledHold, HoldType
<1>4. ~sq.need_update => h = hold
  BY DEF SettledHold
<1> HIDE DEF h
<1>5. Undecided = {}
  <2>1. CASE sq.need_update
    BY <1>2, <1>3, <2>1 DEF HeldOff
  <2>2. CASE ~sq.need_update
    <3>1. \A s \in Undecided : s \in hold.tasks
      BY <2>2 DEF Fresh, HeldOffUndecided, Around, Undecided, Decided
    <3> QED BY <1>2, <1>4, <2>2, <3>1
  <2> QED BY <2>1, <2>2
<1>6. Setscene \subseteq Decided(sq)
  BY <1>5 DEF Undecided, Decided
<1>7. sq.done = Tasks /\ Covered \cup NotCovered = Tasks
  BY <1>1, <1>6, DecidedDone, PlacedAll
<1>8. h.covered \cup h.notcovered = Tasks
  BY <1>3, <1>4, <1>7 DEF Accurate
<1>9. Setscene \subseteq (sq.covered \cup sq.notcovered) \cap sq.buildable \cap sq.running
  BY <1>6 DEF SqDecided, Decided
<1>10. ASSUME NEW t \in Tasks, Depends[t] = {} PROVE t \in SettledBuildable
  <2>1. Depends[t] \subseteq rq.complete
    BY <1>10
  <2>2. CASE sq.need_update
    BY <1>7, <2>1, <2>2 DEF SettledBuildable
  <2>3. CASE ~sq.need_update
    BY <1>4, <1>8, <2>1, <2>3 DEF Offered, RqOffers, SettledBuildable
  <2> QED BY <2>2, <2>3
<1> QED BY <1>2, <1>7, <1>8, <1>9, <1>10 DEF SceneErrors, h

(* Before the verdict, with nothing under way, all is decided and placed,  *)
(* and what does not run has an input that is not complete or waits for    *)
(* [number_threads].                                                       *)
LEMMA QuietPlaced ==
  ASSUME NoHardDepends, TypeOK, SqDecided(sq), Onward(sq), Explained, ReportsAtWork, Accurate, Offered,
         SceneDoneDecided, Verdict, Counts, Undisturbed, Searched, Quiet, pc = "wait"
  PROVE  /\ Setscene \subseteq Decided(sq) /\ hold.tasks = {}
         /\ sq.done = Tasks /\ hold.covered \cup hold.notcovered = Tasks
         /\ \A t \in Tasks : Depends[t] \subseteq rq.complete => t \in rq.buildable
         /\ ~SetsceneOnly => \A t \in Tasks \ rq.running :
                               Depends[t] \subseteq rq.complete => TooManyThreads(t)
<1>1. sq \in SqType /\ hold \in HoldType /\ rq \in RqType
  BY DEF TypeOK
<1>2. Undecided = {} /\ DOMAIN build_stamps = {}
  BY Quiesced
<1>3. ~sq.need_update /\ hold.tasks = {}
  BY <1>2 DEF Undisturbed, Quiet
<1>4. Setscene \subseteq Decided(sq)
  BY <1>2 DEF Undecided, Decided
<1>5. sq.done = Tasks /\ Covered \cup NotCovered = Tasks
  BY <1>1, <1>4, DecidedDone, PlacedAll DEF Onward
<1>6. hold.covered \cup hold.notcovered = Tasks
  BY <1>3, <1>5 DEF Accurate, Quiet
<1>7. \A t \in Tasks : Depends[t] \subseteq rq.complete => t \in rq.buildable
  BY <1>6 DEF Offered, RqOffers
<1>8. ASSUME ~SetsceneOnly, NEW t \in Tasks \ rq.running, Depends[t] \subseteq rq.complete
      PROVE  TooManyThreads(t)
  <2>1. t \in (rq.buildable \ rq.running) \ hold.tasks
    BY <1>3, <1>7, <1>8
  <2>2. RealStamp(t, InitUnihash[t]) \notin Range(build_stamps)
    BY <1>2 DEF Range
  <2>3. CanStartTask /\ TaskCandidates = {}
    BY QuietActive DEF Searched
  <2> QED BY <1>6, <1>8, <2>1, <2>2, <2>3 DEF TaskCandidates
<1> QED BY <1>3, <1>4, <1>5, <1>6, <1>7, <1>8

(* When it is time for the verdict and nothing failed, no check finds      *)
(* anything wrong.                                                         *)
LEMMA ConcludeSound ==
  ASSUME NoHardDepends, SetsceneOnly => Setscene # {},
         TypeOK, SqDecided(sq), Onward(sq), Explained, ReportsAtWork, Accurate, Offered,
         SceneDoneDecided, Verdict, Counts, Started, Undisturbed, Searched, Quiet, pc = "wait",
         rq.failed = {}
  PROVE  ~SanityErrors
<1>1. rq \in RqType
  BY DEF TypeOK
<1>2. rq.running \subseteq rq.complete /\ hash.queue = {}
  BY Quiesced
<1>3. /\ Setscene \subseteq Decided(sq) /\ hold.tasks = {}
      /\ sq.done = Tasks /\ hold.covered \cup hold.notcovered = Tasks
      /\ \A t \in Tasks : Depends[t] \subseteq rq.complete => t \in rq.buildable
      /\ ~SetsceneOnly => \A t \in Tasks \ rq.running :
                            Depends[t] \subseteq rq.complete => TooManyThreads(t)
  BY QuietPlaced
<1>4. ~SetsceneOnly
  BY DEF Searched, RestoresOnly
<1>5. rq.complete = Tasks
  <2> DEFINE X == Tasks \ rq.complete
  <2>1. rq.complete \subseteq Tasks
    BY <1>1 DEF RqType
  <2> SUFFICES ASSUME X # {} PROVE FALSE
    BY <2>1
  <2>2. PICK t \in X : Depends[t] \cap X = {}
    BY AcyclicAssumption
  <2>3. Depends[t] \subseteq rq.complete
    BY <2>2, GraphAssumption
  <2>4. TooManyThreads(t)
    BY <1>2, <1>3, <1>4, <2>2, <2>3
  <2>5. ~TooManyThreads(t)
    <3> DEFINE N == {}
               limit == NumberThreads[TaskName[t]]
    <3>1. {r \in Busy(Tasks) : TaskName[r] = TaskName[t]} = N
      BY <1>2 DEF Busy
    <3>2. Cardinality(N) = 0
      BY FS_EmptySet
    <3>3. limit \in Nat
      <4>1. TaskName[t] \in {TaskName[x] : x \in Tasks}
        BY <2>2
      <4> QED BY <4>1, ConfigAssumption
    <3> HIDE DEF N, limit
    <3>4. ~(limit > 0 /\ Cardinality(N) >= limit)
      BY <3>2, <3>3
    <3> QED BY <3>1, <3>4 DEF TooManyThreads, limit
  <2> QED BY <2>4, <2>5
<1>6. Tasks \subseteq rq.running /\ rq.complete \subseteq rq.running
  BY <1>5 DEF Started
<1>7. Tasks \subseteq rq.buildable
  BY <1>3, <1>5, GraphAssumption
<1>8. Setscene \subseteq (sq.covered \cup sq.notcovered) \cap sq.buildable \cap sq.running
  BY <1>3 DEF SqDecided, Decided
<1>9. ~SceneErrors(rq.buildable, hold)
  BY <1>2, <1>3, <1>7, <1>8 DEF SceneErrors, Quiet
<1> QED BY <1>5, <1>6, <1>7, <1>9 DEF SanityErrors

(* Completing a task is no failure. *)
LEMMA CompletesQuietly ==
  ASSUME NEW r \in RqType, NEW t \in Tasks
  PROVE  /\ TaskCompleteOutright(r, t).state = r.state /\ TaskCompleteOutright(r, t).failed = r.failed
         /\ TaskComplete(r, t).state = r.state /\ TaskComplete(r, t).failed = r.failed
<1> DEFINE c == TaskCompleteOutright(r, t)
<1>1. c \in RqType
  BY TaskCompleteOutrightType
<1>2. c.state = r.state /\ c.failed = r.failed
  BY DEF TaskCompleteOutright, RqType
<1>3. TaskComplete(r, t) = [c EXCEPT !.tasksrun = @ \cup {t}, !.active = Decrement(@)]
  BY DEF TaskComplete
<1> HIDE DEF c
<1>4. TaskComplete(r, t).state = c.state /\ TaskComplete(r, t).failed = c.failed
  BY <1>1, <1>3 DEF RqType
<1> QED BY <1>2, <1>4 DEF c

(* Starting a task does not change the state of the build. *)
LEMMA StartsQuietly ==
  ASSUME TypeOK, NEW t \in Tasks, TaskSkipped(t) \/ TaskNoExec(t) \/ TaskRun(t)
  PROVE  rq'.state = rq.state
<1>0. rq \in RqType
  BY DEF TypeOK
<1>1. CASE TaskSkipped(t)
  <2> DEFINE r == [rq EXCEPT !.running = @ \cup {t}, !.buildable = @ \cup {t}]
             c == TaskCompleteOutright(r, t)
  <2>1. r \in RqType /\ r.state = rq.state
    BY <1>0 DEF RqType
  <2>2. \E T : rq' = [c EXCEPT !.tasksrun = T]
    BY <1>1 DEF TaskSkipped, TaskSkip
  <2> HIDE DEF r
  <2>3. c \in RqType /\ c.state = r.state
    BY <2>1, TaskCompleteOutrightType, CompletesQuietly
  <2> HIDE DEF c
  <2> QED BY <2>1, <2>2, <2>3 DEF RqType
<1>2. CASE TaskNoExec(t)
  <2> DEFINE r == [rq EXCEPT !.running = @ \cup {t}, !.active = @ + 1]
  <2>1. r \in RqType
    BY <1>0, TaskActiveType
  <2>2. r.state = rq.state
    BY <1>0 DEF RqType
  <2>3. rq' = TaskComplete(r, t)
    BY <1>2 DEF TaskNoExec
  <2> HIDE DEF r
  <2> QED BY <2>1, <2>2, <2>3, CompletesQuietly
<1>3. CASE TaskRun(t)
  BY <1>0, <1>3 DEF TaskRun, RqType
<1> QED BY <1>1, <1>2, <1>3

(* Only the two verdicts can end a build as failed while nothing failed. *)
LEMMA FailedStep ==
  ASSUME SpawnFails = {}, TypeOK, env.worker # "dead", Next, rq'.state = "Failed", rq'.failed = {}
  PROVE  (rq.state = "Failed" /\ rq.failed = {}) \/ Settle \/ Conclude
<1>1. rq \in RqType
  BY DEF TypeOK
<1>2. \A st : Polled(st) = st
  BY DEF Polled
<1>3. CASE FinishNow \/ Finish
  <2>1. rq'.failed = rq.failed
    BY <1>1, <1>3 DEF FinishNow, Finish, RqType
  <2>2. rq'.state \in {Outcome, "CleanUp"}
    BY <1>1, <1>2, <1>3 DEF FinishNow, Finish, RqType
  <2> QED BY <2>1, <2>2 DEF Outcome
<1>4. CASE Execute \/ WaitForTasks
  <2>1. rq'.failed = rq.failed /\ rq'.state = rq.state
    BY <1>1, <1>2, <1>4 DEF Execute, WaitForTasks, RqType
  <2> QED BY <2>1
<1>5. ASSUME NEW p \in procs, ReadExit(p) PROVE rq.state = "Failed" /\ rq.failed = {}
  <2>1. \/ rq' = TaskComplete(rq, p.task)
        \/ rq' = TaskFail(rq, p.task)
        \/ rq' = rq \/ rq' = [rq EXCEPT !.state = "CleanUp"]
    BY <1>5 DEF ReadExit
  <2>2. p.task \in Tasks
    BY GraphAssumption DEF TypeOK, ProcType
  <2>3. CASE rq' = TaskComplete(rq, p.task)
    BY <1>1, <2>2, <2>3, CompletesQuietly
  <2>4. CASE rq' = TaskFail(rq, p.task)
    <3>1. rq'.failed = rq.failed \cup {p.task}
      BY <1>1, <2>4 DEF TaskFail, RqType
    <3> QED BY <3>1
  <2>5. CASE rq' = rq \/ rq' = [rq EXCEPT !.state = "CleanUp"]
    BY <1>1, <2>5 DEF RqType
  <2> QED BY <2>1, <2>3, <2>4, <2>5
<1>6. ASSUME NEW t \in Tasks, TaskSkipped(t) \/ TaskNoExec(t) \/ TaskRun(t)
      PROVE  rq.state = "Failed" /\ rq.failed = {}
  <2>1. rq'.failed = rq.failed
    BY <1>6, TaskLaunches DEF Launches
  <2>2. rq'.state = rq.state
    <3>1. CASE TaskSkipped(t)
      <4> DEFINE r == [rq EXCEPT !.running = @ \cup {t}, !.buildable = @ \cup {t}]
                 c == TaskCompleteOutright(r, t)
      <4>1. r \in RqType /\ r.state = rq.state
        BY <1>1 DEF RqType
      <4>2. \E T : rq' = [c EXCEPT !.tasksrun = T]
        BY <3>1 DEF TaskSkipped, TaskSkip
      <4> HIDE DEF r
      <4>3. c \in RqType /\ c.state = r.state
        BY <4>1, TaskCompleteOutrightType, CompletesQuietly
      <4> HIDE DEF c
      <4> QED BY <4>1, <4>2, <4>3 DEF RqType
    <3>2. CASE TaskNoExec(t)
      <4> DEFINE r == [rq EXCEPT !.running = @ \cup {t}, !.active = @ + 1]
      <4>1. r \in RqType
        BY <1>1, TaskActiveType
      <4>2. r.state = rq.state
        BY <1>1 DEF RqType
      <4>3. rq' = TaskComplete(r, t)
        BY <3>2 DEF TaskNoExec
      <4> HIDE DEF r
      <4> QED BY <4>1, <4>2, <4>3, CompletesQuietly
    <3>3. CASE TaskRun(t)
      BY <1>1, <3>3 DEF TaskRun, RqType
    <3> QED BY <1>6, <3>1, <3>2, <3>3
  <2> QED BY <2>1, <2>2
<1>7. ASSUME NEW t \in Tasks, TaskForbidden(t) PROVE rq.state = "Failed" /\ rq.failed = {}
  BY <1>1, <1>7 DEF TaskForbidden, TaskFail, RqType
<1>8. ~\E t \in Tasks : TaskSpawnFails(t)
  BY DEF TaskSpawnFails, Unspawnable
<1>9. CASE Migrate
  <2>1. rq' = rq \/ \E t : rq' = [rq EXCEPT !.failed = @ \cup {t}, !.state = "CleanUp"]
    BY <1>9 DEF Migrate, MigrateReady, HaltMigration
  <2> QED BY <1>1, <2>1 DEF RqType
<1>10. ~WriteFails
  BY DEF WriteFails
<1>11. CASE \/ Teardown \/ ReadDone \/ MigrateNothing
            \/ (\E s \in Setscene : SceneSkip(s) \/ SceneFailOutright(s) \/ SceneRun(s))
            \/ SceneNone \/ TaskNone \/ ForceDeferred
            \/ (\E p \in procs : WorkerExit(p) \/ ReadUnihash(p))
            \/ WorkerDies \/ StopRequest \/ Ended
  <2>1. rq' = rq
    BY <1>11 DEF Teardown, ReadDone, MigrateNothing, SceneSkip, SceneFailOutright, SceneRun,
       SceneNone, TaskNone, ForceDeferred, WorkerExit, ReadUnihash, WorkerDies, StopRequest, Ended,
       vars
  <2> QED BY <2>1
<1> QED BY <1>3, <1>4, <1>5, <1>6, <1>7, <1>8, <1>9, <1>10, <1>11 DEF Next, CookerStep

(* The invariant of the run queue that goes on. *)
Progress == Onward(sq) /\ Offered /\ Explained /\ ReportsAtWork /\ Undisturbed /\ Searched

(* What the theorems above say of a state. *)
Sound ==
  /\ TypeOK /\ DepsComplete /\ SceneDoneDecided /\ Apart /\ Counts /\ Verdict /\ Accurate
  /\ NoStaleMigration

(* It holds at the start, *)
LEMMA ProgressInit ==
  ASSUME NoHardDepends, Init
  PROVE  Progress
<1>1. Onward(sq)
  BY OnwardInit
<1>2. Offered
  <2>1. rq.buildable = (IF Setscene = {} THEN {t \in Tasks : Depends[t] = {}} ELSE InitialBuildable)
        /\ rq.running = {} /\ rq.complete = {}
        /\ hold.covered = {} /\ hold.notcovered = (IF Setscene = {} THEN Tasks ELSE {})
    BY DEF Init
  <2> QED BY <2>1 DEF Offered, RqOffers
<1>3. Explained /\ ReportsAtWork
  <2>1. rq.running = {} /\ build_stamps = <<>> /\ pc = "top"
    BY DEF Init
  <2> QED BY <2>1 DEF Explained, ReportsAtWork
<1>4. Undisturbed
  BY DEF Undisturbed, Init
<1>5. Searched
  <2>1. pc = "top" /\ hold.sqdone = (Setscene = {}) /\ env.options \in Options
    BY DEF Init
  <2> QED BY <2>1 DEF Searched, RestoresOnly
<1> QED BY <1>1, <1>2, <1>3, <1>4, <1>5 DEF Progress

(* and every step keeps it. *)
LEMMA ProgressStep ==
  ASSUME NoHardDepends, MayDie = FALSE, Sound, Progress, Next
  PROVE  Progress'
<1> USE DEF Sound, Progress, Apart
<1>1. HardOrRehash
  BY DEF HardOrRehash
<1>2. Onward(sq')
  BY OnwardStep
<1>3. Offered'
  BY OfferedStep
<1>4. Explained' /\ ReportsAtWork'
  BY ExplainedStep, ReportsStep
<1>5. Undisturbed'
  BY <1>1, UndisturbedStep
<1>6. Searched'
  BY SearchedStep
<1> QED BY <1>2, <1>3, <1>4, <1>5, <1>6

(* A step that ends the build as failed has a failure to report. *)
LEMMA FailureStep ==
  ASSUME NoHardDepends, NoEnforce, SpawnFails = {}, SetsceneOnly => Setscene # {},
         Sound, Progress, FailureHasCause, Next
  PROVE  FailureHasCause'
<1> USE DEF Sound, Progress, Apart
<1> SUFFICES ASSUME rq'.state = "Failed", rq'.failed = {} PROVE FALSE
  BY DEF FailureHasCause
<1>1. Settle \/ Conclude
  <2>1. env.worker # "dead"
    BY DEF Verdict
  <2> QED BY <2>1, FailedStep DEF FailureHasCause
<1>2. pc \in {"settle", "wait"}
  BY <1>1 DEF Settle, Conclude, NothingLives
<1>3. rq.failed = {}
  BY <1>1 DEF Settle, Conclude, TypeOK, RqType
<1>4. rq.state = "Running"
  <2>1. rq.state \in {"Running", "CleanUp"}
    BY <1>2 DEF Verdict, TypeOK, RqType, States
  <2>2. env.stop = "none" /\ ~Enforce
    BY <1>2 DEF Undisturbed, TypeOK, EnvType, NoEnforce, Enforce
  <2> QED BY <1>3, <2>1, <2>2 DEF Verdict, Halted
<1>5. CASE Settle
  <2>1. rq.state # "Failed"
    BY <1>4
  <2>2. SceneFinished(SettledHold) /\ SceneErrors(SettledBuildable, SettledHold)
    BY <1>4, <1>5 DEF Settle, TypeOK, RqType
  <2> QED BY <1>4, <2>2, SettleSound DEF Onward
<1>6. CASE Conclude
  <2>1. procs = {} /\ sq.live = {} /\ sq.deferred = <<>> /\ pc = "wait"
    BY <1>4, <1>6, ConcludeIdle DEF Conclude, NothingLives
  <2>2. Quiet
    BY <1>3, <1>4, <2>1 DEF Quiet
  <2>3. ~SanityErrors
    BY <1>3, <2>1, <2>2, ConcludeSound
  <2> QED BY <1>3, <1>6, <2>3 DEF Conclude, TypeOK, RqType
<1> QED BY <1>1, <1>5, <1>6

(* Where the worker does not die, and without hard dependencies and        *)
(* BB_SETSCENE_ENFORCE, the run queue always goes on.                      *)
LEMMA ProgressInvariant ==
  ASSUME NoHardDepends, NoEnforce, MayDie = FALSE
  PROVE  Spec => [](Sound /\ Progress)
<1>1. HardOrDeferred /\ HardOrRehash /\ EnforceHalts
  BY DEF HardOrDeferred, HardOrRehash, EnforceHalts, NoEnforce
<1>2. Init => Verdict
  BY DEF Init, Verdict, Succeeded, Halted
<1>3. TypeOK /\ Counts /\ Verdict /\ [Next]_vars => Verdict'
  <2> SUFFICES ASSUME TypeOK, Counts, Verdict, [Next]_vars PROVE Verdict'
    OBVIOUS
  <2>1. CASE Next
    BY <2>1, VerdictStep
  <2>2. CASE UNCHANGED vars
    BY <2>2 DEF vars, Verdict, Succeeded, Halted, SetsceneOnly, Enforce
  <2> QED BY <2>1, <2>2
<1>4. Spec => []Verdict
  BY <1>1, <1>2, <1>3, CountsInvariant, TypeCorrect, PTL DEF Spec
<1>5. Inputs => Accurate
  BY DEF Inputs
<1>6. Spec => []Sound
  BY <1>1, <1>4, <1>5, TypeCorrect, DepsCompleteInvariant, SceneDoneInvariant, ApartInvariant,
     CountsInvariant, InputsInvariant, NeverTooLate, PTL DEF Sound
<1>7. Init => Progress
  BY ProgressInit
<1>8. Sound /\ Progress /\ [Next]_vars => Progress'
  <2> SUFFICES ASSUME Sound, Progress, [Next]_vars PROVE Progress'
    OBVIOUS
  <2>1. CASE Next
    BY <2>1, ProgressStep
  <2>2. CASE UNCHANGED vars
    <3>1. Onward(sq') /\ Offered' /\ Explained' /\ ReportsAtWork'
      BY <2>2 DEF vars, Progress, Offered, Explained, ReportsAtWork, RealProcs
    <3>2. Undisturbed' /\ Searched'
      BY <2>2 DEF vars, Progress, Undisturbed, Searched, Undecided, Quiet, RestoresOnly,
         SetsceneOnly, TaskCandidates, CanStartTask, TooManyThreads, Busy
    <3> QED BY <3>1, <3>2 DEF Progress
  <2> QED BY <2>1, <2>2
<1> QED BY <1>6, <1>7, <1>8, PTL DEF Spec

(* A build ends as failed only because something failed: neither the       *)
(* checks at the end of the setscene phase nor those of the verdict ever   *)
(* fire, so that no setscene task is forgotten, none holds a real task off *)
(* for ever, and the scheduler never runs out of work before every task is *)
(* complete.                                                               *)
THEOREM FailsForCause ==
  ASSUME NoHardDepends, NoEnforce, MayDie = FALSE, SpawnFails = {},
         \A o \in Options : "setsceneonly" \in o => Setscene # {}
  PROVE  Spec => []FailureHasCause
<1>1. Init => FailureHasCause
  BY DEF Init, FailureHasCause
<1>2. Sound /\ Progress /\ FailureHasCause /\ [Next]_vars => FailureHasCause'
  <2> SUFFICES ASSUME Sound, Progress, FailureHasCause, [Next]_vars PROVE FailureHasCause'
    OBVIOUS
  <2>1. SetsceneOnly => Setscene # {}
    BY DEF SetsceneOnly, Sound, TypeOK, EnvType
  <2>2. CASE Next
    BY <2>1, <2>2, FailureStep
  <2>3. CASE UNCHANGED vars
    BY <2>3 DEF vars, FailureHasCause
  <2> QED BY <2>2, <2>3
<1> QED BY <1>1, <1>2, ProgressInvariant, PTL DEF Spec

----------------------------------------------------------------------------
(* bitbake -k.                                                             *)

(* What depends on a failed task, directly or not, depends on more of them *)
(* as more fail.                                                           *)
LEMMA DependentsMonotonic ==
  ASSUME NEW S, NEW T, S \subseteq T
  PROVE  Dependents(S) \subseteq Dependents(T)
<1> SUFFICES ASSUME NEW t \in Dependents(S), NEW U \in SUBSET Tasks,
                    UNION {Revdeps[s] : s \in T} \subseteq U, \A u \in U : Revdeps[u] \subseteq U
             PROVE  t \in Tasks /\ t \in U
  BY DEF Dependents
<1>1. UNION {Revdeps[s] : s \in S} \subseteq UNION {Revdeps[s] : s \in T}
  OBVIOUS
<1>2. UNION {Revdeps[s] : s \in S} \subseteq U
  BY <1>1
<1> QED BY <1>2 DEF Dependents

(* What depends on one of them is one of them. *)
LEMMA DependentsClosed ==
  ASSUME NEW S \in SUBSET Tasks, NEW t \in Tasks, NEW d \in S \cup Dependents(S), d \in Depends[t]
  PROVE  t \in Dependents(S)
<1>1. t \in Revdeps[d]
  BY DEF Revdeps, Dependents
<1> SUFFICES ASSUME NEW U \in SUBSET Tasks,
                    UNION {Revdeps[s] : s \in S} \subseteq U, \A u \in U : Revdeps[u] \subseteq U
             PROVE  t \in U
  BY DEF Dependents
<1>2. CASE d \in S
  BY <1>1, <1>2
<1>3. CASE d \in Dependents(S)
  <2>1. d \in U
    BY <1>3 DEF Dependents
  <2> QED BY <1>1, <2>1
<1> QED BY <1>2, <1>3

(* Everything that does not depend on a failed task is complete. *)
RestBuilt == Tasks \ (rq.failed \cup Dependents(rq.failed)) \subseteq rq.complete

(* With -k, and unless it is stopped, a build goes on to its verdict; the  *)
(* rest is built by then.                                                  *)
KeepsGoing ==
  ~Halt /\ env.stop = "none" =>
    /\ rq.state # "CleanUp"
    /\ rq.state \in {"Complete", "Failed"} => RestBuilt

(* Only the verdict takes such a build out of the running state. *)
LEMMA KeepsState ==
  ASSUME NoEnforce, SpawnFails = {}, Sound, Progress, ~Halt, ~SetsceneOnly, env.stop = "none",
         rq.state # "CleanUp", Next
  PROVE  rq'.state = rq.state \/ Conclude
<1> USE DEF Sound, Progress, Apart
<1>1. rq \in RqType /\ env.worker # "dead" /\ ~Enforce
  BY DEF TypeOK, Verdict, EnvType, NoEnforce, Enforce
<1>2. \A st : Polled(st) = st
  BY <1>1 DEF Polled
<1>3. ~FinishNow /\ ~Finish /\ ~WriteFails
  BY <1>1 DEF FinishNow, Finish, WriteFails
<1>4. CASE Execute \/ WaitForTasks
  BY <1>1, <1>2, <1>4 DEF Execute, WaitForTasks, RqType
<1>5. ASSUME NEW p \in procs, ReadExit(p) PROVE rq'.state = rq.state
  <2>1. \/ rq' = TaskComplete(rq, p.task)
        \/ rq' = TaskFail(rq, p.task)
        \/ rq' = rq
    BY <1>1, <1>5 DEF ReadExit
  <2>2. p.task \in Tasks
    BY GraphAssumption DEF TypeOK, ProcType
  <2>3. CASE rq' = TaskComplete(rq, p.task)
    BY <1>1, <2>2, <2>3, CompletesQuietly
  <2>4. CASE rq' = TaskFail(rq, p.task)
    BY <1>1, <2>4 DEF TaskFail, RqType
  <2> QED BY <2>1, <2>3, <2>4
<1>6. ASSUME NEW t \in Tasks, TaskSkipped(t) \/ TaskNoExec(t) \/ TaskRun(t)
      PROVE  rq'.state = rq.state
  BY <1>6, StartsQuietly
<1>7. ~\E t \in Tasks : TaskForbidden(t) \/ TaskSpawnFails(t)
  BY <1>1 DEF TaskForbidden, Forbidden, TaskSpawnFails, Unspawnable
<1>8. CASE Migrate
  BY <1>8 DEF Migrate, MigrateReady, NoStaleMigration
<1>9. CASE Settle
  <2>1. rq.state = "Running"
    BY <1>1, <1>9 DEF Verdict, Settle, RqType, States
  <2>2. ~(SceneFinished(SettledHold) /\ SceneErrors(SettledBuildable, SettledHold))
    BY <2>1, SettleSound DEF Onward
  <2> QED BY <1>1, <1>9, <2>2 DEF Settle, RqType
<1>10. CASE \/ Teardown \/ ReadDone \/ MigrateNothing
            \/ (\E s \in Setscene : SceneSkip(s) \/ SceneFailOutright(s) \/ SceneRun(s))
            \/ SceneNone \/ TaskNone \/ ForceDeferred
            \/ (\E p \in procs : WorkerExit(p) \/ ReadUnihash(p))
            \/ WorkerDies \/ StopRequest \/ Ended
  <2>1. rq' = rq
    BY <1>10 DEF Teardown, ReadDone, MigrateNothing, SceneSkip, SceneFailOutright, SceneRun,
       SceneNone, TaskNone, ForceDeferred, WorkerExit, ReadUnihash, WorkerDies, StopRequest, Ended,
       vars
  <2> QED BY <2>1
<1> QED BY <1>3, <1>4, <1>5, <1>6, <1>7, <1>8, <1>9, <1>10 DEF Next, CookerStep

(* At the verdict there is nothing left but failed tasks and what depends  *)
(* on them.                                                                *)
LEMMA QuietRest ==
  ASSUME NoHardDepends, \A n \in DOMAIN NumberThreads : NumberThreads[n] = 0,
         Sound, Progress, ~SetsceneOnly, Quiet, pc = "wait"
  PROVE  RestBuilt
<1> USE DEF Sound, Progress, Apart
<1>1. rq \in RqType
  BY DEF TypeOK
<1> DEFINE X == (Tasks \ (rq.failed \cup Dependents(rq.failed))) \ rq.complete
<1> SUFFICES ASSUME X # {} PROVE FALSE
  BY DEF RestBuilt
<1>2. PICK t \in X : Depends[t] \cap X = {}
  BY AcyclicAssumption
<1>3. ASSUME NEW d \in Depends[t], d \notin rq.complete PROVE FALSE
  <2>1. d \in rq.failed \cup Dependents(rq.failed)
    BY <1>2, <1>3, GraphAssumption
  <2>2. rq.failed \in SUBSET Tasks /\ t \in Tasks
    BY <1>1 DEF RqType
  <2>3. t \in Dependents(rq.failed)
    BY <1>3, <2>1, <2>2, DependentsClosed
  <2> QED BY <2>3
<1>4. rq.running \ rq.complete \subseteq rq.failed
  BY Quiesced
<1>5. TooManyThreads(t)
  BY <1>2, <1>3, <1>4, QuietPlaced
<1>6. NumberThreads[TaskName[t]] = 0
  <2>1. TaskName[t] \in {TaskName[x] : x \in Tasks}
    BY <1>2
  <2> QED BY <2>1, ConfigAssumption
<1> QED BY <1>5, <1>6 DEF TooManyThreads

(* No step ends such a build before its time. *)
LEMMA KeepsGoingStep ==
  ASSUME NoHardDepends, NoEnforce, SpawnFails = {},
         \A n \in DOMAIN NumberThreads : NumberThreads[n] = 0,
         ~Halt => ~SetsceneOnly, Sound, Progress, KeepsGoing, Next
  PROVE  KeepsGoing'
<1>1. rq \in RqType /\ env \in EnvType
  BY DEF Sound, TypeOK
<1>2. env'.options = env.options /\ (env'.stop = "none" => env.stop = "none")
  <2>1. CASE StopRequest
    <3>1. PICK s \in Stops : env' = [env EXCEPT !.stop = s]
      BY <2>1 DEF StopRequest
    <3>2. s # "none"
      BY ConfigAssumption
    <3> QED BY <1>1, <3>1, <3>2 DEF EnvType
  <2>2. CASE ~StopRequest
    <3>1. env' = env \/ \E w : env' = [env EXCEPT !.worker = w]
      BY <2>2 DEF Next, CookerStep, FinishNow, Finish, Execute, Teardown, ReadExit,
            ReadDone, MigrateNothing, Migrate, SceneSkip, SceneFailOutright, SceneRun, SceneNone,
            Settle, TaskForbidden, TaskSkipped, TaskNoExec, TaskSpawnFails, TaskRun, TaskNone,
            WriteFails, WaitForTasks, ForceDeferred, Conclude, WorkerExit, ReadUnihash, WorkerDies,
            Ended, vars
    <3> QED BY <1>1, <3>1 DEF EnvType
  <2> QED BY <2>1, <2>2
<1> SUFFICES ASSUME ~Halt, env.stop = "none", env'.stop = "none"
             PROVE  /\ rq'.state # "CleanUp"
                    /\ rq'.state \in {"Complete", "Failed"} => RestBuilt'
  BY <1>2 DEF KeepsGoing, Halt
<1>3. rq.state # "CleanUp"
  BY DEF KeepsGoing
<1>4. CASE Conclude
  <2>1. rq.state = "Running"
    BY <1>1, <1>3, <1>4 DEF Sound, Verdict, Conclude, NothingLives, RqType, States
  <2>2. Quiet /\ pc = "wait"
    BY <1>4, <2>1, ConcludeIdle DEF Sound, Conclude, NothingLives, Quiet
  <2>3. RestBuilt
    BY <2>2, QuietRest
  <2>4. rq'.failed = rq.failed /\ rq'.complete = rq.complete /\ rq'.state # "CleanUp"
    BY <1>1, <1>4 DEF Conclude, RqType
  <2> QED BY <2>3, <2>4 DEF RestBuilt
<1>5. CASE rq'.state = rq.state
  <2>1. rq.failed \subseteq rq'.failed /\ rq.complete \subseteq rq'.complete
    BY OrderStep DEF Sound, Apart, RqSame, Launches, Starts, Finishes
  <2>2. RestBuilt => RestBuilt'
    <3>1. Dependents(rq.failed) \subseteq Dependents(rq'.failed)
      BY <2>1, DependentsMonotonic
    <3> QED BY <2>1, <3>1 DEF RestBuilt
  <2> QED BY <1>3, <1>5, <2>2 DEF KeepsGoing
<1> QED BY <1>3, <1>4, <1>5, KeepsState

(* bitbake -k: when a build that was not stopped ends, whatever failed,    *)
(* every task that does not depend on a failed one is complete, unless     *)
(* [number_threads] is set, whose slots failed tasks keep.                 *)
THEOREM BuildsRest ==
  ASSUME NoHardDepends, NoEnforce, MayDie = FALSE, SpawnFails = {},
         \A n \in DOMAIN NumberThreads : NumberThreads[n] = 0,
         \A o \in Options : ~({"continue", "setsceneonly"} \subseteq o)
  PROVE  Spec => []ContinueBuildsRest
<1>1. Init => KeepsGoing
  BY DEF Init, KeepsGoing
<1>2. Sound /\ Progress /\ KeepsGoing /\ [Next]_vars => KeepsGoing'
  <2> SUFFICES ASSUME Sound, Progress, KeepsGoing, [Next]_vars PROVE KeepsGoing'
    OBVIOUS
  <2>1. ~Halt => ~SetsceneOnly
    BY DEF Halt, SetsceneOnly, Sound, TypeOK, EnvType
  <2>2. CASE Next
    BY <2>1, <2>2, KeepsGoingStep
  <2>3. CASE UNCHANGED vars
    BY <2>3 DEF vars, KeepsGoing, Halt, RestBuilt
  <2> QED BY <2>2, <2>3
<1>3. Sound /\ KeepsGoing => ContinueBuildsRest
  BY DEF Sound, Verdict, TypeOK, RqType, States, KeepsGoing, RestBuilt, ContinueBuildsRest
<1> QED BY <1>1, <1>2, <1>3, ProgressInvariant, PTL DEF Spec

----------------------------------------------------------------------------
(* Setscene tasks that restore the same object.                            *)

(* Without rehashing, a task keeps the index it is deferred under. *)
Idx(s) == HashIndex(s, InitUnihash[s])

Twins(s, t) == s # t /\ Idx(s) = Idx(t)

(* No object is restored by more than three setscene tasks, or by more     *)
(* than two.                                                               *)
FewTwins ==
  \A s, t, u, v \in Setscene : Twins(s, t) /\ Twins(s, u) /\ Twins(s, v) => t = u \/ t = v \/ u = v

PairedTwins == \A s, t, u \in Setscene : Twins(s, t) /\ Twins(s, u) => t = u

(* A deferred task waits for a task of its index, and all those of an      *)
(* index wait for the same one.                                            *)
Waits(q) ==
  /\ \A s \in DOMAIN q.deferred :
       q.deferred[s] \in Setscene \ DOMAIN q.deferred /\ Idx(q.deferred[s]) = Idx(s)
  /\ \A s, t \in DOMAIN q.deferred : Idx(s) = Idx(t) => q.deferred[s] = q.deferred[t]

(* Of the tasks of an index that are not deferred, one at most is          *)
(* undecided; while another one is deferred, it is the one that waits for, *)
(* or one of X, which were forced; and while two are deferred, the one     *)
(* they wait for is not complete.                                          *)
Turns(q, complete, X) ==
  /\ \A u, v \in Setscene \ DOMAIN q.deferred : Twins(u, v) => u \in Decided(q) \/ v \in Decided(q)
  /\ \A s \in DOMAIN q.deferred : \A u \in Setscene \ DOMAIN q.deferred :
       Twins(s, u) => u = q.deferred[s] \/ u \in Decided(q) \cup X
  /\ \A s, t \in DOMAIN q.deferred : Twins(s, t) => q.deferred[s] \notin complete

(* The first task deferred after t goes on, the others wait for it. *)
Undeferred(f, t) ==
  LET waiting == {s \in DOMAIN f : f[s] = t}
      found   == CHOOSE s \in waiting : TRUE
  IN  IF waiting = {} THEN f
      ELSE [s \in DOMAIN f \ {found} |-> IF s \in waiting THEN found ELSE f[s]]

(* Nothing is deferred or let go. *)
LEMMA TurnsKept ==
  ASSUME NEW q, NEW r, NEW done, NEW X, Turns(q, done, X), Waits(q),
         Decided(q) \subseteq Decided(r), r.deferred = q.deferred
  PROVE  Waits(r) /\ Turns(r, done, X)
BY DEF Turns, Waits

(* A task is dropped from the deferrals once it is decided, *)
LEMMA TurnsDecided ==
  ASSUME NEW q, NEW r, NEW done, NEW X, Turns(q, done, X), Waits(q),
         Decided(q) \subseteq Decided(r), NEW s \in Decided(r),
         r.deferred = Restrict(q.deferred, DOMAIN q.deferred \ {s})
  PROVE  Waits(r) /\ Turns(r, done, X)
<1>1. /\ DOMAIN r.deferred = DOMAIN q.deferred \ {s}
      /\ \A t \in DOMAIN r.deferred : r.deferred[t] = q.deferred[t]
  BY DEF Restrict
<1>2. Waits(r)
  BY <1>1 DEF Waits
<1>3. ASSUME NEW u \in Setscene \ DOMAIN r.deferred, NEW v \in Setscene \ DOMAIN r.deferred, Twins(u, v)
      PROVE  u \in Decided(r) \/ v \in Decided(r)
  <2>1. CASE u = s \/ v = s
    BY <2>1
  <2>2. CASE u # s /\ v # s
    BY <1>1, <1>3, <2>2 DEF Turns
  <2> QED BY <2>1, <2>2
<1>4. ASSUME NEW t \in DOMAIN r.deferred, NEW u \in Setscene \ DOMAIN r.deferred, Twins(t, u)
      PROVE  u = r.deferred[t] \/ u \in Decided(r) \cup X
  <2>1. CASE u = s
    BY <2>1
  <2>2. CASE u # s
    BY <1>1, <1>4, <2>2 DEF Turns
  <2> QED BY <2>1, <2>2
<1>5. ASSUME NEW t \in DOMAIN r.deferred, NEW u \in DOMAIN r.deferred, Twins(t, u)
      PROVE  r.deferred[t] \notin done
  BY <1>1, <1>5 DEF Turns
<1> QED BY <1>2, <1>3, <1>4, <1>5 DEF Turns

(* or once the task it waits for is complete, *)
LEMMA TurnsUnblocked ==
  ASSUME NEW q, NEW r, NEW done, Turns(q, done, {}), Waits(q),
         Decided(q) \subseteq Decided(r), done \cap Setscene \subseteq Decided(q), NEW s,
         s \in DOMAIN q.deferred => q.deferred[s] \in done,
         r.deferred = Restrict(q.deferred, DOMAIN q.deferred \ {s})
  PROVE  Waits(r) /\ Turns(r, done, {})
<1>1. /\ DOMAIN r.deferred = DOMAIN q.deferred \ {s}
      /\ \A t \in DOMAIN r.deferred : r.deferred[t] = q.deferred[t]
  BY DEF Restrict
<1>2. Waits(r)
  BY <1>1 DEF Waits
<1>3. ASSUME NEW v \in Setscene \ DOMAIN q.deferred, s \in DOMAIN q.deferred, Twins(s, v)
      PROVE  v \in Decided(r)
  <2>1. q.deferred[s] \in Decided(r)
    BY <1>3 DEF Waits
  <2> QED BY <1>3, <2>1 DEF Turns
<1>4. ASSUME NEW t \in DOMAIN r.deferred, s \in DOMAIN q.deferred
      PROVE  ~Twins(s, t)
  BY <1>1, <1>4 DEF Turns
<1>5. ASSUME NEW u \in Setscene \ DOMAIN r.deferred, NEW v \in Setscene \ DOMAIN r.deferred, Twins(u, v)
      PROVE  u \in Decided(r) \/ v \in Decided(r)
  <2>1. CASE u \in DOMAIN q.deferred
    <3>1. u = s /\ v \notin DOMAIN q.deferred
      BY <1>1, <1>5, <2>1 DEF Twins
    <3> QED BY <1>3, <1>5, <2>1, <3>1
  <2>2. CASE v \in DOMAIN q.deferred
    <3>1. v = s /\ u \notin DOMAIN q.deferred /\ Twins(v, u)
      BY <1>1, <1>5, <2>2 DEF Twins
    <3> QED BY <1>3, <2>2, <3>1
  <2>3. CASE u \notin DOMAIN q.deferred /\ v \notin DOMAIN q.deferred
    BY <1>5, <2>3 DEF Turns
  <2> QED BY <2>1, <2>2, <2>3
<1>6. ASSUME NEW t \in DOMAIN r.deferred, NEW u \in Setscene \ DOMAIN r.deferred, Twins(t, u)
      PROVE  u = r.deferred[t] \/ u \in Decided(r) \cup {}
  <2>1. CASE u \in DOMAIN q.deferred
    BY <1>1, <1>4, <1>6, <2>1 DEF Twins
  <2>2. CASE u \notin DOMAIN q.deferred
    BY <1>1, <1>6, <2>2 DEF Turns
  <2> QED BY <2>1, <2>2
<1>7. ASSUME NEW t \in DOMAIN r.deferred, NEW u \in DOMAIN r.deferred, Twins(t, u)
      PROVE  r.deferred[t] \notin done
  BY <1>1, <1>7 DEF Turns
<1> QED BY <1>2, <1>5, <1>6, <1>7 DEF Turns

(* or forced, when every task of its index that is not deferred is decided. *)
LEMMA TurnsForced ==
  ASSUME NEW q, NEW r, NEW done, NEW X, Turns(q, done, X), Waits(q),
         Decided(q) \subseteq Decided(r), NEW s \in DOMAIN q.deferred,
         \A t \in DOMAIN q.deferred : \A u \in Setscene \ DOMAIN q.deferred :
            Twins(t, u) => u \in Decided(q),
         r.deferred = Restrict(q.deferred, DOMAIN q.deferred \ {s})
  PROVE  Waits(r) /\ Turns(r, done, {s})
<1>1. /\ DOMAIN r.deferred = DOMAIN q.deferred \ {s}
      /\ \A t \in DOMAIN r.deferred : r.deferred[t] = q.deferred[t]
  BY DEF Restrict
<1>2. Waits(r)
  BY <1>1 DEF Waits
<1>3. ASSUME NEW u \in Setscene \ DOMAIN r.deferred, NEW v \in Setscene \ DOMAIN r.deferred, Twins(u, v)
      PROVE  u \in Decided(r) \/ v \in Decided(r)
  <2>1. Twins(v, u)
    BY <1>3 DEF Twins
  <2>2. CASE u = s
    BY <1>1, <1>3, <2>2 DEF Twins
  <2>3. CASE v = s
    BY <1>1, <2>1, <2>3 DEF Twins
  <2>4. CASE u # s /\ v # s
    BY <1>1, <1>3, <2>4 DEF Turns
  <2> QED BY <2>2, <2>3, <2>4
<1>4. ASSUME NEW t \in DOMAIN r.deferred, NEW u \in Setscene \ DOMAIN r.deferred, Twins(t, u)
      PROVE  u = r.deferred[t] \/ u \in Decided(r) \cup {s}
  BY <1>1, <1>4
<1>5. ASSUME NEW t \in DOMAIN r.deferred, NEW u \in DOMAIN r.deferred, Twins(t, u)
      PROVE  r.deferred[t] \notin done
  BY <1>1, <1>5 DEF Turns
<1> QED BY <1>2, <1>3, <1>4, <1>5 DEF Turns

(* When the task they wait for completes, one of them may go on. *)
LEMMA TurnsCompleted ==
  ASSUME NEW q \in SqType, NEW r, NEW done, NEW t, Turns(q, done, {}), Waits(q),
         Decided(q) \subseteq Decided(r), (done \cup {t}) \cap Setscene \subseteq Decided(r),
         FewTwins \/ done \cap DOMAIN q.deferred = {},
         r.deferred = Undeferred(q.deferred, t)
  PROVE  Waits(r) /\ Turns(r, done \cup {t}, {})
<1> DEFINE f       == q.deferred
           waiting == {s \in DOMAIN f : f[s] = t}
           found   == CHOOSE s \in waiting : TRUE
<1>0. DOMAIN f \subseteq Setscene
  BY PartialElim DEF SqType
<1>1. CASE waiting = {}
  <2>1. r.deferred = f
    BY <1>1 DEF Undeferred
  <2>2. Waits(r) /\ Turns(r, done, {})
    BY <2>1, TurnsKept
  <2>3. \A s \in DOMAIN r.deferred : r.deferred[s] # t
    BY <1>1, <2>1
  <2> QED BY <2>2, <2>3 DEF Turns
<1>2. CASE waiting # {}
  <2>1. found \in DOMAIN f /\ f[found] = t /\ found \in Setscene
    BY <1>0, <1>2
  <2>2. r.deferred = [s \in DOMAIN f \ {found} |-> IF s \in waiting THEN found ELSE f[s]]
    BY <1>2 DEF Undeferred
  <2> HIDE DEF found
  <2>3. DOMAIN r.deferred = DOMAIN f \ {found}
    BY <2>2
  <2>4. \A s \in DOMAIN r.deferred : r.deferred[s] = IF f[s] = t THEN found ELSE f[s]
    BY <2>2, <2>3
  <2>5. t \in Setscene \ DOMAIN f /\ Idx(t) = Idx(found) /\ t \in Decided(r)
    BY <2>1 DEF Waits
  <2>6. \A s \in DOMAIN f : f[s] = t <=> Idx(s) = Idx(t)
    BY <2>1, <2>5 DEF Waits
  <2>7. \A s \in DOMAIN f : f[s] \in Setscene \ DOMAIN f /\ Idx(f[s]) = Idx(s)
    BY DEF Waits
  <2>8. Waits(r)
    <3>1. ASSUME NEW s \in DOMAIN r.deferred
          PROVE  r.deferred[s] \in Setscene \ DOMAIN r.deferred /\ Idx(r.deferred[s]) = Idx(s)
      BY <2>1, <2>3, <2>4, <2>5, <2>6, <2>7
    <3>2. ASSUME NEW s \in DOMAIN r.deferred, NEW u \in DOMAIN r.deferred, Idx(s) = Idx(u)
          PROVE  r.deferred[s] = r.deferred[u]
      BY <2>3, <2>4, <2>6, <3>2 DEF Waits
    <3> QED BY <3>1, <3>2 DEF Waits
  <2>9. ASSUME NEW v \in Setscene \ DOMAIN f, Twins(found, v) PROVE v \in Decided(r)
    BY <2>1, <2>5, <2>9 DEF Turns
  <2>10. ASSUME NEW u \in Setscene \ DOMAIN r.deferred, NEW v \in Setscene \ DOMAIN r.deferred, Twins(u, v)
         PROVE  u \in Decided(r) \/ v \in Decided(r)
    <3>1. Twins(v, u)
      BY <2>10 DEF Twins
    <3>2. CASE u = found
      BY <2>3, <2>9, <2>10, <3>2 DEF Twins
    <3>3. CASE v = found
      BY <2>3, <2>9, <3>1, <3>3 DEF Twins
    <3>4. CASE u # found /\ v # found
      BY <2>3, <2>10, <3>4 DEF Turns
    <3> QED BY <3>2, <3>3, <3>4
  <2>11. ASSUME NEW s \in DOMAIN r.deferred, NEW u \in Setscene \ DOMAIN r.deferred, Twins(s, u)
         PROVE  u = r.deferred[s] \/ u \in Decided(r) \cup {}
    <3>1. CASE u = found
      <4>1. Idx(s) = Idx(t)
        BY <2>5, <2>11, <3>1 DEF Twins
      <4>2. f[s] = t
        BY <2>3, <2>6, <4>1
      <4> QED BY <2>4, <3>1, <4>2
    <3>2. CASE u # found
      <4>1. u = f[s] \/ u \in Decided(q)
        BY <2>3, <2>11, <3>2 DEF Turns
      <4> QED BY <2>4, <2>5, <4>1
    <3> QED BY <3>1, <3>2
  <2>12. ASSUME NEW s \in DOMAIN r.deferred, NEW u \in DOMAIN r.deferred, Twins(s, u)
         PROVE  r.deferred[s] \notin done \cup {t}
    <3>1. CASE f[s] # t
      BY <2>3, <2>4, <2>12, <3>1 DEF Turns
    <3>2. CASE f[s] = t
      <4>1. Idx(s) = Idx(t) /\ Idx(u) = Idx(t) /\ s # u /\ s # found /\ u # found /\ s # t /\ u # t /\ found # t
        BY <2>1, <2>3, <2>5, <2>6, <2>12, <3>2 DEF Twins
      <4>2. s \in Setscene /\ u \in Setscene
        BY <1>0, <2>3
      <4>3. ~FewTwins
        BY <2>1, <2>5, <4>1, <4>2 DEF FewTwins, Twins
      <4>4. found \notin done
        BY <2>1, <4>3
      <4> QED BY <2>4, <3>2, <4>1, <4>4
    <3> QED BY <3>1, <3>2
  <2> QED BY <2>8, <2>10, <2>11, <2>12 DEF Turns
<1> QED BY <1>1, <1>2

(* task_completeoutright() lets one task go, and may cover that one. *)
LEMMA UndeferLets ==
  ASSUME NEW q \in SqType, NEW t, NEW dk, NEW avail \in SUBSET Setscene, SqDecided(q)
  PROVE  LET r == Undefer(q, t, dk, avail)
         IN  /\ r.deferred = Undeferred(q.deferred, t)
             /\ Decided(q) \subseteq Decided(r)
             /\ r.covered \cap DOMAIN r.deferred \subseteq q.covered
<1> DEFINE f       == q.deferred
           waiting == {s \in DOMAIN f : f[s] = t}
           found   == CHOOSE s \in waiting : TRUE
           rest    == [s \in DOMAIN f \ {found} |-> IF s \in waiting THEN found ELSE f[s]]
           q1      == [q EXCEPT !.deferred = rest]
<1>1. CASE waiting = {}
  BY <1>1 DEF Undefer, Undeferred
<1>2. CASE waiting # {}
  <2>1. DOMAIN f \in SUBSET Setscene /\ f \in [DOMAIN f -> Setscene]
    BY PartialElim DEF SqType
  <2>2. found \in waiting /\ found \in Setscene
    BY <1>2, <2>1
  <2>3. Undefer(q, t, dk, avail) = UpdateSceneQueueData(q1, {found}, dk, avail)
    BY <1>2 DEF Undefer
  <2>4. Undeferred(q.deferred, t) = rest
    BY <1>2 DEF Undeferred
  <2> HIDE DEF found
  <2>5. rest \in Partial(Setscene, Setscene) /\ DOMAIN rest = DOMAIN f \ {found}
    <3>1. rest \in [DOMAIN f \ {found} -> Setscene]
      BY <2>1, <2>2
    <3> QED BY <2>1, <3>1, PartialIntro
  <2> HIDE DEF rest
  <2>6. /\ q1 \in SqType /\ q1.covered = q.covered /\ q1.notcovered = q.notcovered
        /\ q1.live = q.live /\ q1.deferred = rest
    BY <2>5 DEF SqType
  <2>7. q1.live \cap {found} = {}
    BY <2>2, <2>6 DEF SqDecided
  <2> HIDE DEF q1
  <2>8. PICK C \in SUBSET {found} :
           /\ Grown(q1, UpdateSceneQueueData(q1, {found}, dk, avail), C, {})
           /\ UpdateSceneQueueData(q1, {found}, dk, avail).deferred = q1.deferred
    <3>1. q1 \in SqType /\ {found} \in SUBSET Setscene
      BY <2>2, <2>6
    <3> QED BY <2>7, <3>1, UpdateSceneQueueDataGrows
  <2> QED BY <2>3, <2>4, <2>5, <2>6, <2>8 DEF Grown, Decided
<1> QED BY <1>1, <1>2

(* The step drops the deferral of s, if there is one, and no other. *)
DropsDeferred(s) == sq'.deferred = Restrict(sq.deferred, DOMAIN sq.deferred \ {s})

(* The exit of a task may let one go. *)
LEMMA DeferralRead ==
  ASSUME TypeOK, Apart, NEW p \in procs, ReadExit(p)
  PROVE  /\ sq'.covered \cap DOMAIN sq'.deferred \subseteq sq.covered
         /\ \/ sq'.deferred = sq.deferred /\ rq'.complete = rq.complete
            \/ /\ rq'.complete = rq.complete \cup {p.task}
               /\ sq'.deferred = Undeferred(sq.deferred, p.task)
<1> DEFINE t == p.task
<1>1. sq \in SqType /\ rq \in RqType
  BY DEF TypeOK
<1>2. SqDecided(sq) /\ SqHard(sq)
  BY DEF Apart
<1>3. PICK avail \in SUBSET Setscene :
        \/ t \in sq.live /\ sq' = [Decide(sq, {t}, {}) EXCEPT !.live = @ \ {t}]
        \/ t \in sq.live /\ sq' = [SqTaskFail(sq, t, disk) EXCEPT !.live = @ \ {t}]
        \/ t \notin sq.live /\ sq' = Undefer(sq, t, disk, avail) /\ rq' = TaskComplete(rq, t)
        \/ t \notin sq.live /\ sq' = sq /\ rq' = TaskFail(rq, t)
  BY DEF ReadExit
<1>4. t \in sq.live => rq'.complete = rq.complete
  BY <1>1 DEF ReadExit, RqType
<1>5. t \in Tasks
  BY GraphAssumption DEF TypeOK, ProcType
<1>6. CASE t \in sq.live /\ sq' = [Decide(sq, {t}, {}) EXCEPT !.live = @ \ {t}]
  <2>1. sq'.deferred = sq.deferred /\ sq'.covered = sq.covered \cup {t}
    BY <1>1, <1>6 DEF Decide, SqType
  <2>2. t \notin DOMAIN sq.deferred
    BY <1>2, <1>6 DEF SqDecided
  <2> QED BY <1>4, <1>6, <2>1, <2>2
<1>7. CASE t \in sq.live /\ sq' = [SqTaskFail(sq, t, disk) EXCEPT !.live = @ \ {t}]
  <2> DEFINE F == FailClosure(sq, t, disk)
  <2>1. SqTaskFail(sq, t, disk) =
          Decide([sq EXCEPT !.running = @ \cup (F \ {t}), !.buildable = @ \cup (F \ {t})], {}, F)
    BY DEF SqTaskFail
  <2> HIDE DEF F
  <2>2. sq'.deferred = sq.deferred /\ sq'.covered = sq.covered
    BY <1>1, <1>7, <2>1 DEF Decide, SqType
  <2> QED BY <1>4, <1>7, <2>2
<1>8. CASE t \notin sq.live /\ sq' = Undefer(sq, t, disk, avail) /\ rq' = TaskComplete(rq, t)
  <2>1. rq'.complete = rq.complete \cup {t}
    BY <1>1, <1>5, <1>8, EndsComplete
  <2> QED BY <1>1, <1>2, <1>8, <2>1, UndeferLets
<1>9. CASE t \notin sq.live /\ sq' = sq /\ rq' = TaskFail(rq, t)
  BY <1>1, <1>5, <1>9, EndsComplete
<1> QED BY <1>3, <1>6, <1>7, <1>8, <1>9

(* So may a task that is skipped or has nothing to execute. *)
LEMMA DeferralTask ==
  ASSUME TypeOK, Apart, NEW t \in Tasks, TaskSkipped(t) \/ TaskNoExec(t)
  PROVE  /\ sq'.covered \cap DOMAIN sq'.deferred \subseteq sq.covered
         /\ rq'.complete = rq.complete \cup {t}
         /\ sq'.deferred = Undeferred(sq.deferred, t)
<1>1. sq \in SqType /\ rq \in RqType /\ SqDecided(sq)
  BY DEF TypeOK, Apart
<1>2. PICK dk : \E avail \in SUBSET Setscene : sq' = Undefer(sq, t, dk, avail)
  BY DEF TaskSkipped, TaskNoExec
<1>3. rq'.complete = rq.complete \cup {t}
  <2>1. \/ rq'.complete = TaskSkip(rq, t).complete
        \/ rq' = TaskComplete([rq EXCEPT !.running = @ \cup {t}, !.active = @ + 1], t)
    BY <1>1, TaskSkipType DEF TaskSkipped, TaskNoExec, RqType
  <2> QED BY <1>1, <2>1, StartsComplete
<1> QED BY <1>1, <1>2, <1>3, UndeferLets

(* A setscene task that is chosen is dropped from the deferrals. *)
LEMMA DeferralScene ==
  ASSUME TypeOK, Apart, NEW s \in Setscene, SceneSkip(s) \/ SceneFailOutright(s) \/ SceneRun(s)
  PROVE  /\ sq'.covered \cap DOMAIN sq'.deferred \subseteq sq.covered
         /\ rq'.complete = rq.complete
         /\ DropsDeferred(s)
         /\ ~Blocked(s) \/ s \in Decided(sq')
<1> DEFINE q == DropDeferred(sq, s)
<1>1. sq \in SqType
  BY DEF TypeOK
<1>2. /\ q \in SqType /\ q.covered = sq.covered
      /\ DOMAIN q.deferred = DOMAIN sq.deferred \ {s}
      /\ q.deferred = Restrict(sq.deferred, DOMAIN sq.deferred \ {s})
  BY <1>1, DropDeferredSame DEF DropDeferred, SqType
<1>3. rq' = rq
  BY DEF SceneSkip, SceneFailOutright, SceneRun
<1> HIDE DEF q
<1>4. CASE SceneSkip(s)
  <2>1. sq' = Decide([q EXCEPT !.running = @ \cup {s}, !.buildable = @ \cup {s}], {s}, {})
    BY <1>4 DEF SceneSkip, SqTaskSkip, q
  <2>2. sq'.deferred = q.deferred /\ sq'.covered = q.covered \cup {s}
    BY <1>2, <2>1 DEF Decide, SqType
  <2> QED BY <1>2, <1>3, <2>2 DEF DropsDeferred, Decided
<1>5. CASE SceneFailOutright(s)
  <2> DEFINE F == FailClosure(q, s, disk)
  <2>1. sq' = Decide([q EXCEPT !.running = @ \cup F, !.buildable = @ \cup F], {}, F)
    BY <1>5 DEF SceneFailOutright, SqTaskFailOutright, q
  <2> HIDE DEF F
  <2>2. sq'.deferred = q.deferred /\ sq'.covered = q.covered
    BY <1>2, <2>1 DEF Decide, SqType
  <2>3. ~Blocked(s)
    BY <1>5 DEF SceneFailOutright
  <2> QED BY <1>2, <1>3, <2>2, <2>3 DEF DropsDeferred
<1>6. CASE SceneRun(s)
  <2>1. sq' = [q EXCEPT !.running = @ \cup {s}, !.live = @ \cup {s}]
    BY <1>6 DEF SceneRun, q
  <2>2. sq'.deferred = q.deferred /\ sq'.covered = q.covered
    BY <1>2, <2>1 DEF SqType
  <2>3. ~Blocked(s)
    BY <1>6 DEF SceneRun, Restorable
  <2> QED BY <1>2, <1>3, <2>2, <2>3 DEF DropsDeferred
<1> QED BY <1>4, <1>5, <1>6

(* Without reports, nothing that was decided is taken back. *)
LEMMA DecidedStays ==
  ASSUME MaxUpdates = 0, TypeOK, Apart, Next
  PROVE  Decided(sq) \subseteq Decided(sq')
<1>1. ~Migrate /\ SqDecided(sq) /\ SqHard(sq)
  BY DEF Apart, NoRehash, Migrate
<1>2. ASSUME NEW C, NEW N, Decides(C, N) PROVE Decided(sq) \subseteq Decided(sq')
  BY <1>2 DEF Decides, Grown, Decided
<1>3. ASSUME NEW s \in Setscene, SceneRun(s) PROVE Decided(sq) \subseteq Decided(sq')
  BY <1>3, SceneRunSends DEF Sends, Decided
<1>4. CASE Settle
  BY <1>4, SettleSame DEF Decided
<1> QED BY <1>1, <1>2, <1>3, <1>4, SqStep

(* Without reports, the deferrals change when a real task completes, when  *)
(* a deferred task is chosen, and when one is forced.                      *)
LEMMA DeferralStep ==
  ASSUME MaxUpdates = 0, TypeOK, Apart, Next
  PROVE  /\ sq'.covered \cap DOMAIN sq'.deferred \subseteq sq.covered
         /\ \/ sq'.deferred = sq.deferred /\ rq'.complete = rq.complete
            \/ \E t \in Tasks : /\ rq'.complete = rq.complete \cup {t}
                                /\ sq'.deferred = Undeferred(sq.deferred, t)
            \/ \E s \in Setscene : /\ DropsDeferred(s) /\ rq'.complete = rq.complete
                                   /\ ~Blocked(s) \/ s \in Decided(sq')
            \/ ForceDeferred /\ rq'.complete = rq.complete
                 /\ \E s \in DOMAIN sq.deferred : DropsDeferred(s)
<1>1. sq \in SqType /\ ~Migrate
  BY DEF TypeOK, Apart, NoRehash, Migrate
<1>2. ASSUME NEW p \in procs, ReadExit(p) PROVE p.task \in Tasks
  BY GraphAssumption DEF TypeOK, ProcType
<1>3. CASE \E p \in procs : ReadExit(p)
  BY <1>2, <1>3, DeferralRead
<1>4. CASE \E t \in Tasks : TaskSkipped(t) \/ TaskNoExec(t)
  BY <1>4, DeferralTask
<1>5. CASE \E s \in Setscene : SceneSkip(s) \/ SceneFailOutright(s) \/ SceneRun(s)
  BY <1>5, DeferralScene
<1>6. CASE ForceDeferred
  <2>1. PICK s \in DOMAIN sq.deferred : sq' = DropDeferred(sq, s)
    BY <1>6 DEF ForceDeferred
  <2>2. DropsDeferred(s) /\ sq'.covered = sq.covered
    BY <1>1, <2>1 DEF DropDeferred, DropsDeferred, SqType
  <2>3. rq' = rq
    BY <1>6 DEF ForceDeferred
  <2> QED BY <1>6, <2>2, <2>3
<1>7. CASE Settle
  BY <1>7, SettleSame, OtherRqSame DEF RqSame
<1>8. CASE \/ FinishNow \/ Finish \/ Execute \/ Teardown \/ ReadDone \/ MigrateNothing
           \/ SceneNone \/ TaskNone \/ WriteFails \/ WaitForTasks \/ Conclude
           \/ (\E t \in Tasks : TaskForbidden(t) \/ TaskSpawnFails(t))
           \/ (\E p \in procs : WorkerExit(p) \/ ReadUnihash(p))
           \/ WorkerDies \/ StopRequest \/ Ended
  <2>1. sq' = sq
    BY <1>8 DEF FinishNow, Finish, Execute, Teardown, ReadDone, MigrateNothing,
       SceneNone, TaskNone, WriteFails, WaitForTasks, Conclude, TaskForbidden,
       TaskSpawnFails, WorkerExit, ReadUnihash, WorkerDies, StopRequest, Ended, vars
  <2>2. RqSame
    BY <1>8, OtherRqSame
  <2> QED BY <2>1, <2>2 DEF RqSame
<1>9. CASE \E t \in Tasks : TaskRun(t)
  <2>1. sq' = sq /\ rq'.complete = rq.complete
    BY <1>9 DEF TaskRun, TypeOK, RqType
  <2> QED BY <2>1
<1> QED BY <1>1, <1>3, <1>4, <1>5, <1>6, <1>7, <1>8, <1>9 DEF Next, CookerStep

(* Where a setscene task is still chosen and sent to the worker. *)
On == Choosing /\ env.worker = "up"

(* No deferred task was restored, or found current. *)
Unserved == sq.covered \cap DOMAIN sq.deferred = {}

InTurn == On => Waits(sq) /\ Turns(sq, rq.complete, {})

TwinsApart == \A s, t \in sq.live : ~Twins(s, t)

(* The setscene tasks that are deferred have something to execute, and no  *)
(* earlier build left a stamp of them.                                     *)
FreshTwins == \A s \in DOMAIN InitialDeferred : \A S \in {NoExec} \cup InitStamps \cup InitSceneStamps : s \notin S

(* What the deferrals of any number of tasks of an index need. *)
TwinsManaged == FewTwins \/ (FreshTwins /\ NoHardDepends)

Managed == FewTwins \/ DOMAIN sq.deferred \cap Decided(sq) = {}

(* What is looked up in the shared state is only covered where it is       *)
(* stamped or has nothing to execute; the deferrals are left alone.        *)
LEMMA UpdateSceneQueueDataLeaves ==
  ASSUME NEW q \in SqType, NEW T \in SUBSET Setscene, NEW dk, NEW avail
  PROVE  LET r == UpdateSceneQueueData(q, T, dk, avail)
         IN  /\ r.deferred = q.deferred
             /\ r.covered \subseteq q.covered \cup NoExec \cup dk.scene \cup RecursivelyCurrent(dk)
<1> DEFINE present == (T \ NoExec) \cap (dk.scene \cup RecursivelyCurrent(dk))
           skipped == present \cup (T \cap NoExec)
           q1      == IF skipped = {} THEN q ELSE SqTaskSkip(q, skipped)
           valid   == (q.valid \ T) \cup (avail \cap (T \ skipped))
           decided == skipped \cup valid \cup q1.covered \cup q1.notcovered \cup DOMAIN q.deferred
           r       == [q1 EXCEPT !.valid = valid, !.outrightfail = (@ \ T) \cup (T \ decided)]
<1>1. skipped \in SUBSET T /\ skipped \subseteq NoExec \cup dk.scene \cup RecursivelyCurrent(dk)
  OBVIOUS
<1>2. UpdateSceneQueueData(q, T, dk, avail) = r
  BY DEF UpdateSceneQueueData
<1> HIDE DEF skipped
<1>3. q1 \in SqType
  BY <1>1, SqTaskSkipType
<1>4. q1.covered \subseteq q.covered \cup skipped /\ q1.deferred = q.deferred
  BY DEF SqTaskSkip, Decide, SqType
<1> HIDE DEF q1, valid, decided
<1>5. r.covered = q1.covered /\ r.deferred = q1.deferred
  BY <1>3 DEF SqType
<1> QED BY <1>1, <1>2, <1>4, <1>5

(* At the start the first task of each index is the one that is not deferred. *)
LEMMA TwinsInit ==
  ASSUME Init
  PROVE  /\ sq.deferred = InitialDeferred
         /\ Waits(sq) /\ Turns(sq, rq.complete, {})
         /\ FreshTwins => Unserved
<1>1. PICK old \in {S \ Tainted : S \in InitStamps}, avail \in SUBSET Setscene,
           oldscene \in {S \ Tainted : S \in InitSceneStamps} :
        LET dk == [real |-> [t \in Tasks |-> IF t \in old THEN 1 ELSE 0], scene |-> oldscene]
            q  == [buildable |-> InitialSqBuildable, running |-> {}, live |-> {},
                   covered |-> {}, notcovered |-> {}, done |-> InitialDone,
                   deferred |-> InitialDeferred, outrightfail |-> {}, valid |-> {},
                   need_update |-> TRUE, stamp |-> Restrict(InitUnihash, Setscene)]
        IN  sq = UpdateSceneQueueData(q, Setscene, dk, avail)
  BY DEF Init
<1> DEFINE dk == [real |-> [t \in Tasks |-> IF t \in old THEN 1 ELSE 0], scene |-> oldscene]
           q  == [buildable |-> InitialSqBuildable, running |-> {}, live |-> {},
                  covered |-> {}, notcovered |-> {}, done |-> InitialDone,
                  deferred |-> InitialDeferred, outrightfail |-> {}, valid |-> {},
                  need_update |-> TRUE, stamp |-> Restrict(InitUnihash, Setscene)]
           owner(s) == HashOwner[Idx(s)]
<1>2. q \in SqType
  <2>1. Restrict(InitUnihash, Setscene) \in [Setscene -> Unihashes]
    BY GraphAssumption, ConfigAssumption DEF Restrict
  <2>2. InitialSqBuildable \subseteq Setscene /\ InitialDone \subseteq Tasks
    BY DEF InitialSqBuildable, InitialDone, Unskippable
  <2> QED BY <2>1, <2>2, InitialDeferredType DEF SqType
<1>3. sq = UpdateSceneQueueData(q, Setscene, dk, avail) /\ q.covered = {} /\ q.deferred = InitialDeferred
  BY <1>1
<1>4. dk.scene = oldscene
  OBVIOUS
<1>5. RecursivelyCurrent(dk) \subseteq old
  <2>1. SUFFICES ASSUME NEW s \in RecursivelyCurrent(dk) PROVE s \in old
    OBVIOUS
  <2>2. s \in Tasks /\ dk.real[s] > 0
    BY <2>1, GraphAssumption DEF RecursivelyCurrent, StampCurrent
  <2> QED BY <2>2
<1> HIDE DEF q, dk
<1>6. sq.deferred = InitialDeferred
      /\ sq.covered \subseteq NoExec \cup oldscene \cup old
  BY <1>2, <1>3, <1>4, <1>5, UpdateSceneQueueDataLeaves
<1>7. FreshTwins => Unserved
  BY <1>6 DEF FreshTwins, Unserved
<1>8. \A s \in Setscene : owner(s) \in Setscene /\ Idx(owner(s)) = Idx(s)
  <2> TAKE s \in Setscene
  <2>1. \E x \in Setscene : HashIndex(x, InitUnihash[x]) = Idx(s)
    BY DEF Idx
  <2>2. Idx(s) \in DOMAIN HashOwner
    BY DEF Idx, HashOwner
  <2>3. HashOwner[Idx(s)] = CHOOSE x \in Setscene : HashIndex(x, InitUnihash[x]) = Idx(s)
    BY <2>2 DEF HashOwner
  <2> QED BY <2>1, <2>3 DEF Idx
<1>9. \A s, t \in Setscene : Idx(s) = Idx(t) => owner(s) = owner(t)
  OBVIOUS
<1>10. InitialDeferred = [s \in {x \in Setscene : x # owner(x)} |-> owner(s)]
  BY DEF InitialDeferred, Idx
<1> HIDE DEF owner
<1>11. DOMAIN sq.deferred = {x \in Setscene : x # owner(x)}
       /\ \A s \in DOMAIN sq.deferred : sq.deferred[s] = owner(s)
  BY <1>6, <1>10
<1>12. Waits(sq)
  BY <1>8, <1>9, <1>11 DEF Waits
<1>13. rq.complete = {}
  BY DEF Init
<1>14. Turns(sq, rq.complete, {})
  BY <1>8, <1>9, <1>11, <1>13 DEF Turns, Twins
<1> QED BY <1>6, <1>7, <1>12, <1>14

(* Where a setscene task is still chosen, one whose real variant is        *)
(* complete is decided.                                                    *)
LEMMA CompleteDecided ==
  ASSUME TypeOK, Apart, Choosing
  PROVE  rq.complete \cap Setscene \subseteq Decided(sq)
BY DEF Apart, Started, Untouched, Idle

(* It was so before. *)
LEMMA OnBefore ==
  ASSUME TypeOK, Next, On'
  PROVE  On
<1>1. Choosing
  BY ChoosingBefore DEF On
<1>2. env.worker = "up"
  <2>1. env.worker # "gone"
    BY WorkersBefore DEF On
  <2>2. env.worker # "dead"
    <3>1. env.worker = "dead" => env'.worker # "up"
      BY DEF Next, CookerStep, FinishNow, Finish, Execute,
            Teardown, ReadExit, ReadDone, MigrateNothing, Migrate, SceneSkip, SceneFailOutright, SceneRun, SceneNone,
            Settle, TaskForbidden, TaskSkipped, TaskNoExec, TaskSpawnFails, TaskRun, TaskNone,
            WriteFails, WaitForTasks, ForceDeferred, Conclude, WorkerExit, ReadUnihash, WorkerDies,
            StopRequest, Ended, vars, TypeOK, EnvType
    <3> QED BY <3>1 DEF On
  <2> QED BY <2>1, <2>2 DEF TypeOK, EnvType
<1> QED BY <1>1, <1>2 DEF On

(* As long as nothing is forced, the tasks of an index take turns. *)
LEMMA InTurnStep ==
  ASSUME MaxUpdates = 0, FewTwins \/ DOMAIN sq.deferred \cap Decided(sq) = {},
         TypeOK, Apart, TypeOK', Apart', On, Choosing', Waits(sq), Turns(sq, rq.complete, {}),
         Next, ~ForceDeferred
  PROVE  Waits(sq') /\ Turns(sq', rq'.complete, {})
<1>1. sq \in SqType /\ rq.complete \subseteq Tasks
  BY DEF TypeOK, RqType
<1>2. Decided(sq) \subseteq Decided(sq')
  BY DecidedStays
<1>3. rq.complete \cap Setscene \subseteq Decided(sq)
  BY CompleteDecided DEF On
<1>4. rq'.complete \cap Setscene \subseteq Decided(sq')
  BY DEF TypeOK, Apart, Started, Untouched, Idle, Choosing, Decided, Busy
<1>5. CASE sq'.deferred = sq.deferred /\ rq'.complete = rq.complete
  BY <1>2, <1>5, TurnsKept
<1>6. ASSUME NEW t \in Tasks, rq'.complete = rq.complete \cup {t},
             sq'.deferred = Undeferred(sq.deferred, t)
      PROVE  Waits(sq') /\ Turns(sq', rq'.complete, {})
  <2>1. FewTwins \/ rq.complete \cap DOMAIN sq.deferred = {}
    <3>1. DOMAIN sq.deferred \subseteq Setscene
      BY <1>1, PartialElim DEF SqType
    <3> QED BY <1>3, <3>1
  <2>2. (rq.complete \cup {t}) \cap Setscene \subseteq Decided(sq')
    BY <1>4, <1>6
  <2> QED BY <1>1, <1>2, <1>6, <2>1, <2>2, TurnsCompleted
<1>7. ASSUME NEW s \in Setscene, DropsDeferred(s), rq'.complete = rq.complete, ~Blocked(s)
      PROVE  Waits(sq') /\ Turns(sq', rq'.complete, {})
  <2>1. s \in DOMAIN sq.deferred => sq.deferred[s] \in rq.complete
    BY <1>7 DEF Blocked
  <2> QED BY <1>2, <1>3, <1>7, <2>1, TurnsUnblocked DEF DropsDeferred
<1>8. ASSUME NEW s \in Setscene, DropsDeferred(s), rq'.complete = rq.complete, s \in Decided(sq')
      PROVE  Waits(sq') /\ Turns(sq', rq'.complete, {})
  BY <1>2, <1>8, TurnsDecided DEF DropsDeferred
<1> QED BY <1>5, <1>6, <1>7, <1>8, DeferralStep

(* A task that is sent to the worker is not blocked. *)
LEMMA SentInTurn ==
  ASSUME MaxUpdates = 0, TypeOK, Apart, Choosing, Waits(sq), Turns(sq, rq.complete, {}), Next,
         NEW s \in Setscene, SceneRun(s)
  PROVE  Turns(sq', rq'.complete, {})
<1>1. DropsDeferred(s) /\ rq'.complete = rq.complete
  BY DeferralScene
<1>2. Decided(sq) \subseteq Decided(sq') /\ rq.complete \cap Setscene \subseteq Decided(sq)
  BY DecidedStays, CompleteDecided
<1>3. s \in DOMAIN sq.deferred => sq.deferred[s] \in rq.complete
  BY DEF SceneRun, Restorable, Blocked
<1> QED BY <1>1, <1>2, <1>3, TurnsUnblocked DEF DropsDeferred

(* A task sent to the worker is the only one of its index. *)
LEMMA TwinsApartStep ==
  ASSUME MaxUpdates = 0, TypeOK, Apart, Apart', TwinsApart,
         \A s \in Setscene : SceneRun(s) => \A u, v \in Setscene \ DOMAIN sq'.deferred :
            Twins(u, v) => u \in Decided(sq') \/ v \in Decided(sq'),
         Next
  PROVE  TwinsApart'
<1>1. ~Migrate /\ SqDecided(sq) /\ SqHard(sq)
  BY DEF Apart, NoRehash, Migrate
<1>2. ASSUME NEW C, NEW N, Decides(C, N) PROVE TwinsApart'
  BY <1>2 DEF Decides, Grown, TwinsApart
<1>3. ASSUME NEW s \in Setscene, SceneRun(s) PROVE TwinsApart'
  <2>1. sq'.live \subseteq Setscene
    BY <1>3, SceneRunSends DEF Sends, SqType
  <2>2. sq'.live \cap Decided(sq') = {} /\ sq'.live \cap DOMAIN sq'.deferred = {}
    BY DEF Apart, SqDecided, Decided
  <2> QED BY <1>3, <2>1, <2>2 DEF TwinsApart
<1>4. CASE Settle
  BY <1>4, SettleSame DEF TwinsApart
<1> QED BY <1>1, <1>2, <1>3, <1>4, SqStep

(* Without reports no task changes its unihash. *)
LEMMA UnihashKept ==
  ASSUME MaxUpdates = 0
  PROVE  Spec => [](hash.uni = InitUnihash)
<1>1. HardOrRehash
  BY DEF HardOrRehash
<1>2. Init => hash.uni = InitUnihash
  BY DEF Init
<1>3. Apart /\ hash.uni = InitUnihash /\ [Next]_vars => (hash.uni = InitUnihash)'
  <2> SUFFICES ASSUME Apart, [Next]_vars PROVE hash' = hash
    OBVIOUS
  <2>1. hash.updates = 0 /\ ~Migrate
    BY DEF Apart, NoRehash, Migrate
  <2>2. ~\E p \in procs : ReadUnihash(p)
    BY <2>1 DEF ReadUnihash
  <2> QED BY <2>1, <2>2 DEF Next, CookerStep, FinishNow, Finish, Execute, Teardown, ReadExit, ReadDone,
        MigrateNothing, SceneSkip, SceneFailOutright, SceneRun, SceneNone, Settle, TaskForbidden,
        TaskSkipped, TaskNoExec, TaskSpawnFails, TaskRun, TaskNone, WriteFails, WaitForTasks,
        ForceDeferred, Conclude, WorkerExit, WorkerDies, StopRequest, Ended, vars
<1> QED BY <1>1, <1>2, <1>3, ApartInvariant, PTL DEF Spec

(* Where no hard dependency fails a deferred task, it is undecided. *)
LEMMA UnservedInvariant ==
  ASSUME MaxUpdates = 0, FreshTwins, NoHardDepends
  PROVE  Spec => [](DOMAIN sq.deferred \cap Decided(sq) = {})
<1>1. HardOrRehash /\ HardOrDeferred
  BY DEF HardOrRehash, HardOrDeferred
<1>2. Init => Unserved
  BY TwinsInit
<1>3. TypeOK /\ Apart /\ Unserved /\ [Next]_vars => Unserved'
  <2> SUFFICES ASSUME TypeOK, Apart, Unserved, [Next]_vars PROVE Unserved'
    OBVIOUS
  <2>1. CASE Next
    <3>1. sq'.covered \cap DOMAIN sq'.deferred \subseteq sq.covered
      BY <2>1, DeferralStep
    <3>2. DOMAIN sq'.deferred \subseteq DOMAIN sq.deferred
      <4>1. ASSUME NEW s, DropsDeferred(s) PROVE DOMAIN sq'.deferred \subseteq DOMAIN sq.deferred
        BY <4>1 DEF DropsDeferred, Restrict
      <4>2. ASSUME NEW t, sq'.deferred = Undeferred(sq.deferred, t)
            PROVE  DOMAIN sq'.deferred \subseteq DOMAIN sq.deferred
        BY <4>2 DEF Undeferred
      <4> QED BY <2>1, <4>1, <4>2, DeferralStep
    <3> QED BY <3>1, <3>2 DEF Unserved
  <2>2. CASE UNCHANGED vars
    BY <2>2 DEF vars, Unserved
  <2> QED BY <2>1, <2>2
<1>4. Exclusive /\ Unserved => DOMAIN sq.deferred \cap Decided(sq) = {}
  BY DEF Exclusive, MayCover, Unserved, Decided
<1> QED BY <1>1, <1>2, <1>3, <1>4, ApartInvariant, ExclusiveInvariant, TypeCorrect, PTL DEF Spec

(* What the deferrals need is there all the time. *)
LEMMA ManagedInvariant ==
  ASSUME MaxUpdates = 0, TwinsManaged
  PROVE  Spec => []Managed
<1>1. CASE FewTwins
  <2>1. Managed
    BY <1>1 DEF Managed
  <2> QED BY <2>1, PTL
<1>2. CASE FreshTwins /\ NoHardDepends
  <2>1. DOMAIN sq.deferred \cap Decided(sq) = {} => Managed
    BY DEF Managed
  <2>2. Spec => [](DOMAIN sq.deferred \cap Decided(sq) = {})
    BY <1>2, UnservedInvariant
  <2> QED BY <2>1, <2>2, PTL
<1> QED BY <1>1, <1>2 DEF TwinsManaged

(* Without rehashing, and as long as no deadlock on deferred tasks is      *)
(* broken by force, one at most of the setscene tasks that would restore   *)
(* the same object is under way.                                           *)
THEOREM TwinsUnforced ==
  ASSUME MaxUpdates = 0, TwinsManaged
  PROVE  Spec /\ [][~ForceDeferred]_vars => []TwinsInTurn
<1>1. HardOrRehash
  BY DEF HardOrRehash
<1>2. Init => InTurn /\ TwinsApart
  <2> SUFFICES ASSUME Init PROVE InTurn /\ TwinsApart
    OBVIOUS
  <2>1. sq.live = {}
    BY InitialScene DEF Grown
  <2> QED BY <2>1, TwinsInit DEF InTurn, TwinsApart
<1>3. /\ Managed /\ TypeOK /\ TypeOK' /\ Apart /\ Apart' /\ InTurn /\ TwinsApart
      /\ [Next]_vars /\ [~ForceDeferred]_vars
      => InTurn' /\ TwinsApart'
  <2> SUFFICES ASSUME Managed, TypeOK, TypeOK', Apart, Apart', InTurn, TwinsApart,
                      [Next]_vars, [~ForceDeferred]_vars
               PROVE  InTurn' /\ TwinsApart'
    OBVIOUS
  <2>1. CASE UNCHANGED vars
    BY <2>1 DEF vars, InTurn, On, Choosing, TwinsApart, Waits, Turns, Decided
  <2>2. CASE Next /\ ~ForceDeferred
    <3>1. ASSUME On, Choosing' PROVE Waits(sq') /\ Turns(sq', rq'.complete, {})
      BY <2>2, <3>1, InTurnStep DEF InTurn, Managed
    <3>2. InTurn'
      <4>1. SUFFICES ASSUME On' PROVE Waits(sq') /\ Turns(sq', rq'.complete, {})
        BY DEF InTurn, Waits, Turns, Decided
      <4> QED BY <2>2, <3>1, <4>1, OnBefore DEF On
    <3>3. ASSUME NEW s \in Setscene, SceneRun(s) PROVE Turns(sq', rq'.complete, {})
      <4>1. On
        BY <3>3 DEF SceneRun, On, Choosing
      <4> QED BY <2>2, <3>3, <4>1, SentInTurn DEF InTurn, On
    <3>4. TwinsApart'
      BY <2>2, <3>3, TwinsApartStep DEF Turns
    <3> QED BY <3>2, <3>4
  <2> QED BY <2>1, <2>2
<1>4. TwinsApart /\ hash.uni = InitUnihash => TwinsInTurn
  BY DEF TwinsApart, Twins, Idx, TwinsInTurn
<1> QED BY <1>1, <1>2, <1>3, <1>4, ApartInvariant, TypeCorrect, ManagedInvariant, UnihashKept, PTL DEF Spec

----------------------------------------------------------------------------
(* The deferrals of two configurations.                                    *)

(* None of the tasks that others wait for waits itself, nor does any task  *)
(* that is decided before one of them: a configuration owns the objects.   *)
OneConfigOwns ==
  \E S \in SUBSET (Setscene \ DOMAIN InitialDeferred) :
    /\ Range(InitialDeferred) \subseteq S
    /\ \A s \in S : SqRevdeps[s] \subseteq S

(* Nothing is under way, as when Quiet, though deferrals may be left. *)
Still == rq.state = "Running" /\ env.worker = "up" /\ procs = {} /\ sq.live = {}

(* When nothing is under way, execute() only comes past a search that      *)
(* found none but blocked setscene tasks, and waits with no real task to   *)
(* choose; and as long as one is deferred the search goes on.              *)
SearchedAll ==
  /\ pc \in {"settle", "task", "wait"} /\ Still
       => hold.sqdone \/ \A s \in sq.buildable \ sq.running : Blocked(s)
  /\ pc = "wait" /\ Still => TaskCandidates = {}
  /\ hold.sqdone => DOMAIN sq.deferred = {}
  /\ DOMAIN sq.deferred \subseteq DOMAIN InitialDeferred

(* Without reports no task is deferred anew. *)
LEMMA DeferredShrinks ==
  ASSUME MaxUpdates = 0, TypeOK, Apart, Next
  PROVE  DOMAIN sq'.deferred \subseteq DOMAIN sq.deferred
<1>1. ASSUME NEW s, DropsDeferred(s) PROVE DOMAIN sq'.deferred \subseteq DOMAIN sq.deferred
  BY <1>1 DEF DropsDeferred, Restrict
<1>2. ASSUME NEW t, sq'.deferred = Undeferred(sq.deferred, t)
      PROVE  DOMAIN sq'.deferred \subseteq DOMAIN sq.deferred
  BY <1>2 DEF Undeferred
<1> QED BY <1>1, <1>2, DeferralStep

(* There is room for a task when nothing is under way. *)
LEMMA StillRoom ==
  ASSUME Counts, Still, pc \in {"scene", "task", "wait"}
  PROVE  rq.active = 0 /\ CanStartTask
<1> DEFINE N == {}
<1>1. RealProcs = N /\ sq.live = N
  BY DEF Still, RealProcs
<1>2. rq.active = Cardinality(N)
  BY <1>1 DEF Counts, Counted, Counting, Still
<1>3. Cardinality(N) = 0
  BY FS_EmptySet
<1> HIDE DEF N
<1> QED BY <1>1, <1>2, <1>3, ConfigAssumption DEF CanStartTask

(* A search past which execute() comes with nothing under way found none   *)
(* but blocked tasks.                                                      *)
LEMMA StillSearched ==
  ASSUME TypeOK, Explained, Counts, Still, SceneNone
  PROVE  hold.sqdone \/ \A s \in sq.buildable \ sq.running : Blocked(s)
<1>1. DOMAIN build_stamps = {}
  BY DEF Explained, Still
<1>2. Range(build_stamps) = {}
  BY <1>1 DEF Range
<1>3. CanStartTask
  BY StillRoom DEF SceneNone
<1>4. \A s \in SceneCandidates : Blocked(s)
  BY DEF SceneNone
<1> QED BY <1>2, <1>3, <1>4 DEF SceneCandidates

(* The steps that leave nothing under way started nothing. *)
LEMMA StillStep ==
  ASSUME TypeOK, Next, Still', pc' \in {"settle", "task", "wait"}
  PROVE  Still /\ (SceneNone \/ Settle \/ TaskNone)
<1>1. rq.state = "Running"
  BY RunningBefore DEF Still
<1>2. ~Migrate /\ ~MigrateNothing
  BY DEF Migrate, MigrateNothing
<1>3. ~(\E s \in Setscene : SceneRun(s)) /\ ~(\E t \in Tasks : TaskRun(t))
      /\ ~(\E p \in procs : WorkerExit(p)) /\ ~WorkerDies
  BY DEF Still, SceneRun, TaskRun, WorkerExit, WorkerDies, TypeOK, EnvType
<1>4. SceneNone \/ Settle \/ TaskNone
  BY <1>2, <1>3, ChoiceStep
<1>5. CASE SceneNone \/ TaskNone
  BY <1>4, <1>5 DEF SceneNone, TaskNone, Still
<1>6. CASE Settle
  <2>1. procs' = procs /\ sq'.live = sq.live /\ env' = env
    BY <1>6, SettleSame DEF Settle
  <2> QED BY <1>1, <1>6, <2>1 DEF Still
<1> QED BY <1>4, <1>5, <1>6

(* The tick does not come past a setscene task it could have chosen. *)
LEMMA SearchedAllStep ==
  ASSUME MaxUpdates = 0, TypeOK, Apart, Explained, Counts, SearchedAll, Next
  PROVE  SearchedAll'
<1>1. hold \in HoldType /\ ~Migrate
  BY DEF TypeOK, Apart, NoRehash, Migrate
<1>2. DOMAIN sq'.deferred \subseteq DOMAIN sq.deferred
  BY DeferredShrinks
<1>3. CASE Settle
  <2>1. SettledHold.sqdone = hold.sqdone /\ SettledHold \in HoldType
    BY <1>1, SettledType DEF SettledHold, HoldType
  <2>2. /\ hold.sqdone => hold'.sqdone
        /\ hold'.sqdone => hold.sqdone \/ SceneFinished(SettledHold)
    BY <1>3, <2>1 DEF Settle, HoldType
  <2>3. /\ sq'.buildable = sq.buildable /\ sq'.running = sq.running /\ sq'.deferred = sq.deferred
        /\ rq'.complete = rq.complete
    BY <1>3, SettleSame, OtherRqSame DEF RqSame
  <2>4. hold'.sqdone => DOMAIN sq'.deferred = {}
    BY <2>2, <2>3 DEF SceneFinished, SearchedAll
  <2>5. ASSUME pc' \in {"settle", "task", "wait"}, Still'
        PROVE  hold'.sqdone \/ \A s \in sq'.buildable \ sq'.running : Blocked(s)'
    <3>1. Still /\ pc = "settle"
      BY <1>3, <2>5, StillStep DEF Settle
    <3>2. hold.sqdone \/ \A s \in sq.buildable \ sq.running : Blocked(s)
      BY <3>1 DEF SearchedAll
    <3> QED BY <2>2, <2>3, <3>2 DEF Blocked
  <2>6. pc' # "wait"
    BY <1>3 DEF Settle
  <2> QED BY <1>2, <2>4, <2>5, <2>6 DEF SearchedAll
<1>4. CASE ~Settle
  <2>1. hold'.sqdone => hold.sqdone
    BY <1>1, <1>4, SceneDoneElsewhere
  <2>2. ASSUME pc' \in {"settle", "task", "wait"}, Still'
        PROVE  hold'.sqdone \/ \A s \in sq'.buildable \ sq'.running : Blocked(s)'
    <3>1. Still /\ (SceneNone \/ TaskNone)
      BY <1>4, <2>2, StillStep
    <3>2. sq' = sq /\ rq' = rq /\ hold' = hold
      BY <3>1 DEF SceneNone, TaskNone
    <3>3. hold.sqdone \/ \A s \in sq.buildable \ sq.running : Blocked(s)
      BY <3>1, StillSearched DEF SearchedAll, TaskNone
    <3> QED BY <3>2, <3>3 DEF Blocked
  <2>3. ASSUME pc' = "wait", Still'
        PROVE  TaskCandidates' = {}
    <3>1. Still /\ TaskNone
      BY <1>4, <2>3, StillStep DEF SceneNone
    <3>2. /\ pc = "task" /\ UNCHANGED <<rq, sq, hold, hash, build_stamps, procs, disk, env>>
          /\ TaskCandidates = {} \/ rq.active # 0
      BY <3>1 DEF TaskNone
    <3>3. TaskCandidates = {}
      BY <3>1, <3>2, StillRoom
    <3>4. TaskCandidates' = TaskCandidates
      BY <3>2 DEF TaskCandidates, SetsceneOnly, CanStartTask, TooManyThreads, Busy
    <3> QED BY <3>3, <3>4
  <2> QED BY <1>2, <2>1, <2>2, <2>3 DEF SearchedAll
<1> QED BY <1>3, <1>4

(* It is so from the start. *)
LEMMA SearchedAllInit ==
  ASSUME Init
  PROVE  SearchedAll
<1>1. pc = "top" /\ hold.sqdone = (Setscene = {})
  BY DEF Init
<1>2. sq.deferred = InitialDeferred
  BY TwinsInit
<1>3. DOMAIN InitialDeferred \subseteq Setscene
  BY DEF InitialDeferred
<1> QED BY <1>1, <1>2, <1>3 DEF SearchedAll

(* A deferred task is only forced when nothing is under way, and then each *)
(* setscene task that may be chosen waits for another.                     *)
LEMMA ForcedStill ==
  ASSUME TypeOK, Counts, SearchedAll, On, ForceDeferred
  PROVE  /\ rq.state = "Running" /\ pc = "wait" /\ Still
         /\ \A s \in sq.buildable \ sq.running : Blocked(s)
<1>1. rq.state = "Running" /\ pc = "wait" /\ env.worker = "up" /\ sq.live = {} /\ DOMAIN sq.deferred # {}
  BY DEF On, Choosing, ForceDeferred, NothingLives
<1>2. procs = {}
  <2>1. Counting
    BY <1>1 DEF Counting
  <2>2. /\ IsFiniteSet(procs) /\ rq.active = Cardinality(RealProcs)
        /\ sq.live = {p.task : p \in SceneProcs}
    BY <1>1, <2>1 DEF Counts, Counted
  <2>3. IsFiniteSet(RealProcs) /\ Cardinality(RealProcs) \in Nat
    BY <2>2, KindsFinite
  <2>4. Cardinality(RealProcs) = 0
    BY <2>2, <2>3 DEF ForceDeferred, NothingLives
  <2>5. RealProcs = {}
    BY ONLY <2>3, <2>4, FS_EmptySet
  <2>6. SceneProcs = {}
    BY <1>1, <2>2
  <2> QED BY <2>5, <2>6 DEF RealProcs, SceneProcs
<1> QED BY <1>1, <1>2 DEF SearchedAll, Still

(* A deferred task is only forced once each task that others wait for is   *)
(* decided: had one of them not been, there would have been one to choose. *)
LEMMA ForcedLate ==
  ASSUME NoHardDepends, OneConfigOwns, TypeOK, Apart, Counts, Onward(sq), SearchedAll, On, ForceDeferred
  PROVE  Range(InitialDeferred) \subseteq Decided(sq)
<1>1. PICK S \in SUBSET (Setscene \ DOMAIN InitialDeferred) :
        /\ Range(InitialDeferred) \subseteq S
        /\ \A s \in S : SqRevdeps[s] \subseteq S
  BY DEF OneConfigOwns
<1> DEFINE X == S \ Decided(sq)
<1> SUFFICES ASSUME X # {} PROVE FALSE
  BY <1>1
<1>2. sq.live = {} /\ \A s \in sq.buildable \ sq.running : Blocked(s)
  BY ForcedStill DEF Still
<1>5. PICK s \in X : SqRevdeps[s] \cap X = {}
  BY SceneTopExists
<1>6. SqRevdeps[s] \subseteq Decided(sq)
  BY <1>1, <1>5
<1>7. s \in sq.buildable
  BY <1>5, <1>6 DEF Onward, Released
<1>8. s \notin sq.running
  BY <1>2, <1>5 DEF Onward, Accounted
<1>9. s \in DOMAIN sq.deferred
  BY <1>2, <1>7, <1>8 DEF Blocked
<1> QED BY <1>5, <1>9 DEF SearchedAll

(* A deferred task has a twin that was not deferred at the start. *)
LEMMA DeferredTwin ==
  ASSUME NEW t \in DOMAIN InitialDeferred
  PROVE  /\ t \in Setscene
         /\ \E o \in Setscene \cap Range(InitialDeferred) : o \notin DOMAIN InitialDeferred /\ Twins(t, o)
<1> DEFINE owner(x) == HashOwner[Idx(x)]
<1>1. InitialDeferred = [x \in {y \in Setscene : y # owner(y)} |-> owner(x)]
  BY DEF InitialDeferred, Idx
<1>2. t \in Setscene /\ t # owner(t) /\ InitialDeferred[t] = owner(t)
  BY <1>1
<1>3. owner(t) \in Range(InitialDeferred)
  BY <1>2 DEF Range
<1>4. owner(t) \in Setscene /\ Idx(owner(t)) = Idx(t)
  <2>1. \E x \in Setscene : HashIndex(x, InitUnihash[x]) = Idx(t)
    BY <1>2 DEF Idx
  <2>2. Idx(t) \in DOMAIN HashOwner
    BY <1>2 DEF Idx, HashOwner
  <2>3. owner(t) = CHOOSE x \in Setscene : HashIndex(x, InitUnihash[x]) = Idx(t)
    BY <2>2 DEF HashOwner
  <2> QED BY <2>1, <2>3 DEF Idx
<1>5. owner(owner(t)) = owner(t)
  BY <1>4
<1>6. owner(t) \notin DOMAIN InitialDeferred
  BY <1>1, <1>5
<1> QED BY <1>2, <1>3, <1>4, <1>6 DEF Twins

(* Of two tasks of an index, the one that is forced comes last. *)
LEMMA ForcedInTurn ==
  ASSUME MaxUpdates = 0, PairedTwins, TypeOK, Apart, SearchedAll, Next,
         Waits(sq), Turns(sq, rq.complete, {}), ForceDeferred,
         Range(InitialDeferred) \subseteq Decided(sq)
  PROVE  Waits(sq') /\ Turns(sq', rq'.complete, {})
<1>1. PICK s \in DOMAIN sq.deferred : sq' = DropDeferred(sq, s)
  BY DEF ForceDeferred
<1>2. sq'.deferred = Restrict(sq.deferred, DOMAIN sq.deferred \ {s}) /\ rq'.complete = rq.complete
  BY <1>1 DEF DropDeferred, ForceDeferred, TypeOK, SqType
<1>3. Decided(sq) \subseteq Decided(sq')
  BY DecidedStays
<1>4. ASSUME NEW t \in DOMAIN sq.deferred
      PROVE  /\ t \in Setscene
             /\ \E o \in Setscene \cap Decided(sq) : o \notin DOMAIN InitialDeferred /\ Twins(t, o)
  BY DeferredTwin DEF SearchedAll
<1>5. ASSUME NEW t \in DOMAIN sq.deferred, NEW u \in Setscene \ DOMAIN sq.deferred, Twins(t, u)
      PROVE  u \in Decided(sq)
  BY <1>4, <1>5 DEF PairedTwins
<1>6. Waits(sq') /\ Turns(sq', rq.complete, {s})
  BY <1>2, <1>3, <1>5, TurnsForced
<1>7. \A t \in DOMAIN sq'.deferred : ~Twins(t, s)
  <2> SUFFICES ASSUME NEW t \in DOMAIN sq'.deferred, Twins(t, s) PROVE FALSE
    OBVIOUS
  <2>1. t \in DOMAIN sq.deferred /\ Twins(s, t)
    BY <1>2 DEF Restrict, Twins
  <2>2. PICK o \in Setscene : o \notin DOMAIN InitialDeferred /\ Twins(s, o)
    BY <1>4
  <2>3. t = o
    BY <1>4, <2>1, <2>2 DEF PairedTwins
  <2> QED BY <2>1, <2>2, <2>3 DEF SearchedAll
<1>8. Turns(sq', rq.complete, {})
  BY <1>6, <1>7 DEF Turns
<1> QED BY <1>2, <1>6, <1>8

(* No setscene task is left behind, and what is held off is up to date.    *)
LEMMA LateInvariant ==
  ASSUME MaxUpdates = 0, NoHardDepends, EnforceHalts
  PROVE  Spec => [](Onward(sq) /\ Explained /\ Undisturbed /\ SearchedAll)
<1>1. HardOrRehash /\ HardOrDeferred
  BY DEF HardOrRehash, HardOrDeferred
<1>2. Init => Onward(sq) /\ Explained /\ Undisturbed /\ SearchedAll
  <2> SUFFICES ASSUME Init PROVE Onward(sq) /\ Explained /\ Undisturbed /\ SearchedAll
    OBVIOUS
  <2>1. Explained /\ Undisturbed
    BY DEF Init, Explained, Undisturbed
  <2> QED BY <2>1, OnwardInit, SearchedAllInit
<1>3. /\ TypeOK /\ Apart /\ Counts /\ DepsComplete /\ NoStaleMigration
      /\ Onward(sq) /\ Explained /\ Undisturbed /\ SearchedAll /\ [Next]_vars
      => (Onward(sq) /\ Explained /\ Undisturbed /\ SearchedAll)'
  <2> SUFFICES ASSUME TypeOK, Apart, Counts, DepsComplete, NoStaleMigration,
                      Onward(sq), Explained, Undisturbed, SearchedAll, [Next]_vars
               PROVE  Onward(sq') /\ Explained' /\ Undisturbed' /\ SearchedAll'
    OBVIOUS
  <2>1. CASE Next
    <3>1. Started /\ Untouched /\ SqDecided(sq) /\ SqHard(sq) /\ NoRehash /\ Fresh
      BY DEF Apart
    <3>2. Onward(sq')
      BY <2>1, <3>1, OnwardStep
    <3>3. Explained' /\ Undisturbed'
      BY <1>1, <2>1, <3>1, ExplainedStep, UndisturbedStep
    <3>4. SearchedAll'
      BY <2>1, SearchedAllStep
    <3> QED BY <3>2, <3>3, <3>4
  <2>2. CASE UNCHANGED vars
    <3>1. Onward(sq') /\ Explained' /\ Undisturbed'
      BY <2>2 DEF vars, Explained, RealProcs, Undisturbed, Undecided
    <3>2. SearchedAll'
      BY <2>2 DEF vars, SearchedAll, Still, Blocked, SetsceneOnly, TaskCandidates, CanStartTask,
         TooManyThreads, Busy
    <3> QED BY <3>1, <3>2
  <2> QED BY <2>1, <2>2
<1> QED BY <1>1, <1>2, <1>3, TypeCorrect, ApartInvariant, CountsInvariant, DepsCompleteInvariant,
           NeverTooLate, PTL DEF Spec

(* Of the setscene tasks of two configurations that would restore the same *)
(* object, one at most is under way, even when the deferrals deadlock and  *)
(* the first of them is let go by force: the one it waits for was decided. *)
THEOREM TwinsOfTwoConfigs ==
  ASSUME MaxUpdates = 0, PairedTwins, OneConfigOwns, NoHardDepends, EnforceHalts
  PROVE  Spec => []TwinsInTurn
<1>1. HardOrRehash
  BY DEF HardOrRehash
<1>2. FewTwins
  BY DEF FewTwins, PairedTwins
<1>3. Init => InTurn /\ TwinsApart
  <2> SUFFICES ASSUME Init PROVE InTurn /\ TwinsApart
    OBVIOUS
  <2>1. sq.live = {}
    BY InitialScene DEF Grown
  <2> QED BY <2>1, TwinsInit DEF InTurn, TwinsApart
<1>4. /\ TypeOK /\ TypeOK' /\ Apart /\ Apart' /\ Counts /\ Onward(sq) /\ Explained /\ SearchedAll
      /\ InTurn /\ TwinsApart /\ [Next]_vars
      => InTurn' /\ TwinsApart'
  <2> SUFFICES ASSUME TypeOK, TypeOK', Apart, Apart', Counts, Onward(sq), Explained, SearchedAll,
                      InTurn, TwinsApart, [Next]_vars
               PROVE  InTurn' /\ TwinsApart'
    OBVIOUS
  <2>1. CASE UNCHANGED vars
    BY <2>1 DEF vars, InTurn, On, Choosing, TwinsApart, Waits, Turns, Decided
  <2>2. CASE Next
    <3>1. ASSUME On, Choosing' PROVE Waits(sq') /\ Turns(sq', rq'.complete, {})
      <4>1. CASE ForceDeferred
        BY <2>2, <3>1, <4>1, ForcedLate, ForcedInTurn DEF InTurn
      <4>2. CASE ~ForceDeferred
        BY <1>2, <2>2, <3>1, <4>2, InTurnStep DEF InTurn
      <4> QED BY <4>1, <4>2
    <3>2. InTurn'
      <4>1. SUFFICES ASSUME On' PROVE Waits(sq') /\ Turns(sq', rq'.complete, {})
        BY DEF InTurn, Waits, Turns, Decided
      <4> QED BY <2>2, <3>1, <4>1, OnBefore DEF On
    <3>3. ASSUME NEW s \in Setscene, SceneRun(s) PROVE Turns(sq', rq'.complete, {})
      <4>1. On
        BY <3>3 DEF SceneRun, On, Choosing
      <4> QED BY <2>2, <3>3, <4>1, SentInTurn DEF InTurn, On
    <3>4. TwinsApart'
      BY <2>2, <3>3, TwinsApartStep DEF Turns
    <3> QED BY <3>2, <3>4
  <2> QED BY <2>1, <2>2
<1>5. TwinsApart /\ hash.uni = InitUnihash => TwinsInTurn
  BY DEF TwinsApart, Twins, Idx, TwinsInTurn
<1> QED BY <1>1, <1>3, <1>4, <1>5, ApartInvariant, TypeCorrect, CountsInvariant, LateInvariant,
           UnihashKept, PTL DEF Spec

----------------------------------------------------------------------------
(* The deferrals of tasks that no setscene task is decided before.         *)

(* A task with a twin is decided first: nothing that is built on it has a  *)
(* setscene variant.                                                       *)
TwinsFirst == \A s, t \in Setscene : Twins(s, t) => SqRevdeps[s] = {}

(* No real task runs or can be chosen. *)
Resting ==
  /\ RealProcs = {} /\ ~sq.need_update
  /\ SetsceneOnly \/ \A t \in ((rq.buildable \ rq.running) \ hold.tasks)
                                 \cap (hold.covered \cup hold.notcovered) : TooManyThreads(t)

(* Only u, which was forced, may still be chosen or is under way. *)
Alone(u) ==
  /\ u \in Setscene \ (Decided(sq) \cup DOMAIN sq.deferred) /\ SqRevdeps[u] = {}
  /\ sq.live \subseteq {u}
  /\ \A z \in (sq.buildable \ sq.running) \ {u} : Blocked(z)
  /\ Resting

(* The tasks of an index take turns; but one was perhaps forced, and it is *)
(* alone until it is decided.                                              *)
FirstInTurn ==
  On => /\ Waits(sq)
        /\ \/ Turns(sq, rq.complete, {})
           \/ \E u \in Setscene : Alone(u) /\ Turns(sq, rq.complete, {u})

(* A deferred task is an endpoint; so is each of its twins. *)
LEMMA DeferredFirst ==
  ASSUME TwinsFirst, SearchedAll, NEW t \in DOMAIN sq.deferred
  PROVE  t \in Setscene /\ SqRevdeps[t] = {} /\ \A u \in Setscene : Twins(t, u) => SqRevdeps[u] = {}
<1>1. t \in DOMAIN InitialDeferred
  BY DEF SearchedAll
<1>2. t \in Setscene /\ SqRevdeps[t] = {}
  BY <1>1, DeferredTwin DEF TwinsFirst
<1>3. \A u \in Setscene : Twins(t, u) => Twins(u, t)
  BY DEF Twins
<1> QED BY <1>2, <1>3 DEF TwinsFirst

(* Nothing is forced while a forced task is alone, and before each task of *)
(* its index that is not deferred is decided.                              *)
LEMMA ForcedAlone ==
  ASSUME MaxUpdates = 0, TwinsFirst, TypeOK, Apart, Counts, Onward(sq), Explained, Undisturbed,
         SearchedAll, On, FirstInTurn, Next, ForceDeferred
  PROVE  FirstInTurn'
<1>1. /\ rq.state = "Running" /\ pc = "wait" /\ Still
      /\ \A s \in sq.buildable \ sq.running : Blocked(s)
  BY ForcedStill
<1>2. ASSUME NEW u \in Setscene \ DOMAIN sq.deferred, SqRevdeps[u] = {}
      PROVE  u \in Decided(sq)
  <2>1. u \in sq.buildable
    BY <1>2 DEF Onward, Released
  <2>2. u \in sq.running
    BY <1>1, <1>2, <2>1 DEF Blocked
  <2> QED BY <1>1, <2>2 DEF Onward, Accounted, Still
<1>3. ASSUME NEW t \in DOMAIN sq.deferred, NEW u \in Setscene \ DOMAIN sq.deferred, Twins(t, u)
      PROVE  u \in Decided(sq)
  BY <1>2, <1>3, DeferredFirst
<1>4. PICK X : Waits(sq) /\ Turns(sq, rq.complete, X)
  BY DEF FirstInTurn
<1>5. PICK s \in DOMAIN sq.deferred : sq' = DropDeferred(sq, s)
  BY DEF ForceDeferred
<1>6. s \in Setscene
  BY DeferredFirst
<1>7. /\ sq'.deferred = Restrict(sq.deferred, DOMAIN sq.deferred \ {s})
      /\ UNCHANGED <<rq, hold, hash, build_stamps, procs, disk, env>>
  BY <1>5 DEF DropDeferred, ForceDeferred, TypeOK, SqType
<1>8. /\ sq'.covered = sq.covered /\ sq'.notcovered = sq.notcovered /\ sq'.running = sq.running
      /\ sq'.buildable = sq.buildable /\ sq'.live = sq.live /\ sq'.need_update = sq.need_update
  BY <1>5, DropDeferredSame DEF TypeOK
<1>9. Waits(sq') /\ Turns(sq', rq.complete, {s})
  BY <1>3, <1>4, <1>7, DecidedStays, TurnsForced
<1>10. Resting
  <2>1. RealProcs = {} /\ ~sq.need_update
    BY <1>1 DEF Still, RealProcs, Undisturbed
  <2>2. TaskCandidates = {}
    BY <1>1 DEF SearchedAll
  <2>3. CanStartTask
    BY <1>1, StillRoom
  <2>4. Range(build_stamps) = {}
    <3>1. DOMAIN build_stamps = {}
      BY <1>1 DEF Explained, Still
    <3> QED BY <3>1 DEF Range
  <2> QED BY <2>1, <2>2, <2>3, <2>4 DEF Resting, TaskCandidates
<1>11. Resting'
  BY <1>7, <1>8, <1>10 DEF Resting, RealProcs, SetsceneOnly, TooManyThreads, Busy
<1>12. CASE s \in Decided(sq')
  BY <1>7, <1>9, <1>12 DEF Turns, FirstInTurn
<1>13. CASE s \notin Decided(sq')
  <2>1. s \in Setscene \ (Decided(sq') \cup DOMAIN sq'.deferred) /\ SqRevdeps[s] = {}
    BY <1>6, <1>7, <1>13, DeferredFirst DEF Restrict
  <2>2. sq'.live \subseteq {s}
    BY <1>1, <1>8 DEF Still
  <2>3. ASSUME NEW z \in (sq'.buildable \ sq'.running) \ {s} PROVE Blocked(z)'
    <3>1. Blocked(z)
      BY <1>1, <1>8, <2>3
    <3> QED BY <1>7, <2>3, <3>1 DEF Blocked, Restrict
  <2>4. Alone(s)'
    BY <1>11, <2>1, <2>2, <2>3 DEF Alone
  <2> QED BY <1>6, <1>7, <1>9, <2>4 DEF FirstInTurn
<1> QED BY <1>12, <1>13

(* While a forced task is alone, the exit that is read is its own. *)
LEMMA AloneRead ==
  ASSUME TypeOK, Apart, NEW u, Alone(u), NEW p \in procs, ReadExit(p)
  PROVE  u \in Decided(sq') /\ sq'.deferred = sq.deferred /\ rq'.complete = rq.complete
<1>1. sq \in SqType /\ rq \in RqType
  BY DEF TypeOK
<1>2. p \in SceneProcs
  BY DEF Alone, Resting, RealProcs, SceneProcs
<1>3. p.task = u /\ u \in sq.live /\ u \in Setscene
  BY <1>2 DEF Apart, Started, Alone
<1>4. \/ sq' = [Decide(sq, {u}, {}) EXCEPT !.live = @ \ {u}]
      \/ sq' = [SqTaskFail(sq, u, disk) EXCEPT !.live = @ \ {u}]
  BY <1>3 DEF ReadExit
<1>5. rq'.complete = rq.complete
  BY <1>1, <1>3 DEF ReadExit, RqType
<1>6. CASE sq' = [Decide(sq, {u}, {}) EXCEPT !.live = @ \ {u}]
  BY <1>1, <1>5, <1>6 DEF Decide, SqType, Decided
<1>7. CASE sq' = [SqTaskFail(sq, u, disk) EXCEPT !.live = @ \ {u}]
  <2> DEFINE F == FailClosure(sq, u, disk)
  <2>1. SqTaskFail(sq, u, disk) =
          Decide([sq EXCEPT !.running = @ \cup (F \ {u}), !.buildable = @ \cup (F \ {u})], {}, F)
    BY DEF SqTaskFail
  <2>2. u \in F
    BY <1>3 DEF FailClosure
  <2> HIDE DEF F
  <2> QED BY <1>1, <1>5, <1>7, <2>1, <2>2 DEF Decide, SqType, Decided
<1> QED BY <1>4, <1>6, <1>7

(* And the setscene task that is chosen is that one. *)
LEMMA AloneScene ==
  ASSUME TwinsFirst, TypeOK, Apart, SearchedAll, NEW u, Alone(u), NEW s \in Setscene,
         SceneSkip(s) \/ SceneFailOutright(s) \/ SceneRun(s)
  PROVE  /\ sq'.deferred = sq.deferred /\ rq'.complete = rq.complete
         /\ u \in Decided(sq') \/ SceneRun(u)
<1> DEFINE q == DropDeferred(sq, s)
<1>1. sq \in SqType
  BY DEF TypeOK
<1>2. s \in sq.buildable \ sq.running
  BY DEF SceneSkip, SceneFailOutright, SceneRun, Restorable, SceneCandidates
<1>3. s = u
  <2> SUFFICES ASSUME Blocked(s) PROVE FALSE
    BY <1>2 DEF Alone
  <2>1. SqRevdeps[s] = {}
    BY DeferredFirst DEF Blocked
  <2>2. ~NeedsNoRestore(s)
    BY <2>1 DEF NeedsNoRestore, SkipCandidate, Restorable
  <2> QED BY <2>2 DEF SceneSkip, SceneFailOutright, SceneRun, Restorable
<1>4. q \in SqType /\ q.deferred = sq.deferred
  <2>1. u \notin DOMAIN sq.deferred /\ sq.deferred \in [DOMAIN sq.deferred -> Setscene]
    BY <1>1, PartialElim DEF Alone, SqType
  <2>2. Restrict(sq.deferred, DOMAIN sq.deferred \ {u}) = sq.deferred
    BY <2>1 DEF Restrict
  <2> QED BY <1>1, <1>3, <2>2, DropDeferredSame DEF DropDeferred, SqType
<1>5. rq' = rq
  BY DEF SceneSkip, SceneFailOutright, SceneRun
<1> HIDE DEF q
<1>6. CASE SceneSkip(s)
  <2>1. sq' = Decide([q EXCEPT !.running = @ \cup {s}, !.buildable = @ \cup {s}], {s}, {})
    BY <1>6 DEF SceneSkip, SqTaskSkip, q
  <2> QED BY <1>3, <1>4, <1>5, <2>1 DEF Decide, SqType, Decided
<1>7. CASE SceneFailOutright(s)
  <2> DEFINE F == FailClosure(q, s, disk)
  <2>1. sq' = Decide([q EXCEPT !.running = @ \cup F, !.buildable = @ \cup F], {}, F)
    BY <1>7 DEF SceneFailOutright, SqTaskFailOutright, q
  <2>2. s \in F
    BY DEF FailClosure
  <2> HIDE DEF F
  <2> QED BY <1>3, <1>4, <1>5, <2>1, <2>2 DEF Decide, SqType, Decided
<1>8. CASE SceneRun(s)
  <2>1. sq' = [q EXCEPT !.running = @ \cup {s}, !.live = @ \cup {s}]
    BY <1>8 DEF SceneRun, q
  <2> QED BY <1>3, <1>4, <1>5, <1>8, <2>1 DEF SqType
<1> QED BY <1>6, <1>7, <1>8

(* What keeps a forced task alone. *)
LEMMA AloneKept ==
  ASSUME NEW u, Alone(u),
         sq'.covered = sq.covered, sq'.notcovered = sq.notcovered, sq'.deferred = sq.deferred,
         sq'.buildable = sq.buildable, sq.running \subseteq sq'.running, sq'.live \subseteq {u},
         sq'.need_update = FALSE,
         rq'.buildable = rq.buildable, rq'.running = rq.running, rq'.complete = rq.complete,
         hold'.covered = hold.covered, hold'.notcovered = hold.notcovered, hold'.tasks = hold.tasks,
         env'.options = env.options, \A p \in procs' : p.scene
  PROVE  Alone(u)'
<1>1. Resting'
  BY DEF Alone, Resting, RealProcs, SetsceneOnly, TooManyThreads, Busy
<1>2. \A z \in (sq'.buildable \ sq'.running) \ {u} : Blocked(z)'
  BY DEF Alone, Blocked
<1> QED BY <1>1, <1>2 DEF Alone, Decided

(* Each step leaves it alone, or decides it. *)
LEMMA AloneStep ==
  ASSUME MaxUpdates = 0, TwinsFirst, TypeOK, Apart, Counts, Onward(sq), SearchedAll, On,
         NEW u \in Setscene, Alone(u), Next
  PROVE  /\ sq'.deferred = sq.deferred /\ rq'.complete = rq.complete
         /\ u \in Decided(sq') \/ Alone(u)'
<1>1. sq \in SqType /\ rq \in RqType /\ hold \in HoldType /\ env \in EnvType /\ procs \subseteq ProcType
  BY DEF TypeOK
<1>2. ~Migrate
  BY DEF Apart, NoRehash, Migrate
<1>3. /\ \A p \in procs : p.scene
      /\ sq.live \subseteq {u} /\ sq.need_update = FALSE
  BY <1>1 DEF Alone, Resting, RealProcs, SqType
<1>4. ~ForceDeferred
  <2> SUFFICES ASSUME ForceDeferred PROVE FALSE
    OBVIOUS
  <2>1. Still /\ \A s \in sq.buildable \ sq.running : Blocked(s)
    BY ForcedStill
  <2>2. u \in sq.buildable
    BY DEF Alone, Onward, Released
  <2>3. u \in sq.running
    BY <2>1, <2>2 DEF Alone, Blocked
  <2> QED BY <2>1, <2>3 DEF Alone, Onward, Accounted, Still
<1>5. TaskCandidates = {}
  BY DEF Alone, Resting, TaskCandidates
<1>6. CASE \E p \in procs : ReadExit(p)
  BY <1>6, AloneRead
<1>7. CASE \E s \in Setscene : SceneSkip(s) \/ SceneFailOutright(s) \/ SceneRun(s)
  <2>1. PICK s \in Setscene : SceneSkip(s) \/ SceneFailOutright(s) \/ SceneRun(s)
    BY <1>7
  <2>2. /\ sq'.deferred = sq.deferred /\ rq'.complete = rq.complete
        /\ u \in Decided(sq') \/ SceneRun(u)
    BY <2>1, AloneScene
  <2>3. CASE SceneRun(u)
    <3>1. Sends(u)
      BY <2>3, SceneRunSends
    <3>2. /\ rq' = rq /\ hold' = hold /\ env' = env
          /\ procs' = procs \cup {[task |-> u, scene |-> TRUE, status |-> "running"]}
      BY <2>3 DEF SceneRun
    <3>3. \A p \in procs' : p.scene
      BY <1>3, <3>2
    <3>4. /\ sq'.covered = sq.covered /\ sq'.notcovered = sq.notcovered
          /\ sq'.buildable = sq.buildable /\ sq.running \subseteq sq'.running
          /\ sq'.live \subseteq {u} /\ sq'.need_update = FALSE
      BY <1>3, <3>1 DEF Sends
    <3>5. Alone(u)'
      BY <2>2, <3>2, <3>3, <3>4, AloneKept
    <3> QED BY <2>2, <3>5
  <2> QED BY <2>2, <2>3
<1>8. CASE Settle
  <2>1. /\ sq'.covered = sq.covered /\ sq'.notcovered = sq.notcovered /\ sq'.deferred = sq.deferred
        /\ sq'.buildable = sq.buildable /\ sq'.running = sq.running /\ sq'.live = sq.live
        /\ sq'.need_update = FALSE /\ procs' = procs
    BY <1>8, SettleSame
  <2>2. RqSame
    BY <1>8, OtherRqSame
  <2>3. SettledHold = hold /\ SettledBuildable = rq.buildable
    BY <1>3 DEF SettledHold, SettledBuildable
  <2>4. /\ rq'.buildable = rq.buildable /\ env' = env
        /\ hold'.covered = hold.covered /\ hold'.notcovered = hold.notcovered
        /\ hold'.tasks = hold.tasks
    BY <1>1, <1>8, <2>3 DEF Settle, RqType, HoldType
  <2> QED BY <1>3, <2>1, <2>2, <2>4, AloneKept DEF RqSame
<1>9. ASSUME NEW t \in Tasks,
             TaskForbidden(t) \/ TaskSkipped(t) \/ TaskNoExec(t) \/ TaskSpawnFails(t) \/ TaskRun(t)
      PROVE  FALSE
  BY <1>5, <1>9 DEF TaskForbidden, TaskSkipped, TaskNoExec, TaskSpawnFails, TaskRun, MustRun
<1>10. CASE \/ FinishNow \/ Finish \/ Execute \/ Teardown \/ ReadDone \/ MigrateNothing
            \/ SceneNone \/ TaskNone \/ WriteFails \/ WaitForTasks \/ Conclude
            \/ (\E p \in procs : WorkerExit(p) \/ ReadUnihash(p))
            \/ WorkerDies \/ StopRequest \/ Ended
  <2>1. sq' = sq /\ hold' = hold
    BY <1>10 DEF FinishNow, Finish, Execute, Teardown, ReadDone, MigrateNothing,
       SceneNone, TaskNone, WriteFails, WaitForTasks, Conclude, WorkerExit, ReadUnihash,
       WorkerDies, StopRequest, Ended, vars
  <2>2. /\ rq'.buildable = rq.buildable /\ rq'.running = rq.running /\ rq'.complete = rq.complete
        /\ env'.options = env.options
    BY <1>1, <1>10 DEF FinishNow, Finish, Execute, Teardown, ReadDone, MigrateNothing,
       SceneNone, TaskNone, WriteFails, WaitForTasks, Conclude, WorkerExit, ReadUnihash,
       WorkerDies, StopRequest, Ended, vars, RqType, EnvType
  <2>3. \A p \in procs' : p.scene
    <3>1. ASSUME NEW p \in procs, WorkerExit(p) PROVE \A q \in procs' : q.scene
      <4>1. PICK status \in {"ok", "fail"} : procs' = (procs \ {p}) \cup {[p EXCEPT !.status = status]}
        BY <3>1 DEF WorkerExit
      <4>2. p \in ProcType /\ p.scene
        BY <1>1, <1>3
      <4>3. [p EXCEPT !.status = status].scene
        BY <4>2 DEF ProcType
      <4> QED BY <1>3, <4>1, <4>3
    <3>2. ASSUME ~\E p \in procs : WorkerExit(p) PROVE procs' \subseteq procs
      BY <1>10, <3>2 DEF FinishNow, Finish, Execute, Teardown, ReadDone, MigrateNothing,
         SceneNone, TaskNone, WriteFails, WaitForTasks, Conclude, ReadUnihash,
         WorkerDies, StopRequest, Ended, vars
    <3> QED BY <1>3, <3>1, <3>2
  <2>4. Alone(u)'
    BY <1>3, <2>1, <2>2, <2>3, AloneKept
  <2> QED BY <2>1, <2>2, <2>4
<1> QED BY <1>2, <1>4, <1>6, <1>7, <1>8, <1>9, <1>10 DEF Next, CookerStep

(* The tasks of an index take turns, or one of them is forced and alone. *)
LEMMA FirstInTurnStep ==
  ASSUME MaxUpdates = 0, TwinsFirst, FewTwins \/ DOMAIN sq.deferred \cap Decided(sq) = {},
         TypeOK, TypeOK', Apart, Apart', Counts, Onward(sq), Explained, Undisturbed, SearchedAll,
         On, Choosing', FirstInTurn, Next
  PROVE  FirstInTurn'
<1>1. CASE ForceDeferred
  BY <1>1, ForcedAlone
<1>2. CASE ~ForceDeferred /\ Turns(sq, rq.complete, {})
  <2>1. Waits(sq') /\ Turns(sq', rq'.complete, {})
    BY <1>2, InTurnStep DEF FirstInTurn
  <2> QED BY <2>1 DEF FirstInTurn
<1>3. ASSUME NEW u \in Setscene, Alone(u), Turns(sq, rq.complete, {u})
      PROVE  FirstInTurn'
  <2>1. /\ sq'.deferred = sq.deferred /\ rq'.complete = rq.complete
        /\ u \in Decided(sq') \/ Alone(u)'
    BY <1>3, AloneStep
  <2>2. Waits(sq') /\ Turns(sq', rq'.complete, {u})
    BY <1>3, <2>1, DecidedStays, TurnsKept DEF FirstInTurn
  <2>3. CASE u \in Decided(sq')
    <3>1. Turns(sq', rq'.complete, {})
      BY <2>2, <2>3 DEF Turns
    <3> QED BY <2>2, <3>1 DEF FirstInTurn
  <2>4. CASE Alone(u)'
    BY <2>2, <2>4 DEF FirstInTurn
  <2> QED BY <2>1, <2>3, <2>4
<1> QED BY <1>1, <1>2, <1>3 DEF FirstInTurn

(* What is sent to the worker is in turn. *)
LEMMA SentFirst ==
  ASSUME MaxUpdates = 0, TwinsFirst, TypeOK, Apart, Counts, Onward(sq), SearchedAll, FirstInTurn, Next,
         NEW s \in Setscene, SceneRun(s)
  PROVE  \A u, v \in Setscene \ DOMAIN sq'.deferred :
            Twins(u, v) => u \in Decided(sq') \/ v \in Decided(sq')
<1>1. On
  BY DEF SceneRun, On, Choosing
<1>2. CASE Turns(sq, rq.complete, {})
  <2>1. Turns(sq', rq'.complete, {})
    BY <1>1, <1>2, SentInTurn DEF FirstInTurn, On
  <2> QED BY <2>1 DEF Turns
<1>3. ASSUME NEW u \in Setscene, Alone(u), Turns(sq, rq.complete, {u})
      PROVE  \A v, w \in Setscene \ DOMAIN sq'.deferred :
                Twins(v, w) => v \in Decided(sq') \/ w \in Decided(sq')
  <2>1. sq'.deferred = sq.deferred /\ Decided(sq) \subseteq Decided(sq')
    BY <1>1, <1>3, AloneStep, DecidedStays
  <2> QED BY <1>3, <2>1 DEF Turns
<1> QED BY <1>1, <1>2, <1>3 DEF FirstInTurn

(* Of the setscene tasks of any number of configurations that would        *)
(* restore the same object, one at most is under way, when no setscene     *)
(* task is decided before them: a task that is let go by force, because    *)
(* the deferrals deadlock, runs before another one is.                     *)
THEOREM TwinsAtTheTop ==
  ASSUME MaxUpdates = 0, TwinsFirst, TwinsManaged, NoHardDepends, EnforceHalts
  PROVE  Spec => []TwinsInTurn
<1>1. HardOrRehash
  BY DEF HardOrRehash
<1>2. Init => FirstInTurn /\ TwinsApart
  <2> SUFFICES ASSUME Init PROVE FirstInTurn /\ TwinsApart
    OBVIOUS
  <2>1. sq.live = {}
    BY InitialScene DEF Grown
  <2> QED BY <2>1, TwinsInit DEF FirstInTurn, TwinsApart
<1>3. /\ Managed /\ TypeOK /\ TypeOK' /\ Apart /\ Apart' /\ Counts /\ Onward(sq) /\ Explained
      /\ Undisturbed /\ SearchedAll /\ FirstInTurn /\ TwinsApart /\ [Next]_vars
      => FirstInTurn' /\ TwinsApart'
  <2> SUFFICES ASSUME Managed, TypeOK, TypeOK', Apart, Apart', Counts, Onward(sq), Explained,
                      Undisturbed, SearchedAll, FirstInTurn, TwinsApart, [Next]_vars
               PROVE  FirstInTurn' /\ TwinsApart'
    OBVIOUS
  <2>1. CASE UNCHANGED vars
    <3>1. UNCHANGED <<pc, rq, sq, hold, procs, env>>
      BY <2>1 DEF vars
    <3>2. Resting' <=> Resting
      BY <3>1 DEF Resting, RealProcs, SetsceneOnly, TooManyThreads, Busy
    <3>3. \A u : Alone(u)' <=> Alone(u)
      BY <3>1, <3>2 DEF Alone, Decided, Blocked
    <3>4. (On' <=> On) /\ TwinsApart'
      BY <3>1 DEF On, Choosing, TwinsApart
    <3>5. FirstInTurn'
      BY <3>1, <3>3, <3>4 DEF FirstInTurn
    <3> QED BY <3>4, <3>5
  <2>2. CASE Next
    <3>1. FirstInTurn'
      <4>1. SUFFICES ASSUME On' PROVE FirstInTurn'
        BY DEF FirstInTurn
      <4>2. On /\ Choosing'
        BY <2>2, <4>1, OnBefore DEF On
      <4> QED BY <2>2, <4>2, FirstInTurnStep DEF Managed
    <3>2. TwinsApart'
      BY <2>2, SentFirst, TwinsApartStep
    <3> QED BY <3>1, <3>2
  <2> QED BY <2>1, <2>2
<1>4. TwinsApart /\ hash.uni = InitUnihash => TwinsInTurn
  BY DEF TwinsApart, Twins, Idx, TwinsInTurn
<1> QED BY <1>1, <1>2, <1>3, <1>4, ApartInvariant, TypeCorrect, CountsInvariant, ManagedInvariant,
           LateInvariant, UnihashKept, PTL DEF Spec

=============================================================================
