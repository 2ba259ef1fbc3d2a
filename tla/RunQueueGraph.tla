--------------------------- MODULE RunQueueGraph ---------------------------
(***************************************************************************)
(* The static data BitBake computes before it executes a run queue: the    *)
(* task graph of RunQueueData and the scene-queue graph that               *)
(* build_scenequeue_data() of bitbake/lib/bb/runqueue.py derives from it.  *)
(*                                                                         *)
(* A task X of a recipe may have a variant X_setscene that restores the    *)
(* output of X from shared state.  BitBake names both by the tid of X; the *)
(* setscene variants are ordered from the targets downwards, the real      *)
(* tasks from the leaves upwards.  Every closure the code computes with a  *)
(* work list is defined here as a least fixed point, without recursion, so *)
(* that the same definitions serve TLC and TLAPS.                          *)
(***************************************************************************)
EXTENDS Integers, FiniteSets

CONSTANTS
  Tasks,        \* tids of rqdata.runtaskentries
  Depends,      \* runtaskentries[t].depends
  Setscene,     \* rqdata.runq_setscene_tids
  HardChildren, \* sq_harddeps: setscene tasks that declare a [depends] on this one
  Targets,      \* rqdata.target_tids
  Recipe,       \* the recipe file (fn) of a task
  TaskName,     \* the task name within the recipe (do_fetch, ...)
  NoExec,       \* tasks flagged noexec
  NoStamp       \* tasks flagged nostamp

(***************************************************************************)
(* What RunQueueData.prepare() guarantees: dependencies are tasks of the   *)
(* queue, and the graph has no cycle (circular_depchains_handler refuses   *)
(* to go on otherwise).                                                    *)
(***************************************************************************)
ASSUME GraphAssumption ==
  /\ IsFiniteSet(Tasks)
  /\ Depends \in [Tasks -> SUBSET Tasks]
  /\ Setscene \subseteq Tasks
  /\ HardChildren \in [Setscene -> SUBSET Setscene]
  /\ Targets \subseteq Tasks
  /\ NoExec \subseteq Tasks
  /\ NoStamp \subseteq Tasks

ASSUME AcyclicAssumption ==
  \A S \in SUBSET Tasks : S # {} => \E t \in S : Depends[t] \cap S = {}

----------------------------------------------------------------------------

RealTasks == Tasks \ Setscene

Revdeps == [t \in Tasks |-> {r \in Tasks : t \in Depends[r]}]

(* The tasks that depend, directly or not, on a task of S (S excluded      *)
(* unless it depends on itself through S).                                 *)
Dependents(S) ==
  {t \in Tasks : \A U \in SUBSET Tasks :
     (/\ UNION {Revdeps[s] : s \in S} \subseteq U
      /\ \A u \in U : Revdeps[u] \subseteq U) => t \in U}

(* sq_covered_tasks: the real tasks that are only needed to produce s, up  *)
(* to the next setscene tasks; a restored s makes them unnecessary.        *)
CoveredBy ==
  [s \in Setscene |->
     {t \in RealTasks : \A U \in SUBSET RealTasks :
        (/\ Depends[s] \cap RealTasks \subseteq U
         /\ \A u \in U : Depends[u] \cap RealTasks \subseteq U) => t \in U}]

(* sq_revdeps_squash: the setscene tasks that reach s through real tasks   *)
(* only.                                                                   *)
Squash ==
  [s \in Setscene |->
     {p \in Setscene : \/ s \in Depends[p]
                       \/ \E t \in CoveredBy[p] : s \in Depends[t]}]

\* Mutant: [depends] of the setscene tasks is not looked at.
SqRevdeps_Squash ==
  [s \in Setscene |-> IF HardChildren[s] = {} THEN Squash[s] ELSE {}]

(* sq_revdeps: the setscene tasks that are decided before s.  A task that  *)
(* others depend on explicitly loses its squashed reverse dependencies, "to *)
(* avoid circular dependencies".                                           *)
SqRevdeps ==
  [s \in Setscene |->
     (IF HardChildren[s] = {} THEN Squash[s] ELSE {})
       \cup {p \in Setscene : s \in HardChildren[p]}]

SqDeps == [s \in Setscene |-> {d \in Setscene : s \in SqRevdeps[d]}]

(* cantskip: the targets of the build that have no setscene variant. *)
CantSkip == Targets \ Setscene

(* unskippable: the endpoints of the build down to and including the first *)
(* setscene tasks.                                                         *)
Unskippable ==
  {t \in Tasks : \A U \in SUBSET Tasks :
     (/\ {e \in Tasks : Revdeps[e] = {}} \cup CantSkip \subseteq U
      /\ \A u \in U \ Setscene : Depends[u] \subseteq U) => t \in U}

(* What the setscene code can never skip is done from the start; its       *)
(* leaves are buildable at once.                                           *)
InitialDone == Unskippable \ Setscene

InitialBuildable == {t \in InitialDone : Depends[t] = {}}

InitialSqBuildable == {s \in Setscene : SqRevdeps[s] = {}}

(* The tasks that scenequeue_updatecounters() adds to done, the set        *)
(* tasks_scenequeue_done, once the setscene tasks of X are decided: X, and  *)
(* below them each real task whose reverse dependencies are all done.      *)
NewlyDone(done, X) ==
  {t \in Tasks : \A U \in SUBSET Tasks :
     (/\ X \subseteq U
      /\ \A d \in RealTasks \ done :
           (Revdeps[d] \cap U # {} /\ Revdeps[d] \subseteq done \cup U) => d \in U)
     => t \in U}

=============================================================================
