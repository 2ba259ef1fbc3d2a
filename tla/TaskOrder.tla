----------------------------- MODULE TaskOrder -----------------------------
(***************************************************************************)
(* What a run queue promises of each task, whatever the setscene code, the *)
(* scheduler and the worker do in between: it is started at most once,     *)
(* after everything it depends on is complete; it completes or fails after *)
(* it was started, not both; nothing is ever undone.                       *)
(***************************************************************************)
EXTENDS RunQueueGraph

VARIABLES running, complete, failed

vars == <<running, complete, failed>>

Init == running = {} /\ complete = {} /\ failed = {}

Ready(t) == t \notin running /\ Depends[t] \subseteq complete

Start(t) ==
  /\ Ready(t)
  /\ running' = running \cup {t}
  /\ UNCHANGED <<complete, failed>>

(* The task has a current stamp, is covered, or has nothing to execute. *)
Skip(t) ==
  /\ Ready(t)
  /\ running' = running \cup {t}
  /\ complete' = complete \cup {t}
  /\ UNCHANGED failed

Succeed(t) ==
  /\ t \in running \ (complete \cup failed)
  /\ complete' = complete \cup {t}
  /\ UNCHANGED <<running, failed>>

Fail(t) ==
  /\ t \in running \ (complete \cup failed)
  /\ failed' = failed \cup {t}
  /\ UNCHANGED <<running, complete>>

Next == \E t \in Tasks : Start(t) \/ Skip(t) \/ Succeed(t) \/ Fail(t)

Spec == Init /\ [][Next]_vars

=============================================================================
