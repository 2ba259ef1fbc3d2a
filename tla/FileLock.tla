----------------------------- MODULE FileLock -----------------------------
(***************************************************************************)
(* What a lock file promises to the processes that use it: many shared     *)
(* holders or one exclusive holder.  LockFile implements it.               *)
(***************************************************************************)

CONSTANT Processes

VARIABLE hold      \* [Processes -> {"none", "shared", "exclusive"}]

Compatible(p, mode) ==
  \A q \in Processes \ {p} :
    \/ hold[q] = "none"
    \/ hold[q] = "shared" /\ mode = "shared"

Init == hold = [p \in Processes |-> "none"]

Acquire(p, mode) ==
  /\ hold[p] = "none"
  /\ Compatible(p, mode)
  /\ hold' = [hold EXCEPT ![p] = mode]

Release(p) ==
  /\ hold[p] # "none"
  /\ hold' = [hold EXCEPT ![p] = "none"]

Next ==
  \E p \in Processes :
    \/ \E mode \in {"shared", "exclusive"} : Acquire(p, mode)
    \/ Release(p)

Spec == Init /\ [][Next]_hold

=============================================================================
