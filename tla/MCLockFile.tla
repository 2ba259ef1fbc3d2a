----------------------------- MODULE MCLockFile -----------------------------
(* Instances of LockFile *)
EXTENDS LockFile

Exclusive == [shared |-> FALSE, retry |-> TRUE, block |-> FALSE]
Shared == [shared |-> TRUE, retry |-> TRUE, block |-> FALSE]
Try == [shared |-> FALSE, retry |-> FALSE, block |-> FALSE]

MCRequests == {Exclusive, Shared, Try}
=============================================================================
