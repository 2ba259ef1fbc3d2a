----------------------------- MODULE MCHashServ -----------------------------
(* Instances of HashServ *)
EXTENDS HashServ, TLC

CONSTANTS b1, b2, t1, t2

(* A build without a cache of unihashes, and one whose cache is older than *)
(* the tables of the server.                                               *)
MCCaches == {(t1 :> None) @@ (t2 :> None), (t1 :> t2) @@ (t2 :> t2)}

(* No upstream server, and one that has t2, or will have it. *)
MCUpstreams ==
  {[there |-> FALSE, uni |-> (t1 :> None) @@ (t2 :> None), out |-> (1 :> None)],
   [there |-> TRUE, uni |-> (t1 :> None) @@ (t2 :> t1), out |-> (1 :> t1)]}
=============================================================================
