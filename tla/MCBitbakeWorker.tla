-------------------------- MODULE MCBitbakeWorker --------------------------
(* Instances of BitbakeWorker *)
EXTENDS BitbakeWorker, TLC

CONSTANTS t1, t2

(* One task with an event, one without. *)
MCMaxEvents == (t1 :> 1) @@ (t2 :> 0)
=============================================================================
