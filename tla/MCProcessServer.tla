-------------------------- MODULE MCProcessServer --------------------------
(* Instances of ProcessServer *)
EXTENDS ProcessServer

CONSTANTS c1, c2

MCRole == (c1 :> "ui") @@ (c2 :> "kill")
=============================================================================
