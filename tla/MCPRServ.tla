------------------------------ MODULE MCPRServ ------------------------------
(***************************************************************************)
(* Two servers of one database, for TLC.                                   *)
(***************************************************************************)
EXTENDS PRServ, TLC

CONSTANTS s1, s2, a, b, c

(* Servers and checksums are interchangeable. *)
Interchangeable == Permutations({s1, s2}) \cup Permutations({a, b, c})

=============================================================================
