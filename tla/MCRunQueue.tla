---------------------------- MODULE MCRunQueue ----------------------------
(***************************************************************************)
(* Task graphs and option values on which TLC checks RunQueue.             *)
(*                                                                         *)
(* c1 and c2 are do_compile, p1 and p2 do_populate_sysroot of two recipes, *)
(* x is the task of a tool, r the task of the image that is built.  p1 and *)
(* p2 have setscene variants.                                              *)
(***************************************************************************)
EXTENDS RunQueue, TLC

CONSTANTS c1, p1, c2, p2, x, r

ChainTasks == {c1, p1, c2, p2, r}
AllTasks == {c1, p1, c2, p2, x, r}
SceneTasks == {p1, p2}

(* Chain: the second recipe is built on the first.                         *)
ChainDepends ==
  (c1 :> {}) @@ (p1 :> {c1}) @@ (c2 :> {p1}) @@ (p2 :> {c2}) @@ (r :> {p2})

(* Net: as Chain, and both the second recipe and the image use the tool.   *)
NetDepends ==
  (c1 :> {}) @@ (x :> {}) @@ (p1 :> {c1}) @@ (c2 :> {p1, x}) @@ (p2 :> {c2}) @@ (r :> {p2, x})

(* Par: the image uses two independent recipes and the tool.               *)
ParDepends ==
  (c1 :> {}) @@ (x :> {}) @@ (p1 :> {c1}) @@ (c2 :> {}) @@ (p2 :> {c2}) @@ (r :> {p1, p2, x})

(* Tool: two independent recipes are built with the tool.                  *)
ToolDepends ==
  (x :> {}) @@ (c1 :> {x}) @@ (p1 :> {c1}) @@ (c2 :> {x}) @@ (p2 :> {c2}) @@ (r :> {p1, p2})

(* Shared: both recipes are built from the same source, and the second     *)
(* uses the first.                                                         *)
SharedDepends ==
  (c1 :> {}) @@ (c2 :> {}) @@ (p1 :> {c2}) @@ (p2 :> {c1, c2, p1}) @@ (r :> {p2})

Recipes ==
  (c1 :> "a") @@ (p1 :> "a") @@ (c2 :> "b") @@ (p2 :> "b") @@ (x :> "tool") @@ (r :> "image")

Names ==
  (c1 :> "compile") @@ (p1 :> "sysroot") @@ (c2 :> "compile") @@ (p2 :> "sysroot")
    @@ (x :> "compile") @@ (r :> "rootfs")

(* Hard dependencies of the setscene tasks: none, or p2's on p1's.         *)
NoHard == [s \in SceneTasks |-> {}]
P2NeedsP1 == (p1 :> {p2}) @@ (p2 :> {})

(* [number_threads]: none, or one do_populate_sysroot at a time.           *)
NoLimits == [n \in {"compile", "sysroot", "rootfs"} |-> 0]
OneSysroot == [NoLimits EXCEPT !["sysroot"] = 1]

(* Distinct tasks; or the second recipe a multiconfig variant of the first; *)
(* or both compiled in one shared work directory.                          *)
Distinct == [t \in AllTasks |-> t]
SharedWork == [Distinct EXCEPT ![c2] = c1]
Variants == (c1 :> 1) @@ (c2 :> 1) @@ (p1 :> 2) @@ (p2 :> 2) @@ (x :> 3) @@ (r :> 4)

OneUnihash == {0}
TwoUnihashes == {0, 1}
ZeroUnihash == [t \in Tasks |-> 0]

NoStamps == {{}}
RecipeStamps == SUBSET {c1, p1, c2, p2}
AnySceneStamps == SUBSET Setscene
FewStamps == {{}, {c1, p1}, {c2, p2}, Tasks}
FewSceneStamps == {{}, {p2}, Setscene}

=============================================================================
