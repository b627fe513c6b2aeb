---- MODULE MCOwnership ----
(* The families of programs the ownership runs compile. *)
EXTENDS OwnershipRun

Family(budget, longest) == [budget |-> budget, longest |-> longest]
AnyOf(forms, longest) == Family([f \in forms |-> longest], longest)

(* Straight-line code in blocks: nothing is overwritten. *)
Blocks == AnyOf({"new", "bare", "alias", "drop", "use", "do"}, 6)

(* Two arms, blocks, and the ways to bind or drop a name. *)
Arms == AnyOf({"new", "set", "alias", "copy", "drop", "use", "do", "if"}, 6)

(* Names that die holding what either arm bound to them. *)
Joins == Family([new |-> 1, bare |-> 1, set |-> 2, copy |-> 1, do |-> 1, if |-> 1], 9)

(* Loops that rebind names, with blocks inside or around them. *)
Rebinding == AnyOf({"new", "set", "alias", "copy", "use", "while", "do"}, 6)

(* A branch before, after, inside or around a loop, one name nil at first. *)
Branching == Family([new |-> 1, bare |-> 1, set |-> 1, copy |-> 1, while |-> 1, if |-> 1], 8)

Programs == {Blocks, Arms, Joins, Rebinding, Branching}

(* A name dropped and bound again in a loop. *)
LoopDrop == {Family([new |-> 2, drop |-> 1, copy |-> 1, while |-> 1], 6)}
====
