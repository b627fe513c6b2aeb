---- MODULE MCTypedRun ----
(* TypedRun on programs over up to three names, by family.                    *)
EXTENDS TypedRun

MCNames == 1 .. 3

(* Rows by name: stored, picked again, stored to through the row, the matrix, *)
(* and what was picked.                                                      *)
Rows == [budget |-> [new |-> 2, put_name |-> 1, put |-> 1, deep |-> 1, pick |-> 1], longest |-> 5]
(* Rows by constructor, in constructors and stored.                          *)
Inline == [budget |-> [new |-> 1, nest |-> 1, put_row |-> 1, deep |-> 1, pick |-> 1], longest |-> 4]
(* Names bound to one another's tables, which hold scalars.                   *)
Copies == [budget |-> [new |-> 2, alias |-> 1, copy |-> 1, put |-> 2], longest |-> 5]
Bares == [budget |-> [new |-> 1, bare |-> 1, copy |-> 1, set |-> 1, put |-> 1], longest |-> 5]
Cells == [budget |-> [new |-> 2, put |-> 2, put_cell |-> 1, pick |-> 1], longest |-> 5]
(* Names that hold one table or another after an if, or nil.                  *)
Arms == [budget |-> [empty |-> 2, bare |-> 1, alias |-> 1, maybe |-> 1, put |-> 1], longest |-> 6]
ArmSets == [budget |-> [new |-> 1, maybe_set |-> 1, put |-> 1, alias |-> 1, pick |-> 1], longest |-> 5]
ArmRows == [budget |-> [empty |-> 2, bare |-> 1, maybe |-> 1, put_row |-> 1, put_name |-> 1], longest |-> 5]
ArmCells == [budget |-> [empty |-> 1, bare |-> 1, maybe |-> 1, put |-> 1, put_cell |-> 1], longest |-> 5]

MCFamilies == {Rows, Inline, Copies, Bares, Cells, Arms, ArmSets, ArmRows, ArmCells}

(* Tables of different elements, one of which may be bound to the other.      *)
MCJoins == {[budget |-> [new |-> 2, maybe |-> 1, put |-> 1], longest |-> 4]}

(* A bare name stored into a table and then bound to it.                      *)
MCOccurs == {[budget |-> [new |-> 1, bare |-> 1, put_bare |-> 1, copy |-> 1], longest |-> 4]}
====
