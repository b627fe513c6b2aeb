---- MODULE MCDeepFree ----
EXTENDS DeepFree

Stmt(op, x, k, y, entries) == [op |-> op, x |-> x, k |-> k, y |-> y, entries |-> entries]

Slots == {0, 1}
EntryLists == {<<>>} \cup {<<e>> : e \in {"inline"} \cup Rows}
              \cup {<<e, f>> : e \in {"inline"} \cup Rows, f \in {"inline"} \cup Rows}

MCStmts ==
  {Stmt("ctor", x, 0, "", es) : x \in Matrices, es \in EntryLists} \cup
  {Stmt("ctor", x, 0, "", <<>>) : x \in Rows} \cup
  {Stmt("alias", x, 0, y, <<>>) : x \in Matrices, y \in Matrices} \cup
  {Stmt("put", x, k, y, <<>>) : x \in Matrices, k \in Slots, y \in Rows} \cup
  {Stmt("putnew", x, k, "", <<>>) : x \in Matrices, k \in Slots} \cup
  {Stmt("read", x, 0, "", <<>>) : x \in Matrices} \cup
  {Stmt("drop", x, 0, "", <<>>) : x \in Names} \cup
  {Stmt("exit", "", 0, "", <<>>)}

(* What the compiler gets right. *)
Sound(sofar, s) == StoredOnce(sofar, s) /\ Unmixed(Append(sofar, s))
====
