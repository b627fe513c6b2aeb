---- MODULE MCFillLoop ----
EXTENDS FillLoop

MCPowers == {2^k : k \in 0 .. 5}
MCVals == 0 .. 4
MCKeys == {}

Stores == [op : {"store"}, key : {0, 3, 9}, const : BOOLEAN, val : {2}]
(* A body may store six ahead of its counter, from a wide loop nine: with any   *)
(* more the table can turn sparse with direct stores still to come.          *)
Fills == [op : {"fill"}, key : {0, 2, 5, 7}, const : {TRUE}, val : {1}, ahead : {0, 1, 6, 9}]

Programs == UNION {[1 .. n -> Stores \cup Fills] : n \in 1 .. 3}
NearBeforeFill == {s \in Programs : Near(s)}

(* A bound that is the first cell of the table the loop fills: the loop stores *)
(* over it, and still is the loop its hoisted bound says. *)
BoundInCell ==
  {<<[op |-> "store", key |-> 0, const |-> TRUE, val |-> 2],
     [op |-> "fill", key |-> 0, const |-> FALSE, val |-> v, ahead |-> 0]>> : v \in {2, 4}}

(* What a fill loop gets right. *)
Sound == NearBeforeFill \cup BoundInCell
ASSUME SoundIsNear == \A s \in Sound : Near(s)

(* A far key, then a fill loop. *)
FarBeforeFill == {<<[op |-> "store", key |-> 9, const |-> c, val |-> 2], f>> : c \in BOOLEAN, f \in Fills}
====
