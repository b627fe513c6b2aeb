---- MODULE ZeroTable ----
(***************************************************************************)
(* What a GLM table promises to the compiled program, whatever buffer holds *)
(* it: a total map from indices to values that starts at zero everywhere,   *)
(* a store that changes one cell and nothing else, a read that returns the  *)
(* cell, and a `#t' that never shrinks while the table lives and is always  *)
(* a border: the cell it names, if the index exists, still reads as zero.   *)
(***************************************************************************)
EXTENDS Naturals

CONSTANTS
  MaxInt,  (* The largest index, i64::MAX in the code. *)
  Vals,    (* The values a cell can hold.              *)
  Zero     (* The one among them nobody stored.        *)

Cells == 0 .. MaxInt

VARIABLES
  live,   (* A table exists and the process runs. *)
  store,  (* The value of every cell.             *)
  bound,  (* What `#t' evaluates to.              *)
  out     (* The last value a read produced.      *)

vars == <<live, store, bound, out>>

Blank == [i \in Cells |-> Zero]

Init ==
  /\ live = FALSE
  /\ store = Blank
  /\ bound = 0
  /\ out = Zero

Create ==
  /\ ~live
  /\ live' = TRUE
  /\ UNCHANGED <<store, bound, out>>

(* `#t' may jump ahead (the span doubles) but only to another border. *)
BorderAdvances ==
  /\ bound' \in bound .. MaxInt + 1
  /\ bound' \in Cells => store'[bound'] = Zero

Write(i, v) ==
  /\ live
  /\ store' = [store EXCEPT ![i] = v]
  /\ BorderAdvances
  /\ UNCHANGED <<live, out>>

(* Growing or reserving changes no cell. *)
Widen ==
  /\ live
  /\ BorderAdvances
  /\ UNCHANGED <<live, store, out>>

Read(i) ==
  /\ live
  /\ out' = store[i]
  /\ UNCHANGED <<live, store, bound>>

(* A negative index, or the length, reads as the zero of the type. *)
ReadOutside ==
  /\ live
  /\ out' = Zero
  /\ UNCHANGED <<live, store, bound>>

(* A read through a null handle leaves the caller's slot as it was. *)
ReadNothing ==
  /\ ~live
  /\ UNCHANGED <<live, store, bound>>

(* The table is freed, or the process aborts. *)
Destroy ==
  /\ live
  /\ live' = FALSE
  /\ store' = Blank
  /\ bound' = 0
  /\ UNCHANGED out

Next ==
  \/ Create
  \/ \E i \in Cells, v \in Vals : Write(i, v)
  \/ Widen
  \/ \E i \in Cells : Read(i)
  \/ ReadOutside
  \/ ReadNothing
  \/ Destroy

Spec == Init /\ [][Next]_vars
====
