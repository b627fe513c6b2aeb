------------------------------ MODULE FillLoop -------------------------------
(***************************************************************************)
(* `while i < n do t[i] = v  t[i + d] = w  i = i + 1 end', the second store   *)
(* or not: the analyzer's verdict on the table's layout (src/shape/analyzer.rs), the reservation and the direct    *)
(* stores the lowerer and the backend replace glm_tbl_set by, and the table  *)
(* of GlmTable they run on.  A script is what the program does to one table: *)
(* stores at one key and fill loops up to a bound, a number or a cell of the  *)
(* table itself (`while i < t[k]'), whose body may also store ahead of the    *)
(* counter and make the table grow or move between two direct stores.       *)
(***************************************************************************)
EXTENDS GlmTable, Sequences, SequencesExt

CONSTANTS
  Scripts,  (* Sequences of [op |-> "store" or "fill", key, const, val], a
               fill with `ahead' too.  const: the key of a store is written as
               a number; the bound of a loop is the number `key', not the cell
               at `key'.  ahead: the body stores there as well, 0 for not.   *)
  Start,    (* Where every fill loop starts counting.                        *)
  Other     (* What the body stores ahead of its counter.                    *)

Statements ==
  [op : {"store"}, key : 0 .. MaxInt, const : BOOLEAN, val : Vals] \cup
  [op : {"fill"}, key : -(MaxInt + 1) .. MaxInt, const : BOOLEAN, val : Vals, ahead : Nat]

(* What the bound of a loop can be. *)
Bounds(s) == IF s.const THEN {s.key} ELSE Vals

(* No counter a bound allows leads the store ahead past i64::MAX; a bound that *)
(* is read from the table is read from a buffer.                             *)
Fitting(s) ==
  s.op = "fill" =>
    /\ \A b \in Bounds(s) : b \in -(MaxInt + 1) .. MaxInt /\ b + s.ahead <= MaxInt
    /\ s.const \/ ~AllocFails

ASSUME FillAssumption ==
  /\ Start \in Nat /\ Other \in Vals
  /\ Scripts \subseteq Seq(Statements)
  /\ \A p \in Scripts : \A k \in DOMAIN p : Fitting(p[k])

VARIABLES
  script,   (* The program.                                                  *)
  at,       (* The statement of it that runs.                                *)
  verdict,  (* LayoutVerdict of the table's site; "none" before the analysis. *)
  looping,  (* The loop of statement `at' was entered.                       *)
  idx,      (* Its counter.                                                  *)
  filled,   (* This turn has made its direct store and not the one ahead.    *)
  limit     (* Its bound, evaluated once before it.                          *)

fill == <<script, at, verdict, looping, idx, filled, limit>>
table == <<status, mode, span, map, out>>
fvars == <<table, fill>>

FInit ==
  /\ Init
  /\ script \in Scripts
  /\ at = 1
  /\ verdict = "none"
  /\ looping = FALSE
  /\ idx = 0
  /\ filled = FALSE
  /\ limit = 0

(* check_key_threshold sees only a key written as a number. *)
FarConst(s) == s.op = "store" /\ s.const /\ s.key > SparseThreshold

(* The recording walk, statement by statement: detect_fill_loop overwrites    *)
(* the verdict, a far constant key joins Sparse into it.                     *)
Judge(v, s) ==
  CASE s.op = "fill" -> "dense"
    [] FarConst(s) -> "sparse"
    [] OTHER -> v

Analyze ==
  /\ verdict = "none"
  /\ verdict' = FoldLeft(Judge, "growing", script)
  /\ UNCHANGED <<table, script, at, looping, idx, filled, limit>>

(* The constructor of the table; its layout bit is the verdict. *)
Construct ==
  /\ verdict # "none" /\ status = "null"
  /\ New(verdict = "sparse")
  /\ UNCHANGED fill

Running(op) == status = "live" /\ at <= Len(script) /\ script[at].op = op

SetAt(i, v) == SetSparse(i, v) \/ SetUpgrade(i, v) \/ SetDense(i, v)

Store ==
  /\ Running("store")
  /\ SetAt(script[at].key, script[at].val)
  /\ at' = at + 1
  /\ UNCHANGED <<script, verdict, looping, idx, filled, limit>>

(* What the bound of a loop evaluates to. *)
BoundOf(s) == IF s.const THEN s.key ELSE Lookup(s.key)

(* Mutated form of EnterLoop: nothing is reserved before the loop. *)
EnterLoopUnreserved ==
  /\ Running("fill") /\ ~looping
  /\ looping' = TRUE
  /\ idx' = Start
  /\ limit' = BoundOf(script[at])
  /\ UNCHANGED <<table, script, at, verdict, filled>>

(* Mutated form of EnterLoop: the reservation is one cell short. *)
EnterLoopShort ==
  /\ Running("fill") /\ ~looping
  /\ Reserve(BoundOf(script[at]) - 1)
  /\ looping' = TRUE
  /\ idx' = Start
  /\ limit' = BoundOf(script[at])
  /\ UNCHANGED <<script, at, verdict, filled>>

(* Before the loop: the bound into a register, glm_tbl_reserve(t, n). *)
EnterLoop ==
  /\ Running("fill") /\ ~looping
  /\ Reserve(BoundOf(script[at]))
  /\ looping' = TRUE
  /\ idx' = Start
  /\ limit' = BoundOf(script[at])
  /\ UNCHANGED <<script, at, verdict, filled>>

InSpan(i) == mode = "dense" /\ span.kind # "null" /\ 0 <= i /\ i < span.len

(* Mutated form of DirectStore: the counter was already incremented. *)
DirectStoreLate(i, v) ==
  IF InSpan(i)
  THEN span' = [span EXCEPT !.cell[i + 1] = v] /\ UNCHANGED <<status, mode, map, out>>
  ELSE Die

(* TableSetFast with a Dense verdict: the buffer is written without a check. *)
(* Anything but a cell of the span is a fault.                              *)
DirectStore(i, v) ==
  IF InSpan(i)
  THEN span' = [span EXCEPT !.cell[i] = v] /\ UNCHANGED <<status, mode, map, out>>
  ELSE Die

SetCell(i, v) == IF verdict = "dense" THEN DirectStore(i, v) ELSE SetAt(i, v)
InTurn == Running("fill") /\ looping /\ idx < limit

(* Mutated form of FillStore: the counter is not rebound at the latch. *)
FillStoreStuck ==
  /\ InTurn /\ ~filled
  /\ SetCell(idx, script[at].val)
  /\ filled' = (script[at].ahead > 0)
  /\ UNCHANGED <<script, at, verdict, looping, idx, limit>>

(* One turn of the body: a direct store, or glm_tbl_set on a table the       *)
(* analyzer made sparse.  The verdict of a filled table is never Growing.    *)
FillStore ==
  /\ InTurn /\ ~filled
  /\ SetCell(idx, script[at].val)
  /\ filled' = (script[at].ahead > 0)
  /\ idx' = IF filled' THEN idx ELSE idx + 1
  /\ UNCHANGED <<script, at, verdict, looping, limit>>

(* A key that is not the counter's register goes through glm_tbl_set.        *)
AheadStore ==
  /\ InTurn /\ filled
  /\ SetAt(idx + script[at].ahead, Other)
  /\ filled' = FALSE
  /\ idx' = idx + 1
  /\ UNCHANGED <<script, at, verdict, looping, limit>>

LeaveLoop ==
  /\ Running("fill") /\ looping /\ idx >= limit /\ ~filled
  /\ looping' = FALSE
  /\ at' = at + 1
  /\ UNCHANGED <<table, script, verdict, idx, filled, limit>>

FNext == Analyze \/ Construct \/ Store \/ EnterLoop \/ FillStore \/ AheadStore \/ LeaveLoop

FSpec == FInit /\ [][FNext]_fvars
FFairSpec == FSpec /\ WF_fvars(FNext)
-----------------------------------------------------------------------------
(* Properties.                                                             *)

(* A store the loop makes without a check falls on a cell of the span.       *)
FastStoreInSpan ==
  InTurn /\ verdict = "dense" => InSpan(idx)

(* Inside the loop the span covers the bound that was reserved before it, if  *)
(* the table is one the loop writes directly.                               *)
ReservedForLoop ==
  status = "live" /\ looping /\ verdict = "dense" => span.len >= limit

(* Whatever path the stores took, the cells behind the counter hold what the  *)
(* loop wrote, as reads of the table see them.                              *)
FilledBehind ==
  Running("fill") /\ looping => \A j \in Start .. idx - 1 : Lookup(j) = script[at].val

(* Every program runs to its end or aborts: each loop leaves.                *)
Finishes == <>(at > Len(script) \/ status = "dead")

(* The programs whose fill loops keep the span they reserved: no far key is   *)
(* stored before a loop, and no body stores so far ahead that its first turn  *)
(* turns the table sparse.  The verdict asks for neither.                     *)
Near(p) ==
  \A k \in DOMAIN p : p[k].op = "fill" =>
    /\ \A b \in Bounds(p[k]) :
         b > Start => Start + p[k].ahead <= SparseThreshold + Larger(b, MinSpan)
    /\ \A j \in 1 .. k - 1 : p[j].op = "store" => p[j].key <= SparseThreshold
=============================================================================
