----------------------------- MODULE MatrixFill ------------------------------
(***************************************************************************)
(* A matrix filled by two loops,                                           *)
(*     while i < n do  <make row i>  j = 0                                  *)
(*       while j < k do  m[i][j] = v  j = j + 1  end  i = i + 1  end        *)
(* as the lowerer (src/lowerer.rs) compiles it: which calls reserve the     *)
(* spine and the rows, and which stores become direct ones.  The spine is    *)
(* the table of GlmTable, its cells hold handles of rows (Zero is null);     *)
(* every row is a buffer of its own, grown by the same span_grow.           *)
(***************************************************************************)
EXTENDS GlmTable, Sequences

CONSTANTS
  Shapes  (* What the program is: [make, rows, cols].  A row is made "inline"
             (m[i] = {} in the outer loop), "named" (local r = {} m[i] = r),
             "before" (the constructor of m holds non-empty rows) or "none". *)

(* A handle is a value a cell of the spine can hold, null its zero. *)
ASSUME MatrixAssumption ==
  /\ Zero = 0
  /\ \A s \in Shapes :
       /\ s \in [make : {"inline", "named", "before", "none"}, rows : 0 .. MaxInt, cols : 0 .. MaxInt]
       /\ 0 .. s.rows \subseteq Vals

VARIABLES
  shape,  (* The program.                                                   *)
  step,   (* Where it stands.                                               *)
  i, j,   (* The counters of the loops.                                     *)
  rows    (* The buffers of the rows; a handle is a position.               *)

spine == <<status, mode, span, map, out>>
mvars == <<spine, shape, step, i, j, rows>>

MInit ==
  /\ Init
  /\ shape \in Shapes
  /\ step = "ctor"
  /\ i = 0
  /\ j = 0
  /\ rows = <<>>

At(s) == step = s /\ status # "dead"
Goto(s) == step' = s /\ UNCHANGED <<shape, i, j>>

InSpan(s, key) == s.kind # "null" /\ 0 <= key /\ key < s.len

(* `local m = {}', or a constructor of `rows' rows of one cell each. *)
Ctor ==
  /\ At("ctor") /\ status = "null"
  /\ New(FALSE)
  /\ Goto(IF shape.make = "before" THEN "entries" ELSE "reserve")
  /\ UNCHANGED rows

(* One TableSet per entry: the row's own constructor stored one cell. *)
CtorEntry ==
  /\ At("entries")
  /\ \E r \in SpanGrow(NoSpan, 1) :
       IF Len(rows) < shape.rows
       THEN rows' = Append(rows, r) /\ SetDense(Len(rows), Len(rows) + 1) /\ Goto("entries")
       ELSE UNCHANGED <<rows, spine>> /\ Goto("outer")

(* The outer loop fills m itself when its body stores m[i]. *)
FillsSpine == shape.make \in {"inline", "named"}

(* Mutated form of ReserveSpine: the outer loop reserves nothing. *)
ReserveSpineNot ==
  /\ At("reserve")
  /\ UNCHANGED spine
  /\ Goto("outer")
  /\ UNCHANGED rows

(* Before the outer loop, glm_tbl_reserve(m, n): by the list of names, and   *)
(* once more in the header because the rows are tables.                     *)
ReserveSpine ==
  /\ At("reserve")
  /\ IF FillsSpine THEN Reserve(shape.rows) ELSE UNCHANGED spine
  /\ Goto("outer")
  /\ UNCHANGED rows

OuterTest ==
  /\ At("outer")
  /\ j' = 0
  /\ step' = IF i < shape.rows THEN (IF FillsSpine THEN "make" ELSE "inner") ELSE "done"
  /\ UNCHANGED <<spine, shape, i, rows>>

(* Mutated form of RowReserved: the fresh row keeps its null buffer. *)
RowReservedNot(n) == {NoSpan}

(* The row of `m[i] = {}' is reserved with the bound of the loop whose        *)
(* context names m: the only one pushed at this point is the outer loop's.   *)
RowReserved(n) == SpanGrow(NoSpan, n)

(* glm_tbl_new for the row, then the direct store of its handle in the spine. *)
MakeRow ==
  /\ At("make")
  /\ \E r \in IF shape.make = "inline" THEN RowReserved(shape.rows) ELSE {NoSpan} :
       rows' = Append(rows, r)
  /\ IF InSpan(span, i)
     THEN span' = [span EXCEPT !.cell[i] = Len(rows) + 1] /\ UNCHANGED <<status, mode, map, out>>
     ELSE Die
  /\ Goto("inner")

(* The header of the inner loop calls glm_tbl_reserve(m, k) on the spine,     *)
(* every time the test is made, since m is the base of the nested store.      *)
InnerTest ==
  /\ At("inner")
  /\ Reserve(shape.cols)
  /\ step' = IF j < shape.cols THEN "store" ELSE "outer"
  /\ i' = IF j < shape.cols THEN i ELSE i + 1
  /\ UNCHANGED <<shape, j, rows>>

RowAt(k) == Lookup(k)

(* Mutated form of RowStore: the counter was already incremented. *)
RowStoreLate ==
  /\ At("store")
  /\ \/ /\ RowAt(i) # Zero /\ InSpan(rows[RowAt(i)], j)
        /\ rows' = [rows EXCEPT ![RowAt(i)].cell[j + 1] = 1]
        /\ UNCHANGED spine
     \/ /\ RowAt(i) = Zero \/ ~InSpan(rows[RowAt(i)], j)
        /\ Die /\ UNCHANGED rows
  /\ step' = "inner" /\ j' = j + 1
  /\ UNCHANGED <<shape, i>>

(* m[i] is read by glm_tbl_get, then the cell is written without a check: the *)
(* register of the row is authorised because m is the base of the store.     *)
RowStore ==
  /\ At("store")
  /\ \/ /\ RowAt(i) # Zero /\ InSpan(rows[RowAt(i)], j)
        /\ rows' = [rows EXCEPT ![RowAt(i)].cell[j] = 1]
        /\ UNCHANGED spine
     \/ /\ RowAt(i) = Zero \/ ~InSpan(rows[RowAt(i)], j)
        /\ Die /\ UNCHANGED rows
  /\ step' = "inner" /\ j' = j + 1
  /\ UNCHANGED <<shape, i>>

MNext ==
  Ctor \/ CtorEntry \/ ReserveSpine \/ OuterTest \/ MakeRow \/ InnerTest \/ RowStore

MSpec == MInit /\ [][MNext]_mvars
MFairSpec == MSpec /\ WF_mvars(MNext)
-----------------------------------------------------------------------------
(* Properties.                                                             *)

(* A direct store falls on a cell of the buffer it writes: the handle of a   *)
(* new row on the spine, a value on a row that exists.                       *)
DirectStoresInSpan ==
  /\ At("make") => InSpan(span, i)
  /\ At("store") => RowAt(i) # Zero /\ InSpan(rows[RowAt(i)], j)

(* Rows are not mixed up: no two cells of the spine hold one handle, and what *)
(* the loops stored so far is what the cells hold.                          *)
RowsFilled ==
  status = "live" =>
    /\ \A a, b \in DOMAIN span.cell : span.cell[a] = span.cell[b] /\ a # b => span.cell[a] = Zero
    /\ \A a \in 0 .. i - 1 : \A b \in 0 .. shape.cols - 1 : rows[RowAt(a)].cell[b] = 1

(* The programs whose rows are sure to hold what the inner loop writes: one    *)
(* made in the outer loop has the cells of that loop's bound, one made by the  *)
(* constructor those of the smallest buffer; a row without a buffer is never   *)
(* written. Nothing in the compiler asks for it.                             *)
Roomy(s) ==
  \/ s.rows = 0 \/ s.cols = 0
  \/ s.make = "inline" /\ s.cols <= Larger(s.rows, MinSpan)
  \/ s.make = "before" /\ s.cols <= MinSpan

(* The loops end, with the matrix filled.                                   *)
MatrixDone == <>(step = "done")
=============================================================================
