--------------------------- MODULE MatrixFillProofs ---------------------------
(***************************************************************************)
(* Theorems about a matrix filled by two loops: in the programs whose rows   *)
(* are sure to hold what the inner loop writes, no direct store leaves its   *)
(* buffer and every cell passed holds what was stored, for every number of   *)
(* rows and columns and every buffer size.                                 *)
(***************************************************************************)
EXTENDS MatrixFill, GlmTableProofs

InLoops == step \in {"outer", "make", "inner", "store", "done"}
InRow == step \in {"inner", "store"}

Spans ==
  {s \in [len : Nat, reserve : Nat, kind : {"null", "heap", "vm"}, bytes : Nat, commit : Nat,
          cell : UNION {[0 .. n - 1 -> AnyVal] : n \in 0 .. MaxInt}] : SpanOK(s)}

(* The handle of a row is its position, in the order the rows were made. *)
SpineInv ==
  /\ mode = "dense" /\ Buffered(span)
  /\ \A a \in 0 .. MaxInt : Lookup(a) = IF a < Len(rows) THEN a + 1 ELSE Zero
  /\ Len(rows) <= span.len
  /\ InLoops /\ FillsSpine => shape.rows <= span.len

(* How many rows there are, and what a row that will be written is sure of. *)
RowsInv ==
  /\ rows \in Seq(Spans)
  /\ \A k \in 1 .. Len(rows) :
       shape.cols > 0 => rows[k].kind # "null" /\ rows[k].len >= shape.cols
  /\ Len(rows) <= shape.rows
  /\ step = "reserve" \/ shape.make = "none" => Len(rows) = 0
  /\ InLoops /\ shape.make = "before" => Len(rows) = shape.rows
  /\ InLoops /\ FillsSpine => Len(rows) = IF InRow THEN i + 1 ELSE i

(* Where the loops are, and the cells they have passed. *)
CountersInv ==
  /\ step \in {"entries", "reserve", "outer", "make", "inner", "store", "done"}
  /\ step = "entries" => shape.make = "before"
  /\ step = "reserve" => shape.make # "before"
  /\ step = "make" => FillsSpine
  /\ i \in 0 .. shape.rows /\ j \in 0 .. shape.cols
  /\ ~InLoops => i = 0 /\ j = 0
  /\ step \in {"make", "inner", "store"} => i < shape.rows
  /\ step = "make" => j = 0
  /\ step = "store" => j < shape.cols

Written(last, cols) == \A b \in 0 .. cols - 1 : rows[last + 1].cell[b] = 1

CellsInv ==
  /\ \A a \in 0 .. i - 1 : Written(a, shape.cols)
  /\ InRow => Written(i, j)

MInv ==
  /\ shape \in Shapes
  /\ status \in {"null", "live", "dead"}
  /\ status = "null" => IInv /\ step = "ctor" /\ rows = <<>> /\ i = 0 /\ j = 0
  /\ status = "live" => IInv /\ SpineInv /\ RowsInv /\ CountersInv /\ CellsInv

-----------------------------------------------------------------------------
(* Rows. *)

(* A well formed buffer is one of the set. *)
LEMMA SpansOfOK == \A s : SpanOK(s) => s \in Spans
<1> SUFFICES ASSUME NEW s, SpanOK(s) PROVE s \in Spans
  OBVIOUS
<1>1. s.cell \in UNION {[0 .. n - 1 -> AnyVal] : n \in 0 .. MaxInt}
  BY DEF SpanOK
<1>2. s.len \in Nat /\ s.reserve \in Nat /\ s.bytes \in Nat /\ s.commit \in Nat
  BY SizeAssumption DEF SpanOK, UMax
<1> QED BY <1>1, <1>2 DEF SpanOK, Spans

(* A fresh row covers what was asked and is no smaller than any buffer. *)
LEMMA FreshRow ==
  ASSUME ~AllocFails, NEW want \in 1 .. MaxInt, NEW r \in SpanGrow(NoSpan, want)
  PROVE  SpanOK(r) /\ r.kind # "null" /\ r.len >= want /\ r.len >= MinSpan
<1>1. want \in Word /\ NoSpan.len = 0 /\ Buffered(NoSpan)
  BY SizeAssumption DEF Word, NoSpan, Buffered
<1>2. SpanOK(r) /\ r.len >= want /\ Buffered(r)
  BY <1>1, NoSpanOK, GrowResult
<1>3. r.len = 0 \/ r.len >= MinSpan
  BY <1>1, NoSpanOK, GrowWide
<1> QED BY <1>2, <1>3 DEF Buffered

(* The numbers the shape of a program gives. *)
LEMMA ShapeTypes ==
  ASSUME shape \in Shapes
  PROVE  /\ shape.rows \in 0 .. MaxInt /\ shape.cols \in 0 .. MaxInt
         /\ shape.make \in {"inline", "named", "before", "none"}
         /\ MaxInt \in Nat /\ shape.rows \in Word /\ shape.cols \in Word
         /\ 0 .. shape.rows \subseteq Vals
         /\ Zero = 0
BY MatrixAssumption, SizeAssumption DEF Word

(* A row more. *)
LEMMA RowAdded ==
  ASSUME shape \in Shapes, rows \in Seq(Spans), NEW r, SpanOK(r), rows' = Append(rows, r)
  PROVE  /\ rows' \in Seq(Spans) /\ Len(rows) \in Nat
         /\ Len(rows') = Len(rows) + 1
         /\ rows'[Len(rows) + 1] = r
         /\ \A k \in 1 .. Len(rows) : rows'[k] = rows[k]
BY SpansOfOK

(* The rows written in a state are rows. *)
LEMMA WrittenRows ==
  ASSUME MInv, status = "live", Roomy(shape), shape.cols > 0
  PROVE  /\ i <= Len(rows)
         /\ InRow => i + 1 <= Len(rows)
<1>1. /\ RowsInv /\ CountersInv /\ Len(rows) \in Nat /\ i \in 0 .. shape.rows
      /\ shape.make \in {"inline", "named", "before", "none"}
      /\ shape.rows \in Nat
  BY ShapeTypes DEF MInv, RowsInv, CountersInv
<1>2. CASE ~InLoops
  BY <1>1, <1>2 DEF CountersInv, InLoops, InRow
<1>3. CASE InLoops /\ shape.make = "before"
  BY <1>1, <1>3 DEF CountersInv, RowsInv, InLoops, InRow
<1>4. CASE InLoops /\ FillsSpine
  BY <1>1, <1>4 DEF RowsInv
<1>5. CASE shape.make = "none"
  BY <1>1, <1>5, ShapeTypes DEF Roomy, CountersInv, InRow, MInv
<1> QED BY <1>1, <1>2, <1>3, <1>4, <1>5 DEF FillsSpine

-----------------------------------------------------------------------------
(* The invariant, one lemma for each action. *)

(* Every program starts before its table. *)
LEMMA MatrixInit == MInit => MInv
BY InitInv DEF MInit, Init, MInv

(* The constructor makes the spine empty. *)
LEMMA CtorStep ==
  ASSUME MInv, Ctor
  PROVE  MInv'
<1>1. /\ status = "null" /\ New(FALSE) /\ rows' = rows /\ shape' = shape /\ i' = i /\ j' = j
      /\ step' = IF shape.make = "before" THEN "entries" ELSE "reserve"
  BY DEF Ctor, Goto
<1>2. IInv /\ rows = <<>> /\ i = 0 /\ j = 0 /\ shape \in Shapes
  BY <1>1 DEF MInv
<1>3. IInv' /\ status' = "live" /\ mode' = "dense" /\ span' = NoSpan
  BY <1>1, <1>2, NewKeeps DEF New
<1>4. Len(rows') = 0 /\ rows' \in Seq(Spans)
  BY <1>1, <1>2
<1>5. SpineInv'
  <2>1. span'.len = 0 /\ Buffered(span)'
    BY <1>3 DEF NoSpan, Buffered
  <2>2. \A a \in 0 .. MaxInt : Lookup(a)' = Zero
    BY <1>3, <2>1 DEF Lookup
  <2> QED BY <1>1, <1>3, <1>4, <2>1, <2>2 DEF SpineInv, InLoops
<1>6. RowsInv' /\ CountersInv' /\ CellsInv'
  BY <1>1, <1>2, <1>4, ShapeTypes DEF RowsInv, CountersInv, CellsInv, Written, InLoops, InRow
<1> QED BY <1>1, <1>2, <1>3, <1>5, <1>6 DEF MInv

(* An entry of the constructor is a row of the smallest buffer, and its handle *)
(* the next cell of the spine.                                              *)
LEMMA CtorEntryStep ==
  ASSUME MInv, Roomy(shape), ~AllocFails, CtorEntry
  PROVE  MInv'
<1>1. step = "entries" /\ status = "live"
  BY DEF CtorEntry, At, MInv
<1>2. /\ IInv /\ SpineInv /\ RowsInv /\ CountersInv /\ CellsInv /\ shape \in Shapes
      /\ shape.make = "before" /\ i = 0 /\ j = 0
  BY <1>1 DEF MInv, CountersInv, InLoops
<1>3. UNCHANGED <<shape, i, j>>
  BY DEF CtorEntry, Goto
<1>4. rows \in Seq(Spans) /\ Len(rows) \in Nat
  BY <1>2 DEF RowsInv
<1>5. CASE Len(rows) < shape.rows
  <2>1. PICK r \in SpanGrow(NoSpan, 1) :
           rows' = Append(rows, r) /\ SetDense(Len(rows), Len(rows) + 1) /\ step' = "entries"
    BY <1>5 DEF CtorEntry, Goto
  <2>2. SpanOK(r) /\ r.kind # "null" /\ r.len >= MinSpan
    BY <2>1, <1>4, <1>5, FreshRow, ShapeTypes, <1>2
  <2>3. /\ rows' \in Seq(Spans) /\ Len(rows') = Len(rows) + 1 /\ rows'[Len(rows) + 1] = r
        /\ \A k \in 1 .. Len(rows) : rows'[k] = rows[k]
    BY <1>2, <1>4, <2>1, <2>2, RowAdded
  <2> PICK n \in 0 .. MaxInt, v \in Vals : n = Len(rows) /\ v = n + 1
    BY <1>2, <1>4, <1>5, ShapeTypes
  <2>4. n \in Word /\ SetDense(n, v)
    BY <2>1, ShapeTypes, <1>2 DEF Word
  <2>5. IInv' /\ status' \in {"live", "dead"}
    BY <1>2, <1>1, <2>4, SetDenseKeeps DEF SetDense, Die
  <2>6. ASSUME status' = "live" PROVE SpineInv'
    <3>1. Wrote(n, v) /\ Solid' /\ mode' = "dense"
      BY <1>2, <2>4, <2>6, DenseReads DEF SpineInv, SetDense, Die
    <3>2. \A a \in 0 .. MaxInt : Lookup(a)' = IF a < n + 1 THEN a + 1 ELSE Zero
      BY <1>2, <3>1 DEF SpineInv, Wrote
    <3>3. span'.len > n
      <4>1. Lookup(n)' = v /\ v # 0
        BY <3>1 DEF Wrote
      <4> QED BY <1>2, <2>5, <3>1, <4>1, ShapeTypes DEF Lookup, IInv, SpanOK
    <3>4. Buffered(span)'
      BY <3>1 DEF Solid, Buffered
    <3>5. span'.len \in Nat
      BY <2>5 DEF IInv, SpanOK
    <3> QED BY <2>1, <2>3, <3>1, <3>2, <3>3, <3>4, <3>5 DEF SpineInv, InLoops
  <2>7. RowsInv'
    <3>1. ASSUME NEW k \in 1 .. Len(rows'), shape.cols > 0
          PROVE  rows'[k].kind # "null" /\ rows'[k].len >= shape.cols
      <4>1. CASE k = Len(rows) + 1
        <5>1. shape.cols <= MinSpan
          BY <1>2, <1>4, <1>5, <3>1, ShapeTypes DEF Roomy
        <5> QED BY <1>2, <2>2, <2>3, <4>1, <5>1, ShapeTypes, SizeAssumption DEF SpanOK
      <4>2. CASE k \in 1 .. Len(rows)
        BY <1>2, <2>3, <3>1, <4>2 DEF RowsInv
      <4> QED BY <1>4, <2>3, <4>1, <4>2
    <3> QED BY <1>2, <1>3, <1>4, <1>5, <2>1, <2>3, <3>1, ShapeTypes DEF RowsInv, InLoops
  <2>8. CountersInv' /\ CellsInv'
    BY <1>2, <1>3, <2>1, ShapeTypes DEF CountersInv, CellsInv, Written, InLoops, InRow, FillsSpine
  <2> QED BY <1>2, <1>3, <2>5, <2>6, <2>7, <2>8 DEF MInv
<1>6. CASE ~(Len(rows) < shape.rows)
  <2>1. UNCHANGED <<rows, spine>> /\ step' = "outer"
    BY <1>6 DEF CtorEntry, Goto
  <2>2. UNCHANGED <<status, mode, span, map, out, rows>>
    BY <2>1 DEF spine
  <2>3. IInv' /\ SpineInv'
    BY <1>2, <1>3, <2>1, <2>2 DEF IInv, SpineInv, Lookup, InLoops, FillsSpine
  <2>4. RowsInv'
    BY <1>2, <1>3, <1>4, <1>6, <2>1, ShapeTypes DEF RowsInv, InLoops, FillsSpine
  <2>5. CountersInv' /\ CellsInv'
    BY <1>2, <1>3, <2>1, ShapeTypes DEF CountersInv, CellsInv, Written, InLoops, InRow, FillsSpine
  <2> QED BY <1>1, <1>2, <1>3, <2>2, <2>3, <2>4, <2>5 DEF MInv
<1> QED BY <1>5, <1>6

(* A reservation of the spine shows the same handles. *)
LEMMA SpineReserved ==
  ASSUME IInv, SpineInv, status = "live", ~AllocFails, NEW n \in Word, Reserve(n)
  PROVE  /\ IInv' /\ Buffered(span)' /\ mode' = "dense"
         /\ status' \in {"live", "dead"}
         /\ \A a \in 0 .. MaxInt : Lookup(a)' = Lookup(a)
         /\ span'.len >= span.len /\ span'.len \in Nat /\ span.len \in Nat
         /\ status' = "live" => span'.len >= n
<1>1. mode = "dense" /\ Buffered(span) /\ Widen(n)
  BY DEF SpineInv, Reserve
<1>2. IInv'
  BY <1>1, WidenReads
<1> QED BY <1>1, <1>2, WidenReads DEF IInv, SpanOK

(* The spine is reserved for the outer loop before it. *)
LEMMA ReserveSpineStep ==
  ASSUME MInv, ~AllocFails, ReserveSpine
  PROVE  MInv'
<1>1. /\ step = "reserve" /\ status = "live" /\ step' = "outer"
      /\ UNCHANGED <<shape, i, j, rows>>
  BY DEF ReserveSpine, At, MInv, Goto
<1>2. /\ IInv /\ SpineInv /\ RowsInv /\ CountersInv /\ CellsInv /\ shape \in Shapes
      /\ rows \in Seq(Spans) /\ Len(rows) = 0 /\ i = 0 /\ j = 0
  BY <1>1 DEF MInv, RowsInv, CountersInv, InLoops
<1>3. /\ IInv' /\ Buffered(span)' /\ mode' = "dense"
      /\ status' \in {"live", "dead"}
      /\ \A a \in 0 .. MaxInt : Lookup(a)' = Lookup(a)
      /\ span'.len \in Nat
      /\ status' = "live" /\ FillsSpine => span'.len >= shape.rows
  <2>1. CASE FillsSpine
    <3>1. Reserve(shape.rows) /\ shape.rows \in Word
      BY <1>2, <2>1, ShapeTypes DEF ReserveSpine
    <3> QED BY <1>1, <1>2, <3>1, SpineReserved
  <2>2. CASE ~FillsSpine
    <3>1. UNCHANGED <<status, mode, span, map, out>>
      BY <2>2 DEF ReserveSpine, spine
    <3> QED BY <1>1, <1>2, <2>2, <3>1 DEF IInv, SpineInv, Lookup, SpanOK
  <2> QED BY <2>1, <2>2
<1>4. ASSUME status' = "live" PROVE SpineInv'
  BY <1>1, <1>2, <1>3, <1>4, ShapeTypes DEF SpineInv, InLoops, FillsSpine
<1>5. RowsInv'
  <2>1. shape.make # "before"
    BY <1>1, <1>2 DEF CountersInv
  <2> QED BY <1>1, <1>2, <2>1, ShapeTypes DEF RowsInv, InLoops, FillsSpine, InRow
<1>6. CountersInv' /\ CellsInv'
  BY <1>1, <1>2, ShapeTypes DEF CountersInv, CellsInv, Written, InLoops, InRow, FillsSpine
<1> QED BY <1>1, <1>2, <1>3, <1>4, <1>5, <1>6 DEF MInv

(* The test of the outer loop starts a row. *)
LEMMA OuterTestStep ==
  ASSUME MInv, OuterTest
  PROVE  MInv'
<1>1. /\ step = "outer" /\ status = "live" /\ j' = 0
      /\ step' = IF i < shape.rows THEN (IF FillsSpine THEN "make" ELSE "inner") ELSE "done"
      /\ UNCHANGED <<status, mode, span, map, out, shape, i, rows>>
  BY DEF OuterTest, At, MInv, spine
<1>2. /\ IInv /\ SpineInv /\ RowsInv /\ CountersInv /\ CellsInv /\ shape \in Shapes
  BY <1>1 DEF MInv
<1>3. IInv' /\ SpineInv'
  BY <1>1, <1>2 DEF IInv, SpineInv, Lookup, InLoops, FillsSpine
<1>4. RowsInv'
  BY <1>1, <1>2 DEF RowsInv, InLoops, InRow, FillsSpine
<1>5. CountersInv' /\ CellsInv'
  BY <1>1, <1>2, ShapeTypes DEF CountersInv, CellsInv, Written, InLoops, InRow, FillsSpine
<1> QED BY <1>1, <1>2, <1>3, <1>4, <1>5 DEF MInv

(* The row made is the next handle, and its cell of the spine is reserved. *)
LEMMA MakeRowStep ==
  ASSUME MInv, Roomy(shape), ~AllocFails, MakeRow
  PROVE  MInv'
<1>1. /\ step = "make" /\ status = "live" /\ step' = "inner"
      /\ UNCHANGED <<shape, i, j>>
  BY DEF MakeRow, At, MInv, Goto
<1>2. /\ IInv /\ SpineInv /\ RowsInv /\ CountersInv /\ CellsInv /\ shape \in Shapes
      /\ rows \in Seq(Spans) /\ Len(rows) = i /\ i < shape.rows /\ j = 0 /\ FillsSpine
      /\ i \in Nat /\ i \in 0 .. MaxInt
  BY <1>1, ShapeTypes DEF MInv, RowsInv, CountersInv, InLoops, InRow
<1>3. PICK r : /\ rows' = Append(rows, r)
               /\ r \in IF shape.make = "inline" THEN RowReserved(shape.rows) ELSE {NoSpan}
  BY DEF MakeRow
<1>4. SpanOK(r) /\ (shape.cols > 0 => r.kind # "null" /\ r.len >= shape.cols)
  <2>1. CASE shape.make = "inline"
    <3>1. r \in SpanGrow(NoSpan, shape.rows) /\ shape.rows \in 1 .. MaxInt
      BY <1>2, <1>3, <2>1, ShapeTypes DEF RowReserved
    <3>2. SpanOK(r) /\ r.kind # "null" /\ r.len >= shape.rows /\ r.len >= MinSpan
      BY <3>1, FreshRow
    <3>3. shape.cols > 0 => shape.cols <= Larger(shape.rows, MinSpan)
      BY <1>2, <2>1, ShapeTypes DEF Roomy
    <3>4. Larger(shape.rows, MinSpan) \in {shape.rows, MinSpan}
      BY DEF Larger
    <3>5. /\ shape.cols \in Int /\ shape.rows \in Int /\ MinSpan \in Int /\ r.len \in Int
      BY <1>2, <3>2, ShapeTypes, SizeAssumption DEF SpanOK
    <3>6. shape.cols > 0 => shape.cols <= r.len
      BY ONLY <3>2, <3>3, <3>4, <3>5
    <3> QED BY <3>2, <3>5, <3>6
  <2>2. CASE shape.make # "inline"
    <3>1. shape.cols = 0
      BY <1>2, <2>2, ShapeTypes DEF FillsSpine, Roomy
    <3> QED BY <1>3, <2>2, <3>1, NoSpanOK
  <2> QED BY <2>1, <2>2
<1>5. /\ rows' \in Seq(Spans) /\ Len(rows') = i + 1 /\ rows'[i + 1] = r
      /\ \A k \in 1 .. i : rows'[k] = rows[k]
  BY <1>2, <1>3, <1>4, RowAdded
<1> PICK n \in 0 .. MaxInt, v \in Vals : n = i /\ v = n + 1
  BY <1>2, ShapeTypes
<1>6. InSpan(span, i) /\ n \in 0 .. span.len - 1 /\ span.kind # "null"
  BY <1>1, <1>2, ShapeTypes DEF SpineInv, InLoops, InSpan, Buffered, IInv, SpanOK
<1>7. span' = [span EXCEPT !.cell[n] = v] /\ UNCHANGED <<status, mode, map, out>>
  BY <1>2, <1>6 DEF MakeRow
<1>8. mode = "dense"
  BY <1>2 DEF SpineInv
<1>9. IInv' /\ Wrote(n, v) /\ Solid' /\ span'.len = span.len
  BY <1>2, <1>6, <1>7, <1>8, CellStored
<1>10. SpineInv'
  <2>1. \A a \in 0 .. MaxInt : Lookup(a)' = IF a < n + 1 THEN a + 1 ELSE Zero
    BY <1>2, <1>9 DEF SpineInv, Wrote
  <2>2. Buffered(span)' /\ mode' = "dense"
    BY <1>7, <1>8, <1>9 DEF Solid, Buffered
  <2>3. i + 1 <= span.len /\ shape.rows <= span.len
    BY <1>1, <1>2, <1>6 DEF SpineInv, InLoops, IInv, SpanOK
  <2> QED BY <1>1, <1>5, <1>9, <2>1, <2>2, <2>3 DEF SpineInv, InLoops, FillsSpine
<1>11. RowsInv'
  <2>1. ASSUME NEW k \in 1 .. Len(rows'), shape.cols > 0
        PROVE  rows'[k].kind # "null" /\ rows'[k].len >= shape.cols
    <3>1. CASE k = i + 1
      BY <1>4, <1>5, <2>1, <3>1
    <3>2. CASE k \in 1 .. i
      BY <1>2, <1>5, <2>1, <3>2 DEF RowsInv
    <3> QED BY <1>2, <1>5, <3>1, <3>2
  <2> QED BY <1>1, <1>2, <1>5, <2>1, ShapeTypes DEF RowsInv, InLoops, InRow, FillsSpine
<1>12. CellsInv'
  <2>1. ASSUME NEW a \in 0 .. i - 1, NEW b \in 0 .. shape.cols - 1
        PROVE  rows'[a + 1].cell[b] = 1
    BY <1>2, <1>5 DEF CellsInv, Written
  <2> QED BY <1>1, <1>2, <2>1 DEF CellsInv, Written
<1>13. CountersInv'
  BY <1>1, <1>2, ShapeTypes DEF CountersInv, InLoops, FillsSpine
<1> QED BY <1>1, <1>2, <1>7, <1>9, <1>10, <1>11, <1>12, <1>13 DEF MInv

(* The reservation in the header of the inner loop may grow the spine; the    *)
(* test ends the row when all its cells are written.                        *)
LEMMA InnerTestStep ==
  ASSUME MInv, ~AllocFails, InnerTest
  PROVE  MInv'
<1>1. /\ step = "inner" /\ status = "live" /\ Reserve(shape.cols)
      /\ step' = IF j < shape.cols THEN "store" ELSE "outer"
      /\ i' = IF j < shape.cols THEN i ELSE i + 1
      /\ UNCHANGED <<shape, j, rows>>
  BY DEF InnerTest, At, MInv
<1>2. /\ IInv /\ SpineInv /\ RowsInv /\ CountersInv /\ CellsInv /\ shape \in Shapes
      /\ i \in Nat /\ i < shape.rows /\ j \in 0 .. shape.cols
  BY <1>1, ShapeTypes DEF MInv, CountersInv
<1>3. /\ IInv' /\ Buffered(span)' /\ mode' = "dense"
      /\ status' \in {"live", "dead"}
      /\ \A a \in 0 .. MaxInt : Lookup(a)' = Lookup(a)
      /\ span'.len >= span.len /\ span'.len \in Nat /\ span.len \in Nat
  BY <1>1, <1>2, SpineReserved, ShapeTypes
<1>4. SpineInv'
  BY <1>1, <1>2, <1>3, ShapeTypes DEF SpineInv, RowsInv, InLoops, FillsSpine
<1>5. RowsInv'
  BY <1>1, <1>2 DEF RowsInv, InLoops, InRow, FillsSpine
<1>6. CountersInv'
  BY <1>1, <1>2, ShapeTypes DEF CountersInv, InLoops, FillsSpine
<1>7. CellsInv'
  <2>1. CASE j < shape.cols
    BY <1>1, <1>2, <2>1 DEF CellsInv, Written, InRow
  <2>2. CASE ~(j < shape.cols)
    <3>1. j = shape.cols /\ Written(i, shape.cols)
      BY <1>1, <1>2, <2>2, ShapeTypes DEF CellsInv, InRow
    <3>2. \A a \in 0 .. i : Written(a, shape.cols)
      BY <1>2, <3>1 DEF CellsInv
    <3> QED BY <1>1, <1>2, <2>2, <3>2 DEF CellsInv, Written, InRow
  <2> QED BY <2>1, <2>2
<1> QED BY <1>1, <1>2, <1>3, <1>4, <1>5, <1>6, <1>7 DEF MInv

(* A store in a row: the handle read is that row's, and its cell is there.    *)
LEMMA RowStored ==
  ASSUME MInv, Roomy(shape), At("store")
  PROVE  /\ RowAt(i) = i + 1 /\ RowAt(i) # Zero
         /\ i + 1 \in 1 .. Len(rows)
         /\ SpanOK(rows[i + 1]) /\ rows[i + 1].kind # "null"
         /\ j \in 0 .. rows[i + 1].len - 1
         /\ InSpan(rows[i + 1], j)
         /\ shape.cols > 0
<1>1. step = "store" /\ status = "live"
  BY DEF At, MInv
<1>2. /\ IInv /\ SpineInv /\ RowsInv /\ CountersInv /\ shape \in Shapes
      /\ i \in Nat /\ i < shape.rows /\ j \in Nat /\ j < shape.cols
      /\ rows \in Seq(Spans) /\ Len(rows) \in Nat
  BY <1>1, ShapeTypes DEF MInv, CountersInv, RowsInv
<1>3. shape.cols > 0 /\ i + 1 <= Len(rows)
  BY <1>1, <1>2, WrittenRows, ShapeTypes DEF InRow
<1>4. i \in 0 .. MaxInt /\ Lookup(i) = i + 1
  BY <1>2, <1>3, ShapeTypes DEF SpineInv
<1>5. i + 1 \in 1 .. Len(rows) /\ rows[i + 1] \in Spans
  BY <1>2, <1>3
<1>6. /\ SpanOK(rows[i + 1]) /\ rows[i + 1].len \in Nat
      /\ rows[i + 1].kind # "null" /\ rows[i + 1].len >= shape.cols
  BY <1>2, <1>3, <1>5 DEF Spans, RowsInv
<1>7. j \in 0 .. rows[i + 1].len - 1
  BY <1>2, <1>6, ShapeTypes
<1> QED BY <1>2, <1>3, <1>4, <1>5, <1>6, <1>7, ShapeTypes DEF RowAt, InSpan

(* It adds a cell to those written, and no other row changes. *)
LEMMA RowStoreStep ==
  ASSUME MInv, Roomy(shape), RowStore
  PROVE  MInv'
<1>1. /\ step = "store" /\ status = "live" /\ At("store") /\ step' = "inner" /\ j' = j + 1
      /\ UNCHANGED <<shape, i>>
  BY DEF RowStore, At, MInv
<1>2. /\ IInv /\ SpineInv /\ RowsInv /\ CountersInv /\ CellsInv /\ shape \in Shapes
      /\ i \in Nat /\ i < shape.rows /\ j \in Nat /\ j < shape.cols
      /\ rows \in Seq(Spans) /\ Len(rows) \in Nat
  BY <1>1, ShapeTypes DEF MInv, CountersInv, RowsInv
<1> PICK h \in 1 .. Len(rows), c \in 0 .. rows[i + 1].len - 1 : h = i + 1 /\ c = j
  BY <1>1, RowStored
<1>3. /\ RowAt(i) = h /\ h # Zero /\ SpanOK(rows[h]) /\ rows[h].kind # "null"
      /\ InSpan(rows[h], c) /\ c \in 0 .. rows[h].len - 1 /\ shape.cols > 0
  BY <1>1, RowStored
<1>4. rows' = [rows EXCEPT ![h].cell[c] = 1] /\ UNCHANGED <<status, mode, span, map, out>>
  BY <1>3 DEF RowStore, spine
<1> DEFINE r == [rows[h] EXCEPT !.cell[c] = 1]
<1>5. rows' = [rows EXCEPT ![h] = r]
  BY <1>4
<1>6. 1 \in Vals
  BY <1>2, ShapeTypes
<1>7. /\ SpanOK(r) /\ r.len = rows[h].len /\ r.kind = rows[h].kind
      /\ r.cell = [rows[h].cell EXCEPT ![c] = 1]
  BY <1>3, <1>6, StoreOK
<1>8. DOMAIN rows[h].cell = 0 .. rows[h].len - 1
  BY <1>3 DEF SpanOK
<1> HIDE DEF r
<1>9. /\ rows' \in Seq(Spans) /\ Len(rows') = Len(rows)
      /\ rows'[h] = r /\ \A k \in 1 .. Len(rows) : k # h => rows'[k] = rows[k]
  BY <1>2, <1>5, <1>7, SpansOfOK
<1>10. r.cell[c] = 1 /\ \A b \in 0 .. rows[h].len - 1 : b # c => r.cell[b] = rows[h].cell[b]
  BY <1>3, <1>7, <1>8
<1>11. IInv' /\ SpineInv'
  BY <1>1, <1>2, <1>4, <1>9 DEF IInv, SpineInv, Lookup, InLoops, FillsSpine
<1>12. RowsInv'
  <2>1. ASSUME NEW k \in 1 .. Len(rows'), shape.cols > 0
        PROVE  rows'[k].kind # "null" /\ rows'[k].len >= shape.cols
    BY <1>2, <1>3, <1>7, <1>9, <2>1 DEF RowsInv
  <2> QED BY <1>1, <1>2, <1>9, <2>1 DEF RowsInv, InLoops, InRow, FillsSpine
<1>13. CountersInv'
  BY <1>1, <1>2, ShapeTypes DEF CountersInv, InLoops, FillsSpine
<1>14. CellsInv'
  <2>1. rows[h].len >= shape.cols /\ shape.cols \in Nat /\ rows[h].len \in Nat
    BY <1>2, <1>3, ShapeTypes DEF RowsInv, SpanOK
  <2>2. ASSUME NEW a \in 0 .. i - 1, NEW b \in 0 .. shape.cols - 1
        PROVE  rows'[a + 1].cell[b] = 1
    <3>1. a + 1 \in 1 .. Len(rows) /\ a + 1 # h
      BY <1>2
    <3> QED BY <1>2, <1>9, <2>2, <3>1 DEF CellsInv, Written
  <2>3. ASSUME NEW b \in 0 .. j' - 1 PROVE rows'[i + 1].cell[b] = 1
    <3>1. CASE b = c
      BY <1>9, <1>10, <3>1
    <3>2. CASE b # c
      <4>1. b \in 0 .. j - 1 /\ b \in 0 .. rows[h].len - 1
        BY <1>1, <1>2, <2>1, <3>2
      <4>2. rows[h].cell[b] = 1
        BY <1>1, <1>2, <4>1 DEF CellsInv, Written, InRow
      <4> QED BY <1>9, <1>10, <3>2, <4>1, <4>2
    <3> QED BY <3>1, <3>2
  <2> QED BY <1>1, <2>2, <2>3 DEF CellsInv, Written
<1> QED BY <1>1, <1>2, <1>4, <1>11, <1>12, <1>13, <1>14 DEF MInv

(* One step of a program of that kind. *)
LEMMA MatrixStep ==
  ASSUME ~AllocFails, \A s \in Shapes : Roomy(s)
  PROVE  MInv /\ [MNext]_mvars => MInv'
<1> SUFFICES ASSUME MInv, [MNext]_mvars PROVE MInv'
  OBVIOUS
<1>1. Roomy(shape)
  BY DEF MInv
<1>2. CASE UNCHANGED mvars
  <2>1. UNCHANGED <<status, mode, span, map, out, shape, step, i, j, rows>>
    BY <1>2 DEF mvars, spine
  <2> QED BY <2>1 DEF MInv, IInv, SpineInv, RowsInv, CountersInv, CellsInv, Written, Lookup,
                      InLoops, InRow, FillsSpine
<1> QED BY <1>1, <1>2, CtorStep, CtorEntryStep, ReserveSpineStep, OuterTestStep, MakeRowStep,
           InnerTestStep, RowStoreStep DEF MNext

(* Every reachable state of one satisfies the invariant. *)
LEMMA MatrixHolds ==
  ASSUME ~AllocFails, \A s \in Shapes : Roomy(s)
  PROVE  MSpec => []MInv
BY MatrixInit, MatrixStep, PTL DEF MSpec

-----------------------------------------------------------------------------
(* Theorems. *)

(* A direct store falls on a cell of the buffer it writes: the handle of a    *)
(* new row on the spine the outer loop reserved, a value on a row that exists *)
(* and is as wide as the inner loop.                                        *)
THEOREM DirectStoresStayInSpan ==
  ASSUME ~AllocFails, \A s \in Shapes : Roomy(s)
  PROVE  MSpec => []DirectStoresInSpan
<1>1. ASSUME MInv PROVE DirectStoresInSpan
  <2>1. Roomy(shape)
    BY <1>1 DEF MInv
  <2>2. ASSUME At("make") PROVE InSpan(span, i)
    <3>1. step = "make" /\ status = "live"
      BY <1>1, <2>2 DEF At, MInv
    <3>2. /\ IInv /\ SpineInv /\ CountersInv /\ shape \in Shapes
      BY <1>1, <3>1 DEF MInv
    <3> QED BY <3>1, <3>2, ShapeTypes DEF SpineInv, CountersInv, InLoops, InSpan, Buffered, IInv, SpanOK
  <2>3. ASSUME At("store") PROVE RowAt(i) # Zero /\ InSpan(rows[RowAt(i)], j)
    BY <1>1, <2>1, <2>3, RowStored
  <2> QED BY <2>2, <2>3 DEF DirectStoresInSpan
<1> QED BY <1>1, MatrixHolds, PTL

(* The rows are not mixed up: each cell of the spine holds the handle of a row *)
(* of its own, also after the spine moved, and every cell the loops have       *)
(* passed reads as what was stored.                                         *)
THEOREM RowsStayFilled ==
  ASSUME ~AllocFails, \A s \in Shapes : Roomy(s)
  PROVE  MSpec => []RowsFilled
<1>1. ASSUME MInv, status = "live" PROVE RowsFilled
  <2>1. /\ IInv /\ SpineInv /\ RowsInv /\ CountersInv /\ CellsInv /\ shape \in Shapes /\ Roomy(shape)
    BY <1>1 DEF MInv
  <2>2. /\ DOMAIN span.cell = 0 .. span.len - 1 /\ span.len \in 0 .. MaxInt
        /\ i \in 0 .. shape.rows /\ Len(rows) \in Nat
    BY <2>1 DEF IInv, SpanOK, CountersInv, RowsInv
  <2>3. \A a \in DOMAIN span.cell : span.cell[a] = IF a < Len(rows) THEN a + 1 ELSE Zero
    <3>1. ASSUME NEW a \in 0 .. span.len - 1
          PROVE  span.cell[a] = IF a < Len(rows) THEN a + 1 ELSE Zero
      <4>1. a \in 0 .. MaxInt /\ Lookup(a) = span.cell[a]
        BY <2>1, <2>2, ShapeTypes DEF Lookup, SpineInv
      <4> QED BY <2>1, <4>1 DEF SpineInv
    <3> QED BY <2>2, <3>1
  <2>4. \A a, b \in DOMAIN span.cell : span.cell[a] = span.cell[b] /\ a # b => span.cell[a] = Zero
    BY <2>1, <2>2, <2>3, ShapeTypes
  <2>5. ASSUME NEW a \in 0 .. i - 1, NEW b \in 0 .. shape.cols - 1
        PROVE  rows[RowAt(a)].cell[b] = 1
    <3>1. shape.cols > 0
      BY <2>1, ShapeTypes
    <3>2. a \in 0 .. MaxInt /\ a < Len(rows)
      BY <1>1, <2>1, <2>2, <3>1, WrittenRows, ShapeTypes
    <3>3. RowAt(a) = a + 1
      BY <2>1, <3>2 DEF SpineInv, RowAt
    <3> QED BY <2>1, <3>3 DEF CellsInv, Written
  <2> QED BY <2>4, <2>5 DEF RowsFilled
<1>2. MInv => RowsFilled
  BY <1>1 DEF RowsFilled
<1> QED BY <1>2, MatrixHolds, PTL
=============================================================================
