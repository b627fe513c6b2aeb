---------------------------- MODULE FillLoopProofs ----------------------------
(***************************************************************************)
(* Theorems about fill loops on a runtime table: what the loops wrote is     *)
(* what the table holds, and in programs that store near before they fill no *)
(* direct store leaves the span, for every script, bound, counter, threshold *)
(* and buffer size.                                                         *)
(***************************************************************************)
EXTENDS FillLoop, GlmTableProofs

Here == script[at]
Looping == status = "live" /\ looping

(* Where the program stands. *)
PlaceInv ==
  /\ script \in Scripts
  /\ at \in Nat \ {0}
  /\ looping \in BOOLEAN /\ filled \in BOOLEAN
  /\ status = "null" => mode = "dense" /\ ~looping
  /\ status # "null" => verdict # "none"
  /\ ~looping => ~filled
  /\ WideEnough

(* What the running loop has done. *)
LoopInv ==
  Looping =>
    /\ Running("fill")
    /\ limit \in Bounds(Here)
    /\ idx \in Nat /\ idx >= Start
    /\ filled => idx < limit /\ Here.ahead > 0 /\ Lookup(idx) = Here.val
    /\ idx > Start \/ filled => Solid
    /\ FilledBehind

FillInv == IInv /\ PlaceInv /\ LoopInv

-----------------------------------------------------------------------------
(* Statements. *)

(* The statement that runs is one of the grammar's. *)
LEMMA StatementTypes ==
  ASSUME PlaceInv, at <= Len(script)
  PROVE  /\ at \in DOMAIN script
         /\ Here \in Statements
         /\ Here.val \in Vals
         /\ Here.op = "store" => Here.key \in 0 .. MaxInt
         /\ Here.op = "fill" => Here.key \in Word /\ Here.ahead \in Nat
<1>1. script \in Seq(Statements)
  BY FillAssumption DEF PlaceInv
<1>2. at \in DOMAIN script /\ Here \in Statements
  BY <1>1 DEF PlaceInv, Here
<1> QED BY <1>2 DEF Statements, Word

(* The bound of a loop is a word, and so is every key its body stores ahead at. *)
LEMMA BoundTypes ==
  ASSUME PlaceInv, at <= Len(script), Here.op = "fill", NEW b \in Bounds(Here)
  PROVE  b \in Word /\ b + Here.ahead <= MaxInt
BY StatementTypes, FillAssumption DEF PlaceInv, Here, Fitting, Word

(* The bound evaluates to a value it can have. *)
LEMMA BoundValue ==
  ASSUME IInv, PlaceInv, at <= Len(script), Here.op = "fill", Buffered(span) \/ AllocFails
  PROVE  BoundOf(Here) \in Bounds(Here)
<1>1. CASE Here.const
  BY <1>1 DEF BoundOf, Bounds
<1>2. CASE ~Here.const
  <2>1. ~AllocFails
    BY <1>2, StatementTypes, FillAssumption DEF PlaceInv, Here, Fitting
  <2>2. Lookup(Here.key) \in Vals
    <3>1. Here.key \in Int /\ MaxInt \in Int
      BY StatementTypes, SizeAssumption DEF Word
    <3>2. span.len \in Nat /\ (span.len # 0 => span.cell \in [0 .. span.len - 1 -> Vals])
      BY <2>1 DEF IInv, SpanOK, Covers, Buffered
    <3> QED BY <3>1, <3>2, ValueAssumption DEF Lookup, IInv
  <2> QED BY <1>2, <2>2 DEF BoundOf, Bounds
<1> QED BY <1>1, <1>2

-----------------------------------------------------------------------------
(* The stores of a program. *)

(* What a store leaves, whichever path it takes, told apart by the table. *)
LEMMA SetAtReads ==
  ASSUME IInv, NEW i \in 0 .. MaxInt, NEW v \in Vals, SetAt(i, v)
  PROVE  /\ IInv'
         /\ status' \in {"live", "dead"}
         /\ status' = "live" => /\ Lookup(i)' = v
                                /\ Solid'
                                /\ Solid => Wrote(i, v)
<1>1. i \in Word
  BY SizeAssumption DEF Word
<1>2. IInv'
  BY <1>1, SetSparseKeeps, SetUpgradeKeeps, SetDenseKeeps DEF SetAt
<1>3. status' \in {"live", "dead"}
  BY DEF SetAt, SetSparse, SetUpgrade, SetDense, Die
<1>4. Solid /\ mode = "dense" => Buffered(span)
  BY DEF Solid, Buffered
<1>5. CASE SetSparse(i, v)
  BY <1>2, <1>3, <1>5, SparseReads DEF Wrote
<1>6. CASE SetUpgrade(i, v)
  BY <1>2, <1>3, <1>6, UpgradeReads DEF Wrote
<1>7. CASE SetDense(i, v)
  <2>1. mode = "dense"
    BY <1>7 DEF SetDense
  <2> QED BY <1>2, <1>3, <1>4, <1>7, <2>1, DenseReads
<1> QED BY <1>5, <1>6, <1>7 DEF SetAt

(* A direct store, where the span has the cell. *)
LEMMA DirectReads ==
  ASSUME IInv, status = "live", NEW i \in 0 .. MaxInt, NEW v \in Vals, DirectStore(i, v)
  PROVE  /\ IInv'
         /\ status' \in {"live", "dead"}
         /\ status' = "live" => Wrote(i, v) /\ Solid'
<1>1. CASE InSpan(i)
  <2>1. /\ span' = [span EXCEPT !.cell[i] = v]
        /\ UNCHANGED <<status, mode, map, out>>
    BY <1>1 DEF DirectStore
  <2>2. i \in 0 .. span.len - 1 /\ span.kind # "null" /\ mode = "dense"
    BY <1>1 DEF InSpan, IInv, SpanOK
  <2>3. IInv' /\ Wrote(i, v) /\ Solid'
    BY <2>1, <2>2, CellStored
  <2> QED BY <2>1, <2>3
<1>2. CASE ~InSpan(i)
  BY <1>2 DEF DirectStore, Die, IInv
<1> QED BY <1>1, <1>2

-----------------------------------------------------------------------------
(* The length of the span. *)

(* A store never shortens the span of a table that stays dense. *)
LEMMA SetAtLength ==
  ASSUME IInv, WideEnough, NEW i \in 0 .. MaxInt, NEW v \in Vals, SetAt(i, v)
  PROVE  /\ WideEnough'
         /\ i <= Horizon(span) /\ mode = "dense" /\ status' = "live" =>
              mode' = "dense" /\ span'.len >= span.len /\ span'.len > i
<1>1. CASE SetSparse(i, v)
  BY <1>1 DEF SetSparse, WideEnough
<1>2. CASE SetUpgrade(i, v)
  <2>1. WideEnough'
    BY <1>2 DEF SetUpgrade, Die, WideEnough, NoSpan
  <2>2. ~(i <= Horizon(span))
    BY <1>2, SizeAssumption DEF SetUpgrade, Horizon, IInv, SpanOK
  <2> QED BY <2>1, <2>2
<1>3. CASE SetDense(i, v)
  <2>1. CASE Die
    BY <2>1 DEF Die, WideEnough
  <2>2. CASE ~Die
    <3>1. PICK s \in SpanGrow(span, WrapSucc(i)) :
             /\ s.kind # "null"
             /\ span' = [s EXCEPT !.cell[i] = v]
             /\ UNCHANGED <<status, mode, map, out>>
      BY <1>3, <2>2 DEF SetDense
    <3>2. i \in Word /\ i >= 0
      BY SizeAssumption DEF Word
    <3>3. SpanOK(s) /\ i \in 0 .. s.len - 1 /\ WrapSucc(i) \in Word
      BY <3>2, GrowCoversIndex, KeysAreWords DEF IInv
    <3>4. span'.len = s.len
      BY <3>1, <3>3, StoreOK
    <3>5. s.len = 0 \/ s.len >= MinSpan
      BY <3>3, GrowWide DEF IInv, WideEnough
    <3>6. s.len >= span.len
      BY <3>3, GrowResult DEF IInv
    <3> QED BY <1>3, <3>1, <3>3, <3>4, <3>5, <3>6 DEF SetDense, WideEnough, SpanOK
  <2> QED BY <2>1, <2>2
<1> QED BY <1>1, <1>2, <1>3 DEF SetAt

(* Nor does the reservation, which covers what was asked. *)
LEMMA ReserveLength ==
  ASSUME IInv, WideEnough, status = "live", NEW n \in Word, Reserve(n)
  PROVE  /\ IInv' /\ WideEnough'
         /\ status' \in {"live", "dead"}
         /\ mode' = mode
         /\ mode = "dense" /\ status' = "live" => span'.len >= n /\ span'.len >= span.len
<1>1. CASE mode = "sparse"
  <2>1. UNCHANGED vars
    BY <1>1 DEF Reserve
  <2> QED BY <1>1, <2>1, NextInv DEF vars, WideEnough
<1>2. CASE mode = "dense"
  <2>1. Widen(n)
    BY <1>2 DEF Reserve
  <2>2. IInv'
    BY <1>2, <2>1, WidenKeeps
  <2>3. CASE Die
    BY <2>2, <2>3 DEF Die, WideEnough
  <2>4. CASE ~Die
    <3>1. PICK s \in SpanGrow(span, n) : span' = s /\ UNCHANGED <<status, mode, map, out>>
      BY <2>1, <2>4 DEF Widen
    <3>2. s.len >= n /\ s.len >= span.len
      BY <3>1, GrowResult DEF IInv
    <3>3. s.len = 0 \/ s.len >= MinSpan
      BY <3>1, GrowWide DEF IInv, WideEnough
    <3> QED BY <2>2, <3>1, <3>2, <3>3 DEF WideEnough
  <2> QED BY <2>3, <2>4
<1> QED BY <1>1, <1>2 DEF IInv

(* Nor does a direct store. *)
LEMMA DirectLength ==
  ASSUME IInv, WideEnough, NEW i \in 0 .. MaxInt, NEW v \in Vals, DirectStore(i, v)
  PROVE  WideEnough' /\ mode' = mode /\ (status' = "live" => span'.len = span.len)
<1>1. span'.len = span.len /\ mode' = mode
  <2>1. CASE InSpan(i)
    <3>1. span' = [span EXCEPT !.cell[i] = v] /\ i \in 0 .. span.len - 1 /\ span.kind # "null"
      BY <2>1 DEF DirectStore, InSpan, IInv, SpanOK
    <3>2. span'.len = span.len
      BY <3>1, StoreOK DEF IInv
    <3> QED BY <2>1, <3>2 DEF DirectStore
  <2>2. CASE ~InSpan(i)
    BY <2>2 DEF DirectStore, Die
  <2> QED BY <2>1, <2>2
<1> QED BY <1>1 DEF WideEnough

-----------------------------------------------------------------------------
(* The invariant of the loops, one lemma for each action. *)

(* Every program starts before its analysis, without a table. *)
LEMMA FillInit == FInit => FillInv
<1> SUFFICES ASSUME FInit PROVE FillInv
  OBVIOUS
<1>1. IInv
  BY InitInv DEF FInit
<1>2. PlaceInv
  <2>1. looping \in BOOLEAN /\ filled \in BOOLEAN /\ ~looping /\ ~filled
    BY DEF FInit
  <2>2. WideEnough
    BY DEF FInit, Init, WideEnough, NoSpan
  <2> QED BY <2>1, <2>2 DEF FInit, Init, PlaceInv
<1> QED BY <1>1, <1>2 DEF FillInv, FInit, LoopInv, Looping

(* The analysis gives a verdict and touches nothing else. *)
LEMMA AnalyzeStep ==
  ASSUME FillInv, Analyze
  PROVE  FillInv'
<1>1. status = "null"
  BY DEF Analyze, FillInv, PlaceInv
<1>2. UNCHANGED vars /\ UNCHANGED <<script, at, looping, idx, filled, limit>>
  BY DEF Analyze, table, vars
<1>3. IInv'
  BY <1>2, NextInv DEF FillInv
<1>4. PlaceInv'
  BY <1>1, <1>2 DEF FillInv, PlaceInv, WideEnough, vars
<1>5. ~Looping'
  BY <1>1, <1>2 DEF Looping, vars
<1> QED BY <1>3, <1>4, <1>5 DEF FillInv, LoopInv

(* The constructor makes an empty table before any loop is entered. *)
LEMMA ConstructStep ==
  ASSUME FillInv, Construct
  PROVE  FillInv'
<1>1. status = "null" /\ verdict # "none" /\ ~looping /\ New(verdict = "sparse")
  BY DEF Construct, FillInv, PlaceInv
<1>2. UNCHANGED <<script, at, verdict, looping, idx, filled, limit>>
  BY DEF Construct, fill
<1>3. IInv'
  <2>1. (verdict = "sparse") \in BOOLEAN
    OBVIOUS
  <2> QED BY <1>1, <2>1, NewKeeps DEF FillInv
<1>4. PlaceInv'
  BY <1>1, <1>2 DEF FillInv, PlaceInv, New, WideEnough, NoSpan
<1> QED BY <1>1, <1>2, <1>3, <1>4 DEF FillInv, LoopInv, Looping

(* A store outside the loops runs while none is entered. *)
LEMMA StoreStep ==
  ASSUME FillInv, Store
  PROVE  FillInv'
<1>1. Running("store") /\ SetAt(Here.key, Here.val)
  BY DEF Store, Here
<1>2. /\ at' = at + 1
      /\ UNCHANGED <<script, verdict, looping, idx, filled, limit>>
  BY DEF Store
<1>3. Here.key \in 0 .. MaxInt /\ Here.val \in Vals
  BY <1>1, StatementTypes DEF FillInv, Running, Here
<1>4. IInv' /\ status' \in {"live", "dead"} /\ WideEnough'
  BY <1>1, <1>3, SetAtReads, SetAtLength DEF FillInv, PlaceInv
<1>5. ~looping
  BY <1>1 DEF FillInv, LoopInv, Looping, Running
<1>6. PlaceInv'
  BY <1>1, <1>2, <1>4 DEF FillInv, PlaceInv, Running
<1> QED BY <1>2, <1>4, <1>5, <1>6 DEF FillInv, LoopInv, Looping

(* Entering a loop sets its counter at the start: nothing is behind it. *)
LEMMA EnterStep ==
  ASSUME FillInv, EnterLoop, Buffered(span) \/ AllocFails
  PROVE  FillInv'
<1>1. /\ Running("fill") /\ ~looping /\ Reserve(BoundOf(Here))
      /\ looping' = TRUE /\ idx' = Start /\ limit' = BoundOf(Here)
      /\ UNCHANGED <<script, at, verdict, filled>>
  BY DEF EnterLoop, Here
<1>2. BoundOf(Here) \in Bounds(Here) /\ BoundOf(Here) \in Word
  BY <1>1, BoundValue, BoundTypes DEF FillInv, Running, Here
<1>3. IInv' /\ WideEnough' /\ status' \in {"live", "dead"}
  BY <1>1, <1>2, ReserveLength DEF FillInv, PlaceInv, Running
<1>4. PlaceInv'
  BY <1>1, <1>3 DEF FillInv, PlaceInv, Running
<1>5. ~filled' /\ Here' = Here
  BY <1>1 DEF FillInv, PlaceInv, Here
<1>6. ASSUME status' = "live" PROVE LoopInv'
  <2>1. Running("fill")'
    BY <1>1, <1>6 DEF Running
  <2>2. FilledBehind'
    BY <1>1, FillAssumption DEF FilledBehind
  <2>3. limit' \in Bounds(Here)'
    BY <1>1, <1>2, <1>5 DEF Bounds
  <2> QED BY <1>1, <1>5, <2>1, <2>2, <2>3, FillAssumption DEF LoopInv
<1> QED BY <1>3, <1>4, <1>6 DEF FillInv, LoopInv, Looping

(* A store of the body, by either of its two compilations. *)
LEMMA SetCellReads ==
  ASSUME IInv, WideEnough, status = "live", NEW i \in 0 .. MaxInt, NEW v \in Vals, SetCell(i, v)
  PROVE  /\ IInv' /\ WideEnough'
         /\ status' \in {"live", "dead"}
         /\ status' = "live" => /\ Lookup(i)' = v
                                /\ Solid'
                                /\ Solid => Wrote(i, v)
<1>1. CASE verdict = "dense"
  BY <1>1, DirectReads, DirectLength DEF SetCell, Wrote
<1>2. CASE verdict # "dense"
  BY <1>2, SetAtReads, SetAtLength DEF SetCell
<1> QED BY <1>1, <1>2

(* In a turn the counter is an index, below a bound that is a word. *)
LEMMA TurnTypes ==
  ASSUME FillInv, InTurn
  PROVE  /\ idx \in 0 .. MaxInt /\ idx >= Start /\ idx < limit
         /\ limit \in Word /\ limit <= MaxInt
         /\ Start \in Nat
         /\ Here.ahead \in Nat
         /\ idx + Here.ahead \in 0 .. MaxInt
         /\ Here.val \in Vals
<1>1. /\ at <= Len(script) /\ Here.op = "fill" /\ limit \in Bounds(Here)
      /\ idx \in Nat /\ idx >= Start /\ idx < limit
  BY DEF InTurn, Running, FillInv, LoopInv, Looping, Here
<1>2. limit \in Word /\ limit + Here.ahead <= MaxInt
  BY <1>1, BoundTypes DEF FillInv
<1>3. Here.ahead \in Nat /\ Here.val \in Vals
  BY <1>1, StatementTypes DEF FillInv
<1> QED BY <1>1, <1>2, <1>3, SizeAssumption, FillAssumption DEF Word

(* The direct store of a turn adds its cell to the ones behind the counter. *)
LEMMA FillStoreStep ==
  ASSUME FillInv, FillStore
  PROVE  FillInv'
<1>1. /\ InTurn /\ ~filled /\ SetCell(idx, Here.val)
      /\ filled' = (Here.ahead > 0)
      /\ idx' = IF filled' THEN idx ELSE idx + 1
      /\ UNCHANGED <<script, at, verdict, looping, limit>>
  BY DEF FillStore, Here
<1>2. /\ idx \in 0 .. MaxInt /\ idx >= Start /\ idx < limit /\ limit \in Word
      /\ Start \in Nat /\ Here.val \in Vals /\ Here.ahead \in Nat
  BY <1>1, TurnTypes
<1>3. status = "live" /\ looping /\ at <= Len(script) /\ Here.op = "fill"
  BY <1>1 DEF InTurn, Running, Here
<1> PICK k \in 0 .. MaxInt, v \in Vals : k = idx /\ v = Here.val
  BY <1>2
<1>4. /\ IInv' /\ WideEnough' /\ status' \in {"live", "dead"}
      /\ status' = "live" => /\ Lookup(k)' = v
                             /\ Solid'
                             /\ Solid => Wrote(k, v)
  <2>1. IInv /\ WideEnough /\ SetCell(k, v)
    BY <1>1 DEF FillInv, PlaceInv
  <2> QED BY <2>1, <1>3, SetCellReads
<1>5. PlaceInv'
  <2>1. filled' \in BOOLEAN /\ looping'
    BY <1>1, <1>3
  <2> QED BY <1>1, <1>3, <1>4, <2>1 DEF FillInv, PlaceInv
<1>6. Here' = Here
  BY <1>1 DEF Here
<1>7. ASSUME status' = "live" PROVE LoopInv'
  <2>1. Running("fill")'
    BY <1>1, <1>3, <1>7 DEF Running, Here
  <2>2. limit' \in Bounds(Here)'
    BY <1>1, <1>3, <1>6 DEF FillInv, LoopInv, Looping, Bounds
  <2>3. idx' \in Nat /\ idx' >= Start
    BY <1>1, <1>2
  <2>4. ASSUME filled' PROVE idx' < limit' /\ Here'.ahead > 0 /\ Lookup(k)' = Here'.val /\ idx' = k
    BY <1>1, <1>2, <1>4, <1>6, <1>7, <2>4
  <2>5. ASSUME NEW j \in Start .. idx' - 1 PROVE Lookup(j)' = Here.val
    <3>1. j \in 0 .. MaxInt /\ j <= k
      BY <1>1, <1>2, SizeAssumption
    <3>2. CASE j = k
      BY <1>4, <1>7, <3>2
    <3>3. CASE j < k
      <4>1. Solid /\ Lookup(j) = Here.val
        BY <1>2, <1>3, <3>1, <3>3 DEF FillInv, LoopInv, Looping, FilledBehind, Running, Here
      <4> QED BY <1>4, <1>7, <3>1, <3>3, <4>1 DEF Wrote
    <3> QED BY <1>2, <3>1, <3>2, <3>3
  <2>6. FilledBehind'
    BY <1>6, <2>5 DEF FilledBehind, Here
  <2> QED BY <1>4, <1>7, <2>1, <2>2, <2>3, <2>4, <2>6 DEF LoopInv
<1> QED BY <1>4, <1>5, <1>7 DEF FillInv, LoopInv, Looping

(* The store ahead falls past the counter, whatever it does to the table. *)
LEMMA AheadStoreStep ==
  ASSUME FillInv, AheadStore
  PROVE  FillInv'
<1>1. /\ InTurn /\ filled /\ SetAt(idx + Here.ahead, Other)
      /\ ~filled' /\ filled' \in BOOLEAN /\ idx' = idx + 1
      /\ UNCHANGED <<script, at, verdict, looping, limit>>
  BY DEF AheadStore, Here
<1>2. /\ idx \in 0 .. MaxInt /\ idx >= Start /\ idx < limit
      /\ Start \in Nat /\ idx + Here.ahead \in 0 .. MaxInt /\ Here.ahead \in Nat
  BY <1>1, TurnTypes
<1>3. status = "live" /\ looping /\ at <= Len(script) /\ Here.op = "fill"
  BY <1>1 DEF InTurn, Running, Here
<1>4. Here.ahead > 0 /\ Solid /\ Lookup(idx) = Here.val
  BY <1>1, <1>3 DEF FillInv, LoopInv, Looping
<1> PICK k \in 0 .. MaxInt, m \in 0 .. MaxInt : k = idx /\ m = idx + Here.ahead
  BY <1>2
<1>5. k < m
  BY <1>2, <1>4
<1>6. /\ IInv' /\ WideEnough' /\ status' \in {"live", "dead"}
      /\ status' = "live" => Solid' /\ Wrote(m, Other)
  <2>1. IInv /\ WideEnough /\ SetAt(m, Other) /\ Other \in Vals
    BY <1>1, FillAssumption DEF FillInv, PlaceInv
  <2> QED BY <2>1, <1>4, SetAtReads, SetAtLength
<1>7. PlaceInv'
  BY <1>1, <1>3, <1>6 DEF FillInv, PlaceInv
<1>8. Here' = Here
  BY <1>1 DEF Here
<1>9. ASSUME status' = "live" PROVE LoopInv'
  <2>1. Running("fill")'
    BY <1>1, <1>3, <1>9 DEF Running, Here
  <2>2. limit' \in Bounds(Here)'
    BY <1>1, <1>3, <1>8 DEF FillInv, LoopInv, Looping, Bounds
  <2>3. idx' \in Nat /\ idx' >= Start
    BY <1>1, <1>2
  <2>4. ASSUME NEW j \in Start .. idx' - 1 PROVE Lookup(j)' = Here.val
    <3>1. j \in 0 .. MaxInt /\ j <= k /\ j # m
      BY <1>1, <1>2, <1>5, SizeAssumption
    <3>2. Lookup(j)' = Lookup(j)
      BY <1>6, <1>9, <3>1 DEF Wrote
    <3>3. CASE j = k
      BY <1>4, <3>2, <3>3
    <3>4. CASE j < k
      <4>1. Lookup(j) = Here.val
        BY <1>2, <1>3, <3>1, <3>4 DEF FillInv, LoopInv, Looping, FilledBehind, Running, Here
      <4> QED BY <3>2, <4>1
    <3> QED BY <1>2, <3>1, <3>3, <3>4
  <2>5. FilledBehind'
    BY <1>8, <2>4 DEF FilledBehind, Here
  <2> QED BY <1>1, <1>6, <1>9, <2>1, <2>2, <2>3, <2>5 DEF LoopInv
<1> QED BY <1>6, <1>7, <1>9 DEF FillInv, LoopInv, Looping

(* Leaving a loop, like doing nothing, changes no table. *)
LEMMA LeaveStep ==
  ASSUME FillInv, LeaveLoop
  PROVE  FillInv'
<1>1. /\ UNCHANGED vars /\ UNCHANGED <<script, verdict, idx, filled, limit>>
      /\ looping' = FALSE /\ at' = at + 1 /\ ~filled /\ status = "live"
  BY DEF LeaveLoop, Running, table, vars
<1>2. IInv'
  BY <1>1, NextInv DEF FillInv
<1>3. PlaceInv'
  <2>1. looping' \in BOOLEAN /\ ~looping' /\ filled' = filled
    BY <1>1
  <2> QED BY <1>1, <2>1 DEF FillInv, PlaceInv, WideEnough, vars
<1> QED BY <1>1, <1>2, <1>3 DEF FillInv, LoopInv, Looping

(* The invariant is a function of the variables. *)
LEMMA IdleStep ==
  ASSUME FillInv, UNCHANGED fvars
  PROVE  FillInv'
<1>1. /\ UNCHANGED vars
      /\ UNCHANGED <<script, at, verdict, looping, idx, filled, limit>>
  BY DEF fvars, table, fill, vars
<1>2. IInv'
  BY <1>1, NextInv DEF FillInv
<1>3. PlaceInv'
  BY <1>1 DEF FillInv, PlaceInv, WideEnough, vars
<1>4. LoopInv'
  BY <1>1 DEF FillInv, LoopInv, Looping, Running, Bounds, Here, Lookup, Solid, FilledBehind, vars
<1> QED BY <1>2, <1>3, <1>4 DEF FillInv

(* With an allocator that never refuses, a nonempty span has its buffer: what *)
(* AlwaysBuffered says of the runtime, of the loops compiled onto it.         *)
LEMMA FillBuffered ==
  ASSUME ~AllocFails, FillInv, Buffered(span), [FNext]_fvars
  PROVE  Buffered(span)'
<1>1. Buffered(NoSpan)
  BY DEF Buffered, NoSpan
<1>2. ASSUME NEW i \in 0 .. MaxInt, NEW v \in Vals, SetAt(i, v)
      PROVE  Buffered(span)'
  <2>1. CASE status' = "live"
    <3>1. Solid' /\ IInv'
      BY <1>2, <2>1, SetAtReads DEF FillInv
    <3> QED BY <1>1, <3>1 DEF Solid, Buffered, IInv
  <2>2. CASE status' # "live"
    <3>1. UNCHANGED span
      BY <1>2, <2>2 DEF SetAt, SetSparse, SetUpgrade, SetDense, Die
    <3> QED BY <3>1
  <2> QED BY <2>1, <2>2
<1>3. CASE Analyze \/ LeaveLoop \/ UNCHANGED fvars
  BY <1>3 DEF Analyze, LeaveLoop, fvars, table
<1>4. CASE Construct
  BY <1>1, <1>4 DEF Construct, New
<1>5. CASE Store
  <2>1. SetAt(Here.key, Here.val) /\ Here.key \in 0 .. MaxInt /\ Here.val \in Vals
    BY <1>5, StatementTypes DEF Store, Running, Here, FillInv
  <2> QED BY <1>2, <2>1
<1>6. CASE EnterLoop
  <2>1. Reserve(BoundOf(Here)) /\ status = "live" /\ at <= Len(script) /\ Here.op = "fill"
    BY <1>6 DEF EnterLoop, Running, Here
  <2>2. BoundOf(Here) \in Word
    BY <2>1, BoundValue, BoundTypes DEF FillInv
  <2>3. UNCHANGED span \/ \E s \in SpanGrow(span, BoundOf(Here)) : span' = s
    BY <2>1 DEF Reserve, Widen, Die, vars
  <2> QED BY <2>2, <2>3, GrowResult DEF FillInv, IInv
<1>7. CASE FillStore
  <2>1. InTurn /\ SetCell(idx, Here.val)
    BY <1>7 DEF FillStore, Here
  <2>2. idx \in 0 .. MaxInt /\ Here.val \in Vals
    BY <2>1, TurnTypes
  <2>3. CASE SetAt(idx, Here.val)
    BY <1>2, <2>2, <2>3
  <2>4. CASE DirectStore(idx, Here.val)
    <3>1. CASE InSpan(idx)
      <4>1. /\ span' = [span EXCEPT !.cell[idx] = Here.val]
            /\ idx \in 0 .. span.len - 1 /\ span.kind # "null"
        BY <2>2, <2>4, <3>1 DEF DirectStore, InSpan, FillInv, IInv, SpanOK
      <4>2. span'.kind = span.kind
        BY <2>2, <4>1, StoreOK DEF FillInv, IInv
      <4> QED BY <4>1, <4>2 DEF Buffered
    <3>2. CASE ~InSpan(idx)
      BY <2>4, <3>2 DEF DirectStore, Die
    <3> QED BY <3>1, <3>2
  <2> QED BY <2>1, <2>3, <2>4 DEF SetCell
<1>8. CASE AheadStore
  <2>1. InTurn /\ SetAt(idx + Here.ahead, Other)
    BY <1>8 DEF AheadStore, Here
  <2> QED BY <1>2, <2>1, TurnTypes, FillAssumption
<1> QED BY <1>3, <1>4, <1>5, <1>6, <1>7, <1>8 DEF FNext

(* One step of a program keeps the invariant. *)
LEMMA FillStep ==
  FillInv /\ (Buffered(span) \/ AllocFails) /\ [FNext]_fvars => FillInv'
BY AnalyzeStep, ConstructStep, StoreStep, EnterStep, FillStoreStep, AheadStoreStep,
   LeaveStep, IdleStep DEF FNext

(* Every reachable state of a program satisfies it. *)
LEMMA FillHolds == FSpec => [](FillInv /\ (Buffered(span) \/ AllocFails))
<1>1. FInit => Buffered(span)
  BY DEF FInit, Init, Buffered, NoSpan
<1>2. ASSUME FillInv, Buffered(span) \/ AllocFails, [FNext]_fvars
      PROVE  (Buffered(span) \/ AllocFails)'
  <2>1. CASE AllocFails
    BY <2>1, SizeAssumption
  <2>2. CASE ~AllocFails
    BY <1>2, <2>2, FillBuffered
  <2> QED BY <2>1, <2>2
<1> QED BY <1>1, <1>2, FillInit, FillStep, PTL DEF FSpec

(* Whatever the verdict, the path of the stores and the refusals of the       *)
(* allocator: the cells a running loop has passed hold what it wrote, a store *)
(* ahead that grows, moves or upgrades the table between two turns included.  *)
THEOREM LoopsFillBehind == FSpec => []FilledBehind
<1>1. FillInv => FilledBehind
  BY DEF FillInv, LoopInv, Looping, FilledBehind, Running
<1> QED BY <1>1, FillHolds, PTL

(* The header of a table keeps agreeing with what backs its buffer when the   *)
(* compiler writes into the buffer past the runtime.                         *)
THEOREM DirectStoresKeepTable == FSpec => []IInv
BY FillHolds, PTL DEF FillInv

-----------------------------------------------------------------------------
(* Programs that store near before they fill. *)

FillToCome == \E k \in DOMAIN script : k >= at /\ script[k].op = "fill"

(* Where the loops write directly the table stays dense until the last of     *)
(* them is done, the span covers the bound, and from the second turn on also  *)
(* the cell before the next store ahead: after the first turn no store ahead  *)
(* is far.                                                                  *)
SpanInv ==
  status = "live" /\ verdict = "dense" =>
    /\ FillToCome => mode = "dense"
    /\ looping => /\ span.len >= limit
                  /\ idx < limit => span.len >= MinSpan
                  /\ idx > Start /\ Here.ahead > 0 => span.len >= idx + Here.ahead

(* An index within the threshold, or within the span and the threshold, is    *)
(* within the horizon.                                                      *)
LEMMA WithinHorizon ==
  ASSUME IInv, NEW i \in 0 .. MaxInt, i <= span.len + SparseThreshold
  PROVE  i <= Horizon(span)
BY SizeAssumption DEF Horizon, IInv, SpanOK

(* The loop that runs is one still to come. *)
LEMMA RunningIsToCome ==
  ASSUME PlaceInv, Running("fill")
  PROVE  FillToCome
<1>1. at \in DOMAIN script /\ script[at].op = "fill"
  BY StatementTypes DEF Running
<1> QED BY <1>1 DEF FillToCome, PlaceInv

(* The stores before a loop are near, so none of them upgrades the table. *)
LEMMA StoreSpan ==
  ASSUME FillInv, SpanInv, Near(script), Store
  PROVE  SpanInv'
<1>1. Running("store") /\ SetAt(Here.key, Here.val)
  BY DEF Store, Here
<1>2. at' = at + 1 /\ UNCHANGED <<script, verdict, looping>>
  BY DEF Store
<1>3. Here.key \in 0 .. MaxInt /\ Here.val \in Vals /\ at \in DOMAIN script
  BY <1>1, StatementTypes DEF FillInv, Running, Here
<1>4. ~looping
  BY <1>1 DEF FillInv, LoopInv, Looping, Running
<1>5. ASSUME verdict = "dense", FillToCome', status' = "live" PROVE mode' = "dense"
  <2>1. PICK k \in DOMAIN script : k >= at + 1 /\ script[k].op = "fill"
    BY <1>2, <1>5 DEF FillToCome
  <2>2. DOMAIN script \subseteq Nat /\ at \in Nat /\ at >= 1
    BY FillAssumption DEF FillInv, PlaceInv
  <2>3. FillToCome
    BY <2>1, <2>2 DEF FillToCome
  <2>4. mode = "dense"
    BY <1>1, <1>5, <2>3 DEF SpanInv, Running
  <2>5. Here.key <= SparseThreshold
    BY <1>1, <2>1, <2>2 DEF Near, Running, Here
  <2>6. Here.key <= Horizon(span)
    BY <1>3, <2>5, WithinHorizon, SizeAssumption DEF FillInv, IInv, SpanOK
  <2> QED BY <1>1, <1>3, <1>5, <2>4, <2>6, SetAtLength DEF FillInv, PlaceInv
<1> QED BY <1>2, <1>4, <1>5 DEF SpanInv

(* The reservation covers the bound, with the smallest buffer at the least. *)
LEMMA EnterSpan ==
  ASSUME FillInv, FillInv', SpanInv, EnterLoop, Buffered(span) \/ AllocFails
  PROVE  SpanInv'
<1>1. /\ Running("fill") /\ Reserve(BoundOf(Here))
      /\ idx' = Start /\ limit' = BoundOf(Here)
      /\ UNCHANGED <<script, at, verdict>>
  BY DEF EnterLoop, Here
<1>2. BoundOf(Here) \in Word
  BY <1>1, BoundValue, BoundTypes DEF FillInv, Running, Here
<1>3. ASSUME verdict = "dense", status' = "live"
      PROVE  mode' = "dense" /\ span'.len >= limit'
  <2>1. mode = "dense" /\ status = "live"
    BY <1>1, <1>3, RunningIsToCome DEF FillInv, SpanInv, Running
  <2> QED BY <1>1, <1>2, <1>3, <2>1, ReserveLength DEF FillInv, PlaceInv
<1>4. ASSUME span'.len >= limit', idx' < limit' PROVE span'.len >= MinSpan
  <2>1. span'.len = 0 \/ span'.len >= MinSpan
    BY DEF FillInv, PlaceInv, WideEnough
  <2>2. span'.len \in Nat /\ limit' \in Int /\ limit' > 0
    BY <1>1, <1>2, <1>4, FillAssumption DEF FillInv, IInv, SpanOK, Word
  <2> QED BY <1>4, <2>1, <2>2
<1> QED BY <1>1, <1>3, <1>4, FillAssumption DEF SpanInv

(* A direct store moves nothing. *)
LEMMA FillStoreSpan ==
  ASSUME FillInv, SpanInv, FillStore
  PROVE  SpanInv'
<1>1. /\ InTurn /\ SetCell(idx, Here.val)
      /\ filled' = (Here.ahead > 0)
      /\ idx' = IF filled' THEN idx ELSE idx + 1
      /\ UNCHANGED <<script, at, verdict, looping, limit>>
  BY DEF FillStore, Here
<1>2. /\ idx \in 0 .. MaxInt /\ Here.val \in Vals /\ Here.ahead \in Nat /\ limit \in Word
      /\ idx < limit
  BY <1>1, TurnTypes
<1>3. status = "live" /\ looping
  BY <1>1 DEF InTurn, Running
<1>4. ASSUME verdict = "dense", status' = "live"
      PROVE  mode' = mode /\ span'.len = span.len
  BY <1>1, <1>2, <1>4, DirectLength DEF SetCell, FillInv, PlaceInv
<1>5. FillToCome' = FillToCome /\ Here' = Here
  BY <1>1 DEF FillToCome, Here
<1>6. Here.ahead > 0 => idx' = idx
  BY <1>1
<1>7. idx' \in {idx, idx + 1}
  BY <1>1
<1> QED BY <1>1, <1>2, <1>3, <1>4, <1>5, <1>6, <1>7 DEF SpanInv

(* No store ahead is past the horizon, and each makes the next one near. *)
LEMMA AheadStoreSpan ==
  ASSUME FillInv, SpanInv, Near(script), AheadStore
  PROVE  SpanInv'
<1>1. /\ InTurn /\ filled /\ SetAt(idx + Here.ahead, Other)
      /\ idx' = idx + 1
      /\ UNCHANGED <<script, at, verdict, looping, limit>>
  BY DEF AheadStore, Here
<1>2. /\ idx \in 0 .. MaxInt /\ idx >= Start /\ idx < limit /\ limit \in Word
      /\ Start \in Nat /\ idx + Here.ahead \in 0 .. MaxInt /\ Here.ahead \in Nat
  BY <1>1, TurnTypes
<1>3. /\ status = "live" /\ looping /\ at <= Len(script) /\ Here.op = "fill"
      /\ Running("fill") /\ limit \in Bounds(Here) /\ Here.ahead > 0
  BY <1>1 DEF InTurn, Running, Here, FillInv, LoopInv, Looping
<1>4. FillToCome' = FillToCome /\ Here' = Here
  BY <1>1 DEF FillToCome, Here
<1>5. ASSUME verdict = "dense", status' = "live"
      PROVE  mode' = "dense" /\ span'.len >= span.len /\ span'.len > idx + Here.ahead
  <2>1. mode = "dense"
    BY <1>3, <1>5, RunningIsToCome DEF SpanInv, FillInv
  <2>2. span.len \in Nat /\ SparseThreshold \in Nat /\ MinSpan \in Nat
    BY SizeAssumption DEF FillInv, IInv, SpanOK
  <2>3. span.len >= limit /\ span.len >= MinSpan
    BY <1>2, <1>3, <1>5 DEF SpanInv
  <2>4. idx + Here.ahead <= span.len + SparseThreshold
    <3>1. CASE idx = Start
      <4>1. Start + Here.ahead <= SparseThreshold + Larger(limit, MinSpan)
        BY <1>2, <1>3, <3>1, StatementTypes DEF Near, Here, FillInv
      <4>2. Larger(limit, MinSpan) <= span.len /\ Larger(limit, MinSpan) \in Int
        BY <1>2, <2>2, <2>3 DEF Larger, Word
      <4> QED BY <1>2, <2>2, <3>1, <4>1, <4>2
    <3>2. CASE idx # Start
      BY <1>2, <1>3, <1>5, <2>2, <3>2 DEF SpanInv
    <3> QED BY <3>1, <3>2
  <2>5. idx + Here.ahead <= Horizon(span)
    BY <1>2, <2>4, WithinHorizon DEF FillInv
  <2> QED BY <1>1, <1>2, <1>5, <2>1, <2>5, SetAtLength, FillAssumption DEF FillInv, PlaceInv
<1>6. SpanOK(span') /\ SpanOK(span)
  <2>1. IInv'
    BY <1>1, <1>2, SetAtReads, FillAssumption DEF FillInv
  <2> QED BY <2>1 DEF FillInv, IInv
<1>7. span.len \in Nat /\ span'.len \in Nat /\ MinSpan \in Nat
  BY <1>6, SizeAssumption DEF SpanOK
<1> QED BY <1>1, <1>2, <1>3, <1>4, <1>5, <1>7 DEF SpanInv, Word

(* One step of a program of that kind. *)
LEMMA SpanStep ==
  ASSUME FillInv, FillInv', SpanInv, Buffered(span) \/ AllocFails,
         \A p \in Scripts : Near(p), [FNext]_fvars
  PROVE  SpanInv'
<1>1. Near(script)
  BY DEF FillInv, PlaceInv
<1>2. CASE Analyze
  <2>1. status' = "null"
    BY <1>2 DEF Analyze, table, FillInv, PlaceInv
  <2> QED BY <2>1 DEF SpanInv
<1>3. CASE Construct
  BY <1>3 DEF Construct, New, fill, SpanInv, FillInv, PlaceInv
<1>4. CASE LeaveLoop
  <2>1. /\ UNCHANGED <<status, mode, span, script, verdict>> /\ ~looping'
        /\ at' = at + 1 /\ at \in Nat
    BY <1>4 DEF LeaveLoop, table, FillInv, PlaceInv
  <2>2. DOMAIN script \subseteq Nat
    BY FillAssumption DEF FillInv, PlaceInv
  <2>3. FillToCome' => FillToCome
    BY <2>1, <2>2 DEF FillToCome
  <2> QED BY <2>1, <2>3 DEF SpanInv
<1>5. CASE UNCHANGED fvars
  <2>1. /\ UNCHANGED <<status, mode, span>>
        /\ UNCHANGED <<script, at, verdict, looping, idx, limit>>
    BY <1>5 DEF fvars, table, fill
  <2> QED BY <2>1 DEF SpanInv, FillToCome, Here
<1> QED BY <1>1, <1>2, <1>3, <1>4, <1>5, StoreSpan, EnterSpan, FillStoreSpan, AheadStoreSpan
        DEF FNext

(* It holds of every reachable state of a program of that kind. *)
LEMMA SpanHolds ==
  ASSUME \A p \in Scripts : Near(p)
  PROVE  FSpec => []SpanInv
<1>1. FInit => SpanInv
  BY DEF FInit, Init, SpanInv
<1>2. FillInv /\ FillInv' /\ SpanInv /\ (Buffered(span) \/ AllocFails) /\ [FNext]_fvars => SpanInv'
  BY SpanStep
<1> QED BY <1>1, <1>2, FillHolds, PTL DEF FSpec

(* Inside a loop the compiler stores into directly, the span covers the bound *)
(* that was reserved before it, whatever else the body stores and the         *)
(* allocator refuses.                                                       *)
THEOREM LoopsStayReserved ==
  ASSUME \A p \in Scripts : Near(p)
  PROVE  FSpec => []ReservedForLoop
<1>1. SpanInv => ReservedForLoop
  BY DEF SpanInv, ReservedForLoop
<1> QED BY <1>1, SpanHolds, PTL

(* A store the compiler makes without a check falls on a cell of the span. *)
THEOREM FastStoresInSpan ==
  ASSUME \A p \in Scripts : Near(p), ~AllocFails
  PROVE  FSpec => []FastStoreInSpan
<1>1. ASSUME FillInv, Buffered(span), SpanInv, InTurn, verdict = "dense"
      PROVE  InSpan(idx)
  <2>1. /\ idx \in 0 .. MaxInt /\ idx < limit /\ limit \in Word
        /\ status = "live" /\ looping /\ Running("fill")
    BY <1>1, TurnTypes DEF InTurn, Running
  <2>2. mode = "dense"
    BY <1>1, <2>1, RunningIsToCome DEF SpanInv, FillInv
  <2>3. span.len >= limit /\ span.len \in Nat
    BY <1>1, <2>1 DEF SpanInv, FillInv, IInv, SpanOK
  <2>4. idx < span.len /\ span.len # 0
    BY <2>1, <2>3 DEF Word
  <2> QED BY <1>1, <2>1, <2>2, <2>4 DEF Buffered, InSpan
<1>2. FillInv /\ (Buffered(span) \/ AllocFails) /\ SpanInv => FastStoreInSpan
  BY <1>1 DEF FastStoreInSpan
<1> QED BY <1>2, FillHolds, SpanHolds, PTL
=============================================================================
