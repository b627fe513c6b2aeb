---------------------------- MODULE GlmTableProofs ----------------------------
(***************************************************************************)
(* Theorems about one runtime table, for every word size, threshold, page   *)
(* and element size, and whatever the allocator refuses.                    *)
(***************************************************************************)
EXTENDS GlmTable, WellFoundedInduction, TLAPS

Word == -(MaxInt + 1) .. MaxInt
AnyVal == Vals \cup {Garbage}

(* What the header says of its buffer agrees with what backs it. *)
Backed(s) ==
  /\ s.kind = "null" => s.reserve = 0 /\ s.bytes = 0 /\ s.commit = 0
  /\ s.kind = "heap" => s.reserve = 0 /\ s.bytes = s.len * ESize /\ s.commit = s.bytes
  /\ s.kind = "vm" => s.reserve = s.bytes /\ s.reserve \in Powers /\ s.reserve >= ReserveFloor

(* A buffer covers its span and every cell of it was written or zeroed. *)
Covers(s) ==
  s.kind # "null" => /\ s.len * ESize <= s.commit
                     /\ s.commit <= s.bytes
                     /\ s.cell \in [0 .. s.len - 1 -> Vals]

SpanOK(s) ==
  /\ s = [len |-> s.len, reserve |-> s.reserve, kind |-> s.kind,
          bytes |-> s.bytes, commit |-> s.commit, cell |-> s.cell]
  /\ s.len \in 0 .. MaxInt
  /\ s.reserve \in 0 .. UMax
  /\ s.kind \in {"null", "heap", "vm"}
  /\ s.bytes \in 0 .. UMax
  /\ s.commit \in Nat
  /\ s.cell \in [0 .. s.len - 1 -> AnyVal]
  /\ Backed(s)
  /\ Covers(s)

(* The inductive invariant. *)
IInv ==
  /\ status \in {"null", "live", "freed", "dead"}
  /\ mode \in {"dense", "sparse"}
  /\ SpanOK(span)
  /\ map = [i \in DOMAIN map |-> map[i]]
  /\ DOMAIN map \subseteq 0 .. MaxInt
  /\ \A i \in DOMAIN map : map[i] \in Vals
  /\ out \in AnyVal
  /\ mode = "sparse" => span = NoSpan
  /\ mode = "dense" => map = EmptyMap
-----------------------------------------------------------------------------
(* Arithmetic of pages and reservations. *)

(* round_up_page never rounds down. *)
LEMMA RoundUp ==
  ASSUME NEW n \in Nat
  PROVE  /\ RoundUpPage(n) \in Nat
         /\ n <= RoundUpPage(n)
<1> DEFINE q == (n + Page - 1) \div Page
<1>1. Page \in Nat /\ Page > 0
  BY SizeAssumption
<1>2. q \in Nat /\ q * Page <= n + Page - 1 /\ n + Page - 1 < (q + 1) * Page
  BY <1>1
<1>3. (q + 1) * Page = q * Page + Page
  BY <1>1, <1>2
<1>4. q * Page \in Nat
  BY <1>1, <1>2
<1> QED BY <1>1, <1>2, <1>3, <1>4 DEF RoundUpPage

(* Rounding up stops at any bound that is itself a whole number of pages. *)
LEMMA RoundUpWithin ==
  ASSUME NEW n \in Nat, NEW k \in Nat, n <= k * Page
  PROVE  RoundUpPage(n) <= k * Page
<1> DEFINE q == (n + Page - 1) \div Page
<1>1. Page \in Nat /\ Page > 0
  BY SizeAssumption
<1>2. q \in Nat /\ q * Page <= n + Page - 1
  BY <1>1
<1>3. q <= k
  <2> SUFFICES ASSUME q >= k + 1 PROVE FALSE
    BY <1>2
  <2>1. q * Page >= (k + 1) * Page
    BY <1>1, <1>2
  <2>2. (k + 1) * Page = k * Page + Page
    BY <1>1
  <2>3. q * Page \in Nat /\ k * Page \in Nat
    BY <1>1, <1>2
  <2> QED BY <1>1, <1>2, <2>1, <2>2, <2>3
<1> QED BY <1>1, <1>2, <1>3 DEF RoundUpPage

(* A commit inside a reservation, rounded to pages, stays inside it. *)
LEMMA ReserveIsWhole ==
  ASSUME NEW n \in Nat, NEW r \in Powers, r >= ReserveFloor, n <= r
  PROVE  RoundUpPage(n) <= r
<1>1. PICK k \in 0 .. UMax : r = k * Page
  BY PowersAssumption
<1> QED BY <1>1, RoundUpWithin, SizeAssumption DEF UMax

(* The length span_grow picks covers the request and fits an i64, wrap included. *)
LEMMA NewLenBounds ==
  ASSUME NEW s, s.len \in 0 .. MaxInt, NEW want \in Word, want > s.len
  PROVE  /\ NewLen(s, want) \in 1 .. MaxInt
         /\ NewLen(s, want) >= want
         /\ NewLen(s, want) > s.len
         /\ NewLen(s, want) * ESize \in Nat
<1>1. WrapDouble(s.len) \in Int /\ WrapDouble(s.len) <= MaxInt
  BY SizeAssumption DEF WrapDouble, UMax
<1>2. NewLen(s, want) \in 1 .. MaxInt /\ NewLen(s, want) >= want
  BY <1>1, SizeAssumption DEF NewLen, Larger, Word
<1> QED BY <1>2, SizeAssumption DEF Word

(* Extending the cells keeps the old ones and fills the rest. *)
LEMMA ExtendedCells ==
  ASSUME NEW s, s.len \in Nat, NEW n \in Nat, n >= s.len,
         NEW S, s.cell \in [0 .. s.len - 1 -> S], NEW fill
  PROVE  /\ Extended(s, n, fill) \in [0 .. n - 1 -> S \cup {fill}]
         /\ \A i \in 0 .. s.len - 1 : Extended(s, n, fill)[i] = s.cell[i]
         /\ \A i \in s.len .. n - 1 : Extended(s, n, fill)[i] = fill
BY DEF Extended

-----------------------------------------------------------------------------
(* What span_grow returns: a span that covers the request, with the old     *)
(* cells in place and zeros behind them.                                    *)
LEMMA VmSpanOK ==
  ASSUME NEW n \in 1 .. MaxInt, NEW r \in Powers, r >= ReserveFloor,
         n * ESize <= r, NEW c \in [0 .. n - 1 -> Vals]
  PROVE  SpanOK(VmSpan(n, r, c))
<1>1. n * ESize \in Nat
  BY SizeAssumption
<1>2. RoundUpPage(n * ESize) \in Nat /\ n * ESize <= RoundUpPage(n * ESize)
  BY <1>1, RoundUp
<1>3. RoundUpPage(n * ESize) <= r
  BY <1>1, ReserveIsWhole
<1>4. r \in 0 .. UMax
  BY PowersAssumption, SizeAssumption DEF UMax
<1> QED BY <1>1, <1>2, <1>3, <1>4 DEF SpanOK, VmSpan, Backed, Covers, AnyVal

(* A buffer of the allocator, sized by its length, is well formed. *)
LEMMA HeapSpanOK ==
  ASSUME NEW n \in 1 .. MaxInt, LayoutOK(n), NEW c \in [0 .. n - 1 -> Vals]
  PROVE  SpanOK(HeapSpan(n, c))
<1>1. n * ESize \in Nat /\ n * ESize <= MaxInt
  BY SizeAssumption DEF LayoutOK
<1> QED BY <1>1, SizeAssumption DEF SpanOK, HeapSpan, Backed, Covers, AnyVal, UMax

Keeps(s, r) ==
  /\ \A i \in 0 .. s.len - 1 : r.cell[i] = s.cell[i]
  /\ \A i \in s.len .. r.len - 1 : r.cell[i] = Zero
Buffered(s) == s.kind # "null" \/ s.len = 0

(* Every result of span_grow is well formed, covers the request, keeps the
   old cells and shows zeros behind them. *)
LEMMA GrowResult ==
  ASSUME NEW s, SpanOK(s), NEW want \in Word, NEW r \in SpanGrow(s, want)
  PROVE  /\ SpanOK(r)
         /\ r.len >= s.len
         /\ r.len >= want
         /\ s.kind = "heap" => r.kind # "null"
         /\ s.kind = "vm" => r.kind = "vm"
         /\ Buffered(s) /\ r.kind # "null" => Keeps(s, r)
         /\ Buffered(s) /\ ~AllocFails => Buffered(r)
<1> DEFINE n == NewLen(s, want)
<1>1. CASE want <= s.len
  <2>1. r = s
    BY <1>1 DEF SpanGrow, Word
  <2> QED BY <2>1, <1>1 DEF Keeps, SpanOK, Word
<1>2. CASE want > s.len
  <2>1. /\ s.len \in 0 .. MaxInt /\ n \in 1 .. MaxInt /\ n >= want /\ n > s.len
        /\ n * ESize \in Nat
    BY <1>2, NewLenBounds DEF SpanOK
  <2>2. CASE s.reserve # 0
    <3>1. s.kind = "vm"
      BY <2>2 DEF SpanOK, Backed
    <3>2. PICK p \in Powers : /\ p >= ReserveFloor /\ p >= n * ESize
                              /\ r = VmSpan(n, p, Extended(s, n, Zero))
      <4>1. r \in GrowVm(s, n)
        BY <1>2, <2>1, <2>2 DEF SpanGrow, Word
      <4>2. CASE n * ESize > s.reserve
        BY <4>1, <4>2 DEF GrowVm, ReserveFor, Fits
      <4>3. CASE ~(n * ESize > s.reserve)
        BY <4>1, <4>3, <3>1, <2>1 DEF GrowVm, SpanOK, Backed
      <4> QED BY <4>2, <4>3
    <3>3. s.cell \in [0 .. s.len - 1 -> Vals]
      BY <3>1 DEF SpanOK, Covers
    <3>4. /\ Extended(s, n, Zero) \in [0 .. n - 1 -> Vals]
          /\ \A i \in 0 .. s.len - 1 : Extended(s, n, Zero)[i] = s.cell[i]
          /\ \A i \in s.len .. n - 1 : Extended(s, n, Zero)[i] = Zero
      BY <3>3, <2>1, ValueAssumption DEF Extended
    <3>5. SpanOK(r)
      BY <3>2, <3>4, <2>1, VmSpanOK, SizeAssumption, PowersAssumption DEF UMax
    <3>6. r.len = n /\ r.kind = "vm" /\ r.cell = Extended(s, n, Zero)
      BY <3>2 DEF VmSpan
    <3> QED BY <3>1, <3>4, <3>5, <3>6, <2>1 DEF Keeps, Buffered, Word
  <2>3. CASE s.reserve = 0 /\ n * ESize >= GraduateAt /\ VmEnabled
    <3>1. s.kind # "vm"
      BY <2>3, PowersAssumption DEF SpanOK, Backed
    <3> DEFINE c == IF s.kind = "null" THEN Zeros(n) ELSE Extended(s, n, Zero)
    <3>2. PICK p \in Powers : /\ p >= ReserveFloor /\ p >= n * ESize
                              /\ r = VmSpan(n, p, c)
      BY <1>2, <2>1, <2>3 DEF SpanGrow, Graduate, ReserveFor, Fits, Word
    <3>3. r.len = n /\ r.kind = "vm" /\ r.cell = c
      BY <3>2 DEF VmSpan
    <3>4. s.kind # "null" => s.cell \in [0 .. s.len - 1 -> Vals]
      BY DEF SpanOK, Covers
    <3>5. /\ c \in [0 .. n - 1 -> Vals]
          /\ s.kind # "null" => \A i \in 0 .. s.len - 1 : c[i] = s.cell[i]
          /\ \A i \in s.len .. n - 1 : c[i] = Zero
      BY <3>4, <2>1, ValueAssumption DEF Extended, Zeros
    <3>6. SpanOK(r)
      BY <3>2, <3>5, <2>1, VmSpanOK, SizeAssumption, PowersAssumption DEF UMax
    <3> QED BY <3>1, <3>3, <3>5, <3>6, <2>1 DEF Keeps, Buffered, Word
  <2>4. CASE s.reserve = 0 /\ ~(n * ESize >= GraduateAt /\ VmEnabled)
    <3>1. s.kind # "vm" /\ LayoutOK(n) /\ r \in HeapGrow(s, n)
      BY <1>2, <2>1, <2>4, PowersAssumption DEF SpanGrow, HeapGrow, SpanOK, Backed, Word
    <3>2. CASE s.kind = "null"
      <4>1. CASE r = HeapSpan(n, Zeros(n))
        <5>1. SpanOK(r)
          BY <4>1, <3>1, <2>1, HeapSpanOK, ValueAssumption DEF Zeros
        <5> QED BY <5>1, <4>1, <3>2, <2>1 DEF HeapSpan, Zeros, Keeps, Buffered, Word
      <4>2. CASE /\ AllocFails
                 /\ r = [NoSpan EXCEPT !.len = n, !.cell = [i \in 0 .. n - 1 |-> Garbage]]
        <5>1. /\ r.len = n /\ r.kind = "null" /\ r.reserve = 0 /\ r.bytes = 0
              /\ r.commit = 0 /\ r.cell = [i \in 0 .. n - 1 |-> Garbage]
              /\ r = [len |-> r.len, reserve |-> r.reserve, kind |-> r.kind,
                      bytes |-> r.bytes, commit |-> r.commit, cell |-> r.cell]
          BY <4>2 DEF NoSpan
        <5>2. SpanOK(r)
          <6>1. r.cell \in [0 .. r.len - 1 -> AnyVal] /\ r.len \in 0 .. MaxInt
            BY <5>1, <2>1 DEF AnyVal
          <6>2. 0 \in 0 .. UMax
            BY SizeAssumption DEF UMax
          <6>3. Backed(r) /\ Covers(r)
            BY <5>1 DEF Backed, Covers
          <6> QED BY <5>1, <6>1, <6>2, <6>3 DEF SpanOK
        <5> QED BY <5>1, <5>2, <4>2, <3>2, <2>1 DEF Word
      <4> QED BY <3>1, <3>2, <4>1, <4>2 DEF HeapGrow
    <3>3. CASE s.kind = "heap"
      <4> DEFINE c == ZeroTail(s, n, Extended(s, n, Garbage))
      <4>1. r = HeapSpan(n, c)
        BY <3>1, <3>3 DEF HeapGrow
      <4>2. s.cell \in [0 .. s.len - 1 -> Vals]
        BY <3>3 DEF SpanOK, Covers
      <4>3. /\ c \in [0 .. n - 1 -> Vals]
            /\ \A i \in 0 .. s.len - 1 : c[i] = s.cell[i]
            /\ \A i \in s.len .. n - 1 : c[i] = Zero
        BY <4>2, <2>1, ValueAssumption DEF Extended, ZeroTail
      <4>4. SpanOK(r)
        BY <4>1, <4>3, <3>1, <2>1, HeapSpanOK
      <4>5. r.len = n /\ r.kind = "heap" /\ r.cell = c
        BY <4>1 DEF HeapSpan
      <4> QED BY <3>3, <4>3, <4>4, <4>5, <2>1 DEF Keeps, Buffered, Word
    <3> QED BY <3>1, <3>2, <3>3 DEF SpanOK
  <2> QED BY <2>2, <2>3, <2>4
<1> QED BY <1>1, <1>2 DEF SpanOK, Word

-----------------------------------------------------------------------------
(* A store into a span it fits keeps the span well formed. *)
LEMMA StoreOK ==
  ASSUME NEW s, SpanOK(s), s.kind # "null", NEW i \in 0 .. s.len - 1, NEW v \in Vals
  PROVE  LET r == [s EXCEPT !.cell[i] = v]
         IN /\ SpanOK(r)
            /\ r.len = s.len /\ r.kind = s.kind
            /\ r.cell = [s.cell EXCEPT ![i] = v]
<1> DEFINE r == [s EXCEPT !.cell[i] = v]
<1>1. /\ s.cell \in [0 .. s.len - 1 -> Vals]
      /\ s = [len |-> s.len, reserve |-> s.reserve, kind |-> s.kind,
              bytes |-> s.bytes, commit |-> s.commit, cell |-> s.cell]
  BY DEF SpanOK, Covers
<1>2. r = [len |-> s.len, reserve |-> s.reserve, kind |-> s.kind, bytes |-> s.bytes,
           commit |-> s.commit, cell |-> [s.cell EXCEPT ![i] = v]]
  BY <1>1
<1>3. [s.cell EXCEPT ![i] = v] \in [0 .. s.len - 1 -> Vals]
  BY <1>1
<1>4. /\ r.len = s.len /\ r.reserve = s.reserve /\ r.kind = s.kind /\ r.bytes = s.bytes
      /\ r.commit = s.commit /\ r.cell = [s.cell EXCEPT ![i] = v]
  BY <1>2
<1>5. SpanOK(r)
  BY <1>2, <1>3, <1>4 DEF SpanOK, Backed, Covers, AnyVal
<1> QED BY <1>4, <1>5

(* The empty buffer is well formed. *)
LEMMA NoSpanOK == SpanOK(NoSpan)
<1>1. NoSpan.cell \in [0 .. NoSpan.len - 1 -> AnyVal]
  BY DEF NoSpan
<1> QED BY <1>1, SizeAssumption DEF SpanOK, NoSpan, Backed, Covers, UMax

(* The keys of a program are machine words, and so are their successors. *)
LEMMA KeysAreWords == /\ Keys \subseteq Word
                      /\ \A i \in Word : WrapSucc(i) \in Word
                      /\ \A i \in Word : i >= 0 /\ WrapSucc(i) >= 0 => WrapSucc(i) = i + 1
BY ValueAssumption, SizeAssumption DEF Word, WrapSucc

(* Inserting a nonnegative key into the map keeps its type. *)
LEMMA InsertOK ==
  ASSUME NEW m, DOMAIN m \subseteq 0 .. MaxInt, \A j \in DOMAIN m : m[j] \in Vals,
         NEW i \in 0 .. MaxInt, NEW v \in Vals
  PROVE  /\ Insert(m, i, v) = [j \in DOMAIN Insert(m, i, v) |-> Insert(m, i, v)[j]]
         /\ DOMAIN Insert(m, i, v) \subseteq 0 .. MaxInt
         /\ \A j \in DOMAIN Insert(m, i, v) : Insert(m, i, v)[j] \in Vals
BY DEF Insert

(* The growth a dense store needs really covers the index stored to. *)
LEMMA GrowCoversIndex ==
  ASSUME SpanOK(span), NEW i \in Word, i >= 0,
         NEW s \in SpanGrow(span, WrapSucc(i))
  PROVE  SpanOK(s) /\ i \in 0 .. s.len - 1
<1>1. WrapSucc(i) \in Word
  BY KeysAreWords
<1>2. SpanOK(s) /\ s.len >= WrapSucc(i)
  BY <1>1, GrowResult
<1>3. WrapSucc(i) >= 0
  BY <1>1 DEF SpanGrow, Word
<1> QED BY <1>2, <1>3, KeysAreWords DEF SpanOK, Word

-----------------------------------------------------------------------------
(* The invariant. *)
LEMMA InitInv == Init => IInv
BY NoSpanOK, ValueAssumption DEF Init, IInv, EmptyMap, AnyVal

(* A fresh table is well formed. *)
LEMMA NewKeeps ==
  ASSUME IInv, NEW sparse \in BOOLEAN, New(sparse)
  PROVE  IInv'
<1> USE DEF IInv
<1>1. SpanOK(span')
  BY NoSpanOK DEF New
<1>2. mode' = "sparse" => span' = NoSpan
  BY DEF New
<1> QED BY <1>1, <1>2 DEF New, EmptyMap

(* A store into the map keeps the invariant, a negative key included. *)
LEMMA SetSparseKeeps ==
  ASSUME IInv, NEW i \in Word, NEW v \in Vals, SetSparse(i, v)
  PROVE  IInv'
<1> USE DEF IInv
<1>1. CASE i < 0
  BY <1>1 DEF SetSparse
<1>2. CASE i >= 0
  <2>1. map' = Insert(map, i, v) /\ i \in 0 .. MaxInt
    BY <1>2 DEF SetSparse, Word
  <2> QED BY <2>1, InsertOK DEF SetSparse
<1> QED BY <1>1, <1>2 DEF Word

(* So does the store that moves the span into a map. *)
LEMMA SetUpgradeKeeps ==
  ASSUME IInv, NEW i \in Word, NEW v \in Vals, SetUpgrade(i, v)
  PROVE  IInv'
<1> USE DEF IInv
<1>1. CASE Die
  BY <1>1 DEF Die
<1>2. CASE ~Die
  <2>1. i \in 0 .. MaxInt
    BY SizeAssumption DEF SetUpgrade, Horizon, SpanOK, Word
  <2>2. \A j \in 0 .. span.len - 1 : span.cell[j] \in Vals
    BY <1>2 DEF SetUpgrade, SpanOK, Covers
  <2>3. /\ DOMAIN MapOfSpan(span) \subseteq 0 .. MaxInt
        /\ \A j \in DOMAIN MapOfSpan(span) : MapOfSpan(span)[j] \in Vals
    BY <2>2, SizeAssumption DEF MapOfSpan, SpanOK
  <2>4. map' = Insert(MapOfSpan(span), i, v)
    BY <1>2 DEF SetUpgrade
  <2>5. /\ map' = [j \in DOMAIN map' |-> map'[j]]
        /\ DOMAIN map' \subseteq 0 .. MaxInt
        /\ \A j \in DOMAIN map' : map'[j] \in Vals
    <3> DEFINE m == MapOfSpan(span)
    <3>1. DOMAIN m \subseteq 0 .. MaxInt /\ \A j \in DOMAIN m : m[j] \in Vals
      BY <2>3
    <3>2. map' = Insert(m, i, v)
      BY <2>4
    <3> HIDE DEF m
    <3> QED BY ONLY <2>1, <3>1, <3>2, InsertOK, v \in Vals
  <2>6. span' = NoSpan /\ SpanOK(span') /\ UNCHANGED <<status, out>> /\ mode' = "sparse"
    BY <1>2, NoSpanOK DEF SetUpgrade
  <2> QED BY <2>5, <2>6
<1> QED BY <1>1, <1>2

(* And the store that grows the span to cover its index. *)
LEMMA SetDenseKeeps ==
  ASSUME IInv, NEW i \in Word, NEW v \in Vals, SetDense(i, v)
  PROVE  IInv'
<1> USE DEF IInv
<1>1. CASE Die
  BY <1>1 DEF Die
<1>2. CASE ~Die
  <2>1. PICK s \in SpanGrow(span, WrapSucc(i)) :
           /\ s.kind # "null"
           /\ span' = [s EXCEPT !.cell[i] = v]
           /\ UNCHANGED <<status, mode, map, out>>
    BY <1>2 DEF SetDense
  <2>2. SpanOK(s) /\ i \in 0 .. s.len - 1
    BY GrowCoversIndex DEF SetDense
  <2>3. SpanOK(span')
    BY <2>1, <2>2, StoreOK
  <2> QED BY <2>1, <2>3 DEF SetDense
<1> QED BY <1>1, <1>2

(* And a growth of a dense table as the whole effect of an entry point. *)
LEMMA WidenKeeps ==
  ASSUME IInv, NEW w \in Word, status = "live", mode = "dense", Widen(w)
  PROVE  IInv'
<1> USE DEF IInv
<1>1. CASE Die
  BY <1>1 DEF Die
<1>2. CASE ~Die
  BY <1>2, GrowResult DEF Widen
<1> QED BY <1>1, <1>2

(* Every step of the runtime keeps the invariant: one case per entry point. *)
LEMMA NextInv == IInv /\ [Next]_vars => IInv'
<1> SUFFICES ASSUME IInv, [Next]_vars PROVE IInv'
  OBVIOUS
<1>1. ASSUME NEW sparse \in BOOLEAN, New(sparse) PROVE IInv'
  BY <1>1, NewKeeps
<1>2. ASSUME NEW i \in Keys, NEW v \in Vals, SetSparse(i, v) PROVE IInv'
  BY <1>2, KeysAreWords, SetSparseKeeps
<1>3. ASSUME NEW i \in Keys, NEW v \in Vals, SetUpgrade(i, v) PROVE IInv'
  BY <1>3, KeysAreWords, SetUpgradeKeeps
<1>4. ASSUME NEW i \in Keys, NEW v \in Vals, SetDense(i, v) PROVE IInv'
  BY <1>4, KeysAreWords, SetDenseKeeps
<1> USE DEF IInv
<1>5. ASSUME NEW i \in Keys, SetNothing(i) PROVE IInv'
  BY <1>5 DEF SetNothing, vars
<1>6. ASSUME NEW i \in Keys, Get(i) PROVE IInv'
  <2>1. Lookup(i) \in AnyVal
    BY ValueAssumption DEF Lookup, SpanOK, AnyVal
  <2> QED BY <1>6, <2>1 DEF Get, Die
<1>7. ASSUME NEW w \in Word, status = "live", mode = "dense", Widen(w) PROVE IInv'
  BY <1>7, WidenKeeps
<1>8. ASSUME NEW i \in Keys, Grow(i) PROVE IInv'
  BY <1>8, <1>7, KeysAreWords DEF Grow, Die, vars
<1>9. ASSUME NEW i \in Keys, Reserve(i) PROVE IInv'
  BY <1>9, <1>7, KeysAreWords DEF Reserve, Die, vars
<1>10. CASE GetNull
  BY <1>10 DEF GetNull, AnyVal
<1>11. CASE Free
  BY <1>11, NoSpanOK DEF Free, EmptyMap
<1>12. CASE UNCHANGED vars
  BY <1>12 DEF vars
<1> QED BY <1>1, <1>2, <1>3, <1>4, <1>5, <1>6, <1>8, <1>9, <1>10, <1>11, <1>12 DEF Next

(* The inductive invariant holds of every reachable table: the header and
   what backs its buffer agree after every entry point of the runtime. *)
THEOREM TableInvariant == Spec => []IInv
BY InitInv, NextInv, PTL DEF Spec

(* The variables keep their types, whatever the allocator refuses. *)
THEOREM TypeCorrect == Spec => []TypeOK
<1>1. IInv => TypeOK
  BY DEF IInv, TypeOK, SpanOK, AnyVal
<1> QED BY <1>1, TableInvariant, PTL

(* The call that releases the buffer always fits the buffer: the layout of   *)
(* the allocation, or the whole reservation, whatever path the table took    *)
(* there and whatever the allocator refused on the way.                      *)
THEOREM ReleaseAlwaysFits == Spec => []ReleaseFits
<1>1. IInv => ReleaseFits
  BY SizeAssumption DEF IInv, ReleaseFits, SpanOK, Backed
<1> QED BY <1>1, TableInvariant, PTL

(* A buffer only moves forward, from nothing to the allocator, to a          *)
(* reservation, to a map, whatever the allocator refuses.                    *)
THEOREM BackingAdvances == Spec => BackingOnlyAdvances
<1>1. ASSUME IInv, [Next]_vars, status = "live", status' = "live"
      PROVE  Stage' >= Stage
  <2> USE DEF Stage
  <2>1. ASSUME NEW sparse \in BOOLEAN, New(sparse) PROVE FALSE
    BY <1>1, <2>1 DEF New
  <2>2. ASSUME NEW i \in Keys, NEW v \in Vals, SetSparse(i, v) PROVE Stage' >= Stage
    BY <2>2 DEF SetSparse
  <2>3. ASSUME NEW i \in Keys, NEW v \in Vals, SetUpgrade(i, v) PROVE Stage' >= Stage
    BY <1>1, <2>3 DEF SetUpgrade, Die
  <2>4. ASSUME NEW w \in Word, NEW s \in SpanGrow(span, w), span'.kind = s.kind, mode' = mode
        PROVE  Stage' >= Stage
    BY <1>1, <2>4, GrowResult DEF IInv, SpanOK
  <2>5. ASSUME NEW i \in Keys, NEW v \in Vals, SetDense(i, v) PROVE Stage' >= Stage
    <3>1. PICK s \in SpanGrow(span, WrapSucc(i)) :
            s.kind # "null" /\ span' = [s EXCEPT !.cell[i] = v] /\ mode' = mode
      BY <1>1, <2>5 DEF SetDense, Die
    <3>2. SpanOK(s) /\ i \in 0 .. s.len - 1
      BY <1>1, <2>5, KeysAreWords, GrowCoversIndex DEF SetDense, IInv
    <3> QED BY <3>1, <3>2, <2>4, StoreOK, KeysAreWords
  <2>6. ASSUME NEW w \in Word, Widen(w) PROVE Stage' >= Stage
    BY <1>1, <2>4, <2>6 DEF Widen, Die
  <2>7. ASSUME NEW i \in Keys, SetNothing(i) \/ Get(i) \/ Grow(i) \/ Reserve(i)
        PROVE  Stage' >= Stage
    BY <1>1, <2>6, <2>7, KeysAreWords DEF SetNothing, Get, Grow, Reserve, Die, vars
  <2>8. CASE GetNull \/ Free \/ UNCHANGED vars
    BY <1>1, <2>8 DEF GetNull, Free, vars
  <2> QED BY <1>1, <2>1, <2>2, <2>3, <2>5, <2>7, <2>8 DEF Next
<1> QED BY <1>1, TableInvariant, PTL DEF Spec, BackingOnlyAdvances

-----------------------------------------------------------------------------
(* With an allocator that never refuses, a nonempty span always has a buffer. *)
LEMMA AlwaysBuffered ==
  ASSUME ~AllocFails
  PROVE  Spec => []Buffered(span)
<1>1. Init => Buffered(span)
  BY DEF Init, Buffered, NoSpan
<1>2. IInv /\ Buffered(span) /\ [Next]_vars => Buffered(span)'
  <2> SUFFICES ASSUME IInv, Buffered(span), [Next]_vars PROVE Buffered(span')
    OBVIOUS
  <2>1. Buffered(NoSpan)
    BY DEF Buffered, NoSpan
  <2>2. ASSUME NEW w \in Word, Widen(w) PROVE Buffered(span')
    BY <2>2, GrowResult DEF Widen, Die, IInv
  <2>3. ASSUME NEW i \in Keys, NEW v \in Vals, SetDense(i, v) PROVE Buffered(span')
    <3>1. CASE Die
      BY <3>1 DEF Die
    <3>2. CASE ~Die
      <4>1. PICK s \in SpanGrow(span, WrapSucc(i)) :
              s.kind # "null" /\ span' = [s EXCEPT !.cell[i] = v]
        BY <2>3, <3>2 DEF SetDense
      <4>2. SpanOK(s) /\ i \in 0 .. s.len - 1
        BY <2>3, KeysAreWords, GrowCoversIndex DEF SetDense, IInv
      <4> QED BY <4>1, <4>2, StoreOK DEF Buffered
    <3> QED BY <3>1, <3>2
  <2> QED BY <2>1, <2>2, <2>3, KeysAreWords
          DEF Next, New, SetSparse, SetUpgrade, SetNothing, Get, Grow, Reserve,
              GetNull, Free, Die, vars
<1> QED BY <1>1, <1>2, TableInvariant, PTL DEF Spec

(* Every cell below len lies in committed memory and inside its reservation: *)
(* no dense read or write of the runtime leaves the buffer.                  *)
THEOREM SpanAlwaysAddressable ==
  ASSUME ~AllocFails
  PROVE  Spec => []SpanAddressable
<1>1. IInv /\ Buffered(span) => SpanAddressable
  BY SizeAssumption DEF IInv, SpanOK, Backed, Covers, Buffered, SpanAddressable
<1> QED BY <1>1, TableInvariant, AlwaysBuffered, PTL

(* No cell ever shows memory that was neither stored to nor zeroed. *)
THEOREM CellsAlwaysInitialised ==
  ASSUME ~AllocFails
  PROVE  Spec => []NoUninitialisedCell
<1>1. IInv /\ Buffered(span) => NoUninitialisedCell
  BY DEF IInv, SpanOK, Covers, Buffered, NoUninitialisedCell
<1> QED BY <1>1, TableInvariant, AlwaysBuffered, PTL
-----------------------------------------------------------------------------
(* What the paths of a store leave to be read. *)

(* A table that was stored to has a buffer or a map. *)
Solid == mode = "sparse" \/ span.kind # "null"

(* The value at its index, and nothing else. *)
Wrote(i, v) ==
  /\ Lookup(i)' = v
  /\ \A j \in 0 .. MaxInt : j # i => Lookup(j)' = Lookup(j)

(* The path through the map. *)
LEMMA SparseReads ==
  ASSUME IInv, NEW i \in 0 .. MaxInt, NEW v \in Vals, SetSparse(i, v)
  PROVE  Wrote(i, v) /\ Solid'
<1>1. map' = Insert(map, i, v) /\ mode = "sparse" /\ mode' = "sparse"
  BY SizeAssumption DEF SetSparse
<1> QED BY <1>1 DEF Wrote, Lookup, Insert, Solid

(* The path that moves the span into a map. *)
LEMMA UpgradeReads ==
  ASSUME IInv, NEW i \in 0 .. MaxInt, NEW v \in Vals, SetUpgrade(i, v), status' # "dead"
  PROVE  Wrote(i, v) /\ Solid'
<1>1. map' = Insert(MapOfSpan(span), i, v) /\ mode = "dense" /\ mode' = "sparse"
  BY DEF SetUpgrade, Die
<1>2. span.len \in Nat
  BY DEF IInv, SpanOK
<1>3. DOMAIN map' = (0 .. span.len - 1) \cup {i}
  BY <1>1 DEF Insert, MapOfSpan
<1>4. \A j \in DOMAIN map' : map'[j] = IF j = i THEN v ELSE span.cell[j]
  BY <1>1, <1>3 DEF Insert, MapOfSpan
<1> QED BY <1>1, <1>2, <1>3, <1>4, SizeAssumption DEF Wrote, Lookup, Solid

(* A buffer that grew, before the store, shows what it showed. *)
LEMMA GrownReads ==
  ASSUME IInv, mode = "dense", NEW w \in Word, NEW s \in SpanGrow(span, w),
         Buffered(span), s.kind # "null", NEW j \in 0 .. MaxInt
  PROVE  (IF j < s.len THEN s.cell[j] ELSE Zero) = Lookup(j)
<1>1. SpanOK(s) /\ s.len >= span.len /\ Keeps(span, s)
  BY GrowResult DEF IInv
<1>2. s.len \in Nat /\ span.len \in Nat /\ MaxInt \in Nat
  BY <1>1, SizeAssumption DEF IInv, SpanOK
<1> QED BY <1>1, <1>2 DEF Keeps, Lookup

(* The path through the span, grown to cover the index first. *)
LEMMA DenseReads ==
  ASSUME IInv, NEW i \in 0 .. MaxInt, NEW v \in Vals, SetDense(i, v), status' # "dead"
  PROVE  /\ Lookup(i)' = v
         /\ Solid'
         /\ Buffered(span) => Wrote(i, v)
<1>1. PICK s \in SpanGrow(span, WrapSucc(i)) :
         /\ s.kind # "null"
         /\ span' = [s EXCEPT !.cell[i] = v]
         /\ UNCHANGED <<status, mode, map, out>>
  BY DEF SetDense, Die
<1>2. SpanOK(s) /\ i \in 0 .. s.len - 1 /\ WrapSucc(i) \in Word /\ s.len \in Nat
  <2>1. i \in Word /\ i >= 0
    BY SizeAssumption DEF Word
  <2>2. SpanOK(s) /\ i \in 0 .. s.len - 1
    BY <2>1, GrowCoversIndex DEF IInv
  <2> QED BY <2>1, <2>2, KeysAreWords DEF SpanOK
<1>3. /\ span'.len = s.len /\ span'.kind = s.kind
      /\ span'.cell = [s.cell EXCEPT ![i] = v]
      /\ DOMAIN s.cell = 0 .. s.len - 1
  BY <1>1, <1>2, StoreOK DEF SpanOK
<1>4. mode = "dense" /\ mode' = "dense"
  BY <1>1 DEF SetDense
<1>5. Lookup(i)' = v
  BY <1>2, <1>3, <1>4 DEF Lookup
<1>6. ASSUME Buffered(span), NEW j \in 0 .. MaxInt, j # i
      PROVE  Lookup(j)' = Lookup(j)
  <2>1. (IF j < s.len THEN s.cell[j] ELSE Zero) = Lookup(j)
    BY <1>1, <1>2, <1>4, <1>6, GrownReads
  <2> QED BY <2>1, <1>2, <1>3, <1>4, <1>6, SizeAssumption DEF Lookup
<1> QED BY <1>1, <1>3, <1>5, <1>6 DEF Wrote, Solid

(* A write into a cell of the span, past the runtime. *)
LEMMA CellStored ==
  ASSUME IInv, mode = "dense", span.kind # "null", NEW i \in 0 .. span.len - 1, NEW v \in Vals,
         span' = [span EXCEPT !.cell[i] = v], UNCHANGED <<status, mode, map, out>>
  PROVE  /\ IInv' /\ Wrote(i, v) /\ Solid'
         /\ span'.len = span.len
<1>1. SpanOK(span) /\ i \in 0 .. MaxInt /\ span.len \in Nat
  BY SizeAssumption DEF IInv, SpanOK
<1>2. /\ SpanOK(span') /\ span'.len = span.len /\ span'.kind = span.kind
      /\ span'.cell = [span.cell EXCEPT ![i] = v]
      /\ DOMAIN span.cell = 0 .. span.len - 1
  BY <1>1, StoreOK DEF SpanOK
<1>3. IInv'
  BY <1>2 DEF IInv
<1>4. Lookup(i)' = v
  <2>1. mode' = "dense" /\ 0 <= i /\ i < span'.len /\ span'.cell[i] = v
    BY <1>1, <1>2
  <2> QED BY <2>1 DEF Lookup
<1>5. ASSUME NEW j \in 0 .. MaxInt, j # i PROVE Lookup(j)' = Lookup(j)
  BY <1>1, <1>2, <1>5, SizeAssumption DEF Lookup
<1> QED BY <1>2, <1>3, <1>4, <1>5 DEF Wrote, Solid

(* A reservation shows what the table showed, over a span that covers it. *)
LEMMA WidenReads ==
  ASSUME IInv, Buffered(span), ~AllocFails, status = "live", mode = "dense",
         NEW n \in Word, Widen(n)
  PROVE  /\ IInv' /\ Buffered(span)' /\ mode' = "dense"
         /\ status' \in {"live", "dead"}
         /\ \A j \in 0 .. MaxInt : Lookup(j)' = Lookup(j)
         /\ span'.len >= span.len
         /\ status' = "live" => span'.len >= n
<1>1. IInv' /\ SpanOK(span) /\ span.len \in Nat
  BY WidenKeeps DEF IInv, SpanOK
<1>2. CASE Die
  BY <1>1, <1>2 DEF Die, Lookup
<1>3. CASE ~Die
  <2>1. PICK s \in SpanGrow(span, n) : span' = s /\ UNCHANGED <<status, mode, map, out>>
    BY <1>3 DEF Widen
  <2>2. SpanOK(s) /\ s.len >= span.len /\ s.len >= n /\ Buffered(s) /\ s.len \in Nat
    BY <1>1, GrowResult DEF SpanOK
  <2>3. ASSUME NEW j \in 0 .. MaxInt PROVE Lookup(j)' = Lookup(j)
    <3>1. CASE s.kind # "null"
      <4>1. (IF j < s.len THEN s.cell[j] ELSE Zero) = Lookup(j)
        BY <3>1, GrownReads
      <4> QED BY <2>1, <4>1 DEF Lookup
    <3>2. CASE s.kind = "null"
      BY <1>1, <2>1, <2>2, <3>2 DEF Lookup, Buffered
    <3> QED BY <3>1, <3>2
  <2> QED BY <1>1, <2>1, <2>2, <2>3
<1> QED BY <1>2, <1>3

-----------------------------------------------------------------------------
(* The length of the span. *)

(* The smallest buffer span_grow makes. *)
WideEnough == span.len = 0 \/ span.len >= MinSpan

(* A buffer that grows has the length NewLen picks for it. *)
LEMMA GrowLength ==
  ASSUME NEW s, NEW want, ~(want <= s.len), NEW r \in SpanGrow(s, want)
  PROVE  r.len = NewLen(s, want)
<1> DEFINE n == NewLen(s, want)
<1>1. r \in GrowVm(s, n) \/ r \in Graduate(s, n) \/ r \in HeapGrow(s, n)
  BY DEF SpanGrow
<1> HIDE DEF n
<1>2. CASE r \in GrowVm(s, n)
  <2>1. \E p, c : r = VmSpan(n, p, c)
    BY <1>2 DEF GrowVm
  <2> QED BY <2>1 DEF VmSpan, n
<1>3. CASE r \in Graduate(s, n)
  <2>1. \E p, c : r = VmSpan(n, p, c)
    BY <1>3 DEF Graduate
  <2> QED BY <2>1 DEF VmSpan, n
<1>4. CASE r \in HeapGrow(s, n)
  <2>1. CASE \E c : r = HeapSpan(n, c)
    BY <2>1 DEF HeapSpan, n
  <2>2. CASE r = [NoSpan EXCEPT !.len = n, !.cell = [i \in 0 .. n - 1 |-> Garbage]]
    <3>1. r.len = n
      BY <2>2 DEF NoSpan
    <3> QED BY <3>1 DEF n
  <2> QED BY <1>4, <2>1, <2>2 DEF HeapGrow
<1> QED BY <1>1, <1>2, <1>3, <1>4 DEF n

(* No buffer is smaller than the smallest one. *)
LEMMA GrowWide ==
  ASSUME NEW s, SpanOK(s), s.len = 0 \/ s.len >= MinSpan, NEW want \in Word,
         NEW r \in SpanGrow(s, want)
  PROVE  r.len = 0 \/ r.len >= MinSpan
<1>1. CASE want <= s.len
  <2>1. r = s
    BY <1>1 DEF SpanGrow, Word
  <2> QED BY <2>1
<1>2. CASE ~(want <= s.len)
  <2>1. r.len = NewLen(s, want)
    BY <1>2, GrowLength
  <2>2. WrapDouble(s.len) \in Int /\ want \in Int /\ MinSpan \in Int
    <3>1. s.len \in Int /\ MaxInt \in Int /\ want \in Int /\ MinSpan \in Int
      BY SizeAssumption DEF SpanOK, Word
    <3> QED BY ONLY <3>1 DEF WrapDouble, UMax
  <2> QED BY <2>1, <2>2 DEF NewLen, Larger
<1> QED BY <1>1, <1>2

-----------------------------------------------------------------------------
(* The detailed table implements the abstract one: a proof that every step    *)
(* of GlmTable is a step of ZeroTable or leaves the abstract table alone.     *)

(* The least-number principle, from the well-foundedness of < on Nat. *)
Below == {p \in Nat \X Nat : p[1] < p[2]}

(* < on Nat is well founded. *)
LEMMA BelowWellFounded == IsWellFoundedOn(Below, Nat)
<1>1. OpToRel(<, Nat) = Below
  BY DEF OpToRel, Below
<1> QED BY NatLessThanWellFounded, <1>1

(* A nonempty set of naturals has a least element. *)
LEMMA LeastNat ==
  ASSUME NEW T \in SUBSET Nat, T # {}
  PROVE  \E x \in T : \A y \in T : x <= y
<1>1. PICK x \in T : \A y \in T : ~ (<<y, x>> \in Below)
  BY BelowWellFounded, WFMin, Zenon
<1>2. ASSUME NEW y \in T PROVE x <= y
  <2>1. <<y, x>> \notin Below
    BY <1>1
  <2>2. y < x => <<y, x>> \in Below
    BY DEF Below
  <2> QED BY <2>1, <2>2
<1> QED BY <1>1, <1>2

(* The loop of glm_tbl_len ends on the first key the map misses. *)
LEMMA FirstMissingExists ==
  ASSUME NEW m, DOMAIN m \subseteq 0 .. MaxInt
  PROVE  /\ FirstMissing(m) \in 0 .. MaxInt + 1
         /\ FirstMissing(m) \notin DOMAIN m
         /\ \A j \in 0 .. FirstMissing(m) - 1 : j \in DOMAIN m
<1> DEFINE T == {b \in 0 .. MaxInt + 1 : b \notin DOMAIN m}
<1>1. MaxInt + 1 \in T /\ T \in SUBSET Nat
  BY SizeAssumption
<1>2. PICK b \in T : \A y \in T : b <= y
  BY <1>1, LeastNat
<1>3. \A j \in 0 .. b - 1 : j \in DOMAIN m
  BY <1>2, SizeAssumption
<1>4. \E c \in 0 .. MaxInt + 1 : c \notin DOMAIN m /\ \A j \in 0 .. c - 1 : j \in DOMAIN m
  BY <1>2, <1>3
<1> QED BY <1>4 DEF FirstMissing

(* A map that holds every key below n misses none of them. *)
LEMMA FirstMissingAtLeast ==
  ASSUME NEW m, DOMAIN m \subseteq 0 .. MaxInt, NEW n \in Nat,
         \A j \in 0 .. n - 1 : j \in DOMAIN m
  PROVE  FirstMissing(m) >= n
BY FirstMissingExists, SizeAssumption

-----------------------------------------------------------------------------
(* What the abstract table shows of a concrete one. *)
LEMMA ContentsOfLive ==
  ASSUME status = "live"
  PROVE  Contents = [i \in 0 .. MaxInt |-> Lookup(i)]
BY DEF Contents

(* Without a live table every cell reads as zero. *)
LEMMA ContentsOfNone ==
  ASSUME status # "live"
  PROVE  Contents = Abstract!Blank /\ TableLen = 0
BY DEF Contents, TableLen, Abstract!Blank, Abstract!Cells

BorderZero ==
  /\ TableLen \in 0 .. MaxInt + 1
  /\ TableLen \in 0 .. MaxInt => Contents[TableLen] = Zero

(* The cell `#t' names reads as zero: glm_tbl_len is a border. *)
LEMMA BorderIsZero == IInv => BorderZero
<1> SUFFICES ASSUME IInv PROVE BorderZero
  OBVIOUS
<1> USE DEF BorderZero
<1>1. CASE status # "live"
  BY <1>1, SizeAssumption DEF TableLen, Contents
<1>2. CASE status = "live" /\ mode = "dense"
  BY <1>2, SizeAssumption DEF TableLen, Contents, Lookup, IInv, SpanOK
<1>3. CASE status = "live" /\ mode = "sparse"
  BY <1>3, FirstMissingExists DEF TableLen, Contents, Lookup, IInv
<1> QED BY <1>1, <1>2, <1>3 DEF IInv

(* The same of the next state. *)
LEMMA BorderStaysZero == IInv' => BorderZero'
BY BorderIsZero, PTL

(* A dying process or a freed table is an abstract Destroy. *)
LEMMA GoneIsDestroy ==
  ASSUME status = "live", status' # "live", UNCHANGED out
  PROVE  Abstract!Destroy
<1>1. Contents' = Abstract!Blank /\ TableLen' = 0
  BY DEF Contents, TableLen, Abstract!Blank, Abstract!Cells
<1> QED BY <1>1 DEF Abstract!Destroy

(* Two live states show the same cells when the span grew over zeros. *)
LEMMA WidenedSpan ==
  ASSUME IInv, Buffered(span), ~AllocFails, mode = "dense",
         NEW w \in Word, NEW s \in SpanGrow(span, w)
  PROVE  /\ s.len >= span.len
         /\ \A i \in 0 .. MaxInt :
              (IF i < s.len THEN s.cell[i] ELSE Zero) = Lookup(i)
<1>1. SpanOK(s) /\ s.len >= span.len /\ Buffered(s)
      /\ (s.kind # "null" => Keeps(span, s))
  BY GrowResult DEF IInv
<1>2. CASE s.kind = "null"
  <2>1. s.len = 0 /\ span.len \in 0 .. MaxInt /\ MaxInt \in Nat
    BY <1>1, <1>2, SizeAssumption DEF Buffered, IInv, SpanOK
  <2>2. span.len = 0
    BY <1>1, <2>1
  <2>3. ASSUME NEW i \in 0 .. MaxInt
        PROVE  Lookup(i) = Zero /\ ~(i < s.len)
    BY <2>1, <2>2 DEF Lookup
  <2> QED BY <1>1, <2>3
<1>3. CASE s.kind # "null"
  <2>1. s.len \in 0 .. MaxInt /\ span.len \in 0 .. MaxInt /\ MaxInt \in Nat
    BY <1>1, SizeAssumption DEF IInv, SpanOK
  <2>2. ASSUME NEW i \in 0 .. MaxInt
        PROVE  (IF i < s.len THEN s.cell[i] ELSE Zero)
                 = (IF i < span.len THEN span.cell[i] ELSE Zero)
    BY <1>1, <1>3, <2>1 DEF Keeps
  <2>3. \A i \in 0 .. MaxInt :
          Lookup(i) = IF i < span.len THEN span.cell[i] ELSE Zero
    BY <2>1 DEF Lookup
  <2> QED BY <1>1, <2>2, <2>3
<1> QED BY <1>1, <1>2, <1>3

(* A growth as the whole effect of an entry point is an abstract Widen. *)
LEMMA WidenIsWiden ==
  ASSUME IInv, IInv', Buffered(span), ~AllocFails, status = "live", mode = "dense",
         NEW w \in Word, Widen(w)
  PROVE  Abstract!Widen \/ Abstract!Destroy
<1>1. CASE Die
  BY <1>1, GoneIsDestroy DEF Die
<1>2. CASE ~Die
  <2>1. PICK s \in SpanGrow(span, w) : span' = s /\ UNCHANGED <<status, mode, map, out>>
    BY <1>2 DEF Widen
  <2>2. \A i \in 0 .. MaxInt : Lookup(i)' = Lookup(i)
    BY <2>1, WidenedSpan DEF Lookup
  <2>3. Contents' = Contents
    BY <2>1, <2>2 DEF Contents
  <2>4. TableLen' >= TableLen
    BY <2>1, WidenedSpan DEF TableLen
  <2>5. TableLen' \in 0 .. MaxInt + 1 /\ TableLen \in 0 .. MaxInt + 1
        /\ (TableLen' \in 0 .. MaxInt => Contents'[TableLen'] = Zero)
    BY BorderIsZero, BorderStaysZero DEF BorderZero
  <2>6. Abstract!BorderAdvances
    BY <2>4, <2>5 DEF Abstract!BorderAdvances, Abstract!Cells
  <2>7. status' = status /\ out' = out
    BY <2>1
  <2> QED BY <2>3, <2>6, <2>7 DEF Abstract!Widen
<1> QED BY <1>1, <1>2

(* Overwriting one cell of the contents is an abstract Write. *)
LEMMA WriteIsWrite ==
  ASSUME IInv, IInv', status = "live", status' = "live", UNCHANGED out,
         NEW i \in 0 .. MaxInt, NEW v \in Vals,
         \A j \in 0 .. MaxInt : Lookup(j)' = IF j = i THEN v ELSE Lookup(j),
         TableLen' >= TableLen
  PROVE  Abstract!Write(i, v)
<1>1. Contents' = [Contents EXCEPT ![i] = v]
  BY DEF Contents
<1>2. Abstract!BorderAdvances
  BY BorderIsZero, BorderStaysZero DEF BorderZero, Abstract!BorderAdvances, Abstract!Cells
<1> QED BY <1>1, <1>2 DEF Abstract!Write

(* A step that changes nothing changes nothing of the abstract table. *)
LEMMA StutterIsStutter ==
  ASSUME UNCHANGED vars
  PROVE  UNCHANGED Abstract!vars
BY DEF vars, Abstract!vars, Contents, TableLen, Lookup

-----------------------------------------------------------------------------
(* The initial states map to the initial state. *)
LEMMA InitRefines == Init => Abstract!Init
BY ContentsOfNone DEF Init, Abstract!Init

(* glm_tbl_new is Create. *)
LEMMA NewRefines ==
  ASSUME NEW sparse \in BOOLEAN, New(sparse)
  PROVE  Abstract!Create
<1>1. Contents = Abstract!Blank /\ TableLen = 0
  BY ContentsOfNone DEF New
<1>2. Contents' = Abstract!Blank
  BY DEF New, Contents, Lookup, NoSpan, EmptyMap, Abstract!Blank, Abstract!Cells
<1>3. FirstMissing(EmptyMap) = 0
  BY FirstMissingExists, SizeAssumption DEF EmptyMap
<1>4. TableLen' = 0
  BY <1>3 DEF New, TableLen, NoSpan
<1> QED BY <1>1, <1>2, <1>4 DEF New, Abstract!Create

(* A store to a hash-backed table is Write. *)
LEMMA SetSparseRefines ==
  ASSUME IInv, IInv', NEW i \in Keys, NEW v \in Vals, SetSparse(i, v)
  PROVE  [Abstract!Next]_(Abstract!vars)
<1>1. CASE i < 0
  <2>1. UNCHANGED vars
    BY <1>1 DEF SetSparse, vars
  <2> QED BY <2>1, StutterIsStutter
<1>2. CASE i >= 0
  <2>1. i \in 0 .. MaxInt /\ map' = Insert(map, i, v)
    BY <1>2, KeysAreWords DEF SetSparse, Word
  <2>2. \A j \in 0 .. MaxInt : Lookup(j)' = IF j = i THEN v ELSE Lookup(j)
    BY <2>1 DEF SetSparse, Lookup, Insert
  <2>3. FirstMissing(map') >= FirstMissing(map)
    BY <2>1, FirstMissingExists, FirstMissingAtLeast DEF IInv, Insert
  <2>4. TableLen' >= TableLen
    BY <2>3 DEF TableLen, SetSparse
  <2>5. Abstract!Write(i, v)
    BY <2>1, <2>2, <2>4, WriteIsWrite DEF SetSparse
  <2> QED BY <2>1, <2>5 DEF Abstract!Next, Abstract!Cells
<1> QED BY <1>1, <1>2, KeysAreWords DEF Word

(* A store that upgrades the table to a map is one Write: no cell is lost. *)
LEMMA SetUpgradeRefines ==
  ASSUME IInv, IInv', NEW i \in Keys, NEW v \in Vals, SetUpgrade(i, v)
  PROVE  [Abstract!Next]_(Abstract!vars)
<1>1. CASE Die
  BY <1>1, GoneIsDestroy DEF Die, SetUpgrade, Abstract!Next
<1>2. CASE ~Die
  <2>1. /\ status = "live" /\ status' = "live" /\ mode = "dense" /\ mode' = "sparse"
        /\ map' = Insert(MapOfSpan(span), i, v) /\ UNCHANGED out
    BY <1>2 DEF SetUpgrade
  <2>2. i \in 0 .. MaxInt /\ i > span.len /\ span.len \in 0 .. MaxInt
    <3>1. span.len \in 0 .. MaxInt /\ i \in Word
      BY KeysAreWords DEF IInv, SpanOK
    <3>2. i > Horizon(span)
      BY DEF SetUpgrade
    <3> QED BY <3>1, <3>2, SizeAssumption DEF Horizon, Word
  <2>3. \A j \in 0 .. MaxInt : Lookup(j)' = IF j = i THEN v ELSE Lookup(j)
    BY <2>1, <2>2 DEF Lookup, Insert, MapOfSpan
  <2>4. TableLen' >= TableLen
    <3>1. DOMAIN map' = (0 .. span.len - 1) \cup {i}
      BY <2>1 DEF Insert, MapOfSpan
    <3>2. FirstMissing(map') >= span.len
      BY <2>2, <3>1, SizeAssumption, FirstMissingAtLeast
    <3> QED BY <2>1, <3>2 DEF TableLen
  <2>5. Abstract!Write(i, v)
    BY <2>1, <2>2, <2>3, <2>4, WriteIsWrite
  <2> QED BY <2>2, <2>5 DEF Abstract!Next, Abstract!Cells
<1> QED BY <1>1, <1>2

(* A store that grows the buffer is one Write, an abort is Destroy. *)
LEMMA SetDenseRefines ==
  ASSUME IInv, IInv', Buffered(span), ~AllocFails,
         NEW i \in Keys, NEW v \in Vals, SetDense(i, v)
  PROVE  [Abstract!Next]_(Abstract!vars)
<1>1. CASE Die
  BY <1>1, GoneIsDestroy DEF Die, SetDense, Abstract!Next
<1>2. CASE ~Die
  <2>1. PICK s \in SpanGrow(span, WrapSucc(i)) :
           /\ s.kind # "null"
           /\ span' = [s EXCEPT !.cell[i] = v]
           /\ UNCHANGED <<status, mode, map, out>>
    BY <1>2 DEF SetDense
  <2>2. SpanOK(s) /\ i \in 0 .. s.len - 1
    BY KeysAreWords, GrowCoversIndex DEF SetDense, IInv
  <2>3. span'.len = s.len /\ span'.cell = [s.cell EXCEPT ![i] = v]
    BY <2>1, <2>2, StoreOK
  <2>4. /\ s.len >= span.len
        /\ \A j \in 0 .. MaxInt : (IF j < s.len THEN s.cell[j] ELSE Zero) = Lookup(j)
    BY KeysAreWords, WidenedSpan DEF SetDense
  <2>5. i \in 0 .. MaxInt /\ s.cell \in [0 .. s.len - 1 -> AnyVal] /\ s.len \in 0 .. MaxInt
    BY <2>2, SizeAssumption DEF SpanOK
  <2>6. ASSUME NEW j \in 0 .. MaxInt
        PROVE  Lookup(j)' = IF j = i THEN v ELSE Lookup(j)
    <3>1. Lookup(j)' = IF j < s.len THEN [s.cell EXCEPT ![i] = v][j] ELSE Zero
      BY <2>1, <2>3 DEF Lookup, SetDense
    <3> QED BY <3>1, <2>2, <2>4, <2>5
  <2>7. TableLen' >= TableLen
    BY <2>1, <2>3, <2>4 DEF TableLen, SetDense
  <2>8. Abstract!Write(i, v)
    BY <2>1, <2>5, <2>6, <2>7, WriteIsWrite DEF SetDense
  <2> QED BY <2>5, <2>8 DEF Abstract!Next, Abstract!Cells
<1> QED BY <1>1, <1>2

(* glm_tbl_get is Read, or ReadOutside past the span. *)
LEMMA GetRefines ==
  ASSUME IInv, NEW i \in Keys, Get(i)
  PROVE  [Abstract!Next]_(Abstract!vars)
<1>1. CASE Die
  BY <1>1, GoneIsDestroy DEF Die, Get, Abstract!Next
<1>2. CASE ~Die
  <2>1. status = "live" /\ out' = Lookup(i) /\ UNCHANGED <<status, mode, span, map>>
    BY <1>2 DEF Get
  <2>2. Contents' = Contents /\ TableLen' = TableLen
    BY <2>1 DEF Contents, TableLen, Lookup
  <2>3. CASE i \in 0 .. MaxInt
    <3>1. out' = Contents[i]
      BY <2>1, <2>3 DEF Contents
    <3>2. Abstract!Read(i)
      BY <2>1, <2>2, <3>1 DEF Abstract!Read
    <3> QED BY <2>3, <3>2 DEF Abstract!Next, Abstract!Cells
  <2>4. CASE i \notin 0 .. MaxInt
    <3>1. i < 0
      BY <2>4, KeysAreWords DEF Word
    <3>2. out' = Zero
      BY <2>1, <3>1, KeysAreWords DEF Lookup, IInv, Word
    <3>3. Abstract!ReadOutside
      BY <2>1, <2>2, <3>2 DEF Abstract!ReadOutside
    <3> QED BY <3>3 DEF Abstract!Next
  <2> QED BY <2>3, <2>4
<1> QED BY <1>1, <1>2

(* A crash on a null handle is invisible: there was no table. *)
LEMMA NullDeathIsStutter ==
  ASSUME status = "null", Die
  PROVE  UNCHANGED Abstract!vars
<1>1. Contents = Abstract!Blank /\ TableLen = 0
  BY ContentsOfNone
<1>2. Contents' = Abstract!Blank /\ TableLen' = 0
  BY DEF Die, Contents, TableLen, Abstract!Blank, Abstract!Cells
<1> QED BY <1>1, <1>2 DEF Die, Abstract!vars

(* glm_tbl_grow and glm_tbl_reserve are Widen, or an abort. *)
LEMMA WideningRefines ==
  ASSUME IInv, IInv', Buffered(span), ~AllocFails, NEW i \in Keys, Grow(i) \/ Reserve(i)
  PROVE  [Abstract!Next]_(Abstract!vars)
<1>1. CASE UNCHANGED vars
  BY <1>1, StutterIsStutter
<1>2. CASE status = "live" /\ Die
  BY <1>2, GoneIsDestroy DEF Die, Abstract!Next
<1>3. CASE status = "null" /\ Die
  BY <1>3, NullDeathIsStutter
<1>4. ASSUME NEW w \in Word, status = "live", mode = "dense", Widen(w)
      PROVE  [Abstract!Next]_(Abstract!vars)
  BY <1>4, WidenIsWiden DEF Abstract!Next
<1> QED BY <1>1, <1>2, <1>3, <1>4, KeysAreWords DEF Grow, Reserve

(* Every step of the runtime is a step or a stutter of the abstract table. *)
LEMMA StepRefines ==
  ASSUME IInv, IInv', Buffered(span), ~AllocFails, [Next]_vars
  PROVE  [Abstract!Next]_(Abstract!vars)
<1>1. ASSUME NEW sparse \in BOOLEAN, New(sparse) PROVE [Abstract!Next]_(Abstract!vars)
  BY <1>1, NewRefines DEF Abstract!Next
<1>2. ASSUME NEW i \in Keys, NEW v \in Vals, SetSparse(i, v) \/ SetUpgrade(i, v) \/ SetDense(i, v)
      PROVE  [Abstract!Next]_(Abstract!vars)
  BY <1>2, SetSparseRefines, SetUpgradeRefines, SetDenseRefines
<1>3. ASSUME NEW i \in Keys, SetNothing(i) PROVE [Abstract!Next]_(Abstract!vars)
  BY <1>3, StutterIsStutter DEF SetNothing
<1>4. ASSUME NEW i \in Keys, Get(i) \/ Grow(i) \/ Reserve(i)
      PROVE  [Abstract!Next]_(Abstract!vars)
  BY <1>4, GetRefines, WideningRefines
<1>5. CASE GetNull
  <2>1. Contents' = Contents /\ TableLen' = TableLen
    BY <1>5 DEF GetNull, Contents, TableLen
  <2>2. Abstract!ReadNothing
    BY <1>5, <2>1 DEF GetNull, Abstract!ReadNothing
  <2> QED BY <2>2 DEF Abstract!Next
<1>6. CASE Free
  <2>1. Abstract!Destroy
    BY <1>6, GoneIsDestroy DEF Free
  <2> QED BY <2>1 DEF Abstract!Next
<1>7. CASE UNCHANGED vars
  BY <1>7, StutterIsStutter
<1> QED BY <1>1, <1>2, <1>3, <1>4, <1>5, <1>6, <1>7 DEF Next

(* Whatever moves behind the header, a compiled program sees one total map:  *)
(* growth, graduation to a reservation and the upgrade to a hash map change  *)
(* no cell, and `#t' only ever advances to another border.                   *)
THEOREM TableImplementsZeroTable ==
  ASSUME ~AllocFails
  PROVE  Spec => AbstractTable
<1>1. IInv /\ IInv' /\ Buffered(span) /\ [Next]_vars => [Abstract!Next]_(Abstract!vars)
  BY StepRefines
<1> QED BY <1>1, InitRefines, TableInvariant, AlwaysBuffered, PTL
        DEF Spec, AbstractTable, Abstract!Spec
=============================================================================
