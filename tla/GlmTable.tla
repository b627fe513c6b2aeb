------------------------------- MODULE GlmTable -------------------------------
(***************************************************************************)
(* One table of the GLM runtime (src/rt.rs): the header glm_tbl_new boxes, *)
(* the flat buffer span_grow moves from the allocator to a reserved range   *)
(* of address space, and the hash map a far key upgrades it to.             *)
(*                                                                         *)
(* The header's own view of its buffer is `len' and `reserve'.  What the    *)
(* allocator or the kernel really handed out is `kind', `bytes' and         *)
(* `commit': those are not fields of the header, and the code is correct    *)
(* only while the two views agree.  Sizes are in bytes where the code counts *)
(* bytes and in cells where it counts cells.                                *)
(***************************************************************************)
EXTENDS Integers, FiniteSets

CONSTANTS
  MaxInt,           (* i64::MAX; usize::MAX is 2 * MaxInt + 1.            *)
  Powers,           (* The powers of two a usize can hold.                *)
  ESize,            (* Bytes per cell.                                    *)
  MinSpan,          (* Smallest buffer in cells: the 8 of span_grow.      *)
  SparseThreshold,  (* Gap past the span that turns the table sparse.     *)
  GraduateAt,       (* Buffer size in bytes that moves it to a reservation. *)
  ReserveFloor,     (* Smallest reservation in bytes.                     *)
  Page,             (* Commit granularity in bytes.                       *)
  VmEnabled,        (* GLM_VM is not off.                                 *)
  AllocFails,       (* The allocator and the kernel may refuse memory.    *)
  Vals, Zero,       (* Cell values and the zero of the element type.      *)
  Garbage,          (* Content of memory nobody initialised.              *)
  Keys              (* Indices and sizes the program passes.              *)

UMax == 2 * MaxInt + 1

ASSUME SizeAssumption ==
  /\ MaxInt \in Nat
  /\ ESize \in Nat \ {0}
  /\ MinSpan \in 1 .. MaxInt
  /\ SparseThreshold \in Nat
  /\ GraduateAt \in Nat
  /\ ReserveFloor \in Nat \ {0}
  /\ Page \in Nat \ {0}
  /\ VmEnabled \in BOOLEAN
  /\ AllocFails \in BOOLEAN

(* A reservation is a whole number of pages: 64 MiB is a multiple of 4 KiB. *)
ASSUME PowersAssumption ==
  /\ Powers \subseteq 1 .. UMax
  /\ \A p \in Powers : p >= ReserveFloor => \E k \in 0 .. UMax : p = k * Page

ASSUME ValueAssumption ==
  /\ Zero \in Vals
  /\ Garbage \notin Vals
  /\ Keys \subseteq -(MaxInt + 1) .. MaxInt

VARIABLES
  status,  (* "null" before glm_tbl_new, "live", "freed", or "dead" once the
              process aborted or faulted.                                  *)
  mode,    (* TableMode.                                                   *)
  span,    (* The flat buffer: header fields and what backs them.          *)
  map,     (* sparse_map, a partial function from indices to values.       *)
  out      (* What the last read left in the caller's slot.                *)

vars == <<status, mode, span, map, out>>

Larger(a, b) == IF a >= b THEN a ELSE b

EmptyMap == [i \in {} |-> Zero]

(* No buffer: data is null, len and reserve are 0. *)
NoSpan ==
  [len |-> 0, reserve |-> 0, kind |-> "null", bytes |-> 0, commit |-> 0,
   cell |-> [i \in {} |-> Zero]]

Init ==
  /\ status = "null"
  /\ mode = "dense"
  /\ span = NoSpan
  /\ map = EmptyMap
  /\ out = Zero

-----------------------------------------------------------------------------
(* span_grow and its helpers.  A growth has a set of possible results,      *)
(* because the allocator chooses; no result at all is an abort.             *)

(* len.wrapping_mul(2) on an i64. *)
WrapDouble(n) == IF 2 * n > MaxInt THEN 2 * n - (UMax + 1) ELSE 2 * n

WrapSuccExact(i) == i + 1 (* Mutated form of WrapSucc: no wrap. *)
(* index.wrapping_add(1) *)
WrapSucc(i) == IF i = MaxInt THEN -(MaxInt + 1) ELSE i + 1

NewLen(s, want) == Larger(Larger(want, WrapDouble(s.len)), MinSpan)

RoundDownPage(n) == (n \div Page) * Page (* Mutated form of RoundUpPage. *)
RoundUpPage(n) == ((n + Page - 1) \div Page) * Page

(* reserve_for: the next power of two, at least the floor; none on overflow. *)
Fits(b, p) == p >= b /\ p >= ReserveFloor
ReserveFor(b) ==
  {p \in Powers : Fits(b, p) /\ \A q \in Powers : Fits(b, q) => p <= q}

(* The old cells followed by cells that hold `fill'. *)
Extended(s, n, fill) ==
  [i \in 0 .. n - 1 |-> IF i < s.len THEN s.cell[i] ELSE fill]

ZeroTailForgotten(s, n, cell) == cell (* Mutated form of ZeroTail. *)

(* write_bytes(0) over the tail a realloc left uninitialised. *)
ZeroTail(s, n, cell) ==
  [i \in 0 .. n - 1 |-> IF i < s.len THEN cell[i] ELSE Zero]

HeapSpan(n, cell) ==
  [len |-> n, reserve |-> 0, kind |-> "heap", bytes |-> n * ESize,
   commit |-> n * ESize, cell |-> cell]

(* Mutated form of VmSpan: the header keeps no record of the mapping. *)
VmSpanUnsized(n, r, cell) ==
  [len |-> n, reserve |-> 0, kind |-> "vm", bytes |-> r,
   commit |-> RoundUpPage(n * ESize), cell |-> cell]

VmSpan(n, r, cell) ==
  [len |-> n, reserve |-> r, kind |-> "vm", bytes |-> r,
   commit |-> RoundUpPage(n * ESize), cell |-> cell]

Zeros(n) == [i \in 0 .. n - 1 |-> Zero]

(* graduate: map a reservation, commit its head, copy the buffer if there   *)
(* is one and release it.  Fresh pages read as zero.                        *)
Graduate(s, n) ==
  {VmSpan(n, r, IF s.kind = "null" THEN Zeros(n) ELSE Extended(s, n, Zero)) :
     r \in ReserveFor(n * ESize)}

(* grow_vm: move the reservation only when the new size outgrows it. *)
GrowVm(s, n) ==
  LET b == n * ESize
  IN {VmSpan(n, r, Extended(s, n, Zero)) :
        r \in IF b > s.reserve THEN ReserveFor(b) ELSE {s.reserve}}

(* elem_layout refuses more than isize::MAX bytes. *)
LayoutOK(n) == n * ESize <= MaxInt

(* The malloc arm: a null result of alloc_zeroed is stored as it is, a null *)
(* result of realloc aborts.                                                *)
HeapGrow(s, n) ==
  IF ~LayoutOK(n) THEN {}
  ELSE IF s.kind = "null"
       THEN {HeapSpan(n, Zeros(n))} \cup
            (IF AllocFails
             THEN {[NoSpan EXCEPT !.len = n, !.cell = [i \in 0 .. n - 1 |-> Garbage]]}
             ELSE {})
       ELSE {HeapSpan(n, ZeroTail(s, n, Extended(s, n, Garbage)))}

(* Mutated form of SpanGrow: a reserved buffer may go back to the allocator. *)
SpanGrowBack(s, want) ==
  LET n == NewLen(s, want)
      b == n * ESize
  IN IF want < 0 THEN {}
     ELSE IF want <= s.len THEN {s}
     ELSE IF b >= GraduateAt /\ b <= UMax /\ VmEnabled /\ s.kind = "null" THEN Graduate(s, n)
     ELSE HeapGrow(s, n)

SpanGrow(s, want) ==
  LET n == NewLen(s, want)
      b == n * ESize
  IN IF want < 0 THEN {}
     ELSE IF want <= s.len THEN {s}
     ELSE IF b > UMax THEN {}
     ELSE IF s.reserve # 0 THEN GrowVm(s, n)
     ELSE IF b >= GraduateAt /\ VmEnabled THEN Graduate(s, n)
     ELSE HeapGrow(s, n)

(* The growth aborts: no result exists, or a checked request was refused.   *)
GrowAborts(s, want) ==
  \/ SpanGrow(s, want) = {}
  \/ AllocFails /\ want > s.len /\ s.kind # "null"
  \/ AllocFails /\ want > s.len /\ NewLen(s, want) * ESize >= GraduateAt /\ VmEnabled
-----------------------------------------------------------------------------
(* The process is gone: abort(), a panic under panic=abort, or a fault. *)
Die ==
  /\ status' = "dead"
  /\ UNCHANGED <<mode, span, map, out>>

(* glm_tbl_new: bit 0 of flags asks for a sparse table. *)
New(sparse) ==
  /\ status \in {"null", "freed"}
  /\ status' = "live"
  /\ mode' = IF sparse THEN "sparse" ELSE "dense"
  /\ span' = NoSpan
  /\ map' = EmptyMap
  /\ UNCHANGED out

Insert(m, i, v) == [j \in DOMAIN m \cup {i} |-> IF j = i THEN v ELSE m[j]]

(* glm_tbl_set on a hash-backed table; a negative index is ignored. *)
SetSparse(i, v) ==
  /\ status = "live" /\ mode = "sparse"
  /\ map' = IF i < 0 THEN map ELSE Insert(map, i, v)
  /\ UNCHANGED <<status, mode, span, out>>

(* len.saturating_add(SPARSE_THRESHOLD) *)
Horizon(s) == IF s.len + SparseThreshold > MaxInt THEN MaxInt ELSE s.len + SparseThreshold

(* Mutated form of MapOfSpan: the last cell is left behind. *)
MapOfSpanShort(s) == [j \in 0 .. s.len - 2 |-> s.cell[j]]

(* upgrade_to_sparse copies every cell of the span, the zeros included. *)
MapOfSpan(s) == [j \in 0 .. s.len - 1 |-> s.cell[j]]

(* glm_tbl_set past the horizon: the span moves into a map (an empty one    *)
(* when there is no span), its buffer is released, the key is inserted.     *)
SetUpgrade(i, v) ==
  /\ status = "live" /\ mode = "dense"
  /\ i > Horizon(span)
  /\ \/ /\ span.len = 0 \/ span.kind # "null"
        /\ mode' = "sparse"
        /\ map' = Insert(MapOfSpan(span), i, v)
        /\ span' = NoSpan
        /\ UNCHANGED <<status, out>>
     \/ /\ span.len > 0 /\ span.kind = "null"
        /\ Die

(* glm_tbl_set within the horizon: grow to cover the index, then write. *)
SetDense(i, v) ==
  /\ status = "live" /\ mode = "dense"
  /\ i >= 0 /\ i <= Horizon(span)
  /\ \/ \E s \in SpanGrow(span, WrapSucc(i)) :
          /\ s.kind # "null"
          /\ span' = [s EXCEPT !.cell[i] = v]
          /\ UNCHANGED <<status, mode, map, out>>
     \/ /\ \E s \in SpanGrow(span, WrapSucc(i)) : s.kind = "null"
        /\ Die
     \/ GrowAborts(span, WrapSucc(i)) /\ Die

(* glm_tbl_set returns at once on a null handle or a negative dense index. *)
SetNothing(i) ==
  /\ status = "null" \/ (status = "live" /\ mode = "dense" /\ i < 0)
  /\ UNCHANGED vars

(* glm_tbl_get: what a read at index i leaves in the caller's slot. *)
Lookup(i) ==
  IF mode = "sparse"
  THEN IF i \in DOMAIN map THEN map[i] ELSE Zero
  ELSE IF 0 <= i /\ i < span.len THEN span.cell[i] ELSE Zero

Get(i) ==
  /\ status = "live"
  /\ \/ /\ mode = "dense" /\ 0 <= i /\ i < span.len /\ span.kind = "null"
        /\ Die
     \/ /\ ~(mode = "dense" /\ 0 <= i /\ i < span.len /\ span.kind = "null")
        /\ out' = Lookup(i)
        /\ UNCHANGED <<status, mode, span, map>>

(* glm_tbl_get on a null handle returns without writing the slot: the value *)
(* read is whatever the stack held.                                         *)
GetNull ==
  /\ status = "null"
  /\ out' \in Vals \cup {Garbage}
  /\ UNCHANGED <<status, mode, span, map>>

(* glm_tbl_len: the span, or the first key a sparse table misses. *)
FirstMissing(m) ==
  CHOOSE b \in 0 .. MaxInt + 1 : b \notin DOMAIN m /\ \A j \in 0 .. b - 1 : j \in DOMAIN m
TableLen == IF status # "live" THEN 0
       ELSE IF mode = "dense" THEN span.len ELSE FirstMissing(map)

(* span_grow as the whole effect of an entry point. *)
Widen(want) ==
  \/ \E s \in SpanGrow(span, want) :
       /\ span' = s
       /\ UNCHANGED <<status, mode, map, out>>
  \/ GrowAborts(span, want) /\ Die

(* glm_tbl_grow(t, idx): a sparse table has no span; i64::MAX aborts before *)
(* idx + 1 could wrap; a null handle is dereferenced by span_grow.          *)
Grow(i) ==
  \/ status = "live" /\ mode = "sparse" /\ UNCHANGED vars
  \/ status = "live" /\ mode = "dense" /\ i = MaxInt /\ Die
  \/ status = "live" /\ mode = "dense" /\ i # MaxInt /\ Widen(WrapSucc(i))
  \/ status = "null" /\ Die

(* glm_tbl_reserve(t, n): the same without the + 1, and no null check. *)
Reserve(n) ==
  \/ status = "live" /\ mode = "sparse" /\ UNCHANGED vars
  \/ status = "live" /\ mode = "dense" /\ Widen(n)
  \/ status = "null" /\ Die

(* glm_tbl_free of a table without nested tables. *)
Free ==
  /\ status = "live"
  /\ status' = "freed"
  /\ span' = NoSpan
  /\ map' = EmptyMap
  /\ UNCHANGED <<mode, out>>

Next ==
  \/ \E sparse \in BOOLEAN : New(sparse)
  \/ \E i \in Keys, v \in Vals :
       SetSparse(i, v) \/ SetUpgrade(i, v) \/ SetDense(i, v)
  \/ \E i \in Keys : SetNothing(i) \/ Get(i) \/ Grow(i) \/ Reserve(i)
  \/ GetNull
  \/ Free

Spec == Init /\ [][Next]_vars
-----------------------------------------------------------------------------
(* Properties.                                                             *)

(* The variables hold values of their types. *)
TypeOK ==
  /\ status \in {"null", "live", "freed", "dead"}
  /\ mode \in {"dense", "sparse"}
  /\ span.len \in 0 .. MaxInt
  /\ span.reserve \in 0 .. UMax
  /\ span.kind \in {"null", "heap", "vm"}
  /\ span.bytes \in 0 .. UMax
  /\ span.commit \in Nat
  /\ DOMAIN span.cell = 0 .. span.len - 1
  /\ DOMAIN map \subseteq 0 .. MaxInt
  /\ \A i \in DOMAIN map : map[i] \in Vals
  /\ out \in Vals \cup {Garbage}

(* len is "the zeroed, addressable span": every cell below it lies in memory *)
(* the table may touch, and the kernel never committed past the reservation. *)
SpanAddressable ==
  /\ span.len * ESize <= span.commit
  /\ span.commit <= span.bytes

(* The call that will release the buffer is the one that fits it: dealloc    *)
(* with the layout of the allocation, or munmap of the whole reservation.    *)
ReleaseFits ==
  /\ span.kind = "null" => span.reserve = 0
  /\ span.kind = "heap" => span.reserve = 0 /\ span.bytes = span.len * ESize
  /\ span.kind = "vm" => span.reserve = span.bytes /\ span.reserve # 0

(* No cell ever exposes memory nobody wrote, and a sparse table holds no     *)
(* flat buffer beside its map.                                               *)
NoUninitialisedCell ==
  /\ \A i \in DOMAIN span.cell : span.cell[i] \in Vals
  /\ mode = "sparse" => span = NoSpan
  /\ mode = "dense" => map = EmptyMap

(* A buffer moves from the allocator to a reservation and then to a map,     *)
(* never back, for as long as the table lives.                               *)
Stage == IF mode = "sparse" THEN 3 ELSE IF span.kind = "vm" THEN 2
         ELSE IF span.kind = "heap" THEN 1 ELSE 0
BackingOnlyAdvances ==
  [][status = "live" /\ status' = "live" => Stage' >= Stage]_vars

(* The detailed table implements the abstract one: every index reads as     *)
(* glm_tbl_get would, whichever buffer holds it, and `#t' is glm_tbl_len.    *)
Contents == [i \in 0 .. MaxInt |-> IF status = "live" THEN Lookup(i) ELSE Zero]
Abstract == INSTANCE ZeroTable WITH
  live <- (status = "live"), store <- Contents, bound <- TableLen
AbstractTable == Abstract!Spec
=============================================================================
