--------------------------- MODULE TracePlateProofs ---------------------------
(* Theorems about the signal plate, for every set of signals, every cap, ring *)
(* size and length of run, and a kill between any two stores.                 *)
EXTENDS TracePlate, FiniteSetTheorems, TLAPS

Kind == {"sticky", "count", "cell", "depth", "parent", "seq", "slot", "scope"}
Pending == Kind \X (Slots \union Status)

(* The order of the stores of a signal.                                       *)
LEMMA SignalStores ==
  ASSUME NEW n \in Slots
  PROVE  /\ Signal(n) \in Seq(Pending) /\ Len(Signal(n)) = 8
         /\ Signal(n)[1] = <<"sticky", n>> /\ Signal(n)[2] = <<"count", n>>
         /\ Signal(n)[3] = <<"cell", n>>
         /\ Signal(n)[4] = <<"depth", n>> /\ Signal(n)[5] = <<"parent", n>>
         /\ Signal(n)[6] = <<"seq", n>>
         /\ Signal(n)[7] = <<"slot", n>> /\ Signal(n)[8] = <<"scope", n>>
<1> DEFINE order == <<"sticky", "count", "cell", "depth", "parent", "seq", "slot", "scope">>
<1>1. /\ order[1] = "sticky" /\ order[2] = "count" /\ order[3] = "cell"
      /\ order[4] = "depth" /\ order[5] = "parent" /\ order[6] = "seq"
      /\ order[7] = "slot" /\ order[8] = "scope"
  OBVIOUS
<1>2. \A k \in 1 .. 8 : order[k] \in Kind
  BY <1>1 DEF Kind
<1> HIDE DEF order
<1>3. Signal(n) = [k \in 1 .. 8 |-> <<order[k], n>>]
  BY DEF Signal, order
<1>4. \A k \in 1 .. 8 : <<order[k], n>> \in Pending
  BY <1>2 DEF Pending
<1> QED BY <1>1, <1>3, <1>4

(* Saturation stays in its range. *)
LEMMA BumpRange ==
  ASSUME NEW n \in 0 .. Many
  PROVE  Bump(n) \in 0 .. Many
BY PlateAssumption DEF Bump, Least

(* A place of the ring is one.                                                *)
LEMMA PlaceRange ==
  ASSUME NEW k \in Nat
  PROVE  Place(k) \in 0 .. Capacity - 1
BY PlateAssumption DEF Place
-----------------------------------------------------------------------------
(* Types. The stack of ids has one more element than blocks are open.         *)

(* The phases before the recording walk. *)
Early == {"idle", "reset_counts", "reset_scopes", "parse", "settle", "flush"}

TypeInv ==
  /\ TypeOK
  /\ \A k \in 1 .. Len(todo) : todo[k][1] # "sticky" => todo[k][2] \in Slots
  /\ phase = "record" => Len(scopeIds) = Len(inside) + 1
  /\ phase \in Early => inside = <<>>

(* The sequences of the process, one by one. *)
LEMMA PlateTypes ==
  ASSUME TypeInv
  PROVE  /\ scopeIds \in Seq(Scopes) /\ inside \in Seq(Blocks) /\ home \in Seq(0 .. MaxBlocks)
         /\ scopeMap \in [Blocks -> Scopes] /\ seq \in Nat
         /\ Len(inside) \in Nat /\ Len(home) \in Nat /\ Len(fired) \in Nat /\ Len(todo) \in Nat
         /\ phase = "record" => Len(scopeIds) = Len(inside) + 1
         /\ \A b \in Blocks : b \in Nat /\ b >= 1
<1>1. TypeOK /\ (phase = "record" => Len(scopeIds) = Len(inside) + 1)
  BY DEF TypeInv
<1>2. /\ scopeIds \in Seq(Scopes) /\ inside \in Seq(Blocks) /\ home \in Seq(0 .. MaxBlocks)
      /\ scopeMap \in [Blocks -> Scopes] /\ seq \in Nat /\ fired \in Seq(Slots \X Scopes)
      /\ \E S : todo \in Seq(S)
  BY <1>1 DEF TypeOK
<1>3. Len(inside) \in Nat /\ Len(home) \in Nat /\ Len(fired) \in Nat /\ Len(todo) \in Nat
  BY ONLY <1>2
<1>4. \A b \in Blocks : b \in Nat /\ b >= 1
  BY PlateAssumption DEF Blocks
<1> QED BY ONLY <1>1, <1>2, <1>3, <1>4

(* What any one of the eight stores leaves to store. *)
LEMMA StoreTypes ==
  ASSUME TypeInv, NEW kind \in Kind, Store(kind)
  PROVE  /\ todo # <<>> /\ Head(todo)[1] = kind
         /\ Head(todo)[2] \in Slots \union Status
         /\ kind # "sticky" => Head(todo)[2] \in Slots
         /\ todo' \in Seq(Pending)
         /\ \A k \in 1 .. Len(todo') : todo'[k] = todo[k + 1]
         /\ Len(todo') = Len(todo) - 1
         /\ \A k \in 1 .. Len(todo') : todo'[k][1] # "sticky" => todo'[k][2] \in Slots
         /\ mapped' \in BOOLEAN /\ register' \in Register /\ conv' \subseteq Slots
         /\ scopeIds' \in Seq(Scopes) /\ scopeNext' \in Scopes
         /\ scopeMap' \in [Blocks -> Scopes]
         /\ phase' \in Passes \union {"idle", "reset_counts", "reset_scopes", "refused", "over"}
         /\ runs' \in 0 .. MaxRuns /\ fired' \in Seq(Slots \X Scopes)
         /\ inside' \in Seq(Blocks) /\ home' \in Seq(0 .. MaxBlocks) /\ spoke' \in BOOLEAN
         /\ phase' = "record" => Len(scopeIds') = Len(inside') + 1
         /\ phase' \in Early => inside' = <<>>
<1>1. todo \in Seq(Pending) /\ todo # <<>> /\ todo' = Tail(todo) /\ Head(todo)[1] = kind
  BY DEF TypeInv, TypeOK, Store, Pending, Kind
<1>2. Len(todo) \in Nat /\ Len(todo) >= 1 /\ todo[1] \in Pending /\ Head(todo) = todo[1]
  BY <1>1
<1>3. todo' \in Seq(Pending) /\ Len(todo') = Len(todo) - 1
      /\ \A k \in 1 .. Len(todo') : todo'[k] = todo[k + 1]
  BY <1>1
<1>4. Head(todo)[2] \in Slots \union Status /\ (kind # "sticky" => Head(todo)[2] \in Slots)
  BY <1>1, <1>2 DEF Pending, TypeInv
<1>5. \A k \in 1 .. Len(todo') : todo'[k][1] # "sticky" => todo'[k][2] \in Slots
  BY <1>2, <1>3 DEF TypeInv
<1>6. UNCHANGED <<mapped, register, conv, scopeIds, scopeNext, scopeMap, phase, runs,
                  fired, inside, home, spoke>>
  BY DEF Store, numbering, source
<1> QED BY <1>1, <1>3, <1>4, <1>5, <1>6 DEF TypeInv, TypeOK

(* A signal queues its eight stores and is noted, or nothing happens.         *)
LEMMA FireTypes ==
  ASSUME TypeInv, NEW n \in Slots, NEW where \in Scopes, Fire(n, where)
  PROVE  /\ todo' \in Seq(Pending)
         /\ \A k \in 1 .. Len(todo') : todo'[k][1] # "sticky" => todo'[k][2] \in Slots
         /\ fired' \in Seq(Slots \X Scopes)
<1>1. /\ todo \in Seq(Pending) /\ fired \in Seq(Slots \X Scopes)
      /\ \A k \in 1 .. Len(todo) : todo[k][1] # "sticky" => todo[k][2] \in Slots
  BY DEF TypeInv, TypeOK, Pending, Kind
<1>2. CASE mapped
  <2>1. todo' = Signal(n) /\ fired' = Append(fired, <<n, where>>)
    BY <1>2 DEF Fire
  <2>2. \A k \in 1 .. 8 : Signal(n)[k][2] = n
    BY SignalStores
  <2>3. Signal(n) \in Seq(Pending) /\ Len(Signal(n)) = 8
    BY SignalStores
  <2>4. \A k \in 1 .. Len(todo') : todo'[k][1] # "sticky" => todo'[k][2] \in Slots
    BY <2>1, <2>2, <2>3
  <2>5. <<n, where>> \in Slots \X Scopes
    OBVIOUS
  <2>6. fired' \in Seq(Slots \X Scopes)
    BY <1>1, <2>1, <2>5
  <2> QED BY <2>1, <2>3, <2>4, <2>6
<1>3. CASE ~mapped
  BY <1>1, <1>3 DEF Fire
<1> QED BY <1>2, <1>3

(* The registers the passes set are registers.                                *)
LEMMA ContextTypes ==
  /\ NoScope \in Scopes /\ 0 \in Scopes /\ 1 \in Scopes
  /\ NoContext \in Register /\ Root \in Register /\ CheckerContext \in Register
  /\ \A b \in Nat : ByteOf(b) \in Scopes
BY PlateAssumption DEF Scopes, NoContext, Root, CheckerContext, Register, ByteOf, Least

(* A prefix of a sequence.                                                    *)
LEMMA PrefixElements ==
  ASSUME NEW S, NEW s \in Seq(S), NEW n \in Nat, n <= Len(s)
  PROVE  /\ SubSeq(s, 1, n) \in Seq(S)
         /\ Len(SubSeq(s, 1, n)) = n
         /\ \A k \in 1 .. n : SubSeq(s, 1, n)[k] = s[k]
OBVIOUS

(* Front drops the last element and nothing else.                             *)
LEMMA FrontElements ==
  ASSUME NEW S, NEW s \in Seq(S), s # <<>>
  PROVE  /\ Front(s) \in Seq(S)
         /\ Len(Front(s)) = Len(s) - 1
         /\ \A k \in 1 .. Len(s) - 1 : Front(s)[k] = s[k]
<1>1. Len(s) \in Nat /\ Len(s) >= 1 /\ \A k \in 1 .. Len(s) : s[k] \in S
  OBVIOUS
<1>2. Len(s) - 1 \in Nat /\ Len(s) - 1 <= Len(s)
  BY <1>1
<1>3. /\ SubSeq(s, 1, Len(s) - 1) \in Seq(S)
      /\ Len(SubSeq(s, 1, Len(s) - 1)) = Len(s) - 1
      /\ \A k \in 1 .. Len(s) - 1 : SubSeq(s, 1, Len(s) - 1)[k] = s[k]
  BY <1>2, PrefixElements
<1> QED BY <1>3 DEF Front

(* The walk enters and leaves a block.                                        *)
LEMMA WalkTypes ==
  ASSUME TypeInv, phase = "record"
  PROVE  /\ Here \in 0 .. MaxBlocks
         /\ Last(scopeIds) \in Scopes
         /\ \A b \in Blocks : ScopeId(b) \in Scopes /\ NextAfter(b) \in Scopes
         /\ \A b \in Blocks : EnteredContext(b) \in Register
         /\ inside # <<>> => /\ Front(scopeIds) \in Seq(Scopes)
                             /\ Len(Front(scopeIds)) = Len(scopeIds) - 1
                             /\ \A k \in 1 .. Len(scopeIds) - 1 :
                                  Front(scopeIds)[k] = scopeIds[k]
                             /\ Front(inside) \in Seq(Blocks)
                             /\ Len(Front(inside)) = Len(inside) - 1
                             /\ \A k \in 1 .. Len(inside) - 1 : Front(inside)[k] = inside[k]
                             /\ ReturnContext(Front(scopeIds)) \in Register
<1>1. /\ scopeIds \in Seq(Scopes) /\ inside \in Seq(Blocks) /\ Len(scopeIds) = Len(inside) + 1
      /\ scopeMap \in [Blocks -> Scopes] /\ scopeNext \in Scopes
  BY DEF TypeInv, TypeOK
<1>2. Len(inside) \in Nat /\ Len(scopeIds) \in Nat
  BY <1>1
<1>3. Here \in 0 .. MaxBlocks
  <2>1. inside # <<>> => inside[Len(inside)] \in Blocks
    BY <1>1, <1>2
  <2> QED BY <2>1, PlateAssumption DEF Here, Last, Blocks
<1>4. Last(scopeIds) \in Scopes
  BY <1>1, <1>2 DEF Last
<1>5. \A b \in Blocks : ScopeId(b) \in Scopes /\ NextAfter(b) \in Scopes
  BY <1>1, PlateAssumption DEF ScopeId, NextAfter, Least, Scopes
<1>6. \A b \in Blocks : EnteredContext(b) \in Register
  BY <1>2, <1>4, <1>5 DEF EnteredContext, Register
<1>7. ASSUME inside # <<>>
      PROVE  /\ Front(scopeIds) \in Seq(Scopes)
             /\ Len(Front(scopeIds)) = Len(scopeIds) - 1
             /\ \A k \in 1 .. Len(scopeIds) - 1 : Front(scopeIds)[k] = scopeIds[k]
             /\ Front(inside) \in Seq(Blocks)
             /\ Len(Front(inside)) = Len(inside) - 1
             /\ \A k \in 1 .. Len(inside) - 1 : Front(inside)[k] = inside[k]
             /\ ReturnContext(Front(scopeIds)) \in Register
  <2>1. Len(inside) >= 1 /\ Len(scopeIds) >= 2
    BY <1>1, <1>2, <1>7
  <2>2. /\ Front(scopeIds) \in Seq(Scopes)
        /\ Len(Front(scopeIds)) = Len(scopeIds) - 1
        /\ \A k \in 1 .. Len(scopeIds) - 1 : Front(scopeIds)[k] = scopeIds[k]
    BY <1>1, <2>1, FrontElements
  <2>3. /\ Front(inside) \in Seq(Blocks)
        /\ Len(Front(inside)) = Len(inside) - 1
        /\ \A k \in 1 .. Len(inside) - 1 : Front(inside)[k] = inside[k]
    BY <1>1, <1>7, FrontElements
  <2>4. \A k \in 1 .. Len(Front(scopeIds)) : Front(scopeIds)[k] \in Scopes
    BY <1>1, <1>2, <2>1, <2>2
  <2>5. ReturnContext(Front(scopeIds)) \in Register
    BY <1>2, <2>1, <2>2, <2>4, ContextTypes DEF ReturnContext, Register, Last
  <2> QED BY <2>2, <2>3, <2>5
<1> QED BY <1>3, <1>4, <1>5, <1>6, <1>7

(* The first state is typed. *)
LEMMA TypeInit == Init => TypeInv
<1> SUFFICES ASSUME Init PROVE TypeInv
  OBVIOUS
<1>1. /\ sticky \in [Slots \union Status -> BOOLEAN] /\ count \in [Slots -> 0 .. Many]
      /\ cell \in [Slots -> [Scopes -> 0 .. Many]] /\ dir \in [Scopes -> Nat \X Scopes]
      /\ ring \in [0 .. Capacity - 1 -> (Slots \union {0}) \X Scopes]
      /\ scopeMap \in [Blocks -> Scopes]
  BY ContextTypes, PlateAssumption DEF Init, Unset, NoEvent
<1>2. /\ todo = <<>> /\ scopeIds = <<>> /\ fired = <<>> /\ inside = <<>> /\ home = <<>>
      /\ scopeNext = 0 /\ register = NoContext /\ conv = {} /\ runs = 0 /\ seq = 0
      /\ phase = "idle"
  BY DEF Init
<1>3. mapped \in BOOLEAN /\ spoke \in BOOLEAN
  BY DEF Init
<1>4. runs \in 0 .. MaxRuns
  BY <1>2, PlateAssumption
<1>5. scopeNext \in Scopes /\ register \in Register
  BY <1>2, ContextTypes
<1> QED BY <1>1, <1>2, <1>3, <1>4, <1>5 DEF TypeInv, TypeOK

(* The eight stores keep the plate's types.                                   *)
LEMMA StoresKeepTypes ==
  ASSUME TypeInv,
         \/ StoreSticky \/ StoreCount \/ StoreCell \/ StoreDepth \/ StoreParent
         \/ StoreSeq \/ StoreSlot \/ StoreScope
  PROVE  TypeInv'
<1>1. /\ sticky \in [Slots \union Status -> BOOLEAN] /\ count \in [Slots -> 0 .. Many]
      /\ cell \in [Slots -> [Scopes -> 0 .. Many]] /\ dir \in [Scopes -> Nat \X Scopes]
      /\ seq \in Nat /\ ring \in [0 .. Capacity - 1 -> (Slots \union {0}) \X Scopes]
      /\ register \in Register
  BY DEF TypeInv, TypeOK
<1>2. CASE StoreSticky
  <2>1. Store("sticky")
    BY <1>2 DEF StoreSticky
  <2>2. sticky' \in [Slots \union Status -> BOOLEAN]
    BY <1>1, <1>2 DEF StoreSticky
  <2>3. UNCHANGED <<count, cell, dir, seq, ring>>
    BY <1>2 DEF StoreSticky
  <2> QED BY <1>1, <2>1, <2>2, <2>3, StoreTypes DEF TypeInv, TypeOK, Kind, Pending
<1>3. CASE StoreCount
  <2>1. Store("count")
    BY <1>3 DEF StoreCount
  <2>2. Head(todo)[2] \in Slots
    BY <2>1, StoreTypes DEF Kind
  <2>3. count' \in [Slots -> 0 .. Many]
    BY <1>1, <1>3, <2>2, BumpRange DEF StoreCount
  <2>4. UNCHANGED <<sticky, cell, dir, seq, ring>>
    BY <1>3 DEF StoreCount
  <2> QED BY <1>1, <2>1, <2>3, <2>4, StoreTypes DEF TypeInv, TypeOK, Kind, Pending
<1>4. CASE StoreCell
  <2>1. Store("cell")
    BY <1>4 DEF StoreCell
  <2>2. Head(todo)[2] \in Slots
    BY <2>1, StoreTypes DEF Kind
  <2>3. register.scope \in Scopes
    BY <1>1 DEF Register
  <2>4. cell[Head(todo)[2]][register.scope] \in 0 .. Many
    BY <1>1, <2>2, <2>3
  <2>5. cell' \in [Slots -> [Scopes -> 0 .. Many]]
    BY <1>1, <1>4, <2>2, <2>3, <2>4, BumpRange DEF StoreCell
  <2>6. UNCHANGED <<sticky, count, dir, seq, ring>>
    BY <1>4 DEF StoreCell
  <2> QED BY <1>1, <2>1, <2>5, <2>6, StoreTypes DEF TypeInv, TypeOK, Kind, Pending
<1>5. CASE StoreDepth \/ StoreParent
  <2>1. Store("depth") \/ Store("parent")
    BY <1>5 DEF StoreDepth, StoreParent
  <2>2. /\ register.scope \in Scopes
        /\ <<register.depth, dir[register.scope][2]>> \in Nat \X Scopes
        /\ <<dir[register.scope][1], register.parent>> \in Nat \X Scopes
    <3>1. register.scope \in Scopes /\ register.depth \in Nat /\ register.parent \in Scopes
      BY <1>1 DEF Register
    <3>2. dir[register.scope] \in Nat \X Scopes
      BY <1>1, <3>1
    <3> QED BY <3>1, <3>2
  <2>3. dir' \in [Scopes -> Nat \X Scopes]
    BY <1>1, <1>5, <2>2 DEF StoreDepth, StoreParent
  <2>4. UNCHANGED <<sticky, count, cell, seq, ring>>
    BY <1>5 DEF StoreDepth, StoreParent
  <2> QED BY <1>1, <2>1, <2>3, <2>4, StoreTypes DEF TypeInv, TypeOK, Kind, Pending
<1>6. CASE StoreSeq
  <2>1. Store("seq")
    BY <1>6 DEF StoreSeq
  <2>2. seq' \in Nat /\ UNCHANGED <<sticky, count, cell, dir, ring>>
    BY <1>1, <1>6 DEF StoreSeq
  <2> QED BY <1>1, <2>1, <2>2, StoreTypes DEF TypeInv, TypeOK, Kind, Pending
<1>7. CASE StoreSlot \/ StoreScope
  <2>1. Store("slot") \/ Store("scope")
    BY <1>7 DEF StoreSlot, StoreScope
  <2>2. Head(todo)[2] \in Slots
    BY <2>1, StoreTypes DEF Kind
  <2>3. /\ <<Head(todo)[2], ring[Place(seq)][2]>> \in (Slots \union {0}) \X Scopes
        /\ <<ring[Place(seq)][1], register.scope>> \in (Slots \union {0}) \X Scopes
    <3>1. register.scope \in Scopes
      BY <1>1 DEF Register
    <3>2. ring[Place(seq)] \in (Slots \union {0}) \X Scopes
      BY <1>1, PlaceRange
    <3> QED BY <2>2, <3>1, <3>2
  <2>4. ring' \in [0 .. Capacity - 1 -> (Slots \union {0}) \X Scopes]
    BY <1>1, <1>7, <2>3, PlaceRange DEF StoreSlot, StoreScope
  <2>5. UNCHANGED <<sticky, count, cell, dir, seq>>
    BY <1>7 DEF StoreSlot, StoreScope
  <2> QED BY <1>1, <2>1, <2>4, <2>5, StoreTypes DEF TypeInv, TypeOK, Kind, Pending
<1> QED BY <1>2, <1>3, <1>4, <1>5, <1>6, <1>7

(* The passes: signals, bails, the walk over the blocks, the gates.           *)
LEMMA PassesKeepTypes ==
  ASSUME TypeInv,
         \/ \E n \in Slots : PassSignal(n) \/ PassBail(n) \/ Probe(n) \/ Flush(n)
                             \/ WalkSignal(n) \/ Poke(n)
         \/ ParseDone \/ Settled \/ StartRecording \/ StartCheck \/ StartLower \/ LowerDone
         \/ \E b \in Blocks : Enter(b)
         \/ Exit \/ Refuse \/ Succeed
  PROVE  TypeInv'
<1>1. plate' = plate /\ mapped' = mapped /\ runs' = runs
  BY DEF PassSignal, PassBail, Probe, Flush, WalkSignal, Poke, ParseDone, Settled,
         StartRecording, StartCheck, StartLower, LowerDone, Enter, Exit, Refuse, Succeed,
         Conclude, GoTo
<1> USE DEF TypeInv, TypeOK, Pending, Kind, Early
<1>2. ASSUME NEW n \in Slots, PassSignal(n) PROVE TypeInv'
  <2>1. PICK where \in Scopes : Fire(n, where)
    BY <1>2, ContextTypes DEF PassSignal
  <2>2. UNCHANGED <<register, conv, scopeIds, scopeNext, scopeMap, phase, inside, home, spoke>>
    BY <1>2 DEF PassSignal, numbering
  <2> QED BY <1>1, <2>1, <2>2, FireTypes DEF plate
<1>3. ASSUME NEW n \in Slots, PassBail(n) PROVE TypeInv'
  <2>1. Fire(n, 0) /\ register' \in Register /\ phase' = "refused"
    BY <1>3, ContextTypes DEF PassBail
  <2>2. UNCHANGED <<conv, scopeIds, scopeNext, scopeMap, inside, home, spoke>>
    BY <1>3 DEF PassBail, numbering
  <2> QED BY <1>1, <2>1, <2>2, FireTypes, ContextTypes DEF plate
<1>4. ASSUME NEW n \in Slots, Probe(n) PROVE TypeInv'
  BY <1>1, <1>4 DEF Probe, numbering, source, plate
<1>5. ASSUME NEW n \in Slots, Flush(n) PROVE TypeInv'
  <2>1. Fire(n, NoScope) /\ conv' \subseteq Slots
    BY <1>5 DEF Flush
  <2>2. UNCHANGED <<register, scopeIds, scopeNext, scopeMap, phase, inside, home, spoke>>
    BY <1>5 DEF Flush, numbering
  <2> QED BY <1>1, <2>1, <2>2, FireTypes, ContextTypes DEF plate
<1>6. ASSUME NEW n \in Slots, WalkSignal(n) PROVE TypeInv'
  <2>1. Fire(n, ByteOf(Here)) /\ spoke' \in BOOLEAN /\ Here \in 0 .. MaxBlocks
    BY <1>6, WalkTypes DEF WalkSignal, Ready
  <2>2. UNCHANGED <<register, conv, scopeIds, scopeNext, scopeMap, phase, inside, home>>
    BY <1>6 DEF WalkSignal, numbering
  <2>3. ByteOf(Here) \in Scopes
    <3>1. Here \in Nat
      BY <2>1, PlateAssumption
    <3> QED BY <3>1, ContextTypes
  <2> QED BY <1>1, <2>1, <2>2, <2>3, FireTypes DEF plate
<1>7. ASSUME NEW n \in Slots, Poke(n) PROVE TypeInv'
  <2>1. todo' = <<<<"sticky", n>>>>
    BY <1>7 DEF Poke
  <2>2. todo' \in Seq(Pending) /\ \A k \in 1 .. Len(todo') : todo'[k][1] = "sticky"
    BY <2>1
  <2>3. UNCHANGED <<register, conv, scopeIds, scopeNext, scopeMap, phase, fired, inside, home, spoke>>
    BY <1>7 DEF Poke, numbering, source
  <2> QED BY <1>1, <2>2, <2>3 DEF plate
<1>8. CASE ParseDone \/ Settled \/ LowerDone
  <2>1. /\ UNCHANGED <<register, todo, conv, scopeIds, scopeNext, scopeMap,
                       fired, inside, home, spoke>>
        /\ \/ phase = "parse" /\ phase' = "settle"
           \/ phase = "settle" /\ phase' = "flush"
           \/ phase = "lower" /\ phase' = "emit"
    BY <1>8 DEF ParseDone, Settled, LowerDone, Ready, GoTo, numbering, source
  <2> QED BY <1>1, <2>1 DEF plate, Passes
<1>9. CASE StartRecording
  <2>1. scopeIds' \in Seq(Scopes) /\ Len(scopeIds') = 1 /\ scopeNext' \in Scopes
        /\ register' \in Register /\ scopeMap' \in [Blocks -> Scopes]
    BY <1>9, ContextTypes DEF StartRecording
  <2>2. phase' = "record" /\ inside = <<>> /\ UNCHANGED <<todo, conv, fired, inside, home, spoke>>
    BY <1>9 DEF Ready, StartRecording, GoTo, source
  <2> QED BY <1>1, <2>1, <2>2 DEF plate, Passes
<1>10. CASE StartCheck \/ StartLower
  <2>1. register' \in Register /\ phase' \in {"check", "lower"}
    BY <1>10, ContextTypes DEF StartCheck, StartLower, GoTo
  <2>2. UNCHANGED <<todo, conv, scopeIds, scopeNext, scopeMap, fired, inside, home, spoke>>
    BY <1>10 DEF StartCheck, StartLower, numbering, source
  <2> QED BY <1>1, <2>1, <2>2 DEF plate, Passes
<1>11. ASSUME NEW b \in Blocks, Enter(b) PROVE TypeInv'
  <2>1. phase = "record" /\ phase' = "record"
    BY <1>11 DEF Enter, Ready
  <2>2. /\ scopeMap' \in [Blocks -> Scopes] /\ scopeNext' \in Scopes /\ register' \in Register
        /\ ScopeId(b) \in Scopes /\ Here \in 0 .. MaxBlocks
    BY <1>11, <2>1, WalkTypes DEF Enter
  <2>3. /\ scopeIds' \in Seq(Scopes) /\ Len(scopeIds') = Len(scopeIds) + 1
        /\ inside' \in Seq(Blocks) /\ Len(inside') = Len(inside) + 1
    BY <1>11, <2>2 DEF Enter
  <2>4. home' \in Seq(0 .. MaxBlocks)
    <3>1. home' = home \/ home' = Append(home, Here)
      BY <1>11 DEF Enter
    <3>2. home \in Seq(0 .. MaxBlocks)
      OBVIOUS
    <3>3. Append(home, Here) \in Seq(0 .. MaxBlocks)
      BY <2>2, <3>2
    <3> QED BY <3>1, <3>2, <3>3
  <2>5. spoke' = FALSE /\ UNCHANGED <<todo, conv, fired>>
    BY <1>11 DEF Enter
  <2>6. Len(scopeIds') = Len(inside') + 1
    BY <2>1, <2>3
  <2> QED BY <1>1, <2>1, <2>2, <2>3, <2>4, <2>5, <2>6 DEF plate
<1>12. CASE Exit
  <2>1. phase = "record" /\ phase' = "record" /\ inside # <<>>
    BY <1>12 DEF Exit, Ready
  <2>2. /\ scopeIds' \in Seq(Scopes) /\ inside' \in Seq(Blocks) /\ register' \in Register
        /\ Len(scopeIds') = Len(scopeIds) - 1 /\ Len(inside') = Len(inside) - 1
    BY <1>12, <2>1, WalkTypes DEF Exit
  <2>3. spoke' \in BOOLEAN /\ UNCHANGED <<todo, conv, scopeNext, scopeMap, fired, home>>
    BY <1>12 DEF Exit
  <2>4. Len(scopeIds') = Len(inside') + 1
    BY <2>1, <2>2
  <2> QED BY <1>1, <2>1, <2>2, <2>3, <2>4 DEF plate
<1>13. CASE Refuse \/ Succeed
  <2>1. PICK status \in Status : todo' = IF mapped THEN <<<<"sticky", status>>>> ELSE <<>>
    BY <1>13 DEF Refuse, Succeed, Conclude, Status
  <2>2. todo' = <<>> \/ todo' = <<<<"sticky", status>>>>
    BY <2>1
  <2>3. todo' \in Seq(Pending) /\ \A k \in 1 .. Len(todo') : todo'[k][1] = "sticky"
    <3>1. <<"sticky", status>> \in Pending
      OBVIOUS
    <3>2. CASE todo' = <<>>
      BY <3>2
    <3>3. CASE todo' = <<<<"sticky", status>>>>
      <4>1. todo' \in Seq(Pending)
        BY <3>1, <3>3
      <4>2. Len(todo') = 1 /\ todo'[1] = <<"sticky", status>>
        BY <3>3
      <4> QED BY <4>1, <4>2
    <3> QED BY <2>2, <3>2, <3>3
  <2>4. phase' = "over" /\ UNCHANGED <<register, conv, scopeIds, scopeNext, scopeMap,
                                       fired, inside, home, spoke>>
    BY <1>13 DEF Refuse, Succeed, Conclude, GoTo, numbering, source
  <2> QED BY <1>1, <2>3, <2>4 DEF plate
<1> QED BY <1>2, <1>3, <1>4, <1>5, <1>6, <1>7, <1>8, <1>9, <1>10, <1>11, <1>12, <1>13

(* A run starts, resets what counts it, ends or is killed.                    *)
LEMMA RunsKeepTypes ==
  ASSUME TypeInv, StartRun \/ ResetCounts \/ ResetScopes \/ EndRun \/ Kill
  PROVE  TypeInv'
<1> USE DEF TypeInv, TypeOK, Early
<1>1. CASE StartRun
  <2>1. runs' \in 0 .. MaxRuns
    <3>1. runs' = runs + 1 /\ runs < MaxRuns /\ runs \in 0 .. MaxRuns
      BY <1>1 DEF StartRun
    <3> QED BY <3>1, PlateAssumption
  <2>5. seq' \in Nat
    <3>1. (seq' = 0 \/ seq' = seq) /\ seq \in Nat
      BY <1>1 DEF StartRun
    <3> QED BY <3>1
  <2>2. mapped' \in BOOLEAN /\ spoke' = FALSE /\ phase' = "reset_counts"
    BY <1>1 DEF StartRun
  <2>3. fired' = <<>> /\ inside' = <<>> /\ home' = <<>>
    BY <1>1 DEF StartRun
  <2>4. UNCHANGED <<sticky, count, cell, dir, ring, register, todo, conv,
                    scopeIds, scopeNext, scopeMap>>
    BY <1>1 DEF StartRun, numbering
  <2>6. mapped' \in BOOLEAN /\ spoke' \in BOOLEAN
    BY <2>2
  <2>7. /\ fired' \in Seq(Slots \X Scopes) /\ inside' \in Seq(Blocks)
        /\ home' \in Seq(0 .. MaxBlocks)
    BY <2>3
  <2> QED BY <2>1, <2>2, <2>3, <2>4, <2>5, <2>6, <2>7
<1>2. CASE ResetCounts
  <2>1. count' \in [Slots -> 0 .. Many]
    BY <1>2, PlateAssumption DEF ResetCounts
  <2>2. phase = "reset_counts" /\ phase' = "reset_scopes"
    BY <1>2 DEF ResetCounts
  <2>3. UNCHANGED <<sticky, cell, dir, seq, ring, mapped, register, todo, conv, scopeIds,
                    scopeNext, scopeMap, runs, fired, inside, home, spoke>>
    BY <1>2 DEF ResetCounts, numbering, source
  <2> QED BY <2>1, <2>2, <2>3
<1>3. CASE ResetScopes
  <2>1. /\ cell' \in [Slots -> [Scopes -> 0 .. Many]] /\ dir' \in [Scopes -> Nat \X Scopes]
        /\ register' \in Register
    <3>1. /\ 0 \in 0 .. Many /\ Unset \in Nat \X Scopes
      BY ContextTypes, PlateAssumption DEF Unset
    <3>2. CASE mapped
      <4>1. cell' = [n \in Slots |-> [s \in Scopes |-> 0]] /\ dir' = [s \in Scopes |-> Unset]
            /\ register' = NoContext
        BY <1>3, <3>2 DEF ResetScopes
      <4> HIDE DEF TypeInv, TypeOK
      <4> QED BY <3>1, <4>1, ContextTypes
    <3>3. CASE ~mapped
      BY <1>3, <3>3 DEF ResetScopes
    <3> QED BY <3>2, <3>3
  <2>2. phase = "reset_scopes" /\ phase' = "parse"
    BY <1>3 DEF ResetScopes
  <2>3. UNCHANGED <<sticky, count, seq, ring, mapped, todo, conv, scopeIds, scopeNext,
                    scopeMap, runs, fired, inside, home, spoke>>
    BY <1>3 DEF ResetScopes, numbering, source
  <2> QED BY <2>1, <2>2, <2>3 DEF Passes
<1>4. CASE EndRun \/ Kill
  <2>1. Lose
    BY <1>4 DEF EndRun, Kill
  <2>2. /\ todo' = <<>> /\ scopeIds' = <<>> /\ inside' = <<>> /\ home' = <<>>
        /\ conv' = {} /\ phase' = "idle" /\ register' = NoContext /\ scopeNext' = 0
        /\ scopeMap' \in [Blocks -> Scopes]
    BY <2>1, ContextTypes DEF Lose
  <2>3. mapped' = FALSE /\ spoke' = FALSE
    BY <2>1 DEF Lose
  <2>4. UNCHANGED <<sticky, count, cell, dir, seq, ring, runs, fired>>
    BY <2>1 DEF Lose, plate
  <2>5. /\ mapped' \in BOOLEAN /\ spoke' \in BOOLEAN /\ scopeNext' \in Scopes
        /\ register' \in Register
    BY <2>2, <2>3, ContextTypes
  <2>6. /\ todo' \in Seq(Kind \X (Slots \union Status)) /\ scopeIds' \in Seq(Scopes)
        /\ inside' \in Seq(Blocks) /\ home' \in Seq(0 .. MaxBlocks) /\ Len(todo') = 0
    BY <2>2
  <2> QED BY <2>2, <2>4, <2>5, <2>6 DEF Kind
<1> QED BY <1>1, <1>2, <1>3, <1>4

(* Every action keeps the types.                                              *)
LEMMA TypeStep == TypeInv /\ [Next]_vars => TypeInv'
<1> SUFFICES ASSUME TypeInv, [Next]_vars PROVE TypeInv'
  OBVIOUS
<1>1. CASE Next
  BY <1>1, StoresKeepTypes, PassesKeepTypes, RunsKeepTypes DEF Next
<1>2. CASE UNCHANGED vars
  BY <1>2 DEF TypeInv, TypeOK, vars, plate, numbering, source
<1> QED BY <1>1, <1>2

(* The types, and the one id more than open blocks, always hold.              *)
LEMMA TypesHold == Spec => []TypeInv
<1> QED BY TypeInit, TypeStep, PTL DEF Spec

(* Every variable keeps its type: the stack of ids is never read when empty,  *)
(* no counter leaves its cap and no event its ring (src/trace.rs).            *)
THEOREM TypesCorrect == Spec => []TypeOK
<1>1. TypeInv => TypeOK
  BY DEF TypeInv
<1> QED BY <1>1, TypesHold, PTL
-----------------------------------------------------------------------------
(* A boolean is stored before its counter.                                    *)

StickyInv ==
  /\ CountersImplySticky
  /\ \A k \in 1 .. Len(todo) :
       todo[k][1] = "count" =>
         \/ sticky[todo[k][2]]
         \/ \E j \in 1 .. k - 1 : todo[j] = <<"sticky", todo[k][2]>>

(* Every action keeps a counter behind its boolean, stored or still to come.  *)
LEMMA StickyStep == TypeInv /\ TypeInv' /\ StickyInv /\ [Next]_vars => StickyInv'
<1> SUFFICES ASSUME TypeInv, TypeInv', StickyInv, [Next]_vars PROVE StickyInv'
  OBVIOUS
<1>1. /\ sticky \in [Slots \union Status -> BOOLEAN] /\ count \in [Slots -> 0 .. Many]
      /\ Many \in Nat
  BY PlateAssumption DEF TypeInv, TypeOK
(* What is queued at once has its boolean first.                              *)
<1>2. ASSUME NEW n \in Slots, NEW where \in Scopes, Fire(n, where), UNCHANGED <<sticky, count>>
      PROVE  StickyInv'
  <2>1. CASE mapped
    <3>1. todo' = Signal(n)
      BY <1>2, <2>1 DEF Fire
    <3>2. Len(todo') = 8 /\ todo'[1] = <<"sticky", n>> /\ \A k \in 1 .. 8 : todo'[k][2] = n
      BY <3>1, SignalStores
    <3>3. \A k \in 1 .. 8 : todo'[k][1] = "count" => 1 \in 1 .. k - 1
      BY <3>1, SignalStores
    <3> QED BY <1>2, <3>2, <3>3 DEF StickyInv, CountersImplySticky
  <2>2. CASE ~mapped
    BY <1>2, <2>2 DEF Fire, StickyInv, CountersImplySticky
  <2> QED BY <2>1, <2>2
<1>3. ASSUME UNCHANGED <<sticky, count>>, UNCHANGED todo \/ todo' = <<>>
             \/ \E n : todo' = <<<<"sticky", n>>>>
      PROVE  StickyInv'
  <2>1. CASE UNCHANGED todo
    BY <1>3, <2>1 DEF StickyInv, CountersImplySticky
  <2>2. CASE todo' = <<>>
    BY <1>3, <2>2 DEF StickyInv, CountersImplySticky
  <2>3. ASSUME NEW n, todo' = <<<<"sticky", n>>>> PROVE StickyInv'
    <3>1. Len(todo') = 1 /\ todo'[1] = <<"sticky", n>>
      BY <2>3
    <3> QED BY <1>3, <3>1 DEF StickyInv, CountersImplySticky
  <2> QED BY <1>3, <2>1, <2>2, <2>3
(* A store is off the queue once made.                                        *)
<1>4. ASSUME NEW kind \in Kind, Store(kind), UNCHANGED count,
             IF kind = "sticky" THEN sticky' = [sticky EXCEPT ![Head(todo)[2]] = TRUE]
             ELSE UNCHANGED sticky
      PROVE  StickyInv'
  <2>1. /\ Head(todo)[1] = kind /\ Head(todo)[2] \in Slots \union Status
        /\ \A k \in 1 .. Len(todo') : todo'[k] = todo[k + 1]
        /\ Len(todo') = Len(todo) - 1 /\ todo # <<>>
    BY <1>4, StoreTypes
  <2>2. todo \in Seq(Pending) /\ Head(todo) = todo[1] /\ Len(todo) \in Nat
    BY <2>1 DEF TypeInv, TypeOK, Pending, Kind
  <2>3. \A n \in Slots \union Status : sticky[n] => sticky'[n]
    BY <1>1, <1>4, <2>1
  <2>4. CountersImplySticky'
    BY <1>4, <2>3 DEF StickyInv, CountersImplySticky
  <2>5. ASSUME NEW k \in 1 .. Len(todo'), todo'[k][1] = "count"
        PROVE  \/ sticky'[todo'[k][2]]
               \/ \E j \in 1 .. k - 1 : todo'[j] = <<"sticky", todo'[k][2]>>
    <3>1. k + 1 \in 1 .. Len(todo) /\ todo'[k] = todo[k + 1]
      BY <2>1, <2>2
    <3>2. todo[k + 1][2] \in Slots
      BY <2>5, <3>1 DEF TypeInv
    <3>3. CASE sticky[todo[k + 1][2]]
      BY <2>3, <3>1, <3>2, <3>3
    <3>4. ASSUME NEW j \in 1 .. (k + 1) - 1, todo[j] = <<"sticky", todo[k + 1][2]>>
          PROVE  \/ sticky'[todo'[k][2]]
                 \/ \E i \in 1 .. k - 1 : todo'[i] = <<"sticky", todo'[k][2]>>
      <4>1. CASE j = 1
        <5>1. kind = "sticky" /\ Head(todo)[2] = todo[k + 1][2]
          BY <2>1, <2>2, <3>4, <4>1
        <5> QED BY <1>1, <1>4, <2>1, <3>1, <5>1
      <4>2. CASE j > 1
        <5>1. j - 1 \in 1 .. k - 1 /\ j - 1 \in 1 .. Len(todo') /\ (j - 1) + 1 = j
          BY <3>4, <4>2, <2>1
        <5>2. todo'[j - 1] = todo[j]
          BY <2>1, <5>1
        <5> QED BY <3>1, <3>4, <5>1, <5>2
      <4> QED BY <3>4, <4>1, <4>2
    <3> QED BY <2>5, <3>1, <3>3, <3>4 DEF StickyInv
  <2> QED BY <2>4, <2>5 DEF StickyInv
<1>5. CASE StoreCount
  <2>1. Store("count") /\ UNCHANGED sticky /\ count' = [count EXCEPT ![Head(todo)[2]] = Bump(@)]
    BY <1>5 DEF StoreCount
  <2>2. Head(todo)[1] = "count" /\ todo # <<>> /\ Head(todo)[2] \in Slots
    BY <2>1, StoreTypes DEF Kind
  <2>3. sticky[Head(todo)[2]]
    <3>1. todo \in Seq(Pending) /\ Head(todo) = todo[1] /\ 1 \in 1 .. Len(todo)
      BY <2>2 DEF TypeInv, TypeOK, Pending, Kind
    <3> QED BY <2>2, <3>1 DEF StickyInv
  <2>4. CountersImplySticky'
    BY <1>1, <2>1, <2>2, <2>3 DEF StickyInv, CountersImplySticky
  <2>5. ASSUME NEW k \in 1 .. Len(todo'), todo'[k][1] = "count"
        PROVE  \/ sticky'[todo'[k][2]]
               \/ \E j \in 1 .. k - 1 : todo'[j] = <<"sticky", todo'[k][2]>>
    <3>1. /\ \A i \in 1 .. Len(todo') : todo'[i] = todo[i + 1]
          /\ Len(todo') = Len(todo) - 1
      BY <2>1, StoreTypes DEF Kind
    <3>5. todo \in Seq(Pending) /\ Len(todo) \in Nat /\ Head(todo) = todo[1]
      BY <2>2 DEF TypeInv, TypeOK, Pending, Kind
    <3>2. k + 1 \in 1 .. Len(todo) /\ todo'[k] = todo[k + 1]
      BY <3>1, <3>5
    <3>3. CASE sticky[todo[k + 1][2]]
      BY <2>1, <3>2, <3>3
    <3>4. ASSUME NEW j \in 1 .. (k + 1) - 1, todo[j] = <<"sticky", todo[k + 1][2]>>
          PROVE  \E i \in 1 .. k - 1 : todo'[i] = <<"sticky", todo'[k][2]>>
      <4>1. j # 1
        BY <2>2, <3>1, <3>4, <3>5
      <4>2. j - 1 \in 1 .. k - 1 /\ j - 1 \in 1 .. Len(todo') /\ (j - 1) + 1 = j
        BY <3>1, <3>4, <3>5, <4>1
      <4>3. todo'[j - 1] = todo[j]
        BY <3>1, <4>2
      <4> QED BY <3>2, <3>4, <4>2, <4>3
    <3> QED BY <2>5, <3>2, <3>3, <3>4 DEF StickyInv
  <2> QED BY <2>4, <2>5 DEF StickyInv
<1>6. CASE \/ StoreSticky \/ StoreCell \/ StoreDepth \/ StoreParent
         \/ StoreSeq \/ StoreSlot \/ StoreScope
  BY <1>4, <1>6 DEF StoreSticky, StoreCell, StoreDepth, StoreParent, StoreSeq, StoreSlot,
                    StoreScope, Kind
<1>7. CASE ResetCounts
  <2>1. UNCHANGED <<sticky, todo>>
    BY <1>7 DEF ResetCounts
  <2>2. ASSUME NEW n \in Slots, count'[n] > 0 PROVE count[n] > 0
    BY <1>1, <1>7, <2>2 DEF ResetCounts
  <2> QED BY <2>1, <2>2 DEF StickyInv, CountersImplySticky
<1>8. CASE StartRun \/ ResetScopes \/ EndRun \/ Kill
  BY <1>3, <1>8 DEF StartRun, ResetScopes, EndRun, Kill, Lose, plate
<1>9. ASSUME NEW n \in Slots,
             PassSignal(n) \/ PassBail(n) \/ Flush(n) \/ WalkSignal(n)
      PROVE  StickyInv'
  <2>1. PICK where \in Scopes : Fire(n, where)
    <3>1. CASE WalkSignal(n)
      <4>1. Here \in Nat
        BY <3>1, WalkTypes, PlateAssumption DEF WalkSignal, Ready
      <4> QED BY <3>1, <4>1, ContextTypes DEF WalkSignal
    <3> QED BY <1>9, <3>1, ContextTypes DEF PassSignal, PassBail, Flush
  <2>2. UNCHANGED <<sticky, count>>
    BY <1>9 DEF PassSignal, PassBail, Flush, WalkSignal, plate
  <2> QED BY <1>2, <2>1, <2>2
<1>10. ASSUME NEW n \in Slots, Probe(n) \/ Poke(n) PROVE StickyInv'
  BY <1>3, <1>10 DEF Probe, Poke, plate
<1>11. CASE ParseDone \/ Settled \/ StartRecording \/ StartCheck \/ StartLower \/ LowerDone
  BY <1>3, <1>11 DEF ParseDone, Settled, StartRecording, StartCheck, StartLower, LowerDone, GoTo, plate
<1>12. CASE Exit \/ \E b \in Blocks : Enter(b)
  BY <1>3, <1>12 DEF Exit, Enter, plate
<1>13. CASE Refuse \/ Succeed
  BY <1>3, <1>13 DEF Refuse, Succeed, Conclude, GoTo, plate
<1>14. CASE UNCHANGED vars
  BY <1>3, <1>14 DEF vars, plate
<1> QED BY <1>5, <1>6, <1>7, <1>8, <1>9, <1>10, <1>11, <1>12, <1>13, <1>14 DEF Next

(* counter > 0 => boolean == 1 at every instant (documentation.md), for any   *)
(* number of signals and runs, whichever store a run was killed after.        *)
THEOREM CountersAreSticky == Spec => []CountersImplySticky
<1>1. Init => StickyInv
  BY DEF Init, StickyInv, CountersImplySticky
<1>2. StickyInv => CountersImplySticky
  BY DEF StickyInv
<1> QED BY <1>1, <1>2, StickyStep, TypesHold, PTL DEF Spec
-----------------------------------------------------------------------------
(* The register says where the walk is.                                       *)

(* The innermost open block's number is its position in first-visit order,    *)
(* the stack of ids is the stack of blocks, and the register what both say.   *)
WalkInv ==
  /\ scopeNext = ByteOf(Len(home) + 1)
  /\ \A b \in 1 .. Len(home) : scopeMap[b] = ByteOf(b) /\ home[b] < b
  /\ scopeIds[1] = 0
  /\ \A k \in 1 .. Len(inside) :
       /\ inside[k] \in 1 .. Len(home)
       /\ scopeIds[k + 1] = ByteOf(inside[k])
       /\ home[inside[k]] = IF k = 1 THEN 0 ELSE inside[k - 1]
  /\ register = [scope |-> ByteOf(Here), depth |-> Len(inside),
                 parent |-> IF inside = <<>> THEN NoScope ELSE ByteOf(home[Here])]

ContextInv ==
  /\ phase \in Early => register = NoContext /\ home = <<>> /\ spoke = FALSE
  /\ phase = "check" => register = CheckerContext
  /\ phase \in {"lower", "emit", "refused"} => register = Root
  /\ phase = "record" => WalkInv

(* A block numbered before the sentinel is its own byte.                      *)
LEMMA ByteOfSmall ==
  /\ ByteOf(0) = 0 /\ ByteOf(1) = 1
  /\ \A n \in Nat : ByteOf(n) \in 0 .. NoScope /\ (ByteOf(n) < NoScope => ByteOf(n) = n)
  /\ \A n \in Nat : Least(ByteOf(n) + 1, NoScope) = ByteOf(n + 1)
BY PlateAssumption DEF ByteOf, Least

(* The recording walk starts at the root, with no block visited.              *)
LEMMA RecordingStarts ==
  ASSUME TypeInv, TypeInv', ContextInv, StartRecording
  PROVE  WalkInv'
<1>1. phase = "flush" /\ inside = <<>> /\ home = <<>>
  BY DEF StartRecording, Ready, TypeInv, ContextInv, Early
<1>2. scopeIds' = <<0>> /\ scopeNext' = 1 /\ register' = Root /\ inside' = inside /\ home' = home
  BY DEF StartRecording, source
<1>3. Len(home') = 0 /\ Len(inside') = 0 /\ scopeIds'[1] = 0 /\ Here' = 0
  BY <1>1, <1>2 DEF Here
<1> QED BY <1>1, <1>2, <1>3, ByteOfSmall DEF WalkInv, Root

(* Entering a block keeps the register where the walk is.                      *)
LEMMA EnterWalk ==
  ASSUME TypeInv, TypeInv', ContextInv, NEW b \in Blocks, Enter(b)
  PROVE  /\ WalkInv'
         /\ b \in 1 .. Len(home') /\ home'[b] = Here /\ Here' = b
         /\ Here \in Nat /\ Here < b
         /\ Len(home) <= Len(home') /\ \A a \in 1 .. Len(home) : home'[a] = home[a]
         /\ Len(home') = Len(home) \/ (Len(home') = b /\ b = Len(home) + 1)
         /\ Len(inside') = Len(inside) + 1
         /\ inside' = Append(inside, b)
<1>1. phase = "record" /\ WalkInv
  BY DEF Enter, Ready, ContextInv
<1>2. /\ scopeIds \in Seq(Scopes) /\ inside \in Seq(Blocks) /\ home \in Seq(0 .. MaxBlocks)
      /\ Len(scopeIds) = Len(inside) + 1 /\ scopeMap \in [Blocks -> Scopes]
      /\ Len(inside) \in Nat /\ Len(home) \in Nat /\ b \in Nat /\ b >= 1
  BY <1>1, PlateTypes
<1>3. Visited = 1 .. Len(home) /\ Cardinality(Visited) = Len(home)
  <2>1. DOMAIN home = 1 .. Len(home)
    BY <1>2
  <2>2. Cardinality(1 .. Len(home)) = Len(home)
    <3>1. Cardinality(1 .. Len(home)) = IF 1 > Len(home) THEN 0 ELSE Len(home) - 1 + 1
      <4>1. Len(home) \in Int /\ 1 \in Int
        BY <1>2
      <4> QED BY <4>1, FS_Interval
    <3> QED BY <1>2, <3>1
  <2> QED BY <2>1, <2>2 DEF Visited
<1>4. /\ inside' = Append(inside, b) /\ scopeIds' = Append(scopeIds, ScopeId(b))
      /\ scopeMap' = [scopeMap EXCEPT ![b] = ScopeId(b)] /\ scopeNext' = NextAfter(b)
      /\ register' = EnteredContext(b)
  BY DEF Enter
<1>5. /\ Len(inside') = Len(inside) + 1 /\ inside'[Len(inside) + 1] = b
      /\ \A k \in 1 .. Len(inside) : inside'[k] = inside[k]
      /\ \A k \in 1 .. Len(scopeIds) : scopeIds'[k] = scopeIds[k]
      /\ scopeIds'[Len(scopeIds) + 1] = ScopeId(b)
      /\ inside' # <<>> /\ Here' = b
  <2>1. /\ Len(inside') = Len(inside) + 1 /\ inside'[Len(inside) + 1] = b
        /\ \A k \in 1 .. Len(inside) : inside'[k] = inside[k]
        /\ inside' # <<>>
    BY <1>2, <1>4
  <2>2. /\ \A k \in 1 .. Len(scopeIds) : scopeIds'[k] = scopeIds[k]
        /\ scopeIds'[Len(scopeIds) + 1] = ScopeId(b)
    BY <1>2, <1>4
  <2>3. Here' = inside'[Len(inside')]
    BY <2>1 DEF Here, Last
  <2> QED BY <2>1, <2>2, <2>3
<1>6. Here \in Nat /\ Here \in 0 .. Len(home) /\ Last(scopeIds) = ByteOf(Here)
  <2>1. CASE inside = <<>>
    BY <1>1, <1>2, <2>1, ByteOfSmall DEF Here, Last, WalkInv
  <2>2. CASE inside # <<>>
    <3>1. Len(inside) \in 1 .. Len(inside) /\ Here = inside[Len(inside)]
      BY <1>2, <2>2 DEF Here, Last
    <3> QED BY <1>1, <1>2, <3>1 DEF WalkInv, Last
  <2> QED BY <2>1, <2>2
<1>7. /\ ScopeId(b) = ByteOf(b) /\ b \in 1 .. Len(home') /\ home'[b] = Here /\ Here < b
      /\ Len(home') >= Len(home) /\ (\A a \in 1 .. Len(home) : home'[a] = home[a])
      /\ scopeNext' = ByteOf(Len(home') + 1)
      /\ Len(home') = Len(home) \/ (Len(home') = b /\ b = Len(home) + 1)
      /\ \A a \in 1 .. Len(home') : a \in 1 .. Len(home) \/ a = b
  <2>1. CASE b \in Visited
    <3>1. home' = home /\ home[b] = Here /\ ScopeId(b) = scopeMap[b] /\ scopeNext' = scopeNext
      BY <1>4, <2>1 DEF Enter, ScopeId, NextAfter
    <3>2. b \in 1 .. Len(home)
      BY <1>3, <2>1
    <3>3. scopeMap[b] = ByteOf(b) /\ home[b] < b
      BY <1>1, <3>2 DEF WalkInv
    <3>4. scopeNext' = ByteOf(Len(home') + 1)
      BY <1>1, <3>1 DEF WalkInv
    <3>5. Here < b /\ ScopeId(b) = ByteOf(b)
      BY <3>1, <3>3
    <3>6. \A a \in 1 .. Len(home') : a \in 1 .. Len(home)
      BY <3>1
    <3>7. Len(home') >= Len(home) /\ Len(home') = Len(home)
      BY <1>2, <3>1
    <3>8. b \in 1 .. Len(home') /\ home'[b] = Here
      BY <3>1, <3>2
    <3>9. \A a \in 1 .. Len(home) : home'[a] = home[a]
      BY <3>1
    <3> QED BY <3>4, <3>5, <3>6, <3>7, <3>8, <3>9
  <2>2. CASE b \notin Visited
    <3>1. home' = Append(home, Here) /\ b = Len(home) + 1
      BY <1>3, <2>2 DEF Enter
    <3>2. /\ Len(home') = Len(home) + 1 /\ home'[Len(home) + 1] = Here
          /\ \A a \in 1 .. Len(home) : home'[a] = home[a]
      BY <1>2, <1>6, <3>1
    <3>3. ScopeId(b) = scopeNext /\ scopeNext' = Least(scopeNext + 1, NoScope)
      BY <1>4, <2>2 DEF ScopeId, NextAfter
    <3>4. scopeNext = ByteOf(b) /\ scopeNext' = ByteOf(b + 1)
      BY <1>1, <1>2, <3>1, <3>3, ByteOfSmall DEF WalkInv
    <3> QED BY <1>2, <1>6, <3>1, <3>2, <3>3, <3>4
  <2> QED BY <2>1, <2>2
<1>8. \A a \in 1 .. Len(home') : scopeMap'[a] = ByteOf(a) /\ home'[a] < a
  <2> TAKE a \in 1 .. Len(home')
  <2>1. CASE a = b
    BY <1>2, <1>4, <1>7, <2>1
  <2>2. CASE a # b
    BY <1>1, <1>2, <1>4, <1>7, <2>2 DEF WalkInv
  <2> QED BY <2>1, <2>2
<1>9. ASSUME NEW k \in 1 .. Len(inside')
      PROVE  /\ inside'[k] \in 1 .. Len(home')
             /\ scopeIds'[k + 1] = ByteOf(inside'[k])
             /\ home'[inside'[k]] = IF k = 1 THEN 0 ELSE inside'[k - 1]
  <2>1. CASE k = Len(inside) + 1
    <3>1. inside'[k] = b /\ scopeIds'[k + 1] = ByteOf(b)
      BY <1>2, <1>5, <1>7, <2>1
    <3>2. Here = IF k = 1 THEN 0 ELSE inside'[k - 1]
      BY <1>2, <1>5, <2>1 DEF Here, Last
    <3> QED BY <1>7, <3>1, <3>2
  <2>2. CASE k # Len(inside) + 1
    <3>1. k \in 1 .. Len(inside) /\ k + 1 \in 1 .. Len(scopeIds) /\ inside'[k] = inside[k]
      BY <1>2, <1>5, <2>2
    <3>2. k # 1 => k - 1 \in 1 .. Len(inside) /\ inside'[k - 1] = inside[k - 1]
      BY <1>5, <3>1
    <3>3. inside[k] \in 1 .. Len(home) /\ scopeIds[k + 1] = ByteOf(inside[k])
          /\ home[inside[k]] = IF k = 1 THEN 0 ELSE inside[k - 1]
      BY <1>1, <3>1 DEF WalkInv
    <3> QED BY <1>2, <1>5, <1>7, <3>1, <3>2, <3>3
  <2> QED BY <2>1, <2>2
<1>10. register' = [scope |-> ByteOf(b), depth |-> Len(inside'), parent |-> ByteOf(Here)]
  BY <1>2, <1>4, <1>5, <1>6, <1>7 DEF EnteredContext
<1>11. scopeIds'[1] = 0
  BY <1>1, <1>2, <1>5 DEF WalkInv
<1>12. WalkInv'
  BY <1>5, <1>7, <1>8, <1>9, <1>10, <1>11 DEF WalkInv
<1> QED BY <1>2, <1>4, <1>5, <1>6, <1>7, <1>12

(* So does leaving it.                                                        *)
LEMMA ExitWalk ==
  ASSUME TypeInv, TypeInv', ContextInv, Exit
  PROVE  /\ WalkInv'
         /\ inside # <<>> /\ Here \in 1 .. Len(home) /\ Here' = home[Here]
         /\ Len(inside') = Len(inside) - 1
         /\ \A k \in 1 .. Len(inside') : inside'[k] = inside[k]
<1>1. phase = "record" /\ WalkInv /\ inside # <<>>
  BY DEF Exit, Ready, ContextInv
<1>2. /\ scopeIds \in Seq(Scopes) /\ inside \in Seq(Blocks) /\ home \in Seq(0 .. MaxBlocks)
      /\ Len(scopeIds) = Len(inside) + 1
      /\ Len(inside) \in Nat /\ Len(inside) >= 1 /\ Len(home) \in Nat
  <2>1. /\ scopeIds \in Seq(Scopes) /\ inside \in Seq(Blocks) /\ home \in Seq(0 .. MaxBlocks)
        /\ Len(scopeIds) = Len(inside) + 1 /\ Len(inside) \in Nat /\ Len(home) \in Nat
    BY <1>1, PlateTypes
  <2>2. Len(inside) # 0
    BY ONLY <1>1, <2>1
  <2> QED BY ONLY <2>1, <2>2
<1>3. /\ inside' = Front(inside) /\ scopeIds' = Front(scopeIds)
      /\ register' = ReturnContext(scopeIds') /\ UNCHANGED <<scopeNext, scopeMap, home>>
  BY DEF Exit
<1>4. /\ inside' \in Seq(Blocks) /\ Len(inside') = Len(inside) - 1
      /\ \A k \in 1 .. Len(inside) - 1 : inside'[k] = inside[k]
  BY <1>1, <1>2, <1>3, FrontElements
<1>5. /\ scopeIds' \in Seq(Scopes) /\ Len(scopeIds') = Len(scopeIds) - 1
      /\ \A k \in 1 .. Len(scopeIds) - 1 : scopeIds'[k] = scopeIds[k]
  <2>1. scopeIds # <<>>
    BY <1>2
  <2> QED BY <1>2, <1>3, <2>1, FrontElements
<1>6. Here = inside[Len(inside)] /\ Here \in 1 .. Len(home)
  BY <1>1, <1>2 DEF Here, Last, WalkInv
<1>7. Here' = home[Here]
  <2>1. CASE Len(inside) = 1
    <3>1. inside' = <<>>
      BY <1>4, <2>1
    <3> QED BY <1>1, <1>2, <1>6, <2>1, <3>1 DEF Here, WalkInv
  <2>2. CASE Len(inside) # 1
    <3>1. inside' # <<>> /\ Here' = inside[Len(inside) - 1]
      BY <1>2, <1>4, <2>2 DEF Here, Last
    <3> QED BY <1>1, <1>2, <1>6, <2>2, <3>1 DEF WalkInv
  <2> QED BY <2>1, <2>2
<1>8. \A k \in 1 .. Len(inside') :
        /\ inside'[k] \in 1 .. Len(home')
        /\ scopeIds'[k + 1] = ByteOf(inside'[k])
        /\ home'[inside'[k]] = IF k = 1 THEN 0 ELSE inside'[k - 1]
  <2> TAKE k \in 1 .. Len(inside')
  <2>1. k \in 1 .. Len(inside) - 1 /\ inside'[k] = inside[k] /\ scopeIds'[k + 1] = scopeIds[k + 1]
    BY <1>2, <1>4, <1>5
  <2>2. k # 1 => inside'[k - 1] = inside[k - 1]
    BY <1>4, <2>1
  <2> QED BY <1>1, <1>2, <1>3, <2>1, <2>2 DEF WalkInv
<1>9. register' = [scope |-> ByteOf(Here'), depth |-> Len(inside'),
                   parent |-> IF inside' = <<>> THEN NoScope ELSE ByteOf(home'[Here'])]
  <2>1. Last(scopeIds') = ByteOf(Here')
    <3>1. CASE inside' = <<>>
      <4>1. Len(inside') = 0
        BY <3>1
      <4>2. Len(scopeIds') = 1 /\ scopeIds'[1] = scopeIds[1]
        BY <1>2, <1>4, <1>5, <4>1
      <4>3. Here' = 0 /\ scopeIds[1] = 0
        BY <1>1, <3>1 DEF Here, WalkInv
      <4> QED BY <4>2, <4>3, ByteOfSmall DEF Last
    <3>2. CASE inside' # <<>>
      <4>1. Len(inside') \in 1 .. Len(inside') /\ Here' = inside'[Len(inside')]
        BY <1>4, <3>2 DEF Here, Last
      <4> QED BY <1>2, <1>4, <1>5, <1>8, <4>1 DEF Last
    <3> QED BY <3>1, <3>2
  <2>2. ASSUME inside' # <<>>
        PROVE  Len(scopeIds') >= 2 /\ scopeIds'[Len(scopeIds') - 1] = ByteOf(home'[Here'])
    <3>1. Len(inside') \in 1 .. Len(inside') /\ Here' = inside'[Len(inside')]
      BY <1>4, <2>2 DEF Here, Last
    <3>2. home'[Here'] = IF Len(inside') = 1 THEN 0 ELSE inside'[Len(inside') - 1]
      BY <1>8, <3>1
    <3>3. CASE Len(inside') = 1
      <4>1. Len(scopeIds) = Len(inside') + 2 /\ Len(scopeIds') = Len(inside') + 1
        BY <1>2, <1>4, <1>5
      <4>2. Len(scopeIds') = 2 /\ Len(scopeIds') - 1 = 1 /\ 1 \in 1 .. Len(scopeIds) - 1
        BY <3>3, <4>1
      <4>3. scopeIds'[1] = 0
        BY <1>1, <1>5, <4>2 DEF WalkInv
      <4> QED BY <3>2, <3>3, <4>2, <4>3, ByteOfSmall
    <3>4. CASE Len(inside') # 1
      <4>1. Len(inside') - 1 \in 1 .. Len(inside') /\ Len(scopeIds') = Len(inside') + 1
        BY <1>2, <1>4, <1>5, <3>1, <3>4
      <4>2. scopeIds'[(Len(inside') - 1) + 1] = ByteOf(inside'[Len(inside') - 1])
        BY <1>8, <4>1
      <4> QED BY <1>4, <3>2, <3>4, <4>1, <4>2
    <3> QED BY <3>3, <3>4
  <2>3. inside' = <<>> => Len(scopeIds') = 1
    BY <1>2, <1>4, <1>5
  <2>4. Len(scopeIds') - 1 = Len(inside')
    BY <1>2, <1>4, <1>5
  <2> QED BY <1>3, <2>1, <2>2, <2>3, <2>4 DEF ReturnContext
<1>10. scopeIds'[1] = 0
  BY <1>1, <1>2, <1>5 DEF WalkInv
<1>11. WalkInv'
  BY <1>1, <1>3, <1>8, <1>9, <1>10 DEF WalkInv
<1> QED BY <1>1, <1>4, <1>6, <1>7, <1>11

(* Every action leaves the register with what its pass says.                  *)
LEMMA ContextStep == TypeInv /\ TypeInv' /\ ContextInv /\ [Next]_vars => ContextInv'
<1> SUFFICES ASSUME TypeInv, TypeInv', ContextInv, [Next]_vars PROVE ContextInv'
  OBVIOUS
<1>1. ASSUME UNCHANGED <<register, numbering, phase, inside, home>>,
             phase \in Early => UNCHANGED spoke
      PROVE  ContextInv'
  BY <1>1 DEF ContextInv, WalkInv, Here, numbering
<1>2. CASE \/ StoreSticky \/ StoreCount \/ StoreCell \/ StoreDepth \/ StoreParent
         \/ StoreSeq \/ StoreSlot \/ StoreScope
  BY <1>1, <1>2 DEF StoreSticky, StoreCount, StoreCell, StoreDepth, StoreParent, StoreSeq,
                    StoreSlot, StoreScope,
                    Store, source
<1>3. ASSUME NEW n \in Slots, PassSignal(n) \/ Probe(n) \/ Flush(n) \/ WalkSignal(n) \/ Poke(n)
      PROVE  ContextInv'
  BY <1>1, <1>3 DEF PassSignal, Probe, Flush, WalkSignal, Poke, source, Ready, Early
<1>4. ASSUME NEW n \in Slots, PassBail(n) PROVE ContextInv'
  BY <1>4 DEF PassBail, ContextInv, Early
<1>5. CASE StartRun \/ ResetCounts \/ ResetScopes
  <2>1. phase \in Early /\ phase' \in Early
    BY <1>5 DEF StartRun, ResetCounts, ResetScopes, Early
  <2>2. register' = NoContext /\ home' = <<>> /\ spoke' = FALSE
    BY <1>5, <2>1 DEF StartRun, ResetCounts, ResetScopes, source, ContextInv
  <2> QED BY <2>1, <2>2 DEF ContextInv, Early
<1>6. CASE ParseDone \/ Settled
  <2>1. phase \in Early /\ phase' \in Early
    BY <1>6 DEF ParseDone, Settled, Ready, GoTo, Early
  <2>2. register' = register /\ home' = home /\ spoke' = spoke
    BY <1>6 DEF ParseDone, Settled, source
  <2> QED BY <2>1, <2>2 DEF ContextInv, Early
<1>7. CASE StartRecording
  <2>1. phase' = "record"
    BY <1>7 DEF StartRecording, GoTo
  <2> QED BY <1>7, <2>1, RecordingStarts DEF ContextInv, Early
<1>8. ASSUME NEW b \in Blocks, Enter(b) PROVE ContextInv'
  <2>1. phase' = "record"
    BY <1>8 DEF Enter, Ready
  <2> QED BY <1>8, <2>1, EnterWalk DEF ContextInv, Early
<1>9. CASE Exit
  <2>1. phase' = "record"
    BY <1>9 DEF Exit, Ready
  <2> QED BY <1>9, <2>1, ExitWalk DEF ContextInv, Early
<1>10. CASE StartCheck \/ StartLower
  BY <1>10 DEF StartCheck, StartLower, GoTo, ContextInv, Early
<1>11. CASE LowerDone
  BY <1>11 DEF LowerDone, Ready, GoTo, ContextInv, Early
<1>12. CASE Refuse \/ Succeed
  BY <1>12 DEF Refuse, Succeed, Conclude, GoTo, ContextInv, Early
<1>13. CASE EndRun \/ Kill
  BY <1>13 DEF EndRun, Kill, Lose, ContextInv, Early
<1>14. CASE UNCHANGED vars
  BY <1>1, <1>14 DEF vars, source
<1> QED BY <1>2, <1>3, <1>4, <1>5, <1>6, <1>7, <1>8, <1>9, <1>10, <1>11, <1>12, <1>13, <1>14 DEF Next

(* The register always says where the walk is.                                *)
LEMMA ContextHolds == Spec => []ContextInv
<1>1. Init => ContextInv
  BY DEF Init, ContextInv, Early
<1> QED BY <1>1, ContextStep, TypesHold, PTL DEF Spec
-----------------------------------------------------------------------------
(* The events of a run.                                                       *)

(* A signal in progress: its last store has not been made.                    *)
Signalling == todo # <<>> /\ todo[Len(todo)][1] = "scope"

(* The last three stores of a signal are the event count and the event's two  *)
(* bytes, in this order.                                                      *)
EventLast ==
  \A k \in 1 .. Len(todo) :
    /\ (todo[k][1] = "seq") <=> (k = Len(todo) - 2)
    /\ (todo[k][1] = "slot") <=> (k = Len(todo) - 1)
    /\ (todo[k][1] = "scope") <=> (k = Len(todo))

(* The newest event is on its way, tagged by the register as it stands; with  *)
(* one store to come its first byte is in the ring.                           *)
Newest ==
  /\ fired # <<>>
  /\ \A k \in 1 .. Len(todo) : todo[k][2] = fired[Len(fired)][1]
  /\ register.scope = fired[Len(fired)][2]
  /\ EventLast
  /\ Len(todo) = 1 => ring[Place(seq)][1] = fired[Len(fired)][1]

(* The first events of the run that are within the ring are in it.            *)
RingHolds(last) ==
  \A k \in 1 .. last : k > seq - Capacity => ring[Place(k)] = fired[k]

EventInv ==
  /\ phase = "idle" => ~mapped /\ todo = <<>> /\ KilledRunReadable
  /\ phase \in {"reset_counts", "reset_scopes"} => fired = <<>> /\ todo = <<>>
  /\ ~mapped => todo = <<>> /\ (phase # "idle" => fired = <<>>)
  /\ mapped =>
       IF Signalling
       THEN /\ Newest
            /\ seq = Len(fired) - (IF Len(todo) >= 3 THEN 1 ELSE 0)
            /\ RingHolds(Len(fired) - 1)
       ELSE /\ \A k \in 1 .. Len(todo) : todo[k][1] = "sticky"
            /\ seq = Len(fired)
            /\ RingHolds(Len(fired))

(* The ring's places of two events less than a whole ring apart differ.       *)
LEMMA PlacesDiffer ==
  ASSUME NEW j \in Nat, NEW k \in Nat, j < k, k - j < Capacity, j > 0
  PROVE  Place(j) # Place(k)
<1> DEFINE a == (j - 1) \div Capacity
           b == (k - 1) \div Capacity
<1>1. Capacity \in Nat /\ Capacity > 0 /\ j - 1 \in Nat /\ k - 1 \in Nat
  BY PlateAssumption
<1>2. a \in Nat /\ b \in Nat /\ j - 1 = a * Capacity + Place(j) /\ k - 1 = b * Capacity + Place(k)
  BY <1>1 DEF Place
<1> HIDE DEF a, b
<1>3. SUFFICES ASSUME Place(j) = Place(k) PROVE FALSE
  OBVIOUS
<1>4. Place(k) \in Int /\ a * Capacity \in Int /\ b * Capacity \in Int
  BY <1>1, <1>2, PlaceRange
<1>5. b * Capacity - a * Capacity = k - j
  BY <1>2, <1>3, <1>4
<1>6. b * Capacity - a * Capacity = (b - a) * Capacity
  BY <1>1, <1>2
<1>7. CASE b <= a
  <2>1. (b - a) * Capacity <= 0
    BY <1>1, <1>2, <1>7
  <2> QED BY <1>5, <1>6, <2>1, <1>1
<1>8. CASE b > a
  <2>1. b - a \in Nat /\ b - a >= 1
    BY <1>2, <1>8
  <2>2. (b - a) * Capacity >= Capacity
    BY <1>1, <2>1
  <2> QED BY <1>5, <1>6, <2>2, <1>1
<1> QED BY <1>2, <1>7, <1>8

(* What is said of events is what a reader of a killed run needs.             *)
LEMMA Readable == TypeInv /\ EventInv => KilledRunReadable
<1> SUFFICES ASSUME TypeInv, EventInv, fired # <<>>,
                    phase \notin {"idle", "reset_counts", "reset_scopes"}
             PROVE  /\ seq \in {Len(fired) - 1, Len(fired)}
                    /\ \A k \in 1 .. seq - 1 :
                         k > seq - Capacity => ring[RingAt(k)] = fired[k]
  BY DEF EventInv, KilledRunReadable
<1>1. mapped /\ seq \in Nat /\ Len(fired) \in Nat /\ Len(todo) \in Nat
  <2>1. mapped
    BY DEF EventInv
  <2> QED BY <2>1, PlateTypes
<1>2. \A k : RingAt(k) = Place(k)
  BY DEF RingAt, Place
<1>3. seq \in {Len(fired) - 1, Len(fired)} /\ RingHolds(Len(fired) - 1)
  <2>1. CASE Signalling
    BY <1>1, <2>1 DEF EventInv
  <2>2. CASE ~Signalling
    BY <1>1, <2>2 DEF EventInv, RingHolds
  <2> QED BY <2>1, <2>2
<1> QED BY <1>1, <1>2, <1>3 DEF RingHolds

(* A signal fires while nothing is left to store.                             *)
LEMMA FireEvents ==
  ASSUME TypeInv, TypeInv', EventInv, NEW n \in Slots, NEW where \in Scopes,
         todo = <<>>, phase \notin {"idle", "reset_counts", "reset_scopes"},
         phase' \notin {"idle", "reset_counts", "reset_scopes"},
         Fire(n, where), mapped => register'.scope = where, UNCHANGED <<seq, ring, mapped>>
  PROVE  EventInv'
<1>1. ~Signalling /\ fired \in Seq(Slots \X Scopes) /\ Len(fired) \in Nat /\ seq \in Nat
  BY DEF Signalling, TypeInv, TypeOK
<1>2. CASE ~mapped
  BY <1>2 DEF EventInv, Fire
<1>3. CASE mapped
  <2>1. todo' = Signal(n) /\ fired' = Append(fired, <<n, where>>)
    BY <1>3 DEF Fire
  <2>2. /\ Len(todo') = 8 /\ todo' # <<>>
        /\ todo'[1] = <<"sticky", n>> /\ todo'[2] = <<"count", n>> /\ todo'[3] = <<"cell", n>>
        /\ todo'[4] = <<"depth", n>> /\ todo'[5] = <<"parent", n>> /\ todo'[6] = <<"seq", n>>
        /\ todo'[7] = <<"slot", n>> /\ todo'[8] = <<"scope", n>>
    <3>1. Len(Signal(n)) = 8 /\ Signal(n) # <<>>
      BY SignalStores
    <3> QED BY <2>1, <3>1, SignalStores
  <2>3. /\ Len(fired') = Len(fired) + 1 /\ fired'[Len(fired')] = <<n, where>>
        /\ \A k \in 1 .. Len(fired) : fired'[k] = fired[k]
        /\ fired' # <<>>
    BY <1>1, <2>1
  <2>4. Signalling'
    BY <2>2 DEF Signalling
  <2>5. EventLast' /\ \A k \in 1 .. Len(todo') : todo'[k][2] = n
    <3>1. \A k \in 1 .. 8 : \/ k = 1 \/ k = 2 \/ k = 3 \/ k = 4
                            \/ k = 5 \/ k = 6 \/ k = 7 \/ k = 8
      OBVIOUS
    <3>2. \A k \in 1 .. 8 : /\ (todo'[k][1] = "seq") <=> (k = 6)
                            /\ (todo'[k][1] = "slot") <=> (k = 7)
                            /\ (todo'[k][1] = "scope") <=> (k = 8)
                            /\ todo'[k][2] = n
      BY ONLY <2>2, <3>1
    <3> QED BY ONLY <2>2, <3>2 DEF EventLast
  <2>6. Newest'
    BY <1>3, <2>2, <2>3, <2>5 DEF Newest
  <2>7. seq = Len(fired) /\ RingHolds(Len(fired))
    BY <1>1, <1>3 DEF EventInv
  <2>8. seq' = Len(fired') - (IF Len(todo') >= 3 THEN 1 ELSE 0)
    BY <1>1, <2>2, <2>3, <2>7
  <2>9. RingHolds(Len(fired) - 1)'
    <3>1. Len(fired') - 1 = Len(fired)
      BY <1>1, <2>3
    <3> QED BY <1>1, <2>3, <2>7, <3>1 DEF RingHolds
  <2> QED BY <1>3, <2>4, <2>6, <2>8, <2>9 DEF EventInv
<1> QED BY <1>2, <1>3

(* A pass moves on with nothing left to store, or pokes a boolean.            *)
LEMMA QuietEvents ==
  ASSUME TypeInv, EventInv,
         todo = <<>>, phase \notin {"idle", "reset_counts", "reset_scopes"},
         phase' \notin {"idle", "reset_counts", "reset_scopes"},
         UNCHANGED <<seq, ring, mapped, fired>>,
         todo' = <<>> \/ (mapped /\ \E n : todo' = <<<<"sticky", n>>>>)
  PROVE  EventInv'
<1>1. ~Signalling /\ (mapped => seq = Len(fired) /\ RingHolds(Len(fired)))
  BY DEF EventInv, Signalling
<1>2. (mapped => RingHolds(Len(fired)))'
  BY <1>1 DEF RingHolds
<1>3. CASE todo' = <<>>
  <2>1. ~Signalling' /\ Len(todo') = 0
    BY <1>3 DEF Signalling
  <2> QED BY <1>1, <1>2, <1>3, <2>1 DEF EventInv
<1>4. ASSUME mapped, NEW n, todo' = <<<<"sticky", n>>>> PROVE EventInv'
  <2>1. Len(todo') = 1 /\ todo'[1][1] = "sticky"
    BY <1>4
  <2>2. ~Signalling'
    BY <2>1 DEF Signalling
  <2> QED BY <1>1, <1>2, <1>4, <2>1, <2>2 DEF EventInv
<1> QED BY <1>3, <1>4

(* One store made, those still to come are the same.                          *)
LEMMA LaterStores ==
  ASSUME EventLast, NEW n, \A k \in 1 .. Len(todo) : todo[k][2] = n,
         Len(todo) \in Nat, Len(todo) >= 1, Len(todo') = Len(todo) - 1,
         \A k \in 1 .. Len(todo') : todo'[k] = todo[k + 1]
  PROVE  EventLast' /\ \A k \in 1 .. Len(todo') : todo'[k][2] = n
<1>1. PICK m \in Nat : m = Len(todo) /\ m >= 1 /\ Len(todo') = m - 1
  OBVIOUS
<1>2. ASSUME NEW k \in 1 .. m - 1
      PROVE  /\ (todo'[k][1] = "seq") <=> (k = m - 1 - 2)
             /\ (todo'[k][1] = "slot") <=> (k = m - 1 - 1)
             /\ (todo'[k][1] = "scope") <=> (k = m - 1)
             /\ todo'[k][2] = n
  <2>1. k + 1 \in 1 .. m /\ todo'[k] = todo[k + 1]
    BY <1>1
  <2>2. /\ (todo[k + 1][1] = "seq") <=> (k + 1 = m - 2)
        /\ (todo[k + 1][1] = "slot") <=> (k + 1 = m - 1)
        /\ (todo[k + 1][1] = "scope") <=> (k + 1 = m)
        /\ todo[k + 1][2] = n
    BY <1>1, <2>1 DEF EventLast
  <2> QED BY ONLY <2>1, <2>2, k \in 1 .. m - 1, m \in Nat
<1> QED BY ONLY <1>1, <1>2 DEF EventLast

(* A store that counts no event and stores none.                              *)
LEMMA PlainStoreEvents ==
  ASSUME TypeInv, EventInv, NEW kind \in Kind \ {"seq", "slot", "scope"}, Store(kind),
         UNCHANGED <<seq, ring>>
  PROVE  EventInv'
<1>1. /\ todo # <<>> /\ Head(todo)[1] = kind
      /\ \A k \in 1 .. Len(todo') : todo'[k] = todo[k + 1]
      /\ Len(todo') = Len(todo) - 1
  BY StoreTypes
<1>2. UNCHANGED <<mapped, register, phase, fired>>
  BY DEF Store, source
<1>3. todo \in Seq(Pending) /\ Len(todo) \in Nat /\ Len(todo) >= 1 /\ Head(todo) = todo[1]
  BY <1>1 DEF TypeInv, TypeOK, Pending, Kind
<1>4. mapped /\ phase \notin {"idle", "reset_counts", "reset_scopes"}
  BY <1>1 DEF EventInv
<1>5. todo' \in Seq(Pending) /\ (Len(todo') >= 1 => todo' # <<>>) /\ (Len(todo') = 0 => todo' = <<>>)
  BY StoreTypes
<1>6. CASE Signalling
  <2>1. Newest /\ Len(todo) >= 4
    <3>1. Newest
      BY <1>4, <1>6 DEF EventInv
    <3>2. todo[1][1] = kind /\ 1 \in 1 .. Len(todo)
      BY <1>1, <1>3
    <3>3. 1 # Len(todo) - 2 /\ 1 # Len(todo) - 1 /\ 1 # Len(todo)
      BY <3>1, <3>2 DEF Newest, EventLast
    <3>4. PICK m \in Nat : m = Len(todo)
      BY <1>3
    <3>5. m # 1 /\ m # 2 /\ m # 3 /\ m >= 1
      BY <1>3, <3>3, <3>4
    <3>6. m >= 4
      BY <3>5
    <3> QED BY <3>1, <3>4, <3>6
  <2>2. Len(todo') >= 3 /\ todo'[Len(todo')] = todo[Len(todo)] /\ Signalling'
    BY <1>1, <1>3, <1>5, <1>6, <2>1 DEF Signalling
  <2>3. EventLast' /\ \A k \in 1 .. Len(todo') : todo'[k][2] = fired[Len(fired)][1]
    <3>1. EventLast /\ \A k \in 1 .. Len(todo) : todo[k][2] = fired[Len(fired)][1]
      BY <2>1 DEF Newest
    <3> QED BY <1>1, <1>3, <3>1, LaterStores
  <2>4. Newest'
    <3>1. Len(todo') # 1
      BY <1>1, <1>3, <2>2
    <3> QED BY <1>2, <2>1, <2>3, <3>1 DEF Newest
  <2>5. seq = Len(fired) - (IF Len(todo') >= 3 THEN 1 ELSE 0) /\ RingHolds(Len(fired) - 1)
    BY <1>4, <1>6, <2>1, <2>2 DEF EventInv
  <2>6. RingHolds(Len(fired) - 1)'
    BY <1>2, <2>5 DEF RingHolds
  <2> QED BY <1>2, <1>4, <2>2, <2>4, <2>5, <2>6 DEF EventInv
<1>7. CASE ~Signalling
  <2>1. \A k \in 1 .. Len(todo) : todo[k][1] = "sticky"
    BY <1>4, <1>7 DEF EventInv
  <2>2. \A k \in 1 .. Len(todo') : todo'[k][1] = "sticky"
    BY <1>1, <1>3, <2>1
  <2>3. ~Signalling'
    <3>1. todo' # <<>> => Len(todo') \in 1 .. Len(todo')
      BY <1>5
    <3> QED BY <2>2, <3>1 DEF Signalling
  <2>4. seq = Len(fired) /\ RingHolds(Len(fired))
    BY <1>4, <1>7 DEF EventInv
  <2>5. RingHolds(Len(fired))'
    BY <1>2, <2>4 DEF RingHolds
  <2> QED BY <1>2, <1>4, <2>2, <2>3, <2>4, <2>5 DEF EventInv
<1> QED BY <1>6, <1>7

(* The event count, with the event's two bytes left to store.                 *)
LEMMA SeqStoreEvents ==
  ASSUME TypeInv, TypeInv', EventInv, StoreSeq
  PROVE  EventInv'
<1>1. /\ Store("seq") /\ seq' = seq + 1 /\ UNCHANGED ring
      /\ UNCHANGED <<mapped, register, phase, fired>>
  BY DEF StoreSeq, Store, source
<1>2. /\ todo # <<>> /\ Head(todo)[1] = "seq"
      /\ \A k \in 1 .. Len(todo') : todo'[k] = todo[k + 1]
      /\ Len(todo') = Len(todo) - 1
  BY <1>1, StoreTypes DEF Kind
<1>3. todo \in Seq(Pending) /\ Len(todo) \in Nat /\ 1 \in 1 .. Len(todo) /\ todo[1][1] = "seq"
  BY <1>2 DEF TypeInv, TypeOK, Pending, Kind
<1>4. mapped /\ phase \notin {"idle", "reset_counts", "reset_scopes"}
  BY <1>2 DEF EventInv
<1>5. Signalling /\ Newest /\ RingHolds(Len(fired) - 1)
      /\ seq = Len(fired) - (IF Len(todo) >= 3 THEN 1 ELSE 0)
  BY <1>3, <1>4 DEF EventInv
<1>6. 1 = Len(todo) - 2
  BY <1>3, <1>5 DEF Newest, EventLast
<1>7. PICK m \in Nat : m = Len(todo)
  BY <1>3
<1>8. m = 3
  BY <1>6, <1>7
<1>9. Len(todo') = 2 /\ todo'[Len(todo')] = todo[Len(todo)] /\ todo' # <<>>
  <2>1. Len(todo') = 2
    BY <1>2, <1>7, <1>8
  <2> QED BY <1>2, <1>7, <1>8, <2>1
<1>10. Signalling'
  BY <1>5, <1>9 DEF Signalling
<1>11. EventLast' /\ \A k \in 1 .. Len(todo') : todo'[k][2] = fired[Len(fired)][1]
  <2>1. EventLast /\ \A k \in 1 .. Len(todo) : todo[k][2] = fired[Len(fired)][1]
    BY <1>5 DEF Newest
  <2>2. Len(todo) \in Nat /\ Len(todo) >= 1
    BY <1>3
  <2> QED BY <1>2, <2>1, <2>2, LaterStores
<1>12. Newest'
  BY <1>1, <1>5, <1>9, <1>11 DEF Newest
<1>13. seq \in Nat /\ Len(fired) \in Nat /\ seq = Len(fired) - 1 /\ seq' = Len(fired)
  BY <1>1, <1>5, <1>7, <1>8 DEF TypeInv, TypeOK
<1>14. RingHolds(Len(fired) - 1)'
  BY <1>1, <1>5, <1>13, PlateAssumption DEF RingHolds
<1> QED BY <1>1, <1>4, <1>9, <1>10, <1>12, <1>13, <1>14 DEF EventInv

(* A byte of the newest event: the ring's oldest makes room, the others stay. *)
LEMMA OthersStay ==
  ASSUME TypeInv, NEW v, ring' = [ring EXCEPT ![Place(seq)] = v],
         seq = Len(fired), fired # <<>>, RingHolds(Len(fired) - 1), UNCHANGED <<seq, fired>>
  PROVE  /\ Place(seq) \in 0 .. Capacity - 1 /\ ring'[Place(seq)] = v
         /\ RingHolds(Len(fired) - 1)'
<1>1. /\ ring \in [0 .. Capacity - 1 -> (Slots \union {0}) \X Scopes]
      /\ fired \in Seq(Slots \X Scopes) /\ Len(fired) \in Nat /\ seq \in Nat /\ seq > 0
  <2>1. /\ ring \in [0 .. Capacity - 1 -> (Slots \union {0}) \X Scopes]
        /\ fired \in Seq(Slots \X Scopes) /\ seq \in Nat
    BY DEF TypeInv, TypeOK
  <2>2. Len(fired) \in Nat /\ Len(fired) # 0
    BY <2>1
  <2> QED BY <2>1, <2>2
<1>2. Place(seq) \in 0 .. Capacity - 1 /\ ring'[Place(seq)] = v
  BY <1>1, PlaceRange
<1>3. ASSUME NEW k \in 1 .. Len(fired) - 1, k > seq - Capacity
      PROVE  ring'[Place(k)] = fired[k]
  <2>1. k \in Nat /\ k > 0 /\ k < seq /\ seq - k < Capacity
    BY <1>1, <1>3, PlateAssumption
  <2>2. Place(k) # Place(seq) /\ Place(k) \in 0 .. Capacity - 1
    BY <1>1, <2>1, PlacesDiffer, PlaceRange
  <2>3. ring[Place(k)] = fired[k]
    BY <1>3 DEF RingHolds
  <2> QED BY <1>1, <2>2, <2>3
<1> QED BY <1>2, <1>3 DEF RingHolds

(* The slot byte, with the scope byte left to store.                          *)
LEMMA SlotStoreEvents ==
  ASSUME TypeInv, TypeInv', EventInv, StoreSlot
  PROVE  EventInv'
<1>1. /\ Store("slot") /\ UNCHANGED seq
      /\ ring' = [ring EXCEPT ![Place(seq)] = <<Head(todo)[2], @[2]>>]
      /\ UNCHANGED <<mapped, register, phase, fired>>
  BY DEF StoreSlot, Store, source
<1>2. /\ todo # <<>> /\ Head(todo)[1] = "slot"
      /\ \A k \in 1 .. Len(todo') : todo'[k] = todo[k + 1]
      /\ Len(todo') = Len(todo) - 1
  BY <1>1, StoreTypes DEF Kind
<1>3. /\ todo \in Seq(Pending) /\ Len(todo) \in Nat /\ 1 \in 1 .. Len(todo)
      /\ Head(todo) = todo[1] /\ todo[1][1] = "slot"
  BY <1>2 DEF TypeInv, TypeOK, Pending, Kind
<1>4. mapped /\ phase \notin {"idle", "reset_counts", "reset_scopes"}
  BY <1>2 DEF EventInv
<1>5. Signalling /\ Newest /\ RingHolds(Len(fired) - 1)
      /\ seq = Len(fired) - (IF Len(todo) >= 3 THEN 1 ELSE 0)
  BY <1>3, <1>4 DEF EventInv
<1>6. PICK m \in Nat : m = Len(todo) /\ m = 2
  <2>1. 1 = Len(todo) - 1
    BY <1>3, <1>5 DEF Newest, EventLast
  <2> QED BY <1>3, <2>1
<1>7. seq = Len(fired) /\ fired # <<>> /\ Head(todo)[2] = fired[Len(fired)][1]
  <2>1. fired # <<>> /\ Head(todo)[2] = fired[Len(fired)][1]
    BY <1>3, <1>5 DEF Newest
  <2>2. Len(fired) \in Nat
    BY PlateTypes
  <2> QED BY <1>5, <1>6, <2>1, <2>2
<1>8. Len(todo') = 1 /\ todo'[Len(todo')] = todo[Len(todo)] /\ todo' # <<>>
  <2>1. Len(todo') = 1
    BY <1>2, <1>6
  <2> QED BY <1>2, <1>6, <2>1
<1>9. Signalling'
  BY <1>5, <1>8 DEF Signalling
<1>10. EventLast' /\ \A k \in 1 .. Len(todo') : todo'[k][2] = fired[Len(fired)][1]
  <2>1. EventLast /\ \A k \in 1 .. Len(todo) : todo[k][2] = fired[Len(fired)][1]
    BY <1>5 DEF Newest
  <2>2. Len(todo) \in Nat /\ Len(todo) >= 1
    BY <1>3
  <2> QED BY <1>2, <2>1, <2>2, LaterStores
<1>11. /\ RingHolds(Len(fired) - 1)'
       /\ ring'[Place(seq)] = <<Head(todo)[2], ring[Place(seq)][2]>>
  BY <1>1, <1>5, <1>7, OthersStay
<1>12. Newest'
  BY <1>1, <1>5, <1>7, <1>8, <1>10, <1>11 DEF Newest, Place
<1>13. seq' = Len(fired') - (IF Len(todo') >= 3 THEN 1 ELSE 0)
  BY <1>1, <1>6, <1>7, <1>8, PlateTypes
<1> QED BY <1>1, <1>4, <1>9, <1>11, <1>12, <1>13 DEF EventInv

(* The scope byte: the event is whole.                                        *)
LEMMA ScopeStoreEvents ==
  ASSUME TypeInv, TypeInv', EventInv, StoreScope
  PROVE  EventInv'
<1>1. /\ Store("scope") /\ UNCHANGED seq
      /\ ring' = [ring EXCEPT ![Place(seq)] = <<@[1], register.scope>>]
      /\ UNCHANGED <<mapped, register, phase, fired>>
  BY DEF StoreScope, Store, source
<1>2. /\ todo # <<>> /\ Head(todo)[1] = "scope" /\ Len(todo') = Len(todo) - 1
  BY <1>1, StoreTypes DEF Kind
<1>3. /\ todo \in Seq(Pending) /\ Len(todo) \in Nat /\ 1 \in 1 .. Len(todo)
      /\ Head(todo) = todo[1] /\ todo[1][1] = "scope"
      /\ fired \in Seq(Slots \X Scopes) /\ Len(fired) \in Nat
  BY <1>2 DEF TypeInv, TypeOK, Pending, Kind
<1>4. mapped /\ phase \notin {"idle", "reset_counts", "reset_scopes"}
  BY <1>2 DEF EventInv
<1>5. Signalling /\ Newest /\ RingHolds(Len(fired) - 1)
      /\ seq = Len(fired) - (IF Len(todo) >= 3 THEN 1 ELSE 0)
  BY <1>3, <1>4 DEF EventInv
<1>6. PICK m \in Nat : m = Len(todo) /\ m = 1
  BY <1>3, <1>5 DEF Newest, EventLast
<1>7. Len(todo') = 0 /\ seq = Len(fired)
  BY <1>2, <1>3, <1>5, <1>6
<1>8. todo' = <<>>
  BY <1>7 DEF TypeInv, TypeOK
<1>9. seq > 0 /\ seq \in Nat /\ fired # <<>> /\ <<ring[Place(seq)][1], register.scope>> = fired[seq]
  <2>1. /\ fired # <<>> /\ ring[Place(seq)][1] = fired[Len(fired)][1]
        /\ register.scope = fired[Len(fired)][2]
    BY <1>3, <1>5, <1>6 DEF Newest
  <2>2. Len(fired) \in 1 .. Len(fired)
    BY <1>3, <2>1
  <2>3. fired[Len(fired)] \in Slots \X Scopes
    BY <1>3, <2>2
  <2> QED BY <1>7, <2>1, <2>2, <2>3
<1>10. RingHolds(Len(fired) - 1)' /\ ring'[Place(seq)] = fired[seq]
  BY <1>1, <1>5, <1>7, <1>9, OthersStay
<1>11. RingHolds(Len(fired))'
  <2>1. \A k \in 1 .. Len(fired) : k = seq \/ k \in 1 .. Len(fired) - 1
    BY <1>3, <1>7
  <2> QED BY <1>1, <1>10, <2>1 DEF RingHolds
<1>12. ~Signalling' /\ Len(todo') = 0
  BY <1>7, <1>8 DEF Signalling
<1> QED BY <1>1, <1>4, <1>7, <1>8, <1>11, <1>12 DEF EventInv

(* Every action keeps the events in order.                                    *)
LEMMA EventStep == TypeInv /\ TypeInv' /\ ContextInv /\ ContextInv' /\ EventInv /\ [Next]_vars => EventInv'
<1> SUFFICES ASSUME TypeInv, TypeInv', ContextInv, ContextInv', EventInv, [Next]_vars
             PROVE  EventInv'
  OBVIOUS
<1>1. CASE StoreSticky \/ StoreCount \/ StoreCell \/ StoreDepth \/ StoreParent
  BY <1>1, PlainStoreEvents
     DEF StoreSticky, StoreCount, StoreCell, StoreDepth, StoreParent, Kind
<1>2. CASE StoreSeq \/ StoreSlot \/ StoreScope
  BY <1>2, SeqStoreEvents, SlotStoreEvents, ScopeStoreEvents
<1>3. ASSUME NEW n \in Slots, PassSignal(n) PROVE EventInv'
  <2>1. todo = <<>> /\ phase \in {"parse", "check", "lower"} /\ UNCHANGED <<phase, seq, ring, mapped, register>>
    BY <1>3 DEF PassSignal, Ready, plate
  <2>2. PICK where \in Scopes : Fire(n, where) /\ where = register.scope
    <3>1. /\ NoContext.scope = NoScope /\ CheckerContext.scope = NoScope /\ Root.scope = 0
          /\ NoScope \in Scopes /\ 0 \in Scopes
      BY ContextTypes DEF NoContext, CheckerContext, Root
    <3> QED BY <1>3, <3>1 DEF PassSignal, Ready, ContextInv, Early
  <2> QED BY <2>1, <2>2, FireEvents
<1>4. ASSUME NEW n \in Slots, PassBail(n) PROVE EventInv'
  <2>1. todo = <<>> /\ phase \in {"parse", "lower"} /\ phase' = "refused" /\ UNCHANGED <<seq, ring, mapped>>
    BY <1>4 DEF PassBail, Ready, plate
  <2>2. Fire(n, 0) /\ register'.scope = 0 /\ 0 \in Scopes
    BY <1>4, ContextTypes DEF PassBail, Root
  <2> QED BY <2>1, <2>2, FireEvents
<1>5. ASSUME NEW n \in Slots, Flush(n) PROVE EventInv'
  <2>1. todo = <<>> /\ phase = "flush" /\ UNCHANGED <<phase, seq, ring, mapped, register>>
    BY <1>5 DEF Flush, Ready, plate
  <2>2. Fire(n, NoScope) /\ register'.scope = NoScope /\ NoScope \in Scopes
    BY <1>5, <2>1, ContextTypes DEF Flush, ContextInv, Early, NoContext
  <2> QED BY <2>1, <2>2, FireEvents
<1>6. ASSUME NEW n \in Slots, WalkSignal(n) PROVE EventInv'
  <2>1. todo = <<>> /\ phase = "record" /\ UNCHANGED <<phase, seq, ring, mapped, register>>
    BY <1>6 DEF WalkSignal, Ready, plate
  <2>2. Fire(n, ByteOf(Here)) /\ register'.scope = ByteOf(Here)
    BY <1>6, <2>1 DEF WalkSignal, ContextInv, WalkInv
  <2>3. ByteOf(Here) \in Scopes
    <3>1. Here \in Nat
      BY <2>1, WalkTypes, PlateAssumption
    <3> QED BY <3>1, ContextTypes
  <2> QED BY <2>1, <2>2, <2>3, FireEvents
<1>7. ASSUME NEW n \in Slots, Probe(n) \/ Poke(n) PROVE EventInv'
  <2>1. todo = <<>> /\ phase \in {"settle", "emit"} /\ UNCHANGED <<phase, seq, ring, mapped, fired>>
        /\ (todo' = <<>> \/ (mapped /\ todo' = <<<<"sticky", n>>>>))
    BY <1>7 DEF Probe, Poke, Ready, plate, source
  <2> QED BY <2>1, QuietEvents
<1>8. CASE ParseDone \/ Settled \/ StartRecording \/ StartCheck \/ StartLower \/ LowerDone
  <2>1. todo = <<>> /\ todo' = <<>> /\ phase \in Passes /\ phase' \in Passes
        /\ UNCHANGED <<seq, ring, mapped, fired>>
    BY <1>8 DEF ParseDone, Settled, StartRecording, StartCheck, StartLower, LowerDone, Ready,
                GoTo, plate, source, Passes
  <2> QED BY <2>1, QuietEvents DEF Passes
<1>9. CASE Exit \/ \E b \in Blocks : Enter(b)
  <2>1. todo = <<>> /\ todo' = <<>> /\ phase = "record" /\ phase' = "record"
        /\ UNCHANGED <<seq, ring, mapped, fired>>
    BY <1>9 DEF Exit, Enter, Ready, plate
  <2> QED BY <2>1, QuietEvents
<1>10. CASE Refuse \/ Succeed
  <2>1. /\ todo = <<>> /\ phase \in Passes \union {"refused"} /\ phase' = "over"
        /\ UNCHANGED <<seq, ring, mapped, fired>>
        /\ todo' = <<>> \/ (mapped /\ \E n : todo' = <<<<"sticky", n>>>>)
    BY <1>10 DEF Refuse, Succeed, Conclude, GoTo, Ready, plate, source, Passes
  <2> QED BY <2>1, QuietEvents DEF Passes
<1>11. CASE StartRun
  <2>1. /\ phase = "idle" /\ phase' = "reset_counts" /\ todo' = todo /\ fired' = <<>>
        /\ seq' = (IF mapped' THEN 0 ELSE seq) /\ ring' = ring
    BY <1>11 DEF StartRun
  <2>2. todo' = <<>> /\ ~Signalling' /\ Len(todo') = 0 /\ Len(fired') = 0
    BY <2>1 DEF EventInv, Signalling
  <2>3. RingHolds(0)'
    BY DEF RingHolds
  <2> QED BY <2>1, <2>2, <2>3 DEF EventInv
<1>12. CASE ResetCounts \/ ResetScopes
  <2>1. /\ phase \in {"reset_counts", "reset_scopes"} /\ phase' \in {"reset_scopes", "parse"}
        /\ UNCHANGED <<todo, fired, seq, ring, mapped>>
    BY <1>12 DEF ResetCounts, ResetScopes, source
  <2>2. /\ todo = <<>> /\ fired = <<>> /\ ~Signalling /\ Len(todo) = 0 /\ Len(fired) = 0
        /\ (mapped => seq = Len(fired))
    BY <2>1 DEF EventInv, Signalling
  <2>3. RingHolds(0)' /\ ~Signalling'
    BY <2>1, <2>2 DEF RingHolds, Signalling
  <2> QED BY <2>1, <2>2, <2>3 DEF EventInv
<1>13. CASE EndRun \/ Kill
  <2>1. /\ phase \notin {"idle"} /\ phase' = "idle" /\ mapped' = FALSE /\ todo' = <<>>
        /\ UNCHANGED <<seq, ring, fired>>
    BY <1>13 DEF EndRun, Kill, Lose, Ready, plate
  <2>2. KilledRunReadable /\ (phase \in {"reset_counts", "reset_scopes"} => fired = <<>>)
    BY Readable DEF EventInv
  <2>3. KilledRunReadable'
    BY <2>1, <2>2 DEF KilledRunReadable, RingAt
  <2> QED BY <2>1, <2>3 DEF EventInv
<1>14. CASE UNCHANGED vars
  BY <1>14 DEF vars, plate, source, EventInv, Newest, EventLast, Signalling, RingHolds,
               KilledRunReadable, RingAt
<1> QED BY <1>1, <1>2, <1>3, <1>4, <1>5, <1>6, <1>7, <1>8, <1>9, <1>10, <1>11, <1>12, <1>13, <1>14
        DEF Next

(* Whichever store a run is killed after, the event count is at most one      *)
(* behind and every event but the newest, as far back as the ring goes, is    *)
(* where the reader looks for it, with the scope it happened in.              *)
THEOREM KilledRunsAreReadable == Spec => []KilledRunReadable
<1>1. Init => EventInv
  BY DEF Init, EventInv, KilledRunReadable
<1> QED BY <1>1, EventStep, Readable, TypesHold, ContextHolds, PTL DEF Spec
-----------------------------------------------------------------------------
(* The directory.                                                             *)

RootEntry == <<0, NoScope>>
Running == mapped /\ phase \notin {"idle", "reset_counts", "reset_scopes"}
Inner == 1 .. NoScope - 1                (* the scopes of unfolded blocks     *)

(* The depth of an entry is stored, its parent comes next.                    *)
Half == todo # <<>> /\ Head(todo)[1] = "parent" /\ register.scope # NoScope

(* The directory with the entry that is half stored taken for whole.          *)
Whole ==
  IF Half THEN [dir EXCEPT ![register.scope] = <<register.depth, register.parent>>] ELSE dir

(* The bytes of an entry are still to come.                                   *)
DepthComes == \E k \in 1 .. Len(todo) : todo[k][1] = "depth"

StoreOrder ==
  /\ \A k \in 1 .. Len(todo) :
       /\ todo[k][1] = "cell" => k + 1 \in 1 .. Len(todo) /\ todo[k + 1][1] = "depth"
       /\ k + 1 \in 1 .. Len(todo) => (todo[k][1] = "depth" <=> todo[k + 1][1] = "parent")
       /\ todo[k][1] = "depth" => k + 1 \in 1 .. Len(todo)
  /\ phase = "over" => \A k \in 1 .. Len(todo) : todo[k][1] = "sticky"

(* A half stored entry has its depth, and the parent it gets or none; no      *)
(* other entry waits for it.                                                  *)
HalfStored ==
  Half =>
    /\ dir[register.scope] \in {<<register.depth, 0>>, <<register.depth, register.parent>>}
    /\ \A s \in Inner \ {register.scope} : dir[s] # Unset => dir[dir[s][2]] # Unset

InFlight == StoreOrder /\ HalfStored

(* d is the depth of every block walked so far.                               *)
Levels(d) ==
  /\ d \in [0 .. Len(home) -> Nat] /\ d[0] = 0
  /\ \A b \in 1 .. Len(home) : d[b] = d[home[b]] + 1
  /\ \A k \in 1 .. Len(inside) : d[inside[k]] = k

(* An entry says what the source says of the block.                           *)
Documented(d) ==
  \A s \in Inner : Whole[s] # Unset => s <= Len(home) /\ Whole[s] = <<d[s], home[s]>>

(* What the walk relies on: a block is opened below a block that has spoken.  *)
Spoken ==
  /\ \A b \in 1 .. Len(home) : home[b] < NoScope => Whole[home[b]] # Unset
  /\ spoke /\ Here < NoScope => Whole[Here] # Unset \/ DepthComes

Tree ==
  /\ Whole[NoScope] = Unset /\ Whole[0] \in {Unset, RootEntry}
  /\ \A s \in Inner :
       Whole[s] # Unset => /\ Whole[s][2] \in 0 .. s - 1 /\ Whole[Whole[s][2]] # Unset
                           /\ Whole[s][1] = Whole[Whole[s][2]][1] + 1

(* A cell counts only in a scope that is, or is about to be, in the directory.*)
Cells ==
  \A n \in Slots : \A s \in Scopes :
    cell[n][s] > 0 => Whole[s] # Unset \/ (s # NoScope /\ s = register.scope /\ DepthComes)

DirInv ==
  /\ InFlight
  /\ mapped /\ phase \in {"parse", "settle", "flush"} => \A s \in Inner : Whole[s] = Unset
  /\ mapped /\ phase = "record" => Spoken /\ \E d : Levels(d) /\ Documented(d)
  /\ Running => Tree /\ Cells

(* A scope is the root, none, or the byte of a block.                         *)
LEMMA ScopeSorts ==
  /\ Scopes = {0, NoScope} \union Inner
  /\ 0 \notin Inner /\ NoScope \notin Inner /\ NoScope # 0
  /\ Unset # RootEntry
  /\ \A s \in Inner : s \in Nat /\ s > 0 /\ s < NoScope /\ 0 .. s - 1 \subseteq Scopes
BY PlateAssumption DEF Scopes, Inner, Unset, RootEntry

(* What is taken for the directory has its type.                              *)
LEMMA WholeTypes == TypeInv => Whole \in [Scopes -> Nat \X Scopes]
<1> SUFFICES ASSUME TypeInv PROVE Whole \in [Scopes -> Nat \X Scopes]
  OBVIOUS
<1>1. dir \in [Scopes -> Nat \X Scopes] /\ register \in Register
  BY DEF TypeInv, TypeOK
<1>2. register.scope \in Scopes /\ <<register.depth, register.parent>> \in Nat \X Scopes
  BY <1>1 DEF Register
<1> QED BY <1>1, <1>2 DEF Whole

(* The first store to come is no parent byte, before and after.               *)
LEMMA WholeKept ==
  ASSUME ~Half, ~Half', UNCHANGED dir
  PROVE  UNCHANGED Whole /\ HalfStored'
BY DEF Whole, HalfStored

(* What a store leaves to come.                                               *)
LEMMA StoreOrderKept ==
  ASSUME TypeInv, DirInv, NEW kind \in Kind, Store(kind)
  PROVE  /\ StoreOrder'
         /\ kind # "depth" => (DepthComes => DepthComes') /\ ~Half'
         /\ kind = "cell" => DepthComes'
         /\ kind = "depth" => todo' # <<>> /\ Head(todo')[1] = "parent"
         /\ kind # "parent" => ~Half
         /\ kind # "sticky" => phase # "over"
<1>1. /\ todo # <<>> /\ Head(todo)[1] = kind
      /\ \A k \in 1 .. Len(todo') : todo'[k] = todo[k + 1]
      /\ Len(todo') = Len(todo) - 1 /\ todo' \in Seq(Pending)
  BY StoreTypes
<1>2. todo \in Seq(Pending) /\ Len(todo) \in Nat /\ 1 \in 1 .. Len(todo) /\ todo[1][1] = kind
  BY <1>1 DEF TypeInv, TypeOK, Pending, Kind
<1>3. phase' = phase /\ register' = register
  BY DEF Store
<1>4. \A k \in 2 .. Len(todo) : k - 1 \in 1 .. Len(todo') /\ todo'[k - 1] = todo[k]
  BY <1>1, <1>2
<1>5. \A k \in 1 .. Len(todo') : k + 1 \in 1 .. Len(todo) /\ k + 1 \in 2 .. Len(todo)
  BY <1>1, <1>2
<1>6. StoreOrder
  BY DEF DirInv, InFlight
<1>7. ASSUME NEW k \in 1 .. Len(todo')
      PROVE  /\ todo'[k][1] = "cell" => k + 1 \in 1 .. Len(todo') /\ todo'[k + 1][1] = "depth"
             /\ k + 1 \in 1 .. Len(todo') => (todo'[k][1] = "depth" <=> todo'[k + 1][1] = "parent")
             /\ todo'[k][1] = "depth" => k + 1 \in 1 .. Len(todo')
  <2>1. k + 1 \in 1 .. Len(todo) /\ todo'[k] = todo[k + 1]
    BY <1>1, <1>5
  <2>2. /\ todo[k + 1][1] = "cell"
             => (k + 1) + 1 \in 1 .. Len(todo) /\ todo[(k + 1) + 1][1] = "depth"
        /\ (k + 1) + 1 \in 1 .. Len(todo)
             => (todo[k + 1][1] = "depth" <=> todo[(k + 1) + 1][1] = "parent")
        /\ todo[k + 1][1] = "depth" => (k + 1) + 1 \in 1 .. Len(todo)
    BY <1>6, <2>1 DEF StoreOrder
  <2>3. (k + 1) + 1 \in 1 .. Len(todo) <=> k + 1 \in 1 .. Len(todo')
    BY <1>1, <1>2
  <2>4. k + 1 \in 1 .. Len(todo') => todo'[k + 1] = todo[(k + 1) + 1]
    BY <1>1
  <2> QED BY ONLY <2>1, <2>2, <2>3, <2>4
<1>8. phase = "over" => \A k \in 1 .. Len(todo') : todo'[k][1] = "sticky"
  BY <1>1, <1>5, <1>6 DEF StoreOrder
<1>9. StoreOrder'
  BY <1>3, <1>7, <1>8 DEF StoreOrder
<1>10. ASSUME kind # "depth", NEW k \in 1 .. Len(todo), todo[k][1] = "depth" PROVE DepthComes'
  <2>1. k # 1
    BY <1>2, <1>10
  <2>2. k \in 2 .. Len(todo)
    BY <1>2, <1>10, <2>1
  <2> QED BY <1>4, <1>10, <2>2 DEF DepthComes
<1>11. ASSUME kind = "cell" PROVE DepthComes'
  <2>1. 1 + 1 \in 1 .. Len(todo) /\ todo[1 + 1][1] = "depth"
    BY <1>2, <1>6, <1>11 DEF StoreOrder
  <2> QED BY <1>10, <1>11, <2>1
<1>12. /\ kind # "depth" => todo' = <<>> \/ Head(todo')[1] # "parent"
       /\ kind = "depth" => todo' # <<>> /\ Head(todo')[1] = "parent"
  <2>1. /\ 1 + 1 \in 1 .. Len(todo) => (kind = "depth" <=> todo[1 + 1][1] = "parent")
        /\ kind = "depth" => 1 + 1 \in 1 .. Len(todo)
    BY <1>2, <1>6 DEF StoreOrder
  <2>2. todo' # <<>> => 1 \in 1 .. Len(todo') /\ Head(todo') = todo'[1]
    BY <1>1
  <2>3. 1 + 1 \in 1 .. Len(todo) => todo' # <<>>
    BY <1>1, <1>2
  <2>4. todo' # <<>> => 1 + 1 \in 1 .. Len(todo) /\ Head(todo') = todo[1 + 1]
    BY <1>1, <1>5, <2>2
  <2> QED BY <2>1, <2>3, <2>4
<1>13. phase = "over" => kind = "sticky"
  BY <1>2, <1>6 DEF StoreOrder
<1> QED BY <1>1, <1>9, <1>10, <1>11, <1>12, <1>13 DEF DepthComes, Half

(* A store that touches neither cells nor directory, as a half stored entry   *)
(* leaves it.                                                                 *)
LEMMA PlainStoreDir ==
  ASSUME TypeInv, DirInv, NEW kind \in Kind \ {"cell", "depth"}, Store(kind), ~Half',
         UNCHANGED <<cell, Whole>>
  PROVE  DirInv'
<1>1. StoreOrder' /\ (DepthComes => DepthComes') /\ HalfStored'
  BY StoreOrderKept DEF HalfStored
<1>2. UNCHANGED <<mapped, phase, register, home, inside, spoke, cell, Whole>>
  BY DEF Store, source
<1>3. mapped /\ phase = "record" => Spoken' /\ \E d : (Levels(d) /\ Documented(d))'
  BY <1>1, <1>2 DEF DirInv, Spoken, Levels, Documented, Here
<1>4. Running => (Tree /\ Cells)'
  BY <1>1, <1>2 DEF DirInv, Tree, Cells
<1> QED BY <1>1, <1>2, <1>3, <1>4 DEF DirInv, Running, InFlight

(* The parent byte: the entry becomes what it was taken for.                  *)
LEMMA ParentStoreDir ==
  ASSUME TypeInv, DirInv, StoreParent
  PROVE  DirInv'
<1>1. Store("parent") /\ UNCHANGED <<cell, register>>
  BY DEF StoreParent, Store
<1>2. ~Half' /\ todo # <<>> /\ Head(todo)[1] = "parent"
  BY <1>1, StoreOrderKept, StoreTypes DEF Kind
<1>3. dir \in [Scopes -> Nat \X Scopes] /\ register.scope \in Scopes
  BY DEF TypeInv, TypeOK, Register
<1>4. UNCHANGED Whole
  <2>1. CASE register.scope = NoScope
    BY <1>2, <2>1 DEF StoreParent, Whole, Half
  <2>2. CASE register.scope # NoScope
    <3>1. Half
      BY <1>2, <2>2 DEF Half
    <3>2. dir[register.scope][1] = register.depth
      BY <3>1 DEF DirInv, InFlight, HalfStored
    <3>3. dir' = [dir EXCEPT ![register.scope] = <<register.depth, register.parent>>]
      BY <2>2, <3>2 DEF StoreParent
    <3> QED BY <1>2, <3>1, <3>3 DEF Whole
  <2> QED BY <2>1, <2>2
<1> QED BY <1>1, <1>2, <1>4, PlainStoreDir DEF Kind

(* A cell is counted in a scope whose entry is there or comes next.           *)
LEMMA CellStoreDir ==
  ASSUME TypeInv, DirInv, StoreCell
  PROVE  DirInv'
<1>1. Store("cell") /\ UNCHANGED dir
  BY DEF StoreCell
<1>2. InFlight' /\ DepthComes' /\ Head(todo)[2] \in Slots /\ UNCHANGED Whole
  <2>1. StoreOrder' /\ DepthComes' /\ Head(todo)[2] \in Slots /\ ~Half /\ ~Half'
    BY <1>1, StoreOrderKept, StoreTypes DEF Kind
  <2> QED BY <1>1, <2>1, WholeKept DEF InFlight
<1>3. UNCHANGED <<mapped, phase, register, home, inside, spoke, Whole>>
  BY <1>1, <1>2 DEF Store, source
<1>4. mapped /\ phase = "record" => Spoken' /\ \E d : (Levels(d) /\ Documented(d))'
  BY <1>2, <1>3 DEF DirInv, Spoken, Levels, Documented, Here
<1>5. cell \in [Slots -> [Scopes -> 0 .. Many]] /\ register.scope \in Scopes
  BY DEF TypeInv, TypeOK, Register
<1>6. ASSUME Running PROVE Cells'
  <2>1. ASSUME NEW n \in Slots, NEW s \in Scopes, cell'[n][s] > 0
        PROVE  Whole'[s] # Unset \/ (s # NoScope /\ s = register'.scope /\ DepthComes')
    <3>1. CASE s # NoScope /\ s = register.scope
      BY <1>2, <1>3, <3>1
    <3>2. CASE ~(s # NoScope /\ s = register.scope)
      <4>1. cell'[n][s] = cell[n][s]
        BY <1>5, <1>2, <3>2 DEF StoreCell
      <4> QED BY <1>3, <1>6, <2>1, <3>2, <4>1 DEF DirInv, Cells
    <3> QED BY <3>1, <3>2
  <2> QED BY <2>1 DEF Cells
<1>7. Running => Tree'
  BY <1>3 DEF DirInv, Tree
<1> QED BY <1>2, <1>3, <1>4, <1>6, <1>7 DEF DirInv, Running

(* Which entry a directory store makes: none, the root's, or the open block's.*)
LEMMA EntryStored ==
  ASSUME TypeInv, ContextInv, EventInv, DirInv, StoreDepth
  PROVE  \/ Whole' = Whole /\ dir' = dir /\ register.scope = NoScope
         \/ Whole' = [Whole EXCEPT ![0] = RootEntry] /\ register.scope = 0
            /\ (phase = "record" => Here = 0)
         \/ /\ phase = "record" /\ Here \in Inner /\ Here \in 1 .. Len(home) /\ register.scope = Here
            /\ inside # <<>> /\ Here = inside[Len(inside)] /\ home[Here] \in 0 .. Here - 1
            /\ Whole' = [Whole EXCEPT ![Here] = <<Len(inside), home[Here]>>]
<1>1. todo # <<>> /\ phase # "over" /\ ~Half /\ todo' # <<>> /\ Head(todo')[1] = "parent"
  <2>1. Store("depth")
    BY DEF StoreDepth
  <2> QED BY <2>1, StoreOrderKept, StoreTypes DEF Kind
<1>2. /\ Whole' = IF register.scope = NoScope THEN Whole
                 ELSE [Whole EXCEPT ![register.scope] = <<register.depth, register.parent>>]
      /\ register.scope = NoScope => dir' = dir
  <2>1. Whole = dir /\ register' = register /\ register.scope \in Scopes
        /\ dir \in [Scopes -> Nat \X Scopes]
    BY <1>1 DEF Whole, StoreDepth, Store, TypeInv, TypeOK, Register
  <2>2. CASE register.scope = NoScope
    BY <2>1, <2>2 DEF StoreDepth, Whole, Half
  <2>3. CASE register.scope # NoScope
    <3>1. Whole' = [dir' EXCEPT ![register.scope] = <<register.depth, register.parent>>]
      BY <1>1, <2>1, <2>3 DEF Whole, Half
    <3>2. dir' = [dir EXCEPT ![register.scope] = <<register.depth, dir[register.scope][2]>>]
      BY <2>3 DEF StoreDepth
    <3> QED BY <2>1, <2>3, <3>1, <3>2
  <2> QED BY <2>2, <2>3
<1>3. phase \notin {"idle", "reset_counts", "reset_scopes", "over"}
  BY <1>1 DEF EventInv
<1>4. \/ phase \in {"parse", "settle", "flush"} \/ phase = "check"
      \/ phase \in {"lower", "emit", "refused"} \/ phase = "record"
  BY <1>3 DEF TypeInv, TypeOK, Passes
<1>5. CASE phase \in {"parse", "settle", "flush"} \/ phase = "check"
  <2>1. register.scope = NoScope
    BY <1>5 DEF ContextInv, Early, NoContext, CheckerContext
  <2> QED BY <1>2, <2>1
<1>6. CASE phase \in {"lower", "emit", "refused"}
  <2>1. register = Root /\ NoScope # 0
    BY <1>6, ScopeSorts DEF ContextInv
  <2> QED BY <1>2, <1>6, <2>1 DEF Root, RootEntry
<1>7. CASE phase = "record"
  <2>1. WalkInv
    BY <1>7 DEF ContextInv
  <2>2. /\ inside \in Seq(Blocks) /\ home \in Seq(0 .. MaxBlocks)
        /\ Len(inside) \in Nat /\ Len(home) \in Nat
    BY DEF TypeInv, TypeOK
  <2>3. CASE register.scope = NoScope
    BY <1>2, <2>3
  <2>4. CASE register.scope # NoScope /\ inside = <<>>
    <3>1. Here = 0 /\ Len(inside) = 0
      BY <2>4 DEF Here
    <3>2. register = [scope |-> 0, depth |-> 0, parent |-> NoScope]
      BY <2>1, <2>4, <3>1, ByteOfSmall DEF WalkInv
    <3> QED BY <1>2, <2>4, <3>1, <3>2 DEF RootEntry
  <2>5. CASE register.scope # NoScope /\ inside # <<>>
    <3>1. Len(inside) \in 1 .. Len(inside) /\ Here = inside[Len(inside)]
      BY <2>2, <2>5 DEF Here, Last
    <3>2. Here \in 1 .. Len(home)
      BY <2>1, <3>1 DEF WalkInv
    <3>3. Here \in Nat /\ home[Here] \in Nat /\ home[Here] < Here
      BY <2>1, <2>2, <3>2, PlateAssumption DEF WalkInv
    <3>4. register.scope = ByteOf(Here) /\ register.depth = Len(inside)
          /\ register.parent = ByteOf(home[Here])
      BY <2>1, <2>5 DEF WalkInv
    <3>5. Here < NoScope /\ register.scope = Here
      <4>1. ByteOf(Here) # NoScope
        BY <2>5, <3>4
      <4> QED BY <3>3, <3>4, <4>1, PlateAssumption DEF ByteOf, Least
    <3>6. ByteOf(home[Here]) = home[Here]
      BY <3>3, <3>5, PlateAssumption DEF ByteOf, Least
    <3>7. Here \in Inner /\ home[Here] \in 0 .. Here - 1
      BY <3>2, <3>3, <3>5, PlateAssumption DEF Inner
    <3> QED BY <1>2, <1>7, <2>5, <3>1, <3>2, <3>4, <3>5, <3>6, <3>7
  <2> QED BY <2>3, <2>4, <2>5
<1> QED BY <1>4, <1>5, <1>6, <1>7

(* An entry a scope has is the one it would get: nothing is overwritten.      *)
LEMMA EntryKept ==
  ASSUME TypeInv, ContextInv, EventInv, DirInv, StoreDepth
  PROVE  \A s \in Scopes : Whole[s] # Unset => Whole'[s] # Unset /\ Whole'[s] = Whole[s]
<1> SUFFICES ASSUME NEW s \in Scopes, Whole[s] # Unset PROVE Whole'[s] = Whole[s]
  OBVIOUS
<1>1. /\ Whole \in [Scopes -> Nat \X Scopes] /\ Len(inside) \in Nat /\ inside \in Seq(Blocks)
  BY WholeTypes DEF TypeInv, TypeOK
<1>2. Running /\ mapped
  <2>1. Store("depth")
    BY DEF StoreDepth
  <2>2. todo # <<>> /\ phase # "over"
    BY <2>1, StoreOrderKept, StoreTypes DEF Kind
  <2> QED BY <2>2 DEF EventInv, Running
<1>3. CASE Whole' = Whole
  BY <1>3
<1>4. CASE Whole' = [Whole EXCEPT ![0] = RootEntry]
  <2>1. Whole[0] \in {Unset, RootEntry}
    BY <1>2 DEF DirInv, Tree
  <2> QED BY <1>1, <1>4, <2>1
<1>5. CASE /\ phase = "record" /\ Here \in Inner /\ inside # <<>> /\ Here = inside[Len(inside)]
           /\ Whole' = [Whole EXCEPT ![Here] = <<Len(inside), home[Here]>>]
  <2>1. PICK d : Levels(d) /\ Documented(d)
    BY <1>2, <1>5 DEF DirInv
  <2>2. d[Here] = Len(inside)
    <3>1. Len(inside) \in 1 .. Len(inside)
      BY <1>1, <1>5
    <3> QED BY <1>5, <2>1, <3>1 DEF Levels
  <2>3. Whole[Here] # Unset => Whole[Here] = <<Len(inside), home[Here]>>
    BY <1>5, <2>1, <2>2 DEF Documented
  <2> QED BY <1>1, <1>5, <2>3
<1> QED BY <1>3, <1>4, <1>5, EntryStored

(* The depth byte alone: an entry that has it already stays as it is, and one *)
(* never written has its depth before its parent.                             *)
LEMMA DepthStoreHalf ==
  ASSUME TypeInv, ContextInv, EventInv, DirInv, StoreDepth
  PROVE  HalfStored' /\ \A s \in Scopes : dir[s] # Unset => dir'[s] = dir[s]
<1>1. /\ register' = register /\ todo # <<>> /\ phase # "over" /\ ~Half
      /\ todo' # <<>> /\ Head(todo')[1] = "parent"
  <2>1. Store("depth")
    BY DEF StoreDepth
  <2> QED BY <2>1, StoreOrderKept, StoreTypes DEF Kind, Store
<1>2. /\ Whole = dir /\ dir \in [Scopes -> Nat \X Scopes] /\ register.scope \in Scopes
  BY <1>1 DEF Whole, TypeInv, TypeOK, Register
<1>3. CASE register.scope = NoScope
  BY <1>1, <1>3 DEF StoreDepth, HalfStored, Half
<1>4. CASE register.scope # NoScope
  <2>1. /\ dir' = [dir EXCEPT ![register.scope] = <<register.depth, dir[register.scope][2]>>]
        /\ Whole' = [dir' EXCEPT ![register.scope] = <<register.depth, register.parent>>]
    BY <1>1, <1>4 DEF StoreDepth, Whole, Half
  <2>2. Whole'[register.scope] = <<register.depth, register.parent>>
    BY <1>2, <2>1
  <2>3. dir'[register.scope] = <<register.depth, dir[register.scope][2]>>
        /\ \A s \in Scopes \ {register.scope} : dir'[s] = dir[s]
    BY <1>2, <2>1
  <2>5. dir[register.scope] # Unset => dir[register.scope] = <<register.depth, register.parent>>
    BY <1>2, <2>2, EntryKept
  <2>6. dir'[register.scope] \in {<<register.depth, 0>>, <<register.depth, register.parent>>}
    BY <2>3, <2>5 DEF Unset
  <2>7. \A s \in Scopes : dir[s] # Unset => dir'[s] = dir[s]
    BY <2>3, <2>5
  <2>8. Tree
    BY <1>1 DEF EventInv, DirInv, Running
  <2>9. ASSUME NEW s \in Inner \ {register.scope}, dir'[s] # Unset
        PROVE  dir'[dir'[s][2]] # Unset
    <3>1. s \in Scopes /\ dir'[s] = dir[s]
      BY <2>3, <2>9, ScopeSorts
    <3>2. dir[s][2] \in 0 .. s - 1 /\ dir[dir[s][2]] # Unset
      BY <1>2, <2>8, <2>9, <3>1 DEF Tree
    <3>3. dir[s][2] \in Scopes
      BY <2>9, <3>2, ScopeSorts
    <3> QED BY <2>7, <3>1, <3>2, <3>3
  <2> QED BY <1>1, <2>6, <2>7, <2>9 DEF HalfStored
<1> QED BY <1>3, <1>4

(* The entry a scope gets points to an entry that is there, one level up.     *)
LEMMA DepthStoreDir ==
  ASSUME TypeInv, ContextInv, EventInv, DirInv, StoreDepth
  PROVE  DirInv'
<1>1. Store("depth") /\ UNCHANGED cell
  BY DEF StoreDepth
<1>2. InFlight' /\ todo # <<>>
  BY <1>1, DepthStoreHalf, StoreOrderKept, StoreTypes DEF Kind, InFlight
<1>3. UNCHANGED <<mapped, phase, register, home, inside, spoke>>
  BY <1>1 DEF Store, source
<1>4. Running /\ mapped /\ Tree /\ Cells
  BY <1>2 DEF EventInv, DirInv, Running
<1>5. /\ Whole \in [Scopes -> Nat \X Scopes] /\ cell \in [Slots -> [Scopes -> 0 .. Many]]
      /\ Len(home) \in Nat /\ home \in Seq(0 .. MaxBlocks)
      /\ Len(inside) \in Nat /\ inside \in Seq(Blocks)
  BY WholeTypes DEF TypeInv, TypeOK
<1>6. CASE Whole' = Whole /\ register.scope = NoScope
  <2>1. (mapped /\ phase = "record") => Spoken' /\ \E d : (Levels(d) /\ Documented(d))'
    <3> SUFFICES ASSUME phase = "record" PROVE Spoken' /\ \E d : (Levels(d) /\ Documented(d))'
      OBVIOUS
    <3>1. Spoken /\ \E d : Levels(d) /\ Documented(d)
      BY <1>4 DEF DirInv
    <3>2. ByteOf(Here) = NoScope /\ Here \in Nat
      <4>1. Here \in Nat
        BY WalkTypes, PlateAssumption
      <4> QED BY <1>6, <4>1 DEF ContextInv, WalkInv
    <3>3. ~(Here < NoScope)
      BY <3>2, ByteOfSmall, PlateAssumption DEF ByteOf, Least
    <3> QED BY <1>3, <1>6, <3>1, <3>3 DEF Spoken, Levels, Documented, Here
  <2>2. (Tree /\ Cells)'
    BY <1>1, <1>3, <1>4, <1>6 DEF Tree, Cells
  <2> QED BY <1>2, <1>3, <1>4, <1>6, <2>1, <2>2 DEF DirInv
<1>7. CASE /\ Whole' = [Whole EXCEPT ![0] = RootEntry] /\ register.scope = 0
           /\ (phase = "record" => Here = 0)
  <2>1. Whole'[0] = RootEntry /\ \A s \in Scopes : s # 0 => Whole'[s] = Whole[s]
    BY <1>5, <1>7, ScopeSorts
  <2>3. \A s \in Scopes : Whole[s] # Unset => Whole'[s] # Unset /\ Whole'[s] = Whole[s]
    BY EntryKept
  <2>4. Tree'
    <3>1. Whole'[NoScope] = Unset /\ Whole'[0] \in {Unset, RootEntry}
      BY <1>4, <2>1, ScopeSorts DEF Tree
    <3>2. ASSUME NEW s \in Inner, Whole'[s] # Unset
          PROVE  /\ Whole'[s][2] \in 0 .. s - 1 /\ Whole'[Whole'[s][2]] # Unset
                 /\ Whole'[s][1] = Whole'[Whole'[s][2]][1] + 1
      <4>1. s \in Scopes /\ s # 0 /\ Whole'[s] = Whole[s]
        BY <2>1, ScopeSorts
      <4>2. /\ Whole[s][2] \in 0 .. s - 1 /\ Whole[Whole[s][2]] # Unset
            /\ Whole[s][1] = Whole[Whole[s][2]][1] + 1
        BY <1>4, <3>2, <4>1 DEF Tree
      <4>3. Whole[s][2] \in Scopes
        BY <4>2, ScopeSorts
      <4>4. Whole'[Whole[s][2]] = Whole[Whole[s][2]]
        BY <2>3, <4>2, <4>3
      <4> QED BY <4>1, <4>2, <4>4
    <3> QED BY <3>1, <3>2 DEF Tree
  <2>5. Cells'
    <3>1. Whole'[0] # Unset
      BY <2>1, ScopeSorts
    <3> QED BY <1>1, <1>3, <1>4, <1>7, <2>3, <3>1 DEF Cells
  <2>6. phase = "record" => Spoken' /\ \E d : (Levels(d) /\ Documented(d))'
    <3> SUFFICES ASSUME phase = "record" PROVE Spoken' /\ \E d : (Levels(d) /\ Documented(d))'
      OBVIOUS
    <3>1. Spoken /\ (\E d : Levels(d) /\ Documented(d)) /\ Here = 0
      BY <1>4, <1>7 DEF DirInv
    <3>2. \A s \in Inner : Whole'[s] = Whole[s]
      BY <2>1, ScopeSorts
    <3>3. Spoken'
      <4>1. Whole'[Here'] # Unset
        BY <1>3, <2>1, <3>1, ScopeSorts DEF Here
      <4>2. ASSUME NEW b \in 1 .. Len(home'), home'[b] < NoScope PROVE Whole'[home'[b]] # Unset
        <5>1. b \in 1 .. Len(home) /\ home'[b] = home[b] /\ home[b] \in Nat /\ home[b] < NoScope
          BY <1>3, <1>5, <4>2, PlateAssumption
        <5>2. home[b] \in Scopes
          BY <5>1, PlateAssumption DEF Scopes
        <5> QED BY <2>3, <3>1, <5>1, <5>2 DEF Spoken
      <4> QED BY <4>1, <4>2 DEF Spoken
    <3> QED BY <1>3, <3>1, <3>2, <3>3 DEF Levels, Documented
  <2>7. phase \in {"parse", "settle", "flush"} => \A s \in Inner : Whole'[s] = Unset
    BY <1>4, <2>1, ScopeSorts DEF DirInv
  <2> QED BY <1>2, <1>3, <1>4, <2>3, <2>4, <2>5, <2>6, <2>7 DEF DirInv
<1>8. CASE /\ phase = "record" /\ Here \in Inner /\ Here \in 1 .. Len(home) /\ register.scope = Here
           /\ inside # <<>> /\ Here = inside[Len(inside)] /\ home[Here] \in 0 .. Here - 1
           /\ Whole' = [Whole EXCEPT ![Here] = <<Len(inside), home[Here]>>]
  <2>1. PICK d : Levels(d) /\ Documented(d)
    BY <1>4, <1>8 DEF DirInv
  <2>2. Spoken
    BY <1>4, <1>8 DEF DirInv
  <2>3. Here \in Scopes /\ Here \in Nat /\ home[Here] \in Scopes /\ home[Here] \in Nat
        /\ home[Here] < NoScope /\ home[Here] # Here /\ home[Here] # NoScope
    BY <1>8, ScopeSorts, PlateAssumption
  <2>4. d[Here] = Len(inside) /\ Len(inside) >= 1 /\ d[Here] = d[home[Here]] + 1
    <3>1. Len(inside) \in 1 .. Len(inside)
      BY <1>5, <1>8
    <3> QED BY <1>8, <2>1, <3>1 DEF Levels
  <2>5. Whole'[Here] = <<Len(inside), home[Here]>> /\ \A s \in Scopes : s # Here => Whole'[s] = Whole[s]
    BY <1>5, <1>8, <2>3
  <2>7. Whole'[Here] # Unset
    <3>1. PICK m \in Nat : m = Len(inside) /\ m >= 1
      BY <1>5, <2>4
    <3>2. Whole'[Here] = <<m, home[Here]>>
      BY <2>5, <3>1
    <3> QED BY <3>1, <3>2 DEF Unset
  <2>8. \A s \in Scopes : Whole[s] # Unset => Whole'[s] # Unset /\ Whole'[s] = Whole[s]
    BY EntryKept
  <2>9. Whole[home[Here]] # Unset /\ Whole'[home[Here]] = Whole[home[Here]]
    BY <1>8, <2>2, <2>3, <2>8 DEF Spoken
  <2>10. Whole[home[Here]][1] = d[home[Here]]
    <3>1. CASE home[Here] = 0
      BY <1>4, <2>1, <2>9, <3>1 DEF Tree, RootEntry, Levels
    <3>2. CASE home[Here] # 0
      <4>1. home[Here] \in Inner
        BY <2>3, <3>2, ScopeSorts
      <4> QED BY <2>1, <2>9, <4>1 DEF Documented
    <3> QED BY <3>1, <3>2
  <2>11. Tree'
    <3>1. Whole'[NoScope] = Unset /\ Whole'[0] \in {Unset, RootEntry}
      BY <1>4, <1>8, <2>3, <2>5, ScopeSorts DEF Tree
    <3>2. ASSUME NEW s \in Inner, Whole'[s] # Unset
          PROVE  /\ Whole'[s][2] \in 0 .. s - 1 /\ Whole'[Whole'[s][2]] # Unset
                 /\ Whole'[s][1] = Whole'[Whole'[s][2]][1] + 1
      <4>1. CASE s = Here
        <5>1. Whole'[s][2] = home[Here] /\ Whole'[s][1] = Len(inside)
          BY <2>5, <4>1
        <5> QED BY <1>8, <2>4, <2>9, <2>10, <4>1, <5>1
      <4>2. CASE s # Here
        <5>1. s \in Scopes /\ Whole'[s] = Whole[s]
          BY <2>5, <4>2, ScopeSorts
        <5>2. /\ Whole[s][2] \in 0 .. s - 1 /\ Whole[Whole[s][2]] # Unset
              /\ Whole[s][1] = Whole[Whole[s][2]][1] + 1
          BY <1>4, <3>2, <5>1 DEF Tree
        <5>3. Whole[s][2] \in Scopes
          BY <5>2, ScopeSorts
        <5>4. Whole'[Whole[s][2]] = Whole[Whole[s][2]]
          BY <2>8, <5>2, <5>3
        <5> QED BY <5>1, <5>2, <5>4
      <4> QED BY <4>1, <4>2
    <3> QED BY <3>1, <3>2 DEF Tree
  <2>12. Cells'
    BY <1>1, <1>3, <1>4, <1>8, <2>7, <2>8 DEF Cells
  <2>13. Spoken'
    <3>1. Whole'[Here'] # Unset
      BY <1>3, <2>7 DEF Here
    <3>2. ASSUME NEW b \in 1 .. Len(home'), home'[b] < NoScope PROVE Whole'[home'[b]] # Unset
      <4>1. b \in 1 .. Len(home) /\ home'[b] = home[b] /\ home[b] \in Nat /\ home[b] < NoScope
        BY <1>3, <1>5, <3>2, PlateAssumption
      <4>2. home[b] \in Scopes
        BY <4>1, PlateAssumption DEF Scopes
      <4> QED BY <2>2, <2>8, <4>1, <4>2 DEF Spoken
    <3> QED BY <3>1, <3>2 DEF Spoken
  <2>14. (Levels(d) /\ Documented(d))'
    <3>1. Levels(d)'
      BY <1>3, <2>1 DEF Levels
    <3>2. ASSUME NEW s \in Inner, Whole'[s] # Unset
          PROVE  s <= Len(home') /\ Whole'[s] = <<d[s], home'[s]>>
      <4>1. CASE s = Here
        <5>1. s <= Len(home)
          BY <1>5, <1>8, <4>1
        <5>2. Whole'[s] = <<d[s], home[s]>>
          BY <2>4, <2>5, <4>1
        <5> QED BY <1>3, <5>1, <5>2
      <4>2. CASE s # Here
        BY <1>3, <2>1, <2>5, <3>2, <4>2, ScopeSorts DEF Documented
      <4> QED BY <4>1, <4>2
    <3> QED BY <3>1, <3>2 DEF Documented
  <2> QED BY <1>2, <1>3, <1>4, <1>8, <2>8, <2>11, <2>12, <2>13, <2>14 DEF DirInv
<1> QED BY <1>6, <1>7, <1>8, EntryStored

(* A signal leaves its stores to come, in their order.                        *)
LEMMA SignalOrder ==
  ASSUME NEW n \in Slots, NEW where, Fire(n, where), phase' # "over", InFlight, phase # "over",
         todo = <<>>, UNCHANGED dir
  PROVE  InFlight' /\ UNCHANGED Whole /\ (mapped => DepthComes')
<1>1. CASE mapped
  <2>1. todo' = Signal(n)
    BY <1>1 DEF Fire
  <2>2. /\ Len(todo') = 8 /\ todo' # <<>> /\ Head(todo') = todo'[1]
        /\ todo'[1][1] = "sticky" /\ todo'[2][1] = "count" /\ todo'[3][1] = "cell"
        /\ todo'[4][1] = "depth" /\ todo'[5][1] = "parent" /\ todo'[6][1] = "seq"
        /\ todo'[7][1] = "slot" /\ todo'[8][1] = "scope"
    <3>1. Len(Signal(n)) = 8 /\ Signal(n) # <<>> /\ Head(Signal(n)) = Signal(n)[1]
      BY SignalStores
    <3> QED BY <2>1, <3>1, SignalStores
  <2>3. \A k \in 1 .. 8 : \/ k = 1 \/ k = 2 \/ k = 3 \/ k = 4
                          \/ k = 5 \/ k = 6 \/ k = 7 \/ k = 8
    OBVIOUS
  <2>4. \A k \in 1 .. 8 : /\ todo'[k][1] = "cell" <=> k = 3
                          /\ todo'[k][1] = "depth" <=> k = 4
                          /\ todo'[k][1] = "parent" <=> k = 5
    BY ONLY <2>2, <2>3
  <2>5. StoreOrder'
    <3>1. \A k \in 1 .. 8 :
            /\ todo'[k][1] = "cell" => k + 1 \in 1 .. 8 /\ todo'[k + 1][1] = "depth"
            /\ k + 1 \in 1 .. 8 => (todo'[k][1] = "depth" <=> todo'[k + 1][1] = "parent")
            /\ todo'[k][1] = "depth" => k + 1 \in 1 .. 8
      BY ONLY <2>4
    <3> QED BY <2>2, <3>1 DEF StoreOrder
  <2>6. ~Half /\ ~Half' /\ DepthComes'
    BY <2>2 DEF Half, DepthComes
  <2> QED BY <2>5, <2>6, WholeKept DEF InFlight
<1>2. CASE ~mapped
  <2>1. todo' = todo /\ ~Half /\ ~Half'
    BY <1>2 DEF Fire, Half
  <2>2. StoreOrder'
    BY <2>1 DEF StoreOrder
  <2> QED BY <1>2, <2>1, <2>2, WholeKept DEF InFlight
<1> QED BY <1>1, <1>2

(* With nothing left to store and no store made, the plate stays in order.    *)
LEMMA QuietDir ==
  ASSUME DirInv, Running, todo = <<>>, UNCHANGED <<cell, Whole>>
  PROVE  (Tree /\ Cells)'
<1>1. ~DepthComes
  BY DEF DepthComes
<1> QED BY <1>1 DEF DirInv, Tree, Cells

(* Nothing left to store, or one boolean, is in order.                        *)
LEMMA QuietOrder ==
  ASSUME todo' = <<>> \/ \E n : todo' = <<<<"sticky", n>>>>
  PROVE  InFlight' /\ (todo = <<>> /\ UNCHANGED dir => UNCHANGED Whole)
<1>1. StoreOrder' /\ ~Half'
  <2>1. CASE todo' = <<>>
    BY <2>1 DEF StoreOrder, Half
  <2>2. ASSUME NEW n, todo' = <<<<"sticky", n>>>> PROVE StoreOrder' /\ ~Half'
    <3>1. Len(todo') = 1 /\ todo'[1][1] = "sticky" /\ Head(todo')[1] = "sticky"
      BY <2>2
    <3> QED BY <3>1 DEF StoreOrder, Half
  <2> QED BY <2>1, <2>2
<1>2. HalfStored' /\ (todo = <<>> => ~Half)
  BY <1>1 DEF HalfStored, Half
<1> QED BY <1>1, <1>2, WholeKept DEF InFlight

(* The block around a visited one is a number.                                *)
LEMMA HomeBounds ==
  ASSUME TypeInv
  PROVE  \A a \in 1 .. Len(home) : home[a] \in Nat
<1>1. home \in Seq(0 .. MaxBlocks) /\ MaxBlocks \in Nat
  BY PlateAssumption DEF TypeInv, TypeOK
<1>2. \A a \in 1 .. Len(home) : home[a] \in 0 .. MaxBlocks
  BY <1>1
<1> QED BY <1>1, <1>2

(* A block is opened one level below the open one, which is in the directory. *)
LEMMA EnterDir ==
  ASSUME TypeInv, TypeInv', ContextInv, DirInv, NEW b \in Blocks, Enter(b)
  PROVE  DirInv'
<1>1. /\ phase = "record" /\ phase' = "record" /\ todo = <<>> /\ todo' = <<>> /\ spoke /\ ~spoke'
      /\ UNCHANGED <<cell, Whole, mapped>>
  <2>1. /\ phase = "record" /\ phase' = "record" /\ todo = <<>> /\ todo' = <<>> /\ spoke /\ ~spoke'
        /\ UNCHANGED <<cell, dir, mapped>>
    BY DEF Enter, Ready, plate
  <2> QED BY <2>1, QuietOrder
<1>2. InFlight'
  BY <1>1, QuietOrder
<1>3. CASE ~mapped
  BY <1>1, <1>2, <1>3 DEF DirInv, Running
<1>4. CASE mapped
  <2>1. Running /\ (Tree /\ Cells)'
    BY <1>1, <1>4, QuietDir DEF Running
  <2>2. Spoken /\ ~DepthComes
    BY <1>1, <1>4 DEF DirInv, DepthComes
  <2>3. PICK d : Levels(d) /\ Documented(d)
    BY <1>1, <1>4 DEF DirInv
  <2>4. WalkInv /\ WalkInv'
    BY <1>1, EnterWalk DEF ContextInv
  <2>5. /\ Len(home) \in Nat /\ Len(home') \in Nat /\ Len(inside) \in Nat /\ b \in Nat /\ b >= 1
        /\ inside \in Seq(Blocks) /\ home \in Seq(0 .. MaxBlocks)
    <3>1. Len(home') \in Nat /\ b \in Nat /\ b >= 1
      <4>1. \E S : home' \in Seq(S)
        BY DEF TypeInv, TypeOK
      <4> QED BY <4>1, PlateTypes
    <3> QED BY <3>1, PlateTypes
  <2>6. /\ b \in 1 .. Len(home') /\ home'[b] = Here /\ Here' = b
        /\ Here \in Nat /\ Here < b
        /\ Len(home) <= Len(home') /\ \A a \in 1 .. Len(home) : home'[a] = home[a]
        /\ Len(home') = Len(home) \/ (Len(home') = b /\ b = Len(home) + 1)
        /\ Len(inside') = Len(inside) + 1 /\ inside' = Append(inside, b)
    BY EnterWalk
  <2>7. \A a \in 1 .. Len(home') : a \in 1 .. Len(home) \/ (a = b /\ b = Len(home) + 1)
    BY <2>5, <2>6
  <2>8. Spoken'
    <3>1. ASSUME NEW a \in 1 .. Len(home'), home'[a] < NoScope PROVE Whole'[home'[a]] # Unset
      <4>1. CASE a \in 1 .. Len(home)
        BY <1>1, <2>2, <2>6, <3>1, <4>1 DEF Spoken
      <4>2. CASE a = b
        BY <1>1, <2>2, <2>6, <3>1, <4>2 DEF Spoken
      <4> QED BY <2>7, <4>1, <4>2
    <3> QED BY <1>1, <3>1 DEF Spoken
  <2>9. /\ d \in [0 .. Len(home) -> Nat] /\ d[0] = 0
        /\ \A a \in 1 .. Len(home) : d[a] = d[home[a]] + 1
        /\ \A k \in 1 .. Len(inside) : d[inside[k]] = k
    BY <2>3 DEF Levels
  <2>10. Here \in 0 .. Len(home) /\ d[Here] = Len(inside)
    <3>1. CASE inside = <<>>
      <4>1. Here = 0 /\ Len(inside) = 0
        BY <3>1 DEF Here
      <4> QED BY <2>5, <2>9, <4>1
    <3>2. CASE inside # <<>>
      <4>1. Len(inside) \in 1 .. Len(inside) /\ Here = inside[Len(inside)]
        BY <2>5, <3>2 DEF Here, Last
      <4>2. Here \in 1 .. Len(home)
        BY <2>4, <4>1 DEF WalkInv
      <4> QED BY <2>9, <4>1, <4>2
    <3> QED BY <3>1, <3>2
  <2>11. PICK e : e = [a \in 0 .. Len(home') |-> IF a = b THEN Len(inside) + 1 ELSE d[a]]
    OBVIOUS
  <2>18. \A a \in 0 .. Len(home) : a \in 0 .. Len(home') /\ d[a] \in Nat /\ (a # b => e[a] = d[a])
    <3> TAKE a \in 0 .. Len(home)
    <3>1. a \in 0 .. Len(home')
      BY <2>5, <2>6
    <3>2. d[a] \in Nat
      BY <2>9
    <3> QED BY <2>11, <3>1, <3>2
  <2>19. b \in 0 .. Len(home') /\ e[b] = Len(inside) + 1
    BY <2>6, <2>5, <2>11
  <2>20. \A a \in 0 .. Len(home') : a \in 0 .. Len(home) \/ a = b
    BY <2>5, <2>7
  <2>21. e \in [0 .. Len(home') -> Nat]
    <3>1. \A a \in 0 .. Len(home') : (IF a = b THEN Len(inside) + 1 ELSE d[a]) \in Nat
      BY <2>5, <2>18, <2>20
    <3> QED BY <2>11, <3>1
  <2>12. b \in 1 .. Len(home) => d[b] = Len(inside) + 1
    BY <2>6, <2>9, <2>10
  <2>13. \A a \in 0 .. Len(home) : e[a] = d[a]
    BY <2>5, <2>12, <2>18, <2>19
  <2>14. \A a \in 1 .. Len(home') : e[a] = e[home'[a]] + 1
    <3> TAKE a \in 1 .. Len(home')
    <3>1. CASE a \in 1 .. Len(home)
      <4>1. home[a] \in 0 .. Len(home) /\ a \in 0 .. Len(home)
        <5>1. home[a] \in Nat /\ home[a] < a
          <6>1. home[a] \in Nat
            BY <3>1, HomeBounds
          <6> QED BY <2>4, <3>1, <6>1 DEF WalkInv
        <5> QED BY <2>5, <3>1, <5>1
      <4> QED BY <2>6, <2>9, <2>13, <3>1, <4>1
    <3>2. CASE a = b
      BY <2>5, <2>6, <2>10, <2>13, <2>19, <3>2
    <3> QED BY <2>7, <3>1, <3>2
  <2>15. \A k \in 1 .. Len(inside') : e[inside'[k]] = k
    <3> TAKE k \in 1 .. Len(inside')
    <3>1. CASE k \in 1 .. Len(inside)
      <4>1. inside'[k] = inside[k] /\ inside[k] \in 1 .. Len(home)
        BY <2>4, <2>5, <2>6, <3>1 DEF WalkInv
      <4>2. inside[k] \in 0 .. Len(home)
        BY <4>1, <2>5
      <4> QED BY <2>9, <2>13, <3>1, <4>1, <4>2
    <3>2. CASE k = Len(inside) + 1
      <4>1. inside'[k] = b
        BY <2>5, <2>6, <3>2
      <4> QED BY <2>19, <3>2, <4>1
    <3> QED BY <2>5, <2>6, <3>1, <3>2
  <2>16. Levels(e)'
    <3>1. 0 \in 0 .. Len(home)
      BY <2>5
    <3> QED BY <2>9, <2>13, <2>14, <2>15, <2>21, <3>1 DEF Levels
  <2>17. Documented(e)'
    <3>1. ASSUME NEW s \in Inner, Whole'[s] # Unset
          PROVE  s <= Len(home') /\ Whole'[s] = <<e[s], home'[s]>>
      <4>1. s <= Len(home) /\ Whole'[s] = <<d[s], home[s]>> /\ s \in Nat /\ s > 0
        BY <1>1, <2>3, <3>1, ScopeSorts DEF Documented
      <4>2. s \in 1 .. Len(home) /\ s \in 0 .. Len(home) /\ s <= Len(home')
        BY <2>5, <2>6, <4>1
      <4> QED BY <2>6, <2>13, <4>1, <4>2
    <3> QED BY <3>1 DEF Documented
  <2> QED BY <1>1, <1>2, <1>4, <2>1, <2>8, <2>16, <2>17 DEF DirInv
<1> QED BY <1>3, <1>4

(* Leaving a block returns to one that has its entry.                         *)
LEMMA ExitDir ==
  ASSUME TypeInv, TypeInv', ContextInv, DirInv, Exit
  PROVE  DirInv'
<1>1. /\ phase = "record" /\ phase' = "record" /\ todo = <<>> /\ todo' = <<>>
      /\ UNCHANGED <<cell, Whole, mapped, home>>
  <2>1. /\ phase = "record" /\ phase' = "record" /\ todo = <<>> /\ todo' = <<>>
        /\ UNCHANGED <<cell, dir, mapped, home>>
    BY DEF Exit, Ready, plate
  <2> QED BY <2>1, QuietOrder
<1>2. InFlight'
  BY <1>1, QuietOrder
<1>3. CASE ~mapped
  BY <1>1, <1>2, <1>3 DEF DirInv, Running
<1>4. CASE mapped
  <2>1. Running /\ (Tree /\ Cells)'
    BY <1>1, <1>4, QuietDir DEF Running
  <2>2. Spoken
    BY <1>1, <1>4 DEF DirInv
  <2>3. PICK d : Levels(d) /\ Documented(d)
    BY <1>1, <1>4 DEF DirInv
  <2>4. /\ Here \in 1 .. Len(home) /\ Here' = home[Here]
        /\ Len(inside') = Len(inside) - 1 /\ Len(inside) \in Nat
        /\ \A k \in 1 .. Len(inside') : inside'[k] = inside[k]
    <3>1. Len(inside) \in Nat
      BY DEF TypeInv, TypeOK
    <3> QED BY <3>1, ExitWalk
  <2>5. Spoken'
    BY <1>1, <2>2, <2>4 DEF Spoken
  <2>6. Levels(d)' /\ Documented(d)'
    <3>1. \A k \in 1 .. Len(inside') : k \in 1 .. Len(inside)
      BY <2>4
    <3> QED BY <1>1, <2>3, <2>4, <3>1 DEF Levels, Documented
  <2> QED BY <1>1, <1>2, <1>4, <2>1, <2>5, <2>6 DEF DirInv
<1> QED BY <1>3, <1>4

(* The recording walk starts on an empty directory.                           *)
LEMMA RecordingDir ==
  ASSUME TypeInv, TypeInv', ContextInv, DirInv, StartRecording
  PROVE  DirInv'
<1>1. /\ phase = "flush" /\ phase' = "record" /\ todo = <<>> /\ todo' = <<>>
      /\ UNCHANGED <<cell, Whole, mapped, home, inside, spoke>>
  <2>1. /\ phase = "flush" /\ phase' = "record" /\ todo = <<>> /\ todo' = <<>>
        /\ UNCHANGED <<cell, dir, mapped, home, inside, spoke>>
    BY DEF StartRecording, Ready, GoTo, plate, source
  <2> QED BY <2>1, QuietOrder
<1>2. InFlight'
  BY <1>1, QuietOrder
<1>3. CASE ~mapped
  BY <1>1, <1>2, <1>3 DEF DirInv, Running
<1>4. CASE mapped
  <2>1. Running /\ (Tree /\ Cells)'
    BY <1>1, <1>4, QuietDir DEF Running
  <2>2. home' = <<>> /\ inside' = <<>> /\ Len(home') = 0 /\ Len(inside') = 0
    BY <1>1 DEF ContextInv, TypeInv, Early
  <2>3. Levels([a \in 0 .. 0 |-> 0])'
    BY <2>2 DEF Levels
  <2>4. Documented([a \in 0 .. 0 |-> 0])'
    BY <1>1, <1>4 DEF DirInv, Documented
  <2>5. spoke' = FALSE
    BY <1>1 DEF ContextInv, Early
  <2> QED BY <1>1, <1>2, <1>4, <2>1, <2>2, <2>3, <2>4, <2>5 DEF DirInv, Spoken
<1> QED BY <1>3, <1>4

(* A pass without blocks fires, bails or moves on.                            *)
LEMMA PassDir ==
  ASSUME DirInv, todo = <<>>, InFlight', UNCHANGED <<cell, Whole, mapped>>,
         phase \notin {"idle", "reset_counts", "reset_scopes"},
         phase' # "record",
         phase' \in {"parse", "settle", "flush"} => phase \in {"parse", "settle", "flush"}
  PROVE  DirInv'
<1>1. Running' => (Tree /\ Cells)'
  BY QuietDir DEF Running
<1> QED BY <1>1 DEF DirInv

(* Every action keeps the directory a tree.                                   *)
LEMMA DirStep ==
  TypeInv /\ TypeInv' /\ ContextInv /\ ContextInv' /\ EventInv /\ DirInv /\ [Next]_vars => DirInv'
<1> SUFFICES ASSUME TypeInv, TypeInv', ContextInv, ContextInv', EventInv, DirInv, [Next]_vars
             PROVE  DirInv'
  OBVIOUS
<1>0. InFlight
  BY DEF DirInv
<1>1. CASE StoreSticky \/ StoreCount \/ StoreSeq \/ StoreSlot \/ StoreScope
  <2>1. PICK kind \in Kind \ {"cell", "depth", "parent"} : Store(kind) /\ UNCHANGED <<cell, dir>>
    BY <1>1 DEF StoreSticky, StoreCount, StoreSeq, StoreSlot, StoreScope, Kind
  <2>2. ~Half /\ ~Half'
    BY <2>1, StoreOrderKept
  <2>3. UNCHANGED Whole
    BY <2>1, <2>2, WholeKept
  <2> QED BY <2>1, <2>2, <2>3, PlainStoreDir
<1>2. CASE StoreCell \/ StoreDepth \/ StoreParent
  BY <1>2, CellStoreDir, DepthStoreDir, ParentStoreDir
<1>3. ASSUME NEW n \in Slots, PassSignal(n) \/ PassBail(n) \/ Flush(n) PROVE DirInv'
  <2>1. /\ todo = <<>> /\ phase \in {"parse", "check", "lower", "flush"}
        /\ phase' = phase \/ phase' = "refused"
        /\ UNCHANGED <<cell, dir, mapped>>
    BY <1>3 DEF PassSignal, PassBail, Flush, Ready, plate
  <2>2. PICK where : Fire(n, where)
    BY <1>3 DEF PassSignal, PassBail, Flush
  <2>3. InFlight' /\ UNCHANGED Whole
    BY <1>0, <2>1, <2>2, SignalOrder
  <2> QED BY <2>1, <2>3, PassDir
<1>4. ASSUME NEW n \in Slots, WalkSignal(n) PROVE DirInv'
  <2>1. /\ todo = <<>> /\ phase = "record" /\ phase' = "record"
        /\ UNCHANGED <<cell, dir, mapped, home, inside>> /\ Fire(n, ByteOf(Here))
    BY <1>4 DEF WalkSignal, Ready, plate
  <2>2. InFlight' /\ UNCHANGED Whole /\ (mapped => DepthComes')
    BY <1>0, <2>1, SignalOrder
  <2>3. Running => (Tree /\ Cells)'
    BY <2>1, <2>2, QuietDir
  <2>4. mapped => Spoken' /\ \E d : (Levels(d) /\ Documented(d))'
    BY <2>1, <2>2 DEF DirInv, Spoken, Levels, Documented
  <2> QED BY <2>1, <2>2, <2>3, <2>4 DEF DirInv, Running
<1>5. ASSUME NEW n \in Slots, Probe(n) \/ Poke(n) PROVE DirInv'
  <2>1. /\ todo = <<>> /\ phase \in {"settle", "emit"} /\ phase' = phase
        /\ todo' = <<>> \/ todo' = <<<<"sticky", n>>>>
        /\ UNCHANGED <<cell, dir, mapped>>
    BY <1>5 DEF Probe, Poke, Ready, plate
  <2> QED BY <2>1, QuietOrder, PassDir
<1>6. CASE ParseDone \/ Settled \/ StartCheck \/ StartLower \/ LowerDone
  <2>1. /\ todo = <<>> /\ todo' = <<>> /\ phase \notin {"idle", "reset_counts", "reset_scopes"}
        /\ phase' \in {"settle", "flush", "check", "lower", "emit"}
        /\ phase' \in {"settle", "flush"} => phase \in {"parse", "settle"}
        /\ UNCHANGED <<cell, dir, mapped>>
    BY <1>6 DEF ParseDone, Settled, StartCheck, StartLower, LowerDone, Ready, GoTo, plate
  <2> QED BY <2>1, QuietOrder, PassDir
<1>7. CASE StartRecording
  BY <1>7, RecordingDir
<1>8. CASE Exit \/ \E b \in Blocks : Enter(b)
  BY <1>8, EnterDir, ExitDir
<1>9. CASE Refuse \/ Succeed
  <2>1. /\ todo = <<>> /\ phase \notin {"idle", "reset_counts", "reset_scopes"} /\ phase' = "over"
        /\ todo' = <<>> \/ \E n : todo' = <<<<"sticky", n>>>>
        /\ UNCHANGED <<cell, dir, mapped>>
    BY <1>9 DEF Refuse, Succeed, Conclude, Ready, GoTo, plate, Passes
  <2> QED BY <2>1, QuietOrder, PassDir
<1>10. CASE StartRun \/ ResetCounts
  <2>1. /\ phase' \in {"reset_counts", "reset_scopes"} /\ todo' = <<>>
    BY <1>10 DEF StartRun, ResetCounts, EventInv
  <2> QED BY <2>1, QuietOrder DEF DirInv, Running
<1>11. CASE ResetScopes
  <2>1. phase' = "parse" /\ todo' = <<>> /\ mapped' = mapped
    BY <1>11 DEF ResetScopes, EventInv
  <2>2. ASSUME mapped
        PROVE  /\ Whole' = [s \in Scopes |-> Unset]
               /\ cell' = [n \in Slots |-> [s \in Scopes |-> 0]]
    BY <1>11, <2>1, <2>2 DEF ResetScopes, Whole, Half
  <2>3. ASSUME mapped PROVE \A s \in Scopes : Whole'[s] = Unset
    BY <2>2, <2>3
  <2>4. ASSUME mapped PROVE Tree' /\ \A s \in Inner : Whole'[s] = Unset
    BY <2>3, <2>4, ScopeSorts DEF Tree
  <2>5. ASSUME mapped PROVE Cells'
    BY <2>2, <2>5 DEF Cells
  <2> QED BY <2>1, <2>4, <2>5, QuietOrder DEF DirInv, Running
<1>12. CASE EndRun \/ Kill
  <2>1. phase' = "idle" /\ todo' = <<>>
    BY <1>12 DEF EndRun, Kill, Lose
  <2> QED BY <2>1, QuietOrder DEF DirInv, Running
<1>13. CASE UNCHANGED vars
  <2>1. UNCHANGED <<dir, cell, todo, register, phase, mapped, home, inside, spoke>>
    BY <1>13 DEF vars, plate, source
  <2>2. UNCHANGED Whole /\ InFlight'
    BY <1>0, <2>1 DEF Whole, Half, InFlight, StoreOrder, HalfStored
  <2>3. UNCHANGED <<Here, Running>>
    BY <2>1 DEF Here, Running
  <2> QED BY <2>1, <2>2, <2>3 DEF DirInv, Spoken, Levels, Documented, Tree, Cells, DepthComes
<1> QED BY <1>1, <1>2, <1>3, <1>4, <1>5, <1>6, <1>7, <1>8, <1>9, <1>10, <1>11, <1>12, <1>13 DEF Next

(* The directory is always one.                                               *)
LEMMA DirHolds == Spec => [](TypeInv /\ ContextInv /\ EventInv /\ DirInv)
<1>1. Init => EventInv
  BY DEF Init, EventInv, KilledRunReadable
<1>2. Init => DirInv
  BY DEF Init, DirInv, InFlight, StoreOrder, HalfStored, Half, Running
<1> QED BY <1>1, <1>2, EventStep, DirStep, TypesHold, ContextHolds, PTL DEF Spec

(* Between signals the directory of a run is a tree rooted in scope 0 that    *)
(* documents every cell that counts, however deep and wide the blocks nest    *)
(* and however many are folded into the byte that means no scope.             *)
THEOREM ScopesFormATree == Spec => []ScopeTree
<1>1. TypeInv /\ DirInv => ScopeTree
  <2> SUFFICES ASSUME TypeInv, DirInv, Quiet, NEW s \in Scopes
               PROVE  TreeAt(s)
    BY DEF ScopeTree
  <2>1. Running /\ ~DepthComes /\ Whole = dir
    BY DEF Quiet, Running, DepthComes, Whole, Half
  <2>2. Tree /\ Cells
    BY <2>1 DEF DirInv
  <2>3. (\E n \in Slots : cell[n][s] > 0) => dir[s] # Unset
    BY <2>1, <2>2 DEF Cells
  <2>4. CASE s \in {0, NoScope}
    BY <2>1, <2>2, <2>3, <2>4, ScopeSorts DEF Tree, TreeAt, RootEntry
  <2>5. CASE s \in Inner
    <3>1. dir[s] # Unset => /\ dir[s][2] \in 0 .. s - 1 /\ dir[dir[s][2]] # Unset
                            /\ dir[s][1] = dir[dir[s][2]][1] + 1
      BY <2>1, <2>2, <2>5 DEF Tree
    <3>2. s # 0 /\ s \in Nat
      BY <2>5, ScopeSorts
    <3> QED BY <2>3, <3>1, <3>2 DEF TreeAt
  <2> QED BY <2>4, <2>5, ScopeSorts
<1> QED BY <1>1, DirHolds, PTL

(* A half stored entry is that of the register's scope.                       *)
LEMMA WholeElsewhere ==
  ASSUME TypeInv, NEW s \in Scopes, Half => s # register.scope
  PROVE  Whole[s] = dir[s]
BY DEF Whole, TypeInv, TypeOK

(* A run that goes on has no other scope torn than its newest event's.        *)
LEMMA RunningTree ==
  ASSUME TypeInv, EventInv, DirInv, phase # "idle"
  PROVE  KilledTree
<1> SUFFICES ASSUME fired # <<>>, NEW s \in Scopes, s # Last(fired)[2]
             PROVE  TreeAt(s)
  BY DEF KilledTree
<1>1. Running /\ mapped
  BY DEF EventInv, Running
<1>2. Tree /\ Cells /\ HalfStored
  BY <1>1 DEF DirInv, InFlight
<1>3. (DepthComes \/ Half) => register.scope = Last(fired)[2]
  <2>1. CASE Signalling
    BY <1>1, <2>1 DEF EventInv, Newest, Last
  <2>2. CASE ~Signalling
    <3>1. \A k \in 1 .. Len(todo) : todo[k][1] = "sticky"
      BY <1>1, <2>2 DEF EventInv
    <3>2. todo # <<>> => 1 \in 1 .. Len(todo) /\ Head(todo) = todo[1]
      BY DEF TypeInv, TypeOK
    <3> QED BY <3>1, <3>2 DEF DepthComes, Half
  <2> QED BY <2>1, <2>2
<1>4. Whole[s] = dir[s]
  BY <1>3, WholeElsewhere
<1>5. (\E n \in Slots : cell[n][s] > 0) => dir[s] # Unset
  BY <1>2, <1>3, <1>4 DEF Cells
<1>6. CASE s \in {0, NoScope}
  BY <1>2, <1>4, <1>5, <1>6, ScopeSorts DEF Tree, TreeAt, RootEntry
<1>7. CASE s \in Inner
  <2>1. ASSUME dir[s] # Unset
        PROVE  dir[s][2] < s /\ dir[dir[s][2]] # Unset /\ dir[s][1] = dir[dir[s][2]][1] + 1
    <3> DEFINE up == dir[s][2]
    <3>1. /\ up \in 0 .. s - 1 /\ up \in Scopes /\ Whole[up] # Unset
          /\ dir[s][1] = Whole[up][1] + 1
      BY <1>2, <1>4, <1>7, <2>1, ScopeSorts DEF Tree
    <3>2. dir[up] # Unset
      <4>1. CASE Half
        BY <1>2, <1>3, <1>7, <2>1, <4>1 DEF HalfStored
      <4>2. CASE ~Half
        BY <3>1, <4>2 DEF Whole
      <4> QED BY <4>1, <4>2
    <3>3. Whole[up][1] = dir[up][1]
      <4>1. CASE Half /\ up = register.scope
        <5>1. dir[up][1] = register.depth
          BY <1>2, <4>1 DEF HalfStored
        <5>2. Whole[up] = <<register.depth, register.parent>>
          BY <3>1, <4>1 DEF Whole, TypeInv, TypeOK
        <5> QED BY <5>1, <5>2
      <4>2. CASE ~(Half /\ up = register.scope)
        BY <3>1, <4>2, WholeElsewhere
      <4> QED BY <4>1, <4>2
    <3>4. up < s
      BY <1>7, <3>1, ScopeSorts
    <3> QED BY <3>1, <3>2, <3>3, <3>4
  <2>2. s # 0
    BY <1>7, ScopeSorts
  <2> QED BY <1>5, <2>1, <2>2 DEF TreeAt
<1> QED BY <1>6, <1>7, ScopeSorts

(* What a run that ended or was killed left stays until the next one starts.  *)
LeftTree == phase = "idle" => KilledTree

LEMMA LeftStep == TypeInv /\ EventInv /\ DirInv /\ LeftTree /\ [Next]_vars => LeftTree'
<1> SUFFICES ASSUME TypeInv, EventInv, DirInv, LeftTree, [Next]_vars, phase' = "idle"
             PROVE  KilledTree'
  BY DEF LeftTree
<1>1. KilledTree
  BY RunningTree DEF LeftTree
<1>2. UNCHANGED <<cell, dir, fired>>
  <2>1. CASE EndRun \/ Kill
    BY <2>1 DEF EndRun, Kill, Lose, plate
  <2>2. CASE UNCHANGED vars
    BY <2>2 DEF vars, plate, source
  <2>3. ASSUME NEW kind, Store(kind) PROVE FALSE
    BY <2>3 DEF Store, EventInv
  <2>4. CASE \/ StoreSticky \/ StoreCount \/ StoreCell \/ StoreDepth \/ StoreParent
             \/ StoreSeq \/ StoreSlot \/ StoreScope
    BY <2>3, <2>4 DEF StoreSticky, StoreCount, StoreCell, StoreDepth, StoreParent, StoreSeq,
                      StoreSlot, StoreScope
  <2>5. CASE StartRun \/ ResetCounts \/ ResetScopes
    BY <2>5 DEF StartRun, ResetCounts, ResetScopes
  <2>6. ASSUME NEW n \in Slots,
               PassSignal(n) \/ PassBail(n) \/ Probe(n) \/ Flush(n) \/ WalkSignal(n) \/ Poke(n)
        PROVE  FALSE
    BY <2>6 DEF PassSignal, PassBail, Probe, Flush, WalkSignal, Poke, Ready
  <2>7. CASE ParseDone \/ Settled \/ StartRecording \/ StartCheck \/ StartLower \/ LowerDone
             \/ Refuse \/ Succeed
    BY <2>7 DEF ParseDone, Settled, StartRecording, StartCheck, StartLower, LowerDone, Refuse,
                Succeed, Conclude, GoTo
  <2>8. CASE Exit \/ \E b \in Blocks : Enter(b)
    BY <2>8 DEF Exit, Enter, Ready
  <2> QED BY <2>1, <2>2, <2>4, <2>5, <2>6, <2>7, <2>8 DEF Next
<1> QED BY <1>1, <1>2 DEF KilledTree, TreeAt

(* Whichever store a run is killed after, the plate it leaves has no scope    *)
(* torn but the newest event's: every other cell that counts has its entry,   *)
(* and every other entry its parent's (trace.rs:271-288).                     *)
THEOREM KilledTreesAreWhole == Spec => []KilledTree
<1>1. Init => LeftTree
  BY DEF Init, LeftTree, KilledTree
<1>2. TypeInv /\ EventInv /\ DirInv /\ LeftTree => KilledTree
  BY RunningTree DEF LeftTree
<1> QED BY <1>1, <1>2, LeftStep, DirHolds, PTL DEF Spec

(* Within a run a scope keeps the entry it was first given, byte by byte: a   *)
(* block walked again, and one the walk returns to, is written as it was; a   *)
(* byte changes in an entry that has one only where the parent follows the    *)
(* depth (trace.rs:285-286).                                                  *)
THEOREM DirectoryIsStable == Spec => DirectoryStable
<1> DEFINE Keeps(s) == \/ dir'[s] \in {dir[s], Unset}
                       \/ HalfEntry(s) /\ dir[s][2] = 0 /\ dir'[s][1] = dir[s][1]
<1>1. TypeInv /\ ContextInv /\ EventInv /\ DirInv /\ [Next]_vars
      => [\A s \in Scopes : dir[s] # Unset => Keeps(s)]_vars
  <2> SUFFICES ASSUME TypeInv, ContextInv, EventInv, DirInv, Next,
                      NEW s \in Scopes, dir[s] # Unset
               PROVE  Keeps(s)
    OBVIOUS
  <2>1. CASE StoreDepth
    BY <2>1, DepthStoreHalf
  <2>2. CASE StoreParent
    <3>1. dir \in [Scopes -> Nat \X Scopes] /\ todo # <<>> /\ Head(todo)[1] = "parent"
      BY <2>2 DEF StoreParent, Store, TypeInv, TypeOK
    <3>2. CASE s # register.scope \/ register.scope = NoScope
      BY <2>2, <3>1, <3>2 DEF StoreParent
    <3>3. CASE s = register.scope /\ register.scope # NoScope
      <4>1. dir[s] \in {<<register.depth, 0>>, <<register.depth, register.parent>>}
        BY <3>1, <3>3 DEF DirInv, InFlight, HalfStored, Half
      <4>2. dir'[s] = <<dir[s][1], register.parent>>
        BY <2>2, <3>1, <3>3 DEF StoreParent
      <4>3. CASE dir[s] = <<register.depth, 0>>
        <5>1. dir[s][2] = 0 /\ dir'[s][1] = dir[s][1]
          BY <4>2, <4>3
        <5> QED BY <3>1, <3>3, <5>1 DEF HalfEntry
      <4>4. CASE dir[s] = <<register.depth, register.parent>>
        BY <4>2, <4>4
      <4> QED BY <4>1, <4>3, <4>4
    <3> QED BY <3>2, <3>3
  <2>3. CASE ResetScopes
    <3>1. dir' = dir \/ dir' = [t \in Scopes |-> Unset]
      BY <2>3 DEF ResetScopes
    <3> QED BY <3>1
  <2>4. CASE UNCHANGED dir
    BY <2>4
  <2>5. CASE StoreSticky \/ StoreCount \/ StoreCell \/ StoreSeq \/ StoreSlot \/ StoreScope
    BY <2>4, <2>5 DEF StoreSticky, StoreCount, StoreCell, StoreSeq, StoreSlot, StoreScope
  <2>6. CASE StartRun \/ ResetCounts \/ EndRun \/ Kill
    BY <2>4, <2>6 DEF StartRun, ResetCounts, EndRun, Kill, Lose, plate
  <2>7. ASSUME NEW n \in Slots,
               PassSignal(n) \/ PassBail(n) \/ Probe(n) \/ Flush(n) \/ WalkSignal(n) \/ Poke(n)
        PROVE  UNCHANGED dir
    BY <2>7 DEF PassSignal, PassBail, Probe, Flush, WalkSignal, Poke, plate
  <2>8. CASE ParseDone \/ Settled \/ StartRecording \/ StartCheck \/ StartLower \/ LowerDone
             \/ Exit \/ Refuse \/ Succeed
    BY <2>4, <2>8 DEF ParseDone, Settled, StartRecording, StartCheck, StartLower, LowerDone, Exit,
                      Refuse, Succeed, Conclude, GoTo, plate
  <2>9. ASSUME NEW b \in Blocks, Enter(b) PROVE UNCHANGED dir
    BY <2>9 DEF Enter, plate
  <2> QED BY <2>1, <2>2, <2>3, <2>4, <2>5, <2>6, <2>7, <2>8, <2>9 DEF Next
<1> QED BY <1>1, DirHolds, PTL DEF Spec, DirectoryStable

-----------------------------------------------------------------------------
(* What the plate counts is what was fired: between any two stores of a run   *)
(* the counters and the cells stand for all signals of the run, or for all    *)
(* but the newest, each up to its cap.                                        *)

(* A store of that kind is still to come.                                     *)
Comes(kind) == \E k \in 1 .. Len(todo) : todo[k][1] = kind

(* How many of the signals fired the stores of a kind have been made for.     *)
Made(kind) == IF Comes(kind) THEN Len(fired) - 1 ELSE Len(fired)

Hits(n, last) == {k \in 1 .. last : fired[k][1] = n}
CellHits(n, s, last) == {k \in 1 .. last : fired[k] = <<n, s>>}

(* The counter and the cell of a signal are stored once each, for the newest. *)
CountOrder ==
  \A k \in 1 .. Len(todo) :
    /\ todo[k][1] \in {"count", "cell"} => fired # <<>> /\ todo[k][2] = fired[Len(fired)][1]
    /\ todo[k][1] = "count" => Len(todo) = k + 6
    /\ todo[k][1] = "cell" => Len(todo) = k + 5

CountsTold ==
  \A n \in Slots : count[n] = Least(Many, Cardinality(Hits(n, Made("count"))))

CellsTold ==
  \A n \in Slots : \A s \in Scopes :
    cell[n][s] = IF s = NoScope THEN 0
                 ELSE Least(Many, Cardinality(CellHits(n, s, Made("cell"))))

LogInv ==
  /\ CountOrder
  /\ mapped /\ phase = "reset_scopes" => \A n \in Slots : count[n] = 0
  /\ Running => CountsTold /\ CellsTold

-----------------------------------------------------------------------------
(* Counting. *)

(* A position past the ones counted adds one. *)
LEMMA OneMore ==
  ASSUME NEW m \in Nat, NEW S \in SUBSET (1 .. m)
  PROVE  /\ Cardinality(S) \in Nat
         /\ Cardinality(S \union {m + 1}) = Cardinality(S) + 1
<1>1. IsFiniteSet(S)
  <2>1. IsFiniteSet(1 .. m)
    BY FS_Interval
  <2> QED BY <2>1, FS_Subset
<1>2. m + 1 \notin S
  OBVIOUS
<1> QED BY <1>1, <1>2, FS_AddElement, FS_CardinalityType

(* The cap is reached by saturation as by counting. *)
LEMMA BumpCounts ==
  ASSUME NEW c \in Nat
  PROVE  Bump(Least(Many, c)) = Least(Many, c + 1)
BY PlateAssumption DEF Bump, Least

(* What the newest signal adds to the ones fired before it. *)
LEMMA NewestHit ==
  ASSUME TypeInv, fired # <<>>
  PROVE  /\ Len(fired) - 1 \in Nat
         /\ \A n : Hits(n, Len(fired)) =
                     IF fired[Len(fired)][1] = n
                     THEN Hits(n, Len(fired) - 1) \union {Len(fired)}
                     ELSE Hits(n, Len(fired) - 1)
         /\ \A n, s : CellHits(n, s, Len(fired)) =
                        IF fired[Len(fired)] = <<n, s>>
                        THEN CellHits(n, s, Len(fired) - 1) \union {Len(fired)}
                        ELSE CellHits(n, s, Len(fired) - 1)
<1>1. PICK m \in Nat : m + 1 = Len(fired)
  <2>1. fired \in Seq(Slots \X Scopes)
    BY DEF TypeInv, TypeOK
  <2>2. Len(fired) \in Nat /\ Len(fired) # 0
    BY <2>1
  <2> QED BY <2>2
<1>2. 1 .. m + 1 = (1 .. m) \union {m + 1} /\ m + 1 \notin 1 .. m /\ Len(fired) - 1 = m
  BY <1>1
<1> QED BY <1>1, <1>2 DEF Hits, CellHits

-----------------------------------------------------------------------------
(* The stores. *)

(* A store comes off the front of the queue; the order of the rest stands. *)
LEMMA StoreLeaves ==
  ASSUME TypeInv, EventInv, CountOrder, NEW kind \in Kind, Store(kind)
  PROVE  /\ CountOrder'
         /\ \A other \in Kind \ {kind} : Comes(other)' <=> Comes(other)
         /\ kind \in {"count", "cell"} =>
              /\ Comes(kind) /\ ~Comes(kind)'
              /\ fired # <<>> /\ Head(todo)[2] = fired[Len(fired)][1]
              /\ register.scope = fired[Len(fired)][2]
         /\ UNCHANGED <<mapped, phase, fired>>
<1>1. /\ todo # <<>> /\ Head(todo)[1] = kind
      /\ \A k \in 1 .. Len(todo') : todo'[k] = todo[k + 1]
      /\ Len(todo') = Len(todo) - 1
  BY StoreTypes
<1>2. todo \in Seq(Pending) /\ Len(todo) \in Nat /\ 1 \in 1 .. Len(todo) /\ todo[1][1] = kind
      /\ Head(todo) = todo[1]
  BY <1>1 DEF TypeInv, TypeOK, Pending, Kind
<1>3. UNCHANGED <<mapped, phase, fired>>
  BY DEF Store, source
<1>4. \A k \in 2 .. Len(todo) : k - 1 \in 1 .. Len(todo') /\ todo'[k - 1] = todo[k]
  BY <1>1, <1>2
<1>5. \A k \in 1 .. Len(todo') : k + 1 \in 2 .. Len(todo) /\ k + 1 \in 1 .. Len(todo)
  BY <1>1, <1>2
<1>6. CountOrder'
  <2> SUFFICES ASSUME NEW k \in 1 .. Len(todo')
               PROVE  /\ todo'[k][1] \in {"count", "cell"} =>
                           fired # <<>> /\ todo'[k][2] = fired[Len(fired)][1]
                      /\ todo'[k][1] = "count" => Len(todo') = k + 6
                      /\ todo'[k][1] = "cell" => Len(todo') = k + 5
    BY <1>3 DEF CountOrder
  <2>1. k + 1 \in 1 .. Len(todo) /\ todo'[k] = todo[k + 1]
    BY <1>1, <1>5
  <2>2. /\ todo[k + 1][1] \in {"count", "cell"} =>
             fired # <<>> /\ todo[k + 1][2] = fired[Len(fired)][1]
        /\ todo[k + 1][1] = "count" => Len(todo) = (k + 1) + 6
        /\ todo[k + 1][1] = "cell" => Len(todo) = (k + 1) + 5
    BY <2>1 DEF CountOrder
  <2> QED BY <1>1, <1>2, <2>1, <2>2
<1>7. ASSUME NEW other \in Kind \ {kind} PROVE Comes(other)' <=> Comes(other)
  <2>1. ASSUME NEW k \in 1 .. Len(todo), todo[k][1] = other PROVE Comes(other)'
    <3>1. k # 1
      BY <1>2, <2>1
    <3>2. k \in 2 .. Len(todo)
      BY <1>2, <2>1, <3>1
    <3> QED BY <1>4, <2>1, <3>2 DEF Comes
  <2>2. ASSUME NEW k \in 1 .. Len(todo'), todo'[k][1] = other PROVE Comes(other)
    BY <1>1, <1>5, <2>2 DEF Comes
  <2> QED BY <2>1, <2>2 DEF Comes
<1>8. ASSUME kind \in {"count", "cell"}
      PROVE  /\ Comes(kind) /\ ~Comes(kind)'
             /\ fired # <<>> /\ Head(todo)[2] = fired[Len(fired)][1]
             /\ register.scope = fired[Len(fired)][2]
  <2>1. /\ Comes(kind) /\ fired # <<>> /\ Head(todo)[2] = fired[Len(fired)][1]
        /\ kind = "count" => Len(todo) = 1 + 6
        /\ kind = "cell" => Len(todo) = 1 + 5
    BY <1>2, <1>8 DEF Comes, CountOrder
  <2>2. ASSUME NEW k \in 1 .. Len(todo'), todo'[k][1] = kind PROVE FALSE
    <3>1. k + 1 \in 1 .. Len(todo) /\ todo[k + 1][1] = kind /\ k >= 1
      BY <1>1, <1>5, <2>2
    <3>2. /\ kind = "count" => Len(todo) = (k + 1) + 6
          /\ kind = "cell" => Len(todo) = (k + 1) + 5
      BY <3>1 DEF CountOrder
    <3>3. PICK l \in Nat : l = Len(todo)
      BY <1>2
    <3>4. k \in Nat /\ k >= 1
      BY <1>1, <1>2
    <3>5. (l = 1 + 6 /\ l = (k + 1) + 6) \/ (l = 1 + 5 /\ l = (k + 1) + 5)
      BY <1>8, <2>1, <3>2, <3>3
    <3> QED BY <3>4, <3>5
  <2>3. mapped /\ Signalling
    BY <1>1, <1>2, <1>8 DEF EventInv
  <2>4. Newest
    BY <2>3 DEF EventInv
  <2> QED BY <2>1, <2>2, <2>4 DEF Comes, Newest
<1> QED BY <1>3, <1>6, <1>7, <1>8

(* A store that counts nothing leaves what is counted told. *)
LEMMA PlainStoreLog ==
  ASSUME TypeInv, EventInv, LogInv, NEW kind \in Kind \ {"count", "cell"}, Store(kind),
         UNCHANGED <<count, cell>>
  PROVE  LogInv'
<1>1. /\ CountOrder' /\ UNCHANGED <<mapped, phase, fired>>
      /\ (Comes("count")' <=> Comes("count")) /\ (Comes("cell")' <=> Comes("cell"))
  BY StoreLeaves DEF LogInv, Kind
<1>2. Made("count")' = Made("count") /\ Made("cell")' = Made("cell")
  BY <1>1 DEF Made
<1>3. (CountsTold => CountsTold') /\ (CellsTold => CellsTold')
  BY <1>1, <1>2 DEF CountsTold, CellsTold, Hits, CellHits
<1>4. Running' = Running
  BY <1>1 DEF Running
<1> QED BY <1>1, <1>3, <1>4 DEF LogInv

(* The counter's store catches up with the newest signal. *)
LEMMA CountStoreLog ==
  ASSUME TypeInv, EventInv, LogInv, StoreCount
  PROVE  LogInv'
<1>1. Store("count") /\ UNCHANGED cell /\ count' = [count EXCEPT ![Head(todo)[2]] = Bump(@)]
  BY DEF StoreCount
<1>2. /\ CountOrder' /\ UNCHANGED <<mapped, phase, fired>>
      /\ Comes("count") /\ ~Comes("count")' /\ (Comes("cell")' <=> Comes("cell"))
      /\ fired # <<>> /\ Head(todo)[2] = fired[Len(fired)][1]
  BY <1>1, StoreLeaves DEF LogInv, Kind
<1>3. Made("count") = Len(fired) - 1 /\ Made("count")' = Len(fired) /\ Made("cell")' = Made("cell")
  BY <1>2 DEF Made
<1>4. CellsTold => CellsTold'
  BY <1>1, <1>2, <1>3 DEF CellsTold, CellHits
<1>5. count \in [Slots -> 0 .. Many] /\ Head(todo)[2] \in Slots
  BY <1>1, StoreTypes DEF TypeInv, TypeOK, Kind
<1>6. ASSUME CountsTold, NEW n \in Slots
      PROVE  count'[n] = Least(Many, Cardinality(Hits(n, Len(fired))))
  <2>1. PICK m \in Nat : m = Len(fired) - 1 /\ m + 1 = Len(fired)
    <3>1. Len(fired) - 1 \in Nat
      BY <1>2, NewestHit
    <3>2. fired \in Seq(Slots \X Scopes)
      BY DEF TypeInv, TypeOK
    <3>3. Len(fired) \in Nat
      BY <3>2
    <3> QED BY <3>1, <3>3
  <2>2. count[n] = Least(Many, Cardinality(Hits(n, m)))
    BY <1>3, <1>6, <2>1 DEF CountsTold
  <2>3. CASE fired[Len(fired)][1] = n
    <3>1. Hits(n, Len(fired)) = Hits(n, m) \union {m + 1}
      BY <1>2, <2>1, <2>3, NewestHit
    <3>2. Hits(n, m) \in SUBSET (1 .. m)
      BY DEF Hits
    <3>3. /\ Cardinality(Hits(n, m)) \in Nat
          /\ Cardinality(Hits(n, Len(fired))) = Cardinality(Hits(n, m)) + 1
      BY <3>1, <3>2, OneMore
    <3>4. count'[n] = Bump(count[n])
      BY <1>1, <1>2, <1>5, <2>3
    <3> QED BY <2>2, <3>3, <3>4, BumpCounts
  <2>4. CASE fired[Len(fired)][1] # n
    <3>1. Hits(n, Len(fired)) = Hits(n, m)
      BY <1>2, <2>1, <2>4, NewestHit
    <3>2. count'[n] = count[n]
      BY <1>1, <1>2, <1>5, <2>4
    <3> QED BY <2>2, <3>1, <3>2
  <2> QED BY <2>3, <2>4
<1>7. CountsTold => CountsTold'
  BY <1>2, <1>3, <1>6 DEF CountsTold, Hits
<1>8. phase # "reset_scopes"
  <2>1. todo # <<>>
    BY <1>1, StoreTypes DEF Kind
  <2> QED BY <2>1 DEF EventInv
<1> QED BY <1>2, <1>4, <1>7, <1>8 DEF LogInv, Running

(* The cell's store catches up with it, in the scope it was fired in. *)
LEMMA CellStoreLog ==
  ASSUME TypeInv, EventInv, LogInv, StoreCell
  PROVE  LogInv'
<1>1. Store("cell") /\ UNCHANGED count
      /\ cell' = IF register.scope = NoScope THEN cell
                 ELSE [cell EXCEPT ![Head(todo)[2]][register.scope] = Bump(@)]
  BY DEF StoreCell
<1>2. /\ CountOrder' /\ UNCHANGED <<mapped, phase, fired>>
      /\ Comes("cell") /\ ~Comes("cell")' /\ (Comes("count")' <=> Comes("count"))
      /\ fired # <<>> /\ Head(todo)[2] = fired[Len(fired)][1]
      /\ register.scope = fired[Len(fired)][2]
  BY <1>1, StoreLeaves DEF LogInv, Kind
<1>3. Made("cell") = Len(fired) - 1 /\ Made("cell")' = Len(fired) /\ Made("count")' = Made("count")
  BY <1>2 DEF Made
<1>4. CountsTold => CountsTold'
  BY <1>1, <1>2, <1>3 DEF CountsTold, Hits
<1>5. /\ cell \in [Slots -> [Scopes -> 0 .. Many]] /\ Head(todo)[2] \in Slots
      /\ register.scope \in Scopes
  BY <1>1, StoreTypes DEF TypeInv, TypeOK, Kind, Register
<1>6. fired[Len(fired)] = <<Head(todo)[2], register.scope>>
  <2>1. fired \in Seq(Slots \X Scopes) /\ Len(fired) \in 1 .. Len(fired)
    BY <1>2 DEF TypeInv, TypeOK
  <2>2. fired[Len(fired)] \in Slots \X Scopes
    BY <2>1
  <2> QED BY <1>2, <2>2
<1>7. ASSUME CellsTold, NEW n \in Slots, NEW s \in Scopes
      PROVE  cell'[n][s] = IF s = NoScope THEN 0
                           ELSE Least(Many, Cardinality(CellHits(n, s, Len(fired))))
  <2>1. PICK m \in Nat : m = Len(fired) - 1 /\ m + 1 = Len(fired)
    <3>1. Len(fired) - 1 \in Nat
      BY <1>2, NewestHit
    <3>2. fired \in Seq(Slots \X Scopes)
      BY DEF TypeInv, TypeOK
    <3>3. Len(fired) \in Nat
      BY <3>2
    <3> QED BY <3>1, <3>3
  <2>2. cell[n][s] = IF s = NoScope THEN 0 ELSE Least(Many, Cardinality(CellHits(n, s, m)))
    BY <1>3, <1>7, <2>1 DEF CellsTold
  <2>3. CASE n = Head(todo)[2] /\ s = register.scope /\ s # NoScope
    <3>1. CellHits(n, s, Len(fired)) = CellHits(n, s, m) \union {m + 1}
      BY <1>2, <1>6, <2>1, <2>3, NewestHit
    <3>2. CellHits(n, s, m) \in SUBSET (1 .. m)
      BY DEF CellHits
    <3>3. /\ Cardinality(CellHits(n, s, m)) \in Nat
          /\ Cardinality(CellHits(n, s, Len(fired))) = Cardinality(CellHits(n, s, m)) + 1
      BY <3>1, <3>2, OneMore
    <3>4. cell'[n][s] = Bump(cell[n][s])
      BY <1>1, <1>5, <2>3
    <3> QED BY <2>2, <2>3, <3>3, <3>4, BumpCounts
  <2>4. CASE ~(n = Head(todo)[2] /\ s = register.scope /\ s # NoScope)
    <3>1. cell'[n][s] = cell[n][s]
      BY <1>1, <1>5, <2>4
    <3>2. s # NoScope => CellHits(n, s, Len(fired)) = CellHits(n, s, m)
      <4>1. s # NoScope => fired[Len(fired)] # <<n, s>>
        BY <1>6, <2>4
      <4> QED BY <1>2, <2>1, <4>1, NewestHit
    <3> QED BY <2>2, <3>1, <3>2
  <2> QED BY <2>3, <2>4
<1>8. CellsTold => CellsTold'
  BY <1>2, <1>3, <1>7 DEF CellsTold, CellHits
<1>9. phase # "reset_scopes"
  <2>1. todo # <<>>
    BY <1>1, StoreTypes DEF Kind
  <2> QED BY <2>1 DEF EventInv
<1> QED BY <1>2, <1>4, <1>8, <1>9 DEF LogInv, Running

-----------------------------------------------------------------------------
(* The signals. *)

(* With the counts and the cells still to store, a signal that fires is not   *)
(* counted yet, and what was counted of the ones before stands.               *)
LEMMA FireLog ==
  ASSUME TypeInv, EventInv, LogInv, NEW n \in Slots, NEW where, Fire(n, where),
         todo = <<>>, phase \notin {"idle", "reset_counts", "reset_scopes"},
         phase' # "reset_scopes", UNCHANGED <<mapped, count, cell>>
  PROVE  LogInv'
<1>1. CASE ~mapped
  <2>1. UNCHANGED <<todo, fired, mapped>> /\ Len(todo) = 0
    BY <1>1 DEF Fire
  <2> QED BY <1>1, <2>1 DEF LogInv, CountOrder, Running
<1>2. CASE mapped
  <2>1. todo' = Signal(n) /\ fired' = Append(fired, <<n, where>>)
    BY <1>2 DEF Fire
  <2>2. PICK m \in Nat : m = Len(fired)
    BY DEF TypeInv, TypeOK
  <2>3. /\ Len(fired') = m + 1 /\ fired' # <<>> /\ fired'[m + 1] = <<n, where>>
        /\ \A k \in 1 .. m : fired'[k] = fired[k]
    <3>1. fired \in Seq(Slots \X Scopes)
      BY DEF TypeInv, TypeOK
    <3> QED BY <2>1, <2>2, <3>1
  <2>4. /\ Len(todo') = 8
        /\ todo'[1] = <<"sticky", n>> /\ todo'[2] = <<"count", n>> /\ todo'[3] = <<"cell", n>>
        /\ todo'[4] = <<"depth", n>> /\ todo'[5] = <<"parent", n>> /\ todo'[6] = <<"seq", n>>
        /\ todo'[7] = <<"slot", n>> /\ todo'[8] = <<"scope", n>>
    BY <2>1, SignalStores
  <2>5. \A k \in 1 .. 8 : k = 1 \/ k = 2 \/ k = 3 \/ k = 4 \/ k = 5 \/ k = 6 \/ k = 7 \/ k = 8
    OBVIOUS
  <2>6. \A k \in 1 .. 8 : /\ todo'[k][2] = n
                          /\ todo'[k][1] = "count" => k = 2
                          /\ todo'[k][1] = "cell" => k = 3
    BY <2>4, <2>5
  <2>7. CountOrder'
    <3>1. fired'[Len(fired')][1] = n
      BY <2>3
    <3>2. ASSUME NEW k \in 1 .. Len(todo')
          PROVE  /\ todo'[k][2] = n
                 /\ todo'[k][1] = "count" => Len(todo') = k + 6
                 /\ todo'[k][1] = "cell" => Len(todo') = k + 5
      BY <2>4, <2>6, <3>2
    <3> QED BY <2>3, <3>1, <3>2 DEF CountOrder
  <2>8. Comes("count")' /\ Comes("cell")'
    <3>1. 2 \in 1 .. Len(todo') /\ 3 \in 1 .. Len(todo') /\ todo'[2][1] = "count" /\ todo'[3][1] = "cell"
      BY <2>4
    <3> QED BY <3>1 DEF Comes
  <2>9. ~Comes("count") /\ ~Comes("cell")
    BY DEF Comes
  <2>10. Made("count")' = m /\ Made("cell")' = m /\ Made("count") = m /\ Made("cell") = m
    BY <2>2, <2>3, <2>8, <2>9 DEF Made
  <2>11. ASSUME NEW x PROVE Hits(x, m)' = Hits(x, m)
    BY <2>3 DEF Hits
  <2>12. ASSUME NEW x, NEW s PROVE CellHits(x, s, m)' = CellHits(x, s, m)
    BY <2>3 DEF CellHits
  <2>13. CountsTold /\ CellsTold
    BY <1>2 DEF LogInv, Running
  <2>14. CountsTold'
    BY <2>10, <2>11, <2>13 DEF CountsTold, Hits
  <2>15. CellsTold'
    <3>1. ASSUME NEW x \in Slots, NEW s \in Scopes
          PROVE  cell'[x][s] = IF s = NoScope THEN 0
                               ELSE Least(Many, Cardinality(CellHits(x, s, m)'))
      <4>1. cell[x][s] = IF s = NoScope THEN 0 ELSE Least(Many, Cardinality(CellHits(x, s, m)))
        BY <2>10, <2>13 DEF CellsTold
      <4> QED BY <2>12, <4>1
    <3> QED BY <2>10, <3>1 DEF CellsTold, CellHits
  <2> QED BY <2>7, <2>14, <2>15 DEF LogInv
<1> QED BY <1>1, <1>2

(* Where no signal fires and no store is made, what is told stays told.       *)
LEMMA QuietLog ==
  ASSUME LogInv, todo = <<>>, todo' = <<>> \/ \E n : todo' = <<<<"sticky", n>>>>,
         Running' => Running, phase' # "reset_scopes", UNCHANGED <<count, cell, fired>>
  PROVE  LogInv'
<1>1. \A k \in 1 .. Len(todo') : todo'[k][1] = "sticky"
  <2>1. CASE todo' = <<>>
    BY <2>1
  <2>2. ASSUME NEW n, todo' = <<<<"sticky", n>>>> PROVE \A k \in 1 .. Len(todo') : todo'[k][1] = "sticky"
    BY <2>2
  <2> QED BY <2>1, <2>2
<1>2. CountOrder'
  BY <1>1 DEF CountOrder
<1>3. ~Comes("count") /\ ~Comes("cell") /\ ~Comes("count")' /\ ~Comes("cell")'
  BY <1>1 DEF Comes
<1>4. Made("count")' = Made("count") /\ Made("cell")' = Made("cell")
  BY <1>3 DEF Made
<1>5. CountsTold => CountsTold'
  BY <1>4 DEF CountsTold, Hits
<1>6. CellsTold => CellsTold'
  BY <1>4 DEF CellsTold, CellHits
<1> QED BY <1>2, <1>5, <1>6 DEF LogInv

(* A run that has a map starts to count from nothing.                         *)
LEMMA ResetLog ==
  ASSUME TypeInv, EventInv, LogInv, ResetScopes
  PROVE  LogInv'
<1>1. /\ phase = "reset_scopes" /\ phase' = "parse" /\ fired = <<>> /\ todo = <<>>
      /\ UNCHANGED <<count, mapped, fired, todo>>
  BY DEF ResetScopes, EventInv, source
<1>2. CountOrder'
  BY <1>1 DEF CountOrder
<1>3. ASSUME mapped PROVE CountsTold' /\ CellsTold'
  <2>1. /\ \A n \in Slots : count'[n] = 0
        /\ cell' = [n \in Slots |-> [s \in Scopes |-> 0]]
    BY <1>1, <1>3 DEF LogInv, ResetScopes
  <2>2. \A n \in Slots : \A s \in Scopes : cell'[n][s] = 0
    BY <2>1
  <2>3. Made("count")' = 0 /\ Made("cell")' = 0
    BY <1>1 DEF Made, Comes
  <2>4. \A n, s : Hits(n, 0)' = {} /\ CellHits(n, s, 0)' = {}
    BY DEF Hits, CellHits
  <2>5. Cardinality({}) = 0 /\ Least(Many, 0) = 0
    BY FS_EmptySet, PlateAssumption DEF Least
  <2>6. CountsTold'
    BY <2>1, <2>3, <2>4, <2>5 DEF CountsTold
  <2>7. CellsTold'
    BY <2>2, <2>3, <2>4, <2>5 DEF CellsTold
  <2> QED BY <2>6, <2>7
<1> QED BY <1>1, <1>2, <1>3 DEF LogInv, Running

(* Every action keeps what is counted told.                                   *)
LEMMA LogStep == TypeInv /\ ContextInv /\ EventInv /\ LogInv /\ [Next]_vars => LogInv'
<1> SUFFICES ASSUME TypeInv, ContextInv, EventInv, LogInv, [Next]_vars
             PROVE  LogInv'
  OBVIOUS
<1>1. CASE StoreSticky \/ StoreDepth \/ StoreParent \/ StoreSeq \/ StoreSlot \/ StoreScope
  BY <1>1, PlainStoreLog
     DEF StoreSticky, StoreDepth, StoreParent, StoreSeq, StoreSlot, StoreScope, Kind
<1>2. CASE StoreCount \/ StoreCell
  BY <1>2, CountStoreLog, CellStoreLog
<1>3. ASSUME NEW n \in Slots, PassSignal(n) \/ PassBail(n) \/ Flush(n) \/ WalkSignal(n)
      PROVE  LogInv'
  <2>1. /\ todo = <<>> /\ phase \in {"parse", "check", "lower", "flush", "record"}
        /\ phase' = phase \/ phase' = "refused"
        /\ UNCHANGED <<mapped, count, cell>>
    BY <1>3 DEF PassSignal, PassBail, Flush, WalkSignal, Ready, plate
  <2>2. PICK where : Fire(n, where)
    BY <1>3 DEF PassSignal, PassBail, Flush, WalkSignal
  <2> QED BY <2>1, <2>2, FireLog
<1>4. ASSUME NEW n \in Slots, Probe(n) \/ Poke(n) PROVE LogInv'
  <2>1. /\ todo = <<>> /\ (todo' = <<>> \/ todo' = <<<<"sticky", n>>>>)
        /\ phase \in {"settle", "emit"} /\ UNCHANGED <<phase, mapped, count, cell, fired>>
    BY <1>4 DEF Probe, Poke, Ready, plate, source
  <2> QED BY <2>1, QuietLog DEF Running
<1>5. CASE ParseDone \/ Settled \/ StartRecording \/ StartCheck \/ StartLower \/ LowerDone
  <2>1. /\ todo = <<>> /\ todo' = <<>> /\ phase \in Passes /\ phase' \in Passes
        /\ UNCHANGED <<mapped, count, cell, fired>>
    BY <1>5 DEF ParseDone, Settled, StartRecording, StartCheck, StartLower, LowerDone, Ready,
                GoTo, plate, source, Passes
  <2> QED BY <2>1, QuietLog DEF Running, Passes
<1>6. CASE Exit \/ \E b \in Blocks : Enter(b)
  <2>1. todo = <<>> /\ todo' = <<>> /\ phase = "record" /\ phase' = "record"
        /\ UNCHANGED <<mapped, count, cell, fired>>
    BY <1>6 DEF Exit, Enter, Ready, plate
  <2> QED BY <2>1, QuietLog DEF Running
<1>7. CASE Refuse \/ Succeed
  <2>1. /\ todo = <<>> /\ phase \in Passes \union {"refused"} /\ phase' = "over"
        /\ UNCHANGED <<mapped, count, cell, fired>>
        /\ todo' = <<>> \/ \E n : todo' = <<<<"sticky", n>>>>
    BY <1>7 DEF Refuse, Succeed, Conclude, GoTo, Ready, plate, source, Passes
  <2> QED BY <2>1, QuietLog DEF Running, Passes
<1>8. CASE StartRun
  <2>1. phase' = "reset_counts" /\ todo' = <<>>
    BY <1>8 DEF StartRun, EventInv
  <2> QED BY <2>1 DEF LogInv, CountOrder, Running
<1>9. CASE ResetCounts
  <2>1. /\ phase' = "reset_scopes" /\ todo' = <<>> /\ mapped' = mapped
        /\ mapped => count' = [n \in Slots |-> 0]
    BY <1>9 DEF ResetCounts, EventInv
  <2> QED BY <2>1 DEF LogInv, CountOrder, Running
<1>10. CASE ResetScopes
  BY <1>10, ResetLog
<1>11. CASE EndRun \/ Kill
  <2>1. phase' = "idle" /\ todo' = <<>>
    BY <1>11 DEF EndRun, Kill, Lose
  <2> QED BY <2>1 DEF LogInv, CountOrder, Running
<1>12. CASE UNCHANGED vars
  <2>1. UNCHANGED <<todo, fired, count, cell, mapped, phase>>
    BY <1>12 DEF vars, plate, source
  <2>2. Made("count")' = Made("count") /\ Made("cell")' = Made("cell")
    BY <2>1 DEF Made, Comes
  <2>3. (CountsTold => CountsTold') /\ (CellsTold => CellsTold')
    BY <2>1, <2>2 DEF CountsTold, CellsTold, Hits, CellHits
  <2>4. CountOrder'
    BY <2>1 DEF LogInv, CountOrder
  <2> QED BY <2>1, <2>3, <2>4 DEF LogInv, Running
<1> QED BY <1>1, <1>2, <1>3, <1>4, <1>5, <1>6, <1>7, <1>8, <1>9, <1>10, <1>11, <1>12 DEF Next

(* Whatever earlier runs left in the file and however they ended, between     *)
(* signals the plate says what this run fired: each counter and each cell the *)
(* number of its signals up to the cap, no cell for a folded block, and the   *)
(* ring the newest events in their order, each in the scope it was fired in.  *)
THEOREM PlateDecodesToLog == Spec => []DecodeIsLog
<1>1. Init => LogInv
  BY DEF Init, LogInv, CountOrder, Running
<1>2. TypeInv /\ EventInv /\ LogInv => DecodeIsLog
  <2> SUFFICES ASSUME TypeInv, EventInv, LogInv, Quiet PROVE DecodeIsLog
    BY DEF DecodeIsLog
  <2>1. Running /\ mapped /\ ~Comes("count") /\ ~Comes("cell") /\ ~Signalling
    BY DEF Quiet, Running, Comes, Signalling
  <2>2. Made("count") = Len(fired) /\ Made("cell") = Len(fired)
    BY <2>1 DEF Made
  <2>3. seq = Len(fired) /\ RingHolds(Len(fired))
    BY <2>1 DEF EventInv
  <2>4. DOMAIN fired = 1 .. Len(fired)
    BY DEF TypeInv, TypeOK
  <2>5. \A n : Fires(LAMBDA e : e[1] = n) = Cardinality(Hits(n, Len(fired)))
    BY <2>4 DEF Fires, Hits
  <2>6. \A n, s : Fires(LAMBDA e : e = <<n, s>>) = Cardinality(CellHits(n, s, Len(fired)))
    BY <2>4 DEF Fires, CellHits
  <2>7. CountsTold /\ CellsTold
    BY <2>1 DEF LogInv
  <2>8. \A k \in DOMAIN fired : k > seq - Capacity => ring[RingAt(k)] = fired[k]
    BY <2>3, <2>4 DEF RingHolds, RingAt, Place
  <2>9. \A n \in Slots : count[n] = Least(Many, Fires(LAMBDA e : e[1] = n))
    BY <2>2, <2>5, <2>7 DEF CountsTold
  <2>10. \A n \in Slots : \A s \in Scopes :
           cell[n][s] = IF s = NoScope THEN 0
                        ELSE Least(Many, Fires(LAMBDA e : e = <<n, s>>))
    BY <2>2, <2>6, <2>7 DEF CellsTold
  <2> QED BY <2>3, <2>8, <2>9, <2>10 DEF DecodeIsLog
<1> QED BY <1>1, <1>2, LogStep, DirHolds, PTL DEF Spec
=============================================================================
