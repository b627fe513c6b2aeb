------------------------------ MODULE TracePlate ------------------------------
(* The signal plate of the compiler (src/trace.rs): a file that stays mapped  *)
(* while the compiler runs and is written by bare stores, so that whatever    *)
(* ends the compiler leaves the last store on disk. A run resets what counts  *)
(* this run and keeps what was ever seen; every signal makes its stores one   *)
(* after the other; the passes move the scope register as they go. A step of  *)
(* a signal is one byte or word stored, and the process may be killed between *)
(* any two of them. Mapping the file and each of the two memsets is one step. *)
EXTENDS Integers, Sequences, FiniteSets, SequencesExt

CONSTANTS
  Slots,        (* Signals that count: numbers, the order of a BTreeSet.      *)
  Many,         (* Where a counter saturates (255).                           *)
  NoScope,      (* The scope byte that means "no scope" (0xFF).               *)
  Capacity,     (* Events the ring holds (8192).                              *)
  MaxEvents,    (* Bound: signals fired in one run.                           *)
  MaxBlocks,    (* Bound: block scopes of the program.                        *)
  MaxRuns       (* Bound: runs of the compiler in this directory.             *)

ASSUME PlateAssumption ==
  /\ IsFiniteSet(Slots) /\ Slots \subseteq Nat \ {0, 1}
  /\ Many \in Nat \ {0} /\ NoScope \in Nat \ {0} /\ Capacity \in Nat \ {0}
  /\ MaxEvents \in Nat /\ MaxBlocks \in Nat /\ MaxRuns \in Nat

VARIABLES
  sticky, count, cell, dir, seq, ring,    (* the plate, durable               *)
  mapped, register, todo, conv,           (* the process, lost with it        *)
  scopeIds, scopeNext, scopeMap,          (* numbering of the recording walk  *)
  phase, runs,
  fired, inside, home, spoke              (* the source walked, and its events*)

plate == <<sticky, count, cell, dir, seq, ring>>
numbering == <<scopeIds, scopeNext, scopeMap>>
source == <<fired, inside, home, spoke>>
vars == <<plate, mapped, register, todo, conv, numbering, phase, runs, source>>

Scopes == 0 .. NoScope
Blocks == 1 .. MaxBlocks
COMPILED == 0
BUILD_FAIL == 1
Status == {COMPILED, BUILD_FAIL}
Passes == {"parse", "settle", "flush", "record", "check", "lower", "emit"}
Unset == <<0, 0>>                        (* a directory entry never written   *)
NoEvent == <<0, 0>>

Least(a, b) == IF a < b THEN a ELSE b
(* Mutated form of Bump: no saturation. *)
BumpUnchecked(n) == n + 1
Bump(n) == Least(n + 1, Many)                              (* saturating_add  *)

Register == [scope : Scopes, depth : Nat, parent : Scopes]
NoContext == [scope |-> NoScope, depth |-> 0, parent |-> 0]
Root == [scope |-> 0, depth |-> 0, parent |-> NoScope]

(* Mutated form of Signal: the counter before the boolean. *)
SignalCountedFirst(n) ==
  [k \in 1 .. 8 |->
     <<(<<"count", "sticky", "cell", "depth", "parent", "seq", "slot", "scope">>)[k], n>>]

(* The stores of one signal, in the order the code makes them: two bytes make *)
(* a directory entry, and two an event of the ring.                           *)
Signal(n) ==
  [k \in 1 .. 8 |->
     <<(<<"sticky", "count", "cell", "depth", "parent", "seq", "slot", "scope">>)[k], n>>]

Init ==
  /\ sticky = [n \in Slots \union Status |-> FALSE]
  /\ count = [n \in Slots |-> 0]
  /\ cell = [n \in Slots |-> [s \in Scopes |-> 0]]
  /\ dir = [s \in Scopes |-> Unset]
  /\ seq = 0
  /\ ring = [k \in 0 .. Capacity - 1 |-> NoEvent]
  /\ mapped = FALSE /\ register = NoContext /\ todo = <<>> /\ conv = {}
  /\ scopeIds = <<>> /\ scopeNext = 0 /\ scopeMap = [b \in Blocks |-> NoScope]
  /\ phase = "idle" /\ runs = 0
  /\ fired = <<>> /\ inside = <<>> /\ home = <<>> /\ spoke = FALSE

-----------------------------------------------------------------------------
(* The stores of a signal.                                                    *)

Store(kind) == /\ todo # <<>> /\ Head(todo)[1] = kind
               /\ todo' = Tail(todo)
               /\ UNCHANGED <<mapped, register, conv, numbering, phase, runs, source>>

StoreSticky ==
  /\ Store("sticky")
  /\ sticky' = [sticky EXCEPT ![Head(todo)[2]] = TRUE]
  /\ UNCHANGED <<count, cell, dir, seq, ring>>

StoreCount ==
  /\ Store("count")
  /\ count' = [count EXCEPT ![Head(todo)[2]] = Bump(@)]
  /\ UNCHANGED <<sticky, cell, dir, seq, ring>>

(* bump_scope_cell, its three stores: nothing happens without a scope, and    *)
(* the code leaves out the bytes of an entry that holds them already.         *)
StoreCell ==
  /\ Store("cell")
  /\ cell' = IF register.scope = NoScope THEN cell
             ELSE [cell EXCEPT ![Head(todo)[2]][register.scope] = Bump(@)]
  /\ UNCHANGED <<sticky, count, dir, seq, ring>>

StoreDepth ==
  /\ Store("depth")
  /\ dir' = IF register.scope = NoScope THEN dir
            ELSE [dir EXCEPT ![register.scope] = <<register.depth, @[2]>>]
  /\ UNCHANGED <<sticky, count, cell, seq, ring>>

StoreParent ==
  /\ Store("parent")
  /\ dir' = IF register.scope = NoScope THEN dir
            ELSE [dir EXCEPT ![register.scope] = <<@[1], register.parent>>]
  /\ UNCHANGED <<sticky, count, cell, seq, ring>>

StoreSeq ==
  /\ Store("seq")
  /\ seq' = seq + 1
  /\ UNCHANGED <<sticky, count, cell, dir, ring>>

(* Mutated form of Place: the event count before the fetch is off by one. *)
PlaceAfter(k) == k % Capacity
(* The ring's slot for the k-th event of the run: seq was k - 1 when fetched. *)
Place(k) == (k - 1) % Capacity

StoreSlot ==
  /\ Store("slot")
  /\ ring' = [ring EXCEPT ![Place(seq)] = <<Head(todo)[2], @[2]>>]
  /\ UNCHANGED <<sticky, count, cell, dir, seq>>

StoreScope ==
  /\ Store("scope")
  /\ ring' = [ring EXCEPT ![Place(seq)] = <<@[1], register.scope>>]
  /\ UNCHANGED <<sticky, count, cell, dir, seq>>

-----------------------------------------------------------------------------
(* A run of the compiler.                                                     *)

(* compiler_trace_init: the file is mapped and its event count zeroed, or     *)
(* tracing is degraded and no store of this run happens.                      *)
StartRun ==
  /\ phase = "idle" /\ runs < MaxRuns
  /\ runs' = runs + 1
  /\ phase' = "reset_counts"
  /\ mapped' \in BOOLEAN
  /\ seq' = IF mapped' THEN 0 ELSE seq
  /\ fired' = <<>> /\ inside' = <<>> /\ home' = <<>> /\ spoke' = FALSE
  /\ UNCHANGED <<sticky, count, cell, dir, ring, register, todo, conv, numbering>>

ResetCounts ==
  /\ phase = "reset_counts"
  /\ phase' = "reset_scopes"
  /\ count' = IF mapped THEN [n \in Slots |-> 0] ELSE count
  /\ UNCHANGED <<sticky, cell, dir, seq, ring, mapped, register, todo, conv,
                 numbering, runs, source>>

ResetScopes ==
  /\ phase = "reset_scopes"
  /\ phase' = "parse"
  /\ IF mapped THEN /\ cell' = [n \in Slots |-> [s \in Scopes |-> 0]]
                    /\ dir' = [s \in Scopes |-> Unset]
                    /\ register' = NoContext
     ELSE UNCHANGED <<cell, dir, register>>
  /\ UNCHANGED <<sticky, count, seq, ring, mapped, todo, conv, numbering, runs, source>>

Ready(p) == phase = p /\ todo = <<>>
GoTo(p) == phase' = p /\ UNCHANGED <<plate, mapped, runs>>

(* signal!(n) outside the analyzer's block scopes. `where` is the scope the   *)
(* event belongs to by what the source says, whatever the register holds.     *)
Fire(n, where) ==
  /\ Len(fired) < MaxEvents
  /\ IF mapped THEN /\ todo' = Signal(n)
                    /\ fired' = Append(fired, <<n, where>>)
     ELSE UNCHANGED <<todo, fired>>

(* Parser and checker signal without a scope, the lowerer from the root.      *)
PassSignal(n) ==
  /\ \/ Ready("parse") /\ Fire(n, NoScope)
     \/ Ready("check") /\ Fire(n, NoScope)
     \/ Ready("lower") /\ Fire(n, 0)
  /\ UNCHANGED <<plate, mapped, register, conv, numbering, phase, runs, inside, home, spoke>>

(* A bail of the parser or of the lowerer is tagged with the root scope: it   *)
(* is the file's root block that was given up (parser.rs:38-41). The table of *)
(* documentation.md:53 says otherwise of the parser's.                        *)
PassBail(n) ==
  /\ Ready("parse") \/ Ready("lower")
  /\ Fire(n, 0)
  /\ register' = Root
  /\ phase' = "refused"
  /\ UNCHANGED <<plate, mapped, conv, numbering, runs, inside, home, spoke>>

ParseDone ==
  /\ Ready("parse")
  /\ GoTo("settle")
  /\ UNCHANGED <<register, todo, conv, numbering, source>>

(* The outer fixpoint: signals are gated off, movements of types collect.     *)
Probe(n) ==
  /\ Ready("settle") /\ n \notin conv
  /\ Len(fired) + Cardinality(conv) < MaxEvents
  /\ conv' = conv \union {n}
  /\ UNCHANGED <<plate, mapped, register, todo, numbering, phase, runs, source>>

Settled ==
  /\ Ready("settle")
  /\ GoTo("flush")
  /\ UNCHANGED <<register, todo, conv, numbering, source>>

(* The convergence flush: one signal for each movement, in slot order.        *)
Flush(n) ==
  /\ Ready("flush") /\ n \in conv /\ \A m \in conv : n <= m
  /\ Fire(n, NoScope)
  /\ conv' = conv \ {n}
  /\ UNCHANGED <<plate, mapped, register, numbering, phase, runs, inside, home, spoke>>

StartRecording ==
  /\ Ready("flush") /\ conv = {}
  /\ scopeIds' = <<0>> /\ scopeNext' = 1 /\ scopeMap' = [b \in Blocks |-> NoScope]
  /\ register' = Root
  /\ GoTo("record")
  /\ UNCHANGED <<todo, conv, source>>

Here == IF inside = <<>> THEN 0 ELSE Last(inside)
(* The scope byte of a block: first-visit order, folded at the sentinel.      *)
ByteOf(b) == Least(b, NoScope)

WalkSignal(n) ==
  /\ Ready("record")
  /\ Fire(n, ByteOf(Here))
  /\ spoke' = TRUE
  /\ UNCHANGED <<plate, mapped, register, conv, numbering, phase, runs, inside, home>>

(* scope_id: the byte the block's key already has, or the next one.           *)
Visited == DOMAIN home
ScopeId(b) == IF b \in Visited THEN scopeMap[b] ELSE scopeNext
NextAfter(b) == IF b \in Visited THEN scopeNext ELSE Least(scopeNext + 1, NoScope)

(* Mutated form of EnteredContext: the parent read after the push. *)
EnteredContextOwn(b) ==
  [scope |-> ScopeId(b), depth |-> Len(scopeIds), parent |-> ScopeId(b)]
(* Mutated form of EnteredContext: the depth read after the push. *)
EnteredContextDeep(b) ==
  [scope |-> ScopeId(b), depth |-> Len(scopeIds) + 1, parent |-> Last(scopeIds)]
(* Mutated form of ReturnContext: the depth not reduced by the root. *)
ReturnContextDeep(ids) ==
  [scope  |-> Last(ids),
   depth  |-> Len(ids),
   parent |-> IF Len(ids) >= 2 THEN ids[Len(ids) - 1] ELSE NoScope]

(* What enter_scope and exit_scope put in the register, each from its own      *)
(* reading of the stack of ids.                                               *)
EnteredContext(b) ==
  [scope |-> ScopeId(b), depth |-> Len(scopeIds), parent |-> Last(scopeIds)]
ReturnContext(ids) ==
  [scope  |-> Last(ids),
   depth  |-> Len(ids) - 1,
   parent |-> IF Len(ids) >= 2 THEN ids[Len(ids) - 1] ELSE NoScope]

(* enter_scope. A statement has signalled in the enclosing scope before it    *)
(* opens its first block; a loop body is entered again, and the second arm of *)
(* a branch opened, right after a block was closed.                           *)
Enter(b) ==
  /\ Ready("record") /\ spoke
  /\ IF b \in Visited THEN home[b] = Here ELSE b = Cardinality(Visited) + 1
  /\ scopeMap' = [scopeMap EXCEPT ![b] = ScopeId(b)]
  /\ scopeNext' = NextAfter(b)
  /\ register' = EnteredContext(b)
  /\ scopeIds' = Append(scopeIds, ScopeId(b))
  /\ inside' = Append(inside, b)
  /\ home' = IF b \in Visited THEN home ELSE Append(home, Here)
  /\ spoke' = FALSE
  /\ UNCHANGED <<plate, mapped, todo, conv, phase, runs, fired>>

(* exit_scope: the register returns to what the stack of ids says.            *)
Exit ==
  /\ Ready("record") /\ inside # <<>>
  /\ scopeIds' = Front(scopeIds)
  /\ register' = ReturnContext(scopeIds')
  /\ inside' = Front(inside)
  /\ spoke' = TRUE
  /\ UNCHANGED <<plate, mapped, todo, conv, scopeNext, scopeMap, phase, runs, fired, home>>

(* Mutated form of CheckerContext: the analyzer's register is left as it is. *)
CheckerContextKept == register
CheckerContext == [scope |-> NoScope, depth |-> 0, parent |-> NoScope]

StartCheck ==
  /\ Ready("record") /\ inside = <<>>
  /\ register' = CheckerContext
  /\ GoTo("check")
  /\ UNCHANGED <<todo, conv, numbering, source>>

StartLower ==
  /\ Ready("check")
  /\ register' = Root
  /\ GoTo("lower")
  /\ UNCHANGED <<todo, conv, numbering, source>>

LowerDone ==
  /\ Ready("lower")
  /\ GoTo("emit")
  /\ UNCHANGED <<register, todo, conv, numbering, source>>

(* compiler_trace_set: a boolean alone, by the backend.                       *)
Poke(n) ==
  /\ Ready("emit") /\ mapped /\ ~sticky[n]
  /\ todo' = <<<<"sticky", n>>>>
  /\ UNCHANGED <<plate, mapped, register, conv, numbering, phase, runs, source>>

(* The end of a run: every gate, and the panic hook from anywhere, pokes      *)
(* BUILD_FAIL; the run that came through pokes COMPILED.                      *)
Conclude(status) ==
  /\ todo' = IF mapped THEN <<<<"sticky", status>>>> ELSE <<>>
  /\ GoTo("over")
  /\ UNCHANGED <<register, conv, numbering, source>>

Refuse == todo = <<>> /\ phase \in Passes \union {"refused"} /\ Conclude(BUILD_FAIL)
Succeed == Ready("emit") /\ Conclude(COMPILED)

Lose ==
  /\ phase' = "idle" /\ mapped' = FALSE /\ todo' = <<>>
  /\ register' = NoContext /\ conv' = {}
  /\ scopeIds' = <<>> /\ scopeNext' = 0 /\ scopeMap' = [b \in Blocks |-> NoScope]
  /\ inside' = <<>> /\ home' = <<>> /\ spoke' = FALSE
  /\ UNCHANGED <<plate, runs, fired>>

EndRun == Ready("over") /\ Lose
(* The process is killed: only what was stored remains.                       *)
Kill == phase \notin {"idle", "over"} /\ Lose

Next ==
  \/ StoreSticky \/ StoreCount \/ StoreCell \/ StoreDepth \/ StoreParent
  \/ StoreSeq \/ StoreSlot \/ StoreScope
  \/ StartRun \/ ResetCounts \/ ResetScopes
  \/ \E n \in Slots : PassSignal(n) \/ PassBail(n) \/ Probe(n) \/ Flush(n) \/ WalkSignal(n) \/ Poke(n)
  \/ ParseDone \/ Settled \/ StartRecording \/ StartCheck \/ StartLower \/ LowerDone
  \/ \E b \in Blocks : Enter(b)
  \/ Exit \/ Refuse \/ Succeed \/ EndRun \/ Kill

Spec == Init /\ [][Next]_vars

-----------------------------------------------------------------------------
(* What the plate promises to its readers (documentation.md and plate.py).    *)

TypeOK ==
  /\ sticky \in [Slots \union Status -> BOOLEAN]
  /\ count \in [Slots -> 0 .. Many]
  /\ cell \in [Slots -> [Scopes -> 0 .. Many]]
  /\ dir \in [Scopes -> Nat \X Scopes]
  /\ seq \in Nat
  /\ ring \in [0 .. Capacity - 1 -> (Slots \union {0}) \X Scopes]
  /\ mapped \in BOOLEAN /\ register \in Register /\ conv \subseteq Slots
  /\ todo \in Seq({"sticky", "count", "cell", "depth", "parent", "seq", "slot", "scope"}
                  \X (Slots \union Status))
  /\ scopeIds \in Seq(Scopes) /\ scopeNext \in Scopes /\ scopeMap \in [Blocks -> Scopes]
  /\ phase \in Passes \union {"idle", "reset_counts", "reset_scopes", "refused", "over"}
  /\ runs \in 0 .. MaxRuns
  /\ fired \in Seq(Slots \X Scopes)
  /\ inside \in Seq(Blocks) /\ home \in Seq(0 .. MaxBlocks) /\ spoke \in BOOLEAN

(* "counter > 0 => boolean == 1" at every instant, whichever stores a killed  *)
(* run made last and whatever the runs before it left behind.                 *)
CountersImplySticky == \A n \in Slots : count[n] > 0 => sticky[n]

(* No signal is half stored, in a run that has a map.                         *)
Quiet ==
  mapped /\ todo = <<>> /\ phase \notin {"idle", "reset_counts", "reset_scopes"}

(* Where plate.py looks for the k-th event.                                   *)
RingAt(k) == (k - 1) % Capacity

Fires(P(_)) == Cardinality({k \in DOMAIN fired : P(fired[k])})

(* Between signals the plate says what this run fired and where, and nothing  *)
(* of a run before it: the counters and the cells up to their cap, each event *)
(* in the scope of the block the walk was in, folded blocks in none, and the  *)
(* ring the newest events in the order they fired. A bail of the parser is in *)
(* the root scope here, as parser.rs:38-41 and documentation.md:61-63 have it;*)
(* documentation.md:36 and :53 have every signal of the parser in none, the   *)
(* bail included: there the code and the documentation disagree.              *)
DecodeIsLog ==
  Quiet =>
    /\ seq = Len(fired)
    /\ \A n \in Slots :
         /\ count[n] = Least(Many, Fires(LAMBDA e : e[1] = n))
         /\ \A s \in Scopes :
              cell[n][s] = IF s = NoScope THEN 0
                           ELSE Least(Many, Fires(LAMBDA e : e = <<n, s>>))
    /\ \A k \in DOMAIN fired :
         k > seq - Capacity => ring[RingAt(k)] = fired[k]

(* A run killed between any two stores, and any instant of a run: the event   *)
(* count is at most one behind, and all but the newest event can be read.     *)
KilledRunReadable ==
  fired # <<>> /\ phase \notin {"reset_counts", "reset_scopes"} =>
    /\ seq \in {Len(fired) - 1, Len(fired)}
    /\ \A k \in 1 .. seq - 1 :
         k > seq - Capacity => ring[RingAt(k)] = fired[k]

(* A scope that counts has an entry; a scope's parent has one too, one level  *)
(* up and numbered before it; the root has none.                              *)
TreeAt(s) ==
  /\ (\E n \in Slots : cell[n][s] > 0) => dir[s] # Unset
  /\ dir[s] # Unset =>
       IF s = 0 THEN dir[s] = <<0, NoScope>>
       ELSE LET up == dir[s][2] IN
            up < s /\ dir[up] # Unset /\ dir[s][1] = dir[up][1] + 1

(* Between signals the directory is a tree rooted in scope 0 that documents   *)
(* every cell that counts. plate.py reports a cell whose scope has no entry,  *)
(* and a scope that names an absent parent.                                   *)
ScopeTree == Quiet => \A s \in Scopes : TreeAt(s)

(* Whichever store a run is killed after, between the two bytes of an entry   *)
(* or between a cell and its entry, no other scope than the newest event's is *)
(* torn: of the rest the plate on disk tells what the run before it would     *)
(* have told between signals.                                                 *)
KilledTree ==
  fired # <<>> => \A s \in Scopes \ {Last(fired)[2]} : TreeAt(s)

(* The signal in progress has stored the depth of this scope's entry, and its *)
(* parent comes next.                                                         *)
HalfEntry(s) ==
  todo # <<>> /\ Head(todo)[1] = "parent" /\ register.scope = s

(* Within a run a scope keeps the entry it was first given, byte by byte: a   *)
(* block walked again, and a block the walk returns to, is the same scope. An *)
(* entry with something in it changes only by a reset, or where the signal    *)
(* that stored its depth fills in the parent.                                 *)
DirectoryStable ==
  [][\A s \in Scopes :
       dir[s] # Unset =>
         \/ dir'[s] \in {dir[s], Unset}
         \/ HalfEntry(s) /\ dir[s][2] = 0 /\ dir'[s][1] = dir[s][1]]_vars
=============================================================================
