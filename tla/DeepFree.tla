------------------------------ MODULE DeepFree -------------------------------
(***************************************************************************)
(* Tables stored in tables: which constructors get the deep-free flag, and   *)
(* what glm_tbl_free (src/rt.rs) then releases.  A script is straight-line   *)
(* code over names of matrices and of rows; its "exit" ends the block that   *)
(* declares all but the Outer names.  The heap site of a constructor is its  *)
(* position in the script.  A row written inline, `{}', has no name.        *)
(***************************************************************************)
EXTENDS Integers, Sequences, FiniteSets, SequencesExt

CONSTANTS
  Matrices,       (* Names of tables whose elements are tables.             *)
  Rows,           (* Names of tables of integers.                           *)
  Outer,          (* The names the block does not declare.                  *)
  Stmts,          (* Statements in use: [op, x, k, y, entries].             *)
  MaxStmts,       (* Longest script.                                        *)
  Allowed(_, _)   (* Whether a statement may follow a script.               *)

Names == Matrices \cup Rows

ASSUME NamesAssumption ==
  /\ Matrices \cap Rows = {}
  /\ Outer \subseteq Names
  /\ MaxStmts \in Nat

(* What the parser and the checker let a statement be: a row holds no tables,  *)
(* a name holds tables of its own kind.                                      *)
ASSUME StmtsAssumption ==
  /\ "inline" \notin Names
  /\ \A s \in Stmts :
       \/ /\ s.op = "ctor" /\ s.entries \in Seq(Rows \cup {"inline"})
          /\ s.x \in Matrices \/ (s.x \in Rows /\ s.entries = <<>>)
       \/ s.op = "alias" /\ ({s.x, s.y} \subseteq Matrices \/ {s.x, s.y} \subseteq Rows)
       \/ s.op = "put" /\ s.x \in Matrices /\ s.y \in Rows /\ s.k \in Nat
       \/ s.op = "putnew" /\ s.x \in Matrices /\ s.k \in Nat
       \/ s.op = "read" /\ s.x \in Matrices
       \/ s.op = "drop" /\ s.x \in Names
       \/ s.op = "exit" /\ s.x \notin Names
  /\ \A s \in Stmts : s.op # "ctor" => s.entries = <<>>

VARIABLES
  script,  (* The program, as far as it was walked.                         *)
  facts,   (* What the recording walk of the analyzer found in it.          *)
  pc,      (* The statement that runs; 0 during the walk.                   *)
  env,     (* The table a name holds, 0 for null.                           *)
  birth,   (* The register of a constructor: the table it made.             *)
  heap,    (* Every table made: live, deep, cell.  Handles are positions.   *)
  count,   (* ALLOC_COUNT.                                                  *)
  todo     (* Handles glm_tbl_free was called with, innermost call first.   *)

program == <<env, birth, heap, count, todo>>
vars == <<script, facts, pc, program>>

NoFacts == [site |-> [x \in Names |-> 0], parents |-> {}, drops |-> {},
            freed |-> {}, exits |-> {}, left |-> FALSE]

Init ==
  /\ script = <<>>
  /\ facts = NoFacts
  /\ pc = 0
  /\ env = [x \in Names |-> 0]
  /\ birth = [p \in {} |-> 0]
  /\ heap = <<>>
  /\ count = 0
  /\ todo = <<>>
-----------------------------------------------------------------------------
(* The walk: f are the facts so far, s the statement walked, p its position.   *)
(* A cell holds no aliases: only names keep a site from a free.               *)

Holds(f, x) == f.site[x] # 0

(* Mutated form of SoleOwner: other names are not asked. *)
SoleOwnerUnasked(f, x) == Holds(f, x)

(* drop_reference: no other name may hold the site of x. *)
SoleOwner(f, x) == Holds(f, x) /\ \A y \in Names \ {x} : f.site[y] # f.site[x]
Frees(f, s) == s.op = "drop" /\ SoleOwner(f, s.x) /\ f.site[s.x] \notin f.freed

Held(f, names) == {f.site[x] : x \in names} \ {0}
Dying(f) == IF f.left THEN {} ELSE Names \ Outer

(* decide_do_exit: the sites of the dying names, but what a drop released. *)
ExitSites(f) == Held(f, Dying(f)) \ f.freed

(* Mutated form of Marked: a row stored by name marks its parent as well. *)
MarkedNamed(f, s) == IF s.op \in {"put", "putnew"} THEN {f.site[s.x]} ELSE {}

(* A row written inline and stored through a name marks the parent's site. *)
Marked(f, s) == IF s.op = "putnew" THEN {f.site[s.x]} ELSE {}

(* What the checker and the walk accept: names in scope and not nil where a  *)
(* table is used, no block-local table held by a name that survives.        *)
Legal(f, s) ==
  /\ f.left => s.x \in Outer
  /\ s.op \in {"alias", "put", "putnew", "drop", "read"} =>
       Holds(f, IF s.op = "alias" THEN s.y ELSE s.x)
  /\ s.op = "put" => Holds(f, s.y)
  /\ \A n \in DOMAIN s.entries : s.entries[n] \in Rows => Holds(f, s.entries[n])
  /\ s.op = "exit" => ~f.left /\ Held(f, Dying(f)) \cap Held(f, Outer) = {}

(* The site a name may hold after the statement that binds it. *)
Bound(f, s, p) ==
  CASE s.op = "ctor"  -> p
    [] s.op = "alias" -> f.site[s.y]
    [] s.op = "drop"  -> 0
    [] OTHER -> IF s.x \in Names THEN f.site[s.x] ELSE 0

Judged(f, s, p) ==
  [site    |-> [x \in Names |-> IF s.op = "exit" /\ x \in Dying(f) THEN 0
                                ELSE IF x = s.x THEN Bound(f, s, p) ELSE f.site[x]],
   parents |-> f.parents \cup Marked(f, s),
   drops   |-> f.drops \cup (IF Frees(f, s) THEN {p} ELSE {}),
   freed   |-> f.freed \cup (IF Frees(f, s) THEN {f.site[s.x]} ELSE {}),
   exits   |-> IF s.op = "exit" THEN ExitSites(f) ELSE f.exits,
   left    |-> f.left \/ s.op = "exit"]

Walk(s) ==
  /\ pc = 0 /\ Len(script) < MaxStmts
  /\ Legal(facts, s) /\ Allowed(script, s)
  /\ script' = Append(script, s)
  /\ facts' = Judged(facts, s, Len(script) + 1)
  /\ UNCHANGED <<pc, program>>

(* The file ends after the block; the compiled program starts. *)
Start ==
  /\ pc = 0 /\ facts.left
  /\ pc' = 1
  /\ UNCHANGED <<script, facts, program>>
-----------------------------------------------------------------------------
(* The compiled program.                                                   *)

(* A set of numbers as a sequence, each after the smaller ones. *)
Ascending(A) == [n \in 1 .. Cardinality(A) |-> CHOOSE a \in A : Cardinality({b \in A : b < a}) = n - 1]

S == script[pc]
At(op) == pc \in DOMAIN script /\ todo = <<>> /\ S.op = op
Step == pc' = pc + 1 /\ UNCHANGED <<script, facts>>

(* The header: whether it was released, its flag, and the cells that hold tables. *)
Table(live, deep, cell) == [live |-> live, deep |-> deep, cell |-> cell]

(* glm_tbl_set of a handle. *)
Stored(h, k, row) ==
  [heap EXCEPT ![h] = Table(@.live, @.deep,
     [c \in DOMAIN @.cell \cup {k} |-> IF c = k THEN row ELSE @.cell[c]])]

Fresh(deep, cell) == Table(TRUE, deep, cell)
NewRow == Fresh(FALSE, [c \in {} |-> 0])

(* Bit 7 of the flags: an entry is written inline, or some statement of the  *)
(* program stores an inline row in a table of this site.                    *)
DeepBit == S.x \in Matrices /\ (Contains(S.entries, "inline") \/ pc \in facts.parents)

(* The inline entries are made first, then the table, then its cells set. *)
Ctor ==
  LET Made(n) == Cardinality({m \in 1 .. n : S.entries[m] = "inline"})
      rows == Made(Len(S.entries))
      cell == [c \in 0 .. Len(S.entries) - 1 |->
                 LET e == S.entries[c + 1]
                 IN IF e = "inline" THEN Len(heap) + Made(c + 1) ELSE env[e]]
      made == Len(heap) + rows + 1
  IN /\ At("ctor")
     /\ heap' = heap \o [n \in 1 .. rows |-> NewRow] \o <<Fresh(DeepBit, cell)>>
     /\ count' = count + rows + 1
     /\ birth' = [p \in DOMAIN birth \cup {pc} |-> IF p = pc THEN made ELSE birth[p]]
     /\ env' = [env EXCEPT ![S.x] = made]
     /\ Step
     /\ UNCHANGED todo

Alias ==
  /\ At("alias")
  /\ env' = [env EXCEPT ![S.x] = env[S.y]]
  /\ Step
  /\ UNCHANGED <<birth, heap, count, todo>>

(* x[k] = y *)
Put ==
  /\ At("put")
  /\ heap' = Stored(env[S.x], S.k, env[S.y])
  /\ Step
  /\ UNCHANGED <<env, birth, count, todo>>

(* x[k] = {} *)
PutNew ==
  /\ At("putnew")
  /\ heap' = Append(Stored(env[S.x], S.k, Len(heap) + 1), NewRow)
  /\ count' = count + 1
  /\ Step
  /\ UNCHANGED <<env, birth, todo>>

(* #x[k] *)
ReadCell ==
  /\ At("read")
  /\ Step
  /\ UNCHANGED program

(* x = nil *)
Drop ==
  /\ At("drop")
  /\ todo' = IF pc \in facts.drops THEN <<env[S.x]>> ELSE <<>>
  /\ env' = [env EXCEPT ![S.x] = 0]
  /\ Step
  /\ UNCHANGED <<birth, heap, count>>

(* The frees of the exit, through birth registers in descending order. *)
Exit ==
  /\ At("exit")
  /\ todo' = Reverse(Ascending({birth[p] : p \in facts.exits}))
  /\ env' = [x \in Names |-> IF x \in Outer THEN env[x] ELSE 0]
  /\ Step
  /\ UNCHANGED <<birth, heap, count>>

(* Mutated form of Children: only the header and its buffer are released. *)
ChildrenNever(t) == <<>>

(* The children a table with the flag releases, in the order of its cells. *)
Children(t) ==
  LET keys == Ascending(IF t.deep THEN DOMAIN t.cell ELSE {})
  IN [n \in DOMAIN keys |-> t.cell[keys[n]]]

(* glm_tbl_free: the header goes, then the children one by one. *)
FreeTable ==
  /\ todo # <<>> /\ heap[Head(todo)].live
  /\ heap' = [heap EXCEPT ![Head(todo)] = Table(FALSE, @.deep, @.cell)]
  /\ count' = count - 1
  /\ todo' = Children(heap[Head(todo)]) \o Tail(todo)
  /\ UNCHANGED <<script, facts, pc, env, birth>>

Next ==
  \/ \E s \in Stmts : Walk(s)
  \/ Start
  \/ Ctor \/ Alias \/ Put \/ PutNew \/ ReadCell \/ Drop \/ Exit
  \/ FreeTable

Spec == Init /\ [][Next]_vars
-----------------------------------------------------------------------------
(* Properties.                                                             *)

(* No header is released twice, through whichever of its owners.            *)
FreedOnce == todo # <<>> => heap[Head(todo)].live

(* A table stored or read through a name is live; so is a row without a name *)
(* of its own, for as long as its matrix can be read.                       *)
Named == {birth[p] : p \in DOMAIN birth}
NamesAreLive ==
  \A op \in {"put", "putnew", "read"} : At(op) =>
    /\ heap[env[S.x]].live
    /\ \A k \in DOMAIN heap[env[S.x]].cell :
         LET row == heap[env[S.x]].cell[k] IN row \notin Named => heap[row].live

(* sys_alloc_count at the end of the program is the number of tables it can  *)
(* still reach: every other one was composted.                              *)
Direct == {env[x] : x \in Outer} \ {0}
Reachable == Direct \cup UNION {{heap[h].cell[k] : k \in DOMAIN heap[h].cell} : h \in Direct}
CountReachable ==
  pc > Len(script) /\ todo = <<>> => count = Cardinality({h \in Reachable : heap[h].live})

(* The programs whose tables have one kind of rows: all written inline, or all *)
(* stored by a name of their own.                                            *)
Inline(s) == s.op = "putnew" \/ Contains(s.entries, "inline")
ByName(s) == s.op = "put" \/ \E r \in Rows : Contains(s.entries, r)
Unmixed(all) ==
  ~((\E n \in DOMAIN all : Inline(all[n])) /\ (\E n \in DOMAIN all : ByName(all[n])))

(* No name is bound to a second table and no cell stored twice, so that nothing *)
(* is overwritten: an overwritten table is not released.                      *)
Binds(s) == s.op \in {"ctor", "alias"}
Stores(s) == s.op \in {"put", "putnew"}
StoredOnce(sofar, s) ==
  /\ Binds(s) => ~\E n \in DOMAIN sofar : sofar[n].x = s.x /\ Binds(sofar[n])
  /\ Stores(s) => ~\E n \in DOMAIN sofar :
       \/ Stores(sofar[n]) /\ sofar[n].k = s.k
       \/ s.k + 1 \in DOMAIN sofar[n].entries
=============================================================================
