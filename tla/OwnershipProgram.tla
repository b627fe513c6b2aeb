-------------------------- MODULE OwnershipProgram ---------------------------
(***************************************************************************)
(* The programs the compiler accepts, as far as the handles of tables go.   *)
(* A program is the sequence of its statements in source order, with tokens *)
(* that open and close its blocks, so a statement is known by its position. *)
(* Statements are what parse_stmt (src/parser.rs) returns; a program that    *)
(* declares a name twice in one block or names one no block declares never   *)
(* gets past the checker, and is not written.                              *)
(***************************************************************************)
EXTENDS Integers, Sequences, FiniteSets, SequencesExt

CONSTANTS
  Names,      (* Names of tables: numbers, for the order of the code's maps. *)
  Families    (* The programs to write, by family: which statement forms,    *)
              (* each how often, and the tokens of the longest program.       *)

ASSUME ProgramAssumption ==
  /\ Names \subseteq Nat
  /\ \A family \in Families :
       /\ DOMAIN family = {"budget", "longest"} /\ family.longest \in Nat
       /\ DOMAIN family.budget \subseteq
            {"new", "bare", "alias", "set", "copy", "drop", "use", "if", "while", "do"}
       /\ \A form \in DOMAIN family.budget : family.budget[form] \in Nat

VARIABLES
  prog,   (* The program: what was read of it so far.                      *)
  open,   (* The blocks open in it, each with the names it declares.       *)
  left,   (* What is left of the family's budget of each form,             *)
  room,   (* and of its tokens.                                            *)
  phase,  (* "read", "walk", "lower", "run", "halted"; "rejected" for good. *)
  pc      (* The token the current pass stands at.                         *)

source == <<prog, open, left, room>>

InitProgram ==
  /\ prog = <<>>
  /\ open = <<[op |-> "file", names |-> {}]>>
  /\ \E family \in Families : left = family.budget /\ room = family.longest
  /\ phase = "read"
  /\ pc = 1

(* op x = e: the right-hand side is a constructor, a name y, or nil. *)
Stmt(op, x, e, y) == [op |-> op, x |-> x, e |-> e, y |-> y]
Mark(op) == Stmt(op, 0, "nil", 0)

Inner == Last(open)
Visible == UNION {open[d].names : d \in DOMAIN open}

(* The statements of a form that may come next; a bare `local x' declares x over nil. *)
OfForm(form) ==
  LET fresh == Names \ Inner.names
  IN CASE form = "new"   -> {Stmt("local", x, "ctor", 0) : x \in fresh}
       [] form = "bare"  -> {Stmt("local", x, "nil", 0) : x \in fresh}
       [] form = "alias" -> {Stmt("local", x, "name", y) : x \in fresh, y \in Visible}
       [] form = "set"   -> {Stmt("assign", x, "ctor", 0) : x \in Visible}
       [] form = "copy"  -> {Stmt("assign", x, "name", y) : x \in Visible, y \in Visible}
       [] form = "drop"  -> {Stmt("assign", x, "nil", 0) : x \in Visible}
       [] form = "use"   -> {Stmt("use", x, "name", x) : x \in Visible}
       [] OTHER -> {}

(* The tokens it takes to close what is open. *)
Debt(blocks) ==
  Len(blocks) - 1 + Cardinality({d \in DOMAIN blocks : blocks[d].op = "if"})

Write(t, blocks) ==
  /\ phase = "read"
  /\ 1 + Debt(blocks) <= room
  /\ room' = room - 1
  /\ prog' = Append(prog, t)
  /\ open' = blocks
  /\ UNCHANGED <<phase, pc>>

Spend(form) ==
  /\ left[form] > 0
  /\ left' = [left EXCEPT ![form] = @ - 1]

ReadStmt(form) ==
  /\ Spend(form)
  /\ \E t \in OfForm(form) :
       Write(t, IF t.op = "local" THEN [open EXCEPT ![Len(open)].names = @ \cup {t.x}] ELSE open)

ReadOpening(op) ==
  /\ Spend(op)
  /\ Write(Mark(op), Append(open, [op |-> op, names |-> {}]))

(* An if without else has an empty else body, like any other. *)
ReadElse ==
  /\ Inner.op = "if"
  /\ Write(Mark("else"), Append(Front(open), [op |-> "else", names |-> {}]))
  /\ UNCHANGED left

ReadEnd ==
  /\ Inner.op \in {"else", "while", "do"}
  /\ Write(Mark("end"), Front(open))
  /\ UNCHANGED left

(* The file ends: the next pass starts at its first statement. *)
ReadFile ==
  /\ phase = "read"
  /\ Len(open) = 1
  /\ phase' = "walk"
  /\ UNCHANGED <<source, pc>>

Openers == {"if", "while", "do"}

Read ==
  \/ \E form \in DOMAIN left \ Openers : ReadStmt(form)
  \/ \E op \in DOMAIN left \cap Openers : ReadOpening(op)
  \/ ReadElse \/ ReadEnd \/ ReadFile
=============================================================================
