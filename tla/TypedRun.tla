------------------------------- MODULE TypedRun -------------------------------
(***************************************************************************)
(* What the lowerer and the backend make of a checked program, and what it   *)
(* then does. Lowering gives every register a static type, the backend an    *)
(* LLVM type and every table a cell width; the program runs in the same      *)
(* step, since a straight line is lowered in the order it runs.              *)
(***************************************************************************)
EXTENDS TypeChecker

VARIABLES
  regs,     (* name -> [ty: the register's static type, val: what it holds]. *)
  heap,     (* The tables made: the type each was made for, and its cell.    *)
  access    (* The last cell access: the type its code is compiled for, the  *)
            (* type its table was made for, and the register's type.         *)

running == <<regs, heap, access>>
vars == <<source, phase, pc, shape, prevEnd, elems, checking, running>>

NoAccess == [used |-> Of("int"), made |-> Of("int"), reg |-> Of("int")]

(* llvm_type and elem_size of the backend. *)
llvm_type(t) ==
  CASE IsTbl(t) -> "ptr"
    [] ~IsTbl(t) /\ t.base = "int" -> "i64"
    [] ~IsTbl(t) /\ t.base = "bool" -> "i1"
    [] ~IsTbl(t) /\ t.base = "unknown" -> "i8"
elem_size(t) == IF ~IsTbl(t) /\ t.base \in {"bool", "unknown"} THEN 1 ELSE 8

(* Values: a scalar, null, a table; garbage is what a read through null left. *)
Plain == <<"scalar">>
Null == <<"null">>
Garbage == <<"garbage">>
Ref(id) == <<"table", id>>

Lowered(h, a, ty, val) == [heap |-> h, access |-> a, ty |-> ty, val |-> val]

(* TableSet: the register goes into a slot of the element type of the table's *)
(* register, from which glm_tbl_set copies a cell of the table's own width.  *)
(* A store through null does nothing.                                        *)
Set(h, a, table, value) ==
  IF table.val[1] # "table" THEN Lowered(h, a, value.ty, value.val)
  ELSE Lowered([h EXCEPT ![table.val[2]].cell = value.val],
               [used |-> Elem(table.ty), made |-> h[table.val[2]].elem, reg |-> value.ty],
               value.ty, value.val)

(* TableGet: the cell, zero or null before a store, typed by the register.   *)
Zero(t) == IF IsTbl(t) THEN Null ELSE Plain
Get(h, a, table) ==
  LET elem == Elem(table.ty)
  IN IF table.val[1] # "table" THEN Lowered(h, a, elem, Garbage)
     ELSE LET t == h[table.val[2]]
          IN Lowered(h, [used |-> elem, made |-> t.elem, reg |-> elem], elem,
                     IF t.cell = Null THEN Zero(elem) ELSE t.cell)

RECURSIVE lower_expr(_, _, _)
lower_expr(h, a, e) ==
  CASE e.op \in Scalars -> Lowered(h, a, Of(e.op), Plain)
    [] e.op = "name" -> Lowered(h, a, regs[e.y].ty, regs[e.y].val)
    [] e.op = "cell" -> LET o == lower_expr(h, a, e.obj) IN Get(o.heap, o.access, o)
    [] e.op = "ctor" ->
         LET entries ==
               FoldLeft(LAMBDA acc, item :
                   LET v == lower_expr(acc.heap, acc.access, item)
                   IN [heap |-> v.heap, access |-> v.access, vals |-> Append(acc.vals, v)],
                 [heap |-> h, access |-> a, vals |-> <<>>], e.items)
             id == Len(entries.heap) + 1
             table == Lowered(Append(entries.heap, [elem |-> elem_of(e.site), cell |-> Null]),
                              entries.access, Tbl(elem_of(e.site)), Ref(id))
         IN FoldLeft(LAMBDA acc, v :
                 LET s == Set(acc.heap, acc.access, table, v)
                 IN Lowered(s.heap, s.access, table.ty, table.val),
               table, entries.vals)

RunInit ==
  /\ Init /\ InitChecker
  /\ regs = Nothing /\ heap = <<>> /\ access = NoAccess

Run == phase = "run" /\ pc <= Len(prog)

(* A read through null leaves what the stack held: nothing is known after it. *)
Step(v) ==
  /\ heap' = v.heap
  /\ access' = v.access
  /\ IF v.val = Garbage THEN phase' = "halted" /\ UNCHANGED pc ELSE pc' = pc + 1 /\ UNCHANGED phase
  /\ UNCHANGED <<source, shape, prevEnd, elems, checking>>

RunBind ==
  LET v == lower_expr(heap, access, prog[pc].e)
  IN /\ Run /\ prog[pc].op \in {"local", "assign"}
     /\ regs' = Bind(regs, prog[pc].x, [ty |-> v.ty, val |-> v.val])
     /\ Step(v)

(* Mutated form of join_phi_ty: the name keeps the type it had before. *)
join_phi_tyBefore(a, b) == b
(* The phi after an if: a table type beats the other arm's. *)
join_phi_ty(a, b) == IF a = b \/ IsTbl(a) THEN a ELSE b

RunIf ==
  LET arm == lower_expr(heap, access, prog[pc].e)
      was == regs[prog[pc].x]
      ty == join_phi_ty(arm.ty, was.ty)
  IN /\ Run /\ prog[pc].op = "maybe"
     /\ \/ regs' = [regs EXCEPT ![prog[pc].x] = [ty |-> ty, val |-> arm.val]] /\ Step(arm)
        \/ regs' = [regs EXCEPT ![prog[pc].x].ty = ty] /\ Step(Lowered(heap, access, ty, was.val))

(* `local x' is a null register typed Integer. *)
RunBare ==
  /\ Run /\ prog[pc].op = "bare"
  /\ regs' = Bind(regs, prog[pc].x, [ty |-> Of("int"), val |-> Null])
  /\ Step(Lowered(heap, access, Of("int"), Null))

RunStore ==
  LET o == lower_expr(heap, access, prog[pc].obj)
      v == lower_expr(o.heap, o.access, prog[pc].e)
      s == Set(v.heap, v.access, o, v)
  IN /\ Run /\ prog[pc].op = "store"
     /\ Step(IF o.val = Garbage THEN o ELSE s)
     /\ UNCHANGED regs

RunDone ==
  /\ phase = "run" /\ pc = Len(prog) + 1
  /\ phase' = "halted"
  /\ UNCHANGED <<source, pc, shape, prevEnd, elems, checking, running>>

ReadStep == (\E form \in DOMAIN left : ReadStmt(form)) \/ ReadFile

Next ==
  \/ (ReadStep \/ Analyze) /\ UNCHANGED <<checking, running>>
  \/ CheckStep /\ UNCHANGED running
  \/ RunBind \/ RunIf \/ RunBare \/ RunStore \/ RunDone

Spec == RunInit /\ [][Next]_vars
(* The walks run without a pause: from each statement the position moves on.  *)
MoveOn == phase = "settle" /\ pc' = IF pc <= Len(prog) THEN pc + 1 ELSE 1
FairSpec == Spec /\ WF_pc(MoveOn)
-----------------------------------------------------------------------------
(* Properties.                                                             *)

StaticTypes == [depth : Nat, base : Scalars \cup {"unknown"}, var : Int]

TypeOK ==
  /\ phase \in {"read", "settle", "record", "check", "run", "halted", "rejected"}
  /\ phase \in {"check", "run"} => \A s \in DOMAIN elems : elems[s] \in StaticTypes
  /\ \A x \in DOMAIN types : types[x] \in StaticTypes
  /\ \A i \in DOMAIN substitutions : substitutions[i] \in StaticTypes
  /\ \A x \in DOMAIN regs : regs[x].ty \in StaticTypes
  /\ \A k \in DOMAIN heap : heap[k].elem \in StaticTypes

(* "the shape walk always completes": whatever the program stores where, the *)
(* outer fixpoint of the analyzer comes to a walk that moves nothing.        *)
WalkSettles == phase = "settle" ~> phase # "settle"

(* The recording walk finds what the fixpoint left: it moves no type, so the  *)
(* facts it hands over are those of every statement before it.               *)
RecordingIsStill == [][phase = "record" => shape'.elem = shape.elem]_vars

(* While a program is checked, following substitutions comes to an end: no   *)
(* Unknown is bound to a type it stands in.                                  *)
SubstitutionEnds ==
  phase = "check" => \A i \in DOMAIN substitutions :
    LET t == resolve_var(substitutions, substitutions[i])
    IN ~(t.base = "unknown" /\ t.var \in DOMAIN substitutions)

(* Every cell is read and written at the width and the type its table was    *)
(* made for, through whichever name, cell or copy the table is reached.      *)
CellsKeepType ==
  /\ elem_size(access.used) = elem_size(access.made)
  /\ llvm_type(access.used) = llvm_type(access.made)

(* A register that is stored has the type of the slot it is stored into: the *)
(* emitted code assembles.                                                   *)
StoresAssemble == llvm_type(access.reg) = llvm_type(access.used)
=============================================================================
