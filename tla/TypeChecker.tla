------------------------------ MODULE TypeChecker ------------------------------
(***************************************************************************)
(* The type checker (src/type_checker.rs): one walk that gives every name a  *)
(* static type, starting from the element types of ElementTypes, and binds   *)
(* the types the analyzer left unknown when a use decides them.              *)
(***************************************************************************)
EXTENDS ElementTypes

VARIABLES
  types,          (* The checker's scope, name -> static type.              *)
  substitutions,  (* Unknown id -> the type it was bound to.                *)
  bareNext        (* The id of the next bare local, counting down.          *)

checking == <<types, substitutions, bareNext>>

InitChecker ==
  /\ types = Nothing /\ substitutions = Nothing /\ bareNext = -1

IsUnknown(t) == t.depth = 0 /\ t.base = "unknown"

(* One substitution, at whatever depth the Unknown stands. *)
Substitute(sub, t) ==
  IF t.base = "unknown" /\ t.var \in DOMAIN sub
  THEN [sub[t.var] EXCEPT !.depth = @ + t.depth] ELSE t

(* resolve_var follows substitutions to the end; a chain without a cycle is  *)
(* no longer than there are substitutions.                                   *)
RECURSIVE Follow(_, _, _)
Follow(sub, t, steps) ==
  IF steps = 0 THEN t ELSE Follow(sub, Substitute(sub, t), steps - 1)
resolve_var(sub, t) == Follow(sub, t, Cardinality(DOMAIN sub))

Checked(sub, ty, ok) == [sub |-> sub, ty |-> ty, ok |-> ok]

(* unify of types that share no table level: an Unknown is bound, the second *)
(* to the first if both are.                                                 *)
UnifyBase(sub, expected, actual) ==
  CASE expected = actual -> Checked(sub, actual, TRUE)
    [] expected # actual /\ IsUnknown(actual) ->
         Checked(Bind(sub, actual.var, expected), actual, TRUE)
    [] IsUnknown(expected) /\ ~IsUnknown(actual) ->
         Checked(Bind(sub, expected.var, actual), actual, TRUE)
    [] OTHER -> Checked(sub, actual, FALSE)

(* unify: tables are resolved and taken apart level by level.                *)
RECURSIVE unify(_, _, _)
unify(sub, expected, actual) ==
  IF expected # actual /\ IsTbl(expected) /\ IsTbl(actual)
  THEN unify(sub, resolve_var(sub, Elem(expected)), resolve_var(sub, Elem(actual)))
  ELSE UnifyBase(sub, expected, actual)

(* A value met where a cell of type `elem' is: the tables' inner types if    *)
(* both are tables.                                                          *)
UnifyCell(sub, elem, ty) ==
  IF IsTbl(elem) /\ IsTbl(ty) THEN unify(sub, Elem(elem), Elem(ty)) ELSE unify(sub, elem, ty)

var_type(sub, x) == resolve_var(sub, types[x])

RECURSIVE check_expr(_, _)
check_expr(sub, e) ==
  CASE e.op \in Scalars -> Checked(sub, Of(e.op), TRUE)
    [] e.op = "name" -> Checked(sub, var_type(sub, e.y), TRUE)
    [] e.op = "cell" ->
         LET o == check_expr(sub, e.obj)
         IN IF o.ok /\ IsTbl(o.ty) THEN Checked(o.sub, Elem(o.ty), TRUE)
            ELSE Checked(o.sub, o.ty, FALSE)
    [] e.op = "ctor" ->
         LET elem == elems[e.site]
             Item(acc, item) ==
               LET v == check_expr(acc.sub, item)
                   u == UnifyCell(v.sub, elem, v.ty)
               IN IF ~acc.ok \/ ~v.ok THEN Checked(acc.sub, elem, FALSE)
                  ELSE IF IsTbl(elem) /\ IsTbl(v.ty) THEN u
                  ELSE Checked(v.sub, elem, v.ty = elem)
             all == FoldLeft(Item, Checked(sub, elem, TRUE), e.items)
         IN Checked(all.sub, Tbl(elem), all.ok)

Check == phase = "check" /\ pc <= Len(prog)

(* A statement's outcome: on an error the rest of the block is skipped and   *)
(* the gate closes.                                                          *)
Outcome(ok) ==
  /\ IF ok THEN pc' = pc + 1 /\ UNCHANGED phase ELSE phase' = "rejected" /\ UNCHANGED pc
  /\ UNCHANGED <<source, shape, prevEnd, elems>>

CheckLocal ==
  LET t == prog[pc]
      v == check_expr(substitutions, t.e)
  IN /\ Check /\ t.op = "local"
     /\ types' = Bind(types, t.x, v.ty)
     /\ substitutions' = v.sub
     /\ Outcome(v.ok)
     /\ UNCHANGED bareNext

CheckBare ==
  /\ Check /\ prog[pc].op = "bare"
  /\ types' = Bind(types, prog[pc].x, Unknown(bareNext))
  /\ bareNext' = bareNext - 1
  /\ Outcome(TRUE)
  /\ UNCHANGED substitutions

IsEmptyCtor(e) == e.op = "ctor" /\ e.items = <<>>

(* The type a name has after an assignment that unified.                     *)
NewType(sub, expected, actual) == resolve_var(sub, actual)

CheckAssign ==
  LET t == prog[pc]
      expected == var_type(substitutions, t.x)
      v == check_expr(substitutions, t.e)
      u == unify(v.sub, expected, v.ty)
  IN /\ Check /\ t.op \in {"assign", "maybe"}
     /\ \/ /\ v.ok /\ expected = v.ty
           /\ substitutions' = v.sub
           /\ Outcome(TRUE)
           /\ UNCHANGED types
        \/ /\ v.ok /\ expected # v.ty
           /\ substitutions' = u.sub
           /\ types' = Bind(types, t.x, NewType(u.sub, expected, v.ty))
           /\ Outcome(u.ok /\ ~IsEmptyCtor(t.e))
        \/ /\ ~v.ok
           /\ Outcome(FALSE)
           /\ UNCHANGED <<types, substitutions>>
     /\ UNCHANGED bareNext

CheckStore ==
  LET t == prog[pc]
      o == check_expr(substitutions, t.obj)
      v == check_expr(o.sub, t.e)
      u == UnifyCell(v.sub, Elem(o.ty), v.ty)
  IN /\ Check /\ t.op = "store"
     /\ IF o.ok /\ IsTbl(o.ty) /\ v.ok
        THEN substitutions' = u.sub /\ Outcome(u.ok)
        ELSE Outcome(FALSE) /\ UNCHANGED substitutions
     /\ UNCHANGED <<types, bareNext>>

(* resolve_all_scopes hands the substitutions to the lowerer. *)
CheckDone ==
  /\ phase = "check" /\ pc = Len(prog) + 1
  /\ phase' = "run" /\ pc' = 1
  /\ types' = [x \in DOMAIN types |-> resolve_var(substitutions, types[x])]
  /\ UNCHANGED <<source, shape, prevEnd, elems, substitutions, bareNext>>

CheckStep == CheckLocal \/ CheckBare \/ CheckAssign \/ CheckStore \/ CheckDone

(* Mutated form of elem_of: the substitutions are not flushed to the facts. *)
elem_ofAnalyzed(s) == elems[s]
(* ShapeFacts::elem_of, for the lowerer: the site's type with one            *)
(* substitution made.                                                        *)
elem_of(s) == Substitute(substitutions, elems[s])
=============================================================================
