----------------------------- MODULE ElementTypes -----------------------------
(***************************************************************************)
(* What the shape analyzer (src/shape/analyzer.rs) makes of the types in a  *)
(* program: a join over everything stored per table site, computed by       *)
(* walking the program until a walk changes nothing, then once more to      *)
(* record. Programs are straight lines of statements over tables with one   *)
(* cell; a type is a table nesting over a base, since GLM's tables have one *)
(* element type.                                                            *)
(***************************************************************************)
EXTENDS Integers, Sequences, FiniteSets, SequencesExt, FiniteSetsExt, TLC

CONSTANTS
  Names,      (* Names of locals: 1 .. n, declared in this order.          *)
  Families    (* The programs to write, by family: which statement forms,   *)
              (* each how often, and the longest program.                   *)

ASSUME TypedAssumption ==
  /\ Names \subseteq Nat
  /\ \A family \in Families :
       /\ DOMAIN family = {"budget", "longest"} /\ family.longest \in Nat
       /\ DOMAIN family.budget \subseteq
            {"new", "empty", "nest", "bare", "alias", "pick", "set", "copy",
             "maybe", "maybe_set", "put", "put_name", "put_bare",
              "put_row", "put_cell", "deep"}

VARIABLES
  prog, left, room,   (* The program read so far, and what it may still use. *)
  phase, pc,          (* The pass, and the statement it stands at.           *)
  shape,              (* The analyzer: scope, elem, needed, child, changed.  *)
  prevEnd,            (* The scope the walk before ended with.               *)
  elems               (* ShapeFacts.elems, one static type per site.         *)

source == <<prog, left, room>>

-----------------------------------------------------------------------------
(* Types: Tbl(Tbl(.. base)), both the analyzer's Ty and the StaticType.      *)

Nested(n, base) == [depth |-> n, base |-> base, var |-> 0]
Of(base) == Nested(0, base)
Unknown(id) == [depth |-> 0, base |-> "unknown", var |-> id]
Tbl(t) == [t EXCEPT !.depth = @ + 1]
Elem(t) == [t EXCEPT !.depth = @ - 1]
IsTbl(t) == t.depth > 0

Pending == Of("pending")
Conflict == Of("conflict")
Scalars == {"int", "bool"}
scalar(t) == t.depth = 0 /\ t.base \in Scalars

Shallower(a, b) == IF a.depth <= b.depth THEN a.depth ELSE b.depth

(* join_ty: Pending gives way, different types conflict, and a conflict met  *)
(* under a table is a conflict of the whole type.                            *)
join_ty(a, b) ==
  LET met == CASE a.base = "pending" /\ a.depth <= b.depth -> b
               [] b.base = "pending" /\ b.depth <= a.depth -> a
               [] a = b -> a
               [] OTHER -> Conflict
  IN IF met = Nested(Shallower(a, b), "conflict") THEN Conflict ELSE met

-----------------------------------------------------------------------------
(* Programs. The site of a constructor is its statement's position, with the *)
(* place of the entry that holds it as a second digit.                       *)

Scalar(b) == [op |-> b]
Name(y) == [op |-> "name", y |-> y]
Cell(obj) == [op |-> "cell", obj |-> obj]
Ctor(s, items) == [op |-> "ctor", site |-> s, items |-> items]

NullRoot == 0
Here == Len(prog) + 1
Declared == {prog[k].x : k \in {j \in DOMAIN prog : prog[j].op \in {"local", "bare"}}}
(* A bare name is nil, and no value, until it is assigned. *)
Binds == {"local", "assign", "maybe"}
Bound == {prog[k].x : k \in {j \in DOMAIN prog : prog[j].op \in Binds}}
Fresh == {x \in Names \ Declared : \A y \in Names \ Declared : x <= y}

Flat(s) == {Ctor(s, <<>>)} \cup {Ctor(s, <<Scalar(b)>>) : b \in Scalars}
Nests(s) ==
  {Ctor(s, <<Scalar(b), Scalar(c)>>) : b \in Scalars, c \in Scalars}
    \cup {Ctor(s, <<c, d>>) : c \in Flat(s + 1), d \in Flat(s + 2)}
    \cup {Ctor(s, <<Name(y)>>) : y \in Bound}
    \cup {Ctor(s, <<Name(y), c>>) : y \in Bound, c \in Flat(s + 2)}

Local(x, e) == [op |-> "local", x |-> x, e |-> e]
BareLocal(x) == [op |-> "bare", x |-> x]
Assign(x, e) == [op |-> "assign", x |-> x, e |-> e]
(* `if <condition> then x = e end'. *)
Maybe(x, e) == [op |-> "maybe", x |-> x, e |-> e]
Store(obj, x, e) == [op |-> "store", obj |-> obj, x |-> x, e |-> e]

(* A name is stored only into a table of a name declared before it, and a     *)
(* name stored into is not bound to or from another: a table that may hold    *)
(* itself has no finite type, and the walks never settle.                     *)
Rebindings == {k \in DOMAIN prog : prog[k].op \in {"assign", "maybe"} /\ prog[k].e.op = "name"}
Copied == UNION {{prog[k].x, prog[k].e.y} : k \in Rebindings}
Bare == {prog[k].x : k \in {j \in DOMAIN prog : prog[j].op = "bare"}}
Contained == {k \in DOMAIN prog : prog[k].op = "store" /\ prog[k].e.op = "name" /\ prog[k].e.y \notin Bare}
Containers == {prog[k].x : k \in Contained}
ToCopy == {q \in (Declared \ Containers) \X (Bound \ Containers) : q[1] # q[2]}
ToContain == {q \in (Bound \ Copied) \X Bound : q[1] < q[2]}

OfForm(form) ==
  CASE form = "new"      -> {Local(x, e) : x \in Fresh, e \in Flat(10 * Here)}
    [] form = "empty"    -> {Local(x, Ctor(10 * Here, <<>>)) : x \in Fresh}
    [] form = "nest"     -> {Local(x, e) : x \in Fresh, e \in Nests(10 * Here)}
    [] form = "bare"     -> {BareLocal(x) : x \in Fresh}
    [] form = "alias"    -> {Local(x, Name(y)) : x \in Fresh, y \in Bound}
    [] form = "pick"     -> {Local(x, Cell(Name(y))) : x \in Fresh, y \in Bound}
    [] form = "set"      -> {Assign(x, e) : x \in Declared, e \in Flat(10 * Here)}
    [] form = "copy"     -> {Assign(q[1], Name(q[2])) : q \in ToCopy}
    [] form = "maybe"    -> {Maybe(q[1], Name(q[2])) : q \in ToCopy}
    [] form = "maybe_set" -> {Maybe(x, e) : x \in Declared, e \in Flat(10 * Here)}
    [] form = "put"      -> {Store(Name(x), x, Scalar(b)) : x \in Bound, b \in Scalars}
    [] form = "put_name" -> {Store(Name(p[1]), p[1], Name(p[2])) : p \in ToContain}
    [] form = "put_bare" -> {Store(Name(x), x, Name(y)) : x \in Bound, y \in Bare \ Bound}
    [] form = "put_row"  -> {Store(Name(x), x, e) : x \in Bound, e \in Flat(10 * Here)}
    [] form = "put_cell" -> {Store(Name(x), x, Cell(Name(y))) : x \in Bound, y \in Bound}
    [] form = "deep"     -> {Store(Cell(Name(x)), x, Scalar(b)) : x \in Bound, b \in Scalars}

RECURSIVE SitesIn(_)
SitesIn(e) ==
  IF e.op # "ctor" THEN {}
  ELSE {e.site} \cup UNION {SitesIn(e.items[k]) : k \in DOMAIN e.items}
Sites == UNION {SitesIn(prog[k].e) : k \in {j \in DOMAIN prog : prog[j].op # "bare"}}

NoShape ==
  [scope |-> <<>>, elem |-> <<>>, needed |-> {}, child |-> <<>>, changed |-> FALSE]

Init ==
  /\ prog = <<>>
  /\ \E family \in Families : left = family.budget /\ room = family.longest
  /\ phase = "read" /\ pc = 1
  /\ shape = NoShape /\ prevEnd = <<>> /\ elems = <<>>

ReadStmt(form) ==
  /\ phase = "read" /\ room > 0 /\ left[form] > 0
  /\ left' = [left EXCEPT ![form] = @ - 1]
  /\ room' = room - 1
  /\ \E t \in OfForm(form) : prog' = Append(prog, t)
  /\ UNCHANGED <<phase, pc, shape, prevEnd, elems>>

Nothing == [x \in {} |-> 0]

ReadFile ==
  /\ phase = "read" /\ prog # <<>>
  /\ phase' = "settle"
  /\ shape' = [scope |-> Nothing, elem |-> [s \in Sites |-> Pending], needed |-> {},
               child |-> [s \in Sites |-> {}], changed |-> FALSE]
  /\ UNCHANGED <<source, pc, prevEnd, elems>>

-----------------------------------------------------------------------------
(* The walk. Each operator takes the analyzer to what it is afterwards.      *)

Bind(f, x, v) == (x :> v) @@ f
Retyped(scope, names, ty) == [x \in names |-> [scope[x] EXCEPT !.ty = ty]] @@ scope

(* Mutated form of decide: a site that conflicts may be decided again. *)
decideAgain(a, site, vt) ==
  LET now == IF a.elem[site] = Conflict THEN vt ELSE join_ty(a.elem[site], vt)
      stale == {x \in DOMAIN a.scope : site \in a.scope[x].aliases /\ a.scope[x].ty # Tbl(now)}
  IN [a EXCEPT !.elem[site] = now,
               !.scope = Retyped(@, stale, Tbl(now)),
               !.changed = @ \/ now # a.elem[site] \/ stale # {}]

(* decide: join a type into a site, and give every name that may hold the    *)
(* site the type of a table of it.                                           *)
decide(a, site, vt) ==
  LET now == join_ty(a.elem[site], vt)
      stale == {x \in DOMAIN a.scope : site \in a.scope[x].aliases /\ a.scope[x].ty # Tbl(now)}
  IN IF a.elem[site] = Conflict THEN a
     ELSE [a EXCEPT !.elem[site] = now,
                    !.scope = Retyped(@, stale, Tbl(now)),
                    !.changed = @ \/ now # a.elem[site] \/ stale # {}]

DecideAll(a, sites, vt) ==
  FoldSet(LAMBDA s, acc : decide(acc, s, vt), a, sites \ {NullRoot})

JoinOver(a, sites) ==
  FoldSet(LAMBDA s, t : join_ty(t, a.elem[s]), Pending, sites \ {NullRoot})

Inferred(a, ty, aliases) == [a |-> a, ty |-> ty, aliases |-> aliases]

(* One entry of a constructor: a nested one is a child, an entry unlike the  *)
(* first makes the site conflict, and each is joined in.                     *)
Entry(a, site, item, first, ty) ==
  LET grown == IF item.op = "ctor"
               THEN [a EXCEPT !.child[site] = @ \cup {item.site}] ELSE a
      mixed == IF first # <<>> /\ first[1] # ty /\ grown.elem[site] # Conflict
               THEN [grown EXCEPT !.elem[site] = Conflict, !.changed = TRUE] ELSE grown
  IN decide(mixed, site, ty)

RECURSIVE infer_expr(_, _)
infer_expr(a, e) ==
  CASE e.op \in Scalars -> Inferred(a, Of(e.op), {})
    [] e.op = "name" -> Inferred(a, a.scope[e.y].ty, a.scope[e.y].aliases)
    [] e.op = "cell" ->
         LET o == infer_expr(a, e.obj)
         IN IF ~IsTbl(o.ty) THEN Inferred(o.a, Conflict, {})
            ELSE Inferred([o.a EXCEPT !.needed = @ \cup (o.aliases \ {NullRoot})],
                          JoinOver(o.a, o.aliases), {})
    [] e.op = "ctor" ->
         LET all == FoldLeft(LAMBDA acc, item :
                       LET v == infer_expr(acc.a, item)
                       IN [a |-> Entry(v.a, e.site, item, acc.first, v.ty),
                           first |-> IF acc.first = <<>> THEN <<v.ty>> ELSE acc.first],
                     [a |-> a, first |-> <<>>], e.items)
         IN Inferred(all.a,
                     Tbl(IF all.a.elem[e.site] # Pending \/ all.first = <<>>
                         THEN all.a.elem[e.site] ELSE all.first[1]),
                     {e.site})

Rebind(v, x) == [v.a EXCEPT !.scope = Bind(@, x, [ty |-> v.ty, aliases |-> v.aliases])]

walk_local(a, t) == Rebind(infer_expr(a, t.e), t.x)
walk_bare(a, t) == Rebind(Inferred(a, Pending, {NullRoot}), t.x)

(* An assigned table that is known to hold scalars decides the sites the     *)
(* name held before; then the name is bound anew.                            *)
walk_assign(a, t) ==
  LET v == infer_expr(a, t.e)
      incoming == JoinOver(v.a, v.aliases)
  IN Rebind(IF IsTbl(v.ty) /\ scalar(incoming)
            THEN [v EXCEPT !.a = DecideAll(v.a, v.a.scope[t.x].aliases, incoming)]
            ELSE v, t.x)

(* merge_table_scopes, after an if with no else: what both ways bind a name to. *)
Joined(was, arm) ==
  [ty |-> join_ty(join_ty(was.ty, arm.ty), was.ty), aliases |-> was.aliases \cup arm.aliases]
walk_if(a, t) ==
  LET arm == walk_assign(a, t)
  IN [arm EXCEPT !.scope = [x \in DOMAIN a.scope |-> Joined(a.scope[x], @[x])]]

Levels(obj) == IF obj.op = "name" THEN 0 ELSE 1

(* A store decides the sites of the name at the root of its object, with the *)
(* value's type wrapped once for each level between.                         *)
walk_store(a, t) ==
  LET o == infer_expr(a, t.obj)
      v == infer_expr(o.a, t.e)
      base == infer_expr(v.a, Name(t.x))
  IN IF IsTbl(o.ty) \/ o.ty = Pending
     THEN DecideAll(base.a, base.aliases, [v.ty EXCEPT !.depth = @ + Levels(t.obj)])
     ELSE base.a

walk_stmt(a, t) ==
  CASE t.op = "local" -> walk_local(a, t)
    [] t.op = "bare" -> walk_bare(a, t)
    [] t.op = "assign" -> walk_assign(a, t)
    [] t.op = "maybe" -> walk_if(a, t)
    [] t.op = "store" -> walk_store(a, t)

(* check_table_use, on the recording walk: the table a read or a store goes  *)
(* through may not be a nil name. A store's value is not looked into.        *)
Through(t) ==
  CASE t.op = "store" -> {t.x}
    [] t.op \in {"local", "assign"} /\ t.e.op = "cell" -> {t.e.obj.y}
    [] OTHER -> {}
MaybeNil(x) == NullRoot \in shape.scope[x].aliases

Walk(p) == phase = p /\ pc <= Len(prog)

WalkStmt ==
  /\ Walk("settle")
  /\ shape' = walk_stmt(shape, prog[pc])
  /\ pc' = pc + 1
  /\ UNCHANGED <<source, phase, prevEnd, elems>>

(* Mutated form of Stable: one walk is enough. *)
StableAtOnce == pc > Len(prog)
(* The walk ended as the one before and moved no type.                       *)
Stable == shape.scope = prevEnd /\ ~shape.changed

WalkAgain ==
  /\ phase = "settle" /\ pc = Len(prog) + 1
  /\ phase' = IF Stable THEN "record" ELSE "settle"
  /\ prevEnd' = shape.scope
  /\ shape' = [shape EXCEPT !.scope = Nothing, !.changed = FALSE]
  /\ pc' = 1
  /\ UNCHANGED <<source, elems>>

RecordStmt ==
  /\ Walk("record")
  /\ shape' = walk_stmt(shape, prog[pc])
  /\ IF \E x \in Through(prog[pc]) : MaybeNil(x)
     THEN phase' = "rejected" /\ UNCHANGED pc
     ELSE pc' = pc + 1 /\ UNCHANGED phase
  /\ UNCHANGED <<source, prevEnd, elems>>

-----------------------------------------------------------------------------
(* From Ty to StaticType, for each site.                                     *)

(* ty_to_static: what stayed Pending under a table is an Integer. *)
ty_to_static(t) == IF t.base = "pending" THEN [t EXCEPT !.base = "int"] ELSE t

(* elem_type_of_tbl: a matrix of constructors takes the type its children    *)
(* agree on, any other table its own.                                        *)
RECURSIVE elem_type_of_tbl(_)
elem_type_of_tbl(s) ==
  LET children == shape.child[s]
      types == {elem_type_of_tbl(c) : c \in children}
  IN CASE shape.elem[s] = Conflict -> Conflict
       [] shape.elem[s] # Conflict /\ children # {} ->
            IF Cardinality(types) = 1 /\ Conflict \notin types
            THEN Tbl(CHOOSE t \in types : TRUE) ELSE Conflict
       [] OTHER -> ty_to_static(shape.elem[s])

StaticElem(s) == IF shape.elem[s] = Pending THEN Unknown(s) ELSE elem_type_of_tbl(s)

MissingValue == \E s \in shape.needed : shape.elem[s] = Pending

(* Mutated form of Refused: a conflict is not reported. *)
RefusedMissing(facts) == MissingValue
Refused(facts) == MissingValue \/ \E s \in DOMAIN facts : facts[s].base = "conflict"

(* The facts are complete; the program goes on if the ledger is empty.       *)
RecordDone ==
  /\ phase = "record" /\ pc = Len(prog) + 1
  /\ elems' = [s \in Sites |-> StaticElem(s)]
  /\ phase' = IF Refused(elems') THEN "rejected" ELSE "check"
  /\ pc' = 1
  /\ UNCHANGED <<source, shape, prevEnd>>

Analyze == WalkStmt \/ WalkAgain \/ RecordStmt \/ RecordDone
=============================================================================
