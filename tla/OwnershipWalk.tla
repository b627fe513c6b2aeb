---------------------------- MODULE OwnershipWalk ----------------------------
(***************************************************************************)
(* The recording walk of the shape analyzer (src/shape/analyzer.rs): which  *)
(* table sites every name may alias, and which statements may therefore     *)
(* emit a free.  The heap site of a constructor is the position of the      *)
(* statement that holds it.                                                *)
(*                                                                         *)
(* Conditions, keys and values are not represented: a branch may go either  *)
(* way.  The element types of the tables are those of a program the checker *)
(* accepts, so the fixpoint walks that only move types are left out.        *)
(***************************************************************************)
EXTENDS OwnershipProgram

(* The alias of a name that may hold no table. *)
NullRoot == 0

VARIABLES
  scopes,       (* Analyzer.scopes: per open block, name -> alias set.      *)
  frames,       (* What the enclosing walk_stmt calls keep on their stack.  *)
  freeSites,    (* Drops that emit a free.                                  *)
  freedSites,   (* Sites a recorded drop composts.                          *)
  doExitFrees   (* Per do-exit, the sites it frees and a carrier for each.  *)

analysis == <<scopes, frames, freeSites, freedSites, doExitFrees>>

InitWalk ==
  /\ scopes = <<[x \in {} |-> {}]>>
  /\ frames = <<>>
  /\ freeSites = {}
  /\ freedSites = {}
  /\ doExitFrees = [e \in {} |-> {}]

Token == prog[pc]
At(op) == pc <= Len(prog) /\ Token.op = op

Bind(f, x, v) == [n \in DOMAIN f \cup {x} |-> IF n = x THEN v ELSE f[n]]

Opened(s) == Append(s, [x \in {} |-> {}])

(* resolve: the innermost scope that declares the name. *)
Depth(s, x) == CHOOSE d \in 1 .. Len(s) :
  x \in DOMAIN s[d] /\ \A e \in d + 1 .. Len(s) : x \notin DOMAIN s[e]

Aliases(x) == scopes[Depth(scopes, x)][x]

(* infer_expr of a right-hand side: a new site, the aliases of a name, nil. *)
Denotes(t) ==
  CASE t.e = "ctor" -> {pc}
    [] t.e = "name" -> Aliases(t.y)
    [] t.e = "nil"  -> {NullRoot}

(* Mutated form of Merge: the first of two paths wins. *)
MergeFirst(a, b) == [d \in DOMAIN a |-> [x \in DOMAIN a[d] |-> a[d][x]]]

(* merge_table_scopes joins name by name, for the names of the first. *)
Merge(a, b) ==
  [d \in DOMAIN a |-> [x \in DOMAIN a[d] |-> a[d][x] \cup b[d][x]]]

-----------------------------------------------------------------------------
Advance == pc' = pc + 1 /\ UNCHANGED <<source, phase>>
Reject == phase' = "rejected" /\ UNCHANGED <<source, pc>>

WalkLocal ==
  /\ At("local")
  /\ scopes' = [scopes EXCEPT ![Len(scopes)] = Bind(@, Token.x, Denotes(Token))]
  /\ Advance
  /\ UNCHANGED <<frames, freeSites, freedSites, doExitFrees>>

WalkAssign ==
  /\ At("assign") /\ Token.e # "nil"
  /\ scopes' = [scopes EXCEPT ![Depth(scopes, Token.x)][Token.x] = Denotes(Token)]
  /\ Advance
  /\ UNCHANGED <<frames, freeSites, freedSites, doExitFrees>>

(* Mutated form of SoleOwner: nil names count as owners. *)
SoleOwnerOfNil(x, roots) ==
  \A d \in DOMAIN scopes : \A n \in DOMAIN scopes[d] :
    (d = Depth(scopes, x) /\ n = x) \/ scopes[d][n] \cap (roots \cup {NullRoot}) = {}

(* No other binding in scope may hold any of the roots. *)
SoleOwner(x, roots) ==
  \A d \in DOMAIN scopes : \A n \in DOMAIN scopes[d] :
    (d = Depth(scopes, x) /\ n = x) \/ scopes[d][n] \cap roots = {}

(* drop_reference: `x = nil' records a free when x provably owns all it may *)
(* hold and none of it was freed before; x becomes nil in every case.       *)
WalkDrop ==
  LET x == Token.x
      roots == Aliases(x) \ {NullRoot}
      sole == roots # {} /\ SoleOwner(x, roots)
      stale == roots \cap freedSites # {}
  IN /\ At("assign") /\ Token.e = "nil"
     /\ freeSites' = IF sole /\ ~stale THEN freeSites \cup {pc} ELSE freeSites
     /\ freedSites' = IF sole /\ ~stale THEN freedSites \cup roots ELSE freedSites
     /\ scopes' = [scopes EXCEPT ![Depth(scopes, x)][x] = {NullRoot}]
     /\ Advance
     /\ UNCHANGED <<frames, doExitFrees>>

(* check_table_use: a read, store or `#' through a possibly-nil name. *)
WalkUse ==
  /\ At("use")
  /\ IF NullRoot \in Aliases(Token.x) THEN Reject ELSE Advance
  /\ UNCHANGED analysis

WalkIf ==
  /\ At("if")
  /\ frames' = Append(frames, [op |-> "if", start |-> pc, entry |-> scopes, other |-> scopes])
  /\ scopes' = Opened(scopes)
  /\ Advance
  /\ UNCHANGED <<freeSites, freedSites, doExitFrees>>

(* The else arm starts from the snapshot taken before the then arm. *)
WalkElse ==
  /\ At("else")
  /\ frames' = [frames EXCEPT ![Len(frames)].other = Front(scopes)]
  /\ scopes' = Opened(Last(frames).entry)
  /\ Advance
  /\ UNCHANGED <<freeSites, freedSites, doExitFrees>>

Closes(op) == At("end") /\ Last(frames).op = op

(* Mutated form of WalkEndIf: the scope of the arm stays open. *)
WalkEndIfOpen ==
  /\ Closes("if")
  /\ scopes' = scopes
  /\ frames' = Front(frames)
  /\ Advance
  /\ UNCHANGED <<freeSites, freedSites, doExitFrees>>

WalkEndIf ==
  /\ Closes("if")
  /\ scopes' = Merge(Last(frames).other, Front(scopes))
  /\ frames' = Front(frames)
  /\ Advance
  /\ UNCHANGED <<freeSites, freedSites, doExitFrees>>

(* `entry' keeps the scopes before the loop, `other' the loop head. *)
WalkWhile ==
  /\ At("while")
  /\ frames' = Append(frames, [op |-> "while", start |-> pc, entry |-> scopes, other |-> scopes])
  /\ scopes' = Opened(scopes)
  /\ Advance
  /\ UNCHANGED <<freeSites, freedSites, doExitFrees>>

(* The head of the next pass over the body; the walk leaves a loop whose     *)
(* head did not change, and walks the body again otherwise.                  *)
NextHead(entry, head, latch) == Merge(Merge(entry, head), latch)
(* Mutated form of Stable: compared with the scopes before the loop. *)
StableAtEntry(entry, head, next) == next = entry
Stable(entry, head, next) == next = head

WalkLatch ==
  LET f == Last(frames)
      next == NextHead(f.entry, f.other, Front(scopes))
  IN /\ Closes("while")
     /\ IF Stable(f.entry, f.other, next)
        THEN /\ scopes' = f.other
             /\ frames' = Front(frames)
             /\ Advance
        ELSE /\ scopes' = Opened(next)
             /\ frames' = [frames EXCEPT ![Len(frames)].other = next]
             /\ pc' = f.start + 1
             /\ UNCHANGED <<source, phase>>
     /\ UNCHANGED <<freeSites, freedSites, doExitFrees>>

WalkDo ==
  /\ At("do")
  /\ frames' = Append(frames, [op |-> "do", start |-> pc, entry |-> scopes, other |-> scopes])
  /\ scopes' = Opened(scopes)
  /\ Advance
  /\ UNCHANGED <<freeSites, freedSites, doExitFrees>>

(* decide_do_exit: the sites the dying names may hold, each with the first   *)
(* dying name that carries it.                                              *)
SitesHeld(bindings) == (UNION {bindings[n] : n \in DOMAIN bindings}) \ {NullRoot}
Carrier(bindings, s) ==
  CHOOSE n \in DOMAIN bindings :
    s \in bindings[n] /\ \A m \in DOMAIN bindings : s \in bindings[m] => n <= m
ExitFrees(bindings, sites) == {[site |-> s, carrier |-> Carrier(bindings, s)] : s \in sites}

(* Mutated form of Surviving: the aliases outside the block are not seen. *)
SurvivingNone(s) == {}
Surviving(s) == UNION {SitesHeld(s[d]) : d \in 1 .. Len(s) - 1}

WalkDoExit ==
  LET dying == Last(scopes)
      surviving == Surviving(scopes)
      held == SitesHeld(dying)
  IN /\ Closes("do")
     /\ \/ /\ held \cap surviving # {}
           /\ Reject
           /\ UNCHANGED analysis
        \/ /\ held \cap surviving = {}
           /\ doExitFrees' = Bind(doExitFrees, pc, ExitFrees(dying, held \ freedSites))
           /\ scopes' = Front(scopes)
           /\ frames' = Front(frames)
           /\ Advance
           /\ UNCHANGED <<freeSites, freedSites>>

(* The walk is over with an empty ledger: the lowerer may start. *)
WalkDone ==
  /\ pc = Len(prog) + 1
  /\ phase' = "lower"
  /\ pc' = 1
  /\ UNCHANGED <<source, analysis>>

Walk ==
  /\ phase = "walk"
  /\ \/ WalkLocal \/ WalkAssign \/ WalkDrop \/ WalkUse
     \/ WalkIf \/ WalkElse \/ WalkEndIf
     \/ WalkWhile \/ WalkLatch
     \/ WalkDo \/ WalkDoExit
     \/ WalkDone
=============================================================================
