--------------------------- MODULE OwnershipLower ----------------------------
(***************************************************************************)
(* The lowerer (src/lowerer.rs) restricted to the handles of tables: one    *)
(* register per binding, phis where branches join, and the TableFree        *)
(* instructions the facts of the walk ask for.  A block holds its phis, its *)
(* straight-line code and its exit, the list of the blocks it may go to.    *)
(***************************************************************************)
EXTENDS OwnershipWalk

VARIABLES
  blocks,   (* IrProgram.blocks.                                        *)
  cur,      (* current_block.                                           *)
  nregs,    (* Registers handed out (free_reg).                         *)
  env,      (* IrLowerer.scopes: per open block, name -> register.      *)
  siteReg,  (* site_regs: birth register and nesting depth of a site.   *)
  depth,    (* ctrl_depth: enclosing if arms and loop bodies.           *)
  ctl       (* What the enclosing lower_stmt calls keep on their stack. *)

lowering == <<blocks, cur, nregs, env, siteReg, depth, ctl>>

NewBlock == [phis |-> [x \in {} |-> 0], code |-> <<>>, exit |-> <<>>]

InitLower ==
  /\ blocks = <<NewBlock>>
  /\ cur = 1
  /\ nregs = 0
  /\ env = <<[x \in {} |-> 0]>>
  /\ siteReg = [s \in {} |-> [reg |-> 0, depth |-> 0]]
  /\ depth = 0
  /\ ctl = <<>>

New(r, s) == [op |-> "new", reg |-> r, arg |-> s]
Null(r) == [op |-> "null", reg |-> r, arg |-> 0]
Move(r, q) == [op |-> "move", reg |-> r, arg |-> q]
Free(q) == [op |-> "free", reg |-> 0, arg |-> q]
Use(q) == [op |-> "use", reg |-> 0, arg |-> q]

Emitted(instrs) == [blocks EXCEPT ![cur].code = @ \o instrs]
Ending(bs, to) == [bs EXCEPT ![cur].exit = to]
Joining(bs, b, phis) == [bs EXCEPT ![b].phis = phis]

ReadVar(s, x) == s[Depth(s, x)][x]
HasVar(s, x) == \E d \in DOMAIN s : x \in DOMAIN s[d]
UpdateVar(s, x, r) == [s EXCEPT ![Depth(s, x)][x] = r]

(* lower_expr of a right-hand side into a register of its own. *)
Load(t, r) ==
  CASE t.e = "ctor" -> New(r, pc)
    [] t.e = "name" -> Move(r, ReadVar(env, t.y))
    [] t.e = "nil"  -> Null(r)

Born(t, r) ==
  IF t.e = "ctor" THEN Bind(siteReg, pc, [reg |-> r, depth |-> depth]) ELSE siteReg

-----------------------------------------------------------------------------
LowerLocal ==
  LET r == nregs + 1
  IN /\ At("local")
     /\ blocks' = Emitted(<<Load(Token, r)>>)
     /\ siteReg' = Born(Token, r)
     /\ env' = [env EXCEPT ![Len(env)] = Bind(@, Token.x, r)]
     /\ nregs' = r
     /\ Advance
     /\ UNCHANGED <<cur, depth, ctl>>

LowerAssign ==
  LET r == nregs + 1
  IN /\ At("assign") /\ Token.e # "nil"
     /\ blocks' = Emitted(<<Load(Token, r)>>)
     /\ siteReg' = Born(Token, r)
     /\ env' = UpdateVar(env, Token.x, r)
     /\ nregs' = r
     /\ Advance
     /\ UNCHANGED <<cur, depth, ctl>>

(* `x = nil': the register x has now is freed if the walk says so. *)
LowerDrop ==
  LET r == nregs + 1
      free == IF pc \in freeSites THEN <<Free(ReadVar(env, Token.x))>> ELSE <<>>
  IN /\ At("assign") /\ Token.e = "nil"
     /\ blocks' = Emitted(free \o <<Null(r)>>)
     /\ env' = UpdateVar(env, Token.x, r)
     /\ nregs' = r
     /\ Advance
     /\ UNCHANGED <<cur, siteReg, depth, ctl>>

LowerUse ==
  /\ At("use")
  /\ blocks' = Emitted(<<Use(ReadVar(env, Token.x))>>)
  /\ Advance
  /\ UNCHANGED <<cur, nregs, env, siteReg, depth, ctl>>

(* The token that closes the block opened at i. *)
Nesting(i, j) == Cardinality({k \in i .. j : prog[k].op \in Openers})
               - Cardinality({k \in i .. j : prog[k].op = "end"})
EndOf(i) == CHOOSE j \in i .. Len(prog) :
  Nesting(i, j) = 0 /\ \A k \in i .. j - 1 : Nesting(i, k) # 0

(* find_mutated_vars: the names a body assigns, shadowed or not.            *)
Mutated(i) == {prog[k].x : k \in {k \in i .. EndOf(i) : prog[k].op = "assign"}}

(* Those that exist outside the body, each with the place of its phi among   *)
(* the phis: in the order of their registers, then of the names.            *)
PhiOrder(i) ==
  LET names == {x \in Mutated(i) : HasVar(env, x)}
      UpTo(x) == {y \in names :
                    \/ ReadVar(env, y) < ReadVar(env, x)
                    \/ ReadVar(env, y) = ReadVar(env, x) /\ y <= x}
  IN [x \in names |-> Cardinality(UpTo(x))]

Regs(s, order) == [x \in DOMAIN order |-> ReadVar(s, x)]

(* The bindings after every name got the phi register of its place. *)
Rebound(s, order, first) ==
  [d \in DOMAIN s |-> [x \in DOMAIN s[d] |->
     IF x \in DOMAIN order /\ d = Depth(s, x) THEN first + order[x] ELSE s[d][x]]]

LowerIf ==
  LET then == Len(blocks) + 1
      frame == [op |-> "if", entry |-> env, order |-> PhiOrder(pc), regs |-> <<>>,
                first |-> then, from |-> 0]
  IN /\ At("if")
     /\ blocks' = Ending(blocks, <<then, then + 1>>) \o <<NewBlock, NewBlock, NewBlock>>
     /\ ctl' = Append(ctl, frame)
     /\ cur' = then
     /\ env' = Opened(env)
     /\ depth' = depth + 1
     /\ Advance
     /\ UNCHANGED <<nregs, siteReg>>

(* The then arm ends: its registers are kept for the phis of the join. *)
LowerElse ==
  LET f == Last(ctl)
  IN /\ At("else")
     /\ blocks' = Ending(blocks, <<f.first + 2>>)
     /\ ctl' = [ctl EXCEPT ![Len(ctl)].regs = Regs(Front(env), f.order),
                           ![Len(ctl)].from = cur]
     /\ cur' = f.first + 1
     /\ env' = Opened(f.entry)
     /\ Advance
     /\ UNCHANGED <<nregs, siteReg, depth>>

Ends(op) == At("end") /\ Last(ctl).op = op

LowerEndIf ==
  LET f == Last(ctl)
      regs == Regs(Front(env), f.order)
      join == [x \in DOMAIN f.order |->
                 [reg |-> nregs + f.order[x], args |-> <<<<f.from, f.regs[x]>>, <<cur, regs[x]>>>>]]
  IN /\ Ends("if")
     /\ blocks' = Joining(Ending(blocks, <<f.first + 2>>), f.first + 2, join)
     /\ cur' = f.first + 2
     /\ env' = Rebound(Front(env), f.order, nregs)
     /\ nregs' = nregs + Cardinality(DOMAIN f.order)
     /\ depth' = depth - 1
     /\ ctl' = Front(ctl)
     /\ Advance
     /\ UNCHANGED siteReg

(* The header gets its phis with the pre-loop argument only. *)
LowerWhile ==
  LET header == Len(blocks) + 1
      order == PhiOrder(pc)
      phis == [x \in DOMAIN order |->
                 [reg |-> nregs + order[x], args |-> <<<<cur, ReadVar(env, x)>>>>]]
      frame == [op |-> "while", entry |-> env, order |-> order, regs |-> <<>>,
                first |-> header, from |-> nregs]
  IN /\ At("while")
     /\ blocks' = Ending(blocks, <<header>>) \o
                  <<[phis |-> phis, code |-> <<>>, exit |-> <<header + 1, header + 2>>],
                    NewBlock, NewBlock>>
     /\ cur' = header + 1
     /\ env' = Opened(Rebound(env, order, nregs))
     /\ nregs' = nregs + Cardinality(DOMAIN order)
     /\ depth' = depth + 1
     /\ ctl' = Append(ctl, frame)
     /\ Advance
     /\ UNCHANGED siteReg

(* The body ends: back edge, second phi arguments, phis as the bindings. *)
LowerLatch ==
  LET f == Last(ctl)
      phi(x) == blocks[f.first].phis[x]
      back == [x \in DOMAIN f.order |->
                 [reg |-> phi(x).reg, args |-> Append(phi(x).args, <<cur, ReadVar(Front(env), x)>>)]]
  IN /\ Ends("while")
     /\ blocks' = Joining(Ending(blocks, <<f.first>>), f.first, back)
     /\ cur' = f.first + 2
     /\ env' = Rebound(Front(env), f.order, f.from)
     /\ depth' = depth - 1
     /\ ctl' = Front(ctl)
     /\ Advance
     /\ UNCHANGED <<nregs, siteReg>>

LowerDo ==
  /\ At("do")
  /\ env' = Opened(env)
  /\ ctl' = Append(ctl, [op |-> "do", entry |-> env, order |-> [x \in {} |-> 0], regs |-> <<>>,
                         first |-> 0, from |-> 0])
  /\ Advance
  /\ UNCHANGED <<blocks, cur, nregs, siteReg, depth>>

(* alias_roots: moves and phis expand to what they copy, as far as the code  *)
(* emitted so far goes; registers that copy nothing are the roots.          *)
Copied(r) ==
  UNION {{blocks[b].code[i].arg :
            i \in {i \in DOMAIN blocks[b].code :
                     blocks[b].code[i].op = "move" /\ blocks[b].code[i].reg = r}} \cup
         UNION {{blocks[b].phis[k].args[j][2] : j \in DOMAIN blocks[b].phis[k].args} :
                  k \in {k \in DOMAIN blocks[b].phis : blocks[b].phis[k].reg = r}} :
           b \in DOMAIN blocks}
AliasRoots(r) ==
  LET within[n \in 0 .. nregs] ==
        IF n = 0 THEN {r} ELSE LET w == within[n - 1] IN w \cup UNION {Copied(q) : q \in w}
  IN {q \in within[nregs] : Copied(q) = {}}

(* A site born at the depth of the exit is freed through its birth register, *)
(* whatever the joins hold; any other, a site a later turn of the loop will   *)
(* lower included, through the register of its carrier, unless that may be a *)
(* table this exit frees already: in the order of the names, then the sites.  *)
ByBirthAnyDepth(f) == f.site \in DOMAIN siteReg (* Mutated form of ByBirth. *)
ByBirth(f) == f.site \in DOMAIN siteReg /\ siteReg[f.site].depth = depth
BirthRegs(frees) == {siteReg[f.site].reg : f \in {f \in frees : ByBirth(f)}}

Precedes(f, g) == f.carrier < g.carrier \/ (f.carrier = g.carrier /\ f.site < g.site)
CarrierRegs(frees) ==
  LET reg(f) == ReadVar(env, f.carrier)
      kept[f \in frees] ==
        /\ ~ByBirth(f)
        /\ AliasRoots(reg(f)) \cap
             (BirthRegs(frees) \cup
              UNION {AliasRoots(reg(g)) : g \in {g \in frees : Precedes(g, f) /\ kept[g]}}) = {}
  IN {reg(f) : f \in {f \in frees : kept[f]}}

(* The last made goes first. *)
ExitRegs(frees) ==
  LET regs == BirthRegs(frees) \cup CarrierRegs(frees)
  IN [n \in 1 .. Cardinality(regs) |-> CHOOSE r \in regs : Cardinality({q \in regs : q > r}) = n - 1]

LowerDoExit ==
  LET regs == ExitRegs(doExitFrees[pc])
  IN /\ Ends("do")
     /\ blocks' = Emitted([k \in DOMAIN regs |-> Free(regs[k])])
     /\ env' = Front(env)
     /\ ctl' = Front(ctl)
     /\ Advance
     /\ UNCHANGED <<cur, nregs, siteReg, depth>>

(* The last block keeps its empty exit: Halt. *)
LowerDone ==
  /\ pc = Len(prog) + 1
  /\ phase' = "run"
  /\ UNCHANGED <<source, pc, lowering>>

Lower ==
  /\ phase = "lower"
  /\ \/ LowerLocal \/ LowerAssign \/ LowerDrop \/ LowerUse
     \/ LowerIf \/ LowerElse \/ LowerEndIf
     \/ LowerWhile \/ LowerLatch
     \/ LowerDo \/ LowerDoExit
     \/ LowerDone
  /\ UNCHANGED analysis
=============================================================================
