----------------------------- MODULE OwnershipRun ----------------------------
(***************************************************************************)
(* The compiled program: the blocks of the lowerer executed one instruction *)
(* at a time on a heap of tables, every branch free to go either way.  The  *)
(* whole life of a program is walked, lowered and run.                      *)
(***************************************************************************)
EXTENDS OwnershipLower

CONSTANT MaxTaken  (* Branches that may take their true edge, in one run. *)

VARIABLES
  at,     (* The block being executed.                                     *)
  ip,     (* Its next instruction.                                         *)
  regs,   (* Register contents: Undefined, 0 for null, or a table.         *)
  heap,   (* Every table ever made: its site, and whether it was released. *)
  taken   (* Branches that took their true edge.                           *)

machine == <<at, ip, regs, heap, taken>>
vars == <<source, phase, pc, analysis, lowering, machine>>

(* A register whose definition was not executed on this path. *)
Undefined == -1

Init ==
  /\ InitProgram
  /\ InitWalk
  /\ InitLower
  /\ at = 1
  /\ ip = 1
  /\ regs = <<>>
  /\ heap = <<>>
  /\ taken = 0

Instr == blocks[at].code[ip]
HasInstr == phase = "run" /\ ip <= Len(blocks[at].code)
Exec(op) == HasInstr /\ Instr.op = op
Reg(r) == IF r \in DOMAIN regs THEN regs[r] ELSE Undefined

Step == ip' = ip + 1 /\ UNCHANGED <<phase, at, taken>>

ExecNew ==
  /\ Exec("new")
  /\ heap' = Append(heap, [site |-> Instr.arg, live |-> TRUE])
  /\ regs' = Bind(regs, Instr.reg, Len(heap) + 1)
  /\ Step

ExecNull ==
  /\ Exec("null")
  /\ regs' = Bind(regs, Instr.reg, 0)
  /\ Step
  /\ UNCHANGED heap

ExecMove ==
  /\ Exec("move")
  /\ regs' = Bind(regs, Instr.reg, Reg(Instr.arg))
  /\ Step
  /\ UNCHANGED heap

(* glm_tbl_free: nothing for a null handle, else the header is gone. *)
ExecFree ==
  LET h == Reg(Instr.arg)
  IN /\ Exec("free")
     /\ heap' = IF h \in DOMAIN heap THEN [heap EXCEPT ![h].live = FALSE] ELSE heap
     /\ Step
     /\ UNCHANGED regs

(* glm_tbl_get, glm_tbl_set or glm_tbl_len: the heap keeps its shape. *)
ExecUse ==
  /\ Exec("use")
  /\ Step
  /\ UNCHANGED <<regs, heap>>

(* The phis of a block read their registers at once, by the edge taken. *)
EnterFrom(to) ==
  LET phis == blocks[to].phis
      taking(r) == {x \in DOMAIN phis : phis[x].reg = r}
      incoming(x) == CHOOSE a \in ToSet(phis[x].args) : a[1] = at
  IN [r \in DOMAIN regs \cup {phis[x].reg : x \in DOMAIN phis} |->
        IF taking(r) = {} THEN regs[r]
        ELSE Reg(incoming(CHOOSE x \in taking(r) : TRUE)[2])]

Goto(to) ==
  /\ at' = to
  /\ ip' = 1
  /\ regs' = EnterFrom(to)
  /\ UNCHANGED <<phase, heap>>

AtExit == phase = "run" /\ ip > Len(blocks[at].code)

Jump ==
  /\ AtExit /\ Len(blocks[at].exit) = 1
  /\ Goto(blocks[at].exit[1])
  /\ UNCHANGED taken

Branch(edge) ==
  /\ AtExit /\ Len(blocks[at].exit) = 2
  /\ edge = 1 => taken < MaxTaken
  /\ Goto(blocks[at].exit[edge])
  /\ taken' = IF edge = 1 THEN taken + 1 ELSE taken

Halt ==
  /\ AtExit /\ blocks[at].exit = <<>>
  /\ phase' = "halted"
  /\ UNCHANGED machine

Run ==
  /\ \/ ExecNew \/ ExecNull \/ ExecMove \/ ExecFree \/ ExecUse
     \/ Jump \/ (\E edge \in {1, 2} : Branch(edge)) \/ Halt
  /\ UNCHANGED <<source, pc, analysis, lowering>>

Compile ==
  \/ Read /\ UNCHANGED <<analysis, lowering>>
  \/ Walk /\ UNCHANGED lowering
  \/ Lower

Next == (Compile /\ UNCHANGED machine) \/ Run

Spec == Init /\ [][Next]_vars
-----------------------------------------------------------------------------
(* Properties.                                                             *)

(* The variables hold values of their types; scopes, registers and frames    *)
(* stay in step with the blocks that are open.                              *)
TypeOK ==
  /\ phase \in {"read", "walk", "lower", "run", "halted", "rejected"}
  /\ room \in Nat /\ pc \in 1 .. Len(prog) + 1
  /\ phase = "walk" => Len(scopes) = Len(frames) + 1
  /\ phase = "lower" => Len(env) = Len(ctl) + 1 /\ depth \in 0 .. Len(ctl)
  /\ freeSites \subseteq DOMAIN prog
  /\ freedSites \subseteq DOMAIN prog
  /\ cur \in DOMAIN blocks /\ at \in DOMAIN blocks
  /\ DOMAIN regs \subseteq 1 .. nregs
  /\ \A r \in DOMAIN regs : regs[r] \in {Undefined, 0} \cup DOMAIN heap

(* A TableFree releases a table at most once, and reads a handle that the     *)
(* path taken has defined.                                                  *)
FreesAreSound ==
  Exec("free") =>
    LET h == Reg(Instr.arg) IN h # Undefined /\ (h # 0 => heap[h].live)

(* A table operation of an accepted program reaches a live table: the name   *)
(* is not nil and no free came before.                                      *)
UsesAreLive ==
  Exec("use") => LET h == Reg(Instr.arg) IN h \in DOMAIN heap /\ heap[h].live

(* Every handle read was defined on the path taken: the code is valid SSA.   *)
HandlesDefined ==
  HasInstr /\ Instr.op \in {"move", "free", "use"} => Reg(Instr.arg) # Undefined

(* When a program that neither branches nor stores over a held name ends,    *)
(* every table not released is still held by a name of its own block: nothing *)
(* a block or a drop let go was lost.  (The others the code lets leak: what    *)
(* one path freed no other path frees, and an overwritten table is not freed.) *)
LetGo == \A p \in DOMAIN prog :
  prog[p].op \notin {"if", "while"} /\ (prog[p].op = "assign" => prog[p].e = "nil")
Held == {ReadVar(env, x) : x \in DOMAIN env[1]}
NothingLost ==
  phase = "halted" /\ LetGo =>
    \A h \in DOMAIN heap : heap[h].live => \E r \in Held : Reg(r) = h

(* What a program has to be like for more of the above to hold of it, however  *)
(* long it is: no drop stands in the body of a loop, where the walk would take  *)
(* a later turn for the first; no do-exit frees, as all that dies there was     *)
(* dropped before.                                                          *)
DropsOutsideLoops == \A p, i \in DOMAIN prog :
  prog[p].op = "assign" /\ prog[p].e = "nil" /\ prog[i].op = "while" /\ i < p => EndOf(i) < p
ExitsFreeNothing == \A e \in DOMAIN doExitFrees : doExitFrees[e] = {}

(* The free about to be executed reads the register of a constructor, as a      *)
(* do-exit may that is not reached through that constructor.                  *)
BirthFree ==
  Exec("free") /\ \E b \in DOMAIN blocks : \E i \in DOMAIN blocks[b].code :
    blocks[b].code[i].op = "new" /\ blocks[b].code[i].reg = Instr.arg

(* The walk of a loop ends: each further pass over the body starts from a     *)
(* head that forgets nothing and knows more, and there are finitely many      *)
(* sites.                                                                    *)
PassAgain == phase = "walk" /\ phase' = "walk" /\ pc' <= pc
Covers(now, was) ==
  \A d \in DOMAIN was : \A x \in DOMAIN was[d] : was[d][x] \subseteq now[d][x]
HeadsGrow ==
  [][PassAgain =>
       LET was == Last(frames).other
           now == Last(frames').other
       IN now # was /\ Covers(now, was)]_vars
=============================================================================
