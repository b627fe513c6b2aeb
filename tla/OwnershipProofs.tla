--------------------------- MODULE OwnershipProofs ---------------------------
(***************************************************************************)
(* The recording walk of the analyzer ends: whatever the program, every      *)
(* further pass over the body of a loop starts from a head that keeps every  *)
(* alias of the one before and has one more.                                *)
(***************************************************************************)
EXTENDS OwnershipRun, TLAPS

(* A prefix of a sequence, and the sequence without its last element.        *)
LEMMA PrefixElements ==
  ASSUME NEW S, NEW s \in Seq(S), NEW n \in Nat, n <= Len(s)
  PROVE  /\ SubSeq(s, 1, n) \in Seq(S)
         /\ Len(SubSeq(s, 1, n)) = n
         /\ \A k \in 1 .. n : SubSeq(s, 1, n)[k] = s[k]
OBVIOUS

LEMMA FrontElements ==
  ASSUME NEW S, NEW s \in Seq(S), s # <<>>
  PROVE  /\ Front(s) \in Seq(S)
         /\ Len(s) \in Nat \ {0}
         /\ Len(Front(s)) = Len(s) - 1
         /\ \A k \in 1 .. Len(s) - 1 : Front(s)[k] = s[k]
<1>1. Len(s) \in Nat /\ Len(s) >= 1
  OBVIOUS
<1>2. Len(s) - 1 \in Nat /\ Len(s) - 1 <= Len(s)
  BY <1>1
<1>3. /\ SubSeq(s, 1, Len(s) - 1) \in Seq(S)
      /\ Len(SubSeq(s, 1, Len(s) - 1)) = Len(s) - 1
      /\ \A k \in 1 .. Len(s) - 1 : SubSeq(s, 1, Len(s) - 1)[k] = s[k]
  BY <1>2, PrefixElements
<1> QED BY <1>1, <1>3 DEF Front

-----------------------------------------------------------------------------
(* The blocks of a program.                                                *)

Plain == {"local", "assign", "use"}

(* From the openers of the blocks open before token p to those open after it. *)
Goes(P, p, before, after) ==
  \/ /\ P[p].op \in Openers
     /\ after = Append(before, p)
  \/ /\ P[p].op = "else"
     /\ before # <<>> /\ P[Last(before)].op = "if"
     /\ after = before
  \/ /\ P[p].op = "end"
     /\ before # <<>>
     /\ after = Front(before)
  \/ /\ P[p].op \in Plain
     /\ after = before

(* An opener stands before what it encloses, in the blocks that are open when  *)
(* it opens its own.                                                        *)
Enclosing(P, nest, p) ==
  \A k \in 1 .. Len(nest[p]) :
    LET q == nest[p][k]
    IN /\ q \in 1 .. p
       /\ P[q].op \in Openers
       /\ Len(nest[q - 1]) = k - 1
       /\ \A n \in 1 .. k - 1 : nest[q - 1][n] = nest[p][n]

(* nest[p]: the openers of the blocks open after p tokens.                   *)
Nested(P, nest) ==
  /\ nest \in [0 .. Len(P) -> Seq(Nat)]
  /\ nest[0] = <<>>
  /\ \A p \in 1 .. Len(P) : Goes(P, p, nest[p - 1], nest[p])
  /\ \A p \in 0 .. Len(P) : Enclosing(P, nest, p)

Blocks == [op : {"file", "if", "else", "while", "do"}, names : SUBSET Names]

(* The blocks bs as the reader keeps them, and their openers.                *)
Agree(P, openers, bs) ==
  /\ bs \in Seq(Blocks)
  /\ Len(bs) = Len(openers) + 1
  /\ bs[1].op = "file"
  /\ \A k \in 1 .. Len(openers) :
       \/ bs[k + 1].op = P[openers[k]].op
       \/ bs[k + 1].op = "else" /\ P[openers[k]].op = "if"

(* The reader knows the blocks it is in.                                     *)
Reading(nest) ==
  /\ pc = 1 /\ frames = <<>>
  /\ Agree(prog, nest[Len(prog)], open)

SameNames(a, b) ==
  DOMAIN a = DOMAIN b /\ \A d \in DOMAIN a : DOMAIN a[d] = DOMAIN b[d]

IsFrame(f) == f = [op |-> f.op, start |-> f.start, entry |-> f.entry, other |-> f.other]

(* The walk is where its frames say, and the head of a loop binds the names    *)
(* that were bound before the loop.                                         *)
Walking(nest) ==
  /\ pc \in 1 .. Len(prog) + 1
  /\ \E F : frames \in Seq(F)
  /\ Len(frames) = Len(nest[pc - 1])
  /\ \A k \in 1 .. Len(frames) :
       /\ IsFrame(frames[k])
       /\ frames[k].start = nest[pc - 1][k]
       /\ frames[k].op = prog[nest[pc - 1][k]].op
       /\ frames[k].op = "while" => SameNames(frames[k].entry, frames[k].other)

InBlocks(nest) ==
  /\ \E T : prog \in Seq(T)
  /\ Nested(prog, nest)
  /\ phase = "read" => Reading(nest)
  /\ phase = "walk" => Walking(nest)

BlockInv == \E nest : InBlocks(nest)

(* One token more, and one way to nest it.                                   *)
LEMMA ProgramGrows ==
  ASSUME NEW T, NEW P \in Seq(T), NEW t, NEW nest, Nested(P, nest), NEW n, n = Len(P),
         NEW after, Goes(Append(P, t), n + 1, nest[n], after)
  PROVE  /\ \E T2 : Append(P, t) \in Seq(T2)
         /\ Len(Append(P, t)) = n + 1
         /\ \E nest2 : Nested(Append(P, t), nest2) /\ nest2[n + 1] = after
<1> DEFINE Q == Append(P, t)
           nest2 == [p \in 0 .. n + 1 |-> IF p = n + 1 THEN after ELSE nest[p]]
<1>1. /\ Q \in Seq(T \cup {t}) /\ Len(Q) = n + 1 /\ n \in Nat
      /\ \A p \in 1 .. n : Q[p] = P[p]
      /\ Q[n + 1] = t
  OBVIOUS
<1>2. nest \in [0 .. n -> Seq(Nat)] /\ nest[0] = <<>> /\ nest[n] \in Seq(Nat)
  BY <1>1 DEF Nested
<1>3. /\ nest2[n + 1] = after /\ nest2[0] = <<>>
      /\ \A p \in 0 .. n : nest2[p] = nest[p]
  BY <1>1, <1>2
<1>a. Goes(Q, n + 1, nest[n], after)
  OBVIOUS
<1>b. nest2 \in [0 .. n + 1 -> Seq(Nat) \cup {after}]
  BY <1>1, <1>2
<1> HIDE DEF nest2, Q
<1>4. \A p \in 0 .. n : Enclosing(Q, nest2, p)
  <2> SUFFICES ASSUME NEW p \in 0 .. n, NEW k \in 1 .. Len(nest2[p])
               PROVE  LET q == nest2[p][k]
                      IN /\ q \in 1 .. p
                         /\ Q[q].op \in Openers
                         /\ Len(nest2[q - 1]) = k - 1
                         /\ \A m \in 1 .. k - 1 : nest2[q - 1][m] = nest2[p][m]
    BY DEF Enclosing
  <2> DEFINE q == nest[p][k]
  <2>1. nest2[p] = nest[p] /\ k \in 1 .. Len(nest[p])
    BY <1>3
  <2>2. /\ q \in 1 .. p
        /\ P[q].op \in Openers
        /\ Len(nest[q - 1]) = k - 1
        /\ \A m \in 1 .. k - 1 : nest[q - 1][m] = nest[p][m]
    BY <2>1 DEF Nested, Enclosing
  <2>3. q - 1 \in 0 .. n /\ q \in 1 .. n
    BY <2>2, <1>1
  <2>4. nest2[q - 1] = nest[q - 1] /\ Q[q] = P[q]
    BY <2>3, <1>3, <1>1
  <2> QED BY <2>1, <2>2, <2>4
<1>5. after \in Seq(Nat) /\ Enclosing(Q, nest2, n + 1)
  <2>1. \A k \in 1 .. Len(nest[n]) :
          LET q == nest[n][k]
          IN /\ q \in 1 .. n
             /\ Q[q].op \in Openers
             /\ Len(nest2[q - 1]) = k - 1
             /\ \A m \in 1 .. k - 1 : nest2[q - 1][m] = nest[n][m]
    <3>1. n \in 0 .. n /\ nest2[n] = nest[n]
      BY <1>3, <1>1
    <3>2. Enclosing(Q, nest2, n)
      BY <1>4, <3>1
    <3> QED BY ONLY <3>1, <3>2 DEF Enclosing
  <2>2. CASE t.op \in Openers /\ after = Append(nest[n], n + 1)
    <3>1. /\ after \in Seq(Nat) /\ Len(after) = Len(nest[n]) + 1
          /\ Len(nest[n]) \in Nat
          /\ \A k \in 1 .. Len(nest[n]) : after[k] = nest[n][k]
          /\ after[Len(nest[n]) + 1] = n + 1
      BY <1>1, <1>2, <2>2
    <3> SUFFICES ASSUME NEW k \in 1 .. Len(after)
                 PROVE  LET q == after[k]
                        IN /\ q \in 1 .. n + 1
                           /\ Q[q].op \in Openers
                           /\ Len(nest2[q - 1]) = k - 1
                           /\ \A m \in 1 .. k - 1 : nest2[q - 1][m] = after[m]
      BY <1>3, <3>1 DEF Enclosing
    <3>2. CASE k = Len(nest[n]) + 1
      BY <3>1, <3>2, <2>2, <1>1, <1>3
    <3>3. CASE k \in 1 .. Len(nest[n])
      <4>1. after[k] = nest[n][k] /\ \A m \in 1 .. k - 1 : after[m] = nest[n][m]
        <5>1. 1 .. k - 1 \subseteq 1 .. Len(nest[n])
          <6>1. Len(nest[n]) \in Nat /\ k \in 1 .. Len(nest[n])
            BY <3>1, <3>3
          <6> QED BY <6>1
        <5>2. \A m \in 1 .. Len(nest[n]) : after[m] = nest[n][m]
          BY <3>1
        <5>3. after[k] = nest[n][k]
          BY <3>3, <5>2
        <5>4. \A m \in 1 .. k - 1 : after[m] = nest[n][m]
          BY <5>1, <5>2
        <5> QED BY <5>3, <5>4
      <4>2. nest[n][k] \in 1 .. n + 1
        BY <2>1, <3>3, <1>1
      <4> QED BY <4>1, <4>2, <2>1, <3>3
    <3> QED BY <3>1, <3>2, <3>3
  <2>3. CASE after = nest[n]
    BY <2>3, <2>1, <1>1, <1>2, <1>3 DEF Enclosing
  <2>4. CASE nest[n] # <<>> /\ after = Front(nest[n])
    <3>1. /\ after \in Seq(Nat) /\ Len(after) = Len(nest[n]) - 1 /\ Len(nest[n]) \in Nat
          /\ \A k \in 1 .. Len(nest[n]) - 1 : after[k] = nest[n][k]
      BY <1>2, <2>4, FrontElements
    <3> SUFFICES ASSUME NEW k \in 1 .. Len(after)
                 PROVE  LET q == after[k]
                        IN /\ q \in 1 .. n + 1
                           /\ Q[q].op \in Openers
                           /\ Len(nest2[q - 1]) = k - 1
                           /\ \A m \in 1 .. k - 1 : nest2[q - 1][m] = after[m]
      BY <1>3, <3>1 DEF Enclosing
    <3>2. k \in 1 .. Len(nest[n])
      BY <3>1
    <3>3. after[k] = nest[n][k] /\ \A m \in 1 .. k - 1 : after[m] = nest[n][m]
      BY <3>1
    <3>4. nest[n][k] \in 1 .. n + 1
      BY <2>1, <3>2, <1>1
    <3> QED BY <3>2, <3>3, <3>4, <2>1
  <2> QED BY <2>2, <2>3, <2>4, <1>1, <1>a DEF Goes
<1>6. \A p \in 1 .. n + 1 : Goes(Q, p, nest2[p - 1], nest2[p])
  <2>1. ASSUME NEW p \in 1 .. n
        PROVE  Goes(Q, p, nest2[p - 1], nest2[p])
    <3>1. /\ Goes(P, p, nest[p - 1], nest[p])
          /\ nest2[p - 1] = nest[p - 1] /\ nest2[p] = nest[p] /\ Q[p] = P[p]
          /\ nest[p - 1] \in Seq(Nat) /\ p - 1 \in 0 .. n
      BY <1>1, <1>2, <1>3 DEF Nested
    <3>2. nest[p - 1] # <<>> => Q[Last(nest[p - 1])] = P[Last(nest[p - 1])]
      <4> SUFFICES ASSUME nest[p - 1] # <<>>
                   PROVE  Last(nest[p - 1]) \in 1 .. n
        BY <1>1
      <4>1. Len(nest[p - 1]) \in 1 .. Len(nest[p - 1])
        BY <3>1, FrontElements
      <4>2. Enclosing(P, nest, p - 1)
        BY <3>1 DEF Nested
      <4> QED BY <4>1, <4>2, <1>1 DEF Enclosing, Last
    <3> QED BY <3>1, <3>2 DEF Goes
  <2>2. Goes(Q, n + 1, nest2[n + 1 - 1], nest2[n + 1])
    BY <1>1, <1>3, <1>a
  <2> QED BY <2>1, <2>2, <1>1
<1>7. nest2 \in [0 .. Len(Q) -> Seq(Nat)]
  BY <1>1, <1>5, <1>b
<1>8. \A p \in 0 .. n + 1 : Enclosing(Q, nest2, p)
  BY <1>4, <1>5, <1>1
<1>9. Nested(Q, nest2)
  BY <1>1, <1>3, <1>6, <1>7, <1>8 DEF Nested
<1> QED BY <1>1, <1>3, <1>9 DEF Q

-----------------------------------------------------------------------------
(* Reading. *)

LEMMA WriteKeeps ==
  ASSUME NEW nest, InBlocks(nest), NEW t, NEW blks, Write(t, blks), UNCHANGED frames,
         NEW after, Goes(Append(prog, t), Len(prog) + 1, nest[Len(prog)], after),
         Agree(Append(prog, t), after, blks)
  PROVE  BlockInv'
<1>1. PICK T : prog \in Seq(T)
  BY DEF InBlocks
<1>2. /\ phase = "read" /\ phase' = "read" /\ prog' = Append(prog, t) /\ open' = blks
      /\ pc' = pc /\ frames' = frames
  BY DEF Write
<1>3. pc = 1 /\ frames = <<>>
  BY <1>2 DEF InBlocks, Reading
<1>4. PICK n : n = Len(prog)
  OBVIOUS
<1>5. /\ \E T2 : Append(prog, t) \in Seq(T2)
      /\ Len(Append(prog, t)) = n + 1
      /\ \E nest2 : Nested(Append(prog, t), nest2) /\ nest2[n + 1] = after
  BY <1>1, <1>4, ProgramGrows DEF InBlocks
<1>6. PICK nest2 : Nested(Append(prog, t), nest2) /\ nest2[n + 1] = after
  BY <1>5
<1>7. PICK T2 : Append(prog, t) \in Seq(T2)
  BY <1>5
<1>8. prog' \in Seq(T2) /\ Nested(prog', nest2)
  BY <1>2, <1>6, <1>7
<1>9. Agree(prog', nest2[Len(prog')], open')
  BY <1>2, <1>5, <1>6
<1>10. InBlocks(nest2)'
  BY <1>2, <1>3, <1>8, <1>9 DEF InBlocks, Reading
<1> QED BY <1>10 DEF BlockInv

(* The tokens of a form.                                                    *)
LEMMA FormTokens ==
  ASSUME NEW form, NEW t \in OfForm(form)
  PROVE  /\ t.op \in Plain
         /\ t.op = "local" => t.x \in Names
<1> QED BY DEF OfForm, Stmt, Plain

LEMMA ReadKeeps ==
  ASSUME NEW nest, InBlocks(nest), phase = "read", Read, UNCHANGED analysis
  PROVE  BlockInv'
<1> DEFINE n == Len(prog)
           ns == nest[Len(prog)]
<1>1. PICK T : prog \in Seq(T)
  BY DEF InBlocks
<1>2. /\ n \in Nat /\ ns \in Seq(Nat) /\ frames' = frames
      /\ pc = 1 /\ frames = <<>>
      /\ Agree(prog, ns, open)
      /\ Nested(prog, nest)
  BY <1>1 DEF InBlocks, Reading, Nested, analysis
<1>3. /\ open \in Seq(Blocks) /\ Len(open) = Len(ns) + 1 /\ Len(ns) \in Nat
      /\ open[1].op = "file"
      /\ \A k \in 1 .. Len(ns) :
           \/ open[k + 1].op = prog[ns[k]].op
           \/ open[k + 1].op = "else" /\ prog[ns[k]].op = "if"
  BY <1>2 DEF Agree
<1>4. \A k \in 1 .. Len(ns) : ns[k] \in 1 .. n
  <2>1. Enclosing(prog, nest, n)
    BY <1>2 DEF Nested
  <2> QED BY <2>1 DEF Enclosing
<1>5. ASSUME NEW t
      PROVE  /\ Append(prog, t)[n + 1] = t
             /\ \A k \in 1 .. Len(ns) : Append(prog, t)[ns[k]] = prog[ns[k]]
  BY <1>1, <1>2, <1>4
<1>6. ns # <<>> => Len(ns) \in 1 .. Len(ns) /\ Last(ns) = ns[Len(ns)]
  BY <1>2, FrontElements DEF Last
<1> HIDE DEF n, ns
<1>7. ASSUME NEW form, ReadStmt(form)
      PROVE  BlockInv'
  <2>1. PICK t \in OfForm(form) :
          Write(t, IF t.op = "local" THEN [open EXCEPT ![Len(open)].names = @ \cup {t.x}] ELSE open)
    BY <1>7 DEF ReadStmt
  <2> DEFINE blks == IF t.op = "local" THEN [open EXCEPT ![Len(open)].names = @ \cup {t.x}] ELSE open
  <2>2. t.op \in Plain /\ (t.op = "local" => t.x \in Names)
    BY FormTokens
  <2>3. Goes(Append(prog, t), n + 1, ns, ns)
    BY <1>5, <2>2 DEF Goes
  <2>4. /\ blks \in Seq(Blocks) /\ Len(blks) = Len(open)
        /\ \A k \in 1 .. Len(open) : blks[k].op = open[k].op
    <3>1. open[Len(open)] \in Blocks /\ Len(open) \in 1 .. Len(open)
      BY <1>3
    <3>2. ASSUME t.op = "local"
          PROVE  [open[Len(open)] EXCEPT !.names = @ \cup {t.x}] \in Blocks
      BY <3>1, <3>2, <2>2 DEF Blocks
    <3>3. ASSUME t.op = "local"
          PROVE  [open[Len(open)] EXCEPT !.names = @ \cup {t.x}].op = open[Len(open)].op
      BY <3>1 DEF Blocks
    <3> QED BY <3>1, <3>2, <3>3, <1>3
  <2>5. Agree(Append(prog, t), ns, blks)
    <3> DEFINE P == Append(prog, t)
    <3>1. \A k \in 1 .. Len(ns) : P[ns[k]] = prog[ns[k]]
      BY <1>5
    <3>2. 1 \in 1 .. Len(open) /\ \A k \in 1 .. Len(ns) : k + 1 \in 1 .. Len(open)
      BY <1>3
    <3> HIDE DEF blks, P
    <3>3. Agree(P, ns, blks)
      BY <1>3, <2>4, <3>1, <3>2 DEF Agree
    <3> QED BY <3>3 DEF P
  <2>6. Write(t, blks)
    BY <2>1
  <2> HIDE DEF blks
  <2> QED BY <2>3, <2>5, <2>6, <1>2, WriteKeeps DEF n, ns
<1>8. ASSUME NEW op \in Openers, ReadOpening(op)
      PROVE  BlockInv'
  <2> DEFINE t == Mark(op)
             blks == Append(open, [op |-> op, names |-> {}])
             after == Append(ns, n + 1)
  <2>1. t.op = op /\ Write(t, blks)
    BY <1>8 DEF ReadOpening, Mark, Stmt
  <2>2. Goes(Append(prog, t), n + 1, ns, after)
    BY <1>5, <2>1, <1>8 DEF Goes
  <2>3. /\ Len(after) = Len(ns) + 1 /\ after[Len(ns) + 1] = n + 1
        /\ \A k \in 1 .. Len(ns) : after[k] = ns[k]
    BY <1>2
  <2>4. /\ blks \in Seq(Blocks) /\ Len(blks) = Len(open) + 1
        /\ \A k \in 1 .. Len(open) : blks[k] = open[k]
        /\ blks[Len(open) + 1].op = op
    <3>1. [op |-> op, names |-> {}] \in Blocks
      BY <1>8 DEF Blocks, Openers
    <3> QED BY <1>3, <3>1
  <2>5. Agree(Append(prog, t), after, blks)
    <3> DEFINE P == Append(prog, t)
    <3>1. P[n + 1].op = op /\ \A k \in 1 .. Len(ns) : P[ns[k]] = prog[ns[k]]
      BY <1>5, <2>1
    <3> HIDE DEF blks, after, t, P
    <3>2. 1 \in 1 .. Len(open) /\ \A k \in 1 .. Len(ns) : k + 1 \in 1 .. Len(open)
      BY <1>3
    <3>3. ASSUME NEW k \in 1 .. Len(after)
          PROVE  \/ blks[k + 1].op = P[after[k]].op
                 \/ blks[k + 1].op = "else" /\ P[after[k]].op = "if"
      <4>1. CASE k = Len(ns) + 1
        BY <4>1, <1>3, <2>3, <2>4, <3>1
      <4>2. CASE k \in 1 .. Len(ns)
        BY <4>2, <1>3, <2>3, <2>4, <3>1, <3>2
      <4> QED BY <4>1, <4>2, <2>3, <1>3
    <3>4. Agree(P, after, blks)
      BY <1>3, <2>3, <2>4, <3>2, <3>3 DEF Agree
    <3> QED BY <3>4 DEF P
  <2> HIDE DEF blks, after, t
  <2> QED BY <2>1, <2>2, <2>5, <1>2, WriteKeeps DEF n, ns
<1>9. CASE ReadElse
  <2> DEFINE t == Mark("else")
             blks == Append(Front(open), [op |-> "else", names |-> {}])
  <2>1. t.op = "else" /\ Write(t, blks) /\ open[Len(open)].op = "if"
    BY <1>9 DEF ReadElse, Mark, Stmt, Inner, Last
  <2>2. ns # <<>> /\ prog[ns[Len(ns)]].op = "if" /\ Len(ns) >= 1
    BY <1>2, <1>3, <2>1
  <2>3. Goes(Append(prog, t), n + 1, ns, ns)
    BY <1>5, <1>6, <2>1, <2>2 DEF Goes
  <2>4. /\ Front(open) \in Seq(Blocks) /\ Len(Front(open)) = Len(open) - 1
        /\ \A k \in 1 .. Len(open) - 1 : Front(open)[k] = open[k]
    BY <1>3, FrontElements
  <2>5. /\ blks \in Seq(Blocks) /\ Len(blks) = Len(open)
        /\ \A k \in 1 .. Len(open) - 1 : blks[k] = open[k]
        /\ blks[Len(open)].op = "else"
    <3>1. [op |-> "else", names |-> {}] \in Blocks
      BY DEF Blocks
    <3> QED BY <1>3, <2>4, <3>1
  <2>6. Agree(Append(prog, t), ns, blks)
    <3> DEFINE P == Append(prog, t)
    <3>1. \A k \in 1 .. Len(ns) : P[ns[k]] = prog[ns[k]]
      BY <1>5
    <3>2. Len(ns) >= 1 /\ 1 \in 1 .. Len(open) - 1
      BY <1>3, <2>2
    <3> HIDE DEF blks, t, P
    <3>3. ASSUME NEW k \in 1 .. Len(ns)
          PROVE  \/ blks[k + 1].op = P[ns[k]].op
                 \/ blks[k + 1].op = "else" /\ P[ns[k]].op = "if"
      <4>1. CASE k = Len(ns)
        BY <4>1, <1>3, <2>2, <2>5, <3>1
      <4>2. CASE k + 1 \in 1 .. Len(open) - 1
        BY <4>2, <1>3, <2>5, <3>1
      <4> QED BY <4>1, <4>2, <1>3
    <3>4. Agree(P, ns, blks)
      BY <1>3, <2>5, <3>2, <3>3 DEF Agree
    <3> QED BY <3>4 DEF P
  <2> HIDE DEF blks, t
  <2> QED BY <2>1, <2>3, <2>6, <1>2, WriteKeeps DEF n, ns
<1>10. CASE ReadEnd
  <2> DEFINE t == Mark("end")
             blks == Front(open)
             after == Front(ns)
  <2>1. t.op = "end" /\ Write(t, blks) /\ open[Len(open)].op # "file"
    BY <1>10 DEF ReadEnd, Mark, Stmt, Inner, Last
  <2>2. ns # <<>> /\ Len(ns) >= 1
    BY <1>2, <1>3, <2>1
  <2>3. Goes(Append(prog, t), n + 1, ns, after)
    BY <1>5, <2>1, <2>2 DEF Goes
  <2>4. /\ blks \in Seq(Blocks) /\ Len(blks) = Len(open) - 1
        /\ \A k \in 1 .. Len(open) - 1 : blks[k] = open[k]
    BY <1>3, FrontElements
  <2>5. /\ after \in Seq(Nat) /\ Len(after) = Len(ns) - 1
        /\ \A k \in 1 .. Len(ns) - 1 : after[k] = ns[k]
    BY <1>2, <2>2, FrontElements
  <2>6. Agree(Append(prog, t), after, blks)
    <3> DEFINE P == Append(prog, t)
    <3>1. \A k \in 1 .. Len(ns) : P[ns[k]] = prog[ns[k]]
      BY <1>5
    <3>2. /\ Len(ns) >= 1 /\ 1 \in 1 .. Len(open) - 1
          /\ \A k \in 1 .. Len(ns) - 1 : k + 1 \in 1 .. Len(open) - 1 /\ k \in 1 .. Len(ns)
      BY <1>3, <2>2
    <3> HIDE DEF blks, after, t, P
    <3>3. ASSUME NEW k \in 1 .. Len(after)
          PROVE  \/ blks[k + 1].op = P[after[k]].op
                 \/ blks[k + 1].op = "else" /\ P[after[k]].op = "if"
      <4>1. k \in 1 .. Len(ns) - 1
        BY <2>5
      <4>2. blks[k + 1] = open[k + 1] /\ P[after[k]] = prog[ns[k]] /\ k \in 1 .. Len(ns)
        BY <4>1, <2>4, <2>5, <3>1, <3>2
      <4> QED BY <4>2, <1>3
    <3>4. Agree(P, after, blks)
      BY <1>3, <2>2, <2>4, <2>5, <3>2, <3>3 DEF Agree
    <3> QED BY <3>4 DEF P
  <2> HIDE DEF blks, after, t
  <2> QED BY <2>1, <2>3, <2>6, <1>2, WriteKeeps DEF n, ns
<1>11. CASE ReadFile
  <2>1. prog' = prog /\ pc' = 1 /\ frames' = <<>> /\ phase' = "walk"
    BY <1>2, <1>11 DEF ReadFile, source
  <2>2. Walking(nest)'
    <3>1. nest[pc' - 1] = <<>> /\ pc' \in 1 .. Len(prog') + 1
      BY <2>1, <1>1, <1>2 DEF Nested
    <3>2. frames' \in Seq({}) /\ Len(frames') = 0
      BY <2>1
    <3> QED BY <3>1, <3>2 DEF Walking
  <2>3. InBlocks(nest)'
    BY <2>1, <2>2, <1>1, <1>2 DEF InBlocks
  <2> QED BY <2>3 DEF BlockInv
<1> QED BY <1>7, <1>8, <1>9, <1>10, <1>11 DEF Read

-----------------------------------------------------------------------------
(* Walking. *)

(* A merge binds the names of its first argument.                            *)
LEMMA MergeNames ==
  ASSUME NEW a, NEW b
  PROVE  /\ SameNames(a, Merge(a, b))
         /\ \A d \in DOMAIN a : \A x \in DOMAIN a[d] : Merge(a, b)[d][x] = a[d][x] \cup b[d][x]
BY DEF SameNames, Merge

(* The next head binds the names of the entry and forgets nothing of the head. *)
LEMMA NextHeadCovers ==
  ASSUME NEW entry, NEW head, NEW latch, SameNames(entry, head)
  PROVE  /\ SameNames(entry, NextHead(entry, head, latch))
         /\ Covers(NextHead(entry, head, latch), head)
<1> DEFINE m == Merge(entry, head)
           h == Merge(m, latch)
<1>1. SameNames(entry, m) /\ SameNames(m, h)
  BY MergeNames
<1>2. \A d \in DOMAIN entry : \A x \in DOMAIN entry[d] : m[d][x] = entry[d][x] \cup head[d][x]
  BY MergeNames
<1>3. \A d \in DOMAIN m : \A x \in DOMAIN m[d] : h[d][x] = m[d][x] \cup latch[d][x]
  BY MergeNames
<1> HIDE DEF m, h
<1>4. SameNames(entry, h)
  BY <1>1 DEF SameNames
<1>5. Covers(h, head)
  BY <1>1, <1>2, <1>3 DEF SameNames, Covers
<1> QED BY <1>4, <1>5 DEF NextHead, m, h

(* The frame of the innermost block. *)
LEMMA InnerFrame ==
  ASSUME NEW nest, InBlocks(nest), phase = "walk", pc <= Len(prog)
  PROVE  /\ Len(prog) \in Nat /\ pc \in 1 .. Len(prog) /\ pc - 1 \in 0 .. Len(prog)
         /\ Goes(prog, pc, nest[pc - 1], nest[pc])
         /\ nest[pc - 1] \in Seq(Nat) /\ nest[pc] \in Seq(Nat)
         /\ Len(frames) \in Nat /\ Len(frames) = Len(nest[pc - 1])
         /\ nest[pc - 1] # <<>> =>
              LET q == nest[pc - 1][Len(frames)]
              IN /\ Len(frames) >= 1 /\ Last(nest[pc - 1]) = q /\ Last(frames) = frames[Len(frames)]
                 /\ q \in 1 .. pc - 1 /\ prog[q].op \in Openers
                 /\ Len(nest[q - 1]) = Len(frames) - 1
                 /\ \A k \in 1 .. Len(frames) - 1 : nest[q - 1][k] = nest[pc - 1][k]
<1>1. PICK T : prog \in Seq(T)
  BY DEF InBlocks
<1>2. PICK F : frames \in Seq(F)
  BY DEF InBlocks, Walking
<1>3. pc \in 1 .. Len(prog) + 1 /\ Len(frames) = Len(nest[pc - 1]) /\ Nested(prog, nest)
  BY DEF InBlocks, Walking
<1>4. Len(prog) \in Nat /\ pc \in 1 .. Len(prog) /\ pc - 1 \in 0 .. Len(prog) /\ pc \in 0 .. Len(prog)
  BY <1>1, <1>3
<1>5. /\ Goes(prog, pc, nest[pc - 1], nest[pc])
      /\ nest[pc - 1] \in Seq(Nat) /\ nest[pc] \in Seq(Nat)
      /\ Enclosing(prog, nest, pc - 1)
  BY <1>3, <1>4 DEF Nested
<1>6. ASSUME nest[pc - 1] # <<>>
      PROVE  /\ Len(frames) >= 1 /\ Len(frames) \in 1 .. Len(nest[pc - 1])
             /\ Last(nest[pc - 1]) = nest[pc - 1][Len(frames)]
  BY <1>3, <1>5, <1>6, FrontElements DEF Last
<1>7. Len(frames) \in Nat
  BY <1>2
<1> QED BY <1>3, <1>4, <1>5, <1>6, <1>7 DEF Enclosing, Last

(* The walk goes on to the next token in the same blocks, in one more, or in   *)
(* one less.                                                                *)
LEMMA StayKeeps ==
  ASSUME NEW nest, InBlocks(nest), phase = "walk", pc <= Len(prog), Advance,
         prog[pc].op \in Plain \cup {"else"}, UNCHANGED frames
  PROVE  InBlocks(nest)'
<1>1. /\ prog' = prog /\ pc' = pc + 1 /\ phase' = "walk" /\ frames' = frames
  BY DEF Advance, source
<1>2. nest[pc] = nest[pc - 1]
  <2>1. Goes(prog, pc, nest[pc - 1], nest[pc])
    BY InnerFrame
  <2> QED BY <2>1 DEF Goes, Plain, Openers
<1>3. pc' \in 1 .. Len(prog') + 1 /\ pc' - 1 = pc
  BY <1>1, InnerFrame
<1>4. Walking(nest)'
  BY <1>1, <1>2, <1>3 DEF Walking, InBlocks
<1> QED BY <1>1, <1>4 DEF InBlocks

LEMMA OpenKeeps ==
  ASSUME NEW nest, InBlocks(nest), phase = "walk", pc <= Len(prog), Advance,
         NEW entry, NEW other, SameNames(entry, other),
         NEW op \in Openers, prog[pc].op = op,
         frames' = Append(frames, [op |-> op, start |-> pc, entry |-> entry, other |-> other])
  PROVE  InBlocks(nest)'
<1> DEFINE f == [op |-> op, start |-> pc, entry |-> entry, other |-> other]
<1>1. /\ prog' = prog /\ pc' = pc + 1 /\ phase' = "walk" /\ frames' = Append(frames, f)
  BY DEF Advance, source
<1>2. PICK F : frames \in Seq(F)
  BY DEF InBlocks, Walking
<1>3. /\ nest[pc] = Append(nest[pc - 1], pc)
  BY InnerFrame DEF Goes, Plain, Openers
<1>4. /\ Len(nest[pc]) = Len(frames) + 1 /\ nest[pc][Len(frames) + 1] = pc
      /\ \A k \in 1 .. Len(frames) : nest[pc][k] = nest[pc - 1][k]
  <2>1. nest[pc - 1] \in Seq(Nat) /\ Len(frames) = Len(nest[pc - 1]) /\ pc \in Nat
    BY InnerFrame
  <2> QED BY <1>3, <2>1
<1>5. IsFrame(f) /\ f.op = op /\ f.start = pc /\ f.entry = entry /\ f.other = other
  BY DEF IsFrame
<1> HIDE DEF f
<1>6. /\ frames' \in Seq(F \cup {f}) /\ Len(frames') = Len(frames) + 1
      /\ frames'[Len(frames) + 1] = f
      /\ \A k \in 1 .. Len(frames) : frames'[k] = frames[k]
  BY <1>1, <1>2
<1>7. pc' \in 1 .. Len(prog') + 1 /\ pc' - 1 = pc
  BY <1>1, InnerFrame
<1>8. ASSUME NEW k \in 1 .. Len(frames')
      PROVE  /\ IsFrame(frames'[k])
             /\ frames'[k].start = nest[pc][k]
             /\ frames'[k].op = prog[nest[pc][k]].op
             /\ frames'[k].op = "while" => SameNames(frames'[k].entry, frames'[k].other)
  <2>1. CASE k = Len(frames) + 1
    BY <2>1, <1>4, <1>5, <1>6
  <2>2. CASE k \in 1 .. Len(frames)
    <3>1. frames'[k] = frames[k] /\ nest[pc][k] = nest[pc - 1][k]
      BY <2>2, <1>4, <1>6
    <3> QED BY <2>2, <3>1 DEF InBlocks, Walking
  <2> QED BY <2>1, <2>2, <1>6, InnerFrame
<1>9. Walking(nest)'
  BY <1>1, <1>4, <1>6, <1>7, <1>8 DEF Walking
<1> QED BY <1>1, <1>9 DEF InBlocks

LEMMA CloseKeeps ==
  ASSUME NEW nest, InBlocks(nest), phase = "walk", pc <= Len(prog), Advance,
         prog[pc].op = "end", frames' = Front(frames)
  PROVE  InBlocks(nest)'
<1>1. /\ prog' = prog /\ pc' = pc + 1 /\ phase' = "walk"
  BY DEF Advance, source
<1>2. PICK F : frames \in Seq(F)
  BY DEF InBlocks, Walking
<1>3. nest[pc - 1] # <<>> /\ nest[pc] = Front(nest[pc - 1])
  BY InnerFrame DEF Goes, Plain, Openers
<1>4. /\ Len(nest[pc]) = Len(frames) - 1
      /\ \A k \in 1 .. Len(frames) - 1 : nest[pc][k] = nest[pc - 1][k]
  <2>1. nest[pc - 1] \in Seq(Nat) /\ Len(frames) = Len(nest[pc - 1])
    BY InnerFrame
  <2> QED BY <1>3, <2>1, FrontElements
<1>5. Len(frames) >= 1 /\ frames # <<>>
  BY <1>2, <1>3, InnerFrame
<1>6. /\ frames' \in Seq(F) /\ Len(frames') = Len(frames) - 1 /\ Len(frames) \in Nat
      /\ \A k \in 1 .. Len(frames) - 1 : frames'[k] = frames[k]
  BY <1>2, <1>5, FrontElements
<1>7. pc' \in 1 .. Len(prog') + 1 /\ pc' - 1 = pc
  BY <1>1, InnerFrame
<1>8. ASSUME NEW k \in 1 .. Len(frames')
      PROVE  /\ IsFrame(frames'[k])
             /\ frames'[k].start = nest[pc][k]
             /\ frames'[k].op = prog[nest[pc][k]].op
             /\ frames'[k].op = "while" => SameNames(frames'[k].entry, frames'[k].other)
  <2>1. k \in 1 .. Len(frames) - 1 /\ k \in 1 .. Len(frames)
    BY <1>6
  <2>2. frames'[k] = frames[k] /\ nest[pc][k] = nest[pc - 1][k]
    BY <2>1, <1>4, <1>6
  <2> QED BY <2>1, <2>2 DEF InBlocks, Walking
<1>9. Walking(nest)'
  BY <1>1, <1>4, <1>6, <1>7, <1>8 DEF Walking
<1> QED BY <1>1, <1>9 DEF InBlocks

(* The innermost frame changed in its last field.                            *)
WithOther(s, v) == [s EXCEPT ![Len(s)].other = v]

LEMMA OtherChanged ==
  ASSUME NEW F, NEW s \in Seq(F), s # <<>>, IsFrame(s[Len(s)]), NEW v, NEW t,
         t = WithOther(s, v)
  PROVE  /\ Len(s) \in Nat \ {0}
         /\ \E G : t \in Seq(G)
         /\ Len(t) = Len(s)
         /\ \A k \in 1 .. Len(s) - 1 : t[k] = s[k]
         /\ IsFrame(t[Len(s)]) /\ t[Len(s)].op = s[Len(s)].op /\ t[Len(s)].start = s[Len(s)].start
         /\ t[Len(s)].entry = s[Len(s)].entry /\ t[Len(s)].other = v
<1> DEFINE f == s[Len(s)]
           g == [f EXCEPT !.other = v]
<1>1. Len(s) \in Nat \ {0} /\ Len(s) \in 1 .. Len(s)
  OBVIOUS
<1>2. f = [op |-> f.op, start |-> f.start, entry |-> f.entry, other |-> f.other]
  BY DEF IsFrame
<1>3. g = [op |-> f.op, start |-> f.start, entry |-> f.entry, other |-> v]
  BY <1>2
<1>4. /\ IsFrame(g) /\ g.op = f.op /\ g.start = f.start
      /\ g.entry = f.entry /\ g.other = v
  BY <1>3 DEF IsFrame
<1>5. t = [s EXCEPT ![Len(s)] = g]
  BY DEF WithOther
<1> HIDE DEF g
<1>6. t \in Seq(F \cup {g}) /\ Len(t) = Len(s) /\ t[Len(s)] = g
      /\ \A k \in 1 .. Len(s) - 1 : t[k] = s[k]
  BY <1>1, <1>5
<1> QED BY <1>1, <1>4, <1>6

LEMMA ElseKeeps ==
  ASSUME NEW nest, InBlocks(nest), phase = "walk", pc <= Len(prog), WalkElse
  PROVE  InBlocks(nest)'
<1>1. /\ prog' = prog /\ pc' = pc + 1 /\ phase' = "walk" /\ prog[pc].op = "else"
      /\ frames' = [frames EXCEPT ![Len(frames)].other = Front(scopes)]
  BY DEF WalkElse, Advance, source, At, Token
<1>2. PICK F : frames \in Seq(F)
  BY DEF InBlocks, Walking
<1>3. nest[pc - 1] # <<>> /\ prog[Last(nest[pc - 1])].op = "if" /\ nest[pc] = nest[pc - 1]
  <2>1. Goes(prog, pc, nest[pc - 1], nest[pc])
    BY InnerFrame
  <2> QED BY <1>1, <2>1 DEF Goes, Plain, Openers
<1>4. /\ Len(frames) \in Nat /\ Len(frames) >= 1 /\ frames # <<>>
      /\ prog[nest[pc - 1][Len(frames)]].op = "if"
  BY <1>2, <1>3, InnerFrame
<1>5. \A k \in 1 .. Len(frames) :
       /\ IsFrame(frames[k])
       /\ frames[k].start = nest[pc - 1][k]
       /\ frames[k].op = prog[nest[pc - 1][k]].op
       /\ frames[k].op = "while" => SameNames(frames[k].entry, frames[k].other)
  BY DEF InBlocks, Walking
<1>6. IsFrame(frames[Len(frames)])
  BY <1>4, <1>5
<1>7. PICK v : v = Front(scopes)
  OBVIOUS
<1>8. PICK t : t = frames'
  OBVIOUS
<1>9. /\ \E G : t \in Seq(G)
      /\ Len(t) = Len(frames)
      /\ \A k \in 1 .. Len(frames) - 1 : t[k] = frames[k]
      /\ LET l == Len(frames)
         IN IsFrame(t[l]) /\ t[l].op = frames[l].op /\ t[l].start = frames[l].start
  <2>1. t = WithOther(frames, v)
    BY <1>1, <1>7, <1>8 DEF WithOther
  <2> QED BY <1>2, <1>4, <1>6, <2>1, OtherChanged
<1>10. pc' \in 1 .. Len(prog') + 1 /\ pc' - 1 = pc
  BY <1>1, InnerFrame
<1>11. ASSUME NEW k \in 1 .. Len(t)
       PROVE  /\ IsFrame(t[k])
              /\ t[k].start = nest[pc][k]
              /\ t[k].op = prog[nest[pc][k]].op
              /\ t[k].op = "while" => SameNames(t[k].entry, t[k].other)
  <2>1. CASE k = Len(frames)
    BY <2>1, <1>3, <1>4, <1>5, <1>9
  <2>2. CASE k \in 1 .. Len(frames) - 1
    <3>1. t[k] = frames[k] /\ k \in 1 .. Len(frames)
      BY <2>2, <1>4, <1>9
    <3> QED BY <3>1, <1>3, <1>5
  <2> QED BY <2>1, <2>2, <1>4, <1>9
<1>12. Walking(nest)'
  <2>1. Len(frames') = Len(nest[pc' - 1])
    BY <1>3, <1>8, <1>9, <1>10, InnerFrame
  <2> QED BY <2>1, <1>1, <1>8, <1>9, <1>10, <1>11 DEF Walking
<1> QED BY <1>1, <1>12 DEF InBlocks

(* A further pass over the body of the loop. *)
LatchAgain ==
  LET f == Last(frames)
      next == NextHead(f.entry, f.other, Front(scopes))
  IN /\ Closes("while") /\ ~Stable(f.entry, f.other, next)
     /\ frames' = [frames EXCEPT ![Len(frames)].other = next]
     /\ pc' = f.start + 1
     /\ UNCHANGED <<source, phase>>

LEMMA LatchAgainKeeps ==
  ASSUME NEW nest, InBlocks(nest), phase = "walk", pc <= Len(prog), LatchAgain
  PROVE  /\ InBlocks(nest)'
         /\ Last(frames').other # Last(frames).other
         /\ Covers(Last(frames').other, Last(frames).other)
<1> DEFINE l == Len(frames)
           f == frames[l]
           next == NextHead(f.entry, f.other, Front(scopes))
<1>1. PICK F : frames \in Seq(F)
  BY DEF InBlocks, Walking
<1>2. Goes(prog, pc, nest[pc - 1], nest[pc]) /\ prog[pc].op = "end"
  BY InnerFrame DEF LatchAgain, Closes, At, Token
<1>3. nest[pc - 1] # <<>>
  BY <1>2 DEF Goes, Plain, Openers
<1>4. /\ l \in Nat /\ l >= 1 /\ frames # <<>> /\ Last(frames) = f
      /\ nest[pc - 1] \in Seq(Nat) /\ Len(nest[pc - 1]) = l
  BY <1>1, <1>3, InnerFrame
<1>5. \A k \in 1 .. l :
       /\ IsFrame(frames[k])
       /\ frames[k].start = nest[pc - 1][k]
       /\ frames[k].op = prog[nest[pc - 1][k]].op
       /\ frames[k].op = "while" => SameNames(frames[k].entry, frames[k].other)
  BY DEF InBlocks, Walking
<1>6. PICK q : q = nest[pc - 1][l]
  OBVIOUS
<1>7. /\ q \in 1 .. pc - 1 /\ prog[q].op \in Openers /\ f.start = q
      /\ Len(nest[q - 1]) = l - 1
      /\ \A k \in 1 .. l - 1 : nest[q - 1][k] = nest[pc - 1][k]
  BY <1>3, <1>4, <1>5, <1>6, InnerFrame
<1>8. f.op = "while" /\ IsFrame(f) /\ SameNames(f.entry, f.other)
  BY <1>4, <1>5 DEF LatchAgain, Closes
<1>9. next # f.other /\ SameNames(f.entry, next) /\ Covers(next, f.other)
  BY <1>4, <1>8, NextHeadCovers DEF LatchAgain, Stable
<1>10. PICK t : t = frames'
  OBVIOUS
<1>11. PICK v : v = next
  OBVIOUS
<1>12. t = [frames EXCEPT ![l].other = v] /\ prog' = prog /\ phase' = "walk" /\ pc' = q + 1
  BY <1>4, <1>7, <1>10, <1>11 DEF LatchAgain, source
<1>13. /\ \E G : t \in Seq(G)
       /\ Len(t) = l
       /\ \A k \in 1 .. l - 1 : t[k] = frames[k]
       /\ IsFrame(t[l]) /\ t[l].op = f.op /\ t[l].start = f.start
       /\ t[l].entry = f.entry /\ t[l].other = v
  <2>1. t = WithOther(frames, v)
    BY <1>12 DEF WithOther
  <2>2. IsFrame(frames[Len(frames)])
    BY <1>8
  <2> QED BY <1>1, <1>4, <2>1, <2>2, OtherChanged
<1>14. /\ nest[q] = Append(nest[q - 1], q) /\ nest[q - 1] \in Seq(Nat)
       /\ pc' \in 1 .. Len(prog') + 1 /\ pc' - 1 = q
  <2>1. q \in 1 .. Len(prog) /\ q - 1 \in 0 .. Len(prog) /\ Len(prog) \in Nat
    BY <1>7, InnerFrame
  <2>2. Goes(prog, q, nest[q - 1], nest[q]) /\ nest[q - 1] \in Seq(Nat)
    BY <2>1 DEF InBlocks, Nested
  <2> QED BY <1>7, <1>12, <2>1, <2>2 DEF Goes, Openers, Plain
<1>15. /\ Len(nest[q]) = l /\ nest[q][l] = q
       /\ \A k \in 1 .. l - 1 : nest[q][k] = nest[pc - 1][k]
  <2> PICK m \in Seq(Nat) : m = nest[q - 1]
    BY <1>14
  <2>1. Len(m) = l - 1 /\ q \in Nat /\ nest[q] = Append(m, q) /\ l \in Nat
    BY <1>4, <1>7, <1>14
  <2>2. Len(Append(m, q)) = l /\ Append(m, q)[l] = q /\ \A k \in 1 .. l - 1 : Append(m, q)[k] = m[k]
    BY <2>1
  <2> QED BY <1>7, <2>1, <2>2
<1>16. ASSUME NEW k \in 1 .. Len(t)
       PROVE  /\ IsFrame(t[k])
              /\ t[k].start = nest[q][k]
              /\ t[k].op = prog[nest[q][k]].op
              /\ t[k].op = "while" => SameNames(t[k].entry, t[k].other)
  <2>1. CASE k = l
    <3>1. l \in 1 .. l
      BY <1>4
    <3>2. frames[l].op = prog[nest[pc - 1][l]].op
      BY <1>5, <3>1
    <3> QED BY <2>1, <3>2, <1>6, <1>7, <1>9, <1>11, <1>13, <1>15
  <2>2. CASE k \in 1 .. l - 1
    <3>1. t[k] = frames[k] /\ k \in 1 .. l
      BY <2>2, <1>4, <1>13
    <3>2. nest[q][k] = nest[pc - 1][k]
      BY <2>2, <1>15
    <3> QED BY <3>1, <3>2, <1>5
  <2> QED BY <2>1, <2>2, <1>4, <1>13
<1>17. Walking(nest)'
  BY <1>10, <1>12, <1>13, <1>14, <1>15, <1>16 DEF Walking
<1>18. InBlocks(nest)'
  BY <1>12, <1>17 DEF InBlocks
<1>19. Last(frames').other = v
  BY <1>10, <1>13 DEF Last
<1> QED BY <1>4, <1>9, <1>11, <1>18, <1>19

(* The walk has ended, in one way or the other. *)
LEMMA LeaveKeeps ==
  ASSUME NEW nest, InBlocks(nest), prog' = prog, phase' \in {"lower", "run", "halted", "rejected"}
  PROVE  InBlocks(nest)'
BY DEF InBlocks

Grown ==
  LET was == Last(frames).other
      now == Last(frames').other
  IN now # was /\ Covers(now, was)

LEMMA WalkKeeps ==
  ASSUME NEW nest, InBlocks(nest), phase = "walk", Walk
  PROVE  InBlocks(nest)' /\ (PassAgain => Grown)
<1>1. pc \in Nat
  <2>1. PICK T : prog \in Seq(T)
    BY DEF InBlocks
  <2> QED BY <2>1 DEF InBlocks, Walking
<1>2. Advance => ~PassAgain
  BY <1>1 DEF Advance, PassAgain
<1>3. Reject => InBlocks(nest)' /\ ~PassAgain
  BY LeaveKeeps DEF Reject, PassAgain, source
<1>4. Advance /\ frames' = frames /\ pc <= Len(prog) /\ prog[pc].op \in Plain \cup {"else"}
        => InBlocks(nest)'
  BY StayKeeps
<1>5. CASE WalkLocal
  BY <1>2, <1>4, <1>5 DEF WalkLocal, At, Token, Plain
<1>6. CASE WalkAssign
  BY <1>2, <1>4, <1>6 DEF WalkAssign, At, Token, Plain
<1>7. CASE WalkDrop
  BY <1>2, <1>4, <1>7 DEF WalkDrop, At, Token, Plain
<1>8. CASE WalkUse
  BY <1>2, <1>3, <1>4, <1>8 DEF WalkUse, At, Token, Plain, analysis
<1>9. SameNames(scopes, scopes)
  BY DEF SameNames
<1>10. CASE WalkIf
  <2>1. /\ Advance /\ pc <= Len(prog) /\ prog[pc].op = "if" /\ "if" \in Openers
        /\ frames' = Append(frames, [op |-> "if", start |-> pc, entry |-> scopes, other |-> scopes])
    BY <1>10 DEF WalkIf, At, Token, Openers
  <2> QED BY <1>2, <1>9, <2>1, OpenKeeps
<1>11. CASE WalkWhile
  <2>1. /\ Advance /\ pc <= Len(prog) /\ prog[pc].op = "while" /\ "while" \in Openers
        /\ frames' = Append(frames, [op |-> "while", start |-> pc, entry |-> scopes, other |-> scopes])
    BY <1>11 DEF WalkWhile, At, Token, Openers
  <2> QED BY <1>2, <1>9, <2>1, OpenKeeps
<1>12. CASE WalkDo
  <2>1. /\ Advance /\ pc <= Len(prog) /\ prog[pc].op = "do" /\ "do" \in Openers
        /\ frames' = Append(frames, [op |-> "do", start |-> pc, entry |-> scopes, other |-> scopes])
    BY <1>12 DEF WalkDo, At, Token, Openers
  <2> QED BY <1>2, <1>9, <2>1, OpenKeeps
<1>13. CASE WalkElse
  BY <1>2, <1>13, ElseKeeps DEF WalkElse, At
<1>14. Advance /\ frames' = Front(frames) /\ At("end") => InBlocks(nest)'
  BY CloseKeeps DEF At, Token
<1>15. CASE WalkEndIf
  BY <1>2, <1>14, <1>15 DEF WalkEndIf, Closes
<1>16. CASE WalkLatch
  <2>1. CASE frames' = Front(frames) /\ Advance
    BY <1>2, <1>14, <1>16, <2>1 DEF WalkLatch, Closes
  <2>2. CASE LatchAgain
    <3>1. pc <= Len(prog)
      BY <2>2 DEF LatchAgain, Closes, At
    <3> QED BY <2>2, <3>1, LatchAgainKeeps DEF Grown
  <2> QED BY <1>16, <2>1, <2>2 DEF WalkLatch, LatchAgain
<1>17. CASE WalkDoExit
  BY <1>2, <1>3, <1>14, <1>17 DEF WalkDoExit, Closes
<1>18. CASE WalkDone
  BY <1>18, LeaveKeeps DEF WalkDone, PassAgain, source
<1> QED BY <1>5, <1>6, <1>7, <1>8, <1>10, <1>11, <1>12, <1>13, <1>15, <1>16, <1>17, <1>18 DEF Walk

-----------------------------------------------------------------------------

LEMMA StartsInBlocks == Init => BlockInv
<1> SUFFICES ASSUME Init PROVE BlockInv
  OBVIOUS
<1> DEFINE nest == [p \in {0} |-> <<>>]
<1>1. /\ prog = <<>> /\ open = <<[op |-> "file", names |-> {}]>> /\ phase = "read" /\ pc = 1
      /\ frames = <<>>
  BY DEF Init, InitProgram, InitWalk
<1>2. prog \in Seq({}) /\ Len(prog) = 0
  BY <1>1
<1>3. nest \in [0 .. Len(prog) -> Seq(Nat)] /\ nest[0] = <<>> /\ Len(nest[0]) = 0
  BY <1>2
<1> HIDE DEF nest
<1>4. Nested(prog, nest)
  BY <1>2, <1>3 DEF Nested, Enclosing
<1>5. Agree(prog, nest[Len(prog)], open)
  <2>1. [op |-> "file", names |-> {}] \in Blocks
    BY DEF Blocks
  <2>2. /\ open \in Seq(Blocks) /\ Len(open) = 1
        /\ open[1] = [op |-> "file", names |-> {}]
    BY <1>1, <2>1
  <2> QED BY <1>2, <1>3, <2>2 DEF Agree
<1>6. InBlocks(nest)
  BY <1>1, <1>2, <1>4, <1>5 DEF InBlocks, Reading
<1> QED BY <1>6 DEF BlockInv

LEMMA StepInBlocks ==
  ASSUME BlockInv, [Next]_vars
  PROVE  BlockInv' /\ (PassAgain => Grown \/ UNCHANGED vars)
<1>1. PICK nest : InBlocks(nest)
  BY DEF BlockInv
<1>2. CASE UNCHANGED vars
  <2>1. prog' = prog /\ phase' = phase /\ pc' = pc /\ frames' = frames /\ open' = open
    BY <1>2 DEF vars, source, analysis
  <2>2. InBlocks(nest)'
    BY <1>1, <2>1 DEF InBlocks, Reading, Walking
  <2> QED BY <1>2, <2>2 DEF BlockInv
<1>3. CASE Read /\ UNCHANGED <<analysis, lowering>>
  <2>1. phase = "read"
    BY <1>3 DEF Read, ReadStmt, ReadOpening, ReadElse, ReadEnd, ReadFile, Write
  <2> QED BY <1>1, <1>3, <2>1, ReadKeeps DEF PassAgain
<1>4. CASE Walk /\ UNCHANGED lowering
  <2>1. phase = "walk"
    BY <1>4 DEF Walk
  <2> QED BY <1>1, <1>4, <2>1, WalkKeeps DEF BlockInv
<1>5. CASE Lower
  <2>1. phase = "lower" /\ prog' = prog /\ phase' \in {"lower", "run"}
    BY <1>5 DEF Lower, LowerLocal, LowerAssign, LowerDrop, LowerUse, LowerIf, LowerElse,
       LowerEndIf, LowerWhile, LowerLatch, LowerDo, LowerDoExit, LowerDone, Advance, source
  <2> QED BY <1>1, <2>1, LeaveKeeps DEF BlockInv, PassAgain
<1>6. CASE Run
  <2>1. phase = "run" /\ prog' = prog /\ phase' \in {"run", "halted"}
    BY <1>6 DEF Run, ExecNew, ExecNull, ExecMove, ExecFree, ExecUse, Jump, Branch, Halt,
       Step, Goto, AtExit, Exec, HasInstr, source
  <2> QED BY <1>1, <2>1, LeaveKeeps DEF BlockInv, PassAgain
<1> QED BY <1>2, <1>3, <1>4, <1>5, <1>6 DEF Next, Compile

(* The blocks of a program nest, and the walk is in the blocks its frames say. *)
THEOREM WalkFollowsBlocks == Spec => []BlockInv
<1>1. BlockInv /\ [Next]_vars => BlockInv'
  BY StepInBlocks
<1> QED BY <1>1, StartsInBlocks, PTL DEF Spec

(* Every further pass over the body of a loop starts from a head that forgets  *)
(* no alias and has one more, in every program: as a program has finitely many *)
(* names and sites, the fixpoint of the loop ends.                          *)
THEOREM LoopHeadsGrow == Spec => HeadsGrow
<1>1. BlockInv /\ [Next]_vars =>
        [PassAgain =>
           LET was == Last(frames).other
               now == Last(frames').other
           IN now # was /\ Covers(now, was)]_vars
  BY StepInBlocks DEF Grown
<1> QED BY <1>1, WalkFollowsBlocks, PTL DEF Spec, HeadsGrow
=============================================================================
