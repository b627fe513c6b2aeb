------------------------- MODULE OwnershipCodeProofs --------------------------
(***************************************************************************)
(* What the lowered code does with the tables, for every program and every   *)
(* run: the facts of the walk carry over to the registers, a register is     *)
(* only read where it is defined, and the machine keeps both.                *)
(***************************************************************************)
EXTENDS OwnershipWalkProofs

-----------------------------------------------------------------------------
(* Where a block ends. *)
LEMMA BlockEnds ==
  ASSUME NEW P, NEW N, NEW L, Program(P, N, L), NEW q \in 1 .. N, P[q].op \in Openers
  PROVE  /\ EndIn(P, q) \in q + 1 .. N /\ P[EndIn(P, q)].op = "end"
         /\ L.lev[EndIn(P, q)] < L.lev[q]
         /\ \A t \in q .. EndIn(P, q) - 1 : L.lev[t] >= L.lev[q]
<1>1. /\ N \in Nat /\ Len(P) = N /\ L \in Layouts /\ L.lev[N] = 0
      /\ \A p \in 1 .. N : Placed(P, L, p - 1, p)
      /\ \A p \in 1 .. N : \A k \in 1 .. L.lev[p] : Around(P, L, p, k)
  BY DEF Program, Layout
<1>2. PICK k : k = L.lev[q]
  OBVIOUS
<1>3. q \in Nat /\ q - 1 \in Nat /\ L.lev[q - 1] \in Nat
  BY <1>1, LayoutTypes
<1>4. Opens(P, L, q - 1, q)
  BY <1>1 DEF Placed, Turns, Shuts, Declares, Refers, Openers
<1>5. /\ k = L.lev[q - 1] + 1 /\ k \in Nat /\ k >= 1 /\ k \in 1 .. k
      /\ L.opn[q][k] = q
  <2>1. L.opn[q] = [L.opn[q - 1] EXCEPT ![L.lev[q - 1] + 1] = q] /\ k = L.lev[q - 1] + 1
    BY <1>2, <1>4 DEF Opens
  <2>2. L.opn[q - 1] \in [Nat -> Nat]
    BY <1>1, <1>3, LayoutTypes
  <2> QED BY <2>1, <2>2, <1>3
<1>6. PICK T : T = {t \in q + 1 .. N : L.lev[t] < k}
  OBVIOUS
<1>7. T \in SUBSET Nat /\ N \in T
  <2>1. N # q
    <3> SUFFICES ASSUME N = q PROVE FALSE
      OBVIOUS
    <3>1. k = 0
      BY <1>1, <1>2
    <3> QED BY <3>1, <1>5
  <2> QED BY <2>1, <1>1, <1>3, <1>5, <1>6
<1>8. PICK e \in T : \A y \in T : e <= y
  <2>1. T # {}
    BY <1>7
  <2> QED BY <2>1, <1>7, LeastOf
<1>9. PICK o : o = e - 1
  OBVIOUS
<1>10. e \in q + 1 .. N /\ L.lev[e] < k /\ o \in q .. N /\ e = o + 1 /\ e \in 1 .. N
  BY <1>1, <1>3, <1>6, <1>8, <1>9
<1>11. \A t \in q .. o : L.lev[t] >= k
  <2> SUFFICES ASSUME NEW t \in q .. o PROVE L.lev[t] >= k
    OBVIOUS
  <2>1. L.lev[t] \in Nat /\ t \in Nat
    BY <1>1, <1>3, <1>10, LayoutTypes
  <2>2. CASE t = q
    BY <2>2, <1>2, <1>5
  <2>3. CASE t # q
    <3>1. t \in q + 1 .. N /\ ~ e <= t
      BY <2>1, <2>3, <1>1, <1>3, <1>10
    <3>2. t \notin T
      BY <3>1, <1>8
    <3> QED BY <3>1, <3>2, <2>1, <1>5, <1>6
  <2> QED BY <2>2, <2>3
<1>12. Placed(P, L, o, e) /\ L.lev[o] \in Nat /\ L.lev[e] \in Nat /\ L.lev[o] >= k
  BY <1>1, <1>9, <1>10, <1>11, LayoutTypes
<1>13. Shuts(P, L, o, e) /\ L.lev[o] = k
  <2>1. L.lev[e] >= L.lev[o] \/ Shuts(P, L, o, e)
    <3>1. L.lev[e] \in {L.lev[o] + 1, L.lev[o]} \/ Shuts(P, L, o, e)
      BY ONLY <1>12 DEF Placed, Opens, Turns, Declares, Refers
    <3> QED BY ONLY <3>1, <1>12
  <2>2. Shuts(P, L, o, e)
    BY ONLY <1>5, <1>10, <1>12, <2>1
  <2>3. L.lev[e] = L.lev[o] - 1
    BY ONLY <2>2 DEF Shuts
  <2> QED BY ONLY <1>5, <1>10, <1>12, <2>2, <2>3
<1>14. L.opn[o][k] = q
  <2>1. o \in 1 .. N /\ k \in 1 .. L.lev[o]
    BY <1>3, <1>5, <1>10, <1>13
  <2>2. PICK r : r = L.opn[o][k]
    OBVIOUS
  <2>3. /\ r \in 1 .. o /\ L.lev[r - 1] = k - 1
        /\ \A t \in r .. o : L.opn[t][k] = r
    BY <2>1, <2>2, <1>1 DEF Around
  <2>4. ~ q < r
    <3> SUFFICES ASSUME q < r PROVE FALSE
      OBVIOUS
    <3>1. r - 1 \in q .. o
      BY <2>3, <1>3, <1>10
    <3> QED BY <3>1, <2>3, <1>5, <1>11
  <2>5. q \in r .. o
    BY <2>3, <2>4, <1>3, <1>10
  <2> QED BY <2>2, <2>3, <2>5, <1>5
<1>15. EndIn(P, q) = e
  BY <1>9, <1>10, <1>13, <1>14, EndIs
<1>16. P[e].op = "end"
  BY <1>13 DEF Shuts
<1> QED BY <1>2, <1>9, <1>10, <1>11, <1>15, <1>16

(* Token p is in the block that token q opens. *)
Inside(L, q, p) == q < p /\ \A t \in q .. p : L.lev[t] >= L.lev[q]

Assigned(P, N, L, q, x) == \E p \in 1 .. N : Inside(L, q, p) /\ P[p].op = "assign" /\ P[p].x = x

(* find_mutated_vars finds what is assigned in the block. *)
LEMMA MutatedIs ==
  ASSUME NEW P, NEW N, NEW L, Program(P, N, L), prog = P, NEW q \in 1 .. N, P[q].op \in Openers, NEW x
  PROVE  x \in Mutated(q) <=> Assigned(P, N, L, q, x)
<1>1. PICK e : e = EndIn(P, q)
  OBVIOUS
<1>2. e \in q + 1 .. N /\ P[e].op = "end" /\ L.lev[e] < L.lev[q]
      /\ \A t \in q .. e - 1 : L.lev[t] >= L.lev[q]
  BY <1>1, BlockEnds
<1>3. EndOf(q) = e
  BY <1>1 DEF EndOf, EndIn, Nesting, NestingIn
<1>4. x \in Mutated(q) <=> \E p \in q .. e : P[p].op = "assign" /\ P[p].x = x
  BY <1>3 DEF Mutated
<1>5. N \in Nat /\ L.lev[q] \in Nat /\ L.lev[e] \in Nat
  BY <1>2, LayoutTypes DEF Program, Layout
<1>6. ASSUME NEW p \in q .. e, P[p].op = "assign" PROVE p \in 1 .. N /\ Inside(L, q, p)
  <2>1. p # q /\ p # e
    BY <1>2, <1>6 DEF Openers
  <2>2. p \in q + 1 .. e - 1
    BY <2>1, <1>2, <1>5
  <2> QED BY <2>2, <1>2, <1>5 DEF Inside
<1>7. ASSUME NEW p \in 1 .. N, Inside(L, q, p) PROVE p \in q .. e
  <2>1. ~ e \in q .. p
    BY <1>2, <1>5, <1>7 DEF Inside
  <2> QED BY <2>1, <1>2, <1>5, <1>7 DEF Inside
<1> QED BY <1>4, <1>6, <1>7 DEF Assigned

(* What an inner block assigns, the outer one does. *)
LEMMA AssignedOutside ==
  ASSUME NEW P, NEW N, NEW L, Program(P, N, L), NEW q \in 1 .. N, NEW r \in 1 .. N, Inside(L, q, r),
         NEW x, Assigned(P, N, L, r, x)
  PROVE  Assigned(P, N, L, q, x)
<1>1. N \in Nat /\ L \in Layouts
  BY DEF Program, Layout
<1>2. PICK p \in 1 .. N : Inside(L, r, p) /\ P[p].op = "assign" /\ P[p].x = x
  BY DEF Assigned
<1>3. Inside(L, q, p)
  <2>1. q < p
    BY <1>1, <1>2 DEF Inside
  <2>2. ASSUME NEW t \in q .. p PROVE L.lev[t] >= L.lev[q]
    <3>1. CASE t \in q .. r
      BY <3>1 DEF Inside
    <3>2. CASE t \in r .. p
      <4>1. L.lev[t] >= L.lev[r] /\ L.lev[r] >= L.lev[q]
        <5>1. r \in q .. r
          BY DEF Inside
        <5> QED BY <5>1, <3>2, <1>2 DEF Inside
      <4>2. L.lev[t] \in Nat /\ L.lev[r] \in Nat /\ L.lev[q] \in Nat
        BY <1>1, LayoutTypes
      <4> QED BY <4>1, <4>2
    <3> QED BY <3>1, <3>2
  <2> QED BY <2>1, <2>2 DEF Inside
<1> QED BY <1>2, <1>3 DEF Assigned

(* Where the next token is, in the blocks that are open. *)
LEMMA InsideOpen ==
  ASSUME NEW P, NEW N, NEW L, Program(P, N, L), NEW c \in 1 .. N, NEW o, o = c - 1,
         NEW k \in 1 .. L.lev[o], L.lev[c] >= k
  PROVE  /\ L.opn[o][k] \in 1 .. N /\ P[L.opn[o][k]].op \in Openers
         /\ Inside(L, L.opn[o][k], c)
<1>1. N \in Nat /\ o \in Nat /\ L.lev[o] \in Nat /\ Around(P, L, o, k)
  BY TokenAt DEF Program
<1>2. PICK q : q = L.opn[o][k]
  OBVIOUS
<1>3. q \in 1 .. o /\ q \in 1 .. N /\ P[q].op \in Openers /\ \A t \in q .. o : L.lev[t] >= k
  BY <1>1, <1>2 DEF Around
<1>4. L.lev[q] = k
  <2>1. Holding(P, N, L, o, k, q)
    BY <1>2, OpenedAt
  <2> QED BY <2>1 DEF Holding
<1>5. ASSUME NEW t \in q .. c PROVE L.lev[t] >= L.lev[q]
  <2>1. t = c \/ t \in q .. o
    BY <1>3
  <2> QED BY <2>1, <1>3, <1>4
<1>6. q < c
  BY <1>3
<1> QED BY <1>2, <1>3, <1>5, <1>6 DEF Inside

-----------------------------------------------------------------------------
(* The elements of a finite set in a row. *)
Ranking(S, Up) ==
  /\ Up \in [S -> SUBSET S]
  /\ \A x \in S : x \in Up[x]
  /\ \A x, y \in S : x = y \/ (y \notin Up[x] /\ Up[x] \subseteq Up[y])
                           \/ (x \notin Up[y] /\ Up[y] \subseteq Up[x])

LEMMA Ranked ==
  ASSUME NEW S, IsFiniteSet(S), NEW Up, Ranking(S, Up)
  PROVE  /\ \A x \in S : Cardinality(Up[x]) \in 1 .. Cardinality(S)
         /\ \A x, y \in S : Cardinality(Up[x]) = Cardinality(Up[y]) => x = y
         /\ \A n \in 1 .. Cardinality(S) : \E x \in S : Cardinality(Up[x]) = n
<1>1. \A x \in S : Up[x] \in SUBSET S /\ x \in Up[x]
  BY DEF Ranking
<1>2. Cardinality(S) \in Nat
  BY FS_CardinalityType
<1>3. ASSUME NEW x \in S
      PROVE  IsFiniteSet(Up[x]) /\ Cardinality(Up[x]) \in 1 .. Cardinality(S)
  <2>1. IsFiniteSet(Up[x]) /\ Cardinality(Up[x]) <= Cardinality(S)
    BY <1>1, FS_Subset
  <2>2. Cardinality(Up[x]) \in Nat
    BY <2>1, FS_CardinalityType
  <2>3. Cardinality(Up[x]) # 0
    BY <1>1, <2>1, FS_EmptySet
  <2> QED BY <2>1, <2>2, <2>3, <1>2
<1>4. ASSUME NEW x \in S, NEW y \in S, Cardinality(Up[x]) = Cardinality(Up[y]) PROVE x = y
  <2>1. ASSUME y \notin Up[x], Up[x] \subseteq Up[y] PROVE FALSE
    <3>1. Up[x] \in SUBSET Up[y]
      BY <2>1
    <3>2. Up[x] = Up[y]
      BY <3>1, <1>3, <1>4, FS_Subset
    <3> QED BY <3>2, <2>1, <1>1
  <2>2. ASSUME x \notin Up[y], Up[y] \subseteq Up[x] PROVE FALSE
    <3>1. Up[y] \in SUBSET Up[x]
      BY <2>2
    <3>2. Up[x] = Up[y]
      BY <3>1, <1>3, <1>4, FS_Subset
    <3> QED BY <3>2, <2>2, <1>1
  <2> QED BY <2>1, <2>2 DEF Ranking
<1>5. PICK f : f = [x \in S |-> Cardinality(Up[x])]
  OBVIOUS
<1>6. PICK T : T = 1 .. Cardinality(S)
  OBVIOUS
<1>7. f \in [S -> T] /\ \A x \in S : f[x] = Cardinality(Up[x])
  BY <1>3, <1>5, <1>6
<1>8. f \in Injection(S, T)
  BY <1>4, <1>7 DEF Injection, IsInjective
<1>9. IsFiniteSet(T) /\ Cardinality(T) = Cardinality(S)
  BY <1>2, <1>6, FS_Interval
<1>10. f \in Surjection(S, T)
  BY <1>8, <1>9, FS_Injection
<1>11. \A n \in T : \E x \in S : f[x] = n
  BY <1>10 DEF Surjection
<1> QED BY <1>3, <1>4, <1>6, <1>7, <1>11

(* The frees of a do-exit are of the registers it chose. *)
LEMMA ExitRegsAre ==
  ASSUME NEW frees, NEW n \in Nat, NEW R, R = BirthRegs(frees) \cup CarrierRegs(frees), R \subseteq 1 .. n
  PROVE  \E m \in Nat : ExitRegs(frees) \in [1 .. m -> R]
<1>1. IsFiniteSet(R)
  <2>1. IsFiniteSet(1 .. n) /\ R \in SUBSET (1 .. n)
    BY FS_Interval
  <2> QED BY <2>1, FS_Subset
<1>2. PICK m : m = Cardinality(R)
  OBVIOUS
<1>3. m \in Nat
  BY <1>1, <1>2, FS_CardinalityType
<1>4. PICK Up : Up = [r \in R |-> {q \in R : q >= r}]
  OBVIOUS
<1>5. \A x \in R : x \in Nat
  OBVIOUS
<1>6. Ranking(R, Up)
  BY <1>4, <1>5 DEF Ranking
<1>7. \A k \in 1 .. m : \E x \in R : Cardinality(Up[x]) = k
  BY <1>1, <1>2, <1>6, Ranked
<1>8. ASSUME NEW x \in R PROVE Cardinality(Up[x]) = Cardinality({q \in R : q > x}) + 1
  <2>1. PICK Above : Above = {q \in R : q > x}
    OBVIOUS
  <2>2. Up[x] = Above \cup {x} /\ x \notin Above /\ Above \in SUBSET R
    BY <1>4, <1>5, <2>1
  <2>3. IsFiniteSet(Above)
    BY <1>1, <2>2, FS_Subset
  <2>4. Cardinality(Above \cup {x}) = Cardinality(Above) + 1
    BY <2>2, <2>3, FS_AddElement
  <2> QED BY <2>1, <2>2, <2>4
<1>9. ASSUME NEW k \in 1 .. m
      PROVE  (CHOOSE r \in R : Cardinality({q \in R : q > r}) = k - 1) \in R
  <2>1. PICK x \in R : Cardinality(Up[x]) = k
    BY <1>7
  <2>2. Cardinality({q \in R : q > x}) \in Nat
    <3>1. {q \in R : q > x} \in SUBSET R
      OBVIOUS
    <3> QED BY <3>1, <1>1, FS_Subset, FS_CardinalityType
  <2>3. Cardinality({q \in R : q > x}) = k - 1
    BY <1>8, <2>1, <2>2
  <2> QED BY <2>3
<1>10. ExitRegs(frees) = [k \in 1 .. m |-> CHOOSE r \in R : Cardinality({q \in R : q > r}) = k - 1]
  BY <1>2 DEF ExitRegs
<1> QED BY <1>3, <1>9, <1>10

-----------------------------------------------------------------------------
(* The names a join or a loop header makes phis for, and their places. *)
OrderOK(P, N, L, q, k, D, order) ==
  /\ order = [x \in DOMAIN order |-> order[x]]
  /\ Cardinality(DOMAIN order) \in Nat
  /\ \A x : x \in DOMAIN order <=> Assigned(P, N, L, q, x) /\ Declared(D, k, x)
  /\ \A x \in DOMAIN order : order[x] \in 1 .. Cardinality(DOMAIN order)
  /\ \A x, y \in DOMAIN order : order[x] = order[y] => x = y

(* Reading a name. *)
LEMMA ReadIs ==
  ASSUME NEW D, NEW n \in Nat, NEW V, NEW s, Stack(s, n, D, V), NEW x, NEW d, Inmost(D, n, x, d)
  PROVE  ReadVar(s, x) = s[d][x] /\ s[d][x] \in V /\ HasVar(s, x) /\ Depth(s, x) = d
<1>1. Depth(s, x) = d
  BY DepthIs
<1>2. d \in 1 .. n /\ x \in D[d]
  BY DEF Inmost
<1>3. s[d] \in [D[d] -> V] /\ DOMAIN s = 1 .. n
  BY <1>2, StackDomain DEF Stack
<1> QED BY <1>1, <1>2, <1>3 DEF ReadVar, HasVar

LEMMA HasIs ==
  ASSUME NEW D, NEW n \in Nat, NEW V, NEW s, Stack(s, n, D, V), NEW x
  PROVE  HasVar(s, x) <=> Declared(D, n, x)
BY StackDomain DEF HasVar, Declared

LEMMA OrderIs ==
  ASSUME NEW P, NEW N, NEW L, Program(P, N, L), prog = P, NEW q \in 1 .. N, P[q].op \in Openers,
         NEW D \in [Nat -> SUBSET Names], NEW k \in Nat, NEW n \in Nat, Stack(env, k, D, 1 .. n)
  PROVE  OrderOK(P, N, L, q, k, D, PhiOrder(q))
<1>1. PICK S : S = {x \in Mutated(q) : HasVar(env, x)}
  OBVIOUS
<1>2. N \in Nat
  BY DEF Program
<1>3. ASSUME NEW x PROVE x \in S <=> Assigned(P, N, L, q, x) /\ Declared(D, k, x)
  BY <1>1, MutatedIs, HasIs
<1>4. \A x \in S : x \in Nat /\ ReadVar(env, x) \in Nat
  <2> SUFFICES ASSUME NEW x \in S PROVE x \in Nat /\ ReadVar(env, x) \in Nat
    OBVIOUS
  <2>1. Declared(D, k, x)
    BY <1>3
  <2>2. PICK d : Inmost(D, k, x, d)
    BY <2>1, InmostExists
  <2>3. ReadVar(env, x) \in 1 .. n
    BY <2>2, ReadIs
  <2>4. x \in Names
    BY <2>1 DEF Declared
  <2> QED BY <2>3, <2>4, ProgramAssumption
<1>5. IsFiniteSet(S)
  <2>1. PICK f : f = [x \in S |-> CHOOSE p \in 1 .. N : P[p].op = "assign" /\ P[p].x = x]
    OBVIOUS
  <2>2. \A x \in S : f[x] \in 1 .. N /\ P[f[x]].x = x
    <3> SUFFICES ASSUME NEW x \in S PROVE f[x] \in 1 .. N /\ P[f[x]].x = x
      OBVIOUS
    <3>1. \E p \in 1 .. N : P[p].op = "assign" /\ P[p].x = x
      BY <1>3 DEF Assigned
    <3>2. f[x] = CHOOSE p \in 1 .. N : P[p].op = "assign" /\ P[p].x = x
      BY <2>1
    <3> QED BY <3>1, <3>2, Zenon
  <2>3. f \in [S -> 1 .. N]
    BY <2>1, <2>2
  <2>4. f \in Injection(S, 1 .. N)
    BY <2>2, <2>3 DEF Injection, IsInjective
  <2>5. IsFiniteSet(1 .. N)
    BY <1>2, FS_Interval
  <2> QED BY <2>4, <2>5, FS_Injection
<1>6. PICK Up : Up = [x \in S |-> {y \in S : \/ ReadVar(env, y) < ReadVar(env, x)
                                             \/ ReadVar(env, y) = ReadVar(env, x) /\ y <= x}]
  OBVIOUS
<1>7. Ranking(S, Up)
  <2>0. \A x \in S : Up[x] = {y \in S : \/ ReadVar(env, y) < ReadVar(env, x)
                                        \/ ReadVar(env, y) = ReadVar(env, x) /\ y <= x}
    BY <1>6
  <2>1. Up \in [S -> SUBSET S]
    BY <1>6
  <2>2. \A x \in S : x \in Up[x]
    BY <1>4, <2>0
  <2>3. ASSUME NEW x \in S, NEW y \in S, y \notin Up[x]
        PROVE  Up[x] \subseteq Up[y]
    BY <1>4, <2>0, <2>3
  <2>4. ASSUME NEW x \in S, NEW y \in S, y \in Up[x], x \in Up[y] PROVE x = y
    BY <1>4, <2>0, <2>4
  <2> QED BY <2>1, <2>2, <2>3, <2>4 DEF Ranking
<1>8. PhiOrder(q) = [x \in S |-> Cardinality(Up[x])]
  BY <1>1, <1>6 DEF PhiOrder
<1>9. PICK order : order = PhiOrder(q)
  OBVIOUS
<1>10. DOMAIN order = S /\ order = [x \in DOMAIN order |-> order[x]]
       /\ \A x \in S : order[x] = Cardinality(Up[x])
  BY <1>8, <1>9
<1>11. /\ \A x \in S : Cardinality(Up[x]) \in 1 .. Cardinality(S)
       /\ \A x, y \in S : Cardinality(Up[x]) = Cardinality(Up[y]) => x = y
  BY <1>5, <1>7, Ranked
<1>12. Cardinality(S) \in Nat
  BY <1>5, FS_CardinalityType
<1>13. OrderOK(P, N, L, q, k, D, order)
  BY <1>3, <1>10, <1>11, <1>12 DEF OrderOK
<1> QED BY <1>9, <1>13

(* The binding of x at d is one that a phi replaces. *)
Moved(order, D, k, d, x) == x \in DOMAIN order /\ Inmost(D, k, x, d)

Rebinds(s, t, order, first, D, n) ==
  /\ \A d \in 1 .. n : \A x \in D[d] : Moved(order, D, n, d, x) => t[d][x] = first + order[x]
  /\ \A d \in 1 .. n : \A x \in D[d] : ~ Moved(order, D, n, d, x) => t[d][x] = s[d][x]

LEMMA StackRebound ==
  ASSUME NEW D, NEW n \in Nat, NEW V, NEW s, Stack(s, n, D, V), NEW order, NEW first,
         NEW W, V \subseteq W, \A x \in DOMAIN order : first + order[x] \in W,
         NEW t, t = Rebound(s, order, first)
  PROVE  Stack(t, n, D, W) /\ Rebinds(s, t, order, first, D, n)
<1>1. DOMAIN s = 1 .. n /\ \A d \in 1 .. n : DOMAIN s[d] = D[d]
  BY StackDomain
<1>2. t = [d \in 1 .. n |-> [x \in D[d] |->
            IF x \in DOMAIN order /\ d = Depth(s, x) THEN first + order[x] ELSE s[d][x]]]
  BY <1>1 DEF Rebound
<1>3. ASSUME NEW d \in 1 .. n, NEW x \in D[d]
      PROVE  d = Depth(s, x) <=> Inmost(D, n, x, d)
  <2>1. Declared(D, n, x)
    BY DEF Declared
  <2>2. PICK e : Inmost(D, n, x, e)
    BY <2>1, InmostExists
  <2>3. Depth(s, x) = e
    BY <2>2, DepthIs
  <2> QED BY <2>2, <2>3, InmostUnique
<1>4. ASSUME NEW d \in 1 .. n, NEW x \in D[d]
      PROVE  /\ Moved(order, D, n, d, x) => t[d][x] = first + order[x]
             /\ ~ Moved(order, D, n, d, x) => t[d][x] = s[d][x]
  BY <1>2, <1>3 DEF Moved
<1>5. \A d \in 1 .. n : s[d] \in [D[d] -> V]
  BY DEF Stack
<1>6. \A d \in 1 .. n : t[d] \in [D[d] -> W]
  <2> TAKE d \in 1 .. n
  <2>1. t[d] = [x \in D[d] |->
            IF x \in DOMAIN order /\ d = Depth(s, x) THEN first + order[x] ELSE s[d][x]]
    BY <1>2
  <2>2. ASSUME NEW x \in D[d] PROVE t[d][x] \in W
    <3>1. s[d][x] \in V
      BY <1>5
    <3>2. CASE Moved(order, D, n, d, x)
      BY <3>2, <1>4 DEF Moved
    <3>3. CASE ~ Moved(order, D, n, d, x)
      BY <3>1, <3>3, <1>4
    <3> QED BY <3>2, <3>3
  <2> QED BY <2>1, <2>2
<1>7. DOMAIN t = 1 .. n /\ t = [d \in DOMAIN t |-> t[d]]
  BY <1>2
<1>8. Stack(t, n, D, W)
  BY <1>6, <1>7, StackGiven
<1> QED BY <1>4, <1>8 DEF Rebinds

-----------------------------------------------------------------------------
(* Sound code over n registers: A[r] are the sites whose tables register r may   *)
(* hold, 0 if it may be null, and H[b][i] registers that are defined, and whose   *)
(* tables are live, before the i-th instruction of block b.                   *)

Instrs == [op : {"new", "null", "move", "free", "use"}, reg : Nat, arg : Nat]
IsBlock(b) ==
  /\ b = [phis |-> b.phis, code |-> b.code, exit |-> b.exit]
  /\ b.code \in Seq(Instrs) /\ b.exit \in Seq(Nat)

HEnd(bs, H, b) == H[b][Len(bs[b].code) + 1]

(* What a program has to be for more to hold: "apart" of one whose drops only   *)
(* free what no other name can reach, "plain" of one where only drops free.   *)
Plain(F) == \A e \in DOMAIN F : F[e] = {}
Manner(P, F) == {m \in {"apart", "plain"} : (m = "apart" => OutsideIn(P)) /\ (m = "plain" => Plain(F))}

LEMMA MannerIs ==
  ASSUME NEW P, NEW F
  PROVE  /\ "apart" \in Manner(P, F) <=> OutsideIn(P)
         /\ "plain" \in Manner(P, F) <=> Plain(F)
BY DEF Manner

(* An instruction between the sets U and W, in a program of the manner G.      *)
InstrOK(t, U, W, A, n, G) ==
  /\ t \in Instrs
  /\ t.op \in {"new", "null", "move"} => t.reg \in 1 .. n /\ W \subseteq U \cup {t.reg}
  /\ t.op \in {"free", "use"} => W \subseteq U
  /\ t.op = "new" => t.arg # NullRoot /\ t.arg \in A[t.reg]
  /\ t.op = "null" => NullRoot \in A[t.reg]
  /\ t.op = "move" => t.arg \in U /\ A[t.arg] \subseteq A[t.reg]
  /\ t.op = "use" => t.arg \in U /\ NullRoot \notin A[t.arg]
  /\ t.op = "free" => t.arg \in 1 .. n
  /\ t.op = "free" => ("apart" \in G => \A r \in W : A[r] \cap A[t.arg] \subseteq {NullRoot})
  /\ t.op = "free" => ("plain" \in G => t.arg \in U)

(* A register that some constructor fills. *)
Made(bs, r) ==
  \E b \in 1 .. Len(bs) : \E i \in 1 .. Len(bs[b].code) :
    bs[b].code[i].op = "new" /\ bs[b].code[i].reg = r

FreeKnown(bs, H, b, i) ==
  LET t == bs[b].code[i]
  IN t.op = "free" => (\E j \in 1 .. i : t.arg \in H[b][j]) \/ Made(bs, t.arg)

InstrsOK(bs, b, A, H, n, G) ==
  /\ \A i \in 1 .. Len(bs[b].code) : InstrOK(bs[b].code[i], H[b][i], H[b][i + 1], A, n, G)
  /\ \A i \in 1 .. Len(bs[b].code) : FreeKnown(bs, H, b, i)

PhiRegs(bs, b) == {bs[b].phis[x].reg : x \in DOMAIN bs[b].phis}

(* The arguments of a phi come from blocks that are complete. *)
PhiOK(bs, phi, n) ==
  /\ phi.reg \in 1 .. n /\ phi.args \in Seq(Nat \X Nat)
  /\ \A a \in ToSet(phi.args) : a[1] \in 1 .. Len(bs) /\ bs[a[1]].exit # <<>>
PhisOK(bs, b, n) == \A x \in DOMAIN bs[b].phis : PhiOK(bs, bs[b].phis[x], n)

(* A phi of a block that is entered from b, where U is defined. *)
TakesOK(phi, b, U, A) ==
  /\ \E a \in ToSet(phi.args) : a[1] = b
  /\ \A a \in ToSet(phi.args) : a[1] = b => a[2] \in U /\ A[a[2]] \subseteq A[phi.reg]
EdgeOK(bs, b, c, A, H) ==
  /\ H[c][1] \subseteq HEnd(bs, H, b) \cup PhiRegs(bs, c)
  /\ \A x \in DOMAIN bs[c].phis : TakesOK(bs[c].phis[x], b, HEnd(bs, H, b), A)
ExitOK(bs, b, A, H) == \A c \in ToSet(bs[b].exit) : c \in 1 .. Len(bs) /\ EdgeOK(bs, b, c, A, H)

BlocksOK(bs) == (\E T : bs \in Seq(T)) /\ \A b \in 1 .. Len(bs) : IsBlock(bs[b])
KnownOK(bs, H, n) ==
  /\ H \in [Nat -> [Nat -> SUBSET Nat]] /\ H[1][1] = {}
  /\ \A b \in 1 .. Len(bs) : \A i \in 1 .. Len(bs[b].code) + 1 : H[b][i] \subseteq 1 .. n

CodeOK(bs, A, H, n, G) ==
  /\ n \in Nat /\ A \in [Nat -> SUBSET Nat] /\ BlocksOK(bs) /\ KnownOK(bs, H, n)
  /\ \A b \in 1 .. Len(bs) : InstrsOK(bs, b, A, H, n, G)
  /\ \A b \in 1 .. Len(bs) : PhisOK(bs, b, n)
  /\ \A b \in 1 .. Len(bs) : ExitOK(bs, b, A, H)

(* Registers handed out keep their aliases. *)
Extends(A, B, n) == \A r \in 1 .. n : B[r] = A[r]

LEMMA InstrKeeps ==
  ASSUME NEW n \in Nat, NEW m \in Nat, n <= m, NEW A, NEW B, Extends(A, B, n), NEW G,
         NEW t, NEW U, NEW W, U \subseteq 1 .. n, W \subseteq 1 .. n, InstrOK(t, U, W, A, n, G)
  PROVE  InstrOK(t, U, W, B, m, G)
<1>1. \A r \in 1 .. n : B[r] = A[r] /\ r \in 1 .. m
  BY DEF Extends
<1> QED BY <1>1 DEF InstrOK

LEMMA TakesKeeps ==
  ASSUME NEW n, NEW A, NEW B, Extends(A, B, n), NEW phi, phi.reg \in 1 .. n, NEW b,
         NEW U, NEW V, U \subseteq V, U \subseteq 1 .. n, TakesOK(phi, b, U, A)
  PROVE  TakesOK(phi, b, V, B)
BY DEF TakesOK, Extends

(* Instructions appended to a block. *)
Emits(bs, cs, H, K, here) ==
  /\ Len(cs) = Len(bs)
  /\ \A b \in 1 .. Len(bs) : b # here => cs[b] = bs[b] /\ K[b] = H[b]
  /\ cs[here].exit = bs[here].exit

LEMMA ConcatIs ==
  ASSUME NEW S, NEW s \in Seq(S), NEW t \in Seq(S), NEW n \in Nat, n = Len(s)
  PROVE  /\ s \o t \in Seq(S) /\ Len(s \o t) = n + Len(t)
         /\ \A i \in 1 .. n : (s \o t)[i] = s[i]
         /\ \A j \in 1 .. Len(t) : (s \o t)[n + j] = t[j]
OBVIOUS

CodeAdded(bs, here, instrs) == [bs EXCEPT ![here].code = bs[here].code \o instrs]

AddsCode(bs, cs, here, instrs) ==
  /\ BlocksOK(cs) /\ Len(cs) = Len(bs) /\ Len(bs) \in Nat
  /\ \A b \in 1 .. Len(bs) : b # here => cs[b] = bs[b]
  /\ \A b \in 1 .. Len(bs) : cs[b].exit = bs[b].exit /\ cs[b].phis = bs[b].phis
  /\ cs[here].code = bs[here].code \o instrs

LEMMA CodeAddedIs ==
  ASSUME NEW bs, BlocksOK(bs), NEW here \in 1 .. Len(bs), NEW instrs \in Seq(Instrs),
         NEW cs, cs = CodeAdded(bs, here, instrs)
  PROVE  AddsCode(bs, cs, here, instrs)
<1>1. PICK T : bs \in Seq(T)
  BY DEF BlocksOK
<1>2. PICK v : v = [bs[here] EXCEPT !.code = bs[here].code \o instrs]
  OBVIOUS
<1>3. cs = [bs EXCEPT ![here] = v]
  BY <1>2 DEF CodeAdded
<1>4. PICK l : l = Len(bs)
  OBVIOUS
<1>5. bs \in Seq(T \cup {v}) /\ l \in Nat /\ here \in 1 .. l
  BY <1>1, <1>4
<1>6. cs \in Seq(T \cup {v}) /\ Len(cs) = l /\ cs[here] = v /\ \A k \in 1 .. l : k # here => cs[k] = bs[k]
  BY <1>3, <1>4, <1>5, ChangeOf
<1>7. IsBlock(bs[here])
  BY DEF BlocksOK
<1>8. v.phis = bs[here].phis /\ v.exit = bs[here].exit /\ v.code = bs[here].code \o instrs
      /\ v = [phis |-> v.phis, code |-> v.code, exit |-> v.exit]
  BY <1>2, <1>7 DEF IsBlock
<1>9. bs[here].code \o instrs \in Seq(Instrs)
  BY <1>7, ConcatIs DEF IsBlock
<1>10. IsBlock(v)
  BY <1>7, <1>8, <1>9 DEF IsBlock
<1>11. \A b \in 1 .. l : IsBlock(cs[b])
  BY <1>4, <1>6, <1>10 DEF BlocksOK
<1>12. \A b \in 1 .. l : cs[b].exit = bs[b].exit /\ cs[b].phis = bs[b].phis
  BY <1>6, <1>8
<1> QED BY <1>4, <1>5, <1>6, <1>8, <1>11, <1>12 DEF BlocksOK, AddsCode

(* The sets after instructions were appended to block here, before which U is known. *)
KnownMore(H, here, len, W) ==
  [H EXCEPT ![here] = [j \in Nat |-> IF j <= len + 1 THEN H[here][j] ELSE W[j - len]]]

AddsKnown(H, K, here, len, W) ==
  /\ K \in [Nat -> [Nat -> SUBSET Nat]]
  /\ \A b \in Nat : b # here => K[b] = H[b]
  /\ \A j \in 1 .. len + 1 : K[here][j] = H[here][j]
  /\ \A j \in Nat : j >= 1 => K[here][len + j] = W[j]

LEMMA KnownMoreIs ==
  ASSUME NEW H \in [Nat -> [Nat -> SUBSET Nat]], NEW here \in Nat, NEW len \in Nat,
         NEW W \in [Nat -> SUBSET Nat], W[1] = H[here][len + 1], NEW K, K = KnownMore(H, here, len, W)
  PROVE  AddsKnown(H, K, here, len, W)
<1>1. PICK f : f = [j \in Nat |-> IF j <= len + 1 THEN H[here][j] ELSE W[j - len]]
  OBVIOUS
<1>2. K = [H EXCEPT ![here] = f]
  BY <1>1 DEF KnownMore
<1>3. \A j \in Nat : ~ (j <= len + 1) => j - len \in Nat
  OBVIOUS
<1>4. f \in [Nat -> SUBSET Nat]
  BY <1>1, <1>3
<1>5. K \in [Nat -> [Nat -> SUBSET Nat]] /\ K[here] = f /\ \A b \in Nat : b # here => K[b] = H[b]
  BY <1>2, <1>4
<1>6. \A j \in 1 .. len + 1 : f[j] = H[here][j]
  BY <1>1
<1>7. ASSUME NEW j \in Nat, j >= 1 PROVE f[len + j] = W[j]
  <2>1. CASE j = 1
    BY <2>1, <1>1
  <2>2. CASE j > 1
    <3>1. len + j \in Nat /\ ~ (len + j <= len + 1) /\ (len + j) - len = j
      BY <2>2
    <3> QED BY <3>1, <1>1
  <2> QED BY <2>1, <2>2, <1>7
<1> QED BY <1>5, <1>6, <1>7 DEF AddsKnown

(* The instructions a token emits, from what is known before to W[1 + how many]. *)
Emitting(bs, A, H, n, G, here, B, m, instrs, W) ==
  /\ m \in Nat /\ n <= m /\ B \in [Nat -> SUBSET Nat] /\ Extends(A, B, n)
  /\ instrs \in Seq(Instrs) /\ W \in [Nat -> SUBSET Nat] /\ W[1] = HEnd(bs, H, here)
  /\ \A j \in 1 .. Len(instrs) + 1 : W[j] \subseteq 1 .. m
  /\ \A j \in 1 .. Len(instrs) : InstrOK(instrs[j], W[j], W[j + 1], B, m, G)
  /\ \A j \in 1 .. Len(instrs) : instrs[j].op = "free" => instrs[j].arg \in W[1] \/ Made(bs, instrs[j].arg)

LEMMA CodeEmits ==
  ASSUME NEW bs, NEW A, NEW H, NEW n, NEW G, CodeOK(bs, A, H, n, G),
         NEW here \in 1 .. Len(bs), bs[here].exit = <<>>,
         NEW B, NEW m, NEW instrs, NEW W, Emitting(bs, A, H, n, G, here, B, m, instrs, W),
         NEW cs, cs = CodeAdded(bs, here, instrs)
  PROVE  \E K : CodeOK(cs, B, K, m, G) /\ Emits(bs, cs, H, K, here) /\ HEnd(cs, K, here) = W[Len(instrs) + 1]
<1> SUFFICES ASSUME m \in Nat, n <= m, B \in [Nat -> SUBSET Nat], Extends(A, B, n),
                    instrs \in Seq(Instrs), W \in [Nat -> SUBSET Nat], W[1] = HEnd(bs, H, here),
                    \A j \in 1 .. Len(instrs) + 1 : W[j] \subseteq 1 .. m,
                    \A j \in 1 .. Len(instrs) : InstrOK(instrs[j], W[j], W[j + 1], B, m, G),
                    \A j \in 1 .. Len(instrs) :
                      instrs[j].op = "free" => instrs[j].arg \in W[1] \/ Made(bs, instrs[j].arg)
             PROVE  \E K : CodeOK(cs, B, K, m, G) /\ Emits(bs, cs, H, K, here)
                            /\ HEnd(cs, K, here) = W[Len(instrs) + 1]
  BY DEF Emitting
<1>1. /\ n \in Nat /\ A \in [Nat -> SUBSET Nat] /\ BlocksOK(bs) /\ KnownOK(bs, H, n)
      /\ \A b \in 1 .. Len(bs) : InstrsOK(bs, b, A, H, n, G)
      /\ \A b \in 1 .. Len(bs) : PhisOK(bs, b, n)
      /\ \A b \in 1 .. Len(bs) : ExitOK(bs, b, A, H)
  BY DEF CodeOK
<1>2. PICK l, len, z : l = Len(bs) /\ len = Len(bs[here].code) /\ z = Len(instrs)
  OBVIOUS
<1>3. /\ BlocksOK(cs) /\ Len(cs) = l /\ l \in Nat
      /\ \A b \in 1 .. l : b # here => cs[b] = bs[b]
      /\ \A b \in 1 .. l : cs[b].exit = bs[b].exit /\ cs[b].phis = bs[b].phis
      /\ cs[here].code = bs[here].code \o instrs
  <2>0. BlocksOK(bs)
    BY <1>1
  <2>1. AddsCode(bs, cs, here, instrs)
    BY <2>0, CodeAddedIs
  <2> QED BY <1>2, <2>1 DEF AddsCode
<1>4. bs[here].code \in Seq(Instrs) /\ len \in Nat /\ z \in Nat /\ here \in 1 .. l /\ here \in Nat
  <2>1. IsBlock(bs[here])
    BY <1>1 DEF BlocksOK
  <2>2. bs[here].code \in Seq(Instrs)
    BY <2>1 DEF IsBlock
  <2> QED BY <2>2, <1>2, <1>3
<1>5. /\ Len(cs[here].code) = len + z
      /\ \A i \in 1 .. len : cs[here].code[i] = bs[here].code[i]
      /\ \A j \in 1 .. z : cs[here].code[len + j] = instrs[j]
  <2>1. PICK code : code = bs[here].code
    OBVIOUS
  <2>2. code \in Seq(Instrs) /\ instrs \in Seq(Instrs) /\ len \in Nat /\ len = Len(code) /\ z = Len(instrs)
    BY <2>1, <1>2, <1>4
  <2>3. /\ Len(code \o instrs) = len + z
        /\ \A i \in 1 .. len : (code \o instrs)[i] = code[i]
        /\ \A j \in 1 .. z : (code \o instrs)[len + j] = instrs[j]
    BY ONLY <2>2, ConcatIs
  <2>4. cs[here].code = code \o instrs
    BY <2>1, <1>3
  <2> QED BY ONLY <2>1, <2>3, <2>4
<1>6. PICK K : K = KnownMore(H, here, len, W)
  OBVIOUS
<1>7. H \in [Nat -> [Nat -> SUBSET Nat]] /\ H[1][1] = {}
      /\ \A b \in 1 .. l : \A i \in 1 .. Len(bs[b].code) + 1 : H[b][i] \subseteq 1 .. n
  BY <1>1, <1>2 DEF KnownOK
<1>8. W[1] = H[here][len + 1]
  BY <1>2 DEF HEnd
<1>9. /\ K \in [Nat -> [Nat -> SUBSET Nat]]
      /\ \A b \in Nat : b # here => K[b] = H[b]
      /\ \A j \in 1 .. len + 1 : K[here][j] = H[here][j]
      /\ \A j \in Nat : j >= 1 => K[here][len + j] = W[j]
  <2>1. H \in [Nat -> [Nat -> SUBSET Nat]]
    BY <1>7
  <2>2. here \in Nat /\ len \in Nat
    BY <1>4
  <2>3. AddsKnown(H, K, here, len, W)
    BY <2>1, <2>2, <1>6, <1>8, KnownMoreIs
  <2> QED BY <2>3 DEF AddsKnown
<1>10. \A b \in 1 .. l : b \in Nat /\ (b # here => K[b] = H[b]) /\ K[b][1] = H[b][1]
  <2> SUFFICES ASSUME NEW b \in 1 .. l
               PROVE  b \in Nat /\ (b # here => K[b] = H[b]) /\ K[b][1] = H[b][1]
    OBVIOUS
  <2>1. 1 \in 1 .. len + 1 /\ b \in Nat
    BY <1>3, <1>4
  <2>2. CASE b # here
    BY <2>1, <2>2, <1>9
  <2>3. CASE b = here
    BY <2>1, <2>3, <1>9
  <2> QED BY <2>2, <2>3
<1>11. \A b \in 1 .. l : b # here => HEnd(cs, K, b) = HEnd(bs, H, b)
  BY <1>3, <1>10 DEF HEnd
<1>12. HEnd(cs, K, here) = W[z + 1]
  <2>1. z + 1 \in Nat /\ z + 1 >= 1 /\ len + (z + 1) = len + z + 1
    BY <1>4
  <2> QED BY <2>1, <1>5, <1>9 DEF HEnd
<1>13. KnownOK(cs, K, m)
  <2>1. K[1][1] = {}
    <3>1. 1 \in 1 .. l
      BY <1>3, <1>4
    <3> QED BY <3>1, <1>7, <1>10
  <2>2. \A b \in 1 .. l : \A i \in 1 .. Len(cs[b].code) + 1 : K[b][i] \subseteq 1 .. m
    <3> SUFFICES ASSUME NEW b \in 1 .. l, NEW i \in 1 .. Len(cs[b].code) + 1
                 PROVE  K[b][i] \subseteq 1 .. m
      OBVIOUS
    <3>1. ASSUME i \in 1 .. Len(bs[b].code) + 1, K[b][i] = H[b][i] PROVE K[b][i] \subseteq 1 .. m
      BY <3>1, <1>1, <1>7
    <3>2. CASE b # here
      BY <3>1, <3>2, <1>3, <1>10
    <3>3. CASE b = here /\ i \in 1 .. len + 1
      BY <3>1, <3>3, <1>2, <1>9
    <3>4. CASE b = here /\ i \notin 1 .. len + 1
      <4>1. i - len \in 1 .. z + 1 /\ i - len \in Nat /\ i - len >= 1 /\ len + (i - len) = i
        BY <3>4, <1>4, <1>5
      <4>2. K[b][i] = W[i - len]
        BY <3>4, <4>1, <1>9
      <4> QED BY <4>1, <4>2, <1>2
    <3> QED BY <3>2, <3>3, <3>4
  <2> QED BY <2>1, <2>2, <1>3, <1>9 DEF KnownOK
<1>14. ASSUME NEW r, Made(bs, r) PROVE Made(cs, r)
  <2>1. PICK b \in 1 .. l : \E i \in 1 .. Len(bs[b].code) :
           bs[b].code[i].op = "new" /\ bs[b].code[i].reg = r
    BY <1>2, <1>14 DEF Made
  <2>2. PICK i \in 1 .. Len(bs[b].code) : bs[b].code[i].op = "new" /\ bs[b].code[i].reg = r
    BY <2>1
  <2>3. i \in 1 .. Len(cs[b].code) /\ cs[b].code[i] = bs[b].code[i]
    <3>1. CASE b # here
      BY <3>1, <1>3
    <3>2. CASE b = here
      BY <3>2, <1>2, <1>4, <1>5
    <3> QED BY <3>1, <3>2
  <2> QED BY <2>2, <2>3, <1>3 DEF Made
<1>15. \A b \in 1 .. l : InstrsOK(cs, b, B, K, m, G)
  <2> SUFFICES ASSUME NEW b \in 1 .. l, NEW i \in 1 .. Len(cs[b].code)
               PROVE  InstrOK(cs[b].code[i], K[b][i], K[b][i + 1], B, m, G) /\ FreeKnown(cs, K, b, i)
    BY DEF InstrsOK
  <2>1. ASSUME i \in 1 .. Len(bs[b].code), cs[b].code[i] = bs[b].code[i],
               \A j \in 1 .. i + 1 : K[b][j] = H[b][j]
        PROVE  InstrOK(cs[b].code[i], K[b][i], K[b][i + 1], B, m, G) /\ FreeKnown(cs, K, b, i)
    <3>1. InstrOK(bs[b].code[i], H[b][i], H[b][i + 1], A, n, G) /\ FreeKnown(bs, H, b, i)
      BY <2>1, <1>1, <1>2 DEF InstrsOK
    <3>2. K[b][i] = H[b][i] /\ K[b][i + 1] = H[b][i + 1]
      <4>1. i \in 1 .. i + 1 /\ i + 1 \in 1 .. i + 1
        BY <2>1
      <4> QED BY <4>1, <2>1
    <3>3. H[b][i] \subseteq 1 .. n /\ H[b][i + 1] \subseteq 1 .. n
      <4>1. i \in 1 .. Len(bs[b].code) + 1 /\ i + 1 \in 1 .. Len(bs[b].code) + 1
        BY <2>1
      <4> QED BY <4>1, <1>7
    <3>4. InstrOK(cs[b].code[i], K[b][i], K[b][i + 1], B, m, G)
      BY <3>1, <3>2, <3>3, <2>1, <1>1, InstrKeeps
    <3>5. \A j \in 1 .. i : K[b][j] = H[b][j]
      <4>1. \A j \in 1 .. i : j \in 1 .. i + 1
        OBVIOUS
      <4> QED BY <4>1, <2>1
    <3>6. FreeKnown(cs, K, b, i)
      BY <3>1, <3>5, <2>1, <1>14 DEF FreeKnown
    <3> QED BY <3>4, <3>6
  <2>2. CASE b # here
    BY <2>1, <2>2, <1>3, <1>10
  <2>3. CASE b = here /\ i \in 1 .. len
    <3>1. \A j \in 1 .. i + 1 : j \in 1 .. len + 1
      BY <2>3, <1>4
    <3> QED BY <3>1, <2>1, <2>3, <1>2, <1>5, <1>9
  <2>4. CASE b = here /\ i \notin 1 .. len
    <3>1. PICK j : j = i - len
      OBVIOUS
    <3>2. j \in 1 .. z /\ j \in Nat /\ j >= 1 /\ j + 1 \in Nat /\ j + 1 >= 1
          /\ len + j = i /\ len + (j + 1) = i + 1
      <4>1. len \in Nat /\ z \in Nat /\ i \in 1 .. len + z /\ i \notin 1 .. len
        BY <2>4, <1>4, <1>5
      <4> QED BY ONLY <3>1, <4>1
    <3>3. cs[b].code[i] = instrs[j]
      BY <3>2, <2>4, <1>5
    <3>4. K[b][i] = W[j] /\ K[b][i + 1] = W[j + 1]
      BY <3>2, <2>4, <1>9
    <3>5. InstrOK(cs[b].code[i], K[b][i], K[b][i + 1], B, m, G)
      BY <3>2, <3>3, <3>4, <1>2
    <3>6. K[b][len + 1] = W[1] /\ len + 1 \in 1 .. i
      <4>1. K[here][len + 1] = W[1]
        <5>1. len + 1 \in 1 .. len + 1
          BY <1>4
        <5> QED BY <5>1, <1>8, <1>9
      <4> QED BY <4>1, <3>2, <2>4, <1>4
    <3>7. FreeKnown(cs, K, b, i)
      BY <3>2, <3>3, <3>6, <1>2, <1>14 DEF FreeKnown
    <3> QED BY <3>5, <3>7
  <2> QED BY <2>2, <2>3, <2>4
<1>16. \A b \in 1 .. l : PhisOK(cs, b, m)
  <2> SUFFICES ASSUME NEW b \in 1 .. l, NEW x \in DOMAIN cs[b].phis
               PROVE  PhiOK(cs, cs[b].phis[x], m)
    BY DEF PhisOK
  <2>1. PICK phi : phi = bs[b].phis[x]
    OBVIOUS
  <2>2. cs[b].phis[x] = phi /\ PhiOK(bs, phi, n)
    BY <2>1, <1>1, <1>2, <1>3 DEF PhisOK
  <2>3. PhiOK(cs, phi, m)
    BY <2>2, <1>1, <1>2, <1>3 DEF PhiOK
  <2> QED BY <2>2, <2>3
<1>17. \A b \in 1 .. l : ExitOK(cs, b, B, K)
  <2> SUFFICES ASSUME NEW b \in 1 .. l, NEW c \in ToSet(cs[b].exit)
               PROVE  c \in 1 .. l /\ EdgeOK(cs, b, c, B, K)
    BY <1>3 DEF ExitOK
  <2>1. c \in ToSet(bs[b].exit)
    BY <1>3
  <2>2. b # here
    <3> SUFFICES ASSUME b = here PROVE FALSE
      OBVIOUS
    <3> QED BY <2>1 DEF ToSet
  <2>3. c \in 1 .. l /\ EdgeOK(bs, b, c, A, H)
    BY <2>1, <1>1, <1>2 DEF ExitOK
  <2>4. HEnd(cs, K, b) = HEnd(bs, H, b) /\ K[c][1] = H[c][1] /\ cs[c].phis = bs[c].phis
    BY <2>2, <2>3, <1>3, <1>10, <1>11
  <2>5. PhiRegs(cs, c) = PhiRegs(bs, c)
    BY <2>4 DEF PhiRegs
  <2>6. HEnd(bs, H, b) \subseteq 1 .. n
    <3>1. Len(bs[b].code) + 1 \in 1 .. Len(bs[b].code) + 1
      <4>1. IsBlock(bs[b])
        BY <1>1, <1>2 DEF BlocksOK
      <4> QED BY <4>1 DEF IsBlock
    <3> QED BY <3>1, <1>7 DEF HEnd
  <2>7. \A x \in DOMAIN cs[c].phis : TakesOK(cs[c].phis[x], b, HEnd(cs, K, b), B)
    <3> SUFFICES ASSUME NEW x \in DOMAIN cs[c].phis
                 PROVE  TakesOK(cs[c].phis[x], b, HEnd(cs, K, b), B)
      OBVIOUS
    <3>1. PICK phi, U : phi = bs[c].phis[x] /\ U = HEnd(bs, H, b)
      OBVIOUS
    <3>2. TakesOK(phi, b, U, A) /\ cs[c].phis[x] = phi /\ HEnd(cs, K, b) = U
      BY <3>1, <2>3, <2>4 DEF EdgeOK
    <3>3. phi.reg \in 1 .. n
      BY <3>1, <2>3, <2>4, <1>1, <1>2 DEF PhisOK, PhiOK
    <3> QED BY <3>1, <3>2, <3>3, <2>6, TakesKeeps
  <2> QED BY <2>3, <2>4, <2>5, <2>7 DEF EdgeOK
<1>18. CodeOK(cs, B, K, m, G)
  BY <1>3, <1>13, <1>15, <1>16, <1>17 DEF CodeOK
<1>19. Emits(bs, cs, H, K, here)
  BY <1>2, <1>3, <1>10 DEF Emits
<1> QED BY <1>2, <1>12, <1>18, <1>19

(* Block `here' is complete; block j, if there is one, gets its phis, and blocks  *)
(* are added.                                                               *)
Completes(bs, cs, H, K, here, j) ==
  /\ Len(bs) <= Len(cs)
  /\ \A b \in 1 .. Len(bs) : cs[b].code = bs[b].code
  /\ \A b \in 1 .. Len(bs) : b # here => cs[b].exit = bs[b].exit
  /\ \A b \in 1 .. Len(bs) : b # j => cs[b].phis = bs[b].phis /\ K[b] = H[b]
  /\ cs[here].exit # <<>>

JoinOK(bs, cs, A, H, K, n, j) ==
  /\ j # 1 /\ bs[j].code = <<>> /\ K[j][1] \subseteq 1 .. n /\ PhisOK(cs, j, n)
  /\ bs[j].exit = <<>> \/ K[j][1] = H[j][1]
  /\ \A b \in 1 .. Len(bs) : j \in ToSet(bs[b].exit) => EdgeOK(cs, b, j, A, K)

AddedOK(cs, b, A, K, n) ==
  cs[b].code = <<>> /\ K[b][1] \subseteq 1 .. n /\ PhisOK(cs, b, n) /\ ExitOK(cs, b, A, K)

Finishing(bs, A, H, n, here, B, m, cs, K, j) ==
  /\ m \in Nat /\ n <= m /\ B \in [Nat -> SUBSET Nat] /\ Extends(A, B, n)
  /\ BlocksOK(cs) /\ K \in [Nat -> [Nat -> SUBSET Nat]]
  /\ j # here /\ Completes(bs, cs, H, K, here, j)
  /\ j \in 1 .. Len(bs) => JoinOK(bs, cs, B, H, K, m, j)
  /\ \A b \in Len(bs) + 1 .. Len(cs) : AddedOK(cs, b, B, K, m)
  /\ ExitOK(cs, here, B, K)

LEMMA CodeEnds ==
  ASSUME NEW bs, NEW A, NEW H, NEW n, NEW G, CodeOK(bs, A, H, n, G),
         NEW here \in 1 .. Len(bs), bs[here].exit = <<>>,
         NEW B, NEW m, NEW cs, NEW K, NEW j, Finishing(bs, A, H, n, here, B, m, cs, K, j)
  PROVE  CodeOK(cs, B, K, m, G)
<1> SUFFICES ASSUME m \in Nat, n <= m, B \in [Nat -> SUBSET Nat], Extends(A, B, n),
                    BlocksOK(cs), K \in [Nat -> [Nat -> SUBSET Nat]],
                    j # here, Completes(bs, cs, H, K, here, j),
                    j \in 1 .. Len(bs) => JoinOK(bs, cs, B, H, K, m, j),
                    \A b \in Len(bs) + 1 .. Len(cs) : AddedOK(cs, b, B, K, m),
                    ExitOK(cs, here, B, K)
             PROVE  CodeOK(cs, B, K, m, G)
  BY DEF Finishing
<1>1. /\ n \in Nat /\ A \in [Nat -> SUBSET Nat] /\ BlocksOK(bs) /\ KnownOK(bs, H, n)
      /\ \A b \in 1 .. Len(bs) : InstrsOK(bs, b, A, H, n, G)
      /\ \A b \in 1 .. Len(bs) : PhisOK(bs, b, n)
      /\ \A b \in 1 .. Len(bs) : ExitOK(bs, b, A, H)
  BY DEF CodeOK
<1>2. PICK l, z : l = Len(bs) /\ z = Len(cs)
  OBVIOUS
<1>3. l \in Nat /\ z \in Nat /\ l <= z /\ here \in 1 .. l
  BY <1>1, <1>2 DEF BlocksOK, Completes
<1>4. /\ \A b \in 1 .. l : cs[b].code = bs[b].code
      /\ \A b \in 1 .. l : b # here => cs[b].exit = bs[b].exit
      /\ \A b \in 1 .. l : b # j => cs[b].phis = bs[b].phis /\ K[b] = H[b]
      /\ cs[here].exit # <<>>
  BY <1>2 DEF Completes
<1>5. \A b \in 1 .. z : b \in 1 .. l \/ b \in l + 1 .. z
  BY <1>3
<1>6. \A b \in 1 .. l : b \in 1 .. z
  BY <1>3
<1>7. H[1][1] = {} /\ \A b \in 1 .. l : \A i \in 1 .. Len(bs[b].code) + 1 : H[b][i] \subseteq 1 .. n
  BY <1>1, <1>2 DEF KnownOK
<1>8. \A b \in 1 .. l : bs[b].code \in Seq(Instrs)
  BY <1>1, <1>2 DEF BlocksOK, IsBlock
<1>9. j \in 1 .. l =>
        /\ j # 1 /\ bs[j].code = <<>> /\ K[j][1] \subseteq 1 .. m /\ PhisOK(cs, j, m)
        /\ bs[j].exit = <<>> \/ K[j][1] = H[j][1]
        /\ \A b \in 1 .. l : j \in ToSet(bs[b].exit) => EdgeOK(cs, b, j, B, K)
  BY <1>2 DEF JoinOK
<1>10. \A b \in l + 1 .. z : cs[b].code = <<>> /\ K[b][1] \subseteq 1 .. m /\ PhisOK(cs, b, m) /\ ExitOK(cs, b, B, K)
  BY <1>2 DEF AddedOK
<1>11. ASSUME NEW U, U \subseteq 1 .. n PROVE U \subseteq 1 .. m
  BY <1>1, <1>11
<1>12. KnownOK(cs, K, m)
  <2>1. K[1][1] = {}
    <3>1. (1 \in 1 .. l /\ j # 1) \/ j \notin 1 .. l
      BY <1>3, <1>9
    <3>2. 1 \in 1 .. l /\ 1 # j
      BY <1>3, <1>9
    <3> QED BY <3>2, <1>4, <1>7
  <2>2. \A b \in 1 .. z : \A i \in 1 .. Len(cs[b].code) + 1 : K[b][i] \subseteq 1 .. m
    <3> SUFFICES ASSUME NEW b \in 1 .. z, NEW i \in 1 .. Len(cs[b].code) + 1
                 PROVE  K[b][i] \subseteq 1 .. m
      OBVIOUS
    <3>1. CASE b \in 1 .. l /\ b # j
      <4>1. i \in 1 .. Len(bs[b].code) + 1 /\ K[b][i] = H[b][i]
        BY <3>1, <1>4
      <4> QED BY <4>1, <3>1, <1>7, <1>11
    <3>2. CASE b \in 1 .. l /\ b = j
      <4>1. i = 1
        <5>1. Len(cs[b].code) = 0
          BY <3>2, <1>4, <1>9
        <5> QED BY <5>1
      <4> QED BY <4>1, <3>2, <1>9
    <3>3. CASE b \in l + 1 .. z
      <4>1. i = 1
        <5>1. Len(cs[b].code) = 0
          BY <3>3, <1>10
        <5> QED BY <5>1
      <4> QED BY <4>1, <3>3, <1>10
    <3> QED BY <3>1, <3>2, <3>3, <1>5
  <2> QED BY <2>1, <2>2, <1>2 DEF KnownOK
<1>13. ASSUME NEW r, Made(bs, r) PROVE Made(cs, r)
  <2>1. PICK b \in 1 .. l : \E i \in 1 .. Len(bs[b].code) :
           bs[b].code[i].op = "new" /\ bs[b].code[i].reg = r
    BY <1>2, <1>13 DEF Made
  <2>2. \E i \in 1 .. Len(cs[b].code) : cs[b].code[i].op = "new" /\ cs[b].code[i].reg = r
    BY <2>1, <1>4
  <2> QED BY <2>2, <1>2, <1>6 DEF Made
<1>14. \A b \in 1 .. z : InstrsOK(cs, b, B, K, m, G)
  <2> SUFFICES ASSUME NEW b \in 1 .. z, NEW i \in 1 .. Len(cs[b].code)
               PROVE  InstrOK(cs[b].code[i], K[b][i], K[b][i + 1], B, m, G) /\ FreeKnown(cs, K, b, i)
    BY DEF InstrsOK
  <2>1. b \in 1 .. l /\ b # j
    <3>1. Len(cs[b].code) # 0
      OBVIOUS
    <3>2. cs[b].code # <<>>
      BY <3>1
    <3> QED BY <3>2, <1>4, <1>5, <1>9, <1>10
  <2>2. i \in 1 .. Len(bs[b].code) /\ cs[b].code = bs[b].code /\ K[b] = H[b]
    BY <2>1, <1>4
  <2>3. InstrOK(bs[b].code[i], H[b][i], H[b][i + 1], A, n, G) /\ FreeKnown(bs, H, b, i)
    BY <2>1, <2>2, <1>1, <1>2 DEF InstrsOK
  <2>4. H[b][i] \subseteq 1 .. n /\ H[b][i + 1] \subseteq 1 .. n
    <3>1. Len(bs[b].code) \in Nat
      BY <2>1, <1>8
    <3>2. i \in 1 .. Len(bs[b].code) + 1 /\ i + 1 \in 1 .. Len(bs[b].code) + 1
      BY <2>2, <3>1
    <3> QED BY <3>2, <2>1, <1>7
  <2>5. InstrOK(cs[b].code[i], K[b][i], K[b][i + 1], B, m, G)
    BY <2>2, <2>3, <2>4, <1>1, InstrKeeps
  <2>6. FreeKnown(cs, K, b, i)
    BY <2>2, <2>3, <1>13 DEF FreeKnown
  <2> QED BY <2>5, <2>6
<1>15. \A b \in 1 .. l : bs[b].exit # <<>> => cs[b].exit # <<>>
  BY <1>4
<1>16. \A b \in 1 .. z : PhisOK(cs, b, m)
  <2> SUFFICES ASSUME NEW b \in 1 .. l, b # j PROVE PhisOK(cs, b, m)
    BY <1>5, <1>9, <1>10
  <2> SUFFICES ASSUME NEW x \in DOMAIN cs[b].phis PROVE PhiOK(cs, cs[b].phis[x], m)
    BY DEF PhisOK
  <2>1. PICK phi : phi = bs[b].phis[x]
    OBVIOUS
  <2>2. cs[b].phis[x] = phi /\ PhiOK(bs, phi, n)
    BY <2>1, <1>1, <1>2, <1>4 DEF PhisOK
  <2>3. PhiOK(cs, phi, m)
    <3>1. phi.reg \in 1 .. m /\ phi.args \in Seq(Nat \X Nat)
      BY <2>2, <1>1 DEF PhiOK
    <3>2. ASSUME NEW a \in ToSet(phi.args) PROVE a[1] \in 1 .. Len(cs) /\ cs[a[1]].exit # <<>>
      <4>1. a[1] \in 1 .. l /\ bs[a[1]].exit # <<>>
        BY <2>2, <1>2 DEF PhiOK
      <4> QED BY <4>1, <1>2, <1>6, <1>15
    <3> QED BY <3>1, <3>2 DEF PhiOK
  <2> QED BY <2>2, <2>3
<1>17. \A b \in 1 .. z : ExitOK(cs, b, B, K)
  <2> SUFFICES ASSUME NEW b \in 1 .. l, b # here PROVE ExitOK(cs, b, B, K)
    BY <1>5, <1>10
  <2> SUFFICES ASSUME NEW c \in ToSet(bs[b].exit) PROVE c \in 1 .. z /\ EdgeOK(cs, b, c, B, K)
    BY <1>2, <1>4 DEF ExitOK
  <2>3. c \in 1 .. l /\ EdgeOK(bs, b, c, A, H)
    BY <1>1, <1>2 DEF ExitOK
  <2>x. CASE c = j
    BY <2>x, <2>3, <1>6, <1>9
  <2>y. CASE c # j
    <3>1. HEnd(cs, K, b) = HEnd(bs, H, b)
      <4>1. CASE b # j
        BY <4>1, <1>4 DEF HEnd
      <4>2. CASE b = j
        <5>1. bs[b].exit # <<>>
          BY DEF ToSet
        <5>2. K[b][1] = H[b][1] /\ bs[b].code = <<>> /\ cs[b].code = <<>> /\ Len(<<>>) + 1 = 1
          BY <4>2, <5>1, <1>4, <1>9
        <5> QED BY <5>2 DEF HEnd
      <4> QED BY <4>1, <4>2
    <3>4. K[c] = H[c] /\ cs[c].phis = bs[c].phis
      BY <2>3, <2>y, <1>4
    <3>5. PhiRegs(cs, c) = PhiRegs(bs, c)
      BY <3>4 DEF PhiRegs
    <3>6. HEnd(bs, H, b) \subseteq 1 .. n
      <4>1. Len(bs[b].code) + 1 \in 1 .. Len(bs[b].code) + 1
        BY <1>8
      <4> QED BY <4>1, <1>7 DEF HEnd
    <3>7. \A x \in DOMAIN cs[c].phis : TakesOK(cs[c].phis[x], b, HEnd(cs, K, b), B)
      <4> SUFFICES ASSUME NEW x \in DOMAIN cs[c].phis
                   PROVE  TakesOK(cs[c].phis[x], b, HEnd(cs, K, b), B)
        OBVIOUS
      <4>1. PICK phi, U : phi = bs[c].phis[x] /\ U = HEnd(bs, H, b)
        OBVIOUS
      <4>2. TakesOK(phi, b, U, A) /\ cs[c].phis[x] = phi /\ HEnd(cs, K, b) = U
        BY <4>1, <2>3, <3>1, <3>4 DEF EdgeOK
      <4>3. phi.reg \in 1 .. n
        BY <4>1, <2>3, <3>4, <1>1, <1>2 DEF PhisOK, PhiOK
      <4> QED BY <4>1, <4>2, <4>3, <3>6, TakesKeeps
    <3> QED BY <2>3, <3>1, <3>4, <3>5, <3>7, <1>6 DEF EdgeOK
  <2> QED BY <2>x, <2>y
<1>18. CodeOK(cs, B, K, m, G)
  BY <1>2, <1>12, <1>14, <1>16, <1>17 DEF CodeOK
<1> QED BY <1>18

-----------------------------------------------------------------------------
(* The machine at instruction i of block b, with registers rs and heap hp.     *)

Tables == [site : Nat, live : BOOLEAN]

(* What a register holds is one of its aliases. *)
HoldsOK(r, v, A, hp) ==
  /\ v \in 0 .. Len(hp)
  /\ v = 0 => NullRoot \in A[r]
  /\ v # 0 => hp[v].site \in A[r]

LiveIn(U, rs, hp) == \A r \in U : rs[r] # 0 => hp[rs[r]].live

MachineOK(bs, A, H, n, G, b, i, rs, hp) ==
  /\ b \in 1 .. Len(bs) /\ i \in 1 .. Len(bs[b].code) + 1
  /\ hp \in Seq(Tables) /\ \A t \in 1 .. Len(hp) : hp[t].site # NullRoot
  /\ DOMAIN rs \subseteq 1 .. n
  /\ \A r \in DOMAIN rs : HoldsOK(r, rs[r], A, hp)
  /\ \A j \in 1 .. i : H[b][j] \subseteq DOMAIN rs
  /\ "apart" \in G => LiveIn(H[b][i], rs, hp)

(* The instruction the machine is at. *)
LEMMA InstrAt ==
  ASSUME NEW bs, NEW A, NEW H, NEW n, NEW G, CodeOK(bs, A, H, n, G),
         NEW b \in 1 .. Len(bs), NEW i \in 1 .. Len(bs[b].code)
  PROVE  /\ InstrOK(bs[b].code[i], H[b][i], H[b][i + 1], A, n, G) /\ FreeKnown(bs, H, b, i)
         /\ Len(bs[b].code) \in Nat /\ n \in Nat /\ A \in [Nat -> SUBSET Nat]
         /\ H[b][i] \subseteq 1 .. n /\ H[b][i + 1] \subseteq 1 .. n
<1>1. /\ n \in Nat /\ A \in [Nat -> SUBSET Nat] /\ BlocksOK(bs) /\ KnownOK(bs, H, n)
      /\ InstrsOK(bs, b, A, H, n, G)
  BY DEF CodeOK
<1>2. Len(bs[b].code) \in Nat
  BY <1>1 DEF BlocksOK, IsBlock
<1>3. i \in 1 .. Len(bs[b].code) + 1 /\ i + 1 \in 1 .. Len(bs[b].code) + 1
  BY <1>2
<1> QED BY <1>1, <1>2, <1>3 DEF KnownOK, InstrsOK

(* A register is defined; tables may be made. *)
LEMMA MachineDefines ==
  ASSUME NEW bs, NEW A, NEW H, NEW n, NEW G, CodeOK(bs, A, H, n, G),
         NEW b, NEW i, NEW rs, NEW hp, MachineOK(bs, A, H, n, G, b, i, rs, hp),
         i <= Len(bs[b].code), NEW t, t = bs[b].code[i], t.op \in {"new", "null", "move"},
         NEW hq \in Seq(Tables), Len(hp) <= Len(hq), \A k \in 1 .. Len(hp) : hq[k] = hp[k],
         \A k \in 1 .. Len(hq) : hq[k].site # NullRoot,
         NEW v, HoldsOK(t.reg, v, A, hq), "apart" \in G /\ v # 0 => hq[v].live
  PROVE  MachineOK(bs, A, H, n, G, b, i + 1, Bind(rs, t.reg, v), hq)
<1>1. /\ b \in 1 .. Len(bs) /\ i \in 1 .. Len(bs[b].code) + 1
      /\ hp \in Seq(Tables)
      /\ DOMAIN rs \subseteq 1 .. n
      /\ \A r \in DOMAIN rs : HoldsOK(r, rs[r], A, hp)
      /\ \A j \in 1 .. i : H[b][j] \subseteq DOMAIN rs
      /\ "apart" \in G => LiveIn(H[b][i], rs, hp)
  BY DEF MachineOK
<1>2. i \in 1 .. Len(bs[b].code)
  BY <1>1
<1>3. /\ InstrOK(t, H[b][i], H[b][i + 1], A, n, G)
      /\ Len(bs[b].code) \in Nat /\ n \in Nat
  BY <1>1, <1>2, InstrAt
<1>4. PICK q : q = t.reg
  OBVIOUS
<1>5. q \in 1 .. n /\ H[b][i + 1] \subseteq H[b][i] \cup {q}
  BY <1>3, <1>4 DEF InstrOK
<1>6. PICK ss : ss = Bind(rs, q, v)
  OBVIOUS
<1>7. DOMAIN ss = DOMAIN rs \cup {q} /\ ss[q] = v /\ \A r \in DOMAIN rs : r # q => ss[r] = rs[r]
  BY <1>6 DEF Bind
<1>8. ASSUME NEW r \in DOMAIN rs PROVE HoldsOK(r, rs[r], A, hq)
  <2>1. HoldsOK(r, rs[r], A, hp)
    BY <1>1
  <2>2. rs[r] # 0 => rs[r] \in 1 .. Len(hp)
    BY <2>1, <1>1 DEF HoldsOK
  <2> QED BY <2>1, <2>2, <1>1 DEF HoldsOK
<1>9. \A r \in DOMAIN ss : HoldsOK(r, ss[r], A, hq)
  BY <1>4, <1>7, <1>8
<1>10. \A j \in 1 .. i + 1 : H[b][j] \subseteq DOMAIN ss
  <2> SUFFICES ASSUME NEW j \in 1 .. i + 1 PROVE H[b][j] \subseteq DOMAIN ss
    OBVIOUS
  <2>1. CASE j = i + 1
    <3>1. i \in 1 .. i
      BY <1>2
    <3> QED BY <2>1, <3>1, <1>1, <1>5, <1>7
  <2>2. CASE j \in 1 .. i
    BY <2>2, <1>1, <1>7
  <2> QED BY <2>1, <2>2, <1>2
<1>11. "apart" \in G => LiveIn(H[b][i + 1], ss, hq)
  <2> SUFFICES ASSUME "apart" \in G, NEW r \in H[b][i + 1], ss[r] # 0 PROVE hq[ss[r]].live
    BY DEF LiveIn
  <2>1. CASE r = q
    BY <2>1, <1>7
  <2>2. CASE r # q
    <3>1. r \in H[b][i] /\ i \in 1 .. i
      BY <2>2, <1>2, <1>5
    <3>2. r \in DOMAIN rs
      BY <3>1, <1>1
    <3>3. ss[r] = rs[r] /\ HoldsOK(r, rs[r], A, hp) /\ hp[rs[r]].live
      BY <2>2, <3>1, <3>2, <1>1, <1>7 DEF LiveIn
    <3>4. rs[r] \in 1 .. Len(hp)
      BY <3>3, <1>1 DEF HoldsOK
    <3> QED BY <3>3, <3>4
  <2> QED BY <2>1, <2>2
<1>12. DOMAIN ss \subseteq 1 .. n
  BY <1>1, <1>5, <1>7
<1>13. i + 1 \in 1 .. Len(bs[b].code) + 1
  BY <1>2, <1>3
<1>14. MachineOK(bs, A, H, n, G, b, i + 1, ss, hq)
  BY <1>1, <1>9, <1>10, <1>11, <1>12, <1>13 DEF MachineOK
<1> QED BY <1>4, <1>6, <1>14

(* What a register read holds. *)
LEMMA ReadsOK ==
  ASSUME NEW bs, NEW A, NEW H, NEW n, NEW G, CodeOK(bs, A, H, n, G),
         NEW b, NEW i, NEW rs, NEW hp, MachineOK(bs, A, H, n, G, b, i, rs, hp),
         NEW q \in H[b][i]
  PROVE  q \in DOMAIN rs /\ HoldsOK(q, rs[q], A, hp) /\ ("apart" \in G /\ rs[q] # 0 => hp[rs[q]].live)
<1>1. /\ i \in 1 .. Len(bs[b].code) + 1
      /\ \A r \in DOMAIN rs : HoldsOK(r, rs[r], A, hp)
      /\ \A j \in 1 .. i : H[b][j] \subseteq DOMAIN rs
      /\ "apart" \in G => LiveIn(H[b][i], rs, hp)
  BY DEF MachineOK
<1>2. i \in 1 .. i
  BY <1>1
<1> QED BY <1>1, <1>2 DEF LiveIn

(* A free or a use. *)
LEMMA MachineReads ==
  ASSUME NEW bs, NEW A, NEW H, NEW n, NEW G, CodeOK(bs, A, H, n, G),
         NEW b, NEW i, NEW rs, NEW hp, MachineOK(bs, A, H, n, G, b, i, rs, hp),
         i <= Len(bs[b].code), NEW t, t = bs[b].code[i], t.op \in {"free", "use"},
         NEW hq \in Seq(Tables), Len(hq) = Len(hp),
         \A k \in 1 .. Len(hp) : hq[k].site = hp[k].site,
         \A k \in 1 .. Len(hp) :
            hq[k].live = hp[k].live \/ (t.op = "free" /\ t.arg \in DOMAIN rs /\ rs[t.arg] = k)
  PROVE  MachineOK(bs, A, H, n, G, b, i + 1, rs, hq)
<1>1. /\ b \in 1 .. Len(bs) /\ i \in 1 .. Len(bs[b].code) + 1
      /\ hp \in Seq(Tables) /\ \A k \in 1 .. Len(hp) : hp[k].site # NullRoot
      /\ DOMAIN rs \subseteq 1 .. n
      /\ \A r \in DOMAIN rs : HoldsOK(r, rs[r], A, hp)
      /\ \A j \in 1 .. i : H[b][j] \subseteq DOMAIN rs
      /\ "apart" \in G => LiveIn(H[b][i], rs, hp)
  BY DEF MachineOK
<1>2. i \in 1 .. Len(bs[b].code)
  BY <1>1
<1>3. /\ InstrOK(t, H[b][i], H[b][i + 1], A, n, G)
      /\ Len(bs[b].code) \in Nat
  BY <1>1, <1>2, InstrAt
<1>4. H[b][i + 1] \subseteq H[b][i] /\ i \in 1 .. i
  BY <1>2, <1>3 DEF InstrOK
<1>5. \A r \in DOMAIN rs : HoldsOK(r, rs[r], A, hq)
  <2> SUFFICES ASSUME NEW r \in DOMAIN rs PROVE HoldsOK(r, rs[r], A, hq)
    OBVIOUS
  <2>1. HoldsOK(r, rs[r], A, hp)
    BY <1>1
  <2>2. rs[r] # 0 => rs[r] \in 1 .. Len(hp)
    BY <2>1, <1>1 DEF HoldsOK
  <2> QED BY <2>1, <2>2 DEF HoldsOK
<1>6. \A j \in 1 .. i + 1 : H[b][j] \subseteq DOMAIN rs
  <2> SUFFICES ASSUME NEW j \in 1 .. i + 1 PROVE H[b][j] \subseteq DOMAIN rs
    OBVIOUS
  <2>1. CASE j = i + 1
    BY <2>1, <1>1, <1>4
  <2>2. CASE j \in 1 .. i
    BY <2>2, <1>1
  <2> QED BY <2>1, <2>2, <1>2
<1>7. "apart" \in G => LiveIn(H[b][i + 1], rs, hq)
  <2> SUFFICES ASSUME "apart" \in G, NEW r \in H[b][i + 1], rs[r] # 0 PROVE hq[rs[r]].live
    BY DEF LiveIn
  <2>1. r \in H[b][i] /\ r \in DOMAIN rs
    BY <1>1, <1>4
  <2>2. HoldsOK(r, rs[r], A, hp) /\ hp[rs[r]].live
    BY <2>1, <1>1 DEF LiveIn
  <2>3. rs[r] \in 1 .. Len(hp) /\ hp[rs[r]].site \in A[r] /\ hp[rs[r]].site # NullRoot
    BY <2>2, <1>1 DEF HoldsOK
  <2>4. ASSUME t.op = "free", t.arg \in DOMAIN rs, rs[t.arg] = rs[r] PROVE FALSE
    <3>1. hp[rs[r]].site \in A[t.arg]
      BY <2>3, <2>4, <1>1 DEF HoldsOK
    <3>2. A[r] \cap A[t.arg] \subseteq {NullRoot}
      BY <2>4, <1>3 DEF InstrOK
    <3> QED BY <2>3, <3>1, <3>2
  <2> QED BY <2>2, <2>3, <2>4
<1>8. i + 1 \in 1 .. Len(bs[b].code) + 1 /\ \A k \in 1 .. Len(hq) : hq[k].site # NullRoot
  <2>1. i + 1 \in 1 .. Len(bs[b].code) + 1
    BY ONLY <1>2, <1>3
  <2>2. Len(hq) = Len(hp) /\ \A k \in 1 .. Len(hp) : hq[k].site = hp[k].site
    OBVIOUS
  <2> QED BY ONLY <2>1, <2>2, <1>1
<1> QED BY <1>1, <1>5, <1>6, <1>7, <1>8 DEF MachineOK

(* Entering block c from block b: its phis take their arguments at once. *)
Entered(bs, b, c, rs, ss) ==
  /\ DOMAIN ss = DOMAIN rs \cup PhiRegs(bs, c)
  /\ \A r \in DOMAIN rs : r \notin PhiRegs(bs, c) => ss[r] = rs[r]
  /\ \A r \in PhiRegs(bs, c) : \E x \in DOMAIN bs[c].phis : \E a \in ToSet(bs[c].phis[x].args) :
       /\ bs[c].phis[x].reg = r /\ a[1] = b
       /\ ss[r] = IF a[2] \in DOMAIN rs THEN rs[a[2]] ELSE Undefined

LEMMA EnterIs ==
  ASSUME NEW c, NEW A, NEW H, EdgeOK(blocks, at, c, A, H), NEW ss, ss = EnterFrom(c)
  PROVE  Entered(blocks, at, c, regs, ss)
<1> DEFINE phis == blocks[c].phis
           rs == regs
           b == at
<1>1. phis = blocks[c].phis
  OBVIOUS
<1>2. rs = regs
  OBVIOUS
<1>3. b = at
  OBVIOUS
<1>4. PhiRegs(blocks, c) = {phis[x].reg : x \in DOMAIN phis}
  BY <1>1 DEF PhiRegs
<1>5. ss = [r \in DOMAIN rs \cup {phis[x].reg : x \in DOMAIN phis} |->
              IF {x \in DOMAIN phis : phis[x].reg = r} = {} THEN rs[r]
              ELSE Reg((CHOOSE a \in ToSet(phis[CHOOSE x \in {x \in DOMAIN phis : phis[x].reg = r} : TRUE].args) :
                          a[1] = b)[2])]
  BY DEF EnterFrom
<1> HIDE DEF phis, rs, b
<1>6. ASSUME NEW r \in DOMAIN rs, r \notin PhiRegs(blocks, c) PROVE ss[r] = rs[r]
  <2>1. {x \in DOMAIN phis : phis[x].reg = r} = {}
    BY <1>4, <1>6
  <2> QED BY <2>1, <1>5
<1>7. ASSUME NEW r \in PhiRegs(blocks, c)
      PROVE  \E x \in DOMAIN phis : \E a \in ToSet(phis[x].args) :
               /\ phis[x].reg = r /\ a[1] = b
               /\ ss[r] = IF a[2] \in DOMAIN rs THEN rs[a[2]] ELSE Undefined
  <2>1. PICK T : T = {x \in DOMAIN phis : phis[x].reg = r}
    OBVIOUS
  <2>2. T # {}
    BY <1>4, <1>7, <2>1
  <2>3. PICK x : x = CHOOSE y \in T : TRUE
    OBVIOUS
  <2>4. x \in T
    BY <2>2, <2>3
  <2>5. x \in DOMAIN phis /\ phis[x].reg = r
    BY <2>1, <2>4
  <2>6. TakesOK(phis[x], b, HEnd(blocks, H, b), A)
    BY <2>5, <1>1, <1>3 DEF EdgeOK
  <2>7. PICK a : a = CHOOSE e \in ToSet(phis[x].args) : e[1] = b
    OBVIOUS
  <2>8. a \in ToSet(phis[x].args) /\ a[1] = b
    <3>1. \E e \in ToSet(phis[x].args) : e[1] = b
      BY <2>6 DEF TakesOK
    <3> QED BY <3>1, <2>7, Zenon
  <2>9. r \in {phis[y].reg : y \in DOMAIN phis}
    BY <1>4, <1>7
  <2>10. ss[r] = Reg(a[2])
    BY <2>1, <2>2, <2>3, <2>7, <2>9, <1>5
  <2>11. ss[r] = IF a[2] \in DOMAIN rs THEN rs[a[2]] ELSE Undefined
    BY <2>10, <1>2 DEF Reg
  <2> QED BY <2>5, <2>8, <2>11
<1>8. DOMAIN ss = DOMAIN rs \cup PhiRegs(blocks, c)
  BY <1>4, <1>5
<1> QED BY <1>1, <1>2, <1>3, <1>6, <1>7, <1>8 DEF Entered

LEMMA MachineEnters ==
  ASSUME NEW bs, NEW A, NEW H, NEW n, NEW G, CodeOK(bs, A, H, n, G),
         NEW b, NEW i, NEW rs, NEW hp, MachineOK(bs, A, H, n, G, b, i, rs, hp),
         i > Len(bs[b].code), NEW c \in ToSet(bs[b].exit), NEW ss, Entered(bs, b, c, rs, ss)
  PROVE  MachineOK(bs, A, H, n, G, c, 1, ss, hp)
<1>1. /\ n \in Nat /\ A \in [Nat -> SUBSET Nat] /\ BlocksOK(bs) /\ KnownOK(bs, H, n)
      /\ \A d \in 1 .. Len(bs) : PhisOK(bs, d, n)
      /\ \A d \in 1 .. Len(bs) : ExitOK(bs, d, A, H)
  BY DEF CodeOK
<1>2. /\ b \in 1 .. Len(bs) /\ i \in 1 .. Len(bs[b].code) + 1
      /\ hp \in Seq(Tables) /\ \A t \in 1 .. Len(hp) : hp[t].site # NullRoot
      /\ DOMAIN rs \subseteq 1 .. n
      /\ \A r \in DOMAIN rs : HoldsOK(r, rs[r], A, hp)
      /\ \A j \in 1 .. i : H[b][j] \subseteq DOMAIN rs
      /\ "apart" \in G => LiveIn(H[b][i], rs, hp)
  BY DEF MachineOK
<1>3. c \in 1 .. Len(bs) /\ EdgeOK(bs, b, c, A, H)
  BY <1>1, <1>2 DEF ExitOK
<1>4. bs[b].code \in Seq(Instrs) /\ bs[c].code \in Seq(Instrs)
  BY <1>1, <1>2, <1>3 DEF BlocksOK, IsBlock
<1>5. i = Len(bs[b].code) + 1 /\ i \in 1 .. i
  BY <1>2, <1>4
<1>6. PICK U : U = H[b][i]
  OBVIOUS
<1>7. HEnd(bs, H, b) = U /\ U \subseteq DOMAIN rs /\ ("apart" \in G => LiveIn(U, rs, hp))
  BY <1>2, <1>5, <1>6 DEF HEnd
<1>8. H[c][1] \subseteq U \cup PhiRegs(bs, c)
  BY <1>3, <1>7 DEF EdgeOK
<1>9. /\ DOMAIN ss = DOMAIN rs \cup PhiRegs(bs, c)
      /\ \A r \in DOMAIN rs : r \notin PhiRegs(bs, c) => ss[r] = rs[r]
  BY DEF Entered
<1>10. ASSUME NEW r \in PhiRegs(bs, c)
       PROVE  r \in 1 .. n /\ \E q \in U : ss[r] = rs[q] /\ A[q] \subseteq A[r]
  <2>1. PICK x \in DOMAIN bs[c].phis : \E a \in ToSet(bs[c].phis[x].args) :
           /\ bs[c].phis[x].reg = r /\ a[1] = b
           /\ ss[r] = IF a[2] \in DOMAIN rs THEN rs[a[2]] ELSE Undefined
    BY DEF Entered
  <2>2. PICK a \in ToSet(bs[c].phis[x].args) :
           /\ bs[c].phis[x].reg = r /\ a[1] = b
           /\ ss[r] = IF a[2] \in DOMAIN rs THEN rs[a[2]] ELSE Undefined
    BY <2>1
  <2>3. TakesOK(bs[c].phis[x], b, U, A)
    BY <1>3, <1>7 DEF EdgeOK
  <2>4. a[2] \in U /\ A[a[2]] \subseteq A[r]
    BY <2>2, <2>3 DEF TakesOK
  <2>5. PhiOK(bs, bs[c].phis[x], n)
    BY <1>1, <1>3 DEF PhisOK
  <2>6. r \in 1 .. n
    BY <2>2, <2>5 DEF PhiOK
  <2> QED BY <2>2, <2>4, <2>6, <1>7
<1>11. \A r \in DOMAIN ss : HoldsOK(r, ss[r], A, hp)
  <2> SUFFICES ASSUME NEW r \in DOMAIN ss PROVE HoldsOK(r, ss[r], A, hp)
    OBVIOUS
  <2>1. CASE r \in PhiRegs(bs, c)
    <3>1. PICK q \in U : ss[r] = rs[q] /\ A[q] \subseteq A[r]
      BY <2>1, <1>10
    <3>2. HoldsOK(q, rs[q], A, hp)
      BY <1>2, <1>7
    <3> QED BY <3>1, <3>2 DEF HoldsOK
  <2>2. CASE r \notin PhiRegs(bs, c)
    BY <2>2, <1>2, <1>9
  <2> QED BY <2>1, <2>2
<1>12. H[c][1] \subseteq DOMAIN ss
  BY <1>7, <1>8, <1>9
<1>13. "apart" \in G => LiveIn(H[c][1], ss, hp)
  <2> SUFFICES ASSUME "apart" \in G, NEW r \in H[c][1], ss[r] # 0 PROVE hp[ss[r]].live
    BY DEF LiveIn
  <2>1. CASE r \in PhiRegs(bs, c)
    <3>1. PICK q \in U : ss[r] = rs[q]
      BY <2>1, <1>10
    <3> QED BY <3>1, <1>7 DEF LiveIn
  <2>2. CASE r \notin PhiRegs(bs, c)
    <3>1. r \in U /\ ss[r] = rs[r]
      BY <2>2, <1>7, <1>8, <1>9
    <3> QED BY <3>1, <1>7 DEF LiveIn
  <2> QED BY <2>1, <2>2
<1>14. DOMAIN ss \subseteq 1 .. n
  BY <1>2, <1>9, <1>10
<1>15. 1 \in 1 .. Len(bs[c].code) + 1 /\ \A j \in 1 .. 1 : j = 1
  BY <1>4
<1>16. \A j \in 1 .. 1 : H[c][j] \subseteq DOMAIN ss
  BY <1>12, <1>15
<1> QED BY <1>2, <1>3, <1>11, <1>13, <1>14, <1>15, <1>16 DEF MachineOK

(* The program runs sound code. *)
RunOK(A, H) ==
  /\ phase \in {"run", "halted"}
  /\ CodeOK(blocks, A, H, nregs, Manner(prog, doExitFrees))
  /\ MachineOK(blocks, A, H, nregs, Manner(prog, doExitFrees), at, ip, regs, heap)

LEMMA RunMoves ==
  ASSUME NEW A, NEW H, RunOK(A, H), UNCHANGED <<source, analysis, lowering>>, phase' \in {"run", "halted"},
         NEW b, NEW i, NEW rs, NEW hp, b = at', i = ip', rs = regs', hp = heap',
         MachineOK(blocks, A, H, nregs, Manner(prog, doExitFrees), b, i, rs, hp)
  PROVE  RunOK(A, H)'
<1>1. blocks' = blocks /\ nregs' = nregs /\ prog' = prog /\ doExitFrees' = doExitFrees
  BY DEF source, analysis, lowering
<1>2. Manner(prog, doExitFrees)' = Manner(prog, doExitFrees)
  BY <1>1
<1>3. MachineOK(blocks, A, H, nregs, Manner(prog, doExitFrees), at, ip, regs, heap)'
  BY <1>1, <1>2
<1>4. CodeOK(blocks, A, H, nregs, Manner(prog, doExitFrees))'
  BY <1>1, <1>2 DEF RunOK
<1> QED BY <1>3, <1>4 DEF RunOK

(* The instruction about to run. *)
LEMMA RunAt ==
  ASSUME NEW A, NEW H, RunOK(A, H), NEW op, Exec(op), NEW b, b = at, NEW i, i = ip
  PROVE  /\ b \in 1 .. Len(blocks) /\ i \in 1 .. Len(blocks[b].code) /\ Instr = blocks[b].code[i]
         /\ InstrOK(Instr, H[b][i], H[b][i + 1], A, nregs, Manner(prog, doExitFrees))
         /\ FreeKnown(blocks, H, b, i)
         /\ Instr \in Instrs /\ Instr.op = op
         /\ regs = regs /\ heap \in Seq(Tables) /\ DOMAIN regs \subseteq 1 .. nregs /\ nregs \in Nat
         /\ \A r \in DOMAIN regs : HoldsOK(r, regs[r], A, heap)
         /\ \A j \in 1 .. i : H[b][j] \subseteq DOMAIN regs
         /\ \A t \in 1 .. Len(heap) : heap[t].site # NullRoot
         /\ A \in [Nat -> SUBSET Nat]
<1>1. /\ b \in 1 .. Len(blocks) /\ i \in 1 .. Len(blocks[b].code) + 1
      /\ heap \in Seq(Tables) /\ DOMAIN regs \subseteq 1 .. nregs
      /\ \A r \in DOMAIN regs : HoldsOK(r, regs[r], A, heap)
      /\ \A j \in 1 .. i : H[b][j] \subseteq DOMAIN regs
      /\ \A t \in 1 .. Len(heap) : heap[t].site # NullRoot
  BY DEF RunOK, MachineOK
<1>2. i \in 1 .. Len(blocks[b].code) /\ Instr = blocks[b].code[i] /\ Instr.op = op
  BY <1>1 DEF Exec, HasInstr, Instr
<1>3. CodeOK(blocks, A, H, nregs, Manner(prog, doExitFrees))
  BY DEF RunOK
<1>4. /\ InstrOK(blocks[b].code[i], H[b][i], H[b][i + 1], A, nregs, Manner(prog, doExitFrees))
      /\ FreeKnown(blocks, H, b, i) /\ nregs \in Nat /\ A \in [Nat -> SUBSET Nat]
  BY <1>1, <1>2, <1>3, InstrAt
<1>5. Instr \in Instrs
  BY <1>2, <1>4 DEF InstrOK
<1> QED BY <1>1, <1>2, <1>4, <1>5

LEMMA RunDefines ==
  ASSUME NEW A, NEW H, RunOK(A, H), NEW op \in {"new", "null", "move"}, Exec(op),
         UNCHANGED <<source, analysis, lowering>>, Step,
         NEW hq, hq = heap', hq \in Seq(Tables), Len(heap) <= Len(hq),
         \A k \in 1 .. Len(heap) : hq[k] = heap[k],
         \A k \in 1 .. Len(hq) : hq[k].site # NullRoot,
         NEW v, regs' = Bind(regs, Instr.reg, v), HoldsOK(Instr.reg, v, A, hq),
         "apart" \in Manner(prog, doExitFrees) /\ v # 0 => hq[v].live
  PROVE  RunOK(A, H)'
<1>1. PICK b, i, rs, hp, t : b = at /\ i = ip /\ rs = regs /\ hp = heap /\ t = Instr
  OBVIOUS
<1>2. PICK G : G = Manner(prog, doExitFrees)
  OBVIOUS
<1>3. i \in 1 .. Len(blocks[b].code) /\ t = blocks[b].code[i] /\ t.op = op /\ b \in 1 .. Len(blocks)
  BY <1>1, RunAt
<1>4. CodeOK(blocks, A, H, nregs, G) /\ MachineOK(blocks, A, H, nregs, G, b, i, rs, hp)
  BY <1>1, <1>2 DEF RunOK
<1>5. i <= Len(blocks[b].code)
  BY <1>3
<1>6. MachineOK(blocks, A, H, nregs, G, b, i + 1, Bind(rs, t.reg, v), hq)
  BY <1>1, <1>2, <1>3, <1>4, <1>5, MachineDefines
<1>7. b = at' /\ i + 1 = ip' /\ Bind(rs, t.reg, v) = regs' /\ phase' \in {"run", "halted"}
  BY <1>1 DEF Step, RunOK
<1> QED BY <1>2, <1>6, <1>7, RunMoves

LEMMA RunReads ==
  ASSUME NEW A, NEW H, RunOK(A, H), NEW op \in {"free", "use"}, Exec(op),
         UNCHANGED <<source, analysis, lowering>>, Step, regs' = regs,
         NEW hq, hq = heap', hq \in Seq(Tables), Len(hq) = Len(heap),
         \A k \in 1 .. Len(heap) : hq[k].site = heap[k].site,
         \A k \in 1 .. Len(heap) :
            hq[k].live = heap[k].live \/ (op = "free" /\ Instr.arg \in DOMAIN regs /\ regs[Instr.arg] = k)
  PROVE  RunOK(A, H)'
<1>1. PICK b, i, rs, hp, t : b = at /\ i = ip /\ rs = regs /\ hp = heap /\ t = Instr
  OBVIOUS
<1>2. PICK G : G = Manner(prog, doExitFrees)
  OBVIOUS
<1>3. i \in 1 .. Len(blocks[b].code) /\ t = blocks[b].code[i] /\ t.op = op /\ b \in 1 .. Len(blocks)
  BY <1>1, RunAt
<1>4. CodeOK(blocks, A, H, nregs, G) /\ MachineOK(blocks, A, H, nregs, G, b, i, rs, hp)
  BY <1>1, <1>2 DEF RunOK
<1>5. i <= Len(blocks[b].code)
  BY <1>3
<1>6. MachineOK(blocks, A, H, nregs, G, b, i + 1, rs, hq)
  BY <1>1, <1>2, <1>3, <1>4, <1>5, MachineReads
<1>7. b = at' /\ i + 1 = ip' /\ rs = regs' /\ phase' \in {"run", "halted"}
  BY <1>1 DEF Step, RunOK
<1> QED BY <1>2, <1>6, <1>7, RunMoves

LEMMA RunGoes ==
  ASSUME NEW A, NEW H, RunOK(A, H), UNCHANGED <<source, analysis, lowering>>, AtExit,
         NEW c \in ToSet(blocks[at].exit), Goto(c)
  PROVE  RunOK(A, H)'
<1>1. PICK b, i, rs, hp : b = at /\ i = ip /\ rs = regs /\ hp = heap
  OBVIOUS
<1>2. PICK G, ss : G = Manner(prog, doExitFrees) /\ ss = EnterFrom(c)
  OBVIOUS
<1>4. CodeOK(blocks, A, H, nregs, G) /\ MachineOK(blocks, A, H, nregs, G, b, i, rs, hp)
  BY <1>1, <1>2 DEF RunOK
<1>5. i > Len(blocks[b].code) /\ c \in ToSet(blocks[b].exit)
  BY <1>1 DEF AtExit
<1>6. EdgeOK(blocks, at, c, A, H)
  <2>1. b \in 1 .. Len(blocks)
    BY <1>4 DEF MachineOK
  <2> QED BY <2>1, <1>1, <1>4 DEF CodeOK, ExitOK
<1>7. Entered(blocks, b, c, rs, ss)
  BY <1>1, <1>2, <1>6, EnterIs
<1>8. MachineOK(blocks, A, H, nregs, G, c, 1, ss, hp)
  BY <1>4, <1>5, <1>7, MachineEnters
<1>9. c = at' /\ 1 = ip' /\ ss = regs' /\ hp = heap' /\ phase' \in {"run", "halted"}
  BY <1>1, <1>2 DEF Goto, RunOK
<1> QED BY <1>2, <1>8, <1>9, RunMoves

LEMMA RunStep ==
  ASSUME NEW A, NEW H, RunOK(A, H), Run
  PROVE  RunOK(A, H)'
<1>1. UNCHANGED <<source, analysis, lowering>>
  BY DEF Run
<1>2. CASE ExecNew
  <2>1. PICK t, hp, hq, l : t = Instr /\ hp = heap /\ hq = heap' /\ l = Len(heap)
    OBVIOUS
  <2>2. Exec("new") /\ Step /\ hq = Append(hp, [site |-> t.arg, live |-> TRUE])
        /\ regs' = Bind(regs, Instr.reg, l + 1)
    BY <2>1, <1>2 DEF ExecNew
  <2>3. /\ t \in Instrs /\ t.op = "new" /\ hp \in Seq(Tables)
        /\ \A k \in 1 .. Len(hp) : hp[k].site # NullRoot
        /\ t.arg # NullRoot /\ t.arg \in A[t.reg]
    BY <2>1, <2>2, RunAt DEF InstrOK
  <2>4. [site |-> t.arg, live |-> TRUE] \in Tables
    BY <2>3 DEF Instrs, Tables
  <2>5. /\ hq \in Seq(Tables) /\ Len(hq) = l + 1 /\ l \in Nat
        /\ hq[l + 1] = [site |-> t.arg, live |-> TRUE]
        /\ \A k \in 1 .. l : hq[k] = hp[k]
    BY <2>1, <2>2, <2>3, <2>4, AppendOf
  <2>6. \A k \in 1 .. Len(hq) : hq[k].site # NullRoot
    BY <2>1, <2>3, <2>5
  <2>7. HoldsOK(t.reg, l + 1, A, hq) /\ hq[l + 1].live
    BY <2>3, <2>5 DEF HoldsOK
  <2>8. /\ hq = heap' /\ Len(heap) <= Len(hq) /\ \A k \in 1 .. Len(heap) : hq[k] = heap[k]
        /\ HoldsOK(Instr.reg, l + 1, A, hq) /\ ("apart" \in Manner(prog, doExitFrees) /\ l + 1 # 0 => hq[l + 1].live)
    BY <2>1, <2>5, <2>7
  <2>9. Exec("new") /\ Step
    BY <2>2
  <2> QED BY <2>2, <2>5, <2>6, <2>8, <2>9, <1>1, RunDefines
<1>3. CASE ExecNull
  <2>1. PICK t, hp : t = Instr /\ hp = heap
    OBVIOUS
  <2>2. Exec("null") /\ Step /\ heap' = heap /\ regs' = Bind(regs, Instr.reg, 0)
    BY <1>3 DEF ExecNull
  <2>3. /\ hp \in Seq(Tables) /\ NullRoot \in A[t.reg]
        /\ \A k \in 1 .. Len(hp) : hp[k].site # NullRoot
    BY <2>1, <2>2, RunAt DEF InstrOK
  <2>4. HoldsOK(t.reg, 0, A, hp)
    BY <2>3 DEF HoldsOK
  <2> QED BY <2>1, <2>2, <2>3, <2>4, <1>1, RunDefines
<1>4. CASE ExecMove
  <2>1. PICK t, hp, rs, b, i : t = Instr /\ hp = heap /\ rs = regs /\ b = at /\ i = ip
    OBVIOUS
  <2>2. Exec("move") /\ Step /\ heap' = heap /\ regs' = Bind(regs, Instr.reg, Reg(Instr.arg))
    BY <1>4 DEF ExecMove
  <2>3. /\ hp \in Seq(Tables) /\ t.arg \in H[b][i] /\ A[t.arg] \subseteq A[t.reg]
        /\ \A k \in 1 .. Len(hp) : hp[k].site # NullRoot
    BY <2>1, <2>2, RunAt DEF InstrOK
  <2>4. CodeOK(blocks, A, H, nregs, Manner(prog, doExitFrees))
        /\ MachineOK(blocks, A, H, nregs, Manner(prog, doExitFrees), b, i, rs, hp)
    BY <2>1 DEF RunOK
  <2>5. PICK q : q = t.arg
    OBVIOUS
  <2>6. q \in DOMAIN rs /\ HoldsOK(q, rs[q], A, hp) /\ ("apart" \in Manner(prog, doExitFrees) /\ rs[q] # 0 => hp[rs[q]].live)
    BY <2>3, <2>4, <2>5, ReadsOK
  <2>7. Reg(Instr.arg) = rs[q]
    BY <2>1, <2>5, <2>6 DEF Reg
  <2>8. HoldsOK(t.reg, rs[q], A, hp)
    BY <2>3, <2>5, <2>6 DEF HoldsOK
  <2> QED BY <2>1, <2>2, <2>3, <2>6, <2>7, <2>8, <1>1, RunDefines
<1>5. CASE ExecFree
  <2>1. PICK t, hp, hq, rs, q : t = Instr /\ hp = heap /\ hq = heap' /\ rs = regs /\ q = Reg(Instr.arg)
    OBVIOUS
  <2>2. /\ Exec("free") /\ Step /\ regs' = regs
        /\ hq = IF q \in DOMAIN hp THEN [hp EXCEPT ![q].live = FALSE] ELSE hp
    BY <2>1, <1>5 DEF ExecFree
  <2>3. hp \in Seq(Tables)
    BY <2>1, <2>2, RunAt
  <2>4. q \in DOMAIN hp => t.arg \in DOMAIN rs /\ rs[t.arg] = q
    BY <2>1, <2>3 DEF Reg, Undefined
  <2>5. /\ hq \in Seq(Tables) /\ Len(hq) = Len(hp)
        /\ \A k \in 1 .. Len(hp) : hq[k].site = hp[k].site
        /\ \A k \in 1 .. Len(hp) : hq[k].live = hp[k].live \/ q = k
    <3>1. CASE q \notin DOMAIN hp
      BY <3>1, <2>2, <2>3
    <3>2. CASE q \in DOMAIN hp
      <4>1. PICK v : v = [hp[q] EXCEPT !.live = FALSE]
        OBVIOUS
      <4>2. hp[q] \in Tables /\ q \in 1 .. Len(hp)
        BY <2>3, <3>2
      <4>3. v \in Tables /\ v.site = hp[q].site
        BY <4>1, <4>2 DEF Tables
      <4>4. hq = [hp EXCEPT ![q] = v]
        BY <2>2, <3>2, <4>1
      <4>5. hq \in Seq(Tables) /\ Len(hq) = Len(hp) /\ hq[q] = v /\ \A k \in 1 .. Len(hp) : k # q => hq[k] = hp[k]
        BY <2>3, <4>2, <4>3, <4>4, ChangeOf
      <4> QED BY <4>3, <4>5
    <3> QED BY <3>1, <3>2
  <2>6. \A k \in 1 .. Len(hp) :
          hq[k].live = hp[k].live \/ (t.arg \in DOMAIN rs /\ rs[t.arg] = k)
    BY <2>3, <2>4, <2>5
  <2> QED BY <2>1, <2>2, <2>5, <2>6, <1>1, RunReads
<1>6. CASE ExecUse
  <2>1. Exec("use") /\ Step /\ regs' = regs /\ heap' = heap
    BY <1>6 DEF ExecUse
  <2>2. heap \in Seq(Tables)
    BY <2>1, RunAt
  <2> QED BY <2>1, <2>2, <1>1, RunReads
<1>7. blocks[at].exit \in Seq(Nat)
  BY DEF RunOK, CodeOK, MachineOK, BlocksOK, IsBlock
<1>8. CASE Jump
  <2>1. blocks[at].exit[1] \in ToSet(blocks[at].exit)
    BY <1>7, <1>8 DEF Jump, ToSet
  <2> QED BY <2>1, <1>1, <1>8, RunGoes DEF Jump
<1>9. CASE \E edge \in {1, 2} : Branch(edge)
  <2>1. PICK edge \in {1, 2} : Branch(edge)
    BY <1>9
  <2>2. blocks[at].exit[edge] \in ToSet(blocks[at].exit)
    BY <1>7, <2>1 DEF Branch, ToSet
  <2> QED BY <2>1, <2>2, <1>1, RunGoes DEF Branch
<1>10. CASE Halt
  <2>1. at' = at /\ ip' = ip /\ regs' = regs /\ heap' = heap /\ phase' \in {"run", "halted"}
    BY <1>10 DEF Halt, machine
  <2>2. MachineOK(blocks, A, H, nregs, Manner(prog, doExitFrees), at, ip, regs, heap)
    BY DEF RunOK
  <2> QED BY <2>1, <2>2, <1>1, RunMoves
<1> QED BY <1>2, <1>3, <1>4, <1>5, <1>6, <1>8, <1>9, <1>10 DEF Run

-----------------------------------------------------------------------------
(* What the lowerer keeps. *)

(* The bindings s of the names D, in n scopes: what their registers may hold is *)
(* among the aliases a, and they are known in U.                            *)
Covered(s, a, n, D, A) == \A d \in 1 .. n : \A x \in D[d] : A[s[d][x]] \subseteq a[d][x]
Named(s, n, D, U) == \A d \in 1 .. n : \A x \in D[d] : s[d][x] \in U

(* Where no phi of the order is, s is e. *)
Agrees(e, s, order, D, k) ==
  \A d \in 1 .. k : \A x \in D[d] : ~ Moved(order, D, k, d, x) => s[d][x] = e[d][x]

IsCtl(f) ==
  f = [op |-> f.op, entry |-> f.entry, order |-> f.order, regs |-> f.regs,
       first |-> f.first, from |-> f.from]
Blank(b) == b.code = <<>> /\ b.exit = <<>> /\ DOMAIN b.phis = {}

(* The lower_stmt call f of the if or loop at token q, whose scopes are the first *)
(* k of D, while it emits into block here with the bindings s.               *)
BranchOK(P, N, L, bs, n, here, s, q, D, k, f) ==
  /\ Stack(f.entry, k, D, 1 .. n) /\ OrderOK(P, N, L, q, k, D, f.order)
  /\ Agrees(f.entry, s, f.order, D, k)
  /\ f.first \in Nat /\ f.first >= 2 /\ f.first + 2 <= Len(bs)
  /\ Blank(bs[f.first + 2]) /\ here # f.first + 2

ThenOK(h, A, H, bs, here, q, D, k, f) ==
  /\ Blank(bs[f.first + 1]) /\ here # f.first + 1 /\ H[f.first + 2][1] = {}
  /\ Named(f.entry, k, D, H[f.first + 1][1]) /\ Covered(f.entry, h[q], k, D, A)
  /\ \A b \in 1 .. Len(bs) : f.first + 2 \notin ToSet(bs[b].exit)

ElseOK(h, A, H, bs, m, D, k, f) ==
  /\ f.from \in 1 .. Len(bs) /\ bs[f.from].exit # <<>>
  /\ \A b \in 1 .. Len(bs) : f.first + 2 \in ToSet(bs[b].exit) => b = f.from
  /\ \A d \in 1 .. k : \A x \in D[d] :
       ~ Moved(f.order, D, k, d, x) => f.entry[d][x] \in HEnd(bs, H, f.from)
  /\ \A d \in 1 .. k : \A x \in D[d] :
       Moved(f.order, D, k, d, x) => f.regs[x] \in HEnd(bs, H, f.from) /\ A[f.regs[x]] \subseteq h[m][d][x]

LoopOK(h, A, H, bs, n, q, D, k, f) ==
  /\ f.from \in Nat /\ \A x \in DOMAIN f.order : f.from + f.order[x] \in 1 .. n
  /\ bs[f.first].code = <<>> /\ bs[f.first].exit # <<>>
  /\ DOMAIN bs[f.first].phis = DOMAIN f.order
  /\ \A x \in DOMAIN f.order : bs[f.first].phis[x].reg = f.from + f.order[x]
  /\ \A d \in 1 .. k : \A x \in D[d] :
       Moved(f.order, D, k, d, x) => A[f.from + f.order[x]] = h[q + 1][d][x]
  /\ \A r \in H[f.first][1] : \/ r \in PhiRegs(bs, f.first)
                              \/ \E d \in 1 .. k : \E x \in D[d] :
                                    ~ Moved(f.order, D, k, d, x) /\ r = f.entry[d][x]
  /\ \A d \in 1 .. k : \A x \in D[d] : ~ Moved(f.order, D, k, d, x) => f.entry[d][x] \in H[f.first + 2][1]
  /\ \A x \in DOMAIN f.order : f.from + f.order[x] \in H[f.first + 2][1]

CtlOK(P, N, L, h, A, H, bs, n, here, s, q, m, D, k, f) ==
  /\ IsCtl(f) /\ f.op = P[q].op
  /\ f.op # "do" => BranchOK(P, N, L, bs, n, here, s, q, D, k, f)
  /\ f.op = "if" /\ m = q => ThenOK(h, A, H, bs, here, q, D, k, f)
  /\ f.op = "if" /\ m # q => ElseOK(h, A, H, bs, m, D, k, f)
  /\ f.op = "while" => LoopOK(h, A, H, bs, n, q, D, k, f)

(* What changes is block here, blocks after t, and more of them. *)
Settled(bs, cs, H, K, here, t) ==
  /\ Len(bs) <= Len(cs)
  /\ \A b \in 1 .. Len(bs) : bs[b].exit # <<>> =>
       cs[b].exit = bs[b].exit /\ cs[b].code = bs[b].code /\ K[b] = H[b]
  /\ \A b \in 1 .. Len(bs) : b <= t /\ b # here => cs[b] = bs[b] /\ K[b] = H[b]
  /\ \A b \in 1 .. Len(cs) : \A e \in ToSet(cs[b].exit) :
       e <= t => b \in 1 .. Len(bs) /\ e \in ToSet(bs[b].exit)

(* The bindings changed where the block at q assigns. *)
Rewrites(P, N, L, q, D, k, s, t) ==
  \A d \in 1 .. k : \A x \in D[d] :
    t[d][x] = s[d][x] \/ (Assigned(P, N, L, q, x) /\ Inmost(D, k, x, d))

LEMMA MovedSame ==
  ASSUME NEW D, NEW E, NEW k \in Nat, Same(D, E, k), NEW order, NEW d, NEW x
  PROVE  (Moved(order, D, k, d, x) <=> Moved(order, E, k, d, x)) /\ (Declared(D, k, x) <=> Declared(E, k, x))
<1>1. \A i \in 1 .. k : E[i] = D[i]
  BY DEF Same
<1>2. \A d2 \in 1 .. k : \A i \in d2 + 1 .. k : i \in 1 .. k
  OBVIOUS
<1> QED BY <1>1, <1>2 DEF Moved, Inmost, Declared

LEMMA CtlSame ==
  ASSUME NEW P, NEW N, NEW L, NEW h, NEW A, NEW H, NEW bs, NEW n, NEW here, NEW s, NEW q, NEW m,
         NEW D, NEW k \in Nat, NEW f, CtlOK(P, N, L, h, A, H, bs, n, here, s, q, m, D, k, f),
         NEW E, Same(D, E, k)
  PROVE  CtlOK(P, N, L, h, A, H, bs, n, here, s, q, m, E, k, f)
<1>1. \A i \in 1 .. k : E[i] = D[i]
  BY DEF Same
<1>2. \A d, x : Moved(f.order, D, k, d, x) <=> Moved(f.order, E, k, d, x)
  BY MovedSame
<1>3. \A x : Declared(D, k, x) <=> Declared(E, k, x)
  BY MovedSame
<1>4. ASSUME BranchOK(P, N, L, bs, n, here, s, q, D, k, f)
      PROVE  BranchOK(P, N, L, bs, n, here, s, q, E, k, f)
  <2>1. Stack(f.entry, k, D, 1 .. n) /\ OrderOK(P, N, L, q, k, D, f.order) /\ Agrees(f.entry, s, f.order, D, k)
    BY <1>4 DEF BranchOK
  <2>2. Stack(f.entry, k, E, 1 .. n)
    BY <2>1, <1>1, StackSame
  <2>3. OrderOK(P, N, L, q, k, E, f.order)
    BY <2>1, <1>3 DEF OrderOK
  <2>4. Agrees(f.entry, s, f.order, E, k)
    BY <2>1, <1>1, <1>2 DEF Agrees
  <2> QED BY <2>2, <2>3, <2>4, <1>4 DEF BranchOK
<1>5. ASSUME ThenOK(h, A, H, bs, here, q, D, k, f)
      PROVE  ThenOK(h, A, H, bs, here, q, E, k, f)
  BY <1>1, <1>5 DEF ThenOK, Named, Covered
<1>6. ASSUME ElseOK(h, A, H, bs, m, D, k, f)
      PROVE  ElseOK(h, A, H, bs, m, E, k, f)
  BY <1>1, <1>2, <1>6 DEF ElseOK
<1>7. ASSUME LoopOK(h, A, H, bs, n, q, D, k, f)
      PROVE  LoopOK(h, A, H, bs, n, q, E, k, f)
  BY <1>1, <1>2, <1>7 DEF LoopOK
<1> QED BY <1>4, <1>5, <1>6, <1>7 DEF CtlOK

LEMMA CtlStays ==
  ASSUME NEW P, NEW N, NEW L, NEW h, NEW A, NEW H, NEW bs, NEW n \in Nat, NEW G, CodeOK(bs, A, H, n, G),
         NEW here \in Nat, NEW s, NEW q, NEW m, NEW D, NEW k \in Nat, NEW f,
         CtlOK(P, N, L, h, A, H, bs, n, here, s, q, m, D, k, f), bs[here].exit = <<>>,
         NEW B, NEW z \in Nat, n <= z, Extends(A, B, n),
         NEW cs, NEW K, NEW last \in Nat, Settled(bs, cs, H, K, here, last), Len(cs) \in Nat,
         f.op # "do" => f.first + 2 <= last,
         NEW there \in Nat, there = here \/ there > last,
         NEW t, Rewrites(P, N, L, q, D, k, s, t)
  PROVE  CtlOK(P, N, L, h, B, K, cs, z, there, t, q, m, D, k, f)
<1>1. PICK l : l = Len(bs)
  OBVIOUS
<1>2. /\ A \in [Nat -> SUBSET Nat] /\ BlocksOK(bs) /\ KnownOK(bs, H, n)
      /\ l \in Nat /\ l <= Len(cs)
      /\ \A b \in 1 .. l : b \in 1 .. Len(cs)
  BY <1>1 DEF CodeOK, BlocksOK, Settled
<1>3. /\ \A b \in 1 .. l : bs[b].exit # <<>> => cs[b].exit = bs[b].exit /\ cs[b].code = bs[b].code /\ K[b] = H[b]
      /\ \A b \in 1 .. l : b <= last /\ b # here => cs[b] = bs[b] /\ K[b] = H[b]
      /\ \A b \in 1 .. Len(cs) : \A e \in ToSet(cs[b].exit) : e <= last => b \in 1 .. l /\ e \in ToSet(bs[b].exit)
  BY <1>1 DEF Settled
<1>4. \A r \in 1 .. n : B[r] = A[r] /\ r \in 1 .. z
  BY DEF Extends
<1>5. \A b \in 1 .. l : HEnd(bs, H, b) \subseteq 1 .. n
  <2> SUFFICES ASSUME NEW b \in 1 .. l PROVE HEnd(bs, H, b) \subseteq 1 .. n
    OBVIOUS
  <2>1. Len(bs[b].code) + 1 \in 1 .. Len(bs[b].code) + 1
    BY <1>1, <1>2 DEF BlocksOK, IsBlock
  <2> QED BY <2>1, <1>1, <1>2 DEF HEnd, KnownOK
<1>6. ASSUME f.op # "do"
      PROVE  BranchOK(P, N, L, cs, z, there, t, q, D, k, f)
  <2>1. /\ Stack(f.entry, k, D, 1 .. n) /\ OrderOK(P, N, L, q, k, D, f.order)
        /\ Agrees(f.entry, s, f.order, D, k)
        /\ f.first \in Nat /\ f.first >= 2 /\ f.first + 2 <= l
        /\ Blank(bs[f.first + 2]) /\ here # f.first + 2
    BY <1>1, <1>6 DEF CtlOK, BranchOK
  <2>2. Stack(f.entry, k, D, 1 .. z)
    <3>1. 1 .. n \subseteq 1 .. z
      BY <1>4
    <3> QED BY <2>1, <3>1, StackWider
  <2>3. Agrees(f.entry, t, f.order, D, k)
    <3> SUFFICES ASSUME NEW d \in 1 .. k, NEW x \in D[d], ~ Moved(f.order, D, k, d, x)
                 PROVE  t[d][x] = f.entry[d][x]
      BY DEF Agrees
    <3>1. s[d][x] = f.entry[d][x]
      BY <2>1 DEF Agrees
    <3>2. ASSUME Assigned(P, N, L, q, x), Inmost(D, k, x, d) PROVE FALSE
      <4>1. Declared(D, k, x)
        BY DEF Declared
      <4>2. x \in DOMAIN f.order
        BY <2>1, <3>2, <4>1 DEF OrderOK
      <4> QED BY <3>2, <4>2 DEF Moved
    <3> QED BY <3>1, <3>2 DEF Rewrites
  <2>4. f.first + 2 \in 1 .. l /\ f.first + 2 <= last
    BY <2>1, <1>2, <1>6
  <2>5. cs[f.first + 2] = bs[f.first + 2]
    BY <2>1, <2>4, <1>3
  <2>6. there # f.first + 2
    BY <2>1, <2>4
  <2>7. f.first + 2 <= Len(cs)
    BY <2>1, <1>2
  <2>8. Blank(cs[f.first + 2])
    BY <2>1, <2>5
  <2> QED BY <2>1, <2>2, <2>3, <2>6, <2>7, <2>8 DEF BranchOK
<1>7. ASSUME f.op # "do"
      PROVE  /\ f.first \in Nat /\ f.first >= 2 /\ here # f.first + 2
             /\ f.first \in 1 .. l /\ f.first + 1 \in 1 .. l /\ f.first + 2 \in 1 .. l
             /\ f.first <= last /\ f.first + 1 <= last /\ f.first + 2 <= last
             /\ Stack(f.entry, k, D, 1 .. n) /\ OrderOK(P, N, L, q, k, D, f.order)
             /\ \A d \in 1 .. k : \A x \in D[d] : f.entry[d][x] \in 1 .. n
             /\ \A b \in 1 .. Len(cs) : f.first + 2 \in ToSet(cs[b].exit) => b \in 1 .. l /\ f.first + 2 \in ToSet(bs[b].exit)
  <2>1. /\ Stack(f.entry, k, D, 1 .. n) /\ OrderOK(P, N, L, q, k, D, f.order)
        /\ f.first \in Nat /\ f.first >= 2 /\ f.first + 2 <= l
        /\ here # f.first + 2
    BY <1>1, <1>7 DEF CtlOK, BranchOK
  <2>2. f.first \in 1 .. l /\ f.first + 1 \in 1 .. l /\ f.first + 2 \in 1 .. l
    BY <2>1, <1>2
  <2>3. f.first <= last /\ f.first + 1 <= last /\ f.first + 2 <= last
    BY <2>1, <1>7
  <2>4. \A d \in 1 .. k : \A x \in D[d] : f.entry[d][x] \in 1 .. n
    BY <2>1 DEF Stack
  <2>5. \A b \in 1 .. Len(cs) : f.first + 2 \in ToSet(cs[b].exit) => b \in 1 .. l /\ f.first + 2 \in ToSet(bs[b].exit)
    BY <2>3, <1>3
  <2> QED BY <2>1, <2>2, <2>3, <2>4, <2>5
<1>8. ASSUME f.op = "if", m = q
      PROVE  ThenOK(h, B, K, cs, there, q, D, k, f)
  <2>1. /\ Blank(bs[f.first + 1]) /\ here # f.first + 1 /\ H[f.first + 2][1] = {}
        /\ Named(f.entry, k, D, H[f.first + 1][1]) /\ Covered(f.entry, h[q], k, D, A)
        /\ \A b \in 1 .. l : f.first + 2 \notin ToSet(bs[b].exit)
    BY <1>1, <1>8 DEF CtlOK, ThenOK
  <2>2. /\ f.first \in Nat /\ here # f.first + 2
        /\ f.first + 1 \in 1 .. l /\ f.first + 2 \in 1 .. l
        /\ f.first + 1 <= last /\ f.first + 2 <= last
        /\ \A d \in 1 .. k : \A x \in D[d] : f.entry[d][x] \in 1 .. n
        /\ \A b \in 1 .. Len(cs) : f.first + 2 \in ToSet(cs[b].exit) => b \in 1 .. l /\ f.first + 2 \in ToSet(bs[b].exit)
    BY <1>7, <1>8
  <2>3. cs[f.first + 1] = bs[f.first + 1] /\ K[f.first + 1] = H[f.first + 1] /\ K[f.first + 2] = H[f.first + 2]
    BY <2>1, <2>2, <1>3
  <2>4. Covered(f.entry, h[q], k, D, B)
    BY <2>1, <2>2, <1>4 DEF Covered
  <2>5. there # f.first + 1
    BY <2>1, <2>2
  <2> QED BY <2>1, <2>2, <2>3, <2>4, <2>5 DEF ThenOK
<1>9. ASSUME f.op = "if", m # q
      PROVE  ElseOK(h, B, K, cs, m, D, k, f)
  <2>1. /\ f.from \in 1 .. l /\ bs[f.from].exit # <<>>
        /\ \A b \in 1 .. l : f.first + 2 \in ToSet(bs[b].exit) => b = f.from
        /\ \A d \in 1 .. k : \A x \in D[d] :
             ~ Moved(f.order, D, k, d, x) => f.entry[d][x] \in HEnd(bs, H, f.from)
        /\ \A d \in 1 .. k : \A x \in D[d] :
             Moved(f.order, D, k, d, x) => f.regs[x] \in HEnd(bs, H, f.from) /\ A[f.regs[x]] \subseteq h[m][d][x]
    BY <1>1, <1>9 DEF CtlOK, ElseOK
  <2>2. \A b \in 1 .. Len(cs) : f.first + 2 \in ToSet(cs[b].exit) => b \in 1 .. l /\ f.first + 2 \in ToSet(bs[b].exit)
    BY <1>7, <1>9
  <2>3. cs[f.from].exit = bs[f.from].exit /\ HEnd(cs, K, f.from) = HEnd(bs, H, f.from)
    BY <2>1, <1>3 DEF HEnd
  <2>4. \A r \in HEnd(bs, H, f.from) : B[r] = A[r]
    BY <2>1, <1>4, <1>5
  <2>5. f.from \in 1 .. Len(cs)
    BY <2>1, <1>2
  <2>6. \A d \in 1 .. k : \A x \in D[d] :
             Moved(f.order, D, k, d, x) => f.regs[x] \in HEnd(cs, K, f.from) /\ B[f.regs[x]] \subseteq h[m][d][x]
    BY <2>1, <2>3, <2>4
  <2>7. \A b \in 1 .. Len(cs) : f.first + 2 \in ToSet(cs[b].exit) => b = f.from
    BY <2>1, <2>2
  <2>8. \A d \in 1 .. k : \A x \in D[d] :
             ~ Moved(f.order, D, k, d, x) => f.entry[d][x] \in HEnd(cs, K, f.from)
    BY <2>1, <2>3
  <2>9. cs[f.from].exit # <<>>
    BY <2>1, <2>3
  <2> QED BY <2>5, <2>6, <2>7, <2>8, <2>9 DEF ElseOK
<1>10. ASSUME f.op = "while"
       PROVE  LoopOK(h, B, K, cs, z, q, D, k, f)
  <2>1. /\ f.from \in Nat /\ \A x \in DOMAIN f.order : f.from + f.order[x] \in 1 .. n
        /\ bs[f.first].code = <<>> /\ bs[f.first].exit # <<>>
        /\ DOMAIN bs[f.first].phis = DOMAIN f.order
        /\ \A x \in DOMAIN f.order : bs[f.first].phis[x].reg = f.from + f.order[x]
        /\ \A d \in 1 .. k : \A x \in D[d] :
             Moved(f.order, D, k, d, x) => A[f.from + f.order[x]] = h[q + 1][d][x]
        /\ \A r \in H[f.first][1] : \/ r \in PhiRegs(bs, f.first)
                                    \/ \E d \in 1 .. k : \E x \in D[d] :
                                         ~ Moved(f.order, D, k, d, x) /\ r = f.entry[d][x]
        /\ \A d \in 1 .. k : \A x \in D[d] : ~ Moved(f.order, D, k, d, x) => f.entry[d][x] \in H[f.first + 2][1]
        /\ \A x \in DOMAIN f.order : f.from + f.order[x] \in H[f.first + 2][1]
    BY <1>10 DEF CtlOK, LoopOK
  <2>2. /\ f.first \in Nat /\ here # f.first + 2
        /\ f.first \in 1 .. l /\ f.first + 2 \in 1 .. l
        /\ f.first <= last /\ f.first + 2 <= last
    BY <1>7, <1>10
  <2>3. f.first # here
    BY <2>1
  <2>4. cs[f.first] = bs[f.first] /\ K[f.first] = H[f.first] /\ K[f.first + 2] = H[f.first + 2]
    BY <2>2, <2>3, <1>3
  <2>5. PhiRegs(cs, f.first) = PhiRegs(bs, f.first)
    BY <2>4 DEF PhiRegs
  <2>6. \A x \in DOMAIN f.order : f.from + f.order[x] \in 1 .. z /\ B[f.from + f.order[x]] = A[f.from + f.order[x]]
    BY <2>1, <1>4
  <2>7. \A d \in 1 .. k : \A x \in D[d] :
             Moved(f.order, D, k, d, x) => B[f.from + f.order[x]] = h[q + 1][d][x]
    BY <2>1, <2>6 DEF Moved
  <2> QED BY <2>1, <2>4, <2>5, <2>6, <2>7 DEF LoopOK
<1> QED BY <1>6, <1>8, <1>9, <1>10 DEF CtlOK

(* The bindings s in k scopes, with the aliases a, known in U. *)
EnvOK(s, a, k, D, A, n, U) == Stack(s, k, D, 1 .. n) /\ Covered(s, a, k, D, A) /\ Named(s, k, D, U)

(* A birth register holds its site's tables, no others, and never null.        *)
SitesOK(bs, A, n, sr) ==
  \A s \in DOMAIN sr : sr[s].reg \in 1 .. n /\ A[sr[s].reg] = {s} /\ Made(bs, sr[s].reg)

FirstsOK(fs) ==
  \A k \in 1 .. Len(fs) : \A j \in 1 .. k - 1 :
    fs[j].op # "do" /\ fs[k].op # "do" => fs[j].first + 2 < fs[k].first

(* The j outermost of the enclosing lower_stmt calls. *)
CtlsOK(P, N, L, h, A, H, bs, n, here, s, o, j, fs) ==
  \A k \in 1 .. j : CtlOK(P, N, L, h, A, H, bs, n, here, s, L.opn[o][k], L.arm[o][k], L.dcl[o], k, fs[k])

Deep(fs) == Cardinality({k \in 1 .. Len(fs) : fs[k].op # "do"})

LowerOK(P, N, L, h, A, H) ==
  /\ WalkedTo(P, N, L, h, N + 1) /\ phase = "lower" /\ pc \in 1 .. N + 1
  /\ CodeOK(blocks, A, H, nregs, Manner(P, doExitFrees))
  /\ cur \in 1 .. Len(blocks) /\ blocks[cur].exit = <<>>
  /\ EnvOK(env, h[pc], L.lev[pc - 1] + 1, L.dcl[pc - 1], A, nregs, HEnd(blocks, H, cur))
  /\ SitesOK(blocks, A, nregs, siteReg)
  /\ \E S : ctl \in Seq(S)
  /\ Len(ctl) = L.lev[pc - 1]
  /\ CtlsOK(P, N, L, h, A, H, blocks, nregs, cur, env, pc - 1, Len(ctl), ctl)
  /\ FirstsOK(ctl)
  /\ depth = Deep(ctl)

(* Where the lowerer stands. *)
LEMMA LowerStands ==
  ASSUME NEW P, NEW N, NEW L, NEW h, NEW A, NEW H, LowerOK(P, N, L, h, A, H), pc <= N,
         NEW c, NEW o, NEW l, NEW D, Here(L, c, o, l, D)
  PROVE  /\ c \in 1 .. N /\ c \in Nat /\ N \in Nat /\ Program(P, N, L) /\ L \in Layouts
         /\ Token = P[c] /\ prog = P /\ Len(P) = N
         /\ Placed(P, L, o, c) /\ o \in Nat /\ l \in Nat /\ L.lev[c] \in Nat
         /\ D \in [Nat -> SUBSET Names]
         /\ \A k \in 1 .. l : Around(P, L, o, k)
         /\ Flow(P, L, h, doExitFrees, o, c)
         /\ Stack(h[c], l + 1, D, AliasSets(N)) /\ ShapedAt(L, N, c, h[c + 1])
         /\ OutsideIn(P) /\ c \in freeSites => SoleDrop(P, L, h, o, c)
         /\ CodeOK(blocks, A, H, nregs, Manner(P, doExitFrees)) /\ nregs \in Nat /\ Len(blocks) \in Nat
         /\ cur \in 1 .. Len(blocks) /\ cur \in Nat /\ blocks[cur].exit = <<>>
         /\ EnvOK(env, h[c], l + 1, D, A, nregs, HEnd(blocks, H, cur))
         /\ SitesOK(blocks, A, nregs, siteReg)
         /\ \E S : ctl \in Seq(S)
         /\ Len(ctl) = l
         /\ CtlsOK(P, N, L, h, A, H, blocks, nregs, cur, env, o, l, ctl)
         /\ FirstsOK(ctl)
<1>1. /\ WalkedTo(P, N, L, h, N + 1) /\ pc \in 1 .. N + 1
      /\ CodeOK(blocks, A, H, nregs, Manner(P, doExitFrees))
      /\ cur \in 1 .. Len(blocks) /\ blocks[cur].exit = <<>>
      /\ EnvOK(env, h[pc], L.lev[pc - 1] + 1, L.dcl[pc - 1], A, nregs, HEnd(blocks, H, cur))
      /\ SitesOK(blocks, A, nregs, siteReg)
      /\ \E S : ctl \in Seq(S)
      /\ Len(ctl) = L.lev[pc - 1]
      /\ CtlsOK(P, N, L, h, A, H, blocks, nregs, cur, env, pc - 1, Len(ctl), ctl)
      /\ FirstsOK(ctl)
  BY DEF LowerOK
<1>2. /\ Program(P, N, L) /\ prog = P /\ N \in Nat /\ L \in Layouts /\ Len(P) = N
      /\ \A p \in 1 .. N + 1 - 1 : Flow(P, L, h, doExitFrees, p - 1, p)
      /\ \A p \in 1 .. N + 1 : ShapedAt(L, N, p - 1, h[p])
      /\ OutsideIn(P) => \A p \in freeSites : SoleDrop(P, L, h, p - 1, p)
  BY <1>1 DEF WalkedTo, Program, Layout
<1>3. c = pc /\ o = c - 1 /\ l = L.lev[o] /\ D = L.dcl[o]
  BY DEF Here
<1>4. c \in 1 .. N /\ c \in 1 .. N + 1 /\ c + 1 \in 1 .. N + 1 /\ N + 1 - 1 = N /\ c + 1 - 1 = c /\ c \in Nat
  BY <1>1, <1>2, <1>3
<1>5. /\ Placed(P, L, o, c) /\ o \in Nat /\ l \in Nat /\ L.lev[c] \in Nat
      /\ \A k \in 1 .. l : Around(P, L, o, k)
  BY <1>2, <1>3, <1>4, TokenAt
<1>6. D \in [Nat -> SUBSET Names]
  BY <1>2, <1>3, <1>5, LayoutTypes
<1>7. Flow(P, L, h, doExitFrees, o, c)
  BY <1>2, <1>3, <1>4
<1>8. ShapedAt(L, N, o, h[c]) /\ ShapedAt(L, N, c, h[c + 1])
  BY <1>2, <1>3, <1>4
<1>9. Token = P[c]
  BY <1>2, <1>3 DEF Token
<1>10. nregs \in Nat /\ Len(blocks) \in Nat /\ cur \in Nat
  BY <1>1 DEF CodeOK, BlocksOK
<1>11. OutsideIn(P) /\ c \in freeSites => SoleDrop(P, L, h, o, c)
  BY <1>2, <1>3
<1> QED BY <1>1, <1>2, <1>3, <1>4, <1>5, <1>6, <1>7, <1>8, <1>9, <1>10, <1>11 DEF ShapedAt

(* The lowerer goes on to the next token, with the bindings s. *)
LEMMA LowerMoves ==
  ASSUME NEW P, NEW N, NEW L, NEW h, NEW A, NEW H, LowerOK(P, N, L, h, A, H), pc <= N,
         NEW c, c = pc, Advance, UNCHANGED analysis,
         NEW B, NEW K, NEW cs, NEW m, NEW there, NEW s, NEW sr, NEW fs,
         cs = blocks', m = nregs', there = cur', s = env', sr = siteReg', fs = ctl',
         phase = "lower",
         CodeOK(cs, B, K, m, Manner(P, doExitFrees)),
         there \in 1 .. Len(cs), cs[there].exit = <<>>,
         EnvOK(s, h[c + 1], L.lev[c] + 1, L.dcl[c], B, m, HEnd(cs, K, there)),
         SitesOK(cs, B, m, sr),
         \E S : fs \in Seq(S), Len(fs) = L.lev[c],
         CtlsOK(P, N, L, h, B, K, cs, m, there, s, c, L.lev[c], fs),
         FirstsOK(fs), depth' = Deep(fs)
  PROVE  LowerOK(P, N, L, h, B, K)'
<1>1. WalkedTo(P, N, L, h, N + 1) /\ pc \in 1 .. N + 1
  BY DEF LowerOK
<1>2. N \in Nat
  BY <1>1 DEF WalkedTo, Program
<1>3. pc' = c + 1 /\ phase' = "lower" /\ prog' = prog
      /\ freeSites' = freeSites /\ freedSites' = freedSites /\ doExitFrees' = doExitFrees
  BY DEF Advance, source, analysis
<1>4. WalkedTo(P, N, L, h, N + 1)'
  BY <1>1, <1>3 DEF WalkedTo
<1>5. pc' \in 1 .. N + 1 /\ pc' - 1 = c
  BY <1>1, <1>2, <1>3
<1>6. PICK d : d = pc'
  OBVIOUS
<1>7. d = c + 1 /\ d \in 1 .. N + 1 /\ d - 1 = c
  BY <1>3, <1>5, <1>6
<1>8. EnvOK(s, h[d], L.lev[d - 1] + 1, L.dcl[d - 1], B, m, HEnd(cs, K, there))
      /\ Len(fs) = L.lev[d - 1]
      /\ CtlsOK(P, N, L, h, B, K, cs, m, there, s, d - 1, Len(fs), fs)
  BY <1>7
<1> QED BY <1>3, <1>4, <1>6, <1>7, <1>8 DEF LowerOK

(* The calls that go on when the lowerer moves from token c - 1 to token c. *)
LEMMA CtlsStay ==
  ASSUME NEW P, NEW N, NEW L, NEW c, NEW o, NEW j \in Nat,
         \A k \in 1 .. j : L.opn[c][k] = L.opn[o][k] /\ L.arm[c][k] = L.arm[o][k],
         Same(L.dcl[o], L.dcl[c], j),
         NEW h, NEW A, NEW H, NEW bs, NEW n \in Nat, NEW G, CodeOK(bs, A, H, n, G),
         NEW here \in Nat, bs[here].exit = <<>>, NEW s, NEW fs,
         CtlsOK(P, N, L, h, A, H, bs, n, here, s, o, j, fs),
         NEW B, NEW z \in Nat, n <= z, Extends(A, B, n),
         NEW cs, NEW K, NEW last \in Nat, Settled(bs, cs, H, K, here, last), Len(cs) \in Nat,
         \A k \in 1 .. j : fs[k].op # "do" => fs[k].first + 2 <= last,
         NEW there \in Nat, there = here \/ there > last,
         NEW t, \A k \in 1 .. j : Rewrites(P, N, L, L.opn[o][k], L.dcl[o], k, s, t),
         NEW gs, \A k \in 1 .. j : gs[k] = fs[k]
  PROVE  CtlsOK(P, N, L, h, B, K, cs, z, there, t, c, j, gs)
<1> SUFFICES ASSUME NEW k \in 1 .. j
             PROVE  CtlOK(P, N, L, h, B, K, cs, z, there, t, L.opn[c][k], L.arm[c][k], L.dcl[c], k, gs[k])
  BY DEF CtlsOK
<1>1. PICK q, m, D, f : q = L.opn[o][k] /\ m = L.arm[o][k] /\ D = L.dcl[o] /\ f = fs[k]
  OBVIOUS
<1>2. CtlOK(P, N, L, h, A, H, bs, n, here, s, q, m, D, k, f)
  BY <1>1 DEF CtlsOK
<1>3. Rewrites(P, N, L, q, D, k, s, t)
  BY <1>1
<1>4. k \in Nat /\ (f.op # "do" => f.first + 2 <= last)
  BY <1>1
<1>5. CtlOK(P, N, L, h, B, K, cs, z, there, t, q, m, D, k, f)
  BY <1>2, <1>3, <1>4, CtlStays
<1>6. Same(D, L.dcl[c], k)
  BY <1>1 DEF Same
<1>7. CtlOK(P, N, L, h, B, K, cs, z, there, t, q, m, L.dcl[c], k, f)
  BY <1>4, <1>5, <1>6, CtlSame
<1> QED BY <1>1, <1>7

(* Token c changes the bindings s of the l outer scopes to t. *)
Touches(P, c, D, l, s, t) ==
  \A d \in 1 .. l : \A x \in D[d] :
    t[d][x] = s[d][x] \/ (P[c].op = "assign" /\ P[c].x = x /\ Inmost(D, l + 1, x, d))

LEMMA TouchRewrites ==
  ASSUME NEW P, NEW N, NEW L, Program(P, N, L), NEW c \in 1 .. N, NEW o, o = c - 1,
         NEW l, l = L.lev[o], L.lev[c] >= l - 1, NEW D,
         NEW s, NEW t, Touches(P, c, D, l, s, t), NEW k \in 1 .. l, L.lev[c] >= k
  PROVE  Rewrites(P, N, L, L.opn[o][k], D, k, s, t)
<1>1. l \in Nat
  BY TokenAt
<1> SUFFICES ASSUME NEW d \in 1 .. k, NEW x \in D[d]
             PROVE  t[d][x] = s[d][x] \/ (Assigned(P, N, L, L.opn[o][k], x) /\ Inmost(D, k, x, d))
  BY DEF Rewrites
<1>2. d \in 1 .. l
  BY <1>1
<1>3. CASE t[d][x] = s[d][x]
  BY <1>3
<1>4. CASE P[c].op = "assign" /\ P[c].x = x /\ Inmost(D, l + 1, x, d)
  <2>1. Inside(L, L.opn[o][k], c)
    BY InsideOpen
  <2>2. Assigned(P, N, L, L.opn[o][k], x)
    BY <2>1, <1>4 DEF Assigned
  <2>3. k \in Nat /\ l + 1 \in Nat /\ d <= k /\ k <= l + 1
    BY <1>1
  <2>4. Inmost(D, k, x, d)
    BY <2>3, <1>4, InmostOutside
  <2> QED BY <2>2, <2>4
<1> QED BY <1>2, <1>3, <1>4 DEF Touches

LEMMA EmitSettles ==
  ASSUME NEW bs, NEW cs, NEW H, NEW K, NEW here \in 1 .. Len(bs), Len(bs) \in Nat,
         Emits(bs, cs, H, K, here), bs[here].exit = <<>>, NEW last
  PROVE  Settled(bs, cs, H, K, here, last)
<1>1. /\ Len(cs) = Len(bs)
      /\ \A b \in 1 .. Len(bs) : b # here => cs[b] = bs[b] /\ K[b] = H[b]
      /\ cs[here].exit = bs[here].exit
  BY DEF Emits
<1>2. \A b \in 1 .. Len(bs) : cs[b].exit = bs[b].exit
  BY <1>1
<1> QED BY <1>1, <1>2 DEF Settled

(* What the instructions appended make, and what was made before. *)
LEMMA MadeMore ==
  ASSUME NEW bs, BlocksOK(bs), NEW here \in 1 .. Len(bs), NEW instrs \in Seq(Instrs),
         NEW cs, AddsCode(bs, cs, here, instrs)
  PROVE  /\ \A r : Made(bs, r) => Made(cs, r)
         /\ \A j \in 1 .. Len(instrs) : instrs[j].op = "new" => Made(cs, instrs[j].reg)
<1>1. PICK l, len : l = Len(bs) /\ len = Len(bs[here].code)
  OBVIOUS
<1>2. /\ Len(cs) = l /\ l \in Nat
      /\ \A b \in 1 .. l : b # here => cs[b] = bs[b]
      /\ cs[here].code = bs[here].code \o instrs
  BY <1>1 DEF AddsCode
<1>3. bs[here].code \in Seq(Instrs) /\ len \in Nat
  <2>1. bs[here].code \in Seq(Instrs)
    BY DEF BlocksOK, IsBlock
  <2> QED BY <2>1, <1>1
<1>4. /\ Len(cs[here].code) = len + Len(instrs)
      /\ \A i \in 1 .. len : cs[here].code[i] = bs[here].code[i]
      /\ \A j \in 1 .. Len(instrs) : cs[here].code[len + j] = instrs[j]
  BY <1>1, <1>2, <1>3, ConcatIs
<1>5. ASSUME NEW r, Made(bs, r) PROVE Made(cs, r)
  <2>1. PICK b \in 1 .. l : \E i \in 1 .. Len(bs[b].code) :
           bs[b].code[i].op = "new" /\ bs[b].code[i].reg = r
    BY <1>1, <1>5 DEF Made
  <2>2. PICK i \in 1 .. Len(bs[b].code) : bs[b].code[i].op = "new" /\ bs[b].code[i].reg = r
    BY <2>1
  <2>3. i \in 1 .. Len(cs[b].code) /\ cs[b].code[i] = bs[b].code[i]
    <3>1. CASE b # here
      BY <3>1, <1>2
    <3>2. CASE b = here
      BY <3>2, <1>1, <1>3, <1>4
    <3> QED BY <3>1, <3>2
  <2> QED BY <2>2, <2>3, <1>2 DEF Made
<1>6. ASSUME NEW j \in 1 .. Len(instrs), instrs[j].op = "new" PROVE Made(cs, instrs[j].reg)
  <2>1. PICK i : i = len + j
    OBVIOUS
  <2>2. i \in 1 .. Len(cs[here].code) /\ cs[here].code[i] = instrs[j]
    BY <2>1, <1>3, <1>4
  <2>3. here \in 1 .. Len(cs)
    BY <1>1, <1>2
  <2> QED BY <2>2, <2>3, <1>6 DEF Made
<1> QED BY <1>5, <1>6

(* Sites known before keep their birth registers; a new one gets a register the  *)
(* instructions fill.                                                       *)
SitesGrow(sr, tr, instrs, B, m) ==
  \A s \in DOMAIN tr :
    \/ s \in DOMAIN sr /\ tr[s].reg = sr[s].reg
    \/ /\ tr[s].reg \in 1 .. m /\ B[tr[s].reg] = {s}
       /\ \E j \in 1 .. Len(instrs) : instrs[j].op = "new" /\ instrs[j].reg = tr[s].reg

LEMMA SitesStay ==
  ASSUME NEW bs, NEW A, NEW n \in Nat, NEW sr, SitesOK(bs, A, n, sr),
         NEW cs, NEW B, NEW m \in Nat, n <= m, Extends(A, B, n), \A r : Made(bs, r) => Made(cs, r),
         NEW instrs, \A j \in 1 .. Len(instrs) : instrs[j].op = "new" => Made(cs, instrs[j].reg),
         NEW tr, SitesGrow(sr, tr, instrs, B, m)
  PROVE  SitesOK(cs, B, m, tr)
<1> SUFFICES ASSUME NEW s \in DOMAIN tr
             PROVE  tr[s].reg \in 1 .. m /\ B[tr[s].reg] = {s} /\ Made(cs, tr[s].reg)
  BY DEF SitesOK
<1>1. CASE s \in DOMAIN sr /\ tr[s].reg = sr[s].reg
  <2>1. sr[s].reg \in 1 .. n /\ A[sr[s].reg] = {s} /\ Made(bs, sr[s].reg)
    BY <1>1 DEF SitesOK
  <2>2. sr[s].reg \in 1 .. m /\ B[sr[s].reg] = {s}
    BY <2>1 DEF Extends
  <2> QED BY <2>1, <2>2, <1>1
<1>2. CASE /\ tr[s].reg \in 1 .. m /\ B[tr[s].reg] = {s}
           /\ \E j \in 1 .. Len(instrs) : instrs[j].op = "new" /\ instrs[j].reg = tr[s].reg
  BY <1>2
<1> QED BY <1>1, <1>2 DEF SitesGrow

EmitsTo(bs, cs, H, K, here, B, m, G, last, V, tr) ==
  /\ CodeOK(cs, B, K, m, G) /\ Settled(bs, cs, H, K, here, last)
  /\ HEnd(cs, K, here) = V
  /\ Len(cs) = Len(bs) /\ cs[here].exit = <<>>
  /\ SitesOK(cs, B, m, tr)

LEMMA EmitIs ==
  ASSUME NEW bs, NEW A, NEW H, NEW n \in Nat, NEW G, CodeOK(bs, A, H, n, G),
         NEW here \in 1 .. Len(bs), bs[here].exit = <<>>,
         NEW B, NEW m, NEW instrs, NEW W, Emitting(bs, A, H, n, G, here, B, m, instrs, W),
         NEW cs, cs = CodeAdded(bs, here, instrs), NEW last,
         NEW sr, SitesOK(bs, A, n, sr), NEW tr, SitesGrow(sr, tr, instrs, B, m)
  PROVE  \E K : EmitsTo(bs, cs, H, K, here, B, m, G, last, W[Len(instrs) + 1], tr)
<1>1. /\ m \in Nat /\ n <= m /\ B \in [Nat -> SUBSET Nat] /\ Extends(A, B, n)
      /\ instrs \in Seq(Instrs) /\ W \in [Nat -> SUBSET Nat] /\ W[1] = HEnd(bs, H, here)
      /\ \A j \in 1 .. Len(instrs) + 1 : W[j] \subseteq 1 .. m
      /\ \A j \in 1 .. Len(instrs) : InstrOK(instrs[j], W[j], W[j + 1], B, m, G)
      /\ \A j \in 1 .. Len(instrs) : instrs[j].op = "free" => instrs[j].arg \in W[1] \/ Made(bs, instrs[j].arg)
  BY DEF Emitting
<1>2. PICK K : CodeOK(cs, B, K, m, G) /\ Emits(bs, cs, H, K, here) /\ HEnd(cs, K, here) = W[Len(instrs) + 1]
  BY CodeEmits
<1>3. BlocksOK(bs) /\ Len(bs) \in Nat
  BY DEF CodeOK, BlocksOK
<1>4. Settled(bs, cs, H, K, here, last)
  BY <1>2, <1>3, EmitSettles
<1>5. Len(cs) = Len(bs) /\ cs[here].exit = <<>>
  BY <1>2 DEF Emits
<1>6. AddsCode(bs, cs, here, instrs)
  BY <1>1, <1>3, CodeAddedIs
<1>7. /\ \A r : Made(bs, r) => Made(cs, r)
      /\ \A j \in 1 .. Len(instrs) : instrs[j].op = "new" => Made(cs, instrs[j].reg)
  BY <1>1, <1>3, <1>6, MadeMore
<1>8. SitesOK(cs, B, m, tr)
  BY <1>1, <1>7, SitesStay
<1> QED BY <1>2, <1>4, <1>5, <1>8 DEF EmitsTo

(* The frames of the blocks that stay open end before the blocks added later. *)
LEMMA FirstsEnd ==
  ASSUME NEW P, NEW N, NEW L, NEW h, NEW A, NEW H, NEW bs, NEW n, NEW here, NEW s, NEW o, NEW j, NEW fs,
         CtlsOK(P, N, L, h, A, H, bs, n, here, s, o, j, fs), NEW k \in 1 .. j, fs[k].op # "do"
  PROVE  fs[k].first \in Nat /\ fs[k].first >= 2 /\ fs[k].first + 2 <= Len(bs)
BY DEF CtlsOK, CtlOK, BranchOK

(* A token that opens and closes no block. *)
LEMMA LowerEmits ==
  ASSUME NEW P, NEW N, NEW L, NEW h, NEW A, NEW H, LowerOK(P, N, L, h, A, H), pc <= N,
         NEW c, NEW o, NEW l, NEW D, Here(L, c, o, l, D), Advance, UNCHANGED analysis,
         L.lev[c] = l, L.opn[c] = L.opn[o], L.arm[c] = L.arm[o], Same(D, L.dcl[c], l),
         UNCHANGED <<cur, depth, ctl>>,
         NEW B, NEW m, m = nregs', NEW instrs, NEW W,
         Emitting(blocks, A, H, nregs, Manner(P, doExitFrees), cur, B, m, instrs, W),
         blocks' = CodeAdded(blocks, cur, instrs),
         NEW t, t = env', EnvOK(t, h[c + 1], l + 1, L.dcl[c], B, m, W[Len(instrs) + 1]),
         Touches(P, c, D, l, env, t),
         NEW tr, tr = siteReg', SitesGrow(siteReg, tr, instrs, B, m)
  PROVE  \E K : LowerOK(P, N, L, h, B, K)'
<1>1. /\ c \in 1 .. N /\ c \in Nat /\ Program(P, N, L) /\ o \in Nat /\ l \in Nat
      /\ CodeOK(blocks, A, H, nregs, Manner(P, doExitFrees)) /\ nregs \in Nat /\ Len(blocks) \in Nat
      /\ cur \in 1 .. Len(blocks) /\ cur \in Nat /\ blocks[cur].exit = <<>>
      /\ SitesOK(blocks, A, nregs, siteReg)
      /\ \E S : ctl \in Seq(S)
      /\ Len(ctl) = l
      /\ CtlsOK(P, N, L, h, A, H, blocks, nregs, cur, env, o, l, ctl)
      /\ FirstsOK(ctl)
  BY LowerStands
<1>2. c = pc /\ o = c - 1 /\ l = L.lev[o] /\ D = L.dcl[o]
  BY DEF Here
<1>3. PICK cs, bs, here, n, s, sr, fs, last, G :
        /\ cs = CodeAdded(blocks, cur, instrs) /\ bs = blocks /\ here = cur /\ n = nregs
        /\ s = env /\ sr = siteReg /\ fs = ctl /\ last = Len(blocks) /\ G = Manner(P, doExitFrees)
  OBVIOUS
<1>4. /\ n \in Nat /\ CodeOK(bs, A, H, n, G) /\ here \in 1 .. Len(bs) /\ bs[here].exit = <<>>
      /\ Emitting(bs, A, H, n, G, here, B, m, instrs, W) /\ SitesOK(bs, A, n, sr)
      /\ cs = CodeAdded(bs, here, instrs) /\ SitesGrow(sr, tr, instrs, B, m)
  BY <1>1, <1>3
<1>5a. PICK K : EmitsTo(bs, cs, H, K, here, B, m, G, last, W[Len(instrs) + 1], tr)
  BY <1>4, EmitIs
<1>5. /\ CodeOK(cs, B, K, m, G) /\ Settled(bs, cs, H, K, here, last)
      /\ HEnd(cs, K, here) = W[Len(instrs) + 1]
      /\ Len(cs) = Len(bs) /\ cs[here].exit = <<>>
      /\ SitesOK(cs, B, m, tr)
  BY <1>5a DEF EmitsTo
<1>6. \A k \in 1 .. l : fs[k].op # "do" => fs[k].first + 2 <= last
  BY <1>1, <1>3, FirstsEnd
<1>7. \A k \in 1 .. l : Rewrites(P, N, L, L.opn[o][k], L.dcl[o], k, s, t)
  <2> SUFFICES ASSUME NEW k \in 1 .. l PROVE Rewrites(P, N, L, L.opn[o][k], D, k, s, t)
    BY <1>2
  <2>1. L.lev[c] >= l - 1 /\ L.lev[c] >= k
    BY <1>1
  <2> QED BY <2>1, <1>1, <1>2, <1>3, TouchRewrites
<1>8. m \in Nat /\ n <= m /\ Extends(A, B, n)
  BY <1>3 DEF Emitting
<1>9. \A k \in 1 .. l : L.opn[c][k] = L.opn[o][k] /\ L.arm[c][k] = L.arm[o][k]
  OBVIOUS
<1>10. CtlsOK(P, N, L, h, A, H, bs, n, here, s, o, l, fs) /\ Same(L.dcl[o], L.dcl[c], l)
  BY <1>1, <1>2, <1>3
<1>11. last \in Nat /\ Len(cs) \in Nat /\ here \in Nat
  BY <1>1, <1>3, <1>5
<1>12. CtlsOK(P, N, L, h, B, K, cs, m, here, t, c, l, fs)
  <2>1. here \in Nat /\ here = here /\ \A k \in 1 .. l : fs[k] = fs[k]
    BY ONLY <1>11
  <2>2. l \in Nat /\ n \in Nat
    BY <1>1, <1>4
  <2> QED BY ONLY <2>1, <2>2, <1>4, <1>5, <1>6, <1>7, <1>8, <1>9, <1>10, <1>11, CtlsStay
<1>13. /\ cs = blocks' /\ here = cur' /\ fs = ctl' /\ depth' = Deep(fs) /\ here \in 1 .. Len(cs)
       /\ phase = "lower" /\ FirstsOK(fs) /\ (\E S : fs \in Seq(S)) /\ Len(fs) = L.lev[c]
       /\ c = pc
  BY <1>1, <1>2, <1>3, <1>5 DEF LowerOK
<1>14. EnvOK(t, h[c + 1], L.lev[c] + 1, L.dcl[c], B, m, HEnd(cs, K, here))
  BY <1>5
<1>15. CtlsOK(P, N, L, h, B, K, cs, m, here, t, c, L.lev[c], fs)
  BY <1>12
<1>16. CodeOK(cs, B, K, m, Manner(P, doExitFrees)) /\ cs[here].exit = <<>> /\ SitesOK(cs, B, m, tr)
  BY <1>3, <1>5
<1>17. LowerOK(P, N, L, h, B, K)'
  BY <1>13, <1>14, <1>15, <1>16, LowerMoves
<1> QED BY <1>17

(* One binding gets a register of its own. *)
LEMMA EnvChanged ==
  ASSUME NEW s, NEW a, NEW k, NEW D, NEW A, NEW n, NEW U, EnvOK(s, a, k, D, A, n, U),
         NEW B, Extends(A, B, n), NEW t, NEW d, NEW x, NEW r, Changed(s, t, D, k, d, x, r),
         NEW E, NEW m, Stack(t, k, E, 1 .. m),
         \A i \in 1 .. k : \A y \in E[i] : (i = d /\ y = x) \/ y \in D[i],
         NEW b, UnderBut(a, b, k, D, d, x), B[r] \subseteq b[d][x],
         NEW V, r \in V, \A i \in 1 .. k : \A y \in D[i] : i # d \/ y # x => s[i][y] \in V
  PROVE  EnvOK(t, b, k, E, B, m, V)
<1>1. Stack(s, k, D, 1 .. n) /\ Covered(s, a, k, D, A)
  BY DEF EnvOK
<1>2. ASSUME NEW i \in 1 .. k, NEW y \in E[i]
      PROVE  B[t[i][y]] \subseteq b[i][y] /\ t[i][y] \in V
  <2>1. CASE i = d /\ y = x
    BY <2>1 DEF Changed
  <2>2. CASE ~ (i = d /\ y = x)
    <3>1. y \in D[i] /\ (i # d \/ y # x)
      BY <2>2
    <3>2. t[i][y] = s[i][y] /\ s[i][y] \in V /\ a[i][y] \subseteq b[i][y]
      BY <3>1 DEF Changed, UnderBut
    <3>3. s[i][y] \in 1 .. n /\ A[s[i][y]] \subseteq a[i][y]
      BY <3>1, <1>1 DEF Stack, Covered
    <3>4. B[s[i][y]] = A[s[i][y]]
      BY <3>3 DEF Extends
    <3> QED BY <3>2, <3>3, <3>4
  <2> QED BY <2>1, <2>2
<1> QED BY <1>2 DEF EnvOK, Covered, Named

(* The instruction t loads a right-hand side into register r, where U is known: *)
(* X is what r may hold then.                                               *)
Loads(p, t, c, U, W, B, r, G, v) ==
  /\ InstrOK(t, U, W, B, r, G)
  /\ t.op \in {"new", "null", "move"} /\ t.reg = r
  /\ p.e = "ctor" => t.op = "new" /\ B[r] = {c}
  /\ B[r] \subseteq v

Loaded(p, t, c, U, W, A, B, n, r, G, v) ==
  B \in [Nat -> SUBSET Nat] /\ Extends(A, B, n) /\ Loads(p, t, c, U, W, B, r, G, v)

LEMMA LoadOK ==
  ASSUME NEW P, NEW N, NEW L, NEW c, NEW o, NEW l \in Nat, NEW D, Here(L, c, o, l, D),
         Token = P[c], Reads(P, L, o, c), c \in Nat, c >= 1,
         NEW A \in [Nat -> SUBSET Nat], NEW n \in Nat, NEW U, U \subseteq 1 .. n, NEW a,
         EnvOK(env, a, l + 1, D, A, n, U), NEW r, r = n + 1, NEW v, Gives(P, c, D, l + 1, a, v), NEW G,
         NEW W, W = U \cup {r}
  PROVE  \E B : Loaded(P[c], Load(Token, r), c, U, W, A, B, n, r, G, v)
<1>1. c = pc /\ o = c - 1 /\ l = L.lev[o] /\ D = L.dcl[o]
  BY DEF Here
<1>2. PICK s : s = env
  OBVIOUS
<1>3. Stack(s, l + 1, D, 1 .. n) /\ Covered(s, a, l + 1, D, A) /\ Named(s, l + 1, D, U)
  BY <1>2 DEF EnvOK
<1>4. ASSUME NEW X \in SUBSET Nat
      PROVE  \E B : B \in [Nat -> SUBSET Nat] /\ Extends(A, B, n) /\ B[r] = X
  <2>1. PICK B : B = [A EXCEPT ![r] = X]
    OBVIOUS
  <2>2. B \in [Nat -> SUBSET Nat] /\ B[r] = X /\ \A q \in Nat : q # r => B[q] = A[q]
    BY <2>1
  <2>3. \A q \in 1 .. n : q \in Nat /\ q # r
    OBVIOUS
  <2>4. Extends(A, B, n)
    BY <2>2, <2>3 DEF Extends
  <2> QED BY <2>2, <2>4
<1>5. PICK e : e = P[c].e
  OBVIOUS
<1>6. r \in 1 .. r /\ r \in Nat
  OBVIOUS
<1>7. CASE e = "ctor"
  <2>1. PICK B : B \in [Nat -> SUBSET Nat] /\ Extends(A, B, n) /\ B[r] = {c}
    <3>1. {c} \in SUBSET Nat
      OBVIOUS
    <3> QED BY <3>1, <1>4
  <2>2. PICK t : t = Load(Token, r)
    OBVIOUS
  <2>3. t = [op |-> "new", reg |-> r, arg |-> c]
    BY <2>2, <1>1, <1>5, <1>7 DEF Load, New
  <2>4. t \in Instrs /\ t.op = "new" /\ t.reg = r /\ t.arg = c
    BY <2>3, <1>6 DEF Instrs
  <2>5. InstrOK(t, U, W, B, r, G)
    BY <2>1, <2>4, <1>6 DEF InstrOK, NullRoot
  <2>6. c \in v
    BY <1>5, <1>7 DEF Gives
  <2>7. Loads(P[c], t, c, U, W, B, r, G, v)
    BY <2>1, <2>4, <2>5, <2>6 DEF Loads
  <2> QED BY <2>1, <2>2, <2>7 DEF Loaded
<1>8. CASE e = "nil"
  <2>1. PICK B : B \in [Nat -> SUBSET Nat] /\ Extends(A, B, n) /\ B[r] = {NullRoot}
    <3>1. {NullRoot} \in SUBSET Nat
      BY DEF NullRoot
    <3> QED BY <3>1, <1>4
  <2>2. PICK t : t = Load(Token, r)
    OBVIOUS
  <2>3. t = [op |-> "null", reg |-> r, arg |-> 0]
    BY <2>2, <1>1, <1>5, <1>8 DEF Load, Null
  <2>4. t \in Instrs /\ t.op = "null" /\ t.reg = r
    BY <2>3, <1>6 DEF Instrs
  <2>5. InstrOK(t, U, W, B, r, G)
    BY <2>1, <2>4, <1>6 DEF InstrOK
  <2>6. NullRoot \in v
    BY <1>5, <1>8 DEF Gives
  <2>7. Loads(P[c], t, c, U, W, B, r, G, v)
    BY <2>1, <2>4, <2>5, <2>6, <1>5, <1>8 DEF Loads
  <2> QED BY <2>1, <2>2, <2>7 DEF Loaded
<1>9. CASE e = "name" /\ Seen(L, o, P[c].y)
  <2>1. PICK y : y = P[c].y
    OBVIOUS
  <2>2. Declared(D, l + 1, y) /\ l + 1 \in Nat
    BY <2>1, <1>1, <1>9 DEF Seen, Declared
  <2>3. PICK d : Inmost(D, l + 1, y, d)
    BY <2>2, InmostExists
  <2>4. ReadVar(s, y) = s[d][y] /\ s[d][y] \in 1 .. n
    BY <2>2, <2>3, <1>3, ReadIs
  <2>5. d \in 1 .. l + 1 /\ y \in D[d]
    BY <2>3 DEF Inmost
  <2>6. PICK q : q = s[d][y]
    OBVIOUS
  <2>7. q \in U /\ q \in 1 .. n /\ A[q] \subseteq a[d][y]
    BY <2>4, <2>5, <2>6, <1>3 DEF Covered, Named
  <2>8. PICK B : B \in [Nat -> SUBSET Nat] /\ Extends(A, B, n) /\ B[r] = A[q]
    <3>1. A[q] \in SUBSET Nat
      BY <2>7
    <3> QED BY <3>1, <1>4
  <2>9. PICK t : t = Load(Token, r)
    OBVIOUS
  <2>10. t = [op |-> "move", reg |-> r, arg |-> q]
    BY <2>1, <2>4, <2>6, <2>9, <1>2, <1>5, <1>9 DEF Load, Move
  <2>11. t \in Instrs /\ t.op = "move" /\ t.reg = r /\ t.arg = q
    BY <2>7, <2>10, <1>6 DEF Instrs
  <2>12. B[q] = A[q]
    BY <2>7, <2>8 DEF Extends
  <2>13. InstrOK(t, U, W, B, r, G)
    BY <2>7, <2>8, <2>11, <2>12, <1>6 DEF InstrOK
  <2>14. a[d][y] \subseteq v
    BY <2>1, <2>3, <1>5, <1>9 DEF Gives
  <2>15. Loads(P[c], t, c, U, W, B, r, G, v)
    BY <2>7, <2>8, <2>11, <2>13, <2>14, <1>5, <1>9 DEF Loads
  <2> QED BY <2>8, <2>9, <2>15 DEF Loaded
<1> QED BY <1>5, <1>7, <1>8, <1>9 DEF Reads

LEMMA EndKnown ==
  ASSUME NEW bs, NEW A, NEW H, NEW n, NEW G, CodeOK(bs, A, H, n, G), NEW b \in 1 .. Len(bs)
  PROVE  HEnd(bs, H, b) \subseteq 1 .. n /\ n \in Nat /\ A \in [Nat -> SUBSET Nat]
<1>1. n \in Nat /\ A \in [Nat -> SUBSET Nat] /\ BlocksOK(bs) /\ KnownOK(bs, H, n)
  BY DEF CodeOK
<1>2. bs[b].code \in Seq(Instrs)
  BY <1>1 DEF BlocksOK, IsBlock
<1>3. Len(bs[b].code) + 1 \in 1 .. Len(bs[b].code) + 1
  BY <1>2
<1> QED BY <1>1, <1>3 DEF HEnd, KnownOK

(* One instruction, and two. *)
EmittingTo(bs, A, H, n, G, here, B, m, instrs, V) ==
  \E W : Emitting(bs, A, H, n, G, here, B, m, instrs, W) /\ W[Len(instrs) + 1] = V

LEMMA EmitOne ==
  ASSUME NEW bs, NEW A, NEW H, NEW n \in Nat, NEW G, NEW here, NEW U, U = HEnd(bs, H, here), U \subseteq 1 .. n,
         NEW m \in Nat, n <= m, NEW B \in [Nat -> SUBSET Nat], Extends(A, B, n),
         NEW V, V \subseteq 1 .. m, NEW t, InstrOK(t, U, V, B, m, G), t.op = "free" => t.arg \in U
  PROVE  EmittingTo(bs, A, H, n, G, here, B, m, <<t>>, V)
<1>1. PICK W : W = [j \in Nat |-> IF j = 1 THEN U ELSE V]
  OBVIOUS
<1>2. PICK instrs : instrs = <<t>>
  OBVIOUS
<1>3. t \in Instrs
  BY DEF InstrOK
<1>4. instrs \in Seq(Instrs) /\ Len(instrs) = 1 /\ instrs[1] = t
  BY <1>2, <1>3
<1>5. \A j \in Nat : j \in 1 .. 1 => j = 1
  OBVIOUS
<1>6. W[1] = U /\ W[1 + 1] = V /\ W \in [Nat -> SUBSET Nat]
  BY <1>1
<1>10. U \subseteq 1 .. m
  OBVIOUS
<1>11. \A j \in 1 .. Len(instrs) + 1 : j = 1 \/ j = 1 + 1
  BY <1>4
<1>7. \A j \in 1 .. Len(instrs) + 1 : W[j] \subseteq 1 .. m
  BY <1>6, <1>10, <1>11
<1>8. \A j \in 1 .. Len(instrs) : j = 1
  BY <1>4
<1>9. Emitting(bs, A, H, n, G, here, B, m, instrs, W)
  BY <1>4, <1>6, <1>7, <1>8 DEF Emitting
<1> QED BY <1>2, <1>4, <1>6, <1>9 DEF EmittingTo

LEMMA EmitTwo ==
  ASSUME NEW bs, NEW A, NEW H, NEW n \in Nat, NEW G, NEW here, NEW U, U = HEnd(bs, H, here), U \subseteq 1 .. n,
         NEW m \in Nat, n <= m, NEW B \in [Nat -> SUBSET Nat], Extends(A, B, n),
         NEW V, V \subseteq 1 .. m, NEW t, InstrOK(t, U, V, B, m, G), t.op = "free" => t.arg \in U,
         NEW X, X \subseteq 1 .. m, NEW u, InstrOK(u, V, X, B, m, G), u.op = "free" => u.arg \in U
  PROVE  EmittingTo(bs, A, H, n, G, here, B, m, <<t, u>>, X)
<1>1. PICK W : W = [j \in Nat |-> IF j = 1 THEN U ELSE IF j = 2 THEN V ELSE X]
  OBVIOUS
<1>2. PICK instrs : instrs = <<t, u>>
  OBVIOUS
<1>3. t \in Instrs /\ u \in Instrs
  BY DEF InstrOK
<1>4. instrs \in Seq(Instrs) /\ Len(instrs) = 2 /\ instrs[1] = t /\ instrs[2] = u
  BY <1>2, <1>3
<1>6. W[1] = U /\ W[1 + 1] = V /\ W[2] = V /\ W[2 + 1] = X /\ W \in [Nat -> SUBSET Nat]
  BY <1>1
<1>12. U \subseteq 1 .. m
  OBVIOUS
<1>13. \A j \in 1 .. Len(instrs) + 1 : j = 1 \/ j = 2 \/ j = 2 + 1
  BY <1>4
<1>7. \A j \in 1 .. Len(instrs) + 1 : W[j] \subseteq 1 .. m
  BY <1>6, <1>12, <1>13
<1>8. \A j \in 1 .. Len(instrs) : j = 1 \/ j = 2
  BY <1>4
<1>9. \A j \in 1 .. Len(instrs) : InstrOK(instrs[j], W[j], W[j + 1], B, m, G)
  BY <1>4, <1>6, <1>8
<1>10. \A j \in 1 .. Len(instrs) : instrs[j].op = "free" => instrs[j].arg \in W[1] \/ Made(bs, instrs[j].arg)
  BY <1>4, <1>6, <1>8
<1>11. Emitting(bs, A, H, n, G, here, B, m, instrs, W)
  BY <1>4, <1>6, <1>7, <1>9, <1>10 DEF Emitting
<1> QED BY <1>2, <1>4, <1>6, <1>11 DEF EmittingTo

(* The birth register of a constructor. *)
LEMMA BornGrows ==
  ASSUME NEW p, NEW c, c = pc, NEW t, NEW U, NEW W, NEW B, NEW m \in Nat, m \in 1 .. m, NEW G, NEW v,
         Loads(p, t, c, U, W, B, m, G, v), NEW tr, tr = Born(p, m)
  PROVE  SitesGrow(siteReg, tr, <<t>>, B, m)
<1>1. PICK sr : sr = siteReg
  OBVIOUS
<1>2. CASE p.e = "ctor"
  <2>1. tr = Bind(sr, c, [reg |-> m, depth |-> depth])
    BY <1>1, <1>2 DEF Born
  <2>2. DOMAIN tr = DOMAIN sr \cup {c} /\ tr[c].reg = m /\ \A s \in DOMAIN sr : s # c => tr[s] = sr[s]
    BY <2>1 DEF Bind
  <2>3. t.op = "new" /\ t.reg = m /\ B[m] = {c}
    BY <1>2 DEF Loads
  <2>4. Len(<<t>>) = 1 /\ <<t>>[1] = t /\ 1 \in 1 .. 1
    OBVIOUS
  <2>5. \E j \in 1 .. Len(<<t>>) : <<t>>[j].op = "new" /\ <<t>>[j].reg = m
    BY <2>3, <2>4
  <2>6. ASSUME NEW s \in DOMAIN tr
        PROVE  \/ s \in DOMAIN sr /\ tr[s].reg = sr[s].reg
               \/ /\ tr[s].reg \in 1 .. m /\ B[tr[s].reg] = {s}
                  /\ \E j \in 1 .. Len(<<t>>) : <<t>>[j].op = "new" /\ <<t>>[j].reg = tr[s].reg
    <3>1. CASE s = c
      BY <3>1, <2>2, <2>3, <2>5
    <3>2. CASE s # c
      BY <3>2, <2>2
    <3> QED BY <3>1, <3>2
  <2> QED BY <2>6, <1>1 DEF SitesGrow
<1>3. CASE p.e # "ctor"
  <2>1. tr = sr
    BY <1>1, <1>3 DEF Born
  <2> QED BY <2>1, <1>1 DEF SitesGrow
<1> QED BY <1>2, <1>3

LEMMA LowerLocalOK ==
  ASSUME NEW P, NEW N, NEW L, NEW h, NEW A, NEW H, LowerOK(P, N, L, h, A, H), LowerLocal, UNCHANGED analysis
  PROVE  \E B, K : LowerOK(P, N, L, h, B, K)'
<1>1. PICK c, o, l, D : Here(L, c, o, l, D)
  BY DEF Here
<1>2. pc <= N /\ Token.op = "local"
  <2>1. Len(prog) = N
    BY DEF LowerOK, WalkedTo, Program
  <2> QED BY <2>1 DEF LowerLocal, At
<1>3. /\ c \in 1 .. N /\ c \in Nat /\ Program(P, N, L)
      /\ Token = P[c]
      /\ Placed(P, L, o, c) /\ o \in Nat /\ l \in Nat
      /\ Flow(P, L, h, doExitFrees, o, c)
      /\ CodeOK(blocks, A, H, nregs, Manner(P, doExitFrees)) /\ nregs \in Nat
      /\ cur \in 1 .. Len(blocks)
      /\ EnvOK(env, h[c], l + 1, D, A, nregs, HEnd(blocks, H, cur))
  BY <1>1, <1>2, LowerStands
<1>4. c = pc /\ o = c - 1 /\ l = L.lev[o] /\ D = L.dcl[o]
  BY <1>1 DEF Here
<1>5. Declares(P, L, o, c)
  BY <1>2, <1>3 DEF Placed, Opens, Turns, Shuts, Refers, Openers
<1>6. PICK x, E, n, r, U, G : x = P[c].x /\ E = L.dcl[c] /\ n = nregs /\ r = n + 1
                              /\ U = HEnd(blocks, H, cur) /\ G = Manner(P, doExitFrees)
  OBVIOUS
<1>7. /\ Reads(P, L, o, c) /\ x \notin D[l + 1]
      /\ L.lev[c] = l /\ L.opn[c] = L.opn[o] /\ L.arm[c] = L.arm[o]
      /\ E = [D EXCEPT ![l + 1] = D[l + 1] \cup {x}]
  BY <1>4, <1>5, <1>6 DEF Declares
<1>8. D \in [Nat -> SUBSET Names]
  BY <1>1, <1>2, LowerStands
<1>9. E[l + 1] = D[l + 1] \cup {x} /\ \A i \in 1 .. l : E[i] = D[i]
  BY <1>3, <1>7, <1>8
<1>10. PICK a, b : a = h[c] /\ b = h[c + 1]
  OBVIOUS
<1>11. Gives(P, c, D, l + 1, a, b[l + 1][x]) /\ Under(a, b, l + 1, D)
  <2>1. FlowStmt(P, c, D, l + 1, a, b)
    BY <1>3, <1>4, <1>10 DEF Flow
  <2> QED BY <2>1, <1>2, <1>3, <1>6 DEF FlowStmt
<1>12. U \subseteq 1 .. n /\ n \in Nat /\ A \in [Nat -> SUBSET Nat] /\ r \in Nat /\ n <= r /\ r \in 1 .. r
  BY <1>3, <1>6, EndKnown
<1>13. EnvOK(env, a, l + 1, D, A, n, U) /\ c >= 1
  BY <1>3, <1>6, <1>10
<1>14. PICK V : V = U \cup {r}
  OBVIOUS
<1>15. PICK B : /\ B \in [Nat -> SUBSET Nat] /\ Extends(A, B, n)
                /\ Loads(P[c], Load(Token, r), c, U, V, B, r, G, b[l + 1][x])
  <2>1. Gives(P, c, D, l + 1, a, b[l + 1][x])
    BY <1>11
  <2>2. PICK v : v = b[l + 1][x]
    OBVIOUS
  <2>3. r = n + 1
    BY <1>6
  <2>4. \E B : Loaded(P[c], Load(Token, r), c, U, V, A, B, n, r, G, v)
    BY <1>1, <1>3, <1>7, <1>12, <1>13, <1>14, <2>1, <2>2, <2>3, LoadOK
  <2> QED BY <2>2, <2>4 DEF Loaded
<1>16. PICK t : t = Load(Token, r)
  OBVIOUS
<1>17. /\ InstrOK(t, U, V, B, r, G) /\ t.op # "free" /\ B[r] \subseteq b[l + 1][x]
  BY <1>15, <1>16 DEF Loads
<1>18. V \subseteq 1 .. r
  BY <1>12, <1>14
<1>19. PICK W : Emitting(blocks, A, H, n, G, cur, B, r, <<t>>, W) /\ W[Len(<<t>>) + 1] = V
  <2>1. U = HEnd(blocks, H, cur)
    BY <1>6
  <2>2. InstrOK(t, U, V, B, r, G) /\ (t.op = "free" => t.arg \in U)
    BY <1>17
  <2>3. EmittingTo(blocks, A, H, n, G, cur, B, r, <<t>>, V)
    BY <2>1, <2>2, <1>12, <1>15, <1>18, EmitOne
  <2> QED BY <2>3 DEF EmittingTo
<1>20. PICK s, e : s = env /\ e = env'
  OBVIOUS
<1>21. Stack(e, l + 1, E, 1 .. r) /\ Changed(s, e, D, l + 1, l + 1, x, r)
  <2>1. Stack(s, l + 1, D, 1 .. n)
    BY <1>13, <1>20 DEF EnvOK
  <2>2. 1 .. n \subseteq 1 .. r
    BY <1>12
  <2>3. Stack(s, l + 1, D, 1 .. r)
    BY <2>1, <2>2, StackWider
  <2>4. Len(s) = l + 1
    BY <2>1 DEF Stack
  <2>5. e = [s EXCEPT ![l + 1] = Bind(s[l + 1], x, r)]
    BY <2>4, <1>3, <1>6, <1>20 DEF LowerLocal
  <2>6. PICK k : k = l + 1
    OBVIOUS
  <2>7. k \in Nat /\ k >= 1 /\ \A i \in 1 .. k - 1 : i \in 1 .. l
    BY <1>3, <2>6
  <2>8. E[k] = D[k] \cup {x} /\ \A i \in 1 .. k - 1 : E[i] = D[i]
    BY <1>9, <2>6, <2>7
  <2>9. Stack(s, k, D, 1 .. r) /\ e = [s EXCEPT ![k] = Bind(s[k], x, r)] /\ r \in 1 .. r
    BY <2>3, <2>5, <2>6, <1>12
  <2>10. Stack(e, k, E, 1 .. r) /\ Changed(s, e, D, k, k, x, r)
    BY <2>7, <2>8, <2>9, StackBind
  <2> QED BY <2>6, <2>10
<1>22. EnvOK(e, b, l + 1, E, B, r, V)
  <2>1. \A i \in 1 .. l + 1 : \A y \in E[i] : (i = l + 1 /\ y = x) \/ y \in D[i]
    BY <1>3, <1>9
  <2>2. UnderBut(a, b, l + 1, D, l + 1, x)
    BY <1>11 DEF Under, UnderBut
  <2>3. r \in V /\ \A i \in 1 .. l + 1 : \A y \in D[i] : i # l + 1 \/ y # x => s[i][y] \in V
    BY <1>13, <1>14, <1>20 DEF EnvOK, Named
  <2> QED BY <2>1, <2>2, <2>3, <1>13, <1>15, <1>17, <1>20, <1>21, EnvChanged
<1>23. Touches(P, c, D, l, s, e)
  <2>1. \A d \in 1 .. l : d \in 1 .. l + 1 /\ d # l + 1
    BY <1>3
  <2> QED BY <2>1, <1>21 DEF Touches, Changed
<1>24. SitesGrow(siteReg, siteReg', <<t>>, B, r)
  <2>1. siteReg' = Born(P[c], r)
    BY <1>3, <1>6 DEF LowerLocal
  <2>2. Loads(P[c], t, c, U, V, B, r, G, b[l + 1][x])
    BY <1>15, <1>16
  <2> QED BY <2>1, <2>2, <1>4, <1>12, BornGrows
<1>25. /\ Advance /\ UNCHANGED <<cur, depth, ctl>> /\ r = nregs'
       /\ blocks' = CodeAdded(blocks, cur, <<t>>)
  BY <1>6, <1>16 DEF LowerLocal, Emitted, CodeAdded
<1>26. Same(D, L.dcl[c], l)
  BY <1>6, <1>9 DEF Same
<1>27. PICK instrs : instrs = <<t>>
  OBVIOUS
<1>28. /\ Emitting(blocks, A, H, nregs, Manner(P, doExitFrees), cur, B, r, instrs, W)
       /\ EnvOK(e, h[c + 1], l + 1, L.dcl[c], B, r, W[Len(instrs) + 1])
       /\ Touches(P, c, D, l, env, e) /\ SitesGrow(siteReg, siteReg', instrs, B, r)
       /\ blocks' = CodeAdded(blocks, cur, instrs) /\ e = env'
  BY <1>6, <1>10, <1>19, <1>20, <1>22, <1>23, <1>24, <1>25, <1>27
<1>29. \E K : LowerOK(P, N, L, h, B, K)'
  BY <1>1, <1>2, <1>7, <1>25, <1>26, <1>28, LowerEmits
<1> QED BY <1>29

(* The register of a name is replaced. *)
LEMMA UpdateIs ==
  ASSUME NEW D, NEW k \in Nat, NEW s, NEW r \in Nat, r \in 1 .. r, Stack(s, k, D, 1 .. r),
         NEW x, NEW d, Inmost(D, k, x, d), NEW t, t = UpdateVar(s, x, r)
  PROVE  Stack(t, k, D, 1 .. r) /\ Changed(s, t, D, k, d, x, r)
<1>1. Depth(s, x) = d
  BY DepthIs
<1>2. t = [s EXCEPT ![d][x] = r]
  BY <1>1 DEF UpdateVar
<1>3. d \in 1 .. k /\ x \in D[d]
  BY DEF Inmost
<1> QED BY <1>2, <1>3, StackUpdate

(* What an assignment or a drop leaves known: the new register, and those of all *)
(* other bindings.                                                          *)
Leaves(s, k, D, d, x, r, V) ==
  r \in V /\ \A i \in 1 .. k : \A y \in D[i] : i # d \/ y # x => s[i][y] \in V

LEMMA LowerOverwrites ==
  ASSUME NEW P, NEW N, NEW L, NEW h, NEW A, NEW H, LowerOK(P, N, L, h, A, H), pc <= N,
         NEW c, NEW o, NEW l, NEW D, Here(L, c, o, l, D), Advance, UNCHANGED analysis,
         P[c].op = "assign", UNCHANGED <<cur, depth, ctl>>,
         NEW B, NEW r, r = nregs + 1, nregs' = r, NEW instrs, NEW W,
         Emitting(blocks, A, H, nregs, Manner(P, doExitFrees), cur, B, r, instrs, W),
         blocks' = CodeAdded(blocks, cur, instrs), NEW x, x = P[c].x,
         env' = UpdateVar(env, x, r), NEW d, Inmost(D, l + 1, x, d), B[r] \subseteq h[c + 1][d][x],
         Leaves(env, l + 1, D, d, x, r, W[Len(instrs) + 1]),
         SitesGrow(siteReg, siteReg', instrs, B, r)
  PROVE  \E K : LowerOK(P, N, L, h, B, K)'
<1>1. /\ c \in 1 .. N /\ Placed(P, L, o, c) /\ l \in Nat /\ nregs \in Nat
      /\ Flow(P, L, h, doExitFrees, o, c)
      /\ EnvOK(env, h[c], l + 1, D, A, nregs, HEnd(blocks, H, cur))
  BY LowerStands
<1>2. c = pc /\ o = c - 1 /\ l = L.lev[o] /\ D = L.dcl[o]
  BY DEF Here
<1>3. Refers(P, L, o, c)
  BY <1>1 DEF Placed, Opens, Turns, Shuts, Declares, Openers
<1>4. L.lev[c] = l /\ L.opn[c] = L.opn[o] /\ L.arm[c] = L.arm[o] /\ L.dcl[c] = D
  BY <1>2, <1>3 DEF Refers
<1>5. PICK s, e, k, a, b, n, V : /\ s = env /\ e = env' /\ k = l + 1 /\ a = h[c] /\ b = h[c + 1] /\ n = nregs
                                 /\ V = W[Len(instrs) + 1]
  OBVIOUS
<1>6. k \in Nat /\ n \in Nat /\ r \in Nat /\ r \in 1 .. r /\ 1 .. n \subseteq 1 .. r
  BY <1>1, <1>5
<1>7. Stack(s, k, D, 1 .. n)
  BY <1>1, <1>5 DEF EnvOK
<1>8. Stack(s, k, D, 1 .. r)
  BY <1>6, <1>7, StackWider
<1>9. Inmost(D, k, x, d) /\ e = UpdateVar(s, x, r)
  BY <1>5
<1>10. Stack(e, k, D, 1 .. r) /\ Changed(s, e, D, k, d, x, r)
  BY <1>6, <1>8, <1>9, UpdateIs
<1>11. UnderBut(a, b, k, D, d, x)
  <2>1. FlowStmt(P, c, D, k, a, b)
    BY <1>1, <1>2, <1>5 DEF Flow
  <2> QED BY <2>1, <1>9 DEF FlowStmt
<1>12. EnvOK(s, a, k, D, A, n, HEnd(blocks, H, cur))
  BY <1>1, <1>5
<1>13. Extends(A, B, n)
  BY <1>5 DEF Emitting
<1>14. r \in V /\ \A i \in 1 .. k : \A y \in D[i] : i # d \/ y # x => s[i][y] \in V
  BY <1>5 DEF Leaves
<1>15. \A i \in 1 .. k : \A y \in D[i] : (i = d /\ y = x) \/ y \in D[i]
  OBVIOUS
<1>16. B[r] \subseteq b[d][x]
  BY <1>5
<1>17. EnvOK(e, b, k, D, B, r, V)
  BY <1>10, <1>11, <1>12, <1>13, <1>14, <1>15, <1>16, EnvChanged
<1>18. EnvOK(e, h[c + 1], l + 1, L.dcl[c], B, r, W[Len(instrs) + 1])
  BY <1>4, <1>5, <1>17
<1>19. Touches(P, c, D, l, s, e)
  <2>1. \A i \in 1 .. l : i \in 1 .. k
    BY <1>1, <1>5
  <2>2. SUFFICES ASSUME NEW i \in 1 .. l, NEW y \in D[i], e[i][y] # s[i][y]
                 PROVE  P[c].op = "assign" /\ P[c].x = y /\ Inmost(D, l + 1, y, i)
    BY DEF Touches
  <2>3. i = d /\ y = x
    BY <2>1, <2>2, <1>10 DEF Changed
  <2> QED BY <2>3
<1>20. Same(D, L.dcl[c], l)
  BY <1>4 DEF Same
<1>21. Touches(P, c, D, l, env, e) /\ r = nregs' /\ e = env'
  BY <1>5, <1>19
<1> QED BY <1>4, <1>18, <1>20, <1>21, LowerEmits

LEMMA LowerAssignOK ==
  ASSUME NEW P, NEW N, NEW L, NEW h, NEW A, NEW H, LowerOK(P, N, L, h, A, H), LowerAssign, UNCHANGED analysis
  PROVE  \E B, K : LowerOK(P, N, L, h, B, K)'
<1>1. PICK c, o, l, D : Here(L, c, o, l, D)
  BY DEF Here
<1>2. pc <= N /\ Token.op = "assign"
  <2>1. Len(prog) = N
    BY DEF LowerOK, WalkedTo, Program
  <2> QED BY <2>1 DEF LowerAssign, At
<1>3. /\ c \in 1 .. N /\ c \in Nat
      /\ Token = P[c]
      /\ Placed(P, L, o, c) /\ o \in Nat /\ l \in Nat
      /\ Flow(P, L, h, doExitFrees, o, c)
      /\ CodeOK(blocks, A, H, nregs, Manner(P, doExitFrees)) /\ nregs \in Nat
      /\ cur \in 1 .. Len(blocks)
      /\ EnvOK(env, h[c], l + 1, D, A, nregs, HEnd(blocks, H, cur))
  BY <1>1, <1>2, LowerStands
<1>4. c = pc /\ o = c - 1 /\ l = L.lev[o] /\ D = L.dcl[o]
  BY <1>1 DEF Here
<1>5. Refers(P, L, o, c)
  BY <1>2, <1>3 DEF Placed, Opens, Turns, Shuts, Declares, Openers
<1>6. PICK x, n, r, U, G, k, a, b : /\ x = P[c].x /\ n = nregs /\ r = n + 1
                                 /\ U = HEnd(blocks, H, cur) /\ G = Manner(P, doExitFrees)
                                 /\ k = l + 1 /\ a = h[c] /\ b = h[c + 1]
  OBVIOUS
<1>7. Reads(P, L, o, c) /\ Declared(D, k, x) /\ k \in Nat
  BY <1>3, <1>4, <1>5, <1>6 DEF Refers, Seen, Declared
<1>8. PICK d : Inmost(D, k, x, d)
  BY <1>7, InmostExists
<1>9. PICK v : v = b[d][x]
  OBVIOUS
<1>10. Gives(P, c, D, k, a, v)
  <2>1. FlowStmt(P, c, D, k, a, b)
    BY <1>3, <1>4, <1>6 DEF Flow
  <2> QED BY <2>1, <1>2, <1>3, <1>6, <1>8, <1>9 DEF FlowStmt
<1>11. U \subseteq 1 .. n /\ n \in Nat /\ A \in [Nat -> SUBSET Nat] /\ r \in Nat /\ n <= r /\ r \in 1 .. r
  BY <1>3, <1>6, EndKnown
<1>12. EnvOK(env, a, k, D, A, n, U) /\ c >= 1
  BY <1>3, <1>6
<1>13. PICK V : V = U \cup {r}
  OBVIOUS
<1>14. PICK B : /\ B \in [Nat -> SUBSET Nat] /\ Extends(A, B, n)
                /\ Loads(P[c], Load(Token, r), c, U, V, B, r, G, v)
  <2>1. EnvOK(env, a, l + 1, D, A, n, U) /\ Gives(P, c, D, l + 1, a, v) /\ r = n + 1
    BY <1>6, <1>10, <1>12
  <2>2. \E B : Loaded(P[c], Load(Token, r), c, U, V, A, B, n, r, G, v)
    BY <1>1, <1>3, <1>7, <1>11, <1>12, <1>13, <2>1, LoadOK
  <2> QED BY <2>2 DEF Loaded
<1>15. PICK t : t = Load(Token, r)
  OBVIOUS
<1>16. /\ InstrOK(t, U, V, B, r, G) /\ t.op # "free" /\ B[r] \subseteq v
  BY <1>14, <1>15 DEF Loads
<1>17. V \subseteq 1 .. r
  BY <1>11, <1>13
<1>18. PICK W : Emitting(blocks, A, H, n, G, cur, B, r, <<t>>, W) /\ W[Len(<<t>>) + 1] = V
  <2>1. U = HEnd(blocks, H, cur)
    BY <1>6
  <2>2. InstrOK(t, U, V, B, r, G) /\ (t.op = "free" => t.arg \in U)
    BY <1>16
  <2>3. EmittingTo(blocks, A, H, n, G, cur, B, r, <<t>>, V)
    BY <2>1, <2>2, <1>11, <1>14, <1>17, EmitOne
  <2> QED BY <2>3 DEF EmittingTo
<1>19. Leaves(env, k, D, d, x, r, V)
  <2>1. r \in V /\ U \subseteq V
    BY <1>13
  <2>2. \A i \in 1 .. k : \A y \in D[i] : env[i][y] \in U
    BY <1>12 DEF EnvOK, Named
  <2> QED BY <2>1, <2>2 DEF Leaves
<1>20. SitesGrow(siteReg, siteReg', <<t>>, B, r)
  <2>1. siteReg' = Born(P[c], r)
    BY <1>3, <1>6 DEF LowerAssign
  <2>2. Loads(P[c], t, c, U, V, B, r, G, v)
    BY <1>14, <1>15
  <2> QED BY <2>1, <2>2, <1>4, <1>11, BornGrows
<1>21. /\ Advance /\ UNCHANGED <<cur, depth, ctl>> /\ r = nregs + 1 /\ nregs' = r
       /\ blocks' = CodeAdded(blocks, cur, <<t>>) /\ env' = UpdateVar(env, x, r)
  BY <1>3, <1>6, <1>15 DEF LowerAssign, Emitted, CodeAdded
<1>22. PICK instrs : instrs = <<t>>
  OBVIOUS
<1>23. /\ Emitting(blocks, A, H, nregs, Manner(P, doExitFrees), cur, B, r, instrs, W)
       /\ Leaves(env, l + 1, D, d, x, r, W[Len(instrs) + 1])
       /\ SitesGrow(siteReg, siteReg', instrs, B, r)
       /\ blocks' = CodeAdded(blocks, cur, instrs)
       /\ Inmost(D, l + 1, x, d) /\ B[r] \subseteq h[c + 1][d][x]
  BY <1>6, <1>8, <1>9, <1>16, <1>18, <1>19, <1>20, <1>21, <1>22
<1>24. P[c].op = "assign" /\ x = P[c].x
  BY <1>2, <1>3, <1>6
<1>25. \E K : LowerOK(P, N, L, h, B, K)'
  BY <1>1, <1>2, <1>21, <1>23, <1>24, LowerOverwrites
<1> QED BY <1>25

(* The null register of a drop. *)
LEMMA NullIs ==
  ASSUME NEW n \in Nat, NEW r, r = n + 1, NEW A \in [Nat -> SUBSET Nat], NEW U, U \subseteq 1 .. n, NEW G
  PROVE  \E B : /\ B \in [Nat -> SUBSET Nat] /\ Extends(A, B, n) /\ B[r] = {NullRoot}
                /\ InstrOK(Null(r), U, U \cup {r}, B, r, G)
<1>1. PICK X : X = {NullRoot}
  OBVIOUS
<1>2. X \in SUBSET Nat /\ r \in Nat /\ r \in 1 .. r
  BY <1>1 DEF NullRoot
<1>3. PICK B : B = [A EXCEPT ![r] = X]
  OBVIOUS
<1>4. B \in [Nat -> SUBSET Nat] /\ B[r] = X /\ \A q \in Nat : q # r => B[q] = A[q]
  BY <1>2, <1>3
<1>5. \A q \in 1 .. n : q \in Nat /\ q # r
  OBVIOUS
<1>6. Extends(A, B, n)
  BY <1>4, <1>5 DEF Extends
<1>7. PICK t : t = Null(r)
  OBVIOUS
<1>8. t \in Instrs /\ t.op = "null" /\ t.reg = r
  BY <1>2, <1>7 DEF Instrs, Null
<1>9. NullRoot \in B[r]
  BY <1>1, <1>4
<1>10. InstrOK(t, U, U \cup {r}, B, r, G)
  BY <1>2, <1>8, <1>9 DEF InstrOK
<1> QED BY <1>1, <1>4, <1>6, <1>7, <1>10

(* The registers of the other bindings. *)
Others(s, k, D, d, x) == {r \in Nat : \E i \in 1 .. k : \E y \in D[i] : (i # d \/ y # x) /\ r = s[i][y]}

(* A drop that frees: no other register that stays known may hold what it frees. *)
FreesAlone(G, a, k, D, d, x) == "apart" \in G => Alone(a, k, D, d, x)
Frees(q, U, V, B, r, G) == V \subseteq U /\ q \in U /\ InstrOK(Free(q), U, V, B, r, G)

LEMMA FreeIs ==
  ASSUME NEW s, NEW a, NEW k, NEW D, NEW A, NEW n \in Nat, NEW U, U \subseteq 1 .. n, EnvOK(s, a, k, D, A, n, U),
         NEW d, NEW x, Inmost(D, k, x, d), NEW G, FreesAlone(G, a, k, D, d, x),
         NEW r \in Nat, n <= r, NEW B, Extends(A, B, n)
  PROVE  Frees(s[d][x], U, Others(s, k, D, d, x), B, r, G)
<1>9. PICK q, V : q = s[d][x] /\ V = Others(s, k, D, d, x)
  OBVIOUS
<1>1. \A i \in 1 .. k : \A y \in D[i] : s[i][y] \in U /\ A[s[i][y]] \subseteq a[i][y]
  BY DEF EnvOK, Covered, Named
<1>2. V \subseteq U
  BY <1>1, <1>9 DEF Others
<1>3. q \in U /\ A[q] \subseteq a[d][x]
  BY <1>1, <1>9 DEF Inmost
<1>4. PICK t : t = Free(q)
  OBVIOUS
<1>5. q \in 1 .. n /\ q \in Nat /\ q \in 1 .. r
  BY <1>3
<1>6. t \in Instrs /\ t.op = "free" /\ t.arg = q
  BY <1>4, <1>5 DEF Instrs, Free
<1>7. ASSUME "apart" \in G, NEW v \in V
      PROVE  B[v] \cap B[q] \subseteq {NullRoot}
  <2>1. PICK i \in 1 .. k : \E y \in D[i] : (i # d \/ y # x) /\ v = s[i][y]
    BY <1>7, <1>9 DEF Others
  <2>5. PICK y \in D[i] : (i # d \/ y # x) /\ v = s[i][y]
    BY <2>1
  <2>2. a[i][y] \cap a[d][x] \subseteq {NullRoot}
    BY <2>5, <1>7 DEF Alone, FreesAlone
  <2>3. A[v] \subseteq a[i][y] /\ v \in 1 .. n
    BY <2>5, <1>1
  <2>4. B[v] = A[v] /\ B[q] = A[q]
    BY <2>3, <1>5 DEF Extends
  <2> QED BY <2>2, <2>3, <2>4, <1>3
<1>8. InstrOK(t, U, V, B, r, G)
  BY <1>2, <1>3, <1>5, <1>6, <1>7 DEF InstrOK
<1> QED BY <1>2, <1>3, <1>4, <1>8, <1>9 DEF Frees

LEMMA LowerDropOK ==
  ASSUME NEW P, NEW N, NEW L, NEW h, NEW A, NEW H, LowerOK(P, N, L, h, A, H), LowerDrop, UNCHANGED analysis
  PROVE  \E B, K : LowerOK(P, N, L, h, B, K)'
<1>1. PICK c, o, l, D : Here(L, c, o, l, D)
  BY DEF Here
<1>2. pc <= N /\ Token.op = "assign" /\ Token.e = "nil"
  <2>1. Len(prog) = N
    BY DEF LowerOK, WalkedTo, Program
  <2> QED BY <2>1 DEF LowerDrop, At
<1>3. /\ c \in 1 .. N /\ c \in Nat
      /\ Token = P[c]
      /\ Placed(P, L, o, c) /\ o \in Nat /\ l \in Nat
      /\ Flow(P, L, h, doExitFrees, o, c)
      /\ OutsideIn(P) /\ c \in freeSites => SoleDrop(P, L, h, o, c)
      /\ CodeOK(blocks, A, H, nregs, Manner(P, doExitFrees)) /\ nregs \in Nat
      /\ cur \in 1 .. Len(blocks)
      /\ EnvOK(env, h[c], l + 1, D, A, nregs, HEnd(blocks, H, cur))
  BY <1>1, <1>2, LowerStands
<1>4. c = pc /\ o = c - 1 /\ l = L.lev[o] /\ D = L.dcl[o]
  BY <1>1 DEF Here
<1>5. Refers(P, L, o, c)
  BY <1>2, <1>3 DEF Placed, Opens, Turns, Shuts, Declares, Openers
<1>6. PICK x, n, r, U, G, k, a, b : /\ x = P[c].x /\ n = nregs /\ r = n + 1
                                 /\ U = HEnd(blocks, H, cur) /\ G = Manner(P, doExitFrees)
                                 /\ k = l + 1 /\ a = h[c] /\ b = h[c + 1]
  OBVIOUS
<1>7. Declared(D, k, x) /\ k \in Nat
  BY <1>3, <1>4, <1>5, <1>6 DEF Refers, Seen, Declared
<1>8. PICK d : Inmost(D, k, x, d)
  BY <1>7, InmostExists
<1>9. NullRoot \in b[d][x]
  <2>1. FlowStmt(P, c, D, k, a, b)
    BY <1>3, <1>4, <1>6 DEF Flow
  <2>2. Gives(P, c, D, k, a, b[d][x])
    BY <2>1, <1>2, <1>3, <1>6, <1>8 DEF FlowStmt
  <2> QED BY <2>2, <1>2, <1>3 DEF Gives
<1>10. U \subseteq 1 .. n /\ n \in Nat /\ A \in [Nat -> SUBSET Nat] /\ r \in Nat /\ n <= r /\ r \in 1 .. r
  BY <1>3, <1>6, EndKnown
<1>11. EnvOK(env, a, k, D, A, n, U)
  BY <1>3, <1>6
<1>12. PICK q : q = ReadVar(env, x)
  OBVIOUS
<1>13. q = env[d][x]
  <2>1. Stack(env, k, D, 1 .. n)
    BY <1>11 DEF EnvOK
  <2> QED BY <2>1, <1>7, <1>8, <1>12, ReadIs
<1>14. \A i \in 1 .. k : \A y \in D[i] : env[i][y] \in U /\ env[i][y] \in Nat
  <2>1. \A i \in 1 .. k : \A y \in D[i] : env[i][y] \in U
    BY <1>11 DEF EnvOK, Named
  <2>2. U \subseteq Nat
    BY <1>10
  <2> QED BY <2>1, <2>2
<1>15. PICK t : t = Null(r)
  OBVIOUS
<1>16. t.op # "new" /\ t.op # "free"
  BY <1>15 DEF Null
<1>17. /\ Advance /\ UNCHANGED <<cur, depth, ctl>> /\ r = nregs + 1 /\ nregs' = r
       /\ env' = UpdateVar(env, x, r) /\ siteReg' = siteReg /\ P[c].op = "assign" /\ x = P[c].x
  BY <1>2, <1>3, <1>6 DEF LowerDrop
<1>18. \A B, instrs : SitesGrow(siteReg, siteReg', instrs, B, r)
  BY <1>17 DEF SitesGrow
<1>19. ASSUME NEW B, B[r] = {NullRoot}, NEW V, Leaves(env, k, D, d, x, r, V), NEW instrs,
              EmittingTo(blocks, A, H, n, G, cur, B, r, instrs, V), blocks' = CodeAdded(blocks, cur, instrs)
       PROVE  \E K : LowerOK(P, N, L, h, B, K)'
  <2>1. PICK W : Emitting(blocks, A, H, n, G, cur, B, r, instrs, W) /\ W[Len(instrs) + 1] = V
    BY <1>19 DEF EmittingTo
  <2>2. /\ Emitting(blocks, A, H, nregs, Manner(P, doExitFrees), cur, B, r, instrs, W)
        /\ Leaves(env, l + 1, D, d, x, r, W[Len(instrs) + 1])
        /\ SitesGrow(siteReg, siteReg', instrs, B, r)
        /\ blocks' = CodeAdded(blocks, cur, instrs)
        /\ Inmost(D, l + 1, x, d) /\ B[r] \subseteq h[c + 1][d][x]
    BY <2>1, <1>6, <1>8, <1>9, <1>18, <1>19
  <2> QED BY <2>2, <1>1, <1>2, <1>17, LowerOverwrites
<1>20. CASE c \notin freeSites
  <2>1. PICK B : /\ B \in [Nat -> SUBSET Nat] /\ Extends(A, B, n) /\ B[r] = {NullRoot}
                 /\ InstrOK(Null(r), U, U \cup {r}, B, r, G)
    BY <1>6, <1>10, NullIs
  <2>2. PICK V : V = U \cup {r}
    OBVIOUS
  <2>3. Leaves(env, k, D, d, x, r, V)
    BY <2>2, <1>14 DEF Leaves
  <2>4. V \subseteq 1 .. r /\ InstrOK(t, U, V, B, r, G) /\ U = HEnd(blocks, H, cur)
    BY <2>1, <2>2, <1>6, <1>10, <1>15
  <2>5. EmittingTo(blocks, A, H, n, G, cur, B, r, <<t>>, V)
    BY <2>1, <2>4, <1>10, <1>16, EmitOne
  <2>6. blocks' = CodeAdded(blocks, cur, <<t>>)
    <3>1. blocks' = Emitted(<<>> \o <<t>>)
      BY <1>4, <1>6, <1>15, <1>20 DEF LowerDrop
    <3>2. <<>> \o <<t>> = <<t>>
      OBVIOUS
    <3> QED BY <3>1, <3>2 DEF Emitted, CodeAdded
  <2> QED BY <2>1, <2>3, <2>5, <2>6, <1>19
<1>21. CASE c \in freeSites
  <2>1. PICK X : X = Others(env, k, D, d, x)
    OBVIOUS
  <2>2. FreesAlone(G, a, k, D, d, x)
    <3>2. "apart" \in G => OutsideIn(P)
      BY <1>6, MannerIs
    <3>1. "apart" \in G => SoleDrop(P, L, h, o, c)
      BY <3>2, <1>3, <1>21
    <3> QED BY <3>1, <1>4, <1>6, <1>8 DEF SoleDrop, FreesAlone
  <2>3. ASSUME NEW B, Extends(A, B, n)
        PROVE  X \subseteq U /\ q \in U /\ InstrOK(Free(q), U, X, B, r, G)
    <3>1. n \in Nat /\ U \subseteq 1 .. n /\ r \in Nat /\ n <= r
      BY <1>10
    <3>2. Frees(env[d][x], U, Others(env, k, D, d, x), B, r, G)
      BY <3>1, <2>2, <2>3, <1>8, <1>11, FreeIs
    <3> QED BY <3>2, <2>1, <1>13 DEF Frees
  <2>4. X \subseteq U /\ q \in U
    <3>1. Extends(A, A, n)
      BY DEF Extends
    <3> QED BY <3>1, <2>3
  <2>5. X \subseteq 1 .. n
    BY <2>4, <1>10
  <2>6. PICK B : /\ B \in [Nat -> SUBSET Nat] /\ Extends(A, B, n) /\ B[r] = {NullRoot}
                 /\ InstrOK(Null(r), X, X \cup {r}, B, r, G)
    BY <2>5, <1>6, <1>10, NullIs
  <2>7. PICK u : u = Free(q)
    OBVIOUS
  <2>8. InstrOK(u, U, X, B, r, G) /\ u.op = "free" /\ u.arg = q
    BY <2>3, <2>6, <2>7 DEF Free
  <2>9. PICK V : V = X \cup {r}
    OBVIOUS
  <2>10. Leaves(env, k, D, d, x, r, V)
    <3>1. \A i \in 1 .. k : \A y \in D[i] : i # d \/ y # x => env[i][y] \in X
      BY <2>1, <1>14 DEF Others
    <3> QED BY <3>1, <2>9 DEF Leaves
  <2>11. /\ V \subseteq 1 .. r /\ X \subseteq 1 .. r /\ InstrOK(t, X, V, B, r, G)
         /\ U = HEnd(blocks, H, cur) /\ (u.op = "free" => u.arg \in U) /\ (t.op = "free" => t.arg \in U)
    BY <2>4, <2>5, <2>6, <2>8, <2>9, <1>6, <1>10, <1>15, <1>16
  <2>12. EmittingTo(blocks, A, H, n, G, cur, B, r, <<u, t>>, V)
    BY <2>6, <2>8, <2>11, <1>10, EmitTwo
  <2>13. blocks' = CodeAdded(blocks, cur, <<u, t>>)
    <3>1. blocks' = Emitted(<<u>> \o <<t>>)
      BY <2>7, <1>3, <1>4, <1>6, <1>12, <1>15, <1>21 DEF LowerDrop
    <3>2. u \in Instrs /\ t \in Instrs
      BY <2>8, <2>11 DEF InstrOK
    <3>4. PICK v, w : v = <<u>> /\ w = <<t>>
      OBVIOUS
    <3>5. v \in Seq(Instrs) /\ w \in Seq(Instrs) /\ Len(v) = 1 /\ Len(w) = 1 /\ v[1] = u /\ w[1] = t
      BY <3>2, <3>4
    <3>6. PICK y : y = v \o w
      OBVIOUS
    <3>7. /\ y \in Seq(Instrs) /\ Len(y) = 1 + Len(w)
          /\ \A j \in 1 .. 1 : y[j] = v[j]
          /\ \A j \in 1 .. Len(w) : y[1 + j] = w[j]
      BY <3>5, <3>6, ConcatIs
    <3>8. Len(y) = 2 /\ y[1] = u /\ y[2] = t
      BY <3>5, <3>7
    <3>10. y \in Seq(Instrs)
      BY <3>7
    <3>9. y = <<u, t>>
      BY <3>2, <3>8, <3>10
    <3>3. <<u>> \o <<t>> = <<u, t>>
      BY <3>4, <3>6, <3>9
    <3> QED BY <3>1, <3>3 DEF Emitted, CodeAdded
  <2> QED BY <2>6, <2>10, <2>12, <2>13, <1>19
<1> QED BY <1>20, <1>21

(* A use reads a register that no null fills. *)
LEMMA LowerUseOK ==
  ASSUME NEW P, NEW N, NEW L, NEW h, NEW A, NEW H, LowerOK(P, N, L, h, A, H), LowerUse, UNCHANGED analysis
  PROVE  \E B, K : LowerOK(P, N, L, h, B, K)'
<1>1. PICK c, o, l, D : Here(L, c, o, l, D)
  BY DEF Here
<1>2. pc <= N /\ Token.op = "use"
  <2>1. Len(prog) = N
    BY DEF LowerOK, WalkedTo, Program
  <2> QED BY <2>1 DEF LowerUse, At
<1>3. /\ c \in 1 .. N /\ c \in Nat
      /\ Token = P[c]
      /\ Placed(P, L, o, c) /\ o \in Nat /\ l \in Nat
      /\ Flow(P, L, h, doExitFrees, o, c)
      /\ CodeOK(blocks, A, H, nregs, Manner(P, doExitFrees)) /\ nregs \in Nat
      /\ cur \in 1 .. Len(blocks)
      /\ EnvOK(env, h[c], l + 1, D, A, nregs, HEnd(blocks, H, cur))
  BY <1>1, <1>2, LowerStands
<1>4. c = pc /\ o = c - 1 /\ l = L.lev[o] /\ D = L.dcl[o]
  BY <1>1 DEF Here
<1>5. Refers(P, L, o, c)
  BY <1>2, <1>3 DEF Placed, Opens, Turns, Shuts, Declares, Openers
<1>6. PICK x, n, U, G, k, a, b : /\ x = P[c].x /\ n = nregs
                                 /\ U = HEnd(blocks, H, cur) /\ G = Manner(P, doExitFrees)
                                 /\ k = l + 1 /\ a = h[c] /\ b = h[c + 1]
  OBVIOUS
<1>7. Declared(D, k, x) /\ k \in Nat
  BY <1>3, <1>4, <1>5, <1>6 DEF Refers, Seen, Declared
<1>8. PICK d : Inmost(D, k, x, d)
  BY <1>7, InmostExists
<1>9. Under(a, b, k, D) /\ NullRoot \notin a[d][x]
  <2>1. FlowStmt(P, c, D, k, a, b)
    BY <1>3, <1>4, <1>6 DEF Flow
  <2> QED BY <2>1, <1>2, <1>3, <1>6, <1>8 DEF FlowStmt
<1>10. U \subseteq 1 .. n /\ n \in Nat /\ A \in [Nat -> SUBSET Nat] /\ n <= n
  BY <1>3, <1>6, EndKnown
<1>11. Stack(env, k, D, 1 .. n) /\ Covered(env, a, k, D, A) /\ Named(env, k, D, U)
  BY <1>3, <1>6 DEF EnvOK
<1>12. PICK q : q = ReadVar(env, x)
  OBVIOUS
<1>13. q = env[d][x]
  BY <1>7, <1>8, <1>11, <1>12, ReadIs
<1>14. q \in U /\ NullRoot \notin A[q] /\ q \in Nat
  <2>1. d \in 1 .. k /\ x \in D[d]
    BY <1>8 DEF Inmost
  <2>2. q \in U /\ A[q] \subseteq a[d][x]
    BY <2>1, <1>11, <1>13 DEF Covered, Named
  <2>3. U \subseteq Nat
    BY <1>10
  <2> QED BY <2>2, <2>3, <1>9
<1>15. PICK t : t = Use(q)
  OBVIOUS
<1>16. t \in Instrs /\ t.op = "use" /\ t.arg = q
  BY <1>14, <1>15 DEF Instrs, Use
<1>17. InstrOK(t, U, U, A, n, G) /\ (t.op = "free" => t.arg \in U)
  BY <1>14, <1>16 DEF InstrOK
<1>18. U = HEnd(blocks, H, cur) /\ Extends(A, A, n)
  BY <1>6 DEF Extends
<1>19. EmittingTo(blocks, A, H, n, G, cur, A, n, <<t>>, U)
  BY <1>10, <1>17, <1>18, EmitOne
<1>20. PICK instrs : instrs = <<t>>
  OBVIOUS
<1>21. PICK W : Emitting(blocks, A, H, n, G, cur, A, n, instrs, W) /\ W[Len(instrs) + 1] = U
  BY <1>19, <1>20 DEF EmittingTo
<1>22. EnvOK(env, b, k, D, A, n, U)
  BY <1>9, <1>11 DEF EnvOK, Covered, Under
<1>23. /\ Advance /\ UNCHANGED <<cur, depth, ctl>> /\ n = nregs' /\ env = env' /\ siteReg = siteReg'
       /\ blocks' = CodeAdded(blocks, cur, instrs)
  BY <1>3, <1>6, <1>12, <1>15, <1>20 DEF LowerUse, Emitted, CodeAdded
<1>24. L.lev[c] = l /\ L.opn[c] = L.opn[o] /\ L.arm[c] = L.arm[o] /\ L.dcl[c] = D /\ Same(D, L.dcl[c], l)
  BY <1>4, <1>5 DEF Refers, Same
<1>25. PICK e, tr : e = env /\ tr = siteReg
  OBVIOUS
<1>26. /\ Emitting(blocks, A, H, nregs, Manner(P, doExitFrees), cur, A, n, instrs, W)
       /\ EnvOK(e, h[c + 1], l + 1, L.dcl[c], A, n, W[Len(instrs) + 1])
  BY <1>6, <1>21, <1>22, <1>24, <1>25
<1>27. Touches(P, c, D, l, env, e) /\ SitesGrow(siteReg, tr, instrs, A, n) /\ e = env' /\ tr = siteReg'
  BY <1>23, <1>25 DEF Touches, SitesGrow
<1>28. \E K : LowerOK(P, N, L, h, A, K)'
  BY <1>1, <1>2, <1>23, <1>24, <1>26, <1>27, LowerEmits
<1> QED BY <1>28

-----------------------------------------------------------------------------
(* A block is completed: what it leads to comes after t. *)
Later(bs, cs, H, K, here, j, t) ==
  /\ j \in 1 .. Len(bs) => j > t /\ (bs[j].exit # <<>> => K[j] = H[j])
  /\ \A e \in ToSet(cs[here].exit) : e > t
  /\ \A b \in Len(bs) + 1 .. Len(cs) : \A e \in ToSet(cs[b].exit) : e > t

Finished(bs, cs, H, K, here, B, m, G, t, sr) ==
  CodeOK(cs, B, K, m, G) /\ Settled(bs, cs, H, K, here, t) /\ SitesOK(cs, B, m, sr) /\ Len(cs) \in Nat

LEMMA BlockFields ==
  ASSUME NEW b, NEW c, IsBlock(b), IsBlock(c), c.phis = b.phis, c.code = b.code, c.exit = b.exit
  PROVE  c = b
BY DEF IsBlock

LEMMA FinishSettles ==
  ASSUME NEW bs, BlocksOK(bs), NEW cs, BlocksOK(cs), NEW here \in 1 .. Len(bs), bs[here].exit = <<>>,
         NEW H, NEW K, NEW j, j # here, Completes(bs, cs, H, K, here, j),
         NEW t \in Nat, Later(bs, cs, H, K, here, j, t)
  PROVE  Settled(bs, cs, H, K, here, t)
<1>1. PICK l, z : l = Len(bs) /\ z = Len(cs)
  OBVIOUS
<1>2. l \in Nat /\ z \in Nat /\ l <= z /\ here \in 1 .. l
  BY <1>1 DEF BlocksOK, Completes
<1>3. /\ \A b \in 1 .. l : cs[b].code = bs[b].code
      /\ \A b \in 1 .. l : b # here => cs[b].exit = bs[b].exit
      /\ \A b \in 1 .. l : b # j => cs[b].phis = bs[b].phis /\ K[b] = H[b]
  BY <1>1 DEF Completes
<1>4. /\ j \in 1 .. l => j > t /\ (bs[j].exit # <<>> => K[j] = H[j])
      /\ \A e \in ToSet(cs[here].exit) : e > t
      /\ \A b \in l + 1 .. z : \A e \in ToSet(cs[b].exit) : e > t
  BY <1>1 DEF Later
<1>5. \A b \in 1 .. l : bs[b].exit # <<>> => cs[b].exit = bs[b].exit /\ cs[b].code = bs[b].code /\ K[b] = H[b]
  BY <1>3, <1>4
<1>6. \A b \in 1 .. l : b <= t /\ b # here => cs[b] = bs[b] /\ K[b] = H[b]
  <2> SUFFICES ASSUME NEW b \in 1 .. l, b <= t, b # here
               PROVE  cs[b] = bs[b] /\ K[b] = H[b]
    OBVIOUS
  <2>1. b # j
    BY <1>4
  <2>2. IsBlock(bs[b]) /\ IsBlock(cs[b])
    BY <1>1, <1>2 DEF BlocksOK
  <2>3. cs[b].phis = bs[b].phis /\ cs[b].code = bs[b].code /\ cs[b].exit = bs[b].exit
    BY <2>1, <1>3
  <2> QED BY <2>1, <2>2, <2>3, <1>3, BlockFields
<1>7. ASSUME NEW b \in 1 .. z, NEW e \in ToSet(cs[b].exit), e <= t
      PROVE  b \in 1 .. l /\ e \in ToSet(bs[b].exit)
  <2>1. IsBlock(cs[b])
    BY <1>1 DEF BlocksOK
  <2>2. cs[b].exit \in Seq(Nat)
    BY <2>1 DEF IsBlock
  <2>3. e \in Nat
    BY <2>2 DEF ToSet
  <2>4. ~ (e > t)
    BY <2>3, <1>7
  <2>5. b # here /\ b \notin l + 1 .. z
    BY <2>4, <1>4
  <2>6. b \in 1 .. l
    BY <2>5, <1>2
  <2> QED BY <2>5, <2>6, <1>3
<1> QED BY <1>1, <1>2, <1>5, <1>6, <1>7 DEF Settled

LEMMA FinishIs ==
  ASSUME NEW bs, NEW A, NEW H, NEW n, NEW G, CodeOK(bs, A, H, n, G),
         NEW here \in 1 .. Len(bs), bs[here].exit = <<>>,
         NEW B, NEW m, NEW cs, NEW K, NEW j, Finishing(bs, A, H, n, here, B, m, cs, K, j),
         NEW t \in Nat, Later(bs, cs, H, K, here, j, t),
         NEW sr, SitesOK(bs, A, n, sr)
  PROVE  Finished(bs, cs, H, K, here, B, m, G, t, sr)
<1>1. CodeOK(cs, B, K, m, G)
  BY CodeEnds
<1>2. BlocksOK(bs) /\ BlocksOK(cs) /\ n \in Nat
  BY <1>1 DEF CodeOK
<1>3. /\ m \in Nat /\ n <= m /\ Extends(A, B, n)
      /\ j # here /\ Completes(bs, cs, H, K, here, j)
  BY DEF Finishing
<1>4. Settled(bs, cs, H, K, here, t)
  BY <1>2, <1>3, FinishSettles
<1>5. Len(cs) \in Nat /\ Len(bs) \in Nat /\ Len(bs) <= Len(cs)
  BY <1>2, <1>3 DEF BlocksOK, Completes
<1>6. ASSUME NEW r, Made(bs, r) PROVE Made(cs, r)
  <2>1. PICK b \in 1 .. Len(bs) : \E i \in 1 .. Len(bs[b].code) :
           bs[b].code[i].op = "new" /\ bs[b].code[i].reg = r
    BY <1>6 DEF Made
  <2>2. cs[b].code = bs[b].code /\ b \in 1 .. Len(cs)
    BY <1>3, <1>5 DEF Completes
  <2> QED BY <2>1, <2>2 DEF Made
<1>7. SitesOK(cs, B, m, sr)
  <2> SUFFICES ASSUME NEW s \in DOMAIN sr
               PROVE  sr[s].reg \in 1 .. m /\ B[sr[s].reg] = {s} /\ Made(cs, sr[s].reg)
    BY DEF SitesOK
  <2>1. sr[s].reg \in 1 .. n /\ A[sr[s].reg] = {s} /\ Made(bs, sr[s].reg)
    BY DEF SitesOK
  <2> QED BY <2>1, <1>2, <1>3, <1>6 DEF Extends
<1> QED BY <1>1, <1>4, <1>5, <1>7 DEF Finished

(* How deep the lowerer is nested. *)
LEMMA DeepCounts ==
  ASSUME NEW n \in Nat, NEW fs, Len(fs) = n, NEW gs, Len(gs) = n + 1, \A k \in 1 .. n : gs[k] = fs[k]
  PROVE  /\ Deep(fs) \in 0 .. n
         /\ Deep(gs) = IF gs[n + 1].op # "do" THEN Deep(fs) + 1 ELSE Deep(fs)
<1>1. PICK S, T : S = {k \in 1 .. n : fs[k].op # "do"} /\ T = {k \in 1 .. n + 1 : gs[k].op # "do"}
  OBVIOUS
<1>2. IsFiniteSet(1 .. n) /\ Cardinality(1 .. n) = n
  <2>1. 1 \in Int /\ n \in Int
    OBVIOUS
  <2>2. Cardinality(1 .. n) = IF 1 > n THEN 0 ELSE n - 1 + 1
    BY <2>1, FS_Interval
  <2> QED BY <2>1, <2>2, FS_Interval
<1>3. S \subseteq 1 .. n
  BY <1>1
<1>4. IsFiniteSet(S) /\ Cardinality(S) \in Nat /\ Cardinality(S) <= n
  <2>1. IsFiniteSet(S) /\ Cardinality(S) <= Cardinality(1 .. n)
    BY <1>2, <1>3, FS_Subset
  <2> QED BY <2>1, <1>2, FS_CardinalityType
<1>5. Deep(fs) = Cardinality(S) /\ Deep(gs) = Cardinality(T)
  BY <1>1 DEF Deep
<1>6. CASE gs[n + 1].op # "do"
  <2>1. T = S \cup {n + 1} /\ n + 1 \notin S
    BY <1>1, <1>3, <1>6
  <2>2. Cardinality(T) = Cardinality(S) + 1
    BY <2>1, <1>4, FS_AddElement
  <2> QED BY <2>2, <1>4, <1>5, <1>6
<1>7. CASE ~ (gs[n + 1].op # "do")
  <2>1. T = S
    BY <1>1, <1>7
  <2> QED BY <2>1, <1>4, <1>5, <1>7
<1> QED BY <1>6, <1>7

-----------------------------------------------------------------------------
(* A block opens. *)

(* What a phi replaces in a block, the outer block assigns. *)
LEMMA BlockRewrites ==
  ASSUME NEW P, NEW N, NEW L, Program(P, N, L), NEW q \in 1 .. N, NEW D, NEW k \in Nat,
         NEW order, OrderOK(P, N, L, q, k, D, order), NEW s, NEW t, Agrees(s, t, order, D, k),
         NEW r \in 1 .. N, Inside(L, r, q), NEW i \in 1 .. k
  PROVE  Rewrites(P, N, L, r, D, i, s, t)
<1> SUFFICES ASSUME NEW d \in 1 .. i, NEW x \in D[d], t[d][x] # s[d][x]
             PROVE  Assigned(P, N, L, r, x) /\ Inmost(D, i, x, d)
  BY DEF Rewrites
<1>1. d \in 1 .. k
  OBVIOUS
<1>2. Moved(order, D, k, d, x)
  BY <1>1 DEF Agrees
<1>3. x \in DOMAIN order /\ Inmost(D, k, x, d)
  BY <1>2 DEF Moved
<1>4. Assigned(P, N, L, q, x)
  BY <1>3 DEF OrderOK
<1>5. Assigned(P, N, L, r, x)
  BY <1>4, AssignedOutside
<1>6. \A e \in d + 1 .. i : e \in d + 1 .. k
  OBVIOUS
<1>7. Inmost(D, i, x, d)
  BY <1>3, <1>6 DEF Inmost
<1> QED BY <1>5, <1>7

(* The layout at a token that opens a block. *)
Opening(P, N, L, h, c, o, l, D) ==
  /\ Opens(P, L, o, c)
  /\ L.lev[c] = l + 1 /\ L.opn[c][l + 1] = c /\ L.arm[c][l + 1] = c
  /\ \A k \in 1 .. l : L.opn[c][k] = L.opn[o][k] /\ L.arm[c][k] = L.arm[o][k]
  /\ Same(D, L.dcl[c], l) /\ Same(D, L.dcl[c], l + 1) /\ L.dcl[c][l + 2] = {}
  /\ Under(h[c], h[c + 1], l + 1, D)
  /\ \A k \in 1 .. l : L.opn[o][k] \in 1 .. N /\ Inside(L, L.opn[o][k], c)

LEMMA OpeningIs ==
  ASSUME NEW P, NEW N, NEW L, NEW h, NEW A, NEW H, LowerOK(P, N, L, h, A, H), pc <= N,
         NEW c, NEW o, NEW l, NEW D, Here(L, c, o, l, D), P[c].op \in Openers
  PROVE  Opening(P, N, L, h, c, o, l, D)
<1>1. /\ c \in 1 .. N /\ Program(P, N, L) /\ L \in Layouts
      /\ Placed(P, L, o, c) /\ o \in Nat /\ l \in Nat
      /\ Flow(P, L, h, doExitFrees, o, c)
  BY LowerStands
<1>2. o = c - 1 /\ l = L.lev[o] /\ D = L.dcl[o]
  BY DEF Here
<1>3. Opens(P, L, o, c)
  BY <1>1 DEF Placed, Turns, Shuts, Declares, Refers, Openers
<1>4. L.opn[o] \in [Nat -> Nat] /\ L.arm[o] \in [Nat -> Nat] /\ L.dcl[o] \in [Nat -> SUBSET Names]
  BY <1>1, LayoutTypes
<1>5. /\ L.lev[c] = l + 1
      /\ L.opn[c] = [L.opn[o] EXCEPT ![l + 1] = c]
      /\ L.arm[c] = [L.arm[o] EXCEPT ![l + 1] = c]
      /\ L.dcl[c] = [L.dcl[o] EXCEPT ![l + 2] = {}]
  BY <1>2, <1>3 DEF Opens
<1>6. \A k \in 1 .. l : k \in Nat /\ k # l + 1
  BY <1>1
<1>7. /\ L.opn[c][l + 1] = c /\ L.arm[c][l + 1] = c
      /\ \A k \in 1 .. l : L.opn[c][k] = L.opn[o][k] /\ L.arm[c][k] = L.arm[o][k]
  BY <1>1, <1>4, <1>5, <1>6
<1>8. \A k \in 1 .. l + 1 : k \in Nat /\ k # l + 2
  BY <1>1
<1>9. Same(D, L.dcl[c], l + 1) /\ L.dcl[c][l + 2] = {}
  BY <1>1, <1>2, <1>4, <1>5, <1>8 DEF Same
<1>10. Same(D, L.dcl[c], l)
  <2>1. \A k \in 1 .. l : k \in 1 .. l + 1
    BY <1>1
  <2> QED BY <2>1, <1>9 DEF Same
<1>11. Under(h[c], h[c + 1], l + 1, D)
  <2>1. FlowStmt(P, c, D, l + 1, h[c], h[c + 1])
    BY <1>1, <1>2 DEF Flow
  <2> QED BY <2>1 DEF FlowStmt
<1>12. ASSUME NEW k \in 1 .. l
       PROVE  L.opn[o][k] \in 1 .. N /\ Inside(L, L.opn[o][k], c)
  <2>1. k \in 1 .. L.lev[o] /\ L.lev[c] >= k
    BY <1>1, <1>2, <1>5
  <2> QED BY <2>1, <1>1, <1>2, InsideOpen
<1> QED BY <1>3, <1>5, <1>7, <1>9, <1>10, <1>11, <1>12 DEF Opening

(* The frames of the enclosing calls stay below a new one. *)
LEMMA FirstsGrow ==
  ASSUME NEW n \in Nat, NEW fs, Len(fs) = n, FirstsOK(fs), NEW gs, Len(gs) = n + 1,
         \A k \in 1 .. n : gs[k] = fs[k],
         NEW last, \A k \in 1 .. n : fs[k].op # "do" => fs[k].first + 2 <= last,
         \A k \in 1 .. n : fs[k].op # "do" => fs[k].first \in Nat, last \in Nat,
         gs[n + 1].op # "do" => gs[n + 1].first = last + 1
  PROVE  FirstsOK(gs)
<1> SUFFICES ASSUME NEW k \in 1 .. n + 1, NEW j \in 1 .. k - 1, gs[j].op # "do", gs[k].op # "do"
             PROVE  gs[j].first + 2 < gs[k].first
  BY DEF FirstsOK
<1>1. j \in 1 .. n /\ gs[j] = fs[j]
  OBVIOUS
<1>2. CASE k = n + 1
  BY <1>1, <1>2
<1>3. CASE k # n + 1
  <2>1. k \in 1 .. n /\ gs[k] = fs[k]
    BY <1>3
  <2> QED BY <2>1, <1>1 DEF FirstsOK
<1> QED BY <1>2, <1>3

(* The rewrites of the blocks that are open. *)
Outer(P, N, L, o, l, D, s, t) == \A k \in 1 .. l : Rewrites(P, N, L, L.opn[o][k], D, k, s, t)

(* What lower_stmt leaves when it has opened block c: the blocks cs, the bindings  *)
(* e, and the frame f.                                                      *)
Opened2(P, N, L, h, c, l, B, K, cs, m, there, e, f) ==
  /\ there \in 1 .. Len(cs) /\ cs[there].exit = <<>>
  /\ EnvOK(e, h[c + 1], l + 2, L.dcl[c], B, m, HEnd(cs, K, there))
  /\ CtlOK(P, N, L, h, B, K, cs, m, there, e, c, c, L.dcl[c], l + 1, f)

LEMMA LowerOpens ==
  ASSUME NEW P, NEW N, NEW L, NEW h, NEW A, NEW H, LowerOK(P, N, L, h, A, H), pc <= N,
         NEW c, NEW o, NEW l, NEW D, Here(L, c, o, l, D), Advance, UNCHANGED analysis,
         P[c].op \in Openers, NEW f, ctl' = Append(ctl, f),
         NEW B, NEW K, NEW cs, cs = blocks', NEW m, m = nregs', nregs <= m, m \in Nat, Extends(A, B, nregs),
         siteReg' = siteReg,
         Finished(blocks, cs, H, K, cur, B, m, Manner(P, doExitFrees), Len(blocks), siteReg),
         NEW there, there = cur', there = cur \/ there > Len(blocks),
         NEW e, e = env', Outer(P, N, L, o, l, D, env, e),
         Opened2(P, N, L, h, c, l, B, K, cs, m, there, e, f),
         f.op # "do" => f.first = Len(blocks) + 1,
         depth' = IF f.op # "do" THEN depth + 1 ELSE depth
  PROVE  LowerOK(P, N, L, h, B, K)'
<1>1. /\ c \in 1 .. N /\ c \in Nat /\ Program(P, N, L) /\ o \in Nat /\ l \in Nat
      /\ CodeOK(blocks, A, H, nregs, Manner(P, doExitFrees)) /\ nregs \in Nat /\ Len(blocks) \in Nat
      /\ cur \in 1 .. Len(blocks) /\ cur \in Nat /\ blocks[cur].exit = <<>>
      /\ \E S : ctl \in Seq(S)
      /\ Len(ctl) = l
      /\ CtlsOK(P, N, L, h, A, H, blocks, nregs, cur, env, o, l, ctl)
      /\ FirstsOK(ctl)
  BY LowerStands
<1>2. c = pc /\ o = c - 1 /\ l = L.lev[o] /\ D = L.dcl[o]
  BY DEF Here
<1>3. Opening(P, N, L, h, c, o, l, D)
  BY OpeningIs
<1>4. /\ L.lev[c] = l + 1 /\ L.opn[c][l + 1] = c /\ L.arm[c][l + 1] = c
      /\ \A k \in 1 .. l : L.opn[c][k] = L.opn[o][k] /\ L.arm[c][k] = L.arm[o][k]
      /\ Same(L.dcl[o], L.dcl[c], l)
  BY <1>2, <1>3 DEF Opening
<1>5. PICK bs, here, n, s, fs, last, G, sr :
        /\ bs = blocks /\ here = cur /\ n = nregs /\ s = env /\ fs = ctl /\ last = Len(blocks)
        /\ G = Manner(P, doExitFrees) /\ sr = siteReg
  OBVIOUS
<1>6. /\ CodeOK(cs, B, K, m, G) /\ Settled(bs, cs, H, K, here, last) /\ SitesOK(cs, B, m, sr)
      /\ Len(cs) \in Nat
  BY <1>5 DEF Finished
<1>7. \A k \in 1 .. l : fs[k].op # "do" => fs[k].first \in Nat /\ fs[k].first >= 2 /\ fs[k].first + 2 <= last
  <2>1. CtlsOK(P, N, L, h, A, H, bs, n, here, s, o, l, fs) /\ last = Len(bs)
    BY <1>1, <1>5
  <2>2. ASSUME NEW k \in 1 .. l, fs[k].op # "do"
        PROVE  fs[k].first \in Nat /\ fs[k].first >= 2 /\ fs[k].first + 2 <= Len(bs)
    BY <2>1, <2>2, FirstsEnd
  <2> QED BY <2>1, <2>2
<1>8. \A k \in 1 .. l : Rewrites(P, N, L, L.opn[o][k], L.dcl[o], k, s, e)
  BY <1>2, <1>5 DEF Outer
<1>9. PICK gs : gs = ctl'
  OBVIOUS
<1>10. /\ \E S : gs \in Seq(S)
       /\ Len(gs) = l + 1 /\ gs[l + 1] = f /\ \A k \in 1 .. l : gs[k] = fs[k]
  <2>1. PICK S : fs \in Seq(S)
    BY <1>1, <1>5
  <2>2. PICK T : T = S \cup {f}
    OBVIOUS
  <2>3. fs \in Seq(T) /\ f \in T /\ Len(fs) = l
    BY <2>1, <2>2, <1>1, <1>5
  <2>4. gs = Append(fs, f)
    BY <1>5, <1>9
  <2>6. l \in Nat
    BY <1>1
  <2>5. gs \in Seq(T) /\ Len(gs) = l + 1 /\ gs[l + 1] = f /\ \A k \in 1 .. l : gs[k] = fs[k]
    BY <2>3, <2>4, <2>6, AppendOf
  <2> QED BY <2>5
<1>11. /\ there \in 1 .. Len(cs) /\ cs[there].exit = <<>>
       /\ EnvOK(e, h[c + 1], l + 2, L.dcl[c], B, m, HEnd(cs, K, there))
       /\ CtlOK(P, N, L, h, B, K, cs, m, there, e, c, c, L.dcl[c], l + 1, f)
  BY DEF Opened2
<1>12. CtlsOK(P, N, L, h, B, K, cs, m, there, e, c, l, gs)
  <2>1. CodeOK(bs, A, H, n, G) /\ n \in Nat /\ n <= m /\ Extends(A, B, n) /\ bs[here].exit = <<>>
    BY <1>1, <1>5
  <2>2. CtlsOK(P, N, L, h, A, H, bs, n, here, s, o, l, fs)
    BY <1>1, <1>5
  <2>3. last \in Nat /\ here \in Nat /\ there \in Nat /\ (there = here \/ there > last)
    BY <1>1, <1>5, <1>6, <1>11
  <2>4. \A k \in 1 .. l : fs[k].op # "do" => fs[k].first + 2 <= last
    BY <1>7
  <2>5. \A k \in 1 .. l : gs[k] = fs[k]
    BY <1>10
  <2>6. /\ \A k \in 1 .. l : L.opn[c][k] = L.opn[o][k] /\ L.arm[c][k] = L.arm[o][k]
        /\ Same(L.dcl[o], L.dcl[c], l) /\ l \in Nat /\ m \in Nat
    BY <1>1, <1>4
  <2>7. Settled(bs, cs, H, K, here, last) /\ Len(cs) \in Nat
    BY <1>6
  <2> QED BY <2>1, <2>2, <2>3, <2>4, <2>5, <2>6, <2>7, <1>8, CtlsStay
<1>13. CtlsOK(P, N, L, h, B, K, cs, m, there, e, c, l + 1, gs)
  <2> SUFFICES ASSUME NEW k \in 1 .. l + 1
               PROVE  CtlOK(P, N, L, h, B, K, cs, m, there, e, L.opn[c][k], L.arm[c][k], L.dcl[c], k, gs[k])
    BY DEF CtlsOK
  <2>1. CASE k = l + 1
    BY <2>1, <1>4, <1>10, <1>11
  <2>2. CASE k # l + 1
    <3>1. k \in 1 .. l
      BY <2>2, <1>1
    <3> QED BY <3>1, <1>12 DEF CtlsOK
  <2> QED BY <2>1, <2>2
<1>14. FirstsOK(gs)
  <2>1. \A k \in 1 .. l : gs[k] = fs[k]
    BY <1>10
  <2>2. \A k \in 1 .. l : fs[k].op # "do" => fs[k].first + 2 <= last
    BY <1>7
  <2>3. \A k \in 1 .. l : fs[k].op # "do" => fs[k].first \in Nat
    BY <1>7
  <2>4. Len(fs) = l /\ FirstsOK(fs) /\ Len(gs) = l + 1 /\ last \in Nat
    BY <1>1, <1>5, <1>10
  <2>5. gs[l + 1].op # "do" => gs[l + 1].first = last + 1
    BY <1>5, <1>10
  <2> QED BY <2>1, <2>2, <2>3, <2>4, <2>5, <1>1, FirstsGrow
<1>15. depth' = Deep(gs)
  <2>1. depth = Deep(fs)
    BY <1>5 DEF LowerOK
  <2>2. Deep(gs) = IF gs[l + 1].op # "do" THEN Deep(fs) + 1 ELSE Deep(fs)
    <3>1. Len(fs) = l /\ Len(gs) = l + 1 /\ l \in Nat /\ \A k \in 1 .. l : gs[k] = fs[k]
      BY <1>1, <1>5, <1>10
    <3> QED BY ONLY <3>1, DeepCounts, ZenonT(60)
  <2> QED BY <2>1, <2>2, <1>10
<1>16. /\ CodeOK(cs, B, K, m, Manner(P, doExitFrees)) /\ SitesOK(cs, B, m, sr) /\ sr = siteReg' /\ gs = ctl'
       /\ phase = "lower" /\ Len(gs) = L.lev[c] /\ c = pc /\ L.lev[c] + 1 = l + 2
  <2>1. /\ CodeOK(cs, B, K, m, Manner(P, doExitFrees)) /\ SitesOK(cs, B, m, sr)
        /\ sr = siteReg' /\ gs = ctl'
    BY <1>5, <1>6, <1>9, <1>10
  <2>2. phase = "lower" /\ c = pc
    BY <1>1, <1>2 DEF LowerOK
  <2>3. Len(gs) = l + 1 /\ L.lev[c] = l + 1 /\ l \in Nat
    BY <1>1, <1>4, <1>10
  <2> QED BY ONLY <2>1, <2>2, <2>3
<1>17. /\ EnvOK(e, h[c + 1], L.lev[c] + 1, L.dcl[c], B, m, HEnd(cs, K, there))
       /\ CtlsOK(P, N, L, h, B, K, cs, m, there, e, c, L.lev[c], gs)
  BY <1>4, <1>11, <1>13, <1>16
<1>18. /\ there \in 1 .. Len(cs) /\ cs[there].exit = <<>> /\ FirstsOK(gs) /\ depth' = Deep(gs)
       /\ \E S : gs \in Seq(S)
  BY <1>10, <1>11, <1>14, <1>15
<1> QED BY <1>16, <1>17, <1>18, LowerMoves

(* The bindings in a scope that just opened. *)
LEMMA EnvOpens ==
  ASSUME NEW s, NEW a, NEW k \in Nat, NEW D, NEW A, NEW n, NEW U, EnvOK(s, a, k, D, A, n, U),
         NEW b, Under(a, b, k, D), NEW E, Same(D, E, k), E[k + 1] = {}, NEW e, e = Opened(s)
  PROVE  EnvOK(e, b, k + 1, E, A, n, U) /\ Same(s, e, k)
<1>1. Stack(s, k, D, 1 .. n) /\ Covered(s, a, k, D, A) /\ Named(s, k, D, U)
  BY DEF EnvOK
<1>2. \A i \in 1 .. k : E[i] = D[i]
  BY DEF Same
<1>3. Stack(e, k + 1, E, 1 .. n) /\ Same(s, e, k)
  BY <1>1, <1>2, StackOpened
<1>4. \A i \in 1 .. k + 1 : i \in 1 .. k \/ i = k + 1
  OBVIOUS
<1>5. \A i \in 1 .. k : e[i] = s[i]
  BY <1>3 DEF Same
<1>6. Covered(e, b, k + 1, E, A)
  <2> SUFFICES ASSUME NEW i \in 1 .. k + 1, NEW x \in E[i]
               PROVE  A[e[i][x]] \subseteq b[i][x]
    BY DEF Covered
  <2>1. i \in 1 .. k
    BY <1>4
  <2>2. e[i] = s[i] /\ x \in D[i]
    BY <2>1, <1>2, <1>5
  <2> QED BY <2>1, <2>2, <1>1 DEF Covered, Under
<1>7. Named(e, k + 1, E, U)
  <2> SUFFICES ASSUME NEW i \in 1 .. k + 1, NEW x \in E[i]
               PROVE  e[i][x] \in U
    BY DEF Named
  <2>1. i \in 1 .. k
    BY <1>4
  <2>2. e[i] = s[i] /\ x \in D[i]
    BY <2>1, <1>2, <1>5
  <2> QED BY <2>1, <2>2, <1>1 DEF Named
<1> QED BY <1>3, <1>6, <1>7 DEF EnvOK

LEMMA SameRewrites ==
  ASSUME NEW P, NEW N, NEW L, NEW o, NEW l \in Nat, NEW D, NEW s, NEW e, Same(s, e, l + 1)
  PROVE  Outer(P, N, L, o, l, D, s, e)
<1>1. \A k \in 1 .. l : \A d \in 1 .. k : d \in 1 .. l + 1
  OBVIOUS
<1> QED BY <1>1 DEF Outer, Rewrites, Same

LEMMA LowerDoOK ==
  ASSUME NEW P, NEW N, NEW L, NEW h, NEW A, NEW H, LowerOK(P, N, L, h, A, H), LowerDo, UNCHANGED analysis
  PROVE  LowerOK(P, N, L, h, A, H)'
<1>1. PICK c, o, l, D : Here(L, c, o, l, D)
  BY DEF Here
<1>2. pc <= N /\ Token.op = "do"
  <2>1. Len(prog) = N
    BY DEF LowerOK, WalkedTo, Program
  <2> QED BY <2>1 DEF LowerDo, At
<1>3. /\ Token = P[c] /\ l \in Nat
      /\ CodeOK(blocks, A, H, nregs, Manner(P, doExitFrees)) /\ nregs \in Nat /\ Len(blocks) \in Nat
      /\ cur \in 1 .. Len(blocks) /\ blocks[cur].exit = <<>>
      /\ EnvOK(env, h[c], l + 1, D, A, nregs, HEnd(blocks, H, cur))
      /\ SitesOK(blocks, A, nregs, siteReg)
  BY <1>1, <1>2, LowerStands
<1>4. P[c].op \in Openers
  BY <1>2, <1>3 DEF Openers
<1>5. Opening(P, N, L, h, c, o, l, D)
  BY <1>1, <1>2, <1>4, OpeningIs
<1>6. Under(h[c], h[c + 1], l + 1, D) /\ Same(D, L.dcl[c], l + 1) /\ L.dcl[c][l + 2] = {}
  BY <1>5 DEF Opening
<1>7. PICK cs, m, there, e, U, k : /\ cs = blocks /\ m = nregs /\ there = cur /\ e = env'
                                   /\ U = HEnd(cs, H, there) /\ k = l + 1
  OBVIOUS
<1>8. PICK f : f = [op |-> "do", entry |-> env, order |-> [x \in {} |-> 0], regs |-> <<>>, first |-> 0, from |-> 0]
  OBVIOUS
<1>9. /\ ctl' = Append(ctl, f) /\ cs = blocks' /\ m = nregs' /\ siteReg' = siteReg /\ there = cur'
      /\ Advance /\ depth' = depth /\ e = Opened(env)
  BY <1>7, <1>8 DEF LowerDo
<1>10. k \in Nat /\ l + 2 = k + 1
  BY <1>3, <1>7
<1>11. EnvOK(e, h[c + 1], k + 1, L.dcl[c], A, m, U) /\ Same(env, e, k)
  <2>1. EnvOK(env, h[c], k, D, A, m, U)
    BY <1>3, <1>7
  <2>2. Under(h[c], h[c + 1], k, D) /\ Same(D, L.dcl[c], k) /\ L.dcl[c][k + 1] = {}
    BY <1>6, <1>7, <1>10
  <2> QED BY <2>1, <2>2, <1>9, <1>10, EnvOpens
<1>12. f.op = "do" /\ IsCtl(f)
  BY <1>8 DEF IsCtl
<1>13. CtlOK(P, N, L, h, A, H, cs, m, there, e, c, c, L.dcl[c], l + 1, f)
  BY <1>2, <1>3, <1>12 DEF CtlOK
<1>14. Opened2(P, N, L, h, c, l, A, H, cs, m, there, e, f)
  BY <1>3, <1>7, <1>10, <1>11, <1>13 DEF Opened2
<1>15. Finished(blocks, cs, H, H, cur, A, m, Manner(P, doExitFrees), Len(blocks), siteReg)
  <2>1. Settled(blocks, cs, H, H, cur, Len(blocks))
    BY <1>3, <1>7 DEF Settled
  <2> QED BY <2>1, <1>3, <1>7 DEF Finished
<1>16. Outer(P, N, L, o, l, D, env, e)
  BY <1>3, <1>7, <1>11, SameRewrites
<1>17. /\ nregs <= m /\ m \in Nat /\ Extends(A, A, nregs) /\ (there = cur \/ there > Len(blocks))
       /\ e = env' /\ (f.op # "do" => f.first = Len(blocks) + 1)
       /\ depth' = IF f.op # "do" THEN depth + 1 ELSE depth
  BY <1>3, <1>7, <1>9, <1>12 DEF Extends
<1> QED BY <1>1, <1>2, <1>4, <1>9, <1>14, <1>15, <1>16, <1>17, LowerOpens

LEMMA ExitSets ==
  ASSUME NEW i, NEW j
  PROVE  ToSet(<<>>) = {} /\ ToSet(<<i>>) = {i} /\ ToSet(<<i, j>>) = {i, j}
<1>1. PICK s, t : s = <<i>> /\ t = <<i, j>>
  OBVIOUS
<1>2. DOMAIN s = 1 .. 1 /\ s[1] = i /\ DOMAIN t = 1 .. 2 /\ t[1] = i /\ t[2] = j
  BY <1>1
<1>3. ToSet(s) = {i}
  BY <1>2 DEF ToSet
<1>4. ToSet(t) = {i, j}
  <2>1. \A k \in 1 .. 2 : k = 1 \/ k = 2
    OBVIOUS
  <2> QED BY <2>1, <1>2 DEF ToSet
<1>5. ToSet(<<>>) = {}
  BY DEF ToSet
<1> QED BY <1>1, <1>3, <1>4, <1>5

(* Block here gets its exit. *)
Ended(bs, cs, here, to) ==
  /\ BlocksOK(cs) /\ Len(cs) = Len(bs) /\ Len(bs) \in Nat
  /\ \A b \in 1 .. Len(bs) : b # here => cs[b] = bs[b]
  /\ cs[here].exit = to /\ cs[here].code = bs[here].code /\ cs[here].phis = bs[here].phis

LEMMA EndedIs ==
  ASSUME NEW bs, BlocksOK(bs), NEW here \in 1 .. Len(bs), NEW to \in Seq(Nat),
         NEW cs, cs = [bs EXCEPT ![here].exit = to]
  PROVE  Ended(bs, cs, here, to)
<1>1. PICK T : bs \in Seq(T)
  BY DEF BlocksOK
<1>2. PICK v : v = [bs[here] EXCEPT !.exit = to]
  OBVIOUS
<1>3. cs = [bs EXCEPT ![here] = v]
  BY <1>2
<1>4. PICK l : l = Len(bs)
  OBVIOUS
<1>5. bs \in Seq(T \cup {v}) /\ l \in Nat /\ here \in 1 .. l
  BY <1>1, <1>4
<1>6. cs \in Seq(T \cup {v}) /\ Len(cs) = l /\ cs[here] = v /\ \A k \in 1 .. l : k # here => cs[k] = bs[k]
  BY <1>3, <1>4, <1>5, ChangeOf
<1>7. IsBlock(bs[here])
  BY DEF BlocksOK
<1>8. v.phis = bs[here].phis /\ v.code = bs[here].code /\ v.exit = to
      /\ v = [phis |-> v.phis, code |-> v.code, exit |-> v.exit]
  BY <1>2, <1>7 DEF IsBlock
<1>9. IsBlock(v)
  BY <1>7, <1>8 DEF IsBlock
<1>10. \A b \in 1 .. l : IsBlock(cs[b])
  BY <1>4, <1>6, <1>9 DEF BlocksOK
<1> QED BY <1>4, <1>5, <1>6, <1>8, <1>10 DEF BlocksOK, Ended

(* And three blocks are added. *)
Grown3(bs, cs, here, to, x, y, z) ==
  /\ BlocksOK(cs) /\ Len(cs) = Len(bs) + 3 /\ Len(bs) \in Nat
  /\ \A b \in 1 .. Len(bs) : b # here => cs[b] = bs[b]
  /\ cs[here].exit = to /\ cs[here].code = bs[here].code /\ cs[here].phis = bs[here].phis
  /\ cs[Len(bs) + 1] = x /\ cs[Len(bs) + 2] = y /\ cs[Len(bs) + 3] = z

LEMMA Grown3Is ==
  ASSUME NEW bs, BlocksOK(bs), NEW here \in 1 .. Len(bs), NEW to \in Seq(Nat),
         NEW x, IsBlock(x), NEW y, IsBlock(y), NEW z, IsBlock(z),
         NEW cs, cs = [bs EXCEPT ![here].exit = to] \o <<x, y, z>>
  PROVE  Grown3(bs, cs, here, to, x, y, z)
<1>1. PICK ds : ds = [bs EXCEPT ![here].exit = to]
  OBVIOUS
<1>2. Ended(bs, ds, here, to)
  BY <1>1, EndedIs
<1>3. PICK l : l = Len(bs)
  OBVIOUS
<1>4. PICK T : ds \in Seq(T)
  BY <1>2 DEF Ended, BlocksOK
<1>5. PICK S : S = T \cup {x, y, z}
  OBVIOUS
<1>6. PICK w : w = <<x, y, z>>
  OBVIOUS
<1>7. w \in Seq(S) /\ Len(w) = 3 /\ w[1] = x /\ w[2] = y /\ w[3] = z
  BY <1>5, <1>6
<1>8. ds \in Seq(S) /\ l \in Nat /\ l = Len(ds)
  BY <1>2, <1>3, <1>4, <1>5 DEF Ended
<1>9. cs = ds \o w
  BY <1>1, <1>6
<1>10. /\ cs \in Seq(S) /\ Len(cs) = l + Len(w)
       /\ \A i \in 1 .. l : cs[i] = ds[i]
       /\ \A j \in 1 .. Len(w) : cs[l + j] = w[j]
  <2>1. w \in Seq(S) /\ ds \in Seq(S) /\ l \in Nat /\ l = Len(ds)
    BY <1>7, <1>8
  <2>2. /\ ds \o w \in Seq(S) /\ Len(ds \o w) = l + Len(w)
        /\ \A i \in 1 .. l : (ds \o w)[i] = ds[i]
        /\ \A j \in 1 .. Len(w) : (ds \o w)[l + j] = w[j]
    BY <2>1, ConcatIs
  <2> QED BY <2>2, <1>9
<1>11. Len(cs) = l + 3 /\ cs[l + 1] = x /\ cs[l + 2] = y /\ cs[l + 3] = z
  <2>1. 1 \in 1 .. Len(w) /\ 2 \in 1 .. Len(w) /\ 3 \in 1 .. Len(w)
    BY <1>7
  <2>2. cs[l + 1] = w[1] /\ cs[l + 2] = w[2] /\ cs[l + 3] = w[3] /\ Len(cs) = l + Len(w)
    BY <2>1, <1>10
  <2> QED BY <2>2, <1>7
<1>12. \A b \in 1 .. l + 3 : b \in 1 .. l \/ b = l + 1 \/ b = l + 2 \/ b = l + 3
  BY <1>8
<1>13. \A b \in 1 .. l : IsBlock(cs[b])
  BY <1>2, <1>3, <1>10 DEF Ended, BlocksOK
<1>14. \A b \in 1 .. l + 3 : IsBlock(cs[b])
  BY <1>11, <1>12, <1>13
<1>15. BlocksOK(cs)
  BY <1>10, <1>11, <1>14 DEF BlocksOK
<1>16. \A b \in 1 .. l : b # here => cs[b] = bs[b]
  BY <1>2, <1>3, <1>10 DEF Ended
<1>17. cs[here].exit = to /\ cs[here].code = bs[here].code /\ cs[here].phis = bs[here].phis
  BY <1>2, <1>3, <1>10 DEF Ended
<1> QED BY <1>3, <1>8, <1>11, <1>15, <1>16, <1>17 DEF Grown3

(* A block that is given its phis. *)
Joined(bs, cs, j, phis) ==
  /\ BlocksOK(cs) /\ Len(cs) = Len(bs) /\ Len(bs) \in Nat
  /\ \A b \in 1 .. Len(bs) : b # j => cs[b] = bs[b]
  /\ cs[j].phis = phis /\ cs[j].code = bs[j].code /\ cs[j].exit = bs[j].exit

LEMMA JoinedIs ==
  ASSUME NEW bs, BlocksOK(bs), NEW j \in 1 .. Len(bs), NEW phis, NEW cs, cs = Joining(bs, j, phis)
  PROVE  Joined(bs, cs, j, phis)
<1>1. PICK T : bs \in Seq(T)
  BY DEF BlocksOK
<1>2. PICK v : v = [bs[j] EXCEPT !.phis = phis]
  OBVIOUS
<1>3. cs = [bs EXCEPT ![j] = v]
  BY <1>2 DEF Joining
<1>4. PICK l : l = Len(bs)
  OBVIOUS
<1>5. bs \in Seq(T \cup {v}) /\ l \in Nat /\ j \in 1 .. l
  BY <1>1, <1>4
<1>6. cs \in Seq(T \cup {v}) /\ Len(cs) = l /\ cs[j] = v /\ \A k \in 1 .. l : k # j => cs[k] = bs[k]
  BY <1>3, <1>4, <1>5, ChangeOf
<1>7. IsBlock(bs[j])
  BY DEF BlocksOK
<1>8. v.phis = phis /\ v.code = bs[j].code /\ v.exit = bs[j].exit
      /\ v = [phis |-> v.phis, code |-> v.code, exit |-> v.exit]
  BY <1>2, <1>7 DEF IsBlock
<1>9. IsBlock(v)
  BY <1>7, <1>8 DEF IsBlock
<1>10. \A b \in 1 .. l : IsBlock(cs[b])
  BY <1>4, <1>6, <1>9 DEF BlocksOK
<1> QED BY <1>4, <1>5, <1>6, <1>8, <1>10 DEF BlocksOK, Joined

(* What is known at the start of three blocks added after the z-th. *)
Known3(H, K, z, X, Y, Z) ==
  /\ K \in [Nat -> [Nat -> SUBSET Nat]] /\ \A b \in 1 .. z : K[b] = H[b]
  /\ K[z + 1][1] = X /\ K[z + 2][1] = Y /\ K[z + 3][1] = Z

LEMMA Known3Is ==
  ASSUME NEW H \in [Nat -> [Nat -> SUBSET Nat]], NEW z \in Nat,
         NEW X \in SUBSET Nat, NEW Y \in SUBSET Nat, NEW Z \in SUBSET Nat
  PROVE  \E K : Known3(H, K, z, X, Y, Z)
<1>1. PICK x, y, w : x = [i \in Nat |-> X] /\ y = [i \in Nat |-> Y] /\ w = [i \in Nat |-> Z]
  OBVIOUS
<1>2. x \in [Nat -> SUBSET Nat] /\ y \in [Nat -> SUBSET Nat] /\ w \in [Nat -> SUBSET Nat]
      /\ x[1] = X /\ y[1] = Y /\ w[1] = Z
  BY <1>1
<1>3. PICK K : K = [b \in Nat |-> IF b = z + 1 THEN x ELSE IF b = z + 2 THEN y ELSE IF b = z + 3 THEN w ELSE H[b]]
  OBVIOUS
<1>4. K \in [Nat -> [Nat -> SUBSET Nat]]
  BY <1>2, <1>3
<1>5. K[z + 1] = x /\ K[z + 2] = y /\ K[z + 3] = w
  BY <1>3
<1>6. \A b \in 1 .. z : K[b] = H[b]
  BY <1>3
<1> QED BY <1>2, <1>4, <1>5, <1>6 DEF Known3

LEMMA NewBlockIs == IsBlock(NewBlock) /\ Blank(NewBlock)
<1>1. PICK b, f : b = NewBlock /\ f = [x \in {} |-> 0]
  OBVIOUS
<1>2. b = [phis |-> f, code |-> <<>>, exit |-> <<>>] /\ DOMAIN f = {}
  BY <1>1 DEF NewBlock
<1>3. b.phis = f /\ b.code = <<>> /\ b.exit = <<>> /\ b = [phis |-> b.phis, code |-> b.code, exit |-> b.exit]
  BY <1>2
<1> QED BY <1>1, <1>2, <1>3 DEF IsBlock, Blank

(* Blocks added complete the block they follow. *)
LEMMA GrownCompletes ==
  ASSUME NEW bs, NEW cs, NEW here \in 1 .. Len(bs), NEW to, to # <<>>, NEW x, NEW y, NEW z,
         Grown3(bs, cs, here, to, x, y, z),
         NEW H, NEW K, NEW X, NEW Y, NEW Z, Known3(H, K, Len(bs), X, Y, Z)
  PROVE  Completes(bs, cs, H, K, here, 0)
<1>1. PICK l : l = Len(bs)
  OBVIOUS
<1>2. /\ l \in Nat /\ Len(cs) = l + 3
      /\ \A b \in 1 .. l : b # here => cs[b] = bs[b]
      /\ cs[here].exit = to /\ cs[here].code = bs[here].code /\ cs[here].phis = bs[here].phis
  BY <1>1 DEF Grown3
<1>3. \A b \in 1 .. l : K[b] = H[b]
  BY <1>1 DEF Known3
<1>4. \A b \in 1 .. l : cs[b].code = bs[b].code /\ cs[b].phis = bs[b].phis
  BY <1>2
<1> QED BY <1>1, <1>2, <1>3, <1>4 DEF Completes

(* The two arms of an if start where the block before it ends; nothing leads to  *)
(* the join yet.                                                            *)
LEMMA LowerIfOK ==
  ASSUME NEW P, NEW N, NEW L, NEW h, NEW A, NEW H, LowerOK(P, N, L, h, A, H), LowerIf, UNCHANGED analysis
  PROVE  \E K : LowerOK(P, N, L, h, A, K)'
<1>1. PICK c, o, l, D : Here(L, c, o, l, D)
  BY DEF Here
<1>2. pc <= N /\ Token.op = "if"
  <2>1. Len(prog) = N
    BY DEF LowerOK, WalkedTo, Program
  <2> QED BY <2>1 DEF LowerIf, At
<1>3. /\ Token = P[c] /\ l \in Nat /\ c \in 1 .. N /\ prog = P /\ Program(P, N, L) /\ L \in Layouts /\ c \in Nat
      /\ CodeOK(blocks, A, H, nregs, Manner(P, doExitFrees)) /\ nregs \in Nat /\ Len(blocks) \in Nat
      /\ cur \in 1 .. Len(blocks) /\ blocks[cur].exit = <<>>
      /\ EnvOK(env, h[c], l + 1, D, A, nregs, HEnd(blocks, H, cur))
      /\ SitesOK(blocks, A, nregs, siteReg)
  BY <1>1, <1>2, LowerStands
<1>4. P[c].op \in Openers /\ c = pc
  BY <1>1, <1>2, <1>3 DEF Openers, Here
<1>5. Opening(P, N, L, h, c, o, l, D)
  BY <1>1, <1>2, <1>4, OpeningIs
<1>6. Under(h[c], h[c + 1], l + 1, D) /\ Same(D, L.dcl[c], l + 1) /\ L.dcl[c][l + 2] = {}
  BY <1>5 DEF Opening
<1>7. PICK bs, here, n, s, U, G, z, k, E, a : /\ bs = blocks /\ here = cur /\ n = nregs /\ s = env
                                /\ U = HEnd(bs, H, here) /\ G = Manner(P, doExitFrees) /\ z = Len(bs) /\ k = l + 1
                                /\ E = L.dcl[c] /\ a = h[c]
  OBVIOUS
<1>8. PICK cs, e, to, nb, order : /\ cs = blocks' /\ e = env' /\ to = <<z + 1, z + 2>> /\ nb = NewBlock
                                  /\ order = PhiOrder(c)
  OBVIOUS
<1>9. PICK f : f = [op |-> "if", entry |-> s, order |-> order, regs |-> <<>>, first |-> z + 1, from |-> 0]
  OBVIOUS
<1>10. /\ z \in Nat /\ here \in 1 .. z /\ n \in Nat /\ k \in Nat /\ CodeOK(bs, A, H, n, G) /\ bs[here].exit = <<>>
       /\ EnvOK(s, a, k, D, A, n, U) /\ l + 2 = k + 1 /\ Same(D, E, k) /\ E[k + 1] = {}
       /\ Under(a, h[c + 1], k, D)
  BY <1>3, <1>6, <1>7
<1>11. cs = [bs EXCEPT ![here].exit = to] \o <<nb, nb, nb>>
  <2>1. Len(blocks) + 1 + 1 = z + 2
    BY <1>7, <1>10
  <2> QED BY <2>1, <1>7, <1>8 DEF LowerIf, Ending
<1>12. IsBlock(nb) /\ Blank(nb)
  BY <1>8, NewBlockIs
<1>13. to \in Seq(Nat) /\ to # <<>> /\ ToSet(to) = {z + 1, z + 2}
  <2>1. z + 1 \in Nat /\ z + 2 \in Nat
    BY <1>10
  <2>2. to \in Seq(Nat) /\ Len(to) = 2
    BY <2>1, <1>8
  <2>3. ToSet(to) = {z + 1, z + 2}
    BY <1>8, ExitSets
  <2>4. Len(<<>>) = 0
    OBVIOUS
  <2>5. to # <<>>
    BY <2>2, <2>4
  <2> QED BY <2>2, <2>3, <2>5
<1>14. BlocksOK(bs) /\ A \in [Nat -> SUBSET Nat] /\ H \in [Nat -> [Nat -> SUBSET Nat]] /\ U \subseteq 1 .. n
  <2>1. U \subseteq 1 .. n
    BY <1>7, <1>10, EndKnown
  <2> QED BY <2>1, <1>10 DEF CodeOK, KnownOK
<1>15. Grown3(bs, cs, here, to, nb, nb, nb)
  BY <1>7, <1>10, <1>11, <1>12, <1>13, <1>14, Grown3Is
<1>16. PICK K : Known3(H, K, z, U, U, {})
  <2>1. U \in SUBSET Nat /\ {} \in SUBSET Nat
    BY <1>14
  <2> QED BY <2>1, <1>10, <1>14, Known3Is
<1>17. Completes(bs, cs, H, K, here, 0)
  BY <1>7, <1>10, <1>13, <1>15, <1>16, GrownCompletes
<1>18. /\ BlocksOK(cs) /\ Len(cs) = z + 3
       /\ \A b \in 1 .. z : b # here => cs[b] = bs[b]
       /\ cs[here].exit = to /\ cs[here].code = bs[here].code
       /\ cs[z + 1] = nb /\ cs[z + 2] = nb /\ cs[z + 3] = nb
  BY <1>7, <1>15 DEF Grown3
<1>19. /\ K \in [Nat -> [Nat -> SUBSET Nat]] /\ \A b \in 1 .. z : K[b] = H[b]
       /\ K[z + 1][1] = U /\ K[z + 2][1] = U /\ K[z + 3][1] = {}
  BY <1>16 DEF Known3
<1>20. nb.code = <<>> /\ nb.exit = <<>> /\ DOMAIN nb.phis = {} /\ ToSet(<<>>) = {}
  BY <1>12, ExitSets DEF Blank
<1>21. \A b \in z + 1 .. z + 3 : b = z + 1 \/ b = z + 2 \/ b = z + 3
  BY <1>10
<1>22. \A b \in z + 1 .. z + 3 : cs[b] = nb /\ K[b][1] \subseteq U
  BY <1>18, <1>19, <1>21
<1>23. \A b \in z + 1 .. Len(cs) : AddedOK(cs, b, A, K, n)
  <2> SUFFICES ASSUME NEW b \in z + 1 .. z + 3 PROVE AddedOK(cs, b, A, K, n)
    BY <1>18
  <2>1. cs[b] = nb /\ K[b][1] \subseteq 1 .. n
    BY <1>14, <1>22
  <2> QED BY <2>1, <1>20 DEF AddedOK, PhisOK, ExitOK
<1>24. HEnd(cs, K, here) = U
  BY <1>7, <1>10, <1>18, <1>19 DEF HEnd
<1>25. ExitOK(cs, here, A, K)
  <2> SUFFICES ASSUME NEW b \in {z + 1, z + 2} PROVE b \in 1 .. Len(cs) /\ EdgeOK(cs, here, b, A, K)
    BY <1>13, <1>18 DEF ExitOK
  <2>1. b \in 1 .. z + 3 /\ b \in z + 1 .. z + 3
    BY <1>10
  <2>2. cs[b] = nb /\ K[b][1] \subseteq U
    BY <2>1, <1>22
  <2> QED BY <2>1, <2>2, <1>18, <1>20, <1>24 DEF EdgeOK
<1>26. Finishing(bs, A, H, n, here, A, n, cs, K, 0)
  <2>1. Extends(A, A, n)
    BY DEF Extends
  <2>2. 0 \notin 1 .. Len(bs) /\ 0 # here /\ n <= n
    BY <1>7, <1>10
  <2>3. \A b \in Len(bs) + 1 .. Len(cs) : AddedOK(cs, b, A, K, n)
    BY <1>7, <1>23
  <2> QED BY <2>1, <2>2, <2>3, <1>10, <1>14, <1>17, <1>18, <1>19, <1>25 DEF Finishing
<1>27. Later(bs, cs, H, K, here, 0, z)
  <2>1. \A x \in ToSet(cs[here].exit) : x > z
    BY <1>10, <1>13, <1>18
  <2>2. \A b \in Len(bs) + 1 .. Len(cs) : \A x \in ToSet(cs[b].exit) : x > z
    BY <1>7, <1>18, <1>20, <1>22
  <2>3. 0 \notin 1 .. Len(bs)
    BY <1>7, <1>10
  <2> QED BY <2>1, <2>2, <2>3 DEF Later
<1>28. PICK sr : sr = siteReg
  OBVIOUS
<1>29. Finished(bs, cs, H, K, here, A, n, G, z, sr)
  <2>1. SitesOK(bs, A, n, sr) /\ here \in 1 .. Len(bs)
    BY <1>3, <1>7, <1>28
  <2> QED BY <2>1, <1>10, <1>26, <1>27, FinishIs
<1>30. PICK there : there = z + 1
  OBVIOUS
<1>31. /\ ctl' = Append(ctl, f) /\ siteReg' = siteReg /\ there = cur' /\ n = nregs'
       /\ Advance /\ depth' = depth + 1 /\ e = Opened(s)
  BY <1>4, <1>7, <1>8, <1>9, <1>30 DEF LowerIf
<1>32. EnvOK(e, h[c + 1], k + 1, E, A, n, U) /\ Same(s, e, k)
  BY <1>10, <1>31, EnvOpens
<1>33. f.op = "if" /\ IsCtl(f) /\ f.entry = s /\ f.order = order /\ f.first = z + 1
  BY <1>9 DEF IsCtl
<1>34. BranchOK(P, N, L, cs, n, there, e, c, E, k, f)
  <2>1. Stack(s, k, D, 1 .. n)
    BY <1>10 DEF EnvOK
  <2>2. \A i \in 1 .. k : E[i] = D[i]
    BY <1>10 DEF Same
  <2>3. Stack(s, k, E, 1 .. n)
    BY <2>1, <2>2, <1>10, StackSame
  <2>4. E \in [Nat -> SUBSET Names]
    BY <1>3, <1>7, LayoutTypes
  <2>5. OrderOK(P, N, L, c, k, E, order)
    <3>1. Stack(env, k, E, 1 .. n)
      BY <2>3, <1>7
    <3> QED BY <3>1, <2>4, <1>3, <1>4, <1>8, <1>10, OrderIs
  <2>6. Agrees(s, e, order, E, k)
    BY <1>32 DEF Agrees, Same
  <2>7. f.first \in Nat /\ f.first >= 2 /\ f.first + 2 <= Len(cs) /\ f.first + 2 = z + 3
    BY <1>10, <1>18, <1>33
  <2> QED BY <2>3, <2>5, <2>6, <2>7, <1>10, <1>12, <1>18, <1>30, <1>33 DEF BranchOK
<1>35. ThenOK(h, A, K, cs, there, c, E, k, f)
  <2>1. f.first + 1 = z + 2 /\ f.first + 2 = z + 3 /\ there # z + 2
    BY <1>10, <1>30, <1>33
  <2>2. Blank(cs[z + 2]) /\ K[z + 3][1] = {}
    BY <1>12, <1>18, <1>19
  <2>3. \A i \in 1 .. k : E[i] = D[i]
    BY <1>10 DEF Same
  <2>4. Named(s, k, E, K[z + 2][1]) /\ Covered(s, h[c], k, E, A)
    BY <2>3, <1>7, <1>10, <1>19 DEF EnvOK, Named, Covered
  <2>5. ASSUME NEW b \in 1 .. Len(cs), z + 3 \in ToSet(cs[b].exit)
        PROVE  FALSE
    <3>1. CASE b \in 1 .. z /\ b # here
      <4>1. z + 3 \in ToSet(bs[b].exit)
        BY <3>1, <2>5, <1>18
      <4>2. ExitOK(bs, b, A, H)
        BY <3>1, <1>7, <1>10 DEF CodeOK
      <4>3. z + 3 \in 1 .. Len(bs)
        BY <4>1, <4>2 DEF ExitOK
      <4> QED BY <4>3, <1>7, <1>10
    <3>2. CASE b = here
      BY <3>2, <2>5, <1>10, <1>13, <1>18
    <3>3. CASE b \in z + 1 .. z + 3
      BY <3>3, <2>5, <1>20, <1>22
    <3> QED BY <3>1, <3>2, <3>3, <1>10, <1>18
  <2> QED BY <2>1, <2>2, <2>4, <2>5, <1>33 DEF ThenOK
<1>36. CtlOK(P, N, L, h, A, K, cs, n, there, e, c, c, E, k, f)
  BY <1>2, <1>3, <1>33, <1>34, <1>35 DEF CtlOK
<1>37. Opened2(P, N, L, h, c, l, A, K, cs, n, there, e, f)
  <2>1. there \in 1 .. Len(cs) /\ cs[there] = nb
    BY <1>10, <1>18, <1>30
  <2>2. HEnd(cs, K, there) = U
    <3>1. Len(cs[there].code) + 1 = 1
      BY <2>1, <1>20
    <3> QED BY <3>1, <1>19, <1>30 DEF HEnd
  <2> QED BY <2>1, <2>2, <1>7, <1>10, <1>20, <1>32, <1>36 DEF Opened2
<1>38. Outer(P, N, L, o, l, D, env, e)
  BY <1>3, <1>7, <1>32, SameRewrites
<1>39. /\ nregs <= n /\ n \in Nat /\ Extends(A, A, nregs) /\ (there = cur \/ there > Len(blocks))
       /\ e = env' /\ (f.op # "do" => f.first = Len(blocks) + 1) /\ cs = blocks'
       /\ depth' = IF f.op # "do" THEN depth + 1 ELSE depth
  BY <1>7, <1>8, <1>10, <1>30, <1>31, <1>33 DEF Extends
<1>40. Finished(blocks, cs, H, K, cur, A, n, Manner(P, doExitFrees), Len(blocks), siteReg)
  BY <1>7, <1>28, <1>29
<1>41. LowerOK(P, N, L, h, A, K)'
  BY <1>1, <1>2, <1>4, <1>31, <1>37, <1>38, <1>39, <1>40, LowerOpens
<1> QED BY <1>41

-----------------------------------------------------------------------------
(* Phis. *)

LEMMA EnvSame ==
  ASSUME NEW s, NEW a, NEW k \in Nat, NEW D, NEW A, NEW n, NEW U, EnvOK(s, a, k, D, A, n, U),
         NEW E, Same(D, E, k)
  PROVE  EnvOK(s, a, k, E, A, n, U)
<1>1. \A i \in 1 .. k : E[i] = D[i]
  BY DEF Same
<1>2. Stack(s, k, D, 1 .. n)
  BY DEF EnvOK
<1>3. Stack(s, k, E, 1 .. n)
  BY <1>1, <1>2, StackSame
<1> QED BY <1>1, <1>3 DEF EnvOK, Covered, Named

LEMMA UnderSame ==
  ASSUME NEW a, NEW b, NEW k, NEW D, Under(a, b, k, D), NEW E, Same(D, E, k)
  PROVE  Under(a, b, k, E)
BY DEF Under, Same

(* The registers of phis may hold what the walk found for their names. *)
Valued(b, k, D) == \A d \in 1 .. k : \A x \in D[d] : b[d][x] \subseteq Nat
PhisHold(B, first, order, D, k, b) ==
  \A d \in 1 .. k : \A x \in D[d] : Moved(order, D, k, d, x) => B[first + order[x]] = b[d][x]

LEMMA NewAliases ==
  ASSUME NEW P, NEW N, NEW L, NEW q, NEW k \in Nat, NEW D, NEW order, OrderOK(P, N, L, q, k, D, order),
         NEW A \in [Nat -> SUBSET Nat], NEW n \in Nat, NEW b, Valued(b, k, D)
  PROVE  \E B : B \in [Nat -> SUBSET Nat] /\ Extends(A, B, n) /\ PhisHold(B, n, order, D, k, b)
<1>1. PICK F : F = [r \in Nat |-> {v \in Nat : \E d \in 1 .. k : \E x \in D[d] :
                                Moved(order, D, k, d, x) /\ r = n + order[x] /\ v \in b[d][x]}]
  OBVIOUS
<1>2. F \in [Nat -> SUBSET Nat]
  BY <1>1
<1>3. PICK B : B = [r \in Nat |-> IF r <= n THEN A[r] ELSE F[r]]
  OBVIOUS
<1>4. B \in [Nat -> SUBSET Nat]
  BY <1>2, <1>3
<1>5. Extends(A, B, n)
  BY <1>3 DEF Extends
<1>6. ASSUME NEW d \in 1 .. k, NEW x \in D[d], Moved(order, D, k, d, x)
      PROVE  B[n + order[x]] = b[d][x]
  <2>1. x \in DOMAIN order /\ Inmost(D, k, x, d)
    BY <1>6 DEF Moved
  <2>2. order[x] \in Nat /\ order[x] >= 1
    BY <2>1 DEF OrderOK
  <2>3. PICK r : r = n + order[x]
    OBVIOUS
  <2>4. r \in Nat /\ ~ (r <= n)
    BY <2>2, <2>3
  <2>5. B[r] = F[r]
    BY <2>4, <1>3
  <2>6. b[d][x] \subseteq F[r]
    <3> SUFFICES ASSUME NEW v \in b[d][x] PROVE v \in F[r]
      OBVIOUS
    <3>1. v \in Nat
      BY DEF Valued
    <3> QED BY <3>1, <2>3, <2>4, <1>1, <1>6
  <2>7. F[r] \subseteq b[d][x]
    <3> SUFFICES ASSUME NEW v \in F[r] PROVE v \in b[d][x]
      OBVIOUS
    <3>1. PICK e \in 1 .. k : \E y \in D[e] : Moved(order, D, k, e, y) /\ r = n + order[y] /\ v \in b[e][y]
      BY <2>4, <1>1
    <3>2. PICK y \in D[e] : Moved(order, D, k, e, y) /\ r = n + order[y] /\ v \in b[e][y]
      BY <3>1
    <3>3. y \in DOMAIN order /\ Inmost(D, k, y, e)
      BY <3>2 DEF Moved
    <3>4. order[y] \in Nat
      BY <3>3 DEF OrderOK
    <3>5. order[y] = order[x]
      BY <3>2, <3>4, <2>2, <2>3
    <3>6. y = x
      BY <3>3, <3>5, <2>1 DEF OrderOK
    <3>7. e = d
      BY <3>3, <3>6, <2>1, InmostUnique
    <3> QED BY <3>2, <3>6, <3>7
  <2> QED BY <2>3, <2>5, <2>6, <2>7
<1> QED BY <1>4, <1>5, <1>6 DEF PhisHold

PhiSet(order, first) == {first + order[x] : x \in DOMAIN order}
KeptRegs(s, k, D, order) ==
  {r \in Nat : \E d \in 1 .. k : \E x \in D[d] : ~ Moved(order, D, k, d, x) /\ r = s[d][x]}

(* The bindings after the phis. *)
LEMMA EnvRebinds ==
  ASSUME NEW s, NEW a, NEW k \in Nat, NEW D, NEW A, NEW n \in Nat, NEW U, EnvOK(s, a, k, D, A, n, U),
         NEW order, NEW first \in Nat, NEW m \in Nat, n <= m, PhiSet(order, first) \subseteq 1 .. m,
         NEW B, Extends(A, B, n), NEW b, Under(a, b, k, D),
         \A d \in 1 .. k : \A x \in D[d] : Moved(order, D, k, d, x) => B[first + order[x]] \subseteq b[d][x],
         NEW V, PhiSet(order, first) \subseteq V, KeptRegs(s, k, D, order) \subseteq V,
         NEW t, t = Rebound(s, order, first)
  PROVE  EnvOK(t, b, k, D, B, m, V) /\ Agrees(s, t, order, D, k)
<1>1. Stack(s, k, D, 1 .. n) /\ Covered(s, a, k, D, A)
  BY DEF EnvOK
<1>2. 1 .. n \subseteq 1 .. m /\ \A x \in DOMAIN order : first + order[x] \in 1 .. m
  BY DEF PhiSet
<1>3. Stack(t, k, D, 1 .. m) /\ Rebinds(s, t, order, first, D, k)
  BY <1>1, <1>2, StackRebound
<1>4. /\ \A d \in 1 .. k : \A x \in D[d] : Moved(order, D, k, d, x) => t[d][x] = first + order[x]
      /\ \A d \in 1 .. k : \A x \in D[d] : ~ Moved(order, D, k, d, x) => t[d][x] = s[d][x]
  BY <1>3 DEF Rebinds
<1>5. \A d \in 1 .. k : \A x \in D[d] : s[d][x] \in 1 .. n
  BY <1>1 DEF Stack
<1>6. Covered(t, b, k, D, B)
  <2> SUFFICES ASSUME NEW d \in 1 .. k, NEW x \in D[d] PROVE B[t[d][x]] \subseteq b[d][x]
    BY DEF Covered
  <2>1. CASE Moved(order, D, k, d, x)
    BY <2>1, <1>4
  <2>2. CASE ~ Moved(order, D, k, d, x)
    <3>1. t[d][x] = s[d][x] /\ s[d][x] \in 1 .. n
      BY <2>2, <1>4, <1>5
    <3>2. A[s[d][x]] \subseteq b[d][x]
      BY <1>1 DEF Covered, Under
    <3> QED BY <3>1, <3>2 DEF Extends
  <2> QED BY <2>1, <2>2
<1>7. Named(t, k, D, V)
  <2> SUFFICES ASSUME NEW d \in 1 .. k, NEW x \in D[d] PROVE t[d][x] \in V
    BY DEF Named
  <2>1. CASE Moved(order, D, k, d, x)
    <3>1. x \in DOMAIN order
      BY <2>1 DEF Moved
    <3> QED BY <3>1, <2>1, <1>4 DEF PhiSet
  <2>2. CASE ~ Moved(order, D, k, d, x)
    <3>1. t[d][x] = s[d][x] /\ s[d][x] \in Nat
      BY <2>2, <1>4, <1>5
    <3> QED BY <3>1, <2>2 DEF KeptRegs
  <2> QED BY <2>1, <2>2
<1> QED BY <1>3, <1>4, <1>6, <1>7 DEF EnvOK, Agrees

(* The argument of a phi, and two. *)
LEMMA ArgsOne ==
  ASSUME NEW i \in Nat, NEW q \in Nat, NEW args, args = <<<<i, q>>>>
  PROVE  args \in Seq(Nat \X Nat) /\ ToSet(args) = {<<i, q>>}
<1>1. PICK a : a = <<i, q>>
  OBVIOUS
<1>2. a \in Nat \X Nat /\ args = <<a>>
  BY <1>1
<1>3. args \in Seq(Nat \X Nat)
  BY <1>2
<1>4. ToSet(args) = {a}
  BY <1>2, ExitSets
<1> QED BY <1>1, <1>3, <1>4

LEMMA ArgsTwo ==
  ASSUME NEW i \in Nat, NEW q \in Nat, NEW j \in Nat, NEW r \in Nat, NEW args, args = <<<<i, q>>, <<j, r>>>>
  PROVE  args \in Seq(Nat \X Nat) /\ ToSet(args) = {<<i, q>>, <<j, r>>}
<1>1. PICK a, b : a = <<i, q>> /\ b = <<j, r>>
  OBVIOUS
<1>2. a \in Nat \X Nat /\ b \in Nat \X Nat /\ args = <<a, b>>
  BY <1>1
<1>3. args \in Seq(Nat \X Nat)
  BY <1>2
<1>4. ToSet(args) = {a, b}
  BY <1>2, ExitSets
<1> QED BY <1>1, <1>3, <1>4

(* A name that a phi is for is bound somewhere. *)
LEMMA PhiNames ==
  ASSUME NEW P, NEW N, NEW L, NEW q, NEW k \in Nat, NEW D, NEW order, OrderOK(P, N, L, q, k, D, order),
         NEW x \in DOMAIN order
  PROVE  \E d \in 1 .. k : x \in D[d] /\ Inmost(D, k, x, d) /\ Moved(order, D, k, d, x)
<1>1. Declared(D, k, x)
  BY DEF OrderOK
<1>2. PICK d : Inmost(D, k, x, d)
  BY <1>1, InmostExists
<1> QED BY <1>2 DEF Inmost, Moved

LEMMA PhiPlaces ==
  ASSUME NEW P, NEW N, NEW L, NEW q, NEW k \in Nat, NEW D, NEW order, OrderOK(P, N, L, q, k, D, order),
         NEW n \in Nat, NEW m, m = n + Cardinality(DOMAIN order)
  PROVE  m \in Nat /\ n <= m /\ PhiSet(order, n) \subseteq 1 .. m
<1>1. Cardinality(DOMAIN order) \in Nat /\ \A x \in DOMAIN order : order[x] \in 1 .. Cardinality(DOMAIN order)
  BY DEF OrderOK
<1>2. m \in Nat /\ n <= m
  BY <1>1
<1>3. \A x \in DOMAIN order : n + order[x] \in 1 .. m
  BY <1>1
<1> QED BY <1>2, <1>3 DEF PhiSet

-----------------------------------------------------------------------------
(* A loop. *)

(* The phis of a loop header, with their argument from the block before. *)
HeaderPhis(order, n, here, s) ==
  [x \in DOMAIN order |-> [reg |-> n + order[x], args |-> <<<<here, ReadVar(s, x)>>>>]]

LEMMA PhiRegsAre ==
  ASSUME NEW cs, NEW j, NEW order, NEW n, DOMAIN cs[j].phis = DOMAIN order,
         \A x \in DOMAIN order : cs[j].phis[x].reg = n + order[x]
  PROVE  PhiRegs(cs, j) = PhiSet(order, n)
BY DEF PhiRegs, PhiSet

(* The header may be entered from block here. *)
HeaderOK(cs, j, B, m, order, n, here, U) ==
  /\ DOMAIN cs[j].phis = DOMAIN order /\ PhisOK(cs, j, m)
  /\ \A x \in DOMAIN order : cs[j].phis[x].reg = n + order[x]
  /\ \A x \in DOMAIN order : TakesOK(cs[j].phis[x], here, U, B)

LEMMA HeaderIs ==
  ASSUME NEW P, NEW N, NEW L, NEW q, NEW k \in Nat, NEW D, NEW order, OrderOK(P, N, L, q, k, D, order),
         NEW s, NEW a, NEW A, NEW n \in Nat, NEW U, EnvOK(s, a, k, D, A, n, U),
         NEW m, PhiSet(order, n) \subseteq 1 .. m, NEW B, Extends(A, B, n),
         NEW b, PhisHold(B, n, order, D, k, b), Under(a, b, k, D),
         NEW cs, NEW here \in 1 .. Len(cs), here \in Nat, cs[here].exit # <<>>,
         NEW j, cs[j].phis = HeaderPhis(order, n, here, s)
  PROVE  HeaderOK(cs, j, B, m, order, n, here, U)
<1>1. /\ DOMAIN cs[j].phis = DOMAIN order
      /\ \A x \in DOMAIN order : cs[j].phis[x].reg = n + order[x] /\ cs[j].phis[x].args = <<<<here, ReadVar(s, x)>>>>
  BY DEF HeaderPhis
<1>2. Stack(s, k, D, 1 .. n) /\ Named(s, k, D, U) /\ Covered(s, a, k, D, A)
  BY DEF EnvOK
<1>3. ASSUME NEW x \in DOMAIN order
      PROVE  PhiOK(cs, cs[j].phis[x], m) /\ TakesOK(cs[j].phis[x], here, U, B)
  <2>1. PICK d \in 1 .. k : x \in D[d] /\ Inmost(D, k, x, d) /\ Moved(order, D, k, d, x)
    BY <1>3, PhiNames
  <2>2. PICK phi, v : phi = cs[j].phis[x] /\ v = ReadVar(s, x)
    OBVIOUS
  <2>3. v = s[d][x] /\ v \in 1 .. n
    BY <2>1, <2>2, <1>2, ReadIs
  <2>4. v \in Nat /\ v \in U
    BY <2>1, <2>3, <1>2 DEF Named
  <2>5. phi.args \in Seq(Nat \X Nat) /\ ToSet(phi.args) = {<<here, v>>}
    BY <2>2, <2>4, <1>1, ArgsOne
  <2>6. phi.reg \in 1 .. m /\ phi.reg = n + order[x]
    BY <2>2, <1>1 DEF PhiSet
  <2>7. B[v] \subseteq B[phi.reg]
    <3>1. B[v] = A[v]
      BY <2>3 DEF Extends
    <3>2. A[v] \subseteq a[d][x]
      BY <2>1, <2>3, <1>2 DEF Covered
    <3>3. a[d][x] \subseteq b[d][x]
      BY <2>1 DEF Under
    <3>4. B[phi.reg] = b[d][x]
      BY <2>1, <2>6 DEF PhisHold
    <3> QED BY <3>1, <3>2, <3>3, <3>4
  <2>8. PICK w : w = <<here, v>>
    OBVIOUS
  <2>9. w[1] = here /\ w[2] = v /\ ToSet(phi.args) = {w}
    BY <2>5, <2>8
  <2>10. PhiOK(cs, phi, m)
    BY <2>5, <2>6, <2>9 DEF PhiOK
  <2>11. TakesOK(phi, here, U, B)
    BY <2>4, <2>7, <2>9 DEF TakesOK
  <2> QED BY <2>2, <2>10, <2>11
<1>4. PhisOK(cs, j, m)
  BY <1>1, <1>3 DEF PhisOK
<1> QED BY <1>1, <1>3, <1>4 DEF HeaderOK

(* What opens keeps the outer bindings, up to the phis. *)
LEMMA ReboundRewrites ==
  ASSUME NEW P, NEW N, NEW L, Program(P, N, L), NEW c \in 1 .. N, NEW o, NEW l \in Nat, NEW D,
         NEW h, Opening(P, N, L, h, c, o, l, D),
         NEW k, k = l + 1, NEW order, OrderOK(P, N, L, c, k, D, order),
         NEW s, NEW t, Agrees(s, t, order, D, k), NEW e, Same(t, e, k)
  PROVE  Outer(P, N, L, o, l, D, s, e)
<1> SUFFICES ASSUME NEW i \in 1 .. l PROVE Rewrites(P, N, L, L.opn[o][i], D, i, s, e)
  BY DEF Outer
<1>1. PICK r : r = L.opn[o][i]
  OBVIOUS
<1>2. r \in 1 .. N /\ Inside(L, r, c)
  BY <1>1 DEF Opening
<1>3. k \in Nat /\ i \in 1 .. k
  OBVIOUS
<1>4. Rewrites(P, N, L, r, D, i, s, t)
  BY <1>2, <1>3, BlockRewrites
<1>5. \A d \in 1 .. i : e[d] = t[d]
  BY <1>3 DEF Same
<1> QED BY <1>1, <1>4, <1>5 DEF Rewrites

(* The header is entered with the phis of the names the body assigns; the other  *)
(* bindings stay, and the body and what follows start with both.              *)
LEMMA LowerWhileOK ==
  ASSUME NEW P, NEW N, NEW L, NEW h, NEW A, NEW H, LowerOK(P, N, L, h, A, H), LowerWhile, UNCHANGED analysis
  PROVE  \E B, K : LowerOK(P, N, L, h, B, K)'
<1>1. PICK c, o, l, D : Here(L, c, o, l, D)
  BY DEF Here
<1>2. pc <= N /\ Token.op = "while"
  <2>1. Len(prog) = N
    BY DEF LowerOK, WalkedTo, Program
  <2> QED BY <2>1 DEF LowerWhile, At
<1>3. /\ Token = P[c] /\ l \in Nat /\ c \in 1 .. N /\ prog = P /\ Program(P, N, L) /\ L \in Layouts /\ c \in Nat
      /\ D \in [Nat -> SUBSET Names] /\ L.lev[c] \in Nat /\ ShapedAt(L, N, c, h[c + 1])
      /\ CodeOK(blocks, A, H, nregs, Manner(P, doExitFrees)) /\ nregs \in Nat /\ Len(blocks) \in Nat
      /\ cur \in 1 .. Len(blocks) /\ blocks[cur].exit = <<>>
      /\ EnvOK(env, h[c], l + 1, D, A, nregs, HEnd(blocks, H, cur))
      /\ SitesOK(blocks, A, nregs, siteReg)
  BY <1>1, <1>2, LowerStands
<1>4. P[c].op \in Openers /\ c = pc
  BY <1>1, <1>2, <1>3 DEF Openers, Here
<1>5. Opening(P, N, L, h, c, o, l, D)
  BY <1>1, <1>2, <1>4, OpeningIs
<1>6. Under(h[c], h[c + 1], l + 1, D) /\ Same(D, L.dcl[c], l + 1) /\ L.dcl[c][l + 2] = {} /\ L.lev[c] = l + 1
  BY <1>5 DEF Opening
<1>7. PICK bs, here, n, s, U, G, z, k, E, a, b : /\ bs = blocks /\ here = cur /\ n = nregs /\ s = env
                                /\ U = HEnd(bs, H, here) /\ G = Manner(P, doExitFrees) /\ z = Len(bs) /\ k = l + 1
                                /\ E = L.dcl[c] /\ a = h[c] /\ b = h[c + 1]
  OBVIOUS
<1>8. PICK order : order = PhiOrder(c)
  OBVIOUS
<1>9. PICK cs, e, to, nb, t, m, x : /\ cs = blocks' /\ e = env' /\ to = <<z + 1>> /\ nb = NewBlock
                           /\ t = Rebound(s, order, n) /\ m = n + Cardinality(DOMAIN order)
                           /\ x = [phis |-> HeaderPhis(order, n, here, s), code |-> <<>>, exit |-> <<z + 2, z + 3>>]
  OBVIOUS
<1>10. PICK f : f = [op |-> "while", entry |-> s, order |-> order, regs |-> <<>>, first |-> z + 1, from |-> n]
  OBVIOUS
<1>11. /\ z \in Nat /\ here \in 1 .. z /\ here \in Nat /\ n \in Nat /\ k \in Nat /\ CodeOK(bs, A, H, n, G)
       /\ bs[here].exit = <<>> /\ EnvOK(s, a, k, D, A, n, U) /\ l + 2 = k + 1 /\ Same(D, E, k) /\ E[k + 1] = {}
       /\ Under(a, b, k, D)
  BY <1>3, <1>6, <1>7
<1>12. cs = [bs EXCEPT ![here].exit = to] \o <<x, nb, nb>>
  <2>1. Len(blocks) + 1 + 1 = z + 2 /\ Len(blocks) + 1 + 2 = z + 3
    BY <1>7, <1>11
  <2>2. x = [phis |-> [y \in DOMAIN PhiOrder(pc) |-> [reg |-> nregs + PhiOrder(pc)[y],
                         args |-> <<<<cur, ReadVar(env, y)>>>>]], code |-> <<>>, exit |-> <<z + 2, z + 3>>]
    BY <1>4, <1>7, <1>8, <1>9 DEF HeaderPhis
  <2>3. /\ blocks' = Ending(blocks, <<Len(blocks) + 1>>) \o
             <<[phis |-> [y \in DOMAIN PhiOrder(pc) |-> [reg |-> nregs + PhiOrder(pc)[y],
                  args |-> <<<<cur, ReadVar(env, y)>>>>]],
                code |-> <<>>, exit |-> <<Len(blocks) + 1 + 1, Len(blocks) + 1 + 2>>], NewBlock, NewBlock>>
    BY DEF LowerWhile
  <2>4. blocks' = Ending(blocks, <<z + 1>>) \o <<x, nb, nb>>
    BY <2>1, <2>2, <2>3, <1>7, <1>9
  <2> QED BY <2>4, <1>7, <1>9 DEF Ending
<1>13. IsBlock(nb) /\ Blank(nb)
  BY <1>9, NewBlockIs
<1>14. to \in Seq(Nat) /\ to # <<>> /\ ToSet(to) = {z + 1}
  <2>1. to \in Seq(Nat) /\ Len(to) = 1
    BY <1>9, <1>11
  <2>2. Len(<<>>) = 0
    OBVIOUS
  <2>3. to # <<>>
    BY <2>1, <2>2
  <2> QED BY <2>1, <2>3, <1>9, ExitSets
<1>15. x.exit \in Seq(Nat) /\ x.exit # <<>> /\ ToSet(x.exit) = {z + 2, z + 3} /\ x.code = <<>>
       /\ x.phis = HeaderPhis(order, n, here, s) /\ IsBlock(x)
  <2>1. x.exit = <<z + 2, z + 3>> /\ x.code = <<>> /\ x.phis = HeaderPhis(order, n, here, s)
        /\ x = [phis |-> x.phis, code |-> x.code, exit |-> x.exit]
    BY <1>9
  <2>2. z + 2 \in Nat /\ z + 3 \in Nat
    BY <1>11
  <2>3. x.exit \in Seq(Nat) /\ Len(x.exit) = 2
    BY <2>1, <2>2
  <2>4. Len(<<>>) = 0
    OBVIOUS
  <2>5. x.exit # <<>>
    BY <2>3, <2>4
  <2>6. ToSet(x.exit) = {z + 2, z + 3}
    BY <2>1, ExitSets
  <2>7. x.code \in Seq(Instrs)
    BY <2>1
  <2> QED BY <2>1, <2>3, <2>5, <2>6, <2>7 DEF IsBlock
<1>16. BlocksOK(bs) /\ A \in [Nat -> SUBSET Nat] /\ H \in [Nat -> [Nat -> SUBSET Nat]] /\ U \subseteq 1 .. n
  <2>1. U \subseteq 1 .. n
    BY <1>7, <1>11, EndKnown
  <2> QED BY <2>1, <1>11 DEF CodeOK, KnownOK
<1>17. Grown3(bs, cs, here, to, x, nb, nb)
  BY <1>7, <1>11, <1>12, <1>13, <1>14, <1>15, <1>16, Grown3Is
<1>18. OrderOK(P, N, L, c, k, D, order)
  <2>1. Stack(env, k, D, 1 .. n)
    BY <1>7, <1>11 DEF EnvOK
  <2> QED BY <2>1, <1>3, <1>4, <1>8, <1>11, OrderIs
<1>19. m \in Nat /\ n <= m /\ PhiSet(order, n) \subseteq 1 .. m
  BY <1>9, <1>11, <1>18, PhiPlaces
<1>20. Valued(b, k, D)
  <2>1. Stack(b, k + 1, E, AliasSets(N))
    BY <1>3, <1>6, <1>7 DEF ShapedAt
  <2>4. \A d \in 1 .. k : d \in 1 .. k + 1 /\ E[d] = D[d]
    BY <1>11 DEF Same
  <2>2. \A d \in 1 .. k : b[d] \in [D[d] -> AliasSets(N)]
    BY <2>1, <2>4 DEF Stack
  <2>3. \A d \in 1 .. k : \A y \in D[d] : b[d][y] \in AliasSets(N)
    BY <2>2
  <2> QED BY <2>3 DEF Valued, AliasSets
<1>21. PICK B : B \in [Nat -> SUBSET Nat] /\ Extends(A, B, n) /\ PhisHold(B, n, order, D, k, b)
  BY <1>11, <1>16, <1>18, <1>20, NewAliases
<1>22. PICK V : V = PhiSet(order, n) \cup KeptRegs(s, k, D, order)
  OBVIOUS
<1>23. KeptRegs(s, k, D, order) \subseteq U
  BY <1>11 DEF KeptRegs, EnvOK, Named
<1>24. V \subseteq 1 .. m /\ V \in SUBSET Nat
  <2>1. U \subseteq 1 .. m
    BY <1>11, <1>16, <1>19
  <2>2. V \subseteq 1 .. m
    BY <2>1, <1>19, <1>22, <1>23
  <2> QED BY <2>2
<1>25. PICK K : Known3(H, K, z, V, V, V)
  BY <1>11, <1>16, <1>24, Known3Is
<1>26. Completes(bs, cs, H, K, here, 0)
  BY <1>7, <1>11, <1>14, <1>17, <1>25, GrownCompletes
<1>27. /\ BlocksOK(cs) /\ Len(cs) = z + 3
       /\ \A i \in 1 .. z : i # here => cs[i] = bs[i]
       /\ cs[here].exit = to /\ cs[here].code = bs[here].code
       /\ cs[z + 1] = x /\ cs[z + 2] = nb /\ cs[z + 3] = nb
  BY <1>7, <1>17 DEF Grown3
<1>28. /\ K \in [Nat -> [Nat -> SUBSET Nat]] /\ \A i \in 1 .. z : K[i] = H[i]
       /\ K[z + 1][1] = V /\ K[z + 2][1] = V /\ K[z + 3][1] = V
  BY <1>25 DEF Known3
<1>29. nb.code = <<>> /\ nb.exit = <<>> /\ DOMAIN nb.phis = {} /\ ToSet(<<>>) = {}
  BY <1>13, ExitSets DEF Blank
<1>30. PICK j : j = z + 1
  OBVIOUS
<1>31. HeaderOK(cs, j, B, m, order, n, here, U)
  <2>1. cs[j].phis = HeaderPhis(order, n, here, s) /\ here \in 1 .. Len(cs) /\ cs[here].exit # <<>>
    BY <1>11, <1>14, <1>15, <1>27, <1>30
  <2> QED BY <2>1, <1>11, <1>18, <1>19, <1>21, HeaderIs
<1>32. PhiRegs(cs, j) = PhiSet(order, n)
  BY <1>31, PhiRegsAre DEF HeaderOK
<1>33. \A i \in z + 1 .. z + 3 : i = z + 1 \/ i = z + 2 \/ i = z + 3
  BY <1>11
<1>34. HEnd(cs, K, here) = U
  BY <1>7, <1>11, <1>27, <1>28 DEF HEnd
<1>35. HEnd(cs, K, j) = V
  <2>1. Len(cs[j].code) + 1 = 1
    BY <1>15, <1>27, <1>30
  <2> QED BY <2>1, <1>28, <1>30 DEF HEnd
<1>36. AddedOK(cs, j, B, K, m)
  <2>1. ExitOK(cs, j, B, K)
    <3> SUFFICES ASSUME NEW i \in {z + 2, z + 3} PROVE i \in 1 .. Len(cs) /\ EdgeOK(cs, j, i, B, K)
      BY <1>15, <1>27, <1>30 DEF ExitOK
    <3>2. i \in 1 .. z + 3
      BY <1>11
    <3>3. cs[i] = nb /\ K[i][1] = V
      <4>1. i = z + 2 \/ i = z + 3
        OBVIOUS
      <4>2. i = z + 2 => cs[i] = nb /\ K[i][1] = V
        BY <1>27, <1>28
      <4>3. i = z + 3 => cs[i] = nb /\ K[i][1] = V
        BY <1>27, <1>28
      <4> QED BY <4>1, <4>2, <4>3
    <3>1. i \in 1 .. z + 3 /\ cs[i] = nb /\ K[i][1] = V
      BY <3>2, <3>3
    <3> QED BY <3>1, <1>27, <1>29, <1>35 DEF EdgeOK
  <2>2. PhisOK(cs, j, m)
    BY <1>31 DEF HeaderOK
  <2> QED BY <2>1, <2>2, <1>15, <1>24, <1>27, <1>28, <1>30 DEF AddedOK
<1>37. \A i \in z + 1 .. Len(cs) : AddedOK(cs, i, B, K, m)
  <2> SUFFICES ASSUME NEW i \in z + 1 .. z + 3 PROVE AddedOK(cs, i, B, K, m)
    BY <1>27
  <2>1. CASE i = j
    BY <2>1, <1>36
  <2>2. CASE i # j
    <3>1. cs[i] = nb /\ K[i][1] \subseteq 1 .. m
      BY <2>2, <1>24, <1>27, <1>28, <1>30, <1>33
    <3> QED BY <3>1, <1>29 DEF AddedOK, PhisOK, ExitOK
  <2> QED BY <2>1, <2>2
<1>38. ExitOK(cs, here, B, K)
  <2> SUFFICES j \in 1 .. Len(cs) /\ EdgeOK(cs, here, j, B, K)
    BY <1>14, <1>27, <1>30 DEF ExitOK
  <2>1. j \in 1 .. Len(cs)
    BY <1>11, <1>27, <1>30
  <2>2. K[j][1] \subseteq U \cup PhiRegs(cs, j)
    BY <1>22, <1>23, <1>28, <1>30, <1>32
  <2>3. \A y \in DOMAIN cs[j].phis : TakesOK(cs[j].phis[y], here, U, B)
    BY <1>31 DEF HeaderOK
  <2> QED BY <2>1, <2>2, <2>3, <1>34 DEF EdgeOK
<1>39. Finishing(bs, A, H, n, here, B, m, cs, K, 0)
  <2>1. 0 \notin 1 .. Len(bs) /\ 0 # here
    BY <1>7, <1>11
  <2>2. \A i \in Len(bs) + 1 .. Len(cs) : AddedOK(cs, i, B, K, m)
    BY <1>7, <1>37
  <2> QED BY <2>1, <2>2, <1>19, <1>21, <1>26, <1>27, <1>28, <1>38 DEF Finishing
<1>40. Later(bs, cs, H, K, here, 0, z)
  <2>1. \A i \in ToSet(cs[here].exit) : i > z
    BY <1>11, <1>14, <1>27
  <2>2. ASSUME NEW i \in z + 1 .. z + 3, NEW y \in ToSet(cs[i].exit)
        PROVE  y > z
    <3>1. CASE i = z + 1
      <4>1. y \in {z + 2, z + 3}
        BY <3>1, <2>2, <1>15, <1>27
      <4> QED BY <4>1, <1>11
    <3>2. CASE i # z + 1
      <4>1. cs[i] = nb
        BY <3>2, <1>27, <1>33
      <4> QED BY <4>1, <2>2, <1>29
    <3> QED BY <3>1, <3>2
  <2>3. 0 \notin 1 .. Len(bs)
    BY <1>7, <1>11
  <2> QED BY <2>1, <2>2, <2>3, <1>7, <1>27 DEF Later
<1>41. PICK sr : sr = siteReg
  OBVIOUS
<1>42. Finished(bs, cs, H, K, here, B, m, G, z, sr)
  <2>1. SitesOK(bs, A, n, sr) /\ here \in 1 .. Len(bs)
    BY <1>3, <1>7, <1>41
  <2> QED BY <2>1, <1>11, <1>39, <1>40, FinishIs
<1>43. PICK there : there = z + 2
  OBVIOUS
<1>44. /\ ctl' = Append(ctl, f) /\ siteReg' = siteReg /\ there = cur' /\ m = nregs'
       /\ Advance /\ depth' = depth + 1 /\ e = Opened(t)
  <2>1. Len(blocks) + 1 + 1 = z + 2
    BY <1>7, <1>11
  <2> QED BY <2>1, <1>4, <1>7, <1>8, <1>9, <1>10, <1>43 DEF LowerWhile
<1>45. \A d \in 1 .. k : \A y \in D[d] : Moved(order, D, k, d, y) => B[n + order[y]] = b[d][y]
  BY <1>21 DEF PhisHold
<1>46. EnvOK(t, b, k, D, B, m, V) /\ Agrees(s, t, order, D, k)
  <2>1. \A d \in 1 .. k : \A y \in D[d] : Moved(order, D, k, d, y) => B[n + order[y]] \subseteq b[d][y]
    BY <1>45
  <2>2. PhiSet(order, n) \subseteq V /\ KeptRegs(s, k, D, order) \subseteq V
    BY <1>22
  <2> QED BY <2>1, <2>2, <1>9, <1>11, <1>19, <1>21, EnvRebinds
<1>47. EnvOK(e, b, k + 1, E, B, m, V) /\ Same(t, e, k)
  <2>1. Under(b, b, k, D)
    BY DEF Under
  <2>2. EnvOK(t, b, k, D, B, m, V) /\ e = Opened(t)
    BY <1>44, <1>46
  <2> QED BY <2>1, <2>2, <1>11, EnvOpens
<1>48. f.op = "while" /\ IsCtl(f) /\ f.entry = s /\ f.order = order /\ f.first = z + 1 /\ f.from = n
  BY <1>10 DEF IsCtl
<1>49. BranchOK(P, N, L, cs, m, there, e, c, D, k, f)
  <2>1. Stack(s, k, D, 1 .. n) /\ 1 .. n \subseteq 1 .. m
    BY <1>11, <1>19 DEF EnvOK
  <2>2. Stack(s, k, D, 1 .. m)
    BY <2>1, StackWider
  <2>3. Agrees(s, e, order, D, k)
    BY <1>46, <1>47 DEF Agrees, Same
  <2>4. f.first \in Nat /\ f.first >= 2 /\ f.first + 2 <= Len(cs) /\ f.first + 2 = z + 3
    BY <1>11, <1>27, <1>48
  <2>5. there # z + 3 /\ Blank(cs[z + 3])
    BY <1>11, <1>13, <1>27, <1>43
  <2> QED BY <2>2, <2>3, <2>4, <2>5, <1>18, <1>48 DEF BranchOK
<1>50. LoopOK(h, B, K, cs, m, c, D, k, f)
  <2>1. \A y \in DOMAIN order : n + order[y] \in 1 .. m /\ n + order[y] \in V
    BY <1>19, <1>22 DEF PhiSet
  <2>2. f.first = j /\ f.first + 2 = z + 3
    BY <1>11, <1>30, <1>48
  <2>3. cs[j].code = <<>> /\ cs[j].exit # <<>> /\ K[j][1] = V
    BY <1>15, <1>27, <1>28, <1>30
  <2>4. DOMAIN cs[j].phis = DOMAIN order /\ \A y \in DOMAIN order : cs[j].phis[y].reg = n + order[y]
    BY <1>31 DEF HeaderOK
  <2>5. \A r \in V : \/ r \in PhiRegs(cs, j)
                     \/ \E d \in 1 .. k : \E y \in D[d] : ~ Moved(order, D, k, d, y) /\ r = s[d][y]
    BY <1>22, <1>32 DEF KeptRegs
  <2>6. ASSUME NEW d \in 1 .. k, NEW y \in D[d], ~ Moved(order, D, k, d, y)
        PROVE  s[d][y] \in V
    <3>1. Stack(s, k, D, 1 .. n)
      BY <1>11 DEF EnvOK
    <3>2. s[d][y] \in 1 .. n
      BY <3>1 DEF Stack
    <3>3. s[d][y] \in Nat
      BY <3>2
    <3> QED BY <3>3, <2>6, <1>22 DEF KeptRegs
  <2>7. b = h[c + 1] /\ K[z + 3][1] = V
    BY <1>7, <1>28
  <2> QED BY <2>1, <2>2, <2>3, <2>4, <2>5, <2>6, <2>7, <1>11, <1>45, <1>48 DEF LoopOK
<1>51. CtlOK(P, N, L, h, B, K, cs, m, there, e, c, c, D, k, f)
  BY <1>2, <1>3, <1>48, <1>49, <1>50 DEF CtlOK
<1>52. CtlOK(P, N, L, h, B, K, cs, m, there, e, c, c, E, k, f)
  BY <1>11, <1>51, CtlSame
<1>53. Opened2(P, N, L, h, c, l, B, K, cs, m, there, e, f)
  <2>1. there \in 1 .. Len(cs) /\ cs[there] = nb
    BY <1>11, <1>27, <1>43
  <2>2. HEnd(cs, K, there) = V
    <3>1. Len(cs[there].code) + 1 = 1
      BY <2>1, <1>29
    <3> QED BY <3>1, <1>28, <1>43 DEF HEnd
  <2> QED BY <2>1, <2>2, <1>7, <1>11, <1>29, <1>47, <1>52 DEF Opened2
<1>54. Outer(P, N, L, o, l, D, env, e)
  BY <1>3, <1>5, <1>7, <1>18, <1>46, <1>47, ReboundRewrites
<1>55. /\ nregs <= m /\ m \in Nat /\ Extends(A, B, nregs) /\ (there = cur \/ there > Len(blocks))
       /\ e = env' /\ (f.op # "do" => f.first = Len(blocks) + 1) /\ cs = blocks'
       /\ depth' = IF f.op # "do" THEN depth + 1 ELSE depth
  BY <1>7, <1>9, <1>11, <1>19, <1>21, <1>43, <1>44, <1>48
<1>56. Finished(blocks, cs, H, K, cur, B, m, Manner(P, doExitFrees), Len(blocks), siteReg)
  BY <1>7, <1>41, <1>42
<1>57. LowerOK(P, N, L, h, B, K)'
  BY <1>1, <1>2, <1>4, <1>44, <1>53, <1>54, <1>55, <1>56, LowerOpens
<1> QED BY <1>57

-----------------------------------------------------------------------------
(* A block closes, or the then arm of an if does. *)

(* The layout at token c, which ends the block or the arm that token q began; j    *)
(* blocks are open around it.                                               *)
Closing(P, N, L, c, o, l, j, D, q) ==
  /\ j \in Nat /\ l = j + 1
  /\ q = L.opn[o][l] /\ q \in 1 .. N /\ P[q].op \in Openers
  /\ \A k \in 1 .. j : L.opn[c][k] = L.opn[o][k] /\ L.arm[c][k] = L.arm[o][k]
  /\ Same(D, L.dcl[c], l)
  /\ \A k \in 1 .. j : L.opn[o][k] \in 1 .. N /\ Inside(L, L.opn[o][k], q)

LEMMA ClosingIs ==
  ASSUME NEW P, NEW N, NEW L, Program(P, N, L), NEW c \in 1 .. N, NEW o, o = c - 1,
         NEW l, l = L.lev[o], NEW D, D = L.dcl[o], Turns(P, L, o, c) \/ Shuts(P, L, o, c)
  PROVE  \E j, q : Closing(P, N, L, c, o, l, j, D, q)
<1>1. l \in Nat /\ L \in Layouts /\ N \in Nat /\ c \in Nat /\ o \in Nat
  <2>1. o \in Nat /\ L.lev[o] \in Nat
    BY TokenAt
  <2> QED BY <2>1 DEF Program, Layout
<1>2. l >= 1
  BY DEF Turns, Shuts
<1>3. PICK j, q : j = l - 1 /\ q = L.opn[o][l]
  OBVIOUS
<1>4. j \in Nat /\ l = j + 1 /\ l \in 1 .. l
  BY <1>1, <1>2, <1>3
<1>5. Holding(P, N, L, o, l, q)
  BY <1>3, <1>4, OpenedAt
<1>6. PICK p : p = q - 1
  OBVIOUS
<1>7. /\ q \in 1 .. N /\ Opens(P, L, p, q) /\ L.lev[q] = l /\ L.lev[p] = j
      /\ \A k \in 1 .. j : L.opn[q][k] = L.opn[o][k]
  BY <1>3, <1>5, <1>6 DEF Holding
<1>8. P[q].op \in Openers /\ L.opn[q] = [L.opn[p] EXCEPT ![j + 1] = q]
  BY <1>7 DEF Opens
<1>9. p \in Nat
  BY <1>6, <1>7
<1>10. L.opn[p] \in [Nat -> Nat]
  BY <1>1, <1>9, LayoutTypes
<1>11. ASSUME NEW k \in 1 .. j
       PROVE  L.opn[o][k] \in 1 .. N /\ Inside(L, L.opn[o][k], q)
  <2>1. k \in Nat /\ k # j + 1 /\ k <= l
    BY <1>4
  <2>2. L.opn[p][k] = L.opn[o][k]
    BY <2>1, <1>7, <1>8, <1>10
  <2>3. k \in 1 .. L.lev[p] /\ L.lev[q] >= k
    BY <2>1, <1>4, <1>7
  <2>4. L.opn[p][k] \in 1 .. N /\ Inside(L, L.opn[p][k], q)
    BY <2>3, <1>6, <1>7, InsideOpen
  <2> QED BY <2>2, <2>4
<1>12. \A k \in 1 .. j : L.opn[c][k] = L.opn[o][k] /\ L.arm[c][k] = L.arm[o][k]
  <2>1. CASE Turns(P, L, o, c)
    <3>1. L.opn[c] = L.opn[o] /\ L.arm[c] = [L.arm[o] EXCEPT ![l] = c]
      BY <2>1 DEF Turns
    <3>2. L.arm[o] \in [Nat -> Nat]
      BY <1>1, LayoutTypes
    <3>3. \A k \in 1 .. j : k \in Nat /\ k # l
      BY <1>4
    <3> QED BY <3>1, <3>2, <3>3
  <2>2. CASE Shuts(P, L, o, c)
    BY <2>2 DEF Shuts
  <2> QED BY <2>1, <2>2
<1>13. Same(D, L.dcl[c], l)
  <2>1. CASE Turns(P, L, o, c)
    <3>1. L.dcl[c] = [L.dcl[o] EXCEPT ![l + 1] = {}]
      BY <2>1 DEF Turns
    <3>2. L.dcl[o] \in [Nat -> SUBSET Names]
      BY <1>1, LayoutTypes
    <3>3. \A k \in 1 .. l : k \in Nat /\ k # l + 1
      BY <1>1
    <3> QED BY <3>1, <3>2, <3>3 DEF Same
  <2>2. CASE Shuts(P, L, o, c)
    BY <2>2 DEF Shuts, Same
  <2> QED BY <2>1, <2>2
<1> QED BY <1>3, <1>4, <1>7, <1>8, <1>11, <1>12, <1>13 DEF Closing

(* The outer bindings that the block assigns. *)
LEMMA ClosedRewrites ==
  ASSUME NEW P, NEW N, NEW L, Program(P, N, L), NEW c, NEW o, NEW l, NEW j, NEW D, NEW q,
         Closing(P, N, L, c, o, l, j, D, q), NEW order, OrderOK(P, N, L, q, l, D, order),
         NEW s, NEW t, Agrees(s, t, order, D, l)
  PROVE  Outer(P, N, L, o, j, D, s, t)
<1>1. j \in Nat /\ l = j + 1 /\ l \in Nat /\ q \in 1 .. N
  BY DEF Closing
<1> SUFFICES ASSUME NEW i \in 1 .. j PROVE Rewrites(P, N, L, L.opn[o][i], D, i, s, t)
  BY DEF Outer
<1>2. PICK r : r = L.opn[o][i]
  OBVIOUS
<1>3. r \in 1 .. N /\ Inside(L, r, q)
  BY <1>2 DEF Closing
<1>4. i \in 1 .. l
  BY <1>1
<1>5. Rewrites(P, N, L, r, D, i, s, t)
  BY <1>1, <1>3, <1>4, BlockRewrites
<1> QED BY <1>2, <1>5

(* The frames of the j outermost calls come before the block after `last'. *)
Below(fs, j, last) == \A k \in 1 .. j : fs[k].op # "do" => fs[k].first + 2 <= last

LEMMA CallsStay ==
  ASSUME NEW P, NEW N, NEW L, NEW h, NEW A, NEW H, LowerOK(P, N, L, h, A, H), pc <= N,
         NEW c, NEW o, NEW l, NEW D, Here(L, c, o, l, D), NEW j, NEW q, Closing(P, N, L, c, o, l, j, D, q),
         NEW B, NEW K, NEW cs, NEW m \in Nat, nregs <= m, Extends(A, B, nregs),
         NEW last \in Nat, Below(ctl, j, last), NEW sr,
         Finished(blocks, cs, H, K, cur, B, m, Manner(P, doExitFrees), last, sr),
         NEW there \in Nat, there = cur \/ there > last,
         NEW t, Outer(P, N, L, o, j, D, env, t), NEW gs, Same(ctl, gs, j)
  PROVE  CtlsOK(P, N, L, h, B, K, cs, m, there, t, c, j, gs)
<1>1. /\ Program(P, N, L) /\ o \in Nat /\ l \in Nat
      /\ CodeOK(blocks, A, H, nregs, Manner(P, doExitFrees)) /\ nregs \in Nat
      /\ cur \in Nat /\ blocks[cur].exit = <<>>
      /\ CtlsOK(P, N, L, h, A, H, blocks, nregs, cur, env, o, l, ctl)
  BY LowerStands
<1>2. c = pc /\ o = c - 1 /\ l = L.lev[o] /\ D = L.dcl[o]
  BY DEF Here
<1>3. PICK bs, here, n, s, fs, G :
        bs = blocks /\ here = cur /\ n = nregs /\ s = env /\ fs = ctl /\ G = Manner(P, doExitFrees)
  OBVIOUS
<1>4. /\ Settled(bs, cs, H, K, here, last) /\ Len(cs) \in Nat
  BY <1>3 DEF Finished
<1>5. /\ j \in Nat /\ l = j + 1 /\ Same(D, L.dcl[c], l)
      /\ \A k \in 1 .. j : L.opn[c][k] = L.opn[o][k] /\ L.arm[c][k] = L.arm[o][k]
  BY DEF Closing
<1>6. \A k \in 1 .. j : k \in 1 .. l
  BY <1>5
<1>7. Same(L.dcl[o], L.dcl[c], j)
  BY <1>2, <1>5, <1>6 DEF Same
<1>8. CtlsOK(P, N, L, h, A, H, bs, n, here, s, o, j, fs)
  BY <1>1, <1>3, <1>6 DEF CtlsOK
<1>9. \A k \in 1 .. j : Rewrites(P, N, L, L.opn[o][k], L.dcl[o], k, s, t)
  BY <1>2, <1>3 DEF Outer
<1>10. \A k \in 1 .. j : fs[k].op # "do" => fs[k].first + 2 <= last
  BY <1>3 DEF Below
<1>11. \A k \in 1 .. j : gs[k] = fs[k]
  BY <1>3 DEF Same
<1>12. /\ CodeOK(bs, A, H, n, G) /\ n \in Nat /\ here \in Nat /\ bs[here].exit = <<>>
       /\ n <= m /\ Extends(A, B, n) /\ (there = here \/ there > last)
  BY <1>1, <1>3
<1>13. \A k \in 1 .. j : L.opn[c][k] = L.opn[o][k] /\ L.arm[c][k] = L.arm[o][k]
  BY <1>5
<1> QED BY <1>4, <1>5, <1>7, <1>8, <1>9, <1>10, <1>11, <1>12, <1>13, CtlsStay

(* The innermost call f, and the bindings t outside its block. *)
Closer(P, N, L, h, A, H, c, o, l, j, D, q, f, t) ==
  /\ Closing(P, N, L, c, o, l, j, D, q)
  /\ f = Last(ctl) /\ f = ctl[l] /\ f.op = P[q].op
  /\ CtlOK(P, N, L, h, A, H, blocks, nregs, cur, env, q, L.arm[o][l], D, l, f)
  /\ t = Front(env) /\ EnvOK(t, h[c], l, D, A, nregs, HEnd(blocks, H, cur)) /\ Same(env, t, l)
  /\ \A last \in Nat : f.op # "do" /\ f.first = last + 1 => Below(ctl, j, last)

LEMMA EnvFront ==
  ASSUME NEW s, NEW a, NEW k \in Nat, NEW D, NEW A, NEW n, NEW U, EnvOK(s, a, k + 1, D, A, n, U),
         NEW t, t = Front(s)
  PROVE  EnvOK(t, a, k, D, A, n, U) /\ Same(s, t, k)
<1>1. Stack(s, k + 1, D, 1 .. n)
  BY DEF EnvOK
<1>2. Stack(t, k, D, 1 .. n) /\ Same(s, t, k)
  BY <1>1, StackFront
<1>3. \A d \in 1 .. k : d \in 1 .. k + 1 /\ t[d] = s[d]
  BY <1>2 DEF Same
<1>4. Covered(t, a, k, D, A)
  BY <1>3 DEF EnvOK, Covered
<1>5. Named(t, k, D, U)
  BY <1>3 DEF EnvOK, Named
<1> QED BY <1>2, <1>4, <1>5 DEF EnvOK

LEMMA LastOf ==
  ASSUME NEW S, NEW s \in Seq(S), NEW n, Len(s) = n
  PROVE  Last(s) = s[n]
BY DEF Last

LEMMA CloserIs ==
  ASSUME NEW P, NEW N, NEW L, NEW h, NEW A, NEW H, LowerOK(P, N, L, h, A, H), pc <= N,
         NEW c, NEW o, NEW l, NEW D, Here(L, c, o, l, D), P[c].op \in {"else", "end"}
  PROVE  \E j, q, f, t : Closer(P, N, L, h, A, H, c, o, l, j, D, q, f, t)
<1>1. /\ c \in 1 .. N /\ Program(P, N, L) /\ o \in Nat /\ l \in Nat /\ Placed(P, L, o, c)
      /\ EnvOK(env, h[c], l + 1, D, A, nregs, HEnd(blocks, H, cur))
      /\ \E S : ctl \in Seq(S)
      /\ Len(ctl) = l
      /\ CtlsOK(P, N, L, h, A, H, blocks, nregs, cur, env, o, l, ctl)
      /\ FirstsOK(ctl)
  BY LowerStands
<1>2. c = pc /\ o = c - 1 /\ l = L.lev[o] /\ D = L.dcl[o]
  BY DEF Here
<1>3. Turns(P, L, o, c) \/ Shuts(P, L, o, c)
  BY <1>1 DEF Placed, Opens, Declares, Refers, Openers
<1>4. PICK j, q : Closing(P, N, L, c, o, l, j, D, q)
  BY <1>1, <1>2, <1>3, ClosingIs
<1>5. j \in Nat /\ l = j + 1 /\ q = L.opn[o][l] /\ l \in 1 .. l
  BY <1>4 DEF Closing
<1>6. PICK f, t : f = ctl[l] /\ t = Front(env)
  OBVIOUS
<1>7. f = Last(ctl)
  BY <1>1, <1>6, LastOf
<1>8. CtlOK(P, N, L, h, A, H, blocks, nregs, cur, env, q, L.arm[o][l], D, l, f)
  BY <1>1, <1>2, <1>5, <1>6 DEF CtlsOK
<1>9. f.op = P[q].op
  BY <1>8 DEF CtlOK
<1>10. EnvOK(t, h[c], l, D, A, nregs, HEnd(blocks, H, cur)) /\ Same(env, t, l)
  BY <1>1, <1>6, EnvFront
<1>11. ASSUME NEW last \in Nat, f.op # "do", f.first = last + 1
       PROVE  Below(ctl, j, last)
  <2> SUFFICES ASSUME NEW k \in 1 .. j, ctl[k].op # "do" PROVE ctl[k].first + 2 <= last
    BY DEF Below
  <2>1. k \in 1 .. l - 1 /\ k \in 1 .. l /\ l \in 1 .. Len(ctl)
    BY <1>1, <1>5
  <2>2. ctl[k].first + 2 < ctl[l].first
    BY <2>1, <1>1, <1>6, <1>11 DEF FirstsOK
  <2>3. ctl[k].first \in Nat
    BY <2>1, <1>1, FirstsEnd
  <2> QED BY <2>2, <2>3, <1>6, <1>11
<1> QED BY <1>4, <1>6, <1>7, <1>8, <1>9, <1>10, <1>11 DEF Closer

(* The block that token q began is closed: the bindings t go on in block there.  *)
Shut2(P, N, L, h, c, l, B, K, cs, m, there, t) ==
  /\ there \in 1 .. Len(cs) /\ cs[there].exit = <<>>
  /\ EnvOK(t, h[c + 1], l, L.dcl[c], B, m, HEnd(cs, K, there))

LEMMA LowerShuts ==
  ASSUME NEW P, NEW N, NEW L, NEW h, NEW A, NEW H, LowerOK(P, N, L, h, A, H), pc <= N,
         NEW c, NEW o, NEW l, NEW D, Here(L, c, o, l, D), Advance, UNCHANGED analysis,
         P[c].op = "end", NEW j, NEW q, Closing(P, N, L, c, o, l, j, D, q), ctl' = Front(ctl),
         NEW B, NEW K, NEW cs, cs = blocks', NEW m, m = nregs', nregs <= m, m \in Nat, Extends(A, B, nregs),
         siteReg' = siteReg, NEW last \in Nat, Below(ctl, j, last),
         Finished(blocks, cs, H, K, cur, B, m, Manner(P, doExitFrees), last, siteReg),
         NEW there, there = cur', there = cur \/ there > last,
         NEW t, t = env', Outer(P, N, L, o, j, D, env, t),
         Shut2(P, N, L, h, c, l, B, K, cs, m, there, t),
         depth' = IF ctl[l].op # "do" THEN depth - 1 ELSE depth
  PROVE  LowerOK(P, N, L, h, B, K)'
<1>1. /\ c \in 1 .. N /\ c \in Nat /\ Program(P, N, L) /\ o \in Nat /\ l \in Nat /\ Placed(P, L, o, c)
      /\ \E S : ctl \in Seq(S)
      /\ Len(ctl) = l
      /\ FirstsOK(ctl)
  BY LowerStands
<1>2. c = pc /\ o = c - 1 /\ l = L.lev[o] /\ D = L.dcl[o]
  BY DEF Here
<1>3. j \in Nat /\ l = j + 1
  BY DEF Closing
<1>4. L.lev[c] = j
  <2>1. Shuts(P, L, o, c)
    BY <1>1 DEF Placed, Opens, Turns, Declares, Refers, Openers
  <2> QED BY <2>1, <1>2, <1>3 DEF Shuts
<1>5. PICK fs, gs : fs = ctl /\ gs = ctl'
  OBVIOUS
<1>6. (\E S : gs \in Seq(S)) /\ Len(gs) = j /\ \A k \in 1 .. j : gs[k] = fs[k]
  <2>1. PICK S : fs \in Seq(S)
    BY <1>1, <1>5
  <2>2. gs = Front(fs) /\ Len(fs) = j + 1
    BY <1>1, <1>3, <1>5
  <2>3. gs \in Seq(S) /\ Len(gs) = j /\ \A k \in 1 .. j : gs[k] = fs[k]
    BY <2>1, <2>2, <1>3, FrontOf
  <2> QED BY <2>3
<1>7. Same(ctl, gs, j)
  BY <1>5, <1>6 DEF Same
<1>8. /\ there \in 1 .. Len(cs) /\ cs[there].exit = <<>>
      /\ EnvOK(t, h[c + 1], l, L.dcl[c], B, m, HEnd(cs, K, there))
  BY DEF Shut2
<1>9. CtlsOK(P, N, L, h, B, K, cs, m, there, t, c, j, gs)
  <2>1. there \in Nat
    BY <1>8 DEF Finished
  <2> QED BY <2>1, <1>7, CallsStay
<1>10. FirstsOK(gs)
  <2>1. \A k \in 1 .. j : k \in 1 .. l /\ \A i \in 1 .. k - 1 : i \in 1 .. j
    BY <1>3
  <2>2. \A k \in 1 .. j : \A i \in 1 .. k - 1 : fs[i].op # "do" /\ fs[k].op # "do" => fs[i].first + 2 < fs[k].first
    BY <2>1, <1>1, <1>5 DEF FirstsOK
  <2> QED BY <2>1, <2>2, <1>6 DEF FirstsOK
<1>11. depth' = Deep(gs)
  <2>1. depth = Deep(fs)
    BY <1>5 DEF LowerOK
  <2>2. \A k \in 1 .. j : fs[k] = gs[k]
    BY <1>6
  <2>3. /\ Deep(gs) \in 0 .. j
        /\ Deep(fs) = IF fs[j + 1].op # "do" THEN Deep(gs) + 1 ELSE Deep(gs)
    <3>1. Len(gs) = j /\ Len(fs) = j + 1
      BY <1>1, <1>3, <1>5, <1>6
    <3> QED BY <3>1, <2>2, <1>3, DeepCounts
  <2> QED BY <2>1, <2>3, <1>3, <1>5
<1>12. EnvOK(t, h[c + 1], L.lev[c] + 1, L.dcl[c], B, m, HEnd(cs, K, there))
  BY <1>3, <1>4, <1>8
<1>13. phase = "lower" /\ CodeOK(cs, B, K, m, Manner(P, doExitFrees)) /\ SitesOK(cs, B, m, siteReg)
  BY DEF LowerOK, Finished
<1>14. CtlsOK(P, N, L, h, B, K, cs, m, there, t, c, L.lev[c], gs) /\ Len(gs) = L.lev[c]
  BY <1>4, <1>6, <1>9
<1>15. \E S : gs \in Seq(S)
  BY <1>6
<1>16. PICK sr : sr = siteReg' /\ SitesOK(cs, B, m, sr)
  BY <1>13
<1> QED BY <1>2, <1>5, <1>8, <1>10, <1>11, <1>12, <1>13, <1>14, <1>15, <1>16, LowerMoves

-----------------------------------------------------------------------------
(* The then arm ends. *)

Turned(f, g, rs, i) ==
  IsCtl(g) /\ g.op = f.op /\ g.entry = f.entry /\ g.order = f.order /\ g.first = f.first /\ g.regs = rs /\ g.from = i

Refit(fs, l, rs, i) == [fs EXCEPT ![l].regs = rs, ![l].from = i]

LEMMA FrameTurns ==
  ASSUME NEW S, NEW fs \in Seq(S), NEW l \in Nat, l >= 1, Len(fs) = l, NEW rs, NEW i,
         NEW f, f = fs[l], IsCtl(f), NEW gs, gs = Refit(fs, l, rs, i)
  PROVE  /\ \E T : gs \in Seq(T)
         /\ Len(gs) = l /\ Turned(f, gs[l], rs, i) /\ \A k \in 1 .. l : k # l => gs[k] = fs[k]
<1>1. PICK g : g = [f EXCEPT !.regs = rs, !.from = i]
  OBVIOUS
<1>2. g = [op |-> f.op, entry |-> f.entry, order |-> f.order, regs |-> rs, first |-> f.first, from |-> i]
  BY <1>1 DEF IsCtl
<1>3. Turned(f, g, rs, i)
  BY <1>2 DEF Turned, IsCtl
<1>4. gs = [fs EXCEPT ![l] = g]
  BY <1>1 DEF Refit
<1>5. PICK T : T = S \cup {g}
  OBVIOUS
<1>6. fs \in Seq(T) /\ g \in T /\ l \in 1 .. l /\ Len(fs) = l
  BY <1>5
<1>7. gs \in Seq(T) /\ Len(gs) = l /\ gs[l] = g /\ \A k \in 1 .. l : k # l => gs[k] = fs[k]
  <2>1. fs \in Seq(T) /\ g \in T
    BY <1>6
  <2>2. l \in 1 .. l /\ Len(fs) = l
    BY <1>6
  <2> QED BY ONLY <2>1, <2>2, <1>4, l \in Nat, ChangeOf
<1> QED BY <1>3, <1>7

(* Block here leads on to a blank block, where nothing is known yet. *)
LEMMA EndsBlank ==
  ASSUME NEW bs, NEW A, NEW H, NEW n, NEW G, CodeOK(bs, A, H, n, G), NEW here \in 1 .. Len(bs),
         bs[here].exit = <<>>, NEW i \in 1 .. Len(bs), i # here, Blank(bs[i]), H[i][1] = {},
         NEW last \in Nat, last < i, NEW sr, SitesOK(bs, A, n, sr),
         NEW cs, Ended(bs, cs, here, <<i>>)
  PROVE  Finished(bs, cs, H, H, here, A, n, G, last, sr)
<1>1. /\ BlocksOK(cs) /\ Len(cs) = Len(bs) /\ Len(bs) \in Nat
      /\ \A b \in 1 .. Len(bs) : b # here => cs[b] = bs[b]
      /\ cs[here].exit = <<i>> /\ cs[here].code = bs[here].code /\ cs[here].phis = bs[here].phis
  BY DEF Ended
<1>2. ToSet(cs[here].exit) = {i}
  BY <1>1, ExitSets
<1>3. cs[here].exit # <<>>
  <2>1. Len(<<i>>) = 1 /\ Len(<<>>) = 0
    OBVIOUS
  <2> QED BY <2>1, <1>1
<1>4. n \in Nat /\ A \in [Nat -> SUBSET Nat] /\ H \in [Nat -> [Nat -> SUBSET Nat]]
  BY DEF CodeOK, KnownOK
<1>5. Completes(bs, cs, H, H, here, 0)
  BY <1>1, <1>3 DEF Completes
<1>6. ExitOK(cs, here, A, H)
  <2>1. DOMAIN cs[i].phis = {}
    BY <1>1 DEF Blank
  <2>2. EdgeOK(cs, here, i, A, H)
    BY <2>1 DEF EdgeOK
  <2> QED BY <2>2, <1>1, <1>2 DEF ExitOK
<1>7. 0 \notin 1 .. Len(bs) /\ 0 # here
  BY <1>1
<1>8. \A b \in Len(bs) + 1 .. Len(cs) : FALSE
  BY <1>1
<1>9. Finishing(bs, A, H, n, here, A, n, cs, H, 0)
  <2>1. Extends(A, A, n) /\ n <= n
    BY <1>4 DEF Extends
  <2>2. \A b \in Len(bs) + 1 .. Len(cs) : AddedOK(cs, b, A, H, n)
    BY <1>8
  <2> QED BY <2>1, <2>2, <1>1, <1>4, <1>5, <1>6, <1>7 DEF Finishing
<1>10. Later(bs, cs, H, H, here, 0, last)
  <2>1. \A e \in ToSet(cs[here].exit) : e > last
    BY <1>2
  <2>2. \A b \in Len(bs) + 1 .. Len(cs) : \A e \in ToSet(cs[b].exit) : e > last
    BY <1>8
  <2> QED BY <2>1, <2>2, <1>7 DEF Later
<1> QED BY <1>9, <1>10, FinishIs

(* The frame of the if, its other arm begun. *)
LEMMA TurnedOK ==
  ASSUME NEW P, NEW N, NEW L, NEW h, NEW A, NEW H, NEW bs, NEW n, NEW here \in 1 .. Len(bs), NEW s, NEW t,
         NEW q, NEW D, NEW l \in Nat, NEW f, NEW U, U = HEnd(bs, H, here),
         BranchOK(P, N, L, bs, n, here, s, q, D, l, f), ThenOK(h, A, H, bs, here, q, D, l, f),
         f.op = "if", P[q].op = "if", NEW c, c # q,
         EnvOK(t, h[c], l, D, A, n, U), Same(s, t, l),
         NEW cs, Ended(bs, cs, here, <<f.first + 2>>), NEW e, Same(f.entry, e, l),
         NEW there, there = f.first + 1,
         NEW g, Turned(f, g, Regs(t, f.order), here)
  PROVE  CtlOK(P, N, L, h, A, H, cs, n, there, e, q, c, D, l, g)
<1>1. /\ IsCtl(g) /\ g.op = f.op /\ g.entry = f.entry /\ g.order = f.order /\ g.first = f.first
      /\ g.regs = Regs(t, f.order) /\ g.from = here
  BY DEF Turned
<1>2. /\ Stack(f.entry, l, D, 1 .. n) /\ OrderOK(P, N, L, q, l, D, f.order)
      /\ Agrees(f.entry, s, f.order, D, l)
      /\ f.first \in Nat /\ f.first >= 2 /\ f.first + 2 <= Len(bs)
      /\ Blank(bs[f.first + 2]) /\ here # f.first + 2
  BY DEF BranchOK
<1>3. \A b \in 1 .. Len(bs) : f.first + 2 \notin ToSet(bs[b].exit)
  BY DEF ThenOK
<1>4. /\ Len(cs) = Len(bs) /\ Len(bs) \in Nat
      /\ \A b \in 1 .. Len(bs) : b # here => cs[b] = bs[b]
      /\ cs[here].exit = <<f.first + 2>> /\ cs[here].code = bs[here].code
  BY DEF Ended
<1>5. BranchOK(P, N, L, cs, n, there, e, q, D, l, g)
  <2>1. Agrees(f.entry, e, f.order, D, l)
    BY DEF Agrees, Same
  <2>2. there # f.first + 2 /\ f.first + 2 \in 1 .. Len(bs)
    BY <1>2, <1>4
  <2>3. Blank(cs[f.first + 2])
    BY <2>2, <1>2, <1>4
  <2> QED BY <2>1, <2>2, <2>3, <1>1, <1>2, <1>4 DEF BranchOK
<1>6. HEnd(cs, H, here) = U
  BY <1>4 DEF HEnd
<1>7. Stack(t, l, D, 1 .. n) /\ Named(t, l, D, U) /\ Covered(t, h[c], l, D, A)
  BY DEF EnvOK
<1>8. ElseOK(h, A, H, cs, c, D, l, g)
  <2>1. cs[here].exit # <<>>
    <3>1. Len(<<f.first + 2>>) = 1 /\ Len(<<>>) = 0
      OBVIOUS
    <3> QED BY <3>1, <1>4
  <2>2. \A b \in 1 .. Len(cs) : f.first + 2 \in ToSet(cs[b].exit) => b = here
    BY <1>3, <1>4
  <2>3. ASSUME NEW d \in 1 .. l, NEW x \in D[d], ~ Moved(f.order, D, l, d, x)
        PROVE  f.entry[d][x] \in HEnd(cs, H, here)
    <3>1. s[d][x] = f.entry[d][x]
      BY <2>3, <1>2 DEF Agrees
    <3>2. t[d] = s[d]
      BY DEF Same
    <3>3. t[d][x] \in U
      BY <1>7 DEF Named
    <3> QED BY <3>1, <3>2, <3>3, <1>6
  <2>4. ASSUME NEW d \in 1 .. l, NEW x \in D[d], Moved(f.order, D, l, d, x)
        PROVE  g.regs[x] \in HEnd(cs, H, here) /\ A[g.regs[x]] \subseteq h[c][d][x]
    <3>1. x \in DOMAIN f.order /\ Inmost(D, l, x, d)
      BY <2>4 DEF Moved
    <3>2. ReadVar(t, x) = t[d][x]
      BY <3>1, <1>7, ReadIs
    <3>3. g.regs[x] = t[d][x]
      BY <3>1, <3>2, <1>1 DEF Regs
    <3>4. t[d][x] \in U /\ A[t[d][x]] \subseteq h[c][d][x]
      BY <1>7 DEF Named, Covered
    <3> QED BY <3>3, <3>4, <1>6
  <2>5. g.from \in 1 .. Len(cs)
    BY <1>1, <1>4
  <2> QED BY <2>1, <2>2, <2>3, <2>4, <2>5, <1>1 DEF ElseOK
<1> QED BY <1>1, <1>5, <1>8 DEF CtlOK

LEMMA LowerElseOK ==
  ASSUME NEW P, NEW N, NEW L, NEW h, NEW A, NEW H, LowerOK(P, N, L, h, A, H), LowerElse, UNCHANGED analysis
  PROVE  LowerOK(P, N, L, h, A, H)'
<1>1. PICK c, o, l, D : Here(L, c, o, l, D)
  BY DEF Here
<1>2. pc <= N /\ Token.op = "else"
  <2>1. Len(prog) = N
    BY DEF LowerOK, WalkedTo, Program
  <2> QED BY <2>1 DEF LowerElse, At
<1>3. /\ Token = P[c] /\ l \in Nat /\ c \in 1 .. N /\ prog = P /\ Program(P, N, L) /\ L \in Layouts /\ c \in Nat
      /\ Placed(P, L, o, c) /\ o \in Nat
      /\ Flow(P, L, h, doExitFrees, o, c)
      /\ CodeOK(blocks, A, H, nregs, Manner(P, doExitFrees)) /\ nregs \in Nat /\ Len(blocks) \in Nat
      /\ cur \in 1 .. Len(blocks) /\ cur \in Nat /\ blocks[cur].exit = <<>>
      /\ SitesOK(blocks, A, nregs, siteReg)
      /\ \E S : ctl \in Seq(S)
      /\ Len(ctl) = l
      /\ FirstsOK(ctl)
  BY <1>1, <1>2, LowerStands
<1>4. c = pc /\ o = c - 1 /\ l = L.lev[o] /\ D = L.dcl[o]
  BY <1>1 DEF Here
<1>5. PICK j, q, f, s : Closer(P, N, L, h, A, H, c, o, l, j, D, q, f, s)
  <2>1. P[c].op \in {"else", "end"}
    BY <1>2, <1>3
  <2> QED BY <2>1, <1>1, <1>2, CloserIs
<1>6. /\ Closing(P, N, L, c, o, l, j, D, q)
      /\ f = Last(ctl) /\ f = ctl[l] /\ f.op = P[q].op
      /\ CtlOK(P, N, L, h, A, H, blocks, nregs, cur, env, q, L.arm[o][l], D, l, f)
      /\ s = Front(env) /\ EnvOK(s, h[c], l, D, A, nregs, HEnd(blocks, H, cur)) /\ Same(env, s, l)
  BY <1>5 DEF Closer
<1>7. j \in Nat /\ l = j + 1 /\ q = L.opn[o][l] /\ Same(D, L.dcl[c], l) /\ l >= 1
  BY <1>6 DEF Closing
<1>8. Turns(P, L, o, c)
  BY <1>2, <1>3 DEF Placed, Opens, Shuts, Declares, Refers, Openers
<1>9. /\ P[q].op = "if" /\ L.arm[o][l] = q
      /\ L.lev[c] = l /\ L.opn[c] = L.opn[o]
      /\ L.arm[c] = [L.arm[o] EXCEPT ![l] = c]
      /\ L.dcl[c] = [L.dcl[o] EXCEPT ![l + 1] = {}]
  BY <1>4, <1>7, <1>8 DEF Turns, InnerOp
<1>10. L.arm[c][l] = c /\ L.dcl[c][l + 1] = {}
  <2>1. L.arm[o] \in [Nat -> Nat] /\ L.dcl[o] \in [Nat -> SUBSET Names]
    BY <1>3, LayoutTypes
  <2>2. l \in DOMAIN L.arm[o] /\ l + 1 \in DOMAIN L.dcl[o]
    <3>1. DOMAIN L.arm[o] = Nat /\ DOMAIN L.dcl[o] = Nat
      BY <2>1
    <3> QED BY <3>1, <1>3
  <2>3. L.arm[c][l] = c
    BY <2>2, <1>9
  <2>4. L.dcl[c][l + 1] = {}
    BY <2>2, <1>9
  <2> QED BY <2>3, <2>4
<1>11. c # q
  <2>1. Holding(P, N, L, o, l, q)
    <3>1. l \in 1 .. L.lev[o]
      BY <1>3, <1>4, <1>7
    <3> QED BY <3>1, <1>3, <1>4, <1>7, OpenedAt
  <2> QED BY <2>1, <1>3, <1>4 DEF Holding
<1>12. PICK bs, here, n, U, G, cs, e, there, i, last, sr, fs, gs :
          /\ bs = blocks /\ here = cur /\ n = nregs /\ U = HEnd(bs, H, here) /\ G = Manner(P, doExitFrees)
          /\ cs = blocks' /\ e = env' /\ there = f.first + 1 /\ i = f.first + 2 /\ last = f.first - 1
          /\ sr = siteReg /\ fs = ctl /\ gs = ctl'
  OBVIOUS
<1>13. /\ BranchOK(P, N, L, bs, n, here, env, q, D, l, f) /\ ThenOK(h, A, H, bs, here, q, D, l, f)
       /\ f.op = "if" /\ IsCtl(f)
  BY <1>6, <1>9, <1>12 DEF CtlOK
<1>14. /\ Stack(f.entry, l, D, 1 .. n) /\ OrderOK(P, N, L, q, l, D, f.order)
       /\ Agrees(f.entry, env, f.order, D, l)
       /\ f.first \in Nat /\ f.first >= 2 /\ i <= Len(bs)
       /\ Blank(bs[i]) /\ here # i
  BY <1>12, <1>13 DEF BranchOK
<1>15. /\ Blank(bs[there]) /\ here # there /\ H[i][1] = {}
       /\ Named(f.entry, l, D, H[there][1]) /\ Covered(f.entry, h[q], l, D, A)
  BY <1>12, <1>13 DEF ThenOK
<1>16. /\ i \in 1 .. Len(bs) /\ there \in 1 .. Len(bs) /\ last \in Nat /\ last < i /\ f.first = last + 1
       /\ there > last /\ there \in Nat
  <2>1. PICK z : z = f.first
    OBVIOUS
  <2>2. z \in Nat /\ z >= 2 /\ i <= Len(bs) /\ Len(bs) \in Nat
    BY <2>1, <1>3, <1>12, <1>14
  <2>3. i = z + 2 /\ there = z + 1 /\ last = z - 1
    BY <2>1, <1>12
  <2> QED BY <2>1, <2>2, <2>3
<1>17. /\ CodeOK(bs, A, H, n, G) /\ here \in 1 .. Len(bs) /\ bs[here].exit = <<>> /\ SitesOK(bs, A, n, sr)
       /\ n \in Nat
  BY <1>3, <1>12
<1>18. cs = [bs EXCEPT ![here].exit = <<i>>]
  BY <1>6, <1>12 DEF LowerElse, Ending
<1>19. Ended(bs, cs, here, <<i>>)
  <2>1. BlocksOK(bs)
    BY <1>17 DEF CodeOK
  <2>2. <<i>> \in Seq(Nat)
    BY <1>16
  <2> QED BY <2>1, <2>2, <1>17, <1>18, EndedIs
<1>20. Finished(bs, cs, H, H, here, A, n, G, last, sr)
  BY <1>14, <1>15, <1>16, <1>17, <1>19, EndsBlank
<1>21. e = Opened(f.entry)
  BY <1>6, <1>12 DEF LowerElse
<1>22. /\ EnvOK(e, h[c + 1], l + 1, L.dcl[c], A, n, H[there][1]) /\ Same(f.entry, e, l)
  <2>1. EnvOK(f.entry, h[q], l, D, A, n, H[there][1])
    BY <1>14, <1>15 DEF EnvOK
  <2>2. Under(h[q], h[c + 1], l, D)
    <3>1. FlowBlock(P, L, h, doExitFrees, o, c)
      BY <1>3 DEF Flow
    <3>2. P[c].op = "else"
      BY <1>2, <1>3
    <3> QED BY <3>1, <3>2, <1>4, <1>7 DEF FlowBlock
  <2>3. PICK a, b, X, Y, p, r : a = h[q] /\ b = h[c + 1] /\ X = D /\ Y = L.dcl[c] /\ p = f.entry /\ r = H[there][1]
    OBVIOUS
  <2>4. EnvOK(p, a, l, X, A, n, r) /\ Under(a, b, l, X) /\ e = Opened(p)
    BY ONLY <2>1, <2>2, <2>3, <1>21
  <2>5. Same(X, Y, l) /\ Y[l + 1] = {} /\ l \in Nat
    BY <2>3, <1>3, <1>7, <1>10
  <2>6. EnvOK(e, b, l + 1, Y, A, n, r) /\ Same(p, e, l)
    BY ONLY <2>4, <2>5, EnvOpens
  <2> QED BY ONLY <2>3, <2>6
<1>23. /\ \E S : gs \in Seq(S)
       /\ Len(gs) = l /\ Turned(f, gs[l], Regs(s, f.order), here) /\ \A k \in 1 .. l : k # l => gs[k] = fs[k]
  <2>1. PICK S : fs \in Seq(S)
    BY <1>3, <1>12
  <2>2. gs = [fs EXCEPT ![l].regs = Regs(s, f.order), ![l].from = here]
    BY <1>3, <1>6, <1>12 DEF LowerElse
  <2>3. Len(fs) = l /\ f = fs[l]
    BY <1>3, <1>6, <1>12
  <2>4. PICK rs : rs = Regs(s, f.order)
    OBVIOUS
  <2>5. gs = Refit(fs, l, rs, here)
    BY <2>2, <2>4 DEF Refit
  <2>6. /\ \E S1 : gs \in Seq(S1)
        /\ Len(gs) = l /\ Turned(f, gs[l], rs, here) /\ \A k \in 1 .. l : k # l => gs[k] = fs[k]
    <3>1. l \in Nat /\ l >= 1 /\ IsCtl(f)
      BY <1>3, <1>7, <1>13
    <3> QED BY ONLY <3>1, <2>1, <2>3, <2>5, FrameTurns
  <2> QED BY <2>4, <2>6
<1>24. CtlOK(P, N, L, h, A, H, cs, n, there, e, q, c, D, l, gs[l])
  <2>1. Ended(bs, cs, here, <<f.first + 2>>)
    BY <1>12, <1>19
  <2>2. EnvOK(s, h[c], l, D, A, n, U)
    BY <1>6, <1>12
  <2>3. there = f.first + 1 /\ U = HEnd(bs, H, here)
    BY <1>12
  <2>4. Same(env, s, l) /\ Same(f.entry, e, l) /\ Turned(f, gs[l], Regs(s, f.order), here)
    BY <1>6, <1>22, <1>23
  <2> QED BY <2>1, <2>2, <2>3, <2>4, <1>3, <1>9, <1>11, <1>13, <1>17, TurnedOK
<1>25. CtlOK(P, N, L, h, A, H, cs, n, there, e, q, c, L.dcl[c], l, gs[l])
  BY <1>3, <1>7, <1>24, CtlSame
<1>26. Agrees(env, e, f.order, D, l)
  BY <1>14, <1>22 DEF Agrees, Same
<1>27. Outer(P, N, L, o, j, D, env, e)
  BY <1>3, <1>6, <1>14, <1>26, ClosedRewrites
<1>28. CtlsOK(P, N, L, h, A, H, cs, n, there, e, c, j, gs)
  <2>1. Same(ctl, gs, j)
    <3>1. \A k \in 1 .. j : k \in 1 .. l /\ k # l
      BY <1>7
    <3> QED BY <3>1, <1>12, <1>23 DEF Same
  <2>2. Below(ctl, j, last)
    BY <1>5, <1>13, <1>16 DEF Closer
  <2>3. Finished(blocks, cs, H, H, cur, A, n, Manner(P, doExitFrees), last, sr)
    BY <1>12, <1>20
  <2>4. nregs <= n /\ Extends(A, A, nregs) /\ n \in Nat
    BY <1>12, <1>17 DEF Extends
  <2> QED BY <2>1, <2>2, <2>3, <2>4, <1>1, <1>2, <1>6, <1>16, <1>27, CallsStay
<1>29. CtlsOK(P, N, L, h, A, H, cs, n, there, e, c, L.lev[c], gs)
  <2> SUFFICES ASSUME NEW k \in 1 .. l
               PROVE  CtlOK(P, N, L, h, A, H, cs, n, there, e, L.opn[c][k], L.arm[c][k], L.dcl[c], k, gs[k])
    BY <1>9 DEF CtlsOK
  <2>1. CASE k = l
    BY <2>1, <1>7, <1>9, <1>10, <1>25
  <2>2. CASE k # l
    <3>1. k \in 1 .. j
      BY <2>2, <1>7
    <3> QED BY <3>1, <1>28 DEF CtlsOK
  <2> QED BY <2>1, <2>2
<1>30. \A k \in 1 .. l : gs[k].op = fs[k].op /\ gs[k].first = fs[k].first
  <2> SUFFICES ASSUME NEW k \in 1 .. l PROVE gs[k].op = fs[k].op /\ gs[k].first = fs[k].first
    OBVIOUS
  <2>1. CASE k = l
    BY <2>1, <1>6, <1>12, <1>23 DEF Turned
  <2>2. CASE k # l
    BY <2>2, <1>23
  <2> QED BY <2>1, <2>2
<1>31. FirstsOK(gs)
  <2>1. \A k \in 1 .. l : \A u \in 1 .. k - 1 : u \in 1 .. l
    BY <1>3
  <2>2. Len(fs) = l /\ Len(gs) = l
    BY <1>3, <1>12, <1>23
  <2>3. \A k \in 1 .. l : \A u \in 1 .. k - 1 : fs[u].op # "do" /\ fs[k].op # "do" => fs[u].first + 2 < fs[k].first
    BY <2>2, <1>3, <1>12 DEF FirstsOK
  <2> QED BY <2>1, <2>2, <2>3, <1>30 DEF FirstsOK
<1>32. depth' = Deep(gs)
  <2>1. Len(fs) = l /\ Len(gs) = l /\ depth' = depth /\ depth = Deep(fs)
    BY <1>3, <1>12, <1>23 DEF LowerElse, LowerOK
  <2>2. {k \in 1 .. Len(fs) : fs[k].op # "do"} = {k \in 1 .. Len(gs) : gs[k].op # "do"}
    BY <2>1, <1>30
  <2> QED BY <2>1, <2>2 DEF Deep
<1>33. /\ there = cur' /\ n = nregs' /\ sr = siteReg' /\ Advance /\ phase = "lower"
  BY <1>6, <1>12 DEF LowerElse, LowerOK
<1>34. there \in 1 .. Len(cs) /\ cs[there].exit = <<>> /\ HEnd(cs, H, there) = H[there][1]
  <2>1. cs[there] = bs[there] /\ Len(cs) = Len(bs)
    BY <1>15, <1>16, <1>19 DEF Ended
  <2>2. bs[there].code = <<>> /\ bs[there].exit = <<>>
    BY <1>15 DEF Blank
  <2>3. Len(cs[there].code) + 1 = 1
    BY <2>1, <2>2
  <2> QED BY <2>1, <2>2, <2>3, <1>16 DEF HEnd
<1>35. EnvOK(e, h[c + 1], L.lev[c] + 1, L.dcl[c], A, n, HEnd(cs, H, there))
  BY <1>9, <1>22, <1>34
<1>36. CodeOK(cs, A, H, n, Manner(P, doExitFrees)) /\ SitesOK(cs, A, n, sr)
  BY <1>12, <1>20 DEF Finished
<1>37. (\E S : gs \in Seq(S)) /\ Len(gs) = L.lev[c]
  BY <1>9, <1>23
<1>38. cs = blocks' /\ e = env' /\ gs = ctl'
  BY <1>12
<1> QED BY <1>2, <1>4, <1>29, <1>31, <1>32, <1>33, <1>34, <1>35, <1>36, <1>37, <1>38, LowerMoves

-----------------------------------------------------------------------------
(* A block is joined to another, which gets phis. *)

Rejoined(bs, cs, here, to, i, phis) ==
  /\ BlocksOK(cs) /\ Len(cs) = Len(bs) /\ Len(bs) \in Nat
  /\ \A b \in 1 .. Len(bs) : b # here /\ b # i => cs[b] = bs[b]
  /\ cs[here].exit = to /\ cs[here].code = bs[here].code /\ cs[here].phis = bs[here].phis
  /\ cs[i].phis = phis /\ cs[i].code = bs[i].code /\ cs[i].exit = bs[i].exit

LEMMA RejoinedIs ==
  ASSUME NEW bs, BlocksOK(bs), NEW here \in 1 .. Len(bs), NEW to \in Seq(Nat),
         NEW i \in 1 .. Len(bs), i # here, NEW phis,
         NEW ds, ds = [bs EXCEPT ![here].exit = to], NEW cs, cs = Joining(ds, i, phis)
  PROVE  Rejoined(bs, cs, here, to, i, phis)
<1>1. Ended(bs, ds, here, to)
  BY EndedIs
<1>2. BlocksOK(ds) /\ Len(ds) = Len(bs) /\ Len(bs) \in Nat
  BY <1>1 DEF Ended
<1>3. i \in 1 .. Len(ds)
  BY <1>2
<1>4. Joined(ds, cs, i, phis)
  BY <1>2, <1>3, JoinedIs
<1>5. /\ \A b \in 1 .. Len(bs) : b # here => ds[b] = bs[b]
      /\ ds[here].exit = to /\ ds[here].code = bs[here].code /\ ds[here].phis = bs[here].phis
  BY <1>1 DEF Ended
<1>6. /\ BlocksOK(cs) /\ Len(cs) = Len(ds)
      /\ \A b \in 1 .. Len(ds) : b # i => cs[b] = ds[b]
      /\ cs[i].phis = phis /\ cs[i].code = ds[i].code /\ cs[i].exit = ds[i].exit
  BY <1>4 DEF Joined
<1>7. cs[here] = ds[here] /\ ds[i] = bs[i]
  BY <1>2, <1>5, <1>6
<1>8. \A b \in 1 .. Len(bs) : b # here /\ b # i => cs[b] = bs[b]
  BY <1>2, <1>5, <1>6
<1> QED BY <1>2, <1>5, <1>6, <1>7, <1>8 DEF Rejoined


(* The phis of the join of an if. *)
JoinPhis(order, n, from, fr, here, rs) ==
  [x \in DOMAIN order |-> [reg |-> n + order[x], args |-> <<<<from, fr[x]>>, <<here, rs[x]>>>>]]

(* A register of every name with a phi. *)
Feeds(order, D, l, rs, U, A, b) ==
  \A d \in 1 .. l : \A x \in D[d] :
    Moved(order, D, l, d, x) => rs[x] \in U /\ A[rs[x]] \subseteq b[d][x]

LEMMA FeedsIs ==
  ASSUME NEW s, NEW a, NEW l \in Nat, NEW D, NEW A, NEW n, NEW U, EnvOK(s, a, l, D, A, n, U), NEW order,
         NEW b, Under(a, b, l, D)
  PROVE  Feeds(order, D, l, Regs(s, order), U, A, b)
<1> SUFFICES ASSUME NEW d \in 1 .. l, NEW x \in D[d], Moved(order, D, l, d, x)
             PROVE  Regs(s, order)[x] \in U /\ A[Regs(s, order)[x]] \subseteq b[d][x]
  BY DEF Feeds
<1>1. x \in DOMAIN order /\ Inmost(D, l, x, d)
  BY DEF Moved
<1>2. Stack(s, l, D, 1 .. n) /\ Named(s, l, D, U) /\ Covered(s, a, l, D, A)
  BY DEF EnvOK
<1>3. Regs(s, order)[x] = s[d][x]
  <2>1. ReadVar(s, x) = s[d][x]
    BY <1>1, <1>2, ReadIs
  <2> QED BY <2>1, <1>1 DEF Regs
<1>4. s[d][x] \in U /\ A[s[d][x]] \subseteq a[d][x]
  BY <1>2 DEF Named, Covered
<1>5. a[d][x] \subseteq b[d][x]
  BY DEF Under
<1> QED BY <1>3, <1>4, <1>5

JoinsOK(cs, i, B, m, order, n, from, X, here, U) ==
  /\ DOMAIN cs[i].phis = DOMAIN order /\ PhisOK(cs, i, m)
  /\ \A x \in DOMAIN order : cs[i].phis[x].reg = n + order[x]
  /\ \A x \in DOMAIN order : TakesOK(cs[i].phis[x], from, X, B)
  /\ \A x \in DOMAIN order : TakesOK(cs[i].phis[x], here, U, B)

LEMMA JoinPhisOK ==
  ASSUME NEW P, NEW N, NEW L, NEW q, NEW l \in Nat, NEW D, NEW order, OrderOK(P, N, L, q, l, D, order),
         NEW n \in Nat, NEW m, PhiSet(order, n) \subseteq 1 .. m, NEW A, NEW B, Extends(A, B, n),
         NEW b, PhisHold(B, n, order, D, l, b),
         NEW fr, NEW X, X \subseteq 1 .. n, Feeds(order, D, l, fr, X, A, b),
         NEW rs, NEW U, U \subseteq 1 .. n, Feeds(order, D, l, rs, U, A, b),
         NEW cs, NEW from \in 1 .. Len(cs), from \in Nat, cs[from].exit # <<>>,
         NEW here \in 1 .. Len(cs), here \in Nat, cs[here].exit # <<>>, from # here,
         NEW i, cs[i].phis = JoinPhis(order, n, from, fr, here, rs)
  PROVE  JoinsOK(cs, i, B, m, order, n, from, X, here, U)
<1>1. /\ DOMAIN cs[i].phis = DOMAIN order
      /\ \A x \in DOMAIN order : /\ cs[i].phis[x].reg = n + order[x]
                                 /\ cs[i].phis[x].args = <<<<from, fr[x]>>, <<here, rs[x]>>>>
  BY DEF JoinPhis
<1>2. ASSUME NEW x \in DOMAIN order
      PROVE  /\ PhiOK(cs, cs[i].phis[x], m)
             /\ TakesOK(cs[i].phis[x], from, X, B) /\ TakesOK(cs[i].phis[x], here, U, B)
  <2>1. PICK d \in 1 .. l : x \in D[d] /\ Inmost(D, l, x, d) /\ Moved(order, D, l, d, x)
    BY <1>2, PhiNames
  <2>2. PICK phi, u, v : phi = cs[i].phis[x] /\ u = fr[x] /\ v = rs[x]
    OBVIOUS
  <2>3. u \in X /\ A[u] \subseteq b[d][x] /\ v \in U /\ A[v] \subseteq b[d][x]
    BY <2>1, <2>2 DEF Feeds
  <2>4. u \in 1 .. n /\ v \in 1 .. n
    BY <2>3
  <2>5. u \in Nat /\ v \in Nat
    BY <2>4
  <2>6. phi.args = <<<<from, u>>, <<here, v>>>> /\ phi.reg = n + order[x]
    BY <2>2, <1>1
  <2>7. phi.args \in Seq(Nat \X Nat) /\ ToSet(phi.args) = {<<from, u>>, <<here, v>>}
    <3>1. PICK args : args = phi.args
      OBVIOUS
    <3>2. from \in Nat /\ here \in Nat /\ u \in Nat /\ v \in Nat /\ args = <<<<from, u>>, <<here, v>>>>
      BY <3>1, <2>5, <2>6
    <3>3. args \in Seq(Nat \X Nat) /\ ToSet(args) = {<<from, u>>, <<here, v>>}
      BY ONLY <3>2, ArgsTwo
    <3> QED BY <3>1, <3>3
  <2>8. PICK w, y : w = <<from, u>> /\ y = <<here, v>>
    OBVIOUS
  <2>9. w[1] = from /\ w[2] = u /\ y[1] = here /\ y[2] = v /\ ToSet(phi.args) = {w, y}
    BY <2>7, <2>8
  <2>10. phi.reg \in 1 .. m
    BY <2>6 DEF PhiSet
  <2>11. B[phi.reg] = b[d][x] /\ B[u] = A[u] /\ B[v] = A[v]
    BY <2>1, <2>4, <2>6 DEF PhisHold, Extends
  <2>12. PhiOK(cs, phi, m)
    BY <2>7, <2>9, <2>10 DEF PhiOK
  <2>13. TakesOK(phi, from, X, B)
    BY <2>3, <2>9, <2>11 DEF TakesOK
  <2>14. TakesOK(phi, here, U, B)
    BY <2>3, <2>9, <2>11 DEF TakesOK
  <2> QED BY <2>2, <2>12, <2>13, <2>14
<1>3. PhisOK(cs, i, m)
  BY <1>1, <1>2 DEF PhisOK
<1> QED BY <1>1, <1>2, <1>3 DEF JoinsOK

(* What is known where block i starts is V. *)
KnownAt(H, K, i, V) ==
  /\ K \in [Nat -> [Nat -> SUBSET Nat]] /\ K[i][1] = V /\ \A b \in Nat : b # i => K[b] = H[b]

LEMMA KnownAtIs ==
  ASSUME NEW H \in [Nat -> [Nat -> SUBSET Nat]], NEW i \in Nat, NEW V \in SUBSET Nat
  PROVE  \E K : KnownAt(H, K, i, V)
<1>1. PICK F : F = [k \in Nat |-> V]
  OBVIOUS
<1>2. PICK K : K = [H EXCEPT ![i] = F]
  OBVIOUS
<1>3. F \in [Nat -> SUBSET Nat] /\ F[1] = V
  BY <1>1
<1>4. K[i] = F /\ \A b \in Nat : b # i => K[b] = H[b]
  BY <1>2
<1>5. K \in [Nat -> [Nat -> SUBSET Nat]]
  BY <1>2, <1>3
<1> QED BY <1>3, <1>4, <1>5 DEF KnownAt

(* The join of an if: the bindings t that reach it from the else arm, with the    *)
(* aliases a; b holds those of both arms.                                    *)
JoinedTo(bs, cs, A, H, n, here, B, K, m, G, last, sr, order, D, l, b, i, V) ==
  /\ Finished(bs, cs, H, K, here, B, m, G, last, sr)
  /\ B \in [Nat -> SUBSET Nat] /\ Extends(A, B, n) /\ PhisHold(B, n, order, D, l, b)
  /\ i \in 1 .. Len(cs) /\ cs[i].exit = <<>> /\ HEnd(cs, K, i) = V

JoinsTo(bs, cs, A, H, n, here, m, G, last, sr, order, D, l, b, i, V) ==
  \E B, K : JoinedTo(bs, cs, A, H, n, here, B, K, m, G, last, sr, order, D, l, b, i, V)
PhisEnd(order, n) == n + Cardinality(DOMAIN order)
IsJoin(f, i, last) == last \in Nat /\ f.first = last + 1 /\ i = f.first + 2

LEMMA IfJoins ==
  ASSUME NEW P, NEW N, NEW L, NEW h, NEW bs, NEW A, NEW H, NEW n \in Nat, NEW G, CodeOK(bs, A, H, n, G),
         NEW here \in 1 .. Len(bs), bs[here].exit = <<>>, Len(bs) \in Nat,
         NEW q, NEW D, NEW l \in Nat, NEW s, NEW t, NEW arm, NEW f, NEW U, U = HEnd(bs, H, here),
         BranchOK(P, N, L, bs, n, here, s, q, D, l, f), ElseOK(h, A, H, bs, arm, D, l, f),
         NEW a, EnvOK(t, a, l, D, A, n, U), Same(s, t, l),
         NEW b, Valued(b, l, D), Under(a, b, l, D), Under(h[arm], b, l, D),
         NEW order, order = f.order, NEW m, m = PhisEnd(order, n),
         NEW i, NEW last, IsJoin(f, i, last), NEW sr, SitesOK(bs, A, n, sr),
         NEW cs, Rejoined(bs, cs, here, <<i>>, i, JoinPhis(order, n, f.from, f.regs, here, Regs(t, order))),
         NEW V, V = PhiSet(order, n) \cup KeptRegs(t, l, D, order)
  PROVE  JoinsTo(bs, cs, A, H, n, here, m, G, last, sr, order, D, l, b, i, V)
<1>1. /\ Stack(f.entry, l, D, 1 .. n) /\ OrderOK(P, N, L, q, l, D, order)
      /\ Agrees(f.entry, s, order, D, l)
      /\ f.first \in Nat /\ f.first >= 2 /\ i <= Len(bs)
      /\ bs[i].code = <<>> /\ bs[i].exit = <<>> /\ here # i
  BY DEF BranchOK, Blank, IsJoin
<1>2. i \in 1 .. Len(bs) /\ i \in Nat /\ i # 1 /\ i > last
  BY <1>1 DEF IsJoin
<1>3. PICK from, fr, rs, X : /\ from = f.from /\ fr = f.regs /\ rs = Regs(t, order) /\ X = HEnd(bs, H, from)
  OBVIOUS
<1>4. /\ from \in 1 .. Len(bs) /\ bs[from].exit # <<>>
      /\ \A k \in 1 .. Len(bs) : i \in ToSet(bs[k].exit) => k = from
      /\ \A d \in 1 .. l : \A x \in D[d] : ~ Moved(order, D, l, d, x) => f.entry[d][x] \in X
      /\ \A d \in 1 .. l : \A x \in D[d] :
            Moved(order, D, l, d, x) => fr[x] \in X /\ A[fr[x]] \subseteq h[arm][d][x]
  BY <1>3 DEF ElseOK, IsJoin
<1>5. from # here /\ from # i /\ from \in Nat
  BY <1>1, <1>4
<1>6. /\ BlocksOK(cs) /\ Len(cs) = Len(bs)
      /\ \A k \in 1 .. Len(bs) : k # here /\ k # i => cs[k] = bs[k]
      /\ cs[here].exit = <<i>> /\ cs[here].code = bs[here].code /\ cs[here].phis = bs[here].phis
      /\ cs[i].phis = JoinPhis(order, n, from, fr, here, rs)
      /\ cs[i].code = bs[i].code /\ cs[i].exit = bs[i].exit
  BY <1>3 DEF Rejoined
<1>7. cs[from] = bs[from]
  BY <1>4, <1>5, <1>6
<1>8. cs[here].exit # <<>>
  <2>1. Len(<<i>>) = 1 /\ Len(<<>>) = 0
    OBVIOUS
  <2> QED BY <2>1, <1>6
<1>9. A \in [Nat -> SUBSET Nat] /\ H \in [Nat -> [Nat -> SUBSET Nat]] /\ U \subseteq 1 .. n /\ X \subseteq 1 .. n
  <2>1. U \subseteq 1 .. n
    BY EndKnown
  <2>2. X \subseteq 1 .. n
    BY <1>3, <1>4, EndKnown
  <2> QED BY <2>1, <2>2 DEF CodeOK, KnownOK
<1>10. m \in Nat /\ n <= m /\ PhiSet(order, n) \subseteq 1 .. m
  BY <1>1, PhiPlaces DEF PhisEnd
<1>11. PICK B : B \in [Nat -> SUBSET Nat] /\ Extends(A, B, n) /\ PhisHold(B, n, order, D, l, b)
  BY <1>1, <1>9, NewAliases
<1>12. Feeds(order, D, l, fr, X, A, b)
  <2> SUFFICES ASSUME NEW d \in 1 .. l, NEW x \in D[d], Moved(order, D, l, d, x)
               PROVE  fr[x] \in X /\ A[fr[x]] \subseteq b[d][x]
    BY DEF Feeds
  <2>1. fr[x] \in X /\ A[fr[x]] \subseteq h[arm][d][x]
    BY <1>4
  <2>2. h[arm][d][x] \subseteq b[d][x]
    BY DEF Under
  <2> QED BY <2>1, <2>2
<1>13. Feeds(order, D, l, rs, U, A, b)
  BY <1>3, FeedsIs
<1>14. JoinsOK(cs, i, B, m, order, n, from, X, here, U)
  <2>1. from \in 1 .. Len(cs) /\ cs[from].exit # <<>> /\ here \in 1 .. Len(cs) /\ here \in Nat
    BY <1>4, <1>6, <1>7
  <2>2. l \in Nat /\ OrderOK(P, N, L, q, l, D, order) /\ n \in Nat /\ PhiSet(order, n) \subseteq 1 .. m
    BY <1>1, <1>10
  <2>3. Extends(A, B, n) /\ PhisHold(B, n, order, D, l, b)
    BY <1>11
  <2>4. X \subseteq 1 .. n /\ Feeds(order, D, l, fr, X, A, b)
    BY <1>9, <1>12
  <2>5. U \subseteq 1 .. n /\ Feeds(order, D, l, rs, U, A, b)
    BY <1>9, <1>13
  <2>6. from \in Nat /\ cs[here].exit # <<>> /\ from # here
        /\ cs[i].phis = JoinPhis(order, n, from, fr, here, rs)
    BY <1>5, <1>6, <1>8
  <2> QED BY ONLY <2>1, <2>2, <2>3, <2>4, <2>5, <2>6, JoinPhisOK
<1>15. PhiRegs(cs, i) = PhiSet(order, n)
  BY <1>14, PhiRegsAre DEF JoinsOK
<1>16. KeptRegs(t, l, D, order) \subseteq U
  BY DEF KeptRegs, EnvOK, Named
<1>17. KeptRegs(t, l, D, order) \subseteq X
  <2> SUFFICES ASSUME NEW r \in KeptRegs(t, l, D, order) PROVE r \in X
    OBVIOUS
  <2>1. PICK d \in 1 .. l : \E x \in D[d] : ~ Moved(order, D, l, d, x) /\ r = t[d][x]
    BY DEF KeptRegs
  <2>2. PICK x \in D[d] : ~ Moved(order, D, l, d, x) /\ r = t[d][x]
    BY <2>1
  <2>3. t[d] = s[d]
    BY DEF Same
  <2>4. s[d][x] = f.entry[d][x]
    BY <2>2, <1>1 DEF Agrees
  <2> QED BY <2>2, <2>3, <2>4, <1>4
<1>18. V \subseteq 1 .. m /\ V \in SUBSET Nat
  <2>1. U \subseteq 1 .. m
    BY <1>9, <1>10
  <2>2. V \subseteq 1 .. m
    BY <2>1, <1>10, <1>16
  <2> QED BY <2>2
<1>19. PICK K : KnownAt(H, K, i, V)
  BY <1>2, <1>9, <1>18, KnownAtIs
<1>20. K \in [Nat -> [Nat -> SUBSET Nat]] /\ K[i][1] = V /\ \A k \in Nat : k # i => K[k] = H[k]
  BY <1>19 DEF KnownAt
<1>21. HEnd(cs, K, here) = U /\ HEnd(cs, K, from) = X
  <2>1. here \in Nat
    OBVIOUS
  <2>2. K[here] = H[here] /\ K[from] = H[from]
    BY <2>1, <1>1, <1>5, <1>20
  <2> QED BY <2>2, <1>3, <1>6, <1>7 DEF HEnd
<1>22. EdgeOK(cs, from, i, B, K)
  <2>1. K[i][1] \subseteq X \cup PhiRegs(cs, i)
    BY <1>15, <1>17, <1>20
  <2>2. \A x \in DOMAIN cs[i].phis : TakesOK(cs[i].phis[x], from, X, B)
    BY <1>14 DEF JoinsOK
  <2> QED BY <2>1, <2>2, <1>21 DEF EdgeOK
<1>23. EdgeOK(cs, here, i, B, K)
  <2>1. K[i][1] \subseteq U \cup PhiRegs(cs, i)
    BY <1>15, <1>16, <1>20
  <2>2. \A x \in DOMAIN cs[i].phis : TakesOK(cs[i].phis[x], here, U, B)
    BY <1>14 DEF JoinsOK
  <2> QED BY <2>1, <2>2, <1>21 DEF EdgeOK
<1>24. ToSet(cs[here].exit) = {i}
  BY <1>6, ExitSets
<1>25. ExitOK(cs, here, B, K)
  BY <1>2, <1>6, <1>23, <1>24 DEF ExitOK
<1>26. JoinOK(bs, cs, B, H, K, m, i)
  <2>1. K[i][1] \subseteq 1 .. m /\ PhisOK(cs, i, m)
    BY <1>14, <1>18, <1>20 DEF JoinsOK
  <2>2. \A k \in 1 .. Len(bs) : i \in ToSet(bs[k].exit) => EdgeOK(cs, k, i, B, K)
    BY <1>4, <1>22
  <2> QED BY <2>1, <2>2, <1>1, <1>2 DEF JoinOK
<1>27. Completes(bs, cs, H, K, here, i)
  <2>1. \A k \in 1 .. Len(bs) : k \in Nat /\ cs[k].code = bs[k].code
    BY <1>6
  <2>2. \A k \in 1 .. Len(bs) : k # here => cs[k].exit = bs[k].exit
    BY <1>6
  <2>3. \A k \in 1 .. Len(bs) : k # i => cs[k].phis = bs[k].phis /\ K[k] = H[k]
    BY <2>1, <1>6, <1>20
  <2>4. Len(bs) <= Len(cs)
    BY <1>6
  <2> QED BY <2>1, <2>2, <2>3, <2>4, <1>8 DEF Completes
<1>28. \A k \in Len(bs) + 1 .. Len(cs) : FALSE
  BY <1>6
<1>29. Finishing(bs, A, H, n, here, B, m, cs, K, i)
  <2>1. \A k \in Len(bs) + 1 .. Len(cs) : AddedOK(cs, k, B, K, m)
    BY <1>28
  <2> QED BY <2>1, <1>1, <1>6, <1>10, <1>11, <1>20, <1>25, <1>26, <1>27 DEF Finishing
<1>30. Later(bs, cs, H, K, here, i, last) /\ last \in Nat
  <2>1. \A e \in ToSet(cs[here].exit) : e > last
    BY <1>2, <1>24
  <2>2. \A k \in Len(bs) + 1 .. Len(cs) : \A e \in ToSet(cs[k].exit) : e > last
    BY <1>28
  <2> QED BY <2>1, <2>2, <1>1, <1>2 DEF Later, IsJoin
<1>31. Finished(bs, cs, H, K, here, B, m, G, last, sr)
  BY <1>29, <1>30, FinishIs
<1>32. i \in 1 .. Len(cs) /\ cs[i].exit = <<>> /\ HEnd(cs, K, i) = V
  <2>1. Len(cs[i].code) + 1 = 1
    BY <1>1, <1>6
  <2> QED BY <2>1, <1>1, <1>2, <1>6, <1>20 DEF HEnd
<1> QED BY <1>11, <1>31, <1>32 DEF JoinedTo, JoinsTo

(* What the lowerer knows at the end of a block. *)
AtEnd(P, N, L, h, A, H, c, o, l, j, D, q, f, t) ==
  /\ c \in 1 .. N /\ c \in Nat /\ l \in Nat /\ Program(P, N, L) /\ prog = P /\ nregs \in Nat /\ Len(blocks) \in Nat
  /\ c = pc /\ o = c - 1 /\ l = L.lev[o] /\ D = L.dcl[o] /\ P[c].op = "end"
  /\ CodeOK(blocks, A, H, nregs, Manner(P, doExitFrees))
  /\ cur \in 1 .. Len(blocks) /\ cur \in Nat /\ blocks[cur].exit = <<>>
  /\ SitesOK(blocks, A, nregs, siteReg)
  /\ L.lev[c] = j /\ L.dcl[c] = D /\ q = L.opn[o][l]
  /\ FlowBlock(P, L, h, doExitFrees, o, c) /\ Valued(h[c + 1], l, D)
  /\ (P[q].op = "if" => L.arm[o][l] # q)
  /\ Closer(P, N, L, h, A, H, c, o, l, j, D, q, f, t)

LEMMA EndStands ==
  ASSUME NEW P, NEW N, NEW L, NEW h, NEW A, NEW H, LowerOK(P, N, L, h, A, H), At("end")
  PROVE  pc <= N /\ \E c, o, l, j, D, q, f, t : Here(L, c, o, l, D) /\ AtEnd(P, N, L, h, A, H, c, o, l, j, D, q, f, t)
<1>1. PICK c, o, l, D : Here(L, c, o, l, D)
  BY DEF Here
<1>2. pc <= N /\ Token.op = "end"
  <2>1. Len(prog) = N
    BY DEF LowerOK, WalkedTo, Program
  <2> QED BY <2>1 DEF At
<1>3. /\ Token = P[c] /\ l \in Nat /\ c \in 1 .. N /\ prog = P /\ Program(P, N, L) /\ L \in Layouts /\ c \in Nat
      /\ Placed(P, L, o, c) /\ o \in Nat /\ ShapedAt(L, N, c, h[c + 1])
      /\ Flow(P, L, h, doExitFrees, o, c)
      /\ CodeOK(blocks, A, H, nregs, Manner(P, doExitFrees)) /\ nregs \in Nat /\ Len(blocks) \in Nat
      /\ cur \in 1 .. Len(blocks) /\ cur \in Nat /\ blocks[cur].exit = <<>>
      /\ SitesOK(blocks, A, nregs, siteReg)
  BY <1>1, <1>2, LowerStands
<1>4. c = pc /\ o = c - 1 /\ l = L.lev[o] /\ D = L.dcl[o] /\ P[c].op = "end"
  BY <1>1, <1>2, <1>3 DEF Here
<1>5. PICK j, q, f, t : Closer(P, N, L, h, A, H, c, o, l, j, D, q, f, t)
  <2>1. P[c].op \in {"else", "end"}
    BY <1>4
  <2> QED BY <2>1, <1>1, <1>2, CloserIs
<1>6. j \in Nat /\ l = j + 1 /\ q = L.opn[o][l]
  BY <1>5 DEF Closer, Closing
<1>7. Shuts(P, L, o, c)
  BY <1>3, <1>4 DEF Placed, Opens, Turns, Declares, Refers, Openers
<1>8. L.lev[c] = j /\ L.dcl[c] = D /\ (P[q].op = "if" => L.arm[o][l] # q)
  <2>1. L.lev[c] = l - 1 /\ L.dcl[c] = D /\ (InnerOp(P, L, o) = "if" => L.arm[o][l] # L.opn[o][l])
    BY <1>4, <1>7 DEF Shuts
  <2>2. l - 1 = j
    BY <1>6
  <2>3. InnerOp(P, L, o) = P[q].op
    BY <1>4, <1>6 DEF InnerOp
  <2> QED BY <2>1, <2>2, <2>3, <1>6
<1>9. Valued(h[c + 1], l, D)
  <2>1. Stack(h[c + 1], l, D, AliasSets(N))
    BY <1>3, <1>6, <1>8 DEF ShapedAt
  <2>2. \A d \in 1 .. l : h[c + 1][d] \in [D[d] -> AliasSets(N)]
    BY <2>1 DEF Stack
  <2>3. \A d \in 1 .. l : \A y \in D[d] : h[c + 1][d][y] \in AliasSets(N)
    BY <2>2
  <2> QED BY <2>3 DEF Valued, AliasSets
<1>10. FlowBlock(P, L, h, doExitFrees, o, c)
  BY <1>3 DEF Flow
<1>11. AtEnd(P, N, L, h, A, H, c, o, l, j, D, q, f, t)
  BY <1>3, <1>4, <1>5, <1>6, <1>8, <1>9, <1>10 DEF AtEnd
<1> QED BY <1>1, <1>2, <1>11

(* The join gets a phi for every name that an arm assigned; the other bindings are *)
(* those the if was entered with.                                            *)
LEMMA LowerEndIfOK ==
  ASSUME NEW P, NEW N, NEW L, NEW h, NEW A, NEW H, LowerOK(P, N, L, h, A, H), LowerEndIf, UNCHANGED analysis
  PROVE  \E B, K : LowerOK(P, N, L, h, B, K)'
<1>1. At("end")
  BY DEF LowerEndIf, Ends
<1>2. PICK c, o, l, j, D, q, f, t : Here(L, c, o, l, D) /\ AtEnd(P, N, L, h, A, H, c, o, l, j, D, q, f, t)
  BY <1>1, EndStands
<1>3. pc <= N
  BY <1>1, EndStands
<1>4. /\ c \in 1 .. N /\ c \in Nat /\ l \in Nat /\ Program(P, N, L) /\ nregs \in Nat /\ Len(blocks) \in Nat
      /\ c = pc /\ o = c - 1 /\ l = L.lev[o] /\ D = L.dcl[o] /\ P[c].op = "end"
      /\ CodeOK(blocks, A, H, nregs, Manner(P, doExitFrees))
      /\ cur \in 1 .. Len(blocks) /\ cur \in Nat /\ blocks[cur].exit = <<>>
      /\ SitesOK(blocks, A, nregs, siteReg)
      /\ L.lev[c] = j /\ L.dcl[c] = D /\ q = L.opn[o][l]
      /\ FlowBlock(P, L, h, doExitFrees, o, c) /\ Valued(h[c + 1], l, D)
      /\ (P[q].op = "if" => L.arm[o][l] # q)
      /\ Closer(P, N, L, h, A, H, c, o, l, j, D, q, f, t)
  BY <1>2 DEF AtEnd
<1>5. /\ Closing(P, N, L, c, o, l, j, D, q)
      /\ f = Last(ctl) /\ f = ctl[l] /\ f.op = P[q].op
      /\ CtlOK(P, N, L, h, A, H, blocks, nregs, cur, env, q, L.arm[o][l], D, l, f)
      /\ t = Front(env) /\ EnvOK(t, h[c], l, D, A, nregs, HEnd(blocks, H, cur)) /\ Same(env, t, l)
  BY <1>4 DEF Closer
<1>6. f.op = "if" /\ P[q].op = "if"
  BY <1>5 DEF LowerEndIf, Ends
<1>7. PICK bs, here, n, s, U, G, cs, e, order, m, i, last, sr, arm, a, b, V :
          /\ bs = blocks /\ here = cur /\ n = nregs /\ s = env /\ U = HEnd(bs, H, here) /\ G = Manner(P, doExitFrees)
          /\ cs = blocks' /\ e = env' /\ order = f.order /\ m = n + Cardinality(DOMAIN order)
          /\ i = f.first + 2 /\ last = f.first - 1 /\ sr = siteReg /\ arm = L.arm[o][l]
          /\ a = h[c] /\ b = h[c + 1] /\ V = PhiSet(order, n) \cup KeptRegs(t, l, D, order)
  OBVIOUS
<1>8. /\ BranchOK(P, N, L, bs, n, here, s, q, D, l, f) /\ ElseOK(h, A, H, bs, arm, D, l, f)
  BY <1>4, <1>5, <1>6, <1>7 DEF CtlOK
<1>9. /\ OrderOK(P, N, L, q, l, D, order) /\ Agrees(f.entry, s, order, D, l)
      /\ f.first \in Nat /\ f.first >= 2 /\ i <= Len(bs) /\ here # i
  BY <1>7, <1>8 DEF BranchOK
<1>10. /\ CodeOK(bs, A, H, n, G) /\ here \in 1 .. Len(bs) /\ bs[here].exit = <<>> /\ SitesOK(bs, A, n, sr)
       /\ n \in Nat /\ Len(bs) \in Nat /\ EnvOK(t, a, l, D, A, n, U) /\ Same(s, t, l) /\ Valued(b, l, D)
  BY <1>4, <1>5, <1>7
<1>11. last \in Nat /\ f.first = last + 1 /\ i \in 1 .. Len(bs) /\ i > last /\ i \in Nat
  BY <1>7, <1>9, <1>10
<1>12. Under(a, b, l, D) /\ Under(h[arm], b, l, D)
  BY <1>4, <1>6, <1>7 DEF FlowBlock
<1>13. Rejoined(bs, cs, here, <<i>>, i, JoinPhis(order, n, f.from, f.regs, here, Regs(t, order)))
  <2>1. PICK phis, ds : /\ phis = JoinPhis(order, n, f.from, f.regs, here, Regs(t, order))
                        /\ ds = [bs EXCEPT ![here].exit = <<i>>]
    OBVIOUS
  <2>2. phis = [x \in DOMAIN f.order |->
                 [reg |-> nregs + f.order[x], args |-> <<<<f.from, f.regs[x]>>, <<cur, Regs(Front(env), f.order)[x]>>>>]]
    BY <2>1, <1>5, <1>7 DEF JoinPhis
  <2>3. cs = Joining(ds, i, phis)
    BY <2>1, <2>2, <1>5, <1>7 DEF LowerEndIf, Ending
  <2>4. BlocksOK(bs) /\ <<i>> \in Seq(Nat)
    BY <1>10, <1>11 DEF CodeOK
  <2> QED BY <2>1, <2>3, <2>4, <1>9, <1>10, <1>11, RejoinedIs
<1>14. PICK B, K : JoinedTo(bs, cs, A, H, n, here, B, K, m, G, last, sr, order, D, l, b, i, V)
  <2>1. U = HEnd(bs, H, here) /\ order = f.order /\ m = PhisEnd(order, n) /\ IsJoin(f, i, last)
        /\ V = PhiSet(order, n) \cup KeptRegs(t, l, D, order) /\ l \in Nat
    BY <1>4, <1>7, <1>11 DEF PhisEnd, IsJoin
  <2>2. JoinsTo(bs, cs, A, H, n, here, m, G, last, sr, order, D, l, b, i, V)
    BY ONLY <2>1, <1>8, <1>10, <1>12, <1>13, IfJoins, ZenonT(60)
  <2> QED BY <2>2 DEF JoinsTo
<1>15. /\ Finished(bs, cs, H, K, here, B, m, G, last, sr)
       /\ B \in [Nat -> SUBSET Nat] /\ Extends(A, B, n) /\ PhisHold(B, n, order, D, l, b)
       /\ i \in 1 .. Len(cs) /\ cs[i].exit = <<>> /\ HEnd(cs, K, i) = V
  BY <1>14 DEF JoinedTo
<1>16. m \in Nat /\ n <= m /\ PhiSet(order, n) \subseteq 1 .. m
  BY <1>4, <1>7, <1>9, <1>10, PhiPlaces
<1>17. e = Rebound(t, order, n) /\ m = nregs' /\ i = cur' /\ siteReg' = siteReg /\ Advance
       /\ depth' = depth - 1 /\ ctl' = Front(ctl)
  BY <1>5, <1>7 DEF LowerEndIf
<1>18. EnvOK(e, b, l, D, B, m, V) /\ Agrees(t, e, order, D, l)
  <2>1. \A d \in 1 .. l : \A y \in D[d] : Moved(order, D, l, d, y) => B[n + order[y]] \subseteq b[d][y]
    BY <1>15 DEF PhisHold
  <2>2. PhiSet(order, n) \subseteq V /\ KeptRegs(t, l, D, order) \subseteq V
    BY <1>7
  <2>3. l \in Nat /\ n \in Nat /\ EnvOK(t, a, l, D, A, n, U) /\ Under(a, b, l, D) /\ Extends(A, B, n)
    BY <1>4, <1>10, <1>12, <1>15
  <2>4. e = Rebound(t, order, n)
    BY <1>17
  <2> QED BY ONLY <2>1, <2>2, <2>3, <2>4, <1>16, EnvRebinds
<1>19. Agrees(env, e, order, D, l)
  BY <1>5, <1>18 DEF Agrees, Same
<1>20. Outer(P, N, L, o, j, D, env, e)
  BY <1>4, <1>5, <1>9, <1>19, ClosedRewrites
<1>21. Shut2(P, N, L, h, c, l, B, K, cs, m, i, e)
  BY <1>4, <1>7, <1>15, <1>18 DEF Shut2
<1>22. Below(ctl, j, last)
  BY <1>4, <1>6, <1>11 DEF Closer
<1>23. Finished(blocks, cs, H, K, cur, B, m, Manner(P, doExitFrees), last, siteReg)
  BY <1>7, <1>15
<1>24. /\ cs = blocks' /\ e = env' /\ nregs <= m /\ Extends(A, B, nregs) /\ (i = cur \/ i > last)
       /\ depth' = IF ctl[l].op # "do" THEN depth - 1 ELSE depth
  BY <1>5, <1>6, <1>7, <1>11, <1>15, <1>16, <1>17
<1>25. LowerOK(P, N, L, h, B, K)'
  BY <1>2, <1>3, <1>4, <1>5, <1>11, <1>16, <1>17, <1>20, <1>21, <1>22, <1>23, <1>24, LowerShuts
<1> QED BY <1>25

-----------------------------------------------------------------------------
(* The body of a loop ends. *)

(* The phis of the header with their second arguments. *)
BackPhis(phis, order, here, rs) ==
  [x \in DOMAIN order |-> [reg |-> phis[x].reg, args |-> Append(phis[x].args, <<here, rs[x]>>)]]

ArgLists == Seq(Nat \X Nat)
More(args, i, v) == Append(args, <<i, v>>)
OneMore(args, i, v, brgs) == brgs \in ArgLists /\ ToSet(brgs) = ToSet(args) \cup {<<i, v>>}

LEMMA ArgsMore ==
  ASSUME NEW args, args \in ArgLists, NEW i \in Nat, NEW v \in Nat
  PROVE  OneMore(args, i, v, More(args, i, v))
<1>1. PICK w, n, brgs : w = <<i, v>> /\ n = Len(args) /\ brgs = More(args, i, v)
  OBVIOUS
<1>2. w \in Nat \X Nat /\ n \in Nat /\ brgs = Append(args, w) /\ args \in Seq(Nat \X Nat)
  BY <1>1 DEF More, ArgLists
<1>3. brgs \in Seq(Nat \X Nat) /\ Len(brgs) = n + 1 /\ brgs[n + 1] = w /\ \A k \in 1 .. n : brgs[k] = args[k]
  BY <1>1, <1>2, AppendOf
<1>4. DOMAIN args = 1 .. n /\ DOMAIN brgs = 1 .. n + 1
  BY <1>1, <1>3
<1>5. ToSet(args) = {args[k] : k \in 1 .. n} /\ ToSet(brgs) = {brgs[k] : k \in 1 .. n + 1}
  BY <1>4 DEF ToSet
<1>6. \A k \in 1 .. n + 1 : k \in 1 .. n \/ k = n + 1
  BY <1>2
<1>7. \A k \in 1 .. n : k \in 1 .. n + 1
  BY <1>2
<1>8. n + 1 \in 1 .. n + 1
  BY <1>2
<1>9. ToSet(brgs) = ToSet(args) \cup {w}
  BY <1>3, <1>5, <1>6, <1>7, <1>8
<1> QED BY <1>1, <1>3, <1>9 DEF OneMore, ArgLists

(* What a phi of the header takes from the blocks before the loop, and from the    *)
(* end of the body.                                                         *)
Backed(phi, i, v) == [reg |-> phi.reg, args |-> Append(phi.args, <<i, v>>)]
SameExits(bs, cs, here) == \A b \in 1 .. Len(bs) : b # here => cs[b].exit = bs[b].exit

BackTo(cs, n, phi, psi, here, v, A) ==
  /\ PhiOK(cs, psi, n) /\ psi.reg = phi.reg
  /\ \A b, U : b # here /\ TakesOK(phi, b, U, A) => TakesOK(psi, b, U, A)
  /\ \A U : v \in U /\ A[v] \subseteq A[phi.reg] => TakesOK(psi, here, U, A)

LEMMA BackOK ==
  ASSUME NEW bs, NEW cs, NEW n, NEW phi, PhiOK(bs, phi, n), Len(cs) = Len(bs),
         NEW here \in 1 .. Len(bs), here \in Nat, bs[here].exit = <<>>, cs[here].exit # <<>>,
         SameExits(bs, cs, here), NEW v \in Nat, NEW psi, psi = Backed(phi, here, v),
         NEW A
  PROVE  BackTo(cs, n, phi, psi, here, v, A)
<1>1. /\ phi.reg \in 1 .. n /\ phi.args \in Seq(Nat \X Nat)
      /\ \A a \in ToSet(phi.args) : a[1] \in 1 .. Len(bs) /\ bs[a[1]].exit # <<>>
  BY DEF PhiOK
<1>2. PICK w : w = <<here, v>>
  OBVIOUS
<1>3. w[1] = here /\ w[2] = v
  BY <1>2
<1>4. psi.reg = phi.reg /\ psi.args = Append(phi.args, <<here, v>>)
  BY DEF Backed
<1>5. psi.args \in Seq(Nat \X Nat) /\ ToSet(psi.args) = ToSet(phi.args) \cup {w}
  <2>1. PICK args, brgs : args = phi.args /\ brgs = psi.args
    OBVIOUS
  <2>2. args \in ArgLists /\ here \in Nat /\ v \in Nat /\ brgs = More(args, here, v)
    BY <2>1, <1>1, <1>4 DEF More, ArgLists
  <2>3. OneMore(args, here, v, brgs)
    BY ONLY <2>2, ArgsMore
  <2> QED BY <2>1, <2>3, <1>2 DEF OneMore, ArgLists
<1>6. \A a \in ToSet(psi.args) : a[1] \in 1 .. Len(cs) /\ cs[a[1]].exit # <<>>
  <2> SUFFICES ASSUME NEW a \in ToSet(psi.args) PROVE a[1] \in 1 .. Len(cs) /\ cs[a[1]].exit # <<>>
    OBVIOUS
  <2>1. CASE a = w
    BY <2>1, <1>3
  <2>2. CASE a \in ToSet(phi.args)
    <3>1. a[1] \in 1 .. Len(bs) /\ bs[a[1]].exit # <<>>
      BY <2>2, <1>1
    <3>2. a[1] # here
      BY <3>1
    <3> QED BY <3>1, <3>2 DEF SameExits
  <2> QED BY <2>1, <2>2, <1>5
<1>7. PhiOK(cs, psi, n)
  BY <1>1, <1>4, <1>5, <1>6 DEF PhiOK
<1>8. ASSUME NEW b, NEW U, b # here, TakesOK(phi, b, U, A)
      PROVE  TakesOK(psi, b, U, A)
  <2>1. /\ \E a \in ToSet(phi.args) : a[1] = b
        /\ \A a \in ToSet(phi.args) : a[1] = b => a[2] \in U /\ A[a[2]] \subseteq A[phi.reg]
    BY <1>8 DEF TakesOK
  <2>2. \E a \in ToSet(psi.args) : a[1] = b
    BY <2>1, <1>5
  <2>3. \A a \in ToSet(psi.args) : a[1] = b => a \in ToSet(phi.args)
    BY <1>3, <1>5, <1>8
  <2> QED BY <2>1, <2>2, <2>3, <1>4 DEF TakesOK
<1>9. ASSUME NEW U, v \in U, A[v] \subseteq A[phi.reg]
      PROVE  TakesOK(psi, here, U, A)
  <2>1. w \in ToSet(psi.args)
    BY <1>5
  <2>2. \A a \in ToSet(psi.args) : a[1] = here => a = w
    BY <1>1, <1>5
  <2> QED BY <2>1, <2>2, <1>3, <1>4, <1>9 DEF TakesOK
<1> QED BY <1>4, <1>7, <1>8, <1>9 DEF BackTo

LoopedTo(bs, cs, A, H, n, here, G, last, sr, there, V) ==
  /\ Finished(bs, cs, H, H, here, A, n, G, last, sr)
  /\ there \in 1 .. Len(cs) /\ cs[there].exit = <<>> /\ HEnd(cs, H, there) = V

LEMMA LoopJoins ==
  ASSUME NEW P, NEW N, NEW L, NEW h, NEW bs, NEW A, NEW H, NEW n \in Nat, NEW G, CodeOK(bs, A, H, n, G),
         NEW here \in 1 .. Len(bs), here \in Nat, bs[here].exit = <<>>, Len(bs) \in Nat,
         NEW q, NEW D, NEW l \in Nat, NEW s, NEW t, NEW f, NEW U, U = HEnd(bs, H, here),
         BranchOK(P, N, L, bs, n, here, s, q, D, l, f), LoopOK(h, A, H, bs, n, q, D, l, f),
         NEW a, EnvOK(t, a, l, D, A, n, U), Same(s, t, l), Under(a, h[q + 1], l, D),
         NEW order, order = f.order,
         NEW i, i = f.first, NEW last \in Nat, i = last + 1, NEW sr, SitesOK(bs, A, n, sr),
         NEW cs, Rejoined(bs, cs, here, <<i>>, i, BackPhis(bs[i].phis, order, here, Regs(t, order))),
         NEW there, there = f.first + 2
  PROVE  LoopedTo(bs, cs, A, H, n, here, G, last, sr, there, H[there][1])
<1>1. /\ OrderOK(P, N, L, q, l, D, order) /\ Agrees(f.entry, s, order, D, l)
      /\ i \in Nat /\ i >= 2 /\ there <= Len(bs)
      /\ bs[there].code = <<>> /\ bs[there].exit = <<>> /\ here # there
  BY DEF BranchOK, Blank
<1>2. /\ bs[i].code = <<>> /\ bs[i].exit # <<>>
      /\ DOMAIN bs[i].phis = DOMAIN order
      /\ \A x \in DOMAIN order : bs[i].phis[x].reg = f.from + order[x]
      /\ \A d \in 1 .. l : \A x \in D[d] : Moved(order, D, l, d, x) => A[f.from + order[x]] = h[q + 1][d][x]
      /\ \A r \in H[i][1] : \/ r \in PhiRegs(bs, i)
                            \/ \E d \in 1 .. l : \E x \in D[d] :
                                  ~ Moved(order, D, l, d, x) /\ r = f.entry[d][x]
  BY DEF LoopOK
<1>3. i \in 1 .. Len(bs) /\ i # 1 /\ i > last /\ i # here /\ there \in 1 .. Len(bs) /\ there # i
  <2>1. there = i + 2 /\ i = last + 1 /\ last \in Nat /\ Len(bs) \in Nat
    OBVIOUS
  <2>2. i # here
    BY <1>2
  <2>3. i \in Nat /\ i >= 2 /\ there <= Len(bs)
    BY <1>1
  <2> QED BY ONLY <2>1, <2>2, <2>3
<1>4. PICK rs, phis : rs = Regs(t, order) /\ phis = bs[i].phis
  OBVIOUS
<1>5. /\ BlocksOK(cs) /\ Len(cs) = Len(bs)
      /\ \A k \in 1 .. Len(bs) : k # here /\ k # i => cs[k] = bs[k]
      /\ cs[here].exit = <<i>> /\ cs[here].code = bs[here].code /\ cs[here].phis = bs[here].phis
      /\ cs[i].phis = BackPhis(phis, order, here, rs)
      /\ cs[i].code = bs[i].code /\ cs[i].exit = bs[i].exit
  BY <1>4 DEF Rejoined
<1>6. cs[here].exit # <<>>
  <2>1. Len(<<i>>) = 1 /\ Len(<<>>) = 0
    OBVIOUS
  <2> QED BY <2>1, <1>5
<1>7. \A k \in 1 .. Len(bs) : k # here => cs[k].exit = bs[k].exit
  BY <1>5
<1>8. \A k \in 1 .. Len(bs) : cs[k].code = bs[k].code
  BY <1>5
<1>9. A \in [Nat -> SUBSET Nat] /\ H \in [Nat -> [Nat -> SUBSET Nat]] /\ U \subseteq 1 .. n
  <2>1. U \subseteq 1 .. n
    BY EndKnown
  <2> QED BY <2>1 DEF CodeOK, KnownOK
<1>10. \A k \in 1 .. Len(bs) : HEnd(cs, H, k) = HEnd(bs, H, k)
  BY <1>8 DEF HEnd
<1>11. DOMAIN cs[i].phis = DOMAIN order
       /\ \A x \in DOMAIN order : cs[i].phis[x] = [reg |-> phis[x].reg, args |-> Append(phis[x].args, <<here, rs[x]>>)]
  BY <1>5 DEF BackPhis
<1>12. Stack(t, l, D, 1 .. n) /\ Named(t, l, D, U) /\ Covered(t, a, l, D, A)
  BY DEF EnvOK
<1>13. ASSUME NEW x \in DOMAIN order
       PROVE  /\ PhiOK(cs, cs[i].phis[x], n) /\ cs[i].phis[x].reg = phis[x].reg
              /\ \A b, W : b # here /\ TakesOK(phis[x], b, W, A) => TakesOK(cs[i].phis[x], b, W, A)
              /\ TakesOK(cs[i].phis[x], here, U, A)
  <2>1. PICK d \in 1 .. l : x \in D[d] /\ Inmost(D, l, x, d) /\ Moved(order, D, l, d, x)
    BY <1>1, <1>13, PhiNames
  <2>2. PICK phi, psi, v : phi = phis[x] /\ psi = cs[i].phis[x] /\ v = rs[x]
    OBVIOUS
  <2>3. v = t[d][x] /\ v \in 1 .. n
    <3>1. ReadVar(t, x) = t[d][x] /\ t[d][x] \in 1 .. n
      BY <2>1, <1>12, ReadIs
    <3> QED BY <3>1, <2>2, <1>4 DEF Regs
  <2>4. v \in Nat /\ v \in U /\ A[v] \subseteq a[d][x]
    BY <2>1, <2>3, <1>12 DEF Named, Covered
  <2>5. PhiOK(bs, phi, n)
    <3>1. PhisOK(bs, i, n)
      BY <1>3 DEF CodeOK
    <3> QED BY <3>1, <2>2, <1>2, <1>4 DEF PhisOK
  <2>6. A[v] \subseteq A[phi.reg]
    <3>1. phi.reg = f.from + order[x]
      BY <2>2, <1>2, <1>4
    <3>2. A[phi.reg] = h[q + 1][d][x]
      BY <3>1, <2>1, <1>2
    <3>3. a[d][x] \subseteq h[q + 1][d][x]
      BY <2>1 DEF Under
    <3> QED BY <3>2, <3>3, <2>4
  <2>7. psi = [reg |-> phi.reg, args |-> Append(phi.args, <<here, v>>)]
    BY <2>2, <1>11
  <2>8. /\ PhiOK(cs, psi, n) /\ psi.reg = phi.reg
        /\ \A b, W : b # here /\ TakesOK(phi, b, W, A) => TakesOK(psi, b, W, A)
        /\ \A W : v \in W /\ A[v] \subseteq A[phi.reg] => TakesOK(psi, here, W, A)
    <3>1. Len(cs) = Len(bs) /\ here \in 1 .. Len(bs) /\ here \in Nat /\ bs[here].exit = <<>> /\ v \in Nat
      BY <2>4, <1>5
    <3>2. SameExits(bs, cs, here) /\ psi = Backed(phi, here, v)
      BY <2>7, <1>7 DEF SameExits, Backed
    <3>3. BackTo(cs, n, phi, psi, here, v, A)
      BY ONLY <3>1, <3>2, <2>5, <1>6, BackOK
    <3> QED BY <3>3 DEF BackTo
  <2> QED BY <2>2, <2>4, <2>6, <2>8
<1>14. PhisOK(cs, i, n)
  BY <1>11, <1>13 DEF PhisOK
<1>15. PhiRegs(cs, i) = PhiRegs(bs, i)
  <2>1. \A x \in DOMAIN order : cs[i].phis[x].reg = bs[i].phis[x].reg
    BY <1>4, <1>13
  <2> QED BY <2>1, <1>2, <1>11 DEF PhiRegs
<1>16. H[i][1] \subseteq 1 .. n
  <2>1. Len(bs[i].code) + 1 = 1
    BY <1>2
  <2>2. \A b \in 1 .. Len(bs) : \A u \in 1 .. Len(bs[b].code) + 1 : H[b][u] \subseteq 1 .. n
    BY DEF CodeOK, KnownOK
  <2>3. 1 \in 1 .. Len(bs[i].code) + 1
    BY <2>1
  <2> QED BY <2>2, <2>3, <1>3
<1>17. ASSUME NEW b \in 1 .. Len(bs), i \in ToSet(bs[b].exit)
       PROVE  EdgeOK(cs, b, i, A, H)
  <2>1. ExitOK(bs, b, A, H)
    BY DEF CodeOK
  <2>2. EdgeOK(bs, b, i, A, H)
    BY <2>1, <1>17 DEF ExitOK
  <2>3. b # here
    BY <1>17, ExitSets
  <2>4. H[i][1] \subseteq HEnd(cs, H, b) \cup PhiRegs(cs, i)
    BY <2>2, <1>10, <1>15 DEF EdgeOK
  <2>5. ASSUME NEW x \in DOMAIN order
        PROVE  TakesOK(cs[i].phis[x], b, HEnd(cs, H, b), A)
    <3>1. TakesOK(phis[x], b, HEnd(cs, H, b), A)
      BY <2>2, <1>2, <1>4, <1>10 DEF EdgeOK
    <3> QED BY <3>1, <2>3, <1>13
  <2> QED BY <2>4, <2>5, <1>11 DEF EdgeOK
<1>18. EdgeOK(cs, here, i, A, H)
  <2>1. HEnd(cs, H, here) = U
    BY <1>10
  <2>2. H[i][1] \subseteq U \cup PhiRegs(cs, i)
    <3> SUFFICES ASSUME NEW r \in H[i][1], r \notin PhiRegs(cs, i) PROVE r \in U
      OBVIOUS
    <3>1. PICK d \in 1 .. l : \E x \in D[d] : ~ Moved(order, D, l, d, x) /\ r = f.entry[d][x]
      BY <1>2, <1>15
    <3>2. PICK x \in D[d] : ~ Moved(order, D, l, d, x) /\ r = f.entry[d][x]
      BY <3>1
    <3>3. s[d][x] = f.entry[d][x]
      BY <3>2, <1>1 DEF Agrees
    <3>4. t[d] = s[d]
      BY DEF Same
    <3>5. t[d][x] \in U
      BY <1>12 DEF Named
    <3> QED BY <3>2, <3>3, <3>4, <3>5
  <2> QED BY <2>1, <2>2, <1>11, <1>13 DEF EdgeOK
<1>19. ToSet(cs[here].exit) = {i}
  BY <1>5, ExitSets
<1>20. ExitOK(cs, here, A, H)
  BY <1>3, <1>5, <1>18, <1>19 DEF ExitOK
<1>21. JoinOK(bs, cs, A, H, H, n, i)
  BY <1>2, <1>3, <1>14, <1>16, <1>17 DEF JoinOK
<1>22. Completes(bs, cs, H, H, here, i)
  <2>1. \A k \in 1 .. Len(bs) : k # i => cs[k].phis = bs[k].phis
    BY <1>5
  <2> QED BY <2>1, <1>5, <1>6, <1>7, <1>8 DEF Completes
<1>23. \A k \in Len(bs) + 1 .. Len(cs) : FALSE
  BY <1>5
<1>24. Finishing(bs, A, H, n, here, A, n, cs, H, i)
  <2>1. \A k \in Len(bs) + 1 .. Len(cs) : AddedOK(cs, k, A, H, n)
    BY <1>23
  <2>2. Extends(A, A, n) /\ n <= n
    BY DEF Extends
  <2> QED BY <2>1, <2>2, <1>3, <1>5, <1>9, <1>20, <1>21, <1>22 DEF Finishing
<1>25. Later(bs, cs, H, H, here, i, last)
  <2>1. \A e \in ToSet(cs[here].exit) : e > last
    BY <1>3, <1>19
  <2>2. \A k \in Len(bs) + 1 .. Len(cs) : \A e \in ToSet(cs[k].exit) : e > last
    BY <1>23
  <2> QED BY <2>1, <2>2, <1>3 DEF Later
<1>26. Finished(bs, cs, H, H, here, A, n, G, last, sr)
  BY <1>24, <1>25, FinishIs
<1>27. there \in 1 .. Len(cs) /\ cs[there].exit = <<>> /\ HEnd(cs, H, there) = H[there][1]
  <2>1. cs[there] = bs[there]
    BY <1>1, <1>3, <1>5
  <2>2. Len(cs[there].code) + 1 = 1
    BY <2>1, <1>1
  <2> QED BY <2>1, <2>2, <1>1, <1>3, <1>5 DEF HEnd
<1> QED BY <1>26, <1>27 DEF LoopedTo

(* The end of the body leads back to the header; what follows the loop starts with *)
(* the bindings of the header.                                               *)
LEMMA LowerLatchOK ==
  ASSUME NEW P, NEW N, NEW L, NEW h, NEW A, NEW H, LowerOK(P, N, L, h, A, H), LowerLatch, UNCHANGED analysis
  PROVE  LowerOK(P, N, L, h, A, H)'
<1>1. At("end")
  BY DEF LowerLatch, Ends
<1>2. PICK c, o, l, j, D, q, f, t : Here(L, c, o, l, D) /\ AtEnd(P, N, L, h, A, H, c, o, l, j, D, q, f, t)
  BY <1>1, EndStands
<1>3. pc <= N
  BY <1>1, EndStands
<1>4. /\ c \in 1 .. N /\ c \in Nat /\ l \in Nat /\ Program(P, N, L) /\ nregs \in Nat /\ Len(blocks) \in Nat
      /\ c = pc /\ o = c - 1 /\ l = L.lev[o] /\ D = L.dcl[o] /\ P[c].op = "end"
      /\ CodeOK(blocks, A, H, nregs, Manner(P, doExitFrees))
      /\ cur \in 1 .. Len(blocks) /\ cur \in Nat /\ blocks[cur].exit = <<>>
      /\ SitesOK(blocks, A, nregs, siteReg)
      /\ L.lev[c] = j /\ L.dcl[c] = D /\ q = L.opn[o][l]
      /\ FlowBlock(P, L, h, doExitFrees, o, c)
      /\ Closer(P, N, L, h, A, H, c, o, l, j, D, q, f, t)
  BY <1>2 DEF AtEnd
<1>5. /\ Closing(P, N, L, c, o, l, j, D, q)
      /\ f = Last(ctl) /\ f = ctl[l] /\ f.op = P[q].op
      /\ CtlOK(P, N, L, h, A, H, blocks, nregs, cur, env, q, L.arm[o][l], D, l, f)
      /\ t = Front(env) /\ EnvOK(t, h[c], l, D, A, nregs, HEnd(blocks, H, cur)) /\ Same(env, t, l)
  BY <1>4 DEF Closer
<1>6. f.op = "while" /\ P[q].op = "while"
  BY <1>5 DEF LowerLatch, Ends
<1>7. PICK bs, here, n, s, U, G, cs, e, order, i, there, last, sr, a, b, V, from :
          /\ bs = blocks /\ here = cur /\ n = nregs /\ s = env /\ U = HEnd(bs, H, here) /\ G = Manner(P, doExitFrees)
          /\ cs = blocks' /\ e = env' /\ order = f.order /\ i = f.first /\ there = f.first + 2
          /\ last = f.first - 1 /\ sr = siteReg
          /\ a = h[c] /\ b = h[c + 1] /\ V = H[there][1] /\ from = f.from
  OBVIOUS
<1>8. /\ BranchOK(P, N, L, bs, n, here, s, q, D, l, f) /\ LoopOK(h, A, H, bs, n, q, D, l, f)
  BY <1>4, <1>5, <1>6, <1>7 DEF CtlOK
<1>9. /\ OrderOK(P, N, L, q, l, D, order) /\ Agrees(f.entry, s, order, D, l)
      /\ i \in Nat /\ i >= 2 /\ there <= Len(bs)
  BY <1>7, <1>8 DEF BranchOK
<1>10. /\ CodeOK(bs, A, H, n, G) /\ here \in 1 .. Len(bs) /\ here \in Nat /\ bs[here].exit = <<>>
       /\ SitesOK(bs, A, n, sr)
       /\ n \in Nat /\ Len(bs) \in Nat /\ EnvOK(t, a, l, D, A, n, U) /\ Same(s, t, l)
  BY <1>4, <1>5, <1>7
<1>11. last \in Nat /\ i = last + 1 /\ i \in 1 .. Len(bs) /\ there > last /\ f.first = last + 1
  BY <1>7, <1>9, <1>10
<1>12. Under(a, b, l, D) /\ Under(a, h[q + 1], l, D) /\ Under(h[q + 1], b, l, D)
  BY <1>4, <1>6, <1>7 DEF FlowBlock
<1>13. /\ from \in Nat /\ \A x \in DOMAIN order : from + order[x] \in 1 .. n
       /\ bs[i].exit # <<>>
       /\ \A d \in 1 .. l : \A x \in D[d] : Moved(order, D, l, d, x) => A[from + order[x]] = h[q + 1][d][x]
       /\ \A d \in 1 .. l : \A x \in D[d] : ~ Moved(order, D, l, d, x) => f.entry[d][x] \in V
       /\ \A x \in DOMAIN order : from + order[x] \in V
  BY <1>7, <1>8 DEF LoopOK
<1>14. Rejoined(bs, cs, here, <<i>>, i, BackPhis(bs[i].phis, order, here, Regs(t, order)))
  <2>1. PICK phis, ds : phis = BackPhis(bs[i].phis, order, here, Regs(t, order)) /\ ds = [bs EXCEPT ![here].exit = <<i>>]
    OBVIOUS
  <2>2. phis = [x \in DOMAIN f.order |->
                  [reg |-> blocks[f.first].phis[x].reg,
                   args |-> Append(blocks[f.first].phis[x].args, <<cur, ReadVar(Front(env), x)>>)]]
    BY <2>1, <1>5, <1>7 DEF BackPhis, Regs
  <2>3. cs = Joining(ds, i, phis)
    BY <2>1, <2>2, <1>5, <1>7 DEF LowerLatch, Ending
  <2>4. BlocksOK(bs) /\ <<i>> \in Seq(Nat) /\ i # here
    BY <1>9, <1>10, <1>13 DEF CodeOK
  <2> QED BY <2>1, <2>3, <2>4, <1>10, <1>11, RejoinedIs
<1>15. LoopedTo(bs, cs, A, H, n, here, G, last, sr, there, V)
  <2>1. U = HEnd(bs, H, here) /\ order = f.order /\ i = f.first /\ there = f.first + 2 /\ V = H[there][1]
        /\ l \in Nat
    BY <1>4, <1>7
  <2> QED BY ONLY <2>1, <1>8, <1>10, <1>11, <1>12, <1>14, LoopJoins, ZenonT(60)
<1>16. /\ Finished(bs, cs, H, H, here, A, n, G, last, sr)
       /\ there \in 1 .. Len(cs) /\ cs[there].exit = <<>> /\ HEnd(cs, H, there) = V
  BY <1>15 DEF LoopedTo
<1>17. e = Rebound(t, order, from) /\ n = nregs' /\ there = cur' /\ siteReg' = siteReg /\ Advance
       /\ depth' = depth - 1 /\ ctl' = Front(ctl)
  BY <1>5, <1>7 DEF LowerLatch
<1>18. EnvOK(e, b, l, D, A, n, V) /\ Agrees(t, e, order, D, l)
  <2>1. ASSUME NEW d \in 1 .. l, NEW y \in D[d], Moved(order, D, l, d, y)
        PROVE  A[from + order[y]] \subseteq b[d][y]
    <3>1. A[from + order[y]] = h[q + 1][d][y]
      BY <2>1, <1>13
    <3>2. h[q + 1][d][y] \subseteq b[d][y]
      BY <1>12 DEF Under
    <3> QED BY <3>1, <3>2
  <2>2. PhiSet(order, from) \subseteq V /\ PhiSet(order, from) \subseteq 1 .. n
    BY <1>13 DEF PhiSet
  <2>3. KeptRegs(t, l, D, order) \subseteq V
    <3> SUFFICES ASSUME NEW r \in KeptRegs(t, l, D, order) PROVE r \in V
      OBVIOUS
    <3>1. PICK d \in 1 .. l : \E x \in D[d] : ~ Moved(order, D, l, d, x) /\ r = t[d][x]
      BY DEF KeptRegs
    <3>2. PICK x \in D[d] : ~ Moved(order, D, l, d, x) /\ r = t[d][x]
      BY <3>1
    <3>3. t[d] = s[d]
      BY <1>10 DEF Same
    <3>4. s[d][x] = f.entry[d][x]
      BY <3>2, <1>9 DEF Agrees
    <3> QED BY <3>2, <3>3, <3>4, <1>13
  <2>4. Extends(A, A, n) /\ n <= n
    BY <1>10 DEF Extends
  <2>5. \A d \in 1 .. l : \A y \in D[d] : Moved(order, D, l, d, y) => A[from + order[y]] \subseteq b[d][y]
    BY <2>1
  <2>6. EnvOK(t, a, l, D, A, n, U) /\ n \in Nat /\ l \in Nat /\ from \in Nat /\ Under(a, b, l, D)
        /\ e = Rebound(t, order, from)
    BY <1>4, <1>10, <1>12, <1>13, <1>17
  <2> QED BY <2>2, <2>3, <2>4, <2>5, <2>6, EnvRebinds
<1>19. Agrees(env, e, order, D, l)
  BY <1>5, <1>18 DEF Agrees, Same
<1>20. Outer(P, N, L, o, j, D, env, e)
  BY <1>4, <1>5, <1>9, <1>19, ClosedRewrites
<1>21. Shut2(P, N, L, h, c, l, A, H, cs, n, there, e)
  BY <1>4, <1>7, <1>16, <1>18 DEF Shut2
<1>22. Below(ctl, j, last)
  BY <1>4, <1>6, <1>11 DEF Closer
<1>23. Finished(blocks, cs, H, H, cur, A, n, Manner(P, doExitFrees), last, siteReg)
  BY <1>7, <1>16
<1>24. /\ cs = blocks' /\ e = env' /\ nregs <= n /\ Extends(A, A, nregs) /\ (there = cur \/ there > last)
       /\ depth' = IF ctl[l].op # "do" THEN depth - 1 ELSE depth
  BY <1>5, <1>6, <1>7, <1>10, <1>11, <1>17 DEF Extends
<1>25. LowerOK(P, N, L, h, A, H)'
  BY <1>2, <1>3, <1>4, <1>5, <1>10, <1>11, <1>17, <1>20, <1>21, <1>22, <1>23, <1>24, LowerShuts
<1> QED BY <1>25

-----------------------------------------------------------------------------
(* A do block ends: what it frees. *)

(* A register freed at the exit: known or made, and apart from all that stay.    *)
ExitReg(bs, A, n, U, V, r) ==
  /\ r \in 1 .. n /\ (r \in U \/ Made(bs, r))
  /\ \A v \in V : A[v] \cap A[r] \subseteq {NullRoot}

(* The registers of the bindings in k scopes. *)
Bindings(s, k, D) == {r \in Nat : \E d \in 1 .. k : \E x \in D[d] : r = s[d][x]}

LEMMA ExitRegsOK ==
  ASSUME NEW l \in Nat, NEW D, NEW a, NEW A, NEW n \in Nat, NEW U, EnvOK(env, a, l + 1, D, A, n, U),
         NEW bs, SitesOK(bs, A, n, siteReg), NEW frees, FlowExit(D, l, a, frees),
         NEW r \in BirthRegs(frees) \cup CarrierRegs(frees)
  PROVE  ExitReg(bs, A, n, U, Bindings(env, l, D), r)
<1>1. /\ \A x \in D[l + 1] : \A d \in 1 .. l : \A y \in D[d] : a[l + 1][x] \cap a[d][y] \subseteq {NullRoot}
      /\ \A f \in frees : f.carrier \in D[l + 1] /\ f.site \in a[l + 1][f.carrier]
  BY DEF FlowExit
<1>2. Stack(env, l + 1, D, 1 .. n) /\ Named(env, l + 1, D, U) /\ Covered(env, a, l + 1, D, A)
  BY DEF EnvOK
<1>3. l + 1 \in 1 .. l + 1 /\ \A d \in 1 .. l : d \in 1 .. l + 1
  OBVIOUS
<1>4. \E f \in frees : r \in 1 .. n /\ (r \in U \/ Made(bs, r)) /\ A[r] \subseteq a[l + 1][f.carrier]
  <2>1. CASE r \in BirthRegs(frees)
    <3>1. PICK f \in frees : ByBirth(f) /\ r = siteReg[f.site].reg
      BY <2>1 DEF BirthRegs
    <3>2. f.site \in DOMAIN siteReg
      BY <3>1 DEF ByBirth
    <3>3. r \in 1 .. n /\ A[r] = {f.site} /\ Made(bs, r)
      BY <3>1, <3>2 DEF SitesOK
    <3>4. f.site \in a[l + 1][f.carrier]
      BY <1>1
    <3> QED BY <3>3, <3>4
  <2>2. CASE r \in CarrierRegs(frees)
    <3>1. PICK f \in frees : r = ReadVar(env, f.carrier)
      BY <2>2 DEF CarrierRegs
    <3>2. PICK x : x = f.carrier
      OBVIOUS
    <3>3. x \in D[l + 1]
      BY <3>2, <1>1
    <3>4. Inmost(D, l + 1, x, l + 1)
      BY <3>3, <1>3 DEF Inmost
    <3>5. l + 1 \in Nat
      OBVIOUS
    <3>6. ReadVar(env, x) = env[l + 1][x] /\ env[l + 1][x] \in 1 .. n
      BY <3>4, <3>5, <1>2, ReadIs
    <3>7. env[l + 1][x] \in U
      BY <3>3, <1>2, <1>3 DEF Named
    <3>8. A[env[l + 1][x]] \subseteq a[l + 1][x]
      BY <3>3, <1>2, <1>3 DEF Covered
    <3> QED BY <3>1, <3>2, <3>6, <3>7, <3>8
  <2> QED BY <2>1, <2>2
<1>5. PICK f \in frees : r \in 1 .. n /\ (r \in U \/ Made(bs, r)) /\ A[r] \subseteq a[l + 1][f.carrier]
  BY <1>4
<1>6. ASSUME NEW v \in Bindings(env, l, D)
      PROVE  A[v] \cap A[r] \subseteq {NullRoot}
  <2>1. PICK d \in 1 .. l : \E y \in D[d] : v = env[d][y]
    BY DEF Bindings
  <2>2. PICK y \in D[d] : v = env[d][y]
    BY <2>1
  <2>3. A[v] \subseteq a[d][y]
    BY <2>2, <1>2, <1>3 DEF Covered
  <2>4. f.carrier \in D[l + 1]
    BY <1>1
  <2>5. a[l + 1][f.carrier] \cap a[d][y] \subseteq {NullRoot}
    BY <2>4, <1>1
  <2> QED BY <2>3, <2>5, <1>5
<1> QED BY <1>5, <1>6 DEF ExitReg

(* Frees in a row. *)
FreesOf(rs) == [k \in DOMAIN rs |-> Free(rs[k])]
Released(bs, A, n, U, V, G, R) == (\A r \in R : ExitReg(bs, A, n, U, V, r)) /\ ("plain" \in G => R = {})

FreesTo(bs, A, H, n, G, here, V, instrs) ==
  \E W : Emitting(bs, A, H, n, G, here, A, n, instrs, W) /\ V \subseteq W[Len(instrs) + 1]

LEMMA FreesEmit ==
  ASSUME NEW bs, NEW A \in [Nat -> SUBSET Nat], NEW H, NEW n \in Nat, NEW G, NEW here,
         NEW U, U = HEnd(bs, H, here), U \subseteq 1 .. n, NEW V, V \subseteq U,
         NEW R, Released(bs, A, n, U, V, G, R),
         NEW m \in Nat, NEW rs, rs \in [1 .. m -> R], NEW instrs, instrs = FreesOf(rs)
  PROVE  FreesTo(bs, A, H, n, G, here, V, instrs)
<1>1. PICK W : W = [k \in Nat |-> IF k = 1 THEN U ELSE V]
  OBVIOUS
<1>2. U \in SUBSET Nat /\ V \in SUBSET Nat /\ V \subseteq 1 .. n
  OBVIOUS
<1>3. W \in [Nat -> SUBSET Nat]
  BY <1>1, <1>2
<1>4. \A k \in Nat : W[k] = U \/ W[k] = V
  BY <1>1
<1>5. W[1] = U /\ \A k \in Nat : k >= 1 => W[k + 1] = V
  BY <1>1
<1>13. (\A r \in R : ExitReg(bs, A, n, U, V, r)) /\ ("plain" \in G => R = {})
  BY DEF Released
<1>14. instrs = [k \in DOMAIN rs |-> Free(rs[k])]
  BY DEF FreesOf
<1>6. DOMAIN rs = 1 .. m /\ \A k \in 1 .. m : rs[k] \in R /\ rs[k] \in 1 .. n
  BY <1>13 DEF ExitReg
<1>7. \A k \in 1 .. m : instrs[k] = Free(rs[k])
  BY <1>6, <1>14
<1>8. \A k \in 1 .. m : Free(rs[k]) \in Instrs
  BY <1>6 DEF Free, Instrs
<1>9. instrs \in Seq(Instrs) /\ Len(instrs) = m
  <2>1. instrs \in [1 .. m -> Instrs]
    BY <1>6, <1>8, <1>14
  <2> QED BY <2>1
<1>10. ASSUME NEW k \in 1 .. m
       PROVE  /\ InstrOK(instrs[k], W[k], W[k + 1], A, n, G)
              /\ instrs[k].op = "free" => instrs[k].arg \in W[1] \/ Made(bs, instrs[k].arg)
  <2>1. PICK t, r : t = instrs[k] /\ r = rs[k]
    OBVIOUS
  <2>7. t = Free(r) /\ t \in Instrs
    BY <2>1, <1>7, <1>8
  <2>2. t.op = "free" /\ t.arg = r /\ t \in Instrs
    BY <2>7 DEF Free
  <2>3. r \in 1 .. n /\ (r \in U \/ Made(bs, r)) /\ \A v \in V : A[v] \cap A[r] \subseteq {NullRoot}
    BY <2>1, <1>6, <1>13 DEF ExitReg
  <2>4. W[k + 1] = V /\ V \subseteq W[k]
    <3>1. k \in Nat /\ k >= 1
      OBVIOUS
    <3> QED BY <3>1, <1>4, <1>5
  <2>5. "plain" \notin G
    BY <1>6, <1>13
  <2>6. InstrOK(t, W[k], W[k + 1], A, n, G)
    BY <2>2, <2>3, <2>4, <2>5 DEF InstrOK
  <2> QED BY <2>1, <2>2, <2>3, <2>6, <1>5
<1>11. Emitting(bs, A, H, n, G, here, A, n, instrs, W)
  <2>1. \A k \in 1 .. Len(instrs) + 1 : W[k] \subseteq 1 .. n
    <3>1. \A k \in 1 .. m + 1 : k \in Nat
      OBVIOUS
    <3> QED BY <3>1, <1>2, <1>4, <1>9
  <2>2. Extends(A, A, n) /\ n <= n
    BY DEF Extends
  <2> QED BY <2>1, <2>2, <1>3, <1>5, <1>9, <1>10 DEF Emitting
<1>12. V \subseteq W[Len(instrs) + 1]
  <2>1. m + 1 \in Nat
    OBVIOUS
  <2> QED BY <2>1, <1>4, <1>9
<1> QED BY <1>11, <1>12 DEF FreesTo

LEMMA LowerDoExitOK ==
  ASSUME NEW P, NEW N, NEW L, NEW h, NEW A, NEW H, LowerOK(P, N, L, h, A, H), LowerDoExit, UNCHANGED analysis
  PROVE  \E K : LowerOK(P, N, L, h, A, K)'
<1>1. At("end")
  BY DEF LowerDoExit, Ends
<1>2. PICK c, o, l, j, D, q, f, t : Here(L, c, o, l, D) /\ AtEnd(P, N, L, h, A, H, c, o, l, j, D, q, f, t)
  BY <1>1, EndStands
<1>3. pc <= N
  BY <1>1, EndStands
<1>4. /\ c \in 1 .. N /\ c \in Nat /\ l \in Nat /\ Program(P, N, L) /\ nregs \in Nat /\ Len(blocks) \in Nat
      /\ c = pc /\ o = c - 1 /\ l = L.lev[o] /\ D = L.dcl[o] /\ P[c].op = "end"
      /\ CodeOK(blocks, A, H, nregs, Manner(P, doExitFrees))
      /\ cur \in 1 .. Len(blocks) /\ cur \in Nat /\ blocks[cur].exit = <<>>
      /\ SitesOK(blocks, A, nregs, siteReg)
      /\ L.lev[c] = j /\ L.dcl[c] = D /\ q = L.opn[o][l]
      /\ FlowBlock(P, L, h, doExitFrees, o, c)
      /\ Closer(P, N, L, h, A, H, c, o, l, j, D, q, f, t)
  BY <1>2 DEF AtEnd
<1>5. /\ Closing(P, N, L, c, o, l, j, D, q)
      /\ f = Last(ctl) /\ f = ctl[l] /\ f.op = P[q].op
      /\ t = Front(env) /\ EnvOK(t, h[c], l, D, A, nregs, HEnd(blocks, H, cur)) /\ Same(env, t, l)
  BY <1>4 DEF Closer
<1>6. f.op = "do" /\ P[q].op = "do"
  BY <1>5 DEF LowerDoExit, Ends
<1>7. /\ EnvOK(env, h[c], l + 1, D, A, nregs, HEnd(blocks, H, cur))
      /\ CtlsOK(P, N, L, h, A, H, blocks, nregs, cur, env, o, l, ctl)
  BY <1>2, <1>3, LowerStands
<1>8. PICK bs, here, n, U, G, cs, e, a, b, V, frees, R, rs, instrs, last, sr :
          /\ bs = blocks /\ here = cur /\ n = nregs /\ U = HEnd(bs, H, here) /\ G = Manner(P, doExitFrees)
          /\ cs = blocks' /\ e = env' /\ a = h[c] /\ b = h[c + 1] /\ V = Bindings(env, l, D)
          /\ frees = doExitFrees[c] /\ R = BirthRegs(frees) \cup CarrierRegs(frees) /\ rs = ExitRegs(frees)
          /\ instrs = [k \in DOMAIN rs |-> Free(rs[k])] /\ last = Len(bs) /\ sr = siteReg
  OBVIOUS
<1>9. /\ CodeOK(bs, A, H, n, G) /\ here \in 1 .. Len(bs) /\ bs[here].exit = <<>> /\ SitesOK(bs, A, n, sr)
      /\ n \in Nat /\ last \in Nat /\ EnvOK(env, a, l + 1, D, A, n, U) /\ EnvOK(t, a, l, D, A, n, U)
  BY <1>4, <1>5, <1>7, <1>8
<1>10. Under(a, b, l, D) /\ FlowExit(D, l, a, frees)
  BY <1>4, <1>6, <1>8 DEF FlowBlock
<1>11. \A r \in R : ExitReg(bs, A, n, U, V, r)
  <2> SUFFICES ASSUME NEW r \in R PROVE ExitReg(bs, A, n, U, V, r)
    OBVIOUS
  <2>1. SitesOK(bs, A, n, siteReg)
    BY <1>8, <1>9
  <2> QED BY <2>1, <1>4, <1>8, <1>9, <1>10, ExitRegsOK
<1>28. "plain" \in G => R = {}
  <2>1. c \in DOMAIN doExitFrees
    BY <1>4, <1>6 DEF FlowBlock
  <2>2. "plain" \in G => frees = {}
    BY <2>1, <1>8, MannerIs DEF Plain
  <2>3. frees = {} => R = {}
    BY <1>8 DEF BirthRegs, CarrierRegs
  <2> QED
    BY <2>2, <2>3
<1>12. PICK m \in Nat : rs \in [1 .. m -> R]
  <2>1. R \subseteq 1 .. n
    BY <1>11 DEF ExitReg
  <2> QED BY <2>1, <1>8, <1>9, ExitRegsAre
<1>13. V \subseteq U /\ U \subseteq 1 .. n /\ A \in [Nat -> SUBSET Nat]
  <2>1. V \subseteq U
    <3>1. \A d \in 1 .. l : d \in 1 .. l + 1
      BY <1>4
    <3> QED BY <3>1, <1>8, <1>9 DEF Bindings, EnvOK, Named
  <2> QED BY <2>1, <1>8, <1>9, EndKnown
<1>14. PICK W : /\ Emitting(bs, A, H, n, G, here, A, n, instrs, W)
                /\ V \subseteq W[Len(instrs) + 1]
  <2>1. n \in Nat /\ U = HEnd(bs, H, here) /\ instrs = FreesOf(rs) /\ m \in Nat
    BY <1>8, <1>9, <1>12 DEF FreesOf
  <2>2. Released(bs, A, n, U, V, G, R)
    BY <1>11, <1>28 DEF Released
  <2>3. FreesTo(bs, A, H, n, G, here, V, instrs)
    BY ONLY <2>1, <2>2, <1>12, <1>13, FreesEmit
  <2> QED BY <2>3 DEF FreesTo
<1>15. cs = CodeAdded(bs, here, instrs)
  BY <1>4, <1>8 DEF LowerDoExit, Emitted, CodeAdded
<1>16. SitesGrow(sr, sr, instrs, A, n)
  BY DEF SitesGrow
<1>17. PICK K : EmitsTo(bs, cs, H, K, here, A, n, G, last, W[Len(instrs) + 1], sr)
  BY <1>9, <1>14, <1>15, <1>16, EmitIs
<1>18. /\ CodeOK(cs, A, K, n, G) /\ Settled(bs, cs, H, K, here, last)
       /\ HEnd(cs, K, here) = W[Len(instrs) + 1]
       /\ Len(cs) = Len(bs) /\ cs[here].exit = <<>>
       /\ SitesOK(cs, A, n, sr)
  BY <1>17 DEF EmitsTo
<1>19. Finished(bs, cs, H, K, here, A, n, G, last, sr)
  BY <1>8, <1>9, <1>18 DEF Finished
<1>20. e = t /\ n = nregs' /\ here = cur' /\ siteReg' = siteReg /\ Advance
       /\ depth' = depth /\ ctl' = Front(ctl)
  BY <1>5, <1>8 DEF LowerDoExit
<1>21. EnvOK(e, b, l, D, A, n, HEnd(cs, K, here))
  <2>1. Covered(t, b, l, D, A)
    <3>1. Covered(t, a, l, D, A)
      BY <1>9 DEF EnvOK
    <3> QED BY <3>1, <1>10 DEF Covered, Under
  <2>2. Named(t, l, D, V)
    <3> SUFFICES ASSUME NEW d \in 1 .. l, NEW x \in D[d] PROVE t[d][x] \in V
      BY DEF Named
    <3>1. Stack(t, l, D, 1 .. n)
      BY <1>9 DEF EnvOK
    <3>2. t[d][x] \in 1 .. n
      BY <3>1 DEF Stack
    <3>3. t[d] = env[d]
      BY <1>5 DEF Same
    <3>4. t[d][x] \in Nat
      BY <3>2
    <3> QED BY <3>3, <3>4, <1>8 DEF Bindings
  <2>3. Named(t, l, D, HEnd(cs, K, here))
    BY <2>2, <1>14, <1>18 DEF Named
  <2> QED BY <2>1, <2>3, <1>9, <1>20 DEF EnvOK
<1>22. Outer(P, N, L, o, j, D, env, e)
  <2>1. j \in Nat /\ l = j + 1
    BY <1>5 DEF Closing
  <2>2. Same(env, e, j + 1)
    BY <2>1, <1>5, <1>20
  <2> QED BY <2>1, <2>2, SameRewrites
<1>23. Shut2(P, N, L, h, c, l, A, K, cs, n, here, e)
  BY <1>4, <1>8, <1>9, <1>18, <1>21 DEF Shut2
<1>24. Below(ctl, j, last)
  <2> SUFFICES ASSUME NEW k \in 1 .. j, ctl[k].op # "do" PROVE ctl[k].first + 2 <= last
    BY DEF Below
  <2>1. k \in 1 .. l
    BY <1>5 DEF Closing
  <2> QED BY <2>1, <1>7, <1>8, FirstsEnd
<1>25. Finished(blocks, cs, H, K, cur, A, n, Manner(P, doExitFrees), last, siteReg)
  BY <1>8, <1>19
<1>26. /\ cs = blocks' /\ e = env' /\ nregs <= n /\ Extends(A, A, nregs) /\ (here = cur \/ here > last)
       /\ depth' = IF ctl[l].op # "do" THEN depth - 1 ELSE depth
  BY <1>5, <1>6, <1>8, <1>9, <1>20 DEF Extends
<1>27. LowerOK(P, N, L, h, A, K)'
  <2>1. /\ LowerOK(P, N, L, h, A, H) /\ UNCHANGED analysis /\ pc <= N
        /\ Here(L, c, o, l, D) /\ P[c].op = "end" /\ Closing(P, N, L, c, o, l, j, D, q)
    BY <1>2, <1>3, <1>4, <1>5
  <2>2. Advance /\ ctl' = Front(ctl) /\ n = nregs' /\ here = cur' /\ siteReg' = siteReg
    BY <1>20
  <2>3. n \in Nat /\ last \in Nat
    BY <1>9
  <2> QED BY ONLY <2>1, <2>2, <2>3, <1>22, <1>23, <1>24, <1>25, <1>26, LowerShuts
<1> QED BY <1>27
-----------------------------------------------------------------------------
(* The lowerer, from its first block to the end of the program. *)

(* Before anything is lowered there is one empty block. *)
LEMMA FirstCode ==
  ASSUME NEW G, NEW A, A = [r \in Nat |-> {}], NEW H, H = [b \in Nat |-> [i \in Nat |-> {}]],
         NEW bs, bs = <<NewBlock>>
  PROVE  CodeOK(bs, A, H, 0, G) /\ Len(bs) = 1 /\ bs[1].exit = <<>>
<1>1. Len(bs) = 1 /\ bs[1] = NewBlock /\ bs \in Seq({NewBlock})
  OBVIOUS
<1>2. IsBlock(NewBlock) /\ Blank(NewBlock)
  BY NewBlockIs
<1>3. bs[1].code = <<>> /\ bs[1].exit = <<>> /\ DOMAIN bs[1].phis = {}
  BY <1>1, <1>2 DEF Blank
<1>4. BlocksOK(bs)
  <2>1. \A b \in 1 .. Len(bs) : b = 1
    BY <1>1
  <2>2. \A b \in 1 .. Len(bs) : IsBlock(bs[b])
    BY <2>1, <1>1, <1>2
  <2>3. \E T : bs \in Seq(T)
    BY <1>1
  <2> QED BY <2>2, <2>3 DEF BlocksOK
<1>5. KnownOK(bs, H, 0)
  <2>1. H \in [Nat -> [Nat -> SUBSET Nat]]
    OBVIOUS
  <2>2. \A b \in Nat, i \in Nat : H[b][i] = {}
    OBVIOUS
  <2>3. Len(bs[1].code) + 1 = 1
    BY <1>3
  <2>4. \A b \in 1 .. Len(bs) : \A i \in 1 .. Len(bs[b].code) + 1 : H[b][i] \subseteq 1 .. 0
    BY <1>1, <2>2, <2>3
  <2> QED
    BY <2>1, <2>2, <2>4 DEF KnownOK
<1>6. \A b \in 1 .. Len(bs) : InstrsOK(bs, b, A, H, 0, G)
  BY <1>1, <1>3 DEF InstrsOK
<1>7. \A b \in 1 .. Len(bs) : PhisOK(bs, b, 0)
  BY <1>1, <1>3 DEF PhisOK
<1>8. \A b \in 1 .. Len(bs) : ExitOK(bs, b, A, H)
  <2>1. \A b \in 1 .. Len(bs) : b = 1
    BY <1>1
  <2>2. ToSet(bs[1].exit) = {}
    BY <1>3, ExitSets
  <2> QED BY <2>1, <2>2 DEF ExitOK
<1>9. A \in [Nat -> SUBSET Nat] /\ 0 \in Nat
  OBVIOUS
<1> QED
  BY <1>1, <1>3, <1>4, <1>5, <1>6, <1>7, <1>8, <1>9 DEF CodeOK

(* And no name. *)
LEMMA FirstEnv ==
  ASSUME NEW a, NEW D, D[1] = {}, NEW A, NEW U, NEW e, e = <<[x \in {} |-> 0]>>
  PROVE  EnvOK(e, a, 1, D, A, 0, U)
<1>1. Len(e) = 1 /\ e \in Seq({[x \in {} |-> 0]}) /\ e[1] = [x \in {} |-> 0]
  OBVIOUS
<1>2. e[1] \in [D[1] -> 1 .. 0]
  BY <1>1
<1>3. \A d \in 1 .. 1 : d = 1
  OBVIOUS
<1>4. Stack(e, 1, D, 1 .. 0)
  BY <1>1, <1>2, <1>3 DEF Stack
<1>5. Covered(e, a, 1, D, A) /\ Named(e, 1, D, U)
  BY <1>3 DEF Covered, Named
<1> QED
  BY <1>4, <1>5 DEF EnvOK

(* The lowerer of an accepted program is sound where it starts. *)
LEMMA LowerStarts ==
  ASSUME NEW P, NEW N, NEW L, NEW h, Accepted(P, N, L, h), InitLower
  PROVE  \E A, H : LowerOK(P, N, L, h, A, H)
<1> DEFINE A == [r \in Nat |-> {}]
<1> DEFINE H == [b \in Nat |-> [i \in Nat |-> {}]]
<1>1. phase = "lower" /\ pc = 1 /\ WalkedTo(P, N, L, h, N + 1)
  BY DEF Accepted
<1>2. N \in Nat /\ Layout(P, L)
  BY <1>1 DEF WalkedTo, Program
<1>3. L.lev[0] = 0 /\ L.dcl[0][1] = {}
  BY <1>2 DEF Layout
<1>4. blocks = <<NewBlock>> /\ cur = 1 /\ nregs = 0 /\ env = <<[x \in {} |-> 0]>> /\ depth = 0 /\ ctl = <<>>
  BY DEF InitLower
<1>5. DOMAIN siteReg = {}
  BY DEF InitLower
<1>6. CodeOK(blocks, A, H, nregs, Manner(P, doExitFrees)) /\ Len(blocks) = 1 /\ blocks[cur].exit = <<>>
  BY <1>4, FirstCode
<1>7. pc - 1 = 0 /\ L.lev[pc - 1] + 1 = 1 /\ pc \in 1 .. N + 1
  BY <1>1, <1>2, <1>3
<1>8. EnvOK(env, h[pc], 1, L.dcl[0], A, 0, HEnd(blocks, H, cur))
  BY <1>3, <1>4, FirstEnv
<1>9. SitesOK(blocks, A, nregs, siteReg)
  BY <1>5 DEF SitesOK
<1>10. ctl \in Seq({}) /\ Len(ctl) = 0
  BY <1>4
<1>11. CtlsOK(P, N, L, h, A, H, blocks, nregs, cur, env, pc - 1, Len(ctl), ctl)
  BY <1>10 DEF CtlsOK
<1>12. FirstsOK(ctl)
  BY <1>10 DEF FirstsOK
<1>13. Deep(ctl) = 0
  <2>1. {k \in 1 .. Len(ctl) : ctl[k].op # "do"} = {}
    BY <1>10
  <2> QED
    BY <2>1, FS_EmptySet DEF Deep
<1>14. cur \in 1 .. Len(blocks)
  BY <1>4, <1>6
<1>15. EnvOK(env, h[pc], L.lev[pc - 1] + 1, L.dcl[pc - 1], A, nregs, HEnd(blocks, H, cur))
  BY <1>4, <1>7, <1>8
<1>16. \E S : ctl \in Seq(S)
  BY <1>10
<1>17. Len(ctl) = L.lev[pc - 1] /\ depth = Deep(ctl)
  BY <1>3, <1>4, <1>7, <1>10, <1>13
<1> HIDE DEF A, H
<1>18. LowerOK(P, N, L, h, A, H)
  BY <1>1, <1>6, <1>7, <1>9, <1>11, <1>12, <1>14, <1>15, <1>16, <1>17 DEF LowerOK
<1> QED
  BY <1>18

(* The program that was lowered is about to run. *)
LEMMA LowerDoneOK ==
  ASSUME NEW P, NEW N, NEW L, NEW h, NEW A, NEW H, LowerOK(P, N, L, h, A, H), LowerDone, UNCHANGED analysis,
         at = 1, ip = 1, regs = <<>>, heap = <<>>, UNCHANGED machine
  PROVE  RunOK(A, H)'
<1>1. phase' = "run" /\ UNCHANGED <<source, analysis, lowering>>
  BY DEF LowerDone
<1>2. prog' = prog /\ blocks' = blocks /\ nregs' = nregs /\ doExitFrees' = doExitFrees
  BY <1>1 DEF source, analysis, lowering
<1>3. at' = 1 /\ ip' = 1 /\ regs' = <<>> /\ heap' = <<>>
  BY DEF machine
<1>4. prog = P
  BY DEF LowerOK, WalkedTo
<1>5. CodeOK(blocks, A, H, nregs, Manner(prog, doExitFrees)) /\ cur \in 1 .. Len(blocks)
  BY <1>4 DEF LowerOK
<1>6. Len(blocks) \in Nat /\ H[1][1] = {}
  BY <1>5 DEF CodeOK, BlocksOK, KnownOK
<1>7. 1 \in 1 .. Len(blocks)
  BY <1>5, <1>6
<1>8. Len(blocks[1].code) \in Nat
  BY <1>5, <1>7 DEF CodeOK, BlocksOK, IsBlock
<1> DEFINE G == Manner(prog, doExitFrees)
<1>9. MachineOK(blocks, A, H, nregs, G, 1, 1, <<>>, <<>>)
  <2> DEFINE e == <<>>
  <2>1. DOMAIN e = {} /\ e \in Seq(Tables) /\ Len(e) = 0
    OBVIOUS
  <2>2. 1 \in 1 .. Len(blocks[1].code) + 1
    BY <1>8
  <2>3. \A j \in 1 .. 1 : H[1][j] \subseteq DOMAIN e
    <3>1. \A j \in 1 .. 1 : j = 1
      OBVIOUS
    <3> QED
      BY <1>6, <3>1
  <2>4. LiveIn(H[1][1], e, e)
    BY <1>6 DEF LiveIn
  <2> HIDE DEF e, G
  <2>5. MachineOK(blocks, A, H, nregs, G, 1, 1, e, e)
    BY <1>7, <2>1, <2>2, <2>3, <2>4 DEF MachineOK
  <2> QED
    BY <2>5 DEF e
<1> HIDE DEF G
<1>10. CodeOK(blocks, A, H, nregs, G)
  BY <1>5 DEF G
<1>11. Manner(prog, doExitFrees)' = G
  BY <1>2 DEF G
<1>12. CodeOK(blocks', A, H, nregs', Manner(prog, doExitFrees)') /\ MachineOK(blocks', A, H, nregs', Manner(prog, doExitFrees)', at', ip', regs', heap')
  BY <1>2, <1>3, <1>9, <1>10, <1>11
<1> QED
  BY <1>1, <1>12 DEF RunOK

(* Every statement of the lowerer keeps its code sound. *)
LEMMA LowerStep ==
  ASSUME NEW P, NEW N, NEW L, NEW h, NEW A, NEW H, LowerOK(P, N, L, h, A, H), Lower
  PROVE  LowerDone \/ (\E B, K : LowerOK(P, N, L, h, B, K)')
<1>1. UNCHANGED analysis
  BY DEF Lower
<1>2. CASE LowerLocal
  BY <1>1, <1>2, LowerLocalOK
<1>3. CASE LowerAssign
  BY <1>1, <1>3, LowerAssignOK
<1>4. CASE LowerDrop
  BY <1>1, <1>4, LowerDropOK
<1>5. CASE LowerUse
  BY <1>1, <1>5, LowerUseOK
<1>6. CASE LowerIf
  BY <1>1, <1>6, LowerIfOK
<1>7. CASE LowerElse
  BY <1>1, <1>7, LowerElseOK
<1>8. CASE LowerEndIf
  BY <1>1, <1>8, LowerEndIfOK
<1>9. CASE LowerWhile
  BY <1>1, <1>9, LowerWhileOK
<1>10. CASE LowerLatch
  BY <1>1, <1>10, LowerLatchOK
<1>11. CASE LowerDo
  BY <1>1, <1>11, LowerDoOK
<1>12. CASE LowerDoExit
  BY <1>1, <1>12, LowerDoExitOK
<1>13. CASE LowerDone
  BY <1>13
<1> QED
  BY <1>2, <1>3, <1>4, <1>5, <1>6, <1>7, <1>8, <1>9, <1>10, <1>11, <1>12, <1>13 DEF Lower

-----------------------------------------------------------------------------
(* The whole life of a program: read, walked, lowered and run.               *)

Idle == at = 1 /\ ip = 1 /\ regs = <<>> /\ heap = <<>>
Bounds == /\ pc \in 1 .. Len(prog) + 1
          /\ freeSites \subseteq DOMAIN prog /\ freedSites \subseteq DOMAIN prog
          /\ cur \in DOMAIN blocks

(* The lowerer is about to start, or has come to token pc. *)
LowerFrom(P, N, L, h) ==
  \/ Accepted(P, N, L, h) /\ InitLower
  \/ \E A, H : LowerOK(P, N, L, h, A, H)

Stage ==
  \/ phase = "read" /\ Fresh /\ (\E L : Reading(L)) /\ InitLower /\ Idle
  \/ phase = "walk" /\ (\E P, N, L, h : WalkOK(P, N, L, h)) /\ InitLower /\ Idle
  \/ phase = "rejected" /\ Bounds /\ InitLower /\ Idle
  \/ phase = "lower" /\ (\E P, N, L, h : LowerFrom(P, N, L, h)) /\ Idle
  \/ (\E A, H : RunOK(A, H)) /\ Bounds

(* What is left of the family's tokens never runs out. *)
LEMMA DebtIs ==
  ASSUME NEW P, NEW L, NEW bs, Laid(P, L), ReaderIn(P, Len(P), L, bs)
  PROVE  Debt(bs) \in Nat
<1>1. L \in Layouts /\ Len(P) \in Nat
  BY DEF Laid, Layout
<1>2. PICK l : l = L.lev[Len(P)]
  OBVIOUS
<1>3. l \in Nat
  BY <1>1, <1>2, LayoutTypes
<1>4. Len(bs) = l + 1 /\ bs \in Seq(Opened1)
  BY <1>2 DEF ReaderIn, Fits
<1>5. DOMAIN bs = 1 .. l + 1
  BY <1>3, <1>4
<1>6. PICK S : S = {d \in DOMAIN bs : bs[d].op = "if"}
  OBVIOUS
<1>7. IsFiniteSet(1 .. l + 1) /\ S \in SUBSET (1 .. l + 1)
  BY <1>3, <1>5, <1>6, FS_Interval
<1>8. Cardinality(S) \in Nat
  BY <1>7, FS_Subset, FS_CardinalityType
<1>9. Debt(bs) = Len(bs) - 1 + Cardinality(S)
  BY <1>6 DEF Debt
<1> QED BY <1>3, <1>4, <1>8, <1>9

LEMMA RoomStarts ==
  ASSUME Init
  PROVE  room \in Nat
BY ProgramAssumption DEF Init, InitProgram

LEMMA RoomStays ==
  ASSUME room \in Nat, Stage', Read
  PROVE  room' \in Nat
<1>1. CASE UNCHANGED source
  BY <1>1 DEF source
<1>2. CASE \E t, blks : Write(t, blks)
  <2>1. PICK t, blks : Write(t, blks)
    BY <1>2
  <2>2. 1 + Debt(blks) <= room /\ room' = room - 1 /\ open' = blks /\ phase' = "read"
    BY <2>1 DEF Write
  <2>3. PICK L : Reading(L)'
    BY <2>2 DEF Stage, RunOK
  <2>4. Laid(prog', L) /\ ReaderIn(prog', Len(prog'), L, open')
    BY <2>3 DEF Reading
  <2>5. Debt(blks) \in Nat
    BY <2>2, <2>4, DebtIs
  <2> QED BY <2>2, <2>5
<1> QED BY <1>1, <1>2 DEF Read, ReadStmt, ReadOpening, ReadElse, ReadEnd, ReadFile

LEMMA StageStarts ==
  ASSUME Init
  PROVE  Stage
BY ReadingStarts DEF Stage, Init, Idle

LEMMA FirstBlock ==
  ASSUME InitLower
  PROVE  cur = 1 /\ DOMAIN blocks = 1 .. 1
BY DEF InitLower

(* The walk and the lowerer stay within the program. *)
LEMMA WalkBounds ==
  ASSUME NEW P, NEW N, NEW L, NEW h, NEW c, WalkedTo(P, N, L, h, c)
  PROVE  /\ N \in Nat /\ Len(prog) = N /\ DOMAIN prog = 1 .. N /\ c \in 1 .. N + 1
         /\ freeSites \subseteq DOMAIN prog /\ freedSites \subseteq DOMAIN prog
<1>1. N \in Nat /\ Len(P) = N /\ (\E T : P \in Seq(T)) /\ prog = P
  BY DEF WalkedTo, Program
<1>2. DOMAIN P = 1 .. N
  BY <1>1
<1> QED BY <1>1, <1>2 DEF WalkedTo

LEMMA LowerBounds ==
  ASSUME NEW P, NEW N, NEW L, NEW h, NEW A, NEW H, LowerOK(P, N, L, h, A, H)
  PROVE  Bounds
<1>1. WalkedTo(P, N, L, h, N + 1) /\ pc \in 1 .. N + 1 /\ cur \in 1 .. Len(blocks)
      /\ CodeOK(blocks, A, H, nregs, Manner(P, doExitFrees))
  BY DEF LowerOK
<1>2. \E T : blocks \in Seq(T)
  BY <1>1 DEF CodeOK, BlocksOK
<1>3. cur \in DOMAIN blocks
  BY <1>1, <1>2
<1> QED BY <1>1, <1>3, WalkBounds DEF Bounds

LEMMA StageReads ==
  ASSUME Stage, Read, UNCHANGED <<analysis, lowering, machine>>
  PROVE  Stage'
<1>1. phase = "read"
  BY DEF Read, ReadStmt, ReadOpening, ReadElse, ReadEnd, ReadFile, Write
<1>2. Fresh /\ InitLower /\ Idle /\ \E L : Reading(L)
  BY <1>1 DEF Stage, RunOK
<1>3. PICK L : Reading(L)
  BY <1>2
<1>4. \/ phase' = "read" /\ Fresh' /\ \E M : Reading(M)'
      \/ phase' = "walk" /\ \E P, N, h : WalkOK(P, N, L, h)'
  <2>1. UNCHANGED analysis
    OBVIOUS
  <2> QED BY <2>1, <1>2, <1>3, WalkStarts
<1>5. InitLower' /\ Idle'
  BY <1>2 DEF InitLower, Idle, lowering, machine
<1> QED BY <1>4, <1>5 DEF Stage

LEMMA StageWalks ==
  ASSUME Stage, Walk, UNCHANGED <<lowering, machine>>
  PROVE  Stage'
<1>1. phase = "walk"
  BY DEF Walk
<1>2. InitLower /\ Idle /\ \E P, N, L, h : WalkOK(P, N, L, h)
  BY <1>1 DEF Stage, RunOK
<1>3. PICK P, N, L, h : WalkOK(P, N, L, h)
  BY <1>2
<1>4. InitLower' /\ Idle'
  BY <1>2 DEF InitLower, Idle, lowering, machine
<1>5. CASE phase' = "walk" /\ \E g : WalkOK(P, N, L, g)'
  BY <1>4, <1>5 DEF Stage
<1>6. CASE Refused
  <2>1. WalkedTo(P, N, L, h, pc)
    BY <1>3 DEF WalkOK
  <2>2. pc \in 1 .. Len(prog) + 1 /\ freeSites \subseteq DOMAIN prog /\ freedSites \subseteq DOMAIN prog
    BY <2>1, WalkBounds
  <2>3. phase' = "rejected" /\ UNCHANGED <<source, pc, analysis, lowering>>
    BY <1>6 DEF Refused
  <2>4. cur' \in DOMAIN blocks'
    BY <1>2, <2>3, FirstBlock DEF lowering
  <2>5. Bounds'
    BY <2>2, <2>3, <2>4 DEF Bounds, source, analysis
  <2> QED BY <1>4, <2>3, <2>5 DEF Stage
<1>7. CASE Accepted(P, N, L, h)'
  <2>1. LowerFrom(P, N, L, h)' /\ phase' = "lower"
    BY <1>4, <1>7 DEF LowerFrom, Accepted
  <2> QED BY <1>4, <2>1 DEF Stage
<1> QED BY <1>3, <1>5, <1>6, <1>7, WalkStep

LEMMA StageLowers ==
  ASSUME Stage, Lower, UNCHANGED machine
  PROVE  Stage'
<1>1. phase = "lower" /\ UNCHANGED analysis
  BY DEF Lower
<1>2. Idle /\ \E P, N, L, h : LowerFrom(P, N, L, h)
  BY <1>1 DEF Stage, RunOK
<1>3. PICK P, N, L, h : LowerFrom(P, N, L, h)
  BY <1>2
<1>4. PICK A, H : LowerOK(P, N, L, h, A, H)
  BY <1>3, LowerStarts DEF LowerFrom
<1>5. Idle'
  BY <1>2 DEF Idle, machine
<1>6. CASE LowerDone
  <2>1. at = 1 /\ ip = 1 /\ regs = <<>> /\ heap = <<>>
    BY <1>2 DEF Idle
  <2>2. RunOK(A, H)'
    BY <2>1, <1>1, <1>4, <1>6, LowerDoneOK
  <2>3. Bounds /\ UNCHANGED <<source, pc, analysis, lowering>>
    BY <1>1, <1>4, <1>6, LowerBounds DEF LowerDone
  <2>4. Bounds'
    BY <2>3 DEF Bounds, source, analysis, lowering
  <2> QED BY <2>2, <2>4 DEF Stage
<1>7. CASE \E B, K : LowerOK(P, N, L, h, B, K)'
  <2>1. LowerFrom(P, N, L, h)'
    BY <1>7 DEF LowerFrom
  <2>2. phase' = "lower"
    BY <1>7 DEF LowerOK
  <2> QED BY <1>5, <2>1, <2>2 DEF Stage
<1> QED BY <1>4, <1>6, <1>7, LowerStep

LEMMA StageRuns ==
  ASSUME Stage, Run
  PROVE  Stage'
<1>1. phase = "run" /\ UNCHANGED <<source, pc, analysis, lowering>>
  BY DEF Run, ExecNew, ExecNull, ExecMove, ExecFree, ExecUse, Jump, Branch, Halt, Exec, HasInstr, AtExit
<1>2. Bounds /\ \E A, H : RunOK(A, H)
  BY <1>1 DEF Stage
<1>3. PICK A, H : RunOK(A, H)
  BY <1>2
<1>4. RunOK(A, H)'
  BY <1>3, RunStep
<1>5. Bounds'
  BY <1>1, <1>2 DEF Bounds, source, analysis, lowering
<1> QED BY <1>4, <1>5 DEF Stage

LEMMA StageStays ==
  ASSUME Stage, UNCHANGED vars
  PROVE  Stage'
<1>1. UNCHANGED <<source, phase, pc, analysis, lowering, machine>>
  BY DEF vars
<1>2. /\ UNCHANGED <<prog, open, left, room, phase, pc, scopes, frames, freeSites, freedSites, doExitFrees>>
      /\ UNCHANGED <<blocks, cur, nregs, env, siteReg, depth, ctl, at, ip, regs, heap>>
  BY <1>1 DEF source, analysis, lowering, machine
<1>3. Bounds' = Bounds /\ Idle' = Idle /\ InitLower' = InitLower /\ Fresh' = Fresh
  BY <1>2 DEF Bounds, Idle, InitLower, Fresh, InitWalk
<1>4. \A L : Reading(L) => Reading(L)'
  BY <1>2 DEF Reading
<1>5. \A P, N, L, h, c : WalkedTo(P, N, L, h, c) => WalkedTo(P, N, L, h, c)'
  BY <1>2 DEF WalkedTo
<1>6. \A P, N, L, h : WalkOK(P, N, L, h) => WalkOK(P, N, L, h)'
  BY <1>2, <1>5 DEF WalkOK
<1>7. \A P, N, L, h, A, H : LowerOK(P, N, L, h, A, H) => LowerOK(P, N, L, h, A, H)'
  BY <1>2, <1>5 DEF LowerOK
<1>8. \A A, H : RunOK(A, H) => RunOK(A, H)'
  BY <1>2 DEF RunOK
<1>9. \A P, N, L, h : LowerFrom(P, N, L, h) => LowerFrom(P, N, L, h)'
  BY <1>2, <1>3, <1>5, <1>7 DEF LowerFrom, Accepted
<1> QED BY <1>2, <1>3, <1>4, <1>6, <1>8, <1>9 DEF Stage

(* Wherever a program has come to, what the passes and the machine keep is        *)
(* consistent.                                                              *)
IInv == room \in Nat /\ Stage

(* The inductive invariant: the tokens read so far are a layout of blocks and a     *)
(* debt the room covers, the walk's scopes and frames follow it, and the lowerer's    *)
(* blocks and the machine stay sound code for what the walk found (read, walk_stmt,  *)
(* lower_stmt and the emitted program).                                     *)
THEOREM OwnershipInductive == Spec => []IInv
<1>1. Init => IInv
  BY RoomStarts, StageStarts DEF IInv
<1>2. IInv /\ [Next]_vars => IInv'
  <2> SUFFICES ASSUME IInv, [Next]_vars PROVE IInv'
    OBVIOUS
  <2>1. CASE Read /\ UNCHANGED <<analysis, lowering>> /\ UNCHANGED machine
    <3>1. Stage'
      BY <2>1, StageReads DEF IInv
    <3> QED BY <2>1, <3>1, RoomStays DEF IInv
  <2>2. CASE Walk /\ UNCHANGED lowering /\ UNCHANGED machine
    <3>1. Stage'
      BY <2>2, StageWalks DEF IInv
    <3>2. UNCHANGED room
      BY <2>2 DEF source, Walk, WalkLocal, WalkAssign, WalkDrop, WalkUse, WalkIf, WalkElse, WalkEndIf,
                  WalkWhile, WalkLatch, WalkDo, WalkDoExit, WalkDone, Advance, Reject
    <3> QED BY <3>1, <3>2 DEF IInv
  <2>3. CASE Lower /\ UNCHANGED machine
    <3>1. Stage'
      BY <2>3, StageLowers DEF IInv
    <3>2. UNCHANGED room
      BY <2>3 DEF source, Lower, LowerLocal, LowerAssign, LowerDrop, LowerUse, LowerIf, LowerElse, LowerEndIf,
                  LowerWhile, LowerLatch, LowerDo, LowerDoExit, LowerDone, Advance
    <3> QED BY <3>1, <3>2 DEF IInv
  <2>4. CASE Run
    <3>1. Stage'
      BY <2>4, StageRuns DEF IInv
    <3>2. UNCHANGED room
      BY <2>4 DEF source, Run
    <3> QED BY <3>1, <3>2 DEF IInv
  <2>5. CASE UNCHANGED vars
    <3>1. Stage'
      BY <2>5, StageStays DEF IInv
    <3>2. UNCHANGED room
      BY <2>5 DEF source, vars
    <3> QED BY <3>1, <3>2 DEF IInv
  <2> QED BY <2>1, <2>2, <2>3, <2>4, <2>5 DEF Next, Compile
<1> QED BY <1>1, <1>2, PTL DEF Spec

(* Scopes, registers and frames stay in step with the blocks that are open. *)
LEMMA WalkTypes ==
  ASSUME NEW P, NEW N, NEW L, NEW h, WalkOK(P, N, L, h)
  PROVE  Len(scopes) = Len(frames) + 1 /\ pc \in 1 .. Len(prog) + 1
         /\ freeSites \subseteq DOMAIN prog /\ freedSites \subseteq DOMAIN prog
<1>1. WalkedTo(P, N, L, h, pc) /\ h[pc] = scopes /\ FramesOK(P, L, N, h, frames, pc - 1)
  BY DEF WalkOK
<1>2. pc \in 1 .. N + 1 /\ N \in Nat /\ Len(prog) = N
      /\ freeSites \subseteq DOMAIN prog /\ freedSites \subseteq DOMAIN prog
  BY <1>1, WalkBounds
<1>3. \A p \in 1 .. pc : ShapedAt(L, N, p - 1, h[p])
  BY <1>1 DEF WalkedTo
<1>4. ShapedAt(L, N, pc - 1, scopes)
  BY <1>1, <1>2, <1>3
<1>5. Len(scopes) = L.lev[pc - 1] + 1
  BY <1>4 DEF ShapedAt, Stack
<1>6. Len(frames) = L.lev[pc - 1]
  BY <1>1 DEF FramesOK
<1> QED BY <1>2, <1>5, <1>6

LEMMA LowerTypes ==
  ASSUME NEW P, NEW N, NEW L, NEW h, NEW A, NEW H, LowerOK(P, N, L, h, A, H)
  PROVE  Len(env) = Len(ctl) + 1 /\ depth \in 0 .. Len(ctl) /\ 1 \in DOMAIN blocks
<1>1. /\ EnvOK(env, h[pc], L.lev[pc - 1] + 1, L.dcl[pc - 1], A, nregs, HEnd(blocks, H, cur))
      /\ Len(ctl) = L.lev[pc - 1] /\ (\E S : ctl \in Seq(S)) /\ depth = Deep(ctl)
      /\ CodeOK(blocks, A, H, nregs, Manner(P, doExitFrees)) /\ cur \in 1 .. Len(blocks)
  BY DEF LowerOK
<1>2. Len(env) = Len(ctl) + 1
  BY <1>1 DEF EnvOK, Stack
<1>3. Len(ctl) \in Nat
  BY <1>1
<1>4. PICK l, S : l = Len(ctl) /\ S = {k \in 1 .. Len(ctl) : ctl[k].op # "do"}
  OBVIOUS
<1>5. l \in Nat /\ S \in SUBSET (1 .. l) /\ depth = Cardinality(S)
  BY <1>1, <1>3, <1>4 DEF Deep
<1>6. IsFiniteSet(1 .. l) /\ Cardinality(1 .. l) = l
  <2>1. IsFiniteSet(1 .. l) /\ Cardinality(1 .. l) = IF 1 > l THEN 0 ELSE l - 1 + 1
    BY <1>5, FS_Interval
  <2> QED BY <2>1, <1>5
<1>7. Cardinality(S) \in Nat /\ Cardinality(S) <= l
  BY <1>5, <1>6, FS_Subset, FS_CardinalityType
<1>8. depth \in 0 .. Len(ctl)
  BY <1>4, <1>5, <1>7
<1>9. \E T : blocks \in Seq(T)
  BY <1>1 DEF CodeOK, BlocksOK
<1>10. 1 \in DOMAIN blocks
  BY <1>1, <1>9
<1> QED BY <1>2, <1>8, <1>10

LEMMA RunTypes ==
  ASSUME NEW A, NEW H, RunOK(A, H)
  PROVE  /\ at \in DOMAIN blocks /\ DOMAIN regs \subseteq 1 .. nregs
         /\ \A r \in DOMAIN regs : regs[r] \in {Undefined, 0} \cup DOMAIN heap
<1>1. /\ at \in 1 .. Len(blocks) /\ DOMAIN regs \subseteq 1 .. nregs /\ heap \in Seq(Tables)
      /\ \A r \in DOMAIN regs : HoldsOK(r, regs[r], A, heap)
      /\ \E T : blocks \in Seq(T)
  BY DEF RunOK, MachineOK, CodeOK, BlocksOK
<1>2. at \in DOMAIN blocks /\ DOMAIN heap = 1 .. Len(heap) /\ Len(heap) \in Nat
  BY <1>1
<1>3. ASSUME NEW r \in DOMAIN regs PROVE regs[r] \in {Undefined, 0} \cup DOMAIN heap
  <2>1. regs[r] \in 0 .. Len(heap)
    BY <1>1 DEF HoldsOK
  <2> QED BY <2>1, <1>2
<1> QED BY <1>1, <1>2, <1>3

(* The types of every variable, in every phase (TypeOK of the ownership runs), for *)
(* programs of any length: the walk's scopes and frames and the lowerer's scopes    *)
(* and nesting agree, every site freed is a statement, every register holds a       *)
(* table that was made.                                                      *)
THEOREM OwnershipTypeCorrect == Spec => []TypeOK
<1>1. IInv => TypeOK
  <2> SUFFICES ASSUME IInv PROVE TypeOK
    OBVIOUS
  <2>1. room \in Nat /\ Stage
    BY DEF IInv
  <2>2. ASSUME Idle, 1 \in DOMAIN blocks
        PROVE  /\ at \in DOMAIN blocks /\ DOMAIN regs \subseteq 1 .. nregs
               /\ \A r \in DOMAIN regs : regs[r] \in {Undefined, 0} \cup DOMAIN heap
    BY <2>2 DEF Idle
  <2>3. InitLower => cur \in DOMAIN blocks /\ 1 \in DOMAIN blocks
    BY FirstBlock
  <2>4. CASE phase = "read" /\ Fresh /\ (\E L : Reading(L)) /\ InitLower /\ Idle
    <3>1. PICK L : Reading(L)
      BY <2>4
    <3>2. Len(prog) \in Nat
      BY <3>1 DEF Reading, Laid
    <3>3. pc \in 1 .. Len(prog) + 1 /\ freeSites = {} /\ freedSites = {}
      BY <2>4, <3>2 DEF Fresh, InitWalk
    <3> QED BY <2>1, <2>2, <2>3, <2>4, <3>3 DEF TypeOK
  <2>5. CASE phase = "walk" /\ (\E P, N, L, h : WalkOK(P, N, L, h)) /\ InitLower /\ Idle
    <3>1. PICK P, N, L, h : WalkOK(P, N, L, h)
      BY <2>5
    <3> QED BY <2>1, <2>2, <2>3, <2>5, <3>1, WalkTypes DEF TypeOK
  <2>6. CASE phase = "rejected" /\ Bounds /\ InitLower /\ Idle
    BY <2>1, <2>2, <2>3, <2>6 DEF TypeOK, Bounds
  <2>7. CASE phase = "lower" /\ (\E P, N, L, h : LowerFrom(P, N, L, h)) /\ Idle
    <3>1. PICK P, N, L, h : LowerFrom(P, N, L, h)
      BY <2>7
    <3>2. PICK A, H : LowerOK(P, N, L, h, A, H)
      BY <3>1, LowerStarts DEF LowerFrom
    <3>3. Bounds /\ Len(env) = Len(ctl) + 1 /\ depth \in 0 .. Len(ctl) /\ 1 \in DOMAIN blocks
      BY <3>2, LowerBounds, LowerTypes
    <3> QED BY <2>1, <2>2, <2>7, <3>3 DEF TypeOK, Bounds
  <2>8. CASE (\E A, H : RunOK(A, H)) /\ Bounds
    <3>1. PICK A, H : RunOK(A, H)
      BY <2>8
    <3>2. phase \in {"run", "halted"}
      BY <3>1 DEF RunOK
    <3> QED BY <2>1, <2>8, <3>1, <3>2, RunTypes DEF TypeOK, Bounds
  <2> QED BY <2>1, <2>4, <2>5, <2>6, <2>7, <2>8 DEF Stage
<1> QED BY <1>1, OwnershipInductive, PTL
-----------------------------------------------------------------------------
(* What the sound code means for the machine.                                *)

LEMMA ManyApart ==
  ASSUME DropsOutsideLoops
  PROVE  "apart" \in Manner(prog, doExitFrees)
<1>1. \A i : EndOf(i) = EndIn(prog, i)
  BY DEF EndOf, EndIn, Nesting, NestingIn
<1>2. OutsideIn(prog)
  BY <1>1 DEF DropsOutsideLoops, OutsideIn
<1> QED BY <1>2, MannerIs

LEMMA ManyPlain ==
  ASSUME ExitsFreeNothing
  PROVE  "plain" \in Manner(prog, doExitFrees)
<1>1. Plain(doExitFrees)
  BY DEF ExitsFreeNothing, Plain
<1> QED BY <1>1, MannerIs

(* An instruction is executed only while the program runs. *)
LEMMA Executing ==
  ASSUME IInv, HasInstr
  PROVE  \E A, H : RunOK(A, H)
<1>1. phase = "run"
  BY DEF HasInstr
<1> QED BY <1>1 DEF IInv, Stage

(* A register that is known where the machine is. *)
LEMMA KnownReads ==
  ASSUME NEW A, NEW H, RunOK(A, H), NEW op, Exec(op),
         NEW q, q \in H[at][ip]
  PROVE  /\ Reg(q) = regs[q] /\ Reg(q) \in 0 .. Len(heap) /\ Reg(q) # Undefined
         /\ DOMAIN heap = 1 .. Len(heap) /\ Len(heap) \in Nat
         /\ Reg(q) = 0 => NullRoot \in A[q]
         /\ "apart" \in Manner(prog, doExitFrees) /\ Reg(q) # 0 => heap[Reg(q)].live
<1>1. /\ CodeOK(blocks, A, H, nregs, Manner(prog, doExitFrees))
      /\ MachineOK(blocks, A, H, nregs, Manner(prog, doExitFrees), at, ip, regs, heap)
  BY DEF RunOK
<1>2. /\ q \in DOMAIN regs /\ HoldsOK(q, regs[q], A, heap)
      /\ "apart" \in Manner(prog, doExitFrees) /\ regs[q] # 0 => heap[regs[q]].live
  BY <1>1, ReadsOK
<1>3. Reg(q) = regs[q]
  BY <1>2 DEF Reg
<1>4. regs[q] \in 0 .. Len(heap) /\ (regs[q] = 0 => NullRoot \in A[q])
  BY <1>2 DEF HoldsOK
<1>5. heap \in Seq(Tables)
  BY <1>1 DEF MachineOK
<1>6. DOMAIN heap = 1 .. Len(heap) /\ Len(heap) \in Nat
  BY <1>5
<1>7. Reg(q) # Undefined
  BY <1>3, <1>4, <1>6 DEF Undefined
<1> QED BY <1>2, <1>3, <1>4, <1>6, <1>7

(* A free, where the register it reads is defined. *)
LEMMA KnownFrees ==
  ASSUME NEW A, NEW H, RunOK(A, H), Exec("free"), ~BirthFree
  PROVE  Reg(Instr.arg) # Undefined
<1>1. PICK b, i : b = at /\ i = ip
  OBVIOUS
<1>2. /\ Instr = blocks[b].code[i] /\ Instr.op = "free" /\ FreeKnown(blocks, H, b, i)
      /\ \A j \in 1 .. i : H[b][j] \subseteq DOMAIN regs
      /\ \A r \in DOMAIN regs : HoldsOK(r, regs[r], A, heap)
      /\ heap \in Seq(Tables)
  BY <1>1, RunAt
<1>3. BlocksOK(blocks)
  BY DEF RunOK, CodeOK
<1>4. ~ Made(blocks, Instr.arg)
  <2>1. DOMAIN blocks = 1 .. Len(blocks)
    <3>1. PICK T : blocks \in Seq(T)
      BY <1>3 DEF BlocksOK
    <3> QED BY <3>1
  <2>2. SUFFICES ASSUME NEW c \in 1 .. Len(blocks), NEW j \in 1 .. Len(blocks[c].code),
                        blocks[c].code[j].op = "new", blocks[c].code[j].reg = Instr.arg
                 PROVE  FALSE
    BY DEF Made
  <2>3. blocks[c].code \in Seq(Instrs)
    BY <1>3 DEF BlocksOK, IsBlock
  <2>4. j \in DOMAIN blocks[c].code /\ c \in DOMAIN blocks
    BY <2>1, <2>3
  <2> QED BY <2>2, <2>4 DEF BirthFree
<1>5. PICK j \in 1 .. i : Instr.arg \in H[b][j]
  BY <1>2, <1>4 DEF FreeKnown
<1>6. Instr.arg \in DOMAIN regs
  BY <1>2, <1>5
<1>7. regs[Instr.arg] \in 0 .. Len(heap)
  BY <1>2, <1>6 DEF HoldsOK
<1>8. Reg(Instr.arg) = regs[Instr.arg]
  BY <1>6 DEF Reg
<1>9. Len(heap) \in Nat
  BY <1>2
<1> QED BY <1>7, <1>8, <1>9 DEF Undefined

(* A move or a use. *)
LEMMA MovesKnown ==
  ASSUME NEW A, NEW H, RunOK(A, H), NEW op \in {"move", "use"}, Exec(op)
  PROVE  /\ Instr.arg \in H[at][ip]
         /\ op = "use" => NullRoot \notin A[Instr.arg]
<1>1. PICK b, i : b = at /\ i = ip
  OBVIOUS
<1>2. Instr.op = op /\ InstrOK(Instr, H[b][i], H[b][i + 1], A, nregs, Manner(prog, doExitFrees))
  BY <1>1, RunAt
<1>3. Instr.arg \in H[b][i] /\ (op = "use" => NullRoot \notin A[Instr.arg])
  BY ONLY <1>2, op \in {"move", "use"} DEF InstrOK
<1> QED BY <1>1, <1>3

(* A free in a program whose do-exits free nothing. *)
LEMMA FreesKnown ==
  ASSUME NEW A, NEW H, RunOK(A, H), Exec("free"), ExitsFreeNothing
  PROVE  Instr.arg \in H[at][ip]
<1>1. PICK b, i : b = at /\ i = ip
  OBVIOUS
<1>2. Instr.op = "free" /\ InstrOK(Instr, H[b][i], H[b][i + 1], A, nregs, Manner(prog, doExitFrees))
  BY <1>1, RunAt
<1>3. "plain" \in Manner(prog, doExitFrees)
  BY ManyPlain
<1>4. Instr.arg \in H[b][i]
  BY ONLY <1>2, <1>3 DEF InstrOK
<1> QED BY <1>1, <1>4

(* The analyzer's liveness verdict, for accepted programs of any length in which *)
(* no name is set to nil inside a loop: every table operation is given the handle *)
(* of a table that was made and not released, whichever way the branches go        *)
(* (check_table_use and drop_reference of the analyzer, the frees of the lowerer). *)
THEOREM OwnershipUsesLive == Spec => [](DropsOutsideLoops => UsesAreLive)
<1>1. IInv => (DropsOutsideLoops => UsesAreLive)
  <2> SUFFICES ASSUME IInv, DropsOutsideLoops, Exec("use")
               PROVE  Reg(Instr.arg) \in DOMAIN heap /\ heap[Reg(Instr.arg)].live
    BY DEF UsesAreLive
  <2>1. PICK A, H : RunOK(A, H)
    BY Executing DEF Exec
  <2>2. Instr.arg \in H[at][ip] /\ NullRoot \notin A[Instr.arg]
    BY <2>1, MovesKnown
  <2>3. "apart" \in Manner(prog, doExitFrees)
    BY ManyApart
  <2>4. /\ Reg(Instr.arg) \in 0 .. Len(heap)
        /\ DOMAIN heap = 1 .. Len(heap) /\ Len(heap) \in Nat
        /\ Reg(Instr.arg) = 0 => NullRoot \in A[Instr.arg]
        /\ Reg(Instr.arg) # 0 => heap[Reg(Instr.arg)].live
    BY <2>1, <2>2, <2>3, KnownReads
  <2>5. Reg(Instr.arg) # 0
    BY <2>2, <2>4
  <2>6. Reg(Instr.arg) \in DOMAIN heap
    BY ONLY <2>4, <2>5
  <2> QED BY <2>4, <2>5, <2>6
<1> QED BY <1>1, OwnershipInductive, PTL

(* The code of the lowerer is valid SSA on every path of every accepted program:  *)
(* a handle that is read was defined before, except where a do-exit frees a site   *)
(* through the register of its constructor (decide_do_exit, lower_stmt of a do).  *)
THEOREM OwnershipHandlesDefined == Spec => [](~ BirthFree => HandlesDefined)
<1>1. IInv => (~ BirthFree => HandlesDefined)
  <2> SUFFICES ASSUME IInv, ~ BirthFree, HasInstr, Instr.op \in {"move", "free", "use"}
               PROVE  Reg(Instr.arg) # Undefined
    BY DEF HandlesDefined
  <2>1. PICK A, H : RunOK(A, H)
    BY Executing
  <2>2. Exec(Instr.op)
    BY DEF Exec
  <2>3. CASE Instr.op = "free"
    BY <2>1, <2>2, <2>3, KnownFrees
  <2>4. CASE Instr.op \in {"move", "use"}
    <3>1. Instr.arg \in H[at][ip]
      BY <2>1, <2>2, <2>4, MovesKnown
    <3> QED BY <2>1, <2>2, <3>1, KnownReads
  <2> QED BY <2>3, <2>4
<1> QED BY <1>1, OwnershipInductive, PTL

(* In a program whose do-blocks leave nothing to free, every handle that is read  *)
(* was defined on the path taken, whichever way the branches go.             *)
THEOREM OwnershipSSA == Spec => [](ExitsFreeNothing => HandlesDefined)
<1>1. IInv => (ExitsFreeNothing => HandlesDefined)
  <2> SUFFICES ASSUME IInv, ExitsFreeNothing, HasInstr, Instr.op \in {"move", "free", "use"}
               PROVE  Reg(Instr.arg) # Undefined
    BY DEF HandlesDefined
  <2>1. PICK A, H : RunOK(A, H)
    BY Executing
  <2>2. Exec(Instr.op)
    BY DEF Exec
  <2>3. Instr.arg \in H[at][ip]
    <3>1. CASE Instr.op = "free"
      BY <2>1, <2>2, <3>1, FreesKnown
    <3>2. CASE Instr.op \in {"move", "use"}
      BY <2>1, <2>2, <3>2, MovesKnown
    <3> QED BY <3>1, <3>2
  <2> QED BY <2>1, <2>2, <2>3, KnownReads
<1> QED BY <1>1, OwnershipInductive, PTL

(* No table is freed twice in programs of any length whose frees all come from     *)
(* drops that stand outside loops: the handle is defined and, unless null, of a    *)
(* live table (drop_reference of the analyzer, the TableFree of the lowerer).  *)
THEOREM OwnershipFreesSound ==
  Spec => [](DropsOutsideLoops /\ ExitsFreeNothing => FreesAreSound)
<1>1. IInv => (DropsOutsideLoops /\ ExitsFreeNothing => FreesAreSound)
  <2> SUFFICES ASSUME IInv, DropsOutsideLoops, ExitsFreeNothing, Exec("free")
               PROVE  /\ Reg(Instr.arg) # Undefined
                      /\ Reg(Instr.arg) # 0 => heap[Reg(Instr.arg)].live
    BY DEF FreesAreSound
  <2>1. PICK A, H : RunOK(A, H)
    BY Executing DEF Exec
  <2>2. Instr.arg \in H[at][ip]
    BY <2>1, FreesKnown
  <2>3. "apart" \in Manner(prog, doExitFrees)
    BY ManyApart
  <2> QED BY <2>1, <2>2, <2>3, KnownReads
<1> QED BY <1>1, OwnershipInductive, PTL
=============================================================================
