------------------------- MODULE OwnershipWalkProofs --------------------------
(***************************************************************************)
(* What the walk of the analyzer knows of an accepted program: the aliases   *)
(* at every statement cover those at the statements control comes from.      *)
(***************************************************************************)
EXTENDS OwnershipRun, FiniteSetTheorems, WellFoundedInduction, TLAPS

-----------------------------------------------------------------------------
(* The layout L of a program: how many blocks are open after p tokens, where   *)
(* the k-th of them and its current arm start, and what scope d declares.      *)

Layouts ==
  [lev : [Nat -> Nat], opn : [Nat -> [Nat -> Nat]], arm : [Nat -> [Nat -> Nat]],
   dcl : [Nat -> [Nat -> SUBSET Names]]]

Seen(L, p, x) == \E d \in 1 .. L.lev[p] + 1 : x \in L.dcl[p][d]
InnerOp(P, L, p) == P[L.opn[p][L.lev[p]]].op

(* Token p, the next one after o.                                            *)
Opens(P, L, o, p) ==
  /\ P[p].op \in Openers
  /\ L.lev[p] = L.lev[o] + 1
  /\ L.opn[p] = [L.opn[o] EXCEPT ![L.lev[o] + 1] = p]
  /\ L.arm[p] = [L.arm[o] EXCEPT ![L.lev[o] + 1] = p]
  /\ L.dcl[p] = [L.dcl[o] EXCEPT ![L.lev[o] + 2] = {}]

Turns(P, L, o, p) ==
  LET l == L.lev[o]
  IN /\ P[p].op = "else"
     /\ l >= 1 /\ InnerOp(P, L, o) = "if" /\ L.arm[o][l] = L.opn[o][l]
     /\ L.lev[p] = l /\ L.opn[p] = L.opn[o]
     /\ L.arm[p] = [L.arm[o] EXCEPT ![l] = p]
     /\ L.dcl[p] = [L.dcl[o] EXCEPT ![l + 1] = {}]

Shuts(P, L, o, p) ==
  LET l == L.lev[o]
  IN /\ P[p].op = "end"
     /\ l >= 1 /\ (InnerOp(P, L, o) = "if" => L.arm[o][l] # L.opn[o][l])
     /\ L.lev[p] = l - 1
     /\ L.opn[p] = L.opn[o] /\ L.arm[p] = L.arm[o] /\ L.dcl[p] = L.dcl[o]

Reads(P, L, o, p) == P[p].e \in {"ctor", "nil"} \/ (P[p].e = "name" /\ Seen(L, o, P[p].y))

Declares(P, L, o, p) ==
  LET l == L.lev[o]
  IN /\ P[p].op = "local" /\ Reads(P, L, o, p)
     /\ P[p].x \in Names /\ P[p].x \notin L.dcl[o][l + 1]
     /\ L.lev[p] = l /\ L.opn[p] = L.opn[o] /\ L.arm[p] = L.arm[o]
     /\ L.dcl[p] = [L.dcl[o] EXCEPT ![l + 1] = @ \cup {P[p].x}]

Refers(P, L, o, p) ==
  /\ P[p].op \in {"assign", "use"} /\ Reads(P, L, o, p) /\ Seen(L, o, P[p].x)
  /\ L.lev[p] = L.lev[o] /\ L.opn[p] = L.opn[o] /\ L.arm[p] = L.arm[o]
  /\ L.dcl[p] = L.dcl[o]

Placed(P, L, o, p) ==
  Opens(P, L, o, p) \/ Turns(P, L, o, p) \/ Shuts(P, L, o, p) \/ Declares(P, L, o, p) \/ Refers(P, L, o, p)

(* The k-th block open after token p, and what encloses it, are those of every  *)
(* token since it was opened.                                               *)
Stays(L, p, k, t) ==
  /\ \A j \in 1 .. k - 1 : L.opn[t][j] = L.opn[p][j] /\ L.arm[t][j] = L.arm[p][j]
  /\ \A d \in 1 .. k : L.dcl[t][d] = L.dcl[p][d]

Around(P, L, p, k) ==
  LET q == L.opn[p][k]
      m == L.arm[p][k]
  IN /\ q \in 1 .. p /\ P[q].op \in Openers /\ L.lev[q - 1] = k - 1
     /\ \A t \in q - 1 .. p : Stays(L, p, k, t)
     /\ \A t \in q .. p : L.lev[t] >= k /\ L.opn[t][k] = q
     /\ m \in q .. p
     /\ m # q => P[m].op = "else" /\ L.lev[m - 1] = k

(* Nesting over a program. *)
NestingIn(P, i, j) == Cardinality({k \in i .. j : P[k].op \in Openers})
                    - Cardinality({k \in i .. j : P[k].op = "end"})
Counted(P, L, q, j) ==
  (\A t \in q .. j - 1 : L.lev[t] >= L.lev[q]) => NestingIn(P, q, j) = L.lev[j] - L.lev[q] + 1

Layout(P, L) ==
  /\ L \in Layouts
  /\ L.lev[0] = 0 /\ L.dcl[0][1] = {}
  /\ \A p \in 1 .. Len(P) : Placed(P, L, p - 1, p)
  /\ \A p \in 1 .. Len(P) : \A k \in 1 .. L.lev[p] : Around(P, L, p, k)
  /\ \A q \in 1 .. Len(P) : P[q].op \in Openers => \A j \in q .. Len(P) : Counted(P, L, q, j)

SameBefore(L, M, n) ==
  \A p \in 0 .. n :
    M.lev[p] = L.lev[p] /\ M.opn[p] = L.opn[p] /\ M.arm[p] = L.arm[p] /\ M.dcl[p] = L.dcl[p]

LEMMA LayoutTypes ==
  ASSUME NEW L \in Layouts, NEW p \in Nat
  PROVE  /\ L.lev[p] \in Nat /\ L.opn[p] \in [Nat -> Nat] /\ L.arm[p] \in [Nat -> Nat]
         /\ L.dcl[p] \in [Nat -> SUBSET Names]
<1>1. /\ L.lev \in [Nat -> Nat] /\ L.opn \in [Nat -> [Nat -> Nat]]
      /\ L.arm \in [Nat -> [Nat -> Nat]] /\ L.dcl \in [Nat -> [Nat -> SUBSET Names]]
  BY DEF Layouts
<1> QED BY <1>1

(* The blocks after one token more. *)
LEMMA AroundGrows ==
  ASSUME NEW P, NEW L \in Layouts, NEW n \in Nat, Placed(P, L, n, n + 1),
         \A p \in 1 .. n : Placed(P, L, p - 1, p),
         L.lev[0] = 0,
         \A p \in 1 .. n : \A k \in 1 .. L.lev[p] : Around(P, L, p, k),
         NEW k \in 1 .. L.lev[n + 1]
  PROVE  Around(P, L, n + 1, k)
<1> DEFINE l == L.lev[n]
<1>1. l \in Nat /\ L.lev[n + 1] \in Nat
  BY LayoutTypes
<1>2. /\ L.opn[n] \in [Nat -> Nat] /\ L.arm[n] \in [Nat -> Nat]
      /\ L.dcl[n] \in [Nat -> SUBSET Names]
  BY LayoutTypes
<1>3. \A i \in 1 .. l : Around(P, L, n, i)
  BY <1>1
<1>4. ASSUME k \in 1 .. l, \A j \in 1 .. k : L.opn[n + 1][j] = L.opn[n][j],
             \A j \in 1 .. k - 1 : L.arm[n + 1][j] = L.arm[n][j],
             L.arm[n + 1][k] = L.arm[n][k] \/ 
               (L.arm[n + 1][k] = n + 1 /\ P[n + 1].op = "else" /\ l = k),
             \A d \in 1 .. k : L.dcl[n + 1][d] = L.dcl[n][d]
      PROVE  Around(P, L, n + 1, k)
  <2> DEFINE q == L.opn[n][k]
             m == L.arm[n + 1][k]
  <2>1. Around(P, L, n, k) /\ n \in 1 .. n
    <3>1. n # 0
      BY <1>4
    <3> QED BY <1>3, <1>4, <3>1
  <2>2. /\ q \in 1 .. n /\ P[q].op \in Openers /\ L.lev[q - 1] = k - 1
        /\ \A t \in q - 1 .. n : Stays(L, n, k, t)
        /\ \A t \in q .. n : L.lev[t] >= k /\ L.opn[t][k] = q
        /\ L.arm[n][k] \in q .. n
        /\ L.arm[n][k] # q => P[L.arm[n][k]].op = "else" /\ L.lev[L.arm[n][k] - 1] = k
    BY <2>1 DEF Around
  <2>3. L.opn[n + 1][k] = q
    BY <1>1, <1>4
  <2>4. \A t \in q - 1 .. n + 1 : Stays(L, n + 1, k, t)
    <3> TAKE t \in q - 1 .. n + 1
    <3>1. CASE t = n + 1
      BY <3>1 DEF Stays
    <3>2. CASE t \in q - 1 .. n
      <4>1. Stays(L, n, k, t)
        BY <3>2, <2>2
      <4>2. \A j \in 1 .. k - 1 : j \in 1 .. k
        BY <1>1, <1>4
      <4> QED BY <4>1, <4>2, <1>4 DEF Stays
    <3> QED BY <3>1, <3>2, <2>2
  <2>5. \A t \in q .. n + 1 : L.lev[t] >= k /\ L.opn[t][k] = q
    BY <2>2, <2>3, <1>1
  <2>6. m \in q .. n + 1 /\ (m # q => P[m].op = "else" /\ L.lev[m - 1] = k)
    <3>1. CASE m = L.arm[n][k]
      BY <3>1, <2>2
    <3>2. CASE m = n + 1 /\ P[n + 1].op = "else" /\ l = k
      BY <3>2, <2>2
    <3> QED BY <3>1, <3>2, <1>4
  <2>7. q \in 1 .. n + 1
    BY <2>2
  <2> HIDE DEF q, m
  <2> QED BY <2>2, <2>3, <2>4, <2>5, <2>6, <2>7 DEF Around, m
<1>5. CASE Opens(P, L, n, n + 1)
  <2>1. /\ P[n + 1].op \in Openers /\ L.lev[n + 1] = l + 1
        /\ L.opn[n + 1] = [L.opn[n] EXCEPT ![l + 1] = n + 1]
        /\ L.arm[n + 1] = [L.arm[n] EXCEPT ![l + 1] = n + 1]
        /\ L.dcl[n + 1] = [L.dcl[n] EXCEPT ![l + 2] = {}]
    BY <1>5 DEF Opens
  <2>2. /\ \A j \in 1 .. l : L.opn[n + 1][j] = L.opn[n][j] /\ L.arm[n + 1][j] = L.arm[n][j]
        /\ L.opn[n + 1][l + 1] = n + 1 /\ L.arm[n + 1][l + 1] = n + 1
        /\ \A d \in 1 .. l + 1 : L.dcl[n + 1][d] = L.dcl[n][d]
    BY <2>1, <1>1, <1>2
  <2>3. CASE k \in 1 .. l
    BY <2>2, <2>3, <1>1, <1>4
  <2>4. CASE k = l + 1
    <3>1. \A t \in n .. n + 1 : Stays(L, n + 1, k, t)
      BY <2>2, <2>4, <1>1 DEF Stays
    <3>2. n + 1 \in 1 .. n + 1 /\ n + 1 - 1 = n /\ n + 1 \in n + 1 .. n + 1
      OBVIOUS
    <3>3. L.lev[n + 1] >= k /\ L.opn[n + 1][k] = n + 1 /\ L.arm[n + 1][k] = n + 1
      BY <2>1, <2>2, <2>4, <1>1
    <3>4. \A t \in n + 1 .. n + 1 : t = n + 1
      OBVIOUS
    <3>5. L.lev[n + 1 - 1] = k - 1
      BY <2>4, <1>1
    <3> PICK m \in Nat : m = n + 1
      OBVIOUS
    <3>6. /\ L.opn[m][k] = m /\ L.arm[m][k] = m /\ m \in 1 .. m /\ P[m].op \in Openers
          /\ L.lev[m - 1] = k - 1 /\ m \in m .. m /\ L.lev[m] >= k
          /\ \A t \in m - 1 .. m : Stays(L, m, k, t)
      BY <2>1, <3>1, <3>2, <3>3, <3>4, <3>5
    <3>8. \A t \in m .. m : L.lev[t] >= k /\ L.opn[t][k] = m
      <4>1. \A t \in m .. m : t = m
        OBVIOUS
      <4> QED BY <3>6, <4>1
    <3>7. Around(P, L, m, k)
      BY <3>6, <3>8 DEF Around
    <3> QED BY <3>7
  <2> QED BY <2>1, <2>3, <2>4, <1>1
<1>6. CASE Turns(P, L, n, n + 1)
  <2>1. /\ P[n + 1].op = "else" /\ l >= 1
        /\ L.lev[n + 1] = l /\ L.opn[n + 1] = L.opn[n]
        /\ L.arm[n + 1] = [L.arm[n] EXCEPT ![l] = n + 1]
        /\ L.dcl[n + 1] = [L.dcl[n] EXCEPT ![l + 1] = {}]
    BY <1>6 DEF Turns
  <2>2. /\ \A j \in 1 .. l - 1 : L.arm[n + 1][j] = L.arm[n][j]
        /\ L.arm[n + 1][l] = n + 1
        /\ \A d \in 1 .. l : L.dcl[n + 1][d] = L.dcl[n][d]
    BY <2>1, <1>1, <1>2
  <2> QED BY <2>1, <2>2, <1>1, <1>4
<1>7. CASE Shuts(P, L, n, n + 1)
  <2>1. /\ L.lev[n + 1] = l - 1 /\ L.opn[n + 1] = L.opn[n]
        /\ L.arm[n + 1] = L.arm[n] /\ L.dcl[n + 1] = L.dcl[n]
    BY <1>7 DEF Shuts
  <2> QED BY <2>1, <1>1, <1>4
<1>8. CASE Declares(P, L, n, n + 1)
  <2>1. /\ L.lev[n + 1] = l /\ L.opn[n + 1] = L.opn[n] /\ L.arm[n + 1] = L.arm[n]
        /\ L.dcl[n + 1] = [L.dcl[n] EXCEPT ![l + 1] = L.dcl[n][l + 1] \cup {P[n + 1].x}]
    BY <1>8 DEF Declares
  <2>2. \A d \in 1 .. l : L.dcl[n + 1][d] = L.dcl[n][d]
    BY <2>1, <1>1, <1>2
  <2> QED BY <2>1, <2>2, <1>1, <1>4
<1>9. CASE Refers(P, L, n, n + 1)
  <2>1. /\ L.lev[n + 1] = l /\ L.opn[n + 1] = L.opn[n]
        /\ L.arm[n + 1] = L.arm[n] /\ L.dcl[n + 1] = L.dcl[n]
    BY <1>9 DEF Refers
  <2> QED BY <2>1, <1>1, <1>4
<1> QED BY <1>5, <1>6, <1>7, <1>8, <1>9 DEF Placed

-----------------------------------------------------------------------------
(* A sequence without its last element. *)
LEMMA PrefixOf ==
  ASSUME NEW S, NEW s \in Seq(S), NEW n \in Nat, n <= Len(s)
  PROVE  /\ SubSeq(s, 1, n) \in Seq(S)
         /\ Len(SubSeq(s, 1, n)) = n
         /\ \A k \in 1 .. n : SubSeq(s, 1, n)[k] = s[k]
OBVIOUS

LEMMA FrontOf ==
  ASSUME NEW S, NEW s \in Seq(S), NEW n \in Nat, Len(s) = n + 1
  PROVE  /\ Front(s) \in Seq(S)
         /\ Len(Front(s)) = n
         /\ \A k \in 1 .. n : Front(s)[k] = s[k]
<1>1. n <= Len(s) /\ Len(s) - 1 = n
  OBVIOUS
<1> QED BY <1>1, PrefixOf DEF Front

(* A sequence with one element more, and one with an element changed.        *)
LEMMA AppendOf ==
  ASSUME NEW S, NEW s \in Seq(S), NEW n \in Nat, Len(s) = n, NEW v \in S, NEW t, t = Append(s, v)
  PROVE  t \in Seq(S) /\ Len(t) = n + 1 /\ t[n + 1] = v /\ \A k \in 1 .. n : t[k] = s[k]
OBVIOUS

LEMMA ChangeOf ==
  ASSUME NEW S, NEW s \in Seq(S), NEW n \in Nat, Len(s) = n, NEW i \in 1 .. n, NEW v \in S, NEW t,
         t = [s EXCEPT ![i] = v]
  PROVE  t \in Seq(S) /\ Len(t) = n /\ t[i] = v /\ \A k \in 1 .. n : k # i => t[k] = s[k]
OBVIOUS

(* Nesting counts the blocks open since i. *)

LEMMA NestingStart ==
  ASSUME NEW P, NEW i \in Nat, P[i].op \in Openers
  PROVE  NestingIn(P, i, i) = 1
<1>1. {k \in i .. i : P[k].op \in Openers} = {i}
  OBVIOUS
<1>2. {k \in i .. i : P[k].op = "end"} = {}
  BY DEF Openers
<1>3. Cardinality({k \in i .. i : P[k].op \in Openers}) = 1
  BY <1>1, FS_Singleton
<1>4. Cardinality({k \in i .. i : P[k].op = "end"}) = 0
  BY <1>2, FS_EmptySet
<1>5. NestingIn(P, i, i) = 1 - 0
  BY <1>3, <1>4 DEF NestingIn
<1> QED BY <1>5

LEMMA NestingStep ==
  ASSUME NEW P, NEW i \in Nat, NEW j \in Nat, i <= j
  PROVE  /\ NestingIn(P, i, j) \in Int
         /\ NestingIn(P, i, j + 1) =
              NestingIn(P, i, j) +
                (IF P[j + 1].op \in Openers THEN 1 ELSE IF P[j + 1].op = "end" THEN -1 ELSE 0)
<1> DEFINE A == {k \in i .. j : P[k].op \in Openers}
           B == {k \in i .. j : P[k].op = "end"}
           A1 == {k \in i .. j + 1 : P[k].op \in Openers}
           B1 == {k \in i .. j + 1 : P[k].op = "end"}
<1>1. IsFiniteSet(i .. j)
  BY FS_Interval
<1>2. A \subseteq i .. j /\ B \subseteq i .. j
  OBVIOUS
<1>3. IsFiniteSet(A) /\ IsFiniteSet(B)
  BY <1>1, <1>2, FS_Subset
<1>4. Cardinality(A) \in Nat /\ Cardinality(B) \in Nat
  BY <1>3, FS_CardinalityType
<1>5. j + 1 \notin A /\ j + 1 \notin B
  OBVIOUS
<1>6. A1 = (IF P[j + 1].op \in Openers THEN A \cup {j + 1} ELSE A)
  OBVIOUS
<1>7. B1 = (IF P[j + 1].op = "end" THEN B \cup {j + 1} ELSE B)
  OBVIOUS
<1>8. /\ Cardinality(A \cup {j + 1}) = Cardinality(A) + 1
      /\ Cardinality(B \cup {j + 1}) = Cardinality(B) + 1
  BY <1>3, <1>5, FS_AddElement
<1>9. P[j + 1].op \in Openers => P[j + 1].op # "end"
  BY DEF Openers
<1>10. /\ NestingIn(P, i, j) = Cardinality(A) - Cardinality(B)
       /\ NestingIn(P, i, j + 1) = Cardinality(A1) - Cardinality(B1)
  BY DEF NestingIn
<1> HIDE DEF A, B, A1, B1
<1> QED BY <1>4, <1>6, <1>7, <1>8, <1>9, <1>10

LEMMA NestingSame ==
  ASSUME NEW P, NEW Q, NEW i, NEW j, \A k \in i .. j : P[k] = Q[k]
  PROVE  NestingIn(P, i, j) = NestingIn(Q, i, j)
<1>1. /\ {k \in i .. j : P[k].op \in Openers} = {k \in i .. j : Q[k].op \in Openers}
      /\ {k \in i .. j : P[k].op = "end"} = {k \in i .. j : Q[k].op = "end"}
  OBVIOUS
<1> QED BY <1>1 DEF NestingIn

LEMMA CountedGrows ==
  ASSUME NEW P, NEW L \in Layouts, NEW n \in Nat, Placed(P, L, n, n + 1),
         NEW q \in 1 .. n + 1, P[q].op \in Openers,
         q <= n => Counted(P, L, q, n)
  PROVE  Counted(P, L, q, n + 1)
<1>1. L.lev[n] \in Nat /\ L.lev[q] \in Nat /\ L.lev[n + 1] \in Nat
  BY LayoutTypes
<1>2. CASE q = n + 1
  BY <1>1, <1>2, NestingStart DEF Counted
<1>3. CASE q \in 1 .. n
  <2> SUFFICES ASSUME \A t \in q .. n : L.lev[t] >= L.lev[q]
               PROVE  NestingIn(P, q, n + 1) = L.lev[n + 1] - L.lev[q] + 1
    BY DEF Counted
  <2>1. NestingIn(P, q, n) = L.lev[n] - L.lev[q] + 1
    BY <1>3 DEF Counted
  <2>2. NestingIn(P, q, n + 1) = NestingIn(P, q, n) +
          (IF P[n + 1].op \in Openers THEN 1 ELSE IF P[n + 1].op = "end" THEN -1 ELSE 0)
    BY <1>3, NestingStep
  <2>3. L.lev[n + 1] = L.lev[n] +
          (IF P[n + 1].op \in Openers THEN 1 ELSE IF P[n + 1].op = "end" THEN -1 ELSE 0)
    <3>1. Placed(P, L, n, n + 1)
      OBVIOUS
    <3>2. \/ P[n + 1].op \in Openers /\ L.lev[n + 1] = L.lev[n] + 1
          \/ P[n + 1].op = "end" /\ L.lev[n + 1] = L.lev[n] - 1
          \/ P[n + 1].op \in {"else", "local", "assign", "use"} /\ L.lev[n + 1] = L.lev[n]
      BY ONLY <3>1 DEF Placed, Opens, Turns, Shuts, Declares, Refers
    <3>3. L.lev[n] \in Nat /\ L.lev[n + 1] \in Nat
      BY <1>1
    <3> QED BY ONLY <3>2, <3>3 DEF Openers
  <2> QED BY <1>1, <2>1, <2>2, <2>3
<1> QED BY <1>2, <1>3

(* A program and its layout grow by a token. *)
LEMMA LayoutGrows ==
  ASSUME NEW P, NEW Q, NEW L, Layout(P, L), NEW n \in Nat, n = Len(P), Len(Q) = n + 1,
         \A p \in 1 .. n : Q[p] = P[p],
         NEW M \in Layouts, SameBefore(L, M, n), Placed(Q, M, n, n + 1)
  PROVE  Layout(Q, M)
<1>1. /\ L \in Layouts /\ L.lev[0] = 0 /\ L.dcl[0][1] = {}
      /\ \A p \in 1 .. n : Placed(P, L, p - 1, p)
      /\ \A p \in 1 .. n : \A k \in 1 .. L.lev[p] : Around(P, L, p, k)
      /\ \A q \in 1 .. n : P[q].op \in Openers => \A j \in q .. n : Counted(P, L, q, j)
  BY DEF Layout
<1>2. \A p \in 0 .. n :
        M.lev[p] = L.lev[p] /\ M.opn[p] = L.opn[p] /\ M.arm[p] = L.arm[p] /\ M.dcl[p] = L.dcl[p]
  BY DEF SameBefore
<1>3. M.lev[0] = 0 /\ M.dcl[0][1] = {}
  BY <1>1, <1>2
<1>4. \A p \in 1 .. n : \A k \in 1 .. M.lev[p] : Around(Q, M, p, k)
  <2> SUFFICES ASSUME NEW p \in 1 .. n, NEW k \in 1 .. M.lev[p]
               PROVE  Around(Q, M, p, k)
    OBVIOUS
  <2>1. PICK q, m : q = L.opn[p][k] /\ m = L.arm[p][k]
    OBVIOUS
  <2>2. p \in 0 .. n /\ k \in 1 .. L.lev[p]
    BY <1>2
  <2>3. /\ q \in 1 .. p /\ P[q].op \in Openers /\ L.lev[q - 1] = k - 1
        /\ \A t \in q - 1 .. p : Stays(L, p, k, t)
        /\ \A t \in q .. p : L.lev[t] >= k /\ L.opn[t][k] = q
        /\ m \in q .. p
        /\ m # q => P[m].op = "else" /\ L.lev[m - 1] = k
    BY <1>1, <2>1, <2>2 DEF Around
  <2>4. M.opn[p][k] = q /\ M.arm[p][k] = m
    BY <1>2, <2>1, <2>2
  <2>5. q - 1 \in 0 .. n /\ m - 1 \in 0 .. n /\ q \in 1 .. n /\ m \in 1 .. n
    BY <2>3
  <2>6. \A t \in q - 1 .. p : Stays(M, p, k, t)
    <3> TAKE t \in q - 1 .. p
    <3>1. Stays(L, p, k, t) /\ t \in 0 .. n
      BY <2>3, <2>5
    <3> QED BY <3>1, <1>2, <2>2 DEF Stays
  <2>7. \A t \in q .. p : M.lev[t] >= k /\ M.opn[t][k] = q
    <3> TAKE t \in q .. p
    <3>1. L.lev[t] >= k /\ L.opn[t][k] = q /\ t \in 0 .. n
      BY <2>3, <2>5
    <3> QED BY <3>1, <1>2
  <2>8. M.lev[q - 1] = L.lev[q - 1] /\ M.lev[m - 1] = L.lev[m - 1] /\ Q[q] = P[q] /\ Q[m] = P[m]
    BY <1>2, <2>5
  <2> QED BY <2>3, <2>4, <2>6, <2>7, <2>8 DEF Around
<1>5. \A p \in 1 .. n : Placed(Q, M, p - 1, p)
  <2> SUFFICES ASSUME NEW p \in 1 .. n
               PROVE  Placed(Q, M, p - 1, p)
    OBVIOUS
  <2>1. PICK o : o = p - 1
    OBVIOUS
  <2>2. o \in 0 .. n /\ p \in 0 .. n /\ Q[p] = P[p] /\ Placed(P, L, o, p)
    BY <1>1, <2>1
  <2>3. L.lev[o] >= 1 => InnerOp(Q, M, o) = InnerOp(P, L, o)
    <3> SUFFICES ASSUME L.lev[o] >= 1
                 PROVE  Q[L.opn[o][L.lev[o]]] = P[L.opn[o][L.lev[o]]]
      BY <1>2, <2>2 DEF InnerOp
    <3>1. L.lev[o] \in 1 .. L.lev[o] /\ o \in 1 .. n
      BY <1>1, <2>2, LayoutTypes
    <3>2. Around(P, L, o, L.lev[o])
      BY <3>1, <1>1
    <3>3. L.opn[o][L.lev[o]] \in 1 .. n
      <4>1. L.opn[o][L.lev[o]] \in 1 .. o
        BY ONLY <3>2 DEF Around
      <4>2. o \in 1 .. n /\ n \in Nat
        BY <3>1, <1>1
      <4> QED BY ONLY <4>1, <4>2
    <3> QED BY <3>3, <1>2
  <2>4. \A x : Seen(M, o, x) <=> Seen(L, o, x)
    BY <1>2, <2>2 DEF Seen
  <2>5. /\ M.lev[o] = L.lev[o] /\ M.opn[o] = L.opn[o] /\ M.arm[o] = L.arm[o] /\ M.dcl[o] = L.dcl[o]
        /\ M.lev[p] = L.lev[p] /\ M.opn[p] = L.opn[p] /\ M.arm[p] = L.arm[p] /\ M.dcl[p] = L.dcl[p]
    BY <1>2, <2>2
  <2>6. Reads(P, L, o, p) <=> Reads(Q, M, o, p)
    BY <2>2, <2>4 DEF Reads
  <2>7. CASE Opens(P, L, o, p)
    BY <2>7, <2>2, <2>5, <2>1 DEF Opens, Placed
  <2>8. CASE Turns(P, L, o, p)
    BY <2>8, <2>2, <2>3, <2>5, <2>1 DEF Turns, Placed
  <2>9. CASE Shuts(P, L, o, p)
    BY <2>9, <2>2, <2>3, <2>5, <2>1 DEF Shuts, Placed
  <2>10. CASE Declares(P, L, o, p)
    BY <2>10, <2>2, <2>6, <2>5, <2>1 DEF Declares, Placed
  <2>11. CASE Refers(P, L, o, p)
    BY <2>11, <2>2, <2>4, <2>6, <2>5, <2>1 DEF Refers, Placed
  <2> QED BY <2>2, <2>7, <2>8, <2>9, <2>10, <2>11 DEF Placed
<1>6. \A k \in 1 .. M.lev[n + 1] : Around(Q, M, n + 1, k)
  BY <1>3, <1>4, <1>5, AroundGrows
<1>7. \A q \in 1 .. n : Q[q].op \in Openers => \A j \in q .. n : Counted(Q, M, q, j)
  <2> SUFFICES ASSUME NEW q \in 1 .. n, Q[q].op \in Openers, NEW j \in q .. n
               PROVE  Counted(Q, M, q, j)
    OBVIOUS
  <2>1. Counted(P, L, q, j)
    BY <1>1
  <2>2. NestingIn(Q, q, j) = NestingIn(P, q, j)
    BY NestingSame
  <2>3. /\ M.lev[j] = L.lev[j] /\ M.lev[q] = L.lev[q]
        /\ \A t \in q .. j - 1 : M.lev[t] = L.lev[t]
    BY <1>2
  <2> QED BY <2>1, <2>2, <2>3 DEF Counted
<1>8. \A q \in 1 .. n + 1 : Q[q].op \in Openers => \A j \in q .. n + 1 : Counted(Q, M, q, j)
  <2> SUFFICES ASSUME NEW q \in 1 .. n + 1, Q[q].op \in Openers, NEW j \in q .. n + 1
               PROVE  Counted(Q, M, q, j)
    OBVIOUS
  <2>1. CASE j = n + 1
    <3>1. q <= n => Counted(Q, M, q, n)
      BY <1>7
    <3> QED BY <2>1, <3>1, CountedGrows
  <2>2. CASE j \in 1 .. n
    BY <2>2, <1>7
  <2> QED BY <2>1, <2>2
<1>9. \A p \in 1 .. n + 1 : Placed(Q, M, p - 1, p)
  <2> TAKE p \in 1 .. n + 1
  <2>1. CASE p = n + 1
    BY <2>1
  <2>2. CASE p \in 1 .. n
    BY <2>2, <1>5
  <2> QED BY <2>1, <2>2
<1>10. \A p \in 1 .. n + 1 : \A k \in 1 .. M.lev[p] : Around(Q, M, p, k)
  <2> TAKE p \in 1 .. n + 1
  <2>1. CASE p = n + 1
    BY <2>1, <1>6
  <2>2. CASE p \in 1 .. n
    BY <2>2, <1>4
  <2> QED BY <2>1, <2>2
<1> QED BY <1>3, <1>8, <1>9, <1>10 DEF Layout

-----------------------------------------------------------------------------
(* Reading. *)

NextIs(L, M, n, l, o, a, d) ==
  /\ SameBefore(L, M, n)
  /\ M.lev[n + 1] = l /\ M.opn[n + 1] = o /\ M.arm[n + 1] = a /\ M.dcl[n + 1] = d

LEMMA LayoutNext ==
  ASSUME NEW L \in Layouts, NEW n \in Nat, NEW l \in Nat, NEW o \in [Nat -> Nat],
         NEW a \in [Nat -> Nat], NEW d \in [Nat -> SUBSET Names]
  PROVE  \E M \in Layouts : NextIs(L, M, n, l, o, a, d)
<1>1. /\ L.lev \in [Nat -> Nat] /\ L.opn \in [Nat -> [Nat -> Nat]]
      /\ L.arm \in [Nat -> [Nat -> Nat]] /\ L.dcl \in [Nat -> [Nat -> SUBSET Names]]
  BY DEF Layouts
<1>2. PICK lev, opn, arm, dcl :
        /\ lev = [L.lev EXCEPT ![n + 1] = l] /\ opn = [L.opn EXCEPT ![n + 1] = o]
        /\ arm = [L.arm EXCEPT ![n + 1] = a] /\ dcl = [L.dcl EXCEPT ![n + 1] = d]
  OBVIOUS
<1>3. /\ lev \in [Nat -> Nat] /\ opn \in [Nat -> [Nat -> Nat]]
      /\ arm \in [Nat -> [Nat -> Nat]] /\ dcl \in [Nat -> [Nat -> SUBSET Names]]
  BY <1>1, <1>2
<1>4. /\ lev[n + 1] = l /\ opn[n + 1] = o /\ arm[n + 1] = a /\ dcl[n + 1] = d
      /\ \A p \in 0 .. n : lev[p] = L.lev[p] /\ opn[p] = L.opn[p] /\ arm[p] = L.arm[p]
                           /\ dcl[p] = L.dcl[p]
  <2>1. n + 1 \in Nat /\ \A p \in 0 .. n : p \in Nat /\ p # n + 1
    OBVIOUS
  <2>2. lev[n + 1] = l /\ \A p \in 0 .. n : lev[p] = L.lev[p]
    BY <1>1, <1>2, <2>1
  <2>3. opn[n + 1] = o /\ \A p \in 0 .. n : opn[p] = L.opn[p]
    BY <1>1, <1>2, <2>1
  <2>4. arm[n + 1] = a /\ \A p \in 0 .. n : arm[p] = L.arm[p]
    BY <1>1, <1>2, <2>1
  <2>5. dcl[n + 1] = d /\ \A p \in 0 .. n : dcl[p] = L.dcl[p]
    BY <1>1, <1>2, <2>1
  <2> QED BY <2>2, <2>3, <2>4, <2>5
<1> DEFINE M == [lev |-> lev, opn |-> opn, arm |-> arm, dcl |-> dcl]
<1>5. M \in Layouts
  BY <1>3 DEF Layouts
<1>6. M.lev = lev /\ M.opn = opn /\ M.arm = arm /\ M.dcl = dcl
  OBVIOUS
<1> HIDE DEF M
<1>7. SameBefore(L, M, n)
  BY <1>4, <1>6 DEF SameBefore
<1> QED BY <1>4, <1>5, <1>6, <1>7 DEF NextIs

Opened1 == [op : {"file", "if", "else", "while", "do"}, names : SUBSET Names]

(* The reader's open blocks are the l that start at o, with their arms at a and *)
(* their declarations d.                                                    *)
Fits(P, l, o, a, d, bs) ==
  /\ bs \in Seq(Opened1)
  /\ Len(bs) = l + 1
  /\ bs[1].op = "file"
  /\ \A i \in 1 .. l + 1 : bs[i].names = d[i]
  /\ \A k \in 1 .. l : a[k] = o[k] => bs[k + 1].op = P[o[k]].op
  /\ \A k \in 1 .. l : a[k] # o[k] => bs[k + 1].op = "else"

ReaderIn(P, n, L, bs) == Fits(P, L.lev[n], L.opn[n], L.arm[n], L.dcl[n], bs)

(* The program read so far is laid out. *)
Laid(P, L) == (\E T : P \in Seq(T)) /\ Layout(P, L)

(* The tokens of a form refer to what the reader sees.                       *)
LEMMA TokensOfForm ==
  ASSUME NEW form, NEW t \in OfForm(form)
  PROVE  /\ t.e \in {"ctor", "nil"} \/ (t.e = "name" /\ t.y \in Visible)
         /\ \/ t.op = "local" /\ t.x \in Names \ Inner.names
            \/ t.op \in {"assign", "use"} /\ t.x \in Visible
<1> QED BY DEF OfForm, Stmt

(* The reader is in the blocks of what it has read. *)
Reading(L) == phase = "read" /\ Laid(prog, L) /\ ReaderIn(prog, Len(prog), L, open)

(* The token after the n-th may change the innermost block this way. *)
PlacedBy(Q, L, n, l, o, a, d) ==
  \A M \in Layouts : NextIs(L, M, n, l, o, a, d) => Placed(Q, M, n, n + 1)

LEMMA OneTokenMore ==
  ASSUME NEW L, Reading(L), NEW t, NEW blks, Write(t, blks), NEW n, n = Len(prog),
         NEW Q, Q = Append(prog, t),
         NEW l \in Nat, NEW o \in [Nat -> Nat], NEW a \in [Nat -> Nat], NEW d \in [Nat -> SUBSET Names],
         PlacedBy(Q, L, n, l, o, a, d), Fits(Q, l, o, a, d, blks)
  PROVE  phase' = "read" /\ pc' = pc /\ \E M : Reading(M)'
<1>1. PICK T : prog \in Seq(T)
  BY DEF Laid, Reading
<1>2. Q \in Seq(T \cup {t}) /\ Len(Q) = n + 1 /\ \A p \in 1 .. n : Q[p] = prog[p]
  BY <1>1
<1>3. n \in Nat
  BY <1>1
<1>4. L \in Layouts /\ Layout(prog, L)
  BY DEF Laid, Layout, Reading
<1>5. PICK M \in Layouts : NextIs(L, M, n, l, o, a, d)
  BY <1>3, <1>4, LayoutNext
<1>6. Placed(Q, M, n, n + 1)
  BY <1>5, Zenon DEF PlacedBy
<1>7. Layout(Q, M)
  BY <1>2, <1>3, <1>4, <1>5, <1>6, LayoutGrows, Zenon DEF NextIs
<1>8. phase' = "read" /\ pc' = pc /\ prog' = Q /\ open' = blks
  BY DEF Write, Reading
<1>9. ReaderIn(Q, Len(Q), M, blks)
  BY <1>2, <1>5, Zenon DEF ReaderIn, NextIs
<1>10. Reading(M)'
  BY <1>2, <1>7, <1>8, <1>9 DEF Reading, Laid
<1> QED BY <1>8, <1>10

LEMMA ReadLays ==
  ASSUME NEW L, Reading(L), Read
  PROVE  \/ phase' = "read" /\ pc' = pc /\ \E M : Reading(M)'
         \/ phase' = "walk" /\ pc' = pc /\ prog' = prog /\ L.lev[Len(prog)] = 0
<1>0. PICK T : prog \in Seq(T)
  BY DEF Laid, Reading
<1>1. PICK n : n = Len(prog) /\ n \in Nat
  BY <1>0
<1>c. n \in Nat
  BY <1>1
<1>2. L \in Layouts /\ Layout(prog, L)
  BY DEF Laid, Layout, Reading
<1>3. PICK l, o, a, d : l = L.lev[n] /\ o = L.opn[n] /\ a = L.arm[n] /\ d = L.dcl[n]
  OBVIOUS
<1>4. l \in Nat /\ o \in [Nat -> Nat] /\ a \in [Nat -> Nat] /\ d \in [Nat -> SUBSET Names]
  BY <1>c, <1>2, <1>3, LayoutTypes
<1>f. Fits(prog, l, o, a, d, open)
  BY <1>1, <1>3 DEF ReaderIn, Reading
<1>5. open \in Seq(Opened1) /\ Len(open) = l + 1
  BY <1>f DEF Fits
<1>d. open[1].op = "file"
  BY <1>f DEF Fits
<1>a. \A i \in 1 .. l + 1 : open[i].names = d[i]
  BY <1>f DEF Fits
<1>b. /\ \A k \in 1 .. l : a[k] = o[k] => open[k + 1].op = prog[o[k]].op
      /\ \A k \in 1 .. l : a[k] # o[k] => open[k + 1].op = "else"
  BY <1>f DEF Fits
<1>6. \A k \in 1 .. l : o[k] \in 1 .. n
  <2> TAKE k \in 1 .. l
  <2>1. n \in 1 .. n
    <3>1. n # 0
      BY <1>2, <1>3 DEF Layout
    <3> QED BY <1>c, <3>1
  <2>2. Around(prog, L, n, k)
    BY <1>1, <1>2, <1>3, <2>1 DEF Layout
  <2> QED BY <2>2, <1>3 DEF Around
<1>7. \A x : x \in Visible => Seen(L, n, x)
  <2>1. DOMAIN open = 1 .. l + 1
    BY <1>4, <1>5
  <2> QED BY <1>3, <1>a, <2>1 DEF Visible, Seen
<1>8. Inner = open[l + 1] /\ Inner.names = d[l + 1]
  BY <1>4, <1>5, <1>a DEF Inner, Last
<1>11. ASSUME NEW M \in Layouts, SameBefore(L, M, n)
       PROVE  /\ M.lev[n] = l /\ M.opn[n] = o /\ M.arm[n] = a /\ M.dcl[n] = d
              /\ \A x : x \in Visible => Seen(M, n, x)
  <2>1. M.lev[n] = l /\ M.opn[n] = o /\ M.arm[n] = a /\ M.dcl[n] = d
    BY <1>c, <1>3, <1>11 DEF SameBefore
  <2> QED BY <2>1, <1>3, <1>7 DEF Seen
<1>15. l >= 1 => /\ l \in 1 .. l
                 /\ a[l] = o[l] => open[l + 1].op = prog[o[l]].op
                 /\ a[l] # o[l] => open[l + 1].op = "else"
  <2> SUFFICES ASSUME l >= 1 PROVE l \in 1 .. l
    BY <1>b
  <2> QED BY <1>4
<1>16. l = 0 => Inner.op = "file"
  BY <1>d, <1>8
<1>17. l >= 1 => o[l] \in 1 .. n
  BY <1>6, <1>15
<1>12. ASSUME NEW form, ReadStmt(form)
       PROVE  phase' = "read" /\ pc' = pc /\ \E M : Reading(M)'
  <2>1. PICK t \in OfForm(form) :
          Write(t, IF t.op = "local" THEN [open EXCEPT ![Len(open)].names = @ \cup {t.x}] ELSE open)
    BY <1>12 DEF ReadStmt
  <2>2. PICK Q : Q = Append(prog, t)
    OBVIOUS
  <2>3. /\ t.e \in {"ctor", "nil"} \/ (t.e = "name" /\ t.y \in Visible)
        /\ \/ t.op = "local" /\ t.x \in Names \ Inner.names
           \/ t.op \in {"assign", "use"} /\ t.x \in Visible
    BY <2>1, TokensOfForm
  <2>4. Q[n + 1] = t /\ \A k \in 1 .. l : Q[o[k]] = prog[o[k]]
    BY <1>0, <1>1, <1>6, <2>2
  <2>5. CASE t.op = "local"
    <3>1. PICK f : f = open[l + 1]
      OBVIOUS
    <3>2. f \in Opened1
      BY <1>4, <1>5, <3>1
    <3>3. PICK g : g = [f EXCEPT !.names = @ \cup {t.x}]
      OBVIOUS
    <3>4. g \in Opened1 /\ g.op = f.op /\ g.names = f.names \cup {t.x}
      BY <2>3, <2>5, <3>2, <3>3 DEF Opened1
    <3>5. PICK blks : blks = [open EXCEPT ![l + 1] = g]
      OBVIOUS
    <3>6. Write(t, blks)
      BY <2>1, <2>5, <3>1, <3>3, <3>5, <1>5
    <3>7. /\ blks \in Seq(Opened1) /\ Len(blks) = l + 1
          /\ blks[l + 1] = g /\ \A i \in 1 .. l : blks[i] = open[i]
      <4>1. l + 1 \in Nat /\ l + 1 \in 1 .. l + 1 /\ \A i \in 1 .. l : i \in 1 .. l + 1 /\ i # l + 1
        BY <1>4
      <4> QED BY <1>5, <3>4, <3>5, <4>1, ChangeOf
    <3>8. PICK d2 : d2 = [d EXCEPT ![l + 1] = d[l + 1] \cup {t.x}]
      OBVIOUS
    <3>9. /\ d2 \in [Nat -> SUBSET Names] /\ d2[l + 1] = d[l + 1] \cup {t.x}
          /\ \A i \in 1 .. l : d2[i] = d[i]
      BY <1>4, <2>3, <2>5, <3>8
    <3>10. \A i \in 1 .. l + 1 : blks[i].names = d2[i] /\ blks[i].op = open[i].op
      <4> TAKE i \in 1 .. l + 1
      <4>1. CASE i = l + 1
        BY <4>1, <1>4, <1>a, <3>1, <3>4, <3>7, <3>9
      <4>2. CASE i \in 1 .. l
        BY <4>2, <1>4, <1>a, <3>7, <3>9
      <4> QED BY <4>1, <4>2, <1>4
    <3>11. /\ \A k \in 1 .. l : a[k] = o[k] => blks[k + 1].op = Q[o[k]].op
           /\ \A k \in 1 .. l : a[k] # o[k] => blks[k + 1].op = "else"
      <4> SUFFICES ASSUME NEW k \in 1 .. l
                   PROVE  /\ a[k] = o[k] => blks[k + 1].op = Q[o[k]].op
                          /\ a[k] # o[k] => blks[k + 1].op = "else"
        OBVIOUS
      <4>1. k + 1 \in 1 .. l + 1
        BY <1>4
      <4>2. blks[k + 1].op = open[k + 1].op /\ Q[o[k]] = prog[o[k]]
        BY <4>1, <3>10, <2>4
      <4> QED BY <4>2, <1>b
    <3>15. /\ \A k \in 1 .. l : a[k] = o[k] => blks[k + 1].op = Q[o[k]].op
           /\ \A k \in 1 .. l : a[k] # o[k] => blks[k + 1].op = "else"
           /\ \A i \in 1 .. l + 1 : blks[i].names = d2[i]
      BY <3>10, <3>11
    <3>12. blks[1].op = "file"
      <4>1. 1 \in 1 .. l + 1
        BY <1>4
      <4> QED BY <4>1, <3>10, <1>d
    <3>13. Fits(Q, l, o, a, d2, blks)
      BY <3>7, <3>12, <3>15, Zenon DEF Fits
    <3>14. PlacedBy(Q, L, n, l, o, a, d2)
      <4> SUFFICES ASSUME NEW M \in Layouts, NextIs(L, M, n, l, o, a, d2)
                   PROVE  Declares(Q, M, n, n + 1)
        BY DEF Placed, PlacedBy
      <4>1. t.x \in Names /\ t.x \notin d[l + 1]
        BY <2>3, <2>5, <1>8
      <4>2. Reads(Q, M, n, n + 1)
        BY <1>11, <2>3, <2>4 DEF Reads, NextIs
      <4> QED BY <1>11, <2>4, <2>5, <3>8, <4>1, <4>2 DEF Declares, NextIs
    <3> QED BY <1>1, <1>4, <2>2, <3>6, <3>9, <3>13, <3>14, OneTokenMore, Zenon
  <2>6. CASE t.op # "local"
    <3>1. Write(t, open)
      BY <2>1, <2>6
    <3>2. PlacedBy(Q, L, n, l, o, a, d)
      <4> SUFFICES ASSUME NEW M \in Layouts, NextIs(L, M, n, l, o, a, d)
                   PROVE  Refers(Q, M, n, n + 1)
        BY DEF Placed, PlacedBy
      <4> QED BY <1>11, <2>3, <2>4, <2>6 DEF Refers, Reads, NextIs
    <3>4. /\ \A k \in 1 .. l : a[k] = o[k] => open[k + 1].op = Q[o[k]].op
          /\ \A k \in 1 .. l : a[k] # o[k] => open[k + 1].op = "else"
      BY <1>b, <2>4
    <3>3. Fits(Q, l, o, a, d, open)
      BY <3>4, <1>f, Zenon DEF Fits
    <3> QED BY <1>1, <1>4, <2>2, <3>1, <3>2, <3>3, OneTokenMore, Zenon
  <2> QED BY <2>5, <2>6
<1>13. ASSUME NEW op \in Openers, ReadOpening(op)
       PROVE  phase' = "read" /\ pc' = pc /\ \E M : Reading(M)'
  <2>1. PICK t, b, blks, Q : /\ t = Mark(op) /\ b = [op |-> op, names |-> {}]
                             /\ blks = Append(open, b) /\ Q = Append(prog, t)
    OBVIOUS
  <2>2. Write(t, blks) /\ t.op = op
    BY <1>13, <2>1 DEF ReadOpening, Mark, Stmt
  <2>3. b \in Opened1 /\ b.op = op /\ b.names = {}
    BY <1>13, <2>1 DEF Opened1, Openers
  <2>4. Q[n + 1] = t /\ \A k \in 1 .. l : Q[o[k]] = prog[o[k]]
    BY <1>0, <1>1, <1>6, <2>1
  <2>5. /\ blks \in Seq(Opened1) /\ Len(blks) = l + 2 /\ blks[l + 2] = b
        /\ \A i \in 1 .. l + 1 : blks[i] = open[i]
    <3>1. l + 1 \in Nat /\ l + 2 = (l + 1) + 1
      BY <1>4
    <3>2. PICK u : u = l + 1
      OBVIOUS
    <3> QED BY <1>5, <2>1, <2>3, <3>1, <3>2, AppendOf
  <2>6. PICK o2, a2, d2 : /\ o2 = [o EXCEPT ![l + 1] = n + 1] /\ a2 = [a EXCEPT ![l + 1] = n + 1]
                          /\ d2 = [d EXCEPT ![l + 2] = {}]
    OBVIOUS
  <2>7. /\ o2 \in [Nat -> Nat] /\ o2[l + 1] = n + 1 /\ \A k \in 1 .. l : o2[k] = o[k]
        /\ a2 \in [Nat -> Nat] /\ a2[l + 1] = n + 1 /\ \A k \in 1 .. l : a2[k] = a[k]
    BY <1>c, <1>4, <2>6
  <2>8. /\ d2 \in [Nat -> SUBSET Names] /\ d2[l + 2] = {} /\ \A i \in 1 .. l + 1 : d2[i] = d[i]
    BY <1>4, <2>6
  <2>9. \A i \in 1 .. (l + 1) + 1 : blks[i].names = d2[i]
    <3> TAKE i \in 1 .. (l + 1) + 1
    <3>1. CASE i = l + 2
      BY <3>1, <2>3, <2>5, <2>8
    <3>2. CASE i \in 1 .. l + 1
      BY <3>2, <1>a, <2>5, <2>8
    <3> QED BY <3>1, <3>2, <1>4
  <2>10. /\ \A k \in 1 .. l + 1 : a2[k] = o2[k] => blks[k + 1].op = Q[o2[k]].op
         /\ \A k \in 1 .. l + 1 : a2[k] # o2[k] => blks[k + 1].op = "else"
    <3> SUFFICES ASSUME NEW k \in 1 .. l + 1
                 PROVE  /\ a2[k] = o2[k] => blks[k + 1].op = Q[o2[k]].op
                        /\ a2[k] # o2[k] => blks[k + 1].op = "else"
      OBVIOUS
    <3>1. CASE k = l + 1
      <4>1. k + 1 = l + 2
        BY <3>1, <1>4
      <4> QED BY <3>1, <4>1, <2>2, <2>3, <2>4, <2>5, <2>7
    <3>2. CASE k \in 1 .. l
      <4>1. k + 1 \in 1 .. l + 1
        BY <3>2, <1>4
      <4>2. blks[k + 1] = open[k + 1] /\ Q[o[k]] = prog[o[k]] /\ o2[k] = o[k] /\ a2[k] = a[k]
        BY <3>2, <4>1, <2>4, <2>5, <2>7
      <4> QED BY <3>2, <4>2, <1>b, Zenon
    <3> QED BY <3>1, <3>2, <1>4
  <2>11. blks[1].op = "file" /\ Len(blks) = (l + 1) + 1 /\ l + 1 \in Nat
    <3>1. 1 \in 1 .. l + 1
      BY <1>4
    <3>2. blks[1] = open[1]
      BY <3>1, <2>5
    <3> QED BY <3>2, <1>4, <1>d, <2>5
  <2>14. /\ \A k \in 1 .. l + 1 : a2[k] = o2[k] => blks[k + 1].op = Q[o2[k]].op
         /\ \A k \in 1 .. l + 1 : a2[k] # o2[k] => blks[k + 1].op = "else"
    BY <2>10
  <2>12. Fits(Q, l + 1, o2, a2, d2, blks)
    BY <2>5, <2>9, <2>11, <2>14, Zenon DEF Fits
  <2>13. PlacedBy(Q, L, n, l + 1, o2, a2, d2)
    <3> SUFFICES ASSUME NEW M \in Layouts, NextIs(L, M, n, l + 1, o2, a2, d2)
                 PROVE  Opens(Q, M, n, n + 1)
      BY DEF Placed, PlacedBy
    <3> QED BY <1>11, <1>13, <2>2, <2>4, <2>6 DEF Opens, NextIs
  <2> QED BY <1>1, <2>1, <2>2, <2>7, <2>8, <2>11, <2>12, <2>13, OneTokenMore, Zenon
<1>18. CASE ReadElse
  <2>1. PICK t, b, s, blks, Q : /\ t = Mark("else") /\ b = [op |-> "else", names |-> {}]
                                /\ s = Front(open) /\ blks = Append(s, b) /\ Q = Append(prog, t)
    OBVIOUS
  <2>2. Write(t, blks) /\ t.op = "else" /\ Inner.op = "if"
    BY <1>18, <2>1 DEF ReadElse, Mark, Stmt
  <2>3. b \in Opened1 /\ b.op = "else" /\ b.names = {}
    BY <2>1 DEF Opened1
  <2>4. Q[n + 1] = t /\ \A k \in 1 .. l : Q[o[k]] = prog[o[k]]
    BY <1>0, <1>1, <1>6, <2>1
  <2>5. l >= 1 /\ l \in 1 .. l /\ a[l] = o[l] /\ prog[o[l]].op = "if"
    BY <1>4, <1>8, <1>15, <1>16, <2>2
  <2>6. s \in Seq(Opened1) /\ Len(s) = l /\ \A i \in 1 .. l : s[i] = open[i]
    BY <1>4, <1>5, <2>1, FrontOf
  <2>7. /\ blks \in Seq(Opened1) /\ Len(blks) = l + 1 /\ blks[l + 1] = b
        /\ \A i \in 1 .. l : blks[i] = open[i]
    <3>1. blks = Append(s, b)
      BY <2>1
    <3>2. PICK S : S = Opened1
      OBVIOUS
    <3>3. s \in Seq(S) /\ b \in S /\ l \in Nat /\ Len(s) = l
      BY <1>4, <2>3, <2>6, <3>2
    <3>4. blks \in Seq(S) /\ Len(blks) = l + 1 /\ blks[l + 1] = b /\ \A i \in 1 .. l : blks[i] = s[i]
      BY <3>1, <3>3, AppendOf
    <3> QED BY <3>2, <3>4, <2>6
  <2>8. PICK a2, d2 : a2 = [a EXCEPT ![l] = n + 1] /\ d2 = [d EXCEPT ![l + 1] = {}]
    OBVIOUS
  <2>9. /\ a2 \in [Nat -> Nat] /\ a2[l] = n + 1 /\ \A k \in 1 .. l - 1 : a2[k] = a[k]
    BY <1>c, <1>4, <2>8
  <2>10. /\ d2 \in [Nat -> SUBSET Names] /\ d2[l + 1] = {} /\ \A i \in 1 .. l : d2[i] = d[i]
    BY <1>4, <2>8
  <2>11. \A i \in 1 .. l + 1 : blks[i].names = d2[i]
    <3> TAKE i \in 1 .. l + 1
    <3>1. CASE i = l + 1
      BY <3>1, <2>3, <2>7, <2>10
    <3>2. CASE i \in 1 .. l
      BY <3>2, <1>4, <1>a, <2>7, <2>10
    <3> QED BY <3>1, <3>2, <1>4
  <2>12. /\ \A k \in 1 .. l : a2[k] = o[k] => blks[k + 1].op = Q[o[k]].op
         /\ \A k \in 1 .. l : a2[k] # o[k] => blks[k + 1].op = "else"
    <3> SUFFICES ASSUME NEW k \in 1 .. l
                 PROVE  /\ a2[k] = o[k] => blks[k + 1].op = Q[o[k]].op
                        /\ a2[k] # o[k] => blks[k + 1].op = "else"
      OBVIOUS
    <3>1. CASE k = l
      <4>1. a2[k] # o[k]
        BY <3>1, <1>c, <1>17, <2>5, <2>9
      <4> QED BY <4>1, <3>1, <2>3, <2>7
    <3>2. CASE k \in 1 .. l - 1
      <4>1. k + 1 \in 1 .. l /\ k \in 1 .. l
        BY <3>2, <1>4
      <4>2. blks[k + 1] = open[k + 1] /\ Q[o[k]] = prog[o[k]] /\ a2[k] = a[k]
        BY <3>2, <4>1, <2>4, <2>7, <2>9
      <4> QED BY <4>1, <4>2, <1>b, Zenon
    <3> QED BY <3>1, <3>2, <1>4
  <2>13. blks[1].op = "file"
    <3>1. 1 \in 1 .. l
      BY <1>4, <2>5
    <3>2. blks[1] = open[1]
      BY <3>1, <2>7
    <3> QED BY <3>2, <1>d
  <2>16. /\ \A k \in 1 .. l : a2[k] = o[k] => blks[k + 1].op = Q[o[k]].op
         /\ \A k \in 1 .. l : a2[k] # o[k] => blks[k + 1].op = "else"
    BY <2>12
  <2>14. Fits(Q, l, o, a2, d2, blks)
    BY <2>7, <2>11, <2>13, <2>16, Zenon DEF Fits
  <2>15. PlacedBy(Q, L, n, l, o, a2, d2)
    <3> SUFFICES ASSUME NEW M \in Layouts, NextIs(L, M, n, l, o, a2, d2)
                 PROVE  Turns(Q, M, n, n + 1)
      BY DEF Placed, PlacedBy
    <3> QED BY <1>11, <2>2, <2>4, <2>5, <2>8 DEF Turns, InnerOp, NextIs
  <2> QED BY <1>1, <1>4, <2>1, <2>2, <2>9, <2>10, <2>14, <2>15, OneTokenMore, Zenon
<1>19. CASE ReadEnd
  <2>1. PICK t, blks, Q : t = Mark("end") /\ blks = Front(open) /\ Q = Append(prog, t)
    OBVIOUS
  <2>2. Write(t, blks) /\ t.op = "end" /\ Inner.op \in {"else", "while", "do"}
    BY <1>19, <2>1 DEF ReadEnd, Mark, Stmt
  <2>3. Q[n + 1] = t /\ \A k \in 1 .. l : Q[o[k]] = prog[o[k]]
    BY <1>0, <1>1, <1>6, <2>1
  <2>4. l >= 1 /\ l \in 1 .. l /\ (prog[o[l]].op = "if" => a[l] # o[l])
    BY <1>4, <1>8, <1>15, <1>16, <2>2
  <2>5. /\ blks \in Seq(Opened1) /\ Len(blks) = l
        /\ \A i \in 1 .. l : blks[i] = open[i]
    BY <1>4, <1>5, <2>1, FrontOf
  <2>6. /\ \A i \in 1 .. (l - 1) + 1 : blks[i].names = d[i]
        /\ \A k \in 1 .. l - 1 : a[k] = o[k] => blks[k + 1].op = Q[o[k]].op
        /\ \A k \in 1 .. l - 1 : a[k] # o[k] => blks[k + 1].op = "else"
    <3>1. /\ \A i \in 1 .. (l - 1) + 1 : i \in 1 .. l /\ i \in 1 .. l + 1
          /\ \A k \in 1 .. l - 1 : k + 1 \in 1 .. l /\ k \in 1 .. l
      BY <1>4
    <3>2. \A k \in 1 .. l - 1 : blks[k + 1] = open[k + 1] /\ Q[o[k]] = prog[o[k]]
      BY <3>1, <2>3, <2>5
    <3> QED BY <3>1, <3>2, <1>a, <1>b, <2>5
  <2>7. blks[1].op = "file" /\ Len(blks) = (l - 1) + 1 /\ l - 1 \in Nat
    <3>1. 1 \in 1 .. l
      BY <1>4, <2>4
    <3>2. blks[1] = open[1]
      BY <3>1, <2>5
    <3> QED BY <3>2, <1>4, <1>d, <2>4, <2>5
  <2>8. Fits(Q, l - 1, o, a, d, blks)
    BY <2>5, <2>6, <2>7, Zenon DEF Fits
  <2>9. PlacedBy(Q, L, n, l - 1, o, a, d)
    <3> SUFFICES ASSUME NEW M \in Layouts, NextIs(L, M, n, l - 1, o, a, d)
                 PROVE  Shuts(Q, M, n, n + 1)
      BY DEF Placed, PlacedBy
    <3> QED BY <1>11, <2>2, <2>3, <2>4 DEF Shuts, InnerOp, NextIs
  <2> QED BY <1>1, <1>4, <2>1, <2>2, <2>7, <2>8, <2>9, OneTokenMore, Zenon
<1>20. CASE ReadFile
  <2>1. l = 0
    <3>1. Len(open) = 1
      BY <1>20 DEF ReadFile
    <3>2. l + 1 = 1
      BY <1>5, <3>1
    <3> QED BY <1>4, <3>2
  <2> QED BY <1>1, <1>3, <2>1, <1>20 DEF ReadFile, source
<1> QED BY <1>12, <1>13, <1>18, <1>19, <1>20 DEF Read

-----------------------------------------------------------------------------
(* The least-number principle, from the well-foundedness of < on Nat. *)
Lesser == {p \in Nat \X Nat : p[1] < p[2]}

LEMMA LesserWellFounded == IsWellFoundedOn(Lesser, Nat)
<1>1. OpToRel(<, Nat) = Lesser
  BY DEF OpToRel, Lesser
<1> QED BY NatLessThanWellFounded, <1>1

(* A nonempty set of naturals has a least element. *)
LEMMA LeastOf ==
  ASSUME NEW T \in SUBSET Nat, T # {}
  PROVE  \E x \in T : \A y \in T : x <= y
<1>1. PICK x \in T : \A y \in T : ~ (<<y, x>> \in Lesser)
  BY LesserWellFounded, WFMin, Zenon
<1>2. ASSUME NEW y \in T PROVE x <= y
  <2>1. <<y, x>> \notin Lesser
    BY <1>1
  <2>2. y < x => <<y, x>> \in Lesser
    BY DEF Lesser
  <2> QED BY <2>1, <2>2
<1> QED BY <1>1, <1>2

-----------------------------------------------------------------------------
(* Scopes: a stack of n bindings, those at d of the names D[d], with values    *)
(* in V.                                                                    *)

Stack(s, n, D, V) ==
  /\ \E S : s \in Seq(S)
  /\ Len(s) = n
  /\ \A d \in 1 .. n : s[d] \in [D[d] -> V]

(* The innermost of the n scopes that declares x is the d-th.                *)
Inmost(D, n, x, d) == d \in 1 .. n /\ x \in D[d] /\ \A e \in d + 1 .. n : x \notin D[e]

Declared(D, n, x) == \E d \in 1 .. n : x \in D[d]

(* Every value of the one stack is contained in that of the other.           *)
Under(a, b, n, D) == \A d \in 1 .. n : \A x \in D[d] : a[d][x] \subseteq b[d][x]

(* A declared name has one innermost scope. *)
LEMMA InmostExists ==
  ASSUME NEW D, NEW n \in Nat, NEW x, Declared(D, n, x)
  PROVE  \E d : Inmost(D, n, x, d)
<1> DEFINE T == {k \in 0 .. n : n - k \in 1 .. n /\ x \in D[n - k]}
<1>1. T \in SUBSET Nat
  OBVIOUS
<1>2. T # {}
  <2>1. PICK d \in 1 .. n : x \in D[d]
    BY DEF Declared
  <2>2. n - d \in 0 .. n /\ n - (n - d) = d
    OBVIOUS
  <2> QED BY <2>1, <2>2
<1>3. PICK k \in T : \A j \in T : k <= j
  BY <1>1, <1>2, LeastOf
<1>4. ASSUME NEW e \in n - k + 1 .. n, x \in D[e] PROVE FALSE
  <2>1. n - e \in 0 .. n /\ n - (n - e) = e /\ e \in 1 .. n /\ n - e < k
    BY <1>3
  <2>2. n - e \in T
    BY <1>4, <2>1
  <2> QED BY <1>3, <2>1, <2>2
<1>5. Inmost(D, n, x, n - k)
  BY <1>3, <1>4 DEF Inmost
<1> QED BY <1>5

LEMMA InmostUnique ==
  ASSUME NEW D, NEW n \in Nat, NEW x, NEW d, NEW e, Inmost(D, n, x, d), Inmost(D, n, x, e)
  PROVE  d = e
<1>1. d \in 1 .. n /\ e \in 1 .. n /\ ~ d < e /\ ~ e < d
  BY DEF Inmost
<1> QED BY <1>1

(* Seen from further out, when that is where the name is. *)
LEMMA InmostOutside ==
  ASSUME NEW D, NEW n \in Nat, NEW x, NEW d, Inmost(D, n, x, d), NEW m \in Nat, NEW E,
         d <= m, m <= n, \A i \in 1 .. m : E[i] = D[i]
  PROVE  Inmost(E, m, x, d)
BY DEF Inmost

LEMMA InmostSame ==
  ASSUME NEW D, NEW n \in Nat, NEW x, NEW d, Inmost(D, n, x, d), NEW E, \A i \in 1 .. n : E[i] = D[i]
  PROVE  Inmost(E, n, x, d)
BY DEF Inmost

(* resolve finds it. *)
LEMMA DepthIs ==
  ASSUME NEW D, NEW n \in Nat, NEW x, NEW d, Inmost(D, n, x, d), NEW V, NEW s, Stack(s, n, D, V)
  PROVE  Depth(s, x) = d
<1> DEFINE Q(i) == x \in DOMAIN s[i] /\ \A e \in i + 1 .. n : x \notin DOMAIN s[e]
<1>1. Len(s) = n /\ \A i \in 1 .. n : DOMAIN s[i] = D[i]
  BY DEF Stack
<1>2. \A i \in 1 .. n : Q(i) <=> i = d
  <2> SUFFICES ASSUME NEW i \in 1 .. n PROVE Q(i) <=> i = d
    OBVIOUS
  <2>1. \A e \in i + 1 .. n : e \in 1 .. n
    OBVIOUS
  <2>2. Q(i) <=> Inmost(D, n, x, i)
    BY <1>1, <2>1 DEF Inmost
  <2> QED BY <2>2, InmostUnique
<1>3. d \in 1 .. n
  BY DEF Inmost
<1>4. Depth(s, x) = CHOOSE i \in 1 .. n : Q(i)
  BY <1>1 DEF Depth
<1> HIDE DEF Q
<1> QED BY <1>2, <1>3, <1>4

LEMMA StackSame ==
  ASSUME NEW D, NEW n \in Nat, NEW V, NEW s, Stack(s, n, D, V), NEW E, \A i \in 1 .. n : E[i] = D[i]
  PROVE  Stack(s, n, E, V)
BY DEF Stack

LEMMA StackWider ==
  ASSUME NEW D, NEW n, NEW V, NEW s, Stack(s, n, D, V), NEW W, V \subseteq W
  PROVE  Stack(s, n, D, W)
BY DEF Stack

Same(s, t, n) == \A i \in 1 .. n : t[i] = s[i]

LEMMA StackOpened ==
  ASSUME NEW D, NEW n \in Nat, NEW V, NEW s, Stack(s, n, D, V), NEW E, E[n + 1] = {},
         \A i \in 1 .. n : E[i] = D[i], NEW t, t = Opened(s)
  PROVE  Stack(t, n + 1, E, V) /\ Same(s, t, n)
<1>1. PICK S : s \in Seq(S)
  BY DEF Stack
<1>2. PICK v : v = [x \in {} |-> {}]
  OBVIOUS
<1>3. s \in Seq(S \cup {v}) /\ Len(s) = n
  BY <1>1 DEF Stack
<1>4. t = Append(s, v)
  BY <1>2 DEF Opened
<1>5. t \in Seq(S \cup {v}) /\ Len(t) = n + 1 /\ t[n + 1] = v /\ \A i \in 1 .. n : t[i] = s[i]
  BY <1>3, <1>4, AppendOf
<1>6. v \in [E[n + 1] -> V]
  BY <1>2
<1>7. \A i \in 1 .. n + 1 : t[i] \in [E[i] -> V]
  <2> TAKE i \in 1 .. n + 1
  <2>1. CASE i = n + 1
    BY <2>1, <1>5, <1>6
  <2>2. CASE i \in 1 .. n
    BY <2>2, <1>5 DEF Stack
  <2> QED BY <2>1, <2>2
<1> QED BY <1>5, <1>7 DEF Stack, Same

LEMMA StackFront ==
  ASSUME NEW D, NEW n \in Nat, NEW V, NEW s, Stack(s, n + 1, D, V), NEW t, t = Front(s)
  PROVE  Stack(t, n, D, V) /\ Same(s, t, n)
<1>1. PICK S : s \in Seq(S)
  BY DEF Stack
<1>2. t \in Seq(S) /\ Len(t) = n /\ \A i \in 1 .. n : t[i] = s[i]
  BY <1>1, FrontOf DEF Stack
<1>3. \A i \in 1 .. n : t[i] \in [D[i] -> V]
  BY <1>2 DEF Stack
<1> QED BY <1>2, <1>3 DEF Stack, Same

(* t is s with the binding of x at d now v. *)
Changed(s, t, D, n, d, x, v) ==
  /\ t[d][x] = v
  /\ \A i \in 1 .. n : \A y \in D[i] : i # d \/ y # x => t[i][y] = s[i][y]

(* One binding changed. *)
LEMMA StackUpdate ==
  ASSUME NEW D, NEW n \in Nat, NEW V, NEW s, Stack(s, n, D, V), NEW d \in 1 .. n, NEW x \in D[d],
         NEW v \in V, NEW t, t = [s EXCEPT ![d][x] = v]
  PROVE  Stack(t, n, D, V) /\ Changed(s, t, D, n, d, x, v)
<1>1. PICK S : s \in Seq(S)
  BY DEF Stack
<1>2. PICK f : f = [s[d] EXCEPT ![x] = v]
  OBVIOUS
<1>3. Len(s) = n /\ \A i \in 1 .. n : s[i] \in [D[i] -> V]
  BY DEF Stack
<1>4. f \in [D[d] -> V] /\ f[x] = v /\ \A y \in D[d] : y # x => f[y] = s[d][y]
  BY <1>2, <1>3
<1>5. s \in Seq(S \cup {f}) /\ t = [s EXCEPT ![d] = f]
  BY <1>1, <1>2
<1>6. t \in Seq(S \cup {f}) /\ Len(t) = n /\ t[d] = f /\ \A i \in 1 .. n : i # d => t[i] = s[i]
  BY <1>3, <1>5, ChangeOf
<1>7. \A i \in 1 .. n : t[i] \in [D[i] -> V]
  BY <1>3, <1>4, <1>6
<1>8. Stack(t, n, D, V)
  BY ONLY <1>6, <1>7 DEF Stack
<1>9. Changed(s, t, D, n, d, x, v)
  BY ONLY <1>4, <1>6 DEF Changed
<1> QED BY ONLY <1>8, <1>9

(* A name declared in the innermost scope. *)
LEMMA StackBind ==
  ASSUME NEW D, NEW n \in Nat, NEW V, NEW s, Stack(s, n, D, V), n >= 1, NEW x,
         NEW v \in V, NEW t, t = [s EXCEPT ![n] = Bind(s[n], x, v)],
         NEW E, E[n] = D[n] \cup {x}, \A i \in 1 .. n - 1 : E[i] = D[i]
  PROVE  Stack(t, n, E, V) /\ Changed(s, t, D, n, n, x, v)
<1>1. PICK S : s \in Seq(S)
  BY DEF Stack
<1>2. PICK f : f = Bind(s[n], x, v)
  OBVIOUS
<1>3. Len(s) = n /\ n \in 1 .. n /\ \A i \in 1 .. n : s[i] \in [D[i] -> V]
  BY DEF Stack
<1>4. f \in [D[n] \cup {x} -> V] /\ f[x] = v /\ \A y \in D[n] : y # x => f[y] = s[n][y]
  BY <1>2, <1>3 DEF Bind
<1>5. s \in Seq(S \cup {f}) /\ t = [s EXCEPT ![n] = f]
  BY <1>1, <1>2
<1>6. t \in Seq(S \cup {f}) /\ Len(t) = n /\ t[n] = f /\ \A i \in 1 .. n : i # n => t[i] = s[i]
  BY <1>3, <1>5, ChangeOf
<1>7. \A i \in 1 .. n : t[i] \in [E[i] -> V]
  <2> TAKE i \in 1 .. n
  <2>1. CASE i = n
    BY <2>1, <1>4, <1>6
  <2>2. CASE i \in 1 .. n - 1
    BY <2>2, <1>3, <1>6
  <2> QED BY <2>1, <2>2
<1> QED BY <1>4, <1>6, <1>7 DEF Stack, Changed

(* A stack given scope by scope. *)
LEMMA StackGiven ==
  ASSUME NEW D, NEW n \in Nat, NEW V, NEW t, DOMAIN t = 1 .. n, t = [i \in DOMAIN t |-> t[i]],
         \A i \in 1 .. n : t[i] \in [D[i] -> V]
  PROVE  Stack(t, n, D, V)
<1>1. t \in Seq({t[i] : i \in 1 .. n}) /\ Len(t) = n
  <2> PICK T : T = {t[i] : i \in 1 .. n}
    OBVIOUS
  <2>1. t \in [1 .. n -> T]
    OBVIOUS
  <2> QED BY <2>1
<1> QED BY <1>1 DEF Stack

LEMMA StackDomain ==
  ASSUME NEW D, NEW n \in Nat, NEW V, NEW s, Stack(s, n, D, V)
  PROVE  DOMAIN s = 1 .. n /\ \A i \in 1 .. n : DOMAIN s[i] = D[i]
<1>1. PICK S : s \in Seq(S)
  BY DEF Stack
<1>2. Len(s) = n
  BY DEF Stack
<1> QED BY <1>1, <1>2 DEF Stack

(* The join of two stacks. *)
Merged(a, b, t, n, D) == \A d \in 1 .. n : \A x \in D[d] : t[d][x] = a[d][x] \cup b[d][x]

LEMMA StackMerge ==
  ASSUME NEW D, NEW n \in Nat, NEW V, NEW a, Stack(a, n, D, SUBSET V),
         NEW b, Stack(b, n, D, SUBSET V), NEW t, t = Merge(a, b)
  PROVE  Stack(t, n, D, SUBSET V) /\ Merged(a, b, t, n, D)
<1>1. DOMAIN a = 1 .. n /\ \A i \in 1 .. n : DOMAIN a[i] = D[i]
  BY StackDomain
<1>2. t = [d \in 1 .. n |-> [x \in D[d] |-> a[d][x] \cup b[d][x]]]
  BY <1>1 DEF Merge
<1>3. \A i \in 1 .. n : a[i] \in [D[i] -> SUBSET V] /\ b[i] \in [D[i] -> SUBSET V]
  BY DEF Stack
<1>4. \A i \in 1 .. n : t[i] \in [D[i] -> SUBSET V]
  <2> TAKE i \in 1 .. n
  <2>1. t[i] = [x \in D[i] |-> a[i][x] \cup b[i][x]]
    BY <1>2
  <2> QED BY <1>3, <2>1
<1>5. DOMAIN t = 1 .. n /\ t = [i \in DOMAIN t |-> t[i]]
  BY <1>2
<1>6. Stack(t, n, D, SUBSET V)
  BY <1>4, <1>5, StackGiven
<1>7. \A d \in 1 .. n : \A x \in D[d] : t[d][x] = a[d][x] \cup b[d][x]
  BY <1>2
<1> QED BY <1>6, <1>7 DEF Merged

-----------------------------------------------------------------------------
(* What the walk leaves behind: h[p] are the scopes it last reached token p with. *)

(* A program of N tokens, all its blocks closed. *)
Program(P, N, L) ==
  /\ N \in Nat /\ Len(P) = N /\ \E T : P \in Seq(T)
  /\ Layout(P, L)
  /\ L.lev[N] = 0

(* v covers the right-hand side of token p, read in the scopes a.             *)
Gives(P, p, D, n, a, v) ==
  /\ P[p].e = "ctor" => p \in v
  /\ P[p].e = "nil" => NullRoot \in v
  /\ P[p].e = "name" => \A d : Inmost(D, n, P[p].y, d) => a[d][P[p].y] \subseteq v

(* The binding of x at d apart, b covers a. *)
UnderBut(a, b, n, D, d, x) ==
  \A i \in 1 .. n : \A y \in D[i] : i # d \/ y # x => a[i][y] \subseteq b[i][y]

(* The binding of x at d shares no site with another. *)
Alone(a, n, D, d, x) ==
  \A i \in 1 .. n : \A y \in D[i] : i # d \/ y # x => a[i][y] \cap a[d][x] \subseteq {NullRoot}

FlowStmt(P, p, D, n, a, b) ==
  LET x == P[p].x
  IN /\ P[p].op = "local" => Gives(P, p, D, n, a, b[n][x]) /\ Under(a, b, n, D)
     /\ P[p].op = "assign" =>
          \A d : Inmost(D, n, x, d) => Gives(P, p, D, n, a, b[d][x]) /\ UnderBut(a, b, n, D, d, x)
     /\ P[p].op = "use" =>
          Under(a, b, n, D) /\ \A d : Inmost(D, n, x, d) => NullRoot \notin a[d][x]
     /\ P[p].op \in Openers => Under(a, b, n, D)

(* The block whose l-th and last scope ends: what it frees, its names hold.   *)
FlowExit(D, l, a, frees) ==
  /\ \A x \in D[l + 1] : \A d \in 1 .. l : \A y \in D[d] : a[l + 1][x] \cap a[d][y] \subseteq {NullRoot}
  /\ \A f \in frees : /\ f.carrier \in D[l + 1]
                      /\ f.site \in a[l + 1][f.carrier] /\ f.site # NullRoot

FlowBlock(P, L, h, F, o, p) ==
  LET l == L.lev[o]
      D == L.dcl[o]
      q == L.opn[o][l]
  IN /\ P[p].op = "else" => Under(h[q], h[p + 1], l, D)
     /\ P[p].op = "end" =>
          /\ Under(h[p], h[p + 1], l, D)
          /\ P[q].op = "if" => Under(h[L.arm[o][l]], h[p + 1], l, D)
          /\ P[q].op = "while" => Under(h[p], h[q + 1], l, D) /\ Under(h[q + 1], h[p + 1], l, D)
          /\ P[q].op = "do" => p \in DOMAIN F /\ FlowExit(D, l, h[p], F[p])

Flow(P, L, h, F, o, p) ==
  /\ FlowStmt(P, p, L.dcl[o], L.lev[o] + 1, h[p], h[p + 1])
  /\ FlowBlock(P, L, h, F, o, p)

(* The alias sets of the names of an N-token program. *)
AliasSets(N) == SUBSET (0 .. N)

ShapedAt(L, N, o, s) == Stack(s, L.lev[o] + 1, L.dcl[o], AliasSets(N))

(* What the k-th of the enclosing walk_stmt calls keeps. *)
IsFrame(f) == f = [op |-> f.op, start |-> f.start, entry |-> f.entry, other |-> f.other]
FrameOK(P, L, N, h, f, o, k) ==
  LET q == L.opn[o][k]
      m == L.arm[o][k]
  IN /\ IsFrame(f) /\ f.op = P[q].op /\ f.start = q /\ f.entry = h[q]
     /\ Stack(f.other, k, L.dcl[o], AliasSets(N))
     /\ P[q].op = "while" => \A d \in 1 .. k : f.other[d] = h[q + 1][d]
     /\ P[q].op = "if" /\ m # q => \A d \in 1 .. k : f.other[d] = h[m][d]

FramesOK(P, L, N, h, fs, o) ==
  /\ \E S : fs \in Seq(S)
  /\ Len(fs) = L.lev[o]
  /\ \A k \in 1 .. L.lev[o] : FrameOK(P, L, N, h, fs[k], o, k)

SoleDrop(P, L, h, o, p) ==
  /\ P[p].op = "assign" /\ P[p].e = "nil"
  /\ \A d : Inmost(L.dcl[o], L.lev[o] + 1, P[p].x, d) => Alone(h[p], L.lev[o] + 1, L.dcl[o], d, P[p].x)

EndIn(P, i) == CHOOSE j \in i .. Len(P) :
  NestingIn(P, i, j) = 0 /\ \A k \in i .. j - 1 : NestingIn(P, i, k) # 0

(* Every drop comes before or after a loop, not inside. *)
OutsideIn(P) == \A p, i \in DOMAIN P :
  P[p].op = "assign" /\ P[p].e = "nil" /\ P[i].op = "while" /\ i < p => EndIn(P, i) < p

IsHist(h) == h = [p \in Nat |-> h[p]]

WalkedTo(P, N, L, h, c) ==
  /\ Program(P, N, L) /\ IsHist(h) /\ c \in 1 .. N + 1
  /\ prog = P
  /\ \A p \in 1 .. c - 1 : Flow(P, L, h, doExitFrees, p - 1, p)
  /\ \A p \in 1 .. c : ShapedAt(L, N, p - 1, h[p])
  /\ freeSites \subseteq 1 .. N /\ freedSites \subseteq 1 .. N
  /\ OutsideIn(P) => \A p \in freeSites : p < c /\ SoleDrop(P, L, h, p - 1, p)

WalkOK(P, N, L, h) ==
  /\ WalkedTo(P, N, L, h, pc)
  /\ h[pc] = scopes
  /\ FramesOK(P, L, N, h, frames, pc - 1)

(* Where the token stands in the layout. *)
LEMMA TokenAt ==
  ASSUME NEW P, NEW N, NEW L, Program(P, N, L), NEW c \in 1 .. N, NEW o, o = c - 1
  PROVE  /\ Placed(P, L, o, c)
         /\ o \in Nat /\ o \in 0 .. N /\ L.lev[o] \in Nat /\ L.lev[c] \in Nat
         /\ \A k \in 1 .. L.lev[o] : Around(P, L, o, k)
<1>1. N \in Nat /\ Len(P) = N /\ L \in Layouts /\ L.lev[0] = 0
  BY DEF Program, Layout
<1>2. Placed(P, L, o, c)
  BY <1>1 DEF Program, Layout
<1>3. o \in Nat /\ o \in 0 .. N /\ c \in Nat
  BY <1>1
<1>4. L.lev[o] \in Nat /\ L.lev[c] \in Nat
  BY <1>1, <1>3, LayoutTypes
<1>5. \A k \in 1 .. L.lev[o] : Around(P, L, o, k)
  <2>1. CASE o = 0
    BY <1>1, <2>1
  <2>2. CASE o \in 1 .. N
    BY <2>2, <1>1 DEF Program, Layout
  <2> QED BY <1>3, <2>1, <2>2
<1> QED BY <1>2, <1>3, <1>4, <1>5

(* A frame lasts as long as its block. *)
LEMMA FrameStays ==
  ASSUME NEW P, NEW N, NEW L, Program(P, N, L), NEW c \in 1 .. N, NEW o, o = c - 1,
         NEW k \in 1 .. L.lev[o], L.opn[c][k] = L.opn[o][k], L.arm[c][k] = L.arm[o][k],
         Same(L.dcl[o], L.dcl[c], k), NEW h, NEW g, Same(h, g, c),
         NEW f, FrameOK(P, L, N, h, f, o, k)
  PROVE  FrameOK(P, L, N, g, f, c, k)
<1>1. PICK q, m : q = L.opn[o][k] /\ m = L.arm[o][k]
  OBVIOUS
<1>2. o \in Nat /\ L.lev[o] \in Nat /\ Around(P, L, o, k)
  BY TokenAt
<1>3. q \in 1 .. c /\ q + 1 \in 1 .. c /\ m \in 1 .. c
  BY <1>1, <1>2 DEF Around
<1>4. g[q] = h[q] /\ g[q + 1] = h[q + 1] /\ g[m] = h[m]
  BY <1>3 DEF Same
<1>5. /\ IsFrame(f) /\ f.op = P[q].op /\ f.start = q /\ f.entry = h[q]
      /\ Stack(f.other, k, L.dcl[o], AliasSets(N))
      /\ P[q].op = "while" => \A d \in 1 .. k : f.other[d] = h[q + 1][d]
      /\ P[q].op = "if" /\ m # q => \A d \in 1 .. k : f.other[d] = h[m][d]
  BY <1>1 DEF FrameOK
<1>6. k \in Nat
  BY <1>2
<1>7. Stack(f.other, k, L.dcl[c], AliasSets(N))
  BY <1>5, <1>6, StackSame DEF Same
<1>8. L.opn[c][k] = q /\ L.arm[c][k] = m
  BY <1>1
<1> QED BY ONLY <1>4, <1>5, <1>7, <1>8 DEF FrameOK

(* One token more. *)
Grown(h, g, c, s) == IsHist(g) /\ g[c + 1] = s /\ Same(h, g, c)

LEMMA HistGrows ==
  ASSUME NEW h, IsHist(h), NEW c \in Nat, NEW s, NEW g, g = [h EXCEPT ![c + 1] = s]
  PROVE  Grown(h, g, c, s)
<1>1. c + 1 \in Nat /\ \A p \in 1 .. c : p \in Nat /\ p # c + 1
  OBVIOUS
<1> QED BY <1>1 DEF IsHist, Grown, Same

(* What holds between two tokens still does when a later one is walked.       *)
LEMMA FlowKeeps ==
  ASSUME NEW P, NEW N, NEW L, Program(P, N, L), NEW p \in 1 .. N, NEW o, o = p - 1,
         NEW h, NEW g, NEW c \in Nat, p + 1 \in 1 .. c, NEW s, Grown(h, g, c, s),
         NEW F, NEW G, p \in DOMAIN F => p \in DOMAIN G /\ G[p] = F[p],
         Flow(P, L, h, F, o, p)
  PROVE  Flow(P, L, g, G, o, p)
<1>1. \A i \in 1 .. c : g[i] = h[i]
  BY DEF Grown, Same
<1>2. N \in Nat
  BY DEF Program
<1>3. Placed(P, L, o, p) /\ L.lev[o] \in Nat /\ \A k \in 1 .. L.lev[o] : Around(P, L, o, k)
  BY TokenAt
<1>4. g[p] = h[p] /\ g[p + 1] = h[p + 1]
  <2>1. p \in 1 .. c
    BY <1>2
  <2> QED BY <2>1, <1>1
<1>5. PICK q, m : q = L.opn[o][L.lev[o]] /\ m = L.arm[o][L.lev[o]]
  OBVIOUS
<1>6. P[p].op \in {"else", "end"} => g[q] = h[q] /\ g[m] = h[m] /\ g[q + 1] = h[q + 1]
  <2> SUFFICES ASSUME P[p].op \in {"else", "end"}
               PROVE  g[q] = h[q] /\ g[m] = h[m] /\ g[q + 1] = h[q + 1]
    OBVIOUS
  <2>1. L.lev[o] >= 1
    BY <1>3 DEF Placed, Opens, Turns, Shuts, Declares, Refers, Openers
  <2>2. Around(P, L, o, L.lev[o])
    BY <1>3, <2>1
  <2>3. q \in 1 .. o /\ m \in q .. o
    BY <1>5, <2>2 DEF Around
  <2>4. q \in 1 .. c /\ m \in 1 .. c /\ q + 1 \in 1 .. c
    BY <1>2, <2>3
  <2> QED BY <2>4, <1>1
<1>7. FlowStmt(P, p, L.dcl[o], L.lev[o] + 1, g[p], g[p + 1])
  BY <1>4 DEF Flow
<1>8. FlowBlock(P, L, g, G, o, p)
  <2>1. FlowBlock(P, L, h, F, o, p)
    BY DEF Flow
  <2>2. P[p].op = "else" => FlowBlock(P, L, g, G, o, p)
    BY <1>4, <1>5, <1>6, <2>1 DEF FlowBlock
  <2>3. P[p].op = "end" => FlowBlock(P, L, g, G, o, p)
    BY <1>4, <1>5, <1>6, <2>1 DEF FlowBlock
  <2>4. P[p].op \notin {"else", "end"} => FlowBlock(P, L, g, G, o, p)
    BY DEF FlowBlock
  <2> QED BY <2>2, <2>3, <2>4
<1> QED BY <1>7, <1>8 DEF Flow

(* The walk goes on to the next token, with the scopes s. *)
LEMMA WalkMoves ==
  ASSUME NEW P, NEW N, NEW L, NEW h, NEW c, NEW o, c = pc, o = c - 1, c \in 1 .. N,
         WalkOK(P, N, L, h), prog' = prog, pc' = c + 1,
         NEW s, scopes' = s, ShapedAt(L, N, c, s), NEW g, Grown(h, g, c, s),
         Flow(P, L, g, doExitFrees', o, c), FramesOK(P, L, N, g, frames', c),
         freeSites' \subseteq 1 .. N, freedSites' \subseteq 1 .. N,
         OutsideIn(P) => \A p \in freeSites' : p \in freeSites \/ (p = c /\ SoleDrop(P, L, g, o, c)),
         \A p \in 1 .. c - 1 : p \in DOMAIN doExitFrees =>
           p \in DOMAIN doExitFrees' /\ doExitFrees'[p] = doExitFrees[p]
  PROVE  WalkOK(P, N, L, g)'
<1>1. /\ Program(P, N, L) /\ IsHist(h) /\ prog = P
      /\ \A p \in 1 .. c - 1 : Flow(P, L, h, doExitFrees, p - 1, p)
      /\ \A p \in 1 .. c : ShapedAt(L, N, p - 1, h[p])
      /\ OutsideIn(P) => \A p \in freeSites : p < c /\ SoleDrop(P, L, h, p - 1, p)
  BY Zenon DEF WalkOK, WalkedTo
<1>2. N \in Nat
  BY <1>1 DEF Program
<1>3. c \in Nat /\ c + 1 \in Nat /\ c + 1 \in 1 .. N + 1 /\ (c + 1) - 1 = c
  BY <1>2
<1>4. IsHist(g) /\ g[c + 1] = s /\ \A p \in 1 .. c : g[p] = h[p]
  BY DEF Grown, Same
<1>5. \A p \in 1 .. c - 1 : Flow(P, L, g, doExitFrees', p - 1, p)
  <2> SUFFICES ASSUME NEW p \in 1 .. c - 1
               PROVE  Flow(P, L, g, doExitFrees', p - 1, p)
    OBVIOUS
  <2>1. PICK i : i = p - 1
    OBVIOUS
  <2>2. Flow(P, L, h, doExitFrees, i, p) /\ p \in 1 .. N /\ p + 1 \in 1 .. c
    BY <1>1, <1>2, <1>3, <2>1
  <2>3. p \in DOMAIN doExitFrees => p \in DOMAIN doExitFrees' /\ doExitFrees'[p] = doExitFrees[p]
    OBVIOUS
  <2> QED BY <2>1, <2>2, <2>3, <1>1, FlowKeeps
<1>6. \A p \in 1 .. c + 1 : ShapedAt(L, N, p - 1, g[p])
  <2> TAKE p \in 1 .. c + 1
  <2>1. CASE p = c + 1
    BY <2>1, <1>3, <1>4
  <2>2. CASE p \in 1 .. c
    BY <2>2, <1>1, <1>4
  <2> QED BY <2>1, <2>2, <1>3
<1>7. \A p \in 1 .. (c + 1) - 1 : Flow(P, L, g, doExitFrees', p - 1, p)
  <2> TAKE p \in 1 .. (c + 1) - 1
  <2>1. CASE p = c
    BY <2>1
  <2>2. CASE p \in 1 .. c - 1
    BY <2>2, <1>5
  <2> QED BY <2>1, <2>2, <1>3
<1>8. OutsideIn(P) => \A p \in freeSites' : p < c + 1 /\ SoleDrop(P, L, g, p - 1, p)
  <2> SUFFICES ASSUME OutsideIn(P), NEW p \in freeSites'
               PROVE  p < c + 1 /\ SoleDrop(P, L, g, p - 1, p)
    OBVIOUS
  <2>1. CASE p = c /\ SoleDrop(P, L, g, o, c)
    BY <2>1, <1>3
  <2>2. CASE p \in freeSites
    <3>1. p < c /\ SoleDrop(P, L, h, p - 1, p)
      BY <2>2, <1>1
    <3>2. p \in 1 .. c
      <4>1. p \in 1 .. N
        OBVIOUS
      <4> QED BY <4>1, <3>1, <1>3
    <3>3. g[p] = h[p]
      BY <3>2, <1>4
    <3> QED BY <3>1, <3>2, <3>3, <1>3 DEF SoleDrop
  <2> QED BY <2>1, <2>2
<1>9. WalkedTo(P, N, L, g, c + 1)'
  BY <1>1, <1>3, <1>4, <1>6, <1>7, <1>8 DEF WalkedTo
<1>10. (g[pc] = scopes)' /\ FramesOK(P, L, N, g, frames, pc - 1)'
  BY <1>3, <1>4
<1> QED BY <1>9, <1>10 DEF WalkOK

(* Where the walk stands: at token c, in l blocks with the declarations D.     *)
Here(L, c, o, l, D) == c = pc /\ o = c - 1 /\ l = L.lev[o] /\ D = L.dcl[o]

LEMMA WalkStands ==
  ASSUME NEW P, NEW N, NEW L, NEW h, WalkOK(P, N, L, h), NEW op, At(op),
         NEW c, NEW o, NEW l, NEW D, Here(L, c, o, l, D)
  PROVE  /\ c \in 1 .. N /\ N \in Nat /\ Program(P, N, L) /\ L \in Layouts /\ IsHist(h)
         /\ Token = P[c] /\ P[c].op = op
         /\ Placed(P, L, o, c) /\ o \in Nat /\ l \in Nat /\ L.lev[c] \in Nat
         /\ D \in [Nat -> SUBSET Names]
         /\ \A k \in 1 .. l : Around(P, L, o, k)
         /\ Stack(scopes, l + 1, D, AliasSets(N)) /\ h[c] = scopes
         /\ FramesOK(P, L, N, h, frames, o)
         /\ freeSites \subseteq 1 .. N /\ freedSites \subseteq 1 .. N
<1>0. c = pc /\ o = c - 1 /\ l = L.lev[o] /\ D = L.dcl[o]
  BY DEF Here
<1>1. /\ WalkedTo(P, N, L, h, c) /\ h[c] = scopes /\ FramesOK(P, L, N, h, frames, o)
  BY <1>0, Zenon DEF WalkOK
<1>2. /\ Program(P, N, L) /\ IsHist(h) /\ prog = P /\ c \in 1 .. N + 1
      /\ \A p \in 1 .. c : ShapedAt(L, N, p - 1, h[p])
      /\ freeSites \subseteq 1 .. N /\ freedSites \subseteq 1 .. N
  BY <1>1, Zenon DEF WalkedTo
<1>3. N \in Nat /\ Len(P) = N /\ L \in Layouts
  BY <1>2 DEF Program, Layout
<1>4. c <= N /\ Token = P[c] /\ P[c].op = op
  BY <1>0, <1>2, <1>3 DEF At, Token
<1>5. c \in 1 .. N /\ c \in 1 .. c
  BY <1>2, <1>3, <1>4
<1>6. Stack(scopes, l + 1, D, AliasSets(N))
  BY <1>0, <1>1, <1>2, <1>5 DEF ShapedAt
<1>7. /\ Placed(P, L, o, c) /\ o \in Nat /\ l \in Nat /\ L.lev[c] \in Nat
      /\ \A k \in 1 .. l : Around(P, L, o, k)
  BY <1>0, <1>2, <1>5, TokenAt
<1>8. D \in [Nat -> SUBSET Names]
  BY <1>0, <1>3, <1>7, LayoutTypes
<1> QED BY <1>1, <1>2, <1>3, <1>4, <1>5, <1>6, <1>7, <1>8

(* A right-hand side denotes sites of the program. *)
LEMMA DenotesGives ==
  ASSUME NEW P, NEW N \in Nat, NEW L, NEW c \in 1 .. N, NEW o, NEW l \in Nat, NEW D,
         Here(L, c, o, l, D), Token = P[c], Reads(P, L, o, c),
         Stack(scopes, l + 1, D, AliasSets(N))
  PROVE  Denotes(Token) \in AliasSets(N) /\ Gives(P, c, D, l + 1, scopes, Denotes(Token))
<1> DEFINE n == l + 1
<1>0. n \in Nat
  OBVIOUS
<1> HIDE DEF n
<1>x. Stack(scopes, n, D, AliasSets(N)) /\ n = L.lev[o] + 1 /\ D = L.dcl[o] /\ c = pc
  BY DEF n, Here
<1> SUFFICES Denotes(Token) \in AliasSets(N) /\ Gives(P, c, D, n, scopes, Denotes(Token))
  BY DEF n
<1>1. CASE P[c].e = "ctor"
  <2>1. Denotes(Token) = {c}
    BY <1>1, <1>x DEF Denotes
  <2> QED BY <1>1, <2>1 DEF Gives, AliasSets
<1>2. CASE P[c].e = "nil"
  <2>1. Denotes(Token) = {0}
    BY <1>2 DEF Denotes, NullRoot
  <2> QED BY <1>2, <2>1 DEF Gives, NullRoot, AliasSets
<1>3. CASE P[c].e = "name"
  <2>1. PICK y : y = P[c].y
    OBVIOUS
  <2>2. Declared(D, n, y)
    BY <1>3, <1>x, <2>1 DEF Reads, Seen, Declared
  <2>3. PICK d : Inmost(D, n, y, d)
    BY <1>0, <2>2, InmostExists
  <2>4. Denotes(Token) = scopes[Depth(scopes, y)][y]
    BY <1>3, <2>1 DEF Denotes, Aliases
  <2>5. Depth(scopes, y) = d
    BY <1>0, <1>x, <2>3, DepthIs
  <2>6. d \in 1 .. n /\ y \in D[d]
    BY <2>3 DEF Inmost
  <2>7. scopes[d] \in [D[d] -> AliasSets(N)]
    BY <1>x, <2>6 DEF Stack
  <2>8. Denotes(Token) \in AliasSets(N)
    BY <2>4, <2>5, <2>6, <2>7
  <2>9. \A e : Inmost(D, n, y, e) => scopes[e][y] \subseteq Denotes(Token)
    BY <2>3, <2>4, <2>5, <1>0, InmostUnique
  <2> QED BY <1>3, <2>1, <2>8, <2>9 DEF Gives
<1> QED BY <1>1, <1>2, <1>3 DEF Reads

(* The frames of a token that opens and closes nothing. *)
LEMMA FramesStay ==
  ASSUME NEW P, NEW N, NEW L, Program(P, N, L), NEW c \in 1 .. N, NEW o, o = c - 1,
         L.lev[c] = L.lev[o], L.opn[c] = L.opn[o], L.arm[c] = L.arm[o],
         Same(L.dcl[o], L.dcl[c], L.lev[o]), NEW h, NEW g, Same(h, g, c),
         NEW fs, FramesOK(P, L, N, h, fs, o)
  PROVE  FramesOK(P, L, N, g, fs, c)
<1>1. L.lev[o] \in Nat
  BY TokenAt
<1>2. \A k \in 1 .. L.lev[o] : FrameOK(P, L, N, g, fs[k], c, k)
  <2> TAKE k \in 1 .. L.lev[o]
  <2>1. FrameOK(P, L, N, h, fs[k], o, k)
    BY DEF FramesOK
  <2>2. Same(L.dcl[o], L.dcl[c], k)
    BY <1>1 DEF Same
  <2> QED BY <2>1, <2>2, FrameStays
<1> QED BY <1>2 DEF FramesOK

LEMMA WalkLocalOK ==
  ASSUME NEW P, NEW N, NEW L, NEW h, WalkOK(P, N, L, h), WalkLocal
  PROVE  \E g : WalkOK(P, N, L, g)'
<1>1. PICK c, o, l, D : Here(L, c, o, l, D)
  BY DEF Here
<1>0. c = pc /\ o = c - 1 /\ l = L.lev[o] /\ D = L.dcl[o]
  BY <1>1 DEF Here
<1>2. At("local") /\ prog' = prog /\ pc' = c + 1 /\ UNCHANGED <<frames, freeSites, freedSites, doExitFrees>>
  BY <1>0 DEF WalkLocal, Advance, source
<1>3. /\ c \in 1 .. N /\ N \in Nat /\ Program(P, N, L) /\ L \in Layouts /\ IsHist(h)
      /\ Token = P[c] /\ P[c].op = "local"
      /\ Placed(P, L, o, c) /\ o \in Nat /\ l \in Nat
      /\ D \in [Nat -> SUBSET Names]
      /\ Stack(scopes, l + 1, D, AliasSets(N)) /\ h[c] = scopes
      /\ FramesOK(P, L, N, h, frames, o)
      /\ freeSites \subseteq 1 .. N /\ freedSites \subseteq 1 .. N
  BY <1>1, <1>2, WalkStands
<1>4. PICK x, v, n : x = P[c].x /\ v = Denotes(Token) /\ n = l + 1
  OBVIOUS
<1>5. Declares(P, L, o, c)
  BY <1>3 DEF Placed, Opens, Turns, Shuts, Refers, Openers
<1>6. /\ Reads(P, L, o, c) /\ x \notin D[n]
      /\ L.lev[c] = l /\ L.opn[c] = L.opn[o] /\ L.arm[c] = L.arm[o]
      /\ L.dcl[c] = [D EXCEPT ![n] = D[n] \cup {x}]
  BY <1>0, <1>4, <1>5 DEF Declares
<1>7. n \in Nat /\ n >= 1 /\ n - 1 = l /\ c \in Nat
  BY <1>3, <1>4
<1>8. v \in AliasSets(N) /\ Gives(P, c, D, n, scopes, v)
  BY <1>1, <1>3, <1>4, <1>6, DenotesGives
<1>9. PICK E : E = L.dcl[c]
  OBVIOUS
<1>10. E[n] = D[n] \cup {x} /\ \A d \in 1 .. l : E[d] = D[d]
  BY <1>3, <1>6, <1>7, <1>9
<1>11. PICK s : s = [scopes EXCEPT ![n] = Bind(scopes[n], x, v)]
  OBVIOUS
<1>x. Stack(scopes, n, D, AliasSets(N))
  BY <1>3, <1>4
<1>12. scopes' = s
  <2>1. Len(scopes) = n
    BY <1>x DEF Stack
  <2> QED BY <2>1, <1>3, <1>4, <1>11 DEF WalkLocal
<1>13. Stack(s, n, E, AliasSets(N)) /\ Changed(scopes, s, D, n, n, x, v)
  <2>1. n \in Nat /\ n >= 1 /\ v \in AliasSets(N) /\ \A i \in 1 .. n - 1 : E[i] = D[i]
    BY <1>7, <1>8, <1>10
  <2> QED BY <1>x, <2>1, <1>10, <1>11, StackBind, Zenon
<1>14. PICK g : g = [h EXCEPT ![c + 1] = s]
  OBVIOUS
<1>y. Grown(h, g, c, s)
  BY <1>3, <1>7, <1>14, HistGrows, Zenon
<1>15. g[c + 1] = s /\ Same(h, g, c) /\ \A p \in 1 .. c : g[p] = h[p]
  BY <1>y DEF Grown, Same
<1>16. g[c] = scopes
  BY <1>3, <1>7, <1>15
<1>17. Under(scopes, s, n, D)
  BY <1>6, <1>13 DEF Under, Changed
<1>18. FlowStmt(P, c, D, n, scopes, s)
  BY <1>3, <1>4, <1>8, <1>13, <1>17 DEF FlowStmt, Openers, Changed
<1>19. Flow(P, L, g, doExitFrees', o, c)
  <2>1. FlowBlock(P, L, g, doExitFrees', o, c)
    BY <1>3 DEF FlowBlock
  <2> QED BY <2>1, <1>0, <1>4, <1>15, <1>16, <1>18 DEF Flow
<1>20. FramesOK(P, L, N, g, frames', c)
  <2>1. FramesOK(P, L, N, g, frames, c)
    BY <1>0, <1>3, <1>6, <1>9, <1>10, <1>15, FramesStay DEF Same
  <2> QED BY <2>1, <1>2
<1>21. ShapedAt(L, N, c, s)
  BY <1>4, <1>6, <1>9, <1>13 DEF ShapedAt
<1> QED BY <1>0, <1>2, <1>3, <1>12, <1>y, <1>19, <1>20, <1>21, WalkMoves

(* A binding is overwritten, by an assignment or a drop. *)
LEMMA WalkOverwrites ==
  ASSUME NEW P, NEW N, NEW L, NEW h, WalkOK(P, N, L, h), At("assign"),
         NEW c, NEW o, NEW l, NEW D, Here(L, c, o, l, D),
         prog' = prog, pc' = c + 1, frames' = frames, doExitFrees' = doExitFrees,
         NEW v \in AliasSets(N), Gives(P, c, D, l + 1, scopes, v),
         scopes' = [scopes EXCEPT ![Depth(scopes, Token.x)][Token.x] = v],
         freeSites' \subseteq 1 .. N, freedSites' \subseteq 1 .. N,
         OutsideIn(P) => \A p \in freeSites' : p \in freeSites \/ (p = c /\ SoleDrop(P, L, h, o, c))
  PROVE  \E g : WalkOK(P, N, L, g)'
<1>0. c = pc /\ o = c - 1 /\ l = L.lev[o] /\ D = L.dcl[o]
  BY DEF Here
<1>3. /\ c \in 1 .. N /\ N \in Nat /\ Program(P, N, L) /\ L \in Layouts /\ IsHist(h)
      /\ Token = P[c] /\ P[c].op = "assign"
      /\ Placed(P, L, o, c) /\ o \in Nat /\ l \in Nat
      /\ D \in [Nat -> SUBSET Names]
      /\ Stack(scopes, l + 1, D, AliasSets(N)) /\ h[c] = scopes
      /\ FramesOK(P, L, N, h, frames, o)
      /\ freeSites \subseteq 1 .. N /\ freedSites \subseteq 1 .. N
  BY WalkStands
<1>4. PICK x, n : x = P[c].x /\ n = l + 1
  OBVIOUS
<1>5. Refers(P, L, o, c)
  BY <1>3 DEF Placed, Opens, Turns, Shuts, Declares, Openers
<1>6. /\ Seen(L, o, x)
      /\ L.lev[c] = l /\ L.opn[c] = L.opn[o] /\ L.arm[c] = L.arm[o] /\ L.dcl[c] = D
  BY <1>0, <1>4, <1>5 DEF Refers
<1>7. n \in Nat /\ n >= 1 /\ n - 1 = l /\ c \in Nat
  BY <1>3, <1>4
<1>8. PICK d : Inmost(D, n, x, d)
  <2>1. Declared(D, n, x)
    BY <1>0, <1>4, <1>6 DEF Seen, Declared
  <2> QED BY <2>1, <1>7, InmostExists
<1>9. d \in 1 .. n /\ x \in D[d]
  BY <1>8 DEF Inmost
<1>x. Stack(scopes, n, D, AliasSets(N))
  BY <1>3, <1>4
<1>10. Depth(scopes, x) = d
  BY <1>x, <1>7, <1>8, DepthIs
<1>11. PICK s : s = [scopes EXCEPT ![d][x] = v]
  OBVIOUS
<1>12. scopes' = s
  BY <1>3, <1>4, <1>10, <1>11
<1>13. Stack(s, n, D, AliasSets(N)) /\ Changed(scopes, s, D, n, d, x, v)
  BY <1>x, <1>7, <1>9, <1>11, StackUpdate, Zenon
<1>14. PICK g : g = [h EXCEPT ![c + 1] = s]
  OBVIOUS
<1>y. Grown(h, g, c, s)
  BY <1>3, <1>7, <1>14, HistGrows, Zenon
<1>15. g[c + 1] = s /\ Same(h, g, c) /\ \A p \in 1 .. c : g[p] = h[p]
  BY <1>y DEF Grown, Same
<1>16. g[c] = scopes
  BY <1>3, <1>7, <1>15
<1>17. UnderBut(scopes, s, n, D, d, x)
  BY <1>13 DEF UnderBut, Changed
<1>18. FlowStmt(P, c, D, n, scopes, s)
  <2>1. s[d][x] = v
    BY <1>13 DEF Changed
  <2>2. \A e : Inmost(D, n, x, e) => e = d
    BY <1>7, <1>8, InmostUnique
  <2>3. \A e : Inmost(D, n, x, e) => Gives(P, c, D, n, scopes, s[e][x]) /\ UnderBut(scopes, s, n, D, e, x)
    BY <1>4, <1>17, <2>1, <2>2
  <2> QED BY <1>3, <1>4, <2>3 DEF FlowStmt, Openers
<1>19. Flow(P, L, g, doExitFrees', o, c)
  <2>1. FlowBlock(P, L, g, doExitFrees', o, c)
    BY <1>3 DEF FlowBlock
  <2> QED BY <2>1, <1>0, <1>4, <1>15, <1>16, <1>18 DEF Flow
<1>20. FramesOK(P, L, N, g, frames', c)
  <2>1. FramesOK(P, L, N, g, frames, c)
    BY <1>0, <1>3, <1>6, <1>15, FramesStay DEF Same
  <2> QED BY <2>1
<1>21. ShapedAt(L, N, c, s)
  BY <1>4, <1>6, <1>13 DEF ShapedAt
<1>22. OutsideIn(P) => \A p \in freeSites' : p \in freeSites \/ (p = c /\ SoleDrop(P, L, g, o, c))
  <2>1. SoleDrop(P, L, h, o, c) => SoleDrop(P, L, g, o, c)
    BY <1>3, <1>16 DEF SoleDrop
  <2> QED BY <2>1
<1> QED BY <1>0, <1>3, <1>12, <1>y, <1>19, <1>20, <1>21, <1>22, WalkMoves

LEMMA WalkAssignOK ==
  ASSUME NEW P, NEW N, NEW L, NEW h, WalkOK(P, N, L, h), WalkAssign
  PROVE  \E g : WalkOK(P, N, L, g)'
<1>1. PICK c, o, l, D : Here(L, c, o, l, D)
  BY DEF Here
<1>0. c = pc /\ o = c - 1 /\ l = L.lev[o] /\ D = L.dcl[o]
  BY <1>1 DEF Here
<1>2. /\ At("assign") /\ prog' = prog /\ pc' = c + 1 /\ UNCHANGED <<frames, freeSites, freedSites, doExitFrees>>
      /\ scopes' = [scopes EXCEPT ![Depth(scopes, Token.x)][Token.x] = Denotes(Token)]
  BY <1>0 DEF WalkAssign, Advance, source
<1>3. /\ c \in 1 .. N /\ N \in Nat /\ Token = P[c] /\ P[c].op = "assign"
      /\ Placed(P, L, o, c) /\ l \in Nat
      /\ Stack(scopes, l + 1, D, AliasSets(N))
      /\ freeSites \subseteq 1 .. N /\ freedSites \subseteq 1 .. N
  BY <1>1, <1>2, WalkStands
<1>4. Reads(P, L, o, c)
  BY <1>3 DEF Placed, Opens, Turns, Shuts, Declares, Refers, Openers
<1>5. PICK v : v = Denotes(Token)
  OBVIOUS
<1>6. v \in AliasSets(N) /\ Gives(P, c, D, l + 1, scopes, v)
  BY <1>1, <1>3, <1>4, <1>5, DenotesGives
<1> QED BY <1>1, <1>2, <1>3, <1>5, <1>6, WalkOverwrites

LEMMA WalkDropOK ==
  ASSUME NEW P, NEW N, NEW L, NEW h, WalkOK(P, N, L, h), WalkDrop
  PROVE  \E g : WalkOK(P, N, L, g)'
<1>1. PICK c, o, l, D : Here(L, c, o, l, D)
  BY DEF Here
<1>0. c = pc /\ o = c - 1 /\ l = L.lev[o] /\ D = L.dcl[o]
  BY <1>1 DEF Here
<1>2. /\ At("assign") /\ prog' = prog /\ pc' = c + 1 /\ UNCHANGED <<frames, doExitFrees>>
      /\ scopes' = [scopes EXCEPT ![Depth(scopes, Token.x)][Token.x] = {NullRoot}]
      /\ Token.e = "nil"
  BY <1>0 DEF WalkDrop, Advance, source
<1>3. /\ c \in 1 .. N /\ N \in Nat /\ Token = P[c] /\ P[c].op = "assign" /\ h[c] = scopes
      /\ Placed(P, L, o, c) /\ l \in Nat
      /\ Stack(scopes, l + 1, D, AliasSets(N))
      /\ freeSites \subseteq 1 .. N /\ freedSites \subseteq 1 .. N
  BY <1>1, <1>2, WalkStands
<1>4. Refers(P, L, o, c)
  BY <1>3 DEF Placed, Opens, Turns, Shuts, Declares, Openers
<1>5. PICK x, n, roots, sole, stale :
        /\ x = P[c].x /\ n = l + 1 /\ roots = Aliases(x) \ {NullRoot}
        /\ sole = (roots # {} /\ SoleOwner(x, roots))
        /\ stale = (roots \cap freedSites # {})
  OBVIOUS
<1>6. /\ freeSites' = IF sole /\ ~stale THEN freeSites \cup {c} ELSE freeSites
      /\ freedSites' = IF sole /\ ~stale THEN freedSites \cup roots ELSE freedSites
  BY <1>0, <1>3, <1>5 DEF WalkDrop
<1>7. n \in Nat /\ Seen(L, o, x)
  BY <1>3, <1>4, <1>5 DEF Refers
<1>8. PICK d : Inmost(D, n, x, d)
  <2>1. Declared(D, n, x)
    BY <1>0, <1>5, <1>7 DEF Seen, Declared
  <2> QED BY <2>1, <1>7, InmostExists
<1>9. d \in 1 .. n /\ x \in D[d]
  BY <1>8 DEF Inmost
<1>10. Stack(scopes, n, D, AliasSets(N))
  BY <1>3, <1>5
<1>11. Depth(scopes, x) = d
  BY <1>7, <1>8, <1>10, DepthIs
<1>12. roots = scopes[d][x] \ {NullRoot}
  BY <1>5, <1>11 DEF Aliases
<1>13. scopes[d][x] \in AliasSets(N)
  BY <1>9, <1>10 DEF Stack
<1>14. roots \subseteq 1 .. N
  BY <1>3, <1>12, <1>13 DEF AliasSets, NullRoot
<1>15. freeSites' \subseteq 1 .. N /\ freedSites' \subseteq 1 .. N
  BY <1>3, <1>6, <1>14
<1>16. sole => SoleDrop(P, L, h, o, c)
  <2> SUFFICES ASSUME sole PROVE SoleDrop(P, L, h, o, c)
    OBVIOUS
  <2>1. SoleOwner(x, roots)
    BY <1>5
  <2>2. DOMAIN scopes = 1 .. n /\ \A i \in 1 .. n : DOMAIN scopes[i] = D[i]
    BY <1>7, <1>10, StackDomain
  <2>3. \A i \in 1 .. n : \A y \in D[i] : i # d \/ y # x => scopes[i][y] \cap roots = {}
    BY <2>1, <2>2, <1>11 DEF SoleOwner
  <2>4. Alone(scopes, n, D, d, x)
    BY <2>3, <1>12 DEF Alone
  <2>5. \A e : Inmost(D, n, x, e) => e = d
    BY <1>7, <1>8, InmostUnique
  <2>6. \A e : Inmost(D, n, x, e) => Alone(scopes, n, D, e, x)
    BY <2>4, <2>5
  <2> QED BY <2>6, <1>0, <1>2, <1>3, <1>5 DEF SoleDrop
<1>17. OutsideIn(P) => \A p \in freeSites' : p \in freeSites \/ (p = c /\ SoleDrop(P, L, h, o, c))
  BY <1>6, <1>16
<1>18. {NullRoot} \in AliasSets(N) /\ Gives(P, c, D, l + 1, scopes, {NullRoot})
  BY <1>2, <1>3 DEF Gives, AliasSets, NullRoot
<1> QED BY <1>1, <1>2, <1>3, <1>15, <1>17, <1>18, WalkOverwrites

(* A use goes on when its name is not nil. *)
LEMMA WalkUseOK ==
  ASSUME NEW P, NEW N, NEW L, NEW h, WalkOK(P, N, L, h), WalkUse, NullRoot \notin Aliases(Token.x)
  PROVE  \E g : WalkOK(P, N, L, g)'
<1>1. PICK c, o, l, D : Here(L, c, o, l, D)
  BY DEF Here
<1>0. c = pc /\ o = c - 1 /\ l = L.lev[o] /\ D = L.dcl[o]
  BY <1>1 DEF Here
<1>2. /\ At("use") /\ prog' = prog /\ pc' = c + 1
      /\ UNCHANGED <<scopes, frames, freeSites, freedSites, doExitFrees>>
  BY <1>0 DEF WalkUse, Advance, source, analysis
<1>3. /\ c \in 1 .. N /\ N \in Nat /\ Program(P, N, L) /\ L \in Layouts /\ IsHist(h)
      /\ Token = P[c] /\ P[c].op = "use"
      /\ Placed(P, L, o, c) /\ o \in Nat /\ l \in Nat
      /\ Stack(scopes, l + 1, D, AliasSets(N)) /\ h[c] = scopes
      /\ FramesOK(P, L, N, h, frames, o)
      /\ freeSites \subseteq 1 .. N /\ freedSites \subseteq 1 .. N
  BY <1>1, <1>2, WalkStands
<1>4. PICK x, n : x = P[c].x /\ n = l + 1
  OBVIOUS
<1>5. Refers(P, L, o, c)
  BY <1>3 DEF Placed, Opens, Turns, Shuts, Declares, Openers
<1>6. /\ Seen(L, o, x)
      /\ L.lev[c] = l /\ L.opn[c] = L.opn[o] /\ L.arm[c] = L.arm[o] /\ L.dcl[c] = D
  BY <1>0, <1>4, <1>5 DEF Refers
<1>7. n \in Nat /\ c \in Nat
  BY <1>3, <1>4
<1>x. Stack(scopes, n, D, AliasSets(N))
  BY <1>3, <1>4
<1>8. \A d : Inmost(D, n, x, d) => NullRoot \notin scopes[d][x]
  <2> SUFFICES ASSUME NEW d, Inmost(D, n, x, d) PROVE NullRoot \notin scopes[d][x]
    OBVIOUS
  <2>1. Depth(scopes, x) = d
    BY <1>x, <1>7, DepthIs
  <2> QED BY <2>1, <1>3, <1>4 DEF Aliases
<1>14. PICK s, g : s = scopes /\ g = [h EXCEPT ![c + 1] = s]
  OBVIOUS
<1>y. Grown(h, g, c, s)
  BY <1>3, <1>7, <1>14, HistGrows, Zenon
<1>15. g[c + 1] = s /\ Same(h, g, c) /\ \A p \in 1 .. c : g[p] = h[p]
  BY <1>y DEF Grown, Same
<1>16. g[c] = scopes
  BY <1>3, <1>7, <1>15
<1>17. Under(scopes, s, n, D)
  BY <1>14 DEF Under
<1>18. FlowStmt(P, c, D, n, scopes, s)
  BY <1>3, <1>4, <1>8, <1>17 DEF FlowStmt, Openers
<1>19. Flow(P, L, g, doExitFrees', o, c)
  <2>1. FlowBlock(P, L, g, doExitFrees', o, c)
    BY <1>3 DEF FlowBlock
  <2> QED BY <2>1, <1>0, <1>4, <1>15, <1>16, <1>18 DEF Flow
<1>20. FramesOK(P, L, N, g, frames', c)
  <2>1. FramesOK(P, L, N, g, frames, c)
    BY <1>0, <1>3, <1>6, <1>15, FramesStay DEF Same
  <2> QED BY <2>1, <1>2
<1>21. ShapedAt(L, N, c, s)
  BY <1>4, <1>6, <1>x, <1>14 DEF ShapedAt
<1> QED BY <1>0, <1>2, <1>3, <1>14, <1>y, <1>19, <1>20, <1>21, WalkMoves

(* A block is entered. *)
LEMMA WalkEnters ==
  ASSUME NEW P, NEW N, NEW L, NEW h, WalkOK(P, N, L, h), NEW op \in Openers, At(op),
         prog' = prog, pc' = pc + 1, UNCHANGED <<freeSites, freedSites, doExitFrees>>,
         frames' = Append(frames, [op |-> op, start |-> pc, entry |-> scopes, other |-> scopes]),
         scopes' = Opened(scopes)
  PROVE  \E g : WalkOK(P, N, L, g)'
<1>1. PICK c, o, l, D : Here(L, c, o, l, D)
  BY DEF Here
<1>0. c = pc /\ o = c - 1 /\ l = L.lev[o] /\ D = L.dcl[o]
  BY <1>1 DEF Here
<1>3. /\ c \in 1 .. N /\ N \in Nat /\ Program(P, N, L) /\ L \in Layouts /\ IsHist(h)
      /\ P[c].op = op
      /\ Placed(P, L, o, c) /\ o \in Nat /\ l \in Nat
      /\ D \in [Nat -> SUBSET Names]
      /\ Stack(scopes, l + 1, D, AliasSets(N)) /\ h[c] = scopes
      /\ FramesOK(P, L, N, h, frames, o)
      /\ freeSites \subseteq 1 .. N /\ freedSites \subseteq 1 .. N
  BY <1>1, WalkStands
<1>4. PICK n, f : n = l + 1 /\ f = [op |-> op, start |-> c, entry |-> scopes, other |-> scopes]
  OBVIOUS
<1>5. Opens(P, L, o, c)
  BY <1>3 DEF Placed, Turns, Shuts, Declares, Refers, Openers
<1>6. /\ L.lev[c] = n
      /\ L.opn[c] = [L.opn[o] EXCEPT ![n] = c]
      /\ L.arm[c] = [L.arm[o] EXCEPT ![n] = c]
      /\ L.dcl[c] = [D EXCEPT ![n + 1] = {}]
  <2>1. l + 2 = (l + 1) + 1
    BY <1>3
  <2> QED BY <2>1, <1>0, <1>4, <1>5 DEF Opens
<1>7. n \in Nat /\ n >= 1 /\ n - 1 = l /\ c \in Nat
  BY <1>3, <1>4
<1>8. L.opn[o] \in [Nat -> Nat] /\ L.arm[o] \in [Nat -> Nat]
  BY <1>3, LayoutTypes
<1>9. PICK E : E = L.dcl[c]
  OBVIOUS
<1>10. E[n + 1] = {} /\ \A i \in 1 .. n : E[i] = D[i]
  BY <1>3, <1>6, <1>7, <1>9
<1>11. /\ L.opn[c][n] = c /\ L.arm[c][n] = c
       /\ \A k \in 1 .. l : L.opn[c][k] = L.opn[o][k] /\ L.arm[c][k] = L.arm[o][k]
  <2>1. \A k \in 1 .. l : k \in Nat /\ k # n
    BY <1>7
  <2>2. L.opn[c][n] = c /\ \A k \in 1 .. l : L.opn[c][k] = L.opn[o][k]
    BY <2>1, <1>6, <1>7, <1>8
  <2>3. L.arm[c][n] = c /\ \A k \in 1 .. l : L.arm[c][k] = L.arm[o][k]
    BY <2>1, <1>6, <1>7, <1>8
  <2> QED BY <2>2, <2>3
<1>x. Stack(scopes, n, D, AliasSets(N))
  BY <1>3, <1>4
<1>12. PICK s : s = Opened(scopes)
  OBVIOUS
<1>13. Stack(s, n + 1, E, AliasSets(N)) /\ \A i \in 1 .. n : s[i] = scopes[i]
  <2>1. Stack(s, n + 1, E, AliasSets(N)) /\ Same(scopes, s, n)
    BY <1>x, <1>7, <1>10, <1>12, StackOpened, Zenon
  <2> QED BY <2>1 DEF Same
<1>14. PICK g : g = [h EXCEPT ![c + 1] = s]
  OBVIOUS
<1>y. Grown(h, g, c, s)
  BY <1>3, <1>7, <1>14, HistGrows, Zenon
<1>15. g[c + 1] = s /\ Same(h, g, c) /\ \A p \in 1 .. c : g[p] = h[p]
  BY <1>y DEF Grown, Same
<1>16. g[c] = scopes
  BY <1>3, <1>7, <1>15
<1>17. Under(scopes, s, n, D)
  BY <1>13 DEF Under
<1>18. FlowStmt(P, c, D, n, scopes, s)
  BY <1>3, <1>17 DEF FlowStmt, Openers
<1>19. Flow(P, L, g, doExitFrees', o, c)
  <2>1. FlowBlock(P, L, g, doExitFrees', o, c)
    BY <1>3 DEF FlowBlock, Openers
  <2> QED BY <2>1, <1>0, <1>4, <1>15, <1>16, <1>18 DEF Flow
<1>20. FramesOK(P, L, N, g, frames', c)
  <2>1. PICK S : frames \in Seq(S)
    BY <1>3 DEF FramesOK
  <2>2. frames \in Seq(S \cup {f}) /\ Len(frames) = l /\ frames' = Append(frames, f)
    BY <1>0, <1>3, <1>4, <2>1 DEF FramesOK
  <2>3. PICK fs : fs = frames'
    OBVIOUS
  <2>4. fs \in Seq(S \cup {f}) /\ Len(fs) = n /\ fs[n] = f /\ \A k \in 1 .. l : fs[k] = frames[k]
    BY <1>3, <1>4, <2>2, <2>3, AppendOf
  <2>5. \A k \in 1 .. n : FrameOK(P, L, N, g, fs[k], c, k)
    <3> SUFFICES ASSUME NEW k \in 1 .. n PROVE FrameOK(P, L, N, g, fs[k], c, k)
      OBVIOUS
    <3>1. CASE k = n
      <4>1. IsFrame(f) /\ f.op = P[c].op /\ f.start = c /\ f.entry = g[c] /\ f.other = scopes
        BY <1>3, <1>4, <1>16 DEF IsFrame
      <4>2. Stack(scopes, n, L.dcl[c], AliasSets(N))
        BY <1>x, <1>7, <1>9, <1>10, StackSame
      <4>3. \A d \in 1 .. n : scopes[d] = g[c + 1][d]
        BY <1>13, <1>15
      <4> QED BY <3>1, <2>4, <4>1, <4>2, <4>3, <1>11 DEF FrameOK
    <3>2. CASE k \in 1 .. l
      <4>1. FrameOK(P, L, N, h, frames[k], o, k)
        BY <3>2, <1>0, <1>3 DEF FramesOK
      <4>2. Same(L.dcl[o], L.dcl[c], k)
        BY <3>2, <1>0, <1>7, <1>9, <1>10 DEF Same
      <4>4. k \in 1 .. L.lev[o] /\ L.opn[c][k] = L.opn[o][k] /\ L.arm[c][k] = L.arm[o][k]
        BY <3>2, <1>0, <1>11
      <4>3. FrameOK(P, L, N, g, frames[k], c, k)
        BY <4>1, <4>2, <4>4, <1>0, <1>3, <1>15, FrameStays
      <4> QED BY <3>2, <4>3, <2>4
    <3> QED BY <3>1, <3>2, <1>7
  <2> QED BY <2>3, <2>4, <2>5, <1>6 DEF FramesOK
<1>21. ShapedAt(L, N, c, s)
  BY <1>6, <1>9, <1>13 DEF ShapedAt
<1> QED BY <1>0, <1>3, <1>12, <1>y, <1>19, <1>20, <1>21, WalkMoves

LEMMA WalkOpenersOK ==
  ASSUME NEW P, NEW N, NEW L, NEW h, WalkOK(P, N, L, h), WalkIf \/ WalkWhile \/ WalkDo
  PROVE  \E g : WalkOK(P, N, L, g)'
<1>1. CASE WalkIf
  BY <1>1, WalkEnters DEF WalkIf, Advance, source, Openers
<1>2. CASE WalkWhile
  BY <1>2, WalkEnters DEF WalkWhile, Advance, source, Openers
<1>3. CASE WalkDo
  BY <1>3, WalkEnters DEF WalkDo, Advance, source, Openers
<1> QED BY <1>1, <1>2, <1>3

(* The scopes an enclosing block was entered with. *)
LEMMA EntryIs ==
  ASSUME NEW P, NEW N, NEW L, NEW h, WalkOK(P, N, L, h), NEW op, At(op),
         NEW c, NEW o, NEW l, NEW D, Here(L, c, o, l, D), NEW k \in 1 .. l
  PROVE  Stack(h[L.opn[o][k]], k, D, AliasSets(N))
<1>0. c = pc /\ o = c - 1 /\ l = L.lev[o] /\ D = L.dcl[o]
  BY DEF Here
<1>1. c \in 1 .. N /\ N \in Nat /\ l \in Nat /\ o \in Nat /\ Around(P, L, o, k)
  BY WalkStands
<1>2. PICK q : q = L.opn[o][k]
  OBVIOUS
<1>3. q \in 1 .. o /\ L.lev[q - 1] = k - 1 /\ \A t \in q - 1 .. o : Stays(L, o, k, t)
  BY <1>1, <1>2 DEF Around
<1>4. ShapedAt(L, N, q - 1, h[q])
  <2>1. \A p \in 1 .. c : ShapedAt(L, N, p - 1, h[p])
    BY <1>0, Zenon DEF WalkOK, WalkedTo
  <2>2. q \in 1 .. c
    BY <1>0, <1>1, <1>3
  <2> QED BY <2>1, <2>2
<1>5. Stack(h[q], k, L.dcl[q - 1], AliasSets(N))
  <2>1. (k - 1) + 1 = k
    BY <1>1
  <2> QED BY <2>1, <1>3, <1>4 DEF ShapedAt
<1>6. \A d \in 1 .. k : D[d] = L.dcl[q - 1][d]
  <2>0. q \in Nat /\ q <= o /\ o \in Nat
    BY <1>1, <1>3
  <2>1. q - 1 \in q - 1 .. o
    BY <2>0
  <2>2. Stays(L, o, k, q - 1)
    BY <1>3, <2>1
  <2> QED BY <2>2, <1>0 DEF Stays
<1>7. k \in Nat
  BY <1>1
<1> QED BY <1>2, <1>5, <1>6, <1>7, StackSame

(* A frame whose other path is t. *)
FrameWith(f, g, t) == IsFrame(g) /\ g.op = f.op /\ g.start = f.start /\ g.entry = f.entry /\ g.other = t

LEMMA FrameOther ==
  ASSUME NEW f, IsFrame(f), NEW t, NEW g, g = [f EXCEPT !.other = t]
  PROVE  FrameWith(f, g, t)
<1>1. g = [op |-> f.op, start |-> f.start, entry |-> f.entry, other |-> t]
  BY DEF IsFrame
<1> QED BY <1>1 DEF FrameWith, IsFrame

LEMMA WalkElseOK ==
  ASSUME NEW P, NEW N, NEW L, NEW h, WalkOK(P, N, L, h), WalkElse
  PROVE  \E g : WalkOK(P, N, L, g)'
<1>1. PICK c, o, l, D : Here(L, c, o, l, D)
  BY DEF Here
<1>0. c = pc /\ o = c - 1 /\ l = L.lev[o] /\ D = L.dcl[o]
  BY <1>1 DEF Here
<1>2. At("else") /\ prog' = prog /\ pc' = c + 1 /\ UNCHANGED <<freeSites, freedSites, doExitFrees>>
  BY <1>0 DEF WalkElse, Advance, source
<1>3. /\ c \in 1 .. N /\ N \in Nat /\ Program(P, N, L) /\ L \in Layouts /\ IsHist(h)
      /\ P[c].op = "else"
      /\ Placed(P, L, o, c) /\ o \in Nat /\ l \in Nat
      /\ D \in [Nat -> SUBSET Names]
      /\ \A k \in 1 .. l : Around(P, L, o, k)
      /\ Stack(scopes, l + 1, D, AliasSets(N)) /\ h[c] = scopes
      /\ FramesOK(P, L, N, h, frames, o)
      /\ freeSites \subseteq 1 .. N /\ freedSites \subseteq 1 .. N
  BY <1>1, <1>2, WalkStands
<1>4. PICK q, f, t, n : q = L.opn[o][l] /\ f = frames[l] /\ t = Front(scopes) /\ n = l + 1
  OBVIOUS
<1>5. Turns(P, L, o, c)
  BY <1>3 DEF Placed, Opens, Shuts, Declares, Refers, Openers
<1>6. /\ l >= 1 /\ P[q].op = "if" /\ L.arm[o][l] = q
      /\ L.lev[c] = l /\ L.opn[c] = L.opn[o]
      /\ L.arm[c] = [L.arm[o] EXCEPT ![l] = c]
      /\ L.dcl[c] = [D EXCEPT ![n] = {}]
  BY <1>0, <1>4, <1>5 DEF Turns, InnerOp
<1>7. n \in Nat /\ n - 1 = l /\ c \in Nat /\ l \in 1 .. l
  BY <1>3, <1>4, <1>6
<1>8. PICK E : E = L.dcl[c]
  OBVIOUS
<1>9. E[n] = {} /\ \A i \in 1 .. l : E[i] = D[i]
  BY <1>3, <1>6, <1>7, <1>8
<1>10. L.arm[c][l] = c /\ \A k \in 1 .. l - 1 : L.arm[c][k] = L.arm[o][k]
  <2>1. L.arm[o] \in [Nat -> Nat]
    BY <1>3, LayoutTypes
  <2>2. \A k \in 1 .. l - 1 : k \in Nat /\ k # l
    BY <1>3
  <2> QED BY <2>1, <2>2, <1>3, <1>6
<1>11. PICK S : frames \in Seq(S)
  BY <1>3 DEF FramesOK
<1>12. Len(frames) = l /\ FrameOK(P, L, N, h, f, o, l)
  BY <1>0, <1>3, <1>4, <1>7 DEF FramesOK
<1>13. IsFrame(f) /\ f.op = P[q].op /\ f.start = q /\ f.entry = h[q]
  BY <1>4, <1>12 DEF FrameOK
<1>14. Stack(h[q], l, D, AliasSets(N))
  BY <1>1, <1>2, <1>4, <1>7, EntryIs
<1>15. PICK s : s = Opened(h[q])
  OBVIOUS
<1>16. scopes' = s
  BY <1>4, <1>12, <1>13, <1>15 DEF WalkElse, Last
<1>17. Stack(s, n, E, AliasSets(N)) /\ Same(h[q], s, l)
  <2>1. E[l + 1] = {}
    BY <1>4, <1>9
  <2>2. Stack(s, l + 1, E, AliasSets(N)) /\ Same(h[q], s, l)
    BY <2>1, <1>3, <1>9, <1>14, <1>15, StackOpened, Zenon
  <2> QED BY <2>2, <1>4
<1>18. Stack(t, l, D, AliasSets(N)) /\ Same(scopes, t, l)
  BY <1>3, <1>4, StackFront, Zenon
<1>19. PICK g : g = [h EXCEPT ![c + 1] = s]
  OBVIOUS
<1>y. Grown(h, g, c, s)
  BY <1>3, <1>7, <1>19, HistGrows, Zenon
<1>20. g[c + 1] = s /\ Same(h, g, c) /\ \A p \in 1 .. c : g[p] = h[p]
  BY <1>y DEF Grown, Same
<1>21. q \in 1 .. o /\ q \in 1 .. c /\ q # c
  <2>1. q \in 1 .. o
    BY <1>3, <1>4, <1>7 DEF Around
  <2> QED BY <2>1, <1>0, <1>3
<1>22. g[c] = scopes /\ g[q] = h[q]
  BY <1>3, <1>7, <1>20, <1>21
<1>23. Flow(P, L, g, doExitFrees', o, c)
  <2>1. Under(g[q], g[c + 1], l, D)
    BY <1>17, <1>20, <1>22 DEF Under, Same
  <2>2. FlowBlock(P, L, g, doExitFrees', o, c)
    BY <2>1, <1>0, <1>3, <1>4 DEF FlowBlock
  <2>3. FlowStmt(P, c, L.dcl[o], L.lev[o] + 1, g[c], g[c + 1])
    BY <1>3 DEF FlowStmt, Openers
  <2> QED BY <2>2, <2>3 DEF Flow
<1>24. PICK f2, fs : f2 = [f EXCEPT !.other = t] /\ fs = [frames EXCEPT ![l] = f2]
  OBVIOUS
<1>25. frames' = fs
  BY <1>2, <1>4, <1>12, <1>24 DEF WalkElse
<1>26. FrameWith(f, f2, t)
  BY <1>13, <1>24, FrameOther
<1>27. FramesOK(P, L, N, g, frames', c)
  <2>1. frames \in Seq(S \cup {f2})
    BY <1>11
  <2>2. fs \in Seq(S \cup {f2}) /\ Len(fs) = l /\ fs[l] = f2 /\ \A k \in 1 .. l : k # l => fs[k] = frames[k]
    BY <1>3, <1>7, <1>12, <1>24, <2>1, ChangeOf
  <2>3. \A k \in 1 .. l : FrameOK(P, L, N, g, fs[k], c, k)
    <3> SUFFICES ASSUME NEW k \in 1 .. l PROVE FrameOK(P, L, N, g, fs[k], c, k)
      OBVIOUS
    <3>1. CASE k = l
      <4>1. IsFrame(f2) /\ f2.op = P[q].op /\ f2.start = q /\ f2.entry = g[q] /\ f2.other = t
        BY <1>13, <1>22, <1>26 DEF FrameWith
      <4>2. Stack(t, l, L.dcl[c], AliasSets(N))
        BY <1>3, <1>8, <1>9, <1>18, StackSame
      <4>3. \A d \in 1 .. l : t[d] = g[c][d]
        BY <1>18, <1>22 DEF Same
      <4>4. L.opn[c][l] = q /\ L.arm[c][l] = c
        BY <1>4, <1>6, <1>10
      <4>5. FrameOK(P, L, N, g, f2, c, l)
        BY <1>6, <4>1, <4>2, <4>3, <4>4 DEF FrameOK
      <4> QED BY <3>1, <4>5, <2>2
    <3>2. CASE k \in 1 .. l - 1
      <4>1. FrameOK(P, L, N, h, frames[k], o, k)
        BY <1>0, <1>3 DEF FramesOK
      <4>2. Same(L.dcl[o], L.dcl[c], k)
        BY <1>0, <1>7, <1>8, <1>9 DEF Same
      <4>4. k \in 1 .. L.lev[o] /\ L.opn[c][k] = L.opn[o][k] /\ L.arm[c][k] = L.arm[o][k]
        BY <3>2, <1>0, <1>6, <1>10
      <4>3. FrameOK(P, L, N, g, frames[k], c, k)
        BY <4>1, <4>2, <4>4, <1>0, <1>3, <1>20, FrameStays
      <4> QED BY <3>2, <4>3, <2>2
    <3> QED BY <3>1, <3>2, <1>7
  <2> QED BY <2>2, <2>3, <1>6, <1>25 DEF FramesOK
<1>28. ShapedAt(L, N, c, s)
  BY <1>4, <1>6, <1>8, <1>17 DEF ShapedAt
<1> QED BY <1>0, <1>2, <1>3, <1>16, <1>y, <1>23, <1>27, <1>28, WalkMoves

(* A block is left: what every walk of an `end' that moves on has in common. *)
LEMMA WalkLeaves ==
  ASSUME NEW P, NEW N, NEW L, NEW h, WalkOK(P, N, L, h), At("end"),
         NEW c, NEW o, NEW l, NEW D, Here(L, c, o, l, D),
         prog' = prog, pc' = c + 1, UNCHANGED <<freeSites, freedSites>>, frames' = Front(frames),
         \A p \in 1 .. c - 1 : p \in DOMAIN doExitFrees =>
           p \in DOMAIN doExitFrees' /\ doExitFrees'[p] = doExitFrees[p],
         NEW s, scopes' = s, Stack(s, l, D, AliasSets(N)),
         NEW g, Grown(h, g, c, s),
         FlowBlock(P, L, g, doExitFrees', o, c)
  PROVE  WalkOK(P, N, L, g)'
<1>0. c = pc /\ o = c - 1 /\ l = L.lev[o] /\ D = L.dcl[o]
  BY DEF Here
<1>3. /\ c \in 1 .. N /\ N \in Nat /\ Program(P, N, L) /\ L \in Layouts /\ IsHist(h)
      /\ P[c].op = "end"
      /\ Placed(P, L, o, c) /\ o \in Nat /\ l \in Nat
      /\ FramesOK(P, L, N, h, frames, o)
      /\ freeSites \subseteq 1 .. N /\ freedSites \subseteq 1 .. N
  BY WalkStands
<1>4. Shuts(P, L, o, c)
  BY <1>3 DEF Placed, Opens, Turns, Declares, Refers, Openers
<1>5. /\ l >= 1 /\ L.lev[c] = l - 1
      /\ L.opn[c] = L.opn[o] /\ L.arm[c] = L.arm[o] /\ L.dcl[c] = D
  BY <1>0, <1>4 DEF Shuts
<1>6. c \in Nat /\ l - 1 \in Nat /\ (l - 1) + 1 = l
  BY <1>3, <1>5
<1>7. Same(h, g, c)
  BY DEF Grown
<1>8. Flow(P, L, g, doExitFrees', o, c)
  BY <1>3 DEF Flow, FlowStmt, Openers
<1>9. FramesOK(P, L, N, g, frames', c)
  <2>1. PICK S, fs : frames \in Seq(S) /\ fs = Front(frames)
    BY <1>3 DEF FramesOK
  <2>2. Len(frames) = (l - 1) + 1
    BY <1>0, <1>3, <1>6 DEF FramesOK
  <2>3. fs \in Seq(S) /\ Len(fs) = l - 1 /\ \A k \in 1 .. l - 1 : fs[k] = frames[k]
    BY <1>6, <2>1, <2>2, FrontOf
  <2>4. \A k \in 1 .. l - 1 : FrameOK(P, L, N, g, fs[k], c, k)
    <3> SUFFICES ASSUME NEW k \in 1 .. l - 1 PROVE FrameOK(P, L, N, g, fs[k], c, k)
      OBVIOUS
    <3>1. k \in 1 .. L.lev[o]
      BY <1>0, <1>6
    <3>2. FrameOK(P, L, N, h, frames[k], o, k)
      BY <1>3, <3>1 DEF FramesOK
    <3>3. L.opn[c][k] = L.opn[o][k] /\ L.arm[c][k] = L.arm[o][k]
      BY <1>5
    <3>6. Same(L.dcl[o], L.dcl[c], k)
      BY <1>0, <1>5 DEF Same
    <3>5. Program(P, N, L) /\ c \in 1 .. N /\ o = c - 1
      BY <1>0, <1>3
    <3>4. FrameOK(P, L, N, g, frames[k], c, k)
      BY <3>1, <3>2, <3>3, <3>5, <3>6, <1>7, FrameStays
    <3> QED BY <2>3, <3>4
  <2> QED BY <2>1, <2>3, <2>4, <1>5 DEF FramesOK
<1>10. ShapedAt(L, N, c, s)
  BY <1>5, <1>6 DEF ShapedAt
<1> QED BY <1>0, <1>3, <1>8, <1>9, <1>10, WalkMoves

LEMMA ScopesMerge ==
  ASSUME NEW D, NEW n \in Nat, NEW N, NEW a, Stack(a, n, D, AliasSets(N)),
         NEW b, Stack(b, n, D, AliasSets(N)), NEW t, t = Merge(a, b)
  PROVE  Stack(t, n, D, AliasSets(N)) /\ Merged(a, b, t, n, D)
<1>1. PICK V : V = 0 .. N
  OBVIOUS
<1>2. AliasSets(N) = SUBSET V
  BY <1>1 DEF AliasSets
<1>3. Stack(t, n, D, SUBSET V) /\ Merged(a, b, t, n, D)
  BY <1>2, StackMerge, Zenon
<1> QED BY <1>2, <1>3, Zenon

LEMMA WalkEndIfOK ==
  ASSUME NEW P, NEW N, NEW L, NEW h, WalkOK(P, N, L, h), WalkEndIf
  PROVE  \E g : WalkOK(P, N, L, g)'
<1>1. PICK c, o, l, D : Here(L, c, o, l, D)
  BY DEF Here
<1>0. c = pc /\ o = c - 1 /\ l = L.lev[o] /\ D = L.dcl[o]
  BY <1>1 DEF Here
<1>2. /\ At("end") /\ prog' = prog /\ pc' = c + 1 /\ UNCHANGED <<freeSites, freedSites, doExitFrees>>
      /\ frames' = Front(frames) /\ Last(frames).op = "if"
  BY <1>0 DEF WalkEndIf, Closes, Advance, source
<1>3. /\ c \in 1 .. N /\ N \in Nat /\ Program(P, N, L) /\ L \in Layouts /\ IsHist(h)
      /\ P[c].op = "end"
      /\ Placed(P, L, o, c) /\ o \in Nat /\ l \in Nat
      /\ \A k \in 1 .. l : Around(P, L, o, k)
      /\ Stack(scopes, l + 1, D, AliasSets(N)) /\ h[c] = scopes
      /\ FramesOK(P, L, N, h, frames, o)
  BY <1>1, <1>2, WalkStands
<1>4. Shuts(P, L, o, c)
  BY <1>3 DEF Placed, Opens, Turns, Declares, Refers, Openers
<1>5. l >= 1 /\ l \in 1 .. l /\ c \in Nat
  BY <1>0, <1>3, <1>4 DEF Shuts
<1>6. PICK q, m, f, t : q = L.opn[o][l] /\ m = L.arm[o][l] /\ f = frames[l] /\ t = Front(scopes)
  OBVIOUS
<1>7. Len(frames) = l /\ FrameOK(P, L, N, h, f, o, l)
  BY <1>0, <1>3, <1>5, <1>6 DEF FramesOK
<1>8. P[q].op = "if" /\ m # q
  <2>1. Last(frames) = f
    BY <1>6, <1>7 DEF Last
  <2>2. P[q].op = "if"
    BY <1>2, <1>6, <1>7, <2>1 DEF FrameOK
  <2> QED BY <2>2, <1>0, <1>4, <1>6 DEF Shuts, InnerOp
<1>9. /\ Stack(f.other, l, D, AliasSets(N)) /\ \A d \in 1 .. l : f.other[d] = h[m][d]
  BY <1>0, <1>6, <1>7, <1>8 DEF FrameOK
<1>10. Stack(t, l, D, AliasSets(N)) /\ Same(scopes, t, l)
  BY <1>3, <1>6, StackFront, Zenon
<1>11. PICK s : s = Merge(f.other, t)
  OBVIOUS
<1>12. scopes' = s
  BY <1>6, <1>7, <1>11 DEF WalkEndIf, Last
<1>13. Stack(s, l, D, AliasSets(N)) /\ Merged(f.other, t, s, l, D)
  BY <1>3, <1>9, <1>10, <1>11, ScopesMerge, Zenon
<1>14. PICK g : g = [h EXCEPT ![c + 1] = s]
  OBVIOUS
<1>y. Grown(h, g, c, s)
  BY <1>3, <1>5, <1>14, HistGrows, Zenon
<1>15. g[c + 1] = s /\ Same(h, g, c) /\ \A p \in 1 .. c : g[p] = h[p]
  BY <1>y DEF Grown, Same
<1>16. m \in 1 .. c
  <2>1. q \in 1 .. o /\ m \in q .. o
    BY <1>3, <1>5, <1>6 DEF Around
  <2> QED BY <2>1, <1>0, <1>3
<1>17. g[c] = scopes /\ g[m] = h[m]
  BY <1>3, <1>5, <1>15, <1>16
<1>18. Under(scopes, s, l, D) /\ Under(h[m], s, l, D)
  <2>1. \A d \in 1 .. l : \A x \in D[d] : scopes[d][x] \subseteq s[d][x] /\ h[m][d][x] \subseteq s[d][x]
    <3> TAKE d \in 1 .. l
    <3> TAKE x \in D[d]
    <3>1. t[d] = scopes[d] /\ f.other[d] = h[m][d]
      BY <1>9, <1>10 DEF Same
    <3>2. s[d][x] = f.other[d][x] \cup t[d][x]
      BY <1>13 DEF Merged
    <3> QED BY <3>1, <3>2
  <2> QED BY <2>1 DEF Under
<1>19. FlowBlock(P, L, g, doExitFrees', o, c)
  BY <1>0, <1>3, <1>6, <1>8, <1>15, <1>17, <1>18 DEF FlowBlock
<1>20. WalkOK(P, N, L, g)'
  BY <1>1, <1>2, <1>12, <1>13, <1>y, <1>19, WalkLeaves, Zenon
<1> QED BY <1>20

(* The end of a block is the first token that balances its start. *)
LEMMA EndIs ==
  ASSUME NEW P, NEW N, NEW L, Program(P, N, L), NEW c \in 1 .. N, NEW o, o = c - 1,
         Shuts(P, L, o, c), NEW q, q = L.opn[o][L.lev[o]]
  PROVE  q \in 1 .. o /\ EndIn(P, q) = c
<1>1. /\ N \in Nat /\ Len(P) = N /\ L \in Layouts
      /\ \A i \in 1 .. N : P[i].op \in Openers => \A j \in i .. N : Counted(P, L, i, j)
      /\ \A p \in 1 .. N : Placed(P, L, p - 1, p)
  BY DEF Program, Layout
<1>2. o \in Nat /\ L.lev[o] \in Nat /\ \A k \in 1 .. L.lev[o] : Around(P, L, o, k)
  BY TokenAt
<1>3. PICK l : l = L.lev[o]
  OBVIOUS
<1>4. l >= 1 /\ l \in 1 .. l /\ L.lev[c] = l - 1
  BY <1>2, <1>3 DEF Shuts
<1>5. /\ q \in 1 .. o /\ P[q].op \in Openers /\ L.lev[q - 1] = l - 1
      /\ \A t \in q .. o : L.lev[t] >= l
  BY <1>2, <1>3, <1>4 DEF Around
<1>6. L.lev[q] = l
  <2>0. N \in Nat /\ q \in 1 .. o /\ o = c - 1 /\ c \in 1 .. N
    BY <1>1, <1>5
  <2>1. q \in 1 .. N /\ q - 1 \in Nat
    BY ONLY <2>0
  <2>2. Opens(P, L, q - 1, q)
    BY <2>1, <1>1, <1>5 DEF Placed, Turns, Shuts, Declares, Refers, Openers
  <2>3. L.lev[q] = L.lev[q - 1] + 1
    BY <2>2 DEF Opens
  <2>4. L.lev[q - 1] = l - 1 /\ l \in Nat
    BY <1>2, <1>3, <1>5
  <2> QED BY ONLY <2>3, <2>4
<1>7. \A j \in q .. c : Counted(P, L, q, j)
  <2>0. N \in Nat /\ q \in 1 .. o /\ o = c - 1 /\ c \in 1 .. N
    BY <1>1, <1>5
  <2>1. q \in 1 .. N /\ c \in 1 .. N /\ N \in Nat
    BY ONLY <2>0
  <2>2. \A j \in q .. N : Counted(P, L, q, j)
    BY ONLY <1>1, <1>5, <2>1
  <2>3. \A j \in q .. c : j \in q .. N
    BY ONLY <2>1
  <2> QED BY ONLY <2>2, <2>3
<1>8. NestingIn(P, q, c) = 0
  <2>1. \A t \in q .. c - 1 : L.lev[t] >= L.lev[q]
    BY <1>5, <1>6
  <2>2. Counted(P, L, q, c)
    <3>1. N \in Nat /\ q \in 1 .. o /\ o = c - 1 /\ c \in 1 .. N
      BY <1>1, <1>5
    <3>2. c \in q .. c
      BY ONLY <3>1
    <3> QED BY ONLY <3>2, <1>7
  <2>3. NestingIn(P, q, c) = L.lev[c] - L.lev[q] + 1
    BY <2>1, <2>2 DEF Counted
  <2> QED BY <2>3, <1>2, <1>3, <1>4, <1>6
<1>9. \A k \in q .. c - 1 : NestingIn(P, q, k) # 0
  <2> SUFFICES ASSUME NEW k \in q .. c - 1 PROVE NestingIn(P, q, k) # 0
    OBVIOUS
  <2>0. q \in Nat /\ o \in Nat /\ o = c - 1 /\ c \in Nat
    <3>1. N \in Nat /\ q \in 1 .. o /\ o = c - 1 /\ c \in 1 .. N
      BY <1>1, <1>5
    <3> QED BY ONLY <3>1
  <2>1. Counted(P, L, q, k) /\ k \in Nat /\ k \in q .. o
    <3>1. k \in q .. c - 1
      OBVIOUS
    <3>2. k \in Nat /\ k \in q .. o /\ k \in q .. c
      BY ONLY <2>0, <3>1
    <3> QED BY ONLY <3>2, <1>7
  <2>2. \A t \in q .. k - 1 : L.lev[t] >= L.lev[q]
    <3>1. \A t \in q .. k - 1 : t \in q .. o
      BY ONLY <2>0, <2>1
    <3>2. \A t \in q .. o : L.lev[t] >= L.lev[q]
      BY <1>5, <1>6
    <3> QED BY ONLY <3>1, <3>2
  <2>3. NestingIn(P, q, k) = L.lev[k] - L.lev[q] + 1
    BY <2>1, <2>2 DEF Counted
  <2>4. L.lev[k] \in Nat /\ L.lev[k] >= l
    BY <2>1, <1>1, <1>5, LayoutTypes
  <2> QED BY <2>3, <2>4, <1>2, <1>3, <1>6
<1> DEFINE Ends1(j) == NestingIn(P, q, j) = 0 /\ \A k \in q .. j - 1 : NestingIn(P, q, k) # 0
<1>10. c \in q .. Len(P) /\ Ends1(c)
  <2>1. N \in Nat /\ q \in 1 .. o /\ o = c - 1 /\ c \in 1 .. N /\ Len(P) = N
    BY <1>1, <1>5
  <2>2. c \in q .. Len(P)
    BY ONLY <2>1
  <2> QED BY ONLY <2>2, <1>8, <1>9
<1>11. ASSUME NEW j \in q .. Len(P), Ends1(j) PROVE j = c
  <2>1. j \in Int /\ c \in Int /\ q <= j /\ q <= c
    <3>1. c \in q .. Len(P) /\ j \in q .. Len(P)
      BY <1>10
    <3>2. q \in Int /\ Len(P) \in Int
      <4>1. N \in Nat /\ Len(P) = N /\ q \in 1 .. o
        BY <1>1, <1>5
      <4> QED BY ONLY <4>1
    <3> QED BY ONLY <3>1, <3>2
  <2>2. ~ j < c
    <3> SUFFICES ASSUME j < c PROVE FALSE
      OBVIOUS
    <3>1. j \in q .. c - 1
      <4>1. q \in 1 .. o /\ j \in Int /\ c \in Int /\ q <= j
        BY <1>5, <2>1
      <4> QED BY ONLY <4>1, j < c
    <3>2. NestingIn(P, q, j) # 0
      BY ONLY <3>1, <1>9
    <3> QED BY <3>2, <1>11
  <2>3. ~ c < j
    BY <2>1, <1>8, <1>11
  <2> QED BY <2>1, <2>2, <2>3
<1>12. EndIn(P, q) = CHOOSE j \in q .. Len(P) : Ends1(j)
  BY DEF EndIn
<1> HIDE DEF Ends1
<1> QED BY <1>5, <1>10, <1>11, <1>12

(* What the open block k says does not depend on the token one looks from.    *)
Holding(P, N, L, o, k, q) ==
  /\ q \in 1 .. o /\ q \in 1 .. N /\ Opens(P, L, q - 1, q) /\ L.lev[q] = k /\ L.lev[q - 1] = k - 1
  /\ L.opn[q][k] = q /\ L.arm[q][k] = q
  /\ \A j \in 1 .. k - 1 : L.opn[q][j] = L.opn[o][j] /\ L.arm[q][j] = L.arm[o][j]
  /\ \A j \in 1 .. k - 1 : L.opn[o][j] \in 1 .. q - 1 /\ L.arm[o][j] \in 1 .. q - 1
  /\ Same(L.dcl[o], L.dcl[q], k) /\ Same(L.dcl[o], L.dcl[q - 1], k)

LEMMA OpenedAt ==
  ASSUME NEW P, NEW N, NEW L, Program(P, N, L), NEW c \in 1 .. N, NEW o, o = c - 1,
         NEW k \in 1 .. L.lev[o], NEW q, q = L.opn[o][k]
  PROVE  Holding(P, N, L, o, k, q)
<1>1. N \in Nat /\ L \in Layouts /\ \A p \in 1 .. N : Placed(P, L, p - 1, p)
  BY DEF Program, Layout
<1>2. o \in Nat /\ L.lev[o] \in Nat /\ Around(P, L, o, k)
  BY TokenAt
<1>3. /\ q \in 1 .. o /\ P[q].op \in Openers /\ L.lev[q - 1] = k - 1
      /\ \A t \in q - 1 .. o : Stays(L, o, k, t)
      /\ \A t \in q .. o : L.lev[t] >= k /\ L.opn[t][k] = q
  BY <1>2 DEF Around
<1>4. PICK i : i = q - 1
  OBVIOUS
<1>5. q \in Nat /\ i \in Nat /\ q \in 1 .. N /\ q \in i .. o /\ i \in i .. o /\ k \in Nat /\ k >= 1
  BY <1>1, <1>2, <1>3, <1>4
<1>6. Opens(P, L, i, q)
  BY <1>1, <1>3, <1>4, <1>5 DEF Placed, Turns, Shuts, Declares, Refers, Openers
<1>7. L.lev[i] = k - 1 /\ L.lev[q] = k
  <2>1. L.lev[i] = k - 1
    BY <1>3, <1>4
  <2>2. L.lev[q] = L.lev[i] + 1
    BY <1>6 DEF Opens
  <2> QED BY <2>1, <2>2, <1>5
<1>8. L.opn[q][k] = q /\ L.arm[q][k] = q
  <2>1. L.opn[i] \in [Nat -> Nat] /\ L.arm[i] \in [Nat -> Nat]
    BY <1>1, <1>5, LayoutTypes
  <2>2. L.lev[i] + 1 = k
    BY <1>5, <1>7
  <2>3. L.opn[q] = [L.opn[i] EXCEPT ![k] = q] /\ L.arm[q] = [L.arm[i] EXCEPT ![k] = q]
    BY <2>2, <1>6 DEF Opens
  <2>4. L.opn[q][k] = q
    BY <2>1, <2>3, <1>5
  <2>5. L.arm[q][k] = q
    BY <2>1, <2>3, <1>5
  <2> QED BY <2>4, <2>5
<1>9. Stays(L, o, k, i) /\ Stays(L, o, k, q)
  BY <1>3, <1>4, <1>5
<1>10. \A j \in 1 .. k - 1 : L.opn[o][j] \in 1 .. q - 1 /\ L.arm[o][j] \in 1 .. q - 1
  <2> SUFFICES ASSUME NEW j \in 1 .. k - 1
               PROVE  L.opn[o][j] \in 1 .. i /\ L.arm[o][j] \in 1 .. i
    BY <1>4
  <2>1. Around(P, L, i, j)
    <3>1. j \in 1 .. L.lev[i]
      BY <1>7
    <3>2. q \in 1 .. N /\ i = q - 1
      BY <1>4, <1>5
    <3> QED BY <3>1, <3>2, TokenAt
  <2>2. L.opn[i][j] \in 1 .. i /\ L.arm[i][j] \in L.opn[i][j] .. i
    BY <2>1 DEF Around
  <2>3. L.opn[i][j] = L.opn[o][j] /\ L.arm[i][j] = L.arm[o][j]
    BY <1>9 DEF Stays
  <2> QED BY <2>2, <2>3, <1>5
<1> QED BY <1>3, <1>4, <1>5, <1>6, <1>7, <1>8, <1>9, <1>10 DEF Stays, Same, Holding

(* The walk of a loop starts over: from head `next', which covers the old one. *)
LEMMA WalkAgain ==
  ASSUME NEW P, NEW N, NEW L, NEW h, WalkOK(P, N, L, h), At("end"),
         NEW c, NEW o, NEW l, NEW D, Here(L, c, o, l, D), l >= 1,
         NEW q, q = L.opn[o][l], P[q].op = "while",
         prog' = prog, pc' = q + 1, UNCHANGED <<freeSites, freedSites, doExitFrees>>,
         NEW next, Stack(next, l, D, AliasSets(N)), Under(h[q], next, l, D),
         scopes' = Opened(next), frames' = [frames EXCEPT ![l].other = next]
  PROVE  \E g : WalkOK(P, N, L, g)'
<1>0. c = pc /\ o = c - 1 /\ l = L.lev[o] /\ D = L.dcl[o]
  BY DEF Here
<1>1. /\ c \in 1 .. N /\ N \in Nat /\ Program(P, N, L) /\ L \in Layouts /\ IsHist(h)
      /\ P[c].op = "end" /\ Placed(P, L, o, c) /\ o \in Nat /\ l \in Nat
      /\ FramesOK(P, L, N, h, frames, o)
      /\ freeSites \subseteq 1 .. N /\ freedSites \subseteq 1 .. N
  BY WalkStands
<1>2. Shuts(P, L, o, c)
  BY <1>1 DEF Placed, Opens, Turns, Declares, Refers, Openers
<1>3. EndIn(P, q) = c
  BY ONLY <1>0, <1>1, <1>2, q = L.opn[o][l], EndIs
<1>4. l \in 1 .. L.lev[o] /\ l \in Nat /\ l >= 1
  BY ONLY <1>0, <1>1, l >= 1
<1>h. Holding(P, N, L, o, l, q)
  BY ONLY <1>0, <1>1, <1>4, q = L.opn[o][l], OpenedAt
<1>5. q \in 1 .. o /\ q \in 1 .. N
  BY ONLY <1>h DEF Holding
<1>o. Opens(P, L, q - 1, q)
  BY ONLY <1>h DEF Holding
<1>v. L.lev[q] = l /\ L.lev[q - 1] = l - 1
  BY ONLY <1>h DEF Holding
<1>a. L.opn[q][l] = q /\ L.arm[q][l] = q
  BY ONLY <1>h DEF Holding
<1>u. /\ \A j \in 1 .. l - 1 : L.opn[q][j] = L.opn[o][j] /\ L.arm[q][j] = L.arm[o][j]
      /\ \A j \in 1 .. l - 1 : L.opn[o][j] \in 1 .. q - 1 /\ L.arm[o][j] \in 1 .. q - 1
  BY ONLY <1>h DEF Holding
<1>s. Same(D, L.dcl[q], l) /\ Same(D, L.dcl[q - 1], l)
  BY ONLY <1>h, <1>0 DEF Holding
<1>6. q \in Nat /\ q + 1 \in 1 .. N + 1 /\ (q + 1) - 1 = q /\ q < c
  <2>1. o = c - 1 /\ N \in Nat /\ c \in 1 .. N
    BY <1>0, <1>1
  <2> QED BY ONLY <2>1, <1>5
<1>7. PICK s, E : s = Opened(next) /\ E = L.dcl[q]
  OBVIOUS
<1>8. E[l + 1] = {}
  <2>1. L.dcl[q - 1] \in [Nat -> SUBSET Names]
    <3>1. q - 1 \in Nat
      BY ONLY <1>5, <1>6
    <3> QED BY ONLY <3>1, <1>1, LayoutTypes
  <2>2. L.dcl[q] = [L.dcl[q - 1] EXCEPT ![L.lev[q - 1] + 2] = {}] /\ L.lev[q - 1] + 2 = l + 1
    <3>1. L.dcl[q] = [L.dcl[q - 1] EXCEPT ![L.lev[q - 1] + 2] = {}]
      BY ONLY <1>o DEF Opens
    <3>2. L.lev[q - 1] + 2 = l + 1
      BY ONLY <1>4, <1>v
    <3> QED BY ONLY <3>1, <3>2
  <2>3. l + 1 \in Nat
    BY ONLY <1>4
  <2>4. L.dcl[q] = [L.dcl[q - 1] EXCEPT ![l + 1] = {}]
    BY ONLY <2>2
  <2>5. L.dcl[q][l + 1] = {}
    BY ONLY <2>1, <2>3, <2>4
  <2> QED BY ONLY <2>5, <1>7
<1>9. Stack(s, l + 1, E, AliasSets(N)) /\ Same(next, s, l)
  <2>1. \A i \in 1 .. l : E[i] = D[i]
    BY <1>s, <1>7 DEF Same
  <2>2. s = Opened(next)
    BY <1>7
  <2> QED BY <2>1, <2>2, <1>4, <1>8, StackOpened, Zenon
<1>10. PICK g : g = [h EXCEPT ![q + 1] = s]
  OBVIOUS
<1>11. Grown(h, g, q, s)
  BY <1>1, <1>6, <1>10, HistGrows, Zenon
<1>12. IsHist(g) /\ g[q + 1] = s /\ \A p \in 1 .. q : g[p] = h[p]
  BY <1>11 DEF Grown, Same
<1>13. /\ prog = P
       /\ \A p \in 1 .. c - 1 : Flow(P, L, h, doExitFrees, p - 1, p)
       /\ \A p \in 1 .. c : ShapedAt(L, N, p - 1, h[p])
       /\ OutsideIn(P) => \A p \in freeSites : p < c /\ SoleDrop(P, L, h, p - 1, p)
  BY <1>0, Zenon DEF WalkOK, WalkedTo
<1>14. \A p \in 1 .. q - 1 : Flow(P, L, g, doExitFrees, p - 1, p)
  <2> SUFFICES ASSUME NEW p \in 1 .. q - 1 PROVE Flow(P, L, g, doExitFrees, p - 1, p)
    OBVIOUS
  <2>1. PICK i : i = p - 1
    OBVIOUS
  <2>2. p \in 1 .. N /\ p \in 1 .. c - 1 /\ p \in 1 .. q /\ p + 1 \in 1 .. q /\ p \in Nat
    <3>1. p \in 1 .. q - 1 /\ c \in 1 .. N /\ N \in Nat
      BY <1>1
    <3> QED BY ONLY <3>1, <1>5, <1>6
  <2>3. Flow(P, L, h, doExitFrees, i, p)
    BY <1>13, <2>1, <2>2
  <2> QED BY <2>1, <2>2, <2>3, <1>1, <1>6, <1>11, FlowKeeps
<1>15. Flow(P, L, g, doExitFrees, q - 1, q)
  <2>1. P[q].op = "while" /\ g[q] = h[q]
    <3>1. q \in 1 .. q
      BY ONLY <1>6, <1>5
    <3> QED BY <3>1, <1>12
  <2>2. Under(g[q], g[q + 1], l, L.dcl[q - 1])
    BY <2>1, <1>s, <1>9, <1>12 DEF Under, Same
  <2>3. L.lev[q - 1] + 1 = l
    BY ONLY <1>4, <1>v
  <2> QED BY <2>1, <2>2, <2>3 DEF Flow, FlowStmt, FlowBlock
<1>16. \A p \in 1 .. (q + 1) - 1 : Flow(P, L, g, doExitFrees, p - 1, p)
  <2> TAKE p \in 1 .. (q + 1) - 1
  <2>1. CASE p = q
    BY <2>1, <1>15
  <2>2. CASE p \in 1 .. q - 1
    BY <2>2, <1>14
  <2> QED BY <2>1, <2>2, <1>6
<1>17. \A p \in 1 .. q + 1 : ShapedAt(L, N, p - 1, g[p])
  <2> TAKE p \in 1 .. q + 1
  <2>1. CASE p = q + 1
    BY <2>1, <1>v, <1>6, <1>7, <1>9, <1>12 DEF ShapedAt
  <2>2. CASE p \in 1 .. q
    <3>1. p \in 1 .. c
      BY <2>2, <1>1, <1>6
    <3> QED BY <2>2, <3>1, <1>12, <1>13
  <2> QED BY <2>1, <2>2, <1>6
<1>18. OutsideIn(P) => \A p \in freeSites : p < q + 1 /\ SoleDrop(P, L, g, p - 1, p)
  <2> SUFFICES ASSUME OutsideIn(P), NEW p \in freeSites
               PROVE  p < q + 1 /\ SoleDrop(P, L, g, p - 1, p)
    OBVIOUS
  <2>1. p < c /\ SoleDrop(P, L, h, p - 1, p)
    BY <1>13
  <2>2. p \in 1 .. N /\ P[p].op = "assign" /\ P[p].e = "nil"
    BY <2>1, <1>1 DEF SoleDrop
  <2>3. p \in DOMAIN P /\ q \in DOMAIN P
    <3>1. Len(P) = N /\ N \in Nat
      BY ONLY <1>1 DEF Program
    <3>2. PICK T : P \in Seq(T)
      BY ONLY <1>1 DEF Program
    <3> QED BY ONLY <3>1, <3>2, <2>2, <1>5
  <2>4. ~ q < p
    <3>1. q < p => EndIn(P, q) < p
      BY <2>2, <2>3 DEF OutsideIn
    <3>2. p \in Nat /\ c \in Nat
      BY <2>2, <1>1
    <3> QED BY <3>1, <3>2, <2>1, <1>3
  <2>5. p \in 1 .. q /\ p < q + 1
    BY <2>2, <2>4, <1>6
  <2>6. g[p] = h[p]
    BY <2>5, <1>12
  <2> QED BY <2>1, <2>5, <2>6 DEF SoleDrop
<1>19. WalkedTo(P, N, L, g, q + 1)'
  BY <1>1, <1>6, <1>12, <1>13, <1>16, <1>17, <1>18 DEF WalkedTo
<1>20. FramesOK(P, L, N, g, frames', q)
  <2>1. PICK S, f, f2, fs : /\ frames \in Seq(S) /\ f = frames[l]
                            /\ f2 = [f EXCEPT !.other = next] /\ fs = [frames EXCEPT ![l] = f2]
    BY <1>1 DEF FramesOK
  <2>2. Len(frames) = l /\ \A k \in 1 .. l : FrameOK(P, L, N, h, frames[k], o, k)
    BY <1>0, <1>1 DEF FramesOK
  <2>3. frames' = fs
    BY <2>1
  <2>4. frames \in Seq(S \cup {f2})
    BY <2>1
  <2>5. fs \in Seq(S \cup {f2}) /\ Len(fs) = l /\ fs[l] = f2 /\ \A k \in 1 .. l : k # l => fs[k] = frames[k]
    <3>1. l \in Nat /\ l \in 1 .. l
      BY <1>4
    <3> QED BY <2>1, <2>2, <2>4, <3>1, ChangeOf
  <2>6. IsFrame(f) /\ f.op = P[q].op /\ f.start = q /\ f.entry = h[q]
    <3>1. FrameOK(P, L, N, h, f, o, l)
      BY <1>0, <1>4, <2>1, <2>2
    <3> QED BY <3>1 DEF FrameOK
  <2>7. FrameWith(f, f2, next)
    BY <2>1, <2>6, FrameOther
  <2>8. \A k \in 1 .. l : FrameOK(P, L, N, g, fs[k], q, k)
    <3> SUFFICES ASSUME NEW k \in 1 .. l PROVE FrameOK(P, L, N, g, fs[k], q, k)
      OBVIOUS
    <3>1. CASE k = l
      <4>1. g[q] = h[q]
        <5>1. q \in 1 .. q
          BY ONLY <1>6, <1>5
        <5> QED BY ONLY <5>1, <1>12
      <4>2. IsFrame(f2) /\ f2.op = P[q].op /\ f2.start = q /\ f2.entry = g[q] /\ f2.other = next
        BY <4>1, <2>6, <2>7 DEF FrameWith
      <4>3. Stack(next, l, L.dcl[q], AliasSets(N))
        <5>1. \A d \in 1 .. l : L.dcl[q][d] = D[d]
          BY ONLY <1>s DEF Same
        <5> QED BY <5>1, <1>4, StackSame
      <4>4. \A d \in 1 .. l : next[d] = g[q + 1][d]
        BY <1>9, <1>12 DEF Same
      <4>5. FrameOK(P, L, N, g, f2, q, l)
        BY <4>2, <4>3, <4>4, <1>a DEF FrameOK
      <4> QED BY <3>1, <4>5, <2>5
    <3>2. CASE k \in 1 .. l - 1
      <4>1. PICK i, m, e : i = L.opn[o][k] /\ m = L.arm[o][k] /\ e = fs[k]
        OBVIOUS
      <4>2. FrameOK(P, L, N, h, e, o, k)
        BY <3>2, <4>1, <2>2, <2>5
      <4>3. i \in 1 .. q /\ i + 1 \in 1 .. q /\ m \in 1 .. q
        <5>1. i \in 1 .. q - 1 /\ m \in 1 .. q - 1
          BY ONLY <3>2, <4>1, <1>u
        <5> QED BY ONLY <5>1, <1>6
      <4>4. g[i] = h[i] /\ g[i + 1] = h[i + 1] /\ g[m] = h[m]
        BY <4>3, <1>12
      <4>5. L.opn[q][k] = i /\ L.arm[q][k] = m
        BY ONLY <3>2, <4>1, <1>u
      <4>6. /\ IsFrame(e) /\ e.op = P[i].op /\ e.start = i /\ e.entry = h[i]
            /\ Stack(e.other, k, D, AliasSets(N))
            /\ P[i].op = "while" => \A d \in 1 .. k : e.other[d] = h[i + 1][d]
            /\ P[i].op = "if" /\ m # i => \A d \in 1 .. k : e.other[d] = h[m][d]
        BY <4>1, <4>2, <1>0 DEF FrameOK
      <4>7. Stack(e.other, k, L.dcl[q], AliasSets(N))
        <5>1. \A d \in 1 .. k : L.dcl[q][d] = D[d]
          <6>1. \A d \in 1 .. l : L.dcl[q][d] = D[d]
            BY ONLY <1>s DEF Same
          <6>2. \A d \in 1 .. k : d \in 1 .. l
            BY ONLY <3>2, <1>4
          <6> QED BY ONLY <6>1, <6>2
        <5>2. k \in Nat
          BY ONLY <3>2, <1>4
        <5> QED BY <5>1, <5>2, <4>6, StackSame
      <4>8. FrameOK(P, L, N, g, e, q, k)
        BY ONLY <4>4, <4>5, <4>6, <4>7 DEF FrameOK
      <4> QED BY ONLY <4>1, <4>8
    <3> QED BY <3>1, <3>2, <1>4
  <2>9. L.lev[q] = l
    BY <1>v
  <2> QED BY <2>3, <2>5, <2>8, <2>9 DEF FramesOK
<1>21. WalkOK(P, N, L, g)'
  <2>1. (g[pc] = scopes)'
    BY <1>7, <1>12
  <2> QED BY <2>1, <1>6, <1>19, <1>20 DEF WalkOK
<1> QED BY <1>21

LEMMA WalkLatchOK ==
  ASSUME NEW P, NEW N, NEW L, NEW h, WalkOK(P, N, L, h), WalkLatch
  PROVE  \E g : WalkOK(P, N, L, g)'
<1>1. PICK c, o, l, D : Here(L, c, o, l, D)
  BY DEF Here
<1>0. c = pc /\ o = c - 1 /\ l = L.lev[o] /\ D = L.dcl[o]
  BY <1>1 DEF Here
<1>2. At("end") /\ Last(frames).op = "while" /\ UNCHANGED <<freeSites, freedSites, doExitFrees>>
  BY DEF WalkLatch, Closes
<1>3. /\ c \in 1 .. N /\ N \in Nat /\ Program(P, N, L) /\ L \in Layouts /\ IsHist(h)
      /\ P[c].op = "end"
      /\ Placed(P, L, o, c) /\ o \in Nat /\ l \in Nat
      /\ \A k \in 1 .. l : Around(P, L, o, k)
      /\ Stack(scopes, l + 1, D, AliasSets(N)) /\ h[c] = scopes
      /\ FramesOK(P, L, N, h, frames, o)
  BY <1>1, <1>2, WalkStands
<1>4. Shuts(P, L, o, c)
  BY <1>3 DEF Placed, Opens, Turns, Declares, Refers, Openers
<1>5. l >= 1 /\ l \in 1 .. l /\ c \in Nat
  BY <1>0, <1>3, <1>4 DEF Shuts
<1>6. PICK q, f, t : q = L.opn[o][l] /\ f = frames[l] /\ t = Front(scopes)
  OBVIOUS
<1>7. Len(frames) = l /\ FrameOK(P, L, N, h, f, o, l)
  BY <1>0, <1>3, <1>5, <1>6 DEF FramesOK
<1>8. P[q].op = "while" /\ f.start = q /\ f.entry = h[q] /\ Last(frames) = f
  <2>1. Last(frames) = f
    BY <1>6, <1>7 DEF Last
  <2> QED BY <2>1, <1>2, <1>6, <1>7 DEF FrameOK
<1>9. PICK e, k : e = f.entry /\ k = f.other
  OBVIOUS
<1>10. Stack(k, l, D, AliasSets(N)) /\ \A d \in 1 .. l : k[d] = h[q + 1][d]
  BY <1>0, <1>6, <1>7, <1>8, <1>9 DEF FrameOK
<1>11. Stack(t, l, D, AliasSets(N)) /\ Same(scopes, t, l)
  BY <1>3, <1>6, StackFront, Zenon
<1>12. e = h[q] /\ Stack(e, l, D, AliasSets(N))
  BY <1>1, <1>2, <1>5, <1>6, <1>8, <1>9, EntryIs
<1>13. PICK m, next : m = Merge(e, k) /\ next = Merge(m, t)
  OBVIOUS
<1>14. Stack(m, l, D, AliasSets(N)) /\ Merged(e, k, m, l, D)
  BY <1>3, <1>10, <1>12, <1>13, ScopesMerge, Zenon
<1>15. Stack(next, l, D, AliasSets(N)) /\ Merged(m, t, next, l, D)
  BY <1>3, <1>11, <1>13, <1>14, ScopesMerge, Zenon
<1>16. next = NextHead(f.entry, f.other, Front(scopes))
  BY <1>6, <1>9, <1>13 DEF NextHead
<1>17. CASE next = k
  <2>1. scopes' = k /\ frames' = Front(frames) /\ prog' = prog /\ pc' = c + 1
    BY <1>0, <1>8, <1>9, <1>16, <1>17 DEF WalkLatch, Stable, Advance, source
  <2>2. PICK g : g = [h EXCEPT ![c + 1] = k]
    OBVIOUS
  <2>3. Grown(h, g, c, k)
    BY <1>3, <1>5, <2>2, HistGrows, Zenon
  <2>4. g[c + 1] = k /\ \A p \in 1 .. c : g[p] = h[p]
    BY <2>3 DEF Grown, Same
  <2>5. q + 1 \in 1 .. c
    <3>1. q \in 1 .. o
      BY <1>3, <1>5, <1>6 DEF Around
    <3> QED BY <3>1, <1>0, <1>3
  <2>6. g[c] = scopes /\ g[q + 1] = h[q + 1]
    BY <1>3, <1>5, <2>4, <2>5
  <2>7. \A d \in 1 .. l : \A x \in D[d] : scopes[d][x] \subseteq k[d][x]
    <3> TAKE d \in 1 .. l
    <3> TAKE x \in D[d]
    <3>1. t[d] = scopes[d]
      BY <1>11 DEF Same
    <3>2. k[d][x] = m[d][x] \cup t[d][x]
      BY <1>15, <1>17 DEF Merged
    <3> QED BY <3>1, <3>2
  <2>8. Under(scopes, h[q + 1], l, D) /\ Under(h[q + 1], k, l, D) /\ Under(scopes, k, l, D)
    BY <2>7, <1>10 DEF Under
  <2>9. FlowBlock(P, L, g, doExitFrees', o, c)
    BY <2>4, <2>6, <2>8, <1>0, <1>3, <1>6, <1>8 DEF FlowBlock
  <2>10. WalkOK(P, N, L, g)'
    BY <1>1, <1>2, <1>10, <2>1, <2>3, <2>9, WalkLeaves, Zenon
  <2> QED BY <2>10
<1>18. CASE next # k
  <2>1. scopes' = Opened(next) /\ frames' = [frames EXCEPT ![l].other = next] /\ prog' = prog /\ pc' = q + 1
    BY <1>7, <1>8, <1>9, <1>16, <1>18 DEF WalkLatch, Stable, source
  <2>2. Under(h[q], next, l, D)
    BY <1>12, <1>14, <1>15 DEF Under, Merged
  <2>3. P[q].op = "while" /\ l >= 1 /\ q = L.opn[o][l]
    BY <1>5, <1>6, <1>8
  <2> QED BY <1>1, <1>2, <1>15, <2>1, <2>2, <2>3, WalkAgain, Zenon
<1> QED BY <1>17, <1>18

(* A site held by the names of the block that ends has a carrier among them.   *)
LEMMA CarrierIs ==
  ASSUME NEW b, DOMAIN b \subseteq Nat, NEW s, NEW n \in DOMAIN b, s \in b[n]
  PROVE  Carrier(b, s) \in DOMAIN b /\ s \in b[Carrier(b, s)]
<1> DEFINE T == {i \in DOMAIN b : s \in b[i]}
           Q(i) == s \in b[i] /\ \A m \in DOMAIN b : s \in b[m] => i <= m
<1>1. PICK i \in T : \A j \in T : i <= j
  <2>1. T \in SUBSET Nat /\ T # {}
    OBVIOUS
  <2> QED BY <2>1, LeastOf
<1>2. i \in DOMAIN b /\ Q(i)
  BY <1>1
<1>3. Carrier(b, s) = CHOOSE j \in DOMAIN b : Q(j)
  BY DEF Carrier
<1>4. Carrier(b, s) \in DOMAIN b /\ Q(Carrier(b, s))
  BY <1>2, <1>3, Zenon
<1> QED BY <1>4

LEMMA HeldIs ==
  ASSUME NEW b, NEW r
  PROVE  r \in SitesHeld(b) <=> r # NullRoot /\ \E n \in DOMAIN b : r \in b[n]
<1>1. PICK U : U = UNION {b[n] : n \in DOMAIN b}
  OBVIOUS
<1>2. r \in U <=> \E n \in DOMAIN b : r \in b[n]
  BY <1>1, Zenon
<1>3. SitesHeld(b) = U \ {NullRoot}
  BY <1>1, Zenon DEF SitesHeld
<1> QED BY <1>2, <1>3

LEMMA WalkDoExitOK ==
  ASSUME NEW P, NEW N, NEW L, NEW h, WalkOK(P, N, L, h), WalkDoExit,
         SitesHeld(Last(scopes)) \cap Surviving(scopes) = {}
  PROVE  \E g : WalkOK(P, N, L, g)'
<1>1. PICK c, o, l, D : Here(L, c, o, l, D)
  BY DEF Here
<1>0. c = pc /\ o = c - 1 /\ l = L.lev[o] /\ D = L.dcl[o]
  BY <1>1 DEF Here
<1>2. /\ At("end") /\ prog' = prog /\ pc' = c + 1 /\ UNCHANGED <<freeSites, freedSites>>
      /\ frames' = Front(frames) /\ scopes' = Front(scopes) /\ Last(frames).op = "do"
      /\ doExitFrees' = Bind(doExitFrees, c, ExitFrees(Last(scopes), SitesHeld(Last(scopes)) \ freedSites))
  BY <1>0 DEF WalkDoExit, Closes, Advance, source
<1>3. /\ c \in 1 .. N /\ N \in Nat /\ Program(P, N, L) /\ L \in Layouts /\ IsHist(h)
      /\ P[c].op = "end"
      /\ Placed(P, L, o, c) /\ o \in Nat /\ l \in Nat /\ D \in [Nat -> SUBSET Names]
      /\ Stack(scopes, l + 1, D, AliasSets(N)) /\ h[c] = scopes
      /\ FramesOK(P, L, N, h, frames, o)
  BY <1>1, <1>2, WalkStands
<1>4. Shuts(P, L, o, c)
  BY <1>3 DEF Placed, Opens, Turns, Declares, Refers, Openers
<1>5. l >= 1 /\ l \in 1 .. l /\ c \in Nat /\ l + 1 \in Nat
  BY <1>0, <1>3, <1>4 DEF Shuts
<1>6. PICK q, f, s : q = L.opn[o][l] /\ f = frames[l] /\ s = Front(scopes)
  OBVIOUS
<1>7. Len(frames) = l /\ FrameOK(P, L, N, h, f, o, l)
  BY <1>0, <1>3, <1>5, <1>6 DEF FramesOK
<1>8. P[q].op = "do"
  <2>1. Last(frames) = f
    BY <1>6, <1>7 DEF Last
  <2> QED BY <2>1, <1>2, <1>6, <1>7 DEF FrameOK
<1>9. Stack(s, l, D, AliasSets(N)) /\ Same(scopes, s, l)
  BY <1>3, <1>6, StackFront, Zenon
<1>10. PICK g : g = [h EXCEPT ![c + 1] = s]
  OBVIOUS
<1>y. Grown(h, g, c, s)
  BY <1>3, <1>5, <1>10, HistGrows, Zenon
<1>11. g[c + 1] = s /\ \A p \in 1 .. c : g[p] = h[p]
  BY <1>y DEF Grown, Same
<1>12. g[c] = scopes
  BY <1>3, <1>5, <1>11
<1>13. Under(scopes, s, l, D)
  BY <1>9 DEF Under, Same
<1>14. PICK dying, frees : dying = scopes[l + 1] /\ frees = ExitFrees(dying, SitesHeld(dying) \ freedSites)
  OBVIOUS
<1>15. Last(scopes) = dying /\ dying \in [D[l + 1] -> AliasSets(N)] /\ Len(scopes) = l + 1
  <2>1. Len(scopes) = l + 1 /\ l + 1 \in 1 .. l + 1
    BY <1>3 DEF Stack
  <2> QED BY <2>1, <1>3, <1>14 DEF Last, Stack
<1>16. doExitFrees' = Bind(doExitFrees, c, frees)
  BY <1>2, <1>14, <1>15
<1>17. /\ c \in DOMAIN doExitFrees' /\ doExitFrees'[c] = frees
       /\ \A p \in 1 .. c - 1 : p \in DOMAIN doExitFrees =>
            p \in DOMAIN doExitFrees' /\ doExitFrees'[p] = doExitFrees[p]
  BY <1>16, <1>5 DEF Bind
<1>18. FlowExit(D, l, scopes, frees)
  <2>1. ASSUME NEW x \in D[l + 1], NEW d \in 1 .. l, NEW y \in D[d]
        PROVE  scopes[l + 1][x] \cap scopes[d][y] \subseteq {NullRoot}
    <3> SUFFICES ASSUME NEW r \in scopes[l + 1][x], r \in scopes[d][y], r # NullRoot PROVE FALSE
      OBVIOUS
    <3>1. r \in SitesHeld(dying)
      BY <1>14, <1>15, HeldIs
    <3>2. DOMAIN scopes[d] = D[d] /\ d \in 1 .. Len(scopes) - 1
      <4>1. d \in 1 .. l + 1
        BY <1>3
      <4> QED BY <4>1, <1>3, <1>15 DEF Stack
    <3>3. r \in SitesHeld(scopes[d])
      BY <3>2, HeldIs
    <3>4. r \in Surviving(scopes)
      BY <3>2, <3>3 DEF Surviving
    <3> QED BY <3>1, <3>4, <1>15
  <2>2. ASSUME NEW r \in frees
        PROVE  r.carrier \in D[l + 1] /\ r.site \in scopes[l + 1][r.carrier] /\ r.site # NullRoot
    <3>1. PICK u \in SitesHeld(dying) : r = [site |-> u, carrier |-> Carrier(dying, u)]
      BY <2>2, <1>14 DEF ExitFrees
    <3>2. DOMAIN dying = D[l + 1] /\ D[l + 1] \subseteq Nat
      BY <1>3, <1>5, <1>15, ProgramAssumption
    <3>3. PICK n \in DOMAIN dying : u \in dying[n]
      BY <3>1, HeldIs
    <3>4. u # NullRoot
      BY <3>1, HeldIs
    <3>5. Carrier(dying, u) \in DOMAIN dying /\ u \in dying[Carrier(dying, u)]
      BY <3>2, <3>3, CarrierIs
    <3> QED BY <3>1, <3>2, <3>4, <3>5, <1>14
  <2> QED BY <2>1, <2>2 DEF FlowExit
<1>19. FlowBlock(P, L, g, doExitFrees', o, c)
  BY <1>0, <1>3, <1>6, <1>8, <1>11, <1>12, <1>13, <1>17, <1>18 DEF FlowBlock
<1>20. WalkOK(P, N, L, g)'
  BY <1>1, <1>2, <1>6, <1>9, <1>17, <1>y, <1>19, WalkLeaves
<1> QED BY <1>20

(* The walk of an accepted program is over. *)
Accepted(P, N, L, h) == phase = "lower" /\ pc = 1 /\ WalkedTo(P, N, L, h, N + 1)

LEMMA WalkDoneOK ==
  ASSUME NEW P, NEW N, NEW L, NEW h, WalkOK(P, N, L, h), WalkDone
  PROVE  Accepted(P, N, L, h)'
<1>1. WalkedTo(P, N, L, h, pc) /\ prog = P /\ Len(P) = N
  BY DEF WalkOK, WalkedTo, Program
<1>2. pc = N + 1 /\ phase' = "lower" /\ pc' = 1 /\ prog' = prog
      /\ freeSites' = freeSites /\ freedSites' = freedSites /\ doExitFrees' = doExitFrees
  BY <1>1 DEF WalkDone, source, analysis
<1>3. WalkedTo(P, N, L, h, N + 1)
  BY <1>1, <1>2
<1>4. WalkedTo(P, N, L, h, N + 1)'
  BY <1>2, <1>3 DEF WalkedTo
<1> QED BY <1>2, <1>4 DEF Accepted

(* A refused program stays as it is. *)
Refused == phase' = "rejected" /\ UNCHANGED <<source, pc, analysis>>

LEMMA WalkStep ==
  ASSUME NEW P, NEW N, NEW L, NEW h, WalkOK(P, N, L, h), Walk
  PROVE  \/ phase' = "walk" /\ \E g : WalkOK(P, N, L, g)'
         \/ Refused
         \/ Accepted(P, N, L, h)'
<1>0. phase = "walk"
  BY DEF Walk
<1>1. CASE WalkLocal
  BY <1>0, <1>1, WalkLocalOK DEF WalkLocal, Advance
<1>2. CASE WalkAssign
  BY <1>0, <1>2, WalkAssignOK DEF WalkAssign, Advance
<1>3. CASE WalkDrop
  BY <1>0, <1>3, WalkDropOK DEF WalkDrop, Advance
<1>4. CASE WalkUse
  <2>1. CASE NullRoot \in Aliases(Token.x)
    BY <1>4, <2>1 DEF WalkUse, Reject, Refused
  <2>2. CASE NullRoot \notin Aliases(Token.x)
    BY <1>0, <1>4, <2>2, WalkUseOK DEF WalkUse, Advance
  <2> QED BY <2>1, <2>2
<1>5. CASE WalkIf \/ WalkWhile \/ WalkDo
  BY <1>0, <1>5, WalkOpenersOK DEF WalkIf, WalkWhile, WalkDo, Advance
<1>6. CASE WalkElse
  BY <1>0, <1>6, WalkElseOK DEF WalkElse, Advance
<1>7. CASE WalkEndIf
  BY <1>0, <1>7, WalkEndIfOK DEF WalkEndIf, Advance
<1>8. CASE WalkLatch
  BY <1>0, <1>8, WalkLatchOK DEF WalkLatch, Advance
<1>9. CASE WalkDoExit
  <2>1. CASE SitesHeld(Last(scopes)) \cap Surviving(scopes) = {}
    BY <1>0, <1>9, <2>1, WalkDoExitOK DEF WalkDoExit, Advance
  <2>2. CASE SitesHeld(Last(scopes)) \cap Surviving(scopes) # {}
    BY <1>9, <2>2 DEF WalkDoExit, Reject, Refused
  <2> QED BY <2>1, <2>2
<1>10. CASE WalkDone
  BY <1>10, WalkDoneOK
<1> QED BY <1>1, <1>2, <1>3, <1>4, <1>5, <1>6, <1>7, <1>8, <1>9, <1>10 DEF Walk

(* Before anything is walked. *)
Fresh == pc = 1 /\ InitWalk

LEMMA WalkStarts ==
  ASSUME NEW L, Reading(L), Fresh, Read, UNCHANGED analysis
  PROVE  \/ phase' = "read" /\ Fresh' /\ \E M : Reading(M)'
         \/ phase' = "walk" /\ \E P, N, h : WalkOK(P, N, L, h)'
<1>1. pc = 1 /\ InitWalk /\ Fresh' = (pc' = 1 /\ InitWalk)
  BY DEF Fresh, InitWalk, analysis
<1>2. CASE phase' = "read" /\ pc' = pc /\ \E M : Reading(M)'
  BY <1>1, <1>2
<1>3. CASE phase' = "walk" /\ pc' = pc /\ prog' = prog /\ L.lev[Len(prog)] = 0
  <2>1. PICK P, N : P = prog /\ N = Len(prog)
    OBVIOUS
  <2>2. Layout(P, L) /\ N \in Nat /\ Len(P) = N /\ \E T : P \in Seq(T)
    BY <2>1 DEF Reading, Laid
  <2>3. Program(P, N, L)
    BY <2>1, <2>2, <1>3 DEF Program
  <2>4. L.lev[0] = 0 /\ L.dcl[0][1] = {}
    BY <2>2 DEF Layout
  <2>5. PICK s, h : s = scopes /\ h = [p \in Nat |-> s]
    OBVIOUS
  <2>6. IsHist(h) /\ h[1] = s
    BY <2>5 DEF IsHist
  <2>7. /\ scopes = <<[x \in {} |-> {}]>> /\ frames = <<>> /\ freeSites = {} /\ freedSites = {}
        /\ doExitFrees = [e \in {} |-> {}]
    BY <1>1 DEF InitWalk
  <2>8. Stack(s, 1, L.dcl[0], AliasSets(N))
    <3>1. PICK v : v = [x \in {} |-> {}]
      OBVIOUS
    <3>2. s = <<v>> /\ s \in Seq({v}) /\ Len(s) = 1 /\ s[1] = v
      BY <2>5, <2>7, <3>1
    <3>3. v \in [L.dcl[0][1] -> AliasSets(N)]
      BY <2>4, <3>1
    <3>4. \A d \in 1 .. 1 : s[d] \in [L.dcl[0][d] -> AliasSets(N)]
      <4> TAKE d \in 1 .. 1
      <4>1. d = 1
        OBVIOUS
      <4> QED BY <4>1, <3>2, <3>3
    <3> QED BY <3>2, <3>4 DEF Stack
  <2>9. ShapedAt(L, N, 0, h[1])
    BY <2>4, <2>6, <2>8 DEF ShapedAt
  <2>10. WalkedTo(P, N, L, h, 1)'
    <3>1. \A p \in 1 .. 1 : ShapedAt(L, N, p - 1, h[p])
      <4> TAKE p \in 1 .. 1
      <4>1. p = 1 /\ p - 1 = 0
        OBVIOUS
      <4> QED BY <4>1, <2>9
    <3>2. 1 \in 1 .. N + 1 /\ \A p \in 1 .. 1 - 1 : FALSE
      BY <2>2
    <3>3. prog' = P /\ freeSites' = {} /\ freedSites' = {}
      BY <1>3, <2>1, <2>7 DEF analysis
    <3> QED BY <2>3, <2>6, <3>1, <3>2, <3>3 DEF WalkedTo
  <2>11. FramesOK(P, L, N, h, <<>>, 0)
    <3>1. <<>> \in Seq({}) /\ Len(<<>>) = 0 /\ \A k \in 1 .. 0 : FALSE
      OBVIOUS
    <3> QED BY <3>1, <2>4 DEF FramesOK
  <2>12. pc' = 1 /\ pc' - 1 = 0 /\ scopes' = s /\ frames' = <<>>
    BY <1>1, <1>3, <2>5, <2>7 DEF analysis
  <2>13. WalkOK(P, N, L, h)'
    BY <2>6, <2>10, <2>11, <2>12 DEF WalkOK
  <2> QED BY <1>3, <2>13
<1> QED BY <1>2, <1>3, ReadLays

LEMMA ReadingStarts ==
  ASSUME Init
  PROVE  Fresh /\ phase = "read" /\ \E L : Reading(L)
<1>1. Fresh /\ phase = "read" /\ prog = <<>> /\ open = <<[op |-> "file", names |-> {}]>>
  BY DEF Init, InitProgram, Fresh
<1>2. PICK z, L : z = [i \in Nat |-> 0] /\
        L = [lev |-> z, opn |-> [p \in Nat |-> z], arm |-> [p \in Nat |-> z],
             dcl |-> [p \in Nat |-> [i \in Nat |-> {}]]]
  OBVIOUS
<1>3. L \in Layouts /\ L.lev[0] = 0 /\ L.dcl[0][1] = {}
  BY <1>2 DEF Layouts
<1>4. Laid(<<>>, L)
  <2>1. <<>> \in Seq({}) /\ Len(<<>>) = 0 /\ \A p \in 1 .. 0 : FALSE
    OBVIOUS
  <2>2. Layout(<<>>, L)
    BY <1>3, <2>1 DEF Layout
  <2> QED BY <2>1, <2>2 DEF Laid
<1>5. ReaderIn(<<>>, 0, L, open)
  <2>1. PICK b : b = [op |-> "file", names |-> {}]
    OBVIOUS
  <2>2. b \in Opened1 /\ b.op = "file" /\ b.names = {}
    BY <2>1 DEF Opened1
  <2>3. open \in Seq(Opened1) /\ Len(open) = 1 /\ open[1] = b
    BY <1>1, <2>1, <2>2
  <2>4. \A i \in 1 .. 1 : open[i].names = L.dcl[0][i]
    <3> TAKE i \in 1 .. 1
    <3>1. i = 1
      OBVIOUS
    <3> QED BY <3>1, <1>3, <2>2, <2>3
  <2>5. Fits(<<>>, 0, L.opn[0], L.arm[0], L.dcl[0], open)
    BY <2>2, <2>3, <2>4 DEF Fits
  <2> QED BY <1>3, <2>5 DEF ReaderIn
<1>6. Reading(L)
  BY <1>1, <1>4, <1>5 DEF Reading
<1> QED BY <1>1, <1>6
=============================================================================
