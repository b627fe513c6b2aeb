--------------------------- MODULE DeepFreeProofs ----------------------------
(***************************************************************************)
(* Tables in tables, for every program: as long as no program mixes rows       *)
(* written inline with rows stored by name, no header is released twice and a  *)
(* name never stands for a released table.                                  *)
(***************************************************************************)
EXTENDS DeepFree, FiniteSetTheorems, TLAPS

-----------------------------------------------------------------------------
(* The order of a finite set of numbers.                                   *)

Below(A, x) == {b \in A : b < x}

(* How many elements are smaller tells elements apart and is any number below   *)
(* the size of the set.                                                     *)
LEMMA RanksAreDistinct ==
  ASSUME NEW A \in SUBSET Nat, IsFiniteSet(A)
  PROVE  /\ \A x \in A : Cardinality(Below(A, x)) \in 0 .. Cardinality(A) - 1
         /\ \A x \in A, y \in A : x < y => Cardinality(Below(A, x)) < Cardinality(Below(A, y))
<1>1. ASSUME NEW x \in A, NEW B \in SUBSET A, x \in B, Below(A, x) \subseteq B
      PROVE  /\ Cardinality(Below(A, x)) \in Nat
             /\ Cardinality(B) \in Nat
             /\ Cardinality(Below(A, x)) < Cardinality(B)
  <2>1. IsFiniteSet(B)
    BY FS_Subset
  <2>2. Below(A, x) \in SUBSET B /\ x \notin Below(A, x)
    BY <1>1 DEF Below
  <2>3. IsFiniteSet(Below(A, x)) /\ Cardinality(Below(A, x)) <= Cardinality(B)
        /\ (Cardinality(B) = Cardinality(Below(A, x)) => B = Below(A, x))
    BY <2>1, <2>2, FS_Subset
  <2>4. Cardinality(B) \in Nat /\ Cardinality(Below(A, x)) \in Nat
    BY <2>1, <2>3, FS_CardinalityType
  <2> QED BY <1>1, <2>2, <2>3, <2>4
<1>2. ASSUME NEW x \in A
      PROVE  Cardinality(Below(A, x)) \in 0 .. Cardinality(A) - 1
  <2>1. Below(A, x) \subseteq A
    BY DEF Below
  <2> QED BY <1>1, <2>1
<1>3. ASSUME NEW x \in A, NEW y \in A, x < y
      PROVE  Cardinality(Below(A, x)) < Cardinality(Below(A, y))
  <2>1. Below(A, y) \in SUBSET A /\ x \in Below(A, y)
    BY <1>3 DEF Below
  <2>2. \A b \in Nat, c \in Nat, d \in Nat : b < c /\ c < d => b < d
    OBVIOUS
  <2>3. Below(A, x) \subseteq Below(A, y)
    BY <1>3, <2>2 DEF Below
  <2> QED BY <1>1, <2>1, <2>3
<1> QED BY <1>2, <1>3

LEMMA RanksAreAll ==
  ASSUME NEW A \in SUBSET Nat, IsFiniteSet(A), NEW n \in 1 .. Cardinality(A)
  PROVE  \E a \in A : Cardinality(Below(A, a)) = n - 1
<1> DEFINE T == 0 .. Cardinality(A) - 1
           r == [x \in A |-> Cardinality(Below(A, x))]
<1>1. Cardinality(A) \in Nat
  BY FS_CardinalityType
<1>2. IsFiniteSet(T) /\ Cardinality(T) = Cardinality(A)
  <2>1. IsFiniteSet(T) /\ Cardinality(T) = IF 0 > Cardinality(A) - 1 THEN 0
                                           ELSE Cardinality(A) - 1 - 0 + 1
    <3>1. 0 \in Int /\ Cardinality(A) - 1 \in Int
      BY <1>1
    <3> QED BY <3>1, FS_Interval
  <2> QED BY <1>1, <2>1
<1>3. r \in Injection(A, T)
  <2>1. r \in [A -> T]
    BY RanksAreDistinct
  <2>2. \A x, y \in A : r[x] = r[y] => x = y
    <3> SUFFICES ASSUME NEW x \in A, NEW y \in A, r[x] = r[y], x # y
                 PROVE  FALSE
      OBVIOUS
    <3>1. x \in Nat /\ y \in Nat
      OBVIOUS
    <3>2. x < y \/ y < x
      BY <3>1
    <3>3. r[x] \in T /\ r[y] \in T
      BY <2>1
    <3> QED BY <3>2, <3>3, <1>1, RanksAreDistinct
  <2> QED BY <2>1, <2>2 DEF Injection, IsInjective
<1>4. r \in Surjection(A, T)
  BY <1>2, <1>3, FS_Injection
<1>5. n - 1 \in T
  BY <1>1
<1>6. \E a \in A : r[a] = n - 1
  BY <1>4, <1>5 DEF Surjection
<1> QED BY <1>6

(* Ascending lists the set, each element once.                             *)
LEMMA AscendingLists ==
  ASSUME NEW A \in SUBSET Nat, IsFiniteSet(A)
  PROVE  /\ Ascending(A) \in Seq(A)
         /\ \A m \in DOMAIN Ascending(A), n \in DOMAIN Ascending(A) :
              Ascending(A)[m] = Ascending(A)[n] => m = n
         /\ \A a \in A : \E n \in DOMAIN Ascending(A) : Ascending(A)[n] = a
<1> DEFINE N == Cardinality(A)
           asc == Ascending(A)
<1>1. N \in Nat
  BY FS_CardinalityType
<1>2. asc = [n \in 1 .. N |-> CHOOSE a \in A : Cardinality(Below(A, a)) = n - 1]
  BY DEF Ascending, Below
<1> HIDE DEF asc
<1>3. \A n \in 1 .. N : asc[n] \in A /\ Cardinality(Below(A, asc[n])) = n - 1
  <2> TAKE n \in 1 .. N
  <2>1. \E a \in A : Cardinality(Below(A, a)) = n - 1
    BY RanksAreAll
  <2>2. asc[n] = CHOOSE a \in A : Cardinality(Below(A, a)) = n - 1
    BY <1>2
  <2> QED BY <2>1, <2>2
<1>4. asc \in [1 .. N -> A] /\ DOMAIN asc = 1 .. N
  BY <1>2, <1>3
<1>5. asc \in Seq(A)
  BY <1>1, <1>4
<1>6. \A m \in 1 .. N, n \in 1 .. N : asc[m] = asc[n] => m = n
  BY <1>1, <1>3
<1>7. \A a \in A : \E n \in 1 .. N : asc[n] = a
  <2> TAKE a \in A
  <2>1. Cardinality(Below(A, a)) \in 0 .. N - 1 /\ Cardinality(Below(A, a)) \in Nat
    BY <1>1, RanksAreDistinct
  <2> DEFINE n == Cardinality(Below(A, a)) + 1
  <2>2. n \in 1 .. N /\ n - 1 = Cardinality(Below(A, a))
    BY <1>1, <2>1
  <2>3. asc[n] \in A /\ Cardinality(Below(A, asc[n])) = Cardinality(Below(A, a))
    BY <1>3, <2>2
  <2>4. asc[n] \in Nat /\ a \in Nat /\ Cardinality(Below(A, a)) \in Nat
    <3>1. asc[n] \in Nat /\ a \in Nat
      BY <2>3
    <3> QED BY <3>1, <2>1
  <2>5. ~(asc[n] < a) /\ ~(a < asc[n])
    BY <2>3, <2>4, RanksAreDistinct
  <2>6. asc[n] = a
    BY <2>4, <2>5
  <2> QED BY <2>2, <2>6
<1> QED BY <1>4, <1>5, <1>6, <1>7 DEF asc

-----------------------------------------------------------------------------
(* What the walk knows at each position of a program.                       *)

(* The constructors among the first p statements.                           *)
Ctors(P, p) == {n \in 1 .. p : P[n].op = "ctor"}

(* The sites to be released by a drop or by the exit.                       *)
Gone(f) == f.freed \cup f.exits

(* A name holds a site of its kind, and none that is released: a drop asks     *)
(* every other name first, the exit leaves no name with a site it releases.   *)
FactsInv(f, P, p) ==
  /\ f.site \in [Names -> {0} \cup Ctors(P, p)]
  /\ \A x \in Names :
       f.site[x] # 0 => (P[f.site[x]].x \in Matrices <=> x \in Matrices)
  /\ Gone(f) \subseteq Ctors(P, p)
  /\ \A x \in Names : f.site[x] \notin Gone(f)
  /\ f.drops \subseteq 1 .. p
  /\ f.parents # {} => \E n \in 1 .. p : P[n].op = "putnew"
  /\ ~f.left => f.exits = {}
  /\ f.left \in BOOLEAN

(* The facts f of position p as the whole walk, which ends with g, leaves them. *)
Told(f, g, p) ==
  /\ f.drops = {d \in g.drops : d <= p}
  /\ f.parents \subseteq g.parents
  /\ f.left => g.left /\ g.exits = f.exits

(* hist[p]: the facts of the walk of the first p statements of P.           *)
History(hist, P, g) ==
  /\ hist = [p \in 0 .. Len(P) |-> hist[p]]
  /\ hist[0] = NoFacts
  /\ hist[Len(P)] = g
  /\ \A p \in 1 .. Len(P) :
       Legal(hist[p - 1], P[p]) /\ hist[p] = Judged(hist[p - 1], P[p], p)
  /\ \A p \in 0 .. Len(P) : FactsInv(hist[p], P, p) /\ Told(hist[p], g, p)

LEMMA FactsStart ==
  ASSUME NEW P
  PROVE  FactsInv(NoFacts, P, 0) /\ Told(NoFacts, NoFacts, 0)
BY DEF FactsInv, Told, NoFacts, Gone, Ctors

(* A statement more.                                                       *)
LEMMA JudgedKeeps ==
  ASSUME NEW P, NEW p \in Nat \ {0}, NEW f, P[p] \in Stmts,
         FactsInv(f, P, p - 1), Legal(f, P[p])
  PROVE  FactsInv(Judged(f, P[p], p), P, p)
<1> DEFINE s == P[p]
           g == Judged(f, s, p)
<1>1. s \in Stmts
  OBVIOUS
<1>2. Ctors(P, p - 1) \subseteq Ctors(P, p) /\ p \notin Ctors(P, p - 1) /\ 0 \notin Ctors(P, p)
  BY DEF Ctors
<1>3. s.op = "ctor" => p \in Ctors(P, p)
  BY DEF Ctors
<1>4. g.site = [x \in Names |-> IF s.op = "exit" /\ x \in Dying(f) THEN 0
                                ELSE IF x = s.x THEN Bound(f, s, p) ELSE f.site[x]]
  BY DEF Judged
<1>5. g.freed = f.freed \cup (IF Frees(f, s) THEN {f.site[s.x]} ELSE {})
  BY DEF Judged
<1>6. g.exits = (IF s.op = "exit" THEN ExitSites(f) ELSE f.exits)
  BY DEF Judged
<1>7. /\ g.drops = f.drops \cup (IF Frees(f, s) THEN {p} ELSE {})
      /\ g.parents = f.parents \cup Marked(f, s)
      /\ g.left = (f.left \/ s.op = "exit")
  BY DEF Judged
<1> HIDE DEF g
<1>8. \/ s.op = "ctor" /\ s.x \in Names
      \/ s.op = "alias" /\ s.x \in Names /\ s.y \in Names /\ (s.x \in Matrices <=> s.y \in Matrices)
      \/ s.op \in {"put", "putnew", "read", "drop"} /\ s.x \in Names
      \/ s.op = "exit" /\ s.x \notin Names
  BY <1>1, StmtsAssumption, NamesAssumption DEF Names
<1>9. \A x \in Names :
        \/ g.site[x] = 0
        \/ g.site[x] = f.site[x]
        \/ x = s.x /\ s.op = "ctor" /\ g.site[x] = p
        \/ x = s.x /\ s.op = "alias" /\ g.site[x] = f.site[s.y]
  BY <1>4, <1>8 DEF Bound
<1>10. g.site \in [Names -> {0} \cup Ctors(P, p)]
  <2>1. \A x \in Names : g.site[x] \in {0} \cup Ctors(P, p)
    BY <1>2, <1>3, <1>8, <1>9 DEF FactsInv
  <2> QED BY <2>1, <1>4
<1>11. \A x \in Names :
         g.site[x] # 0 => (P[g.site[x]].x \in Matrices <=> x \in Matrices)
  BY <1>8, <1>9 DEF FactsInv
<1>12. Frees(f, s) => s.op = "drop" /\ f.site[s.x] \in Ctors(P, p - 1)
  BY <1>8 DEF Frees, SoleOwner, Holds, FactsInv
<1>13. ExitSites(f) \subseteq Ctors(P, p - 1)
  BY DEF ExitSites, Held, Dying, FactsInv
<1>14. Gone(g) \subseteq Ctors(P, p)
  BY <1>2, <1>5, <1>6, <1>12, <1>13 DEF Gone, FactsInv
<1>15. \A x \in Names : g.site[x] \notin Gone(g)
  <2> SUFFICES ASSUME NEW x \in Names
               PROVE  g.site[x] \notin Gone(g)
    OBVIOUS
  <2>1. CASE g.site[x] = 0 \/ g.site[x] = p
    BY <2>1, <1>2, <1>5, <1>6, <1>12, <1>13 DEF Gone, FactsInv
  <2>2. CASE s.op = "drop"
    <3>1. g.exits = f.exits
      BY <2>2, <1>6
    <3>2. s.x \in Names /\ g.site[s.x] = 0
      BY <2>2, <1>4, <1>8 DEF Bound
    <3>3. x # s.x => g.site[x] = f.site[x]
      BY <2>2, <1>4
    <3>4. Frees(f, s) /\ x # s.x => f.site[x] # f.site[s.x]
      BY DEF Frees, SoleOwner
    <3>5. f.site[x] \notin Gone(f)
      BY DEF FactsInv
    <3> QED BY <2>1, <3>1, <3>2, <3>3, <3>4, <3>5, <1>5 DEF Gone
  <2>3. CASE s.op = "exit"
    <3>1. s.x \notin Names /\ ~f.left /\ Held(f, Dying(f)) \cap Held(f, Outer) = {}
      BY <2>3, <1>8 DEF Legal
    <3>2. x \in Dying(f) => g.site[x] = 0
      BY <2>3, <1>4
    <3>3. x \notin Dying(f) => x \in Outer /\ g.site[x] = f.site[x]
      BY <3>1, <1>4 DEF Dying
    <3>4. x \in Outer /\ f.site[x] # 0 => f.site[x] \in Held(f, Outer)
      BY DEF Held
    <3>5. ~Frees(f, s) /\ g.exits \subseteq Held(f, Dying(f))
      BY <2>3, <1>6 DEF Frees, ExitSites
    <3>6. f.site[x] \notin f.freed
      BY DEF FactsInv, Gone
    <3> QED BY <2>1, <3>1, <3>2, <3>3, <3>4, <3>5, <3>6, <1>5 DEF Gone
  <2>4. CASE s.op \notin {"drop", "exit"}
    <3>1. Gone(g) = Gone(f)
      BY <2>4, <1>5, <1>6, <1>12 DEF Gone
    <3> QED BY <2>1, <3>1, <1>8, <1>9 DEF FactsInv
  <2> QED BY <2>2, <2>3, <2>4
<1>16. g.drops \subseteq 1 .. p
  BY <1>7 DEF FactsInv
<1>17. g.parents # {} => \E n \in 1 .. p : P[n].op = "putnew"
  <2>1. CASE f.parents # {}
    BY <2>1 DEF FactsInv
  <2>2. CASE f.parents = {}
    BY <2>2, <1>7 DEF Marked
  <2> QED BY <2>1, <2>2
<1>18. (~g.left => g.exits = {}) /\ g.left \in BOOLEAN
  BY <1>6, <1>7 DEF FactsInv
<1>19. FactsInv(g, P, p)
  BY <1>10, <1>11, <1>14, <1>15, <1>16, <1>17, <1>18 DEF FactsInv
<1> QED BY <1>19 DEF g

(* What was decided at earlier positions stays as it is.                    *)
LEMMA JudgedTells ==
  ASSUME NEW n \in Nat, NEW P, NEW f, NEW s, FactsInv(f, P, n), Legal(f, s)
  PROVE  /\ \A e : \A p \in 0 .. n : Told(e, f, p) => Told(e, Judged(f, s, n + 1), p)
         /\ Told(Judged(f, s, n + 1), Judged(f, s, n + 1), n + 1)
<1> DEFINE g == Judged(f, s, n + 1)
<1>1. /\ g.drops \subseteq f.drops \cup {n + 1} /\ f.drops \subseteq g.drops
      /\ f.parents \subseteq g.parents
      /\ f.left => g.left /\ g.exits = f.exits
  BY DEF Judged, Legal
<1>2. f.drops \subseteq 1 .. n
  BY DEF FactsInv
<1> HIDE DEF g
<1>3. \A p \in 0 .. n : {d \in g.drops : d <= p} = {d \in f.drops : d <= p}
  BY <1>1, <1>2
<1>4. {d \in g.drops : d <= n + 1} = g.drops
  BY <1>1, <1>2
<1> QED BY <1>1, <1>3, <1>4 DEF Told, g

LEMMA HistoryGrows ==
  ASSUME NEW P \in Seq(Stmts), NEW s \in Stmts, NEW f, NEW hist,
         History(hist, P, f), Legal(f, s)
  PROVE  \E more : /\ History(more, Append(P, s), Judged(f, s, Len(P) + 1))
                   /\ \A p \in 0 .. Len(P) : more[p] = hist[p]
<1> DEFINE n == Len(P)
           Q == Append(P, s)
           g == Judged(f, s, n + 1)
           more == [p \in 0 .. n + 1 |-> IF p <= n THEN hist[p] ELSE g]
<1>1. /\ n \in Nat /\ Len(Q) = n + 1 /\ Q[n + 1] = s
      /\ \A p \in 1 .. n : Q[p] = P[p]
  OBVIOUS
<1>2. /\ DOMAIN more = 0 .. n + 1 /\ more[n + 1] = g
      /\ \A p \in 0 .. n : more[p] = hist[p]
      /\ more = [p \in 0 .. n + 1 |-> more[p]]
  BY <1>1
<1> HIDE DEF Q, more, n
<1>3. \A e : \A p \in 0 .. n : FactsInv(e, P, p) => FactsInv(e, Q, p)
  <2> SUFFICES ASSUME NEW p \in 0 .. n, NEW e, FactsInv(e, P, p)
               PROVE  FactsInv(e, Q, p)
    OBVIOUS
  <2>1. \A k \in 1 .. p : Q[k] = P[k]
    BY <1>1
  <2>2. Ctors(Q, p) = Ctors(P, p) /\ Ctors(P, p) \subseteq 1 .. p
    BY <2>1 DEF Ctors
  <2>3. \A x \in Names : e.site[x] # 0 => Q[e.site[x]] = P[e.site[x]]
    BY <2>1, <2>2 DEF FactsInv
  <2> QED BY <2>1, <2>2, <2>3 DEF FactsInv
<1>4. FactsInv(f, P, n) /\ hist[n] = f /\ n \in 0 .. n
  BY <1>1 DEF History, n
<1>5. FactsInv(f, Q, n) /\ n + 1 \in Nat \ {0} /\ n + 1 - 1 = n /\ Q[n + 1] \in Stmts
  BY <1>1, <1>3, <1>4
<1>6. FactsInv(g, Q, n + 1)
  BY <1>1, <1>5, JudgedKeeps
<1>7. /\ \A e : \A p \in 0 .. n : Told(e, f, p) => Told(e, g, p)
      /\ Told(g, g, n + 1)
  BY <1>1, <1>4, JudgedTells
<1>8. ASSUME NEW p \in 0 .. n + 1
      PROVE  FactsInv(more[p], Q, p) /\ Told(more[p], g, p)
  <2>1. CASE p = n + 1
    BY <2>1, <1>2, <1>6, <1>7
  <2>2. CASE p # n + 1
    <3>1. p \in 0 .. n
      BY <2>2, <1>1
    <3>2. FactsInv(hist[p], P, p) /\ Told(hist[p], f, p)
      BY <3>1 DEF History, n
    <3> QED BY <3>1, <3>2, <1>2, <1>3, <1>7
  <2> QED BY <2>1, <2>2
<1>9. ASSUME NEW p \in 1 .. n + 1
      PROVE  Legal(more[p - 1], Q[p]) /\ more[p] = Judged(more[p - 1], Q[p], p)
  <2>1. CASE p = n + 1
    <3>1. p - 1 = n
      BY <2>1, <1>1
    <3> QED BY <2>1, <3>1, <1>1, <1>2, <1>4
  <2>2. CASE p # n + 1
    <3>1. p \in 1 .. n /\ p - 1 \in 0 .. n /\ p \in 0 .. n
      BY <2>2, <1>1
    <3>2. Legal(hist[p - 1], P[p]) /\ hist[p] = Judged(hist[p - 1], P[p], p)
      BY <3>1 DEF History, n
    <3> QED BY <3>1, <3>2, <1>1, <1>2
  <2> QED BY <2>1, <2>2
<1>10. more[0] = NoFacts
  <2>1. 0 \in 0 .. n /\ hist[0] = NoFacts
    BY <1>1 DEF History
  <2> QED BY <2>1, <1>2
<1>11. History(more, Q, g)
  BY <1>1, <1>2, <1>8, <1>9, <1>10 DEF History
<1> QED BY <1>2, <1>11 DEF Q, n

-----------------------------------------------------------------------------
(* The program runs.                                                       *)

Cells == UNION {[D -> Nat] : D \in SUBSET Nat}
Tables == [live : BOOLEAN, deep : BOOLEAN, cell : Cells]

Keys(h) == DOMAIN heap[h].cell

HeapInv ==
  /\ heap \in Seq(Tables)
  /\ \A h \in DOMAIN heap :
       /\ IsFiniteSet(Keys(h))
       /\ \A k \in Keys(h) : heap[h].cell[k] \in DOMAIN heap

(* A constructor that ran has its register, and a name the table of its site.  *)
BirthInv(p) ==
  /\ birth \in [Ctors(script, p) -> DOMAIN heap]
  /\ \A q \in DOMAIN birth, r \in DOMAIN birth : birth[q] = birth[r] => q = r
EnvInv(f) == env = [x \in Names |-> IF f.site[x] = 0 THEN 0 ELSE birth[f.site[x]]]

(* A row without a name is in one cell.                                     *)
HomeInv ==
  \A h \in DOMAIN heap, i \in DOMAIN heap : \A k \in Keys(h), l \in Keys(i) :
    heap[h].cell[k] = heap[i].cell[l] /\ heap[h].cell[k] \notin Named => h = i /\ k = l

(* Rows are of one kind, and only tables of rows written inline are deep.     *)
HasInline == \E n \in DOMAIN script : Inline(script[n])
KindInv ==
  /\ HasInline => \A h \in DOMAIN heap : \A k \in Keys(h) : heap[h].cell[k] \notin Named
  /\ ~HasInline => \A h \in DOMAIN heap : ~heap[h].deep

(* What no free was emitted for is live, and so is a row in a live table.     *)
LiveInv(f) ==
  /\ \A q \in DOMAIN birth : q \notin Gone(f) => heap[birth[q]].live
  /\ \A h \in DOMAIN heap : \A k \in Keys(h) :
       heap[h].live /\ heap[h].cell[k] \notin Named => heap[heap[h].cell[k]].live

(* What is about to be released is released for the first time, after a free    *)
(* was emitted for it or its table was released.                            *)
TodoInv(f) ==
  /\ todo \in Seq(DOMAIN heap)
  /\ \A m \in DOMAIN todo, n \in DOMAIN todo : todo[m] = todo[n] => m = n
  /\ \A n \in DOMAIN todo :
       /\ heap[todo[n]].live
       /\ \A q \in DOMAIN birth : todo[n] = birth[q] => q \in Gone(f)
       /\ todo[n] \notin Named =>
            \A h \in DOMAIN heap : \A k \in Keys(h) :
              heap[h].cell[k] = todo[n] => ~heap[h].live

(* After p statements, of which the walk says f.                            *)
RunInv(f, p) ==
  /\ HeapInv
  /\ BirthInv(p)
  /\ EnvInv(f)
  /\ HomeInv
  /\ KindInv
  /\ LiveInv(f)
  /\ TodoInv(f)

Walked(hist) ==
  /\ script \in Seq(Stmts)
  /\ History(hist, script, facts)
  /\ Unmixed(script)

LEMMA CellType ==
  /\ \A D \in SUBSET Nat : \A c : c \in [D -> Nat] => c \in Cells
  /\ \A c \in Cells : DOMAIN c \in SUBSET Nat /\ c \in [DOMAIN c -> Nat]
BY DEF Cells

LEMMA TableType ==
  /\ \A live \in BOOLEAN, deep \in BOOLEAN, cell \in Cells :
       [live |-> live, deep |-> deep, cell |-> cell] \in Tables
  /\ \A t \in Tables : t.live \in BOOLEAN /\ t.deep \in BOOLEAN /\ t.cell \in Cells
BY DEF Tables

(* The inline entries of a constructor, each of them with a row of its own.    *)
Inlines(s, n) == {m \in 1 .. n : s.entries[m] = "inline"}
Rank(s, n) == Cardinality(Inlines(s, n))
EntryCells(s) ==
  [c \in 0 .. Len(s.entries) - 1 |->
     IF s.entries[c + 1] = "inline" THEN Len(heap) + Rank(s, c + 1) ELSE env[s.entries[c + 1]]]

LEMMA EntriesHaveRows ==
  ASSUME NEW s, NEW T, s.entries \in Seq(T)
  PROVE  LET N == Len(s.entries)
         IN /\ Rank(s, N) \in Nat
            /\ \A m \in Inlines(s, N) : Rank(s, m) \in 1 .. Rank(s, N)
            /\ \A m \in Inlines(s, N), n \in Inlines(s, N) : Rank(s, m) = Rank(s, n) => m = n
            /\ \A r \in 1 .. Rank(s, N) : \E m \in Inlines(s, N) : Rank(s, m) = r
<1> DEFINE N == Len(s.entries)
           I == Inlines(s, N)
<1>1. N \in Nat /\ I \in SUBSET Nat /\ I \in SUBSET (1 .. N)
  BY DEF Inlines
<1>2. IsFiniteSet(I) /\ Cardinality(I) \in Nat
  <2>1. IsFiniteSet(1 .. N)
    BY <1>1, FS_Interval
  <2> QED BY <1>1, <2>1, FS_Subset, FS_CardinalityType
<1>3. \A m \in I : Inlines(s, m) = Below(I, m) \cup {m} /\ m \notin Below(I, m)
  BY <1>1 DEF Inlines, Below
<1>4. ASSUME NEW m \in I
      PROVE  /\ Rank(s, m) = Cardinality(Below(I, m)) + 1
             /\ Cardinality(Below(I, m)) \in 0 .. Cardinality(I) - 1
  <2>1. Below(I, m) \in SUBSET I
    BY DEF Below
  <2>2. IsFiniteSet(Below(I, m))
    BY <1>2, <2>1, FS_Subset
  <2>3. Cardinality(Below(I, m) \cup {m}) = Cardinality(Below(I, m)) + 1
    BY <1>3, <2>2, FS_AddElement
  <2> QED BY <1>1, <1>2, <1>3, <2>3, RanksAreDistinct DEF Rank
<1>5. Rank(s, N) = Cardinality(I)
  BY DEF Rank
<1> HIDE DEF I
<1>6. ASSUME NEW m \in I, NEW n \in I, Rank(s, m) = Rank(s, n)
      PROVE  m = n
  <2>1. m \in Nat /\ n \in Nat
    BY <1>1
  <2>2. Cardinality(Below(I, m)) = Cardinality(Below(I, n)) /\ Cardinality(Below(I, m)) \in Nat
    BY <1>2, <1>4, <1>6
  <2>3. ~(m < n) /\ ~(n < m)
    BY <1>1, <1>2, <2>2, RanksAreDistinct
  <2> QED BY <2>1, <2>3
<1>7. ASSUME NEW r \in 1 .. Cardinality(I)
      PROVE  \E m \in I : Rank(s, m) = r
  <2>1. PICK m \in I : Cardinality(Below(I, m)) = r - 1
    BY <1>1, <1>2, RanksAreAll
  <2>2. Rank(s, m) = r - 1 + 1
    BY <1>4, <2>1
  <2> QED BY <1>2, <2>2
<1>8. \A m \in I : Rank(s, m) \in 1 .. Cardinality(I)
  BY <1>2, <1>4
<1> QED BY <1>2, <1>5, <1>6, <1>7, <1>8 DEF I

LEMMA CtorMakes ==
  ASSUME Ctor, S.entries \in Seq(Rows \cup {"inline"})
  PROVE  /\ heap' = heap \o [n \in 1 .. Rank(S, Len(S.entries)) |-> NewRow]
                         \o <<Fresh(DeepBit, EntryCells(S))>>
         /\ count' = count + Rank(S, Len(S.entries)) + 1
         /\ birth' = [q \in DOMAIN birth \cup {pc} |->
                        IF q = pc THEN Len(heap) + Rank(S, Len(S.entries)) + 1 ELSE birth[q]]
         /\ env' = [env EXCEPT ![S.x] = Len(heap) + Rank(S, Len(S.entries)) + 1]
BY DEF Ctor, Rank, Inlines, EntryCells

-----------------------------------------------------------------------------
(* The statement that runs.                                                *)

LEMMA StmtForms ==
  ASSUME NEW s \in Stmts
  PROVE  /\ s.entries \in Seq(Rows \cup {"inline"})
         /\ s.op # "ctor" => s.entries = <<>>
         /\ s.op \in {"ctor", "alias", "put", "putnew", "read", "drop"} => s.x \in Names
         /\ s.op = "alias" => s.y \in Names
         /\ s.op = "put" => s.x \in Matrices /\ s.y \in Rows /\ s.k \in Nat
         /\ s.op = "putnew" => s.x \in Matrices /\ s.k \in Nat
         /\ s.op \in {"ctor", "alias", "put", "putnew", "read", "drop", "exit"}
         /\ Rows \subseteq Names /\ "inline" \notin Names
<1>1. <<>> \in Seq(Rows \cup {"inline"})
  OBVIOUS
<1>2. s.entries \in Seq(Rows \cup {"inline"})
  BY <1>1, StmtsAssumption
<1>3. s.op = "alias" => s.x \in Names /\ s.y \in Names
  BY StmtsAssumption DEF Names
<1>4. s.op = "ctor" => s.x \in Names
  BY StmtsAssumption DEF Names
<1>5. s.op \in {"put", "putnew", "read", "drop"} => s.x \in Names
  BY StmtsAssumption DEF Names
<1>6. /\ s.op = "put" => s.x \in Matrices /\ s.y \in Rows /\ s.k \in Nat
      /\ s.op = "putnew" => s.x \in Matrices /\ s.k \in Nat
      /\ s.op # "ctor" => s.entries = <<>>
  BY StmtsAssumption
<1>7. s.op \in {"ctor", "alias", "put", "putnew", "read", "drop", "exit"}
  BY StmtsAssumption
<1> QED BY <1>2, <1>3, <1>4, <1>5, <1>6, <1>7, StmtsAssumption DEF Names

(* What the walk knew of it, and what it decided in the end.                *)
LEMMA AtStatement ==
  ASSUME NEW hist, Walked(hist), NEW p \in 1 .. Len(script)
  PROVE  /\ script[p] \in Stmts
         /\ Legal(hist[p - 1], script[p])
         /\ hist[p] = Judged(hist[p - 1], script[p], p)
         /\ FactsInv(hist[p - 1], script, p - 1)
         /\ FactsInv(hist[p], script, p)
         /\ p \in facts.drops <=> Frees(hist[p - 1], script[p])
         /\ hist[p].left => facts.exits = hist[p].exits
         /\ hist[p].parents \subseteq facts.parents
<1> DEFINE s == script[p]
           f == hist[p - 1]
           g == hist[p]
<1>1. script \in Seq(Stmts) /\ History(hist, script, facts)
  BY DEF Walked
<1>2. Len(script) \in Nat /\ p - 1 \in 0 .. Len(script) /\ p \in 0 .. Len(script)
  BY <1>1
<1>3. s \in Stmts
  BY <1>1
<1>4. Legal(f, s) /\ g = Judged(f, s, p)
  BY <1>1 DEF History
<1>5. FactsInv(f, script, p - 1) /\ FactsInv(g, script, p) /\ Told(g, facts, p)
  BY <1>1, <1>2 DEF History
<1>6. g.drops = f.drops \cup (IF Frees(f, s) THEN {p} ELSE {})
  BY <1>4 DEF Judged
<1>7. p \notin f.drops
  BY <1>2, <1>5 DEF FactsInv
<1>8. p \in facts.drops <=> p \in g.drops
  BY <1>2, <1>5 DEF Told
<1> QED BY <1>3, <1>4, <1>5, <1>6, <1>7, <1>8 DEF Told

(* What it changes of the facts.                                           *)
Moves(s, p, f, g) ==
  /\ s.op = "ctor" => g.site = [f.site EXCEPT ![s.x] = p] /\ Gone(g) = Gone(f)
  /\ s.op = "alias" => g.site = [f.site EXCEPT ![s.x] = f.site[s.y]] /\ Gone(g) = Gone(f)
  /\ s.op \in {"put", "putnew", "read"} => g.site = f.site /\ Gone(g) = Gone(f)
  /\ s.op = "drop" => /\ g.site = [f.site EXCEPT ![s.x] = 0]
                      /\ Gone(g) = Gone(f) \cup IF Frees(f, s) THEN {f.site[s.x]} ELSE {}
  /\ s.op = "exit" => /\ g.site = [x \in Names |-> IF x \in Outer THEN f.site[x] ELSE 0]
                      /\ g.exits = Held(f, Names \ Outer) \ f.freed
                      /\ Gone(g) = Gone(f) \cup g.exits
                      /\ g.left

LEMMA JudgedSites ==
  ASSUME NEW s \in Stmts, NEW p, NEW P, NEW q, NEW f, FactsInv(f, P, q), Legal(f, s)
  PROVE  Moves(s, p, f, Judged(f, s, p))
<1> DEFINE g == Judged(f, s, p)
<1>1. g.site = [x \in Names |-> IF s.op = "exit" /\ x \in Dying(f) THEN 0
                                ELSE IF x = s.x THEN Bound(f, s, p) ELSE f.site[x]]
  BY DEF Judged
<1>2. /\ g.freed = f.freed \cup (IF Frees(f, s) THEN {f.site[s.x]} ELSE {})
      /\ g.exits = (IF s.op = "exit" THEN ExitSites(f) ELSE f.exits)
      /\ g.left = (f.left \/ s.op = "exit")
  BY DEF Judged
<1> HIDE DEF g
<1> SUFFICES Moves(s, p, f, g)
  BY DEF g
<1>3. f.site = [x \in Names |-> f.site[x]]
  BY DEF FactsInv
<1>4. CASE s.op = "ctor"
  <2>1. ~Frees(f, s)
    BY <1>4 DEF Frees
  <2>2. g.site = [f.site EXCEPT ![s.x] = p]
    BY <1>1, <1>3, <1>4 DEF Bound
  <2> QED BY <1>2, <1>4, <2>1, <2>2 DEF Gone, Moves
<1>5. CASE s.op = "alias"
  <2>1. ~Frees(f, s)
    BY <1>5 DEF Frees
  <2>2. g.site = [f.site EXCEPT ![s.x] = f.site[s.y]]
    BY <1>1, <1>3, <1>5 DEF Bound
  <2> QED BY <1>2, <1>5, <2>1, <2>2 DEF Gone, Moves
<1>6. CASE s.op \in {"put", "putnew", "read"}
  <2>1. ~Frees(f, s)
    BY <1>6 DEF Frees
  <2>2. s.x \in Names => Bound(f, s, p) = f.site[s.x]
    BY <1>6 DEF Bound
  <2>3. g.site = f.site
    BY <1>1, <1>3, <1>6, <2>2
  <2> QED BY <1>2, <1>6, <2>1, <2>3 DEF Gone, Moves
<1>7. CASE s.op = "drop"
  <2>1. g.site = [f.site EXCEPT ![s.x] = 0]
    BY <1>1, <1>3, <1>7 DEF Bound
  <2> QED BY <1>2, <1>7, <2>1 DEF Gone, Moves
<1>8. CASE s.op = "exit"
  <2>1. ~Frees(f, s) /\ ~f.left /\ s.x \notin Names
    BY <1>8, StmtsAssumption DEF Frees, Legal
  <2>2. Dying(f) = Names \ Outer
    BY <2>1 DEF Dying
  <2>3. g.site = [x \in Names |-> IF x \in Outer THEN f.site[x] ELSE 0]
    BY <1>1, <1>8, <2>1, <2>2
  <2>4. g.exits = Held(f, Names \ Outer) \ f.freed /\ f.exits = {} /\ g.left
    BY <1>2, <1>8, <2>1, <2>2 DEF ExitSites, FactsInv
  <2> QED BY <1>2, <1>8, <2>1, <2>3, <2>4 DEF Gone, Moves
<1> QED BY <1>4, <1>5, <1>6, <1>7, <1>8, StmtForms

LEMMA AtSites ==
  ASSUME NEW hist, Walked(hist), NEW p \in 1 .. Len(script)
  PROVE  Moves(script[p], p, hist[p - 1], hist[p])
<1>1. /\ script[p] \in Stmts /\ Legal(hist[p - 1], script[p])
      /\ FactsInv(hist[p - 1], script, p - 1)
      /\ hist[p] = Judged(hist[p - 1], script[p], p)
  BY AtStatement
<1> QED BY <1>1, JudgedSites

(* What kind of rows its program has.                                      *)
LEMMA KindOf ==
  ASSUME NEW hist, Walked(hist), NEW p \in 1 .. Len(script)
  PROVE  LET s == script[p]
         IN /\ s.op = "putnew" => HasInline
            /\ s.op = "put" => ~HasInline
            /\ HasInline => \A n \in DOMAIN s.entries : s.entries[n] = "inline"
            /\ ~HasInline => /\ \A n \in DOMAIN s.entries : s.entries[n] # "inline"
                             /\ facts.parents = {}
<1> DEFINE s == script[p]
<1>1. script \in Seq(Stmts) /\ Unmixed(script) /\ p \in DOMAIN script /\ s \in Stmts
  BY DEF Walked
<1>2. DOMAIN s.entries = 1 .. Len(s.entries)
      /\ \A n \in DOMAIN s.entries : s.entries[n] \in Rows \cup {"inline"}
  BY <1>1, StmtForms
<1>3. s.op = "putnew" => HasInline
  BY <1>1 DEF HasInline, Inline
<1>4. HasInline => ~ByName(s)
  BY <1>1 DEF HasInline, Unmixed
<1>5. ~HasInline => ~Inline(s)
  BY <1>1 DEF HasInline
<1>6. ASSUME ~HasInline
      PROVE  facts.parents = {}
  <2>1. Len(script) \in 0 .. Len(script) /\ DOMAIN script = 1 .. Len(script)
    BY <1>1
  <2>2. FactsInv(facts, script, Len(script))
    BY <2>1 DEF Walked, History
  <2>3. \A n \in 1 .. Len(script) : script[n].op # "putnew"
    BY <1>6, <2>1 DEF HasInline, Inline
  <2> QED BY <2>2, <2>3 DEF FactsInv
<1> QED BY <1>2, <1>3, <1>4, <1>5, <1>6 DEF ByName, Inline, Contains

(* A name that holds a table holds a live one.                              *)
LEMMA HeldAreLive ==
  ASSUME NEW f, NEW p, RunInv(f, p), FactsInv(f, script, p),
         NEW x \in Names, Holds(f, x)
  PROVE  /\ f.site[x] \in DOMAIN birth
         /\ env[x] = birth[f.site[x]]
         /\ env[x] \in DOMAIN heap /\ env[x] \in Named
         /\ f.site[x] \notin Gone(f)
         /\ heap[env[x]].live
BY DEF RunInv, FactsInv, Holds, EnvInv, BirthInv, LiveInv, Named

-----------------------------------------------------------------------------
(* Statements that make no table and store none.                            *)

LEMMA NothingToFree ==
  ASSUME NEW f, todo' = <<>>
  PROVE  TodoInv(f)'
BY DEF TodoInv

LEMMA SameCtors ==
  ASSUME NEW p \in Nat \ {0}, NEW P
  PROVE  Ctors(P, p) = Ctors(P, p - 1) \cup IF P[p].op = "ctor" THEN {p} ELSE {}
<1>1. 1 .. p = (1 .. p - 1) \cup {p}
  OBVIOUS
<1> QED BY <1>1 DEF Ctors

LEMMA HeapStays ==
  ASSUME NEW f, NEW g, NEW p \in Nat \ {0}, RunInv(f, p - 1), script[p].op # "ctor",
         UNCHANGED <<script, heap, birth>>, Gone(f) \subseteq Gone(g), EnvInv(g)', TodoInv(g)'
  PROVE  RunInv(g, p)'
<1>1. HeapInv'
  BY DEF RunInv, HeapInv, Keys
<1>2. BirthInv(p)'
  BY SameCtors DEF RunInv, BirthInv
<1>3. Named' = Named
  BY DEF Named
<1>4. HomeInv'
  BY <1>3 DEF RunInv, HomeInv, Keys
<1>5. KindInv'
  BY <1>3 DEF RunInv, KindInv, Keys, HasInline
<1>6. LiveInv(g)'
  BY <1>3 DEF RunInv, LiveInv, Keys
<1> QED BY <1>1, <1>2, <1>4, <1>5, <1>6 DEF RunInv

(* The action of a statement runs at its place, with nothing left to free.     *)
Runs(hist, p) ==
  /\ Walked(hist)
  /\ pc = p /\ p \in 1 .. Len(script)
  /\ RunInv(hist[p - 1], p - 1)

LEMMA StepRuns ==
  ASSUME NEW hist, NEW p, Walked(hist), pc = p, p # 0, RunInv(hist[p - 1], p - 1),
         NEW op, At(op)
  PROVE  Runs(hist, p) /\ S = script[p] /\ script[p].op = op /\ todo = <<>>
<1>1. DOMAIN script = 1 .. Len(script)
  BY DEF Walked
<1> QED BY <1>1 DEF Runs, At, S

LEMMA AliasKeeps ==
  ASSUME NEW hist, NEW p, Walked(hist), pc = p, p # 0, RunInv(hist[p - 1], p - 1), Alias
  PROVE  RunInv(hist[p], p)'
<1> DEFINE s == script[p]
           f == hist[p - 1]
           g == hist[p]
<1>1. Runs(hist, p) /\ S = s /\ s.op = "alias" /\ todo = <<>>
  BY StepRuns DEF Alias
<1>2. p \in 1 .. Len(script) /\ p \in Nat \ {0}
  BY <1>1 DEF Runs, Walked
<1>3. s \in Stmts /\ Legal(f, s) /\ g = Judged(f, s, p) /\ FactsInv(f, script, p - 1)
  BY <1>2, AtStatement
<1>4. s.x \in Names /\ s.y \in Names /\ Holds(f, s.y)
  BY <1>1, <1>3, StmtForms DEF Legal
<1>5. g.site = [f.site EXCEPT ![s.x] = f.site[s.y]] /\ Gone(g) = Gone(f)
  BY <1>1, <1>2, <1>3, AtSites DEF Moves
<1>6. f.site[s.y] # 0 /\ env[s.y] = birth[f.site[s.y]]
  BY <1>3, <1>4, HeldAreLive DEF Holds
<1>7. UNCHANGED <<script, heap, birth, todo>> /\ env' = [env EXCEPT ![s.x] = env[s.y]]
  BY <1>1 DEF Alias, Step
<1>8. EnvInv(g)'
  <2>1. env = [x \in Names |-> IF f.site[x] = 0 THEN 0 ELSE birth[f.site[x]]]
    BY DEF RunInv, EnvInv
  <2>2. f.site = [x \in Names |-> f.site[x]]
    BY <1>3 DEF FactsInv
  <2>3. env' = [x \in Names |-> IF g.site[x] = 0 THEN 0 ELSE birth[g.site[x]]]
    BY <1>4, <1>5, <1>6, <1>7, <2>1, <2>2
  <2> QED BY <1>7, <2>3 DEF EnvInv
<1>9. TodoInv(g)'
  BY <1>1, <1>7, NothingToFree
<1> QED BY <1>1, <1>2, <1>5, <1>7, <1>8, <1>9, HeapStays

LEMMA ReadKeepsAll ==
  ASSUME NEW hist, NEW p, Walked(hist), pc = p, p # 0, RunInv(hist[p - 1], p - 1), ReadCell
  PROVE  RunInv(hist[p], p)'
<1> DEFINE s == script[p]
           f == hist[p - 1]
           g == hist[p]
<1>1. Runs(hist, p) /\ S = s /\ s.op = "read" /\ todo = <<>>
  BY StepRuns DEF ReadCell
<1>2. p \in 1 .. Len(script) /\ p \in Nat \ {0}
  BY <1>1 DEF Runs, Walked
<1>3. s \in Stmts /\ Legal(f, s) /\ g = Judged(f, s, p) /\ FactsInv(f, script, p - 1)
  BY <1>2, AtStatement
<1>4. g.site = f.site /\ Gone(g) = Gone(f)
  BY <1>1, <1>2, <1>3, AtSites DEF Moves
<1>5. UNCHANGED <<script, heap, birth, todo, env>>
  BY <1>1 DEF ReadCell, Step, program
<1>6. EnvInv(g)'
  BY <1>4, <1>5 DEF RunInv, EnvInv
<1>7. TodoInv(g)'
  BY <1>1, <1>5, NothingToFree
<1> QED BY <1>1, <1>2, <1>4, <1>5, <1>6, <1>7, HeapStays

(* A drop frees the table of a site that no name holds any more.             *)
LEMMA DropKeeps ==
  ASSUME NEW hist, NEW p, Walked(hist), pc = p, p # 0, RunInv(hist[p - 1], p - 1), Drop
  PROVE  RunInv(hist[p], p)'
<1> DEFINE s == script[p]
           f == hist[p - 1]
           g == hist[p]
<1>1. Runs(hist, p) /\ S = s /\ s.op = "drop" /\ todo = <<>>
  BY StepRuns DEF Drop
<1>2. p \in 1 .. Len(script) /\ p \in Nat \ {0}
  BY <1>1 DEF Runs, Walked
<1>3. s \in Stmts /\ Legal(f, s) /\ g = Judged(f, s, p) /\ FactsInv(f, script, p - 1)
      /\ (p \in facts.drops <=> Frees(f, s))
  BY <1>2, AtStatement
<1>4. s.x \in Names /\ Holds(f, s.x)
  BY <1>1, <1>3, StmtForms DEF Legal
<1>5. /\ g.site = [f.site EXCEPT ![s.x] = 0]
      /\ Gone(g) = Gone(f) \cup (IF Frees(f, s) THEN {f.site[s.x]} ELSE {})
  BY <1>1, <1>2, <1>3, AtSites DEF Moves
<1>6. /\ UNCHANGED <<script, heap, birth>> /\ env' = [env EXCEPT ![s.x] = 0]
      /\ todo' = IF Frees(f, s) THEN <<env[s.x]>> ELSE <<>>
  BY <1>1, <1>3 DEF Drop, Step
<1>7. EnvInv(g)'
  <2>1. env = [x \in Names |-> IF f.site[x] = 0 THEN 0 ELSE birth[f.site[x]]]
    BY DEF RunInv, EnvInv
  <2>2. f.site = [x \in Names |-> f.site[x]]
    BY <1>3 DEF FactsInv
  <2>3. env' = [x \in Names |-> IF g.site[x] = 0 THEN 0 ELSE birth[g.site[x]]]
    BY <1>4, <1>5, <1>6, <2>1, <2>2
  <2> QED BY <1>6, <2>3 DEF EnvInv
<1>8. TodoInv(g)'
  <2>1. CASE ~Frees(f, s)
    BY <1>6, <2>1, NothingToFree
  <2>2. CASE Frees(f, s)
    <3> DEFINE t == env[s.x]
    <3>1. /\ f.site[s.x] \in DOMAIN birth /\ t = birth[f.site[s.x]]
          /\ t \in DOMAIN heap /\ t \in Named /\ heap[t].live
      BY <1>3, <1>4, HeldAreLive
    <3>2. \A q \in DOMAIN birth : t = birth[q] => q = f.site[s.x]
      BY <3>1 DEF RunInv, BirthInv
    <3>3. Named' = Named
      BY <1>6 DEF Named
    <3> HIDE DEF t
    <3>4. todo' = <<t>> /\ todo' \in Seq(DOMAIN heap) /\ DOMAIN todo' = {1} /\ todo'[1] = t
      BY <1>6, <2>2, <3>1 DEF t
    <3>5. f.site[s.x] \in Gone(g)
      BY <1>5, <2>2
    <3> QED BY <1>6, <3>1, <3>2, <3>3, <3>4, <3>5 DEF TodoInv
  <2> QED BY <2>1, <2>2
<1>9. Gone(f) \subseteq Gone(g)
  BY <1>5
<1> QED BY <1>1, <1>2, <1>6, <1>7, <1>8, <1>9, HeapStays

LEMMA ReversedElements ==
  ASSUME NEW T, NEW s \in Seq(T)
  PROVE  /\ Reverse(s) \in Seq(T)
         /\ DOMAIN Reverse(s) = 1 .. Len(s)
         /\ \A n \in 1 .. Len(s) : Len(s) - n + 1 \in 1 .. Len(s)
                                   /\ Reverse(s)[n] = s[Len(s) - n + 1]
BY DEF Reverse

(* The exit frees the sites of the names that die, each once.                *)
LEMMA ExitKeeps ==
  ASSUME NEW hist, NEW p, Walked(hist), pc = p, p # 0, RunInv(hist[p - 1], p - 1), Exit
  PROVE  RunInv(hist[p], p)'
<1> DEFINE s == script[p]
           f == hist[p - 1]
           g == hist[p]
           B == {birth[q] : q \in facts.exits}
<1>1. Runs(hist, p) /\ S = s /\ s.op = "exit" /\ todo = <<>>
  BY StepRuns DEF Exit
<1>2. p \in 1 .. Len(script) /\ p \in Nat \ {0}
  BY <1>1 DEF Runs, Walked
<1>3. s \in Stmts /\ Legal(f, s) /\ g = Judged(f, s, p) /\ FactsInv(f, script, p - 1)
      /\ (g.left => facts.exits = g.exits)
  BY <1>2, AtStatement
<1>4. /\ g.site = [x \in Names |-> IF x \in Outer THEN f.site[x] ELSE 0]
      /\ facts.exits = Held(f, Names \ Outer) \ f.freed
      /\ Gone(g) = Gone(f) \cup facts.exits
  <2>1. Moves(s, p, f, g)
    BY <1>2, AtSites
  <2> QED BY <1>1, <1>3, <2>1 DEF Moves
<1>5. /\ UNCHANGED <<script, heap, birth>>
      /\ env' = [x \in Names |-> IF x \in Outer THEN env[x] ELSE 0]
      /\ todo' = Reverse(Ascending(B))
  BY <1>1 DEF Exit, Step
<1>6. EnvInv(g)'
  BY <1>4, <1>5 DEF RunInv, EnvInv
<1>7. \A q \in facts.exits : q \in DOMAIN birth /\ birth[q] \in DOMAIN heap /\ heap[birth[q]].live
  <2> SUFFICES ASSUME NEW q \in facts.exits
               PROVE  q \in DOMAIN birth /\ birth[q] \in DOMAIN heap /\ heap[birth[q]].live
    OBVIOUS
  <2>1. PICK x \in Names : q = f.site[x] /\ q # 0
    BY <1>4 DEF Held
  <2> QED BY <1>3, <2>1, HeldAreLive DEF Holds
<1>8. heap \in Seq(Tables) /\ DOMAIN heap = 1 .. Len(heap) /\ Len(heap) \in Nat
  BY DEF RunInv, HeapInv
<1>9. B \in SUBSET DOMAIN heap /\ B \in SUBSET Nat /\ IsFiniteSet(B)
  <2>1. IsFiniteSet(1 .. Len(heap))
    BY <1>8, FS_Interval
  <2>2. B \in SUBSET (1 .. Len(heap))
    BY <1>7, <1>8
  <2>3. IsFiniteSet(B)
    BY <2>1, <2>2, FS_Subset
  <2>4. B \in SUBSET Nat
    BY <1>8, <2>2
  <2> QED BY <1>8, <2>2, <2>3, <2>4
<1> DEFINE asc == Ascending(B)
<1>10. /\ asc \in Seq(B)
       /\ \A m \in DOMAIN asc, n \in DOMAIN asc : asc[m] = asc[n] => m = n
  BY <1>9, AscendingLists
<1> HIDE DEF asc
<1>11. TodoInv(g)'
  <2>1. /\ Len(asc) \in Nat /\ DOMAIN asc = 1 .. Len(asc)
        /\ \A n \in 1 .. Len(asc) : asc[n] \in B
    BY <1>10
  <2>2. /\ todo' \in Seq(B)
        /\ DOMAIN todo' = 1 .. Len(asc)
        /\ \A n \in 1 .. Len(asc) : Len(asc) - n + 1 \in 1 .. Len(asc)
                                    /\ todo'[n] = asc[Len(asc) - n + 1]
    BY <1>5, <1>10, ReversedElements DEF asc
  <2>3. todo' \in Seq(DOMAIN heap)
    <3>1. \A n \in 1 .. Len(asc) : todo'[n] \in DOMAIN heap
      BY <1>9, <2>1, <2>2
    <3>2. todo' = [n \in 1 .. Len(asc) |-> todo'[n]]
      BY <2>2
    <3> QED BY <2>1, <3>1, <3>2
  <2>4. \A m \in DOMAIN todo', n \in DOMAIN todo' : todo'[m] = todo'[n] => m = n
    <3> SUFFICES ASSUME NEW m \in 1 .. Len(asc), NEW n \in 1 .. Len(asc), todo'[m] = todo'[n]
                 PROVE  m = n
      BY <2>2
    <3>1. Len(asc) - m + 1 = Len(asc) - n + 1
      BY <1>10, <2>1, <2>2
    <3> QED BY <2>1, <3>1
  <2>5. \A n \in DOMAIN todo' : \E q \in facts.exits : todo'[n] = birth[q]
    <3>1. \A n \in DOMAIN todo' : todo'[n] \in B
      BY <2>1, <2>2
    <3> QED BY <3>1
  <2>6. \A n \in DOMAIN todo' :
          /\ heap[todo'[n]].live /\ todo'[n] \in Named
          /\ \A q \in DOMAIN birth : todo'[n] = birth[q] => q \in Gone(g)
    <3> SUFFICES ASSUME NEW n \in DOMAIN todo'
                 PROVE  /\ heap[todo'[n]].live /\ todo'[n] \in Named
                        /\ \A q \in DOMAIN birth : todo'[n] = birth[q] => q \in Gone(g)
      OBVIOUS
    <3>1. PICK q \in facts.exits : todo'[n] = birth[q]
      BY <2>5
    <3>2. q \in DOMAIN birth /\ heap[todo'[n]].live /\ q \in Gone(g)
      BY <1>4, <1>7, <3>1
    <3>3. todo'[n] \in Named
      BY <3>1, <3>2 DEF Named
    <3>4. \A r \in DOMAIN birth : todo'[n] = birth[r] => r = q
      BY <3>1, <3>2 DEF RunInv, BirthInv
    <3> QED BY <3>2, <3>3, <3>4
  <2>7. Named' = Named
    BY <1>5 DEF Named
  <2> QED BY <1>5, <2>3, <2>4, <2>6, <2>7 DEF TodoInv
<1>12. Gone(f) \subseteq Gone(g)
  BY <1>4
<1> QED BY <1>1, <1>2, <1>5, <1>6, <1>11, <1>12, HeapStays

-----------------------------------------------------------------------------
(* Statements that make tables or store them.                               *)

LEMMA NamedAreMade ==
  ASSUME NEW p, BirthInv(p)
  PROVE  /\ Named \subseteq DOMAIN heap
         /\ \A q \in DOMAIN birth : birth[q] \in Named
BY DEF BirthInv, Named

OldCell(h, k) ==
  h \in DOMAIN heap /\ k \in Keys(h) /\ heap'[h].cell[k] = heap[h].cell[k]

(* A cell is as before, or holds a table with a name where no row is written    *)
(* inline, or holds a row just made that no other cell holds.                *)
LEMMA HeapGrows ==
  ASSUME NEW f, HeapInv, HeapInv', HomeInv, KindInv, LiveInv(f), script' = script,
         DOMAIN heap \subseteq DOMAIN heap',
         \A h \in DOMAIN heap : heap'[h].live = heap[h].live,
         ~HasInline => \A h \in DOMAIN heap' : ~heap'[h].deep,
         \A h \in DOMAIN heap', k \in Nat : k \in DOMAIN heap'[h].cell =>
           \/ OldCell(h, k)
           \/ ~HasInline /\ heap'[h].cell[k] \in Named'
           \/ /\ HasInline
              /\ heap'[h].cell[k] \notin DOMAIN heap /\ heap'[h].cell[k] \notin Named'
              /\ heap'[heap'[h].cell[k]].live,
         \A h \in DOMAIN heap', i \in DOMAIN heap', k \in Nat, l \in Nat :
           /\ k \in DOMAIN heap'[h].cell /\ l \in DOMAIN heap'[i].cell
           /\ heap'[h].cell[k] = heap'[i].cell[l]
           /\ heap'[h].cell[k] \notin DOMAIN heap /\ heap'[h].cell[k] \notin Named'
           => h = i /\ k = l,
         \A r \in DOMAIN heap : r \in Named' <=> r \in Named
  PROVE  /\ HomeInv' /\ KindInv'
         /\ \A h \in DOMAIN heap' : \A k \in DOMAIN heap'[h].cell :
              heap'[h].live /\ heap'[h].cell[k] \notin Named' => heap'[heap'[h].cell[k]].live
<1>1. \A h \in DOMAIN heap' : DOMAIN heap'[h].cell \in SUBSET Nat
  <2> TAKE h \in DOMAIN heap'
  <2>1. heap' \in Seq(Tables)
    BY DEF HeapInv
  <2>2. heap'[h] \in Tables
    BY <2>1
  <2> QED BY <2>2, TableType, CellType
<1>2. \A h, k : OldCell(h, k) => heap'[h].cell[k] \in DOMAIN heap
  BY DEF OldCell, HeapInv, Keys
<1>3. \A h, k : OldCell(h, k) => h \in DOMAIN heap /\ k \in Keys(h) /\ heap'[h].cell[k] = heap[h].cell[k]
  BY DEF OldCell
<1>4. HomeInv'
  <2> SUFFICES ASSUME NEW h \in DOMAIN heap', NEW i \in DOMAIN heap',
                      NEW k \in DOMAIN heap'[h].cell, NEW l \in DOMAIN heap'[i].cell,
                      heap'[h].cell[k] = heap'[i].cell[l], heap'[h].cell[k] \notin Named'
               PROVE  h = i /\ k = l
    BY DEF HomeInv, Keys
  <2>1. k \in Nat /\ l \in Nat
    BY <1>1
  <2>2. CASE heap'[h].cell[k] \notin DOMAIN heap
    BY <2>1, <2>2
  <2>3. CASE heap'[h].cell[k] \in DOMAIN heap
    <3>1. OldCell(h, k) /\ OldCell(i, l)
      BY <2>1, <2>3
    <3>2. heap[h].cell[k] = heap[i].cell[l] /\ heap[h].cell[k] \notin Named
      BY <2>3, <3>1, <1>3
    <3> QED BY <3>1, <3>2, <1>3 DEF HomeInv
  <2> QED BY <2>2, <2>3
<1>5. KindInv'
  <2>1. HasInline' = HasInline
    BY DEF HasInline
  <2>2. ASSUME HasInline, NEW h \in DOMAIN heap', NEW k \in DOMAIN heap'[h].cell
        PROVE  heap'[h].cell[k] \notin Named'
    <3>1. k \in Nat
      BY <1>1
    <3>2. CASE OldCell(h, k)
      BY <2>2, <3>2, <1>2, <1>3 DEF KindInv
    <3>3. CASE ~OldCell(h, k)
      BY <2>2, <3>1, <3>3
    <3> QED BY <3>2, <3>3
  <2> QED BY <2>1, <2>2 DEF KindInv, Keys
<1>6. ASSUME NEW h \in DOMAIN heap', NEW k \in DOMAIN heap'[h].cell,
             heap'[h].live, heap'[h].cell[k] \notin Named'
      PROVE  heap'[heap'[h].cell[k]].live
  <2>1. k \in Nat
    BY <1>1
  <2>2. CASE OldCell(h, k)
    <3>1. heap[h].live /\ heap[h].cell[k] \notin Named /\ heap[h].cell[k] \in DOMAIN heap
      BY <1>2, <1>3, <1>6, <2>2
    <3>2. heap[heap[h].cell[k]].live
      BY <1>3, <2>2, <3>1 DEF LiveInv
    <3> QED BY <1>3, <2>2, <3>1, <3>2
  <2>3. CASE ~OldCell(h, k)
    BY <1>6, <2>1, <2>3
  <2> QED BY <2>2, <2>3
<1> QED BY <1>4, <1>5, <1>6

(* A store changes one cell.                                               *)
OneCellStored(new, h, k, row) ==
  /\ new \in Seq(Tables)
  /\ Len(new) = Len(heap) /\ DOMAIN new = DOMAIN heap
  /\ \A i \in DOMAIN heap :
       /\ new[i].live = heap[i].live /\ new[i].deep = heap[i].deep
       /\ i # h => new[i] = heap[i]
  /\ DOMAIN new[h].cell = Keys(h) \cup {k}
  /\ \A c \in Keys(h) \cup {k} :
       new[h].cell[c] = IF c = k THEN row ELSE heap[h].cell[c]

LEMMA StoredCells ==
  ASSUME heap \in Seq(Tables), NEW h \in DOMAIN heap, NEW k \in Nat, NEW row \in Nat,
         NEW new, new = Stored(h, k, row)
  PROVE  OneCellStored(new, h, k, row)
<1> DEFINE cell == [c \in Keys(h) \cup {k} |-> IF c = k THEN row ELSE heap[h].cell[c]]
           t == [live |-> heap[h].live, deep |-> heap[h].deep, cell |-> cell]
<1>1. /\ heap[h] \in Tables /\ heap[h].live \in BOOLEAN /\ heap[h].deep \in BOOLEAN
      /\ Keys(h) \in SUBSET Nat /\ heap[h].cell \in [Keys(h) -> Nat]
  <2>1. heap[h] \in Tables
    OBVIOUS
  <2> QED BY <2>1, TableType, CellType DEF Keys
<1>3. new = [heap EXCEPT ![h] = t]
  BY DEF Stored, Keys, Table
<1>4. cell \in [Keys(h) \cup {k} -> Nat] /\ Keys(h) \cup {k} \in SUBSET Nat
  BY <1>1
<1>5. t \in Tables
  <2>1. cell \in Cells
    BY <1>4, CellType
  <2> HIDE DEF cell
  <2> QED BY <1>1, <2>1, TableType
<1>6. t.live = heap[h].live /\ t.deep = heap[h].deep /\ t.cell = cell
  OBVIOUS
<1>7. DOMAIN cell = Keys(h) \cup {k}
      /\ \A c \in Keys(h) \cup {k} : cell[c] = IF c = k THEN row ELSE heap[h].cell[c]
  OBVIOUS
<1> HIDE DEF t, cell
<1>8. /\ new \in Seq(Tables) /\ Len(new) = Len(heap) /\ DOMAIN new = DOMAIN heap
      /\ new[h] = t /\ \A i \in DOMAIN heap : i # h => new[i] = heap[i]
  BY <1>3, <1>5
<1> QED BY <1>6, <1>7, <1>8 DEF OneCellStored

(* x[k] = y: a cell of a live matrix with a name, a row with a name.           *)
Putting(p, s, f, g, h, row) ==
  /\ p \in 1 .. Len(script) /\ p \in Nat \ {0}
  /\ s = script[p] /\ s \in Stmts /\ s.op = "put" /\ s.k \in Nat
  /\ g.site = f.site /\ Gone(g) = Gone(f)
  /\ ~HasInline
  /\ UNCHANGED <<script, facts, env, birth, count, todo>> /\ todo = <<>>
  /\ h \in DOMAIN heap /\ h \in Named /\ row \in DOMAIN heap /\ row \in Named
  /\ heap' \in Seq(Tables) /\ DOMAIN heap' = DOMAIN heap
  /\ \A i \in DOMAIN heap :
       /\ heap'[i].live = heap[i].live /\ heap'[i].deep = heap[i].deep
       /\ i # h => heap'[i] = heap[i]
       /\ DOMAIN heap'[i].cell = IF i = h THEN Keys(i) \cup {s.k} ELSE Keys(i)
  /\ \A c \in Keys(h) \cup {s.k} :
       heap'[h].cell[c] = IF c = s.k THEN row ELSE heap[h].cell[c]

LEMMA PutStores ==
  ASSUME NEW hist, NEW p, Walked(hist), pc = p, p # 0, RunInv(hist[p - 1], p - 1), Put,
         NEW s, s = script[p], NEW f, f = hist[p - 1], NEW g, g = hist[p],
         NEW h, h = env[s.x], NEW row, row = env[s.y]
  PROVE  Putting(p, s, f, g, h, row)
<1>1. Runs(hist, p) /\ S = s /\ s.op = "put" /\ todo = <<>>
  BY StepRuns DEF Put
<1>2. p \in 1 .. Len(script) /\ p \in Nat \ {0}
  BY <1>1 DEF Runs, Walked
<1>3. s \in Stmts /\ Legal(f, s) /\ FactsInv(f, script, p - 1)
  BY <1>2, AtStatement
<1>4. s.x \in Names /\ s.y \in Names /\ s.k \in Nat /\ Holds(f, s.x) /\ Holds(f, s.y)
  BY <1>1, <1>3, StmtForms DEF Legal
<1>5. g.site = f.site /\ Gone(g) = Gone(f)
  <2>1. Moves(s, p, f, g)
    BY <1>2, AtSites
  <2> QED BY <1>1, <2>1 DEF Moves
<1>6. ~HasInline
  BY <1>1, <1>2, KindOf
<1>7. /\ UNCHANGED <<script, facts, env, birth, count, todo>>
      /\ heap' = Stored(h, s.k, row)
  BY <1>1 DEF Put, Step
<1>8. h \in DOMAIN heap /\ h \in Named /\ row \in DOMAIN heap /\ row \in Named
  BY <1>3, <1>4, HeldAreLive
<1>9. heap \in Seq(Tables) /\ row \in Nat
  <2>1. heap \in Seq(Tables)
    BY DEF RunInv, HeapInv
  <2> QED BY <1>8, <2>1
<1>10. /\ heap' \in Seq(Tables)
       /\ Len(heap') = Len(heap) /\ DOMAIN heap' = DOMAIN heap
       /\ \A i \in DOMAIN heap :
            /\ heap'[i].live = heap[i].live /\ heap'[i].deep = heap[i].deep
            /\ i # h => heap'[i] = heap[i]
       /\ DOMAIN heap'[h].cell = Keys(h) \cup {s.k}
       /\ \A c \in Keys(h) \cup {s.k} :
            heap'[h].cell[c] = IF c = s.k THEN row ELSE heap[h].cell[c]
  <2>1. PICK st : st = Stored(h, s.k, row)
    OBVIOUS
  <2>2. OneCellStored(st, h, s.k, row)
    BY <1>4, <1>8, <1>9, <2>1, StoredCells
  <2>3. heap' = st
    BY <1>7, <2>1
  <2> QED BY <2>2, <2>3 DEF OneCellStored
<1>11. \A i \in DOMAIN heap : DOMAIN heap'[i].cell = IF i = h THEN Keys(i) \cup {s.k} ELSE Keys(i)
  BY <1>10 DEF Keys
<1> QED BY <1>1, <1>2, <1>3, <1>4, <1>5, <1>6, <1>7, <1>8, <1>10, <1>11 DEF Putting

LEMMA PutKeeps ==
  ASSUME NEW hist, NEW p, Walked(hist), pc = p, p # 0, RunInv(hist[p - 1], p - 1), Put
  PROVE  RunInv(hist[p], p)'
<1>1. PICK s : s = script[p]
  OBVIOUS
<1>2. PICK f : f = hist[p - 1]
  OBVIOUS
<1>3. PICK g : g = hist[p]
  OBVIOUS
<1>4. PICK h : h = env[s.x]
  OBVIOUS
<1>5. PICK row : row = env[s.y]
  OBVIOUS
<1>6. Putting(p, s, f, g, h, row)
  BY <1>1, <1>2, <1>3, <1>4, <1>5, PutStores
<1>7. /\ p \in 1 .. Len(script) /\ p \in Nat \ {0} /\ s.op = "put"
      /\ g.site = f.site /\ Gone(g) = Gone(f) /\ ~HasInline
      /\ UNCHANGED <<script, facts, env, birth, todo>> /\ todo = <<>>
  BY <1>6 DEF Putting
<1>8. h \in DOMAIN heap /\ row \in DOMAIN heap /\ row \in Named
  BY <1>6 DEF Putting
<1>9. RunInv(f, p - 1) /\ LiveInv(f) /\ EnvInv(f)
  BY <1>2 DEF RunInv
<1>10. /\ heap' \in Seq(Tables) /\ DOMAIN heap' = DOMAIN heap
       /\ \A i \in DOMAIN heap :
            /\ heap'[i].live = heap[i].live /\ heap'[i].deep = heap[i].deep
            /\ i # h => heap'[i] = heap[i]
       /\ \A c \in Keys(h) \cup {s.k} :
            heap'[h].cell[c] = IF c = s.k THEN row ELSE heap[h].cell[c]
  BY <1>6 DEF Putting
<1>11. \A i \in DOMAIN heap : DOMAIN heap'[i].cell = IF i = h THEN Keys(i) \cup {s.k} ELSE Keys(i)
  BY <1>6 DEF Putting
<1>12. \A i \in DOMAIN heap, c \in Nat : c \in DOMAIN heap'[i].cell =>
         OldCell(i, c) \/ heap'[i].cell[c] = row
  <2> SUFFICES ASSUME NEW i \in DOMAIN heap, NEW c \in Nat, c \in DOMAIN heap'[i].cell
               PROVE  OldCell(i, c) \/ heap'[i].cell[c] = row
    OBVIOUS
  <2>1. CASE i = h
    <3>1. c \in Keys(h) \cup {s.k}
      BY <1>11, <2>1
    <3>2. heap'[h].cell[c] = IF c = s.k THEN row ELSE heap[h].cell[c]
      BY <1>10, <3>1
    <3>3. CASE c = s.k
      BY <2>1, <3>2, <3>3
    <3>4. CASE c # s.k
      BY <2>1, <3>1, <3>2, <3>4 DEF OldCell
    <3> QED BY <3>3, <3>4
  <2>2. CASE i # h
    <3>1. heap'[i] = heap[i] /\ c \in Keys(i)
      BY <1>10, <1>11, <2>2
    <3> QED BY <3>1 DEF OldCell
  <2> QED BY <2>1, <2>2
<1>13. HeapInv'
  <2> SUFFICES ASSUME NEW i \in DOMAIN heap
               PROVE  /\ IsFiniteSet(DOMAIN heap'[i].cell)
                      /\ \A c \in DOMAIN heap'[i].cell : heap'[i].cell[c] \in DOMAIN heap
    BY <1>10 DEF HeapInv, Keys
  <2>1. IsFiniteSet(Keys(i)) /\ \A c \in Keys(i) : heap[i].cell[c] \in DOMAIN heap
    BY <1>9 DEF RunInv, HeapInv
  <2>2. IsFiniteSet(DOMAIN heap'[i].cell)
    <3>1. CASE i = h
      <4>1. IsFiniteSet(Keys(i) \cup {s.k})
        BY <2>1, FS_AddElement
      <4> QED BY <1>11, <3>1, <4>1
    <3>2. CASE i # h
      BY <1>11, <2>1, <3>2
    <3> QED BY <3>1, <3>2
  <2>3. \A c \in DOMAIN heap'[i].cell : heap'[i].cell[c] \in DOMAIN heap
    <3>1. CASE i = h
      <4> SUFFICES ASSUME NEW c \in DOMAIN heap'[h].cell
                   PROVE  heap'[h].cell[c] \in DOMAIN heap
        BY <3>1
      <4>1. c \in Keys(h) \cup {s.k}
        BY <1>8, <1>11
      <4>2. heap'[h].cell[c] = IF c = s.k THEN row ELSE heap[h].cell[c]
        BY <1>10, <4>1
      <4>3. c # s.k => heap[h].cell[c] \in DOMAIN heap
        BY <2>1, <3>1, <4>1
      <4> QED BY <1>8, <4>2, <4>3
    <3>2. CASE i # h
      BY <1>10, <1>11, <2>1, <3>2
    <3> QED BY <3>1, <3>2
  <2> QED BY <2>2, <2>3
<1>14. Named' = Named
  BY <1>7 DEF Named
<1>15. /\ HomeInv' /\ KindInv'
       /\ \A i \in DOMAIN heap' : \A k \in DOMAIN heap'[i].cell :
            heap'[i].live /\ heap'[i].cell[k] \notin Named' => heap'[heap'[i].cell[k]].live
  <2>1. \A i \in DOMAIN heap' : ~heap'[i].deep
    BY <1>7, <1>9, <1>10 DEF RunInv, KindInv
  <2>2. \A i \in DOMAIN heap', c \in Nat : c \in DOMAIN heap'[i].cell =>
          heap'[i].cell[c] \in DOMAIN heap
    BY <1>13, <1>10 DEF HeapInv, Keys
  <2> QED BY <1>7, <1>8, <1>9, <1>10, <1>12, <1>13, <1>14, <2>1, <2>2, HeapGrows DEF RunInv
<1>16. LiveInv(g)'
  <2>1. \A q \in DOMAIN birth : birth[q] \in DOMAIN heap
    BY <1>9 DEF RunInv, BirthInv
  <2>2. \A q \in DOMAIN birth' : q \notin Gone(g) => heap'[birth'[q]].live
    BY <1>7, <1>9, <1>10, <2>1 DEF LiveInv
  <2> QED BY <1>15, <2>2 DEF LiveInv, Keys
<1>17. BirthInv(p)'
  BY <1>1, <1>7, <1>9, <1>10, SameCtors DEF RunInv, BirthInv
<1>18. EnvInv(g)'
  BY <1>7, <1>9 DEF EnvInv
<1>19. TodoInv(g)'
  BY <1>7, NothingToFree
<1> QED BY <1>3, <1>13, <1>15, <1>16, <1>17, <1>18, <1>19 DEF RunInv

(* x[k] = {}: a cell of a live matrix with a name, a row behind all tables.       *)
PuttingNew(p, s, f, g, h, L) ==
  /\ p \in 1 .. Len(script) /\ p \in Nat \ {0}
  /\ s = script[p] /\ s \in Stmts /\ s.op = "putnew" /\ s.k \in Nat
  /\ g.site = f.site /\ Gone(g) = Gone(f)
  /\ HasInline
  /\ UNCHANGED <<script, facts, env, birth, todo>> /\ todo = <<>> /\ count' = count + 1
  /\ h \in DOMAIN heap /\ h \in Named
  /\ L \in Nat /\ DOMAIN heap = 1 .. L
  /\ heap' \in Seq(Tables) /\ DOMAIN heap' = 1 .. L + 1
  /\ L + 1 \notin DOMAIN heap /\ L + 1 \in DOMAIN heap' /\ DOMAIN heap \subseteq DOMAIN heap'
  /\ \A i \in DOMAIN heap' : i \in DOMAIN heap \/ i = L + 1
  /\ heap'[L + 1].live /\ DOMAIN heap'[L + 1].cell = {}
  /\ \A i \in DOMAIN heap :
       /\ heap'[i].live = heap[i].live /\ heap'[i].deep = heap[i].deep
       /\ i # h => heap'[i] = heap[i]
       /\ DOMAIN heap'[i].cell = IF i = h THEN Keys(i) \cup {s.k} ELSE Keys(i)
  /\ \A c \in Keys(h) \cup {s.k} :
       heap'[h].cell[c] = IF c = s.k THEN L + 1 ELSE heap[h].cell[c]

LEMMA PutNewStores ==
  ASSUME NEW hist, NEW p, Walked(hist), pc = p, p # 0, RunInv(hist[p - 1], p - 1), PutNew,
         NEW s, s = script[p], NEW f, f = hist[p - 1], NEW g, g = hist[p],
         NEW h, h = env[s.x], NEW L, L = Len(heap)
  PROVE  PuttingNew(p, s, f, g, h, L)
<1>1. Runs(hist, p) /\ S = s /\ s.op = "putnew" /\ todo = <<>>
  BY StepRuns DEF PutNew
<1>2. p \in 1 .. Len(script) /\ p \in Nat \ {0}
  BY <1>1 DEF Runs, Walked
<1>3. s \in Stmts /\ Legal(f, s) /\ FactsInv(f, script, p - 1)
  BY <1>2, AtStatement
<1>4. s.x \in Names /\ s.k \in Nat /\ Holds(f, s.x)
  BY <1>1, <1>3, StmtForms DEF Legal
<1>5. g.site = f.site /\ Gone(g) = Gone(f)
  <2>1. Moves(s, p, f, g)
    BY <1>2, AtSites
  <2> QED BY <1>1, <2>1 DEF Moves
<1>6. HasInline
  BY <1>1, <1>2, KindOf
<1>7. /\ UNCHANGED <<script, facts, env, birth, todo>>
      /\ count' = count + 1
      /\ heap' = Append(Stored(h, s.k, L + 1), NewRow)
  BY <1>1 DEF PutNew, Step
<1>8. h \in DOMAIN heap /\ h \in Named
  BY <1>3, <1>4, HeldAreLive
<1>9. heap \in Seq(Tables) /\ DOMAIN heap = 1 .. L /\ L \in Nat /\ L = Len(heap)
  <2>1. heap \in Seq(Tables)
    BY DEF RunInv, HeapInv
  <2> QED BY <2>1
<1>10. PICK st : st = Stored(h, s.k, L + 1)
  OBVIOUS
<1>11. /\ st \in Seq(Tables)
       /\ Len(st) = L /\ DOMAIN st = DOMAIN heap
       /\ \A i \in DOMAIN heap :
            /\ st[i].live = heap[i].live /\ st[i].deep = heap[i].deep
            /\ i # h => st[i] = heap[i]
       /\ DOMAIN st[h].cell = Keys(h) \cup {s.k}
       /\ \A c \in Keys(h) \cup {s.k} :
            st[h].cell[c] = IF c = s.k THEN L + 1 ELSE heap[h].cell[c]
  <2>1. L + 1 \in Nat
    BY <1>9
  <2>2. OneCellStored(st, h, s.k, L + 1)
    BY <1>4, <1>8, <1>9, <1>10, <2>1, StoredCells
  <2> QED BY <1>9, <2>2 DEF OneCellStored
<1>12. NewRow \in Tables /\ NewRow.live /\ DOMAIN NewRow.cell = {}
  <2>1. [c \in {} |-> 0] \in Cells
    BY CellType
  <2>2. NewRow = [live |-> TRUE, deep |-> FALSE, cell |-> [c \in {} |-> 0]]
    BY DEF NewRow, Fresh, Table
  <2> QED BY <2>1, <2>2, TableType
<1>13. /\ heap' \in Seq(Tables) /\ DOMAIN heap' = 1 .. L + 1
       /\ heap'[L + 1] = NewRow /\ \A i \in 1 .. L : heap'[i] = st[i]
  <2>1. heap' = Append(st, NewRow) /\ st \in Seq(Tables) /\ Len(st) = L /\ L \in Nat
        /\ NewRow \in Tables
    BY <1>7, <1>9, <1>10, <1>11, <1>12
  <2> QED BY ONLY <2>1
<1>14. L + 1 \notin DOMAIN heap /\ DOMAIN heap \subseteq DOMAIN heap' /\ L + 1 \in DOMAIN heap'
       /\ \A i \in DOMAIN heap' : i \in DOMAIN heap \/ i = L + 1
  BY <1>9, <1>13
<1>15. /\ \A i \in DOMAIN heap : DOMAIN heap'[i].cell = IF i = h THEN Keys(i) \cup {s.k} ELSE Keys(i)
       /\ DOMAIN heap'[L + 1].cell = {}
  <2>1. \A i \in DOMAIN heap : heap'[i] = st[i]
    BY <1>9, <1>13
  <2>2. DOMAIN heap'[L + 1].cell = {}
    BY <1>12, <1>13
  <2>3. \A i \in DOMAIN heap : i # h => DOMAIN heap'[i].cell = Keys(i)
    BY <1>11, <2>1 DEF Keys
  <2>4. DOMAIN heap'[h].cell = Keys(h) \cup {s.k}
    BY <1>8, <1>11, <2>1
  <2> QED BY <2>2, <2>3, <2>4
<1>16. /\ \A i \in DOMAIN heap :
            /\ heap'[i].live = heap[i].live /\ heap'[i].deep = heap[i].deep
            /\ i # h => heap'[i] = heap[i]
       /\ \A c \in Keys(h) \cup {s.k} :
            heap'[h].cell[c] = IF c = s.k THEN L + 1 ELSE heap[h].cell[c]
       /\ heap'[L + 1].live
  <2>1. \A i \in DOMAIN heap : heap'[i] = st[i]
    BY <1>9, <1>13
  <2> QED BY <1>8, <1>11, <1>12, <1>13, <2>1
<1> QED BY <1>1, <1>2, <1>3, <1>4, <1>5, <1>6, <1>7, <1>8, <1>9, <1>13, <1>14, <1>15, <1>16 DEF PuttingNew

LEMMA PutNewKeeps ==
  ASSUME NEW hist, NEW p, Walked(hist), pc = p, p # 0, RunInv(hist[p - 1], p - 1), PutNew
  PROVE  RunInv(hist[p], p)'
<1>1. PICK s : s = script[p]
  OBVIOUS
<1>2. PICK f : f = hist[p - 1]
  OBVIOUS
<1>3. PICK g : g = hist[p]
  OBVIOUS
<1>4. PICK h : h = env[s.x]
  OBVIOUS
<1>5. PICK L : L = Len(heap)
  OBVIOUS
<1>6. PuttingNew(p, s, f, g, h, L)
  BY <1>1, <1>2, <1>3, <1>4, <1>5, PutNewStores
<1>7. /\ p \in 1 .. Len(script) /\ p \in Nat \ {0} /\ s.op = "putnew"
      /\ g.site = f.site /\ Gone(g) = Gone(f) /\ HasInline
      /\ UNCHANGED <<script, facts, env, birth, todo>> /\ todo = <<>>
  BY <1>6 DEF PuttingNew
<1>8. h \in DOMAIN heap
  BY <1>6 DEF PuttingNew
<1>9. L \in Nat /\ DOMAIN heap = 1 .. L
  BY <1>6 DEF PuttingNew
<1>10. RunInv(f, p - 1) /\ LiveInv(f) /\ EnvInv(f)
  BY <1>2 DEF RunInv
<1>11. /\ \A i \in DOMAIN heap :
            /\ heap'[i].live = heap[i].live
            /\ i # h => heap'[i] = heap[i]
       /\ \A c \in Keys(h) \cup {s.k} :
            heap'[h].cell[c] = IF c = s.k THEN L + 1 ELSE heap[h].cell[c]
  BY <1>6 DEF PuttingNew
<1>13. heap' \in Seq(Tables) /\ DOMAIN heap' = 1 .. L + 1 /\ heap'[L + 1].live
  BY <1>6 DEF PuttingNew
<1>14. L + 1 \notin DOMAIN heap /\ DOMAIN heap \subseteq DOMAIN heap' /\ L + 1 \in DOMAIN heap'
       /\ \A i \in DOMAIN heap' : i \in DOMAIN heap \/ i = L + 1
  BY <1>6 DEF PuttingNew
<1>15. /\ \A i \in DOMAIN heap : DOMAIN heap'[i].cell = IF i = h THEN Keys(i) \cup {s.k} ELSE Keys(i)
       /\ DOMAIN heap'[L + 1].cell = {}
  BY <1>6 DEF PuttingNew
<1>16. \A i \in DOMAIN heap', c \in Nat : c \in DOMAIN heap'[i].cell =>
         OldCell(i, c) \/ (heap'[i].cell[c] = L + 1 /\ i = h /\ c = s.k)
  <2> SUFFICES ASSUME NEW i \in DOMAIN heap', NEW c \in Nat, c \in DOMAIN heap'[i].cell
               PROVE  OldCell(i, c) \/ (heap'[i].cell[c] = L + 1 /\ i = h /\ c = s.k)
    OBVIOUS
  <2>1. CASE i = h
    BY <1>8, <1>11, <1>15, <2>1 DEF OldCell
  <2>2. CASE i # h
    BY <1>11, <1>14, <1>15, <2>2 DEF OldCell
  <2> QED BY <2>1, <2>2
<1>17. HeapInv'
  <2> SUFFICES ASSUME NEW i \in DOMAIN heap'
               PROVE  /\ IsFiniteSet(DOMAIN heap'[i].cell)
                      /\ \A c \in DOMAIN heap'[i].cell : heap'[i].cell[c] \in DOMAIN heap'
    BY <1>13 DEF HeapInv, Keys
  <2>1. CASE i = L + 1
    BY <1>15, <2>1, FS_EmptySet
  <2>2. CASE i \in DOMAIN heap
    <3>1. IsFiniteSet(Keys(i)) /\ \A c \in Keys(i) : heap[i].cell[c] \in DOMAIN heap
      BY <1>10, <2>2 DEF RunInv, HeapInv
    <3>2. IsFiniteSet(Keys(i) \cup {s.k})
      BY <3>1, FS_AddElement
    <3>3. IsFiniteSet(DOMAIN heap'[i].cell)
      BY <1>15, <2>2, <3>1, <3>2
    <3>4. \A c \in DOMAIN heap'[i].cell : heap'[i].cell[c] \in DOMAIN heap'
      <4> SUFFICES ASSUME NEW c \in DOMAIN heap'[i].cell
                   PROVE  heap'[i].cell[c] \in DOMAIN heap'
        OBVIOUS
      <4>1. CASE i = h
        <5>1. c \in Keys(h) \cup {s.k}
          BY <1>8, <1>15, <4>1
        <5>2. heap'[h].cell[c] = IF c = s.k THEN L + 1 ELSE heap[h].cell[c]
          BY <1>11, <5>1
        <5>3. c # s.k => heap[h].cell[c] \in DOMAIN heap
          BY <3>1, <4>1, <5>1
        <5> QED BY <1>14, <4>1, <5>2, <5>3
      <4>2. CASE i # h
        BY <1>11, <1>14, <1>15, <2>2, <3>1, <4>2
      <4> QED BY <4>1, <4>2
    <3> QED BY <3>3, <3>4
  <2> QED BY <1>14, <2>1, <2>2
<1>18. Named' = Named /\ L + 1 \notin Named
  BY <1>7, <1>10, <1>14, NamedAreMade DEF Named, RunInv
<1>19. \A i \in DOMAIN heap : heap'[i].live = heap[i].live
  BY <1>11
<1>20. /\ HomeInv' /\ KindInv'
       /\ \A i \in DOMAIN heap' : \A k \in DOMAIN heap'[i].cell :
            heap'[i].live /\ heap'[i].cell[k] \notin Named' => heap'[heap'[i].cell[k]].live
  <2>1. \A i, c : OldCell(i, c) => heap'[i].cell[c] \in DOMAIN heap
    BY <1>10 DEF OldCell, RunInv, HeapInv, Keys
  <2>2. \A i \in DOMAIN heap', c \in Nat : c \in DOMAIN heap'[i].cell =>
           \/ OldCell(i, c)
           \/ ~HasInline /\ heap'[i].cell[c] \in Named'
           \/ /\ HasInline
              /\ heap'[i].cell[c] \notin DOMAIN heap /\ heap'[i].cell[c] \notin Named'
              /\ heap'[heap'[i].cell[c]].live
    BY <1>7, <1>13, <1>14, <1>16, <1>18
  <2>3. \A i \in DOMAIN heap', j \in DOMAIN heap', k \in Nat, l \in Nat :
           /\ k \in DOMAIN heap'[i].cell /\ l \in DOMAIN heap'[j].cell
           /\ heap'[i].cell[k] = heap'[j].cell[l]
           /\ heap'[i].cell[k] \notin DOMAIN heap /\ heap'[i].cell[k] \notin Named'
           => i = j /\ k = l
    BY <1>16, <2>1
  <2>4. HeapInv /\ HomeInv /\ KindInv
    BY <1>10 DEF RunInv
  <2>5. script' = script /\ \A r \in DOMAIN heap : r \in Named' <=> r \in Named
    BY <1>7, <1>18
  <2> HIDE DEF OldCell
  <2> QED BY <1>7, <1>10, <1>14, <1>17, <1>19, <2>2, <2>3, <2>4, <2>5, HeapGrows
<1>21. LiveInv(g)'
  <2>1. \A q \in DOMAIN birth : birth[q] \in DOMAIN heap
    BY <1>10 DEF RunInv, BirthInv
  <2>2. \A q \in DOMAIN birth' : q \notin Gone(g) => heap'[birth'[q]].live
    BY <1>7, <1>10, <1>19, <2>1 DEF LiveInv
  <2> QED BY <1>20, <2>2 DEF LiveInv, Keys
<1>22. BirthInv(p)'
  <2>1. Ctors(script, p) = Ctors(script, p - 1)
    <3>1. p \in Nat \ {0} /\ script[p].op # "ctor"
      BY <1>1, <1>7
    <3>2. Ctors(script, p) = Ctors(script, p - 1) \cup {}
      BY ONLY <3>1, SameCtors
    <3> QED BY ONLY <3>2
  <2>2. birth \in [Ctors(script, p - 1) -> DOMAIN heap]
        /\ \A q \in DOMAIN birth, r \in DOMAIN birth : birth[q] = birth[r] => q = r
    BY <1>10 DEF RunInv, BirthInv
  <2> QED BY <1>7, <1>14, <2>1, <2>2 DEF BirthInv
<1>23. EnvInv(g)'
  BY <1>7, <1>10 DEF EnvInv
<1>24. TodoInv(g)'
  BY <1>7, NothingToFree
<1> QED BY <1>3, <1>17, <1>20, <1>21, <1>22, <1>23, <1>24 DEF RunInv

LEMMA ConcatOne ==
  ASSUME NEW T, NEW s \in Seq(T), NEW t \in T
  PROVE  s \o <<t>> = Append(s, t)
OBVIOUS

LEMMA ConcatElements ==
  ASSUME NEW T, NEW s \in Seq(T), NEW r \in Seq(T)
  PROVE  /\ s \o r \in Seq(T) /\ Len(s \o r) = Len(s) + Len(r)
         /\ \A n \in 1 .. Len(s) + Len(r) :
              (s \o r)[n] = IF n <= Len(s) THEN s[n] ELSE r[n - Len(s)]
OBVIOUS

LEMMA MoreTables ==
  ASSUME NEW T, NEW s \in Seq(T), NEW R \in Nat, NEW r \in T, NEW t \in T,
         NEW rs \in Seq(T), Len(rs) = R, \A n \in 1 .. R : rs[n] = r,
         NEW L, L = Len(s), NEW more, more = Append(s \o rs, t)
  PROVE  /\ more \in Seq(T)
         /\ DOMAIN more = 1 .. L + R + 1
         /\ \A n \in 1 .. L : more[n] = s[n]
         /\ \A n \in L + 1 .. L + R : more[n] = r
         /\ more[L + R + 1] = t
<1>1. rs \in Seq(T) /\ Len(rs) = R /\ \A n \in 1 .. R : rs[n] = r
  OBVIOUS
<1>2. L \in Nat /\ \A n \in 1 .. L : s[n] \in T
  OBVIOUS
<1>3. s \o rs \in Seq(T) /\ Len(s \o rs) = L + R
      /\ \A n \in 1 .. L + R : (s \o rs)[n] = IF n <= L THEN s[n] ELSE rs[n - L]
  <2>1. /\ s \o rs \in Seq(T) /\ Len(s \o rs) = Len(s) + Len(rs)
        /\ \A n \in 1 .. Len(s) + Len(rs) :
             (s \o rs)[n] = IF n <= Len(s) THEN s[n] ELSE rs[n - Len(s)]
    BY ONLY s \in Seq(T), rs \in Seq(T), ConcatElements
  <2>2. Len(s) = L /\ Len(rs) = R
    BY <1>1
  <2> QED BY ONLY <2>1, <2>2
<1>4. PICK both : both = s \o rs
  OBVIOUS
<1>5. /\ both \in Seq(T) /\ Len(both) = L + R
      /\ \A n \in 1 .. L : both[n] = s[n]
      /\ \A n \in L + 1 .. L + R : both[n] = r
  <2>1. both \in Seq(T) /\ Len(both) = L + R
    BY <1>3, <1>4
  <2>2. \A n \in 1 .. L : n \in 1 .. L + R /\ n <= L
    BY <1>2
  <2>3. \A n \in L + 1 .. L + R : n \in 1 .. L + R /\ ~(n <= L) /\ n - L \in 1 .. R
    BY <1>2
  <2> QED BY <1>1, <1>3, <1>4, <2>1, <2>2, <2>3
<1>6. more = Append(both, t)
  BY <1>4
<1>7. /\ more \in Seq(T) /\ Len(more) = L + R + 1 /\ more[L + R + 1] = t
      /\ \A n \in 1 .. L + R : more[n] = both[n]
  BY <1>2, <1>5, <1>6
<1>8. DOMAIN more = 1 .. L + R + 1
  BY <1>7
<1>9. /\ \A n \in 1 .. L : more[n] = s[n]
      /\ \A n \in L + 1 .. L + R : more[n] = r
  <2>1. \A n \in 1 .. L : n \in 1 .. L + R
    BY <1>2
  <2>2. \A n \in L + 1 .. L + R : n \in 1 .. L + R
    BY <1>2
  <2> QED BY <1>5, <1>7, <2>1, <2>2
<1> QED BY <1>7, <1>8, <1>9

(* The tables a constructor makes: its rows, and itself behind them.          *)
Making(p, s, L, R, cell) ==
  /\ L \in Nat /\ R \in Nat /\ DOMAIN heap = 1 .. L
  /\ heap' \in Seq(Tables) /\ DOMAIN heap' = 1 .. L + R + 1
  /\ \A n \in 1 .. L : heap'[n] = heap[n]
  /\ \A n \in L + 1 .. L + R : heap'[n] = NewRow
  /\ \E deep \in BOOLEAN :
       /\ heap'[L + R + 1] = Fresh(deep, cell)
       /\ deep = (s.x \in Matrices /\ (Contains(s.entries, "inline") \/ p \in facts.parents))
  /\ DOMAIN cell = 0 .. Len(s.entries) - 1 /\ Len(s.entries) \in Nat
  /\ \A c \in DOMAIN cell :
       \/ /\ s.entries[c + 1] = "inline"
          /\ cell[c] = L + Rank(s, c + 1) /\ cell[c] \in L + 1 .. L + R
       \/ /\ s.entries[c + 1] # "inline"
          /\ cell[c] \in DOMAIN heap /\ cell[c] \in Named
  /\ \A c \in DOMAIN cell, d \in DOMAIN cell :
       cell[c] = cell[d] /\ cell[c] \notin DOMAIN heap => c = d
  /\ \A r \in L + 1 .. L + R : \E c \in DOMAIN cell : cell[c] = r

LEMMA CtorTables ==
  ASSUME NEW hist, NEW p, Runs(hist, p), todo = <<>>, Ctor,
         NEW s, s = script[p], NEW L, L = Len(heap), NEW R, R = Rank(s, Len(s.entries)),
         NEW cell, cell = EntryCells(s)
  PROVE  Making(p, s, L, R, cell)
<1> DEFINE N == Len(s.entries)
<1>1. p \in 1 .. Len(script) /\ pc = p /\ S = s
  BY DEF Runs, S
<1>2. s \in Stmts /\ Legal(hist[p - 1], s) /\ FactsInv(hist[p - 1], script, p - 1)
  BY <1>1, AtStatement DEF Runs
<1>3. s.entries \in Seq(Rows \cup {"inline"}) /\ Rows \subseteq Names
  BY <1>2, StmtForms
<1>4. /\ heap' = heap \o [n \in 1 .. R |-> NewRow] \o <<Fresh(DeepBit, cell)>>
  BY <1>1, <1>3, CtorMakes
<1>5. heap \in Seq(Tables) /\ L \in Nat /\ DOMAIN heap = 1 .. L
  <2>1. heap \in Seq(Tables)
    BY DEF Runs, RunInv, HeapInv
  <2> QED BY <2>1
<1>6. N \in Nat /\ DOMAIN s.entries = 1 .. N
      /\ \A n \in 1 .. N : s.entries[n] \in Rows \cup {"inline"}
  BY <1>3
<1>7. /\ R \in Nat
      /\ \A m \in Inlines(s, N) : Rank(s, m) \in 1 .. R
      /\ \A m \in Inlines(s, N), n \in Inlines(s, N) : Rank(s, m) = Rank(s, n) => m = n
      /\ \A r \in 1 .. R : \E m \in Inlines(s, N) : Rank(s, m) = r
  BY <1>3, EntriesHaveRows
<1>8. DOMAIN cell = 0 .. N - 1
      /\ \A c \in 0 .. N - 1 :
           cell[c] = IF s.entries[c + 1] = "inline" THEN L + Rank(s, c + 1) ELSE env[s.entries[c + 1]]
  BY DEF EntryCells
<1>9. \A c \in 0 .. N - 1 : c + 1 \in 1 .. N /\ (s.entries[c + 1] = "inline" <=> c + 1 \in Inlines(s, N))
  BY <1>6 DEF Inlines
<1>10. ASSUME NEW c \in 0 .. N - 1, s.entries[c + 1] = "inline"
       PROVE  cell[c] = L + Rank(s, c + 1) /\ cell[c] \in L + 1 .. L + R /\ Rank(s, c + 1) \in Nat
  <2>1. Rank(s, c + 1) \in 1 .. R
    BY <1>7, <1>9, <1>10
  <2>2. cell[c] = L + Rank(s, c + 1)
    BY <1>8, <1>10
  <2> QED BY <1>5, <1>7, <2>1, <2>2
<1>11. ASSUME NEW c \in 0 .. N - 1, s.entries[c + 1] # "inline"
       PROVE  cell[c] \in DOMAIN heap /\ cell[c] \in Named
  <2>1. s.entries[c + 1] \in Rows
    BY <1>6, <1>9, <1>11
  <2>2. Holds(hist[p - 1], s.entries[c + 1])
    BY <1>2, <1>6, <1>9, <2>1 DEF Legal
  <2>3. cell[c] = env[s.entries[c + 1]]
    BY <1>8, <1>11
  <2>4. s.entries[c + 1] \in Names
    BY <1>3, <2>1
  <2> QED BY <1>2, <2>2, <2>3, <2>4, HeldAreLive DEF Runs
<1>12. ASSUME NEW c \in 0 .. N - 1, NEW d \in 0 .. N - 1, cell[c] = cell[d], cell[c] \notin DOMAIN heap
       PROVE  c = d
  <2>1. s.entries[c + 1] = "inline" /\ s.entries[d + 1] = "inline"
    BY <1>11, <1>12
  <2>2. Rank(s, c + 1) = Rank(s, d + 1)
    BY <1>5, <1>10, <1>12, <2>1
  <2>3. c + 1 = d + 1
    BY <1>7, <1>9, <2>1, <2>2
  <2> QED BY <1>6, <2>3
<1>13. ASSUME NEW r \in L + 1 .. L + R
       PROVE  \E c \in 0 .. N - 1 : cell[c] = r
  <2>1. r - L \in 1 .. R
    BY <1>5, <1>7
  <2>2. PICK m \in Inlines(s, N) : Rank(s, m) = r - L
    BY <1>7, <2>1
  <2>3. m \in 1 .. N /\ s.entries[m] = "inline"
    BY DEF Inlines
  <2>4. m - 1 \in 0 .. N - 1 /\ m - 1 + 1 = m
    BY <1>6, <2>3
  <2>5. cell[m - 1] = L + (r - L)
    BY <1>10, <2>2, <2>3, <2>4
  <2> QED BY <1>5, <1>7, <2>4, <2>5
<1>14. cell \in Cells
  <2>1. \A c \in 0 .. N - 1 : cell[c] \in Nat
    BY <1>5, <1>7, <1>10, <1>11
  <2>2. cell = [c \in 0 .. N - 1 |-> cell[c]]
    BY DEF EntryCells
  <2>3. cell \in [0 .. N - 1 -> Nat] /\ 0 .. N - 1 \in SUBSET Nat
    <3>1. N \in Nat
      BY <1>6
    <3> HIDE DEF N
    <3>2. cell \in [0 .. N - 1 -> Nat]
      BY ONLY <2>1, <2>2
    <3> QED BY ONLY <3>1, <3>2
  <2> QED BY <2>3, CellType
<1>15. DeepBit \in BOOLEAN
       /\ DeepBit = (S.x \in Matrices /\ (Contains(S.entries, "inline") \/ p \in facts.parents))
  BY <1>1 DEF DeepBit
<1>16. PICK deep \in BOOLEAN : deep = DeepBit
  BY <1>15
<1>17. NewRow \in Tables /\ Fresh(deep, cell) \in Tables
  <2>1. [c \in {} |-> 0] \in Cells
    BY CellType
  <2> QED BY <1>14, <2>1, TableType DEF NewRow, Fresh, Table
<1>18. PICK t \in Tables : t = Fresh(deep, cell)
  BY <1>17
<1>19. /\ heap' \in Seq(Tables) /\ DOMAIN heap' = 1 .. L + R + 1
       /\ \A n \in 1 .. L : heap'[n] = heap[n]
       /\ \A n \in L + 1 .. L + R : heap'[n] = NewRow
       /\ heap'[L + R + 1] = t
  <2>1. heap' = heap \o [n \in 1 .. R |-> NewRow] \o <<t>>
    BY <1>4, <1>16, <1>18
  <2>2. L = Len(heap) /\ NewRow \in Tables
    BY <1>17
  <2> HIDE DEF N
  <2>3. PICK row \in Tables : row = NewRow
    BY <2>2
  <2>4. PICK rows : rows = [n \in 1 .. R |-> row]
    OBVIOUS
  <2>5. heap' = heap \o rows \o <<t>>
    BY <2>1, <2>3, <2>4
  <2>6. rows \in Seq(Tables) /\ Len(rows) = R /\ \A n \in 1 .. R : rows[n] = row
    BY <1>7, <2>4
  <2>7. heap' = Append(heap \o rows, t)
    BY <1>5, <1>18, <2>5, <2>6, ConcatElements, ConcatOne
  <2>8. /\ heap' \in Seq(Tables) /\ DOMAIN heap' = 1 .. L + R + 1
        /\ \A n \in 1 .. L : heap'[n] = heap[n]
        /\ \A n \in L + 1 .. L + R : heap'[n] = row
        /\ heap'[L + R + 1] = t
    <3>1. PICK h : h = heap
      OBVIOUS
    <3>2. PICK n : n = heap'
      OBVIOUS
    <3>3. h \in Seq(Tables) /\ L = Len(h) /\ n = Append(h \o rows, t)
      BY <1>5, <2>2, <2>7, <3>1, <3>2
    <3>4. R \in Nat /\ row \in Tables /\ t \in Tables
      BY <1>7, <1>18, <2>3
    <3>5. /\ n \in Seq(Tables)
          /\ DOMAIN n = 1 .. L + R + 1
          /\ \A i \in 1 .. L : n[i] = h[i]
          /\ \A i \in L + 1 .. L + R : n[i] = row
          /\ n[L + R + 1] = t
      BY ONLY <2>6, <3>3, <3>4, MoreTables
    <3> QED BY <3>1, <3>2, <3>5
  <2> QED BY <2>3, <2>8
<1>20. \E d \in BOOLEAN :
         /\ heap'[L + R + 1] = Fresh(d, cell)
         /\ d = (S.x \in Matrices /\ (Contains(S.entries, "inline") \/ p \in facts.parents))
  BY <1>15, <1>16, <1>18, <1>19
<1> HIDE DEF N
<1>21. DOMAIN cell = 0 .. Len(s.entries) - 1 /\ Len(s.entries) \in Nat
  BY <1>6, <1>8 DEF N
<1>22. /\ \A c \in DOMAIN cell, d \in DOMAIN cell :
            cell[c] = cell[d] /\ cell[c] \notin DOMAIN heap => c = d
       /\ \A r \in L + 1 .. L + R : \E c \in DOMAIN cell : cell[c] = r
  BY <1>8, <1>12, <1>13
<1>23. \A c \in DOMAIN cell :
         \/ /\ s.entries[c + 1] = "inline"
            /\ cell[c] = L + Rank(s, c + 1) /\ cell[c] \in L + 1 .. L + R
         \/ /\ s.entries[c + 1] # "inline"
            /\ cell[c] \in DOMAIN heap /\ cell[c] \in Named
  BY <1>8, <1>10, <1>11
<1> QED BY <1>1, <1>5, <1>7, <1>19, <1>20, <1>21, <1>22, <1>23 DEF Making

LEMMA CtorKeeps ==
  ASSUME NEW hist, NEW p, Walked(hist), pc = p, p # 0, RunInv(hist[p - 1], p - 1), Ctor
  PROVE  RunInv(hist[p], p)'
<1> DEFINE s == script[p]
           f == hist[p - 1]
           g == hist[p]
<1>1. Runs(hist, p) /\ S = s /\ s.op = "ctor" /\ todo = <<>>
  BY StepRuns DEF Ctor
<1>2. p \in 1 .. Len(script) /\ p \in Nat \ {0}
  BY <1>1 DEF Runs, Walked
<1>3. s \in Stmts /\ FactsInv(f, script, p - 1)
  BY <1>2, AtStatement
<1>4. s.x \in Names /\ s.entries \in Seq(Rows \cup {"inline"})
  BY <1>1, <1>3, StmtForms
<1>5. g.site = [f.site EXCEPT ![s.x] = p] /\ Gone(g) = Gone(f)
  <2>1. Moves(s, p, f, g)
    BY <1>2, AtSites
  <2> QED BY <1>1, <2>1 DEF Moves
<1>6. LiveInv(f) /\ EnvInv(f) /\ BirthInv(p - 1) /\ HeapInv /\ HomeInv /\ KindInv
  BY DEF RunInv
<1>7. PICK L : L = Len(heap)
  OBVIOUS
<1>8. PICK R : R = Rank(s, Len(s.entries))
  OBVIOUS
<1>9. PICK cell : cell = EntryCells(s)
  OBVIOUS
<1> DEFINE made == L + R + 1
<1>10. UNCHANGED <<script, facts, todo>>
  BY DEF Ctor, Step
<1>11. /\ birth' = [q \in DOMAIN birth \cup {p} |-> IF q = p THEN made ELSE birth[q]]
       /\ env' = [env EXCEPT ![s.x] = made]
  BY <1>1, <1>4, <1>7, <1>8, CtorMakes
<1>12. /\ L \in Nat /\ R \in Nat /\ DOMAIN heap = 1 .. L
       /\ heap' \in Seq(Tables) /\ DOMAIN heap' = 1 .. made
       /\ \A n \in 1 .. L : heap'[n] = heap[n]
       /\ \A n \in L + 1 .. L + R : heap'[n] = NewRow
       /\ \E deep \in BOOLEAN : /\ heap'[made] = Fresh(deep, cell)
                                /\ deep = (s.x \in Matrices
                                           /\ (Contains(s.entries, "inline") \/ p \in facts.parents))
       /\ DOMAIN cell = 0 .. Len(s.entries) - 1 /\ Len(s.entries) \in Nat
       /\ \A c \in DOMAIN cell :
            \/ /\ s.entries[c + 1] = "inline"
               /\ cell[c] = L + Rank(s, c + 1) /\ cell[c] \in L + 1 .. L + R
            \/ /\ s.entries[c + 1] # "inline"
               /\ cell[c] \in DOMAIN heap /\ cell[c] \in Named
       /\ \A c \in DOMAIN cell, d \in DOMAIN cell :
            cell[c] = cell[d] /\ cell[c] \notin DOMAIN heap => c = d
       /\ \A r \in L + 1 .. L + R : \E c \in DOMAIN cell : cell[c] = r
  <2>1. Making(p, s, L, R, cell)
    BY <1>1, <1>7, <1>8, <1>9, CtorTables
  <2> QED BY <2>1 DEF Making
<1>13. PICK deep \in BOOLEAN :
         /\ heap'[made] = Fresh(deep, cell)
         /\ deep = (s.x \in Matrices /\ (Contains(s.entries, "inline") \/ p \in facts.parents))
  BY <1>12
<1>14. heap'[made].live /\ heap'[made].deep = deep /\ heap'[made].cell = cell
  BY <1>13 DEF Fresh, Table
<1>15. /\ HasInline => \A c \in DOMAIN cell : s.entries[c + 1] = "inline"
       /\ ~HasInline => (\A c \in DOMAIN cell : s.entries[c + 1] # "inline") /\ deep = FALSE
  <2>1. /\ HasInline => \A n \in DOMAIN s.entries : s.entries[n] = "inline"
        /\ ~HasInline => /\ \A n \in DOMAIN s.entries : s.entries[n] # "inline"
                         /\ facts.parents = {}
    BY <1>2, KindOf
  <2>2. \A c \in DOMAIN cell : c + 1 \in DOMAIN s.entries
    BY <1>4, <1>12
  <2>3. ~HasInline => ~Contains(s.entries, "inline")
    BY <1>1, <1>4, <2>1 DEF Contains
  <2> QED BY <1>13, <2>1, <2>2, <2>3
<1>16. NewRow.live /\ ~NewRow.deep /\ DOMAIN NewRow.cell = {}
  BY DEF NewRow, Fresh, Table
<1> HIDE DEF s, f, g, made
<1>17. /\ made \notin 1 .. L + R /\ made \in 1 .. made /\ made \in Nat
       /\ \A i \in 1 .. made : i \in 1 .. L \/ i \in L + 1 .. L + R \/ i = made
       /\ \A i \in 1 .. L : i \in 1 .. made /\ i # made /\ i \notin L + 1 .. L + R
       /\ \A i \in L + 1 .. L + R : i \in 1 .. made /\ i # made /\ i \notin 1 .. L
  BY <1>12 DEF made
<1>18. /\ p \notin DOMAIN birth
       /\ \A q \in DOMAIN birth : birth[q] \in 1 .. L
       /\ \A q \in DOMAIN birth, r \in DOMAIN birth : birth[q] = birth[r] => q = r
  BY <1>2, <1>6, <1>12 DEF BirthInv, Ctors
<1>19. /\ Named' = Named \cup {made}
       /\ Named \subseteq 1 .. L
  BY <1>11, <1>18 DEF Named
<1>20. \A i \in 1 .. made : \A c : c \in DOMAIN heap'[i].cell =>
         \/ OldCell(i, c)
         \/ i = made /\ c \in DOMAIN cell /\ heap'[i].cell[c] = cell[c]
  BY <1>12, <1>14, <1>16, <1>17 DEF OldCell, Keys
<1>21. \A c \in DOMAIN cell :
         \/ HasInline /\ cell[c] \in L + 1 .. L + R
         \/ ~HasInline /\ cell[c] \in DOMAIN heap /\ cell[c] \in Named
  BY <1>12, <1>15
<1>22. \A i, c : OldCell(i, c) => heap'[i].cell[c] \in 1 .. L
  BY <1>6, <1>12 DEF OldCell, HeapInv, Keys
<1>23. HeapInv'
  <2> SUFFICES ASSUME NEW i \in 1 .. made
               PROVE  /\ IsFiniteSet(DOMAIN heap'[i].cell)
                      /\ \A c \in DOMAIN heap'[i].cell : heap'[i].cell[c] \in 1 .. made
    BY <1>12 DEF HeapInv, Keys
  <2>1. \A c \in DOMAIN heap'[i].cell : heap'[i].cell[c] \in 1 .. made
    BY <1>12, <1>17, <1>20, <1>21, <1>22
  <2>2. CASE i \in 1 .. L
    BY <1>6, <1>12, <2>1, <2>2 DEF HeapInv, Keys
  <2>3. CASE i \in L + 1 .. L + R
    BY <1>12, <1>16, <2>1, <2>3, FS_EmptySet
  <2>4. CASE i = made
    <3>1. IsFiniteSet(0 .. Len(s.entries) - 1)
      <4>1. 0 \in Int /\ Len(s.entries) - 1 \in Int
        BY <1>12
      <4> QED BY <4>1, FS_Interval
    <3> QED BY <1>12, <1>14, <2>1, <2>4, <3>1
  <2> QED BY <1>17, <2>2, <2>3, <2>4
<1>24. \A i \in DOMAIN heap : heap'[i].live = heap[i].live
  BY <1>12
<1>25. /\ HomeInv' /\ KindInv'
       /\ \A i \in DOMAIN heap' : \A k \in DOMAIN heap'[i].cell :
            heap'[i].live /\ heap'[i].cell[k] \notin Named' => heap'[heap'[i].cell[k]].live
  <2>1. \A i \in DOMAIN heap', c \in Nat : c \in DOMAIN heap'[i].cell =>
           \/ OldCell(i, c)
           \/ ~HasInline /\ heap'[i].cell[c] \in Named'
           \/ /\ HasInline
              /\ heap'[i].cell[c] \notin DOMAIN heap /\ heap'[i].cell[c] \notin Named'
              /\ heap'[heap'[i].cell[c]].live
    <3> SUFFICES ASSUME NEW i \in 1 .. made, NEW c, c \in DOMAIN heap'[i].cell, ~OldCell(i, c)
                 PROVE  \/ ~HasInline /\ heap'[i].cell[c] \in Named'
                        \/ /\ HasInline
                           /\ heap'[i].cell[c] \notin DOMAIN heap /\ heap'[i].cell[c] \notin Named'
                           /\ heap'[heap'[i].cell[c]].live
      BY <1>12
    <3>1. c \in DOMAIN cell /\ heap'[i].cell[c] = cell[c]
      BY <1>20
    <3>2. CASE HasInline
      <4>1. cell[c] \in L + 1 .. L + R
        BY <1>21, <3>1, <3>2
      <4>2. cell[c] \notin DOMAIN heap /\ cell[c] \notin Named' /\ heap'[cell[c]].live
        BY <1>12, <1>16, <1>17, <1>19, <4>1
      <4> QED BY <3>1, <3>2, <4>2
    <3>3. CASE ~HasInline
      BY <1>19, <1>21, <3>1, <3>3
    <3> QED BY <3>2, <3>3
  <2>2. \A i \in DOMAIN heap', j \in DOMAIN heap', k \in Nat, l \in Nat :
           /\ k \in DOMAIN heap'[i].cell /\ l \in DOMAIN heap'[j].cell
           /\ heap'[i].cell[k] = heap'[j].cell[l]
           /\ heap'[i].cell[k] \notin DOMAIN heap /\ heap'[i].cell[k] \notin Named'
           => i = j /\ k = l
    <3> SUFFICES ASSUME NEW i \in DOMAIN heap', NEW j \in DOMAIN heap', NEW k \in Nat, NEW l \in Nat,
                        k \in DOMAIN heap'[i].cell, l \in DOMAIN heap'[j].cell,
                        heap'[i].cell[k] = heap'[j].cell[l],
                        heap'[i].cell[k] \notin DOMAIN heap
                 PROVE  i = j /\ k = l
      OBVIOUS
    <3>0. i \in 1 .. made /\ j \in 1 .. made
      BY <1>12
    <3>1. ~OldCell(i, k) /\ ~OldCell(j, l)
      BY <1>12, <1>22, <3>0
    <3>2. /\ i = made /\ k \in DOMAIN cell /\ heap'[i].cell[k] = cell[k]
          /\ j = made /\ l \in DOMAIN cell /\ heap'[j].cell[l] = cell[l]
      BY <1>20, <3>0, <3>1
    <3> QED BY <1>12, <3>2
  <2>3. DOMAIN heap \subseteq DOMAIN heap'
    BY <1>12, <1>17
  <2>4. ~HasInline => \A i \in DOMAIN heap' : ~heap'[i].deep
    <3> SUFFICES ASSUME ~HasInline, NEW i \in 1 .. made
                 PROVE  ~heap'[i].deep
      BY <1>12
    <3>1. CASE i \in 1 .. L
      BY <1>6, <1>12, <3>1 DEF KindInv
    <3>2. CASE i \in L + 1 .. L + R
      BY <1>12, <1>16, <3>2
    <3>3. CASE i = made
      BY <1>14, <1>15, <3>3
    <3> QED BY <1>17, <3>1, <3>2, <3>3
  <2>5. script' = script /\ \A r \in DOMAIN heap : r \in Named' <=> r \in Named
    BY <1>10, <1>12, <1>17, <1>19
  <2> HIDE DEF OldCell
  <2> QED BY <1>6, <1>23, <1>24, <2>1, <2>2, <2>3, <2>4, <2>5, HeapGrows
<1>26. LiveInv(g)'
  <2>1. \A q \in DOMAIN birth' : q \notin Gone(g) => heap'[birth'[q]].live
    <3> SUFFICES ASSUME NEW q \in DOMAIN birth', q \notin Gone(g)
                 PROVE  heap'[birth'[q]].live
      OBVIOUS
    <3>1. CASE q = p
      BY <1>11, <1>14, <3>1
    <3>2. CASE q # p
      BY <1>5, <1>6, <1>11, <1>12, <1>18, <3>2 DEF LiveInv
    <3> QED BY <3>1, <3>2
  <2> QED BY <1>25, <2>1 DEF LiveInv, Keys
<1>27. BirthInv(p)'
  <2>1. Ctors(script, p) = DOMAIN birth \cup {p}
    BY <1>1, <1>2, <1>6, SameCtors DEF BirthInv, s
  <2>2. \A q \in DOMAIN birth \cup {p} : birth'[q] \in 1 .. made
    BY <1>11, <1>17, <1>18
  <2>3. \A q \in DOMAIN birth \cup {p}, r \in DOMAIN birth \cup {p} : birth'[q] = birth'[r] => q = r
    BY <1>11, <1>17, <1>18
  <2>4. birth' \in [DOMAIN birth \cup {p} -> 1 .. made]
    BY <1>11, <2>2
  <2> QED BY <1>10, <1>12, <2>1, <2>3, <2>4 DEF BirthInv
<1>28. EnvInv(g)'
  <2>1. env = [x \in Names |-> IF f.site[x] = 0 THEN 0 ELSE birth[f.site[x]]]
    BY <1>6 DEF EnvInv
  <2>2. f.site \in [Names -> {0} \cup DOMAIN birth]
    BY <1>3, <1>6 DEF FactsInv, BirthInv
  <2>3. \A x \in Names : env'[x] = IF g.site[x] = 0 THEN 0 ELSE birth'[g.site[x]]
    BY <1>2, <1>4, <1>5, <1>11, <1>18, <2>1, <2>2
  <2>4. env' = [x \in Names |-> env'[x]]
    BY <1>11, <2>1
  <2>5. env' = [x \in Names |-> IF g.site[x] = 0 THEN 0 ELSE birth'[g.site[x]]]
    BY <2>3, <2>4
  <2> QED BY <2>5 DEF EnvInv
<1>29. TodoInv(g)'
  BY <1>1, <1>10, NothingToFree
<1> QED BY <1>23, <1>25, <1>26, <1>27, <1>28, <1>29 DEF RunInv, g

-----------------------------------------------------------------------------
(* A free.                                                                 *)

(* The children are the rows in the cells, each once.                       *)
RowsOf(h, kids) ==
  /\ kids \in Seq(DOMAIN heap)
  /\ heap[h].deep =>
       /\ \A n \in DOMAIN kids : \E k \in Keys(h) : kids[n] = heap[h].cell[k]
       /\ \A k \in Keys(h) : \E n \in DOMAIN kids : kids[n] = heap[h].cell[k]
       /\ (\A k \in Keys(h), l \in Keys(h) : heap[h].cell[k] = heap[h].cell[l] => k = l) =>
            \A m \in DOMAIN kids, n \in DOMAIN kids : kids[m] = kids[n] => m = n
  /\ ~heap[h].deep => kids = <<>>

LEMMA ChildrenElements ==
  ASSUME HeapInv, NEW h \in DOMAIN heap,
         NEW kids, kids = Children(heap[h])
  PROVE  RowsOf(h, kids)
<1> DEFINE D == IF heap[h].deep THEN Keys(h) ELSE {}
<1>1. Keys(h) \in SUBSET Nat
  <2>1. heap[h] \in Tables
    BY DEF HeapInv
  <2> QED BY <2>1, TableType, CellType DEF Keys
<1>2. D \in SUBSET Nat /\ IsFiniteSet(D) /\ D \subseteq Keys(h)
  <2>1. IsFiniteSet(Keys(h))
    BY DEF HeapInv
  <2> QED BY <1>1, <2>1, FS_EmptySet
<1> HIDE DEF D
<1>3. PICK asc : asc = Ascending(D)
  OBVIOUS
<1>4. /\ asc \in Seq(D)
      /\ \A m \in DOMAIN asc, n \in DOMAIN asc : asc[m] = asc[n] => m = n
      /\ \A a \in D : \E n \in DOMAIN asc : asc[n] = a
  BY <1>2, <1>3, AscendingLists
<1>5. Len(asc) \in Nat /\ DOMAIN asc = 1 .. Len(asc) /\ \A n \in DOMAIN asc : asc[n] \in D
  BY <1>4
<1>6. kids = [n \in DOMAIN asc |-> heap[h].cell[asc[n]]]
  BY <1>3 DEF Children, D, Keys
<1>7. \A n \in DOMAIN asc : kids[n] = heap[h].cell[asc[n]] /\ kids[n] \in DOMAIN heap
  BY <1>2, <1>5, <1>6 DEF HeapInv
<1>8. kids \in Seq(DOMAIN heap) /\ DOMAIN kids = DOMAIN asc
  BY <1>5, <1>6, <1>7
<1>9. ASSUME heap[h].deep
      PROVE  D = Keys(h)
  BY <1>9 DEF D
<1>10. ASSUME ~heap[h].deep
       PROVE  kids = <<>>
  <2>1. D = {}
    BY <1>10 DEF D
  <2>2. DOMAIN asc = {}
    BY <1>5, <2>1
  <2>3. kids \in Seq(DOMAIN heap) /\ DOMAIN kids = {}
    BY <1>8, <2>2
  <2> QED BY <2>3
<1>11. ASSUME heap[h].deep
       PROVE  /\ \A n \in DOMAIN kids : \E k \in Keys(h) : kids[n] = heap[h].cell[k]
              /\ \A k \in Keys(h) : \E n \in DOMAIN kids : kids[n] = heap[h].cell[k]
  BY <1>4, <1>5, <1>7, <1>8, <1>9, <1>11
<1>12. ASSUME \A k \in Keys(h), l \in Keys(h) : heap[h].cell[k] = heap[h].cell[l] => k = l,
              NEW m \in DOMAIN kids, NEW n \in DOMAIN kids, kids[m] = kids[n]
       PROVE  m = n
  <2>1. asc[m] \in Keys(h) /\ asc[n] \in Keys(h)
    BY <1>2, <1>5, <1>8
  <2>2. asc[m] = asc[n]
    BY <1>7, <1>8, <1>12, <2>1
  <2> QED BY <1>4, <1>8, <2>2
<1> QED BY <1>8, <1>10, <1>11, <1>12 DEF RowsOf

(* The stack of calls: the children, then what was there below the head.      *)
LEMMA StackElements ==
  ASSUME NEW T, NEW kids \in Seq(T), NEW s \in Seq(T), s # <<>>,
         NEW new, new = kids \o Tail(s)
  PROVE  /\ new \in Seq(T) /\ 1 \in DOMAIN s /\ Head(s) = s[1]
         /\ \A n \in DOMAIN new :
              \/ n \in DOMAIN kids /\ new[n] = kids[n]
              \/ /\ n \notin DOMAIN kids
                 /\ n - Len(kids) + 1 \in DOMAIN s \ {1} /\ new[n] = s[n - Len(kids) + 1]
         /\ \A n \in DOMAIN kids : n \in DOMAIN new /\ new[n] = kids[n]
         /\ \A n \in DOMAIN s \ {1} : n - 1 + Len(kids) \in DOMAIN new
                                      /\ new[n - 1 + Len(kids)] = s[n]
<1>1. Tail(s) \in Seq(T) /\ Len(s) \in Nat /\ Len(s) >= 1 /\ Len(Tail(s)) = Len(s) - 1
      /\ \A n \in 1 .. Len(s) - 1 : Tail(s)[n] = s[n + 1]
  OBVIOUS
<1>2. PICK rest : rest = Tail(s)
  OBVIOUS
<1>3. rest \in Seq(T) /\ Len(rest) = Len(s) - 1 /\ \A n \in 1 .. Len(s) - 1 : rest[n] = s[n + 1]
  BY <1>1, <1>2
<1>4. /\ new \in Seq(T) /\ Len(new) = Len(kids) + Len(rest)
      /\ \A n \in 1 .. Len(kids) + Len(rest) :
           new[n] = IF n <= Len(kids) THEN kids[n] ELSE rest[n - Len(kids)]
  BY <1>2, <1>3, ConcatElements
<1>5. /\ Len(kids) \in Nat /\ DOMAIN kids = 1 .. Len(kids) /\ DOMAIN s = 1 .. Len(s)
      /\ DOMAIN new = 1 .. Len(kids) + Len(s) - 1
  BY <1>1, <1>3, <1>4
<1>6. ASSUME NEW n \in DOMAIN new, n \notin DOMAIN kids
      PROVE  n - Len(kids) + 1 \in DOMAIN s \ {1} /\ new[n] = s[n - Len(kids) + 1]
  <2>1. n - Len(kids) \in 1 .. Len(s) - 1 /\ n \in 1 .. Len(kids) + Len(rest) /\ ~(n <= Len(kids))
    BY <1>1, <1>3, <1>5, <1>6
  <2> QED BY <1>1, <1>3, <1>4, <1>5, <2>1
<1>7. ASSUME NEW n \in DOMAIN kids
      PROVE  n \in DOMAIN new /\ new[n] = kids[n]
  <2>1. n \in 1 .. Len(kids) + Len(rest) /\ n <= Len(kids)
    BY <1>1, <1>3, <1>5
  <2> QED BY <1>1, <1>3, <1>4, <1>5, <2>1
<1>8. ASSUME NEW n \in DOMAIN s \ {1}
      PROVE  n - 1 + Len(kids) \in DOMAIN new /\ new[n - 1 + Len(kids)] = s[n]
  <2>1. /\ n - 1 + Len(kids) \in 1 .. Len(kids) + Len(rest) /\ ~(n - 1 + Len(kids) <= Len(kids))
        /\ n - 1 + Len(kids) - Len(kids) = n - 1 /\ n - 1 \in 1 .. Len(s) - 1 /\ n - 1 + 1 = n
    BY <1>1, <1>3, <1>5
  <2> QED BY <1>1, <1>3, <1>4, <1>5, <2>1
<1>9. new \in Seq(T) /\ 1 \in DOMAIN s /\ Head(s) = s[1]
  BY <1>1, <1>4, <1>5
<1>10. \A n \in DOMAIN new :
         \/ n \in DOMAIN kids /\ new[n] = kids[n]
         \/ /\ n \notin DOMAIN kids
            /\ n - Len(kids) + 1 \in DOMAIN s \ {1} /\ new[n] = s[n - Len(kids) + 1]
  BY ONLY <1>6, <1>7
<1> QED BY ONLY <1>7, <1>8, <1>9, <1>10

(* The header goes, its children are to be released next.                   *)
Freeing(h, kids) ==
  /\ todo # <<>> /\ UNCHANGED <<script, facts, pc, env, birth>> /\ count' = count - 1
  /\ todo \in Seq(DOMAIN heap) /\ 1 \in DOMAIN todo /\ h = todo[1] /\ h \in DOMAIN heap
  /\ heap[h].live
  /\ heap' \in Seq(Tables) /\ DOMAIN heap' = DOMAIN heap
  /\ \A i \in DOMAIN heap :
       /\ heap'[i].deep = heap[i].deep /\ heap'[i].cell = heap[i].cell
       /\ i # h => heap'[i].live = heap[i].live
  /\ ~heap'[h].live
  /\ RowsOf(h, kids)
  /\ todo' = kids \o Tail(todo)

LEMMA FreeMoves ==
  ASSUME NEW f, NEW p, RunInv(f, p), FreeTable,
         NEW h, h = Head(todo), NEW kids, kids = Children(heap[h])
  PROVE  Freeing(h, kids)
<1>1. HeapInv /\ TodoInv(f)
  BY DEF RunInv
<1>4. /\ todo # <<>> /\ UNCHANGED <<script, facts, pc, env, birth>> /\ count' = count - 1
      /\ heap' = [heap EXCEPT ![h] = Table(FALSE, @.deep, @.cell)]
      /\ todo' = kids \o Tail(todo)
  BY DEF FreeTable
<1>5. todo \in Seq(DOMAIN heap) /\ 1 \in DOMAIN todo /\ h = todo[1] /\ h \in DOMAIN heap
  BY <1>1, <1>4 DEF TodoInv
<1>6. heap[h].live
  BY <1>1, <1>5 DEF TodoInv
<1>7. /\ heap' \in Seq(Tables) /\ DOMAIN heap' = DOMAIN heap
      /\ \A i \in DOMAIN heap :
           /\ heap'[i].deep = heap[i].deep /\ heap'[i].cell = heap[i].cell
           /\ i # h => heap'[i].live = heap[i].live
      /\ ~heap'[h].live
  <2>1. PICK t : t = Table(FALSE, heap[h].deep, heap[h].cell)
    OBVIOUS
  <2>2. heap \in Seq(Tables) /\ heap[h] \in Tables
    BY <1>1, <1>5 DEF HeapInv
  <2>3. t \in Tables /\ t.deep = heap[h].deep /\ t.cell = heap[h].cell /\ ~t.live
    BY <2>1, <2>2, TableType DEF Table
  <2>4. heap' = [heap EXCEPT ![h] = t]
    BY <1>4, <2>1
  <2>5. heap' \in Seq(Tables) /\ DOMAIN heap' = DOMAIN heap
        /\ heap'[h] = t /\ \A i \in DOMAIN heap : i # h => heap'[i] = heap[i]
    BY <1>5, <2>2, <2>3, <2>4
  <2> QED BY <2>3, <2>5
<1>9. RowsOf(h, kids)
  BY <1>1, <1>5, ChildrenElements
<1> QED BY <1>4, <1>5, <1>6, <1>7, <1>9 DEF Freeing

LEMMA FreeKeeps ==
  ASSUME NEW f, NEW p, RunInv(f, p), FreeTable
  PROVE  RunInv(f, p)'
<1>1. /\ HeapInv /\ BirthInv(p) /\ EnvInv(f) /\ HomeInv /\ KindInv /\ LiveInv(f) /\ TodoInv(f)
  BY DEF RunInv
<1>2. PICK h : h = Head(todo)
  OBVIOUS
<1>3. PICK kids : kids = Children(heap[h])
  OBVIOUS
<1>4. Freeing(h, kids)
  BY <1>2, <1>3, FreeMoves
<1>5. /\ todo # <<>> /\ UNCHANGED <<script, env, birth>> /\ todo' = kids \o Tail(todo)
      /\ todo \in Seq(DOMAIN heap) /\ 1 \in DOMAIN todo /\ h = todo[1] /\ h \in DOMAIN heap
  BY <1>4 DEF Freeing
<1>6. heap[h].live
  BY <1>4 DEF Freeing
<1>7. /\ heap' \in Seq(Tables) /\ DOMAIN heap' = DOMAIN heap
      /\ \A i \in DOMAIN heap :
           /\ heap'[i].deep = heap[i].deep /\ heap'[i].cell = heap[i].cell
           /\ i # h => heap'[i].live = heap[i].live
      /\ ~heap'[h].live
  BY <1>4 DEF Freeing
<1>8. /\ \A i \in DOMAIN heap : Keys(i)' = Keys(i)
      /\ Named' = Named /\ HasInline' = HasInline
  BY <1>5, <1>7 DEF Keys, Named, HasInline
<1>9. /\ kids \in Seq(DOMAIN heap)
      /\ heap[h].deep =>
           /\ \A n \in DOMAIN kids : \E k \in Keys(h) : kids[n] = heap[h].cell[k]
           /\ \A k \in Keys(h) : \E n \in DOMAIN kids : kids[n] = heap[h].cell[k]
           /\ (\A k \in Keys(h), l \in Keys(h) : heap[h].cell[k] = heap[h].cell[l] => k = l) =>
                \A m \in DOMAIN kids, n \in DOMAIN kids : kids[m] = kids[n] => m = n
      /\ ~heap[h].deep => kids = <<>>
  BY <1>4 DEF Freeing, RowsOf
<1>10. heap[h].deep => \A k \in Keys(h) : heap[h].cell[k] \notin Named
  BY <1>1, <1>5 DEF KindInv
<1>11. \A n \in DOMAIN kids : \E k \in Keys(h) : kids[n] = heap[h].cell[k] /\ kids[n] \notin Named
  <2>1. CASE heap[h].deep
    BY <1>9, <1>10, <2>1
  <2>2. CASE ~heap[h].deep
    BY <1>9, <2>2
  <2> QED BY <2>1, <2>2
<1>12. \A m \in DOMAIN kids, n \in DOMAIN kids : kids[m] = kids[n] => m = n
  <2>1. CASE heap[h].deep
    <3>1. \A k \in Keys(h), l \in Keys(h) :
            heap[h].cell[k] = heap[h].cell[l] /\ heap[h].cell[k] \notin Named => k = l
      <4>1. HomeInv /\ h \in DOMAIN heap
        BY <1>1, <1>5
      <4> QED BY ONLY <4>1 DEF HomeInv
    <3>2. \A k \in Keys(h), l \in Keys(h) : heap[h].cell[k] = heap[h].cell[l] => k = l
      BY ONLY <1>10, <2>1, <3>1
    <3> QED BY <1>9, <2>1, <3>2
  <2>2. CASE ~heap[h].deep
    BY <1>9, <2>2
  <2> QED BY <2>1, <2>2
<1>13. h \notin Named => \A i \in DOMAIN heap : \A k \in Keys(i) : heap[i].cell[k] = h => ~heap[i].live
  BY <1>1, <1>5 DEF TodoInv
<1>14. HeapInv'
  BY <1>1, <1>7, <1>8 DEF HeapInv, Keys
<1>15. BirthInv(p)' /\ EnvInv(f)'
  BY <1>1, <1>5, <1>7 DEF BirthInv, EnvInv
<1>16. HomeInv'
  BY <1>1, <1>7, <1>8 DEF HomeInv
<1>17. KindInv'
  BY <1>1, <1>7, <1>8 DEF KindInv
<1>18. LiveInv(f)'
  <2>1. \A q \in DOMAIN birth : q \notin Gone(f) => heap'[birth[q]].live
    <3> SUFFICES ASSUME NEW q \in DOMAIN birth, q \notin Gone(f)
                 PROVE  heap'[birth[q]].live
      OBVIOUS
    <3>1. birth[q] # h
      BY <1>1, <1>5 DEF TodoInv
    <3>2. birth[q] \in DOMAIN heap /\ heap[birth[q]].live
      BY <1>1 DEF BirthInv, LiveInv
    <3> QED BY <1>7, <3>1, <3>2
  <2>2. \A i \in DOMAIN heap : \A k \in Keys(i) :
          heap'[i].live /\ heap[i].cell[k] \notin Named => heap'[heap[i].cell[k]].live
    <3> SUFFICES ASSUME NEW i \in DOMAIN heap, NEW k \in Keys(i),
                        heap'[i].live, heap[i].cell[k] \notin Named
                 PROVE  heap'[heap[i].cell[k]].live
      OBVIOUS
    <3>1. i # h /\ heap[i].live
      BY <1>7
    <3>2. heap[i].cell[k] # h
      BY <1>13, <3>1
    <3>3. heap[i].cell[k] \in DOMAIN heap /\ heap[heap[i].cell[k]].live
      BY <1>1, <3>1 DEF HeapInv, LiveInv
    <3> QED BY <1>7, <3>2, <3>3
  <2>3. \A q \in DOMAIN birth' : q \notin Gone(f) => heap'[birth'[q]].live
    BY <1>5, <2>1
  <2>4. \A i \in DOMAIN heap' : \A k \in DOMAIN heap'[i].cell :
          heap'[i].live /\ heap'[i].cell[k] \notin Named' => heap'[heap'[i].cell[k]].live
    BY <1>7, <1>8, <2>2 DEF Keys
  <2> QED BY <2>3, <2>4 DEF LiveInv, Keys
<1>19. TodoInv(f)'
  <2>1. /\ todo' \in Seq(DOMAIN heap)
        /\ \A n \in DOMAIN todo' :
             \/ n \in DOMAIN kids /\ todo'[n] = kids[n]
             \/ /\ n \notin DOMAIN kids
                /\ n - Len(kids) + 1 \in DOMAIN todo \ {1} /\ todo'[n] = todo[n - Len(kids) + 1]
    <3>1. /\ kids \in Seq(DOMAIN heap) /\ todo \in Seq(DOMAIN heap) /\ todo # <<>>
          /\ todo' = kids \o Tail(todo)
      BY <1>5, <1>9
    <3> QED BY ONLY <3>1, StackElements
  <2>2. \A n \in DOMAIN kids, m \in DOMAIN todo : kids[n] # todo[m]
    <3> SUFFICES ASSUME NEW n \in DOMAIN kids, NEW m \in DOMAIN todo, kids[n] = todo[m]
                 PROVE  FALSE
      OBVIOUS
    <3>1. PICK k \in Keys(h) : kids[n] = heap[h].cell[k] /\ kids[n] \notin Named
      BY <1>11
    <3> QED BY <1>1, <1>5, <1>6, <3>1 DEF TodoInv
  <2>3. \A m \in DOMAIN todo', n \in DOMAIN todo' : todo'[m] = todo'[n] => m = n
    <3> SUFFICES ASSUME NEW m \in DOMAIN todo', NEW n \in DOMAIN todo', todo'[m] = todo'[n]
                 PROVE  m = n
      OBVIOUS
    <3>1. m \in DOMAIN kids <=> n \in DOMAIN kids
      BY <2>1, <2>2
    <3>2. CASE m \in DOMAIN kids
      BY <1>12, <2>1, <3>1, <3>2
    <3>3. CASE m \notin DOMAIN kids
      <4>1. m - Len(kids) + 1 = n - Len(kids) + 1
        BY <1>1, <2>1, <3>1, <3>3 DEF TodoInv
      <4>2. Len(kids) \in Nat /\ m \in Nat /\ n \in Nat
        BY <1>9, <2>1
      <4> QED BY <4>1, <4>2
    <3> QED BY <3>2, <3>3
  <2>4. ASSUME NEW n \in DOMAIN todo'
        PROVE  /\ heap'[todo'[n]].live
               /\ \A q \in DOMAIN birth : todo'[n] = birth[q] => q \in Gone(f)
               /\ todo'[n] \notin Named =>
                    \A i \in DOMAIN heap : \A k \in Keys(i) :
                      heap[i].cell[k] = todo'[n] => ~heap'[i].live
    <3>1. CASE n \in DOMAIN kids
      <4>1. PICK k \in Keys(h) : todo'[n] = heap[h].cell[k] /\ todo'[n] \notin Named
        BY <1>11, <2>1, <3>1
      <4>2. todo'[n] \in DOMAIN heap /\ heap[todo'[n]].live
        BY <1>1, <1>5, <1>6, <4>1 DEF HeapInv, LiveInv
      <4>3. todo'[n] # h
        BY <1>13, <1>5, <1>6, <4>1
      <4>4. \A i \in DOMAIN heap : \A l \in Keys(i) : heap[i].cell[l] = todo'[n] => i = h
        BY <1>1, <1>5, <4>1 DEF HomeInv
      <4>5. \A q \in DOMAIN birth : todo'[n] # birth[q]
        BY <4>1 DEF Named
      <4> QED BY <1>7, <4>2, <4>3, <4>4, <4>5
    <3>2. CASE n \notin DOMAIN kids
      <4>1. PICK m \in DOMAIN todo \ {1} : todo'[n] = todo[m]
        BY <2>1, <3>2
      <4>2. todo[m] \in DOMAIN heap /\ todo[m] # h
        BY <1>1, <1>5, <4>1 DEF TodoInv
      <4>3. /\ heap[todo[m]].live
            /\ \A q \in DOMAIN birth : todo[m] = birth[q] => q \in Gone(f)
            /\ todo[m] \notin Named =>
                 \A i \in DOMAIN heap : \A k \in Keys(i) :
                   heap[i].cell[k] = todo[m] => ~heap[i].live
        BY <1>1, <4>1 DEF TodoInv
      <4>4. \A i \in DOMAIN heap : ~heap[i].live => ~heap'[i].live
        BY <1>6, <1>7
      <4> QED BY <1>7, <4>1, <4>2, <4>3, <4>4
    <3> QED BY <3>1, <3>2
  <2>5. \A n \in DOMAIN todo' :
          /\ heap'[todo'[n]].live
          /\ \A q \in DOMAIN birth' : todo'[n] = birth'[q] => q \in Gone(f)
          /\ todo'[n] \notin Named' =>
               \A i \in DOMAIN heap' : \A k \in DOMAIN heap'[i].cell :
                 heap'[i].cell[k] = todo'[n] => ~heap'[i].live
    <3> TAKE n \in DOMAIN todo'
    <3>1. /\ heap'[todo'[n]].live
          /\ \A q \in DOMAIN birth' : todo'[n] = birth'[q] => q \in Gone(f)
      BY <1>5, <2>4
    <3>2. ASSUME todo'[n] \notin Named', NEW i \in DOMAIN heap', NEW k \in DOMAIN heap'[i].cell,
                 heap'[i].cell[k] = todo'[n]
          PROVE  ~heap'[i].live
      BY <1>7, <1>8, <2>4, <3>2 DEF Keys
    <3> QED BY <3>1, <3>2
  <2>6. todo' \in Seq(DOMAIN heap')
    BY <1>7, <2>1
  <2> QED BY <2>3, <2>5, <2>6 DEF TodoInv, Keys
<1> QED BY <1>14, <1>15, <1>16, <1>17, <1>18, <1>19 DEF RunInv

-----------------------------------------------------------------------------
(* Every behaviour.                                                        *)

(* Only programs whose rows are of one kind are walked.                     *)
OneKindOnly ==
  \A sofar \in Seq(Stmts), s \in Stmts : Allowed(sofar, s) => Unmixed(Append(sofar, s))

Untouched ==
  /\ env = [x \in Names |-> 0] /\ birth = [p \in {} |-> 0]
  /\ heap = <<>> /\ count = 0 /\ todo = <<>>

InvWith(hist) ==
  /\ Walked(hist)
  /\ pc \in 0 .. Len(script) + 1
  /\ pc = 0 => Untouched
  /\ pc # 0 => RunInv(hist[pc - 1], pc - 1)

DeepInv == \E hist : InvWith(hist)

LEMMA InitDeep ==
  ASSUME Init
  PROVE  DeepInv
<1> DEFINE hist == [p \in 0 .. 0 |-> NoFacts]
<1>1. script = <<>> /\ Len(script) = 0 /\ facts = NoFacts /\ pc = 0 /\ Untouched
  BY DEF Init, Untouched
<1>2. hist = [p \in 0 .. 0 |-> hist[p]] /\ hist[0] = NoFacts
  OBVIOUS
<1> HIDE DEF hist
<1>3. \A p \in 0 .. 0 : p = 0
  OBVIOUS
<1>4. \A p \in 0 .. 0 : FactsInv(hist[p], script, p) /\ Told(hist[p], facts, p)
  BY <1>1, <1>2, <1>3, FactsStart
<1>5. History(hist, script, facts)
  BY <1>1, <1>2, <1>4 DEF History
<1>6. script \in Seq(Stmts) /\ Unmixed(script)
  BY <1>1 DEF Unmixed
<1> QED BY <1>1, <1>5, <1>6 DEF DeepInv, InvWith, Walked

LEMMA WalkDeep ==
  ASSUME OneKindOnly, NEW hist, InvWith(hist), NEW s \in Stmts, Walk(s)
  PROVE  \E more : InvWith(more)' /\ \A p \in 0 .. Len(script) : more[p] = hist[p]
<1>1. script \in Seq(Stmts) /\ History(hist, script, facts) /\ pc = 0 /\ Untouched
  BY DEF InvWith, Walked, Walk
<1>2. /\ Legal(facts, s) /\ Allowed(script, s)
      /\ script' = Append(script, s) /\ facts' = Judged(facts, s, Len(script) + 1)
      /\ pc' = 0 /\ UNCHANGED <<env, birth, heap, count, todo>>
  BY <1>1 DEF Walk, program
<1>3. PICK more : /\ History(more, Append(script, s), Judged(facts, s, Len(script) + 1))
                  /\ \A p \in 0 .. Len(script) : more[p] = hist[p]
  BY <1>1, <1>2, HistoryGrows
<1>4. Unmixed(script') /\ script' \in Seq(Stmts) /\ Len(script') \in Nat
  BY <1>1, <1>2 DEF OneKindOnly
<1>5. Untouched'
  BY <1>1, <1>2 DEF Untouched
<1>6. Walked(more)'
  BY <1>2, <1>3, <1>4 DEF Walked
<1>7. (pc \in 0 .. Len(script) + 1)'
  BY <1>2, <1>4
<1>8. InvWith(more)'
  BY <1>2, <1>5, <1>6, <1>7 DEF InvWith
<1> QED BY <1>3, <1>8

LEMMA StartDeep ==
  ASSUME NEW hist, InvWith(hist), Start
  PROVE  InvWith(hist)'
<1>1. script \in Seq(Stmts) /\ History(hist, script, facts) /\ Untouched /\ Len(script) \in Nat
  BY DEF InvWith, Walked, Start
<1>2. pc' = 1 /\ UNCHANGED <<script, facts, env, birth, heap, count, todo>>
  BY DEF Start, program
<1>3. hist[0] = NoFacts
  BY <1>1 DEF History
<1>4. RunInv(NoFacts, 0)'
  <2>1. heap' = <<>> /\ DOMAIN heap' = {} /\ heap' \in Seq(Tables) /\ todo' = <<>>
    BY <1>1, <1>2 DEF Untouched
  <2>2. birth' = [p \in {} |-> 0] /\ DOMAIN birth' = {} /\ env' = [x \in Names |-> 0]
    BY <1>1, <1>2 DEF Untouched
  <2>3. HeapInv' /\ HomeInv' /\ KindInv'
    BY <2>1 DEF HeapInv, HomeInv, KindInv
  <2>4. BirthInv(0)'
    <3>1. Ctors(script, 0)' = {}
      BY DEF Ctors
    <3> QED BY <2>2, <3>1 DEF BirthInv
  <2>5. EnvInv(NoFacts)'
    BY <2>2 DEF EnvInv, NoFacts
  <2>6. LiveInv(NoFacts)'
    BY <2>1, <2>2 DEF LiveInv
  <2> QED BY <2>1, <2>3, <2>4, <2>5, <2>6, NothingToFree DEF RunInv
<1>5. Walked(hist)'
  BY <1>2 DEF InvWith, Walked
<1>6. InvWith(hist)'
  BY <1>1, <1>2, <1>3, <1>4, <1>5 DEF InvWith
<1> QED BY <1>6

LEMMA StatementDeep ==
  ASSUME NEW hist, InvWith(hist),
         Ctor \/ Alias \/ Put \/ PutNew \/ ReadCell \/ Drop \/ Exit
  PROVE  InvWith(hist)'
<1>1. Walked(hist) /\ script \in Seq(Stmts)
  BY DEF InvWith, Walked
<1>2. pc \in DOMAIN script /\ Step
  BY DEF Ctor, Alias, Put, PutNew, ReadCell, Drop, Exit, At
<1>3. PICK p : p = pc
  OBVIOUS
<1>4. /\ p \in 1 .. Len(script) /\ p # 0 /\ Len(script) \in Nat
      /\ pc' = p + 1 /\ UNCHANGED <<script, facts>> /\ p + 1 - 1 = p
  BY <1>1, <1>2, <1>3 DEF Step
<1>5. RunInv(hist[p - 1], p - 1)
  BY <1>3, <1>4 DEF InvWith
<1>6. RunInv(hist[p], p)'
  BY <1>1, <1>3, <1>4, <1>5, CtorKeeps, AliasKeeps, PutKeeps, PutNewKeeps, ReadKeepsAll,
     DropKeeps, ExitKeeps
<1>7. Walked(hist)'
  BY <1>1, <1>4 DEF Walked
<1>8. InvWith(hist)'
  BY <1>4, <1>6, <1>7 DEF InvWith
<1> QED BY <1>8

LEMMA FreeDeep ==
  ASSUME NEW hist, InvWith(hist), FreeTable
  PROVE  InvWith(hist)'
<1>1. UNCHANGED <<script, facts, pc>> /\ todo # <<>>
  BY DEF FreeTable
<1>2. PICK p : p = pc
  OBVIOUS
<1>3. p # 0
  BY <1>1, <1>2 DEF InvWith, Untouched
<1>4. RunInv(hist[p - 1], p - 1)
  BY <1>2, <1>3 DEF InvWith
<1>5. RunInv(hist[p - 1], p - 1)'
  BY <1>4, FreeKeeps
<1>6. Walked(hist)'
  BY <1>1 DEF InvWith, Walked
<1>7. InvWith(hist)'
  BY <1>1, <1>2, <1>3, <1>5, <1>6 DEF InvWith
<1> QED BY <1>7

LEMMA IdleDeep ==
  ASSUME NEW hist, InvWith(hist), UNCHANGED vars
  PROVE  InvWith(hist)'
<1>1. UNCHANGED <<script, facts, pc, env, birth, heap, count, todo>>
  BY DEF vars, program
<1>2. Walked(hist)'
  BY <1>1 DEF InvWith, Walked
<1>3. Untouched' <=> Untouched
  BY <1>1 DEF Untouched
<1>4. PICK p : p = pc
  OBVIOUS
<1>5. RunInv(hist[p - 1], p - 1) => RunInv(hist[p - 1], p - 1)'
  BY <1>1 DEF RunInv, HeapInv, BirthInv, EnvInv, HomeInv, KindInv, LiveInv, TodoInv, Keys,
              Named, HasInline
<1> QED BY <1>1, <1>2, <1>3, <1>4, <1>5 DEF InvWith

LEMMA DeepSteps ==
  ASSUME OneKindOnly, DeepInv, [Next]_vars
  PROVE  DeepInv'
<1>1. PICK hist : InvWith(hist)
  BY DEF DeepInv
<1>2. CASE \E s \in Stmts : Walk(s)
  BY <1>1, <1>2, WalkDeep DEF DeepInv
<1>3. CASE Start
  BY <1>1, <1>3, StartDeep DEF DeepInv
<1>4. CASE Ctor \/ Alias \/ Put \/ PutNew \/ ReadCell \/ Drop \/ Exit
  BY <1>1, <1>4, StatementDeep DEF DeepInv
<1>5. CASE FreeTable
  BY <1>1, <1>5, FreeDeep DEF DeepInv
<1>6. CASE UNCHANGED vars
  BY <1>1, <1>6, IdleDeep DEF DeepInv
<1> QED BY <1>2, <1>3, <1>4, <1>5, <1>6 DEF Next

(* No header is released twice, whichever of its owners releases it: the one    *)
(* free emitted for a site (drop_reference, decide_do_exit) and the recursion of *)
(* glm_tbl_free over the cells of a flagged table never meet.               *)
THEOREM FreesAreUnique ==
  ASSUME OneKindOnly
  PROVE  Spec => []FreedOnce
<1>1. DeepInv => FreedOnce
  <2> SUFFICES ASSUME DeepInv, todo # <<>>
               PROVE  heap[Head(todo)].live
    BY DEF FreedOnce
  <2>1. PICK hist : InvWith(hist)
    BY DEF DeepInv
  <2>2. TodoInv(hist[pc - 1])
    BY <2>1 DEF InvWith, Untouched, RunInv
  <2>3. 1 \in DOMAIN todo /\ Head(todo) = todo[1]
    BY <2>2 DEF TodoInv
  <2> QED BY <2>2, <2>3 DEF TodoInv
<1> QED BY <1>1, InitDeep, DeepSteps, PTL DEF Spec

(* A table that a name stands for is live when it is stored to or read, and so  *)
(* is every row written inline in it.                                       *)
THEOREM NamedTablesAreLive ==
  ASSUME OneKindOnly
  PROVE  Spec => []NamesAreLive
<1>1. DeepInv => NamesAreLive
  <2> SUFFICES ASSUME DeepInv, NEW op \in {"put", "putnew", "read"}, At(op)
               PROVE  /\ heap[env[S.x]].live
                      /\ \A k \in DOMAIN heap[env[S.x]].cell :
                           heap[env[S.x]].cell[k] \notin Named => heap[heap[env[S.x]].cell[k]].live
    BY DEF NamesAreLive
  <2>1. PICK hist : InvWith(hist)
    BY DEF DeepInv
  <2>2. PICK p : p = pc
    OBVIOUS
  <2>3. Walked(hist) /\ p \in 1 .. Len(script) /\ S = script[p] /\ S.op = op
    BY <2>1, <2>2 DEF InvWith, Walked, At, S
  <2>4. RunInv(hist[p - 1], p - 1)
    BY <2>1, <2>2, <2>3 DEF InvWith
  <2>5. S \in Stmts /\ Legal(hist[p - 1], S) /\ FactsInv(hist[p - 1], script, p - 1)
    BY <2>3, AtStatement
  <2>6. S.x \in Names /\ Holds(hist[p - 1], S.x)
    BY <2>3, <2>5, StmtForms DEF Legal
  <2>7. env[S.x] \in DOMAIN heap /\ heap[env[S.x]].live
    BY <2>4, <2>5, <2>6, HeldAreLive
  <2> QED BY <2>4, <2>7 DEF RunInv, LiveInv, Keys
<1> QED BY <1>1, InitDeep, DeepSteps, PTL DEF Spec

-----------------------------------------------------------------------------
(* Nothing is forgotten, in programs that bind and store once.               *)

OnceOnly ==
  \A sofar \in Seq(Stmts), s \in Stmts : Allowed(sofar, s) => StoredOnce(sofar, s)

(* No statement binds a name or fills a cell that an earlier one did.          *)
Once(P) ==
  \A p \in 1 .. Len(P) : \A n \in 1 .. p - 1 :
    /\ ~(Binds(P[p]) /\ Binds(P[n]) /\ P[n].x = P[p].x)
    /\ Stores(P[p]) => /\ ~(Stores(P[n]) /\ P[n].k = P[p].k)
                       /\ P[p].k + 1 \notin DOMAIN P[n].entries

(* A site is released or held by a name, after the block by one that survives.  *)
HeldInv(f, P, p) ==
  /\ \A q \in Ctors(P, p) : q \in Gone(f) \/ \E x \in Names : f.site[x] = q
  /\ \A x \in Names : f.site[x] # 0 => \E n \in 1 .. p : Binds(P[n]) /\ P[n].x = x
  /\ f.left => \A x \in Names \ Outer : f.site[x] = 0

LEMMA HeldStart ==
  ASSUME NEW P
  PROVE  HeldInv(NoFacts, P, 0)
BY DEF HeldInv, NoFacts, Ctors

LEMMA HeldKeeps ==
  ASSUME NEW P, NEW p \in Nat \ {0}, NEW f, NEW g, NEW s \in Stmts, s = P[p],
         FactsInv(f, P, p - 1), HeldInv(f, P, p - 1), Legal(f, s), g = Judged(f, s, p),
         \A n \in 1 .. p - 1 : ~(Binds(s) /\ Binds(P[n]) /\ P[n].x = s.x)
  PROVE  HeldInv(g, P, p)
<1>1. Moves(s, p, f, g)
  BY JudgedSites
<1>2. g.left <=> f.left \/ s.op = "exit"
  BY DEF Judged
<1>3. f.left => s.x \in Outer
  BY DEF Legal
<1>4. /\ f.site \in [Names -> {0} \cup Ctors(P, p - 1)]
      /\ 0 \notin Ctors(P, p - 1) /\ p \notin Ctors(P, p - 1)
  BY DEF FactsInv, Ctors
<1>5. Ctors(P, p) = Ctors(P, p - 1) \cup IF s.op = "ctor" THEN {p} ELSE {}
  BY SameCtors
<1>6. 1 .. p - 1 \subseteq 1 .. p /\ p \in 1 .. p
  OBVIOUS
<1>7. /\ s.op \in {"ctor", "alias", "put", "putnew", "read", "drop"} => s.x \in Names
      /\ s.op = "alias" => s.y \in Names
      /\ s.op \in {"ctor", "alias", "put", "putnew", "read", "drop", "exit"}
  BY StmtForms
<1>8. Outer \subseteq Names
  BY NamesAssumption
<1>9. CASE Binds(s)
  <2>1. s.op \in {"ctor", "alias"} /\ s.x \in Names
    BY <1>7, <1>9 DEF Binds
  <2>2. f.site[s.x] = 0
    BY <1>9, <2>1 DEF HeldInv
  <2>3. PICK q : q = (IF s.op = "ctor" THEN p ELSE f.site[s.y])
    OBVIOUS
  <2>4. g.site = [f.site EXCEPT ![s.x] = q] /\ Gone(g) = Gone(f) /\ (g.left <=> f.left)
    <3>1. CASE s.op = "ctor"
      BY <1>1, <1>2, <2>3, <3>1 DEF Moves
    <3>2. CASE s.op = "alias"
      BY <1>1, <1>2, <2>3, <3>2 DEF Moves
    <3> QED BY <2>1, <3>1, <3>2
  <2>5. g.site[s.x] = q /\ \A x \in Names : x # s.x => g.site[x] = f.site[x]
    BY <1>4, <2>1, <2>4
  <2>6. \A r \in Ctors(P, p) : r \in Gone(g) \/ \E x \in Names : g.site[x] = r
    <3> SUFFICES ASSUME NEW r \in Ctors(P, p), r \notin Gone(g)
                 PROVE  \E x \in Names : g.site[x] = r
      OBVIOUS
    <3>1. CASE s.op = "ctor" /\ r = p
      BY <2>1, <2>3, <2>5, <3>1
    <3>2. CASE ~(s.op = "ctor" /\ r = p)
      <4>1. r \in Ctors(P, p - 1) /\ r # 0
        BY <1>4, <1>5, <3>2
      <4>2. PICK x \in Names : f.site[x] = r
        BY <2>4, <4>1 DEF HeldInv
      <4> QED BY <2>2, <2>5, <4>1, <4>2
    <3> QED BY <3>1, <3>2
  <2>7. \A x \in Names : g.site[x] # 0 => \E n \in 1 .. p : Binds(P[n]) /\ P[n].x = x
    <3> SUFFICES ASSUME NEW x \in Names, g.site[x] # 0
                 PROVE  \E n \in 1 .. p : Binds(P[n]) /\ P[n].x = x
      OBVIOUS
    <3>1. CASE x = s.x
      BY <1>6, <1>9, <3>1
    <3>2. CASE x # s.x
      BY <1>6, <2>5, <3>2 DEF HeldInv
    <3> QED BY <3>1, <3>2
  <2>8. g.left => \A x \in Names \ Outer : g.site[x] = 0
    BY <1>3, <2>4, <2>5 DEF HeldInv
  <2> QED BY <2>6, <2>7, <2>8 DEF HeldInv
<1>10. CASE s.op \in {"put", "putnew", "read"}
  <2>1. g.site = f.site /\ Gone(g) = Gone(f) /\ (g.left <=> f.left) /\ Ctors(P, p) = Ctors(P, p - 1)
    BY <1>1, <1>2, <1>5, <1>10 DEF Moves
  <2> QED BY <1>6, <2>1 DEF HeldInv
<1>11. CASE s.op = "drop"
  <2>1. /\ g.site = [f.site EXCEPT ![s.x] = 0] /\ s.x \in Names
        /\ Gone(g) = Gone(f) \cup (IF Frees(f, s) THEN {f.site[s.x]} ELSE {})
        /\ (g.left <=> f.left) /\ Ctors(P, p) = Ctors(P, p - 1)
    BY <1>1, <1>2, <1>5, <1>7, <1>11 DEF Moves
  <2>2. g.site[s.x] = 0 /\ \A x \in Names : x # s.x => g.site[x] = f.site[x]
    BY <1>4, <2>1
  <2>3. \A r \in Ctors(P, p) : r \in Gone(g) \/ \E x \in Names : g.site[x] = r
    <3> SUFFICES ASSUME NEW r \in Ctors(P, p), r \notin Gone(g)
                 PROVE  \E x \in Names : g.site[x] = r
      OBVIOUS
    <3>1. PICK x \in Names : f.site[x] = r
      BY <2>1 DEF HeldInv
    <3>2. CASE x # s.x
      BY <2>2, <3>1, <3>2
    <3>3. CASE x = s.x
      <4>1. r # 0 /\ Holds(f, s.x)
        BY <1>4, <2>1, <3>1, <3>3 DEF Holds
      <4>2. ~Frees(f, s) /\ r \notin f.freed
        BY <2>1, <3>1, <3>3 DEF Gone
      <4>3. ~SoleOwner(f, s.x)
        BY <1>11, <3>1, <3>3, <4>2 DEF Frees
      <4>4. PICK y \in Names \ {s.x} : f.site[y] = f.site[s.x]
        BY <4>1, <4>3 DEF SoleOwner
      <4> QED BY <2>2, <3>1, <3>3, <4>4
    <3> QED BY <3>2, <3>3
  <2>4. \A x \in Names : g.site[x] # 0 => \E n \in 1 .. p : Binds(P[n]) /\ P[n].x = x
    BY <1>6, <2>2 DEF HeldInv
  <2>5. g.left => \A x \in Names \ Outer : g.site[x] = 0
    BY <2>1, <2>2 DEF HeldInv
  <2> QED BY <2>3, <2>4, <2>5 DEF HeldInv
<1>12. CASE s.op = "exit"
  <2>1. /\ g.site = [x \in Names |-> IF x \in Outer THEN f.site[x] ELSE 0]
        /\ g.exits = Held(f, Names \ Outer) \ f.freed
        /\ Gone(g) = Gone(f) \cup g.exits /\ Ctors(P, p) = Ctors(P, p - 1)
    BY <1>1, <1>5, <1>12 DEF Moves
  <2>2. \A r \in Ctors(P, p) : r \in Gone(g) \/ \E x \in Names : g.site[x] = r
    <3> SUFFICES ASSUME NEW r \in Ctors(P, p), r \notin Gone(g)
                 PROVE  \E x \in Names : g.site[x] = r
      OBVIOUS
    <3>1. r # 0 /\ r \notin f.freed
      BY <1>4, <2>1 DEF Gone
    <3>2. PICK x \in Names : f.site[x] = r
      BY <2>1 DEF HeldInv
    <3>3. CASE x \in Outer
      BY <2>1, <3>2, <3>3
    <3>4. CASE x \notin Outer
      <4>1. r \in Held(f, Names \ Outer)
        BY <3>1, <3>2, <3>4 DEF Held
      <4> QED BY <2>1, <3>1, <4>1
    <3> QED BY <3>3, <3>4
  <2>3. \A x \in Names : g.site[x] # 0 => \E n \in 1 .. p : Binds(P[n]) /\ P[n].x = x
    BY <1>6, <2>1 DEF HeldInv
  <2>4. \A x \in Names \ Outer : g.site[x] = 0
    BY <2>1
  <2> QED BY <2>2, <2>3, <2>4 DEF HeldInv
<1> QED BY <1>7, <1>9, <1>10, <1>11, <1>12 DEF Binds

Accounted(hist) ==
  /\ Once(script)
  /\ \A p \in 0 .. Len(script) : HeldInv(hist[p], script, p)

LEMMA WalkAccounts ==
  ASSUME OnceOnly, NEW hist, Walked(hist), Accounted(hist), NEW s \in Stmts, Walk(s),
         NEW more, Walked(more)', \A p \in 0 .. Len(script) : more[p] = hist[p]
  PROVE  Accounted(more)'
<1>1. PICK P : P = script
  OBVIOUS
<1>2. PICK n : n = Len(P)
  OBVIOUS
<1>3. PICK Q : Q = Append(P, s)
  OBVIOUS
<1>4. P \in Seq(Stmts) /\ n \in Nat /\ Q \in Seq(Stmts) /\ Len(Q) = n + 1 /\ Q[n + 1] = s
      /\ \A p \in 1 .. n : Q[p] = P[p]
  BY <1>1, <1>2, <1>3 DEF Walked
<1>5. script' = Q /\ StoredOnce(P, s)
  BY <1>1, <1>3, <1>4 DEF Walk, OnceOnly
<1>6. Once(Q)
  <2> SUFFICES ASSUME NEW p \in 1 .. n + 1, NEW m \in 1 .. p - 1
               PROVE  /\ ~(Binds(Q[p]) /\ Binds(Q[m]) /\ Q[m].x = Q[p].x)
                      /\ Stores(Q[p]) => /\ ~(Stores(Q[m]) /\ Q[m].k = Q[p].k)
                                         /\ Q[p].k + 1 \notin DOMAIN Q[m].entries
    BY <1>4 DEF Once
  <2>1. m \in 1 .. n /\ Q[m] = P[m] /\ m \in DOMAIN P
    <3>1. m \in 1 .. n
      BY <1>4
    <3>2. DOMAIN P = 1 .. n
      BY <1>2, <1>4
    <3> QED BY <1>4, <3>1, <3>2
  <2>2. CASE p = n + 1
    BY <1>4, <1>5, <2>1, <2>2 DEF StoredOnce
  <2>3. CASE p # n + 1
    <3>1. p \in 1 .. n /\ Q[p] = P[p]
      BY <1>4, <2>3
    <3> QED BY <1>1, <1>2, <2>1, <3>1 DEF Accounted, Once
  <2> QED BY <2>2, <2>3
<1>7. ASSUME NEW p \in 0 .. n
      PROVE  HeldInv(more[p], Q, p)
  <2>1. HeldInv(hist[p], P, p) /\ more[p] = hist[p]
    BY <1>1, <1>2 DEF Accounted
  <2>2. \A k \in 1 .. p : Q[k] = P[k]
    BY <1>4
  <2>3. Ctors(Q, p) = Ctors(P, p)
    BY <2>2 DEF Ctors
  <2> QED BY <2>1, <2>2, <2>3 DEF HeldInv
<1>8. HeldInv(more[n + 1], Q, n + 1)
  <2>1. PICK f : f = more[n]
    OBVIOUS
  <2>2. PICK g : g = more[n + 1]
    OBVIOUS
  <2>3. n + 1 \in 1 .. Len(Q) /\ n + 1 \in Nat \ {0} /\ n + 1 - 1 = n /\ n \in 0 .. Len(Q)
    BY <1>4
  <2>4. History(more, Q, facts')
    BY <1>5 DEF Walked
  <2>5. Legal(f, s) /\ g = Judged(f, s, n + 1) /\ FactsInv(f, Q, n)
    BY <1>4, <2>1, <2>2, <2>3, <2>4 DEF History
  <2>6. HeldInv(f, Q, n)
    BY <1>4, <1>7, <2>1
  <2>7. \A m \in 1 .. n : ~(Binds(s) /\ Binds(Q[m]) /\ Q[m].x = s.x)
    BY <1>4, <1>6, <2>3 DEF Once
  <2> QED BY <1>4, <2>2, <2>3, <2>5, <2>6, <2>7, HeldKeeps
<1>9. \A p \in 0 .. Len(Q) : HeldInv(more[p], Q, p)
  <2>1. \A p \in 0 .. Len(Q) : p \in 0 .. n \/ p = n + 1
    BY <1>4
  <2> QED BY <1>7, <1>8, <2>1
<1> QED BY <1>5, <1>6, <1>9 DEF Accounted

(* The tables a run leaves behind.                                         *)
LiveTables == {h \in DOMAIN heap : heap[h].live}
CountInv == count = Cardinality(LiveTables)

Listed(h) == \E n \in DOMAIN todo : todo[n] = h

(* What a free was emitted for is released or about to be.                   *)
GoneInv(f) ==
  \A q \in DOMAIN birth : q \in Gone(f) /\ heap[birth[q]].live => Listed(birth[q])

(* A row without a name lies in a cell of a table with the flag, and is released *)
(* with it.                                                                *)
RowInv ==
  \A h \in DOMAIN heap :
    /\ h \notin Named =>
         Keys(h) = {} /\ \E i \in DOMAIN heap : \E k \in Keys(i) : heap[i].cell[k] = h
    /\ \A k \in Keys(h) :
         /\ heap[h].cell[k] \notin Named => heap[h].deep
         /\ ~heap[h].live /\ heap[h].deep /\ heap[heap[h].cell[k]].live => Listed(heap[h].cell[k])

(* A cell was filled by an entry of a constructor or by a store.               *)
KeyInv(p) ==
  \A h \in DOMAIN heap : \A k \in Keys(h) : \E n \in 1 .. p :
    \/ Stores(script[n]) /\ script[n].k = k
    \/ k + 1 \in DOMAIN script[n].entries

FlagInv ==
  \A q \in DOMAIN birth :
    script[q].x \in Matrices /\ q \in facts.parents => heap[birth[q]].deep

OwnInv(f, p) ==
  /\ CountInv
  /\ GoneInv(f)
  /\ RowInv
  /\ KeyInv(p)
  /\ FlagInv

(* Statements that make no table and store none.                            *)
LEMMA OwnStays ==
  ASSUME NEW f, NEW g, NEW p \in Nat \ {0}, OwnInv(f, p - 1), todo = <<>>,
         UNCHANGED <<script, facts, heap, birth, count>>,
         \A q \in DOMAIN birth : q \in Gone(g) =>
           q \in Gone(f) \/ \E n \in DOMAIN todo' : todo'[n] = birth[q]
  PROVE  OwnInv(g, p)'
<1>1. \A h : ~Listed(h)
  BY DEF Listed
<1>2. LiveTables' = LiveTables /\ Named' = Named /\ \A h : Keys(h)' = Keys(h)
  BY DEF LiveTables, Named, Keys
<1>3. 1 .. p - 1 \subseteq 1 .. p
  OBVIOUS
<1>4. CountInv' /\ FlagInv'
  BY <1>2 DEF OwnInv, CountInv, FlagInv
<1>5. GoneInv(g)'
  BY <1>1 DEF OwnInv, GoneInv, Listed
<1>6. RowInv'
  BY <1>1, <1>2 DEF OwnInv, RowInv, Keys
<1>7. KeyInv(p)'
  BY <1>2, <1>3 DEF OwnInv, KeyInv, Keys
<1> QED BY <1>4, <1>5, <1>6, <1>7 DEF OwnInv

LEMMA AliasOwns ==
  ASSUME NEW hist, NEW p, Walked(hist), pc = p, p # 0, RunInv(hist[p - 1], p - 1),
         OwnInv(hist[p - 1], p - 1), Alias \/ ReadCell
  PROVE  OwnInv(hist[p], p)'
<1>1. PICK f : f = hist[p - 1]
  OBVIOUS
<1>2. PICK g : g = hist[p]
  OBVIOUS
<1>3. Runs(hist, p) /\ script[p].op \in {"alias", "read"} /\ todo = <<>>
  BY StepRuns DEF Alias, ReadCell
<1>4. p \in 1 .. Len(script) /\ p \in Nat \ {0}
  BY <1>3 DEF Runs, Walked
<1>5. Gone(g) = Gone(f)
  <2>1. Moves(script[p], p, f, g)
    BY <1>1, <1>2, <1>4, AtSites
  <2> QED BY <1>3, <2>1 DEF Moves
<1>6. UNCHANGED <<script, facts, heap, birth, count>>
  BY DEF Alias, ReadCell, Step, program
<1>7. OwnInv(f, p - 1)
  BY <1>1
<1> QED BY <1>2, <1>3, <1>4, <1>5, <1>6, <1>7, OwnStays

LEMMA DropOwns ==
  ASSUME NEW hist, NEW p, Walked(hist), pc = p, p # 0, RunInv(hist[p - 1], p - 1),
         OwnInv(hist[p - 1], p - 1), Drop
  PROVE  OwnInv(hist[p], p)'
<1>1. PICK f : f = hist[p - 1]
  OBVIOUS
<1>2. PICK g : g = hist[p]
  OBVIOUS
<1>3. PICK s : s = script[p]
  OBVIOUS
<1>4. Runs(hist, p) /\ S = s /\ s.op = "drop" /\ todo = <<>>
  BY <1>3, StepRuns DEF Drop
<1>5. p \in 1 .. Len(script) /\ p \in Nat \ {0}
  BY <1>4 DEF Runs, Walked
<1>6. s \in Stmts /\ Legal(f, s) /\ FactsInv(f, script, p - 1) /\ (p \in facts.drops <=> Frees(f, s))
  BY <1>1, <1>3, <1>5, AtStatement
<1>7. Gone(g) = Gone(f) \cup (IF Frees(f, s) THEN {f.site[s.x]} ELSE {})
  <2>1. Moves(s, p, f, g)
    BY <1>1, <1>2, <1>3, <1>5, AtSites
  <2> QED BY <1>4, <2>1 DEF Moves
<1>8. /\ UNCHANGED <<script, facts, heap, birth, count>>
      /\ todo' = IF Frees(f, s) THEN <<env[s.x]>> ELSE <<>>
  BY <1>4, <1>5, <1>6 DEF Drop, Step, Runs
<1>9. s.x \in Names /\ Holds(f, s.x)
  BY <1>4, <1>6, StmtForms DEF Legal
<1>10. env[s.x] = birth[f.site[s.x]]
  BY <1>1, <1>6, <1>9, HeldAreLive
<1>11. ASSUME NEW q \in DOMAIN birth, q \in Gone(g), q \notin Gone(f)
       PROVE  \E n \in DOMAIN todo' : todo'[n] = birth[q]
  <2>1. Frees(f, s) /\ q = f.site[s.x]
    BY <1>7, <1>11
  <2>2. todo' = <<birth[q]>>
    BY <1>8, <1>10, <2>1
  <2>3. 1 \in DOMAIN todo' /\ todo'[1] = birth[q]
    BY <2>2
  <2> QED BY <2>3
<1>12. OwnInv(f, p - 1)
  BY <1>1
<1> QED BY <1>2, <1>4, <1>5, <1>8, <1>11, <1>12, OwnStays

LEMMA ExitOwns ==
  ASSUME NEW hist, NEW p, Walked(hist), pc = p, p # 0, RunInv(hist[p - 1], p - 1),
         OwnInv(hist[p - 1], p - 1), Exit
  PROVE  OwnInv(hist[p], p)'
<1>1. PICK f : f = hist[p - 1]
  OBVIOUS
<1>2. PICK g : g = hist[p]
  OBVIOUS
<1>3. PICK s : s = script[p]
  OBVIOUS
<1>4. PICK B : B = {birth[q] : q \in facts.exits}
  OBVIOUS
<1>5. Runs(hist, p) /\ s.op = "exit" /\ todo = <<>>
  BY <1>3, StepRuns DEF Exit
<1>6. p \in 1 .. Len(script) /\ p \in Nat \ {0}
  BY <1>5 DEF Runs, Walked
<1>7. Legal(f, s) /\ FactsInv(f, script, p - 1) /\ FactsInv(g, script, p)
      /\ (g.left => facts.exits = g.exits)
  BY <1>1, <1>2, <1>3, <1>6, AtStatement
<1>8. Gone(g) = Gone(f) \cup facts.exits /\ facts.exits \subseteq Gone(g)
  <2>1. Moves(s, p, f, g)
    BY <1>1, <1>2, <1>3, <1>6, AtSites
  <2> QED BY <1>5, <1>7, <2>1 DEF Moves
<1>9. /\ UNCHANGED <<script, facts, heap, birth, count>>
      /\ todo' = Reverse(Ascending(B))
  BY <1>4 DEF Exit, Step
<1>10. B \in SUBSET Nat /\ IsFiniteSet(B)
  <2>1. BirthInv(p - 1) /\ HeapInv
    BY DEF RunInv
  <2>2. heap \in Seq(Tables) /\ Len(heap) \in Nat /\ DOMAIN heap = 1 .. Len(heap)
    BY <2>1 DEF HeapInv
  <2>3. facts.exits \subseteq Ctors(script, p - 1)
    <3>1. Gone(g) \subseteq Ctors(script, p)
      BY <1>7 DEF FactsInv
    <3> QED BY <1>3, <1>5, <1>6, <1>8, <3>1, SameCtors
  <2>4. B \in SUBSET (1 .. Len(heap))
    BY <1>4, <2>1, <2>2, <2>3 DEF BirthInv
  <2>5. IsFiniteSet(1 .. Len(heap))
    BY <2>2, FS_Interval
  <2>6. IsFiniteSet(B)
    BY <2>4, <2>5, FS_Subset
  <2>7. B \in SUBSET Nat
    BY <2>2, <2>4
  <2> QED BY <2>6, <2>7
<1>11. PICK asc : asc = Ascending(B)
  OBVIOUS
<1>12. asc \in Seq(B) /\ \A b \in B : \E n \in DOMAIN asc : asc[n] = b
  BY <1>10, <1>11, AscendingLists
<1>13. /\ DOMAIN Reverse(asc) = 1 .. Len(asc)
       /\ \A n \in 1 .. Len(asc) : Len(asc) - n + 1 \in 1 .. Len(asc)
                                   /\ Reverse(asc)[n] = asc[Len(asc) - n + 1]
  BY <1>12, ReversedElements
<1>14. ASSUME NEW q \in DOMAIN birth, q \in Gone(g), q \notin Gone(f)
       PROVE  \E n \in DOMAIN todo' : todo'[n] = birth[q]
  <2>1. birth[q] \in B
    BY <1>4, <1>8, <1>14
  <2>2. PICK n \in DOMAIN asc : asc[n] = birth[q]
    BY <1>12, <2>1
  <2>3. n \in 1 .. Len(asc) /\ Len(asc) \in Nat
    BY <1>12, <2>2
  <2>4. PICK m : m = Len(asc) - n + 1
    OBVIOUS
  <2>5. m \in 1 .. Len(asc) /\ Len(asc) - m + 1 = n
    BY <2>3, <2>4
  <2>6. todo' = Reverse(asc)
    BY <1>9, <1>11
  <2> QED BY <1>13, <2>2, <2>5, <2>6
<1>15. OwnInv(f, p - 1)
  BY <1>1
<1> QED BY <1>2, <1>5, <1>6, <1>9, <1>14, <1>15, OwnStays

(* As many tables more as were made.                                       *)
LEMMA MadeAreCounted ==
  ASSUME NEW T, T = LiveTables, CountInv, NEW L \in Nat, NEW R \in Nat, DOMAIN heap = 1 .. L,
         count' = count + R, LiveTables' = T \cup (L + 1 .. L + R)
  PROVE  CountInv'
<1>1. T \subseteq 1 .. L
  BY DEF LiveTables
<1>2. IsFiniteSet(1 .. L) /\ IsFiniteSet(L + 1 .. L + R) /\ Cardinality(L + 1 .. L + R) = R
  <2>1. 1 \in Int /\ L \in Int /\ L + 1 \in Int /\ L + R \in Int
    OBVIOUS
  <2>2. /\ IsFiniteSet(1 .. L) /\ IsFiniteSet(L + 1 .. L + R)
        /\ Cardinality(L + 1 .. L + R) = IF L + 1 > L + R THEN 0 ELSE L + R - (L + 1) + 1
    BY <2>1, FS_Interval
  <2> QED BY <2>2
<1>3. IsFiniteSet(T) /\ Cardinality(T) \in Nat
  BY <1>1, <1>2, FS_Subset, FS_CardinalityType
<1>4. T \cap (L + 1 .. L + R) = {}
  BY <1>1
<1>5. Cardinality(T \cup (L + 1 .. L + R))
        = Cardinality(T) + Cardinality(L + 1 .. L + R) - Cardinality(T \cap (L + 1 .. L + R))
  BY <1>2, <1>3, FS_Union
<1>6. Cardinality(T \cap (L + 1 .. L + R)) = 0
  BY <1>4, FS_EmptySet
<1>7. Cardinality(T \cup (L + 1 .. L + R)) = Cardinality(T) + R
  BY <1>2, <1>3, <1>5, <1>6
<1> QED BY <1>7 DEF CountInv

(* The cell a store fills was empty.                                       *)
LEMMA FreshCell ==
  ASSUME NEW p, Once(script), p \in 1 .. Len(script), KeyInv(p - 1), Stores(script[p]),
         NEW h \in DOMAIN heap
  PROVE  script[p].k \notin Keys(h)
BY DEF KeyInv, Once

LEMMA PutOwns ==
  ASSUME NEW hist, NEW p, Walked(hist), pc = p, p # 0, RunInv(hist[p - 1], p - 1),
         OwnInv(hist[p - 1], p - 1), Once(script), Put
  PROVE  OwnInv(hist[p], p)'
<1>1. PICK f : f = hist[p - 1]
  OBVIOUS
<1>2. PICK g : g = hist[p]
  OBVIOUS
<1>3. PICK s : s = script[p]
  OBVIOUS
<1>4. PICK h : h = env[s.x]
  OBVIOUS
<1>5. PICK row : row = env[s.y]
  OBVIOUS
<1>6. Putting(p, s, f, g, h, row)
  BY <1>1, <1>2, <1>3, <1>4, <1>5, PutStores
<1>7. /\ p \in 1 .. Len(script) /\ s.op = "put" /\ Gone(g) = Gone(f) /\ ~HasInline
      /\ UNCHANGED <<script, facts, env, birth, count, todo>> /\ todo = <<>>
      /\ h \in DOMAIN heap /\ h \in Named /\ row \in Named
      /\ DOMAIN heap' = DOMAIN heap
  BY <1>6 DEF Putting
<1>8. \A i \in DOMAIN heap :
        /\ heap'[i].live = heap[i].live /\ heap'[i].deep = heap[i].deep
        /\ i # h => heap'[i] = heap[i]
        /\ DOMAIN heap'[i].cell = IF i = h THEN Keys(i) \cup {s.k} ELSE Keys(i)
  BY <1>6 DEF Putting
<1>9. \A c \in Keys(h) \cup {s.k} :
        heap'[h].cell[c] = IF c = s.k THEN row ELSE heap[h].cell[c]
  BY <1>6 DEF Putting
<1>10. OwnInv(f, p - 1) /\ CountInv /\ GoneInv(f) /\ RowInv /\ KeyInv(p - 1) /\ FlagInv
  BY <1>1 DEF OwnInv
<1>11. BirthInv(p - 1) /\ KindInv
  BY DEF RunInv
<1>12. s.k \notin Keys(h)
  BY <1>3, <1>7, <1>10, FreshCell DEF Stores
<1>13. /\ \A i \in DOMAIN heap : Keys(i) \subseteq DOMAIN heap'[i].cell
       /\ \A i \in DOMAIN heap : \A k : k \in Keys(i) => heap'[i].cell[k] = heap[i].cell[k]
       /\ \A i \in DOMAIN heap : \A k : k \in DOMAIN heap'[i].cell =>
            k \in Keys(i) \/ (i = h /\ k = s.k /\ heap'[i].cell[k] = row)
  BY <1>7, <1>8, <1>9, <1>12 DEF Keys
<1>14. Named' = Named
  BY <1>7 DEF Named
<1>15. CountInv'
  <2>1. LiveTables' = LiveTables
    BY <1>7, <1>8 DEF LiveTables
  <2> QED BY <1>7, <1>10, <2>1 DEF CountInv
<1>16. GoneInv(g)'
  BY <1>7, <1>8, <1>10, <1>11 DEF GoneInv, BirthInv, Listed
<1>17. FlagInv'
  BY <1>7, <1>8, <1>10, <1>11 DEF FlagInv, BirthInv
<1>18. KeyInv(p)'
  <2> SUFFICES ASSUME NEW i \in DOMAIN heap, NEW k, k \in DOMAIN heap'[i].cell
               PROVE  \E n \in 1 .. p : \/ Stores(script[n]) /\ script[n].k = k
                                        \/ k + 1 \in DOMAIN script[n].entries
    BY <1>7 DEF KeyInv, Keys
  <2>1. CASE k \in Keys(i)
    <3>1. 1 .. p - 1 \subseteq 1 .. p
      BY <1>7
    <3> QED BY <1>10, <2>1, <3>1 DEF KeyInv
  <2>2. CASE k = s.k
    <3>1. p \in 1 .. p /\ Stores(script[p]) /\ script[p].k = k
      BY <1>3, <1>7, <2>2 DEF Stores
    <3> QED BY <3>1
  <2> QED BY <1>13, <2>1, <2>2
<1>19. RowInv'
  <2>1. \A i \in DOMAIN heap : ~heap'[i].deep
    BY <1>7, <1>8, <1>11 DEF KindInv
  <2>2. ASSUME NEW i \in DOMAIN heap, i \notin Named
        PROVE  DOMAIN heap'[i].cell = {}
               /\ \E j \in DOMAIN heap : \E k \in DOMAIN heap'[j].cell : heap'[j].cell[k] = i
    <3>1. Keys(i) = {} /\ \E j \in DOMAIN heap : \E k \in Keys(j) : heap[j].cell[k] = i
      BY <1>10, <2>2 DEF RowInv
    <3>2. i # h
      BY <1>7, <2>2
    <3>3. DOMAIN heap'[i].cell = {}
      BY <1>8, <3>1, <3>2
    <3>4. PICK j \in DOMAIN heap : \E k \in Keys(j) : heap[j].cell[k] = i
      BY <3>1
    <3>5. PICK k \in Keys(j) : heap[j].cell[k] = i
      BY <3>4
    <3>6. k \in DOMAIN heap'[j].cell /\ heap'[j].cell[k] = i
      BY <1>13, <3>5
    <3> QED BY <3>3, <3>6
  <2>3. ASSUME NEW i \in DOMAIN heap, NEW k, k \in DOMAIN heap'[i].cell
        PROVE  heap'[i].cell[k] \in Named
    <3>1. CASE k \in Keys(i)
      <4>1. heap[i].cell[k] \notin Named => heap[i].deep
        BY <1>10, <3>1 DEF RowInv
      <4>2. ~heap[i].deep
        BY <1>7, <1>11 DEF KindInv
      <4> QED BY <1>13, <3>1, <4>1, <4>2
    <3>2. CASE k \notin Keys(i)
      BY <1>7, <1>13, <2>3, <3>2
    <3> QED BY <3>1, <3>2
  <2> QED BY <1>7, <1>14, <2>1, <2>2, <2>3 DEF RowInv, Keys
<1> QED BY <1>2, <1>15, <1>16, <1>17, <1>18, <1>19 DEF OwnInv

(* The matrix an inline row is stored in has the flag.                        *)
LEMMA ParentsAreDeep ==
  ASSUME NEW hist, NEW p, Walked(hist), p \in 1 .. Len(script), p # 0,
         RunInv(hist[p - 1], p - 1), FlagInv, script[p].op = "putnew",
         NEW h, h = env[script[p].x]
  PROVE  h \in DOMAIN heap /\ heap[h].live /\ heap[h].deep
<1>1. PICK f : f = hist[p - 1]
  OBVIOUS
<1>2. PICK g : g = hist[p]
  OBVIOUS
<1>3. PICK s : s = script[p]
  OBVIOUS
<1>4. /\ s \in Stmts /\ Legal(f, s) /\ g = Judged(f, s, p) /\ FactsInv(f, script, p - 1)
      /\ g.parents \subseteq facts.parents
  BY <1>1, <1>2, <1>3, AtStatement
<1>5. s.x \in Matrices /\ s.x \in Names /\ Holds(f, s.x)
  BY <1>3, <1>4, StmtForms DEF Legal
<1>6. /\ f.site[s.x] \in DOMAIN birth /\ h = birth[f.site[s.x]]
      /\ h \in DOMAIN heap /\ heap[h].live
  BY <1>1, <1>3, <1>4, <1>5, HeldAreLive
<1>7. f.site[s.x] \in facts.parents
  <2>1. g.parents = f.parents \cup Marked(f, s)
    BY <1>4 DEF Judged
  <2>2. f.site[s.x] \in Marked(f, s)
    BY <1>3 DEF Marked
  <2> QED BY <1>4, <2>1, <2>2
<1>8. script[f.site[s.x]].x \in Matrices
  BY <1>4, <1>5 DEF FactsInv, Holds
<1> QED BY <1>6, <1>7, <1>8 DEF FlagInv

LEMMA PutNewOwns ==
  ASSUME NEW hist, NEW p, Walked(hist), pc = p, p # 0, RunInv(hist[p - 1], p - 1),
         OwnInv(hist[p - 1], p - 1), Once(script), PutNew
  PROVE  OwnInv(hist[p], p)'
<1>1. PICK f : f = hist[p - 1]
  OBVIOUS
<1>2. PICK g : g = hist[p]
  OBVIOUS
<1>3. PICK s : s = script[p]
  OBVIOUS
<1>4. PICK h : h = env[s.x]
  OBVIOUS
<1>5. PICK L : L = Len(heap)
  OBVIOUS
<1>6. PuttingNew(p, s, f, g, h, L)
  BY <1>1, <1>2, <1>3, <1>4, <1>5, PutNewStores
<1>7. /\ p \in 1 .. Len(script) /\ s.op = "putnew" /\ Gone(g) = Gone(f)
      /\ UNCHANGED <<script, facts, env, birth, todo>> /\ todo = <<>> /\ count' = count + 1
      /\ h \in DOMAIN heap /\ h \in Named
      /\ L \in Nat /\ DOMAIN heap = 1 .. L
  BY <1>6 DEF PuttingNew
<1>8. /\ L + 1 \notin DOMAIN heap /\ L + 1 \in DOMAIN heap' /\ DOMAIN heap \subseteq DOMAIN heap'
      /\ \A i \in DOMAIN heap' : i \in DOMAIN heap \/ i = L + 1
      /\ heap'[L + 1].live /\ DOMAIN heap'[L + 1].cell = {}
  BY <1>6 DEF PuttingNew
<1>9. \A i \in DOMAIN heap :
        /\ heap'[i].live = heap[i].live /\ heap'[i].deep = heap[i].deep
        /\ i # h => heap'[i] = heap[i]
        /\ DOMAIN heap'[i].cell = IF i = h THEN Keys(i) \cup {s.k} ELSE Keys(i)
  BY <1>6 DEF PuttingNew
<1>10. \A c \in Keys(h) \cup {s.k} :
         heap'[h].cell[c] = IF c = s.k THEN L + 1 ELSE heap[h].cell[c]
  BY <1>6 DEF PuttingNew
<1>11. OwnInv(f, p - 1) /\ CountInv /\ GoneInv(f) /\ RowInv /\ KeyInv(p - 1) /\ FlagInv
  BY <1>1 DEF OwnInv
<1>12. BirthInv(p - 1) /\ HeapInv
  BY DEF RunInv
<1>13. s.k \notin Keys(h)
  BY <1>3, <1>7, <1>11, FreshCell DEF Stores
<1>14. heap[h].deep /\ heap[h].live
  BY <1>3, <1>4, <1>7, <1>11, ParentsAreDeep
<1>15. /\ \A i \in DOMAIN heap : \A k : k \in Keys(i) =>
            k \in DOMAIN heap'[i].cell /\ heap'[i].cell[k] = heap[i].cell[k]
       /\ \A i \in DOMAIN heap : \A k : k \in DOMAIN heap'[i].cell =>
            k \in Keys(i) \/ (i = h /\ k = s.k)
       /\ s.k \in DOMAIN heap'[h].cell /\ heap'[h].cell[s.k] = L + 1
  BY <1>7, <1>9, <1>10, <1>13 DEF Keys
<1>16. Named' = Named /\ L + 1 \notin Named
  BY <1>7, <1>8, <1>12, NamedAreMade DEF Named
<1>17. CountInv'
  <2>1. PICK T : T = LiveTables
    OBVIOUS
  <2>2. L + 1 .. L + 1 = {L + 1} /\ 1 \in Nat
    BY <1>7
  <2>3. LiveTables' = T \cup {L + 1}
    BY <1>8, <1>9, <2>1 DEF LiveTables
  <2>4. LiveTables' = T \cup (L + 1 .. L + 1)
    BY <2>2, <2>3
  <2> QED BY <1>7, <1>11, <2>1, <2>2, <2>4, MadeAreCounted
<1>18. GoneInv(g)'
  BY <1>7, <1>9, <1>11, <1>12 DEF GoneInv, BirthInv, Listed
<1>19. FlagInv'
  BY <1>7, <1>9, <1>11, <1>12 DEF FlagInv, BirthInv
<1>20. KeyInv(p)'
  <2> SUFFICES ASSUME NEW i \in DOMAIN heap', NEW k, k \in DOMAIN heap'[i].cell
               PROVE  \E n \in 1 .. p : \/ Stores(script[n]) /\ script[n].k = k
                                        \/ k + 1 \in DOMAIN script[n].entries
    BY <1>7 DEF KeyInv, Keys
  <2>1. i \in DOMAIN heap
    BY <1>8
  <2>2. CASE k \in Keys(i)
    <3>1. 1 .. p - 1 \subseteq 1 .. p
      BY <1>7
    <3> QED BY <1>11, <2>1, <2>2, <3>1 DEF KeyInv
  <2>3. CASE k = s.k
    <3>1. p \in 1 .. p /\ Stores(script[p]) /\ script[p].k = k
      BY <1>3, <1>7, <2>3 DEF Stores
    <3> QED BY <3>1
  <2> QED BY <1>15, <2>1, <2>2, <2>3
<1>21. RowInv'
  <2>1. ASSUME NEW i \in DOMAIN heap', i \notin Named
        PROVE  DOMAIN heap'[i].cell = {}
               /\ \E j \in DOMAIN heap' : \E k \in DOMAIN heap'[j].cell : heap'[j].cell[k] = i
    <3>1. CASE i = L + 1
      BY <1>7, <1>8, <1>15, <3>1
    <3>2. CASE i \in DOMAIN heap
      <4>1. Keys(i) = {} /\ \E j \in DOMAIN heap : \E k \in Keys(j) : heap[j].cell[k] = i
        BY <1>11, <2>1, <3>2 DEF RowInv
      <4>2. i # h
        BY <1>7, <2>1
      <4>3. DOMAIN heap'[i].cell = {}
        BY <1>9, <3>2, <4>1, <4>2
      <4>4. PICK j \in DOMAIN heap : \E k \in Keys(j) : heap[j].cell[k] = i
        BY <4>1
      <4>5. PICK k \in Keys(j) : heap[j].cell[k] = i
        BY <4>4
      <4>6. j \in DOMAIN heap' /\ k \in DOMAIN heap'[j].cell /\ heap'[j].cell[k] = i
        BY <1>8, <1>15, <4>5
      <4> QED BY <4>3, <4>6
    <3> QED BY <1>8, <3>1, <3>2
  <2>2. ASSUME NEW i \in DOMAIN heap', NEW k, k \in DOMAIN heap'[i].cell
        PROVE  /\ heap'[i].cell[k] \notin Named => heap'[i].deep
               /\ ~(~heap'[i].live /\ heap'[i].deep /\ heap'[heap'[i].cell[k]].live)
    <3>1. i \in DOMAIN heap
      BY <1>8, <2>2
    <3>2. CASE k \in Keys(i)
      <4>1. /\ heap[i].cell[k] \notin Named => heap[i].deep
            /\ ~(~heap[i].live /\ heap[i].deep /\ heap[heap[i].cell[k]].live)
        BY <1>7, <1>11, <3>1, <3>2 DEF RowInv, Listed
      <4>2. heap[i].cell[k] \in DOMAIN heap
        BY <1>12, <3>1, <3>2 DEF HeapInv
      <4>3. heap'[i].cell[k] = heap[i].cell[k]
        BY <1>15, <3>1, <3>2
      <4> QED BY <1>9, <3>1, <4>1, <4>2, <4>3
    <3>3. CASE i = h
      BY <1>7, <1>9, <1>14, <3>3
    <3> QED BY <1>15, <2>2, <3>1, <3>2, <3>3
  <2> QED BY <1>16, <2>1, <2>2 DEF RowInv, Keys
<1> QED BY <1>2, <1>17, <1>18, <1>19, <1>20, <1>21 DEF OwnInv

LEMMA FreeOwns ==
  ASSUME NEW f, NEW p, RunInv(f, p), OwnInv(f, p), FreeTable
  PROVE  OwnInv(f, p)'
<1>1. PICK h : h = Head(todo)
  OBVIOUS
<1>2. PICK kids : kids = Children(heap[h])
  OBVIOUS
<1>3. Freeing(h, kids)
  BY <1>1, <1>2, FreeMoves
<1>4. /\ todo # <<>> /\ UNCHANGED <<script, facts, birth>> /\ count' = count - 1
      /\ todo \in Seq(DOMAIN heap) /\ 1 \in DOMAIN todo /\ h = todo[1] /\ h \in DOMAIN heap
      /\ heap[h].live /\ ~heap'[h].live
      /\ DOMAIN heap' = DOMAIN heap
      /\ todo' = kids \o Tail(todo)
  BY <1>3 DEF Freeing
<1>5. \A i \in DOMAIN heap :
        /\ heap'[i].deep = heap[i].deep /\ heap'[i].cell = heap[i].cell
        /\ i # h => heap'[i].live = heap[i].live
  BY <1>3 DEF Freeing
<1>6. /\ kids \in Seq(DOMAIN heap)
      /\ heap[h].deep => \A k \in Keys(h) : \E n \in DOMAIN kids : kids[n] = heap[h].cell[k]
  BY <1>3 DEF Freeing, RowsOf
<1>7. /\ \A n \in DOMAIN kids : n \in DOMAIN todo' /\ todo'[n] = kids[n]
      /\ \A n \in DOMAIN todo \ {1} : n - 1 + Len(kids) \in DOMAIN todo'
                                      /\ todo'[n - 1 + Len(kids)] = todo[n]
  BY <1>4, <1>6, StackElements
<1>8. CountInv /\ GoneInv(f) /\ RowInv /\ KeyInv(p) /\ FlagInv /\ BirthInv(p) /\ HeapInv
  BY DEF OwnInv, RunInv
<1>9. /\ \A i \in DOMAIN heap : Keys(i)' = Keys(i)
      /\ Named' = Named
  BY <1>4, <1>5 DEF Keys, Named
<1>10. ASSUME NEW i, Listed(i), i # h
       PROVE  \E n \in DOMAIN todo' : todo'[n] = i
  <2>1. PICK n \in DOMAIN todo : todo[n] = i
    BY <1>10 DEF Listed
  <2>2. n \in DOMAIN todo \ {1}
    BY <1>4, <1>10, <2>1
  <2> QED BY <1>7, <2>1, <2>2
<1>11. CountInv'
  <2>1. PICK T : T = LiveTables
    OBVIOUS
  <2>2. LiveTables' = T \ {h} /\ h \in T
    BY <1>4, <1>5, <2>1 DEF LiveTables
  <2>3. IsFiniteSet(T)
    <3>1. DOMAIN heap = 1 .. Len(heap) /\ Len(heap) \in Nat
      BY <1>8 DEF HeapInv
    <3>2. IsFiniteSet(1 .. Len(heap))
      BY <3>1, FS_Interval
    <3>3. T \in SUBSET (1 .. Len(heap))
      BY <2>1, <3>1 DEF LiveTables
    <3> QED BY <3>2, <3>3, FS_Subset
  <2>4. Cardinality(T \ {h}) = Cardinality(T) - 1
    BY <2>2, <2>3, FS_RemoveElement
  <2> QED BY <1>4, <1>8, <2>1, <2>2, <2>4 DEF CountInv
<1>12. GoneInv(f)'
  <2> SUFFICES ASSUME NEW q \in DOMAIN birth, q \in Gone(f), heap'[birth[q]].live
               PROVE  \E n \in DOMAIN todo' : todo'[n] = birth[q]
    BY <1>4 DEF GoneInv, Listed
  <2>1. birth[q] \in DOMAIN heap /\ birth[q] # h
    BY <1>4, <1>8 DEF BirthInv
  <2>2. Listed(birth[q])
    BY <1>5, <1>8, <2>1 DEF GoneInv
  <2> QED BY <1>10, <2>1, <2>2
<1>13. FlagInv'
  BY <1>4, <1>5, <1>8 DEF FlagInv, BirthInv
<1>14. KeyInv(p)'
  BY <1>4, <1>8, <1>9 DEF KeyInv
<1>15. RowInv'
  <2>1. ASSUME NEW i \in DOMAIN heap, NEW k \in Keys(i),
               ~heap'[i].live, heap'[i].deep, heap'[heap[i].cell[k]].live
        PROVE  \E n \in DOMAIN todo' : todo'[n] = heap[i].cell[k]
    <3>1. heap[i].cell[k] \in DOMAIN heap
      BY <1>8 DEF HeapInv
    <3>2. heap[i].cell[k] # h
      BY <1>4, <2>1
    <3>3. CASE i = h
      <4>1. PICK n \in DOMAIN kids : kids[n] = heap[i].cell[k]
        BY <1>5, <1>6, <2>1, <3>3
      <4> QED BY <1>7, <4>1
    <3>4. CASE i # h
      <4>1. ~heap[i].live /\ heap[i].deep /\ heap[heap[i].cell[k]].live
        BY <1>5, <2>1, <3>1, <3>2, <3>4
      <4>2. Listed(heap[i].cell[k])
        BY <1>8, <4>1 DEF RowInv
      <4> QED BY <1>10, <3>2, <4>2
    <3> QED BY <3>3, <3>4
  <2>2. ASSUME NEW i \in DOMAIN heap, i \notin Named
        PROVE  Keys(i) = {} /\ \E j \in DOMAIN heap : \E k \in Keys(j) : heap'[j].cell[k] = i
    BY <1>5, <1>8, <2>2 DEF RowInv
  <2>3. \A i \in DOMAIN heap : \A k \in Keys(i) : heap[i].cell[k] \notin Named => heap'[i].deep
    BY <1>5, <1>8 DEF RowInv
  <2>4. ASSUME NEW i \in DOMAIN heap', NEW k \in DOMAIN heap'[i].cell
        PROVE  /\ heap'[i].cell[k] \notin Named => heap'[i].deep
               /\ ~heap'[i].live /\ heap'[i].deep /\ heap'[heap'[i].cell[k]].live
                  => \E n \in DOMAIN todo' : todo'[n] = heap'[i].cell[k]
    <3>1. i \in DOMAIN heap /\ k \in Keys(i) /\ heap'[i].cell[k] = heap[i].cell[k]
      BY <1>4, <1>5, <2>4 DEF Keys
    <3> QED BY <2>1, <2>3, <3>1
  <2>5. ASSUME NEW i \in DOMAIN heap', i \notin Named
        PROVE  /\ DOMAIN heap'[i].cell = {}
               /\ \E j \in DOMAIN heap' : \E k \in DOMAIN heap'[j].cell : heap'[j].cell[k] = i
    BY <1>4, <1>5, <2>2, <2>5 DEF Keys
  <2> QED BY <1>9, <2>4, <2>5 DEF RowInv, Listed, Keys
<1> QED BY <1>11, <1>12, <1>13, <1>14, <1>15 DEF OwnInv

LEMMA CtorOwns ==
  ASSUME NEW hist, NEW p, Walked(hist), pc = p, p # 0, RunInv(hist[p - 1], p - 1),
         OwnInv(hist[p - 1], p - 1), Ctor
  PROVE  OwnInv(hist[p], p)'
<1>1. PICK f : f = hist[p - 1]
  OBVIOUS
<1>2. PICK g : g = hist[p]
  OBVIOUS
<1>3. PICK s : s = script[p]
  OBVIOUS
<1>4. PICK L : L = Len(heap)
  OBVIOUS
<1>5. PICK R : R = Rank(s, Len(s.entries))
  OBVIOUS
<1>6. PICK cell : cell = EntryCells(s)
  OBVIOUS
<1>7. PICK made : made = L + R + 1
  OBVIOUS
<1>8. Runs(hist, p) /\ S = s /\ s.op = "ctor" /\ todo = <<>>
  BY <1>3, StepRuns DEF Ctor
<1>9. p \in 1 .. Len(script) /\ p \in Nat \ {0}
  BY <1>8 DEF Runs, Walked
<1>10. s \in Stmts /\ s.entries \in Seq(Rows \cup {"inline"}) /\ FactsInv(f, script, p - 1)
  <2>1. s \in Stmts /\ FactsInv(f, script, p - 1)
    BY <1>1, <1>3, <1>9, AtStatement
  <2> QED BY <2>1, StmtForms
<1>11. Gone(g) = Gone(f) /\ p \notin Gone(g)
  <2>1. Moves(s, p, f, g)
    BY <1>1, <1>2, <1>3, <1>9, AtSites
  <2>2. p \notin Ctors(script, p - 1)
    BY <1>9 DEF Ctors
  <2> QED BY <1>8, <1>10, <2>1, <2>2 DEF Moves, FactsInv
<1>12. Making(p, s, L, R, cell)
  BY <1>3, <1>4, <1>5, <1>6, <1>8, CtorTables
<1>13. /\ L \in Nat /\ R \in Nat /\ DOMAIN heap = 1 .. L
       /\ DOMAIN heap' = 1 .. L + R + 1
       /\ \A n \in 1 .. L : heap'[n] = heap[n]
       /\ \A n \in L + 1 .. L + R : heap'[n] = NewRow
       /\ DOMAIN cell = 0 .. Len(s.entries) - 1 /\ Len(s.entries) \in Nat
       /\ \A c \in DOMAIN cell :
            \/ s.entries[c + 1] = "inline"
            \/ cell[c] \in DOMAIN heap /\ cell[c] \in Named
       /\ \A r \in L + 1 .. L + R : \E c \in DOMAIN cell : cell[c] = r
  BY <1>12 DEF Making
<1>14. PICK deep \in BOOLEAN :
         /\ heap'[L + R + 1] = Fresh(deep, cell)
         /\ deep = (s.x \in Matrices /\ (Contains(s.entries, "inline") \/ p \in facts.parents))
  BY <1>12 DEF Making
<1>15. heap'[made].live /\ heap'[made].deep = deep /\ heap'[made].cell = cell
  BY <1>7, <1>14 DEF Fresh, Table
<1>16. NewRow.live /\ ~NewRow.deep /\ DOMAIN NewRow.cell = {}
  BY DEF NewRow, Fresh, Table
<1>17. /\ DOMAIN heap' = 1 .. made /\ made \in 1 .. made /\ made \in Nat /\ made \notin 1 .. L
       /\ \A i \in 1 .. made : i \in 1 .. L \/ i \in L + 1 .. L + R \/ i = made
       /\ \A i \in 1 .. L : i \in 1 .. made /\ i # made
       /\ \A i \in L + 1 .. L + R : i \in 1 .. made /\ i # made /\ i \notin 1 .. L
  BY <1>7, <1>13
<1>18. /\ UNCHANGED <<script, facts, todo>>
       /\ count' = count + R + 1
       /\ birth' = [q \in DOMAIN birth \cup {p} |-> IF q = p THEN made ELSE birth[q]]
  <2>1. UNCHANGED <<script, facts, todo>>
    BY DEF Ctor, Step
  <2> QED BY <1>4, <1>5, <1>7, <1>8, <1>10, <2>1, CtorMakes
<1>19. BirthInv(p - 1) /\ HeapInv
  BY DEF RunInv
<1>20. /\ p \notin DOMAIN birth
       /\ \A q \in DOMAIN birth : birth[q] \in 1 .. L
  BY <1>9, <1>13, <1>19 DEF BirthInv, Ctors
<1>21. Named' = Named \cup {made} /\ Named \subseteq 1 .. L
  BY <1>18, <1>20 DEF Named
<1>22. CountInv /\ GoneInv(f) /\ RowInv /\ KeyInv(p - 1) /\ FlagInv
  BY <1>1 DEF OwnInv
<1>23. CountInv'
  <2>1. PICK T : T = LiveTables
    OBVIOUS
  <2>2. L + 1 .. L + (R + 1) = (L + 1 .. L + R) \cup {made} /\ R + 1 \in Nat
    BY <1>7, <1>13
  <2>3. LiveTables' = T \cup ((L + 1 .. L + R) \cup {made})
    BY <1>13, <1>15, <1>16, <1>17, <2>1 DEF LiveTables
  <2>4. LiveTables' = T \cup (L + 1 .. L + (R + 1))
    BY <2>2, <2>3
  <2>5. count' = count + (R + 1)
    <3>1. count \in Nat
      <4>1. IsFiniteSet(1 .. L) /\ LiveTables \in SUBSET (1 .. L)
        BY <1>13, FS_Interval DEF LiveTables
      <4>2. IsFiniteSet(LiveTables)
        BY <4>1, FS_Subset
      <4> QED BY <1>22, <4>2, FS_CardinalityType DEF CountInv
    <3> QED BY <1>13, <1>18, <3>1
  <2> QED BY <1>13, <1>22, <2>1, <2>2, <2>4, <2>5, MadeAreCounted
<1>24. GoneInv(g)'
  <2> SUFFICES ASSUME NEW q \in DOMAIN birth', q \in Gone(g)
               PROVE  ~heap'[birth'[q]].live
    BY DEF GoneInv
  <2>1. q \in DOMAIN birth /\ birth'[q] = birth[q] /\ birth[q] \in 1 .. L
    BY <1>11, <1>18, <1>20
  <2>2. ~heap[birth[q]].live
    BY <1>8, <1>11, <1>22, <2>1 DEF GoneInv, Listed
  <2> QED BY <1>13, <2>1, <2>2
<1>25. FlagInv'
  <2> SUFFICES ASSUME NEW q \in DOMAIN birth', script[q].x \in Matrices, q \in facts.parents
               PROVE  heap'[birth'[q]].deep
    BY <1>18 DEF FlagInv
  <2>1. CASE q = p
    BY <1>3, <1>14, <1>15, <1>18, <2>1
  <2>2. CASE q # p
    <3>1. q \in DOMAIN birth /\ birth'[q] = birth[q] /\ birth[q] \in 1 .. L
      BY <1>18, <1>20, <2>2
    <3> QED BY <1>13, <1>22, <3>1 DEF FlagInv
  <2> QED BY <2>1, <2>2
<1>26. KeyInv(p)'
  <2> SUFFICES ASSUME NEW i \in 1 .. made, NEW k, k \in DOMAIN heap'[i].cell
               PROVE  \E n \in 1 .. p : \/ Stores(script[n]) /\ script[n].k = k
                                        \/ k + 1 \in DOMAIN script[n].entries
    BY <1>17, <1>18 DEF KeyInv, Keys
  <2>1. CASE i \in 1 .. L
    <3>1. i \in DOMAIN heap /\ k \in Keys(i)
      BY <1>13, <2>1 DEF Keys
    <3>2. 1 .. p - 1 \subseteq 1 .. p
      BY <1>9
    <3> QED BY <1>22, <3>1, <3>2 DEF KeyInv
  <2>2. CASE i \in L + 1 .. L + R
    BY <1>13, <1>16, <2>2
  <2>3. CASE i = made
    <3>1. k \in 0 .. Len(s.entries) - 1
      BY <1>13, <1>15, <2>3
    <3>2. k + 1 \in DOMAIN script[p].entries
      BY <1>3, <1>10, <1>13, <3>1
    <3>3. p \in 1 .. p
      BY <1>9
    <3> QED BY <3>2, <3>3
  <2> QED BY <1>17, <2>1, <2>2, <2>3
<1>27. RowInv'
  <2>1. ASSUME NEW i \in 1 .. made, i \notin Named'
        PROVE  DOMAIN heap'[i].cell = {}
               /\ \E j \in 1 .. made : \E k \in DOMAIN heap'[j].cell : heap'[j].cell[k] = i
    <3>1. i # made /\ i \notin Named
      BY <1>21, <2>1
    <3>2. CASE i \in 1 .. L
      <4>1. Keys(i) = {} /\ \E j \in DOMAIN heap : \E k \in Keys(j) : heap[j].cell[k] = i
        BY <1>13, <1>22, <3>1, <3>2 DEF RowInv
      <4>2. PICK j \in DOMAIN heap : \E k \in Keys(j) : heap[j].cell[k] = i
        BY <4>1
      <4>3. j \in 1 .. made /\ heap'[j] = heap[j] /\ heap'[i] = heap[i]
        BY <1>13, <1>17, <3>2, <4>2
      <4> QED BY <4>1, <4>2, <4>3 DEF Keys
    <3>3. CASE i \in L + 1 .. L + R
      <4>1. DOMAIN heap'[i].cell = {}
        BY <1>13, <1>16, <3>3
      <4>2. PICK c \in DOMAIN cell : cell[c] = i
        BY <1>13, <3>3
      <4> QED BY <1>15, <1>17, <4>1, <4>2
    <3> QED BY <1>17, <3>1, <3>2, <3>3
  <2>2. ASSUME NEW i \in 1 .. made, NEW k, k \in DOMAIN heap'[i].cell
        PROVE  /\ heap'[i].cell[k] \notin Named' => heap'[i].deep
               /\ ~(~heap'[i].live /\ heap'[i].deep /\ heap'[heap'[i].cell[k]].live)
    <3>1. CASE i \in 1 .. L
      <4>1. i \in DOMAIN heap /\ k \in Keys(i) /\ heap'[i] = heap[i]
        BY <1>13, <2>2, <3>1 DEF Keys
      <4>2. /\ heap[i].cell[k] \notin Named => heap[i].deep
            /\ ~(~heap[i].live /\ heap[i].deep /\ heap[heap[i].cell[k]].live)
        BY <1>8, <1>22, <4>1 DEF RowInv, Listed
      <4>3. heap[i].cell[k] \in 1 .. L
        BY <1>13, <1>19, <4>1 DEF HeapInv
      <4>4. heap'[heap[i].cell[k]] = heap[heap[i].cell[k]]
        BY <1>13, <4>3
      <4> QED BY <1>21, <4>1, <4>2, <4>4
    <3>2. CASE i \in L + 1 .. L + R
      BY <1>13, <1>16, <2>2, <3>2
    <3>3. CASE i = made
      <4>1. k \in DOMAIN cell /\ heap'[i].cell[k] = cell[k] /\ heap'[i].live
        BY <1>15, <2>2, <3>3
      <4>2. cell[k] \notin Named => heap'[i].deep
        <5> SUFFICES ASSUME cell[k] \notin Named
                     PROVE  deep
          BY <1>15, <3>3
        <5>1. s.entries[k + 1] = "inline" /\ k + 1 \in DOMAIN s.entries
          BY <1>10, <1>13, <4>1
        <5>2. Contains(s.entries, "inline")
          BY <1>10, <5>1 DEF Contains
        <5>3. s.x \in Matrices
          <6>1. s.entries # <<>>
            BY <1>10, <5>1
          <6> QED BY <1>8, <1>10, <6>1, StmtsAssumption
        <5> QED BY <1>14, <5>2, <5>3
      <4> QED BY <1>21, <4>1, <4>2
    <3> QED BY <1>17, <3>1, <3>2, <3>3
  <2>3. \A i \in DOMAIN heap' : \A k \in DOMAIN heap'[i].cell :
          /\ heap'[i].cell[k] \notin Named' => heap'[i].deep
          /\ ~(~heap'[i].live /\ heap'[i].deep /\ heap'[heap'[i].cell[k]].live)
    BY <1>17, <2>2
  <2>4. \A i \in DOMAIN heap' : i \notin Named' =>
          /\ DOMAIN heap'[i].cell = {}
          /\ \E j \in DOMAIN heap' : \E k \in DOMAIN heap'[j].cell : heap'[j].cell[k] = i
    BY <1>17, <2>1
  <2> QED BY <2>3, <2>4 DEF RowInv, Keys
<1> QED BY <1>2, <1>23, <1>24, <1>25, <1>26, <1>27 DEF OwnInv

CountWith(hist) ==
  /\ InvWith(hist)
  /\ Accounted(hist)
  /\ pc # 0 => facts.left /\ OwnInv(hist[pc - 1], pc - 1)

CountDeep == \E hist : CountWith(hist)

LEMMA InitCounts ==
  ASSUME Init
  PROVE  CountDeep
<1>1. PICK hist : InvWith(hist)
  BY InitDeep DEF DeepInv
<1>2. script = <<>> /\ Len(script) = 0 /\ pc = 0 /\ facts = NoFacts
  BY DEF Init
<1>3. hist[0] = NoFacts
  BY <1>1 DEF InvWith, Walked, History
<1>4. Once(script)
  BY <1>2 DEF Once
<1>5. \A p \in 0 .. Len(script) : HeldInv(hist[p], script, p)
  <2>1. \A p \in 0 .. 0 : p = 0
    OBVIOUS
  <2> QED BY <1>2, <1>3, <2>1, HeldStart
<1> QED BY <1>1, <1>2, <1>4, <1>5 DEF CountDeep, CountWith, Accounted

LEMMA StartCounts ==
  ASSUME NEW hist, CountWith(hist), Start
  PROVE  CountWith(hist)'
<1>1. InvWith(hist) /\ Accounted(hist)
  BY DEF CountWith
<1>2. InvWith(hist)'
  BY <1>1, StartDeep
<1>3. /\ pc' = 1 /\ facts.left /\ Untouched /\ hist[0] = NoFacts
      /\ UNCHANGED <<script, facts, env, birth, heap, count, todo>>
  BY <1>1 DEF Start, program, InvWith, Walked, History
<1>4. heap' = <<>> /\ DOMAIN heap' = {} /\ count' = 0 /\ DOMAIN birth' = {}
  BY <1>3 DEF Untouched
<1>5. CountInv'
  <2>1. LiveTables' = {}
    BY <1>4 DEF LiveTables
  <2> QED BY <1>4, <2>1, FS_EmptySet DEF CountInv
<1>6. OwnInv(NoFacts, 0)'
  BY <1>4, <1>5 DEF OwnInv, GoneInv, RowInv, KeyInv, FlagInv
<1>7. Accounted(hist)'
  BY <1>1, <1>3 DEF Accounted
<1> QED BY <1>2, <1>3, <1>6, <1>7 DEF CountWith

LEMMA StatementCounts ==
  ASSUME NEW hist, CountWith(hist),
         Ctor \/ Alias \/ Put \/ PutNew \/ ReadCell \/ Drop \/ Exit
  PROVE  CountWith(hist)'
<1>1. InvWith(hist) /\ Accounted(hist) /\ Walked(hist) /\ Once(script)
  BY DEF CountWith, InvWith, Accounted
<1>2. InvWith(hist)'
  BY <1>1, StatementDeep
<1>3. pc \in DOMAIN script /\ Step
  BY DEF Ctor, Alias, Put, PutNew, ReadCell, Drop, Exit, At
<1>4. PICK p : p = pc
  OBVIOUS
<1>5. /\ p \in 1 .. Len(script) /\ p # 0
      /\ pc' = p + 1 /\ UNCHANGED <<script, facts>> /\ p + 1 - 1 = p /\ p + 1 # 0
  BY <1>1, <1>3, <1>4 DEF Step, Walked
<1>6. facts.left /\ OwnInv(hist[p - 1], p - 1) /\ RunInv(hist[p - 1], p - 1)
  BY <1>1, <1>4, <1>5 DEF CountWith, InvWith
<1>7. OwnInv(hist[p], p)'
  BY <1>1, <1>4, <1>5, <1>6, CtorOwns, AliasOwns, PutOwns, PutNewOwns, DropOwns, ExitOwns
<1>8. Accounted(hist)'
  BY <1>1, <1>5 DEF Accounted
<1> QED BY <1>2, <1>5, <1>6, <1>7, <1>8 DEF CountWith

LEMMA FreeCounts ==
  ASSUME NEW hist, CountWith(hist), FreeTable
  PROVE  CountWith(hist)'
<1>1. InvWith(hist) /\ Accounted(hist)
  BY DEF CountWith
<1>2. InvWith(hist)'
  BY <1>1, FreeDeep
<1>3. UNCHANGED <<script, facts, pc>> /\ todo # <<>>
  BY DEF FreeTable
<1>4. PICK p : p = pc
  OBVIOUS
<1>5. p # 0
  BY <1>1, <1>3, <1>4 DEF InvWith, Untouched
<1>6. facts.left /\ OwnInv(hist[p - 1], p - 1) /\ RunInv(hist[p - 1], p - 1)
  BY <1>1, <1>4, <1>5 DEF CountWith, InvWith
<1>7. OwnInv(hist[p - 1], p - 1)'
  BY <1>6, FreeOwns
<1>8. Accounted(hist)'
  BY <1>1, <1>3 DEF Accounted
<1> QED BY <1>2, <1>3, <1>4, <1>6, <1>7, <1>8 DEF CountWith

LEMMA WalkCounts ==
  ASSUME OneKindOnly, OnceOnly, NEW hist, CountWith(hist), NEW s \in Stmts, Walk(s)
  PROVE  CountDeep'
<1>1. InvWith(hist) /\ Accounted(hist) /\ Walked(hist)
  BY DEF CountWith, InvWith
<1>2. PICK more : InvWith(more)' /\ \A p \in 0 .. Len(script) : more[p] = hist[p]
  BY <1>1, WalkDeep
<1>3. Walked(more)'
  BY <1>2 DEF InvWith
<1>4. Accounted(more)'
  BY <1>1, <1>2, <1>3, WalkAccounts
<1>5. pc' = 0
  BY DEF Walk
<1>6. CountWith(more)'
  BY <1>2, <1>4, <1>5 DEF CountWith
<1> QED BY <1>6 DEF CountDeep

LEMMA CountSteps ==
  ASSUME OneKindOnly, OnceOnly, CountDeep, [Next]_vars
  PROVE  CountDeep'
<1>1. PICK hist : CountWith(hist)
  BY DEF CountDeep
<1>2. CASE \E s \in Stmts : Walk(s)
  BY <1>1, <1>2, WalkCounts
<1>3. CASE Start
  BY <1>1, <1>3, StartCounts DEF CountDeep
<1>4. CASE Ctor \/ Alias \/ Put \/ PutNew \/ ReadCell \/ Drop \/ Exit
  BY <1>1, <1>4, StatementCounts DEF CountDeep
<1>5. CASE FreeTable
  BY <1>1, <1>5, FreeCounts DEF CountDeep
<1>6. CASE UNCHANGED vars
  <2>1. UNCHANGED <<script, facts, pc, env, birth, heap, count, todo>>
    BY <1>6 DEF vars, program
  <2>2. InvWith(hist)'
    BY <1>1, <1>6, IdleDeep DEF CountWith
  <2>3. Accounted(hist)'
    BY <1>1, <2>1 DEF CountWith, Accounted
  <2>4. PICK p : p = pc
    OBVIOUS
  <2>5. OwnInv(hist[p - 1], p - 1) => OwnInv(hist[p - 1], p - 1)'
    BY <2>1 DEF OwnInv, CountInv, LiveTables, GoneInv, RowInv, KeyInv, FlagInv, Listed, Keys, Named
  <2>6. CountWith(hist)'
    BY <1>1, <2>1, <2>2, <2>3, <2>4, <2>5 DEF CountWith
  <2> QED BY <2>6 DEF CountDeep
<1> QED BY <1>2, <1>3, <1>4, <1>5, <1>6 DEF Next

(* After the last statement every live table is held by a name that survives, or *)
(* lies in a table that is.                                                *)
LEMMA LiveAreReachable ==
  ASSUME NEW hist, CountWith(hist), pc > Len(script), todo = <<>>
  PROVE  count = Cardinality({h \in Reachable : heap[h].live})
<1>1. PICK n : n = Len(script)
  OBVIOUS
<1>2. InvWith(hist) /\ Walked(hist) /\ n \in Nat /\ pc = n + 1 /\ n + 1 - 1 = n /\ pc # 0
  BY <1>1 DEF CountWith, InvWith, Walked
<1>3. PICK f : f = facts
  OBVIOUS
<1>4. hist[n] = f /\ FactsInv(f, script, n) /\ n \in 0 .. n
  BY <1>1, <1>2, <1>3 DEF Walked, History
<1>5. /\ RunInv(f, n) /\ OwnInv(f, n) /\ HeldInv(f, script, n) /\ f.left
  BY <1>1, <1>2, <1>3, <1>4 DEF CountWith, InvWith, Accounted
<1>6. HeapInv /\ BirthInv(n) /\ CountInv /\ GoneInv(f) /\ RowInv
  BY <1>5 DEF RunInv, OwnInv
<1>7. \A h : ~Listed(h)
  BY DEF Listed
<1>8. Outer \subseteq Names
  BY NamesAssumption
<1>9. DOMAIN heap \subseteq Nat \ {0}
  BY <1>6 DEF HeapInv
<1>10. ASSUME NEW h \in Direct
       PROVE  h \in DOMAIN heap
  <2>1. PICK x \in Outer : h = env[x] /\ h # 0
    BY <1>10 DEF Direct
  <2>2. x \in Names /\ Holds(f, x)
    BY <1>5, <1>8, <2>1 DEF RunInv, EnvInv, Holds
  <2> QED BY <1>4, <1>5, <2>1, <2>2, HeldAreLive
<1>11. Reachable \subseteq DOMAIN heap
  BY <1>6, <1>10 DEF Reachable, HeapInv, Keys
<1>12. ASSUME NEW h \in DOMAIN heap, heap[h].live, h \in Named
       PROVE  h \in Direct
  <2>1. PICK q \in DOMAIN birth : h = birth[q]
    BY <1>12 DEF Named
  <2>2. q \notin Gone(f)
    BY <1>6, <1>7, <1>12, <2>1 DEF GoneInv
  <2>3. q \in Ctors(script, n) /\ q # 0
    BY <1>6, <2>1 DEF BirthInv, Ctors
  <2>4. PICK x \in Names : f.site[x] = q
    BY <1>5, <2>2, <2>3 DEF HeldInv
  <2>5. x \in Outer
    BY <1>5, <2>3, <2>4 DEF HeldInv
  <2>6. env[x] = h
    BY <1>4, <1>5, <2>1, <2>3, <2>4, HeldAreLive DEF Holds
  <2> QED BY <1>9, <1>12, <2>5, <2>6 DEF Direct
<1>13. ASSUME NEW h \in DOMAIN heap, heap[h].live, h \notin Named
       PROVE  h \in Reachable
  <2>1. PICK i \in DOMAIN heap : \E k \in Keys(i) : heap[i].cell[k] = h
    BY <1>6, <1>13 DEF RowInv
  <2>2. PICK k \in Keys(i) : heap[i].cell[k] = h
    BY <2>1
  <2>3. heap[i].deep /\ heap[i].live
    BY <1>6, <1>7, <1>13, <2>2 DEF RowInv
  <2>4. i \in Named
    BY <1>6, <2>2 DEF RowInv
  <2>5. i \in Direct
    BY <1>12, <2>3, <2>4
  <2> QED BY <2>2, <2>5 DEF Reachable, Keys
<1>14. {h \in Reachable : heap[h].live} = LiveTables
  <2>1. Direct \subseteq Reachable
    BY DEF Reachable
  <2> QED BY <1>11, <1>12, <1>13, <2>1 DEF LiveTables
<1> QED BY <1>6, <1>14 DEF CountInv

(* sys_alloc_count at the end is the number of tables the program can reach: in   *)
(* programs with one kind of rows that overwrite neither a name nor a cell, the   *)
(* frees emitted and the recursion of glm_tbl_free forget no table.           *)
THEOREM CountsAreReachable ==
  ASSUME OneKindOnly, OnceOnly
  PROVE  Spec => []CountReachable
<1>1. CountDeep => CountReachable
  BY LiveAreReachable DEF CountDeep, CountReachable
<1> QED BY <1>1, InitCounts, CountSteps, PTL DEF Spec
=============================================================================
