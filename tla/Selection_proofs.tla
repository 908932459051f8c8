---------------------------- MODULE Selection_proofs ----------------------------
(***************************************************************************)
(* What Picked returns, for sequences of every length: the lemmas that the *)
(* proofs about runs, conversations and records rest on.                   *)
(*                                                                         *)
(* They are by induction on the length.  The induction theorems of the     *)
(* library take an operator, so the principle is stated here of sets: from *)
(* the well-foundedness of the natural numbers every set of them has a     *)
(* least member, and a set that has 0 and every successor has them all.    *)
(***************************************************************************)
EXTENDS Selection, Integers, WellFoundedInduction, FiniteSetTheorems, TLAPS

\* A set of natural numbers has a least member.
LEMMA LeastNat ==
  ASSUME NEW T, T \subseteq Nat, T # {}
  PROVE  \E x \in T : \A y \in T : x <= y
<1> DEFINE R == OpToRel(<, Nat)
<1>1. IsWellFoundedOn(R, Nat)
  BY NatLessThanWellFounded
<1> HIDE DEF R
<1>2. PICK x \in T : \A y \in T : ~(<<y, x>> \in R)
  BY <1>1, WFMin
<1>3. \A y \in T : ~(y < x)
  BY <1>2 DEF R, OpToRel
<1>4. QED
  BY <1>3

\* Induction: the natural numbers up to m are in a set that has 0 and, below m,
\* the successor of each of its members.
LEMMA Induction ==
  ASSUME NEW m \in Nat, NEW S, 0 \in S,
         \A n \in 0..(m - 1) : n \in S => n + 1 \in S
  PROVE  0..m \subseteq S
<1> DEFINE T == (0..m) \ S
<1> SUFFICES ASSUME T # {} PROVE FALSE
  OBVIOUS
<1>0. T \subseteq Nat
  OBVIOUS
<1> HIDE DEF T
<1>1. PICK x \in T : \A y \in T : x <= y
  BY <1>0, LeastNat
<1> USE DEF T
<1>2. x - 1 \in 0..(m - 1) /\ x - 1 \in S
  BY <1>1
<1>3. QED
  BY <1>1, <1>2

--------------------------------------------------------------------------------
\* One step of the recursion, and what a function must satisfy to be its solution.
Extended(f, s, I, n) == IF n \in I THEN Append(f[n - 1], s[n]) ELSE f[n - 1]
Solves(f, s, I, m) ==
  f = [n \in 0..m |-> IF n = 0 THEN <<>> ELSE Extended(f, s, I, n)]

UpTo(s, I) == CHOOSE f : Solves(f, s, I, Len(s))

\* The recursion has a solution.
LEMMA Solvable ==
  ASSUME NEW s, NEW I, NEW m \in Nat
  PROVE  \E f : Solves(f, s, I, m)
<1> DEFINE S == {n \in Nat : \E f : Solves(f, s, I, n)}
<1>1. 0 \in S
  <2>1. Solves([n \in 0..0 |-> <<>>], s, I, 0)
    BY DEF Solves
  <2>2. QED
    BY <2>1
<1>2. ASSUME NEW n \in Nat, n \in S PROVE n + 1 \in S
  <2>1. PICK f : Solves(f, s, I, n)
    BY <1>2
  <2> DEFINE g == [k \in 0..(n + 1) |-> IF k <= n THEN f[k] ELSE Extended(f, s, I, k)]
  <2>2. \A k \in 1..(n + 1) : g[k - 1] = f[k - 1]
    OBVIOUS
  <2>3. \A k \in 0..n : f[k] = IF k = 0 THEN <<>> ELSE Extended(f, s, I, k)
    BY <2>1 DEF Solves
  <2>4. \A k \in 0..(n + 1) : g[k] = IF k = 0 THEN <<>> ELSE Extended(g, s, I, k)
    BY <2>2, <2>3 DEF Extended
  <2>5. Solves(g, s, I, n + 1)
    BY <2>4 DEF Solves
  <2>6. QED
    BY <2>5
<1> HIDE DEF S
<1>3. 0..m \subseteq S
  BY <1>1, <1>2, Induction
<1>4. QED
  BY <1>3 DEF S

\* The values of the recursion of Picked.
LEMMA UpToValues ==
  ASSUME NEW s, NEW I, Len(s) \in Nat
  PROVE  /\ Picked(s, I) = UpTo(s, I)[Len(s)]
         /\ UpTo(s, I)[0] = <<>>
         /\ \A n \in 1..Len(s) : UpTo(s, I)[n] = Extended(UpTo(s, I), s, I, n)
<1>1. Picked(s, I) = UpTo(s, I)[Len(s)]
  BY DEF Picked, UpTo, Solves, Extended
<1>2. \E f : Solves(f, s, I, Len(s))
  BY Solvable
<1>3. Solves(UpTo(s, I), s, I, Len(s))
  BY <1>2 DEF UpTo
<1> DEFINE f == UpTo(s, I)
<1> HIDE DEF f
<1>4. f = [n \in 0..Len(s) |-> IF n = 0 THEN <<>> ELSE Extended(f, s, I, n)]
  BY <1>3 DEF f, Solves
<1>5. f[0] = <<>> /\ \A n \in 1..Len(s) : f[n] = Extended(f, s, I, n)
  BY <1>4
<1>6. QED
  BY <1>1, <1>5 DEF f

\* Sequences that agree as far as m have the same elements picked that far.
LEMMA UpToSame ==
  ASSUME NEW s, NEW t, NEW I, NEW J, Len(s) \in Nat, Len(t) \in Nat,
         NEW m \in Nat, m <= Len(s), m <= Len(t),
         \A n \in 1..m : s[n] = t[n] /\ (n \in I <=> n \in J)
  PROVE  UpTo(s, I)[m] = UpTo(t, J)[m]
<1> DEFINE S == {n \in Nat : n <= m => UpTo(s, I)[n] = UpTo(t, J)[n]}
<1>1. 0 \in S
  BY UpToValues
<1>2. ASSUME NEW n \in 0..(m - 1), n \in S PROVE n + 1 \in S
  <2>1. /\ UpTo(s, I)[n + 1] = Extended(UpTo(s, I), s, I, n + 1)
        /\ UpTo(t, J)[n + 1] = Extended(UpTo(t, J), t, J, n + 1)
    BY UpToValues
  <2>2. UpTo(s, I)[n] = UpTo(t, J)[n] /\ s[n + 1] = t[n + 1] /\ (n + 1 \in I <=> n + 1 \in J)
    BY <1>2
  <2>3. QED
    BY <2>1, <2>2 DEF Extended
<1> HIDE DEF S
<1>3. 0..m \subseteq S
  BY <1>1, <1>2, Induction
<1>4. QED
  BY <1>3 DEF S

--------------------------------------------------------------------------------
\* Nothing is picked of nothing.
LEMMA PickedOfEmpty == ASSUME NEW I PROVE Picked(<<>>, I) = <<>>
BY UpToValues

\* Only the positions of the sequence matter.
LEMMA PickedSame ==
  ASSUME NEW S, NEW s \in Seq(S), NEW I, NEW J, I \intersect DOMAIN s = J \intersect DOMAIN s
  PROVE  Picked(s, I) = Picked(s, J)
<1>1. \A n \in 1..Len(s) : n \in I <=> n \in J
  OBVIOUS
<1>2. UpTo(s, I)[Len(s)] = UpTo(s, J)[Len(s)]
  BY <1>1, UpToSame
<1>3. QED
  BY <1>2, UpToValues

\* What is picked of a sequence with one more element.
LEMMA PickedOfAppend ==
  ASSUME NEW S, NEW s \in Seq(S), NEW e, NEW I, NEW J,
         I \intersect DOMAIN s = J \intersect DOMAIN s
  PROVE  Picked(Append(s, e), J) =
           IF Len(s) + 1 \in J THEN Append(Picked(s, I), e) ELSE Picked(s, I)
<1> DEFINE t == Append(s, e)
<1>1. t \in Seq(S \union {e}) /\ Len(t) = Len(s) + 1 /\ t[Len(s) + 1] = e
  OBVIOUS
<1>2. \A n \in 1..Len(s) : t[n] = s[n] /\ (n \in I <=> n \in J)
  OBVIOUS
<1> HIDE DEF t
<1>3. UpTo(t, J)[Len(s)] = UpTo(s, I)[Len(s)]
  BY <1>1, <1>2, UpToSame
<1>4. UpTo(t, J)[Len(s) + 1] = Extended(UpTo(t, J), t, J, Len(s) + 1)
  BY <1>1, UpToValues
<1>5. Picked(t, J) = UpTo(t, J)[Len(s) + 1] /\ Picked(s, I) = UpTo(s, I)[Len(s)]
  BY <1>1, UpToValues
<1>6. QED
  BY <1>1, <1>3, <1>4, <1>5 DEF t, Extended

\* The sequence p has the elements of s at the positions in I up to n: each from a
\* position of its own, and in the order they have in s.
PicksAt(at, p, s, I, n) ==
  /\ at \in [1..Len(p) -> I \intersect (1..n)]
  /\ \A j \in 1..Len(p) : p[j] = s[at[j]]
  /\ \A j, k \in 1..Len(p) : j < k => at[j] < at[k]
  /\ \A i \in I \intersect (1..n) : \E j \in 1..Len(p) : at[j] = i
Picks(p, s, I, n) == \E at : PicksAt(at, p, s, I, n)

\* One more position, which is in I or is not.
LEMMA PicksNext ==
  ASSUME NEW S, NEW p \in Seq(S), NEW s \in Seq(S), NEW I, NEW n \in 0..(Len(s) - 1),
         Picks(p, s, I, n)
  PROVE  Picks(IF n + 1 \in I THEN Append(p, s[n + 1]) ELSE p, s, I, n + 1)
<1>1. PICK at : PicksAt(at, p, s, I, n)
  BY DEF Picks
<1>2. CASE n + 1 \notin I
  <2>1. PicksAt(at, p, s, I, n + 1)
    BY <1>1, <1>2 DEF PicksAt
  <2>2. QED
    BY <1>2, <2>1 DEF Picks
<1>3. CASE n + 1 \in I
  <2> DEFINE l == Len(p)
             q == Append(p, s[n + 1])
             more == [j \in 1..(l + 1) |-> IF j <= l THEN at[j] ELSE n + 1]
  <2>1. l \in Nat /\ Len(q) = l + 1 /\ q[l + 1] = s[n + 1]
    OBVIOUS
  <2>2. \A j \in 1..l : q[j] = p[j] /\ more[j] = at[j] /\ at[j] \in I \intersect (1..n)
    BY <1>1 DEF PicksAt
  <2>3. more[l + 1] = n + 1 /\ DOMAIN more = 1..(l + 1)
    BY <2>1
  <2>4. \A j \in 1..(l + 1) : j \in 1..l \/ j = l + 1
    BY <2>1
  <2> HIDE DEF more, q, l
  <2>5. more \in [1..(l + 1) -> I \intersect (1..(n + 1))]
    <3>1. more = [j \in 1..(l + 1) |-> more[j]]
      BY DEF more
    <3>2. \A j \in 1..(l + 1) : more[j] \in I \intersect (1..(n + 1))
      BY <1>3, <2>2, <2>3, <2>4
    <3>3. QED
      BY <3>1, <3>2
  <2>6. \A j \in 1..(l + 1) : q[j] = s[more[j]]
    BY <1>1, <2>1, <2>2, <2>3, <2>4 DEF PicksAt, l
  <2>7. \A j, k \in 1..(l + 1) : j < k => more[j] < more[k]
    <3>1. SUFFICES ASSUME NEW j \in 1..(l + 1), NEW k \in 1..(l + 1), j < k
                   PROVE  more[j] < more[k]
      OBVIOUS
    <3>2. j \in 1..l
      BY <2>1, <3>1
    <3>3. CASE k \in 1..l
      BY <1>1, <2>2, <3>1, <3>2, <3>3 DEF PicksAt, l
    <3>4. CASE k = l + 1
      BY <2>2, <2>3, <3>2, <3>4
    <3>5. QED
      BY <2>4, <3>3, <3>4
  <2>8. \A i \in I \intersect (1..(n + 1)) : \E j \in 1..(l + 1) : more[j] = i
    <3>1. \A i \in I \intersect (1..n) : \E j \in 1..l : more[j] = i
      BY <1>1, <2>2 DEF PicksAt, l
    <3>2. \A i \in 1..(n + 1) : i \in 1..n \/ i = n + 1
      OBVIOUS
    <3>3. 1..l \subseteq 1..(l + 1) /\ l + 1 \in 1..(l + 1)
      BY <2>1
    <3>4. QED
      BY <2>3, <3>1, <3>2, <3>3
  <2>9. PicksAt(more, q, s, I, n + 1)
    BY <2>1, <2>5, <2>6, <2>7, <2>8 DEF PicksAt
  <2>10. QED
    BY <1>3, <2>9 DEF Picks, q
<1>4. QED
  BY <1>2, <1>3

\* What is picked has the elements at the positions of I, in their order.
LEMMA PickedElements ==
  ASSUME NEW S, NEW s \in Seq(S), NEW I
  PROVE  Picked(s, I) \in Seq(S) /\ Picks(Picked(s, I), s, I, Len(s))
<1> DEFINE u == UpTo(s, I)
           G == {n \in 0..Len(s) : u[n] \in Seq(S) /\ Picks(u[n], s, I, n)}
<1>0. /\ Picked(s, I) = u[Len(s)] /\ u[0] = <<>>
      /\ \A n \in 1..Len(s) : u[n] = Extended(u, s, I, n)
  BY UpToValues
<1> HIDE DEF u
<1>1. 0 \in G
  <2>1. PicksAt(<<>>, <<>>, s, I, 0)
    BY DEF PicksAt
  <2>2. Picks(u[0], s, I, 0)
    BY <1>0, <2>1 DEF Picks
  <2>3. 0 \in 0..Len(s) /\ u[0] \in Seq(S)
    BY <1>0
  <2>4. QED
    BY <2>2, <2>3
<1>2. ASSUME NEW n \in 0..(Len(s) - 1), n \in G PROVE n + 1 \in G
  <2>1. n + 1 \in 1..Len(s) /\ s[n + 1] \in S /\ u[n] \in Seq(S) /\ Picks(u[n], s, I, n)
    BY <1>2
  <2>2. u[n + 1] = IF n + 1 \in I THEN Append(u[n], s[n + 1]) ELSE u[n]
    BY <1>0, <2>1 DEF Extended
  <2>3. Picks(u[n + 1], s, I, n + 1)
    BY <2>1, <2>2, PicksNext
  <2>4. n + 1 \in 0..Len(s) /\ u[n + 1] \in Seq(S)
    BY <2>1, <2>2
  <2>5. QED
    BY <2>3, <2>4
<1> HIDE DEF G
<1>3. 0..Len(s) \subseteq G
  BY <1>1, <1>2, Induction
<1>4. QED
  BY <1>0, <1>3 DEF G

\* The members of what is picked.
LEMMA PickedRange ==
  ASSUME NEW S, NEW s \in Seq(S), NEW I
  PROVE  {Picked(s, I)[j] : j \in DOMAIN Picked(s, I)} = {s[i] : i \in I \intersect DOMAIN s}
<1>1. PICK at : PicksAt(at, Picked(s, I), s, I, Len(s))
  BY PickedElements DEF Picks
<1>2. Picked(s, I) \in Seq(S)
  BY PickedElements
<1> DEFINE p == Picked(s, I)
<1>3. DOMAIN p = 1..Len(p) /\ DOMAIN s = 1..Len(s)
  BY <1>2
<1>4. ASSUME NEW j \in DOMAIN p PROVE p[j] \in {s[i] : i \in I \intersect DOMAIN s}
  BY <1>1, <1>3 DEF PicksAt
<1>5. ASSUME NEW i \in I \intersect DOMAIN s PROVE s[i] \in {p[j] : j \in DOMAIN p}
  BY <1>1, <1>3 DEF PicksAt
<1>6. QED
  BY <1>4, <1>5
--------------------------------------------------------------------------------
\* A strict total order, as the set of what comes before each element.
Orders(before, P) ==
  /\ before \in [P -> SUBSET P]
  /\ \A p \in P : p \notin before[p]
  /\ \A p, q \in P : p = q \/ p \in before[q] \/ q \in before[p]
  /\ \A p, q \in P : p \in before[q] => before[p] \subseteq before[q]

\* What comes before another has fewer before it, and everything fewer than there are.
LEMMA RankIs ==
  ASSUME NEW P, IsFiniteSet(P), NEW before, Orders(before, P)
  PROVE  /\ Cardinality(P) \in Nat
         /\ \A p \in P : Cardinality(before[p]) \in 0..(Cardinality(P) - 1)
         /\ \A p, q \in P : p \in before[q] => Cardinality(before[p]) < Cardinality(before[q])
<1>1. Cardinality(P) \in Nat /\ \A T \in SUBSET P : IsFiniteSet(T) /\ Cardinality(T) \in Nat
  BY FS_CardinalityType, FS_Subset
<1>2. \A p \in P : before[p] \in SUBSET P /\ p \notin before[p]
  BY DEF Orders
<1>3. ASSUME NEW T \in SUBSET P, NEW p \in P, p \notin T
      PROVE  Cardinality(T \cup {p}) = Cardinality(T) + 1
  BY <1>1, <1>3, FS_AddElement
<1>4. ASSUME NEW S \in SUBSET P, NEW T \in SUBSET S PROVE Cardinality(T) <= Cardinality(S)
  BY <1>1, <1>4, FS_Subset
<1>5. ASSUME NEW p \in P PROVE Cardinality(before[p]) \in 0..(Cardinality(P) - 1)
  <2>1. before[p] \cup {p} \in SUBSET P /\ P \in SUBSET P
    BY <1>2
  <2>2. Cardinality(before[p] \cup {p}) <= Cardinality(P)
    BY <1>4, <2>1
  <2>3. Cardinality(before[p] \cup {p}) = Cardinality(before[p]) + 1
    BY <1>2, <1>3
  <2>4. Cardinality(before[p]) \in Nat
    BY <1>1, <1>2
  <2>5. QED
    BY <1>1, <2>2, <2>3, <2>4
<1>6. ASSUME NEW p \in P, NEW q \in P, p \in before[q]
      PROVE  Cardinality(before[p]) < Cardinality(before[q])
  <2>1. before[p] \cup {p} \in SUBSET before[q]
    BY <1>6 DEF Orders
  <2>2. Cardinality(before[p] \cup {p}) <= Cardinality(before[q])
    BY <1>2, <1>4, <2>1
  <2>3. Cardinality(before[p] \cup {p}) = Cardinality(before[p]) + 1
    BY <1>2, <1>3
  <2>4. Cardinality(before[p]) \in Nat /\ Cardinality(before[q]) \in Nat
    BY <1>1, <1>2
  <2>5. QED
    BY <2>2, <2>3, <2>4
<1>7. QED
  BY <1>1, <1>5, <1>6

\* So every rank below the number of elements is the rank of one of them.
LEMMA RankTaken ==
  ASSUME NEW P, IsFiniteSet(P), NEW before, Orders(before, P),
         NEW k \in 0..(Cardinality(P) - 1)
  PROVE  \E p \in P : Cardinality(before[p]) = k
<1> DEFINE n == Cardinality(P)
           rank == [p \in P |-> Cardinality(before[p])]
           others == (0..(n - 1)) \ {k}
<1>1. n \in Nat /\ \A p \in P : rank[p] \in 0..(n - 1)
  BY RankIs
<1>2. SUFFICES ASSUME \A p \in P : rank[p] # k PROVE FALSE
  OBVIOUS
<1>3. rank \in [P -> others]
  BY <1>1, <1>2
<1>4. IsFiniteSet(others) /\ Cardinality(others) = n - 1
  <2>1. IsFiniteSet(0..(n - 1)) /\ Cardinality(0..(n - 1)) = n
    BY <1>1, FS_Interval
  <2>2. QED
    BY <2>1, FS_RemoveElement
<1>5. n - 1 < n
  BY <1>1
<1> HIDE DEF n, rank, others
<1>6. Cardinality(others) < Cardinality(P)
  BY <1>4, <1>5 DEF n
<1>7. \E x, y \in P : x # y /\ rank[x] = rank[y]
  BY <1>3, <1>4, <1>6, FS_PigeonHole
<1>8. PICK x \in P, y \in P : x # y /\ rank[x] = rank[y]
  BY <1>7
<1>9. x \in before[y] \/ y \in before[x]
  BY <1>8 DEF Orders
<1>10. rank[x] \in 0..(n - 1) /\ rank[y] \in 0..(n - 1)
  BY <1>1
<1>11. rank[x] < rank[y] \/ rank[y] < rank[x]
  BY <1>9, RankIs DEF rank
<1>12. QED
  BY <1>8, <1>10, <1>11

\* Arranged has each element once, and at each place the one with that many before it.
LEMMA ArrangedIs ==
  ASSUME NEW P, IsFiniteSet(P), NEW before, Orders(before, P)
  PROVE  /\ Cardinality(P) \in Nat
         /\ Arranged(before) \in [1..Cardinality(P) -> P]
         /\ \A k \in 1..Cardinality(P) : Cardinality(before[Arranged(before)[k]]) = k - 1
         /\ \A p \in P : \E k \in 1..Cardinality(P) : Arranged(before)[k] = p
         /\ \A i, k \in 1..Cardinality(P) :
              i < k => Arranged(before)[i] \in before[Arranged(before)[k]]
<1> DEFINE n == Cardinality(P)
           a == Arranged(before)
<1>1. /\ n \in Nat /\ \A p \in P : Cardinality(before[p]) \in 0..(n - 1)
      /\ \A p, q \in P : p \in before[q] => Cardinality(before[p]) < Cardinality(before[q])
  BY RankIs
<1>2. DOMAIN before = P
  BY DEF Orders
<1>3. a = [k \in 1..n |-> CHOOSE p \in P : Cardinality(before[p]) = k - 1]
  BY <1>2 DEF Arranged
<1>4. ASSUME NEW k \in 1..n PROVE a[k] \in P /\ Cardinality(before[a[k]]) = k - 1
  <2>1. k - 1 \in 0..(n - 1)
    BY <1>1
  <2>2. \E p \in P : Cardinality(before[p]) = k - 1
    BY <2>1, RankTaken
  <2>3. a[k] = CHOOSE p \in P : Cardinality(before[p]) = k - 1
    BY <1>3
  <2> HIDE DEF a, n
  <2>4. QED
    BY <2>2, <2>3
<1>5. ASSUME NEW p \in P, NEW q \in P, Cardinality(before[p]) = Cardinality(before[q])
      PROVE  p = q
  <2>1. Cardinality(before[p]) \in Nat /\ Cardinality(before[q]) \in Nat
    BY <1>1
  <2>2. p \notin before[q] /\ q \notin before[p]
    BY <1>1, <1>5, <2>1
  <2>3. QED
    BY <2>2 DEF Orders
<1> HIDE DEF a, n
<1>6. ASSUME NEW p \in P PROVE \E k \in 1..n : a[k] = p
  <2>1. Cardinality(before[p]) + 1 \in 1..n
    BY <1>1
  <2>2. PICK k \in 1..n : k = Cardinality(before[p]) + 1
    BY <2>1
  <2>3. a[k] \in P /\ Cardinality(before[a[k]]) = Cardinality(before[p])
    BY <1>1, <1>4, <2>2
  <2>4. QED
    BY <1>5, <2>3
<1>7. ASSUME NEW i \in 1..n, NEW k \in 1..n, i < k PROVE a[i] \in before[a[k]]
  <2>1. a[i] \in P /\ a[k] \in P /\ Cardinality(before[a[i]]) < Cardinality(before[a[k]])
    BY <1>1, <1>4, <1>7
  <2>2. a[i] # a[k] /\ a[k] \notin before[a[i]]
    <3>1. Cardinality(before[a[i]]) \in Nat /\ Cardinality(before[a[k]]) \in Nat
      BY <1>1, <2>1
    <3>2. QED
      BY <1>1, <2>1, <3>1
  <2>3. QED
    BY <2>1, <2>2 DEF Orders
<1>8. a \in [1..n -> P]
  BY <1>3, <1>4
<1>9. QED
  BY <1>1, <1>4, <1>6, <1>7, <1>8 DEF a, n
================================================================================
