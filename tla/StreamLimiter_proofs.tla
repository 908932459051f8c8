------------------------- MODULE StreamLimiter_proofs --------------------------
(***************************************************************************)
(* Proofs about StreamLimiter, for every set of streams, every assignment  *)
(* of streams to users and every pair of configured limits.                *)
(*                                                                         *)
(* WithinLimits is not inductive: the guards read the counters, so it      *)
(* needs CountersExact, and that needs the set of leases out to be finite  *)
(* for Cardinality to mean anything.  IInv adds that.                      *)
(***************************************************************************)
EXTENDS StreamLimiter, FiniteSetTheorems, TLAPS

IInv ==
  /\ TypeOK
  /\ IsFiniteSet(Held)
  /\ CountersExact
  /\ WithinLimits

\* The caps are at least one whatever is configured (streaming.py:17-18).
LEMMA CapsPositive == GlobalCap \in Nat \ {0} /\ PerUserCap \in Nat \ {0}
BY LimiterAssumption DEF GlobalCap, PerUserCap, AtLeastOne

\* A finite set of leases has finitely many of each user, at most as many.
LEMMA HeldByFinite ==
  ASSUME IsFiniteSet(Held), NEW u
  PROVE  /\ IsFiniteSet(HeldBy(u))
         /\ Cardinality(HeldBy(u)) \in Nat
         /\ Cardinality(HeldBy(u)) <= Cardinality(Held)
<1>1. HeldBy(u) \subseteq Held
  BY DEF HeldBy
<1>2. QED
  BY <1>1, FS_Subset, FS_CardinalityType

\* Under the invariant, what acquire reads is how many leases the user has.
LEMMA ActiveIsHeld ==
  ASSUME IInv, NEW u \in Users
  PROVE  Active(u) = Cardinality(HeldBy(u)) /\ Active(u) \in Nat
<1>1. CASE u \in DOMAIN active_by_user
  BY <1>1, HeldByFinite DEF IInv, CountersExact, Active
<1>2. CASE u \notin DOMAIN active_by_user
  <2>1. HeldBy(u) = {}
    BY <1>2 DEF IInv, CountersExact, HeldBy
  <2>2. QED
    BY <1>2, <2>1, FS_EmptySet DEF Active
<1>3. QED
  BY <1>1, <1>2

\* The pool counts with the same Cardinality.
LEMMA PoolCardinality ==
  ASSUME NEW S
  PROVE  Pool!Cardinality(S) = Cardinality(S)
BY DEF Pool!Cardinality, Cardinality

\* The guard of acquire is the pool's: no room for one more lease.
LEMMA ExhaustedIsNoRoom ==
  ASSUME IInv, NEW l \in Leases
  PROVE  Exhausted(UserOf[l]) <=> ~Pool!Room(l)
<1>1. UserOf[l] \in Users
  BY LimiterAssumption
<1>2. /\ Active(UserOf[l]) = Cardinality(HeldBy(UserOf[l]))
      /\ Active(UserOf[l]) \in Nat
  BY <1>1, ActiveIsHeld
<1>3. active_global = Cardinality(Held) /\ active_global \in Nat
  BY DEF IInv, CountersExact, TypeOK
<1>4. Pool!Held = Held /\ Pool!HeldBy(UserOf[l]) = HeldBy(UserOf[l])
  BY DEF Pool!Held, Pool!HeldBy, Held, HeldBy
<1>5. QED
  BY <1>2, <1>3, <1>4, CapsPositive, PoolCardinality DEF Pool!Room, Exhausted

\* How the set of leases out changes when one is granted or returned.
LEMMA HeldAfterAcquire ==
  ASSUME TypeOK, IsFiniteSet(Held), NEW l \in Leases, stream[l] # "held",
         stream' = [stream EXCEPT ![l] = "held"]
  PROVE  /\ Held' = Held \union {l}
         /\ IsFiniteSet(Held')
         /\ Cardinality(Held') = Cardinality(Held) + 1
         /\ \A u : HeldBy(u)' = IF u = UserOf[l] THEN HeldBy(u) \union {l}
                                                 ELSE HeldBy(u)
         /\ Cardinality(HeldBy(UserOf[l])') = Cardinality(HeldBy(UserOf[l])) + 1
<1>1. Held' = Held \union {l}
  BY DEF Held, TypeOK
<1>2. l \notin Held
  BY DEF Held
<1>3. \A u : HeldBy(u)' = IF u = UserOf[l] THEN HeldBy(u) \union {l}
                                           ELSE HeldBy(u)
  BY <1>1 DEF HeldBy
<1>4. l \notin HeldBy(UserOf[l])
  BY <1>2 DEF HeldBy
<1>5. IsFiniteSet(HeldBy(UserOf[l]))
  BY HeldByFinite
<1>6. QED
  BY <1>1, <1>2, <1>3, <1>4, <1>5, FS_AddElement

LEMMA HeldAfterRelease ==
  ASSUME TypeOK, IsFiniteSet(Held), NEW l \in Leases, stream[l] = "held",
         stream' = [stream EXCEPT ![l] = "idle"]
  PROVE  /\ Held' = Held \ {l}
         /\ IsFiniteSet(Held')
         /\ Cardinality(Held') = Cardinality(Held) - 1
         /\ \A u : HeldBy(u)' = IF u = UserOf[l] THEN HeldBy(u) \ {l}
                                                 ELSE HeldBy(u)
         /\ Cardinality(HeldBy(UserOf[l])') = Cardinality(HeldBy(UserOf[l])) - 1
<1>1. Held' = Held \ {l}
  BY DEF Held, TypeOK
<1>2. l \in Held
  BY DEF Held
<1>3. \A u : HeldBy(u)' = IF u = UserOf[l] THEN HeldBy(u) \ {l}
                                           ELSE HeldBy(u)
  BY <1>1 DEF HeldBy
<1>4. l \in HeldBy(UserOf[l])
  BY <1>2 DEF HeldBy
<1>5. IsFiniteSet(HeldBy(UserOf[l]))
  BY HeldByFinite
<1>6. QED
  BY <1>1, <1>2, <1>3, <1>4, <1>5, FS_RemoveElement

--------------------------------------------------------------------------------
\* The values the limits compare are natural numbers.
LEMMA HeldCounts ==
  ASSUME IInv
  PROVE  /\ Cardinality(Held) \in Nat
         /\ \A u : Cardinality(HeldBy(u)) \in Nat
BY HeldByFinite, FS_CardinalityType DEF IInv

LEMMA InitIInv == Init => IInv
<1> SUFFICES ASSUME Init PROVE IInv
  OBVIOUS
<1>1. TypeOK
  BY DEF Init, TypeOK
<1>2. Held = {} /\ \A u : HeldBy(u) = {}
  BY DEF Init, Held, HeldBy
<1>3. /\ IsFiniteSet(Held)
      /\ Cardinality(Held) = 0
      /\ \A u : Cardinality(HeldBy(u)) = 0
  BY <1>2, FS_EmptySet
<1>4. CountersExact
  BY <1>2, <1>3 DEF Init, CountersExact
<1>5. WithinLimits
  BY <1>3, CapsPositive DEF WithinLimits
<1>6. QED
  BY <1>1, <1>3, <1>4, <1>5 DEF IInv

\* acquire keeps the counters exact and, by its guard, the limits.
LEMMA AcquireIInv ==
  ASSUME IInv, NEW l \in Leases, Acquire(l)
  PROVE  IInv'
<1> DEFINE u == UserOf[l]
<1>1. u \in Users
  BY LimiterAssumption
<1>2. /\ Active(u) = Cardinality(HeldBy(u)) /\ Active(u) \in Nat
  BY <1>1, ActiveIsHeld
<1>3. /\ stream[l] # "held"
      /\ stream' = [stream EXCEPT ![l] = "held"]
      /\ active_global' = active_global + 1
      /\ active_by_user' = [v \in DOMAIN active_by_user \union {u} |->
                              IF v = u THEN Active(u) + 1 ELSE active_by_user[v]]
      /\ ~Exhausted(u)
  BY DEF Acquire, SetEntry
<1>4. /\ Held' = Held \union {l}
      /\ IsFiniteSet(Held')
      /\ Cardinality(Held') = Cardinality(Held) + 1
      /\ \A w : HeldBy(w)' = IF w = u THEN HeldBy(w) \union {l} ELSE HeldBy(w)
      /\ Cardinality(HeldBy(u)') = Cardinality(HeldBy(u)) + 1
  BY <1>3, HeldAfterAcquire DEF IInv
<1>5. TypeOK'
  BY <1>1, <1>2, <1>3 DEF IInv, TypeOK
<1>6. CountersExact'
  <2>1. active_global' = Cardinality(Held')
    BY <1>3, <1>4 DEF IInv, CountersExact
  <2>2. DOMAIN active_by_user' = {UserOf[k] : k \in Held'}
    BY <1>3, <1>4 DEF IInv, CountersExact
  <2>3. ASSUME NEW w \in DOMAIN active_by_user'
        PROVE  active_by_user'[w] = Cardinality(HeldBy(w)')
    BY <1>2, <1>3, <1>4, <2>3 DEF IInv, CountersExact
  <2>4. QED
    BY <2>1, <2>2, <2>3 DEF CountersExact
<1>7. WithinLimits'
  <2>1. Cardinality(Held') <= GlobalCap
    BY <1>3, <1>4, CapsPositive DEF IInv, CountersExact, TypeOK, Exhausted
  <2>2. ASSUME NEW w \in Users
        PROVE  Cardinality(HeldBy(w)') <= PerUserCap
    BY <1>2, <1>3, <1>4, CapsPositive DEF IInv, WithinLimits, Exhausted
  <2>3. QED
    BY <2>1, <2>2, CapsPositive DEF WithinLimits
<1>8. QED
  BY <1>4, <1>5, <1>6, <1>7 DEF IInv

\* release gives back exactly what acquire took; the clamps never act.
LEMMA ReleaseIInv ==
  ASSUME IInv, NEW l \in Leases, Release(l)
  PROVE  IInv'
<1> DEFINE u == UserOf[l]
           left == IF Active(u) > 0 THEN Active(u) - 1 ELSE 0
<1>1. u \in Users
  BY LimiterAssumption
<1>2. /\ Active(u) = Cardinality(HeldBy(u)) /\ Active(u) \in Nat
  BY <1>1, ActiveIsHeld
<1>3. /\ stream[l] = "held"
      /\ stream' = [stream EXCEPT ![l] = "idle"]
      /\ active_global' = IF active_global > 0 THEN active_global - 1 ELSE 0
      /\ active_by_user' = IF left = 0 THEN DropEntry(u) ELSE SetEntry(u, left)
  BY DEF Release, TakeBack
<1>4. /\ Held' = Held \ {l}
      /\ IsFiniteSet(Held')
      /\ Cardinality(Held') = Cardinality(Held) - 1
      /\ \A w : HeldBy(w)' = IF w = u THEN HeldBy(w) \ {l} ELSE HeldBy(w)
      /\ Cardinality(HeldBy(u)') = Cardinality(HeldBy(u)) - 1
  BY <1>3, HeldAfterRelease DEF IInv
<1>5. /\ l \in Held /\ u \in DOMAIN active_by_user
      /\ Active(u) = active_by_user[u] /\ Active(u) > 0
  BY <1>3 DEF IInv, CountersExact, TypeOK, Held, Active
<1>6. left = Cardinality(HeldBy(u)') /\ left = Active(u) - 1 /\ left \in Nat
  BY <1>2, <1>4, <1>5
<1>7. active_global' = Cardinality(Held') /\ active_global' \in Nat
  <2>1. Cardinality(Held) \in Nat /\ Cardinality(Held') \in Nat
    BY <1>4, FS_CardinalityType DEF IInv
  <2>2. QED
    BY <1>3, <1>4, <2>1 DEF IInv, CountersExact
<1>8. /\ DOMAIN active_by_user' = {UserOf[k] : k \in Held'}
      /\ \A w \in DOMAIN active_by_user' :
            /\ active_by_user'[w] = Cardinality(HeldBy(w)')
            /\ active_by_user'[w] \in Nat \ {0}
  <2>1. CASE left = 0
    <3>1. HeldBy(u)' = {}
      <4>1. IsFiniteSet(HeldBy(u)')
        BY <1>4, HeldByFinite, FS_Subset DEF IInv
      <4>2. QED
        BY <1>6, <2>1, <4>1, FS_EmptySet
    <3>2. active_by_user' = [v \in DOMAIN active_by_user \ {u} |-> active_by_user[v]]
      BY <1>3, <2>1 DEF DropEntry
    <3>3. {UserOf[k] : k \in Held'} = DOMAIN active_by_user \ {u}
      BY <1>4, <3>1 DEF IInv, CountersExact, HeldBy
    <3>4. QED
      BY <1>4, <3>2, <3>3 DEF IInv, CountersExact, TypeOK
  <2>2. CASE left # 0
    <3>1. HeldBy(u)' # {}
      BY <1>6, <2>2, FS_EmptySet
    <3>2. active_by_user' = [v \in DOMAIN active_by_user |->
                               IF v = u THEN left ELSE active_by_user[v]]
      BY <1>3, <1>5, <2>2 DEF SetEntry
    <3>3. {UserOf[k] : k \in Held'} = DOMAIN active_by_user
      BY <1>4, <1>5, <3>1 DEF IInv, CountersExact, HeldBy
    <3>4. QED
      BY <1>4, <1>6, <2>2, <3>2, <3>3 DEF IInv, CountersExact, TypeOK
  <2>3. QED
    BY <2>1, <2>2
<1>9. TypeOK'
  BY <1>3, <1>7, <1>8, LimiterAssumption DEF IInv, TypeOK, Held
<1>10. WithinLimits'
  BY <1>2, <1>4, HeldCounts, CapsPositive DEF IInv, WithinLimits
<1>11. QED
  BY <1>4, <1>7, <1>8, <1>9, <1>10 DEF IInv, CountersExact

\* A refusal changes no counter and no lease.
LEMMA RefusedIInv ==
  ASSUME IInv, NEW l \in Leases, AcquireRefused(l)
  PROVE  IInv' /\ Held' = Held
<1>1. /\ stream[l] # "held"
      /\ stream' = [stream EXCEPT ![l] = "refused"]
      /\ UNCHANGED <<active_global, active_by_user>>
  BY DEF AcquireRefused, counters
<1>2. Held' = Held /\ \A w : HeldBy(w)' = HeldBy(w)
  BY <1>1 DEF IInv, TypeOK, Held, HeldBy
<1>3. TypeOK'
  BY <1>1 DEF IInv, TypeOK
<1>4. QED
  BY <1>1, <1>2, <1>3 DEF IInv, CountersExact, WithinLimits

LEMMA NextIInv == IInv /\ [Next]_vars => IInv'
<1> SUFFICES ASSUME IInv, [Next]_vars PROVE IInv'
  OBVIOUS
<1>1. ASSUME NEW l \in Leases, Acquire(l) PROVE IInv'
  BY <1>1, AcquireIInv
<1>2. ASSUME NEW l \in Leases, AcquireRefused(l) PROVE IInv'
  BY <1>2, RefusedIInv
<1>3. ASSUME NEW l \in Leases, Release(l) PROVE IInv'
  BY <1>3, ReleaseIInv
<1>4. CASE UNCHANGED vars
  BY <1>4 DEF vars, IInv, TypeOK, CountersExact, WithinLimits, Held, HeldBy
<1>5. QED
  BY <1>1, <1>2, <1>3, <1>4 DEF Next

LEMMA AlwaysIInv == Spec => []IInv
BY InitIInv, NextIInv, PTL DEF Spec

(***************************************************************************)
(* The variables stay in their domains; a user without streams leaves no   *)
(* entry, not even a zero, in the dict (streaming.py:36-39).               *)
(***************************************************************************)
THEOREM LimiterTypes == Spec => []TypeOK
<1>1. IInv => TypeOK
  BY DEF IInv
<1>2. QED
  BY <1>1, AlwaysIInv, PTL

(***************************************************************************)
(* The counters of the limiter always equal the leases out, per user and   *)
(* in total, and a user with none has no entry in the dict.                *)
(***************************************************************************)
THEOREM CountersAlwaysExact == Spec => []CountersExact
<1>1. IInv => CountersExact
  BY DEF IInv
<1>2. QED
  BY <1>1, AlwaysIInv, PTL

(***************************************************************************)
(* No interleaving of grants and returns puts more leases out than the     *)
(* configured limits (at least one each) allow.                            *)
(***************************************************************************)
THEOREM NeverOverLimit == Spec => []WithinLimits
<1>1. IInv => WithinLimits
  BY DEF IInv
<1>2. QED
  BY <1>1, AlwaysIInv, PTL

(***************************************************************************)
(* The counter-based limiter implements the pool of leases: grants happen  *)
(* only with room, refusals only without.                                  *)
(***************************************************************************)
THEOREM LimiterImplementsPool == Spec => ImplementsPool
<1>1. Init => Pool!Init
  BY DEF Init, Pool!Init
<1>2. IInv /\ [Next]_vars => [Pool!Next]_stream
  <2> SUFFICES ASSUME IInv, [Next]_vars PROVE [Pool!Next]_stream
    OBVIOUS
  <2>1. ASSUME NEW l \in Leases, Acquire(l) PROVE Pool!Grant(l)
    BY <2>1, ExhaustedIsNoRoom DEF Acquire, Pool!Grant
  <2>2. ASSUME NEW l \in Leases, AcquireRefused(l) PROVE Pool!Refuse(l)
    BY <2>2, ExhaustedIsNoRoom DEF AcquireRefused, Pool!Refuse
  <2>3. ASSUME NEW l \in Leases, Release(l) PROVE Pool!Return(l)
    BY <2>3 DEF Release, Pool!Return
  <2>4. CASE UNCHANGED vars
    BY <2>4 DEF vars
  <2>5. QED
    BY <2>1, <2>2, <2>3, <2>4 DEF Next, Pool!Next
<1>3. QED
  BY <1>1, <1>2, AlwaysIInv, PTL DEF Spec, ImplementsPool, Pool!Spec
================================================================================
