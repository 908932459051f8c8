----------------------------- MODULE StreamLimiter -----------------------------
(***************************************************************************)
(* StreamConcurrencyLimiter (src/src/finmind_api/streaming.py): the        *)
(* process-local counters that bound how many workflow streams run, in     *)
(* total and per user.  acquire and release run under one asyncio.Lock and *)
(* await nothing while they hold it, so each of them is a single step.     *)
(*                                                                         *)
(* `stream' is what the callers hold: acquire answered with a StreamLease  *)
(* ("held") or with None ("refused").  A lease is released once, by its    *)
(* holder; that this is so of the real holder is checked in StreamSession. *)
(***************************************************************************)
EXTENDS Integers, FiniteSets

CONSTANTS
  Leases,         \* the streams that may ask for a lease
  Users,          \* the user names of the sessions
  UserOf,         \* the user a stream is opened by
  GlobalLimit,    \* global_limit, as configured
  PerUserLimit    \* per_user_limit, as configured

ASSUME LimiterAssumption ==
  /\ UserOf \in [Leases -> Users]
  /\ GlobalLimit \in Int
  /\ PerUserLimit \in Int

VARIABLES
  stream,           \* per stream, the answer it lives on
  active_global,    \* _active_global
  active_by_user    \* _active_by_user: a dict, so its domain is state too

counters == <<active_global, active_by_user>>
vars     == <<stream, active_global, active_by_user>>

\* max(1, limit): a limit of zero or less still lets one stream through.
AtLeastOne(limit) == IF limit < 1 THEN 1 ELSE limit
GlobalCap  == AtLeastOne(GlobalLimit)
PerUserCap == AtLeastOne(PerUserLimit)

\* What a read of the defaultdict gives.
Active(u) == IF u \in DOMAIN active_by_user THEN active_by_user[u] ELSE 0

Held      == {l \in Leases : stream[l] = "held"}
HeldBy(u) == {l \in Held : UserOf[l] = u}

--------------------------------------------------------------------------------
Init ==
  /\ stream = [l \in Leases |-> "idle"]
  /\ active_global = 0
  /\ active_by_user = [u \in {} |-> 0]

ExhaustedOffByOne(u) == active_global >= GlobalCap \/ Active(u) > PerUserCap  \* mutant

\* The two early returns of acquire.
Exhausted(u) == active_global >= GlobalCap \/ Active(u) >= PerUserCap
\* Entry u of the dict set to n; the other entries stay.
SetEntry(u, n) ==
  [v \in DOMAIN active_by_user \union {u} |->
     IF v = u THEN n ELSE active_by_user[v]]

DropEntry(u) == [v \in DOMAIN active_by_user \ {u} |-> active_by_user[v]]

\* acquire answers with a lease.
Acquire(l) ==
  LET u == UserOf[l] IN
  /\ stream[l] # "held"
  /\ ~Exhausted(u)
  /\ stream' = [stream EXCEPT ![l] = "held"]
  /\ active_global' = active_global + 1
  /\ active_by_user' = SetEntry(u, Active(u) + 1)

\* acquire answers with None; the caller turns it into a 429.
AcquireRefused(l) ==
  /\ stream[l] # "held"
  /\ Exhausted(UserOf[l])
  /\ stream' = [stream EXCEPT ![l] = "refused"]
  /\ UNCHANGED counters

\* mutant: the user's entry is left behind at zero
TakeBackKeepsEntry(u) ==
  /\ active_global' = IF active_global > 0 THEN active_global - 1 ELSE 0
  /\ active_by_user' = SetEntry(u, Active(u) - 1)

\* mutant: the user's entry is dropped whole, as if a user had one stream
TakeBackDropsUser(u) ==
  /\ active_global' = IF active_global > 0 THEN active_global - 1 ELSE 0
  /\ active_by_user' = DropEntry(u)

\* release: both counters are clamped at zero and an empty entry is popped.
\* The code does not ask whether the lease is still out.
TakeBack(u) ==
  LET left == IF Active(u) > 0 THEN Active(u) - 1 ELSE 0 IN
  /\ active_global' = IF active_global > 0 THEN active_global - 1 ELSE 0
  /\ active_by_user' = IF left = 0 THEN DropEntry(u) ELSE SetEntry(u, left)

\* The holder of a lease releases it.
Release(l) ==
  /\ stream[l] = "held"
  /\ stream' = [stream EXCEPT ![l] = "idle"]
  /\ TakeBack(UserOf[l])

Next == \E l \in Leases : Acquire(l) \/ AcquireRefused(l) \/ Release(l)

Spec == Init /\ [][Next]_vars

--------------------------------------------------------------------------------
\* The variables stay in their domains; a user's entry is never zero.
TypeOK ==
  /\ stream \in [Leases -> {"idle", "held", "refused"}]
  /\ active_global \in Nat
  /\ DOMAIN active_by_user \subseteq Users
  /\ \A u \in DOMAIN active_by_user : active_by_user[u] \in Nat \ {0}

(***************************************************************************)
(* The counters say exactly which leases are out: the clamping in release  *)
(* never hides a miscount, and a user without streams leaves nothing in    *)
(* the dict (streaming.py:33-39).                                          *)
(***************************************************************************)
CountersExact ==
  /\ active_global = Cardinality(Held)
  /\ DOMAIN active_by_user = {UserOf[l] : l \in Held}
  /\ \A u \in DOMAIN active_by_user : active_by_user[u] = Cardinality(HeldBy(u))

(***************************************************************************)
(* Never more leases out than configured, in total and for one user        *)
(* (streaming.py:25-28), whatever the order of grants and returns.         *)
(***************************************************************************)
WithinLimits ==
  /\ Cardinality(Held) <= GlobalCap
  /\ \A u \in Users : Cardinality(HeldBy(u)) <= PerUserCap

(***************************************************************************)
(* The counters implement the pool: a lease is granted when and only when  *)
(* the leases out leave room, so no 429 is answered while there is room.   *)
(***************************************************************************)
Pool == INSTANCE LeasePool
ImplementsPool == Pool!Spec
================================================================================
