------------------------------- MODULE LeasePool -------------------------------
(***************************************************************************)
(* What the stream limiter of src/src/finmind_api/streaming.py promises,   *)
(* stated without its counters: a lease is granted exactly when the leases *)
(* out at that moment leave room for it, globally and for its user.  The   *)
(* only state is which streams hold a lease.                               *)
(***************************************************************************)
EXTENDS Integers, FiniteSets

CONSTANTS
  Leases,      \* the streams that may ask for a lease
  UserOf,      \* the user a stream is opened by
  GlobalCap,   \* leases that may be out together
  PerUserCap   \* leases one user may have out

VARIABLE stream    \* "idle", "held" or "refused", per stream

Held      == {l \in Leases : stream[l] = "held"}
HeldBy(u) == {l \in Held : UserOf[l] = u}

\* There is room for one more lease, over all users and for this one.
Room(l) ==
  /\ Cardinality(Held) < GlobalCap
  /\ Cardinality(HeldBy(UserOf[l])) < PerUserCap

Init == stream = [l \in Leases |-> "idle"]

Grant(l) ==
  /\ stream[l] # "held"
  /\ Room(l)
  /\ stream' = [stream EXCEPT ![l] = "held"]

Refuse(l) ==
  /\ stream[l] # "held"
  /\ ~Room(l)
  /\ stream' = [stream EXCEPT ![l] = "refused"]

Return(l) ==
  /\ stream[l] = "held"
  /\ stream' = [stream EXCEPT ![l] = "idle"]

Next == \E l \in Leases : Grant(l) \/ Refuse(l) \/ Return(l)

Spec == Init /\ [][Next]_stream
================================================================================
