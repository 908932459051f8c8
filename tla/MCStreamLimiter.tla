---------------------------- MODULE MCStreamLimiter ----------------------------
(* Two users, one with three streams and one with two, so that the per-user *)
(* limit bites below the global one and the other way round.                *)
EXTENDS StreamLimiter

CONSTANTS alice, bob

MCLeases == 1..5
MCUsers  == {alice, bob}
MCUserOf == [l \in MCLeases |-> IF l <= 3 THEN alice ELSE bob]
================================================================================
