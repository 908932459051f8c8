---------------------------- MODULE MCStreamSession ----------------------------
(* Two requests of two users, or three, two of them of one user, over a script *)
(* with every kind of step: started, collection in a thread, a model answer,   *)
(* save and completed.                                                         *)
EXTENDS StreamSession

CONSTANTS alice, bob

MCUsers  == {alice, bob}
MCPair   == 1..2
MCTriple == 1..3
MCPairUserOf   == [r \in MCPair |-> IF r = 1 THEN alice ELSE bob]
MCTripleUserOf == [r \in MCTriple |-> IF r <= 2 THEN alice ELSE bob]

MCScript == <<"sync", "offload", "model", "save">>
================================================================================
