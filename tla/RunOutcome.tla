------------------------------- MODULE RunOutcome -------------------------------
(***************************************************************************)
(* What clients can rely on about the outcomes of runs, without steps,     *)
(* answers, streams or tables.  Per run, `recorded' is the outcome the run *)
(* store shows and `told' the outcome its terminal event carried.  Nothing *)
(* is told that is not recorded at that moment; an outcome recorded but    *)
(* not yet told may still be replaced by a failure; once told it stands.   *)
(***************************************************************************)
CONSTANTS
  Runs,
  Outcomes   \* what a run can end as: "failed" and the ways to complete

VARIABLES recorded, told

Init ==
  /\ recorded = [r \in Runs |-> "none"]
  /\ told = [r \in Runs |-> "none"]

\* The outcome is stored; the client is told of it with that step or later.
Record(r, o) ==
  /\ told[r] = "none"
  /\ recorded[r] = "none" \/ o = "failed"
  /\ recorded' = [recorded EXCEPT ![r] = o]
  /\ \/ told' = told
     \/ told' = [told EXCEPT ![r] = o]

Tell(r) ==
  /\ told[r] = "none" /\ recorded[r] # "none"
  /\ told' = [told EXCEPT ![r] = recorded[r]]
  /\ UNCHANGED recorded

Next == \E r \in Runs : Tell(r) \/ \E o \in Outcomes : Record(r, o)

Spec == Init /\ [][Next]_<<recorded, told>>
================================================================================
