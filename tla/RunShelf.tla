-------------------------------- MODULE RunShelf --------------------------------
(***************************************************************************)
(* What the history of runs promises, with every operation atomic: a run   *)
(* is stored while it is open, by itself only; once it is settled a client *)
(* may give it a title or remove it, nothing else of it ever changes and,  *)
(* removed, it never comes back.                                           *)
(***************************************************************************)
CONSTANTS RunIds, Outcomes, Titles, NoTitle

VARIABLES
  shelf,     \* the runs of the history: run -> [outcome, title]
  settled    \* the runs whose execution is over

Init == shelf = [r \in {} |-> [outcome |-> "failed", title |-> NoTitle]]
        /\ settled = {}

Put(r, o) ==
  /\ r \notin settled
  /\ shelf' = [s \in DOMAIN shelf \union {r} |->
                 IF s = r THEN [outcome |-> o, title |-> NoTitle] ELSE shelf[s]]
  /\ settled' \in {settled, settled \union {r}}

\* One execution is over, or all that were running are cut off.
Settle ==
  /\ settled' \in SUBSET RunIds
  /\ settled \subseteq settled'
  /\ UNCHANGED shelf

Retitle(r, t) ==
  /\ r \in settled /\ r \in DOMAIN shelf
  /\ shelf' = [shelf EXCEPT ![r].title = t]
  /\ UNCHANGED settled

Remove(r) ==
  /\ r \in settled
  /\ shelf' = [s \in DOMAIN shelf \ {r} |-> shelf[s]]
  /\ UNCHANGED settled

Next ==
  \/ Settle
  \/ \E r \in RunIds : \/ \E o \in Outcomes : Put(r, o)
                       \/ \E t \in Titles : Retitle(r, t)
                       \/ Remove(r)

Spec == Init /\ [][Next]_<<shelf, settled>>
================================================================================
