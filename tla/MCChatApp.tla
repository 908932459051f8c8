------------------------------- MODULE MCChatApp -------------------------------
(* Two runs, of which one streams stages and an answer, and one a citation      *)
(* that its record has as an audited copy; two titles and one plain conversation. *)
EXTENDS ChatApp, TLC

CONSTANTS run1, run2, ask, title1, title2

MCStarts == {run1, run2}
MCAsks   == {ask}
MCTitles == {title1, title2}
MCSlots  == {1, 2}

Event(kind, item)    == [kind |-> kind, item |-> item, status |-> "none"]
Stage(step, status)  == [kind |-> "run.stage", item |-> step, status |-> status]
Copy(id, snapshot)   == [id |-> id, snapshot |-> snapshot]

MCScript ==
  (run1 :> <<Stage("skill", "running"), Event("answer.delta", "unstripped"),
             Stage("skill", "success")>>)
  @@ (run2 :> <<Event("citation", Copy("fundamental", "raw"))>>)

\* workflowStreamStateFromRun of a record; it says complete of every one.
Full(steps, answer, citations) ==
  [complete |-> TRUE, steps |-> steps, answer |-> answer,
   citations |-> citations, artifacts |-> <<>>]
Done == <<[id |-> "skill", status |-> "success"]>>

MCRecord ==
  (run1 :> [success |-> Full(Done, <<"stripped">>, <<>>),
            failed  |-> Full(Done, <<>>, <<>>)])
  @@ (run2 :> [success |-> Full(<<>>, <<>>, <<Copy("fundamental", "audited")>>),
               failed  |-> Full(<<>>, <<>>, <<>>)])
================================================================================
