--------------------------- MODULE WorkflowRun_proofs ---------------------------
(***************************************************************************)
(* Proofs about WorkflowRun, for every set of workflow definitions, every  *)
(* length of an answer and every number of citations.                      *)
(*                                                                         *)
(* They follow the record from the statement that saves it to the event    *)
(* that carries it: the locals it is built from do not change on the way,  *)
(* and the generator is suspended before the first statement or after the  *)
(* event, never between.                                                   *)
(*                                                                         *)
(* The second half is about the trace of a run: what it did of its         *)
(* sequence, what it streamed of that and the record it made of it.  Three *)
(* invariants follow one another.  Data says where the generator is in its *)
(* sequence and what may be cited; Trace that the views of the stream, one *)
(* for each kind of event, keep up with the locals, one event behind while *)
(* citations are emitted; Kept that the record told and stored is the one  *)
(* made of those locals.                                                   *)
(***************************************************************************)
EXTENDS WorkflowRun, Selection_proofs

RowOf(run) == [status |-> run.status, data |-> run]

Before == Suspended \ {"told"}     \* suspended with nothing stored yet
After  == {"told", "returned"}

Sequenced == \E S : events \in Seq(S)

\* What the tables hold at each place of the generator.
TablesAt ==
  /\ DOMAIN runs \subseteq {run_id}
  /\ pc \in Before \union After \union {"closed", "died", "crashed", "clearing",
                                        "inserting", "handler"}
  /\ pc \in Before => ~Stored(run_id) /\ run_citations = {}
  /\ pc = "closed" /\ ~Told => ~Stored(run_id) /\ run_citations = {}
  /\ pc \in {"clearing", "inserting"} => Stored(run_id) /\ runs[run_id] = RowOf(FinalRun)
  /\ pc = "inserting" => CitationRows(run_id) \subseteq RowsOf(run_id, FinalRun.citations)

\* Something is told only at the end, and it is what the tables hold.
ToldAt ==
  /\ Told => pc \in After \union {"closed", "crashed"}
  /\ pc \in After => Told

IInv == Sequenced /\ TablesAt /\ ToldAt /\ ToldIsPersisted

USE DEF GoTo, localVars, tables, Suspended, Before, After, Ended

--------------------------------------------------------------------------------
\* The last event after one was emitted.
LEMMA EmitLast ==
  ASSUME Sequenced, NEW e, Emit(e)
  PROVE  /\ Sequenced'
         /\ events' # <<>> /\ events'[Len(events')] = e
<1>1. PICK S : events \in Seq(S)
  BY DEF Sequenced
<1>2. events \in Seq(S \union {e})
  BY <1>1
<1>3. events' \in Seq(S \union {e}) /\ events' # <<>> /\ events'[Len(events')] = e
  BY <1>2 DEF Emit
<1>4. QED
  BY <1>3 DEF Sequenced

\* An event that ends nothing tells nothing.
LEMMA EmitTellsNothing ==
  ASSUME Sequenced, NEW e, Emit(e), e.kind \notin {"run.completed", "run.failed"}
  PROVE  Sequenced' /\ ~Told'
BY EmitLast DEF Told

\* A terminal event tells the run it carries.
LEMMA EmitTells ==
  ASSUME Sequenced, NEW k \in {"run.completed", "run.failed"}, NEW run,
         Emit(Terminal(k, run))
  PROVE  Sequenced' /\ Told' /\ ToldRun' = run /\ events'[Len(events')].kind = k
BY EmitLast DEF Told, ToldRun, Terminal

\* The final record is built from locals.
LEMMA SameFinalRun == UNCHANGED localVars => FinalRun' = FinalRun
BY DEF FinalRun, RunStatus, SkillSteps

\* A run ends as one of the three statuses.
LEMMA FinalStatus == FinalRun.status \in SkillStatuses /\ FailedRun.status = "failed"
BY DEF FinalRun, FailedRun, RunStatus, SkillStatuses

\* Nothing is stored and nothing has been told at first.
LEMMA InvInit == Init => IInv
<1> SUFFICES ASSUME Init PROVE IInv
  OBVIOUS
<1>1. Sequenced /\ ~Told
  BY DEF Init, Sequenced, Told
<1>2. QED
  BY <1>1 DEF Init, IInv, TablesAt, ToldAt, ToldIsPersisted, Stored

\* A step that neither touches the tables nor tells anything.
LEMMA QuietStep ==
  ASSUME IInv, pc \in Before, UNCHANGED tables, Sequenced', ~Told',
         pc' \in Before \union {"closed", "crashed", "handler"}
  PROVE  IInv'
BY DEF IInv, TablesAt, ToldAt, ToldIsPersisted, Stored

\* Up to the chart every step is such a step.
LEMMA WorkStep ==
  ASSUME IInv, Start \/ BeginStep \/ Collect \/ Ask \/ AnswerDelta \/ AnswerEnds
                 \/ Judge \/ Cite \/ Chart
  PROVE  IInv'
<1>1. Sequenced /\ ~Told
  <2>1. pc \in Before
    BY DEF Start, BeginStep, Collect, Ask, AnswerDelta, AnswerEnds, Judge, Cite, Chart
  <2>2. QED
    BY <2>1 DEF IInv, ToldAt
<1>2. UNCHANGED events => Sequenced' /\ ~Told'
  BY <1>1 DEF Sequenced, Told
<1>3. CASE Start
  BY <1>1, <1>3, QuietStep, EmitTellsNothing DEF Start, Started
<1>4. CASE BeginStep
  BY <1>1, <1>4, QuietStep, EmitTellsNothing DEF BeginStep, Stage
<1>5. CASE Collect
  BY <1>1, <1>2, <1>5, QuietStep, EmitTellsNothing DEF Collect, Collected, Raise, Stage
<1>6. CASE Ask
  BY <1>1, <1>2, <1>6, QuietStep, EmitTellsNothing DEF Ask, Raise, Stage
<1>7. CASE AnswerDelta
  BY <1>1, <1>2, <1>7, QuietStep, EmitTellsNothing DEF AnswerDelta, Delta
<1>8. CASE AnswerEnds
  BY <1>2, <1>8, QuietStep DEF AnswerEnds, Raise
<1>9. ASSUME NEW cites, NEW st, NextOfResult(cites, st)
      PROVE  Sequenced' /\ ~Told' /\ pc' \in {"next", "citing"}
  BY <1>1, <1>9, EmitTellsNothing DEF NextOfResult, Stage, Cited
<1>10. CASE Judge
  BY <1>2, <1>9, <1>10, QuietStep DEF Judge, Accept, Raise
<1>11. CASE Cite
  BY <1>9, <1>11, QuietStep DEF Cite
<1>12. CASE Chart
  BY <1>1, <1>12, QuietStep, EmitTellsNothing DEF Chart, Artifact
<1>13. QED
  BY <1>3, <1>4, <1>5, <1>6, <1>7, <1>8, <1>10, <1>11, <1>12

\* The statements that store the outcome, and the event that tells it.
LEMMA StoreStep ==
  ASSUME IInv, Save \/ ClearCitations \/ InsertCitation \/ Complete \/ Fail
  PROVE  IInv'
<1>1. Sequenced /\ ~Told
  BY DEF IInv, ToldAt, Save, ClearCitations, InsertCitation, Complete, Fail
<1>2. UNCHANGED events => Sequenced' /\ ~Told'
  BY <1>1 DEF Sequenced, Told
<1>3. CASE Raise
  BY <1>2, <1>3 DEF Raise, IInv, TablesAt, ToldAt, ToldIsPersisted
<1>4. CASE Save
  <2>1. CASE /\ UpsertRun(run_id, FinalRun.status, FinalRun) /\ pc' = "clearing"
             /\ UNCHANGED <<run_citations, localVars, events>>
    <3>1. DOMAIN runs' = {run_id} /\ runs'[run_id] = RowOf(FinalRun)'
      BY <2>1, SameFinalRun DEF UpsertRun, RowOf, IInv, TablesAt
    <3>2. QED
      BY <1>2, <2>1, <3>1 DEF IInv, TablesAt, ToldAt, ToldIsPersisted, Stored
  <2>2. QED
    BY <1>3, <1>4, <2>1 DEF Save
<1>5. CASE ClearCitations
  BY <1>2, <1>3, <1>5, SameFinalRun
     DEF ClearCitations, DeleteCitationRows, CitationRows, IInv, TablesAt, ToldAt,
         ToldIsPersisted, Stored, RowOf
<1>6. CASE InsertCitation
  <2>1. CASE \E row \in Missing :
               /\ InsertCitationRow(row.run_id, row.citation_id, row.snapshot)
               /\ UNCHANGED <<runs, pc, localVars, events>>
    <3>1. PICK row \in RowsOf(run_id, FinalRun.citations) :
            InsertCitationRow(row.run_id, row.citation_id, row.snapshot)
      BY <2>1 DEF Missing
    <3>2. run_citations' = run_citations \union {row}
      BY <3>1 DEF InsertCitationRow, RowsOf
    <3>3. CitationRows(run_id)' \subseteq CitationRows(run_id) \union {row}
      BY <3>2 DEF CitationRows
    <3>4. QED
      BY <1>2, <1>6, <2>1, <3>1, <3>3, SameFinalRun
         DEF InsertCitation, IInv, TablesAt, ToldAt, ToldIsPersisted, Stored, RowOf
  <2>2. QED
    BY <1>3, <1>6, <2>1 DEF InsertCitation
<1>7. CASE Complete
  <2>1. /\ Sequenced' /\ Told' /\ ToldRun' = FinalRun
    BY <1>1, <1>7, EmitTells DEF Complete
  <2>2. CitationRows(run_id) = RowsOf(run_id, FinalRun.citations)
    BY <1>7 DEF Complete, Missing, IInv, TablesAt
  <2>3. ToldIsPersisted'
    BY <1>7, <2>1, <2>2 DEF Complete, ToldIsPersisted, IInv, TablesAt, Stored, RowOf,
                           CitationRows
  <2>4. QED
    BY <1>7, <2>1, <2>3 DEF Complete, IInv, TablesAt, ToldAt, Stored
<1>8. CASE Fail
  <2>1. CASE /\ UpsertRun(run_id, "failed", FailedRun)
            /\ Emit(Terminal("run.failed", FailedRun))
               /\ pc' = "told"
    <3>1. /\ Sequenced' /\ Told' /\ ToldRun' = FailedRun
          /\ events'[Len(events')].kind = "run.failed"
      BY <1>1, <2>1, EmitTells
    <3>2. DOMAIN runs' = {run_id} /\ runs'[run_id] = RowOf(FailedRun)
      BY <2>1, FinalStatus DEF UpsertRun, RowOf, IInv, TablesAt
    <3>3. QED
      BY <2>1, <3>1, <3>2 DEF IInv, TablesAt, ToldAt, ToldIsPersisted, Stored, RowOf
  <2>2. CASE pc' = "died" /\ UNCHANGED <<tables, localVars, events>>
    BY <1>2, <2>2 DEF IInv, TablesAt, ToldAt, ToldIsPersisted
  <2>3. QED
    BY <1>8, <2>1, <2>2 DEF Fail
<1>9. QED
  BY <1>4, <1>5, <1>6, <1>7, <1>8

\* The generator returns, is closed, dies or does nothing.
LEMMA EndStep ==
  ASSUME IInv, Return \/ Close \/ Crash \/ UNCHANGED vars
  PROVE  IInv'
<1>1. UNCHANGED <<tables, localVars, events>>
  BY DEF Return, Close, Crash, vars
<1>2. (Sequenced' <=> Sequenced) /\ (Told' <=> Told) /\ ToldRun' = ToldRun
  BY <1>1 DEF Sequenced, Told, ToldRun
<1>3. (ToldIsPersisted <=> ToldIsPersisted') /\ FinalRun' = FinalRun
  BY <1>1, <1>2, SameFinalRun DEF ToldIsPersisted, Stored, CitationRows
<1>4. TablesAt' /\ ToldAt'
  BY <1>1, <1>2, <1>3
     DEF Return, Close, Crash, vars, IInv, TablesAt, ToldAt, Stored, RowOf, CitationRows
<1>5. QED
  BY <1>2, <1>3, <1>4 DEF IInv

\* IInv is inductive.
LEMMA InvAlways == Spec => []IInv
<1>1. IInv /\ [Next]_vars => IInv'
  BY WorkStep, StoreStep, EndStep DEF Next, Progress, Terminated
<1>2. QED
  BY <1>1, InvInit, PTL DEF Spec

--------------------------------------------------------------------------------
(***************************************************************************)
(* The terminal event carries the record and the citations that are in the *)
(* tables (service.py:388-437, run_store.py:166-224).                      *)
(***************************************************************************)
THEOREM ToldAlwaysPersisted == Spec => []ToldIsPersisted
<1>1. IInv => ToldIsPersisted
  BY DEF IInv
<1>2. QED
  BY <1>1, InvAlways, PTL

(***************************************************************************)
(* A run that is cancelled, wherever the generator was suspended, leaves   *)
(* nothing in the tables unless its client was told.                       *)
(***************************************************************************)
THEOREM CloseIsClean == Spec => []CloseLeavesNoHalf
<1>1. IInv => CloseLeavesNoHalf
  BY DEF IInv, TablesAt, CloseLeavesNoHalf
<1>2. QED
  BY <1>1, InvAlways, PTL

--------------------------------------------------------------------------------
\* What is recorded and what is told, as ImplementsOutcome maps them.
Recorded == [r \in {run_id} |-> IF Stored(r) THEN runs[r].status ELSE "none"]
ToldOf   == [r \in {run_id} |-> IF Told THEN ToldRun.status ELSE "none"]

\* The three steps that record or tell something; the others leave both.
LEMMA OutcomeStep ==
  ASSUME IInv, [Next]_vars
  PROVE  Outcome!Next \/ UNCHANGED <<Recorded, ToldOf>>
<1>0. IInv'
  BY WorkStep, StoreStep, EndStep DEF Next, Progress, Terminated
<1>1. CASE UNCHANGED runs /\ (Told' <=> Told) /\ (Told => ToldRun' = ToldRun)
  BY <1>1 DEF Recorded, ToldOf, Stored
<1>2. CASE UNCHANGED runs /\ ~Told /\ ~Told'
  BY <1>2 DEF Recorded, ToldOf, Stored
<1>3. CASE /\ pc = "charted" /\ UpsertRun(run_id, FinalRun.status, FinalRun)
           /\ UNCHANGED events
  <2>1. /\ ~Stored(run_id) /\ ~Told /\ ~Told'
        /\ Stored(run_id)' /\ runs'[run_id].status = FinalRun.status
    BY <1>3 DEF IInv, TablesAt, ToldAt, Told, UpsertRun, Stored
  <2>2. PICK status \in SkillStatuses : status = FinalRun.status
    BY FinalStatus
  <2>3. Outcome!Record(run_id, status)
    BY <2>1, <2>2 DEF Outcome!Record, Recorded, ToldOf
  <2>4. QED
    BY <2>3 DEF Outcome!Next
<1>4. CASE Complete
  <2>1. /\ ~Told /\ Told' /\ ToldRun' = FinalRun
    BY <1>4, EmitTells DEF Complete, IInv, ToldAt
  <2>2. Stored(run_id) /\ runs[run_id].status = FinalRun.status /\ UNCHANGED runs
    BY <1>4 DEF Complete, IInv, TablesAt, RowOf
  <2>3. Outcome!Tell(run_id)
    BY <2>1, <2>2, FinalStatus DEF Outcome!Tell, Recorded, ToldOf, Stored, SkillStatuses
  <2>4. QED
    BY <2>3 DEF Outcome!Next
<1>5. CASE /\ pc = "handler" /\ UpsertRun(run_id, "failed", FailedRun)
           /\ Emit(Terminal("run.failed", FailedRun))
  <2>1. /\ ~Told /\ Told' /\ ToldRun' = FailedRun
    BY <1>5, EmitTells DEF IInv, ToldAt
  <2>2. Stored(run_id)' /\ runs'[run_id].status = "failed"
    BY <1>5 DEF UpsertRun, Stored
  <2>3. Outcome!Record(run_id, "failed")
    BY <2>1, <2>2, FinalStatus DEF Outcome!Record, Recorded, ToldOf
  <2>4. QED
    BY <2>3 DEF Outcome!Next, SkillStatuses
<1>6. CASE Start \/ BeginStep \/ Collect \/ Ask \/ AnswerDelta \/ AnswerEnds
             \/ Judge \/ Cite \/ Chart
  <2>1. pc \in Before /\ UNCHANGED runs /\ pc' \in Before \union {"handler"}
    BY <1>6 DEF Start, BeginStep, Collect, Collected, Ask, AnswerDelta, AnswerEnds, Judge,
                Accept, Cite, NextOfResult, Chart, Raise
  <2>2. QED
    BY <1>0, <1>2, <2>1 DEF IInv, ToldAt
<1>7. CASE ClearCitations \/ InsertCitation \/ Return \/ Close \/ Crash \/ UNCHANGED vars
  <2>1. UNCHANGED <<runs, events>>
    BY <1>7 DEF ClearCitations, InsertCitation, Raise, Return, Close, Crash, vars
  <2>2. QED
    BY <1>1, <2>1 DEF Told, ToldRun
<1>8. CASE Save \/ Fail
  <2>1. CASE UNCHANGED <<runs, events>>
    BY <1>1, <2>1 DEF Told, ToldRun
  <2>2. QED
    BY <1>3, <1>5, <1>8, <2>1 DEF Save, Fail, Raise
<1>9. QED
  BY <1>4, <1>6, <1>7, <1>8 DEF Next, Progress, Terminated

(***************************************************************************)
(* Every step of the generator, closes and crashes included, is a step of  *)
(* the outcome or leaves it: nothing is told that is not recorded, and     *)
(* once told it stands (service.py:388-437).                               *)
(***************************************************************************)
THEOREM RunImplementsOutcome == Spec => ImplementsOutcome
<1>1. Init => Outcome!Init
  BY DEF Init, Outcome!Init, Stored, Told
<1>2. IInv /\ [Next]_vars => [Outcome!Next]_<<Recorded, ToldOf>>
  BY OutcomeStep
<1>3. QED
  BY <1>1, <1>2, InvAlways, PTL DEF Spec, ImplementsOutcome, Outcome!Spec, Recorded, ToldOf

--------------------------------------------------------------------------------
(* The trace of a run.                                                     *)

Deltas   == Streamed("answer.delta")
Texts    == [i \in DOMAIN Deltas |-> Deltas[i].text]
CitedIds == {e.citation_id : e \in Range(Streamed("citation"))}
LastSkill == workflow.step_sequence[StepCount]

SkillIds == {collect_data, Auditor, Fundamental, Technical}
StepType == [id : SkillIds, kind : {"collect_data", "skill"}, status : SkillStatuses]

\* How far the generator is in the sequence, and what it has done of it.
PlaceOf ==
  /\ pc = "start" => step = 0
  /\ pc = "collecting" => step = 1
  /\ pc \in {"asking", "answering", "judging", "citing"} => step \in 2..StepCount
  /\ pc \in {"charted", "clearing", "inserting"} => step = StepCount

StepsOf ==
  /\ steps \in Seq(StepType)
  /\ \A i \in DOMAIN steps : steps[i].id = workflow.step_sequence[i]
  /\ pc \in {"start", "next", "citing", "charted", "clearing", "inserting"} =>
       Len(steps) = step
  /\ pc \in {"collecting", "asking", "answering", "judging"} => Len(steps) = step - 1

GivenTo(n) == UNION {SkillRecords(workflow.step_sequence[i], bundle) : i \in 2..n}

\* Only what a skill was given is cited.
GroundedOf ==
  /\ used \subseteq GivenTo(step) /\ used \subseteq DOMAIN catalog
  /\ pc \in {"answering", "judging"} => Allowlist \subseteq DOMAIN catalog

\* The answer that is streamed and the section that is made of it.
SectionType == [stage : {LastSkill}, status : SkillStatuses,
                content : {Texts} \intersect Seq({"fine"}), citations : SUBSET used]
AnswerOf ==
  /\ Deltas \in Seq([kind : {"answer.delta"}, stage : {LastSkill}, text : Chunks])
  /\ step < StepCount \/ pc = "asking" => Deltas = <<>>
  /\ pc \in {"answering", "judging"} /\ step = StepCount => Texts = answer
  /\ pc = "judging" => answer \in Seq({"fine"})
  /\ sections \in Seq(SectionType)
  /\ step < StepCount \/ pc \in {"asking", "answering", "judging"} => sections = <<>>

\* The events that close a step, and those that cite, keep up with the record.
Between == {"citing", "closed", "crashed"}
ClosingOf ==
  /\ Closing \in Seq([kind : {"run.stage"}, stage : SkillIds, status : SkillStatuses])
  /\ Len(Closing) <= Len(steps)
  /\ \A i \in DOMAIN Closing : Closing[i].stage = steps[i].id
                                /\ Closing[i].status = steps[i].status
  /\ pc = "citing" => Len(steps) = Len(Closing) + 1
  /\ pc \notin Between \/ Told => Len(Closing) = Len(steps)

CitedOf ==
  /\ pc = "citing" => CitedIds \union Range(todo) = used
  /\ pc \notin Between \/ Told => CitedIds = used

\* What was told is the record of what was done.
Ends(e) == e.kind \in {"run.completed", "run.failed"}
RecordOf ==
  /\ \A i \in 1..(Len(events) - 1) : ~Ends(events[i])
  /\ Told => /\ ToldRun.steps = steps /\ ToldRun.sections = sections
             /\ events[Len(events)].kind = "run.completed" =>
                  DOMAIN ToldRun.citations = used

\* The length of a workflow and what it is made of.
LEMMA WorkflowFacts ==
  ASSUME workflow \in Workflows
  PROVE  /\ StepCount \in Nat /\ StepCount >= 2
         /\ \A i \in 1..StepCount : workflow.step_sequence[i] \in SkillIds
         /\ workflow.step_sequence[1] = collect_data
         /\ \A i \in 2..StepCount : workflow.step_sequence[i] # collect_data
         /\ workflow.groups \subseteq SourceKinds
BY WorkflowAssumption DEF StepCount, SkillIds

\* The members of a sequence with one more element.
LEMMA RangeOfAppend ==
  ASSUME NEW S, NEW s \in Seq(S), NEW e
  PROVE  Range(Append(s, e)) = Range(s) \union {e}
<1> DEFINE t == Append(s, e)
<1>1. /\ DOMAIN s = 1..Len(s) /\ DOMAIN t = 1..(Len(s) + 1) /\ Len(s) \in Nat
      /\ t[Len(s) + 1] = e /\ \A i \in 1..Len(s) : t[i] = s[i]
  OBVIOUS
<1> HIDE DEF t
<1>2. \A i \in 1..(Len(s) + 1) : i \in 1..Len(s) \/ i = Len(s) + 1
  BY <1>1
<1>3. 1..Len(s) \subseteq 1..(Len(s) + 1) /\ Len(s) + 1 \in 1..(Len(s) + 1)
  BY <1>1
<1>4. Range(t) = Range(s) \union {e}
  BY <1>1, <1>2, <1>3 DEF Range
<1>5. QED
  BY <1>4 DEF t

\* What an event adds to each view of the stream.
LEMMA EmitHistory ==
  ASSUME Sequenced, NEW e, Emit(e)
  PROVE  /\ Deltas' = IF e.kind = "answer.delta" THEN Append(Deltas, e) ELSE Deltas
         /\ Closing' = IF e.kind = "run.stage" /\ e.status # "running"
                       THEN Append(Closing, e) ELSE Closing
         /\ CitedIds' = CitedIds \union (IF e.kind = "citation" THEN {e.citation_id} ELSE {})
<1>1. PICK S : events \in Seq(S)
  BY DEF Sequenced
<1>2. /\ events' = Append(events, e) /\ Len(events) \in Nat
      /\ DOMAIN events = 1..Len(events) /\ DOMAIN events' = 1..(Len(events) + 1)
      /\ \A i \in 1..Len(events) : events'[i] = events[i]
      /\ events'[Len(events) + 1] = e
  BY <1>1 DEF Emit
<1> DEFINE At(kind) == {i \in DOMAIN events : events[i].kind = kind}
           C == {i \in DOMAIN events : events[i].kind = "run.stage"
                                       /\ events[i].status # "running"}
<1>3. ASSUME NEW kind
      PROVE  Streamed(kind)' = IF e.kind = kind THEN Append(Streamed(kind), e)
                                                ELSE Streamed(kind)
  <2>1. At(kind)' \intersect DOMAIN events = At(kind) \intersect DOMAIN events
    BY <1>2
  <2>2. Len(events) + 1 \in At(kind)' <=> e.kind = kind
    BY <1>2
  <2> HIDE DEF At
  <2>3. Picked(Append(events, e), At(kind)') =
          IF Len(events) + 1 \in At(kind)' THEN Append(Picked(events, At(kind)), e)
                                           ELSE Picked(events, At(kind))
    BY <1>1, <2>1, PickedOfAppend
  <2>4. QED
    BY <1>2, <2>2, <2>3 DEF Streamed, At
<1>4. Closing' = IF e.kind = "run.stage" /\ e.status # "running"
                 THEN Append(Closing, e) ELSE Closing
  <2>1. C' \intersect DOMAIN events = C \intersect DOMAIN events
    BY <1>2
  <2>2. Len(events) + 1 \in C' <=> e.kind = "run.stage" /\ e.status # "running"
    BY <1>2
  <2> HIDE DEF C
  <2>3. Picked(Append(events, e), C') =
          IF Len(events) + 1 \in C' THEN Append(Picked(events, C), e) ELSE Picked(events, C)
    BY <1>1, <2>1, PickedOfAppend
  <2>4. QED
    BY <1>2, <2>2, <2>3 DEF Closing, C
<1>5. CitedIds' = CitedIds \union (IF e.kind = "citation" THEN {e.citation_id} ELSE {})
  <2>1. Streamed("citation") \in Seq(S)
    BY <1>1, PickedElements DEF Streamed
  <2>2. Range(Append(Streamed("citation"), e)) = Range(Streamed("citation")) \union {e}
    BY <2>1, RangeOfAppend
  <2>3. QED
    BY <1>3, <2>2 DEF CitedIds
<1>6. QED
  BY <1>3, <1>4, <1>5 DEF Deltas

\* Without an event the views stay.
LEMMA SameHistory ==
  ASSUME UNCHANGED events
  PROVE  UNCHANGED <<Deltas, Texts, Closing, CitedIds>>
BY DEF Deltas, Texts, Closing, CitedIds, Streamed

--------------------------------------------------------------------------------
\* What the run does of its sequence, and what it may cite.
Data == TypeOK /\ PlaceOf /\ StepsOf /\ GroundedOf

\* Steps that leave the locals: the tables may have a row more, of something cited.
LEMMA TypeKept ==
  ASSUME TypeOK, UNCHANGED localVars,
         pc' \in Suspended \union Ended \union {"clearing", "inserting", "handler"},
         DOMAIN runs' \subseteq {run_id},
         \A row \in run_citations' : row.run_id = run_id /\ row.citation_id \in Kinds
  PROVE  TypeOK'
BY DEF TypeOK, StepCount

\* Once it is over for the steps only the record matters.
LEMMA DataOver ==
  ASSUME Data, UNCHANGED localVars, TypeOK', pc' \in Ended \union {"handler", "told"}
  PROVE  Data'
BY DEF Data, PlaceOf, StepsOf, GroundedOf, GivenTo, StepCount

\* An exception: nothing was done.
LEMMA DataRaise == Data /\ Raise => Data'
<1> SUFFICES ASSUME Data, Raise PROVE Data'
  OBVIOUS
<1>1. TypeOK'
  BY TypeKept DEF Raise, Data, TypeOK
<1>2. QED
  BY <1>1, DataOver DEF Raise

\* Nothing was done at first.
LEMMA DataInit == Init => Data
<1> SUFFICES ASSUME Init PROVE Data
  OBVIOUS
<1>1. TypeOK
  BY WorkflowFacts DEF Init, TypeOK
<1>2. PlaceOf /\ StepsOf /\ GroundedOf
  BY DEF Init, PlaceOf, StepsOf, GroundedOf, GivenTo
<1>3. QED
  BY <1>1, <1>2 DEF Data

\* The records a skill is given are of the bundle.
LEMMA GivenFacts ==
  ASSUME NEW skill, NEW all
  PROVE  SkillRecords(skill, all) \subseteq all
BY DEF SkillRecords

\* The first event.
LEMMA DataStart == Data /\ Start => Data'
<1> SUFFICES ASSUME Data, Start PROVE Data'
  OBVIOUS
<1>1. TypeOK'
  BY TypeKept DEF Start, Data, TypeOK
<1>2. QED
  BY <1>1 DEF Start, Data, TypeOK, PlaceOf, StepsOf, GroundedOf, GivenTo, StepCount

\* The next step of the sequence; what was cited so far stays allowed.
LEMMA DataBeginStep == Data /\ BeginStep => Data'
<1> SUFFICES ASSUME Data, BeginStep PROVE Data'
  OBVIOUS
<1>1. workflow \in Workflows /\ step \in 0..(StepCount - 1) /\ step' = step + 1 /\ pc = "next"
  BY WorkflowFacts DEF BeginStep, Data, TypeOK
<1>2. StepCount' = StepCount
  BY DEF BeginStep, StepCount
<1>3. pc' = IF step = 0 THEN "collecting" ELSE "asking"
  <2>1. step + 1 = 1 \/ step + 1 \in 2..StepCount
    BY <1>1, WorkflowFacts
  <2>2. QED
    BY <1>1, <2>1, WorkflowFacts DEF BeginStep
<1>4. TypeOK'
  BY <1>1, <1>2, <1>3, WorkflowFacts DEF BeginStep, Data, TypeOK
<1>5. PlaceOf'
  BY <1>1, <1>2, <1>3, WorkflowFacts DEF PlaceOf
<1>6. StepsOf'
  BY <1>1, <1>3 DEF BeginStep, Data, StepsOf
<1>7. GroundedOf'
  <2>1. 2..step \subseteq 2..(step + 1)
    BY <1>1
  <2>2. GivenTo(step) \subseteq GivenTo(step)'
    <3>1. GivenTo(step) \subseteq GivenTo(step + 1)
      BY <2>1 DEF GivenTo
    <3>2. GivenTo(step)' = GivenTo(step + 1)
      BY <1>1 DEF BeginStep, GivenTo
    <3>3. QED
      BY <3>1, <3>2
  <2>3. pc' \notin {"answering", "judging"}
    BY <1>3
  <2>4. UNCHANGED <<used, catalog>> /\ used \subseteq GivenTo(step) /\ used \subseteq DOMAIN catalog
    BY DEF BeginStep, Data, GroundedOf
  <2>5. QED
    BY <2>2, <2>3, <2>4 DEF GroundedOf
<1>8. QED
  BY <1>4, <1>5, <1>6, <1>7 DEF Data

\* The collection is the first step, so the records never change under a skill.
LEMMA DataCollect == Data /\ Collect => Data'
<1> SUFFICES ASSUME Data, Collect PROVE Data'
  OBVIOUS
<1>1. CASE Raise
  BY <1>1, DataRaise
<1>2. CASE Collected
  <2>1. PICK got \in SUBSET workflow.groups, st \in CollectStatuses :
          /\ bundle' = got \union Derived(got)
          /\ catalog' = [k \in bundle' |-> "raw"]
          /\ steps' = Append(steps, Step(collect_data, "collect_data", st))
          /\ pc' = "next"
          /\ UNCHANGED <<tables, workflow, step, answer, todo, sections, used, uncited>>
    BY <1>2 DEF Collected
  <2>2. workflow \in Workflows /\ step = 1 /\ StepCount' = StepCount
    BY <2>1 DEF Collect, Data, PlaceOf, TypeOK, StepCount
  <2>3. Derived(got) \subseteq Kinds /\ bundle' \subseteq Kinds
    BY <2>1, <2>2, WorkflowFacts DEF Derived, Kinds, SourceKinds, DerivedKinds
  <2>4. Step(collect_data, "collect_data", st) \in StepType /\ st \in SkillStatuses
    BY DEF Step, StepType, SkillIds, CollectStatuses, SkillStatuses
  <2>5. steps = <<>>
    BY <2>2 DEF Collect, Data, StepsOf
  <2>6. TypeOK'
    BY <2>1, <2>2, <2>3, <2>4, <2>5 DEF Data, TypeOK, Step
  <2>7. PlaceOf'
    BY <2>1 DEF PlaceOf
  <2>8. StepsOf'
    BY <2>1, <2>2, <2>4, <2>5, WorkflowFacts DEF StepsOf, Step
  <2>9. GroundedOf'
    BY <2>1, <2>2 DEF Data, GroundedOf, GivenTo
  <2>10. QED
    BY <2>6, <2>7, <2>8, <2>9 DEF Data
<1>3. QED
  BY <1>1, <1>2 DEF Collect

\* A skill's records get their citations before it answers.
LEMMA DataAsk == Data /\ Ask => Data'
<1> SUFFICES ASSUME Data, Ask PROVE Data'
  OBVIOUS
<1>1. CASE Raise
  BY <1>1, DataRaise
<1>2. CASE /\ catalog' = Updated(skill_id, Allowlist) /\ answer' = <<>> /\ pc' = "answering"
           /\ UNCHANGED <<tables, workflow, step, bundle, todo, steps, sections, used, uncited>>
  <2>1. Allowlist \subseteq Kinds /\ Allowlist' = Allowlist /\ StepCount' = StepCount
    BY <1>2, GivenFacts DEF Allowlist, skill_id, Data, TypeOK, StepCount
  <2>2. /\ DOMAIN catalog' = DOMAIN catalog \union Allowlist
        /\ catalog' \in [DOMAIN catalog' -> {"raw", "audited"}]
    BY <1>2 DEF Updated, Snapshot, Data, TypeOK
  <2>3. TypeOK'
    BY <1>2, <2>1, <2>2 DEF Data, TypeOK
  <2>4. PlaceOf' /\ StepsOf'
    BY <1>2, <2>1 DEF Ask, Data, PlaceOf, StepsOf
  <2>5. GroundedOf'
    BY <1>2, <2>1, <2>2 DEF Data, GroundedOf, GivenTo
  <2>6. QED
    BY <2>3, <2>4, <2>5 DEF Data
<1>3. QED
  BY <1>1, <1>2 DEF Ask

\* Chunks, and the end of the stream.
LEMMA DataAnswer == Data /\ (AnswerDelta \/ AnswerEnds) => Data'
<1> SUFFICES ASSUME Data, AnswerDelta \/ AnswerEnds PROVE Data'
  OBVIOUS
<1>1. CASE AnswerDelta
  <2>1. answer' \in Seq(Chunks)
    BY <1>1 DEF AnswerDelta, Data, TypeOK
  <2>2. QED
    BY <1>1, <2>1 DEF AnswerDelta, Data, TypeOK, PlaceOf, StepsOf, GroundedOf, GivenTo,
                      Allowlist, skill_id, StepCount
<1>2. CASE Raise
  BY <1>2, DataRaise
<1>3. CASE pc = "answering" /\ pc' = "judging" /\ UNCHANGED <<tables, localVars, events>>
  <2>1. TypeOK'
    BY <1>3, TypeKept DEF Data, TypeOK
  <2>2. QED
    BY <1>3, <2>1
       DEF Data, PlaceOf, StepsOf, GroundedOf, GivenTo, Allowlist, skill_id, StepCount
<1>4. QED
  BY <1>1, <1>2, <1>3 DEF AnswerEnds

\* What a result may cite; what of it is still to be emitted are all of its citations.
LEMMA CitesFacts ==
  ASSUME Data, pc = "judging", NEW n \in Nat,
         NEW cites \in [1..n -> DOMAIN catalog \union {Forged}], ValidMetadata(cites)
  PROVE  /\ Range(cites) \subseteq Allowlist /\ Allowlist \subseteq DOMAIN catalog
         /\ Allowlist \subseteq Kinds /\ cites \in Seq(Kinds)
         /\ LET told == Picked(cites, {i \in DOMAIN cites : cites[i] \in DOMAIN catalog})
            IN told \in Seq(Kinds) /\ Range(told) = Range(cites)
<1>1. Range(cites) \subseteq Allowlist /\ Allowlist \subseteq DOMAIN catalog
  BY DEF ValidMetadata, Data, GroundedOf
<1>2. Allowlist \subseteq Kinds
  BY GivenFacts DEF Allowlist, Data, TypeOK
<1>3. \A i \in 1..n : cites[i] \in Allowlist
  BY <1>1 DEF Range
<1>4. cites \in Seq(Kinds)
  <2>1. cites \in [1..n -> Kinds]
    BY <1>2, <1>3
  <2>2. QED
    BY <2>1
<1> DEFINE I == {i \in DOMAIN cites : cites[i] \in DOMAIN catalog}
<1>5. I = DOMAIN cites
  BY <1>1, <1>3
<1> HIDE DEF I
<1>6. /\ Picked(cites, I) \in Seq(Kinds)
      /\ {Picked(cites, I)[j] : j \in DOMAIN Picked(cites, I)} =
           {cites[i] : i \in I \intersect DOMAIN cites}
  BY <1>4, PickedElements, PickedRange
<1>7. Range(Picked(cites, I)) = Range(cites)
  BY <1>5, <1>6 DEF Range
<1>8. QED
  BY <1>1, <1>2, <1>4, <1>6, <1>7 DEF I

\* The head of what is to be cited is told, the tail is kept.
LEMMA CitingFacts ==
  ASSUME NEW cites \in Seq(Kinds), NEW st \in SkillStatuses, NextOfResult(cites, st)
  PROVE  todo' \in Seq(Kinds) /\ pc' = IF cites = <<>> THEN "next" ELSE "citing"
BY DEF NextOfResult

\* The members of a sequence of steps.
LEMMA StatusOfSteps ==
  ASSUME NEW trace \in Seq(StepType), NEW i \in DOMAIN trace
  PROVE  trace[i].status \in SkillStatuses /\ trace[i].id \in SkillIds
<1>1. trace[i] \in StepType
  OBVIOUS
<1>2. QED
  BY <1>1 DEF StepType

\* A result: one more step, and citations of the records the skill was given.
LEMMA DataJudge == Data /\ Judge => Data'
<1> SUFFICES ASSUME Data, Judge PROVE Data'
  OBVIOUS
<1>1. CASE Raise
  BY <1>1, DataRaise
<1>2. CASE \E st \in SkillStatuses, n \in 0..MaxCites :
             \E cites \in [1..n -> DOMAIN catalog \union {Forged}] :
               /\ ValidMetadata(cites) /\ Accept(st, cites)
               /\ UNCHANGED <<tables, workflow, step, bundle, catalog, answer>>
  <2>0. PICK st \in SkillStatuses, n \in 0..MaxCites :
             \E cites \in [1..n -> DOMAIN catalog \union {Forged}] :
               /\ ValidMetadata(cites) /\ Accept(st, cites)
               /\ UNCHANGED <<tables, workflow, step, bundle, catalog, answer>>
    BY <1>2
  <2>1. PICK cites \in [1..n -> DOMAIN catalog \union {Forged}] :
               /\ ValidMetadata(cites) /\ Accept(st, cites)
               /\ UNCHANGED <<tables, workflow, step, bundle, catalog, answer>>
    BY <2>0
  <2>2. n \in Nat /\ pc = "judging" /\ step \in 2..StepCount /\ StepCount' = StepCount
        /\ workflow \in Workflows
    BY <2>1, WorkflowAssumption DEF Judge, Data, PlaceOf, StepCount, TypeOK
  <2>3. /\ Range(cites) \subseteq Allowlist /\ Allowlist \subseteq DOMAIN catalog
        /\ Allowlist \subseteq Kinds
    BY <2>1, <2>2, CitesFacts
  <2>4. used' = used \union Range(cites) /\ uncited' = {}
    BY <2>1, <2>3 DEF Accept, Data, TypeOK
  <2>5. todo' \in Seq(Kinds) /\ pc' \in {"next", "citing"}
    BY <2>1, <2>2, CitesFacts, CitingFacts DEF Accept
  <2>6. /\ steps' = Append(steps, Step(skill_id, "skill", st))
        /\ Step(skill_id, "skill", st) \in StepType /\ skill_id = workflow.step_sequence[step]
    BY <2>1, <2>2, WorkflowFacts DEF Accept, Step, StepType, skill_id
  <2>7. Len(steps) = step - 1 /\ steps \in Seq(StepType)
        /\ \A i \in DOMAIN steps : steps[i].id = workflow.step_sequence[i]
    BY <2>2 DEF Data, StepsOf
  <2>8. /\ steps' \in Seq(StepType) /\ Len(steps') = step
        /\ \A i \in DOMAIN steps' : steps'[i].id = workflow.step_sequence[i]
    BY <2>2, <2>6, <2>7 DEF Step
  <2>9. TypeOK'
    <3>1. \A i \in DOMAIN steps' : steps'[i].status \in SkillStatuses
      BY <2>8, StatusOfSteps
    <3>2. QED
      BY <2>1, <2>2, <2>3, <2>4, <2>5, <3>1 DEF Data, TypeOK
  <2>10. PlaceOf' /\ StepsOf'
    BY <2>1, <2>2, <2>5, <2>8 DEF PlaceOf, StepsOf
  <2>11. GroundedOf'
    <3>1. Allowlist \subseteq GivenTo(step) /\ GivenTo(step)' = GivenTo(step)
      BY <2>1, <2>2 DEF Allowlist, skill_id, GivenTo
    <3>2. QED
      BY <2>1, <2>3, <2>4, <2>5, <3>1 DEF Data, GroundedOf
  <2>12. QED
    BY <2>9, <2>10, <2>11 DEF Data
<1>3. QED
  BY <1>1, <1>2 DEF Judge

\* The citation loop goes on.
LEMMA DataCite == Data /\ Cite => Data'
<1> SUFFICES ASSUME Data, Cite PROVE Data'
  OBVIOUS
<1>1. Len(steps) = step /\ step \in 2..StepCount /\ steps \in Seq(StepType)
  BY DEF Cite, Data, StepsOf, PlaceOf
<1>2. steps[Len(steps)].status \in SkillStatuses
  BY <1>1, StatusOfSteps
<1>3. todo' \in Seq(Kinds) /\ pc' \in {"next", "citing"}
  BY <1>2, CitingFacts DEF Cite, Data, TypeOK
<1>4. QED
  BY <1>1, <1>3 DEF Cite, Data, TypeOK, PlaceOf, StepsOf, GroundedOf, GivenTo, StepCount

\* Storing the record and telling it.
LEMMA DataStore ==
  IInv /\ Data /\ (Chart \/ Save \/ ClearCitations \/ InsertCitation \/ Complete \/ Fail
                   \/ Return \/ Close \/ Crash \/ UNCHANGED vars) => Data'
<1> SUFFICES ASSUME IInv, Data, Chart \/ Save \/ ClearCitations \/ InsertCitation \/ Complete
                              \/ Fail \/ Return \/ Close \/ Crash \/ UNCHANGED vars
             PROVE  Data'
  OBVIOUS
<1>1. UNCHANGED localVars
  BY DEF Chart, Save, ClearCitations, InsertCitation, Complete, Fail, Return, Close, Crash,
         vars, Raise
<1>2. DOMAIN runs' \subseteq {run_id}
  BY DEF Chart, Save, ClearCitations, InsertCitation, Complete, Fail, Return, Close, Crash,
         vars, Raise, UpsertRun, Data, TypeOK
<1>3. \A row \in run_citations' : row.run_id = run_id /\ row.citation_id \in Kinds
  <2>1. CASE InsertCitation
    <3>1. DOMAIN FinalRun.citations \subseteq Kinds
      BY DEF FinalRun, Data, TypeOK
    <3>2. \A row \in Missing : row.run_id = run_id /\ row.citation_id \in Kinds
      BY <3>1 DEF Missing, RowsOf
    <3>3. QED
      BY <2>1, <3>2 DEF InsertCitation, InsertCitationRow, Raise, Data, TypeOK
  <2>2. CASE ~InsertCitation
    BY <2>2 DEF Chart, Save, ClearCitations, Complete, Fail, Return, Close, Crash, vars,
                Raise, DeleteCitationRows, Data, TypeOK
  <2>3. QED
    BY <2>1, <2>2
<1>4. \/ pc' \in Ended \union {"handler", "told"} 
      \/ pc' = pc
      \/ pc' \in {"charted", "clearing", "inserting"} /\ step = StepCount /\ Len(steps) = step
  BY DEF Chart, Save, ClearCitations, InsertCitation, Complete, Fail, Return, Close, Crash,
         vars, Raise, Data, PlaceOf, StepsOf
<1>5. pc' \in Suspended \union Ended \union {"clearing", "inserting", "handler"}
  BY <1>4 DEF Data, TypeOK
<1>6. TypeOK'
  BY <1>1, <1>2, <1>3, <1>5, TypeKept DEF Data
<1>7. CASE pc' \in Ended \union {"handler", "told"}
  BY <1>1, <1>6, <1>7, DataOver
<1>8. CASE pc' = pc
  BY <1>1, <1>6, <1>8
     DEF Data, PlaceOf, StepsOf, GroundedOf, GivenTo, Allowlist, skill_id, StepCount
<1>9. CASE pc' \in {"charted", "clearing", "inserting"} /\ step = StepCount /\ Len(steps) = step
  BY <1>1, <1>6, <1>9 DEF Data, PlaceOf, StepsOf, GroundedOf, GivenTo, StepCount
<1>10. QED
  BY <1>4, <1>7, <1>8, <1>9

\* Data is inductive, given IInv.
LEMMA DataAlways == Spec => []Data
<1>1. IInv /\ Data /\ [Next]_vars => Data'
  BY DataStart, DataBeginStep, DataCollect, DataAsk, DataAnswer, DataJudge, DataCite,
     DataStore
     DEF Next, Progress, Terminated
<1>2. QED
  BY <1>1, DataInit, InvAlways, PTL DEF Spec

--------------------------------------------------------------------------------
\* What was streamed of the run.
Trace == AnswerOf /\ ClosingOf /\ CitedOf

\* Nothing was streamed at first.
LEMMA TraceInit == Init => Trace
<1> SUFFICES ASSUME Init PROVE Trace
  OBVIOUS
<1>1. \A kind : Streamed(kind) = <<>>
  BY PickedOfEmpty DEF Init, Streamed
<1>2. Closing = <<>>
  BY PickedOfEmpty DEF Init, Closing
<1>3. Deltas = <<>> /\ CitedIds = {}
  BY <1>1 DEF Deltas, CitedIds, Range
<1>4. QED
  BY <1>2, <1>3 DEF Init, Trace, AnswerOf, ClosingOf, CitedOf, Told

\* A section stays what it is as long as the deltas stay and citations are only added.
LEMMA SectionsStay ==
  ASSUME sections \in Seq(SectionType), UNCHANGED <<sections, workflow, Texts>>,
         used \subseteq used'
  PROVE  sections' \in Seq(SectionType')
<1>1. SectionType \subseteq SectionType'
  BY DEF SectionType, LastSkill, StepCount
<1>2. QED
  BY <1>1

\* Where the generator may go without an event.
Onward ==
  \/ pc' = pc \/ pc' \in {"closed", "crashed"}
  \/ pc \notin Between /\ pc' \in {"handler", "clearing", "inserting", "died", "returned"}

\* Steps that neither speak nor change what was done.
LEMMA TraceKept ==
  ASSUME Trace, UNCHANGED <<Deltas, Texts, Closing, CitedIds>>,
         UNCHANGED <<workflow, step, answer, todo, steps, sections, used>>,
         Told' <=> Told, Onward
  PROVE  Trace'
<1>1. SectionType' = SectionType
  BY DEF SectionType, LastSkill, StepCount
<1>2. AnswerOf'
  BY <1>1 DEF Onward, Trace, AnswerOf, LastSkill, StepCount
<1>3. ClosingOf' /\ CitedOf'
  BY DEF Onward, Trace, ClosingOf, CitedOf, Between
<1>4. QED
  BY <1>2, <1>3 DEF Trace

\* An exception outside the citation loop streams nothing.
LEMMA TraceRaise == IInv /\ Data /\ Trace /\ Raise /\ pc \in Before /\ pc # "citing" => Trace'
<1> SUFFICES ASSUME IInv, Data, Trace, Raise, pc \in Before, pc # "citing" PROVE Trace'
  OBVIOUS
<1>1. Told' <=> Told
  BY DEF Raise, Told
<1>2. Onward
  BY DEF Raise, Onward, Between
<1>3. QED
  BY <1>1, <1>2, TraceKept, SameHistory DEF Raise

\* Events that are not a delta, a citation or a step's end.
Quiet(e) == \/ e.kind \in {"run.started", "artifact"}
            \/ e.kind = "run.stage" /\ e.status = "running"

\* Such an event changes no view.
LEMMA QuietEvent ==
  ASSUME Sequenced, NEW e, Emit(e), Quiet(e)
  PROVE  UNCHANGED <<Deltas, Texts, Closing, CitedIds>>
<1>1. UNCHANGED <<Deltas, Closing, CitedIds>>
  BY EmitHistory DEF Quiet
<1>2. QED
  BY <1>1 DEF Texts

\* The events between the steps.
LEMMA TraceStart == IInv /\ Data /\ Trace /\ (Start \/ BeginStep \/ Chart) => Trace'
<1> SUFFICES ASSUME IInv, Data, Trace, Start \/ BeginStep \/ Chart PROVE Trace'
  OBVIOUS
<1>0. Sequenced /\ ~Told
  BY DEF IInv, ToldAt, Start, BeginStep, Chart
<1>1. PICK e : Emit(e) /\ Quiet(e)
  <2>1. Quiet(Started) /\ Quiet(Artifact) /\ \A id : Quiet(Stage(id, "running"))
    BY DEF Quiet, Started, Artifact, Stage
  <2>2. QED
    BY <2>1 DEF Start, BeginStep, Chart
<1>2. ~Told'
  BY <1>0, <1>1, EmitTellsNothing DEF Quiet
<1>3. UNCHANGED <<workflow, answer, todo, steps, sections, used>>
  BY DEF Start, BeginStep, Chart
<1>4. /\ pc \in {"start", "next"}
      /\ \/ step' = step /\ pc' \in {"next", "charted"}
         \/ step' = step + 1 /\ step < StepCount /\ pc' \in {"collecting", "asking"}
  <2>1. CASE Start
    BY <2>1 DEF Start
  <2>2. CASE BeginStep
    BY <2>2 DEF BeginStep
  <2>3. CASE Chart
    BY <2>3 DEF Chart
  <2>4. QED
    BY <2>1, <2>2, <2>3
<1>5. UNCHANGED <<Deltas, Texts, Closing, CitedIds>>
  BY <1>0, <1>1, QuietEvent
<1>6. Trace'
  <2>1. SectionType' = SectionType /\ LastSkill' = LastSkill /\ StepCount' = StepCount
    BY <1>3, <1>5 DEF SectionType, LastSkill, StepCount
  <2>2. AnswerOf'
    BY <1>3, <1>4, <1>5, <2>1, WorkflowFacts DEF Trace, AnswerOf, Data, TypeOK, PlaceOf
  <2>3. ClosingOf' /\ CitedOf'
    BY <1>0, <1>2, <1>3, <1>4, <1>5 DEF Trace, ClosingOf, CitedOf, Between
  <2>4. QED
    BY <2>2, <2>3 DEF Trace
<1>7. QED
  BY <1>6

\* The skill that speaks begins with an empty answer.
LEMMA TraceAsk == IInv /\ Data /\ Trace /\ Ask => Trace'
<1> SUFFICES ASSUME IInv, Data, Trace, Ask PROVE Trace'
  OBVIOUS
<1>1. CASE Raise
  BY <1>1, TraceRaise DEF Ask
<1>2. CASE /\ answer' = <<>> /\ Emit(Stage(skill_id, "running")) /\ pc' = "answering"
           /\ UNCHANGED <<tables, workflow, step, bundle, todo, steps, sections, used, uncited>>
  <2>1. ~Told /\ ~Told'
    BY <1>2, EmitTellsNothing DEF Ask, IInv, ToldAt, Stage
  <2>2. UNCHANGED <<Deltas, Texts, Closing, CitedIds>>
    BY <1>2, QuietEvent DEF IInv, Quiet, Stage
  <2>3. Trace'
    <3>1. SectionType' = SectionType /\ LastSkill' = LastSkill /\ StepCount' = StepCount
      BY <1>2, <2>2 DEF SectionType, LastSkill, StepCount
    <3>2. Texts = <<>>
      BY DEF Ask, Trace, AnswerOf, Texts
    <3>3. AnswerOf'
      BY <1>2, <2>2, <3>1, <3>2 DEF Ask, Trace, AnswerOf
    <3>4. ClosingOf' /\ CitedOf'
      BY <1>2, <2>1, <2>2 DEF Ask, Trace, ClosingOf, CitedOf, Between
    <3>5. QED
      BY <3>3, <3>4 DEF Trace
  <2>4. QED
    BY <2>3
<1>3. QED
  BY <1>1, <1>2 DEF Ask

\* The texts of the deltas with one more.
LEMMA TextsGrow ==
  ASSUME NEW S, Deltas \in Seq(S), NEW e, Deltas' = Append(Deltas, e)
  PROVE  Texts' = Append(Texts, e.text)
BY DEF Texts

\* A chunk becomes a delta if it is of the last skill, and only then.
LEMMA TraceDelta == IInv /\ Data /\ Trace /\ AnswerDelta => Trace'
<1> SUFFICES ASSUME IInv, Data, Trace, AnswerDelta PROVE Trace'
  OBVIOUS
<1>1. PICK chunk \in Chunks :
        /\ answer' = Append(answer, chunk)
        /\ IF IsVisible(step) THEN Emit(Delta(chunk)) ELSE UNCHANGED events
  BY DEF AnswerDelta
<1>2. /\ pc = "answering" /\ pc' = pc
      /\ UNCHANGED <<tables, workflow, step, bundle, catalog, todo, steps, sections, used, uncited>>
  BY DEF AnswerDelta
<1>3. sections = <<>> /\ step \in 2..StepCount /\ LastSkill' = LastSkill /\ StepCount' = StepCount
  BY <1>2 DEF Trace, AnswerOf, Data, PlaceOf, LastSkill, StepCount
<1>4. CASE IsVisible(step)
  <2>1. Emit(Delta(chunk)) /\ step = StepCount /\ Sequenced /\ ~Told
    BY <1>1, <1>2, <1>4 DEF IsVisible, IInv, ToldAt
  <2>2. ~Told'
    BY <2>1, EmitTellsNothing DEF Delta
  <2>3. Deltas' = Append(Deltas, Delta(chunk)) /\ Closing' = Closing /\ CitedIds' = CitedIds
    <3>1. Delta(chunk).kind = "answer.delta"
      BY DEF Delta
    <3> HIDE DEF Delta
    <3>2. QED
      BY <2>1, <3>1, EmitHistory
  <2>4. Delta(chunk) \in [kind : {"answer.delta"}, stage : {LastSkill}, text : Chunks]
    BY <2>1 DEF Delta, skill_id, LastSkill
  <2>5. Texts' = Append(Texts, chunk)
    BY <2>3, TextsGrow DEF Trace, AnswerOf, Delta
  <2>6. AnswerOf'
    BY <1>1, <1>2, <1>3, <2>1, <2>3, <2>4, <2>5 DEF Trace, AnswerOf
  <2>7. ClosingOf' /\ CitedOf'
    BY <1>2, <2>1, <2>2, <2>3 DEF Trace, ClosingOf, CitedOf, Between
  <2>8. QED
    BY <2>6, <2>7 DEF Trace
<1>5. CASE ~IsVisible(step)
  <2>1. UNCHANGED <<Deltas, Texts, Closing, CitedIds>> /\ (Told' <=> Told) /\ step # StepCount
    BY <1>1, <1>5, SameHistory DEF Told, IsVisible
  <2>2. AnswerOf'
    BY <1>1, <1>2, <1>3, <2>1 DEF Trace, AnswerOf
  <2>3. ClosingOf' /\ CitedOf'
    BY <1>2, <2>1 DEF Trace, ClosingOf, CitedOf, Between
  <2>4. QED
    BY <2>2, <2>3 DEF Trace
<1>6. QED
  BY <1>4, <1>5

\* An answer that ends well has no forbidden chunk.
LEMMA TraceAnswerEnds == IInv /\ Data /\ Trace /\ AnswerEnds => Trace'
<1> SUFFICES ASSUME IInv, Data, Trace, AnswerEnds PROVE Trace'
  OBVIOUS
<1>1. CASE Raise
  BY <1>1, TraceRaise DEF AnswerEnds
<1>2. CASE /\ Range(answer) = {"fine"} /\ pc' = "judging"
           /\ UNCHANGED <<tables, localVars, events>>
  <2>1. answer \in Seq({"fine"})
    <3>1. answer \in Seq(Chunks) /\ \A i \in DOMAIN answer : answer[i] \in {"fine"}
      BY <1>2 DEF Range, Data, TypeOK
    <3>2. QED
      BY <3>1
  <2>2. UNCHANGED <<Deltas, Texts, Closing, CitedIds>> /\ (Told' <=> Told)
    BY <1>2, SameHistory DEF Told
  <2>3. SectionType' = SectionType /\ LastSkill' = LastSkill /\ StepCount' = StepCount
    BY <1>2, <2>2 DEF SectionType, LastSkill, StepCount
  <2>4. AnswerOf'
    BY <1>2, <2>1, <2>2, <2>3 DEF AnswerEnds, Trace, AnswerOf
  <2>5. ClosingOf' /\ CitedOf'
    BY <1>2, <2>2 DEF AnswerEnds, Trace, ClosingOf, CitedOf, Between
  <2>6. QED
    BY <2>4, <2>5 DEF Trace
<1>3. QED
  BY <1>1, <1>2 DEF AnswerEnds

\* The loop over a result's citations: all of them are told, then the step's end.
LEMMA TraceCiting ==
  ASSUME IInv, Data, ~Told, ClosingOf, NEW cites \in Seq(Kinds), NEW st \in SkillStatuses,
         NextOfResult(cites, st), skill_id \in SkillIds,
         Len(Closing) = Len(steps') - 1, steps' \in Seq(StepType),
         \A i \in DOMAIN Closing : steps'[i] = steps[i],
         steps'[Len(steps')].id = skill_id, steps'[Len(steps')].status = st,
         CitedIds \union Range(cites) = used'
  PROVE  ClosingOf' /\ CitedOf' /\ Deltas' = Deltas
<1>1. Sequenced
  BY DEF IInv
<1>2. CASE cites = <<>>
  <2>1. Emit(Stage(skill_id, st)) /\ pc' = "next" /\ st # "running"
    BY <1>2 DEF NextOfResult, SkillStatuses
  <2>2. /\ Closing' = Append(Closing, Stage(skill_id, st)) /\ Deltas' = Deltas
        /\ CitedIds' = CitedIds
    <3>1. Stage(skill_id, st).kind = "run.stage" /\ Stage(skill_id, st).status = st
      BY DEF Stage
    <3>2. QED
      BY <1>1, <2>1, <3>1, EmitHistory
  <2>3. Stage(skill_id, st) \in [kind : {"run.stage"}, stage : SkillIds, status : SkillStatuses]
    BY DEF Stage
  <2>4. ClosingOf'
    BY <2>1, <2>2, <2>3 DEF ClosingOf, Between, Stage
  <2>5. CitedOf'
    <3>1. Range(cites) = {}
      BY <1>2 DEF Range
    <3>2. QED
      BY <2>1, <2>2, <3>1 DEF CitedOf
  <2>6. QED
    BY <2>2, <2>4, <2>5
<1>3. CASE cites # <<>>
  <2>1. Emit(Cited(Head(cites))) /\ pc' = "citing" /\ todo' = Tail(cites)
    BY <1>3 DEF NextOfResult
  <2>2. Closing' = Closing /\ Deltas' = Deltas /\ CitedIds' = CitedIds \union {Head(cites)}
    BY <1>1, <2>1, EmitHistory DEF Cited
  <2>3. ~Told'
    BY <1>1, <2>1, EmitTellsNothing DEF Cited
  <2>4. Range(cites) = {Head(cites)} \union Range(Tail(cites))
    <3>1. Len(cites) \in Nat \ {0} /\ Head(cites) = cites[1] /\ DOMAIN cites = 1..Len(cites)
      BY <1>3
    <3>2. /\ DOMAIN Tail(cites) = 1..(Len(cites) - 1)
          /\ \A i \in 1..(Len(cites) - 1) : Tail(cites)[i] = cites[i + 1]
      BY <1>3
    <3>3. \A i \in 1..Len(cites) : i = 1 \/ (i - 1 \in 1..(Len(cites) - 1) /\ (i - 1) + 1 = i)
      BY <3>1
    <3>4. 1 \in 1..Len(cites) /\ \A i \in 1..(Len(cites) - 1) : i + 1 \in 1..Len(cites)
      BY <3>1
    <3>5. Range(cites) \subseteq {Head(cites)} \union Range(Tail(cites))
      <4>1. SUFFICES ASSUME NEW i \in 1..Len(cites)
                     PROVE  cites[i] \in {Head(cites)} \union Range(Tail(cites))
        BY <3>1 DEF Range
      <4>2. CASE i = 1
        BY <3>1, <4>2
      <4>3. CASE i - 1 \in 1..(Len(cites) - 1) /\ (i - 1) + 1 = i
        BY <3>2, <4>3 DEF Range
      <4>4. QED
        BY <3>3, <4>2, <4>3
    <3>6. Range(Tail(cites)) \subseteq Range(cites) /\ Head(cites) \in Range(cites)
      BY <3>1, <3>2, <3>4 DEF Range
    <3>7. QED
      BY <3>5, <3>6
  <2>5. ClosingOf'
    BY <2>1, <2>2, <2>3 DEF ClosingOf, Between
  <2>6. CitedOf'
    BY <2>1, <2>2, <2>3, <2>4 DEF CitedOf, Between
  <2>7. QED
    BY <2>2, <2>5, <2>6
<1>4. QED
  BY <1>2, <1>3

\* The collection closes the first step.
LEMMA TraceCollected ==
  IInv /\ Data /\ Trace /\ pc = "collecting" /\ Collected => Trace'
<1> SUFFICES ASSUME IInv, Data, Trace, pc = "collecting", Collected PROVE Trace'
  OBVIOUS
<1>1. PICK st \in CollectStatuses :
        /\ steps' = Append(steps, Step(collect_data, "collect_data", st))
        /\ Emit(Stage(collect_data, st)) /\ pc' = "next"
        /\ UNCHANGED <<tables, workflow, step, answer, todo, sections, used, uncited>>
  BY DEF Collected
<1>2. Sequenced /\ ~Told /\ steps = <<>> /\ step = 1 /\ Closing = <<>> /\ CitedIds = used
  BY DEF IInv, ToldAt, Data, PlaceOf, StepsOf, Trace, ClosingOf, CitedOf, Between
<1> DEFINE e == Stage(collect_data, st)
<1>3. /\ e.kind = "run.stage" /\ e.status = st /\ st # "running" /\ e.stage = collect_data
      /\ e \in [kind : {"run.stage"}, stage : SkillIds, status : SkillStatuses]
  BY DEF Stage, CollectStatuses, SkillIds, SkillStatuses
<1> HIDE DEF e
<1>4. Closing' = <<e>> /\ Deltas' = Deltas /\ CitedIds' = CitedIds
  BY <1>1, <1>2, <1>3, EmitHistory DEF e
<1>5. ClosingOf' /\ CitedOf'
  BY <1>1, <1>2, <1>3, <1>4 DEF ClosingOf, CitedOf, Between, Step
<1>6. /\ Texts' = Texts /\ LastSkill' = LastSkill /\ StepCount' = StepCount
      /\ SectionType' = SectionType
  BY <1>1, <1>4 DEF Texts, LastSkill, StepCount, SectionType
<1>7. AnswerOf'
  BY <1>1, <1>2, <1>4, <1>6 DEF Trace, AnswerOf
<1>8. QED
  BY <1>5, <1>7 DEF Trace

\* The result of the last skill is the section, and its citations are to be told.
LEMMA TraceJudge == IInv /\ Data /\ Trace /\ Judge => Trace'
<1> SUFFICES ASSUME IInv, Data, Trace, Judge PROVE Trace'
  OBVIOUS
<1>1. CASE Raise
  BY <1>1, TraceRaise DEF Judge
<1>2. CASE \E st \in SkillStatuses, n \in 0..MaxCites :
             \E cites \in [1..n -> DOMAIN catalog \union {Forged}] :
               /\ ValidMetadata(cites) /\ Accept(st, cites)
               /\ UNCHANGED <<tables, workflow, step, bundle, catalog, answer>>
  <2>1. PICK st \in SkillStatuses, n \in 0..MaxCites :
             \E cites \in [1..n -> DOMAIN catalog \union {Forged}] :
               /\ ValidMetadata(cites) /\ Accept(st, cites)
               /\ UNCHANGED <<tables, workflow, step, bundle, catalog, answer>>
    BY <1>2
  <2>2. PICK cites \in [1..n -> DOMAIN catalog \union {Forged}] :
               /\ ValidMetadata(cites) /\ Accept(st, cites)
               /\ UNCHANGED <<tables, workflow, step, bundle, catalog, answer>>
    BY <2>1
  <2> DEFINE told == Picked(cites, {i \in DOMAIN cites : cites[i] \in DOMAIN catalog})
  <2>3. n \in Nat /\ pc = "judging" /\ step \in 2..StepCount /\ workflow \in Workflows
    BY <2>2, WorkflowAssumption DEF Judge, Data, PlaceOf, TypeOK
  <2>4. /\ Range(cites) \subseteq Allowlist /\ told \in Seq(Kinds) /\ Range(told) = Range(cites)
    BY <2>2, <2>3, CitesFacts
  <2> HIDE DEF told
  <2>5. /\ used' = used \union Range(cites)
        /\ steps' = Append(steps, Step(skill_id, "skill", st))
        /\ sections' = IF IsVisible(step) THEN Append(sections, Section(st, cites)) ELSE sections
        /\ NextOfResult(told, st)
    BY <2>2, <2>4 DEF Accept, told
  <2>6. ~Told /\ Len(Closing) = Len(steps) /\ CitedIds = used
    BY <2>3 DEF IInv, ToldAt, Trace, ClosingOf, CitedOf, Between
  <2>7. skill_id \in SkillIds /\ Step(skill_id, "skill", st) \in StepType
        /\ steps \in Seq(StepType)
    BY <2>3, WorkflowFacts DEF skill_id, Step, StepType, Data, StepsOf
  <2>8. /\ steps' \in Seq(StepType) /\ Len(steps') = Len(steps) + 1 /\ Len(steps) \in Nat
        /\ \A i \in DOMAIN steps : steps'[i] = steps[i]
        /\ steps'[Len(steps')].id = skill_id /\ steps'[Len(steps')].status = st
    BY <2>5, <2>7 DEF Step
  <2>9. \A i \in DOMAIN Closing : steps'[i] = steps[i]
    BY <2>6, <2>7, <2>8 DEF Trace, ClosingOf
  <2>10. ClosingOf' /\ CitedOf' /\ Deltas' = Deltas
    BY <2>4, <2>5, <2>6, <2>7, <2>8, <2>9, TraceCiting DEF Trace
  <2>11. pc' \in {"next", "citing"}
    BY <2>4, <2>5, CitingFacts
  <2>12. Texts' = Texts /\ LastSkill' = LastSkill /\ StepCount' = StepCount
    BY <2>2, <2>10 DEF Texts, LastSkill, StepCount
  <2>13. sections' \in Seq(SectionType')
    <3>1. sections = <<>>
      BY <2>3 DEF Trace, AnswerOf
    <3>2. CASE ~IsVisible(step)
      BY <2>5, <3>1, <3>2
    <3>3. CASE IsVisible(step)
      <4>1. step = StepCount /\ Texts = answer /\ answer \in Seq({"fine"})
        BY <2>3, <3>3 DEF IsVisible, Trace, AnswerOf
      <4>2. Section(st, cites) \in SectionType'
        BY <2>5, <2>12, <4>1 DEF Section, SectionType, skill_id, LastSkill
      <4>3. QED
        BY <2>5, <3>1, <3>3, <4>2
    <3>4. QED
      BY <3>2, <3>3
  <2>14. step < StepCount => sections' = <<>>
    BY <2>3, <2>5 DEF IsVisible, Trace, AnswerOf
  <2>15. AnswerOf'
    BY <2>2, <2>10, <2>11, <2>12, <2>13, <2>14 DEF Trace, AnswerOf
  <2>16. QED
    BY <2>10, <2>15 DEF Trace
<1>3. QED
  BY <1>1, <1>2 DEF Judge

\* The next citation, or the end of the step.
LEMMA TraceCite == IInv /\ Data /\ Trace /\ Cite => Trace'
<1> SUFFICES ASSUME IInv, Data, Trace, Cite PROVE Trace'
  OBVIOUS
<1>1. /\ pc = "citing" /\ NextOfResult(todo, steps[Len(steps)].status)
      /\ UNCHANGED <<tables, workflow, step, bundle, catalog, answer, steps, sections,
                     used, uncited>>
  BY DEF Cite
<1>2. ~Told /\ Len(Closing) = Len(steps) - 1 /\ CitedIds \union Range(todo) = used
  <2>1. Len(steps) = Len(Closing) + 1 /\ Len(Closing) \in Nat
    BY <1>1 DEF Trace, ClosingOf
  <2>2. QED
    BY <1>1, <2>1 DEF IInv, ToldAt, Trace, CitedOf
<1>3. /\ steps \in Seq(StepType) /\ Len(steps) = step /\ step \in 2..StepCount
      /\ workflow \in Workflows /\ todo \in Seq(Kinds)
      /\ \A i \in DOMAIN steps : steps[i].id = workflow.step_sequence[i]
  BY <1>1 DEF Data, StepsOf, PlaceOf, TypeOK
<1>4. step \in DOMAIN steps /\ steps[step].id = skill_id
  BY <1>3, WorkflowFacts DEF skill_id
<1>5. skill_id \in SkillIds /\ steps[Len(steps)].status \in SkillStatuses
  BY <1>3, <1>4, StatusOfSteps
<1>6. ClosingOf' /\ CitedOf' /\ Deltas' = Deltas
  BY <1>1, <1>2, <1>3, <1>4, <1>5, TraceCiting DEF Trace
<1>7. pc' \in {"next", "citing"}
  BY <1>1, <1>3, <1>5, CitingFacts
<1>8. /\ Texts' = Texts /\ LastSkill' = LastSkill /\ StepCount' = StepCount
      /\ SectionType' = SectionType
  BY <1>1, <1>6 DEF Texts, LastSkill, StepCount, SectionType
<1>9. AnswerOf'
  BY <1>1, <1>6, <1>7, <1>8 DEF Trace, AnswerOf
<1>10. QED
  BY <1>6, <1>9 DEF Trace

\* The record is stored and told as it is.
LEMMA TraceStore ==
  IInv /\ Data /\ Trace
       /\ (Save \/ ClearCitations \/ InsertCitation \/ Complete \/ Fail
           \/ Return \/ Close \/ Crash \/ UNCHANGED vars) => Trace'
<1> SUFFICES ASSUME IInv, Data, Trace, Save \/ ClearCitations \/ InsertCitation \/ Complete
                      \/ Fail \/ Return \/ Close \/ Crash \/ UNCHANGED vars
             PROVE  Trace'
  OBVIOUS
<1>1. UNCHANGED <<workflow, step, answer, todo, steps, sections, used>>
  BY
     DEF Save, ClearCitations, InsertCitation, Complete, Fail, Return, Close, Crash,
         vars, Raise
<1>2. CASE UNCHANGED events /\ Onward
  <2>1. Told' <=> Told
    BY <1>2 DEF Told
  <2>2. QED
    BY <1>1, <1>2, <2>1, SameHistory, TraceKept
<1>3. CASE (\E k \in {"run.completed", "run.failed"} : \E run : Emit(Terminal(k, run)))
             /\ pc \in {"inserting", "handler"} /\ pc' = "told"
  <2>0. PICK k \in {"run.completed", "run.failed"} : \E run : Emit(Terminal(k, run))
    BY <1>3
  <2>1. PICK run : Emit(Terminal(k, run))
    BY <2>0
  <2>2. UNCHANGED <<Deltas, Closing, CitedIds>>
    <3> DEFINE e == Terminal(k, run)
    <3>1. e.kind \notin {"answer.delta", "run.stage", "citation"}
      BY DEF Terminal
    <3>2. Sequenced /\ Emit(e)
      BY <2>1 DEF IInv
    <3> HIDE DEF e
    <3>3. Deltas' = Deltas
      BY <3>1, <3>2, EmitHistory
    <3>4. Closing' = Closing
      BY <3>1, <3>2, EmitHistory
    <3>5. CitedIds' = CitedIds \union {}
      BY <3>1, <3>2, EmitHistory
    <3>6. QED
      BY <3>3, <3>4, <3>5
  <2>3. /\ Texts' = Texts /\ LastSkill' = LastSkill /\ StepCount' = StepCount
        /\ SectionType' = SectionType
    BY <1>1, <2>2 DEF Texts, LastSkill, StepCount, SectionType
  <2>4. AnswerOf'
    BY <1>1, <1>3, <2>2, <2>3 DEF Trace, AnswerOf
  <2>5. ClosingOf' /\ CitedOf'
    BY <1>1, <1>3, <2>2 DEF Trace, ClosingOf, CitedOf, Between
  <2>6. QED
    BY <2>4, <2>5 DEF Trace
<1>4. QED
  BY <1>2, <1>3
     DEF Save, ClearCitations, InsertCitation, Complete, Fail, Return, Close, Crash,
                    vars, Raise, Onward, Between

\* Trace is inductive, given IInv and Data.
LEMMA TraceAlways == Spec => []Trace
<1>1. IInv /\ Data /\ Trace /\ [Next]_vars => Trace'
  <2> SUFFICES ASSUME IInv, Data, Trace, [Next]_vars PROVE Trace'
    OBVIOUS
  <2>1. CASE Collect
    <3>1. CASE Raise
      BY <2>1, <3>1, TraceRaise DEF Collect
    <3>2. CASE Collected
      BY <2>1, <3>2, TraceCollected DEF Collect
    <3>3. QED
      BY <2>1, <3>1, <3>2 DEF Collect
  <2>2. QED
    BY <2>1, TraceStart, TraceAsk, TraceDelta, TraceAnswerEnds, TraceJudge, TraceCite,
       TraceStore
       DEF Next, Progress, Terminated
<1>2. QED
  BY <1>1, TraceInit, InvAlways, DataAlways, PTL DEF Spec

--------------------------------------------------------------------------------
\* What was told and stored is the record of what was done.
Kept == RecordOf /\ UnfailedIsWholeAndGrounded

\* The final record, from the locals it is built of.
LEMMA FinalRunFacts ==
  ASSUME Data, Trace, pc \in {"charted", "clearing", "inserting"}
  PROVE  LET run == FinalRun IN
           /\ run.steps = steps /\ run.sections = sections
           /\ DOMAIN run.citations = used
           /\ run.grounding = "pass"
           /\ [i \in DOMAIN run.steps |-> run.steps[i].id] = workflow.step_sequence
           /\ DOMAIN run.citations \subseteq
                UNION {SkillRecords(workflow.step_sequence[i], bundle) : i \in 2..StepCount}
           /\ run.status # "failed" =>
                \A i \in SkillSteps(run.steps) : run.steps[i].status # "failed"
           /\ run.status = "success" =>
                \A i \in SkillSteps(run.steps) : run.steps[i].status = "success"
           /\ \A section \in Range(run.sections) :
                /\ "forbidden" \notin Range(section.content)
                /\ section.citations \subseteq DOMAIN run.citations
<1>1. FinalRun.steps = steps /\ FinalRun.sections = sections /\ FinalRun.status = RunStatus(steps)
  BY DEF FinalRun
<1>2. DOMAIN FinalRun.citations = used /\ FinalRun.grounding = "pass"
  BY DEF FinalRun, Data, GroundedOf, TypeOK
<1>3. /\ step = StepCount /\ Len(steps) = StepCount /\ steps \in Seq(StepType)
      /\ \A i \in DOMAIN steps : steps[i].id = workflow.step_sequence[i]
      /\ workflow \in Workflows
  BY DEF Data, PlaceOf, StepsOf, TypeOK
<1>4. [i \in DOMAIN steps |-> steps[i].id] = workflow.step_sequence
  <2>1. DOMAIN steps = 1..StepCount /\ workflow.step_sequence \in Seq(SkillIds)
    BY <1>3, WorkflowAssumption DEF SkillIds
  <2>2. QED
    BY <1>3, <2>1 DEF StepCount
<1>5. used \subseteq UNION {SkillRecords(workflow.step_sequence[i], bundle) : i \in 2..StepCount}
  BY <1>3 DEF Data, GroundedOf, GivenTo
<1>6. /\ RunStatus(steps) # "failed" => \A i \in SkillSteps(steps) : steps[i].status # "failed"
      /\ RunStatus(steps) = "success" => \A i \in SkillSteps(steps) : steps[i].status = "success"
  <2>1. \A i \in SkillSteps(steps) : steps[i].status \in SkillStatuses
    BY <1>3, StatusOfSteps DEF SkillSteps
  <2>2. QED
    BY <2>1 DEF RunStatus, SkillStatuses
<1>7. ASSUME NEW section \in Range(sections)
      PROVE  "forbidden" \notin Range(section.content) /\ section.citations \subseteq used
  <2>1. section \in SectionType
    BY DEF Range, Trace, AnswerOf
  <2>2. section.content \in Seq({"fine"}) /\ section.citations \subseteq used
    BY <2>1 DEF SectionType
  <2>3. QED
    BY <2>2 DEF Range
<1>8. QED
  BY <1>1, <1>2, <1>4, <1>5, <1>6, <1>7

\* An event that comes before the end.
LEMMA RecordEmit ==
  ASSUME Sequenced, ~Told, RecordOf, NEW e, Emit(e)
  PROVE  \A i \in 1..(Len(events') - 1) : ~Ends(events'[i])
<1>1. PICK S : events \in Seq(S)
  BY DEF Sequenced
<1>2. /\ Len(events') = Len(events) + 1 /\ Len(events) \in Nat
      /\ \A i \in 1..Len(events) : events'[i] = events[i]
  BY <1>1 DEF Emit
<1>3. \A i \in 1..Len(events) : ~Ends(events[i])
  <2>1. events # <<>> => ~Ends(events[Len(events)])
    BY DEF Told, Ends
  <2>2. \A i \in 1..Len(events) : i = Len(events) \/ i \in 1..(Len(events) - 1)
    BY <1>2
  <2>3. \A i \in 1..Len(events) : events # <<>>
    BY <1>1
  <2>4. QED
    BY <2>1, <2>2, <2>3 DEF RecordOf
<1>4. QED
  BY <1>2, <1>3

\* What every step does to the stream.
LEMMA EventSteps ==
  ASSUME IInv, [Next]_vars
  PROVE  \/ UNCHANGED events
         \/ \E e : Emit(e) /\ ~Ends(e) /\ ~Told
         \/ Complete
         \/ /\ Emit(Terminal("run.failed", FailedRun)) /\ pc = "handler"
            /\ UNCHANGED <<steps, sections, used>>
<1>1. CASE Start \/ BeginStep \/ Collect \/ Ask \/ AnswerDelta \/ AnswerEnds \/ Judge \/ Cite
             \/ Chart
  <2>1. ~Told
    BY <1>1
       DEF IInv, ToldAt, Start, BeginStep, Collect, Ask, AnswerDelta, AnswerEnds, Judge,
                Cite, Chart
  <2>2. /\ ~Ends(Started) /\ ~Ends(Artifact) /\ \A id, st : ~Ends(Stage(id, st))
        /\ \A c : ~Ends(Delta(c)) /\ \A k : ~Ends(Cited(k))
    BY DEF Ends, Started, Artifact, Stage, Delta, Cited
  <2>3. UNCHANGED events \/ \E e : Emit(e) /\ ~Ends(e)
    <3>1. ASSUME NEW cites, NEW st, NextOfResult(cites, st) PROVE \E e : Emit(e) /\ ~Ends(e)
      BY <2>2, <3>1 DEF NextOfResult
    <3>2. QED
      BY <1>1, <2>2, <3>1
         DEF Start, BeginStep, Collect, Collected, Ask, AnswerDelta, AnswerEnds, Judge,
                       Accept, Cite, Chart, Raise
  <2>4. QED
    BY <2>1, <2>3
<1>2. CASE Save \/ ClearCitations \/ InsertCitation \/ Return \/ Close \/ Crash \/ UNCHANGED vars
  BY <1>2 DEF Save, ClearCitations, InsertCitation, Raise, Return, Close, Crash, vars
<1>3. CASE Fail
  BY <1>3 DEF Fail
<1>4. QED
  BY <1>1, <1>2, <1>3 DEF Next, Progress, Terminated

\* After the terminal event nothing is done.
LEMMA LaterSteps ==
  ASSUME IInv, [Next]_vars, UNCHANGED events, Told
  PROVE  UNCHANGED <<steps, sections, used>>
<1>1. pc \in After \union {"closed", "crashed"}
  BY DEF IInv, ToldAt
<1>2. QED
  BY <1>1 DEF Next, Progress, Terminated, vars, Start, BeginStep, Collect, Ask, AnswerDelta,
              AnswerEnds, Judge, Cite, Chart, Save, ClearCitations, InsertCitation,
                 Complete,
              Fail, Return, Close, Crash

\* What every step does to the record that is stored.
LEMMA StoreSteps ==
  ASSUME IInv, [Next]_vars
  PROVE  \/ UNCHANGED <<runs, workflow, bundle>>
         \/ ~Stored(run_id)'
         \/ /\ pc = "charted" /\ UpsertRun(run_id, FinalRun.status, FinalRun)
            /\ UNCHANGED <<workflow, bundle>>
         \/ UpsertRun(run_id, "failed", FailedRun)
<1>1. CASE Collect
  BY <1>1 DEF Collect, Collected, Raise, IInv, TablesAt, Stored
<1>2. CASE Start \/ BeginStep \/ Ask \/ AnswerDelta \/ AnswerEnds \/ Judge \/ Cite \/ Chart
  BY <1>2 DEF Start, BeginStep, Ask, AnswerDelta, AnswerEnds, Judge, Cite, Chart, Raise
<1>3. CASE Save \/ Fail
  BY <1>3 DEF Save, Fail, Raise
<1>4. CASE ClearCitations \/ InsertCitation \/ Complete \/ Return \/ Close \/ Crash
             \/ UNCHANGED vars
  BY <1>4 DEF ClearCitations, InsertCitation, Complete, Return, Close, Crash, vars, Raise
<1>5. QED
  BY <1>1, <1>2, <1>3, <1>4 DEF Next, Progress, Terminated

\* What is told and stored is the final record, or a failed one.
LEMMA KeptStep == IInv /\ Data /\ Trace /\ Kept /\ [Next]_vars => Kept'
<1> SUFFICES ASSUME IInv, Data, Trace, Kept, [Next]_vars PROVE Kept'
  OBVIOUS
<1>1. RecordOf'
  <2>1. CASE UNCHANGED events
    <3>1. Told => UNCHANGED <<steps, sections, used>>
      BY <2>1, LaterSteps
    <3>2. QED
      BY <2>1, <3>1 DEF Kept, RecordOf, Told, ToldRun
  <2>2. CASE \E e : Emit(e) /\ ~Ends(e) /\ ~Told
    <3>1. PICK e : Emit(e) /\ ~Ends(e) /\ ~Told
      BY <2>2
    <3>2. ~Told'
      BY <3>1, EmitTellsNothing DEF Ends, IInv
    <3>3. QED
      BY <3>1, <3>2, RecordEmit DEF Kept, RecordOf, IInv
  <2>3. CASE Complete
    <3>1. /\ ToldRun' = FinalRun /\ Sequenced /\ ~Told /\ Emit(Terminal("run.completed", FinalRun))
          /\ UNCHANGED <<steps, sections, used>> /\ pc = "inserting"
      BY <2>3, EmitTells DEF Complete, IInv, ToldAt
    <3>2. /\ FinalRun.steps = steps /\ FinalRun.sections = sections
          /\ DOMAIN FinalRun.citations = used
      BY <3>1, FinalRunFacts
    <3>3. QED
      BY <3>1, <3>2, RecordEmit DEF Kept, RecordOf
  <2>4. CASE Emit(Terminal("run.failed", FailedRun)) /\ pc = "handler"
             /\ UNCHANGED <<steps, sections, used>>
    <3>1. /\ ToldRun' = FailedRun /\ Sequenced /\ ~Told
          /\ events'[Len(events')].kind = "run.failed"
      BY <2>4, EmitTells DEF IInv, ToldAt
    <3>2. FailedRun.steps = steps /\ FailedRun.sections = sections
      BY DEF FailedRun
    <3>3. QED
      BY <2>4, <3>1, <3>2, RecordEmit DEF Kept, RecordOf
  <2>5. QED
    BY <2>1, <2>2, <2>3, <2>4, EventSteps
<1>2. UnfailedIsWholeAndGrounded'
  <2>1. CASE UNCHANGED <<runs, workflow, bundle>>
    BY <2>1 DEF Kept, UnfailedIsWholeAndGrounded, Stored, StepCount
  <2>2. CASE ~Stored(run_id)'
    BY <2>2 DEF UnfailedIsWholeAndGrounded
  <2>3. CASE /\ pc = "charted" /\ UpsertRun(run_id, FinalRun.status, FinalRun)
             /\ UNCHANGED <<workflow, bundle>>
    <3>1. runs'[run_id] = [status |-> FinalRun.status, data |-> FinalRun]
      BY <2>3 DEF UpsertRun
    <3>2. QED
      BY <2>3, <3>1, FinalRunFacts DEF UnfailedIsWholeAndGrounded, StepCount
  <2>4. CASE UpsertRun(run_id, "failed", FailedRun)
    BY <2>4 DEF UpsertRun, UnfailedIsWholeAndGrounded
  <2>5. QED
    BY <2>1, <2>2, <2>3, <2>4, StoreSteps
<1>3. QED
  BY <1>1, <1>2 DEF Kept

\* Kept is inductive, given the others.
LEMMA KeptAlways == Spec => []Kept
<1>1. Init => Kept
  <2> SUFFICES ASSUME Init PROVE Kept
    OBVIOUS
  <2>1. RecordOf
    BY DEF Init, RecordOf, Told
  <2>2. UnfailedIsWholeAndGrounded
    BY DEF Init, UnfailedIsWholeAndGrounded, Stored
  <2>3. QED
    BY <2>1, <2>2 DEF Kept
<1>2. QED
  BY <1>1, KeptStep, InvAlways, DataAlways, TraceAlways, PTL DEF Spec

--------------------------------------------------------------------------------
(***************************************************************************)
(* Every local of the generator has its type, wherever it is suspended; no *)
(* id is ever left without a citation (service.py:231-311).                *)
(***************************************************************************)
THEOREM RunTypes == Spec => []TypeOK
<1>1. Data => TypeOK
  BY DEF Data
<1>2. QED
  BY <1>1, DataAlways, PTL

(***************************************************************************)
(* A stored run that is not failed went through the whole sequence, for    *)
(* every workflow definition, and cites what its skills were given and     *)
(* nothing else (service.py:296-437).                                      *)
(***************************************************************************)
THEOREM UnfailedIsWhole == Spec => []UnfailedIsWholeAndGrounded
<1>1. Kept => UnfailedIsWholeAndGrounded
  BY DEF Kept
<1>2. QED
  BY <1>1, KeptAlways, PTL

(***************************************************************************)
(* FR-039 for every length of an answer and every number of citations: the *)
(* deltas, the closing stage events and the citation events that were      *)
(* streamed are those of the record that is told (service.py:258-311).     *)
(***************************************************************************)
THEOREM StreamAlwaysReconciles == Spec => []StreamReconciles
<1>1. IInv /\ Data /\ Trace /\ Kept => StreamReconciles
  <2> SUFFICES ASSUME IInv, Data, Trace, Kept PROVE StreamReconciles
    OBVIOUS
  <2>1. \A i \in DOMAIN Deltas : Deltas[i].stage = LastSkill
    <3> DEFINE DeltaType == [kind : {"answer.delta"}, stage : {LastSkill}, text : Chunks]
    <3>1. Deltas \in Seq(DeltaType)
      BY DEF Trace, AnswerOf
    <3>2. \A e \in DeltaType : e.stage = LastSkill
      OBVIOUS
    <3> HIDE DEF DeltaType
    <3>3. QED
      BY <3>1, <3>2
  <2>2. \A section \in Range(sections) : section.stage = LastSkill /\ section.content = Texts
    <3>1. \A section \in Range(sections) : section \in SectionType
      BY DEF Range, Trace, AnswerOf
    <3>2. QED
      BY <3>1 DEF SectionType
  <2>3. \A i \in 1..(Len(events) - 1) : events[i].kind \notin {"run.completed", "run.failed"}
    BY DEF Kept, RecordOf, Ends
  <2>4. ASSUME Told
        PROVE  /\ Len(Closing) = Len(ToldRun.steps)
               /\ \A i \in DOMAIN Closing :
                    /\ Closing[i].stage  = ToldRun.steps[i].id
                    /\ Closing[i].status = ToldRun.steps[i].status
               /\ \A section \in Range(ToldRun.sections) : section.content = Texts
               /\ events[Len(events)].kind = "run.completed" =>
                    CitedIds = DOMAIN ToldRun.citations
    BY <2>2, <2>4 DEF Kept, RecordOf, Trace, ClosingOf, CitedOf
  <2>5. QED
    BY <2>1, <2>2, <2>3, <2>4 DEF StreamReconciles, Deltas, Texts, LastSkill, CitedIds
<1>2. QED
  BY <1>1, InvAlways, DataAlways, TraceAlways, KeptAlways, PTL
================================================================================
