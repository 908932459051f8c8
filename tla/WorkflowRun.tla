------------------------------- MODULE WorkflowRun -------------------------------
(***************************************************************************)
(* One run of a workflow: the async generator _stream_workflow_events      *)
(* (src/src/finmind_agents/workflows/service.py) with the skill stream of  *)
(* AgentOrchestrator (runtime/service.py), the validators, the evidence    *)
(* bundles and the persistence it drives.                                  *)
(*                                                                         *)
(* The generator is suspended at its yields and at its awaits (Suspended); *)
(* only there can it be closed.  From one suspension to the next it runs   *)
(* without a break, except that every SQL statement is a step of its own,  *)
(* since a statement may raise and the process may die between two.        *)
(*                                                                         *)
(* Of the data, a record is its kind, its citation has the kind as id and  *)
(* a snapshot that says whether it claims to be audited, an answer is a    *)
(* sequence of chunks, and an event keeps what the properties compare.     *)
(***************************************************************************)
EXTENDS RunTables, Selection, Functions

CONSTANTS
  Workflows,   \* the workflow definitions: [step_sequence, groups]
  run_id,      \* the id of the run
  MaxChunks,   \* bound: chunks the model streams for one answer
  MaxCites     \* bound: citations one answer's metadata lists

collect_data == "collect_data"
Auditor      == "vn-financial-data-auditor"
Fundamental  == "vn-fundamental-analysis"
Technical    == "vn-technical-analysis"

SourceKinds  == {"price", "fundamental", "profile"}
DerivedKinds == {"indicators", "pattern"}
Kinds        == SourceKinds \union DerivedKinds

SkillStatuses   == {"success", "partial", "failed"}
CollectStatuses == {"success", "partial"}
Chunks          == {"fine", "forbidden"}
Forged          == "forged"     \* an id that is no record's

ASSUME WorkflowAssumption ==
  /\ \A w \in Workflows :
       /\ w.step_sequence \in Seq({collect_data, Auditor, Fundamental, Technical})
       /\ Len(w.step_sequence) >= 2
       /\ w.step_sequence[1] = collect_data
       /\ \A i \in 2..Len(w.step_sequence) : w.step_sequence[i] # collect_data
       /\ w.groups \subseteq SourceKinds /\ w.groups # {}
  /\ MaxChunks \in Nat /\ MaxCites \in Nat

VARIABLES
  workflow,    \* prepared.workflow
  pc,          \* where the generator is
  step,        \* how many steps of the sequence it has begun
  bundle,      \* the kinds of the records in data_bundle
  catalog,     \* citations_by_id: id -> snapshot
  answer,      \* answer_parts of the skill that is running
  todo,        \* citations of its result still to be emitted
  steps, sections, used, uncited,   \* the locals of the same names
  events       \* the events yielded

localVars == <<workflow, step, bundle, catalog, answer, todo, steps, sections, used,
               uncited>>
tables    == <<runs, run_citations>>
vars      == <<tables, localVars, pc, events>>

--------------------------------------------------------------------------------
(* Operators of the code.                                                     *)

StepCount == Len(workflow.step_sequence)
skill_id  == workflow.step_sequence[step]

\* _is_visible_output_step: only the last skill speaks to the user.
IsVisible(i) == i = StepCount

\* skill_data_bundle: what a skill is given, which is also what it may cite.
SkillRecords(skill, all) ==
  all \intersect (IF skill = Technical THEN {"indicators", "profile", "pattern"}
                                       ELSE {"fundamental", "profile", "price"})
Allowlist == SkillRecords(skill_id, bundle)

\* mark_fundamentals_audited: the records of the fundamental skill, and no
\* other, are handed over with is_audited set.
Snapshot(skill, k) ==
  IF skill = Fundamental /\ k = "fundamental" THEN "audited" ELSE "raw"

\* citations_by_id.update
Updated(skill, records) ==
  [k \in DOMAIN catalog \union records |->
     IF k \in records THEN Snapshot(skill, k) ELSE catalog[k]]

\* What the collected records are enriched with: patterns wherever there is a
\* price series, indicators for the technical workflow.
Derived(got) ==
  IF "price" \in got
  THEN {"pattern"} \union
       (IF Technical \in Range(workflow.step_sequence) THEN {"indicators"} ELSE {})
  ELSE {}

\* _run_status looks at skill steps only.
SkillSteps(trace) == {i \in DOMAIN trace : trace[i].kind = "skill"}
RunStatusLastOnly(trace) == trace[Len(trace)].status                  \* mutant
RunStatus(trace) ==
  LET statuses == {trace[i].status : i \in SkillSteps(trace)} IN
    IF "failed" \in statuses THEN "failed"
    ELSE IF "partial" \in statuses THEN "partial" ELSE "success"

\* mutant: everything collected is recorded as cited
FinalRunCitesAll ==
  [status    |-> RunStatus(steps),
   steps     |-> steps,
   sections  |-> sections,
   citations |-> catalog,
   grounding |-> IF uncited = {} THEN "pass" ELSE "blocked"]

\* The record run.completed carries and save persists.
FinalRun ==
  [status    |-> RunStatus(steps),
   steps     |-> steps,
   sections  |-> sections,
   citations |-> [k \in used \intersect DOMAIN catalog |-> catalog[k]],
   grounding |-> IF uncited = {} THEN "pass" ELSE "blocked"]

\* The record of the exception handler: what was done is kept, what was cited
\* is not.
FailedRun ==
  [status    |-> "failed",
   steps     |-> steps,
   sections  |-> sections,
   citations |-> [k \in {} |-> "raw"],
   grounding |-> "blocked"]

\* Events, reduced to their kind and to what identifies their payload.
Started          == [kind |-> "run.started"]
Stage(id, st)    == [kind |-> "run.stage", stage |-> id, status |-> st]
Delta(chunk)     == [kind |-> "answer.delta", stage |-> skill_id, text |-> chunk]
Cited(k)         == [kind |-> "citation", citation_id |-> k, snapshot |-> catalog[k]]
Artifact         == [kind |-> "artifact"]
Terminal(k, run) == [kind |-> k, run |-> run]

Emit(event) == events' = Append(events, event)

Step(id, kind, st) == [id |-> id, kind |-> kind, status |-> st]

Section(st, cites) ==
  [stage |-> skill_id, status |-> st, content |-> answer, citations |-> Range(cites)]

--------------------------------------------------------------------------------
Init ==
  /\ workflow \in Workflows
  /\ pc = "start" /\ step = 0
  /\ bundle = {} /\ catalog = [k \in {} |-> "raw"]
  /\ answer = <<>> /\ todo = <<>>
  /\ steps = <<>> /\ sections = <<>> /\ used = {} /\ uncited = {}
  /\ events = <<>>
  /\ runs = [i \in {} |-> [status |-> "failed", data |-> FailedRun]]
  /\ run_citations = {}

GoTo(place) == pc' = place

\* An exception: the except clause is next, nothing else changes.
Raise == GoTo("handler") /\ UNCHANGED <<tables, localVars, events>>

Start ==
  /\ pc = "start"
  /\ Emit(Started) /\ GoTo("next")
  /\ UNCHANGED <<tables, localVars>>

\* The loop takes the next step and announces it.
BeginStep ==
  /\ pc = "next" /\ step < StepCount
  /\ step' = step + 1
  /\ Emit(Stage(workflow.step_sequence[step + 1], "running"))
  /\ GoTo(IF workflow.step_sequence[step + 1] = collect_data
          THEN "collecting" ELSE "asking")
  /\ UNCHANGED <<tables, workflow, bundle, catalog, answer, todo,
                 steps, sections, used, uncited>>

\* The collection came back with data, and the price series were stored.
Collected ==
  \E got \in SUBSET workflow.groups \ {{}}, st \in CollectStatuses :
    /\ bundle'  = got \union Derived(got)
    /\ catalog' = [k \in bundle' |-> "raw"]
    /\ steps'   = Append(steps, Step(collect_data, "collect_data", st))
    /\ Emit(Stage(collect_data, st)) /\ GoTo("next")
    /\ UNCHANGED <<tables, workflow, step, answer, todo, sections, used, uncited>>

\* No data at all, a provider that raised, or a price series not stored.
Collect == /\ pc = "collecting"
           /\ Collected \/ Raise

\* The skill's request is built and its start announced again.
Ask ==
  /\ pc = "asking"
  /\ \/ /\ catalog' = Updated(skill_id, Allowlist)
        /\ answer' = <<>>
        /\ Emit(Stage(skill_id, "running")) /\ GoTo("answering")
        /\ UNCHANGED <<tables, workflow, step, bundle, todo, steps, sections, used,
                      uncited>>
     \/ Raise

\* A chunk of the answer; only the last skill's chunks become events.
AnswerDelta ==
  /\ pc = "answering" /\ Len(answer) < MaxChunks
  /\ \E chunk \in Chunks :
       /\ answer' = Append(answer, chunk)
       /\ IF IsVisible(step) THEN Emit(Delta(chunk)) ELSE UNCHANGED events
  /\ UNCHANGED <<tables, pc, workflow, step, bundle, catalog, todo, steps, sections,
                 used, uncited>>

AnswerEndsUnchecked ==                 \* mutant: validate_agent_content dropped
  /\ pc = "answering"
  /\ \/ /\ answer # <<>>
        /\ GoTo("judging")
        /\ UNCHANGED <<tables, localVars, events>>
     \/ Raise

AnswerEndsIfFine ==       \* mutant: a stream that broke or is not fine is awaited
  /\ pc = "answering"
  /\ answer # <<>> /\ Range(answer) = {"fine"}
  /\ GoTo("judging")
  /\ UNCHANGED <<tables, localVars, events>>

\* The model's stream ends, or breaks: an empty answer, an answer with
\* forbidden terms and an answer in the wrong language are errors.
AnswerEnds ==
  /\ pc = "answering"
  /\ \/ /\ answer # <<>> /\ Range(answer) = {"fine"}
        /\ GoTo("judging")
        /\ UNCHANGED <<tables, localVars, events>>
     \/ Raise

\* The citation loop up to its next yield, then the step's closing event.  An
\* id without a citation is passed over; all of cites are ids of catalog.
NextOfResult(cites, st) ==
  IF cites = <<>>
  THEN /\ Emit(Stage(skill_id, st)) /\ GoTo("next")
       /\ todo' = <<>>
  ELSE /\ Emit(Cited(Head(cites))) /\ GoTo("citing")
       /\ todo' = Tail(cites)

\* The metadata call gave a result; validate_agent_metadata lets it pass only
\* with citations of the skill's own allowlist.
AnyMetadata(cites)   == Range(cites) \subseteq DOMAIN catalog \union {Forged} \* mutant
ValidMetadata(cites) == Range(cites) \subseteq Allowlist

Accept(st, cites) ==
  /\ used'     = used \union (Range(cites) \intersect Allowlist)
  /\ uncited'  = uncited \union (Range(cites) \ Allowlist)
  /\ sections' = IF IsVisible(step) THEN Append(sections, Section(st, cites))
                                    ELSE sections
  /\ steps'    = Append(steps, Step(skill_id, "skill", st))
  /\ NextOfResult(Picked(cites, {i \in DOMAIN cites : cites[i] \in DOMAIN catalog}), st)

Judge ==
  /\ pc = "judging"
  /\ \/ \E st \in SkillStatuses, n \in 0..MaxCites :
          \E cites \in [1..n -> DOMAIN catalog \union {Forged}] :
            /\ ValidMetadata(cites)
            /\ Accept(st, cites)
            /\ UNCHANGED <<tables, workflow, step, bundle, catalog, answer>>
     \/ Raise

\* The generator resumes after a citation event.
Cite ==
  /\ pc = "citing"
  /\ NextOfResult(todo, steps[Len(steps)].status)
  /\ UNCHANGED <<tables, workflow, step, bundle, catalog, answer, steps, sections,
                 used, uncited>>

\* The sequence is done: the price chart, which every workflow requires.
Chart ==
  /\ pc = "next" /\ step = StepCount
  /\ Emit(Artifact) /\ GoTo("charted")
  /\ UNCHANGED <<tables, localVars>>

\* runs.save of the final record.
Save ==
  /\ pc = "charted"
  /\ \/ /\ UpsertRun(run_id, FinalRun.status, FinalRun) /\ GoTo("clearing")
        /\ UNCHANGED <<run_citations, localVars, events>>
     \/ Raise

\* runs.save_citations: the old rows go, the new ones come one by one.
ClearCitations ==
  /\ pc = "clearing"
  /\ \/ /\ DeleteCitationRows(run_id) /\ GoTo("inserting")
        /\ UNCHANGED <<runs, localVars, events>>
     \/ Raise

Missing == RowsOf(run_id, FinalRun.citations) \ CitationRows(run_id)

InsertCitation ==
  /\ pc = "inserting"
  /\ \/ \E row \in Missing :
          /\ InsertCitationRow(row.run_id, row.citation_id, row.snapshot)
          /\ UNCHANGED <<runs, pc, localVars, events>>
     \/ Missing # {} /\ Raise

CompleteEarly ==            \* mutant: completed before the citations are stored
  /\ pc = "inserting"
  /\ Emit(Terminal("run.completed", FinalRun)) /\ GoTo("told")
  /\ UNCHANGED <<tables, localVars>>

Complete ==
  /\ pc = "inserting" /\ Missing = {}
  /\ Emit(Terminal("run.completed", FinalRun)) /\ GoTo("told")
  /\ UNCHANGED <<tables, localVars>>

FailUnsaved ==                           \* mutant: the failure is told, not saved
  /\ pc = "handler"
  /\ Emit(Terminal("run.failed", FailedRun)) /\ GoTo("told")
  /\ UNCHANGED <<tables, localVars>>

\* The except clause: the failed record replaces whatever was saved.  A save
\* that raises here ends the generator without a terminal event.
Fail ==
  /\ pc = "handler"
  /\ \/ /\ UpsertRun(run_id, "failed", FailedRun)
        /\ Emit(Terminal("run.failed", FailedRun)) /\ GoTo("told")
        /\ UNCHANGED <<run_citations, localVars>>
     \/ GoTo("died") /\ UNCHANGED <<tables, localVars, events>>

Return ==
  /\ pc = "told" /\ GoTo("returned")
  /\ UNCHANGED <<tables, localVars, events>>

SuspendedInSaves == {"start", "next", "collecting", "asking", "answering", "judging",
                     "citing", "charted", "clearing", "inserting", "told"}  \* mutant

Suspended == {"start", "next", "collecting", "asking", "answering", "judging",
              "citing", "charted", "told"}
Ended     == {"returned", "closed", "died", "crashed"}

\* The generator is cancelled or garbage: neither is an Exception, so the
\* handler does not run and nothing is saved.
Close ==
  /\ pc \in Suspended /\ GoTo("closed")
  /\ UNCHANGED <<tables, localVars, events>>

\* The process dies; the tables stay as they are.
Crash ==
  /\ pc \notin Ended /\ GoTo("crashed")
  /\ UNCHANGED <<tables, localVars, events>>

Terminated == pc \in Ended /\ UNCHANGED vars

Progress ==
  \/ Start \/ BeginStep \/ Collect \/ Ask \/ AnswerDelta \/ AnswerEnds
  \/ Judge \/ Cite \/ Chart \/ Save \/ ClearCitations \/ InsertCitation
  \/ Complete \/ Fail \/ Return

Next == Progress \/ Close \/ Crash \/ Terminated

Spec == Init /\ [][Next]_vars

\* The client keeps asking for events, the provider answers.
FairSpec == Spec /\ WF_vars(Progress)

--------------------------------------------------------------------------------
(* Properties.                                                                *)

Told    == events # <<>> /\ events[Len(events)].kind \in {"run.completed", "run.failed"}
ToldRun == events[Len(events)].run

\* The events of a kind, in the order they were yielded.
Streamed(kind) == Picked(events, {i \in DOMAIN events : events[i].kind = kind})

\* The stage events that end a step.
Closing == Picked(events, {i \in DOMAIN events : events[i].kind = "run.stage"
                                                 /\ events[i].status # "running"})

TypeOK ==
  /\ workflow \in Workflows
  /\ pc \in Suspended \union Ended \union {"clearing", "inserting", "handler"}
  /\ step \in 0..StepCount
  /\ bundle \subseteq Kinds /\ used \subseteq Kinds
  /\ catalog \in [DOMAIN catalog -> {"raw", "audited"}] /\ DOMAIN catalog \subseteq Kinds
  /\ answer \in Seq(Chunks) /\ todo \in Seq(Kinds)
  /\ uncited = {}
  /\ \A i \in DOMAIN steps : steps[i].status \in SkillStatuses
  /\ DOMAIN runs \subseteq {run_id}
  /\ \A row \in run_citations : row.run_id = run_id /\ row.citation_id \in Kinds

(***************************************************************************)
(* What the client is told is what the store shows: the record in the      *)
(* terminal event is the one persisted, its citations are in both tables,  *)
(* and a failure never replaces an outcome the client was told             *)
(* (service.py:388-437, run_store.py:166-224).                             *)
(***************************************************************************)
ToldIsPersisted ==
  Told => /\ Stored(run_id)
          /\ runs[run_id] = [status |-> ToldRun.status, data |-> ToldRun]
          /\ events[Len(events)].kind = "run.completed" =>
               CitationRows(run_id) = RowsOf(run_id, ToldRun.citations)

(***************************************************************************)
(* FR-039: the streamed events reconcile with the final record.  There is  *)
(* one terminal event and it is last; the closing stage events are the     *)
(* record's steps; the deltas are the answer of its section, but for the   *)
(* spaces it is stripped of; a completed run's citation events have the    *)
(* ids of the citations it records, in any order and with whatever copy of *)
(* the source was at hand.  And only the last skill of the sequence speaks *)
(* to the user: no delta and no section comes from the auditor of a        *)
(* composite workflow (service.py:258-273, 296-307).                       *)
(***************************************************************************)
StreamReconciles ==
  LET deltas == Streamed("answer.delta")
      last   == workflow.step_sequence[StepCount]
  IN /\ \A i \in DOMAIN deltas : deltas[i].stage = last
     /\ \A section \in Range(sections) : section.stage = last
     /\ \A i \in 1..(Len(events) - 1) :
          events[i].kind \notin {"run.completed", "run.failed"}
     /\ Told =>
          /\ Len(Closing) = Len(ToldRun.steps)
          /\ \A i \in DOMAIN Closing :
               /\ Closing[i].stage  = ToldRun.steps[i].id
               /\ Closing[i].status = ToldRun.steps[i].status
          /\ \A section \in Range(ToldRun.sections) :
               section.content = [i \in DOMAIN deltas |-> deltas[i].text]
          /\ events[Len(events)].kind = "run.completed" =>
               {e.citation_id : e \in Range(Streamed("citation"))}
                 = DOMAIN ToldRun.citations

(***************************************************************************)
(* A stored run that is not failed went through every step of its sequence *)
(* without a failed skill, whatever was interrupted since; what it says is *)
(* free of forbidden terms and grounded: it cites records that were        *)
(* collected and given to one of its skills, and no other.                 *)
(***************************************************************************)
UnfailedIsWholeAndGrounded ==
  (Stored(run_id) /\ runs[run_id].status # "failed") =>
    LET run == runs[run_id].data IN
      /\ [i \in DOMAIN run.steps |-> run.steps[i].id] = workflow.step_sequence
      /\ \A i \in SkillSteps(run.steps) : run.steps[i].status # "failed"
      /\ run.status = "success" =>
           \A i \in SkillSteps(run.steps) : run.steps[i].status = "success"
      /\ run.grounding = "pass"
      /\ DOMAIN run.citations \subseteq
           UNION {SkillRecords(workflow.step_sequence[i], bundle) : i \in 2..StepCount}
      /\ \A section \in Range(run.sections) :
           /\ "forbidden" \notin Range(section.content)
           /\ section.citations \subseteq DOMAIN run.citations

(***************************************************************************)
(* A run that is cancelled leaves all of its outcome or nothing: closing   *)
(* cannot come between the statements that store it, as they do not await. *)
(***************************************************************************)
CloseLeavesNoHalf ==
  (pc = "closed" /\ ~Told) => ~Stored(run_id) /\ run_citations = {}

(***************************************************************************)
(* The run implements the outcome a client can rely on.                    *)
(***************************************************************************)
Outcome == INSTANCE RunOutcome WITH
  Outcomes <- SkillStatuses,
  Runs     <- {run_id},
  recorded <- [r \in {run_id} |-> IF Stored(r) THEN runs[r].status ELSE "none"],
  told     <- [r \in {run_id} |-> IF Told THEN ToldRun.status ELSE "none"]
ImplementsOutcome == Outcome!Spec

(***************************************************************************)
(* A run that is neither closed nor cut off by a crash or by a store that  *)
(* refuses even the failed record tells its client how it ended.           *)
(***************************************************************************)
EndsTold == <>(Told \/ pc \in {"closed", "died", "crashed"})

(***************************************************************************)
(* What the documents say of a run, checked in runs of their own.          *)
(***************************************************************************)

\* Events are safe to display: no chunk with forbidden terms is streamed
\* (api-contract.md:411).
SafeStream == \A e \in Range(Streamed("answer.delta")) : e.text # "forbidden"

\* Fundamentals are said to be audited only where the audit completed
\* (data-model.md:224).
AuditedWasAudited ==
  \A row \in run_citations :
    row.snapshot = "audited" =>
      \E i \in DOMAIN steps : steps[i].id = Auditor /\ steps[i].status # "failed"
================================================================================
