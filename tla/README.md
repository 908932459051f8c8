# FinMind: a formal model

FinMind answers questions about Vietnamese stocks. A user picks a workflow in
the chat, the FastAPI backend collects market data, runs a sequence of skills
with a language model, streams the answer as server-sent events and keeps the
run with its citations in PostgreSQL. This directory holds TLA+ specifications
of that backend and of the web application's state, the TLC models that check
them and proofs for TLAPS.

Paths below are relative to `src/`; Python sources are under
`src/src/finmind_api` and `src/src/finmind_agents`, the web UI under
`src/src/finmind_ui/src`. The contract documents the comments quote
(`api-contract.md`, `data-model.md`, `spec.md`, `state-model.md`) are those of
the repository's `specs`.

## 1. Inventory

| Component | Source | State it keeps | Operations | What makes it correct |
|---|---|---|---|---|
| Stream limiter | `finmind_api/streaming.py` | two counters, one total and one per user | acquire, release | counters equal the leases out; limits hold; no refusal while there is room |
| Run endpoint, response driver, heartbeats | `routes/workflows.py`, `streaming.py` | a lease, the outstanding `__anext__`, the frame in hand | POST run, iterate, heartbeat, disconnect | the lease comes back once on every path; no frame lost or asked for twice |
| Sync offload | `runtime/offload.py` | a semaphore, threads | run_sync | no more threads than permits; a queued call gets its turn |
| Workflow run | `workflows/service.py` | locals of the generator, two tables | the steps of a run, persistence, failure handler | told is persisted; stream and record reconcile; nothing ungrounded is completed |
| Agent orchestrator, validators | `runtime/service.py`, `agents/validators.py` | the answer being streamed | stream a skill, check answer and metadata | only checked metadata enters a record |
| Evidence bundles, citations | `evidence/` | none | what a skill sees and may cite | a citation belongs to a record the skill was given |
| Run repository | `run_store.py` | `runs`, `run_citations`, price series | save, save_citations, list, get, delete, update_title | overlapping statements look like atomic operations |
| Run routes | `routes/runs.py` | none | list, get, citations, rename, delete | status codes match what happened |
| Sessions, auth | `auth.py`, `routes/auth.py` | in-memory dictionary | login, lookup, logout, expiry | an expired or revoked token opens nothing |
| Preferences | `preferences_store.py` | in-memory dictionary | get, set | a user sees the own value |
| Collection, providers | `workflows/collector.py`, `dataflows/` | none beyond a call | collect, validate, fall back | status says what is missing |
| Catalog, definitions | `workflows/definitions.py`, `specs.py`, `skills.py` | constants | list, look up, validate inputs | sequences start with collection, skills exist |
| Indicators, patterns | `workflows/indicators.py`, `evidence/patterns.py` | none | pure functions on price series | windows, ratios and ranking at their boundaries |
| Charts, downloads | `finmind_agents/artifacts.py`, `routes/artifacts.py` | none | render, download | the picture and the file show the series, inside the frame |
| UI stream client | `api/client.ts` | buffer of bytes | parse frames, detect truncation | frames split anywhere are put together; a cut stream is an error |
| UI chat application | `App.tsx`, `features/chat` | conversations, hydration, session | start a run, apply events, hydrate, rename, delete | local and stored history converge |
| UI views | rest of the UI | none | rendering | not modelled |

How they interact. `POST /api/workflows/{id}/runs` takes a lease, prepares the
run, and returns a streaming response. The response task of the server iterates
`_guarded_event_source`, which iterates `with_heartbeats`, which asks the
workflow generator for one event at a time in a task of its own. The generator
hands its collection to a thread under the offload semaphore, awaits the model,
and writes to the run repository *on the event loop*. Rename and delete are
plain functions and run in worker threads, so their statements interleave with
everything else on the two tables. Connections use autocommit: the unit of
atomicity is a SQL statement, not a method.

What is hard:

* a disconnect may be seen by a poll or arrive as a cancellation at any await
  of the response task, and what it reaches differs with and without heartbeats;
* a generator nobody iterates any more, suspended in the middle, with a thread
  or a model call still working for it;
* three statements store a run, each of which may fail, with the process dying
  between any two;
* deltas are streamed while the answer is still unchecked;
* rename reads a record and writes it back.

Sections 3 to 5 say what is shown about each; `PROJECT.json` has the complete
list of hazards with the line where each bites.

## 2. Modules

```
LeasePool  <---implements--- StreamLimiter <---instance, refinement--- StreamSession
                                                                           |
                                                                       implements
                                                                           v
RunTables <--extends-- WorkflowRun ------------implements----------> RunOutcome
    ^
    +-------extends--- RunStore    ------------implements----------> RunShelf
                                                                        ^
Sessions  <--extends-- ChatApp -------its history is (proved)-----------+

Vnstock <--extends-- Collection <--+
                                   |
SseClient <------------------------+--extends-- Evidence
                                   |
Series <--extends-- Indicators, Patterns <-- PatternSetups, Charts (instances of Evidence)

Selection  <--extends-- WorkflowRun, ChatApp, Collection, Vnstock, Patterns
```

How they compose: StreamSession uses the limiter;
WorkflowRun and RunStore share the tables; ChatApp puts the browser in front of
the history that RunStore implements; Evidence composes the collection, the
computations and the response's way to the browser. WorkflowRun and Evidence
are two views of one generator: the first has every failure and every
statement of a run whose data is a choice of outcomes, the second has the data
of a run whose skills answer.

The theorems about a module `M` and their proofs are in `M_proofs`;
**Reading_proofs** continues Evidence_proofs, and **Selection_proofs** has the
lemmas that several of them cite.

**Selection** is two operators: `Picked(s, I)` keeps the elements of `s` at the
positions `I`, as the code's comprehensions with an `if` do, and `Arranged(before)`
puts the elements of a set in order, each at the place its number of predecessors
gives it, as the code's sorts do. The library's `SelectSeq` and `SortSeq` mean the
same; they are built in, and the provers know nothing of them but their names.

**LeasePool** is the abstract limiter: the only state is who holds a lease, and
a lease is granted exactly when there is room.

**StreamLimiter** is `StreamConcurrencyLimiter`. `active_global` and
`active_by_user` are the two counters; the second is a partial function because
the code pops entries that reach zero. `Acquire`/`AcquireRefused` are the two
results of `acquire`, `Release` with `TakeBack` is `release`, clamps included.
Both methods hold one `asyncio.Lock` and await nothing inside, so each is a
step.

**StreamSession** is one request per element of `Requests`. A step is what a
coroutine does from one suspension to the next.

| Variables | Code |
|---|---|
| `stream`, `active_*` | the limiter and the `lease` local of the route |
| `driver`, `hand`, `sent` | the response task: `preparing` (in the route), `start`, `waiting` (in `asyncio.wait`), `checking` (`is_disconnected`), `sending` (the ASGI send), `broken` (suspended at its yield and abandoned), `ended` |
| `pull` | `pending_frame`, the task of the outstanding `__anext__` |
| `exec`, `pos`, `frames`, `record` | the workflow generator: suspended at a yield (`paused`), in the offload queue, in a thread, in the model call, or over |
| `permits`, `threads` | the offload semaphore and the thread pool |

The generator is reduced to `Script`, the awaits it makes between two events.
A disconnect cancels the response task. With heartbeats on, the generator runs
in a task of its own and the cancellation does not reach it; with heartbeats
off it is thrown into the generator's await.

**WorkflowRun** is the generator itself, `_stream_workflow_events`, with
`stream_skill`, the validators, the evidence selection and the three
persistence calls statement by statement. `pc` names its suspensions (yields
and awaits, `Suspended`) and the points between statements. It can be closed at
a suspension only; the process may die anywhere. The three workflow definitions
are constants of `MCWorkflowRun`.

**RunTables** holds the tables and the SQL statements, shared by the two modules
that issue them. **RunStore** puts several generators that store runs together
with clients that rename and delete runs, one statement per step. **RunOutcome**
and **RunShelf** are the abstract promises: what a client is told is recorded
and stands, and the history behaves as if each operation were atomic.

**Sessions** is `SessionService`: tokens are numbers never used twice, an
expired session is dropped by the lookup that finds it, a restart forgets all.

**ChatApp** is `App.tsx` against that service and against RunShelf. A step of the
browser is one event handler up to its first await, or one promise reaction;
a step of the server is one function of a request: the routes of the history check
the session in `require_session` (`Admit` or `Refuse`), a call of its own in a worker
thread, and do what is asked in another (`Handle`), so that a logout or an expiry may
come between the two. Nothing in the code cancels a call, so an answer meets whatever
the state has become. What a stored record shows of a run (`Record`) is a constant
apart from the events (`Script`), and nothing says that they agree: the record has its
citations sorted, the audited copy of one that was streamed raw, and its answer
stripped.

| Variables | Code |
|---|---|
| `session`, `conversations`, `currentConversationId` | the React state of the same names |
| `calls` | the requests in flight, each with the token and the selection it was sent with (the handler's closure), and its answer once there is one |
| `stream` | per run the execution on the server (`exec`), the connection (`link`), how much of it the browser has applied (`got`) and its terminal event (`last`) |
| `shelf`, `settled` | the history, by RunShelf's own operations |
| `given` | the titles each run has had; history that no action reads |
| `sessions`, `cookie` | Sessions |

`Hydrate` is the effect at App.tsx:65 that replaces the list, `Settle` and
`SettleError` are the two ends of `handleRunStart`, `Unauthorised` is
`handleSessionExpired`. `Lose`, `Cut`, `SessionExpires` and `Restart` are the
faults: a request or an answer lost, a connection broken with the execution
cancelled or not, an expiry, a new process with no sessions.

**Collection** is the path from the request to the list of records: validation,
the plan of `collector.py`, the provider's three groups under an exception
handler each, and the two places that derive a status. The environment is the
variable `market`, what each call of the vendor's library will answer in this
run; **Vnstock** holds what the answers become.

**Evidence** goes on from there: indicators, data records, derived records, the
bundle each skill gets, the citations that are kept, the chart, the events.
**Series**, **Indicators**, **Patterns**, **PatternSetups** and **Charts** are the
pure functions of `indicators.py`, `patterns.py`, `artifacts.py` and
`routes/artifacts.py`. A float is an integer of thousandths that is rounded down,
so a comparison of the code may come out differently only for values within a
thousandth of a threshold. The coordinates of a chart are tenths of a pixel, since
the picture has them with one decimal; a point exactly between two tenths is
rounded up here, where the float decides in the code. The modules were compared
with the Python functions on some 720 random series, the coordinates on 20000
random points: verdicts, ids, order and rounded values agree.

**SseClient** is the text of the response: frames as the server writes them, the
network cutting them anywhere, and `requestEventStream` with its buffer. Text is a
sequence of words, one of which is the newline. The split of the buffer at empty
lines and the loop over the parts are recursive functions of the number of words or
frames taken (`NextWord`, `NextFrame`).

Data is reduced to what the properties compare. In WorkflowRun a record is its kind,
and its citation has the kind as id with a snapshot that says raw or audited. A chunk
of an answer is fine or contains forbidden terms. A run record keeps status, steps,
sections, citations and grounding. Titles, prompts, claims, warnings, timestamps, logs
and the bytes of frames are left out.

Definitions marked `mutant` in a comment are not part of any specification: each
is a plausible defect of the definition next to it, and `PROJECT.json` names
the property that notices it.

## 3. Runs

| Run | Module, cfg | Question | Expected |
|---|---|---|---|
| `limiter` | MCStreamLimiter | do the counters exactly count the leases of five streams of two users, and is a lease granted whenever, and only when, there is room? | holds |
| `session_heartbeats` | MCStreamSession, SessionHeartbeats | two streams with heartbeats: lease held exactly while answering, no frame lost or asked for twice, offload bound, limiter used correctly; with a fair event loop a disconnect gives the lease back, and with a moving outside world everything ends | holds |
| `session_plain` | SessionPlain | three streams, heartbeats off: a disconnect cancels the execution, no terminal frame without a record | holds |
| `session_orphan` | SessionOrphan | the same cancellation with heartbeats on | violated |
| `run_safety` | MCWorkflowRun, RunSafety | one run of each workflow with every outcome of data, answer, metadata and of each statement; a run that is not cut off tells its end | holds |
| `run_unsafe_stream` | RunUnsafeStream | are streamed chunks free of forbidden terms? | violated |
| `run_audited` | RunAudited | is "audited" said only where an audit completed? | violated |
| `store_history` | MCRunStore, StoreHistory | do rename and delete statements, interleaved with each other and with runs being stored, and a crash implement the atomic history? | holds |
| `store_citations` | StoreCitations | do the rows of the citations endpoint match the record in every quiet state? | violated |
| `chat_app` | MCChatApp, ChatApp | does every conversation show its own run, does the history shown exist, does nothing vanish of itself, is the history changed only for requests that were let in, does every wait end, whatever the order of events, answers, clicks and faults? | holds |
| `chat_history` | ChatHistory | does a plain conversation stay in the history until it is deleted? | violated |
| `evidence` | MCEvidence, Evidence | do records, statuses, indicators, patterns, bundles, citations, the chart and what the browser reads agree, for each way a vendor call fails and 1460 price series? | holds |

What some of the properties say together:

* `NothingVanishes` (chat): a message that waits leaves the screen only when it
  ends or is deleted, and a stored run leaves the history only by a delete or by
  a list that was read before it was stored. The second case does happen: a run
  that completes between the snapshot of a list and its arrival is hidden until
  the next list.
* `PendingEnds` (chat) has one exception the code makes: a POST answered with 401
  leaves its message waiting.
* `FailureIsTold` (evidence) is about a price fetch that raised, a client of the
  statements that could not be made, and statements an overview stood in for. It does
  not cover a single statement or an overview whose fetch raised, which the code
  swallows against FR-033 (section 4), nor a group that returned *nothing* while others had data:
  status and warnings are then those of a success.
* `OnlyLiveSessionsChange` (chat): a request that was let in is carried out though
  its session ends meanwhile; once those are done, nothing carrying that token is let
  in again. It does not say that the session is live when the run changes, which is
  not so.
* `HistoryIsStored` (chat): the title shown is one the run had, not always its
  present one (section 4).
* `StreamReconciles` (run) compares the citations streamed and recorded by their ids.
  Their order and their snapshots (section 4) differ, and so does the
  white space at the ends of the answer, which is stripped in the record
  (runtime/service.py:126).
* `CitationsShowWhatWasSeen` (evidence): the year-end summary has the id of the
  price series; what is kept under it is the summary, as the skill saw it.
* `FiguresAgree` (evidence): the ratios are of the latest statement; averages lie
  among the prices; the worst drawdown is the deepest fall there is; the
  two computations of the strength index agree.
* `PatternsAreSound` (evidence): no bar between the two lows of a double bottom is
  lower than the lower one, and its neckline is the high of a bar between them that
  is not below that low (it may be below the other, section 4); a zone to watch is a
  range, the falling wedge excepted; setups are in order of score, then distance,
  with a distance of zero as the farthest. Which family names the
  series is not checked (section 4).
* `ReadsWhatWasSent` (evidence): wherever the response is cut, the handled events
  are those whose frames are complete, in order, with their newlines.

Deadlock is checked except where the system really stops: in the chat, when the
user's moves are spent and nothing is in flight, and in the evidence, when the
response is read. Elsewhere, where
a run or stream comes to an end in the other modules, `Terminated` is an
explicit self-loop that is enabled only when everything is over.

### Bounds

* **Limiter**: five streams, three of one user and two of another, total limit
  3, per-user limit 2. Both limits are reached separately and together. The
  proofs (section 5) remove the bound.
* **Sessions**: two requests of two users with heartbeats, three requests (two of
  one user) without, over the script `sync, offload, model, save`, which has every
  kind of await. Total limit 2, per-user limit 1, offload limit 1: with three
  requests one is refused for either reason, with two one queues for the thread.
  Frames per stream are bounded by the script. A script repeats its kinds of
  steps only, since each await behaves alike whatever was sent before. The
  theorems of StreamSession are for any number of requests.
* **Run**: the three real definitions; at most two chunks per answer (a fine
  chunk followed by a forbidden one, and the reverse) and two citations per
  skill (one right and one wrong, or the same one twice).
* **Chat**: two runs, one plain conversation, two calls in flight (`Slots`) and
  three moves (`MaxMoves`), a move being an action of the user or a fault; what
  the server and the browser do is not bounded. Each property is about one run
  against at most one other and one call; three moves are a start, another
  start or an expiry, and a rename, a delete or a login; or a start and two
  renames to different titles, served and answered in any order. Its safety
  properties are also proved without bounds. One run streams stages and an
  answer, the other a citation that its record has audited; of both the record
  differs from what the events add up to.
* **Evidence**: every refusal of the request; every library state; for each
  workflow every combination of five price answers, five overviews and the
  statements refused, of an industrial company and of a bank, with missing
  rows, empty tables and exceptions; all 729 series of six bars over three
  closes; 729 series of 15, 25 or 55 bars in five legs that rise, rest or fall,
  long enough for every window up to 50 and for the patterns; responses in
  chunks of 1 to 12 words with heartbeats before either of two events, and
  broken connections. The averages of 200 bars and the year's extremes of 250
  are always of a shorter series here. Two series of 45 bars rise once and
  stay: two setups get the highest score there is, and one or both are at a
  distance of zero, where the ranking is easily wrong. A year has four days.
  All of it is also proved without these bounds, the patterns for bars whose
  low is not above their high and the chart for a series that fits the picture;
  `PricesAreOrdinary` of MCEvidence has TLC check that the instance is such.
* **Store**: two runs, two calls in flight, one crash. Every race of the routes
  is between two calls on the same run; the second run shows that statements do
  not leak over. `store_citations` uses one run with two citations and no crash,
  so that nothing but a raising statement can be the cause.

### Fairness

* `LoopFairness`: asyncio runs every task that is ready and closes abandoned
  generators. Weak fairness on the response task and on the generator's task of
  each request. `DisconnectReleases` needs nothing more.
* `OutsideFairness`: clients read what is sent, threads end, the provider
  answers. It is an assumption on the environment and is stated as such, on the
  left of the implication `EverythingEnds`; the code sets no timeout that would
  enforce it. Heartbeats need no fairness, they may or may not come.
* `FairSpec` of WorkflowRun: the generator is asked for its next event and every
  await ends, with a close or a crash possible at any time.
* `Fairness` of ChatApp: an execution ends, and the browser goes on reading its
  streams and runs the reactions that are due to them. Calls may hang for ever, be
  lost and connections be cut at any time, the user need do nothing. `PendingEnds` is
  the only property that needs it.

## 4. Where the code and its documents disagree

These are the runs whose expected result is a violation; `PROJECT.json` has the
quotes.

* `session_orphan`: with heartbeats on (the default) a disconnect cancels the
  response only. `with_heartbeats` has no `finally` that cancels the outstanding
  `__anext__`, so the execution goes on in the queue, the thread or the model
  call until its next event, after its lease was given to somebody else.
* `run_unsafe_stream`: the answer is validated when it is complete, its deltas
  have been streamed by then.
* `run_audited`: the fundamental skill gets its records with `is_audited` set
  whenever it runs, also after an auditor that reported failure.
* `store_citations`: `save_citations` raises after an insert, the handler stores the
  run as failed, with no citations, and the rows written so far stay: the citations
  endpoint lists sources the failed run does not have.
* `chat_history`: the list of runs replaces the conversations that are not pending.
  A plain conversation, which the server does not know, is added to the history
  by its first answer and taken out again when a list arrives, which may have
  been asked for before the conversation began.

Seen while modelling, without a run of their own; the first three go against a
document:

* A statement or an overview whose fetch raised counts as having no rows
  (`_safe_statement_rows`, `_first_overview_row`, vnstock.py:251-267). With both gone,
  the fundamentals that were asked for are missing from a collection that is a success
  and has no warning, where FR-033 (`specs/002-workflow/spec.md:281`) asks for "a
  warning/partial/unavailable result" of every provider failure.
* `detect_pattern_setups` takes for the archetype the family of the most setups, and of
  the best one at a tie (patterns.py:464-467). `pattern_scoring.md:324-344`, the source
  of the scoring (`data-model.md:199`), goes by priority, trend following before
  accumulation and both before anything else: an ascending triangle behind a better
  falling wedge is accumulation there and recovery here. That reference also counts a
  falling wedge as `mixed` (302-315) where the code has `reversal_or_recovery`, and
  has archetypes which the code never gives.
* A skill before the fundamental one may cite the fundamentals. That event carries the
  record as it was collected; the fundamental skill then puts the audited copy under
  the same id (service.py:224), and the client keeps the first copy of an id
  (App.tsx:147) until the run is over and the record replaces it. FR-039 (`spec.md:300`)
  has streamed events reconcilable with the record.
* `run_sync` holds its permit in an `async with` around `asyncio.to_thread`
  (offload.py:24). A cancelled awaiter leaves the block while the thread runs on,
  so without heartbeats more threads may work than `FINMIND_SYNC_OFFLOAD_LIMIT`
  allows; and there is no timeout around the thread, although a setting for
  one exists (settings.py:19): one provider call that never returns holds its permit
  for ever.
* A provider result in which one requested group is silently empty is a success
  (`_result_status`). FR-033 speaks of failures and leaves open whether an empty answer
  is one.
* A record marked audited keeps its warning `audit_not_run`.
* A return on equity above 100% as a ratio is taken for a percentage.
* The chart's `source_refs` name every id the run knew, also those the stored run
  has no citation of.
* `_strict_double_bottom` (patterns.py:67) calls two lows within three per cent of
  each other a double bottom with the highest swing high between them for a
  confirmation level, which may be below the second low: lows of 100 and 102.2 around
  a high of 101. The reference of the skill describes that status as a neckline not
  yet broken (`pattern_detection.md:37`).
* A bar without a high has its close for a high, though its open may be above.
* The zone to watch of a falling wedge can have its bounds the wrong way round;
  a double bottom has no least distance between its lows; a divergence may
  compare an older pair of lows than the latest; one bar may be hammer and
  shooting star; a distance of exactly zero ranks as the farthest, in the reference too
  (`pattern_scoring.md:208-213`); a flat series has a strength index of 100.
* A process that dies between `save` and `save_citations` leaves a completed run
  without citation rows, and nothing writes them later. The client was not told.
* Two renames of one run whose answers overtake each other leave the older title on
  the screen until the next list, and so does a list that was read before a rename.
* A request that was let in is carried out after the logout that overtook it.
* A 401 that answers a call of an earlier session signs the present one out.
* A connection cut after `run.completed` but before the end of the response shows an
  error, though the run is stored and comes with the next list.
* A delete whose answer a late list overtakes lets the run reappear until the next
  list.

## 5. What is proved

TLAPS checks eight proof modules. A safety property is seldom inductive; each module
defines an invariant that is, and the theorem follows from it. Every safety property
a run checks and expects to hold is the subject of a theorem. The proofs rest on the
assumptions the modules declare, which TLC evaluates for the checked instances:

| Assumption | Says |
|---|---|
| `LimiterAssumption`, `StoreAssumption` | limits are integers, each stream has a user, the bound on crashes is a number |
| `SessionAssumption` | the same of requests, and that a script is of the known kinds of steps and ends in a save |
| `WorkflowAssumption` | a definition collects first and once and has a further step; its data groups are known and at least one |
| `ChatAssumption` | workflow runs and plain questions are different requests, the bound on moves is a number, and what a run streams is a sequence |
| `WorkflowsAreDefined`, `NullIsNoStatus` | a case names one of the three workflows; "no status yet" is none of the statuses |
| `PeriodsAreFinite` | the periods of an income statement are finitely many integers, so that one of them is the latest |
| `PricesAreRows` | prices, when the vendor gives any, are a sequence of rows of numbers |
| `ReadsAreFinite` | a read of the network returns a number of words |

Four theorems have a hypothesis of their own in their statement, since what they say
is false without it: heartbeats on or off (below), and two about the vendor's prices,
which the code uses and does not check. `BarsAreRanges`, for the patterns: the low of a
bar is not above its high once a missing one is read as the close. `FitsTheFrame`, for
the chart: at most 5681 bars and closes at most 2480 steps apart, so that two bars, and
two closes, are a tenth of a pixel apart; the provider is asked for 45 days
(vnstock.py:153).

Several proofs need what a recursive function computes for every sequence. The
library's induction theorems are stated for an operator and cannot be instantiated
here, but the statement for the *set* of numbers that have a property can be:
`Induction` of **Selection_proofs** is that statement, and `Solvable` says that a
recursive function over the positions of a sequence satisfies its equation. `Picked`
is handled once (what it selects, what an appended element adds, when two selections
are equal); the functions of SseClient, which join, split and handle, each have such
a lemma of their own (`Joinable`, `Splittable`, `Handleable`).

**StreamLimiter_proofs**: for every set of streams and users and every pair of
limits, zero and negative ones included, `CountersAlwaysExact`, `NeverOverLimit`,
`LimiterImplementsPool`. `WithinLimits` is not inductive: the guard of `acquire`
reads counters, not leases. `IInv` adds that the counters are exact, that entries of
the dictionary are never zero, and that finitely many leases are out, without which
a cardinality means nothing. The finiteness is not an assumption on `Leases`: the
set of leases out starts empty and changes by one element a step. Under `IInv` a
read of the dictionary gives the number of leases of that user (`ActiveIsHeld`),
hence `Exhausted` is the negation of the pool's `Room` (`ExhaustedIsNoRoom`); an
acquire adds one lease to exactly one user's set and one to both counters, and a
release takes one away, where the clamps never bite and the entry is popped exactly
when the user's last lease is returned. `LimiterTypes` is the type invariant:
neither counter is ever negative.

**StreamSession_proofs**: for every set of requests, every script that ends in a
save, heartbeats on and off. `IInv` is a conjunction of facts about one request
(where the lease, the frame in hand, the outstanding `__anext__`, the execution and
the record are relative to each other); a step of one request leaves the facts of
the others. `OneFrameAhead` needs all of them: that a heartbeat leaves the
`__anext__` outstanding, that it is asked again only after the frame it gave was
sent, and that the generator is in an await only while it is asked.
`LeaseFollowsDriver` makes every release of the route a release the limiter allows
(`ReleaseIsRelease`), which gives `RouteUsesLimiter`, and with the limiter's own
theorem `AnsweredWithinLimits`: the limits hold in the composed system. Two theorems
have their hypothesis in their statement, as the property is false otherwise
(section 4): with heartbeats no more threads run than configured
(`HeartbeatsBoundThreads`); without, a disconnect leaves nothing of the execution in
the queue or the model call (`DisconnectsCancel`), because the response task either
awaits the generator itself or has a frame in hand while the generator is suspended
at its yield (`AwaitedInv`).

**WorkflowRun_proofs**: for every set of definitions, any length of answers and
number of citations. `ToldAlwaysPersisted`, `CloseIsClean`, `RunImplementsOutcome`.
`IInv` says what the tables hold at each place of the generator: nothing while it is
suspended before the first statement, the final record between the statements, and
the record of the event after it. The locals the record is built from do not change
on the way (`SameFinalRun`), so what `Complete` emits is what `Save` stored.

`RunTypes`, `UnfailedIsWhole` and `StreamAlwaysReconciles` need more. Their invariant
comes in three layers, each proved with the ones before it. `Data`: the
finished steps are a prefix of the definition's sequence at every place of the
generator, and every id used was on the allowlist of the skill that used it.
`Trace`: the deltas streamed so far are the answer of the last skill as it is
collected, the events that close a step have the step's name and status in order,
and the ids sent as citations are those used once a step is over. `Kept`: nothing is
emitted after the end, the record told at the end is made of the same steps,
sections and citations, and an unfailed one has them all. So a client that puts the
stream together has what the stored record will show it.

**RunStore_proofs**: for any number of runs, clients, citations and crashes.
`ColumnsAlwaysAgree`, `OneDeleteSucceeds`, `CitationsAlwaysFollow`, `StoreTypes`,
`StoreImplementsShelf`. What a rename has read of a run that is still there differs
from the row in the title only (`CallOf`), since a settled run is touched by renames
and deletes alone; a delete that removed the citations finds the run without
citations when it removes the row; a removed run has no generator left to store it
again. The refinement maps the rows to titles and outcomes: a rename that hits no
row is a stutter, the second of two deletes removes nothing.

**ChatApp_proofs**: for any number of runs, titles, conversations, calls and faults,
and whatever the records show. `StepShelves` reduces the composed system to what its
steps do to the history: a run is stored and settled, something is settled, or a
request that was let in renames or removes. With it `HistoryIsTheShelf` is a refinement
(the browser, the network and the sessions are all stutters of RunShelf or steps of
it), so the promise RunStore is proved to keep is the one the browser relies on.
`LiveSessionsOnly` has two halves. That a run changes only for an admitted request that
asks for just that rests on `ShelfOfSettled`: every run in the history is settled, so
storing another never touches it. That a session which is over stays over is about
every step that could revive it: only the login that makes a new token makes a session
live (`NotLiveAgain`), and a request that is let in was let in before, or its session
is live (`WaitsAsBefore`). `ChatTypes`, `ShowsStored`, `ShowsOnlyItsRun` and
`NothingIsLost` are about the browser and rest on `CInv`, which says of each thing in
flight what it can do when it arrives: a list that was answered names runs that were
stored, and those that are still there by their outcome, with a title they were given
or none (`Known`), a rename that succeeded was of a stored run and gave it its title
(`Titled`), and a conversation that waits shows what the events read so far made of it
(`ShowsPart`). The step that needs all of it is `Hydrate`, where a list replaces the
conversations whatever has become of them since it was asked for.

**Evidence_proofs**: for every set of requests and markets, `GroupsFailAlone` and
`FailuresAreTold`. `CollectInv` has a conjunct for each group that becomes true at
the stage that fetches it and stays true because records are only added
(`KeptStays`); `VerdictInv` ties the status to the warnings and the stage event to
both. What is proved of the vendor's answers is what `PricesFound` and
`StatementsFound` say of the two conversions.

`SkillsGetTheirData` and `CitationsAreWhatWasSeen`: the bundle is built in one go
before the first skill and has a record for everything collected and derived
(`BundleBuilt`, `BundleHas`); what a skill was given is its part of it (`SeenInv`);
and a citation holds the record the *last* skill given its id saw (`CiteInv`), which
is the whole difficulty, since the year-end summary takes the id of the price
series.

`FiguresAreRight`: what is computed is computed of the series that was collected.
`PricesInv` says that the recorded prices are the vendor's and in order, `ValueInv` that
the profile of a company is made from its latest statement, `EvidentInv` that every
derived record holds the figures, patterns and chart of the prices collected. The rest
is about pure functions, for every series. An average lies among the prices it is of:
with rounding down, the sum of `n` prices lies between `n` times the least and `n` times
the greatest (`AveragesLie`). The worst drawdown is the deepest fall between any two
days: the code walks once and keeps the highest price so far (`DrawdownIs`). The two
computations of the strength index, which the code has in two files, come to the same
(`StrengthsAgree`).

`ChartsAreTheSeries`: a scaled value stays inside the frame (`Scaled`), and values
apart stay apart when the frame has a tenth of a pixel for each step (`ScaledApart`);
so each close has a point of its own, from left to right, higher for a higher close
(`PointsIn`). `DrawnInv` carries it to the chart a run is told.

`BestSetupsComeFirst` and `PatternsHold`: the pairs of swing lows are neighbours
(`PairsAre`), so no bar between them is lower than both, or there would be a swing low
between (`LowestBetween`: the lowest of the bars between is one); hence what is said of
the pair that is chosen, of all pairs the nearest (`BottomIsPair`). Below the
resistance, a percentile of the last 45 highs, there is always one of the last twenty
(`ResistanceIs`), so the zone under it is a range. Each
detector finds at most one setup (`SetupsFound`), the ranking is a strict order of
them (`SetupsRanked`), and the list is in that order (`SetupsInOrder`). That a sort
yields the same elements, each not before one that precedes it, is proved once for
`Arranged` (`RankIs`, `ArrangedIs`), by counting predecessors.

**Reading_proofs**: `BrowserReadsTheRun`, for every run, every length of the reads,
heartbeats before any events and a connection that breaks anywhere. A frame ends at its
first empty line (`FrameLike`), since what `json.dumps` writes has no newline of its own
(`EncodeIs`, `JsonLine`); parsing gives back the event (`JsonRead`); splitting a
text and later its rest with more text gives the parts of splitting it at once
(`SplitGoesOn`), and so for handling (`HandledGoesOn`). Hence after any prefix of
the response the handled events are those whose frames end in it and the buffer
holds the begun one (`Placed`, `PlacedAll`), which is `ClientInv`; `EventsInv` says
that a run says its end once, and last.

`EvidenceTypes` is the type invariant; that groups, provider and status are of their
sets comes from the plan of `collector.py` and the two derivations.

`WithinLimits` of the limiter is proved only: no run lists it, as `ImplementsPool`
(the pool grants only when there is room) implies it.

Model-checked only is liveness, as ENABLED is out of the prover's reach:
`EverythingEnds`, `DisconnectReleases`, `PendingEnds` and the run's `EndsTold`; and the
five runs that show a violation, which are their own evidence.

## 6. What is not modelled

* The reads of the run routes: they change nothing.
* The price series table: written once per run and read by nobody in the code;
  that writing it may raise is an outcome of `Collect`.
* The default executor's own size behind `to_thread`; the semaphore is FIFO in
  asyncio and unordered here, which allows more behaviours.
* In WorkflowRun, several records of one kind; Evidence has them.
* A model's answer beyond what it cites; prompts, languages, JSON extraction.
* Number parsing and the shapes of the vendor's frames. In particular a NaN, which
  passes `_number`, is not a value here. Prices are whole numbers; the code's are
  thousands of dong with decimals, and a picture spans at least one thousand.
* Passwords and signatures of tokens: a cookie either names a session or does not.
* Preferences: one value per user, read and written whole. In-memory repositories:
  used by tests only. Rendering, wiring, and loading of definitions: no state that
  an order of steps could spoil.
* `.agents/` holds tooling that is no part of the program.

## 7. Plan

Done, in this order: limiter with its proofs; sessions; one run; tables, history;
the browser's state with logins; collection, evidence, computations and the
response as text; the proofs of all safety properties of each.

Next, by importance:

1. The reads of the run routes as two statements each, against deletes.
2. A stage between Evidence and WorkflowRun that shows the citations of the first to be
   a possible outcome of the second.
3. Values that are not numbers (NaN) in the vendor's tables, and what the
   computations make of them.
