----------------------------- MODULE StreamSession -----------------------------
(***************************************************************************)
(* One POST /api/workflows/{id}/runs per element of Requests, from the     *)
(* lease it takes to the end of its event stream: the route and            *)
(* _guarded_event_source (src/src/finmind_api/routes/workflows.py),        *)
(* with_heartbeats (src/src/finmind_api/streaming.py), the offload of the  *)
(* collection to a thread (src/src/finmind_agents/runtime/offload.py) and  *)
(* the limiter.  The workflow generator is abstracted to the awaits it     *)
(* makes between two events (Script); WorkflowRun has its contents.        *)
(*                                                                         *)
(* Two coroutines serve a request when heartbeats are on.  The driver is   *)
(* the response task: it waits for a frame or for the heartbeat timer and  *)
(* sends what comes first.  The execution is the workflow generator, which *)
(* runs in the task of one outstanding __anext__ (`pull').  A disconnect   *)
(* cancels the driver only.  With heartbeats off the driver itself runs    *)
(* the generator and the cancellation is thrown into its await.            *)
(*                                                                         *)
(* A coroutine step from one suspension to the next is one action.  Only   *)
(* the lease, the position of the execution and the frame in the driver's  *)
(* hand are kept of the data.                                              *)
(***************************************************************************)
EXTENDS Integers, FiniteSets, Sequences

CONSTANTS
  Requests,        \* the run requests
  Users, UserOf,   \* who makes them
  GlobalLimit, PerUserLimit,   \* FINMIND_STREAM_{GLOBAL,PER_USER}_LIMIT
  OffloadLimit,    \* FINMIND_SYNC_OFFLOAD_LIMIT
  Heartbeats,      \* FINMIND_STREAM_HEARTBEAT_SECONDS > 0
  Script           \* what the generator awaits before each event it yields

StepKinds == {"sync", "offload", "model", "save"}

ASSUME SessionAssumption ==
  /\ UserOf \in [Requests -> Users]
  /\ GlobalLimit \in Int /\ PerUserLimit \in Int
  /\ OffloadLimit \in Int
  /\ Heartbeats \in BOOLEAN
  /\ Script \in Seq(StepKinds) /\ Script # <<>>
  /\ Script[Len(Script)] = "save"

VARIABLES
  stream, active_global, active_by_user,   \* the limiter and who holds a lease
  online,     \* the client is still connected
  driver,     \* where the response task is
  hand,       \* what it is about to send: a frame of the run or a heartbeat
  sent,       \* frames of the run handed to the client
  pull,       \* the outstanding __anext__ of the generator
  exec,       \* where the generator is
  pos,        \* the last step of Script it completed
  frames,     \* events it has yielded
  record,     \* the run record it has persisted
  permits,    \* requests holding a permit of the offload semaphore
  threads     \* requests whose collection runs in a thread

limiterVars == <<stream, active_global, active_by_user>>
driverVars  == <<online, driver, hand, sent>>
execVars    == <<pull, exec, pos, frames, record, permits, threads>>
vars        == <<limiterVars, driverVars, execVars>>

Limiter == INSTANCE StreamLimiter WITH Leases <- Requests

Streaming == {"preparing", "start", "waiting", "checking", "sending", "broken"}
OffloadCap == IF OffloadLimit < 1 THEN 1 ELSE OffloadLimit
LastStep == Len(Script)

Init ==
  /\ Limiter!Init
  /\ online = [r \in Requests |-> TRUE]
  /\ driver = [r \in Requests |-> "none"]
  /\ hand   = [r \in Requests |-> "none"]
  /\ sent   = [r \in Requests |-> 0]
  /\ pull   = [r \in Requests |-> "none"]
  /\ exec   = [r \in Requests |-> "paused"]
  /\ pos    = [r \in Requests |-> 0]
  /\ frames = [r \in Requests |-> 0]
  /\ record = [r \in Requests |-> "none"]
  /\ permits = {} /\ threads = {}

--------------------------------------------------------------------------------
(* The route and the driver.                                                  *)

At(r, place)   == driver[r] = place
GoTo(r, place) == driver' = [driver EXCEPT ![r] = place]

\* limiter.release(lease): the lease object is dropped with the call.
ReleaseLease(r) ==
  /\ Limiter!TakeBack(UserOf[r])
  /\ stream' = [stream EXCEPT ![r] = "idle"]

\* acquire: a lease, or a 429 after which the client may ask again.
Acquire(r) ==
  /\ At(r, "none")
  /\ \/ Limiter!Acquire(r) /\ GoTo(r, "preparing")
     \/ Limiter!AcquireRefused(r) /\ UNCHANGED driver
  /\ UNCHANGED <<online, hand, sent, execVars>>

PrepareKeepsLease(r) ==                                                \* mutant
  /\ At(r, "preparing")
  /\ \/ GoTo(r, "start")
     \/ GoTo(r, "rejected")
  /\ UNCHANGED <<limiterVars, online, hand, sent, execVars>>

\* prepare_workflow_run: an unknown workflow, invalid inputs or an agent that
\* is not configured end the request with an error status and no stream.
Prepare(r) ==
  /\ At(r, "preparing")
  /\ \/ GoTo(r, "start") /\ UNCHANGED limiterVars
     \/ GoTo(r, "rejected") /\ ReleaseLease(r)
  /\ UNCHANGED <<online, hand, sent, execVars>>

\* The response task iterates the guarded source for the first time: the first
\* frame is asked for.  Nothing can cancel the task before it has started.
Open(r) ==
  /\ At(r, "start")
  /\ GoTo(r, "waiting")
  /\ pull' = [pull EXCEPT ![r] = "pending"]
  /\ UNCHANGED <<limiterVars, online, hand, sent, exec, pos, frames, record,
                 permits, threads>>

\* The frame asked for has come.
Take(r) ==
  /\ At(r, "waiting") /\ pull[r] = "ready"
  /\ GoTo(r, "checking")
  /\ hand' = [hand EXCEPT ![r] = "frame"]
  /\ pull' = [pull EXCEPT ![r] = "none"]
  /\ UNCHANGED <<limiterVars, online, sent, exec, pos, frames, record,
                 permits, threads>>

\* The timer came first; the frame asked for stays outstanding.
Beat(r) ==
  /\ Heartbeats
  /\ At(r, "waiting") /\ pull[r] = "pending"
  /\ GoTo(r, "checking")
  /\ hand' = [hand EXCEPT ![r] = "beat"]
  /\ UNCHANGED <<limiterVars, online, sent, execVars>>

\* is_disconnected: leave the loop, which runs the finally, or send.
Check(r) ==
  /\ At(r, "checking")
  /\ \/ /\ ~online[r]
        /\ GoTo(r, "ended") /\ ReleaseLease(r)
        /\ hand' = [hand EXCEPT ![r] = "none"]
     \/ /\ online[r]
        /\ GoTo(r, "sending") /\ UNCHANGED <<limiterVars, hand>>
  /\ UNCHANGED <<online, sent, execVars>>

SentAsksAgain(r) ==      \* mutant: a heartbeat, too, is followed by __anext__
  /\ At(r, "sending")
  /\ GoTo(r, "waiting")
  /\ hand' = [hand EXCEPT ![r] = "none"]
  /\ sent' = IF hand[r] = "frame" THEN [sent EXCEPT ![r] = @ + 1] ELSE sent
  /\ pull' = [pull EXCEPT ![r] = "pending"]
  /\ UNCHANGED <<limiterVars, online, exec, pos, frames, record, permits, threads>>

\* mutant: a frame that is out stays in the hand and is sent again
SentKeepsFrame(r) ==
  /\ At(r, "sending")
  /\ IF hand[r] = "frame"
       THEN sent' = [sent EXCEPT ![r] = @ + 1] /\ UNCHANGED <<driver, hand>>
       ELSE GoTo(r, "waiting") /\ hand' = [hand EXCEPT ![r] = "none"]
                               /\ UNCHANGED sent
  /\ UNCHANGED <<limiterVars, online, execVars>>

\* The frame is out; after a frame of the run, and only then, the next one is
\* asked for.
Sent(r) ==
  /\ At(r, "sending")
  /\ GoTo(r, "waiting")
  /\ hand' = [hand EXCEPT ![r] = "none"]
  /\ \/ /\ hand[r] = "frame"
        /\ sent' = [sent EXCEPT ![r] = @ + 1]
        /\ pull' = [pull EXCEPT ![r] = "pending"]
     \/ /\ hand[r] = "beat"
        /\ UNCHANGED <<sent, pull>>
  /\ UNCHANGED <<limiterVars, online, exec, pos, frames, record, permits, threads>>

\* StopAsyncIteration, or the exception the generator died of.
Stop(r) ==
  /\ At(r, "waiting") /\ pull[r] = "stop"
  /\ GoTo(r, "ended") /\ ReleaseLease(r)
  /\ pull' = [pull EXCEPT ![r] = "none"]
  /\ UNCHANGED <<online, hand, sent, exec, pos, frames, record, permits, threads>>

--------------------------------------------------------------------------------
(* Disconnection.                                                             *)

Disconnect(r) ==
  /\ online[r] /\ driver[r] \in Streaming
  /\ online' = [online EXCEPT ![r] = FALSE]
  /\ UNCHANGED <<limiterVars, driver, hand, sent, execVars>>

\* mutant: the driver leaves the execution to itself, as it does with heartbeats
CancelExecutionLeft(r) == UNCHANGED execVars

\* The awaits of the generator that a cancellation thrown into it ends.  A
\* thread cannot be stopped: run_sync gives its permit back and leaves it.
CancelExecution(r) ==
  /\ exec' = [exec EXCEPT ![r] = "closed"]
  /\ pull' = [pull EXCEPT ![r] = "none"]
  /\ permits' = permits \ {r}
  /\ UNCHANGED <<pos, frames, record, threads>>

CancelSkipsFinally(r) ==                                               \* mutant
  /\ ~online[r]
  /\ \/ At(r, "waiting") /\ (Heartbeats \/ pull[r] = "pending")
     \/ At(r, "checking")
     \/ At(r, "sending")
  /\ GoTo(r, "ended")
  /\ hand' = [hand EXCEPT ![r] = "none"]
  /\ UNCHANGED <<limiterVars, online, sent, execVars>>

\* mutant: every cancellation releases, and the abandoned source does it again
CancelReleasesTwice(r) ==
  /\ ~online[r]
  /\ \/ At(r, "waiting") /\ (Heartbeats \/ pull[r] = "pending") /\ GoTo(r, "ended")
     \/ At(r, "checking") /\ GoTo(r, "ended")
     \/ At(r, "sending") /\ GoTo(r, "broken")
  /\ ReleaseLease(r)
  /\ hand' = [hand EXCEPT ![r] = "none"]
  /\ UNCHANGED <<online, sent, execVars>>

\* listen_for_disconnect cancels the response task at its suspension.  Inside
\* the guarded source the finally runs at once.  Between two items of it, in
\* send, the source is left suspended for the garbage collector.
Cancel(r) ==
  /\ ~online[r]
  /\ \/ /\ At(r, "waiting") /\ (Heartbeats \/ pull[r] = "pending")
        /\ GoTo(r, "ended") /\ ReleaseLease(r)
        /\ IF Heartbeats THEN UNCHANGED execVars ELSE CancelExecution(r)
     \/ /\ At(r, "checking")
        /\ GoTo(r, "ended") /\ ReleaseLease(r)
        /\ UNCHANGED execVars
     \/ /\ At(r, "sending")
        /\ GoTo(r, "broken") /\ UNCHANGED <<limiterVars, execVars>>
  /\ hand' = [hand EXCEPT ![r] = "none"]
  /\ UNCHANGED <<online, sent>>

\* The event loop closes the abandoned source: GeneratorExit at its yield.
Finalize(r) ==
  /\ At(r, "broken")
  /\ GoTo(r, "ended") /\ ReleaseLease(r)
  /\ UNCHANGED <<online, hand, sent, execVars>>

--------------------------------------------------------------------------------
(* The execution.                                                             *)

\* The generator yields its p-th event and the outstanding __anext__ returns.
Yield(r, p) ==
  /\ pos'    = [pos EXCEPT ![r] = p]
  /\ frames' = [frames EXCEPT ![r] = @ + 1]
  /\ exec'   = [exec EXCEPT ![r] = "paused"]
  /\ pull'   = [pull EXCEPT ![r] = "ready"]

FailWithoutSave(r) ==                                                  \* mutant
  Yield(r, LastStep) /\ UNCHANGED record

\* A step raised: the handler saves the failed run and yields run.failed, or
\* the save raises too and the generator dies.
Fail(r) ==
  \/ Yield(r, LastStep) /\ record' = [record EXCEPT ![r] = "failed"]
  \/ /\ exec' = [exec EXCEPT ![r] = "crashed"]
     /\ pull' = [pull EXCEPT ![r] = "stop"]
     /\ UNCHANGED <<pos, frames, record>>

\* The step the generator is in is done.
Complete(r) == \/ Yield(r, pos[r] + 1) /\ UNCHANGED record
               \/ Fail(r)

\* The run is saved, its citations are not, and the failed run cannot be saved.
DieSaved(r) ==
  /\ record' = [record EXCEPT ![r] = "complete"]
  /\ exec'   = [exec EXCEPT ![r] = "crashed"]
  /\ pull'   = [pull EXCEPT ![r] = "stop"]
  /\ UNCHANGED <<pos, frames>>

\* The event loop runs the task of the outstanding __anext__ up to the next
\* event or await.
Run(r) ==
  /\ pull[r] = "pending" /\ exec[r] = "paused" /\ pos[r] < LastStep
  /\ LET kind == Script[pos[r] + 1] IN
       \/ kind = "sync" /\ Complete(r)
       \/ /\ kind = "save"
          /\ \/ Yield(r, LastStep) /\ record' = [record EXCEPT ![r] = "complete"]
             \/ DieSaved(r)
             \/ Fail(r)
       \/ /\ kind \in {"offload", "model"}
          /\ exec' = [exec EXCEPT ![r] = IF kind = "model" THEN "model" ELSE "queued"]
          /\ UNCHANGED <<pull, pos, frames, record>>
  /\ UNCHANGED <<limiterVars, driverVars, permits, threads>>

\* After the terminal event the generator returns.
Return(r) ==
  /\ pull[r] = "pending" /\ exec[r] = "paused" /\ pos[r] = LastStep
  /\ exec' = [exec EXCEPT ![r] = "finished"]
  /\ pull' = [pull EXCEPT ![r] = "stop"]
  /\ UNCHANGED <<limiterVars, driverVars, pos, frames, record, permits, threads>>

AdmitAny(r) ==                          \* mutant: the semaphore is not awaited
  /\ exec[r] = "queued"
  /\ permits' = permits \union {r}
  /\ threads' = threads \union {r}
  /\ exec' = [exec EXCEPT ![r] = "thread"]
  /\ UNCHANGED <<limiterVars, driverVars, pull, pos, frames, record>>

\* run_sync: a permit, and with it a thread.
Admit(r) ==
  /\ exec[r] = "queued" /\ Cardinality(permits) < OffloadCap
  /\ permits' = permits \union {r}
  /\ threads' = threads \union {r}
  /\ exec' = [exec EXCEPT ![r] = "thread"]
  /\ UNCHANGED <<limiterVars, driverVars, pull, pos, frames, record>>

\* mutant: the semaphore is released by hand, which an exception skips
ThreadEndsKeepsPermit(r) ==
  /\ r \in threads
  /\ threads' = threads \ {r}
  /\ \/ exec[r] = "thread" /\ permits' = permits \ {r} /\ Yield(r, pos[r] + 1)
                            /\ UNCHANGED record
     \/ exec[r] = "thread" /\ Fail(r) /\ UNCHANGED permits
     \/ exec[r] # "thread" /\ UNCHANGED <<permits, pull, exec, pos, frames, record>>
  /\ UNCHANGED <<limiterVars, driverVars>>

\* The collection ends; nobody waits for it if its run was cancelled.
ThreadEnds(r) ==
  /\ r \in threads
  /\ threads' = threads \ {r}
  /\ \/ exec[r] = "thread" /\ permits' = permits \ {r} /\ Complete(r)
     \/ exec[r] # "thread" /\ UNCHANGED <<permits, pull, exec, pos, frames, record>>
  /\ UNCHANGED <<limiterVars, driverVars>>

\* The model sends its next chunk or its answer, or fails.
ModelAnswers(r) ==
  /\ exec[r] = "model"
  /\ Complete(r)
  /\ UNCHANGED <<limiterVars, driverVars, permits, threads>>

\* Once the driver is gone nobody asks for another event: the suspended
\* generator is garbage and is closed at its yield, saving nothing.
CloseExecution(r) ==
  /\ At(r, "ended") /\ exec[r] = "paused" /\ pull[r] # "pending"
  /\ exec' = [exec EXCEPT ![r] = "closed"]
  /\ pull' = [pull EXCEPT ![r] = "none"]
  /\ UNCHANGED <<limiterVars, driverVars, pos, frames, record, permits, threads>>

--------------------------------------------------------------------------------
Gone(r) == exec[r] \in {"finished", "crashed", "closed"} /\ r \notin threads

\* Every request has been answered and nothing of it is left.
Terminated == /\ \A r \in Requests : \/ At(r, "rejected")
                                     \/ At(r, "ended") /\ Gone(r)
              /\ UNCHANGED vars

\* What the event loop runs by itself once it is due: the response task with
\* its route, and the task of the generator.
Driver(r) ==
  \/ Prepare(r) \/ Open(r) \/ Take(r) \/ Check(r) \/ Stop(r)
  \/ Cancel(r) \/ Finalize(r)
Execution(r) == Run(r) \/ Return(r) \/ Admit(r) \/ CloseExecution(r)

\* What a client, the timer, a thread or the model provider does.
Outside(r) ==
  \/ Acquire(r) \/ Beat(r) \/ Sent(r) \/ Disconnect(r)
  \/ ThreadEnds(r) \/ ModelAnswers(r)

Next == (\E r \in Requests : Driver(r) \/ Execution(r) \/ Outside(r)) \/ Terminated

Spec == Init /\ [][Next]_vars

\* asyncio runs every task that is ready.
LoopFairness == \A r \in Requests : WF_vars(Driver(r)) /\ WF_vars(Execution(r))

\* Clients read, threads end and the provider answers.
OutsideFairness ==
  \A r \in Requests : /\ WF_vars(Sent(r))
                      /\ WF_vars(ThreadEnds(r))
                      /\ WF_vars(ModelAnswers(r))

LoopSpec == Spec /\ LoopFairness

--------------------------------------------------------------------------------
TypeOK ==
  /\ stream \in [Requests -> {"idle", "held", "refused"}]
  /\ online \in [Requests -> BOOLEAN]
  /\ driver \in [Requests -> Streaming \union {"none", "rejected", "ended"}]
  /\ hand   \in [Requests -> {"none", "frame", "beat"}]
  /\ pull   \in [Requests -> {"none", "pending", "ready", "stop"}]
  /\ exec   \in [Requests -> {"paused", "queued", "thread", "model",
                              "finished", "crashed", "closed"}]
  /\ pos    \in [Requests -> 0..LastStep]
  /\ sent   \in [Requests -> 0..LastStep]
  /\ frames \in [Requests -> 0..LastStep]
  /\ record \in [Requests -> {"none", "complete", "failed"}]
  /\ permits \subseteq Requests /\ threads \subseteq Requests

(***************************************************************************)
(* A request holds a lease exactly while it is being answered, on every    *)
(* path out: error status, end of the stream, exception of the generator,  *)
(* disconnect seen by the guard, cancellation (workflows.py:69-99).        *)
(***************************************************************************)
LeaseWhileStreaming ==
  \A r \in Requests : stream[r] = "held" <=> driver[r] \in Streaming

(***************************************************************************)
(* The route uses the limiter as it must be used: it never releases a      *)
(* lease twice nor one it does not hold, so what StreamLimiter proves of   *)
(* the counters holds here.                                                *)
(***************************************************************************)
UsesLimiter == Limiter!Spec

(***************************************************************************)
(* No frame of the run is lost, repeated or overtaken whatever the timer   *)
(* does, and the execution is never more than one frame ahead of the       *)
(* client: what it has yielded was sent, or is in the driver's hand, or    *)
(* waits in the one outstanding __anext__ (streaming.py:76-98).  After a   *)
(* disconnect at most that one frame is dropped.                           *)
(***************************************************************************)
OneFrameAhead ==
  \A r \in Requests :
    LET waiting == IF hand[r] = "frame" \/ pull[r] = "ready" THEN 1 ELSE 0 IN
      /\ driver[r] \in Streaming \ {"broken"} => frames[r] = sent[r] + waiting
      /\ frames[r] - sent[r] \in {0, 1}
      /\ ~(hand[r] = "frame" /\ pull[r] \in {"pending", "ready"})

(***************************************************************************)
(* A client that stays has the whole run: when its stream ends, every      *)
(* event was sent, and the run is persisted unless the generator died      *)
(* trying to persist it (workflows.py:94-99, service.py:388, 429).         *)
(***************************************************************************)
StreamEndsWithRecord ==
  \A r \in Requests :
    (At(r, "ended") /\ online[r]) =>
      /\ sent[r] = frames[r]
      /\ exec[r] = "finished" => record[r] # "none"
      /\ exec[r] \in {"finished", "crashed"}

(***************************************************************************)
(* The execution, abstract as it is here, keeps the promise WorkflowRun    *)
(* keeps: no terminal frame is handed out without its outcome recorded, at *)
(* whatever point the driver is cancelled.                                 *)
(***************************************************************************)
Outcome == INSTANCE RunOutcome WITH
  Runs     <- Requests,
  Outcomes <- {"complete", "failed"},
  recorded <- record,
  told     <- [r \in Requests |-> IF pos[r] # LastStep THEN "none"
                                  ELSE IF record[r] = "complete" THEN "complete"
                                                                 ELSE "failed"]
ImplementsOutcome == Outcome!Spec

(***************************************************************************)
(* No more collection threads run than FINMIND_SYNC_OFFLOAD_LIMIT allows   *)
(* (runtime/offload.py:23-24), disconnects included.                       *)
(***************************************************************************)
OffloadBounded == Cardinality(threads) <= OffloadCap

(***************************************************************************)
(* Once a disconnected client's stream is torn down its execution does not *)
(* stay in an await that a cancellation ends: the offload queue or the     *)
(* model call.                                                             *)
(***************************************************************************)
DisconnectCancelsExecution ==
  \A r \in Requests :
    (At(r, "ended") /\ ~online[r]) => exec[r] \notin {"queued", "model"}

(***************************************************************************)
(* A client that goes away gives its lease back without help from the      *)
(* model provider, the collection thread or a reader: the event loop alone *)
(* is fair here.                                                           *)
(***************************************************************************)
DisconnectReleases ==
  \A r \in Requests : (stream[r] = "held" /\ ~online[r]) ~> stream[r] # "held"

(***************************************************************************)
(* If clients read, threads end and the provider answers, every lease      *)
(* comes back, no order of streams starves one; and nothing of a run       *)
(* outlives its stream for ever: an orphaned execution comes to its next   *)
(* event and is closed, its thread ends.                                   *)
(***************************************************************************)
EverythingEnds ==
  OutsideFairness =>
    \A r \in Requests : /\ stream[r] = "held" ~> stream[r] # "held"
                        /\ At(r, "ended") ~> (At(r, "ended") /\ Gone(r))
================================================================================
