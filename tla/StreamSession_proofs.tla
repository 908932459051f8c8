-------------------------- MODULE StreamSession_proofs --------------------------
(***************************************************************************)
(* Proofs about StreamSession, for every set of requests and users, every  *)
(* limit, every script that ends in a save, heartbeats on and off.         *)
(*                                                                         *)
(* Everything is about one request at a time, since requests meet in the   *)
(* counters and in the semaphore only: IInv is a conjunction of facts      *)
(* about each request, and a step of one leaves the facts of the others.   *)
(***************************************************************************)
EXTENDS StreamSession, FiniteSetTheorems, TLAPS

\* Lease and frame in hand follow the place of the driver.
LeaseOf(r) == stream[r] = "held" <=> driver[r] \in Streaming
HandOf(r)  == hand[r] # "none" <=> driver[r] \in {"checking", "sending"}

\* Before the first frame is asked for nothing has happened.
FreshOf(r) ==
  driver[r] \in {"none", "preparing", "start", "rejected"} =>
    pull[r] = "none" /\ exec[r] = "paused" /\ frames[r] = 0 /\ sent[r] = 0

\* Where the frame is that was yielded and not sent.
FrameOf(r) ==
  /\ driver[r] = "waiting" => pull[r] # "none"
  /\ hand[r] = "frame" => pull[r] = "none" /\ frames[r] = sent[r] + 1
  /\ hand[r] = "beat" => pull[r] # "none"
  /\ pull[r] \in {"pending", "stop"} => frames[r] = sent[r]
  /\ pull[r] = "ready" => frames[r] = sent[r] + 1
  /\ frames[r] = sent[r] \/ frames[r] = sent[r] + 1

\* Where the execution is; it is not in an await unless it was asked.
ExecOf(r) ==
  /\ exec[r] \in {"queued", "thread", "model"} =>
       pull[r] = "pending" /\ pos[r] < LastStep /\ Script[pos[r] + 1] # "save"
  /\ pull[r] = "pending" => exec[r] \in {"paused", "queued", "thread", "model"}
  /\ pull[r] = "ready" \/ hand[r] = "frame" => exec[r] = "paused"
  /\ pull[r] = "stop" => exec[r] \in {"finished", "crashed"}
  /\ frames[r] <= pos[r]
  /\ exec[r] = "finished" => pos[r] = LastStep

\* What the record says for a position.
RecordOf(r) ==
  /\ pos[r] = LastStep => record[r] # "none"
  /\ pos[r] < LastStep /\ exec[r] # "crashed" => record[r] = "none"

\* A client that is still there was served to the end.
ServedOf(r) ==
  /\ driver[r] = "broken" => ~online[r]
  /\ driver[r] = "ended" /\ online[r] =>
       exec[r] \in {"finished", "crashed"} /\ sent[r] = frames[r]

RequestInv(r) ==
  /\ LeaseOf(r) /\ HandOf(r) /\ FreshOf(r) /\ FrameOf(r)
  /\ ExecOf(r) /\ RecordOf(r) /\ ServedOf(r)

IInv == TypeOK /\ \A r \in Requests : RequestInv(r)

\* A script has a last step, and it saves the run.
LEMMA ScriptFacts ==
  /\ LastStep \in Nat \ {0}
  /\ Script[LastStep] = "save"
BY SessionAssumption DEF LastStep

USE DEF At, GoTo, limiterVars, driverVars, execVars, Streaming

\* The generator yields: the frame is ready, and a record there is at the last
\* step only.
LEMMA YieldKeeps ==
  ASSUME IInv, NEW r \in Requests, pull[r] = "pending",
         NEW p \in (pos[r] + 1)..LastStep, Yield(r, p),
         record' \in [Requests -> {"none", "complete", "failed"}],
         \A q \in Requests \ {r} : record'[q] = record[q],
         p = LastStep <=> record'[r] # "none",
         UNCHANGED <<limiterVars, driverVars>>,
         permits' \subseteq Requests, threads' \subseteq Requests
  PROVE  IInv'
<1> USE ScriptFacts
<1>1. pos[r] \in 0..LastStep /\ frames[r] \in 0..LastStep /\ frames[r] <= pos[r]
  BY DEF IInv, TypeOK, RequestInv, ExecOf
<1>2. TypeOK'
  <2>1. p \in 0..LastStep /\ frames[r] + 1 \in 0..LastStep
    BY <1>1
  <2>2. /\ pos' \in [Requests -> 0..LastStep] /\ frames' \in [Requests -> 0..LastStep]
        /\ exec' \in [Requests -> {"paused", "queued", "thread", "model",
                                    "finished", "crashed", "closed"}]
        /\ pull' \in [Requests -> {"none", "pending", "ready", "stop"}]
    BY <2>1 DEF IInv, TypeOK, Yield
  <2>3. QED
    BY <2>2 DEF IInv, TypeOK
<1>3. ASSUME NEW q \in Requests \ {r} PROVE RequestInv(q)'
  BY <1>3 DEF IInv, TypeOK, Yield, RequestInv, LeaseOf, HandOf, FreshOf, FrameOf,
              ExecOf, RecordOf, ServedOf
<1>4. RequestInv(r)'
  BY <1>1 DEF IInv, TypeOK, Yield, RequestInv, LeaseOf, HandOf, FreshOf, FrameOf,
              ExecOf, RecordOf, ServedOf
<1>5. QED
  BY <1>2, <1>3, <1>4 DEF IInv

\* The generator dies of an exception, with or without a record.
LEMMA DeathKeeps ==
  ASSUME IInv, NEW r \in Requests, pull[r] = "pending", pos[r] < LastStep,
         exec' = [exec EXCEPT ![r] = "crashed"], pull' = [pull EXCEPT ![r] = "stop"],
         record' \in [Requests -> {"none", "complete", "failed"}],
         \A q \in Requests \ {r} : record'[q] = record[q],
         UNCHANGED <<limiterVars, driverVars, pos, frames>>,
         permits' \subseteq Requests, threads' \subseteq Requests
  PROVE  IInv'
<1>1. TypeOK'
  BY DEF IInv, TypeOK
<1>2. ASSUME NEW q \in Requests PROVE RequestInv(q)'
  BY <1>2 DEF IInv, TypeOK, RequestInv, LeaseOf, HandOf, FreshOf, FrameOf,
              ExecOf, RecordOf, ServedOf
<1>3. QED
  BY <1>1, <1>2 DEF IInv

\* A step that raises ends in the failed run or in the death of the generator.
LEMMA FailKeeps ==
  ASSUME IInv, NEW r \in Requests, pull[r] = "pending", pos[r] < LastStep,
         Fail(r), UNCHANGED <<limiterVars, driverVars>>,
         permits' \subseteq Requests, threads' \subseteq Requests
  PROVE  IInv'
<1>1. /\ pos[r] \in 0..LastStep
      /\ record \in [Requests -> {"none", "complete", "failed"}]
  BY DEF IInv, TypeOK
<1>2. CASE Yield(r, LastStep) /\ record' = [record EXCEPT ![r] = "failed"]
  <2>1. LastStep \in (pos[r] + 1)..LastStep
    BY <1>1, ScriptFacts
  <2>2. /\ record' \in [Requests -> {"none", "complete", "failed"}]
        /\ record'[r] = "failed"
        /\ \A q \in Requests \ {r} : record'[q] = record[q]
    BY <1>1, <1>2
  <2>3. QED
    BY <1>2, <2>1, <2>2, YieldKeeps
<1>3. CASE ~Yield(r, LastStep)
  BY <1>1, <1>3, DeathKeeps DEF Fail
<1>4. QED
  BY <1>1, <1>2, <1>3, DeathKeeps DEF Fail

\* A step before the last one is done, or raises.
LEMMA CompleteKeeps ==
  ASSUME IInv, NEW r \in Requests, pull[r] = "pending", pos[r] < LastStep,
         exec[r] # "crashed", Script[pos[r] + 1] # "save",
         Complete(r), UNCHANGED <<limiterVars, driverVars>>,
         permits' \subseteq Requests, threads' \subseteq Requests
  PROVE  IInv'
<1>1. CASE Yield(r, pos[r] + 1) /\ UNCHANGED record
  <2>1. pos[r] + 1 \in (pos[r] + 1)..LastStep /\ pos[r] + 1 # LastStep
    BY ScriptFacts DEF IInv, TypeOK
  <2>2. record \in [Requests -> {"none", "complete", "failed"}] /\ record[r] = "none"
    BY DEF IInv, TypeOK, RequestInv, RecordOf
  <2>3. QED
    BY <1>1, <2>1, <2>2, YieldKeeps
<1>2. QED
  BY <1>1, FailKeeps DEF Complete

\* Every step of a request keeps the facts of all of them.
LEMMA InvStep ==
  ASSUME IInv, NEW r \in Requests, Driver(r) \/ Execution(r) \/ Outside(r)
  PROVE  IInv'
<1> USE ScriptFacts DEF IInv, TypeOK, RequestInv, LeaseOf, HandOf, FreshOf, FrameOf,
                       ExecOf, RecordOf, ServedOf
<1>1. CASE Acquire(r)
  BY <1>1 DEF Acquire, Limiter!Acquire, Limiter!AcquireRefused
<1>2. CASE Prepare(r)
  BY <1>2 DEF Prepare, ReleaseLease
<1>3. CASE Open(r)
  BY <1>3 DEF Open
<1>4. CASE Take(r)
  BY <1>4 DEF Take
<1>5. CASE Beat(r)
  BY <1>5 DEF Beat
<1>6. CASE Check(r)
  BY <1>6 DEF Check, ReleaseLease
<1>7. CASE Sent(r)
  BY <1>7 DEF Sent
<1>8. CASE Stop(r)
  BY <1>8 DEF Stop, ReleaseLease
<1>9. CASE Disconnect(r)
  <2>1. online' \in [Requests -> BOOLEAN]
    BY <1>9, Zenon DEF Disconnect
  <2>2. \A q \in Requests : online'[q] => online[q]
    BY <1>9, SMT DEF Disconnect
  <2>3. UNCHANGED <<stream, driver, hand, sent, pull, exec, pos, frames, record,
                   permits, threads>>
    BY <1>9 DEF Disconnect
  <2>4. QED
    BY <2>1, <2>2, <2>3
<1>10. CASE Cancel(r)
  <2>1. /\ ~online[r] /\ online' = online /\ sent' = sent
        /\ hand' = [hand EXCEPT ![r] = "none"]
    BY <1>10 DEF Cancel
  <2>2. CASE At(r, "sending") /\ GoTo(r, "broken") /\ UNCHANGED <<limiterVars, execVars>>
    BY <2>1, <2>2
  <2>3. CASE /\ driver[r] \in {"waiting", "checking"}
             /\ GoTo(r, "ended") /\ ReleaseLease(r) /\ UNCHANGED execVars
    BY <2>1, <2>3 DEF ReleaseLease
  <2>4. CASE /\ At(r, "waiting") /\ pull[r] = "pending"
             /\ GoTo(r, "ended") /\ ReleaseLease(r) /\ CancelExecution(r)
    BY <2>1, <2>4 DEF ReleaseLease, CancelExecution
  <2>5. QED
    BY <1>10, <2>2, <2>3, <2>4 DEF Cancel
<1>11. CASE Finalize(r)
  BY <1>11 DEF Finalize, ReleaseLease
<1>12. CASE Run(r)
  <2> DEFINE kind == Script[pos[r] + 1]
  <2>1. /\ pull[r] = "pending" /\ exec[r] = "paused" /\ pos[r] < LastStep
        /\ UNCHANGED <<limiterVars, driverVars, permits, threads>>
    BY <1>12 DEF Run
  <2>2. CASE kind = "sync" /\ Complete(r)
    BY <2>1, <2>2, CompleteKeeps
  <2>3. CASE Yield(r, LastStep) /\ record' = [record EXCEPT ![r] = "complete"]
    <3>1. LastStep \in (pos[r] + 1)..LastStep
      BY <2>1
    <3>2. /\ record' \in [Requests -> {"none", "complete", "failed"}]
          /\ record'[r] = "complete"
          /\ \A q \in Requests \ {r} : record'[q] = record[q]
      BY <2>3
    <3>3. QED
      BY <2>1, <2>3, <3>1, <3>2, YieldKeeps
  <2>4. CASE DieSaved(r)
    BY <2>1, <2>4, DeathKeeps DEF DieSaved
  <2>5. CASE Fail(r)
    BY <2>1, <2>5, FailKeeps
  <2>6. CASE /\ kind \in {"offload", "model"}
             /\ exec' = [exec EXCEPT ![r] = IF kind = "model" THEN "model" ELSE "queued"]
             /\ UNCHANGED <<pull, pos, frames, record>>
    BY <2>1, <2>6
  <2>7. QED
    BY <1>12, <2>2, <2>3, <2>4, <2>5, <2>6 DEF Run
<1>13. CASE Return(r)
  BY <1>13 DEF Return
<1>14. CASE Admit(r)
  BY <1>14 DEF Admit
<1>15. CASE ThreadEnds(r)
  <2>1. /\ UNCHANGED <<limiterVars, driverVars>>
        /\ permits' \subseteq Requests /\ threads' \subseteq Requests
    BY <1>15 DEF ThreadEnds
  <2>2. CASE exec[r] = "thread" /\ Complete(r)
    BY <2>1, <2>2, CompleteKeeps
  <2>3. CASE UNCHANGED <<permits, pull, exec, pos, frames, record>>
    BY <2>1, <2>3
  <2>4. QED
    BY <1>15, <2>2, <2>3 DEF ThreadEnds
<1>16. CASE ModelAnswers(r)
  BY <1>16, CompleteKeeps DEF ModelAnswers
<1>17. CASE CloseExecution(r)
  BY <1>17 DEF CloseExecution
<1>18. QED
  BY <1>1, <1>2, <1>3, <1>4, <1>5, <1>6, <1>7, <1>8, <1>9, <1>10, <1>11, <1>12,
     <1>13, <1>14, <1>15, <1>16, <1>17 DEF Driver, Execution, Outside

\* Nothing has happened at first.
LEMMA InvInit == Init => IInv
BY ScriptFacts DEF Init, Limiter!Init, IInv, TypeOK, RequestInv, LeaseOf, HandOf,
   FreshOf, FrameOf, ExecOf, RecordOf, ServedOf

\* The facts speak of the variables only.
LEMMA InvStutter == IInv /\ UNCHANGED vars => IInv'
BY DEF vars, IInv, TypeOK, RequestInv, LeaseOf, HandOf, FreshOf, FrameOf, ExecOf,
   RecordOf, ServedOf

\* IInv is inductive.
LEMMA InvAlways == Spec => []IInv
<1>1. IInv /\ [Next]_vars => IInv'
  BY InvStep, InvStutter DEF Next, Terminated
<1>2. QED
  BY <1>1, InvInit, PTL DEF Spec

--------------------------------------------------------------------------------
(***************************************************************************)
(* The variables stay in their domains; no request is sent more events     *)
(* than its script has.                                                    *)
(***************************************************************************)
THEOREM SessionTypes == Spec => []TypeOK
<1>1. IInv => TypeOK
  BY DEF IInv
<1>2. QED
  BY <1>1, InvAlways, PTL

(***************************************************************************)
(* A lease is held exactly while a request is answered, whatever cuts it   *)
(* short (workflows.py:69-99).                                             *)
(***************************************************************************)
THEOREM LeaseFollowsDriver == Spec => []LeaseWhileStreaming
<1>1. IInv => LeaseWhileStreaming
  BY DEF IInv, RequestInv, LeaseOf, LeaseWhileStreaming
<1>2. QED
  BY <1>1, InvAlways, PTL

(***************************************************************************)
(* No frame is lost, repeated or overtaken, heartbeats or not              *)
(* (streaming.py:76-98).                                                   *)
(***************************************************************************)
THEOREM NoFrameLost == Spec => []OneFrameAhead
<1>1. IInv => OneFrameAhead
  BY DEF IInv, TypeOK, RequestInv, HandOf, FreshOf, FrameOf, OneFrameAhead
<1>2. QED
  BY <1>1, InvAlways, PTL

(***************************************************************************)
(* A stream that ends under a connected client was sent whole, and its run *)
(* is recorded unless the generator died (workflows.py:94-99).             *)
(***************************************************************************)
THEOREM ServedToTheEnd == Spec => []StreamEndsWithRecord
<1>1. IInv => StreamEndsWithRecord
  BY DEF IInv, TypeOK, RequestInv, ExecOf, RecordOf, ServedOf, StreamEndsWithRecord
<1>2. QED
  BY <1>1, InvAlways, PTL

--------------------------------------------------------------------------------
\* A release of the route is a release of a lease that is out.
LEMMA ReleaseIsRelease ==
  ASSUME IInv, NEW r \in Requests, driver[r] \in Streaming, ReleaseLease(r)
  PROVE  Limiter!Release(r)
BY DEF IInv, RequestInv, LeaseOf, ReleaseLease, Limiter!Release

\* Seen from the limiter a step is one of its own or none.
LEMMA LimiterStep ==
  ASSUME IInv, NEW r \in Requests, Driver(r) \/ Execution(r) \/ Outside(r)
  PROVE  Limiter!Acquire(r) \/ Limiter!AcquireRefused(r) \/ Limiter!Release(r)
           \/ UNCHANGED limiterVars
<1>1. CASE Acquire(r)
  BY <1>1 DEF Acquire
<1>2. CASE Prepare(r)
  BY <1>2, ReleaseIsRelease DEF Prepare
<1>3. CASE Check(r)
  BY <1>3, ReleaseIsRelease DEF Check
<1>4. CASE Stop(r)
  BY <1>4, ReleaseIsRelease DEF Stop
<1>5. CASE Cancel(r)
  BY <1>5, ReleaseIsRelease DEF Cancel
<1>6. CASE Finalize(r)
  BY <1>6, ReleaseIsRelease DEF Finalize
<1>7. CASE Open(r) \/ Take(r) \/ Beat(r) \/ Sent(r) \/ Disconnect(r)
  BY <1>7 DEF Open, Take, Beat, Sent, Disconnect
<1>8. CASE Execution(r) \/ ThreadEnds(r) \/ ModelAnswers(r)
  BY <1>8 DEF Execution, Run, Return, Admit, CloseExecution, ThreadEnds, ModelAnswers
<1>9. QED
  BY <1>1, <1>2, <1>3, <1>4, <1>5, <1>6, <1>7, <1>8 DEF Driver, Outside

(***************************************************************************)
(* The route never releases a lease twice nor one that is not out, so what *)
(* is proved of the limiter holds of the limiter it uses.                  *)
(***************************************************************************)
THEOREM RouteUsesLimiter == Spec => UsesLimiter
<1>1. Init => Limiter!Init
  BY DEF Init
<1>2. IInv /\ [Next]_vars => [Limiter!Next]_(Limiter!vars)
  <2>1. ASSUME IInv, NEW r \in Requests, Driver(r) \/ Execution(r) \/ Outside(r)
        PROVE  Limiter!Next \/ UNCHANGED Limiter!vars
    BY <2>1, LimiterStep DEF Limiter!Next, Limiter!vars
  <2>2. Terminated \/ UNCHANGED vars => UNCHANGED Limiter!vars
    BY DEF Terminated, vars, Limiter!vars
  <2>3. QED
    BY <2>1, <2>2 DEF Next
<1>3. QED
  BY <1>1, <1>2, InvAlways, PTL DEF Spec, UsesLimiter, Limiter!Spec

Proved == INSTANCE StreamLimiter_proofs WITH Leases <- Requests

(***************************************************************************)
(* The composition: as many requests as there may be, never more of them   *)
(* are answered at once, in total and per user, than the limits allow.     *)
(***************************************************************************)
THEOREM AnsweredWithinLimits == Spec => []Limiter!WithinLimits
<1>1. Limiter!Init => Proved!Init
  BY DEF Limiter!Init, Proved!Init
<1>2. [Limiter!Next]_(Limiter!vars) => [Proved!Next]_(Proved!vars)
  BY Zenon
     DEF Limiter!Next, Limiter!vars, Limiter!Acquire, Limiter!AcquireRefused,
         Limiter!Release, Limiter!TakeBack, Limiter!Exhausted, Limiter!Active,
         Limiter!SetEntry, Limiter!DropEntry, Limiter!counters, Limiter!GlobalCap,
         Limiter!PerUserCap, Limiter!AtLeastOne,
         Proved!Next, Proved!vars, Proved!Acquire, Proved!AcquireRefused,
         Proved!Release, Proved!TakeBack, Proved!Exhausted, Proved!Active,
         Proved!SetEntry, Proved!DropEntry, Proved!counters, Proved!GlobalCap,
         Proved!PerUserCap, Proved!AtLeastOne
<1>3. Proved!WithinLimits => Limiter!WithinLimits
  BY Zenon DEF Limiter!Cardinality, Proved!Cardinality, Limiter!WithinLimits,
         Limiter!Held, Limiter!HeldBy, Limiter!GlobalCap,
         Limiter!PerUserCap, Limiter!AtLeastOne, Proved!WithinLimits, Proved!Held,
         Proved!HeldBy, Proved!GlobalCap, Proved!PerUserCap, Proved!AtLeastOne
<1>4. Proved!LimiterAssumption
  BY SessionAssumption DEF Proved!LimiterAssumption
<1>5. Proved!Spec => []Proved!WithinLimits
  BY <1>4, Proved!NeverOverLimit
<1>6. QED
  BY <1>1, <1>2, <1>3, <1>5, RouteUsesLimiter, PTL
     DEF UsesLimiter, Limiter!Spec, Proved!Spec

--------------------------------------------------------------------------------
\* What a client of r has been told, as ImplementsOutcome maps it.
Told == [r \in Requests |-> IF pos[r] # LastStep THEN "none"
                            ELSE IF record[r] = "complete" THEN "complete"
                                                           ELSE "failed"]

\* An event that is not the last tells no outcome.
LEMMA EarlyYield ==
  ASSUME IInv, NEW r \in Requests, pos[r] + 1 < LastStep,
         Yield(r, pos[r] + 1), UNCHANGED record
  PROVE  UNCHANGED <<record, Told>>
BY ScriptFacts DEF IInv, TypeOK, Yield, Told

\* The failed run is recorded and told in one step.
LEMMA FailureIsTold ==
  ASSUME IInv, NEW r \in Requests, exec[r] # "crashed", pos[r] < LastStep, Fail(r)
  PROVE  Outcome!Next \/ UNCHANGED <<record, Told>>
<1>1. record[r] = "none" /\ Told[r] = "none"
  BY DEF IInv, TypeOK, RequestInv, RecordOf, Told
<1>2. CASE Yield(r, LastStep) /\ record' = [record EXCEPT ![r] = "failed"]
  <2>1. Told' = [Told EXCEPT ![r] = "failed"]
    BY <1>2 DEF IInv, TypeOK, Yield, Told
  <2>2. Outcome!Record(r, "failed")
    BY <1>1, <1>2, <2>1 DEF Outcome!Record, Told
  <2>3. QED
    BY <2>2 DEF Outcome!Next
<1>3. CASE UNCHANGED <<pos, record>>
  BY <1>3 DEF Told
<1>4. QED
  BY <1>2, <1>3 DEF Fail

\* Only a save or a failure changes what is recorded or told.
LEMMA OutcomeStep ==
  ASSUME IInv, NEW r \in Requests, Driver(r) \/ Execution(r) \/ Outside(r)
  PROVE  Outcome!Next \/ UNCHANGED <<record, Told>>
<1>1. CASE UNCHANGED <<pos, record>>
  BY <1>1 DEF Told
<1>2. ASSUME exec[r] \in {"paused", "queued", "thread", "model"}, pos[r] < LastStep,
             Script[pos[r] + 1] # "save", Complete(r)
      PROVE  Outcome!Next \/ UNCHANGED <<record, Told>>
  <2>1. pos[r] + 1 < LastStep
    BY <1>2, ScriptFacts DEF IInv, TypeOK
  <2>2. QED
    BY <1>2, <2>1, EarlyYield, FailureIsTold DEF Complete
<1>3. CASE ThreadEnds(r) \/ ModelAnswers(r)
  <2>1. CASE Complete(r) /\ exec[r] \in {"thread", "model"}
    BY <1>2, <2>1 DEF IInv, RequestInv, ExecOf
  <2>2. QED
    BY <1>1, <1>3, <2>1 DEF ThreadEnds, ModelAnswers
<1>4. CASE Run(r)
  <2>1. record[r] = "none" /\ Told[r] = "none"
    BY <1>4 DEF Run, IInv, TypeOK, RequestInv, RecordOf, Told
  <2>2. CASE Script[pos[r] + 1] # "save" /\ Complete(r)
    BY <1>2, <1>4, <2>2 DEF Run
  <2>3. CASE Fail(r)
    BY <1>4, <2>3, FailureIsTold DEF Run
  <2>4. CASE Yield(r, LastStep) /\ record' = [record EXCEPT ![r] = "complete"]
    <3>1. Told' = [Told EXCEPT ![r] = "complete"]
      BY <2>4 DEF IInv, TypeOK, Yield, Told
    <3>2. Outcome!Record(r, "complete")
      BY <2>1, <2>4, <3>1 DEF Outcome!Record, Told
    <3>3. QED
      BY <3>2 DEF Outcome!Next
  <2>5. CASE DieSaved(r)
    <3>1. UNCHANGED Told
      BY <1>4, <2>5 DEF Run, DieSaved, IInv, TypeOK, Told
    <3>2. Outcome!Record(r, "complete")
      BY <2>1, <2>5, <3>1 DEF DieSaved, Outcome!Record, Told
    <3>3. QED
      BY <3>2 DEF Outcome!Next
  <2>6. QED
    BY <1>1, <1>4, <2>2, <2>3, <2>4, <2>5 DEF Run
<1>5. CASE Driver(r)
  BY <1>1, <1>5 DEF Driver, Prepare, Open, Take, Check, Stop, Cancel, CancelExecution,
                    Finalize
<1>6. CASE Return(r) \/ Admit(r) \/ CloseExecution(r)
  BY <1>1, <1>6 DEF Return, Admit, CloseExecution
<1>7. CASE Acquire(r) \/ Beat(r) \/ Sent(r) \/ Disconnect(r)
  BY <1>1, <1>7 DEF Acquire, Beat, Sent, Disconnect
<1>8. QED
  BY <1>3, <1>4, <1>5, <1>6, <1>7 DEF Execution, Outside

(***************************************************************************)
(* No terminal event is handed out before its outcome is recorded, and no  *)
(* outcome told is replaced, at whatever point the driver is cancelled     *)
(* (service.py:388-437).                                                   *)
(***************************************************************************)
THEOREM SessionImplementsOutcome == Spec => ImplementsOutcome
<1>1. Init => Outcome!Init
  BY ScriptFacts DEF Init, Outcome!Init
<1>2. IInv /\ [Next]_vars => [Outcome!Next]_<<record, Told>>
  BY OutcomeStep DEF Next, Terminated, vars, Told
<1>3. QED
  BY <1>1, <1>2, InvAlways, PTL DEF Spec, ImplementsOutcome, Outcome!Spec, Told

--------------------------------------------------------------------------------
\* With heartbeats on a thread has its awaiter, and so its permit, to the end.
ThreadInv ==
  /\ IsFiniteSet(permits)
  /\ Cardinality(permits) <= OffloadCap
  /\ threads = permits
  /\ \A r \in threads : exec[r] = "thread"

\* A permit is taken with a thread and given back with it.
LEMMA ThreadInvStep ==
  ASSUME Heartbeats, IInv, ThreadInv, NEW r \in Requests,
         Driver(r) \/ Execution(r) \/ Outside(r)
  PROVE  ThreadInv'
<1>1. OffloadCap \in Nat \ {0} /\ OffloadCap' = OffloadCap
  BY SessionAssumption DEF OffloadCap
<1>2. CASE Admit(r)
  <2>1. r \notin permits /\ permits' = permits \union {r} /\ threads' = permits'
    BY <1>2 DEF Admit, ThreadInv
  <2>2. IsFiniteSet(permits') /\ Cardinality(permits') = Cardinality(permits) + 1
    BY <2>1, FS_AddElement DEF ThreadInv
  <2>3. Cardinality(permits') <= OffloadCap
    BY <1>1, <1>2, <2>2, FS_CardinalityType DEF Admit, ThreadInv
  <2>4. \A q \in threads' : exec'[q] = "thread"
    BY <1>2, <2>1 DEF Admit, ThreadInv, IInv, TypeOK
  <2>5. QED
    BY <1>1, <2>1, <2>2, <2>3, <2>4 DEF ThreadInv
<1>3. CASE ThreadEnds(r)
  <2>1. /\ r \in permits /\ permits' = permits \ {r} /\ threads' = permits'
        /\ Complete(r)
    BY <1>3 DEF ThreadEnds, ThreadInv
  <2>2. IsFiniteSet(permits') /\ Cardinality(permits') = Cardinality(permits) - 1
    BY <2>1, FS_RemoveElement DEF ThreadInv
  <2>3. Cardinality(permits') <= OffloadCap
    BY <1>1, <2>2, FS_CardinalityType DEF ThreadInv
  <2>4. \A q \in threads' : exec'[q] = "thread"
    BY <2>1 DEF Complete, Fail, Yield, ThreadInv, IInv, TypeOK
  <2>5. QED
    BY <1>1, <2>1, <2>2, <2>3, <2>4 DEF ThreadInv
<1>4. CASE /\ UNCHANGED <<permits, threads>>
           /\ \/ exec' = exec
              \/ /\ exec[r] # "thread"
                 /\ \A q \in Requests \ {r} : exec'[q] = exec[q]
  BY <1>1, <1>4 DEF ThreadInv, IInv, TypeOK
<1>5. CASE Driver(r)
  BY <1>4, <1>5 DEF Driver, Prepare, Open, Take, Check, Stop, Cancel, Finalize
<1>6. CASE Run(r) \/ Return(r) \/ CloseExecution(r) \/ ModelAnswers(r)
  <2>1. exec[r] # "thread" /\ UNCHANGED <<permits, threads>>
    BY <1>6 DEF Run, Return, CloseExecution, ModelAnswers
  <2>2. \A q \in Requests \ {r} : exec'[q] = exec[q]
    BY <1>6 DEF Run, Return, CloseExecution, ModelAnswers, Complete, Fail, Yield,
                DieSaved, IInv, TypeOK
  <2>3. QED
    BY <1>4, <2>1, <2>2
<1>7. CASE Acquire(r) \/ Beat(r) \/ Sent(r) \/ Disconnect(r)
  BY <1>4, <1>7 DEF Acquire, Beat, Sent, Disconnect
<1>8. QED
  BY <1>2, <1>3, <1>5, <1>6, <1>7 DEF Execution, Outside

(***************************************************************************)
(* With heartbeats on no more collection threads run than configured       *)
(* (offload.py:23-24): nothing cancels an awaiter then.                    *)
(***************************************************************************)
THEOREM HeartbeatsBoundThreads ==
  ASSUME Heartbeats
  PROVE  Spec => []OffloadBounded
<1>1. Init => ThreadInv
  BY FS_EmptySet, SessionAssumption DEF Init, ThreadInv, OffloadCap
<1>2. IInv /\ ThreadInv /\ [Next]_vars => ThreadInv'
  <2>1. ASSUME ThreadInv, Terminated \/ UNCHANGED vars PROVE ThreadInv'
    BY <2>1 DEF Terminated, vars, ThreadInv, OffloadCap
  <2>2. QED
    BY <2>1, ThreadInvStep DEF Next
<1>3. ThreadInv => OffloadBounded
  BY DEF ThreadInv, OffloadBounded
<1>4. QED
  BY <1>1, <1>2, <1>3, InvAlways, PTL DEF Spec

--------------------------------------------------------------------------------
\* Without heartbeats the driver awaits the generator itself: once it has a frame
\* in hand, and until it is sent, nothing is asked of the generator.
AwaitedOf(r) ==
  /\ hand[r] # "beat"
  /\ driver[r] \in {"checking", "sending", "broken", "ended"} => pull[r] # "pending"

AwaitedInv == \A r \in Requests : AwaitedOf(r)

\* A step of a request leaves its generator unasked, or the driver waiting for it.
LEMMA AwaitedStep ==
  ASSUME ~Heartbeats, IInv, AwaitedInv, NEW r \in Requests,
         Driver(r) \/ Execution(r) \/ Outside(r)
  PROVE  AwaitedInv'
<1> USE DEF IInv, TypeOK, AwaitedInv, AwaitedOf
<1>1. CASE /\ UNCHANGED <<driver, hand>>
           /\ \A q \in Requests : pull'[q] = "pending" => pull[q] = "pending"
  BY <1>1
<1>2. CASE Acquire(r) \/ Prepare(r)
  BY <1>2 DEF Acquire, Prepare
<1>3. CASE Open(r)
  BY <1>3 DEF Open
<1>4. CASE Take(r)
  BY <1>4 DEF Take
<1>5. CASE Beat(r)
  BY <1>5 DEF Beat
<1>6. CASE Check(r)
  BY <1>6 DEF Check
<1>7. CASE Sent(r)
  BY <1>7 DEF Sent
<1>8. CASE Stop(r)
  BY <1>8 DEF Stop
<1>9. CASE Cancel(r)
  BY <1>9 DEF Cancel, CancelExecution
<1>10. CASE Finalize(r)
  BY <1>10 DEF Finalize
<1>11. CASE Disconnect(r) \/ Execution(r) \/ ThreadEnds(r) \/ ModelAnswers(r)
  BY <1>1, <1>11 DEF Disconnect, Execution, Run, Return, Admit, CloseExecution, ThreadEnds,
                     ModelAnswers, Complete, Fail, Yield, DieSaved
<1>12. QED
  BY <1>2, <1>3, <1>4, <1>5, <1>6, <1>7, <1>8, <1>9, <1>10, <1>11 DEF Driver, Outside

(***************************************************************************)
(* Without heartbeats a disconnect leaves nothing of the execution in the  *)
(* offload queue or in a model call: the cancellation of the response is   *)
(* thrown into the generator's await, and where the response was not       *)
(* waiting for the generator it is suspended at a yield                    *)
(* (streaming.py:69-75, workflows.py:90-99).  With heartbeats the property *)
(* is false.                                                               *)
(***************************************************************************)
THEOREM DisconnectsCancel ==
  ASSUME ~Heartbeats
  PROVE  Spec => []DisconnectCancelsExecution
<1>1. Init => AwaitedInv
  BY DEF Init, AwaitedInv, AwaitedOf
<1>2. IInv /\ AwaitedInv /\ [Next]_vars => AwaitedInv'
  <2>1. ASSUME AwaitedInv, Terminated \/ UNCHANGED vars PROVE AwaitedInv'
    BY <2>1 DEF Terminated, vars, AwaitedInv, AwaitedOf
  <2>2. QED
    BY <2>1, AwaitedStep DEF Next
<1>3. IInv /\ AwaitedInv => DisconnectCancelsExecution
  BY DEF IInv, RequestInv, ExecOf, AwaitedInv, AwaitedOf, DisconnectCancelsExecution
<1>4. QED
  BY <1>1, <1>2, <1>3, InvAlways, PTL DEF Spec
================================================================================
