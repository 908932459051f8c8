-------------------------------- MODULE ChatApp --------------------------------
(***************************************************************************)
(* The web UI's state (src/src/finmind_ui/src/App.tsx) against the server: *)
(* the conversations in the browser, the runs being streamed to it, the    *)
(* calls in flight, and the sessions and the history behind them.          *)
(*                                                                         *)
(* A step of the browser is one event handler or one promise reaction.     *)
(* Nothing cancels a call or a stream, so their answers meet whatever the  *)
(* user and other answers have made of the state meanwhile.  The history   *)
(* on the server is RunShelf's, which RunStore implements.  The page shown *)
(* and the evidence panel are left out: no handler here depends on them.   *)
(***************************************************************************)
EXTENDS Sessions, Selection, SequencesExt, FiniteSets

CONSTANTS
  Starts,       \* workflow runs the user may start, one conversation each
  Asks,         \* first messages of plain conversations
  Script,       \* per run, the events it streams before its terminal one
  Record,       \* per run and outcome, what its stored record shows
  Titles,       \* what the user may call a conversation
  NoTitle, NoId,
  Slots,        \* bound: calls in flight at once
  MaxMoves      \* bound: what the user does and what goes wrong, together

VARIABLES
  shelf, settled,          \* the history on the server, as in RunShelf
  given,                   \* per run, the titles it has had; no action reads it
  stream,                  \* per run, its execution and the connection to it
  calls,                   \* per slot, a call in flight with its answer
  session,                 \* of the UI: "loading", "out" or "in"
  conversations,           \* newest first
  currentConversationId,
  moves

shelves  == <<shelf, settled, given>>
page     == <<session, conversations, currentConversationId>>
vars     == <<sessionVars, shelves, stream, calls, page, moves>>

Store == INSTANCE RunShelf WITH
  RunIds <- Starts, Outcomes <- {"success", "failed"}

ChatId(s) == <<"chat", s>>   \* made by the browser
RunId(s)  == <<"run", s>>    \* made by the server

--------------------------------------------------------------------------------
(* What a message shows of a stream (App.tsx:116-183, 384-411).               *)

Blank == [complete |-> FALSE, steps |-> <<>>, answer |-> <<>>,
          citations |-> <<>>, artifacts |-> <<>>]

\* mutant: every stage event is a new step
AppendStage(steps, e) == Append(steps, [id |-> e.item, status |-> e.status])

PutStage(steps, e) ==
  IF \E i \in DOMAIN steps : steps[i].id = e.item
    THEN [i \in DOMAIN steps |->
            IF steps[i].id = e.item THEN [id |-> e.item, status |-> e.status]
                                    ELSE steps[i]]
    ELSE Append(steps, [id |-> e.item, status |-> e.status])

\* A citation or an artifact has an id; the first copy of it that comes is kept.
AddNew(items, x) ==
  IF \E i \in DOMAIN items : items[i].id = x.id THEN items ELSE Append(items, x)

Show(shown, e) ==
  CASE e.kind = "answer.delta" -> [shown EXCEPT !.answer = Append(@, e.item)]
    [] e.kind = "citation"     -> [shown EXCEPT !.citations = AddNew(@, e.item)]
    [] e.kind = "artifact"     -> [shown EXCEPT !.artifacts = AddNew(@, e.item)]
    [] e.kind = "run.stage"    ->
         LET steps == PutStage(shown.steps, e) IN
           [shown EXCEPT !.steps = steps,
              !.complete = \A i \in DOMAIN steps : steps[i].status # "running"]
    [] OTHER -> shown

\* What a message shows of a run after each number of its events.
ShownAfter(s) ==
  LET after[n \in 0..Len(Script[s])] ==
        IF n = 0 THEN Blank ELSE Show(after[n - 1], Script[s][n])
  IN after

\* workflowStreamStateFromRun.  It need not be what the last event left: the record
\* has its citations sorted, as the last skill saw them, and its answer stripped.
FromRun(s, outcome) == Record[s][outcome]

\* The ids of runs and chats are never the same.
ASSUME ChatAssumption ==
  /\ Starts \intersect Asks = {} /\ MaxMoves \in Nat
  /\ \A s \in Starts : Script[s] \in Seq(ToSet(Script[s]))

--------------------------------------------------------------------------------
(* Conversations.  One has a first message of the user and perhaps one answer *)
(* of a run: pending, final or an error in its place.                         *)

Conversation(id, isWorkflowRun, title, pending, outcome, shown) ==
  [id |-> id, isWorkflowRun |-> isWorkflowRun, title |-> title, pending |-> pending,
   outcome |-> outcome, shown |-> shown, said |-> 1]

\* runToConversation
FromHistory(r) ==
  Conversation(RunId(r.run), TRUE, r.title, FALSE, r.outcome, FromRun(r.run, r.outcome))

Change(id, F(_)) ==
  [i \in DOMAIN conversations |->
     IF conversations[i].id = id THEN F(conversations[i]) ELSE conversations[i]]

Has(id) == \E i \in DOMAIN conversations : conversations[i].id = id
Named(id) == CHOOSE i \in DOMAIN conversations :
               /\ conversations[i].id = id
               /\ \A j \in 1..(i - 1) : conversations[j].id # id
Remaining(id) ==
  Picked(conversations, {i \in DOMAIN conversations : conversations[i].id # id})

\* mutant: the history replaces everything
HydrateAll(runs) == SetToSeq({FromHistory(r) : r \in runs})

\* The history replaces what is shown, but for conversations still pending.
Hydrate(runs) ==
  LET hydrated == {FromHistory(r) : r \in runs}
      kept     == {i \in DOMAIN conversations :
                     /\ conversations[i].pending
                     /\ conversations[i].id \notin {h.id : h \in hydrated}}
  IN Picked(conversations, kept) \o SetToSeq(hydrated)

--------------------------------------------------------------------------------
(* Calls.  Requests carry the cookie at the time they are sent; the handlers  *)
(* that go on after an answer have the values of the render they belong to.   *)

NoCall == [op |-> "none"]
Request(op, id, token) ==
  [op |-> op, id |-> id, token |-> token, answer |-> "none", runs |-> {},
   title |-> NoTitle,
   current |-> IF op = "delete" THEN currentConversationId ELSE NoId]
RenameTo(id, title) == [Request("rename", id, cookie) EXCEPT !.title = title]

\* A request has no answer until one is sent: it is on its way, or require_session
\* let it in and the handler of its route is still to run.
Unanswered(k) == calls[k] # NoCall /\ calls[k].answer \in {"none", "admitted"}

Free == {k \in Slots : calls[k] = NoCall}
Send(request) ==
  LET k == CHOOSE k \in Free : \A j \in Free : k <= j
  IN Free # {} /\ calls' = [calls EXCEPT ![k] = request]
Drop(k) == calls' = [calls EXCEPT ![k] = NoCall]
Answer(k, answer) == calls' = [calls EXCEPT ![k].answer = answer]

Move == moves < MaxMoves /\ moves' = moves + 1

\* The history now, as list_runs answers it.
History == {[run |-> s, outcome |-> shelf[s].outcome, title |-> shelf[s].title] :
              s \in DOMAIN shelf}

\* A request reaches the server.
ServeSession(k) ==
  /\ calls[k].op = "session"
  /\ Answer(k, IF Authorised(calls[k].token) THEN "in" ELSE "out")
  /\ GetSession(calls[k].token)
  /\ UNCHANGED shelves

ServeLogout(k) ==
  /\ calls[k].op = "logout"
  /\ Answer(k, "out") /\ DeleteSession(calls[k].token)
  /\ UNCHANGED shelves

\* require_session is a call of its own, in a worker thread like the handler of the
\* route: between the two the session may expire or be logged out.
Protected == {"list", "rename", "delete"}

Refuse(k) ==
  /\ calls[k].op \in Protected /\ ~Authorised(calls[k].token)
  /\ Answer(k, "401") /\ GetSession(calls[k].token)
  /\ UNCHANGED shelves

Admit(k) ==
  /\ calls[k].op \in Protected /\ Authorised(calls[k].token)
  /\ Answer(k, "admitted")
  /\ UNCHANGED <<shelves, sessions>>

ServeList(k) ==
  /\ calls[k].op = "list"
  /\ calls' = [calls EXCEPT ![k].answer = "200", ![k].runs = History]
  /\ UNCHANGED shelves

ServeRename(k) ==
  /\ calls[k].op = "rename"
  /\ \/ \E s \in DOMAIN shelf :
          /\ calls[k].id = RunId(s)
          /\ Store!Retitle(s, calls[k].title)
          /\ given' = [given EXCEPT ![s] = @ \union {calls[k].title}]
          /\ Answer(k, "200")
     \/ /\ calls[k].id \notin {RunId(s) : s \in DOMAIN shelf}
        /\ Answer(k, "404") /\ UNCHANGED shelves

ServeDelete(k) ==
  /\ calls[k].op = "delete"
  /\ \/ \E s \in DOMAIN shelf :
          /\ calls[k].id = RunId(s)
          /\ Store!Remove(s) /\ UNCHANGED given
          /\ Answer(k, "204")
     \/ /\ calls[k].id \notin {RunId(s) : s \in DOMAIN shelf}
        /\ Answer(k, "404") /\ UNCHANGED shelves

\* The body of a route knows nothing of the session any more.
Handle(k) ==
  /\ ServeList(k) \/ ServeRename(k) \/ ServeDelete(k)
  /\ UNCHANGED sessions

Serve(k) ==
  /\ Unanswered(k)
  /\ IF calls[k].answer = "admitted"
       THEN Handle(k)
       ELSE ServeSession(k) \/ ServeLogout(k) \/ Refuse(k) \/ Admit(k)
  /\ UNCHANGED <<issued, cookie, stream, page, moves>>

\* The network loses a request, or the answer to one.
Lose(k) ==
  /\ calls[k] # NoCall /\ calls[k].answer \notin {"admitted", "lost"}
  /\ Answer(k, "lost") /\ Move
  /\ UNCHANGED <<sessionVars, shelves, stream, page>>

--------------------------------------------------------------------------------
(* The answers of calls (App.tsx:52-102, 245-291).                            *)

\* handleSessionExpired
SignOut == session' = "out"

\* setSession with a session that is authenticated starts a request for the history.
SessionAnswered(k) ==
  /\ calls[k].op = "session"
  /\ IF calls[k].answer = "in"
       THEN session' = "in" /\ calls' = [calls EXCEPT ![k] = Request("list", NoId, cookie)]
       ELSE session' = "out" /\ Drop(k)
  /\ UNCHANGED <<cookie, conversations, currentConversationId>>

LogoutAnswered(k) ==
  /\ calls[k].op = "logout"
  /\ SignOut /\ Drop(k)
  /\ cookie' = IF calls[k].answer = "out" THEN NoToken ELSE cookie
  /\ UNCHANGED <<conversations, currentConversationId>>

Unauthorised(k) ==
  /\ calls[k].answer = "401"
  /\ SignOut /\ Drop(k)
  /\ UNCHANGED <<cookie, conversations, currentConversationId>>

ListAnswered(k) ==
  /\ calls[k].op = "list" /\ calls[k].answer \in {"200", "lost"}
  /\ conversations' = IF calls[k].answer = "200" THEN Hydrate(calls[k].runs)
                                                 ELSE conversations
  /\ Drop(k)
  /\ UNCHANGED <<cookie, session, currentConversationId>>

\* mutant: the title is shown whatever was answered
RenameAnyway(k) ==
  /\ calls[k].op = "rename" /\ calls[k].answer # "401"
  /\ conversations' = Change(calls[k].id,
                             LAMBDA c : [c EXCEPT !.title = calls[k].title])
  /\ Drop(k)
  /\ UNCHANGED <<cookie, session, currentConversationId>>

\* The answer has the title of its own request, whatever the run is called by now.
RenameAnswered(k) ==
  /\ calls[k].op = "rename" /\ calls[k].answer # "401"
  /\ conversations' =
       IF calls[k].answer = "200"
         THEN Change(calls[k].id, LAMBDA c : [c EXCEPT !.title = calls[k].title])
         ELSE conversations
  /\ Drop(k)
  /\ UNCHANGED <<cookie, session, currentConversationId>>

Removed(id, selected) ==
  /\ conversations' = Remaining(id)
  /\ currentConversationId' = IF selected = id THEN NoId ELSE currentConversationId

\* Any answer but a 401 removes the conversation: a 204 has no body to parse, so
\* that success is caught like an error.
DeleteAnswered(k) ==
  /\ calls[k].op = "delete" /\ calls[k].answer # "401"
  /\ Removed(calls[k].id, calls[k].current)
  /\ Drop(k)
  /\ UNCHANGED <<cookie, session>>

React(k) ==
  /\ calls[k] # NoCall /\ ~Unanswered(k)
  /\ \/ SessionAnswered(k) \/ LogoutAnswered(k) \/ Unauthorised(k)
     \/ ListAnswered(k) \/ RenameAnswered(k) \/ DeleteAnswered(k)
  /\ UNCHANGED <<sessions, issued, shelves, stream, moves>>

--------------------------------------------------------------------------------
(* What the user does.                                                        *)

\* One step: while the page waits for its login it ignores everything else.
Login ==
  /\ session = "out" /\ Move
  /\ CreateSession
  /\ Send(Request("list", NoId, cookie'))
  /\ session' = "in"
  /\ UNCHANGED <<shelves, stream, conversations, currentConversationId>>

Logout ==
  /\ session = "in" /\ Move
  /\ Send(Request("logout", NoId, cookie))
  /\ UNCHANGED <<sessionVars, shelves, stream, page>>

\* To a new chat.
Navigate ==
  /\ session = "in" /\ currentConversationId # NoId /\ Move
  /\ currentConversationId' = NoId
  /\ UNCHANGED <<sessionVars, shelves, stream, calls, session, conversations>>

SelectChat(id) ==
  /\ session = "in" /\ Has(id) /\ currentConversationId # id /\ Move
  /\ currentConversationId' = id
  /\ UNCHANGED <<sessionVars, shelves, stream, calls, session, conversations>>

\* handleRunStart, as far as its first await.
RunStart(s) ==
  /\ session = "in" /\ Move
  /\ stream[s].link = "none"
  /\ stream' = [stream EXCEPT ![s].link = "asking", ![s].token = cookie]
  /\ conversations' =
       <<Conversation(ChatId(s), TRUE, NoTitle, TRUE, "none", Blank)>> \o conversations
  /\ currentConversationId' = ChatId(s)
  /\ UNCHANGED <<sessionVars, shelves, calls, session>>

\* handleChatSubmit: the first message of a conversation, or one more of it.
Submit ==
  /\ session = "in" /\ Move
  /\ \/ /\ currentConversationId = NoId
        /\ \E a \in Asks :
             /\ ~Has(ChatId(a))
             /\ conversations' =
                  <<Conversation(ChatId(a), FALSE, NoTitle, FALSE, "mock", Blank)>>
                    \o conversations
             /\ currentConversationId' = ChatId(a)
     \/ /\ currentConversationId # NoId
        /\ conversations' = Change(currentConversationId,
                                   LAMBDA c : [c EXCEPT !.said = @ + 1])
        /\ UNCHANGED currentConversationId
  /\ UNCHANGED <<sessionVars, shelves, stream, calls, session>>

Rename(id, title) ==
  /\ session = "in" /\ Has(id) /\ Move
  /\ IF conversations[Named(id)].isWorkflowRun
       THEN Send(RenameTo(id, title)) /\ UNCHANGED conversations
       ELSE /\ conversations' = Change(id, LAMBDA c : [c EXCEPT !.title = title])
            /\ UNCHANGED calls
  /\ UNCHANGED <<sessionVars, shelves, stream, session, currentConversationId>>

Delete(id) ==
  /\ session = "in" /\ Has(id) /\ Move
  /\ IF conversations[Named(id)].isWorkflowRun
       THEN /\ Send(Request("delete", id, cookie))
            /\ UNCHANGED <<conversations, currentConversationId>>
       ELSE Removed(id, currentConversationId) /\ UNCHANGED calls
  /\ UNCHANGED <<sessionVars, shelves, stream, session>>

User ==
  \/ Login \/ Logout \/ Submit \/ Navigate
  \/ \E s \in Starts : RunStart(s)
  \/ \E i \in DOMAIN conversations :
       LET id == conversations[i].id IN
         \/ SelectChat(id) \/ Delete(id)
         \/ \E title \in Titles : Rename(id, title)

--------------------------------------------------------------------------------
(* A run on the server and its stream.  The execution is none, running,       *)
(* stored or gone.  The link is none, asking (the POST is on its way),        *)
(* refused (401), open, ended (by the server, after its terminal event), cut, *)
(* and settled when the browser's promise is; signedout if it was refused.    *)
(* What the server sent and the browser has not read is on the way as long as *)
(* the link is open or ended; how much of the script that is does not matter. *)

Stream(exec, link) ==
  [exec |-> exec, link |-> link, token |-> NoToken, got |-> 0, last |-> "none"]
Become(s, exec, link) == stream' = [stream EXCEPT ![s] = Stream(exec, link)]

\* The execution is over, after a terminal event or without one.
Over(s, exec, last) ==
  IF stream[s].link # "open" THEN stream' = [stream EXCEPT ![s].exec = exec]
  ELSE IF last = "none" THEN Become(s, exec, "cut")
  ELSE stream' = [stream EXCEPT ![s].exec = exec, ![s].link = "ended", ![s].last = last]

\* The POST arrives: the session is checked here and never again.  Nothing else reads
\* or writes what the start of the run changes, so it is one step with the check.
Accept(s) ==
  /\ stream[s].link = "asking"
  /\ IF Authorised(stream[s].token) THEN Become(s, "running", "open")
                                    ELSE Become(s, "none", "refused")
  /\ GetSession(stream[s].token)
  /\ UNCHANGED <<shelves, issued, cookie>>

\* Any other refusal: 422 or 429.
Reject(s) ==
  /\ stream[s].link = "asking" /\ Authorised(stream[s].token)
  /\ Become(s, "none", "cut")
  /\ UNCHANGED <<shelves, sessionVars>>

\* mutant: the run is stored and told, and goes on
CompleteGoesOn(s) ==
  /\ stream[s].exec = "running"
  /\ Store!Put(s, "success") /\ UNCHANGED <<settled, given>>
  /\ Over(s, "stored", "run.completed")
  /\ UNCHANGED sessionVars

\* The run is stored and told in one piece, as RunStore shows.
Complete(s) ==
  /\ stream[s].exec = "running"
  /\ Store!Put(s, "success") /\ s \in settled' /\ UNCHANGED given
  /\ Over(s, "stored", "run.completed")
  /\ UNCHANGED sessionVars

\* It fails, and that is told; or that is not told either.
Fail(s) ==
  /\ stream[s].exec = "running"
  /\ \/ /\ Store!Put(s, "failed") /\ s \in settled'
        /\ Over(s, "stored", "run.failed")
     \/ /\ \E o \in {"success", "failed"} : Store!Put(s, o) /\ s \in settled'
        /\ Over(s, "stored", "none")
     \/ /\ settled' = settled \union {s} /\ UNCHANGED shelf
        /\ Over(s, "gone", "none")
  /\ UNCHANGED <<given, sessionVars>>

Server(s) ==
  /\ Accept(s) \/ Reject(s) \/ Complete(s) \/ Fail(s)
  /\ UNCHANGED <<calls, page, moves>>

\* Pending messages of the conversation this run was started in.
ShowIn(s, F(_)) ==
  conversations' = Change(ChatId(s),
    LAMBDA c : IF c.pending THEN [c EXCEPT !.shown = F(@)] ELSE c)

AllRead(s) == stream[s].got = Len(Script[s])
NextEvent(s) == Script[s][stream[s].got + 1]

\* mutant: the event is shown in every pending message
ReceiveAnywhere(s) ==
  /\ stream[s].link \in {"open", "ended"} /\ ~AllRead(s)
  /\ stream' = [stream EXCEPT ![s].got = @ + 1]
  /\ conversations' =
       [i \in DOMAIN conversations |->
          IF conversations[i].pending
            THEN [conversations[i] EXCEPT !.shown = Show(@, NextEvent(s))]
            ELSE conversations[i]]
  /\ UNCHANGED <<session, currentConversationId>>

Receive(s) ==
  /\ stream[s].link \in {"open", "ended"} /\ ~AllRead(s)
  /\ stream' = [stream EXCEPT ![s].got = @ + 1]
  /\ ShowIn(s, LAMBDA shown : Show(shown, NextEvent(s)))
  /\ UNCHANGED <<session, currentConversationId>>

\* run.completed carries the record; it is the result once the stream ends.
ReceiveCompleted(s) ==
  /\ stream[s].last = "run.completed" /\ AllRead(s)
  /\ stream' = [stream EXCEPT ![s].last = "result"]
  /\ ShowIn(s, LAMBDA shown : FromRun(s, "success"))
  /\ UNCHANGED <<session, currentConversationId>>

\* The end of the stream after run.completed: the conversation becomes the run's,
\* and the one that is selected, whatever was selected meanwhile.
Settle(s) ==
  /\ stream[s].last = "result" /\ Become(s, stream[s].exec, "settled")
  /\ conversations' = Change(ChatId(s),
       LAMBDA c : [c EXCEPT !.id = RunId(s), !.pending = FALSE, !.outcome = "success",
                            !.shown = FromRun(s, "success")])
  /\ currentConversationId' = RunId(s)
  /\ UNCHANGED <<session>>

\* mutant: run.failed is an event like others, the promise waits for a result
BreakOnlyCut(s) == stream[s].link = "cut"

\* run.failed throws, and so does a connection that breaks.
Breaks(s) == stream[s].link = "cut" \/ stream[s].last = "run.failed"

SettleError(s) ==
  /\ Breaks(s) /\ Become(s, stream[s].exec, "settled")
  /\ conversations' = Change(ChatId(s),
       LAMBDA c : [c EXCEPT !.pending = FALSE, !.outcome = "error", !.shown = Blank])
  /\ UNCHANGED <<session, currentConversationId>>

\* A 401 leaves the message as it is.
SettleRefused(s) ==
  /\ stream[s].link = "refused" /\ Become(s, "none", "signedout")
  /\ SignOut
  /\ UNCHANGED <<conversations, currentConversationId>>

Browser(s) ==
  /\ \/ Receive(s) \/ ReceiveCompleted(s) \/ Settle(s)
     \/ SettleError(s) \/ SettleRefused(s)
  /\ UNCHANGED <<sessionVars, shelves, calls, moves>>

--------------------------------------------------------------------------------
(* Faults.                                                                    *)

\* The connection breaks; the execution goes on or is cancelled.
Cut(s) ==
  /\ stream[s].link \in {"asking", "open", "ended"} /\ Move
  /\ \/ Become(s, stream[s].exec, "cut") /\ UNCHANGED settled
     \/ /\ stream[s].exec = "running" /\ Become(s, "gone", "cut")
        /\ settled' = settled \union {s}
  /\ UNCHANGED <<sessionVars, shelf, given, calls, page>>

SessionExpires == Expire /\ Move /\ UNCHANGED <<shelves, stream, calls, page>>

\* The server is started again: its sessions, its executions and the requests it has
\* not answered are gone, the history is not.
Restart ==
  /\ Move /\ ForgetSessions
  /\ stream' = [s \in Starts |->
       LET exec == IF stream[s].exec = "running" THEN "gone" ELSE stream[s].exec IN
         IF stream[s].link \in {"asking", "open"} THEN Stream(exec, "cut")
                                                  ELSE [stream[s] EXCEPT !.exec = exec]]
  /\ settled' = settled \union {s \in Starts : stream[s].exec = "running"}
  /\ calls' = [k \in Slots |->
       IF Unanswered(k)
         THEN [calls[k] EXCEPT !.answer = "lost"] ELSE calls[k]]
  /\ UNCHANGED <<issued, cookie, shelf, given, page>>

Faulty == (\E k \in Slots : Lose(k)) \/ (\E s \in Starts : Cut(s))
          \/ SessionExpires \/ Restart

\* The page is loaded, without a cookie or with the one of a live session.
Init ==
  /\ issued \in {0, 1} /\ cookie = issued
  /\ sessions = [t \in 1..issued |-> "live"]
  /\ Store!Init /\ given = [s \in Starts |-> {}]
  /\ stream = [s \in Starts |-> Stream("none", "none")]
  /\ session = "loading"
  /\ conversations = <<>> /\ currentConversationId = NoId
  /\ calls = [k \in Slots |-> IF \A j \in Slots : k <= j
                                THEN Request("session", NoId, cookie) ELSE NoCall]
  /\ moves = 0

Next ==
  \/ User \/ Faulty
  \/ \E k \in Slots : Serve(k) \/ React(k)
  \/ \E s \in Starts : Server(s) \/ Browser(s)

\* Executions end and the browser reads its streams; calls may hang for ever, and the
\* user and the network do as they like.
Fairness == \A s \in Starts : WF_vars(Server(s)) /\ WF_vars(Browser(s))

Spec == Init /\ [][Next]_vars /\ Fairness

--------------------------------------------------------------------------------
Ids == {ChatId(x) : x \in Starts \union Asks} \union {RunId(s) : s \in Starts}
Answers == {"none", "admitted", "in", "out", "200", "204", "401", "404", "lost"}

\* Every variable has its type; ids are those the browser or the server makes.
TypeOK ==
  /\ sessions \in [DOMAIN sessions -> {"live", "expired"}]
  /\ DOMAIN sessions \subseteq 1..issued /\ cookie \in 0..issued
  /\ DOMAIN shelf \subseteq settled /\ settled \subseteq Starts
  /\ given \in [Starts -> SUBSET Titles]
  /\ \A s \in Starts :
       /\ stream[s].link \in {"none", "asking", "refused", "open", "ended", "cut",
                              "settled", "signedout"}
       /\ stream[s].exec \in {"none", "running", "stored", "gone"}
       /\ stream[s].got \in 0..Len(Script[s])
  /\ \A k \in Slots : calls[k] = NoCall \/ calls[k].answer \in Answers
  /\ session \in {"loading", "out", "in"}
  /\ \A i \in DOMAIN conversations : conversations[i].id \in Ids
  /\ currentConversationId \in Ids \union {NoId}
  /\ moves \in 0..MaxMoves

Pending(s) == \E i \in DOMAIN conversations :
                conversations[i].id = ChatId(s) /\ conversations[i].pending

\* Until the end of its stream a message that waits is told to the browser.
Reading == {"asking", "open", "ended"}

\* What a message that waits may show of its run: its record once that is stored, or
\* what its first events made of it, as many as were read.
ShowsPart(s, shown) ==
  /\ \/ shown = FromRun(s, "success") /\ stream[s].exec = "stored"
     \/ \E n \in 0..Len(Script[s]) : shown = ShownAfter(s)[n]
  /\ stream[s].link \in Reading =>
       shown = IF stream[s].last = "result" THEN FromRun(s, "success")
                                            ELSE ShownAfter(s)[stream[s].got]

(***************************************************************************)
(* A conversation shows its own run and nothing of another that streams at *)
(* the same time, whatever is hydrated, deleted or renamed meanwhile: while *)
(* it waits, what exactly the events read so far made of it, no event lost *)
(* or applied twice, and the record from run.completed on; afterwards the  *)
(* record of the outcome it claims (App.tsx:116-205, mockChat.ts:289-306). *)
(***************************************************************************)
ShowsOwnRun ==
  \A i \in DOMAIN conversations, s \in Starts :
    LET c == conversations[i] IN
      /\ c.id = ChatId(s) /\ c.pending => ShowsPart(s, c.shown)
      /\ c.id = RunId(s) => c.shown = FromRun(s, c.outcome)

(***************************************************************************)
(* What the UI shows as a run of the history was stored: it never shows an *)
(* outcome the server does not have, unless the run was deleted since, nor *)
(* a title the run never had, in whatever order requests are served,       *)
(* answered, refused or lost.  It may be an old title: two renames that    *)
(* are answered out of order leave one (App.tsx:70-78, 185-192, 251-259).  *)
(***************************************************************************)
HistoryIsStored ==
  \A i \in DOMAIN conversations, s \in Starts :
    LET c == conversations[i] IN
      c.id = RunId(s) =>
        /\ stream[s].exec = "stored"
        /\ s \in DOMAIN shelf => c.outcome = shelf[s].outcome
        /\ c.title \in given[s] \union {NoTitle}

Asked(id) == \E k \in Slots : calls[k] # NoCall /\ calls[k].op = "delete"
                              /\ calls[k].id = id

(***************************************************************************)
(* A message that waits for its run is not taken off the screen by         *)
(* anything but its own end or the user's delete: not by a history that    *)
(* arrives, a signing out and in, or the answers of other calls            *)
(* (App.tsx:65-82).                                                        *)
(***************************************************************************)
PendingStays ==
  [][\A s \in Starts :
       (Pending(s) /\ ~Pending(s)') =>
         stream'[s].link = "settled" \/ Asked(ChatId(s))]_vars

(***************************************************************************)
(* A stored run leaves the history in the browser because the user deletes *)
(* it, or because a list arrives that was read before the run was stored:  *)
(* there is no other way to lose it (App.tsx:65-82, 270-291).              *)
(***************************************************************************)
OnlyOldListsHide ==
  [][\A s \in Starts :
       (s \in DOMAIN shelf /\ Has(RunId(s)) /\ ~Has(RunId(s))') =>
         \/ Asked(RunId(s))
         \/ \E k \in Slots : /\ calls[k] # NoCall /\ calls[k].answer = "200"
                             /\ \A r \in calls[k].runs : r.run # s]_vars

(***************************************************************************)
(* Nothing the user waits for or has in the history vanishes of itself.    *)
(***************************************************************************)
NothingVanishes == PendingStays /\ OnlyOldListsHide

\* The call asks for what becomes of the run in this step.
AsksFor(k, s) ==
  /\ calls[k].id = RunId(s)
  /\ IF s \in DOMAIN shelf'
       THEN /\ calls[k].op = "rename"
            /\ shelf'[s] = [shelf[s] EXCEPT !.title = calls[k].title]
       ELSE calls[k].op = "delete"

\* A session is over, and nothing that was let in with its token is left to be done.
SessionOver(t) ==
  /\ ~(t \in DOMAIN sessions /\ sessions[t] = "live")
  /\ \A k \in Slots : Unanswered(k) /\ calls[k].token = t => calls[k].answer = "none"

(***************************************************************************)
(* The history changes as callers with a session ask, and as nobody else   *)
(* does, however late their requests arrive.  A run is renamed or removed  *)
(* for a request that was let in and asks for just that.  And once a       *)
(* session has expired, was logged out or is forgotten after a restart, it *)
(* is over for good: what was let in before is still carried out, but no   *)
(* request with its token is let in again, whenever it was sent            *)
(* (dependencies.py:8-23, auth.py:38-53, routes/runs.py:55-88).            *)
(***************************************************************************)
OnlyLiveSessionsChange ==
  [][/\ \A s \in DOMAIN shelf :
          (s \notin DOMAIN shelf' \/ shelf'[s] # shelf[s]) =>
             \E k \in Slots : /\ Unanswered(k) /\ calls[k].answer = "admitted"
                              /\ AsksFor(k, s)
     /\ \A t \in 0..issued : SessionOver(t) => SessionOver(t)']_vars

(***************************************************************************)
(* A message that waits ends in an answer or an error, though its session  *)
(* expires, the server restarts, the connection breaks or its conversation *)
(* is renamed on the way.  The exception is in the code: a POST answered   *)
(* with 401 leaves the message waiting (App.tsx:185-196).                  *)
(***************************************************************************)
PendingEnds ==
  \A s \in Starts :
    Pending(s) ~> (~Pending(s) \/ stream[s].link = "signedout")

(***************************************************************************)
(* A plain conversation is in the history from its first answer on, until  *)
(* the user deletes it (specs/001-mvp-ui/spec.md:62).                      *)
(***************************************************************************)
ChatsStayInHistory ==
  [][\A a \in Asks : (Has(ChatId(a)) /\ ~Has(ChatId(a))') => Delete(ChatId(a))]_vars
================================================================================
