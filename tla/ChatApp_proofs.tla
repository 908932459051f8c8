----------------------------- MODULE ChatApp_proofs -----------------------------
(***************************************************************************)
(* The composed system of browser, network and server, for any number of   *)
(* runs, chats, titles and calls in flight.                                *)
(*                                                                         *)
(* First the steps of the history on the server: a run is stored, or is    *)
(* over, or a request that was let in renames or removes it. Every run in  *)
(* the history is settled, and a step that stores a run is of one that is  *)
(* not, so it touches no run that is there already.                        *)
(*                                                                         *)
(* Then what the browser shows of it, by the invariant CInv: it has what   *)
(* must be true of the streams, the rows and the calls in flight for every *)
(* conversation to be right whatever reaches it next. A list that was      *)
(* answered knows only runs that were stored, with the outcome they still  *)
(* have and a title they had (Known); a rename that was answered was of    *)
(* such a run; and what a message shows is what the first events of its    *)
(* own run made of it, as many as were read, or its record (ShowsPart).    *)
(* What the server does for whom follows from it: that its history is      *)
(* RunShelf's, and that a session that is over stays over.                 *)
(***************************************************************************)
EXTENDS ChatApp, Selection_proofs, FiniteSetTheorems

ShelfOfSettled ==
  /\ DOMAIN shelf \subseteq settled
  /\ settled \subseteq Starts

\* A request that was let in renames or removes the run it names.
Retitles(k, s) ==
  /\ calls[k].op = "rename" /\ Store!Retitle(s, calls[k].title)
  /\ given' = [given EXCEPT ![s] = @ \union {calls[k].title}]
Granted(k, s) ==
  /\ calls[k] # NoCall /\ calls[k].answer = "admitted" /\ calls[k].id = RunId(s)
  /\ Retitles(k, s) \/ (calls[k].op = "delete" /\ Store!Remove(s) /\ UNCHANGED given)

\* The steps that change the history, or who is settled, and how.
Shelving ==
  \/ /\ \E s \in Starts, o \in {"success", "failed"} : Store!Put(s, o) /\ s \in settled'
     /\ UNCHANGED given
  \/ Store!Settle /\ UNCHANGED given
  \/ \E k \in Slots, s \in DOMAIN shelf : Granted(k, s)

\* What the server does with a request: the history changes only in the body of a route.
LEMMA ServeShelves ==
  ASSUME NEW k \in Slots, Serve(k)
  PROVE  /\ UNCHANGED shelves \/ \E s \in DOMAIN shelf : Granted(k, s)
         /\ UNCHANGED stream /\ calls[k] # NoCall
<1>1. calls[k] # NoCall /\ UNCHANGED stream
  BY DEF Serve, Unanswered
<1>2. CASE calls[k].answer = "admitted"
  <2>1. ServeList(k) \/ ServeRename(k) \/ ServeDelete(k)
    BY <1>2 DEF Serve, Handle
  <2>2. CASE ServeList(k)
    BY <1>1, <2>2 DEF ServeList
  <2>3. CASE ServeRename(k)
    <3>1. \/ UNCHANGED shelves
          \/ \E s \in DOMAIN shelf : calls[k].id = RunId(s) /\ Retitles(k, s)
      BY <2>3 DEF ServeRename, Retitles
    <3>2. QED
      BY <1>1, <1>2, <3>1 DEF Granted
  <2>4. CASE ServeDelete(k)
    <3>1. \/ UNCHANGED shelves
          \/ \E s \in DOMAIN shelf : /\ calls[k].id = RunId(s) /\ calls[k].op = "delete"
                                     /\ Store!Remove(s) /\ UNCHANGED given
      BY <2>4 DEF ServeDelete
    <3>2. QED
      BY <1>1, <1>2, <3>1 DEF Granted
  <2>5. QED
    BY <2>1, <2>2, <2>3, <2>4
<1>3. CASE calls[k].answer # "admitted"
  <2>1. ServeSession(k) \/ ServeLogout(k) \/ Refuse(k) \/ Admit(k)
    BY <1>3 DEF Serve
  <2>2. QED
    BY <1>1, <2>1 DEF ServeSession, ServeLogout, Refuse, Admit
<1>4. QED
  BY <1>2, <1>3

\* Every step of the system is one of these for the history, or leaves it alone.
LEMMA StepShelves ==
  ASSUME ShelfOfSettled, [Next]_vars
  PROVE  Shelving \/ UNCHANGED shelves
<1>1. CASE UNCHANGED vars
  BY <1>1 DEF vars
<1>2. CASE User
  BY <1>2 DEF User, Login, Logout, Submit, Navigate, RunStart, SelectChat, Rename, Delete
<1>3. CASE Faulty
  <2>1. ASSUME NEW s \in Starts, Cut(s)
        PROVE  Shelving
    <3>1. UNCHANGED <<shelf, given>> /\ (settled' = settled \/ settled' = settled \union {s})
      BY <2>1 DEF Cut
    <3>2. settled' \in SUBSET Starts /\ settled \subseteq settled'
      BY <3>1 DEF ShelfOfSettled
    <3> QED
      BY <3>1, <3>2 DEF Shelving, Store!Settle
  <2>2. CASE Restart
    <3>1. UNCHANGED <<shelf, given>> /\ settled' \in SUBSET Starts /\ settled \subseteq settled'
      BY <2>2 DEF Restart, ShelfOfSettled
    <3> QED
      BY <3>1 DEF Shelving, Store!Settle
  <2>3. CASE SessionExpires \/ \E k \in Slots : Lose(k)
    BY <2>3 DEF SessionExpires, Lose
  <2> QED
    BY <1>3, <2>1, <2>2, <2>3 DEF Faulty
<1>4. ASSUME NEW k \in Slots, Serve(k)
      PROVE  Shelving \/ UNCHANGED shelves
  BY <1>4, ServeShelves DEF Shelving
<1>5. ASSUME NEW k \in Slots, React(k)
      PROVE  UNCHANGED shelves
  BY <1>5 DEF React
<1>6. ASSUME NEW s \in Starts, Server(s)
      PROVE  Shelving \/ UNCHANGED shelves
  <2>1. CASE Accept(s) \/ Reject(s)
    BY <2>1 DEF Accept, Reject
  <2>2. CASE Complete(s)
    BY <2>2 DEF Complete, Shelving
  <2>3. CASE Fail(s)
    <3>1. CASE \E o \in {"success", "failed"} : Store!Put(s, o) /\ s \in settled'
      BY <2>3, <3>1 DEF Fail, Shelving
    <3>2. CASE settled' = settled \union {s} /\ UNCHANGED shelf
      <4>1. settled' \in SUBSET Starts /\ settled \subseteq settled'
        BY <3>2 DEF ShelfOfSettled
      <4> QED
        BY <2>3, <3>2, <4>1 DEF Fail, Shelving, Store!Settle
    <3> QED
      BY <2>3, <3>1, <3>2 DEF Fail
  <2> QED
    BY <1>6, <2>1, <2>2, <2>3 DEF Server
<1>7. ASSUME NEW s \in Starts, Browser(s)
      PROVE  UNCHANGED shelves
  BY <1>7 DEF Browser
<1> QED
  BY <1>1, <1>2, <1>3, <1>4, <1>5, <1>6, <1>7 DEF Next

\* Those steps keep the history one of settled runs.
LEMMA ShelvingKeepsSettled ==
  ASSUME ShelfOfSettled, Shelving \/ UNCHANGED shelves
  PROVE  ShelfOfSettled'
<1>1. ASSUME NEW s \in Starts, NEW o, Store!Put(s, o), s \in settled'
      PROVE  ShelfOfSettled'
  <2>1. DOMAIN shelf' = DOMAIN shelf \union {s}
    BY <1>1 DEF Store!Put
  <2>2. settled \subseteq settled' /\ settled' \subseteq Starts
    BY <1>1 DEF Store!Put, ShelfOfSettled
  <2> QED
    BY <1>1, <2>1, <2>2 DEF ShelfOfSettled
<1>2. CASE Store!Settle
  BY <1>2 DEF Store!Settle, ShelfOfSettled
<1>3. ASSUME NEW s \in DOMAIN shelf, NEW t, Store!Retitle(s, t) \/ Store!Remove(s)
      PROVE  ShelfOfSettled'
  <2>1. DOMAIN shelf' \subseteq DOMAIN shelf /\ settled' = settled
    BY <1>3 DEF Store!Retitle, Store!Remove
  <2> QED
    BY <2>1 DEF ShelfOfSettled
<1>4. CASE UNCHANGED shelves
  BY <1>4 DEF shelves, ShelfOfSettled
<1> QED
  BY <1>1, <1>2, <1>3, <1>4 DEF Shelving, Granted, Retitles

\* The history is empty at first.
LEMMA InitSettled == Init => ShelfOfSettled
  BY DEF Init, Store!Init, ShelfOfSettled

\* Only runs that are over are in the history, and only those the user started:
\* the part of TypeOK that is about the server's history.
THEOREM HistoryOfSettled == Spec => []ShelfOfSettled
<1>1. ShelfOfSettled /\ [Next]_vars => ShelfOfSettled'
  BY StepShelves, ShelvingKeepsSettled
<1> QED
  BY <1>1, InitSettled, PTL DEF Spec

--------------------------------------------------------------------------------
(* The invariant.                                                             *)

Links == {"none", "asking", "refused", "open", "ended", "cut", "settled", "signedout"}
Execs == {"none", "running", "stored", "gone"}
Lasts == {"none", "run.completed", "run.failed", "result"}

StreamType(s) ==
  [exec : Execs, link : Links, token : Nat, got : 0..Len(Script[s]), last : Lasts]

\* The stream of a run and its row in the history.
StreamOf(s) ==
  /\ stream[s] \in StreamType(s)
  /\ stream[s].link \notin {"open", "ended"} => stream[s].got = 0
  /\ stream[s].link # "ended" => stream[s].last = "none"
  /\ stream[s].link \in {"none", "asking", "refused", "signedout"} => stream[s].exec = "none"
  /\ stream[s].last \in {"run.completed", "result"} =>
       /\ stream[s].exec = "stored"
       /\ s \in DOMAIN shelf => shelf[s].outcome = "success"
  /\ stream[s].last = "result" => stream[s].got = Len(Script[s])

RowType == [outcome : {"success", "failed"}, title : {NoTitle} \union Titles]
Streams ==
  /\ stream = [s \in Starts |-> stream[s]]
  /\ \A s \in Starts : StreamOf(s)
Rows ==
  /\ IsFiniteSet(DOMAIN shelf)
  /\ given \in [Starts -> SUBSET Titles]
  /\ \A s \in DOMAIN shelf : /\ s \in Starts /\ stream[s].exec = "stored"
                            /\ shelf[s] \in RowType
                            /\ shelf[s].title \in given[s] \union {NoTitle}

\* What may be shown of a run of the history: it was stored and had this title, and if
\* it is still there it has this outcome.
Known(s, outcome, title) ==
  /\ s \in Starts /\ stream[s].exec = "stored"
  /\ title \in given[s] \union {NoTitle}
  /\ s \in DOMAIN shelf => outcome = shelf[s].outcome

\* A stored run that was given the title.
Titled(s, title) == stream[s].exec = "stored" /\ title \in given[s]

\* A call in flight: a list has known runs, a rename that succeeded was of one.
Ops == {"session", "logout", "list", "rename", "delete"}
IsCall(c) ==
  /\ c = [op |-> c.op, id |-> c.id, token |-> c.token, answer |-> c.answer,
          runs |-> c.runs, title |-> c.title, current |-> c.current]
  /\ c.op \in Ops /\ c.answer \in Answers
  /\ c.op = "rename" => c.title \in Titles
CallOf(k) ==
  calls[k] # NoCall =>
    LET c == calls[k] IN
      /\ IsCall(c) /\ IsFiniteSet(c.runs)
      /\ \A r \in c.runs : Known(r.run, r.outcome, r.title)
      /\ c.op = "rename" /\ c.answer = "200" =>
           \E s \in Starts : c.id = RunId(s) /\ Titled(s, c.title)
Calls == calls = [k \in Slots |-> calls[k]] /\ \A k \in Slots : CallOf(k)

IsConversation(c) ==
  c = [id |-> c.id, isWorkflowRun |-> c.isWorkflowRun, title |-> c.title,
       pending |-> c.pending, outcome |-> c.outcome, shown |-> c.shown, said |-> c.said]
Conversed(c) ==
  /\ IsConversation(c) /\ c.id \in Ids /\ c.isWorkflowRun \in BOOLEAN
  /\ (c.isWorkflowRun = FALSE) <=> (c.id \in {ChatId(a) : a \in Asks})
  /\ \A s \in Starts :
       /\ c.id = ChatId(s) =>
            /\ stream[s].link # "none" /\ c.title = NoTitle
            /\ c.pending => ShowsPart(s, c.shown)
       /\ c.id = RunId(s) => /\ Known(s, c.outcome, c.title)
                             /\ c.shown = FromRun(s, c.outcome)

Shown == ToSet(conversations)
Talks == conversations \in Seq(Shown) /\ \A c \in Shown : Conversed(c)

Logins ==
  /\ issued \in Nat /\ cookie \in 0..issued /\ DOMAIN sessions \subseteq 1..issued
  /\ sessions \in [DOMAIN sessions -> {"live", "expired"}]
  /\ session \in {"loading", "out", "in"}
  /\ currentConversationId \in Ids \union {NoId}
  /\ moves \in 0..MaxMoves

CInv == Logins /\ Streams /\ Rows /\ Calls /\ Talks

--------------------------------------------------------------------------------
\* What a step does to the streams and to the history: a run that was stored stays
\* that and has had the titles it had, and if it is still in the history it was there,
\* with the same outcome, or is stored just now.
StaysStored(r) ==
  /\ stream[r].exec = "stored" => stream'[r].exec = "stored"
  /\ stream[r].link # "none" => stream'[r].link # "none"
  /\ given[r] \subseteq given'[r]
  /\ r \in DOMAIN shelf' =>
       \/ stream[r].exec # "stored"
       \/ r \in DOMAIN shelf /\ shelf'[r].outcome = shelf[r].outcome

\* A run that was started and is still being read was read before, as far as now: the
\* browser reads an event only in Receive, and the result in ReceiveCompleted.
KeepsPart(r) ==
  stream[r].link # "none" /\ stream'[r].link \in Reading =>
    /\ stream[r].link \in Reading /\ stream'[r].got = stream[r].got
    /\ (stream'[r].last = "result") <=> (stream[r].last = "result")

World == Streams /\ Rows

\* A step that changes one stream and leaves the history.
LEMMA OneStream ==
  ASSUME World, NEW s \in Starts, stream' = [stream EXCEPT ![s] = stream'[s]],
         UNCHANGED <<shelf, given>>,
         StreamOf(s)', stream[s].exec = "stored" => stream'[s].exec = "stored",
         stream[s].link # "none" => stream'[s].link # "none"
  PROVE  World' /\ \A r \in Starts : StaysStored(r) /\ (r # s => KeepsPart(r))
<1>1. DOMAIN stream = Starts /\ DOMAIN stream' = Starts
  BY DEF World, Streams
<1>2. \A r \in Starts \ {s} : stream'[r] = stream[r]
  BY <1>1
<1>3. \A r \in Starts \ {s} : StreamOf(r)'
  BY <1>2 DEF World, Streams, StreamOf, StreamType
<1>4. stream' = [r \in Starts |-> stream'[r]]
  BY <1>1
<1>5. \A r \in Starts : stream[r].exec = "stored" => stream'[r].exec = "stored"
  BY <1>2
<1>6. Rows'
  BY <1>5 DEF World, Rows
<1>7. \A r \in Starts : StaysStored(r) /\ (r # s => KeepsPart(r))
  BY <1>2, <1>5 DEF StaysStored, KeepsPart
<1>8. QED
  BY <1>3, <1>4, <1>6, <1>7 DEF World, Streams

\* What is known of the runs of the history stays known.
LEMMA KnownStays ==
  ASSUME \A r \in Starts : StaysStored(r), NEW s, NEW o, NEW t, Known(s, o, t)
  PROVE  Known(s, o, t)'
BY DEF Known, StaysStored

\* Steps that change neither.
LEMMA WorldKept ==
  ASSUME World, UNCHANGED <<stream, shelf, given>>
  PROVE  World' /\ \A r \in Starts : StaysStored(r) /\ KeepsPart(r)
BY DEF World, Streams, Rows, StreamOf, StreamType, StaysStored, KeepsPart

\* What a request that was let in may do to the history.
LEMMA WorldServed ==
  ASSUME World, UNCHANGED stream, NEW k \in Slots, CallOf(k), NEW s \in DOMAIN shelf, Granted(k, s)
  PROVE  World' /\ \A r \in Starts : StaysStored(r) /\ KeepsPart(r)
<1>0. s \in Starts /\ given \in [Starts -> SUBSET Titles] /\ IsFiniteSet(DOMAIN shelf)
  BY DEF World, Rows
<1>1. CASE Retitles(k, s)
  <2>1. PICK t \in Titles : t = calls[k].title
    BY <1>1 DEF Granted, Retitles, CallOf, IsCall
  <2>2. /\ shelf' = [shelf EXCEPT ![s].title = t]
        /\ given' = [given EXCEPT ![s] = @ \union {t}]
    BY <1>1, <2>1 DEF Retitles, Store!Retitle
  <2>3. /\ DOMAIN shelf' = DOMAIN shelf
        /\ \A r \in DOMAIN shelf : r # s => shelf'[r] = shelf[r]
        /\ shelf[s] \in RowType /\ shelf'[s] = [shelf[s] EXCEPT !.title = t]
    BY <2>2 DEF World, Rows
  <2>4. shelf'[s] \in RowType /\ shelf'[s].outcome = shelf[s].outcome /\ shelf'[s].title = t
    BY <2>3 DEF RowType
  <2>5. /\ given' \in [Starts -> SUBSET Titles] /\ given'[s] = given[s] \union {t}
        /\ \A r \in Starts : r # s => given'[r] = given[r]
    BY <1>0, <2>2
  <2>6. Rows'
    BY <1>0, <2>3, <2>4, <2>5 DEF World, Rows, RowType
  <2>7. \A r \in DOMAIN shelf' : shelf'[r].outcome = shelf[r].outcome
    BY <2>3, <2>4
  <2>8. Streams'
    BY <2>3, <2>7 DEF World, Streams, StreamOf, StreamType
  <2>9. \A r \in Starts : StaysStored(r) /\ KeepsPart(r)
    BY <2>3, <2>5, <2>7 DEF StaysStored, KeepsPart
  <2>10. QED
    BY <2>6, <2>8, <2>9 DEF World
<1>2. CASE Store!Remove(s) /\ UNCHANGED given
  <2>1. DOMAIN shelf' = DOMAIN shelf \ {s} /\ \A r \in DOMAIN shelf' : shelf'[r] = shelf[r]
    BY <1>2 DEF Store!Remove
  <2>2. IsFiniteSet(DOMAIN shelf')
    BY <1>0, <2>1, FS_Subset
  <2>3. Rows'
    BY <1>2, <2>1, <2>2 DEF World, Rows, RowType
  <2>4. QED
    BY <1>2, <2>1, <2>3 DEF World, Streams, StreamOf, StreamType, StaysStored, KeepsPart
<1>3. QED
  BY <1>1, <1>2 DEF Granted

\* A run that is stored.
LEMMA WorldPut ==
  ASSUME World, NEW s \in Starts, NEW o \in {"success", "failed"}, Store!Put(s, o), UNCHANGED given,
         stream' = [stream EXCEPT ![s] = stream'[s]], StreamOf(s)',
         stream[s].exec = "running", stream'[s].exec = "stored",
         stream'[s].link # "none", KeepsPart(s)
  PROVE  World' /\ \A r \in Starts : StaysStored(r) /\ KeepsPart(r)
<1>1. DOMAIN stream = Starts /\ DOMAIN stream' = Starts
  BY DEF World, Streams
<1>2. \A r \in Starts \ {s} : stream'[r] = stream[r]
  BY <1>1
<1>3. stream' = [r \in Starts |-> stream'[r]]
  BY <1>1
<1>4. /\ DOMAIN shelf' = DOMAIN shelf \union {s}
      /\ shelf'[s] = [outcome |-> o, title |-> NoTitle]
      /\ \A r \in DOMAIN shelf \ {s} : shelf'[r] = shelf[r]
  BY DEF Store!Put
<1>5. IsFiniteSet(DOMAIN shelf')
  BY <1>4, FS_AddElement DEF World, Rows
<1>6. Rows'
  BY <1>2, <1>4, <1>5 DEF World, Rows, RowType
<1>7. \A r \in Starts \ {s} : StreamOf(r)'
  BY <1>2, <1>4 DEF World, Streams, StreamOf, StreamType
<1>8. \A r \in Starts : StaysStored(r) /\ KeepsPart(r)
  BY <1>2, <1>4 DEF StaysStored, KeepsPart
<1>9. QED
  BY <1>3, <1>6, <1>7, <1>8 DEF World, Streams

\* The steps of a run's stream in the browser, as far as its first await and after.
LEMMA WorldBrowses ==
  ASSUME Logins, World, NEW s \in Starts, UNCHANGED <<shelf, given>>,
         RunStart(s) \/ Settle(s) \/ SettleError(s) \/ SettleRefused(s) \/ Cut(s)
  PROVE  World' /\ \A r \in Starts : StaysStored(r) /\ KeepsPart(r)
<1>1. stream[s] \in StreamType(s) /\ StreamOf(s) /\ DOMAIN stream = Starts
  BY DEF World, Streams, StreamOf
<1>2. \E v : stream' = [stream EXCEPT ![s] = v]
  <2>1. CASE RunStart(s)
    BY <1>1, <2>1 DEF RunStart, StreamType
  <2>2. CASE Settle(s) \/ SettleError(s) \/ SettleRefused(s) \/ Cut(s)
    BY <2>2 DEF Settle, SettleError, SettleRefused, Cut, Become
  <2>3. QED
    BY <2>1, <2>2
<1>3. stream' = [stream EXCEPT ![s] = stream'[s]]
  BY <1>1, <1>2
<1> DEFINE Fine == /\ StreamOf(s)' /\ (stream[s].exec = "stored" => stream'[s].exec = "stored")
                   /\ (stream[s].link # "none" => stream'[s].link # "none")
                   /\ KeepsPart(s)
<1>4. CASE RunStart(s)
  <2>1. stream'[s] = [stream[s] EXCEPT !.link = "asking", !.token = cookie]
    BY <1>1, <1>4 DEF RunStart
  <2>2. cookie \in Nat
    BY DEF Logins
  <2>3. /\ stream'[s] \in StreamType(s) /\ stream'[s].exec = stream[s].exec
        /\ stream'[s].link = "asking" /\ stream'[s].got = stream[s].got
        /\ stream'[s].last = stream[s].last /\ stream[s].link = "none"
    BY <1>1, <1>4, <2>1, <2>2 DEF RunStart, StreamType, Links
  <2>4. Fine
    BY <1>1, <2>3 DEF StreamOf, StreamType, KeepsPart, Reading
  <2>5. QED
    BY <1>3, <2>4, OneStream
<1>5. ASSUME NEW e \in Execs, NEW l \in {"settled", "signedout", "cut"}, Become(s, e, l),
             e # "none" => l # "signedout", stream[s].exec = "stored" => e = "stored"
      PROVE  Fine
  <2>1. stream'[s] = Stream(e, l)
    BY <1>1, <1>5 DEF Become
  <2>2. Len(Script[s]) \in Nat
    BY ChatAssumption
  <2>3. Stream(e, l) \in StreamType(s)
    BY <1>5, <2>2 DEF Stream, StreamType, Links, Lasts, NoToken
  <2>4. QED
    BY <1>5, <2>1, <2>3 DEF StreamOf, Stream, KeepsPart, Reading
<1>6. CASE Settle(s) \/ SettleError(s)
  <2>1. Become(s, stream[s].exec, "settled") /\ stream[s].exec \in Execs
    BY <1>1, <1>6 DEF Settle, SettleError, StreamType
  <2>2. QED
    BY <1>3, <1>5, <2>1, OneStream
<1>7. CASE SettleRefused(s)
  <2>1. Become(s, "none", "signedout") /\ stream[s].exec = "none"
    BY <1>1, <1>7 DEF SettleRefused, StreamOf
  <2>2. QED
    BY <1>3, <1>5, <2>1, OneStream DEF Execs
<1>8. CASE Cut(s)
  <2>1. \/ Become(s, stream[s].exec, "cut") /\ stream[s].exec \in Execs
        \/ Become(s, "gone", "cut") /\ stream[s].exec = "running"
    BY <1>1, <1>8 DEF Cut, StreamType
  <2>2. QED
    BY <1>3, <1>5, <2>1, OneStream DEF Execs
<1>9. QED
  BY <1>4, <1>6, <1>7, <1>8

\* The record is the result of the run, once all its events were read.
LEMMA WorldCompletes ==
  ASSUME World, NEW s \in Starts, UNCHANGED <<shelf, given>>, ReceiveCompleted(s)
  PROVE  /\ World' /\ \A r \in Starts : StaysStored(r) /\ (r # s => KeepsPart(r))
         /\ stream'[s].exec = "stored" /\ stream'[s].last = "result"
<1>1. stream[s] \in StreamType(s) /\ StreamOf(s) /\ DOMAIN stream = Starts
  BY DEF World, Streams, StreamOf
<1>2. stream' = [stream EXCEPT ![s] = stream'[s]]
      /\ stream'[s] = [stream[s] EXCEPT !.last = "result"]
  BY <1>1 DEF ReceiveCompleted
<1>3. /\ stream'[s] \in StreamType(s) /\ stream'[s].exec = stream[s].exec
      /\ stream'[s].link = stream[s].link /\ stream'[s].got = stream[s].got
      /\ stream'[s].last = "result" /\ stream[s].last = "run.completed"
      /\ stream[s].got = Len(Script[s])
  BY <1>1, <1>2 DEF ReceiveCompleted, StreamType, Lasts, AllRead
<1>4. StreamOf(s)' /\ stream'[s].exec = "stored"
  BY <1>1, <1>3 DEF StreamOf, StreamType
<1>5. QED
  BY <1>2, <1>3, <1>4, OneStream

\* The browser reads one more event.
LEMMA WorldReads ==
  ASSUME World, NEW s \in Starts, UNCHANGED <<shelf, given>>, Receive(s)
  PROVE  /\ World' /\ \A r \in Starts : StaysStored(r) /\ (r # s => KeepsPart(r))
         /\ stream[s].got \in 0..(Len(Script[s]) - 1) /\ stream'[s].got = stream[s].got + 1
         /\ stream'[s].last = stream[s].last /\ stream[s].last # "result"
<1>1. stream[s] \in StreamType(s) /\ StreamOf(s) /\ DOMAIN stream = Starts
  BY DEF World, Streams, StreamOf
<1>2. stream' = [stream EXCEPT ![s] = stream'[s]]
      /\ stream'[s] = [stream[s] EXCEPT !.got = stream[s].got + 1]
  BY <1>1 DEF Receive
<1>3. stream[s].got \in 0..(Len(Script[s]) - 1)
  BY <1>1, ChatAssumption DEF Receive, AllRead, StreamType
<1>4. /\ stream'[s] \in StreamType(s) /\ stream'[s].exec = stream[s].exec
      /\ stream'[s].link = stream[s].link /\ stream'[s].got = stream[s].got + 1
      /\ stream'[s].last = stream[s].last /\ stream[s].link \in {"open", "ended"}
  BY <1>1, <1>2, <1>3, ChatAssumption DEF StreamType, Receive
<1>5. stream[s].last # "result"
  BY <1>1 DEF StreamOf, Receive, AllRead
<1>6. StreamOf(s)'
  BY <1>1, <1>4, <1>5 DEF StreamOf, StreamType
<1>7. QED
  BY <1>2, <1>3, <1>4, <1>5, <1>6, OneStream

\* What Over makes of a stream whose execution was running.
LEMMA OverOne ==
  ASSUME World, NEW s \in Starts, NEW e \in {"stored", "gone"},
         NEW l \in {"none", "run.completed", "run.failed"},
         stream[s].exec = "running", Over(s, e, l)
  PROVE  /\ stream' = [stream EXCEPT ![s] = stream'[s]]
         /\ stream'[s] \in StreamType(s) /\ stream'[s].exec = e
         /\ stream'[s].link # "none" /\ KeepsPart(s)
         /\ stream'[s].link \notin {"open", "ended"} => stream'[s].got = 0
         /\ stream'[s].link # "ended" => stream'[s].last = "none"
         /\ stream'[s].link \notin {"none", "asking", "refused", "signedout"}
         /\ stream'[s].last = "run.completed" => l = "run.completed"
         /\ stream'[s].last # "result"
<1>1. stream[s] \in StreamType(s) /\ StreamOf(s) /\ DOMAIN stream = Starts
  BY DEF World, Streams, StreamOf
<1>2. Len(Script[s]) \in Nat
  BY ChatAssumption
<1>3. CASE stream[s].link # "open"
  <2>1. stream' = [stream EXCEPT ![s].exec = e]
    BY <1>3 DEF Over
  <2>2. stream'[s] = [stream[s] EXCEPT !.exec = e]
    BY <1>1, <2>1
  <2>3. /\ stream'[s] \in StreamType(s) /\ stream'[s].exec = e
        /\ stream'[s].link = stream[s].link /\ stream'[s].got = stream[s].got
        /\ stream'[s].last = stream[s].last
    BY <1>1, <2>2 DEF StreamType, Execs
  <2>4. QED
    BY <1>1, <2>1, <2>3 DEF StreamOf, StreamType, Links, KeepsPart, Reading
<1>4. CASE stream[s].link = "open" /\ l = "none"
  <2>1. Become(s, e, "cut")
    BY <1>4 DEF Over
  <2>2. stream'[s] = Stream(e, "cut")
    BY <1>1, <2>1 DEF Become
  <2>3. stream'[s] \in StreamType(s)
    BY <1>2, <2>2 DEF Stream, StreamType, Execs, Links, Lasts, NoToken
  <2>4. QED
    BY <1>1, <2>1, <2>2, <2>3 DEF Become, Stream, KeepsPart, Reading
<1>5. CASE stream[s].link = "open" /\ l # "none"
  <2>1. stream' = [stream EXCEPT ![s].exec = e, ![s].link = "ended", ![s].last = l]
    BY <1>5 DEF Over
  <2>2. stream'[s] = [stream[s] EXCEPT !.exec = e, !.link = "ended", !.last = l]
    BY <1>1, <2>1
  <2>3. /\ stream'[s] \in StreamType(s) /\ stream'[s].exec = e
        /\ stream'[s].link = "ended" /\ stream'[s].got = stream[s].got /\ stream'[s].last = l
    BY <1>1, <2>2 DEF StreamType, Execs, Links, Lasts
  <2>4. stream' = [stream EXCEPT ![s] = stream'[s]]
    BY <1>1, <2>1
  <2>5. stream[s].last # "result"
    BY <1>1 DEF StreamOf
  <2>6. QED
    BY <1>5, <2>3, <2>4, <2>5 DEF KeepsPart, Reading
<1>6. QED
  BY <1>3, <1>4, <1>5

\* The steps of the server for a run.
LEMMA WorldServes ==
  ASSUME World, NEW s \in Starts, Server(s)
  PROVE  World' /\ \A r \in Starts : StaysStored(r) /\ KeepsPart(r)
<1>1. stream[s] \in StreamType(s) /\ StreamOf(s) /\ DOMAIN stream = Starts
  BY DEF World, Streams, StreamOf
<1>2. Len(Script[s]) \in Nat
  BY ChatAssumption
<1>3. ASSUME NEW e \in {"none", "running"}, NEW l \in {"open", "refused", "cut"},
             Become(s, e, l), UNCHANGED <<shelf, given>>, stream[s].link = "asking",
             l = "refused" => e = "none"
      PROVE  World' /\ \A r \in Starts : StaysStored(r) /\ KeepsPart(r)
  <2>1. stream'[s] = Stream(e, l) /\ stream' = [stream EXCEPT ![s] = stream'[s]]
    BY <1>1, <1>3 DEF Become
  <2>2. stream'[s] \in StreamType(s)
    BY <1>2, <2>1 DEF Stream, StreamType, Execs, Links, Lasts, NoToken
  <2>3. StreamOf(s)' /\ stream'[s].link # "none" /\ stream[s].exec # "stored" /\ KeepsPart(s)
    BY <1>1, <1>3, <2>1, <2>2 DEF StreamOf, Stream, KeepsPart, Reading
  <2>4. QED
    BY <1>3, <2>1, <2>3, OneStream
<1>4. CASE Accept(s)
  <2>1. stream[s].link = "asking" /\ UNCHANGED <<shelf, given>>
        /\ (Become(s, "running", "open") \/ Become(s, "none", "refused"))
    BY <1>4 DEF Accept, shelves
  <2>2. QED
    BY <1>3, <2>1
<1>5. CASE Reject(s)
  <2>1. stream[s].link = "asking" /\ UNCHANGED <<shelf, given>> /\ Become(s, "none", "cut")
    BY <1>5 DEF Reject, shelves
  <2>2. QED
    BY <1>3, <2>1
<1>6. ASSUME NEW o \in {"success", "failed"}, Store!Put(s, o), UNCHANGED given, stream[s].exec = "running",
             NEW l \in {"none", "run.completed", "run.failed"}, Over(s, "stored", l),
             l = "run.completed" => o = "success"
      PROVE  World' /\ \A r \in Starts : StaysStored(r) /\ KeepsPart(r)
  <2>1. shelf'[s].outcome = o
    BY <1>6 DEF Store!Put
  <2>2. StreamOf(s)'
    BY <1>6, <2>1, OverOne DEF StreamOf
  <2>3. /\ stream' = [stream EXCEPT ![s] = stream'[s]] /\ stream'[s].exec = "stored"
        /\ stream'[s].link # "none" /\ KeepsPart(s)
    BY <1>6, OverOne
  <2>4. QED
    BY <1>6, <2>2, <2>3, WorldPut
<1>7. CASE Complete(s)
  <2>1. /\ stream[s].exec = "running" /\ Store!Put(s, "success") /\ UNCHANGED given
        /\ Over(s, "stored", "run.completed")
    BY <1>7 DEF Complete
  <2>2. QED
    BY <1>6, <2>1
<1>8. CASE Fail(s)
  <2>1. CASE Over(s, "gone", "none") /\ UNCHANGED shelf
    <3>1. stream[s].exec = "running" /\ UNCHANGED given
      BY <1>8 DEF Fail
    <3>2. StreamOf(s)' /\ KeepsPart(s) /\ stream'[s].link # "none"
          /\ stream' = [stream EXCEPT ![s] = stream'[s]]
      BY <2>1, <3>1, OverOne DEF StreamOf
    <3>3. QED
      BY <2>1, <3>1, <3>2, OneStream
  <2>2. CASE Store!Put(s, "failed") /\ Over(s, "stored", "run.failed")
    BY <1>6, <1>8, <2>2 DEF Fail
  <2>3. CASE \E o \in {"success", "failed"} : Store!Put(s, o) /\ Over(s, "stored", "none")
    BY <1>6, <1>8, <2>3 DEF Fail
  <2>4. QED
    BY <1>8, <2>1, <2>2, <2>3 DEF Fail
<1>9. QED
  BY <1>4, <1>5, <1>7, <1>8 DEF Server

\* A restart of the server ends what was running.
LEMMA WorldRestarts ==
  ASSUME World, Restart
  PROVE  World' /\ \A r \in Starts : StaysStored(r) /\ KeepsPart(r)
<1> DEFINE after(s) == IF stream[s].exec = "running" THEN "gone" ELSE stream[s].exec
<1>1. /\ stream' = [s \in Starts |-> IF stream[s].link \in {"asking", "open"}
                                       THEN Stream(after(s), "cut")
                                       ELSE [stream[s] EXCEPT !.exec = after(s)]]
      /\ UNCHANGED <<shelf, given>>
  BY DEF Restart
<1>2. ASSUME NEW s \in Starts PROVE StreamOf(s)' /\ StaysStored(s) /\ KeepsPart(s)
  <2>1. stream[s] \in StreamType(s) /\ StreamOf(s) /\ Len(Script[s]) \in Nat
    BY ChatAssumption DEF World, Streams, StreamOf
  <2>2. /\ after(s) \in Execs /\ (stream[s].exec = "stored" <=> after(s) = "stored")
        /\ stream[s].exec = "none" <=> after(s) = "none"
    BY <2>1 DEF StreamType, Execs
  <2> HIDE DEF after
  <2>3. CASE stream[s].link \in {"asking", "open"}
    <3>1. stream'[s] = Stream(after(s), "cut")
      BY <1>1, <2>3
    <3>2. stream'[s] \in StreamType(s)
      BY <2>1, <2>2, <3>1 DEF Stream, StreamType, Links, Lasts, NoToken
    <3>3. QED
      BY <1>1, <2>1, <2>2, <2>3, <3>1, <3>2 DEF StreamOf, Stream, KeepsPart, StaysStored, Reading
  <2>4. CASE stream[s].link \notin {"asking", "open"}
    <3>1. stream'[s] = [stream[s] EXCEPT !.exec = after(s)]
      BY <1>1, <2>4
    <3>2. /\ stream'[s] \in StreamType(s) /\ stream'[s].exec = after(s)
          /\ stream'[s].link = stream[s].link /\ stream'[s].got = stream[s].got
          /\ stream'[s].last = stream[s].last
      BY <2>1, <2>2, <3>1 DEF StreamType
    <3>3. QED
      BY <1>1, <2>1, <2>2, <3>2 DEF StreamOf, KeepsPart, StaysStored, Reading
  <2>5. QED
    BY <2>3, <2>4
<1>3. Streams'
  BY <1>1, <1>2 DEF Streams
<1>4. \A s \in Starts : stream[s].exec = "stored" => stream'[s].exec = "stored"
  BY <1>2 DEF StaysStored
<1>5. Rows'
  BY <1>1, <1>4 DEF World, Rows, RowType
<1>6. QED
  BY <1>2, <1>3, <1>5 DEF World

\* What every step does to the streams and the history.
LEMMA WorldStep ==
  ASSUME Logins, World, Calls, [Next]_vars
  PROVE  World' /\ \A r \in Starts : /\ StaysStored(r)
                                     /\ KeepsPart(r) \/ Receive(r) \/ ReceiveCompleted(r)
<1>1. CASE UNCHANGED <<stream, shelf, given>>
  BY <1>1, WorldKept
<1>2. ASSUME NEW s \in Starts, RunStart(s)
      PROVE  World' /\ \A r \in Starts : StaysStored(r) /\ KeepsPart(r)
  BY <1>2, WorldBrowses DEF RunStart, shelves
<1>3. CASE User
  <2>1. (\E s \in Starts : RunStart(s)) \/ UNCHANGED <<stream, shelf, given>>
    BY <1>3 DEF User, Login, Logout, Submit, Navigate, SelectChat, Rename, Delete, shelves
  <2>2. QED
    BY <1>1, <1>2, <2>1
<1>4. CASE Faulty
  <2>1. ASSUME NEW s \in Starts, Cut(s)
        PROVE  World' /\ \A r \in Starts : StaysStored(r) /\ KeepsPart(r)
    BY <2>1, WorldBrowses DEF Cut
  <2>2. CASE Restart
    BY <2>2, WorldRestarts
  <2>3. CASE SessionExpires \/ \E k \in Slots : Lose(k)
    BY <1>1, <2>3 DEF SessionExpires, Lose, shelves
  <2>4. QED
    BY <1>4, <2>1, <2>2, <2>3 DEF Faulty
<1>5. ASSUME NEW k \in Slots, Serve(k)
      PROVE  World' /\ \A r \in Starts : StaysStored(r) /\ KeepsPart(r)
  <2>1. UNCHANGED stream /\ CallOf(k)
    BY <1>5 DEF Serve, Calls
  <2>2. UNCHANGED <<shelf, given>> \/ \E s \in DOMAIN shelf : Granted(k, s)
    BY <1>5, ServeShelves DEF shelves
  <2>3. QED
    BY <2>1, <2>2, WorldKept, WorldServed
<1>6. ASSUME NEW k \in Slots, React(k) PROVE UNCHANGED <<stream, shelf, given>>
  BY <1>6 DEF React, shelves
<1>7. ASSUME NEW s \in Starts, Server(s)
      PROVE  World' /\ \A r \in Starts : StaysStored(r) /\ KeepsPart(r)
  BY <1>7, WorldServes
<1>8. ASSUME NEW s \in Starts, Browser(s)
      PROVE  World' /\ \A r \in Starts : /\ StaysStored(r)
                                         /\ KeepsPart(r) \/ Receive(r) \/ ReceiveCompleted(r)
  <2>1. UNCHANGED <<shelf, given>>
    BY <1>8 DEF Browser, shelves
  <2>2. CASE Receive(s)
    BY <2>1, <2>2, WorldReads
  <2>3. CASE ReceiveCompleted(s)
    BY <2>1, <2>3, WorldCompletes
  <2>4. CASE Settle(s) \/ SettleError(s) \/ SettleRefused(s)
    BY <2>1, <2>4, WorldBrowses
  <2>5. QED
    BY <1>8, <2>2, <2>3, <2>4 DEF Browser
<1>9. QED
  BY <1>1, <1>3, <1>4, <1>5, <1>6, <1>7, <1>8 DEF Next, vars, shelves


--------------------------------------------------------------------------------
\* A call and its answer stay right while the history goes on.
LEMMA CallStays ==
  ASSUME \A r \in Starts : StaysStored(r), NEW k, CallOf(k), calls'[k] = calls[k]
  PROVE  CallOf(k)'
<1> SUFFICES ASSUME calls[k] # NoCall PROVE CallOf(k)'
  BY DEF CallOf
<1> DEFINE c == calls[k]
<1>1. \A r \in c.runs : Known(r.run, r.outcome, r.title)'
  BY KnownStays DEF CallOf
<1>2. ASSUME NEW s \in Starts, Titled(s, c.title) PROVE Titled(s, c.title)'
  BY <1>2 DEF Titled, StaysStored
<1>3. c.op = "rename" /\ c.answer = "200" =>
        \E s \in Starts : c.id = RunId(s) /\ Titled(s, c.title)'
  BY <1>2 DEF CallOf
<1>4. QED
  BY <1>1, <1>3 DEF CallOf

\* Calls as every step changes them: those it does not change stay right.
LEMMA CallsOf ==
  ASSUME Calls, \A r \in Starts : StaysStored(r),
         calls' = [k \in Slots |-> calls'[k]],
         \A k \in Slots : calls'[k] = calls[k] \/ CallOf(k)'
  PROVE  Calls'
BY CallStays DEF Calls

\* A request as it is sent.
Fresh(q) == IsCall(q) /\ q.answer = "none" /\ q.runs = {}

LEMMA RequestsAreFresh ==
  /\ \A op \in Ops \ {"rename"} : \A id, token : Fresh(Request(op, id, token))
  /\ \A t \in Titles : \A id : Fresh(RenameTo(id, t))
<1>1. ASSUME NEW op \in Ops \ {"rename"}, NEW id, NEW token PROVE Fresh(Request(op, id, token))
  BY DEF Fresh, IsCall, Request, Answers
<1>2. ASSUME NEW id, NEW t \in Titles PROVE Fresh(RenameTo(id, t))
  BY DEF Fresh, IsCall, RenameTo, Request, Answers, Ops
<1>3. QED
  BY <1>1, <1>2

LEMMA Requested ==
  ASSUME Calls, \A r \in Starts : StaysStored(r), NEW q, Fresh(q), NEW k,
         calls' = [calls EXCEPT ![k] = q]
  PROVE  Calls'
<1>1. DOMAIN calls = Slots
  BY DEF Calls
<1>2. calls' = [j \in Slots |-> calls'[j]] /\ \A j \in Slots \ {k} : calls'[j] = calls[j]
  BY <1>1
<1>3. ASSUME k \in Slots PROVE CallOf(k)'
  <2>1. calls'[k] = q
    BY <1>1, <1>3
  <2>2. IsFiniteSet({})
    BY FS_EmptySet
  <2>3. QED
    BY <2>1, <2>2 DEF CallOf, Fresh, IsCall
<1>4. QED
  BY <1>2, <1>3, CallsOf

\* A request that takes a free slot.
LEMMA Sent ==
  ASSUME Calls, \A r \in Starts : StaysStored(r), NEW q, Fresh(q), Send(q)
  PROVE  Calls'
BY Requested DEF Send

\* A call that is over.
LEMMA Dropped ==
  ASSUME Calls, \A r \in Starts : StaysStored(r), NEW k \in Slots, Drop(k)
  PROVE  Calls'
<1>1. DOMAIN calls = Slots /\ calls' = [calls EXCEPT ![k] = NoCall]
  BY DEF Calls, Drop
<1>2. /\ calls' = [j \in Slots |-> calls'[j]] /\ \A j \in Slots \ {k} : calls'[j] = calls[j]
      /\ calls'[k] = NoCall
  BY <1>1
<1>3. CallOf(k)'
  BY <1>2 DEF CallOf
<1>4. QED
  BY <1>2, <1>3, CallsOf

\* An answer that says nothing of the history.
LEMMA AnsweredOf ==
  ASSUME \A r \in Starts : StaysStored(r), NEW k \in Slots, CallOf(k), calls[k] # NoCall,
         NEW a \in Answers, calls'[k] = [calls[k] EXCEPT !.answer = a],
         calls[k].op = "rename" /\ a = "200" =>
           \E s \in Starts : calls[k].id = RunId(s) /\ Titled(s, calls[k].title)'
  PROVE  CallOf(k)'
<1> DEFINE c == calls[k]
<1>1. IsCall(c)
  BY DEF CallOf
<1>2. /\ calls'[k] = [op |-> c.op, id |-> c.id, token |-> c.token, answer |-> a,
                     runs |-> c.runs, title |-> c.title, current |-> c.current]
      /\ IsCall(calls'[k])
  BY <1>1 DEF IsCall
<1>3. \A r \in c.runs : Known(r.run, r.outcome, r.title)'
  BY KnownStays DEF CallOf
<1>4. IsFiniteSet(c.runs)
  BY DEF CallOf
<1>5. QED
  BY <1>2, <1>3, <1>4 DEF CallOf

\* An answer that says nothing of the history, and the calls it leaves alone.
LEMMA Answered ==
  ASSUME Calls, \A r \in Starts : StaysStored(r), NEW k \in Slots, calls[k] # NoCall,
         NEW a \in Answers, Answer(k, a),
         calls[k].op = "rename" /\ a = "200" =>
           \E s \in Starts : calls[k].id = RunId(s) /\ Titled(s, calls[k].title)'
  PROVE  Calls'
<1>1. DOMAIN calls = Slots /\ calls' = [calls EXCEPT ![k].answer = a] /\ CallOf(k)
  BY DEF Calls, Answer
<1>2. /\ calls' = [j \in Slots |-> calls'[j]] /\ \A j \in Slots \ {k} : calls'[j] = calls[j]
      /\ calls'[k] = [calls[k] EXCEPT !.answer = a]
  BY <1>1
<1>3. CallOf(k)'
  BY <1>1, <1>2, AnsweredOf
<1>4. QED
  BY <1>2, <1>3, CallsOf

\* The history is finite, and what it answers is known.
LEMMA Listed ==
  ASSUME Rows
  PROVE  IsFiniteSet(History) /\ \A r \in History : Known(r.run, r.outcome, r.title)
<1> DEFINE row(s) == [run |-> s, outcome |-> shelf[s].outcome, title |-> shelf[s].title]
           f == [s \in DOMAIN shelf |-> row(s)]
<1>1. f \in Surjection(DOMAIN shelf, History)
  BY DEF Surjection, History
<1>2. IsFiniteSet(History)
  <2> HIDE DEF f
  <2>1. QED
    BY <1>1, FS_Surjection DEF Rows
<1>3. ASSUME NEW s \in DOMAIN shelf PROVE Known(s, shelf[s].outcome, shelf[s].title)
  BY DEF Rows, Known
<1>4. \A r \in History : Known(r.run, r.outcome, r.title)
  BY <1>3 DEF History
<1>5. QED
  BY <1>2, <1>4

\* What every step does to the calls.
LEMMA CallsStep ==
  ASSUME Logins, World, Calls, [Next]_vars
  PROVE  Calls'
<1>0. /\ Rows /\ Rows' /\ \A r \in Starts : StaysStored(r)
  BY WorldStep DEF World
<1>1. ASSUME UNCHANGED calls PROVE Calls'
  <2>1. calls' = [k \in Slots |-> calls'[k]] /\ \A k \in Slots : calls'[k] = calls[k]
    BY <1>1 DEF Calls
  <2>2. QED
    BY <1>0, <2>1, CallsOf
<1>2. ASSUME NEW op \in Ops \ {"rename"}, NEW id, NEW token, Send(Request(op, id, token))
      PROVE  Calls'
  BY <1>0, <1>2, Sent, RequestsAreFresh
<1>3. CASE User
  <2>1. CASE Login
    BY <1>2, <2>1 DEF Login, Ops
  <2>2. CASE Logout
    BY <1>2, <2>2 DEF Logout, Ops
  <2>3. ASSUME NEW id, SelectChat(id) \/ Delete(id) PROVE Calls'
    BY <1>1, <1>2, <2>3 DEF SelectChat, Delete, Ops
  <2>6. ASSUME NEW id, NEW t \in Titles, Rename(id, t) PROVE Calls'
    <3>1. UNCHANGED calls \/ Send(RenameTo(id, t))
      BY <2>6 DEF Rename
    <3>2. PICK q : q = RenameTo(id, t) /\ Fresh(q)
      BY RequestsAreFresh
    <3>3. QED
      BY <1>0, <1>1, <3>1, <3>2, Sent
  <2>4. CASE Submit \/ Navigate \/ \E s \in Starts : RunStart(s)
    BY <1>1, <2>4 DEF Submit, Navigate, RunStart
  <2>5. QED
    BY <1>3, <2>1, <2>2, <2>3, <2>4, <2>6 DEF User
<1>4. CASE Faulty
  <2>1. ASSUME NEW k \in Slots, Lose(k) PROVE Calls'
    <3>1. calls[k] # NoCall /\ Answer(k, "lost") /\ "lost" \in Answers
      BY <2>1 DEF Lose, Answers
    <3>2. QED
      BY <1>0, <3>1, Answered
  <2>2. CASE Restart
    <3>1. calls' = [k \in Slots |-> IF Unanswered(k)
                                      THEN [calls[k] EXCEPT !.answer = "lost"] ELSE calls[k]]
      BY <2>2 DEF Restart
    <3>2. ASSUME NEW k \in Slots, calls'[k] # calls[k] PROVE CallOf(k)'
      <4>1. calls[k] # NoCall /\ calls'[k] = [calls[k] EXCEPT !.answer = "lost"]
        BY <3>1, <3>2 DEF Unanswered
      <4>2. CallOf(k) /\ "lost" \in Answers
        BY DEF Calls, Answers
      <4>3. QED
        BY <1>0, <4>1, <4>2, AnsweredOf
    <3>3. calls' = [k \in Slots |-> calls'[k]]
      BY <3>1
    <3>4. QED
      BY <1>0, <3>2, <3>3, CallsOf
  <2>3. CASE SessionExpires \/ \E s \in Starts : Cut(s)
    BY <1>1, <2>3 DEF SessionExpires, Cut
  <2>4. QED
    BY <1>4, <2>1, <2>2, <2>3 DEF Faulty
<1>5. ASSUME NEW k \in Slots, Serve(k) PROVE Calls'
  <2>1. calls[k] # NoCall /\ UNCHANGED stream /\ CallOf(k)
    BY <1>5 DEF Serve, Unanswered, Calls
  <2>2. ASSUME NEW a \in Answers \ {"200"}, Answer(k, a) PROVE Calls'
    BY <1>0, <2>1, <2>2, Answered
  <2>3. CASE ServeSession(k)
    BY <2>2, <2>3 DEF ServeSession, Answers
  <2>4. CASE ServeLogout(k) \/ Refuse(k) \/ Admit(k)
    BY <2>2, <2>4 DEF ServeLogout, Refuse, Admit, Answers
  <2>5. CASE ServeList(k)
    <3>1. /\ calls' = [calls EXCEPT ![k].answer = "200", ![k].runs = History]
          /\ UNCHANGED shelf /\ calls[k].op = "list"
      BY <2>5 DEF ServeList, shelves
    <3>2. DOMAIN calls = Slots
      BY DEF Calls
    <3>3. calls'[k] = [calls[k] EXCEPT !.answer = "200", !.runs = History]
      BY <3>1, <3>2
    <3>4. /\ IsFiniteSet(History)
          /\ \A r \in History : Known(r.run, r.outcome, r.title)'
      BY <1>0, Listed, KnownStays
    <3>5. CallOf(k)'
      <4> DEFINE c == calls[k]
      <4>1. IsCall(c)
        BY <2>1 DEF CallOf
      <4>2. calls'[k] = [op |-> c.op, id |-> c.id, token |-> c.token, answer |-> "200",
                        runs |-> History, title |-> c.title, current |-> c.current]
        BY <3>3, <4>1 DEF IsCall
      <4>3. \A r \in calls'[k].runs : Known(r.run, r.outcome, r.title)'
        BY <3>4, <4>2
      <4>4. /\ calls'[k].op = "list" /\ calls'[k].answer = "200" /\ calls'[k].runs = History
            /\ calls'[k].id = c.id /\ calls'[k].token = c.token
            /\ calls'[k].title = c.title /\ calls'[k].current = c.current
        BY <3>1, <4>2
      <4>5. calls'[k] = [op |-> calls'[k].op, id |-> calls'[k].id, token |-> calls'[k].token,
                        answer |-> calls'[k].answer, runs |-> calls'[k].runs,
                        title |-> calls'[k].title, current |-> calls'[k].current]
        BY <3>1, <4>2, <4>4
      <4>6. IsCall(calls'[k])
        BY <4>4, <4>5 DEF IsCall, Answers, Ops
      <4>7. QED
        BY <3>4, <4>3, <4>4, <4>6 DEF CallOf
    <3>6. calls' = [j \in Slots |-> calls'[j]] /\ \A j \in Slots \ {k} : calls'[j] = calls[j]
      BY <3>1, <3>2
    <3>7. QED
      BY <1>0, <3>5, <3>6, CallsOf
  <2>6. CASE ServeRename(k)
    <3>1. ASSUME NEW s \in DOMAIN shelf, calls[k].id = RunId(s), Answer(k, "200"),
                 given' = [given EXCEPT ![s] = @ \union {calls[k].title}]
          PROVE  Calls'
      <4>1. s \in Starts /\ stream[s].exec = "stored" /\ given \in [Starts -> SUBSET Titles]
        BY <1>0 DEF Rows
      <4>2. calls'[k].title = calls[k].title
        BY <2>1, <3>1 DEF Answer, Calls, CallOf, IsCall
      <4>3. calls'[k].title \in given'[s]
        BY <3>1, <4>1, <4>2
      <4>4. Titled(s, calls[k].title)'
        BY <2>1, <4>1, <4>3 DEF Titled
      <4>5. QED
        BY <1>0, <2>1, <3>1, <4>1, <4>4, Answered DEF Answers
    <3>2. QED
      BY <2>2, <2>6, <3>1 DEF ServeRename, Answers
  <2>7. CASE ServeDelete(k)
    BY <2>2, <2>7 DEF ServeDelete, Answers
  <2>8. QED
    BY <1>5, <2>3, <2>4, <2>5, <2>6, <2>7 DEF Serve, Handle
<1>6. ASSUME NEW k \in Slots, React(k) PROVE Calls'
  <2>1. ASSUME Drop(k) PROVE Calls'
    BY <1>0, <2>1, Dropped
  <2>2. CASE SessionAnswered(k)
    BY <1>0, <2>1, <2>2, Requested, RequestsAreFresh DEF SessionAnswered, Ops
  <2>3. QED
    BY <1>6, <2>1, <2>2 DEF React, LogoutAnswered, Unauthorised, ListAnswered, RenameAnswered,
                            DeleteAnswered
<1>7. ASSUME NEW s \in Starts, Server(s) \/ Browser(s) PROVE Calls'
  BY <1>1, <1>7 DEF Server, Browser
<1>8. QED
  BY <1>1, <1>3, <1>4, <1>5, <1>6, <1>7 DEF Next, vars

--------------------------------------------------------------------------------
\* What every step does to the sessions and to what is selected.
LEMMA SessionsStep ==
  ASSUME Logins, [Next]_vars
  PROVE  /\ issued' \in Nat /\ cookie' \in 0..issued' /\ DOMAIN sessions' \subseteq 1..issued'
         /\ sessions' \in [DOMAIN sessions' -> {"live", "expired"}]
<1> DEFINE Fine == /\ issued' \in Nat /\ cookie' \in 0..issued'
                   /\ DOMAIN sessions' \subseteq 1..issued'
                   /\ sessions' \in [DOMAIN sessions' -> {"live", "expired"}]
<1>1. CASE UNCHANGED <<sessions, issued>> /\ cookie' \in {cookie, NoToken}
  BY <1>1 DEF Logins, NoToken
<1>2. ASSUME NEW t, sessions' = Without(t) \/ UNCHANGED sessions, UNCHANGED <<issued, cookie>>
      PROVE  Fine
  BY <1>2 DEF Without, Logins
<1>3. CASE CreateSession
  BY <1>3 DEF CreateSession, Logins
<1>4. CASE Expire
  BY <1>4 DEF Expire, Logins
<1>5. CASE ForgetSessions /\ UNCHANGED <<issued, cookie>>
  BY <1>5 DEF ForgetSessions, Logins
<1>6. CASE User
  BY <1>1, <1>3, <1>6 DEF User, Login, Logout, Submit, Navigate, RunStart, SelectChat, Rename,
                          Delete, sessionVars
<1>7. CASE Faulty
  BY <1>1, <1>4, <1>5, <1>7 DEF Faulty, Lose, Cut, SessionExpires, Restart, sessionVars
<1>8. ASSUME NEW k \in Slots, Serve(k) PROVE Fine
  BY <1>2, <1>8 DEF Serve, Handle, ServeSession, ServeLogout, Refuse, Admit, GetSession, DeleteSession
<1>9. ASSUME NEW k \in Slots, React(k) PROVE Fine
  BY <1>1, <1>9 DEF React, SessionAnswered, LogoutAnswered, Unauthorised, ListAnswered,
                    RenameAnswered, DeleteAnswered
<1>10. ASSUME NEW s \in Starts, Server(s) \/ Browser(s) PROVE Fine
  BY <1>1, <1>2, <1>10 DEF Server, Browser, Accept, Reject, Complete, Fail, GetSession, sessionVars
<1>11. QED
  BY <1>1, <1>6, <1>7, <1>8, <1>9, <1>10 DEF Next, vars, sessionVars

\* The parts of Logins, one by one.
LEMMA LoginsStep ==
  ASSUME Logins, Talks, [Next]_vars
  PROVE  Logins'
<1> DEFINE Seen == /\ session' \in {"loading", "out", "in"}
                   /\ currentConversationId' \in Ids \union {NoId}
                   /\ moves' \in 0..MaxMoves
<1>0. /\ session \in {"loading", "out", "in"} /\ currentConversationId \in Ids \union {NoId}
      /\ moves \in 0..MaxMoves /\ MaxMoves \in Nat
      /\ \A i \in DOMAIN conversations : conversations[i].id \in Ids
  BY ChatAssumption DEF Logins, Talks, Shown, Conversed
<1>1. \A s \in Starts \union Asks : ChatId(s) \in Ids
  BY DEF Ids
<1>2. \A s \in Starts : RunId(s) \in Ids
  BY DEF Ids
<1> HIDE DEF Ids
<1>3. Move => moves' \in 0..MaxMoves
  BY <1>0 DEF Move
<1>4. ASSUME UNCHANGED <<session, currentConversationId, moves>> PROVE Seen
  BY <1>0, <1>4
<1>5. ASSUME User PROVE Seen
  <2>1. CASE Login \/ Navigate
    BY <1>0, <1>3, <2>1 DEF Login, Navigate
  <2>7. CASE Logout
    BY <1>0, <1>3, <2>7 DEF Logout, page
  <2>2. ASSUME NEW s \in Starts, RunStart(s) PROVE Seen
    BY <1>0, <1>1, <1>3, <2>2 DEF RunStart
  <2>3. CASE Submit
    <3>1. /\ UNCHANGED session /\ moves' \in 0..MaxMoves
          /\ \/ \E a \in Asks : currentConversationId' = ChatId(a)
             \/ UNCHANGED currentConversationId
      BY <1>3, <2>3 DEF Submit
    <3>2. QED
      BY <1>0, <1>1, <3>1
  <2>4. ASSUME NEW i \in DOMAIN conversations, SelectChat(conversations[i].id) PROVE Seen
    BY <1>0, <1>3, <2>4 DEF SelectChat
  <2>5. ASSUME NEW id, Delete(id) \/ \E t \in Titles : Rename(id, t) PROVE Seen
    BY <1>0, <1>3, <2>5 DEF Rename, Delete, Removed
  <2>6. QED
    BY <1>5, <2>1, <2>2, <2>3, <2>4, <2>5, <2>7 DEF User
<1>6. ASSUME Faulty PROVE Seen
  <2>1. Move /\ UNCHANGED page
    BY <1>6 DEF Faulty, Lose, Cut, SessionExpires, Restart
  <2>2. QED
    BY <1>0, <1>3, <2>1 DEF page
<1>7. ASSUME NEW k \in Slots, Serve(k) PROVE Seen
  BY <1>4, <1>7 DEF Serve, page
<1>8. ASSUME NEW k \in Slots, React(k) PROVE Seen
  BY <1>0, <1>8 DEF React, SessionAnswered, LogoutAnswered, Unauthorised, ListAnswered,
                    RenameAnswered, DeleteAnswered, Removed, SignOut
<1>9. ASSUME NEW s \in Starts, Server(s) PROVE Seen
  BY <1>4, <1>9 DEF Server, page
<1>10. ASSUME NEW s \in Starts, Browser(s) PROVE Seen
  BY <1>0, <1>2, <1>10 DEF Browser, Receive, ReceiveCompleted, Settle, SettleError,
                          SettleRefused, SignOut
<1>11. Seen
  BY <1>4, <1>5, <1>6, <1>7, <1>8, <1>9, <1>10 DEF Next, vars, page
<1>12. QED
  BY <1>11, SessionsStep DEF Logins

--------------------------------------------------------------------------------
\* Sequences by what they hold.

\* A sequence is one of its own members.
LEMMA SeqOfItsOwn ==
  ASSUME NEW S, NEW s \in Seq(S)
  PROVE  s \in Seq(ToSet(s))
<1>1. Len(s) \in Nat /\ DOMAIN s = 1..Len(s) /\ s = [i \in 1..Len(s) |-> s[i]]
  OBVIOUS
<1>2. \A i \in 1..Len(s) : s[i] \in ToSet(s)
  BY <1>1 DEF ToSet
<1>3. s \in [1..Len(s) -> ToSet(s)]
  BY <1>1, <1>2
<1>4. QED
  BY <1>1, <1>3

\* A concatenation has the members of both.
LEMMA ConcatHolds ==
  ASSUME NEW S, NEW T, NEW s \in Seq(S), NEW t \in Seq(T)
  PROVE  ToSet(s \o t) = ToSet(s) \union ToSet(t)
<1> DEFINE u == s \o t
<1>1. /\ u \in Seq(S \union T) /\ DOMAIN u = 1..(Len(s) + Len(t))
      /\ DOMAIN s = 1..Len(s) /\ DOMAIN t = 1..Len(t) /\ Len(s) \in Nat /\ Len(t) \in Nat
  OBVIOUS
<1>2. /\ \A i \in 1..Len(s) : u[i] = s[i]
      /\ \A i \in 1..Len(t) : u[Len(s) + i] = t[i]
  OBVIOUS
<1> HIDE DEF u
<1>3. ASSUME NEW x \in ToSet(u) PROVE x \in ToSet(s) \union ToSet(t)
  <2>1. PICK i \in 1..(Len(s) + Len(t)) : x = u[i]
    BY <1>1, <1>3 DEF ToSet
  <2>2. CASE i <= Len(s)
    BY <1>1, <1>2, <2>1, <2>2 DEF ToSet
  <2>3. CASE i > Len(s)
    <3>1. i - Len(s) \in 1..Len(t) /\ i = Len(s) + (i - Len(s))
      BY <1>1, <2>3
    <3>2. x = t[i - Len(s)]
      BY <1>2, <2>1, <3>1
    <3>3. QED
      BY <1>1, <3>1, <3>2 DEF ToSet
  <2>4. QED
    BY <1>1, <2>2, <2>3
<1>4. ASSUME NEW x \in ToSet(s) PROVE x \in ToSet(u)
  <2>1. PICK i \in 1..Len(s) : x = s[i]
    BY <1>1, <1>4 DEF ToSet
  <2>2. i \in DOMAIN u /\ x = u[i]
    BY <1>1, <1>2, <2>1
  <2>3. QED
    BY <2>2 DEF ToSet
<1>5. ASSUME NEW x \in ToSet(t) PROVE x \in ToSet(u)
  <2>1. PICK i \in 1..Len(t) : x = t[i]
    BY <1>1, <1>5 DEF ToSet
  <2>2. Len(s) + i \in DOMAIN u /\ x = u[Len(s) + i]
    BY <1>1, <1>2, <2>1
  <2>3. QED
    BY <2>2 DEF ToSet
<1>6. ToSet(u) = ToSet(s) \union ToSet(t)
  BY <1>3, <1>4, <1>5
<1>7. QED
  BY <1>1, <1>6 DEF u

\* What is picked has the members at those positions.
LEMMA PickedHolds ==
  ASSUME NEW S, NEW s \in Seq(S), NEW I
  PROVE  ToSet(Picked(s, I)) = {s[i] : i \in I \intersect DOMAIN s}
BY PickedRange DEF ToSet

\* A finite set in some order is a sequence of its members, all of them.
LEMMA SetToSeqHolds ==
  ASSUME NEW S, IsFiniteSet(S)
  PROVE  /\ SetToSeq(S) \in Seq(S)
         /\ ToSet(SetToSeq(S)) = S
<1> DEFINE n == Cardinality(S)
           f == SetToSeq(S)
<1>1. n \in Nat /\ ExistsBijection(1..n, S)
  BY FS_CardinalityType
<1>2. \E g \in [1..n -> S] : IsInjective(g)
  BY <1>1 DEF ExistsBijection, Bijection, Injection
<1>3. f \in [1..n -> S] /\ IsInjective(f)
  BY <1>2 DEF SetToSeq
<1> HIDE DEF f
<1>4. IsFiniteSet(1..n) /\ Cardinality(1..n) = n
  BY <1>1, FS_Interval
<1>5. f \in Injection(1..n, S)
  BY <1>3 DEF Injection
<1>6. f \in Surjection(1..n, S)
  BY <1>4, <1>5, FS_Injection
<1>7. ToSet(f) = S
  BY <1>3, <1>6 DEF Surjection, ToSet
<1>8. f \in Seq(S)
  BY <1>1, <1>3
<1>9. QED
  BY <1>7, <1>8 DEF f

--------------------------------------------------------------------------------
\* The conversations shown after each way in which a step changes them.

\* One in the place of each.
LEMMA Mapped ==
  ASSUME Talks, conversations' = [i \in DOMAIN conversations |-> conversations'[i]]
  PROVE  /\ conversations' \in Seq(Shown')
         /\ Shown' = {conversations'[i] : i \in DOMAIN conversations}
<1>1. DOMAIN conversations' = DOMAIN conversations
  OBVIOUS
<1>2. Shown' = {conversations'[i] : i \in DOMAIN conversations}
  BY <1>1 DEF Shown, ToSet
<1>3. Len(conversations) \in Nat /\ DOMAIN conversations = 1..Len(conversations)
  BY DEF Talks
<1>4. \A i \in 1..Len(conversations) : conversations'[i] \in Shown'
  BY <1>2, <1>3
<1>5. conversations' \in [1..Len(conversations) -> Shown']
  BY <1>3, <1>4
<1>6. QED
  BY <1>2, <1>3, <1>5

\* A new one before the others.
LEMMA Prepended ==
  ASSUME Talks, NEW c, conversations' = <<c>> \o conversations
  PROVE  conversations' \in Seq(Shown') /\ Shown' = {c} \union Shown
<1> DEFINE first == <<c>>
<1>1. first \in Seq({c}) /\ ToSet(first) = {c} /\ conversations' = first \o conversations
  BY DEF ToSet
<1>2. conversations \in Seq(Shown)
  BY DEF Talks
<1> HIDE DEF first
<1>3. ToSet(first \o conversations) = ToSet(first) \union ToSet(conversations)
  BY <1>1, <1>2, ConcatHolds
<1>4. Shown' = ToSet(first \o conversations)
  BY <1>1 DEF Shown
<1>5. Shown' = {c} \union Shown
  BY <1>1, <1>3, <1>4 DEF Shown
<1>6. conversations' \in Seq({c} \union Shown)
  BY <1>1, <1>2
<1>7. QED
  BY <1>5, <1>6

\* All but those of an id.
LEMMA Left ==
  ASSUME Talks, NEW id, conversations' = Remaining(id)
  PROVE  conversations' \in Seq(Shown') /\ Shown' = {c \in Shown : c.id # id}
<1> DEFINE I == {i \in DOMAIN conversations : conversations[i].id # id}
<1>1. conversations' = Picked(conversations, I) /\ conversations \in Seq(Shown)
  BY DEF Remaining, Talks
<1>2. conversations' \in Seq(Shown)
  BY <1>1, PickedElements
<1>3. conversations' \in Seq(Shown')
  BY <1>2, SeqOfItsOwn DEF Shown
<1>4. Shown' = {conversations[i] : i \in I \intersect DOMAIN conversations}
  BY <1>1, PickedHolds DEF Shown
<1>5. {conversations[i] : i \in I \intersect DOMAIN conversations} = {c \in Shown : c.id # id}
  BY DEF Shown, ToSet
<1>6. QED
  BY <1>3, <1>4, <1>5

\* The history, and before it those that wait for their answer.
LEMMA Hydrated ==
  ASSUME Talks, NEW runs, IsFiniteSet(runs), conversations' = Hydrate(runs)
  PROVE  /\ conversations' \in Seq(Shown')
         /\ Shown' = {c \in Shown : c.pending /\ c.id \notin {FromHistory(r).id : r \in runs}}
                       \union {FromHistory(r) : r \in runs}
<1> DEFINE hydrated == {FromHistory(r) : r \in runs}
           ids  == {FromHistory(r).id : r \in runs}
           kept == {i \in DOMAIN conversations :
                      conversations[i].pending /\ conversations[i].id \notin ids}
           left == Picked(conversations, kept)
<1>1. IsFiniteSet(hydrated)
  <2> DEFINE f == [r \in runs |-> FromHistory(r)]
  <2>1. f \in Surjection(runs, hydrated)
    BY DEF Surjection
  <2> HIDE DEF f, hydrated
  <2>2. QED
    BY <2>1, FS_Surjection
<1>2. {h.id : h \in hydrated} = ids
  OBVIOUS
<1>3. conversations' = left \o SetToSeq(hydrated)
  BY <1>2 DEF Hydrate
<1> HIDE DEF ids, hydrated
<1>4. SetToSeq(hydrated) \in Seq(hydrated)
      /\ ToSet(SetToSeq(hydrated)) = hydrated
  BY <1>1, SetToSeqHolds
<1>5. conversations \in Seq(Shown)
  BY DEF Talks
<1>6. left \in Seq(Shown)
      /\ ToSet(left) = {conversations[i] : i \in kept \intersect DOMAIN conversations}
  BY <1>5, PickedElements, PickedHolds
<1>7. ToSet(left) = {c \in Shown : c.pending /\ c.id \notin ids}
  BY <1>6 DEF Shown, ToSet
<1> HIDE DEF left
<1>8. ToSet(left \o SetToSeq(hydrated)) = ToSet(left) \union hydrated
  BY <1>4, <1>6, ConcatHolds
<1>12. left \o SetToSeq(hydrated) \in Seq(Shown \union hydrated)
  BY <1>4, <1>6
<1>11. Shown' = ToSet(left \o SetToSeq(hydrated))
  BY <1>3 DEF Shown
<1>9. conversations' \in Seq(Shown')
  BY <1>3, <1>11, <1>12, SeqOfItsOwn
<1>10. QED
  BY <1>7, <1>8, <1>9, <1>11 DEF ids, hydrated

--------------------------------------------------------------------------------
\* What a message shows of its run, event by event.

ShowsFor(f, s, m) ==
  f = [n \in 0..m |-> IF n = 0 THEN Blank ELSE Show(f[n - 1], Script[s][n])]

\* The recursion of ShownAfter has a solution.
LEMMA ShowsSolvable ==
  ASSUME NEW s, NEW m \in Nat
  PROVE  \E f : ShowsFor(f, s, m)
<1> DEFINE S == {n \in Nat : \E f : ShowsFor(f, s, n)}
<1>1. 0 \in S
  <2>1. ShowsFor([n \in 0..0 |-> Blank], s, 0)
    BY DEF ShowsFor
  <2>2. QED
    BY <2>1
<1>2. ASSUME NEW n \in Nat, n \in S PROVE n + 1 \in S
  <2>1. PICK f : ShowsFor(f, s, n)
    BY <1>2
  <2> DEFINE g == [k \in 0..(n + 1) |-> IF k <= n THEN f[k] ELSE Show(f[k - 1], Script[s][k])]
  <2>2. \A k \in 1..(n + 1) : g[k - 1] = f[k - 1]
    OBVIOUS
  <2>3. \A k \in 0..n : f[k] = IF k = 0 THEN Blank ELSE Show(f[k - 1], Script[s][k])
    BY <2>1 DEF ShowsFor
  <2>4. \A k \in 0..(n + 1) : g[k] = IF k = 0 THEN Blank ELSE Show(g[k - 1], Script[s][k])
    BY <2>2, <2>3
  <2>5. ShowsFor(g, s, n + 1)
    BY <2>4 DEF ShowsFor
  <2>6. QED
    BY <2>5
<1> HIDE DEF S
<1>3. 0..m \subseteq S
  BY <1>1, <1>2, Induction
<1>4. QED
  BY <1>3 DEF S

\* It starts blank, and each event adds to what was shown.
LEMMA ShownNext ==
  ASSUME NEW s \in Starts
  PROVE  /\ Len(Script[s]) \in Nat
         /\ ShownAfter(s)[0] = Blank
         /\ \A n \in 1..Len(Script[s]) :
              ShownAfter(s)[n] = Show(ShownAfter(s)[n - 1], Script[s][n])
<1> DEFINE m == Len(Script[s])
           f == CHOOSE f : ShowsFor(f, s, m)
<1>1. m \in Nat
  BY ChatAssumption
<1>2. ShownAfter(s) = f
  BY DEF ShownAfter, ShowsFor
<1>3. ShowsFor(f, s, m)
  BY <1>1, ShowsSolvable
<1> HIDE DEF f
<1>4. f = [n \in 0..m |-> IF n = 0 THEN Blank ELSE Show(f[n - 1], Script[s][n])]
  BY <1>3 DEF ShowsFor
<1>5. f[0] = Blank /\ \A n \in 1..m : f[n] = Show(f[n - 1], Script[s][n])
  BY <1>1, <1>4
<1>6. QED
  BY <1>1, <1>2, <1>5

--------------------------------------------------------------------------------
\* The conversations.

\* The ids of runs and of chats are different, and each is of one only.
LEMMA OwnIds ==
  /\ \A x, y : ChatId(x) # RunId(y)
  /\ \A x, y : ChatId(x) = ChatId(y) => x = y
  /\ \A x, y : RunId(x) = RunId(y) => x = y
BY DEF ChatId, RunId

\* A conversation that a step leaves alone stays right.
LEMMA ConversedStays ==
  ASSUME \A r \in Starts : StaysStored(r), NEW c, Conversed(c),
         \A s \in Starts : c.id = ChatId(s) /\ c.pending => KeepsPart(s)
  PROVE  Conversed(c)'
<1>1. ASSUME NEW s \in Starts, c.id = ChatId(s), c.pending
      PROVE  ShowsPart(s, c.shown)'
  <2>1. /\ KeepsPart(s) /\ StaysStored(s)
        /\ stream[s].link # "none" /\ ShowsPart(s, c.shown)
    BY <1>1 DEF Conversed
  <2>2. QED
    BY <2>1 DEF ShowsPart, KeepsPart, StaysStored
<1>2. ASSUME NEW s \in Starts, c.id = RunId(s)
      PROVE  Known(s, c.outcome, c.title)' /\ c.shown = FromRun(s, c.outcome)
  BY <1>2, KnownStays DEF Conversed
<1>3. ASSUME NEW s \in Starts, c.id = ChatId(s)
      PROVE  stream'[s].link # "none" /\ c.title = NoTitle
  BY <1>3 DEF Conversed, StaysStored
<1>4. QED
  BY <1>1, <1>2, <1>3 DEF Conversed, IsConversation

\* One that is shown after a step is right: as it is now, or as it was already of a run
\* whose events were not read.
Right(c) ==
  \/ Conversed(c)'
  \/ Conversed(c) /\ \A s \in Starts : c.id = ChatId(s) /\ c.pending => KeepsPart(s)
Talking == conversations' \in Seq(Shown') /\ \A c \in Shown' : Right(c)

\* What is shown after a step is right if each part of it is.
LEMMA TalksOf ==
  ASSUME \A r \in Starts : StaysStored(r), Talking
  PROVE  Talks'
BY ConversedStays DEF Talks, Talking, Right

\* A new title for a plain conversation, or for a run that has it in the history.
LEMMA RetitledConversed ==
  ASSUME NEW t, NEW c, Conversed(c),
         c.isWorkflowRun = FALSE \/ \E s \in Starts : c.id = RunId(s) /\ Titled(s, t)
  PROVE  Conversed([c EXCEPT !.title = t])
<1> DEFINE d == [c EXCEPT !.title = t]
<1>1. /\ IsConversation(d) /\ d.id = c.id /\ d.isWorkflowRun = c.isWorkflowRun
      /\ d.title = t /\ d.pending = c.pending /\ d.outcome = c.outcome
      /\ d.shown = c.shown
  BY DEF Conversed, IsConversation
<1>2. ASSUME NEW s \in Starts PROVE c.id # ChatId(s)
  BY OwnIds, ChatAssumption DEF Conversed
<1>3. ASSUME NEW s \in Starts, c.id = RunId(s) PROVE Known(s, c.outcome, t) /\ c.shown = FromRun(s, c.outcome)
  <2>1. Titled(s, t)
    BY <1>3, OwnIds DEF Conversed
  <2>2. QED
    BY <1>3, <2>1 DEF Conversed, Known, Titled
<1> HIDE DEF d
<1>4. Conversed(d)
  BY <1>1, <1>2, <1>3 DEF Conversed
<1>5. QED
  BY <1>4 DEF d

--------------------------------------------------------------------------------
\* The steps that change what is shown.

\* A conversation that waits for its run is put before the others.
LEMMA TalkRunStart ==
  ASSUME World, Talks, NEW s \in Starts, RunStart(s), \A r \in Starts : KeepsPart(r)
  PROVE  Talking
<1> DEFINE c == Conversation(ChatId(s), TRUE, NoTitle, TRUE, "none", Blank)
<1>1. conversations' \in Seq(Shown') /\ Shown' = {c} \union Shown
  BY Prepended DEF RunStart
<1>2. /\ stream[s] \in StreamType(s) /\ stream[s].got = 0 /\ stream[s].last = "none"
      /\ DOMAIN stream = Starts
  BY DEF World, Streams, StreamOf, RunStart
<1>3. stream'[s] = [stream[s] EXCEPT !.link = "asking", !.token = cookie]
  BY <1>2 DEF RunStart
<1>4. stream'[s].link = "asking" /\ stream'[s].got = 0 /\ stream'[s].last = "none"
  BY <1>2, <1>3 DEF StreamType
<1>5. ShowsPart(s, Blank)'
  <2>1. 0 \in 0..Len(Script[s]) /\ ShownAfter(s)[0] = Blank
    BY ShownNext
  <2>2. QED
    BY <1>4, <2>1 DEF ShowsPart
<1>6. Conversed(c)'
  <2>1. /\ c.id = ChatId(s) /\ c.title = NoTitle /\ c.isWorkflowRun = TRUE /\ c.shown = Blank
        /\ IsConversation(c)
    BY DEF Conversation, IsConversation
  <2>2. c.id \in Ids /\ c.id \notin {ChatId(a) : a \in Asks}
    BY <2>1, OwnIds, ChatAssumption DEF Ids
  <2> HIDE DEF c
  <2>3. \A r \in Starts : c.id = ChatId(r) => r = s
    BY <2>1, OwnIds
  <2>4. \A r \in Starts : c.id # RunId(r)
    BY <2>1, OwnIds
  <2>5. QED
    BY <1>4, <1>5, <2>1, <2>2, <2>3, <2>4 DEF Conversed, IsConversation
<1> HIDE DEF c
<1>7. \A d \in Shown : Right(d)
  BY DEF Talks, Right
<1>8. QED
  BY <1>1, <1>6, <1>7 DEF Talking, Right

\* A plain conversation is put before the others, or gets one more message.
LEMMA TalkSubmit ==
  ASSUME Talks, Submit, \A r \in Starts : KeepsPart(r)
  PROVE  Talking
<1>1. ASSUME NEW a \in Asks,
             conversations' = <<Conversation(ChatId(a), FALSE, NoTitle, FALSE, "mock", Blank)>>
                                \o conversations
      PROVE  Talking
  <2> DEFINE c == Conversation(ChatId(a), FALSE, NoTitle, FALSE, "mock", Blank)
  <2>1. conversations' \in Seq(Shown') /\ Shown' = {c} \union Shown
    BY <1>1, Prepended
  <2>2. /\ c.id = ChatId(a) /\ c.isWorkflowRun = FALSE /\ IsConversation(c)
    BY DEF Conversation, IsConversation
  <2> HIDE DEF c
  <2>3. c.id \in Ids /\ \A r \in Starts : c.id # ChatId(r) /\ c.id # RunId(r)
    BY <2>2, OwnIds, ChatAssumption DEF Ids
  <2>4. Conversed(c)
    BY <2>2, <2>3 DEF Conversed
  <2>5. QED
    BY <2>1, <2>4 DEF Talks, Talking, Right
<1>2. ASSUME conversations' = Change(currentConversationId, LAMBDA c : [c EXCEPT !.said = @ + 1])
      PROVE  Talking
  <2>1. conversations' = [i \in DOMAIN conversations |->
                            IF conversations[i].id = currentConversationId
                              THEN [conversations[i] EXCEPT !.said = @ + 1]
                              ELSE conversations[i]]
    BY <1>2 DEF Change
  <2>2. /\ conversations' \in Seq(Shown')
        /\ \A d \in Shown' : \E i \in DOMAIN conversations : d = conversations'[i]
    BY <2>1, Mapped
  <2>3. ASSUME NEW d \in Shown' PROVE Right(d)
    <3>1. PICK c \in Shown : d \in {c, [c EXCEPT !.said = @ + 1]}
      BY <2>1, <2>2 DEF Shown, ToSet
    <3>2. Conversed(c)
      BY DEF Talks
    <3>3. /\ IsConversation(d) /\ d.id = c.id /\ d.isWorkflowRun = c.isWorkflowRun
          /\ d.title = c.title /\ d.pending = c.pending /\ d.outcome = c.outcome
          /\ d.shown = c.shown
      BY <3>1, <3>2 DEF Conversed, IsConversation
    <3>4. Conversed(d)
      BY <3>2, <3>3 DEF Conversed
    <3>5. QED
      BY <3>4 DEF Right
  <2>4. QED
    BY <2>2, <2>3 DEF Talking
<1>3. QED
  BY <1>1, <1>2 DEF Submit

\* The first conversation of an id is one of it.
LEMMA NamedOf ==
  ASSUME Talks, NEW id, Has(id)
  PROVE  Named(id) \in DOMAIN conversations /\ conversations[Named(id)].id = id
<1> DEFINE T == {i \in DOMAIN conversations : conversations[i].id = id}
<1>1. /\ DOMAIN conversations \subseteq Nat
      /\ \A i \in DOMAIN conversations : 1..i \subseteq DOMAIN conversations
  BY DEF Talks
<1>2. T \subseteq Nat /\ T # {}
  BY <1>1 DEF Has
<1> HIDE DEF T
<1>3. PICK i \in T : \A j \in T : i <= j
  BY <1>2, LeastNat
<1> USE DEF T
<1>4. \A j \in 1..(i - 1) : conversations[j].id # id
  <2>1. ASSUME NEW j \in 1..(i - 1) PROVE j \in DOMAIN conversations /\ j \in Nat /\ ~(i <= j)
    BY <1>1, <1>3
  <2>2. QED
    BY <1>3, <2>1
<1>5. QED
  BY <1>3, <1>4 DEF Named

\* The conversations with another title for those of an id.
NewTitled(id, t) ==
  [i \in DOMAIN conversations |->
     IF conversations[i].id = id THEN [conversations[i] EXCEPT !.title = t]
                                 ELSE conversations[i]]

\* A title is changed for plain conversations, or for runs that have it.
LEMMA TalkRetitled ==
  ASSUME Talks, NEW id, NEW t, \A r \in Starts : KeepsPart(r),
         conversations' = NewTitled(id, t),
         (\A c \in Shown : c.id = id => c.isWorkflowRun = FALSE)
         \/ \E s \in Starts : id = RunId(s) /\ Titled(s, t)
  PROVE  Talking
<1>1. conversations' = [i \in DOMAIN conversations |->
                          IF conversations[i].id = id
                            THEN [conversations[i] EXCEPT !.title = t]
                            ELSE conversations[i]]
  BY DEF NewTitled
<1>2. /\ conversations' \in Seq(Shown')
      /\ \A d \in Shown' : \E i \in DOMAIN conversations : d = conversations'[i]
  BY <1>1, Mapped
<1>3. ASSUME NEW d \in Shown' PROVE Right(d)
  <2>1. PICK c \in Shown : d = IF c.id = id THEN [c EXCEPT !.title = t] ELSE c
    BY <1>1, <1>2 DEF Shown, ToSet
  <2>2. Conversed(c)
    BY DEF Talks
  <2>3. CASE c.id = id
    <3>1. Conversed([c EXCEPT !.title = t])
      BY <2>2, <2>3, RetitledConversed
    <3>2. QED
      BY <2>1, <2>3, <3>1 DEF Right
  <2>4. QED
    BY <2>1, <2>2, <2>3 DEF Right
<1>4. QED
  BY <1>2, <1>3 DEF Talking

\* The user gives a plain conversation a title.
LEMMA PlainNamed ==
  ASSUME Talks, NEW id, Has(id), ~conversations[Named(id)].isWorkflowRun
  PROVE  /\ \A c \in Shown : c.id = id => c.isWorkflowRun = FALSE
         /\ \A s \in Starts : id # ChatId(s) /\ id # RunId(s)
<1> DEFINE n == Named(id)
<1>1. n \in DOMAIN conversations /\ conversations[n].id = id
  BY NamedOf
<1>2. Conversed(conversations[n])
  BY <1>1 DEF Talks, Shown, ToSet
<1>3. conversations[n].isWorkflowRun = FALSE
  BY <1>2 DEF Conversed
<1>4. id \in {ChatId(a) : a \in Asks}
  BY <1>1, <1>2, <1>3 DEF Conversed
<1>5. QED
  BY <1>4, OwnIds, ChatAssumption DEF Talks, Conversed

\* Fewer of them.
LEMMA TalkLeft ==
  ASSUME Talks, NEW id, \A r \in Starts : KeepsPart(r), conversations' = Remaining(id)
  PROVE  Talking
BY Left DEF Talks, Talking, Right

\* Nothing that is shown changes, and no event is read.
LEMMA TalkSame ==
  ASSUME Talks, \A r \in Starts : KeepsPart(r), UNCHANGED conversations
  PROVE  Talking
BY DEF Talks, Talking, Right, Shown

\* The history arrives.
LEMMA TalkHydrated ==
  ASSUME Talks, NEW runs, IsFiniteSet(runs), conversations' = Hydrate(runs),
         \A r \in runs : Known(r.run, r.outcome, r.title), \A r \in Starts : KeepsPart(r)
  PROVE  Talking
<1>1. ASSUME NEW r \in runs PROVE Conversed(FromHistory(r))
  <2> DEFINE c == FromHistory(r)
  <2>1. /\ c.id = RunId(r.run) /\ c.isWorkflowRun = TRUE /\ c.title = r.title
        /\ c.outcome = r.outcome /\ c.shown = FromRun(r.run, r.outcome) /\ IsConversation(c)
    BY DEF FromHistory, Conversation, IsConversation
  <2>2. r.run \in Starts /\ Known(r.run, r.outcome, r.title)
    BY DEF Known
  <2>3. /\ c.id \in Ids /\ c.id \notin {ChatId(a) : a \in Asks}
        /\ \A s \in Starts : c.id # ChatId(s) /\ (c.id = RunId(s) => s = r.run)
    BY <2>1, <2>2, OwnIds DEF Ids
  <2> HIDE DEF c
  <2>4. Conversed(c)
    BY <2>1, <2>2, <2>3 DEF Conversed
  <2>5. QED
    BY <2>4 DEF c
<1>2. QED
  BY <1>1, Hydrated DEF Talks, Talking, Right


\* A message that waits for a run shows another part of it.
LEMMA ShowingConversed ==
  ASSUME \A r \in Starts : StaysStored(r), NEW s \in Starts, NEW c, Conversed(c),
         c.id = ChatId(s), NEW new, ShowsPart(s, new)'
  PROVE  Conversed([c EXCEPT !.shown = new])'
<1> DEFINE d == [c EXCEPT !.shown = new]
<1>1. /\ IsConversation(d) /\ d.id = c.id /\ d.isWorkflowRun = c.isWorkflowRun
      /\ d.title = c.title /\ d.pending = c.pending /\ d.outcome = c.outcome /\ d.shown = new
  BY DEF Conversed, IsConversation
<1>2. \A r \in Starts : c.id # RunId(r) /\ (c.id = ChatId(r) => r = s)
  BY OwnIds
<1>3. stream'[s].link # "none" /\ c.title = NoTitle
  BY DEF Conversed, StaysStored
<1> HIDE DEF d
<1>4. Conversed(d)'
  BY <1>1, <1>2, <1>3 DEF Conversed, IsConversation
<1>5. QED
  BY <1>4 DEF d

\* The next event of a run is shown in its own conversation, while that waits.
LEMMA TalkReceive ==
  ASSUME World, Talks, NEW s \in Starts, UNCHANGED <<shelf, given>>, Receive(s)
  PROVE  Talking
<1>1. /\ \A r \in Starts : StaysStored(r) /\ (r # s => KeepsPart(r))
      /\ stream[s].got \in 0..(Len(Script[s]) - 1) /\ stream'[s].got = stream[s].got + 1
      /\ stream'[s].last = stream[s].last /\ stream[s].last # "result"
  BY WorldReads DEF World
<1>2. PICK n : n = stream[s].got
  OBVIOUS
<1>3. /\ n \in Nat /\ n + 1 \in 0..Len(Script[s]) /\ n + 1 \in 1..Len(Script[s])
      /\ stream'[s].got = n + 1 /\ NextEvent(s) = Script[s][n + 1]
  BY <1>1, <1>2, ShownNext DEF NextEvent
<1>4. PICK e : e = Script[s][n + 1]
  OBVIOUS
<1>5. conversations' = [i \in DOMAIN conversations |->
                          IF conversations[i].id = ChatId(s)
                            THEN IF conversations[i].pending
                                   THEN [conversations[i] EXCEPT !.shown = Show(@, e)]
                                   ELSE conversations[i]
                            ELSE conversations[i]]
  BY <1>3, <1>4 DEF Receive, ShowIn, Change
<1>6. /\ conversations' \in Seq(Shown')
      /\ \A d \in Shown' : \E i \in DOMAIN conversations : d = conversations'[i]
  BY <1>5, Mapped
<1>7. ASSUME NEW d \in Shown' PROVE Right(d)
  <2>1. PICK c \in Shown : d = IF c.id = ChatId(s) /\ c.pending
                                 THEN [c EXCEPT !.shown = Show(c.shown, e)] ELSE c
    BY <1>5, <1>6 DEF Shown, ToSet
  <2>2. Conversed(c)
    BY DEF Talks
  <2>3. CASE c.id = ChatId(s) /\ c.pending
    <3>1. ShowsPart(s, c.shown) /\ stream[s].link \in {"open", "ended"}
      BY <2>2, <2>3 DEF Conversed, Receive
    <3>2. c.shown = ShownAfter(s)[n]
      BY <1>1, <1>2, <3>1 DEF ShowsPart, Reading
    <3>3. PICK new : new = Show(c.shown, e)
      OBVIOUS
    <3>4. new = ShownAfter(s)[n + 1]
      BY <1>3, <1>4, <3>2, <3>3, ShownNext
    <3>5. ShowsPart(s, new)'
      BY <1>1, <1>3, <3>4 DEF ShowsPart
    <3>6. Conversed([c EXCEPT !.shown = new])'
      BY <1>1, <2>2, <2>3, <3>5, ShowingConversed
    <3>7. QED
      BY <2>1, <2>3, <3>3, <3>6 DEF Right
  <2>4. CASE ~(c.id = ChatId(s) /\ c.pending)
    <3>1. d = c
      BY <2>1, <2>4
    <3>2. \A r \in Starts : c.id = ChatId(r) /\ c.pending => r # s
      BY <2>4, OwnIds
    <3>3. QED
      BY <1>1, <2>2, <3>1, <3>2 DEF Right
  <2>5. QED
    BY <2>3, <2>4
<1>8. QED
  BY <1>6, <1>7 DEF Talking

\* The record takes the place of what the events have shown.
LEMMA TalkReceiveCompleted ==
  ASSUME World, Talks, NEW s \in Starts, UNCHANGED <<shelf, given>>, ReceiveCompleted(s)
  PROVE  Talking
<1>1. PICK new : new = FromRun(s, "success")
  OBVIOUS
<1>2. /\ \A r \in Starts : StaysStored(r) /\ (r # s => KeepsPart(r))
      /\ ShowsPart(s, new)'
  BY <1>1, WorldCompletes DEF ShowsPart
<1>3. conversations' = [i \in DOMAIN conversations |->
                          IF conversations[i].id = ChatId(s)
                            THEN IF conversations[i].pending
                                   THEN [conversations[i] EXCEPT !.shown = new]
                                   ELSE conversations[i]
                            ELSE conversations[i]]
  BY <1>1 DEF ReceiveCompleted, ShowIn, Change
<1>4. /\ conversations' \in Seq(Shown')
      /\ \A d \in Shown' : \E i \in DOMAIN conversations : d = conversations'[i]
  BY <1>3, Mapped
<1>5. ASSUME NEW d \in Shown' PROVE Right(d)
  <2>1. PICK c \in Shown : d = IF c.id = ChatId(s) /\ c.pending
                                 THEN [c EXCEPT !.shown = new] ELSE c
    BY <1>3, <1>4 DEF Shown, ToSet
  <2>2. Conversed(c)
    BY DEF Talks
  <2>3. CASE c.id = ChatId(s) /\ c.pending
    <3>1. Conversed([c EXCEPT !.shown = new])'
      BY <1>2, <2>2, <2>3, ShowingConversed
    <3>2. QED
      BY <2>1, <2>3, <3>1 DEF Right
  <2>4. CASE ~(c.id = ChatId(s) /\ c.pending)
    <3>1. \A r \in Starts : c.id = ChatId(r) /\ c.pending => r # s
      BY <2>4, OwnIds
    <3>2. QED
      BY <1>2, <2>1, <2>2, <2>4, <3>1 DEF Right
  <2>5. QED
    BY <2>3, <2>4
<1>6. QED
  BY <1>4, <1>5 DEF Talking

\* A message whose run is over is final, or an error.
LEMMA TalkSettle ==
  ASSUME World, Talks, NEW s \in Starts, Settle(s), \A r \in Starts : KeepsPart(r)
  PROVE  Talking
<1>1. conversations' = [i \in DOMAIN conversations |->
                          IF conversations[i].id = ChatId(s)
                            THEN [conversations[i] EXCEPT
                                    !.id = RunId(s), !.pending = FALSE, !.outcome = "success",
                                    !.shown = FromRun(s, "success")]
                            ELSE conversations[i]]
  BY DEF Settle, Change
<1>2. /\ conversations' \in Seq(Shown')
      /\ \A d \in Shown' : \E i \in DOMAIN conversations : d = conversations'[i]
  BY <1>1, Mapped
<1>3. ASSUME NEW d \in Shown' PROVE Right(d)
  <2>1. PICK c \in Shown : d = IF c.id = ChatId(s)
                                 THEN [c EXCEPT !.id = RunId(s), !.pending = FALSE,
                                        !.outcome = "success", !.shown = FromRun(s, "success")]
                                 ELSE c
    <3>1. PICK i \in DOMAIN conversations : d = conversations'[i]
      BY <1>2
    <3>2. conversations[i] \in Shown
      BY DEF Shown, ToSet
    <3>3. QED
      BY <1>1, <3>1, <3>2
  <2>2. Conversed(c)
    BY DEF Talks
  <2>3. CASE c.id = ChatId(s)
    <3>1. IsConversation(c)
      BY <2>2 DEF Conversed
    <3>2. d = [id |-> RunId(s), isWorkflowRun |-> c.isWorkflowRun, title |-> c.title,
               pending |-> FALSE, outcome |-> "success", shown |-> FromRun(s, "success"),
               said |-> c.said]
      BY <2>1, <2>3, <3>1 DEF IsConversation
    <3>3. /\ IsConversation(d) /\ d.id = RunId(s) /\ d.isWorkflowRun = c.isWorkflowRun
          /\ d.title = c.title /\ d.outcome = "success" /\ d.pending = FALSE
          /\ d.shown = FromRun(s, "success")
      BY <3>2 DEF IsConversation
    <3>4. c.title = NoTitle /\ c.isWorkflowRun = TRUE
      BY <2>2, <2>3, OwnIds, ChatAssumption DEF Conversed
    <3>5. Known(s, "success", NoTitle)
      BY DEF Settle, World, Streams, StreamOf, Known
    <3>6. /\ d.id \in Ids /\ d.id \notin {ChatId(a) : a \in Asks}
          /\ \A r \in Starts : d.id # ChatId(r) /\ (d.id = RunId(r) => r = s)
      BY <3>3, OwnIds DEF Ids
    <3>7. Conversed(d)
      BY <3>3, <3>4, <3>5, <3>6 DEF Conversed
    <3>8. QED
      BY <3>7 DEF Right
  <2>4. QED
    BY <2>1, <2>2, <2>3 DEF Right
<1>4. QED
  BY <1>2, <1>3 DEF Talking

\* A message whose run broke off shows an error instead.
LEMMA TalkSettleError ==
  ASSUME Talks, NEW s \in Starts, SettleError(s), \A r \in Starts : KeepsPart(r)
  PROVE  Talking
<1>1. conversations' = [i \in DOMAIN conversations |->
                          IF conversations[i].id = ChatId(s)
                            THEN [conversations[i] EXCEPT
                                    !.pending = FALSE, !.outcome = "error", !.shown = Blank]
                            ELSE conversations[i]]
  BY DEF SettleError, Change
<1>2. /\ conversations' \in Seq(Shown')
      /\ \A d \in Shown' : \E i \in DOMAIN conversations : d = conversations'[i]
  BY <1>1, Mapped
<1>3. ASSUME NEW d \in Shown' PROVE Right(d)
  <2>1. PICK c \in Shown : d = IF c.id = ChatId(s)
                                 THEN [c EXCEPT !.pending = FALSE, !.outcome = "error",
                                                !.shown = Blank]
                                 ELSE c
    <3>1. PICK i \in DOMAIN conversations : d = conversations'[i]
      BY <1>2
    <3>2. conversations[i] \in Shown
      BY DEF Shown, ToSet
    <3>3. QED
      BY <1>1, <3>1, <3>2
  <2>2. Conversed(c)
    BY DEF Talks
  <2>3. CASE c.id = ChatId(s)
    <3>1. IsConversation(c)
      BY <2>2 DEF Conversed
    <3>2. d = [id |-> c.id, isWorkflowRun |-> c.isWorkflowRun, title |-> c.title,
               pending |-> FALSE, outcome |-> "error", shown |-> Blank, said |-> c.said]
      BY <2>1, <2>3, <3>1 DEF IsConversation
    <3>3. /\ IsConversation(d) /\ d.id = c.id /\ d.isWorkflowRun = c.isWorkflowRun
          /\ d.title = c.title /\ d.pending = FALSE
      BY <3>2 DEF IsConversation
    <3>4. \A r \in Starts : d.id # RunId(r)
      BY <2>3, <3>3, OwnIds
    <3>5. Conversed(d)
      BY <2>2, <3>3, <3>4 DEF Conversed
    <3>6. QED
      BY <3>5 DEF Right
  <2>4. QED
    BY <2>1, <2>2, <2>3 DEF Right
<1>4. QED
  BY <1>2, <1>3 DEF Talking

\* What every step does to the conversations.
LEMMA TalksStep ==
  ASSUME Logins, World, Calls, Talks, [Next]_vars
  PROVE  Talks'
<1>0. \A r \in Starts : StaysStored(r)
  BY WorldStep
<1> SUFFICES Talking
  BY <1>0, TalksOf
<1>2. ASSUME UNCHANGED stream PROVE \A r \in Starts : KeepsPart(r)
  BY <1>2 DEF KeepsPart
<1>3. CASE UNCHANGED <<stream, conversations>>
  BY <1>2, <1>3, TalkSame
<1>4. CASE User
  <2>1. ASSUME NEW s \in Starts, RunStart(s) PROVE Talking
    <3>1. \A r \in Starts : KeepsPart(r)
      BY <2>1, WorldBrowses DEF RunStart, shelves
    <3>2. QED
      BY <2>1, <3>1, TalkRunStart
  <2>2. CASE Submit
    BY <1>2, <2>2, TalkSubmit DEF Submit
  <2>3. ASSUME NEW id, NEW t, Rename(id, t), ~UNCHANGED conversations PROVE Talking
    <3>1. /\ Has(id) /\ ~conversations[Named(id)].isWorkflowRun /\ UNCHANGED stream
          /\ conversations' = NewTitled(id, t)
      BY <2>3 DEF Rename, Change, NewTitled
    <3>2. \A c \in Shown : c.id = id => c.isWorkflowRun = FALSE
      BY <3>1, PlainNamed
    <3>3. QED
      BY <1>2, <3>1, <3>2, TalkRetitled
  <2>4. ASSUME NEW id, Delete(id), ~UNCHANGED conversations PROVE Talking
    <3>1. UNCHANGED stream /\ conversations' = Remaining(id)
      BY <2>4 DEF Delete, Removed
    <3>2. QED
      BY <1>2, <3>1, TalkLeft
  <2>5. ASSUME NEW id, SelectChat(id) \/ Delete(id) \/ \E t \in Titles : Rename(id, t)
        PROVE  Talking
    <3>1. UNCHANGED stream
      BY <2>5 DEF SelectChat, Rename, Delete
    <3>2. QED
      BY <1>3, <2>3, <2>4, <2>5, <3>1 DEF SelectChat
  <2>6. CASE Login \/ Logout \/ Navigate
    BY <1>3, <2>6 DEF Login, Logout, Navigate, page
  <2>7. QED
    BY <1>4, <2>1, <2>2, <2>5, <2>6 DEF User
<1>5. CASE Faulty
  <2>1. UNCHANGED conversations
    BY <1>5 DEF Faulty, Lose, Cut, SessionExpires, Restart, page
  <2>2. \A r \in Starts : KeepsPart(r)
    <3>1. ASSUME NEW s \in Starts, Cut(s) PROVE \A r \in Starts : KeepsPart(r)
      BY <3>1, WorldBrowses DEF Cut
    <3>2. CASE Restart
      BY <3>2, WorldRestarts
    <3>3. CASE SessionExpires \/ \E k \in Slots : Lose(k)
      BY <1>2, <3>3 DEF SessionExpires, Lose
    <3>4. QED
      BY <1>5, <3>1, <3>2, <3>3 DEF Faulty
  <2>3. QED
    BY <2>1, <2>2, TalkSame
<1>6. ASSUME NEW k \in Slots, Serve(k) PROVE Talking
  BY <1>3, <1>6 DEF Serve, page
<1>7. ASSUME NEW k \in Slots, React(k) PROVE Talking
  <2>1. UNCHANGED stream /\ calls[k] # NoCall /\ CallOf(k)
    BY <1>7 DEF React, Calls
  <2>2. CASE SessionAnswered(k) \/ LogoutAnswered(k) \/ Unauthorised(k)
    BY <1>3, <2>1, <2>2 DEF SessionAnswered, LogoutAnswered, Unauthorised
  <2>3. CASE ListAnswered(k)
    <3>1. \/ UNCHANGED conversations
          \/ conversations' = Hydrate(calls[k].runs)
      BY <2>3 DEF ListAnswered
    <3>2. PICK runs : runs = calls[k].runs
      OBVIOUS
    <3>3. IsFiniteSet(runs) /\ \A r \in runs : Known(r.run, r.outcome, r.title)
      BY <2>1, <3>2 DEF CallOf
    <3>4. QED
      BY <1>2, <1>3, <2>1, <3>1, <3>2, <3>3, TalkHydrated
  <2>4. CASE RenameAnswered(k)
    <3>1. CASE calls[k].answer = "200"
      <4>1. /\ calls[k].op = "rename"
            /\ conversations' = NewTitled(calls[k].id, calls[k].title)
        BY <2>4, <3>1 DEF RenameAnswered, Change, NewTitled
      <4>2. PICK s \in Starts : calls[k].id = RunId(s) /\ Titled(s, calls[k].title)
        BY <2>1, <3>1, <4>1 DEF CallOf
      <4>3. PICK id, t : id = calls[k].id /\ t = calls[k].title
        OBVIOUS
      <4>4. /\ conversations' = NewTitled(id, t)
            /\ id = RunId(s) /\ Titled(s, t)
        BY <4>1, <4>2, <4>3
      <4>5. QED
        BY <1>2, <2>1, <4>4, TalkRetitled
    <3>2. QED
      BY <1>3, <2>1, <2>4, <3>1 DEF RenameAnswered
  <2>5. CASE DeleteAnswered(k)
    <3>1. PICK id : id = calls[k].id
      OBVIOUS
    <3>2. conversations' = Remaining(id)
      BY <2>5, <3>1 DEF DeleteAnswered, Removed
    <3>3. QED
      BY <1>2, <2>1, <3>2, TalkLeft
  <2>6. QED
    BY <1>7, <2>2, <2>3, <2>4, <2>5 DEF React
<1>8. ASSUME NEW s \in Starts, Server(s) PROVE Talking
  <2>1. UNCHANGED conversations /\ \A r \in Starts : KeepsPart(r)
    BY <1>8, WorldServes DEF Server, page
  <2>2. QED
    BY <2>1, TalkSame
<1>9. ASSUME NEW s \in Starts, Browser(s) PROVE Talking
  <2>1. UNCHANGED <<shelf, given>>
    BY <1>9 DEF Browser, shelves
  <2>2. CASE Receive(s) \/ ReceiveCompleted(s)
    BY <2>1, <2>2, TalkReceive, TalkReceiveCompleted
  <2>3. ASSUME Settle(s) \/ SettleError(s) \/ SettleRefused(s) PROVE Talking
    <3>1. \A r \in Starts : StaysStored(r) /\ KeepsPart(r)
      BY <2>1, <2>3, WorldBrowses
    <3>2. CASE Settle(s) \/ SettleError(s)
      BY <3>1, <3>2, TalkSettle, TalkSettleError
    <3>3. CASE SettleRefused(s)
      BY <3>1, <3>3, TalkSame DEF SettleRefused
    <3>4. QED
      BY <2>3, <3>2, <3>3
  <2>4. QED
    BY <1>9, <2>2, <2>3 DEF Browser
<1>10. QED
  BY <1>3, <1>4, <1>5, <1>6, <1>7, <1>8, <1>9 DEF Next, vars, page

--------------------------------------------------------------------------------
LEMMA InitChat == Init => CInv
<1> SUFFICES ASSUME Init PROVE CInv
  OBVIOUS
<1>1. /\ issued \in {0, 1} /\ cookie = issued /\ sessions = [t \in 1..issued |-> "live"]
      /\ session = "loading" /\ currentConversationId = NoId /\ moves = 0
      /\ DOMAIN shelf = {} /\ conversations = <<>> /\ given = [s \in Starts |-> {}]
  BY DEF Init, Store!Init
<1>2. Logins
  BY <1>1, ChatAssumption DEF Logins
<1>3. Streams
  <2>1. stream = [s \in Starts |-> Stream("none", "none")]
    BY DEF Init
  <2>2. ASSUME NEW s \in Starts PROVE StreamOf(s)
    <3>1. stream[s] = Stream("none", "none") /\ Len(Script[s]) \in Nat
      BY <2>1, ChatAssumption
    <3>2. QED
      BY <3>1 DEF StreamOf, StreamType, Stream, Execs, Links, Lasts, NoToken
  <2>3. QED
    BY <2>1, <2>2 DEF Streams
<1>4. Rows
  BY <1>1, FS_EmptySet DEF Rows
<1>5. Calls
  <2>1. calls = [k \in Slots |-> IF \A j \in Slots : k <= j
                                   THEN Request("session", NoId, cookie) ELSE NoCall]
    BY DEF Init
  <2>2. ASSUME NEW k \in Slots PROVE CallOf(k)
    <3>1. PICK q : q = Request("session", NoId, cookie) /\ Fresh(q)
      BY RequestsAreFresh DEF Ops
    <3>2. calls[k] = NoCall \/ calls[k] = q
      BY <2>1, <3>1
    <3>3. QED
      BY <3>1, <3>2, FS_EmptySet DEF CallOf, Fresh
  <2>3. QED
    BY <2>1, <2>2 DEF Calls
<1>6. Talks
  <2>1. Shown = {}
    BY <1>1 DEF Shown, ToSet
  <2>2. QED
    BY <1>1, <2>1 DEF Talks
<1>7. QED
  BY <1>2, <1>3, <1>4, <1>5, <1>6 DEF CInv

\* The invariant is inductive: one lemma for each of its parts.
LEMMA StepChat == CInv /\ [Next]_vars => CInv'
  BY WorldStep, LoginsStep, CallsStep, TalksStep DEF CInv, World

\* So it holds of every reachable state.
LEMMA ChatInvariant == Spec => []CInv
  BY InitChat, StepChat, PTL DEF Spec

--------------------------------------------------------------------------------
\* Every variable of the system keeps its type: ids are those the browser or the server
\* made, a stream has one of the states of the code, whatever is lost, late or restarted.
THEOREM ChatTypes == Spec => []TypeOK
<1>1. ASSUME CInv, ShelfOfSettled PROVE TypeOK
  <2>1. /\ sessions \in [DOMAIN sessions -> {"live", "expired"}]
        /\ DOMAIN sessions \subseteq 1..issued /\ cookie \in 0..issued
        /\ session \in {"loading", "out", "in"} /\ currentConversationId \in Ids \union {NoId}
        /\ moves \in 0..MaxMoves /\ given \in [Starts -> SUBSET Titles]
    BY <1>1 DEF CInv, Logins, Rows
  <2>2. ASSUME NEW s \in Starts
        PROVE  /\ stream[s].link \in {"none", "asking", "refused", "open", "ended", "cut",
                                      "settled", "signedout"}
               /\ stream[s].exec \in {"none", "running", "stored", "gone"}
               /\ stream[s].got \in 0..Len(Script[s])
    BY <1>1 DEF CInv, Streams, StreamOf, StreamType, Links, Execs
  <2>3. \A k \in Slots : calls[k] = NoCall \/ calls[k].answer \in Answers
    BY <1>1 DEF CInv, Calls, CallOf, IsCall
  <2>4. \A i \in DOMAIN conversations : conversations[i].id \in Ids
    BY <1>1 DEF CInv, Talks, Shown, ToSet, Conversed
  <2>5. QED
    BY <1>1, <2>1, <2>2, <2>3, <2>4 DEF TypeOK, ShelfOfSettled
<1>2. QED
  BY <1>1, ChatInvariant, HistoryOfSettled, PTL

\* What the UI shows as a run of the history was stored, with the outcome it has there
\* and a title it had: lists, renames and results that arrive late, in any order and
\* after a restart, never show another (App.tsx:65-82, 185-192, 251-259).
THEOREM ShowsStored == Spec => []HistoryIsStored
<1>1. ASSUME CInv PROVE HistoryIsStored
  <2>1. ASSUME NEW i \in DOMAIN conversations, NEW s \in Starts, conversations[i].id = RunId(s)
        PROVE  Known(s, conversations[i].outcome, conversations[i].title)
    BY <1>1, <2>1 DEF CInv, Talks, Shown, ToSet, Conversed
  <2>2. QED
    BY <2>1 DEF HistoryIsStored, Known
<1>2. QED
  BY <1>1, ChatInvariant, PTL

\* A conversation shows its own run and nothing of another's, however the streams, the
\* lists and the user's steps interleave: while it waits, what exactly the events read
\* so far made of it or, from run.completed on, the record; afterwards the record of
\* the outcome it claims (App.tsx:116-205).
THEOREM ShowsOnlyItsRun == Spec => []ShowsOwnRun
<1>1. ASSUME CInv PROVE ShowsOwnRun
  <2>1. ASSUME NEW i \in DOMAIN conversations PROVE Conversed(conversations[i])
    BY <1>1 DEF CInv, Talks, Shown, ToSet
  <2>2. QED
    BY <2>1 DEF Conversed, ShowsOwnRun
<1>2. QED
  BY <1>1, ChatInvariant, PTL

--------------------------------------------------------------------------------
(* What the server does, and for whom.                                        *)

\* The history behind the browser is RunShelf's, whatever the browser, the network
\* and restarts do: the promise that RunStore keeps is the one ChatApp relies on.
THEOREM HistoryIsTheShelf == Spec => Store!Spec
<1>1. Init => Store!Init
  BY DEF Init
<1>2. ASSUME ShelfOfSettled, CInv, [Next]_vars
      PROVE  [Store!Next]_<<shelf, settled>>
  <2>1. Shelving \/ UNCHANGED shelves
    BY <1>2, StepShelves
  <2>2. ASSUME NEW k \in Slots, NEW s \in DOMAIN shelf, Granted(k, s) PROVE Store!Next
    <3>1. s \in Starts /\ (calls[k].op = "rename" => calls[k].title \in Titles)
      BY <1>2, <2>2 DEF ShelfOfSettled, CInv, Calls, CallOf, IsCall, Granted
    <3>2. QED
      BY <2>2, <3>1 DEF Granted, Retitles, Store!Next
  <2>3. CASE \E s \in Starts, o \in {"success", "failed"} : Store!Put(s, o)
    BY <2>3 DEF Store!Next
  <2>4. QED
    BY <2>1, <2>2, <2>3 DEF Shelving, shelves, Store!Next
<1>3. QED
  BY <1>1, <1>2, HistoryOfSettled, ChatInvariant, PTL DEF Spec, Store!Spec

\* A step that changes a run of the history is one that a request asked for.
LEMMA ChangeIsAskedFor ==
  ASSUME ShelfOfSettled, CInv, [Next]_vars, NEW s \in DOMAIN shelf,
         s \notin DOMAIN shelf' \/ shelf'[s] # shelf[s]
  PROVE  \E k \in Slots : Unanswered(k) /\ calls[k].answer = "admitted" /\ AsksFor(k, s)
<1>1. ASSUME NEW r \in Starts, NEW o, Store!Put(r, o)
      PROVE  FALSE
  <2>1. r # s
    BY <1>1 DEF ShelfOfSettled, Store!Put
  <2>2. s \in DOMAIN shelf' /\ shelf'[s] = shelf[s]
    BY <1>1, <2>1 DEF Store!Put
  <2>3. QED
    BY <2>2
<1>2. CASE Store!Settle \/ UNCHANGED shelves
  BY <1>2 DEF Store!Settle, shelves
<1>3. ASSUME NEW k \in Slots, NEW r \in DOMAIN shelf, Granted(k, r)
      PROVE  Unanswered(k) /\ calls[k].answer = "admitted" /\ AsksFor(k, s)
  <2>1. Unanswered(k) /\ calls[k].answer = "admitted" /\ calls[k].id = RunId(r)
    BY <1>3 DEF Granted, Unanswered
  <2>2. CASE Retitles(k, r)
    <3>1. shelf' = [shelf EXCEPT ![r].title = calls[k].title] /\ calls[k].op = "rename"
      BY <2>2 DEF Retitles, Store!Retitle
    <3>2. s = r /\ s \in DOMAIN shelf' /\ shelf'[s] = [shelf[s] EXCEPT !.title = calls[k].title]
      BY <3>1
    <3>3. QED
      BY <2>1, <3>1, <3>2 DEF AsksFor
  <2>3. CASE calls[k].op = "delete" /\ Store!Remove(r)
    <3>1. s = r /\ s \notin DOMAIN shelf'
      BY <2>3 DEF Store!Remove
    <3>2. QED
      BY <2>1, <2>3, <3>1 DEF AsksFor
  <2>4. QED
    BY <1>3, <2>2, <2>3 DEF Granted
<1>4. QED
  BY <1>1, <1>2, <1>3, StepShelves DEF Shelving

\* A call that waits for its answer after a step waited for it before, and was not let
\* in by the step unless its session is live; or it has just been sent.
LEMMA WaitsAsBefore ==
  ASSUME CInv, [Next]_vars, NEW k \in Slots, Unanswered(k)', calls'[k].answer # "none"
  PROVE  /\ Unanswered(k) /\ calls'[k].token = calls[k].token
         /\ calls[k].answer = "none" => Authorised(calls[k].token)
<1> DEFINE Same == /\ Unanswered(k) /\ calls'[k].token = calls[k].token
                   /\ calls[k].answer = "none" => Authorised(calls[k].token)
<1>1. DOMAIN calls = Slots /\ calls'[k] # NoCall /\ calls'[k].answer = "admitted"
  BY DEF CInv, Calls, Unanswered
<1>2. ASSUME calls'[k] = calls[k] PROVE Same
  BY <1>1, <1>2 DEF Unanswered
<1>3. ASSUME NEW j, NEW q, q.answer # "admitted", calls' = [calls EXCEPT ![j] = q] PROVE Same
  BY <1>1, <1>2, <1>3
<1>4. ASSUME NEW j, Drop(j) PROVE Same
  BY <1>1, <1>2, <1>4 DEF Drop
<1>5. ASSUME NEW j \in Slots, NEW a, Answer(j, a), a # "admitted", calls[j] # NoCall PROVE Same
  BY <1>1, <1>2, <1>5 DEF Answer, CInv, Calls, CallOf, IsCall
<1>6. \A op, id, token : Request(op, id, token).answer = "none"
  BY DEF Request
<1>7. \A id, t : RenameTo(id, t).answer = "none"
  BY DEF RenameTo, Request
<1>8. CASE User
  <2>1. ASSUME NEW q, Send(q), q.answer = "none" PROVE Same
    BY <1>3, <2>1 DEF Send
  <2>2. CASE UNCHANGED calls
    BY <1>2, <2>2
  <2>3. CASE Login
    BY <2>1, <2>3, <1>6 DEF Login
  <2>4. CASE Logout
    BY <2>1, <2>4, <1>6 DEF Logout
  <2>5. CASE Submit \/ Navigate \/ \E s \in Starts : RunStart(s)
    BY <2>2, <2>5 DEF Submit, Navigate, RunStart
  <2>6. ASSUME NEW id, SelectChat(id) \/ Delete(id) PROVE Same
    BY <2>1, <2>2, <2>6, <1>6 DEF SelectChat, Delete
  <2>7. ASSUME NEW id, NEW title, Rename(id, title) PROVE Same
    BY <2>1, <2>2, <2>7, <1>7 DEF Rename
  <2>8. QED
    BY <1>8, <2>3, <2>4, <2>5, <2>6, <2>7 DEF User
<1>9. CASE Faulty
  <2>1. ASSUME NEW j \in Slots, Lose(j) PROVE Same
    BY <1>5, <2>1 DEF Lose
  <2>2. CASE Restart
    BY <1>1, <1>2, <2>2 DEF Restart, CInv, Calls, CallOf, IsCall
  <2>3. QED
    BY <1>2, <1>9, <2>1, <2>2 DEF Faulty, Cut, SessionExpires
<1>10. ASSUME NEW j \in Slots, Serve(j) PROVE Same
  <2>1. calls[j] # NoCall /\ CallOf(j)
    BY <1>10 DEF Serve, Unanswered, CInv, Calls
  <2>2. CASE Admit(j) /\ calls[j].answer # "admitted"
    <3>1. Authorised(calls[j].token) /\ calls' = [calls EXCEPT ![j].answer = "admitted"]
      BY <2>2 DEF Admit, Answer
    <3>2. CASE j = k
      <4>1. calls[k].answer = "none" /\ Unanswered(k)
        BY <1>10, <2>2, <3>2 DEF Serve, Unanswered
      <4>2. calls'[k].token = calls[k].token
        BY <1>1, <2>1, <3>1, <3>2 DEF CallOf, IsCall
      <4>3. QED
        BY <3>1, <3>2, <4>1, <4>2
    <3>3. QED
      BY <1>1, <1>2, <3>1, <3>2
  <2>3. CASE ServeList(j)
    <3>1. calls' = [calls EXCEPT ![j].answer = "200", ![j].runs = History]
      BY <2>3 DEF ServeList
    <3>2. j # k
      BY <1>1, <2>1, <3>1 DEF CallOf, IsCall
    <3>3. QED
      BY <1>1, <1>2, <3>1, <3>2
  <2>4. CASE ServeSession(j) \/ ServeLogout(j) \/ Refuse(j) \/ ServeRename(j) \/ ServeDelete(j)
    BY <1>5, <2>1, <2>4 DEF ServeSession, ServeLogout, Refuse, ServeRename, ServeDelete
  <2>5. QED
    BY <1>10, <2>2, <2>3, <2>4 DEF Serve, Handle
<1>11. ASSUME NEW j \in Slots, React(j) PROVE Same
  BY <1>3, <1>4, <1>6, <1>11 DEF React, SessionAnswered, LogoutAnswered, Unauthorised, ListAnswered,
                                 RenameAnswered, DeleteAnswered
<1>12. ASSUME NEW s \in Starts, Server(s) \/ Browser(s) PROVE Same
  BY <1>2, <1>12 DEF Server, Browser
<1>13. QED
  BY <1>2, <1>8, <1>9, <1>10, <1>11, <1>12 DEF Next, vars

\* No step makes a session live but the login that creates it.
LEMMA NotLiveAgain ==
  ASSUME Logins, [Next]_vars, NEW t \in 0..issued, ~Authorised(t)
  PROVE  ~Authorised(t)'
<1>1. CASE UNCHANGED sessions
  BY <1>1 DEF Authorised
<1>2. ASSUME NEW u, sessions' = Without(u) \/ UNCHANGED sessions PROVE ~Authorised(t)'
  BY <1>2 DEF Without, Authorised
<1>3. CASE CreateSession
  <2>1. issued' \notin DOMAIN sessions /\ t # issued' /\ t \in Nat /\ issued \in Nat
    BY <1>3 DEF CreateSession, Logins
  <2>2. QED
    BY <1>3, <2>1 DEF CreateSession, Authorised
<1>4. CASE Expire
  BY <1>4 DEF Expire, Authorised
<1>5. CASE ForgetSessions
  BY <1>5 DEF ForgetSessions, Authorised
<1>6. CASE User
  BY <1>1, <1>3, <1>6 DEF User, Login, Logout, Submit, Navigate, RunStart, SelectChat, Rename,
                          Delete, sessionVars
<1>7. CASE Faulty
  BY <1>1, <1>4, <1>5, <1>7 DEF Faulty, Lose, Cut, SessionExpires, Restart, sessionVars
<1>8. ASSUME NEW k \in Slots, Serve(k) PROVE ~Authorised(t)'
  BY <1>1, <1>2, <1>8 DEF Serve, Handle, ServeSession, ServeLogout, Refuse, Admit, GetSession,
                          DeleteSession
<1>9. ASSUME NEW k \in Slots, React(k) PROVE ~Authorised(t)'
  BY <1>1, <1>9 DEF React
<1>10. ASSUME NEW s \in Starts, Server(s) \/ Browser(s) PROVE ~Authorised(t)'
  BY <1>1, <1>2, <1>10 DEF Server, Browser, Accept, Reject, Complete, Fail, GetSession, sessionVars
<1>11. QED
  BY <1>1, <1>6, <1>7, <1>8, <1>9, <1>10 DEF Next, vars, sessionVars

\* The history changes as callers with a session ask and as nobody else does: a step that
\* renames or removes a run carries out a request for just that which was let in; and a
\* session that is over, with nothing left to do that was let in with it, stays over,
\* whatever was sent with its token and whenever that arrives (dependencies.py:8-23,
\* auth.py:38-53, routes/runs.py:55-88).
THEOREM LiveSessionsOnly == Spec => OnlyLiveSessionsChange
<1>1. ASSUME CInv, [Next]_vars, NEW t \in 0..issued, SessionOver(t)
      PROVE  SessionOver(t)'
  <2>1. ~Authorised(t)
    BY <1>1 DEF SessionOver, Authorised
  <2>2. ~Authorised(t)'
    BY <1>1, <2>1, NotLiveAgain DEF CInv
  <2>3. ASSUME NEW k \in Slots, Unanswered(k)', calls'[k].token = t, calls'[k].answer # "none"
        PROVE  FALSE
    <3>1. Unanswered(k) /\ calls[k].token = t /\ (calls[k].answer = "none" => Authorised(t))
      BY <1>1, <2>3, WaitsAsBefore
    <3>2. QED
      BY <1>1, <2>1, <3>1 DEF SessionOver
  <2>4. QED
    BY <2>2, <2>3 DEF SessionOver, Authorised
<1>2. ShelfOfSettled /\ CInv /\ [Next]_vars =>
        [/\ \A s \in DOMAIN shelf :
              (s \notin DOMAIN shelf' \/ shelf'[s] # shelf[s]) =>
                 \E k \in Slots : /\ Unanswered(k) /\ calls[k].answer = "admitted"
                                  /\ AsksFor(k, s)
         /\ \A t \in 0..issued : SessionOver(t) => SessionOver(t)']_vars
  BY <1>1, ChangeIsAskedFor
<1>3. QED
  BY <1>2, HistoryOfSettled, ChatInvariant, PTL DEF Spec, OnlyLiveSessionsChange

--------------------------------------------------------------------------------
\* Nothing the user waits for or has in the history vanishes of itself: what takes one
\* off the screen is its own end, the user's delete, or a list that does not have it.
Awaited(c) == \E s \in Starts : c.id = RunId(s) \/ (c.id = ChatId(s) /\ c.pending)
Kept(c) ==
  \E d \in Shown' : d.id = c.id /\ \A s \in Starts : c.id = ChatId(s) /\ c.pending => d.pending
OldList(k, s) == calls[k] # NoCall /\ calls[k].answer = "200" /\ \A r \in calls[k].runs : r.run # s
Gone(c) ==
  \/ Asked(c.id)
  \/ \E s \in Starts : c.id = ChatId(s) /\ stream'[s].link = "settled"
  \/ \E s \in Starts : c.id = RunId(s) /\ \E k \in Slots : OldList(k, s)

\* One in the place of each: what each of them became.
LEMMA Became ==
  ASSUME Talks, conversations' = [i \in DOMAIN conversations |-> conversations'[i]], NEW c \in Shown
  PROVE  \E i \in DOMAIN conversations : c = conversations[i] /\ conversations'[i] \in Shown'
<1>1. PICK i \in DOMAIN conversations : c = conversations[i]
  BY DEF Shown, ToSet
<1>2. conversations'[i] \in Shown'
  BY Mapped
<1>3. QED
  BY <1>1, <1>2

\* A change that leaves ids, and what waits waiting.
LEMMA KeptChanged ==
  ASSUME Talks, NEW c \in Shown,
         conversations' = [i \in DOMAIN conversations |-> conversations'[i]],
         \A i \in DOMAIN conversations :
           conversations[i] = c =>
             /\ conversations'[i].id = c.id
             /\ c.pending => conversations'[i].pending
  PROVE  Kept(c)
BY Became DEF Kept

\* Steps that leave the conversations keep each.
LEMMA KeptSame ==
  ASSUME NEW c \in Shown, UNCHANGED conversations
  PROVE  Kept(c)
BY DEF Kept, Shown

\* A new title keeps each.
LEMMA KeptRetitled ==
  ASSUME Talks, NEW c \in Shown, NEW id, NEW t, conversations' = NewTitled(id, t)
  PROVE  Kept(c)
<1>1. Conversed(c)
  BY DEF Talks
<1>2. conversations' = [i \in DOMAIN conversations |->
                          IF conversations[i].id = id
                            THEN [conversations[i] EXCEPT !.title = t]
                            ELSE conversations[i]]
  BY DEF NewTitled
<1>3. ASSUME NEW i \in DOMAIN conversations, conversations[i] = c
      PROVE  conversations'[i].id = c.id /\ conversations'[i].pending = c.pending
  <2>1. conversations'[i] = IF c.id = id THEN [c EXCEPT !.title = t] ELSE c
    BY <1>2, <1>3
  <2>2. QED
    BY <1>1, <2>1 DEF Conversed, IsConversation
<1>4. conversations' = [i \in DOMAIN conversations |-> conversations'[i]]
  BY <1>2
<1>5. QED
  BY <1>3, <1>4, KeptChanged

\* What the user writes keeps each.
LEMMA KeptSubmit ==
  ASSUME Talks, NEW c \in Shown, Submit
  PROVE  Kept(c)
<1>1. ASSUME NEW x, conversations' = <<x>> \o conversations PROVE Kept(c)
  <2>1. c \in Shown'
    BY <1>1, Prepended
  <2>2. QED
    BY <2>1 DEF Kept
<1>2. ASSUME conversations' = Change(currentConversationId, LAMBDA x : [x EXCEPT !.said = @ + 1])
      PROVE  Kept(c)
  <2>1. Conversed(c)
    BY DEF Talks
  <2>2. conversations' = [i \in DOMAIN conversations |->
                            IF conversations[i].id = currentConversationId
                              THEN [conversations[i] EXCEPT !.said = @ + 1]
                              ELSE conversations[i]]
    BY <1>2 DEF Change
  <2>3. ASSUME NEW i \in DOMAIN conversations, conversations[i] = c
        PROVE  conversations'[i].id = c.id /\ conversations'[i].pending = c.pending
    <3>1. conversations'[i] \in {c, [c EXCEPT !.said = @ + 1]}
      BY <2>2, <2>3
    <3>2. QED
      BY <2>1, <3>1 DEF Conversed, IsConversation
  <2>4. conversations' = [i \in DOMAIN conversations |-> conversations'[i]]
    BY <2>2
  <2>5. QED
    BY <2>3, <2>4, KeptChanged
<1>3. QED
  BY <1>1, <1>2 DEF Submit

\* What a run streams leaves the messages waiting; its end changes its own only.
LEMMA KeptShowing ==
  ASSUME Talks, NEW c \in Shown, NEW s \in Starts, Receive(s) \/ ReceiveCompleted(s)
  PROVE  Kept(c)
<1>1. Conversed(c)
  BY DEF Talks
<1>2. \A i \in DOMAIN conversations : \E x :
        conversations'[i] \in {conversations[i], [conversations[i] EXCEPT !.shown = x]}
  <2>1. CASE Receive(s)
    BY <2>1 DEF Receive, ShowIn, Change
  <2>2. CASE ReceiveCompleted(s)
    BY <2>2 DEF ReceiveCompleted, ShowIn, Change
  <2>3. QED
    BY <2>1, <2>2
<1>3. conversations' = [i \in DOMAIN conversations |-> conversations'[i]]
  BY DEF Receive, ReceiveCompleted, ShowIn, Change
<1>4. ASSUME NEW i \in DOMAIN conversations, conversations[i] = c
      PROVE  conversations'[i].id = c.id /\ conversations'[i].pending = c.pending
  <2>1. PICK x : conversations'[i] \in {c, [c EXCEPT !.shown = x]}
    BY <1>2, <1>4
  <2>2. QED
    BY <1>1, <2>1 DEF Conversed, IsConversation
<1>5. QED
  BY <1>3, <1>4, KeptChanged

\* The end of a run takes its own message off the waiting ones, no other.
LEMMA KeptSettle ==
  ASSUME World, Talks, NEW c \in Shown, NEW s \in Starts, Settle(s) \/ SettleError(s)
  PROVE  Kept(c) \/ Gone(c)
<1>1. stream'[s].link = "settled"
  BY DEF Settle, SettleError, Become, Stream, World, Streams
<1>2. conversations' = [i \in DOMAIN conversations |-> conversations'[i]]
      /\ \A i \in DOMAIN conversations :
           conversations[i].id # ChatId(s) => conversations'[i] = conversations[i]
  BY DEF Settle, SettleError, Change
<1>3. CASE c.id = ChatId(s)
  BY <1>1, <1>3 DEF Gone
<1>4. CASE c.id # ChatId(s)
  BY <1>2, <1>4, KeptChanged
<1>5. QED
  BY <1>3, <1>4

\* A history that arrives keeps what waits, and the runs it has.
LEMMA KeptHydrated ==
  ASSUME Talks, NEW c \in Shown, NEW k \in Slots, CallOf(k), calls[k] # NoCall,
         calls[k].answer = "200", conversations' = Hydrate(calls[k].runs), Awaited(c)
  PROVE  Kept(c) \/ Gone(c)
<1>1. PICK runs : runs = calls[k].runs
  OBVIOUS
<1>2. IsFiniteSet(runs) /\ conversations' = Hydrate(runs)
  BY <1>1 DEF CallOf
<1>3. Shown' = {x \in Shown : x.pending /\ x.id \notin {FromHistory(r).id : r \in runs}}
                 \union {FromHistory(r) : r \in runs}
  BY <1>2, Hydrated
<1>4. \A r : FromHistory(r).id = RunId(r.run)
  BY DEF FromHistory, Conversation
<1>5. PICK s \in Starts : c.id = RunId(s) \/ (c.id = ChatId(s) /\ c.pending)
  BY DEF Awaited
<1>6. CASE c.id = ChatId(s) /\ c.pending
  <2>1. c.id \notin {FromHistory(r).id : r \in runs}
    BY <1>4, <1>6, OwnIds
  <2>2. c \in Shown'
    BY <1>3, <1>6, <2>1
  <2>3. QED
    BY <2>2 DEF Kept
<1>7. CASE c.id = RunId(s)
  <2>1. CASE \E r \in runs : r.run = s
    <3>1. PICK r \in runs : r.run = s
      BY <2>1
    <3>2. FromHistory(r) \in Shown' /\ FromHistory(r).id = c.id
      BY <1>3, <1>4, <1>7, <3>1
    <3>3. \A t \in Starts : c.id # ChatId(t)
      BY <1>7, OwnIds
    <3>4. QED
      BY <3>2, <3>3 DEF Kept
  <2>2. CASE \A r \in runs : r.run # s
    BY <1>1, <1>7, <2>2 DEF Gone, OldList
  <2>3. QED
    BY <2>1, <2>2
<1>8. QED
  BY <1>5, <1>6, <1>7

\* What every step leaves on the screen.
LEMMA VanishStep ==
  ASSUME CInv, [Next]_vars, NEW c \in Shown, Awaited(c)
  PROVE  Kept(c) \/ Gone(c)
<1> USE DEF CInv
<1>1. ASSUME UNCHANGED conversations PROVE Kept(c)
  BY <1>1, KeptSame
<1>2. ASSUME NEW id, conversations' = Remaining(id), c.id # id PROVE Kept(c)
  <2>1. c \in Shown'
    BY <1>2, Left
  <2>2. QED
    BY <2>1 DEF Kept
<1>3. CASE User
  <2>1. ASSUME NEW s \in Starts, RunStart(s) PROVE Kept(c)
    <3>1. c \in Shown'
      BY <2>1, Prepended DEF RunStart
    <3>2. QED
      BY <3>1 DEF Kept
  <2>2. ASSUME NEW id, NEW t, Rename(id, t) PROVE Kept(c)
    <3>1. UNCHANGED conversations \/ conversations' = NewTitled(id, t)
      BY <2>2 DEF Rename, Change, NewTitled
    <3>2. QED
      BY <1>1, <3>1, KeptRetitled
  <2>3. ASSUME NEW id, Delete(id), ~UNCHANGED conversations PROVE Kept(c)
    <3>1. /\ Has(id) /\ ~conversations[Named(id)].isWorkflowRun /\ conversations' = Remaining(id)
      BY <2>3 DEF Delete, Removed
    <3>2. \A s \in Starts : id # ChatId(s) /\ id # RunId(s)
      BY <3>1, PlainNamed
    <3>3. c.id # id
      BY <3>2 DEF Awaited
    <3>4. QED
      BY <1>2, <3>1, <3>3
  <2>4. CASE Submit
    BY <2>4, KeptSubmit
  <2>5. CASE Login \/ Logout \/ Navigate
    BY <1>1, <2>5 DEF Login, Logout, Navigate, page
  <2>6. ASSUME NEW i \in DOMAIN conversations, SelectChat(conversations[i].id) PROVE Kept(c)
    BY <1>1, <2>6 DEF SelectChat
  <2>7. QED
    BY <1>1, <1>3, <2>1, <2>2, <2>3, <2>4, <2>5, <2>6 DEF User
<1>4. CASE Faulty
  BY <1>1, <1>4 DEF Faulty, Lose, Cut, SessionExpires, Restart, page
<1>5. ASSUME NEW k \in Slots, Serve(k) PROVE Kept(c)
  BY <1>1, <1>5 DEF Serve, page
<1>6. ASSUME NEW k \in Slots, React(k) PROVE Kept(c) \/ Gone(c)
  <2>1. calls[k] # NoCall /\ CallOf(k)
    BY <1>6 DEF React, Calls
  <2>2. CASE SessionAnswered(k) \/ LogoutAnswered(k) \/ Unauthorised(k)
    BY <1>1, <2>2 DEF SessionAnswered, LogoutAnswered, Unauthorised
  <2>3. CASE ListAnswered(k)
    <3>1. CASE calls[k].answer = "200"
      BY <2>1, <2>3, <3>1, KeptHydrated DEF ListAnswered
    <3>2. QED
      BY <1>1, <2>3, <3>1 DEF ListAnswered
  <2>4. CASE RenameAnswered(k)
    <3>1. PICK id, t : id = calls[k].id /\ t = calls[k].title
      OBVIOUS
    <3>2. UNCHANGED conversations \/ conversations' = NewTitled(id, t)
      BY <2>4, <3>1 DEF RenameAnswered, Change, NewTitled
    <3>3. QED
      BY <1>1, <3>2, KeptRetitled
  <2>5. CASE DeleteAnswered(k)
    <3>1. PICK id : id = calls[k].id
      OBVIOUS
    <3>2. conversations' = Remaining(id) /\ Asked(id)
      BY <2>1, <2>5, <3>1 DEF DeleteAnswered, Removed, Asked
    <3>3. QED
      BY <1>2, <3>2 DEF Gone
  <2>6. QED
    BY <1>6, <2>2, <2>3, <2>4, <2>5 DEF React
<1>7. ASSUME NEW s \in Starts, Server(s) PROVE Kept(c)
  BY <1>1, <1>7 DEF Server, page
<1>8. ASSUME NEW s \in Starts, Browser(s) PROVE Kept(c) \/ Gone(c)
  <2>1. CASE Receive(s) \/ ReceiveCompleted(s)
    BY <2>1, KeptShowing
  <2>2. CASE Settle(s) \/ SettleError(s)
    BY <2>2, KeptSettle DEF World
  <2>3. CASE SettleRefused(s)
    BY <1>1, <2>3 DEF SettleRefused
  <2>4. QED
    BY <1>8, <2>1, <2>2, <2>3 DEF Browser
<1>9. QED
  BY <1>1, <1>3, <1>4, <1>5, <1>6, <1>7, <1>8 DEF Next, vars, page

\* Neither a message that waits for its run nor a run of the history is lost by the
\* steps of others: a list that arrives, a sign-out, a restart or the answers of other
\* calls (App.tsx:65-82, 270-291).
THEOREM NothingIsLost == Spec => NothingVanishes
<1>1. ASSUME CInv, [Next]_vars, NEW s \in Starts, Pending(s), ~Pending(s)'
      PROVE  stream'[s].link = "settled" \/ Asked(ChatId(s))
  <2>1. PICK c \in Shown : c.id = ChatId(s) /\ c.pending
    BY <1>1 DEF Pending, Shown, ToSet
  <2>2. ASSUME NEW d \in Shown', d.id = ChatId(s), d.pending PROVE FALSE
    BY <1>1, <2>2 DEF Pending, Shown, ToSet
  <2>3. ~Kept(c) /\ Awaited(c)
    BY <2>1, <2>2 DEF Kept, Awaited
  <2>4. Gone(c)
    BY <1>1, <2>3, VanishStep
  <2>5. QED
    BY <2>1, <2>4, OwnIds DEF Gone
<1>2. ASSUME CInv, [Next]_vars, NEW s \in Starts, Has(RunId(s)), ~Has(RunId(s))'
      PROVE  \/ Asked(RunId(s))
             \/ \E k \in Slots : /\ calls[k] # NoCall /\ calls[k].answer = "200"
                                 /\ \A r \in calls[k].runs : r.run # s
  <2>1. PICK c \in Shown : c.id = RunId(s)
    BY <1>2 DEF Has, Shown, ToSet
  <2>2. ASSUME NEW d \in Shown', d.id = RunId(s) PROVE FALSE
    BY <1>2, <2>2 DEF Has, Shown, ToSet
  <2>3. ~Kept(c) /\ Awaited(c)
    BY <2>1, <2>2 DEF Kept, Awaited
  <2>4. Gone(c)
    BY <1>2, <2>3, VanishStep
  <2>5. QED
    BY <2>1, <2>4, OwnIds DEF Gone, OldList
<1>3. Spec => PendingStays
  <2>1. CInv /\ [Next]_vars =>
          [\A s \in Starts : (Pending(s) /\ ~Pending(s)') =>
             stream'[s].link = "settled" \/ Asked(ChatId(s))]_vars
    BY <1>1
  <2>2. QED
    BY <2>1, ChatInvariant, PTL DEF Spec, PendingStays
<1>4. Spec => OnlyOldListsHide
  <2>1. CInv /\ [Next]_vars =>
          [\A s \in Starts :
             (s \in DOMAIN shelf /\ Has(RunId(s)) /\ ~Has(RunId(s))') =>
               \/ Asked(RunId(s))
               \/ \E k \in Slots : /\ calls[k] # NoCall /\ calls[k].answer = "200"
                                   /\ \A r \in calls[k].runs : r.run # s]_vars
    BY <1>2
  <2>2. QED
    BY <2>1, ChatInvariant, PTL DEF Spec, OnlyOldListsHide
<1>5. QED
  BY <1>3, <1>4 DEF NothingVanishes
================================================================================
