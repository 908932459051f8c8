-------------------------------- MODULE RunStore --------------------------------
(***************************************************************************)
(* The run store under all its users at once: the generators that store    *)
(* their runs (service.py:388-437), and the clients that rename and delete *)
(* runs of the history (routes/runs.py), statement by statement on the     *)
(* tables of run_store.py.                                                 *)
(*                                                                         *)
(* The rename and delete routes are plain functions, so they run in worker *)
(* threads and their statements interleave with everything.  A generator   *)
(* stores its run on the event loop, without an await between the first    *)
(* statement and the terminal event: no other generator stores meanwhile,  *)
(* and no request that arrives meanwhile is handed to a thread (LoopFree). *)
(*                                                                         *)
(* A client calls for runs it knows from its history or from a terminal    *)
(* event, as the web UI does; run.started carries the id too, but before   *)
(* there is a run to rename or delete.                                     *)
(***************************************************************************)
EXTENDS RunTables

CONSTANTS
  RunIds,
  Clients,      \* calls that may be in flight together
  CiteIds,      \* citations a run may have
  NoTitle,      \* the title of a run nobody renamed: None
  MaxCrashes    \* bound: how often the process dies

ASSUME StoreAssumption == MaxCrashes \in Nat

VARIABLES
  writer,    \* per run, where the generator is with storing it
  cited,     \* per run, the citations its final record embeds
  call,      \* per client, the call in flight and what it has read
  removed,   \* per run, how many deletes were answered with 204
  crashes

tables == <<runs, run_citations>>
vars   == <<tables, writer, cited, call, removed, crashes>>

Outcomes == {"complete", "failed"}
Settled  == {"told", "died", "gone"}
Storing  == {"clearing", "inserting", "handler"}

\* A client renames to a title of its own.
TitleOf(c) == c

NoCitations  == [k \in {} |-> "raw"]
Citations(K) == [k \in K |-> "raw"]
Data(outcome, K) == [outcome |-> outcome, title |-> NoTitle, citations |-> Citations(K)]

NoCall        == [do |-> "nothing"]
Call(do, r)   == [do |-> do, run |-> r]
Holding(r, d) == [do |-> "rename.update", run |-> r, data |-> d]

LoopFree == \A r \in RunIds : writer[r] \notin Storing

Init ==
  /\ runs = [r \in {} |-> [status |-> "failed", data |-> Data("failed", {})]]
  /\ run_citations = {}
  /\ writer  = [r \in RunIds |-> "running"]
  /\ cited   = [r \in RunIds |-> {}]
  /\ call    = [c \in Clients |-> NoCall]
  /\ removed = [r \in RunIds |-> 0]
  /\ crashes = 0

--------------------------------------------------------------------------------
(* The generator of a run.                                                    *)

At(r, place)   == writer[r] = place
GoTo(r, place) == writer' = [writer EXCEPT ![r] = place]

\* An exception: in the run, or from one of the statements that store it.
Raise(r) ==
  /\ writer[r] \in {"running", "clearing", "inserting"}
  /\ At(r, "running") => LoopFree
  /\ GoTo(r, "handler")
  /\ UNCHANGED <<tables, cited, call, removed, crashes>>

\* Closed before it was stored.
Abandon(r) ==
  /\ At(r, "running") /\ LoopFree
  /\ GoTo(r, "gone")
  /\ UNCHANGED <<tables, cited, call, removed, crashes>>

Save(r) ==
  /\ At(r, "running") /\ LoopFree
  /\ \E K \in SUBSET CiteIds :
       /\ cited' = [cited EXCEPT ![r] = K]
       /\ UpsertRun(r, "complete", Data("complete", K))
  /\ GoTo(r, "clearing")
  /\ UNCHANGED <<run_citations, call, removed, crashes>>

ClearCitations(r) ==
  /\ At(r, "clearing")
  /\ DeleteCitationRows(r)
  /\ GoTo(r, "inserting")
  /\ UNCHANGED <<runs, cited, call, removed, crashes>>

Missing(r) == RowsOf(r, Citations(cited[r])) \ CitationRows(r)

InsertCitation(r) ==
  /\ At(r, "inserting")
  /\ \E row \in Missing(r) :
       InsertCitationRow(row.run_id, row.citation_id, row.snapshot)
  /\ UNCHANGED <<runs, writer, cited, call, removed, crashes>>

\* mutant: the status is written where the phase belongs
CompleteAsColumn(r) ==
  /\ At(r, "inserting") /\ Missing(r) = {}
  /\ GoTo(r, "complete")
  /\ UNCHANGED <<tables, cited, call, removed, crashes>>

Complete(r) ==
  /\ At(r, "inserting") /\ Missing(r) = {}
  /\ GoTo(r, "told")
  /\ UNCHANGED <<tables, cited, call, removed, crashes>>

Fail(r) ==
  /\ At(r, "handler")
  /\ \/ UpsertRun(r, "failed", Data("failed", {})) /\ GoTo(r, "told")
     \/ UNCHANGED runs /\ GoTo(r, "died")
  /\ UNCHANGED <<run_citations, cited, call, removed, crashes>>

--------------------------------------------------------------------------------
(* The calls of clients.                                                      *)

\* The runs a client can call for: those it knows from the history or a terminal
\* event, which implies that their execution is over.
KnownFromStart(r) == TRUE                 \* mutant: the id of run.started is used
Known(r) == writer[r] \in Settled
\* A request is handed to a worker thread.
Begin(c) ==
  /\ call[c] = NoCall /\ LoopFree
  /\ \E r \in RunIds, do \in {"rename.select", "delete.citations"} :
       /\ Known(r)
       /\ call' = [call EXCEPT ![c] = Call(do, r)]
  /\ UNCHANGED <<tables, writer, cited, removed, crashes>>

Proceed(c, next) == call' = [call EXCEPT ![c] = next]

\* update_title: the whole record is read ...
RenameSelect(c) ==
  /\ call[c].do = "rename.select"
  /\ LET r == call[c].run IN
       IF Stored(r)
         THEN Proceed(c, Holding(r, [runs[r].data EXCEPT !.title = TitleOf(c)]))
         ELSE Proceed(c, NoCall)                                      \* 404
  /\ UNCHANGED <<tables, writer, cited, removed, crashes>>

\* mutant: the title is put through save, which inserts what is not there
RenameUpdateSaves(c) ==
  /\ call[c].do = "rename.update"
  /\ UpsertRun(call[c].run, call[c].data.outcome, call[c].data)
  /\ Proceed(c, NoCall)
  /\ UNCHANGED <<run_citations, writer, cited, removed, crashes>>

\* ... and written back with the new title; 200 whether or not a row was hit.
RenameUpdate(c) ==
  /\ call[c].do = "rename.update"
  /\ UpdateData(call[c].run, call[c].data)
  /\ Proceed(c, NoCall)
  /\ UNCHANGED <<run_citations, writer, cited, removed, crashes>>

\* mutant: the rows of the citations are left to the row of the run
DeleteSkipsCitations(c) ==
  /\ call[c].do = "delete.citations"
  /\ Proceed(c, Call("delete.run", call[c].run))
  /\ UNCHANGED <<tables, writer, cited, removed, crashes>>

\* delete: first the citations, then the run; 204 if there was a run to delete.
DeleteCitations(c) ==
  /\ call[c].do = "delete.citations"
  /\ DeleteCitationRows(call[c].run)
  /\ Proceed(c, Call("delete.run", call[c].run))
  /\ UNCHANGED <<runs, writer, cited, removed, crashes>>

\* mutant: 204 without asking how many rows the statement hit
DeleteRunAlways(c) ==
  /\ call[c].do = "delete.run"
  /\ LET r == call[c].run IN
       /\ DeleteRunRow(r)
       /\ removed' = [removed EXCEPT ![r] = @ + 1]
  /\ Proceed(c, NoCall)
  /\ UNCHANGED <<run_citations, writer, cited, crashes>>

DeleteRun(c) ==
  /\ call[c].do = "delete.run"
  /\ LET r == call[c].run IN
       /\ DeleteRunRow(r)
       /\ removed' = IF Stored(r) THEN [removed EXCEPT ![r] = @ + 1] ELSE removed
  /\ Proceed(c, NoCall)
  /\ UNCHANGED <<run_citations, writer, cited, crashes>>

--------------------------------------------------------------------------------
\* The process dies and is started again: generators and calls are gone, the
\* tables are as the last statement left them.
Crash ==
  /\ crashes < MaxCrashes
  /\ crashes' = crashes + 1
  /\ writer' = [r \in RunIds |-> IF writer[r] \in Settled THEN writer[r] ELSE "gone"]
  /\ call' = [c \in Clients |-> NoCall]
  /\ UNCHANGED <<tables, cited, removed>>

Writer(r) ==
  \/ Raise(r) \/ Abandon(r) \/ Save(r) \/ ClearCitations(r)
  \/ InsertCitation(r) \/ Complete(r) \/ Fail(r)

Client(c) ==
  \/ Begin(c) \/ RenameSelect(c) \/ RenameUpdate(c)
  \/ DeleteCitations(c) \/ DeleteRun(c)

Next == (\E r \in RunIds : Writer(r)) \/ (\E c \in Clients : Client(c)) \/ Crash

Spec == Init /\ [][Next]_vars

--------------------------------------------------------------------------------
CallsOn(r) == {c \in Clients : call[c] # NoCall /\ call[c].run = r}
Deleting(r) == \E c \in CallsOn(r) : call[c].do = "delete.run"

TypeOK ==
  /\ DOMAIN runs \subseteq RunIds
  /\ \A r \in DOMAIN runs : /\ runs[r].status \in Outcomes
                            /\ runs[r].data.outcome \in Outcomes
                            /\ runs[r].data.title \in Clients \union {NoTitle}
  /\ \A row \in run_citations : row.run_id \in RunIds /\ row.citation_id \in CiteIds
  /\ writer \in [RunIds -> {"running"} \union Storing \union Settled]
  /\ cited \in [RunIds -> SUBSET CiteIds]
  /\ \A c \in Clients :
       call[c].do \in {"nothing", "rename.select", "rename.update",
                       "delete.citations", "delete.run"}
  /\ removed \in [RunIds -> Nat] /\ crashes \in 0..MaxCrashes

(***************************************************************************)
(* The statements of the routes, interleaved, implement the atomic history *)
(* for clients that use what they were told: a rename changes a title and  *)
(* nothing else, though it writes the whole record back; renames and       *)
(* deletes that overlap end as if one came first; a deleted run is gone.   *)
(***************************************************************************)
Shelf == INSTANCE RunShelf WITH
  Titles  <- Clients,
  shelf   <- [r \in DOMAIN runs |-> [outcome |-> runs[r].data.outcome,
                                     title   |-> runs[r].data.title]],
  settled <- {r \in RunIds : writer[r] \in Settled}
ImplementsShelf == Shelf!Spec

(***************************************************************************)
(* The two columns that hold the outcome agree, though a rename writes one *)
(* of them only (run_store.py:176-199, 321-324).                           *)
(***************************************************************************)
ColumnsAgree == \A r \in DOMAIN runs : runs[r].status = runs[r].data.outcome

(***************************************************************************)
(* A run that was told complete shows, in both endpoints, the citations    *)
(* its record embeds, until it is being deleted (api-contract.md:439); and *)
(* once deleted nothing of it is left in either table.                     *)
(***************************************************************************)
CitationsFollowRun ==
  \A r \in RunIds :
    /\ (At(r, "told") /\ Stored(r) /\ ~Deleting(r) /\ runs[r].data.outcome = "complete")
         => \/ CitationRows(r) = RowsOf(r, runs[r].data.citations)
            \/ crashes > 0
    /\ (writer[r] \in Settled /\ ~Stored(r) /\ removed[r] > 0) => CitationRows(r) = {}

(***************************************************************************)
(* One delete of a run is answered with 204, every other one with 404      *)
(* (run_store.py:305-309).                                                 *)
(***************************************************************************)
DeletedOnce == \A r \in RunIds : removed[r] <= 1

\* The response of the citations endpoint matches the record of a run whose end was
\* told, in any state no statement is outstanding in (api-contract.md:439).
CitationsMatch ==
  (LoopFree /\ \A c \in Clients : call[c] = NoCall) =>
    \A r \in DOMAIN runs :
      At(r, "told") => CitationRows(r) = RowsOf(r, runs[r].data.citations)
================================================================================
