------------------------------- MODULE RunTables -------------------------------
(***************************************************************************)
(* The tables of PostgresRunRepository (src/src/finmind_api/run_store.py)  *)
(* and its SQL statements.  Connections are opened with autocommit, so a   *)
(* statement, not a method, is the unit that is atomic, durable and seen   *)
(* by others; the methods are sequences of these in WorkflowRun and        *)
(* RunStore.                                                               *)
(***************************************************************************)
EXTENDS Integers, FiniteSets

VARIABLES
  runs,           \* run_id -> the row: its status column and its JSON data
  run_citations   \* the rows of run_citations

Stored(id) == id \in DOMAIN runs

\* INSERT ... ON CONFLICT (run_id) DO UPDATE, of save.
UpsertRun(id, status, data) ==
  runs' = [i \in DOMAIN runs \union {id} |->
             IF i = id THEN [status |-> status, data |-> data] ELSE runs[i]]

\* UPDATE runs SET data, of update_title: no row, no effect.
UpdateData(id, data) ==
  runs' = [i \in DOMAIN runs |->
             IF i = id THEN [runs[i] EXCEPT !.data = data] ELSE runs[i]]

DeleteRunRow(id) == runs' = [i \in DOMAIN runs \ {id} |-> runs[i]]

\* The first statement of save_citations and of delete.
DeleteCitationRows(id) ==
  run_citations' = {row \in run_citations : row.run_id # id}

InsertCitationRow(id, citation_id, snapshot) ==
  run_citations' = run_citations \union
    {[run_id |-> id, citation_id |-> citation_id, snapshot |-> snapshot]}

\* The rows of one run, as list_citations selects them.
CitationRows(id) == {row \in run_citations : row.run_id = id}

\* The rows save_citations writes for the citations of a record.
RowsOf(id, citations) ==
  {[run_id |-> id, citation_id |-> c, snapshot |-> citations[c]] :
     c \in DOMAIN citations}
================================================================================
