----------------------------- MODULE RunStore_proofs -----------------------------
(***************************************************************************)
(* Proofs about RunStore, for every set of runs, of clients and of         *)
(* citations and any number of crashes.                                    *)
(*                                                                         *)
(* Once a run is settled only the calls of clients touch it, so what a     *)
(* rename has read of it is out of date in its title at most, and a delete *)
(* that has removed the citations finds none when it removes the run.      *)
(***************************************************************************)
EXTENDS RunStore, TLAPS

RunData   == [outcome : Outcomes, title : Clients \union {NoTitle},
              citations : {Citations(K) : K \in SUBSET CiteIds}]
RunRow    == [status : Outcomes, data : RunData]
CallState == {NoCall}
             \union [do : {"rename.select", "delete.citations", "delete.run"}, run : RunIds]
             \union [do : {"rename.update"}, run : RunIds, data : RunData]

\* The types TypeOK leaves open.
Typed ==
  /\ DOMAIN runs \subseteq RunIds
  /\ runs \in [DOMAIN runs -> RunRow]
  /\ run_citations \subseteq
       [run_id : RunIds, citation_id : CiteIds, snapshot : {"raw"}]
  /\ writer \in [RunIds -> {"running"} \union Storing \union Settled]
  /\ cited \in [RunIds -> SUBSET CiteIds]
  /\ call \in [Clients -> CallState]
  /\ removed \in [RunIds -> Nat]
  /\ crashes \in 0..MaxCrashes

\* A call is for a settled run; what a rename holds of a run that is still
\* there is the run with another title.
CallOf(c) ==
  call[c] # NoCall =>
    LET r == call[c].run IN
      /\ writer[r] \in Settled
      /\ call[c].do = "delete.run" => CitationRows(r) = {}
      /\ (call[c].do = "rename.update" /\ Stored(r)) =>
            call[c].data = [runs[r].data EXCEPT !.title = TitleOf(c)]

\* A run that was removed stays away, with all of its rows.
RemovedOf(r) ==
  /\ removed[r] \in {0, 1}
  /\ removed[r] = 1 => writer[r] \in Settled /\ ~Stored(r) /\ CitationRows(r) = {}

\* What is stored of a run while its generator is storing it.
WriterOf(r) ==
  /\ Stored(r) => runs[r].status = runs[r].data.outcome
  /\ At(r, "running") => ~Stored(r) /\ CitationRows(r) = {}
  /\ writer[r] \in {"clearing", "inserting"} =>
       Stored(r) /\ runs[r].data = Data("complete", cited[r])
  /\ At(r, "inserting") => CitationRows(r) \subseteq RowsOf(r, Citations(cited[r]))

\* What both endpoints show of a run that was told complete.
ToldOf(r) ==
  (At(r, "told") /\ Stored(r) /\ ~Deleting(r) /\ runs[r].data.outcome = "complete") =>
    CitationRows(r) = RowsOf(r, runs[r].data.citations) \/ crashes > 0

IInv ==
  /\ Typed
  /\ \A c \in Clients : CallOf(c)
  /\ \A r \in RunIds : RemovedOf(r) /\ WriterOf(r) /\ ToldOf(r)

USE DEF At, GoTo, Proceed, tables, Stored, NoCall, Call, Holding, Outcomes, Settled,
        Storing

\* No run is stored and no call is in flight at first.
LEMMA InvInit == Init => IInv
BY StoreAssumption DEF Init, IInv, Typed, CallState, CallOf, RemovedOf,
                      WriterOf, ToldOf, CitationRows

\* A call in flight is for a settled run.
LEMMA CallRun ==
  ASSUME IInv, NEW c \in Clients, call[c] # NoCall
  PROVE  call[c].run \in RunIds /\ writer[call[c].run] \in Settled
BY DEF IInv, Typed, CallState, CallOf

\* The row of a run has the fields of one.
LEMMA RowFields ==
  ASSUME IInv, NEW r, Stored(r)
  PROVE  /\ r \in RunIds /\ runs[r] \in RunRow
         /\ runs[r] = [status |-> runs[r].status, data |-> runs[r].data]
         /\ runs[r].status \in Outcomes
         /\ runs[r].data \in RunData
         /\ runs[r].data.outcome \in Outcomes
BY DEF IInv, Typed, RunRow, RunData

\* An inserted row is the row of one of the run's citations.
LEMMA InsertedRow ==
  ASSUME IInv, NEW r \in RunIds, InsertCitation(r)
  PROVE  \E k \in cited[r] :
           /\ k \in CiteIds
           /\ run_citations' = run_citations \union
                {[run_id |-> r, citation_id |-> k, snapshot |-> "raw"]}
           /\ [run_id |-> r, citation_id |-> k, snapshot |-> "raw"]
                \in RowsOf(r, Citations(cited[r]))
<1>1. PICK row \in RowsOf(r, Citations(cited[r])) :
        InsertCitationRow(row.run_id, row.citation_id, row.snapshot)
  BY DEF InsertCitation, Missing
<1>2. PICK k \in cited[r] : row = [run_id |-> r, citation_id |-> k, snapshot |-> "raw"]
  BY DEF RowsOf, Citations
<1>3. QED
  BY <1>1, <1>2 DEF InsertCitationRow, IInv, Typed

\* Which runs are being deleted can be seen from the calls.
LEMMA SameDeleting == UNCHANGED call => \A r : Deleting(r)' = Deleting(r)
BY DEF Deleting, CallsOn

\* What a run is besides its calls: its generator and its rows.
SameRun(q) ==
  /\ writer'[q] = writer[q] /\ cited'[q] = cited[q]
  /\ Stored(q)' <=> Stored(q)
  /\ Stored(q) => runs'[q] = runs[q]
  /\ CitationRows(q)' = CitationRows(q)

\* A generator that is not settled leaves the calls and the other runs alone.
LEMMA OthersKept ==
  ASSUME IInv, NEW r \in RunIds, writer[r] \notin Settled,
         UNCHANGED <<call, removed, crashes>>,
         \A q \in RunIds \ {r} : SameRun(q),
         Typed', WriterOf(r)', ToldOf(r)'
  PROVE  IInv'
<1>1. ASSUME NEW c \in Clients PROVE CallOf(c)'
  <2>1. CASE call[c] = NoCall
    BY <2>1 DEF CallOf
  <2>2. CASE call[c] # NoCall
    <3>1. PICK x \in RunIds : x = call[c].run /\ writer[x] \in Settled
      BY <2>2, CallRun
    <3>2. SameRun(x)
      BY <3>1
    <3>3. CallOf(c)
      BY DEF IInv
    <3>4. QED
      BY <2>2, <3>1, <3>2, <3>3 DEF CallOf, SameRun
  <2>3. QED
    BY <2>1, <2>2
<1>2. ASSUME NEW q \in RunIds \ {r} PROVE RemovedOf(q)' /\ WriterOf(q)' /\ ToldOf(q)'
  <2>1. SameRun(q) /\ RemovedOf(q) /\ WriterOf(q) /\ ToldOf(q)
    BY DEF IInv
  <2>2. RemovedOf(q)'
    BY <2>1 DEF SameRun, RemovedOf
  <2>3. WriterOf(q)'
    BY <2>1 DEF SameRun, WriterOf
  <2>4. ToldOf(q)'
    BY <2>1, SameDeleting DEF SameRun, ToldOf
  <2>5. QED
    BY <2>2, <2>3, <2>4
<1>3. RemovedOf(r)'
  BY DEF IInv, RemovedOf
<1>4. QED
  BY <1>1, <1>2, <1>3 DEF IInv

\* A generator that stores its run keeps the invariant.
LEMMA WriterStep ==
  ASSUME IInv, NEW r \in RunIds, Writer(r)
  PROVE  IInv'
<1>1. /\ writer[r] \notin Settled
      /\ UNCHANGED <<call, removed, crashes>>
  BY DEF Writer, Raise, Abandon, Save, ClearCitations, InsertCitation, Complete, Fail
<1>2. Typed /\ WriterOf(r)
  BY DEF IInv
<1> SUFFICES Typed' /\ (\A q \in RunIds \ {r} : SameRun(q)) /\ WriterOf(r)' /\ ToldOf(r)'
  BY <1>1, OthersKept
<1>3. CASE Raise(r) \/ Abandon(r)
  <2>1. /\ UNCHANGED <<tables, cited, call, removed, crashes>>
        /\ \E place \in {"handler", "gone"} : writer' = [writer EXCEPT ![r] = place]
    BY <1>3 DEF Raise, Abandon
  <2>2. Typed'
    BY <1>2, <2>1 DEF Typed
  <2>3. \A q \in RunIds \ {r} : SameRun(q)
    BY <1>2, <2>1 DEF Typed, SameRun, CitationRows
  <2>4. WriterOf(r)' /\ ToldOf(r)'
    BY <1>2, <2>1 DEF Typed, WriterOf, ToldOf
  <2>5. QED
    BY <2>2, <2>3, <2>4
<1>4. CASE Save(r)
  <2>1. PICK K \in SUBSET CiteIds :
          /\ cited' = [cited EXCEPT ![r] = K]
          /\ UpsertRun(r, "complete", Data("complete", K))
    BY <1>4 DEF Save
  <2>2. writer' = [writer EXCEPT ![r] = "clearing"] /\ UNCHANGED run_citations
    BY <1>4 DEF Save
  <2>3. runs'[r] = [status |-> "complete", data |-> Data("complete", K)] /\ Stored(r)'
    BY <2>1 DEF UpsertRun
  <2>4. Typed'
    <3>1. [status |-> "complete", data |-> Data("complete", K)] \in RunRow
      BY DEF RunRow, RunData, Data
    <3>2. QED
      BY <1>1, <1>2, <2>1, <2>2, <3>1 DEF Typed, UpsertRun
  <2>5. \A q \in RunIds \ {r} : SameRun(q)
    BY <1>2, <2>1, <2>2 DEF Typed, SameRun, UpsertRun, CitationRows
  <2>6. writer'[r] = "clearing" /\ cited'[r] = K
    BY <1>2, <2>1, <2>2 DEF Typed
  <2>7. WriterOf(r)' /\ ToldOf(r)'
    <3>1. runs'[r].status = runs'[r].data.outcome
      BY <2>3 DEF Data
    <3>2. QED
      BY <2>3, <2>6, <3>1 DEF WriterOf, ToldOf
  <2>8. QED
    BY <2>4, <2>5, <2>7
<1>5. CASE ClearCitations(r)
  <2>1. /\ run_citations' = {row \in run_citations : row.run_id # r}
        /\ writer' = [writer EXCEPT ![r] = "inserting"]
        /\ UNCHANGED <<runs, cited>>
        /\ At(r, "clearing")
    BY <1>5 DEF ClearCitations, DeleteCitationRows
  <2>2. Typed'
    BY <1>1, <1>2, <2>1 DEF Typed
  <2>3. \A q \in RunIds \ {r} : SameRun(q)
    BY <1>2, <2>1 DEF Typed, SameRun, CitationRows
  <2>4. CitationRows(r)' = {}
    BY <2>1 DEF CitationRows
  <2>5. WriterOf(r)' /\ ToldOf(r)'
    BY <1>2, <2>1, <2>4 DEF Typed, WriterOf, ToldOf
  <2>6. QED
    BY <2>2, <2>3, <2>5
<1>6. CASE InsertCitation(r)
  <2>1. PICK k \in cited[r] :
          /\ k \in CiteIds
          /\ run_citations' = run_citations \union
               {[run_id |-> r, citation_id |-> k, snapshot |-> "raw"]}
          /\ [run_id |-> r, citation_id |-> k, snapshot |-> "raw"]
               \in RowsOf(r, Citations(cited[r]))
    BY <1>6, InsertedRow
  <2>2. At(r, "inserting") /\ UNCHANGED <<runs, writer, cited>>
    BY <1>6 DEF InsertCitation
  <2>3. Typed'
    BY <1>1, <1>2, <2>1, <2>2 DEF Typed
  <2>4. \A q \in RunIds \ {r} : SameRun(q)
    BY <2>1, <2>2 DEF SameRun, CitationRows
  <2>5. CitationRows(r)' \subseteq CitationRows(r) \union RowsOf(r, Citations(cited[r]))
    BY <2>1 DEF CitationRows
  <2>6. WriterOf(r)' /\ ToldOf(r)'
    BY <1>2, <2>2, <2>5 DEF WriterOf, ToldOf
  <2>7. QED
    BY <2>3, <2>4, <2>6
<1>7. CASE Complete(r)
  <2>1. /\ At(r, "inserting") /\ Missing(r) = {}
        /\ writer' = [writer EXCEPT ![r] = "told"]
        /\ UNCHANGED <<tables, cited>>
    BY <1>7 DEF Complete
  <2>2. Typed'
    BY <1>1, <1>2, <2>1 DEF Typed
  <2>3. \A q \in RunIds \ {r} : SameRun(q)
    BY <1>2, <2>1 DEF Typed, SameRun, CitationRows
  <2>4. CitationRows(r) = RowsOf(r, runs[r].data.citations)
    <3>1. runs[r].data = Data("complete", cited[r])
      BY <1>2, <2>1 DEF WriterOf
    <3>2. runs[r].data.citations = Citations(cited[r])
      BY <3>1 DEF Data
    <3>3. CitationRows(r) \subseteq RowsOf(r, Citations(cited[r]))
      BY <1>2, <2>1 DEF WriterOf
    <3>4. RowsOf(r, Citations(cited[r])) \subseteq CitationRows(r)
      BY <2>1 DEF Missing
    <3>5. QED
      BY <3>2, <3>3, <3>4
  <2>5. CitationRows(r)' = RowsOf(r, runs'[r].data.citations)
    BY <2>1, <2>4 DEF CitationRows
  <2>6. WriterOf(r)'
    BY <1>2, <2>1 DEF Typed, WriterOf
  <2>7. ToldOf(r)'
    BY <2>5 DEF ToldOf
  <2>8. QED
    BY <2>2, <2>3, <2>6, <2>7
<1>8. CASE Fail(r)
  <2>1. UNCHANGED <<run_citations, cited>>
    BY <1>8 DEF Fail
  <2>2. CASE UpsertRun(r, "failed", Data("failed", {})) /\ GoTo(r, "told")
    <3>1. runs'[r] = [status |-> "failed", data |-> Data("failed", {})] /\ Stored(r)'
      BY <2>2 DEF UpsertRun
    <3>2. Typed'
      <4>1. [status |-> "failed", data |-> Data("failed", {})] \in RunRow
        BY DEF RunRow, RunData, Data
      <4>2. QED
        BY <1>1, <1>2, <2>1, <2>2, <4>1 DEF Typed, UpsertRun
    <3>3. \A q \in RunIds \ {r} : SameRun(q)
      BY <1>2, <2>1, <2>2 DEF Typed, SameRun, UpsertRun, CitationRows
    <3>4. writer'[r] = "told"
      BY <1>2, <2>2 DEF Typed
    <3>5. runs'[r].status = "failed" /\ runs'[r].data.outcome = "failed"
      BY <3>1 DEF Data
    <3>6. WriterOf(r)' /\ ToldOf(r)'
      BY <3>4, <3>5 DEF WriterOf, ToldOf
    <3>7. QED
      BY <3>2, <3>3, <3>6
  <2>3. CASE UNCHANGED runs /\ GoTo(r, "died")
    <3>1. Typed'
      BY <1>1, <1>2, <2>1, <2>3 DEF Typed
    <3>2. \A q \in RunIds \ {r} : SameRun(q)
      BY <1>2, <2>1, <2>3 DEF Typed, SameRun, CitationRows
    <3>3. WriterOf(r)' /\ ToldOf(r)'
      BY <1>2, <2>3 DEF Typed, WriterOf, ToldOf
    <3>4. QED
      BY <3>1, <3>2, <3>3
  <2>4. QED
    BY <1>8, <2>2, <2>3 DEF Fail
<1>9. QED
  BY <1>3, <1>4, <1>5, <1>6, <1>7, <1>8 DEF Writer

\* So does a call of a client.
LEMMA ClientStep ==
  ASSUME IInv, NEW c \in Clients, Client(c)
  PROVE  IInv'
<1> USE DEF IInv, Typed
<1>1. CASE Begin(c)
  <2>1. Typed'
    BY <1>1 DEF Begin, CallState
  <2>2. \A d \in Clients : CallOf(d)'
    BY <1>1 DEF Begin, Known, CallOf, CitationRows
  <2>3. \A q \in RunIds : RemovedOf(q)'
    BY <1>1 DEF Begin, RemovedOf, CitationRows
  <2>4. \A q \in RunIds : WriterOf(q)'
    BY <1>1 DEF Begin, WriterOf, CitationRows
  <2>5. \A q \in RunIds : ToldOf(q)'
    BY <1>1 DEF Begin, ToldOf, Deleting, CallsOn, CitationRows
  <2>6. QED
    BY <2>1, <2>2, <2>3, <2>4, <2>5
<1>2. CASE RenameSelect(c)
  <2> DEFINE r == call[c].run
  <2>0. /\ call[c] # NoCall /\ r \in RunIds /\ writer[r] \in Settled
        /\ UNCHANGED <<tables, writer, cited, removed, crashes>>
    BY <1>2, CallRun DEF RenameSelect
  <2>1. CASE ~Stored(r)
    <3>1. call' = [call EXCEPT ![c] = NoCall]
      BY <1>2, <2>1 DEF RenameSelect
    <3>2. Typed'
      BY <2>0, <3>1 DEF CallState
    <3>3. \A d \in Clients : CallOf(d)'
      BY <2>0, <3>1 DEF CallOf, CitationRows
    <3>4. \A q \in RunIds : Deleting(q)' = Deleting(q)
      BY <1>2, <3>1 DEF RenameSelect, Deleting, CallsOn
    <3>5. \A q \in RunIds : RemovedOf(q)' /\ WriterOf(q)' /\ ToldOf(q)'
      BY <2>0, <3>4 DEF RemovedOf, WriterOf, ToldOf, CitationRows
    <3>6. QED
      BY <3>2, <3>3, <3>5
  <2>2. CASE Stored(r)
    <3> DEFINE data == [runs[r].data EXCEPT !.title = TitleOf(c)]
    <3>1. call' = [call EXCEPT ![c] = Holding(r, data)]
      BY <1>2, <2>2 DEF RenameSelect
    <3>2. data \in RunData
      BY <2>2, RowFields DEF RunData, TitleOf
    <3>3. Holding(r, data) \in CallState
      BY <2>0, <3>2 DEF CallState
    <3>4. Typed'
      BY <2>0, <3>1, <3>3
    <3>5. \A d \in Clients : CallOf(d)'
      <4> HIDE DEF data
      <4>1. CallOf(c)'
        BY <2>0, <3>1 DEF CallOf, CitationRows, data
      <4>2. ASSUME NEW d \in Clients \ {c} PROVE CallOf(d)'
        BY <2>0, <3>1, <4>2 DEF CallOf, CitationRows
      <4>3. QED
        BY <4>1, <4>2
    <3>6. \A q \in RunIds : Deleting(q)' = Deleting(q)
      BY <1>2, <3>1 DEF RenameSelect, Deleting, CallsOn
    <3>7. \A q \in RunIds : RemovedOf(q)' /\ WriterOf(q)' /\ ToldOf(q)'
      BY <2>0, <3>6 DEF RemovedOf, WriterOf, ToldOf, CitationRows
    <3>8. QED
      BY <3>4, <3>5, <3>7
  <2>3. QED
    BY <2>1, <2>2
<1>3. CASE RenameUpdate(c)
  <2> DEFINE r == call[c].run
             data == call[c].data
  <2>0. /\ call[c] # NoCall /\ r \in RunIds /\ writer[r] \in Settled
        /\ call' = [call EXCEPT ![c] = NoCall]
        /\ UNCHANGED <<run_citations, writer, cited, removed, crashes>>
    BY <1>3, CallRun DEF RenameUpdate
  <2>1. data \in RunData
    BY <1>3, <2>0 DEF RenameUpdate, CallState
  <2>2. /\ DOMAIN runs' = DOMAIN runs
        /\ \A q \in DOMAIN runs \ {r} : runs'[q] = runs[q]
        /\ Stored(r) => runs'[r] = [status |-> runs[r].status, data |-> data]
    <3>1. Stored(r) => [runs[r] EXCEPT !.data = data]
                         = [status |-> runs[r].status, data |-> data]
      BY RowFields DEF RunRow
    <3>2. QED
      BY <1>3, <3>1 DEF RenameUpdate, UpdateData
  <2>3. runs' \in [DOMAIN runs' -> RunRow]
    <3>1. \A q \in DOMAIN runs : runs'[q] \in RunRow
      BY <2>1, <2>2, RowFields DEF RunRow
    <3>2. QED
      BY <1>3, <2>2, <3>1 DEF RenameUpdate, UpdateData
  <2>4. Typed'
    BY <2>0, <2>2, <2>3 DEF CallState
  <2>5. Stored(r) => data = [runs[r].data EXCEPT !.title = TitleOf(c)]
    BY <1>3, <2>0 DEF RenameUpdate, CallOf
  <2>6. Stored(r) => /\ data.outcome = runs[r].data.outcome
                     /\ data.citations = runs[r].data.citations
    BY <2>5, RowFields DEF RunData
  <2>7. ASSUME NEW d \in Clients PROVE CallOf(d)'
    <3>1. CASE d = c \/ call[d] = NoCall
      BY <2>0, <3>1 DEF CallOf
    <3>2. CASE d # c /\ call[d] # NoCall /\ call[d].run # r
      BY <2>0, <2>2, <3>2 DEF CallOf, CitationRows
    <3>3. CASE d # c /\ call[d] # NoCall /\ call[d].run = r
      <4>1. Stored(r) => [runs'[r].data EXCEPT !.title = TitleOf(d)]
                           = [runs[r].data EXCEPT !.title = TitleOf(d)]
        <5>1. Stored(r) => runs'[r].data = [runs[r].data EXCEPT !.title = TitleOf(c)]
          BY <2>2, <2>5
        <5>2. \A old \in RunData : \A t, u :
                [[old EXCEPT !.title = t] EXCEPT !.title = u] = [old EXCEPT !.title = u]
          BY DEF RunData
        <5>3. Stored(r) => runs[r].data \in RunData
          BY RowFields
        <5>4. QED
          BY <5>1, <5>2, <5>3, Zenon
      <4>2. call'[d] = call[d] /\ writer' = writer /\ TitleOf(d)' = TitleOf(d)
        BY <2>0, <3>3 DEF TitleOf
      <4>3. \A q : CitationRows(q)' = CitationRows(q)
        BY <2>0 DEF CitationRows
      <4>4. call[d].do = "rename.update" /\ r \in DOMAIN runs' =>
              call[d].data = [runs'[r].data EXCEPT !.title = TitleOf(d)]
        <5>1. r \in DOMAIN runs' => Stored(r)
          BY <2>2
        <5>2. call[d].do = "rename.update" /\ Stored(r) =>
                call[d].data = [runs[r].data EXCEPT !.title = TitleOf(d)]
          BY <3>3 DEF CallOf
        <5>3. QED
          BY <4>1, <5>1, <5>2
      <4>5. writer[r] \in Settled /\ (call[d].do = "delete.run" => CitationRows(r) = {})
        BY <3>3 DEF CallOf
      <4>6. QED
        BY <3>3, <4>2, <4>3, <4>4, <4>5 DEF CallOf
    <3>4. QED
      BY <3>1, <3>2, <3>3
  <2>8. \A q \in RunIds : RemovedOf(q)'
    BY <2>0, <2>2 DEF RemovedOf, CitationRows
  <2>9. \A q \in RunIds : WriterOf(q)'
    BY <2>0, <2>2, <2>6 DEF WriterOf, CitationRows
  <2>10. \A q \in RunIds : Deleting(q)' = Deleting(q)
    BY <1>3, <2>0 DEF RenameUpdate, Deleting, CallsOn
  <2>11. \A q \in RunIds : ToldOf(q)'
    BY <2>0, <2>2, <2>6, <2>10 DEF ToldOf, CitationRows
  <2>12. QED
    BY <2>4, <2>7, <2>8, <2>9, <2>11
<1>4. CASE DeleteCitations(c)
  <2> DEFINE r == call[c].run
  <2>0. /\ call[c] # NoCall /\ r \in RunIds /\ writer[r] \in Settled
        /\ call' = [call EXCEPT ![c] = Call("delete.run", r)]
        /\ UNCHANGED <<runs, writer, cited, removed, crashes>>
    BY <1>4, CallRun DEF DeleteCitations
  <2>1. /\ CitationRows(r)' = {}
        /\ \A q \in RunIds \ {r} : CitationRows(q)' = CitationRows(q)
    BY <1>4 DEF DeleteCitations, DeleteCitationRows, CitationRows
  <2>2. Typed'
    BY <1>4, <2>0 DEF DeleteCitations, DeleteCitationRows, CallState
  <2>3. ASSUME NEW d \in Clients PROVE CallOf(d)'
    <3>1. CASE d = c
      BY <2>0, <2>1, <3>1 DEF CallOf
    <3>2. CASE d # c /\ call[d] = NoCall
      BY <2>0, <3>2 DEF CallOf
    <3>3. CASE d # c /\ call[d] # NoCall
      BY <2>0, <2>1, <3>3, CallRun DEF CallOf
    <3>4. QED
      BY <3>1, <3>2, <3>3
  <2>4. \A q \in RunIds : RemovedOf(q)'
    BY <2>0, <2>1 DEF RemovedOf
  <2>5. \A q \in RunIds : WriterOf(q)'
    BY <2>0, <2>1 DEF WriterOf
  <2>6. /\ Deleting(r)'
        /\ \A q \in RunIds \ {r} : Deleting(q)' = Deleting(q)
    BY <1>4, <2>0 DEF DeleteCitations, Deleting, CallsOn
  <2>7. \A q \in RunIds : ToldOf(q)'
    BY <2>0, <2>1, <2>6 DEF ToldOf
  <2>8. QED
    BY <2>2, <2>3, <2>4, <2>5, <2>7
<1>5. CASE DeleteRun(c)
  <2> DEFINE r == call[c].run
  <2>0. /\ call[c] # NoCall /\ r \in RunIds /\ writer[r] \in Settled
        /\ CitationRows(r) = {}
        /\ call' = [call EXCEPT ![c] = NoCall]
        /\ UNCHANGED <<run_citations, writer, cited, crashes>>
    <3>1. call[c] # NoCall /\ call[c].do = "delete.run"
      BY <1>5 DEF DeleteRun
    <3>2. CitationRows(r) = {}
      BY <3>1 DEF CallOf
    <3>3. QED
      BY <1>5, <3>1, <3>2, CallRun DEF DeleteRun
  <2>1. /\ DOMAIN runs' = DOMAIN runs \ {r}
        /\ \A q \in DOMAIN runs \ {r} : runs'[q] = runs[q]
        /\ removed' = IF Stored(r) THEN [removed EXCEPT ![r] = @ + 1] ELSE removed
    BY <1>5 DEF DeleteRun, DeleteRunRow
  <2>2. Typed'
    BY <1>5, <2>0, <2>1 DEF DeleteRun, DeleteRunRow, CallState
  <2>3. ASSUME NEW d \in Clients PROVE CallOf(d)'
    <3>1. CASE d = c \/ call[d] = NoCall
      BY <2>0, <3>1 DEF CallOf
    <3>2. CASE d # c /\ call[d] # NoCall
      BY <2>0, <2>1, <3>2 DEF CallOf, CitationRows
    <3>3. QED
      BY <3>1, <3>2
  <2>4. \A q \in RunIds : RemovedOf(q)'
    BY <2>0, <2>1 DEF RemovedOf, CitationRows
  <2>5. \A q \in RunIds : WriterOf(q)'
    BY <2>0, <2>1 DEF WriterOf, CitationRows
  <2>6. \A q \in RunIds \ {r} : Deleting(q)' = Deleting(q)
    BY <1>5, <2>0 DEF DeleteRun, Deleting, CallsOn
  <2>7. \A q \in RunIds : ToldOf(q)'
    BY <2>0, <2>1, <2>6 DEF ToldOf, CitationRows
  <2>8. QED
    BY <2>2, <2>3, <2>4, <2>5, <2>7
<1>6. QED
  BY <1>1, <1>2, <1>3, <1>4, <1>5 DEF Client

\* A crash settles every run and ends every call.
LEMMA CrashStep ==
  ASSUME IInv, Crash
  PROVE  IInv'
<1>1. Typed'
  BY StoreAssumption DEF Crash, IInv, Typed, CallState
<1>2. \A c \in Clients : CallOf(c)'
  BY DEF Crash, CallOf
<1>3. \A r \in RunIds : RemovedOf(r)' /\ WriterOf(r)'
  BY DEF Crash, IInv, Typed, RemovedOf, WriterOf, CitationRows
<1>4. \A r \in RunIds : ToldOf(r)'
  BY DEF Crash, IInv, Typed, ToldOf
<1>5. QED
  BY <1>1, <1>2, <1>3, <1>4 DEF IInv

\* IInv is inductive.
LEMMA InvAlways == Spec => []IInv
<1>1. ASSUME IInv, UNCHANGED vars PROVE IInv'
  <2>1. \A r : Deleting(r)' = Deleting(r) /\ CitationRows(r)' = CitationRows(r)
    BY <1>1, SameDeleting DEF vars, CitationRows
  <2>2. Typed' /\ \A c \in Clients : CallOf(c)'
    BY <1>1, <2>1 DEF vars, IInv, Typed, CallOf
  <2>3. \A r \in RunIds : RemovedOf(r)' /\ WriterOf(r)' /\ ToldOf(r)'
    BY <1>1, <2>1 DEF vars, IInv, RemovedOf, WriterOf, ToldOf
  <2>4. QED
    BY <2>2, <2>3 DEF IInv
<1>2. IInv /\ [Next]_vars => IInv'
  BY <1>1, WriterStep, ClientStep, CrashStep DEF Next
<1>3. QED
  BY <1>2, InvInit, PTL DEF Spec

--------------------------------------------------------------------------------
(***************************************************************************)
(* The status column and the outcome in the record agree for ever, though  *)
(* a rename writes only one of them (run_store.py:176-199, 321-324).       *)
(***************************************************************************)
THEOREM ColumnsAlwaysAgree == Spec => []ColumnsAgree
<1>1. IInv => ColumnsAgree
  BY DEF IInv, Typed, WriterOf, ColumnsAgree
<1>2. QED
  BY <1>1, InvAlways, PTL

(***************************************************************************)
(* Of all deletes of a run at most one is answered with 204                *)
(* (run_store.py:305-309).                                                 *)
(***************************************************************************)
THEOREM OneDeleteSucceeds == Spec => []DeletedOnce
<1>1. IInv => DeletedOnce
  BY DEF IInv, RemovedOf, DeletedOnce
<1>2. QED
  BY <1>1, InvAlways, PTL

(***************************************************************************)
(* Both endpoints show the same citations of a run that was told complete, *)
(* and a deleted run leaves no row behind (run_store.py:196-257, 305-309). *)
(***************************************************************************)
THEOREM CitationsAlwaysFollow == Spec => []CitationsFollowRun
<1>1. IInv => CitationsFollowRun
  BY DEF IInv, Typed, RemovedOf, ToldOf, CitationsFollowRun
<1>2. QED
  BY <1>1, InvAlways, PTL

(***************************************************************************)
(* Every row, generator and call stays in its domain, whatever statements  *)
(* of routes and generators interleave (run_store.py:166-325).             *)
(***************************************************************************)
THEOREM StoreTypes == Spec => []TypeOK
<1>1. IInv => TypeOK
  BY DEF IInv, Typed, RunRow, RunData, CallState, TypeOK
<1>2. QED
  BY <1>1, InvAlways, PTL

--------------------------------------------------------------------------------
\* The history and the settled runs, as ImplementsShelf maps them.
History == [r \in DOMAIN runs |-> [outcome |-> runs[r].data.outcome,
                                   title   |-> runs[r].data.title]]
Over    == {r \in RunIds : writer[r] \in Settled}

\* What a generator stores is put on the shelf while its run is open.
LEMMA StoringIsPut ==
  ASSUME IInv, NEW r \in RunIds, writer[r] \notin Settled,
         NEW o \in Outcomes, NEW K \in SUBSET CiteIds,
         UpsertRun(r, o, Data(o, K)),
         NEW place, GoTo(r, place)
  PROVE  Shelf!Put(r, o)
<1>1. History' = [q \in DOMAIN History \union {r} |->
                   IF q = r THEN [outcome |-> o, title |-> NoTitle] ELSE History[q]]
  BY DEF UpsertRun, Data, History
<1>2. Over' \in {Over, Over \union {r}}
  BY DEF IInv, Typed, Over
<1>3. r \notin Over
  BY DEF Over
<1>4. QED
  BY <1>1, <1>2, <1>3 DEF Shelf!Put, History, Over

\* A run that is over stays over, and nothing else happens to the history.
LEMMA EndIsSettle ==
  ASSUME IInv, UNCHANGED runs, Over \subseteq Over'
  PROVE  Shelf!Settle
BY DEF Shelf!Settle, History, Over

\* A generator puts its run on the shelf or ends it.
LEMMA WriterOnShelf ==
  ASSUME IInv, NEW r \in RunIds, Writer(r)
  PROVE  Shelf!Next \/ UNCHANGED <<History, Over>>
<1>1. CASE Save(r)
  <2>1. PICK K \in SUBSET CiteIds : UpsertRun(r, "complete", Data("complete", K))
    BY <1>1 DEF Save
  <2>2. Shelf!Put(r, "complete")
    BY <1>1, <2>1, StoringIsPut DEF Save
  <2>3. QED
    BY <2>2 DEF Shelf!Next
<1>2. CASE Fail(r)
  <2>1. CASE UpsertRun(r, "failed", Data("failed", {})) /\ GoTo(r, "told")
    <3>1. writer[r] \notin Settled /\ {} \in SUBSET CiteIds /\ "failed" \in Outcomes
      BY <1>2 DEF Fail
    <3>2. Shelf!Put(r, "failed")
      BY <2>1, <3>1, StoringIsPut
    <3>3. QED
      BY <3>2 DEF Shelf!Next
  <2>2. CASE UNCHANGED runs /\ GoTo(r, "died")
    BY <2>2, EndIsSettle DEF IInv, Typed, Over, Shelf!Next
  <2>3. QED
    BY <1>2, <2>1, <2>2 DEF Fail
<1>3. CASE Raise(r) \/ Abandon(r) \/ Complete(r)
  <2>1. UNCHANGED runs /\ Over \subseteq Over'
    BY <1>3 DEF Raise, Abandon, Complete, IInv, Typed, Over
  <2>2. QED
    BY <2>1, EndIsSettle DEF Shelf!Next
<1>4. CASE ClearCitations(r) \/ InsertCitation(r)
  <2>1. UNCHANGED runs /\ Over \subseteq Over'
    BY <1>4 DEF ClearCitations, InsertCitation, IInv, Typed, Over
  <2>2. QED
    BY <2>1, EndIsSettle DEF Shelf!Next
<1>5. QED
  BY <1>1, <1>2, <1>3, <1>4 DEF Writer

\* A call retitles a run, removes one or changes nothing one can see.
LEMMA ClientOnShelf ==
  ASSUME IInv, NEW c \in Clients, Client(c)
  PROVE  Shelf!Next \/ UNCHANGED <<History, Over>>
<1>1. CASE Begin(c) \/ RenameSelect(c) \/ DeleteCitations(c)
  BY <1>1 DEF Begin, RenameSelect, DeleteCitations, History, Over
<1>2. CASE RenameUpdate(c)
  <2> DEFINE r == call[c].run
  <2>1. call[c] # NoCall /\ r \in RunIds /\ r \in Over
    BY <1>2, CallRun DEF RenameUpdate, Over
  <2>2. CASE ~Stored(r)
    BY <1>2, <2>2 DEF RenameUpdate, UpdateData, History, Over
  <2>3. CASE Stored(r)
    <3>1. call[c].data = [runs[r].data EXCEPT !.title = c]
      BY <1>2, <2>1, <2>3 DEF RenameUpdate, IInv, CallOf, TitleOf
    <3>2. call[c].data.outcome = runs[r].data.outcome /\ call[c].data.title = c
      BY <2>3, <3>1, RowFields DEF RunData
    <3>3. runs' = [q \in DOMAIN runs |->
                     IF q = r THEN [status |-> runs[r].status, data |-> call[c].data]
                              ELSE runs[q]]
      BY <1>2, <2>3, RowFields DEF RenameUpdate, UpdateData, RunRow
    <3>4. History' = [History EXCEPT ![r].title = c]
      BY <2>3, <3>2, <3>3 DEF History
    <3>5. Shelf!Retitle(r, c)
      BY <1>2, <2>1, <2>3, <3>4 DEF RenameUpdate, Shelf!Retitle, History, Over
    <3>6. QED
      BY <2>1, <3>5 DEF Shelf!Next
  <2>4. QED
    BY <2>2, <2>3
<1>3. CASE DeleteRun(c)
  <2>1. PICK r \in RunIds : r = call[c].run /\ r \in Over
    BY <1>3, CallRun DEF DeleteRun, Over
  <2>2. History' = [q \in DOMAIN History \ {r} |-> History[q]]
    BY <1>3, <2>1 DEF DeleteRun, DeleteRunRow, History
  <2>3. Shelf!Remove(r)
    BY <1>3, <2>1, <2>2 DEF DeleteRun, Shelf!Remove, History, Over
  <2>4. QED
    BY <2>3 DEF Shelf!Next
<1>4. QED
  BY <1>1, <1>2, <1>3 DEF Client

(***************************************************************************)
(* The statements of the store, interleaved, implement the atomic history: *)
(* a rename changes a title and nothing else, overlapping calls end as if  *)
(* one came first, a deleted run is gone (run_store.py:166-325).           *)
(***************************************************************************)
THEOREM StoreImplementsShelf == Spec => ImplementsShelf
<1>1. Init => Shelf!Init
  BY DEF Init, Shelf!Init, Data
<1>2. IInv /\ [Next]_vars => [Shelf!Next]_<<History, Over>>
  <2>1. ASSUME IInv, Crash PROVE Shelf!Next
    <3>1. UNCHANGED runs /\ Over \subseteq Over'
      BY <2>1 DEF Crash, Over
    <3>2. QED
      BY <2>1, <3>1, EndIsSettle DEF Shelf!Next
  <2>2. UNCHANGED vars => UNCHANGED <<History, Over>>
    BY DEF vars, History, Over
  <2>3. QED
    BY <2>1, <2>2, WriterOnShelf, ClientOnShelf DEF Next
<1>3. QED
  BY <1>1, <1>2, InvAlways, PTL DEF Spec, ImplementsShelf, Shelf!Spec, History, Over
================================================================================
