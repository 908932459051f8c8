------------------------------- MODULE Evidence -------------------------------
(***************************************************************************)
(* What a run makes of the records it collected: the computed indicators,  *)
(* the records with the ids they are cited by, the patterns of the price   *)
(* series, the bundle each skill sees and may cite, and the citations that *)
(* are kept with the run (workflows/service.py with data_records.py and    *)
(* evidence/); and the answer's way to the browser (SseClient).            *)
(*                                                                         *)
(* A skill's answer is abstracted to what it cites. How it may fail, and   *)
(* what is then saved, is WorkflowRun's.                                   *)
(***************************************************************************)
EXTENDS Collection, Series, SseClient

CONSTANT YearDays   \* the days of a year; dates are numbered days

\* A read of the response returns a number of words, however many.
ASSUME ReadsAreFinite == \A case \in Cases : case.network.chunk \in Nat

VARIABLES
  bundle,      \* the records of the run, as evidence
  citations,   \* the citation of each id: the record it shows
  skill,       \* the index of the skill that is next
  seen,        \* the records each skill so far was given
  used,        \* the ids cited by a skill that was allowed to
  artifacts,   \* the charts of the run
  events       \* the events the run has emitted

evidenceVars == <<bundle, citations, skill, seen, used, artifacts, events>>
vars == <<collectVars, evidenceVars, clientVars>>

Computed == INSTANCE Indicators
Setups == INSTANCE PatternSetups
Drawn == INSTANCE Charts

Foreign == <<"an id that no record has">>
Ids(recs) == {recs[i].id : i \in DOMAIN recs}

-----------------------------------------------------------------------------
(* The records as evidence.                                                *)

\* The price records of the canonical records, and the series of the first there is.
PriceRecordsOf(recs) == Picked(recs, {i \in DOMAIN recs : recs[i].dataset = "prices"})

PriceSeriesOf(recs) ==
  LET prices == PriceRecordsOf(recs)
  IN IF prices = <<>> THEN <<>> ELSE Head(prices).payload

EnrichWithIndicators(recs) ==
  LET series == PriceSeriesOf(recs)
  IN IF "technical" \notin ToSet(SkillsOf[workflow]) \/ series = <<>> THEN recs
     ELSE Append(recs, [dataset |-> "indicators", key |-> "indicators",
                        source |-> "computed_indicators", time |-> Last(series).date,
                        payload |-> Computed!ComputeIndicators(series)])

RecordType ==
  [prices |-> "price_series", fundamentals |-> "fundamental",
   company_profile |-> "company_profile", indicators |-> "indicator"]

DataRecord(type, r, payload) ==
  [type |-> type, id |-> <<r.dataset, r.key>>, time |-> r.time, source |-> r.source,
   payload |-> payload]

\* Statements start out not audited, with the warning that says so.
BuildDataRecord(r) ==
  DataRecord(RecordType[r.dataset], r,
             IF r.dataset = "fundamentals"
             THEN [figures |-> r.payload, is_audited |-> FALSE,
                   audit_warnings |-> <<"audit_not_run">>]
             ELSE r.payload)

Year(date) == date \div YearDays

\* The last bar of each year, the first reported of several on that day.
YearEndPrices(series) ==
  LET later(k, i) == \/ series[k].date > series[i].date
                     \/ series[k].date = series[i].date /\ k < i
      isEnd(i) == ~\E k \in DOMAIN series :
                    Year(series[k].date) = Year(series[i].date) /\ later(k, i)
      ends == SelectSeq([i \in DOMAIN series |-> i], isEnd)
  IN SortSeq([i \in DOMAIN ends |-> [date |-> series[ends[i]].date,
                                     close |-> series[ends[i]].close,
                                     volume |-> series[ends[i]].volume]],
             LAMBDA a, b : a.date < b.date)

\* What is derived of the price series. The summary has the id of the series.
Derived(price) ==
  LET record(type, suffix, payload) ==
        [type |-> type, id |-> price.id \o suffix, time |-> price.time,
         source |-> price.source, payload |-> payload]
  IN << record("price_summary", <<>>, YearEndPrices(price.payload)),
        record("pattern_evidence", <<"pattern_evidence">>,
               Setups!DetectPatternEvidence(price.payload)),
        record("pattern_setup", <<"pattern_setup">>,
               Setups!DetectPatternSetups(price.payload)) >>

BuildDataBundle(recs) ==
  LET built == [i \in DOMAIN recs |-> BuildDataRecord(recs[i])]
      prices == Picked(built, {i \in DOMAIN built : built[i].type = "price_series"})
  IN IF prices = <<>> \/ Head(prices).payload = <<>> THEN built
     ELSE built \o Derived(Head(prices))

LastWith(recs, id) == recs[Max({i \in DOMAIN recs : recs[i].id = id})]

\* A mutant: an id that is known keeps the record it has.
CiteNew(known, recs) ==
  [id \in DOMAIN known \cup Ids(recs) |->
     IF id \in DOMAIN known THEN known[id] ELSE LastWith(recs, id)]

\* citations_by_id.update: of the records with an id, the last one stays.
Cite(known, recs) ==
  [id \in DOMAIN known \cup Ids(recs) |->
     IF id \in Ids(recs) THEN LastWith(recs, id) ELSE known[id]]

Technical == {"indicator", "company_profile", "pattern_evidence", "pattern_setup"}
Fundamental == {"fundamental", "company_profile", "price_summary"}

\* The warnings were there before the audit, so they stay.
MarkAudited(recs) ==
  [i \in DOMAIN recs |-> IF recs[i].type = "fundamental"
                         THEN [recs[i] EXCEPT !.payload.is_audited = TRUE] ELSE recs[i]]

\* A mutant: the records are chosen by their class, of which a summary has none.
SkillDataByClass(name) ==
  LET types == IF name = "technical" THEN Technical ELSE {"fundamental", "company_profile"}
  IN Picked(bundle, {i \in DOMAIN bundle : bundle[i].type \in types})

SkillDataBundle(name) ==
  LET types == IF name = "technical" THEN Technical ELSE Fundamental
      given == Picked(bundle, {i \in DOMAIN bundle : bundle[i].type \in types})
  IN IF name = "fundamental" THEN MarkAudited(given) ELSE given

-----------------------------------------------------------------------------
(* The run.                                                                *)

Event(kind, data) == [kind |-> kind, data |-> data]
Stage(stage, state, told) == Event("run.stage", <<stage, state>> \o told)
Skills == SkillsOf[workflow]

Init ==
  /\ \E case \in Cases : Begin(case) /\ Unsent(case.network)
  /\ bundle = <<>> /\ citations = <<>> /\ skill = 1 /\ seen = <<>> /\ used = {}
  /\ artifacts = <<>> /\ events = <<>>

\* A step of the collection; its first one opens the run's stream of events.
Collect ==
  /\ CollectNext
  /\ events' = IF pc = "prepare" /\ pc' # "rejected"
               THEN <<Event("run.started", <<workflow>>), Stage("collect", "running", <<>>)>>
               ELSE events
  /\ UNCHANGED <<bundle, citations, skill, seen, used, artifacts, clientVars>>

\* What was collected is turned into evidence.
Bundle ==
  /\ pc = "collected"
  /\ Goto("analyse")
  /\ bundle' = BuildDataBundle(EnrichWithIndicators(records))
  /\ citations' = Cite(citations, bundle')
  /\ events' = Append(events, Stage("collect", status, warnings))
  /\ UNCHANGED <<skill, seen, used, artifacts, groups, overview, latest, records, warnings,
                 reasons, provider, status, clientVars>>

\* The text of an answer, which is shown when the skill is the last one.
AnswerDeltas ==
  IF skill < Len(Skills) THEN <<>>
  ELSE <<Event("answer.delta", <<"text", Newline, Newline, "text">>)>>

\* One skill: it sees its bundle, answers, and cites at most one id. A citation
\* is told whenever the id is known to the run, allowed to the skill or not.
Analyse ==
  /\ pc = "analyse" /\ skill <= Len(Skills)
  /\ LET name == Skills[skill]
         given == SkillDataBundle(name)
         known == Cite(citations, given)
     IN /\ seen' = Append(seen, given)
        /\ citations' = known
        /\ \E cited \in {{}} \cup {{id} : id \in DOMAIN known \cup {Foreign}} :
             /\ used' = used \cup (cited \cap Ids(given))
             /\ events' = events \o <<Stage(name, "running", <<>>), Stage(name, "running", <<>>)>>
                          \o AnswerDeltas
                          \o (IF cited \cap DOMAIN known = {} THEN <<>>
                              ELSE <<Event("citation", <<"citation">>)>>)
                          \o <<Stage(name, "success", <<>>)>>
  /\ skill' = skill + 1
  /\ UNCHANGED <<pc, workflow, inputs, market, bundle, artifacts, groups, overview, latest, records,
                 warnings, reasons, provider, status, clientVars>>

\* The chart of what was collected, and the end of the run.
Finish ==
  /\ pc = "analyse" /\ skill > Len(Skills)
  /\ Goto("done")
  /\ artifacts' = <<Drawn!BuildPriceTrendChart(PriceRecordsOf(records), DOMAIN citations)>>
  /\ events' = events \o <<Event("artifact", <<"chart", artifacts'[1].status>>),
                           Event("run.completed", <<"success", "run">>)>>
  /\ UNCHANGED <<bundle, citations, skill, seen, used, groups, overview, latest, records,
                 warnings, reasons, provider, status, clientVars>>

\* Without a record the run fails, and says so.
Fail ==
  /\ pc = "failed"
  /\ Goto("done")
  /\ events' = Append(events, Event("run.failed", <<"No market data was returned">>))
  /\ UNCHANGED <<bundle, citations, skill, seen, used, artifacts, groups, overview, latest, records,
                 warnings, reasons, provider, status, clientVars>>

\* The browser reads the response.
Browser ==
  /\ pc = "done"
  /\ Respond(events) \/ ClientNext
  /\ UNCHANGED <<collectVars, evidenceVars>>

Next == Collect \/ Bundle \/ Analyse \/ Finish \/ Fail \/ Browser

Spec == Init /\ [][Next]_vars

-----------------------------------------------------------------------------
(* What must hold.                                                         *)

Prices == PriceSeriesOf(records)
Fetched == pc \in {"result", "collected", "analyse", "done", "failed"} /\ provider \in
             {"success", "partial", "failed"} /\ market.library = "ready"
Of(dataset) == {r \in ToSet(records) : r.dataset = dataset}
\* The records of a type in a bundle that was just made; it does not change again.
Evident(type) ==
  {r \in ToSet(bundle) : r.type = type /\ pc = "analyse" /\ skill = 1}

\* Every variable has its type: the records, the bundle and the client's text are
\* sequences, the stage and the statuses are of those the code has.
TypeOK ==
  /\ pc \in {"prepare", "rejected", "provider", "overview", "fundamentals", "profile",
             "fetched", "result", "collected", "analyse", "done", "failed"}
  /\ workflow \in DOMAIN SkillsOf
  /\ ToSet(groups) \subseteq Supported \cup {"news"}
  /\ \A r \in ToSet(records) :
       r.dataset \in {"prices", "fundamentals", "company_profile"}
  /\ provider \in {Null, "skipped", "success", "partial", "failed"}
  /\ status \in {Null, "success", "partial", "failed"}
  /\ skill \in 1..(Len(Skills) + 1) /\ Len(seen) = skill - 1
  /\ used \subseteq DOMAIN citations
  /\ answer \in {"unsent", "reading", "completed", "failed", "no_output", "broken"}

\* A group that fails takes nothing from the others: once everything is fetched,
\* the prices are there whenever the vendor gave a row with a close, a record for
\* each period whenever the statements were given, and the profile whenever the
\* overview was (dataflows/providers/vnstock.py, fetch).
EachGroupOnItsOwn ==
  Fetched =>
    /\ Requested("market_price") /\ ~PriceRaises(market.price)
         => \E r \in Of("prices") \cup {[payload |-> <<>>]} :
              r.payload = PriceSeries(market.price)
    /\ Requested("fundamental") /\ market.equity # Raised
         /\ DOMAIN Rows(market.balance) # {} /\ DOMAIN Rows(market.income) # {}
         => \A p \in ToSet(Periods(market.income)) :
              \E r \in Of("fundamentals") : r.key = p /\ r.source = "vnstock_fundamentals"
    /\ Requested("company_profile") /\ market.overview \notin {Raised, NoRow}
         => Of("company_profile") # {}

\* A failure that a handler of the provider catches is told: the fetch of the prices or
\* the client of the statements raised, or the overview stands in for the statements.
\* Then the collection is not a success and carries a warning, and so does the stage
\* event of the run (vnstock.py, fetch; dataflows/service.py, _result_status). A single
\* statement or an overview that raised is no such failure: the code swallows it.
FailureIsTold ==
  /\ pc \in {"collected", "analyse", "done", "failed"}
  /\ \/ Requested("market_price") /\ market.library = "ready" /\ PriceRaises(market.price)
     \/ Requested("fundamental") /\ market.library = "ready" /\ market.equity = Raised
     \/ \E r \in Of("fundamentals") : r.source = "vnstock_company_overview"
  => /\ status \in {"partial", "failed"}
     /\ warnings # <<>>
     /\ status = "partial" /\ pc = "done"
          => \E i \in DOMAIN events :
               events[i].data = <<"collect", "partial">> \o warnings

\* A skill sees what its requirements name, of what was collected: the prices as
\* their summary or as indicators and patterns, the statements, the profile.
SkillsSeeTheirData ==
  \A i \in DOMAIN seen :
    LET needs == {n.dataset : n \in ToSet(Requirements[Skills[i]])}
        types == {r.type : r \in ToSet(seen[i])}
    IN /\ "ohlcv" \in needs /\ Of("prices") # {}
            => \/ "price_summary" \in types
               \/ {"indicator", "pattern_evidence", "pattern_setup"} \subseteq types
       /\ "financial_statement" \in needs /\ Of("fundamentals") # {}
            => "fundamental" \in types
       /\ "company_profile" \in needs /\ Of("company_profile") # {}
            => "company_profile" \in types

\* What is kept for an id that was cited is a record some skill was given under that
\* id, as the last such skill saw it: never the price series, which shares its id
\* with the summary, and the statement as audited once the analysis has seen it.
CitationsShowWhatWasSeen ==
  pc = "done" /\ answer = "unsent" =>
    \A id \in used :
      LET givers == {i \in DOMAIN seen : id \in Ids(seen[i])}
      IN /\ givers # {}
         /\ citations[id] \in ToSet(seen[Max(givers)])
         /\ citations[id].type # "price_series"

\* The ratios of the profile are of the figures the run cites: the price over the
\* earnings per share of the latest period there is a statement of, never of
\* another period (vnstock.py, _fundamental_records and _profile_record).
ValuationOfLatest ==
  \A profile \in Of("company_profile") :
    LET stated == {r \in Of("fundamentals") : r.source = "vnstock_fundamentals"}
        latestOf == CHOOSE r \in stated : \A o \in stated : o.key <= r.key
    IN IF stated = {} THEN profile.payload.pe = Null
       ELSE profile.payload.pe = Quotient(profile.payload.price, latestOf.payload.eps)

\* An average of prices lies among the prices it is of: the simple, the exponential
\* and the volume-weighted averages of any series and any volumes. The slack of a
\* thousandth for each bar is what the exponential average rounds down by here
\* (workflows/indicators.py).
AveragesAmongPrices ==
  \A r \in Evident("indicator") :
    LET closes == Closes(Prices)
        average == {r.payload.sma20, r.payload.sma50, r.payload.ema10, r.payload.ema12,
                    r.payload.ema26, r.payload.vwma20} \ {Null}
    IN \A a \in average : /\ a >= Milli * Lowest(closes) - Len(closes)
                          /\ a <= Milli * Highest(closes)

\* The worst drawdown is the deepest fall from one close to a later one, and the
\* current one is not deeper (_max_drawdown).
DrawdownIsWorstFall ==
  \A r \in Evident("indicator") :
    LET closes == Closes(Prices)
        falls == UNION {{Computed!Drop(closes[i], closes[k]) : k \in i..Len(closes)} :
                          i \in DOMAIN closes}
    IN /\ r.payload.max_drawdown \in falls
       /\ \A fall \in falls : fall <= r.payload.max_drawdown
       /\ r.payload.current_drawdown <= r.payload.max_drawdown

\* The two computations of the strength index, the one that is reported and the one
\* that the divergence rule compares at swing lows, agree on the last close.
StrengthAgrees ==
  \A r \in Evident("indicator") :
    Last(Setups!RsiSeries(Closes(Prices), 14)) = r.payload.rsi14

\* The figures a run cites agree with what they are computed of: the ratios with the
\* statements, the indicators with the prices (vnstock.py, workflows/indicators.py).
FiguresAgree ==
  ValuationOfLatest /\ AveragesAmongPrices /\ DrawdownIsWorstFall /\ StrengthAgrees

\* A double bottom is two bottoms: no bar from the first low to the second goes
\* below both of them, and the neckline is the high of a bar between them, not below
\* the lower one. It may be below the other (_strict_double_bottom).
BottomsAreLowest ==
  \A r \in Evident("pattern_evidence") : \A i \in DOMAIN r.payload :
    LET found == r.payload[i]
        low(k) == LowOf(Prices[k])
        lower == Min({low(found.first), low(found.second)})
    IN found.id = "double_bottom" /\ found.verdict = "detected"
       => /\ \A k \in found.first..found.second : low(k) >= lower
          /\ \E k \in found.first..found.second :
               k \notin {found.first, found.second} /\ found.neckline = HighOf(Prices[k])
          /\ found.neckline >= lower

\* The zone to watch of a setup is a range: its low is not above the price that
\* would confirm it. The falling wedge is left out: the line its confirmation lies
\* on may have fallen below the lows.
WatchZoneIsRange ==
  \A r \in Evident("pattern_setup") : \A s \in ToSet(r.payload.setups) :
    s.id # "wedges_falling" => s.watch.low <= s.watch.high

\* The best setup comes first: one that is listed above another has a higher score, or
\* the same and is nearer to its confirmation. One that is at its confirmation, with a
\* distance of zero, counts as 999 per cent away (detect_pattern_setups, and
\* pattern_scoring.md:208-213, which has the same key).
BestSetupFirst ==
  \A r \in Evident("pattern_setup") :
    LET setups == r.payload.setups
        away(s) == IF s.distance = 0 THEN 99900 ELSE s.distance
    IN \A i, k \in DOMAIN setups : i < k =>
         \/ setups[i].score > setups[k].score
         \/ setups[i].score = setups[k].score /\ away(setups[i]) <= away(setups[k])

\* What the pattern rules report is what they say it is: of the series, of a range and
\* in order (evidence/patterns.py).
PatternsAreSound == BottomsAreLowest /\ WatchZoneIsRange /\ BestSetupFirst

\* The chart of a run, drawn or downloaded, is the series the run collected: the file
\* has a row for each bar, the picture lies in its frame, goes on
\* from day to day and is the higher the higher the close; and its sources are
\* citations of the run (artifacts.py, routes/artifacts.py).
ChartIsTheSeries ==
  pc = "done" /\ answer = "unsent" => \A chart \in ToSet(artifacts) :
    LET rows == Drawn!ChartCsv(chart)
        svg == Drawn!ChartSvg(chart)
        drawn == {[close |-> Prices[i].close, y |-> svg[i].y] : i \in DOMAIN Prices}
    IN /\ (chart.status = "ready") = (Prices # <<>>)
       /\ DOMAIN rows = DOMAIN Prices
       /\ \A i \in DOMAIN rows : /\ rows[i].date = Prices[i].date
                                 /\ rows[i].close = Prices[i].close
       /\ \A i \in DOMAIN svg :
            /\ Drawn!InFrame(svg[i])
            /\ i > 1 => svg[i - 1].x < svg[i].x
       /\ \A a, b \in drawn : a.close < b.close => a.y > b.y
       /\ chart.refs \subseteq DOMAIN citations
       /\ chart.status = "ready" =>
            \A r \in ToSet(bundle) : r.type = "price_series" => r.id \in chart.refs

\* What is taken of the vendor's prices by the code, and by two of the theorems; nothing
\* in the code checks it. The low of a bar is not above its high, once a missing one is
\* read as the close.
Ranged(series) == \A i \in 1..Len(series) : LowOf(series[i]) <= HighOf(series[i])
BarsAreRanges ==
  \A case \in Cases : LET price == case.market.price
                      IN price # Raised => Ranged(PriceSeries(price))

\* There is room in the picture: written with one decimal, two days, and two closes, are
\* still apart.
Reach == Drawn!Tenths * (Drawn!Width - 2 * Drawn!Padding)
Rise == Drawn!Tenths * (Drawn!Height - 2 * Drawn!Padding)
Fits(closes) == /\ Len(closes) - 1 <= Reach
                /\ \A i, k \in DOMAIN closes : closes[i] - closes[k] <= Rise
FitsTheFrame ==
  \A case \in Cases : LET price == case.market.price
                      IN price # Raised => Fits(Closes(PriceSeries(price)))

\* Wherever the network cuts the response, the client has handled exactly the events
\* whose frames it has read to the end, in order, with their text unchanged; and a
\* response that is read to its end has the answer its last event tells.
ReadsWhatWasSent ==
  answer # "unsent" =>
    LET upTo(n) == Len(SseEventStream(SubSeq(events, 1, n)))
        got == upTo(Len(events)) - Len(wire)
        read == Len(handled)
    IN /\ handled = SubSeq(events, 1, read)
       /\ upTo(read) <= got
       /\ read < Len(events) => got < upTo(read + 1)
       /\ answer \in {"completed", "failed"} =>
            Last(events).kind = (IF answer = "completed" THEN "run.completed"
                                 ELSE "run.failed")
       /\ answer # "no_output"
=============================================================================
