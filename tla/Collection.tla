----------------------------- MODULE Collection -----------------------------
(***************************************************************************)
(* The collection step of a run: what the workflow's skills require, the   *)
(* dataset groups that covers, and the provider's three groups fetched one *)
(* after the other, each failing on its own                                *)
(* (workflows/validation.py, workflows/collector.py, dataflows/).          *)
(*                                                                         *)
(* The outside world is the variable market: what the library and each of  *)
(* its calls will answer in this run. Every action but the last two is one *)
(* stage of one synchronous call.                                          *)
(***************************************************************************)
EXTENDS Vnstock, FiniteSets, Selection

CONSTANT Cases   \* [workflow, inputs, market, ...]: what a run may be of and meet

\* None is not one of the words that tell how a collection went.
ASSUME NullIsNoStatus == Null \notin {"skipped", "success", "partial", "failed"}

\* A run is of one of the workflow definitions.
ASSUME WorkflowsAreDefined ==
  \A case \in Cases : case.workflow \in {"collector", "fundamental", "technical"}

\* The income statement has finitely many periods, which are numbered.
ASSUME PeriodsAreFinite ==
  \A case \in Cases : LET all == AllPeriods(Rows(case.market.income))
                      IN IsFiniteSet(all) /\ all \subseteq Int

\* The prices, when they are given, are rows of numbers.
ASSUME PricesAreRows ==
  \A case \in Cases : case.market.price = Raised \/ case.market.price \in Seq(PriceRow)

VARIABLES
  pc,         \* the stage the run is at
  workflow, inputs, market,
  groups,     \* the dataset groups requested, in order
  overview,   \* the company overview, once fetched
  latest,     \* the latest earnings and book value per share
  records,    \* the records fetched so far
  warnings,   \* the provider's warnings so far
  reasons,    \* the groups whose failure was kept as a reason
  provider,   \* the provider's status, Null when it was not asked
  status      \* the status of the collection

collectVars == <<pc, workflow, inputs, market, groups, overview, latest, records,
                 warnings, reasons, provider, status>>

-----------------------------------------------------------------------------
(* The workflow definitions and the skills' data requirements.             *)

SkillsOf == [collector |-> <<"auditor">>, fundamental |-> <<"auditor", "fundamental">>,
             technical |-> <<"technical">>]

Needs(required, datasets) ==
  [i \in DOMAIN datasets |-> [dataset |-> datasets[i], required |-> required]]

\* DATA_REQUIREMENTS.yaml of each skill; vn-fundamental-analysis has none.
Requirements ==
  [auditor |-> Needs(TRUE, <<"ohlcv", "financial_statement", "valuation_ratios",
                             "corporate_events", "company_profile">>)
               \o Needs(FALSE, <<"source_documents">>),
   fundamental |-> <<>>,
   technical |-> Needs(TRUE, <<"ohlcv", "company_profile">>)]

DatasetGroup ==
  [ohlcv |-> "market_price", financial_statement |-> "fundamental",
   valuation_ratios |-> "fundamental", corporate_events |-> "fundamental",
   company_profile |-> "company_profile", source_documents |-> "news"]

Supported == {"market_price", "fundamental", "company_profile"}

DataRequirements(w) == FlattenSeq([i \in DOMAIN SkillsOf[w] |-> Requirements[SkillsOf[w][i]]])

\* What the plan asks for: the required first, then the optional.
AllRequests(needs) ==
  Picked(needs, {i \in DOMAIN needs : needs[i].required})
    \o Picked(needs, {i \in DOMAIN needs : ~needs[i].required})

\* The group of each request, the first time it comes up.
EffectiveGroups(requests) ==
  LET group == [i \in DOMAIN requests |-> DatasetGroup[requests[i].dataset]]
  IN Picked(group, {i \in DOMAIN group : \A k \in 1..(i - 1) : group[k] # group[i]})

Requested(group) == group \in ToSet(groups)

-----------------------------------------------------------------------------
(* The request.                                                            *)

\* parse_market and _validate_symbol, on the forms an input can take: an alias
\* of the market in any case and spacing, anything else, or none.
Valid(i) == i.market = "alias" /\ i.symbol = "text"

Begin(case) ==
  /\ pc = "prepare"
  /\ workflow = case.workflow /\ inputs = case.inputs /\ market = case.market
  /\ groups = <<>> /\ overview = NoRow /\ latest = [eps |-> Null, bvps |-> Null]
  /\ records = <<>> /\ warnings = <<>> /\ reasons = {}
  /\ provider = Null /\ status = Null

Goto(stage) == pc' = stage /\ UNCHANGED <<workflow, inputs, market>>

\* The request is refused before there is a run.
Reject ==
  /\ pc = "prepare" /\ ~Valid(inputs)
  /\ Goto("rejected")
  /\ UNCHANGED <<groups, overview, latest, records, warnings, reasons, provider, status>>

\* The requirements of the skills, the plan and the groups it comes to.
Plan ==
  /\ pc = "prepare" /\ Valid(inputs)
  /\ Goto("provider")
  /\ groups' = EffectiveGroups(AllRequests(DataRequirements(workflow)))
  /\ UNCHANGED <<overview, latest, records, warnings, reasons, provider, status>>

-----------------------------------------------------------------------------
(* The provider.                                                           *)

\* The settings name no provider, or one that serves none of the groups.
NoProvider ==
  /\ pc = "provider"
  /\ market.library = "none" \/ ToSet(groups) \cap Supported = {}
  /\ Goto("result")
  /\ UNCHANGED <<groups, overview, latest, records, warnings, reasons, provider, status>>

\* The library is not installed, or refuses the key: nothing is fetched.
Unavailable ==
  /\ pc = "provider" /\ ToSet(groups) \cap Supported # {}
  /\ market.library \in {"missing", "refuses"}
  /\ Goto("result")
  /\ provider' = IF market.library = "missing" THEN "skipped" ELSE "failed"
  /\ warnings' = <<market.library>>
  /\ reasons' = {market.library}
  /\ UNCHANGED <<groups, overview, latest, records, status>>

\* The prices, under an exception handler of their own.
FetchPrices ==
  /\ pc = "provider" /\ ToSet(groups) \cap Supported # {}
  /\ market.library = "ready"
  /\ Goto("overview")
  /\ IF Requested("market_price") /\ PriceRaises(market.price)
     THEN /\ warnings' = Append(warnings, "price_failed")
          /\ reasons' = reasons \cup {"price_failed"}
          /\ UNCHANGED records
     ELSE /\ records' = IF Requested("market_price") THEN PriceRecords(market.price) ELSE <<>>
          /\ UNCHANGED <<warnings, reasons>>
  /\ UNCHANGED <<groups, overview, latest, provider, status>>

\* The company overview, which two groups use; its exception is swallowed.
FetchOverview ==
  /\ pc = "overview"
  /\ Goto("fundamentals")
  /\ overview' = IF ToSet(groups) \cap {"fundamental", "company_profile"} = {}
                    \/ market.overview = Raised
                 THEN NoRow ELSE market.overview
  /\ UNCHANGED <<groups, latest, records, warnings, reasons, provider, status>>

\* A mutant: the handler of the statements drops what was fetched before.
FetchFundamentalsOrNothing ==
  /\ pc = "fundamentals"
  /\ Goto("profile")
  /\ IF ~Requested("fundamental")
     THEN UNCHANGED <<latest, records, warnings, reasons>>
     ELSE IF FundamentalRaises(market, overview)
     THEN /\ records' = <<>>
          /\ warnings' = Append(warnings, "fundamental_failed")
          /\ reasons' = reasons \cup {"fundamental_failed"}
          /\ UNCHANGED latest
     ELSE LET fetched == Fundamentals(market, overview)
          IN /\ records' = records \o fetched.records
             /\ latest' = [eps |-> fetched.eps, bvps |-> fetched.bvps]
             /\ UNCHANGED <<warnings, reasons>>
  /\ UNCHANGED <<groups, overview, provider, status>>

\* The statements or what stands in for them, under a handler of their own.
FetchFundamentals ==
  /\ pc = "fundamentals"
  /\ Goto("profile")
  /\ IF ~Requested("fundamental")
     THEN UNCHANGED <<latest, records, warnings, reasons>>
     ELSE IF FundamentalRaises(market, overview)
     THEN /\ warnings' = Append(warnings, "fundamental_failed")
          /\ reasons' = reasons \cup {"fundamental_failed"}
          /\ UNCHANGED <<latest, records>>
     ELSE LET fetched == Fundamentals(market, overview)
              standIn == \E r \in ToSet(fetched.records) :
                           r.source = "vnstock_company_overview"
          IN /\ records' = records \o fetched.records
             /\ latest' = [eps |-> fetched.eps, bvps |-> fetched.bvps]
             /\ warnings' = IF standIn THEN Append(warnings, "finance_failed") ELSE warnings
             /\ UNCHANGED reasons
  /\ UNCHANGED <<groups, overview, provider, status>>

\* The profile, made of the overview and the latest of the statements.
FetchProfile ==
  /\ pc = "profile"
  /\ Goto("fetched")
  /\ records' = IF Requested("company_profile") /\ overview # NoRow
                THEN Append(records, ProfileRecord(overview, latest.eps, latest.bvps))
                ELSE records
  /\ UNCHANGED <<groups, overview, latest, warnings, reasons, provider, status>>

\* The provider's own verdict.
EndFetch ==
  /\ pc = "fetched"
  /\ Goto("result")
  /\ provider' = IF records = <<>> THEN "failed"
                 ELSE IF warnings # <<>> THEN "partial" ELSE "success"
  /\ warnings' = IF records = <<>> /\ warnings = <<>> THEN <<"empty_result">> ELSE warnings
  /\ reasons' = IF records = <<>> /\ reasons = {} THEN {"no_rows"}
                ELSE IF records = <<>> THEN reasons ELSE {}
  /\ UNCHANGED <<groups, overview, latest, records, status>>

\* A mutant: data is success, whatever went wrong on the way.
DataIsSuccess == IF records = <<>> THEN "failed" ELSE "success"

\* _result_status: what the collection as a whole is told to be.
ResultStatus ==
  IF records = <<>> THEN "failed"
  ELSE IF provider = "success" /\ warnings = <<>> THEN "success"
  ELSE "partial"

Collected ==
  /\ pc = "result"
  /\ Goto(IF records = <<>> THEN "failed" ELSE "collected")
  /\ status' = ResultStatus
  /\ UNCHANGED <<groups, overview, latest, records, warnings, reasons, provider>>

CollectNext ==
  \/ Reject \/ Plan \/ NoProvider \/ Unavailable
  \/ FetchPrices \/ FetchOverview \/ FetchFundamentals \/ FetchProfile
  \/ EndFetch \/ Collected
=============================================================================
