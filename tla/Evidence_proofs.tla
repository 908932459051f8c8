----------------------------- MODULE Evidence_proofs -----------------------------
(***************************************************************************)
(* What a run's collection keeps and tells, for every request and every    *)
(* market: a group that fails takes nothing from the others, and it is     *)
(* told. Each fact comes into being at one stage of the fetch, and from    *)
(* then on records and warnings only grow: that is the invariant. Then     *)
(* what the skills see and cite; and then what they see of the prices: the *)
(* figures, the patterns and the chart are computed of the series that was *)
(* collected, so what is to be shown is a fact about every good series.    *)
(***************************************************************************)
EXTENDS Evidence, Selection_proofs

Before == {"prepare", "rejected", "provider"}
Fetching == {"overview", "fundamentals", "profile", "fetched"}
After == {"result", "collected", "analyse", "done", "failed"}
Told == {"collected", "analyse", "done", "failed"}

IsSeq(s) == s \in Seq(ToSet(s))

\* The provider is asked: the library is there, and a group it serves was requested.
Asking == market.library = "ready" /\ (pc \in Fetching \/ provider # Null)

PricesKept ==
  Requested("market_price") /\ ~PriceRaises(market.price)
    => \E r \in Of("prices") \cup {[payload |-> <<>>]} :
         r.payload = PriceSeries(market.price)

StatementsKept ==
  Requested("fundamental") /\ market.equity # Raised
    /\ DOMAIN Rows(market.balance) # {} /\ DOMAIN Rows(market.income) # {}
    => \A p \in ToSet(Periods(market.income)) :
         \E r \in Of("fundamentals") : r.key = p /\ r.source = "vnstock_fundamentals"

ProfileKept ==
  Requested("company_profile") /\ market.overview \notin {Raised, NoRow}
    => Of("company_profile") # {}

ClientTold == Requested("fundamental") /\ market.equity = Raised => warnings # <<>>

StandIn == \E r \in Of("fundamentals") : r.source = "vnstock_company_overview"

\* What holds at each stage of the collection.
CollectInv ==
  /\ pc \in Before \cup Fetching \cup After
  /\ \E case \in Cases : market = case.market
  /\ IsSeq(records) /\ IsSeq(warnings)
  /\ pc \in Before => records = <<>> /\ warnings = <<>> /\ provider = Null
  /\ pc \in Fetching => market.library = "ready" /\ provider = Null
  /\ pc \in After /\ market.library = "ready" /\ provider = Null
       => ToSet(groups) \cap Supported = {}
  /\ pc \in {"fundamentals", "profile"} /\ Requested("company_profile")
       /\ market.overview # Raised => overview = market.overview
  /\ Asking => PricesKept
  /\ Asking /\ Requested("market_price") /\ PriceRaises(market.price) => warnings # <<>>
  /\ Asking /\ pc \notin {"overview", "fundamentals"} => StatementsKept /\ ClientTold
  /\ Asking /\ pc \notin {"overview", "fundamentals", "profile"} => ProfileKept
  /\ StandIn => warnings # <<>>

\* What holds of the collection's verdict, and of the event that tells it.
VerdictInv ==
  /\ pc \in Told => /\ status \in {"success", "partial", "failed"}
                    /\ warnings # <<>> => status # "success"
  /\ pc = "failed" => status = "failed"
  /\ IsSeq(events)
  /\ pc = "analyse" \/ (pc = "done" /\ status # "failed")
       => \E i \in DOMAIN events : events[i].data = <<"collect", status>> \o warnings

--------------------------------------------------------------------------------
(* Sequences that grow.                                                         *)

\* Of two sequences put together, the members are those of both.
LEMMA Joined ==
  ASSUME NEW s, NEW t, IsSeq(s), IsSeq(t)
  PROVE  IsSeq(s \o t) /\ ToSet(s \o t) = ToSet(s) \cup ToSet(t)
<1> DEFINE S == ToSet(s) \cup ToSet(t)
<1>1. s \in Seq(S) /\ t \in Seq(S)
  BY DEF IsSeq
<1>2. s \o t \in Seq(S) /\ Len(s \o t) = Len(s) + Len(t)
  BY <1>1
<1>3. \A i \in 1..Len(s) : (s \o t)[i] = s[i]
  BY <1>1
<1>4. \A i \in 1..Len(t) : (s \o t)[Len(s) + i] = t[i]
  BY <1>1
<1>5. DOMAIN s = 1..Len(s) /\ DOMAIN t = 1..Len(t) /\ DOMAIN (s \o t) = 1..(Len(s) + Len(t))
      /\ Len(s) \in Nat /\ Len(t) \in Nat
  BY <1>1, <1>2
<1>6. ToSet(s) \subseteq ToSet(s \o t)
  BY <1>3, <1>5 DEF ToSet
<1>7. ToSet(t) \subseteq ToSet(s \o t)
  <2>1. ASSUME NEW i \in 1..Len(t)
        PROVE  Len(s) + i \in DOMAIN (s \o t) /\ (s \o t)[Len(s) + i] = t[i]
    BY <1>4, <1>5
  <2> QED
    BY <2>1, <1>5 DEF ToSet
<1>8. ToSet(s \o t) \subseteq S
  BY <1>2, <1>5 DEF ToSet
<1>9. ToSet(s \o t) = S
  BY <1>6, <1>7, <1>8
<1> QED
  BY <1>2, <1>9 DEF IsSeq

\* A sequence of one member, and one that has another at its end.
LEMMA OneMember ==
  ASSUME NEW s, NEW x, s = <<x>>
  PROVE  IsSeq(s) /\ ToSet(s) = {x}
  BY DEF ToSet, IsSeq

LEMMA JoinedOne ==
  ASSUME NEW s, NEW x, IsSeq(s)
  PROVE  /\ IsSeq(Append(s, x)) /\ ToSet(Append(s, x)) = ToSet(s) \cup {x}
         /\ Append(s, x) # <<>>
<1>1. ToSet(<<x>>) = {x} /\ IsSeq(<<x>>)
  BY OneMember
<1>2. Append(s, x) = s \o <<x>> /\ Append(s, x) # <<>>
  <2>1. s \in Seq(ToSet(s) \cup {x})
    BY DEF IsSeq
  <2> QED
    BY <2>1
<1> QED
  BY <1>1, <1>2, Joined

LEMMA NoMember ==
  ASSUME NEW s, s \in Seq({})
  PROVE  IsSeq(s) /\ ToSet(s) = {}
<1>1. DOMAIN s = {}
  OBVIOUS
<1>2. ToSet(s) = {}
  BY <1>1 DEF ToSet
<1>3. IsSeq(s)
  BY <1>2, Zenon DEF IsSeq
<1> QED
  BY <1>2, <1>3

--------------------------------------------------------------------------------
(* What the answers of the library become.                                      *)

\* The records of the prices are one record of all of them, or none.
LEMMA PricesFound ==
  ASSUME NEW answers
  PROVE  /\ IsSeq(PriceRecords(answers))
         /\ \A r \in ToSet(PriceRecords(answers)) : r.dataset = "prices"
         /\ \/ PriceSeries(answers) = <<>>
            \/ \E r \in ToSet(PriceRecords(answers)) : r.payload = PriceSeries(answers)
<1> DEFINE series == PriceSeries(answers)
           record == [dataset |-> "prices", key |-> "prices", source |-> "vnstock_prices",
                      time |-> Last(series).date, payload |-> series]
<1>1. CASE series = <<>>
  <2>1. PriceRecords(answers) = <<>>
    BY <1>1 DEF PriceRecords
  <2>2. PriceRecords(answers) \in Seq({})
    BY <2>1
  <2> QED
    BY <1>1, <2>2, NoMember, Zenon
<1>2. CASE series # <<>>
  <2>1. PriceRecords(answers) = <<record>>
    BY <1>2 DEF PriceRecords
  <2>2. IsSeq(<<record>>) /\ ToSet(<<record>>) = {record}
    BY OneMember
  <2> QED
    BY <2>1, <2>2
<1> QED
  BY <1>1, <1>2

\* The periods are in order: the latest first, each of them once.
LEMMA PeriodsArranged ==
  ASSUME \E case \in Cases : market = case.market
  PROVE  LET periods == Periods(Rows(market.income)) IN
         /\ periods \in Seq(Int)
         /\ \A i, k \in 1..Len(periods) : i < k => periods[i] > periods[k]
<1> DEFINE all == AllPeriods(Rows(market.income))
           before == [p \in all |-> {q \in all : q > p}]
           n == Cardinality(all)
           periods == Periods(Rows(market.income))
<1>1. IsFiniteSet(all) /\ all \subseteq Int
  BY PeriodsAreFinite
<1>2. periods = Arranged(before)
  BY DEF Periods
<1> HIDE DEF all, periods
<1>3. Orders(before, all)
  <2>1. before \in [all -> SUBSET all]
    OBVIOUS
  <2>2. \A p \in all : \A q : q \in before[p] <=> q \in all /\ q > p
    OBVIOUS
  <2> HIDE DEF before
  <2>3. \A p \in all : p \notin before[p]
    BY <1>1, <2>2
  <2>4. \A p, q \in all : p = q \/ p \in before[q] \/ q \in before[p]
    BY <1>1, <2>2
  <2>5. ASSUME NEW p \in all, NEW q \in all, p \in before[q], NEW x \in before[p]
        PROVE  x \in before[q]
    <3>1. x \in all /\ p > q /\ x > p
      BY <2>2, <2>5
    <3>2. x > q
      BY <1>1, <3>1
    <3>3. QED
      BY <2>2, <3>1, <3>2
  <2>6. QED
    BY <2>1, <2>3, <2>4, <2>5 DEF Orders
<1>4. /\ n \in Nat /\ periods \in [1..n -> all]
      /\ \A i, k \in 1..n : i < k => periods[i] \in before[periods[k]]
  BY <1>1, <1>2, <1>3, ArrangedIs
<1>5. periods \in Seq(Int) /\ Len(periods) = n
  <2> HIDE DEF n, before
  <2>1. periods \in [1..n -> Int]
    BY <1>1, <1>4
  <2>2. QED
    BY <1>4, <2>1
<1>6. ASSUME NEW i \in 1..n, NEW k \in 1..n, i < k PROVE periods[i] > periods[k]
  <2>1. periods[k] \in all /\ periods[i] \in before[periods[k]]
    BY <1>4, <1>6
  <2>2. \A p \in all : before[p] = {q \in all : q > p}
    OBVIOUS
  <2> HIDE DEF before
  <2>3. periods[i] \in {q \in all : q > periods[k]}
    BY <2>1, <2>2
  <2>4. QED
    BY <2>3
<1>7. QED
  BY <1>5, <1>6 DEF periods

\* The records of the statements: one for each period when both statements have
\* rows, and a stand-in only when there is none.
LEMMA StatementsFound ==
  ASSUME \E case \in Cases : market = case.market, NEW over
  PROVE  LET found == Fundamentals(market, over).records IN
         /\ IsSeq(found)
         /\ \A r \in ToSet(found) : r.dataset = "fundamentals"
         /\ DOMAIN Rows(market.balance) # {} /\ DOMAIN Rows(market.income) # {}
              => \A p \in ToSet(Periods(market.income)) :
                   \E r \in ToSet(found) : r.key = p /\ r.source = "vnstock_fundamentals"
<1> DEFINE income == Rows(market.income)
           balance == Rows(market.balance)
           cash == Rows(market.cash)
           periods == Periods(income)
           record(i) == StatementRecord(income, balance, cash, Shares(over), periods[i],
                                        LatestPeriod(periods))
           both == DOMAIN income # {} /\ DOMAIN balance # {}
           found == Fundamentals(market, over).records
<1>1. periods \in Seq(Int)
  BY PeriodsArranged
<1>2. CASE both /\ periods # <<>>
  <2>1. found = [i \in DOMAIN periods |-> record(i)]
    <3>1. FromStatements(income, balance, cash, over).records
            = [i \in DOMAIN periods |-> record(i)]
      BY <1>2 DEF FromStatements
    <3>2. [i \in DOMAIN periods |-> record(i)] # <<>>
      <4>1. DOMAIN periods # {} /\ DOMAIN <<>> = {}
        BY <1>1, <1>2
      <4> QED
        BY <4>1
    <3> HIDE DEF record, periods
    <3> QED
      BY <1>2, <3>1, <3>2 DEF Fundamentals
  <2>2. DOMAIN periods = 1..Len(periods) /\ Len(periods) \in Nat
    BY <1>1
  <2>3. ToSet(found) = {record(i) : i \in DOMAIN periods}
    <3> HIDE DEF record, periods, found
    <3> QED
      BY <2>1 DEF ToSet
  <2>4. IsSeq(found)
    <3> HIDE DEF record, periods, found
    <3>1. \A i \in DOMAIN periods : record(i) \in ToSet(found)
      BY <2>3
    <3> QED
      BY <2>1, <2>2, <3>1 DEF IsSeq
  <2>5. \A i : /\ record(i).dataset = "fundamentals" /\ record(i).key = periods[i]
               /\ record(i).source = "vnstock_fundamentals"
    BY DEF StatementRecord
  <2>6. market.income # Raised => ToSet(periods) = ToSet(Periods(market.income))
    BY DEF Rows
  <2>7. market.income # Raised
    <3>1. Rows(Raised) = <<>> /\ DOMAIN <<>> = {}
      BY DEF Rows
    <3> QED
      BY <1>2, <3>1
  <2>8. \A p \in ToSet(periods) : \E i \in DOMAIN periods : p = periods[i]
    BY DEF ToSet
  <2> HIDE DEF record, periods, found
  <2>9. \A p \in ToSet(periods) :
          \E r \in ToSet(found) : r.key = p /\ r.source = "vnstock_fundamentals"
    BY <2>3, <2>5, <2>8
  <2>10. \A r \in ToSet(found) : r.dataset = "fundamentals"
    BY <2>3, <2>5
  <2> QED
    BY <2>4, <2>6, <2>7, <2>9, <2>10 DEF found
<1>3. CASE ~both \/ periods = <<>>
  <2>1. found = <<>> \/ found = <<FromOverview(over)>>
    BY <1>3 DEF Fundamentals, FromStatements
  <2>2. IsSeq(found) /\ \A r \in ToSet(found) : r.dataset = "fundamentals"
    <3> HIDE DEF found
    <3>1. CASE found = <<>>
      <4>1. found \in Seq({})
        BY <3>1
      <4> QED
        BY <4>1, NoMember, Zenon
    <3>2. CASE found = <<FromOverview(over)>>
      <4>1. ToSet(found) = {FromOverview(over)} /\ IsSeq(found)
        BY <3>2, OneMember
      <4>2. FromOverview(over).dataset = "fundamentals"
        BY DEF FromOverview
      <4> QED
        BY <4>1, <4>2
    <3> QED
      BY <2>1, <3>1, <3>2
  <2>3. both => market.income # Raised
    <3>1. Rows(Raised) = <<>> /\ DOMAIN <<>> = {}
      BY DEF Rows
    <3> QED
      BY <3>1
  <2>4. both => ToSet(Periods(market.income)) = {}
    <3>1. market.income # Raised => income = market.income
      BY DEF Rows
    <3>2. both => periods \in Seq({})
      <4>1. both => periods = <<>>
        BY <1>3
      <4>2. <<>> \in Seq({})
        OBVIOUS
      <4> QED
        BY <4>1, <4>2, Zenon
    <3>3. both => ToSet(periods) = {}
      BY <3>2, NoMember, Zenon
    <3> QED
      BY <2>3, <3>1, <3>3
  <2> HIDE DEF found
  <2> QED
    BY <2>2, <2>4 DEF found
<1> QED
  BY <1>2, <1>3

--------------------------------------------------------------------------------
(* The steps of the collection.                                                 *)

\* What was kept stays, as long as no record is taken away.
LEMMA KeptStays ==
  ASSUME ToSet(records) \subseteq ToSet(records'), UNCHANGED <<groups, market>>
  PROVE  /\ PricesKept => PricesKept'
         /\ StatementsKept => StatementsKept'
         /\ ProfileKept => ProfileKept'
         /\ \A g : Requested(g)' = Requested(g)
<1>1. \A d : Of(d) \subseteq Of(d)'
  BY DEF Of
<1>2. \A g : Requested(g)' = Requested(g)
  BY DEF Requested
<1>3. PricesKept => PricesKept'
  BY <1>1, <1>2 DEF PricesKept
<1>4. StatementsKept => StatementsKept'
  BY <1>1, <1>2 DEF StatementsKept
<1>5. ProfileKept => ProfileKept'
  BY <1>1, <1>2 DEF ProfileKept
<1> QED
  BY <1>2, <1>3, <1>4, <1>5

\* Steps that fetch nothing and take no warning away.
LEMMA QuietKeeps ==
  ASSUME CollectInv, UNCHANGED <<records, groups, market>>,
         IsSeq(warnings'), warnings # <<>> => warnings' # <<>>,
         Asking' => Asking, pc' \in After,
         pc \in {"fetched"} \cup After,
         provider' = Null => provider = Null /\ pc \in After
  PROVE  CollectInv'
<1>1. /\ PricesKept => PricesKept'
      /\ StatementsKept => StatementsKept'
      /\ ProfileKept => ProfileKept'
      /\ \A g : Requested(g)' = Requested(g)
  BY KeptStays
<1>2. StandIn' = StandIn
  BY DEF StandIn, Of
<1>3. IsSeq(records)' /\ IsSeq(warnings)'
  BY DEF CollectInv, IsSeq
<1>4. ClientTold => ClientTold'
  BY <1>1 DEF ClientTold
<1> QED
  BY <1>1, <1>2, <1>3, <1>4 DEF CollectInv, Before, Fetching, After

LEMMA UnaskedKeeps ==
  ASSUME CollectInv, Plan \/ Reject \/ NoProvider \/ Unavailable
  PROVE  CollectInv'
<1> USE DEF Goto
<1>1. pc \in Before /\ records = <<>> /\ warnings = <<>> /\ provider = Null
  BY DEF CollectInv, Before, Plan, Reject, NoProvider, Unavailable
<1>2. UNCHANGED <<market, records>>
  BY DEF Plan, Reject, NoProvider, Unavailable
<1>3. ~Asking'
  BY <1>1 DEF Asking, Plan, Reject, NoProvider, Unavailable, Before, Fetching
<1>4. IsSeq(records)' /\ IsSeq(warnings)'
  <2>1. UNCHANGED warnings \/ warnings' = <<market.library>>
    BY DEF Plan, Reject, NoProvider, Unavailable
  <2> QED
    BY <1>2, <2>1, OneMember DEF CollectInv, IsSeq
<1>5. ~StandIn'
  <2>1. records' \in Seq({})
    BY <1>1, <1>2
  <2>2. ToSet(records') = {}
    BY <2>1, NoMember
  <2> QED
    BY <2>2 DEF StandIn, Of
<1>6. CASE Plan \/ Reject
  BY <1>1, <1>2, <1>3, <1>4, <1>5, <1>6
     DEF CollectInv, Plan, Reject, Before, Fetching, After
<1>7. CASE NoProvider
  <2>1. market.library = "ready" => ToSet(groups) \cap Supported = {}
    BY <1>7 DEF NoProvider
  <2> QED
    BY <1>1, <1>2, <1>3, <1>4, <1>5, <1>7, <2>1
       DEF CollectInv, NoProvider, Before, Fetching, After
<1>8. CASE Unavailable
  BY <1>1, <1>2, <1>3, <1>4, <1>5, <1>8
     DEF CollectInv, Unavailable, Before, Fetching, After
<1> QED
  BY <1>6, <1>7, <1>8

LEMMA FetchPricesKeeps ==
  ASSUME CollectInv, FetchPrices
  PROVE  CollectInv'
<1> DEFINE got == PriceRecords(market.price)
<1>1. /\ pc = "provider" /\ pc' = "overview" /\ market.library = "ready"
      /\ records = <<>> /\ warnings = <<>> /\ provider = Null
      /\ UNCHANGED <<market, groups, provider>>
  BY DEF CollectInv, FetchPrices, Goto, Before
<1>2. CASE Requested("market_price") /\ PriceRaises(market.price)
  <2>1. records' = records /\ warnings' = Append(warnings, "price_failed")
    BY <1>2 DEF FetchPrices
  <2>2. IsSeq(warnings') /\ warnings' # <<>>
    BY <2>1, JoinedOne DEF CollectInv
  <2>3. IsSeq(records)' /\ PricesKept'
    BY <1>1, <1>2, <2>1 DEF CollectInv, PricesKept, Requested, IsSeq
  <2> QED
    BY <1>1, <2>2, <2>3 DEF CollectInv, Before, Fetching, After, IsSeq
<1>3. CASE ~(Requested("market_price") /\ PriceRaises(market.price))
  <2>1. warnings' = warnings
        /\ records' = IF Requested("market_price") THEN got ELSE <<>>
    BY <1>3 DEF FetchPrices
  <2>2. /\ IsSeq(got) /\ \A r \in ToSet(got) : r.dataset = "prices"
        /\ \/ PriceSeries(market.price) = <<>>
           \/ \E r \in ToSet(got) : r.payload = PriceSeries(market.price)
    BY PricesFound
  <2>3. /\ IsSeq(records') /\ \A r \in ToSet(records') : r.dataset = "prices"
    <3>1. CASE Requested("market_price")
      BY <2>1, <2>2, <3>1
    <3>2. CASE ~Requested("market_price")
      <4>1. records' \in Seq({})
        BY <2>1, <3>2
      <4> QED
        BY <4>1, NoMember
    <3> QED
      BY <3>1, <3>2
  <2>4. PricesKept'
    <3>1. CASE Requested("market_price")
      <4>1. records' = got
        BY <2>1, <3>1
      <4>2. Of("prices")' = ToSet(records')
        BY <2>3 DEF Of
      <4>3. \E r \in ToSet(records') \cup {[payload |-> <<>>]} :
              r.payload = PriceSeries(market.price)
        <5>1. [payload |-> <<>>].payload = <<>>
          OBVIOUS
        <5> HIDE DEF got
        <5> QED
          BY <2>2, <4>1, <5>1, Zenon
      <4> QED
        BY <1>1, <4>2, <4>3 DEF PricesKept
    <3>2. CASE ~Requested("market_price")
      BY <1>1, <3>2 DEF PricesKept, Requested
    <3> QED
      BY <3>1, <3>2
  <2>5. ~StandIn'
    BY <2>3 DEF StandIn, Of
  <2>6. ~(Requested("market_price") /\ PriceRaises(market.price))'
    BY <1>1, <1>3 DEF Requested
  <2>7. IsSeq(warnings)' /\ IsSeq(records)'
    BY <2>1, <2>3 DEF CollectInv, IsSeq
  <2> QED
    BY <1>1, <2>4, <2>5, <2>6, <2>7 DEF CollectInv, Before, Fetching, After
<1> QED
  BY <1>2, <1>3

LEMMA FetchOverviewKeeps ==
  ASSUME CollectInv, FetchOverview
  PROVE  CollectInv'
<1>1. /\ pc = "overview" /\ pc' = "fundamentals" /\ market.library = "ready"
      /\ UNCHANGED <<market, groups, records, warnings, provider>>
  BY DEF CollectInv, FetchOverview, Goto, Fetching
<1>2. /\ PricesKept => PricesKept'
      /\ \A g : Requested(g)' = Requested(g)
  BY <1>1, KeptStays
<1>3. Requested("company_profile") /\ market.overview # Raised => overview' = market.overview
  BY DEF FetchOverview, Requested
<1>4. StandIn' = StandIn
  BY <1>1 DEF StandIn, Of
<1>5. Asking
  BY <1>1 DEF Asking, Fetching
<1>6. IsSeq(records)' /\ IsSeq(warnings)'
  BY <1>1 DEF CollectInv, IsSeq
<1> QED
  BY <1>1, <1>2, <1>3, <1>4, <1>5, <1>6 DEF CollectInv, Before, Fetching, After

LEMMA FetchFundamentalsKeeps ==
  ASSUME CollectInv, FetchFundamentals
  PROVE  CollectInv'
<1> DEFINE found == Fundamentals(market, overview).records
<1>1. /\ pc = "fundamentals" /\ pc' = "profile" /\ market.library = "ready"
      /\ UNCHANGED <<market, groups, overview, provider>>
  BY DEF CollectInv, FetchFundamentals, Goto, Fetching
<1>2. Asking
  BY <1>1 DEF Asking, Fetching
<1>3. /\ IsSeq(found)
      /\ \A r \in ToSet(found) : r.dataset = "fundamentals"
      /\ DOMAIN Rows(market.balance) # {} /\ DOMAIN Rows(market.income) # {}
           => \A p \in ToSet(Periods(market.income)) :
                \E r \in ToSet(found) : r.key = p /\ r.source = "vnstock_fundamentals"
  BY StatementsFound DEF CollectInv
<1> HIDE DEF found
\* What the step does to the records and the warnings decides everything.
<1>4. ASSUME IsSeq(records'), IsSeq(warnings'), warnings # <<>> => warnings' # <<>>,
             ToSet(records) \subseteq ToSet(records'), StatementsKept', ClientTold',
             StandIn' => warnings' # <<>>
      PROVE  CollectInv'
  <2>1. /\ PricesKept => PricesKept'
        /\ \A g : Requested(g)' = Requested(g)
    BY <1>1, <1>4, KeptStays
  <2> QED
    BY <1>1, <1>2, <1>4, <2>1 DEF CollectInv, Before, Fetching, After, IsSeq
<1>5. CASE ~Requested("fundamental")
  <2>1. UNCHANGED <<records, warnings>>
    BY <1>5 DEF FetchFundamentals
  <2>2. StatementsKept' /\ ClientTold' /\ StandIn' = StandIn
    BY <1>1, <1>5, <2>1 DEF StatementsKept, ClientTold, Requested, StandIn, Of
  <2> QED
    BY <1>4, <2>1, <2>2 DEF CollectInv
<1>6. CASE Requested("fundamental") /\ FundamentalRaises(market, overview)
  <2>1. records' = records /\ warnings' = Append(warnings, "fundamental_failed")
    BY <1>6 DEF FetchFundamentals
  <2>2. IsSeq(warnings') /\ warnings' # <<>>
    BY <2>1, JoinedOne DEF CollectInv
  <2>3. StatementsKept'
    <3>1. CASE market.equity = Raised
      BY <1>1, <3>1 DEF StatementsKept
    <3>2. CASE DOMAIN Rows(market.income) = {} \/ DOMAIN Rows(market.balance) = {}
      BY <1>1, <3>2 DEF StatementsKept
    <3>3. CASE Periods(Rows(market.income)) = <<>> /\ DOMAIN Rows(market.income) # {}
      <4>1. market.income # Raised
        <5>1. Rows(Raised) = <<>> /\ DOMAIN <<>> = {}
          BY DEF Rows
        <5> QED
          BY <3>3, <5>1
      <4>2. Periods(market.income) = <<>>
        BY <3>3, <4>1 DEF Rows
      <4>3. Periods(market.income) \in Seq({})
        BY <4>2
      <4>4. ToSet(Periods(market.income)) = {}
        BY <4>3, NoMember
      <4> QED
        BY <1>1, <4>4 DEF StatementsKept
    <3> QED
      BY <1>6, <3>1, <3>2, <3>3 DEF FundamentalRaises
  <2>4. StandIn' = StandIn
    BY <2>1 DEF StandIn, Of
  <2>5. ClientTold'
    BY <2>2 DEF ClientTold
  <2> QED
    BY <1>4, <2>1, <2>2, <2>3, <2>4, <2>5 DEF CollectInv
<1>7. CASE Requested("fundamental") /\ ~FundamentalRaises(market, overview)
  <2>1. /\ records' = records \o found
        /\ warnings' = IF \E r \in ToSet(found) : r.source = "vnstock_company_overview"
                       THEN Append(warnings, "finance_failed") ELSE warnings
    BY <1>7 DEF FetchFundamentals, found
  <2>2. IsSeq(records') /\ ToSet(records') = ToSet(records) \cup ToSet(found)
    BY <1>3, <2>1, Joined DEF CollectInv
  <2>3. /\ IsSeq(Append(warnings, "finance_failed"))
        /\ Append(warnings, "finance_failed") # <<>>
    BY JoinedOne DEF CollectInv
  <2>4. IsSeq(warnings') /\ (warnings # <<>> => warnings' # <<>>)
    BY <2>1, <2>3 DEF CollectInv
  <2>5. StatementsKept'
    <3>1. ToSet(found) \subseteq Of("fundamentals")'
      BY <1>3, <2>2 DEF Of
    <3> QED
      BY <1>1, <1>3, <3>1 DEF StatementsKept
  <2>6. StandIn' => warnings' # <<>>
    <3>1. StandIn' => StandIn \/ \E r \in ToSet(found) : r.source = "vnstock_company_overview"
      BY <2>2 DEF StandIn, Of
    <3> QED
      BY <2>1, <2>3, <2>4, <3>1 DEF CollectInv
  <2>7. ClientTold'
    BY <1>1, <1>7 DEF ClientTold, FundamentalRaises
  <2> QED
    BY <1>4, <2>2, <2>4, <2>5, <2>6, <2>7
<1> QED
  BY <1>5, <1>6, <1>7

LEMMA FetchProfileKeeps ==
  ASSUME CollectInv, FetchProfile
  PROVE  CollectInv'
<1> DEFINE profile == ProfileRecord(overview, latest.eps, latest.bvps)
<1>1. /\ pc = "profile" /\ pc' = "fetched" /\ market.library = "ready"
      /\ UNCHANGED <<market, groups, overview, warnings, provider>>
  BY DEF CollectInv, FetchProfile, Goto, Fetching
<1>2. Asking
  BY <1>1 DEF Asking, Fetching
<1>3. profile.dataset = "company_profile"
  BY DEF ProfileRecord
<1> HIDE DEF profile
<1>4. /\ IsSeq(records') /\ ToSet(records) \subseteq ToSet(records')
      /\ \A r \in ToSet(records') : r \in ToSet(records) \/ r = profile
  BY JoinedOne DEF FetchProfile, profile, CollectInv
<1>5. /\ PricesKept => PricesKept'
      /\ StatementsKept => StatementsKept'
      /\ \A g : Requested(g)' = Requested(g)
  BY <1>1, <1>4, KeptStays
<1>6. ProfileKept'
  <2>1. ASSUME Requested("company_profile"), market.overview \notin {Raised, NoRow}
        PROVE  profile \in Of("company_profile")'
    <3>1. overview = market.overview
      BY <1>1, <2>1 DEF CollectInv
    <3>2. records' = Append(records, profile)
      BY <2>1, <3>1 DEF FetchProfile, profile
    <3>3. profile \in ToSet(records')
      BY <3>2, JoinedOne DEF CollectInv
    <3> QED
      BY <1>3, <3>3 DEF Of
  <2> QED
    BY <1>1, <2>1 DEF ProfileKept, Requested
<1>7. StandIn' => StandIn
  BY <1>3, <1>4 DEF StandIn, Of
<1>8. IsSeq(records)' /\ IsSeq(warnings)'
  BY <1>1, <1>4 DEF CollectInv, IsSeq
<1>9. ClientTold => ClientTold'
  BY <1>1, <1>5 DEF ClientTold
<1> QED
  BY <1>1, <1>2, <1>5, <1>6, <1>7, <1>8, <1>9 DEF CollectInv, Before, Fetching, After

LEMMA EndFetchKeeps ==
  ASSUME CollectInv, EndFetch
  PROVE  CollectInv'
<1>1. /\ pc = "fetched" /\ pc' = "result"
      /\ UNCHANGED <<market, groups, records>>
      /\ provider' \in {"failed", "partial", "success"}
      /\ warnings' = IF records = <<>> /\ warnings = <<>> THEN <<"empty_result">> ELSE warnings
  BY DEF EndFetch, Goto
<1>2. Asking
  BY <1>1 DEF CollectInv, Asking, Fetching
<1>3. IsSeq(warnings)' /\ (warnings # <<>> => warnings' # <<>>)
  BY <1>1, OneMember DEF CollectInv, IsSeq
<1>4. IsSeq(records)'
  BY <1>1 DEF CollectInv, IsSeq
<1>5. /\ PricesKept => PricesKept'
      /\ StatementsKept => StatementsKept'
      /\ ProfileKept => ProfileKept'
      /\ \A g : Requested(g)' = Requested(g)
  BY <1>1, KeptStays
<1>6. StandIn' = StandIn
  BY <1>1 DEF StandIn, Of
<1>7. PricesKept /\ StatementsKept /\ ProfileKept /\ ClientTold
  BY <1>1, <1>2 DEF CollectInv
<1>8. provider' # Null
  BY <1>1, NullIsNoStatus
<1>9. ClientTold'
  BY <1>1, <1>3, <1>5, <1>7 DEF ClientTold
<1> QED
  BY <1>1, <1>2, <1>3, <1>4, <1>5, <1>6, <1>7, <1>8, <1>9 DEF CollectInv, Before, Fetching, After

LEMMA CollectedKeeps ==
  ASSUME CollectInv, Collected
  PROVE  CollectInv'
<1>1. /\ pc = "result" /\ pc' \in {"failed", "collected"}
      /\ UNCHANGED <<market, groups, records, warnings, provider>>
  BY DEF Collected, Goto
<1>2. IsSeq(warnings')
  BY <1>1 DEF CollectInv
<1>3. Asking' => Asking
  BY <1>1 DEF Asking, Fetching
<1> QED
  BY <1>1, <1>2, <1>3, QuietKeeps DEF After

\* After the collection nothing of it changes but the stage.
LEMMA LaterKeeps ==
  ASSUME CollectInv, pc \in Told, pc' \in Told,
         UNCHANGED <<market, groups, records, warnings, provider>>
  PROVE  CollectInv'
<1>1. IsSeq(warnings')
  BY DEF CollectInv
<1>2. Asking' => Asking
  BY DEF Asking, Told, Fetching
<1> QED
  BY <1>1, <1>2, QuietKeeps DEF After, Told

LEMMA InitCollects == Init => CollectInv /\ VerdictInv
<1> SUFFICES ASSUME Init
             PROVE  CollectInv /\ VerdictInv
  OBVIOUS
<1>1. PICK case \in Cases : Begin(case)
  BY DEF Init
<1>2. /\ pc = "prepare" /\ market = case.market /\ provider = Null
      /\ records = <<>> /\ warnings = <<>> /\ events = <<>>
  BY <1>1 DEF Init, Begin
<1>3. records \in Seq({}) /\ warnings \in Seq({}) /\ events \in Seq({})
  BY <1>2
<1>4. /\ IsSeq(records) /\ ToSet(records) = {}
      /\ IsSeq(warnings) /\ IsSeq(events)
  BY <1>3, NoMember
<1>5. ~StandIn
  BY <1>4 DEF StandIn, Of
<1>6. ~Asking
  BY <1>2 DEF Asking, Fetching
<1> QED
  BY <1>2, <1>4, <1>5, <1>6 DEF CollectInv, VerdictInv, Before, Fetching, After, Told

--------------------------------------------------------------------------------
(* The steps after the collection.                                              *)

LEMMA StepCollects ==
  ASSUME CollectInv, [Next]_vars
  PROVE  CollectInv'
<1>1. CASE CollectNext
  BY <1>1, UnaskedKeeps, FetchPricesKeeps, FetchOverviewKeeps, FetchFundamentalsKeeps,
     FetchProfileKeeps, EndFetchKeeps, CollectedKeeps DEF CollectNext
<1>2. CASE Bundle \/ Analyse \/ Finish \/ Fail
  <2>1. /\ pc \in Told /\ pc' \in Told
        /\ UNCHANGED <<market, groups, records, warnings, provider>>
    BY <1>2 DEF Bundle, Analyse, Finish, Fail, Goto, Told
  <2> QED
    BY <2>1, LaterKeeps
<1>3. CASE UNCHANGED collectVars
  BY <1>3 DEF collectVars, CollectInv, IsSeq, Asking, Requested, PricesKept, StatementsKept,
              ProfileKept, ClientTold, StandIn, Of
<1>4. CASE Collect
  BY <1>1, <1>4 DEF Collect
<1>5. CASE Browser \/ UNCHANGED vars
  BY <1>3, <1>5 DEF Browser, vars
<1> QED
  BY <1>2, <1>4, <1>5 DEF Next

\* An event stays where it is when others follow.
LEMMA EventStays ==
  ASSUME NEW es, NEW more, IsSeq(es), IsSeq(more)
  PROVE  /\ IsSeq(es \o more)
         /\ \A d : (\E i \in DOMAIN es : es[i].data = d)
                     => \E i \in DOMAIN (es \o more) : (es \o more)[i].data = d
<1>1. IsSeq(es \o more)
  BY Joined
<1>2. \A i \in DOMAIN es : i \in DOMAIN (es \o more) /\ (es \o more)[i] = es[i]
  <2> DEFINE S == ToSet(es) \cup ToSet(more)
  <2>1. es \in Seq(S) /\ more \in Seq(S)
    BY DEF IsSeq
  <2> HIDE DEF S
  <2>2. \A i \in 1..Len(es) : (es \o more)[i] = es[i]
    BY <2>1
  <2>3. /\ DOMAIN es = 1..Len(es) /\ Len(es) \in Nat /\ Len(more) \in Nat
        /\ DOMAIN (es \o more) = 1..(Len(es) + Len(more))
    BY <2>1
  <2> QED
    BY <2>2, <2>3
<1> QED
  BY <1>1, <1>2

LEMMA TwoMembers ==
  ASSUME NEW x, NEW y
  PROVE  IsSeq(<<x, y>>)
<1>1. <<x, y>> \in Seq({x, y}) /\ ToSet(<<x, y>>) = {x, y}
  BY DEF ToSet
<1> QED
  BY <1>1 DEF IsSeq

\* A step of the collection reaches a verdict in its last step only.
LEMMA CollectTells ==
  ASSUME CollectInv, VerdictInv, Collect
  PROVE  VerdictInv'
<1>1. IsSeq(events)'
  <2> DEFINE a == Event("run.started", <<workflow>>)
             b == Stage("collect", "running", <<>>)
  <2>1. events' = events \/ events' = <<a, b>>
    BY DEF Collect
  <2> HIDE DEF a, b
  <2>2. IsSeq(<<a, b>>)
    BY TwoMembers
  <2> QED
    BY <2>1, <2>2 DEF VerdictInv, IsSeq
<1>2. CASE Collected
  <2>1. /\ pc' = IF records = <<>> THEN "failed" ELSE "collected"
        /\ status' = ResultStatus
        /\ warnings' = warnings
    BY <1>2 DEF Collected, Goto
  <2>2. /\ status' \in {"success", "partial", "failed"}
        /\ warnings # <<>> => status' # "success"
        /\ records = <<>> => status' = "failed"
    BY <2>1 DEF ResultStatus
  <2> QED
    BY <1>1, <2>1, <2>2 DEF VerdictInv, Told
<1>3. CASE ~Collected
  <2>1. CollectNext
    BY DEF Collect
  <2>2. pc' \in Before \cup Fetching \cup {"result"}
    BY <1>3, <2>1 DEF CollectNext, Reject, Plan, NoProvider, Unavailable, FetchPrices,
       FetchOverview, FetchFundamentals, FetchProfile, EndFetch, Goto, Before, Fetching
  <2> QED
    BY <1>1, <2>2 DEF VerdictInv, Told, Before, Fetching
<1> QED
  BY <1>2, <1>3

LEMMA BundleTells ==
  ASSUME VerdictInv, Bundle
  PROVE  VerdictInv'
<1> DEFINE told == Stage("collect", status, warnings)
<1>1. /\ pc = "collected" /\ pc' = "analyse" /\ events' = Append(events, told)
      /\ UNCHANGED <<status, warnings>>
  BY DEF Bundle, Goto
<1>2. told.data = <<"collect", status>> \o warnings
  BY DEF Stage, Event
<1> HIDE DEF told
<1>3. IsSeq(events') /\ ToSet(events') = ToSet(events) \cup {told}
  BY <1>1, JoinedOne DEF VerdictInv
<1>4. \E i \in DOMAIN events' : events'[i].data = <<"collect", status>> \o warnings
  BY <1>2, <1>3 DEF ToSet
<1>5. IsSeq(events)'
  BY <1>3 DEF IsSeq
<1> QED
  BY <1>1, <1>4, <1>5 DEF VerdictInv, Told

\* The steps that only add to the events.
LEMMA LaterTells ==
  ASSUME VerdictInv, UNCHANGED <<status, warnings>>, IsSeq(events'),
         \A d : (\E i \in DOMAIN events : events[i].data = d)
                  => \E i \in DOMAIN events' : events'[i].data = d,
         \/ pc = "analyse" /\ pc' \in {"analyse", "done"}
         \/ pc' = pc
         \/ pc = "failed" /\ pc' = "done"
  PROVE  VerdictInv'
<1>1. IsSeq(events)'
  BY DEF IsSeq
<1> QED
  BY <1>1 DEF VerdictInv, Told

LEMMA AnalyseTells ==
  ASSUME VerdictInv, Analyse
  PROVE  VerdictInv'
<1> DEFINE name == Skills[skill]
           given == SkillDataBundle(name)
           known == Cite(citations, given)
           opening == <<Stage(name, "running", <<>>), Stage(name, "running", <<>>)>>
           closing == <<Stage(name, "success", <<>>)>>
           cites(cited) == IF cited \cap DOMAIN known = {} THEN <<>>
                           ELSE <<Event("citation", <<"citation">>)>>
<1>1. UNCHANGED <<pc, status, warnings>>
  BY DEF Analyse
<1>2. PICK cited : events' = events \o opening \o AnswerDeltas \o cites(cited) \o closing
  BY DEF Analyse
<1>3. IsSeq(opening)
  BY TwoMembers
<1>4. IsSeq(closing)
  BY OneMember
<1>5. IsSeq(AnswerDeltas)
  <2>1. AnswerDeltas \in Seq({}) \/ \E x : AnswerDeltas = <<x>>
    BY DEF AnswerDeltas
  <2> QED
    BY <2>1, NoMember, OneMember
<1>6. IsSeq(cites(cited))
  <2>1. cites(cited) \in Seq({}) \/ \E x : cites(cited) = <<x>>
    OBVIOUS
  <2> QED
    BY <2>1, NoMember, OneMember
<1> HIDE DEF opening, closing, cites
<1> DEFINE one == events \o opening
           two == one \o AnswerDeltas
           three == two \o cites(cited)
           Has(es, d) == \E i \in DOMAIN es : es[i].data = d
<1>7. IsSeq(one) /\ \A d : Has(events, d) => Has(one, d)
  BY <1>3, EventStays DEF VerdictInv
<1> HIDE DEF one
<1>8. IsSeq(two) /\ \A d : Has(one, d) => Has(two, d)
  BY <1>5, <1>7, EventStays
<1> HIDE DEF two
<1>9. IsSeq(three) /\ \A d : Has(two, d) => Has(three, d)
  BY <1>6, <1>8, EventStays
<1> HIDE DEF three
<1>10. IsSeq(three \o closing) /\ \A d : Has(three, d) => Has(three \o closing, d)
  BY <1>4, <1>9, EventStays
<1>11. events' = three \o closing
  BY <1>2 DEF one, two, three
<1>12. IsSeq(events') /\ \A d : Has(events, d) => Has(events', d)
  <2> HIDE DEF Has
  <2> QED
    BY <1>7, <1>8, <1>9, <1>10, <1>11
<1> QED
  BY <1>1, <1>12, LaterTells

LEMMA EndingTells ==
  ASSUME VerdictInv, Finish \/ Fail
  PROVE  VerdictInv'
<1>1. /\ UNCHANGED <<status, warnings>>
      /\ (pc = "analyse" /\ pc' = "done") \/ (pc = "failed" /\ pc' = "done")
  BY DEF Finish, Fail, Goto
<1>2. PICK more : events' = events \o more /\ IsSeq(more)
  <2>1. CASE Finish
    <3>1. PICK a, b : events' = events \o <<a, b>>
      BY <2>1 DEF Finish
    <3> QED
      BY <3>1, TwoMembers
  <2>2. CASE Fail
    <3>1. PICK a : events' = Append(events, a)
      BY <2>2 DEF Fail
    <3>2. events \in Seq(ToSet(events) \cup {a})
      BY DEF VerdictInv, IsSeq
    <3>3. events' = events \o <<a>>
      BY <3>1, <3>2
    <3>4. IsSeq(<<a>>)
      BY OneMember
    <3> QED
      BY <3>3, <3>4
  <2> QED
    BY <2>1, <2>2
<1>3. /\ IsSeq(events')
      /\ \A d : (\E i \in DOMAIN events : events[i].data = d)
                  => \E i \in DOMAIN events' : events'[i].data = d
  BY <1>2, EventStays DEF VerdictInv
<1> QED
  BY <1>1, <1>3, LaterTells

LEMMA StepTells ==
  ASSUME CollectInv, VerdictInv, [Next]_vars
  PROVE  VerdictInv'
<1>1. CASE Browser \/ UNCHANGED vars
  BY <1>1 DEF Browser, vars, collectVars, evidenceVars, VerdictInv, IsSeq
<1> QED
  BY <1>1, CollectTells, BundleTells, AnalyseTells, EndingTells DEF Next

--------------------------------------------------------------------------------
(* The theorems.                                                                *)

\* Both invariants hold of every run.
THEOREM CollectionHolds == Spec => [](CollectInv /\ VerdictInv)
<1>1. (CollectInv /\ VerdictInv) /\ [Next]_vars => (CollectInv /\ VerdictInv)'
  BY StepCollects, StepTells
<1> QED
  BY <1>1, InitCollects, PTL DEF Spec

\* A group of the vendor's data that fails takes nothing from the others, whatever
\* the request was of and however the vendor answers (vnstock.py, fetch).
THEOREM GroupsFailAlone == Spec => []EachGroupOnItsOwn
<1>1. CollectInv => EachGroupOnItsOwn
  <2> SUFFICES ASSUME CollectInv, Fetched
               PROVE  PricesKept /\ StatementsKept /\ ProfileKept
    BY DEF EachGroupOnItsOwn, PricesKept, StatementsKept, ProfileKept
  <2>1. Asking
    BY NullIsNoStatus DEF Fetched, Asking
  <2>2. pc \notin {"overview", "fundamentals", "profile"}
    BY DEF Fetched
  <2> QED
    BY <2>1, <2>2 DEF CollectInv
<1> QED
  BY <1>1, CollectionHolds, PTL

\* A requested price series that could not be fetched, a client of the statements that
\* raised, and statements that had to be replaced by the overview are told: the
\* collection is no success, has a warning, and the run's stage event carries it
\* (vnstock.py, fetch; dataflows/service.py, _result_status).
THEOREM FailuresAreTold == Spec => []FailureIsTold
<1>1. CollectInv /\ VerdictInv => FailureIsTold
  <2> SUFFICES ASSUME CollectInv, VerdictInv, pc \in Told,
                      \/ Requested("market_price") /\ market.library = "ready"
                           /\ PriceRaises(market.price)
                      \/ Requested("fundamental") /\ market.library = "ready"
                           /\ market.equity = Raised
                      \/ StandIn
               PROVE  /\ status \in {"partial", "failed"}
                      /\ warnings # <<>>
                      /\ status = "partial" /\ pc = "done"
                           => \E i \in DOMAIN events :
                                events[i].data = <<"collect", "partial">> \o warnings
    BY DEF FailureIsTold, StandIn, Told
  <2>1. warnings # <<>>
    <3>1. ASSUME Requested("market_price"), market.library = "ready",
                 PriceRaises(market.price)
          PROVE  warnings # <<>>
      <4>1. ToSet(groups) \cap Supported # {}
        BY <3>1 DEF Requested, Supported
      <4>2. provider # Null
        BY <3>1, <4>1 DEF CollectInv, Told, After
      <4> QED
        BY <3>1, <4>2 DEF CollectInv, Asking
    <3>2. ASSUME Requested("fundamental"), market.library = "ready", market.equity = Raised
          PROVE  warnings # <<>>
      <4>1. ToSet(groups) \cap Supported # {}
        BY <3>2 DEF Requested, Supported
      <4>2. provider # Null
        BY <3>2, <4>1 DEF CollectInv, Told, After
      <4>3. ClientTold
        BY <3>2, <4>2 DEF CollectInv, Asking, Told
      <4> QED
        BY <3>2, <4>3 DEF ClientTold
    <3> QED
      BY <3>1, <3>2 DEF CollectInv
  <2>2. status \in {"partial", "failed"}
    BY <2>1 DEF VerdictInv
  <2>3. status = "partial" /\ pc = "done"
          => \E i \in DOMAIN events : events[i].data = <<"collect", "partial">> \o warnings
    BY DEF VerdictInv
  <2> QED
    BY <2>1, <2>2, <2>3
<1> QED
  BY <1>1, CollectionHolds, PTL

--------------------------------------------------------------------------------
(* What the records become.                                                     *)

Datasets == {"prices", "fundamentals", "company_profile"}

\* A record of the prices has bars.
Recorded(r) == r.dataset \in Datasets /\ (r.dataset = "prices" => r.payload # <<>>)
RecordsInv == \A r \in ToSet(records) : Recorded(r)

\* The five fields of a record of evidence.
IsEvidence(r) == r = [type |-> r.type, id |-> r.id, time |-> r.time,
                      source |-> r.source, payload |-> r.payload]

HasType(recs, type) == \E r \in ToSet(recs) : r.type = type

\* What was collected is in the bundle, and what is derived of the prices is, too.
BundleHas ==
  /\ Of("prices") # {} =>
       /\ HasType(bundle, "price_summary") /\ HasType(bundle, "pattern_evidence")
       /\ HasType(bundle, "pattern_setup")
       /\ "technical" \in ToSet(Skills) => HasType(bundle, "indicator")
  /\ Of("fundamentals") # {} => HasType(bundle, "fundamental")
  /\ Of("company_profile") # {} => HasType(bundle, "company_profile")

\* What a skill was given is what the bundle has for it.
SeenInv ==
  /\ workflow \in DOMAIN SkillsOf
  /\ IsSeq(bundle) /\ \A r \in ToSet(bundle) : IsEvidence(r)
  /\ IsSeq(seen) /\ skill \in 1..(Len(Skills) + 1) /\ Len(seen) = skill - 1
  /\ pc \notin {"analyse", "done"} => seen = <<>> /\ used = {}
  /\ pc = "analyse" \/ seen # <<>> => BundleHas
  /\ \A i \in DOMAIN seen : seen[i] = SkillDataBundle(Skills[i])

\* Skill g was the last that was given a record with this id.
LastGiver(g, id) == /\ g \in DOMAIN seen /\ id \in Ids(seen[g])
                    /\ \A k \in DOMAIN seen : id \in Ids(seen[k]) => k <= g

\* The citation of an id that was given is the record the last skill saw.
CiteInv ==
  /\ used \subseteq UNION {Ids(seen[i]) : i \in DOMAIN seen}
  /\ \A i \in DOMAIN seen : \A id \in Ids(seen[i]) :
       id \in DOMAIN citations
       /\ \E g : LastGiver(g, id) /\ citations[id] \in ToSet(seen[g])

\* A series that is recorded has bars.
LEMMA PricesRecorded ==
  ASSUME NEW answers
  PROVE  \A r \in ToSet(PriceRecords(answers)) : Recorded(r)
<1> DEFINE series == PriceSeries(answers)
           record == [dataset |-> "prices", key |-> "prices", source |-> "vnstock_prices",
                      time |-> Last(series).date, payload |-> series]
<1>1. CASE series = <<>>
  <2>1. PriceRecords(answers) \in Seq({})
    BY <1>1 DEF PriceRecords
  <2>2. QED
    BY <2>1, NoMember, Zenon
<1>2. CASE series # <<>>
  <2>1. PriceRecords(answers) = <<record>>
    BY <1>2 DEF PriceRecords
  <2>2. ToSet(<<record>>) = {record}
    BY OneMember
  <2>3. Recorded(record)
    BY <1>2 DEF Recorded, Datasets
  <2>4. QED
    BY <2>1, <2>2, <2>3
<1>3. QED
  BY <1>1, <1>2

LEMMA StepRecords ==
  ASSUME CollectInv, RecordsInv, [Next]_vars
  PROVE  RecordsInv'
<1>1. CASE UNCHANGED records
  BY <1>1 DEF RecordsInv, Recorded
<1>2. CASE FetchPrices
  <2>1. records' = records \/ records' = PriceRecords(market.price) \/ records' = <<>>
    BY <1>2 DEF FetchPrices
  <2>2. ToSet(<<>>) = {}
    <3>1. <<>> \in Seq({})
      OBVIOUS
    <3>2. QED
      BY <3>1, NoMember, Zenon
  <2>3. QED
    BY <1>1, <2>1, <2>2, PricesRecorded DEF RecordsInv
<1>3. CASE FetchFundamentals
  <2> DEFINE found == Fundamentals(market, overview).records
  <2>1. records' = records \/ records' = records \o found
    BY <1>3 DEF FetchFundamentals
  <2>2. IsSeq(found) /\ \A r \in ToSet(found) : r.dataset = "fundamentals"
    BY StatementsFound DEF CollectInv
  <2> HIDE DEF found
  <2>3. ToSet(records \o found) = ToSet(records) \cup ToSet(found)
    BY <2>2, Joined DEF CollectInv
  <2>4. \A r \in ToSet(found) : Recorded(r)
    BY <2>2 DEF Recorded, Datasets
  <2>5. QED
    BY <1>1, <2>1, <2>3, <2>4 DEF RecordsInv
<1>4. CASE FetchProfile
  <2> DEFINE profile == ProfileRecord(overview, latest.eps, latest.bvps)
  <2>1. records' = records \/ records' = Append(records, profile)
    BY <1>4 DEF FetchProfile
  <2>2. Recorded(profile)
    BY DEF ProfileRecord, Recorded, Datasets
  <2> HIDE DEF profile
  <2>3. ToSet(Append(records, profile)) = ToSet(records) \cup {profile}
    BY JoinedOne DEF CollectInv
  <2>4. QED
    BY <1>1, <2>1, <2>2, <2>3 DEF RecordsInv
<1>5. QED
  BY <1>1, <1>2, <1>3, <1>4
     DEF Next, Collect, CollectNext, Bundle, Analyse, Finish, Fail, Browser, Goto, Reject,
         Plan, NoProvider, Unavailable, FetchOverview, EndFetch, Collected, vars, collectVars

--------------------------------------------------------------------------------
(* What is chosen of a sequence of records.                                     *)

\* A sequence that has a place for each place of another.
LEMMA SameLength ==
  ASSUME NEW s, NEW t, IsSeq(s), t = [i \in DOMAIN s |-> t[i]]
  PROVE  IsSeq(t)
<1>1. DOMAIN s = 1..Len(s) /\ Len(s) \in Nat
  BY DEF IsSeq
<1>2. DOMAIN t = DOMAIN s /\ \A i \in DOMAIN s : t[i] \in ToSet(t)
  BY DEF ToSet
<1>3. QED
  BY <1>1, <1>2 DEF IsSeq

\* What is picked of a sequence is what it has at those places.
LEMMA PickedSet ==
  ASSUME NEW s, NEW I, IsSeq(s)
  PROVE  /\ IsSeq(Picked(s, I))
         /\ ToSet(Picked(s, I)) = {s[i] : i \in I \cap DOMAIN s}
<1>1. s \in Seq(ToSet(s))
  BY DEF IsSeq
<1>2. Picked(s, I) \in Seq(ToSet(s))
  BY <1>1, PickedElements
<1>3. {Picked(s, I)[j] : j \in DOMAIN Picked(s, I)} = {s[i] : i \in I \cap DOMAIN s}
  BY <1>1, PickedRange
<1> DEFINE p == Picked(s, I)
<1>4. p \in Seq(ToSet(p))
  <2> HIDE DEF p
  <2>1. p \in Seq(ToSet(s))
    BY <1>2 DEF p
  <2>2. DOMAIN p = 1..Len(p) /\ \A i \in DOMAIN p : p[i] \in ToSet(p)
    BY <2>1 DEF ToSet
  <2>3. QED
    BY <2>1, <2>2
<1>5. QED
  BY <1>3, <1>4 DEF IsSeq, ToSet

\* A finite set of numbers has a largest.
LEMMA MaxIs ==
  ASSUME NEW m \in Nat, NEW T, T \subseteq 1..m, T # {}
  PROVE  Max(T) \in T /\ \A y \in T : y <= Max(T)
<1> DEFINE U == {n \in Nat : \E y \in T : n = m - y}
<1>1. U \subseteq Nat /\ U # {}
  <2>1. PICK y \in T : TRUE
    OBVIOUS
  <2>2. m - y \in U
    BY <2>1
  <2>3. QED
    BY <2>2
<1>2. PICK n \in U : \A k \in U : n <= k
  BY <1>1, LeastNat
<1>3. PICK x \in T : n = m - x
  BY <1>2
<1>4. ASSUME NEW y \in T PROVE x >= y
  <2>1. m - y \in U
    OBVIOUS
  <2>2. n <= m - y /\ x \in 1..m /\ y \in 1..m
    BY <1>2, <2>1
  <2>3. QED
    BY <1>3, <2>2
<1>5. \A y \in T : Max(T) >= y
  BY <1>4 DEF Max
<1>6. Max(T) \in T
  BY <1>4 DEF Max
<1>7. QED
  BY <1>5, <1>6

\* The last record with an id has the id.
LEMMA LastWithIs ==
  ASSUME NEW recs, NEW id, IsSeq(recs), id \in Ids(recs)
  PROVE  LastWith(recs, id) \in ToSet(recs)
<1> DEFINE T == {i \in DOMAIN recs : recs[i].id = id}
<1>1. DOMAIN recs = 1..Len(recs) /\ Len(recs) \in Nat
  BY DEF IsSeq
<1>2. T \subseteq 1..Len(recs) /\ T # {}
  BY <1>1 DEF Ids
<1>3. Max(T) \in T
  BY <1>1, <1>2, MaxIs
<1>4. QED
  BY <1>3 DEF LastWith, ToSet

\* The records of a bundle that a skill is given: those of its types, with the
\* statements marked when it is the analysis.
GivenTypes(name) == IF name = "technical" THEN Technical ELSE Fundamental

LEMMA Given ==
  ASSUME NEW name, IsSeq(bundle), \A r \in ToSet(bundle) : IsEvidence(r)
  PROVE  /\ IsSeq(SkillDataBundle(name))
         /\ \A type \in GivenTypes(name) :
              HasType(bundle, type) => HasType(SkillDataBundle(name), type)
         /\ \A r \in ToSet(SkillDataBundle(name)) : r.type \in GivenTypes(name)
<1> DEFINE I == {i \in DOMAIN bundle : bundle[i].type \in GivenTypes(name)}
           given == Picked(bundle, I)
           marked == MarkAudited(given)
<1>1. SkillDataBundle(name) = IF name = "fundamental" THEN marked ELSE given
  BY DEF SkillDataBundle, GivenTypes
<1>2. IsSeq(given) /\ ToSet(given) = {bundle[i] : i \in I \cap DOMAIN bundle}
  BY PickedSet
<1>3. \A r \in ToSet(given) : IsEvidence(r) /\ r.type \in GivenTypes(name)
  BY <1>2 DEF ToSet
<1>4. \A type \in GivenTypes(name) : HasType(bundle, type) => HasType(given, type)
  BY <1>2 DEF ToSet, HasType
<1> HIDE DEF given, I
<1>5. \A i \in DOMAIN given : marked[i].type = given[i].type
  <2>1. SUFFICES ASSUME NEW i \in DOMAIN given PROVE marked[i].type = given[i].type
    OBVIOUS
  <2>2. PICK r : r = given[i]
    OBVIOUS
  <2>3. IsEvidence(r)
    BY <1>3, <2>2 DEF ToSet
  <2>4. [r EXCEPT !.payload.is_audited = TRUE].type = r.type
    BY <2>3 DEF IsEvidence
  <2>5. marked[i] = IF r.type = "fundamental" THEN [r EXCEPT !.payload.is_audited = TRUE] ELSE r
    BY <2>2 DEF MarkAudited
  <2>6. QED
    BY <2>2, <2>4, <2>5
<1>6. IsSeq(marked) /\ DOMAIN marked = DOMAIN given
  <2>1. marked = [i \in DOMAIN given |-> marked[i]]
    BY DEF MarkAudited
  <2> HIDE DEF marked
  <2>2. IsSeq(marked)
    BY <1>2, <2>1, SameLength
  <2>3. QED
    BY <2>1, <2>2
<1> HIDE DEF marked
<1>7. /\ \A r \in ToSet(marked) : r.type \in GivenTypes(name)
      /\ \A type : HasType(given, type) => HasType(marked, type)
  BY <1>3, <1>5, <1>6 DEF ToSet, HasType
<1>8. QED
  BY <1>1, <1>2, <1>3, <1>4, <1>6, <1>7

--------------------------------------------------------------------------------
(* The bundle of what was collected.                                            *)

\* Records that include the prices have a series, and it has bars.
LEMMA SeriesThere ==
  ASSUME NEW recs, IsSeq(recs), \E r \in ToSet(recs) : r.dataset = "prices",
         \A r \in ToSet(recs) : r.dataset = "prices" => r.payload # <<>>
  PROVE  PriceSeriesOf(recs) # <<>>
<1> DEFINE prices == PriceRecordsOf(recs)
<1>1. IsSeq(prices) /\ ToSet(prices) = {r \in ToSet(recs) : r.dataset = "prices"}
  <2> DEFINE I == {i \in DOMAIN recs : recs[i].dataset = "prices"}
  <2>1. IsSeq(Picked(recs, I)) /\ ToSet(Picked(recs, I)) = {recs[i] : i \in I \cap DOMAIN recs}
    BY PickedSet
  <2>2. {recs[i] : i \in I \cap DOMAIN recs} = {r \in ToSet(recs) : r.dataset = "prices"}
    BY DEF ToSet
  <2>3. QED
    BY <2>1, <2>2 DEF PriceRecordsOf
<1> HIDE DEF prices
<1>2. prices # <<>> /\ Head(prices) \in ToSet(prices)
  <2>1. PICK i \in DOMAIN prices : TRUE
    BY <1>1 DEF ToSet
  <2>2. 1 \in DOMAIN prices /\ Head(prices) = prices[1] /\ prices # <<>>
    BY <1>1, <2>1 DEF IsSeq
  <2>3. QED
    BY <2>2 DEF ToSet
<1>3. PICK r : r = Head(prices)
  OBVIOUS
<1>4. r.payload # <<>>
  BY <1>1, <1>2, <1>3
<1>5. QED
  BY <1>2, <1>3, <1>4 DEF PriceSeriesOf, prices

\* The records with the indicators, when a technical skill has a series.
LEMMA Enriched ==
  ASSUME RecordsInv, IsSeq(records)
  PROVE  LET recs == EnrichWithIndicators(records) IN
         /\ IsSeq(recs) /\ ToSet(records) \subseteq ToSet(recs)
         /\ \A r \in ToSet(recs) : r.dataset \in Datasets \cup {"indicators"}
         /\ \A r \in ToSet(recs) : r.dataset = "prices" => r \in ToSet(records)
         /\ Of("prices") # {} /\ "technical" \in ToSet(Skills)
              => \E r \in ToSet(recs) : r.dataset = "indicators"
<1> DEFINE recs == EnrichWithIndicators(records)
           series == PriceSeriesOf(records)
           added == [dataset |-> "indicators", key |-> "indicators",
                     source |-> "computed_indicators", time |-> Last(series).date,
                     payload |-> Computed!ComputeIndicators(series)]
<1>1. added.dataset = "indicators"
  OBVIOUS
<1>2. recs = IF "technical" \notin ToSet(Skills) \/ series = <<>> THEN records
             ELSE Append(records, added)
  BY DEF EnrichWithIndicators, Skills
<1>3. \A r \in ToSet(records) : r.dataset \in Datasets
  BY DEF RecordsInv, Recorded
<1>4. Of("prices") # {} => series # <<>>
  BY SeriesThere DEF Of, RecordsInv, Recorded
<1> HIDE DEF recs, series, added
<1>5. IsSeq(Append(records, added)) /\ ToSet(Append(records, added)) = ToSet(records) \cup {added}
  BY JoinedOne
<1>6. "indicators" \notin Datasets /\ "indicators" # "prices"
  BY DEF Datasets
<1>7. QED
  BY <1>1, <1>2, <1>3, <1>4, <1>5, <1>6 DEF recs

\* A record as evidence: its type is that of its dataset.
LEMMA BuiltRecord ==
  ASSUME NEW r, r.dataset \in Datasets \cup {"indicators"}
  PROVE  /\ IsEvidence(BuildDataRecord(r))
         /\ BuildDataRecord(r).type = RecordType[r.dataset]
         /\ r.dataset = "prices" => BuildDataRecord(r).payload = r.payload
  BY DEF BuildDataRecord, DataRecord, IsEvidence, RecordType, Datasets

LEMMA BundleBuilt ==
  ASSUME RecordsInv, IsSeq(records), bundle' = BuildDataBundle(EnrichWithIndicators(records)),
         UNCHANGED <<records, workflow>>
  PROVE  IsSeq(bundle') /\ (\A r \in ToSet(bundle') : IsEvidence(r)) /\ BundleHas'
<1> DEFINE recs == EnrichWithIndicators(records)
           built == [i \in DOMAIN recs |-> BuildDataRecord(recs[i])]
           I == {i \in DOMAIN built : built[i].type = "price_series"}
           prices == Picked(built, I)
           more == Derived(Head(prices))
<1>1. /\ IsSeq(recs) /\ ToSet(records) \subseteq ToSet(recs)
      /\ \A r \in ToSet(recs) : r.dataset \in Datasets \cup {"indicators"}
      /\ \A r \in ToSet(recs) : r.dataset = "prices" => r \in ToSet(records)
      /\ Of("prices") # {} /\ "technical" \in ToSet(Skills)
           => \E r \in ToSet(recs) : r.dataset = "indicators"
  BY Enriched
<1>2. bundle' = IF prices = <<>> \/ Head(prices).payload = <<>> THEN built ELSE built \o more
  BY DEF BuildDataBundle
<1> HIDE DEF recs
<1>3. IsSeq(built) /\ ToSet(built) = {BuildDataRecord(r) : r \in ToSet(recs)}
  <2>1. built = [i \in DOMAIN recs |-> built[i]]
    OBVIOUS
  <2>2. ToSet(built) = {BuildDataRecord(r) : r \in ToSet(recs)}
    BY DEF ToSet
  <2> HIDE DEF built
  <2>3. QED
    BY <1>1, <2>1, <2>2, SameLength
<1>4. IsSeq(prices) /\ ToSet(prices) = {r \in ToSet(built) : r.type = "price_series"}
  <2>1. {built[i] : i \in I \cap DOMAIN built} = {r \in ToSet(built) : r.type = "price_series"}
    <3> HIDE DEF built
    <3>1. QED
      BY DEF ToSet
  <2> HIDE DEF built, I
  <2>2. QED
    BY <1>3, <2>1, PickedSet
<1> HIDE DEF built, I, prices
<1>5. \A r \in ToSet(built) : IsEvidence(r)
  BY <1>1, <1>3, BuiltRecord
<1>6. \A r \in ToSet(recs) : HasType(built, RecordType[r.dataset])
  BY <1>1, <1>3, BuiltRecord DEF HasType
<1>7. \A r \in ToSet(prices) : r.payload # <<>>
  <2>1. SUFFICES ASSUME NEW d \in ToSet(recs), BuildDataRecord(d).type = "price_series"
                 PROVE  BuildDataRecord(d).payload # <<>>
    BY <1>3, <1>4
  <2>2. d.dataset \in Datasets \cup {"indicators"} /\ RecordType[d.dataset] = "price_series"
    BY <1>1, <2>1, BuiltRecord
  <2>3. d.dataset = "prices"
    BY <2>2 DEF RecordType, Datasets
  <2>4. d.payload # <<>>
    BY <1>1, <2>1, <2>3 DEF RecordsInv, Recorded
  <2>5. QED
    BY <2>2, <2>3, <2>4, BuiltRecord
<1>8. Of("prices") # {} => prices # <<>> /\ Head(prices).payload # <<>>
  <2>1. SUFFICES ASSUME NEW r \in ToSet(records), r.dataset = "prices"
                 PROVE  prices # <<>> /\ Head(prices).payload # <<>>
    BY DEF Of
  <2>2. PICK e \in ToSet(built) : e.type = "price_series"
    <3>1. RecordType[r.dataset] = "price_series"
      BY <2>1 DEF RecordType
    <3>2. QED
      BY <1>1, <1>6, <3>1 DEF HasType
  <2>3. e \in ToSet(prices)
    BY <1>4, <2>2
  <2>4. Head(prices) \in ToSet(prices) /\ prices # <<>>
    <3>1. PICK i \in DOMAIN prices : TRUE
      BY <2>3 DEF ToSet
    <3>2. 1 \in DOMAIN prices /\ Head(prices) = prices[1] /\ prices # <<>>
      BY <1>4, <3>1 DEF IsSeq
    <3>3. QED
      BY <3>2 DEF ToSet
  <2>5. PICK h : h = Head(prices)
    OBVIOUS
  <2>6. QED
    BY <1>7, <2>4, <2>5
<1>9. /\ IsSeq(more) /\ \A r \in ToSet(more) : IsEvidence(r)
      /\ HasType(more, "price_summary") /\ HasType(more, "pattern_evidence")
      /\ HasType(more, "pattern_setup")
  <2> DEFINE price == Head(prices)
             rec(type, suffix, payload) ==
               [type |-> type, id |-> price.id \o suffix, time |-> price.time,
                source |-> price.source, payload |-> payload]
             a == rec("price_summary", <<>>, YearEndPrices(price.payload))
             b == rec("pattern_evidence", <<"pattern_evidence">>,
                      Setups!DetectPatternEvidence(price.payload))
             c == rec("pattern_setup", <<"pattern_setup">>,
                      Setups!DetectPatternSetups(price.payload))
  <2>1. more = <<a, b, c>>
    BY DEF Derived
  <2>2. /\ IsEvidence(a) /\ a.type = "price_summary"
        /\ IsEvidence(b) /\ b.type = "pattern_evidence"
        /\ IsEvidence(c) /\ c.type = "pattern_setup"
    BY DEF IsEvidence
  <2> HIDE DEF a, b, c, more
  <2>3. ToSet(<<a, b, c>>) = {a, b, c} /\ <<a, b, c>> \in Seq({a, b, c})
    BY DEF ToSet
  <2>4. QED
    BY <2>1, <2>2, <2>3 DEF IsSeq, HasType
<1> HIDE DEF more
<1>10. IsSeq(built \o more) /\ ToSet(built \o more) = ToSet(built) \cup ToSet(more)
  BY <1>3, <1>9, Joined
<1>11. IsSeq(bundle') /\ \A r \in ToSet(bundle') : IsEvidence(r)
  BY <1>2, <1>3, <1>5, <1>9, <1>10
<1>12. \A type : HasType(built, type) => HasType(bundle', type)
  BY <1>2, <1>10 DEF HasType
<1>13. Of("prices") # {} =>
         /\ HasType(bundle', "price_summary") /\ HasType(bundle', "pattern_evidence")
         /\ HasType(bundle', "pattern_setup")
         /\ "technical" \in ToSet(Skills) => HasType(bundle', "indicator")
  <2>1. ASSUME Of("prices") # {} PROVE bundle' = built \o more
    BY <1>2, <1>8, <2>1
  <2>2. ASSUME Of("prices") # {}, "technical" \in ToSet(Skills)
        PROVE  HasType(built, "indicator")
    <3>1. PICK r \in ToSet(recs) : r.dataset = "indicators"
      BY <1>1, <2>2
    <3>2. RecordType[r.dataset] = "indicator"
      BY <3>1 DEF RecordType
    <3>3. QED
      BY <1>6, <3>1, <3>2
  <2>3. QED
    BY <1>9, <1>10, <1>12, <2>1, <2>2 DEF HasType
<1>14. /\ Of("fundamentals") # {} => HasType(bundle', "fundamental")
       /\ Of("company_profile") # {} => HasType(bundle', "company_profile")
  <2>1. /\ RecordType["fundamentals"] = "fundamental"
        /\ RecordType["company_profile"] = "company_profile"
    BY DEF RecordType
  <2>2. QED
    BY <1>1, <1>6, <1>12, <2>1 DEF Of
<1>15. \A d : Of(d)' = Of(d)
  BY DEF Of
<1>16. Skills' = Skills
  BY DEF Skills
<1>17. \A type : HasType(bundle, type)' = HasType(bundle', type)
  BY DEF HasType
<1>18. BundleHas'
  BY <1>13, <1>14, <1>15, <1>16, <1>17 DEF BundleHas
<1>19. QED
  BY <1>11, <1>18

--------------------------------------------------------------------------------
(* What the skills see and cite.                                                *)

LEMMA InitSees == Init => RecordsInv /\ SeenInv /\ CiteInv
<1> SUFFICES ASSUME Init PROVE RecordsInv /\ SeenInv /\ CiteInv
  OBVIOUS
<1>1. PICK case \in Cases : Begin(case)
  BY DEF Init
<1>2. /\ records = <<>> /\ bundle = <<>> /\ seen = <<>> /\ used = {} /\ skill = 1
      /\ pc = "prepare" /\ workflow = case.workflow
  BY <1>1 DEF Init, Begin
<1>3. IsSeq(<<>>) /\ ToSet(<<>>) = {}
  <2>1. <<>> \in Seq({})
    OBVIOUS
  <2>2. QED
    BY <2>1, NoMember, Zenon
<1>4. workflow \in DOMAIN SkillsOf
  BY <1>2, WorkflowsAreDefined DEF SkillsOf
<1>5. RecordsInv
  BY <1>2, <1>3 DEF RecordsInv
<1>6. DOMAIN seen = {}
  BY <1>2
<1>7. Len(Skills) \in Nat /\ Len(seen) = 0
  BY <1>2, <1>4 DEF Skills, SkillsOf
<1>8. SeenInv
  BY <1>2, <1>3, <1>4, <1>6, <1>7 DEF SeenInv
<1>9. QED
  BY <1>2, <1>5, <1>6, <1>8 DEF CiteInv

\* Steps that leave what the skills saw.
LEMMA SeenStays ==
  ASSUME SeenInv, CiteInv, UNCHANGED <<workflow, bundle, skill, seen, used, citations>>,
         pc' \notin {"analyse", "done"} => pc \notin {"analyse", "done"},
         pc' = "analyse" => pc = "analyse",
         pc = "analyse" \/ seen # <<>> => UNCHANGED records
  PROVE  SeenInv' /\ CiteInv'
<1>1. /\ Skills' = Skills /\ \A name : SkillDataBundle(name)' = SkillDataBundle(name)
      /\ \A g, id : LastGiver(g, id)' = LastGiver(g, id)
  BY DEF Skills, SkillDataBundle, LastGiver
<1>2. IsSeq(bundle)' /\ IsSeq(seen)'
  BY DEF SeenInv, IsSeq
<1>3. pc = "analyse" \/ seen # <<>> => BundleHas'
  <2>1. SUFFICES ASSUME pc = "analyse" \/ seen # <<>> PROVE BundleHas'
    OBVIOUS
  <2>2. BundleHas /\ UNCHANGED records
    BY <2>1 DEF SeenInv
  <2>3. (\A d : Of(d)' = Of(d)) /\ \A type : HasType(bundle, type)' = HasType(bundle, type)
    BY <2>2 DEF Of, HasType
  <2>4. QED
    BY <1>1, <2>2, <2>3 DEF BundleHas
<1>4. SeenInv'
  BY <1>1, <1>2, <1>3 DEF SeenInv
<1>5. CiteInv'
  BY <1>1 DEF CiteInv
<1>6. QED
  BY <1>4, <1>5

LEMMA BundleSees ==
  ASSUME CollectInv, RecordsInv, SeenInv, CiteInv, Bundle
  PROVE  SeenInv' /\ CiteInv'
<1>1. /\ pc = "collected" /\ pc' = "analyse"
      /\ UNCHANGED <<records, workflow, skill, seen, used>>
      /\ bundle' = BuildDataBundle(EnrichWithIndicators(records))
  BY DEF Bundle, Goto
<1>2. seen = <<>> /\ used = {} /\ DOMAIN seen = {}
  BY <1>1 DEF SeenInv
<1>3. IsSeq(bundle') /\ (\A r \in ToSet(bundle') : IsEvidence(r)) /\ BundleHas'
  BY <1>1, BundleBuilt DEF CollectInv
<1>4. IsSeq(bundle)' /\ IsSeq(seen)'
  BY <1>1, <1>3 DEF SeenInv, IsSeq
<1>5. Skills' = Skills /\ DOMAIN seen' = {}
  BY <1>1, <1>2 DEF Skills
<1>6. SeenInv'
  BY <1>1, <1>2, <1>3, <1>4, <1>5 DEF SeenInv
<1>7. CiteInv'
  BY <1>1, <1>2, <1>5 DEF CiteInv
<1>8. QED
  BY <1>6, <1>7

LEMMA AnalyseSees ==
  ASSUME SeenInv, CiteInv, Analyse
  PROVE  SeenInv' /\ CiteInv'
<1> DEFINE given == SkillDataBundle(Skills[skill])
           known == Cite(citations, given)
<1>1. /\ pc = "analyse" /\ pc' = pc /\ skill <= Len(Skills) /\ skill' = skill + 1
      /\ UNCHANGED <<workflow, bundle, records>>
      /\ seen' = Append(seen, given) /\ citations' = known
  BY DEF Analyse
<1>2. PICK cited : used' = used \cup (cited \cap Ids(given))
  BY DEF Analyse
<1>3. IsSeq(given)
  BY Given DEF SeenInv
<1>4. /\ DOMAIN known = DOMAIN citations \cup Ids(given)
      /\ \A id \in Ids(given) : known[id] \in ToSet(given)
      /\ \A id \in DOMAIN citations : id \notin Ids(given) => known[id] = citations[id]
  <2> HIDE DEF given
  <2>1. QED
    BY <1>3, LastWithIs DEF Cite
<1>5. Skills' = Skills /\ (\A name : SkillDataBundle(name)' = SkillDataBundle(name))
      /\ (\A d : Of(d)' = Of(d)) /\ \A type : HasType(bundle, type)' = HasType(bundle, type)
  BY <1>1 DEF Skills, SkillDataBundle, Of, HasType
<1> HIDE DEF given, known
<1>6. /\ IsSeq(seen') /\ Len(seen') = skill /\ seen'[skill] = given
      /\ DOMAIN seen = 1..(skill - 1) /\ DOMAIN seen' = 1..skill
      /\ \A i \in 1..(skill - 1) : seen'[i] = seen[i]
      /\ skill \in Nat /\ skill >= 1
  <2>1. IsSeq(seen')
    BY <1>1, JoinedOne DEF SeenInv
  <2>2. Len(Skills) \in Nat
    BY DEF SeenInv, Skills, SkillsOf
  <2>3. skill \in Nat /\ skill >= 1 /\ Len(seen) = skill - 1
    BY <2>2 DEF SeenInv
  <2>4. seen \in Seq(ToSet(seen) \cup {given})
    BY DEF SeenInv, IsSeq
  <2>5. QED
    BY <1>1, <2>1, <2>3, <2>4
<1>7. SeenInv'
  <2>1. Len(Skills) \in Nat
    BY DEF SeenInv, Skills, SkillsOf
  <2>2. skill' \in 1..(Len(Skills) + 1) /\ Len(seen') = skill' - 1
    BY <1>1, <1>6, <2>1
  <2>3. \A i \in 1..skill : seen'[i] = SkillDataBundle(Skills[i])
    <3>1. \A i \in 1..skill : i = skill \/ i \in 1..(skill - 1)
      BY <1>6
    <3>2. QED
      BY <1>6, <3>1 DEF SeenInv, given
  <2>4. BundleHas'
    BY <1>1, <1>5 DEF SeenInv, BundleHas
  <2>5. IsSeq(bundle)' /\ IsSeq(seen)'
    BY <1>1, <1>6 DEF SeenInv, IsSeq
  <2>6. QED
    BY <1>1, <1>5, <1>6, <2>2, <2>3, <2>4, <2>5 DEF SeenInv
<1>8. ASSUME NEW id \in Ids(given)
      PROVE  /\ id \in DOMAIN known
             /\ \E g : LastGiver(g, id)' /\ known[id] \in ToSet(seen'[g])
  <2>1. PICK n : n = skill
    OBVIOUS
  <2>2. n \in DOMAIN seen' /\ (\A k \in DOMAIN seen' : k <= n) /\ seen'[n] = given
    BY <1>6, <2>1
  <2>3. LastGiver(n, id)' <=>
           /\ n \in DOMAIN seen' /\ id \in Ids(seen'[n])
           /\ \A k \in DOMAIN seen' : id \in Ids(seen'[k]) => k <= n
    BY DEF LastGiver, Ids
  <2>4. LastGiver(n, id)'
    BY <2>2, <2>3
  <2>5. QED
    BY <1>4, <2>2, <2>4
<1>9. ASSUME NEW i \in 1..(skill - 1), NEW id \in Ids(seen[i]), id \notin Ids(given)
      PROVE  /\ id \in DOMAIN known
             /\ \E g : LastGiver(g, id)' /\ known[id] \in ToSet(seen'[g])
  <2>1. PICK g : LastGiver(g, id) /\ citations[id] \in ToSet(seen[g])
    BY <1>6 DEF CiteInv
  <2>2. id \in DOMAIN citations
    BY <1>6 DEF CiteInv
  <2>3. LastGiver(g, id)'
    <3>1. \A k \in DOMAIN seen' : k = skill \/ k \in DOMAIN seen
      BY <1>6
    <3>2. g \in DOMAIN seen /\ g \in DOMAIN seen'
      BY <1>6, <2>1 DEF LastGiver
    <3>3. \A k \in DOMAIN seen' : id \in Ids(seen'[k]) => k <= g
      BY <1>6, <1>9, <2>1, <3>1 DEF LastGiver
    <3>4. id \in Ids(seen'[g])
      BY <1>6, <2>1, <3>2 DEF LastGiver
    <3>5. LastGiver(g, id)' <=>
             /\ g \in DOMAIN seen' /\ id \in Ids(seen'[g])
             /\ \A k \in DOMAIN seen' : id \in Ids(seen'[k]) => k <= g
      BY DEF LastGiver, Ids
    <3>6. QED
      BY <3>2, <3>3, <3>4, <3>5
  <2>4. seen'[g] = seen[g]
    BY <1>6, <2>1 DEF LastGiver
  <2>5. QED
    BY <1>4, <1>9, <2>1, <2>2, <2>3, <2>4
<1>10. \A i \in DOMAIN seen' : i = skill \/ i \in 1..(skill - 1)
  BY <1>6
<1>11. CiteInv'
  <2>1. used' \subseteq UNION {Ids(seen'[i]) : i \in DOMAIN seen'}
    <3>1. used \subseteq UNION {Ids(seen[i]) : i \in 1..(skill - 1)}
      BY <1>6 DEF CiteInv
    <3>2. /\ skill \in DOMAIN seen' /\ Ids(seen'[skill]) = Ids(given)
          /\ \A i \in 1..(skill - 1) : i \in DOMAIN seen' /\ Ids(seen'[i]) = Ids(seen[i])
      BY <1>6
    <3>3. QED
      BY <1>2, <3>1, <3>2
  <2>2. \A i \in DOMAIN seen' : \A id \in Ids(seen'[i]) :
          id \in DOMAIN known /\ \E g : LastGiver(g, id)' /\ known[id] \in ToSet(seen'[g])
    <3>1. SUFFICES ASSUME NEW i \in DOMAIN seen', NEW id \in Ids(seen'[i])
                   PROVE  /\ id \in DOMAIN known
                          /\ \E g : LastGiver(g, id)' /\ known[id] \in ToSet(seen'[g])
      OBVIOUS
    <3>2. CASE id \in Ids(given)
      BY <1>8, <3>2
    <3>3. CASE id \notin Ids(given)
      <4>1. i \in 1..(skill - 1) /\ id \in Ids(seen[i])
        BY <1>6, <1>10, <3>3
      <4>2. QED
        BY <1>9, <3>3, <4>1
    <3>4. QED
      BY <3>2, <3>3
  <2>3. CiteInv' <=>
          /\ used' \subseteq UNION {Ids(seen'[i]) : i \in DOMAIN seen'}
          /\ \A i \in DOMAIN seen' : \A id \in Ids(seen'[i]) :
               id \in DOMAIN citations'
               /\ \E g : LastGiver(g, id)' /\ citations'[id] \in ToSet(seen'[g])
    BY DEF CiteInv, Ids, ToSet
  <2>4. QED
    BY <1>1, <2>1, <2>2, <2>3
<1>12. QED
  BY <1>7, <1>11

LEMMA StepSees ==
  ASSUME CollectInv, RecordsInv, SeenInv, CiteInv, [Next]_vars
  PROVE  SeenInv' /\ CiteInv'
<1>1. CASE CollectNext /\ UNCHANGED <<bundle, skill, seen, used, citations>>
  <2>1. UNCHANGED workflow /\ pc \notin {"analyse", "done"} /\ pc' \notin {"analyse", "done"}
    BY <1>1 DEF CollectNext, Reject, Plan, NoProvider, Unavailable, FetchPrices, FetchOverview,
                FetchFundamentals, FetchProfile, EndFetch, Collected, Goto
  <2>2. seen = <<>>
    BY <2>1 DEF SeenInv
  <2>3. QED
    BY <1>1, <2>1, <2>2, SeenStays
<1>2. CASE Finish \/ Fail
  <2>1. /\ pc \in {"analyse", "failed"} /\ pc' = "done"
        /\ UNCHANGED <<workflow, records, bundle, skill, seen, used, citations>>
    BY <1>2 DEF Finish, Fail, Goto
  <2>2. QED
    BY <2>1, SeenStays
<1>3. CASE UNCHANGED <<collectVars, evidenceVars>>
  <2>1. UNCHANGED <<pc, workflow, records, bundle, skill, seen, used, citations>>
    BY <1>3 DEF collectVars, evidenceVars
  <2>2. QED
    BY <2>1, SeenStays
<1>4. CASE Bundle
  BY <1>4, BundleSees
<1>5. CASE Analyse
  BY <1>5, AnalyseSees
<1>6. CASE Collect
  BY <1>1, <1>6 DEF Collect
<1>7. CASE Browser \/ UNCHANGED vars
  BY <1>3, <1>7 DEF Browser, vars
<1>8. QED
  BY <1>2, <1>4, <1>5, <1>6, <1>7 DEF Next

\* What the skills see and what is cited, of every run.
THEOREM SkillsAreServed == Spec => [](RecordsInv /\ SeenInv /\ CiteInv)
<1>1. /\ CollectInv /\ VerdictInv /\ RecordsInv /\ SeenInv /\ CiteInv /\ [Next]_vars
      => (RecordsInv /\ SeenInv /\ CiteInv)'
  BY StepRecords, StepSees
<1>2. QED
  BY <1>1, InitSees, CollectionHolds, PTL DEF Spec

\* Whatever is fetched and whatever fails, no skill misses data of a kind it requires
\* that the run collected (evidence/bundles.py, DATA_REQUIREMENTS.yaml).
THEOREM SkillsGetTheirData == Spec => []SkillsSeeTheirData
<1>1. SeenInv => SkillsSeeTheirData
  <2> SUFFICES ASSUME SeenInv, NEW i \in DOMAIN seen
               PROVE  LET needs == {n.dataset : n \in ToSet(Requirements[Skills[i]])}
                          types == {r.type : r \in ToSet(seen[i])}
                      IN  /\ "ohlcv" \in needs /\ Of("prices") # {}
                               => \/ "price_summary" \in types
                                  \/ {"indicator", "pattern_evidence", "pattern_setup"}
                                       \subseteq types
                          /\ "financial_statement" \in needs /\ Of("fundamentals") # {}
                               => "fundamental" \in types
                          /\ "company_profile" \in needs /\ Of("company_profile") # {}
                               => "company_profile" \in types
    BY DEF SkillsSeeTheirData
  <2> DEFINE types == {r.type : r \in ToSet(seen[i])}
             needs == {n.dataset : n \in ToSet(Requirements[Skills[i]])}
             name == Skills[i]
  <2>1. i \in DOMAIN Skills /\ Skills[i] \in {"auditor", "fundamental", "technical"}
        /\ Skills[i] \in ToSet(Skills)
    <3>1. Len(Skills) \in Nat /\ DOMAIN Skills = 1..Len(Skills)
      BY DEF SeenInv, Skills, SkillsOf
    <3>2. i \in 1..(skill - 1) /\ skill - 1 <= Len(Skills) /\ skill \in Nat
      BY <3>1 DEF SeenInv, IsSeq
    <3>3. i \in DOMAIN Skills
      BY <3>1, <3>2
    <3>4. Skills[i] \in {"auditor", "fundamental", "technical"}
      BY <3>3 DEF SeenInv, Skills, SkillsOf
    <3>5. QED
      BY <3>3, <3>4 DEF ToSet
  <2>2. BundleHas
    <3>1. seen # <<>>
      OBVIOUS
    <3>2. QED
      BY <3>1 DEF SeenInv
  <2>3. \A type \in GivenTypes(name) : HasType(bundle, type) => type \in types
    BY Given DEF SeenInv, HasType
  <2>4. CASE name = "technical"
    <3>1. GivenTypes(name) = Technical
      BY <2>4 DEF GivenTypes
    <3>2. Of("prices") # {} => {"indicator", "pattern_evidence", "pattern_setup"} \subseteq types
      BY <2>1, <2>2, <2>3, <2>4, <3>1 DEF BundleHas, Technical
    <3>3. Of("company_profile") # {} => "company_profile" \in types
      BY <2>2, <2>3, <3>1 DEF BundleHas, Technical
    <3>4. "financial_statement" \notin needs
      <4>1. Requirements[name] = Needs(TRUE, <<"ohlcv", "company_profile">>)
        BY <2>4 DEF Requirements
      <4>2. \A n \in ToSet(Needs(TRUE, <<"ohlcv", "company_profile">>)) :
              n.dataset \in {"ohlcv", "company_profile"}
        BY DEF ToSet, Needs
      <4>3. QED
        BY <4>1, <4>2
    <3>5. QED
      BY <3>2, <3>3, <3>4
  <2>5. CASE name # "technical"
    <3>1. GivenTypes(name) = Fundamental
      BY <2>5 DEF GivenTypes
    <3>2. Of("prices") # {} => "price_summary" \in types
      BY <2>2, <2>3, <3>1 DEF BundleHas, Fundamental
    <3>3. Of("company_profile") # {} => "company_profile" \in types
      BY <2>2, <2>3, <3>1 DEF BundleHas, Fundamental
    <3>4. Of("fundamentals") # {} => "fundamental" \in types
      BY <2>2, <2>3, <3>1 DEF BundleHas, Fundamental
    <3>5. QED
      BY <3>2, <3>3, <3>4
  <2>6. QED
    BY <2>4, <2>5
<1>2. QED
  BY <1>1, SkillsAreServed, PTL

\* A citation that is kept shows what the skill that was cited saw, not the price
\* series nor an older version of the record (evidence/citations.py, service.py).
THEOREM CitationsAreWhatWasSeen == Spec => []CitationsShowWhatWasSeen
<1>1. SeenInv /\ CiteInv => CitationsShowWhatWasSeen
  <2> SUFFICES ASSUME SeenInv, CiteInv, NEW id \in used
               PROVE  LET givers == {i \in DOMAIN seen : id \in Ids(seen[i])}
                      IN  /\ givers # {}
                          /\ citations[id] \in ToSet(seen[Max(givers)])
                          /\ citations[id].type # "price_series"
    BY DEF CitationsShowWhatWasSeen
  <2> DEFINE givers == {i \in DOMAIN seen : id \in Ids(seen[i])}
  <2>1. PICK k \in DOMAIN seen : id \in Ids(seen[k])
    BY DEF CiteInv
  <2>2. PICK g : LastGiver(g, id) /\ citations[id] \in ToSet(seen[g])
    BY <2>1 DEF CiteInv
  <2>3. g \in givers /\ \A i \in givers : i <= g
    BY <2>2 DEF LastGiver
  <2>4. DOMAIN seen = 1..Len(seen) /\ Len(seen) \in Nat
    BY DEF SeenInv, IsSeq
  <2>5. Max(givers) \in givers /\ \A i \in givers : i <= Max(givers)
    BY <2>3, <2>4, MaxIs
  <2>6. Max(givers) = g
    <3>1. PICK m : m = Max(givers)
      OBVIOUS
    <3>2. m \in 1..Len(seen) /\ g \in 1..Len(seen) /\ m <= g /\ g <= m
      <4> HIDE DEF givers
      <4>1. givers \subseteq 1..Len(seen)
        BY <2>4 DEF givers
      <4>2. QED
        BY <2>3, <2>5, <3>1, <4>1
    <3>3. m = g
      BY <2>4, <3>2
    <3>4. QED
      BY <3>1, <3>3
  <2>7. citations[id].type # "price_series"
    <3>1. seen[g] = SkillDataBundle(Skills[g])
      BY <2>2 DEF SeenInv, LastGiver
    <3>2. citations[id].type \in GivenTypes(Skills[g])
      BY <2>2, <3>1, Given DEF SeenInv
    <3>3. QED
      BY <3>2 DEF GivenTypes, Technical, Fundamental
  <2>8. QED
    BY <2>2, <2>3, <2>6, <2>7
<1>2. QED
  BY <1>1, SkillsAreServed, PTL

--------------------------------------------------------------------------------
(* Sums and extremes of a series.                                               *)

\* The function f goes from a by g: each value is g of the one before and its place.
Follows(f, g, a, V, m) ==
  f \in [0..m -> V] /\ f[0] = a /\ \A n \in 1..m : f[n] = g[<<f[n - 1], n>>]

\* A recursion over the numbers up to m has a solution.
LEMMA Recursion ==
  ASSUME NEW m \in Nat, NEW V, NEW a \in V, NEW g \in [V \X (1..m) -> V]
  PROVE  \E f : Follows(f, g, a, V, m)
<1> DEFINE S == {k \in 0..m : \E f : Follows(f, g, a, V, k)}
<1>1. 0 \in S
  <2>1. Follows([n \in 0..0 |-> a], g, a, V, 0)
    BY DEF Follows
  <2>2. \E f : Follows(f, g, a, V, 0)
    BY <2>1
  <2>3. QED
    BY <2>2
<1>2. ASSUME NEW k \in 0..(m - 1), k \in S PROVE k + 1 \in S
  <2>1. PICK f : Follows(f, g, a, V, k)
    BY <1>2
  <2> DEFINE h == [n \in 0..(k + 1) |-> IF n <= k THEN f[n] ELSE g[<<f[k], n>>]]
  <2>2. f[k] \in V /\ <<f[k], k + 1>> \in V \X (1..m)
    BY <2>1 DEF Follows
  <2>3. g[<<f[k], k + 1>>] \in V
    BY <2>2
  <2>4. \A n \in 0..(k + 1) : n \in 0..k \/ n = k + 1
    OBVIOUS
  <2>5. h \in [0..(k + 1) -> V] /\ h[0] = a
    BY <2>1, <2>3, <2>4 DEF Follows
  <2>6. ASSUME NEW n \in 1..(k + 1) PROVE h[n] = g[<<h[n - 1], n>>]
    <3>1. CASE n = k + 1
      <4>1. h[n] = g[<<f[k], n>>] /\ h[n - 1] = f[k]
        BY <3>1
      <4>2. QED
        BY <4>1
    <3>2. CASE n \in 1..k
      <4>1. h[n] = f[n] /\ h[n - 1] = f[n - 1]
        BY <3>2
      <4>2. QED
        BY <2>1, <3>2, <4>1 DEF Follows
    <3>3. QED
      BY <3>1, <3>2
  <2> HIDE DEF h
  <2>7. Follows(h, g, a, V, k + 1)
    BY <2>5, <2>6 DEF Follows
  <2>8. \E e : Follows(e, g, a, V, k + 1)
    BY <2>7
  <2>9. QED
    BY <2>8
<1> HIDE DEF S
<1>3. 0..m \subseteq S
  BY <1>1, <1>2, Induction
<1>4. m \in S
  BY <1>3
<1>5. QED
  BY <1>4 DEF S

\* What the sum of a sequence is after each of its elements.
Sums(f, s) == f = [i \in 0..Len(s) |-> IF i = 0 THEN 0 ELSE f[i - 1] + s[i]]
SumUpTo(s) == CHOOSE f : Sums(f, s)

LEMMA TotalIs ==
  ASSUME NEW s \in Seq(Int)
  PROVE  /\ Total(s) = SumUpTo(s)[Len(s)] /\ Total(s) \in Int
         /\ \A n \in 0..Len(s) : SumUpTo(s)[n] \in Int
         /\ SumUpTo(s)[0] = 0
         /\ \A n \in 1..Len(s) : SumUpTo(s)[n] = SumUpTo(s)[n - 1] + s[n]
<1> DEFINE m == Len(s)
           g == [x \in Int \X (1..m) |-> x[1] + s[x[2]]]
           u == SumUpTo(s)
<1>1. m \in Nat /\ \A n \in 1..m : s[n] \in Int
  OBVIOUS
<1> HIDE DEF m
<1>2. g \in [Int \X (1..m) -> Int]
  BY <1>1
<1>3. \A x \in Int : \A n \in 1..m : g[<<x, n>>] = x + s[n]
  OBVIOUS
<1> HIDE DEF g
<1>4. PICK f : Follows(f, g, 0, Int, m)
  <2>1. 0 \in Int
    OBVIOUS
  <2>2. QED
    BY <1>1, <1>2, <2>1, Recursion
<1>5. /\ f \in [0..m -> Int] /\ f[0] = 0
      /\ \A n \in 1..m : f[n - 1] \in Int /\ f[n] = g[<<f[n - 1], n>>]
  BY <1>1, <1>4 DEF Follows
<1>6. \A n \in 1..m : f[n] = f[n - 1] + s[n]
  BY <1>3, <1>5
<1>7. Sums(f, s)
  BY <1>1, <1>5, <1>6 DEF Sums, m
<1>8. Sums(u, s)
  BY <1>7 DEF SumUpTo
<1> HIDE DEF u
<1>9. u[0] = 0 /\ \A n \in 1..m : u[n] = u[n - 1] + s[n]
  BY <1>1, <1>8 DEF Sums, m
<1>10. \A n \in 0..m : u[n] \in Int
  <2> DEFINE S == {n \in 0..m : u[n] \in Int}
  <2>1. 0 \in S
    BY <1>1, <1>9
  <2>2. ASSUME NEW n \in 0..(m - 1), n \in S PROVE n + 1 \in S
    <3>1. n + 1 \in 1..m /\ (n + 1) - 1 = n /\ u[n] \in Int
      BY <1>1, <2>2
    <3>2. u[n + 1] = u[n] + s[n + 1]
      BY <1>9, <3>1
    <3>3. u[n + 1] \in Int
      BY <1>1, <3>1, <3>2
    <3>4. QED
      BY <3>1, <3>3
  <2> HIDE DEF S
  <2>3. 0..m \subseteq S
    BY <1>1, <2>1, <2>2, Induction
  <2>4. QED
    BY <2>3 DEF S
<1>11. Total(s) = u[m]
  BY DEF Total, SumUpTo, Sums, u, m
<1>12. QED
  BY <1>1, <1>9, <1>10, <1>11 DEF u, m

LEMMA Products ==
  /\ \A a, b \in Int : a * b \in Int
  /\ \A a, b, c \in Int : a * (b + c) = a * b + a * c
OBVIOUS

\* A sum lies where its terms lie: between lo and hi times those of another.
LEMMA TotalBetween ==
  ASSUME NEW s \in Seq(Int), NEW t \in Seq(Int), Len(s) = Len(t), NEW lo \in Int, NEW hi \in Int,
         \A k \in 1..Len(s) : lo * t[k] <= s[k] /\ s[k] <= hi * t[k]
  PROVE  lo * Total(t) <= Total(s) /\ Total(s) <= hi * Total(t)
<1> DEFINE m == Len(s)
           u == SumUpTo(s)
           v == SumUpTo(t)
           S == {n \in 0..m : lo * v[n] <= u[n] /\ u[n] <= hi * v[n]}
<1>1. /\ Total(s) = u[m] /\ Total(t) = v[m] /\ m \in Nat /\ u[0] = 0 /\ v[0] = 0
      /\ \A n \in 0..m : u[n] \in Int /\ v[n] \in Int
      /\ \A n \in 1..m : u[n] = u[n - 1] + s[n] /\ v[n] = v[n - 1] + t[n]
  BY TotalIs
<1>2. \A k \in 1..m : s[k] \in Int /\ t[k] \in Int /\ lo * t[k] <= s[k] /\ s[k] <= hi * t[k]
  OBVIOUS
<1> HIDE DEF u, v, m
<1>3. 0 \in S
  BY <1>1
<1>4. ASSUME NEW n \in 0..(m - 1), n \in S PROVE n + 1 \in S
  <2>1. n + 1 \in 1..m /\ (n + 1) - 1 = n /\ n \in 0..m /\ n + 1 \in 0..m
    BY <1>1
  <2>2. u[n + 1] = u[n] + s[n + 1] /\ v[n + 1] = v[n] + t[n + 1]
    BY <1>1, <2>1
  <2>3. u[n] \in Int /\ v[n] \in Int /\ s[n + 1] \in Int /\ t[n + 1] \in Int
    BY <1>1, <1>2, <2>1
  <2>4. /\ lo * (v[n] + t[n + 1]) = lo * v[n] + lo * t[n + 1]
        /\ hi * (v[n] + t[n + 1]) = hi * v[n] + hi * t[n + 1]
        /\ lo * v[n] \in Int /\ hi * v[n] \in Int
        /\ lo * t[n + 1] \in Int /\ hi * t[n + 1] \in Int
    BY <2>3, Products, Zenon
  <2>5. /\ lo * v[n] <= u[n] /\ u[n] <= hi * v[n]
        /\ lo * t[n + 1] <= s[n + 1] /\ s[n + 1] <= hi * t[n + 1]
    BY <1>2, <1>4, <2>1
  <2>6. /\ lo * v[n + 1] = lo * v[n] + lo * t[n + 1]
        /\ hi * v[n + 1] = hi * v[n] + hi * t[n + 1]
    BY <2>2, <2>4
  <2>7. \A a, b, c, d \in Int : a <= b /\ c <= d => a + c <= b + d
    OBVIOUS
  <2>8. /\ lo * v[n] + lo * t[n + 1] <= u[n] + s[n + 1]
        /\ u[n] + s[n + 1] <= hi * v[n] + hi * t[n + 1]
    BY <2>3, <2>4, <2>5, <2>7
  <2>9. QED
    BY <2>1, <2>2, <2>6, <2>8
<1> HIDE DEF S
<1>5. 0..m \subseteq S
  BY <1>1, <1>3, <1>4, Induction
<1>6. m \in S
  BY <1>1, <1>5
<1>7. QED
  BY <1>1, <1>6 DEF S

\* A sum of equal terms.
LEMMA TotalOfOnes ==
  ASSUME NEW m \in Nat
  PROVE  [k \in 1..m |-> 1] \in Seq(Int) /\ Total([k \in 1..m |-> 1]) = m
<1> DEFINE t == [k \in 1..m |-> 1]
           v == SumUpTo(t)
           S == {n \in 0..m : v[n] = n}
<1>1. t \in Seq(Int) /\ Len(t) = m /\ \A n \in 1..m : t[n] = 1
  OBVIOUS
<1> HIDE DEF t
<1>2. v[0] = 0 /\ Total(t) = v[m] /\ \A n \in 1..m : v[n] = v[n - 1] + 1
  BY <1>1, TotalIs
<1> HIDE DEF v
<1>3. 0 \in S /\ \A n \in 0..(m - 1) : n \in S => n + 1 \in S
  BY <1>2
<1> HIDE DEF S
<1>4. 0..m \subseteq S
  BY <1>3, Induction
<1>5. m \in S
  BY <1>4
<1>6. QED
  BY <1>1, <1>2, <1>5 DEF S, t

\* Numbers by position have a greatest and a least.
LEMMA Greatest ==
  ASSUME NEW m \in Nat \ {0}, NEW f, \A k \in 1..m : f[k] \in Int
  PROVE  \E i \in 1..m : \A k \in 1..m : f[k] <= f[i]
<1> DEFINE S == {n \in 0..(m - 1) : \E i \in 1..(n + 1) : \A k \in 1..(n + 1) : f[k] <= f[i]}
<1>1. 0 \in S
  OBVIOUS
<1>2. ASSUME NEW n \in 0..((m - 1) - 1), n \in S PROVE n + 1 \in S
  <2>1. PICK i \in 1..(n + 1) : \A k \in 1..(n + 1) : f[k] <= f[i]
    BY <1>2
  <2>2. \A k \in 1..((n + 1) + 1) : f[k] \in Int /\ (k \in 1..(n + 1) \/ k = (n + 1) + 1)
    OBVIOUS
  <2>3. CASE f[(n + 1) + 1] <= f[i]
    <3>1. i \in 1..((n + 1) + 1) /\ \A k \in 1..((n + 1) + 1) : f[k] <= f[i]
      BY <2>1, <2>2, <2>3
    <3>2. QED
      BY <3>1
  <2>4. CASE f[i] < f[(n + 1) + 1]
    <3>1. \A k \in 1..((n + 1) + 1) : f[k] <= f[(n + 1) + 1]
      BY <2>1, <2>2, <2>4
    <3>2. QED
      BY <3>1
  <2>5. QED
    BY <2>2, <2>3, <2>4
<1> HIDE DEF S
<1>3. 0..(m - 1) \subseteq S
  BY <1>1, <1>2, Induction
<1>4. m - 1 \in S
  BY <1>3
<1>5. QED
  BY <1>4 DEF S

LEMMA Least ==
  ASSUME NEW m \in Nat \ {0}, NEW f, \A k \in 1..m : f[k] \in Int
  PROVE  \E i \in 1..m : \A k \in 1..m : f[k] >= f[i]
<1> DEFINE g == [k \in 1..m |-> -f[k]]
<1>1. \A k \in 1..m : g[k] = -f[k]
  OBVIOUS
<1> HIDE DEF g
<1>2. \A k \in 1..m : g[k] \in Int
  BY <1>1
<1>3. \E i \in 1..m : \A k \in 1..m : g[k] <= g[i]
  BY <1>2, Greatest
<1>4. QED
  BY <1>1, <1>3

\* The extremes of a sequence that has a value.
LEMMA HighestIs ==
  ASSUME NEW s \in Seq(Int), s # <<>>
  PROVE  /\ Highest(s) \in Int /\ \E i \in 1..Len(s) : Highest(s) = s[i]
         /\ \A k \in 1..Len(s) : s[k] <= Highest(s)
<1>1. Len(s) \in Nat \ {0} /\ DOMAIN s = 1..Len(s) /\ \A k \in 1..Len(s) : s[k] \in Int
  OBVIOUS
<1>2. PICK i \in 1..Len(s) : \A k \in 1..Len(s) : s[k] <= s[i]
  BY <1>1, Greatest
<1>3. s[i] \in ToSet(s) /\ \A y \in ToSet(s) : s[i] >= y
  BY <1>1, <1>2 DEF ToSet
<1>4. Max(ToSet(s)) \in ToSet(s) /\ \A y \in ToSet(s) : Max(ToSet(s)) >= y
  BY <1>3 DEF Max
<1>5. QED
  BY <1>1, <1>4 DEF Highest, ToSet

LEMMA LowestIs ==
  ASSUME NEW s \in Seq(Int), s # <<>>
  PROVE  /\ Lowest(s) \in Int /\ \E i \in 1..Len(s) : Lowest(s) = s[i]
         /\ \A k \in 1..Len(s) : Lowest(s) <= s[k]
<1>1. Len(s) \in Nat \ {0} /\ DOMAIN s = 1..Len(s) /\ \A k \in 1..Len(s) : s[k] \in Int
  OBVIOUS
<1>2. PICK i \in 1..Len(s) : \A k \in 1..Len(s) : s[k] >= s[i]
  BY <1>1, Least
<1>3. s[i] \in ToSet(s) /\ \A y \in ToSet(s) : s[i] <= y
  BY <1>1, <1>2 DEF ToSet
<1>4. Min(ToSet(s)) \in ToSet(s) /\ \A y \in ToSet(s) : Min(ToSet(s)) <= y
  BY <1>3 DEF Min
<1>5. QED
  BY <1>1, <1>4 DEF Lowest, ToSet

\* The last values of a sequence, and the first.
LEMMA LastOfIs ==
  ASSUME NEW S, NEW s \in Seq(S), NEW n \in Nat \ {0}
  PROVE  LET l == IF Len(s) > n THEN n ELSE Len(s) IN
         /\ LastOf(s, n) \in Seq(S) /\ Len(LastOf(s, n)) = l /\ l \in Nat
         /\ \A k \in 1..l : LastOf(s, n)[k] = s[Len(s) - l + k]
<1>1. CASE Len(s) > n
  <2>1. LastOf(s, n) = SubSeq(s, Len(s) - n + 1, Len(s))
    BY <1>1 DEF LastOf
  <2>2. QED
    BY <1>1, <2>1
<1>2. CASE ~(Len(s) > n)
  <2>1. LastOf(s, n) = SubSeq(s, 1, Len(s))
    BY <1>2 DEF LastOf
  <2>2. QED
    BY <1>2, <2>1
<1>3. QED
  BY <1>1, <1>2

LEMMA FirstOfIs ==
  ASSUME NEW S, NEW s \in Seq(S), NEW n \in Nat \ {0}
  PROVE  LET l == IF Len(s) > n THEN n ELSE Len(s) IN
         /\ FirstOf(s, n) \in Seq(S) /\ Len(FirstOf(s, n)) = l /\ l \in Nat
         /\ \A k \in 1..l : FirstOf(s, n)[k] = s[k]
  BY DEF FirstOf

--------------------------------------------------------------------------------
(* The averages of a price series.                                              *)

\* A bar that has a close; what else is not known of it is zero.
GoodBar(b) ==
  /\ b.open \in Nat /\ b.high \in Nat /\ b.low \in Nat
  /\ b.close \in Nat \ {0} /\ b.volume \in Nat
GoodSeries(s) == IsSeq(s) /\ s # <<>> /\ \A i \in 1..Len(s) : GoodBar(s[i])

LEMMA BarValues ==
  ASSUME NEW b, GoodBar(b)
  PROVE  /\ HighOf(b) \in Nat \ {0} /\ LowOf(b) \in Nat \ {0} /\ OpenOf(b) \in Nat \ {0}
         /\ b.close \in Nat \ {0} /\ b.volume \in Nat
  BY DEF GoodBar, HighOf, LowOf, OpenOf, Or

LEMMA SeriesValues ==
  ASSUME NEW s, GoodSeries(s)
  PROVE  /\ Len(s) \in Nat \ {0} /\ DOMAIN s = 1..Len(s)
         /\ \A v \in {Closes(s), Highs(s), Lows(s), Volumes(s)} :
              v \in Seq(Int) /\ Len(v) = Len(s) /\ v # <<>>
         /\ \A i \in 1..Len(s) :
              /\ Closes(s)[i] = s[i].close /\ Closes(s)[i] \in Nat \ {0}
              /\ Highs(s)[i] = HighOf(s[i]) /\ Highs(s)[i] \in Nat \ {0}
              /\ Lows(s)[i] = LowOf(s[i]) /\ Lows(s)[i] \in Nat \ {0}
              /\ Volumes(s)[i] = s[i].volume /\ Volumes(s)[i] \in Nat
<1>1. Len(s) \in Nat \ {0} /\ DOMAIN s = 1..Len(s)
  BY DEF GoodSeries, IsSeq
<1>2. \A i \in 1..Len(s) :
        /\ s[i].close \in Nat \ {0} /\ s[i].volume \in Nat
        /\ HighOf(s[i]) \in Nat \ {0} /\ LowOf(s[i]) \in Nat \ {0}
  BY BarValues DEF GoodSeries
<1>3. ASSUME NEW v, DOMAIN v = 1..Len(s), v = [i \in 1..Len(s) |-> v[i]],
             \A i \in 1..Len(s) : v[i] \in Int
      PROVE  v \in Seq(Int) /\ Len(v) = Len(s) /\ v # <<>>
  <2>1. v \in [1..Len(s) -> Int]
    BY <1>3
  <2>2. v \in Seq(Int) /\ Len(v) = Len(s)
    BY <1>1, <2>1
  <2>3. QED
    BY <1>1, <2>2
<1>4. \A i \in 1..Len(s) : /\ Closes(s)[i] = s[i].close /\ Highs(s)[i] = HighOf(s[i])
                           /\ Lows(s)[i] = LowOf(s[i]) /\ Volumes(s)[i] = s[i].volume
  BY <1>1 DEF Closes, Highs, Lows, Volumes
<1>5. \A v \in {Closes(s), Highs(s), Lows(s), Volumes(s)} :
        DOMAIN v = 1..Len(s) /\ v = [i \in 1..Len(s) |-> v[i]]
  BY <1>1 DEF Closes, Highs, Lows, Volumes
<1>6. ASSUME NEW v \in {Closes(s), Highs(s), Lows(s), Volumes(s)}, NEW i \in 1..Len(s)
      PROVE  v[i] \in Int
  <2>1. v[i] \in {s[i].close, HighOf(s[i]), LowOf(s[i]), s[i].volume}
    BY <1>4
  <2>2. QED
    BY <1>2, <2>1
<1>7. \A v \in {Closes(s), Highs(s), Lows(s), Volumes(s)} :
        v \in Seq(Int) /\ Len(v) = Len(s) /\ v # <<>>
  BY <1>3, <1>5, <1>6
<1>8. QED
  BY <1>1, <1>2, <1>4, <1>7

\* A quotient lies where its terms put it.
LEMMA QuotientIs ==
  ASSUME NEW a \in Int, NEW b \in Nat \ {0}
  PROVE  a \div b \in Int /\ b * (a \div b) <= a /\ a < b * ((a \div b) + 1)
OBVIOUS

LEMMA TimesMonotone ==
  ASSUME NEW a \in Int, NEW b \in Int, NEW c \in Nat, a <= b
  PROVE  a * c <= b * c /\ c * a <= c * b
OBVIOUS

LEMMA QuotientBetween ==
  ASSUME NEW a \in Int, NEW b \in Nat \ {0}, NEW lo \in Int, NEW hi \in Int,
         lo * b <= a, a <= hi * b
  PROVE  a \div b \in Int /\ lo <= a \div b /\ a \div b <= hi
<1> DEFINE q == a \div b
<1>1. q \in Int /\ b * q <= a /\ a < b * (q + 1)
  BY QuotientIs
<1> HIDE DEF q
<1>2. lo <= q
  <2>1. SUFFICES ASSUME q + 1 <= lo PROVE FALSE
    BY <1>1
  <2>2. b * (q + 1) <= b * lo
    BY <1>1, <2>1, TimesMonotone
  <2>3. b * lo = lo * b /\ b * lo \in Int /\ b * (q + 1) \in Int
    BY <1>1
  <2>4. QED
    BY <1>1, <2>2, <2>3
<1>3. q <= hi
  <2>1. SUFFICES ASSUME hi + 1 <= q PROVE FALSE
    BY <1>1
  <2>2. b * (hi + 1) <= b * q
    BY <1>1, <2>1, TimesMonotone
  <2>3. b * (hi + 1) = hi * b + b /\ hi * b \in Int /\ b * q \in Int
    <3>1. b * (hi + 1) = b * hi + b * 1 /\ b * 1 = b /\ b * hi = hi * b
      OBVIOUS
    <3>2. hi * b \in Int /\ b * q \in Int
      BY <1>1, Products
    <3>3. QED
      BY <3>1, <3>2
  <2>4. QED
    BY <1>1, <2>2, <2>3
<1>4. QED
  BY <1>1, <1>2, <1>3 DEF q

\* The simple average lies among what it is of.
LEMMA SmaBetween ==
  ASSUME NEW s \in Seq(Int), NEW p \in Nat \ {0}, p <= Len(s), NEW lo \in Int, NEW hi \in Int,
         \A i \in 1..Len(s) : lo <= s[i] /\ s[i] <= hi
  PROVE  LET sma == (Milli * Total(LastOf(s, p))) \div p
         IN sma \in Int /\ Milli * lo <= sma /\ sma <= Milli * hi
<1> DEFINE w == LastOf(s, p)
           t == [k \in 1..p |-> 1]
<1>1. w \in Seq(Int) /\ Len(w) = p /\ \A k \in 1..p : w[k] = s[Len(s) - p + k]
  <2>1. p = IF Len(s) > p THEN p ELSE Len(s)
    OBVIOUS
  <2>2. QED
    BY <2>1, LastOfIs
<1>2. t \in Seq(Int) /\ Len(t) = p /\ Total(t) = p /\ \A k \in 1..p : t[k] = 1
  BY TotalOfOnes
<1> HIDE DEF w, t
<1>3. \A k \in 1..p : lo <= w[k] /\ w[k] <= hi /\ lo * t[k] = lo /\ hi * t[k] = hi
  <2>1. \A k \in 1..p : Len(s) - p + k \in 1..Len(s)
    OBVIOUS
  <2>2. lo * 1 = lo /\ hi * 1 = hi
    OBVIOUS
  <2>3. \A k \in 1..p : t[k] = 1 /\ lo <= w[k] /\ w[k] <= hi
    BY <1>1, <1>2, <2>1
  <2>4. QED
    BY <2>2, <2>3
<1>4. lo * p <= Total(w) /\ Total(w) <= hi * p
  <2>1. lo * Total(t) <= Total(w) /\ Total(w) <= hi * Total(t)
    BY <1>1, <1>2, <1>3, TotalBetween
  <2>2. QED
    BY <1>2, <2>1
<1>5. Total(w) \in Int
  BY <1>1, TotalIs
<1>6. (1000 * lo) * p <= 1000 * Total(w) /\ 1000 * Total(w) <= (1000 * hi) * p
  <2>1. (1000 * lo) * p = 1000 * (lo * p) /\ (1000 * hi) * p = 1000 * (hi * p)
    OBVIOUS
  <2>2. lo * p \in Int /\ hi * p \in Int
    BY Products
  <2>3. QED
    BY <1>4, <1>5, <2>1, <2>2
<1>7. 1000 * Total(w) \in Int /\ 1000 * lo \in Int /\ 1000 * hi \in Int
  BY <1>5
<1>8. LET sma == (1000 * Total(w)) \div p
      IN  sma \in Int /\ 1000 * lo <= sma /\ sma <= 1000 * hi
  <2>1. PICK a, l, h : a = 1000 * Total(w) /\ l = 1000 * lo /\ h = 1000 * hi
    OBVIOUS
  <2>2. a \in Int /\ l \in Int /\ h \in Int /\ l * p <= a /\ a <= h * p
    BY <1>6, <1>7, <2>1
  <2>3. a \div p \in Int /\ l <= a \div p /\ a \div p <= h
    BY <2>2, QuotientBetween
  <2>4. QED
    BY <2>1, <2>3
<1>9. QED
  BY <1>8 DEF Milli, w

\* So does the average weighted by volumes, which are not negative.
LEMMA VwmaBetween ==
  ASSUME NEW c \in Seq(Int), NEW v \in Seq(Int), Len(c) = Len(v), NEW lo \in Int, NEW hi \in Int,
         \A k \in 1..Len(v) : v[k] >= 0 /\ lo <= c[k] /\ c[k] <= hi,
         Total(v) # 0
  PROVE  LET vwma == (Milli * Total([k \in 1..Len(v) |-> c[k] * v[k]])) \div Total(v)
         IN vwma \in Int /\ Milli * lo <= vwma /\ vwma <= Milli * hi
<1> DEFINE w == [k \in 1..Len(v) |-> c[k] * v[k]]
           n == Len(v)
<1>1. n \in Nat /\ Len(c) = n /\ \A k \in 1..n : c[k] \in Int /\ v[k] \in Int
  OBVIOUS
<1>2. \A k \in 1..n : w[k] = c[k] * v[k] /\ w[k] \in Int
  <2>1. \A k \in 1..n : w[k] = c[k] * v[k]
    OBVIOUS
  <2>2. QED
    BY <1>1, <2>1, Products
<1>3. w \in Seq(Int) /\ Len(w) = n
  BY <1>1, <1>2
<1> HIDE DEF w
<1>4. ASSUME NEW k \in 1..n PROVE lo * v[k] <= w[k] /\ w[k] <= hi * v[k]
  <2>1. c[k] \in Int /\ v[k] \in Nat /\ lo <= c[k] /\ c[k] <= hi
    BY <1>1
  <2>2. lo * v[k] <= c[k] * v[k] /\ c[k] * v[k] <= hi * v[k]
    BY <2>1, TimesMonotone
  <2>3. QED
    BY <1>2, <2>2
<1>5. lo * Total(v) <= Total(w) /\ Total(w) <= hi * Total(v)
  BY <1>3, <1>4, TotalBetween
<1>6. Total(v) \in Nat \ {0} /\ Total(w) \in Int
  <2>1. Total(v) \in Int /\ Total(w) \in Int
    BY <1>3, TotalIs
  <2> DEFINE t == [k \in 1..n |-> 1]
  <2>2. t \in Seq(Int) /\ Len(t) = n /\ Total(t) = n /\ \A k \in 1..n : t[k] = 1
    BY <1>1, TotalOfOnes
  <2> HIDE DEF t
  <2>3. Total(t) >= 0
    BY <1>1, <2>2
  <2>4. PICK most \in Int : \A k \in 1..n : v[k] <= most
    <3>1. CASE n = 0
      BY <3>1
    <3>2. CASE n # 0
      <4>1. \E i \in 1..n : \A k \in 1..n : v[k] <= v[i]
        BY <1>1, <3>2, Greatest
      <4>2. QED
        BY <1>1, <4>1
    <3>3. QED
      BY <3>1, <3>2
  <2>5. \A k \in 1..n : 0 * t[k] <= v[k] /\ v[k] <= most * t[k]
    <3>1. 0 * 1 = 0 /\ most * 1 = most
      OBVIOUS
    <3>2. \A k \in 1..n : t[k] = 1 /\ 0 <= v[k] /\ v[k] <= most
      BY <1>1, <2>2, <2>4
    <3>3. QED
      BY <3>1, <3>2
  <2>6. 0 * Total(t) <= Total(v)
    <3>1. t \in Seq(Int) /\ Len(v) = Len(t) /\ 0 \in Int /\ most \in Int
      BY <1>1, <2>2, <2>4
    <3>2. \A k \in 1..Len(v) : 0 * t[k] <= v[k] /\ v[k] <= most * t[k]
      BY <2>5
    <3>3. QED
      BY <3>1, <3>2, TotalBetween
  <2>7. 0 * Total(t) = 0
    BY <1>1, <2>2
  <2>8. QED
    BY <2>1, <2>6, <2>7
<1>7. /\ (1000 * lo) * Total(v) <= 1000 * Total(w)
      /\ 1000 * Total(w) <= (1000 * hi) * Total(v)
  <2>1. /\ (1000 * lo) * Total(v) = 1000 * (lo * Total(v))
        /\ (1000 * hi) * Total(v) = 1000 * (hi * Total(v))
    BY <1>6
  <2>2. lo * Total(v) \in Int /\ hi * Total(v) \in Int
    BY <1>6, Products
  <2>3. QED
    BY <1>5, <1>6, <2>1, <2>2
<1>8. 1000 * Total(w) \in Int /\ 1000 * lo \in Int /\ 1000 * hi \in Int
  BY <1>6
<1>9. LET vwma == (1000 * Total(w)) \div Total(v)
      IN  vwma \in Int /\ 1000 * lo <= vwma /\ vwma <= 1000 * hi
  <2>1. PICK a, b, l, h : /\ a = 1000 * Total(w) /\ b = Total(v)
                          /\ l = 1000 * lo /\ h = 1000 * hi
    OBVIOUS
  <2>2. /\ a \in Int /\ l \in Int /\ h \in Int /\ b \in Nat \ {0}
        /\ l * b <= a /\ a <= h * b
    BY <1>6, <1>7, <1>8, <2>1
  <2>3. a \div b \in Int /\ l <= a \div b /\ a \div b <= h
    BY <2>2, QuotientBetween
  <2>4. QED
    BY <2>1, <2>3
<1>10. QED
  BY <1>9 DEF Milli, w

\* One more close of the exponential average, and what it is after each close.
EmaStep(c, p, i, x) == (2 * 1000 * c[i] + (p - 1) * x) \div (p + 1)
Averages(f, c, p) ==
  f = [i \in DOMAIN c |-> IF i = 1 THEN 1000 * c[1] ELSE EmaStep(c, p, i, f[i - 1])]
EmaUpTo(c, p) == CHOOSE f : Averages(f, c, p)

LEMMA EmaStepIs ==
  ASSUME NEW c, NEW p \in Nat, NEW i, c[i] \in Int, NEW x \in Int
  PROVE  EmaStep(c, p, i, x) \in Int
<1>1. (p - 1) * x \in Int
  BY Products
<1>2. \A y \in Int : y \div (p + 1) \in Int
  OBVIOUS
<1>3. QED
  BY <1>1, <1>2 DEF EmaStep

LEMMA EmaIs ==
  ASSUME NEW c \in Seq(Int), c # <<>>, NEW p \in Nat
  PROVE  /\ EmaUpTo(c, p)[1] = 1000 * c[1]
         /\ \A i \in 1..Len(c) : EmaUpTo(c, p)[i] \in Int
         /\ \A i \in 2..Len(c) : EmaUpTo(c, p)[i] = EmaStep(c, p, i, EmaUpTo(c, p)[i - 1])
<1> DEFINE m == Len(c) - 1
           g == [x \in Int \X (1..m) |-> EmaStep(c, p, x[2] + 1, x[1])]
           e == EmaUpTo(c, p)
           a == 1000 * c[1]
<1>1. /\ m \in Nat /\ Len(c) = m + 1 /\ DOMAIN c = 1..(m + 1)
      /\ \A i \in 1..(m + 1) : c[i] \in Int
  OBVIOUS
<1>2. a \in Int
  BY <1>1
<1> HIDE DEF m, a
<1>3. ASSUME NEW x \in Int, NEW n \in 1..m
      PROVE  n + 1 \in 1..(m + 1) /\ EmaStep(c, p, n + 1, x) \in Int
  <2>1. n + 1 \in 1..(m + 1) /\ c[n + 1] \in Int
    BY <1>1
  <2>2. QED
    BY <2>1, EmaStepIs
<1>4. g \in [Int \X (1..m) -> Int]
  BY <1>3
<1>5. \A x \in Int : \A n \in 1..m : g[<<x, n>>] = EmaStep(c, p, n + 1, x)
  OBVIOUS
<1> HIDE DEF g
<1>6. PICK f : Follows(f, g, a, Int, m)
  BY <1>1, <1>2, <1>4, Recursion
<1> DEFINE h == [i \in 1..(m + 1) |-> f[i - 1]]
<1>7. /\ f[0] = a /\ \A n \in 0..m : f[n] \in Int
      /\ \A n \in 1..m : f[n] = g[<<f[n - 1], n>>] /\ f[n - 1] \in Int
  <2>1. f \in [0..m -> Int] /\ f[0] = a /\ \A n \in 1..m : f[n] = g[<<f[n - 1], n>>]
    BY <1>6 DEF Follows
  <2>2. \A n \in 1..m : n - 1 \in 0..m
    BY <1>1
  <2>3. \A n \in 0..m : f[n] \in Int
    BY <2>1
  <2>4. QED
    BY <2>1, <2>2, <2>3
<1>8. \A n \in 1..m : f[n] = EmaStep(c, p, n + 1, f[n - 1])
  BY <1>5, <1>7
<1>9. h[1] = a /\ \A i \in 2..(m + 1) : h[i] = EmaStep(c, p, i, h[i - 1])
  <2>1. h[1] = f[0]
    BY <1>1
  <2>2. ASSUME NEW i \in 2..(m + 1) PROVE h[i] = EmaStep(c, p, i, h[i - 1])
    <3>1. i - 1 \in 1..m /\ (i - 1) + 1 = i /\ h[i] = f[i - 1] /\ h[i - 1] = f[(i - 1) - 1]
      BY <1>1
    <3>2. f[i - 1] = EmaStep(c, p, (i - 1) + 1, f[(i - 1) - 1])
      BY <1>8, <3>1
    <3>3. QED
      BY <3>1, <3>2
  <2>3. QED
    BY <1>7, <2>1, <2>2
<1>10. Averages(h, c, p)
  <2>1. h = [i \in 1..(m + 1) |-> h[i]]
    OBVIOUS
  <2> HIDE DEF h
  <2>2. \A i \in 1..(m + 1) : i = 1 \/ i \in 2..(m + 1)
    BY <1>1
  <2>3. h = [i \in 1..(m + 1) |-> IF i = 1 THEN a ELSE EmaStep(c, p, i, h[i - 1])]
    BY <1>9, <2>1, <2>2
  <2>4. QED
    BY <1>1, <2>3 DEF Averages, a
<1>11. Averages(e, c, p)
  BY <1>10 DEF EmaUpTo
<1> HIDE DEF e
<1>12. e = [i \in 1..(m + 1) |-> IF i = 1 THEN a ELSE EmaStep(c, p, i, e[i - 1])]
  BY <1>1, <1>11 DEF Averages, a
<1>13. e[1] = a /\ \A i \in 2..(m + 1) : e[i] = EmaStep(c, p, i, e[i - 1])
  BY <1>1, <1>12
<1>14. \A i \in 1..(m + 1) : e[i] \in Int
  <2> DEFINE S == {n \in 0..m : e[n + 1] \in Int}
  <2>1. 0 \in S
    BY <1>1, <1>2, <1>13
  <2>2. ASSUME NEW n \in 0..(m - 1), n \in S PROVE n + 1 \in S
    <3>1. /\ n + 1 \in 1..m /\ (n + 1) + 1 \in 2..(m + 1) /\ ((n + 1) + 1) - 1 = n + 1
          /\ e[n + 1] \in Int
      BY <1>1, <2>2
    <3>2. e[(n + 1) + 1] = EmaStep(c, p, (n + 1) + 1, e[n + 1])
      BY <1>13, <3>1
    <3>3. e[(n + 1) + 1] \in Int
      BY <1>3, <3>1, <3>2
    <3>4. QED
      BY <3>1, <3>3
  <2> HIDE DEF S
  <2>3. 0..m \subseteq S
    BY <1>1, <2>1, <2>2, Induction
  <2>4. \A i \in 1..(m + 1) : i - 1 \in 0..m /\ (i - 1) + 1 = i
    BY <1>1
  <2>5. QED
    BY <2>3, <2>4 DEF S
<1>15. QED
  BY <1>1, <1>13, <1>14 DEF e, a

\* The exponential averages lie among the closes, but for what each bar rounds down.
LEMMA EmaBetween ==
  ASSUME NEW c \in Seq(Int), c # <<>>, NEW p \in {10, 12, 26}, NEW lo \in Int, NEW hi \in Int,
         \A i \in 1..Len(c) : lo <= c[i] /\ c[i] <= hi
  PROVE  LET ema == EmaUpTo(c, p)[Len(c)]
         IN ema \in Int /\ Milli * lo - Len(c) <= ema /\ ema <= Milli * hi
<1> DEFINE m == Len(c) - 1
           e == EmaUpTo(c, p)
           S == {n \in 0..m : 1000 * lo - (n + 1) <= e[n + 1] /\ e[n + 1] <= 1000 * hi}
<1>1. /\ m \in Nat /\ Len(c) = m + 1
      /\ \A i \in 1..(m + 1) : c[i] \in Int /\ lo <= c[i] /\ c[i] <= hi
  OBVIOUS
<1>2. /\ e[1] = 1000 * c[1] /\ \A i \in 1..(m + 1) : e[i] \in Int
      /\ \A i \in 2..(m + 1) : e[i] = EmaStep(c, p, i, e[i - 1])
  <2>1. p \in Nat
    OBVIOUS
  <2>2. QED
    BY <1>1, <2>1, EmaIs
<1> HIDE DEF m, e
<1>3. 0 \in S
  BY <1>1, <1>2
<1>4. ASSUME NEW n \in 0..(m - 1), n \in S PROVE n + 1 \in S
  <2>1. /\ n + 1 \in 1..m /\ n + 1 \in 1..(m + 1) /\ (n + 1) + 1 \in 2..(m + 1)
        /\ (n + 1) + 1 \in 1..(m + 1) /\ ((n + 1) + 1) - 1 = n + 1
    BY <1>1
  <2>2. PICK old, new, close :
          /\ old = e[n + 1] /\ new = e[(n + 1) + 1] /\ close = c[(n + 1) + 1]
    OBVIOUS
  <2>3. /\ old \in Int /\ close \in Int /\ lo <= close /\ close <= hi
        /\ new = (2 * 1000 * close + (p - 1) * old) \div (p + 1)
    <3>1. /\ old \in Int /\ close \in Int /\ lo <= close /\ close <= hi
          /\ new = EmaStep(c, p, (n + 1) + 1, old)
      BY <1>1, <1>2, <2>1, <2>2
    <3>2. QED
      BY <2>2, <3>1 DEF EmaStep
  <2>4. 1000 * lo - (n + 1) <= old /\ old <= 1000 * hi
    BY <1>4, <2>2
  <2>5. 1000 * lo - ((n + 1) + 1) <= new /\ new <= 1000 * hi
    <3>1. CASE p = 10
      BY <2>3, <2>4, <3>1
    <3>2. CASE p = 12
      BY <2>3, <2>4, <3>2
    <3>3. CASE p = 26
      BY <2>3, <2>4, <3>3
    <3>4. QED
      BY <3>1, <3>2, <3>3
  <2>6. QED
    BY <2>1, <2>2, <2>5
<1> HIDE DEF S
<1>5. 0..m \subseteq S
  BY <1>1, <1>3, <1>4, Induction
<1>6. m \in S
  BY <1>1, <1>5
<1>7. QED
  BY <1>1, <1>2, <1>6 DEF S, Milli, e

--------------------------------------------------------------------------------
(* The indicators of a price series.                                            *)

\* The last n of at least as many.
LEMMA LastFull ==
  ASSUME NEW s \in Seq(Int), NEW n \in Nat \ {0}, n <= Len(s)
  PROVE  /\ LastOf(s, n) \in Seq(Int) /\ Len(LastOf(s, n)) = n
         /\ \A k \in 1..n : LastOf(s, n)[k] = s[Len(s) - n + k]
<1>1. n = IF Len(s) > n THEN n ELSE Len(s)
  OBVIOUS
<1>2. QED
  BY <1>1, LastOfIs

\* The lowest and the highest close bound every close.
LEMMA ClosesBetween ==
  ASSUME NEW s, GoodSeries(s)
  PROVE  /\ Closes(s) \in Seq(Int) /\ Closes(s) # <<>> /\ Len(Closes(s)) = Len(s)
         /\ Lowest(Closes(s)) \in Int /\ Highest(Closes(s)) \in Int
         /\ \A i \in 1..Len(Closes(s)) :
              /\ Lowest(Closes(s)) <= Closes(s)[i] /\ Closes(s)[i] <= Highest(Closes(s))
              /\ Closes(s)[i] \in Nat \ {0}
<1>1. Closes(s) \in Seq(Int) /\ Closes(s) # <<>> /\ Len(Closes(s)) = Len(s)
  BY SeriesValues
<1>2. QED
  BY <1>1, SeriesValues, LowestIs, HighestIs

LEMMA ComputedSma ==
  ASSUME NEW v \in Seq(Int), NEW p \in Nat
  PROVE  Computed!Sma(v, p) = IF Len(v) < p THEN Null ELSE (Milli * Total(LastOf(v, p))) \div p
  BY DEF Computed!Sma, Computed!Milli, Computed!Total, Computed!LastOf, Milli, Total, LastOf

LEMMA ComputedEma ==
  ASSUME NEW c, NEW p
  PROVE  Computed!Ema(c, p) = EmaUpTo(c, p)[Len(c)]
  BY DEF Computed!Ema, Computed!Milli, EmaUpTo, Averages, EmaStep

LEMMA ComputedVwma ==
  ASSUME NEW c \in Seq(Int), NEW v \in Seq(Int), NEW p \in Nat
  PROVE  LET d == LastOf(c, p)
             w == LastOf(v, p)
         IN Computed!Vwma(c, v, p) =
              IF Len(c) < p \/ Total(w) = 0 THEN Null
              ELSE (Milli * Total([k \in 1..p |-> d[k] * w[k]])) \div Total(w)
  BY DEF Computed!Vwma, Computed!Milli, Computed!Total, Computed!LastOf, Milli, Total, LastOf

\* What the record of the indicators says of the averages.
LEMMA ComputedAverages ==
  ASSUME NEW s
  PROVE  LET p == Computed!ComputeIndicators(s) IN
         /\ p.sma20 = Computed!Sma(Closes(s), 20) /\ p.sma50 = Computed!Sma(Closes(s), 50)
         /\ p.ema10 = Computed!Ema(Closes(s), 10) /\ p.ema12 = Computed!Ema(Closes(s), 12)
         /\ p.ema26 = Computed!Ema(Closes(s), 26)
         /\ p.vwma20 = Computed!Vwma(Closes(s), Volumes(s), 20)
         /\ p.rsi14 = Computed!Rsi(Closes(s), 14)
         /\ p.max_drawdown = Computed!MaxDrawdown(Closes(s)).worst
         /\ p.current_drawdown = Computed!MaxDrawdown(Closes(s)).current
<1>1. Computed!Closes(s) = Closes(s) /\ Computed!Volumes(s) = Volumes(s)
  BY DEF Computed!Closes, Closes, Computed!Volumes, Volumes
<1>2. QED
  BY <1>1 DEF Computed!ComputeIndicators

\* The reported averages lie among the closes.
LEMMA AveragesLie ==
  ASSUME NEW s, GoodSeries(s), NEW p, p = Computed!ComputeIndicators(s),
         NEW a \in {p.sma20, p.sma50, p.ema10, p.ema12, p.ema26, p.vwma20} \ {Null}
  PROVE  /\ a >= Milli * Lowest(Closes(s)) - Len(Closes(s))
         /\ a <= Milli * Highest(Closes(s))
<1> DEFINE c == Closes(s)
           v == Volumes(s)
           n == Len(c)
           lo == Lowest(c)
           hi == Highest(c)
<1>1. /\ c \in Seq(Int) /\ c # <<>> /\ n \in Nat /\ lo \in Int /\ hi \in Int
      /\ \A i \in 1..n : lo <= c[i] /\ c[i] <= hi
  BY ClosesBetween
<1>2. /\ v \in Seq(Int) /\ Len(v) = n /\ \A i \in 1..n : v[i] \in Nat
  BY SeriesValues
<1>3. \/ \E q \in {20, 50} : a = Computed!Sma(c, q)
      \/ \E q \in {10, 12, 26} : a = Computed!Ema(c, q)
      \/ a = Computed!Vwma(c, v, 20)
  BY ComputedAverages
<1>4. a # Null
  OBVIOUS
<1> HIDE DEF c, v, lo, hi, n
<1>5. Milli * lo \in Int /\ Milli * hi \in Int /\ Milli * lo - n <= Milli * lo
  BY <1>1 DEF Milli
<1>6. ASSUME a \in Int, Milli * lo <= a, a <= Milli * hi
      PROVE  a >= Milli * lo - n /\ a <= Milli * hi
  BY <1>1, <1>5, <1>6
<1>7. ASSUME NEW q \in {20, 50}, a = Computed!Sma(c, q)
      PROVE  a >= Milli * lo - n /\ a <= Milli * hi
  <2>1. q \in Nat \ {0}
    OBVIOUS
  <2>2. q <= n /\ a = (Milli * Total(LastOf(c, q))) \div q
    BY <1>1, <1>4, <1>7, <2>1, ComputedSma DEF n
  <2>3. a \in Int /\ Milli * lo <= a /\ a <= Milli * hi
    BY <1>1, <2>1, <2>2, SmaBetween DEF n
  <2>4. QED
    BY <1>6, <2>3
<1>8. ASSUME NEW q \in {10, 12, 26}, a = Computed!Ema(c, q)
      PROVE  a >= Milli * lo - n /\ a <= Milli * hi
  <2>1. a = EmaUpTo(c, q)[n]
    BY <1>8, ComputedEma DEF n
  <2>2. a \in Int /\ Milli * lo - n <= a /\ a <= Milli * hi
    BY <1>1, <2>1, EmaBetween DEF n
  <2>3. QED
    BY <1>5, <1>1, <2>2
<1>9. ASSUME a = Computed!Vwma(c, v, 20)
      PROVE  a >= Milli * lo - n /\ a <= Milli * hi
  <2> DEFINE d == LastOf(c, 20)
             w == LastOf(v, 20)
  <2>1. /\ n >= 20 /\ Total(w) # 0
        /\ a = (Milli * Total([k \in 1..20 |-> d[k] * w[k]])) \div Total(w)
    <3>1. 20 \in Nat /\ Len(c) = n
      BY DEF n
    <3>2. ~(Len(c) < 20 \/ Total(w) = 0)
      BY <1>1, <1>2, <1>4, <1>9, <3>1, ComputedVwma
    <3>3. Computed!Vwma(c, v, 20) =
            IF Len(c) < 20 \/ Total(w) = 0 THEN Null
            ELSE (Milli * Total([k \in 1..20 |-> d[k] * w[k]])) \div Total(w)
      BY <1>1, <1>2, <3>1, ComputedVwma
    <3> HIDE DEF d, w
    <3>4. n >= 20
      BY <1>1, <3>1, <3>2
    <3>5. QED
      BY <1>9, <3>2, <3>3, <3>4
  <2>2. /\ d \in Seq(Int) /\ Len(d) = 20 /\ \A k \in 1..20 : d[k] = c[n - 20 + k]
        /\ w \in Seq(Int) /\ Len(w) = 20 /\ \A k \in 1..20 : w[k] = v[n - 20 + k]
    <3>1. 20 \in Nat \ {0} /\ Len(c) = n
      BY DEF n
    <3>2. 20 <= Len(c) /\ 20 <= Len(v)
      BY <1>1, <1>2, <2>1, <3>1
    <3>3. d \in Seq(Int) /\ Len(d) = 20 /\ \A k \in 1..20 : d[k] = c[n - 20 + k]
      BY <1>1, <3>1, <3>2, LastFull
    <3>4. w \in Seq(Int) /\ Len(w) = 20 /\ \A k \in 1..20 : w[k] = v[n - 20 + k]
      <4>1. Len(v) = n /\ v \in Seq(Int)
        BY <1>2
      <4>2. /\ w \in Seq(Int) /\ Len(w) = 20
            /\ \A k \in 1..20 : w[k] = v[Len(v) - 20 + k]
        BY <3>1, <3>2, <4>1, LastFull
      <4>3. QED
        BY <4>1, <4>2
    <3>5. QED
      BY <3>3, <3>4
  <2> HIDE DEF d, w
  <2>3. \A k \in 1..20 : w[k] >= 0 /\ lo <= d[k] /\ d[k] <= hi
    <3>1. SUFFICES ASSUME NEW k \in 1..20 PROVE w[k] >= 0 /\ lo <= d[k] /\ d[k] <= hi
      OBVIOUS
    <3>2. PICK i \in 1..n : i = n - 20 + k
      BY <1>1, <2>1
    <3>3. d[k] = c[i] /\ w[k] = v[i]
      BY <2>2, <3>2
    <3>4. v[i] \in Nat /\ lo <= c[i] /\ c[i] <= hi
      BY <1>1, <1>2
    <3>5. QED
      BY <3>3, <3>4
  <2>4. a \in Int /\ Milli * lo <= a /\ a <= Milli * hi
    <3>1. Len(d) = Len(w) /\ a = (Milli * Total([k \in 1..Len(w) |-> d[k] * w[k]])) \div Total(w)
      BY <2>1, <2>2
    <3>2. \A k \in 1..Len(w) : w[k] >= 0 /\ lo <= d[k] /\ d[k] <= hi
      BY <2>2, <2>3
    <3>3. LET vwma == (Milli * Total([k \in 1..Len(w) |-> d[k] * w[k]])) \div Total(w)
          IN vwma \in Int /\ Milli * lo <= vwma /\ vwma <= Milli * hi
      BY <1>1, <2>1, <2>2, <3>1, <3>2, VwmaBetween
    <3>4. QED
      BY <3>1, <3>3
  <2>5. QED
    BY <1>6, <2>4
<1>10. QED
  BY <1>3, <1>7, <1>8, <1>9 DEF c, n, lo, hi, v

--------------------------------------------------------------------------------
(* The drawdown.                                                                *)

LEMMA MaxOfTwo ==
  ASSUME NEW a \in Int, NEW b \in Int
  PROVE  Max({a, b}) \in {a, b} /\ a <= Max({a, b}) /\ b <= Max({a, b})
<1>1. \E x \in {a, b} : \A y \in {a, b} : x >= y
  OBVIOUS
<1>2. Max({a, b}) \in {a, b} /\ \A y \in {a, b} : Max({a, b}) >= y
  BY <1>1 DEF Max
<1>3. QED
  BY <1>2

LEMMA MinOfTwo ==
  ASSUME NEW a \in Int, NEW b \in Int
  PROVE  Min({a, b}) \in {a, b} /\ a >= Min({a, b}) /\ b >= Min({a, b})
<1>1. \E x \in {a, b} : \A y \in {a, b} : x <= y
  OBVIOUS
<1>2. Min({a, b}) \in {a, b} /\ \A y \in {a, b} : Min({a, b}) <= y
  BY <1>1 DEF Min
<1>3. QED
  BY <1>2

\* A fall below a peak: of the peak itself none, and the deeper the higher the peak.
LEMMA DropIs ==
  ASSUME NEW p \in Nat \ {0}, NEW x \in Int
  PROVE  Computed!Drop(p, x) \in Int /\ Computed!Drop(p, p) = 0
<1>1. \A y \in Int : (100 * 1000 * y) \div p \in Int
  OBVIOUS
<1>2. p - x \in Int /\ p - p = 0 /\ 100 * 1000 * 0 = 0 /\ 0 \div p = 0
  OBVIOUS
<1>3. Computed!Drop(p, x) = (100 * 1000 * (p - x)) \div p
  BY DEF Computed!Drop, Computed!Milli
<1>4. Computed!Drop(p, p) = (100 * 1000 * (p - p)) \div p
  BY DEF Computed!Drop, Computed!Milli
<1>5. QED
  BY <1>1, <1>2, <1>3, <1>4

LEMMA DropMonotone ==
  ASSUME NEW p \in Nat \ {0}, NEW q \in Nat \ {0}, NEW x \in Nat, p <= q
  PROVE  Computed!Drop(p, x) <= Computed!Drop(q, x)
<1> DEFINE a == 100000 * (p - x)
           b == 100000 * (q - x)
           d == a \div p
           e == b \div q
           w == 100000 - d
<1>1. Computed!Drop(p, x) = d /\ Computed!Drop(q, x) = e
  BY DEF Computed!Drop, Computed!Milli
<1>2. a \in Int /\ b \in Int /\ a = 100000 * p - 100000 * x /\ b = 100000 * q - 100000 * x
  OBVIOUS
<1> HIDE DEF a, b
<1>3. d \in Int /\ p * d <= a
  BY <1>2, QuotientIs
<1>4. e \in Int /\ b < q * (e + 1)
  BY <1>2, QuotientIs
<1> HIDE DEF d, e
<1>5. w \in Int /\ p * w = 100000 * p - p * d /\ q * w = 100000 * q - q * d
  BY <1>3
<1>6. p * d \in Int /\ q * d \in Int /\ p * w \in Int /\ q * w \in Int
  BY <1>3, <1>5, Products
<1>7. 100000 * x <= p * w
  BY <1>2, <1>3, <1>5, <1>6
<1>8. w \in Nat
  <2>1. SUFFICES ASSUME w <= -1 PROVE FALSE
    BY <1>5
  <2>2. w * p <= (-1) * p
    BY <1>5, <2>1, TimesMonotone
  <2>3. w * p = p * w /\ (-1) * p = -p
    BY <1>5
  <2>4. QED
    BY <1>6, <1>7, <2>2, <2>3
<1>9. p * w <= q * w
  BY <1>8, TimesMonotone
<1>10. q * d <= b
  BY <1>2, <1>5, <1>6, <1>7, <1>9
<1>11. d <= e
  <2>1. SUFFICES ASSUME e + 1 <= d PROVE FALSE
    BY <1>3, <1>4
  <2>2. q * (e + 1) <= q * d
    BY <1>3, <1>4, <2>1, TimesMonotone
  <2>3. q * (e + 1) \in Int
    BY <1>4, Products
  <2>4. QED
    BY <1>2, <1>4, <1>6, <1>10, <2>2, <2>3
<1>12. QED
  BY <1>1, <1>11

\* The walk over the closes: the peak so far and the worst fall so far.
WalkFrom(x, close) ==
  [peak |-> Max({x.peak, close}),
   worst |-> Max({x.worst, Computed!Drop(Max({x.peak, close}), close)})]
Walks(f, c) ==
  f = [i \in 0..Len(c) |-> IF i = 0 THEN [peak |-> Head(c), worst |-> 0]
                           ELSE WalkFrom(f[i - 1], c[i])]
WalkUpTo(c) == CHOOSE f : Walks(f, c)

LEMMA ComputedDrawdown ==
  ASSUME NEW c \in Seq(Int)
  PROVE  /\ Computed!MaxDrawdown(c).worst = WalkUpTo(c)[Len(c)].worst
         /\ Computed!MaxDrawdown(c).current = Computed!Drop(Highest(c), c[Len(c)])
<1>1. \A S : Computed!Max(S) = Max(S)
  BY DEF Computed!Max, Max
<1>2. Computed!Highest(c) = Highest(c) /\ Computed!Last(c) = c[Len(c)]
  BY <1>1 DEF Computed!Highest, Highest, Computed!ToSet, ToSet, Computed!Last
<1>3. Computed!MaxDrawdown(c).current = Computed!Drop(Highest(c), c[Len(c)])
  BY <1>2 DEF Computed!MaxDrawdown
<1>4. Computed!MaxDrawdown(c).worst = WalkUpTo(c)[Len(c)].worst
  BY DEF Computed!MaxDrawdown, WalkUpTo, Walks, WalkFrom, Computed!Max, Max
<1>5. QED
  BY <1>3, <1>4

WalkSet == [peak : Nat \ {0}, worst : Int]

LEMMA WalkFromIs ==
  ASSUME NEW x \in WalkSet, NEW close \in Nat \ {0}
  PROVE  /\ WalkFrom(x, close) \in WalkSet
         /\ WalkFrom(x, close).peak = Max({x.peak, close})
         /\ WalkFrom(x, close).worst =
              Max({x.worst, Computed!Drop(WalkFrom(x, close).peak, close)})
<1> DEFINE p == Max({x.peak, close})
           w == Max({x.worst, Computed!Drop(p, close)})
<1>1. x.peak \in Nat \ {0} /\ x.worst \in Int
  BY DEF WalkSet
<1>2. p \in Nat \ {0}
  <2>1. PICK y : y = x.peak
    OBVIOUS
  <2>2. y \in Int /\ close \in Int /\ y \in Nat \ {0}
    BY <1>1, <2>1
  <2>3. Max({y, close}) \in {y, close}
    BY <2>2, MaxOfTwo
  <2>4. QED
    BY <2>1, <2>2, <2>3
<1> HIDE DEF p
<1>3. Computed!Drop(p, close) \in Int
  BY <1>2, DropIs
<1>4. w \in Int
  BY <1>1, <1>3, MaxOfTwo
<1> HIDE DEF w
<1>5. WalkFrom(x, close) = [peak |-> p, worst |-> w]
  BY DEF WalkFrom, p, w
<1>6. QED
  BY <1>2, <1>4, <1>5 DEF WalkSet, p, w

LEMMA WalkIs ==
  ASSUME NEW c \in Seq(Int), c # <<>>, \A i \in 1..Len(c) : c[i] \in Nat \ {0}
  PROVE  /\ WalkUpTo(c)[0] = [peak |-> c[1], worst |-> 0]
         /\ \A i \in 0..Len(c) : WalkUpTo(c)[i] \in WalkSet
         /\ \A i \in 1..Len(c) : WalkUpTo(c)[i] = WalkFrom(WalkUpTo(c)[i - 1], c[i])
<1> DEFINE m == Len(c)
           g == [x \in WalkSet \X (1..m) |-> WalkFrom(x[1], c[x[2]])]
           e == WalkUpTo(c)
           a == [peak |-> c[1], worst |-> 0]
<1>1. m \in Nat \ {0} /\ Head(c) = c[1] /\ \A i \in 1..m : c[i] \in Nat \ {0}
  OBVIOUS
<1>2. a \in WalkSet
  BY <1>1 DEF WalkSet
<1> HIDE DEF m, a
<1>3. ASSUME NEW x \in WalkSet, NEW n \in 1..m PROVE WalkFrom(x, c[n]) \in WalkSet
  <2>1. c[n] \in Nat \ {0}
    BY <1>1
  <2>2. QED
    BY <2>1, WalkFromIs
<1>4. g \in [WalkSet \X (1..m) -> WalkSet]
  BY <1>3
<1>5. \A x \in WalkSet : \A n \in 1..m : g[<<x, n>>] = WalkFrom(x, c[n])
  OBVIOUS
<1> HIDE DEF g
<1>6. PICK f : Follows(f, g, a, WalkSet, m)
  BY <1>1, <1>2, <1>4, Recursion
<1>7. f \in [0..m -> WalkSet] /\ f[0] = a /\ \A n \in 1..m : f[n] = g[<<f[n - 1], n>>]
  BY <1>6 DEF Follows
<1>8. \A n \in 1..m : n - 1 \in 0..m /\ f[n - 1] \in WalkSet
  BY <1>1, <1>7
<1>9. \A n \in 1..m : f[n] = WalkFrom(f[n - 1], c[n])
  BY <1>5, <1>7, <1>8
<1>10. Walks(f, c)
  <2>1. f = [i \in 0..m |-> f[i]]
    BY <1>7
  <2>2. \A i \in 0..m : i = 0 \/ i \in 1..m
    BY <1>1
  <2>3. f = [i \in 0..m |-> IF i = 0 THEN a ELSE WalkFrom(f[i - 1], c[i])]
    BY <1>7, <1>9, <2>1, <2>2
  <2>4. QED
    BY <1>1, <2>3 DEF Walks, a, m
<1>11. Walks(e, c)
  BY <1>10 DEF WalkUpTo
<1> HIDE DEF e
<1>12. e = [i \in 0..m |-> IF i = 0 THEN a ELSE WalkFrom(e[i - 1], c[i])]
  BY <1>1, <1>11 DEF Walks, a, m
<1>13. e[0] = a /\ \A i \in 1..m : e[i] = WalkFrom(e[i - 1], c[i])
  BY <1>1, <1>12
<1>14. \A i \in 0..m : e[i] \in WalkSet
  <2> DEFINE S == {n \in 0..m : e[n] \in WalkSet}
  <2>1. 0 \in S
    BY <1>1, <1>2, <1>13
  <2>2. ASSUME NEW n \in 0..(m - 1), n \in S PROVE n + 1 \in S
    <3>1. n + 1 \in 1..m /\ (n + 1) - 1 = n /\ e[n] \in WalkSet
      BY <1>1, <2>2
    <3>2. e[n + 1] = WalkFrom(e[n], c[n + 1])
      BY <1>13, <3>1
    <3>3. e[n + 1] \in WalkSet
      BY <1>3, <3>1, <3>2
    <3>4. QED
      BY <3>1, <3>3
  <2> HIDE DEF S
  <2>3. 0..m \subseteq S
    BY <1>1, <2>1, <2>2, Induction
  <2>4. QED
    BY <2>3 DEF S
<1>15. QED
  BY <1>13, <1>14 DEF e, a, m

\* The fall from one close to another.
Fall(c, j, k) == Computed!Drop(c[j], c[k])

\* The worst drawdown is the deepest fall from a close to a later one.
LEMMA DrawdownIs ==
  ASSUME NEW c \in Seq(Int), c # <<>>, \A i \in 1..Len(c) : c[i] \in Nat \ {0},
         NEW worst, NEW current,
         worst = Computed!MaxDrawdown(c).worst, current = Computed!MaxDrawdown(c).current
  PROVE  /\ \E j, k \in 1..Len(c) : j <= k /\ worst = Fall(c, j, k)
         /\ \A j, k \in 1..Len(c) : j <= k => Fall(c, j, k) <= worst
         /\ current <= worst
<1> DEFINE m == Len(c)
           e == WalkUpTo(c)
           Peaks(n) == /\ \A j \in 1..n : c[j] <= e[n].peak
                       /\ \E j \in 1..m : j <= n + 1 /\ e[n].peak = c[j]
                                          /\ (n > 0 => j <= n)
           Worst(n) == /\ \A j, k \in 1..n : j <= k => Fall(c, j, k) <= e[n].worst
                       /\ \E j, k \in 1..m : j <= k /\ e[n].worst = Fall(c, j, k)
           S == {n \in 0..m : Peaks(n) /\ Worst(n)}
<1>1. m \in Nat \ {0} /\ \A i \in 1..m : c[i] \in Nat \ {0}
  OBVIOUS
<1>2. /\ e[0] = [peak |-> c[1], worst |-> 0] /\ \A i \in 0..m : e[i] \in WalkSet
      /\ \A i \in 1..m : e[i] = WalkFrom(e[i - 1], c[i])
  BY WalkIs
<1>3. worst = e[m].worst /\ current = Computed!Drop(Highest(c), c[m])
  BY ComputedDrawdown
<1>4. ASSUME NEW j \in 1..m, NEW k \in 1..m PROVE Fall(c, j, k) \in Int
  <2>1. c[j] \in Nat \ {0} /\ c[k] \in Int
    BY <1>1
  <2>2. Computed!Drop(c[j], c[k]) \in Int
    BY <2>1, DropIs
  <2>3. QED
    BY <2>2 DEF Fall
<1> HIDE DEF m, e
<1>5. 0 \in S
  <2>1. 1 \in 1..m /\ e[0].peak = c[1] /\ e[0].worst = 0
    BY <1>1, <1>2
  <2>2. Fall(c, 1, 1) = 0
    <3>1. c[1] \in Nat \ {0} /\ c[1] \in Int
      BY <1>1, <2>1
    <3>2. Computed!Drop(c[1], c[1]) = 0
      BY <3>1, DropIs
    <3>3. QED
      BY <3>2 DEF Fall
  <2>3. 1..0 = {} /\ 1 <= 0 + 1
    OBVIOUS
  <2>4. QED
    BY <1>1, <2>1, <2>2, <2>3
<1>6. ASSUME NEW n \in 0..(m - 1), n \in S PROVE n + 1 \in S
  <2>1. /\ n \in Nat /\ n + 1 \in 1..m /\ (n + 1) - 1 = n /\ n \in 0..m /\ n + 1 \in 0..m
        /\ \A j \in 1..(n + 1) : j \in 1..n \/ j = n + 1
        /\ \A j \in 1..n : j \in 1..m
    BY <1>1
  <2>2. PICK p, q, v, w, x : /\ p = e[n].peak /\ q = e[n + 1].peak
                             /\ v = e[n].worst /\ w = e[n + 1].worst /\ x = c[n + 1]
    OBVIOUS
  <2>3. e[n] \in WalkSet /\ e[n + 1] = WalkFrom(e[n], x) /\ x \in Nat \ {0}
    BY <1>1, <1>2, <2>1, <2>2
  <2>4. p \in Nat \ {0} /\ v \in Int
    BY <2>2, <2>3 DEF WalkSet
  <2>5. q = Max({p, x}) /\ w = Max({v, Computed!Drop(q, x)})
    <3>1. /\ WalkFrom(e[n], x).peak = Max({e[n].peak, x})
          /\ WalkFrom(e[n], x).worst =
               Max({e[n].worst, Computed!Drop(WalkFrom(e[n], x).peak, x)})
      BY <2>3, WalkFromIs
    <3>2. QED
      BY <2>2, <2>3, <3>1
  <2>6. q \in {p, x} /\ p <= q /\ x <= q /\ q \in Nat \ {0}
    <3>1. p \in Int /\ x \in Int
      BY <2>3, <2>4
    <3>2. Max({p, x}) \in {p, x} /\ p <= Max({p, x}) /\ x <= Max({p, x})
      BY <3>1, MaxOfTwo
    <3>3. QED
      BY <2>3, <2>4, <2>5, <3>2
  <2>7. Computed!Drop(q, x) \in Int
    BY <2>3, <2>6, DropIs
  <2>8. w \in {v, Computed!Drop(q, x)} /\ v <= w /\ Computed!Drop(q, x) <= w /\ w \in Int
    BY <2>4, <2>5, <2>7, MaxOfTwo
  <2>9. /\ \A j \in 1..n : c[j] <= p
        /\ \A j, k \in 1..n : j <= k => Fall(c, j, k) <= v
    BY <1>6, <2>2
  <2>10. PICK i \in 1..m : i <= n + 1 /\ q = c[i]
    <3>1. PICK j \in 1..m : j <= n + 1 /\ p = c[j]
      BY <1>6, <2>2
    <3>2. QED
      BY <2>1, <2>2, <2>6, <3>1
  <2>11. Peaks(n + 1)
    <3>1. ASSUME NEW j \in 1..(n + 1) PROVE c[j] <= q
      <4>1. CASE j \in 1..n
        BY <1>1, <2>1, <2>4, <2>6, <2>9, <4>1
      <4>2. CASE j = n + 1
        BY <2>2, <2>6, <4>2
      <4>3. QED
        BY <2>1, <4>1, <4>2
    <3>2. i <= (n + 1) + 1
      BY <2>1, <2>10
    <3>3. QED
      BY <2>1, <2>2, <2>10, <3>1, <3>2
  <2>12. ASSUME NEW j \in 1..(n + 1), NEW k \in 1..(n + 1), j <= k
         PROVE  Fall(c, j, k) <= w
    <3>1. CASE k \in 1..n
      <4>1. j \in 1..n
        BY <2>1, <2>12, <3>1
      <4>2. Fall(c, j, k) <= v /\ Fall(c, j, k) \in Int
        BY <1>4, <2>1, <2>9, <2>12, <3>1, <4>1
      <4>3. QED
        BY <2>4, <2>8, <4>2
    <3>2. CASE k = n + 1
      <4>1. c[j] <= q /\ c[j] \in Nat \ {0} /\ j \in 1..m
        BY <1>1, <2>1, <2>2, <2>11
      <4>2. Computed!Drop(c[j], x) <= Computed!Drop(q, x) /\ Computed!Drop(c[j], x) \in Int
        <5>1. x \in Nat /\ x \in Int
          BY <2>3
        <5>2. Computed!Drop(c[j], x) <= Computed!Drop(q, x)
          BY <2>6, <4>1, <5>1, DropMonotone
        <5>3. Computed!Drop(c[j], x) \in Int
          BY <4>1, <5>1, DropIs
        <5>4. QED
          BY <5>2, <5>3
      <4>3. Fall(c, j, k) = Computed!Drop(c[j], x)
        BY <2>2, <3>2 DEF Fall
      <4>4. QED
        BY <2>7, <2>8, <4>2, <4>3
    <3>3. QED
      BY <2>1, <3>1, <3>2
  <2>13. \E j, k \in 1..m : j <= k /\ w = Fall(c, j, k)
    <3>1. CASE w = v
      BY <1>6, <2>2, <3>1
    <3>2. CASE w = Computed!Drop(q, x)
      <4>1. w = Fall(c, i, n + 1)
        BY <2>2, <2>10, <3>2 DEF Fall
      <4>2. QED
        BY <2>1, <2>10, <4>1
    <3>3. QED
      BY <2>8, <3>1, <3>2
  <2>14. Worst(n + 1)
    BY <2>2, <2>12, <2>13
  <2>15. QED
    BY <2>1, <2>11, <2>14
<1> HIDE DEF S
<1>7. 0..m \subseteq S
  BY <1>1, <1>5, <1>6, Induction
<1>8. m \in S
  BY <1>1, <1>7
<1>9. Worst(m)
  BY <1>8 DEF S
<1>10. current <= worst
  <2>1. PICK j \in 1..m : Highest(c) = c[j]
    BY HighestIs DEF m
  <2>2. m \in 1..m /\ j <= m
    BY <1>1
  <2>3. current = Fall(c, j, m)
    BY <1>3, <2>1 DEF Fall
  <2>4. QED
    BY <1>3, <1>9, <2>2, <2>3
<1>11. QED
  BY <1>3, <1>9, <1>10 DEF m

--------------------------------------------------------------------------------
(* The strength index.                                                          *)

\* The mean gain and loss of the indicators, and of the divergence rule.
Reported(f, c, p) ==
  f = [i \in (p + 1)..Len(c) |->
         IF i = p + 1
         THEN [gain |-> Computed!Total([k \in 1..p |-> Computed!Rise(c, k + 1)]) \div p,
               loss |-> Computed!Total([k \in 1..p |-> Computed!Fall(c, k + 1)]) \div p]
         ELSE [gain |-> Computed!Wilder(f[i - 1].gain, Computed!Rise(c, i), p),
               loss |-> Computed!Wilder(f[i - 1].loss, Computed!Fall(c, i), p)]]

Gain(c, i) == Setups!AtLeast(10 * Setups!Milli * (c[i] - c[i - 1]), 0)
Loss(c, i) == Setups!AtLeast(-(10 * Setups!Milli * (c[i] - c[i - 1])), 0)

Compared(f, c, p) ==
  f = [i \in (p + 1)..Len(c) |->
         IF i = p + 1
         THEN [gain |-> Setups!Total([k \in 1..p |-> Gain(c, k + 1)]) \div p,
               loss |-> Setups!Total([k \in 1..p |-> Loss(c, k + 1)]) \div p]
         ELSE [gain |-> (f[i - 1].gain * (p - 1) + Gain(c, i)) \div p,
               loss |-> (f[i - 1].loss * (p - 1) + Loss(c, i)) \div p]]

LEMMA ComputedRsi ==
  ASSUME NEW c, NEW p
  PROVE  Computed!Rsi(c, p) =
           IF Len(c) <= p THEN Null
           ELSE Computed!Strength((CHOOSE f : Reported(f, c, p))[Len(c)].gain,
                                  (CHOOSE f : Reported(f, c, p))[Len(c)].loss)
BY DEF Computed!Rsi, Reported

LEMMA ComparedRsi ==
  ASSUME NEW c, NEW p
  PROVE  Setups!RsiSeries(c, p) =
           [i \in DOMAIN c |->
              IF i <= p THEN Null
              ELSE Setups!StrengthOf((CHOOSE f : Compared(f, c, p))[i].gain,
                                     (CHOOSE f : Compared(f, c, p))[i].loss)]
BY DEF Setups!RsiSeries, Setups!MeanChange, Compared, Gain, Loss

LEMMA ChangesAgree ==
  ASSUME NEW c \in Seq(Int), NEW i \in 2..Len(c)
  PROVE  Computed!Rise(c, i) = Gain(c, i) /\ Computed!Fall(c, i) = Loss(c, i)
<1>1. i \in 1..Len(c) /\ i - 1 \in 1..Len(c)
  OBVIOUS
<1>2. PICK x, y : x = c[i] /\ y = c[i - 1] /\ x \in Int /\ y \in Int
  BY <1>1
<1>3. /\ Computed!Rise(c, i) = IF x > y THEN 10000 * (x - y) ELSE 0
      /\ Computed!Fall(c, i) = IF x < y THEN 10000 * (y - x) ELSE 0
  BY <1>2 DEF Computed!Rise, Computed!Fall, Computed!Fine
<1>4. /\ Gain(c, i) = IF 10 * 1000 * (x - y) < 0 THEN 0 ELSE 10 * 1000 * (x - y)
      /\ Loss(c, i) = IF -(10 * 1000 * (x - y)) < 0 THEN 0 ELSE -(10 * 1000 * (x - y))
  BY <1>2 DEF Gain, Loss, Setups!AtLeast, Setups!Milli
<1>5. QED
  BY <1>2, <1>3, <1>4, SMTT(20)

\* Both are the same computation.
LEMMA MeansAgree ==
  ASSUME NEW c \in Seq(Int), NEW p \in Nat \ {0}, p < Len(c), NEW f
  PROVE  Reported(f, c, p) <=> Compared(f, c, p)
<1> DEFINE m == Len(c)
<1>1. m \in Nat /\ p < m
  OBVIOUS
<1>2. \A i \in 2..m : Computed!Rise(c, i) = Gain(c, i) /\ Computed!Fall(c, i) = Loss(c, i)
  BY ChangesAgree
<1> HIDE DEF m
<1>3. \A k \in 1..p : k + 1 \in 2..m
  BY <1>1
<1>4. /\ [k \in 1..p |-> Computed!Rise(c, k + 1)] = [k \in 1..p |-> Gain(c, k + 1)]
      /\ [k \in 1..p |-> Computed!Fall(c, k + 1)] = [k \in 1..p |-> Loss(c, k + 1)]
  BY <1>2, <1>3
<1> DEFINE a(i) == IF i = p + 1
                   THEN [gain |-> Computed!Total([k \in 1..p |-> Computed!Rise(c, k + 1)]) \div p,
                         loss |-> Computed!Total([k \in 1..p |-> Computed!Fall(c, k + 1)]) \div p]
                   ELSE [gain |-> Computed!Wilder(f[i - 1].gain, Computed!Rise(c, i), p),
                         loss |-> Computed!Wilder(f[i - 1].loss, Computed!Fall(c, i), p)]
           b(i) == IF i = p + 1
                   THEN [gain |-> Setups!Total([k \in 1..p |-> Gain(c, k + 1)]) \div p,
                         loss |-> Setups!Total([k \in 1..p |-> Loss(c, k + 1)]) \div p]
                   ELSE [gain |-> (f[i - 1].gain * (p - 1) + Gain(c, i)) \div p,
                         loss |-> (f[i - 1].loss * (p - 1) + Loss(c, i)) \div p]
<1>5. ASSUME NEW i \in (p + 1)..m PROVE a(i) = b(i)
  <2>1. CASE i = p + 1
    <3>1. \A s : Computed!Total(s) = Setups!Total(s)
      BY DEF Computed!Total, Setups!Total
    <3>2. QED
      BY <1>4, <2>1, <3>1
  <2>2. CASE i # p + 1
    <3>1. Computed!Rise(c, i) = Gain(c, i) /\ Computed!Fall(c, i) = Loss(c, i)
      <4>1. i \in 2..m
        BY <1>1
      <4>2. QED
        BY <1>2, <4>1
    <3>2. QED
      BY <2>2, <3>1 DEF Computed!Wilder
  <2>3. QED
    BY <2>1, <2>2
<1>6. [i \in (p + 1)..m |-> a(i)] = [i \in (p + 1)..m |-> b(i)]
  <2> HIDE DEF a, b
  <2>1. QED
    BY <1>5
<1>7. Reported(f, c, p) <=> f = [i \in (p + 1)..m |-> a(i)]
  BY DEF Reported, m
<1>8. Compared(f, c, p) <=> f = [i \in (p + 1)..m |-> b(i)]
  BY DEF Compared, m
<1> HIDE DEF a, b
<1>9. QED
  BY <1>6, <1>7, <1>8

LEMMA StrengthsAgree ==
  ASSUME NEW c \in Seq(Int), c # <<>>
  PROVE  Last(Setups!RsiSeries(c, 14)) = Computed!Rsi(c, 14)
<1> DEFINE m == Len(c)
           s == Setups!RsiSeries(c, 14)
           f == CHOOSE g : Reported(g, c, 14)
           h == CHOOSE g : Compared(g, c, 14)
<1>1. m \in Nat \ {0} /\ DOMAIN c = 1..m
  OBVIOUS
<1>2. Computed!Rsi(c, 14) = IF m <= 14 THEN Null ELSE Computed!Strength(f[m].gain, f[m].loss)
  BY ComputedRsi
<1>3. s = [i \in DOMAIN c |-> IF i <= 14 THEN Null ELSE Setups!StrengthOf(h[i].gain, h[i].loss)]
  BY ComparedRsi
<1>4. 14 < m => f = h
  <2>1. ASSUME 14 < m PROVE \A g : Reported(g, c, 14) <=> Compared(g, c, 14)
    BY <2>1, MeansAgree
  <2>2. QED
    BY <2>1
<1> HIDE DEF m, s, f, h
<1>5. DOMAIN s = 1..m /\ Last(s) = s[m]
  <2>1. DOMAIN s = 1..m
    BY <1>1, <1>3
  <2>2. Len(s) = m
    BY <1>1, <2>1
  <2>3. QED
    BY <2>1, <2>2 DEF Last
<1>6. s[m] = IF m <= 14 THEN Null ELSE Setups!StrengthOf(h[m].gain, h[m].loss)
  BY <1>1, <1>3
<1>7. \A x, y : Setups!StrengthOf(x, y) = Computed!Strength(x, y)
  BY DEF Setups!StrengthOf, Computed!Strength
<1>8. QED
  BY <1>1, <1>2, <1>4, <1>5, <1>6, <1>7 DEF s

--------------------------------------------------------------------------------
(* The ratios of the profile.                                                   *)

Stated == {r \in Of("fundamentals") : r.source = "vnstock_fundamentals"}

\* The figures kept of the statements in recs are those of the latest of them.
LatestOf(recs, eps) ==
  \/ recs = {} /\ eps = Null
  \/ /\ \E r \in recs : \A o \in recs : o.key <= r.key
     /\ \A r \in recs : (\A o \in recs : o.key <= r.key) => r.payload.eps = eps

\* What the profile is made of before it is made, and what it says.
ValueInv ==
  /\ pc \in Before \cup {"overview", "fundamentals"}
       => Stated = {} /\ latest.eps = Null
  /\ LatestOf(Stated, latest.eps)
  /\ pc \in Before \cup {"overview", "fundamentals", "profile"} => Of("company_profile") = {}
  /\ \A profile \in Of("company_profile") :
       profile.payload.pe = Quotient(profile.payload.price, latest.eps)

LEMMA FundamentalsValued ==
  ASSUME \E case \in Cases : market = case.market, NEW over
  PROVE  LET f == Fundamentals(market, over)
         IN LatestOf({r \in ToSet(f.records) : r.source = "vnstock_fundamentals"}, f.eps)
<1> DEFINE income == Rows(market.income)
           balance == Rows(market.balance)
           cash == Rows(market.cash)
           periods == Periods(income)
           record(i) == StatementRecord(income, balance, cash, Shares(over), periods[i],
                                        LatestPeriod(periods))
           both == DOMAIN income # {} /\ DOMAIN balance # {}
           f == Fundamentals(market, over)
           stated == {r \in ToSet(f.records) : r.source = "vnstock_fundamentals"}
<1>1. /\ periods \in Seq(Int)
      /\ \A i, k \in 1..Len(periods) : i < k => periods[i] > periods[k]
  BY PeriodsArranged
<1>2. CASE both /\ periods # <<>>
  <2>1. /\ f.records = [i \in DOMAIN periods |-> record(i)]
        /\ f.eps = Metric(income, "eps", periods[1])
    <3> DEFINE g == FromStatements(income, balance, cash, over)
    <3>1. /\ g.records = [i \in DOMAIN periods |-> record(i)]
          /\ g.eps = Metric(income, "eps", LatestPeriod(periods))
      BY <1>2 DEF FromStatements
    <3>2. [i \in DOMAIN periods |-> record(i)] # <<>>
      <4>1. DOMAIN periods # {} /\ DOMAIN <<>> = {}
        BY <1>1, <1>2
      <4> QED
        BY <4>1
    <3>3. LatestPeriod(periods) = periods[1]
      BY <1>1, <1>2 DEF LatestPeriod
    <3>4. f = g
      <4> HIDE DEF record, periods
      <4> QED
        BY <1>2, <3>1, <3>2 DEF Fundamentals
    <3> QED
      BY <3>1, <3>3, <3>4
  <2>2. \A i : /\ record(i).key = periods[i] /\ record(i).source = "vnstock_fundamentals"
               /\ record(i).payload.eps = Metric(income, "eps", periods[i])
    BY DEF StatementRecord
  <2>3. 1 \in DOMAIN periods /\ DOMAIN periods = 1..Len(periods) /\ Len(periods) \in Nat
        /\ \A i \in DOMAIN periods : periods[i] \in Int /\ periods[i] <= periods[1]
                                     /\ (periods[1] <= periods[i] => i = 1)
    BY <1>1, <1>2
  <2> HIDE DEF record, periods, f, income
  <2>4. stated = {record(i) : i \in DOMAIN periods}
    <3>1. ToSet(f.records) = {record(i) : i \in DOMAIN periods}
      BY <2>1 DEF ToSet
    <3>2. QED
      BY <2>2, <3>1
  <2> HIDE DEF stated
  <2>5. record(1) \in stated /\ \A o \in stated : o.key <= record(1).key
    BY <2>2, <2>3, <2>4
  <2>6. ASSUME NEW r \in stated, \A o \in stated : o.key <= r.key
        PROVE  r.payload.eps = f.eps
    <3>1. PICK i \in DOMAIN periods : r = record(i)
      BY <2>4
    <3>2. record(1).key <= r.key
      BY <2>5, <2>6
    <3>3. i = 1
      BY <2>2, <2>3, <3>1, <3>2
    <3>4. QED
      BY <2>1, <2>2, <3>1, <3>3
  <2>7. LatestOf(stated, f.eps)
    BY <2>5, <2>6 DEF LatestOf
  <2>8. QED
    BY <2>7 DEF stated, f
<1>3. CASE ~both \/ periods = <<>>
  <2>1. (f.records = <<>> \/ f.records = <<FromOverview(over)>>) /\ f.eps = Null
    BY <1>3 DEF Fundamentals, FromStatements
  <2> HIDE DEF f
  <2>2. \A r \in ToSet(f.records) : r.source # "vnstock_fundamentals"
    <3>1. CASE f.records = <<>>
      <4>1. f.records \in Seq({})
        BY <3>1
      <4> QED
        BY <4>1, NoMember, Zenon
    <3>2. CASE f.records = <<FromOverview(over)>>
      <4>1. ToSet(f.records) = {FromOverview(over)}
        BY <3>2, OneMember
      <4>2. FromOverview(over).source = "vnstock_company_overview"
        BY DEF FromOverview
      <4> QED
        BY <4>1, <4>2
    <3> QED
      BY <2>1, <3>1, <3>2
  <2>3. stated = {}
    BY <2>2
  <2> HIDE DEF stated
  <2>4. LatestOf(stated, f.eps)
    BY <2>1, <2>3 DEF LatestOf
  <2>5. QED
    BY <2>4 DEF stated, f
<1> QED
  BY <1>2, <1>3

LEMMA ValueInit == ASSUME Init PROVE ValueInv
<1>1. PICK case \in Cases : Begin(case)
  BY DEF Init
<1>2. pc = "prepare" /\ latest = [eps |-> Null, bvps |-> Null] /\ records \in Seq({})
  BY <1>1 DEF Begin
<1>3. \A d : Of(d) = {}
  BY <1>2, NoMember DEF Of
<1>4. Stated = {} /\ latest.eps = Null
  BY <1>2, <1>3 DEF Stated
<1>5. QED
  BY <1>3, <1>4 DEF ValueInv, LatestOf

LEMMA StepValues ==
  ASSUME CollectInv, ValueInv, [Next]_vars
  PROVE  ValueInv'
<1> DEFINE Early == Before \cup {"overview", "fundamentals"}
<1>1. CASE /\ UNCHANGED <<records, latest>>
           /\ pc' \in Early => pc \in Early
           /\ pc' \in Early \cup {"profile"} => pc \in Early \cup {"profile"}
  <2>1. (\A d : Of(d)' = Of(d)) /\ Stated' = Stated
    BY <1>1 DEF Of, Stated
  <2>2. QED
    BY <1>1, <2>1 DEF ValueInv
<1>2. CASE FetchPrices
  <2>1. pc = "provider" /\ pc' = "overview" /\ latest' = latest
        /\ (records' = records \/ records' = PriceRecords(market.price) \/ records' = <<>>)
    BY <1>2 DEF FetchPrices, Goto
  <2>2. Stated = {} /\ latest.eps = Null /\ Of("company_profile") = {}
    BY <2>1 DEF ValueInv, Before
  <2>3. \A r \in ToSet(records') : r \in ToSet(records) \/ r.dataset = "prices"
    <3>1. ToSet(<<>>) = {}
      <4>1. <<>> \in Seq({})
        OBVIOUS
      <4>2. QED
        BY <4>1, NoMember, Zenon
    <3>2. QED
      BY <2>1, <3>1, PricesFound
  <2>4. Of("company_profile")' = {} /\ Of("fundamentals")' \subseteq Of("fundamentals")
    BY <2>2, <2>3 DEF Of
  <2>5. Stated' = {}
    BY <2>2, <2>4 DEF Stated
  <2>6. QED
    BY <2>1, <2>2, <2>4, <2>5 DEF ValueInv, LatestOf
<1>3. CASE FetchFundamentals
  <2> DEFINE f == Fundamentals(market, overview)
  <2>1. /\ pc = "fundamentals" /\ pc' = "profile"
        /\ \/ UNCHANGED <<records, latest>>
           \/ records' = records \o f.records /\ latest'.eps = f.eps
    BY <1>3 DEF FetchFundamentals, Goto
  <2>2. pc' \notin Early /\ pc \in Early
    BY <2>1 DEF Before
  <2>3. CASE UNCHANGED <<records, latest>>
    BY <1>1, <2>2, <2>3
  <2>4. CASE records' = records \o f.records /\ latest'.eps = f.eps
    <3>1. IsSeq(f.records) /\ \A r \in ToSet(f.records) : r.dataset = "fundamentals"
      BY StatementsFound DEF CollectInv
    <3>2. LatestOf({r \in ToSet(f.records) : r.source = "vnstock_fundamentals"}, f.eps)
      BY FundamentalsValued DEF CollectInv
    <3> HIDE DEF f
    <3>3. ToSet(records') = ToSet(records) \cup ToSet(f.records)
      BY <2>4, <3>1, Joined DEF CollectInv
    <3>4. Stated = {} /\ Of("company_profile") = {}
      BY <2>1 DEF ValueInv
    <3>5. Of("company_profile")' = {}
      BY <3>1, <3>3, <3>4 DEF Of
    <3>6. Stated' = {r \in ToSet(f.records) : r.source = "vnstock_fundamentals"}
      BY <3>1, <3>3, <3>4 DEF Of, Stated
    <3>7. QED
      BY <2>1, <2>2, <2>4, <3>2, <3>5, <3>6 DEF ValueInv
  <2>5. QED
    BY <2>1, <2>3, <2>4
<1>4. CASE FetchProfile
  <2> DEFINE profile == ProfileRecord(overview, latest.eps, latest.bvps)
  <2>1. /\ pc = "profile" /\ pc' = "fetched" /\ latest' = latest
        /\ (records' = records \/ records' = Append(records, profile))
    BY <1>4 DEF FetchProfile, Goto
  <2>2. pc' \notin Early \cup {"profile"}
    BY <2>1 DEF Before
  <2>3. CASE records' = records
    BY <1>1, <2>1, <2>2, <2>3
  <2>4. CASE records' = Append(records, profile)
    <3>1. /\ profile.dataset = "company_profile"
          /\ profile.payload.pe = Quotient(profile.payload.price, latest.eps)
      BY DEF ProfileRecord
    <3> HIDE DEF profile
    <3>2. ToSet(records') = ToSet(records) \cup {profile}
      BY <2>4, JoinedOne DEF CollectInv
    <3>3. Of("company_profile")' = Of("company_profile") \cup {profile}
          /\ Of("fundamentals")' = Of("fundamentals")
      BY <3>1, <3>2 DEF Of
    <3>4. Stated' = Stated
      BY <3>3 DEF Stated
    <3>5. QED
      BY <2>1, <2>2, <3>1, <3>3, <3>4 DEF ValueInv
  <2>5. QED
    BY <2>1, <2>3, <2>4
<1>5. CASE FetchOverview
  <2>1. pc = "overview" /\ UNCHANGED <<records, latest>>
    BY <1>5 DEF FetchOverview
  <2>2. QED
    BY <1>1, <2>1
<1>6. CASE Reject \/ Plan \/ NoProvider \/ Unavailable
  <2>1. pc \in Early /\ UNCHANGED <<records, latest>>
    BY <1>6 DEF Reject, Plan, NoProvider, Unavailable, Before
  <2>2. QED
    BY <1>1, <2>1
<1>7. CASE EndFetch \/ Collected \/ Bundle \/ Analyse \/ Finish \/ Fail
  <2>1. UNCHANGED <<records, latest>>
    BY <1>7 DEF EndFetch, Collected, Bundle, Analyse, Finish, Fail
  <2>2. pc' \in {"result", "failed", "collected", "analyse", "done"}
    BY <1>7 DEF EndFetch, Collected, Bundle, Analyse, Finish, Fail, Goto
  <2>3. pc' \notin Early \cup {"profile"}
    BY <2>2 DEF Before
  <2>4. QED
    BY <1>1, <2>1, <2>3
<1>8. CASE UNCHANGED <<pc, records, latest>>
  BY <1>1, <1>8
<1>9. QED
  BY <1>2, <1>3, <1>4, <1>5, <1>6, <1>7, <1>8
     DEF Next, Collect, CollectNext, Browser, vars, collectVars

\* The ratios of the profile are of the latest statement the run cites, whatever the
\* vendor answers (vnstock.py, _fundamental_records and _profile_record).
LEMMA Valued == ValueInv => ValuationOfLatest
<1> SUFFICES ASSUME ValueInv, NEW profile \in Of("company_profile")
             PROVE  LET latestOf == CHOOSE r \in Stated : \A o \in Stated : o.key <= r.key
                    IN IF Stated = {} THEN profile.payload.pe = Null
                       ELSE profile.payload.pe
                              = Quotient(profile.payload.price, latestOf.payload.eps)
  BY DEF ValuationOfLatest, Stated
<1>1. profile.payload.pe = Quotient(profile.payload.price, latest.eps)
  BY DEF ValueInv
<1>2. CASE Stated = {}
  <2>1. latest.eps = Null
    BY <1>2 DEF ValueInv, LatestOf
  <2>2. QED
    BY <1>1, <1>2, <2>1 DEF Quotient
<1>3. CASE Stated # {}
  <2> DEFINE latestOf == CHOOSE r \in Stated : \A o \in Stated : o.key <= r.key
  <2>1. latestOf \in Stated /\ \A o \in Stated : o.key <= latestOf.key
    BY <1>3 DEF ValueInv, LatestOf
  <2> HIDE DEF latestOf
  <2>2. latestOf.payload.eps = latest.eps
    BY <1>3, <2>1 DEF ValueInv, LatestOf
  <2>3. QED
    BY <1>1, <1>3, <2>2 DEF latestOf
<1>4. QED
  BY <1>2, <1>3

--------------------------------------------------------------------------------
(* The evidence of the prices.                                                  *)

\* The bars that are kept have a close and a date, and the rest is numbers.
LEMMA SeriesIsGood ==
  ASSUME NEW price \in Seq(PriceRow), PriceSeries(price) # <<>>
  PROVE  GoodSeries(PriceSeries(price))
<1> DEFINE I == {i \in DOMAIN price : price[i].close # 0}
           rows == Picked(price, I)
           series == PriceSeries(price)
<1>1. series = [i \in DOMAIN rows |-> [rows[i] EXCEPT !.date = Dated(@)]]
  BY DEF PriceSeries
<1>2. /\ rows \in Seq(PriceRow)
      /\ {rows[j] : j \in DOMAIN rows} = {price[i] : i \in I \cap DOMAIN price}
  BY PickedElements, PickedRange
<1> HIDE DEF rows, series
<1>3. ASSUME NEW i \in DOMAIN rows PROVE GoodBar(series[i])
  <2>1. PICK row : row = rows[i]
    OBVIOUS
  <2>2. row \in PriceRow /\ row.close # 0
    <3>1. row \in {price[j] : j \in I \cap DOMAIN price}
      BY <1>2, <2>1
    <3>2. PICK j \in I \cap DOMAIN price : row = price[j]
      BY <3>1
    <3>3. price[j].close # 0 /\ price[j] \in PriceRow
      OBVIOUS
    <3>4. QED
      BY <3>2, <3>3
  <2>3. series[i] = [row EXCEPT !.date = Dated(@)]
    BY <1>1, <2>1
  <2>4. /\ series[i].open = row.open /\ series[i].high = row.high /\ series[i].low = row.low
        /\ series[i].close = row.close /\ series[i].volume = row.volume
    BY <2>2, <2>3 DEF PriceRow
  <2>5. QED
    BY <2>2, <2>4 DEF PriceRow, GoodBar
<1>4. DOMAIN series = 1..Len(rows) /\ Len(rows) \in Nat /\ DOMAIN rows = 1..Len(rows)
  BY <1>1, <1>2
<1>5. IsSeq(series) /\ Len(series) = Len(rows)
  <2>1. \A i \in DOMAIN series : series[i] \in ToSet(series)
    BY DEF ToSet
  <2>2. series = [i \in 1..Len(rows) |-> series[i]]
    BY <1>1, <1>4
  <2>3. QED
    BY <1>4, <2>1, <2>2 DEF IsSeq
<1>6. QED
  BY <1>3, <1>4, <1>5 DEF GoodSeries, series

\* What is recorded of the prices is the series of the vendor's rows.
PricesInv ==
  \A r \in ToSet(records) :
    r.dataset = "prices" => /\ market.price # Raised
                            /\ r.payload = PriceSeries(market.price) /\ GoodSeries(r.payload)

LEMMA InitPrices == ASSUME Init PROVE PricesInv
<1>1. records \in Seq({})
  BY DEF Init, Begin
<1>2. QED
  BY <1>1, NoMember DEF PricesInv

LEMMA StepPrices ==
  ASSUME CollectInv, PricesInv, [Next]_vars
  PROVE  PricesInv'
<1>1. CASE UNCHANGED <<records, market>>
  BY <1>1 DEF PricesInv
<1>2. CASE FetchPrices
  <2> DEFINE got == PriceRecords(market.price)
  <2>1. /\ market' = market
        /\ \/ records' = records
           \/ records' = <<>>
           \/ records' = got /\ ~PriceRaises(market.price)
    BY <1>2 DEF FetchPrices, Goto
  <2>2. ToSet(<<>>) = {}
    <3>1. <<>> \in Seq({})
      OBVIOUS
    <3>2. QED
      BY <3>1, NoMember, Zenon
  <2>3. CASE records' = got /\ ~PriceRaises(market.price)
    <3>1. market.price \in Seq(PriceRow) /\ market.price # Raised
      <4>1. PICK case \in Cases : market = case.market
        BY DEF CollectInv
      <4>2. market.price # Raised
        BY <2>3 DEF PriceRaises
      <4>3. QED
        BY <4>1, <4>2, PricesAreRows
    <3>2. CASE PriceSeries(market.price) = <<>>
      <4>1. got = <<>>
        BY <3>2 DEF PriceRecords
      <4>2. QED
        BY <2>2, <2>3, <4>1 DEF PricesInv
    <3>3. CASE PriceSeries(market.price) # <<>>
      <4> DEFINE record == [dataset |-> "prices", key |-> "prices", source |-> "vnstock_prices",
                            time |-> Last(PriceSeries(market.price)).date,
                            payload |-> PriceSeries(market.price)]
      <4>1. got = <<record>>
        BY <3>3 DEF PriceRecords
      <4>2. record.payload = PriceSeries(market.price)
        OBVIOUS
      <4> HIDE DEF record, got
      <4>3. ToSet(records') = {record}
        BY <2>3, <4>1, OneMember
      <4>4. GoodSeries(PriceSeries(market.price))
        BY <3>1, <3>3, SeriesIsGood
      <4>5. QED
        BY <2>1, <3>1, <4>2, <4>3, <4>4 DEF PricesInv
    <3>4. QED
      BY <3>2, <3>3
  <2>4. QED
    BY <1>1, <2>1, <2>2, <2>3 DEF PricesInv
<1>3. CASE FetchFundamentals
  <2> DEFINE found == Fundamentals(market, overview).records
  <2>1. market' = market /\ (records' = records \/ records' = records \o found)
    BY <1>3 DEF FetchFundamentals, Goto
  <2>2. IsSeq(found) /\ \A r \in ToSet(found) : r.dataset = "fundamentals"
    BY StatementsFound DEF CollectInv
  <2> HIDE DEF found
  <2>3. ToSet(records \o found) = ToSet(records) \cup ToSet(found)
    BY <2>2, Joined DEF CollectInv
  <2>4. \A r \in ToSet(found) : r.dataset # "prices"
    BY <2>2
  <2>5. QED
    BY <1>1, <2>1, <2>3, <2>4 DEF PricesInv
<1>4. CASE FetchProfile
  <2> DEFINE profile == ProfileRecord(overview, latest.eps, latest.bvps)
  <2>1. market' = market /\ (records' = records \/ records' = Append(records, profile))
    BY <1>4 DEF FetchProfile, Goto
  <2>2. profile.dataset # "prices"
    BY DEF ProfileRecord
  <2> HIDE DEF profile
  <2>3. ToSet(Append(records, profile)) = ToSet(records) \cup {profile}
    BY JoinedOne DEF CollectInv
  <2>4. QED
    BY <1>1, <2>1, <2>2, <2>3 DEF PricesInv
<1>5. QED
  BY <1>1, <1>2, <1>3, <1>4
     DEF Next, Collect, CollectNext, Bundle, Analyse, Finish, Fail, Browser, Goto, Reject,
         Plan, NoProvider, Unavailable, FetchOverview, EndFetch, Collected, vars, collectVars

\* The series of the records is that of any record of prices, and there is one when
\* there is a series.
LEMMA PricesAre ==
  ASSUME PricesInv, IsSeq(records)
  PROVE  /\ (\E r \in ToSet(records) : r.dataset = "prices")
              => /\ market.price # Raised
                 /\ Prices = PriceSeries(market.price) /\ GoodSeries(Prices)
         /\ Prices # <<>> => \E r \in ToSet(records) : r.dataset = "prices"
         /\ PriceRecordsOf(records) = <<>> => Prices = <<>>
         /\ PriceRecordsOf(records) # <<>>
              => Head(PriceRecordsOf(records)).payload = Prices /\ GoodSeries(Prices)
<1> DEFINE prices == PriceRecordsOf(records)
<1>1. IsSeq(prices) /\ ToSet(prices) = {r \in ToSet(records) : r.dataset = "prices"}
  <2> DEFINE I == {i \in DOMAIN records : records[i].dataset = "prices"}
  <2>1. /\ IsSeq(Picked(records, I))
        /\ ToSet(Picked(records, I)) = {records[i] : i \in I \cap DOMAIN records}
    BY PickedSet
  <2>2. {records[i] : i \in I \cap DOMAIN records} = {r \in ToSet(records) : r.dataset = "prices"}
    BY DEF ToSet
  <2>3. QED
    BY <2>1, <2>2 DEF PriceRecordsOf
<1>2. Prices = IF prices = <<>> THEN <<>> ELSE Head(prices).payload
  BY DEF Prices, PriceSeriesOf
<1> HIDE DEF prices
<1>3. prices # <<>> => Head(prices) \in ToSet(prices)
  <2>1. prices # <<>> => 1 \in DOMAIN prices /\ Head(prices) = prices[1]
    BY <1>1 DEF IsSeq
  <2>2. QED
    BY <2>1 DEF ToSet
<1>4. ToSet(prices) # {} => prices # <<>>
  <2>1. <<>> \in Seq({})
    OBVIOUS
  <2>2. ToSet(<<>>) = {}
    BY <2>1, NoMember, Zenon
  <2>3. QED
    BY <2>2
<1>5. prices # <<>> => /\ \E r \in ToSet(records) : r.dataset = "prices"
                       /\ market.price # Raised
                       /\ Prices = PriceSeries(market.price) /\ GoodSeries(Prices)
  <2>1. ASSUME prices # <<>>
        PROVE  /\ \E r \in ToSet(records) : r.dataset = "prices"
               /\ market.price # Raised
               /\ Prices = PriceSeries(market.price) /\ GoodSeries(Prices)
    <3>1. PICK r : r = Head(prices)
      OBVIOUS
    <3>2. r \in ToSet(records) /\ r.dataset = "prices" /\ Prices = r.payload
      BY <1>1, <1>2, <1>3, <2>1, <3>1
    <3>3. QED
      BY <3>2 DEF PricesInv
  <2>2. QED
    BY <2>1
<1>6. (\E r \in ToSet(records) : r.dataset = "prices") => prices # <<>>
  BY <1>1, <1>4
<1>7. QED
  BY <1>2, <1>5, <1>6 DEF prices

\* What the bundle says of the prices is of the prices of the records.
FromPrices(r) ==
  /\ r.type \in {"price_series", "indicator", "pattern_evidence", "pattern_setup"}
       => GoodSeries(Prices)
  /\ r.type = "indicator" => r.payload = Computed!ComputeIndicators(Prices)
  /\ r.type = "pattern_evidence" => r.payload = Setups!DetectPatternEvidence(Prices)
  /\ r.type = "pattern_setup" => r.payload = Setups!DetectPatternSetups(Prices)

EvidentInv ==
  /\ pc \notin {"analyse", "done"} => bundle = <<>>
  /\ \A r \in ToSet(bundle) : FromPrices(r)
  /\ Ids(bundle) \subseteq DOMAIN citations

LEMMA EnrichedFrom ==
  ASSUME RecordsInv, PricesInv, IsSeq(records), NEW r \in ToSet(EnrichWithIndicators(records))
  PROVE  /\ r.dataset \in Datasets \cup {"indicators"}
         /\ r.dataset = "prices" => r.payload = Prices /\ GoodSeries(Prices)
         /\ r.dataset = "indicators" => /\ r.payload = Computed!ComputeIndicators(Prices)
                                        /\ GoodSeries(Prices)
<1> DEFINE added == [dataset |-> "indicators", key |-> "indicators",
                     source |-> "computed_indicators", time |-> Last(Prices).date,
                     payload |-> Computed!ComputeIndicators(Prices)]
           recs == EnrichWithIndicators(records)
<1>1. recs = records \/ (Prices # <<>> /\ recs = Append(records, added))
  BY DEF EnrichWithIndicators, Prices
<1>2. added.dataset = "indicators" /\ added.payload = Computed!ComputeIndicators(Prices)
  OBVIOUS
<1> HIDE DEF added, recs
<1>3. ToSet(Append(records, added)) = ToSet(records) \cup {added}
  BY JoinedOne
<1>4. r \in ToSet(records) \/ (r = added /\ Prices # <<>>)
  BY <1>1, <1>3 DEF recs
<1>5. CASE r \in ToSet(records)
  <2>1. r.dataset \in Datasets /\ "indicators" \notin Datasets
    BY <1>5 DEF RecordsInv, Recorded, Datasets
  <2>2. ASSUME r.dataset = "prices" PROVE r.payload = Prices /\ GoodSeries(Prices)
    <3>1. r.payload = PriceSeries(market.price)
      BY <1>5, <2>2 DEF PricesInv
    <3>2. Prices = PriceSeries(market.price) /\ GoodSeries(Prices)
      BY <1>5, <2>2, PricesAre
    <3>3. QED
      BY <3>1, <3>2
  <2>3. QED
    BY <2>1, <2>2
<1>6. CASE r = added /\ Prices # <<>>
  <2>1. GoodSeries(Prices)
    BY <1>6, PricesAre
  <2>2. QED
    BY <1>2, <1>6, <2>1 DEF Datasets
<1>7. QED
  BY <1>4, <1>5, <1>6

LEMMA BuiltFrom ==
  ASSUME NEW r, r.dataset \in Datasets \cup {"indicators"},
         r.dataset = "prices" => r.payload = Prices /\ GoodSeries(Prices),
         r.dataset = "indicators" => /\ r.payload = Computed!ComputeIndicators(Prices)
                                     /\ GoodSeries(Prices)
  PROVE  /\ FromPrices(BuildDataRecord(r))
         /\ BuildDataRecord(r).type = "price_series"
              => BuildDataRecord(r).payload = Prices /\ GoodSeries(Prices)
<1>1. /\ BuildDataRecord(r).type = RecordType[r.dataset]
      /\ r.dataset # "fundamentals" => BuildDataRecord(r).payload = r.payload
  BY DEF BuildDataRecord, DataRecord, RecordType, Datasets
<1>2. CASE r.dataset = "prices"
  <2>1. RecordType[r.dataset] = "price_series"
    BY <1>2 DEF RecordType
  <2>2. QED
    BY <1>1, <1>2, <2>1 DEF FromPrices
<1>3. CASE r.dataset = "indicators"
  <2>1. RecordType[r.dataset] = "indicator"
    BY <1>3 DEF RecordType
  <2>2. QED
    BY <1>1, <1>3, <2>1 DEF FromPrices
<1>4. CASE r.dataset \in {"fundamentals", "company_profile"}
  <2>1. RecordType[r.dataset] \in {"fundamental", "company_profile"}
    BY <1>4 DEF RecordType
  <2>2. QED
    BY <1>1, <2>1 DEF FromPrices
<1>5. QED
  BY <1>2, <1>3, <1>4 DEF Datasets

LEMMA BundleFrom ==
  ASSUME RecordsInv, PricesInv, IsSeq(records),
         NEW r \in ToSet(BuildDataBundle(EnrichWithIndicators(records)))
  PROVE  FromPrices(r)
<1> DEFINE recs == EnrichWithIndicators(records)
           built == [i \in DOMAIN recs |-> BuildDataRecord(recs[i])]
           I == {i \in DOMAIN built : built[i].type = "price_series"}
           prices == Picked(built, I)
           more == Derived(Head(prices))
           all == BuildDataBundle(recs)
<1>1. IsSeq(recs)
  BY Enriched
<1>2. ASSUME NEW d \in ToSet(recs)
      PROVE  /\ FromPrices(BuildDataRecord(d))
             /\ BuildDataRecord(d).type = "price_series"
                  => BuildDataRecord(d).payload = Prices /\ GoodSeries(Prices)
  <2>1. /\ d.dataset \in Datasets \cup {"indicators"}
        /\ d.dataset = "prices" => d.payload = Prices /\ GoodSeries(Prices)
        /\ d.dataset = "indicators" => /\ d.payload = Computed!ComputeIndicators(Prices)
                                       /\ GoodSeries(Prices)
    BY EnrichedFrom
  <2>2. QED
    BY <2>1, BuiltFrom
<1>3. all = IF prices = <<>> \/ Head(prices).payload = <<>> THEN built ELSE built \o more
  BY DEF BuildDataBundle
<1> HIDE DEF recs
<1>4. IsSeq(built) /\ ToSet(built) = {BuildDataRecord(d) : d \in ToSet(recs)}
  <2>1. built = [i \in DOMAIN recs |-> built[i]]
    OBVIOUS
  <2>2. ToSet(built) = {BuildDataRecord(d) : d \in ToSet(recs)}
    BY DEF ToSet
  <2> HIDE DEF built
  <2>3. QED
    BY <1>1, <2>1, <2>2, SameLength
<1>5. IsSeq(prices) /\ ToSet(prices) = {e \in ToSet(built) : e.type = "price_series"}
  <2>1. {built[i] : i \in I \cap DOMAIN built} = {e \in ToSet(built) : e.type = "price_series"}
    <3> HIDE DEF built
    <3>1. QED
      BY DEF ToSet
  <2> HIDE DEF built, I
  <2>2. QED
    BY <1>4, <2>1, PickedSet
<1> HIDE DEF built, I, prices
<1>6. \A e \in ToSet(built) :
        FromPrices(e) /\ (e.type = "price_series" => e.payload = Prices /\ GoodSeries(Prices))
  BY <1>2, <1>4
<1>7. ASSUME prices # <<>>
      PROVE  Head(prices).payload = Prices /\ GoodSeries(Prices)
  <2>1. Head(prices) \in ToSet(prices)
    <3>1. 1 \in DOMAIN prices /\ Head(prices) = prices[1]
      BY <1>5, <1>7 DEF IsSeq
    <3>2. QED
      BY <3>1 DEF ToSet
  <2>2. PICK e : e = Head(prices)
    OBVIOUS
  <2>3. e \in ToSet(built) /\ e.type = "price_series"
    BY <1>5, <2>1, <2>2
  <2>4. QED
    BY <1>6, <2>2, <2>3
<1>8. ASSUME prices # <<>>
      PROVE  IsSeq(more) /\ \A e \in ToSet(more) : FromPrices(e)
  <2> DEFINE price == Head(prices)
             rec(type, suffix, payload) ==
               [type |-> type, id |-> price.id \o suffix, time |-> price.time,
                source |-> price.source, payload |-> payload]
             a == rec("price_summary", <<>>, YearEndPrices(price.payload))
             b == rec("pattern_evidence", <<"pattern_evidence">>,
                      Setups!DetectPatternEvidence(price.payload))
             c == rec("pattern_setup", <<"pattern_setup">>,
                      Setups!DetectPatternSetups(price.payload))
  <2>1. more = <<a, b, c>>
    BY DEF Derived
  <2>2. /\ a.type = "price_summary"
        /\ b.type = "pattern_evidence" /\ b.payload = Setups!DetectPatternEvidence(price.payload)
        /\ c.type = "pattern_setup" /\ c.payload = Setups!DetectPatternSetups(price.payload)
    OBVIOUS
  <2>3. price.payload = Prices /\ GoodSeries(Prices)
    BY <1>7, <1>8
  <2> HIDE DEF a, b, c, more, price
  <2>4. FromPrices(a) /\ FromPrices(b) /\ FromPrices(c)
    BY <2>2, <2>3 DEF FromPrices
  <2>5. ToSet(<<a, b, c>>) = {a, b, c} /\ <<a, b, c>> \in Seq({a, b, c})
    BY DEF ToSet
  <2>6. QED
    BY <2>1, <2>4, <2>5 DEF IsSeq
<1> HIDE DEF more
<1>9. r \in ToSet(built) \/ (prices # <<>> /\ r \in ToSet(more))
  <2>1. CASE all = built
    BY <2>1 DEF all, recs
  <2>2. CASE all = built \o more /\ prices # <<>>
    <3>1. ToSet(built \o more) = ToSet(built) \cup ToSet(more)
      BY <1>4, <1>8, <2>2, Joined
    <3>2. r \in ToSet(all)
      BY DEF all, recs
    <3> HIDE DEF all
    <3>3. QED
      BY <2>2, <3>1, <3>2
  <2>3. QED
    BY <1>3, <2>1, <2>2
<1>10. QED
  BY <1>6, <1>8, <1>9

LEMMA NothingEvident ==
  /\ ToSet(<<>>) = {} /\ Ids(<<>>) = {}
<1>1. <<>> \in Seq({}) /\ DOMAIN <<>> = {}
  OBVIOUS
<1>2. QED
  BY <1>1, NoMember, Zenon DEF Ids

LEMMA StepEvident ==
  ASSUME CollectInv, RecordsInv, PricesInv, EvidentInv, [Next]_vars
  PROVE  EvidentInv'
<1>1. CASE /\ UNCHANGED <<bundle, records, citations>>
           /\ pc' = pc \/ pc' \in {"analyse", "done"}
  <2>1. Prices' = Prices
    BY <1>1 DEF Prices
  <2>2. QED
    BY <1>1, <2>1 DEF EvidentInv, FromPrices, Ids
<1>2. CASE Collect
  <2>1. /\ CollectNext /\ UNCHANGED <<bundle, citations>>
        /\ pc \notin {"analyse", "done"} /\ pc' \notin {"analyse", "done"}
    BY <1>2 DEF Collect, CollectNext, Reject, Plan, NoProvider, Unavailable, FetchPrices,
                FetchOverview, FetchFundamentals, FetchProfile, EndFetch, Collected, Goto
  <2>2. bundle' = <<>>
    BY <2>1 DEF EvidentInv
  <2>3. QED
    BY <2>1, <2>2, NothingEvident DEF EvidentInv
<1>3. CASE Bundle
  <2>1. /\ pc' = "analyse" /\ records' = records
        /\ bundle' = BuildDataBundle(EnrichWithIndicators(records))
        /\ citations' = Cite(citations, bundle')
    BY <1>3 DEF Bundle, Goto
  <2>2. Prices' = Prices
    BY <2>1 DEF Prices
  <2>3. ASSUME NEW r \in ToSet(bundle') PROVE FromPrices(r)'
    <3>1. FromPrices(r)
      BY <2>1, BundleFrom DEF CollectInv
    <3>2. QED
      BY <2>2, <3>1 DEF FromPrices
  <2>4. Ids(bundle') \subseteq DOMAIN citations'
    BY <2>1 DEF Cite
  <2>5. QED
    BY <2>1, <2>3, <2>4 DEF EvidentInv
<1>4. CASE Analyse
  <2>1. pc = "analyse" /\ UNCHANGED <<pc, bundle, records>>
    BY <1>4 DEF Analyse
  <2>2. citations' = Cite(citations, SkillDataBundle(Skills[skill]))
    BY <1>4 DEF Analyse
  <2>3. DOMAIN citations \subseteq DOMAIN citations'
    BY <2>2 DEF Cite
  <2>4. Prices' = Prices
    BY <2>1 DEF Prices
  <2>5. QED
    BY <2>1, <2>3, <2>4 DEF EvidentInv, FromPrices, Ids
<1>5. CASE Finish \/ Fail
  <2>1. pc' = "done" /\ UNCHANGED <<bundle, records, citations>>
    BY <1>5 DEF Finish, Fail, Goto
  <2>2. QED
    BY <1>1, <2>1
<1>6. CASE Browser \/ UNCHANGED vars
  <2>1. UNCHANGED <<pc, bundle, records, citations>>
    BY <1>6 DEF Browser, vars, collectVars, evidenceVars
  <2>2. QED
    BY <1>1, <2>1
<1>7. QED
  BY <1>2, <1>3, <1>4, <1>5, <1>6 DEF Next

LEMMA InitEvident == ASSUME Init PROVE EvidentInv
<1>1. pc = "prepare" /\ bundle = <<>> /\ citations = <<>>
  BY DEF Init, Begin
<1>2. QED
  BY <1>1, NothingEvident DEF EvidentInv

\* What a run tells of its prices and of its statements is made of those it recorded.
THEOREM EvidenceIsOfTheRecords == Spec => [](PricesInv /\ ValueInv /\ EvidentInv)
<1>1. Init => PricesInv /\ ValueInv /\ EvidentInv
  BY InitPrices, ValueInit, InitEvident
<1>2. /\ CollectInv /\ RecordsInv /\ PricesInv /\ ValueInv /\ EvidentInv /\ [Next]_vars
      => (PricesInv /\ ValueInv /\ EvidentInv)'
  BY StepPrices, StepValues, StepEvident
<1>3. QED
  BY <1>1, <1>2, CollectionHolds, SkillsAreServed, PTL DEF Spec

\* An average is among the prices it is of, the drawdown is the deepest fall, and both
\* computations of the strength index agree, of any series (workflows/indicators.py,
\* evidence/patterns.py); and the ratios of the profile are those of the latest
\* statement (vnstock.py).
THEOREM FiguresAreRight == Spec => []FiguresAgree
<1>1. ASSUME EvidentInv, NEW r \in Evident("indicator")
      PROVE  /\ GoodSeries(Prices)
             /\ r.payload = Computed!ComputeIndicators(Prices)
             /\ Closes(Prices) \in Seq(Int) /\ Closes(Prices) # <<>>
             /\ \A i \in 1..Len(Closes(Prices)) : Closes(Prices)[i] \in Nat \ {0}
  <2>1. GoodSeries(Prices) /\ r.payload = Computed!ComputeIndicators(Prices)
    BY <1>1 DEF Evident, EvidentInv, FromPrices
  <2>2. QED
    BY <2>1, ClosesBetween
<1>2. EvidentInv => AveragesAmongPrices
  <2>1. SUFFICES ASSUME EvidentInv, NEW r \in Evident("indicator"),
                        NEW a \in {r.payload.sma20, r.payload.sma50, r.payload.ema10,
                                   r.payload.ema12, r.payload.ema26, r.payload.vwma20} \ {Null}
                 PROVE  /\ a >= Milli * Lowest(Closes(Prices)) - Len(Closes(Prices))
                        /\ a <= Milli * Highest(Closes(Prices))
    BY DEF AveragesAmongPrices
  <2>2. QED
    BY <1>1, <2>1, AveragesLie
<1>3. EvidentInv => DrawdownIsWorstFall
  <2> SUFFICES ASSUME EvidentInv, NEW r \in Evident("indicator")
               PROVE  LET c == Closes(Prices)
                          falls == UNION {{Computed!Drop(c[i], c[k]) : k \in i..Len(c)} :
                                            i \in DOMAIN c}
                      IN /\ r.payload.max_drawdown \in falls
                         /\ \A fall \in falls : fall <= r.payload.max_drawdown
                         /\ r.payload.current_drawdown <= r.payload.max_drawdown
    BY DEF DrawdownIsWorstFall
  <2> DEFINE c == Closes(Prices)
             m == Len(c)
             falls == UNION {{Computed!Drop(c[i], c[k]) : k \in i..m} : i \in DOMAIN c}
             worst == r.payload.max_drawdown
             current == r.payload.current_drawdown
  <2>1. /\ c \in Seq(Int) /\ c # <<>> /\ \A i \in 1..m : c[i] \in Nat \ {0}
        /\ worst = Computed!MaxDrawdown(c).worst /\ current = Computed!MaxDrawdown(c).current
    BY <1>1, ComputedAverages
  <2>2. DOMAIN c = 1..m /\ m \in Nat
    BY <2>1
  <2> HIDE DEF c, worst, current
  <2>3. /\ \E j, k \in 1..m : j <= k /\ worst = Fall(c, j, k)
        /\ \A j, k \in 1..m : j <= k => Fall(c, j, k) <= worst
        /\ current <= worst
    BY <2>1, DrawdownIs
  <2>4. \A x : x \in falls <=> \E j, k \in 1..m : j <= k /\ x = Fall(c, j, k)
    <3>1. \A j \in 1..m : \A k : k \in j..m <=> k \in 1..m /\ j <= k
      BY <2>2
    <3>2. \A j, k : Fall(c, j, k) = Computed!Drop(c[j], c[k])
      BY DEF Fall
    <3> HIDE DEF m
    <3>3. \A x : x \in falls <=> \E j \in 1..m : \E k \in j..m : x = Computed!Drop(c[j], c[k])
      BY <2>2
    <3> HIDE DEF falls
    <3>4. QED
      BY <3>1, <3>2, <3>3
  <2> HIDE DEF falls
  <2>5. worst \in falls /\ \A fall \in falls : fall <= worst
    BY <2>3, <2>4
  <2>6. QED
    BY <2>3, <2>5 DEF falls, worst, current, c
<1>4. EvidentInv => StrengthAgrees
  <2>1. SUFFICES ASSUME EvidentInv, NEW r \in Evident("indicator")
                 PROVE  Last(Setups!RsiSeries(Closes(Prices), 14)) = r.payload.rsi14
    BY DEF StrengthAgrees
  <2>2. r.payload.rsi14 = Computed!Rsi(Closes(Prices), 14)
    BY <1>1, <2>1, ComputedAverages
  <2>3. QED
    BY <1>1, <2>1, <2>2, StrengthsAgree
<1>5. ValueInv /\ EvidentInv => FiguresAgree
  BY <1>2, <1>3, <1>4, Valued DEF FiguresAgree
<1>6. QED
  BY <1>5, EvidenceIsOfTheRecords, PTL

--------------------------------------------------------------------------------
(* The chart.                                                                   *)

\* Quotients of numbers a divisor apart are apart.
LEMMA QuotientsApart ==
  ASSUME NEW a \in Int, NEW c \in Int, NEW b \in Nat \ {0}, a + b <= c
  PROVE  a \div b < c \div b
<1> DEFINE q == a \div b
           r == c \div b
<1>1. q \in Int /\ b * q <= a /\ r \in Int /\ c < b * (r + 1)
  BY QuotientIs
<1> HIDE DEF q, r
<1>2. SUFFICES ASSUME r <= q PROVE FALSE
  BY <1>1 DEF q, r
<1>3. b * (r + 1) <= b * (q + 1) /\ b * (q + 1) = b * q + b
  <2>1. b * (r + 1) <= b * (q + 1)
    BY <1>1, <1>2, TimesMonotone
  <2>2. b * (q + 1) = b * q + b
    BY <1>1
  <2>3. QED
    BY <2>1, <2>2
<1>4. b * q \in Int /\ b * (r + 1) \in Int
  BY <1>1, Products
<1>5. QED
  BY <1>1, <1>3, <1>4

\* Where the rounded quotient of a growing number lies: from 0 to k, and each step of k
\* apart when the divisor is not above k.
LEMMA Scaled ==
  ASSUME NEW k \in Nat, NEW b \in Nat \ {0}, NEW i \in 0..b
  PROVE  Drawn!Nearest(k * i, b) \in 0..k
<1>1. PICK a, e : a = k * i /\ e = k * b
  OBVIOUS
<1>2. a \in Int /\ e \in Int /\ 0 <= a /\ a <= e
  <2>1. i * k <= b * k /\ k * i = i * k /\ k * b = b * k
    BY TimesMonotone
  <2>2. 0 <= k * i /\ k * i \in Int /\ k * b \in Int
    OBVIOUS
  <2>3. QED
    BY <1>1, <2>1, <2>2
<1>3. PICK d, t, q : d = 2 * b /\ t = 2 * a + b /\ q = t \div d
  OBVIOUS
<1>4. d \in Nat \ {0} /\ t \in Int /\ 0 <= t /\ t < 2 * e + d
  BY <1>2, <1>3
<1>5. q \in Int /\ d * q <= t /\ t < d * (q + 1)
  BY <1>3, <1>4, QuotientIs
<1>6. 0 <= q
  <2>1. SUFFICES ASSUME q + 1 <= 0 PROVE FALSE
    BY <1>5
  <2>2. d * (q + 1) <= d * 0 /\ d * 0 = 0 /\ d * (q + 1) \in Int
    BY <1>4, <1>5, <2>1, TimesMonotone
  <2>3. QED
    BY <1>4, <1>5, <2>2
<1>7. q <= k
  <2>1. SUFFICES ASSUME k + 1 <= q PROVE FALSE
    BY <1>5
  <2>2. d * (k + 1) <= d * q /\ d * (k + 1) \in Int /\ d * q \in Int
    BY <1>4, <1>5, <2>1, TimesMonotone, Products
  <2>3. d * (k + 1) = 2 * e + d
    BY <1>1, <1>3
  <2>4. QED
    BY <1>2, <1>4, <1>5, <2>2, <2>3
<1>8. Drawn!Nearest(k * i, b) = q
  BY <1>1, <1>3 DEF Drawn!Nearest
<1>9. QED
  BY <1>5, <1>6, <1>7, <1>8

LEMMA ScaledApart ==
  ASSUME NEW k \in Nat, NEW b \in Nat \ {0}, b <= k, NEW i \in Nat, NEW j \in Nat, i < j
  PROVE  Drawn!Nearest(k * i, b) < Drawn!Nearest(k * j, b)
<1>1. PICK a, c : a = k * i /\ c = k * j
  OBVIOUS
<1>2. a \in Int /\ c \in Int /\ a + k <= c
  <2>1. (i + 1) * k <= j * k /\ (i + 1) * k = k * i + k /\ j * k = k * j
    BY TimesMonotone
  <2>2. k * i \in Int /\ k * j \in Int
    OBVIOUS
  <2>3. QED
    BY <1>1, <2>1, <2>2
<1>3. PICK d, t, u : d = 2 * b /\ t = 2 * a + b /\ u = 2 * c + b
  OBVIOUS
<1>4. d \in Nat \ {0} /\ t \in Int /\ u \in Int /\ t + d <= u
  BY <1>2, <1>3
<1>5. t \div d < u \div d
  BY <1>4, QuotientsApart
<1>6. QED
  BY <1>1, <1>3, <1>5 DEF Drawn!Nearest

\* The left and the foot of the frame; Reach and Rise are its width and its height.
Left == Drawn!Padding * Drawn!Tenths
Foot == (Drawn!Height - Drawn!Padding) * Drawn!Tenths

LEMMA FrameSides ==
  /\ Left \in Nat /\ Foot \in Nat /\ Reach \in Nat \ {0} /\ Rise \in Nat \ {0}
  /\ Left = Foot - Rise
  /\ \A p : Drawn!InFrame(p) <=> p.x \in Left..(Left + Reach) /\ p.y \in Left..Foot
<1>1. /\ Left \in Nat /\ Foot \in Nat /\ Reach \in Nat \ {0} /\ Rise \in Nat \ {0}
      /\ (Drawn!Width - Drawn!Padding) * Drawn!Tenths = Left + Reach
      /\ Left = Foot - Rise
  BY SMT DEF Left, Foot, Reach, Rise, Drawn!Tenths, Drawn!Width, Drawn!Height, Drawn!Padding
<1>2. Left = Drawn!Padding * Drawn!Tenths /\ Foot = (Drawn!Height - Drawn!Padding) * Drawn!Tenths
  BY DEF Left, Foot
<1>3. QED
  BY <1>1, <1>2, Zenon DEF Drawn!InFrame

\* A point of the picture, when the steps and the span are at least one.
LEMMA PointIs ==
  ASSUME NEW c \in Seq(Int), c # <<>>, NEW i \in 1..Len(c)
  PROVE  LET steps == Max({Len(c) - 1, 1})
             span == Max({Highest(c) - Lowest(c), 1})
         IN /\ Drawn!Point(c, i).x = Left + Drawn!Nearest(Reach * (i - 1), steps)
            /\ Drawn!Point(c, i).y = Foot - Drawn!Nearest(Rise * (c[i] - Lowest(c)), span)
<1>1. \A S : Drawn!Max(S) = Max(S) /\ Drawn!Min(S) = Min(S)
  BY DEF Drawn!Max, Max, Drawn!Min, Min
<1>2. Drawn!ToSet(c) = ToSet(c)
  BY DEF Drawn!ToSet, ToSet
<1>3. Drawn!Highest(c) = Highest(c) /\ Drawn!Lowest(c) = Lowest(c)
  BY <1>1, <1>2 DEF Drawn!Highest, Highest, Drawn!Lowest, Lowest
<1>4. Highest(c) \in Int /\ Lowest(c) \in Int /\ c[i] \in Int /\ Len(c) \in Nat
  BY HighestIs, LowestIs
<1>5. PICK steps, span : /\ steps = Max({Len(c) - 1, 1})
                         /\ span = Max({Highest(c) - Lowest(c), 1})
  OBVIOUS
<1>6. /\ Drawn!Point(c, i).x
           = Left + Drawn!Nearest((i - 1) * Drawn!Tenths * (Drawn!Width - 2 * Drawn!Padding),
                                  steps)
      /\ Drawn!Point(c, i).y
           = Foot - Drawn!Nearest(Drawn!Tenths * (c[i] - Lowest(c))
                                    * (Drawn!Height - 2 * Drawn!Padding), span)
  BY <1>1, <1>3, <1>5 DEF Drawn!Point, Left, Foot
<1>7. /\ (i - 1) * Drawn!Tenths * (Drawn!Width - 2 * Drawn!Padding) = Reach * (i - 1)
      /\ Drawn!Tenths * (c[i] - Lowest(c)) * (Drawn!Height - 2 * Drawn!Padding)
           = Rise * (c[i] - Lowest(c))
  BY <1>4, SMT DEF Reach, Rise, Drawn!Tenths, Drawn!Width, Drawn!Height, Drawn!Padding
<1>8. QED
  BY <1>5, <1>6, <1>7

LEMMA PointsIn ==
  ASSUME NEW c \in Seq(Int), c # <<>>, Fits(c)
  PROVE  /\ \A i \in 1..Len(c) : Drawn!InFrame(Drawn!Point(c, i))
         /\ \A i \in 2..Len(c) : Drawn!Point(c, i - 1).x < Drawn!Point(c, i).x
         /\ \A i, k \in 1..Len(c) :
              c[i] < c[k] => Drawn!Point(c, i).y > Drawn!Point(c, k).y
<1> DEFINE n == Len(c)
           lo == Lowest(c)
           hi == Highest(c)
           steps == Max({n - 1, 1})
           span == Max({hi - lo, 1})
<1>1. /\ n \in Nat \ {0} /\ lo \in Int /\ hi \in Int
      /\ \A i \in 1..n : c[i] \in Int /\ lo <= c[i] /\ c[i] <= hi
  BY HighestIs, LowestIs
<1>2. n - 1 <= Reach /\ hi - lo <= Rise
  <2>1. PICK i \in 1..n : hi = c[i]
    BY HighestIs
  <2>2. PICK k \in 1..n : lo = c[k]
    BY LowestIs
  <2>3. DOMAIN c = 1..n
    OBVIOUS
  <2> HIDE DEF n, hi, lo
  <2>4. c[i] - c[k] <= Rise
    BY <2>3 DEF Fits
  <2>5. n - 1 <= Reach
    BY DEF Fits, n
  <2>6. QED
    BY <2>1, <2>2, <2>4, <2>5
<1>3. ASSUME NEW i \in 1..n
      PROVE  /\ Drawn!Point(c, i).x = Left + Drawn!Nearest(Reach * (i - 1), steps)
             /\ Drawn!Point(c, i).y = Foot - Drawn!Nearest(Rise * (c[i] - lo), span)
  BY PointIs
<1> HIDE DEF n, lo, hi
<1>4. steps \in Nat \ {0} /\ n - 1 <= steps /\ steps <= Reach
  <2>1. n - 1 \in Int /\ 1 \in Int
    BY <1>1
  <2>2. steps \in {n - 1, 1} /\ n - 1 <= steps /\ 1 <= steps
    BY <2>1, MaxOfTwo
  <2>3. QED
    BY <1>1, <1>2, <2>2, FrameSides
<1>5. span \in Nat \ {0} /\ hi - lo <= span /\ span <= Rise
  <2>1. hi - lo \in Int /\ 1 \in Int
    BY <1>1
  <2>2. span \in {hi - lo, 1} /\ hi - lo <= span /\ 1 <= span
    BY <2>1, MaxOfTwo
  <2>3. QED
    BY <1>1, <1>2, <2>2, FrameSides
<1> HIDE DEF steps, span
<1>6. ASSUME NEW i \in 1..n
      PROVE  /\ i - 1 \in 0..steps /\ c[i] - lo \in 0..span
             /\ Drawn!Nearest(Reach * (i - 1), steps) \in 0..Reach
             /\ Drawn!Nearest(Rise * (c[i] - lo), span) \in 0..Rise
  <2>1. i - 1 \in 0..steps /\ c[i] - lo \in 0..span
    BY <1>1, <1>4, <1>5
  <2>2. PICK a, b : a = i - 1 /\ b = c[i] - lo
    OBVIOUS
  <2>3. Drawn!Nearest(Reach * a, steps) \in 0..Reach
    BY <1>4, <2>1, <2>2, Scaled, FrameSides
  <2>4. Drawn!Nearest(Rise * b, span) \in 0..Rise
    BY <1>5, <2>1, <2>2, Scaled, FrameSides
  <2>5. QED
    BY <2>1, <2>2, <2>3, <2>4
<1>7. ASSUME NEW i \in 1..n
      PROVE  Drawn!InFrame(Drawn!Point(c, i))
  <2>1. PICK p, q : /\ p = Drawn!Nearest(Reach * (i - 1), steps) /\ p \in 0..Reach
                    /\ q = Drawn!Nearest(Rise * (c[i] - lo), span) /\ q \in 0..Rise
    BY <1>6
  <2>2. Drawn!Point(c, i).x = Left + p /\ Drawn!Point(c, i).y = Foot - q
    BY <1>3, <2>1
  <2>3. Drawn!Point(c, i).x \in Left..(Left + Reach) /\ Drawn!Point(c, i).y \in Left..Foot
    <3>1. PICK l, f : l = Left /\ f = Foot
      OBVIOUS
    <3>2. l \in Nat /\ f \in Nat /\ Reach \in Nat /\ Rise \in Nat /\ l = f - Rise
      BY <3>1, FrameSides
    <3>3. PICK w, h : w = Reach /\ h = Rise
      OBVIOUS
    <3>4. /\ w \in Nat /\ h \in Nat /\ f - h = l
          /\ p \in Int /\ 0 <= p /\ p <= w
          /\ q \in Int /\ 0 <= q /\ q <= h
      BY <2>1, <3>2, <3>3
    <3>5. l + p \in l..(l + w) /\ f - q \in l..f
      BY <3>2, <3>4
    <3>6. QED
      BY <2>2, <3>1, <3>3, <3>5
  <2>4. QED
    BY <2>3, FrameSides
<1>8. ASSUME NEW i \in 2..n
      PROVE  Drawn!Point(c, i - 1).x < Drawn!Point(c, i).x
  <2>1. i \in 1..n /\ i - 1 \in 1..n
    BY <1>1
  <2>2. PICK a, b : a = (i - 1) - 1 /\ b = i - 1
    OBVIOUS
  <2>3. a \in Nat /\ b \in Nat /\ a < b
    BY <1>1, <2>2
  <2>4. PICK p, q : p = Drawn!Nearest(Reach * a, steps) /\ q = Drawn!Nearest(Reach * b, steps)
    OBVIOUS
  <2>5. p < q
    BY <1>4, <2>3, <2>4, ScaledApart, FrameSides
  <2>6. Drawn!Point(c, i - 1).x = Left + p /\ Drawn!Point(c, i).x = Left + q
    BY <1>3, <2>1, <2>2, <2>4
  <2>7. p \in Int /\ q \in Int
    BY <1>6, <2>1, <2>2, <2>4
  <2>8. QED
    BY <2>5, <2>6, <2>7, FrameSides
<1>9. ASSUME NEW i \in 1..n, NEW k \in 1..n, c[i] < c[k]
      PROVE  Drawn!Point(c, i).y > Drawn!Point(c, k).y
  <2>1. PICK a, b : a = c[i] - lo /\ b = c[k] - lo
    OBVIOUS
  <2>2. a \in Nat /\ b \in Nat /\ a < b
    <3>1. PICK x, y : x = c[i] /\ y = c[k]
      OBVIOUS
    <3>2. c[i] \in Int /\ lo <= c[i] /\ c[k] \in Int
      BY <1>1
    <3>3. x \in Int /\ y \in Int /\ lo <= x /\ x < y
      BY <1>9, <3>1, <3>2
    <3>4. lo \in Int /\ a = x - lo /\ b = y - lo
      BY <1>1, <2>1, <3>1
    <3>5. QED
      BY <3>3, <3>4
  <2>3. PICK p, q : p = Drawn!Nearest(Rise * a, span) /\ q = Drawn!Nearest(Rise * b, span)
    OBVIOUS
  <2>4. p < q
    BY <1>5, <2>2, <2>3, ScaledApart, FrameSides
  <2>5. Drawn!Point(c, i).y = Foot - p /\ Drawn!Point(c, k).y = Foot - q
    BY <1>3, <2>1, <2>3
  <2>6. p \in Int /\ q \in Int
    BY <1>6, <2>1, <2>3
  <2>7. QED
    BY <2>4, <2>5, <2>6, FrameSides
<1>10. QED
  BY <1>7, <1>8, <1>9 DEF n

\* What is drawn and what is written of a series.
LEMMA ReadyChart ==
  ASSUME NEW s, GoodSeries(s), Fits(Closes(s)), NEW prices, prices # <<>>,
         Head(prices).payload = s, NEW refs,
         NEW chart, chart = Drawn!BuildPriceTrendChart(prices, refs)
  PROVE  LET rows == Drawn!ChartCsv(chart)
             svg == Drawn!ChartSvg(chart)
         IN /\ chart.status = "ready" /\ chart.refs = refs
            /\ DOMAIN rows = DOMAIN s
            /\ \A i \in DOMAIN rows : rows[i].date = s[i].date /\ rows[i].close = s[i].close
            /\ DOMAIN svg = DOMAIN s
            /\ \A i \in DOMAIN svg :
                 /\ Drawn!InFrame(svg[i])
                 /\ i > 1 => svg[i - 1].x < svg[i].x
            /\ \A i, k \in DOMAIN s : s[i].close < s[k].close => svg[i].y > svg[k].y
<1> DEFINE c == Closes(s)
           rows == Drawn!ChartCsv(chart)
           svg == Drawn!ChartSvg(chart)
           line == [i \in DOMAIN s |-> [date |-> s[i].date, value |-> s[i].close]]
<1>1. /\ s # <<>> /\ DOMAIN s = 1..Len(s) /\ Len(s) \in Nat \ {0}
      /\ c \in Seq(Int) /\ c # <<>> /\ Len(c) = Len(s) /\ DOMAIN c = DOMAIN s
      /\ \A i \in DOMAIN s : c[i] = s[i].close
  BY SeriesValues DEF GoodSeries
<1>2. /\ chart.status = "ready" /\ chart.refs = refs /\ chart.line = line
      /\ chart.candles = [i \in DOMAIN s |-> Drawn!Candle(s[i])]
  BY <1>1 DEF Drawn!BuildPriceTrendChart
<1>3. rows = [i \in DOMAIN s |-> Drawn!Candle(s[i])]
  BY <1>2 DEF Drawn!ChartCsv
<1>4. \A i \in DOMAIN s : rows[i].date = s[i].date /\ rows[i].close = s[i].close
  BY <1>3 DEF Drawn!Candle
<1>5. svg = [i \in DOMAIN c |-> Drawn!Point(c, i)]
  <2>1. line # <<>>
    <3>1. DOMAIN line # {} /\ DOMAIN <<>> = {}
      BY <1>1
    <3>2. QED
      BY <3>1
  <2>2. [i \in DOMAIN line |-> line[i].value] = c
    BY DEF Closes
  <2>3. QED
    BY <1>2, <2>1, <2>2 DEF Drawn!ChartSvg
<1> HIDE DEF c, rows, svg
<1>6. /\ \A i \in 1..Len(s) : Drawn!InFrame(Drawn!Point(c, i))
      /\ \A i \in 2..Len(s) : Drawn!Point(c, i - 1).x < Drawn!Point(c, i).x
      /\ \A i, k \in 1..Len(s) : c[i] < c[k] => Drawn!Point(c, i).y > Drawn!Point(c, k).y
  BY <1>1, PointsIn DEF c
<1>7. DOMAIN svg = DOMAIN s /\ \A i \in DOMAIN s : svg[i] = Drawn!Point(c, i)
  BY <1>1, <1>5
<1>8. ASSUME NEW i \in DOMAIN s, i > 1 PROVE svg[i - 1].x < svg[i].x
  <2>1. i \in 2..Len(s) /\ i - 1 \in DOMAIN s
    BY <1>1, <1>8
  <2>2. QED
    BY <1>6, <1>7, <2>1
<1>9. \A i \in DOMAIN svg :
        /\ Drawn!InFrame(svg[i])
        /\ i > 1 => svg[i - 1].x < svg[i].x
  BY <1>1, <1>6, <1>7, <1>8
<1>10. \A i, k \in DOMAIN s : s[i].close < s[k].close => svg[i].y > svg[k].y
  BY <1>1, <1>6, <1>7
<1>11. DOMAIN rows = DOMAIN s
  BY <1>3
<1>12. QED
  BY <1>2, <1>4, <1>7, <1>9, <1>10, <1>11 DEF rows, svg

--------------------------------------------------------------------------------
\* Without a series the chart is there, and empty: no row, and the one point of a zero.
LEMMA EmptyChart ==
  ASSUME NEW prices, prices = <<>>, NEW refs,
         NEW chart, chart = Drawn!BuildPriceTrendChart(prices, refs)
  PROVE  LET svg == Drawn!ChartSvg(chart)
         IN /\ chart.status = "unavailable" /\ chart.refs = {}
            /\ DOMAIN Drawn!ChartCsv(chart) = {}
            /\ DOMAIN svg = {1} /\ Drawn!InFrame(svg[1])
<1> DEFINE c == <<0>>
<1>1. /\ chart.status = "unavailable" /\ chart.refs = {} /\ chart.line = <<>>
      /\ chart.candles = <<>>
  BY DEF Drawn!BuildPriceTrendChart, Drawn!Unavailable
<1>2. c \in Seq(Int) /\ c # <<>> /\ Len(c) = 1 /\ DOMAIN c = {1} /\ c[1] = 0
  OBVIOUS
<1>3. Drawn!ChartSvg(chart) = [i \in DOMAIN c |-> Drawn!Point(c, i)]
  BY <1>1 DEF Drawn!ChartSvg
<1> HIDE DEF c
<1>4. Fits(c)
  <2>1. Len(c) - 1 <= Reach
    BY <1>2, FrameSides
  <2>2. ASSUME NEW i \in DOMAIN c, NEW k \in DOMAIN c PROVE c[i] - c[k] <= Rise
    <3>1. i = 1 /\ k = 1
      BY <1>2
    <3>2. QED
      BY <1>2, <3>1, FrameSides
  <2>3. QED
    BY <2>1, <2>2 DEF Fits
<1>5. \A i \in 1..Len(c) : Drawn!InFrame(Drawn!Point(c, i))
  BY <1>2, <1>4, PointsIn
<1>6. DOMAIN <<>> = {}
  OBVIOUS
<1>7. QED
  BY <1>1, <1>2, <1>3, <1>5, <1>6 DEF Drawn!ChartCsv

\* There is no chart before the end of a run, and then it is drawn of the records and
\* the citations the run ends with.
DrawnInv ==
  \/ artifacts = <<>>
  \/ /\ pc = "done"
     /\ artifacts = <<Drawn!BuildPriceTrendChart(PriceRecordsOf(records), DOMAIN citations)>>

LEMMA StepDrawn ==
  ASSUME DrawnInv, [Next]_vars
  PROVE  DrawnInv'
<1>1. CASE UNCHANGED <<artifacts, pc, records, citations>>
  BY <1>1 DEF DrawnInv
<1>2. CASE Collect \/ Bundle \/ Analyse \/ Fail
  <2>1. pc # "done" /\ artifacts' = artifacts
    BY <1>2 DEF Collect, CollectNext, Reject, Plan, NoProvider, Unavailable, FetchPrices,
                FetchOverview, FetchFundamentals, FetchProfile, EndFetch, Collected,
                Bundle, Analyse, Fail
  <2>2. QED
    BY <2>1 DEF DrawnInv
<1>3. CASE Finish
  <2>1. /\ pc' = "done" /\ UNCHANGED <<records, citations>>
        /\ artifacts' = <<Drawn!BuildPriceTrendChart(PriceRecordsOf(records), DOMAIN citations)>>
    BY <1>3 DEF Finish, Goto
  <2>2. QED
    BY <2>1 DEF DrawnInv
<1>4. CASE Browser \/ UNCHANGED vars
  BY <1>1, <1>4 DEF Browser, vars, collectVars, evidenceVars
<1>5. QED
  BY <1>2, <1>3, <1>4 DEF Next

\* A chart is of the series of the records, and its sources are cited.
ChartOf(chart) ==
  LET rows == Drawn!ChartCsv(chart)
      svg == Drawn!ChartSvg(chart)
      drawn == {[close |-> Prices[i].close, y |-> svg[i].y] : i \in DOMAIN Prices}
  IN /\ (chart.status = "ready") = (Prices # <<>>)
     /\ DOMAIN rows = DOMAIN Prices
     /\ \A i \in DOMAIN rows : /\ rows[i].date = Prices[i].date
                               /\ rows[i].close = Prices[i].close
     /\ \A i \in DOMAIN svg :
          /\ Drawn!InFrame(svg[i])
          /\ i > 1 => svg[i - 1].x < svg[i].x
     /\ \A a, b \in drawn : a.close < b.close => a.y > b.y
     /\ chart.refs \subseteq DOMAIN citations
     /\ chart.status = "ready" =>
          \A r \in ToSet(bundle) : r.type = "price_series" => r.id \in chart.refs

LEMMA CitedByTheChart ==
  ASSUME EvidentInv, NEW r \in ToSet(bundle)
  PROVE  r.id \in DOMAIN citations
<1>1. r.id \in Ids(bundle)
  BY DEF Ids, ToSet
<1>2. QED
  BY <1>1 DEF EvidentInv

LEMMA ChartIs ==
  ASSUME PricesInv, EvidentInv, IsSeq(records),
         Prices # <<>> => Fits(Closes(Prices)),
         NEW chart,
         chart = Drawn!BuildPriceTrendChart(PriceRecordsOf(records), DOMAIN citations)
  PROVE  ChartOf(chart)
<1> DEFINE rows == Drawn!ChartCsv(chart)
           svg == Drawn!ChartSvg(chart)
           drawn == {[close |-> Prices[i].close, y |-> svg[i].y] : i \in DOMAIN Prices}
           prices == PriceRecordsOf(records)
           refs == DOMAIN citations
<1>1. CASE prices = <<>>
  <2>1. Prices = <<>> /\ DOMAIN Prices = {}
    <3>1. Prices = <<>>
      BY <1>1, PricesAre
    <3>2. DOMAIN <<>> = {}
      OBVIOUS
    <3>3. QED
      BY <3>1, <3>2
  <2>2. /\ chart.status = "unavailable" /\ chart.refs = {}
        /\ DOMAIN rows = {} /\ DOMAIN svg = {1} /\ Drawn!InFrame(svg[1])
    BY <1>1, EmptyChart
  <2> HIDE DEF rows, svg
  <2>3. drawn = {}
    BY <2>1
  <2> HIDE DEF drawn
  <2>4. \A i \in DOMAIN svg : Drawn!InFrame(svg[i]) /\ (i > 1 => svg[i - 1].x < svg[i].x)
    BY <2>2
  <2>5. QED
    BY <2>1, <2>2, <2>3, <2>4 DEF ChartOf, rows, svg, drawn
<1>2. CASE prices # <<>>
  <2>1. Head(prices).payload = Prices /\ GoodSeries(Prices)
    BY <1>2, PricesAre
  <2>2. Prices # <<>> /\ Fits(Closes(Prices))
    BY <2>1 DEF GoodSeries
  <2>3. PICK s : s = Prices
    OBVIOUS
  <2>4. /\ chart.status = "ready" /\ chart.refs = refs
        /\ DOMAIN rows = DOMAIN s
        /\ \A i \in DOMAIN rows : rows[i].date = s[i].date /\ rows[i].close = s[i].close
        /\ DOMAIN svg = DOMAIN s
        /\ \A i \in DOMAIN svg :
             /\ Drawn!InFrame(svg[i])
             /\ i > 1 => svg[i - 1].x < svg[i].x
        /\ \A i, k \in DOMAIN s : s[i].close < s[k].close => svg[i].y > svg[k].y
    BY <1>2, <2>1, <2>2, <2>3, ReadyChart
  <2>5. ASSUME NEW r \in ToSet(bundle) PROVE r.id \in refs
    BY CitedByTheChart
  <2> HIDE DEF rows, svg, refs
  <2>6. ASSUME NEW a \in drawn, NEW b \in drawn, a.close < b.close PROVE a.y > b.y
    <3>1. PICK i \in DOMAIN Prices : a = [close |-> Prices[i].close, y |-> svg[i].y]
      OBVIOUS
    <3>2. PICK k \in DOMAIN Prices : b = [close |-> Prices[k].close, y |-> svg[k].y]
      OBVIOUS
    <3>3. /\ a.close = Prices[i].close /\ a.y = svg[i].y
          /\ b.close = Prices[k].close /\ b.y = svg[k].y
      BY <3>1, <3>2
    <3>4. QED
      BY <2>3, <2>4, <2>6, <3>3
  <2> HIDE DEF drawn
  <2>7. QED
    BY <2>2, <2>3, <2>4, <2>5, <2>6 DEF ChartOf, rows, svg, drawn, refs
<1>3. QED
  BY <1>1, <1>2

\* The chart and its files are the series the run collected: a row for each bar, a
\* picture that lies in its frame and is the higher the higher the close, and the
\* citations of the run (artifacts.py, routes/artifacts.py).
THEOREM ChartsAreTheSeries ==
  ASSUME FitsTheFrame
  PROVE  Spec => []ChartIsTheSeries
<1>1. Init => DrawnInv
  BY DEF Init, DrawnInv
<1>2. DrawnInv /\ [Next]_vars => DrawnInv'
  BY StepDrawn
<1>3. CollectInv /\ PricesInv /\ EvidentInv /\ DrawnInv => ChartIsTheSeries
  <2> SUFFICES ASSUME CollectInv, PricesInv, EvidentInv, DrawnInv,
                      NEW chart \in ToSet(artifacts)
               PROVE  ChartOf(chart)
    BY DEF ChartIsTheSeries, ChartOf
  <2>1. chart = Drawn!BuildPriceTrendChart(PriceRecordsOf(records), DOMAIN citations)
    BY NothingEvident, OneMember DEF DrawnInv
  <2>2. ASSUME Prices # <<>> PROVE Fits(Closes(Prices))
    <3>1. Prices = PriceSeries(market.price) /\ market.price # Raised
      BY <2>2, PricesAre DEF CollectInv
    <3>2. PICK case \in Cases : market = case.market
      BY DEF CollectInv
    <3>3. QED
      BY <3>1, <3>2 DEF FitsTheFrame
  <2>3. QED
    BY <2>1, <2>2, ChartIs DEF CollectInv
<1>4. QED
  BY <1>1, <1>2, <1>3, CollectionHolds, EvidenceIsOfTheRecords, PTL DEF Spec

--------------------------------------------------------------------------------
(* The double bottom.                                                           *)

\* The pattern rules read the series as the rest does.
LEMMA SetupsHelpers ==
  /\ \A b : Setups!LowOf(b) = LowOf(b) /\ Setups!HighOf(b) = HighOf(b)
  /\ \A S : Setups!Max(S) = Max(S) /\ Setups!Min(S) = Min(S) /\ Setups!ToSet(S) = ToSet(S)
  /\ \A s, I : Setups!Picked(s, I) = Picked(s, I)
<1>1. \A b : Setups!LowOf(b) = LowOf(b) /\ Setups!HighOf(b) = HighOf(b)
  BY DEF Setups!LowOf, LowOf, Setups!HighOf, HighOf, Setups!Or, Or
<1>2. \A S : Setups!Max(S) = Max(S) /\ Setups!Min(S) = Min(S) /\ Setups!ToSet(S) = ToSet(S)
  BY DEF Setups!Max, Max, Setups!Min, Min, Setups!ToSet, ToSet
<1>3. ASSUME NEW s, NEW I PROVE Setups!Picked(s, I) = Picked(s, I)
  BY DEF Setups!Picked, Picked
<1>4. QED
  BY <1>1, <1>2, <1>3

\* The swing points: the indexes of a set, from the first to the last.
Indexes(s) == [i \in DOMAIN s |-> i]

LEMMA IndexesPicked ==
  ASSUME NEW n \in Nat, NEW s, DOMAIN s = 1..n, NEW I \in SUBSET (1..n),
         NEW p, p = Picked(Indexes(s), I)
  PROVE  /\ p \in Seq(Int) /\ Len(p) \in Nat /\ DOMAIN p = 1..Len(p)
         /\ \A j \in 1..Len(p) : p[j] \in I
         /\ \A j, k \in 1..Len(p) : j < k => p[j] < p[k]
         /\ \A i \in I : \E j \in 1..Len(p) : p[j] = i
<1> DEFINE id == [i \in 1..n |-> i]
<1>1. id \in Seq(Int) /\ Len(id) = n /\ \A i \in 1..n : id[i] = i
  OBVIOUS
<1>2. p = Picked(id, I)
  BY DEF Indexes
<1> HIDE DEF id
<1>3. p \in Seq(Int) /\ Picks(p, id, I, n)
  BY <1>1, <1>2, PickedElements
<1>4. PICK at : PicksAt(at, p, id, I, n)
  BY <1>3 DEF Picks
<1>5. \A j \in 1..Len(p) : at[j] \in I /\ at[j] \in 1..n /\ p[j] = at[j]
  BY <1>1, <1>4 DEF PicksAt
<1>6. \A j, k \in 1..Len(p) : j < k => p[j] < p[k]
  BY <1>4, <1>5 DEF PicksAt
<1>7. \A i \in I : \E j \in 1..Len(p) : p[j] = i
  BY <1>4, <1>5 DEF PicksAt
<1>8. QED
  BY <1>3, <1>5, <1>6, <1>7

\* Where a bar is a swing low.
Undercut(s) == {i \in 3..(Len(s) - 2) : \A k \in (i - 2)..(i + 2) : LowOf(s[i]) <= LowOf(s[k])}

LEMMA SwingLowsAre ==
  ASSUME NEW s, GoodSeries(s), NEW lows, lows = Setups!SwingLows(s)
  PROVE  /\ lows \in Seq(Int) /\ Len(lows) \in Nat /\ DOMAIN lows = 1..Len(lows)
         /\ \A j \in 1..Len(lows) : lows[j] \in Undercut(s)
         /\ \A j, k \in 1..Len(lows) : j < k => lows[j] < lows[k]
         /\ \A i \in Undercut(s) : \E j \in 1..Len(lows) : lows[j] = i
<1> DEFINE n == Len(s)
           I == {i \in (Setups!Lookback + 1)..(n - Setups!Lookback) : Setups!IsSwingLow(s, i)}
<1>1. n \in Nat /\ DOMAIN s = 1..n
  BY SeriesValues
<1>2. lows = Picked(Indexes(s), I)
  BY SetupsHelpers DEF Setups!SwingLows, Indexes
<1>3. I = Undercut(s)
  <2>1. Setups!Lookback = 2 /\ 2 + 1 = 3
    BY DEF Setups!Lookback
  <2>2. I = {i \in 3..(n - 2) : Setups!IsSwingLow(s, i)}
    BY <2>1
  <2>3. ASSUME NEW i
        PROVE  Setups!IsSwingLow(s, i)
                 <=> \A k \in (i - 2)..(i + 2) : LowOf(s[i]) <= LowOf(s[k])
    BY <2>1, SetupsHelpers DEF Setups!IsSwingLow
  <2> HIDE DEF I
  <2>4. QED
    BY <2>2, <2>3 DEF Undercut
<1>4. I \in SUBSET (1..n)
  BY <1>1, <1>3 DEF Undercut
<1> HIDE DEF I, n
<1>5. /\ lows \in Seq(Int) /\ Len(lows) \in Nat /\ DOMAIN lows = 1..Len(lows)
      /\ \A j \in 1..Len(lows) : lows[j] \in I
      /\ \A j, k \in 1..Len(lows) : j < k => lows[j] < lows[k]
      /\ \A i \in I : \E j \in 1..Len(lows) : lows[j] = i
  BY <1>1, <1>2, <1>4, IndexesPicked
<1>6. QED
  BY <1>3, <1>5

\* Between two swing lows that are next to each other no bar goes below both.
LEMMA LowestBetween ==
  ASSUME NEW s, GoodSeries(s), NEW lows, lows = Setups!SwingLows(s),
         NEW j \in Nat, j \in 1..Len(lows), j + 1 \in 1..Len(lows),
         NEW lower \in Int, lower <= LowOf(s[lows[j]]), lower <= LowOf(s[lows[j + 1]]),
         \/ lower = LowOf(s[lows[j]])
         \/ lower = LowOf(s[lows[j + 1]]),
         NEW k \in lows[j]..lows[j + 1]
  PROVE  LowOf(s[k]) >= lower
<1> DEFINE n == Len(s)
<1>1. /\ n \in Nat \ {0} /\ \A i \in 1..n : LowOf(s[i]) \in Nat
  <2>1. n \in Nat \ {0}
    BY SeriesValues
  <2>2. ASSUME NEW i \in 1..n PROVE LowOf(s[i]) \in Nat
    <3>1. GoodBar(s[i])
      BY DEF GoodSeries
    <3>2. QED
      BY <3>1, BarValues
  <2>3. QED
    BY <2>1, <2>2
<1>2. PICK a, b : a = lows[j] /\ b = lows[j + 1]
  OBVIOUS
<1>3. a \in Undercut(s) /\ b \in Undercut(s) /\ a < b
  BY <1>2, SwingLowsAre
<1>4. /\ a \in 3..(n - 2) /\ b \in 3..(n - 2) /\ a \in Int /\ b \in Int
      /\ \A i \in (a - 2)..(a + 2) : LowOf(s[a]) <= LowOf(s[i])
      /\ \A i \in (b - 2)..(b + 2) : LowOf(s[b]) <= LowOf(s[i])
  BY <1>1, <1>3 DEF Undercut
<1>5. PICK m \in a..b : \A i \in a..b : LowOf(s[m]) <= LowOf(s[i])
  <2> DEFINE f == [x \in 1..(b - a + 1) |-> LowOf(s[a - 1 + x])]
  <2>1. b - a + 1 \in Nat \ {0} /\ \A x \in 1..(b - a + 1) : a - 1 + x \in 1..n
    BY <1>1, <1>3, <1>4
  <2>2. \A x \in 1..(b - a + 1) : f[x] \in Int /\ f[x] = LowOf(s[a - 1 + x])
    BY <1>1, <2>1
  <2> HIDE DEF f
  <2>3. PICK x \in 1..(b - a + 1) : \A y \in 1..(b - a + 1) : f[y] >= f[x]
    BY <2>1, <2>2, Least
  <2>4. a - 1 + x \in a..b
    BY <1>3, <1>4
  <2>5. ASSUME NEW i \in a..b PROVE LowOf(s[a - 1 + x]) <= LowOf(s[i])
    <3>1. i - a + 1 \in 1..(b - a + 1) /\ a - 1 + (i - a + 1) = i
      BY <1>3, <1>4
    <3>2. f[i - a + 1] = LowOf(s[i]) /\ f[x] = LowOf(s[a - 1 + x])
      BY <2>2, <3>1
    <3>3. f[i - a + 1] \in Int /\ f[x] \in Int /\ f[i - a + 1] >= f[x]
      BY <2>2, <2>3, <3>1
    <3>4. QED
      BY <3>2, <3>3
  <2>6. QED
    BY <2>4, <2>5
<1> HIDE DEF n
<1>6. /\ m \in 1..n /\ k \in 1..n /\ a \in 1..n /\ b \in 1..n /\ k \in a..b
  <2>1. k \in a..b
    BY <1>2
  <2>2. a \in 1..n /\ b \in 1..n
    BY <1>1, <1>4
  <2>3. m \in a..b
    BY <1>5
  <2>4. QED
    BY <1>1, <2>1, <2>2, <2>3
<1>7. /\ LowOf(s[m]) \in Nat /\ LowOf(s[k]) \in Nat /\ LowOf(s[a]) \in Nat
      /\ LowOf(s[b]) \in Nat /\ LowOf(s[m]) <= LowOf(s[k])
      /\ lower <= LowOf(s[a]) /\ lower <= LowOf(s[b])
  BY <1>1, <1>2, <1>5, <1>6
<1>8. SUFFICES ASSUME LowOf(s[m]) < lower PROVE FALSE
  BY <1>7
<1>9. a < m /\ m < b /\ m \in Int
  <2>1. m # a /\ m # b
    BY <1>7, <1>8
  <2>2. QED
    BY <1>4, <1>5, <2>1
<1>10. m \in Undercut(s)
  <2>1. m \in 3..(n - 2)
    BY <1>1, <1>4, <1>9
  <2>2. ASSUME NEW i \in (m - 2)..(m + 2) PROVE LowOf(s[m]) <= LowOf(s[i])
    <3>1. i \in 1..n /\ LowOf(s[i]) \in Nat /\ i \in Int
      BY <1>1, <2>1
    <3>2. CASE i \in a..b
      BY <1>5, <3>2
    <3>3. CASE i < a
      <4>1. i \in (a - 2)..(a + 2)
        BY <1>4, <1>9, <3>1, <3>3
      <4>2. LowOf(s[a]) <= LowOf(s[i])
        BY <1>4, <4>1
      <4>3. QED
        BY <1>7, <1>8, <3>1, <4>2
    <3>4. CASE i > b
      <4>1. i \in (b - 2)..(b + 2)
        BY <1>4, <1>9, <3>1, <3>4
      <4>2. LowOf(s[b]) <= LowOf(s[i])
        BY <1>4, <4>1
      <4>3. QED
        BY <1>7, <1>8, <3>1, <4>2
    <3>5. QED
      BY <1>4, <3>1, <3>2, <3>3, <3>4
  <2>3. QED
    BY <2>1, <2>2 DEF Undercut, n
<1>11. PICK l \in 1..Len(lows) : lows[l] = m
  BY <1>10, SwingLowsAre
<1>12. /\ lows \in Seq(Int) /\ Len(lows) \in Nat
       /\ \A x, y \in 1..Len(lows) : x < y => lows[x] < lows[y]
  BY SwingLowsAre
<1>13. \A x \in 1..Len(lows) : lows[x] \in Int
  BY <1>12
<1>14. CASE l <= j
  <2>1. lows[l] <= lows[j]
    BY <1>12, <1>14, <1>13
  <2>2. QED
    BY <1>2, <1>4, <1>9, <1>11, <2>1
<1>15. CASE l >= j + 1
  <2>1. lows[j + 1] <= lows[l]
    BY <1>12, <1>15, <1>13
  <2>2. QED
    BY <1>2, <1>4, <1>9, <1>11, <2>1
<1>16. QED
  BY <1>12, <1>14, <1>15

--------------------------------------------------------------------------------
\* The highest of some of the bars.
LEMMA HighestOfSome ==
  ASSUME NEW s, GoodSeries(s), NEW H \in SUBSET (1..Len(s)), H # {}
  PROVE  \E h \in H : Max({HighOf(s[i]) : i \in H}) = HighOf(s[h])
<1> DEFINE n == Len(s)
           S == {HighOf(s[i]) : i \in H}
           f == [i \in 1..n |-> IF i \in H THEN HighOf(s[i]) ELSE 0]
<1>1. n \in Nat \ {0}
  BY SeriesValues
<1>2. ASSUME NEW i \in 1..n PROVE HighOf(s[i]) \in Nat \ {0}
  <2>1. GoodBar(s[i])
    BY DEF GoodSeries
  <2>2. QED
    BY <2>1, BarValues
<1>3. \A i \in 1..n : f[i] \in Int /\ f[i] = IF i \in H THEN HighOf(s[i]) ELSE 0
  BY <1>2
<1> HIDE DEF f
<1>4. PICK h \in 1..n : \A k \in 1..n : f[k] <= f[h]
  BY <1>1, <1>3, Greatest
<1>5. h \in H
  <2>1. PICK k \in H : TRUE
    OBVIOUS
  <2>2. f[k] \in Nat \ {0} /\ f[k] <= f[h] /\ f[h] \in Int
    BY <1>2, <1>3, <1>4
  <2>3. f[h] # 0
    BY <2>2
  <2>4. QED
    BY <1>3, <2>3
<1>6. HighOf(s[h]) \in S
  BY <1>5
<1>7. ASSUME NEW y \in S PROVE HighOf(s[h]) >= y
  <2>1. PICK i \in H : y = HighOf(s[i])
    OBVIOUS
  <2>2. f[i] = HighOf(s[i]) /\ f[h] = HighOf(s[h]) /\ f[i] <= f[h] /\ f[i] \in Int /\ f[h] \in Int
    BY <1>3, <1>4, <1>5
  <2>3. QED
    BY <2>1, <2>2
<1>8. \A y \in S : y \in Int
  BY <1>2
<1> HIDE DEF S
<1>9. Max(S) \in S /\ Max(S) >= HighOf(s[h])
  BY <1>6, <1>7 DEF Max
<1>10. Max(S) = HighOf(s[h])
  BY <1>6, <1>7, <1>8, <1>9
<1>11. QED
  BY <1>5, <1>10 DEF S

\* The difference of two lows is a number.
LEMMA GapIsNumber ==
  ASSUME NEW a \in Nat \ {0}, NEW b \in Nat \ {0}
  PROVE  Setups!Pct(Setups!Max({a, b}), Setups!Min({a, b})) \in Int
<1>1. PICK x, y : x = Setups!Max({a, b}) /\ y = Setups!Min({a, b})
  OBVIOUS
<1>2. x \in {a, b} /\ y \in {a, b}
  <2>1. a \in Int /\ b \in Int
    OBVIOUS
  <2>2. Max({a, b}) \in {a, b} /\ Min({a, b}) \in {a, b}
    BY <2>1, MaxOfTwo, MinOfTwo
  <2>3. x = Max({a, b}) /\ y = Min({a, b})
    BY <1>1, SetupsHelpers, Zenon
  <2>4. QED
    BY <2>2, <2>3
<1>3. 100 * Setups!Milli * x \in Int /\ 100 * Setups!Milli \in Int
  <2>1. x \in Int /\ Setups!Milli = 1000
    BY <1>2 DEF Setups!Milli
  <2>2. QED
    BY <2>1
<1>4. (100 * Setups!Milli * x) \div y \in Int
  <2>1. PICK t : t = 100 * Setups!Milli * x
    OBVIOUS
  <2>2. t \in Int /\ y \in Nat \ {0}
    BY <1>2, <1>3, <2>1
  <2>3. t \div y \in Int
    BY <2>2, QuotientIs
  <2>4. QED
    BY <2>1, <2>3
<1>5. QED
  BY <1>1, <1>2, <1>3, <1>4 DEF Setups!Pct

\* A pair: two swing lows next to each other, and the high of a bar between them.
IsPair(p, s) ==
  LET lows == Setups!SwingLows(s)
  IN \E j \in 1..Len(lows) :
       /\ j + 1 \in 1..Len(lows) /\ p.first = lows[j] /\ p.second = lows[j + 1]
       /\ p.gap \in Int
       /\ \E h \in 1..Len(s) :
            p.first < h /\ h < p.second /\ p.neckline = HighOf(s[h])

LEMMA PairsAre ==
  ASSUME NEW s, GoodSeries(s)
  PROVE  /\ IsSeq(Setups!LowPairs(s))
         /\ \A p \in ToSet(Setups!LowPairs(s)) : IsPair(p, s)
<1> DEFINE lows == Setups!SwingLows(s)
           highs == Setups!ToSet(Setups!SwingHighs(s))
           number == Setups!AtLeast(Len(lows) - 1, 0)
           H(k) == {i \in highs : lows[k] < i /\ i < lows[k + 1]}
           between(k) == {Setups!HighOf(s[h]) : h \in H(k)}
           gap(a, b) == Setups!Pct(Setups!Max({a, b}), Setups!Min({a, b}))
           pair(k) == [first |-> lows[k], second |-> lows[k + 1],
                       gap |-> gap(Setups!LowOf(s[lows[k]]), Setups!LowOf(s[lows[k + 1]])),
                       neckline |-> IF between(k) = {} THEN Null ELSE Setups!Max(between(k))]
           pairs == [k \in 1..number |-> pair(k)]
           K == {k \in DOMAIN pairs : pairs[k].neckline # Null}
<1>1. Setups!LowPairs(s) = Picked(pairs, K)
  BY SetupsHelpers DEF Setups!LowPairs
<1>2. /\ lows \in Seq(Int) /\ Len(lows) \in Nat
      /\ \A j \in 1..Len(lows) : lows[j] \in Undercut(s)
  BY SwingLowsAre
<1>3. \A j \in 1..Len(lows) : lows[j] \in 1..Len(s) /\ LowOf(s[lows[j]]) \in Nat \ {0}
  <2>1. ASSUME NEW i \in Undercut(s) PROVE i \in 1..Len(s) /\ LowOf(s[i]) \in Nat \ {0}
    <3>1. i \in 1..Len(s)
      BY SeriesValues DEF Undercut
    <3>2. GoodBar(s[i])
      BY <3>1 DEF GoodSeries
    <3>3. QED
      BY <3>1, <3>2, BarValues
  <2>2. QED
    BY <1>2, <2>1
<1>4. highs \subseteq 1..Len(s)
  <2> DEFINE n == Len(s)
             I == {i \in (Setups!Lookback + 1)..(n - Setups!Lookback) : Setups!IsSwingHigh(s, i)}
  <2>1. n \in Nat /\ DOMAIN s = 1..n
    BY SeriesValues
  <2>2. Setups!SwingHighs(s) = Picked(Indexes(s), I)
    BY SetupsHelpers DEF Setups!SwingHighs, Indexes
  <2>3. I \in SUBSET (1..n)
    BY <2>1 DEF Setups!Lookback
  <2> HIDE DEF n, I
  <2>4. PICK p : p = Picked(Indexes(s), I)
    OBVIOUS
  <2>5. DOMAIN p = 1..Len(p) /\ \A j \in 1..Len(p) : p[j] \in I
    BY <2>1, <2>3, <2>4, IndexesPicked
  <2>6. ToSet(p) \subseteq I
    BY <2>5 DEF ToSet
  <2>7. QED
    BY <2>2, <2>3, <2>4, <2>6, SetupsHelpers DEF n
<1> HIDE DEF highs
<1>5. number \in Nat /\ \A k \in 1..number : k \in 1..Len(lows) /\ k + 1 \in 1..Len(lows)
  BY <1>2 DEF Setups!AtLeast
<1> HIDE DEF lows, number
<1>6. ASSUME NEW k \in 1..number, pair(k).neckline # Null
      PROVE  IsPair(pair(k), s)
  <2>1. k \in 1..Len(lows) /\ k + 1 \in 1..Len(lows)
    BY <1>5
  <2>2. between(k) # {} /\ pair(k).neckline = Setups!Max(between(k))
    BY <1>6
  <2>3. pair(k).gap \in Int
    <3>1. PICK a, b : a = LowOf(s[lows[k]]) /\ b = LowOf(s[lows[k + 1]])
      OBVIOUS
    <3>2. gap(a, b) \in Int
      BY <1>3, <2>1, <3>1, GapIsNumber
    <3>3. pair(k).gap = gap(a, b)
      BY <3>1, SetupsHelpers
    <3>4. QED
      BY <3>2, <3>3
  <2>4. PICK X : X = H(k)
    OBVIOUS
  <2>5. X \in SUBSET (1..Len(s)) /\ X # {} /\ between(k) = {HighOf(s[h]) : h \in X}
    BY <1>4, <2>2, <2>4, SetupsHelpers
  <2>6. PICK h \in X : Max({HighOf(s[i]) : i \in X}) = HighOf(s[h])
    BY <2>5, HighestOfSome
  <2>7. pair(k).neckline = HighOf(s[h])
    BY <2>2, <2>5, <2>6, SetupsHelpers
  <2>8. h \in 1..Len(s) /\ lows[k] < h /\ h < lows[k + 1]
    BY <2>4, <2>5
  <2>9. pair(k).first = lows[k] /\ pair(k).second = lows[k + 1]
    OBVIOUS
  <2> HIDE DEF pair
  <2>10. QED
    BY <2>1, <2>3, <2>7, <2>8, <2>9 DEF IsPair, lows
<1>7. IsSeq(pairs) /\ \A k \in DOMAIN pairs : k \in 1..number /\ pairs[k] = pair(k)
  <2> HIDE DEF pair
  <2>1. DOMAIN pairs = 1..number
    OBVIOUS
  <2>2. \A k \in 1..number : pairs[k] = pair(k) /\ pairs[k] \in ToSet(pairs)
    BY DEF ToSet
  <2>3. pairs \in [1..number -> ToSet(pairs)]
    BY <2>2
  <2>4. QED
    BY <1>5, <2>1, <2>2, <2>3, SMTT(20) DEF IsSeq
<1> HIDE DEF pair, pairs
<1>8. /\ IsSeq(Picked(pairs, K))
      /\ ToSet(Picked(pairs, K)) = {pairs[k] : k \in K \cap DOMAIN pairs}
  BY <1>7, PickedSet
<1>9. ASSUME NEW p \in ToSet(Picked(pairs, K)) PROVE IsPair(p, s)
  <2>1. PICK k \in K : p = pairs[k]
    BY <1>8
  <2>2. QED
    BY <1>6, <1>7, <2>1
<1>10. QED
  BY <1>1, <1>8, <1>9

--------------------------------------------------------------------------------
\* What is detected is one of the pairs.
LEMMA BottomIsPair ==
  ASSUME NEW s, GoodSeries(s), NEW found, found = Setups!StrictDoubleBottom(s),
         found.verdict = "detected"
  PROVE  \E p : IsPair(p, s) /\ found.first = p.first /\ found.second = p.second
                /\ found.neckline = p.neckline
<1> DEFINE pairs == Setups!LowPairs(s)
           gaps == {p.gap : p \in ToSet(pairs)}
           nearest == Min(gaps)
           K == {k \in DOMAIN pairs : pairs[k].gap = nearest}
           best == pairs[Min(K)]
<1>1. IsSeq(pairs) /\ \A p \in ToSet(pairs) : IsPair(p, s)
  BY PairsAre
<1>2. /\ pairs # <<>>
      /\ found.first = best.first /\ found.second = best.second
      /\ found.neckline = best.neckline
  <2>1. pairs # <<>>
    BY DEF Setups!StrictDoubleBottom, Setups!NotDetected
  <2>2. \A k : Setups!NotDetected(k).verdict # "detected"
    BY DEF Setups!NotDetected
  <2>3. QED
    BY <2>1, <2>2, SetupsHelpers DEF Setups!StrictDoubleBottom
<1> HIDE DEF pairs
<1>3. /\ DOMAIN pairs = 1..Len(pairs) /\ Len(pairs) \in Nat \ {0}
      /\ \A k \in DOMAIN pairs : pairs[k] \in ToSet(pairs)
  <2>1. pairs \in Seq(ToSet(pairs))
    BY <1>1 DEF IsSeq
  <2>2. QED
    BY <1>2, <2>1 DEF ToSet
<1>4. \A p \in ToSet(pairs) : p.gap \in Int
  BY <1>1 DEF IsPair
<1>5. PICK i \in DOMAIN pairs : \A k \in DOMAIN pairs : pairs[k].gap >= pairs[i].gap
  <2> DEFINE f == [k \in DOMAIN pairs |-> pairs[k].gap]
  <2>1. \A k \in 1..Len(pairs) : f[k] \in Int /\ f[k] = pairs[k].gap
    BY <1>3, <1>4
  <2> HIDE DEF f
  <2>2. PICK i \in 1..Len(pairs) : \A k \in 1..Len(pairs) : f[k] >= f[i]
    BY <1>3, <2>1, Least
  <2>3. QED
    BY <1>3, <2>1, <2>2
<1>6. nearest \in gaps
  <2>1. pairs[i].gap \in gaps
    BY <1>3
  <2>2. ASSUME NEW y \in gaps PROVE pairs[i].gap <= y
    <3>1. PICK p \in ToSet(pairs) : y = p.gap
      OBVIOUS
    <3>2. PICK k \in DOMAIN pairs : p = pairs[k]
      BY DEF ToSet
    <3>3. y = pairs[k].gap /\ pairs[k].gap >= pairs[i].gap
      BY <1>5, <3>1, <3>2
    <3>4. pairs[k].gap \in Int /\ pairs[i].gap \in Int
      BY <1>3, <1>4
    <3>5. QED
      BY <3>3, <3>4
  <2> HIDE DEF gaps
  <2>3. QED
    BY <2>1, <2>2 DEF Min
<1>7. K # {} /\ K \subseteq DOMAIN pairs
  <2>1. PICK p \in ToSet(pairs) : p.gap = nearest
    BY <1>6
  <2>2. PICK k \in DOMAIN pairs : p = pairs[k]
    BY DEF ToSet
  <2>3. QED
    BY <2>1, <2>2
<1> HIDE DEF K
<1>8. Min(K) \in K
  <2>1. K \subseteq Nat
    BY <1>3, <1>7
  <2>2. PICK x \in K : \A y \in K : x <= y
    BY <1>7, <2>1, LeastNat
  <2>3. QED
    BY <2>2 DEF Min
<1>9. best \in ToSet(pairs)
  BY <1>3, <1>7, <1>8
<1>10. QED
  BY <1>1, <1>2, <1>9

\* Of what the strict rules report, the double bottom is theirs of that name.
LEMMA OnlyBottom ==
  ASSUME NEW s, NEW i \in DOMAIN Setups!DetectPatternEvidence(s),
         NEW found, found = Setups!DetectPatternEvidence(s)[i],
         found.id = "double_bottom"
  PROVE  found = Setups!StrictDoubleBottom(s)
<1> DEFINE bottom == Setups!StrictDoubleBottom(s)
           channel == Setups!StrictChannel(s)
           candles == Setups!StrictCandles(s)
           divergence == Setups!StrictRsiDivergence(s)
           all == Setups!DetectPatternEvidence(s)
           names == {"hammer", "shooting_star", "marubozu_bullish", "marubozu_bearish",
                     "bullish_engulfing", "bearish_engulfing"}
<1>1. channel.id # "double_bottom" /\ divergence.id # "double_bottom"
  <2>1. channel.id # "double_bottom"
    BY DEF Setups!StrictChannel, Setups!NotDetected
  <2>2. divergence.id # "double_bottom"
    BY DEF Setups!StrictRsiDivergence, Setups!NotDetected
  <2>3. QED
    BY <2>1, <2>2
<1>2. IsSeq(candles) /\ \A c \in ToSet(candles) : c.id # "double_bottom"
  <2> DEFINE last == Setups!Last(s)
             prev == s[Len(s) - 1]
             shown == << <<"hammer",
                           Setups!LowerWick(last) > 2 * Setups!Body(last)
                             /\ Setups!SmallBody(last) /\ ~Setups!IsUp(last)>>,
                         <<"shooting_star",
                           Setups!UpperWick(last) > 2 * Setups!Body(last)
                             /\ Setups!SmallBody(last)>>,
                         <<"marubozu_bullish",
                           Setups!MostlyBody(last) /\ Setups!IsUp(last)>>,
                         <<"marubozu_bearish",
                           Setups!MostlyBody(last) /\ ~Setups!IsUp(last)>>,
                         <<"bullish_engulfing", Setups!EngulfsDown(last, prev)>>,
                         <<"bearish_engulfing", Setups!EngulfsUp(last, prev)>> >>
             K == {k \in DOMAIN shown : shown[k][2]}
             chosen == Picked(shown, K)
  <2>1. candles = IF Len(s) < 3 THEN <<>>
                  ELSE [k \in DOMAIN chosen |-> [id |-> chosen[k][1], verdict |-> "detected"]]
    BY SetupsHelpers DEF Setups!StrictCandles
  <2>2. IsSeq(shown) /\ \A c \in ToSet(shown) : c[1] \in names
    <3>1. PICK a, b, c, d, e, f :
             /\ shown = << <<"hammer", a>>, <<"shooting_star", b>>, <<"marubozu_bullish", c>>,
                           <<"marubozu_bearish", d>>, <<"bullish_engulfing", e>>,
                           <<"bearish_engulfing", f>> >>
      OBVIOUS
    <3> HIDE DEF shown
    <3>2. PICK S : S = {<<"hammer", a>>, <<"shooting_star", b>>, <<"marubozu_bullish", c>>,
                        <<"marubozu_bearish", d>>, <<"bullish_engulfing", e>>,
                        <<"bearish_engulfing", f>>}
      OBVIOUS
    <3>3. shown \in Seq(S) /\ DOMAIN shown = 1..6
      BY <3>1, <3>2
    <3>4. \A k \in 1..6 : shown[k] \in ToSet(shown)
      BY <3>3 DEF ToSet
    <3>5. shown \in Seq(ToSet(shown))
      <4>1. shown = [k \in 1..6 |-> shown[k]]
        BY <3>1
      <4>2. PICK T : T = ToSet(shown)
        OBVIOUS
      <4>3. shown \in [1..6 -> T]
        BY <3>4, <4>1, <4>2
      <4>4. PICK n \in Nat : n = 6
        OBVIOUS
      <4>5. shown \in [1..n -> T]
        BY <4>3, <4>4
      <4>6. shown \in Seq(T)
        BY <4>5
      <4>7. QED
        BY <4>2, <4>6
    <3>6. \A x \in ToSet(shown) : x \in S
      BY <3>3, SMTT(20) DEF ToSet
    <3>7. \A x \in S : x[1] \in names
      BY <3>2
    <3>8. QED
      BY <3>5, <3>6, <3>7 DEF IsSeq
  <2> HIDE DEF shown
  <2>3. IsSeq(chosen) /\ ToSet(chosen) = {shown[k] : k \in K \cap DOMAIN shown}
    BY <2>2, PickedSet
  <2>4. \A c \in ToSet(chosen) : c[1] \in names
    BY <2>2, <2>3 DEF ToSet
  <2> HIDE DEF chosen
  <2>5. CASE candles = <<>>
    BY <2>5, NothingEvident DEF IsSeq
  <2>6. CASE candles = [k \in DOMAIN chosen |-> [id |-> chosen[k][1], verdict |-> "detected"]]
    <3>1. DOMAIN candles = DOMAIN chosen
          /\ \A k \in DOMAIN chosen : candles[k].id = chosen[k][1]
      BY <2>6
    <3> HIDE DEF candles
    <3>2. \A k \in DOMAIN chosen : chosen[k] \in ToSet(chosen)
      BY DEF ToSet
    <3>3. IsSeq(candles)
      BY <2>3, <2>6, <3>1, SameLength
    <3>4. \A c \in ToSet(candles) : c.id \in names
      BY <2>4, <3>1, <3>2 DEF ToSet
    <3>5. QED
      BY <3>3, <3>4
  <2>7. QED
    BY <2>1, <2>5, <2>6
<1>3. all = <<bottom, channel>> \o candles \o <<divergence>>
  BY DEF Setups!DetectPatternEvidence
<1> HIDE DEF bottom, channel, candles, divergence, all
<1>4. ToSet(all) = {bottom, channel} \cup ToSet(candles) \cup {divergence}
  <2>1. IsSeq(<<bottom, channel>>) /\ ToSet(<<bottom, channel>>) = {bottom, channel}
    BY DEF IsSeq, ToSet
  <2>2. IsSeq(<<divergence>>) /\ ToSet(<<divergence>>) = {divergence}
    BY OneMember
  <2>3. PICK two, one : two = <<bottom, channel>> /\ one = <<divergence>>
    OBVIOUS
  <2>4. IsSeq(two \o candles) /\ ToSet(two \o candles) = ToSet(two) \cup ToSet(candles)
    BY <1>2, <2>1, <2>3, Joined
  <2>5. ToSet((two \o candles) \o one) = ToSet(two \o candles) \cup ToSet(one)
    BY <2>2, <2>3, <2>4, Joined
  <2>6. QED
    BY <1>3, <2>1, <2>2, <2>3, <2>4, <2>5
<1>5. found \in ToSet(all)
  BY DEF all, ToSet
<1>6. QED
  BY <1>1, <1>2, <1>4, <1>5 DEF bottom

--------------------------------------------------------------------------------
LEMMA BottomsHold ==
  ASSUME NEW s, GoodSeries(s), Ranged(s),
         NEW i \in DOMAIN Setups!DetectPatternEvidence(s),
         NEW found, found = Setups!DetectPatternEvidence(s)[i],
         found.id = "double_bottom", found.verdict = "detected"
  PROVE  LET low(k) == LowOf(s[k])
             lower == Min({low(found.first), low(found.second)})
         IN /\ \A k \in found.first..found.second : low(k) >= lower
            /\ \E k \in found.first..found.second :
                 k \notin {found.first, found.second} /\ found.neckline = HighOf(s[k])
            /\ found.neckline >= lower
<1>1. PICK p : /\ IsPair(p, s) /\ found.first = p.first /\ found.second = p.second
               /\ found.neckline = p.neckline
  BY OnlyBottom, BottomIsPair
<1>2. PICK lows : lows = Setups!SwingLows(s)
  OBVIOUS
<1>3. PICK j \in 1..Len(lows) :
        /\ j + 1 \in 1..Len(lows) /\ p.first = lows[j] /\ p.second = lows[j + 1]
        /\ \E h \in 1..Len(s) : p.first < h /\ h < p.second /\ p.neckline = HighOf(s[h])
  BY <1>1, <1>2 DEF IsPair
<1>4. PICK h \in 1..Len(s) : p.first < h /\ h < p.second /\ p.neckline = HighOf(s[h])
  BY <1>3
<1>5. PICK a, b : a = lows[j] /\ b = lows[j + 1]
  OBVIOUS
<1>6. /\ a \in 1..Len(s) /\ b \in 1..Len(s) /\ Len(s) \in Nat /\ Len(lows) \in Nat
  <2>1. a \in Undercut(s) /\ b \in Undercut(s) /\ Len(lows) \in Nat
    BY <1>2, <1>3, <1>5, SwingLowsAre
  <2>2. Len(s) \in Nat
    BY SeriesValues
  <2>3. QED
    BY <2>1, <2>2 DEF Undercut
<1>7. ASSUME NEW k \in 1..Len(s)
      PROVE  LowOf(s[k]) \in Nat \ {0} /\ HighOf(s[k]) \in Nat \ {0}
  <2>1. GoodBar(s[k])
    BY DEF GoodSeries
  <2>2. QED
    BY <2>1, BarValues
<1>8. PICK x, y, lower : /\ x = LowOf(s[a]) /\ y = LowOf(s[b]) /\ lower = Min({x, y})
  OBVIOUS
<1>9. lower \in {x, y} /\ lower <= x /\ lower <= y /\ lower \in Int
  <2>1. x \in Int /\ y \in Int
    BY <1>6, <1>7, <1>8
  <2>2. QED
    BY <1>8, <2>1, MinOfTwo
<1>10. ASSUME NEW k \in a..b PROVE LowOf(s[k]) >= lower
  <2>1. j \in Nat /\ k \in lows[j]..lows[j + 1]
    BY <1>5, <1>6
  <2>2. QED
    BY <1>2, <1>3, <1>5, <1>8, <1>9, <2>1, LowestBetween
<1>11. h \in a..b /\ h # a /\ h # b
  BY <1>3, <1>4, <1>5, <1>6
<1>12. HighOf(s[h]) >= lower
  <2>1. LowOf(s[h]) >= lower /\ LowOf(s[h]) <= HighOf(s[h])
    BY <1>10, <1>11 DEF Ranged
  <2>2. QED
    BY <1>7, <1>9, <2>1
<1>13. QED
  BY <1>1, <1>3, <1>4, <1>5, <1>8, <1>10, <1>11, <1>12
--------------------------------------------------------------------------------
(* The scored setups.                                                           *)

\* The numbers of a setup.
LEMMA Clamped ==
  ASSUME NEW x \in Int, NEW a \in Int, NEW b \in Int
  PROVE  /\ Setups!AtLeast(x, a) \in Int /\ Setups!AtMost(x, a) \in Int
         /\ Setups!Clamp(x, a, b) \in Int /\ Setups!AtLeast(x, a) >= a
BY DEF Setups!AtLeast, Setups!AtMost, Setups!Clamp

LEMMA Quotients ==
  ASSUME NEW a \in Int, NEW k \in Int, NEW b \in Nat \ {0}
  PROVE  (k * a) \div b \in Int /\ k * a \in Int
<1>1. PICK t : t = k * a
  OBVIOUS
<1>2. t \in Int
  BY <1>1
<1>3. t \div b \in Int
  BY <1>2, QuotientIs
<1>4. QED
  BY <1>1, <1>2, <1>3

LEMMA PctIsNumber ==
  ASSUME NEW high \in Int, NEW low \in Nat
  PROVE  Setups!Pct(high, low) \in Int
<1>1. PICK k : k = 100 * Setups!Milli
  OBVIOUS
<1>2. k \in Int
  BY <1>1 DEF Setups!Milli
<1>3. Setups!Pct(high, low) = IF low = 0 THEN 0 ELSE (k * high) \div low - k
  BY <1>1 DEF Setups!Pct
<1>4. CASE low = 0
  BY <1>3, <1>4
<1>5. CASE low # 0
  <2>1. (k * high) \div low \in Int
    BY <1>2, <1>5, Quotients
  <2>2. QED
    BY <1>2, <1>3, <1>5, <2>1
<1>6. QED
  BY <1>4, <1>5

LEMMA DistanceIsNumber ==
  ASSUME NEW top \in Int, NEW close \in Nat \ {0}
  PROVE  Setups!Distance(top, close) \in Int
<1>1. (100 * top) \div close \in Int
  BY Quotients
<1>2. PICK t : t = (100 * top) \div close - 100 * Setups!Milli
  OBVIOUS
<1>3. t \in Int
  BY <1>1, <1>2 DEF Setups!Milli
<1>4. Setups!AtLeast(t, 0) \in Int
  BY <1>3, Clamped
<1>5. QED
  BY <1>2, <1>4 DEF Setups!Distance

LEMMA HundredthsIsNumber == ASSUME NEW x \in Int PROVE Setups!Hundredths(x) \in Int
<1>1. PICK t : t = x + 5
  OBVIOUS
<1>2. t \in Int /\ 10 \in Nat \ {0}
  BY <1>1
<1>3. t \div 10 \in Int
  BY <1>2, QuotientIs
<1>4. QED
  BY <1>1, <1>3 DEF Setups!Hundredths

IsSetup(r, id) == r.id = id /\ r.score \in Int /\ r.distance \in Int

LEMMA SetupIs ==
  ASSUME NEW id, NEW score \in Int, NEW top \in Int, NEW low, NEW close \in Nat \ {0},
         NEW r, r = Setups!Setup(id, score, top, low, close), r # Null
  PROVE  IsSetup(r, id) /\ r.watch = [low |-> Setups!Milli * low, high |-> top]
<1>1. PICK reported, distance :
        /\ reported = Setups!Hundredths(Setups!Clamp(score, 0, 100 * Setups!Milli))
        /\ distance = Setups!Hundredths(Setups!Distance(top, close))
  OBVIOUS
<1>2. reported \in Int
  <2>1. 100 * Setups!Milli \in Int
    BY DEF Setups!Milli
  <2>2. Setups!Clamp(score, 0, 100 * Setups!Milli) \in Int
    BY <2>1, Clamped
  <2>3. QED
    BY <1>1, <2>2, HundredthsIsNumber
<1>3. distance \in Int
  BY <1>1, DistanceIsNumber, HundredthsIsNumber
<1>4. /\ r.id = id /\ r.score = reported /\ r.distance = distance
      /\ r.watch = [low |-> Setups!Milli * low, high |-> top]
  BY <1>1 DEF Setups!Setup
<1>5. QED
  BY <1>2, <1>3, <1>4 DEF IsSetup

LEMMA SequenceOf ==
  ASSUME NEW n \in Nat, NEW T, NEW t \in [1..n -> T]
  PROVE  t \in Seq(T)
OBVIOUS

\* A part of a series is a series, and what it ranges over is kept.
LEMMA PartIsGood ==
  ASSUME NEW s, GoodSeries(s), NEW a \in 1..Len(s), NEW b \in a..Len(s)
  PROVE  /\ GoodSeries(SubSeq(s, a, b))
         /\ Len(SubSeq(s, a, b)) = b - a + 1 /\ 1 \in 1..Len(SubSeq(s, a, b))
         /\ SubSeq(s, a, b)[1] = s[a]
         /\ Ranged(s) => Ranged(SubSeq(s, a, b))
<1>1. PICK t : t = SubSeq(s, a, b)
  OBVIOUS
<1>2. s \in Seq(ToSet(s)) /\ Len(s) \in Nat
  BY SeriesValues DEF GoodSeries, IsSeq
<1>3. /\ t \in Seq(ToSet(s)) /\ Len(t) = b - a + 1 /\ DOMAIN t = 1..(b - a + 1)
      /\ \A k \in 1..(b - a + 1) : t[k] = s[a - 1 + k]
  BY <1>1, <1>2
<1>4. b - a + 1 \in Nat \ {0} /\ \A k \in 1..(b - a + 1) : a - 1 + k \in 1..Len(s)
  BY <1>2
<1>5. t \in Seq(ToSet(t)) /\ t # <<>>
  <2>1. \A k \in DOMAIN t : t[k] \in ToSet(t)
    BY DEF ToSet
  <2>2. PICK n, T : n = b - a + 1 /\ T = ToSet(t)
    OBVIOUS
  <2>3. t = [k \in 1..n |-> t[k]]
    BY <1>3, <2>2
  <2>4. \A k \in 1..n : t[k] \in T
    BY <1>3, <2>1, <2>2
  <2>5. t \in Seq(T)
    <3>1. n \in Nat
      BY <1>4, <2>2
    <3>2. [k \in 1..n |-> t[k]] \in [1..n -> T]
      BY <2>4
    <3>3. t \in [1..n -> T]
      BY <2>3, <3>2, Zenon
    <3>4. QED
      BY <3>1, <3>3, SequenceOf
  <2>6. QED
    BY <1>3, <1>4, <2>2, <2>5
<1>6. GoodSeries(t)
  BY <1>3, <1>4, <1>5 DEF GoodSeries, IsSeq
<1>7. Ranged(s) => Ranged(t)
  BY <1>3, <1>4 DEF Ranged
<1>8. 1 \in 1..(b - a + 1) /\ t[1] = s[a]
  BY <1>2, <1>3, <1>4
<1>9. QED
  BY <1>1, <1>3, <1>6, <1>7, <1>8

\* The last and the first bars of a series, and its highs and lows.
LEMMA WindowIsGood ==
  ASSUME NEW s, GoodSeries(s), NEW n \in Nat \ {0}, NEW t, t = Setups!LastOf(s, n)
  PROVE  /\ GoodSeries(t) /\ (Ranged(s) => Ranged(t))
         /\ Len(t) = IF Len(s) > n THEN n ELSE Len(s)
<1>1. PICK m, a : m = Len(s) /\ a = IF m > n THEN m - n + 1 ELSE 1
  OBVIOUS
<1>2. m \in Nat \ {0}
  BY <1>1, SeriesValues
<1>3. t = SubSeq(s, a, m)
  BY <1>1 DEF Setups!LastOf
<1>4. a \in 1..m /\ m \in a..m
  <2>1. CASE m > n
    BY <1>1, <1>2, <2>1
  <2>2. CASE ~(m > n)
    BY <1>1, <1>2, <2>2
  <2>3. QED
    BY <2>1, <2>2
<1>5. GoodSeries(t) /\ Len(t) = m - a + 1 /\ (Ranged(s) => Ranged(t))
  <2>1. PICK b : b = m
    OBVIOUS
  <2>2. a \in 1..Len(s) /\ b \in a..Len(s)
    <3>1. Len(s) = m /\ b = m
      BY <1>1, <2>1
    <3>2. QED
      BY <1>4, <3>1, Zenon
  <2>3. t = SubSeq(s, a, b)
    BY <1>3, <2>1
  <2>4. /\ GoodSeries(SubSeq(s, a, b)) /\ Len(SubSeq(s, a, b)) = b - a + 1
        /\ Ranged(s) => Ranged(SubSeq(s, a, b))
    BY <2>2, PartIsGood, Zenon
  <2>5. QED
    BY <2>1, <2>3, <2>4, Zenon
<1>6. m - a + 1 = IF m > n THEN n ELSE m
  BY <1>1, <1>2
<1>7. QED
  BY <1>1, <1>5, <1>6

Figures(v) == v \in Seq(Nat \ {0}) /\ v # <<>>

LEMMA HighsAndLows ==
  ASSUME NEW s, GoodSeries(s), NEW v, v \in {Setups!Highs(s), Setups!Lows(s), Setups!Closes(s)}
  PROVE  /\ Figures(v) /\ Len(v) = Len(s) /\ DOMAIN v = 1..Len(s)
         /\ v = Setups!Highs(s) => \A i \in 1..Len(s) : v[i] = HighOf(s[i])
         /\ v = Setups!Lows(s) => \A i \in 1..Len(s) : v[i] = LowOf(s[i])
<1>1. PICK m : m = Len(s)
  OBVIOUS
<1>2. m \in Nat \ {0} /\ DOMAIN s = 1..m
  BY <1>1, SeriesValues
<1>3. ASSUME NEW i \in 1..m
      PROVE  /\ s[i].close \in Nat \ {0} /\ HighOf(s[i]) \in Nat \ {0} /\ LowOf(s[i]) \in Nat \ {0}
  <2>1. GoodBar(s[i])
    BY <1>1 DEF GoodSeries
  <2>2. QED
    BY <2>1, BarValues
<1>4. /\ Setups!Highs(s) = [i \in 1..m |-> HighOf(s[i])]
      /\ Setups!Lows(s) = [i \in 1..m |-> LowOf(s[i])]
      /\ Setups!Closes(s) = [i \in 1..m |-> s[i].close]
  BY <1>2, SetupsHelpers DEF Setups!Highs, Setups!Lows, Setups!Closes
<1>5. v \in [1..m -> Nat \ {0}]
  BY <1>3, <1>4
<1>6. v \in Seq(Nat \ {0}) /\ Len(v) = m /\ DOMAIN v = 1..m
  BY <1>2, <1>5
<1>7. v # <<>>
  BY <1>2, <1>6
<1>8. QED
  BY <1>1, <1>4, <1>6, <1>7 DEF Figures

LEMMA FiguresWindow ==
  ASSUME NEW v, Figures(v), NEW n \in Nat \ {0}
  PROVE  /\ Figures(Setups!LastOf(v, n)) /\ Figures(Setups!FirstOf(v, n))
         /\ Len(Setups!LastOf(v, n)) = IF Len(v) > n THEN n ELSE Len(v)
         /\ \A k \in 1..Len(Setups!LastOf(v, n)) :
              Setups!LastOf(v, n)[k] = v[Len(v) - Len(Setups!LastOf(v, n)) + k]
<1>1. PICK S : S = Nat \ {0}
  OBVIOUS
<1>2. v \in Seq(S) /\ v # <<>> /\ Len(v) \in Nat \ {0}
  BY <1>1 DEF Figures
<1>3. Setups!LastOf(v, n) = LastOf(v, n) /\ Setups!FirstOf(v, n) = FirstOf(v, n)
  BY DEF Setups!LastOf, LastOf, Setups!FirstOf, FirstOf
<1>4. PICK p, q, l : /\ p = LastOf(v, n) /\ q = FirstOf(v, n)
                     /\ l = IF Len(v) > n THEN n ELSE Len(v)
  OBVIOUS
<1>5. /\ p \in Seq(S) /\ Len(p) = l /\ \A k \in 1..l : p[k] = v[Len(v) - l + k]
  BY <1>2, <1>4, LastOfIs
<1>6. q \in Seq(S) /\ Len(q) = l
  BY <1>2, <1>4, FirstOfIs
<1>7. l # 0
  BY <1>2, <1>4
<1>8. p # <<>> /\ q # <<>>
  BY <1>5, <1>6, <1>7
<1>9. QED
  BY <1>1, <1>3, <1>4, <1>5, <1>6, <1>8 DEF Figures

LEMMA Extremes ==
  ASSUME NEW v, Figures(v)
  PROVE  /\ Setups!Highest(v) \in Nat \ {0} /\ Setups!Lowest(v) \in Nat \ {0}
         /\ \A k \in 1..Len(v) : v[k] <= Setups!Highest(v) /\ Setups!Lowest(v) <= v[k]
         /\ \A k \in 1..Len(v) : v[k] \in Nat \ {0}
<1>1. v \in Seq(Int) /\ v # <<>> /\ \A k \in 1..Len(v) : v[k] \in Nat \ {0}
  BY DEF Figures
<1>2. Setups!Highest(v) = Highest(v) /\ Setups!Lowest(v) = Lowest(v)
  BY SetupsHelpers DEF Setups!Highest, Highest, Setups!Lowest, Lowest
<1>3. /\ \E i \in 1..Len(v) : Highest(v) = v[i]
      /\ \A k \in 1..Len(v) : v[k] <= Highest(v)
  BY <1>1, HighestIs
<1>4. /\ \E i \in 1..Len(v) : Lowest(v) = v[i]
      /\ \A k \in 1..Len(v) : Lowest(v) <= v[k]
  BY <1>1, LowestIs
<1>5. QED
  BY <1>1, <1>2, <1>3, <1>4

--------------------------------------------------------------------------------
LEMMA LastClose ==
  ASSUME NEW s, GoodSeries(s)
  PROVE  Setups!Last(s).close \in Nat \ {0}
<1>1. Setups!Last(s) = s[Len(s)] /\ Len(s) \in 1..Len(s)
  BY SeriesValues DEF Setups!Last
<1>2. GoodBar(s[Len(s)])
  BY <1>1 DEF GoodSeries
<1>3. QED
  BY <1>1, <1>2, BarValues

\* The lowest low of a series is not above its highest high.
LEMMA LowBelowHigh ==
  ASSUME NEW s, GoodSeries(s), Ranged(s)
  PROVE  Setups!Lowest(Setups!Lows(s)) <= Setups!Highest(Setups!Highs(s))
<1>1. PICK v, w : v = Setups!Lows(s) /\ w = Setups!Highs(s)
  OBVIOUS
<1>2. /\ Figures(v) /\ Figures(w) /\ Len(v) = Len(s) /\ Len(w) = Len(s)
      /\ \A i \in 1..Len(s) : v[i] = LowOf(s[i]) /\ w[i] = HighOf(s[i])
  BY <1>1, HighsAndLows
<1>3. 1 \in 1..Len(s)
  BY SeriesValues
<1>4. /\ Setups!Lowest(v) <= v[1] /\ w[1] <= Setups!Highest(w) /\ v[1] <= w[1]
      /\ v[1] \in Nat /\ w[1] \in Nat
      /\ Setups!Lowest(v) \in Nat /\ Setups!Highest(w) \in Nat
  BY <1>2, <1>3, Extremes DEF Ranged
<1>5. QED
  BY <1>1, <1>4

LEMMA BullFlagIs ==
  ASSUME NEW s, GoodSeries(s), NEW r, r = Setups!BullFlag(s), r # Null
  PROVE  IsSetup(r, "bull_flags") /\ (Ranged(s) => r.watch.low <= r.watch.high)
<1>1. PICK n, close, recent, part, pole :
        /\ n = Len(s) /\ close = Setups!Last(s).close /\ recent = Setups!LastOf(s, 14)
        /\ part = SubSeq(s, Setups!AtLeast(n - 43, 1), n - 14) /\ pole = Setups!Closes(part)
  OBVIOUS
<1>2. PICK move, top, low, range :
        /\ move = Setups!Pct(Setups!Highest(Setups!LastOf(pole, 5)),
                             Setups!Lowest(Setups!FirstOf(pole, 15)))
        /\ top = Setups!Highest(Setups!Highs(recent))
        /\ low = Setups!Lowest(Setups!Lows(recent))
        /\ range = Setups!Pct(top, low)
  OBVIOUS
<1>3. PICK score :
        score = 30 * Setups!Milli + Setups!AtMost(move, 35 * Setups!Milli)
                  + (22 * Setups!AtLeast(25 * Setups!Milli - range, 0)) \div 10
                  - 2 * Setups!AtLeast(Setups!Pct(top, close) - 8 * Setups!Milli, 0)
                  - (IF move < 10 * Setups!Milli \/ range > 16 * Setups!Milli
                     THEN 20 * Setups!Milli ELSE 0)
  OBVIOUS
<1>4. r = IF Len(pole) < 20 THEN Null
          ELSE Setups!Setup("bull_flags", score, Setups!Milli * top, low, close)
  BY <1>1, <1>2, <1>3 DEF Setups!BullFlag
<1>5. ~(Len(pole) < 20) /\ r = Setups!Setup("bull_flags", score, Setups!Milli * top, low, close)
  BY <1>4
<1>6. close \in Nat \ {0} /\ GoodSeries(recent) /\ (Ranged(s) => Ranged(recent))
  BY <1>1, LastClose, WindowIsGood
<1>7. top \in Nat \ {0} /\ low \in Nat \ {0} /\ (Ranged(s) => low <= top)
  <2>1. Figures(Setups!Highs(recent)) /\ Figures(Setups!Lows(recent))
    BY <1>6, HighsAndLows
  <2>2. QED
    BY <1>2, <1>6, <2>1, Extremes, LowBelowHigh
<1>8. Figures(pole)
  <2>1. s \in Seq(ToSet(s)) /\ n \in Nat \ {0}
    BY <1>1, SeriesValues DEF GoodSeries, IsSeq
  <2>2. PICK m, k : m = Setups!AtLeast(n - 43, 1) /\ k = n - 14
    OBVIOUS
  <2>3. m \in Int /\ k \in Int /\ m >= 1 /\ k <= n
    BY <2>1, <2>2, Clamped
  <2>4. m <= k
    <3>1. SUFFICES ASSUME ~(m <= k) PROVE FALSE
      OBVIOUS
    <3>2. part = SubSeq(s, m, k)
      BY <1>1, <2>2
    <3>3. DOMAIN part = {}
      BY <2>1, <2>3, <3>1, <3>2
    <3>4. pole = <<>>
      BY <1>1, <3>3 DEF Setups!Closes
    <3>5. Len(<<>>) = 0 /\ 0 < 20
      OBVIOUS
    <3>6. QED
      BY <1>5, <3>4, <3>5
  <2>5. part = SubSeq(s, m, k) /\ m \in 1..Len(s) /\ k \in m..Len(s)
    BY <1>1, <2>1, <2>2, <2>3, <2>4
  <2>6. GoodSeries(part)
    BY <2>5, PartIsGood, Zenon
  <2>7. QED
    BY <1>1, <2>6, HighsAndLows
<1>9. move \in Int /\ range \in Int /\ Setups!Pct(top, close) \in Int
  <2>1. Figures(Setups!LastOf(pole, 5)) /\ Figures(Setups!FirstOf(pole, 15))
    BY <1>8, FiguresWindow
  <2>2. /\ Setups!Highest(Setups!LastOf(pole, 5)) \in Int
        /\ Setups!Lowest(Setups!FirstOf(pole, 15)) \in Nat
    BY <2>1, Extremes
  <2>3. QED
    BY <1>2, <1>6, <1>7, <2>2, PctIsNumber
<1>10. Setups!Milli = 1000
  BY DEF Setups!Milli
<1>11. score \in Int
  <2>1. PICK a, b, c, d :
          /\ a = Setups!AtMost(move, 35 * Setups!Milli)
          /\ b = Setups!AtLeast(25 * Setups!Milli - range, 0)
          /\ c = (22 * b) \div 10
          /\ d = Setups!AtLeast(Setups!Pct(top, close) - 8 * Setups!Milli, 0)
    OBVIOUS
  <2>2. a \in Int /\ b \in Int /\ d \in Int
    <3>1. /\ 35 * Setups!Milli \in Int /\ 25 * Setups!Milli - range \in Int
          /\ Setups!Pct(top, close) - 8 * Setups!Milli \in Int
      BY <1>9, <1>10
    <3>2. QED
      BY <1>9, <2>1, <3>1 DEF Setups!AtLeast, Setups!AtMost
  <2>3. c \in Int
    BY <2>1, <2>2, Quotients
  <2>4. QED
    BY <1>3, <1>10, <2>1, <2>2, <2>3
<1>12. Setups!Milli * top \in Int
  BY <1>7, <1>10
<1>13. /\ IsSetup(r, "bull_flags")
       /\ r.watch = [low |-> Setups!Milli * low, high |-> Setups!Milli * top]
  BY <1>5, <1>6, <1>11, <1>12, SetupIs
<1>14. QED
  BY <1>7, <1>10, <1>13
--------------------------------------------------------------------------------
LEMMA CountUpTo == ASSUME NEW m \in Nat PROVE IsFiniteSet(1..m) /\ Cardinality(1..m) = m
<1>1. 1 \in Int /\ m \in Int
  OBVIOUS
<1>2. IsFiniteSet(1..m) /\ Cardinality(1..m) = IF 1 > m THEN 0 ELSE m - 1 + 1
  BY <1>1, FS_Interval
<1>3. QED
  BY <1>2

\* Of at most forty-five values one of the last twenty is not above the resistance.
LEMMA ResistanceIs ==
  ASSUME NEW v, Figures(v), Len(v) <= 45
  PROVE  /\ Setups!Resistance(v) \in Nat \ {0}
         /\ \E k \in 1..Len(v) : Len(v) - 20 < k /\ v[k] <= Setups!Resistance(v)
<1> DEFINE n == Len(v)
           P == 1..n
           before == [i \in DOMAIN v |->
                        {k \in DOMAIN v : v[k] < v[i] \/ (v[k] = v[i] /\ k < i)}]
           r == (8 * n) \div 10 + 1
           x == Arranged(before)[r]
<1>1. n \in Nat \ {0} /\ DOMAIN v = P /\ \A i \in P : v[i] \in Nat \ {0}
  BY DEF Figures
<1>2. Setups!Resistance(v) = v[x]
  <2>1. ASSUME NEW f PROVE Setups!Arranged(f) = Arranged(f)
    BY DEF Setups!Arranged, Arranged, Setups!Cardinality, Cardinality
  <2>2. Setups!Resistance(v) = v[Setups!Arranged(before)[r]]
    BY DEF Setups!Resistance
  <2>3. QED
    BY <2>1, <2>2
<1>3. r \in P /\ r > n - 20
  <2>1. 8 * n \in Int /\ 10 \in Nat \ {0}
    BY <1>1
  <2>2. PICK q, t : q = t \div 10 /\ t = 8 * n
    OBVIOUS
  <2>3. q \in Int /\ 10 * q <= t /\ t < 10 * (q + 1)
    BY <2>1, <2>2, QuotientIs
  <2>4. r = q + 1
    BY <2>2
  <2> HIDE DEF r, n
  <2>5. QED
    BY <1>1, <2>2, <2>3, <2>4 DEF n
<1>4. \A i \in P : \A k : k \in before[i] <=> k \in P /\ (v[k] < v[i] \/ (v[k] = v[i] /\ k < i))
  BY <1>1
<1>5. before \in [P -> SUBSET P]
  BY <1>1
<1>6. \A i \in P : i \in Nat
  BY <1>1
<1> HIDE DEF before, r
<1>7. Orders(before, P)
  <2> HIDE DEF P
  <2>1. \A i \in P : i \notin before[i]
    BY <1>1, <1>4, <1>6
  <2>2. \A i, k \in P : i = k \/ i \in before[k] \/ k \in before[i]
    BY <1>1, <1>4, <1>6
  <2>3. ASSUME NEW i \in P, NEW k \in P, i \in before[k], NEW j \in before[i]
        PROVE  j \in before[k]
    <3>1. j \in P /\ (v[j] < v[i] \/ (v[j] = v[i] /\ j < i))
      BY <1>4, <2>3
    <3>2. v[i] < v[k] \/ (v[i] = v[k] /\ i < k)
      BY <1>4, <2>3
    <3>3. v[j] \in Nat /\ v[i] \in Nat /\ v[k] \in Nat /\ i \in Nat /\ j \in Nat /\ k \in Nat
      BY <1>1, <1>6, <3>1
    <3>4. v[j] < v[k] \/ (v[j] = v[k] /\ j < k)
      BY <3>1, <3>2, <3>3
    <3>5. QED
      BY <1>4, <3>1, <3>4
  <2>4. QED
    BY <1>5, <2>1, <2>2, <2>3 DEF Orders
<1>8. IsFiniteSet(P) /\ Cardinality(P) = n
  BY <1>1, CountUpTo
<1>9. x \in P /\ Cardinality(before[x]) = r - 1
  <2>1. /\ Arranged(before) \in [1..n -> P]
        /\ \A k \in 1..n : Cardinality(before[Arranged(before)[k]]) = k - 1
    <3> HIDE DEF n, P
    <3>1. QED
      BY <1>7, <1>8, ArrangedIs
  <2>2. QED
    BY <1>3, <2>1
<1> HIDE DEF x
<1>10. \E k \in P : n - 20 < k /\ v[k] <= v[x]
  <2>1. SUFFICES ASSUME \A k \in P : ~(n - 20 < k /\ v[k] <= v[x]) PROVE FALSE
    OBVIOUS
  <2> DEFINE m == n - 20
             B == before[x] \cup {x}
  <2>2. \A k \in B : k \in P /\ v[k] <= v[x]
    <3>1. ASSUME NEW k \in before[x] PROVE k \in P /\ v[k] <= v[x]
      <4>1. k \in P /\ (v[k] < v[x] \/ (v[k] = v[x] /\ k < x))
        BY <1>4, <1>9
      <4>2. v[k] \in Nat /\ v[x] \in Nat
        BY <1>1, <1>9, <4>1
      <4>3. QED
        BY <4>1, <4>2
    <3>2. v[x] <= v[x]
      BY <1>1, <1>9
    <3>3. QED
      BY <1>9, <3>1, <3>2
  <2>3. x \in 1..m /\ m \in Nat
    <3>1. ~(m < x) /\ x \in Nat \ {0}
      BY <1>1, <1>9, <2>1, <2>2
    <3>2. QED
      BY <1>1, <3>1
  <2>4. B \subseteq 1..m
    <3>1. ASSUME NEW k \in B PROVE k \in 1..m
      <4>1. k \in P /\ ~(m < k)
        BY <2>1, <2>2
      <4>2. QED
        BY <1>1, <2>3, <4>1
    <3>2. QED
      BY <3>1
  <2>5. IsFiniteSet(1..m) /\ Cardinality(1..m) = m
    BY <2>3, CountUpTo
  <2>6. IsFiniteSet(B) /\ Cardinality(B) <= m
    BY <2>4, <2>5, FS_Subset
  <2>7. IsFiniteSet(before[x]) /\ x \notin before[x]
    BY <1>5, <1>7, <1>8, <1>9, FS_Subset DEF Orders
  <2>8. Cardinality(B) = Cardinality(before[x]) + 1
    BY <2>7, FS_AddElement
  <2>9. r \in Int /\ m \in Int /\ r > m
    BY <1>1, <1>3, <2>3
  <2>10. QED
    BY <1>9, <2>6, <2>8, <2>9
<1>11. QED
  BY <1>1, <1>2, <1>9, <1>10

--------------------------------------------------------------------------------
LEMMA TriangleIs ==
  ASSUME NEW s, GoodSeries(s), NEW r, r = Setups!AscendingTriangle(s), r # Null
  PROVE  IsSetup(r, "triangles_ascending") /\ (Ranged(s) => r.watch.low <= r.watch.high)
<1>1. PICK close, window, highs, lows, top :
        /\ close = Setups!Last(s).close /\ window = Setups!LastOf(s, 45)
        /\ highs = Setups!Highs(window) /\ lows = Setups!Lows(window)
        /\ top = Setups!Resistance(highs)
  OBVIOUS
<1>2. PICK spread, rise, low :
        /\ spread = Setups!Pct(Setups!Highest(Setups!LastOf(highs, 25)),
                               Setups!Lowest(Setups!LastOf(highs, 25)))
        /\ rise = Setups!Pct(Setups!Lowest(Setups!LastOf(lows, 10)),
                             Setups!Lowest(Setups!FirstOf(lows, 15)))
        /\ low = Setups!Lowest(Setups!LastOf(lows, 20))
  OBVIOUS
<1>3. PICK score :
        score = 45 * Setups!Milli
                  + (18 * Setups!Clamp(rise, 0, 18 * Setups!Milli)) \div 10
                  + 3 * Setups!AtLeast(8 * Setups!Milli - spread, 0)
                  - (15 * Setups!Distance(Setups!Milli * top, close)) \div 10
  OBVIOUS
<1>4. r = Setups!Setup("triangles_ascending", score, Setups!Milli * top, low, close)
  BY <1>1, <1>2, <1>3 DEF Setups!AscendingTriangle
<1>5. Setups!Milli = 1000
  BY DEF Setups!Milli
<1>6. close \in Nat \ {0} /\ GoodSeries(window) /\ (Ranged(s) => Ranged(window))
      /\ Len(window) \in Nat /\ Len(window) <= 45
  <2>1. PICK n \in Nat \ {0} : n = 45
    OBVIOUS
  <2>2. window = Setups!LastOf(s, n)
    BY <1>1, <2>1
  <2>3. /\ GoodSeries(window) /\ (Ranged(s) => Ranged(window))
        /\ Len(window) = IF Len(s) > n THEN n ELSE Len(s)
    BY <2>2, WindowIsGood
  <2>4. Len(s) \in Nat
    BY SeriesValues
  <2>5. Len(window) \in Nat /\ Len(window) <= 45
    <3>1. PICK l, m : l = Len(window) /\ m = Len(s)
      OBVIOUS
    <3>2. l = (IF m > n THEN n ELSE m) /\ m \in Nat /\ n = 45
      BY <2>1, <2>3, <2>4, <3>1
    <3>3. l \in Nat /\ l <= 45
      BY <3>2
    <3>4. QED
      BY <3>1, <3>3
  <2>6. close \in Nat \ {0}
    BY <1>1, LastClose
  <2>7. QED
    BY <2>3, <2>5, <2>6
<1>7. /\ Figures(highs) /\ Figures(lows) /\ Len(highs) = Len(window) /\ Len(lows) = Len(window)
      /\ \A i \in 1..Len(window) : highs[i] = HighOf(window[i]) /\ lows[i] = LowOf(window[i])
  <2>1. /\ Figures(highs) /\ Len(highs) = Len(window)
        /\ \A i \in 1..Len(window) : highs[i] = HighOf(window[i])
    BY <1>1, <1>6, HighsAndLows
  <2>2. /\ Figures(lows) /\ Len(lows) = Len(window)
        /\ \A i \in 1..Len(window) : lows[i] = LowOf(window[i])
    BY <1>1, <1>6, HighsAndLows
  <2>3. QED
    BY <2>1, <2>2
<1>8. /\ top \in Nat \ {0}
      /\ \E k \in 1..Len(highs) : Len(highs) - 20 < k /\ highs[k] <= top
  BY <1>1, <1>6, <1>7, ResistanceIs
<1>9. low \in Nat \ {0} /\ spread \in Int /\ rise \in Int
  <2>1. /\ Figures(Setups!LastOf(highs, 25)) /\ Figures(Setups!LastOf(lows, 10))
        /\ Figures(Setups!FirstOf(lows, 15)) /\ Figures(Setups!LastOf(lows, 20))
    BY <1>7, FiguresWindow
  <2>2. /\ Setups!Highest(Setups!LastOf(highs, 25)) \in Int
        /\ Setups!Lowest(Setups!LastOf(highs, 25)) \in Nat
        /\ Setups!Lowest(Setups!LastOf(lows, 10)) \in Int
        /\ Setups!Lowest(Setups!FirstOf(lows, 15)) \in Nat
        /\ Setups!Lowest(Setups!LastOf(lows, 20)) \in Nat \ {0}
    BY <2>1, Extremes
  <2>3. QED
    BY <1>2, <2>2, PctIsNumber
<1>10. ASSUME Ranged(s) PROVE low <= top
  <2>1. PICK k \in 1..Len(highs) : Len(highs) - 20 < k /\ highs[k] <= top
    BY <1>8
  <2>2. PICK n \in Nat \ {0} : n = 20
    OBVIOUS
  <2>3. PICK m, w, l : m = Len(lows) /\ w = Setups!LastOf(lows, n) /\ l = Len(w)
    OBVIOUS
  <2>4. /\ Figures(w) /\ l = (IF m > n THEN n ELSE m)
        /\ \A i \in 1..l : w[i] = lows[m - l + i]
    BY <1>7, <2>3, FiguresWindow
  <2>5. m \in Nat /\ k \in 1..m /\ m - 20 < k
    BY <1>6, <1>7, <2>1, <2>3
  <2>6. PICK i : i = k - (m - l)
    OBVIOUS
  <2>7. i \in 1..l /\ m - l + i = k
    <3>1. CASE m > n
      BY <2>2, <2>4, <2>5, <2>6, <3>1
    <3>2. CASE ~(m > n)
      BY <2>2, <2>4, <2>5, <2>6, <3>2
    <3>3. QED
      BY <3>1, <3>2
  <2>8. w[i] = lows[k] /\ low <= w[i] /\ w[i] \in Nat
    BY <1>2, <2>2, <2>3, <2>4, <2>7, Extremes
  <2>9. lows[k] <= highs[k]
    BY <1>6, <1>7, <1>10, <2>1 DEF Ranged
  <2>10. highs[k] \in Nat /\ top \in Nat
    BY <1>7, <1>8, <2>1, Extremes
  <2>11. QED
    BY <1>9, <2>1, <2>8, <2>9, <2>10
<1>11. score \in Int
  <2>1. PICK a, b, c, d, e :
          /\ a = Setups!Clamp(rise, 0, 18 * Setups!Milli) /\ b = (18 * a) \div 10
          /\ c = Setups!AtLeast(8 * Setups!Milli - spread, 0)
          /\ d = Setups!Distance(Setups!Milli * top, close) /\ e = (15 * d) \div 10
    OBVIOUS
  <2>2. /\ 18 * Setups!Milli \in Int /\ 8 * Setups!Milli - spread \in Int
        /\ Setups!Milli * top \in Int
    BY <1>5, <1>8, <1>9
  <2>3. a \in Int
    BY <1>9, <2>1, <2>2 DEF Setups!Clamp, Setups!AtLeast, Setups!AtMost
  <2>4. c \in Int
    BY <2>1, <2>2 DEF Setups!AtLeast
  <2>5. d \in Int
    BY <1>6, <2>1, <2>2, DistanceIsNumber
  <2>6. b \in Int /\ e \in Int
    BY <2>1, <2>3, <2>5, Quotients
  <2>7. QED
    BY <1>3, <1>5, <2>1, <2>3, <2>4, <2>5, <2>6
<1>12. Setups!Milli * top \in Int
  BY <1>5, <1>8
<1>13. /\ IsSetup(r, "triangles_ascending")
       /\ r.watch = [low |-> Setups!Milli * low, high |-> Setups!Milli * top]
  BY <1>4, <1>6, <1>11, <1>12, SetupIs
<1>14. QED
  BY <1>5, <1>8, <1>9, <1>10, <1>13
--------------------------------------------------------------------------------
LEMMA LeanIsNumber ==
  ASSUME NEW v, Figures(v)
  PROVE  Setups!Lean(v) \in Int
<1> DEFINE t == [i \in DOMAIN v |-> (2 * i - Len(v) - 1) * v[i]]
<1>1. /\ Len(v) \in Nat /\ DOMAIN v = 1..Len(v) /\ \A i \in 1..Len(v) : v[i] \in Int
  BY DEF Figures
<1>2. ASSUME NEW i \in 1..Len(v) PROVE (2 * i - Len(v) - 1) * v[i] \in Int
  <2>1. PICK a, b : a = 2 * i - Len(v) - 1 /\ b = v[i]
    OBVIOUS
  <2>2. a \in Int /\ b \in Int
    BY <1>1, <2>1
  <2>3. QED
    BY <2>1, <2>2
<1>3. t \in [1..Len(v) -> Int]
  BY <1>1, <1>2
<1>4. t \in Seq(Int)
  BY <1>1, <1>3, SequenceOf
<1>5. Setups!Lean(v) = Total(t)
  BY DEF Setups!Lean, Setups!Total, Total
<1> HIDE DEF t
<1>6. QED
  BY <1>4, <1>5, TotalIs

LEMMA WedgeIs ==
  ASSUME NEW s, GoodSeries(s), NEW r, r = Setups!FallingWedge(s), r # Null
  PROVE  IsSetup(r, "wedges_falling")
<1>1. PICK close, window, highs, lows, n :
        /\ close = Setups!Last(s).close /\ window = Setups!LastOf(s, 40)
        /\ highs = Setups!Highs(window) /\ lows = Setups!Lows(window) /\ n = Len(window)
  OBVIOUS
<1>2. PICK before, after, low :
        /\ before = Setups!Highest(Setups!FirstOf(highs, 10))
                      - Setups!Lowest(Setups!FirstOf(lows, 10))
        /\ after = Setups!Highest(Setups!LastOf(highs, 10))
                     - Setups!Lowest(Setups!LastOf(lows, 10))
        /\ low = Setups!Lowest(Setups!LastOf(lows, 15))
  OBVIOUS
<1>3. PICK narrows, top :
        /\ narrows = IF before > 0
                     THEN 60 * Setups!Milli - (60 * Setups!Milli * after) \div before ELSE 0
        /\ top = Setups!Milli * Head(highs)
                   + (6 * Setups!Milli * Setups!Lean(highs)) \div (n * (n + 1))
  OBVIOUS
<1>4. PICK score :
        score = 40 * Setups!Milli + Setups!Clamp(narrows, 0, 35 * Setups!Milli)
                  + (IF Setups!Lean(highs) < 0 /\ Setups!Lean(lows) < 0
                     THEN 12 * Setups!Milli ELSE -15 * Setups!Milli)
                  - (IF top > 0 THEN (12 * Setups!Distance(top, close)) \div 10 ELSE 0)
  OBVIOUS
<1>5. r = Setups!Setup("wedges_falling", score, top, low, close)
  BY <1>1, <1>2, <1>3, <1>4 DEF Setups!FallingWedge
<1>6. Setups!Milli = 1000
  BY DEF Setups!Milli
<1>7. close \in Nat \ {0} /\ GoodSeries(window) /\ n \in Nat \ {0}
  BY <1>1, LastClose, WindowIsGood, SeriesValues
<1>8. Figures(highs) /\ Figures(lows) /\ Len(highs) = n
  BY <1>1, <1>7, HighsAndLows
<1>9. before \in Int /\ after \in Int
  <2>1. /\ Figures(Setups!FirstOf(highs, 10)) /\ Figures(Setups!FirstOf(lows, 10))
        /\ Figures(Setups!LastOf(highs, 10)) /\ Figures(Setups!LastOf(lows, 10))
    BY <1>8, FiguresWindow
  <2>2. /\ Setups!Highest(Setups!FirstOf(highs, 10)) \in Int
        /\ Setups!Lowest(Setups!FirstOf(lows, 10)) \in Int
        /\ Setups!Highest(Setups!LastOf(highs, 10)) \in Int
        /\ Setups!Lowest(Setups!LastOf(lows, 10)) \in Int
    BY <2>1, Extremes
  <2>3. QED
    BY <1>2, <2>2
<1>10. narrows \in Int
  <2>1. CASE before > 0
    <3>1. PICK k : k = 60 * Setups!Milli
      OBVIOUS
    <3>2. k \in Int /\ before \in Nat \ {0}
      BY <1>6, <1>9, <2>1, <3>1
    <3>3. (k * after) \div before \in Int
      BY <1>9, <3>2, Quotients
    <3>4. narrows = k - (k * after) \div before
      BY <1>3, <2>1, <3>1
    <3>5. QED
      BY <3>2, <3>3, <3>4
  <2>2. CASE ~(before > 0)
    BY <1>3, <2>2
  <2>3. QED
    BY <2>1, <2>2
<1>11. top \in Int
  <2>1. PICK k, lean, b : /\ k = 6 * Setups!Milli /\ lean = Setups!Lean(highs)
                          /\ b = n * (n + 1)
    OBVIOUS
  <2>2. k \in Int /\ lean \in Int
    BY <1>6, <1>8, <2>1, LeanIsNumber
  <2>3. b \in Nat \ {0}
    <3>1. n * (n + 1) \in Int /\ 1 * (n + 1) <= n * (n + 1) /\ 1 * (n + 1) = n + 1
      <4>1. 1 \in Nat /\ n \in Nat /\ n + 1 \in Nat /\ 1 <= n
        BY <1>7
      <4>2. 1 * (n + 1) <= n * (n + 1)
        BY <4>1, TimesMonotone
      <4>3. QED
        BY <4>1, <4>2
    <3>2. QED
      BY <1>7, <2>1, <3>1
  <2>4. (k * lean) \div b \in Int
    BY <2>2, <2>3, Quotients
  <2>5. Head(highs) \in Int
    <3>1. Head(highs) = highs[1] /\ 1 \in 1..Len(highs)
      BY <1>7, <1>8 DEF Figures
    <3>2. QED
      BY <1>8, <3>1, Extremes
  <2>6. top = Setups!Milli * Head(highs) + (k * lean) \div b
    BY <1>3, <2>1
  <2>7. QED
    BY <1>6, <2>4, <2>5, <2>6
<1>12. score \in Int
  <2>1. PICK a, d, e :
          /\ a = Setups!Clamp(narrows, 0, 35 * Setups!Milli)
          /\ d = Setups!Distance(top, close) /\ e = (12 * d) \div 10
    OBVIOUS
  <2>2. 35 * Setups!Milli \in Int
    BY <1>6
  <2>3. a \in Int
    BY <1>10, <2>1, <2>2 DEF Setups!Clamp, Setups!AtLeast, Setups!AtMost
  <2>4. d \in Int
    BY <1>7, <1>11, <2>1, DistanceIsNumber
  <2>5. e \in Int
    BY <2>1, <2>4, Quotients
  <2>6. QED
    BY <1>4, <1>6, <2>1, <2>3, <2>5
<1>13. QED
  BY <1>5, <1>7, <1>11, <1>12, SetupIs

--------------------------------------------------------------------------------
LEMMA LowestAtIs ==
  ASSUME NEW v, Figures(v), NEW a \in 1..Len(v), NEW b \in a..Len(v)
  PROVE  Setups!LowestAt(v, a, b) \in a..b
<1> DEFINE K == {i \in a..b : \A k \in a..b : v[i] <= v[k]}
           l == b - a + 1
           f == [x \in 1..l |-> v[a - 1 + x]]
<1>1. Len(v) \in Nat /\ a \in Nat \ {0} /\ b \in Nat /\ a <= b /\ l \in Nat \ {0}
  BY DEF Figures
<1>2. \A i \in a..b : v[i] \in Int
  BY <1>1, Extremes
<1>3. \A x \in 1..l : a - 1 + x \in a..b /\ f[x] = v[a - 1 + x] /\ f[x] \in Int
  BY <1>1, <1>2
<1> HIDE DEF f
<1>4. PICK x \in 1..l : \A y \in 1..l : f[y] >= f[x]
  BY <1>1, <1>3, Least
<1>5. ASSUME NEW k \in a..b PROVE v[a - 1 + x] <= v[k]
  <2>1. k - a + 1 \in 1..l /\ a - 1 + (k - a + 1) = k
    BY <1>1
  <2>2. f[k - a + 1] = v[k] /\ f[x] = v[a - 1 + x]
    BY <1>3, <2>1
  <2>3. f[k - a + 1] \in Int /\ f[x] \in Int /\ f[k - a + 1] >= f[x]
    BY <1>3, <1>4, <2>1
  <2>4. QED
    BY <2>2, <2>3
<1>6. a - 1 + x \in K
  BY <1>3, <1>5
<1>7. K \subseteq Nat /\ K \subseteq a..b
  BY <1>1
<1>8. Setups!LowestAt(v, a, b) = Min(K)
  BY SetupsHelpers DEF Setups!LowestAt
<1> HIDE DEF K
<1>9. PICK z \in K : \A y \in K : z <= y
  BY <1>6, <1>7, LeastNat
<1>10. Min(K) \in K
  BY <1>9 DEF Min
<1>11. QED
  BY <1>7, <1>8, <1>10

LEMMA BottomsSetupIs ==
  ASSUME NEW s, GoodSeries(s), NEW r, r = Setups!DoubleBottomSetup(s), r # Null
  PROVE  IsSetup(r, "double_bottoms") /\ (Ranged(s) => r.watch.low <= r.watch.high)
<1>1. PICK close, window, lows :
        /\ close = Setups!Last(s).close /\ window = Setups!LastOf(s, 65)
        /\ lows = Setups!Lows(window)
  OBVIOUS
<1>2. PICK first, second :
        /\ first = Setups!LowestAt(lows, 1, 32)
        /\ second = Setups!LowestAt(lows, 33, Len(lows))
  OBVIOUS
<1>3. PICK gap, part, top, apart, low :
        /\ gap = Setups!Pct(Setups!Max({lows[first], lows[second]}),
                            Setups!Min({lows[first], lows[second]}))
        /\ part = SubSeq(window, first, second)
        /\ top = Setups!Highest(Setups!Highs(part))
        /\ apart = second - first
        /\ low = Setups!Min({lows[first], lows[second]})
  OBVIOUS
<1>4. PICK score :
        score = 48 * Setups!Milli + 4 * Setups!AtLeast(8 * Setups!Milli - gap, 0)
                  + Setups!AtMost(apart, 30) * (Setups!Milli \div 2)
                  - (15 * Setups!Distance(Setups!Milli * top, close)) \div 10
                  - (IF apart < 12 THEN 15 * Setups!Milli ELSE 0)
  OBVIOUS
<1>5. r = IF Len(lows) < 40 THEN Null
          ELSE Setups!Setup("double_bottoms", score, Setups!Milli * top, low, close)
  BY <1>1, <1>2, <1>3, <1>4 DEF Setups!DoubleBottomSetup
<1>6. /\ ~(Len(lows) < 40)
      /\ r = Setups!Setup("double_bottoms", score, Setups!Milli * top, low, close)
  BY <1>5
<1>7. Setups!Milli = 1000
  BY DEF Setups!Milli
<1>8. close \in Nat \ {0} /\ GoodSeries(window) /\ (Ranged(s) => Ranged(window))
  BY <1>1, LastClose, WindowIsGood
<1>9. /\ Figures(lows) /\ Len(lows) = Len(window)
      /\ \A i \in 1..Len(window) : lows[i] = LowOf(window[i])
  BY <1>1, <1>8, HighsAndLows
<1>10. PICK m : m = Len(lows)
  OBVIOUS
<1>11. m \in Nat /\ 40 <= m
  BY <1>6, <1>9, <1>10 DEF Figures
<1>12. first \in 1..32 /\ second \in 33..m
  <2>1. PICK a, b, c : a = 1 /\ b = 32 /\ c = 33
    OBVIOUS
  <2>2. a \in 1..m /\ b \in a..m /\ c \in 1..m /\ m \in c..m
    BY <1>11, <2>1
  <2>3. first \in a..b
    BY <1>2, <1>9, <1>10, <2>1, <2>2, LowestAtIs
  <2>4. second \in c..m
    BY <1>2, <1>9, <1>10, <2>1, <2>2, LowestAtIs
  <2>5. QED
    BY <2>1, <2>3, <2>4
<1>13. first \in 1..m /\ second \in 1..m /\ second \in first..m /\ apart \in Int
  BY <1>3, <1>11, <1>12
<1>14. PICK x, y : x = lows[first] /\ y = lows[second]
  OBVIOUS
<1>15. x \in Nat \ {0} /\ y \in Nat \ {0}
  BY <1>9, <1>10, <1>13, <1>14, Extremes
<1>16. gap \in Int
  BY <1>3, <1>14, <1>15, GapIsNumber
<1>17. low \in Nat /\ low <= x
  <2>1. low = Min({x, y})
    BY <1>3, <1>14, SetupsHelpers
  <2>2. x \in Int /\ y \in Int
    BY <1>15
  <2>3. QED
    BY <1>15, <2>1, <2>2, MinOfTwo
<1>18. /\ GoodSeries(part) /\ part[1] = window[first] /\ 1 \in 1..Len(part)
       /\ Ranged(window) => Ranged(part)
  <2>1. first \in 1..Len(window) /\ second \in first..Len(window)
    BY <1>9, <1>10, <1>13
  <2>2. /\ GoodSeries(SubSeq(window, first, second)) /\ 1 \in 1..Len(SubSeq(window, first, second))
        /\ SubSeq(window, first, second)[1] = window[first]
        /\ Ranged(window) => Ranged(SubSeq(window, first, second))
    BY <1>8, <2>1, PartIsGood, Zenon
  <2>3. part = SubSeq(window, first, second)
    BY <1>3
  <2>4. QED
    BY <2>2, <2>3, Zenon
<1>19. /\ Figures(Setups!Highs(part)) /\ Len(Setups!Highs(part)) = Len(part)
       /\ \A i \in 1..Len(part) : Setups!Highs(part)[i] = HighOf(part[i])
  BY <1>18, HighsAndLows
<1>20. top \in Nat \ {0} /\ HighOf(part[1]) <= top /\ HighOf(part[1]) \in Nat
  <2>1. PICK v : v = Setups!Highs(part)
    OBVIOUS
  <2>2. /\ Setups!Highest(v) \in Nat \ {0} /\ v[1] <= Setups!Highest(v) /\ v[1] \in Nat
    BY <1>18, <1>19, <2>1, Extremes
  <2>3. v[1] = HighOf(part[1]) /\ top = Setups!Highest(v)
    BY <1>3, <1>18, <1>19, <2>1
  <2>4. QED
    BY <2>2, <2>3
<1>21. ASSUME Ranged(s) PROVE low <= top
  <2>1. LowOf(part[1]) <= HighOf(part[1])
    BY <1>8, <1>18, <1>21 DEF Ranged
  <2>2. LowOf(part[1]) = x
    BY <1>9, <1>10, <1>13, <1>14, <1>18
  <2>3. QED
    BY <1>15, <1>17, <1>20, <2>1, <2>2
<1>22. Setups!Milli * top \in Int
  BY <1>7, <1>20
<1>23. score \in Int
  <2>1. PICK a, b, c, d, e :
          /\ a = Setups!AtLeast(8 * Setups!Milli - gap, 0)
          /\ b = Setups!AtMost(apart, 30) /\ c = Setups!Milli \div 2
          /\ d = Setups!Distance(Setups!Milli * top, close) /\ e = (15 * d) \div 10
    OBVIOUS
  <2>2. a \in Int
    BY <1>7, <1>16, <2>1 DEF Setups!AtLeast
  <2>3. b \in Int
    BY <1>13, <2>1 DEF Setups!AtMost
  <2>4. c = 500
    BY <1>7, <2>1
  <2>5. d \in Int
    BY <1>8, <1>22, <2>1, DistanceIsNumber
  <2>6. e \in Int
    BY <2>1, <2>5, Quotients
  <2>7. b * c \in Int
    BY <2>3, <2>4
  <2>8. score = 48 * Setups!Milli + 4 * a + b * c - e
                  - (IF apart < 12 THEN 15 * Setups!Milli ELSE 0)
    BY <1>4, <2>1
  <2>9. QED
    BY <1>7, <2>2, <2>6, <2>7, <2>8
<1>24. /\ IsSetup(r, "double_bottoms")
       /\ r.watch = [low |-> Setups!Milli * low, high |-> Setups!Milli * top]
  BY <1>6, <1>8, <1>22, <1>23, SetupIs
<1>25. QED
  BY <1>7, <1>17, <1>20, <1>21, <1>24

--------------------------------------------------------------------------------
(* The setups in their order.                                                   *)

SetupIds == {"bull_flags", "triangles_ascending", "wedges_falling", "double_bottoms"}

FoundSetups(s) ==
  {r \in {Setups!BullFlag(s), Setups!AscendingTriangle(s), Setups!FallingWedge(s),
          Setups!DoubleBottomSetup(s)} : r # Null}

LEMMA SetupsFound ==
  ASSUME NEW s, GoodSeries(s)
  PROVE  /\ IsFiniteSet(FoundSetups(s))
         /\ \A r \in FoundSetups(s) :
              /\ r.id \in SetupIds /\ r.score \in Int /\ r.distance \in Int
              /\ Ranged(s) /\ r.id # "wedges_falling" => r.watch.low <= r.watch.high
         /\ \A r, t \in FoundSetups(s) : r.id = t.id => r = t
<1> DEFINE all == {Setups!BullFlag(s), Setups!AscendingTriangle(s), Setups!FallingWedge(s),
                   Setups!DoubleBottomSetup(s)}
           F == FoundSetups(s)
<1>1. IsFiniteSet(F)
  <2>1. PICK a, b, c, d : /\ a = Setups!BullFlag(s) /\ b = Setups!AscendingTriangle(s)
                          /\ c = Setups!FallingWedge(s) /\ d = Setups!DoubleBottomSetup(s)
    OBVIOUS
  <2>2. IsFiniteSet({a, b, c, d})
    <3>1. IsFiniteSet({}) /\ {a, b, c, d} = ((({} \cup {a}) \cup {b}) \cup {c}) \cup {d}
      BY FS_EmptySet
    <3>2. IsFiniteSet((({} \cup {a}) \cup {b}) \cup {c})
      BY <3>1, FS_AddElement
    <3>3. QED
      BY <3>1, <3>2, FS_AddElement
  <2>3. F \in SUBSET {a, b, c, d}
    BY <2>1 DEF FoundSetups
  <2>4. QED
    BY <2>2, <2>3, FS_Subset
<1>2. ASSUME NEW r \in F
      PROVE  /\ r.id \in SetupIds /\ r.score \in Int /\ r.distance \in Int
             /\ r.id = "bull_flags" => r = Setups!BullFlag(s)
             /\ r.id = "triangles_ascending" => r = Setups!AscendingTriangle(s)
             /\ r.id = "wedges_falling" => r = Setups!FallingWedge(s)
             /\ r.id = "double_bottoms" => r = Setups!DoubleBottomSetup(s)
             /\ Ranged(s) /\ r.id # "wedges_falling" => r.watch.low <= r.watch.high
  <2>1. r # Null /\ r \in all
    BY DEF FoundSetups
  <2>2. CASE r = Setups!BullFlag(s)
    <3>1. IsSetup(r, "bull_flags") /\ (Ranged(s) => r.watch.low <= r.watch.high)
      BY <2>1, <2>2, BullFlagIs
    <3>2. QED
      BY <2>2, <3>1 DEF IsSetup, SetupIds
  <2>3. CASE r = Setups!AscendingTriangle(s)
    <3>1. IsSetup(r, "triangles_ascending") /\ (Ranged(s) => r.watch.low <= r.watch.high)
      BY <2>1, <2>3, TriangleIs
    <3>2. QED
      BY <2>3, <3>1 DEF IsSetup, SetupIds
  <2>4. CASE r = Setups!FallingWedge(s)
    <3>1. IsSetup(r, "wedges_falling")
      BY <2>1, <2>4, WedgeIs
    <3>2. QED
      BY <2>4, <3>1 DEF IsSetup, SetupIds
  <2>5. CASE r = Setups!DoubleBottomSetup(s)
    <3>1. IsSetup(r, "double_bottoms") /\ (Ranged(s) => r.watch.low <= r.watch.high)
      BY <2>1, <2>5, BottomsSetupIs
    <3>2. QED
      BY <2>5, <3>1 DEF IsSetup, SetupIds
  <2>6. QED
    BY <2>1, <2>2, <2>3, <2>4, <2>5
<1>3. ASSUME NEW r \in F, NEW t \in F, r.id = t.id PROVE r = t
  BY <1>2, <1>3 DEF SetupIds
<1>4. QED
  BY <1>1, <1>2, <1>3

\* Setup r may be listed above setup t (BestSetupFirst).
Away(r) == IF r.distance = 0 THEN 99900 ELSE r.distance
Above(r, t) == \/ r.score > t.score
               \/ r.score = t.score /\ Away(r) <= Away(t)

\* The ranking is a strict order of the setups.
LEMMA SetupsRanked ==
  ASSUME NEW F, \A r \in F : r.id \in SetupIds /\ r.score \in Int /\ r.distance \in Int,
         \A r, t \in F : r.id = t.id => r = t,
         NEW before, before = [r \in F |-> {t \in F : Setups!Ranks(t, r)}]
  PROVE  Orders(before, F) /\ \A r, t \in F : t \in before[r] => Above(t, r)
<1> DEFINE far(r) == Setups!RankedDistance(r)
           rank(r) == Setups!NameRank[r.id]
<1>1. ASSUME NEW r \in F
      PROVE  r.score \in Int /\ far(r) \in Int /\ rank(r) \in 1..4
  <2>1. far(r) \in Int
    BY DEF Setups!RankedDistance
  <2>2. rank(r) \in 1..4
    BY DEF Setups!NameRank, SetupIds
  <2>3. QED
    BY <2>1, <2>2
<1>2. ASSUME NEW r \in F, NEW t \in F, rank(r) = rank(t) PROVE r = t
  <2>1. \A a, b \in SetupIds : Setups!NameRank[a] = Setups!NameRank[b] => a = b
    BY DEF Setups!NameRank, SetupIds
  <2>2. r.id = t.id
    BY <1>2, <2>1
  <2>3. QED
    BY <2>2
<1>3. \A r, t : Setups!Ranks(t, r) <=>
        \/ t.score > r.score
        \/ t.score = r.score /\ far(t) < far(r)
        \/ t.score = r.score /\ far(t) = far(r) /\ rank(t) < rank(r)
  BY DEF Setups!Ranks
<1> HIDE DEF far, rank
<1>4. before \in [F -> SUBSET F] /\ \A r, t \in F : t \in before[r] <=> Setups!Ranks(t, r)
  OBVIOUS
<1>5. \A r \in F : r \notin before[r]
  BY <1>1, <1>3, <1>4
<1>6. ASSUME NEW r \in F, NEW t \in F PROVE r = t \/ r \in before[t] \/ t \in before[r]
  <2>1. /\ r.score \in Int /\ far(r) \in Int /\ rank(r) \in Int
        /\ t.score \in Int /\ far(t) \in Int /\ rank(t) \in Int
    BY <1>1
  <2>2. rank(r) = rank(t) \/ Setups!Ranks(t, r) \/ Setups!Ranks(r, t)
    BY <1>3, <2>1
  <2>3. QED
    BY <1>2, <1>4, <2>2
<1>7. ASSUME NEW r \in F, NEW t \in F, r \in before[t], NEW u \in before[r]
      PROVE  u \in before[t]
  <2>1. u \in F
    BY <1>4
  <2>2. Setups!Ranks(r, t) /\ Setups!Ranks(u, r)
    BY <1>4, <1>7, <2>1
  <2>3. /\ r.score \in Int /\ far(r) \in Int /\ rank(r) \in Int
        /\ t.score \in Int /\ far(t) \in Int /\ rank(t) \in Int
        /\ u.score \in Int /\ far(u) \in Int /\ rank(u) \in Int
    BY <1>1, <2>1
  <2>4. Setups!Ranks(u, t)
    BY <1>3, <2>2, <2>3
  <2>5. QED
    BY <1>4, <2>1, <2>4
<1>8. ASSUME NEW r \in F, NEW t \in F, t \in before[r] PROVE Above(t, r)
  <2>1. /\ Setups!Ranks(t, r)
        /\ far(r) \in Int /\ far(t) \in Int
    BY <1>1, <1>4, <1>8
  <2>2. far(r) = Away(r) /\ far(t) = Away(t)
    BY DEF far, Away, Setups!RankedDistance
  <2>3. QED
    BY <1>3, <2>1, <2>2 DEF Above
<1>9. Orders(before, F)
  BY <1>4, <1>5, <1>6, <1>7 DEF Orders
<1>10. QED
  BY <1>8, <1>9

\* The setups that are shown are those that were found, the best first.
LEMMA SetupsInOrder ==
  ASSUME NEW s, GoodSeries(s),
         NEW setups, setups = Setups!DetectPatternSetups(s).setups
  PROVE  /\ Len(setups) \in Nat /\ DOMAIN setups = 1..Len(setups)
         /\ \A i \in DOMAIN setups : setups[i] \in FoundSetups(s)
         /\ \A i, k \in DOMAIN setups : i < k => Above(setups[i], setups[k])
<1> DEFINE F == FoundSetups(s)
           before == [r \in F |-> {t \in F : Setups!Ranks(t, r)}]
           n == Cardinality(F)
<1>1. setups = Arranged(before)
  <2> DEFINE all == <<Setups!BullFlag(s), Setups!AscendingTriangle(s),
                      Setups!FallingWedge(s), Setups!DoubleBottomSetup(s)>>
             found == {r \in Setups!ToSet(all) : r # Null}
  <2>1. setups = Setups!Arranged([r \in found |-> {t \in found : Setups!Ranks(t, r)}])
    BY DEF Setups!DetectPatternSetups
  <2>2. Setups!ToSet(all) = {Setups!BullFlag(s), Setups!AscendingTriangle(s),
                             Setups!FallingWedge(s), Setups!DoubleBottomSetup(s)}
    BY SetupsHelpers DEF ToSet
  <2>3. found = F
    BY <2>2 DEF FoundSetups
  <2>4. ASSUME NEW f PROVE Setups!Arranged(f) = Arranged(f)
    BY DEF Setups!Arranged, Arranged, Setups!Cardinality, Cardinality
  <2> HIDE DEF found, F
  <2>5. QED
    BY <2>1, <2>3, <2>4
<1>2. IsFiniteSet(F) /\ Orders(before, F)
      /\ \A r, t \in F : t \in before[r] => Above(t, r)
  BY SetupsFound, SetupsRanked
<1> HIDE DEF before, F
<1>3. /\ n \in Nat /\ setups \in [1..n -> F]
      /\ \A i, k \in 1..n : i < k => setups[i] \in before[setups[k]]
  BY <1>1, <1>2, ArrangedIs
<1>4. Len(setups) = n /\ DOMAIN setups = 1..n
  <2> HIDE DEF n
  <2>1. QED
    BY <1>3
<1> HIDE DEF n
<1>5. ASSUME NEW i \in 1..n, NEW k \in 1..n, i < k PROVE Above(setups[i], setups[k])
  <2>1. setups[i] \in F /\ setups[k] \in F /\ setups[i] \in before[setups[k]]
    BY <1>3, <1>5
  <2>2. QED
    BY <1>2, <2>1
<1>6. QED
  BY <1>3, <1>4, <1>5 DEF F

--------------------------------------------------------------------------------
(* The patterns of a run (PatternsAreSound).                                    *)

\* Whatever the source returned, the setups of a run come the best first, and of those
\* with one score the nearest to its confirmation (evidence/patterns.py).
THEOREM BestSetupsComeFirst == Spec => []BestSetupFirst
<1>1. EvidentInv => BestSetupFirst
  <2> SUFFICES ASSUME EvidentInv, NEW r \in Evident("pattern_setup"),
                      NEW i \in DOMAIN r.payload.setups, NEW k \in DOMAIN r.payload.setups,
                      i < k
               PROVE  Above(r.payload.setups[i], r.payload.setups[k])
    BY DEF BestSetupFirst, Above, Away
  <2>1. GoodSeries(Prices) /\ r.payload = Setups!DetectPatternSetups(Prices)
    BY DEF Evident, EvidentInv, FromPrices
  <2>2. PICK setups : setups = r.payload.setups
    OBVIOUS
  <2>3. Above(setups[i], setups[k])
    BY <2>1, <2>2, SetupsInOrder
  <2>4. QED
    BY <2>2, <2>3
<1>2. QED
  BY <1>1, EvidenceIsOfTheRecords, PTL

\* When the low of no bar is above its high, what the pattern rules report is what they
\* say it is: a double bottom has its lows and its neckline, a zone to watch is a range,
\* and the setups are in order (evidence/patterns.py).
THEOREM PatternsHold ==
  ASSUME BarsAreRanges
  PROVE  Spec => []PatternsAreSound
<1>1. ASSUME CollectInv, PricesInv, EvidentInv, NEW r \in ToSet(bundle),
             r.type \in {"pattern_evidence", "pattern_setup"}
      PROVE  GoodSeries(Prices) /\ Ranged(Prices)
  <2>1. GoodSeries(Prices) /\ Prices # <<>>
    BY <1>1 DEF EvidentInv, FromPrices, GoodSeries
  <2>2. Prices = PriceSeries(market.price) /\ market.price # Raised
    BY <1>1, <2>1, PricesAre DEF CollectInv
  <2>3. PICK case \in Cases : market = case.market
    BY <1>1 DEF CollectInv
  <2>4. QED
    BY <2>1, <2>2, <2>3 DEF BarsAreRanges
<1>2. CollectInv /\ PricesInv /\ EvidentInv => BottomsAreLowest
  <2> SUFFICES ASSUME CollectInv, PricesInv, EvidentInv,
                      NEW r \in Evident("pattern_evidence"), NEW i \in DOMAIN r.payload
               PROVE  LET found == r.payload[i]
                          low(k) == LowOf(Prices[k])
                          lower == Min({low(found.first), low(found.second)})
                      IN found.id = "double_bottom" /\ found.verdict = "detected"
                         => /\ \A k \in found.first..found.second : low(k) >= lower
                            /\ \E k \in found.first..found.second :
                                 /\ k \notin {found.first, found.second}
                                 /\ found.neckline = HighOf(Prices[k])
                            /\ found.neckline >= lower
    BY DEF BottomsAreLowest
  <2>1. r \in ToSet(bundle) /\ r.type = "pattern_evidence"
    BY DEF Evident
  <2>2. GoodSeries(Prices) /\ Ranged(Prices)
    BY <1>1, <2>1
  <2>3. r.payload = Setups!DetectPatternEvidence(Prices)
    BY <2>1 DEF EvidentInv, FromPrices
  <2>4. PICK s, found : s = Prices /\ found = r.payload[i]
    OBVIOUS
  <2>5. ASSUME found.id = "double_bottom", found.verdict = "detected"
        PROVE  LET low(k) == LowOf(s[k])
                   lower == Min({low(found.first), low(found.second)})
               IN /\ \A k \in found.first..found.second : low(k) >= lower
                  /\ \E k \in found.first..found.second :
                       k \notin {found.first, found.second} /\ found.neckline = HighOf(s[k])
                  /\ found.neckline >= lower
    BY <2>2, <2>3, <2>4, <2>5, BottomsHold
  <2>6. QED
    BY <2>4, <2>5
<1>3. CollectInv /\ PricesInv /\ EvidentInv => WatchZoneIsRange
  <2> SUFFICES ASSUME CollectInv, PricesInv, EvidentInv,
                      NEW r \in Evident("pattern_setup"), NEW s \in ToSet(r.payload.setups),
                      s.id # "wedges_falling"
               PROVE  s.watch.low <= s.watch.high
    BY DEF WatchZoneIsRange
  <2>1. r \in ToSet(bundle) /\ r.type = "pattern_setup"
    BY DEF Evident
  <2>2. GoodSeries(Prices) /\ Ranged(Prices)
    BY <1>1, <2>1
  <2>3. r.payload = Setups!DetectPatternSetups(Prices)
    BY <2>1 DEF EvidentInv, FromPrices
  <2>4. PICK setups : setups = r.payload.setups
    OBVIOUS
  <2>5. \A i \in DOMAIN setups : setups[i] \in FoundSetups(Prices)
    BY <2>2, <2>3, <2>4, SetupsInOrder
  <2>6. s \in FoundSetups(Prices)
    BY <2>4, <2>5 DEF ToSet
  <2>7. QED
    BY <2>2, <2>6, SetupsFound
<1>4. CollectInv /\ PricesInv /\ EvidentInv /\ BestSetupFirst => PatternsAreSound
  BY <1>2, <1>3 DEF PatternsAreSound
<1>5. QED
  BY <1>4, CollectionHolds, EvidenceIsOfTheRecords, BestSetupsComeFirst, PTL
================================================================================
