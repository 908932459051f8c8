------------------------------- MODULE Vnstock -------------------------------
(***************************************************************************)
(* dataflows/providers/vnstock.py: what the answers of the vendor's        *)
(* library become. A call of the library raises, or answers with rows;     *)
(* each of the three dataset groups turns its own answers into records.    *)
(*                                                                         *)
(* A price row is a bar (Series) whose date may be NoDate, which is read   *)
(* as today, or BadDate, which does not parse. A statement maps the items  *)
(* of its rows to their values by period; periods are numbers, and larger  *)
(* is later. The company overview is one row, or NoRow. A quotient is kept *)
(* as the pair of its terms.                                               *)
(***************************************************************************)
EXTENDS Integers, Sequences, SequencesExt, Selection

CONSTANTS Raised,      \* what a call that raised an exception answers
          NoRow,       \* no company overview
          Null,        \* None
          NoDate, BadDate, Today

Dated(date) == IF date = NoDate THEN Today ELSE date

\* A row of the prices: what is not known of a bar is zero, and nothing is below it.
PriceRow == [date : Int \cup {NoDate, BadDate}, open : Nat, high : Nat, low : Nat,
             close : Nat, volume : Nat]

-----------------------------------------------------------------------------
\* An exception of the call, or of a date on the way through the rows.
PriceRaises(answer) ==
  answer = Raised \/ \E i \in DOMAIN answer : answer[i].date = BadDate

\* A row counts when it has a close; a close of zero is no close.
PriceSeries(answer) ==
  LET rows == Picked(answer, {i \in DOMAIN answer : answer[i].close # 0})
  IN [i \in DOMAIN rows |-> [rows[i] EXCEPT !.date = Dated(@)]]

\* One record for the whole series, of the day of its last bar.
PriceRecords(answer) ==
  LET series == PriceSeries(answer)
  IN IF series = <<>> THEN <<>>
     ELSE << [dataset |-> "prices", key |-> "prices", source |-> "vnstock_prices",
              time |-> Last(series).date, payload |-> series] >>

-----------------------------------------------------------------------------
\* A statement that raised counts as one without rows.
Rows(statement) == IF statement = Raised THEN <<>> ELSE statement

\* The columns of the income statement that are periods, and these the latest first.
AllPeriods(income) == UNION {DOMAIN income[item] : item \in DOMAIN income}

Periods(income) ==
  LET all == AllPeriods(income)
  IN Arranged([p \in all |-> {q \in all : q > p}])

Metric(statement, item, period) ==
  IF item \in DOMAIN statement /\ period \in DOMAIN statement[item]
  THEN statement[item][period] ELSE Null

\* The first of the names a bank, an insurer or a factory gives its revenue.
FirstMetric(statement, items, period) ==
  LET given == SelectSeq(items, LAMBDA item : Metric(statement, item, period) # Null)
  IN IF given = <<>> THEN Null ELSE Metric(statement, Head(given), period)

Revenue == <<"net_sales", "revenue">>

Ratio(top, bottom) ==
  IF top = Null \/ bottom = Null \/ bottom = 0 THEN Null ELSE <<top, bottom>>

\* A ratio of at most one is a share and is turned into a percentage; a larger
\* one is taken for a percentage already.
RoePercent(ratio) ==
  LET size(x) == IF x < 0 THEN -x ELSE x
  IN IF ratio = Null THEN Null
     ELSE IF size(ratio[1]) <= size(ratio[2]) THEN <<100 * ratio[1], ratio[2]>>
     ELSE ratio

Shares(overview) == IF overview = NoRow THEN Null ELSE overview.shares

StatementRecord(income, balance, cash, shares, period, latest) ==
  [dataset |-> "fundamentals", key |-> period, source |-> "vnstock_fundamentals",
   time |-> period,
   payload |->
     [eps |-> Metric(income, "eps", period),
      revenue |-> FirstMetric(income, Revenue, period),
      net_income |-> Metric(income, "profit", period),
      equity |-> Metric(balance, "equity", period),
      assets |-> Metric(balance, "assets", period),
      cfo |-> Metric(cash, "operating", period),
      roe |-> RoePercent(Ratio(Metric(income, "profit", period),
                               Metric(balance, "equity", period))),
      shares |-> IF period = latest THEN shares ELSE Null]]

\* The period that the earnings and the book value per share are of.
LatestPeriod(periods) == Head(periods)

\* One record per period, with the earnings and the book value of the latest.
FromStatements(income, balance, cash, overview) ==
  LET periods == Periods(income)
      latest == LatestPeriod(periods)
  IN IF periods = <<>> THEN [records |-> <<>>, eps |-> Null, bvps |-> Null]
     ELSE [records |-> [i \in DOMAIN periods |->
                          StatementRecord(income, balance, cash, Shares(overview),
                                          periods[i], latest)],
           eps |-> Metric(income, "eps", latest),
           bvps |-> Ratio(Metric(balance, "equity", latest), Shares(overview))]

FromOverview(overview) ==
  [dataset |-> "fundamentals", key |-> Dated(overview.date),
   source |-> "vnstock_company_overview", time |-> Dated(overview.date),
   payload |-> [shares |-> overview.shares]]

\* The statements when there are any, else the overview, else nothing. The
\* answers are those of one market (Collection).
Fundamentals(market, overview) ==
  LET income == Rows(market.income)
      balance == Rows(market.balance)
      stated == IF DOMAIN income # {} /\ DOMAIN balance # {}
                THEN FromStatements(income, balance, Rows(market.cash), overview)
                ELSE [records |-> <<>>, eps |-> Null, bvps |-> Null]
  IN IF stated.records # <<>> THEN stated
     ELSE [records |-> IF overview = NoRow THEN <<>> ELSE <<FromOverview(overview)>>,
           eps |-> Null, bvps |-> Null]

\* The client of the statements, or the date of an overview that stands in for
\* them, raises; a statement that raises is one without rows.
FundamentalRaises(market, overview) ==
  \/ market.equity = Raised
  \/ /\ DOMAIN Rows(market.income) = {} \/ DOMAIN Rows(market.balance) = {}
        \/ Periods(Rows(market.income)) = <<>>
     /\ overview # NoRow
     /\ overview.date = BadDate

Quotient(top, bottom) == IF bottom = Null \/ bottom = 0 THEN Null ELSE Ratio(top, bottom)

\* price / (equity / shares) as one pair.
OverRatio(top, ratio) ==
  IF top = Null \/ ratio = Null \/ ratio[1] = 0 THEN Null
  ELSE <<top * ratio[2], ratio[1]>>

ProfileRecord(overview, eps, bvps) ==
  [dataset |-> "company_profile", key |-> "profile",
   source |-> "vnstock_company_overview", time |-> Today,
   payload |-> [price |-> overview.price, shares |-> overview.shares,
                pe |-> Quotient(overview.price, eps),
                pb |-> OverRatio(overview.price, bvps)]]
=============================================================================
