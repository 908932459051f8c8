------------------------------ MODULE MCEvidence ------------------------------
(* Families of runs: each way the request and the vendor can fail; every price *)
(* series of six bars over three closes; longer series that rise, fall and     *)
(* rest in legs, so that windows fill and patterns form, and two in which      *)
(* setups tie; and responses read in pieces of every size.                     *)
EXTENDS Evidence

\* A connection that holds, read in a few pieces.
Steady == [chunk |-> 60, beats |-> {}, breaks |-> FALSE]
Asked == [market |-> "alias", symbol |-> "text"]

MCInputs == {[market |-> m, symbol |-> s] : m \in {"alias", "other", "none"},
                                            s \in {"text", "blank", "none"}}

-----------------------------------------------------------------------------
(* What the vendor may answer.                                             *)

Row(date, close) ==
  [date |-> date, open |-> 0, high |-> 0, low |-> 0, close |-> close, volume |-> 2]

MCPrices == {Raised, <<>>, <<Row(1, 0)>>, <<Row(1, 20), Row(BadDate, 21)>>,
             <<Row(1, 20), Row(2, 0), Row(NoDate, 22)>>}

Overview == [shares |-> 4, price |-> 60, date |-> 30]
MCOverviews == {Raised, NoRow, Overview, [Overview EXCEPT !.shares = Null],
                [Overview EXCEPT !.date = BadDate]}

\* Two periods; of a bank, whose revenue has another name, a figure is missing.
Income == [eps |-> <<5, 6>>, profit |-> <<20, 24>>, net_sales |-> <<90, 99>>]
BankIncome == [eps |-> <<5, 0>>, profit |-> <<20>>, revenue |-> <<90, 99>>]
Balance == [equity |-> <<80, 96>>, assets |-> <<200, 210>>]
MCStatements ==
  [equity : {"ready"}, income : {Raised, <<>>, [eps |-> <<>>], Income, BankIncome},
   balance : {Raised, <<>>, Balance}, cash : {Raised}]

Stated == [equity |-> "ready", income |-> Income, balance |-> Balance,
           cash |-> [operating |-> <<7, 8>>]]
Unstated == [equity |-> Raised, income |-> <<>>, balance |-> <<>>, cash |-> <<>>]

Market(library, price, profile, s) ==
  [library |-> library, price |-> price, overview |-> profile, equity |-> s.equity,
   income |-> s.income, balance |-> s.balance, cash |-> s.cash]

Fine(price) == Market("ready", price, Overview, Stated)

Case(w, i, m, n) == [workflow |-> w, inputs |-> i, market |-> m, network |-> n]

MCWorkflows == DOMAIN SkillsOf
Nominal == Fine(<<Row(1, 20), Row(2, 21)>>)

Refused == {Case(w, i, Nominal, Steady) : w \in MCWorkflows, i \in MCInputs}
Closed == {Case(w, Asked, [Nominal EXCEPT !.library = l], Steady) :
             w \in MCWorkflows, l \in {"none", "missing", "refuses"}}
Failing == {Case(w, Asked, Market("ready", p, o, s), Steady) :
              w \in MCWorkflows, p \in MCPrices, o \in MCOverviews,
              s \in MCStatements \cup {Stated, Unstated}}

-----------------------------------------------------------------------------
(* Price series.                                                           *)

\* Bars of the given closes, every other one with wicks, every third without volume.
Bars(closes) ==
  [i \in DOMAIN closes |->
     [date |-> i, open |-> IF i = 1 THEN 0 ELSE closes[i - 1],
      high |-> IF i % 2 = 0 THEN 0 ELSE Max({closes[i], closes[Max({i - 1, 1})]}) + 2,
      low |-> IF i % 2 = 0 THEN Min({closes[i], closes[Max({i - 1, 1})]}) - 1 ELSE 0,
      close |-> closes[i], volume |-> 5 * (i % 3)]]

Technically(price) == Case("technical", Asked, Fine(price), Steady)

MCShort == [1..6 -> {20, 21, 24}]
Short == {Technically(Bars(closes)) : closes \in MCShort}

\* The closes of a path that changes by slopes[k] a day in its leg k.
Path(slopes, days) ==
  LET close[i \in 1..(days * Len(slopes))] ==
        IF i = 1 THEN 120 ELSE close[i - 1] + slopes[((i - 1) \div days) + 1]
  IN close

MCSlopes == [1..5 -> {-2, 0, 2}]
Long == {Technically(Bars(Path(s, d))) : s \in MCSlopes, d \in {3, 5, 11}}

\* A height that is reached and held: two setups of the highest score there is, one of
\* them at its confirmation, the other too unless one bar went above.
Held(peak) ==
  [i \in 1..45 |-> LET close == IF i <= 20 THEN 400 ELSE 500
                   IN [date |-> i, open |-> close, low |-> close, close |-> close, volume |-> 5,
                       high |-> IF i = peak THEN close + 1 ELSE close]]
Tied == {Technically(Held(peak)) : peak \in {0, 40}}

-----------------------------------------------------------------------------
(* The response.                                                           *)

MCNetworks == {[chunk |-> n, beats |-> b, breaks |-> TRUE] :
                 n \in 1..12, b \in SUBSET {3, 6}}
InPieces == {Case(w, Asked, m, n) : w \in {"fundamental", "technical"}, n \in MCNetworks,
            m \in {Nominal, [Nominal EXCEPT !.library = "missing"]}}

MCCases == Refused \cup Closed \cup Failing \cup Short \cup Long \cup Tied \cup InPieces

-----------------------------------------------------------------------------
(* The prices above are such as the theorems on the patterns and the chart *)
(* take them to be.                                                        *)
ASSUME PricesAreOrdinary == BarsAreRanges /\ FitsTheFrame
===============================================================================
