------------------------------ MODULE Patterns ------------------------------
(***************************************************************************)
(* evidence/patterns.py: the pattern rules over a price series, whose      *)
(* verdicts and setups the technical analysis may cite. Two families: the  *)
(* strict rules (a verdict each, detected or not) and the scored setups    *)
(* that may be forming, ranked.                                            *)
(***************************************************************************)
EXTENDS Series, Selection

CONSTANT Null

Size(x) == IF x < 0 THEN -x ELSE x
AtLeast(x, low) == IF x < low THEN low ELSE x
AtMost(x, high) == IF x > high THEN high ELSE x
Clamp(x, low, high) == AtLeast(AtMost(x, high), low)

\* The slope of the regression line through n values is 6 * Lean / (n^3 - n).
Lean(values) ==
  Total([i \in DOMAIN values |-> (2 * i - Len(values) - 1) * values[i]])
Cube(n) == n * (n * n - 1)

-----------------------------------------------------------------------------
\* The strength index after each of the closes, in hundredths.
StrengthOf(gain, loss) == IF loss = 0 THEN 10000 ELSE (10000 * gain) \div (gain + loss)

\* The mean gain and loss up to each close, Wilder's running mean after the first
\* period of changes, in ten-thousandths.
MeanChange(closes, period) ==
  LET change(i) == 10 * Milli * (closes[i] - closes[i - 1])
      mean[i \in (period + 1)..Len(closes)] ==
        IF i = period + 1
        THEN [gain |-> Total([k \in 1..period |-> AtLeast(change(k + 1), 0)]) \div period,
              loss |-> Total([k \in 1..period |-> AtLeast(-change(k + 1), 0)]) \div period]
        ELSE LET old == mean[i - 1]
             IN [gain |-> (old.gain * (period - 1) + AtLeast(change(i), 0)) \div period,
                 loss |-> (old.loss * (period - 1) + AtLeast(-change(i), 0)) \div period]
  IN mean

RsiSeries(closes, period) ==
  LET mean == MeanChange(closes, period)
  IN [i \in DOMAIN closes |->
        IF i <= period THEN Null ELSE StrengthOf(mean[i].gain, mean[i].loss)]

-----------------------------------------------------------------------------
Lookback == 2

\* A bar that no bar within Lookback of it exceeds, or undercuts.
IsSwingHigh(series, i) ==
  \A k \in (i - Lookback)..(i + Lookback) : HighOf(series[i]) >= HighOf(series[k])

\* A mutant: the closes are compared, not the lows.
IsLowClose(series, i) ==
  \A k \in (i - Lookback)..(i + Lookback) : series[i].close <= series[k].close

IsSwingLow(series, i) ==
  \A k \in (i - Lookback)..(i + Lookback) : LowOf(series[i]) <= LowOf(series[k])

\* The indexes of the swing points; the bars at both ends have no window.
SwingHighs(series) ==
  Picked([i \in DOMAIN series |-> i],
         {i \in (Lookback + 1)..(Len(series) - Lookback) : IsSwingHigh(series, i)})
SwingLows(series) ==
  Picked([i \in DOMAIN series |-> i],
         {i \in (Lookback + 1)..(Len(series) - Lookback) : IsSwingLow(series, i)})

\* Two swing lows next to each other, with the highest swing high between them.
LowPairs(series) ==
  LET lows == SwingLows(series)
      highs == ToSet(SwingHighs(series))
      between(k) == {HighOf(series[h]) : h \in {i \in highs : lows[k] < i /\ i < lows[k + 1]}}
      gap(a, b) == Pct(Max({a, b}), Min({a, b}))
      pairs == [k \in 1..AtLeast(Len(lows) - 1, 0) |->
                  [first |-> lows[k], second |-> lows[k + 1],
                   gap |-> gap(LowOf(series[lows[k]]), LowOf(series[lows[k + 1]])),
                   neckline |-> IF between(k) = {} THEN Null ELSE Max(between(k))]]
  IN Picked(pairs, {k \in DOMAIN pairs : pairs[k].neckline # Null})

NotDetected(id) == [id |-> id, verdict |-> "not_detected"]

\* The pair whose lows are nearest to each other, the earliest of several.
StrictDoubleBottom(series) ==
  LET pairs == LowPairs(series)
      nearest == Min({p.gap : p \in ToSet(pairs)})
      best == pairs[Min({k \in DOMAIN pairs : pairs[k].gap = nearest})]
  IN IF pairs = <<>> \/ nearest >= 3 * Milli THEN NotDetected("double_bottom")
     ELSE [id |-> "double_bottom", verdict |-> "detected",
           strength |-> IF nearest < Milli THEN "clear" ELSE "potential",
           first |-> best.first, second |-> best.second, neckline |-> best.neckline]

\* Both edges of the last twenty bars move by more than a tenth per bar.
StrictChannel(series) ==
  LET window == LastOf(series, 20)
      bound == Cube(Len(window))
      edges == {60 * Lean(Highs(window)), 60 * Lean(Lows(window))}
  IN IF \A e \in edges : e < -bound
     THEN [id |-> "descending_channel", verdict |-> "detected"]
     ELSE IF \A e \in edges : e > bound
     THEN [id |-> "ascending_channel", verdict |-> "detected"]
     ELSE NotDetected("trading_range")

-----------------------------------------------------------------------------
Body(bar) == Size(bar.close - OpenOf(bar))
IsUp(bar) == bar.close >= OpenOf(bar)
UpperWick(bar) == HighOf(bar) - Max({bar.close, OpenOf(bar)})
LowerWick(bar) == Min({bar.close, OpenOf(bar)}) - LowOf(bar)
TradingRange(bar) == HighOf(bar) - LowOf(bar)
\* body / trading_range * 100 < 35, and > 70; no range is a share of zero.
SmallBody(bar) == TradingRange(bar) = 0 \/ 100 * Body(bar) < 35 * TradingRange(bar)
MostlyBody(bar) == TradingRange(bar) # 0 /\ 100 * Body(bar) > 70 * TradingRange(bar)

\* The latest bar closes and opens beyond the body of the one before it.
EngulfsDown(last, prev) ==
  /\ ~IsUp(prev) /\ IsUp(last)
  /\ last.close > OpenOf(prev) /\ OpenOf(last) < prev.close
  /\ Body(last) > Body(prev)
EngulfsUp(last, prev) ==
  /\ IsUp(prev) /\ ~IsUp(last)
  /\ last.close < OpenOf(prev) /\ OpenOf(last) > prev.close
  /\ Body(last) > Body(prev)

StrictCandles(series) ==
  LET last == Last(series)
      prev == series[Len(series) - 1]
      shown == << <<"hammer", LowerWick(last) > 2 * Body(last) /\ SmallBody(last)
                              /\ ~IsUp(last)>>,
                  <<"shooting_star", UpperWick(last) > 2 * Body(last) /\ SmallBody(last)>>,
                  <<"marubozu_bullish", MostlyBody(last) /\ IsUp(last)>>,
                  <<"marubozu_bearish", MostlyBody(last) /\ ~IsUp(last)>>,
                  <<"bullish_engulfing", EngulfsDown(last, prev)>>,
                  <<"bearish_engulfing", EngulfsUp(last, prev)>> >>
      seen == Picked(shown, {i \in DOMAIN shown : shown[i][2]})
  IN IF Len(series) < 3 THEN <<>>
     ELSE [i \in DOMAIN seen |-> [id |-> seen[i][1], verdict |-> "detected"]]

\* The last two neighbouring swing lows of which the later is not higher; when
\* every later one is higher, the last two.
DivergencePair(series) ==
  LET lows == SwingLows(series)
      falling == {k \in 1..(Len(lows) - 1) :
                    LowOf(series[lows[k + 1]]) <= LowOf(series[lows[k]])}
      k == IF falling = {} THEN Len(lows) - 1 ELSE Max(falling)
  IN [first |-> lows[k], second |-> lows[k + 1]]

StrictRsiDivergence(series) ==
  LET rsi == RsiSeries(Closes(series), 14)
      pair == DivergencePair(series)
      before == rsi[pair.first]
      after == rsi[pair.second]
  IN IF /\ Len(SwingLows(series)) >= 2
        /\ before # Null /\ after # Null
        /\ LowOf(series[pair.second]) < LowOf(series[pair.first])
        /\ after > before
     THEN [id |-> "rsi_bullish_divergence", verdict |-> "detected",
           first |-> pair.first, second |-> pair.second]
     ELSE NotDetected("rsi_divergence")

DetectPatternEvidence(series) ==
  <<StrictDoubleBottom(series), StrictChannel(series)>>
    \o StrictCandles(series) \o <<StrictRsiDivergence(series)>>
=============================================================================
