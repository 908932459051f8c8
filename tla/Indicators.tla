----------------------------- MODULE Indicators -----------------------------
(***************************************************************************)
(* workflows/indicators.py: the latest technical indicators of a series,   *)
(* computed once per run and given to the technical analysis as a record.  *)
(* Null is Python's None: a window longer than the series, a volume of     *)
(* zero, or a value that is zero and therefore falsy.                      *)
(***************************************************************************)
EXTENDS Series

CONSTANT Null

OrNull(value) == IF value = 0 THEN Null ELSE value
Abs(x) == IF x < 0 THEN -x ELSE x

\* The mean of the last period values.
Sma(values, period) ==
  IF Len(values) < period THEN Null
  ELSE (Milli * Total(LastOf(values, period))) \div period

\* The average that gives each new close the weight 2 / (period + 1).
Ema(closes, period) ==
  LET ema[i \in DOMAIN closes] ==
        IF i = 1 THEN Milli * closes[1]
        ELSE (2 * Milli * closes[i] + (period - 1) * ema[i - 1]) \div (period + 1)
  IN ema[Len(closes)]

\* The mean of the last period closes, each weighted by its volume.
Vwma(closes, volumes, period) ==
  LET c == LastOf(closes, period)
      v == LastOf(volumes, period)
  IN IF Len(closes) < period \/ Total(v) = 0 THEN Null
     ELSE (Milli * Total([k \in 1..period |-> c[k] * v[k]])) \div Total(v)

\* The strength index of an average gain and loss, in hundredths. The averages
\* are in ten-thousandths, as they are small.
Fine == 10000
Strength(gain, loss) == IF loss = 0 THEN 10000 ELSE (10000 * gain) \div (gain + loss)

Rise(s, i) == IF s[i] > s[i - 1] THEN Fine * (s[i] - s[i - 1]) ELSE 0
Fall(s, i) == IF s[i] < s[i - 1] THEN Fine * (s[i - 1] - s[i]) ELSE 0

\* One more change of Wilder's running mean.
Wilder(mean, change, period) == (mean * (period - 1) + change) \div period

Rsi(closes, period) ==
  LET mean[i \in (period + 1)..Len(closes)] ==
        IF i = period + 1
        THEN [gain |-> Total([k \in 1..period |-> Rise(closes, k + 1)]) \div period,
              loss |-> Total([k \in 1..period |-> Fall(closes, k + 1)]) \div period]
        ELSE LET before == mean[i - 1]
             IN [gain |-> Wilder(before.gain, Rise(closes, i), period),
                 loss |-> Wilder(before.loss, Fall(closes, i), period)]
      last == mean[Len(closes)]
  IN IF Len(closes) <= period THEN Null ELSE Strength(last.gain, last.loss)

\* The fast average less the slow one, and the average of that difference.
Macd(closes) ==
  LET macd[i \in DOMAIN closes] ==
        LET value == Milli * closes[i]
        IN IF i = 1 THEN [fast |-> value, slow |-> value, signal |-> 0]
           ELSE LET before == macd[i - 1]
                    fast == (2 * value + 11 * before.fast) \div 13
                    slow == (2 * value + 25 * before.slow) \div 27
                IN [fast |-> fast, slow |-> slow,
                    signal |-> (2 * (fast - slow) + 8 * before.signal) \div 10]
      last == macd[Len(closes)]
  IN IF Len(closes) < 35 THEN [line |-> Null, signal |-> Null]
     ELSE [line |-> last.fast - last.slow, signal |-> last.signal]

SquareRoot(n, bound) == CHOOSE r \in 0..bound : r * r <= n /\ n < (r + 1) * (r + 1)

\* The mean of twenty closes and two standard deviations around it. The
\* deviation is Sqrt(20 * Sum(v^2) - Sum(v)^2) / 20, so the half width of the
\* band is that root in tenths.
Bollinger(closes) ==
  LET w == LastOf(closes, 20)
      spread == 20 * Total([i \in DOMAIN w |-> w[i] * w[i]]) - Total(w) * Total(w)
      middle == Sma(closes, 20)
      half == 100 * SquareRoot(spread, 20 * (Highest(w) - Lowest(w)))
  IN IF Len(closes) < 20 THEN [upper |-> Null, middle |-> Null, lower |-> Null]
     ELSE [upper |-> middle + half, middle |-> middle, lower |-> middle - half]

\* The mean true range of the last period bars.
Atr(highs, lows, closes, period) ==
  LET range(i) == Max({highs[i] - lows[i], Abs(highs[i] - closes[i - 1]),
                       Abs(lows[i] - closes[i - 1])})
  IN IF Len(closes) <= period THEN Null
     ELSE Sma([i \in 1..(Len(closes) - 1) |-> range(i + 1)], period)

\* How far price is below peak, in thousandths of a percent.
Drop(peak, price) == (100 * Milli * (peak - price)) \div peak

\* A mutant: the peak is the highest close of the whole series.
DrawdownFromTop(closes) ==
  [worst |-> Drop(Highest(closes), Lowest(closes)),
   current |-> Drop(Highest(closes), Last(closes))]

MaxDrawdown(closes) ==
  LET walk[i \in 0..Len(closes)] ==
        IF i = 0 THEN [peak |-> Head(closes), worst |-> 0]
        ELSE LET before == walk[i - 1]
                 peak == Max({before.peak, closes[i]})
             IN [peak |-> peak, worst |-> Max({before.worst, Drop(peak, closes[i])})]
  IN [worst |-> walk[Len(closes)].worst, current |-> Drop(Highest(closes), Last(closes))]

SupportResistance(closes, highs, lows) ==
  LET window == IF Len(closes) < 60 THEN Len(closes) ELSE 60
  IN IF window < 5 THEN [resistance |-> Null, support |-> Null]
     ELSE [resistance |-> Highest(LastOf(highs, window)),
           support |-> Lowest(LastOf(lows, window))]

Trend(close, sma20, sma50) ==
  IF sma20 = Null \/ sma50 = Null THEN "sideways"
  ELSE IF Milli * close > sma20 /\ sma20 > sma50 THEN "uptrend"
  ELSE IF Milli * close < sma20 /\ sma20 < sma50 THEN "downtrend"
  ELSE "sideways"

\* The year is the 250 last bars; its return needs a bar before them.
YearReturn(closes) ==
  IF Len(closes) <= 250 THEN Null
  ELSE LET ago == closes[Len(closes) - 250 + 1]
       IN (100 * Milli * (Last(closes) - ago)) \div ago

VolumeRatio(volumes) ==
  LET mean == Sma(volumes, 20)
  IN IF mean = Null \/ mean = 0 THEN Null
     ELSE (Milli * Milli * Last(volumes)) \div mean

ComputeIndicators(series) ==
  LET closes == Closes(series)
      highs == Highs(series)
      lows == Lows(series)
      volumes == Volumes(series)
      bands == Bollinger(closes)
      macd == Macd(closes)
      drawdown == MaxDrawdown(closes)
      levels == SupportResistance(closes, highs, lows)
  IN [latest_close |-> Last(closes), latest_date |-> Last(series).date,
      start_date |-> Head(series).date, bar_count |-> Len(closes),
      high_52w |-> Highest(LastOf(highs, 250)), low_52w |-> Lowest(LastOf(lows, 250)),
      return_1y |-> YearReturn(closes),
      sma20 |-> Sma(closes, 20), sma50 |-> Sma(closes, 50), sma200 |-> Sma(closes, 200),
      ema10 |-> Ema(closes, 10), ema12 |-> Ema(closes, 12),
      ema26 |-> Ema(closes, 26), vwma20 |-> Vwma(closes, volumes, 20),
      rsi14 |-> Rsi(closes, 14), macd_line |-> macd.line, macd_signal |-> macd.signal,
      bollinger_upper |-> bands.upper, bollinger_lower |-> bands.lower,
      atr14 |-> Atr(highs, lows, closes, 14),
      avg_volume |-> IF Len(volumes) < 20 THEN Null ELSE OrNull(Sma(volumes, 20)),
      latest_volume |-> OrNull(Last(volumes)), volume_ratio |-> VolumeRatio(volumes),
      trend |-> Trend(Last(closes), Sma(closes, 20), Sma(closes, 50)),
      max_drawdown |-> drawdown.worst, current_drawdown |-> drawdown.current,
      resistance |-> levels.resistance, support |-> levels.support]
=============================================================================
