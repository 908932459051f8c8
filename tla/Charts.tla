------------------------------- MODULE Charts -------------------------------
(***************************************************************************)
(* The price chart of a run (artifacts.py) and the two files it can be     *)
(* downloaded as (api routes/artifacts.py). Every workflow definition has  *)
(* the one chart requirement, the price trend; when there is no series its *)
(* chart is there all the same, unavailable and empty.                     *)
(***************************************************************************)
EXTENDS Series

CONSTANT Null

Width == 640
Height == 320
Padding == 36

\* A coordinate is written with one decimal: it is held in tenths, the nearest integer.
Tenths == 10
Nearest(a, b) == (2 * a + b) \div (2 * b)

Unavailable(reason) ==
  [status |-> "unavailable", reason |-> reason, candles |-> <<>>, line |-> <<>>, refs |-> {}]

\* A missing price of a bar is its close.
Candle(bar) ==
  [date |-> bar.date, open |-> OpenOf(bar), high |-> HighOf(bar), low |-> LowOf(bar),
   close |-> bar.close, volume |-> bar.volume]

\* The first series of the records, with all citations of the run for its sources.
BuildPriceTrendChart(prices, ids) ==
  IF prices = <<>> \/ Head(prices).payload = <<>> THEN Unavailable("missing_price_series")
  ELSE LET series == Head(prices).payload
       IN [status |-> "ready", reason |-> Null, refs |-> ids,
           candles |-> [i \in DOMAIN series |-> Candle(series[i])],
           line |-> [i \in DOMAIN series |-> [date |-> series[i].date,
                                              value |-> series[i].close]]]

\* The rows of the csv file below its header; the fall-back on the line is for charts
\* without candles, of which none has a line.
ChartCsv(chart) == chart.candles

\* A mutant: the lowest value is not taken off.
PointFromZero(values, i) ==
  LET steps == Max({Len(values) - 1, 1})
      span == Max({Highest(values) - Lowest(values), 1})
  IN [x |-> Padding * Tenths + Nearest((i - 1) * Tenths * (Width - 2 * Padding), steps),
      y |-> (Height - Padding) * Tenths
              - Nearest(Tenths * values[i] * (Height - 2 * Padding), span)]

\* Where a value is drawn: in the frame, the lowest at its foot.
Point(values, i) ==
  LET steps == Max({Len(values) - 1, 1})
      span == Max({Highest(values) - Lowest(values), 1})
  IN [x |-> Padding * Tenths + Nearest((i - 1) * Tenths * (Width - 2 * Padding), steps),
      y |-> (Height - Padding) * Tenths
              - Nearest(Tenths * (values[i] - Lowest(values)) * (Height - 2 * Padding), span)]

\* The frame of the picture.
InFrame(point) == /\ point.x \in (Padding * Tenths)..((Width - Padding) * Tenths)
                  /\ point.y \in (Padding * Tenths)..((Height - Padding) * Tenths)

\* The points of the svg file; an empty chart has the one point of a zero.
ChartSvg(chart) ==
  LET values == IF chart.line = <<>> THEN <<0>>
                ELSE [i \in DOMAIN chart.line |-> chart.line[i].value]
  IN [i \in DOMAIN values |-> Point(values, i)]
=============================================================================
