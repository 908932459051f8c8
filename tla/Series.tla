------------------------------- MODULE Series -------------------------------
(***************************************************************************)
(* What the indicators and the pattern rules share: a price series is a    *)
(* sequence of daily bars, oldest first, and most of what they compute is  *)
(* a sum or an extreme of the first or the last n of its values.           *)
(*                                                                         *)
(* A bar is [date, open, high, low, close, volume] with integer prices.    *)
(* 0 is a value that is absent: the code reads a missing price with "or",  *)
(* which takes an absent value and a zero alike.                           *)
(*                                                                         *)
(* Floats are held in thousandths, rounded down: a percentage, a score, an *)
(* average of 12.5 is 12500.                                               *)
(***************************************************************************)
EXTENDS Integers, Sequences, FiniteSetsExt, SequencesExt

Milli == 1000

LastOf(s, n) == SubSeq(s, IF Len(s) > n THEN Len(s) - n + 1 ELSE 1, Len(s))
FirstOf(s, n) == SubSeq(s, 1, IF Len(s) > n THEN n ELSE Len(s))

Total(s) ==
  LET sum[i \in 0..Len(s)] == IF i = 0 THEN 0 ELSE sum[i - 1] + s[i]
  IN sum[Len(s)]
Highest(s) == Max(ToSet(s))
Lowest(s) == Min(ToSet(s))

\* bar.get("high") or bar["close"], and the same of the low and of the open.
Or(value, default) == IF value = 0 THEN default ELSE value
HighOf(bar) == Or(bar.high, bar.close)
LowOf(bar) == Or(bar.low, bar.close)
OpenOf(bar) == Or(bar.open, bar.close)

Closes(series) == [i \in DOMAIN series |-> series[i].close]
Highs(series) == [i \in DOMAIN series |-> HighOf(series[i])]
Lows(series) == [i \in DOMAIN series |-> LowOf(series[i])]
Volumes(series) == [i \in DOMAIN series |-> series[i].volume]

\* How far high is above low, in percent; negative when it is below.
Pct(high, low) == IF low = 0 THEN 0 ELSE (100 * Milli * high) \div low - 100 * Milli
=============================================================================
