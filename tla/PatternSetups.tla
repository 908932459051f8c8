---------------------------- MODULE PatternSetups ----------------------------
(***************************************************************************)
(* evidence/patterns.py: the scored setups. Each detector gives a score    *)
(* from 0 to 100 and, from 55 on, a setup with the price that would        *)
(* confirm it and the zone to watch; they are ranked and the family that   *)
(* is seen most often is the archetype of the series.                      *)
(*                                                                         *)
(* Scores, distances and prices are in thousandths (Series), the reported  *)
(* score and distance in hundredths.                                       *)
(***************************************************************************)
EXTENDS Patterns

Hundredths(x) == (x + 5) \div 10

SetupStatus(score, distance) ==
  IF score >= 7800 /\ distance <= 3 * Milli THEN "near_confirmation"
  ELSE IF score >= 6200 THEN "forming"
  ELSE "not_clean"

\* The percentage by which top, in thousandths, is above the close.
Distance(top, close) == AtLeast((100 * top) \div close - 100 * Milli, 0)

\* The setup, or Null for a score below 55. top is what confirms it.
Setup(id, score, top, low, close) ==
  LET reported == Hundredths(Clamp(score, 0, 100 * Milli))
  IN IF reported < 5500 THEN Null
     ELSE [id |-> id, score |-> reported,
           status |-> SetupStatus(reported, Distance(top, close)),
           confirmation |-> top, watch |-> [low |-> Milli * low, high |-> top],
           distance |-> Hundredths(Distance(top, close))]

\* A pole of up to thirty bars that rose, then two weeks that held the height.
BullFlag(rows) ==
  LET n == Len(rows)
      close == Last(rows).close
      recent == LastOf(rows, 14)
      pole == Closes(SubSeq(rows, AtLeast(n - 43, 1), n - 14))
      move == Pct(Highest(LastOf(pole, 5)), Lowest(FirstOf(pole, 15)))
      top == Highest(Highs(recent))
      low == Lowest(Lows(recent))
      range == Pct(top, low)
      score == 30 * Milli + AtMost(move, 35 * Milli)
               + (22 * AtLeast(25 * Milli - range, 0)) \div 10
               - 2 * AtLeast(Pct(top, close) - 8 * Milli, 0)
               - (IF move < 10 * Milli \/ range > 16 * Milli THEN 20 * Milli ELSE 0)
  IN IF Len(pole) < 20 THEN Null ELSE Setup("bull_flags", score, Milli * top, low, close)

\* The value that a fifth of the highs exceed.
Resistance(highs) ==
  LET below(i) == {k \in DOMAIN highs : \/ highs[k] < highs[i]
                                        \/ highs[k] = highs[i] /\ k < i}
  IN highs[Arranged([i \in DOMAIN highs |-> below(i)])[(8 * Len(highs)) \div 10 + 1]]

AscendingTriangle(rows) ==
  LET close == Last(rows).close
      window == LastOf(rows, 45)
      highs == Highs(window)
      lows == Lows(window)
      top == Resistance(highs)
      spread == Pct(Highest(LastOf(highs, 25)), Lowest(LastOf(highs, 25)))
      rise == Pct(Lowest(LastOf(lows, 10)), Lowest(FirstOf(lows, 15)))
      score == 45 * Milli + (18 * Clamp(rise, 0, 18 * Milli)) \div 10
               + 3 * AtLeast(8 * Milli - spread, 0)
               - (15 * Distance(Milli * top, close)) \div 10
  IN Setup("triangles_ascending", score, Milli * top, Lowest(LastOf(lows, 20)), close)

\* Both edges fall and come together; the upper one, drawn from the first high,
\* is what confirms.
FallingWedge(rows) ==
  LET close == Last(rows).close
      window == LastOf(rows, 40)
      highs == Highs(window)
      lows == Lows(window)
      n == Len(window)
      before == Highest(FirstOf(highs, 10)) - Lowest(FirstOf(lows, 10))
      after == Highest(LastOf(highs, 10)) - Lowest(LastOf(lows, 10))
      narrows == IF before > 0 THEN 60 * Milli - (60 * Milli * after) \div before ELSE 0
      top == Milli * Head(highs) + (6 * Milli * Lean(highs)) \div (n * (n + 1))
      falls == Lean(highs) < 0 /\ Lean(lows) < 0
      score == 40 * Milli + Clamp(narrows, 0, 35 * Milli)
               + (IF falls THEN 12 * Milli ELSE -15 * Milli)
               - (IF top > 0 THEN (12 * Distance(top, close)) \div 10 ELSE 0)
  IN Setup("wedges_falling", score, top, Lowest(LastOf(lows, 15)), close)

\* The index of the first lowest of the values from one index to another.
LowestAt(values, from, to) ==
  Min({i \in from..to : \A k \in from..to : values[i] <= values[k]})

DoubleBottomSetup(rows) ==
  LET close == Last(rows).close
      window == LastOf(rows, 65)
      lows == Lows(window)
      first == LowestAt(lows, 1, 32)
      second == LowestAt(lows, 33, Len(lows))
      gap == Pct(Max({lows[first], lows[second]}), Min({lows[first], lows[second]}))
      top == Highest(Highs(SubSeq(window, first, second)))
      apart == second - first
      score == 48 * Milli + 4 * AtLeast(8 * Milli - gap, 0)
               + AtMost(apart, 30) * (Milli \div 2)
               - (15 * Distance(Milli * top, close)) \div 10
               - (IF apart < 12 THEN 15 * Milli ELSE 0)
  IN IF Len(lows) < 40 THEN Null
     ELSE Setup("double_bottoms", score, Milli * top, Min({lows[first], lows[second]}), close)

-----------------------------------------------------------------------------
PatternFamily(id) ==
  CASE id = "bull_flags" -> "trend_following"
    [] id = "triangles_ascending" -> "accumulation_breakout"
    [] OTHER -> "reversal_or_recovery"

\* The alphabetical order of the names that are shown.
NameRank == [triangles_ascending |-> 1, bull_flags |-> 2, double_bottoms |-> 3,
             wedges_falling |-> 4]

\* "distance or 999": a distance of zero ranks as the farthest.
RankedDistance(setup) == IF setup.distance = 0 THEN 99900 ELSE setup.distance

\* The sort key, best score first, as a lexicographic order.
Ranks(a, b) ==
  \/ a.score > b.score
  \/ a.score = b.score /\ RankedDistance(a) < RankedDistance(b)
  \/ /\ a.score = b.score /\ RankedDistance(a) = RankedDistance(b)
     /\ NameRank[a.id] < NameRank[b.id]

\* The family of most of the setups; of several, the one that is ranked first.
Archetype(setups) ==
  LET family(i) == PatternFamily(setups[i].id)
      count(i) == Cardinality({k \in DOMAIN setups : family(k) = family(i)})
      most == {i \in DOMAIN setups : \A k \in DOMAIN setups : count(k) <= count(i)}
  IN IF setups = <<>> THEN Null ELSE family(Min(most))

DetectPatternSetups(rows) ==
  LET all == <<BullFlag(rows), AscendingTriangle(rows), FallingWedge(rows),
               DoubleBottomSetup(rows)>>
      found == {s \in ToSet(all) : s # Null}
      setups == Arranged([s \in found |-> {t \in found : Ranks(t, s)}])
  IN [setups |-> setups, archetype |-> Archetype(setups)]
=============================================================================
