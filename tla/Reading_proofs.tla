----------------------------- MODULE Reading_proofs ------------------------------
(***************************************************************************)
(* That the browser reads what the run said, however the response is cut:  *)
(* a frame ends at its first empty line, a split goes on from what was     *)
(* left over, and so after p words of the response just the events are     *)
(* handled whose frames end there. With it, the types of the variables.    *)
(***************************************************************************)
EXTENDS Evidence_proofs

--------------------------------------------------------------------------------
(* The recursions of the stream: the frames joined, the text split, the frames  *)
(* handled. Each has a solution, and so the values its definition says.         *)

Joins(f, s, m) == f = [n \in 1..m |-> IF n = 1 THEN s[n] ELSE f[n - 1] \o s[n]]
JoinUpTo(s) == CHOOSE f : Joins(f, s, Len(s))

Splits(f, text, n, m) ==
  f = [i \in 0..m |-> IF i = 0 THEN [parts |-> <<>>, rest |-> <<>>]
                      ELSE NextWord(f[i - 1], text[i], n)]
SplitUpTo(text, n) == CHOOSE f : Splits(f, text, n, Len(text))

Handles(f, frames, m) ==
  f = [i \in 0..m |-> IF i = 0 THEN [events |-> <<>>, answer |-> "reading"]
                      ELSE NextFrame(f[i - 1], frames[i])]
HandleUpTo(frames) == CHOOSE f : Handles(f, frames, Len(frames))

LEMMA Joinable ==
  ASSUME NEW s, NEW m \in Nat
  PROVE  \E f : Joins(f, s, m)
<1> DEFINE S == {n \in Nat : \E f : Joins(f, s, n)}
<1>1. 0 \in S
  <2>1. Joins([n \in 1..0 |-> <<>>], s, 0)
    BY DEF Joins
  <2>2. QED
    BY <2>1
<1>2. ASSUME NEW n \in Nat, n \in S PROVE n + 1 \in S
  <2>1. PICK f : Joins(f, s, n)
    BY <1>2
  <2> DEFINE at(h, k) == IF k = 1 THEN s[k] ELSE h[k - 1] \o s[k]
             g == [k \in 1..(n + 1) |-> IF k <= n THEN f[k] ELSE at(f, k)]
  <2>2. \A k \in 2..(n + 1) : g[k - 1] = f[k - 1]
    OBVIOUS
  <2>3. \A k \in 1..n : f[k] = at(f, k)
    BY <2>1 DEF Joins
  <2>4. \A k \in 1..(n + 1) : g[k] = at(g, k)
    <3>1. SUFFICES ASSUME NEW k \in 1..(n + 1) PROVE g[k] = at(g, k)
      OBVIOUS
    <3>2. g[k] = at(f, k)
      BY <2>3
    <3>3. at(g, k) = at(f, k)
      <4>1. k = 1 \/ k \in 2..(n + 1)
        OBVIOUS
      <4> HIDE DEF g
      <4>2. QED
        BY <2>2, <4>1
    <3>4. QED
      BY <3>2, <3>3
  <2>5. Joins(g, s, n + 1)
    <3>1. g = [k \in 1..(n + 1) |-> g[k]]
      OBVIOUS
    <3> HIDE DEF g
    <3>2. QED
      BY <2>4, <3>1 DEF Joins
  <2>6. QED
    BY <2>5
<1> HIDE DEF S
<1>3. 0..m \subseteq S
  BY <1>1, <1>2, Induction
<1>4. QED
  BY <1>3 DEF S

LEMMA JoinValues ==
  ASSUME NEW s, Len(s) \in Nat \ {0}
  PROVE  /\ FlattenSeq(s) = JoinUpTo(s)[Len(s)]
         /\ JoinUpTo(s)[1] = s[1]
         /\ \A n \in 2..Len(s) : JoinUpTo(s)[n] = JoinUpTo(s)[n - 1] \o s[n]
<1>1. FlattenSeq(s) = JoinUpTo(s)[Len(s)]
  BY DEF FlattenSeq, JoinUpTo, Joins
<1>2. Joins(JoinUpTo(s), s, Len(s))
  BY Joinable DEF JoinUpTo
<1> DEFINE f == JoinUpTo(s)
<1> HIDE DEF f
<1>3. f = [n \in 1..Len(s) |-> IF n = 1 THEN s[n] ELSE f[n - 1] \o s[n]]
  BY <1>2 DEF f, Joins
<1>4. \A n \in 1..Len(s) : f[n] = IF n = 1 THEN s[n] ELSE f[n - 1] \o s[n]
  BY <1>3, Zenon
<1>5. 1 \in 1..Len(s) /\ \A n \in 2..Len(s) : n \in 1..Len(s) /\ n # 1
  OBVIOUS
<1>6. f[1] = s[1] /\ \A n \in 2..Len(s) : f[n] = f[n - 1] \o s[n]
  BY <1>4, <1>5, Zenon
<1>7. QED
  BY <1>1, <1>6 DEF f

LEMMA JoinSame ==
  ASSUME NEW s, NEW t, Len(s) \in Nat \ {0}, Len(t) \in Nat \ {0}, Len(s) <= Len(t),
         \A n \in 1..Len(s) : s[n] = t[n]
  PROVE  JoinUpTo(s)[Len(s)] = JoinUpTo(t)[Len(s)]
<1> DEFINE m == Len(s) - 1
           S == {n \in Nat : n <= m => JoinUpTo(s)[n + 1] = JoinUpTo(t)[n + 1]}
<1>0. m \in Nat
  OBVIOUS
<1>1. 0 \in S
  <2>1. JoinUpTo(s)[1] = s[1] /\ JoinUpTo(t)[1] = t[1] /\ s[1] = t[1]
    <3>1. 1 \in 1..Len(s)
      OBVIOUS
    <3>2. QED
      BY <3>1, JoinValues
  <2>2. QED
    BY <2>1
<1>2. ASSUME NEW n \in 0..(m - 1), n \in S PROVE n + 1 \in S
  <2>1. /\ JoinUpTo(s)[n + 2] = JoinUpTo(s)[n + 1] \o s[n + 2]
        /\ JoinUpTo(t)[n + 2] = JoinUpTo(t)[n + 1] \o t[n + 2]
    <3>1. n + 2 \in 2..Len(s) /\ n + 2 \in 2..Len(t) /\ (n + 2) - 1 = n + 1
      OBVIOUS
    <3>2. QED
      BY <3>1, JoinValues, Zenon
  <2>2. JoinUpTo(s)[n + 1] = JoinUpTo(t)[n + 1] /\ s[n + 2] = t[n + 2]
    BY <1>2
  <2>3. JoinUpTo(s)[n + 2] = JoinUpTo(t)[n + 2]
    BY <2>1, <2>2, Zenon
  <2>4. n + 1 \in Nat /\ (n + 1) + 1 = n + 2
    OBVIOUS
  <2>5. QED
    BY <2>3, <2>4
<1> HIDE DEF S, m
<1>3. 0..m \subseteq S
  BY <1>0, <1>1, <1>2, Induction
<1>4. m \in S /\ m + 1 = Len(s)
  BY <1>0, <1>3 DEF m
<1>5. QED
  BY <1>0, <1>4 DEF S

LEMMA FlattenOfEmpty == FlattenSeq(<<>>) = <<>>
BY DEF FlattenSeq

\* One more sequence to join.
LEMMA FlattenOfAppend ==
  ASSUME NEW S, NEW s \in Seq(S), NEW x, IsSeq(x)
  PROVE  FlattenSeq(Append(s, x)) = FlattenSeq(s) \o x
<1> DEFINE t == Append(s, x)
<1>1. /\ Len(s) \in Nat /\ Len(t) = Len(s) + 1 /\ t[Len(s) + 1] = x
      /\ \A n \in 1..Len(s) : t[n] = s[n]
  <2>1. s \in Seq(S \cup {x})
    OBVIOUS
  <2>2. QED
    BY <2>1
<1> HIDE DEF t
<1>2. Len(t) \in Nat \ {0} /\ FlattenSeq(t) = JoinUpTo(t)[Len(s) + 1]
  <2>1. Len(t) \in Nat \ {0}
    BY <1>1
  <2>2. QED
    BY <1>1, <2>1, JoinValues
<1>3. CASE s = <<>>
  <2>1. FlattenSeq(t) = x
    <3>1. Len(s) + 1 = 1
      BY <1>3
    <3>2. JoinUpTo(t)[1] = t[1]
      BY <1>2, JoinValues
    <3>3. QED
      BY <1>1, <1>2, <3>1, <3>2
  <2>2. <<>> \o x = x
    <3>1. x \in Seq(ToSet(x))
      BY DEF IsSeq
    <3>2. QED
      BY <3>1
  <2>3. QED
    BY <1>3, <2>1, <2>2, FlattenOfEmpty DEF t
<1>4. CASE s # <<>>
  <2>1. Len(s) \in Nat \ {0}
    BY <1>4
  <2>2. JoinUpTo(s)[Len(s)] = JoinUpTo(t)[Len(s)]
    BY <1>1, <2>1, JoinSame
  <2>3. JoinUpTo(t)[Len(s) + 1] = JoinUpTo(t)[Len(s)] \o x
    <3>1. Len(s) + 1 \in 2..Len(t) /\ (Len(s) + 1) - 1 = Len(s) /\ Len(t) \in Nat \ {0}
      BY <1>1, <2>1
    <3>2. JoinUpTo(t)[Len(s) + 1] = JoinUpTo(t)[(Len(s) + 1) - 1] \o t[Len(s) + 1]
      BY <3>1, JoinValues
    <3>3. QED
      BY <1>1, <3>1, <3>2
  <2>4. QED
    BY <1>2, <2>1, <2>2, <2>3, JoinValues DEF t
<1>5. QED
  BY <1>3, <1>4

LEMMA Splittable ==
  ASSUME NEW text, NEW n, NEW m \in Nat
  PROVE  \E f : Splits(f, text, n, m)
<1> DEFINE S == {k \in Nat : \E f : Splits(f, text, n, k)}
           none == [parts |-> <<>>, rest |-> <<>>]
           at(h, k) == IF k = 0 THEN none ELSE NextWord(h[k - 1], text[k], n)
<1> HIDE DEF none
<1>1. 0 \in S
  <2>1. Splits([k \in 0..0 |-> none], text, n, 0)
    BY DEF Splits, none
  <2>2. QED
    BY <2>1
<1>2. ASSUME NEW k \in Nat, k \in S PROVE k + 1 \in S
  <2>1. PICK f : Splits(f, text, n, k)
    BY <1>2
  <2> DEFINE g == [i \in 0..(k + 1) |-> IF i <= k THEN f[i] ELSE at(f, i)]
  <2>2. \A i \in 1..(k + 1) : g[i - 1] = f[i - 1]
    OBVIOUS
  <2>3. \A i \in 0..k : f[i] = at(f, i)
    BY <2>1 DEF Splits, none
  <2>4. \A i \in 0..(k + 1) : g[i] = at(g, i)
    BY <2>2, <2>3
  <2>5. Splits(g, text, n, k + 1)
    BY <2>4 DEF Splits, none
  <2>6. QED
    BY <2>5
<1> HIDE DEF S
<1>3. 0..m \subseteq S
  BY <1>1, <1>2, Induction
<1>4. QED
  BY <1>3 DEF S

LEMMA SplitValues ==
  ASSUME NEW text, NEW n, Len(text) \in Nat
  PROVE  /\ Split(text, n) = SplitUpTo(text, n)[Len(text)]
         /\ SplitUpTo(text, n)[0] = [parts |-> <<>>, rest |-> <<>>]
         /\ \A i \in 1..Len(text) :
              SplitUpTo(text, n)[i] = NextWord(SplitUpTo(text, n)[i - 1], text[i], n)
<1>1. Split(text, n) = SplitUpTo(text, n)[Len(text)]
  BY DEF Split, SplitUpTo, Splits
<1>2. Splits(SplitUpTo(text, n), text, n, Len(text))
  BY Splittable DEF SplitUpTo
<1> DEFINE f == SplitUpTo(text, n)
<1> HIDE DEF f
<1>3. f = [i \in 0..Len(text) |-> IF i = 0 THEN [parts |-> <<>>, rest |-> <<>>]
                                  ELSE NextWord(f[i - 1], text[i], n)]
  BY <1>2 DEF f, Splits
<1>4. /\ f[0] = [parts |-> <<>>, rest |-> <<>>]
      /\ \A i \in 1..Len(text) : f[i] = NextWord(f[i - 1], text[i], n)
  BY <1>3
<1>5. QED
  BY <1>1, <1>4 DEF f

\* The split of one word more.
LEMMA SplitStep ==
  ASSUME NEW text, NEW n, Len(text) \in Nat, NEW i \in 1..Len(text)
  PROVE  SplitUpTo(text, n)[i] = NextWord(SplitUpTo(text, n)[i - 1], text[i], n)
BY SplitValues, Zenon

LEMMA Handleable ==
  ASSUME NEW frames, NEW m \in Nat
  PROVE  \E f : Handles(f, frames, m)
<1> DEFINE S == {k \in Nat : \E f : Handles(f, frames, k)}
           none == [events |-> <<>>, answer |-> "reading"]
           at(h, k) == IF k = 0 THEN none ELSE NextFrame(h[k - 1], frames[k])
<1> HIDE DEF none
<1>1. 0 \in S
  <2>1. Handles([k \in 0..0 |-> none], frames, 0)
    BY DEF Handles, none
  <2>2. QED
    BY <2>1
<1>2. ASSUME NEW k \in Nat, k \in S PROVE k + 1 \in S
  <2>1. PICK f : Handles(f, frames, k)
    BY <1>2
  <2> DEFINE g == [i \in 0..(k + 1) |-> IF i <= k THEN f[i] ELSE at(f, i)]
  <2>2. \A i \in 1..(k + 1) : g[i - 1] = f[i - 1]
    OBVIOUS
  <2>3. \A i \in 0..k : f[i] = at(f, i)
    BY <2>1 DEF Handles, none
  <2>4. \A i \in 0..(k + 1) : g[i] = at(g, i)
    BY <2>2, <2>3
  <2>5. Handles(g, frames, k + 1)
    BY <2>4 DEF Handles, none
  <2>6. QED
    BY <2>5
<1> HIDE DEF S
<1>3. 0..m \subseteq S
  BY <1>1, <1>2, Induction
<1>4. QED
  BY <1>3 DEF S

LEMMA HandleValues ==
  ASSUME NEW frames, Len(frames) \in Nat
  PROVE  /\ Handled(frames) = HandleUpTo(frames)[Len(frames)]
         /\ HandleUpTo(frames)[0] = [events |-> <<>>, answer |-> "reading"]
         /\ \A i \in 1..Len(frames) :
              HandleUpTo(frames)[i] = NextFrame(HandleUpTo(frames)[i - 1], frames[i])
<1>1. Handled(frames) = HandleUpTo(frames)[Len(frames)]
  BY DEF Handled, HandleUpTo, Handles
<1>2. Handles(HandleUpTo(frames), frames, Len(frames))
  BY Handleable DEF HandleUpTo
<1> DEFINE f == HandleUpTo(frames)
<1> HIDE DEF f
<1>3. f = [i \in 0..Len(frames) |-> IF i = 0 THEN [events |-> <<>>, answer |-> "reading"]
                                    ELSE NextFrame(f[i - 1], frames[i])]
  BY <1>2 DEF f, Handles
<1>4. /\ f[0] = [events |-> <<>>, answer |-> "reading"]
      /\ \A i \in 1..Len(frames) : f[i] = NextFrame(f[i - 1], frames[i])
  BY <1>3
<1>5. QED
  BY <1>1, <1>4 DEF f

LEMMA HandledOfEmpty == Handled(<<>>) = [events |-> <<>>, answer |-> "reading"]
BY HandleValues

\* One more frame to handle.
LEMMA HandledOfAppend ==
  ASSUME NEW S, NEW s \in Seq(S), NEW x
  PROVE  Handled(Append(s, x)) = NextFrame(Handled(s), x)
<1> DEFINE t == Append(s, x)
           T == {n \in Nat : n <= Len(s) => HandleUpTo(s)[n] = HandleUpTo(t)[n]}
<1>1. /\ Len(s) \in Nat /\ Len(t) = Len(s) + 1 /\ t[Len(s) + 1] = x
      /\ \A n \in 1..Len(s) : t[n] = s[n]
  <2>1. s \in Seq(S \cup {x})
    OBVIOUS
  <2>2. QED
    BY <2>1
<1> HIDE DEF t
<1>2. 0 \in T
  BY <1>1, HandleValues
<1>3. ASSUME NEW n \in 0..(Len(s) - 1), n \in T PROVE n + 1 \in T
  <2>1. /\ HandleUpTo(s)[n + 1] = NextFrame(HandleUpTo(s)[n], s[n + 1])
        /\ HandleUpTo(t)[n + 1] = NextFrame(HandleUpTo(t)[n], t[n + 1])
    <3>1. n + 1 \in 1..Len(s) /\ n + 1 \in 1..Len(t) /\ (n + 1) - 1 = n /\ Len(t) \in Nat
      BY <1>1
    <3>2. HandleUpTo(s)[n + 1] = NextFrame(HandleUpTo(s)[(n + 1) - 1], s[n + 1])
      BY <1>1, <3>1, HandleValues
    <3>3. HandleUpTo(t)[n + 1] = NextFrame(HandleUpTo(t)[(n + 1) - 1], t[n + 1])
      BY <3>1, HandleValues
    <3>4. QED
      BY <3>1, <3>2, <3>3, Zenon
  <2>2. HandleUpTo(s)[n] = HandleUpTo(t)[n] /\ s[n + 1] = t[n + 1]
    BY <1>1, <1>3
  <2>3. QED
    BY <2>1, <2>2
<1> HIDE DEF T
<1>4. 0..Len(s) \subseteq T
  BY <1>1, <1>2, <1>3, Induction
<1>5. HandleUpTo(s)[Len(s)] = HandleUpTo(t)[Len(s)]
  BY <1>1, <1>4 DEF T
<1>6. HandleUpTo(t)[Len(s) + 1] = NextFrame(HandleUpTo(t)[Len(s)], x)
  <2>1. Len(s) + 1 \in 1..Len(t) /\ (Len(s) + 1) - 1 = Len(s)
    BY <1>1
  <2>2. HandleUpTo(t)[Len(s) + 1] = NextFrame(HandleUpTo(t)[(Len(s) + 1) - 1], t[Len(s) + 1])
    BY <1>1, <2>1, HandleValues, SMTT(20)
  <2>3. QED
    BY <1>1, <2>1, <2>2
<1>7. Handled(s) = HandleUpTo(s)[Len(s)] /\ Handled(t) = HandleUpTo(t)[Len(s) + 1]
  <2>1. Len(t) \in Nat
    BY <1>1
  <2>2. QED
    BY <1>1, <2>1, HandleValues
<1>8. QED
  BY <1>5, <1>6, <1>7, Zenon DEF t

--------------------------------------------------------------------------------
(* An event as a frame, and a frame as an event.                                *)

\* What may be sent: an event of words, none of which is the escape itself.
Sendable(e) == /\ e = [kind |-> e.kind, data |-> e.data]
               /\ e.kind # Newline /\ IsSeq(e.data) /\ Escape \notin ToSet(e.data)

\* Sequences put together, place by place.
LEMMA GluedAt ==
  ASSUME NEW S, NEW s \in Seq(S), NEW t \in Seq(S)
  PROVE  /\ s \o t \in Seq(S)
         /\ Len(s \o t) = Len(s) + Len(t)
         /\ \A i \in 1..Len(s) : (s \o t)[i] = s[i]
         /\ \A i \in 1..Len(t) : (s \o t)[Len(s) + i] = t[i]
<1>1. Len(s \o t) = Len(s) + Len(t)
  OBVIOUS
<1>2. \A i \in 1..Len(s) : (s \o t)[i] = s[i]
  OBVIOUS
<1>3. \A i \in 1..Len(t) : (s \o t)[Len(s) + i] = t[i]
  OBVIOUS
<1>4. s \o t \in Seq(S)
  OBVIOUS
<1>5. QED
  BY <1>1, <1>2, <1>3, <1>4

Glued(s, a, b, c) ==
  /\ Len(s) = Len(a) + Len(b) + Len(c)
  /\ \A i \in 1..Len(a) : s[i] = a[i]
  /\ \A i \in 1..Len(b) : s[Len(a) + i] = b[i]
  /\ \A i \in 1..Len(c) : s[Len(a) + Len(b) + i] = c[i]

LEMMA GluedThree ==
  ASSUME NEW S, NEW a \in Seq(S), NEW b \in Seq(S), NEW c \in Seq(S)
  PROVE  (a \o b) \o c \in Seq(S) /\ Glued((a \o b) \o c, a, b, c)
<1> DEFINE s == (a \o b) \o c
<1> DEFINE f == a \o b
<1>1. f \in Seq(S)
  OBVIOUS
<1>2. Len(f) = Len(a) + Len(b)
  OBVIOUS
<1>3. (\A i \in 1..Len(a) : f[i] = a[i]) /\ \A i \in 1..Len(b) : f[Len(a) + i] = b[i]
  BY GluedAt
<1> HIDE DEF f, s
<1>4. s = f \o c
  BY DEF f, s
<1>5. s \in Seq(S)
  BY <1>1, <1>4
<1>6. Len(s) = Len(f) + Len(c)
  BY <1>1, <1>4
<1>7. \A i \in 1..Len(f) : s[i] = f[i]
  BY <1>1, <1>4
<1>8. \A i \in 1..Len(c) : s[Len(f) + i] = c[i]
  BY <1>1, <1>4
<1>9. Len(a) \in Nat /\ Len(b) \in Nat /\ Len(c) \in Nat
  OBVIOUS
<1>10. ASSUME NEW i \in 1..Len(a) PROVE s[i] = a[i]
  <2>1. i \in 1..Len(f)
    BY <1>2, <1>9
  <2>2. QED
    BY <1>3, <1>7, <2>1
<1>11. ASSUME NEW i \in 1..Len(b) PROVE s[Len(a) + i] = b[i]
  <2>1. Len(a) + i \in 1..Len(f)
    BY <1>2, <1>9
  <2>2. QED
    BY <1>3, <1>7, <2>1
<1>12. Len(s) = Len(a) + Len(b) + Len(c)
  BY <1>2, <1>6
<1>13. \A i \in 1..Len(c) : s[Len(a) + Len(b) + i] = c[i]
  BY <1>2, <1>8
<1>14. QED
  BY <1>5, <1>10, <1>11, <1>12, <1>13, Zenon DEF Glued, s

\* The places of a sequence are those of its set of members.
LEMMA SeqPlaces ==
  ASSUME NEW s, IsSeq(s)
  PROVE  /\ Len(s) \in Nat /\ DOMAIN s = 1..Len(s)
         /\ s = [i \in 1..Len(s) |-> s[i]]
         /\ \A i \in 1..Len(s) : s[i] \in ToSet(s)
<1>1. s \in Seq(ToSet(s))
  BY DEF IsSeq
<1>2. QED
  BY <1>1

\* A sequence over any set is one.
LEMMA SeqIs ==
  ASSUME NEW S, NEW s \in Seq(S)
  PROVE  IsSeq(s)
<1>1. s = [i \in 1..Len(s) |-> s[i]] /\ Len(s) \in Nat
  OBVIOUS
<1>2. \A i \in 1..Len(s) : s[i] \in ToSet(s)
  BY DEF ToSet
<1> DEFINE R == ToSet(s)
<1>3. s \in Seq(R)
  <2> HIDE DEF R
  <2>1. \A i \in 1..Len(s) : s[i] \in R
    BY <1>2 DEF R
  <2>2. QED
    BY <1>1, <2>1
<1>4. QED
  BY <1>3 DEF IsSeq

\* The text of the data of an event, on one line.
Escaped(r, s, a, b) ==
  Len(r) = Len(s) /\ \A i \in 1..Len(s) : r[i] = IF s[i] = a THEN b ELSE s[i]

LEMMA EscapedIs ==
  ASSUME NEW s, IsSeq(s), NEW a, NEW b, NEW S, b \in S, ToSet(s) \subseteq S
  PROVE  ReplaceAll(s, a, b) \in Seq(S) /\ Escaped(ReplaceAll(s, a, b), s, a, b)
<1> DEFINE R == ReplaceAll(s, a, b)
<1>1. Len(s) \in Nat /\ \A i \in 1..Len(s) : s[i] \in S
  BY SeqPlaces
<1>2. R = [i \in 1..Len(s) |-> IF s[i] = a THEN b ELSE s[i]]
  BY DEF ReplaceAll
<1>3. \A i \in 1..Len(s) : R[i] = (IF s[i] = a THEN b ELSE s[i]) /\ R[i] \in S
  BY <1>1, <1>2
<1>4. R \in Seq(S) /\ Len(R) = Len(s)
  BY <1>1, <1>2
<1>5. QED
  BY <1>3, <1>4 DEF Escaped

\* The json of an event is one line that begins and ends with a brace.
LEMMA JsonIs ==
  ASSUME NEW e, Sendable(e)
  PROVE  /\ IsSeq(Json(e)) /\ Len(e.data) \in Nat /\ Len(Json(e)) = Len(e.data) + 3
         /\ Json(e)[1] = "{" /\ Json(e)[2] = e.kind /\ Json(e)[Len(e.data) + 3] = "}"
         /\ \A i \in 1..Len(e.data) :
              Json(e)[i + 2] = IF e.data[i] = Newline THEN Escape ELSE e.data[i]
<1> DEFINE j == Json(e)
           d == Len(e.data)
           R == ReplaceAll(e.data, Newline, Escape)
           S == {"{", e.kind, "}", Escape} \cup ToSet(e.data)
           open == <<"{", e.kind>>
           close == <<"}">>
<1>1. d \in Nat
  BY SeqPlaces DEF Sendable
<1>2. R \in Seq(S) /\ Escaped(R, e.data, Newline, Escape)
  <2>1. IsSeq(e.data)
    BY DEF Sendable
  <2>2. Escape \in S /\ ToSet(e.data) \subseteq S
    OBVIOUS
  <2> HIDE DEF S
  <2>3. QED
    BY <2>1, <2>2, EscapedIs, Zenon
<1>3. open \in Seq(S)
  OBVIOUS
<1>4. close \in Seq(S)
  OBVIOUS
<1>5. open[1] = "{" /\ open[2] = e.kind /\ close[1] = "}"
  OBVIOUS
<1>6. Len(open) = 2 /\ Len(close) = 1
  OBVIOUS
<1>7. j = (open \o R) \o close
  BY DEF Json
<1> HIDE DEF R, S, open, close, j, d
<1>8. R \in Seq(S)
  BY <1>2
<1>9. Len(R) = d
  BY <1>2 DEF Escaped, d
<1>10. j \in Seq(S) /\ Glued(j, open, R, close)
  BY <1>3, <1>4, <1>7, <1>8, GluedThree, Zenon
<1>11. Len(j) = d + 3
  <2>1. Len(j) = Len(open) + Len(R) + Len(close)
    BY <1>10, Zenon DEF Glued
  <2>2. QED
    BY <1>1, <1>6, <1>9, <2>1
<1>12. 1 \in 1..Len(open) /\ 2 \in 1..Len(open) /\ 1 \in 1..Len(close)
  BY <1>6
<1>13. j[1] = "{" /\ j[2] = e.kind
  BY <1>5, <1>10, <1>12, Zenon DEF Glued
<1>14. j[d + 3] = "}"
  <2>1. Len(open) + Len(R) + 1 = d + 3
    BY <1>1, <1>6, <1>9
  <2>2. j[Len(open) + Len(R) + 1] = close[1]
    BY <1>10, <1>12, Zenon DEF Glued
  <2>3. QED
    BY <1>5, <2>1, <2>2, Zenon
<1>15. ASSUME NEW i \in 1..d
       PROVE  j[i + 2] = IF e.data[i] = Newline THEN Escape ELSE e.data[i]
  <2>1. Len(open) + i = i + 2 /\ i \in 1..Len(R)
    BY <1>1, <1>6, <1>9
  <2>2. j[Len(open) + i] = R[i]
    BY <1>10, <2>1, Zenon DEF Glued
  <2>3. R[i] = IF e.data[i] = Newline THEN Escape ELSE e.data[i]
    BY <1>2, Zenon DEF Escaped, d
  <2>4. QED
    BY <2>1, <2>2, <2>3, Zenon
<1>16. IsSeq(j)
  BY <1>10, SeqIs, Zenon
<1>17. QED
  BY <1>1, <1>11, <1>13, <1>14, <1>15, <1>16, Zenon DEF j, d

LEMMA JsonLine ==
  ASSUME NEW e, Sendable(e), NEW i \in 1..Len(Json(e))
  PROVE  Json(e)[i] # Newline
<1> DEFINE d == Len(e.data)
           j == Json(e)
<1>1. d \in Nat
  BY JsonIs, Zenon
<1>2. Len(j) = d + 3
  BY JsonIs, Zenon
<1>3. j[1] = "{" /\ j[2] = e.kind /\ j[d + 3] = "}"
  BY JsonIs, Zenon
<1>4. \A k \in 1..d : j[k + 2] = IF e.data[k] = Newline THEN Escape ELSE e.data[k]
  BY JsonIs, Zenon
<1> HIDE DEF d, j
<1>5. i \in 1..(d + 3)
  BY <1>2 DEF j
<1>6. i = 1 \/ i = 2 \/ i = d + 3 \/ i \in 3..(d + 2)
  BY <1>1, <1>5
<1>7. CASE i \in 3..(d + 2)
  <2>1. i - 2 \in 1..d /\ (i - 2) + 2 = i
    BY <1>1, <1>7
  <2>2. j[i] = IF e.data[i - 2] = Newline THEN Escape ELSE e.data[i - 2]
    <3>1. j[(i - 2) + 2] = IF e.data[i - 2] = Newline THEN Escape ELSE e.data[i - 2]
      BY <1>4, <2>1, Zenon
    <3>2. QED
      BY <2>1, <3>1, Zenon
  <2>3. Escape # Newline
    BY DEF Escape, Newline
  <2>4. QED
    BY <2>2, <2>3, Zenon DEF j
<1>8. CASE i = 1 \/ i = 2 \/ i = d + 3
  <2>1. "{" # Newline /\ "}" # Newline
    BY DEF Newline
  <2>2. e.kind # Newline
    BY DEF Sendable
  <2>3. QED
    BY <1>3, <1>8, <2>1, <2>2, Zenon DEF j
<1>9. QED
  BY <1>6, <1>7, <1>8

\* The event that is read of its own json is the event.
LEMMA JsonRead ==
  ASSUME NEW e, Sendable(e)
  PROVE  IsJson(Json(e)) /\ ParseSseFrame(Json(e)) = e
<1> DEFINE d == Len(e.data)
           j == Json(e)
           mid == SubSeq(j, 3, Len(j) - 1)
           back == ReplaceAll(mid, Escape, Newline)
<1>1. d \in Nat
  BY JsonIs, Zenon
<1>2. Len(j) = d + 3
  BY JsonIs, Zenon
<1>3. j[1] = "{" /\ j[2] = e.kind /\ j[d + 3] = "}"
  BY JsonIs, Zenon
<1>4. \A i \in 1..d : j[i + 2] = IF e.data[i] = Newline THEN Escape ELSE e.data[i]
  BY JsonIs, Zenon
<1>5. j \in Seq(ToSet(j))
  BY JsonIs, Zenon DEF IsSeq
<1>6. e.data = [i \in 1..d |-> e.data[i]] /\ \A i \in 1..d : e.data[i] \in ToSet(e.data)
  BY SeqPlaces, Zenon DEF Sendable
<1> DEFINE S == ToSet(j)
<1> HIDE DEF d, j, S
<1>7. j \in Seq(S)
  BY <1>5 DEF S
<1>8. Head(j) = "{" /\ Last(j) = "}"
  <2>1. Head(j) = j[1]
    BY <1>1, <1>2, <1>7
  <2>2. Last(j) = j[d + 3]
    BY <1>2 DEF Last
  <2>3. QED
    BY <1>3, <2>1, <2>2, Zenon
<1>9. Len(j) > 2
  BY <1>1, <1>2
<1>10. mid = [i \in 1..d |-> j[i + 2]]
  <2>1. Len(j) - 1 = d + 2 /\ d + 2 <= Len(j)
    BY <1>1, <1>2
  <2>2. QED
    BY <1>1, <1>7, <2>1
<1>11. Len(mid) = d
  BY <1>1, <1>10
<1>12. \A i \in 1..d : mid[i] = j[i + 2]
  BY <1>10
<1>13. back = [i \in 1..d |-> IF mid[i] = Escape THEN Newline ELSE mid[i]]
  BY <1>11 DEF ReplaceAll
<1> HIDE DEF mid, back
<1>14. ASSUME NEW i \in 1..d
       PROVE  (IF mid[i] = Escape THEN Newline ELSE mid[i]) = e.data[i]
  <2>1. mid[i] = IF e.data[i] = Newline THEN Escape ELSE e.data[i]
    BY <1>4, <1>12, Zenon
  <2>2. e.data[i] # Escape
    BY <1>6, Zenon DEF Sendable
  <2>3. QED
    BY <2>1, <2>2, Zenon
<1>15. back = e.data
  BY <1>6, <1>13, <1>14, Zenon
<1>16. IsJson(j)
  BY <1>8, <1>9 DEF IsJson
<1>17. ParseSseFrame(j) = [kind |-> e.kind, data |-> back]
  BY <1>3, Zenon DEF ParseSseFrame, mid, back
<1>18. QED
  BY <1>15, <1>16, <1>17, Zenon DEF Sendable, j

--------------------------------------------------------------------------------
(* One more word of a text that is split.                                       *)

LEMMA AppendedIs ==
  ASSUME NEW r, IsSeq(r), NEW w
  PROVE  /\ IsSeq(Append(r, w)) /\ Len(r) \in Nat /\ Len(Append(r, w)) = Len(r) + 1
         /\ Append(r, w)[Len(r) + 1] = w
         /\ \A i \in 1..Len(r) : Append(r, w)[i] = r[i]
<1> DEFINE S == ToSet(r) \cup {w}
<1>1. r \in Seq(S) /\ w \in S
  BY DEF IsSeq
<1> HIDE DEF S
<1>2. Append(r, w) \in Seq(S)
  BY <1>1
<1>3. IsSeq(Append(r, w))
  BY <1>2, SeqIs, Zenon
<1>4. Len(r) \in Nat /\ Len(Append(r, w)) = Len(r) + 1
  BY <1>1
<1>5. Append(r, w)[Len(r) + 1] = w /\ \A i \in 1..Len(r) : Append(r, w)[i] = r[i]
  BY <1>1
<1>6. QED
  BY <1>3, <1>4, <1>5

\* The step of the split of a text, of what was split so far.
LEMMA NextWordIs ==
  ASSUME NEW q, NEW r, NEW w, NEW n
  PROVE  NextWord([parts |-> q, rest |-> r], w, n) =
           IF Ends(Append(r, w), n)
           THEN [parts |-> Append(q, SubSeq(Append(r, w), 1, Len(Append(r, w)) - n)),
                 rest |-> <<>>]
           ELSE [parts |-> q, rest |-> Append(r, w)]
<1> DEFINE split == [parts |-> q, rest |-> r]
           t == Append(r, w)
<1>1. split.parts = q /\ split.rest = r
  OBVIOUS
<1> HIDE DEF t
<1>2. [split EXCEPT !.rest = t] = [parts |-> q, rest |-> t]
  OBVIOUS
<1> HIDE DEF split
<1>3. NextWord(split, w, n) =
        IF Ends(t, n)
        THEN [parts |-> Append(q, SubSeq(t, 1, Len(t) - n)), rest |-> <<>>]
        ELSE [parts |-> q, rest |-> t]
  BY <1>1, <1>2, Zenon DEF NextWord, t
<1>4. QED
  BY <1>3, Zenon DEF split, t

\* The first words of a sequence, up to its last one.
LEMMA PrefixOfAppended ==
  ASSUME NEW r, IsSeq(r), NEW w
  PROVE  SubSeq(Append(r, w), 1, Len(r)) = r
<1>1. r \in Seq(ToSet(r) \cup {w})
  BY DEF IsSeq
<1>2. QED
  BY <1>1

LEMMA NextOfLine ==
  ASSUME NEW q, NEW r, IsSeq(r), NEW w
  PROVE  NextWord([parts |-> q, rest |-> r], w, 1) =
           IF w = Newline THEN [parts |-> Append(q, r), rest |-> <<>>]
           ELSE [parts |-> q, rest |-> Append(r, w)]
<1> DEFINE t == Append(r, w)
<1>1. Len(r) \in Nat /\ Len(t) = Len(r) + 1 /\ t[Len(r) + 1] = w
  BY AppendedIs
<1>2. SubSeq(t, 1, Len(r)) = r
  BY PrefixOfAppended
<1> HIDE DEF t
<1>3. Ends(t, 1) <=> w = Newline
  <2>1. Len(t) >= 1 /\ Len(t) - 0 = Len(r) + 1 /\ 0..(1 - 1) = {0}
    BY <1>1
  <2>2. QED
    BY <1>1, <2>1 DEF Ends
<1>4. Len(t) - 1 = Len(r)
  BY <1>1
<1>5. NextWord([parts |-> q, rest |-> r], w, 1) =
        IF Ends(t, 1) THEN [parts |-> Append(q, SubSeq(t, 1, Len(t) - 1)), rest |-> <<>>]
        ELSE [parts |-> q, rest |-> t]
  BY NextWordIs, Zenon DEF t
<1>6. QED
  BY <1>2, <1>3, <1>4, <1>5, Zenon DEF t

Closes2(r, w) == r # <<>> /\ r[Len(r)] = Newline /\ w = Newline

LEMMA NextOfFrame ==
  ASSUME NEW q, NEW r, IsSeq(r), NEW w
  PROVE  NextWord([parts |-> q, rest |-> r], w, 2) =
           IF Closes2(r, w) THEN [parts |-> Append(q, SubSeq(r, 1, Len(r) - 1)), rest |-> <<>>]
           ELSE [parts |-> q, rest |-> Append(r, w)]
<1> DEFINE t == Append(r, w)
<1>0. r \in Seq(ToSet(r) \cup {w})
  BY DEF IsSeq
<1>1. Len(r) \in Nat /\ Len(t) = Len(r) + 1 /\ t[Len(r) + 1] = w
  BY AppendedIs
<1>2. \A i \in 1..Len(r) : t[i] = r[i]
  BY AppendedIs
<1>3. r = <<>> <=> Len(r) = 0
  BY <1>0
<1>4. SubSeq(t, 1, Len(t) - 2) = SubSeq(r, 1, Len(r) - 1)
  <2>1. Len(t) - 2 = Len(r) - 1
    BY <1>1
  <2>2. SubSeq(t, 1, Len(r) - 1) = [i \in 1..(Len(r) - 1) |-> t[i]]
    <3>1. t \in Seq(ToSet(r) \cup {w})
      BY <1>0
    <3> HIDE DEF t
    <3>2. QED
      BY <1>1, <3>1
  <2>3. SubSeq(r, 1, Len(r) - 1) = [i \in 1..(Len(r) - 1) |-> r[i]]
    BY <1>0, <1>1
  <2> HIDE DEF t
  <2>4. \A i \in 1..(Len(r) - 1) : t[i] = r[i]
    BY <1>1, <1>2
  <2>5. QED
    BY <2>1, <2>2, <2>3, <2>4
<1> HIDE DEF t
<1>5. Ends(t, 2) <=> Closes2(r, w)
  <2>1. 0..(2 - 1) = {0, 1} /\ Len(t) - 0 = Len(r) + 1 /\ Len(t) - 1 = Len(r)
    BY <1>1
  <2>2. CASE r = <<>>
    <3>1. ~(Len(t) >= 2)
      BY <1>1, <1>3, <2>2
    <3>2. QED
      BY <2>2, <3>1 DEF Ends, Closes2
  <2>3. CASE r # <<>>
    <3>1. Len(t) >= 2 /\ Len(r) \in 1..Len(r)
      BY <1>1, <1>3, <2>3
    <3>2. t[Len(r)] = r[Len(r)]
      BY <1>2, <3>1
    <3>3. Ends(t, 2) <=> t[Len(r) + 1] = Newline /\ t[Len(r)] = Newline
      BY <2>1, <3>1 DEF Ends
    <3>4. QED
      BY <1>1, <2>3, <3>2, <3>3 DEF Closes2
  <2>4. QED
    BY <2>2, <2>3
<1>6. NextWord([parts |-> q, rest |-> r], w, 2) =
        IF Ends(t, 2) THEN [parts |-> Append(q, SubSeq(t, 1, Len(t) - 2)), rest |-> <<>>]
        ELSE [parts |-> q, rest |-> t]
  BY NextWordIs, Zenon DEF t
<1>7. QED
  BY <1>4, <1>5, <1>6, Zenon DEF t

\* The split of the first m words into lines, where the last begins after word p.
Lined(t, q, p, m) == SplitUpTo(t, 1)[m] = [parts |-> q, rest |-> SubSeq(t, p + 1, m)]
Unbroken(t, p, m) == \A k \in (p + 1)..m : t[k] # Newline

\* A stretch of a text without a newline goes on with its line.
LEMMA LineGoesOn ==
  ASSUME NEW t, IsSeq(t), NEW p \in 0..Len(t), NEW q,
         SplitUpTo(t, 1)[p] = [parts |-> q, rest |-> <<>>],
         NEW m \in p..Len(t), Unbroken(t, p, m)
  PROVE  Lined(t, q, p, m)
<1> DEFINE G == SplitUpTo(t, 1)
           S == {i \in Nat : G[p + i] = [parts |-> q, rest |-> SubSeq(t, p + 1, p + i)]}
<1>0. Len(t) \in Nat /\ t \in Seq(ToSet(t))
  BY SeqPlaces DEF IsSeq
<1>1. 0 \in S
  <2>1. SubSeq(t, p + 1, p + 0) = <<>> /\ p + 0 = p
    BY <1>0
  <2>2. QED
    BY <2>1
<1>2. ASSUME NEW i \in 0..(m - p - 1), i \in S PROVE i + 1 \in S
  <2> DEFINE r == SubSeq(t, p + 1, p + i)
  <2>1. p + i + 1 \in 1..Len(t) /\ p + i + 1 \in (p + 1)..m /\ (p + i + 1) - 1 = p + i
    BY <1>0
  <2>2. G[p + i + 1] = NextWord(G[(p + i + 1) - 1], t[p + i + 1], 1)
    BY <1>0, <2>1, SplitStep, Zenon
  <2>3. G[p + i] = [parts |-> q, rest |-> r]
    BY <1>2
  <2>4. r \in Seq(ToSet(t)) /\ SubSeq(t, p + 1, p + i + 1) = Append(r, t[p + i + 1])
    <3> DEFINE R == ToSet(t)
    <3> HIDE DEF R
    <3>1. t \in Seq(R)
      BY <1>0 DEF R
    <3>2. r \in Seq(R)
      BY <1>0, <2>1, <3>1
    <3>3. SubSeq(t, p + 1, p + i + 1) = Append(r, t[p + i + 1])
      BY <1>0, <2>1, <3>1
    <3>4. QED
      BY <3>2, <3>3 DEF R
  <2> HIDE DEF r, G
  <2>5. IsSeq(r)
    BY <2>4, SeqIs, Zenon
  <2>6. NextWord([parts |-> q, rest |-> r], t[p + i + 1], 1) =
          [parts |-> q, rest |-> Append(r, t[p + i + 1])]
    <3>1. t[p + i + 1] # Newline
      BY <2>1 DEF Unbroken
    <3>2. QED
      BY <2>5, <3>1, NextOfLine, Zenon
  <2>7. G[p + i + 1] = [parts |-> q, rest |-> SubSeq(t, p + 1, p + i + 1)]
    BY <2>1, <2>2, <2>3, <2>4, <2>6, Zenon
  <2>8. p + (i + 1) = p + i + 1 /\ i + 1 \in Nat
    BY <1>0
  <2>9. QED
    BY <2>7, <2>8
<1> HIDE DEF S, G
<1>3. 0..(m - p) \subseteq S
  <2>1. m - p \in Nat
    BY <1>0
  <2>2. QED
    BY <1>1, <1>2, <2>1, Induction
<1>4. m - p \in S /\ p + (m - p) = m
  BY <1>0, <1>3
<1>5. QED
  BY <1>4 DEF S, G, Lined

--------------------------------------------------------------------------------
(* The frames of the response.                                                  *)

\* The frame of an event up to the empty line that ends it.
Body(e) == <<"event:", e.kind, Newline, "data:">> \o Json(e)

\* A frame ends at the first empty line.
FrameLike(f) ==
  /\ IsSeq(f) /\ Len(f) >= 3
  /\ f[Len(f) - 1] = Newline /\ f[Len(f)] = Newline
  /\ \A i \in 1..(Len(f) - 2) : f[i] # Newline \/ f[i + 1] # Newline

LEMMA BodyIs ==
  ASSUME NEW e, Sendable(e)
  PROVE  /\ IsSeq(Body(e)) /\ Len(Json(e)) \in Nat /\ Len(Json(e)) >= 3
         /\ Len(Body(e)) = Len(Json(e)) + 4
         /\ Body(e)[1] = "event:" /\ Body(e)[2] = e.kind
         /\ Body(e)[3] = Newline /\ Body(e)[4] = "data:"
         /\ \A i \in 1..Len(Json(e)) : Body(e)[4 + i] = Json(e)[i]
<1> DEFINE j == Json(e)
           S == {"event:", e.kind, Newline, "data:"} \cup ToSet(j)
           head == <<"event:", e.kind, Newline, "data:">>
           b == Body(e)
<1>1. Len(e.data) \in Nat
  BY JsonIs, Zenon
<1>2. Len(j) = Len(e.data) + 3
  BY JsonIs, Zenon
<1>3. Len(j) \in Nat /\ Len(j) >= 3
  BY <1>1, <1>2
<1>4. j \in Seq(ToSet(j))
  BY JsonIs, Zenon DEF IsSeq
<1>5. head \in Seq(S)
  OBVIOUS
<1>6. Len(head) = 4
  OBVIOUS
<1>7. head[1] = "event:" /\ head[2] = e.kind /\ head[3] = Newline /\ head[4] = "data:"
  OBVIOUS
<1>8. b = head \o j
  BY DEF Body
<1> DEFINE T == ToSet(j)
<1>9. T \subseteq S
  OBVIOUS
<1> HIDE DEF S, T, head, j, b
<1>10. j \in Seq(S)
  BY <1>4, <1>9 DEF T
<1>11. b \in Seq(S)
  BY <1>5, <1>8, <1>10
<1>12. Len(b) = Len(j) + 4
  <2>1. Len(b) = Len(head) + Len(j)
    BY <1>5, <1>8, <1>10
  <2>2. QED
    BY <1>3, <1>6, <2>1
<1>13. \A i \in 1..Len(head) : b[i] = head[i]
  BY <1>5, <1>8, <1>10
<1>14. \A i \in 1..Len(j) : b[Len(head) + i] = j[i]
  BY <1>5, <1>8, <1>10
<1>15. 1 \in 1..Len(head) /\ 2 \in 1..Len(head) /\ 3 \in 1..Len(head) /\ 4 \in 1..Len(head)
  BY <1>6
<1>16. b[1] = "event:" /\ b[2] = e.kind /\ b[3] = Newline /\ b[4] = "data:"
  BY <1>7, <1>13, <1>15, Zenon
<1>17. \A i \in 1..Len(j) : b[4 + i] = j[i]
  BY <1>6, <1>14, Zenon
<1>18. IsSeq(b)
  BY <1>11, SeqIs, Zenon
<1>19. QED
  BY <1>3, <1>12, <1>16, <1>17, <1>18, Zenon DEF j, b

\* The newlines of the body: the one after the kind.
LEMMA BodyLines ==
  ASSUME NEW e, Sendable(e), NEW i \in 1..Len(Body(e)), i # 3
  PROVE  Body(e)[i] # Newline
<1> DEFINE j == Json(e)
           b == Body(e)
<1>1. Len(j) \in Nat
  BY BodyIs, Zenon
<1>2. Len(b) = Len(j) + 4
  BY BodyIs, Zenon
<1>3. b[1] = "event:" /\ b[2] = e.kind /\ b[4] = "data:"
  BY BodyIs, Zenon
<1>4. \A k \in 1..Len(j) : b[4 + k] = j[k]
  BY BodyIs, Zenon
<1>5. \A k \in 1..Len(j) : j[k] # Newline
  BY JsonLine
<1> HIDE DEF j, b
<1>6. i \in 1..(Len(j) + 4)
  BY <1>2, Zenon DEF b
<1>7. i = 1 \/ i = 2 \/ i = 4 \/ i \in 5..(Len(j) + 4)
  BY <1>1, <1>6
<1>8. CASE i \in 5..(Len(j) + 4)
  <2>1. i - 4 \in 1..Len(j) /\ 4 + (i - 4) = i
    BY <1>1, <1>8
  <2>2. b[4 + (i - 4)] = j[i - 4] /\ j[i - 4] # Newline
    BY <1>4, <1>5, <2>1, Zenon
  <2>3. QED
    BY <2>1, <2>2, Zenon DEF b
<1>9. CASE i = 1 \/ i = 2 \/ i = 4
  <2>1. "event:" # Newline /\ "data:" # Newline
    BY DEF Newline
  <2>2. e.kind # Newline
    BY DEF Sendable
  <2>3. QED
    BY <1>3, <1>9, <2>1, <2>2, Zenon DEF b
<1>10. QED
  BY <1>7, <1>8, <1>9

LEMMA EncodeIs ==
  ASSUME NEW e, Sendable(e)
  PROVE  /\ FrameLike(EncodeSseEvent(e))
         /\ Len(EncodeSseEvent(e)) = Len(Body(e)) + 2
         /\ SubSeq(EncodeSseEvent(e), 1, Len(EncodeSseEvent(e)) - 2) = Body(e)
<1> DEFINE b == Body(e)
           f == EncodeSseEvent(e)
           S == ToSet(b) \cup {Newline}
           end == <<Newline, Newline>>
<1>1. Len(Json(e)) \in Nat /\ Len(Json(e)) >= 3
  BY BodyIs, Zenon
<1>2. Len(b) = Len(Json(e)) + 4
  BY BodyIs, Zenon
<1>3. Len(b) \in Nat /\ Len(b) >= 7
  BY <1>1, <1>2
<1>4. b \in Seq(ToSet(b))
  BY BodyIs, Zenon DEF IsSeq
<1>5. end \in Seq(S)
  OBVIOUS
<1>6. Len(end) = 2
  OBVIOUS
<1>0. end[1] = Newline /\ end[2] = Newline
  OBVIOUS
<1>7. f = b \o end
  BY DEF EncodeSseEvent, Body
<1> DEFINE T == ToSet(b)
<1>8. T \subseteq S
  OBVIOUS
<1>9. b[3] = Newline /\ b[2] = e.kind /\ e.kind # Newline
  BY BodyIs, Zenon DEF Sendable
<1>10. \A i \in 1..Len(b) : i # 3 => b[i] # Newline
  BY BodyLines
<1> HIDE DEF S, T, end, b, f
<1>11. b \in Seq(S)
  BY <1>4, <1>8 DEF T
<1>12. f \in Seq(S)
  BY <1>5, <1>7, <1>11
<1>13. Len(f) = Len(b) + 2
  <2>1. Len(f) = Len(b) + Len(end)
    BY <1>5, <1>7, <1>11
  <2>2. QED
    BY <1>3, <1>6, <2>1
<1>14. \A i \in 1..Len(b) : f[i] = b[i]
  BY <1>5, <1>7, <1>11
<1>15. f[Len(b) + 1] = Newline /\ f[Len(b) + 2] = Newline
  <2>1. \A i \in 1..Len(end) : f[Len(b) + i] = end[i]
    BY <1>5, <1>7, <1>11
  <2>2. 1 \in 1..Len(end) /\ 2 \in 1..Len(end)
    BY <1>6
  <2>3. QED
    BY <1>0, <2>1, <2>2, Zenon
<1>16. SubSeq(f, 1, Len(f) - 2) = b
  <2>1. Len(f) - 2 = Len(b)
    BY <1>3, <1>13
  <2>2. SubSeq(f, 1, Len(b)) = [i \in 1..Len(b) |-> f[i]]
    BY <1>3, <1>12, <1>13
  <2>3. b = [i \in 1..Len(b) |-> b[i]]
    BY <1>11
  <2>4. QED
    BY <1>14, <2>1, <2>2, <2>3
<1>17. ASSUME NEW i \in 1..(Len(f) - 2) PROVE f[i] # Newline \/ f[i + 1] # Newline
  <2>1. i \in 1..Len(b)
    BY <1>3, <1>13
  <2>2. CASE i # 3
    BY <1>10, <1>14, <2>1, <2>2
  <2>3. CASE i = 3
    <3>1. 4 \in 1..Len(b) /\ 4 # 3 /\ i + 1 = 4
      BY <1>3, <2>3
    <3>2. QED
      BY <1>10, <1>14, <3>1
  <2>4. QED
    BY <2>2, <2>3
<1>18. f[Len(f) - 1] = Newline /\ f[Len(f)] = Newline /\ Len(f) >= 3
  <2>1. Len(f) - 1 = Len(b) + 1 /\ Len(f) >= 3
    BY <1>3, <1>13
  <2>2. QED
    BY <1>13, <1>15, <2>1
<1>19. IsSeq(f)
  BY <1>12, SeqIs, Zenon
<1>20. FrameLike(f)
  BY <1>17, <1>18, <1>19 DEF FrameLike
<1>21. QED
  BY <1>13, <1>16, <1>20, Zenon DEF f, b

LEMMA BeatIs ==
  /\ FrameLike(HeartbeatFrame) /\ Len(HeartbeatFrame) = 3
  /\ SubSeq(HeartbeatFrame, 1, Len(HeartbeatFrame) - 2) = <<": heartbeat">>
<1> DEFINE S == {": heartbeat", Newline}
           f == HeartbeatFrame
<1>1. f \in Seq(S)
  BY DEF HeartbeatFrame
<1>2. Len(f) = 3
  BY DEF HeartbeatFrame
<1>3. f[1] = ": heartbeat" /\ f[2] = Newline /\ f[3] = Newline
  BY DEF HeartbeatFrame
<1>4. ": heartbeat" # Newline
  BY DEF Newline
<1> HIDE DEF S, f
<1>5. SubSeq(f, 1, 1) = <<f[1]>>
  <2>1. SubSeq(f, 1, 1) = [i \in 1..1 |-> f[i]]
    BY <1>1, <1>2
  <2>2. [i \in 1..1 |-> f[i]] = <<f[1]>>
    OBVIOUS
  <2>3. QED
    BY <2>1, <2>2
<1>6. Len(f) - 2 = 1 /\ Len(f) - 1 = 2 /\ Len(f) >= 3
  BY <1>2
<1>7. IsSeq(f)
  BY <1>1, SeqIs, Zenon
<1>8. \A i \in 1..(Len(f) - 2) : f[i] # Newline \/ f[i + 1] # Newline
  <2>1. \A i \in 1..1 : i = 1
    OBVIOUS
  <2>2. QED
    BY <1>3, <1>4, <1>6, <2>1
<1>9. FrameLike(f)
  BY <1>2, <1>3, <1>6, <1>7, <1>8, Zenon DEF FrameLike
<1>10. QED
  BY <1>2, <1>3, <1>5, <1>6, <1>9, Zenon DEF f

LEMMA AppendedPair ==
  ASSUME NEW x, NEW y
  PROVE  Append(<<x>>, y) = <<x, y>>
<1> DEFINE S == {x, y}
           s == <<x>>
           t == Append(s, y)
<1>1. y \in S
  OBVIOUS
<1>2. s \in Seq(S)
  OBVIOUS
<1>3. Len(s) = 1
  OBVIOUS
<1>4. s[1] = x
  OBVIOUS
<1> HIDE DEF s, S
<1>5. t \in Seq(S) /\ Len(t) = Len(s) + 1
  BY <1>1, <1>2
<1>6. t[Len(s) + 1] = y /\ \A i \in 1..Len(s) : t[i] = s[i]
  BY <1>1, <1>2
<1>7. 1 \in 1..Len(s) /\ Len(s) + 1 = 2
  BY <1>3
<1> HIDE DEF t
<1>8. t \in Seq(S) /\ Len(t) = 2 /\ t[1] = x /\ t[2] = y
  BY <1>4, <1>5, <1>6, <1>7, Zenon
<1>9. t = [i \in 1..2 |-> t[i]]
  BY <1>8
<1>10. [i \in 1..2 |-> t[i]] = <<t[1], t[2]>>
  OBVIOUS
<1>11. QED
  BY <1>8, <1>9, <1>10, Zenon DEF t, s

\* The lines of an event's frame: the one of its kind and the one of its json.
LEMMA LinesOfBody ==
  ASSUME NEW e, Sendable(e)
  PROVE  Lines(Body(e)) = <<<<"event:", e.kind>>, <<"data:">> \o Json(e)>>
<1> DEFINE b == Body(e)
           j == Json(e)
           G == SplitUpTo(b, 1)
           first == SubSeq(b, 1, 2)
           second == SubSeq(b, 4, Len(b))
<1>1. Len(j) \in Nat /\ Len(j) >= 3
  BY BodyIs, Zenon
<1>2. Len(b) = Len(j) + 4
  BY BodyIs, Zenon
<1>3. Len(b) \in Nat /\ Len(b) >= 7
  BY <1>1, <1>2
<1>4. IsSeq(b) /\ IsSeq(j)
  BY BodyIs, JsonIs, Zenon
<1>5. b[1] = "event:" /\ b[2] = e.kind /\ b[3] = Newline /\ b[4] = "data:"
  BY BodyIs, Zenon
<1>6. \A i \in 1..Len(j) : b[4 + i] = j[i]
  BY BodyIs, Zenon
<1>7. \A i \in 1..Len(b) : i # 3 => b[i] # Newline
  BY BodyLines
<1> HIDE DEF b, j, G, first, second
<1>8. G[0] = [parts |-> <<>>, rest |-> <<>>]
  BY <1>3, SplitValues, Zenon DEF G
<1>9. Split(b, 1) = G[Len(b)]
  BY <1>3, SplitValues, Zenon DEF G
<1>10. \A i \in 1..Len(b) : G[i] = NextWord(G[i - 1], b[i], 1)
  BY <1>3, SplitStep, Zenon DEF G
<1>11. G[2] = [parts |-> <<>>, rest |-> first]
  <2>1. 0 \in 0..Len(b) /\ 2 \in 0..Len(b) /\ 0 + 1 = 1
    BY <1>3
  <2>2. Unbroken(b, 0, 2)
    BY <1>3, <1>7 DEF Unbroken
  <2>3. SplitUpTo(b, 1)[0] = [parts |-> <<>>, rest |-> <<>>] /\ IsSeq(b)
    BY <1>4, <1>8 DEF G
  <2>4. Lined(b, <<>>, 0, 2)
    BY <2>1, <2>2, <2>3, LineGoesOn, Zenon
  <2>5. QED
    BY <2>1, <2>4, Zenon DEF first, G, Lined
<1>12. b \in Seq(ToSet(b))
  BY <1>4 DEF IsSeq
<1> DEFINE S == ToSet(b)
<1> HIDE DEF S
<1>13. b \in Seq(S)
  BY <1>12 DEF S
<1>14. first \in Seq(S)
  BY <1>3, <1>13 DEF first
<1>15. G[3] = [parts |-> <<first>>, rest |-> <<>>]
  <2>1. 3 \in 1..Len(b) /\ 3 - 1 = 2
    BY <1>3
  <2>2. G[3] = NextWord(G[2], b[3], 1)
    BY <1>10, <2>1, Zenon
  <2>3. IsSeq(first)
    BY <1>14, SeqIs, Zenon
  <2>4. NextWord([parts |-> <<>>, rest |-> first], Newline, 1) =
          [parts |-> Append(<<>>, first), rest |-> <<>>]
    BY <2>3, NextOfLine, Zenon
  <2>5. Append(<<>>, first) = <<first>>
    OBVIOUS
  <2>6. QED
    BY <1>5, <1>11, <2>2, <2>4, <2>5, Zenon
<1>16. G[Len(b)] = [parts |-> <<first>>, rest |-> second]
  <2>1. 3 \in 0..Len(b) /\ Len(b) \in 3..Len(b) /\ 3 + 1 = 4
    BY <1>3
  <2>2. Unbroken(b, 3, Len(b))
    BY <1>3, <1>7 DEF Unbroken
  <2>3. SplitUpTo(b, 1)[3] = [parts |-> <<first>>, rest |-> <<>>] /\ IsSeq(b)
    BY <1>4, <1>15 DEF G
  <2>4. Lined(b, <<first>>, 3, Len(b))
    BY <2>1, <2>2, <2>3, LineGoesOn, Zenon
  <2>5. QED
    BY <2>1, <2>4, Zenon DEF second, G, Lined
<1>17. first = <<"event:", e.kind>>
  <2>1. first = [i \in 1..2 |-> b[i]]
    BY <1>3, <1>13 DEF first
  <2>2. [i \in 1..2 |-> b[i]] = <<b[1], b[2]>>
    OBVIOUS
  <2>3. QED
    BY <1>5, <2>1, <2>2, Zenon
<1>18. second = <<"data:">> \o j
  <2> DEFINE T == {"data:"} \cup ToSet(j)
             d == <<"data:">>
  <2>1. d \in Seq(T) /\ ToSet(j) \subseteq T
    OBVIOUS
  <2>2. Len(d) = 1
    OBVIOUS
  <2>3. d[1] = "data:"
    OBVIOUS
  <2> HIDE DEF T, d
  <2>4. j \in Seq(T)
    BY <1>4, <2>1 DEF IsSeq
  <2> DEFINE t == d \o j
  <2>5. t = [i \in 1..Len(t) |-> t[i]]
    <3>1. t \in Seq(T)
      BY <2>1, <2>4
    <3> HIDE DEF t
    <3>2. QED
      BY <3>1
  <2>6. Len(t) = Len(j) + 1
    <3>1. Len(t) = Len(d) + Len(j)
      BY <2>1, <2>4
    <3>2. QED
      BY <1>1, <2>2, <3>1
  <2>7. \A i \in 1..Len(d) : t[i] = d[i]
    BY <2>1, <2>4
  <2>8. \A i \in 1..Len(j) : t[Len(d) + i] = j[i]
    BY <2>1, <2>4
  <2> HIDE DEF t
  <2>9. second = [i \in 1..(Len(j) + 1) |-> b[3 + i]]
    <3>1. SubSeq(b, 4, Len(b)) = [i \in 1..(Len(b) - 4 + 1) |-> b[4 + i - 1]]
      BY <1>3, <1>13
    <3>2. Len(b) - 4 + 1 = Len(j) + 1 /\ \A i \in 1..(Len(j) + 1) : 4 + i - 1 = 3 + i
      BY <1>1, <1>2
    <3>3. QED
      BY <3>1, <3>2 DEF second
  <2>10. ASSUME NEW i \in 1..(Len(j) + 1) PROVE b[3 + i] = t[i]
    <3>1. CASE i = 1
      <4>1. 3 + i = 4 /\ 1 \in 1..Len(d)
        BY <2>2, <3>1
      <4>2. QED
        BY <1>5, <2>3, <2>7, <3>1, <4>1, Zenon
    <3>2. CASE i # 1
      <4>1. i - 1 \in 1..Len(j) /\ 4 + (i - 1) = 3 + i /\ Len(d) + (i - 1) = i
        BY <1>1, <2>2, <3>2
      <4>2. b[4 + (i - 1)] = j[i - 1] /\ t[Len(d) + (i - 1)] = j[i - 1]
        BY <1>6, <2>8, <4>1, Zenon
      <4>3. QED
        BY <4>1, <4>2, Zenon
    <3>3. QED
      BY <3>1, <3>2
  <2>11. second = t
    BY <2>5, <2>6, <2>9, <2>10
  <2>12. QED
    BY <2>11, Zenon DEF t, d
<1>19. Lines(b) = Append(<<first>>, second)
  <2>1. Split(b, 1).parts = <<first>> /\ Split(b, 1).rest = second
    BY <1>9, <1>16
  <2>2. QED
    BY <2>1, Zenon DEF Lines
<1>20. Append(<<first>>, second) = <<first, second>>
  BY AppendedPair
<1>21. QED
  BY <1>17, <1>18, <1>19, <1>20, Zenon DEF b, j

LEMMA DataOfBody ==
  ASSUME NEW e, Sendable(e)
  PROVE  DataOf(Body(e)) = Json(e)
<1> DEFINE j == Json(e)
           first == <<"event:", e.kind>>
           second == <<"data:">> \o j
           lines == Lines(Body(e))
           data == [i \in DOMAIN lines |-> LineData(lines[i])]
<1>1. IsSeq(j)
  BY JsonIs, Zenon
<1>2. LineData(first) = <<>>
  BY DEF LineData
<1> DEFINE S == {"data:"} \cup ToSet(j)
           d == <<"data:">>
<1>3. d \in Seq(S) /\ ToSet(j) \subseteq S
  OBVIOUS
<1>4. d[1] = "data:"
  OBVIOUS
<1>5. Len(d) = 1
  OBVIOUS
<1> HIDE DEF S, d, j
<1>6. j \in Seq(S)
  BY <1>1, <1>3 DEF IsSeq
<1> DEFINE w == d \o j
<1>7. w \in Seq(S) /\ Len(w) = Len(d) + Len(j)
  BY <1>3, <1>6
<1>8. Len(j) \in Nat
  BY <1>6
<1>9. w[1] = d[1]
  <2>1. \A i \in 1..Len(d) : w[i] = d[i]
    BY <1>3, <1>6
  <2>2. 1 \in 1..Len(d)
    BY <1>5
  <2>3. QED
    BY <2>1, <2>2, Zenon
<1>10. \A i \in 1..Len(j) : w[Len(d) + i] = j[i]
  BY <1>3, <1>6
<1> HIDE DEF w
<1>11. Len(w) = Len(j) + 1 /\ w # <<>>
  BY <1>5, <1>7, <1>8
<1>12. Head(w) = "data:"
  <2>1. Head(w) = w[1]
    BY <1>7, <1>11
  <2>2. QED
    BY <1>4, <1>9, <2>1, Zenon
<1>13. Tail(w) = j
  <2>1. Tail(w) = [i \in 1..(Len(w) - 1) |-> w[i + 1]]
    <3>1. Tail(w) \in Seq(S)
      BY <1>7, <1>11
    <3>2. Len(Tail(w)) = Len(w) - 1
      BY <1>7, <1>11
    <3>3. \A i \in 1..(Len(w) - 1) : Tail(w)[i] = w[i + 1]
      BY <1>7, <1>11
    <3> DEFINE t == Tail(w)
    <3> HIDE DEF t
    <3>4. t = [i \in 1..Len(t) |-> t[i]]
      <4>1. t \in Seq(S)
        BY <3>1 DEF t
      <4>2. QED
        BY <4>1
    <3>5. QED
      BY <3>2, <3>3, <3>4 DEF t
  <2>2. Len(w) - 1 = Len(j)
    BY <1>8, <1>11
  <2>3. \A i \in 1..Len(j) : w[i + 1] = j[i]
    <3>1. \A i \in 1..Len(j) : Len(d) + i = i + 1
      BY <1>5
    <3>2. QED
      BY <1>10, <3>1
  <2>4. j = [i \in 1..Len(j) |-> j[i]]
    BY <1>6
  <2>5. QED
    BY <2>1, <2>2, <2>3, <2>4
<1>14. LineData(w) = j
  BY <1>11, <1>12, <1>13, Zenon DEF LineData
<1>15. lines = <<first, w>>
  BY LinesOfBody, Zenon DEF w, d, j
<1> HIDE DEF lines, first
<1>16. data = <<<<>>, j>>
  <2>1. DOMAIN lines = 1..2 /\ lines[1] = first /\ lines[2] = w
    BY <1>15
  <2>2. data = [i \in 1..2 |-> LineData(lines[i])]
    BY <2>1
  <2>3. [i \in 1..2 |-> LineData(lines[i])] = <<LineData(lines[1]), LineData(lines[2])>>
    OBVIOUS
  <2>4. QED
    BY <1>2, <1>14, <2>1, <2>2, <2>3, Zenon DEF first
<1>17. FlattenSeq(<<<<>>, j>>) = j
  <2> DEFINE none == <<>>
             one == Append(none, none)
             two == Append(one, j)
  <2>1. two = <<<<>>, j>>
    <3>1. one = <<none>>
      OBVIOUS
    <3> HIDE DEF one, none
    <3>2. two = <<none, j>>
      BY <3>1, AppendedPair, Zenon
    <3>3. QED
      BY <3>2, Zenon DEF none
  <2>2. none \in Seq({none}) /\ one \in Seq({none}) /\ IsSeq(none)
    BY DEF IsSeq
  <2>3. FlattenSeq(none) = none
    BY FlattenOfEmpty
  <2>4. none \o none = none
    OBVIOUS
  <2> HIDE DEF none
  <2>5. FlattenSeq(one) = FlattenSeq(none) \o none
    BY <2>2, FlattenOfAppend, Zenon
  <2> HIDE DEF one
  <2>6. FlattenSeq(two) = FlattenSeq(one) \o j
    BY <1>1, <2>2, FlattenOfAppend, Zenon DEF j
  <2>7. none \o j = j
    BY <1>6 DEF none
  <2>8. QED
    BY <2>1, <2>3, <2>4, <2>5, <2>6, <2>7, Zenon
<1>18. DataOf(Body(e)) = FlattenSeq(data)
  BY Zenon DEF DataOf, lines
<1>19. QED
  BY <1>16, <1>17, <1>18, Zenon DEF j

\* A heartbeat brings no data.
LEMMA DataOfBeat == DataOf(<<": heartbeat">>) = <<>>
<1> DEFINE x == ": heartbeat"
           t == <<x>>
           none == <<>>
           G == SplitUpTo(t, 1)
           lines == Lines(t)
           data == [i \in DOMAIN lines |-> LineData(lines[i])]
<1>1. Len(t) = 1
  OBVIOUS
<1>2. t[1] = x /\ x # Newline /\ Append(none, x) = t
  BY DEF Newline
<1>3. LineData(t) = <<>>
  BY DEF LineData
<1>4. Append(none, t) = <<t>>
  OBVIOUS
<1>5. IsSeq(none)
  BY DEF IsSeq
<1> HIDE DEF t, x, G, lines, none
<1>6. Len(t) \in Nat /\ 1 \in 1..Len(t) /\ 1 - 1 = 0
  BY <1>1
<1>7. G[1] = NextWord(G[0], t[1], 1)
  <2>1. G[1] = NextWord(G[1 - 1], t[1], 1)
    BY <1>6, SplitStep, Zenon DEF G
  <2>2. QED
    BY <1>6, <2>1, Zenon
<1>8. G[0] = [parts |-> none, rest |-> none] /\ Split(t, 1) = G[1]
  BY <1>1, <1>6, SplitValues, Zenon DEF G, none
<1>9. NextWord([parts |-> none, rest |-> none], x, 1) = [parts |-> none, rest |-> t]
  <2>1. NextWord([parts |-> none, rest |-> none], x, 1) =
          IF x = Newline THEN [parts |-> Append(none, none), rest |-> <<>>]
          ELSE [parts |-> none, rest |-> Append(none, x)]
    BY <1>5, NextOfLine, Zenon
  <2>2. QED
    BY <1>2, <2>1, Zenon
<1>10. Split(t, 1) = [parts |-> none, rest |-> t]
  BY <1>2, <1>7, <1>8, <1>9, Zenon
<1>11. lines = Append(none, t)
  <2>1. Split(t, 1).parts = none /\ Split(t, 1).rest = t
    BY <1>10
  <2>2. QED
    BY <2>1, Zenon DEF Lines, lines
<1>12. data = <<none>>
  <2>1. DOMAIN lines = 1..1 /\ lines[1] = t
    BY <1>4, <1>11
  <2>2. data = [i \in 1..1 |-> LineData(lines[i])]
    BY <2>1
  <2>3. [i \in 1..1 |-> LineData(lines[i])] = <<LineData(lines[1])>>
    OBVIOUS
  <2>4. QED
    BY <1>3, <2>1, <2>2, <2>3, Zenon DEF none
<1>13. FlattenSeq(<<none>>) = none
  <2> DEFINE one == Append(none, none)
  <2>1. one = <<none>> /\ none \in Seq({none})
    BY DEF none
  <2>2. FlattenSeq(none) = none
    BY FlattenOfEmpty DEF none
  <2>3. none \o none = none
    BY DEF none
  <2>4. FlattenSeq(one) = FlattenSeq(none) \o none
    BY <1>5, <2>1, FlattenOfAppend, Zenon
  <2>5. QED
    BY <2>1, <2>2, <2>3, <2>4, Zenon
<1>14. DataOf(t) = FlattenSeq(data)
  BY Zenon DEF DataOf, lines
<1>15. QED
  BY <1>12, <1>13, <1>14, Zenon DEF t, x, none

LEMMA NextOfBeat ==
  ASSUME NEW read
  PROVE  NextFrame(read, <<": heartbeat">>) = read
BY DataOfBeat, Zenon DEF NextFrame

\* The event of a frame is handled, and a failed run ends the reading.
LEMMA NextOfEvent ==
  ASSUME NEW e, Sendable(e), NEW s
  PROVE  NextFrame([events |-> s, answer |-> "reading"], Body(e)) =
           [events |-> Append(s, e),
            answer |-> IF e.kind = "run.failed" THEN "failed" ELSE "reading"]
<1> DEFINE j == Json(e)
           read == [events |-> s, answer |-> "reading"]
<1>1. DataOf(Body(e)) = j
  BY DataOfBody
<1>2. IsJson(j) /\ ParseSseFrame(j) = e
  BY JsonRead
<1>3. j # <<>>
  <2>1. Len(e.data) \in Nat
    BY JsonIs, Zenon
  <2>2. Len(j) = Len(e.data) + 3
    BY JsonIs, Zenon
  <2>3. Len(j) # 0
    BY <2>1, <2>2
  <2>4. QED
    BY <2>3
<1>4. read.answer = "reading" /\ read.events = s
  OBVIOUS
<1> HIDE DEF j, read
<1>5. NextFrame(read, Body(e)) =
        [events |-> Append(read.events, e),
         answer |-> IF e.kind = "run.failed" THEN "failed" ELSE "reading"]
  BY <1>1, <1>2, <1>3, <1>4, Zenon DEF NextFrame
<1>6. QED
  BY <1>4, <1>5, Zenon DEF read

--------------------------------------------------------------------------------
(* The response in pieces: what is split and handled piece by piece is what is  *)
(* split and handled of the whole, wherever it is cut.                          *)

LEMMA PrefixNext ==
  ASSUME NEW b, IsSeq(b), NEW n \in 0..(Len(b) - 1)
  PROVE  /\ SubSeq(b, 1, n + 1) = Append(SubSeq(b, 1, n), b[n + 1])
         /\ SubSeq(b, 1, n) \in Seq(ToSet(b)) /\ b[n + 1] \in ToSet(b)
<1> DEFINE S == ToSet(b)
<1> HIDE DEF S
<1>1. b \in Seq(S)
  BY DEF IsSeq, S
<1>2. QED
  BY <1>1 DEF S

LEMMA AppendGlued ==
  ASSUME NEW S, NEW a \in Seq(S), NEW b \in Seq(S), NEW x \in S
  PROVE  a \o Append(b, x) = Append(a \o b, x)
OBVIOUS

\* No empty line within.
Quiet(r) == \A i \in 1..(Len(r) - 1) : r[i] # Newline \/ r[i + 1] # Newline

\* What a split comes to.
Halfway(g) ==
  g = [parts |-> g.parts, rest |-> g.rest] /\ IsSeq(g.parts) /\ IsSeq(g.rest) /\ Quiet(g.rest)

LEMMA HalfwayOn ==
  ASSUME NEW g, Halfway(g), NEW w
  PROVE  Halfway(NextWord(g, w, 2))
<1> DEFINE q == g.parts
           r == g.rest
           t == Append(r, w)
<1>1. NextWord(g, w, 2) =
        IF Closes2(r, w) THEN [parts |-> Append(q, SubSeq(r, 1, Len(r) - 1)), rest |-> <<>>]
        ELSE [parts |-> q, rest |-> t]
  <2>1. g = [parts |-> q, rest |-> r] /\ IsSeq(r)
    BY DEF Halfway
  <2> HIDE DEF q, r
  <2>2. QED
    BY <2>1, NextOfFrame, Zenon
<1>2. CASE Closes2(r, w)
  <2>1. NextWord(g, w, 2) = [parts |-> Append(q, SubSeq(r, 1, Len(r) - 1)), rest |-> <<>>]
    BY <1>1, <1>2, Zenon
  <2>2. IsSeq(Append(q, SubSeq(r, 1, Len(r) - 1)))
    BY AppendedIs, Zenon DEF Halfway
  <2>3. IsSeq(<<>>) /\ Quiet(<<>>)
    BY DEF IsSeq, Quiet
  <2> DEFINE h == NextWord(g, w, 2)
             p == Append(q, SubSeq(r, 1, Len(r) - 1))
  <2>4. h = [parts |-> p, rest |-> <<>>] /\ IsSeq(p)
    BY <2>1, <2>2, Zenon
  <2> HIDE DEF h, p
  <2>5. h.parts = p /\ h.rest = <<>>
    BY <2>4
  <2>6. Halfway(h)
    BY <2>3, <2>4, <2>5, Zenon DEF Halfway
  <2>7. QED
    BY <2>6, Zenon DEF h
<1>3. CASE ~Closes2(r, w)
  <2>1. NextWord(g, w, 2) = [parts |-> q, rest |-> t]
    BY <1>1, <1>3, Zenon
  <2>2. IsSeq(q) /\ IsSeq(r) /\ Quiet(r)
    BY DEF Halfway
  <2> HIDE DEF q, r
  <2>3. Len(r) \in Nat /\ Len(t) = Len(r) + 1
    BY <2>2, AppendedIs
  <2>4. t[Len(r) + 1] = w /\ \A i \in 1..Len(r) : t[i] = r[i]
    BY <2>2, AppendedIs
  <2>5. IsSeq(t)
    BY <2>2, AppendedIs
  <2> HIDE DEF t
  <2>6. ASSUME NEW i \in 1..(Len(t) - 1) PROVE t[i] # Newline \/ t[i + 1] # Newline
    <3>1. CASE i = Len(r)
      <4>1. i \in 1..Len(r) /\ r # <<>>
        BY <2>3, <3>1
      <4>2. QED
        BY <1>3, <2>4, <3>1, <4>1 DEF Closes2
    <3>2. CASE i # Len(r)
      <4>1. i \in 1..(Len(r) - 1) /\ i \in 1..Len(r) /\ i + 1 \in 1..Len(r)
        BY <2>3, <3>2
      <4>2. QED
        BY <2>2, <2>4, <4>1 DEF Quiet
    <3>3. QED
      BY <3>1, <3>2
  <2>7. Quiet(t)
    BY <2>6 DEF Quiet
  <2>8. QED
    BY <2>1, <2>2, <2>5, <2>7 DEF Halfway
<1>4. QED
  BY <1>2, <1>3

LEMMA SplitHalfway ==
  ASSUME NEW t, IsSeq(t), NEW n \in 0..Len(t)
  PROVE  Halfway(SplitUpTo(t, 2)[n])
<1> DEFINE G == SplitUpTo(t, 2)
           S == {i \in Nat : Halfway(G[i])}
<1>0. Len(t) \in Nat
  BY SeqPlaces
<1>1. 0 \in S
  <2>1. G[0] = [parts |-> <<>>, rest |-> <<>>]
    BY <1>0, SplitValues, Zenon
  <2>2. IsSeq(<<>>) /\ Quiet(<<>>)
    BY DEF IsSeq, Quiet
  <2>3. QED
    BY <2>1, <2>2 DEF Halfway
<1>2. ASSUME NEW i \in 0..(Len(t) - 1), i \in S PROVE i + 1 \in S
  <2>1. i + 1 \in 1..Len(t) /\ (i + 1) - 1 = i /\ i + 1 \in Nat
    BY <1>0
  <2>2. G[i + 1] = NextWord(G[(i + 1) - 1], t[i + 1], 2)
    BY <1>0, <2>1, SplitStep, Zenon
  <2>3. Halfway(G[i])
    BY <1>2
  <2> HIDE DEF G
  <2>4. Halfway(G[i + 1])
    BY <2>1, <2>2, <2>3, HalfwayOn, Zenon
  <2>5. QED
    BY <2>1, <2>4
<1> HIDE DEF S
<1>3. 0..Len(t) \subseteq S
  BY <1>0, <1>1, <1>2, Induction
<1>4. QED
  BY <1>3 DEF S

\* A text without an empty line has no frame yet.
LEMMA RestScanned ==
  ASSUME NEW u, IsSeq(u), NEW r, IsSeq(r), Quiet(r), Len(r) <= Len(u),
         \A i \in 1..Len(r) : u[i] = r[i]
  PROVE  SplitUpTo(u, 2)[Len(r)] = [parts |-> <<>>, rest |-> r]
<1> DEFINE G == SplitUpTo(u, 2)
           S == {i \in Nat : G[i] = [parts |-> <<>>, rest |-> SubSeq(r, 1, i)]}
           R == ToSet(r)
<1>0. Len(u) \in Nat /\ Len(r) \in Nat
  BY SeqPlaces
<1>1. 0 \in S
  <2>1. G[0] = [parts |-> <<>>, rest |-> <<>>]
    BY <1>0, SplitValues, Zenon
  <2>2. SubSeq(r, 1, 0) = <<>>
    OBVIOUS
  <2>3. QED
    BY <2>1, <2>2
<1>2. r \in Seq(R)
  BY DEF IsSeq
<1> HIDE DEF R
<1>3. \A i \in 1..Len(u) : G[i] = NextWord(G[i - 1], u[i], 2)
  BY <1>0, SplitValues
<1>4. ASSUME NEW i \in 0..(Len(r) - 1), i \in S PROVE i + 1 \in S
  <2> DEFINE p == SubSeq(r, 1, i)
  <2>1. i + 1 \in 1..Len(u) /\ i + 1 \in 1..Len(r) /\ (i + 1) - 1 = i /\ i + 1 \in Nat
    BY <1>0
  <2>2. G[i + 1] = NextWord(G[(i + 1) - 1], u[i + 1], 2)
    BY <1>3, <2>1, Zenon
  <2>3. G[i] = [parts |-> <<>>, rest |-> p]
    BY <1>4
  <2>4. p \in Seq(R) /\ SubSeq(r, 1, i + 1) = Append(p, r[i + 1])
    BY <1>0, <1>2
  <2>5. Len(p) = i
    BY <1>0, <1>2
  <2>6. \A k \in 1..i : p[k] = r[k]
    BY <1>0, <1>2
  <2>7. p = <<>> <=> i = 0
    BY <2>4, <2>5
  <2> HIDE DEF p, G
  <2>8. IsSeq(p)
    BY <2>4, SeqIs, Zenon
  <2>9. ~Closes2(p, r[i + 1])
    <3>1. SUFFICES ASSUME p # <<>> PROVE p[Len(p)] # Newline \/ r[i + 1] # Newline
      BY DEF Closes2
    <3>2. i \in 1..(Len(r) - 1) /\ i \in 1..i
      BY <1>0, <2>7, <3>1
    <3>3. p[i] = r[i] /\ (r[i] # Newline \/ r[i + 1] # Newline)
      BY <2>6, <3>2 DEF Quiet
    <3>4. QED
      BY <2>5, <3>3, Zenon
  <2>10. NextWord([parts |-> <<>>, rest |-> p], r[i + 1], 2) =
           [parts |-> <<>>, rest |-> Append(p, r[i + 1])]
    BY <2>8, <2>9, NextOfFrame, Zenon
  <2>11. u[i + 1] = r[i + 1]
    BY <2>1
  <2>12. G[i + 1] = [parts |-> <<>>, rest |-> SubSeq(r, 1, i + 1)]
    BY <2>1, <2>2, <2>3, <2>4, <2>10, <2>11, Zenon
  <2>13. QED
    BY <2>1, <2>12
<1> HIDE DEF S, G
<1>5. Len(r) \in S
  <2>1. 0..Len(r) \subseteq S
    BY <1>0, <1>1, <1>4, Induction
  <2>2. QED
    BY <1>0, <2>1
<1>6. SubSeq(r, 1, Len(r)) = r
  BY <1>2
<1>7. QED
  BY <1>5, <1>6 DEF S, G

\* The rest of a read with the words of the next one.
LEMMA SplitGoesOn ==
  ASSUME NEW t, IsSeq(t), NEW p \in 0..Len(t), NEW m \in p..Len(t)
  PROVE  LET G == SplitUpTo(t, 2)
             on == Split(G[p].rest \o SubSeq(t, p + 1, m), 2)
         IN on.rest = G[m].rest /\ IsSeq(on.parts) /\ G[m].parts = G[p].parts \o on.parts
<1> DEFINE G == SplitUpTo(t, 2)
           r == G[p].rest
           n == SubSeq(t, p + 1, m)
           u == r \o n
           H == SplitUpTo(u, 2)
           R == ToSet(r) \cup ToSet(t)
           S == {i \in Nat : /\ H[Len(r) + i].rest = G[p + i].rest
                             /\ G[p + i].parts = G[p].parts \o H[Len(r) + i].parts}
<1>0. Len(t) \in Nat
  BY SeqPlaces
<1>1. \A i \in 0..Len(t) : Halfway(G[i])
  BY SplitHalfway
<1> HIDE DEF G
<1>2. IsSeq(r) /\ Quiet(r) /\ IsSeq(G[p].parts)
  BY <1>1 DEF Halfway
<1> HIDE DEF r
<1>3. r \in Seq(R)
  BY <1>2 DEF IsSeq
<1>4. t \in Seq(R)
  BY DEF IsSeq
<1> HIDE DEF R
<1>5. n \in Seq(R)
  BY <1>0, <1>4
<1>6. Len(n) = m - p
  BY <1>0, <1>4
<1>7. \A i \in 1..(m - p) : n[i] = t[p + i]
  <2>1. \A i \in 1..(m - p) : n[i] = t[p + 1 + i - 1]
    BY <1>0, <1>4
  <2>2. \A i \in 1..(m - p) : p + 1 + i - 1 = p + i
    BY <1>0
  <2>3. QED
    BY <2>1, <2>2
<1> HIDE DEF n
<1>8. u \in Seq(R)
  BY <1>3, <1>5
<1>9. Len(u) = Len(r) + (m - p)
  <2>1. Len(u) = Len(r) + Len(n)
    BY <1>3, <1>5
  <2>2. QED
    BY <1>6, <2>1
<1>10. \A i \in 1..Len(r) : u[i] = r[i]
  BY <1>3, <1>5
<1>11. \A i \in 1..Len(n) : u[Len(r) + i] = n[i]
  BY <1>3, <1>5
<1> HIDE DEF u, H
<1>12. Len(r) \in Nat /\ Len(u) \in Nat /\ m - p \in Nat
  BY <1>0, <1>3, <1>8
<1>13. IsSeq(u)
  BY <1>8, SeqIs, Zenon
<1>14. \A i \in 0..Len(u) : Halfway(H[i])
  BY <1>13, SplitHalfway DEF H
<1>15. 0 \in S
  <2>1. Len(r) <= Len(u)
    BY <1>9, <1>12
  <2>2. H[Len(r)] = [parts |-> <<>>, rest |-> r]
    BY <1>2, <1>10, <1>13, <2>1, RestScanned DEF H
  <2>3. H[Len(r)].parts = <<>> /\ H[Len(r)].rest = r
    BY <2>2
  <2>4. G[p].parts \o <<>> = G[p].parts
    <3> DEFINE q == G[p].parts
    <3>1. q \in Seq(ToSet(q))
      BY <1>2 DEF IsSeq
    <3> HIDE DEF q
    <3>2. q \o <<>> = q
      BY <3>1
    <3>3. QED
      BY <3>2, Zenon DEF q
  <2>5. Len(r) + 0 = Len(r) /\ p + 0 = p
    BY <1>12
  <2>6. /\ H[Len(r) + 0].rest = G[p + 0].rest
        /\ G[p + 0].parts = G[p].parts \o H[Len(r) + 0].parts
    BY <2>3, <2>4, <2>5, Zenon DEF r
  <2>7. QED
    BY <2>6
<1>16. ASSUME NEW i \in 0..(m - p - 1), i \in S PROVE i + 1 \in S
  <2> DEFINE w == t[p + i + 1]
             a == G[p + i]
             b == H[Len(r) + i]
             c == SubSeq(a.rest, 1, Len(a.rest) - 1)
  <2>1. /\ p + i + 1 \in 1..Len(t) /\ (p + i + 1) - 1 = p + i /\ p + i \in 0..Len(t)
        /\ Len(r) + i + 1 \in 1..Len(u) /\ (Len(r) + i + 1) - 1 = Len(r) + i
        /\ Len(r) + i \in 0..Len(u) /\ i + 1 \in Nat
        /\ p + (i + 1) = p + i + 1 /\ Len(r) + (i + 1) = Len(r) + i + 1
    BY <1>0, <1>9, <1>12
  <2>2. G[p + i + 1] = NextWord(a, w, 2)
    <3>1. G[p + i + 1] = NextWord(G[(p + i + 1) - 1], t[p + i + 1], 2)
      BY <1>0, <2>1, SplitStep, Zenon DEF G
    <3>2. QED
      BY <2>1, <3>1, Zenon
  <2>3. H[Len(r) + i + 1] = NextWord(b, w, 2)
    <3>1. H[Len(r) + i + 1] = NextWord(H[(Len(r) + i + 1) - 1], u[Len(r) + i + 1], 2)
      BY <1>12, <2>1, SplitStep, Zenon DEF H
    <3>2. i + 1 \in 1..Len(n) /\ i + 1 \in 1..(m - p)
      BY <1>6, <1>12
    <3>3. u[Len(r) + (i + 1)] = n[i + 1] /\ n[i + 1] = t[p + (i + 1)]
      BY <1>7, <1>11, <3>2, Zenon
    <3>4. u[Len(r) + i + 1] = w
      BY <2>1, <3>3, Zenon
    <3>5. QED
      BY <2>1, <3>1, <3>4, Zenon
  <2>4. Halfway(a) /\ Halfway(b)
    BY <1>1, <1>14, <2>1
  <2>5. b.rest = a.rest /\ a.parts = G[p].parts \o b.parts
    BY <1>16
  <2> HIDE DEF a, b, w, c
  <2>6. /\ a = [parts |-> a.parts, rest |-> a.rest] /\ b = [parts |-> b.parts, rest |-> a.rest]
        /\ IsSeq(a.rest) /\ IsSeq(b.parts)
    BY <2>4, <2>5, Zenon DEF Halfway
  <2>7. NextWord(a, w, 2) = IF Closes2(a.rest, w)
                            THEN [parts |-> Append(a.parts, c), rest |-> <<>>]
                            ELSE [parts |-> a.parts, rest |-> Append(a.rest, w)]
    BY <2>6, NextOfFrame, Zenon DEF c
  <2>8. NextWord(b, w, 2) = IF Closes2(a.rest, w)
                            THEN [parts |-> Append(b.parts, c), rest |-> <<>>]
                            ELSE [parts |-> b.parts, rest |-> Append(a.rest, w)]
    BY <2>6, NextOfFrame, Zenon DEF c
  <2>9. Append(a.parts, c) = G[p].parts \o Append(b.parts, c)
    <3> DEFINE x == G[p].parts
               y == b.parts
               T == (ToSet(x) \cup ToSet(y)) \cup {c}
    <3>1. x \in Seq(T) /\ y \in Seq(T) /\ c \in T
      BY <1>2, <2>6 DEF IsSeq
    <3> HIDE DEF T, x, y
    <3>2. x \o Append(y, c) = Append(x \o y, c)
      BY <3>1, AppendGlued
    <3>3. QED
      BY <2>5, <3>2, Zenon DEF x, y
  <2> DEFINE a1 == G[p + i + 1]
             b1 == H[Len(r) + i + 1]
  <2>10. b1.rest = a1.rest /\ a1.parts = G[p].parts \o b1.parts
    <3>1. CASE Closes2(a.rest, w)
      <4> DEFINE pa == Append(a.parts, c)
                 pb == Append(b.parts, c)
      <4>1. a1 = [parts |-> pa, rest |-> <<>>] /\ b1 = [parts |-> pb, rest |-> <<>>]
        BY <2>2, <2>3, <2>7, <2>8, <3>1, Zenon
      <4> HIDE DEF pa, pb, a1, b1
      <4>2. a1.parts = pa /\ b1.parts = pb /\ a1.rest = b1.rest
        BY <4>1
      <4>3. QED
        BY <2>9, <4>2, Zenon DEF pa, pb
    <3>2. CASE ~Closes2(a.rest, w)
      <4> DEFINE d == Append(a.rest, w)
      <4>1. a1 = [parts |-> a.parts, rest |-> d] /\ b1 = [parts |-> b.parts, rest |-> d]
        BY <2>2, <2>3, <2>7, <2>8, <3>2, Zenon
      <4> HIDE DEF d, a1, b1
      <4>2. a1.parts = a.parts /\ b1.parts = b.parts /\ a1.rest = b1.rest
        BY <4>1
      <4>3. QED
        BY <2>5, <4>2, Zenon
    <3>3. QED
      BY <3>1, <3>2
  <2>11. /\ H[Len(r) + (i + 1)].rest = G[p + (i + 1)].rest
         /\ G[p + (i + 1)].parts = G[p].parts \o H[Len(r) + (i + 1)].parts
    BY <2>1, <2>10, Zenon
  <2>12. QED
    BY <2>1, <2>11
<1> HIDE DEF S
<1>17. m - p \in S
  <2>1. 0..(m - p) \subseteq S
    BY <1>12, <1>15, <1>16, Induction
  <2>2. QED
    BY <1>12, <2>1
<1>18. Split(u, 2) = H[Len(u)] /\ Len(r) + (m - p) = Len(u) /\ p + (m - p) = m
  <2>1. Split(u, 2) = H[Len(u)]
    BY <1>12, SplitValues, Zenon DEF H
  <2>2. QED
    BY <1>0, <1>9, <2>1
<1>19. IsSeq(Split(u, 2).parts)
  <2>1. Len(u) \in 0..Len(u)
    BY <1>12
  <2>2. QED
    BY <1>14, <1>18, <2>1 DEF Halfway
<1>20. /\ H[Len(r) + (m - p)].rest = G[p + (m - p)].rest
       /\ G[p + (m - p)].parts = G[p].parts \o H[Len(r) + (m - p)].parts
  BY <1>17 DEF S
<1>21. /\ Split(u, 2).rest = G[m].rest
       /\ G[m].parts = G[p].parts \o Split(u, 2).parts
  BY <1>18, <1>20, Zenon
<1>22. QED
  BY <1>19, <1>21, Zenon DEF G, u, r, n

\* What a read has handled.
Reading(read) == read = [events |-> read.events, answer |-> read.answer] /\ IsSeq(read.events)

LEMMA GluedEmpty ==
  ASSUME NEW s, IsSeq(s)
  PROVE  s \o <<>> = s /\ <<>> \o s = s
<1> DEFINE S == ToSet(s)
<1>1. s \in Seq(S)
  BY DEF IsSeq
<1> HIDE DEF S
<1>2. QED
  BY <1>1

LEMMA AnswerSet ==
  ASSUME NEW z, NEW a, NEW b
  PROVE  [[events |-> z, answer |-> a] EXCEPT !.answer = b] = [events |-> z, answer |-> b]
OBVIOUS

\* What was handled before a frame has no part in what the frame does.
OnItsOwn(x, read, f) ==
  NextFrame([events |-> x \o read.events, answer |-> read.answer], f) =
    [events |-> x \o NextFrame(read, f).events, answer |-> NextFrame(read, f).answer]

LEMMA NextFrameGlued ==
  ASSUME NEW x, IsSeq(x), NEW read, Reading(read), NEW f
  PROVE  Reading(NextFrame(read, f)) /\ OnItsOwn(x, read, f)
<1> DEFINE all == [events |-> x \o read.events, answer |-> read.answer]
           data == DataOf(f)
           e == ParseSseFrame(data)
           y == read.events
           end == IF e.kind = "run.failed" THEN "failed" ELSE "reading"
<1>1. all.events = x \o y /\ all.answer = read.answer
  OBVIOUS
<1>2. IsSeq(y) /\ read = [events |-> y, answer |-> read.answer]
  BY DEF Reading
<1> HIDE DEF data, e, y, end
<1>3. \A r : NextFrame(r, f) =
               IF r.answer # "reading" \/ data = <<>> THEN r
               ELSE IF ~IsJson(data) THEN [r EXCEPT !.answer = "garbled"]
               ELSE [events |-> Append(r.events, e), answer |-> end]
  BY Zenon DEF NextFrame, data, e, end
<1> SUFFICES /\ Reading(NextFrame(read, f))
             /\ NextFrame(all, f) = [events |-> x \o NextFrame(read, f).events,
                                     answer |-> NextFrame(read, f).answer]
  BY Zenon DEF OnItsOwn
<1>4. CASE read.answer # "reading" \/ data = <<>>
  <2>1. NextFrame(read, f) = read /\ NextFrame(all, f) = all
    BY <1>1, <1>3, <1>4, Zenon
  <2>2. QED
    BY <2>1, Zenon
<1>5. CASE ~(read.answer # "reading" \/ data = <<>>) /\ ~IsJson(data)
  <2>1. /\ NextFrame(read, f) = [read EXCEPT !.answer = "garbled"]
        /\ NextFrame(all, f) = [all EXCEPT !.answer = "garbled"]
    BY <1>1, <1>3, <1>5, Zenon
  <2>2. [read EXCEPT !.answer = "garbled"] = [events |-> y, answer |-> "garbled"]
    BY <1>2
  <2> DEFINE z == x \o y
             a == read.answer
  <2>3. [[events |-> z, answer |-> a] EXCEPT !.answer = "garbled"] =
          [events |-> z, answer |-> "garbled"]
    BY AnswerSet, Zenon
  <2>4. [all EXCEPT !.answer = "garbled"] = [events |-> z, answer |-> "garbled"]
    BY <2>3, Zenon DEF y
  <2> HIDE DEF z, a
  <2> DEFINE r == NextFrame(read, f)
  <2>5. r = [events |-> y, answer |-> "garbled"]
    BY <2>1, <2>2, Zenon
  <2> HIDE DEF r
  <2>6. r.events = y /\ r.answer = "garbled"
    BY <2>5
  <2>7. Reading(r) /\ NextFrame(all, f) = [events |-> x \o r.events, answer |-> r.answer]
    BY <1>2, <2>1, <2>4, <2>5, <2>6, Zenon DEF Reading, z
  <2>8. QED
    BY <2>7, Zenon DEF r
<1>6. CASE ~(read.answer # "reading" \/ data = <<>>) /\ IsJson(data)
  <2> DEFINE r == NextFrame(read, f)
             y1 == Append(y, e)
             z1 == Append(x \o y, e)
  <2>1. NextFrame(all, f) = [events |-> z1, answer |-> end]
    BY <1>1, <1>3, <1>6, Zenon
  <2>2. r = [events |-> y1, answer |-> end]
    BY <1>3, <1>6, Zenon DEF y
  <2>3. z1 = x \o y1
    <3> DEFINE T == (ToSet(x) \cup ToSet(y)) \cup {e}
    <3>1. x \in Seq(T) /\ y \in Seq(T) /\ e \in T
      BY <1>2 DEF IsSeq
    <3> HIDE DEF T, z1, y1
    <3>2. x \o Append(y, e) = Append(x \o y, e)
      BY <3>1, AppendGlued
    <3>3. QED
      BY <3>2, Zenon DEF z1, y1
  <2>4. IsSeq(y1)
    BY <1>2, AppendedIs, Zenon
  <2> HIDE DEF r, y1, z1
  <2>5. r.events = y1 /\ r.answer = end
    BY <2>2
  <2>6. Reading(r) /\ NextFrame(all, f) = [events |-> x \o r.events, answer |-> r.answer]
    BY <2>1, <2>2, <2>3, <2>4, <2>5, Zenon DEF Reading
  <2>7. QED
    BY <2>6, Zenon DEF r
<1>7. QED
  BY <1>4, <1>5, <1>6

LEMMA HandledReads ==
  ASSUME NEW s, IsSeq(s)
  PROVE  Reading(Handled(s))
<1> DEFINE S == {n \in Nat : n <= Len(s) => Reading(Handled(SubSeq(s, 1, n)))}
           start == [events |-> <<>>, answer |-> "reading"]
<1>0. Len(s) \in Nat /\ SubSeq(s, 1, Len(s)) = s /\ SubSeq(s, 1, 0) = <<>>
  BY DEF IsSeq
<1>1. 0 \in S
  <2>1. start.events = <<>> /\ IsSeq(<<>>)
    BY DEF IsSeq
  <2>2. Reading(start)
    BY <2>1 DEF Reading
  <2>3. Handled(SubSeq(s, 1, 0)) = start
    BY <1>0, HandledOfEmpty, Zenon
  <2>4. QED
    BY <2>2, <2>3, Zenon
<1>2. ASSUME NEW n \in 0..(Len(s) - 1), n \in S PROVE n + 1 \in S
  <2> DEFINE p == SubSeq(s, 1, n)
             x == s[n + 1]
  <2>1. SubSeq(s, 1, n + 1) = Append(p, x) /\ p \in Seq(ToSet(s))
    BY PrefixNext
  <2>2. Reading(Handled(p))
    BY <1>0, <1>2
  <2> HIDE DEF p, x
  <2>3. Handled(Append(p, x)) = NextFrame(Handled(p), x)
    BY <2>1, HandledOfAppend
  <2> DEFINE read == Handled(p)
             none == <<>>
             all == [events |-> none \o read.events, answer |-> read.answer]
  <2>4. IsSeq(none)
    BY DEF IsSeq
  <2> HIDE DEF read, none
  <2>5. Reading(NextFrame(read, x))
    BY <2>2, <2>4, NextFrameGlued DEF read
  <2>6. Reading(Handled(SubSeq(s, 1, n + 1)))
    BY <2>1, <2>3, <2>5, Zenon DEF read
  <2>7. QED
    BY <2>6
<1> HIDE DEF S
<1>3. Len(s) \in S
  <2>1. 0..Len(s) \subseteq S
    BY <1>0, <1>1, <1>2, Induction
  <2>2. QED
    BY <1>0, <2>1
<1>4. Reading(Handled(SubSeq(s, 1, Len(s))))
  <2>1. Len(s) <= Len(s)
    BY <1>0
  <2>2. QED
    BY <1>3, <2>1 DEF S
<1>5. QED
  BY <1>0, <1>4, Zenon

\* Frames are handled one after the other, whatever reads they came with.
LEMMA HandledGoesOn ==
  ASSUME NEW a, IsSeq(a), NEW b, IsSeq(b), Handled(a).answer = "reading"
  PROVE  Handled(a \o b) = [events |-> Handled(a).events \o Handled(b).events,
                            answer |-> Handled(b).answer]
<1> DEFINE x == Handled(a).events
           on(n) == [events |-> x \o Handled(SubSeq(b, 1, n)).events,
                     answer |-> Handled(SubSeq(b, 1, n)).answer]
           S == {n \in Nat : n <= Len(b) => Handled(a \o SubSeq(b, 1, n)) = on(n)}
<1>0. Len(b) \in Nat /\ SubSeq(b, 1, Len(b)) = b /\ SubSeq(b, 1, 0) = <<>>
  BY DEF IsSeq
<1>1. Reading(Handled(a))
  BY HandledReads
<1>2. IsSeq(x) /\ Handled(a) = [events |-> x, answer |-> "reading"]
  BY <1>1, Zenon DEF Reading
<1> HIDE DEF x
<1>3. 0 \in S
  <2> DEFINE start == [events |-> <<>>, answer |-> "reading"]
             h == Handled(SubSeq(b, 1, 0))
  <2>1. h = start
    BY <1>0, HandledOfEmpty, Zenon
  <2>2. start.events = <<>> /\ start.answer = "reading"
    OBVIOUS
  <2> HIDE DEF start, h
  <2>3. x \o h.events = x /\ h.answer = "reading"
    BY <1>2, <2>1, <2>2, GluedEmpty, Zenon
  <2>4. a \o SubSeq(b, 1, 0) = a
    BY <1>0, GluedEmpty, Zenon
  <2>5. Handled(a \o SubSeq(b, 1, 0)) = on(0)
    BY <1>2, <2>3, <2>4, Zenon DEF h
  <2> HIDE DEF on
  <2>6. QED
    BY <2>5
<1>4. ASSUME NEW n \in 0..(Len(b) - 1), n \in S PROVE n + 1 \in S
  <2> DEFINE p == SubSeq(b, 1, n)
             f == b[n + 1]
             read == Handled(p)
             all == [events |-> x \o read.events, answer |-> read.answer]
             T == (ToSet(a) \cup ToSet(b)) \cup {f}
  <2>1. SubSeq(b, 1, n + 1) = Append(p, f) /\ p \in Seq(ToSet(b))
    BY PrefixNext
  <2>2. Handled(a \o p) = all
    <3>1. n <= Len(b)
      BY <1>0
    <3> HIDE DEF p, all, on
    <3>2. Handled(a \o SubSeq(b, 1, n)) = on(n)
      BY <1>4, <3>1
    <3>3. QED
      BY <3>2, Zenon DEF on, all, p, read
  <2> HIDE DEF p, f, read, all, T
  <2>3. IsSeq(p)
    BY <2>1, SeqIs, Zenon
  <2>4. Reading(read)
    BY <2>3, HandledReads DEF read
  <2>5. Handled(Append(p, f)) = NextFrame(read, f)
    BY <2>1, HandledOfAppend DEF read
  <2>6. a \in Seq(T) /\ p \in Seq(T) /\ f \in T
    <3>1. a \in Seq(ToSet(a))
      BY DEF IsSeq
    <3>2. QED
      BY <2>1, <3>1 DEF T
  <2>7. a \o Append(p, f) = Append(a \o p, f) /\ a \o p \in Seq(T)
    BY <2>6, AppendGlued
  <2>8. Handled(Append(a \o p, f)) = NextFrame(all, f)
    <3>1. Handled(Append(a \o p, f)) = NextFrame(Handled(a \o p), f)
      BY <2>7, HandledOfAppend
    <3>2. QED
      BY <2>2, <3>1, Zenon
  <2>9. NextFrame(all, f) = [events |-> x \o NextFrame(read, f).events,
                             answer |-> NextFrame(read, f).answer]
    <3>1. OnItsOwn(x, read, f)
      BY <1>2, <2>4, NextFrameGlued
    <3>2. QED
      BY <3>1, Zenon DEF OnItsOwn, all
  <2>10. Handled(a \o SubSeq(b, 1, n + 1)) = on(n + 1)
    BY <2>1, <2>5, <2>7, <2>8, <2>9, Zenon
  <2> HIDE DEF on
  <2>11. QED
    BY <2>10
<1> HIDE DEF S, on
<1>5. Len(b) \in S
  <2>1. 0..Len(b) \subseteq S
    BY <1>0, <1>3, <1>4, Induction
  <2>2. QED
    BY <1>0, <2>1
<1>6. Handled(a \o SubSeq(b, 1, Len(b))) = on(Len(b))
  BY <1>0, <1>5 DEF S
<1>7. QED
  BY <1>0, <1>6, Zenon DEF on, x

--------------------------------------------------------------------------------
(* The text of a response, event by event.                                      *)

AllSendable(evs) == IsSeq(evs) /\ \A i \in 1..Len(evs) : Sendable(evs[i])

Beat(beats, i) == IF i \in beats THEN HeartbeatFrame ELSE <<>>
Piece(beats, evs, i) == Beat(beats, i) \o EncodeSseEvent(evs[i])
TextTo(beats, evs, n) == FlattenSeq([i \in 1..n |-> Piece(beats, evs, i)])

\* Where the frames of the n-th event end.
EndOf(beats, evs, n) == Len(TextTo(beats, evs, n))

LEMMA BeatLength ==
  ASSUME NEW beats, NEW i
  PROVE  /\ IsSeq(Beat(beats, i)) /\ Len(Beat(beats, i)) \in {0, 3}
         /\ i \notin beats => Beat(beats, i) = <<>>
<1>1. CASE i \in beats
  <2>1. Beat(beats, i) = HeartbeatFrame
    BY <1>1, Zenon DEF Beat
  <2>2. QED
    BY <1>1, <2>1, BeatIs DEF FrameLike
<1>2. CASE i \notin beats
  <2>1. Beat(beats, i) = <<>>
    BY <1>2, Zenon DEF Beat
  <2>2. IsSeq(<<>>) /\ Len(<<>>) = 0
    BY DEF IsSeq
  <2>3. QED
    BY <2>1, <2>2
<1>3. QED
  BY <1>1, <1>2

\* The two frames that make up a piece.
Paired(s, a, b) ==
  /\ Len(s) = Len(a) + Len(b)
  /\ \A k \in 1..Len(a) : s[k] = a[k]
  /\ \A k \in 1..Len(b) : s[Len(a) + k] = b[k]

LEMMA PairIs ==
  ASSUME NEW a, IsSeq(a), NEW b, IsSeq(b)
  PROVE  IsSeq(a \o b) /\ Paired(a \o b, a, b)
<1> DEFINE S == ToSet(a) \cup ToSet(b)
<1>1. a \in Seq(S) /\ b \in Seq(S)
  BY DEF IsSeq
<1> HIDE DEF S
<1>2. a \o b \in Seq(S)
  BY <1>1
<1>3. Paired(a \o b, a, b)
  BY <1>1, GluedAt DEF Paired
<1>4. QED
  BY <1>2, <1>3, SeqIs, Zenon

LEMMA PieceIs ==
  ASSUME NEW beats, NEW evs, NEW i, Sendable(evs[i])
  PROVE  /\ IsSeq(Piece(beats, evs, i))
         /\ Paired(Piece(beats, evs, i), Beat(beats, i), EncodeSseEvent(evs[i]))
<1>1. IsSeq(Beat(beats, i))
  BY BeatLength
<1>2. IsSeq(EncodeSseEvent(evs[i]))
  BY EncodeIs DEF FrameLike
<1>3. QED
  BY <1>1, <1>2, PairIs, Zenon DEF Piece

\* The text of the first events.
LEMMA TextOfFirst ==
  ASSUME NEW beats, NEW evs, IsSeq(evs), NEW n \in 0..Len(evs),
         NEW s, s = SubSeq(evs, 1, n)
  PROVE  FlattenSeq([i \in DOMAIN s |-> Piece(beats, s, i)]) = TextTo(beats, evs, n)
<1>1. evs \in Seq(ToSet(evs))
  BY DEF IsSeq
<1>2. DOMAIN s = 1..n /\ \A i \in 1..n : s[i] = evs[i]
  BY <1>1
<1>3. \A i \in 1..n : Piece(beats, s, i) = Piece(beats, evs, i)
  BY <1>2 DEF Piece
<1>4. [i \in DOMAIN s |-> Piece(beats, s, i)] = [i \in 1..n |-> Piece(beats, evs, i)]
  BY <1>2, <1>3
<1>5. QED
  BY <1>4, Zenon DEF TextTo

LEMMA TextNext ==
  ASSUME NEW beats, NEW evs, AllSendable(evs), NEW n \in 0..(Len(evs) - 1)
  PROVE  TextTo(beats, evs, n + 1) = TextTo(beats, evs, n) \o Piece(beats, evs, n + 1)
<1> DEFINE x(i) == Piece(beats, evs, i)
           s == [i \in 1..n |-> x(i)]
           t == [i \in 1..(n + 1) |-> x(i)]
           S == {x(i) : i \in 1..(n + 1)}
<1>0. Len(evs) \in Nat
  BY SeqPlaces DEF AllSendable
<1>1. n + 1 \in 1..Len(evs) /\ n \in Nat
  BY <1>0
<1>2. IsSeq(x(n + 1))
  BY <1>1, PieceIs DEF AllSendable
<1>3. \A i \in 1..(n + 1) : x(i) \in S
  OBVIOUS
<1> HIDE DEF S, x
<1>4. s \in Seq(S) /\ Len(s) = n /\ x(n + 1) \in S
  BY <1>1, <1>3
<1>5. Append(s, x(n + 1)) = t
  <2> DEFINE a == Append(s, x(n + 1))
  <2>1. \A i \in 1..n : s[i] = x(i)
    OBVIOUS
  <2> HIDE DEF s
  <2>2. a \in Seq(S) /\ Len(a) = n + 1 /\ a[n + 1] = x(n + 1)
    BY <1>4
  <2>3. \A i \in 1..n : a[i] = s[i]
    BY <1>4
  <2> HIDE DEF a
  <2>4. a = [i \in 1..(n + 1) |-> a[i]]
    BY <2>2
  <2>5. \A i \in 1..(n + 1) : a[i] = x(i)
    BY <1>1, <2>1, <2>2, <2>3
  <2>6. QED
    BY <2>4, <2>5 DEF a
<1> HIDE DEF s, t
<1>6. FlattenSeq(t) = FlattenSeq(s) \o x(n + 1)
  BY <1>2, <1>4, <1>5, FlattenOfAppend
<1>7. QED
  BY <1>6, Zenon DEF TextTo, s, t, x

LEMMA TextOfNone ==
  ASSUME NEW beats, NEW evs
  PROVE  TextTo(beats, evs, 0) = <<>>
<1>1. [i \in 1..0 |-> Piece(beats, evs, i)] = <<>>
  OBVIOUS
<1>2. QED
  BY <1>1, FlattenOfEmpty, Zenon DEF TextTo

\* The text grows by a piece with each event.
LEMMA TextGrows ==
  ASSUME NEW beats, NEW evs, AllSendable(evs), NEW n \in 0..Len(evs)
  PROVE  IsSeq(TextTo(beats, evs, n)) /\ EndOf(beats, evs, n) \in Nat
<1> DEFINE S == {i \in Nat : i <= Len(evs) => IsSeq(TextTo(beats, evs, i))}
<1>0. Len(evs) \in Nat
  BY SeqPlaces DEF AllSendable
<1>1. 0 \in S
  <2>1. IsSeq(<<>>)
    BY DEF IsSeq
  <2>2. QED
    BY <2>1, TextOfNone
<1>2. ASSUME NEW i \in 0..(Len(evs) - 1), i \in S PROVE i + 1 \in S
  <2>1. IsSeq(TextTo(beats, evs, i)) /\ i + 1 \in 1..Len(evs)
    BY <1>0, <1>2
  <2>2. IsSeq(Piece(beats, evs, i + 1))
    BY <2>1, PieceIs DEF AllSendable
  <2>3. IsSeq(TextTo(beats, evs, i + 1))
    BY <2>1, <2>2, TextNext, Joined
  <2>4. QED
    BY <2>3
<1> HIDE DEF S
<1>3. 0..Len(evs) \subseteq S
  BY <1>0, <1>1, <1>2, Induction
<1>4. IsSeq(TextTo(beats, evs, n))
  BY <1>0, <1>3 DEF S
<1>5. QED
  BY <1>4, SeqPlaces DEF EndOf

LEMMA EndNext ==
  ASSUME NEW beats, NEW evs, AllSendable(evs), NEW n \in 0..(Len(evs) - 1)
  PROVE  LET beat == Len(Beat(beats, n + 1))
             frame == Len(EncodeSseEvent(evs[n + 1]))
         IN /\ beat \in Nat /\ frame \in Nat /\ frame >= 3
            /\ EndOf(beats, evs, n) \in Nat
            /\ EndOf(beats, evs, n + 1) = EndOf(beats, evs, n) + beat + frame
            /\ EndOf(beats, evs, n + 1) = EndOf(beats, evs, n) + Len(Piece(beats, evs, n + 1))
<1> DEFINE t == TextTo(beats, evs, n)
           a == Beat(beats, n + 1)
           f == EncodeSseEvent(evs[n + 1])
           x == Piece(beats, evs, n + 1)
<1>0. Len(evs) \in Nat
  BY SeqPlaces DEF AllSendable
<1>1. n + 1 \in 1..Len(evs) /\ n \in 0..Len(evs)
  BY <1>0
<1>2. Sendable(evs[n + 1])
  BY <1>1 DEF AllSendable
<1>3. IsSeq(t) /\ Len(t) \in Nat
  BY <1>1, TextGrows DEF EndOf
<1>4. IsSeq(x) /\ Len(x) = Len(a) + Len(f)
  BY <1>2, PieceIs DEF Paired
<1>5. Len(a) \in Nat
  BY BeatLength
<1>6. IsSeq(f) /\ Len(f) >= 3
  BY <1>2, EncodeIs DEF FrameLike
<1>7. Len(f) \in Nat
  BY <1>6, SeqPlaces
<1>8. TextTo(beats, evs, n + 1) = t \o x
  BY TextNext
<1> HIDE DEF t, a, f, x
<1>9. Len(t \o x) = Len(t) + Len(x)
  BY <1>3, <1>4, PairIs DEF Paired
<1>10. Len(t) + Len(x) = Len(t) + Len(a) + Len(f)
  BY <1>3, <1>4, <1>5, <1>7
<1>11. QED
  BY <1>3, <1>5, <1>6, <1>7, <1>8, <1>9, <1>10, Zenon DEF EndOf, t, a, f, x

\* An event is where its frames are, however many come after it.
LEMMA TextHolds ==
  ASSUME NEW beats, NEW evs, AllSendable(evs), NEW n \in 0..(Len(evs) - 1),
         NEW m \in (n + 1)..Len(evs)
  PROVE  /\ EndOf(beats, evs, n + 1) <= EndOf(beats, evs, m)
         /\ \A k \in 1..Len(Piece(beats, evs, n + 1)) :
              TextTo(beats, evs, m)[EndOf(beats, evs, n) + k] = Piece(beats, evs, n + 1)[k]
<1> DEFINE t(i) == TextTo(beats, evs, i)
           P(i) == EndOf(beats, evs, i)
           x == Piece(beats, evs, n + 1)
           S == {i \in Nat : n + 1 + i <= Len(evs) =>
                               /\ P(n + 1) <= P(n + 1 + i)
                               /\ \A k \in 1..Len(x) : t(n + 1 + i)[P(n) + k] = x[k]}
<1>0. Len(evs) \in Nat
  BY SeqPlaces DEF AllSendable
<1>1. \A i \in 0..Len(evs) : IsSeq(t(i)) /\ P(i) = Len(t(i)) /\ P(i) \in Nat
  BY TextGrows DEF EndOf
<1>2. \A i \in 0..(Len(evs) - 1) : t(i + 1) = t(i) \o Piece(beats, evs, i + 1)
  BY TextNext
<1>3. \A i \in 1..Len(evs) : IsSeq(Piece(beats, evs, i))
  BY PieceIs DEF AllSendable
<1>4. n \in 0..Len(evs) /\ n + 1 \in 1..Len(evs) /\ n + 1 \in 0..Len(evs)
  BY <1>0
<1> HIDE DEF t, P
<1>5. 0 \in S
  <2>1. n + 1 + 0 = n + 1
    BY <1>0
  <2>2. IsSeq(t(n)) /\ IsSeq(x)
    BY <1>1, <1>3, <1>4
  <2>3. Paired(t(n) \o x, t(n), x)
    BY <2>2, PairIs, Zenon
  <2>4. t(n + 1) = t(n) \o x
    BY <1>2
  <2>5. \A k \in 1..Len(x) : t(n + 1)[P(n) + k] = x[k]
    BY <1>1, <1>4, <2>3, <2>4, Zenon DEF Paired
  <2>6. P(n + 1) <= P(n + 1)
    BY <1>1, <1>4
  <2>7. QED
    BY <2>1, <2>5, <2>6
<1>6. ASSUME NEW i \in Nat, i \in S PROVE i + 1 \in S
  <2>1. SUFFICES ASSUME n + 1 + (i + 1) <= Len(evs)
                 PROVE  /\ P(n + 1) <= P(n + 1 + (i + 1))
                        /\ \A k \in 1..Len(x) : t(n + 1 + (i + 1))[P(n) + k] = x[k]
    OBVIOUS
  <2> DEFINE q == n + 1 + i
             y == Piece(beats, evs, q + 1)
  <2>2. q \in 0..(Len(evs) - 1) /\ q + 1 \in 1..Len(evs) /\ q + 1 = n + 1 + (i + 1)
        /\ q \in 0..Len(evs) /\ q + 1 \in 0..Len(evs) /\ q <= Len(evs)
    BY <1>0, <2>1
  <2>3. P(n + 1) <= P(q) /\ \A k \in 1..Len(x) : t(q)[P(n) + k] = x[k]
    BY <1>6, <2>2
  <2> HIDE DEF q
  <2>4. t(q + 1) = t(q) \o y /\ IsSeq(t(q)) /\ IsSeq(y)
    BY <1>1, <1>2, <1>3, <2>2
  <2> HIDE DEF x, y
  <2>5. Paired(t(q + 1), t(q), y)
    BY <2>4, PairIs, Zenon
  <2>6. Len(y) \in Nat
    BY <2>4, SeqPlaces
  <2>7. P(q + 1) = P(q) + Len(y) /\ P(q) \in Nat /\ P(q + 1) \in Nat
    BY <1>1, <2>2, <2>5 DEF Paired
  <2>8. P(n + 1) \in Nat /\ P(n) \in Nat /\ P(n + 1) = P(n) + Len(x) /\ Len(x) \in Nat
    <3>1. P(n + 1) = P(n) + Len(x)
      BY EndNext DEF P, x
    <3>2. Len(x) \in Nat
      BY <1>3, <1>4, SeqPlaces DEF x
    <3>3. QED
      BY <1>1, <1>4, <3>1, <3>2
  <2>9. P(n + 1) <= P(q + 1)
    BY <2>3, <2>6, <2>7, <2>8
  <2>10. ASSUME NEW k \in 1..Len(x) PROVE t(q + 1)[P(n) + k] = x[k]
    <3>1. P(n) + k \in 1..P(q)
      BY <2>3, <2>7, <2>8
    <3>2. P(n) + k \in 1..Len(t(q))
      BY <1>1, <2>2, <3>1
    <3>3. t(q + 1)[P(n) + k] = t(q)[P(n) + k]
      BY <2>5, <3>2 DEF Paired
    <3>4. QED
      BY <2>3, <3>3
  <2>11. QED
    BY <2>2, <2>9, <2>10
<1> HIDE DEF S
<1>7. m - (n + 1) \in S
  <2>1. m - (n + 1) \in Nat
    BY <1>0
  <2>2. 0..(m - (n + 1)) \subseteq S
    BY <1>5, <1>6, <2>1, Induction
  <2>3. QED
    BY <2>1, <2>2
<1>8. n + 1 + (m - (n + 1)) = m /\ m <= Len(evs)
  BY <1>0
<1>9. QED
  BY <1>7, <1>8 DEF S, t, P

--------------------------------------------------------------------------------
(* The whole response, read word by word: at each word so many events are       *)
(* handled, and what is not handled yet is the start of one frame.              *)

Outcome(evs, n) ==
  IF n > 0 /\ evs[n].kind = "run.failed" THEN "failed" ELSE "reading"

\* Only its last event may fail a run.
FailsLast(evs) == \A i \in 1..(Len(evs) - 1) : evs[i].kind # "run.failed"

\* The frame that begins at b: the heartbeat of the next event, or the event.
Frame(beats, evs, n, b, f) ==
  \/ n + 1 \in beats /\ b = EndOf(beats, evs, n) /\ f = HeartbeatFrame
  \/ /\ b = EndOf(beats, evs, n) + Len(Beat(beats, n + 1))
     /\ f = EncodeSseEvent(evs[n + 1])

Written(beats, evs, b, f) ==
  \A k \in 1..Len(f) : TextTo(beats, evs, Len(evs))[b + k] = f[k]

Within(beats, evs, n, p, rest) ==
  \E b, f : /\ b \in Nat /\ Frame(beats, evs, n, b, f)
            /\ p \in b..(b + Len(f) - 1) /\ rest = SubSeq(f, 1, p - b)

Placed(beats, evs, g, p, n) ==
  /\ n \in 0..Len(evs)
  /\ Handled(g.parts) = [events |-> SubSeq(evs, 1, n), answer |-> Outcome(evs, n)]
  /\ \/ n = Len(evs) /\ p = EndOf(beats, evs, n) /\ g.rest = <<>>
     \/ n < Len(evs) /\ Within(beats, evs, n, p, g.rest)

LEMMA FrameIs ==
  ASSUME NEW beats, NEW evs, AllSendable(evs), NEW n \in 0..(Len(evs) - 1),
         NEW b \in Nat, NEW f, Frame(beats, evs, n, b, f)
  PROVE  /\ FrameLike(f) /\ Len(f) \in Nat
         /\ EndOf(beats, evs, n) \in Nat /\ EndOf(beats, evs, n) <= b
         /\ EndOf(beats, evs, n + 1) \in Nat /\ b + Len(f) <= EndOf(beats, evs, n + 1)
         /\ Written(beats, evs, b, f)
<1> DEFINE P == EndOf(beats, evs, n)
           P1 == EndOf(beats, evs, n + 1)
           a == Beat(beats, n + 1)
           e == EncodeSseEvent(evs[n + 1])
           x == Piece(beats, evs, n + 1)
           W == TextTo(beats, evs, Len(evs))
<1>0. Len(evs) \in Nat
  BY SeqPlaces DEF AllSendable
<1>1. n + 1 \in 1..Len(evs) /\ Len(evs) \in (n + 1)..Len(evs)
  BY <1>0
<1>2. Sendable(evs[n + 1])
  BY <1>1 DEF AllSendable
<1>3. FrameLike(e)
  BY <1>2, EncodeIs
<1>4. /\ Len(a) \in Nat /\ Len(e) \in Nat /\ P \in Nat
      /\ P1 = P + Len(a) + Len(e) /\ P1 = P + Len(x)
  BY EndNext
<1>5. \A k \in 1..Len(x) : W[P + k] = x[k]
  BY <1>1, TextHolds
<1>6. Paired(x, a, e)
  BY <1>2, PieceIs
<1>7. Len(x) = Len(a) + Len(e)
  BY <1>6 DEF Paired
<1>8. CASE n + 1 \in beats /\ b = P /\ f = HeartbeatFrame
  <2>1. f = a
    BY <1>8, Zenon DEF Beat
  <2>2. FrameLike(f)
    BY <1>8, BeatIs
  <2> HIDE DEF P, P1, a, e, x, W
  <2>3. \A k \in 1..Len(f) : k \in 1..Len(x) /\ x[k] = f[k]
    BY <1>4, <1>6, <1>7, <2>1 DEF Paired
  <2>4. P1 \in Nat /\ b + Len(f) <= P1 /\ P <= b
    BY <1>4, <1>8, <2>1
  <2>5. \A k \in 1..Len(f) : W[b + k] = f[k]
    BY <1>5, <1>8, <2>3
  <2>6. QED
    BY <1>4, <2>1, <2>2, <2>4, <2>5 DEF P, P1, W, Written
<1>9. CASE b = P + Len(a) /\ f = e
  <2> HIDE DEF P, P1, a, e, x, W
  <2>1. P1 \in Nat /\ b + Len(f) <= P1 /\ P <= b
    BY <1>4, <1>9
  <2>2. ASSUME NEW k \in 1..Len(f) PROVE W[b + k] = f[k]
    <3>1. Len(a) + k \in 1..Len(x) /\ P + (Len(a) + k) = b + k /\ k \in 1..Len(e)
      BY <1>4, <1>7, <1>9
    <3>2. W[P + (Len(a) + k)] = x[Len(a) + k] /\ x[Len(a) + k] = e[k]
      BY <1>5, <1>6, <3>1, Zenon DEF Paired
    <3>3. QED
      BY <1>9, <3>1, <3>2, Zenon
  <2>3. QED
    BY <1>3, <1>4, <1>9, <2>1, <2>2 DEF P, P1, W, Written
<1>10. QED
  BY <1>8, <1>9 DEF Frame

\* A place lies in the frames of the event that is next.
LEMMA PlaceIs ==
  ASSUME NEW beats, NEW evs, AllSendable(evs), NEW g, NEW p \in Nat, NEW n,
         Placed(beats, evs, g, p, n)
  PROVE  /\ n \in 0..Len(evs) /\ EndOf(beats, evs, n) \in Nat /\ EndOf(beats, evs, n) <= p
         /\ n < Len(evs) => p < EndOf(beats, evs, n + 1)
<1>0. Len(evs) \in Nat /\ n \in 0..Len(evs)
  BY SeqPlaces DEF AllSendable, Placed
<1>1. EndOf(beats, evs, n) \in Nat
  BY <1>0, TextGrows
<1>2. CASE n = Len(evs) /\ p = EndOf(beats, evs, n)
  BY <1>0, <1>1, <1>2
<1>3. CASE n < Len(evs) /\ Within(beats, evs, n, p, g.rest)
  <2>1. n \in 0..(Len(evs) - 1)
    BY <1>0, <1>3
  <2>2. PICK b, f : b \in Nat /\ Frame(beats, evs, n, b, f) /\ p \in b..(b + Len(f) - 1)
    BY <1>3 DEF Within
  <2>3. /\ Len(f) \in Nat /\ EndOf(beats, evs, n) <= b
        /\ EndOf(beats, evs, n + 1) \in Nat /\ b + Len(f) <= EndOf(beats, evs, n + 1)
    BY <2>1, <2>2, FrameIs
  <2>4. EndOf(beats, evs, n) <= p /\ p < EndOf(beats, evs, n + 1)
    BY <1>1, <2>2, <2>3
  <2>5. QED
    BY <1>0, <1>1, <2>4
<1>4. QED
  BY <1>2, <1>3 DEF Placed

\* Where the frames of an event begin.
LEMMA PlaceStarts ==
  ASSUME NEW beats, NEW evs, AllSendable(evs), NEW n \in 0..Len(evs), NEW g, g.rest = <<>>,
         Handled(g.parts) = [events |-> SubSeq(evs, 1, n), answer |-> Outcome(evs, n)]
  PROVE  Placed(beats, evs, g, EndOf(beats, evs, n), n)
<1> DEFINE P == EndOf(beats, evs, n)
<1>0. Len(evs) \in Nat /\ P \in Nat
  BY SeqPlaces, TextGrows DEF AllSendable
<1>1. CASE n = Len(evs)
  BY <1>1 DEF Placed
<1>2. CASE n # Len(evs)
  <2>1. n \in 0..(Len(evs) - 1) /\ n < Len(evs)
    BY <1>0, <1>2
  <2>2. \E f : Frame(beats, evs, n, P, f)
    <3>1. CASE n + 1 \in beats
      BY <3>1 DEF Frame
    <3>2. CASE n + 1 \notin beats
      <4>1. Len(Beat(beats, n + 1)) = 0
        BY <3>2, BeatLength
      <4>2. P + Len(Beat(beats, n + 1)) = P
        BY <1>0, <4>1
      <4>3. QED
        BY <4>2 DEF Frame
    <3>3. QED
      BY <3>1, <3>2
  <2>3. PICK f : Frame(beats, evs, n, P, f)
    BY <2>2
  <2>4. FrameLike(f) /\ Len(f) \in Nat
    BY <1>0, <2>1, <2>3, FrameIs
  <2>5. Len(f) >= 3 /\ P \in P..(P + Len(f) - 1) /\ P - P = 0
    BY <1>0, <2>4 DEF FrameLike
  <2>6. SubSeq(f, 1, 0) = <<>>
    OBVIOUS
  <2>7. Within(beats, evs, n, P, g.rest)
    BY <1>0, <2>3, <2>5, <2>6 DEF Within
  <2>8. QED
    BY <2>1, <2>7 DEF Placed
<1>3. QED
  BY <1>1, <1>2

\* One more word of a frame: it is not whole yet, or now it is.
LEMMA InFrame ==
  ASSUME NEW f, FrameLike(f), NEW k \in 0..(Len(f) - 1), NEW g, Halfway(g),
         g.rest = SubSeq(f, 1, k)
  PROVE  NextWord(g, f[k + 1], 2) =
           IF k + 1 = Len(f)
           THEN [parts |-> Append(g.parts, SubSeq(f, 1, Len(f) - 2)), rest |-> <<>>]
           ELSE [parts |-> g.parts, rest |-> SubSeq(f, 1, k + 1)]
<1> DEFINE r == SubSeq(f, 1, k)
           w == f[k + 1]
           S == ToSet(f)
<1>0. f \in Seq(S)
  BY DEF FrameLike, IsSeq
<1> HIDE DEF S
<1>1. Len(f) \in Nat /\ Len(f) >= 3
  BY <1>0 DEF FrameLike
<1>2. Len(r) = k
  BY <1>0, <1>1
<1>3. \A i \in 1..k : r[i] = f[i]
  BY <1>0, <1>1
<1>4. r = <<>> <=> k = 0
  BY <1>0, <1>1, <1>2
<1>5. SubSeq(f, 1, k + 1) = Append(r, w)
  BY <1>0, <1>1
<1>6. SubSeq(r, 1, k - 1) = SubSeq(f, 1, k - 1)
  BY <1>0, <1>1
<1>7. g = [parts |-> g.parts, rest |-> r] /\ IsSeq(r)
  BY DEF Halfway
<1> HIDE DEF r, w
<1>8. NextWord(g, w, 2) =
        IF Closes2(r, w) THEN [parts |-> Append(g.parts, SubSeq(r, 1, Len(r) - 1)), rest |-> <<>>]
        ELSE [parts |-> g.parts, rest |-> Append(r, w)]
  BY <1>7, NextOfFrame, Zenon
<1>9. CASE k + 1 = Len(f)
  <2>1. k = Len(f) - 1 /\ k - 1 = Len(f) - 2 /\ k # 0 /\ k \in 1..k
    BY <1>1, <1>9
  <2>2. f[k] = Newline /\ w = Newline
    BY <1>9, <2>1 DEF FrameLike, w
  <2>3. Closes2(r, w)
    BY <1>2, <1>3, <1>4, <2>1, <2>2 DEF Closes2
  <2>4. SubSeq(r, 1, Len(r) - 1) = SubSeq(f, 1, Len(f) - 2)
    BY <1>2, <1>6, <2>1
  <2>5. QED
    BY <1>8, <1>9, <2>3, <2>4, Zenon DEF w
<1>10. CASE k + 1 # Len(f)
  <2>1. ~Closes2(r, w)
    <3>1. SUFFICES ASSUME k # 0 PROVE f[k] # Newline \/ f[k + 1] # Newline
      <4>1. k # 0 => k \in 1..k
        BY <1>1
      <4>2. QED
        BY <1>2, <1>3, <1>4, <4>1 DEF Closes2, w
    <3>2. k \in 1..(Len(f) - 2)
      BY <1>1, <1>10, <3>1
    <3>3. QED
      BY <3>2 DEF FrameLike
  <2>2. QED
    BY <1>5, <1>8, <1>10, <2>1, Zenon DEF w
<1>11. QED
  BY <1>9, <1>10

LEMMA PlaceNext ==
  ASSUME NEW beats, NEW evs, AllSendable(evs), FailsLast(evs),
         NEW g, Halfway(g), NEW p \in Nat, NEW n, Placed(beats, evs, g, p, n),
         p < EndOf(beats, evs, Len(evs))
  PROVE  \E m : Placed(beats, evs, NextWord(g, TextTo(beats, evs, Len(evs))[p + 1], 2), p + 1, m)
<1> DEFINE W == TextTo(beats, evs, Len(evs))
           P == EndOf(beats, evs, n)
           h == NextWord(g, W[p + 1], 2)
           parts == g.parts
<1>0. Len(evs) \in Nat /\ n \in 0..Len(evs) /\ P \in Nat
  BY SeqPlaces, PlaceIs DEF AllSendable
<1>1. Handled(parts) = [events |-> SubSeq(evs, 1, n), answer |-> Outcome(evs, n)]
  BY DEF Placed
<1>2. n < Len(evs) /\ Within(beats, evs, n, p, g.rest)
  <2>1. ~(n = Len(evs) /\ p = EndOf(beats, evs, n))
    BY <1>0
  <2>2. QED
    BY <2>1 DEF Placed
<1>3. n \in 0..(Len(evs) - 1) /\ n + 1 \in 1..Len(evs) /\ n + 1 \in 0..Len(evs)
  BY <1>0, <1>2
<1>4. PICK b, f : /\ b \in Nat /\ Frame(beats, evs, n, b, f)
                  /\ p \in b..(b + Len(f) - 1) /\ g.rest = SubSeq(f, 1, p - b)
  BY <1>2 DEF Within
<1>5. /\ FrameLike(f) /\ Len(f) \in Nat
      /\ \A k \in 1..Len(f) : W[b + k] = f[k]
  <2>1. Frame(beats, evs, n, b, f) /\ b \in Nat
    BY <1>4
  <2>2. FrameLike(f) /\ Len(f) \in Nat
    BY <1>3, <2>1, FrameIs
  <2>3. \A k \in 1..Len(f) : W[b + k] = f[k]
    BY <1>3, <2>1, FrameIs DEF Written
  <2>4. QED
    BY <2>2, <2>3
<1> DEFINE k == p - b
<1>6. k \in 0..(Len(f) - 1) /\ k + 1 \in 1..Len(f) /\ b + (k + 1) = p + 1 /\ p = b + k
  BY <1>4, <1>5
<1>7. g.rest = SubSeq(f, 1, k)
  BY <1>4
<1> HIDE DEF k
<1>8. W[p + 1] = f[k + 1]
  <2>1. W[b + (k + 1)] = f[k + 1]
    BY <1>5, <1>6
  <2>2. QED
    BY <1>6, <2>1, Zenon
<1> HIDE DEF W, parts
<1>9. h = IF k + 1 = Len(f)
          THEN [parts |-> Append(parts, SubSeq(f, 1, Len(f) - 2)), rest |-> <<>>]
          ELSE [parts |-> parts, rest |-> SubSeq(f, 1, k + 1)]
  <2>1. NextWord(g, f[k + 1], 2) =
          IF k + 1 = Len(f)
          THEN [parts |-> Append(parts, SubSeq(f, 1, Len(f) - 2)), rest |-> <<>>]
          ELSE [parts |-> parts, rest |-> SubSeq(f, 1, k + 1)]
    BY <1>5, <1>6, <1>7, InFrame, Zenon DEF parts
  <2>2. QED
    BY <1>8, <2>1, Zenon
<1> HIDE DEF h, P
<1>10. CASE k + 1 # Len(f)
  <2> DEFINE s == SubSeq(f, 1, k + 1)
  <2>1. h = [parts |-> parts, rest |-> s]
    BY <1>9, <1>10, Zenon
  <2> HIDE DEF s
  <2>2. h.parts = parts /\ h.rest = s
    BY <2>1
  <2>3. p + 1 \in b..(b + Len(f) - 1) /\ (p + 1) - b = k + 1
    BY <1>4, <1>5, <1>6, <1>10
  <2>4. Within(beats, evs, n, p + 1, h.rest)
    BY <1>4, <2>2, <2>3 DEF Within, s
  <2>5. Placed(beats, evs, h, p + 1, n)
    BY <1>0, <1>1, <1>2, <2>2, <2>4 DEF Placed
  <2>6. QED
    BY <2>5, Zenon DEF h, W
<1>11. CASE k + 1 = Len(f)
  <2> DEFINE frame == SubSeq(f, 1, Len(f) - 2)
             all == Append(parts, frame)
  <2>1. h = [parts |-> all, rest |-> <<>>]
    BY <1>9, <1>11, Zenon
  <2> HIDE DEF frame, all
  <2>2. h.parts = all /\ h.rest = <<>>
    BY <2>1
  <2>3. Handled(all) = NextFrame(Handled(parts), frame)
    <3>1. parts \in Seq(ToSet(parts))
      BY DEF Halfway, parts, IsSeq
    <3>2. QED
      BY <3>1, HandledOfAppend DEF all
  <2>4. p + 1 = b + Len(f)
    BY <1>5, <1>6, <1>11
  <2>5. CASE n + 1 \in beats /\ b = P /\ f = HeartbeatFrame
    <3>1. frame = <<": heartbeat">> /\ Len(f) = 3
      BY <2>5, BeatIs DEF frame
    <3>2. Handled(h.parts) = [events |-> SubSeq(evs, 1, n), answer |-> Outcome(evs, n)]
      BY <1>1, <2>2, <2>3, <3>1, NextOfBeat, Zenon
    <3> DEFINE e == EncodeSseEvent(evs[n + 1])
    <3>3. p + 1 = P + Len(Beat(beats, n + 1))
      BY <2>4, <2>5, Zenon DEF Beat
    <3>4. Frame(beats, evs, n, p + 1, e)
      BY <3>3, Zenon DEF Frame, P
    <3>5. FrameLike(e) /\ Len(e) \in Nat
      <4>1. p + 1 \in Nat
        OBVIOUS
      <4>2. QED
        BY <1>3, <3>4, <4>1, FrameIs
    <3> HIDE DEF e
    <3>6. p + 1 \in (p + 1)..(p + 1 + Len(e) - 1) /\ (p + 1) - (p + 1) = 0 /\ p + 1 \in Nat
      BY <3>5 DEF FrameLike
    <3>7. SubSeq(e, 1, 0) = <<>>
      OBVIOUS
    <3>8. Within(beats, evs, n, p + 1, h.rest)
      BY <2>2, <3>4, <3>6, <3>7 DEF Within
    <3>9. Placed(beats, evs, h, p + 1, n)
      BY <1>0, <1>2, <3>2, <3>8, Zenon DEF Placed
    <3>10. QED
      BY <3>9, Zenon DEF h, W
  <2>6. CASE b = P + Len(Beat(beats, n + 1)) /\ f = EncodeSseEvent(evs[n + 1])
    <3> DEFINE e == evs[n + 1]
    <3>1. Sendable(e)
      BY <1>3 DEF AllSendable
    <3>2. frame = Body(e)
      BY <2>6, <3>1, EncodeIs DEF frame
    <3>3. Outcome(evs, n) = "reading"
      <4>1. n > 0 => n \in 1..(Len(evs) - 1)
        BY <1>0, <1>3
      <4>2. QED
        BY <4>1 DEF FailsLast, Outcome
    <3>4. Append(SubSeq(evs, 1, n), e) = SubSeq(evs, 1, n + 1)
      BY <1>3, PrefixNext DEF AllSendable
    <3>5. Outcome(evs, n + 1) = IF e.kind = "run.failed" THEN "failed" ELSE "reading"
      <4>1. n + 1 > 0
        BY <1>3
      <4>2. QED
        BY <4>1, Zenon DEF Outcome
    <3> HIDE DEF e
    <3>6. NextFrame([events |-> SubSeq(evs, 1, n), answer |-> "reading"], Body(e)) =
            [events |-> Append(SubSeq(evs, 1, n), e),
             answer |-> IF e.kind = "run.failed" THEN "failed" ELSE "reading"]
      BY <3>1, NextOfEvent
    <3>7. Handled(h.parts) = [events |-> SubSeq(evs, 1, n + 1), answer |-> Outcome(evs, n + 1)]
      BY <1>1, <2>2, <2>3, <3>2, <3>3, <3>4, <3>5, <3>6, Zenon
    <3>8. p + 1 = EndOf(beats, evs, n + 1)
      <4>1. EndOf(beats, evs, n + 1) = P + Len(Beat(beats, n + 1)) + Len(f)
        BY <1>3, <2>6, EndNext DEF P
      <4>2. QED
        BY <2>4, <2>6, <4>1
    <3>9. Placed(beats, evs, h, p + 1, n + 1)
      BY <1>3, <2>2, <3>7, <3>8, PlaceStarts
    <3>10. QED
      BY <3>9, Zenon DEF h, W
  <2>7. QED
    BY <1>4, <2>5, <2>6 DEF Frame, P
<1>12. QED
  BY <1>10, <1>11

\* At every word of the response there is such a place.
LEMMA PlacedAll ==
  ASSUME NEW beats, NEW evs, AllSendable(evs), FailsLast(evs),
         NEW p \in 0..EndOf(beats, evs, Len(evs))
  PROVE  \E n : Placed(beats, evs, SplitUpTo(TextTo(beats, evs, Len(evs)), 2)[p], p, n)
<1> DEFINE W == TextTo(beats, evs, Len(evs))
           G == SplitUpTo(W, 2)
           S == {i \in Nat : i <= Len(W) => \E n : Placed(beats, evs, G[i], i, n)}
<1>0. Len(evs) \in Nat /\ Len(evs) \in 0..Len(evs)
  BY SeqPlaces DEF AllSendable
<1>1. IsSeq(W) /\ EndOf(beats, evs, Len(evs)) = Len(W) /\ Len(W) \in Nat
  BY <1>0, TextGrows DEF EndOf
<1> HIDE DEF W
<1>2. /\ G[0] = [parts |-> <<>>, rest |-> <<>>]
      /\ \A i \in 1..Len(W) : G[i] = NextWord(G[i - 1], W[i], 2)
  BY <1>1, SplitValues
<1>3. \A i \in 0..Len(W) : Halfway(G[i])
  BY <1>1, SplitHalfway
<1> HIDE DEF G
<1>4. 0 \in S
  <2>1. G[0].parts = <<>> /\ G[0].rest = <<>>
    BY <1>2
  <2>2. Outcome(evs, 0) = "reading"
    BY DEF Outcome
  <2>3. SubSeq(evs, 1, 0) = <<>>
    OBVIOUS
  <2>4. Handled(G[0].parts) = [events |-> SubSeq(evs, 1, 0), answer |-> Outcome(evs, 0)]
    BY <2>1, <2>2, <2>3, HandledOfEmpty, Zenon
  <2>5. EndOf(beats, evs, 0) = 0
    BY TextOfNone DEF EndOf
  <2>6. 0 \in 0..Len(evs)
    BY <1>0
  <2>7. Placed(beats, evs, G[0], 0, 0)
    BY <2>1, <2>4, <2>5, <2>6, PlaceStarts
  <2>8. QED
    BY <2>7
<1>5. ASSUME NEW i \in 0..(Len(W) - 1), i \in S PROVE i + 1 \in S
  <2>1. /\ i + 1 \in 1..Len(W) /\ (i + 1) - 1 = i /\ i \in 0..Len(W) /\ i \in Nat
        /\ i + 1 \in Nat /\ i <= Len(W)
    BY <1>1
  <2>2. PICK n : Placed(beats, evs, G[i], i, n)
    BY <1>5, <2>1
  <2>3. i < EndOf(beats, evs, Len(evs))
    BY <1>1
  <2>4. Halfway(G[i])
    BY <1>3, <2>1
  <2>5. \E m : Placed(beats, evs, NextWord(G[i], W[i + 1], 2), i + 1, m)
    BY <2>1, <2>2, <2>3, <2>4, PlaceNext DEF W
  <2>6. G[i + 1] = NextWord(G[i], W[i + 1], 2)
    <3>1. G[i + 1] = NextWord(G[(i + 1) - 1], W[i + 1], 2)
      BY <1>2, <2>1
    <3>2. QED
      BY <2>1, <3>1, Zenon
  <2>7. \E m : Placed(beats, evs, G[i + 1], i + 1, m)
    BY <2>5, <2>6, Zenon
  <2>8. QED
    BY <2>1, <2>7
<1> HIDE DEF S
<1>6. p \in S
  <2>1. 0..Len(W) \subseteq S
    BY <1>1, <1>4, <1>5, Induction
  <2>2. QED
    BY <1>1, <2>1
<1>7. QED
  BY <1>1, <1>6 DEF S, G, W

--------------------------------------------------------------------------------
(* What a run says.                                                             *)

\* Words that stay what they are when they are sent.
Plain(s) == IsSeq(s) /\ Escape \notin ToSet(s)

Ending == {"run.completed", "run.failed"}

\* Events of a run that goes on, and of one that is over: its last event says how.
Said(evs) == IsSeq(evs) /\ \A e \in ToSet(evs) : Sendable(e) /\ e.kind \notin Ending

Ended(evs) ==
  /\ AllSendable(evs) /\ evs # <<>>
  /\ \A i \in 1..Len(evs) : evs[i].kind \in Ending <=> i = Len(evs)

\* What a run says, and that it is read by nobody before it is over.
EventsInv ==
  /\ Plain(warnings)
  /\ pc # "done" => answer = "unsent" /\ Said(events)
  /\ pc = "done" => Ended(events)

LEMMA SaidNone ==
  ASSUME NEW s, s \in Seq({})
  PROVE  Said(s) /\ Plain(s)
BY NoMember DEF Said, Plain

LEMMA SaidOne ==
  ASSUME NEW e, Sendable(e), e.kind \notin Ending
  PROVE  Said(<<e>>)
<1>1. IsSeq(<<e>>) /\ ToSet(<<e>>) = {e}
  BY OneMember
<1>2. QED
  BY <1>1 DEF Said

LEMMA SaidMore ==
  ASSUME NEW s, Said(s), NEW t, Said(t)
  PROVE  Said(s \o t)
<1>1. IsSeq(s \o t) /\ ToSet(s \o t) = ToSet(s) \cup ToSet(t)
  BY Joined DEF Said
<1>2. QED
  BY <1>1, Zenon DEF Said

LEMMA SaidTwo ==
  ASSUME NEW d, Sendable(d), d.kind \notin Ending, NEW e, Sendable(e), e.kind \notin Ending
  PROVE  Said(<<d, e>>)
<1>1. <<d, e>> = <<d>> \o <<e>>
  OBVIOUS
<1>2. Said(<<d>>) /\ Said(<<e>>)
  BY SaidOne
<1>3. QED
  BY <1>1, <1>2, SaidMore, Zenon

LEMMA SaidAlso ==
  ASSUME NEW s, Said(s), NEW e, Sendable(e), e.kind \notin Ending
  PROVE  Said(Append(s, e))
<1>1. IsSeq(Append(s, e)) /\ ToSet(Append(s, e)) = ToSet(s) \cup {e}
  BY JoinedOne DEF Said
<1>2. QED
  BY <1>1, Zenon DEF Said

LEMMA SaidAll ==
  ASSUME NEW s, Said(s)
  PROVE  AllSendable(s) /\ \A i \in 1..Len(s) : s[i].kind \notin Ending
<1>1. \A i \in 1..Len(s) : s[i] \in ToSet(s)
  BY SeqPlaces DEF Said
<1>2. QED
  BY <1>1 DEF Said, AllSendable

\* The event that ends a run comes once and last.
LEMMA EndedBy ==
  ASSUME NEW s, Said(s), NEW e, Sendable(e), e.kind \in Ending
  PROVE  Ended(Append(s, e))
<1> DEFINE t == Append(s, e)
<1>1. /\ IsSeq(t) /\ Len(s) \in Nat /\ Len(t) = Len(s) + 1 /\ t[Len(s) + 1] = e
      /\ \A i \in 1..Len(s) : t[i] = s[i]
  BY AppendedIs DEF Said
<1>2. t # <<>>
  BY JoinedOne DEF Said
<1>3. AllSendable(s) /\ \A i \in 1..Len(s) : s[i].kind \notin Ending
  BY SaidAll
<1> HIDE DEF t
<1>4. ASSUME NEW i \in 1..Len(t)
      PROVE  Sendable(t[i]) /\ (t[i].kind \in Ending <=> i = Len(t))
  <2>1. CASE i = Len(t)
    <3>1. t[i] = e
      BY <1>1, <2>1
    <3>2. QED
      BY <2>1, <3>1, Zenon
  <2>2. CASE i # Len(t)
    <3>1. i \in 1..Len(s)
      BY <1>1, <2>2
    <3>2. t[i] = s[i] /\ Sendable(s[i]) /\ s[i].kind \notin Ending
      BY <1>1, <1>3, <3>1, Zenon DEF AllSendable
    <3>3. QED
      BY <2>2, <3>2, Zenon
  <2>3. QED
    BY <2>1, <2>2
<1>5. QED
  BY <1>1, <1>2, <1>4, Zenon DEF Ended, AllSendable, t

\* What is left out of an event's text is left out of its frame.
LEMMA EventSendable ==
  ASSUME NEW kind, kind # Newline, NEW data, Plain(data)
  PROVE  Sendable(Event(kind, data)) /\ Event(kind, data).kind = kind
BY DEF Sendable, Event, Plain

LEMMA PlainOne ==
  ASSUME NEW x, x # Escape
  PROVE  Plain(<<x>>)
<1>1. IsSeq(<<x>>) /\ ToSet(<<x>>) = {x}
  BY OneMember
<1>2. QED
  BY <1>1 DEF Plain

LEMMA PlainMore ==
  ASSUME NEW s, Plain(s), NEW t, Plain(t)
  PROVE  Plain(s \o t)
BY Joined DEF Plain

LEMMA PlainTwo ==
  ASSUME NEW x, x # Escape, NEW y, y # Escape
  PROVE  Plain(<<x, y>>)
<1>1. <<x, y>> = <<x>> \o <<y>>
  OBVIOUS
<1>2. Plain(<<x>>) /\ Plain(<<y>>)
  BY PlainOne
<1>3. QED
  BY <1>1, <1>2, PlainMore, Zenon

LEMMA PlainAlso ==
  ASSUME NEW s, Plain(s), NEW x, x # Escape
  PROVE  Plain(Append(s, x))
BY JoinedOne DEF Plain

LEMMA StageSendable ==
  ASSUME NEW stage, stage # Escape, NEW state, state # Escape, NEW told, Plain(told)
  PROVE  Sendable(Stage(stage, state, told)) /\ Stage(stage, state, told).kind \notin Ending
<1>1. Plain(<<stage, state>> \o told)
  BY PlainTwo, PlainMore
<1>2. "run.stage" # Newline /\ "run.stage" \notin Ending
  BY DEF Newline, Ending
<1>3. QED
  BY <1>1, <1>2, EventSendable, Zenon DEF Stage

LEMMA InitSays == Init => EventsInv
<1> SUFFICES ASSUME Init PROVE EventsInv
  OBVIOUS
<1>1. pc = "prepare" /\ answer = "unsent" /\ warnings = <<>> /\ events = <<>>
  BY DEF Init, Begin, Unsent
<1>2. <<>> \in Seq({})
  OBVIOUS
<1>3. QED
  BY <1>1, <1>2, SaidNone DEF EventsInv

\* The warnings are words of the collection.
LEMMA CollectWarns ==
  ASSUME Plain(warnings), CollectNext
  PROVE  Plain(warnings')
<1>1. /\ Escape \notin {"missing", "refuses", "price_failed", "fundamental_failed",
                        "finance_failed", "empty_result"}
  BY DEF Escape
<1>2. CASE Unavailable
  BY <1>1, <1>2, PlainOne DEF Unavailable
<1>3. CASE EndFetch
  BY <1>1, <1>3, PlainOne DEF EndFetch
<1>4. CASE FetchPrices
  BY <1>1, <1>4, PlainAlso DEF FetchPrices
<1>5. CASE FetchFundamentals
  <2>1. \/ warnings' = warnings \/ warnings' = Append(warnings, "fundamental_failed")
        \/ warnings' = Append(warnings, "finance_failed")
    BY <1>5, Zenon DEF FetchFundamentals
  <2>2. QED
    BY <1>1, <2>1, PlainAlso
<1>6. CASE warnings' = warnings
  BY <1>6
<1>7. QED
  BY <1>2, <1>3, <1>4, <1>5, <1>6
     DEF CollectNext, Reject, Plan, NoProvider, FetchOverview, FetchProfile, Collected

LEMMA CollectSays ==
  ASSUME EventsInv, SeenInv, Collect
  PROVE  EventsInv'
<1>1. CollectNext
  BY DEF Collect
<1>2. pc # "done" /\ pc' # "done"
  BY <1>1 DEF CollectNext, Reject, Plan, NoProvider, Unavailable, FetchPrices,
       FetchOverview, FetchFundamentals, FetchProfile, EndFetch, Collected, Goto
<1>3. Plain(warnings')
  BY <1>1, CollectWarns DEF EventsInv
<1>4. answer' = "unsent" /\ Said(events)
  BY <1>2 DEF Collect, clientVars, EventsInv
<1> DEFINE started == Event("run.started", <<workflow>>)
           stage == Stage("collect", "running", <<>>)
<1>5. Said(<<started, stage>>)
  <2>1. workflow # Escape
    BY DEF SeenInv, SkillsOf, Escape
  <2>2. "run.started" # Newline /\ "run.started" \notin Ending
    BY DEF Newline, Ending
  <2>3. Sendable(started) /\ started.kind \notin Ending
    BY <2>1, <2>2, PlainOne, EventSendable, Zenon
  <2>4. "collect" # Escape /\ "running" # Escape
    BY DEF Escape
  <2>5. Plain(<<>>)
    <3>1. <<>> \in Seq({})
      OBVIOUS
    <3>2. QED
      BY <3>1, SaidNone
  <2>6. Sendable(stage) /\ stage.kind \notin Ending
    BY <2>4, <2>5, StageSendable, Zenon
  <2>7. QED
    BY <2>3, <2>6, SaidTwo, Zenon
<1> HIDE DEF started, stage
<1>6. events' = events \/ events' = <<started, stage>>
  BY DEF Collect, started, stage
<1>7. Said(events')
  BY <1>4, <1>5, <1>6
<1>8. Said(events)' /\ Plain(warnings)'
  BY <1>3, <1>7 DEF Said, Plain, IsSeq
<1>9. QED
  BY <1>2, <1>4, <1>8 DEF EventsInv

LEMMA BundleSays ==
  ASSUME EventsInv, VerdictInv, Bundle
  PROVE  EventsInv'
<1>1. /\ pc = "collected" /\ pc' = "analyse"
      /\ UNCHANGED <<warnings, answer>>
  BY DEF Bundle, Goto, clientVars
<1>2. events' = Append(events, Stage("collect", status, warnings))
  BY DEF Bundle
<1>3. status # Escape /\ "collect" # Escape
  BY <1>1 DEF VerdictInv, Told, Escape
<1>4. Plain(warnings) /\ Said(events) /\ answer = "unsent"
  BY <1>1 DEF EventsInv
<1>5. Said(events')
  BY <1>2, <1>3, <1>4, StageSendable, SaidAlso
<1>6. Said(events)' /\ Plain(warnings)'
  BY <1>1, <1>4, <1>5 DEF Said, Plain, IsSeq
<1>7. QED
  BY <1>1, <1>4, <1>6 DEF EventsInv

LEMMA AnalyseSays ==
  ASSUME EventsInv, SeenInv, Analyse
  PROVE  EventsInv'
<1> DEFINE name == Skills[skill]
           known == Cite(citations, SkillDataBundle(name))
           begin == Stage(name, "running", <<>>)
           opening == <<begin, begin>>
           end == Stage(name, "success", <<>>)
           closing == <<end>>
           cite == Event("citation", <<"citation">>)
           cites(cited) == IF cited \cap DOMAIN known = {} THEN <<>> ELSE <<cite>>
<1>1. UNCHANGED <<pc, warnings, answer>> /\ pc = "analyse" /\ skill <= Len(Skills)
  BY DEF Analyse, clientVars
<1>2. PICK cited : events' = events \o opening \o AnswerDeltas \o cites(cited) \o closing
  BY DEF Analyse
<1>3. Plain(warnings) /\ Said(events) /\ answer = "unsent"
  BY <1>1 DEF EventsInv
<1>4. name # Escape
  <2>1. workflow \in {"collector", "fundamental", "technical"}
    BY DEF SeenInv, SkillsOf
  <2>2. skill \in 1..Len(Skills)
    <3>1. skill \in Int /\ skill >= 1
      BY <2>1 DEF SeenInv, Skills, SkillsOf
    <3>2. Len(Skills) \in Nat
      BY <2>1 DEF Skills, SkillsOf
    <3>3. QED
      BY <1>1, <3>1, <3>2
  <2>3. CASE workflow = "fundamental"
    <3>1. Skills = <<"auditor", "fundamental">>
      BY <2>3 DEF Skills, SkillsOf
    <3>2. skill \in {1, 2}
      BY <2>2, <3>1
    <3>3. name \in {"auditor", "fundamental"}
      BY <3>1, <3>2
    <3>4. QED
      BY <3>3 DEF Escape
  <2>4. CASE workflow \in {"collector", "technical"}
    <3>1. Skills = <<"auditor">> \/ Skills = <<"technical">>
      BY <2>4 DEF Skills, SkillsOf
    <3>2. skill = 1
      <4>1. Len(Skills) = 1
        BY <3>1
      <4>2. QED
        BY <2>2, <4>1
    <3>3. name \in {"auditor", "technical"}
      BY <3>1, <3>2
    <3>4. QED
      BY <3>3 DEF Escape
  <2>5. QED
    BY <2>1, <2>3, <2>4
<1>5. Plain(<<>>) /\ Said(<<>>)
  <2>1. <<>> \in Seq({})
    OBVIOUS
  <2>2. QED
    BY <2>1, SaidNone
<1>6. Said(<<begin>>) /\ Said(closing)
  <2>1. "running" # Escape /\ "success" # Escape
    BY DEF Escape
  <2>2. Sendable(begin) /\ begin.kind \notin Ending /\ Sendable(end) /\ end.kind \notin Ending
    BY <1>4, <1>5, <2>1, StageSendable, Zenon
  <2>3. QED
    BY <2>2, SaidOne
<1>7. Said(opening)
  <2> HIDE DEF begin
  <2>1. opening = <<begin>> \o <<begin>>
    OBVIOUS
  <2>2. QED
    BY <1>6, <2>1, SaidMore, Zenon
<1>8. Said(AnswerDeltas)
  <2> DEFINE text == <<"text", Newline, Newline, "text">>
  <2>1. text = <<"text", Newline>> \o <<Newline, "text">>
    OBVIOUS
  <2>2. "text" # Escape /\ Newline # Escape
    BY DEF Escape, Newline
  <2>3. Plain(text)
    BY <2>1, <2>2, PlainTwo, PlainMore, Zenon
  <2>4. "answer.delta" # Newline /\ "answer.delta" \notin Ending
    BY DEF Newline, Ending
  <2> HIDE DEF text
  <2>5. Said(<<Event("answer.delta", text)>>)
    BY <2>3, <2>4, EventSendable, SaidOne, Zenon
  <2>6. AnswerDeltas = <<>> \/ AnswerDeltas = <<Event("answer.delta", text)>>
    BY DEF AnswerDeltas, text
  <2>7. QED
    BY <1>5, <2>5, <2>6
<1>9. Said(cites(cited))
  <2>1. "citation" # Newline /\ "citation" # Escape /\ "citation" \notin Ending
    BY DEF Newline, Escape, Ending
  <2>2. Said(<<cite>>)
    BY <2>1, PlainOne, EventSendable, SaidOne, Zenon
  <2>3. cites(cited) = <<>> \/ cites(cited) = <<cite>>
    OBVIOUS
  <2>4. QED
    BY <1>5, <2>2, <2>3
<1> HIDE DEF opening, closing, cites
<1>10. Said(events \o opening)
  BY <1>3, <1>7, SaidMore
<1>11. Said(events \o opening \o AnswerDeltas)
  BY <1>8, <1>10, SaidMore
<1>12. Said(events \o opening \o AnswerDeltas \o cites(cited))
  BY <1>9, <1>11, SaidMore
<1>13. Said(events')
  BY <1>2, <1>6, <1>12, SaidMore
<1>14. Said(events)' /\ Plain(warnings)'
  BY <1>1, <1>3, <1>13 DEF Said, Plain, IsSeq
<1>15. QED
  BY <1>1, <1>3, <1>14 DEF EventsInv

LEMMA EndingSays ==
  ASSUME EventsInv, Finish \/ Fail
  PROVE  EventsInv'
<1>1. pc # "done" /\ pc' = "done" /\ UNCHANGED warnings
  BY DEF Finish, Fail, Goto
<1>2. Plain(warnings) /\ Said(events)
  BY <1>1 DEF EventsInv
<1>3. Ended(events')
  <2>1. CASE Finish
    <3> DEFINE chart == Event("artifact", <<"chart", artifacts'[1].status>>)
               end == Event("run.completed", <<"success", "run">>)
    <3>1. events' = events \o <<chart, end>>
      BY <2>1 DEF Finish
    <3>2. artifacts'[1].status \in {"ready", "unavailable"}
      <4> DEFINE drawn == Drawn!BuildPriceTrendChart(PriceRecordsOf(records), DOMAIN citations)
      <4>1. artifacts' = <<drawn>>
        BY <2>1 DEF Finish
      <4>2. drawn.status \in {"ready", "unavailable"}
        BY DEF Drawn!BuildPriceTrendChart, Drawn!Unavailable
      <4> HIDE DEF drawn
      <4>3. artifacts'[1] = drawn
        BY <4>1
      <4>4. QED
        BY <4>2, <4>3
    <3>3. /\ artifacts'[1].status # Escape /\ "chart" # Escape /\ "success" # Escape
          /\ "run" # Escape
      BY <3>2 DEF Escape
    <3>4. /\ "artifact" # Newline /\ "run.completed" # Newline
          /\ "artifact" \notin Ending /\ "run.completed" \in Ending
      BY DEF Newline, Ending
    <3>5. Sendable(chart) /\ chart.kind \notin Ending
      BY <3>3, <3>4, PlainTwo, EventSendable, Zenon
    <3>6. Sendable(end) /\ end.kind \in Ending
      BY <3>3, <3>4, PlainTwo, EventSendable, Zenon
    <3> HIDE DEF chart, end
    <3>7. events' = Append(Append(events, chart), end)
      <4>1. events \in Seq(ToSet(events) \cup {chart, end})
        BY <1>2 DEF Said, IsSeq
      <4>2. QED
        BY <3>1, <4>1
    <3>8. Said(Append(events, chart))
      BY <1>2, <3>5, SaidAlso
    <3>9. QED
      BY <3>6, <3>7, <3>8, EndedBy
  <2>2. CASE Fail
    <3> DEFINE end == Event("run.failed", <<"No market data was returned">>)
    <3>1. events' = Append(events, end)
      BY <2>2 DEF Fail
    <3>2. "No market data was returned" # Escape
      BY DEF Escape
    <3>3. "run.failed" # Newline /\ "run.failed" \in Ending
      BY DEF Newline, Ending
    <3>4. Sendable(end) /\ end.kind \in Ending
      BY <3>2, <3>3, PlainOne, EventSendable, Zenon
    <3> HIDE DEF end
    <3>5. QED
      BY <1>2, <3>1, <3>4, EndedBy
  <2>3. QED
    BY <2>1, <2>2
<1>4. Ended(events)' /\ Plain(warnings)'
  BY <1>1, <1>2, <1>3 DEF Ended, AllSendable, Plain, IsSeq
<1>5. QED
  BY <1>1, <1>4 DEF EventsInv

LEMMA StepSays ==
  ASSUME EventsInv, VerdictInv, SeenInv, [Next]_vars
  PROVE  EventsInv'
<1>1. CASE Browser
  <2>1. pc = "done" /\ UNCHANGED <<pc, warnings, events>>
    BY <1>1 DEF Browser, collectVars, evidenceVars
  <2>2. Ended(events)' /\ Plain(warnings)'
    BY <2>1 DEF EventsInv, Ended, AllSendable, Plain, IsSeq
  <2>3. QED
    BY <2>1, <2>2 DEF EventsInv
<1>2. CASE UNCHANGED vars
  <2>1. UNCHANGED <<pc, warnings, events, answer>>
    BY <1>2 DEF vars, collectVars, evidenceVars, clientVars
  <2>2. QED
    BY <2>1 DEF EventsInv, Ended, Said, AllSendable, Plain, IsSeq
<1>3. QED
  BY <1>1, <1>2, CollectSays, BundleSays, AnalyseSays, EndingSays DEF Next

--------------------------------------------------------------------------------
(* What the browser has read.                                                   *)

Full == TextTo(network.beats, events, Len(events))

\* The first p words of the response are read, and no more: what they come to is handled.
ReadUpTo(full, p) ==
  LET split == SplitUpTo(full, 2)[p]
      read == Handled(split.parts)
  IN /\ p \in 0..Len(full)
     /\ wire = SubSeq(full, p + 1, Len(full)) /\ buffer = split.rest
     /\ handled = read.events
     /\ \/ answer \in {read.answer, "broken"}
        \/ /\ p = Len(full) /\ read.answer = "reading"
           /\ answer = IF Completed THEN "completed" ELSE "no_output"

ClientInv ==
  /\ \E case \in Cases : network = case.network
  /\ answer = "unsent" => wire = <<>> /\ buffer = <<>> /\ handled = <<>>
  /\ answer # "unsent" => \E p : ReadUpTo(Full, p)

LEMMA SmallerIs ==
  ASSUME NEW a \in Nat, NEW b \in Nat
  PROVE  Min({a, b}) \in Nat /\ Min({a, b}) <= b
<1> DEFINE T == {a, b}
<1>1. \E x \in T : \A y \in T : x <= y
  <2>1. CASE a <= b
    BY <2>1
  <2>2. CASE ~(a <= b)
    BY <2>2
  <2>3. QED
    BY <2>1, <2>2
<1>2. Min(T) \in T /\ \A y \in T : Min(T) <= y
  BY <1>1, Zenon DEF Min
<1>3. QED
  BY <1>2

\* What one read takes of a text that was read up to p, and what it leaves.
LEMMA ChunkOf ==
  ASSUME NEW t, IsSeq(t), NEW p \in 0..Len(t), NEW w, w = SubSeq(t, p + 1, Len(t)),
         NEW n \in Nat, n <= Len(w), NEW c, c = SubSeq(w, 1, n)
  PROVE  /\ Len(c) = n /\ p + n \in p..Len(t) /\ c = SubSeq(t, p + 1, p + n)
         /\ SubSeq(w, n + 1, Len(w)) = SubSeq(t, p + n + 1, Len(t))
<1> DEFINE S == ToSet(t)
<1>1. t \in Seq(S)
  BY DEF IsSeq
<1> HIDE DEF S
<1>2. Len(t) \in Nat
  BY <1>1
<1>3. w \in Seq(S) /\ Len(w) = Len(t) - p
  BY <1>1, <1>2
<1>4. \A i \in 1..Len(w) : w[i] = t[p + i]
  BY <1>1, <1>2
<1>5. Len(c) = n
  BY <1>3
<1>6. p + n \in p..Len(t)
  BY <1>2, <1>3
<1>7. c = SubSeq(t, p + 1, p + n)
  <2>1. c = [i \in 1..n |-> w[i]]
    BY <1>3
  <2>2. SubSeq(t, p + 1, p + n) = [i \in 1..n |-> t[p + i]]
    BY <1>1, <1>2, <1>6
  <2>3. \A i \in 1..n : i \in 1..Len(w)
    BY <1>3
  <2>4. QED
    BY <1>4, <2>1, <2>2, <2>3
<1>8. SubSeq(w, n + 1, Len(w)) = SubSeq(t, p + n + 1, Len(t))
  <2>1. SubSeq(w, n + 1, Len(w)) = [i \in 1..(Len(w) - n) |-> w[n + i]]
    BY <1>3
  <2>2. SubSeq(t, p + n + 1, Len(t)) = [i \in 1..(Len(t) - (p + n)) |-> t[p + n + i]]
    BY <1>1, <1>2, <1>6
  <2>3. Len(w) - n = Len(t) - (p + n)
    BY <1>2, <1>3
  <2>4. \A i \in 1..(Len(w) - n) : w[n + i] = t[p + n + i]
    BY <1>2, <1>3, <1>4
  <2>5. QED
    BY <2>1, <2>2, <2>3, <2>4
<1>9. QED
  BY <1>5, <1>6, <1>7, <1>8

\* One read, of a text that was read up to p and is now read up to m.
ReadsOn(t, p, m, on) ==
  /\ on.rest = SplitUpTo(t, 2)[m].rest
  /\ Handled(SplitUpTo(t, 2)[m].parts).events =
       Handled(SplitUpTo(t, 2)[p].parts).events \o Handled(on.parts).events
  /\ Handled(SplitUpTo(t, 2)[m].parts).answer = Handled(on.parts).answer

LEMMA ReadOn ==
  ASSUME NEW t, IsSeq(t), NEW p \in 0..Len(t), NEW m \in p..Len(t),
         Handled(SplitUpTo(t, 2)[p].parts).answer = "reading"
  PROVE  ReadsOn(t, p, m, Split(SplitUpTo(t, 2)[p].rest \o SubSeq(t, p + 1, m), 2))
<1> DEFINE on == Split(SplitUpTo(t, 2)[p].rest \o SubSeq(t, p + 1, m), 2)
<1> DEFINE a == SplitUpTo(t, 2)[p].parts
           x == SplitUpTo(t, 2)[m].parts
<1>1. IsSeq(a)
  <2>1. Halfway(SplitUpTo(t, 2)[p])
    BY SplitHalfway
  <2>2. QED
    BY <2>1 DEF Halfway
<1>2. on.rest = SplitUpTo(t, 2)[m].rest /\ IsSeq(on.parts) /\ x = a \o on.parts
  BY SplitGoesOn, Zenon
<1> HIDE DEF a, x, on
<1>3. Handled(a).answer = "reading"
  BY DEF a
<1>4. Handled(x) = [events |-> Handled(a).events \o Handled(on.parts).events,
                    answer |-> Handled(on.parts).answer]
  BY <1>1, <1>2, <1>3, HandledGoesOn, Zenon
<1>5. /\ Handled(x).events = Handled(a).events \o Handled(on.parts).events
      /\ Handled(x).answer = Handled(on.parts).answer
  <2> DEFINE z == Handled(a).events \o Handled(on.parts).events
             y == Handled(on.parts).answer
  <2>1. Handled(x) = [events |-> z, answer |-> y]
    BY <1>4, Zenon
  <2> HIDE DEF z, y
  <2>2. Handled(x).events = z /\ Handled(x).answer = y
    BY <2>1
  <2>3. QED
    BY <2>2 DEF z, y
<1>6. QED
  BY <1>2, <1>5, Zenon DEF ReadsOn, a, x, on

\* The whole response, and that it is a text.
LEMMA FullIs ==
  ASSUME EventsInv, pc = "done"
  PROVE  /\ SseEventStream(events) = Full /\ IsSeq(Full) /\ Len(Full) \in Nat
         /\ AllSendable(events) /\ Len(events) \in Nat
<1>1. AllSendable(events) /\ IsSeq(events)
  BY DEF EventsInv, Ended, AllSendable
<1>2. /\ Len(events) \in Nat /\ Len(events) \in 0..Len(events)
      /\ events = SubSeq(events, 1, Len(events))
  <2>1. events \in Seq(ToSet(events))
    BY <1>1 DEF IsSeq
  <2>2. QED
    BY <2>1
<1>3. FlattenSeq([i \in DOMAIN events |-> Piece(network.beats, events, i)]) = Full
  BY <1>1, <1>2, TextOfFirst, Zenon DEF Full
<1>4. SseEventStream(events) = Full
  BY <1>3, Zenon DEF SseEventStream, Piece, Beat
<1>5. IsSeq(Full)
  BY <1>1, <1>2, TextGrows DEF Full
<1>6. Len(Full) \in Nat
  BY <1>5, SeqPlaces
<1>7. QED
  BY <1>1, <1>2, <1>4, <1>5, <1>6

\* A place in the response, and what is handled there.
LEMMA PlacedRead ==
  ASSUME EventsInv, pc = "done", NEW t, t = Full, NEW p \in 0..Len(t)
  PROVE  \E n : /\ Placed(network.beats, events, SplitUpTo(t, 2)[p], p, n)
                /\ n \in 0..Len(events)
                /\ Handled(SplitUpTo(t, 2)[p].parts).events = SubSeq(events, 1, n)
                /\ Handled(SplitUpTo(t, 2)[p].parts).answer = Outcome(events, n)
<1>1. AllSendable(events) /\ Len(events) \in Nat
  BY FullIs
<1>2. FailsLast(events)
  <2>1. ASSUME NEW i \in 1..(Len(events) - 1) PROVE events[i].kind # "run.failed"
    <3>1. i \in 1..Len(events) /\ i # Len(events)
      BY <1>1
    <3>2. events[i].kind \notin Ending
      BY <3>1 DEF EventsInv, Ended
    <3>3. QED
      BY <3>2 DEF Ending
  <2>2. QED
    BY <2>1 DEF FailsLast
<1>3. p \in 0..EndOf(network.beats, events, Len(events))
  BY DEF EndOf, Full
<1>4. PICK n : Placed(network.beats, events, SplitUpTo(t, 2)[p], p, n)
  BY <1>1, <1>2, <1>3, PlacedAll DEF Full
<1> DEFINE h == Handled(SplitUpTo(t, 2)[p].parts)
<1>5. n \in 0..Len(events) /\ h = [events |-> SubSeq(events, 1, n), answer |-> Outcome(events, n)]
  BY <1>4, Zenon DEF Placed
<1> HIDE DEF h
<1>6. h.events = SubSeq(events, 1, n) /\ h.answer = Outcome(events, n)
  BY <1>5
<1>7. QED
  BY <1>4, <1>5, <1>6 DEF h

LEMMA InitReads == Init => ClientInv
<1> SUFFICES ASSUME Init PROVE ClientInv
  OBVIOUS
<1>1. PICK case \in Cases : Begin(case) /\ Unsent(case.network)
  BY DEF Init
<1>2. /\ network = case.network /\ answer = "unsent"
      /\ wire = <<>> /\ buffer = <<>> /\ handled = <<>>
  BY <1>1 DEF Unsent
<1>3. QED
  BY <1>2 DEF ClientInv

\* The response is sent: nothing of it is read yet.
LEMMA RespondReads ==
  ASSUME NEW t, IsSeq(t), ClientInv, answer = "unsent", wire' = t, answer' = "reading",
         UNCHANGED <<buffer, handled>>
  PROVE  ReadUpTo(t, 0)'
<1>1. buffer' = <<>> /\ handled' = <<>>
  BY DEF ClientInv
<1>2. t \in Seq(ToSet(t))
  BY DEF IsSeq
<1>3. Len(t) \in Nat /\ 0 \in 0..Len(t) /\ SubSeq(t, 0 + 1, Len(t)) = t
  BY <1>2
<1>4. SplitUpTo(t, 2)[0] = [parts |-> <<>>, rest |-> <<>>]
  BY <1>3, SplitValues, Zenon
<1>5. SplitUpTo(t, 2)[0].parts = <<>> /\ SplitUpTo(t, 2)[0].rest = <<>>
  BY <1>4
<1>6. Handled(<<>>).events = <<>> /\ Handled(<<>>).answer = "reading"
  BY HandledOfEmpty
<1>7. QED
  BY <1>1, <1>3, <1>5, <1>6, Zenon DEF ReadUpTo

\* A read goes on where the last one ended, wherever that was.
LEMMA ReadReads ==
  ASSUME NEW t, IsSeq(t), NEW p, ReadUpTo(t, p), Read, network.chunk \in Nat
  PROVE  \E m : ReadUpTo(t, m)'
<1> DEFINE before == Handled(SplitUpTo(t, 2)[p].parts)
<1>1. /\ p \in 0..Len(t) /\ wire = SubSeq(t, p + 1, Len(t))
      /\ buffer = SplitUpTo(t, 2)[p].rest /\ handled = before.events
  BY DEF ReadUpTo
<1>2. answer = "reading"
  BY DEF Read
<1>3. before.answer = "reading"
  BY <1>2 DEF ReadUpTo
<1>4. t \in Seq(ToSet(t)) /\ Len(t) \in Nat
  BY SeqPlaces DEF IsSeq
<1>5. wire \in Seq(ToSet(t))
  BY <1>1, <1>4
<1>6. PICK n : n = Min({network.chunk, Len(wire)})
  OBVIOUS
<1>7. n \in Nat /\ n <= Len(wire)
  <2>1. Len(wire) \in Nat
    BY <1>5
  <2>2. QED
    BY <1>6, <2>1, SmallerIs
<1>8. PICK c : c = Chunk
  OBVIOUS
<1>9. c = SubSeq(wire, 1, n)
  BY <1>6, <1>8 DEF Chunk
<1>10. PICK w : w = wire
  OBVIOUS
<1>11. /\ Len(c) = n /\ p + n \in p..Len(t) /\ c = SubSeq(t, p + 1, p + n)
       /\ SubSeq(w, n + 1, Len(w)) = SubSeq(t, p + n + 1, Len(t))
  <2>1. w = SubSeq(t, p + 1, Len(t)) /\ n <= Len(w) /\ c = SubSeq(w, 1, n)
    BY <1>1, <1>7, <1>9, <1>10
  <2>2. QED
    BY <1>1, <1>7, <2>1, ChunkOf
<1>12. PICK on : on = ParseSseFrames(buffer \o c)
  OBVIOUS
<1>13. /\ buffer' = on.rest /\ handled' = handled \o Handled(on.parts).events
       /\ answer' = Handled(on.parts).answer /\ wire' = SubSeq(w, n + 1, Len(w))
  BY <1>8, <1>10, <1>11, <1>12, Zenon DEF Read
<1>14. PICK m : m = p + n
  OBVIOUS
<1> DEFINE after == Handled(SplitUpTo(t, 2)[m].parts)
<1>15. m \in p..Len(t) /\ m \in 0..Len(t)
  BY <1>1, <1>4, <1>7, <1>11, <1>14
<1>16. /\ on.rest = SplitUpTo(t, 2)[m].rest
       /\ after.events = before.events \o Handled(on.parts).events
       /\ after.answer = Handled(on.parts).answer
  <2>1. PICK b : b = buffer
    OBVIOUS
  <2>2. b = SplitUpTo(t, 2)[p].rest /\ on = Split(b \o SubSeq(t, p + 1, m), 2)
    BY <1>1, <1>11, <1>12, <1>14, <2>1, Zenon DEF ParseSseFrames
  <2>3. p \in 0..Len(t) /\ m \in p..Len(t) /\ before.answer = "reading"
    BY <1>1, <1>3, <1>15
  <2>4. ReadsOn(t, p, m, Split(SplitUpTo(t, 2)[p].rest \o SubSeq(t, p + 1, m), 2))
    BY <2>3, ReadOn
  <2>5. ReadsOn(t, p, m, on)
    BY <2>2, <2>4, Zenon
  <2>6. QED
    BY <2>5, Zenon DEF ReadsOn
<1>17. wire' = SubSeq(t, m + 1, Len(t))
  BY <1>11, <1>13, <1>14, Zenon
<1>18. handled' = after.events /\ answer' = after.answer /\ buffer' = SplitUpTo(t, 2)[m].rest
  BY <1>1, <1>13, <1>16, Zenon
<1>19. ReadUpTo(t, m)'
  BY <1>15, <1>17, <1>18, Zenon DEF ReadUpTo
<1>20. QED
  BY <1>19

\* The end of the reading, and its breaking off.
LEMMA EndReads ==
  ASSUME NEW t, IsSeq(t), NEW p, ReadUpTo(t, p), ReadEnd \/ Break
  PROVE  ReadUpTo(t, p)'
<1> DEFINE before == Handled(SplitUpTo(t, 2)[p].parts)
<1>1. /\ p \in 0..Len(t) /\ wire = SubSeq(t, p + 1, Len(t))
      /\ buffer = SplitUpTo(t, 2)[p].rest /\ handled = before.events
  BY DEF ReadUpTo
<1>2. answer = "reading" /\ UNCHANGED <<wire, buffer, handled>>
  BY DEF ReadEnd, Break
<1>3. before.answer = "reading"
  BY <1>2 DEF ReadUpTo
<1>4. CASE Break
  <2>1. answer' = "broken"
    BY <1>4 DEF Break
  <2>2. QED
    BY <1>1, <1>2, <2>1, Zenon DEF ReadUpTo
<1>5. CASE ReadEnd
  <2>1. wire = <<>> /\ answer' = (IF Completed THEN "completed" ELSE "no_output")
    BY <1>5 DEF ReadEnd
  <2>2. Completed' = Completed
    BY <1>2 DEF Completed
  <2>3. t \in Seq(ToSet(t)) /\ Len(t) \in Nat
    BY SeqPlaces DEF IsSeq
  <2>4. p = Len(t)
    <3>1. Len(SubSeq(t, p + 1, Len(t))) = Len(t) - p
      BY <1>1, <2>3
    <3>2. Len(<<>>) = 0
      OBVIOUS
    <3>3. Len(t) - p = 0
      BY <1>1, <2>1, <3>1, <3>2, Zenon
    <3>4. QED
      BY <1>1, <2>3, <3>3
  <2>5. QED
    BY <1>1, <1>2, <1>3, <2>1, <2>2, <2>4, Zenon DEF ReadUpTo
<1>6. QED
  BY <1>4, <1>5

LEMMA StepReads ==
  ASSUME EventsInv, ClientInv, [Next]_vars
  PROVE  ClientInv'
<1>1. network' = network
  BY DEF Next, Collect, Bundle, Analyse, Finish, Fail, Browser, Respond, ClientNext, Read, ReadEnd,
         Break, vars, clientVars
<1>2. \E case \in Cases : network' = case.network
  BY <1>1 DEF ClientInv
<1>3. CASE ~Browser /\ answer = "unsent"
  <2>1. UNCHANGED clientVars
    BY <1>3 DEF Next, Collect, Bundle, Analyse, Finish, Fail, vars
  <2>2. QED
    BY <1>2, <1>3, <2>1 DEF ClientInv, clientVars
<1>4. CASE ~Browser /\ answer # "unsent"
  <2>1. pc = "done"
    BY <1>4 DEF EventsInv
  <2>2. UNCHANGED vars
    BY <1>4, <2>1 DEF Next, Collect, CollectNext, Reject, Plan, NoProvider, Unavailable,
       FetchPrices, FetchOverview, FetchFundamentals, FetchProfile, EndFetch, Collected,
       Bundle, Analyse, Finish, Fail
  <2>3. /\ UNCHANGED <<network, wire, buffer, handled, answer>>
        /\ Full' = Full
    BY <2>2 DEF vars, collectVars, evidenceVars, clientVars, Full
  <2>4. PICK t, p : t = Full /\ ReadUpTo(t, p)
    BY <1>4 DEF ClientInv
  <2>5. ReadUpTo(t, p)'
    BY <2>3, <2>4, Zenon DEF ReadUpTo, Completed
  <2>6. QED
    BY <1>2, <1>4, <2>3, <2>4, <2>5, Zenon DEF ClientInv
<1>5. CASE Browser
  <2>1. pc = "done" /\ events' = events /\ (Respond(events) \/ ClientNext)
    BY <1>5 DEF Browser, evidenceVars
  <2>2. Full' = Full
    BY <1>1, <2>1 DEF Full
  <2>3. SseEventStream(events) = Full /\ IsSeq(Full)
    BY <2>1, FullIs
  <2>4. PICK t : t = Full
    OBVIOUS
  <2>5. SUFFICES \E p : ReadUpTo(t, p)' /\ answer' # "unsent"
    BY <1>2, <2>2, <2>4, Zenon DEF ClientInv
  <2>6. CASE Respond(events)
    <3>1. /\ answer = "unsent" /\ wire' = t /\ answer' = "reading"
          /\ UNCHANGED <<buffer, handled>>
      BY <2>3, <2>4, <2>6 DEF Respond
    <3>2. QED
      BY <2>3, <2>4, <3>1, RespondReads
  <2>7. CASE ClientNext
    <3>1. answer = "reading"
      BY <2>7 DEF ClientNext, Read, ReadEnd, Break
    <3>2. PICK p : ReadUpTo(t, p)
      BY <2>4, <3>1 DEF ClientInv
    <3>3. network.chunk \in Nat
      BY ReadsAreFinite DEF ClientInv
    <3>4. \E m : ReadUpTo(t, m)'
      BY <2>3, <2>4, <2>7, <3>2, <3>3, ReadReads, EndReads DEF ClientNext
    <3>5. PICK m : ReadUpTo(t, m)'
      BY <3>4
    <3>6. answer' # "unsent"
      <4>1. m \in 0..Len(t)
        BY <3>5 DEF ReadUpTo
      <4>2. PICK n : Handled(SplitUpTo(t, 2)[m].parts).answer = Outcome(events, n)
        BY <2>1, <2>4, <4>1, PlacedRead
      <4>3. Outcome(events, n) # "unsent"
        BY DEF Outcome
      <4>4. QED
        BY <3>5, <4>2, <4>3 DEF ReadUpTo
    <3>7. QED
      BY <3>5, <3>6
  <2>8. QED
    BY <2>1, <2>6, <2>7
<1>6. QED
  BY <1>3, <1>4, <1>5

\* What a run says and what the browser has read of it, in every run.
THEOREM ReadingHolds == Spec => [](EventsInv /\ ClientInv)
<1>1. Init => EventsInv /\ ClientInv
  BY InitSays, InitReads
<1>2. (EventsInv /\ ClientInv) /\ (CollectInv /\ VerdictInv) /\ (RecordsInv /\ SeenInv /\ CiteInv)
        /\ [Next]_vars => (EventsInv /\ ClientInv)'
  BY StepSays, StepReads
<1>3. QED
  BY <1>1, <1>2, CollectionHolds, SkillsAreServed, PTL DEF Spec

\* However the network cuts the response, the browser handles the events that were
\* sent, in order and as they were said, each as soon as its frame is whole, and its
\* answer is the one the run ended with (streaming.py, client.ts).
THEOREM BrowserReadsTheRun == Spec => []ReadsWhatWasSent
<1>1. EventsInv /\ ClientInv => ReadsWhatWasSent
  <2> SUFFICES ASSUME EventsInv, ClientInv, answer # "unsent"
               PROVE  ReadsWhatWasSent
    BY Zenon DEF ReadsWhatWasSent
  <2> DEFINE upTo(n) == Len(SseEventStream(SubSeq(events, 1, n)))
             end(n) == EndOf(network.beats, events, n)
             got == upTo(Len(events)) - Len(wire)
             read == Len(handled)
  <2>1. pc = "done" /\ Ended(events)
    BY DEF EventsInv
  <2>2. /\ SseEventStream(events) = Full /\ IsSeq(Full) /\ Len(Full) \in Nat
        /\ AllSendable(events) /\ Len(events) \in Nat /\ IsSeq(events)
    BY <2>1, FullIs DEF AllSendable
  <2>3. ASSUME NEW n \in 0..Len(events) PROVE upTo(n) = end(n)
    <3> DEFINE s == SubSeq(events, 1, n)
    <3>1. FlattenSeq([i \in DOMAIN s |-> Piece(network.beats, s, i)]) =
            TextTo(network.beats, events, n)
      BY <2>2, TextOfFirst
    <3> HIDE DEF s
    <3>2. SseEventStream(s) = TextTo(network.beats, events, n)
      BY <3>1, Zenon DEF SseEventStream, Piece, Beat
    <3>3. QED
      BY <3>2, Zenon DEF EndOf, s
  <2>4. PICK t, p : t = Full /\ ReadUpTo(t, p)
    BY DEF ClientInv
  <2>5. /\ p \in 0..Len(t) /\ wire = SubSeq(t, p + 1, Len(t))
        /\ handled = Handled(SplitUpTo(t, 2)[p].parts).events
    BY <2>4 DEF ReadUpTo
  <2>6. PICK n : /\ Placed(network.beats, events, SplitUpTo(t, 2)[p], p, n)
                 /\ n \in 0..Len(events)
                 /\ Handled(SplitUpTo(t, 2)[p].parts).events = SubSeq(events, 1, n)
                 /\ Handled(SplitUpTo(t, 2)[p].parts).answer = Outcome(events, n)
    BY <2>1, <2>4, <2>5, PlacedRead
  <2>7. handled = SubSeq(events, 1, n)
    BY <2>5, <2>6
  <2>8. read = n
    <3>1. events \in Seq(ToSet(events))
      BY <2>2 DEF IsSeq
    <3>2. QED
      BY <2>2, <2>6, <2>7, <3>1
  <2>9. Len(wire) = Len(t) - p /\ Len(t) \in Nat
    <3>1. t \in Seq(ToSet(t))
      BY <2>2, <2>4 DEF IsSeq
    <3>2. QED
      BY <2>5, <3>1
  <2>10. got = p
    <3>1. Len(events) \in 0..Len(events)
      BY <2>2
    <3>2. upTo(Len(events)) = Len(t)
      BY <2>3, <2>4, <3>1 DEF EndOf, Full
    <3> HIDE DEF upTo
    <3>3. QED
      BY <2>5, <2>9, <3>2
  <2>11. /\ end(n) \in Nat /\ end(n) <= p
         /\ n < Len(events) => p < end(n + 1)
    <3>1. p \in Nat
      BY <2>5, <2>9
    <3>2. QED
      BY <2>2, <2>6, <3>1, PlaceIs
  <2>12. upTo(n) <= p /\ (n < Len(events) => p < upTo(n + 1))
    <3>1. n < Len(events) => n + 1 \in 0..Len(events)
      BY <2>2, <2>6
    <3> HIDE DEF upTo, end
    <3>2. QED
      BY <2>3, <2>6, <2>11, <3>1
  <2>13. p = Len(t) => n = Len(events)
    <3>1. SUFFICES ASSUME n < Len(events) PROVE p < Len(t)
      BY <2>2, <2>5, <2>6, <2>9
    <3>2. n \in 0..(Len(events) - 1) /\ Len(events) \in (n + 1)..Len(events)
      BY <2>2, <2>6, <3>1
    <3>3. end(n + 1) <= end(Len(events))
      BY <2>2, <3>2, TextHolds
    <3>4. end(Len(events)) = Len(t)
      BY <2>4 DEF EndOf, Full
    <3>5. n + 1 \in 0..Len(events)
      BY <3>2
    <3>6. end(n + 1) \in Nat
      BY <2>2, <3>5, TextGrows
    <3> HIDE DEF end
    <3>7. QED
      BY <2>5, <2>9, <2>11, <3>1, <3>3, <3>4, <3>6
  <2>14. Len(events) \in 1..Len(events) /\ Last(events) = events[Len(events)]
    <3>1. events \in Seq(ToSet(events)) /\ events # <<>>
      BY <2>1, <2>2 DEF IsSeq, Ended
    <3>2. QED
      BY <3>1 DEF Last
  <2>15. Last(events).kind \in Ending
    BY <2>1, <2>14 DEF Ended
  <2>16. Outcome(events, n) = "failed" => Last(events).kind = "run.failed"
    <3>1. SUFFICES ASSUME n > 0, events[n].kind = "run.failed" PROVE n = Len(events)
      BY <2>14 DEF Outcome
    <3>2. n \in 1..Len(events)
      BY <2>2, <2>6, <3>1
    <3>3. QED
      BY <2>1, <3>1, <3>2 DEF Ended, Ending
  <2>17. ASSUME p = Len(t), Outcome(events, n) = "reading"
         PROVE  Last(events).kind = "run.completed" /\ Completed
    <3>1. n = Len(events) /\ n > 0
      BY <2>2, <2>13, <2>14, <2>17
    <3>2. Last(events).kind # "run.failed"
      BY <2>14, <2>17, <3>1 DEF Outcome
    <3>3. Last(events).kind = "run.completed"
      BY <2>15, <3>2 DEF Ending
    <3>4. handled = events
      <4>1. events \in Seq(ToSet(events))
        BY <2>2 DEF IsSeq
      <4>2. QED
        BY <2>7, <3>1, <4>1
    <3>5. DOMAIN events = 1..Len(events)
      BY <2>2, SeqPlaces
    <3>6. QED
      BY <2>14, <3>3, <3>4, <3>5 DEF Completed
  <2>18. /\ answer \in {"completed", "failed"} =>
              Last(events).kind = (IF answer = "completed" THEN "run.completed" ELSE "run.failed")
         /\ answer # "no_output"
    <3>1. CASE answer \in {Outcome(events, n), "broken"}
      BY <2>16, <3>1 DEF Outcome
    <3>2. CASE /\ p = Len(t) /\ Outcome(events, n) = "reading"
               /\ answer = IF Completed THEN "completed" ELSE "no_output"
      BY <2>17, <3>2
    <3>3. QED
      BY <2>4, <2>6, <3>1, <3>2, Zenon DEF ReadUpTo
  <2> HIDE DEF upTo, read, got
  <2>19. /\ handled = SubSeq(events, 1, read) /\ upTo(read) <= got
         /\ read < Len(events) => got < upTo(read + 1)
    BY <2>7, <2>8, <2>10, <2>12
  <2>20. QED
    BY <2>18, <2>19, Zenon DEF ReadsWhatWasSent, upTo, read, got
<1>2. QED
  BY <1>1, ReadingHolds, PTL

--------------------------------------------------------------------------------
(* The groups that are requested, and the statuses.                             *)

\* What a skill may name, and whether it must have it.
AllNeeds == [dataset : DOMAIN DatasetGroup, required : BOOLEAN]

LEMMA NeedsAre ==
  ASSUME NEW skillName \in {"auditor", "fundamental", "technical"}
  PROVE  Requirements[skillName] \in Seq(AllNeeds)
<1> DEFINE D == DOMAIN DatasetGroup
           one == <<"ohlcv", "financial_statement", "valuation_ratios", "corporate_events",
                    "company_profile">>
           two == <<"source_documents">>
           three == <<"ohlcv", "company_profile">>
<1>1. one \in Seq(D)
  BY DEF DatasetGroup
<1>2. two \in Seq(D) /\ three \in Seq(D)
  BY DEF DatasetGroup
<1>3. ASSUME NEW s \in Seq(D), NEW r \in BOOLEAN PROVE Needs(r, s) \in Seq(AllNeeds)
  <2> HIDE DEF D
  <2>1. Needs(r, s) = [i \in 1..Len(s) |-> [dataset |-> s[i], required |-> r]]
    BY DEF Needs
  <2>2. \A i \in 1..Len(s) : [dataset |-> s[i], required |-> r] \in AllNeeds
    BY DEF AllNeeds, D
  <2>3. QED
    BY <2>1, <2>2
<1>4. /\ Requirements["auditor"] = Needs(TRUE, one) \o Needs(FALSE, two)
      /\ Requirements["technical"] = Needs(TRUE, three)
      /\ Requirements["fundamental"] = <<>>
  BY DEF Requirements
<1> HIDE DEF one, two, three, D
<1>5. Needs(TRUE, one) \o Needs(FALSE, two) \in Seq(AllNeeds)
  <2>1. Needs(TRUE, one) \in Seq(AllNeeds) /\ Needs(FALSE, two) \in Seq(AllNeeds)
    BY <1>1, <1>2, <1>3
  <2>2. QED
    BY <2>1, GluedAt, Zenon
<1>6. Needs(TRUE, three) \in Seq(AllNeeds) /\ <<>> \in Seq(AllNeeds)
  <2>1. <<>> \in Seq(AllNeeds)
    OBVIOUS
  <2>2. TRUE \in BOOLEAN
    OBVIOUS
  <2>3. QED
    BY <1>2, <1>3, <2>1, <2>2, Zenon
<1>7. QED
  BY <1>4, <1>5, <1>6

LEMMA RequirementsAre ==
  ASSUME NEW w \in DOMAIN SkillsOf
  PROVE  DataRequirements(w) \in Seq(AllNeeds)
<1> DEFINE R(x) == Requirements[x]
<1>1. w \in {"collector", "fundamental", "technical"}
  BY DEF SkillsOf
<1>2. \A x \in {"auditor", "fundamental", "technical"} : R(x) \in Seq(AllNeeds) /\ IsSeq(R(x))
  BY NeedsAre, SeqIs
<1>3. ASSUME NEW x PROVE Append(<<>>, x) = <<x>> /\ <<>> \in Seq({}) /\ <<x>> \in Seq({x})
  OBVIOUS
<1>4. ASSUME NEW x \in Seq(AllNeeds) PROVE FlattenSeq(<<x>>) = x
  <2>1. FlattenSeq(Append(<<>>, x)) = FlattenSeq(<<>>) \o x
    BY <1>3, SeqIs, FlattenOfAppend
  <2>2. <<>> \o x = x
    OBVIOUS
  <2>3. QED
    BY <1>3, <2>1, <2>2, FlattenOfEmpty, Zenon
<1>5. ASSUME NEW x \in Seq(AllNeeds), NEW y \in Seq(AllNeeds)
      PROVE  FlattenSeq(<<x, y>>) = x \o y
  <2>1. FlattenSeq(Append(<<x>>, y)) = FlattenSeq(<<x>>) \o y
    BY <1>3, SeqIs, FlattenOfAppend
  <2>2. QED
    BY <1>4, <2>1, AppendedPair, Zenon
<1>6. CASE w # "fundamental"
  <2>1. PICK x : x \in {"auditor", "technical"} /\ SkillsOf[w] = <<x>>
    BY <1>1, <1>6 DEF SkillsOf
  <2>2. [i \in DOMAIN SkillsOf[w] |-> Requirements[SkillsOf[w][i]]] = <<R(x)>>
    BY <2>1
  <2>3. R(x) \in Seq(AllNeeds)
    BY <1>2, <2>1
  <2> HIDE DEF R
  <2>4. QED
    BY <1>4, <2>2, <2>3, Zenon DEF DataRequirements
<1>7. CASE w = "fundamental"
  <2>1. SkillsOf[w] = <<"auditor", "fundamental">>
    BY <1>7 DEF SkillsOf
  <2>2. [i \in DOMAIN SkillsOf[w] |-> Requirements[SkillsOf[w][i]]] =
          <<R("auditor"), R("fundamental")>>
    BY <2>1
  <2>3. R("auditor") \in Seq(AllNeeds) /\ R("fundamental") \in Seq(AllNeeds)
    BY <1>2
  <2> HIDE DEF R
  <2>4. R("auditor") \o R("fundamental") \in Seq(AllNeeds)
    BY <2>3
  <2>5. QED
    BY <1>5, <2>2, <2>3, <2>4, Zenon DEF DataRequirements
<1>8. QED
  BY <1>6, <1>7

LEMMA GroupsAre ==
  ASSUME NEW w \in DOMAIN SkillsOf
  PROVE  ToSet(EffectiveGroups(AllRequests(DataRequirements(w)))) \subseteq Supported \cup {"news"}
<1> DEFINE needs == DataRequirements(w)
           must == {i \in DOMAIN needs : needs[i].required}
           may == {i \in DOMAIN needs : ~needs[i].required}
           requests == AllRequests(needs)
           group == [i \in DOMAIN requests |-> DatasetGroup[requests[i].dataset]]
           first == {i \in DOMAIN group : \A k \in 1..(i - 1) : group[k] # group[i]}
<1>1. IsSeq(needs) /\ \A n \in ToSet(needs) : n \in AllNeeds
  <2>1. needs \in Seq(AllNeeds)
    BY RequirementsAre
  <2> HIDE DEF needs
  <2>2. IsSeq(needs)
    BY <2>1, SeqIs
  <2>3. QED
    BY <2>1, <2>2 DEF ToSet
<1> HIDE DEF needs
<1>2. ASSUME NEW I
      PROVE  IsSeq(Picked(needs, I)) /\ \A n \in ToSet(Picked(needs, I)) : n \in AllNeeds
  <2>1. IsSeq(Picked(needs, I)) /\ ToSet(Picked(needs, I)) = {needs[i] : i \in I \cap DOMAIN needs}
    BY <1>1, PickedSet
  <2>2. \A i \in DOMAIN needs : needs[i] \in ToSet(needs)
    BY DEF ToSet
  <2>3. QED
    BY <1>1, <2>1, <2>2
<1>3. requests = Picked(needs, must) \o Picked(needs, may)
  BY DEF AllRequests
<1> HIDE DEF requests, must, may
<1>4. IsSeq(requests) /\ \A n \in ToSet(requests) : n \in AllNeeds
  <2>1. /\ IsSeq(requests)
        /\ ToSet(requests) = ToSet(Picked(needs, must)) \cup ToSet(Picked(needs, may))
    BY <1>2, <1>3, Joined
  <2>2. QED
    BY <1>2, <2>1
<1>5. \A i \in DOMAIN requests : requests[i] \in AllNeeds
  BY <1>4 DEF ToSet
<1>6. \A i \in DOMAIN requests : group[i] \in Supported \cup {"news"}
  <2>1. \A d \in DOMAIN DatasetGroup : DatasetGroup[d] \in Supported \cup {"news"}
    BY DEF DatasetGroup, Supported
  <2>2. QED
    BY <1>5, <2>1 DEF AllNeeds
<1>7. IsSeq(group)
  BY <1>4, SameLength
<1>8. DOMAIN group = DOMAIN requests /\ EffectiveGroups(requests) = Picked(group, first)
  BY DEF EffectiveGroups
<1> HIDE DEF group, first
<1>9. ToSet(Picked(group, first)) = {group[i] : i \in first \cap DOMAIN group}
  BY <1>7, PickedSet
<1>10. ToSet(EffectiveGroups(requests)) \subseteq Supported \cup {"news"}
  BY <1>6, <1>8, <1>9
<1>11. QED
  BY <1>10, Zenon DEF requests, needs

\* The groups and the statuses are those there are.
TypesInv ==
  /\ ToSet(groups) \subseteq Supported \cup {"news"}
  /\ provider \in {Null, "skipped", "success", "partial", "failed"}
  /\ status \in {Null, "success", "partial", "failed"}

LEMMA StepTypes ==
  ASSUME TypesInv, SeenInv, [Next]_vars
  PROVE  TypesInv'
<1>1. CASE Plan
  <2>1. ToSet(groups') \subseteq Supported \cup {"news"}
    BY <1>1, GroupsAre DEF Plan, SeenInv
  <2>2. UNCHANGED <<provider, status>>
    BY <1>1 DEF Plan
  <2>3. QED
    BY <2>1, <2>2 DEF TypesInv
<1>2. CASE Unavailable \/ EndFetch
  <2>1. UNCHANGED <<groups, status>> /\ provider' \in {"skipped", "success", "partial", "failed"}
    BY <1>2 DEF Unavailable, EndFetch
  <2>2. QED
    BY <2>1 DEF TypesInv
<1>3. CASE Collected
  <2>1. UNCHANGED <<groups, provider>> /\ status' \in {"success", "partial", "failed"}
    BY <1>3 DEF Collected, ResultStatus
  <2>2. QED
    BY <2>1 DEF TypesInv
<1>4. CASE UNCHANGED <<groups, provider, status>>
  BY <1>4 DEF TypesInv
<1>5. QED
  BY <1>1, <1>2, <1>3, <1>4
     DEF Next, Collect, CollectNext, Reject, NoProvider, FetchPrices, FetchOverview,
         FetchFundamentals, FetchProfile, Bundle, Analyse, Finish, Fail, Browser, vars, collectVars

\* The types of the groups and of the statuses, in every run.
THEOREM TypesHold == Spec => []TypesInv
<1>1. Init => TypesInv
  <2> SUFFICES ASSUME Init PROVE TypesInv
    OBVIOUS
  <2>1. groups = <<>> /\ provider = Null /\ status = Null
    BY DEF Init, Begin
  <2>2. <<>> \in Seq({})
    OBVIOUS
  <2>3. QED
    BY <2>1, <2>2, NoMember DEF TypesInv
<1>2. TypesInv /\ (RecordsInv /\ SeenInv /\ CiteInv) /\ [Next]_vars => TypesInv'
  BY StepTypes
<1>3. QED
  BY <1>1, <1>2, SkillsAreServed, PTL DEF Spec

\* Every variable of a run has its type, and how the reading ended is one of the
\* ways there are: never on a frame that cannot be read (client.ts).
THEOREM EvidenceTypes == Spec => []TypeOK
<1>1. (CollectInv /\ VerdictInv) /\ (RecordsInv /\ SeenInv /\ CiteInv)
        /\ (EventsInv /\ ClientInv) /\ TypesInv => TypeOK
  <2> SUFFICES ASSUME CollectInv, VerdictInv, RecordsInv, SeenInv, CiteInv, EventsInv, ClientInv,
                      TypesInv
               PROVE  TypeOK
    OBVIOUS
  <2>1. pc \in {"prepare", "rejected", "provider", "overview", "fundamentals", "profile",
                "fetched", "result", "collected", "analyse", "done", "failed"}
    BY DEF CollectInv, Before, Fetching, After
  <2>2. \A r \in ToSet(records) : r.dataset \in {"prices", "fundamentals", "company_profile"}
    BY DEF RecordsInv, Recorded, Datasets
  <2>3. workflow \in DOMAIN SkillsOf /\ skill \in 1..(Len(Skills) + 1) /\ Len(seen) = skill - 1
    BY DEF SeenInv
  <2>4. used \subseteq DOMAIN citations
    BY DEF CiteInv
  <2>5. answer \in {"unsent", "reading", "completed", "failed", "no_output", "broken"}
    <3>1. SUFFICES ASSUME answer # "unsent"
                   PROVE  answer \in {"reading", "completed", "failed", "no_output", "broken"}
      OBVIOUS
    <3>2. pc = "done"
      BY <3>1 DEF EventsInv
    <3>3. PICK t, p : t = Full /\ ReadUpTo(t, p)
      BY <3>1 DEF ClientInv
    <3>4. p \in 0..Len(t)
      BY <3>3 DEF ReadUpTo
    <3>5. PICK n : Handled(SplitUpTo(t, 2)[p].parts).answer = Outcome(events, n)
      BY <3>2, <3>3, <3>4, PlacedRead
    <3>6. \/ answer \in {Outcome(events, n), "broken"} \/ answer \in {"completed", "no_output"}
      BY <3>3, <3>5, Zenon DEF ReadUpTo
    <3>7. QED
      BY <3>6 DEF Outcome
  <2>6. QED
    BY <2>1, <2>2, <2>3, <2>4, <2>5 DEF TypesInv, TypeOK
<1>2. QED
  BY <1>1, CollectionHolds, SkillsAreServed, ReadingHolds, TypesHold, PTL
================================================================================
