-------------------------------- MODULE Selection --------------------------------
(***************************************************************************)
(* The elements of a sequence at chosen positions, as the comprehensions   *)
(* of the code keep them, and the elements of a set in a given order, as   *)
(* its sorts leave them.  SelectSeq and SortSeq would do as well, if the   *)
(* provers knew more of them than their names.                             *)
(***************************************************************************)
EXTENDS Naturals, Sequences, FiniteSets

\* The elements of s at the positions in I, in their order.
Picked(s, I) ==
  LET upTo[n \in 0..Len(s)] ==
        IF n = 0 THEN <<>>
        ELSE IF n \in I THEN Append(upTo[n - 1], s[n]) ELSE upTo[n - 1]
  IN upTo[Len(s)]

\* The elements of the domain of before in order: before[p] are those that come
\* before p, so their number is its rank.
Arranged(before) ==
  [k \in 1..Cardinality(DOMAIN before) |->
     CHOOSE p \in DOMAIN before : Cardinality(before[p]) = k - 1]
================================================================================
