-------------------------------- MODULE Lists --------------------------------
(***************************************************************************)
(* How the code goes through slices: it appends those elements that it     *)
(* keeps, and it sorts (sort.Slice).  These are SelectSeq and SortSeq, but *)
(* written as loops, with a set for the test and a relation for the order, *)
(* so that what they do can be proved (ListsProofs).                       *)
(***************************************************************************)
EXTENDS Naturals, Sequences, FiniteSets

\* The elements of s that are in T, in their order.
Selected(s, T) ==
    LET kept[n \in 0..Len(s)] ==
            IF n = 0 THEN <<>>
            ELSE LET x == s[n]
                 IN  IF x \in T THEN Append(kept[n - 1], x) ELSE kept[n - 1]
    IN  kept[Len(s)]

\* x put into t behind the first n elements.
InsertedAfter(t, n, x) == SubSeq(t, 1, n) \o <<x>> \o SubSeq(t, n + 1, Len(t))

\* How many elements of t come before x.
PlaceFor(t, R, x) == Cardinality({k \in 1..Len(t) : <<x, t[k]>> \notin R})

\* s sorted, where <<x, y>> \in R when x is less than y.
SortedBy(s, R) ==
    LET sorted[n \in 0..Len(s)] ==
            IF n = 0 THEN <<>>
            ELSE LET t == sorted[n - 1]
                 IN  InsertedAfter(t, PlaceFor(t, R, s[n]), s[n])
    IN  sorted[Len(s)]
=============================================================================
