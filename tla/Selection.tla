------------------------------- MODULE Selection -------------------------------
(***************************************************************************)
(* The items of a sequence at some of its places, in their order: what a   *)
(* comprehension with a condition, or a loop that skips, makes of a list;  *)
(* the least and the greatest of some numbers, and the sum of a family.    *)
(***************************************************************************)
EXTENDS Integers, SequencesExt

\* A list of what it holds.
IsList(s) == s \in Seq(ToSet(s))

\* The items at the places.
ItemsAt(items, places) ==
  LET kept[n \in 0..Len(items)] ==
        IF n = 0 THEN <<>>
        ELSE IF n \in places THEN Append(kept[n-1], items[n]) ELSE kept[n-1]
  IN kept[Len(items)]

Least(S) == CHOOSE x \in S : \A y \in S : x <= y
Greatest(S) == CHOOSE x \in S : \A y \in S : y <= x

\* A family of naturals as heaps: x stands for f[x] things.
Heaps(f) == UNION {{x} \X (1..f[x]) : x \in DOMAIN f}

\* How many there are in all: the sum of f.
Total(f) == Cardinality(Heaps(f))

=============================================================================
