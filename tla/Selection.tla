------------------------------- MODULE Selection -------------------------------
(* Some of the elements of a sequence, by their places, and the sum of its      *)
(* numbers: loops that keep or count, written as recursive functions.           *)
EXTENDS Integers, Sequences

\* The elements of a sequence at the places of S, in their order.
Chosen(seq, S) ==
  LET kept[i \in 0..Len(seq)] ==
        IF i = 0 THEN <<>>
        ELSE IF i \in S THEN Append(kept[i - 1], seq[i]) ELSE kept[i - 1]
  IN  kept[Len(seq)]

\* The sum of a sequence of numbers.
Total(v) ==
  LET sum[i \in 0..Len(v)] == IF i = 0 THEN 0 ELSE sum[i - 1] + v[i]
  IN  sum[Len(v)]
================================================================================
