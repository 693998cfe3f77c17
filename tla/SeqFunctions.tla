---------------------------- MODULE SeqFunctions ----------------------------
(***************************************************************************)
(* Two results of a run along a sequence, as recursive functions of the    *)
(* places passed, which is the form theorems can be proved about.          *)
(***************************************************************************)
EXTENDS Integers, Sequences

\* The sum of a sequence of numbers.
Total(c) == LET sum[i \in 0..Len(c)] == IF i = 0 THEN 0 ELSE sum[i - 1] + c[i]
            IN sum[Len(c)]

\* What a sequence has at the places of a set, in its order.
Picked(s, places) ==
  LET run[i \in 0..Len(s)] == IF i = 0 THEN <<>>
                              ELSE IF i \in places THEN Append(run[i - 1], s[i]) ELSE run[i - 1]
  IN run[Len(s)]
=============================================================================
