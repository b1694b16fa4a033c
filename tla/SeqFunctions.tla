----------------------------- MODULE SeqFunctions -----------------------------
(* Two functions of sequences that the components use, written as          *)
(* recursive functions of how much of the sequence they have seen, so that *)
(* they can be reasoned about as well as evaluated.                        *)
EXTENDS Naturals, Sequences

\* The sum of a sequence of numbers.
Sum(s) == LET upTo[n \in 0..Len(s)] == IF n = 0 THEN 0 ELSE upTo[n - 1] + s[n]
          IN  upTo[Len(s)]

\* The elements of s at the positions in a set, in their order.
Pick(s, at) ==
  LET upTo[n \in 0..Len(s)] == IF n = 0 THEN <<>>
                               ELSE IF n \in at THEN Append(upTo[n - 1], s[n])
                               ELSE upTo[n - 1]
  IN  upTo[Len(s)]

===============================================================================
