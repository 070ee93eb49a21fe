------------------------------- MODULE Lists --------------------------------
(***************************************************************************)
(* Operators on lists that the book's modules share, without the library   *)
(* of sequence operators, so that the proofs about the books stay light.   *)
(***************************************************************************)
EXTENDS Integers, Sequences

\* The list without its k-th element.
Erased(s, k) == [i \in 1..(Len(s) - 1) |-> IF i < k THEN s[i] ELSE s[i + 1]]

\* The sum of a list of numbers.
ListSum(s) ==
    LET sum[i \in 0..Len(s)] == IF i = 0 THEN 0 ELSE sum[i - 1] + s[i]
    IN  sum[Len(s)]

=============================================================================
