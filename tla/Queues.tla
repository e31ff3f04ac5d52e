------------------------------- MODULE Queues -------------------------------
(***************************************************************************)
(* Operations on the queues of the program that the standard modules do    *)
(* not have.                                                               *)
(***************************************************************************)
EXTENDS Integers, Sequences

\* std::erase_if: the sequence without the elements of a set, in order.  The
\* n-th element of Erasure is what is left of the first n.
Erasure(seq, gone) ==
  LET left[n \in 0..Len(seq)] ==
        IF n = 0 THEN <<>>
        ELSE IF seq[n] \in gone THEN left[n - 1]
        ELSE Append(left[n - 1], seq[n])
  IN left

Without(seq, gone) == Erasure(seq, gone)[Len(seq)]
=============================================================================
