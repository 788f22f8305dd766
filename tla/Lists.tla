------------------------------- MODULE Lists -------------------------------
(***************************************************************************)
(* The list comprehensions of the code.                                    *)
(***************************************************************************)
EXTENDS Integers, Sequences

\* The members of a sequence that are in a set, in their order.
Kept(seq, keep) ==
    LET upto[n \in 0..Len(seq)] ==
            IF n = 0 THEN <<>>
            ELSE IF seq[n] \in keep THEN Append(upto[n - 1], seq[n]) ELSE upto[n - 1]
    IN  upto[Len(seq)]

\* The members of the sequences of a sequence, one after the other.
Joined(seqs) ==
    LET upto[n \in 0..Len(seqs)] == IF n = 0 THEN <<>> ELSE upto[n - 1] \o seqs[n]
    IN  upto[Len(seqs)]
=============================================================================
