--------------------------- MODULE MCAtomicStory ---------------------------
(***************************************************************************)
(* A small instance of AtomicStory.                                        *)
(***************************************************************************)
EXTENDS AtomicStory

CONSTANTS d1, d2, d3, main, alt

\* The death of a character happens once: the validator refuses it twice.
MCValid(d, s) == d = d2 => \A k \in DOMAIN s : s[k] # d2
=============================================================================
