--------------------------- MODULE MCHybridMemory ---------------------------
(***************************************************************************)
(* HybridMemory with two contents that share a word; the words they do not *)
(* share can be exchanged.                                                 *)
(***************************************************************************)
EXTENDS HybridMemory, TLC

CONSTANTS duel, oath, sword

MCContents == {{sword, duel}, {oath, duel}}
MCSymmetry == Permutations({sword, oath})
=============================================================================
