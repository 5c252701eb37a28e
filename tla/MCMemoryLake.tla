----------------------------- MODULE MCMemoryLake -----------------------------
(***************************************************************************)
(* Instances of MemoryLake for TLC.                                        *)
(***************************************************************************)
EXTENDS MemoryLake, TLC

CONSTANTS a, b, c

\* Three texts, two of which begin with the same paragraph.
ThreeTexts == {<<a, b>>, <<a, c>>, <<c>>}

UnderTheLock == {TRUE}
Anyone == BOOLEAN

Symmetry == Permutations(Workers)
=============================================================================
