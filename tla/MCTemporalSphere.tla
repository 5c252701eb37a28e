--------------------------- MODULE MCTemporalSphere ---------------------------
(***************************************************************************)
(* Instances of TemporalSphere for TLC.                                    *)
(***************************************************************************)
EXTENDS TemporalSphere

\* Both keys, the later of the alphabet first; or one of them.
MCKeyLists == {<<2, 1>>, <<1>>}

Symmetry == Permutations(Workers) \cup Permutations(Signatures)
=============================================================================
