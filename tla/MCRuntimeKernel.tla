--------------------------- MODULE MCRuntimeKernel ---------------------------
(***************************************************************************)
(* Instances of RuntimeKernel for TLC.  Commands, sessions and workers are *)
(* model values; the safety runs use their symmetry.                       *)
(***************************************************************************)
EXTENDS RuntimeKernelRefinement, TLC

Symmetry ==
    Permutations(Workers) \cup Permutations(Commands) \cup Permutations(Sessions)

AllFaults == {"lock", "execute", "reject", "delta", "store", "commit", "marker", "derive"}

\* An exception before the commit marker is written.
PreCommitFaults == AllFaults \ {"marker", "derive"}
=============================================================================
