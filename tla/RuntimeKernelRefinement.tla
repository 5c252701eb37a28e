----------------------- MODULE RuntimeKernelRefinement -----------------------
(***************************************************************************)
(* The workers of RuntimeKernel implement one Ledger: its history is the   *)
(* list of capsules the commit markers of the journal name, in file order. *)
(***************************************************************************)
EXTENDS RuntimeKernel, FiniteSets

\* How many of these positions come up to i.
Rank(positions, i) == Cardinality({k \in positions : k <= i})

\* The n-th of these positions.
Nth(positions, n) == CHOOSE i \in positions : Rank(positions, i) = n

CommitHistory ==
    LET markers == CommitPositions(journal)
    IN  [n \in 1..Cardinality(markers) |-> journal[Nth(markers, n)].capsule]

ledger == INSTANCE Ledger WITH history <- CommitHistory

(* Every step of every worker is invisible to the ledger, creates it, or   *)
(* adds exactly one command to it.                                         *)
ImplementsLedger == ledger!Spec
=============================================================================
