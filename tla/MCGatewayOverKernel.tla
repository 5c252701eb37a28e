------------------------- MODULE MCGatewayOverKernel -------------------------
(***************************************************************************)
(* Instances of GatewayOverKernel for TLC.                                 *)
(***************************************************************************)
EXTENDS GatewayOverKernel, TLC

Symmetry == Permutations(Commands) \cup Permutations(Workers) \cup Permutations(Hashes)

AllFaults == {"lock", "execute", "reject", "delta", "store", "commit", "marker", "derive"}

\* An exception behind the commit marker.
LateFaults == {"derive"}

NoStalls  == {}
AnyStall  == {"owner", "waiter", "claimer"}

\* The calls supply no command id: with two of them nothing tells an id that
\* both share from two.
MCInit == SystemInit /\ \A c \in Commands : asked[c].id = c

MCSpec == MCInit /\ [][SystemNext]_systemVars
=============================================================================
