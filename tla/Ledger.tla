------------------------------- MODULE Ledger -------------------------------
(***************************************************************************)
(* What the transactional runtime promises, without workers, files or      *)
(* locks: one history of committed capsules.  It starts with the genesis   *)
(* of a session and grows by one capsule at a time, the child of the last  *)
(* one, that remembers every turn before it and the turn of its command; a *)
(* command commits at most once.                                           *)
(***************************************************************************)
EXTENDS DurableState

VARIABLE history

Init == history = << >>

Last == history[Len(history)]

Start == /\ history = << >>
         /\ \E s \in Sessions : history' = <<Genesis(s)>>

Commit(c) ==
    /\ history # << >>
    /\ \A i \in DOMAIN history : history[i].id # c
    /\ history' = Append(history,
                         NextCapsule(Last, c, Append(Last.temporal, c)))

Next == Start \/ \E c \in Commands : Commit(c)

Spec == Init /\ [][Next]_history
=============================================================================
