---------------------------- MODULE TemporalSphere ----------------------------
(***************************************************************************)
(* The temporal sphere of Fred-OS (temporal/temporal_sphere.py), and how   *)
(* the workers pass it on (capture_temporal_state and                      *)
(* hydrate_temporal_state of runtime/state.py).                            *)
(*                                                                         *)
(* A turn is what record_turn() takes from it: its signature and its       *)
(* commitment keys; texts, scores and uncertainty are left out.  Every     *)
(* turn runs under the runtime lock (RuntimeKernel models that), so it is  *)
(* one step here: refresh, record, commit or roll back, and the links of   *)
(* the committed shards to their sources, unless the process ends first.   *)
(* (An exception out of the links is the "derive" fault of RuntimeKernel.) *)
(***************************************************************************)
EXTENDS Integers, SequencesExt

CONSTANTS Workers,
          Signatures,     \* objectives and temporal state of a turn
          CommitmentKeys, \* numbers, which stand for strings in their order
          KeyLists,       \* what a text may commit to, in the order of its words
          Capacity,       \* working_capacity
          MicroWindow, MesoWindow, Reinforcement,
          MaxTurn         \* bound on the turns

ASSUME SphereAssumption ==
    /\ CommitmentKeys \subseteq Nat
    /\ {Capacity, MicroWindow, MesoWindow, Reinforcement} \subseteq Nat \ {0}
    /\ KeyLists \subseteq Seq(CommitmentKeys)
    /\ MaxTurn \in Nat

VARIABLES
    sphere,    \* kernel.temporal of each worker
    held,      \* current_capsule of each worker: sequence, temporal_state
    stored,    \* the latest committed capsule, as the store's JSON has it
    links,     \* the turns whose shards are in temporal_links
    unlinked,  \* how many turns committed since links were last made to the end
    down       \* the workers whose process has ended

vars == <<sphere, held, stored, links, unlinked, down>>

\* TemporalSphere.__init__().  "commitments" is a dictionary, in the order in
\* which its keys were first inserted; "evidence" is _signature_evidence.
NewSphere ==
    [turn |-> 0, working |-> <<>>, micro |-> <<>>, meso |-> <<>>, patterns |-> <<>>,
     commitments |-> <<>>, evidence |-> [g \in Signatures |-> <<>>]]

-----------------------------------------------------------------------------
(* record_turn()                                                           *)

\* Mutant: the length is compared one too high.
PromotedNever(s) ==
    IF Len(s.working) > Capacity
    THEN [s EXCEPT !.micro = Append(@, s.working[1])]
    ELSE s

\* _promote_to_contextual(): the shard that is about to leave the deque.
Promoted(s) ==
    IF Len(s.working) = Capacity
    THEN [s EXCEPT !.micro = Append(@, s.working[1])]
    ELSE s

\* Mutant: a list instead of a deque.
RememberedAll(s, shard) == [s EXCEPT !.working = Append(@, shard)]

\* deque.append(), with maxlen = Capacity.
Remembered(s, shard) ==
    [s EXCEPT !.working = LET w == Append(@, shard)
                          IN IF Len(w) > Capacity THEN Tail(w) ELSE w]

\* An assignment to a dictionary: an old key keeps its place.
Assigned(dict, key, turn) ==
    IF \E i \in DOMAIN dict : dict[i].key = key
    THEN [i \in DOMAIN dict |->
             IF dict[i].key = key THEN [key |-> key, turn |-> turn] ELSE dict[i]]
    ELSE Append(dict, [key |-> key, turn |-> turn])

\* The commitments of a shard, in the order of its words.
Assignments(dict, shard) ==
    FoldLeft(LAMBDA d, key : Assigned(d, key, shard.turn), dict, shard.keys)

Committed(s, shard) == [s EXCEPT !.commitments = Assignments(@, shard)]

\* Mutant: the evidence is compared with "less than".
ObservedAgain(s, shard) ==
    LET seen == Append(s.evidence[shard.signature], shard.turn)
        t == [s EXCEPT !.evidence[shard.signature] = seen]
    IN IF Len(seen) < Reinforcement THEN t
       ELSE [t EXCEPT !.patterns =
                Append(@, [signature |-> shard.signature, turns |-> seen])]

\* _observe_pattern()
Observed(s, shard) ==
    LET seen == Append(s.evidence[shard.signature], shard.turn)
        t == [s EXCEPT !.evidence[shard.signature] = seen]
    IN IF Len(seen) # Reinforcement THEN t
       ELSE [t EXCEPT !.patterns =
                Append(@, [signature |-> shard.signature, turns |-> seen])]

LastOf(n, seq) == SubSeq(seq, Max({1, Len(seq) - n + 1}), Len(seq))

\* Mutant: the window is taken at the front.
CompressedFront(s) ==
    IF Len(s.micro) < MicroWindow THEN s
    ELSE LET window == SubSeq(s.micro, 1, MicroWindow)
             segment == [turns |-> [i \in DOMAIN window |-> window[i].turn],
                         keys |-> UNION {Range(window[i].keys) : i \in DOMAIN window}]
         IN [s EXCEPT !.meso = LastOf(3 * MesoWindow, Append(@, segment))]

\* _maybe_promote_micro_to_meso(): a window over the last micro segments.
Compressed(s) ==
    IF Len(s.micro) < MicroWindow THEN s
    ELSE LET window == LastOf(MicroWindow, s.micro)
             segment == [turns |-> [i \in DOMAIN window |-> window[i].turn],
                         keys |-> UNION {Range(window[i].keys) : i \in DOMAIN window}]
         IN [s EXCEPT !.meso = LastOf(3 * MesoWindow, Append(@, segment))]

RecordTurn(s, signature, keys) ==
    LET shard == [turn |-> s.turn + 1, signature |-> signature, keys |-> keys]
        t == [s EXCEPT !.turn = @ + 1]
    IN Compressed(Observed(Committed(Remembered(Promoted(t), shard), shard), shard))

-----------------------------------------------------------------------------
(* Capsules.                                                               *)

\* Mutant: snapshot() alone, without the private state.
CapturePublic(s) ==
    [current_turn |-> s.turn, working_memory |-> s.working,
     micro_segments |-> s.micro, meso_segments |-> s.meso,
     episodic_patterns |-> s.patterns, commitments |-> s.commitments,
     signature_evidence |-> <<>>]

\* capture_temporal_state()
Capture(s) ==
    [current_turn |-> s.turn, working_memory |-> s.working,
     micro_segments |-> s.micro, meso_segments |-> s.meso,
     episodic_patterns |-> s.patterns, commitments |-> s.commitments,
     signature_evidence |-> Restrict(s.evidence, {g \in Signatures : s.evidence[g] # <<>>})]

\* The one list of the entries of a dictionary in the order of their keys.
InKeyOrder(dict) ==
    {list \in [DOMAIN dict -> Range(dict)] :
        /\ Range(list) = Range(dict)
        /\ \A i, j \in DOMAIN list : i < j => list[i].key < list[j].key}

\* StateStore.append() sorts the keys of every dictionary.
Stored(state) ==
    {[state EXCEPT !.commitments = list] : list \in InKeyOrder(state.commitments)}

\* The turns of the shards with this signature.
TurnsWith(shards, g) ==
    LET own == SelectSeq(shards, LAMBDA shard : shard.signature = g)
    IN [i \in DOMAIN own |-> own[i].turn]

\* Without evidence, it is rebuilt from the shards of the working memory.
Evidence(state) ==
    IF DOMAIN state.signature_evidence # {} THEN state.signature_evidence
    ELSE LET shards == state.working_memory
         IN [g \in {shards[i].signature : i \in DOMAIN shards} |-> TurnsWith(shards, g)]

\* hydrate_temporal_state(): the deque keeps its last elements.
Hydrate(state) ==
    [turn |-> state.current_turn, working |-> LastOf(Capacity, state.working_memory),
     micro |-> state.micro_segments, meso |-> state.meso_segments,
     patterns |-> state.episodic_patterns, commitments |-> state.commitments,
     evidence |-> [g \in Signatures |-> IF g \in DOMAIN Evidence(state)
                                         THEN Evidence(state)[g] ELSE <<>>]]

Init ==
    /\ stored \in [sequence : {0}, state : Stored(Capture(NewSphere))]
    /\ held = [w \in Workers |-> [sequence |-> 0, state |-> Capture(NewSphere)]]
    /\ sphere = [w \in Workers |-> NewSphere]
    /\ links = {}
    /\ unlinked = 0
    /\ down = {}

-----------------------------------------------------------------------------
(* The workers.                                                            *)

\* _refresh_authoritative_state_locked()
Fresh(w) == held[w].sequence = stored.sequence

RefreshedSphere(w) == IF Fresh(w) THEN sphere[w] ELSE Hydrate(stored.state)

RefreshedCapsule(w) == IF Fresh(w) THEN held[w] ELSE stored

\* Mutant: only the newest shard is linked.
LinksOfNewest(capsule, n) ==
    LET shards == capsule.state.working_memory
    IN links \cup {shards[i].turn : i \in (1..n) \cap {Len(shards)}}

\* reconcile_committed_derivations(), as far as the n-th shard of the working
\* memory: every link is a transaction of its own.
LinksOf(capsule, n) ==
    links \cup {capsule.state.working_memory[i].turn : i \in 1..n}

Shards(capsule) == Len(capsule.state.working_memory)

\* The links of a capsule are made.
Linked(capsule) ==
    /\ links' = LinksOf(capsule, Shards(capsule))
    /\ unlinked' = 0

\* What a running worker has in memory.
Keeps(w, memories, capsule) ==
    /\ sphere' = [sphere EXCEPT ![w] = memories]
    /\ held' = [held EXCEPT ![w] = capsule]
    /\ down' = down \ {w}

\* A process ends before it has made all the links of a capsule.
CutOff(w, capsule, turns) ==
    /\ sphere' = [sphere EXCEPT ![w] = NewSphere]
    /\ held' = [held EXCEPT ![w] = [sequence |-> 0, state |-> Capture(NewSphere)]]
    /\ \E n \in 0..Shards(capsule) - 1 : links' = LinksOf(capsule, n)
    /\ unlinked' = unlinked + turns
    /\ down' = down \cup {w}

\* A turn that commits: the worker keeps the capsule it made.
Turn(w, signature, keys) ==
    /\ w \notin down
    /\ stored.sequence < MaxTurn
    /\ LET after == RecordTurn(RefreshedSphere(w), signature, keys)
           capsule == [sequence |-> stored.sequence + 1, state |-> Capture(after)]
       IN /\ \E state \in Stored(capsule.state) :
                stored' = [capsule EXCEPT !.state = state]
          /\ \/ /\ Keeps(w, after, capsule)
                /\ Linked(capsule)
             \/ CutOff(w, capsule, 1)

\* A turn that fails after record_turn(): back to the capsule it began with.
FailedTurn(w) ==
    /\ w \notin down
    /\ Keeps(w, Hydrate(RefreshedCapsule(w).state), RefreshedCapsule(w))
    /\ UNCHANGED <<stored, links, unlinked>>

\* boot(), also of a process that has ended.
Restart(w) ==
    /\ \/ /\ Keeps(w, Hydrate(stored.state), stored)
          /\ Linked(stored)
       \/ CutOff(w, stored, 0)
    /\ UNCHANGED stored

Next ==
    \E w \in Workers :
        \/ \E g \in Signatures, keys \in KeyLists : Turn(w, g, keys)
        \/ FailedTurn(w)
        \/ Restart(w)

Spec == Init /\ [][Next]_vars

-----------------------------------------------------------------------------
(* Properties.                                                             *)

Live == {w \in Workers \ down : Fresh(w)}

\* The shards a sphere has, in the order of their turns.
Remembers(s) == s.micro \o s.working

(* Every memory has its type, and the working memory its capacity.         *)
TypeOK ==
    /\ stored.sequence \in 0..MaxTurn
    /\ \A w \in Workers :
          /\ held[w].sequence \in 0..stored.sequence
          /\ sphere[w].turn \in 0..MaxTurn
          /\ Len(sphere[w].working) <= Capacity
          /\ Len(sphere[w].meso) <= 3 * MesoWindow

(* A worker that carries on and a worker that restarts from the same       *)
(* capsule have the same memories, evidence and commitments, up to the     *)
(* order of the commitments.                                               *)
RestartKeepsMemories ==
    \A w \in Live :
        LET restarted == Hydrate(stored.state)
        IN /\ [sphere[w] EXCEPT !.commitments = <<>>] =
                  [restarted EXCEPT !.commitments = <<>>]
           /\ Range(sphere[w].commitments) = Range(restarted.commitments)

(* No turn is forgotten and none is remembered twice: the working memory   *)
(* and the micro segments hold every turn once, in order, across all       *)
(* workers, failures and restarts.                                         *)
TurnsRemembered ==
    \A w \in Workers :
        LET all == Remembers(sphere[w])
        IN /\ Len(all) = sphere[w].turn
           /\ \A i \in DOMAIN all : all[i].turn = i

\* The turns that come first among these, in their order.
AreFirst(turns, n, among) ==
    /\ turns \in Seq(among) /\ Len(turns) = n
    /\ \A i, j \in 1..n : i < j => turns[i] < turns[j]
    /\ \A t \in among : t \in Range(turns) \/ t > turns[n]

(* A pattern is promoted once, exactly when its signature has come         *)
(* Reinforcement times, with the turns that were the evidence.             *)
PatternsOnce ==
    \A w \in Workers : \A g \in Signatures :
        LET s == sphere[w]
            all == Remembers(s)
            turns == {i \in DOMAIN all : all[i].signature = g}
            promoted == {k \in DOMAIN s.patterns : s.patterns[k].signature = g}
        IN IF Cardinality(turns) < Reinforcement THEN promoted = {}
           ELSE \E k \in promoted :
                    /\ promoted = {k}
                    /\ AreFirst(s.patterns[k].turns, Reinforcement, turns)

(* A shard has its links before it leaves the working memory, from which   *)
(* they are made, unless as many turns in a row as that memory holds were  *)
(* cut off before their links; whoever comes next makes up for fewer.      *)
LinksBeforeForgotten ==
    [][\A shard \in Range(stored.state.working_memory) :
          \/ shard \in Range(stored'.state.working_memory)
          \/ shard.turn \in links'
          \/ unlinked >= Capacity]_vars

(* The meso segments are consecutive windows over the micro segments, up   *)
(* to the newest one.                                                      *)
MesoSlides ==
    \A w \in Workers :
        LET s == sphere[w]
        IN \A i \in DOMAIN s.meso : \A j \in 1..MicroWindow :
              s.meso[i].turns[j] = Len(s.micro) - (Len(s.meso) - i) - (MicroWindow - j)
=============================================================================
