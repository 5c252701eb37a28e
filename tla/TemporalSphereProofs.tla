------------------------- MODULE TemporalSphereProofs -------------------------
(***************************************************************************)
(* TLAPS proofs about TemporalSphere, for any number of workers and        *)
(* signatures and for all sizes of its memories: no turn is lost or        *)
(* remembered twice, patterns are promoted once, the meso segments slide,  *)
(* shards are linked before they are forgotten, and a restart keeps        *)
(* everything but the order of the commitments.                            *)
(*                                                                         *)
(* Whole says what is true of one sphere by itself; record_turn() keeps    *)
(* it (RecordTurnWhole), and a capsule and hydrate_temporal_state() give   *)
(* back a sphere that is Alike (HydrateAlike).  SphereInv says it of every *)
(* worker and of the store, LinkInv of the links.                          *)
(***************************************************************************)
EXTENDS TemporalSphere, FiniteSetTheorems, SequenceTheorems, TLAPS

-----------------------------------------------------------------------------
(* What holds of one sphere.                                               *)

Shard == [turn : Nat, signature : Signatures, keys : KeyLists]
Segment == [turns : Seq(Nat), keys : SUBSET CommitmentKeys]
Pattern == [signature : Signatures, turns : Seq(Nat)]

\* The fields of a sphere; its commitments are left open.
IsSphere(s) ==
    /\ s = [turn |-> s.turn, working |-> s.working, micro |-> s.micro, meso |-> s.meso,
            patterns |-> s.patterns, commitments |-> s.commitments,
            evidence |-> s.evidence]
    /\ s.turn \in Nat
    /\ s.working \in Seq(Shard) /\ s.micro \in Seq(Shard)
    /\ s.meso \in Seq(Segment) /\ s.patterns \in Seq(Pattern)
    /\ s.evidence \in [Signatures -> Seq(Nat)]

\* The working memory overflows into the micro segments, which hold the
\* turns before it.
MemoryWhole(s) ==
    /\ Len(s.working) <= Capacity
    /\ s.micro # <<>> => Len(s.working) = Capacity
    /\ Len(Remembers(s)) = s.turn
    /\ \A i \in DOMAIN Remembers(s) : Remembers(s)[i].turn = i

\* The turns of a signature, among these shards.
TurnsOf(all, g) == {i \in DOMAIN all : all[i].signature = g}

\* A list of these turns, in their order.
IsEvidence(seen, turns) ==
    /\ \A i, j \in DOMAIN seen : i < j => seen[i] < seen[j]
    /\ \A i \in DOMAIN seen : seen[i] \in turns
    /\ \A t \in turns : \E i \in DOMAIN seen : seen[i] = t
    /\ IsFiniteSet(turns) /\ Cardinality(turns) = Len(seen)

EvidenceTrue(s) ==
    \A g \in Signatures : IsEvidence(s.evidence[g], TurnsOf(Remembers(s), g))

\* The one pattern of a signature has the first turns of its evidence.
PatternsFor(patterns, g) == {k \in DOMAIN patterns : patterns[k].signature = g}

HasFirst(pattern, seen) ==
    /\ Len(pattern.turns) = Reinforcement
    /\ \A i \in 1..Reinforcement : pattern.turns[i] = seen[i]

IsPromoted(patterns, g, seen) ==
    IF Len(seen) < Reinforcement THEN PatternsFor(patterns, g) = {}
    ELSE \E k \in DOMAIN patterns :
            PatternsFor(patterns, g) = {k} /\ HasFirst(patterns[k], seen)

PatternsTrue(s) ==
    \A g \in Signatures : IsPromoted(s.patterns, g, s.evidence[g])

\* MesoSlides, of this sphere.
MesoTrue(s) ==
    /\ Len(s.micro) < MicroWindow => s.meso = <<>>
    /\ Len(s.meso) <= 3 * MesoWindow
    /\ \A i \in DOMAIN s.meso : \A j \in 1..MicroWindow :
          s.meso[i].turns[j] = Len(s.micro) - (Len(s.meso) - i) - (MicroWindow - j)

\* Nobody has committed to anything before the first turn.
NothingPromised(s) == s.turn = 0 => Range(s.commitments) = {}

Whole(s) ==
    /\ IsSphere(s) /\ MemoryWhole(s)
    /\ EvidenceTrue(s) /\ PatternsTrue(s) /\ MesoTrue(s)
    /\ NothingPromised(s)

-----------------------------------------------------------------------------
(* Sequences.                                                              *)

LEMMA Parameters ==
    /\ Capacity \in Nat \ {0} /\ MicroWindow \in Nat \ {0}
    /\ MesoWindow \in Nat \ {0} /\ Reinforcement \in Nat \ {0}
  BY SphereAssumption

IsLastOf(last, seq) ==
    /\ Len(last) <= Len(seq)
    /\ \A i \in 1..Len(last) : last[i] = seq[Len(seq) - Len(last) + i]

(* The last n elements of a sequence.                                      *)
LEMMA LastOfFacts ==
    ASSUME NEW S, NEW seq \in Seq(S), NEW n \in Nat \ {0}
    PROVE  /\ LastOf(n, seq) \in Seq(S)
           /\ Len(LastOf(n, seq)) = IF Len(seq) <= n THEN Len(seq) ELSE n
           /\ IsLastOf(LastOf(n, seq), seq)
           /\ Len(seq) <= n => LastOf(n, seq) = seq
  <1> DEFINE from == Max({1, Len(seq) - n + 1})
  <1>1. Len(seq) \in Nat /\ DOMAIN seq = 1..Len(seq)
    OBVIOUS
  <1>2. from = IF Len(seq) <= n THEN 1 ELSE Len(seq) - n + 1
    <2>1. ASSUME NEW a \in Int, NEW b \in Int, a >= b
          PROVE  Max({a, b}) = a /\ Max({b, a}) = a
      BY <2>1 DEF Max
    <2>2. CASE Len(seq) <= n
      BY <1>1, <2>1, <2>2
    <2>3. CASE Len(seq) > n
      BY <1>1, <2>1, <2>3
    <2> QED BY <1>1, <2>2, <2>3
  <1> HIDE DEF from
  <1>3. LastOf(n, seq) = SubSeq(seq, from, Len(seq))
    BY DEF LastOf, from
  <1>4. from \in Int /\ Len(seq) \in Int /\ \A i \in from..Len(seq) : seq[i] \in S
    BY <1>1, <1>2
  <1>5. /\ SubSeq(seq, from, Len(seq)) \in Seq(S)
        /\ Len(SubSeq(seq, from, Len(seq))) = IF from <= Len(seq) THEN Len(seq) - from + 1 ELSE 0
        /\ \A i \in 1..(Len(seq) - from + 1) :
              SubSeq(seq, from, Len(seq))[i] = seq[from + i - 1]
    BY ONLY <1>4, SubSeqProperties
  <1>6. CASE Len(seq) <= n
    <2>1. SubSeq(seq, 1, Len(seq)) = seq
      BY SubSeqFull
    <2>2. from = 1
      BY <1>2, <1>6
    <2>3. LastOf(n, seq) = seq
      BY <1>3, <2>1, <2>2
    <2> QED BY <1>1, <1>6, <2>3 DEF IsLastOf
  <1>7. CASE Len(seq) > n
    <2>1. Len(LastOf(n, seq)) = n /\ from = Len(seq) - n + 1
      BY <1>1, <1>2, <1>3, <1>5, <1>7
    <2>2. \A i \in 1..n : LastOf(n, seq)[i] = seq[Len(seq) - n + i]
      BY <1>1, <1>2, <1>3, <1>5, <1>7
    <2> QED BY <1>1, <1>3, <1>5, <1>7, <2>1, <2>2 DEF IsLastOf
  <1> QED BY <1>1, <1>6, <1>7

(* Two sequences, one after the other.                                     *)
LEMMA ConcatFacts ==
    ASSUME NEW S, NEW a \in Seq(S), NEW b \in Seq(S)
    PROVE  /\ a \o b \in Seq(S)
           /\ Len(a \o b) = Len(a) + Len(b)
           /\ DOMAIN (a \o b) = 1..(Len(a) + Len(b))
           /\ Len(a) \in Nat /\ Len(b) \in Nat
           /\ \A i \in 1..Len(a) : (a \o b)[i] = a[i]
           /\ \A i \in 1..Len(b) : (a \o b)[Len(a) + i] = b[i]
  OBVIOUS

(* Two sequences of one length with the same elements are one.             *)
LEMMA SameSeq ==
    ASSUME NEW S, NEW a \in Seq(S), NEW b \in Seq(S), Len(a) = Len(b),
           \A i \in 1..Len(a) : a[i] = b[i]
    PROVE  a = b
  OBVIOUS

-----------------------------------------------------------------------------
(* record_turn()                                                           *)

\* The window that ends with the last of these micro segments.
Window(micro) ==
    LET window == LastOf(MicroWindow, micro)
    IN [turns |-> [i \in DOMAIN window |-> window[i].turn],
        keys |-> UNION {Range(window[i].keys) : i \in DOMAIN window}]

\* The shard of a turn, the working memory and the evidence with it.
NewShard(s, g, keys) == [turn |-> s.turn + 1, signature |-> g, keys |-> keys]

Longer(s, g, keys) == Append(s.working, NewShard(s, g, keys))

Seen(s, g) == Append(s.evidence[g], s.turn + 1)

\* r is what record_turn() makes of s, each memory from those before.
IsNext(s, g, keys, r) ==
    /\ r = [turn |-> r.turn, working |-> r.working, micro |-> r.micro,
            meso |-> r.meso, patterns |-> r.patterns,
            commitments |-> r.commitments, evidence |-> r.evidence]
    /\ r.turn = s.turn + 1
    /\ r.working = IF Len(Longer(s, g, keys)) > Capacity
                   THEN Tail(Longer(s, g, keys)) ELSE Longer(s, g, keys)
    /\ r.micro = IF Len(s.working) = Capacity
                 THEN Append(s.micro, s.working[1]) ELSE s.micro
    /\ r.meso = IF Len(r.micro) < MicroWindow THEN s.meso
                ELSE LastOf(3 * MesoWindow, Append(s.meso, Window(r.micro)))
    /\ r.patterns = IF Len(Seen(s, g)) # Reinforcement THEN s.patterns
                    ELSE Append(s.patterns, [signature |-> g, turns |-> Seen(s, g)])
    /\ r.commitments = Assignments(s.commitments, NewShard(s, g, keys))
    /\ r.evidence = [s.evidence EXCEPT ![g] = Seen(s, g)]

(* record_turn(), step by step.                                            *)
LEMMA RecordTurnFields ==
    ASSUME NEW s, IsSphere(s), NEW g \in Signatures, NEW keys \in KeyLists
    PROVE  IsNext(s, g, keys, RecordTurn(s, g, keys))
  <1>r. PICK r : r = RecordTurn(s, g, keys)
    OBVIOUS
  <1>n. PICK shard : shard = NewShard(s, g, keys)
    OBVIOUS
  <1>m. shard = [turn |-> s.turn + 1, signature |-> g, keys |-> keys]
    BY <1>n DEF NewShard
  <1>o. PICK seen : seen = Seen(s, g)
    OBVIOUS
  <1>p. seen = Append(s.evidence[g], s.turn + 1)
    BY <1>o DEF Seen
  <1> DEFINE working == IF Len(Append(s.working, shard)) > Capacity
                        THEN Tail(Append(s.working, shard)) ELSE Append(s.working, shard)
             micro == IF Len(s.working) = Capacity
                      THEN Append(s.micro, s.working[1]) ELSE s.micro
             patterns == IF Len(seen) # Reinforcement THEN s.patterns
                         ELSE Append(s.patterns, [signature |-> g, turns |-> seen])
             commitments == Assignments(s.commitments, shard)
             evidence == [s.evidence EXCEPT ![g] = seen]
             s1 == [s EXCEPT !.turn = @ + 1]
             s2 == Promoted(s1)
             s3 == Remembered(s2, shard)
             s4 == Committed(s3, shard)
             s5 == Observed(s4, shard)
             s6 == Compressed(s5)
  <1>s. s = [turn |-> s.turn, working |-> s.working, micro |-> s.micro, meso |-> s.meso,
             patterns |-> s.patterns, commitments |-> s.commitments,
             evidence |-> s.evidence]
    BY DEF IsSphere
  <1>1. s1 = [turn |-> s.turn + 1, working |-> s.working, micro |-> s.micro,
              meso |-> s.meso, patterns |-> s.patterns, commitments |-> s.commitments,
              evidence |-> s.evidence]
    BY <1>s
  <1> HIDE DEF s1
  <1>2. s2 = [turn |-> s.turn + 1, working |-> s.working, micro |-> micro,
              meso |-> s.meso, patterns |-> s.patterns, commitments |-> s.commitments,
              evidence |-> s.evidence]
    BY <1>1 DEF Promoted
  <1> HIDE DEF s2, micro
  <1>3. s3 = [turn |-> s.turn + 1, working |-> working, micro |-> micro,
              meso |-> s.meso, patterns |-> s.patterns, commitments |-> s.commitments,
              evidence |-> s.evidence]
    <2>1. s2.working = s.working
      BY <1>2
    <2>2. s3 = [s2 EXCEPT !.working = working]
      BY <2>1 DEF Remembered
    <2> HIDE DEF s3, working
    <2> QED BY <1>2, <2>2
  <1> HIDE DEF s3, working
  <1>4. s4 = [turn |-> s.turn + 1, working |-> working, micro |-> micro,
              meso |-> s.meso, patterns |-> s.patterns, commitments |-> commitments,
              evidence |-> s.evidence]
    BY <1>3 DEF Committed
  <1> HIDE DEF s4, commitments
  <1>5. s5 = [turn |-> s.turn + 1, working |-> working, micro |-> micro,
              meso |-> s.meso, patterns |-> patterns, commitments |-> commitments,
              evidence |-> evidence]
    <2>1. shard.signature = g /\ shard.turn = s.turn + 1
      BY <1>m
    <2>2. [s4 EXCEPT !.evidence[shard.signature] = seen] =
             [turn |-> s.turn + 1, working |-> working, micro |-> micro,
              meso |-> s.meso, patterns |-> s.patterns, commitments |-> commitments,
              evidence |-> evidence]
      <3>1. s4.evidence = s.evidence
        BY <1>4
      <3>2. [s4.evidence EXCEPT ![shard.signature] = seen] = evidence
        BY <2>1, <3>1
      <3>3. [s4 EXCEPT !.evidence = evidence] =
               [turn |-> s.turn + 1, working |-> working, micro |-> micro,
                meso |-> s.meso, patterns |-> s.patterns, commitments |-> commitments,
                evidence |-> evidence]
        <4> HIDE DEF evidence
        <4> QED BY <1>4
      <3> HIDE DEF evidence
      <3> QED BY <3>2, <3>3
    <2>3. Append(s4.evidence[shard.signature], shard.turn) = seen
      BY <1>4, <1>p, <2>1
    <2> HIDE DEF evidence
    <2> QED BY <2>1, <2>2, <2>3 DEF Observed
  <1> HIDE DEF s5, patterns, evidence
  <1>6. s6 = [turn |-> s.turn + 1, working |-> working, micro |-> micro,
              meso |-> IF Len(micro) < MicroWindow THEN s.meso
                       ELSE LastOf(3 * MesoWindow, Append(s.meso, Window(micro))),
              patterns |-> patterns, commitments |-> commitments,
              evidence |-> evidence]
    <2>1. CASE Len(micro) < MicroWindow
      BY <1>5, <2>1 DEF Compressed
    <2>2. CASE ~(Len(micro) < MicroWindow)
      <3>1. s6 = [s5 EXCEPT !.meso = LastOf(3 * MesoWindow, Append(@, Window(micro)))]
        BY <1>5, <2>2 DEF Compressed, Window
      <3> QED BY <1>5, <2>2, <3>1
    <2> QED BY <2>1, <2>2
  <1>7. r = s6
    BY <1>r, <1>m DEF RecordTurn, s1, s2, s3, s4, s5
  <1> HIDE DEF s6
  <1>8. /\ r.turn = s.turn + 1 /\ r.working = working /\ r.micro = micro
        /\ r.meso = IF Len(r.micro) < MicroWindow THEN s.meso
                    ELSE LastOf(3 * MesoWindow, Append(s.meso, Window(r.micro)))
        /\ r.patterns = patterns /\ r.commitments = commitments
        /\ r.evidence = evidence
        /\ r = [turn |-> r.turn, working |-> r.working, micro |-> r.micro,
                meso |-> r.meso, patterns |-> r.patterns,
                commitments |-> r.commitments, evidence |-> r.evidence]
    BY <1>6, <1>7
  <1> QED BY <1>r, <1>n, <1>o, <1>8 DEF IsNext, Longer, working, micro, patterns, commitments, evidence

(* The shards of a sphere, the micro segments before the working memory.   *)
LEMMA RemembersFacts ==
    ASSUME NEW s, s.micro \in Seq(Shard), s.working \in Seq(Shard)
    PROVE  /\ Remembers(s) \in Seq(Shard)
           /\ Len(Remembers(s)) = Len(s.micro) + Len(s.working)
           /\ DOMAIN Remembers(s) = 1..(Len(s.micro) + Len(s.working))
           /\ \A i \in 1..Len(s.micro) : Remembers(s)[i] = s.micro[i]
           /\ \A i \in 1..Len(s.working) :
                 Remembers(s)[Len(s.micro) + i] = s.working[i]
  <1>1. PICK a \in Seq(Shard) : a = s.micro
    OBVIOUS
  <1>2. PICK b \in Seq(Shard) : b = s.working
    OBVIOUS
  <1>3. PICK all : all = a \o b
    OBVIOUS
  <1>4. /\ all \in Seq(Shard) /\ Len(all) = Len(a) + Len(b)
        /\ DOMAIN all = 1..(Len(a) + Len(b))
        /\ \A i \in 1..Len(a) : all[i] = a[i]
        /\ \A i \in 1..Len(b) : all[Len(a) + i] = b[i]
    BY <1>3
  <1>5. Remembers(s) = all
    BY <1>1, <1>2, <1>3 DEF Remembers
  <1> QED BY <1>1, <1>2, <1>4, <1>5

(* The first element goes over to the other sequence.                      *)
ShiftedFront(a, b) == Append(a, b[1])

ShiftedBack(b, x) == Tail(Append(b, x))

JoinedWith(a, b, x) == Append(a \o b, x)

LEMMA Shift ==
    ASSUME NEW S, NEW a \in Seq(S), NEW b \in Seq(S), b # <<>>, NEW x \in S
    PROVE  /\ ShiftedFront(a, b) \in Seq(S) /\ ShiftedBack(b, x) \in Seq(S)
           /\ Len(ShiftedFront(a, b)) = Len(a) + 1
           /\ Len(ShiftedBack(b, x)) = Len(b)
           /\ ShiftedFront(a, b) \o ShiftedBack(b, x) = JoinedWith(a, b, x)
  <1> DEFINE front == Append(a, b[1])
             back == Tail(Append(b, x))
  <1>1. /\ Len(a) \in Nat /\ Len(b) \in Nat /\ Len(b) > 0
        /\ DOMAIN a = 1..Len(a) /\ DOMAIN b = 1..Len(b)
    OBVIOUS
  <1>2. /\ front \in Seq(S) /\ Len(front) = Len(a) + 1 /\ front[Len(a) + 1] = b[1]
        /\ \A i \in 1..Len(a) : front[i] = a[i]
    BY <1>1
  <1>3. /\ Append(b, x) \in Seq(S) /\ Len(Append(b, x)) = Len(b) + 1
        /\ Append(b, x)[Len(b) + 1] = x /\ \A i \in 1..Len(b) : Append(b, x)[i] = b[i]
    BY <1>1
  <1>4. /\ back \in Seq(S) /\ Len(back) = Len(b)
        /\ \A i \in 1..Len(b) : back[i] = Append(b, x)[i + 1]
    <2>1. Append(b, x) # <<>>
      BY <1>1, <1>3
    <2> QED BY <1>1, <1>3, <2>1, HeadTailProperties
  <1>5. /\ a \o b \in Seq(S) /\ Len(a \o b) = Len(a) + Len(b)
        /\ \A i \in 1..Len(a) : (a \o b)[i] = a[i]
        /\ \A i \in 1..Len(b) : (a \o b)[Len(a) + i] = b[i]
    BY ConcatFacts
  <1>6. /\ Append(a \o b, x) \in Seq(S)
        /\ Len(Append(a \o b, x)) = Len(a) + Len(b) + 1
        /\ Append(a \o b, x)[Len(a) + Len(b) + 1] = x
        /\ \A i \in 1..(Len(a) + Len(b)) : Append(a \o b, x)[i] = (a \o b)[i]
    BY <1>1, <1>5
  <1> HIDE DEF front, back
  <1>7. /\ front \o back \in Seq(S) /\ Len(front \o back) = Len(a) + 1 + Len(b)
        /\ \A i \in 1..(Len(a) + 1) : (front \o back)[i] = front[i]
        /\ \A i \in 1..Len(b) : (front \o back)[Len(a) + 1 + i] = back[i]
    <2>1. front \in Seq(S) /\ back \in Seq(S)
      BY <1>2, <1>4
    <2>2. /\ front \o back \in Seq(S) /\ Len(front \o back) = Len(front) + Len(back)
          /\ \A i \in 1..Len(front) : (front \o back)[i] = front[i]
          /\ \A i \in 1..Len(back) : (front \o back)[Len(front) + i] = back[i]
      BY ONLY <2>1, ConcatFacts
    <2> QED BY <1>2, <1>4, <2>2
  <1>p. PICK p : p = front \o back
    OBVIOUS
  <1>q. PICK q : q = Append(a \o b, x)
    OBVIOUS
  <1>ab. PICK ab : ab = a \o b
    OBVIOUS
  <1>bx. PICK bx : bx = Append(b, x)
    OBVIOUS
  <1>m. PICK m \in Nat : m = Len(a)
    BY <1>1
  <1>n. PICK n \in Nat \ {0} : n = Len(b)
    <2>1. Len(b) \in Nat \ {0}
      BY <1>1
    <2> QED BY <2>1
  <1>f. \A i \in 1..m : p[i] = a[i]
    BY <1>2, <1>7, <1>p, <1>m
  <1>g. p[m + 1] = b[1]
    BY <1>2, <1>7, <1>p, <1>m
  <1>h. \A i \in 1..n : p[m + 1 + i] = bx[i + 1]
    BY <1>4, <1>7, <1>p, <1>m, <1>n, <1>bx
  <1>i. bx[n + 1] = x /\ \A i \in 1..n : bx[i] = b[i]
    BY <1>3, <1>n, <1>bx
  <1>j. /\ q[m + n + 1] = x /\ \A i \in 1..(m + n) : q[i] = ab[i]
        /\ \A i \in 1..m : ab[i] = a[i]
        /\ \A i \in 1..n : ab[m + i] = b[i]
    BY <1>5, <1>6, <1>q, <1>ab, <1>m, <1>n
  <1>8. \A i \in 1..(m + n + 1) : p[i] = q[i]
    <2> SUFFICES ASSUME NEW i \in 1..(m + n + 1)
                 PROVE  p[i] = q[i]
      OBVIOUS
    <2>1. CASE i \in 1..m
      BY ONLY <1>f, <1>j, <2>1, m \in Nat, n \in Nat
    <2>2. CASE i = m + 1
      <3>1. q[m + 1] = ab[m + 1] /\ ab[m + 1] = b[1]
        BY ONLY <1>j, m \in Nat, n \in Nat \ {0}
      <3> QED BY ONLY <1>g, <2>2, <3>1
    <2>3. CASE i > m + 1
      <3>1. PICK j \in 1..n : i = m + 1 + j
        <4>1. i - m - 1 \in 1..n /\ i = m + 1 + (i - m - 1)
          BY <2>3
        <4> QED BY <4>1
      <3>2. p[i] = bx[j + 1]
        BY <1>h, <3>1
      <3>3. CASE j = n
        BY ONLY <1>i, <1>j, <3>1, <3>2, <3>3, m \in Nat, n \in Nat
      <3>4. CASE j < n
        <4>1. j + 1 \in 1..n /\ i \in 1..(m + n) /\ i = m + (j + 1)
          BY <3>1, <3>4
        <4>2. bx[j + 1] = b[j + 1] /\ q[i] = ab[i] /\ ab[m + (j + 1)] = b[j + 1]
          BY ONLY <1>i, <1>j, <4>1
        <4> QED BY ONLY <3>2, <4>1, <4>2
      <3>5. j = n \/ j < n
        OBVIOUS
      <3> QED BY ONLY <3>3, <3>4, <3>5
    <2>4. i \in 1..m \/ i = m + 1 \/ i > m + 1
      OBVIOUS
    <2> QED BY ONLY <2>1, <2>2, <2>3, <2>4
  <1>9. Len(front \o back) = Len(Append(a \o b, x))
    BY <1>1, <1>6, <1>7
  <1>10. front \o back = Append(a \o b, x)
    <2>1. p \in Seq(S) /\ q \in Seq(S) /\ Len(p) = Len(q) /\ Len(p) = m + n + 1
      BY <1>6, <1>7, <1>9, <1>p, <1>q, <1>m, <1>n
    <2>2. p = q
      BY ONLY <1>8, <2>1, SameSeq
    <2> QED BY <2>2, <1>p, <1>q
  <1>11. /\ ShiftedFront(a, b) = front /\ ShiftedBack(b, x) = back
         /\ JoinedWith(a, b, x) = Append(a \o b, x)
    BY DEF front, back, ShiftedFront, ShiftedBack, JoinedWith
  <1> QED BY <1>2, <1>4, <1>10, <1>11

(* The last turns are kept apart from the turns before them.               *)
LEMMA RecordTurnMemory ==
    ASSUME NEW s, IsSphere(s), MemoryWhole(s),
           NEW g \in Signatures, NEW keys \in KeyLists,
           NEW r, IsNext(s, g, keys, r)
    PROVE  LET shard == NewShard(s, g, keys)
           IN  /\ shard \in Shard
               /\ r.micro \in Seq(Shard) /\ r.working \in Seq(Shard)
               /\ Remembers(r) = Append(Remembers(s), shard)
               /\ Remembers(s) \in Seq(Shard) /\ Remembers(r) \in Seq(Shard)
               /\ r.working # <<>> /\ r.working[Len(r.working)] = shard
               /\ r.micro = <<>> \/ Len(r.micro) = Len(s.micro) + 1
               /\ MemoryWhole(r)
  <1>s. PICK shard : shard = NewShard(s, g, keys)
    OBVIOUS
  <1>l. PICK longer : longer = Append(s.working, shard)
    OBVIOUS
  <1>1. /\ r.turn = s.turn + 1
        /\ r.working = IF Len(longer) > Capacity THEN Tail(longer) ELSE longer
        /\ r.micro = IF Len(s.working) = Capacity
                     THEN Append(s.micro, s.working[1]) ELSE s.micro
    <2>1. longer = Longer(s, g, keys)
      BY <1>s, <1>l DEF Longer
    <2> QED BY <2>1 DEF IsNext
  <1>2. /\ s.turn \in Nat /\ s.working \in Seq(Shard) /\ s.micro \in Seq(Shard)
        /\ Capacity \in Nat \ {0}
    BY Parameters DEF IsSphere
  <1>3. shard \in Shard /\ shard.turn = s.turn + 1
    BY <1>2, <1>s DEF Shard, NewShard
  <1>4. /\ longer \in Seq(Shard) /\ Len(longer) = Len(s.working) + 1
        /\ longer[Len(longer)] = shard
        /\ Len(s.working) \in Nat /\ Len(s.micro) \in Nat
    BY <1>2, <1>3, <1>l
  <1>5. /\ Remembers(s) \in Seq(Shard) /\ Len(Remembers(s)) = s.turn
        /\ Len(Remembers(s)) = Len(s.micro) + Len(s.working)
    <2>1. Len(Remembers(s)) = s.turn
      BY DEF MemoryWhole
    <2>2. /\ s.micro \o s.working \in Seq(Shard)
          /\ Len(s.micro \o s.working) = Len(s.micro) + Len(s.working)
      BY ONLY <1>2, ConcatFacts
    <2> QED BY <2>1, <2>2 DEF Remembers
  <1>6. /\ r.micro \in Seq(Shard) /\ r.working \in Seq(Shard)
        /\ Remembers(r) = Append(Remembers(s), shard)
        /\ r.working # <<>> /\ r.working[Len(r.working)] = shard
        /\ Len(r.working) <= Capacity /\ (r.micro # <<>> => Len(r.working) = Capacity)
        /\ r.micro = <<>> \/ Len(r.micro) = Len(s.micro) + 1
    <2>1. CASE Len(s.working) = Capacity
      <3>1. s.working # <<>>
        BY <1>2, <2>1
      <3>2. /\ r.micro = Append(s.micro, s.working[1]) /\ r.working = Tail(longer)
        BY <1>1, <1>2, <1>4, <2>1
      <3>3. /\ r.micro \in Seq(Shard) /\ r.working \in Seq(Shard)
            /\ Len(r.micro) = Len(s.micro) + 1
            /\ Len(r.working) = Len(s.working)
            /\ Remembers(r) = Append(Remembers(s), shard)
        <4>1. PICK a \in Seq(Shard) : a = s.micro
          BY <1>2
        <4>2. PICK b \in Seq(Shard) : b = s.working
          BY <1>2
        <4>3. /\ r.micro = Append(a, b[1]) /\ r.working = Tail(Append(b, shard))
              /\ b # <<>> /\ shard \in Shard
          BY <1>3, <1>l, <3>1, <3>2, <4>1, <4>2
        <4>4. /\ r.micro \in Seq(Shard) /\ r.working \in Seq(Shard)
              /\ Len(r.micro) = Len(a) + 1 /\ Len(r.working) = Len(b)
              /\ r.micro \o r.working = Append(a \o b, shard)
          <5>1. /\ r.micro = ShiftedFront(a, b) /\ r.working = ShiftedBack(b, shard)
                /\ JoinedWith(a, b, shard) = Append(a \o b, shard)
            BY <4>3 DEF ShiftedFront, ShiftedBack, JoinedWith
          <5>2. b # <<>> /\ shard \in Shard
            BY <4>3
          <5>3. /\ ShiftedFront(a, b) \in Seq(Shard) /\ ShiftedBack(b, shard) \in Seq(Shard)
                /\ Len(ShiftedFront(a, b)) = Len(a) + 1
                /\ Len(ShiftedBack(b, shard)) = Len(b)
                /\ ShiftedFront(a, b) \o ShiftedBack(b, shard) = JoinedWith(a, b, shard)
            BY <5>2, Shift
          <5> QED BY <5>1, <5>3
        <4> QED BY <4>1, <4>2, <4>4 DEF Remembers
      <3>4. r.working[Len(r.working)] = longer[Len(longer)]
        <4>1. longer # <<>> /\ Len(r.working) \in 1..Len(Tail(longer))
          BY <1>2, <1>4, <2>1, <3>2, <3>3
        <4>2. Tail(longer)[Len(r.working)] = longer[Len(r.working) + 1]
          BY <1>4, <4>1, HeadTailProperties
        <4> QED BY <1>4, <3>2, <3>3, <4>2
      <3>5. r.working # <<>>
        BY <1>2, <2>1, <3>3
      <3> QED BY <1>2, <1>4, <2>1, <3>3, <3>4, <3>5
    <2>2. CASE Len(s.working) < Capacity
      <3>1. r.micro = s.micro /\ r.working = longer /\ s.micro = <<>>
        BY <1>1, <1>2, <1>4, <2>2 DEF MemoryWhole
      <3>2. Remembers(r) = longer /\ Remembers(s) = s.working
        BY <1>2, <1>4, <3>1 DEF Remembers
      <3>3. longer # <<>> /\ Len(longer) <= Capacity
        BY <1>2, <1>4, <2>2
      <3>4. r.micro \in Seq(Shard) /\ r.working \in Seq(Shard)
        BY <1>2, <1>4, <3>1
      <3>5. Remembers(r) = Append(Remembers(s), shard)
        BY <1>l, <3>2
      <3>6. r.working[Len(r.working)] = shard
        BY ONLY <1>4, <3>1
      <3> QED BY ONLY <3>1, <3>3, <3>4, <3>5, <3>6
    <2> QED BY <1>2, <1>4, <2>1, <2>2 DEF MemoryWhole
  <1>7. /\ Remembers(r) \in Seq(Shard) /\ Len(Remembers(r)) = s.turn + 1
        /\ \A i \in DOMAIN Remembers(r) : Remembers(r)[i].turn = i
    <2>1. /\ Len(Append(Remembers(s), shard)) = s.turn + 1
          /\ DOMAIN Append(Remembers(s), shard) = 1..(s.turn + 1)
          /\ Append(Remembers(s), shard)[s.turn + 1] = shard
          /\ \A i \in 1..s.turn : Append(Remembers(s), shard)[i] = Remembers(s)[i]
          /\ Append(Remembers(s), shard) \in Seq(Shard)
      <3>1. PICK all \in Seq(Shard) : all = Remembers(s)
        BY <1>5
      <3>2. /\ Len(Append(all, shard)) = Len(all) + 1
            /\ DOMAIN Append(all, shard) = 1..(Len(all) + 1)
            /\ Append(all, shard)[Len(all) + 1] = shard
            /\ \A i \in 1..Len(all) : Append(all, shard)[i] = all[i]
            /\ Append(all, shard) \in Seq(Shard)
        BY <1>3
      <3> QED BY <1>5, <3>1, <3>2
    <2>2. \A i \in 1..s.turn : Remembers(s)[i].turn = i
      <3>1. DOMAIN Remembers(s) = 1..s.turn
        BY <1>5
      <3> QED BY <3>1 DEF MemoryWhole
    <2>3. \A i \in 1..(s.turn + 1) : i \in 1..s.turn \/ i = s.turn + 1
      BY <1>2
    <2> QED BY <1>3, <1>6, <2>1, <2>2, <2>3
  <1>8. MemoryWhole(r)
    BY <1>1, <1>6, <1>7 DEF MemoryWhole
  <1> QED BY <1>3, <1>5, <1>6, <1>7, <1>8, <1>s

(* The turns of a signature, with one more shard.                          *)
LEMMA TurnsOfNext ==
    ASSUME NEW s, IsSphere(s), MemoryWhole(s),
           NEW g \in Signatures, NEW keys \in KeyLists,
           NEW r, IsNext(s, g, keys, r), NEW h \in Signatures
    PROVE  /\ TurnsOf(Remembers(s), h) \subseteq 1..s.turn
           /\ TurnsOf(Remembers(r), h) = IF h = g
                                         THEN TurnsOf(Remembers(s), h) \cup {s.turn + 1}
                                         ELSE TurnsOf(Remembers(s), h)
  <1>1. PICK shard : shard = NewShard(s, g, keys)
    OBVIOUS
  <1>2. /\ shard \in Shard /\ Remembers(s) \in Seq(Shard)
        /\ Remembers(r) = Append(Remembers(s), shard)
    BY <1>1, RecordTurnMemory
  <1>3. PICK all \in Seq(Shard) : all = Remembers(s)
    BY <1>2
  <1>4. shard.signature = g
    BY <1>1 DEF NewShard
  <1>5. Len(all) = s.turn /\ s.turn \in Nat /\ DOMAIN all = 1..s.turn
    BY <1>3 DEF MemoryWhole, IsSphere
  <1>6. PICK more : more = Append(all, shard)
    OBVIOUS
  <1>7. /\ DOMAIN more = 1..(s.turn + 1)
        /\ more[s.turn + 1].signature = g
        /\ \A i \in 1..s.turn : more[i] = all[i]
    BY <1>2, <1>4, <1>5, <1>6
  <1>8. Remembers(r) = more
    BY <1>2, <1>3, <1>6
  <1>9. TurnsOf(Remembers(r), h) = {i \in 1..(s.turn + 1) : more[i].signature = h}
    BY <1>7, <1>8 DEF TurnsOf
  <1>10. TurnsOf(Remembers(s), h) = {i \in 1..s.turn : all[i].signature = h}
    BY <1>3, <1>5 DEF TurnsOf
  <1>11. {i \in 1..(s.turn + 1) : more[i].signature = h} =
           IF h = g THEN {i \in 1..s.turn : all[i].signature = h} \cup {s.turn + 1}
                    ELSE {i \in 1..s.turn : all[i].signature = h}
    BY <1>5, <1>7
  <1> QED BY <1>9, <1>10, <1>11

(* One more turn at the end of the list.                                   *)
LEMMA EvidenceGrows ==
    ASSUME NEW seen \in Seq(Nat), NEW n \in Nat, NEW turns \in SUBSET (1..n),
           IsEvidence(seen, turns)
    PROVE  IsEvidence(Append(seen, n + 1), turns \cup {n + 1})
  <1>1. PICK more : more = Append(seen, n + 1)
    OBVIOUS
  <1>2. PICK l \in Nat : l = Len(seen)
    OBVIOUS
  <1>3. /\ DOMAIN seen = 1..l /\ DOMAIN more = 1..(l + 1) /\ Len(more) = l + 1
        /\ more[l + 1] = n + 1
        /\ \A i \in 1..l : more[i] = seen[i] /\ seen[i] \in Nat
    BY <1>1, <1>2
  <1>4. /\ \A i, j \in 1..l : i < j => seen[i] < seen[j]
        /\ \A i \in 1..l : seen[i] \in turns
        /\ \A t \in turns : \E i \in 1..l : seen[i] = t
        /\ IsFiniteSet(turns) /\ Cardinality(turns) = l
    BY <1>2, <1>3 DEF IsEvidence
  <1>5. n + 1 \notin turns /\ \A t \in turns : t \in Nat /\ t < n + 1
    OBVIOUS
  <1>6. ASSUME NEW i \in 1..(l + 1), NEW j \in 1..(l + 1), i < j
        PROVE  more[i] < more[j]
    <2>1. i \in 1..l /\ more[i] = seen[i] /\ seen[i] \in turns
      BY <1>3, <1>4, <1>6
    <2>2. CASE j = l + 1
      BY <1>3, <1>5, <2>1, <2>2
    <2>3. CASE j # l + 1
      <3>1. j \in 1..l
        BY <2>3
      <3> QED BY <1>3, <1>4, <1>6, <2>1, <3>1
    <2> QED BY <2>2, <2>3
  <1>7. ASSUME NEW i \in 1..(l + 1)
        PROVE  more[i] \in turns \cup {n + 1}
    <2>1. CASE i = l + 1
      BY <1>3, <2>1
    <2>2. CASE i # l + 1
      <3>1. i \in 1..l
        BY <2>2
      <3> QED BY <1>3, <1>4, <3>1
    <2> QED BY <2>1, <2>2
  <1>8. ASSUME NEW t \in turns \cup {n + 1}
        PROVE  \E i \in 1..(l + 1) : more[i] = t
    <2>1. CASE t = n + 1
      BY <1>3, <2>1
    <2>2. CASE t \in turns
      <3>1. PICK i \in 1..l : seen[i] = t
        BY <1>4, <2>2
      <3> QED BY <1>3, <3>1
    <2> QED BY <2>1, <2>2
  <1>9. IsFiniteSet(turns \cup {n + 1}) /\ Cardinality(turns \cup {n + 1}) = l + 1
    BY <1>4, <1>5, FS_AddElement
  <1> QED BY <1>1, <1>3, <1>6, <1>7, <1>8, <1>9 DEF IsEvidence

\* What _observe_pattern() makes of the patterns, with the evidence before
\* and after turn t.
Promotes(patterns, g, seen, t, more, after) ==
    /\ more = Append(seen, t)
    /\ after = IF Len(more) # Reinforcement THEN patterns
               ELSE Append(patterns, [signature |-> g, turns |-> more])

(* The pattern of the signature that comes for the Reinforcement-th time.  *)
LEMMA PatternGrows ==
    ASSUME NEW g \in Signatures, NEW seen \in Seq(Nat), NEW t \in Nat,
           NEW patterns \in Seq(Pattern), IsPromoted(patterns, g, seen),
           NEW more, NEW after, Promotes(patterns, g, seen, t, more, after)
    PROVE  /\ more \in Seq(Nat) /\ after \in Seq(Pattern)
           /\ IsPromoted(after, g, more)
           /\ \A h \in Signatures \ {g} : \A other \in Seq(Nat) :
                 IsPromoted(patterns, h, other) => IsPromoted(after, h, other)
  <1> DEFINE pattern == [signature |-> g, turns |-> more]
  <1>p. /\ more = Append(seen, t)
        /\ after = IF Len(more) # Reinforcement THEN patterns
                   ELSE Append(patterns, [signature |-> g, turns |-> more])
    BY DEF Promotes
  <1>1. PICK l \in Nat : l = Len(seen)
    OBVIOUS
  <1>2. /\ more \in Seq(Nat) /\ Len(more) = l + 1
        /\ \A i \in 1..l : more[i] = seen[i]
    BY <1>1, <1>p
  <1>3. pattern \in Pattern /\ pattern.signature = g /\ pattern.turns = more
    BY <1>2 DEF Pattern
  <1> HIDE DEF pattern
  <1>4. PICK p \in Nat : p = Len(patterns) /\ DOMAIN patterns = 1..p
    OBVIOUS
  <1>5. Reinforcement \in Nat \ {0}
    BY Parameters
  <1>6. CASE l + 1 # Reinforcement
    <2>1. after = patterns
      BY <1>2, <1>6, <1>p
    <2>2. IsPromoted(patterns, g, more)
      <3>1. CASE l < Reinforcement
        BY <1>1, <1>2, <1>5, <1>6, <3>1 DEF IsPromoted
      <3>2. CASE l >= Reinforcement
        <4>1. PICK k \in DOMAIN patterns :
                 PatternsFor(patterns, g) = {k} /\ HasFirst(patterns[k], seen)
          BY <1>1, <1>5, <3>2 DEF IsPromoted
        <4>2. \A i \in 1..Reinforcement : more[i] = seen[i]
          BY <1>2, <1>5, <3>2
        <4>3. HasFirst(patterns[k], more)
          BY <4>1, <4>2 DEF HasFirst
        <4>4. ~(Len(more) < Reinforcement)
          BY <1>2, <1>5, <3>2
        <4> QED BY <4>1, <4>3, <4>4 DEF IsPromoted
      <3> QED BY <1>5, <3>1, <3>2
    <2> QED BY <1>2, <2>1, <2>2
  <1>7. CASE l + 1 = Reinforcement
    <2>1. after = Append(patterns, pattern)
      BY <1>2, <1>7, <1>p DEF pattern
    <2>2. /\ after \in Seq(Pattern) /\ DOMAIN after = 1..(p + 1)
          /\ after[p + 1] = pattern
          /\ \A k \in 1..p : after[k] = patterns[k]
      BY <1>3, <1>4, <2>1
    <2>3. PatternsFor(patterns, g) = {}
      BY <1>1, <1>5, <1>7 DEF IsPromoted
    <2>4. PatternsFor(after, g) = {p + 1}
      BY <1>3, <1>4, <2>2, <2>3 DEF PatternsFor
    <2>5. IsPromoted(after, g, more)
      <3>1. HasFirst(after[p + 1], more)
        BY <1>2, <1>3, <1>7, <2>2 DEF HasFirst
      <3>2. ~(Len(more) < Reinforcement) /\ p + 1 \in DOMAIN after
        BY <1>2, <1>5, <1>7, <2>2
      <3> QED BY <2>4, <3>1, <3>2 DEF IsPromoted
    <2>6. ASSUME NEW h \in Signatures \ {g}, NEW other \in Seq(Nat),
                 IsPromoted(patterns, h, other)
          PROVE  IsPromoted(after, h, other)
      <3>1. PatternsFor(after, h) = PatternsFor(patterns, h)
        BY <1>3, <1>4, <2>2 DEF PatternsFor
      <3>2. \A k \in DOMAIN patterns : k \in DOMAIN after /\ after[k] = patterns[k]
        BY <1>4, <2>2
      <3> QED BY <2>6, <3>1, <3>2 DEF IsPromoted
    <2> QED BY <1>2, <2>2, <2>5, <2>6
  <1> QED BY <1>6, <1>7

(* The windows go on with the newest micro segment.                        *)
LEMMA MesoGrows ==
    ASSUME NEW s, Whole(s), NEW g \in Signatures, NEW keys \in KeyLists,
           NEW r, IsNext(s, g, keys, r)
    PROVE  r.meso \in Seq(Segment) /\ MesoTrue(r)
  <1>1. /\ MicroWindow \in Nat \ {0} /\ MesoWindow \in Nat \ {0}
        /\ 3 * MesoWindow \in Nat \ {0}
    BY Parameters
  <1>2. IsSphere(s) /\ MemoryWhole(s) /\ MesoTrue(s)
    BY DEF Whole
  <1>3. /\ r.micro \in Seq(Shard) /\ r.working \in Seq(Shard) /\ MemoryWhole(r)
        /\ r.micro = <<>> \/ Len(r.micro) = Len(s.micro) + 1
        /\ s.meso \in Seq(Segment) /\ s.micro \in Seq(Shard)
    BY <1>2, RecordTurnMemory DEF IsSphere
  <1>4. PICK m \in Nat : m = Len(r.micro)
    BY <1>3
  <1>5. \A i \in 1..m : r.micro[i].turn = i
    <2>1. PICK w \in Nat : w = Len(r.working)
      BY <1>3
    <2>3. /\ DOMAIN Remembers(r) = 1..(m + w)
          /\ \A i \in 1..m : Remembers(r)[i] = r.micro[i]
      BY <1>3, <1>4, <2>1, RemembersFacts
    <2>4. \A i \in 1..(m + w) : Remembers(r)[i].turn = i
      BY <1>3, <2>3 DEF MemoryWhole
    <2> QED BY <2>3, <2>4
  <1>6. CASE m < MicroWindow
    <2>1. r.meso = s.meso
      BY <1>4, <1>6 DEF IsNext
    <2>2. s.meso = <<>>
      <3>1. Len(s.micro) \in Nat /\ (Len(s.micro) < MicroWindow \/ r.micro = <<>>)
        BY <1>1, <1>3, <1>4, <1>6
      <3>2. CASE r.micro = <<>>
        <4>1. Len(s.working) # Capacity \/ r.micro = Append(s.micro, s.working[1])
          BY DEF IsNext
        <4>2. Append(s.micro, s.working[1]) # <<>>
          <5>1. Append(s.micro, s.working[1])[Len(s.micro) + 1] = s.working[1]
            BY <1>3
          <5>2. DOMAIN Append(s.micro, s.working[1]) = 1..(Len(s.micro) + 1)
            BY <1>3
          <5>3. Len(s.micro) + 1 \in 1..(Len(s.micro) + 1)
            BY <1>3
          <5> QED BY <5>2, <5>3
        <4>3. s.micro = <<>>
          BY <1>2, <3>2, <4>1, <4>2 DEF MemoryWhole
        <4>4. Len(s.micro) = 0
          BY <4>3
        <4> QED BY <1>1, <1>2, <4>4 DEF MesoTrue
      <3>3. CASE Len(s.micro) < MicroWindow
        BY <1>2, <3>3 DEF MesoTrue
      <3> QED BY <3>1, <3>2, <3>3
    <2>3. r.meso = <<>>
      BY <2>1, <2>2
    <2> QED BY <1>1, <2>3 DEF MesoTrue
  <1>7. CASE m >= MicroWindow
    <2>1. m = Len(s.micro) + 1
      <3>1. r.micro # <<>>
        BY <1>1, <1>4, <1>7
      <3> QED BY <1>3, <1>4, <3>1
    <2>2. PICK window : window = LastOf(MicroWindow, r.micro)
      OBVIOUS
    <2>3. /\ window \in Seq(Shard) /\ Len(window) = MicroWindow
          /\ \A j \in 1..MicroWindow : window[j] = r.micro[m - MicroWindow + j]
      <3>1. /\ window \in Seq(Shard)
            /\ Len(window) = IF Len(r.micro) <= MicroWindow THEN Len(r.micro)
                             ELSE MicroWindow
            /\ IsLastOf(window, r.micro)
        BY <1>1, <1>3, <2>2, LastOfFacts
      <3>2. Len(window) = MicroWindow
        BY <1>1, <1>4, <1>7, <3>1
      <3> QED BY <1>4, <3>1, <3>2 DEF IsLastOf
    <2>4. PICK segment : segment = Window(r.micro)
      OBVIOUS
    <2>5. segment = [turns |-> [i \in DOMAIN window |-> window[i].turn],
                     keys |-> UNION {Range(window[i].keys) : i \in DOMAIN window}]
      BY <2>2, <2>4 DEF Window
    <2>6. \A j \in 1..MicroWindow : segment.turns[j] = m - (MicroWindow - j)
      <3>1. DOMAIN window = 1..MicroWindow
        BY <1>1, <2>3
      <3>2. \A j \in 1..MicroWindow : segment.turns[j] = window[j].turn
        BY <2>5, <3>1
      <3>3. ASSUME NEW j \in 1..MicroWindow
            PROVE  r.micro[m - MicroWindow + j].turn = m - (MicroWindow - j)
        <4>1. m - MicroWindow + j \in 1..m /\ m - MicroWindow + j = m - (MicroWindow - j)
          BY <1>1, <1>7
        <4> QED BY <1>5, <4>1
      <3> QED BY <2>3, <3>2, <3>3
    <2>7. segment \in Segment
      <3>1. \A i \in DOMAIN window : window[i] \in Shard
        BY <2>3
      <3>2. \A i \in DOMAIN window : window[i].turn \in Nat /\ window[i].keys \in KeyLists
        BY <3>1 DEF Shard
      <3>3. [i \in DOMAIN window |-> window[i].turn] \in Seq(Nat)
        BY <1>1, <2>3, <3>2
      <3>4. UNION {Range(window[i].keys) : i \in DOMAIN window} \subseteq CommitmentKeys
        <4>1. ASSUME NEW i \in DOMAIN window
              PROVE  Range(window[i].keys) \subseteq CommitmentKeys
          <5>1. window[i].keys \in Seq(CommitmentKeys)
            BY <3>2, SphereAssumption
          <5> QED BY <5>1 DEF Range
        <4> QED BY <4>1
      <3> QED BY <2>5, <3>3, <3>4 DEF Segment
    <2>8. PICK all : all = Append(s.meso, segment)
      OBVIOUS
    <2>9. PICK l \in Nat : l = Len(s.meso) + 1
      BY <1>3
    <2>10. /\ all \in Seq(Segment) /\ Len(all) = l /\ all[l] = segment
           /\ \A i \in 1..(l - 1) : all[i] = s.meso[i]
      BY <1>3, <2>7, <2>8, <2>9
    <2>11. r.meso = LastOf(3 * MesoWindow, all)
      <3>1. ~(Len(r.micro) < MicroWindow)
        BY <1>1, <1>4, <1>7
      <3> QED BY <2>4, <2>8, <3>1 DEF IsNext
    <2>12. PICK k \in Nat : k = Len(r.meso)
      <3>1. r.meso \in Seq(Segment)
        BY <1>1, <2>10, <2>11, LastOfFacts
      <3> QED BY <3>1
    <2>13. /\ r.meso \in Seq(Segment) /\ DOMAIN r.meso = 1..k
           /\ k <= 3 * MesoWindow /\ k <= l
           /\ \A i \in 1..k : r.meso[i] = all[l - k + i]
      <3>1. PICK n \in Nat \ {0} : n = 3 * MesoWindow
        BY <1>1
      <3>2. /\ r.meso \in Seq(Segment)
            /\ k = IF l <= n THEN l ELSE n
            /\ IsLastOf(r.meso, all)
        BY <2>10, <2>11, <2>12, <3>1, LastOfFacts
      <3>3. \A i \in 1..k : r.meso[i] = all[l - k + i]
        BY <2>10, <2>12, <3>2 DEF IsLastOf
      <3>4. k <= n /\ k <= l
        <4>1. k = IF l <= n THEN l ELSE n
          BY <3>2
        <4>2. k \in Int /\ l \in Int /\ n \in Int
          OBVIOUS
        <4>3. CASE l <= n
          BY <4>1, <4>2, <4>3
        <4>4. CASE ~(l <= n)
          BY <4>1, <4>2, <4>4
        <4> QED BY <4>3, <4>4
      <3>5. DOMAIN r.meso = 1..k
        <4>1. r.meso \in Seq(Segment)
          BY <3>2
        <4>2. DOMAIN r.meso = 1..Len(r.meso)
          BY ONLY <4>1
        <4> QED BY <2>12, <4>2
      <3> QED BY <3>1, <3>2, <3>3, <3>4, <3>5
    <2>14. ASSUME NEW i \in 1..k, NEW j \in 1..MicroWindow
           PROVE  r.meso[i].turns[j] = m - (k - i) - (MicroWindow - j)
      <3>1. CASE i = k
        <4>1. r.meso[i] = segment
          BY <2>10, <2>13, <3>1
        <4> QED BY <1>1, <2>6, <3>1, <4>1
      <3>2. CASE i < k
        <4>1. l - k + i \in 1..(l - 1) /\ l - k + i \in Nat
          BY <2>13, <3>2
        <4>2. PICK n \in Nat : n = l - k + i
          BY <4>1
        <4>3. r.meso[i] = s.meso[n] /\ n \in DOMAIN s.meso
          <5>1. r.meso[i] = all[n] /\ n \in 1..(l - 1)
            BY <2>13, <4>1, <4>2
          <5>2. DOMAIN s.meso = 1..(l - 1)
            BY <1>3, <2>9
          <5> QED BY <2>10, <5>1, <5>2
        <4>4. s.meso[n].turns[j] =
                 Len(s.micro) - (Len(s.meso) - n) - (MicroWindow - j)
          BY <1>2, <4>3 DEF MesoTrue
        <4>5. Len(s.micro) - (Len(s.meso) - n) = m - (k - i)
          BY <1>3, <2>1, <2>9, <4>2
        <4> QED BY <4>3, <4>4, <4>5
      <3> QED BY <3>1, <3>2
    <2>15. MesoTrue(r)
      <3>1. ~(Len(r.micro) < MicroWindow) /\ Len(r.meso) <= 3 * MesoWindow
        BY <1>1, <1>4, <1>7, <2>12, <2>13
      <3>2. \A i \in DOMAIN r.meso : \A j \in 1..MicroWindow :
               r.meso[i].turns[j] = Len(r.micro) - (Len(r.meso) - i) - (MicroWindow - j)
        BY <1>4, <2>12, <2>13, <2>14
      <3> QED BY <3>1, <3>2 DEF MesoTrue
    <2> QED BY <2>13, <2>15
  <1> QED BY <1>1, <1>4, <1>6, <1>7

(* record_turn() leaves a whole sphere whole.                              *)
LEMMA RecordTurnWhole ==
    ASSUME NEW s, Whole(s), NEW g \in Signatures, NEW keys \in KeyLists,
           NEW r, IsNext(s, g, keys, r)
    PROVE  Whole(r)
  <1>1. /\ IsSphere(s) /\ MemoryWhole(s) /\ EvidenceTrue(s) /\ PatternsTrue(s)
        /\ s.turn \in Nat
    BY DEF Whole, IsSphere
  <1>2. /\ r.micro \in Seq(Shard) /\ r.working \in Seq(Shard) /\ MemoryWhole(r)
    BY <1>1, RecordTurnMemory
  <1>3. r.meso \in Seq(Segment) /\ MesoTrue(r)
    BY MesoGrows
  <1>4. /\ s.evidence \in [Signatures -> Seq(Nat)] /\ s.evidence[g] \in Seq(Nat)
        /\ s.patterns \in Seq(Pattern)
    BY <1>1 DEF IsSphere
  <1>5. PICK more : more = Seen(s, g)
    OBVIOUS
  <1>6. more = Append(s.evidence[g], s.turn + 1) /\ s.turn + 1 \in Nat
    BY <1>1, <1>5 DEF Seen
  <1>7. /\ r.evidence = [s.evidence EXCEPT ![g] = more]
        /\ r.patterns = IF Len(more) # Reinforcement THEN s.patterns
                        ELSE Append(s.patterns, [signature |-> g, turns |-> more])
    BY <1>5 DEF IsNext
  <1>8. /\ more \in Seq(Nat) /\ r.patterns \in Seq(Pattern)
        /\ IsPromoted(r.patterns, g, more)
        /\ \A h \in Signatures \ {g} : \A other \in Seq(Nat) :
              IsPromoted(s.patterns, h, other) => IsPromoted(r.patterns, h, other)
    <2>1. IsPromoted(s.patterns, g, s.evidence[g])
      BY <1>1 DEF PatternsTrue
    <2>2. Promotes(s.patterns, g, s.evidence[g], s.turn + 1, more, r.patterns)
      BY <1>6, <1>7 DEF Promotes
    <2> QED BY <1>4, <1>6, <2>1, <2>2, PatternGrows
  <1>9. IsSphere(r)
    <2>1. r.evidence \in [Signatures -> Seq(Nat)]
      BY <1>4, <1>7, <1>8
    <2>2. r.turn \in Nat
      BY <1>1 DEF IsNext
    <2> QED BY <1>2, <1>3, <1>8, <2>1, <2>2 DEF IsSphere, IsNext
  <1>10. EvidenceTrue(r)
    <2> SUFFICES ASSUME NEW h \in Signatures
                 PROVE  IsEvidence(r.evidence[h], TurnsOf(Remembers(r), h))
      BY DEF EvidenceTrue
    <2>1. IsEvidence(s.evidence[h], TurnsOf(Remembers(s), h))
      BY <1>1 DEF EvidenceTrue
    <2>2. /\ TurnsOf(Remembers(s), h) \subseteq 1..s.turn
          /\ TurnsOf(Remembers(r), h) = IF h = g
                                        THEN TurnsOf(Remembers(s), h) \cup {s.turn + 1}
                                        ELSE TurnsOf(Remembers(s), h)
      BY <1>1, TurnsOfNext
    <2>3. CASE h = g
      <3>1. r.evidence[h] = more
        BY <1>4, <1>7, <2>3
      <3>2. IsEvidence(more, TurnsOf(Remembers(s), h) \cup {s.turn + 1})
        BY <1>1, <1>4, <1>6, <2>1, <2>2, <2>3, EvidenceGrows
      <3> QED BY <2>2, <2>3, <3>1, <3>2
    <2>4. CASE h # g
      <3>1. r.evidence[h] = s.evidence[h]
        BY <1>4, <1>7, <2>4
      <3> QED BY <2>1, <2>2, <2>4, <3>1
    <2> QED BY <2>3, <2>4
  <1>11. PatternsTrue(r)
    <2> SUFFICES ASSUME NEW h \in Signatures
                 PROVE  IsPromoted(r.patterns, h, r.evidence[h])
      BY DEF PatternsTrue
    <2>1. CASE h = g
      <3>1. r.evidence[h] = more
        BY <1>4, <1>7, <2>1
      <3> QED BY <1>8, <2>1, <3>1
    <2>2. CASE h # g
      <3>1. r.evidence[h] = s.evidence[h] /\ s.evidence[h] \in Seq(Nat)
        BY <1>4, <1>7, <2>2
      <3>2. IsPromoted(s.patterns, h, s.evidence[h])
        BY <1>1 DEF PatternsTrue
      <3> QED BY <1>8, <2>2, <3>1, <3>2
    <2> QED BY <2>1, <2>2
  <1>12. NothingPromised(r)
    BY <1>1 DEF IsNext, NothingPromised
  <1> QED BY <1>2, <1>3, <1>9, <1>10, <1>11, <1>12 DEF Whole

-----------------------------------------------------------------------------
(* Capsules.                                                               *)

\* The evidence of a capsule.
Observations(s) ==
    Restrict(s.evidence, {g \in Signatures : s.evidence[g] # <<>>})

\* A capsule's state of this sphere, in any order of the commitments.
IsStateOf(state, s) ==
    /\ state.current_turn = s.turn /\ state.working_memory = s.working
    /\ state.micro_segments = s.micro /\ state.meso_segments = s.meso
    /\ state.episodic_patterns = s.patterns
    /\ state.signature_evidence = Observations(s)
    /\ Range(state.commitments) = Range(s.commitments)

\* The same memories, with the commitments in any order.
Alike(s, t) ==
    /\ IsSphere(s) /\ IsSphere(t)
    /\ s.turn = t.turn /\ s.working = t.working /\ s.micro = t.micro
    /\ s.meso = t.meso /\ s.patterns = t.patterns /\ s.evidence = t.evidence
    /\ Range(s.commitments) = Range(t.commitments)

(* A sphere that remembers nothing has no shards.                          *)
LEMMA NoElements ==
    ASSUME NEW S, NEW seq \in Seq(S)
    PROVE  /\ Len(seq) \in Nat /\ DOMAIN seq = 1..Len(seq)
           /\ Len(seq) = 0 => DOMAIN seq = {}
           /\ DOMAIN seq = {} => Len(seq) = 0
  <1>1. Len(seq) \in Nat /\ DOMAIN seq = 1..Len(seq)
    OBVIOUS
  <1>2. ASSUME DOMAIN seq = {}
        PROVE  Len(seq) = 0
    <2>1. 1 \notin 1..Len(seq)
      BY <1>1, <1>2
    <2> QED BY <1>1, <2>1
  <1> QED BY <1>1, <1>2

LEMMA NothingRemembered ==
    ASSUME NEW s, s.micro \in Seq(Shard), s.working \in Seq(Shard),
           DOMAIN Remembers(s) = {}
    PROVE  s.working = <<>> /\ s.micro = <<>>
  <1>1. PICK a \in Seq(Shard) : a = s.micro
    OBVIOUS
  <1>2. PICK b \in Seq(Shard) : b = s.working
    OBVIOUS
  <1>3. PICK m \in Nat, n \in Nat : m = Len(a) /\ n = Len(b)
    OBVIOUS
  <1>4. DOMAIN Remembers(s) = 1..(m + n)
    BY <1>1, <1>2, <1>3, RemembersFacts
  <1>5. m = 0 /\ n = 0
    <2>1. 1 \notin 1..(m + n)
      BY <1>4
    <2> QED BY <2>1
  <1>6. a = <<>> /\ b = <<>>
    <2>1. Len(a) = 0 /\ Len(b) = 0
      BY <1>3, <1>5
    <2>2. a = <<>>
      BY <2>1
    <2>3. b = <<>>
      BY <2>1
    <2> QED BY <2>2, <2>3
  <1> QED BY <1>1, <1>2, <1>6

(* What is true of a sphere does not depend on its commitments.            *)
LEMMA AlikeWhole ==
    ASSUME NEW s, NEW t, Alike(s, t), Whole(s)
    PROVE  Whole(t) /\ Alike(t, s)
  <1>1. Remembers(s) = Remembers(t)
    BY DEF Alike, Remembers
  <1>2. MemoryWhole(t)
    BY <1>1 DEF Alike, Whole, MemoryWhole
  <1>3. EvidenceTrue(t)
    BY <1>1 DEF Alike, Whole, EvidenceTrue
  <1>4. PatternsTrue(t)
    BY DEF Alike, Whole, PatternsTrue
  <1>5. MesoTrue(t)
    BY DEF Alike, Whole, MesoTrue
  <1>6. NothingPromised(t)
    BY DEF Alike, Whole, NothingPromised
  <1> QED BY <1>2, <1>3, <1>4, <1>5, <1>6 DEF Alike, Whole

LEMMA AlikeTransitive ==
    ASSUME NEW s, NEW t, NEW u, Alike(s, t), Alike(t, u)
    PROVE  Alike(s, u)
  BY DEF Alike

(* capture_temporal_state(), and the store's JSON.                         *)
LEMMA CaptureIsState ==
    ASSUME NEW s
    PROVE  /\ IsStateOf(Capture(s), s)
           /\ \A json \in Stored(Capture(s)) : IsStateOf(json, s)
  <1>1. PICK seen : seen = Observations(s)
    OBVIOUS
  <1>2. PICK state : state = Capture(s)
    OBVIOUS
  <1>3. state = [current_turn |-> s.turn, working_memory |-> s.working,
                 micro_segments |-> s.micro, meso_segments |-> s.meso,
                 episodic_patterns |-> s.patterns, commitments |-> s.commitments,
                 signature_evidence |-> seen]
    BY <1>1, <1>2 DEF Capture, Observations
  <1>4. IsStateOf(state, s)
    BY <1>1, <1>3 DEF IsStateOf
  <1>5. ASSUME NEW json \in Stored(state)
        PROVE  IsStateOf(json, s)
    <2>1. PICK list : /\ Range(list) = Range(s.commitments)
                      /\ json = [state EXCEPT !.commitments = list]
      BY <1>3 DEF Stored, InKeyOrder
    <2>2. json = [current_turn |-> s.turn, working_memory |-> s.working,
                  micro_segments |-> s.micro, meso_segments |-> s.meso,
                  episodic_patterns |-> s.patterns, commitments |-> list,
                  signature_evidence |-> seen]
      BY <1>3, <2>1
    <2> QED BY <1>1, <2>1, <2>2 DEF IsStateOf
  <1> QED BY <1>2, <1>4, <1>5

(* hydrate_temporal_state() brings back what was captured.                 *)
LEMMA HydrateAlike ==
    ASSUME NEW s, Whole(s), NEW state, IsStateOf(state, s)
    PROVE  Alike(Hydrate(state), s)
  <1>1. IsSphere(s) /\ MemoryWhole(s) /\ EvidenceTrue(s) /\ Capacity \in Nat \ {0}
    BY Parameters DEF Whole
  <1>2. LastOf(Capacity, state.working_memory) = s.working
    <2>1. s.working \in Seq(Shard) /\ Len(s.working) <= Capacity
      BY <1>1 DEF IsSphere, MemoryWhole
    <2> QED BY <1>1, <2>1, LastOfFacts DEF IsStateOf
  <1>3. PICK evidence : evidence = [g \in Signatures |-> IF g \in DOMAIN Evidence(state)
                                       THEN Evidence(state)[g] ELSE <<>>]
    OBVIOUS
  <1>4. Hydrate(state) = [turn |-> s.turn, working |-> s.working, micro |-> s.micro,
                          meso |-> s.meso, patterns |-> s.patterns,
                          commitments |-> state.commitments, evidence |-> evidence]
    BY <1>2, <1>3 DEF Hydrate, IsStateOf
  <1>5. evidence = s.evidence
    <2>1. s.evidence \in [Signatures -> Seq(Nat)]
      BY <1>1 DEF IsSphere
    <2>2. PICK known : known = {g \in Signatures : s.evidence[g] # <<>>}
      OBVIOUS
    <2>3. PICK seen : seen = state.signature_evidence
      OBVIOUS
    <2>4. seen = [g \in known |-> s.evidence[g]]
      BY <2>2, <2>3 DEF IsStateOf, Observations, Restrict
    <2>5. CASE known # {}
      <3>1. Evidence(state) = seen
        BY <2>3, <2>4, <2>5 DEF Evidence
      <3>2. \A g \in Signatures : evidence[g] = s.evidence[g]
        BY <1>3, <2>2, <2>4, <3>1
      <3> QED BY <1>3, <2>1, <3>2
    <2>6. CASE known = {}
      <3>1. \A g \in Signatures : s.evidence[g] = <<>>
        BY <2>2, <2>6
      <3>2. ASSUME NEW g \in Signatures
            PROVE  TurnsOf(Remembers(s), g) = {}
        <4>1. IsEvidence(s.evidence[g], TurnsOf(Remembers(s), g))
          BY <1>1 DEF EvidenceTrue
        <4>2. s.evidence[g] = <<>> /\ DOMAIN (s.evidence[g]) = {}
          BY <3>1
        <4> QED BY <4>1, <4>2 DEF IsEvidence
      <3>3. Remembers(s) \in Seq(Shard) /\ s.working \in Seq(Shard) /\ s.micro \in Seq(Shard)
        BY <1>1, RemembersFacts DEF IsSphere
      <3>4. DOMAIN Remembers(s) = {}
        <4>1. \A i \in DOMAIN Remembers(s) : Remembers(s)[i].signature \in Signatures
          <5>1. PICK all \in Seq(Shard) : all = Remembers(s)
            BY <3>3
          <5>2. \A i \in DOMAIN all : all[i] \in Shard
            OBVIOUS
          <5> QED BY <5>1, <5>2 DEF Shard
        <4> QED BY <3>2, <4>1 DEF TurnsOf
      <3>5. DOMAIN s.working = {}
        <4>1. s.working = <<>>
          BY <3>3, <3>4, NothingRemembered
        <4> QED BY <4>1
      <3>6. DOMAIN Evidence(state) = {}
        <4>1. PICK shards : shards = state.working_memory
          OBVIOUS
        <4>2. DOMAIN shards = {} /\ DOMAIN seen = {}
          BY <2>4, <2>6, <3>5, <4>1 DEF IsStateOf
        <4>3. Evidence(state) = [g \in {shards[i].signature : i \in DOMAIN shards} |->
                                    TurnsWith(shards, g)]
          BY <2>3, <4>1, <4>2 DEF Evidence
        <4>4. DOMAIN Evidence(state) = {shards[i].signature : i \in DOMAIN shards}
          BY <4>3
        <4> QED BY <4>2, <4>4
      <3>7. \A g \in Signatures : evidence[g] = s.evidence[g]
        BY <1>3, <3>1, <3>6
      <3> QED BY <1>3, <2>1, <3>7
    <2> QED BY <2>5, <2>6
  <1>6. PICK h : h = Hydrate(state)
    OBVIOUS
  <1>7. /\ h.turn = s.turn /\ h.working = s.working /\ h.micro = s.micro
        /\ h.meso = s.meso /\ h.patterns = s.patterns /\ h.evidence = s.evidence
        /\ Range(h.commitments) = Range(s.commitments)
        /\ h = [turn |-> h.turn, working |-> h.working, micro |-> h.micro, meso |-> h.meso,
                patterns |-> h.patterns, commitments |-> h.commitments,
                evidence |-> h.evidence]
    BY <1>4, <1>5, <1>6 DEF IsStateOf
  <1>8. IsSphere(h)
    BY <1>1, <1>7 DEF IsSphere
  <1> QED BY <1>1, <1>6, <1>7, <1>8 DEF Alike

(* The state of a sphere is the state of its like.                         *)
LEMMA StateOfAlike ==
    ASSUME NEW s, NEW t, Alike(s, t), NEW state, IsStateOf(state, s)
    PROVE  IsStateOf(state, t)
  BY DEF Alike, IsStateOf, Observations

(* There is nothing to remember before the first turn.                     *)
LEMMA NewSphereWhole == Whole(NewSphere) /\ NewSphere.turn = 0
  <1>1. PICK s : s = NewSphere
    OBVIOUS
  <1>2. /\ s = [turn |-> s.turn, working |-> s.working, micro |-> s.micro, meso |-> s.meso,
               patterns |-> s.patterns, commitments |-> s.commitments,
               evidence |-> s.evidence]
        /\ s.turn = 0 /\ s.working = <<>> /\ s.micro = <<>> /\ s.meso = <<>>
        /\ s.patterns = <<>> /\ s.evidence = [g \in Signatures |-> <<>>]
        /\ s.commitments = <<>>
    BY <1>1 DEF NewSphere
  <1>3. IsSphere(s)
    <2>1. s.evidence \in [Signatures -> Seq(Nat)]
      BY <1>2
    <2> QED BY <1>2, <2>1 DEF IsSphere
  <1>4. Remembers(s) = <<>> /\ Len(Remembers(s)) = 0 /\ DOMAIN Remembers(s) = {}
    BY <1>2 DEF Remembers
  <1>5. MemoryWhole(s)
    BY <1>2, <1>4, Parameters DEF MemoryWhole
  <1>6. EvidenceTrue(s)
    <2> SUFFICES ASSUME NEW g \in Signatures
                 PROVE  IsEvidence(s.evidence[g], TurnsOf(Remembers(s), g))
      BY DEF EvidenceTrue
    <2>1. TurnsOf(Remembers(s), g) = {}
      BY <1>4 DEF TurnsOf
    <2>2. s.evidence[g] = <<>>
      BY <1>2
    <2>3. IsEvidence(<<>>, {})
      BY FS_EmptySet DEF IsEvidence
    <2> QED BY <2>1, <2>2, <2>3
  <1>7. PatternsTrue(s)
    <2> SUFFICES ASSUME NEW g \in Signatures
                 PROVE  IsPromoted(s.patterns, g, s.evidence[g])
      BY DEF PatternsTrue
    <2>1. s.evidence[g] = <<>> /\ s.patterns = <<>>
      BY <1>2
    <2>2. PatternsFor(<<>>, g) = {} /\ Len(<<>>) < Reinforcement
      BY Parameters DEF PatternsFor
    <2> QED BY <2>1, <2>2 DEF IsPromoted
  <1>8. MesoTrue(s)
    BY <1>2, Parameters DEF MesoTrue
  <1>9. NothingPromised(s)
    BY <1>2 DEF NothingPromised, Range
  <1> QED BY <1>1, <1>2, <1>3, <1>5, <1>6, <1>7, <1>8, <1>9 DEF Whole

LEMMA NothingBeforeTheFirst ==
    ASSUME NEW s, Whole(s), s.turn = 0
    PROVE  Alike(s, NewSphere)
  <1>1. IsSphere(s) /\ MemoryWhole(s) /\ EvidenceTrue(s) /\ PatternsTrue(s) /\ MesoTrue(s)
    BY DEF Whole
  <1>2. s.working \in Seq(Shard) /\ s.micro \in Seq(Shard)
    BY <1>1 DEF IsSphere
  <1>3. DOMAIN Remembers(s) = {}
    <2>1. Remembers(s) \in Seq(Shard)
      BY <1>2, RemembersFacts
    <2>2. Len(Remembers(s)) = 0
      BY <1>1 DEF MemoryWhole
    <2> QED BY <2>1, <2>2, NoElements
  <1>4. s.working = <<>> /\ s.micro = <<>> /\ Len(s.micro) = 0
    <2>1. s.working = <<>> /\ s.micro = <<>>
      BY <1>2, <1>3, NothingRemembered
    <2> QED BY <2>1
  <1>5. s.meso = <<>>
    BY <1>1, <1>4, Parameters DEF MesoTrue
  <1>6. ASSUME NEW g \in Signatures
        PROVE  s.evidence[g] = <<>> /\ PatternsFor(s.patterns, g) = {}
    <2>1. IsEvidence(s.evidence[g], TurnsOf(Remembers(s), g))
      BY <1>1 DEF EvidenceTrue
    <2>3. TurnsOf(Remembers(s), g) = {}
      BY <1>3 DEF TurnsOf
    <2>4. DOMAIN (s.evidence[g]) = {}
      BY <2>1, <2>3 DEF IsEvidence
    <2>5. s.evidence[g] \in Seq(Nat)
      BY <1>1 DEF IsSphere
    <2>6. s.evidence[g] = <<>> /\ Len(s.evidence[g]) = 0
      <3>1. PICK seen \in Seq(Nat) : seen = s.evidence[g]
        BY <2>5
      <3>2. Len(seen) = 0
        <4>1. DOMAIN seen = {}
          BY <2>4, <3>1
        <4> QED BY <4>1, NoElements
      <3>3. seen = <<>>
        BY <3>2
      <3> QED BY <3>1, <3>2, <3>3
    <2>7. IsPromoted(s.patterns, g, s.evidence[g])
      BY <1>1 DEF PatternsTrue
    <2> QED BY <2>6, <2>7, Parameters DEF IsPromoted
  <1>7. s.patterns = <<>>
    <2>1. s.patterns \in Seq(Pattern)
      BY <1>1 DEF IsSphere
    <2>2. \A k \in DOMAIN s.patterns : s.patterns[k].signature \in Signatures
      <3>1. PICK patterns \in Seq(Pattern) : patterns = s.patterns
        BY <2>1
      <3>2. \A k \in DOMAIN patterns : patterns[k] \in Pattern
        OBVIOUS
      <3> QED BY <3>1, <3>2 DEF Pattern
    <2>3. DOMAIN s.patterns = {}
      BY <1>6, <2>2 DEF PatternsFor
    <2>4. PICK patterns \in Seq(Pattern) : patterns = s.patterns
      BY <2>1
    <2>5. Len(patterns) = 0
      <3>1. DOMAIN patterns = {}
        BY <2>3, <2>4
      <3> QED BY <3>1, NoElements
    <2>6. patterns = <<>>
      BY <2>5
    <2> QED BY <2>4, <2>6
  <1>8. s.evidence = [g \in Signatures |-> <<>>]
    <2>1. s.evidence \in [Signatures -> Seq(Nat)]
      BY <1>1 DEF IsSphere
    <2> QED BY <1>6, <2>1
  <1>9. PICK t : t = NewSphere
    OBVIOUS
  <1>10. /\ t.turn = 0 /\ t.working = <<>> /\ t.micro = <<>> /\ t.meso = <<>>
         /\ t.patterns = <<>> /\ t.evidence = [g \in Signatures |-> <<>>]
    BY <1>9 DEF NewSphere
  <1>11. IsSphere(t)
    BY <1>9, NewSphereWhole DEF Whole
  <1>12. Range(s.commitments) = {} /\ Range(t.commitments) = {}
    BY <1>9, NewSphereWhole DEF Whole, NothingPromised
  <1> QED BY <1>1, <1>4, <1>5, <1>7, <1>8, <1>9, <1>10, <1>11, <1>12 DEF Alike

-----------------------------------------------------------------------------
(* The inductive invariant.                                                *)

\* A capsule of the turn it is numbered with.
Good(capsule) ==
    /\ capsule.sequence \in Nat
    /\ Whole(Hydrate(capsule.state))
    /\ Hydrate(capsule.state).turn = capsule.sequence
    /\ IsStateOf(capsule.state, Hydrate(capsule.state))

\* What a worker holds is of one turn, not after the latest, and of the
\* latest turn there is one memory.
WorkerOk(memories, capsule, latest) ==
    /\ Good(capsule) /\ capsule.sequence <= latest.sequence
    /\ Whole(memories) /\ memories.turn = capsule.sequence
    /\ capsule.sequence = latest.sequence =>
          /\ Alike(memories, Hydrate(latest.state))
          /\ Alike(Hydrate(capsule.state), Hydrate(latest.state))

SphereInv ==
    /\ stored.sequence \in 0..MaxTurn /\ Good(stored)
    /\ sphere = [w \in Workers |-> sphere[w]] /\ held = [w \in Workers |-> held[w]]
    /\ \A w \in Workers : WorkerOk(sphere[w], held[w], stored)

\* The shards that wait for their links are those of the last turns.
LinkInv ==
    /\ unlinked \in Nat
    /\ \A i \in DOMAIN stored.state.working_memory :
          stored.state.working_memory[i].turn <= stored.sequence - unlinked =>
              stored.state.working_memory[i].turn \in links

(* A capsule of a whole sphere, as the worker and as the store has it.     *)
LEMMA CapturedGood ==
    ASSUME NEW s, Whole(s), NEW state, IsStateOf(state, s),
           NEW capsule, capsule.sequence = s.turn, capsule.state = state
    PROVE  Good(capsule) /\ Alike(Hydrate(capsule.state), s)
  <1>1. PICK h : h = Hydrate(state)
    OBVIOUS
  <1>2. Alike(h, s)
    BY <1>1, HydrateAlike
  <1>3. IsSphere(s) /\ IsSphere(h) /\ h.turn = s.turn
    BY <1>2 DEF Alike
  <1>4. Alike(s, h)
    BY <1>2 DEF Alike
  <1>5. Whole(h)
    BY <1>4, AlikeWhole
  <1>6. IsStateOf(state, h)
    BY <1>4, StateOfAlike
  <1>7. s.turn \in Nat
    BY <1>3 DEF IsSphere
  <1> QED BY <1>1, <1>2, <1>3, <1>5, <1>6, <1>7 DEF Good

(* A worker at its start.                                                  *)
LEMMA NewWorkerOk ==
    ASSUME NEW latest, Good(latest)
    PROVE  WorkerOk(NewSphere, [sequence |-> 0, state |-> Capture(NewSphere)], latest)
  <1>1. PICK s : s = NewSphere
    OBVIOUS
  <1>2. Whole(s) /\ s.turn = 0
    BY <1>1, NewSphereWhole
  <1>3. PICK capsule : capsule = [sequence |-> 0, state |-> Capture(s)]
    OBVIOUS
  <1>4. capsule.sequence = 0 /\ capsule.state = Capture(s)
    BY <1>3
  <1>5. IsStateOf(Capture(s), s)
    BY CaptureIsState
  <1>6. Good(capsule) /\ Alike(Hydrate(capsule.state), s)
    BY <1>2, <1>4, <1>5, CapturedGood
  <1>7. latest.sequence \in Nat
    BY DEF Good
  <1>8. ASSUME latest.sequence = 0
        PROVE  /\ Alike(s, Hydrate(latest.state))
               /\ Alike(Hydrate(capsule.state), Hydrate(latest.state))
    <2>1. Whole(Hydrate(latest.state)) /\ Hydrate(latest.state).turn = 0
      BY <1>8 DEF Good
    <2>2. Alike(Hydrate(latest.state), s)
      BY <1>1, <2>1, NothingBeforeTheFirst
    <2>3. Alike(s, Hydrate(latest.state))
      BY <2>2 DEF Alike
    <2> QED BY <1>6, <2>3, AlikeTransitive
  <1>9. WorkerOk(s, capsule, latest)
    BY <1>2, <1>4, <1>6, <1>7, <1>8 DEF WorkerOk
  <1> QED BY <1>1, <1>3, <1>9

(* A worker that has taken over the latest capsule.                        *)
LEMMA LatestWorkerOk ==
    ASSUME NEW latest, Good(latest)
    PROVE  WorkerOk(Hydrate(latest.state), latest, latest)
  <1>1. Alike(Hydrate(latest.state), Hydrate(latest.state))
    BY DEF Good, Whole, Alike
  <1> QED BY <1>1 DEF WorkerOk, Good

(* A worker that has gone back to its capsule.                             *)
LEMMA RolledBackOk ==
    ASSUME NEW memories, NEW capsule, NEW latest, WorkerOk(memories, capsule, latest)
    PROVE  WorkerOk(Hydrate(capsule.state), capsule, latest)
  BY DEF WorkerOk, Good

(* Under the lock, a worker has the latest memories.                       *)
LEMMA RefreshedOk ==
    ASSUME SphereInv, NEW w \in Workers
    PROVE  /\ WorkerOk(RefreshedSphere(w), RefreshedCapsule(w), stored)
           /\ RefreshedCapsule(w).sequence = stored.sequence
           /\ Whole(RefreshedSphere(w)) /\ RefreshedSphere(w).turn = stored.sequence
           /\ RefreshedSphere(w).working = stored.state.working_memory
  <1>1. Good(stored) /\ WorkerOk(sphere[w], held[w], stored)
    BY DEF SphereInv
  <1>2. PICK s : s = RefreshedSphere(w)
    OBVIOUS
  <1>3. PICK capsule : capsule = RefreshedCapsule(w)
    OBVIOUS
  <1>4. WorkerOk(s, capsule, stored) /\ capsule.sequence = stored.sequence
    <2>1. CASE Fresh(w)
      <3>1. s = sphere[w] /\ capsule = held[w]
        BY <1>2, <1>3, <2>1 DEF RefreshedSphere, RefreshedCapsule
      <3> QED BY <1>1, <2>1, <3>1 DEF Fresh
    <2>2. CASE ~Fresh(w)
      <3>1. s = Hydrate(stored.state) /\ capsule = stored
        BY <1>2, <1>3, <2>2 DEF RefreshedSphere, RefreshedCapsule
      <3> QED BY <1>1, <3>1, LatestWorkerOk
    <2> QED BY <2>1, <2>2
  <1>5. Whole(s) /\ s.turn = stored.sequence /\ Alike(s, Hydrate(stored.state))
    BY <1>4 DEF WorkerOk
  <1>6. s.working = stored.state.working_memory
    BY <1>1, <1>5 DEF Good, IsStateOf, Alike
  <1> QED BY <1>2, <1>3, <1>4, <1>5, <1>6

(* A turn makes a good capsule, and leaves the other workers behind.       *)
LEMMA CommittedOk ==
    ASSUME NEW s, Whole(s), NEW g \in Signatures, NEW keys \in KeyLists,
           NEW r, r = RecordTurn(s, g, keys),
           NEW capsule, capsule = [sequence |-> s.turn + 1, state |-> Capture(r)],
           NEW state \in Stored(Capture(r)),
           NEW latest, latest = [capsule EXCEPT !.state = state]
    PROVE  /\ IsNext(s, g, keys, r) /\ Whole(r) /\ r.turn = s.turn + 1
           /\ Good(latest) /\ latest.sequence = s.turn + 1
           /\ latest.state.working_memory = r.working
           /\ capsule.state.working_memory = r.working
           /\ WorkerOk(r, capsule, latest)
           /\ \A memories, c, old : WorkerOk(memories, c, old) /\ old.sequence = s.turn =>
                 WorkerOk(memories, c, latest)
  <1>1. IsSphere(s) /\ s.turn \in Nat
    BY DEF Whole, IsSphere
  <1>2. IsNext(s, g, keys, r)
    BY <1>1, RecordTurnFields
  <1>3. Whole(r) /\ r.turn = s.turn + 1
    BY <1>2, RecordTurnWhole DEF IsNext
  <1>5. /\ capsule.sequence = s.turn + 1 /\ capsule.state = Capture(r)
        /\ latest.sequence = s.turn + 1 /\ latest.state = state
    OBVIOUS
  <1>6. IsStateOf(Capture(r), r) /\ IsStateOf(state, r)
    BY CaptureIsState
  <1>7. Good(capsule) /\ Alike(Hydrate(capsule.state), r)
    BY <1>3, <1>5, <1>6, CapturedGood
  <1>8. Good(latest) /\ Alike(Hydrate(latest.state), r)
    BY <1>3, <1>5, <1>6, CapturedGood
  <1>9. Alike(r, Hydrate(latest.state))
    BY <1>8 DEF Alike
  <1>10. Alike(Hydrate(capsule.state), Hydrate(latest.state))
    BY <1>7, <1>9, AlikeTransitive
  <1>11. WorkerOk(r, capsule, latest)
    BY <1>1, <1>3, <1>5, <1>7, <1>9, <1>10 DEF WorkerOk
  <1>12. ASSUME NEW memories, NEW c, NEW old, WorkerOk(memories, c, old),
                old.sequence = s.turn
         PROVE  WorkerOk(memories, c, latest)
    <2>1. /\ Good(c) /\ c.sequence <= s.turn
          /\ Whole(memories) /\ memories.turn = c.sequence
      BY <1>12 DEF WorkerOk
    <2>2. c.sequence \in Nat
      BY <2>1 DEF Good
    <2>3. c.sequence <= latest.sequence /\ c.sequence # latest.sequence
      BY <1>1, <1>5, <2>1, <2>2
    <2> QED BY <2>1, <2>3 DEF WorkerOk
  <1>13. /\ latest.state.working_memory = r.working
         /\ capsule.state.working_memory = r.working
    BY <1>5, <1>6 DEF IsStateOf
  <1> QED BY <1>2, <1>3, <1>5, <1>8, <1>11, <1>12, <1>13

(* A new shard comes into the working memory, and only the oldest leaves.  *)
LEMMA OnlyTheOldestLeaves ==
    ASSUME NEW s, Whole(s), NEW g \in Signatures, NEW keys \in KeyLists,
           NEW r, IsNext(s, g, keys, r)
    PROVE  /\ \A i \in DOMAIN s.working :
                 \/ \E j \in DOMAIN r.working : r.working[j] = s.working[i]
                 \/ s.working[i].turn = s.turn - Capacity + 1
           /\ \A j \in DOMAIN r.working :
                 \/ \E i \in DOMAIN s.working : r.working[j] = s.working[i]
                 \/ r.working[j].turn = s.turn + 1
  <1>1. IsSphere(s) /\ MemoryWhole(s) /\ Capacity \in Nat \ {0} /\ s.turn \in Nat
    BY Parameters DEF Whole, IsSphere
  <1>2. PICK w \in Seq(Shard) : w = s.working
    BY <1>1 DEF IsSphere
  <1>3. PICK x : x = NewShard(s, g, keys)
    OBVIOUS
  <1>4. x \in Shard /\ x.turn = s.turn + 1
    <2>1. x = [turn |-> s.turn + 1, signature |-> g, keys |-> keys]
      BY <1>3 DEF NewShard
    <2> QED BY <1>1, <2>1 DEF Shard
  <1>5. PICK longer : longer = Longer(s, g, keys)
    OBVIOUS
  <1>6. PICK l \in Nat : l = Len(w) /\ DOMAIN w = 1..l
    OBVIOUS
  <1>7. longer = Append(w, x)
    BY <1>2, <1>3, <1>5 DEF Longer
  <1>8. /\ longer \in Seq(Shard) /\ Len(longer) = l + 1 /\ DOMAIN longer = 1..(l + 1)
        /\ longer[l + 1] = x /\ \A i \in 1..l : longer[i] = w[i]
    BY <1>4, <1>6, <1>7
  <1>9. l <= Capacity /\ \A i \in 1..l : w[i].turn = s.turn - l + i
    <2>1. PICK m \in Nat : m = Len(s.micro)
      <3>1. PICK micro \in Seq(Shard) : micro = s.micro
        BY <1>1 DEF IsSphere
      <3> QED BY <3>1
    <2>2. /\ Len(Remembers(s)) = m + l /\ DOMAIN Remembers(s) = 1..(m + l)
          /\ \A i \in 1..l : Remembers(s)[m + i] = w[i]
      BY <1>1, <1>2, <1>6, <2>1, RemembersFacts DEF IsSphere
    <2>3. s.turn = m + l /\ l <= Capacity
      BY <1>1, <1>2, <1>6, <2>2 DEF MemoryWhole
    <2>4. ASSUME NEW i \in 1..l
          PROVE  w[i].turn = s.turn - l + i
      <3>1. m + i \in 1..(m + l) /\ m + i = s.turn - l + i
        BY <2>3
      <3>2. Remembers(s)[m + i].turn = m + i
        BY <1>1, <2>2, <3>1 DEF MemoryWhole
      <3> QED BY <2>2, <3>1, <3>2
    <2> QED BY <2>3, <2>4
  <1>10. CASE l < Capacity
    <2>1. r.working = longer
      BY <1>1, <1>5, <1>8, <1>10 DEF IsNext
    <2>2. ASSUME NEW i \in 1..l
          PROVE  i \in DOMAIN longer /\ longer[i] = w[i]
      BY <1>8
    <2>3. \A j \in DOMAIN longer : j \in 1..l \/ longer[j] = x
      BY <1>8
    <2> QED BY <1>2, <1>4, <1>6, <1>8, <2>1, <2>2, <2>3
  <1>11. CASE l = Capacity
    <2>1. r.working = Tail(longer)
      BY <1>1, <1>5, <1>8, <1>11 DEF IsNext
    <2>2. PICK back : back = Tail(longer)
      OBVIOUS
    <2>3. DOMAIN back = 1..l /\ \A j \in 1..l : back[j] = longer[j + 1]
      <3>1. longer # <<>>
        BY <1>8
      <3>2. /\ back \in Seq(Shard) /\ Len(back) = Len(longer) - 1
            /\ \A j \in 1..Len(back) : back[j] = longer[j + 1]
        BY <1>8, <2>2, <3>1, HeadTailProperties
      <3>3. Len(back) = l
        BY <1>8, <3>2
      <3> QED BY <3>2, <3>3, NoElements
    <2>4. ASSUME NEW i \in 1..l
          PROVE  \/ \E j \in DOMAIN back : back[j] = w[i]
                 \/ w[i].turn = s.turn - Capacity + 1
      <3>1. CASE i = 1
        BY <1>1, <1>9, <1>11, <3>1
      <3>2. CASE i # 1
        <4>1. i - 1 \in 1..l /\ (i - 1) + 1 = i
          BY <3>2
        <4>2. back[i - 1] = w[i]
          BY <1>8, <2>3, <4>1
        <4> QED BY <2>3, <4>1, <4>2
      <3> QED BY <3>1, <3>2
    <2>5. ASSUME NEW j \in 1..l
          PROVE  (\E i \in 1..l : back[j] = w[i]) \/ back[j].turn = s.turn + 1
      <3>1. CASE j = l
        BY <1>4, <1>8, <2>3, <3>1
      <3>2. CASE j # l
        <4>1. j + 1 \in 1..l
          BY <3>2
        <4>2. back[j] = w[j + 1]
          BY <1>8, <2>3, <4>1
        <4> QED BY <4>1, <4>2
      <3> QED BY <3>1, <3>2
    <2>6. s.working = w /\ DOMAIN w = 1..l /\ r.working = back /\ DOMAIN back = 1..l
      BY <1>2, <1>6, <2>1, <2>2, <2>3
    <2>7. \A i \in DOMAIN s.working :
             \/ \E j \in DOMAIN r.working : r.working[j] = s.working[i]
             \/ s.working[i].turn = s.turn - Capacity + 1
      BY <2>4, <2>6
    <2>8. \A j \in DOMAIN r.working :
             \/ \E i \in DOMAIN s.working : r.working[j] = s.working[i]
             \/ r.working[j].turn = s.turn + 1
      BY <2>5, <2>6
    <2> QED BY <2>7, <2>8
  <1> QED BY <1>1, <1>9, <1>10, <1>11

-----------------------------------------------------------------------------
(* The steps.                                                              *)

(* One worker's memories change, of the same or of a new capsule.          *)
LEMMA WorkersUpdated ==
    ASSUME SphereInv, NEW w \in Workers, NEW memories, NEW capsule,
           sphere' = [sphere EXCEPT ![w] = memories],
           held' = [held EXCEPT ![w] = capsule],
           stored'.sequence \in 0..MaxTurn, Good(stored'),
           WorkerOk(memories, capsule, stored'),
           \A v \in Workers : WorkerOk(sphere[v], held[v], stored')
    PROVE  SphereInv'
  <1>1. sphere = [v \in Workers |-> sphere[v]] /\ held = [v \in Workers |-> held[v]]
    BY DEF SphereInv
  <1>2. /\ sphere' = [v \in Workers |-> sphere'[v]]
        /\ held' = [v \in Workers |-> held'[v]]
    BY <1>1
  <1>3. ASSUME NEW v \in Workers
        PROVE  WorkerOk(sphere'[v], held'[v], stored')
    <2>1. CASE v = w
      <3>1. sphere'[v] = memories /\ held'[v] = capsule
        BY <1>1, <2>1
      <3> QED BY <3>1
    <2>2. CASE v # w
      <3>1. sphere'[v] = sphere[v] /\ held'[v] = held[v]
        BY <1>1, <2>2
      <3> QED BY <3>1
    <2> QED BY <2>1, <2>2
  <1> QED BY <1>2, <1>3 DEF SphereInv

LEMMA InitSphere ==
    ASSUME Init
    PROVE  SphereInv /\ LinkInv
  <1>1. PICK s : s = NewSphere
    OBVIOUS
  <1>2. Whole(s) /\ s.turn = 0 /\ s.working = <<>>
    BY <1>1, NewSphereWhole DEF NewSphere
  <1>3. /\ stored \in [sequence : {0}, state : Stored(Capture(s))]
        /\ held = [w \in Workers |-> [sequence |-> 0, state |-> Capture(NewSphere)]]
        /\ sphere = [w \in Workers |-> NewSphere] /\ unlinked = 0
    BY <1>1 DEF Init
  <1>4. PICK state \in Stored(Capture(s)) : stored.state = state
    BY <1>3
  <1>5. stored.sequence = 0 /\ stored.state = state
    BY <1>3, <1>4
  <1>6. IsStateOf(state, s)
    BY <1>4, CaptureIsState
  <1>7. Good(stored)
    BY <1>2, <1>5, <1>6, CapturedGood
  <1>8. \A w \in Workers : WorkerOk(sphere[w], held[w], stored)
    BY <1>3, <1>7, NewWorkerOk
  <1>9. stored.state.working_memory = <<>>
    BY <1>2, <1>5, <1>6 DEF IsStateOf
  <1>10. LinkInv
    BY <1>3, <1>9 DEF LinkInv
  <1>11. stored.sequence \in 0..MaxTurn
    BY <1>5, SphereAssumption
  <1>12. /\ sphere = [w \in Workers |-> sphere[w]]
         /\ held = [w \in Workers |-> held[w]]
    BY <1>3
  <1> QED BY <1>7, <1>8, <1>10, <1>11, <1>12 DEF SphereInv

\* The shards that leave the working memory have their links, or there were
\* too many turns without.
NoneForgotten ==
    \A shard \in Range(stored.state.working_memory) :
        \/ shard \in Range(stored'.state.working_memory)
        \/ shard.turn \in links'
        \/ unlinked >= Capacity

LEMMA SameStored ==
    ASSUME stored' = stored
    PROVE  NoneForgotten
  BY DEF NoneForgotten

(* A turn that commits.                                                    *)
LEMMA TurnStep ==
    ASSUME SphereInv, LinkInv, NEW w \in Workers, NEW g \in Signatures,
           NEW keys \in KeyLists, Turn(w, g, keys)
    PROVE  SphereInv' /\ LinkInv' /\ NoneForgotten
  <1>1. PICK s : s = RefreshedSphere(w)
    OBVIOUS
  <1>2. PICK r : r = RecordTurn(s, g, keys)
    OBVIOUS
  <1>3. PICK capsule : capsule = [sequence |-> s.turn + 1, state |-> Capture(r)]
    OBVIOUS
  <1>4. /\ Whole(s) /\ s.turn = stored.sequence
        /\ s.working = stored.state.working_memory
    BY <1>1, RefreshedOk
  <1>5. /\ s.turn \in Nat /\ s.turn < MaxTurn
        /\ \E state \in Stored(Capture(r)) : stored' = [capsule EXCEPT !.state = state]
        /\ \/ Keeps(w, r, capsule) /\ Linked(capsule)
           \/ CutOff(w, capsule, 1)
    <2>1. s.turn \in Nat
      BY <1>4 DEF Whole, IsSphere
    <2>2. /\ capsule = [sequence |-> stored.sequence + 1, state |-> Capture(r)]
          /\ capsule.state = Capture(r)
      BY <1>3, <1>4
    <2> QED BY <1>1, <1>2, <1>4, <2>1, <2>2 DEF Turn
  <1>6. /\ IsNext(s, g, keys, r) /\ Whole(r) /\ r.turn = s.turn + 1
        /\ Good(stored') /\ stored'.sequence = s.turn + 1
        /\ stored'.state.working_memory = r.working
        /\ capsule.state.working_memory = r.working
        /\ WorkerOk(r, capsule, stored')
        /\ \A memories, c, old : WorkerOk(memories, c, old) /\ old.sequence = s.turn =>
              WorkerOk(memories, c, stored')
    BY <1>2, <1>3, <1>4, <1>5, CommittedOk
  <1>7. \A v \in Workers : WorkerOk(sphere[v], held[v], stored')
    BY <1>4, <1>6 DEF SphereInv
  <1>8. stored'.sequence \in 0..MaxTurn
    BY <1>5, <1>6, SphereAssumption
  <1>9. r.working \in Seq(Shard) /\ DOMAIN r.working = 1..Len(r.working)
    <2>1. r.working \in Seq(Shard)
      BY <1>6 DEF Whole, IsSphere
    <2> QED BY <2>1, NoElements
  <1>10. /\ unlinked \in Nat /\ unlinked' \in Nat
         /\ links \subseteq links'
         /\ unlinked' = unlinked + 1 \/
               (unlinked' = 0 /\ \A i \in DOMAIN r.working : r.working[i].turn \in links')
    <2>0. unlinked \in Nat
      BY DEF LinkInv
    <2>1. CASE Linked(capsule)
      <3>1. links' = links \cup {r.working[i].turn : i \in 1..Len(r.working)}
        BY <1>6, <2>1 DEF Linked, LinksOf, Shards
      <3>2. unlinked' = 0
        BY <2>1 DEF Linked
      <3> QED BY <1>9, <2>0, <3>1, <3>2
    <2>2. CASE CutOff(w, capsule, 1)
      BY <2>0, <2>2 DEF CutOff, LinksOf
    <2> QED BY <1>5, <2>1, <2>2
  <1>11. SphereInv'
    <2>1. CASE Keeps(w, r, capsule)
      BY <1>6, <1>7, <1>8, <2>1, WorkersUpdated DEF Keeps
    <2>2. CASE CutOff(w, capsule, 1)
      <3>1. PICK c : c = [sequence |-> 0, state |-> Capture(NewSphere)]
        OBVIOUS
      <3>2. WorkerOk(NewSphere, c, stored')
        BY <1>6, <3>1, NewWorkerOk
      <3>3. /\ sphere' = [sphere EXCEPT ![w] = NewSphere]
            /\ held' = [held EXCEPT ![w] = c]
        BY <2>2, <3>1 DEF CutOff
      <3> QED BY <1>6, <1>7, <1>8, <3>2, <3>3, WorkersUpdated
    <2> QED BY <1>5, <2>1, <2>2
  <1>12. LinkInv'
    <2>1. ASSUME NEW j \in DOMAIN r.working, r.working[j].turn <= s.turn + 1 - unlinked'
          PROVE  r.working[j].turn \in links'
      <3>1. CASE unlinked' = unlinked + 1
        <4>1. r.working[j].turn <= s.turn - unlinked
          BY <1>5, <1>10, <2>1, <3>1
        <4>2. r.working[j].turn # s.turn + 1
          BY <1>5, <1>10, <4>1
        <4>3. PICK i \in DOMAIN s.working : r.working[j] = s.working[i]
          BY <1>4, <1>6, <4>2, OnlyTheOldestLeaves
        <4>4. s.working[i].turn \in links
          BY <1>4, <4>1, <4>3 DEF LinkInv
        <4> QED BY <1>10, <4>3, <4>4
      <3>2. CASE unlinked' # unlinked + 1
        BY <1>10, <3>2
      <3> QED BY <3>1, <3>2
    <2>4. \A j \in DOMAIN r.working :
             r.working[j].turn <= s.turn + 1 - unlinked' => r.working[j].turn \in links'
      BY <2>1
    <2>5. \A j \in DOMAIN stored'.state.working_memory :
             stored'.state.working_memory[j].turn <= stored'.sequence - unlinked' =>
                 stored'.state.working_memory[j].turn \in links'
      <3>1. PICK shards : shards = r.working
        OBVIOUS
      <3>2. PICK m : m = s.turn + 1 - unlinked'
        OBVIOUS
      <3>3. \A j \in DOMAIN shards : shards[j].turn <= m => shards[j].turn \in links'
        BY <2>4, <3>1, <3>2
      <3>4. stored'.state.working_memory = shards
        BY <1>6, <3>1
      <3>5. stored'.sequence - unlinked' = m
        <4>1. stored'.sequence = s.turn + 1 /\ s.turn \in Nat /\ unlinked' \in Nat
          BY <1>5, <1>6, <1>10
        <4> QED BY ONLY <3>2, <4>1
      <3>6. ASSUME NEW j \in DOMAIN shards
            PROVE  shards[j].turn <= stored'.sequence - unlinked' => shards[j].turn \in links'
        BY <3>3, <3>5
      <3> QED BY <3>4, <3>6
    <2> QED BY <1>10, <2>5 DEF LinkInv
  <1>13. NoneForgotten
    <2> SUFFICES ASSUME NEW shard \in Range(s.working), unlinked < Capacity,
                        ~(shard \in Range(r.working))
                 PROVE  shard.turn \in links'
      BY <1>4, <1>6, <1>10, Parameters DEF NoneForgotten
    <2>1. PICK i \in DOMAIN s.working : shard = s.working[i]
      BY DEF Range
    <2>2. ~\E j \in DOMAIN r.working : r.working[j] = s.working[i]
      BY <2>1 DEF Range
    <2>3. s.working[i].turn = s.turn - Capacity + 1
      BY <1>4, <1>6, <2>2, OnlyTheOldestLeaves
    <2>4. s.working[i].turn <= stored.sequence - unlinked
      BY <1>4, <1>5, <1>10, <2>3, Parameters
    <2>5. s.working[i].turn \in links
      BY <1>4, <2>4 DEF LinkInv
    <2> QED BY <1>10, <2>1, <2>5
  <1> QED BY <1>11, <1>12, <1>13

(* A turn that fails.                                                      *)
LEMMA FailedTurnStep ==
    ASSUME SphereInv, LinkInv, NEW w \in Workers, FailedTurn(w)
    PROVE  SphereInv' /\ LinkInv' /\ NoneForgotten
  <1>1. /\ stored' = stored /\ links' = links /\ unlinked' = unlinked
        /\ Keeps(w, Hydrate(RefreshedCapsule(w).state), RefreshedCapsule(w))
    BY DEF FailedTurn
  <1>2. LinkInv'
    BY <1>1 DEF LinkInv
  <1>3. PICK c : c = RefreshedCapsule(w)
    OBVIOUS
  <1>4. PICK s : s = Hydrate(c.state)
    OBVIOUS
  <1>5. WorkerOk(s, c, stored)
    BY <1>3, <1>4, RefreshedOk, RolledBackOk
  <1>6. sphere' = [sphere EXCEPT ![w] = s] /\ held' = [held EXCEPT ![w] = c]
    BY <1>1, <1>3, <1>4 DEF Keeps
  <1>7. /\ stored'.sequence \in 0..MaxTurn /\ Good(stored')
        /\ \A v \in Workers : WorkerOk(sphere[v], held[v], stored')
    BY <1>1 DEF SphereInv
  <1>8. WorkerOk(s, c, stored')
    BY <1>1, <1>5
  <1>9. SphereInv'
    BY <1>6, <1>7, <1>8, WorkersUpdated
  <1> QED BY <1>1, <1>2, <1>9, SameStored

(* A boot.                                                                 *)
LEMMA RestartStep ==
    ASSUME SphereInv, LinkInv, NEW w \in Workers, Restart(w)
    PROVE  SphereInv' /\ LinkInv' /\ NoneForgotten
  <1>1. /\ stored' = stored
        /\ \/ Keeps(w, Hydrate(stored.state), stored) /\ Linked(stored)
           \/ CutOff(w, stored, 0)
    BY DEF Restart
  <1>2. /\ Good(stored) /\ Good(stored') /\ stored'.sequence \in 0..MaxTurn
        /\ \A v \in Workers : WorkerOk(sphere[v], held[v], stored')
    BY <1>1 DEF SphereInv
  <1>3. PICK s : s = Hydrate(stored.state)
    OBVIOUS
  <1>4. SphereInv'
    <2>1. CASE Keeps(w, Hydrate(stored.state), stored)
      <3>1. WorkerOk(s, stored, stored')
        BY <1>1, <1>2, <1>3, LatestWorkerOk
      <3>2. sphere' = [sphere EXCEPT ![w] = s] /\ held' = [held EXCEPT ![w] = stored]
        BY <1>3, <2>1 DEF Keeps
      <3> QED BY <1>2, <3>1, <3>2, WorkersUpdated
    <2>2. CASE CutOff(w, stored, 0)
      <3>1. PICK c : c = [sequence |-> 0, state |-> Capture(NewSphere)]
        OBVIOUS
      <3>2. WorkerOk(NewSphere, c, stored')
        BY <1>2, <3>1, NewWorkerOk
      <3>3. /\ sphere' = [sphere EXCEPT ![w] = NewSphere]
            /\ held' = [held EXCEPT ![w] = c]
        BY <2>2, <3>1 DEF CutOff
      <3> QED BY <1>2, <3>2, <3>3, WorkersUpdated
    <2> QED BY <1>1, <2>1, <2>2
  <1>5. LinkInv'
    <2>1. PICK shards : shards = stored.state.working_memory
      OBVIOUS
    <2>2. DOMAIN shards = 1..Len(shards)
      <3>1. shards \in Seq(Shard)
        BY <1>2, <2>1 DEF Good, Whole, IsSphere, IsStateOf
      <3> QED BY <3>1, NoElements
    <2>3. CASE Linked(stored)
      <3>1. links' = links \cup {shards[i].turn : i \in 1..Len(shards)}
        BY <2>1, <2>3 DEF Linked, LinksOf, Shards
      <3>2. unlinked' = 0
        BY <2>3 DEF Linked
      <3>3. \A i \in DOMAIN shards : shards[i].turn \in links'
        BY <2>2, <3>1
      <3> QED BY <1>1, <2>1, <3>2, <3>3 DEF LinkInv
    <2>4. CASE CutOff(w, stored, 0)
      <3>1. links \subseteq links' /\ unlinked' = unlinked
        BY <2>4 DEF CutOff, LinksOf, LinkInv
      <3> QED BY <1>1, <3>1 DEF LinkInv
    <2> QED BY <1>1, <2>3, <2>4
  <1> QED BY <1>1, <1>4, <1>5, SameStored

LEMMA NextStep ==
    ASSUME SphereInv, LinkInv, [Next]_vars
    PROVE  SphereInv' /\ LinkInv' /\ NoneForgotten
  <1>1. ASSUME UNCHANGED vars
        PROVE  SphereInv' /\ LinkInv' /\ NoneForgotten
    <2>1. /\ sphere' = sphere /\ held' = held /\ stored' = stored
          /\ links' = links /\ unlinked' = unlinked
      BY <1>1 DEF vars
    <2>2. SphereInv'
      BY <2>1 DEF SphereInv
    <2>3. LinkInv'
      BY <2>1 DEF LinkInv
    <2> QED BY <2>1, <2>2, <2>3, SameStored
  <1>2. ASSUME Next
        PROVE  SphereInv' /\ LinkInv' /\ NoneForgotten
    <2>1. PICK w \in Workers : \/ \E g \in Signatures, keys \in KeyLists : Turn(w, g, keys)
                               \/ FailedTurn(w)
                               \/ Restart(w)
      BY <1>2 DEF Next
    <2>2. CASE \E g \in Signatures, keys \in KeyLists : Turn(w, g, keys)
      BY <2>2, TurnStep
    <2>3. CASE FailedTurn(w)
      BY <2>3, FailedTurnStep
    <2>4. CASE Restart(w)
      BY <2>4, RestartStep
    <2> QED BY <2>1, <2>2, <2>3, <2>4
  <1> QED BY <1>1, <1>2

LEMMA AlwaysWhole == Spec => [](SphereInv /\ LinkInv)
  <1>1. Init => SphereInv /\ LinkInv
    BY InitSphere
  <1>2. SphereInv /\ LinkInv /\ [Next]_vars => SphereInv' /\ LinkInv'
    BY NextStep
  <1> QED BY <1>1, <1>2, PTL DEF Spec

-----------------------------------------------------------------------------
(* Theorems.                                                               *)

(* The memories of every worker are within their bounds, and no worker is  *)
(* ahead of the latest capsule.                                            *)
THEOREM TypeCorrect == Spec => []TypeOK
  <1>1. SphereInv => TypeOK
    <2> SUFFICES ASSUME SphereInv
                 PROVE  TypeOK
      OBVIOUS
    <2>1. stored.sequence \in 0..MaxTurn /\ MaxTurn \in Nat
      BY SphereAssumption DEF SphereInv
    <2>2. ASSUME NEW w \in Workers
          PROVE  /\ held[w].sequence \in 0..stored.sequence
                 /\ sphere[w].turn \in 0..MaxTurn
                 /\ Len(sphere[w].working) <= Capacity
                 /\ Len(sphere[w].meso) <= 3 * MesoWindow
      <3>1. WorkerOk(sphere[w], held[w], stored)
        BY DEF SphereInv
      <3>2. /\ held[w].sequence <= stored.sequence /\ held[w].sequence \in Nat
            /\ sphere[w].turn = held[w].sequence /\ Whole(sphere[w])
        BY <3>1 DEF WorkerOk, Good
      <3>3. /\ Len(sphere[w].working) <= Capacity
            /\ Len(sphere[w].meso) <= 3 * MesoWindow
        BY <3>2 DEF Whole, MemoryWhole, MesoTrue
      <3> QED BY <2>1, <3>2, <3>3
    <2> QED BY <2>1, <2>2 DEF TypeOK
  <1> QED BY <1>1, AlwaysWhole, PTL

(* Across workers, failures and restarts, the working memory and the micro *)
(* segments of every worker hold every turn once and in order.             *)
THEOREM NoTurnForgotten == Spec => []TurnsRemembered
  <1>1. SphereInv => TurnsRemembered
    BY DEF SphereInv, WorkerOk, Whole, MemoryWhole, TurnsRemembered
  <1> QED BY <1>1, AlwaysWhole, PTL

(* Whatever order the turns of the signatures come in, and however often   *)
(* the evidence is put away and read back, a signature is promoted once,   *)
(* with its first turns.                                                   *)
THEOREM PromotedOnce == Spec => []PatternsOnce
  <1>1. SphereInv => PatternsOnce
    <2> SUFFICES ASSUME SphereInv, NEW w \in Workers, NEW g \in Signatures
                 PROVE  LET s == sphere[w]
                            all == Remembers(s)
                            turns == {i \in DOMAIN all : all[i].signature = g}
                            promoted == {k \in DOMAIN s.patterns :
                                            s.patterns[k].signature = g}
                        IN IF Cardinality(turns) < Reinforcement THEN promoted = {}
                           ELSE \E k \in promoted :
                                   /\ promoted = {k}
                                   /\ AreFirst(s.patterns[k].turns, Reinforcement, turns)
      BY DEF PatternsOnce
    <2>1. PICK s : s = sphere[w]
      OBVIOUS
    <2>2. Whole(s) /\ IsSphere(s)
      BY <2>1 DEF SphereInv, WorkerOk, Whole
    <2>3. PICK seen \in Seq(Nat) : seen = s.evidence[g]
      BY <2>2 DEF IsSphere
    <2>4. PICK turns : turns = TurnsOf(Remembers(s), g)
      OBVIOUS
    <2>5. IsEvidence(seen, turns)
      BY <2>2, <2>3, <2>4 DEF Whole, EvidenceTrue
    <2>6. IsPromoted(s.patterns, g, seen)
      BY <2>2, <2>3 DEF Whole, PatternsTrue
    <2>7. Cardinality(turns) = Len(seen)
      BY <2>5 DEF IsEvidence
    <2>8. ASSUME NEW k \in DOMAIN s.patterns, HasFirst(s.patterns[k], seen),
                 ~(Len(seen) < Reinforcement)
          PROVE  AreFirst(s.patterns[k].turns, Reinforcement, turns)
      <3>1. PICK first : first = s.patterns[k].turns
        OBVIOUS
      <3>2. PICK n \in Nat \ {0} : n = Reinforcement
        BY Parameters
      <3>3. PICK l \in Nat : l = Len(seen) /\ DOMAIN seen = 1..l
        OBVIOUS
      <3>4. first \in Seq(Nat)
        <4>1. PICK patterns \in Seq(Pattern) : patterns = s.patterns
          BY <2>2 DEF IsSphere
        <4>2. patterns[k] \in Pattern
          BY <2>8, <4>1
        <4> QED BY <3>1, <4>1, <4>2 DEF Pattern
      <3>5. Len(first) = n /\ \A i \in 1..n : first[i] = seen[i]
        BY <2>8, <3>1, <3>2 DEF HasFirst
      <3>6. /\ n <= l
            /\ \A i, j \in 1..l : i < j => seen[i] < seen[j]
            /\ \A i \in 1..l : seen[i] \in turns
            /\ \A t \in turns : \E i \in 1..l : seen[i] = t
        <4>1. n <= l
          BY <2>8, <3>2, <3>3
        <4>2. /\ \A i, j \in 1..l : i < j => seen[i] < seen[j]
              /\ \A i \in 1..l : seen[i] \in turns
              /\ \A t \in turns : \E i \in 1..l : seen[i] = t
          BY <2>5, <3>3 DEF IsEvidence
        <4> QED BY <4>1, <4>2
      <3>7. first \in Seq(turns)
        <4>1. \A i \in 1..n : first[i] \in turns
          BY <3>5, <3>6
        <4>2. DOMAIN first = 1..n
          BY <3>4, <3>5, NoElements
        <4>3. first = [i \in 1..n |-> first[i]]
          BY <3>4, <4>2
        <4> QED BY <4>1, <4>3
      <3>8. \A i, j \in 1..n : i < j => first[i] < first[j]
        BY <3>5, <3>6
      <3>9. ASSUME NEW t \in turns
            PROVE  t \in Range(first) \/ t > first[n]
        <4>1. PICK i \in 1..l : seen[i] = t
          BY <3>6
        <4>2. CASE i <= n
          <5>1. DOMAIN first = 1..n
            BY <3>4, <3>5, NoElements
          <5> QED BY <3>5, <4>1, <4>2, <5>1 DEF Range
        <4>3. CASE i > n
          <5>1. n \in 1..l /\ n \in 1..n
            BY <3>6
          <5>2. seen[n] < seen[i] /\ first[n] = seen[n]
            BY <3>5, <3>6, <4>3, <5>1
          <5>3. seen[n] \in Nat /\ seen[i] \in Nat
            BY <3>3, <5>1
          <5> QED BY <4>1, <5>2, <5>3
        <4> QED BY <4>2, <4>3
      <3> QED BY <3>1, <3>2, <3>5, <3>7, <3>8, <3>9 DEF AreFirst
    <2>9. CASE Len(seen) < Reinforcement
      <3>1. PatternsFor(s.patterns, g) = {}
        BY <2>6, <2>9 DEF IsPromoted
      <3> QED BY <2>1, <2>4, <2>7, <2>9, <3>1 DEF PatternsFor, TurnsOf
    <2>10. CASE ~(Len(seen) < Reinforcement)
      <3>1. PICK k \in DOMAIN s.patterns :
               PatternsFor(s.patterns, g) = {k} /\ HasFirst(s.patterns[k], seen)
        BY <2>6, <2>10 DEF IsPromoted
      <3>2. AreFirst(s.patterns[k].turns, Reinforcement, turns)
        BY <2>8, <2>10, <3>1
      <3> QED BY <2>1, <2>4, <2>7, <2>10, <3>1, <3>2 DEF PatternsFor, TurnsOf
    <2> QED BY <2>9, <2>10
  <1> QED BY <1>1, AlwaysWhole, PTL

(* The meso segments are the last windows, each one turn after the one     *)
(* before it.                                                              *)
THEOREM WindowsSlide == Spec => []MesoSlides
  <1>1. SphereInv => MesoSlides
    BY DEF SphereInv, WorkerOk, Whole, MesoTrue, MesoSlides
  <1> QED BY <1>1, AlwaysWhole, PTL

(* Fewer turns in a row without links than the working memory holds leave  *)
(* no shard without its links.                                             *)
THEOREM LinkedInTime == Spec => LinksBeforeForgotten
  <1>1. SphereInv /\ LinkInv /\ [Next]_vars => [NoneForgotten]_vars
    BY NextStep
  <1> QED BY <1>1, AlwaysWhole, PTL DEF Spec, LinksBeforeForgotten, NoneForgotten

(* A worker that carries on and one that restarts from the same capsule    *)
(* have the same turn, memories and evidence, and the same commitments in  *)
(* whatever order the store has put them.                                  *)
THEOREM RestartIsAlike == Spec => []RestartKeepsMemories
  <1>1. SphereInv => RestartKeepsMemories
    <2> SUFFICES ASSUME SphereInv, NEW w \in Live
                 PROVE  /\ [sphere[w] EXCEPT !.commitments = <<>>] =
                               [Hydrate(stored.state) EXCEPT !.commitments = <<>>]
                        /\ Range(sphere[w].commitments) =
                               Range(Hydrate(stored.state).commitments)
      BY DEF RestartKeepsMemories
    <2>1. PICK s : s = sphere[w]
      OBVIOUS
    <2>2. PICK t : t = Hydrate(stored.state)
      OBVIOUS
    <2>3. Alike(s, t)
      BY <2>1, <2>2 DEF Live, Fresh, SphereInv, WorkerOk
    <2>4. [s EXCEPT !.commitments = <<>>] = [t EXCEPT !.commitments = <<>>]
      BY <2>3 DEF Alike, IsSphere
    <2>5. Range(s.commitments) = Range(t.commitments)
      BY <2>3 DEF Alike
    <2> QED BY <2>1, <2>2, <2>4, <2>5
  <1> QED BY <1>1, AlwaysWhole, PTL
=============================================================================
