--------------------------- MODULE MemoryLakeProofs ---------------------------
(***************************************************************************)
(* TLAPS proofs about MemoryLake, for any number of workers, documents,    *)
(* texts and shards: the types, the history that is never rewritten, the   *)
(* one way half a revision gets in, and, under the runtime lock, the audit *)
(* chain and the current revisions.                                        *)
(***************************************************************************)
EXTENDS MemoryLake, TLAPS

-----------------------------------------------------------------------------
(* What holds of one state of the tables.                                  *)

Holds(tables, r, i) ==
    \E f \in tables.fragments :
        f.doc = r.doc /\ f.ordinal = r.ordinal /\ f.text = r.text /\ f.index = i

\* HalfOnlyIfRepeated, of these tables.
HalfOnly(tables) ==
    \A r \in tables.revisions : \A i \in DOMAIN r.text :
        ~Holds(tables, r, i) =>
            \E j \in 1..i :
                /\ \A n \in 1..(j - 1) : Holds(tables, r, n)
                /\ \E f \in tables.fragments :
                      f.index = j /\ f.body = r.text[j] /\ ~Holds(tables, r, j)

\* A fragment belongs to a revision.
Owned(tables) ==
    \A f \in tables.fragments : \E r \in tables.revisions :
        r.doc = f.doc /\ r.ordinal = f.ordinal /\ r.text = f.text

\* The audit events have a last one, none is later than "now", and each
\* names an earlier one.
Audited(tables, now) ==
    /\ \E h \in {e.at : e \in tables.audit} \cup {0} :
          \A e \in tables.audit : e.at <= h
    /\ \A e \in tables.audit : e.prev < e.at /\ e.at <= now

\* CurrentIsNewest and AuditChain, of these tables.
Newest(tables) ==
    \A r, s \in tables.revisions : r.doc = s.doc =>
        /\ r.lifecycle = "current" => s.ordinal <= r.ordinal
        /\ r.ordinal = s.ordinal => r = s

Chained(tables) == \A e, g \in tables.audit : e.prev = g.prev => e = g

Sound(tables, now) ==
    /\ tables \in Tables
    /\ Owned(tables) /\ HalfOnly(tables) /\ Audited(tables, now)
    /\ serial => Newest(tables) /\ Chained(tables)

\* What HistoryKept says of two states of the tables.
Keeps(old, new) ==
    /\ old.fragments \subseteq new.fragments
    /\ old.links \subseteq new.links
    /\ old.audit \subseteq new.audit
    /\ \A r \in old.revisions :
          r \in new.revisions \/ [r EXCEPT !.lifecycle = "superseded"] \in new.revisions

(* What is kept twice is kept.                                             *)
LEMMA KeepsTwice ==
    ASSUME NEW S \in Tables, NEW T \in Tables, NEW U \in Tables,
           Keeps(S, T), Keeps(T, U)
    PROVE  Keeps(S, U)
  <1> SUFFICES ASSUME NEW r \in S.revisions
               PROVE  \/ r \in U.revisions
                      \/ [r EXCEPT !.lifecycle = "superseded"] \in U.revisions
    BY DEF Keeps
  <1> DEFINE old == [r EXCEPT !.lifecycle = "superseded"]
  <1>1. [old EXCEPT !.lifecycle = "superseded"] = old
    BY DEF Tables, Revisions
  <1>2. r \in T.revisions \/ old \in T.revisions
    BY DEF Keeps
  <1> HIDE DEF old
  <1> QED BY <1>1, <1>2 DEF Keeps, old

-----------------------------------------------------------------------------
(* The statements of ingest().                                             *)

(* The head of the audit chain is not before any event.                    *)
LEMMA HeadFacts ==
    ASSUME NEW T \in Tables, NEW now \in Nat, Audited(T, now)
    PROVE  /\ AuditHead(T) \in Nat
           /\ AuditHead(T) <= now
           /\ \A e \in T.audit : e.at <= AuditHead(T)
  <1> DEFINE times == {e.at : e \in T.audit} \cup {0}
  <1>1. /\ times \subseteq Nat
        /\ \A h \in times : h <= now
        /\ \A e \in T.audit : e.at \in times
    BY DEF Tables, Events, Audited
  <1>2. \E h \in times : \A t \in times : h >= t
    BY <1>1 DEF Audited
  <1> HIDE DEF times
  <1>3. /\ Max(times) \in times
        /\ \A t \in times : Max(times) >= t
    BY <1>2 DEF Max
  <1>4. AuditHead(T) = Max(times)
    BY DEF AuditHead, times
  <1> QED BY <1>1, <1>3, <1>4

(* An event that names the head extends the audit chain.                   *)
LEMMA EventAdded ==
    ASSUME NEW T \in Tables, NEW now \in Nat, NEW e \in Events, Audited(T, now),
           e.prev < e.at, e.at <= now,
           NEW U \in Tables, U.audit = T.audit \cup {e}
    PROVE  /\ Audited(U, now)
           /\ Chained(T) /\ e.prev = AuditHead(T) => Chained(U)
  <1>1. /\ \A g \in T.audit : g.at \in Nat /\ g.prev \in Nat
        /\ e.at \in Nat /\ e.prev \in Nat
    BY DEF Tables, Events
  <1>2. Audited(U, now)
    <2>1. PICK h \in {g.at : g \in T.audit} \cup {0} : \A g \in T.audit : g.at <= h
      BY DEF Audited
    <2>2. h \in Nat
      BY <1>1, <2>1
    <2>3. CASE h <= e.at
      <3>1. \A g \in U.audit : g.at <= e.at
        BY <1>1, <2>1, <2>2, <2>3
      <3>2. e.at \in {g.at : g \in U.audit} \cup {0}
        OBVIOUS
      <3> QED BY <3>1, <3>2 DEF Audited
    <2>4. CASE e.at <= h
      <3>1. \A g \in U.audit : g.at <= h
        BY <2>1, <2>4
      <3>2. h \in {g.at : g \in U.audit} \cup {0}
        OBVIOUS
      <3> QED BY <3>1, <3>2 DEF Audited
    <2> QED BY <1>1, <2>2, <2>3, <2>4
  <1>3. ASSUME Chained(T), e.prev = AuditHead(T) PROVE Chained(U)
    <2>1. \A g \in T.audit : g.prev # e.prev
      BY <1>1, <1>3, HeadFacts DEF Audited
    <2> QED BY <1>3, <2>1 DEF Chained
  <1> QED BY <1>2, <1>3

(* A later clock changes nothing.                                          *)
LEMMA AuditedLater ==
    ASSUME NEW T \in Tables, NEW now \in Nat, NEW then \in Nat, now <= then,
           Audited(T, now)
    PROVE  Audited(T, then)
  BY DEF Audited, Tables, Events

(* The UPDATE of the lifecycle.                                            *)
LEMMA SupersededFacts ==
    ASSUME NEW T \in Tables, NEW d \in Docs, NEW now, Sound(T, now),
           NEW U, U = Superseded(T, d)
    PROVE  /\ U \in Tables /\ Owned(U) /\ HalfOnly(U) /\ Audited(U, now)
           /\ Keeps(T, U)
           /\ U.audit = T.audit
           /\ serial => Newest(U) /\ Chained(U)
           /\ \A r \in U.revisions : \E s \in T.revisions :
                 r.doc = s.doc /\ r.ordinal = s.ordinal /\ r.text = s.text
           /\ \A r \in U.revisions : r.doc = d => r.lifecycle = "superseded"
  <1> DEFINE over(r) == IF r.doc = d THEN [r EXCEPT !.lifecycle = "superseded"] ELSE r
  <1>1. /\ U = [T EXCEPT !.revisions = {over(r) : r \in T.revisions}]
        /\ T.revisions \subseteq Revisions
    BY DEF Superseded, Tables
  <1>2. \A r \in Revisions :
            /\ over(r) \in Revisions
            /\ over(r).doc = r.doc /\ over(r).ordinal = r.ordinal /\ over(r).text = r.text
            /\ over(r).lifecycle = "current" => r.lifecycle = "current"
            /\ over(r) = r \/ over(r) = [r EXCEPT !.lifecycle = "superseded"]
            /\ r.doc = d => over(r).lifecycle = "superseded"
    BY DEF Revisions
  <1> HIDE DEF over
  <1>3. /\ U.revisions = {over(r) : r \in T.revisions}
        /\ U.fragments = T.fragments /\ U.links = T.links /\ U.audit = T.audit
    BY <1>1 DEF Tables
  <1>4. U \in Tables
    BY <1>1, <1>2 DEF Tables
  <1>5. Owned(U) /\ HalfOnly(U)
    <2>1. Owned(T) /\ HalfOnly(T)
      BY DEF Sound
    <2>2. \A r \in T.revisions : \A i : Holds(U, over(r), i) <=> Holds(T, r, i)
      BY <1>1, <1>2, <1>3 DEF Holds
    <2>3. HalfOnly(U)
      <3> SUFFICES ASSUME NEW s \in U.revisions, NEW i \in DOMAIN s.text,
                          ~Holds(U, s, i)
                   PROVE  \E j \in 1..i :
                             /\ \A n \in 1..(j - 1) : Holds(U, s, n)
                             /\ \E f \in U.fragments :
                                   f.index = j /\ f.body = s.text[j] /\ ~Holds(U, s, j)
        BY DEF HalfOnly
      <3> PICK r \in T.revisions : s = over(r)
        BY <1>3
      <3>1. s.text = r.text /\ (\A n : Holds(U, s, n) <=> Holds(T, r, n))
        BY <1>1, <1>2, <2>2
      <3>2. PICK j \in 1..i :
                /\ \A n \in 1..(j - 1) : Holds(T, r, n)
                /\ \E f \in T.fragments :
                      f.index = j /\ f.body = r.text[j] /\ ~Holds(T, r, j)
        BY <2>1, <3>1 DEF HalfOnly
      <3> QED BY <1>3, <3>1, <3>2
    <2>4. Owned(U)
      BY <1>1, <1>2, <1>3, <2>1 DEF Owned
    <2> QED BY <2>3, <2>4
  <1>6. Audited(U, now)
    BY <1>3 DEF Sound, Audited
  <1>7. serial => Newest(U) /\ Chained(U)
    BY <1>1, <1>2, <1>3 DEF Sound, Newest, Chained
  <1>8. Keeps(T, U)
    BY <1>1, <1>2, <1>3 DEF Keeps
  <1> QED BY <1>1, <1>2, <1>3, <1>4, <1>5, <1>6, <1>7, <1>8

\* What ingest() has read.
Ingests == [kind : {"ingest"}, doc : Docs, text : Texts, ordinal : 1..MaxOrdinal]

Row(m) == [doc |-> m.doc, ordinal |-> m.ordinal, text |-> m.text, lifecycle |-> "current"]

Piece(m, i) == [doc |-> m.doc, ordinal |-> m.ordinal, text |-> m.text,
                index |-> i, body |-> m.text[i]]

(* The two INSERTs: a revision and the first n of its fragments.  Where    *)
(* they do not reach its end, the next fragment is the one that is taken.  *)
LEMMA InsertedFacts ==
    ASSUME NEW T \in Tables, NEW m \in Ingests, NEW n \in 0..Len(m.text),
           Owned(T), HalfOnly(T), ~RevisionTaken(T, m),
           n = Len(m.text) \/ n + 1 \in FragmentsTaken(T, m),
           NEW U, U = WithFragments(WithRevision(T, m), m, n)
    PROVE  /\ U \in Tables /\ Owned(U) /\ HalfOnly(U) /\ Keeps(T, U)
           /\ U.audit = T.audit
           /\ U.revisions = T.revisions \cup {Row(m)}
  <1>1. /\ m.doc \in Docs /\ m.ordinal \in 1..MaxOrdinal /\ m.text \in Texts
        /\ m.text \in Seq(Paragraphs) /\ Len(m.text) \in Nat
        /\ DOMAIN m.text = 1..Len(m.text)
    BY LakeAssumption DEF Ingests
  <1>2. /\ U.revisions = T.revisions \cup {Row(m)}
        /\ U.fragments = T.fragments \cup {Piece(m, i) : i \in 1..n}
        /\ U.links = T.links /\ U.audit = T.audit
    BY DEF WithFragments, WithRevision, Row, Piece, Tables
  <1>q. \A f \in U.fragments : f \in T.fragments \/ \E k \in 1..n : f = Piece(m, k)
    BY <1>2
  <1>3. Row(m) \in Revisions
    BY <1>1 DEF Row, Revisions
  <1>4. \A i \in 1..n : Piece(m, i) \in Fragments
    <2>1. \A i \in 1..n : i \in DOMAIN m.text /\ i \in Nat \ {0} /\ m.text[i] \in Paragraphs
      BY <1>1
    <2> QED BY <1>1, <2>1 DEF Piece, Fragments
  <1>5. U \in Tables
    <2>1. U.revisions \subseteq Revisions
      BY <1>2, <1>3 DEF Tables
    <2>2. U.fragments \subseteq Fragments
      BY <1>4, <1>q DEF Tables
    <2>3. U = [T EXCEPT !.revisions = U.revisions, !.fragments = U.fragments]
      BY DEF WithFragments, WithRevision, Tables
    <2> QED BY <2>1, <2>2, <2>3 DEF Tables
  <1>p. /\ \A k : /\ Piece(m, k).doc = m.doc /\ Piece(m, k).ordinal = m.ordinal
                 /\ Piece(m, k).text = m.text /\ Piece(m, k).index = k
        /\ Row(m).doc = m.doc /\ Row(m).ordinal = m.ordinal /\ Row(m).text = m.text
    BY DEF Piece, Row
  <1>6. Owned(U)
    <2> SUFFICES ASSUME NEW f \in U.fragments
                 PROVE  \E r \in U.revisions :
                            r.doc = f.doc /\ r.ordinal = f.ordinal /\ r.text = f.text
      BY DEF Owned
    <2>1. CASE f \in T.fragments
      BY <1>2, <2>1 DEF Owned
    <2>2. CASE \E k \in 1..n : f = Piece(m, k)
      BY <1>2, <1>p, <2>2
    <2> QED BY <1>q, <2>1, <2>2
  <1>7. Keeps(T, U)
    BY <1>2 DEF Keeps
  <1>8. ASSUME NEW r \in T.revisions, NEW i
        PROVE  Holds(U, r, i) <=> Holds(T, r, i)
    <2>1. \A k \in 1..n : ~(Piece(m, k).ordinal = r.ordinal /\ Piece(m, k).text = r.text)
      BY <1>p DEF RevisionTaken
    <2> QED BY <1>2, <1>q, <2>1 DEF Holds
  <1>9. ASSUME NEW i
        PROVE  Holds(U, Row(m), i) <=> i \in 1..n
    <2>1. \A f \in T.fragments : ~(f.ordinal = m.ordinal /\ f.text = m.text)
      BY DEF Owned, RevisionTaken
    <2>2. ASSUME Holds(U, Row(m), i) PROVE i \in 1..n
      BY <1>q, <1>p, <2>1, <2>2 DEF Holds
    <2>3. ASSUME i \in 1..n PROVE Holds(U, Row(m), i)
      <3>1. Piece(m, i) \in U.fragments
        BY <1>2, <2>3
      <3> QED BY <1>p, <3>1 DEF Holds
    <2> QED BY <2>2, <2>3
  <1>10. ASSUME NEW r \in T.revisions, NEW i \in DOMAIN r.text, ~Holds(U, r, i)
         PROVE  \E j \in 1..i :
                    /\ \A k \in 1..(j - 1) : Holds(U, r, k)
                    /\ \E f \in U.fragments :
                          f.index = j /\ f.body = r.text[j] /\ ~Holds(U, r, j)
    <2>1. PICK j \in 1..i :
              /\ \A k \in 1..(j - 1) : Holds(T, r, k)
              /\ \E f \in T.fragments :
                    f.index = j /\ f.body = r.text[j] /\ ~Holds(T, r, j)
      BY <1>8, <1>10 DEF HalfOnly
    <2> QED BY <1>2, <1>8, <2>1
  <1>11. ASSUME NEW i \in DOMAIN m.text, ~Holds(U, Row(m), i)
         PROVE  \E j \in 1..i :
                    /\ \A k \in 1..(j - 1) : Holds(U, Row(m), k)
                    /\ \E f \in U.fragments :
                          f.index = j /\ f.body = m.text[j] /\ ~Holds(U, Row(m), j)
    <2>1. i \in Nat /\ n \in Nat /\ n < i /\ n < Len(m.text)
      BY <1>1, <1>9, <1>11
    <2>2. PICK f \in T.fragments : f.index = n + 1 /\ f.body = m.text[n + 1]
      BY <2>1 DEF FragmentsTaken
    <2>3. n + 1 \in 1..i /\ ~Holds(U, Row(m), n + 1)
      BY <1>9, <2>1
    <2>4. \A k \in 1..((n + 1) - 1) : Holds(U, Row(m), k)
      BY <1>9, <2>1
    <2> QED BY <1>2, <2>2, <2>3, <2>4
  <1>12. HalfOnly(U)
    <2> SUFFICES ASSUME NEW s \in U.revisions, NEW i \in DOMAIN s.text, ~Holds(U, s, i)
                 PROVE  \E j \in 1..i :
                            /\ \A k \in 1..(j - 1) : Holds(U, s, k)
                            /\ \E f \in U.fragments :
                                  f.index = j /\ f.body = s.text[j] /\ ~Holds(U, s, j)
      BY DEF HalfOnly
    <2>1. CASE s \in T.revisions
      BY <1>10, <2>1
    <2>2. CASE s = Row(m)
      BY <1>11, <1>p, <2>2
    <2> QED BY <1>2, <2>1, <2>2
  <1> QED BY <1>2, <1>5, <1>6, <1>7, <1>12

(* A revision that is newer than the others, which are superseded.         *)
LEMMA NewestAdded ==
    ASSUME NEW T \in Tables, NEW m \in Ingests, Newest(T),
           \A r \in T.revisions : r.doc = m.doc =>
               r.lifecycle = "superseded" /\ r.ordinal < m.ordinal,
           NEW U \in Tables, U.revisions = T.revisions \cup {Row(m)}
    PROVE  Newest(U)
  <1>1. \A r \in T.revisions : r.ordinal \in Nat
    BY DEF Tables, Revisions
  <1>2. /\ Row(m).doc = m.doc /\ Row(m).ordinal = m.ordinal /\ m.ordinal \in Nat
    BY DEF Row, Ingests
  <1> QED BY <1>1, <1>2 DEF Newest

(* Rows of the other tables change nothing of the revisions.               *)
LEMMA OthersAdded ==
    ASSUME NEW T \in Tables, NEW U \in Tables, Owned(T), HalfOnly(T),
           U.revisions = T.revisions, U.fragments = T.fragments
    PROVE  Owned(U) /\ HalfOnly(U) /\ (Newest(T) => Newest(U))
  <1>1. \A r, i : Holds(U, r, i) <=> Holds(T, r, i)
    BY DEF Holds
  <1>2. HalfOnly(U)
    BY <1>1 DEF HalfOnly
  <1> QED BY <1>2 DEF Owned, Newest

-----------------------------------------------------------------------------
(* The inductive invariant.                                                *)

\* What a method has read is still so when it writes, under the lock.
Pending(w) ==
    /\ op[w].kind = "search" =>
          /\ op[w].event.prev < op[w].event.at /\ op[w].event.at <= clock
          /\ serial => op[w].event.prev = AuditHead(View(w))
    /\ op[w].kind = "ingest" /\ serial =>
          \A r \in RevisionsOf(View(w), op[w].doc) : r.ordinal < op[w].ordinal

OneWriter == \A v, w \in Workers : tx[v] = "write" /\ tx[w] = "write" => v = w

OneMethod == serial => \A v, w \in Workers : op[v] # Idle /\ op[w] # Idle => v = w

LakeInv ==
    /\ TypeOK
    /\ OneWriter /\ OneMethod
    /\ Sound(db, clock) /\ Sound(draft, clock)
    /\ (\E w \in Workers : tx[w] = "write") => Keeps(db, draft)
    /\ \A w \in Workers : Pending(w)

(* A connection sees tables that are sound and keep what is committed.     *)
LEMMA ViewFacts ==
    ASSUME LakeInv, NEW w \in Workers
    PROVE  View(w) \in Tables /\ Sound(View(w), clock) /\ Keeps(db, View(w))
  <1>1. Keeps(db, db)
    BY DEF Keeps
  <1> QED BY <1>1 DEF LakeInv, View, TypeOK

(* What a method has read has the shape of its kind.                       *)
LEMMA MethodTypes ==
    ASSUME TypeOK, NEW w \in Workers
    PROVE  /\ op[w].kind = "ingest" => op[w] \in Ingests
           /\ op[w].kind = "search" => op[w].event \in Events
           /\ op[w].kind = "link" => op[w].link \in Links
           /\ op[w].kind # "idle" => op[w] # Idle
           /\ Idle \in Methods /\ Idle.kind = "idle"
  <1>1. op[w] \in Methods
    BY DEF TypeOK
  <1> QED BY <1>1 DEF Methods, Idle, Ingests

(* A step that writes nothing.                                             *)
LEMMA ReadKeeps ==
    ASSUME LakeInv, NEW w \in Workers, UNCHANGED <<db, draft, serial>>,
           clock' \in Nat, clock <= clock',
           tx' \in [Workers -> Transactions],
           \A v \in Workers : tx'[v] = "write" <=> tx[v] = "write",
           op' \in [Workers -> Methods],
           \A v \in Workers : v # w => op'[v] = op[v],
           serial => \A v \in Workers : v # w => op'[v] = Idle,
           Pending(w)'
    PROVE  LakeInv'
  <1>1. TypeOK' /\ OneWriter' /\ OneMethod'
    BY DEF LakeInv, TypeOK, OneWriter, OneMethod
  <1>2. Sound(db, clock)' /\ Sound(draft, clock)'
    <2>1. clock \in Nat /\ db \in Tables /\ draft \in Tables
      BY DEF LakeInv, TypeOK
    <2>2. Audited(db, clock') /\ Audited(draft, clock')
      BY <2>1, AuditedLater DEF LakeInv, Sound
    <2> QED BY <2>2 DEF LakeInv, Sound
  <1>3. ASSUME NEW v \in Workers, v # w PROVE Pending(v)'
    <2>1. serial => op'[v].kind = "idle"
      BY <1>3 DEF Idle
    <2>2. op'[v] = op[v] /\ clock \in Nat
      BY <1>3 DEF LakeInv, TypeOK
    <2>3. op[v].kind = "search" => op[v].event \in Events
      BY MethodTypes DEF LakeInv
    <2> QED BY <2>1, <2>2, <2>3 DEF LakeInv, Pending, Events
  <1>4. ((\E v \in Workers : tx[v] = "write") => Keeps(db, draft))'
    BY DEF LakeInv
  <1> QED BY <1>1, <1>2, <1>3, <1>4 DEF LakeInv

(* A method writes sound tables, that keep what it saw; they are committed *)
(* or stay in its transaction.                                             *)
LEMMA WriteKeeps ==
    ASSUME LakeInv, NEW w \in Workers, Writable(w), op[w] # Idle,
           NEW U \in Tables, Keeps(View(w), U), Sound(U, clock'),
           clock' \in Nat, clock <= clock', UNCHANGED serial,
           op' = [op EXCEPT ![w] = Idle],
           LeaveOpen(w, U) \/ Store(w, U)
    PROVE  LakeInv' /\ Keeps(db, db')
  <1>1. /\ Empty \in Tables /\ Sound(Empty, clock')
        /\ Keeps(db, db) /\ Keeps(db, U)
    <2>1. Empty \in Tables /\ Sound(Empty, clock')
      BY DEF Empty, Tables, Sound, Owned, HalfOnly, Audited, Newest, Chained
    <2>2. Keeps(db, db)
      BY DEF Keeps
    <2>3. Keeps(db, U)
      BY ViewFacts, KeepsTwice DEF LakeInv, TypeOK
    <2> QED BY <2>1, <2>2, <2>3
  <1>2. /\ TypeOK /\ Idle \in Methods /\ Idle.kind = "idle"
        /\ Sound(db, clock')
    <2>1. TypeOK /\ clock \in Nat /\ db \in Tables
      BY DEF LakeInv, TypeOK
    <2>2. Audited(db, clock')
      BY <2>1, AuditedLater DEF LakeInv, Sound
    <2> QED BY <2>1, <2>2, MethodTypes DEF LakeInv, Sound
  <1>3. ASSUME NEW v \in Workers PROVE Pending(v)'
    <2>1. CASE v = w
      BY <1>2, <2>1 DEF Pending, TypeOK
    <2>2. CASE v # w
      <3>1. op'[v] = op[v] /\ clock \in Nat
        BY <1>2, <2>2 DEF TypeOK
      <3>2. serial => op'[v].kind = "idle"
        BY <1>2, <2>2, <3>1 DEF LakeInv, OneMethod
      <3>3. op[v].kind = "search" => op[v].event \in Events
        BY <1>2, MethodTypes
      <3> QED BY <3>1, <3>2, <3>3 DEF LakeInv, Pending, Events
    <2> QED BY <2>1, <2>2
  <1>4. OneMethod'
    BY <1>2 DEF LakeInv, OneMethod, TypeOK
  <1>5. CASE LeaveOpen(w, U)
    <2>1. draft' = U /\ tx' = [tx EXCEPT ![w] = "write"] /\ UNCHANGED db
      BY <1>5 DEF LeaveOpen
    <2>2. TypeOK' /\ OneWriter'
      BY <1>2, <2>1 DEF TypeOK, OneWriter, Writable, Transactions
    <2>3. Sound(db, clock)' /\ Sound(draft, clock)'
      BY <1>2, <2>1 DEF Sound
    <2> QED BY <1>1, <1>3, <1>4, <2>1, <2>2, <2>3 DEF LakeInv
  <1>6. CASE db' = U /\ draft' = Empty /\ tx' = [tx EXCEPT ![w] = "none"]
    <2>1. TypeOK' /\ OneWriter' /\ ~\E v \in Workers : tx'[v] = "write"
      BY <1>1, <1>2, <1>6 DEF TypeOK, OneWriter, Writable, Transactions
    <2>2. Sound(db, clock)' /\ Sound(draft, clock)'
      BY <1>1, <1>6 DEF Sound
    <2> QED BY <1>1, <1>3, <1>4, <1>6, <2>1, <2>2 DEF LakeInv
  <1> QED BY <1>5, <1>6 DEF Store

-----------------------------------------------------------------------------
(* The methods, one after the other.                                       *)

(* A SELECT, or a write that finds the lock taken, writes nothing.         *)
LEMMA ReadingFacts ==
    ASSUME TypeOK, NEW w \in Workers, Reading(w) \/ Locked(w)
    PROVE  /\ tx' \in [Workers -> Transactions]
           /\ \A v \in Workers : tx'[v] = "write" <=> tx[v] = "write"
  <1>1. tx \in [Workers -> Transactions]
    BY DEF TypeOK
  <1> QED BY <1>1 DEF Reading, Locked, Transactions

LEMMA SameView ==
    ASSUME NEW w \in Workers, UNCHANGED <<db, draft>>,
           tx'[w] = "write" <=> tx[w] = "write"
    PROVE  View(w)' = View(w)
  BY DEF View

(* ingest() reads the last revision of the document.                       *)
LEMMA IngestKeeps ==
    ASSUME LakeInv, NEW w \in Workers, NEW d \in Docs, NEW t \in Texts,
           Ingest(w, d, t), UNCHANGED serial
    PROVE  LakeInv'
  <1>1. /\ TypeOK /\ clock \in Nat /\ UNCHANGED <<db, draft, clock>>
        /\ op \in [Workers -> Methods] /\ op[w] = Idle
        /\ serial => \A v \in Workers : op[v] = Idle
        /\ View(w) \in Tables
    BY ViewFacts DEF LakeInv, TypeOK, Ingest, Ready
  <1>2. /\ tx' \in [Workers -> Transactions]
        /\ \A v \in Workers : tx'[v] = "write" <=> tx[v] = "write"
    BY <1>1, ReadingFacts DEF Ingest
  <1>3. View(w)' = View(w)
    BY <1>1, <1>2, SameView
  <1>4. CASE UNCHANGED op
    <2>1. Pending(w)'
      BY <1>1, <1>4 DEF Pending, Idle
    <2> QED BY <1>1, <1>2, <1>4, <2>1, ReadKeeps
  <1>5. ASSUME NEW n \in 1..MaxOrdinal,
               op' = [op EXCEPT ![w] = [kind |-> "ingest", doc |-> d, text |-> t,
                                        ordinal |-> n]],
               \A r \in RevisionsOf(View(w), d) : r.ordinal < n
        PROVE  LakeInv'
    <2>1. /\ op' \in [Workers -> Methods]
          /\ op'[w] = [kind |-> "ingest", doc |-> d, text |-> t, ordinal |-> n]
          /\ \A v \in Workers : v # w => op'[v] = op[v]
      BY <1>1, <1>5 DEF Methods
    <2>2. op'[w].kind = "ingest" /\ op'[w].doc = d /\ op'[w].ordinal = n
      BY <2>1
    <2>3. \A r \in RevisionsOf(View(w)', d) : r.ordinal < n
      BY <1>3, <1>5
    <2>4. Pending(w)'
      BY <2>2, <2>3 DEF Pending
    <2> QED BY <1>1, <1>2, <2>1, <2>4, ReadKeeps
  <1>6. \A r \in View(w).revisions : r.ordinal \in 1..MaxOrdinal
    BY <1>1 DEF Tables, Revisions
  <1>7. CASE /\ RevisionsOf(View(w), d) = {}
             /\ op' = [op EXCEPT ![w] = [kind |-> "ingest", doc |-> d, text |-> t,
                                         ordinal |-> 1]]
    <2>1. 1 \in 1..MaxOrdinal
      BY LakeAssumption
    <2> QED BY <1>5, <1>7, <2>1
  <1>8. ASSUME NEW r \in LatestRevisions(View(w), d), r.ordinal < MaxOrdinal,
               op' = [op EXCEPT ![w] = [kind |-> "ingest", doc |-> d, text |-> t,
                                        ordinal |-> r.ordinal + 1]]
        PROVE  LakeInv'
    <2>1. /\ r \in View(w).revisions
          /\ \A s \in RevisionsOf(View(w), d) : s.ordinal <= r.ordinal
                                                /\ s \in View(w).revisions
      BY DEF LatestRevisions, RevisionsOf
    <2>2. r.ordinal + 1 \in 1..MaxOrdinal
      BY <1>6, <1>8, <2>1, LakeAssumption
    <2>3. \A s \in RevisionsOf(View(w), d) : s.ordinal < r.ordinal + 1
      BY <1>6, <2>1
    <2> QED BY <1>5, <1>8, <2>2, <2>3
  <1> QED BY <1>4, <1>7, <1>8 DEF Ingest

(* search() takes the time and the head of the audit chain.                *)
LEMMA SearchKeeps ==
    ASSUME LakeInv, NEW w \in Workers, Search(w), UNCHANGED serial
    PROVE  LakeInv'
  <1>1. /\ TypeOK /\ clock \in Nat /\ UNCHANGED <<db, draft>> /\ clock' = clock + 1
        /\ op \in [Workers -> Methods]
        /\ serial => \A v \in Workers : op[v] = Idle
    BY DEF LakeInv, TypeOK, Search, Ready
  <1>2. /\ tx' \in [Workers -> Transactions]
        /\ \A v \in Workers : tx'[v] = "write" <=> tx[v] = "write"
    BY <1>1, ReadingFacts DEF Search
  <1>3. View(w)' = View(w)
    BY <1>1, <1>2, SameView
  <1>4. AuditHead(View(w)) \in Nat /\ AuditHead(View(w)) <= clock
    BY <1>1, ViewFacts, HeadFacts DEF Sound
  <1>e. PICK e : e = [at |-> clock + 1, prev |-> AuditHead(View(w))]
    OBVIOUS
  <1>5. e \in Events /\ e.at = clock' /\ e.prev < e.at /\ e.prev = AuditHead(View(w))
    BY <1>e, <1>1, <1>4 DEF Events
  <1>6. op' = [op EXCEPT ![w] = [kind |-> "search", event |-> e]]
    BY <1>e DEF Search
  <1>7. /\ op' \in [Workers -> Methods]
        /\ op'[w].kind = "search" /\ op'[w].event = e
        /\ \A v \in Workers : v # w => op'[v] = op[v]
    BY <1>1, <1>5, <1>6 DEF Methods
  <1>8. AuditHead(View(w))' = AuditHead(View(w))
    BY <1>3 DEF AuditHead
  <1>9. Pending(w)'
    BY <1>1, <1>5, <1>7, <1>8 DEF Pending
  <1> QED BY <1>1, <1>2, <1>7, <1>9, ReadKeeps

(* link_temporal_shard() has read nothing that matters later.              *)
LEMMA LinkKeeps ==
    ASSUME LakeInv, NEW w \in Workers, NEW f \in db.fragments, NEW s \in Shards,
           Link(w, f, s), UNCHANGED serial
    PROVE  LakeInv'
  <1>1. /\ TypeOK /\ clock \in Nat /\ UNCHANGED <<db, draft, clock>>
        /\ op \in [Workers -> Methods]
        /\ serial => \A v \in Workers : op[v] = Idle
    BY DEF LakeInv, TypeOK, Link, Ready
  <1>2. /\ tx' \in [Workers -> Transactions]
        /\ \A v \in Workers : tx'[v] = "write" <=> tx[v] = "write"
    BY <1>1, ReadingFacts DEF Link
  <1>3. [fragment |-> f, shard |-> s] \in Links
    BY <1>1 DEF Links, TypeOK, Tables
  <1>4. /\ op' \in [Workers -> Methods] /\ op'[w].kind = "link"
        /\ \A v \in Workers : v # w => op'[v] = op[v]
    BY <1>1, <1>3 DEF Link, Methods
  <1>5. Pending(w)'
    BY <1>4 DEF Pending
  <1> QED BY <1>1, <1>2, <1>4, <1>5, ReadKeeps

(* "database is locked": the method ends and nothing is written.           *)
LEMMA LockedKeeps ==
    ASSUME LakeInv, NEW w \in Workers, op[w] # Idle, Locked(w),
           op' = [op EXCEPT ![w] = Idle], UNCHANGED <<clock, serial>>
    PROVE  LakeInv'
  <1>1. /\ TypeOK /\ clock \in Nat /\ UNCHANGED <<db, draft>>
        /\ op \in [Workers -> Methods]
        /\ serial => \A v \in Workers : v # w => op[v] = Idle
    BY DEF LakeInv, TypeOK, Locked, OneMethod
  <1>2. /\ tx' \in [Workers -> Transactions]
        /\ \A v \in Workers : tx'[v] = "write" <=> tx[v] = "write"
    BY <1>1, ReadingFacts
  <1>3. /\ op' \in [Workers -> Methods] /\ op'[w].kind = "idle"
        /\ \A v \in Workers : v # w => op'[v] = op[v]
    BY <1>1 DEF Methods, Idle
  <1>4. Pending(w)'
    BY <1>3 DEF Pending
  <1> QED BY <1>1, <1>2, <1>3, <1>4, ReadKeeps

(* A worker closes its connection or dies.                                 *)
LEMMA CloseKeeps ==
    ASSUME LakeInv, NEW w \in Workers, Close(w), UNCHANGED serial
    PROVE  LakeInv'
  <1>1. /\ TypeOK /\ Idle.kind = "idle" /\ Idle \in Methods
        /\ UNCHANGED <<db, clock>>
        /\ tx' = [tx EXCEPT ![w] = "none"] /\ op' = [op EXCEPT ![w] = Idle]
        /\ draft' = IF tx[w] = "write" THEN Empty ELSE draft
    BY MethodTypes DEF Close, LakeInv
  <1>2. Empty \in Tables /\ Sound(Empty, clock)
    BY <1>1 DEF Empty, Tables, Sound, Owned, HalfOnly, Audited, Newest, Chained, TypeOK
  <1>3. TypeOK' /\ OneWriter' /\ OneMethod'
    BY <1>1, <1>2 DEF LakeInv, TypeOK, OneWriter, OneMethod, Transactions
  <1>4. Sound(db, clock)' /\ Sound(draft, clock)'
    BY <1>1, <1>2 DEF LakeInv, Sound
  <1>5. ((\E v \in Workers : tx[v] = "write") => Keeps(db, draft))'
    BY <1>1 DEF LakeInv, OneWriter, TypeOK
  <1>6. ASSUME NEW v \in Workers PROVE Pending(v)'
    <2>1. CASE v = w
      BY <1>1, <2>1 DEF Pending, TypeOK
    <2>2. CASE v # w
      <3>1. op'[v] = op[v] /\ tx'[v] = tx[v]
        BY <1>1, <2>2 DEF TypeOK
      <3>2. View(v)' = View(v)
        BY <1>1, <2>2, <3>1 DEF View, LakeInv, OneWriter
      <3>3. /\ AuditHead(View(v)') = AuditHead(View(v))
            /\ RevisionsOf(View(v)', op'[v].doc) = RevisionsOf(View(v), op[v].doc)
        BY <3>1, <3>2
      <3>4. Pending(v)
        BY DEF LakeInv
      <3> QED BY <1>1, <3>1, <3>3, <3>4 DEF Pending
    <2> QED BY <2>1, <2>2
  <1> QED BY <1>3, <1>4, <1>5, <1>6 DEF LakeInv

(* The event an action writes at its end, under the write lock.            *)
LEMMA WithEventFacts ==
    ASSUME NEW T \in Tables, clock \in Nat, Sound(T, clock),
           NEW U, U = WithEvent(T)
    PROVE  /\ U \in Tables /\ Sound(U, clock + 1) /\ Keeps(T, U)
           /\ U.revisions = T.revisions /\ U.fragments = T.fragments
  <1>e. PICK e : e = [at |-> clock + 1, prev |-> AuditHead(T)]
    OBVIOUS
  <1>1. AuditHead(T) \in Nat /\ AuditHead(T) <= clock
    BY HeadFacts DEF Sound
  <1>2. e \in Events /\ e.prev < e.at /\ e.at <= clock + 1 /\ e.prev = AuditHead(T)
    BY <1>e, <1>1 DEF Events
  <1>3. U = [T EXCEPT !.audit = T.audit \cup {e}]
    BY <1>e DEF WithEvent
  <1>4. /\ U \in Tables /\ U.audit = T.audit \cup {e}
        /\ U.revisions = T.revisions /\ U.fragments = T.fragments /\ U.links = T.links
    BY <1>2, <1>3 DEF Tables
  <1>5. clock + 1 \in Nat /\ Audited(T, clock + 1)
    BY AuditedLater DEF Sound
  <1>6. Audited(U, clock + 1) /\ (Chained(T) => Chained(U))
    BY <1>2, <1>4, <1>5, EventAdded
  <1>7. Owned(U) /\ HalfOnly(U) /\ (Newest(T) => Newest(U))
    BY <1>4, OthersAdded DEF Sound
  <1>8. Keeps(T, U)
    BY <1>4 DEF Keeps
  <1> QED BY <1>4, <1>6, <1>7, <1>8 DEF Sound

(* The writes of ingest(): the lock is taken, the revision id or a         *)
(* fragment id is taken, or all goes well.                                 *)
LEMMA IngestWriteKeeps ==
    ASSUME LakeInv, NEW w \in Workers, IngestWrite(w), UNCHANGED serial
    PROVE  LakeInv' /\ Keeps(db, db')
  <1>m. PICK m : m = op[w]
    OBVIOUS
  <1>t. PICK T : T = View(w)
    OBVIOUS
  <1>f. PICK first : first = Superseded(T, m.doc)
    OBVIOUS
  <1>1. /\ TypeOK /\ clock \in Nat /\ m \in Ingests /\ op[w] # Idle /\ m.doc \in Docs
        /\ op' = [op EXCEPT ![w] = Idle]
        /\ m.text \in Seq(Paragraphs) /\ Len(m.text) \in Nat
    BY <1>m, MethodTypes, LakeAssumption DEF IngestWrite, LakeInv, TypeOK, Idle, Ingests
  <1>2. T \in Tables /\ Sound(T, clock) /\ Keeps(db, T)
    BY <1>t, ViewFacts
  <1>3. /\ first \in Tables /\ Owned(first) /\ HalfOnly(first) /\ Audited(first, clock)
        /\ Keeps(T, first) /\ first.audit = T.audit
        /\ serial => Newest(first) /\ Chained(first)
        /\ \A r \in first.revisions : \E s \in T.revisions :
              r.doc = s.doc /\ r.ordinal = s.ordinal /\ r.text = s.text
        /\ \A r \in first.revisions : r.doc = m.doc => r.lifecycle = "superseded"
    BY <1>1, <1>2, <1>f, SupersededFacts
  <1>4. CASE Locked(w) /\ UNCHANGED clock
    <2>1. LakeInv'
      BY <1>1, <1>4, LockedKeeps
    <2> QED BY <1>4, <2>1 DEF Locked, Keeps
  <1>5. CASE /\ Writable(w) /\ RevisionTaken(first, m)
             /\ LeaveOpen(w, first)
             /\ UNCHANGED clock
    <2>1. Sound(first, clock')
      BY <1>3, <1>5 DEF Sound
    <2>2. Keeps(View(w), first)
      BY <1>3, <1>t
    <2>3. clock' \in Nat /\ clock <= clock'
      BY <1>1, <1>5
    <2>4. LeaveOpen(w, first) \/ Store(w, first)
      BY <1>5
    <2> QED BY <1>1, <1>3, <1>5, <2>1, <2>2, <2>3, <2>4, WriteKeeps
  <1>6. ASSUME ~RevisionTaken(first, m), NEW n \in 0..Len(m.text),
               n = Len(m.text) \/ n + 1 \in FragmentsTaken(first, m),
               NEW U, U = WithFragments(WithRevision(first, m), m, n)
        PROVE  U \in Tables /\ Sound(U, clock) /\ Keeps(T, U)
    <2>1. /\ U \in Tables /\ Owned(U) /\ HalfOnly(U) /\ Keeps(first, U)
          /\ U.audit = first.audit /\ U.revisions = first.revisions \cup {Row(m)}
      BY <1>1, <1>3, <1>6, InsertedFacts
    <2>2. Keeps(T, U)
      BY <1>2, <1>3, <2>1, KeepsTwice
    <2>3. Audited(U, clock) /\ (Chained(first) => Chained(U))
      BY <1>3, <2>1 DEF Audited, Chained
    <2>4. ASSUME serial PROVE Newest(U)
      <3>1. \A s \in T.revisions : s.doc = m.doc => s.ordinal < m.ordinal
        BY <1>1, <1>m, <1>t, <2>4 DEF LakeInv, Pending, RevisionsOf, Ingests
      <3>2. \A r \in first.revisions : r.doc = m.doc =>
               r.lifecycle = "superseded" /\ r.ordinal < m.ordinal
        BY <1>3, <3>1
      <3> QED BY <1>1, <1>3, <2>1, <2>4, <3>2, NewestAdded
    <2> QED BY <1>3, <2>1, <2>2, <2>3, <2>4 DEF Sound
  <1>7. ASSUME Writable(w), ~RevisionTaken(first, m),
               NEW i \in FragmentsTaken(first, m),
               LeaveOpen(w, WithFragments(WithRevision(first, m), m, i - 1)),
               UNCHANGED clock
        PROVE  LakeInv' /\ Keeps(db, db')
    <2>u. PICK U : U = WithFragments(WithRevision(first, m), m, i - 1)
      OBVIOUS
    <2>1. i - 1 \in 0..Len(m.text) /\ (i - 1) + 1 = i
      BY <1>1 DEF FragmentsTaken
    <2>2. U \in Tables /\ Sound(U, clock) /\ Keeps(T, U)
      BY <1>6, <1>7, <2>u, <2>1
    <2>3. /\ Keeps(View(w), U) /\ Sound(U, clock')
          /\ clock' \in Nat /\ clock <= clock'
      BY <1>1, <1>7, <1>t, <2>2
    <2>4. LeaveOpen(w, U) \/ Store(w, U)
      BY <1>7, <2>u
    <2> QED BY <1>1, <1>7, <2>2, <2>3, <2>4, WriteKeeps
  <1>8. CASE /\ Writable(w) /\ ~RevisionTaken(first, m)
             /\ Store(w, WithEvent(WithFragments(WithRevision(first, m), m, Len(m.text))))
             /\ clock' = clock + 1
    <2>u. PICK U : U = WithFragments(WithRevision(first, m), m, Len(m.text))
      OBVIOUS
    <2>x. PICK V : V = WithEvent(U)
      OBVIOUS
    <2>1. Len(m.text) \in 0..Len(m.text)
      BY <1>1
    <2>2. U \in Tables /\ Sound(U, clock) /\ Keeps(T, U)
      BY <1>6, <1>8, <2>u, <2>1
    <2>3. V \in Tables /\ Sound(V, clock + 1) /\ Keeps(U, V)
      BY <1>1, <2>2, <2>x, WithEventFacts
    <2>4. Keeps(T, V)
      BY <1>2, <2>2, <2>3, KeepsTwice
    <2>5. LeaveOpen(w, V) \/ Store(w, V)
      BY <1>8, <2>u, <2>x
    <2>6. /\ Keeps(View(w), V) /\ Sound(V, clock')
          /\ clock' \in Nat /\ clock <= clock'
      BY <1>1, <1>8, <1>t, <2>3, <2>4
    <2> QED BY <1>1, <1>8, <2>3, <2>5, <2>6, WriteKeeps
  <1> QED BY <1>4, <1>5, <1>7, <1>8, <1>m, <1>t, <1>f DEF IngestWrite

(* search() writes the event it made before it had the lock.               *)
LEMMA SearchWriteKeeps ==
    ASSUME LakeInv, NEW w \in Workers, SearchWrite(w), UNCHANGED serial
    PROVE  LakeInv' /\ Keeps(db, db')
  <1>t. PICK T : T = View(w)
    OBVIOUS
  <1>e. PICK e : e = op[w].event
    OBVIOUS
  <1>u. PICK U : U = [T EXCEPT !.audit = @ \cup {e}]
    OBVIOUS
  <1>1. /\ TypeOK /\ clock \in Nat /\ UNCHANGED clock
        /\ op[w].kind = "search" /\ op[w] # Idle
        /\ op' = [op EXCEPT ![w] = Idle]
    BY DEF SearchWrite, LakeInv, TypeOK, Idle
  <1>2. T \in Tables /\ Sound(T, clock)
    BY <1>t, ViewFacts
  <1>3. /\ e \in Events /\ e.prev < e.at /\ e.at <= clock
        /\ serial => e.prev = AuditHead(T)
    BY <1>1, <1>e, <1>t, MethodTypes DEF LakeInv, Pending
  <1>4. /\ U \in Tables /\ U.audit = T.audit \cup {e}
        /\ U.revisions = T.revisions /\ U.fragments = T.fragments /\ U.links = T.links
    BY <1>2, <1>3, <1>u DEF Tables
  <1>5. Audited(U, clock) /\ (serial /\ Chained(T) => Chained(U))
    BY <1>1, <1>2, <1>3, <1>4, EventAdded DEF Sound
  <1>6. Owned(U) /\ HalfOnly(U) /\ (Newest(T) => Newest(U))
    BY <1>2, <1>4, OthersAdded DEF Sound
  <1>7. Sound(U, clock') /\ Keeps(T, U)
    BY <1>1, <1>2, <1>4, <1>5, <1>6 DEF Sound, Keeps
  <1>8. CASE Locked(w)
    <2>1. LakeInv'
      BY <1>1, <1>8, LockedKeeps
    <2> QED BY <1>8, <2>1 DEF Locked, Keeps
  <1>9. CASE Writable(w) /\ Store(w, U)
    <2>1. /\ Keeps(View(w), U) /\ clock' \in Nat /\ clock <= clock'
          /\ LeaveOpen(w, U) \/ Store(w, U)
      BY <1>1, <1>7, <1>9, <1>t
    <2> QED BY <1>1, <1>4, <1>7, <1>9, <2>1, WriteKeeps
  <1> QED BY <1>8, <1>9, <1>t, <1>e, <1>u DEF SearchWrite

(* The link is there already, or goes in with its event.                   *)
LEMMA LinkWriteKeeps ==
    ASSUME LakeInv, NEW w \in Workers, LinkWrite(w), UNCHANGED serial
    PROVE  LakeInv' /\ Keeps(db, db')
  <1>t. PICK T : T = View(w)
    OBVIOUS
  <1>l. PICK k : k = op[w].link
    OBVIOUS
  <1>u. PICK U : U = [T EXCEPT !.links = @ \cup {k}]
    OBVIOUS
  <1>v. PICK V : V = WithEvent(U)
    OBVIOUS
  <1>1. /\ TypeOK /\ clock \in Nat /\ op[w].kind = "link" /\ op[w] # Idle
        /\ op' = [op EXCEPT ![w] = Idle] /\ k \in Links
    BY <1>l, MethodTypes DEF LinkWrite, LakeInv, TypeOK, Idle
  <1>2. T \in Tables /\ Sound(T, clock) /\ Keeps(T, T)
    BY <1>t, ViewFacts DEF Keeps
  <1>3. /\ U \in Tables /\ U.audit = T.audit
        /\ U.revisions = T.revisions /\ U.fragments = T.fragments
        /\ U.links = T.links \cup {k}
    BY <1>1, <1>2, <1>u DEF Tables
  <1>4. Sound(U, clock) /\ Keeps(T, U)
    <2>1. Owned(U) /\ HalfOnly(U) /\ (Newest(T) => Newest(U))
      BY <1>2, <1>3, OthersAdded DEF Sound
    <2> QED BY <1>2, <1>3, <2>1 DEF Sound, Audited, Chained, Keeps
  <1>5. V \in Tables /\ Sound(V, clock + 1) /\ Keeps(U, V)
    BY <1>1, <1>3, <1>4, <1>v, WithEventFacts
  <1>6. Keeps(T, V)
    BY <1>2, <1>3, <1>4, <1>5, KeepsTwice
  <1>7. CASE Locked(w) /\ UNCHANGED clock
    <2>1. LakeInv'
      BY <1>1, <1>7, LockedKeeps
    <2> QED BY <1>7, <2>1 DEF Locked, Keeps
  <1>8. CASE Writable(w) /\ Store(w, T) /\ UNCHANGED clock
    <2>1. /\ Keeps(View(w), T) /\ Sound(T, clock')
          /\ clock' \in Nat /\ clock <= clock'
          /\ LeaveOpen(w, T) \/ Store(w, T)
      BY <1>1, <1>2, <1>8, <1>t
    <2> QED BY <1>1, <1>2, <1>8, <2>1, WriteKeeps
  <1>9. CASE Writable(w) /\ Store(w, V) /\ clock' = clock + 1
    <2>1. /\ Keeps(View(w), V) /\ Sound(V, clock')
          /\ clock' \in Nat /\ clock <= clock'
          /\ LeaveOpen(w, V) \/ Store(w, V)
      BY <1>1, <1>5, <1>6, <1>9, <1>t
    <2> QED BY <1>1, <1>5, <1>9, <2>1, WriteKeeps
  <1> QED BY <1>7, <1>8, <1>9, <1>t, <1>l, <1>u, <1>v DEF LinkWrite

-----------------------------------------------------------------------------
(* The theorems.                                                           *)

LEMMA InitLake == Init => LakeInv
  <1> SUFFICES ASSUME Init PROVE LakeInv
    OBVIOUS
  <1>1. Empty \in Tables /\ Sound(Empty, 0)
    BY DEF Empty, Tables, Sound, Owned, HalfOnly, Audited, Newest, Chained
  <1>2. Idle \in Methods /\ Idle.kind = "idle"
    BY DEF Methods, Idle
  <1> QED
    BY <1>1, <1>2, LakeAssumption
    DEF Init, LakeInv, TypeOK, Transactions, OneWriter, OneMethod, Pending

(* A step keeps the invariant, and what is committed.                      *)
LEMMA NextLake == LakeInv /\ [Next]_vars => LakeInv' /\ Keeps(db, db')
  <1> SUFFICES ASSUME LakeInv, [Next]_vars PROVE LakeInv' /\ Keeps(db, db')
    OBVIOUS
  <1>1. Keeps(db, db)
    BY DEF Keeps
  <1>2. CASE UNCHANGED vars
    <2>1. TypeOK' /\ OneWriter' /\ OneMethod'
      BY <1>2 DEF vars, LakeInv, TypeOK, OneWriter, OneMethod
    <2>2. Sound(db, clock)' /\ Sound(draft, clock)'
      BY <1>2 DEF vars, LakeInv, Sound
    <2>3. \A w \in Workers : View(w)' = View(w)
      BY <1>2 DEF vars, View
    <2>4. \A w \in Workers : Pending(w)'
      BY <1>2, <2>3 DEF vars, LakeInv, Pending
    <2> QED BY <1>1, <1>2, <2>1, <2>2, <2>4 DEF vars, LakeInv
  <1>3. ASSUME UNCHANGED serial, NEW w \in Workers, NEW d \in Docs, NEW t \in Texts,
               Ingest(w, d, t)
        PROVE  LakeInv' /\ Keeps(db, db')
    BY <1>1, <1>3, IngestKeeps DEF Ingest
  <1>4. ASSUME UNCHANGED serial, NEW w \in Workers, IngestWrite(w)
        PROVE  LakeInv' /\ Keeps(db, db')
    BY <1>4, IngestWriteKeeps
  <1>5. ASSUME UNCHANGED serial, NEW w \in Workers, Search(w)
        PROVE  LakeInv' /\ Keeps(db, db')
    BY <1>1, <1>5, SearchKeeps DEF Search
  <1>6. ASSUME UNCHANGED serial, NEW w \in Workers, SearchWrite(w)
        PROVE  LakeInv' /\ Keeps(db, db')
    BY <1>6, SearchWriteKeeps
  <1>7. ASSUME UNCHANGED serial, NEW w \in Workers, NEW f \in db.fragments,
               NEW s \in Shards, Link(w, f, s)
        PROVE  LakeInv' /\ Keeps(db, db')
    BY <1>1, <1>7, LinkKeeps DEF Link
  <1>8. ASSUME UNCHANGED serial, NEW w \in Workers, LinkWrite(w)
        PROVE  LakeInv' /\ Keeps(db, db')
    BY <1>8, LinkWriteKeeps
  <1>9. ASSUME UNCHANGED serial, NEW w \in Workers, Close(w)
        PROVE  LakeInv' /\ Keeps(db, db')
    BY <1>1, <1>9, CloseKeeps DEF Close
  <1> QED
    BY <1>2, <1>3, <1>4, <1>5, <1>6, <1>7, <1>8, <1>9 DEF Next

LEMMA LakeInvHolds == Spec => []LakeInv
  <1>1. LakeInv /\ [Next]_vars => LakeInv'
    BY NextLake
  <1> QED BY InitLake, <1>1, PTL DEF Spec

(* Every table holds rows of its type, and every method what it has read.  *)
THEOREM TypeCorrect == Spec => []TypeOK
  <1>1. LakeInv => TypeOK
    BY DEF LakeInv
  <1> QED BY <1>1, LakeInvHolds, PTL

(* However the connections interleave, fail half way and die: half a       *)
(* revision is in the lake only where ingest() met a fragment id that      *)
(* another revision has.                                                   *)
THEOREM HalvesExplained == Spec => []HalfOnlyIfRepeated
  <1>1. LakeInv => HalfOnlyIfRepeated
    BY DEF LakeInv, Sound, HalfOnly, Holds, HalfOnlyIfRepeated, HasFragment
  <1> QED BY <1>1, LakeInvHolds, PTL

(* Called under the runtime lock only, the methods leave every document    *)
(* with its newest revision as the current one, if one is current.         *)
THEOREM CurrentStaysNewest == Spec => []CurrentIsNewest
  <1>1. LakeInv => CurrentIsNewest
    BY DEF LakeInv, Sound, Newest, CurrentIsNewest
  <1> QED BY <1>1, LakeInvHolds, PTL

(* And _event() never forks the audit chain.                               *)
THEOREM AuditStaysChained == Spec => []AuditChain
  <1>1. LakeInv => AuditChain
    BY DEF LakeInv, Sound, Chained, AuditChain
  <1> QED BY <1>1, LakeInvHolds, PTL

(* What was committed is not rewritten, under the lock or not.             *)
THEOREM HistoryStays == Spec => HistoryKept
  <1>1. LakeInv /\ [Next]_vars => [Keeps(db, db')]_vars
    BY NextLake
  <1>2. Keeps(db, db') =>
            /\ db.fragments \subseteq db'.fragments
            /\ db.links \subseteq db'.links
            /\ db.audit \subseteq db'.audit
            /\ \A r \in db.revisions :
                  r \in db'.revisions
                  \/ [r EXCEPT !.lifecycle = "superseded"] \in db'.revisions
    BY DEF Keeps
  <1> QED BY <1>1, <1>2, LakeInvHolds, PTL DEF Spec, HistoryKept
=============================================================================
