----------------------------- MODULE MemoryLake -----------------------------
(***************************************************************************)
(* The semantic memory lake of Fred-OS (artifact_store.py behind           *)
(* semantic_memory.py): one SQLite file, opened by every worker process.   *)
(*                                                                         *)
(* Python's sqlite3 begins a transaction before the first INSERT or UPDATE *)
(* and leaves it open until somebody calls commit().  No method of the     *)
(* store rolls back, so an exception in the middle of a method leaves the  *)
(* transaction to the next method of the same worker.                      *)
(*                                                                         *)
(* A method is two steps, what it reads before it needs the write lock and *)
(* the rest: nobody sees a transaction before its commit.  "serial" says   *)
(* that methods are called under the runtime lock only, as the kernel      *)
(* does; the store itself asks nothing of the kind.                        *)
(***************************************************************************)
EXTENDS Integers, Sequences, FiniteSetsExt

CONSTANTS Workers,      \* processes, each with a connection of its own
          Docs,         \* artifact ids
          Texts,        \* texts, each the sequence of its paragraphs
          Shards,       \* shards of the temporal sphere
          Callers,      \* the values "serial" may have
          MaxOrdinal,   \* bound on the revisions of a document
          MaxEvents     \* bound on the audit events

Paragraphs == UNION {{t[i] : i \in DOMAIN t} : t \in Texts}

ASSUME LakeAssumption ==
    /\ Texts \subseteq Seq(Paragraphs) \ {<<>>}
    /\ Callers \subseteq BOOLEAN
    /\ MaxOrdinal \in Nat \ {0} /\ MaxEvents \in Nat

VARIABLES
    db,      \* the committed tables
    draft,   \* the tables as the open write transaction sees them
    tx,      \* the transaction of each connection
    op,      \* the method each worker is in
    clock,   \* the last time.time() of an audit event
    serial   \* whether methods exclude each other, a fact of the deployment

vars == <<db, draft, tx, op, clock, serial>>

\* What a connection holds: no transaction; one that was begun and has no
\* lock; one with SQLite's shared lock; one with its write lock.
Transactions == {"none", "open", "read", "write"}

Idle == [kind |-> "idle"]

\* A revision id is made of the ordinal and the hash of the text, a fragment
\* id of the index and the hash of the paragraph.  Both are primary keys.
Revisions == [doc : Docs, ordinal : 1..MaxOrdinal, text : Texts,
              lifecycle : {"current", "superseded"}]

Fragments == [doc : Docs, ordinal : 1..MaxOrdinal, text : Texts,
              index : Nat \ {0}, body : Paragraphs]

Links == [fragment : Fragments, shard : Shards]

\* Each event names the time of the one it follows, 0 for the first.
Events == [at : Nat, prev : Nat]

Tables == [revisions : SUBSET Revisions, fragments : SUBSET Fragments,
           links : SUBSET Links, audit : SUBSET Events]

\* What a method has read when it comes to its first write.
Methods == {Idle}
    \cup [kind : {"ingest"}, doc : Docs, text : Texts, ordinal : 1..MaxOrdinal]
    \cup [kind : {"search"}, event : Events]
    \cup [kind : {"link"}, link : Links]

Empty == [revisions |-> {}, fragments |-> {}, links |-> {}, audit |-> {}]

Init ==
    /\ db = Empty
    /\ draft = Empty
    /\ tx = [w \in Workers |-> "none"]
    /\ op = [w \in Workers |-> Idle]
    /\ clock = 0
    /\ serial \in Callers

-----------------------------------------------------------------------------
(* SQLite.                                                                 *)

View(w) == IF tx[w] = "write" THEN draft ELSE db

\* A SELECT inside a transaction keeps the shared lock.
Reading(w) == tx' = [tx EXCEPT ![w] = IF @ = "open" THEN "read" ELSE @]

Writable(w) == \A v \in Workers \ {w} : tx[v] # "write"

\* "database is locked" at a write: the transaction has begun all the same.
Locked(w) ==
    /\ ~Writable(w)
    /\ tx' = [tx EXCEPT ![w] = IF @ = "none" THEN "open" ELSE @]
    /\ UNCHANGED <<db, draft>>

\* The transaction stays open with these tables.
LeaveOpen(w, tables) ==
    /\ draft' = tables
    /\ tx' = [tx EXCEPT ![w] = "write"]
    /\ UNCHANGED db

\* commit(), which needs that nobody holds the shared lock.
Store(w, tables) ==
    \/ /\ \A v \in Workers \ {w} : tx[v] # "read"
       /\ db' = tables
       /\ draft' = Empty
       /\ tx' = [tx EXCEPT ![w] = "none"]
    \/ /\ \E v \in Workers \ {w} : tx[v] = "read"
       /\ LeaveOpen(w, tables)

Ready(w) ==
    /\ op[w] = Idle
    /\ clock < MaxEvents
    /\ serial => \A v \in Workers : op[v] = Idle

-----------------------------------------------------------------------------
(* ingest()                                                                *)

RevisionsOf(tables, d) == {r \in tables.revisions : r.doc = d}

\* Mutant: no ORDER BY.
AnyRevision(tables, d) == RevisionsOf(tables, d)

\* ORDER BY ordinal DESC LIMIT 1: any one of them, if there is a tie.
LatestRevisions(tables, d) ==
    {r \in RevisionsOf(tables, d) :
        \A s \in RevisionsOf(tables, d) : s.ordinal <= r.ordinal}

\* Mutant: the order of the events is ascending.
OldestEvent(tables) ==
    IF tables.audit = {} THEN 0 ELSE Min({e.at : e \in tables.audit})

\* The head of the audit chain: ORDER BY created_at DESC LIMIT 1.
AuditHead(tables) == Max({e.at : e \in tables.audit} \cup {0})

\* _event() inside a transaction that has the write lock.
WithEvent(tables) ==
    [tables EXCEPT !.audit = @ \cup {[at |-> clock + 1, prev |-> AuditHead(tables)]}]

Ingest(w, d, t) ==
    /\ Ready(w)
    /\ \/ /\ RevisionsOf(View(w), d) = {}
          /\ op' = [op EXCEPT ![w] = [kind |-> "ingest", doc |-> d, text |-> t,
                                      ordinal |-> 1]]
       \/ \E r \in LatestRevisions(View(w), d) :
             IF r.text = t THEN UNCHANGED op
             ELSE /\ r.ordinal < MaxOrdinal
                  /\ op' = [op EXCEPT ![w] = [kind |-> "ingest", doc |-> d, text |-> t,
                                              ordinal |-> r.ordinal + 1]]
    /\ Reading(w)
    /\ UNCHANGED <<db, draft, clock>>

\* Mutant: the UPDATE writes another lifecycle.
MadeHistorical(tables, d) ==
    [tables EXCEPT !.revisions =
        {IF r.doc = d THEN [r EXCEPT !.lifecycle = "historical"] ELSE r : r \in @}]

\* The UPDATE: the current revision of the document is superseded.
Superseded(tables, d) ==
    [tables EXCEPT !.revisions =
        {IF r.doc = d THEN [r EXCEPT !.lifecycle = "superseded"] ELSE r : r \in @}]

\* The revision id is taken, by this or by another document.
RevisionTaken(tables, m) ==
    \E r \in tables.revisions : r.ordinal = m.ordinal /\ r.text = m.text

\* Mutant: the row of the document is replaced.
OnlyRevision(tables, m) ==
    [tables EXCEPT !.revisions =
        {r \in @ : r.doc # m.doc} \cup
        {[doc |-> m.doc, ordinal |-> m.ordinal, text |-> m.text,
          lifecycle |-> "current"]}]

WithRevision(tables, m) ==
    [tables EXCEPT !.revisions = @ \cup {[doc |-> m.doc, ordinal |-> m.ordinal,
                                          text |-> m.text, lifecycle |-> "current"]}]

\* The paragraphs whose fragment id is taken, by whatever revision.
FragmentsTaken(tables, m) ==
    {i \in DOMAIN m.text :
        \E f \in tables.fragments : f.index = i /\ f.body = m.text[i]}

\* Mutant: the loop ends one paragraph early.
AllButLast(tables, m, n) ==
    [tables EXCEPT !.fragments = @ \cup
        {[doc |-> m.doc, ordinal |-> m.ordinal, text |-> m.text,
          index |-> i, body |-> m.text[i]] : i \in 1..(n - 1)}]

\* The first n fragments of the revision are inserted.
WithFragments(tables, m, n) ==
    [tables EXCEPT !.fragments = @ \cup
        {[doc |-> m.doc, ordinal |-> m.ordinal, text |-> m.text,
          index |-> i, body |-> m.text[i]] : i \in 1..n}]

\* The rest of ingest(): all of it, or up to an IntegrityError.
IngestWrite(w) ==
    /\ op[w].kind = "ingest"
    /\ LET m == op[w]
           first == Superseded(View(w), m.doc)
           second == WithRevision(first, m)
           taken == FragmentsTaken(first, m)
       IN \/ Locked(w) /\ UNCHANGED clock
          \/ /\ Writable(w) /\ RevisionTaken(first, m)
             /\ LeaveOpen(w, first)
             /\ UNCHANGED clock
          \/ /\ Writable(w) /\ ~RevisionTaken(first, m)
             /\ \E i \in taken :
                   /\ \A j \in taken : i <= j
                   /\ LeaveOpen(w, WithFragments(second, m, i - 1))
             /\ UNCHANGED clock
          \/ /\ Writable(w) /\ ~RevisionTaken(first, m) /\ taken = {}
             /\ Store(w, WithEvent(WithFragments(second, m, Len(m.text))))
             /\ clock' = clock + 1
    /\ op' = [op EXCEPT ![w] = Idle]

-----------------------------------------------------------------------------
(* search() and link_temporal_shard()                                      *)

\* The query, and _event() up to its INSERT.
Search(w) ==
    /\ Ready(w)
    /\ clock' = clock + 1
    /\ op' = [op EXCEPT ![w] = [kind |-> "search",
                                event |-> [at |-> clock + 1, prev |-> AuditHead(View(w))]]]
    /\ Reading(w)
    /\ UNCHANGED <<db, draft>>

SearchWrite(w) ==
    /\ op[w].kind = "search"
    /\ \/ Locked(w)
       \/ /\ Writable(w)
          /\ Store(w, [View(w) EXCEPT !.audit = @ \cup {op[w].event}])
    /\ op' = [op EXCEPT ![w] = Idle]
    /\ UNCHANGED clock

\* The fragment comes from an earlier recall.
Link(w, f, s) ==
    /\ Ready(w)
    /\ op' = [op EXCEPT ![w] = [kind |-> "link", link |-> [fragment |-> f, shard |-> s]]]
    /\ Reading(w)
    /\ UNCHANGED <<db, draft, clock>>

LinkWrite(w) ==
    /\ op[w].kind = "link"
    /\ \/ Locked(w) /\ UNCHANGED clock
       \/ /\ Writable(w) /\ op[w].link \in View(w).links
          /\ Store(w, View(w))
          /\ UNCHANGED clock
       \/ /\ Writable(w) /\ op[w].link \notin View(w).links
          /\ Store(w, WithEvent([View(w) EXCEPT !.links = @ \cup {op[w].link}]))
          /\ clock' = clock + 1
    /\ op' = [op EXCEPT ![w] = Idle]

\* close(), or the death of the worker: SQLite rolls its transaction back.
Close(w) ==
    /\ tx[w] # "none" \/ op[w] # Idle
    /\ draft' = IF tx[w] = "write" THEN Empty ELSE draft
    /\ tx' = [tx EXCEPT ![w] = "none"]
    /\ op' = [op EXCEPT ![w] = Idle]
    /\ UNCHANGED <<db, clock>>

Next ==
    /\ UNCHANGED serial
    /\ \E w \in Workers :
        \/ \E d \in Docs, t \in Texts : Ingest(w, d, t)
        \/ IngestWrite(w)
        \/ Search(w) \/ SearchWrite(w)
        \/ \E f \in db.fragments, s \in Shards : Link(w, f, s)
        \/ LinkWrite(w)
        \/ Close(w)

Spec == Init /\ [][Next]_vars

-----------------------------------------------------------------------------
(* Properties.                                                             *)

(* Every table holds rows of its type, and every method has read its own.  *)
TypeOK ==
    /\ db \in Tables /\ draft \in Tables
    /\ tx \in [Workers -> Transactions]
    /\ op \in [Workers -> Methods]
    /\ clock \in Nat
    /\ serial \in BOOLEAN

(* Under the runtime lock, the current revision of a document is its       *)
(* newest one, and no two revisions of a document have one ordinal.        *)
CurrentIsNewest ==
    serial => \A r, s \in db.revisions : r.doc = s.doc =>
        /\ r.lifecycle = "current" => s.ordinal <= r.ordinal
        /\ r.ordinal = s.ordinal => r = s

HasFragment(r, i) ==
    \E f \in db.fragments :
        f.doc = r.doc /\ f.ordinal = r.ordinal /\ f.text = r.text /\ f.index = i

(* A revision in the lake has the fragments of its whole text.             *)
RevisionsWhole ==
    \A r \in db.revisions : \A i \in DOMAIN r.text : HasFragment(r, i)

(* Half a revision gets into the lake in one way only: from the first      *)
(* missing fragment on, because its paragraph stands at the same place in  *)
(* another revision.  Crashes and locks never leave one.                   *)
HalfOnlyIfRepeated ==
    \A r \in db.revisions : \A i \in DOMAIN r.text :
        ~HasFragment(r, i) =>
            \E j \in 1..i :
                /\ \A n \in 1..(j - 1) : HasFragment(r, n)
                /\ \E f \in db.fragments :
                      f.index = j /\ f.body = r.text[j] /\ ~HasFragment(r, j)

(* Under the runtime lock, the audit events form one chain, whatever       *)
(* method failed half way before.                                          *)
AuditChain ==
    serial => \A e, g \in db.audit : e.prev = g.prev => e = g

(* History is never rewritten: fragments, links and audit events stay, and *)
(* of a revision only the lifecycle changes, from current to superseded.   *)
HistoryKept ==
    [][/\ db.fragments \subseteq db'.fragments
       /\ db.links \subseteq db'.links
       /\ db.audit \subseteq db'.audit
       /\ \A r \in db.revisions :
             r \in db'.revisions \/ [r EXCEPT !.lifecycle = "superseded"] \in db'.revisions]_vars
=============================================================================
