---------------------------- MODULE DurableState ----------------------------
(***************************************************************************)
(* The two append-only files of the Fred-OS runtime, as values: the store  *)
(* of StateCapsules (runtime/state.py) and the write-ahead journal         *)
(* (runtime/journal.py).  A capsule in the store is only a candidate; a    *)
(* commit marker in the journal makes it authoritative.                    *)
(*                                                                         *)
(* A capsule_id is a hash of the capsule's content in the code, so two ids *)
(* are equal exactly when the capsules are; where the code compares ids,   *)
(* the model compares capsules.  As the name of a parent an id is what the *)
(* capsule was made for: the session of a genesis capsule, the command of  *)
(* any other.  A command is one call of dispatch(), whether or not its     *)
(* caller gave it a command id that another one has.                       *)
(***************************************************************************)
EXTENDS Integers, Sequences

CONSTANTS Commands,   \* calls of dispatch()
          Sessions,   \* session ids
          NoId,       \* no parent, or no command
          NoSession,  \* None, as a session id
          NoCapsule   \* None, as a capsule

ASSUME DurableAssumption ==
    /\ Commands \cap Sessions = {}
    /\ NoId \notin Commands \cup Sessions
    /\ NoSession \notin Sessions

-----------------------------------------------------------------------------
(* StateCapsule.  "temporal" stands for the captured TemporalSphere: the   *)
(* sequence of the turns it has recorded.                                  *)

CapsuleIds == Commands \cup Sessions

Capsule == [id       : CapsuleIds,
            seq      : Nat,
            parent   : CapsuleIds \cup {NoId},
            session  : Sessions,
            temporal : Seq(Commands)]

ASSUME NoCapsuleAssumption == NoCapsule \notin Capsule

Genesis(s) == [id       |-> s,
               seq      |-> 0,
               parent   |-> NoId,
               session  |-> s,
               temporal |-> << >>]

\* Mutant: a capsule names its grandparent.
NextOfParent(previous, command, temporal) ==
    [id       |-> command,
     seq      |-> previous.seq + 1,
     parent   |-> previous.parent,
     session  |-> previous.session,
     temporal |-> temporal]

NextCapsule(previous, command, temporal) ==
    [id       |-> command,
     seq      |-> previous.seq + 1,
     parent   |-> previous.id,
     session  |-> previous.session,
     temporal |-> temporal]

-----------------------------------------------------------------------------
(* Journal entries.  "prev" is the position of the entry whose hash the    *)
(* writer read and chained to; 0 is the "GENESIS" hash of an empty file.   *)

CommitTypes == {"GENESIS_COMMIT", "TX_COMMIT"}

EntryTypes == CommitTypes \cup {"TX_START", "STATE_DELTA", "TX_ABORT"}

Entry == [type    : EntryTypes,
          cmd     : Commands \cup {NoId},
          capsule : Capsule \cup {NoCapsule},
          prev    : Nat]

MakeEntry(type, cmd, capsule, prev) ==
    [type |-> type, cmd |-> cmd, capsule |-> capsule, prev |-> prev]

\* entries() verifies that each record is chained to the one before it.
ChainIntact(jrn) == \A i \in DOMAIN jrn : jrn[i].prev = i - 1

CommitPositions(jrn) == {i \in DOMAIN jrn : jrn[i].type \in CommitTypes}

\* latest_commit(): the position of the last commit marker of the file.
IsLatestCommit(jrn, i) ==
    /\ i \in CommitPositions(jrn)
    /\ \A k \in CommitPositions(jrn) : k <= i

\* committed_capsule_ids(), as the capsules that have those ids.
Committed(jrn) == {jrn[i].capsule : i \in CommitPositions(jrn)}

\* The store's capsules that a commit marker made authoritative.
Authoritative(str, jrn) == str \cap Committed(jrn)

\* latest_committed(): the authoritative capsule of the highest sequence.
LatestCommitted(str, jrn) ==
    CHOOSE c \in Authoritative(str, jrn) :
        \A d \in Authoritative(str, jrn) : d.seq <= c.seq

\* uncommitted_transactions(): started commands that nothing has closed.
UncommittedTransactions(jrn) ==
    {c \in Commands :
        \E i \in DOMAIN jrn :
            /\ jrn[i].type = "TX_START" /\ jrn[i].cmd = c
            /\ \A k \in i..Len(jrn) :
                  ~(jrn[k].type \in {"TX_COMMIT", "TX_ABORT"} /\ jrn[k].cmd = c)}
=============================================================================
