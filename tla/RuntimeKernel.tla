---------------------------- MODULE RuntimeKernel ----------------------------
(***************************************************************************)
(* The transactional core of Fred-OS (runtime/kernel.py): workers, each    *)
(* the RuntimeKernel of one process, that share the capsule store, the     *)
(* journal and the inter-process runtime lock.                             *)
(*                                                                         *)
(* A worker boots (hydrates the latest committed capsule or commits the    *)
(* genesis), then dispatches commands one at a time.  Every dispatch runs  *)
(* under the lock: refresh from the shared authority, TX_START, execute    *)
(* the turn, STATE_DELTA, compare-and-set guard, capsule append, TX_COMMIT, *)
(* derived links; or TX_ABORT.  A process may die between any two steps    *)
(* and in the middle of a file append; the operating system then frees     *)
(* its lock.                                                               *)
(*                                                                         *)
(* An append to the journal is two steps, as in the code: the file is read *)
(* to find the hash to chain to (ReadTail), then the record is written.    *)
(***************************************************************************)
EXTENDS DurableState

CONSTANTS Workers,      \* one kernel object per process
          NoWorker,     \* nobody holds the lock
          NoTail,       \* the worker is not in the middle of an append
          FaultPoints,  \* the points at which the code raises
          TornWrites    \* whether a crash may leave half a line in a file

\* An exception may come behind a commit marker: out of the append that has
\* written it, or out of what follows it in the try block.
LateFault == FaultPoints \cap {"marker", "derive"} # {}

ASSUME KernelAssumption ==
    /\ NoWorker \notin Workers
    /\ NoTail \notin Nat
    /\ FaultPoints \subseteq {"lock", "execute", "reject", "delta", "store",
                              "commit", "marker", "derive"}
    /\ TornWrites \in BOOLEAN

VARIABLES
    store,     \* the capsules of the state store file
    journal,   \* the entries of the WAL file
    torn,      \* a half-written line is in one of the two files
    lock,      \* the worker that holds the flock, or NoWorker
    pc,        \* where each worker is
    request,   \* the session asked of boot(), or the envelope of dispatch()
    current,   \* kernel.current_capsule
    before,    \* the local "before" of _dispatch_locked
    temporal,  \* kernel.temporal: the turns the live TemporalSphere recorded
    tail,      \* the journal length append_entry() has read, or NoTail
    outcome    \* what dispatch() returned or raised to the caller

durable == <<store, journal, torn>>
kernel  == <<current, before, temporal>>
vars    == <<store, journal, torn, lock, pc, request, current, before,
             temporal, tail, outcome>>

\* Waiting in InterProcessRuntimeLock.acquire(), outside any lock section.
WaitPcs == {"boot_wait", "boot_rewait", "wait"}

\* About to append to the journal.
AppendPcs == {"genesis_commit", "start", "delta", "commit", "reject", "abort"}

\* acquire() has raised with the flock taken; its file is still open.
LeakPcs == {"boot_leak", "leak"}

\* The flock is held: inside a lock section, or by a leaked file.
LockedPcs == AppendPcs \cup LeakPcs \cup
             {"boot_read", "genesis_store", "boot_refresh",
              "refresh", "execute", "cas", "store", "derive"}

Pcs == {"down", "ready"} \cup WaitPcs \cup LockedPcs

NoRequest == [cmd |-> NoId, session |-> NoSession]

Requests == [cmd : Commands \cup {NoId}, session : Sessions \cup {NoSession}]

Outcomes == {"none", "success", "blocked", "failed"}

Init ==
    /\ store = {}
    /\ journal = << >>
    /\ torn = FALSE
    /\ lock = NoWorker
    /\ pc = [w \in Workers |-> "down"]
    /\ request = [w \in Workers |-> NoRequest]
    /\ current = [w \in Workers |-> NoCapsule]
    /\ before = [w \in Workers |-> NoCapsule]
    /\ temporal = [w \in Workers |-> << >>]
    /\ tail = [w \in Workers |-> NoTail]
    /\ outcome = [c \in Commands |-> "none"]

-----------------------------------------------------------------------------
(* Helpers.                                                                *)

Goto(w, label) == pc' = [pc EXCEPT ![w] = label]

Authority == LatestCommitted(store, journal)

HasAuthority == Authoritative(store, journal) # {}

\* The session check of boot() and of _refresh_authoritative_state_locked().
SessionAccepted(w) == request[w].session \in {NoSession, Authority.session}

\* Both files can be read back and hold an authority this request may use.
Refreshable(w) == ~torn /\ HasAuthority /\ SessionAccepted(w)

\* The write half of append_entry().
AppendEntry(w, type, capsule) ==
    /\ tail[w] # NoTail
    /\ journal' = Append(journal,
                         MakeEntry(type, request[w].cmd, capsule, tail[w]))
    /\ tail' = [tail EXCEPT ![w] = NoTail]

\* The process has lost its memory: it was closed, died, or never booted.
Forget(w) ==
    /\ Goto(w, "down")
    /\ request' = [request EXCEPT ![w] = NoRequest]
    /\ current' = [current EXCEPT ![w] = NoCapsule]
    /\ before' = [before EXCEPT ![w] = NoCapsule]
    /\ temporal' = [temporal EXCEPT ![w] = << >>]
    /\ tail' = [tail EXCEPT ![w] = NoTail]

\* dispatch() leaves its lock section and answers its caller.
Answer(w, result) ==
    /\ lock' = NoWorker
    /\ outcome' = [outcome EXCEPT ![request[w].cmd] = result]
    /\ request' = [request EXCEPT ![w] = NoRequest]
    /\ before' = [before EXCEPT ![w] = NoCapsule]
    /\ Goto(w, "ready")

\* No dispatch before was this command.
Fresh(c) ==
    /\ outcome[c] = "none"
    /\ \A w \in Workers : request[w].cmd # c
    /\ \A i \in DOMAIN journal : journal[i].cmd # c

-----------------------------------------------------------------------------
(* InterProcessRuntimeLock.acquire(), for the three lock sections.         *)

Entered == [boot_wait   |-> "boot_read",
            boot_rewait |-> "boot_refresh",
            wait        |-> "refresh"]

Acquire(w) ==
    /\ pc[w] \in WaitPcs
    /\ lock = NoWorker
    /\ lock' = w
    /\ Goto(w, Entered[pc[w]])
    /\ UNCHANGED <<durable, kernel, request, tail, outcome>>

\* The metadata cannot be written into the lock file: acquire() raises with
\* the flock taken and _handle unset, so no release() follows.
AcquireFails(w) ==
    /\ pc[w] \in WaitPcs
    /\ lock = NoWorker
    /\ "lock" \in FaultPoints
    /\ lock' = w
    /\ Goto(w, IF pc[w] = "wait" THEN "leak" ELSE "boot_leak")
    /\ UNCHANGED <<durable, kernel, request, tail, outcome>>

\* The exception has been dealt with, its frames are gone, and the file in
\* them is closed; that frees the flock.
DropHandle(w) ==
    \/ /\ pc[w] = "leak"
       /\ Answer(w, "failed")
       /\ UNCHANGED <<durable, current, temporal, tail>>
    \/ /\ pc[w] = "boot_leak"
       /\ lock' = NoWorker
       /\ Forget(w)
       /\ UNCHANGED <<durable, outcome>>

\* Mutant: no deadline.
NoTimeout(w) == FALSE

\* RuntimeLockTimeout, out of dispatch().
DispatchTimeout(w) ==
    /\ pc[w] = "wait"
    /\ lock # NoWorker
    /\ Goto(w, "ready")
    /\ outcome' = [outcome EXCEPT ![request[w].cmd] = "failed"]
    /\ request' = [request EXCEPT ![w] = NoRequest]
    /\ UNCHANGED <<durable, kernel, lock, tail>>

\* RuntimeLockTimeout, out of boot().
BootTimeout(w) ==
    /\ pc[w] \in {"boot_wait", "boot_rewait"}
    /\ lock # NoWorker
    /\ Forget(w)
    /\ UNCHANGED <<durable, lock, outcome>>

-----------------------------------------------------------------------------
(* boot().                                                                 *)

Boot(w) ==
    /\ pc[w] = "down"
    /\ \E s \in Sessions \cup {NoSession} :
          request' = [request EXCEPT ![w].session = s]
    /\ Goto(w, "boot_wait")
    /\ UNCHANGED <<durable, kernel, lock, tail, outcome>>

\* There is a committed capsule: the kernel continues from it.
BootHydrate(w) ==
    /\ pc[w] = "boot_read"
    /\ Refreshable(w)
    /\ current' = [current EXCEPT ![w] = Authority]
    /\ temporal' = [temporal EXCEPT ![w] = Authority.temporal]
    /\ lock' = NoWorker
    /\ Goto(w, "boot_rewait")
    /\ UNCHANGED <<durable, before, request, tail, outcome>>

\* Mutant: the lock is released before the genesis is written.
BootGenesisUnlocks(w) ==
    /\ pc[w] = "boot_read"
    /\ ~torn /\ ~HasAuthority
    /\ \E s \in Sessions :
          /\ request[w].session \in {NoSession, s}
          /\ current' = [current EXCEPT ![w] = Genesis(s)]
    /\ lock' = NoWorker
    /\ Goto(w, "genesis_store")
    /\ UNCHANGED <<durable, before, temporal, request, tail, outcome>>

\* Mutant: every boot starts a new session.
BootGenesisAlways(w) ==
    /\ pc[w] = "boot_read"
    /\ \E s \in Sessions : current' = [current EXCEPT ![w] = Genesis(s)]
    /\ Goto(w, "genesis_store")
    /\ UNCHANGED <<durable, before, temporal, lock, request, tail, outcome>>

\* Nothing is committed: a new TemporalSphere under the session asked for,
\* or under a new one.
BootGenesis(w) ==
    /\ pc[w] = "boot_read"
    /\ ~torn /\ ~HasAuthority
    /\ \E s \in Sessions :
          /\ request[w].session \in {NoSession, s}
          /\ current' = [current EXCEPT ![w] = Genesis(s)]
    /\ Goto(w, "genesis_store")
    /\ UNCHANGED <<durable, before, temporal, lock, request, tail, outcome>>

GenesisStore(w) ==
    /\ pc[w] = "genesis_store"
    /\ store' = store \cup {current[w]}
    /\ Goto(w, "genesis_commit")
    /\ UNCHANGED <<journal, torn, kernel, lock, request, tail, outcome>>

GenesisCommit(w) ==
    /\ pc[w] = "genesis_commit"
    /\ AppendEntry(w, "GENESIS_COMMIT", current[w])
    /\ lock' = NoWorker
    /\ Goto(w, "boot_rewait")
    /\ UNCHANGED <<store, torn, kernel, request, outcome>>

\* The second lock section of boot(): refresh, and the two reconciliations,
\* which change none of this state.
BootRefresh(w) ==
    /\ pc[w] = "boot_refresh"
    /\ Refreshable(w)
    /\ IF Authority # current[w]
       THEN /\ temporal' = [temporal EXCEPT ![w] = Authority.temporal]
            /\ current' = [current EXCEPT ![w] = Authority]
       ELSE UNCHANGED <<temporal, current>>
    /\ lock' = NoWorker
    /\ request' = [request EXCEPT ![w] = NoRequest]
    /\ Goto(w, "ready")
    /\ UNCHANGED <<durable, before, tail, outcome>>

\* A file cannot be read, the committed session is not the one asked for, or
\* the reconciliation of the derived links raises.
BootFails(w) ==
    /\ \/ /\ pc[w] = "boot_read"
          /\ torn \/ (HasAuthority /\ ~SessionAccepted(w))
       \/ /\ pc[w] = "boot_refresh"
          /\ ~Refreshable(w) \/ "derive" \in FaultPoints
    /\ lock' = NoWorker
    /\ Forget(w)
    /\ UNCHANGED <<durable, outcome>>

-----------------------------------------------------------------------------
(* dispatch().                                                             *)

Dispatch(w) ==
    /\ pc[w] = "ready"
    /\ \E c \in Commands, s \in Sessions :
          /\ Fresh(c)
          /\ request' = [request EXCEPT ![w] = [cmd |-> c, session |-> s]]
    /\ Goto(w, "wait")
    /\ UNCHANGED <<durable, kernel, lock, tail, outcome>>

\* Mutant: the capsule is refreshed, the live TemporalSphere is not.
RefreshCapsuleOnly(w) ==
    /\ pc[w] = "refresh"
    /\ Refreshable(w)
    /\ current' = [current EXCEPT ![w] = Authority]
    /\ before' = [before EXCEPT ![w] = Authority]
    /\ Goto(w, "start")
    /\ UNCHANGED <<durable, temporal, lock, request, tail, outcome>>

\* The live TemporalSphere is rebuilt only when another worker has committed.
Refresh(w) ==
    /\ pc[w] = "refresh"
    /\ Refreshable(w)
    /\ IF Authority # current[w]
       THEN /\ temporal' = [temporal EXCEPT ![w] = Authority.temporal]
            /\ current' = [current EXCEPT ![w] = Authority]
       ELSE UNCHANGED <<temporal, current>>
    /\ before' = [before EXCEPT ![w] = current'[w]]
    /\ Goto(w, "start")
    /\ UNCHANGED <<durable, lock, request, tail, outcome>>

\* Mutant: the error path leaves the lock held.
RefreshFailsLocked(w) ==
    /\ pc[w] = "refresh"
    /\ ~Refreshable(w)
    /\ outcome' = [outcome EXCEPT ![request[w].cmd] = "failed"]
    /\ request' = [request EXCEPT ![w] = NoRequest]
    /\ Goto(w, "ready")
    /\ UNCHANGED <<durable, kernel, lock, tail>>

RefreshFails(w) ==
    /\ pc[w] = "refresh"
    /\ ~Refreshable(w)
    /\ Answer(w, "failed")
    /\ UNCHANGED <<durable, current, temporal, tail>>

\* The read half of append_entry().
ReadTail(w) ==
    /\ pc[w] \in AppendPcs
    /\ tail[w] = NoTail
    /\ tail' = [tail EXCEPT ![w] = Len(journal)]
    /\ UNCHANGED <<durable, kernel, lock, pc, request, outcome>>

TxStart(w) ==
    /\ pc[w] = "start"
    /\ AppendEntry(w, "TX_START", NoCapsule)
    /\ Goto(w, "execute")
    /\ UNCHANGED <<store, torn, kernel, lock, request, outcome>>

\* _execute_turn() runs to its end and records the turn.
Execute(w) ==
    /\ pc[w] = "execute"
    /\ temporal' = [temporal EXCEPT ![w] = Append(@, request[w].cmd)]
    /\ Goto(w, "delta")
    /\ UNCHANGED <<durable, current, before, lock, request, tail, outcome>>

\* A gate of _execute_turn() refuses, before the turn is recorded.
ExecuteRejects(w) ==
    /\ pc[w] = "execute"
    /\ Goto(w, "reject")
    /\ UNCHANGED <<durable, kernel, lock, request, tail, outcome>>

\* The capsule that StateCapsule.next() builds from the executed turn.
Candidate(w) == NextCapsule(before[w], request[w].cmd, temporal[w])

TxDelta(w) ==
    /\ pc[w] = "delta"
    /\ AppendEntry(w, "STATE_DELTA", NoCapsule)
    /\ Goto(w, "cas")
    /\ UNCHANGED <<store, torn, kernel, lock, request, outcome>>

\* _assert_authoritative_tail(): the parent is still the authority, both as
\* the last commit marker and as the highest committed sequence.
TailIs(capsule) ==
    /\ \E i \in DOMAIN journal :
          IsLatestCommit(journal, i) /\ journal[i].capsule = capsule
    /\ HasAuthority
    /\ Authority = capsule

CheckTail(w) ==
    /\ pc[w] = "cas"
    /\ Goto(w, IF TailIs(before[w]) THEN "store" ELSE "abort")
    /\ UNCHANGED <<durable, kernel, lock, request, tail, outcome>>

\* Mutant: the stored capsule counts as committed.
StoreIsCommit(w) ==
    /\ pc[w] = "store"
    /\ store' = store \cup {Candidate(w)}
    /\ Goto(w, "derive")
    /\ UNCHANGED <<journal, torn, kernel, lock, request, tail, outcome>>

StoreAppend(w) ==
    /\ pc[w] = "store"
    /\ store' = store \cup {Candidate(w)}
    /\ Goto(w, "commit")
    /\ UNCHANGED <<journal, torn, kernel, lock, request, tail, outcome>>

\* The commit marker of the candidate.
WriteMarker(w) ==
    /\ pc[w] = "commit"
    /\ AppendEntry(w, "TX_COMMIT", Candidate(w))
    /\ UNCHANGED <<store, torn, before, temporal, lock, request, outcome>>

TxCommit(w) ==
    /\ WriteMarker(w)
    /\ current' = [current EXCEPT ![w] = Candidate(w)]
    /\ Goto(w, "derive")

\* The append raises with the marker in the file (its fsync fails): the
\* candidate is committed, and current_capsule is not assigned.
MarkerRaises(w) ==
    /\ "marker" \in FaultPoints
    /\ WriteMarker(w)
    /\ Goto(w, "abort")
    /\ UNCHANGED current

\* append_entry() of the marker, and what follows its return.
CommitAppend(w) == pc[w] = "commit" /\ (TxCommit(w) \/ MarkerRaises(w))

\* reconcile_committed_derivations() and the success result.
Derive(w) ==
    /\ pc[w] = "derive"
    /\ Answer(w, "success")
    /\ UNCHANGED <<durable, current, temporal, tail>>

\* Mutant: the try block covers what follows the commit marker.
RaiseLate(w) ==
    /\ pc[w] \in FaultPoints \cup {"derive"}
    /\ tail' = [tail EXCEPT ![w] = NoTail]
    /\ Goto(w, "abort")
    /\ UNCHANGED <<durable, kernel, lock, request, outcome>>

\* An exception inside the try block, with nothing written; a turn may raise
\* before or after it was recorded.
Raise(w) ==
    /\ pc[w] \in FaultPoints
    /\ \/ UNCHANGED temporal
       \/ /\ pc[w] = "execute"
          /\ temporal' = [temporal EXCEPT ![w] = Append(@, request[w].cmd)]
    /\ tail' = [tail EXCEPT ![w] = NoTail]
    /\ Goto(w, "abort")
    /\ UNCHANGED <<durable, current, before, lock, request, outcome>>

\* An append before the marker raises with its line in the file, or the event
\* that _abort_rejected() emits behind its TX_ABORT does: the except clause
\* writes another TX_ABORT.
RaiseWritten(w) ==
    /\ \/ /\ pc[w] = "delta" /\ "delta" \in FaultPoints
          /\ AppendEntry(w, "STATE_DELTA", NoCapsule)
          /\ UNCHANGED store
       \/ /\ pc[w] = "store" /\ "store" \in FaultPoints
          /\ store' = store \cup {Candidate(w)}
          /\ UNCHANGED <<journal, tail>>
       \/ /\ pc[w] = "reject" /\ "reject" \in FaultPoints
          /\ AppendEntry(w, "TX_ABORT", NoCapsule)
          /\ UNCHANGED store
    /\ Goto(w, "abort")
    /\ UNCHANGED <<torn, kernel, lock, request, outcome>>

\* Mutant: the turn of the failed transaction stays in memory.
RollBackKeepsTurn(w, result) ==
    /\ AppendEntry(w, "TX_ABORT", NoCapsule)
    /\ Answer(w, result)
    /\ UNCHANGED <<store, torn, current, temporal>>

\* The except clause (status "failed"), and _abort_rejected ("blocked").
RollBack(w, result) ==
    /\ AppendEntry(w, "TX_ABORT", NoCapsule)
    /\ temporal' = [temporal EXCEPT ![w] = before[w].temporal]
    /\ Answer(w, result)
    /\ UNCHANGED <<store, torn, current>>

\* Mutant: no TX_ABORT is written.
AbortSilently(w) ==
    /\ pc[w] = "abort"
    /\ temporal' = [temporal EXCEPT ![w] = before[w].temporal]
    /\ tail' = [tail EXCEPT ![w] = NoTail]
    /\ Answer(w, "failed")
    /\ UNCHANGED <<durable, current>>

Abort(w)  == pc[w] = "abort" /\ RollBack(w, "failed")
Reject(w) == pc[w] = "reject" /\ RollBack(w, "blocked")

-----------------------------------------------------------------------------
(* The end of a process.                                                   *)

Shutdown(w) ==
    /\ pc[w] = "ready"
    /\ Forget(w)
    /\ UNCHANGED <<durable, lock, outcome>>

\* In the middle of handle.write(): the line may be cut short.
MidWrite(w) ==
    \/ pc[w] \in AppendPcs /\ tail[w] # NoTail
    \/ pc[w] \in {"genesis_store", "store"}

\* Mutant: the lock outlives its process.
CrashKeepsLock(w) ==
    /\ pc[w] # "down"
    /\ Forget(w)
    /\ UNCHANGED <<durable, lock, outcome>>

Crash(w) ==
    /\ pc[w] # "down"
    /\ Forget(w)
    /\ lock' = IF lock = w THEN NoWorker ELSE lock
    /\ \/ UNCHANGED torn
       \/ TornWrites /\ MidWrite(w) /\ torn' = TRUE
    /\ UNCHANGED <<store, journal, outcome>>

-----------------------------------------------------------------------------
\* What a live worker does of itself once it was asked for something.
BootStep(w) ==
    \/ BootTimeout(w) \/ BootHydrate(w) \/ BootGenesis(w) \/ GenesisStore(w)
    \/ GenesisCommit(w) \/ BootRefresh(w) \/ BootFails(w)

DispatchStep(w) ==
    \/ DispatchTimeout(w) \/ Refresh(w) \/ RefreshFails(w) \/ TxStart(w)
    \/ Execute(w) \/ ExecuteRejects(w) \/ TxDelta(w) \/ CheckTail(w)
    \/ StoreAppend(w) \/ CommitAppend(w) \/ Derive(w) \/ Raise(w)
    \/ RaiseWritten(w) \/ Abort(w) \/ Reject(w)

Locking(w) == Acquire(w) \/ AcquireFails(w) \/ DropHandle(w)

Progress(w) == Locking(w) \/ ReadTail(w) \/ BootStep(w) \/ DispatchStep(w)

Step(w) == Boot(w) \/ Dispatch(w) \/ Shutdown(w) \/ Crash(w) \/ Progress(w)

Next == \E w \in Workers : Step(w)

Spec == Init /\ [][Next]_vars

\* A live process keeps running; nobody has to call it, and nobody dies.
FairSpec == Spec /\ \A w \in Workers : WF_vars(Progress(w))

-----------------------------------------------------------------------------
(* Properties.                                                             *)

(* Every variable has its type.                                            *)
TypeOK ==
    /\ store \in SUBSET Capsule
    /\ journal \in Seq(Entry)
    /\ torn \in BOOLEAN
    /\ lock \in Workers \cup {NoWorker}
    /\ pc \in [Workers -> Pcs]
    /\ request \in [Workers -> Requests]
    /\ current \in [Workers -> Capsule \cup {NoCapsule}]
    /\ before \in [Workers -> Capsule \cup {NoCapsule}]
    /\ temporal \in [Workers -> Seq(Commands)]
    /\ tail \in [Workers -> Nat \cup {NoTail}]
    /\ outcome \in [Commands -> Outcomes]

(* The journal can always be read back: however the appends of the workers *)
(* interleave with crashes and timeouts, each entry is chained to the one  *)
(* before it, so entries() never raises a hash-chain error.                *)
HashChain == ChainIntact(journal)

(* The genesis commit is the first and only one of its kind.               *)
GenesisFirst(i) ==
    /\ journal[i].capsule = Genesis(journal[i].capsule.session)
    /\ \A k \in CommitPositions(journal) : i <= k

(* The commit at i extends the commit before it.                           *)
ExtendsPrevious(i) ==
    \E k \in CommitPositions(journal) :
        /\ k < i
        /\ \A m \in CommitPositions(journal) : m < i => m <= k
        /\ journal[i].capsule.parent = journal[k].capsule.id
        /\ journal[i].capsule.seq = journal[k].capsule.seq + 1
        /\ journal[i].capsule.session = journal[k].capsule.session

(* The commit markers form one unbroken chain from a single genesis, each  *)
(* capsule the child of the one committed just before it, and every        *)
(* committed capsule is already in the state store: no worker commits over *)
(* the work of another, whatever stale capsule it held before it waited    *)
(* for the lock, and a crash never leaves a commit without its capsule.    *)
CommitChain ==
    \A i \in CommitPositions(journal) :
        /\ journal[i].capsule \in store
        /\ \/ journal[i].type = "GENESIS_COMMIT" /\ GenesisFirst(i)
           \/ journal[i].type = "TX_COMMIT" /\ ExtendsPrevious(i)

(* The two ways the kernel finds the authoritative capsule agree: the last *)
(* commit marker of the journal (the CAS guard) and the highest committed  *)
(* sequence of the store (boot, refresh).                                  *)
AuthoritiesAgree ==
    \A i \in DOMAIN journal :
        IsLatestCommit(journal, i) => journal[i].capsule = Authority

(* The CAS guard of a transaction never has to refuse: the lock and the    *)
(* refresh already make the parent the authoritative tail.                 *)
CasNeverRefuses == \A w \in Workers : pc[w] = "cas" => TailIs(before[w])

Closed(i) == journal[i].type \in {"TX_COMMIT", "TX_ABORT"}

(* The commit marker of a transaction is the only entry that closes it:    *)
(* whatever raises, a transaction is not both committed and aborted, and   *)
(* not committed twice.  (It may be aborted twice: when the event behind   *)
(* the TX_ABORT of a rejection raises.)                                    *)
CommitClosesAlone ==
    \A i, k \in DOMAIN journal :
        /\ journal[i].type = "TX_COMMIT" /\ Closed(k)
        /\ journal[i].cmd = journal[k].cmd
        => i = k

IsCommitted(c) ==
    \E i \in DOMAIN journal : journal[i].type = "TX_COMMIT" /\ journal[i].cmd = c

(* What dispatch() tells its caller is true: SUCCESS only when the command *)
(* is committed, and an exception or BLOCKED only when it is not, now and  *)
(* after any later crash, so that a caller may safely try again.           *)
AnsweredTruthfully ==
    \A c \in Commands :
        /\ outcome[c] = "success" => IsCommitted(c)
        /\ outcome[c] \in {"failed", "blocked"} => ~IsCommitted(c)

(* A command that was answered left no open transaction in the WAL: only a *)
(* crash leaves something for reconcile_wal() to report.                   *)
AnsweredMeansClosed ==
    \A c \in UncommittedTransactions(journal) : outcome[c] = "none"

(* Every committed capsule remembers exactly the turns of its parent and   *)
(* its own: a turn that was rolled back, or that another worker committed  *)
(* while this one was stale, is neither kept nor lost.                     *)
TurnsFaithful ==
    \A i, k \in CommitPositions(journal) :
        journal[i].capsule.parent = journal[k].capsule.id =>
            journal[i].capsule.temporal =
                Append(journal[k].capsule.temporal, journal[i].capsule.id)

(* A worker at rest holds in its live TemporalSphere what its capsule says. *)
LiveStateMatches ==
    \A w \in Workers :
        pc[w] = "ready" => temporal[w] = current[w].temporal

(* Authority never goes back or sideways: a step keeps the authoritative   *)
(* capsule or replaces it by a child of it.                                *)
AuthorityAdvances ==
    [][HasAuthority =>
          /\ HasAuthority'
          /\ \/ Authority' = Authority
             \/ Authority'.parent = Authority.id]_vars

(* A reboot restores the latest committed state: a boot that reads the     *)
(* files finds them readable, whatever crash came before it.               *)
RebootCanRead == \A w \in Workers : pc[w] = "boot_read" => ~torn

(* Every dispatch that waits for the lock is eventually answered, unless   *)
(* its process dies.                                                       *)
DispatchAnswered ==
    \A w \in Workers : pc[w] = "wait" ~> pc[w] \in {"ready", "down"}

(* No worker keeps the lock: it releases it, or dies and loses it.         *)
LockReleased == \A w \in Workers : lock = w ~> lock # w

-----------------------------------------------------------------------------
(* The inductive invariant behind CommitChain and HashChain.               *)

\* Between the refresh and the commit marker, "before" is the parent.
TxPcs == {"start", "execute", "delta", "cas", "store", "commit"}

\* Inside a dispatch that has refreshed.
InsidePcs == TxPcs \cup {"derive", "abort", "reject"}

\* The lock is held exactly by the worker that is in a lock section.
LockHeld == \A w \in Workers : pc[w] \in LockedPcs <=> lock = w

\* Nobody appends between the two halves of an append_entry().
TailFresh ==
    \A w \in Workers :
        tail[w] # NoTail => pc[w] \in AppendPcs /\ tail[w] = Len(journal)

IsTail(capsule) ==
    \E i \in DOMAIN journal :
        IsLatestCommit(journal, i) /\ journal[i].capsule = capsule

CommitsIncrease ==
    \A i, k \in CommitPositions(journal) :
        i < k => journal[i].capsule.seq < journal[k].capsule.seq

SomeTail == CommitPositions(journal) # {} =>
                \E i \in DOMAIN journal : IsLatestCommit(journal, i)

\* What a worker in a transaction knows of the files.
TxKnowledge(w) ==
    /\ pc[w] \in InsidePcs \cup {"wait", "leak", "refresh"} => request[w].cmd \in Commands
    /\ pc[w] \in InsidePcs => before[w] \in Capsule
    /\ pc[w] \in TxPcs => IsTail(before[w])
    /\ pc[w] = "commit" => Candidate(w) \in store

\* What a worker that writes the genesis knows of them.
GenesisKnowledge(w) ==
    /\ pc[w] \in {"genesis_store", "genesis_commit"} =>
          /\ CommitPositions(journal) = {}
          /\ \E s \in Sessions : current[w] = Genesis(s)
    /\ pc[w] = "genesis_commit" => current[w] \in store

(* TypeOK, the lock discipline, the two chains, and what each worker knows *)
(* of the files while it holds the lock.                                   *)
IInv ==
    /\ TypeOK
    /\ LockHeld
    /\ TailFresh
    /\ HashChain
    /\ CommitChain
    /\ CommitsIncrease
    /\ SomeTail
    /\ \A w \in Workers : TxKnowledge(w) /\ GenesisKnowledge(w)
=============================================================================
