------------------------- MODULE RuntimeKernelProofs -------------------------
(***************************************************************************)
(* TLAPS proofs about RuntimeKernel, for any number of workers, commands   *)
(* and sessions.  First, with every fault and torn write the model has:    *)
(* the types, the hash chain, the commit chain, the authority.  Then,      *)
(* where no exception follows a commit marker (NoLateFault): the accounts  *)
(* of the commands, what the TemporalSpheres and the capsules remember,    *)
(* and the refinement of Ledger.  Last, the composition with the gateway   *)
(* (GatewayOverKernel): the processes implement Gateway, and what is       *)
(* proved of it holds for them.                                            *)
(***************************************************************************)
EXTENDS RuntimeKernelRefinement, GatewayOverKernel, FiniteSetTheorems, TLAPS

-----------------------------------------------------------------------------
(* Facts about the durable values.                                         *)

(* The genesis of a session and the child of a capsule are capsules.       *)
LEMMA CapsuleTypes ==
    /\ \A s \in Sessions : Genesis(s) \in Capsule
    /\ \A p \in Capsule, c \in Commands, t \in Seq(Commands) :
          NextCapsule(p, c, t) \in Capsule
  BY DEF Genesis, NextCapsule, Capsule, CapsuleIds

(* What appending one entry to a journal changes.                          *)
LEMMA AppendFacts ==
    ASSUME NEW jrn \in Seq(Entry), NEW e \in Entry
    PROVE  /\ Append(jrn, e) \in Seq(Entry)
           /\ Len(jrn) \in Nat
           /\ DOMAIN jrn = 1..Len(jrn)
           /\ Len(Append(jrn, e)) = Len(jrn) + 1
           /\ DOMAIN Append(jrn, e) = 1..(Len(jrn) + 1)
           /\ \A i \in 1..Len(jrn) : Append(jrn, e)[i] = jrn[i]
           /\ Append(jrn, e)[Len(jrn) + 1] = e
  OBVIOUS

(* An entry that is no commit marker leaves the commit markers alone.      *)
LEMMA AppendPlain ==
    ASSUME NEW jrn \in Seq(Entry), NEW e \in Entry, e.type \notin CommitTypes
    PROVE  CommitPositions(Append(jrn, e)) = CommitPositions(jrn)
  BY AppendFacts DEF CommitPositions

(* A commit marker becomes the last one.                                   *)
LEMMA AppendCommit ==
    ASSUME NEW jrn \in Seq(Entry), NEW e \in Entry, e.type \in CommitTypes
    PROVE  /\ CommitPositions(Append(jrn, e)) =
                  CommitPositions(jrn) \cup {Len(jrn) + 1}
           /\ \A i \in CommitPositions(jrn) : i \in 1..Len(jrn)
  BY AppendFacts DEF CommitPositions

(* An append that chains to the last entry keeps the chain.                *)
LEMMA AppendChained ==
    ASSUME NEW jrn \in Seq(Entry), NEW e \in Entry,
           ChainIntact(jrn), e.prev = Len(jrn)
    PROVE  ChainIntact(Append(jrn, e))
  BY AppendFacts DEF ChainIntact

(* Where there is a last commit marker, its capsule is the authority.      *)
LEMMA TailIsAuthority ==
    ASSUME TypeOK, CommitChain, CommitsIncrease,
           NEW i \in DOMAIN journal, IsLatestCommit(journal, i)
    PROVE  /\ HasAuthority
           /\ Authority = journal[i].capsule
           /\ Authority \in Capsule
  <1> DEFINE c == journal[i].capsule
             A == Authoritative(store, journal)
  <1>1. i \in CommitPositions(journal)
        /\ \A k \in CommitPositions(journal) : k <= i
        /\ CommitPositions(journal) \subseteq Nat
    BY DEF IsLatestCommit, CommitPositions, TypeOK
  <1>2. c \in A /\ c \in Capsule
    BY <1>1 DEF CommitChain, Authoritative, Committed, TypeOK
  <1>3. \A d \in A : \E k \in CommitPositions(journal) : d = journal[k].capsule
    BY DEF Authoritative, Committed
  <1>4. \A d \in A : d \in Capsule /\ d.seq \in Nat
    BY DEF Authoritative, TypeOK, Capsule
  <1>5. \A d \in A : d = c \/ d.seq < c.seq
    <2> SUFFICES ASSUME NEW d \in A PROVE d = c \/ d.seq < c.seq
      OBVIOUS
    <2>1. PICK k \in CommitPositions(journal) : d = journal[k].capsule
      BY <1>3
    <2>2. CASE k = i
      BY <2>1, <2>2
    <2>3. CASE k < i
      BY <2>1, <2>3, <1>1 DEF CommitsIncrease
    <2>4. k \in Nat /\ i \in Nat /\ k <= i
      BY <1>1
    <2>5. k = i \/ k < i
      BY <2>4
    <2> QED BY <2>2, <2>3, <2>5
  <1>6. \A d \in A : d.seq <= c.seq
    BY <1>2, <1>4, <1>5
  <1>7. \A d \in A : (\A x \in A : x.seq <= d.seq) => d = c
    BY <1>2, <1>4, <1>5
  <1>8. Authority = CHOOSE d \in A : \A x \in A : x.seq <= d.seq
    BY DEF Authority, LatestCommitted
  <1>9. Authority = c
    BY <1>2, <1>6, <1>7, <1>8
  <1> QED BY <1>2, <1>9 DEF HasAuthority

(* A readable authority is the capsule of the last commit marker.          *)
LEMMA AuthorityIsTail ==
    ASSUME TypeOK, CommitChain, CommitsIncrease, SomeTail, HasAuthority
    PROVE  IsTail(Authority) /\ Authority \in Capsule
  <1>1. CommitPositions(journal) # {}
    BY DEF HasAuthority, Authoritative, Committed
  <1>2. PICK i \in DOMAIN journal : IsLatestCommit(journal, i)
    BY <1>1 DEF SomeTail
  <1> QED BY <1>2, TailIsAuthority DEF IsTail

(* No authority means that nothing was committed.                          *)
LEMMA NoAuthority ==
    ASSUME TypeOK, CommitChain, ~HasAuthority
    PROVE  CommitPositions(journal) = {}
  BY DEF CommitChain, HasAuthority, Authoritative, Committed

-----------------------------------------------------------------------------
(* The steps of a worker, by what they do to the files and to the lock.    *)

(* The control labels, spelled out.                                        *)
LEMMA Labels ==
    /\ LockedPcs = {"genesis_commit", "start", "delta", "commit", "reject",
                    "abort", "boot_leak", "leak", "boot_read", "genesis_store",
                    "boot_refresh", "refresh", "execute", "cas", "store",
                    "derive"}
    /\ Pcs = {"down", "ready", "boot_wait", "boot_rewait", "wait"} \cup LockedPcs
  BY DEF LockedPcs, AppendPcs, LeakPcs, Pcs, WaitPcs

(* Where a lock section begins.                                            *)
LEMMA EnteredLocked ==
    /\ Entered["boot_wait"] = "boot_read"
    /\ Entered["boot_rewait"] = "boot_refresh"
    /\ Entered["wait"] = "refresh"
    /\ \A p \in WaitPcs : Entered[p] \in {"boot_read", "boot_refresh", "refresh"}
  BY DEF Entered, WaitPcs

(* Exactly the worker in a lock section holds the lock.                    *)
LEMMA LockStep ==
    ASSUME TypeOK, LockHeld, [Next]_vars
    PROVE  LockHeld'
  <1>t. pc \in [Workers -> Pcs]
    BY DEF TypeOK
  <1> USE KernelAssumption, Labels, <1>t DEF LockHeld, Goto
  <1>1. CASE UNCHANGED vars
    BY <1>1 DEF vars
  <1>2. CASE Next
    <2> PICK w \in Workers : Step(w)
      BY <1>2 DEF Next
    <2>1. CASE Boot(w) \/ Dispatch(w) \/ Shutdown(w) \/ Crash(w)
      BY <2>1 DEF Boot, Dispatch, Shutdown, Crash, Forget
    <2>2. CASE Locking(w)
      <3>1. CASE Acquire(w)
        BY <3>1, EnteredLocked DEF Acquire, WaitPcs
      <3>2. CASE AcquireFails(w)
        BY <3>2 DEF AcquireFails, WaitPcs
      <3>3. CASE DropHandle(w)
        BY <3>3 DEF DropHandle, Answer, Forget
      <3> QED BY <2>2, <3>1, <3>2, <3>3 DEF Locking
    <2>3. CASE ReadTail(w)
      BY <2>3 DEF ReadTail
    <2>4. CASE BootStep(w)
      <3>1. CASE BootTimeout(w) \/ BootFails(w)
        BY <3>1 DEF BootTimeout, BootFails, Forget
      <3>2. CASE BootHydrate(w) \/ BootGenesis(w) \/ BootRefresh(w)
        BY <3>2 DEF BootHydrate, BootGenesis, BootRefresh
      <3>3. CASE GenesisStore(w) \/ GenesisCommit(w)
        BY <3>3 DEF GenesisStore, GenesisCommit
      <3> QED BY <2>4, <3>1, <3>2, <3>3 DEF BootStep
    <2>5. CASE DispatchTimeout(w) \/ Refresh(w) \/ RefreshFails(w) \/ TxStart(w)
               \/ Execute(w) \/ ExecuteRejects(w) \/ TxDelta(w)
      BY <2>5 DEF DispatchTimeout, Refresh, RefreshFails, TxStart, Execute,
                  ExecuteRejects, TxDelta, Answer
    <2>6. CASE CheckTail(w) \/ StoreAppend(w) \/ TxCommit(w) \/ Derive(w)
               \/ MarkerRaises(w) \/ Raise(w) \/ RaiseWritten(w) \/ Abort(w) \/ Reject(w)
      <3>1. CASE CheckTail(w) \/ StoreAppend(w) \/ TxCommit(w) \/ MarkerRaises(w)
        BY <3>1 DEF CheckTail, StoreAppend, TxCommit, MarkerRaises, WriteMarker
      <3>2. CASE Derive(w)
        BY <3>2 DEF Derive, Answer
      <3>3. CASE Raise(w) \/ RaiseWritten(w)
        BY <3>3 DEF Raise, RaiseWritten
      <3>4. CASE Abort(w) \/ Reject(w)
        BY <3>4 DEF Abort, Reject, RollBack, Answer
      <3> QED BY <2>6, <3>1, <3>2, <3>3, <3>4
    <2> QED BY <2>1, <2>2, <2>3, <2>4, <2>5, <2>6 DEF Step, Progress, DispatchStep, CommitAppend
  <1> QED BY <1>1, <1>2

(* Nobody appends between the two halves of an append_entry().             *)
LEMMA TailStep ==
    ASSUME TypeOK, LockHeld, TailFresh, [Next]_vars
    PROVE  TailFresh'
  <1>t. /\ pc \in [Workers -> Pcs]
        /\ tail \in [Workers -> Nat \cup {NoTail}]
        /\ journal \in Seq(Entry)
    BY DEF TypeOK
  <1> USE KernelAssumption, Labels, <1>t DEF LockHeld, TailFresh, Goto, AppendPcs
  <1>1. CASE UNCHANGED vars
    BY <1>1 DEF vars
  <1>2. CASE Next
    <2> PICK w \in Workers : Step(w)
      BY <1>2 DEF Next
    <2>1. CASE Boot(w) \/ Dispatch(w) \/ Shutdown(w) \/ Crash(w)
      BY <2>1 DEF Boot, Dispatch, Shutdown, Crash, Forget, durable
    <2>2. CASE Locking(w)
      <3>1. CASE Acquire(w)
        BY <3>1, EnteredLocked DEF Acquire, WaitPcs, durable
      <3>2. CASE AcquireFails(w)
        BY <3>2 DEF AcquireFails, WaitPcs, durable
      <3>3. CASE DropHandle(w)
        BY <3>3 DEF DropHandle, Answer, Forget, durable
      <3> QED BY <2>2, <3>1, <3>2, <3>3 DEF Locking
    <2>3. CASE ReadTail(w)
      BY <2>3 DEF ReadTail, durable
    <2>4. CASE BootStep(w)
      <3>1. CASE BootTimeout(w) \/ BootFails(w)
        BY <3>1 DEF BootTimeout, BootFails, Forget, durable
      <3>2. CASE BootHydrate(w) \/ BootGenesis(w) \/ BootRefresh(w)
        BY <3>2 DEF BootHydrate, BootGenesis, BootRefresh, durable
      <3>3. CASE GenesisStore(w) \/ GenesisCommit(w)
        BY <3>3 DEF GenesisStore, GenesisCommit, AppendEntry, durable
      <3> QED BY <2>4, <3>1, <3>2, <3>3 DEF BootStep
    <2>5. CASE DispatchTimeout(w) \/ Refresh(w) \/ RefreshFails(w) \/ TxStart(w)
               \/ Execute(w) \/ ExecuteRejects(w) \/ TxDelta(w)
      BY <2>5 DEF DispatchTimeout, Refresh, RefreshFails, TxStart, Execute,
                  ExecuteRejects, TxDelta, Answer, AppendEntry, durable
    <2>6. CASE CheckTail(w) \/ StoreAppend(w) \/ TxCommit(w) \/ Derive(w)
               \/ MarkerRaises(w) \/ Raise(w) \/ RaiseWritten(w) \/ Abort(w) \/ Reject(w)
      <3>1. CASE CheckTail(w) \/ StoreAppend(w) \/ TxCommit(w) \/ MarkerRaises(w)
        BY <3>1 DEF CheckTail, StoreAppend, TxCommit, MarkerRaises, WriteMarker,
                    AppendEntry, durable
      <3>2. CASE Derive(w)
        BY <3>2 DEF Derive, Answer, durable
      <3>3. CASE Raise(w) \/ RaiseWritten(w)
        BY <3>3 DEF Raise, RaiseWritten, AppendEntry, durable
      <3>4. CASE Abort(w) \/ Reject(w)
        BY <3>4 DEF Abort, Reject, RollBack, Answer, AppendEntry, durable
      <3> QED BY <2>6, <3>1, <3>2, <3>3, <3>4
    <2> QED BY <2>1, <2>2, <2>3, <2>4, <2>5, <2>6 DEF Step, Progress, DispatchStep, CommitAppend
  <1> QED BY <1>1, <1>2

(* A step of one worker does not touch the memory of another.              *)
LEMMA OthersUntouched ==
    ASSUME TypeOK, NEW u \in Workers, Step(u), NEW w \in Workers, w # u
    PROVE  /\ pc'[w] = pc[w]
           /\ request'[w] = request[w]
           /\ current'[w] = current[w]
           /\ before'[w] = before[w]
           /\ temporal'[w] = temporal[w]
  <1>t. /\ DOMAIN pc = Workers
        /\ DOMAIN request = Workers
        /\ DOMAIN current = Workers
        /\ DOMAIN before = Workers
        /\ DOMAIN temporal = Workers
    BY DEF TypeOK
  <1> USE <1>t DEF Goto, kernel
  <1>1. CASE Boot(u) \/ Dispatch(u) \/ Shutdown(u) \/ Crash(u)
    BY <1>1 DEF Boot, Dispatch, Shutdown, Crash, Forget
  <1>2. CASE Locking(u) \/ ReadTail(u)
    BY <1>2 DEF Locking, Acquire, AcquireFails, DropHandle, Answer, Forget, ReadTail
  <1>3. CASE BootStep(u)
    <2>1. CASE BootTimeout(u) \/ BootFails(u)
      BY <2>1 DEF BootTimeout, BootFails, Forget
    <2>2. CASE BootHydrate(u) \/ BootGenesis(u) \/ BootRefresh(u)
      BY <2>2 DEF BootHydrate, BootGenesis, BootRefresh
    <2>3. CASE GenesisStore(u) \/ GenesisCommit(u)
      BY <2>3 DEF GenesisStore, GenesisCommit
    <2> QED BY <1>3, <2>1, <2>2, <2>3 DEF BootStep
  <1>4. CASE DispatchTimeout(u) \/ Refresh(u) \/ RefreshFails(u) \/ TxStart(u)
             \/ Execute(u) \/ ExecuteRejects(u) \/ TxDelta(u)
    BY <1>4 DEF DispatchTimeout, Refresh, RefreshFails, TxStart, Execute,
                ExecuteRejects, TxDelta, Answer
  <1>5. CASE CheckTail(u) \/ StoreAppend(u) \/ TxCommit(u) \/ Derive(u)
             \/ MarkerRaises(u) \/ Raise(u) \/ RaiseWritten(u) \/ Abort(u) \/ Reject(u)
    BY <1>5 DEF CheckTail, StoreAppend, TxCommit, MarkerRaises, WriteMarker, Derive,
                Raise, RaiseWritten, Abort,
                Reject, RollBack, Answer
  <1> QED BY <1>1, <1>2, <1>3, <1>4, <1>5 DEF Step, Progress, DispatchStep, CommitAppend

(* The files change only in the hands of the holder of the lock, and the   *)
(* store only grows.                                                       *)
LEMMA FilesChange ==
    ASSUME TypeOK, LockHeld, NEW u \in Workers, Step(u)
    PROVE  /\ lock # u => UNCHANGED <<store, journal>>
           /\ store \subseteq store'
  <1> USE Labels DEF LockHeld, durable, AppendPcs
  <1>1. CASE Boot(u) \/ Dispatch(u) \/ Shutdown(u) \/ Crash(u)
    BY <1>1 DEF Boot, Dispatch, Shutdown, Crash
  <1>2. CASE Locking(u) \/ ReadTail(u)
    BY <1>2 DEF Locking, Acquire, AcquireFails, DropHandle, ReadTail
  <1>3. CASE BootStep(u)
    BY <1>3 DEF BootStep, BootTimeout, BootFails, BootHydrate, BootGenesis,
                BootRefresh, GenesisStore, GenesisCommit
  <1>4. CASE DispatchTimeout(u) \/ Refresh(u) \/ RefreshFails(u) \/ TxStart(u)
             \/ Execute(u) \/ ExecuteRejects(u) \/ TxDelta(u)
    BY <1>4 DEF DispatchTimeout, Refresh, RefreshFails, TxStart, Execute,
                ExecuteRejects, TxDelta
  <1>5. CASE CheckTail(u) \/ StoreAppend(u) \/ TxCommit(u) \/ Derive(u)
             \/ MarkerRaises(u) \/ Raise(u) \/ RaiseWritten(u) \/ Abort(u) \/ Reject(u)
    BY <1>5 DEF CheckTail, StoreAppend, TxCommit, MarkerRaises, WriteMarker, Derive,
                Raise, RaiseWritten, Abort,
                Reject, RollBack
  <1> QED BY <1>1, <1>2, <1>3, <1>4, <1>5 DEF Step, Progress, DispatchStep, CommitAppend

\* An entry that is no commit marker, chained to the last entry, is added.
PlainAppend ==
    \E e \in Entry : /\ e.type \notin CommitTypes
                     /\ e.prev = Len(journal)
                     /\ journal' = Append(journal, e)

(* The shape of an entry that a worker appends.                            *)
LEMMA AppendedEntry ==
    ASSUME TypeOK, TailFresh, NEW u \in Workers,
           NEW type \in EntryTypes, NEW capsule \in Capsule \cup {NoCapsule},
           AppendEntry(u, type, capsule)
    PROVE  \E e \in Entry : /\ e.type = type
                            /\ e.capsule = capsule
                            /\ e.prev = Len(journal)
                            /\ journal' = Append(journal, e)
  <1> DEFINE e == MakeEntry(type, request[u].cmd, capsule, tail[u])
  <1>1. tail[u] = Len(journal) /\ tail[u] \in Nat
    BY DEF TypeOK, TailFresh, AppendEntry
  <1>2. request[u].cmd \in Commands \cup {NoId}
    BY DEF TypeOK, Requests
  <1>3. e \in Entry /\ e.type = type /\ e.capsule = capsule /\ e.prev = tail[u]
    BY <1>1, <1>2 DEF MakeEntry, Entry
  <1>4. journal' = Append(journal, e)
    BY DEF AppendEntry
  <1> QED BY <1>1, <1>3, <1>4

(* A step leaves the journal alone, or adds one entry to it.               *)
LEMMA JournalChange ==
    ASSUME TypeOK, TailFresh, NEW u \in Workers, Step(u)
    PROVE  \/ UNCHANGED journal
           \/ PlainAppend /\ UNCHANGED store
           \/ GenesisCommit(u)
           \/ WriteMarker(u)
  <1>1. ASSUME NEW type \in EntryTypes \ CommitTypes,
               AppendEntry(u, type, NoCapsule)
        PROVE  PlainAppend
    <2>1. type \in EntryTypes /\ type \notin CommitTypes
      OBVIOUS
    <2> QED BY <1>1, <2>1, AppendedEntry DEF PlainAppend
  <1>2. {"TX_START", "STATE_DELTA", "TX_ABORT"} \subseteq EntryTypes \ CommitTypes
    BY DEF EntryTypes, CommitTypes
  <1>3. CASE TxStart(u) \/ TxDelta(u)
    BY <1>3, <1>1, <1>2 DEF TxStart, TxDelta
  <1>4. CASE Abort(u) \/ Reject(u)
    BY <1>4, <1>1, <1>2 DEF Abort, Reject, RollBack
  <1>5. CASE Boot(u) \/ Dispatch(u) \/ Shutdown(u) \/ Crash(u) \/ Locking(u)
             \/ ReadTail(u)
    BY <1>5 DEF Boot, Dispatch, Shutdown, Crash, Locking, Acquire, AcquireFails,
                DropHandle, ReadTail, durable
  <1>6. CASE BootStep(u)
    BY <1>6 DEF BootStep, BootTimeout, BootFails, BootHydrate, BootGenesis,
                BootRefresh, GenesisStore, durable
  <1>7. CASE DispatchTimeout(u) \/ Refresh(u) \/ RefreshFails(u) \/ Execute(u)
             \/ ExecuteRejects(u) \/ CheckTail(u) \/ StoreAppend(u)
             \/ Derive(u) \/ Raise(u)
    BY <1>7 DEF DispatchTimeout, Refresh, RefreshFails, Execute,
                ExecuteRejects, CheckTail, StoreAppend, Derive, Raise, durable
  <1>8. CASE RaiseWritten(u)
    BY <1>8, <1>1, <1>2 DEF RaiseWritten
  <1>9. CASE TxCommit(u) \/ MarkerRaises(u)
    BY <1>9 DEF TxCommit, MarkerRaises
  <1> QED
    BY <1>3, <1>4, <1>5, <1>6, <1>7, <1>8, <1>9 DEF Step, Progress, DispatchStep, CommitAppend

-----------------------------------------------------------------------------
(* The chains.                                                             *)

\* What the files say, apart from what the workers know of them.
FilesInv == HashChain /\ CommitChain /\ CommitsIncrease /\ SomeTail

(* A step that adds no commit marker and takes nothing from the store      *)
(* keeps every commit marker, the last one, and what they say.             *)
LEMMA PlainKeepsCommits ==
    ASSUME TypeOK, PlainAppend \/ UNCHANGED journal
    PROVE  /\ CommitPositions(journal)' = CommitPositions(journal)
           /\ \A i \in CommitPositions(journal) :
                 journal'[i] = journal[i] /\ i \in DOMAIN journal'
           /\ \A i : IsLatestCommit(journal, i)' = IsLatestCommit(journal, i)
  <1>1. CASE UNCHANGED journal
    BY <1>1 DEF CommitPositions, IsLatestCommit
  <1>2. CASE PlainAppend
    <2>1. PICK e \in Entry : e.type \notin CommitTypes /\ journal' = Append(journal, e)
      BY <1>2 DEF PlainAppend
    <2>2. journal \in Seq(Entry)
      BY DEF TypeOK
    <2>3. CommitPositions(journal)' = CommitPositions(journal)
      BY <2>1, <2>2, AppendPlain DEF CommitPositions
    <2>4. \A i \in CommitPositions(journal) :
              journal'[i] = journal[i] /\ i \in DOMAIN journal'
      BY <2>1, <2>2, AppendFacts DEF CommitPositions
    <2>5. \A i : IsLatestCommit(journal, i)' = IsLatestCommit(journal, i)
      BY <2>3 DEF IsLatestCommit
    <2> QED BY <2>3, <2>4, <2>5
  <1> QED BY <1>1, <1>2

(* The chains survive a step that adds no commit marker.                   *)
LEMMA PlainStep ==
    ASSUME TypeOK, FilesInv, PlainAppend \/ UNCHANGED journal,
           store \subseteq store'
    PROVE  FilesInv'
  <1>1. HashChain'
    <2>1. CASE UNCHANGED journal
      BY <2>1 DEF FilesInv, HashChain
    <2>2. CASE PlainAppend
      BY <2>2, AppendChained DEF FilesInv, HashChain, PlainAppend, TypeOK
    <2> QED BY <2>1, <2>2
  <1>2. CommitChain'
    BY PlainKeepsCommits DEF FilesInv, CommitChain, GenesisFirst, ExtendsPrevious
  <1>3. CommitsIncrease'
    BY PlainKeepsCommits DEF FilesInv, CommitsIncrease
  <1>4. SomeTail'
    BY PlainKeepsCommits DEF FilesInv, SomeTail, IsLatestCommit
  <1> QED BY <1>1, <1>2, <1>3, <1>4 DEF FilesInv

(* A commit marker appended to the journal: what it leaves, what it adds.  *)
LEMMA CommitAppended ==
    ASSUME TypeOK, HashChain, NEW e \in Entry, e.type \in CommitTypes,
           e.prev = Len(journal), journal' = Append(journal, e)
    PROVE  LET n == Len(journal) + 1
           IN  /\ n \in Nat
               /\ n \in DOMAIN journal'
               /\ journal'[n] = e
               /\ CommitPositions(journal)' = CommitPositions(journal) \cup {n}
               /\ \A i \in CommitPositions(journal) :
                     i \in Nat /\ i < n /\ journal'[i] = journal[i]
               /\ IsLatestCommit(journal', n)
               /\ HashChain'
  <1> DEFINE n == Len(journal) + 1
  <1>1. journal \in Seq(Entry)
    BY DEF TypeOK
  <1>2. /\ n \in Nat /\ n \in DOMAIN journal' /\ journal'[n] = e
        /\ \A i \in 1..Len(journal) : journal'[i] = journal[i]
        /\ Len(journal) \in Nat
    BY <1>1, AppendFacts
  <1>3. /\ CommitPositions(journal)' = CommitPositions(journal) \cup {n}
        /\ \A i \in CommitPositions(journal) : i \in 1..Len(journal)
    BY <1>1, AppendCommit DEF CommitPositions
  <1>4. IsLatestCommit(journal', n)
    BY <1>2, <1>3 DEF IsLatestCommit
  <1>5. HashChain'
    BY <1>1, AppendChained DEF HashChain
  <1> QED BY <1>2, <1>3, <1>4, <1>5

(* The genesis marker starts the chain.                                    *)
LEMMA GenesisStep ==
    ASSUME TypeOK, FilesInv, TailFresh, NEW u \in Workers,
           GenesisKnowledge(u), GenesisCommit(u)
    PROVE  FilesInv'
  <1>1. PICK s \in Sessions : current[u] = Genesis(s)
    BY DEF GenesisKnowledge, GenesisCommit
  <1>2. current[u] \in Capsule /\ current[u] \in store
    BY <1>1, CapsuleTypes DEF GenesisKnowledge, GenesisCommit
  <1>3. CommitPositions(journal) = {}
    BY DEF GenesisKnowledge, GenesisCommit
  <1>4. PICK e \in Entry : /\ e.type = "GENESIS_COMMIT" /\ e.capsule = current[u]
                          /\ e.prev = Len(journal)
                          /\ journal' = Append(journal, e)
    BY <1>2, AppendedEntry DEF GenesisCommit, EntryTypes, CommitTypes
  <1> DEFINE n == Len(journal) + 1
  <1>5. /\ CommitPositions(journal)' = {n}
        /\ n \in Nat /\ n \in DOMAIN journal' /\ journal'[n] = e
        /\ IsLatestCommit(journal', n)
        /\ HashChain'
    BY <1>3, <1>4, CommitAppended DEF FilesInv, CommitTypes
  <1>6. store' = store
    BY DEF GenesisCommit
  <1>7. current[u] = Genesis(current[u].session)
    BY <1>1 DEF Genesis
  <1>8. CommitChain'
    BY <1>2, <1>4, <1>5, <1>6, <1>7 DEF CommitChain, GenesisFirst, CommitPositions
  <1>9. CommitsIncrease'
    BY <1>5 DEF CommitsIncrease
  <1>10. SomeTail'
    BY <1>5 DEF SomeTail
  <1> QED BY <1>5, <1>8, <1>9, <1>10 DEF FilesInv

(* A TX_COMMIT whose parent is the last committed capsule extends the      *)
(* chain by one.                                                           *)
LEMMA CommitStep ==
    ASSUME TypeOK, FilesInv, TailFresh, NEW u \in Workers,
           TxKnowledge(u), WriteMarker(u)
    PROVE  FilesInv'
  <1> DEFINE c == Candidate(u)
  <1>n. PICK n \in Nat : n = Len(journal) + 1
    BY AppendFacts DEF TypeOK
  <1>1. /\ before[u] \in Capsule /\ request[u].cmd \in Commands
        /\ IsTail(before[u]) /\ c \in store
    BY DEF TxKnowledge, WriteMarker, TxPcs, InsidePcs
  <1>2. c \in Capsule
    BY <1>1 DEF TypeOK
  <1>3. /\ c.parent = before[u].id /\ c.seq = before[u].seq + 1
        /\ c.session = before[u].session /\ before[u].seq \in Nat
    BY <1>1 DEF Candidate, NextCapsule, Capsule
  <1>4. PICK e \in Entry : /\ e.type = "TX_COMMIT" /\ e.capsule = c
                          /\ e.prev = Len(journal)
                          /\ journal' = Append(journal, e)
    BY <1>2, AppendedEntry DEF WriteMarker, EntryTypes, CommitTypes
  <1>5. /\ n \in Nat /\ n \in DOMAIN journal' /\ journal'[n] = e
        /\ CommitPositions(journal)' = CommitPositions(journal) \cup {n}
        /\ \A i \in CommitPositions(journal) :
              i \in Nat /\ i < n /\ journal'[i] = journal[i]
        /\ IsLatestCommit(journal', n)
        /\ HashChain'
    BY <1>n, <1>4, CommitAppended DEF FilesInv, CommitTypes
  <1>6. store' = store
    BY DEF WriteMarker
  <1>7. PICK k \in DOMAIN journal : /\ IsLatestCommit(journal, k)
                                   /\ journal[k].capsule = before[u]
    BY <1>1 DEF IsTail
  <1>8. /\ k \in CommitPositions(journal) /\ k \in Nat /\ k < n
        /\ \A m \in CommitPositions(journal) : m <= k
    BY <1>5, <1>7 DEF IsLatestCommit
  <1>9. ExtendsPrevious(n)'
    <2>1. /\ journal'[n].capsule.parent = journal'[k].capsule.id
          /\ journal'[n].capsule.seq = journal'[k].capsule.seq + 1
          /\ journal'[n].capsule.session = journal'[k].capsule.session
      BY <1>3, <1>4, <1>5, <1>7, <1>8
    <2>2. \A m \in CommitPositions(journal') : m < n => m <= k
      BY <1>5, <1>8 DEF CommitPositions
    <2>3. k \in CommitPositions(journal')
      BY <1>5, <1>8 DEF CommitPositions
    <2>4. \E j \in CommitPositions(journal') :
              /\ j < n
              /\ \A m \in CommitPositions(journal') : m < n => m <= j
              /\ journal'[n].capsule.parent = journal'[j].capsule.id
              /\ journal'[n].capsule.seq = journal'[j].capsule.seq + 1
              /\ journal'[n].capsule.session = journal'[j].capsule.session
      BY <1>8, <2>1, <2>2, <2>3
    <2> QED BY <2>4 DEF ExtendsPrevious
  <1>10. CommitChain'
    <2> SUFFICES ASSUME NEW i \in CommitPositions(journal')
                 PROVE  /\ journal'[i].capsule \in store'
                        /\ \/ /\ journal'[i].type = "GENESIS_COMMIT"
                              /\ GenesisFirst(i)'
                           \/ /\ journal'[i].type = "TX_COMMIT"
                              /\ ExtendsPrevious(i)'
      BY DEF CommitChain
    <2>1. CASE i = n
      BY <2>1, <1>1, <1>4, <1>5, <1>6, <1>9
    <2>2. CASE i \in CommitPositions(journal)
      <3>1. /\ journal[i].capsule \in store /\ i \in Nat /\ i < n
            /\ journal'[i] = journal[i]
        BY <2>2, <1>5 DEF FilesInv, CommitChain
      <3>2. CASE journal[i].type = "GENESIS_COMMIT" /\ GenesisFirst(i)
        BY <3>1, <3>2, <1>5, <1>6 DEF GenesisFirst
      <3>3. CASE journal[i].type = "TX_COMMIT" /\ ExtendsPrevious(i)
        BY <3>1, <3>3, <1>5, <1>6 DEF ExtendsPrevious
      <3> QED BY <2>2, <3>2, <3>3 DEF FilesInv, CommitChain
    <2> QED BY <2>1, <2>2, <1>5
  <1>11. CommitsIncrease'
    <2>1. \A i \in CommitPositions(journal) : journal[i].capsule.seq < c.seq
      <3> SUFFICES ASSUME NEW i \in CommitPositions(journal)
                   PROVE  journal[i].capsule.seq < c.seq
        OBVIOUS
      <3>1. i \in Nat /\ (i < k \/ i = k)
        BY <1>5, <1>8
      <3>2. journal[i].capsule \in Capsule
        BY DEF FilesInv, CommitChain, TypeOK
      <3>3. journal[i].capsule.seq \in Nat
        BY <3>2 DEF Capsule
      <3>4. CASE i = k
        BY <3>4, <1>3, <1>7
      <3>5. CASE i < k
        <4>1. journal[i].capsule.seq < journal[k].capsule.seq
          BY <3>5, <1>8 DEF FilesInv, CommitsIncrease
        <4> QED BY <4>1, <1>3, <1>7, <3>3
      <3> QED BY <3>1, <3>4, <3>5
    <2>2. SUFFICES ASSUME NEW i \in CommitPositions(journal'),
                          NEW j \in CommitPositions(journal'), i < j
                   PROVE  journal'[i].capsule.seq < journal'[j].capsule.seq
      BY DEF CommitsIncrease
    <2>3. i \in CommitPositions(journal)
      BY <1>5, <2>2
    <2>4. CASE j = n
      BY <2>1, <2>3, <2>4, <1>4, <1>5
    <2>5. CASE j \in CommitPositions(journal)
      BY <2>2, <2>3, <2>5, <1>5 DEF FilesInv, CommitsIncrease
    <2> QED BY <2>4, <2>5, <1>5
  <1>12. SomeTail'
    BY <1>5 DEF SomeTail
  <1> QED BY <1>5, <1>10, <1>11, <1>12 DEF FilesInv

(* Every step of every worker keeps the chains.                            *)
LEMMA FilesStep ==
    ASSUME IInv, NEW u \in Workers, Step(u)
    PROVE  FilesInv'
  <1>1. /\ TypeOK /\ FilesInv /\ TailFresh /\ LockHeld
        /\ TxKnowledge(u) /\ GenesisKnowledge(u)
    BY DEF IInv, FilesInv
  <1>2. store \subseteq store'
    BY <1>1, FilesChange
  <1>3. CASE UNCHANGED journal \/ PlainAppend
    BY <1>1, <1>2, <1>3, PlainStep
  <1>4. CASE GenesisCommit(u)
    BY <1>1, <1>4, GenesisStep
  <1>5. CASE WriteMarker(u)
    BY <1>1, <1>5, CommitStep
  <1> QED BY <1>1, <1>3, <1>4, <1>5, JournalChange

-----------------------------------------------------------------------------
(* The types.                                                              *)

(* A capsule that is refreshed from, or built, is a capsule.               *)
LEMMA RefreshTypes ==
    ASSUME IInv, NEW u \in Workers, Refreshable(u)
    PROVE  /\ Authority \in Capsule
           /\ Authority.temporal \in Seq(Commands)
           /\ IsTail(Authority)
  BY AuthorityIsTail DEF IInv, Refreshable, Capsule

(* The candidate of a transaction is a capsule.                            *)
LEMMA CandidateType ==
    ASSUME IInv, NEW u \in Workers, pc[u] \in InsidePcs
    PROVE  /\ Candidate(u) \in Capsule
           /\ request[u].cmd \in Commands
           /\ before[u] \in Capsule /\ before[u].temporal \in Seq(Commands)
           /\ Append(temporal[u], request[u].cmd) \in Seq(Commands)
  <1>1. request[u].cmd \in Commands /\ before[u] \in Capsule
    BY DEF IInv, TxKnowledge
  <1>2. temporal[u] \in Seq(Commands)
    BY DEF IInv, TypeOK
  <1>3. before[u].temporal \in Seq(Commands)
    BY <1>1 DEF Capsule
  <1>4. NextCapsule(before[u], request[u].cmd, temporal[u]) \in Capsule
    BY <1>1, <1>2, CapsuleTypes
  <1> QED BY <1>1, <1>2, <1>3, <1>4 DEF Candidate

(* The memory of the workers keeps its type.                               *)
LEMMA MemoryType ==
    ASSUME IInv, NEW u \in Workers, Step(u)
    PROVE  /\ pc' \in [Workers -> Pcs]
           /\ current' \in [Workers -> Capsule \cup {NoCapsule}]
           /\ before' \in [Workers -> Capsule \cup {NoCapsule}]
           /\ temporal' \in [Workers -> Seq(Commands)]
  <1>t. /\ pc \in [Workers -> Pcs]
        /\ current \in [Workers -> Capsule \cup {NoCapsule}]
        /\ before \in [Workers -> Capsule \cup {NoCapsule}]
        /\ temporal \in [Workers -> Seq(Commands)]
        /\ << >> \in Seq(Commands)
    BY DEF IInv, TypeOK
  <1>i. InsidePcs = {"start", "execute", "delta", "cas", "store", "commit",
                     "derive", "abort", "reject"}
    BY DEF InsidePcs, TxPcs
  <1> USE <1>t, Labels DEF Goto, kernel
  <1>0. CASE Boot(u) \/ Dispatch(u)
    BY <1>0 DEF Boot, Dispatch
  <1>1. CASE Shutdown(u) \/ Crash(u)
    <2>1. Forget(u)
      BY <1>1 DEF Shutdown, Crash
    <2>2. pc' \in [Workers -> Pcs]
      BY <2>1 DEF Forget
    <2> QED BY <2>1, <2>2 DEF Forget
  <1>2. CASE Locking(u) \/ ReadTail(u)
    <2>1. CASE Acquire(u) \/ ReadTail(u)
      BY <2>1, EnteredLocked DEF Acquire, ReadTail
    <2>2. CASE AcquireFails(u)
      BY <2>2 DEF AcquireFails
    <2>3. CASE DropHandle(u)
      BY <2>3 DEF DropHandle, Answer, Forget
    <2> QED BY <1>2, <2>1, <2>2, <2>3 DEF Locking
  <1>3. CASE BootStep(u)
    <2>1. CASE BootTimeout(u) \/ BootFails(u)
      BY <2>1 DEF BootTimeout, BootFails, Forget
    <2>2. CASE BootHydrate(u) \/ BootRefresh(u)
      BY <2>2, RefreshTypes DEF BootHydrate, BootRefresh
    <2>3. CASE BootGenesis(u)
      BY <2>3, CapsuleTypes DEF BootGenesis
    <2>4. CASE GenesisStore(u) \/ GenesisCommit(u)
      BY <2>4 DEF GenesisStore, GenesisCommit
    <2> QED BY <1>3, <2>1, <2>2, <2>3, <2>4 DEF BootStep
  <1>4. CASE DispatchTimeout(u) \/ RefreshFails(u) \/ TxStart(u)
             \/ ExecuteRejects(u) \/ TxDelta(u) \/ CheckTail(u)
             \/ StoreAppend(u) \/ Derive(u)
    BY <1>4 DEF DispatchTimeout, RefreshFails, TxStart, ExecuteRejects, TxDelta,
                CheckTail, StoreAppend, Derive, Answer
  <1>5. CASE Refresh(u)
    BY <1>5, RefreshTypes DEF Refresh
  <1>6. CASE Execute(u) \/ Raise(u) \/ RaiseWritten(u)
    <2>1. Append(temporal[u], request[u].cmd) \in Seq(Commands)
          \/ pc[u] # "execute"
      BY <1>i, CandidateType
    <2> QED BY <1>6, <2>1 DEF Execute, Raise, RaiseWritten
  <1>7. CASE TxCommit(u) \/ MarkerRaises(u)
    BY <1>7, <1>i, CandidateType DEF TxCommit, MarkerRaises, WriteMarker
  <1>8. CASE Abort(u) \/ Reject(u)
    BY <1>8, <1>i, CandidateType DEF Abort, Reject, RollBack, Answer
  <1> QED BY <1>0, <1>1, <1>2, <1>3, <1>4, <1>5, <1>6, <1>7, <1>8
          DEF Step, Progress, DispatchStep, CommitAppend

(* What the workers ask for and are told keeps its type.                   *)
LEMMA RequestType ==
    ASSUME IInv, NEW u \in Workers, Step(u)
    PROVE  /\ request' \in [Workers -> Requests]
           /\ tail' \in [Workers -> Nat \cup {NoTail}]
           /\ outcome' \in [Commands -> Outcomes]
           /\ lock' \in Workers \cup {NoWorker}
           /\ torn' \in BOOLEAN
  <1>t. /\ request \in [Workers -> Requests]
        /\ tail \in [Workers -> Nat \cup {NoTail}]
        /\ outcome \in [Commands -> Outcomes]
        /\ lock \in Workers \cup {NoWorker}
        /\ torn \in BOOLEAN
        /\ Len(journal) \in Nat
    BY DEF IInv, TypeOK
  <1>r. /\ NoRequest \in Requests
        /\ \A c \in Commands, s \in Sessions :
              [cmd |-> c, session |-> s] \in Requests
        /\ \A r \in Requests, s \in Sessions \cup {NoSession} :
              [r EXCEPT !.session = s] \in Requests
    BY DEF NoRequest, Requests
  <1>o. {"none", "success", "blocked", "failed"} = Outcomes
    BY DEF Outcomes
  <1> USE <1>t, <1>r, <1>o DEF durable
  <1>1. CASE Boot(u)
    <2>1. PICK s \in Sessions \cup {NoSession} :
              request' = [request EXCEPT ![u].session = s]
      BY <1>1 DEF Boot
    <2>2. request' = [request EXCEPT ![u] = [request[u] EXCEPT !.session = s]]
      BY <2>1
    <2>3. [request[u] EXCEPT !.session = s] \in Requests
      BY DEF Requests
    <2>4. request' \in [Workers -> Requests]
      BY <2>2, <2>3
    <2> QED BY <1>1, <2>4 DEF Boot
  <1>2. CASE Dispatch(u)
    BY <1>2 DEF Dispatch
  <1>3. CASE Shutdown(u) \/ Crash(u)
    BY <1>3 DEF Shutdown, Crash, Forget
  <1>4. CASE Locking(u) \/ ReadTail(u)
    <2>1. CASE Acquire(u) \/ AcquireFails(u) \/ ReadTail(u)
      BY <2>1 DEF Acquire, AcquireFails, ReadTail
    <2>2. CASE DropHandle(u)
      BY <2>2 DEF DropHandle, Answer, Forget
    <2> QED BY <1>4, <2>1, <2>2 DEF Locking
  <1>5. CASE BootStep(u)
    BY <1>5 DEF BootStep, BootTimeout, BootFails, Forget, BootHydrate,
                BootRefresh, BootGenesis, GenesisStore, GenesisCommit, AppendEntry
  <1>6. CASE DispatchTimeout(u) \/ RefreshFails(u) \/ Refresh(u) \/ TxStart(u)
             \/ Execute(u) \/ ExecuteRejects(u) \/ TxDelta(u)
    BY <1>6 DEF DispatchTimeout, RefreshFails, Refresh, TxStart, Execute,
                ExecuteRejects, TxDelta, Answer, AppendEntry
  <1>7. CASE CheckTail(u) \/ StoreAppend(u) \/ TxCommit(u) \/ Derive(u)
             \/ MarkerRaises(u) \/ Raise(u) \/ RaiseWritten(u) \/ Abort(u) \/ Reject(u)
    BY <1>7 DEF CheckTail, StoreAppend, TxCommit, MarkerRaises, WriteMarker, Derive,
                Raise, RaiseWritten, Abort,
                Reject, RollBack, Answer, AppendEntry
  <1> QED BY <1>1, <1>2, <1>3, <1>4, <1>5, <1>6, <1>7
          DEF Step, Progress, DispatchStep, CommitAppend

(* The files keep their types.                                             *)
LEMMA FilesType ==
    ASSUME IInv, NEW u \in Workers, Step(u)
    PROVE  store' \in SUBSET Capsule /\ journal' \in Seq(Entry)
  <1>1. journal' \in Seq(Entry)
    <2>1. TypeOK /\ TailFresh /\ journal \in Seq(Entry)
      BY DEF IInv, TypeOK
    <2>2. CASE UNCHANGED journal
      BY <2>1, <2>2
    <2>3. CASE PlainAppend
      BY <2>1, <2>3, AppendFacts DEF PlainAppend
    <2>4. CASE GenesisCommit(u)
      <3>1. current[u] \in Capsule
        BY <2>4, CapsuleTypes DEF IInv, GenesisKnowledge, GenesisCommit
      <3> QED BY <2>1, <2>4, <3>1, AppendedEntry, AppendFacts
              DEF GenesisCommit, EntryTypes, CommitTypes
    <2>5. CASE WriteMarker(u)
      <3>1. Candidate(u) \in Capsule
        BY <2>5, CandidateType DEF WriteMarker, InsidePcs, TxPcs
      <3> QED BY <2>1, <2>5, <3>1, AppendedEntry, AppendFacts
              DEF WriteMarker, EntryTypes, CommitTypes
    <2> QED BY <2>1, <2>2, <2>3, <2>4, <2>5, JournalChange
  <1>2. store' \in SUBSET Capsule
    <2>1. store \in SUBSET Capsule
      BY DEF IInv, TypeOK
    <2>2. CASE GenesisStore(u)
      BY <2>1, <2>2, CapsuleTypes DEF IInv, GenesisKnowledge, GenesisStore
    <2>3. CASE StoreAppend(u)
      BY <2>1, <2>3, CandidateType DEF StoreAppend, InsidePcs, TxPcs
    <2>5. CASE RaiseWritten(u)
      BY <2>1, <2>5, CandidateType DEF RaiseWritten, InsidePcs, TxPcs
    <2>4. CASE ~GenesisStore(u) /\ ~StoreAppend(u) /\ ~RaiseWritten(u)
      <3>1. UNCHANGED store
        <4>1. CASE Boot(u) \/ Dispatch(u) \/ Shutdown(u) \/ Crash(u)
                   \/ Locking(u) \/ ReadTail(u)
          BY <4>1 DEF Boot, Dispatch, Shutdown, Crash, Locking, Acquire,
                      AcquireFails, DropHandle, ReadTail, durable
        <4>2. CASE BootStep(u)
          BY <2>4, <4>2 DEF BootStep, BootTimeout, BootFails, BootHydrate,
                            BootGenesis, BootRefresh, GenesisCommit, durable
        <4>3. CASE DispatchStep(u)
          BY <2>4, <4>3 DEF DispatchStep, CommitAppend, DispatchTimeout, Refresh, RefreshFails,
                            TxStart, Execute, ExecuteRejects, TxDelta, CheckTail,
                            TxCommit, MarkerRaises, WriteMarker, Derive, Raise,
                            Abort, Reject, RollBack, durable
        <4> QED BY <4>1, <4>2, <4>3 DEF Step, Progress
      <3> QED BY <2>1, <3>1
    <2> QED BY <2>2, <2>3, <2>4, <2>5
  <1> QED BY <1>1, <1>2

(* Every step keeps every type.                                            *)
LEMMA TypeStep ==
    ASSUME IInv, NEW u \in Workers, Step(u)
    PROVE  TypeOK'
  BY MemoryType, RequestType, FilesType DEF TypeOK

-----------------------------------------------------------------------------
(* What the workers know of the files.                                     *)

(* The parent of a transaction stays the last committed capsule while no   *)
(* commit marker is added.                                                 *)
LEMMA TailStays ==
    ASSUME TypeOK, PlainAppend \/ UNCHANGED journal, NEW c, IsTail(c)
    PROVE  /\ \E i \in DOMAIN journal' :
                 IsLatestCommit(journal', i) /\ journal'[i].capsule = c
  <1>1. PICK i \in DOMAIN journal :
            IsLatestCommit(journal, i) /\ journal[i].capsule = c
    BY DEF IsTail
  <1>2. i \in CommitPositions(journal)
    BY <1>1 DEF IsLatestCommit
  <1>3. i \in DOMAIN journal' /\ journal'[i] = journal[i]
    BY <1>2, PlainKeepsCommits
  <1>4. IsLatestCommit(journal', i)
    BY <1>1, PlainKeepsCommits DEF IsLatestCommit
  <1> QED BY <1>1, <1>3, <1>4

(* A step of another worker takes no knowledge away.                       *)
LEMMA OthersKnow ==
    ASSUME IInv, NEW u \in Workers, Step(u), NEW w \in Workers, w # u
    PROVE  TxKnowledge(w)' /\ GenesisKnowledge(w)'
  <1>1. /\ TypeOK /\ LockHeld /\ TxKnowledge(w) /\ GenesisKnowledge(w)
    BY DEF IInv
  <1>2. /\ pc'[w] = pc[w] /\ request'[w] = request[w] /\ before'[w] = before[w]
        /\ current'[w] = current[w] /\ temporal'[w] = temporal[w]
    BY <1>1, OthersUntouched
  <1>3. CASE pc[w] \in LockedPcs
    <2>1. UNCHANGED <<store, journal>>
      BY <1>1, <1>3, FilesChange DEF LockHeld
    <2>2. TxKnowledge(w)'
      BY <1>1, <1>2, <2>1 DEF TxKnowledge, IsTail, Candidate
    <2>3. GenesisKnowledge(w)'
      BY <1>1, <1>2, <2>1 DEF GenesisKnowledge
    <2> QED BY <2>2, <2>3
  <1>4. CASE pc[w] \notin LockedPcs
    BY <1>1, <1>2, <1>4, Labels
    DEF TxKnowledge, GenesisKnowledge, TxPcs, InsidePcs
  <1> QED BY <1>3, <1>4

(* What a worker knows after a step of its own.                            *)
LEMMA OwnTxKnowledge ==
    ASSUME IInv, NEW u \in Workers, Step(u)
    PROVE  TxKnowledge(u)'
  <1>t. /\ DOMAIN pc = Workers /\ DOMAIN request = Workers
        /\ DOMAIN before = Workers /\ DOMAIN temporal = Workers
        /\ DOMAIN current = Workers
        /\ TypeOK /\ TailFresh /\ TxKnowledge(u)
    BY DEF IInv, TypeOK
  <1>p. /\ TxPcs = {"start", "execute", "delta", "cas", "store", "commit"}
        /\ InsidePcs = {"start", "execute", "delta", "cas", "store", "commit",
                        "derive", "abort", "reject"}
    BY DEF InsidePcs, TxPcs
  <1> USE <1>t, <1>p DEF Goto, kernel, durable
  \* Steps that leave the worker outside a dispatch.
  <1>1. ASSUME pc'[u] \notin InsidePcs \cup {"wait", "leak", "refresh"}
        PROVE  TxKnowledge(u)'
    BY <1>1 DEF TxKnowledge
  <1>2. CASE Boot(u)
    BY <1>1, <1>2 DEF Boot
  <1>3. CASE Shutdown(u) \/ Crash(u)
    BY <1>1, <1>3 DEF Shutdown, Crash, Forget
  <1>4. CASE BootStep(u)
    <2>1. CASE BootTimeout(u) \/ BootFails(u)
      BY <1>1, <2>1 DEF BootTimeout, BootFails, Forget
    <2>2. CASE BootHydrate(u) \/ BootGenesis(u) \/ BootRefresh(u)
      BY <1>1, <2>2 DEF BootHydrate, BootGenesis, BootRefresh
    <2>3. CASE GenesisStore(u) \/ GenesisCommit(u)
      BY <1>1, <2>3 DEF GenesisStore, GenesisCommit
    <2> QED BY <1>4, <2>1, <2>2, <2>3 DEF BootStep
  <1>5. CASE DispatchTimeout(u) \/ RefreshFails(u) \/ Derive(u)
    BY <1>1, <1>5 DEF DispatchTimeout, RefreshFails, Derive, Answer
  <1>6. CASE Abort(u) \/ Reject(u)
    BY <1>1, <1>6 DEF Abort, Reject, RollBack, Answer
  \* Steps towards the transaction.
  <1>7. CASE Dispatch(u)
    BY <1>7 DEF Dispatch, TxKnowledge
  <1>8. CASE Acquire(u)
    <2>1. pc'[u] = Entered[pc[u]] /\ request'[u] = request[u]
      BY <1>8 DEF Acquire
    <2>2. pc[u] = "wait" \/ pc'[u] \in {"boot_read", "boot_refresh"}
      BY <1>8, <2>1, EnteredLocked DEF Acquire, WaitPcs
    <2>3. pc'[u] \in {"boot_read", "boot_refresh", "refresh"}
      BY <1>8, <2>1, EnteredLocked DEF Acquire, WaitPcs
    <2> QED BY <2>1, <2>2, <2>3 DEF TxKnowledge
  <1>9. CASE Refresh(u)
    <2>1. Authority \in Capsule /\ IsTail(Authority)
      BY <1>9, RefreshTypes DEF Refresh
    <2>2. before'[u] = Authority /\ request'[u] = request[u] /\ pc'[u] = "start"
      BY <1>9 DEF Refresh
    <2>3. journal' = journal
      BY <1>9 DEF Refresh
    <2>4. IsTail(before[u])'
      BY <2>1, <2>2, <2>3 DEF IsTail
    <2>5. request[u].cmd \in Commands
      BY <1>9 DEF Refresh, TxKnowledge
    <2> QED BY <2>1, <2>2, <2>4, <2>5 DEF TxKnowledge
  \* Steps inside the transaction that add no commit marker.
  <1>10. ASSUME pc[u] \in TxPcs, PlainAppend \/ UNCHANGED journal,
                before'[u] = before[u], request'[u] = request[u],
                pc'[u] = "commit" => Candidate(u)' \in store',
                pc'[u] \in InsidePcs
         PROVE  TxKnowledge(u)'
    <2>1. IsTail(before[u])'
      BY <1>10, TailStays DEF IsTail, TxKnowledge
    <2> QED BY <1>10, <2>1 DEF TxKnowledge
  <1>11. \A type \in {"TX_START", "STATE_DELTA"} :
             AppendEntry(u, type, NoCapsule) => PlainAppend
    BY AppendedEntry DEF PlainAppend, EntryTypes, CommitTypes
  <1>12. CASE TxStart(u) \/ TxDelta(u)
    BY <1>10, <1>11, <1>12 DEF TxStart, TxDelta
  <1>13. CASE Execute(u) \/ ExecuteRejects(u) \/ CheckTail(u)
    BY <1>10, <1>13 DEF Execute, ExecuteRejects, CheckTail
  <1>14. CASE ReadTail(u)
    <2>1. UNCHANGED <<pc, request, before, temporal, store, journal>>
      BY <1>14 DEF ReadTail
    <2> QED BY <2>1 DEF TxKnowledge, IsTail, Candidate
  <1>15. CASE StoreAppend(u)
    <2>1. Candidate(u)' \in store'
      BY <1>15 DEF StoreAppend, Candidate
    <2> QED BY <1>10, <1>15, <2>1 DEF StoreAppend
  \* Steps that leave the transaction for its end.
  <1>16. CASE TxCommit(u) \/ MarkerRaises(u)
    BY <1>16 DEF TxCommit, MarkerRaises, WriteMarker, TxKnowledge
  <1>17. CASE Raise(u)
    <2>1. pc[u] \in Pcs /\ "lock" \notin Pcs /\ "marker" \notin Pcs
      BY Labels DEF TypeOK
    <2>2. pc[u] \in {"execute", "reject", "delta", "store", "commit", "derive"}
      BY <1>17, <2>1, KernelAssumption DEF Raise
    <2> QED BY <1>17, <2>2 DEF Raise, TxKnowledge
  <1>20. CASE RaiseWritten(u)
    BY <1>20 DEF RaiseWritten, TxKnowledge
  \* acquire() raises.
  <1>18. CASE AcquireFails(u)
    <2>1. CASE pc[u] = "wait"
      BY <1>18, <2>1 DEF AcquireFails, TxKnowledge
    <2>2. CASE pc[u] # "wait"
      BY <1>1, <1>18, <2>2 DEF AcquireFails
    <2> QED BY <2>1, <2>2
  <1>19. CASE DropHandle(u)
    BY <1>1, <1>19 DEF DropHandle, Answer, Forget
  <1> QED
    BY <1>2, <1>3, <1>4, <1>5, <1>6, <1>7, <1>8, <1>9, <1>12, <1>13, <1>14,
       <1>15, <1>16, <1>17, <1>18, <1>19, <1>20
    DEF Step, Progress, Locking, DispatchStep, CommitAppend

(* The same for the writer of the genesis.                                 *)
LEMMA OwnGenesisKnowledge ==
    ASSUME IInv, NEW u \in Workers, Step(u)
    PROVE  GenesisKnowledge(u)'
  <1>t. /\ DOMAIN pc = Workers /\ DOMAIN current = Workers
        /\ TypeOK /\ GenesisKnowledge(u)
    BY DEF IInv, TypeOK
  <1> USE <1>t DEF Goto, kernel, durable
  <1>1. ASSUME pc'[u] \notin {"genesis_store", "genesis_commit"}
        PROVE  GenesisKnowledge(u)'
    BY <1>1 DEF GenesisKnowledge
  <1>2. CASE Boot(u) \/ Dispatch(u)
    BY <1>1, <1>2 DEF Boot, Dispatch
  <1>3. CASE Shutdown(u) \/ Crash(u)
    BY <1>1, <1>3 DEF Shutdown, Crash, Forget
  <1>4. CASE Acquire(u)
    BY <1>1, <1>4, EnteredLocked DEF Acquire
  <1>12. CASE AcquireFails(u) \/ DropHandle(u)
    BY <1>1, <1>12 DEF AcquireFails, DropHandle, Answer, Forget
  <1>5. CASE BootTimeout(u) \/ BootFails(u)
    BY <1>1, <1>5 DEF BootTimeout, BootFails, Forget
  <1>6. CASE BootHydrate(u) \/ BootRefresh(u) \/ GenesisCommit(u)
    BY <1>1, <1>6 DEF BootHydrate, BootRefresh, GenesisCommit
  <1>7. CASE BootGenesis(u)
    <2>1. CommitPositions(journal) = {}
      BY <1>7, NoAuthority DEF IInv, BootGenesis
    <2>2. journal' = journal
      BY <1>7 DEF BootGenesis
    <2> QED BY <1>7, <2>1, <2>2 DEF BootGenesis, GenesisKnowledge
  <1>8. CASE GenesisStore(u)
    BY <1>8 DEF GenesisStore, GenesisKnowledge
  <1>9. CASE ReadTail(u)
    BY <1>9 DEF ReadTail, GenesisKnowledge
  <1>10. CASE DispatchTimeout(u) \/ RefreshFails(u) \/ Refresh(u) \/ TxStart(u)
              \/ Execute(u) \/ ExecuteRejects(u) \/ TxDelta(u)
    BY <1>1, <1>10 DEF DispatchTimeout, RefreshFails, Refresh, TxStart, Execute,
                       ExecuteRejects, TxDelta, Answer
  <1>11. CASE CheckTail(u) \/ StoreAppend(u) \/ TxCommit(u) \/ Derive(u)
              \/ MarkerRaises(u) \/ Raise(u) \/ RaiseWritten(u) \/ Abort(u) \/ Reject(u)
    BY <1>1, <1>11 DEF CheckTail, StoreAppend, TxCommit, MarkerRaises, WriteMarker, Derive,
                Raise, RaiseWritten, Abort,
                       Reject, RollBack, Answer
  <1> QED
    BY <1>2, <1>3, <1>4, <1>5, <1>6, <1>7, <1>8, <1>9, <1>10, <1>11,
       <1>12
    DEF Step, Progress, Locking, BootStep, DispatchStep, CommitAppend

-----------------------------------------------------------------------------
(* The theorems.                                                           *)

(* The invariant holds at the start: no file, no process.                  *)
LEMMA InitIInv == Init => IInv
  <1> SUFFICES ASSUME Init PROVE IInv
    OBVIOUS
  <1>1. /\ << >> \in Seq(Entry) /\ << >> \in Seq(Commands)
        /\ NoRequest \in Requests /\ "none" \in Outcomes /\ "down" \in Pcs
    BY DEF NoRequest, Requests, Outcomes, Pcs
  <1>2. TypeOK
    BY <1>1 DEF Init, TypeOK
  <1>3. DOMAIN journal = {} /\ CommitPositions(journal) = {}
    BY DEF Init, CommitPositions
  <1>4. LockHeld /\ TailFresh
    BY KernelAssumption, Labels DEF Init, LockHeld, TailFresh
  <1>5. HashChain /\ CommitChain /\ CommitsIncrease /\ SomeTail
    BY <1>3 DEF HashChain, ChainIntact, CommitChain, CommitsIncrease, SomeTail
  <1>6. \A w \in Workers : TxKnowledge(w) /\ GenesisKnowledge(w)
    BY DEF Init, TxKnowledge, GenesisKnowledge, InsidePcs, TxPcs
  <1> QED BY <1>2, <1>4, <1>5, <1>6 DEF IInv

(* Every step keeps it.                                                    *)
LEMMA NextIInv == IInv /\ [Next]_vars => IInv'
  <1> SUFFICES ASSUME IInv, [Next]_vars PROVE IInv'
    OBVIOUS
  <1>1. CASE UNCHANGED vars
    BY <1>1 DEF vars, IInv, TypeOK, LockHeld, TailFresh, HashChain, CommitChain,
                CommitsIncrease, SomeTail, TxKnowledge, GenesisKnowledge, IsTail,
                Candidate, GenesisFirst, ExtendsPrevious
  <1>2. CASE Next
    <2> PICK u \in Workers : Step(u)
      BY <1>2 DEF Next
    <2>1. TypeOK'
      BY TypeStep
    <2>2. LockHeld' /\ TailFresh'
      BY LockStep, TailStep DEF IInv
    <2>3. HashChain' /\ CommitChain' /\ CommitsIncrease' /\ SomeTail'
      BY FilesStep DEF FilesInv
    <2>4. \A w \in Workers : TxKnowledge(w)' /\ GenesisKnowledge(w)'
      BY OthersKnow, OwnTxKnowledge, OwnGenesisKnowledge
    <2> QED BY <2>1, <2>2, <2>3, <2>4 DEF IInv
  <1> QED BY <1>1, <1>2

(* The inductive invariant holds in every reachable state of the runtime.  *)
THEOREM InductiveInvariant == Spec => []IInv
  BY InitIInv, NextIInv, PTL DEF Spec

(* Every variable keeps its type.                                          *)
THEOREM TypeCorrect == Spec => []TypeOK
  <1>1. IInv => TypeOK
    BY DEF IInv
  <1> QED BY <1>1, InductiveInvariant, PTL

(* The journal can always be read back: its hash chain is never broken.    *)
THEOREM HashChainHolds == Spec => []HashChain
  <1>1. IInv => HashChain
    BY DEF IInv
  <1> QED BY <1>1, InductiveInvariant, PTL

(* The commit markers are one unbroken chain of stored capsules.           *)
THEOREM CommitChainHolds == Spec => []CommitChain
  <1>1. IInv => CommitChain
    BY DEF IInv
  <1> QED BY <1>1, InductiveInvariant, PTL

(* The last commit marker and the highest committed sequence always name   *)
(* the same capsule.                                                       *)
THEOREM AuthoritiesAlwaysAgree == Spec => []AuthoritiesAgree
  <1>1. IInv => AuthoritiesAgree
    BY TailIsAuthority DEF IInv, AuthoritiesAgree
  <1> QED BY <1>1, InductiveInvariant, PTL

(* The CAS guard never refuses: a transaction that reaches it still        *)
(* extends the authoritative tail.                                         *)
THEOREM CasHolds == Spec => []CasNeverRefuses
  <1>1. IInv => CasNeverRefuses
    <2> SUFFICES ASSUME IInv, NEW w \in Workers, pc[w] = "cas"
                 PROVE  TailIs(before[w])
      BY DEF CasNeverRefuses
    <2>1. IsTail(before[w])
      BY DEF IInv, TxKnowledge, TxPcs
    <2>2. PICK i \in DOMAIN journal :
              IsLatestCommit(journal, i) /\ journal[i].capsule = before[w]
      BY <2>1 DEF IsTail
    <2>3. HasAuthority /\ Authority = before[w]
      BY <2>2, TailIsAuthority DEF IInv
    <2> QED BY <2>2, <2>3 DEF TailIs
  <1> QED BY <1>1, InductiveInvariant, PTL

\* The last commit marker names the authority.
TailNamed ==
    \A i \in DOMAIN journal :
        IsLatestCommit(journal, i) => HasAuthority /\ Authority = journal[i].capsule

(* With every fault, the capsule that latest_committed() finds stays what   *)
(* it is or gives way to a child of it.                                     *)
THEOREM AuthorityOnlyAdvances == Spec => AuthorityAdvances
  <1> DEFINE Advances == HasAuthority => /\ HasAuthority'
                                         /\ \/ Authority' = Authority
                                            \/ Authority'.parent = Authority.id
  <1>1. IInv => TailNamed
    BY TailIsAuthority DEF IInv, TailNamed
  <1>2. IInv /\ TailNamed /\ TailNamed' /\ [Next]_vars => [Advances]_vars
    <2> SUFFICES ASSUME IInv, TailNamed, TailNamed', Next, HasAuthority
                 PROVE  /\ HasAuthority'
                        /\ \/ Authority' = Authority
                           \/ Authority'.parent = Authority.id
      OBVIOUS
    <2> PICK u \in Workers : Step(u)
      BY DEF Next
    <2>t. TypeOK /\ TailFresh /\ HashChain /\ CommitChain
      BY DEF IInv
    <2>a. PICK A \in Capsule : A = Authority
      BY AuthorityIsTail DEF IInv
    <2>1. PICK i \in DOMAIN journal :
              IsLatestCommit(journal, i) /\ journal[i].capsule = A
      BY <2>a, AuthorityIsTail DEF IInv, IsTail
    <2>2. i \in CommitPositions(journal)
      BY <2>1 DEF IsLatestCommit
    <2>3. CASE PlainAppend \/ UNCHANGED journal
      <3>1. i \in DOMAIN journal' /\ journal'[i] = journal[i] /\ IsLatestCommit(journal', i)
        BY <2>1, <2>2, <2>3, <2>t, PlainKeepsCommits DEF IsLatestCommit
      <3> QED BY <2>a, <2>1, <3>1 DEF TailNamed
    <2>4. CASE GenesisCommit(u)
      BY <2>2, <2>4 DEF IInv, GenesisKnowledge, GenesisCommit
    <2>5. CASE WriteMarker(u)
      <3>1. PICK k \in DOMAIN journal :
                IsLatestCommit(journal, k) /\ journal[k].capsule = before[u]
        BY <2>5 DEF IInv, TxKnowledge, TxPcs, WriteMarker, IsTail
      <3>2. before[u] = A
        BY <2>a, <3>1 DEF TailNamed
      <3>3. Candidate(u) \in Capsule
        BY <2>5, CandidateType DEF WriteMarker, InsidePcs, TxPcs
      <3>4. PICK e \in Entry : /\ e.type = "TX_COMMIT" /\ e.capsule = Candidate(u)
                               /\ e.prev = Len(journal)
                               /\ journal' = Append(journal, e)
        BY <2>5, <2>t, <3>3, AppendedEntry DEF WriteMarker, EntryTypes, CommitTypes
      <3>5. PICK n \in Nat : /\ n \in DOMAIN journal' /\ journal'[n] = e
                             /\ IsLatestCommit(journal', n)
        BY <2>t, <3>4, CommitAppended DEF CommitTypes
      <3>6. e.capsule.parent = before[u].id
        BY <3>4 DEF Candidate, NextCapsule
      <3> QED BY <2>a, <3>2, <3>5, <3>6 DEF TailNamed
    <2> QED BY <2>t, <2>3, <2>4, <2>5, JournalChange
  <1> QED BY <1>1, <1>2, InductiveInvariant, PTL DEF Spec, AuthorityAdvances

-----------------------------------------------------------------------------
(* The accounts of the commands.                                           *)

\* No exception comes behind a commit marker.  It is a real condition: where
\* the append that writes the marker may raise, or the derivation after it,
\* the properties below do not hold, as the run kernel_lost_turn shows for
\* TurnsFaithful.
NoLateFault == ~LateFault

(* Then neither of the two fault points is there.                          *)
LEMMA Punctual == NoLateFault <=> "marker" \notin FaultPoints /\ "derive" \notin FaultPoints
  BY DEF NoLateFault, LateFault

\* A dispatch that has not written its TX_START, and one that has and has
\* not closed its transaction.
UnknownPcs == {"wait", "leak", "refresh", "start"}
OpenPcs == {"execute", "delta", "cas", "store", "commit", "reject"}

Opened(i) == journal[i].type = "TX_START"

\* What the journal says of the command of a worker, by where the worker is.
Account(w) ==
    LET c == request[w].cmd
    IN  /\ c \in Commands => outcome[c] = "none"
        /\ pc[w] \in UnknownPcs =>
              \A i \in DOMAIN journal : Opened(i) \/ Closed(i) => journal[i].cmd # c
        /\ pc[w] \in OpenPcs =>
              \A i \in DOMAIN journal : Closed(i) => journal[i].cmd # c
        /\ pc[w] = "abort" => ~IsCommitted(c)
        /\ pc[w] = "derive" => IsCommitted(c)

OneRequest ==
    \A v, w \in Workers :
        request[v].cmd \in Commands /\ request[v].cmd = request[w].cmd => v = w

OpenedBeforeClosed ==
    \A i, k \in DOMAIN journal :
        Opened(i) /\ Closed(k) /\ journal[i].cmd = journal[k].cmd => i < k

AnsweredClosed ==
    \A i \in DOMAIN journal :
        /\ Opened(i) /\ journal[i].cmd \in Commands
        /\ outcome[journal[i].cmd] # "none"
        => \E k \in DOMAIN journal : Closed(k) /\ journal[k].cmd = journal[i].cmd

(* Behind the properties of answers.                                       *)
Accounts ==
    /\ \A w \in Workers : Account(w)
    /\ OneRequest /\ OpenedBeforeClosed /\ CommitClosesAlone
    /\ AnsweredTruthfully /\ AnsweredClosed

\* What the live TemporalSphere of a worker holds, by where the worker is.
Memory(w) ==
    /\ pc[w] \in {"down", "boot_wait", "boot_read"} => temporal[w] = << >>
    /\ pc[w] \in {"genesis_store", "genesis_commit", "boot_rewait", "boot_refresh",
                  "ready", "wait", "leak", "refresh", "derive"} =>
          temporal[w] = current[w].temporal
    /\ pc[w] \in {"start", "execute", "reject"} => temporal[w] = before[w].temporal
    /\ pc[w] \in {"delta", "cas", "store", "commit"} =>
          temporal[w] = Append(before[w].temporal, request[w].cmd)
    /\ pc[w] \in {"start", "execute", "reject", "delta", "cas", "store", "commit", "abort"} =>
          current[w] = before[w]

Memories == \A w \in Workers : Memory(w)

\* A committed capsule is named by its session or by its command.
Named ==
    \A i \in CommitPositions(journal) :
        journal[i].type = "TX_COMMIT" =>
            /\ journal[i].capsule.id = journal[i].cmd
            /\ journal[i].cmd \in Commands
-----------------------------------------------------------------------------
(* The steps of a worker, by what they do to the account of its command.   *)

\* The step neither writes, nor answers, nor takes or drops a command.
Quiet(u) ==
    /\ UNCHANGED <<journal, outcome>>
    /\ request'[u].cmd = request[u].cmd
    /\ pc'[u] \in UnknownPcs => pc[u] \in UnknownPcs
    /\ pc'[u] \in OpenPcs => pc[u] \in OpenPcs
    /\ pc'[u] = "abort" => pc[u] \in OpenPcs \cup {"abort"}
    /\ pc'[u] = "derive" => pc[u] = "derive"

\* The process forgets what it was asked for.
Forgets(u) ==
    /\ UNCHANGED <<journal, outcome>>
    /\ request'[u] = NoRequest
    /\ pc'[u] \in {"down", "ready"}

\* Something is appended to the journal under the command of the worker.
Writes(u, type) ==
    \E e \in Entry : /\ e.type = type /\ e.cmd = request[u].cmd
                     /\ journal' = Append(journal, e)

\* The transaction goes on with an entry of this type.
WritesOn(u, type) ==
    /\ Writes(u, type)
    /\ UNCHANGED <<outcome, request>>

Answers(u, answer) ==
    /\ outcome' = [outcome EXCEPT ![request[u].cmd] = answer]
    /\ request'[u] = NoRequest
    /\ pc'[u] = "ready"

(* AppendEntry writes the command of its worker.                           *)
LEMMA AppendWrites ==
    ASSUME TypeOK, NEW u \in Workers, NEW type \in EntryTypes,
           NEW capsule \in Capsule \cup {NoCapsule}, AppendEntry(u, type, capsule)
    PROVE  Writes(u, type)
  <1> DEFINE e == MakeEntry(type, request[u].cmd, capsule, tail[u])
  <1>1. tail[u] \in Nat
    BY DEF TypeOK, AppendEntry
  <1>2. request[u].cmd \in Commands \cup {NoId}
    BY DEF TypeOK, Requests
  <1>3. e \in Entry /\ e.type = type /\ e.cmd = request[u].cmd
    BY <1>1, <1>2 DEF MakeEntry, Entry
  <1>4. journal' = Append(journal, e)
    BY DEF AppendEntry
  <1> QED BY <1>3, <1>4 DEF Writes

(* Every step is of one of these kinds.                                    *)
LEMMA Kinds ==
    ASSUME IInv, NoLateFault, NEW u \in Workers, Step(u)
    PROVE  \/ Quiet(u)
           \/ Forgets(u)
           \/ Dispatch(u)
           \/ pc[u] = "start" /\ pc'[u] = "execute" /\ WritesOn(u, "TX_START")
           \/ pc[u] = "delta" /\ pc'[u] = "cas" /\ WritesOn(u, "STATE_DELTA")
           \/ pc[u] = "commit" /\ pc'[u] = "derive" /\ WritesOn(u, "TX_COMMIT")
           \/ pc[u] = "delta" /\ pc'[u] = "abort" /\ WritesOn(u, "STATE_DELTA")
           \/ pc[u] = "reject" /\ pc'[u] = "abort" /\ WritesOn(u, "TX_ABORT")
           \/ pc'[u] = "boot_rewait" /\ WritesOn(u, "GENESIS_COMMIT")
           \/ /\ pc[u] \in {"wait", "leak", "refresh"}
              /\ Answers(u, "failed") /\ UNCHANGED journal
           \/ pc[u] = "derive" /\ Answers(u, "success") /\ UNCHANGED journal
           \/ /\ pc[u] \in {"abort", "reject"} /\ Writes(u, "TX_ABORT")
              /\ Answers(u, "failed") \/ Answers(u, "blocked")
  <1>t. /\ DOMAIN pc = Workers /\ DOMAIN request = Workers /\ TypeOK
        /\ request[u] \in Requests
    BY DEF IInv, TypeOK
  <1>e. {"TX_START", "STATE_DELTA", "TX_COMMIT", "GENESIS_COMMIT", "TX_ABORT"}
            \subseteq EntryTypes
    BY DEF EntryTypes, CommitTypes
  <1>n. NoCapsule \in Capsule \cup {NoCapsule}
    OBVIOUS
  <1> USE <1>t DEF Goto, durable, UnknownPcs, OpenPcs
  <1>1. CASE Boot(u)
    BY <1>1 DEF Boot, Quiet, Requests
  <1>2. CASE Shutdown(u) \/ Crash(u) \/ BootTimeout(u) \/ BootFails(u) \/ BootRefresh(u)
    BY <1>2 DEF Shutdown, Crash, BootTimeout, BootFails, BootRefresh, Forget, Forgets
  <1>3. CASE Acquire(u)
    BY <1>3, EnteredLocked DEF Acquire, WaitPcs, Quiet
  <1>4. CASE AcquireFails(u)
    BY <1>4 DEF AcquireFails, Quiet
  <1>5. CASE DropHandle(u)
    BY <1>5 DEF DropHandle, Answer, Forget, Forgets, Answers
  <1>6. CASE ReadTail(u) \/ BootHydrate(u) \/ BootGenesis(u) \/ GenesisStore(u)
    BY <1>6 DEF ReadTail, BootHydrate, BootGenesis, GenesisStore, Quiet
  <1>7. CASE GenesisCommit(u)
    <2>1. current[u] \in Capsule
      BY <1>7, CapsuleTypes DEF IInv, GenesisKnowledge, GenesisCommit
    <2> QED BY <1>7, <2>1, <1>e, AppendWrites DEF GenesisCommit, WritesOn
  <1>8. CASE DispatchTimeout(u) \/ RefreshFails(u) \/ Derive(u)
    BY <1>8 DEF DispatchTimeout, RefreshFails, Derive, Answer, Answers
  <1>9. CASE Refresh(u) \/ Execute(u) \/ ExecuteRejects(u) \/ CheckTail(u) \/ StoreAppend(u)
    BY <1>9 DEF Refresh, Execute, ExecuteRejects, CheckTail, StoreAppend, Quiet
  <1>10. CASE TxStart(u)
    BY <1>10, <1>e, <1>n, AppendWrites DEF TxStart, WritesOn
  <1>11. CASE TxDelta(u)
    BY <1>11, <1>e, <1>n, AppendWrites DEF TxDelta, WritesOn
  <1>12. CASE TxCommit(u)
    <2>1. Candidate(u) \in Capsule
      BY <1>12, CandidateType DEF TxCommit, WriteMarker, InsidePcs, TxPcs
    <2> QED BY <1>12, <2>1, <1>e, AppendWrites DEF TxCommit, WriteMarker, WritesOn
  <1>13. CASE Raise(u) \/ MarkerRaises(u)
    <2>1. pc[u] \in Pcs /\ "lock" \notin Pcs /\ "marker" \notin Pcs
      BY Labels DEF TypeOK
    <2>2. pc[u] \in {"execute", "reject", "delta", "store", "commit"} /\ Raise(u)
      BY <1>13, <2>1, Punctual, KernelAssumption DEF Raise, MarkerRaises
    <2> QED BY <2>2 DEF Raise, Quiet
  <1>15. CASE RaiseWritten(u)
    <2>1. CASE pc[u] = "store"
      BY <1>15, <2>1 DEF RaiseWritten, Quiet
    <2>2. CASE pc[u] = "delta"
      BY <1>15, <2>2, <1>e, <1>n, AppendWrites DEF RaiseWritten, WritesOn
    <2>3. CASE pc[u] = "reject"
      BY <1>15, <2>3, <1>e, <1>n, AppendWrites DEF RaiseWritten, WritesOn
    <2> QED BY <1>15, <2>1, <2>2, <2>3 DEF RaiseWritten
  <1>14. CASE Abort(u) \/ Reject(u)
    BY <1>14, <1>e, <1>n, AppendWrites DEF Abort, Reject, RollBack, Answer, Answers
  <1> QED
    BY <1>1, <1>2, <1>3, <1>4, <1>5, <1>6, <1>7, <1>8, <1>9, <1>10, <1>11,
       <1>12, <1>13, <1>14, <1>15
    DEF Step, Progress, Locking, BootStep, DispatchStep, CommitAppend

(* An entry written to the journal stands behind all the others.           *)
LEMMA Written ==
    ASSUME TypeOK, NEW u \in Workers, NEW type, Writes(u, type)
    PROVE  \E n \in Nat :
              /\ DOMAIN journal' = DOMAIN journal \cup {n}
              /\ DOMAIN journal \subseteq Nat
              /\ \A i \in DOMAIN journal : i < n /\ journal'[i] = journal[i]
              /\ journal'[n].type = type /\ journal'[n].cmd = request[u].cmd
  <1>1. PICK e \in Entry : /\ e.type = type /\ e.cmd = request[u].cmd
                          /\ journal' = Append(journal, e)
    BY DEF Writes
  <1>2. journal \in Seq(Entry)
    BY DEF TypeOK
  <1>3. /\ DOMAIN journal = 1..Len(journal) /\ Len(journal) \in Nat
        /\ DOMAIN journal' = 1..(Len(journal) + 1)
        /\ \A i \in 1..Len(journal) : journal'[i] = journal[i]
        /\ journal'[Len(journal) + 1] = e
    BY <1>1, <1>2, AppendFacts
  <1>4. /\ DOMAIN journal' = DOMAIN journal \cup {Len(journal) + 1}
        /\ \A i \in DOMAIN journal : i < Len(journal) + 1
    BY <1>3
  <1> QED BY <1>1, <1>3, <1>4

(* What the journal says of commands after a step that writes nothing.     *)
LEMMA SameJournal ==
    ASSUME UNCHANGED journal
    PROVE  /\ \A i \in DOMAIN journal : Opened(i)' = Opened(i) /\ Closed(i)' = Closed(i)
           /\ \A c : IsCommitted(c)' = IsCommitted(c)
           /\ OpenedBeforeClosed => OpenedBeforeClosed'
           /\ CommitClosesAlone => CommitClosesAlone'
  BY DEF Opened, Closed, IsCommitted, OpenedBeforeClosed, CommitClosesAlone

(* The account of a worker is not touched by what another one does.        *)
LEMMA OtherAccounts ==
    ASSUME IInv, Accounts, NEW u \in Workers, Step(u),
           NEW w \in Workers, w # u, request[w].cmd # request[u].cmd,
           \/ UNCHANGED journal
           \/ \E type : Writes(u, type),
           \/ UNCHANGED outcome
           \/ \E r : outcome' = [outcome EXCEPT ![request[u].cmd] = r]
    PROVE  Account(w)'
  <1>c. PICK c : c = request[w].cmd
    OBVIOUS
  <1>1. pc'[w] = pc[w] /\ request'[w] = request[w]
    BY OthersUntouched DEF IInv
  <1>2. Account(w)
    BY DEF Accounts
  <1>3. c \in Commands => outcome'[c] = outcome[c]
    BY <1>c DEF IInv, TypeOK
  <1>4. CASE UNCHANGED journal
    BY <1>c, <1>1, <1>2, <1>3, <1>4, SameJournal DEF Account
  <1>5. ASSUME NEW type, Writes(u, type) PROVE Account(w)'
    <2>1. TypeOK
      BY DEF IInv
    <2>2. PICK n \in Nat :
              /\ DOMAIN journal' = DOMAIN journal \cup {n}
              /\ DOMAIN journal \subseteq Nat
              /\ \A i \in DOMAIN journal : i < n /\ journal'[i] = journal[i]
              /\ journal'[n].type = type /\ journal'[n].cmd = request[u].cmd
      BY <1>5, <2>1, Written
    <2>3. \A i \in DOMAIN journal : Opened(i)' = Opened(i) /\ Closed(i)' = Closed(i)
      BY <2>2 DEF Opened, Closed
    <2>4. IsCommitted(c)' <=> IsCommitted(c)
      BY <1>c, <2>2 DEF IsCommitted
    <2> QED BY <1>c, <1>1, <1>2, <1>3, <2>2, <2>3, <2>4 DEF Account
  <1> QED BY <1>4, <1>5

(* Steps that write and answer nothing.                                    *)
LEMMA QuietKeeps ==
    ASSUME IInv, Accounts, NEW u \in Workers, Step(u), Quiet(u) \/ Forgets(u)
    PROVE  Accounts'
  <1>1. \A w \in Workers : w # u => pc'[w] = pc[w] /\ request'[w] = request[w]
    BY OthersUntouched DEF IInv
  <1>2. UNCHANGED <<journal, outcome>>
    BY DEF Quiet, Forgets
  <1>3. NoRequest.cmd \notin Commands
    BY DurableAssumption DEF NoRequest
  <1>4. \A w \in Workers : Account(w)'
    <2> SUFFICES ASSUME NEW w \in Workers PROVE Account(w)'
      OBVIOUS
    <2>1. Account(w)
      BY DEF Accounts
    <2>2. CASE w # u
      BY <1>1, <1>2, <2>1, <2>2, SameJournal DEF Account
    <2>3. CASE w = u /\ Quiet(u)
      <3>1. PICK c : c = request[u].cmd
        OBVIOUS
      <3>2. /\ request'[u].cmd = c /\ journal' = journal /\ outcome' = outcome
            /\ pc'[u] \in UnknownPcs => pc[u] \in UnknownPcs
            /\ pc'[u] \in OpenPcs => pc[u] \in OpenPcs
            /\ pc'[u] = "abort" => pc[u] \in OpenPcs \cup {"abort"}
            /\ pc'[u] = "derive" => pc[u] = "derive"
        BY <2>3, <3>1 DEF Quiet
      <3>3. pc[u] \in OpenPcs => ~IsCommitted(c)
        BY <2>1, <2>3, <3>1 DEF Account, IsCommitted, Closed
      <3> QED BY <2>1, <2>3, <3>1, <3>2, <3>3 DEF Account, Opened, Closed, IsCommitted
    <2>4. CASE w = u /\ Forgets(u)
      BY <1>2, <1>3, <2>4 DEF Account, Forgets, UnknownPcs, OpenPcs
    <2> QED BY <2>2, <2>3, <2>4
  <1>5. OneRequest'
    BY <1>1, <1>3 DEF Accounts, OneRequest, Quiet, Forgets
  <1>6. AnsweredTruthfully' /\ AnsweredClosed'
    BY <1>2, SameJournal DEF Accounts, AnsweredTruthfully, AnsweredClosed
  <1> QED BY <1>2, <1>4, <1>5, <1>6, SameJournal DEF Accounts

(* A new dispatch is a command that nothing knows.                         *)
LEMMA DispatchKeeps ==
    ASSUME IInv, Accounts, NEW u \in Workers, Step(u), Dispatch(u)
    PROVE  Accounts'
  <1>1. \A w \in Workers : w # u => pc'[w] = pc[w] /\ request'[w] = request[w]
    BY OthersUntouched DEF IInv
  <1>2. PICK c \in Commands : Fresh(c) /\ request'[u].cmd = c
    BY DEF Dispatch, IInv, TypeOK
  <1>3. pc'[u] = "wait" /\ UNCHANGED <<journal, outcome>>
    BY DEF Dispatch, Goto, durable, IInv, TypeOK
  <1>4. \A w \in Workers : Account(w)'
    <2> SUFFICES ASSUME NEW w \in Workers PROVE Account(w)'
      OBVIOUS
    <2>1. CASE w # u
      BY <1>1, <1>3, <2>1, SameJournal DEF Accounts, Account
    <2>2. CASE w = u
      BY <1>2, <1>3, <2>2 DEF Account, Fresh, OpenPcs
    <2> QED BY <2>1, <2>2
  <1>5. OneRequest'
    BY <1>1, <1>2 DEF Accounts, OneRequest, Fresh
  <1>6. AnsweredTruthfully' /\ AnsweredClosed'
    BY <1>3, SameJournal DEF Accounts, AnsweredTruthfully, AnsweredClosed
  <1> QED BY <1>3, <1>4, <1>5, <1>6, SameJournal DEF Accounts

(* A worker inside a dispatch has a command, and no other worker has it.   *)
LEMMA OwnCommand ==
    ASSUME IInv, Accounts, NEW u \in Workers,
           pc[u] \in UnknownPcs \cup OpenPcs \cup {"abort", "derive"}
    PROVE  /\ request[u].cmd \in Commands
           /\ outcome[request[u].cmd] = "none"
           /\ \A w \in Workers : w # u => request[w].cmd # request[u].cmd
  <1>1. request[u].cmd \in Commands
    BY DEF IInv, TxKnowledge, UnknownPcs, OpenPcs, InsidePcs, TxPcs
  <1> QED BY <1>1 DEF Accounts, Account, OneRequest

(* An entry of a transaction that has not been answered yet.               *)
LEMMA WriteKeeps ==
    ASSUME IInv, Accounts, NEW u \in Workers, Step(u), NEW type, WritesOn(u, type),
           \/ pc[u] = "start" /\ pc'[u] = "execute" /\ type = "TX_START"
           \/ pc[u] = "delta" /\ pc'[u] = "cas" /\ type = "STATE_DELTA"
           \/ pc[u] = "commit" /\ pc'[u] = "derive" /\ type = "TX_COMMIT"
           \/ pc[u] = "delta" /\ pc'[u] = "abort" /\ type = "STATE_DELTA"
           \/ pc[u] = "reject" /\ pc'[u] = "abort" /\ type = "TX_ABORT"
    PROVE  Accounts'
  <1>c. PICK c : c = request[u].cmd
    OBVIOUS
  <1>1. /\ c \in Commands /\ outcome[c] = "none"
        /\ \A w \in Workers : w # u => request[w].cmd # c
    BY <1>c, OwnCommand DEF UnknownPcs, OpenPcs
  <1>2. PICK n \in Nat :
              /\ DOMAIN journal' = DOMAIN journal \cup {n}
              /\ DOMAIN journal \subseteq Nat
              /\ \A i \in DOMAIN journal : i < n /\ journal'[i] = journal[i]
              /\ journal'[n].type = type /\ journal'[n].cmd = c
    BY <1>c, Written DEF WritesOn, IInv
  <1>3. /\ \A i \in DOMAIN journal : Opened(i)' = Opened(i) /\ Closed(i)' = Closed(i)
        /\ Opened(n)' <=> type = "TX_START"
        /\ Closed(n)' <=> type \in {"TX_COMMIT", "TX_ABORT"}
    BY <1>2 DEF Opened, Closed
  <1>4. UNCHANGED <<outcome, request>>
    BY DEF WritesOn
  <1>5. /\ type = "TX_START" => \A i \in DOMAIN journal :
                                   Opened(i) \/ Closed(i) => journal[i].cmd # c
        /\ type # "TX_START" => \A i \in DOMAIN journal : Closed(i) => journal[i].cmd # c
    BY <1>c DEF Accounts, Account, UnknownPcs, OpenPcs
  <1>6. \A w \in Workers : Account(w)'
    <2> SUFFICES ASSUME NEW w \in Workers PROVE Account(w)'
      OBVIOUS
    <2>1. CASE w # u
      BY <1>c, <1>1, <1>4, <2>1, OtherAccounts DEF WritesOn
    <2>2. CASE w = u
      <3>1. Account(u)
        BY DEF Accounts
      <3>2. pc'[u] = "derive" => IsCommitted(c)'
        BY <1>2 DEF IsCommitted
      <3>3. pc'[u] \notin UnknownPcs
        BY DEF UnknownPcs
      <3>4. pc'[u] \in OpenPcs => \A i \in DOMAIN journal' : Closed(i)' => journal'[i].cmd # c
        BY <1>c, <1>2, <1>3, <3>1 DEF Account, OpenPcs, UnknownPcs
      <3>5. pc'[u] = "abort" => ~IsCommitted(c)'
        BY <1>2, <1>5 DEF IsCommitted, Closed
      <3> QED BY <1>c, <1>1, <1>4, <2>2, <3>1, <3>2, <3>3, <3>4, <3>5 DEF Account
    <2> QED BY <2>1, <2>2
  <1>7. OneRequest'
    BY <1>4 DEF Accounts, OneRequest
  <1>8. OpenedBeforeClosed'
    BY <1>2, <1>3, <1>5 DEF Accounts, OpenedBeforeClosed
  <1>9. CommitClosesAlone'
    <2>1. \A i \in DOMAIN journal : journal[i].type = "TX_COMMIT" => Closed(i)
      BY DEF Closed
    <2>2. \A i, k \in DOMAIN journal :
              /\ journal[i].type = "TX_COMMIT" /\ Closed(k)
              /\ journal[i].cmd = journal[k].cmd
              => i = k
      BY DEF Accounts, CommitClosesAlone
    <2>3. Closed(n)' => \A i \in DOMAIN journal : Closed(i) => journal[i].cmd # c
      BY <1>3, <1>5
    <2>4. journal'[n].type = "TX_COMMIT" => Closed(n)'
      BY DEF Closed
    <2> QED BY <1>2, <1>3, <2>1, <2>2, <2>3, <2>4 DEF CommitClosesAlone
  <1>10. AnsweredTruthfully'
    <2>1. \A d \in Commands : d # c => IsCommitted(d)' = IsCommitted(d)
      BY <1>2 DEF IsCommitted
    <2> QED BY <1>1, <1>4, <2>1 DEF Accounts, AnsweredTruthfully
  <1>11. AnsweredClosed'
    BY <1>1, <1>2, <1>3, <1>4 DEF Accounts, AnsweredClosed
  <1> QED BY <1>6, <1>7, <1>8, <1>9, <1>10, <1>11 DEF Accounts

(* The genesis marker belongs to no command.                               *)
LEMMA GenesisKeeps ==
    ASSUME IInv, Accounts, NEW u \in Workers, Step(u),
           pc'[u] = "boot_rewait", WritesOn(u, "GENESIS_COMMIT")
    PROVE  Accounts'
  <1>1. PICK n \in Nat :
              /\ DOMAIN journal' = DOMAIN journal \cup {n}
              /\ DOMAIN journal \subseteq Nat
              /\ \A i \in DOMAIN journal : i < n /\ journal'[i] = journal[i]
              /\ journal'[n].type = "GENESIS_COMMIT"
    BY Written DEF WritesOn, IInv
  <1>2. /\ \A i \in DOMAIN journal : Opened(i)' = Opened(i) /\ Closed(i)' = Closed(i)
        /\ ~Opened(n)' /\ ~Closed(n)'
        /\ \A c : IsCommitted(c)' = IsCommitted(c)
    BY <1>1 DEF Opened, Closed, IsCommitted
  <1>3. /\ UNCHANGED <<outcome, request>>
        /\ \A w \in Workers : w # u => pc'[w] = pc[w]
    BY OthersUntouched DEF WritesOn, IInv
  <1>4. \A w \in Workers : Account(w)'
    BY <1>1, <1>2, <1>3 DEF Accounts, Account, UnknownPcs, OpenPcs
  <1>5. OneRequest' /\ AnsweredTruthfully'
    BY <1>2, <1>3 DEF Accounts, OneRequest, AnsweredTruthfully
  <1>6. OpenedBeforeClosed' /\ CommitClosesAlone' /\ AnsweredClosed'
    BY <1>1, <1>2, <1>3 DEF Accounts, OpenedBeforeClosed, CommitClosesAlone, AnsweredClosed
  <1> QED BY <1>4, <1>5, <1>6 DEF Accounts

(* An answer: of a command that was not begun, that is committed, or that  *)
(* is aborted in the same step.                                            *)
LEMMA AnswerKeeps ==
    ASSUME IInv, Accounts, NEW u \in Workers, Step(u), NEW r, Answers(u, r),
           \/ pc[u] \in {"wait", "leak", "refresh"} /\ r = "failed" /\ UNCHANGED journal
           \/ pc[u] = "derive" /\ r = "success" /\ UNCHANGED journal
           \/ /\ pc[u] \in {"abort", "reject"} /\ r \in {"failed", "blocked"}
              /\ Writes(u, "TX_ABORT")
    PROVE  Accounts'
  <1>c. PICK c : c = request[u].cmd
    OBVIOUS
  <1>1. /\ c \in Commands /\ outcome[c] = "none"
        /\ \A w \in Workers : w # u => request[w].cmd # c
    BY <1>c, OwnCommand DEF UnknownPcs, OpenPcs
  <1>2. /\ outcome'[c] = r
        /\ \A d \in Commands : d # c => outcome'[d] = outcome[d]
    BY <1>c, <1>1 DEF Answers, IInv, TypeOK
  <1>3. /\ pc'[u] = "ready" /\ request'[u] = NoRequest /\ NoRequest.cmd \notin Commands
        /\ \A w \in Workers : w # u => request'[w] = request[w]
    BY OthersUntouched, DurableAssumption DEF Answers, NoRequest, IInv
  <1>4. \A w \in Workers : Account(w)'
    <2> SUFFICES ASSUME NEW w \in Workers PROVE Account(w)'
      OBVIOUS
    <2>1. CASE w # u
      BY <1>c, <1>1, <2>1, OtherAccounts DEF Answers
    <2>2. CASE w = u
      BY <1>3, <2>2 DEF Account, UnknownPcs, OpenPcs
    <2> QED BY <2>1, <2>2
  <1>5. OneRequest'
    BY <1>3 DEF Accounts, OneRequest
  <1>6. Account(u)
    BY DEF Accounts
  <1>7. CASE /\ UNCHANGED journal
             /\ \/ pc[u] \in {"wait", "leak", "refresh"} /\ r = "failed"
                \/ pc[u] = "derive" /\ r = "success"
    <2>1. /\ r = "success" => IsCommitted(c)
          /\ r = "failed" => ~IsCommitted(c)
          /\ r \in {"success", "failed"}
      BY <1>c, <1>6, <1>7 DEF Account, UnknownPcs, OpenPcs, IsCommitted, Closed
    <2>2. AnsweredTruthfully'
      BY <1>2, <1>7, <2>1, SameJournal DEF Accounts, AnsweredTruthfully
    <2>3. r = "failed" => \A i \in DOMAIN journal : Opened(i) => journal[i].cmd # c
      BY <1>c, <1>6, <1>7 DEF Account, UnknownPcs
    <2>4. IsCommitted(c) => \E k \in DOMAIN journal : Closed(k) /\ journal[k].cmd = c
      BY DEF IsCommitted, Closed
    <2>5. AnsweredClosed'
      BY <1>2, <1>7, <2>1, <2>3, <2>4, SameJournal DEF Accounts, AnsweredClosed
    <2> QED BY <1>4, <1>5, <1>7, <2>2, <2>5, SameJournal DEF Accounts
  <1>8. CASE pc[u] \in {"abort", "reject"} /\ r \in {"failed", "blocked"}
             /\ Writes(u, "TX_ABORT")
    <2>t. TypeOK /\ Writes(u, "TX_ABORT")
      BY <1>8 DEF IInv
    <2>1. PICK n \in Nat :
              /\ DOMAIN journal' = DOMAIN journal \cup {n}
              /\ DOMAIN journal \subseteq Nat
              /\ \A i \in DOMAIN journal : i < n /\ journal'[i] = journal[i]
              /\ journal'[n].type = "TX_ABORT" /\ journal'[n].cmd = c
      BY <1>c, <2>t, Written
    <2>2. /\ \A i \in DOMAIN journal : Opened(i)' = Opened(i) /\ Closed(i)' = Closed(i)
          /\ ~Opened(n)' /\ Closed(n)'
          /\ \A d : IsCommitted(d)' = IsCommitted(d)
      BY <2>1 DEF Opened, Closed, IsCommitted
    <2>4. ~IsCommitted(c)
      BY <1>c, <1>6, <1>8 DEF Account, OpenPcs, IsCommitted, Closed
    <2>3. \A i \in DOMAIN journal : journal[i].type = "TX_COMMIT" => journal[i].cmd # c
      BY <2>4 DEF IsCommitted
    <2>5. AnsweredTruthfully'
      BY <1>2, <1>8, <2>2, <2>4 DEF Accounts, AnsweredTruthfully
    <2>6. OpenedBeforeClosed' /\ CommitClosesAlone'
      BY <2>1, <2>2, <2>3 DEF Accounts, OpenedBeforeClosed, CommitClosesAlone
    <2>7. AnsweredClosed'
      BY <1>2, <2>1, <2>2 DEF Accounts, AnsweredClosed
    <2> QED BY <1>4, <1>5, <2>5, <2>6, <2>7 DEF Accounts
  <1> QED BY <1>7, <1>8

(* Every step keeps the accounts, unless an error may follow a commit.     *)
LEMMA NextAccounts == NoLateFault /\ IInv /\ Accounts /\ [Next]_vars => Accounts'
  <1> SUFFICES ASSUME NoLateFault, IInv, Accounts, [Next]_vars PROVE Accounts'
    OBVIOUS
  <1>1. CASE UNCHANGED vars
    BY <1>1, SameJournal DEF vars, Accounts, Account, OneRequest, AnsweredTruthfully, AnsweredClosed
  <1>2. CASE Next
    <2> PICK u \in Workers : Step(u)
      BY <1>2 DEF Next
    <2> QED BY Kinds, QuietKeeps, DispatchKeeps, WriteKeeps, GenesisKeeps, AnswerKeeps
  <1> QED BY <1>1, <1>2

LEMMA InitAccounts == Init => Accounts
  <1> SUFFICES ASSUME Init PROVE Accounts
    OBVIOUS
  <1>1. DOMAIN journal = {} /\ NoRequest.cmd \notin Commands
    BY DurableAssumption DEF Init, NoRequest
  <1> QED BY <1>1 DEF Init, Accounts, Account, OneRequest, OpenedBeforeClosed, CommitClosesAlone,
                      AnsweredTruthfully, AnsweredClosed, UnknownPcs, OpenPcs, IsCommitted

LEMMA AccountsHold == ASSUME NoLateFault PROVE Spec => []Accounts
  <1>1. IInv /\ Accounts /\ [Next]_vars => Accounts'
    BY NextAccounts
  <1> QED BY <1>1, InitAccounts, InductiveInvariant, PTL DEF Spec

-----------------------------------------------------------------------------
(* What the live TemporalSphere of a worker holds.                         *)

(* A step keeps the memory of its worker in order, unless an error may     *)
(* follow a commit: then the capsule and the sphere would part.            *)
LEMMA OwnMemory ==
    ASSUME IInv, NoLateFault, NEW u \in Workers, Memory(u), Step(u)
    PROVE  Memory(u)'
  <1>t. /\ DOMAIN pc = Workers /\ DOMAIN request = Workers /\ DOMAIN temporal = Workers
        /\ DOMAIN current = Workers /\ DOMAIN before = Workers
    BY DEF IInv, TypeOK
  <1> USE <1>t DEF Memory, Goto, durable, kernel
  <1>1. CASE Boot(u) \/ Dispatch(u)
    BY <1>1 DEF Boot, Dispatch
  <1>2. CASE Shutdown(u) \/ Crash(u) \/ BootTimeout(u) \/ BootFails(u)
    BY <1>2 DEF Shutdown, Crash, BootTimeout, BootFails, Forget
  <1>3. CASE Acquire(u)
    BY <1>3, EnteredLocked DEF Acquire, WaitPcs
  <1>4. CASE AcquireFails(u)
    BY <1>4 DEF AcquireFails, WaitPcs
  <1>5. CASE DropHandle(u)
    BY <1>5 DEF DropHandle, Answer, Forget
  <1>6. CASE ReadTail(u)
    BY <1>6 DEF ReadTail
  <1>7. CASE BootHydrate(u) \/ BootRefresh(u)
    BY <1>7 DEF BootHydrate, BootRefresh
  <1>8. CASE BootGenesis(u) \/ GenesisStore(u) \/ GenesisCommit(u)
    BY <1>8 DEF BootGenesis, GenesisStore, GenesisCommit, Genesis
  <1>9. CASE DispatchTimeout(u) \/ RefreshFails(u) \/ Derive(u)
    BY <1>9 DEF DispatchTimeout, RefreshFails, Derive, Answer
  <1>10. CASE Refresh(u)
    BY <1>10 DEF Refresh
  <1>11. CASE TxStart(u) \/ ExecuteRejects(u) \/ TxDelta(u) \/ CheckTail(u) \/ StoreAppend(u)
    BY <1>11 DEF TxStart, ExecuteRejects, TxDelta, CheckTail, StoreAppend
  <1>12. CASE Execute(u)
    BY <1>12 DEF Execute
  <1>13. CASE TxCommit(u)
    <2>1. /\ current'[u] = Candidate(u) /\ temporal'[u] = temporal[u] /\ pc'[u] = "derive"
      BY <1>13 DEF TxCommit, WriteMarker
    <2>2. Candidate(u).temporal = temporal[u]
      BY DEF Candidate, NextCapsule
    <2> QED BY <2>1, <2>2
  <1>14. CASE Raise(u) \/ MarkerRaises(u)
    <2>1. pc[u] \in Pcs /\ "lock" \notin Pcs /\ "marker" \notin Pcs
      BY Labels DEF TypeOK, IInv
    <2>2. pc[u] \in {"execute", "reject", "delta", "store", "commit"} /\ Raise(u)
      BY <1>14, <2>1, Punctual, KernelAssumption DEF Raise, MarkerRaises
    <2> QED BY <2>2 DEF Raise
  <1>16. CASE RaiseWritten(u)
    BY <1>16 DEF RaiseWritten
  <1>15. CASE Abort(u) \/ Reject(u)
    BY <1>15 DEF Abort, Reject, RollBack, Answer
  <1> QED
    BY <1>1, <1>2, <1>3, <1>4, <1>5, <1>6, <1>7, <1>8, <1>9, <1>10, <1>11,
       <1>12, <1>13, <1>14, <1>15, <1>16
    DEF Step, Progress, Locking, BootStep, DispatchStep, CommitAppend

LEMMA NextMemories == NoLateFault /\ IInv /\ Memories /\ [Next]_vars => Memories'
  <1> SUFFICES ASSUME NoLateFault, IInv, Memories, [Next]_vars PROVE Memories'
    OBVIOUS
  <1>1. CASE UNCHANGED vars
    BY <1>1 DEF vars, Memories, Memory
  <1>2. CASE Next
    <2> PICK u \in Workers : Step(u)
      BY <1>2 DEF Next
    <2>1. Memory(u)'
      BY OwnMemory DEF Memories
    <2>2. ASSUME NEW w \in Workers, w # u PROVE Memory(w)'
      BY <2>2, OthersUntouched DEF Memories, Memory, IInv
    <2> QED BY <2>1, <2>2 DEF Memories
  <1> QED BY <1>1, <1>2

LEMMA MemoriesHold == ASSUME NoLateFault PROVE Spec => []Memories
  <1>1. Init => Memories
    BY DEF Init, Memories, Memory
  <1>2. IInv /\ Memories /\ [Next]_vars => Memories'
    BY NextMemories
  <1> QED BY <1>1, <1>2, InductiveInvariant, PTL DEF Spec

-----------------------------------------------------------------------------
(* What the committed capsules remember.                                   *)

(* Two committed capsules never have one id.                               *)
LEMMA IdsUnique ==
    ASSUME TypeOK, CommitChain, CommitClosesAlone, Named,
           NEW i \in CommitPositions(journal), NEW k \in CommitPositions(journal),
           journal[i].capsule.id = journal[k].capsule.id
    PROVE  i = k
  <1>1. \A j \in CommitPositions(journal) :
            /\ j \in DOMAIN journal /\ j \in Nat
            /\ journal[j].type \in {"GENESIS_COMMIT", "TX_COMMIT"}
            /\ journal[j].capsule \in Capsule
    BY DEF CommitPositions, CommitTypes, CommitChain, TypeOK
  <1>2. \A j \in CommitPositions(journal) : journal[j].type = "GENESIS_COMMIT" =>
            journal[j].capsule.id \in Sessions /\ GenesisFirst(j)
    <2> SUFFICES ASSUME NEW j \in CommitPositions(journal), journal[j].type = "GENESIS_COMMIT"
                 PROVE  journal[j].capsule.id \in Sessions /\ GenesisFirst(j)
      OBVIOUS
    <2>1. GenesisFirst(j)
      BY DEF CommitChain
    <2>2. journal[j].capsule.id = journal[j].capsule.session
      BY <2>1 DEF GenesisFirst, Genesis
    <2>3. journal[j].capsule.session \in Sessions
      BY <1>1 DEF Capsule
    <2> QED BY <2>1, <2>2, <2>3
  <1>3. \A j \in CommitPositions(journal) : journal[j].type = "TX_COMMIT" =>
            /\ journal[j].capsule.id = journal[j].cmd
            /\ journal[j].capsule.id \in Commands
    BY DEF Named
  <1>4. CASE journal[i].type = "GENESIS_COMMIT"
    <2>1. journal[k].type = "GENESIS_COMMIT"
      BY <1>1, <1>2, <1>3, <1>4, DurableAssumption
    <2> QED BY <1>1, <1>2, <1>4, <2>1 DEF GenesisFirst
  <1>5. CASE journal[i].type = "TX_COMMIT"
    <2>1. journal[k].type = "TX_COMMIT"
      BY <1>1, <1>2, <1>3, <1>5, DurableAssumption
    <2> QED BY <1>1, <1>3, <1>5, <2>1 DEF CommitClosesAlone, Closed
  <1> QED BY <1>1, <1>4, <1>5

\* What holds of the committed capsules, besides their chain.
Faithful == Named /\ TurnsFaithful

(* A step without a commit marker keeps what the markers say.              *)
LEMMA FaithfulPlain ==
    ASSUME TypeOK, Faithful, PlainAppend \/ UNCHANGED journal
    PROVE  Faithful'
  BY PlainKeepsCommits DEF Faithful, Named, TurnsFaithful

(* The genesis has no parent, and no other marker is there.                *)
LEMMA FaithfulGenesis ==
    ASSUME IInv, NEW u \in Workers, GenesisCommit(u)
    PROVE  Faithful'
  <1>1. PICK s \in Sessions : current[u] = Genesis(s)
    BY DEF IInv, GenesisKnowledge, GenesisCommit
  <1>2. CommitPositions(journal) = {} /\ Genesis(s) \in Capsule
    BY CapsuleTypes DEF IInv, GenesisKnowledge, GenesisCommit
  <1>3. PICK e \in Entry : /\ e.type = "GENESIS_COMMIT" /\ e.capsule = Genesis(s)
                          /\ e.prev = Len(journal)
                          /\ journal' = Append(journal, e)
    BY <1>1, <1>2, AppendedEntry DEF IInv, GenesisCommit, EntryTypes, CommitTypes
  <1>4. /\ CommitPositions(journal)' = {Len(journal) + 1}
        /\ journal'[Len(journal) + 1] = e
    BY <1>2, <1>3, CommitAppended DEF IInv, CommitTypes
  <1>5. e.capsule.parent = NoId /\ e.capsule.id # NoId
    BY <1>3, DurableAssumption DEF Genesis
  <1> QED BY <1>3, <1>4, <1>5 DEF Faithful, Named, TurnsFaithful

(* No committed capsule has the id of the one about to be committed.       *)
LEMMA NewId ==
    ASSUME IInv, Accounts, Named, NEW u \in Workers, WriteMarker(u),
           NEW i \in CommitPositions(journal)
    PROVE  journal[i].capsule.id # request[u].cmd
  <1>c. PICK c : c = request[u].cmd
    OBVIOUS
  <1>1. pc[u] = "commit" /\ c \in Commands /\ TypeOK /\ CommitChain
    BY <1>c, CandidateType DEF WriteMarker, IInv, TxKnowledge, InsidePcs, TxPcs
  <1> SUFFICES ASSUME journal[i].capsule.id = c PROVE FALSE
    BY <1>c
  <1>2. CASE journal[i].type = "GENESIS_COMMIT"
    <2>1. journal[i].capsule = Genesis(journal[i].capsule.session)
      BY <1>1, <1>2 DEF CommitChain, GenesisFirst
    <2>2. journal[i].capsule.session \in Sessions
      BY <1>1 DEF CommitChain, TypeOK, Capsule
    <2> QED BY <1>1, <2>1, <2>2, DurableAssumption DEF Genesis
  <1>3. CASE journal[i].type = "TX_COMMIT"
    <2>1. journal[i].cmd = c
      BY <1>3 DEF Named
    <2>2. \A j \in DOMAIN journal : Closed(j) => journal[j].cmd # c
      BY <1>c, <1>1 DEF Accounts, Account, OpenPcs
    <2> QED BY <1>3, <2>1, <2>2 DEF Closed, CommitPositions
  <1> QED BY <1>2, <1>3 DEF CommitPositions, CommitTypes

(* A new capsule remembers its parent's turns and its own.                 *)
LEMMA FaithfulCommit ==
    ASSUME IInv, Accounts, Memories, Faithful, NEW u \in Workers, WriteMarker(u)
    PROVE  Faithful'
  <1> DEFINE p == before[u]
  <1>c. PICK c : c = request[u].cmd
    OBVIOUS
  <1>1. /\ pc[u] = "commit" /\ p \in Capsule /\ c \in Commands /\ IsTail(p)
        /\ Candidate(u) \in Capsule /\ TypeOK /\ TailFresh /\ CommitChain
    BY <1>c, CandidateType DEF WriteMarker, IInv, TxKnowledge, TxPcs, InsidePcs
  <1>2. Candidate(u) = NextCapsule(p, c, Append(p.temporal, c))
    BY <1>c, <1>1 DEF Memories, Memory, Candidate
  <1>3. PICK e \in Entry : /\ e.type = "TX_COMMIT" /\ e.capsule = Candidate(u) /\ e.cmd = c
                          /\ e.prev = Len(journal)
                          /\ journal' = Append(journal, e)
    <2> DEFINE e == MakeEntry("TX_COMMIT", request[u].cmd, Candidate(u), tail[u])
    <2>1. tail[u] = Len(journal) /\ tail[u] \in Nat
      BY <1>1 DEF TypeOK, TailFresh, AppendEntry, WriteMarker
    <2>2. e \in Entry
      BY <1>c, <1>1, <2>1 DEF MakeEntry, Entry, EntryTypes, CommitTypes
    <2> QED BY <1>c, <2>1, <2>2 DEF WriteMarker, AppendEntry, MakeEntry
  <1>4. PICK n \in Nat : /\ journal'[n] = e
                        /\ CommitPositions(journal)' = CommitPositions(journal) \cup {n}
                        /\ \A i \in CommitPositions(journal) :
                              i \in Nat /\ i < n /\ journal'[i] = journal[i]
    BY <1>3, CommitAppended DEF IInv, CommitTypes
  <1>5. PICK k \in CommitPositions(journal) : journal[k].capsule = p
    BY <1>1 DEF IsTail, IsLatestCommit
  <1>6. /\ e.capsule.id = c /\ e.capsule.parent = p.id
        /\ e.capsule.temporal = Append(p.temporal, c)
    BY <1>2, <1>3 DEF NextCapsule
  \* No committed capsule has the id of the new one, nor names it as parent.
  <1>7. \A i \in CommitPositions(journal) : journal[i].capsule.id # c
    BY <1>c, NewId DEF Faithful
  <1>8. \A i \in CommitPositions(journal) : journal[i].capsule.parent # c
    <2> SUFFICES ASSUME NEW i \in CommitPositions(journal)
                 PROVE  journal[i].capsule.parent # c
      OBVIOUS
    <2>1. CASE journal[i].type = "GENESIS_COMMIT" /\ GenesisFirst(i)
      BY <1>1, <2>1, DurableAssumption DEF GenesisFirst, Genesis
    <2>2. CASE ExtendsPrevious(i)
      BY <1>7, <2>2 DEF ExtendsPrevious
    <2> QED BY <1>1, <2>1, <2>2 DEF CommitChain
  <1>9. Named'
    <2>1. \A i \in CommitPositions(journal') : journal'[i].type = "TX_COMMIT" =>
             /\ journal'[i].capsule.id = journal'[i].cmd
             /\ journal'[i].cmd \in Commands
      BY <1>1, <1>3, <1>4, <1>6 DEF Faithful, Named
    <2> QED BY <2>1 DEF Named
  <1>10. p.id # c
    BY <1>5, <1>7
  <1>11. \A i \in CommitPositions(journal) :
            journal[i].capsule.id = p.id => journal[i].capsule = p
    BY <1>1, <1>5, IdsUnique DEF Faithful, Accounts
  <1>12. TurnsFaithful'
    <2> SUFFICES ASSUME NEW i \in CommitPositions(journal'), NEW k2 \in CommitPositions(journal'),
                        journal'[i].capsule.parent = journal'[k2].capsule.id
                 PROVE  journal'[i].capsule.temporal =
                            Append(journal'[k2].capsule.temporal, journal'[i].capsule.id)
      BY DEF TurnsFaithful
    <2>1. CASE i = n /\ k2 = n
      BY <1>4, <1>3, <1>6, <1>10, <2>1
    <2>2. CASE i = n /\ k2 \in CommitPositions(journal)
      BY <1>4, <1>3, <1>6, <1>11, <2>2
    <2>3. CASE i \in CommitPositions(journal) /\ k2 = n
      BY <1>4, <1>3, <1>6, <1>8, <2>3
    <2>4. CASE i \in CommitPositions(journal) /\ k2 \in CommitPositions(journal)
      BY <1>4, <2>4 DEF Faithful, TurnsFaithful
    <2> QED BY <1>4, <2>1, <2>2, <2>3, <2>4
  <1> QED BY <1>9, <1>12 DEF Faithful

LEMMA NextFaithful ==
    IInv /\ Accounts /\ Memories /\ Faithful /\ [Next]_vars => Faithful'
  <1> SUFFICES ASSUME IInv, Accounts, Memories, Faithful, [Next]_vars PROVE Faithful'
    OBVIOUS
  <1>1. TypeOK /\ TailFresh
    BY DEF IInv
  <1>2. CASE UNCHANGED vars
    BY <1>1, <1>2, FaithfulPlain DEF vars
  <1>3. CASE Next
    <2> PICK u \in Workers : Step(u)
      BY <1>3 DEF Next
    <2> QED BY <1>1, JournalChange, FaithfulPlain, FaithfulGenesis, FaithfulCommit
  <1> QED BY <1>2, <1>3

LEMMA FaithfulHolds == ASSUME NoLateFault PROVE Spec => []Faithful
  <1>1. Init => Faithful
    BY DEF Init, Faithful, Named, TurnsFaithful, CommitPositions
  <1>2. IInv /\ Accounts /\ Memories /\ Faithful /\ [Next]_vars => Faithful'
    BY NextFaithful
  <1> QED BY <1>1, <1>2, InductiveInvariant, AccountsHold, MemoriesHold, PTL DEF Spec

(* Where no exception comes behind a commit marker, the WAL has no other    *)
(* TX_COMMIT and no TX_ABORT of a committed command, whichever of the       *)
(* appends and events before the marker, or of a rejection, raises.         *)
THEOREM CommitsStand == ASSUME NoLateFault PROVE Spec => []CommitClosesAlone
  <1>1. Accounts => CommitClosesAlone
    BY DEF Accounts
  <1> QED BY <1>1, AccountsHold, PTL

(* What dispatch() answers is true and stays true: SUCCESS means that the   *)
(* command is committed, an exception or BLOCKED that it never is.          *)
THEOREM AnswersTruthful == ASSUME NoLateFault PROVE Spec => []AnsweredTruthfully
  <1>1. Accounts => AnsweredTruthfully
    BY DEF Accounts
  <1> QED BY <1>1, AccountsHold, PTL

(* A command that dispatch() has answered left no open transaction in the   *)
(* WAL: what reconcile_wal() reports comes from a crash.                    *)
THEOREM AnswersClose == ASSUME NoLateFault PROVE Spec => []AnsweredMeansClosed
  <1>1. Accounts /\ TypeOK => AnsweredMeansClosed
    <2> SUFFICES ASSUME Accounts, TypeOK, NEW c \in UncommittedTransactions(journal)
                 PROVE  outcome[c] = "none"
      BY DEF AnsweredMeansClosed
    <2>1. c \in Commands
      BY DEF UncommittedTransactions
    <2>2. PICK i \in DOMAIN journal :
              /\ journal[i].type = "TX_START" /\ journal[i].cmd = c
              /\ \A k \in i..Len(journal) :
                    ~(journal[k].type \in {"TX_COMMIT", "TX_ABORT"} /\ journal[k].cmd = c)
      BY DEF UncommittedTransactions
    <2>3. \A k \in DOMAIN journal : Closed(k) /\ journal[k].cmd = c => i < k
      BY <2>2 DEF Accounts, OpenedBeforeClosed, Opened
    <2>4. DOMAIN journal = 1..Len(journal) /\ Len(journal) \in Nat
      BY DEF TypeOK
    <2>5. \A k \in DOMAIN journal : Closed(k) => journal[k].cmd # c
      BY <2>2, <2>3, <2>4 DEF Closed
    <2> QED BY <2>1, <2>2, <2>5 DEF Accounts, AnsweredClosed, Opened
  <1> QED BY <1>1, AccountsHold, TypeCorrect, PTL

(* Between two dispatches, the live TemporalSphere of a kernel is what its  *)
(* current capsule says.                                                    *)
THEOREM LiveStateHolds == ASSUME NoLateFault PROVE Spec => []LiveStateMatches
  <1>1. Memories => LiveStateMatches
    BY DEF Memories, Memory, LiveStateMatches
  <1> QED BY <1>1, MemoriesHold, PTL

(* A committed capsule remembers the turns of its parent and its own turn:  *)
(* neither a rolled back turn nor another worker's commit gets in or lost.  *)
THEOREM TurnsStayFaithful == ASSUME NoLateFault PROVE Spec => []TurnsFaithful
  <1>1. Faithful => TurnsFaithful
    BY DEF Faithful
  <1> QED BY <1>1, FaithfulHolds, PTL

-----------------------------------------------------------------------------
(* Refinement of Ledger.  First, the ranks of a finite set of positions.   *)

\* Every rank up to the size of the set is taken.
Ranked(positions) ==
    /\ IsFiniteSet(positions) /\ positions \subseteq Nat
    /\ \A n \in 1..Cardinality(positions) :
          \E i \in positions : Rank(positions, i) = n

(* Two positions of one rank are one position.                             *)
LEMMA RankUnique ==
    ASSUME NEW P \in SUBSET Nat, IsFiniteSet(P), NEW i \in P, NEW j \in P,
           Rank(P, i) = Rank(P, j)
    PROVE  i = j
  <1>1. ASSUME NEW a \in P, NEW b \in P, a < b PROVE Rank(P, a) # Rank(P, b)
    <2> DEFINE A == {k \in P : k <= a}
               B == {k \in P : k <= b}
    <2>1. /\ A \in SUBSET B /\ B \in SUBSET P /\ A # B
      <3>1. b \in B /\ b \notin A
        BY <1>1
      <3>2. \A k \in A : k \in B
        BY <1>1
      <3> QED BY <3>1, <3>2
    <2>2. IsFiniteSet(B)
      BY <2>1, FS_Subset
    <2> HIDE DEF A, B
    <2>3. Cardinality(A) # Cardinality(B)
      BY <2>1, <2>2, FS_Subset
    <2> QED BY <2>3 DEF Rank, A, B
  <1> QED BY <1>1

(* The position of a rank is the one Nth finds.                            *)
LEMMA NthFound ==
    ASSUME NEW P, Ranked(P), NEW i \in P
    PROVE  Nth(P, Rank(P, i)) = i
  BY RankUnique DEF Ranked, Nth

LEMMA NthRanked ==
    ASSUME NEW P, Ranked(P), NEW n \in 1..Cardinality(P)
    PROVE  Nth(P, n) \in P /\ Rank(P, Nth(P, n)) = n
  BY DEF Ranked, Nth

(* A later position is ranked last and changes no other rank.              *)
LEMMA RankAdded ==
    ASSUME NEW P, Ranked(P), NEW n \in Nat, \A i \in P : i < n,
           NEW Q, Q = P \cup {n}
    PROVE  /\ Cardinality(P) \in Nat
           /\ Cardinality(Q) = Cardinality(P) + 1
           /\ \A i \in P : Rank(Q, i) = Rank(P, i)
           /\ Rank(Q, n) = Cardinality(Q)
           /\ Ranked(Q)
  <1>1. n \notin P /\ IsFiniteSet(P) /\ P \subseteq Nat
    BY DEF Ranked
  <1>2. /\ IsFiniteSet(Q) /\ Q \subseteq Nat
        /\ Cardinality(P) \in Nat
        /\ Cardinality(Q) = Cardinality(P) + 1
    BY <1>1, FS_AddElement, FS_CardinalityType
  <1>3. ASSUME NEW i \in P PROVE Rank(Q, i) = Rank(P, i)
    <2>1. {k \in Q : k <= i} = {k \in P : k <= i}
      BY <1>1
    <2> QED BY <2>1 DEF Rank
  <1>4. Rank(Q, n) = Cardinality(Q)
    <2>1. \A k \in Q : k <= n
      BY <1>1
    <2>2. {k \in Q : k <= n} = Q
      BY <2>1
    <2> QED BY <2>2 DEF Rank
  <1>5. ASSUME NEW m \in 1..Cardinality(Q)
        PROVE  \E i \in Q : Rank(Q, i) = m
    <2>1. CASE m \in 1..Cardinality(P)
      <3>1. PICK i \in P : Rank(P, i) = m
        BY <2>1 DEF Ranked
      <3> QED BY <1>3, <3>1
    <2>2. CASE m = Cardinality(Q)
      BY <1>4, <2>2
    <2> QED BY <1>2, <2>1, <2>2
  <1> QED BY <1>2, <1>3, <1>4, <1>5 DEF Ranked

-----------------------------------------------------------------------------
(* The history of the ledger, step by step.                                *)

\* The commit markers have ranks, and the last one names the last capsule.
CommitsRanked == Ranked(CommitPositions(journal))

(* The history has one capsule of the type per commit marker.              *)
LEMMA HistoryFacts ==
    ASSUME TypeOK, CommitChain, CommitsRanked
    PROVE  /\ CommitHistory \in Seq(Capsule)
           /\ Len(CommitHistory) = Cardinality(CommitPositions(journal))
           /\ Len(CommitHistory) \in Nat
           /\ (Len(CommitHistory) = 0) <=> (CommitPositions(journal) = {})
           /\ \A n \in 1..Len(CommitHistory) :
                 CommitHistory[n] = journal[Nth(CommitPositions(journal), n)].capsule
  <1> DEFINE P == CommitPositions(journal)
  <1>1. Cardinality(P) \in Nat /\ (Cardinality(P) = 0 <=> P = {})
    BY FS_CardinalityType, FS_EmptySet DEF CommitsRanked, Ranked
  <1>2. CommitHistory = [n \in 1..Cardinality(P) |-> journal[Nth(P, n)].capsule]
    BY DEF CommitHistory
  <1>3. \A n \in 1..Cardinality(P) : journal[Nth(P, n)].capsule \in Capsule
    BY NthRanked DEF CommitsRanked, CommitChain, TypeOK
  <1> HIDE DEF P
  <1>4. CommitHistory \in [1..Cardinality(P) -> Capsule]
    BY <1>2, <1>3
  <1>5. CommitHistory \in Seq(Capsule) /\ Len(CommitHistory) = Cardinality(P)
    BY <1>1, <1>4
  <1> QED BY <1>1, <1>2, <1>5 DEF P

(* A commit marker adds its capsule to the history, at the end.            *)
LEMMA HistoryGrows ==
    ASSUME TypeOK, TypeOK', HashChain, CommitChain, CommitsRanked,
           NEW e \in Entry, e.type \in CommitTypes, e.prev = Len(journal),
           e.capsule \in Capsule, journal' = Append(journal, e)
    PROVE  /\ CommitsRanked'
           /\ CommitHistory' = Append(CommitHistory, e.capsule)
  <1>p. PICK P : P = CommitPositions(journal)
    OBVIOUS
  <1>q. PICK Q : Q = CommitPositions(journal')
    OBVIOUS
  <1>1. PICK n \in Nat : /\ journal'[n] = e
                        /\ Q = P \cup {n}
                        /\ \A i \in P : i \in Nat /\ i < n /\ journal'[i] = journal[i]
    BY <1>p, <1>q, CommitAppended
  <1>2. /\ Cardinality(P) \in Nat /\ Cardinality(Q) = Cardinality(P) + 1
        /\ \A i \in P : Rank(Q, i) = Rank(P, i)
        /\ Rank(Q, n) = Cardinality(Q)
        /\ Ranked(P) /\ Ranked(Q)
    <2>1. Ranked(P)
      BY <1>p DEF CommitsRanked
    <2>2. \A i \in P : i < n
      BY <1>1
    <2>3. Q = P \cup {n}
      BY <1>1
    <2> QED BY ONLY n \in Nat, <2>1, <2>2, <2>3, RankAdded
  <1>3. ASSUME NEW m \in 1..Cardinality(P)
        PROVE  journal'[Nth(Q, m)].capsule = journal[Nth(P, m)].capsule
    <2>1. Nth(P, m) \in P /\ Rank(P, Nth(P, m)) = m
      BY <1>2, NthRanked
    <2>2. Nth(P, m) \in Q /\ Rank(Q, Nth(P, m)) = m
      BY <1>1, <1>2, <2>1
    <2>3. Nth(Q, Rank(Q, Nth(P, m))) = Nth(P, m)
      BY <1>2, <2>2, NthFound
    <2> QED BY <1>1, <2>1, <2>2, <2>3
  <1>4. journal'[Nth(Q, Cardinality(Q))].capsule = e.capsule
    <2>1. n \in Q
      BY <1>1
    <2>2. Nth(Q, Rank(Q, n)) = n
      BY <1>2, <2>1, NthFound
    <2> QED BY <1>1, <1>2, <2>2
  <1>5. CommitHistory' = [m \in 1..Cardinality(Q) |-> journal'[Nth(Q, m)].capsule]
    BY <1>q DEF CommitHistory
  <1>6. /\ CommitHistory \in Seq(Capsule)
        /\ Len(CommitHistory) = Cardinality(P)
        /\ \A m \in 1..Cardinality(P) : CommitHistory[m] = journal[Nth(P, m)].capsule
    BY <1>p, HistoryFacts
  <1>7. CommitHistory' = Append(CommitHistory, e.capsule)
    <2> DEFINE new == Append(CommitHistory, e.capsule)
    <2>1. /\ new \in Seq(Capsule) /\ Len(new) = Cardinality(Q)
          /\ \A m \in 1..Cardinality(P) : new[m] = CommitHistory[m]
          /\ new[Cardinality(Q)] = e.capsule
      BY <1>2, <1>6
    <2>2. new = [m \in 1..Cardinality(Q) |-> new[m]]
      BY <2>1
    <2>3. \A m \in 1..Cardinality(Q) : m \in 1..Cardinality(P) \/ m = Cardinality(Q)
      BY <1>2
    <2>4. \A m \in 1..Cardinality(Q) : new[m] = journal'[Nth(Q, m)].capsule
      BY <1>3, <1>4, <1>6, <2>1, <2>3
    <2> HIDE DEF new
    <2> QED BY <1>5, <2>2, <2>4 DEF new
  <1> QED BY <1>q, <1>2, <1>7 DEF CommitsRanked

(* The last commit marker names the last capsule of the history.           *)
LEMMA HistoryLast ==
    ASSUME TypeOK, CommitChain, CommitsRanked,
           NEW i \in DOMAIN journal, IsLatestCommit(journal, i)
    PROVE  /\ CommitHistory # << >>
           /\ CommitHistory[Len(CommitHistory)] = journal[i].capsule
  <1> DEFINE P == CommitPositions(journal)
  <1>1. i \in P /\ \A k \in P : k <= i
    BY DEF IsLatestCommit
  <1>2. {k \in P : k <= i} = P
    BY <1>1
  <1>3. Rank(P, i) = Cardinality(P)
    BY <1>2 DEF Rank
  <1>4. Nth(P, Cardinality(P)) = i
    BY <1>1, <1>3, NthFound DEF CommitsRanked
  <1>5. /\ Len(CommitHistory) = Cardinality(P) /\ Len(CommitHistory) \in Nat
        /\ Len(CommitHistory) # 0 /\ CommitHistory \in Seq(Capsule)
        /\ \A n \in 1..Len(CommitHistory) : CommitHistory[n] = journal[Nth(P, n)].capsule
    BY <1>1, HistoryFacts
  <1> HIDE DEF P
  <1> QED BY <1>4, <1>5

(* A step that writes no commit marker leaves the history as it is.        *)
LEMMA HistoryKept ==
    ASSUME TypeOK, CommitsRanked, PlainAppend \/ UNCHANGED journal
    PROVE  CommitHistory' = CommitHistory /\ CommitsRanked'
  <1>1. CommitPositions(journal') = CommitPositions(journal)
    BY PlainKeepsCommits
  <1>2. \A n \in 1..Cardinality(CommitPositions(journal)) :
            journal'[Nth(CommitPositions(journal), n)]
                  = journal[Nth(CommitPositions(journal), n)]
    BY PlainKeepsCommits, NthRanked DEF CommitsRanked
  <1> QED BY <1>1, <1>2 DEF CommitHistory, CommitsRanked

(* The genesis commit starts the ledger.                                   *)
LEMMA GenesisStarts ==
    ASSUME IInv, IInv', CommitsRanked, NEW u \in Workers, GenesisCommit(u)
    PROVE  CommitsRanked' /\ ledger!Start
  <1>1. PICK s \in Sessions : current[u] = Genesis(s)
    BY DEF IInv, GenesisKnowledge, GenesisCommit
  <1>2. CommitPositions(journal) = {} /\ Genesis(s) \in Capsule
    BY CapsuleTypes DEF IInv, GenesisKnowledge, GenesisCommit
  <1>3. PICK e \in Entry : /\ e.type = "GENESIS_COMMIT" /\ e.capsule = Genesis(s)
                          /\ e.prev = Len(journal)
                          /\ journal' = Append(journal, e)
    BY <1>1, <1>2, AppendedEntry DEF IInv, GenesisCommit, EntryTypes, CommitTypes
  <1>4. TypeOK /\ TypeOK' /\ HashChain /\ CommitChain /\ e.type \in CommitTypes
    BY <1>3 DEF IInv, CommitTypes
  <1>5. CommitsRanked' /\ CommitHistory' = Append(CommitHistory, Genesis(s))
    BY <1>2, <1>3, <1>4, HistoryGrows
  <1>6. CommitHistory = << >>
    BY <1>2, <1>4, HistoryFacts
  <1>7. CommitHistory' = <<Genesis(s)>>
    BY <1>5, <1>6
  <1>8. ledger!Genesis(s) = Genesis(s)
    BY DEF ledger!Genesis, Genesis
  <1> QED BY <1>5, <1>6, <1>7, <1>8 DEF ledger!Start

(* The commit of a transaction commits its command to the ledger.          *)
LEMMA CommitCommits ==
    ASSUME IInv, IInv', Accounts, Memories, Faithful, CommitsRanked,
           NEW u \in Workers, WriteMarker(u)
    PROVE  CommitsRanked' /\ \E c \in Commands : ledger!Commit(c)
  <1> DEFINE p == before[u]
  <1>c. PICK c : c = request[u].cmd
    OBVIOUS
  <1>1. /\ p \in Capsule /\ c \in Commands /\ IsTail(p)
        /\ Candidate(u) \in Capsule
        /\ TypeOK /\ TypeOK' /\ TailFresh /\ HashChain /\ CommitChain
    BY <1>c, CandidateType DEF WriteMarker, IInv, TxKnowledge, TxPcs, InsidePcs
  <1>2. Candidate(u) = NextCapsule(p, c, Append(p.temporal, c))
    BY <1>c DEF WriteMarker, Memories, Memory, Candidate
  <1>3. PICK e \in Entry : /\ e.type = "TX_COMMIT" /\ e.capsule = Candidate(u)
                          /\ e.prev = Len(journal)
                          /\ journal' = Append(journal, e)
    BY <1>1, AppendedEntry DEF WriteMarker, EntryTypes, CommitTypes
  <1>4. e.type \in CommitTypes
    BY <1>3 DEF CommitTypes
  <1>5. CommitsRanked' /\ CommitHistory' = Append(CommitHistory, Candidate(u))
    BY <1>1, <1>3, <1>4, HistoryGrows
  <1>6. CommitHistory # << >> /\ CommitHistory[Len(CommitHistory)] = p
    BY <1>1, HistoryLast DEF IsTail
  <1>7. \A i \in DOMAIN CommitHistory : CommitHistory[i].id # c
    <2>1. \A i \in CommitPositions(journal) : journal[i].capsule.id # c
      BY <1>c, NewId DEF Faithful
    <2>2. \A i \in DOMAIN CommitHistory :
              /\ CommitHistory[i] = journal[Nth(CommitPositions(journal), i)].capsule
              /\ Nth(CommitPositions(journal), i) \in CommitPositions(journal)
      BY <1>1, HistoryFacts, NthRanked DEF CommitsRanked
    <2> QED BY <2>1, <2>2
  <1>8. ledger!Commit(c)
    <2>1. ledger!NextCapsule(p, c, Append(p.temporal, c)) = Candidate(u)
      BY <1>2 DEF ledger!NextCapsule, NextCapsule
    <2>2. ledger!Last = p
      BY <1>6 DEF ledger!Last
    <2> HIDE DEF p
    <2> QED BY <1>5, <1>6, <1>7, <2>1, <2>2 DEF ledger!Commit
  <1> QED BY <1>1, <1>5, <1>8

(* Every step of the workers is a step of the ledger or hidden from it.    *)
LEMMA StepsOfLedger ==
    /\ IInv /\ IInv' /\ Accounts /\ Memories /\ Faithful /\ CommitsRanked
    /\ [Next]_vars
    => CommitsRanked' /\ [ledger!Next]_CommitHistory
  <1> SUFFICES ASSUME IInv, IInv', Accounts, Memories, Faithful, CommitsRanked,
                      [Next]_vars
               PROVE  CommitsRanked' /\ [ledger!Next]_CommitHistory
    OBVIOUS
  <1>1. TypeOK /\ TailFresh
    BY DEF IInv
  <1>2. CASE UNCHANGED vars
    BY <1>1, <1>2, HistoryKept DEF vars
  <1>3. CASE Next
    <2> PICK u \in Workers : Step(u)
      BY <1>3 DEF Next
    <2>1. CASE PlainAppend \/ UNCHANGED journal
      BY <1>1, <2>1, HistoryKept
    <2>2. CASE GenesisCommit(u)
      BY <2>2, GenesisStarts DEF ledger!Next
    <2>3. CASE WriteMarker(u)
      BY <2>3, CommitCommits DEF ledger!Next
    <2> QED BY <1>1, <2>1, <2>2, <2>3, JournalChange
  <1> QED BY <1>2, <1>3

(* The workers implement the ledger: however they interleave, whatever     *)
(* crash comes between their steps, the commit markers read in file order  *)
(* are one history that grows by one command at a time.                    *)
THEOREM KernelImplementsLedger == ASSUME NoLateFault PROVE Spec => ImplementsLedger
  <1>1. Init => CommitsRanked /\ ledger!Init
    <2> SUFFICES ASSUME Init PROVE CommitsRanked /\ ledger!Init
      OBVIOUS
    <2>1. CommitPositions(journal) = {}
      BY DEF Init, CommitPositions
    <2>2. CommitsRanked
      BY <2>1, FS_EmptySet DEF CommitsRanked, Ranked
    <2>3. TypeOK /\ CommitChain
      BY InitIInv DEF IInv
    <2>4. CommitHistory = << >>
      BY <2>1, <2>2, <2>3, HistoryFacts
    <2> QED BY <2>2, <2>4 DEF ledger!Init
  <1>2. /\ IInv /\ IInv' /\ Accounts /\ Memories /\ Faithful /\ CommitsRanked
        /\ [Next]_vars
        => CommitsRanked' /\ [ledger!Next]_CommitHistory
    BY StepsOfLedger
  <1> QED
    BY <1>1, <1>2, InductiveInvariant, AccountsHold, MemoriesHold, FaithfulHolds, PTL
    DEF Spec, ImplementsLedger, ledger!Spec

-----------------------------------------------------------------------------
(* The gateway over the kernel (GatewayOverKernel).                        *)

\* Inside dispatch().
DispatchPcs == {"wait", "leak", "refresh"} \cup InsidePcs

\* Inside dispatch(), before its TX_COMMIT or instead of it.
UncommittedPcs == DispatchPcs \ {"derive", "abort"}

\* A kernel with a command serves the call of it, which has not been told,
\* and knows what the journal says of it.
Serves(w) ==
    LET c == request[w].cmd
    IN  /\ c \in Commands => /\ pc[w] \in DispatchPcs
                             /\ at[c] = "dispatch" /\ home[c] = w
                             /\ outcome[c] = "none"
        /\ pc[w] \in UncommittedPcs => c \notin CommittedCommands
        /\ pc[w] = "derive" => c \in CommittedCommands
        /\ pc[w] = "abort" /\ c \in CommittedCommands => LateFault

Places == Front!Pcs \ {"turn", "committed"}

\* A process serves one call at a time.
OneCall ==
    \A c, d \in Commands : Active(c) /\ Active(d) /\ home[c] = home[d] => c = d

(* What the calls of the gateway and the kernels know of each other.       *)
Linked ==
    /\ at \in [Commands -> Places]
    /\ home \in [Commands -> Workers \cup {NoWorker}]
    /\ \A c \in Commands : Active(c) => home[c] \in Workers
    /\ OneCall
    /\ \A w \in Workers : Serves(w)

-----------------------------------------------------------------------------
(* The steps of a kernel, as the gateway sees them.                        *)

(* An entry of the journal commits the command it names, or nothing.       *)
LEMMA EntryCommits ==
    ASSUME TypeOK, NEW e \in Entry, journal' = Append(journal, e), NEW c \in Commands
    PROVE  c \in CommittedCommands' <=>
               c \in CommittedCommands \/ (e.type = "TX_COMMIT" /\ e.cmd = c)
  <1>1. /\ DOMAIN journal = 1..Len(journal) /\ Len(journal) \in Nat
        /\ DOMAIN journal' = 1..(Len(journal) + 1)
        /\ \A i \in 1..Len(journal) : journal'[i] = journal[i]
        /\ journal'[Len(journal) + 1] = e
    BY AppendFacts DEF TypeOK
  <1> QED BY <1>1 DEF CommittedCommands, IsCommitted

(* A TX_COMMIT, and nothing else, adds a committed command.                *)
LEMMA CommandsCommitted ==
    ASSUME IInv, NEW u \in Workers, Step(u)
    PROVE  /\ ~WriteMarker(u) => CommittedCommands' = CommittedCommands
           /\ WriteMarker(u) => /\ request[u].cmd \in Commands
                             /\ CommittedCommands' = CommittedCommands \cup {request[u].cmd}
  <1>t. TypeOK /\ TailFresh /\ CommittedCommands \subseteq Commands
        /\ CommittedCommands' \subseteq Commands
    BY DEF IInv, CommittedCommands
  <1>g. {"TX_COMMIT", "GENESIS_COMMIT"} \subseteq EntryTypes
        /\ {"TX_COMMIT", "GENESIS_COMMIT"} \subseteq CommitTypes
    BY DEF EntryTypes, CommitTypes
  <1>1. CASE WriteMarker(u)
    <2>1. request[u].cmd \in Commands /\ Candidate(u) \in Capsule
      BY <1>1, CandidateType DEF WriteMarker, InsidePcs, TxPcs, IInv, TxKnowledge
    <2>2. PICK e \in Entry : /\ e.type = "TX_COMMIT" /\ e.cmd = request[u].cmd
                            /\ journal' = Append(journal, e)
      BY <1>t, <1>g, <1>1, <2>1, AppendWrites DEF WriteMarker, Writes
    <2> QED BY <1>t, <1>1, <2>1, <2>2, EntryCommits
  <1>2. CASE ~WriteMarker(u) /\ UNCHANGED journal
    BY <1>2 DEF CommittedCommands, IsCommitted
  <1>3. CASE ~WriteMarker(u) /\ PlainAppend
    <2>1. PICK e \in Entry : e.type # "TX_COMMIT" /\ journal' = Append(journal, e)
      BY <1>3, <1>g DEF PlainAppend
    <2> QED BY <1>t, <1>3, <2>1, EntryCommits
  <1>4. CASE ~WriteMarker(u) /\ GenesisCommit(u)
    <2>1. current[u] \in Capsule
      BY <1>4, CapsuleTypes DEF IInv, GenesisKnowledge, GenesisCommit
    <2>2. PICK e \in Entry : e.type # "TX_COMMIT" /\ journal' = Append(journal, e)
      BY <1>t, <1>g, <1>4, <2>1, AppendWrites DEF GenesisCommit, Writes
    <2> QED BY <1>t, <1>4, <2>2, EntryCommits
  <1> QED BY <1>t, <1>1, <1>2, <1>3, <1>4, JournalChange

\* A step outside of dispatch().
Aside(u) ==
    /\ pc'[u] \notin DispatchPcs
    /\ request'[u].cmd \notin Commands
    /\ UNCHANGED <<outcome, CommittedCommands>>

\* dispatch() gets the runtime lock.
Enters(u) ==
    /\ pc[u] = "wait" /\ pc'[u] \in {"leak", "refresh"} /\ lock = NoWorker
    /\ UNCHANGED <<request, outcome, CommittedCommands>>

\* dispatch() goes on, with the lock and its transaction uncommitted, or by
\* an exception that comes after the commit.
GoesOn(u) ==
    /\ \/ pc[u] \in UncommittedPcs \ {"wait"} /\ pc'[u] \in UncommittedPcs \ {"wait"}
       \/ pc[u] \in UncommittedPcs \ {"wait"} /\ pc'[u] = "abort"
       \/ pc[u] = "abort" /\ pc'[u] = "abort"
       \/ pc[u] = "derive" /\ pc'[u] = "abort" /\ LateFault
    /\ UNCHANGED <<request, outcome, CommittedCommands>>

\* The commit marker is written, and the append returns or raises.
Commits(u) ==
    /\ WriteMarker(u)
    /\ \/ pc'[u] = "derive"
       \/ pc'[u] = "abort" /\ LateFault

\* dispatch() returns or raises.
Leaves(u) ==
    \E answer \in {"success", "blocked", "failed"} :
       /\ \/ pc[u] = "wait" /\ lock # NoWorker /\ answer = "failed"
          \/ pc[u] \in {"leak", "refresh", "abort"} /\ answer = "failed"
          \/ pc[u] = "reject" /\ answer = "blocked"
          \/ pc[u] = "derive" /\ answer = "success"
       /\ Answers(u, answer)
       /\ UNCHANGED CommittedCommands

(* A kernel outside of dispatch() stays there.                             *)
LEMMA StepsAside ==
    ASSUME IInv, NEW u \in Workers, Progress(u), pc[u] \notin DispatchPcs,
           request[u].cmd \notin Commands
    PROVE  Aside(u)
  <1>t. /\ DOMAIN pc = Workers /\ DOMAIN request = Workers /\ Step(u)
        /\ request[u] \in Requests
        /\ NoRequest.cmd \notin Commands /\ pc[u] # "lock"
    BY DurableAssumption, Labels DEF IInv, TypeOK, Step, NoRequest
  <1>c. CommittedCommands' = CommittedCommands
    BY <1>t, CommandsCommitted DEF WriteMarker, DispatchPcs, InsidePcs, TxPcs
  <1> USE <1>t, <1>c DEF Aside, DispatchPcs, InsidePcs, TxPcs, Goto
  <1>1. CASE BootStep(u)
    <2>1. CASE BootTimeout(u) \/ BootFails(u) \/ BootRefresh(u)
      BY <2>1 DEF BootTimeout, BootFails, BootRefresh, Forget
    <2>2. CASE BootHydrate(u) \/ BootGenesis(u) \/ GenesisStore(u) \/ GenesisCommit(u)
      BY <2>2 DEF BootHydrate, BootGenesis, GenesisStore, GenesisCommit
    <2> QED BY <1>1, <2>1, <2>2 DEF BootStep
  <1>2. CASE Acquire(u)
    BY <1>2, EnteredLocked DEF Acquire, WaitPcs
  <1>3. CASE AcquireFails(u) \/ DropHandle(u) \/ ReadTail(u)
    BY <1>3 DEF AcquireFails, DropHandle, ReadTail, WaitPcs, Forget
  <1>4. ~DispatchStep(u)
    <2>1. ~(DispatchTimeout(u) \/ Refresh(u) \/ RefreshFails(u) \/ TxStart(u) \/ Execute(u)
            \/ ExecuteRejects(u) \/ TxDelta(u) \/ CheckTail(u) \/ StoreAppend(u))
      BY DEF DispatchTimeout, Refresh, RefreshFails, TxStart, Execute, ExecuteRejects,
             TxDelta, CheckTail, StoreAppend
    <2>2. ~(TxCommit(u) \/ MarkerRaises(u) \/ Derive(u) \/ RaiseWritten(u)
            \/ Abort(u) \/ Reject(u))
      BY DEF WriteMarker, TxCommit, MarkerRaises, Derive, RaiseWritten, Abort, Reject
    <2>3. ~Raise(u)
      <3>1. pc[u] \in Pcs /\ "marker" \notin Pcs
        BY <1>t, Labels DEF IInv, TypeOK
      <3> QED BY <3>1, KernelAssumption DEF Raise
    <2> QED BY <2>1, <2>2, <2>3 DEF DispatchStep, CommitAppend
  <1> QED BY <1>1, <1>2, <1>3, <1>4 DEF Progress, Locking

(* What a kernel inside of dispatch() does.                                *)
LEMMA StepsInside ==
    ASSUME IInv, NEW u \in Workers, Progress(u), pc[u] \in DispatchPcs
    PROVE  \/ Enters(u)
           \/ GoesOn(u)
           \/ Commits(u)
           \/ Leaves(u)
  <1>t. /\ DOMAIN pc = Workers /\ DOMAIN request = Workers /\ Step(u)
    BY DEF IInv, TypeOK, Step
  <1>c. ~WriteMarker(u) => CommittedCommands' = CommittedCommands
    BY <1>t, CommandsCommitted
  <1>d. DispatchPcs = {"wait", "leak", "refresh", "start", "execute", "delta", "cas",
                       "store", "commit", "derive", "abort", "reject"}
    BY DEF DispatchPcs, InsidePcs, TxPcs
  <1> USE <1>t, <1>d DEF UncommittedPcs, Goto
  <1>1. CASE Acquire(u) \/ AcquireFails(u)
    <2>1. ~WriteMarker(u)
      BY <1>1 DEF Acquire, AcquireFails, WaitPcs, WriteMarker
    <2> QED BY <1>1, <1>c, <2>1, EnteredLocked DEF Acquire, AcquireFails, WaitPcs, Enters
  <1>2. CASE DropHandle(u) \/ DispatchTimeout(u) \/ RefreshFails(u) \/ Derive(u)
    <2>1. ~WriteMarker(u)
      BY <1>2 DEF DropHandle, DispatchTimeout, RefreshFails, Derive, WriteMarker
    <2> QED BY <1>2, <1>c, <2>1
            DEF DropHandle, DispatchTimeout, RefreshFails, Derive, Answer, Leaves, Answers
  <1>3. CASE Abort(u) \/ Reject(u)
    <2>1. ~WriteMarker(u)
      BY <1>3 DEF Abort, Reject, WriteMarker
    <2> QED BY <1>3, <1>c, <2>1 DEF Abort, Reject, RollBack, Answer, Leaves, Answers
  <1>4. CASE ReadTail(u)
    <2>1. pc[u] \in {"start", "delta", "commit", "reject", "abort"} /\ UNCHANGED <<pc, request, outcome>>
      BY <1>4 DEF ReadTail, AppendPcs
    <2>2. CommittedCommands' = CommittedCommands
      BY <1>4 DEF ReadTail, durable, CommittedCommands, IsCommitted
    <2> QED BY <2>1, <2>2 DEF GoesOn
  <1>5. CASE Refresh(u) \/ TxStart(u) \/ Execute(u) \/ ExecuteRejects(u) \/ TxDelta(u)
             \/ CheckTail(u) \/ StoreAppend(u)
    <2>1. ~WriteMarker(u)
      BY <1>5 DEF Refresh, TxStart, Execute, ExecuteRejects, TxDelta, CheckTail,
                  StoreAppend, WriteMarker
    <2> QED BY <1>5, <1>c, <2>1
            DEF Refresh, TxStart, Execute, ExecuteRejects, TxDelta, CheckTail,
                StoreAppend, GoesOn
  <1>6. CASE Raise(u)
    <2>1. \/ pc[u] \in {"execute", "reject", "delta", "store", "commit"}
          \/ pc[u] = "derive" /\ LateFault
      BY <1>6, KernelAssumption DEF Raise, LateFault
    <2>2. CommittedCommands' = CommittedCommands
      BY <1>6 DEF Raise, durable, CommittedCommands, IsCommitted
    <2>3. pc'[u] = "abort" /\ UNCHANGED <<request, outcome>>
      BY <1>6 DEF Raise
    <2> QED BY <2>1, <2>2, <2>3 DEF GoesOn
  <1>8. CASE RaiseWritten(u)
    <2>1. pc[u] \in {"delta", "store", "reject"} /\ pc'[u] = "abort"
      BY <1>8 DEF RaiseWritten
    <2>2. ~WriteMarker(u)
      BY <2>1 DEF WriteMarker
    <2> QED BY <1>8, <1>c, <2>1, <2>2 DEF RaiseWritten, GoesOn
  <1>9. CASE TxCommit(u) \/ MarkerRaises(u)
    BY <1>9 DEF TxCommit, MarkerRaises, Commits, LateFault
  <1>7. CASE BootStep(u)
    BY <1>7 DEF BootStep, BootTimeout, BootFails, BootHydrate, BootGenesis,
                BootRefresh, GenesisStore, GenesisCommit
  <1> QED
    BY <1>1, <1>2, <1>3, <1>4, <1>5, <1>6, <1>7, <1>8, <1>9
    DEF Progress, Locking, DispatchStep, CommitAppend

-----------------------------------------------------------------------------
(* The links hold.                                                         *)

(* What the links say of a kernel and its call.                            *)
LEMMA CallOf ==
    ASSUME Linked, NEW w \in Workers, request[w].cmd \in Commands
    PROVE  /\ pc[w] \in DispatchPcs
           /\ at[request[w].cmd] = "dispatch" /\ Active(request[w].cmd)
           /\ home[request[w].cmd] = w
           /\ outcome[request[w].cmd] = "none"
  BY DEF Linked, Serves, Active

(* A kernel is served on when another one makes a step.                    *)
LEMMA OthersServed ==
    ASSUME IInv, Linked, NEW u \in Workers, Step(u), NEW w \in Workers, w # u,
           UNCHANGED home,
           \A d \in Commands : at[d] = "dispatch" /\ home[d] = w =>
                                  at'[d] = at[d] /\ outcome'[d] = outcome[d]
    PROVE  Serves(w)'
  <1>c. PICK c : c = request[w].cmd
    OBVIOUS
  <1>1. pc'[w] = pc[w] /\ request'[w].cmd = c
    BY <1>c, OthersUntouched DEF IInv
  <1>2. c \in CommittedCommands' <=> c \in CommittedCommands
    <2>1. c \in Commands => c # request[u].cmd
      BY <1>c, CallOf
    <2> QED BY <2>1, CommandsCommitted DEF CommittedCommands
  <1>3. c \in Commands => /\ pc[w] \in DispatchPcs /\ at[c] = "dispatch"
                          /\ home[c] = w /\ outcome[c] = "none"
    BY <1>c, CallOf
  <1>4. Serves(w)
    BY DEF Linked
  <1> QED BY <1>c, <1>1, <1>2, <1>3, <1>4 DEF Serves

(* The call moves while the kernels stand still.                           *)
LEMMA CallMoves ==
    ASSUME Linked, UNCHANGED vars, NEW c \in Commands, at[c] # "dispatch",
           NEW l \in Places, Front!Goto(c, l),
           \/ UNCHANGED home
           \/ \E w \in Workers : home' = [home EXCEPT ![c] = w]
    PROVE  \A w \in Workers : Serves(w)'
  <1>1. \A d \in Commands : d # c => at'[d] = at[d] /\ home'[d] = home[d]
    BY DEF Linked, Front!Goto
  <1> SUFFICES ASSUME NEW w \in Workers PROVE Serves(w)'
    OBVIOUS
  <1>2. Serves(w) /\ (request[w].cmd \in Commands => request[w].cmd # c)
    BY CallOf DEF Linked
  <1>3. CommittedCommands' = CommittedCommands
    BY DEF vars, CommittedCommands, IsCommitted
  <1> QED BY <1>1, <1>2, <1>3 DEF Serves, vars

(* A step of execute() outside of dispatch() moves one call, or none.      *)
LEMMA HandleMoves ==
    ASSUME Linked, NEW c \in Commands, Handle(c)
    PROVE  \/ UNCHANGED at
           \/ /\ Active(c) /\ at[c] # "dispatch"
              /\ \E l \in Places : Front!Goto(c, l)
  <1> USE DEF Front!Finish, Front!Examine, Active, Places, Front!Pcs, Front!GuardPcs
  <1>1. CASE Front!Get(c) \/ Front!Reserve(c) \/ Front!Wait(c)
    BY <1>1 DEF Front!Get, Front!Reserve, Front!Wait
  <1>2. CASE Front!Recover(c) \/ Front!RecoverFails(c) \/ Front!Claim(c)
    BY <1>2 DEF Front!Recover, Front!RecoverFails, Front!Claim
  <1>3. CASE Front!Release(c) \/ Front!Finalize(c) \/ Front!Renew(c)
    BY <1>3 DEF Front!Release, Front!Finalize, Front!Renew
  <1>4. CASE Front!StorageFails(c)
    BY <1>4 DEF Front!StorageFails, Front!StorePcs
  <1> QED BY <1>1, <1>2, <1>3, <1>4 DEF Handle

LEMMA HandleKeeps ==
    ASSUME Linked, NEW c \in Commands, Handle(c)
    PROVE  Linked'
  <1>0. UNCHANGED vars /\ UNCHANGED home
    BY DEF Handle
  <1>1. CASE UNCHANGED at
    <2>1. CommittedCommands' = CommittedCommands
      BY <1>0 DEF vars, CommittedCommands, IsCommitted
    <2> QED BY <1>0, <1>1, <2>1 DEF Linked, OneCall, Active, Serves, vars
  <1>2. ASSUME Active(c), at[c] # "dispatch", NEW l \in Places, Front!Goto(c, l)
        PROVE  Linked'
    <2>1. \A w \in Workers : Serves(w)'
      BY <1>0, <1>2, CallMoves
    <2>2. at' = [at EXCEPT ![c] = l]
      BY <1>2 DEF Front!Goto
    <2>3. \A d \in Commands : Active(d)' => Active(d)
      BY <1>2, <2>2 DEF Linked, Active
    <2> QED BY <1>0, <1>2, <2>1, <2>2, <2>3 DEF Linked, OneCall
  <1> QED BY <1>1, <1>2, HandleMoves

LEMMA BeginKeeps ==
    ASSUME Linked, NEW c \in Commands, Begin(c)
    PROVE  Linked'
  <1>1. PICK w \in Workers : Idle(w) /\ home' = [home EXCEPT ![c] = w]
    BY DEF Begin
  <1>2. UNCHANGED vars /\ at[c] = "idle" /\ at' = [at EXCEPT ![c] = "get"]
    BY DEF Begin, Front!Start, Front!Goto
  <1>3. ~Active(c) /\ "get" \in Places /\ Front!Goto(c, "get")
    BY <1>2 DEF Active, Places, Front!Pcs, Front!Goto
  <1>4. \A v \in Workers : Serves(v)'
    BY <1>1, <1>2, <1>3, CallMoves
  <1>5. \A d \in Commands : d # c => home'[d] = home[d] /\ (Active(d)' <=> Active(d))
    BY <1>1, <1>2 DEF Linked, Active
  <1>6. home'[c] = w /\ \A d \in Commands : Active(d) => home[d] # w
    BY <1>1 DEF Linked, Idle
  <1>7. OneCall'
    BY <1>5, <1>6 DEF Linked, OneCall
  <1>8. \A d \in Commands : Active(d)' => home'[d] \in Workers
    BY <1>5, <1>6 DEF Linked
  <1> QED BY <1>1, <1>2, <1>3, <1>4, <1>7, <1>8 DEF Linked

LEMMA CallKeeps ==
    ASSUME IInv, Linked, NEW c \in Commands, Call(c)
    PROVE  Linked' /\ Step(home[c]) /\ home[c] \in Workers
  <1> DEFINE u == home[c]
  <1>1. u \in Workers /\ at[c] = "dispatch" /\ Dispatch(u) /\ UNCHANGED <<at, home>>
    BY DEF Call, gatewayVars, Linked, Active
  <1>2. Step(u)
    BY <1>1 DEF Step
  <1>3. /\ pc'[u] = "wait" /\ UNCHANGED <<journal, outcome>> /\ request'[u].cmd = c
        /\ Fresh(c)
    BY <1>1 DEF Dispatch, Goto, durable, IInv, TypeOK, Call
  <1>4. CommittedCommands' = CommittedCommands /\ c \notin CommittedCommands
    BY <1>3 DEF CommittedCommands, IsCommitted, Fresh
  <1>5. Serves(u)'
    BY <1>1, <1>3, <1>4 DEF Serves, Fresh, DispatchPcs, InsidePcs, TxPcs
  <1>6. \A w \in Workers : Serves(w)'
    BY <1>1, <1>2, <1>3, <1>5, OthersServed
  <1> QED BY <1>1, <1>2, <1>6 DEF Linked, OneCall, Active

(* A step outside of dispatch() leaves the links alone.                    *)
LEMMA AsideKeeps ==
    ASSUME IInv, Linked, NEW u \in Workers, Step(u), Aside(u), UNCHANGED <<at, home>>
    PROVE  Linked'
  <1>1. Serves(u)'
    BY DEF Aside, Serves, UncommittedPcs, DispatchPcs, InsidePcs
  <1>2. \A w \in Workers : Serves(w)'
    BY <1>1, OthersServed DEF Aside
  <1> QED BY <1>2 DEF Linked, OneCall, Active

LEMMA BootAside ==
    ASSUME IInv, Linked, NEW u \in Workers, BootProcess(u) \/ EndProcess(u)
    PROVE  Step(u) /\ Aside(u) /\ request[u].cmd \notin Commands
  <1>1. /\ Boot(u) \/ Shutdown(u)
        /\ pc[u] \in {"down", "ready"}
    BY DEF BootProcess, EndProcess, Boot, Shutdown
  <1>2. pc[u] \notin DispatchPcs /\ request[u].cmd \notin Commands
    BY <1>1, CallOf DEF DispatchPcs, InsidePcs, TxPcs
  <1>3. Step(u) /\ ~WriteMarker(u)
    BY <1>1 DEF Step, WriteMarker
  <1>4. /\ DOMAIN pc = Workers /\ DOMAIN request = Workers
        /\ request[u] \in Requests /\ NoRequest.cmd \notin Commands
    BY DurableAssumption DEF IInv, TypeOK, NoRequest
  <1>5. pc'[u] \in {"down", "boot_wait"} /\ UNCHANGED outcome /\ request'[u].cmd \notin Commands
    BY <1>1, <1>2, <1>4 DEF Boot, Shutdown, Forget, Goto, Requests
  <1>6. CommittedCommands' = CommittedCommands
    BY <1>3, CommandsCommitted
  <1> QED BY <1>2, <1>3, <1>5, <1>6 DEF Aside, DispatchPcs, InsidePcs, TxPcs

(* What dispatch() tells its caller is heard by that caller alone.         *)
LEMMA LeavesHeard ==
    ASSUME IInv, Linked, NEW u \in Workers, Run(u), Leaves(u), request[u].cmd \in Commands
    PROVE  /\ Hears(request[u].cmd)
           /\ \A d \in Commands : d # request[u].cmd => outcome'[d] = outcome[d]
  <1> DEFINE c == request[u].cmd
  <1>1. PICK answer \in {"success", "blocked", "failed"} :
            outcome' = [outcome EXCEPT ![c] = answer]
    BY DEF Leaves, Answers
  <1>2. outcome[c] = "none"
    BY CallOf
  <1>3. /\ outcome'[c] = answer
        /\ \A d \in Commands : d # c => outcome'[d] = outcome[d]
    BY <1>1 DEF IInv, TypeOK
  <1>4. Told(c) /\ \A d \in Commands : d # c => ~Told(d)
    BY <1>2, <1>3 DEF Told
  <1> QED BY <1>3, <1>4 DEF Run

(* A step of dispatch() that tells nothing moves no call.                  *)
LEMMA UntoldStays ==
    ASSUME NEW u \in Workers, Run(u), UNCHANGED outcome
    PROVE  UNCHANGED <<rows, seen, result, asked, at, home>>
  BY DEF Run, Told

LEMMA RunKeeps ==
    ASSUME IInv, Linked, NEW u \in Workers, Run(u)
    PROVE  Linked'
  <1>1. Progress(u) /\ Step(u) /\ UNCHANGED home
    BY DEF Run, Step
  <1>p. UncommittedPcs \subseteq DispatchPcs /\ {"derive", "abort"} \subseteq DispatchPcs
        /\ {"wait", "leak", "refresh", "commit", "reject"} \subseteq UncommittedPcs
        /\ "derive" \notin UncommittedPcs /\ "abort" \notin UncommittedPcs
    BY DEF UncommittedPcs, DispatchPcs, InsidePcs, TxPcs
  <1>2. CASE pc[u] \notin DispatchPcs
    <2>1. request[u].cmd \notin Commands
      BY <1>2, CallOf
    <2>2. Aside(u)
      BY <1>1, <1>2, <2>1, StepsAside
    <2> QED BY <1>1, <2>2, UntoldStays, AsideKeeps DEF Aside
  <1>3. CASE pc[u] \in DispatchPcs
    <2>0. request[u].cmd \in Commands
      BY <1>3 DEF IInv, TxKnowledge, DispatchPcs
    <2>c. PICK c \in Commands : c = request[u].cmd
      BY <2>0
    <2>l. at[c] = "dispatch" /\ home[c] = u /\ outcome[c] = "none" /\ Serves(u)
      BY <2>c, CallOf DEF Linked
    <2>1. ASSUME UNCHANGED outcome, Serves(u)' PROVE Linked'
      <3>1. UNCHANGED <<at, home>>
        BY <2>1, UntoldStays
      <3>2. \A w \in Workers : Serves(w)'
        BY <1>1, <2>1, <3>1, OthersServed
      <3> QED BY <3>1, <3>2 DEF Linked, OneCall, Active
    <2>2. CASE Enters(u) \/ GoesOn(u)
      <3>1. /\ UNCHANGED <<outcome, at, home>> /\ request'[u].cmd = c
            /\ CommittedCommands' = CommittedCommands
        BY <2>2, <2>c, UntoldStays DEF Enters, GoesOn
      <3>2. /\ pc'[u] \in UncommittedPcs \cup {"abort"}
            /\ \/ pc[u] \in UncommittedPcs
               \/ pc'[u] = "abort" /\ pc[u] = "abort"
               \/ pc'[u] = "abort" /\ LateFault
        BY <2>2, <1>p DEF Enters, GoesOn
      <3>3. Serves(u)'
        BY <1>p, <2>c, <2>l, <3>1, <3>2 DEF Serves
      <3> QED BY <2>1, <3>1, <3>3
    <2>3. CASE Commits(u)
      <3>1. /\ UNCHANGED outcome /\ request'[u].cmd = c
            /\ pc'[u] = "derive" \/ (pc'[u] = "abort" /\ LateFault)
            /\ CommittedCommands' = CommittedCommands \cup {c}
        BY <1>1, <2>3, <2>c, CommandsCommitted DEF Commits, WriteMarker
      <3>2. UNCHANGED <<at, home>>
        BY <3>1, UntoldStays
      <3>3. Serves(u)'
        BY <1>p, <2>l, <3>1, <3>2 DEF Serves
      <3> QED BY <2>1, <3>1, <3>3
    <2>4. CASE Leaves(u)
      <3>1. Hears(c) /\ \A d \in Commands : d # c => outcome'[d] = outcome[d]
        BY <2>0, <2>c, <2>4, LeavesHeard
      <3>2. PICK l \in {"finalize", "release"} : at' = [at EXCEPT ![c] = l]
        BY <3>1 DEF Hears
      <3>3. at' \in [Commands -> Places]
        BY <3>2 DEF Linked, Places, Front!Pcs
      <3>4. \A d \in Commands : d # c => at'[d] = at[d]
        BY <3>2 DEF Linked
      <3>5. request'[u].cmd \notin Commands /\ pc'[u] = "ready"
        BY <2>4, DurableAssumption DEF Leaves, Answers, NoRequest
      <3>6. Serves(u)'
        BY <3>5 DEF Serves, UncommittedPcs, DispatchPcs, InsidePcs, TxPcs
      <3>7. \A w \in Workers : Serves(w)'
        BY <1>1, <2>l, <3>1, <3>4, <3>6, OthersServed
      <3>8. \A d \in Commands : Active(d)' => Active(d)
        BY <2>l, <3>4 DEF Active
      <3> QED BY <1>1, <3>3, <3>7, <3>8 DEF Linked, OneCall
    <2> QED BY <1>1, <1>3, <2>2, <2>3, <2>4, StepsInside
  <1> QED BY <1>2, <1>3

LEMMA KillKeeps ==
    ASSUME IInv, Linked, NEW u \in Workers, KillProcess(u)
    PROVE  Linked'
  <1>1. Step(u) /\ Crash(u) /\ UNCHANGED <<home, outcome>>
    BY DEF KillProcess, Crash, Step
  <1>2. at' = [c \in Commands |-> IF Active(c) /\ home[c] = u THEN "dead" ELSE at[c]]
    BY DEF KillProcess
  <1>3. at' \in [Commands -> Places]
    BY <1>2 DEF Linked, Places, Front!Pcs
  <1>4. \A d \in Commands : Active(d)' => Active(d)
    BY <1>2 DEF Active
  <1>5. pc'[u] = "down" /\ request'[u].cmd \notin Commands
    BY <1>1, DurableAssumption DEF Crash, Forget, Goto, NoRequest, IInv, TypeOK
  <1>6. Serves(u)'
    BY <1>5 DEF Serves, UncommittedPcs, DispatchPcs, InsidePcs, TxPcs
  <1>7. \A w \in Workers : Serves(w)'
    BY <1>1, <1>2, <1>6, OthersServed
  <1> QED BY <1>1, <1>3, <1>4, <1>7 DEF Linked, OneCall

(* Nothing moves: the links stay.                                          *)
LEMMA StillKeeps ==
    ASSUME Linked, UNCHANGED vars, UNCHANGED <<at, home>>
    PROVE  Linked'
  <1>1. CommittedCommands' = CommittedCommands
    BY DEF vars, CommittedCommands, IsCommitted
  <1> QED BY <1>1 DEF Linked, OneCall, Active, Serves, vars

(* Every step of the processes keeps the links.                            *)
LEMMA NextLinked ==
    ASSUME IInv, Linked, [SystemNext]_systemVars
    PROVE  Linked'
  <1>1. ASSUME NEW c \in Commands, Begin(c) \/ Handle(c) \/ Call(c) PROVE Linked'
    BY <1>1, BeginKeeps, HandleKeeps, CallKeeps
  <1>2. ASSUME NEW w \in Workers, Run(w) \/ KillProcess(w) PROVE Linked'
    BY <1>2, RunKeeps, KillKeeps
  <1>3. ASSUME NEW w \in Workers, BootProcess(w) \/ EndProcess(w) PROVE Linked'
    <2>1. UNCHANGED <<at, home>>
      BY <1>3 DEF BootProcess, EndProcess, gatewayVars
    <2> QED BY <1>3, <2>1, BootAside, AsideKeeps
  <1>4. ASSUME NEW k \in Keys, LeaseRunsOut(k) PROVE Linked'
    <2>1. UNCHANGED vars /\ UNCHANGED <<at, home>>
      BY <1>4 DEF LeaseRunsOut, Front!Expire
    <2> QED BY <2>1, StillKeeps
  <1>5. CASE UNCHANGED systemVars
    <2>1. UNCHANGED vars /\ UNCHANGED <<at, home>>
      BY <1>5 DEF systemVars, gatewayVars
    <2> QED BY <2>1, StillKeeps
  <1> QED BY <1>1, <1>2, <1>3, <1>4, <1>5 DEF SystemNext

(* Every step of the processes is one of a kernel, or none of them moves.  *)
LEMMA KernelMoves ==
    ASSUME IInv, Linked, [SystemNext]_systemVars
    PROVE  [Next]_vars
  <1>1. ASSUME NEW c \in Commands, Begin(c) \/ Handle(c) PROVE UNCHANGED vars
    BY <1>1 DEF Begin, Handle
  <1>2. ASSUME NEW c \in Commands, Call(c) PROVE Next
    BY <1>2, CallKeeps DEF Next
  <1>3. ASSUME NEW w \in Workers, Run(w) \/ BootProcess(w) \/ EndProcess(w) \/ KillProcess(w)
        PROVE  Next
    BY <1>3 DEF Run, BootProcess, EndProcess, KillProcess, Next, Step
  <1>4. ASSUME NEW k \in Keys, LeaseRunsOut(k) PROVE UNCHANGED vars
    BY <1>4 DEF LeaseRunsOut
  <1>5. CASE UNCHANGED systemVars
    BY <1>5 DEF systemVars
  <1> QED BY <1>1, <1>2, <1>3, <1>4, <1>5 DEF SystemNext

-----------------------------------------------------------------------------
(* The steps of the processes are steps of the gateway.                    *)

(* A call whose dispatch() has the lock is at "dispatch".                  *)
LEMMA HolderDispatches ==
    ASSUME IInv, Linked
    PROVE  /\ Holder \in Commands \cup {NoId}
           /\ \A c \in Commands :
                 Holder = c <=> \E w \in Workers : lock = w /\ request[w].cmd = c
           /\ \A c \in Commands : Holder = c => at[c] = "dispatch"
  <1>1. lock \in Workers \cup {NoWorker} /\ \A w \in Workers : request[w] \in Requests
    BY DEF IInv, TypeOK
  <1>2. NoId \notin Commands /\ NoWorker \notin Workers
    BY DurableAssumption, KernelAssumption
  <1>3. Holder \in Commands \cup {NoId}
    BY <1>1, <1>2 DEF Holder, Requests
  <1>4. \A c \in Commands :
           Holder = c <=> \E w \in Workers : lock = w /\ request[w].cmd = c
    BY <1>1, <1>2 DEF Holder
  <1> QED BY <1>3, <1>4, CallOf

(* Where the gateway has the calls when none of the kernels moves.         *)
LEMMA StageMoves ==
    ASSUME IInv, Linked, UNCHANGED vars, NEW c \in Commands, at[c] # "dispatch"
    PROVE  /\ Stage(c) = at[c]
           /\ Holder' = Holder /\ CommittedCommands' = CommittedCommands
           /\ \A l : Front!Goto(c, l) => gateway!Goto(c, l)
  <1>1. Holder' = Holder /\ CommittedCommands' = CommittedCommands
        /\ \A d \in Commands : IsCommitted(d)' <=> IsCommitted(d)
    BY DEF vars, Holder, CommittedCommands, IsCommitted
  <1>2. Holder # c
    BY HolderDispatches
  <1>3. ASSUME NEW l, Front!Goto(c, l) PROVE gateway!Goto(c, l)
    <2>1. at'[c] = l /\ \A d \in Commands : d # c => at'[d] = at[d]
      BY <1>3 DEF Front!Goto, Linked
    <2>2. Stage(c)' = l
      BY <1>1, <1>2, <2>1 DEF Stage
    <2>3. \A d \in Commands : d # c => Stage(d)' = Stage(d)
      BY <1>1, <2>1 DEF Stage
    <2> QED BY <2>2, <2>3 DEF gateway!Goto
  <1> QED BY <1>1, <1>2, <1>3 DEF Stage

(* And when no call moves either.                                          *)
LEMMA StagesStay ==
    ASSUME UNCHANGED vars, UNCHANGED at
    PROVE  /\ Holder' = Holder /\ CommittedCommands' = CommittedCommands
           /\ \A c \in Commands : Stage(c)' = Stage(c)
  BY DEF vars, Holder, CommittedCommands, IsCommitted, Stage

LEMMA HandleMaps ==
    ASSUME IInv, Linked, NEW c \in Commands, Begin(c) \/ Handle(c)
    PROVE  gateway!CallStep(c)
  <1>0. UNCHANGED vars
    BY DEF Begin, Handle
  <1>m. ASSUME at[c] # "dispatch"
        PROVE  /\ Stage(c) = at[c]
               /\ Holder' = Holder /\ CommittedCommands' = CommittedCommands
               /\ \A l : Front!Goto(c, l) => gateway!Goto(c, l)
    BY <1>0, <1>m, StageMoves
  <1>s. CASE Begin(c)
    <2>1. at[c] = "idle"
      BY <1>s DEF Begin, Front!Start
    <2>2. gateway!Start(c)
      BY <1>s, <2>1, <1>m DEF Begin, Front!Start, gateway!Start
    <2> QED BY <2>2 DEF gateway!CallStep
  <1>1. CASE Front!Get(c)
    <2>1. at[c] = "get"
      BY <1>1 DEF Front!Get
    <2>2. gateway!Get(c)
      BY <1>1, <2>1, <1>m
      DEF Front!Get, Front!Examine, Front!Finish, Front!RowOf, Front!SameRequest, Front!Raised,
          gateway!Get, gateway!Examine, gateway!Finish, gateway!RowOf, gateway!SameRequest,
          gateway!Raised
    <2> QED BY <2>2 DEF gateway!CallStep, gateway!Progress, gateway!Reserving
  <1>2. CASE Front!Reserve(c)
    <2>1. at[c] = "reserve"
      BY <1>2 DEF Front!Reserve
    <2>2. gateway!Reserve(c)
      BY <1>2, <2>1, <1>m
      DEF Front!Reserve, Front!Examine, Front!Finish, Front!RowOf, Front!SameRequest,
          Front!Raised, Front!SetRow, Front!Reservation, Front!NoResult,
          gateway!Reserve, gateway!Examine, gateway!Finish, gateway!RowOf, gateway!SameRequest,
          gateway!Raised, gateway!SetRow, gateway!Reservation, gateway!NoResult
    <2> QED BY <2>2 DEF gateway!CallStep, gateway!Progress, gateway!Reserving
  <1>3. CASE Front!Wait(c)
    <2>1. at[c] = "wait"
      BY <1>3 DEF Front!Wait
    <2>2. gateway!Wait(c)
      BY <1>3, <2>1, <1>m
      DEF Front!Wait, Front!Examine, Front!Finish, Front!RowOf, Front!SameRequest,
          Front!Raised, gateway!Wait, gateway!Examine, gateway!Finish, gateway!RowOf,
          gateway!SameRequest, gateway!Raised
    <2> QED BY <2>2 DEF gateway!CallStep, gateway!Progress, gateway!Reserving
  <1>4. CASE Front!Recover(c)
    <2>1. at[c] = "recover"
      BY <1>4 DEF Front!Recover
    <2>2. gateway!Recover(c)
      BY <1>4, <2>1, <1>m
      DEF Front!Recover, Front!CommitOnRecord, Front!Finish, Front!Raised,
          gateway!Recover, gateway!CommitOnRecord, gateway!Finish, gateway!Raised
    <2> QED BY <2>2 DEF gateway!CallStep, gateway!Progress, gateway!Reserving
  <1>5. CASE Front!RecoverFails(c)
    <2>1. at[c] = "recover"
      BY <1>5 DEF Front!RecoverFails
    <2>2. gateway!RecoverFails(c)
      BY <1>5, <2>1, <1>m
      DEF Front!RecoverFails, Front!Finish, Front!Raised, gateway!RecoverFails,
          gateway!Finish, gateway!Raised
    <2> QED BY <2>2 DEF gateway!CallStep, gateway!Progress, gateway!Reserving
  <1>6. CASE Front!Claim(c)
    <2>1. at[c] = "claim"
      BY <1>6 DEF Front!Claim
    <2>2. gateway!Claim(c)
      BY <1>6, <2>1, <1>m
      DEF Front!Claim, Front!Finish, Front!RowOf, Front!SameRequest, Front!Expired,
          Front!Raised, Front!SetRow, Front!Reservation, Front!NoResult,
          gateway!Claim, gateway!Finish, gateway!RowOf, gateway!SameRequest, gateway!Expired,
          gateway!Raised, gateway!SetRow, gateway!Reservation, gateway!NoResult
    <2> QED BY <2>2 DEF gateway!CallStep, gateway!Progress, gateway!Reserving
  <1>7. CASE Front!Release(c)
    <2>1. at[c] = "release"
      BY <1>7 DEF Front!Release
    <2>2. gateway!Release(c)
      BY <1>7, <2>1, <1>m
      DEF Front!Release, Front!Finish, Front!RowOf, Front!SameRequest, Front!Owns,
          Front!Raised, Front!SetRow, gateway!Release, gateway!Finish, gateway!RowOf,
          gateway!SameRequest, gateway!Owns, gateway!Raised, gateway!SetRow
    <2> QED BY <2>2 DEF gateway!CallStep, gateway!Progress, gateway!Dispatching
  <1>8. CASE Front!Finalize(c)
    <2>1. at[c] = "finalize"
      BY <1>8 DEF Front!Finalize
    <2>2. gateway!Finalize(c)
      BY <1>8, <2>1, <1>m
      DEF Front!Finalize, Front!Complete, Front!Finish, Front!RowOf, Front!SameRequest,
          Front!Owns, Front!Raised, Front!SetRow, gateway!Finalize, gateway!Complete,
          gateway!Finish, gateway!RowOf, gateway!SameRequest, gateway!Owns,
          gateway!Raised, gateway!SetRow
    <2> QED BY <2>2 DEF gateway!CallStep, gateway!Progress, gateway!Dispatching
  <1>9. CASE Front!Renew(c)
    <2>1. UNCHANGED at /\ at[c] \in Front!GuardPcs
      BY <1>9 DEF Front!Renew
    <2>2. /\ Holder' = Holder /\ CommittedCommands' = CommittedCommands
          /\ \A d \in Commands : Stage(d)' = Stage(d)
      BY <1>0, <2>1, StagesStay
    <2>3. Stage(c) \in gateway!GuardPcs
      BY <2>1 DEF Stage, Front!GuardPcs, gateway!GuardPcs
    <2>4. gateway!Renew(c)
      BY <1>9, <2>2, <2>3
      DEF Front!Renew, Front!RowOf, Front!SameRequest, Front!Owns, Front!SetRow,
          gateway!Renew, gateway!RowOf, gateway!SameRequest, gateway!Owns, gateway!SetRow
    <2> QED BY <2>4 DEF gateway!CallStep
  <1>10. CASE Front!StorageFails(c)
    <2>1. at[c] \in Front!StorePcs /\ at[c] # "dispatch"
      BY <1>10 DEF Front!StorageFails, Front!StorePcs
    <2>2. gateway!StorageFails(c)
      BY <1>10, <2>1, <1>m
      DEF Front!StorageFails, Front!StorePcs, Front!Complete, Front!Finish, Front!RowOf,
          Front!SameRequest, Front!Owns, Front!Raised, Front!SetRow,
          gateway!StorageFails, gateway!StorePcs, gateway!Complete, gateway!Finish,
          gateway!RowOf, gateway!SameRequest, gateway!Owns, gateway!Raised, gateway!SetRow
    <2> QED BY <2>2 DEF gateway!CallStep
  <1> QED
    BY <1>s, <1>1, <1>2, <1>3, <1>4, <1>5, <1>6, <1>7, <1>8, <1>9, <1>10 DEF Handle

(* A step of one kernel takes the lock from no other one.                  *)
LEMMA OthersHold ==
    ASSUME IInv, IInv', NEW u \in Workers, Step(u), NEW v \in Workers, v # u
    PROVE  lock' = v <=> lock = v
  BY OthersUntouched DEF IInv, LockHeld

(* The holder after a step.                                                *)
LEMMA HolderAfter ==
    ASSUME IInv'
    PROVE  /\ Holder' \in Commands \cup {NoId}
           /\ \A c \in Commands :
                 Holder' = c <=> \E w \in Workers : lock' = w /\ request'[w].cmd = c
  <1>1. lock' \in Workers \cup {NoWorker} /\ \A w \in Workers : request'[w] \in Requests
    BY DEF IInv, TypeOK
  <1>2. NoId \notin Commands /\ NoWorker \notin Workers
    BY DurableAssumption, KernelAssumption
  <1> QED BY <1>1, <1>2 DEF Holder, Requests

(* A step of a kernel is not seen in the other calls.                      *)
LEMMA OtherStages ==
    ASSUME IInv, IInv', Linked, NEW u \in Workers, Step(u), NEW d \in Commands,
           d # request[u].cmd, d # request'[u].cmd, at'[d] = at[d]
    PROVE  (Holder' = d <=> Holder = d) /\ Stage(d)' = Stage(d)
  <1>1. Holder' = d <=> Holder = d
    <2>1. \A w \in Workers : w # u => request'[w] = request[w]
      BY OthersUntouched DEF IInv
    <2> QED BY <2>1, OthersHold, HolderAfter, HolderDispatches
  <1>2. d \in CommittedCommands' <=> d \in CommittedCommands
    BY CommandsCommitted
  <1>3. IsCommitted(d)' <=> IsCommitted(d)
    BY <1>2 DEF CommittedCommands
  <1> QED BY <1>1, <1>3 DEF Stage

(* The gateway does not see what a kernel does outside of dispatch().      *)
LEMMA AsideMaps ==
    ASSUME IInv, IInv', Linked, NEW u \in Workers, Step(u), Aside(u),
           request[u].cmd \notin Commands, UNCHANGED gatewayVars
    PROVE  UNCHANGED gateway!vars
  <1>1. \A d \in Commands : (Holder' = d <=> Holder = d) /\ Stage(d)' = Stage(d)
    BY OtherStages DEF Aside, gatewayVars
  <1>2. Holder' = Holder
    BY <1>1, HolderDispatches, HolderAfter
  <1> QED BY <1>1, <1>2 DEF gateway!vars, gatewayVars, Aside

(* It does not see a call of dispatch() before that gets the lock.         *)
LEMMA CallMaps ==
    ASSUME IInv, IInv', Linked, NEW c \in Commands, Call(c)
    PROVE  UNCHANGED gateway!vars
  <1> DEFINE u == home[c]
  <1>1. u \in Workers /\ Step(u)
    BY CallKeeps
  <1>2. /\ pc[u] = "ready" /\ UNCHANGED <<journal, lock>> /\ Fresh(c)
        /\ request'[u].cmd = c /\ UNCHANGED gatewayVars
    BY <1>1 DEF Call, Dispatch, durable, IInv, TypeOK
  <1>3. request[u].cmd \notin Commands
    BY <1>1, <1>2, CallOf DEF DispatchPcs, InsidePcs, TxPcs
  <1>4. \A d \in Commands : d # c => (Holder' = d <=> Holder = d) /\ Stage(d)' = Stage(d)
    BY <1>1, <1>2, <1>3, OtherStages DEF gatewayVars
  <1>5. Holder # c /\ Holder' # c
    <2>1. lock # u
      BY <1>1, <1>2 DEF IInv, LockHeld, LockedPcs, AppendPcs, LeakPcs
    <2>2. Holder # c
      BY <1>2, HolderDispatches DEF Fresh
    <2>3. \A w \in Workers : w # u => request'[w] = request[w]
      BY <1>1, OthersUntouched DEF IInv
    <2> QED BY <1>2, <2>1, <2>2, <2>3, HolderAfter DEF Fresh
  <1>6. Holder' = Holder /\ Stage(c)' = Stage(c)
    BY <1>2, <1>4, <1>5, HolderDispatches, HolderAfter DEF Stage, gatewayVars
  <1>7. CommittedCommands' = CommittedCommands
    BY <1>2 DEF CommittedCommands, IsCommitted
  <1> QED BY <1>2, <1>4, <1>6, <1>7 DEF gateway!vars, gatewayVars

(* Inside dispatch(): it gets the lock, goes on, commits, or leaves.       *)
LEMMA DispatchMaps ==
    ASSUME IInv, IInv', Linked, NEW u \in Workers, Run(u), pc[u] \in DispatchPcs
    PROVE  gateway!CallStep(request[u].cmd) \/ UNCHANGED gateway!vars
  <1>0. request[u].cmd \in Commands /\ Step(u) /\ Progress(u)
    BY DEF IInv, TxKnowledge, DispatchPcs, Run, Step
  <1>c. PICK c \in Commands : c = request[u].cmd
    BY <1>0
  <1>l. at[c] = "dispatch" /\ home[c] = u /\ outcome[c] = "none" /\ Serves(u)
    BY <1>c, CallOf DEF Linked
  <1>o. \A w \in Workers : w # u => request[w].cmd # c /\ request'[w].cmd # c
    BY <1>c, <1>l, <1>0, CallOf, OthersUntouched DEF IInv
  <1>h. /\ Holder = c <=> pc[u] \in LockedPcs
        /\ request'[u].cmd = c => (Holder' = c <=> pc'[u] \in LockedPcs)
        /\ request'[u].cmd # c => Holder' # c
    <2>1. Holder = c <=> lock = u
      BY <1>c, <1>o, HolderDispatches
    <2>2. request'[u].cmd = c => (Holder' = c <=> lock' = u)
      BY <1>c, <1>o, HolderAfter
    <2>3. request'[u].cmd # c => Holder' # c
      BY <1>c, <1>o, HolderAfter
    <2> QED BY <2>1, <2>2, <2>3 DEF IInv, LockHeld
  <1>p. /\ DispatchPcs \ {"wait"} \subseteq LockedPcs /\ "wait" \notin LockedPcs
        /\ UncommittedPcs = DispatchPcs \ {"derive", "abort"}
        /\ {"leak", "refresh", "abort", "reject", "derive", "commit"} \subseteq DispatchPcs
        /\ "ready" \notin LockedPcs
    BY Labels DEF DispatchPcs, UncommittedPcs, InsidePcs, TxPcs
  <1>s. c \in CommittedCommands <=> IsCommitted(c)
    BY DEF CommittedCommands
  <1>s2. c \in CommittedCommands' <=> IsCommitted(c)'
    BY DEF CommittedCommands
  <1>1. CASE Enters(u)
    <2>1. /\ pc[u] = "wait" /\ pc'[u] \in LockedPcs /\ lock = NoWorker /\ request'[u].cmd = c
          /\ CommittedCommands' = CommittedCommands /\ c \notin CommittedCommands
      BY <1>1, <1>c, <1>l, <1>p DEF Enters, Serves
    <2>2. UNCHANGED <<rows, seen, result, asked, at, home>>
      BY <1>1, UntoldStays DEF Enters
    <2>3. \A d \in Commands : d # c => Stage(d)' = Stage(d)
      BY <1>0, <1>c, <2>1, <2>2, OtherStages
    <2>4. Holder = NoId /\ Holder' = c
      BY <1>h, <2>1 DEF Holder
    <2>5. Stage(c) = "dispatch" /\ Stage(c)' = "turn"
      BY <1>l, <1>h, <1>p, <1>s2, <2>1, <2>2, <2>4 DEF Stage
    <2>6. gateway!Enter(c)
      BY <2>1, <2>2, <2>3, <2>4, <2>5 DEF gateway!Enter, gateway!Goto
    <2> QED BY <1>c, <2>6 DEF gateway!CallStep, gateway!Progress, gateway!Dispatching
  <1>2. CASE GoesOn(u)
    <2>1. /\ request'[u].cmd = c /\ CommittedCommands' = CommittedCommands
          /\ pc[u] \in LockedPcs /\ pc'[u] \in LockedPcs
      BY <1>2, <1>c, <1>p DEF GoesOn
    <2>2. UNCHANGED <<rows, seen, result, asked, at, home>>
      BY <1>2, UntoldStays DEF GoesOn
    <2>3. \A d \in Commands : d # c => Stage(d)' = Stage(d)
      BY <1>0, <1>c, <2>1, <2>2, OtherStages
    <2>4. Holder = c /\ Holder' = c
      BY <1>h, <2>1
    <2>5. Stage(c)' = Stage(c)
      BY <1>s, <1>s2, <2>1, <2>2, <2>4 DEF Stage
    <2> QED BY <2>1, <2>2, <2>3, <2>4, <2>5 DEF gateway!vars
  <1>3. CASE Commits(u)
    <2>1. /\ request'[u].cmd = c /\ CommittedCommands' = CommittedCommands \cup {c}
          /\ pc[u] = "commit" /\ pc'[u] \in {"derive", "abort"} /\ UNCHANGED outcome
          /\ c \notin CommittedCommands
      BY <1>0, <1>3, <1>c, <1>l, <1>p, CommandsCommitted
      DEF Commits, WriteMarker, Serves
    <2>2. UNCHANGED <<rows, seen, result, asked, at, home>>
      BY <2>1, UntoldStays
    <2>3. \A d \in Commands : d # c => Stage(d)' = Stage(d)
      BY <1>0, <1>c, <2>1, <2>2, OtherStages
    <2>4. Holder = c /\ Holder' = c
      BY <1>h, <1>p, <2>1
    <2>5. Stage(c) = "turn" /\ Stage(c)' = "committed"
      BY <1>l, <1>s, <1>s2, <2>1, <2>2, <2>4 DEF Stage
    <2>6. gateway!Commit(c)
      BY <2>1, <2>2, <2>3, <2>4, <2>5 DEF gateway!Commit, gateway!Goto
    <2> QED BY <1>c, <2>6 DEF gateway!CallStep, gateway!Progress, gateway!Dispatching
  <1>4. CASE Leaves(u)
    <2>1. Hears(c) /\ UNCHANGED <<rows, seen, asked, home>>
      BY <1>0, <1>c, <1>4, LeavesHeard DEF Run
    <2>2. PICK l \in {"finalize", "release"} : at' = [at EXCEPT ![c] = l]
      BY <2>1 DEF Hears
    <2>3. at'[c] = l /\ \A d \in Commands : d # c => at'[d] = at[d]
      BY <2>2 DEF Linked
    <2>4. request'[u].cmd \notin Commands /\ pc'[u] = "ready"
      BY <1>4, DurableAssumption DEF Leaves, Answers, NoRequest
    <2>5. \A d \in Commands : d # c => (Holder' = d <=> Holder = d) /\ Stage(d)' = Stage(d)
      BY <1>0, <1>c, <2>3, <2>4, OtherStages
    <2>6. Stage(c)' = l
      BY <2>3 DEF Stage
    <2>7. gateway!Goto(c, l)
      BY <2>5, <2>6 DEF gateway!Goto
    <2>8. Holder' # c /\ CommittedCommands' = CommittedCommands
      BY <1>4, <1>c, <1>h, <2>4 DEF Leaves
    <2>9. Holder' = IF Holder = c THEN NoId ELSE Holder
      BY <2>5, <2>8, HolderDispatches, HolderAfter
    <2>10. outcome'[c] \in {"success", "blocked", "failed"}
      BY <1>c, <1>4 DEF Leaves, Answers, IInv, TypeOK
    <2>11. CASE outcome'[c] = "failed"
      <3>1. l = "release" /\ UNCHANGED result
        BY <2>1, <2>2, <2>3, <2>11 DEF Hears, Linked
      <3>2. pc[u] \in {"wait", "leak", "refresh", "abort"}
        BY <1>c, <1>4, <2>11 DEF Leaves, Answers, IInv, TypeOK
      <3>3. CASE pc[u] = "wait"
        <4>1. Holder # c /\ Stage(c) = "dispatch"
          BY <1>l, <1>h, <1>p, <3>3 DEF Stage
        <4>2. gateway!LockTimeout(c)
          BY <2>1, <2>7, <2>8, <2>9, <3>1, <4>1 DEF gateway!LockTimeout
        <4> QED BY <1>c, <4>2 DEF gateway!CallStep, gateway!Progress, gateway!Dispatching
      <3>4. CASE pc[u] # "wait"
        <4>1. Holder = c /\ Stage(c) \in {"turn", "committed"}
          BY <1>l, <1>h, <1>p, <3>2, <3>4 DEF Stage
        <4>2. Stage(c) = "committed" => LateFault
          BY <1>c, <1>l, <1>s, <1>p, <3>2, <3>4 DEF Stage, Serves
        <4>3. gateway!Fail(c)
          BY <2>1, <2>7, <2>8, <2>9, <3>1, <4>1, <4>2 DEF gateway!Fail
        <4> QED BY <1>c, <4>3 DEF gateway!CallStep, gateway!Progress, gateway!Dispatching
      <3> QED BY <3>3, <3>4
    <2>12. CASE outcome'[c] # "failed"
      <3>1. /\ l = "finalize"
            /\ result' = [result EXCEPT ![c] =
                  [cmd    |-> c,
                   status |-> IF outcome'[c] = "success" THEN "SUCCESS" ELSE "BLOCKED"]]
        BY <2>1, <2>2, <2>3, <2>12 DEF Hears, Linked
      <3>2. \/ pc[u] = "derive" /\ outcome'[c] = "success"
            \/ pc[u] = "reject" /\ outcome'[c] = "blocked"
        BY <1>c, <1>4, <2>12 DEF Leaves, Answers, IInv, TypeOK
      <3>3. /\ Holder = c
            /\ Stage(c) = IF outcome'[c] = "success" THEN "committed" ELSE "turn"
        BY <1>c, <1>l, <1>h, <1>p, <1>s, <3>2 DEF Stage, Serves
      <3>4. gateway!Return(c)
        BY <2>1, <2>7, <2>8, <2>9, <3>1, <3>2, <3>3 DEF gateway!Return
      <3> QED BY <1>c, <3>4 DEF gateway!CallStep, gateway!Progress, gateway!Dispatching
    <2> QED BY <2>11, <2>12
  <1> QED BY <1>0, <1>1, <1>2, <1>3, <1>4, StepsInside

LEMMA RunMaps ==
    ASSUME IInv, IInv', Linked, NEW u \in Workers, Run(u)
    PROVE  gateway!Next \/ UNCHANGED gateway!vars
  <1>0. Step(u) /\ Progress(u)
    BY DEF Run, Step
  <1>1. CASE pc[u] \in DispatchPcs
    <2>1. request[u].cmd \in Commands
      BY <1>1 DEF IInv, TxKnowledge, DispatchPcs
    <2> QED BY <1>1, <2>1, DispatchMaps DEF gateway!Next
  <1>2. CASE pc[u] \notin DispatchPcs
    <2>1. request[u].cmd \notin Commands
      BY <1>2, CallOf
    <2>2. Aside(u)
      BY <1>0, <1>2, <2>1, StepsAside
    <2>3. UNCHANGED gatewayVars
      BY <2>2, UntoldStays DEF Aside, gatewayVars
    <2> QED BY <1>0, <2>1, <2>2, <2>3, AsideMaps
  <1> QED BY <1>1, <1>2

(* With a process dies the call it serves, if it serves one.               *)
LEMMA KillMaps ==
    ASSUME IInv, IInv', Linked, NEW u \in Workers, KillProcess(u)
    PROVE  gateway!Next \/ UNCHANGED gateway!vars
  <1>1. Step(u) /\ Crash(u) /\ UNCHANGED <<rows, seen, result, asked, home>>
    BY DEF KillProcess, Step
  <1>2. /\ at' = [c \in Commands |-> IF Active(c) /\ home[c] = u THEN "dead" ELSE at[c]]
        /\ lock' = IF lock = u THEN NoWorker ELSE lock
    BY <1>1 DEF KillProcess, Crash
  <1>3. request'[u].cmd \notin Commands
    BY <1>1, DurableAssumption DEF Crash, Forget, NoRequest, IInv, TypeOK
  <1>4. CommittedCommands' = CommittedCommands
    BY <1>1 DEF Crash, CommittedCommands, IsCommitted
  <1>5. ASSUME NEW c \in Commands, Active(c), home[c] = u PROVE gateway!Next
    <2>1. \A d \in Commands : d # c => at'[d] = at[d] /\ d # request[u].cmd
      BY <1>2, <1>5, CallOf DEF Linked, OneCall
    <2>2. \A d \in Commands : d # c => (Holder' = d <=> Holder = d) /\ Stage(d)' = Stage(d)
      BY <1>1, <1>3, <2>1, OtherStages
    <2>3. at'[c] = "dead" /\ Stage(c)' = "dead"
      BY <1>2, <1>5 DEF Stage
    <2>4. gateway!Goto(c, "dead")
      BY <2>2, <2>3 DEF gateway!Goto
    <2>5. Stage(c) \notin {"idle", "done", "dead"}
      BY <1>5 DEF Stage, Active
    <2>6. Holder' # c
      BY <1>1, <1>2, <1>3, <1>5, HolderAfter, CallOf, OthersUntouched DEF IInv
    <2>7. Holder' = IF Holder = c THEN NoId ELSE Holder
      BY <2>2, <2>6, HolderDispatches, HolderAfter
    <2>8. gateway!Crash(c)
      BY <1>1, <1>4, <2>4, <2>5, <2>7 DEF gateway!Crash
    <2> QED BY <2>8 DEF gateway!Next, gateway!CallStep
  <1>6. CASE \A c \in Commands : Active(c) => home[c] # u
    <2>1. request[u].cmd \notin Commands
      BY <1>6, CallOf
    <2>2. \A d \in Commands : at'[d] = at[d]
      BY <1>2, <1>6
    <2>3. \A d \in Commands : (Holder' = d <=> Holder = d) /\ Stage(d)' = Stage(d)
      BY <1>1, <1>3, <2>1, <2>2, OtherStages
    <2>4. Holder' = Holder
      BY <2>3, HolderDispatches, HolderAfter
    <2> QED BY <1>1, <1>4, <2>3, <2>4 DEF gateway!vars
  <1> QED BY <1>5, <1>6

-----------------------------------------------------------------------------
\* The gateway behind the processes, with what is proved about it.
Behind == INSTANCE GatewayProofs WITH
    Calls <- Commands, NoCall <- NoId, LateFaults <- LateFault,
    committed <- CommittedCommands, lock <- Holder,
    pc <- [c \in Commands |-> Stage(c)], request <- asked

(* What Gateway assumes of its constants.                                  *)
LEMMA BehindAssumed == Behind!GatewayAssumption /\ Behind!NoRowAssumption
  <1>1. Behind!GatewayAssumption
    BY CompositionAssumption, DurableAssumption DEF Behind!GatewayAssumption, LateFault
  <1>2. Behind!NoRowAssumption
    BY CompositionAssumption
    DEF Behind!NoRowAssumption, Behind!Row, Behind!Results, Behind!NoResult,
        Front!Row, Front!Results, Front!NoResult
  <1> QED BY <1>1, <1>2

(* It is the gateway of the properties.                                    *)
LEMMA BehindSteps ==
    /\ gateway!Init => Behind!Init
    /\ [gateway!Next]_(gateway!vars) => [Behind!Next]_(Behind!vars)
  <1> USE DEF gateway!Goto, gateway!Finish, gateway!RowOf, gateway!SetRow, gateway!SameRequest,
              gateway!Owns, gateway!Expired, gateway!Reservation, gateway!Examine,
              gateway!Raised, gateway!NoResult, gateway!GuardPcs, gateway!Complete,
              gateway!CommitOnRecord, gateway!StorePcs,
              Behind!Goto, Behind!Finish, Behind!RowOf, Behind!SetRow, Behind!SameRequest,
              Behind!Owns, Behind!Expired, Behind!Reservation, Behind!Examine,
              Behind!Raised, Behind!NoResult, Behind!GuardPcs, Behind!Complete,
              Behind!CommitOnRecord, Behind!StorePcs
  <1>1. gateway!Init => Behind!Init
    BY DEF gateway!Init, gateway!Request, Behind!Init, Behind!Request
  <1>2. ASSUME NEW c \in Commands, gateway!CallStep(c) PROVE Behind!Next
    <2>1. gateway!Start(c) => Behind!Start(c)
      BY DEF gateway!Start, Behind!Start
    <2>2. gateway!Get(c) => Behind!Get(c)
      BY DEF gateway!Get, Behind!Get
    <2>3. gateway!Reserve(c) => Behind!Reserve(c)
      BY DEF gateway!Reserve, Behind!Reserve
    <2>4. gateway!Wait(c) => Behind!Wait(c)
      BY DEF gateway!Wait, Behind!Wait
    <2>5. gateway!Recover(c) \/ gateway!RecoverFails(c) => Behind!Recover(c) \/ Behind!RecoverFails(c)
      BY DEF gateway!Recover, Behind!Recover, gateway!RecoverFails, Behind!RecoverFails
    <2>6. gateway!Claim(c) => Behind!Claim(c)
      BY DEF gateway!Claim, Behind!Claim
    <2>7. gateway!Enter(c) \/ gateway!LockTimeout(c) => Behind!Enter(c) \/ Behind!LockTimeout(c)
      BY DEF gateway!Enter, Behind!Enter, gateway!LockTimeout, Behind!LockTimeout
    <2>8. gateway!Commit(c) \/ gateway!Fail(c) => Behind!Commit(c) \/ Behind!Fail(c)
      BY DEF gateway!Commit, Behind!Commit, gateway!Fail, Behind!Fail
    <2>9. gateway!Return(c) => Behind!Return(c)
      BY DEF gateway!Return, Behind!Return
    <2>10. gateway!Release(c) => Behind!Release(c)
      BY DEF gateway!Release, Behind!Release
    <2>11. gateway!Finalize(c) => Behind!Finalize(c)
      BY DEF gateway!Finalize, Behind!Finalize
    <2>12. gateway!Renew(c) \/ gateway!Crash(c) => Behind!Renew(c) \/ Behind!Crash(c)
      BY DEF gateway!Renew, Behind!Renew, gateway!Crash, Behind!Crash
    <2>13. gateway!StorageFails(c) => Behind!StorageFails(c)
      BY DEF gateway!StorageFails, Behind!StorageFails
    <2> QED
      BY <1>2, <2>1, <2>2, <2>3, <2>4, <2>5, <2>6, <2>7, <2>8, <2>9, <2>10, <2>11, <2>12,
         <2>13
      DEF gateway!CallStep, gateway!Progress, gateway!Reserving, gateway!Dispatching,
          Behind!Next, Behind!CallStep, Behind!Progress, Behind!Reserving, Behind!Dispatching
  <1>3. ASSUME NEW k \in Keys, gateway!Expire(k) PROVE Behind!Next
    BY <1>3
    DEF gateway!Expire, gateway!Claiming, Behind!Next, Behind!Expire, Behind!Claiming
  <1>4. UNCHANGED gateway!vars => UNCHANGED Behind!vars
    BY DEF gateway!vars, Behind!vars
  <1> QED BY <1>1, <1>2, <1>3, <1>4 DEF gateway!Next

LEMMA ExpireMaps ==
    ASSUME IInv, Linked, Behind!AgreeInv, NEW k \in Keys, LeaseRunsOut(k)
    PROVE  gateway!Next
  <1>1. UNCHANGED vars /\ Front!Expire(k) /\ UNCHANGED at
    BY DEF LeaseRunsOut, Front!Expire
  <1>2. /\ Holder' = Holder /\ CommittedCommands' = CommittedCommands
        /\ \A c \in Commands : Stage(c)' = Stage(c)
    BY <1>1, StagesStay
  <1>3. rows[k] # NoRow => rows[k].owner \in Commands
    BY DEF Behind!AgreeInv, Behind!TypeOK, Behind!Row
  <1>4. \A c \in Commands, p \in {"recover", "claim", "dead", "done"} : at[c] = p <=> Stage(c) = p
    BY DEF Stage
  <1>5. gateway!Claiming(k) => Front!Claiming(k)
    BY <1>4 DEF gateway!Claiming, Front!Claiming
  <1>6. gateway!Expire(k)
    BY <1>1, <1>2, <1>3, <1>4, <1>5 DEF Front!Expire, gateway!Expire
  <1> QED BY <1>6 DEF gateway!Next

(* Every step of the processes is one of the gateway, or hidden from it.   *)
LEMMA NextMaps ==
    ASSUME IInv, IInv', Linked, Behind!AgreeInv, [SystemNext]_systemVars
    PROVE  [gateway!Next]_(gateway!vars)
  <1>1. ASSUME NEW c \in Commands, Begin(c) \/ Handle(c) PROVE gateway!Next
    BY <1>1, HandleMaps DEF gateway!Next
  <1>2. ASSUME NEW c \in Commands, Call(c) PROVE UNCHANGED gateway!vars
    BY <1>2, CallMaps
  <1>3. ASSUME NEW w \in Workers, Run(w) \/ KillProcess(w)
        PROVE  gateway!Next \/ UNCHANGED gateway!vars
    BY <1>3, RunMaps, KillMaps
  <1>4. ASSUME NEW w \in Workers, BootProcess(w) \/ EndProcess(w)
        PROVE  UNCHANGED gateway!vars
    <2>1. UNCHANGED gatewayVars
      BY <1>4 DEF BootProcess, EndProcess
    <2> QED BY <1>4, <2>1, BootAside, AsideMaps
  <1>5. ASSUME NEW k \in Keys, LeaseRunsOut(k) PROVE gateway!Next
    BY <1>5, ExpireMaps
  <1>6. CASE UNCHANGED systemVars
    <2>1. UNCHANGED vars /\ UNCHANGED at /\ UNCHANGED gatewayVars
      BY <1>6 DEF systemVars, gatewayVars
    <2> QED BY <2>1, StagesStay DEF gateway!vars, gatewayVars
  <1> QED BY <1>1, <1>2, <1>3, <1>4, <1>5, <1>6 DEF SystemNext

(* At the start every call is where the gateway has it, and nothing is     *)
(* linked.                                                                 *)
LEMMA InitMaps == SystemInit => IInv /\ Linked /\ gateway!Init
  <1> SUFFICES ASSUME SystemInit PROVE IInv /\ Linked /\ gateway!Init
    OBVIOUS
  <1>1. Init /\ IInv
    BY InitIInv DEF SystemInit
  <1>2. at = [c \in Commands |-> "idle"] /\ home = [c \in Commands |-> NoWorker]
    BY DEF SystemInit, Front!Init
  <1>3. Holder = NoId /\ CommittedCommands = {}
    BY <1>1 DEF Init, Holder, CommittedCommands, IsCommitted
  <1>4. \A w \in Workers : pc[w] = "down" /\ request[w].cmd = NoId
    BY <1>1 DEF Init, NoRequest
  <1>5. \A w \in Workers : Serves(w)
    BY <1>4, DurableAssumption DEF Serves, UncommittedPcs, DispatchPcs, InsidePcs, TxPcs
  <1>6. Linked
    BY <1>2, <1>5 DEF Linked, OneCall, Active, Places, Front!Pcs
  <1>7. \A c \in Commands : Stage(c) = "idle"
    BY <1>2 DEF Stage
  <1>8. gateway!Init
    BY <1>3, <1>7
    DEF SystemInit, Front!Init, Front!Request, Front!NoResult,
        gateway!Init, gateway!Request, gateway!NoResult
  <1> QED BY <1>1, <1>6, <1>8

(* What holds in every reachable state of the processes, and what their    *)
(* steps are.                                                              *)
LEMMA SystemSteps ==
    SystemSpec => Spec /\ gateway!Spec /\ Behind!Spec /\ []Linked
  <1> DEFINE SInv == IInv /\ Linked /\ Behind!AgreeInv
  <1>1. SystemInit => Init /\ SInv /\ gateway!Init /\ Behind!Init
    <2>1. Behind!Init => Behind!AgreeInv
      BY Behind!InitAgree, BehindAssumed
    <2> QED BY InitMaps, BehindSteps, <2>1 DEF SystemInit
  <1>2. SInv /\ [SystemNext]_systemVars
        => /\ SInv'
           /\ [Next]_vars /\ [gateway!Next]_(gateway!vars) /\ [Behind!Next]_(Behind!vars)
    <2> SUFFICES ASSUME IInv, Linked, Behind!AgreeInv, [SystemNext]_systemVars
                 PROVE  /\ SInv' /\ [Next]_vars
                        /\ [gateway!Next]_(gateway!vars) /\ [Behind!Next]_(Behind!vars)
      OBVIOUS
    <2>1. [Next]_vars /\ IInv' /\ Linked'
      BY KernelMoves, NextIInv, NextLinked
    <2>2. [gateway!Next]_(gateway!vars)
      BY <2>1, NextMaps
    <2>3. [Behind!Next]_(Behind!vars)
      BY <2>2, BehindSteps
    <2>4. Behind!AgreeInv'
      BY <2>3, Behind!NextAgree, BehindAssumed
    <2> QED BY <2>1, <2>2, <2>3, <2>4
  <1> QED BY <1>1, <1>2, PTL DEF SystemSpec, Spec, gateway!Spec, Behind!Spec

(* What execute() does to the kernels is what RuntimeKernel lets happen to *)
(* them: every theorem about it holds for the kernels of the processes.    *)
THEOREM SystemRunsKernels == SystemSpec => Spec
  BY SystemSteps, PTL

(* The processes implement the gateway: however their kernels interleave,  *)
(* fail and die, every step of theirs is a step of Gateway or hidden from  *)
(* it.                                                                     *)
THEOREM SystemImplementsGateway == SystemSpec => ImplementsGateway
  BY SystemSteps, PTL DEF ImplementsGateway

(* All callers of a key that get a result get the same one, whatever their *)
(* kernels do and whoever stalls.                                          *)
THEOREM SystemRepliesAgree == SystemSpec => []RepliesAgree
  <1>1. Behind!Spec => []Behind!RepliesAgree
    BY Behind!AnswersAgree, BehindAssumed
  <1>2. Behind!RepliesAgree => RepliesAgree
    BY DEF RepliesAgree, gateway!RepliesAgree, gateway!Answered, gateway!Results,
           Behind!RepliesAgree, Behind!Answered, Behind!Results
  <1> QED BY SystemSteps, <1>1, <1>2, PTL

(* No process changes or removes a finished reservation.                   *)
THEOREM SystemKeepsFinished == SystemSpec => CompleteIsFinal
  <1>1. Behind!Spec => Behind!CompleteIsFinal
    BY Behind!FinishedStays, BehindAssumed
  <1>2. Behind!CompleteIsFinal => CompleteIsFinal
    BY DEF CompleteIsFinal, gateway!CompleteIsFinal, gateway!vars,
           Behind!CompleteIsFinal, Behind!vars
  <1> QED BY SystemSteps, <1>1, <1>2, PTL

(* Where nobody outlasts a lease and no exception follows a TX_COMMIT, the *)
(* journal that all processes share has one TX_COMMIT at most for a key,   *)
(* however often the request is repeated and whichever processes die.      *)
THEOREM SystemExecutesOnce ==
    ASSUME Stalls = {}, NoLateFault
    PROVE  SystemSpec => []OneTransactionPerKey
  <1>1. Behind!Timely
    BY DEF NoLateFault, Behind!Timely
  <1>2. Behind!Spec => []Behind!OneCommitPerKey
    BY <1>1, Behind!KeyExecutedOnce, BehindAssumed
  <1>3. Spec => [](CommitClosesAlone /\ IInv)
    BY CommitsStand, InductiveInvariant, PTL
  <1>4. Behind!OneCommitPerKey /\ CommitClosesAlone /\ IInv /\ Named => OneTransactionPerKey
    <2> SUFFICES ASSUME Behind!OneCommitPerKey, CommitClosesAlone, Named, IInv,
                        NEW i \in DOMAIN journal, NEW j \in DOMAIN journal,
                        journal[i].type = "TX_COMMIT", journal[j].type = "TX_COMMIT",
                        asked[journal[i].cmd].key = asked[journal[j].cmd].key
                 PROVE  i = j
      BY DEF OneTransactionPerKey
    <2>1. journal[i].cmd \in CommittedCommands /\ journal[j].cmd \in CommittedCommands
      BY DEF Named, CommitPositions, CommitTypes, CommittedCommands, IsCommitted
    <2>2. journal[i].cmd = journal[j].cmd
      BY <2>1 DEF Behind!OneCommitPerKey
    <2> QED BY <2>2 DEF CommitClosesAlone, Closed
  <1>5. Spec => []Named
    BY FaithfulHolds, PTL DEF Faithful
  <1> QED BY SystemSteps, <1>2, <1>3, <1>4, <1>5, PTL

(* On the same conditions, what execute() answers is true of the journal   *)
(* that all processes share: SUCCESS exactly when the command that ran has *)
(* its TX_COMMIT; conflict, busy, refused and failed only when the call    *)
(* has none.  (An error of the reservation store says nothing of it.)      *)
THEOREM SystemAnswersTruthful ==
    ASSUME Stalls = {}, NoLateFault
    PROVE  SystemSpec => [](gateway!RepliesTruthful /\ gateway!ErrorsTruthful)
  <1>1. Behind!Timely
    BY DEF NoLateFault, Behind!Timely
  <1>2. Behind!Spec => [](Behind!RepliesTruthful /\ Behind!ErrorsTruthful)
    BY <1>1, Behind!RepliesHold, Behind!ErrorsHold, BehindAssumed, PTL
  <1>3. Behind!RepliesTruthful /\ Behind!ErrorsTruthful
        => gateway!RepliesTruthful /\ gateway!ErrorsTruthful
    BY DEF gateway!RepliesTruthful, gateway!ErrorsTruthful, gateway!Answered, gateway!Results,
           Behind!RepliesTruthful, Behind!ErrorsTruthful, Behind!Answered, Behind!Results
  <1> QED BY SystemSteps, <1>2, <1>3, PTL
=============================================================================
