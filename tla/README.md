# Fred-OS: a TLA+ verification development

This directory holds the TLA+ specifications of Fred-OS, the TLC instances that
model-check them, and the TLAPS proofs about its parts. Every
definition is translated from the Python source; `PROJECT.json` (`map`) names the
lines each one stands for. Paths below are relative to `src/src/fred_os/`, unless
they begin with `systemos/`, `docs/` or `config/`.

## 1. The system and its components

Fred-OS is a "cognitive runtime": several worker processes, each with a
`RuntimeKernel` of its own, execute commands (turns of text) against one shared,
durable state. A command passes a governance gate, is routed to a list of
systems S1..S13, is recorded in a temporal memory, and is committed as a new
immutable capsule. A gateway in front makes repeated requests idempotent.

| component | state it keeps | operations | hard behaviour | what makes it correct |
|---|---|---|---|---|
| transactional kernel (`runtime/kernel.py`) | current capsule, live temporal sphere | boot, dispatch, abort, reconcile, shutdown | several processes; exceptions and deaths at any step; stale state after waiting for the lock | one chain of commits; the caller is told the truth; no turn lost or kept by mistake; always answered |
| journal and capsule store (`runtime/journal.py`, `runtime/state.py`) | two append-only files | append an entry (read the tail, then write), append a capsule, find authority | the append is not atomic; two definitions of "latest"; half-written lines | the hash chain is intact; both definitions agree |
| inter-process lock (`runtime/locking.py`) | `flock` on a file | acquire with deadline, release | timeouts; release on every error path | exclusion; always given back |
| command gateway (`gateway/gateway.py`) | locals of one `execute()` | reserve, wait, recover, dispatch, finalize, release | retries, races for one key, deaths between commit and finalize | one execution for each key; truthful replies and errors |
| idempotency store (`gateway/idempotency.py`) | table of reservations with leases | reserve, claim, renew (heartbeat thread), finalize, release | a lease that runs out under a live owner; check then act over several transactions | leases respected; completed rows final |
| turn gate (`runtime/routing.py`, `governance.py`, `task_competency.py`, `_execute_turn` of the kernel) | locals of one turn | pre-scan, S1, route, readiness report, authorization, run, S13 gate | three reports merged into one code; readiness that is stale when used; tables of configuration | fail closed; recorded turns are whole |
| registry and configuration (`runtime/registry.py`, `config.py`, `invariants.py`, `systems/adapters.py`) | systems, their order and health; frozen configuration | resolve, instantiate, health, capability report, boot check | dependencies met from several sides, cycles, contradictory tables | systems start after what they depend on; cycles and only cycles are refused; what boots can run |
| task planner (`runtime/task_planning.py`) | none; writes the plan of a turn | plan | made from the report, beside the layer that decides | the plan the systems are shown is the turn that happens |
| temporal sphere (`temporal/temporal_sphere.py`) | working, contextual, compressed and episodic memory, commitments, evidence | record_turn, capture and hydrate, context packets | windows and lengths at their limits; restart against carrying on; links made after the commit | no turn lost or doubled; a restart changes nothing; no shard is forgotten unlinked |
| memory lake (`artifact_store.py`, `semantic_memory.py`) | SQLite tables of revisions, fragments, links, audit events | ingest, search, link | implicit transactions, partial failure, lock errors | history kept; revisions whole; one audit chain |
| repository pipeline (`systemos/repository_pipeline/`) | one run | bind, map, refine, validate, release | an adapter that may answer anything | only governed artifacts are released |
| MCP adapter and authorization (`mcp/`, `gateway/auth.py`) | the order of calls in a process | tool calls to gateway commands | idempotency keys from request ids; one call at a time in a process, several processes | within a connection, two request ids of different spellings never share an execution; every call is answered or refused |
| S1 text analysis, dream protocol, contracts, provenance, observability, CLI, the old prototype | none that matters | pure functions and I/O | none | not modelled, see section 8 |

**Interactions.** The MCP adapter turns a tool call into one `execute()` of the
gateway, under a lock of its process. The gateway calls `dispatch()` of the kernel in its own process
and reads the journal under the kernel's lock when it recovers a key. The kernel
runs the turn gate inside a transaction and records the turn in its temporal
sphere; the sphere is captured into the capsule that is committed and hydrated
from it on a boot, a rollback, or when another worker has committed. Links from
memory-lake fragments to shards of the sphere are derived after the commit. The
workers share the two files, the SQLite databases and the lock, and nothing else.

## 2. Modules

| module | what it is |
|---|---|
| `DurableState` | capsules, journal entries, and what is read off the two files; no variables |
| `RuntimeKernel` | workers over those files and the lock; the module the project is about |
| `Ledger` | abstract: one history of committed capsules, without workers, files or locks |
| `RuntimeKernelRefinement` | the mapping: the capsules of the commit markers, in file order, are the ledger's history |
| `RuntimeKernelProofs` | inductive invariants and safety theorems of `RuntimeKernel`, its refinement, and the composition under the gateway |
| `Gateway` | concurrent calls of `execute()` over the reservation table, leases, deaths |
| `GatewayProofs` | inductive invariant and theorems of `Gateway` |
| `GatewayOverKernel` | composition: calls of `Gateway` in processes that each have a kernel of `RuntimeKernel`; every theorem about it is in `RuntimeKernelProofs` |
| `McpAdapter` | tool calls of several connections and processes; extends `Gateway` and drives its actions |
| `McpAdapterProofs` | the adapter implements `Gateway`; its theorems |
| `SystemRegistry` | the depth-first search of `resolve()`, instantiation and health |
| `SystemRegistryProofs` | its inductive invariant, boot order, cycles |
| `TurnGate` | the inside of one turn with its plan, the boot check of a configuration, and an instance of `SystemRegistry` |
| `TurnGateProofs` | fail-closed turns for every configuration; the course of a turn; the registry's theorems carried into the kernel |
| `TemporalSphere` | the memories, capsules passed between workers, and the links of committed shards |
| `TemporalSphereProofs` | what one turn does to a whole sphere; its theorems |
| `MemoryLake` | the artifact store over SQLite's locks and implicit transactions |
| `MemoryLakeProofs` | what the statements of a method do to sound tables; its theorems |
| `RepositoryPipeline` | one run with an arbitrary adapter |
| `RepositoryPipelineProofs` | released artifacts are governed |
| `MC*` | TLC instances of the above |

### RuntimeKernel and DurableState

`pc` of a worker follows `boot()` and `_dispatch_locked()` statement by statement
wherever another process, a crash or an exception can come in between:
`boot_wait, boot_read, genesis_store, genesis_commit, boot_rewait, boot_refresh`
and `wait, refresh, start, execute, delta, cas, store, commit, derive`, with
`abort` (the `except` clause) and `reject` (`_abort_rejected`). `append_entry()`
is two steps, `ReadTail` and the write, since the code reads the whole file for
the last hash and then opens it again to append; the hash chain is therefore
something the lock has to protect, not something true by construction.

`store` is a set and `journal` a sequence. A capsule id in the code is a hash of
the content; the model compares capsules where the code compares ids, and names a
parent by the one part of the content that no other capsule shares (the uuid of
the command, the session of a genesis). `temporal` is the list of recorded turns;
`TemporalSphere` models what is inside. `_execute_turn()` is one step with three
outcomes (recorded, rejected, raised), which `TurnGate` opens up.

`FaultPoints` says where the code may raise: on the way out of `acquire()`, with
the `flock` taken and its metadata unwritten (`lock`), in the turn (`execute`), in
`_abort_rejected()` (`reject`), the capture and the append of the delta (`delta`),
the capsule append (`store`), the append of `TX_COMMIT` with nothing written
(`commit`) or with its line in the file (`marker`: the `fsync` fails), or behind it
(`derive`: derived links, event log, building the result). `marker` and `derive` are
the late faults (`LateFault`). `Raise` is an exception with nothing written,
`RaiseWritten` one of an append before the marker whose line is in the file, or of
the event that `_abort_rejected()` emits behind its `TX_ABORT`, still inside the
`try`; then the `except` clause appends a second `TX_ABORT`. `MarkerRaises` is the
append of the marker that raises with the marker written: `current_capsule` is not
assigned, the sphere is rolled back, and `TX_ABORT` follows a commit that stands.
`TornWrites` says
whether a death in the middle of `write()` may leave half a line. `Crash` is a
death at any point; the operating system frees the `flock`. An exception of
`acquire()` leaves `_handle` unset, so no `release()` follows: the lock is leaked
(`AcquireFails`) until the exception's frames, and the file in them, are gone
(`DropHandle`). `KeyboardInterrupt` and `SystemExit`, which pass by the `except`
clause, end the process: in the files they leave what `Crash` leaves.

`reconcile_wal()` and `reconcile_committed_derivations()` only append events and
links, which this module does not keep. `config_hash` is checked once per boot
against a constant. Not modelled: exceptions of the append of `TX_START`, which lies
before the `try` (with its line written or not), of the appends of `boot()`, and of the
append inside the `except` clause; and a process that lives on with half a line in a file
(a full disk), which is `torn` here only when its process dies.

A command is one call of `dispatch()`. The gateway draws a uuid for its id unless its
caller supplies one; the two are then different commands of the model with one id in the
files. `uncommitted_transactions()` goes by that id, so dispatches that share one are
closed together there; what depends on it is an event that `reconcile_wal()` appends.

### Gateway

One call is one `execute()` after authentication and validation. Each SQLite
transaction or statement is one step: `get`, `reserve`, `wait`, `recover`,
`claim`, `dispatch`, `turn`, `committed`, `release`, `finalize`. Of the kernel,
only the lock and the commit are left. Time is one bit of a row, `leased`, which
`Expire` clears and the heartbeat (`Renew`) sets. The owner token is a fresh uuid of
every call, so a row's `owner` is the call itself. The command id is `request.id`: the
caller may supply one (`gateway.py` line 63), and calls may then share it; it is named by
one of the calls that do. It is stored with the owner, and `_recover_pending()` looks for
it in the journal (`CommitOnRecord`).

`StorageFails` is an error of SQLite in any statement: `execute()` raises it from
wherever it is. `get()`, `reserve_owned()`, `wait_for_change()` and `claim_if_expired()`
leave the row as it was; so does `release_owned()`, whose row stays `PENDING` under a live
process until the lease runs out; and `finalize_owned()`, called outside the `try`, leaves
a row that is `PENDING`, or `COMPLETE` when the second read fails behind the commit of the
first. An error there comes out of `execute()` for a command that is committed, so
`ErrorsTruthful` claims nothing of errors of the store, nor of lost ownership. What does
hold is that such a key is not executed again: the row is complete, or its lease runs out
and recovery finds the commit. A statement or a `COMMIT` that raises is taken as undone.
An error of a renewal ends the heartbeat, which is what `Stalls` has for an owner.

`Keys` are the keys of one caller: the table is keyed by caller and key. The journal is
not: `_recover_pending()` compares key and command id but no caller, so another caller
with the same key who supplies the same command id could be refused; that is left out.

The environment is named by two constants. `Stalls` lists who may outlast a
lease: `owner` (a suspended process or a heartbeat that failed), `waiter` (between
reading the row and looking at the clock), `claimer` (between the journal and the
claim). `LateFaults` says whether `dispatch()` may raise after its `TX_COMMIT`.
`TX_ABORT` entries carry no idempotency key and no `command_result` is journaled,
so of `_recover_pending()` two branches remain: refuse or go on to claim.
`LockTimeout` and `RecoverFails` need no holder among the calls: a process that boots
holds the same lock.

### GatewayOverKernel

`Gateway` has a picture of the kernel: who is in the lock section, and which commands
have committed. Here both are read from the kernel itself. The composition has the
variables of `RuntimeKernel` and those of `Gateway` other than `lock` and `committed`;
`Front` is `Gateway` with `lock` instantiated by the command of the worker that holds
the runtime lock (`Holder`) and `committed` by what the journal says
(`CommittedCommands`). A process is a worker with one call (`home`). `Handle` is a step
of `execute()` outside of `dispatch()`; `Call` enters `dispatch()`; `Run` is any step of
a kernel, and if that step answers, the call `Hears` it; `KillProcess` takes the kernel
and its call. `_recover_pending()` takes the runtime lock as well, so `Recover` waits for
`lock = NoWorker`, and fails if another keeps it, if `acquire()` raises, or if the files
cannot be read.

### McpAdapter

It extends `Gateway`: a call comes over a connection (`Arrive`), waits for the
calls before it, is refused or starts an `execute()` (`Serve`), and runs it to its
end (`Execute`, the gateway's steps). `server` tells which process is behind each
connection: one for each under stdio, one for several under HTTP. `KeyOf` is
`derive_idempotency_key()` over `fredos/idempotencyKey` and `str()` of the JSON-RPC
request id (`Spelling`). Ids are unique within a connection, spellings are not: `1` and
`"1"` are two ids and one key. An empty string as id, for which the translator draws a
fresh key, is left out: its call shares a row with no other. `Admitted` is what `execute()` asks before its
loop: the tool is a capability, the token may use it (`Authorized`), the payload
fits. `End` ends a process with the call it runs and those that wait in it.
`execute()` is called from a coroutine without giving way, so the process does one
call at a time, `dispatch_lock` or not. All connections act for one caller.

### SystemRegistry

The recursion of `visit()` is a stack of frames, each with the place its loop has
reached, so a step is one call or one return. `visiting` is the frames and
`visited` the order. Configuration and `HARD_DEPENDENCIES` are arbitrary: lists
with repetitions, systems that have no class, dependencies that are not enabled.

### TurnGate

A configuration is a record with the tables the code reads; `file` picks one of
`Files`, valid or not, and `Boot` is `InvariantChecker`. A text is what the code
reads off it (verdict of the pre-scan, findings of S1). The readiness report is
taken once, with up to `MaxDown` systems unhealthy; a provider that fails later
is `Fault`. `Plan` keeps of the planner's receipt its rows, which of them are ready,
and the disposition. `BootRegistry` takes the registry's steps. Numeric thresholds are reduced to their outcome, and competencies to
their providers. What the code does and one might not expect is kept: S1 runs
before readiness is reported; an optional system listed twice runs twice, since
the boot check does not look for that; a task class may point at a route that
does not exist, and every turn of that class raises.

### TemporalSphere

`RecordTurn` composes the steps of `record_turn()` in their order. A turn is its
signature and its commitment keys; texts, scores and uncertainty are left out. A
turn runs under the runtime lock, so refresh, record and commit (or roll back)
are one action; that the lock and the refresh do this is what `RuntimeKernel`
shows. `Stored` has the entries of
a dictionary in the order of their keys, as the JSON writer does.

`reconcile_committed_derivations()` links the shards of the working memory one
transaction at a time, after each commit and at each boot. A process may end
before the last of them (`CutOff`, `down`); `unlinked` counts the turns in a row
that were cut off. Every shard is taken to have a source to link, the case that
could go wrong.

### MemoryLake

Python's `sqlite3` begins a transaction before the first write and leaves it open
until `commit()`. No method of the store rolls back, so `tx[w]` outlives the
method that began it. A method is two steps, what it reads before the write lock
and the rest. `serial` (fixed at the start) tells whether the methods exclude each
other, as they do when only kernels under the runtime lock call them. The result of
`search()`, hash collisions and waiting on SQLite's busy timeout are left out (a
lock error is possible whenever a lock is taken); time stamps are a counter.

### RepositoryPipeline

The adapter maps, builds and criticises nondeterministically. Contents,
rationales and digests are left out; paths are compared by spelling, as in the code.

## 3. Abstract specification

`Ledger` is what the runtime promises its users: one history that begins with the
genesis of a session, and grows by one capsule at a time, the child of the last
one, that remembers every earlier turn and its own; a command commits at most
once. `ImplementsLedger` (run `kernel`) checks that every step of every
worker is invisible to the ledger, starts it, or adds exactly one command. The
mapping picks the n-th commit marker as the one with n markers up to it (`Rank`),
which is a position and not a fold over the journal, so that the refinement can
be proved as well as checked.

`Gateway` is in turn abstract for `GatewayOverKernel`. `ImplementsGateway` (run
`system`) says that what kernels do under the gateway, boots, lock sections, appends,
faults, torn writes and deaths, is a step of `Gateway` or invisible to it. The mapping
(`Stage`) puts a call that is inside `dispatch()` where `Gateway` has it: waiting for
the lock, in its turn, or behind its commit, by the lock and the journal and not by the
kernel's program counter.

## 4. Runs

| run | what it shows | bounds |
|---|---|---|
| `kernel` | with deaths at any step, torn appends, a failing lock file, and exceptions up to the commit marker, with lines written and behind the `TX_ABORT` of a rejection as well: the ledger is implemented; the inductive invariant and the chain of commits; a commit marker is the only entry that closes its transaction, and every answered transaction is closed; callers are told the truth; capsules remember exactly the right turns; live state matches the capsule; authority only moves to a child; every dispatch is answered and the lock is released | 2 commands, 2 sessions, 2 workers, no symmetry (liveness); 428,264 states |
| `kernel_lost_turn` | **violation**: see section 7 | 2 commands, 1 worker |
| `kernel_torn` | **violation**: see section 7 | 1 command, 1 worker |
| `mcp` | tool calls over stdio or HTTP, with request ids and host keys that collide, two ids of one spelling, tokens of different rights, errors of the store and deaths at any step: the gateway's inductive invariant, one execution for a key, true replies and errors; no replay within a connection between ids of different spellings that no host asked for; every call that arrived is answered or refused unless its process ends | 3 calls, 3 connections, 3 processes, 3 ids (two of one spelling), 2 host keys (one spelled like an id), 2 tools, 2 hashes; 711,302 states |
| `mcp_request_ids` | **violation**: see section 7 | the same |
| `system` | the gateway over the kernel, with every fault (behind the commit marker as well), errors of the reservation store, torn writes, deaths, and owners, waiters and claimers that outlast leases: the kernels do only what `Gateway` allows; all callers that get a result get the same one; a completed row is final | 2 calls with command ids of their own, 2 processes, 1 session, 1 key, 2 hashes, symmetry; 1,166,356 states |
| `system_late_fault` | **violation**: see section 7 | the same, 1 hash, no stalls, no torn writes, exceptions behind the marker only (`derive`) |
| `turn` | the shipped tables (as they are, S10 and S13 promoted, S13 a prototype, no tables, no S1), all 832 tables of one route over S1, S8, S13 and optional S10 or S13, and all 2048 files of four lists of systems over every dependency of three, valid or not: systems start after their dependencies, once and all; a cycle is reported exactly when there is one; nothing beyond S1 runs behind a closed gate; a recorded turn ran its whole route; rejection codes are true; the plan is the turn | 2 unhealthy systems in a report; 391,663 states |
| `sphere` | workers take turns, fail, die before the links are made and restart: every turn is remembered once and in order; a restart has the same memories; patterns are promoted once; compressed windows follow each other; a shard is not forgotten unlinked before a whole capacity of turns in a row was cut off | 2 workers, 7 turns, capacity 2, windows 2 and 1, reinforcement 2, 2 signatures, 2 keys; 435,080 states |
| `lake` | interleaved or under the lock, with lock errors, failures half way and deaths: history is kept; half a revision has one cause only; and under the lock, one audit chain and one current revision, the newest | 2 workers, 2 documents, 3 texts (two share their first paragraph), 2 revisions of each, 3 audit events |
| `lake_half` | **violation**: see section 7 | 1 document |
| `pipeline` | whatever the adapter answers: what is released is governed, and it is all or nothing | 2 sources, 2 artifacts, 3 paths |

**Why the bounds are enough.** A fault of the kernel needs a worker that is
stale (one commit behind) and one that commits, and a commit in which the damage
shows: two workers, and with the genesis two commands after it. Its chains are
proved for all values. The gateway's races involve an owner, the one who replaces
it, and a third that overtakes; calls of different keys share nothing but the lock
and, in `mcp`, the process they wait in, so three ids, two of one spelling, and two
host keys give every way for keys to collide: within a connection, across two, and a
host key that is another's request id. Calls that share a supplied command id are in the
proofs (`Gateway` has any ids), not in a run: the adapter supplies none, and with the two
calls of `system` an id they share tells nothing from ids of their own. Two hashes are needed for a conflict. `system` has two processes
and two calls: a repeated request and the one before it, of which one boots, waits for
the lock or recovers while the other is in its section; that the picture holds for any
number is proved. In `sphere`, seven
turns are the first at which, with capacity 2 and windows of 2 and 1, every list has
overflowed once (the compressed segments are cut at the seventh turn), and capacity
2 tells one cut-off turn from a whole capacity of them. In `turn`, one route is
enough because a turn uses one, and the tables cover every position of a gate, a
required and an optional system relative to each other; three systems are enough
for a cycle of each length, a diamond and a dependency met as a root. In `lake`,
three audit events allow a failed ingest, the recall that commits it, and a further
write.

Named bounds: `MaxTurn`, `MaxOrdinal`, `MaxEvents`, `MaxDown`, `MaxSources`, `MaxArtifacts`, and
the finite sets of commands and calls (one for each `dispatch()` or `execute()`).
`CHECK_DEADLOCK FALSE` is set where the instance really ends: gateway calls return
and are not repeated, and the lake's events are bounded.

`kernel` and `mcp` check `TypeOK`, `kernel` also `HashChain`, as conjuncts of `IInv`.
The type invariant of the pipeline is proved only.

**Mutants.** Each property has a mutant in its module ("Mutant:" above the
definition): a plausible bug in the mapped code under which TLC finds that
property violated.

## 5. Fairness

`RuntimeKernel!FairSpec` has weak fairness of `Progress(w)` for each worker: a
live process that was asked for something goes on to run its code. Nobody is
obliged to call, to shut down or to die. A waiter either finds the lock free or
reaches its deadline, and both are `Progress`, so no strong fairness is needed:
the code promises an answer, not the lock. `McpFairness` is the same for the steps
of a call that has begun and for a process with a call to serve: an event loop takes
the next task, and a thread inside `execute()` runs on. Arrivals, expiry of leases,
heartbeats and ends of processes are not fair. A call that waits for a key needs no
lease to run out: `wait_for_change()` has a deadline of its own.

## 6. Theorems

Every theorem holds for all values of the constants: any number of workers, calls,
systems, documents or turns, any configuration or dependency graph. Except for the
environment assumptions below (`NoLateFault`; no stalls; `Timely`, which is both), only the assumptions
of the modules on their constants are used, which TLC evaluates on the instances.

**`RuntimeKernelProofs`**, for any fault points and with torn writes:
`[]TypeOK`, `[]HashChain`, `[]CommitChain`, `[]AuthoritiesAgree`,
`[]CasNeverRefuses`, all from `Spec => []IInv`, and the action property
`AuthorityAdvances`.

None of these is inductive alone. That the hash chain holds when an entry is
written depends on what the writer read one step earlier (`TailFresh`: who has
read the tail is in a lock section and the file has not grown since), which
depends on the lock (`LockHeld`: a worker is in a lock section exactly when it
holds the lock). That a commit extends the chain depends on the capsule the worker
chose several steps earlier (`TxKnowledge`: from the refresh to the commit marker
its parent is still the last commit, and the candidate is in the store before the
marker; `GenesisKnowledge` is the same for the first commit).
`CommitsIncrease` and `SomeTail` tie "last marker" to "highest sequence". The proof
has lemmas for what an append does to the two chains, for what another worker's
step leaves alone, and one for each part of the invariant.

Under `NoLateFault` (nothing raises once the commit marker is written: neither `marker`
nor `derive` is a fault point), with deaths at any step and every other fault:

* `[]CommitClosesAlone` (`CommitsStand`), `[]AnsweredTruthfully`,
  `[]AnsweredMeansClosed`, from `Accounts`: what the journal holds of a command that is
  on its way (nothing yet, an open transaction, a commit, and before the `except`
  clause no commit, though perhaps a `TX_ABORT`), by where its worker is; that two workers never have one
  command; and that what was answered is closed. A step is put in one of a few
  classes first (it writes, it answers, it forgets, or it does none of these), and
  the account is kept class by class.
* `[]LiveStateMatches` from `Memories`: what the live sphere holds at each `pc`, the
  parent's turns up to `_execute_turn()` and one more behind it. `[]TurnsFaithful`
  adds `Named` (a committed capsule carries the id of its own command), by which the
  parent that a marker names is the one the worker had in memory.
* `ImplementsLedger`: every step maps to a step of `Ledger` or leaves its history
  alone. `CommitsRanked` says that every rank up to the number of markers is taken,
  once; so an entry that is no marker keeps the history, and a marker adds its capsule
  at the end, as `Ledger` demands by `CommitChain`, `TurnsFaithful` and `CommitClosesAlone`.

Without `NoLateFault` these are false, and the run `kernel_lost_turn` has the
behaviour (section 7). `AuthorityAdvances` and all that follows from `IInv` hold
with late faults, too.

**The composition** (last part of `RuntimeKernelProofs`), for any number of processes,
calls, keys and sessions:

* `SystemRunsKernels`: `SystemSpec => Spec`. Under the gateway the kernels do nothing
  else, so every theorem above is one about the whole system.
* `SystemImplementsGateway`: `SystemSpec => ImplementsGateway`, with any fault point,
  torn writes and any stall. So `SystemRepliesAgree` and `SystemKeepsFinished` follow
  from the gateway's theorems.
* `SystemExecutesOnce`: with no stall and under `NoLateFault`, `[]OneTransactionPerKey`:
  the journal that all processes share has one `TX_COMMIT` at most for an idempotency
  key. It joins the gateway's `OneCommitPerKey` (two calls of a key do not both commit)
  to the kernel's `CommitClosesAlone` (one call does not commit twice). Under the same
  assumptions `SystemAnswersTruthful` has `RepliesTruthful` and `ErrorsTruthful`.
  Errors of the store are not excluded by them; see Gateway in section 2.

Neither component knows what the mapping needs. `Linked`, which TLC checked first on the
instance of `system`, says how they hang together: a process has one call at a time
(`OneCall`); a worker with a command is inside `dispatch()`, serves the call of that
command, which runs in its process and is not answered yet, and before its commit marker
no marker names the command, behind it one does (`Serves`); only a late fault makes a
worker abort a command that is committed.
With it each step is mapped by its kind: a step of the gateway maps to itself
(`HandleMaps`), `Call` to nothing, since the lock is not taken yet (`CallMaps`), and a step
of a kernel (`DispatchMaps`, `RunMaps`) to `Enter`, `Commit`, `Return`, `Fail`,
`LockTimeout`, or to nothing if the lock and the commits of the journal stay as they are.
A late fault maps to `Fail` out of `committed`, which `Gateway` allows under `LateFaults`.

**`GatewayProofs`**, under `Timely` (`Stalls = {}` and `LateFaults = FALSE`), with
deaths and errors of the store at any point: `[]OneCommitPerKey`, `[]OneExecutor`, `[]RepliesTruthful`,
`[]ErrorsTruthful`, `[]TypeOK` and the action property `LeaseRespected`, from an
`IInv` of five parts: what a row says of its owner (that of an expired one is dead
or has ended with an error of the store), what a claimer knows (the owner it looked
up is dead or has ended, and is not committed, and no later row has expired), what an
owner knows (the row is its own), that a committed call
keeps its row, and what an answer says. `CompleteIsFinal` is proved without
`Timely`, and so are `TypeOK` and `RepliesAgree`, from an invariant of their own:
the result in a completed row is the one every call of that request was given. For
the others the assumption is needed: section 7 has the cases in which, without it,
a key is executed twice.

**`McpAdapterProofs`**: `McpSpec => Spec`, by which every theorem of `Gateway` is one
about tool calls (`ToolCallsOnce` is `OneCommitPerKey`); and under `Timely`
`[]NoAccidentalReplay`, from the gateway's invariant and the fact that calls of one
connection have different request ids, for any spelling of ids as keys.

**`SystemRegistryProofs`**, for every configuration and every dependency graph:
`[]DependenciesFirst` and `[]CycleIsReal`. The invariant describes the search: each
frame is the dependency that the one below it has called (`Path`); what a frame has
passed is in the order or is the frame above it (`Passed`); a system is in one place
only (`Apart`); and no set of systems of the order depends on itself (`Grounded`). A
cycle is then the part of the path from the repeated system to the top, and a search
that ends has put every enabled system where `Grounded` holds of it.

**`TurnGateProofs`**: `[]FailClosed` for every set of configurations, from an
invariant that carries two facts to the authorization: what the boot check
accepted, and that the report never calls a system gate-ready that is not ready.
`KernelBootsInOrder` and `KernelFindsCycles` carry the registry's theorems into the
kernel: each step of `TurnGate` is a step of its registry or leaves it alone.
`[]TypeOK`, `[]RecordedTurnIsWhole`, `[]RejectionsTruthful` and `[]PlanIsTheTurn`
come from `Course`, what a turn has found and done at each step. Its heart is `Walk`:
while required systems are left, they are the last ones of the route's list, and
what has run is S1 and the ones before them, in their order (`InOrder`); optional
systems come behind all of them; and what is neither left nor has run was not ready.
That the list has no repetition and holds every hard gate (`GoodRoute`) is the boot
check's work, or evident of the built-in routes; that its systems have an adapter is
the registry's (`ReadyIsRegistered`).

**`MemoryLakeProofs`**: `[]TypeOK`, `[]HalfOnlyIfRepeated`, `[]CurrentIsNewest`,
`[]AuditChain` and the action property `HistoryKept`. `LakeInv` asks of the committed
tables and of the open transaction alike that they are `Sound`, and that the second
keeps the first; so a transaction that a failed method leaves open may be committed
by any later one. Under the lock a method's knowledge (`Pending`: the head of the
audit chain, the last ordinal) is still true when it writes, for nobody else is in a
method (`OneMethod`). That only the paragraph of another revision stops an ingest
needs `Owned`: a fragment has its revision, so the fragments of a new one are new.

**`RepositoryPipelineProofs`**: `[]TypeOK` and `[]ReleasedIsGoverned` from `Governed`,
which carries through the stages what was checked earlier: that sources are distinct,
that no artifact ever has an unsafe path, and that the issues found are those of the
artifacts that are released.

**`TemporalSphereProofs`**: `[]TypeOK`, `[]TurnsRemembered`, `[]PatternsOnce`,
`[]MesoSlides`, `[]RestartKeepsMemories`, and the action property `LinksBeforeForgotten`. `Whole` is what holds
of one sphere (the working memory overflows into the micro segments; the evidence of
a signature is the list of its turns; the pattern of a signature has the first of
them; the meso segments end at the newest micro segment). One lemma shows that
`RecordTurn` makes a whole sphere of a whole one, over its five statements; another that
a sphere that is captured, stored and hydrated is `Alike`. `SphereInv` then needs only
that what a worker holds is whole, of the turn its capsule is numbered with, and, if
that is the latest, alike to the stored one. `LinkInv` says that the shards without
links are those of the last `unlinked` turns. What the store
writes for a dictionary is any list of its entries in the order of their keys
(`InKeyOrder`), of which the proof needs only that it has the same entries; for one
dictionary there is one such list.

**Model-checked only.** Liveness (`DispatchAnswered`, `LockReleased`,
`ToolCallsReturn`): the prover has no rules for fairness and `ENABLED`. Every other
property that a passing run checks is a theorem. What the folds that fill a dictionary or
sort a list return is nowhere needed as a fact about all lists; it would be an induction
over data, which the prover cannot do.

## 7. Divergences

Five are shown by a run of their own.

* `kernel_lost_turn`. The `except` clause of `_dispatch_locked()` covers the code
  behind `TX_COMMIT`. If that code raises, the live sphere is rolled back to the
  parent while `current_capsule` is the new one; as ids agree, the next refresh
  repairs nothing, and the next capsule forgets a committed turn. In the same
  behaviour `TX_ABORT` follows `TX_COMMIT` and the caller gets an exception for a
  committed command (`CommitClosesAlone` and `AnsweredTruthfully` fail).
* `system_late_fault`. The gateway releases the reservation on that exception, and the
  retry commits a second transaction for the key: the journal has two `TX_COMMIT` of
  it (`OneTransactionPerKey` fails, though nobody stalls).
* `mcp_request_ids`. A call without `fredos/idempotencyKey` takes its request id as
  its key. Request ids begin anew with each connection, and the gateway's rows
  outlive it, so the first call of a new connection is given the stored answer of
  an earlier one, if caller, session and arguments agree, and is not executed. Within
  one connection the same befalls the ids `1` and `"1"`, which `str()` makes one key.
  `docs/architecture/m2-mcp-adapter.md` line 86 says that two such calls "represent
  separate intended state transitions".
* `kernel_torn`. A death in the middle of an append leaves half a line, and no
  boot can read the files again.
* `lake_half`. A fragment's primary key is its position and the hash of its
  paragraph, without the revision. A paragraph that stands at the same place in
  another revision makes `ingest()` raise; nothing rolls back, and the worker's
  next `search()` commits what was written until then.

Others were met while modelling and have no run:

* `_abort_rejected()` emits an event behind its `TX_ABORT`, inside the `try`. If that
  raises, a second `TX_ABORT` is written and the caller gets an exception instead of
  `BLOCKED`. Both close the same transaction, nothing is committed, and the answer is
  true; no property forbids it.
* `finalize_owned()` may raise an error of SQLite for a command that is committed, outside
  the `try`: the caller sees an error that does not say so, and a repeated request is
  answered from the row if that is complete, and otherwise refused once the lease has run
  out.
* `claim_if_expired()` does not check that the row still belongs to the owner
  whose command was looked up in the journal. In an instance of `Gateway` with
  `Stalls = {"claimer"}` and three calls, `OneCommitPerKey` fails: another call claims,
  commits and dies in between.
* After a failed `ingest()`, another worker's failed write leaves its transaction
  open, its next `SELECT` keeps the shared lock, and the two block each other.
* The sphere lists commitments in insertion order, and the store's JSON sorts
  them: a restarted worker presents them, beyond ten also selects them, in another
  order than one that carried on. `RestartKeepsMemories` compares them as sets.
* `micro_segments`, the evidence and the commitments of the sphere are never
  trimmed, so each capsule grows with the number of turns.
* The pipeline compares spellings of paths: `a/b` and `a//b` are both released.
* A task class may name a route that is not declared; the boot check looks only
  at the route policy.

## 8. Not modelled

* System 1 (cognitive mapping, its adapter and overlay): floating-point scores over
  a string, no state.
* The dream protocol: one call makes one value from a capsule, has no caller in the
  kernel, the gateway or the CLI, and scores words with floating-point sums.
* Hashing of tokens and the token file; `list_tools` and the format of MCP results.
* The task frame of the planner, made of text cues that nothing reads.
* Contracts, provenance, observability, CLI: value types, hashes, an event log
  that is never read back, argument parsing.
* The prototype under `src.gitkeep/`: nothing imports it.
* Two threads that share one lock object: no code of the repository does that.
* Context packets, entropy, coherence and projections of the sphere: pure reads.

## 9. Plan

Done, in this order: kernel, files and ledger with proofs; gateway with proofs;
lake; sphere; turn gate with its proof; pipeline; registry with proofs, inside the
turn gate; planner; MCP adapter with proofs; the failing lock file; the links of
committed shards.

Proved since: the answers, the memories and the refinement of the kernel; the course
of a turn; the lake, the pipeline and the sphere, with its restarts; and the composition
of gateway and kernel with its refinement.

Left: the MCP adapter is composed with `Gateway`, not with `GatewayOverKernel`; its
theorems reach the kernel only through the gateway's picture, which the refinement
shows to be a true one. Liveness of the composition is not stated: it would need the
fairness of both components and symmetry given up.

## 10. Running

In this directory: `tlc -config MCKernel.cfg MCRuntimeKernel` (the pairs of
module and configuration are in `PROJECT.json`, `runs`), `tlapm
RuntimeKernelProofs.tla`. The longest run takes about three minutes, the proofs a
few minutes.
