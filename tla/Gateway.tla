------------------------------- MODULE Gateway -------------------------------
(***************************************************************************)
(* The command gateway of Fred-OS (gateway/gateway.py) over its SQLite     *)
(* store of idempotency reservations (gateway/idempotency.py).             *)
(*                                                                         *)
(* Each call is one execution of CommandGateway.execute() that passed      *)
(* authentication and validation, in a process that may die at any point.  *)
(* Calls with the same idempotency key share one row.  A call reserves the *)
(* row or waits for its owner; when the owner's lease runs out, it reads   *)
(* the journal for the owner's commit and else claims the row.  An owner   *)
(* dispatches to the kernel, which RuntimeKernel models: of it only the    *)
(* runtime lock and the commit are left here.                              *)
(*                                                                         *)
(* Every SQLite statement or transaction is one step, and may fail.  Time  *)
(* is the single bit "leased" of a row; Stalls and LateFaults name what    *)
(* the environment may do beyond crashes and errors of the store.          *)
(***************************************************************************)
EXTENDS Integers

CONSTANTS Calls,       \* executions of execute()
          Keys,        \* the idempotency keys of one caller
          Hashes,      \* request hashes
          NoCall, NoRow,
          Stalls,      \* who may outlast a lease
          LateFaults   \* whether dispatch() may raise after its TX_COMMIT

ASSUME GatewayAssumption ==
    /\ NoCall \notin Calls
    /\ Stalls \subseteq {"owner", "waiter", "claimer"}
    /\ LateFaults \in BOOLEAN

VARIABLES
    rows,       \* the table gateway_idempotency
    committed,  \* the commands with a TX_COMMIT in the journal
    lock,       \* the call that holds the runtime lock, or NoCall
    pc,         \* where each call is
    request,    \* what each call asks: see Request
    seen,       \* the owner in the record wait_for_change() returned
    result      \* the CommandResult, or how execute() raised

vars == <<rows, committed, lock, pc, request, seen, result>>

\* A call asks for its key with a request hash and a command id, its own or
\* one the caller supplied; calls that share an id are named for one of them.
Request == [key : Keys, hash : Hashes, id : Calls]

\* How execute() raises: IdempotencyConflictError, InProgressError,
\* RecoveryError, the error of dispatch(), ownership lost in finalize_owned(),
\* an error of the SQLite store.
Errors == {"conflict", "busy", "refused", "failed", "lost", "storage"}

\* A CommandResult (the command that ran, and its status), or an exception.
Results == [cmd : Calls, status : {"SUCCESS", "BLOCKED"}]

Raised(error) == [cmd |-> NoCall, status |-> error]

NoResult == [cmd |-> NoCall, status |-> "none"]

Answers == Results \cup {NoResult} \cup {Raised(e) : e \in Errors}

\* "owner" is the owner token, which every call draws anew; the command id of
\* the owner is always stored with it.
Row == [hash : Hashes, status : {"PENDING", "COMPLETE"}, owner : Calls,
        result : Results \cup {NoResult}, leased : BOOLEAN]

ASSUME NoRowAssumption == NoRow \notin Row

\* Inside lease_guard(): the heartbeat thread renews the lease.
GuardPcs == {"dispatch", "turn", "committed"}

Pcs == {"idle", "get", "reserve", "wait", "recover", "claim", "release",
        "finalize", "done", "dead"} \cup GuardPcs

Init ==
    /\ rows = [k \in Keys |-> NoRow]
    /\ committed = {}
    /\ lock = NoCall
    /\ pc = [c \in Calls |-> "idle"]
    /\ request \in [Calls -> Request]
    /\ \A c \in Calls : request[request[c].id].id = request[c].id
    /\ seen = [c \in Calls |-> NoCall]
    /\ result = [c \in Calls |-> NoResult]

-----------------------------------------------------------------------------
(* Helpers.                                                                *)

Goto(c, label) == pc' = [pc EXCEPT ![c] = label]

\* execute() returns or raises.
Finish(c, answer) ==
    /\ Goto(c, "done")
    /\ result' = [result EXCEPT ![c] = answer]

RowOf(c) == rows[request[c].key]

SetRow(c, row) == rows' = [rows EXCEPT ![request[c].key] = row]

\* Mutant: the request hash is not compared.
AnyRequest(c) == TRUE

\* _assert_same_request()
SameRequest(c) == RowOf(c).hash = request[c].hash

\* The WHERE clause of renew_lease(), finalize_owned() and release_owned().
Owns(c) ==
    /\ RowOf(c) # NoRow
    /\ SameRequest(c)
    /\ RowOf(c).status = "PENDING"
    /\ RowOf(c).owner = c

\* Mutant: a NULL lease counts as run out, whatever the status.
ExpiredAny(row) == ~row.leased

Expired(row) == row.status = "PENDING" /\ ~row.leased

Reservation(c) == [hash |-> request[c].hash, status |-> "PENDING",
                   owner |-> c, result |-> NoResult, leased |-> TRUE]

\* What execute() does with an existing record it has read.
Examine(c) ==
    \/ /\ ~SameRequest(c)
       /\ Finish(c, Raised("conflict"))
    \/ /\ SameRequest(c) /\ RowOf(c).status = "COMPLETE"
       /\ Finish(c, RowOf(c).result)
    \/ /\ SameRequest(c) /\ RowOf(c).status = "PENDING"
       /\ Goto(c, "wait")
       /\ UNCHANGED result

-----------------------------------------------------------------------------
(* The reservation loop.                                                   *)

Start(c) ==
    /\ pc[c] = "idle"
    /\ Goto(c, "get")
    /\ UNCHANGED <<rows, committed, lock, request, seen, result>>

Get(c) ==
    /\ pc[c] = "get"
    /\ \/ RowOf(c) = NoRow /\ Goto(c, "reserve") /\ UNCHANGED result
       \/ RowOf(c) # NoRow /\ Examine(c)
    /\ UNCHANGED <<rows, committed, lock, request, seen>>

\* reserve_owned(): BEGIN IMMEDIATE, read again, insert.
Reserve(c) ==
    /\ pc[c] = "reserve"
    /\ \/ /\ RowOf(c) = NoRow
          /\ SetRow(c, Reservation(c))
          /\ Goto(c, "dispatch")
          /\ UNCHANGED result
       \/ RowOf(c) # NoRow /\ Examine(c) /\ UNCHANGED rows
    /\ UNCHANGED <<committed, lock, request, seen>>

\* wait_for_change() returns: the row is gone, complete or expired, or the
\* wait is over.  If the call stalls, the lease in the record it read may
\* run out before execute() compares it with the clock.
Wait(c) ==
    /\ pc[c] = "wait"
    /\ \/ /\ RowOf(c) = NoRow
          /\ Goto(c, "get")
          /\ UNCHANGED <<seen, result>>
       \/ /\ RowOf(c) # NoRow
          /\ ~SameRequest(c) \/ RowOf(c).status = "COMPLETE"
          /\ Examine(c)
          /\ UNCHANGED seen
       \/ /\ RowOf(c) # NoRow /\ SameRequest(c) /\ RowOf(c).status = "PENDING"
          /\ ~RowOf(c).leased \/ "waiter" \in Stalls
          /\ seen' = [seen EXCEPT ![c] = RowOf(c).owner]
          /\ Goto(c, "recover")
          /\ UNCHANGED result
       \/ /\ RowOf(c) # NoRow /\ SameRequest(c) /\ RowOf(c).status = "PENDING"
          /\ RowOf(c).leased
          /\ Finish(c, Raised("busy"))
          /\ UNCHANGED seen
    /\ UNCHANGED <<rows, committed, lock, request>>

\* Mutant: the journal is not consulted.
RecoverBlind(c) ==
    /\ pc[c] = "recover"
    /\ lock = NoCall
    /\ Goto(c, "claim")
    /\ UNCHANGED <<rows, committed, lock, request, seen, result>>

\* The journal has a TX_COMMIT under the key and the owner's command id.
CommitOnRecord(c) ==
    \E d \in committed : /\ request[d].key = request[c].key
                         /\ request[d].id = request[seen[c]].id

\* _recover_pending(), under the runtime lock: has the owner committed?
Recover(c) ==
    /\ pc[c] = "recover"
    /\ lock = NoCall
    /\ \/ CommitOnRecord(c) /\ Finish(c, Raised("refused"))
       \/ ~CommitOnRecord(c) /\ Goto(c, "claim") /\ UNCHANGED result
    /\ UNCHANGED <<rows, committed, lock, request, seen>>

\* _recover_pending() raises: another process keeps the runtime lock until
\* the deadline, for a call or for its own boot, or acquire() or entries()
\* raises.
RecoverFails(c) ==
    /\ pc[c] = "recover"
    /\ Finish(c, Raised("failed"))
    /\ UNCHANGED <<rows, committed, lock, request, seen>>

\* claim_if_expired()
Claim(c) ==
    /\ pc[c] = "claim"
    /\ \/ /\ RowOf(c) = NoRow
          /\ Goto(c, "get")
          /\ UNCHANGED <<rows, result>>
       \/ /\ RowOf(c) # NoRow /\ ~SameRequest(c)
          /\ Finish(c, Raised("conflict"))
          /\ UNCHANGED rows
       \/ /\ RowOf(c) # NoRow /\ SameRequest(c) /\ ~Expired(RowOf(c))
          /\ Goto(c, "get")
          /\ UNCHANGED <<rows, result>>
       \/ /\ RowOf(c) # NoRow /\ SameRequest(c) /\ Expired(RowOf(c))
          /\ SetRow(c, Reservation(c))
          /\ Goto(c, "dispatch")
          /\ UNCHANGED result
    /\ UNCHANGED <<committed, lock, request, seen>>

-----------------------------------------------------------------------------
(* The dispatch to the kernel.                                             *)

Enter(c) ==
    /\ pc[c] = "dispatch"
    /\ lock = NoCall
    /\ lock' = c
    /\ Goto(c, "turn")
    /\ UNCHANGED <<rows, committed, request, seen, result>>

\* RuntimeLockTimeout: another process has the lock, for a call or to boot.
LockTimeout(c) ==
    /\ pc[c] = "dispatch"
    /\ Goto(c, "release")
    /\ UNCHANGED <<rows, committed, lock, request, seen, result>>

Commit(c) ==
    /\ pc[c] = "turn"
    /\ committed' = committed \cup {c}
    /\ Goto(c, "committed")
    /\ UNCHANGED <<rows, lock, request, seen, result>>

\* dispatch() returns a CommandResult and its lock section ends.
Return(c) ==
    /\ \/ /\ pc[c] = "committed"
          /\ result' = [result EXCEPT ![c] = [cmd |-> c, status |-> "SUCCESS"]]
       \/ /\ pc[c] = "turn"
          /\ result' = [result EXCEPT ![c] = [cmd |-> c, status |-> "BLOCKED"]]
    /\ lock' = NoCall
    /\ Goto(c, "finalize")
    /\ UNCHANGED <<rows, committed, request, seen>>

\* Mutant: an error after the commit is raised to the caller.
FailLate(c) ==
    /\ pc[c] \in {"turn", "committed"}
    /\ lock' = NoCall
    /\ Goto(c, "release")
    /\ UNCHANGED <<rows, committed, request, seen, result>>

\* dispatch() raises: the turn was aborted, or an exception comes late.
Fail(c) ==
    /\ \/ pc[c] = "turn"
       \/ pc[c] = "committed" /\ LateFaults
    /\ lock' = NoCall
    /\ Goto(c, "release")
    /\ UNCHANGED <<rows, committed, request, seen, result>>

\* Mutant: the row is deleted whoever owns it.
ReleaseAny(c) ==
    /\ pc[c] = "release"
    /\ SetRow(c, NoRow)
    /\ Finish(c, Raised("failed"))
    /\ UNCHANGED <<committed, lock, request, seen>>

\* release_owned(), and execute() raises what dispatch() raised.
Release(c) ==
    /\ pc[c] = "release"
    /\ IF Owns(c) THEN SetRow(c, NoRow) ELSE UNCHANGED rows
    /\ Finish(c, Raised("failed"))
    /\ UNCHANGED <<committed, lock, request, seen>>

\* The result of the owner is stored in its row.
Complete(c) == SetRow(c, [RowOf(c) EXCEPT !.status = "COMPLETE",
                                          !.result = result[c],
                                          !.leased = FALSE])

\* Mutant: the result is stored whoever owns the row.
FinalizeAny(c) ==
    /\ pc[c] = "finalize"
    /\ IF RowOf(c) = NoRow THEN UNCHANGED rows ELSE Complete(c)
    /\ Finish(c, result[c])
    /\ UNCHANGED <<committed, lock, request, seen>>

\* finalize_owned()
Finalize(c) ==
    /\ pc[c] = "finalize"
    /\ \/ Owns(c) /\ Complete(c) /\ Finish(c, result[c])
       \/ ~Owns(c) /\ Finish(c, Raised("lost")) /\ UNCHANGED rows
    /\ UNCHANGED <<committed, lock, request, seen>>

\* Where a call is at the store.
StorePcs == {"get", "reserve", "wait", "claim", "release", "finalize"}

\* A statement or transaction fails and is undone, and execute() raises; or
\* finalize_owned() raises from its second read, with the row complete.
StorageFails(c) ==
    /\ pc[c] \in StorePcs
    /\ \/ UNCHANGED rows
       \/ pc[c] = "finalize" /\ Owns(c) /\ Complete(c)
    /\ Finish(c, Raised("storage"))
    /\ UNCHANGED <<committed, lock, request, seen>>

-----------------------------------------------------------------------------
(* The heartbeat, the clock and the end of a process.                      *)

Renew(c) ==
    /\ pc[c] \in GuardPcs
    /\ Owns(c)
    /\ ~RowOf(c).leased
    /\ SetRow(c, [RowOf(c) EXCEPT !.leased = TRUE])
    /\ UNCHANGED <<committed, lock, pc, request, seen, result>>

\* A call is between its look at an expired row and its claim of it.
Claiming(k) ==
    \E d \in Calls : request[d].key = k /\ pc[d] \in {"recover", "claim"}

\* A lease runs out when its owner is dead, or has ended with an error of the
\* store; before that, and while a claim is on its way, only if somebody stalls.
Expire(k) ==
    /\ rows[k] # NoRow
    /\ rows[k].status = "PENDING" /\ rows[k].leased
    /\ pc[rows[k].owner] \in {"dead", "done"} \/ "owner" \in Stalls
    /\ ~Claiming(k) \/ "claimer" \in Stalls
    /\ rows' = [rows EXCEPT ![k].leased = FALSE]
    /\ UNCHANGED <<committed, lock, pc, request, seen, result>>

Crash(c) ==
    /\ pc[c] \notin {"idle", "done", "dead"}
    /\ Goto(c, "dead")
    /\ lock' = IF lock = c THEN NoCall ELSE lock
    /\ UNCHANGED <<rows, committed, request, seen, result>>

-----------------------------------------------------------------------------
Reserving(c) == Get(c) \/ Reserve(c) \/ Wait(c) \/ Recover(c)
                \/ RecoverFails(c) \/ Claim(c)

Dispatching(c) == Enter(c) \/ LockTimeout(c) \/ Commit(c) \/ Return(c)
                  \/ Fail(c) \/ Release(c) \/ Finalize(c)

Progress(c) == Reserving(c) \/ Dispatching(c)

CallStep(c) == Start(c) \/ Progress(c) \/ Renew(c) \/ Crash(c) \/ StorageFails(c)

Next == (\E c \in Calls : CallStep(c)) \/ (\E k \in Keys : Expire(k))

Spec == Init /\ [][Next]_vars

-----------------------------------------------------------------------------
(* Properties.                                                             *)

(* Every variable has its type.                                            *)
TypeOK ==
    /\ rows \in [Keys -> Row \cup {NoRow}]
    /\ committed \subseteq Calls
    /\ lock \in Calls \cup {NoCall}
    /\ pc \in [Calls -> Pcs]
    /\ request \in [Calls -> Request]
    /\ seen \in [Calls -> Calls \cup {NoCall}]
    /\ result \in [Calls -> Answers]

(* An idempotency key is executed at most once: however often a request is *)
(* repeated, by whichever process and after whichever crash, one           *)
(* transaction commits for its key.                                        *)
OneCommitPerKey ==
    \A c, d \in committed : request[c].key = request[d].key => c = d

(* At most one live call dispatches for a key at a time.                   *)
OneExecutor ==
    \A c, d \in Calls :
        /\ pc[c] \in GuardPcs /\ pc[d] \in GuardPcs
        /\ request[c].key = request[d].key
        => c = d

Answered(c) == pc[c] = "done" /\ result[c] \in Results

(* A result is the result of a command that ran for this very request, and *)
(* it says SUCCESS exactly when that command is committed.                 *)
RepliesTruthful ==
    \A c \in Calls : Answered(c) =>
        /\ request[result[c].cmd].key = request[c].key
        /\ request[result[c].cmd].hash = request[c].hash
        /\ (result[c].status = "SUCCESS") <=> (result[c].cmd \in committed)

(* All callers of a key that get a result get the same one, even when a    *)
(* stalled owner comes back after another call took its row.               *)
RepliesAgree ==
    \A c, d \in Calls :
        /\ Answered(c) /\ Answered(d) /\ request[c].key = request[d].key
        => result[c] = result[d]

(* A call that raised has not committed, unless it lost its row or the     *)
(* reservation store itself failed (an error behind the commit, when the   *)
(* result is stored or read back, says nothing of the command); a refusal  *)
(* to execute names a key that did commit.                                 *)
ErrorsTruthful ==
    \A c \in Calls : pc[c] = "done" =>
        /\ result[c].status \in {"conflict", "busy", "refused", "failed"} =>
               c \notin committed
        /\ result[c].status = "refused" =>
               \E d \in committed : request[d].key = request[c].key

(* A finished reservation is never changed or removed, so a replay does    *)
(* not expire.                                                             *)
CompleteIsFinal ==
    [][\A k \in Keys :
          (rows[k] # NoRow /\ rows[k].status = "COMPLETE") => rows'[k] = rows[k]]_vars

(* Nobody takes or deletes a reservation whose lease is running: only a    *)
(* step of its owner changes it, apart from the lease running out.         *)
LeaseRespected ==
    [][\A k \in Keys :
          (rows[k] # NoRow /\ rows[k].status = "PENDING" /\ rows[k].leased) =>
              \/ rows'[k] = rows[k]
              \/ rows'[k] = [rows[k] EXCEPT !.leased = FALSE]
              \/ pc'[rows[k].owner] # pc[rows[k].owner]]_vars

-----------------------------------------------------------------------------
(* The inductive invariant behind OneCommitPerKey, where nobody stalls and *)
(* dispatch() does not raise late.                                         *)

\* Nobody outlasts a lease, and no exception comes after a TX_COMMIT.
Timely == Stalls = {} /\ LateFaults = FALSE

\* Between its reservation and the end of execute().
OwnerPcs == GuardPcs \cup {"release", "finalize"}

\* A row belongs to a call of its key, and to its request.
RowKnowledge(k) ==
    rows[k] # NoRow =>
        /\ request[rows[k].owner].key = k
        /\ request[rows[k].owner].hash = rows[k].hash
        /\ Expired(rows[k]) => pc[rows[k].owner] \in {"dead", "done"}
        /\ rows[k].status = "COMPLETE" =>
              /\ rows[k].result \in Results
              /\ rows[k].result.cmd = rows[k].owner
              /\ pc[rows[k].owner] = "done"
              /\ (rows[k].result.status = "SUCCESS") <=> (rows[k].owner \in committed)

\* A call that looks at an expired row: its owner has ended, and no other row
\* of the key expires before the claim.
ClaimKnowledge(c) ==
    /\ pc[c] \in {"recover", "claim"} =>
          /\ seen[c] \in Calls
          /\ request[seen[c]].key = request[c].key
          /\ pc[seen[c]] \in {"dead", "done"}
          /\ RowOf(c) # NoRow /\ Expired(RowOf(c)) => RowOf(c).owner = seen[c]
    /\ pc[c] = "claim" => seen[c] \notin committed

\* What an owner knows.
OwnerKnowledge(c) ==
    /\ pc[c] \in OwnerPcs => Owns(c)
    /\ pc[c] = "committed" => c \in committed
    /\ pc[c] = "finalize" =>
          /\ result[c] \in Results
          /\ result[c].cmd = c
          /\ (result[c].status = "SUCCESS") <=> (c \in committed)

\* A committed call keeps its row for good.
CommitKnowledge(c) ==
    c \in committed =>
        /\ RowOf(c) # NoRow
        /\ RowOf(c).owner = c
        /\ pc[c] \in {"committed", "finalize", "done", "dead"}

\* What a call that has ended knows.
AnswerKnowledge(c) ==
    pc[c] = "done" =>
        /\ result[c] \in Results => pc[result[c].cmd] = "done"
        /\ c \in committed => \/ result[c] \in Results
                             \/ result[c] = Raised("storage")

(* Types, and what rows, claimers, owners and answers know of each other.  *)
IInv ==
    /\ TypeOK
    /\ \A k \in Keys : RowKnowledge(k)
    /\ \A c \in Calls :
          /\ ClaimKnowledge(c)
          /\ OwnerKnowledge(c)
          /\ CommitKnowledge(c)
          /\ AnswerKnowledge(c)
    /\ RepliesTruthful
    /\ ErrorsTruthful
=============================================================================
