-------------------------- MODULE GatewayOverKernel --------------------------
(***************************************************************************)
(* The gateway (Gateway) over the kernel it dispatches to (RuntimeKernel): *)
(* each process has one kernel and serves one execute() at a time, and all *)
(* processes share the journal, the runtime lock and the reservations.     *)
(*                                                                         *)
(* Gateway by itself has a picture of the kernel: who is in the lock       *)
(* section and which commands have committed.  Here both are read from the *)
(* kernel's lock and journal, dispatch() is all the steps the kernel takes *)
(* for it, and a process that dies takes its kernel and its call with it.  *)
(***************************************************************************)
EXTENDS RuntimeKernel

CONSTANTS Keys, Hashes, NoRow, Stalls    \* those of Gateway

VARIABLES
    rows, seen, result,   \* those of Gateway
    asked,     \* "request" of Gateway: what each call asks
    at,        \* where each call is; all of dispatch() is "dispatch"
    home       \* the process that runs the call

gatewayVars == <<rows, seen, result, asked, at, home>>
systemVars  == <<vars, gatewayVars>>

\* The command whose dispatch() has the runtime lock, if one has.
Holder == IF lock = NoWorker THEN NoId ELSE request[lock].cmd

CommittedCommands == {c \in Commands : IsCommitted(c)}

\* The gateway's own steps.
Front == INSTANCE Gateway WITH
    Calls <- Commands, NoCall <- NoId, LateFaults <- LateFault,
    committed <- CommittedCommands, lock <- Holder, pc <- at, request <- asked

ASSUME CompositionAssumption ==
    /\ Stalls \subseteq {"owner", "waiter", "claimer"}
    /\ NoRow \notin Front!Row

SystemInit == Init /\ Front!Init /\ home = [c \in Commands |-> NoWorker]

-----------------------------------------------------------------------------
Active(c) == at[c] \notin {"idle", "done", "dead"}

\* Ready, and no call is served.
Idle(w) ==
    /\ pc[w] = "ready"
    /\ \A c \in Commands : Active(c) => home[c] # w

\* execute() is called.
Begin(c) ==
    /\ \E w \in Workers : Idle(w) /\ home' = [home EXCEPT ![c] = w]
    /\ UNCHANGED vars
    /\ Front!Start(c)

\* A step of execute() outside of dispatch().
Handle(c) ==
    /\ UNCHANGED <<vars, home>>
    /\ \/ Front!Get(c)
       \/ Front!Reserve(c)
       \/ Front!Wait(c)
       \/ lock = NoWorker /\ Front!Recover(c)
       \/ /\ lock # NoWorker \/ torn \/ "lock" \in FaultPoints
          /\ Front!RecoverFails(c)
       \/ Front!Claim(c)
       \/ Front!Release(c)
       \/ Front!Finalize(c)
       \/ Front!Renew(c)
       \/ Front!StorageFails(c)

\* execute() calls dispatch(), with the session of its request.
Call(c) ==
    /\ at[c] = "dispatch"
    /\ Dispatch(home[c])
    /\ request'[home[c]].cmd = c
    /\ UNCHANGED gatewayVars

\* What a caller of dispatch() is told.
Told(c) == outcome'[c] # outcome[c]

\* dispatch() returns a CommandResult or raises.
Hears(c) ==
    \/ /\ outcome'[c] \in {"success", "blocked"}
       /\ at' = [at EXCEPT ![c] = "finalize"]
       /\ result' = [result EXCEPT ![c] =
             [cmd    |-> c,
              status |-> IF outcome'[c] = "success" THEN "SUCCESS" ELSE "BLOCKED"]]
    \/ /\ outcome'[c] = "failed"
       /\ at' = [at EXCEPT ![c] = "release"]
       /\ UNCHANGED result

\* The kernel of a process goes on, in its boot or in dispatch().
Run(w) ==
    /\ Progress(w)
    /\ UNCHANGED <<rows, seen, asked, home>>
    /\ \/ (\A c \in Commands : ~Told(c)) /\ UNCHANGED <<at, result>>
       \/ \E c \in Commands : Told(c) /\ Hears(c)

BootProcess(w) == Boot(w) /\ UNCHANGED gatewayVars

EndProcess(w) == Idle(w) /\ Shutdown(w) /\ UNCHANGED gatewayVars

\* A process dies, and the call it serves with it.
KillProcess(w) ==
    /\ Crash(w)
    /\ at' = [c \in Commands |-> IF Active(c) /\ home[c] = w THEN "dead" ELSE at[c]]
    /\ UNCHANGED <<rows, seen, result, asked, home>>

LeaseRunsOut(k) == UNCHANGED <<vars, home>> /\ Front!Expire(k)

SystemNext ==
    \/ \E c \in Commands : Begin(c) \/ Handle(c) \/ Call(c)
    \/ \E w \in Workers : Run(w) \/ BootProcess(w) \/ EndProcess(w) \/ KillProcess(w)
    \/ \E k \in Keys : LeaseRunsOut(k)

SystemSpec == SystemInit /\ [][SystemNext]_systemVars

-----------------------------------------------------------------------------
(* Properties.                                                             *)

\* Where Gateway has a call.
Stage(c) ==
    IF at[c] = "dispatch" /\ Holder = c
    THEN IF IsCommitted(c) THEN "committed" ELSE "turn"
    ELSE at[c]

gateway == INSTANCE Gateway WITH
    Calls <- Commands, NoCall <- NoId, LateFaults <- LateFault,
    committed <- CommittedCommands, lock <- Holder,
    pc <- [c \in Commands |-> Stage(c)], request <- asked

(* The kernel does nothing that Gateway's picture of it leaves out: every  *)
(* step of boots, lock sections, journal appends, faults and deaths is a   *)
(* step of Gateway, or invisible to it.                                    *)
ImplementsGateway == gateway!Spec

(* All callers of a key that get a result get the same one, whatever their *)
(* kernels do.                                                             *)
RepliesAgree == gateway!RepliesAgree

(* A finished reservation is never changed or removed.                     *)
CompleteIsFinal == gateway!CompleteIsFinal

(* The journal that all processes share has one TX_COMMIT at most for a    *)
(* caller's idempotency key, however often the request is repeated.        *)
OneTransactionPerKey ==
    \A i, j \in DOMAIN journal :
        /\ journal[i].type = "TX_COMMIT" /\ journal[j].type = "TX_COMMIT"
        /\ asked[journal[i].cmd].key = asked[journal[j].cmd].key
        => i = j
=============================================================================
