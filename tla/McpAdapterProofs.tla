-------------------------- MODULE McpAdapterProofs ---------------------------
(***************************************************************************)
(* TLAPS proofs about McpAdapter: it drives the gateway in no other way    *)
(* than the gateway's specification allows, so what GatewayProofs shows of *)
(* calls holds of tool calls; and what it adds of its own, the choice of   *)
(* their keys, holds for any connections, request ids, spellings and keys. *)
(***************************************************************************)
EXTENDS McpAdapter, GatewayProofs

-----------------------------------------------------------------------------
(* The adapter as a client of the gateway.                                 *)

\* The variables of the adapter have their types.
McpTypes ==
    /\ origin \in [Calls -> Origins]
    /\ server \in [Connections -> Processes]
    /\ arrived \in [Processes -> Seq(Calls)]

(* A connection is served by a process.                                    *)
LEMMA Served ==
    ASSUME McpTypes, NEW c \in Calls
    PROVE  ProcessOf(c) \in Processes
  BY DEF McpTypes, ProcessOf, Origins

(* The calls of a process stay calls.                                      *)
LEMMA McpTypesKept ==
    ASSUME McpTypes, [McpNext]_mcpVars
    PROVE  McpTypes'
  <1>1. ASSUME NEW c \in Calls, Arrive(c) PROVE McpTypes'
    BY <1>1, Served DEF McpTypes, Arrive
  <1>2. CASE UNCHANGED <<origin, server, arrived>>
    BY <1>2 DEF McpTypes
  <1> QED
    BY <1>1, <1>2 DEF McpNext, Execute, Serve, End, LeaseEnds, mcpVars, adapter

(* A step of the adapter is a step of the gateway, or leaves it alone.     *)
LEMMA StepMaps ==
    ASSUME McpTypes, [McpNext]_mcpVars
    PROVE  [Next]_vars
  <1>1. ASSUME NEW c \in Calls, Arrive(c) \/ Execute(c)
        PROVE  [Next]_vars
    BY <1>1 DEF Arrive, Execute, Next, CallStep
  <1>2. ASSUME NEW p \in Processes, Serve(p) PROVE [Next]_vars
    <2>1. \A i \in DOMAIN arrived[p] : arrived[p][i] \in Calls
      BY DEF McpTypes
    <2> QED BY <1>2, <2>1 DEF Serve, Next, CallStep
  <1>3. ASSUME NEW p \in Processes, End(p) PROVE [Next]_vars
    BY <1>3 DEF End, Next, CallStep
  <1>4. ASSUME NEW k \in Keys, LeaseEnds(k) PROVE [Next]_vars
    BY <1>4 DEF LeaseEnds, Next
  <1>5. CASE UNCHANGED mcpVars
    BY <1>5 DEF mcpVars
  <1> QED BY <1>1, <1>2, <1>3, <1>4, <1>5 DEF McpNext

(* The adapter's variables keep their types.                               *)
LEMMA McpTypeCorrect == McpSpec => []McpTypes
  <1>1. McpInit => McpTypes
    BY DEF McpInit, McpTypes
  <1>2. McpTypes /\ [McpNext]_mcpVars => McpTypes'
    BY McpTypesKept
  <1> QED BY <1>1, <1>2, PTL DEF McpSpec

-----------------------------------------------------------------------------
(* The theorems.                                                           *)

(* The adapter implements the client that the gateway's specification      *)
(* assumes: every behaviour of the adapter is one of the gateway.          *)
THEOREM McpDrivesGateway == McpSpec => Spec
  <1>1. McpInit => Init
    BY DEF McpInit
  <1>2. McpTypes /\ [McpNext]_mcpVars => [Next]_vars
    BY StepMaps
  <1> QED BY <1>1, <1>2, McpTypeCorrect, PTL DEF McpSpec, Spec

(* However tool calls are repeated, an idempotency key is executed once.   *)
THEOREM ToolCallsOnce ==
    ASSUME Timely
    PROVE  McpSpec => []OneCommitPerKey
  BY McpDrivesGateway, KeyExecutedOnce, PTL

\* The keys of the calls, which nothing changes.
KeysChosen ==
    /\ \A c, d \in Calls :
          origin[c].conn = origin[d].conn /\ origin[c].id = origin[d].id => c = d
    /\ \A c \in Calls : request[c].key = KeyOf(origin[c])

(* Two calls share an execution only if a host asks for it, or if their    *)
(* request ids, of two connections or of two kinds, have one spelling.     *)
THEOREM ReplaysIntended ==
    ASSUME Timely
    PROVE  McpSpec => []NoAccidentalReplay
  <1>1. McpInit => KeysChosen
    BY DEF McpInit, KeysChosen
  <1>2. KeysChosen /\ TypeOK /\ [Next]_vars /\ [McpNext]_mcpVars => KeysChosen'
    <2> SUFFICES ASSUME KeysChosen, TypeOK, [Next]_vars, [McpNext]_mcpVars
                 PROVE  KeysChosen'
      OBVIOUS
    <2>1. request' = request
      BY ControlTypes DEF Next, Expire, vars
    <2>2. origin' = origin
      BY DEF McpNext, Arrive, Execute, Serve, End, LeaseEnds, mcpVars, adapter
    <2> QED BY <2>1, <2>2 DEF KeysChosen, KeyOf
  <1>3. KeysChosen /\ TypeOK /\ RepliesTruthful => NoAccidentalReplay
    <2> SUFFICES ASSUME KeysChosen, TypeOK, RepliesTruthful,
                        NEW c \in Calls, Answered(c), origin[c].host = NoKey,
                        result[c].cmd # c
                 PROVE  LET d == result[c].cmd
                            spelling == Spelling[origin[c].id] IN
                        \/ origin[d].host = spelling
                        \/ /\ origin[d].host = NoKey
                           /\ Spelling[origin[d].id] = spelling
                           /\ origin[d].conn # origin[c].conn \/ origin[d].id # origin[c].id
      BY DEF NoAccidentalReplay
    <2>1. result[c].cmd \in Calls
      BY DEF Answered, Results
    <2>2. request[result[c].cmd].key = request[c].key
      BY DEF RepliesTruthful
    <2> QED BY <2>1, <2>2 DEF KeysChosen, KeyOf
  <1>4. McpTypes /\ [McpNext]_mcpVars => [Next]_vars
    BY StepMaps
  <1> QED BY <1>1, <1>2, <1>3, <1>4, McpDrivesGateway, TypeCorrect, RepliesHold,
             McpTypeCorrect, PTL DEF McpSpec
=============================================================================
