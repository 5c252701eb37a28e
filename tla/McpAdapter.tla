----------------------------- MODULE McpAdapter ------------------------------
(***************************************************************************)
(* The MCP adapter of Fred-OS (mcp/server.py, mcp/translator.py) over the  *)
(* command gateway, with the gateway's checks before its reservation loop  *)
(* (gateway/gateway.py, gateway/auth.py).                                  *)
(*                                                                         *)
(* A tool call comes over a connection to the process that serves it: one  *)
(* process per connection under stdio, one for several under HTTP.  Its    *)
(* idempotency key is the one its host sent with it, or else its JSON-RPC  *)
(* request id as a string: ids are unique within their connection, but the *)
(* number 1 and the string "1" are two ids of one spelling.  A process     *)
(* executes one call at a time, in the order of their arrival: execute()   *)
(* does not give way to the event loop.                                    *)
(*                                                                         *)
(* All connections act for one caller, as Keys of Gateway are the keys of  *)
(* a caller; their tokens may grant different permissions.                 *)
(***************************************************************************)
EXTENDS Gateway, Sequences

CONSTANTS Connections,
          Processes,
          Ids,        \* JSON-RPC request ids: numbers and strings
          Spelling,   \* str() of each request id, as an idempotency key
          HostKeys,   \* keys under fredos/idempotencyKey
          NoKey,
          Tools,      \* the capabilities of the kernel
          NoTool,     \* a name of none
          Required    \* required_permissions of each tool

ASSUME McpAssumption ==
    /\ Spelling \in [Ids -> Keys] /\ HostKeys \subseteq Keys /\ NoKey \notin Keys
    /\ NoTool \notin Tools

VARIABLES
    origin,   \* how each tool call comes: connection, request id, host key,
              \* tool, and whether its payload fits the tool's schema
    server,   \* the process behind each connection
    granted,  \* the permissions of the token each process is configured with
    arrived,  \* the calls that reached each process, in order
    refused,  \* the calls execute() raised for before its reservation loop
    gone      \* the processes that have ended

adapter == <<origin, server, granted, arrived, refused, gone>>

mcpVars == <<vars, adapter>>

Origins == [conn : Connections, id : Ids, host : HostKeys \cup {NoKey},
            tool : Tools \cup {NoTool}, fits : BOOLEAN]

\* Mutant: calls are told apart by their host's key alone.
KeyOfHost(o) == IF o.host = NoKey THEN Spelling[CHOOSE id \in Ids : TRUE] ELSE o.host

\* derive_idempotency_key(), of what call_tool() passes to it.
KeyOf(o) == IF o.host = NoKey THEN Spelling[o.id] ELSE o.host

\* authorize()
Authorized(permissions, tool) ==
    \/ "*" \in permissions
    \/ /\ "gateway.execute" \in permissions
       /\ "capability:*" \in permissions \/ tool \in permissions
       /\ Required[tool] \subseteq permissions

ProcessOf(c) == server[origin[c].conn]

\* execute() comes to its reservation loop: the tool is a capability, the
\* token may use it, and the payload fits its schema.
Admitted(c) ==
    /\ origin[c].tool \in Tools
    /\ Authorized(granted[ProcessOf(c)], origin[c].tool)
    /\ origin[c].fits

McpInit ==
    /\ Init
    /\ origin \in [Calls -> Origins]
    /\ \A c, d \in Calls :
          origin[c].conn = origin[d].conn /\ origin[c].id = origin[d].id => c = d
    /\ \A c \in Calls : /\ request[c].key = KeyOf(origin[c])
                        /\ request[c].id = c    \* the adapter supplies none
    /\ \A c, d \in Calls :    \* the hash covers the tool and its arguments
          request[c].hash = request[d].hash =>
              origin[c].tool = origin[d].tool /\ origin[c].fits = origin[d].fits
    /\ server \in [Connections -> Processes]
    /\ granted \in [Processes -> SUBSET ({"*", "gateway.execute", "capability:*"}
                                         \cup Tools \cup UNION {Required[t] : t \in Tools})]
    /\ arrived = [p \in Processes |-> <<>>]
    /\ refused = {}
    /\ gone = {}

-----------------------------------------------------------------------------
Arrived(c) == \E i \in DOMAIN arrived[ProcessOf(c)] : arrived[ProcessOf(c)][i] = c

Waiting(c) == Arrived(c) /\ pc[c] = "idle" /\ c \notin refused

Ended(c) == pc[c] \in {"done", "dead"} \/ c \in refused

\* The call that a process executes.
Running(c) == pc[c] \notin {"idle", "done", "dead"}

\* The runtime has the request, and will start call_tool() for it.
Arrive(c) ==
    /\ ~Arrived(c)
    /\ ProcessOf(c) \notin gone
    /\ arrived' = [arrived EXCEPT ![ProcessOf(c)] = Append(@, c)]
    /\ UNCHANGED <<vars, origin, server, granted, refused, gone>>

\* Mutant: the lock stays taken when a call raises.
ServeAfterResults(p) ==
    \E i \in DOMAIN arrived[p] :
        LET c == arrived[p][i] IN
        /\ p \notin gone
        /\ Waiting(c)
        /\ \A j \in 1 .. i - 1 : pc[arrived[p][j]] = "done"
                                 /\ result[arrived[p][j]] \in Results
        /\ \/ Admitted(c) /\ Start(c) /\ UNCHANGED refused
           \/ ~Admitted(c) /\ refused' = refused \cup {c} /\ UNCHANGED vars
        /\ UNCHANGED <<origin, server, granted, arrived, gone>>

\* call_tool() of the next call: dispatch_lock, execute() up to its loop.
Serve(p) ==
    \E i \in DOMAIN arrived[p] :
        LET c == arrived[p][i] IN
        /\ p \notin gone
        /\ Waiting(c)
        /\ \A j \in 1 .. i - 1 : Ended(arrived[p][j])
        /\ \/ Admitted(c) /\ Start(c) /\ UNCHANGED refused
           \/ ~Admitted(c) /\ refused' = refused \cup {c} /\ UNCHANGED vars
        /\ UNCHANGED <<origin, server, granted, arrived, gone>>

\* A call runs on inside execute(), its heartbeat thread renews its lease, or
\* the store of the reservations raises.
Execute(c) ==
    /\ Progress(c) \/ Renew(c) \/ StorageFails(c)
    /\ UNCHANGED adapter

LeaseEnds(k) == Expire(k) /\ UNCHANGED adapter

\* A process ends, with the call it executes and those that wait in it.  The
\* end of a process without any is as if no further call came to it.
End(p) ==
    /\ p \notin gone
    /\ \E c \in Calls : ProcessOf(c) = p /\ Arrived(c) /\ ~Ended(c)
    /\ gone' = gone \cup {p}
    /\ \/ \E c \in Calls : ProcessOf(c) = p /\ Crash(c)
       \/ (\A c \in Calls : ProcessOf(c) = p => ~Running(c)) /\ UNCHANGED vars
    /\ UNCHANGED <<origin, server, granted, arrived, refused>>

McpNext ==
    \/ \E c \in Calls : Arrive(c) \/ Execute(c)
    \/ \E p \in Processes : Serve(p) \/ End(p)
    \/ \E k \in Keys : LeaseEnds(k)

McpSpec == McpInit /\ [][McpNext]_mcpVars

\* A process that has not ended keeps running.
McpFairness ==
    /\ \A c \in Calls : WF_mcpVars(Progress(c) /\ UNCHANGED adapter)
    /\ \A p \in Processes : WF_mcpVars(Serve(p))

-----------------------------------------------------------------------------
(* Properties.                                                             *)

(* A tool call without a host key whose answer is that of another call has *)
(* been given the answer of a call whose request id is spelled like its    *)
(* own, from another connection or as another kind of id, or of a call     *)
(* whose host chose that spelling as its key: two calls of one connection  *)
(* with ids of different spellings never share an execution, though their  *)
(* arguments be the same.                                                  *)
NoAccidentalReplay ==
    \A c \in Calls :
        /\ Answered(c) /\ origin[c].host = NoKey /\ result[c].cmd # c
        => LET d == result[c].cmd
               spelling == Spelling[origin[c].id] IN
           \/ origin[d].host = spelling
           \/ /\ origin[d].host = NoKey
              /\ Spelling[origin[d].id] = spelling
              /\ origin[d].conn # origin[c].conn \/ origin[d].id # origin[c].id

(* A tool call without a host key is executed for itself: its answer is    *)
(* that of another call only if a host chose a key for that one.           *)
ExecutedForItself ==
    \A c \in Calls :
        /\ Answered(c) /\ origin[c].host = NoKey /\ result[c].cmd # c
        => origin[result[c].cmd].host # NoKey

(* A call that has reached a process is answered or refused in the end,    *)
(* unless the process ends: the calls before it, and the owners of their   *)
(* keys in other processes, do not block it for good.                      *)
ToolCallsReturn ==
    \A c \in Calls : Arrived(c) ~> (Ended(c) \/ ProcessOf(c) \in gone)
=============================================================================
