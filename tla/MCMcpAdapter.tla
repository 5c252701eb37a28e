---------------------------- MODULE MCMcpAdapter -----------------------------
(***************************************************************************)
(* Instances of McpAdapter for TLC.                                        *)
(***************************************************************************)
EXTENDS McpAdapter, TLC

CONSTANTS c1, c2, c3, first, second, third, p1, p2, p3, id1, id1s, id2, host1, read, write,
          h1, h2

AllCalls       == {c1, c2, c3}
AllConnections == {first, second, third}
AllProcesses   == {p1, p2, p3}
AllIds         == {id1, id1s, id2}
AllHostKeys    == {host1, id1}
AllKeys        == {id1, id2, host1}

\* The number 1, the string "1", and another id.
Spellings      == [i \in AllIds |-> IF i = id1s THEN id1 ELSE i]
AllTools       == {read, write}
AllHashes      == {h1, h2}

NoStalls   == {}
WriteIsGuarded == [t \in {read, write} |-> IF t = write THEN {"write"} ELSE {}]

\* Three stdio servers, or one and an HTTP server of two clients.
Stdio == [x \in AllConnections |-> IF x = first THEN p1 ELSE
                                   IF x = second THEN p2 ELSE p3]
Http  == [Stdio EXCEPT ![third] = p2]

\* The token of p2 may use everything, or only the tool without a guard.
Tokens == {[p \in AllProcesses |-> IF p = p2 THEN grant ELSE {"*"}] :
              grant \in {{"*"}, {"gateway.execute", "capability:*"}}}

\* Request ids begin anew with every connection.  The stdio servers have one
\* call each, all admitted; under HTTP c3 is the second call of a connection
\* or the first of another, and c2 may name no tool, not fit, or not be
\* allowed.  The second call of a connection may have an id that is spelled
\* like the first one's, and the host of c2 may choose that spelling as a key.
Reader == [conn : AllConnections, id : AllIds, host : {host1, NoKey},
           tool : {read}, fits : {TRUE}]

MCInit ==
    /\ server \in {Stdio, Http}
    /\ granted \in Tokens
    /\ \E x, z \in Reader, y \in Origins :
          /\ origin = [c \in AllCalls |-> IF c = c1 THEN x ELSE IF c = c2 THEN y ELSE z]
          /\ x.conn = first /\ x.id = id1
          /\ y.conn = second /\ y.id = id1
          /\ y.tool = NoTool => y.fits
          /\ granted[p2] # {"*"} => server = Http /\ y.tool = write /\ y.fits
          /\ \/ /\ server = Stdio
                /\ y.tool # NoTool /\ y.fits
                /\ z.conn = third /\ z.id = id1
                /\ z.host = host1 => x.host = host1
             \/ /\ server = Http
                /\ x.host = NoKey
                /\ \/ z.conn = second /\ z.id \in {id1s, id2}
                   \/ z.conn = third /\ z.id = id1
                /\ z.host = host1 => y.host = host1
    /\ request = [c \in AllCalls |->
                     [key  |-> KeyOf(origin[c]),
                      hash |-> IF origin[c].tool = read THEN h1 ELSE h2,
                      id   |-> c]]
    /\ McpInit

MCSpec == MCInit /\ [][McpNext]_mcpVars /\ McpFairness
=============================================================================
