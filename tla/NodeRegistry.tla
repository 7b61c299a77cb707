---------------------------- MODULE NodeRegistry ----------------------------
(***************************************************************************)
(* What the aggregator promises about node identity (spec 3, 4.B, 4.F),   *)
(* with no batching, no slots and no feeds: shard connections get ConnIds  *)
(* from a counter and never reuse one within a process lifetime; a node   *)
(* published as (ConnId, ShardNodeId) on an open connection is registered  *)
(* under a NodeId no registered node has; Remove and Disconnected          *)
(* unregister it.  A restart forgets everything.                           *)
(***************************************************************************)
EXTENDS Naturals

CONSTANTS
    Nodes,      \* NodeIds
    Locals,     \* ShardNodeIds
    MaxConns    \* bound on the ConnIds handed out in one lifetime

VARIABLES
    registry,   \* set of <<NodeId, <<ConnId, ShardNodeId>>>> of registered nodes
    conns,      \* open shard connections
    nextConn    \* the next ConnId to hand out

regVars == <<registry, conns, nextConn>>

Init ==
    /\ registry = {}
    /\ conns = {}
    /\ nextConn = 1

\* A shard connects and gets the next ConnId.
Open ==
    /\ nextConn <= MaxConns
    /\ conns' = conns \cup {nextConn}
    /\ nextConn' = nextConn + 1
    /\ UNCHANGED registry

\* A node is admitted under a NodeId and a key that are both unused.
Register(n, conn, local) ==
    /\ conn \in conns
    /\ \A p \in registry : p[1] # n /\ p[2] # <<conn, local>>
    /\ registry' = registry \cup {<<n, <<conn, local>>>>}
    /\ UNCHANGED <<conns, nextConn>>

\* Remove{local} on an open connection.
Unregister(conn, local) ==
    /\ conn \in conns
    /\ registry' = {p \in registry : p[2] # <<conn, local>>}
    /\ UNCHANGED <<conns, nextConn>>

\* Disconnected: the connection closes and all its nodes go.
Close(conn) ==
    /\ conn \in conns
    /\ conns' = conns \ {conn}
    /\ registry' = {p \in registry : p[2][1] # conn}
    /\ UNCHANGED nextConn

\* The process restarts.
Reset ==
    /\ registry' = {}
    /\ conns' = {}
    /\ nextConn' = 1

Next ==
    \/ Open
    \/ \E n \in Nodes, conn \in 1 .. MaxConns, local \in Locals : Register(n, conn, local)
    \/ \E conn \in 1 .. MaxConns, local \in Locals : Unregister(conn, local)
    \/ \E conn \in 1 .. MaxConns : Close(conn)
    \/ Reset

Spec == Init /\ [][Next]_regVars
=============================================================================
