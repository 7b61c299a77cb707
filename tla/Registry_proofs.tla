---------------------------- MODULE Registry_proofs ----------------------------
(***************************************************************************)
(* The batching State implements the node registry (NodeRegistry) under  *)
(* the mapping LivePairs: proof of ImplementsRegistry.                    *)
(*                                                                         *)
(* Besides TypeOK and IdentityMapSound it needs one more invariant: every  *)
(* ConnId a pair or an open connection carries was handed out already, so *)
(* opening the next connection makes no old pair live again.              *)
(***************************************************************************)
EXTENDS BatchedState_proofs

USE ConstantsAssumption

ConnsIssued ==
    /\ \A c \in shardConns : c < nextShardConn
    /\ \A p \in nodeIds : p[2][1] < nextShardConn

RInv == IInv /\ ConnsIssued

\* remove_nodes only drops pairs, and only pairs whose NodeId it was given.
LEMMA RemoveNodesKeeps ==
    ASSUME TypeOK, NEW ids, NEW m \in SUBSET nodeIds, RemoveNodes(ids, m)
    PROVE  /\ nodeIds' \subseteq m
           /\ \A q \in m : q[1] \notin ids => q \in nodeIds'
<1> DEFINE group   == [c \in Chains |->
                         IF ChainExists(c) THEN {s \in Slots : <<c, s>> \in ids} ELSE {}]
           whole   == {c \in Chains : /\ group[c] # {} /\ chains[c].present
                                      /\ chains[c].nodeCount = Cardinality(group[c])}
           partial == {c \in Chains : /\ group[c] # {} /\ chains[c].present
                                      /\ c \notin whole}
<1>1. nodeIds' = RemoveLeftIds(m, partial, group)
  BY DEF RemoveNodes
<1>2. nodeIds' \subseteq m
  BY <1>1 DEF RemoveLeftIds
<1>3. ASSUME NEW q \in m, q[1] \notin ids PROVE q \in nodeIds'
  <2>1. q[1] = <<q[1][1], q[1][2]>> /\ q[1][1] \in Chains
    BY DEF TypeOK, NodeIds
  <2>2. ~(q[1][1] \in partial /\ q[1][2] \in group[q[1][1]])
    BY <1>3, <2>1
  <2>. QED
    BY <1>1, <2>2 DEF RemoveLeftIds
<1>. QED
  BY <1>2, <1>3

LEMMA InitRInv == Init => RInv
<1> SUFFICES ASSUME Init PROVE RInv
  OBVIOUS
<1>1. IInv
  BY InitIInv
<1>2. ConnsIssued
  BY DEF Init, ConnsIssued
<1>. QED
  BY <1>1, <1>2 DEF RInv

LEMMA NextRInv == RInv /\ [Next]_vars => RInv'
<1> SUFFICES ASSUME RInv, [Next]_vars PROVE ConnsIssued'
  BY NextIInv DEF RInv
<1> USE DEF RInv, IInv, ConnsIssued
<1>1. CASE ConnectShard
  <2>1. /\ \A p \in nodeIds : p[2][1] \in Nat
        /\ shardConns \subseteq Nat /\ nextShardConn \in Nat
    BY DEF TypeOK, ConnIds
  <2>2. /\ shardConns' = shardConns \cup {nextShardConn}
        /\ nextShardConn' = nextShardConn + 1
        /\ nodeIds' = nodeIds
    BY <1>1 DEF ConnectShard
  <2>3. \A c \in shardConns' : c < nextShardConn'
    BY <2>1, <2>2
  <2>4. \A p \in nodeIds' : p[2][1] < nextShardConn'
    BY <2>1, <2>2
  <2>. QED
    BY <2>3, <2>4
<1>2. ASSUME NEW conn \in ConnIds, NEW local \in Locals, NEW c \in Chains,
             AddNode(conn, local, c)
      PROVE  ConnsIssued'
  BY <1>2 DEF AddNode, ShardIdFresh, BiInsert
<1>3. ASSUME NEW conn \in ConnIds, NEW local \in Locals, NEW k \in Payloads,
             UpdateNode(conn, local, k)
      PROVE  ConnsIssued'
  BY <1>3 DEF UpdateNode
<1>4. ASSUME NEW conn \in ConnIds, NEW local \in Locals, RemoveNode(conn, local)
      PROVE  ConnsIssued'
  <2>1. PICK p \in nodeIds : /\ p[2] = <<conn, local>>
                             /\ RemoveNodes({p[1]}, nodeIds \ {p})
    BY <1>4 DEF RemoveNode
  <2>2. nodeIds' \subseteq nodeIds
    BY <2>1, RemoveNodesKeeps
  <2>. QED
    BY <1>4, <2>2 DEF RemoveNode
<1>5. ASSUME NEW conn \in ConnIds, DisconnectNode(conn)
      PROVE  ConnsIssued'
  <2>1. nodeIds' \subseteq nodeIds
    BY <1>5, RemoveNodesKeeps DEF DisconnectNode
  <2>. QED
    BY <1>5, <2>1 DEF DisconnectNode
<1>6. ASSUME NEW n \in NodeIds, NEW found \in BOOLEAN, UpdateNodeLocation(n, found)
      PROVE  ConnsIssued'
  BY <1>6 DEF UpdateNodeLocation
<1>7. CASE Tick
  BY <1>7 DEF Tick
<1>8. CASE Restart
  BY <1>8 DEF Restart, WriteTorn, InnerLoopConstructs
<1>9. CASE UNCHANGED vars
  BY <1>9 DEF vars
<1>. QED
  BY <1>1, <1>2, <1>3, <1>4, <1>5, <1>6, <1>7, <1>8, <1>9 DEF Next

\* Each step of the batching State is a step of the registry, or leaves the
\* live pairs, the open connections and the ConnId counter alone.
LEMMA NextRefines == RInv /\ [Next]_vars => [Registry!Next]_Registry!regVars
<1> SUFFICES ASSUME RInv, [Next]_vars PROVE [Registry!Next]_Registry!regVars
  OBVIOUS
<1> USE DEF RInv, IInv
<1>1. CASE ConnectShard
  <2>1. LivePairs' = LivePairs
    <3>1. \A p \in nodeIds : p[2][1] # nextShardConn
      BY DEF ConnsIssued, TypeOK, ConnIds
    <3>. QED
      BY <1>1, <3>1 DEF ConnectShard, LivePairs
  <2>. QED
    BY <1>1, <2>1 DEF ConnectShard, Registry!Next, Registry!Open
<1>2. ASSUME NEW conn \in ConnIds, NEW local \in Locals, NEW c \in Chains,
             AddNode(conn, local, c)
      PROVE  [Registry!Next]_Registry!regVars
  <2>1. PICK s \in Slots \ stNodes[c] :
          nodeIds' = BiInsert(nodeIds, <<c, s>>, <<conn, local>>)
    BY <1>2 DEF AddNode, ShardIdFresh
  <2>2. \A p \in nodeIds : p[1] # <<c, s>> /\ p[2] # <<conn, local>>
    BY <1>2 DEF AddNode, ShardIdFresh, IdentityMapSound
  <2>3. nodeIds' = nodeIds \cup {<<<<c, s>>, <<conn, local>>>>}
    BY <2>1, <2>2 DEF BiInsert
  <2>4. /\ conn \in shardConns
        /\ UNCHANGED <<shardConns, nextShardConn>>
    BY <1>2 DEF AddNode, ShardIdFresh
  <2>5. LivePairs' = LivePairs \cup {<<<<c, s>>, <<conn, local>>>>}
    BY <2>3, <2>4 DEF LivePairs
  <2>6. Registry!Register(<<c, s>>, conn, local)
    BY <2>2, <2>4, <2>5 DEF Registry!Register, LivePairs
  <2>. QED
    BY <2>6 DEF Registry!Next, ConnIds, NodeIds
<1>3. ASSUME NEW conn \in ConnIds, NEW local \in Locals, NEW k \in Payloads,
             UpdateNode(conn, local, k)
      PROVE  [Registry!Next]_Registry!regVars
  BY <1>3 DEF UpdateNode, Registry!regVars, LivePairs
<1>4. ASSUME NEW conn \in ConnIds, NEW local \in Locals, RemoveNode(conn, local)
      PROVE  [Registry!Next]_Registry!regVars
  <2>1. PICK p \in nodeIds : /\ p[2] = <<conn, local>>
                             /\ RemoveNodes({p[1]}, nodeIds \ {p})
    BY <1>4 DEF RemoveNode
  <2>2. \A q \in nodeIds \ {p} : q[1] \notin {p[1]}
    BY DEF IdentityMapSound
  <2>3. nodeIds' = nodeIds \ {p}
    BY <2>1, <2>2, RemoveNodesKeeps
  <2>4. \A q \in nodeIds : q[2] = <<conn, local>> => q = p
    BY <2>1 DEF IdentityMapSound
  <2>5. /\ conn \in shardConns
        /\ UNCHANGED <<shardConns, nextShardConn>>
    BY <1>4 DEF RemoveNode
  <2>6. LivePairs' = {q \in LivePairs : q[2] # <<conn, local>>}
    BY <2>1, <2>3, <2>4, <2>5 DEF LivePairs
  <2>7. Registry!Unregister(conn, local)
    BY <2>5, <2>6 DEF Registry!Unregister
  <2>. QED
    BY <2>7 DEF Registry!Next, ConnIds
<1>5. ASSUME NEW conn \in ConnIds, DisconnectNode(conn)
      PROVE  [Registry!Next]_Registry!regVars
  <2> DEFINE ids == {q[1] : q \in {r \in nodeIds : r[2][1] = conn}}
  <2>1. RemoveNodes(ids, nodeIds)
    BY <1>5 DEF DisconnectNode
  <2>2. \A q \in nodeIds : q[2][1] # conn => q[1] \notin ids
    BY DEF IdentityMapSound
  <2>3. /\ nodeIds' \subseteq nodeIds
        /\ \A q \in nodeIds : q[2][1] # conn => q \in nodeIds'
    BY <2>1, <2>2, RemoveNodesKeeps
  <2>4. /\ conn \in shardConns
        /\ shardConns' = shardConns \ {conn}
        /\ UNCHANGED nextShardConn
    BY <1>5 DEF DisconnectNode
  <2>5. LivePairs' = {q \in LivePairs : q[2][1] # conn}
    BY <2>3, <2>4 DEF LivePairs
  <2>6. Registry!Close(conn)
    BY <2>4, <2>5 DEF Registry!Close
  <2>. QED
    BY <2>6 DEF Registry!Next, ConnIds
<1>6. ASSUME NEW n \in NodeIds, NEW found \in BOOLEAN, UpdateNodeLocation(n, found)
      PROVE  [Registry!Next]_Registry!regVars
  BY <1>6 DEF UpdateNodeLocation, Registry!regVars, LivePairs
<1>7. CASE Tick
  BY <1>7 DEF Tick, Registry!regVars, LivePairs
<1>8. CASE Restart
  <2>1. Registry!Reset
    BY <1>8 DEF Restart, WriteTorn, InnerLoopConstructs, Registry!Reset, LivePairs
  <2>. QED
    BY <2>1 DEF Registry!Next
<1>9. CASE UNCHANGED vars
  BY <1>9 DEF vars, Registry!regVars, LivePairs
<1>. QED
  BY <1>1, <1>2, <1>3, <1>4, <1>5, <1>6, <1>7, <1>8, <1>9 DEF Next

\* ImplementsRegistry: every behaviour of the batching State, seen through
\* the identity pairs of open shard connections, is a behaviour of the node
\* registry: add_node registers under a fresh NodeId and key, remove_node
\* and disconnect_node unregister, and nothing else changes the registry.
THEOREM RefinesRegistry == Spec => ImplementsRegistry
<1>1. Init => Registry!Init
  BY DEF Init, Registry!Init, LivePairs
<1>2. Spec => []RInv
  BY InitRInv, NextRInv, PTL DEF Spec
<1>. QED
  BY <1>1, <1>2, NextRefines, PTL DEF Spec, ImplementsRegistry, Registry!Spec
=============================================================================
