---------------------------- MODULE FeedView_proofs ----------------------------
(***************************************************************************)
(* Proof that every tick's broadcasts leave the feed showing every live   *)
(* node (TickShowsLiveNodes), for every value of the constants.           *)
(*                                                                         *)
(* The feed is only written by a tick, so the invariant must say what a    *)
(* tick would show if it came now: Shown(c), the feed after the all-feeds *)
(* payload and the chain's RemovedNode and AddedNode chunks.  Two facts    *)
(* per chain make it inductive:                                            *)
(*  - LiveCountedAt: a chain with a live node is in the HashMap with a     *)
(*    non-zero node_count, so drain_chain_updates does visit it;           *)
(*  - ShownAt: with send_node_data on, Shown(c) contains every live node.  *)
(* The hard step is remove_nodes taking the whole-chain branch: there the  *)
(* chain vanishes from the feed, and what makes it safe is that the group  *)
(* is then every node the State holds (node_count agrees, AllAgree), and   *)
(* each of them is being removed or is on the connection that closes.     *)
(***************************************************************************)
EXTENDS Registry_proofs, Deltas_proofs

USE ConstantsAssumption

\* What the feed would display for chain c if the tick ran now.
Shown(c) == (AllFeedsView(c) \ chains[c].removedNodes) \cup chains[c].addedNodes

LiveCountedAt(c) == Live(c) # {} => chains[c].present /\ chains[c].nodeCount # 0

ShownAt(c) == SendNodeData => Live(c) \subseteq Shown(c)

FeedInv == \A c \in Chains : LiveCountedAt(c) /\ ShownAt(c)

FInv == RInv /\ AllAgree /\ FeedInv

-----------------------------------------------------------------------------
(* Lemmas about the operators.                                             *)

\* A live node is one the inner State holds.
LEMMA LiveHeld ==
    ASSUME TypeOK, IdentityMapSound, NEW c \in Chains
    PROVE  Live(c) \subseteq stNodes[c]
BY DEF Live, IdentityMapSound

\* A non-empty set of slots has a non-zero count.
LEMMA NonEmptyCount ==
    ASSUME NEW S \in SUBSET Slots, S # {}
    PROVE  Cardinality(S) # 0
BY SlotSetCardinality, FS_EmptySet

\* A chain with no live node satisfies both facts whatever its deltas.
LEMMA FeedDead ==
    ASSUME NEW c, Live(c)' = {}
    PROVE  LiveCountedAt(c)' /\ ShownAt(c)'
BY DEF LiveCountedAt, ShownAt

\* A step that adds no live node to chain c, and leaves its presence,
\* count, deltas and the all-feeds view of it alone, keeps both facts.
LEMMA FeedFramed ==
    ASSUME FeedInv, NEW c \in Chains,
           Live(c)' \subseteq Live(c),
           chains'[c].present = chains[c].present,
           chains'[c].nodeCount = chains[c].nodeCount,
           chains'[c].addedNodes = chains[c].addedNodes,
           chains'[c].removedNodes = chains[c].removedNodes,
           AllFeedsView(c)' = AllFeedsView(c)
    PROVE  LiveCountedAt(c)' /\ ShownAt(c)'
BY DEF FeedInv, LiveCountedAt, ShownAt, Shown

\* update_node and a location answer: or_default() and a recorded update
\* kind.  A chain that was present keeps its deltas; one that was not has
\* no live node.
LEMMA RecordFeed ==
    ASSUME TypeOK, FeedInv, NEW e \in Chains, NEW s \in Slots, NEW k,
           UNCHANGED <<nodeIds, shardConns, feedView, removedChains>>,
           chains' = [chains EXCEPT ![e] = [Entry(e) EXCEPT !.updatedNodes[s] = @ \cup {k}]]
    PROVE  FeedInv'
<1> SUFFICES ASSUME NEW c \in Chains PROVE LiveCountedAt(c)' /\ ShownAt(c)'
  BY DEF FeedInv
<1>1. Live(c)' = Live(c) /\ AllFeedsView(c)' = AllFeedsView(c)
  BY DEF Live, AllFeedsView
<1>2. CASE c # e
  BY <1>1, <1>2, FeedFramed DEF TypeOK
<1>3. CASE c = e /\ chains[c].present
  <2>1. chains'[c] = [chains[c] EXCEPT !.updatedNodes[s] = @ \cup {k}]
    BY <1>3 DEF Entry, TypeOK
  <2>. QED
    BY <1>1, <2>1, FeedFramed DEF TypeOK, ChainUpdatesType
<1>4. CASE c = e /\ ~chains[c].present
  BY <1>1, <1>4, FeedDead DEF FeedInv, LiveCountedAt
<1>. QED
  BY <1>2, <1>3, <1>4

\* remove_nodes(ids) with m the BiMap at the call, for a caller whose ids
\* are held nodes and whose pairs named in ids are gone afterwards or on a
\* connection that is closed.  Both callers are of this kind: remove_node
\* passes the one NodeId whose pair it has already taken out of m, and
\* disconnect_node passes the NodeIds of the connection it closes.
LEMMA RemoveNodesFeed ==
    ASSUME TypeOK, IdentityMapSound, AllAgree, FeedInv,
           NEW ids \in SUBSET NodeIds, NEW m \in SUBSET nodeIds, RemoveNodes(ids, m),
           shardConns' \subseteq shardConns, UNCHANGED feedView,
           \A i \in ids : i[2] \in stNodes[i[1]],
           \A q \in m : q[1] \in ids => q[2][1] \notin shardConns'
    PROVE  FeedInv'
<1> DEFINE group   == [c \in Chains |->
                         IF ChainExists(c) THEN {s \in Slots : <<c, s>> \in ids} ELSE {}]
           whole   == {c \in Chains : /\ group[c] # {} /\ chains[c].present
                                      /\ chains[c].nodeCount = Cardinality(group[c])}
           partial == {c \in Chains : /\ group[c] # {} /\ chains[c].present
                                      /\ c \notin whole}
           freed   == [c \in Chains |-> IF c \in partial THEN group[c] \cap stNodes[c]
                                        ELSE {}]
<1>1. /\ nodeIds' = RemoveLeftIds(m, partial, group)
      /\ stNodes' = [c \in Chains |-> stNodes[c] \ freed[c]]
      /\ removedChains' = removedChains \cup whole
      /\ chains' = [c \in Chains |->
                      IF c \in whole THEN DefaultUpdates
                      ELSE IF freed[c] # {}
                           THEN RemovedUpdates(chains[c], freed[c], Cardinality(stNodes'[c]))
                           ELSE chains[c]]
  BY DEF RemoveNodes
<1>2. nodeIds' \subseteq m
  BY RemoveNodesKeeps
<1> SUFFICES ASSUME NEW c \in Chains PROVE LiveCountedAt(c)' /\ ShownAt(c)'
  BY DEF FeedInv
<1>3. Live(c)' \subseteq Live(c)
  BY <1>2 DEF Live
<1>4. CASE c \in whole
  <2>1. group[c] = {s \in Slots : <<c, s>> \in ids}
    BY <1>4 DEF ChainExists
  <2>2. group[c] \subseteq stNodes[c]
    BY <2>1
  <2>3. Cardinality(group[c]) # 0
    BY <1>4, NonEmptyCount
  <2>4. Cardinality(stNodes[c]) = Cardinality(group[c])
    BY <1>4, <2>3 DEF AllAgree, DeltasAgree
  <2>5. group[c] = stNodes[c]
    BY <2>2, <2>4, SlotSetCardinality, FS_Subset DEF TypeOK
  <2>6. Live(c)' = {}
    <3> SUFFICES ASSUME NEW s \in Slots, NEW q \in nodeIds',
                        q[1] = <<c, s>>, q[2][1] \in shardConns'
                 PROVE  FALSE
      BY DEF Live
    <3>1. q \in m /\ q \in nodeIds
      BY <1>2
    <3>2. s \in stNodes[c]
      BY <3>1 DEF IdentityMapSound
    <3>3. q[1] \in ids
      BY <2>1, <2>5, <3>2
    <3>. QED
      BY <3>1, <3>3
  <2>. QED
    BY <2>6, FeedDead
<1>5. CASE c \notin whole /\ freed[c] = {}
  <2>1. chains'[c] = chains[c]
    BY <1>1, <1>5
  <2>2. AllFeedsView(c)' = AllFeedsView(c)
    BY <1>1, <1>5 DEF AllFeedsView
  <2>. QED
    BY <1>3, <2>1, <2>2, FeedFramed
<1>6. CASE c \notin whole /\ freed[c] # {}
  <2>1. c \in partial /\ freed[c] = group[c] \cap stNodes[c]
    BY <1>6
  <2>2. /\ chains[c] \in ChainUpdatesType
        /\ freed[c] \in SUBSET Slots
        /\ stNodes'[c] = stNodes[c] \ freed[c]
        /\ stNodes'[c] \in SUBSET Slots
        /\ Cardinality(stNodes'[c]) \in Nat
    BY <1>1, <2>1, SlotSetCardinality DEF TypeOK
  <2>3. chains'[c] = RemovedUpdates(chains[c], freed[c], Cardinality(stNodes'[c]))
    BY <1>1, <1>6
  <2>4. Live(c)' \subseteq Live(c) \ group[c]
    <3> SUFFICES ASSUME NEW s \in Live(c)' PROVE s \notin group[c]
      BY <1>3
    <3>1. PICK q \in nodeIds' : q[1] = <<c, s>>
      BY DEF Live
    <3>2. ~(q[1][1] \in partial /\ q[1][2] \in group[q[1][1]])
      BY <1>1, <3>1 DEF RemoveLeftIds
    <3>3. q[1][1] = c /\ q[1][2] = s
      BY <3>1
    <3>. QED
      BY <2>1, <3>2, <3>3
  <2>5. LiveCountedAt(c)'
    <3> SUFFICES ASSUME Live(c)' # {} PROVE Cardinality(stNodes'[c]) # 0
      BY <2>1, <2>2, <2>3 DEF LiveCountedAt, RemovedUpdates, ChainUpdatesType
    <3>1. Live(c) \ group[c] \subseteq stNodes'[c]
      BY <2>1, <2>2, LiveHeld
    <3>. QED
      BY <2>2, <2>4, <3>1, NonEmptyCount
  <2>6. ShownAt(c)'
    <3> SUFFICES ASSUME SendNodeData PROVE Live(c)' \subseteq Shown(c)'
      BY DEF ShownAt
    <3>1. /\ chains'[c].removedNodes = chains[c].removedNodes \cup freed[c]
          /\ chains'[c].addedNodes = chains[c].addedNodes \ freed[c]
      BY <2>2, <2>3 DEF RemovedUpdates, ChainUpdatesType
    <3>2. AllFeedsView(c)' = AllFeedsView(c)
      BY <1>1, <1>6 DEF AllFeedsView
    <3>3. Shown(c)' = Shown(c) \ freed[c]
      BY <3>1, <3>2 DEF Shown
    <3>4. Live(c) \subseteq Shown(c)
      BY DEF FeedInv, ShownAt
    <3>. QED
      BY <2>1, <2>4, <3>3, <3>4
  <2>. QED
    BY <2>5, <2>6
<1>. QED
  BY <1>4, <1>5, <1>6

-----------------------------------------------------------------------------
(* The invariant is inductive.                                             *)

LEMMA InitFInv == Init => FInv
<1> SUFFICES ASSUME Init PROVE FInv
  OBVIOUS
<1>1. RInv /\ AllAgree
  BY InitRInv, InitDInv DEF DInv
<1>2. \A c \in Chains : Live(c) = {}
  BY DEF Init, Live
<1>. QED
  BY <1>1, <1>2 DEF FInv, FeedInv, LiveCountedAt, ShownAt

LEMMA NextFInv == FInv /\ [Next]_vars => FInv'
<1> SUFFICES ASSUME FInv, [Next]_vars PROVE FeedInv'
  BY NextRInv, NextDInv DEF FInv, DInv, RInv
<1> USE DEF FInv, RInv, IInv
<1>1. CASE ConnectShard
  <2> SUFFICES ASSUME NEW c \in Chains PROVE LiveCountedAt(c)' /\ ShownAt(c)'
    BY DEF FeedInv
  <2>1. \A p \in nodeIds : p[2][1] # nextShardConn
    BY DEF ConnsIssued, TypeOK, ConnIds
  <2>2. Live(c)' \subseteq Live(c)
    BY <1>1, <2>1 DEF ConnectShard, Live
  <2>3. chains' = chains /\ AllFeedsView(c)' = AllFeedsView(c)
    BY <1>1 DEF ConnectShard, AllFeedsView
  <2>. QED
    BY <2>2, <2>3, FeedFramed
<1>2. ASSUME NEW conn \in ConnIds, NEW local \in Locals, NEW c \in Chains,
             AddNode(conn, local, c)
      PROVE  FeedInv'
  <2>1. PICK s \in Slots \ stNodes[c] :
          /\ stNodes' = [stNodes EXCEPT ![c] = @ \cup {s}]
          /\ removedChains' = removedChains \ {c}
          /\ nodeIds' = BiInsert(nodeIds, <<c, s>>, <<conn, local>>)
          /\ chains' = [chains EXCEPT ![c] =
                          AddedUpdates(Entry(c), s, Cardinality(stNodes'[c]))]
    BY <1>2 DEF AddNode, ShardIdFresh
  <2>2. \A p \in nodeIds : p[1] # <<c, s>> /\ p[2] # <<conn, local>>
    BY <1>2 DEF AddNode, ShardIdFresh, IdentityMapSound
  <2>3. nodeIds' = nodeIds \cup {<<<<c, s>>, <<conn, local>>>>}
    BY <2>1, <2>2 DEF BiInsert
  <2>4. conn \in shardConns /\ UNCHANGED <<shardConns, feedView>>
    BY <1>2 DEF AddNode, ShardIdFresh
  <2>5. ASSUME NEW d \in Chains, d # c PROVE LiveCountedAt(d)' /\ ShownAt(d)'
    <3>1. Live(d)' = Live(d)
      BY <2>3, <2>4, <2>5 DEF Live
    <3>2. chains'[d] = chains[d] /\ AllFeedsView(d)' = AllFeedsView(d)
      BY <2>1, <2>4, <2>5 DEF TypeOK, AllFeedsView
    <3>. QED
      BY <3>1, <3>2, FeedFramed
  <2>6. LiveCountedAt(c)' /\ ShownAt(c)'
    <3> DEFINE u == Entry(c)
               n == Cardinality(stNodes[c] \cup {s})
    <3>1. Live(c)' = Live(c) \cup {s}
      <4>1. ASSUME NEW t \in Live(c)' PROVE t \in Live(c) \cup {s}
        <5>1. PICK p \in nodeIds' : p[1] = <<c, t>> /\ p[2][1] \in shardConns'
          BY <4>1 DEF Live
        <5>. QED
          BY <2>3, <2>4, <4>1, <5>1 DEF Live
      <4>2. s \in Live(c)'
        BY <2>1, <2>3, <2>4 DEF Live
      <4>3. Live(c) \subseteq Live(c)'
        BY <2>3, <2>4 DEF Live
      <4>. QED
        BY <4>1, <4>2, <4>3
    <3>2. AllFeedsView(c)' = feedView[c] /\ AllFeedsView(c) \subseteq feedView[c]
      BY <2>1, <2>4 DEF AllFeedsView
    <3>3. u \in ChainUpdatesType /\ n \in Nat /\ n # 0
      BY EntryType, SlotSetCardinality, NonEmptyCount DEF TypeOK
    <3>4. chains'[c] = AddedUpdates(u, s, n)
      BY <2>1 DEF TypeOK
    <3>5. chains'[c].present /\ chains'[c].nodeCount # 0
      BY <3>3, <3>4 DEF AddedUpdates, Entry, DefaultUpdates, TypeOK, ChainUpdatesType
    <3>6. ASSUME SendNodeData PROVE Live(c)' \subseteq Shown(c)'
      <4>1. /\ chains'[c].addedNodes = u.addedNodes \cup {s}
            /\ chains'[c].removedNodes = u.removedNodes \ {s}
        BY <3>3, <3>4, <3>6 DEF AddedUpdates, ChainUpdatesType
      <4>2. CASE chains[c].present
        <5>1. u = chains[c]
          BY <4>2 DEF Entry
        <5>2. Live(c) \subseteq Shown(c)
          BY <3>6 DEF FeedInv, ShownAt
        <5>. QED
          BY <3>1, <3>2, <4>1, <5>1, <5>2 DEF Shown
      <4>3. CASE ~chains[c].present
        <5>1. Live(c) = {}
          BY <4>3 DEF FeedInv, LiveCountedAt
        <5>. QED
          BY <3>1, <4>1, <5>1 DEF Shown
      <4>. QED
        BY <4>2, <4>3
    <3>. QED
      BY <3>5, <3>6 DEF LiveCountedAt, ShownAt
  <2>. QED
    BY <2>5, <2>6 DEF FeedInv
<1>3. ASSUME NEW conn \in ConnIds, NEW local \in Locals, NEW k \in Payloads,
             UpdateNode(conn, local, k)
      PROVE  FeedInv'
  <2>1. PICK p \in nodeIds :
          chains' = [chains EXCEPT ![p[1][1]] =
                       [Entry(p[1][1]) EXCEPT !.updatedNodes[p[1][2]] = @ \cup {k}]]
    BY <1>3 DEF UpdateNode
  <2>2. p[1][1] \in Chains /\ p[1][2] \in Slots
    BY DEF TypeOK, NodeIds
  <2>. QED
    BY <1>3, <2>1, <2>2, RecordFeed DEF UpdateNode
<1>4. ASSUME NEW conn \in ConnIds, NEW local \in Locals, RemoveNode(conn, local)
      PROVE  FeedInv'
  <2>1. PICK p \in nodeIds : RemoveNodes({p[1]}, nodeIds \ {p})
    BY <1>4 DEF RemoveNode
  <2>2. /\ {p[1]} \in SUBSET NodeIds
        /\ p[1][2] \in stNodes[p[1][1]]
        /\ \A q \in nodeIds \ {p} : q[1] \notin {p[1]}
    BY DEF TypeOK, IdentityMapSound
  <2>. QED
    BY <1>4, <2>1, <2>2, RemoveNodesFeed DEF RemoveNode
<1>5. ASSUME NEW conn \in ConnIds, DisconnectNode(conn)
      PROVE  FeedInv'
  <2> DEFINE ids == {r[1] : r \in {q \in nodeIds : q[2][1] = conn}}
  <2>1. RemoveNodes(ids, nodeIds) /\ shardConns' = shardConns \ {conn}
        /\ UNCHANGED feedView
    BY <1>5 DEF DisconnectNode
  <2>2. ids \in SUBSET NodeIds /\ \A i \in ids : i[2] \in stNodes[i[1]]
    BY DEF TypeOK, IdentityMapSound
  <2>3. \A q \in nodeIds : q[1] \in ids => q[2][1] = conn
    BY DEF IdentityMapSound
  <2>. QED
    BY <2>1, <2>2, <2>3, RemoveNodesFeed
<1>6. ASSUME NEW n \in NodeIds, NEW found \in BOOLEAN, UpdateNodeLocation(n, found)
      PROVE  FeedInv'
  <2>1. n[1] \in Chains /\ n[2] \in Slots
    BY DEF NodeIds
  <2>2. UNCHANGED <<nodeIds, shardConns, feedView, removedChains>>
    BY <1>6 DEF UpdateNodeLocation
  <2>3. CASE SendNodeData /\ found /\ ChainExists(n[1])
    BY <1>6, <2>1, <2>2, <2>3, RecordFeed DEF UpdateNodeLocation
  <2>4. CASE ~(SendNodeData /\ found /\ ChainExists(n[1]))
    <3>1. chains' = chains
      BY <1>6, <2>4 DEF UpdateNodeLocation
    <3>2. ASSUME NEW c \in Chains PROVE LiveCountedAt(c)' /\ ShownAt(c)'
      BY <2>2, <3>1, FeedFramed DEF Live, AllFeedsView
    <3>. QED
      BY <3>2 DEF FeedInv
  <2>. QED
    BY <2>3, <2>4
<1>7. CASE Tick
  <2> SUFFICES ASSUME NEW c \in Chains PROVE LiveCountedAt(c)' /\ ShownAt(c)'
    BY DEF FeedInv
  <2>1. /\ Live(c)' = Live(c)
        /\ AllFeedsView(c)' = feedView'[c]
        /\ feedView'[c] = IF Drains(c) THEN ChainView(AllFeedsView(c), chains[c])
                          ELSE AllFeedsView(c)
        /\ chains'[c] = IF Drains(c) THEN Drained(chains[c]) ELSE chains[c]
    BY <1>7 DEF Tick, Live, AllFeedsView
  <2>2. CASE Drains(c)
    <3>1. /\ chains'[c].present = chains[c].present
          /\ chains'[c].nodeCount = chains[c].nodeCount
          /\ chains'[c].addedNodes = {} /\ chains'[c].removedNodes = {}
      BY <2>1, <2>2 DEF Drained, TypeOK, ChainUpdatesType
    <3>2. Shown(c)' = Shown(c)
      BY <2>1, <2>2, <3>1 DEF Shown, ChainView
    <3>. QED
      BY <2>1, <3>1, <3>2 DEF FeedInv, LiveCountedAt, ShownAt
  <2>3. CASE ~Drains(c)
    <3>1. Live(c) = {}
      BY <2>3 DEF FeedInv, LiveCountedAt, Drains
    <3>. QED
      BY <2>1, <3>1, FeedDead
  <2>. QED
    BY <2>2, <2>3
<1>8. CASE Restart
  <2>1. \A c \in Chains : Live(c)' = {}
    BY <1>8 DEF Restart, Live
  <2>. QED
    BY <2>1, FeedDead DEF FeedInv
<1>9. CASE UNCHANGED vars
  <2>1. ASSUME NEW c \in Chains PROVE LiveCountedAt(c)' /\ ShownAt(c)'
    BY <1>9, FeedFramed DEF vars, Live, AllFeedsView
  <2>. QED
    BY <2>1 DEF FeedInv
<1>. QED
  BY <1>1, <1>2, <1>3, <1>4, <1>5, <1>6, <1>7, <1>8, <1>9 DEF Next

-----------------------------------------------------------------------------
(* The tick.                                                               *)

\* A tick from a state of the invariant leaves every live node displayed:
\* the live nodes do not change, a chain with one is drained, and what its
\* chunks leave on the feed is Shown(c).
LEMMA TickShows ==
    ASSUME FInv, Tick, SendNodeData
    PROVE  FeedShowsLiveNodes'
<1> SUFFICES ASSUME NEW c \in Chains, Live(c) # {} PROVE Live(c)' \subseteq feedView'[c]
  <2>1. \A c \in Chains : Live(c)' = Live(c)
    BY DEF Tick, Live
  <2>. QED
    BY <2>1 DEF FeedShowsLiveNodes
<1>1. Live(c)' = Live(c)
  BY DEF Tick, Live
<1>2. Drains(c)
  BY DEF FInv, FeedInv, LiveCountedAt, Drains
<1>3. feedView'[c] = Shown(c)
  BY <1>2 DEF Tick, ChainView, Shown
<1>. QED
  BY <1>1, <1>3 DEF FInv, FeedInv, ShownAt

\* TickShowsLiveNodes, for every value of the constants: whatever add,
\* update, remove, disconnect, late location answer and restart came
\* before, after each tick's broadcasts (drain_updates_for_all_feeds, then
\* drain_chain_updates) a feed subscribed to every chain shows every node
\* that a connected shard still publishes.  The RemovedChain of remove_nodes'
\* whole-chain branch never hides a live node, since that branch is only
\* taken when every node of the chain leaves with the call.
THEOREM TickShowsLiveNodesHolds == Spec => TickShowsLiveNodes
<1>1. Init => FInv
  BY InitFInv
<1>2. FInv /\ [Next]_vars => FInv'
  BY NextFInv
<1>3. FInv => [Tick => (SendNodeData => FeedShowsLiveNodes')]_vars
  BY TickShows
<1>. QED
  BY <1>1, <1>2, <1>3, PTL DEF Spec, TickShowsLiveNodes
=============================================================================
