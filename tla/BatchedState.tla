---------------------------- MODULE BatchedState ----------------------------
(***************************************************************************)
(* The batching layer of the telemetry core (state/batched.rs) together    *)
(* with the node bookkeeping it wraps (the inner State, state.rs), the     *)
(* shard side of the aggregator handle (aggregator.rs) and one feed that   *)
(* is subscribed to every chain and applies what each tick broadcasts.    *)
(*                                                                         *)
(* Each shard message, location answer and tick is one atomic step: the    *)
(* aggregator loop owns all of this state and handles one message at a     *)
(* time.  Node payloads, names and locations are abstracted to the kind of *)
(* update they are; a NodeId is a pair <<genesis hash, slot>>.             *)
(***************************************************************************)
EXTENDS Naturals, FiniteSets

CONSTANTS
    Chains,         \* genesis hashes of the chains nodes may join
    FirstParty,     \* chains exempt from the third-party quota
    Locals,         \* ShardNodeIds a shard may use
    Payloads,       \* payload kinds of node_message::Payload
    MaxSlots,       \* bound: node slots per chain (dense map capacity)
    MaxThirdParty,  \* max_third_party_nodes
    MaxShardConns,  \* bound: shard connections over a process lifetime
    SendNodeData,   \* send_node_data
    MetadataPath    \* TRUE iff metadata_path is Some(_)

ASSUME ConstantsAssumption ==
    /\ FirstParty \subseteq Chains
    /\ MaxSlots \in Nat \ {0}
    /\ MaxThirdParty \in Nat
    /\ MaxShardConns \in Nat \ {0}
    /\ SendNodeData \in BOOLEAN
    /\ MetadataPath \in BOOLEAN

Slots   == 0 .. (MaxSlots - 1)
ConnIds == 1 .. MaxShardConns       \* the shard ConnId sequence starts at 1
NodeIds == Chains \X Slots

\* The slot NodeUpdates.location, next to one slot per payload kind.
Location == "location"
UpdateKinds == Payloads \cup {Location}

VARIABLES
    stNodes,        \* inner State: occupied node slots of each chain
    nodeIds,        \* BiMap NodeId <-> (ConnId, ShardNodeId), as a set of pairs
    chains,         \* HashMap<BlockHash, ChainUpdates>, total with a present flag
    removedChains,  \* removed_chains
    metadata,       \* in-memory Metadata: genesis hash -> highest_node_count
    metaFile,       \* contents of the metadata file
    fileTorn,       \* the file was cut short: a crash or a failed write after truncation
    loopUp,         \* the aggregator loop is running (InnerLoop::new succeeded)
    shardConns,     \* shard connections currently open
    nextShardConn,  \* AggregatorInternal.shard_conn_id
    lookups,        \* NodeIds whose location lookup has not answered yet
    feedView        \* nodes a feed subscribed to every chain displays

vars == <<stNodes, nodeIds, chains, removedChains, metadata, metaFile, fileTorn, loopUp,
          shardConns, nextShardConn, lookups, feedView>>

-----------------------------------------------------------------------------
(* ChainUpdates and its Default; present is "the key is in the HashMap".  *)

NoUpdates == [s \in Slots |-> {}]

DefaultUpdates ==
    [present |-> FALSE, nodeCount |-> 0, highestNodeCount |-> 0,
     addedNodes |-> {}, removedNodes |-> {}, updatedNodes |-> NoUpdates]

\* self.chains.entry(genesis_hash).or_default()
Entry(c) == IF chains[c].present THEN chains[c]
            ELSE [DefaultUpdates EXCEPT !.present = TRUE]

\* state.get_chain_by_node_id(..) is Some: the inner State holds the chain.
ChainExists(c) == stNodes[c] # {}

\* Nodes of non-first-party chains the inner State holds (quota check).
ThirdPartyCount ==
    Cardinality({n \in NodeIds : n[1] \notin FirstParty /\ n[2] \in stNodes[n[1]]})

\* BiMap::insert: drops any pair sharing either side, then adds the pair.
BiInsert(m, l, r) == {p \in m : p[1] # l /\ p[2] # r} \cup {<<l, r>>}

NoMetadata == [c \in {} |-> 0]

\* State::new: the metadata read from the file when a path is configured.
LoadedMetadata(file) == IF MetadataPath THEN file ELSE NoMetadata

\* State::new: chains rebuilt from the loaded metadata with node_count 0.
LoadedChains(meta) ==
    [c \in Chains |->
       IF c \in DOMAIN meta
       THEN [DefaultUpdates EXCEPT !.present = TRUE, !.highestNodeCount = meta[c]]
       ELSE DefaultUpdates]

\* Plausible bug: the connection-id counter starts at 0.
InitConnFromZero ==
    /\ stNodes = [c \in Chains |-> {}]
    /\ nodeIds = {}
    /\ chains = LoadedChains(LoadedMetadata(NoMetadata))
    /\ removedChains = {}
    /\ metadata = LoadedMetadata(NoMetadata)
    /\ metaFile = NoMetadata
    /\ fileTorn = FALSE
    /\ loopUp = TRUE
    /\ shardConns = {}
    /\ nextShardConn = 0
    /\ lookups = {}
    /\ feedView = [c \in Chains |-> {}]

\* Aggregator::spawn and State::new on a host with no metadata file yet.
Init ==
    /\ stNodes = [c \in Chains |-> {}]
    /\ nodeIds = {}
    /\ chains = LoadedChains(LoadedMetadata(NoMetadata))
    /\ removedChains = {}
    /\ metadata = LoadedMetadata(NoMetadata)
    /\ metaFile = NoMetadata
    /\ fileTorn = FALSE
    /\ loopUp = TRUE
    /\ shardConns = {}
    /\ nextShardConn = 1
    /\ lookups = {}
    /\ feedView = [c \in Chains |-> {}]

-----------------------------------------------------------------------------
(* Aggregator::subscribe_shard: fetch_add on the shard ConnId counter.     *)
ConnectShard ==
    /\ nextShardConn <= MaxShardConns
    /\ shardConns' = shardConns \cup {nextShardConn}
    /\ nextShardConn' = nextShardConn + 1
    /\ UNCHANGED <<stNodes, nodeIds, chains, removedChains, metadata,
                   metaFile, fileTorn, loopUp, lookups, feedView>>

\* Plausible bug: a re-admitted NodeId stays in removed_nodes.
AddedKeepRemoved(u, s, n) ==
    [u EXCEPT !.addedNodes = IF SendNodeData THEN @ \cup {s} ELSE @,
              !.nodeCount = n,
              !.highestNodeCount = IF n > @ THEN n ELSE @]

\* The ChainUpdates of a chain after admitting slot s; n is the new count.
AddedUpdates(u, s, n) ==
    [u EXCEPT !.removedNodes = IF SendNodeData THEN @ \ {s} ELSE @,
              !.addedNodes = IF SendNodeData THEN @ \cup {s} ELSE @,
              !.nodeCount = n,
              !.highestNodeCount = IF n > @ THEN n ELSE @]

\* What the shards promise (spec 2, ShardNodeId): the pair (ConnId,
\* ShardNodeId) identifies one publishing node, so a shard never sends Add
\* for a local id whose node it has not removed.  The shard is not under
\* src/ and add_node does not check it: BiMap::insert would overwrite the
\* old pair and orphan its node.
ShardIdFresh(conn, local) == ~\E p \in nodeIds : p[2] = <<conn, local>>

\* Plausible bug: the slot allocator hands out the lowest slot, taken or not.
AddNodeTakenSlot(conn, local, c) ==
    /\ loopUp
    /\ conn \in shardConns
    /\ ShardIdFresh(conn, local)
    /\ c \in FirstParty \/ ThirdPartyCount < MaxThirdParty
    /\ \E s \in Slots :
         /\ \A t \in Slots : s <= t
         /\ stNodes' = [stNodes EXCEPT ![c] = @ \cup {s}]
         /\ removedChains' = removedChains \ {c}
         /\ nodeIds' = BiInsert(nodeIds, <<c, s>>, <<conn, local>>)
         /\ chains' = [chains EXCEPT ![c] =
                         AddedUpdates(Entry(c), s, Cardinality(stNodes'[c]))]
         /\ lookups' = lookups \cup {<<c, s>>}
    /\ UNCHANGED <<metadata, metaFile, fileTorn, loopUp, shardConns, nextShardConn, feedView>>

(***************************************************************************)
(* State::add_node for shard message Add{local, genesis_hash}.  The inner  *)
(* State refuses a third-party chain at its quota (ChainOverQuota) before  *)
(* any mutation; otherwise the node takes the lowest free slot and the    *)
(* aggregator starts a location lookup for it.                            *)
(***************************************************************************)
AddNode(conn, local, c) ==
    /\ loopUp
    /\ conn \in shardConns
    /\ ShardIdFresh(conn, local)
    /\ c \in FirstParty \/ ThirdPartyCount < MaxThirdParty
    /\ LET free == Slots \ stNodes[c] IN
       \E s \in free :
         /\ \A t \in free : s <= t
         /\ stNodes' = [stNodes EXCEPT ![c] = @ \cup {s}]
         /\ removedChains' = removedChains \ {c}
         /\ nodeIds' = BiInsert(nodeIds, <<c, s>>, <<conn, local>>)
         /\ chains' = [chains EXCEPT ![c] =
                         AddedUpdates(Entry(c), s, Cardinality(stNodes'[c]))]
         /\ lookups' = lookups \cup {<<c, s>>}
    /\ UNCHANGED <<metadata, metaFile, fileTorn, loopUp, shardConns, nextShardConn, feedView>>

\* State::update_node: records the payload kind in the node's NodeUpdates.
UpdateNode(conn, local, k) ==
    /\ loopUp
    /\ conn \in shardConns
    /\ \E p \in nodeIds :
         /\ p[2] = <<conn, local>>
         /\ SendNodeData
         /\ ChainExists(p[1][1])
         /\ chains' = [chains EXCEPT ![p[1][1]] =
                         [Entry(p[1][1]) EXCEPT !.updatedNodes[p[1][2]] = @ \cup {k}]]
    /\ UNCHANGED <<stNodes, nodeIds, removedChains, metadata, metaFile, fileTorn, loopUp,
                   shardConns, nextShardConn, lookups, feedView>>

\* Plausible bug: the ids of a partly removed chain stay in the BiMap.
KeepLeftIds(m, partial, group) == m

\* node_ids.remove_by_left for every node of a chain that is partly removed.
RemoveLeftIds(m, partial, group) ==
    {p \in m : ~(p[1][1] \in partial /\ p[1][2] \in group[p[1][1]])}

\* The ChainUpdates of a chain after the inner State freed the slots freed.
RemovedUpdates(u, freed, n) ==
    [u EXCEPT !.nodeCount = n,
              !.addedNodes = IF SendNodeData THEN @ \ freed ELSE @,
              !.updatedNodes = IF SendNodeData
                               THEN [s \in Slots |-> IF s \in freed THEN {} ELSE @[s]]
                               ELSE @,
              !.removedNodes = IF SendNodeData THEN @ \cup freed ELSE @]

(***************************************************************************)
(* State::remove_nodes(ids), m being node_ids at the call.  Per chain: if  *)
(* the group is all of node_count the chain's ChainUpdates is dropped and  *)
(* its hash recorded in removed_chains, and nothing else happens to those *)
(* nodes; otherwise each node leaves the BiMap and the inner State.        *)
(***************************************************************************)
RemoveNodes(ids, m) ==
    LET group   == [c \in Chains |->
                      IF ChainExists(c) THEN {s \in Slots : <<c, s>> \in ids} ELSE {}]
        whole   == {c \in Chains : /\ group[c] # {} /\ chains[c].present
                                   /\ chains[c].nodeCount = Cardinality(group[c])}
        partial == {c \in Chains : /\ group[c] # {} /\ chains[c].present
                                   /\ c \notin whole}
        freed   == [c \in Chains |-> IF c \in partial THEN group[c] \cap stNodes[c]
                                     ELSE {}]
    IN
    /\ nodeIds' = RemoveLeftIds(m, partial, group)
    /\ stNodes' = [c \in Chains |-> stNodes[c] \ freed[c]]
    /\ removedChains' = removedChains \cup whole
    /\ chains' = [c \in Chains |->
                    IF c \in whole THEN DefaultUpdates
                    ELSE IF freed[c] # {}
                         THEN RemovedUpdates(chains[c], freed[c], Cardinality(stNodes'[c]))
                         ELSE chains[c]]

\* State::remove_node for shard message Remove{local}: remove_by_right first.
RemoveNode(conn, local) ==
    /\ loopUp
    /\ conn \in shardConns
    /\ \E p \in nodeIds :
         /\ p[2] = <<conn, local>>
         /\ RemoveNodes({p[1]}, nodeIds \ {p})
    /\ UNCHANGED <<metadata, metaFile, fileTorn, loopUp, shardConns, nextShardConn, lookups, feedView>>

\* State::disconnect_node for shard message Disconnected.
DisconnectNode(conn) ==
    /\ loopUp
    /\ conn \in shardConns
    /\ RemoveNodes({p[1] : p \in {q \in nodeIds : q[2][1] = conn}}, nodeIds)
    /\ shardConns' = shardConns \ {conn}
    /\ UNCHANGED <<metadata, metaFile, fileTorn, loopUp, nextShardConn, lookups, feedView>>

(***************************************************************************)
(* State::update_node_location, when the lookup started for node n        *)
(* answers (found = a Location was resolved).  The answer may come after   *)
(* the node left and its slot was reused.                                  *)
(***************************************************************************)
UpdateNodeLocation(n, found) ==
    /\ loopUp
    /\ n \in lookups
    /\ lookups' = lookups \ {n}
    /\ chains' = IF SendNodeData /\ found /\ ChainExists(n[1])
                 THEN [chains EXCEPT ![n[1]] =
                         [Entry(n[1]) EXCEPT !.updatedNodes[n[2]] = @ \cup {Location}]]
                 ELSE chains
    /\ UNCHANGED <<stNodes, nodeIds, removedChains, metadata, metaFile, fileTorn, loopUp,
                   shardConns, nextShardConn, feedView>>

-----------------------------------------------------------------------------
(* The SendUpdates tick: drain_updates_for_all_feeds, then                 *)
(* drain_chain_updates, both broadcast to the feed.                        *)

Present == {c \in Chains : chains[c].present}

\* Metadata::update returns true: some present chain's high-water differs.
MetadataChanged ==
    \E c \in Present : c \notin DOMAIN metadata
                       \/ metadata[c] # chains[c].highestNodeCount

\* Metadata::update: every present chain's high-water is copied in.
UpdatedMetadata ==
    [c \in DOMAIN metadata \cup Present |->
       IF c \in Present THEN chains[c].highestNodeCount ELSE metadata[c]]

\* The feed after the all-feeds payload: RemovedChain clears a chain.
AllFeedsView(c) == IF c \in removedChains THEN {} ELSE feedView[c]

\* drain_chain_updates only visits chains whose node_count is not 0.
Drains(c) == chains[c].present /\ chains[c].nodeCount # 0

\* Plausible bug: the added-node chunks are not sent.
ViewWithoutAdditions(v, u) == v \ u.removedNodes

\* The feed after a chain's chunks: RemovedNode chunks, then AddedNode.
ChainView(v, u) == (v \ u.removedNodes) \cup u.addedNodes

\* The ChainUpdates left behind by drain() of its three delta sets.
Drained(u) == [u EXCEPT !.addedNodes = {}, !.removedNodes = {},
                        !.updatedNodes = NoUpdates]

(***************************************************************************)
(* SendUpdates: the metadata is updated in memory and, if it changed,      *)
(* written to the file (a failed write is only logged); the feed gets the *)
(* chain-level payload then every drained chain's chunks.                 *)
(***************************************************************************)
\* The outcomes of std::fs::write: the file is written; File::create fails
\* and leaves it as it was; or the write fails after create truncated it
\* (a full disk), which leaves a torn file.
WriteOutcomes == {"written", "notCreated", "truncated"}

Tick ==
    /\ loopUp
    /\ metadata' = UpdatedMetadata
    /\ \E w \in WriteOutcomes :
         LET writes == MetadataPath /\ MetadataChanged IN
         /\ metaFile' = IF writes /\ w = "written" THEN UpdatedMetadata ELSE metaFile
         /\ fileTorn' = IF writes /\ w # "notCreated" THEN w = "truncated" ELSE fileTorn
    /\ feedView' = [c \in Chains |->
                      IF Drains(c) THEN ChainView(AllFeedsView(c), chains[c])
                      ELSE AllFeedsView(c)]
    /\ chains' = [c \in Chains |-> IF Drains(c) THEN Drained(chains[c]) ELSE chains[c]]
    /\ removedChains' = {}
    /\ UNCHANGED <<stNodes, nodeIds, shardConns, nextShardConn, lookups, loopUp>>

(***************************************************************************)
(* The process stops and is started again: everything in memory is lost   *)
(* and shards and feeds reconnect from scratch.  If it stopped while a    *)
(* tick was writing changed metadata, std::fs::write has truncated the    *)
(* file and not finished it.  On start, State::new (through InnerLoop::new)*)
(* reloads the file; it fails on a torn file, and handle_messages then    *)
(* only logs and returns, while spawn hands out the aggregator as usual.  *)
(***************************************************************************)
\* The file is torn if a restart cut short a tick's write of changed metadata
\* (std::fs::write truncates before it writes), and stays torn: nothing in
\* the code rewrites it unless a later tick's metadata changes again.
WriteTorn(cut) == fileTorn \/ (cut /\ loopUp /\ MetadataPath /\ MetadataChanged)

\* InnerLoop::new, through State::new, fails to parse a torn file; a missing
\* path or an intact file constructs the loop.
InnerLoopConstructs(torn) == ~(MetadataPath /\ torn)

Restart ==
    /\ \E cut \in BOOLEAN : fileTorn' = WriteTorn(cut)
    /\ loopUp' = InnerLoopConstructs(fileTorn')
    /\ stNodes' = [c \in Chains |-> {}]
    /\ nodeIds' = {}
    /\ metadata' = IF loopUp' THEN LoadedMetadata(metaFile) ELSE NoMetadata
    /\ chains' = LoadedChains(metadata')
    /\ removedChains' = {}
    /\ shardConns' = {}
    /\ nextShardConn' = 1
    /\ lookups' = {}
    /\ feedView' = [c \in Chains |-> {}]
    /\ UNCHANGED metaFile

\* One step of the system.  The aggregator loop's handlers are guarded by
\* loopUp; subscribe_shard (on the handle) and a restart need no loop.
Next ==
    \/ ConnectShard
    \/ \E conn \in ConnIds, local \in Locals, c \in Chains : AddNode(conn, local, c)
    \/ \E conn \in ConnIds, local \in Locals, k \in Payloads : UpdateNode(conn, local, k)
    \/ \E conn \in ConnIds, local \in Locals : RemoveNode(conn, local)
    \/ \E conn \in ConnIds : DisconnectNode(conn)
    \/ \E n \in NodeIds, found \in BOOLEAN : UpdateNodeLocation(n, found)
    \/ Tick
    \/ Restart

Spec == Init /\ [][Next]_vars

-----------------------------------------------------------------------------
(* Properties.                                                             *)

\* Slots of chain c that a connected shard still publishes.
Live(c) == {s \in Slots : \E p \in nodeIds : p[1] = <<c, s>> /\ p[2][1] \in shardConns}

ChainUpdatesType ==
    [present: BOOLEAN, nodeCount: Nat, highestNodeCount: Nat,
     addedNodes: SUBSET Slots, removedNodes: SUBSET Slots,
     updatedNodes: [Slots -> SUBSET UpdateKinds]]

\* Every variable holds a value of its type.
TypeOK ==
    /\ stNodes \in [Chains -> SUBSET Slots]
    /\ nodeIds \in SUBSET (NodeIds \X (ConnIds \X Locals))
    /\ chains \in [Chains -> ChainUpdatesType]
    /\ removedChains \in SUBSET Chains
    /\ DOMAIN metadata \subseteq Chains /\ metadata \in [DOMAIN metadata -> Nat]
    /\ DOMAIN metaFile \subseteq Chains /\ metaFile \in [DOMAIN metaFile -> Nat]
    /\ shardConns \in SUBSET ConnIds
    /\ nextShardConn \in 1 .. (MaxShardConns + 1)
    /\ lookups \in SUBSET NodeIds
    /\ feedView \in [Chains -> SUBSET Slots]
    /\ fileTorn \in BOOLEAN /\ loopUp \in BOOLEAN

\* The BiMap stays a bijection, and every NodeId it maps is a node the
\* inner State holds: a later Update/Remove for (ConnId, ShardNodeId) never
\* reaches a freed (or reused) slot after add/remove/disconnect sequences.
IdentityMapSound ==
    /\ \A p, q \in nodeIds : (p[1] = q[1] \/ p[2] = q[2]) => p = q
    /\ \A p \in nodeIds : p[1][2] \in stNodes[p[1][1]]

\* The pending deltas of every chain agree with the inner State: an
\* AddedNode names a node that exists, a RemovedNode one that does not, no
\* NodeId is both (remove then re-add of a reused slot in one tick), and a
\* non-zero node_count about to be broadcast is the State's node count.
PendingDeltasAgree ==
    \A c \in Chains :
      LET u == chains[c] IN
      /\ u.addedNodes \cap u.removedNodes = {}
      /\ u.addedNodes \subseteq stNodes[c]
      /\ u.removedNodes \cap stNodes[c] = {}
      /\ (u.present /\ u.nodeCount # 0) => u.nodeCount = Cardinality(stNodes[c])

\* The feed displays every live node.
FeedShowsLiveNodes == \A c \in Chains : Live(c) \subseteq feedView[c]

\* After every tick's broadcasts (drain_updates_for_all_feeds, then
\* drain_chain_updates) a feed subscribed to every chain shows every node
\* a connected shard still publishes: no RemovedChain or RemovedNode it is
\* sent hides a live node, and no AddedNode of a live node is lost.
TickShowsLiveNodes == [][Tick => (SendNodeData => FeedShowsLiveNodes')]_vars

\* The identity pairs of nodes whose shard connection is still open.
LivePairs == {p \in nodeIds : p[2][1] \in shardConns}

Registry == INSTANCE NodeRegistry
              WITH Nodes <- NodeIds, MaxConns <- MaxShardConns,
                   registry <- LivePairs, conns <- shardConns,
                   nextConn <- nextShardConn

\* The batching State implements the node registry of spec 4.B/4.F: seen
\* through the pairs of open connections, every add, remove, disconnect,
\* tick and late location answer is a registration under a fresh NodeId
\* and key, an unregistration, a close, or no change at all.
ImplementsRegistry == Registry!Spec

\* Spec 3 (a node is destroyed on RemoveNode) and 8 (round-trip): after
\* every tick the feed shows no node that has been removed, also when the
\* last node of a chain leaves and a new node joins it in the same tick.
TickForgetsRemovedNodes ==
    [][Tick => (SendNodeData => \A c \in Chains : feedView'[c] \subseteq Live(c)')]_vars

\* Spec 7: a failure to construct the loop is fatal, the aggregator does
\* not start.  So a process that is running again after a restart, and
\* hands out shard connections, has its loop handling their messages.
RestartRecovers == [][Restart => loopUp']_vars

\* Spec 3 (node lifecycle): a node is destroyed on RemoveNode and on its
\* shard's disconnect, so the State holds exactly the live nodes.
RemovedNodesDestroyed == \A c \in Chains : stNodes[c] = Live(c)

\* Spec 8 scenario 4: after Disconnected, the identity map holds no entry
\* whose ConnId is that shard's.
DisconnectForgetsShard == \A p \in nodeIds : p[2][1] \in shardConns

\* Spec 8: highest_node_count is monotonic per chain within a process
\* lifetime (Restart steps excepted): the metadata never lowers a value.
HighWaterMonotonic ==
    [][Restart \/ \A c \in DOMAIN metadata :
                    c \in DOMAIN metadata' /\ metadata'[c] >= metadata[c]]_vars

\* Spec 3/8: a NodeId is in at most one of added, removed and updated of
\* its chain per tick.
AtMostOneDelta ==
    \A c \in Chains :
      LET u == chains[c] IN
      /\ u.addedNodes \cap u.removedNodes = {}
      /\ \A s \in Slots : u.updatedNodes[s] # {} =>
                            s \notin u.addedNodes \cup u.removedNodes
=============================================================================
