------------------------- MODULE BatchedState_proofs -------------------------
(***************************************************************************)
(* Proofs about BatchedState for every value of the constants that         *)
(* satisfies ConstantsAssumption: the type invariant, and that the         *)
(* identity map stays a bijection onto nodes the inner State holds.        *)
(***************************************************************************)
EXTENDS BatchedState, FiniteSetTheorems, TLAPS

USE ConstantsAssumption

\* A set of slots is finite, so a chain's node count is a natural number.
LEMMA SlotSetCardinality ==
    ASSUME NEW S \in SUBSET Slots
    PROVE  IsFiniteSet(S) /\ Cardinality(S) \in Nat
<1>1. IsFiniteSet(Slots)
  BY FS_Interval DEF Slots
<1>2. IsFiniteSet(S)
  BY <1>1, FS_Subset
<1>. QED
  BY <1>2, FS_CardinalityType

\* The default ChainUpdates, and or_default(), are well typed.
LEMMA DefaultUpdatesType ==
    /\ DefaultUpdates \in ChainUpdatesType
    /\ [DefaultUpdates EXCEPT !.present = TRUE] \in ChainUpdatesType
BY DEF DefaultUpdates, NoUpdates, ChainUpdatesType

LEMMA EntryType ==
    ASSUME TypeOK, NEW c \in Chains
    PROVE  Entry(c) \in ChainUpdatesType
BY DefaultUpdatesType DEF Entry, TypeOK

\* Recording an update kind in a node's NodeUpdates keeps the type.
LEMMA RecordUpdateType ==
    ASSUME NEW u \in ChainUpdatesType, NEW s \in Slots, NEW k \in UpdateKinds
    PROVE  [u EXCEPT !.updatedNodes[s] = @ \cup {k}] \in ChainUpdatesType
<1>1. u.updatedNodes \in [Slots -> SUBSET UpdateKinds]
  BY DEF ChainUpdatesType
<1>2. [u.updatedNodes EXCEPT ![s] = @ \cup {k}] \in [Slots -> SUBSET UpdateKinds]
  BY <1>1
<1>3. [u EXCEPT !.updatedNodes[s] = @ \cup {k}]
        = [u EXCEPT !.updatedNodes = [u.updatedNodes EXCEPT ![s] = @ \cup {k}]]
  OBVIOUS
<1>. QED
  BY <1>2, <1>3 DEF ChainUpdatesType

\* Removing freed slots from a chain's deltas keeps the type.
LEMMA RemovedUpdatesType ==
    ASSUME NEW u \in ChainUpdatesType, NEW freed \in SUBSET Slots, NEW n \in Nat
    PROVE  RemovedUpdates(u, freed, n) \in ChainUpdatesType
<1>1. [s \in Slots |-> IF s \in freed THEN {} ELSE u.updatedNodes[s]]
        \in [Slots -> SUBSET UpdateKinds]
  BY DEF ChainUpdatesType
<1>. QED
  BY <1>1 DEF RemovedUpdates, ChainUpdatesType

\* Draining a chain's three delta sets keeps the type.
LEMMA DrainedType ==
    ASSUME NEW u \in ChainUpdatesType
    PROVE  Drained(u) \in ChainUpdatesType
<1>1. NoUpdates \in [Slots -> SUBSET UpdateKinds]
  BY DEF NoUpdates
<1>. QED
  BY <1>1 DEF Drained, ChainUpdatesType

LEMMA LoadedChainsType ==
    ASSUME NEW meta, DOMAIN meta \subseteq Chains, meta \in [DOMAIN meta -> Nat]
    PROVE  LoadedChains(meta) \in [Chains -> ChainUpdatesType]
BY DefaultUpdatesType DEF LoadedChains, DefaultUpdates, NoUpdates, ChainUpdatesType

LEMMA InitTypeOK == Init => TypeOK
<1> SUFFICES ASSUME Init PROVE TypeOK
  OBVIOUS
<1>1. LoadedMetadata(NoMetadata) = NoMetadata
  BY DEF LoadedMetadata
<1>2. DOMAIN NoMetadata = {} /\ NoMetadata \in [DOMAIN NoMetadata -> Nat]
  BY DEF NoMetadata
<1>3. chains \in [Chains -> ChainUpdatesType]
  BY <1>1, <1>2, LoadedChainsType DEF Init
<1>4. fileTorn \in BOOLEAN /\ loopUp \in BOOLEAN
  BY DEF Init
<1>. QED
  BY <1>1, <1>2, <1>3, <1>4 DEF Init, TypeOK

\* The effect of RemoveNodes on the variables it sets keeps their types.
LEMMA RemoveNodesType ==
    ASSUME TypeOK, NEW ids, NEW m \in SUBSET nodeIds, RemoveNodes(ids, m)
    PROVE  /\ nodeIds' \in SUBSET (NodeIds \X (ConnIds \X Locals))
           /\ stNodes' \in [Chains -> SUBSET Slots]
           /\ removedChains' \in SUBSET Chains
           /\ chains' \in [Chains -> ChainUpdatesType]
<1> DEFINE group   == [c \in Chains |->
                         IF ChainExists(c) THEN {s \in Slots : <<c, s>> \in ids} ELSE {}]
           whole   == {c \in Chains : /\ group[c] # {} /\ chains[c].present
                                      /\ chains[c].nodeCount = Cardinality(group[c])}
           partial == {c \in Chains : /\ group[c] # {} /\ chains[c].present
                                      /\ c \notin whole}
           freed   == [c \in Chains |-> IF c \in partial THEN group[c] \cap stNodes[c]
                                        ELSE {}]
<1>1. /\ nodeIds' = RemoveLeftIds(m, partial, group)
      /\ stNodes' = [c \in Chains |-> stNodes[c] \ freed[c]]
      /\ removedChains' = removedChains \cup whole
      /\ chains' = [c \in Chains |->
                      IF c \in whole THEN DefaultUpdates
                      ELSE IF freed[c] # {}
                           THEN RemovedUpdates(chains[c], freed[c], Cardinality(stNodes'[c]))
                           ELSE chains[c]]
  BY DEF RemoveNodes
<1>2. nodeIds' \in SUBSET (NodeIds \X (ConnIds \X Locals))
  BY <1>1 DEF RemoveLeftIds, TypeOK
<1>3. stNodes' \in [Chains -> SUBSET Slots]
  BY <1>1 DEF TypeOK
<1>4. chains' \in [Chains -> ChainUpdatesType]
  <2>1. ASSUME NEW c \in Chains, freed[c] # {}, c \notin whole
        PROVE  RemovedUpdates(chains[c], freed[c], Cardinality(stNodes'[c]))
                 \in ChainUpdatesType
    <3>1. Cardinality(stNodes'[c]) \in Nat
      BY <1>3, SlotSetCardinality
    <3>2. freed[c] \subseteq Slots
      BY DEF TypeOK
    <3>. QED
      BY <3>1, <3>2, RemovedUpdatesType DEF TypeOK
  <2>. QED
    BY <1>1, <2>1, DefaultUpdatesType DEF TypeOK
<1>. QED
  BY <1>1, <1>2, <1>3, <1>4 DEF TypeOK

LEMMA NextTypeOK == TypeOK /\ [Next]_vars => TypeOK'
<1> SUFFICES ASSUME TypeOK, [Next]_vars PROVE TypeOK'
  OBVIOUS
<1>1. CASE ConnectShard
  BY <1>1 DEF ConnectShard, TypeOK, ConnIds
<1>2. ASSUME NEW conn \in ConnIds, NEW local \in Locals, NEW c \in Chains,
             AddNode(conn, local, c)
      PROVE  TypeOK'
  <2>1. PICK s \in Slots \ stNodes[c] :
          /\ stNodes' = [stNodes EXCEPT ![c] = @ \cup {s}]
          /\ nodeIds' = BiInsert(nodeIds, <<c, s>>, <<conn, local>>)
          /\ removedChains' = removedChains \ {c}
          /\ chains' = [chains EXCEPT ![c] =
                          AddedUpdates(Entry(c), s, Cardinality(stNodes'[c]))]
          /\ lookups' = lookups \cup {<<c, s>>}
    BY <1>2 DEF AddNode, ShardIdFresh
  <2>2. stNodes' \in [Chains -> SUBSET Slots]
    BY <2>1 DEF TypeOK
  <2>3. Cardinality(stNodes'[c]) \in Nat
    BY <2>2, SlotSetCardinality
  <2>4. AddedUpdates(Entry(c), s, Cardinality(stNodes'[c])) \in ChainUpdatesType
    BY <2>3, EntryType DEF AddedUpdates, ChainUpdatesType
  <2>5. nodeIds' \in SUBSET (NodeIds \X (ConnIds \X Locals))
    BY <2>1 DEF BiInsert, TypeOK, NodeIds
  <2>. QED
    BY <1>2, <2>1, <2>2, <2>4, <2>5 DEF AddNode, ShardIdFresh, TypeOK, NodeIds
<1>3. ASSUME NEW conn \in ConnIds, NEW local \in Locals, NEW k \in Payloads,
             UpdateNode(conn, local, k)
      PROVE  TypeOK'
  <2>1. PICK p \in nodeIds :
          /\ p[2] = <<conn, local>>
          /\ chains' = [chains EXCEPT ![p[1][1]] =
                          [Entry(p[1][1]) EXCEPT !.updatedNodes[p[1][2]] = @ \cup {k}]]
    BY <1>3 DEF UpdateNode
  <2>2. p[1][1] \in Chains /\ p[1][2] \in Slots
    BY DEF TypeOK, NodeIds
  <2>3. Entry(p[1][1]) \in ChainUpdatesType
    BY <2>2, EntryType
  <2>4. k \in UpdateKinds
    BY DEF UpdateKinds
  <2>. QED
    BY <1>3, <2>1, <2>2, <2>3, <2>4, RecordUpdateType DEF UpdateNode, TypeOK
<1>4. ASSUME NEW conn \in ConnIds, NEW local \in Locals, RemoveNode(conn, local)
      PROVE  TypeOK'
  <2>1. PICK p \in nodeIds : RemoveNodes({p[1]}, nodeIds \ {p})
    BY <1>4 DEF RemoveNode
  <2>. QED
    BY <1>4, <2>1, RemoveNodesType DEF RemoveNode, TypeOK
<1>5. ASSUME NEW conn \in ConnIds, DisconnectNode(conn)
      PROVE  TypeOK'
  BY <1>5, RemoveNodesType DEF DisconnectNode, TypeOK
<1>6. ASSUME NEW n \in NodeIds, NEW found \in BOOLEAN, UpdateNodeLocation(n, found)
      PROVE  TypeOK'
  <2>1. Entry(n[1]) \in ChainUpdatesType
    BY EntryType DEF NodeIds
  <2>2. Location \in UpdateKinds /\ n[1] \in Chains /\ n[2] \in Slots
    BY DEF UpdateKinds, NodeIds
  <2>. QED
    BY <1>6, <2>1, <2>2, RecordUpdateType DEF UpdateNodeLocation, TypeOK
<1>7. CASE Tick
  <2>1. metadata' \in [DOMAIN metadata' -> Nat] /\ DOMAIN metadata' \subseteq Chains
    BY <1>7 DEF Tick, UpdatedMetadata, Present, TypeOK, ChainUpdatesType
  <2>2. metaFile' \in [DOMAIN metaFile' -> Nat] /\ DOMAIN metaFile' \subseteq Chains
    BY <1>7, <2>1 DEF Tick, TypeOK
  <2>3. chains' \in [Chains -> ChainUpdatesType]
    BY <1>7, DrainedType DEF Tick, TypeOK
  <2>4. feedView' \in [Chains -> SUBSET Slots]
    <3>1. ASSUME NEW c \in Chains
          PROVE  /\ AllFeedsView(c) \subseteq Slots
                 /\ ChainView(AllFeedsView(c), chains[c]) \subseteq Slots
      <4>1. chains[c].addedNodes \subseteq Slots
        BY DEF TypeOK, ChainUpdatesType
      <4>2. AllFeedsView(c) \subseteq Slots
        BY DEF AllFeedsView, TypeOK
      <4>. QED
        BY <4>1, <4>2 DEF ChainView
    <3>. QED
      BY <1>7, <3>1 DEF Tick
  <2>. QED
    BY <1>7, <2>1, <2>2, <2>3, <2>4 DEF Tick, TypeOK
<1>8. CASE Restart
  <2>1. /\ DOMAIN metadata' \subseteq Chains
        /\ metadata' \in [DOMAIN metadata' -> Nat]
    BY <1>8 DEF Restart, WriteTorn, InnerLoopConstructs, LoadedMetadata, NoMetadata, TypeOK
  <2>2. chains' \in [Chains -> ChainUpdatesType]
    BY <1>8, <2>1, LoadedChainsType DEF Restart, WriteTorn, InnerLoopConstructs
  <2>3. fileTorn' \in BOOLEAN /\ loopUp' \in BOOLEAN
    BY <1>8 DEF Restart, WriteTorn, InnerLoopConstructs
  <2>. QED
    BY <1>8, <2>1, <2>2, <2>3 DEF Restart, WriteTorn, InnerLoopConstructs, TypeOK
<1>9. CASE UNCHANGED vars
  BY <1>9 DEF vars, TypeOK
<1>. QED
  BY <1>1, <1>2, <1>3, <1>4, <1>5, <1>6, <1>7, <1>8, <1>9 DEF Next

\* Every reachable state is well typed.
THEOREM TypeCorrect == Spec => []TypeOK
BY InitTypeOK, NextTypeOK, PTL DEF Spec

-----------------------------------------------------------------------------
(* The identity map.  IdentityMapSound is inductive together with TypeOK: *)
(* BiMap::insert keeps it a bijection, an admitted node's slot enters the *)
(* State with its pair, and remove_nodes frees a slot only for a chain    *)
(* whose group it also removes from the BiMap by left.                    *)

IInv == TypeOK /\ IdentityMapSound

\* BiMap::insert of a node the State now holds keeps the map sound.
LEMMA BiInsertSound ==
    ASSUME IdentityMapSound, NEW c \in Chains, NEW s, NEW r,
           nodeIds \subseteq NodeIds \X (ConnIds \X Locals),
           \A d \in Chains : stNodes[d] \subseteq stNodes'[d],
           s \in stNodes'[c],
           nodeIds' = BiInsert(nodeIds, <<c, s>>, r)
    PROVE  IdentityMapSound'
<1>1. ASSUME NEW p \in nodeIds', NEW q \in nodeIds', p[1] = q[1] \/ p[2] = q[2]
      PROVE  p = q
  BY <1>1 DEF BiInsert, IdentityMapSound
<1>2. ASSUME NEW p \in nodeIds' PROVE p[1][2] \in stNodes'[p[1][1]]
  <2>1. CASE p = <<<<c, s>>, r>>
    BY <2>1
  <2>2. CASE p \in nodeIds
    <3>1. p[1][1] \in Chains /\ p[1][2] \in stNodes[p[1][1]]
      BY <2>2 DEF IdentityMapSound, NodeIds
    <3>. QED
      BY <3>1
  <2>. QED
    BY <2>1, <2>2 DEF BiInsert
<1>. QED
  BY <1>1, <1>2 DEF IdentityMapSound

\* remove_nodes only drops pairs and frees only slots whose pairs it drops.
LEMMA RemoveNodesSound ==
    ASSUME TypeOK, IdentityMapSound, NEW ids, NEW m \in SUBSET nodeIds,
           RemoveNodes(ids, m)
    PROVE  IdentityMapSound'
<1> DEFINE group   == [c \in Chains |->
                         IF ChainExists(c) THEN {s \in Slots : <<c, s>> \in ids} ELSE {}]
           whole   == {c \in Chains : /\ group[c] # {} /\ chains[c].present
                                      /\ chains[c].nodeCount = Cardinality(group[c])}
           partial == {c \in Chains : /\ group[c] # {} /\ chains[c].present
                                      /\ c \notin whole}
           freed   == [c \in Chains |-> IF c \in partial THEN group[c] \cap stNodes[c]
                                        ELSE {}]
<1>1. /\ nodeIds' = RemoveLeftIds(m, partial, group)
      /\ stNodes' = [c \in Chains |-> stNodes[c] \ freed[c]]
  BY DEF RemoveNodes
<1>2. nodeIds' \subseteq nodeIds
  BY <1>1 DEF RemoveLeftIds
<1>3. ASSUME NEW p \in nodeIds' PROVE p[1][2] \in stNodes'[p[1][1]]
  <2>1. p[1][1] \in Chains /\ p[1][2] \in stNodes[p[1][1]]
    BY <1>2 DEF TypeOK, NodeIds, IdentityMapSound
  <2>2. ~(p[1][1] \in partial /\ p[1][2] \in group[p[1][1]])
    BY <1>1 DEF RemoveLeftIds
  <2>3. p[1][2] \notin freed[p[1][1]]
    BY <2>1, <2>2
  <2>. QED
    BY <1>1, <2>1, <2>3
<1>. QED
  BY <1>2, <1>3 DEF IdentityMapSound

LEMMA InitIInv == Init => IInv
BY InitTypeOK DEF Init, IInv, IdentityMapSound

LEMMA NextIInv == IInv /\ [Next]_vars => IInv'
<1> SUFFICES ASSUME IInv, [Next]_vars PROVE IdentityMapSound'
  BY NextTypeOK DEF IInv
<1> USE DEF IInv
<1>1. CASE ConnectShard
  BY <1>1 DEF ConnectShard, IdentityMapSound
<1>2. ASSUME NEW conn \in ConnIds, NEW local \in Locals, NEW c \in Chains,
             AddNode(conn, local, c)
      PROVE  IdentityMapSound'
  <2>1. PICK s \in Slots \ stNodes[c] :
          /\ stNodes' = [stNodes EXCEPT ![c] = @ \cup {s}]
          /\ nodeIds' = BiInsert(nodeIds, <<c, s>>, <<conn, local>>)
    BY <1>2 DEF AddNode, ShardIdFresh
  <2>2. \A d \in Chains : stNodes[d] \subseteq stNodes'[d]
    BY <2>1 DEF TypeOK
  <2>3. s \in stNodes'[c]
    BY <2>1 DEF TypeOK
  <2>. QED
    BY <2>1, <2>2, <2>3, BiInsertSound DEF TypeOK
<1>3. ASSUME NEW conn \in ConnIds, NEW local \in Locals, NEW k \in Payloads,
             UpdateNode(conn, local, k)
      PROVE  IdentityMapSound'
  BY <1>3 DEF UpdateNode, IdentityMapSound
<1>4. ASSUME NEW conn \in ConnIds, NEW local \in Locals, RemoveNode(conn, local)
      PROVE  IdentityMapSound'
  <2>1. PICK p \in nodeIds : RemoveNodes({p[1]}, nodeIds \ {p})
    BY <1>4 DEF RemoveNode
  <2>. QED
    BY <2>1, RemoveNodesSound
<1>5. ASSUME NEW conn \in ConnIds, DisconnectNode(conn)
      PROVE  IdentityMapSound'
  BY <1>5, RemoveNodesSound DEF DisconnectNode
<1>6. ASSUME NEW n \in NodeIds, NEW found \in BOOLEAN, UpdateNodeLocation(n, found)
      PROVE  IdentityMapSound'
  BY <1>6 DEF UpdateNodeLocation, IdentityMapSound
<1>7. CASE Tick
  BY <1>7 DEF Tick, IdentityMapSound
<1>8. CASE Restart
  BY <1>8 DEF Restart, WriteTorn, InnerLoopConstructs, IdentityMapSound
<1>9. CASE UNCHANGED vars
  BY <1>9 DEF vars, IdentityMapSound
<1>. QED
  BY <1>1, <1>2, <1>3, <1>4, <1>5, <1>6, <1>7, <1>8, <1>9 DEF Next

\* In every reachable state the identity map is a bijection whose NodeIds
\* are all nodes the inner State holds: a shard message resolved through
\* node_ids never reaches a freed slot.
THEOREM IdentityMapSoundness == Spec => []IdentityMapSound
<1>1. Init => IInv
  BY InitIInv
<1>2. IInv /\ [Next]_vars => IInv'
  BY NextIInv
<1>3. IInv => IdentityMapSound
  BY DEF IInv
<1>. QED
  BY <1>1, <1>2, <1>3, PTL DEF Spec
=============================================================================
