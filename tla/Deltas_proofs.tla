----------------------------- MODULE Deltas_proofs -----------------------------
(***************************************************************************)
(* Proof that the pending deltas of every chain agree with the inner State *)
(* (PendingDeltasAgree), for every value of the constants.                 *)
(*                                                                         *)
(* The property is stated chain by chain, so the proof is too: DeltasAgree *)
(* says it of one ChainUpdates u and one set S of occupied slots.  It is   *)
(* inductive once one more fact is added: with send_node_data off nothing  *)
(* is ever put in added_nodes or removed_nodes.  Without it, add_node,     *)
(* which then leaves removed_nodes alone, could make a removed NodeId     *)
(* occupied again, and remove_nodes, which leaves added_nodes alone, could *)
(* free an added one.                                                      *)
(***************************************************************************)
EXTENDS BatchedState_proofs

USE ConstantsAssumption

\* PendingDeltasAgree for one chain, with added_nodes and removed_nodes
\* empty when send_node_data is off.
DeltasAgree(u, S) ==
    /\ u.addedNodes \cap u.removedNodes = {}
    /\ u.addedNodes \subseteq S
    /\ u.removedNodes \cap S = {}
    /\ (u.present /\ u.nodeCount # 0) => u.nodeCount = Cardinality(S)
    /\ ~SendNodeData => u.addedNodes = {} /\ u.removedNodes = {}

AllAgree == \A c \in Chains : DeltasAgree(chains[c], stNodes[c])

DInv == IInv /\ AllAgree

LEMMA AllAgreePending == AllAgree => PendingDeltasAgree
BY DEF AllAgree, DeltasAgree, PendingDeltasAgree

\* A ChainUpdates with no deltas and no count agrees with any State.
LEMMA DefaultAgrees ==
    ASSUME NEW S
    PROVE  /\ DeltasAgree(DefaultUpdates, S)
           /\ DeltasAgree([DefaultUpdates EXCEPT !.present = TRUE], S)
BY DEF DeltasAgree, DefaultUpdates

\* or_default() on a chain whose ChainUpdates agrees keeps it agreeing.
LEMMA EntryAgrees ==
    ASSUME TypeOK, AllAgree, NEW c \in Chains
    PROVE  DeltasAgree(Entry(c), stNodes[c])
BY DefaultAgrees DEF Entry, AllAgree

\* Recording an update kind touches no delta set and no count.
LEMMA RecordAgrees ==
    ASSUME NEW u \in ChainUpdatesType, NEW S, NEW s \in Slots, NEW k,
           DeltasAgree(u, S)
    PROVE  DeltasAgree([u EXCEPT !.updatedNodes[s] = @ \cup {k}], S)
BY DEF DeltasAgree, ChainUpdatesType

\* add_node's changes to a ChainUpdates that agrees with the State before
\* slot s is taken agree with the State after.
LEMMA AddedAgrees ==
    ASSUME NEW u \in ChainUpdatesType, NEW S \in SUBSET Slots, NEW s \in Slots,
           DeltasAgree(u, S)
    PROVE  DeltasAgree(AddedUpdates(u, s, Cardinality(S \cup {s})), S \cup {s})
<1>1. Cardinality(S \cup {s}) \in Nat
  BY SlotSetCardinality
<1>. QED
  BY <1>1 DEF AddedUpdates, DeltasAgree, ChainUpdatesType

\* remove_nodes' changes to a ChainUpdates for freed slots F agree with
\* the State once F is freed.
LEMMA RemovedAgrees ==
    ASSUME NEW u \in ChainUpdatesType, NEW S \in SUBSET Slots, NEW F \in SUBSET Slots,
           DeltasAgree(u, S)
    PROVE  DeltasAgree(RemovedUpdates(u, F, Cardinality(S \ F)), S \ F)
<1> DEFINE r == RemovedUpdates(u, F, Cardinality(S \ F))
<1>1. Cardinality(S \ F) \in Nat
  BY SlotSetCardinality
<1>2. r.present = u.present /\ r.nodeCount = Cardinality(S \ F)
  BY <1>1 DEF RemovedUpdates, ChainUpdatesType
<1>3. CASE SendNodeData
  <2>1. r.addedNodes = u.addedNodes \ F /\ r.removedNodes = u.removedNodes \cup F
    BY <1>3 DEF RemovedUpdates, ChainUpdatesType
  <2>. QED
    BY <1>2, <1>3, <2>1 DEF DeltasAgree
<1>4. CASE ~SendNodeData
  <2>1. r.addedNodes = u.addedNodes /\ r.removedNodes = u.removedNodes
    BY <1>4 DEF RemovedUpdates, ChainUpdatesType
  <2>. QED
    BY <1>2, <1>4, <2>1 DEF DeltasAgree
<1>. QED
  BY <1>3, <1>4

\* remove_nodes keeps every chain's deltas in agreement: a whole chain's
\* ChainUpdates is dropped, a partly removed chain records its freed slots,
\* and every other chain is left alone.
LEMMA RemoveNodesAgree ==
    ASSUME TypeOK, AllAgree, NEW ids, NEW m, RemoveNodes(ids, m)
    PROVE  AllAgree'
<1> DEFINE group   == [c \in Chains |->
                         IF ChainExists(c) THEN {s \in Slots : <<c, s>> \in ids} ELSE {}]
           whole   == {c \in Chains : /\ group[c] # {} /\ chains[c].present
                                      /\ chains[c].nodeCount = Cardinality(group[c])}
           partial == {c \in Chains : /\ group[c] # {} /\ chains[c].present
                                      /\ c \notin whole}
           freed   == [c \in Chains |-> IF c \in partial THEN group[c] \cap stNodes[c]
                                        ELSE {}]
<1>1. /\ stNodes' = [c \in Chains |-> stNodes[c] \ freed[c]]
      /\ chains' = [c \in Chains |->
                      IF c \in whole THEN DefaultUpdates
                      ELSE IF freed[c] # {}
                           THEN RemovedUpdates(chains[c], freed[c], Cardinality(stNodes'[c]))
                           ELSE chains[c]]
  BY DEF RemoveNodes
<1>2. ASSUME NEW c \in Chains PROVE DeltasAgree(chains'[c], stNodes'[c])
  <2>1. CASE c \in whole
    BY <1>1, <2>1, DefaultAgrees
  <2>2. CASE c \notin whole /\ freed[c] # {}
    <3>1. /\ chains[c] \in ChainUpdatesType
          /\ stNodes[c] \in SUBSET Slots
          /\ freed[c] \in SUBSET Slots
          /\ DeltasAgree(chains[c], stNodes[c])
      BY DEF TypeOK, AllAgree
    <3>2. DeltasAgree(RemovedUpdates(chains[c], freed[c], Cardinality(stNodes[c] \ freed[c])),
                      stNodes[c] \ freed[c])
      BY <3>1, RemovedAgrees
    <3>. QED
      BY <1>1, <2>2, <3>2
  <2>3. CASE c \notin whole /\ freed[c] = {}
    <3>1. stNodes'[c] = stNodes[c] /\ chains'[c] = chains[c]
      BY <1>1, <2>3
    <3>. QED
      BY <3>1 DEF AllAgree
  <2>. QED
    BY <2>1, <2>2, <2>3
<1>. QED
  BY <1>2 DEF AllAgree
\* Draining the three delta sets keeps the count and the State agreeing.
LEMMA DrainedAgrees ==
    ASSUME NEW u \in ChainUpdatesType, NEW S, DeltasAgree(u, S)
    PROVE  DeltasAgree(Drained(u), S)
BY DEF Drained, DeltasAgree, ChainUpdatesType

\* State::new's chains have no deltas and node_count 0.
LEMMA LoadedAgrees ==
    ASSUME NEW meta, NEW S
    PROVE  \A c \in Chains : DeltasAgree(LoadedChains(meta)[c], S)
BY DEF LoadedChains, DefaultUpdates, DeltasAgree

LEMMA InitDInv == Init => DInv
<1> SUFFICES ASSUME Init PROVE DInv
  OBVIOUS
<1>1. IInv
  BY InitIInv
<1>2. AllAgree
  BY LoadedAgrees DEF Init, AllAgree
<1>. QED
  BY <1>1, <1>2 DEF DInv

LEMMA NextDInv == DInv /\ [Next]_vars => DInv'
<1> SUFFICES ASSUME DInv, [Next]_vars PROVE AllAgree'
  BY NextIInv DEF DInv
<1> USE DEF DInv, IInv
<1>1. CASE ConnectShard
  BY <1>1 DEF ConnectShard, AllAgree
<1>2. ASSUME NEW conn \in ConnIds, NEW local \in Locals, NEW c \in Chains,
             AddNode(conn, local, c)
      PROVE  AllAgree'
  <2>1. PICK s \in Slots \ stNodes[c] :
          /\ stNodes' = [stNodes EXCEPT ![c] = @ \cup {s}]
          /\ chains' = [chains EXCEPT ![c] =
                          AddedUpdates(Entry(c), s, Cardinality(stNodes'[c]))]
    BY <1>2 DEF AddNode, ShardIdFresh
  <2>2. stNodes'[c] = stNodes[c] \cup {s}
    BY <2>1 DEF TypeOK
  <2>3. DeltasAgree(AddedUpdates(Entry(c), s, Cardinality(stNodes[c] \cup {s})),
                    stNodes[c] \cup {s})
    BY EntryType, EntryAgrees, AddedAgrees DEF TypeOK
  <2>4. ASSUME NEW d \in Chains, d # c
        PROVE  DeltasAgree(chains'[d], stNodes'[d])
    BY <2>1, <2>4 DEF TypeOK, AllAgree
  <2>. QED
    BY <2>1, <2>2, <2>3, <2>4 DEF TypeOK, AllAgree
<1>3. ASSUME NEW conn \in ConnIds, NEW local \in Locals, NEW k \in Payloads,
             UpdateNode(conn, local, k)
      PROVE  AllAgree'
  <2>1. PICK p \in nodeIds :
          chains' = [chains EXCEPT ![p[1][1]] =
                       [Entry(p[1][1]) EXCEPT !.updatedNodes[p[1][2]] = @ \cup {k}]]
    BY <1>3 DEF UpdateNode
  <2>2. p[1][1] \in Chains /\ p[1][2] \in Slots
    BY DEF TypeOK, NodeIds
  <2>3. DeltasAgree([Entry(p[1][1]) EXCEPT !.updatedNodes[p[1][2]] = @ \cup {k}],
                    stNodes[p[1][1]])
    BY <2>2, EntryType, EntryAgrees, RecordAgrees
  <2>. QED
    BY <1>3, <2>1, <2>2, <2>3 DEF UpdateNode, TypeOK, AllAgree
<1>4. ASSUME NEW conn \in ConnIds, NEW local \in Locals, RemoveNode(conn, local)
      PROVE  AllAgree'
  <2>1. PICK p \in nodeIds : RemoveNodes({p[1]}, nodeIds \ {p})
    BY <1>4 DEF RemoveNode
  <2>. QED
    BY <2>1, RemoveNodesAgree
<1>5. ASSUME NEW conn \in ConnIds, DisconnectNode(conn)
      PROVE  AllAgree'
  BY <1>5, RemoveNodesAgree DEF DisconnectNode
<1>6. ASSUME NEW n \in NodeIds, NEW found \in BOOLEAN, UpdateNodeLocation(n, found)
      PROVE  AllAgree'
  <2>1. n[1] \in Chains /\ n[2] \in Slots
    BY DEF NodeIds
  <2>2. DeltasAgree([Entry(n[1]) EXCEPT !.updatedNodes[n[2]] = @ \cup {Location}],
                    stNodes[n[1]])
    BY <2>1, EntryType, EntryAgrees, RecordAgrees
  <2>. QED
    BY <1>6, <2>1, <2>2 DEF UpdateNodeLocation, TypeOK, AllAgree
<1>7. CASE Tick
  <2>1. ASSUME NEW c \in Chains PROVE DeltasAgree(Drained(chains[c]), stNodes[c])
    BY DrainedAgrees DEF TypeOK, AllAgree
  <2>. QED
    BY <1>7, <2>1 DEF Tick, TypeOK, AllAgree
<1>8. CASE Restart
  BY <1>8, LoadedAgrees DEF Restart, AllAgree
<1>9. CASE UNCHANGED vars
  BY <1>9 DEF vars, AllAgree
<1>. QED
  BY <1>1, <1>2, <1>3, <1>4, <1>5, <1>6, <1>7, <1>8, <1>9 DEF Next

\* In every reachable state, and for every value of the constants, each
\* chain's pending deltas agree with the inner State: AddedNode names a
\* held node, RemovedNode a freed one, never the same NodeId, and the
\* node_count a tick broadcasts is the State's count; remove-then-re-add of
\* a reused slot in one tick included.
THEOREM PendingDeltasAgreement == Spec => []PendingDeltasAgree
<1>1. Init => DInv
  BY InitDInv
<1>2. DInv /\ [Next]_vars => DInv'
  BY NextDInv
<1>3. DInv => PendingDeltasAgree
  BY AllAgreePending DEF DInv
<1>. QED
  BY <1>1, <1>2, <1>3, PTL DEF Spec
=============================================================================
