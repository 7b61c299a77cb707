----------------------------- MODULE FeedChunks -----------------------------
(***************************************************************************)
(* How the batching State cuts what it sends to feeds into websocket      *)
(* messages (state/batched.rs): drain_chain_updates turns one chain's      *)
(* removed, added and updated nodes into serializers of MSGS_PER_WS_MSG    *)
(* entries each, and update_added_nodes_messages turns a chain's node     *)
(* slots into the roster chunks a new subscriber is sent.                 *)
(*                                                                         *)
(* A feed message is a pair <<kind, id>>.  A stored payload is replayed    *)
(* through the inner State's update_node, which pushes its cascade of      *)
(* messages; each replay is modelled by one message of its kind.  The     *)
(* inputs are every drain and every slot vector up to the bounds; they    *)
(* are fixed in the initial state and never change.                        *)
(***************************************************************************)
EXTENDS Naturals, Sequences, SequencesExt, Functions

CONSTANTS
    MsgsPerWsMsg,   \* Self::MSGS_PER_WS_MSG (64 in the code)
    Ids,            \* node ids of one chain
    MaxEntries,     \* bound: removed or added nodes of one drain
    MaxUpdated,     \* bound: updated nodes of one drain
    MaxSlots        \* bound: slots of the chain's dense node vector

\* The payload slots of NodeUpdates in the order drain_chain_updates
\* replays them (SystemConnected, SystemInterval, BlockImport,
\* NotifyFinalized, AfgAuthoritySet).
PayloadOrder == <<"connected", "interval", "import", "finalized", "authority">>

VARIABLES
    removed,    \* removed_nodes in the order drain() yields them
    added,      \* added_nodes in the order drain() yields them
    updated,    \* updated_nodes: <<id, location set?, set of payload kinds>>
    slots       \* nodes_slice(): per slot, absent, or present and stale or not

vars == <<removed, added, updated, slots>>

DistinctSeqs(S, n) == {s \in BoundedSeq(S, n) : IsInjective(s)}

-----------------------------------------------------------------------------
(* The algorithm.                                                          *)

Minimum(a, b) == IF a <= b THEN a ELSE b

\* itertools' chunks(k): consecutive pieces of k, the last one shorter.
Chunks(s, k) ==
    [i \in 1 .. ((Len(s) + k - 1) \div k) |->
        SubSeq(s, (i - 1) * k + 1, Minimum(i * k, Len(s)))]

\* One message per element of every chunk, one serializer per chunk.
Serialize(chunks, Msgs(_)) ==
    [i \in DOMAIN chunks |-> FlattenSeq([j \in DOMAIN chunks[i] |-> Msgs(chunks[i][j])])]

RemovedMsgs(id) == <<<<"RemovedNode", id>>>>
AddedMsgs(id) == <<<<"AddedNode", id>>>>

\* The messages of one updated node: LocatedNode first, then every stored
\* payload replayed in the fixed order.
UpdatedMsgs(e) ==
    (IF e[2] THEN <<<<"LocatedNode", e[1]>>>> ELSE <<>>)
    \o [i \in 1 .. Len(SelectSeq(PayloadOrder, LAMBDA k : k \in e[3])) |->
          <<SelectSeq(PayloadOrder, LAMBDA k : k \in e[3])[i], e[1]>>]

\* drain_chain_updates for one chain: removed chunks, added chunks, then
\* updated chunks, each chunk one serializer.
DrainChainUpdates(r, a, u) ==
    Serialize(Chunks(r, MsgsPerWsMsg), RemovedMsgs)
    \o Serialize(Chunks(a, MsgsPerWsMsg), AddedMsgs)
    \o Serialize(Chunks(u, MsgsPerWsMsg), UpdatedMsgs)

\* The roster messages of the node in slot i (0-based index): AddedNode,
\* FinalizedBlock and, for a stale node, StaleNode.
NodeMsgs(e) ==
    IF e[2] = "absent" THEN <<>>
    ELSE <<<<"AddedNode", e[1]>>, <<"FinalizedBlock", e[1]>>>>
         \o (IF e[2] = "stale" THEN <<<<"StaleNode", e[1]>>>> ELSE <<>>)

\* update_added_nodes_messages for one chain: the enumerated slots in chunks,
\* each chunk's present nodes serialized, and a chunk with no message left
\* out by into_finalized and filter_map; collected in chunk order.
Roster(s) ==
    SelectSeq(Serialize(Chunks([i \in DOMAIN s |-> <<i - 1, s[i]>>], MsgsPerWsMsg),
                        NodeMsgs),
              LAMBDA c : c # <<>>)

-----------------------------------------------------------------------------
(* Every input up to the bounds, fixed in the initial state: a drain of   *)
(* one chain, or the slot vector of one chain.                             *)

Init ==
    \/ /\ slots = <<>>
       /\ removed \in DistinctSeqs(Ids, MaxEntries)
       /\ added \in DistinctSeqs(Ids, MaxEntries)
       /\ updated \in {u \in BoundedSeq(Ids \X BOOLEAN \X (SUBSET {"interval", "import"}),
                                        MaxUpdated) :
                         /\ IsInjective([i \in DOMAIN u |-> u[i][1]])
                         /\ \A i \in DOMAIN u : u[i][2] \/ u[i][3] # {}}
    \/ /\ removed = <<>> /\ added = <<>> /\ updated = <<>>
       /\ slots \in BoundedSeq({"absent", "live", "stale"}, MaxSlots)

Next == UNCHANGED vars

Spec == Init /\ [][Next]_vars

-----------------------------------------------------------------------------
(* Properties.                                                             *)

\* Spec 4.C, 6 and 8 ("every chunk sent to feeds contains at most 64
\* logical messages"): no websocket message that drain_chain_updates or
\* update_added_nodes_messages builds holds more than MSGS_PER_WS_MSG
\* messages.  Both cut their input into chunks of 64 entries (nodes or
\* slots), and one entry gives up to six messages in a drain and three in
\* a roster.
FeedChunkWithinBound ==
    LET drain == DrainChainUpdates(removed, added, updated)
        roster == Roster(slots)
    IN  /\ \A i \in DOMAIN drain : Len(drain[i]) <= MsgsPerWsMsg
        /\ \A i \in DOMAIN roster : Len(roster[i]) <= MsgsPerWsMsg
=============================================================================
