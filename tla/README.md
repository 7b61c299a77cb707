# TLA+ models of the telemetry core's batched state

This directory holds TLA+ models of the telemetry core's aggregation state. The
sources are `src/backend/telemetry_core/src/state/batched.rs` and
`src/backend/telemetry_core/src/aggregator/aggregator.rs`. It also holds the TLC
configurations that check the models and the TLAPS proofs about them.

## 1. The system

The aggregator runs a single loop (`InnerLoop`, not under `src/`). The loop handles
one message at a time from an unbounded channel. The messages come from three sources:

* **Shards.** `Aggregator::subscribe_shard` gives each shard connection a `ConnId`
  from an atomic counter that starts at 1. The shard then sends `Add`, `Update`,
  `Remove` and `Disconnected` messages, each naming one of its local ids
  (`ShardNodeId`).
* **The ticker.** `Aggregator::spawn` starts an interval task that sends
  `SendUpdates` on every tick.
* **Location lookups.** These start when a node is added and answer later, through
  `update_node_location`.

The loop owns the batching `State` of `batched.rs`, which has these parts:

* the inner `State` of `state.rs`: chains, and nodes in dense slots with a
  third-party quota;
* `node_ids`: a `BiMap` between `NodeId` and `(ConnId, ShardNodeId)`;
* `chains`: a `ChainUpdates` per genesis hash. It holds the node count, the
  high-water mark, and the `added_nodes`, `removed_nodes` and `updated_nodes`
  deltas since the last tick;
* `removed_chains`;
* the `Metadata`, with each chain's `highest_node_count`, persisted as a JSON file
  when `metadata_path` is set.

On `SendUpdates` the loop does two things:

1. `drain_updates_for_all_feeds` updates the metadata and writes it. The write may
   fail; the failure is only logged. It then broadcasts `AddedChain` for every
   entry of `chains` and `RemovedChain` for every entry of `removed_chains`.
2. `drain_chain_updates` sends, for each chain with a non-zero `node_count`, its
   removed-node chunks, then its added-node chunks, then its updated-node chunks.

## 2. Modules

| Module | Models |
|---|---|
| `BatchedState` | the batching `State`, the inner node `State` (from the spec), the shard side of the aggregator handle, the ticker, the location lookups, and one feed subscribed to every chain |
| `MC_BatchedState` | the instance for TLC; constants are given in the `.cfg` files |
| `BatchedState_proofs` | TLAPS proofs of type correctness and of the soundness of the identity map |
| `NodeRegistry` | the abstract specification: what the aggregator promises about node identity (spec 3, 4.B, 4.F), with no slots, deltas or feeds |
| `Registry_proofs` | TLAPS proof that `BatchedState` implements `NodeRegistry` |
| `Deltas_proofs` | TLAPS proof that the pending deltas agree with the inner State (`PendingDeltasAgree`) |
| `FeedView_proofs` | TLAPS proof that every tick leaves the feed showing every live node (`TickShowsLiveNodes`) |
| `FeedChunks` | the chunking of `drain_chain_updates` and of `update_added_nodes_messages`, as pure operators over every bounded input |
| `MC_FeedChunks` | the instance of `FeedChunks` for TLC |
| `FeedChunks_proofs` | TLAPS proof that `Chunks` is an exact, ordered partition for every input and every chunk size (`ChunksArePartition`) |

### State of `BatchedState`

| Variable | Code |
|---|---|
| `stNodes[c]` | the occupied slots of chain `c` in the inner `State` (a `NodeId` is `<<c, slot>>`) |
| `nodeIds` | `node_ids`, as a set of `<<NodeId, <<ConnId, ShardNodeId>>>>` pairs |
| `chains[c]` | `chains`, as a total function; the `present` flag says "the key is in the HashMap" |
| `removedChains` | `removed_chains` |
| `metadata`, `metaFile` | the in-memory `Metadata` and the contents of the file |
| `shardConns`, `nextShardConn` | open shard connections and `AggregatorInternal.shard_conn_id` |
| `lookups` | location lookups started and not yet answered |
| `fileTorn` | the metadata file was cut short: a crash during `std::fs::write`, or a write that failed after truncating it |
| `loopUp` | the `InnerLoop` was constructed and is handling messages |
| `feedView[c]` | the nodes of chain `c` that a feed displays after applying what it received |

The data is abstracted:

* A payload is its kind.
* Chain labels and node details are left out. The feed keeps only the set of
  nodes it displays. Chunking is modelled on its own in `FeedChunks`.

### Actions of `BatchedState`

There is one action per message the loop handles:

| Action | Code | Lines |
|---|---|---|
| `ConnectShard` | `subscribe_shard` | aggregator.rs 151-171 |
| `AddNode` | `add_node` | batched.rs 292-329 |
| `UpdateNode` | `update_node` | batched.rs 331-373 |
| `RemoveNode` | `remove_node` | batched.rs 375-389 |
| `DisconnectNode` | `disconnect_node` | batched.rs 391-399 |
| `UpdateNodeLocation` | `update_node_location` | batched.rs 452-469 |
| `Tick` | `drain_updates_for_all_feeds` then `drain_chain_updates` | batched.rs 164-290 |
| `Restart` | the process stops; `State::new` reloads the metadata, and `handle_messages` gives up if that fails | batched.rs 106-147, aggregator.rs 122-134 |

`RemoveNode` and `DisconnectNode` share the operator `RemoveNodes`, which is
`remove_nodes` (batched.rs 401-450). It groups the ids per chain. For each chain:

* A group whose size equals `node_count` drops the chain's `ChainUpdates` and marks
  the chain removed. **Nothing else happens to those nodes.**
* Any other group removes each node from the BiMap and from the inner `State`, and
  records the deltas.

A new node takes the lowest free slot of its chain.

**What the shards are assumed to do.** The shards are not under `src/`. Spec 2 says
the pair `(ConnId, ShardNodeId)` names one publishing node. So `AddNode` is guarded
by `ShardIdFresh`: a shard never sends `Add` for a local id whose node it has not
removed. `add_node` itself does not check this. If a shard broke the promise,
`BiMap::insert` (batched.rs:314) would overwrite the old pair and orphan its node.
Only `ImplementsRegistry` (and `RefinesRegistry`) rests on this guard: the registry
promises keys that are fresh. `IdentityMapSound`, `PendingDeltasAgree` and
`TickShowsLiveNodes` would be proved the same way without it.

**Fault model.** A write of changed metadata (`WriteOutcomes`, batched.rs 165-171)
has three outcomes. It may succeed. `File::create` may fail and leave the file as
it was. Or the write may fail after the truncation (a full disk), which leaves a
torn file while the loop keeps running; only a later successful write repairs it.
Both failures are only logged. The process may also crash and restart at any point between two messages. A crash that lands in a tick
whose metadata changed may cut `std::fs::write` short. The write truncates the file
before it writes, so the file is then torn (`WriteTorn`). On restart `State::new`
cannot parse a torn file, so `InnerLoop::new` fails (`InnerLoopConstructs`).
`handle_messages` then logs and returns (aggregator.rs 130-133), while `spawn` has
already returned the handle. With `loopUp` false, `subscribe_shard` still hands out
ConnIds, but no message is handled. Every loop handler is guarded by `loopUp`.

## 3. Runs

Every run of `MC_BatchedState` uses these constants:

* two chains `c1` (first party) and `c2`, with `MaxThirdParty = 1`;
* two slots per chain;
* two shard connections over the lifetime, each with one `ShardNodeId`;
* one payload kind;
* `SendNodeData = TRUE`.

With these, a chain can hold two nodes from two shards. That allows a partial
removal next to a whole-chain removal, the reuse of a freed slot within a tick, a
quota refusal, and a late location answer for a reused slot. Every action fires.

Two slots are not enough for every case. A whole-chain removal that follows a
partial one in the same tick needs three nodes in one chain. That case showed that
an earlier, stronger form of `TickShowsLiveNodes` was false: it also said that the
feed shows only held nodes, and it passed at two slots. At three slots TLC finds the
trace (see the findings), but the run reaches 1.5 million states in nearly four
minutes, too slow to keep. The property as it stands is proved for every bound
instead (`TickShowsLiveNodesHolds`, section 4).

| Run | cfg | Expect | What it shows |
|---|---|---|---|
| safety | `MC_BatchedState.cfg` | pass | `TypeOK`; `IdentityMapSound` (the BiMap is a bijection onto nodes the State holds); `PendingDeltasAgree` (added and removed deltas are disjoint and agree with the State, and a non-zero `node_count` is the State's count); `TickShowsLiveNodes` (after every tick the feed shows every node a connected shard still publishes). 185k states. |
| refinement | `MC_Refinement.cfg` | pass | `ImplementsRegistry`: the batching State implements the abstract node registry |
| removed_nodes_destroyed | `MC_RemovedNodesDestroyed.cfg` | violation | removing the only node of a chain leaves it in the inner State |
| disconnect_forgets_shard | `MC_DisconnectForgetsShard.cfg` | violation | disconnecting that node's shard leaves its BiMap entry |
| high_water_monotonic | `MC_HighWaterMonotonic.cfg` (`MetadataPath = TRUE`) | violation | after the chain's entry is dropped, a late location answer recreates it with `highest_node_count` 0, and the next tick lowers the metadata |
| at_most_one_delta | `MC_AtMostOneDelta.cfg` | violation | an update in the same tick as the add puts the node in both `added_nodes` and `updated_nodes` |
| tick_forgets_removed_nodes | `MC_TickForgetsRemovedNodes.cfg` | violation | the last node of a chain leaves and another joins before the tick; the feed keeps showing the removed node |
| restart_recovers | `MC_RestartRecovers.cfg` (`MetadataPath = TRUE`) | violation | a crash during the metadata write, or a write that fails after truncating the file, leaves it torn; after the next restart the aggregator runs with no loop |
| feed_chunk_within_bound | `MC_FeedChunkWithinBound.cfg` (module `MC_FeedChunks`) | violation | a websocket message of `MSGS_PER_WS_MSG` updated nodes or roster slots holds more than `MSGS_PER_WS_MSG` messages |

### The findings

The first three violations come from one defect, batched.rs:419-423. When a removal
covers the whole `node_count` of a chain, the nodes are never destroyed. These
"ghost" nodes:

* stay in the inner State;
* count toward the quota;
* would be sent in the roster;
* keep stale BiMap entries.

A ghost node can also get a location answer, and that answer resurrects the chain's
`ChainUpdates` with high-water 0.

The same defect has a fourth effect, found by `TickForgetsRemovedNodes`. The
whole-chain branch records no `RemovedNode`; only `removed_chains` announces the
removal. If a node joins the chain before the next tick, `add_node` deletes the chain
from `removed_chains` (batched.rs:311). The feed is then told of neither removal and
shows the removed node for ever.

The whole-chain branch also throws away the chain's pending `removed_nodes`. With
three nodes in a chain: a disconnect frees two of them (the partial branch records
two `RemovedNode`s), a Remove of the third takes the whole branch and drops them, and
a new node joins before the tick. The feed then keeps showing the two freed slots,
which the State no longer holds, for ever. This needs three slots in a chain, which is
why the two-slot runs did not show it.

`AtMostOneDelta` is a divergence from the spec: `update_node` does not check
`added_nodes`.

`RestartRecovers` is a divergence from spec section 7, which says a failure to
construct the loop is fatal. It comes from two pieces of code together: the
non-atomic `std::fs::write` (batched.rs:169) and the early return of
`handle_messages` (aggregator.rs:130). The file can be torn by a crash in the
middle of the write, or by a write that fails after the truncation and is only
logged.

`FeedChunkWithinBound` is a divergence from spec 4.C and 8: "every chunk sent to
feeds contains at most 64 logical messages". Both builders count entries, not
messages:
* `update_added_nodes_messages` chunks 64 *slots* (batched.rs:491). Each present
  node pushes `AddedNode`, `FinalizedBlock` and maybe `StaleNode`, so a chunk can
  hold up to 192 messages. The comment at 483-485 says the chunk size counts node
  infos.
* `drain_chain_updates` chunks 64 *updated nodes* (batched.rs:238). Each one pushes
  a `LocatedNode` and one replay cascade per stored payload.

The model counts one message per replay, which is a lower bound, since a replay
pushes at least its own message. With chunks of 2, one node with three messages
crosses the bound. With chunks of 64, it takes 22 such nodes in one chunk.

### What holds despite the ghosts

Two things still hold:

* The BiMap stays sound, because a ghost's entry is never used to free a slot.
* Every node a connected shard still publishes is on the feed after each tick
  (`TickShowsLiveNodes`, proved). The whole-chain branch is taken only when the
  group is every node the State holds, and each of those is being removed or is on
  the connection that closes. So the `RemovedChain` it causes never hides a live
  node. The feed is not exact: it may show removed nodes as well (see above).

### The chunking (`FeedChunks`)

`FeedChunks` has no dynamics. Its initial states are every input up to the bounds:
either one chain's drain (up to 3 removed and 3 added distinct ids, and up to 2
updated entries with or without a location and with a set of payload kinds) or a
slot vector of up to 5 slots, each absent, live or stale. `Next` only stutters.

* `Chunks` is itertools' `chunks`.
* `Serialize` gives one serializer per chunk.
* A message is a pair `<<kind, id>>`.
* A replayed payload is one message of its kind.

The run `feed_chunk_within_bound` checks the per-message bound of spec 4.C. The
exact-partition property of `Chunks` is proved for every input and every chunk size
(`ChunksArePartition`, section 4). So no property compares the concatenated output
with a reference list: such a reference would be built from the same per-entry
operators, and would hold by the partition alone.

### The refinement (`NodeRegistry`)

`NodeRegistry` is what the aggregator promises about identity. Open connections get
ConnIds from a counter. A node is registered under a NodeId and a
`(ConnId, ShardNodeId)` key that no registered node has. Remove and Disconnected
unregister it, and a restart forgets everything.

`BatchedState` implements it under the mapping `LivePairs`: the BiMap pairs whose
connection is still open. A pair of a closed connection is hidden, because no message
can name it again. Ghost nodes are hidden by this mapping, so the refinement holds
despite them. The mutant `AddNodeTakenSlot` gives a new node an occupied slot and
breaks it.

### Fairness

No liveness property is checked, and no fairness is assumed. The interval task of
`Aggregator::spawn` (aggregator.rs 80-91) sends `SendUpdates` every tick for as long
as the loop runs. With that, the only question a liveness property could ask is
whether a tick shows every live node. `TickShowsLiveNodes` answers that for every
tick, and it is proved for every bound.

### Mutants

Each property of a passing run is broken by one plausible bug:

| Mutant | Breaks |
|---|---|
| the counter starts at 0 (`InitConnFromZero`) | `TypeOK` |
| a re-added node stays in `removed_nodes` (`AddedKeepRemoved`) | `PendingDeltasAgree` |
| a partial removal keeps the BiMap entries (`KeepLeftIds`) | `IdentityMapSound` |
| added-node chunks are not sent (`ViewWithoutAdditions`) | `TickShowsLiveNodes` |
| a new node takes an occupied slot (`AddNodeTakenSlot`) | `ImplementsRegistry` |

## 4. Proofs

The proofs assume `ConstantsAssumption`: `FirstParty \subseteq Chains`, and
positive `MaxSlots` and `MaxShardConns`.

* **`TypeCorrect`: `Spec => []TypeOK`.** The proof is a per-action induction.
  Lemmas give the type of each record update (`RecordUpdateType`,
  `RemovedUpdatesType`, `DrainedType`, `LoadedChainsType`). `SlotSetCardinality`
  bounds the node counts stored in `ChainUpdates`.
* **`IdentityMapSoundness`: `Spec => []IdentityMapSound`.** The inductive invariant
  is `TypeOK /\ IdentityMapSound`. The type is needed so that a pair's chain lies in
  the domain of `stNodes`. The proof rests on two lemmas:
  * `BiInsertSound`: `BiMap::insert` keeps the map a bijection, and the inserted
    node is held.
  * `RemoveNodesSound`: `remove_nodes` only drops pairs. It frees a slot only in a
    partially removed chain, whose group it also removes by left, so every
    remaining pair names a held slot.

* **`RefinesRegistry`: `Spec => ImplementsRegistry`** (`Registry_proofs`). The
  inductive invariant is `IInv /\ ConnsIssued`. `ConnsIssued` says every ConnId that
  a pair or an open connection carries is below `nextShardConn`. Without it,
  `subscribe_shard` could open a ConnId that an old pair still carries, and make a
  closed connection's pair live again: that step is not an `Open` of the registry.
  The step proof has one case per action:
  * `AddNode` is `Register`: the slot is free, by `IdentityMapSound`, and the
    key is unused, by the shards' promise `ShardIdFresh`.
  * `RemoveNode` is `Unregister`, and `DisconnectNode` is `Close`. Lemma
    `RemoveNodesKeeps` says `remove_nodes` only drops pairs of the ids it is given.
  * `Restart` is `Reset`.
  * Every other action leaves `LivePairs`, `shardConns` and `nextShardConn` alone.

* **`PendingDeltasAgreement`: `Spec => []PendingDeltasAgree`** (`Deltas_proofs`).
  The property is stated per chain (`DeltasAgree(u, S)`), and so is the proof. It is
  inductive only with one more fact: with `send_node_data` off, `added_nodes` and
  `removed_nodes` stay empty. Without it, `add_node` would leave `removed_nodes`
  alone and make a removed slot occupied again, and `remove_nodes` would leave
  `added_nodes` alone and free an added slot. TLAPS found that the first attempt, with
  only `removed_nodes` empty, was not inductive. The lemmas follow the code's helpers:
  * `AddedAgrees`, `RemovedAgrees` and `DrainedAgrees` for the `ChainUpdates`
    changes;
  * `EntryAgrees` for `or_default`;
  * `RemoveNodesAgree` for the three branches of `remove_nodes`.

* **`TickShowsLiveNodesHolds`: `Spec => TickShowsLiveNodes`** (`FeedView_proofs`).
  The feed changes only at a tick, so the invariant is about what a tick would show
  if it came now. `Shown(c)` is the feed after the all-feeds payload (empty if the
  chain is in `removed_chains`), minus the pending removed nodes, plus the pending
  added ones. The inductive invariant is `RInv /\ AllAgree /\ FeedInv`, where
  `FeedInv` says of every chain:
  * `LiveCountedAt`: a chain with a live node is in the HashMap with a non-zero
    `node_count`, so `drain_chain_updates` visits it;
  * `ShownAt`: with `send_node_data` on, `Shown(c)` holds every live node.

  TLC checked this invariant before the proof: at two and at three slots
  (1.5 million states), with no violation. Each conjunct it adds is needed:
  * `ConnsIssued` (from `Registry_proofs`): opening a connection makes no old pair
    live.
  * `AllAgree` (from `Deltas_proofs`): in the whole-chain branch,
    `node_count = |group|` together with `node_count = |stNodes|` gives
    group = every held node (`FS_Subset`). Every pair of the chain is then removed,
    or is on the closing connection, so the chain has no live node left.
  * `LiveCountedAt`: `or_default` creates an empty entry only for a chain with no
    live node, and a tick drains every chain that has one.

  The lemmas are:
  * `RemoveNodesFeed` covers the three branches of `remove_nodes`, for any caller
    whose ids are held and whose pairs with those ids are gone or closed afterwards;
    both callers are of this kind.
  * `RecordFeed` covers `update_node` and the location answer.
  * `FeedFramed` and `FeedDead` cover chains a step leaves alone or leaves with no
    live node.
  * `TickShows` derives the action property from the invariant: the live nodes do
    not change at a tick, and the feed becomes `Shown(c)`.

* **`ChunksArePartition`** (`FeedChunks_proofs`). For every sequence `s` and every
  `k > 0` (so for `MSGS_PER_WS_MSG = 64`, where TLC runs `k = 2`),
  `ChunksPartition(s, k)` holds:
  * `Chunks(s, k)` is a sequence of sequences of entries of `s`;
  * no chunk is empty, none holds more than `k` entries, and every chunk but the
    last holds exactly `k`;
  * entry `j` of chunk `i` is entry `(i-1)*k + j` of `s`;
  * conversely, entry `n` of `s` is entry `(n-1) % k + 1` of chunk
    `(n-1) \div k + 1`.

  So `chunks(64)` in `drain_chain_updates` and `update_added_nodes_messages` drops,
  repeats and reorders nothing, and sends no empty chunk. The argument is
  arithmetic on `\div` and `%`, plus `SubSeqProperties` from `SequenceTheorems`
  for each chunk. It rests on two lemmas:
  * `ChunkBounds`: chunk `i` of `(L + k - 1) \div k` starts inside `s` and holds 1
    to `k` entries, exactly `k` if it is not the last.
  * `EntryChunk`: the chunk and position named above exist for every entry.

  The theorem needs no assumption on the constants. It is not stated as
  `Spec => []...`, because `FeedChunks` has no dynamics.

Some things are checked only by TLC, or not at all:

* The violation runs are counterexamples, which TLC finds; there is nothing to
  prove about them.
* What a drain or a roster sends, once its chunks are concatenated, is not stated.
  `ChunksArePartition` proves the part that is about `Chunks`. The rest is about
  what `FlattenSeq` and `SelectSeq` return for every input.
  * `FlattenSeq` is a recursive function defined in a `LET`, and `SelectSeq` is
    defined recursively in `Sequences`.
  * Using either one's defining equation, or reasoning over all inputs, takes
    induction over the length of the sequence.
  * The library states that induction only with an operator parameter, and the
    installed provers cannot instantiate that.
* Liveness and `ENABLED` are beyond TLAPS. The project checks no liveness property
  (see Fairness).

## 5. Not modelled yet, and the plan

The next steps, in order:

1. **Chain labels** and `has_chain_label_changed` (batched.rs 181-188, 323-324,
   439). The label computation is in `state.rs`, so it must be modelled from the
   spec. `add_node` overwrites the flag with the last add's answer, and
   `remove_nodes` never sets it.
2. **The denylist** (`ChainOnDenyList`).
3. **More proofs.** Every safety property of the passing runs of `BatchedState` is
   proved, and so is the chunking partition of `FeedChunks`. What is left:
   * the concatenation of `FeedChunks`' output, which is out of reach (see above);
   * any new component or property that the steps above add.

Not modelled, and why:

* **The inner loop** (`inner_loop.rs`) is not under `src/`. That covers the queue and
  its `max_queue_len` drop policy, feed subscriptions, and when the roster cache is
  regenerated and sent. `aggregator.rs` creates an unbounded channel (line 78), and
  an unbounded queue gives TLC no bound to check.
* **`subscribe_feed` and `gather_metrics`** only feed that loop.
* **Feed message serialization and the websocket transport** are pure encoding and
  I/O. `FeedChunks` keeps each message's kind and node.
