# Paritr node: TLA+ models and proofs

This directory holds a TLA+ model of the Paritr node (protocol 9, `src/src/`),
the TLC configurations that check it on small instances, and proofs of its
central invariants that TLAPS checks for every instance. Source paths below are
relative to the repository, e.g. `src/node.rs`.

## 1. The system

A Paritr node keeps one proof-of-work block chain with accounts. It validates
blocks, chooses the chain with the most work, keeps unconfirmed transactions,
mines, collects *workshares* (hashes that miss the block target but prove work,
settled in later blocks and paid from the reward pool), and exchanges blocks,
transactions, templates and workshares with peers over websockets.

| Part | State | Operations | Module |
|---|---|---|---|
| Chain and fork choice (`consensus/chain.rs`, `node.rs`) | `Node.chain`, by its tip | `submit_block`, `append`, `consider_chain`, `assemble_candidate` | `BlockTree`, `ForkChoice`, `ChainStore` |
| Storage (`storage.rs`) | tables `blocks`, `active_chain`, `metadata`, `state_snapshots` | `store_side_block`, `save_chain`, `load_active_blocks` | `ChainStore` |
| Rewards (`consensus/rewards.rs`, `params.rs`) | none | `reward_allocation`, `block_subsidy` | `Rewards` |
| Ledger (`consensus/state.rs`, `validation.rs`) | accounts, pending rewards, sparse Merkle tree | `mature`, `apply_transactions`, `schedule_reward`, `validate_block` | `Ledger` |
| Mempool (`mempool.rs`, `policy.rs`) | entries, index by sender and nonce, size | `accept`, `remove_confirmed`, `expire_and_trim`, `select` | `Mempool` |
| Workshares and mining (`node.rs`, `miner.rs`) | `WorksharePool`, orphan pool, generation, worker threads | `submit_workshare`, `register_template`, `mining_candidate`, `mine_loop`, handlers, `pending_request_for` | `Mining` |
| Block synchronization (`p2p.rs`, `node.rs`) | connections, sync queues, broadcast channel | handshake, `handle_wire`, `block_locator`, `request_sync` | `Sync` |
| Peer table and dial loop (`node.rs`, `p2p.rs`) | `connected_peers`, a task per configured peer, `node_enabled` | `peer_connected`, `peer_disconnected`, `spawn_outbound_manager`, handshake | `Peers` |
| Difficulty (`consensus/difficulty.rs`) | none | compact targets, ASERT, work | `Difficulty` |
| RandomX (`pow.rs`) | current context, contexts in use, idle machines | `context_for`, `calculate` | `RandomX` |
| Queries about rewards (`node.rs`) | none | `mining_rewards`, `historical_reward`, `pending_for`, `scheduled_supply` | `Queries`, `Rewards` |
| Encoding (`codec.rs`, `consensus/types.rs`, `p2p.rs`) | none | `consensus_encode`, `consensus_decode`, `encode_frame`, `decode_frame`, `merkle_root` | `Codec` |
| Configuration and portal agent (`config.rs`, `rpc.rs`, `portal.rs`) | one file, two copies of it in the process, command results | load, change, save, apply, restart; poll and execute | `Settings` |

How the parts meet. `submit_block` is the centre: under the chain write lock it
validates on a clone, writes the database in two transactions, updates the
mempool, replaces the chain, empties both workshare pools, counts a new
generation and announces the tip. Worker threads build candidates under the
chain read lock and poll the generation. A task per connection answers messages
through `handle_wire` and forwards what the broadcast channel carries. Clients
submit transactions through HTTP or peers.

What is hard here, and what the properties aim at:

- a crash or a failed write between the two transactions of `submit_block`;
  a clock that is set back before a restart;
- branches that arrive in any order, equal work, invalid blocks inside them;
- locks that are released between a decision and its use (`submit_transaction`,
  the orphan pool, `mining_candidate`);
- synchronization that interleaves with announcements, lost connections, events
  published during the handshake;
- orphan workshares whose templates and predecessors are asked for one at a
  time, by whichever handler replies next;
- tasks of two processes that notice the end of a connection at different
  times, while the dialler already comes back;
- one configuration file that several requests read, change and rewrite, with
  restarts in between, followed by an agent that waits for the network;
- a context of 2 GiB that is replaced while other threads hash with it;
- integer division of rewards, compact targets, maturity, nonces, a Merkle tree
  cached beside the maps it commits to, a history of rewards computed a second
  time by a shortcut;
- nested encodings with a limit at every level, where a sender's limits and a
  receiver's must agree.

`PROJECT.json` lists these hazards by line, with the properties that cover them.

## 2. Modules

**BlockTree** declares the blocks a node may ever see (parents, work, hash
order, validity, timestamps) with the assumptions every block tree satisfies,
and the comparison of `consider_chain`. A chain is written as its tip.

**ForkChoice** is the abstract specification: the followed tip starts at the
genesis block and moves only to a valid chain that is preferred to it.

**ChainStore** is the node with its database. A submission is split where it
can be interrupted: decision, `store_side_block`, `save_chain`, publication.
`Crash` and `WriteFails` may hit each point; `OpenStored` revalidates the
stored chain against the clock. `interrupted` is a history variable: tips that
were stored by a submission whose second transaction never ran.

**Rewards** gives `reward_allocation` as operators (floor shares, then one unit
each to the largest remainders), **Difficulty** the compact encoding, the ASERT
schedule and the work of a target, with the digits, the widths and the
polynomial as parameters. **Ledger** extends `Rewards` and applies blocks
transaction by transaction to a clone of the state. The tree is modelled as its
leaves, updated where the code updates them, so that a forgotten update shows.
**Queries** extends `Ledger` with what wallets are told: the sum of an address's
rewards from its balance and transfers, and the list of them from the blocks.

**Codec** is the writer and the reader of blocks and messages, symbol by symbol:
a field of fixed width is one symbol, and so is a count, so that what remains is
where a field ends, how often it repeats and which limit applies; and the
Merkle root, with the children of a node for its hash.

**Arithmetic** puts the computations of `Rewards`, `Difficulty` and `Codec` in
one transition system: a behaviour is one call, with any of its inputs, and its
answer; a frame may be damaged on its way. Each of its five invariants compares
one computation with what it stands for.

**Mempool** models the pool with its two indexes and running size, clients
that clone the ledger state before they take the mempool lock, and blocks and
reorganizations that remove and offer back transactions.

**Mining** models worker threads, the handlers of peers' messages and the two
pools. One step is one locked section: building a candidate takes four steps
under the chain read lock, `submit_workshare` two (the generation is counted
after its locks are released), keeping an orphan two, and each turn of
`process_pending_workshares` one. `asked` holds the requests of
`pending_request_for` that the peer has not answered; the answer is a template
or workshare like any other. A remote share may be built on a block that this
node never follows (`OtherTip`, the other side of a tie). `Applies` says which
transaction lists are valid on which tip: templates with the others are refused.
`Publish` is the end of `submit_block`; it holds the chain write lock, so no
candidate is built during it.
`apply_mining_config` is one step although it counts the generation after it
stored the configuration: a worker between the two would only build a fresh
candidate once more. Since all shares of a pool have the same bits, a path
weighs its length.

**Sync** models any graph of nodes with handshakes, ordered channels, broadcast
queues of limited capacity and the five message types that move blocks.

**Peers** models the two ends of each connection as tasks of their own: the
three Hellos, the registration in either table, the loop that dials again, and
the switch that stops a node. An end that closes is noticed by the other one
later; what was sent before is still read. The loop of an end looks at the
switch only when a second has passed in one turn of `select!` (`RunsOut`, then
`ClientWakes` or `ServerWakes`); a message in between starts that second again
(`Message`). Failed checks of a Hello, timeouts, broken connections and an
exceeded `MessageBudget` are one action per end.
`SetEnabled` also counts a generation; for a worker in `Mining` a stopped node
is a configuration in which no worker is active.

**Settings** models the requests that change the configuration as load, save,
reload and apply, the restart three seconds after `schedule_restart` and a
crash anywhere, and the loop of the portal agent with the credentials it uses,
the results it carries and the commands left. A save may fail before its rename,
and nothing has happened, or after it, when it sets the permissions of the new
file; a pairing may be saved and then not be read again. In the last two cases
the request is told that it failed, its value is in the file, and the process
neither takes it over nor restarts for it. `intended`, `overlapped` and
`unapplied` (the fields such requests left in the file, until a later request or
process takes them over) are history variables. A restart asked for by
`admin_restart` is a `Crash`.

**RandomX** models the threads that hash: two looks at the current context
around the initialization lock, allocation, replacement under the write lock,
references (`Arc`), and the machines a context keeps for the next caller.

`MC*` modules give constants values; `ChainStoreProofs`, `LedgerProofs`,
`MempoolProofs`, `MiningProofs`, `SyncProofs`, `PeersProofs`, `SettingsProofs`
and `ComputationProofs` hold the theorems. `ComputationProofs` has those about
`RandomX`, `Difficulty` and the byte format of `Codec`; those about `Rewards` and
the Merkle root are in `LedgerProofs`, with the facts about sums they share.
Operators whose comment begins with
"Mutation:" are deliberately wrong variants of the operator that follows them.
They are not used by any specification; substituting one must make TLC report a
violation, which shows that the property can fail.

## 3. Runs

| Run | Question | Bounds and why they suffice |
|---|---|---|
| `chainstore` | Does the node follow the best complete chain, durably, through crashes, failed writes and clock changes, and does it come back? | Two branches with a tie each way, an invalid block with a descendant, two blocks from the future; two failures, one step back. Two failures are enough to interrupt a submission and the restart after it. |
| `arithmetic` | Is the pool handed out exactly, and in proportion? Does the compact form round down to the nearest representable target? Does the schedule double with every half-life? Has a message one encoding, and does what a node may send arrive? Does a root fix its list? | Every reward input with three addresses, weights up to 4, subsidies up to 25: all patterns of remainders and ties for three miners. Every target of five base-4 digits: all sizes, with and without the sign bit, the size one above the width. Heights and delays of several half-lives in both directions, past the limit and down to 1. Messages of every kind, blocks with nested templates and transactions, at each limit and one above it, as sent or with one symbol replaced, lost or inserted. Lists of up to four distinct transactions: every shape of tree up to three levels. |
| `ledger` | Are money, roots, nonces and maturity right along a chain, and does the history shown to wallets add up to what was paid? | Four blocks, maturity 2, window 2, halving every 2 blocks: rewards of several heights overlap and mature, one halving and the floor after it are passed, one account is drained and funded again. |
| `mempool` | Do index, size, replacement, eviction and selection stay right when submissions race blocks and reorganizations? | Five transactions in three slots, room for three units of size, three blocks, a TTL that expires. |
| `mining` | Are the pools sound, do workers leave an old tip, are missing dependencies asked for, do orphans that can settle leave the orphan pool when the peer answers? | Two workshares, local or remote, before or after their templates and each other, two templates with room for both, one of which does not apply to the second tip, one orphan place, so that a full orphan pool drops what an orphan waits for, a new block, a configuration change, a disconnection at any time. |
| `sync` | Do two nodes that start on different branches agree in the end, is the store complete, does the conversation end whatever disturbs it? | Branches of 2 and 3 blocks, locators thinned after one entry so that they skip the fork, a broadcast channel of two events so that receivers lag, two lost connections, a block mined and a manual `request_sync` in the middle. |
| `peers` | Are the tables exact, do stopped nodes end up alone once their connections are quiet, do connections come back? | A server that accepts one of two diallers and dials itself, two slots per dialler (the old connection and the new one), one failure at either end, one start or stop, a message at any time. |
| `settings` | Does the process work with what the file says, and the agent with the pairing in force? | Nine requests of all handlers, three of them in a behaviour, two at a time; two failures, so that a crash or a second failed save meets what a save that failed after its rename left in the file; one command per poll. |
| `randomx` | Do hashes use a live context of their own seed, is a seed initialized once, does every call return? | Three threads, four calls, two seeds beside the self-test's; one failed allocation; as many places for contexts as can be in use. |
| `chainstore_crash` | (violation) Does a node open on the best chain it has stored? | As `chainstore`, with one failure, which the crash takes. |
| `sync_interrupted` | (violation) Does a new node catch up when a block is found meanwhile? | A fresh node, three blocks to fetch, one new block. |
| `mining_requests` | (violation) Is what an orphan misses asked for in the end? | Two workshares that could both settle, two templates, one peer that answers, no new block. |

Deadlock is checked in `chainstore`, `peers` and `settings`; elsewhere the bounded environment (blocks,
transactions, ticks) may be used up, which is a stop of the model, not of the
node.

Fairness. `chainstore`: the service manager restarts a stopped node
(`packaging/`, `install.sh` install it as a service that restarts) and time
passes. `mining`: a hashing worker returns to the top of its loop after each
hash, so `NoticeGeneration` is weakly fair; nothing is assumed of finding
shares or blocks. `mining` and `mining_requests`: besides, the handlers are
polled (`HandlerWork`, weak), and a peer answers what it was asked for
(`Answered`, strong): the answer is in the connection's stream, so other messages
arrive before it, but not forever; a peer that disconnects again and again is
asked again and answers in the end. Which orphan `Reply` asks about is free and
not fair: the order of the map is the same while its keys are.
`peers`: the runtime polls both ends of a connection and the dial loops, sleeps
end and a closed connection is noticed (the heartbeat writes every 30 seconds).
Nothing is assumed of messages: the sleep of a second in `select!` is made anew
in every turn, the message budget admits a hundred messages a second and
`handle_wire` does not look at the switch, so messages may keep a connection
from ever looking at it. `StopsWhenDisabled` therefore has as its antecedent that
from some point on no message comes in time on the connections of the stopped
node; `LeavesWhenStopped`, without it, fails (`PeersBusy.cfg`). Failures and
switches are not fair.
`settings`: a handler that started finishes or refuses, the agent's requests
have time limits, a scheduled restart takes place. `randomx`: threads run, and
the initialization lock is strongly fair to each of them, as parking_lot
provides. `sync`: the runtime polls the task of each connection, so its
handshake, forwarding and message handling are weakly fair; breaking,
mining and `request_sync` are not.

### What the violations show

- `chainstore_crash`: a crash between `store_side_block` and `save_chain`
  leaves a stored chain that beats the one the node opens on. `Node::open`
  looks at the active chain only. The stored branch is followed again when its
  tip is submitted once more or a descendant of it arrives. A `save_chain` that
  fails on a node that stays up leaves the same gap. The theorem
  `LiveChainBest` says that such interrupted tips are the only exception.
- `sync_interrupted`: the announced block arrives before its parents, is
  refused as an orphan, and takes the sync queue with it. A manual
  `request_sync` in the middle of a synchronization can do the same, which is
  why `UndisturbedConverge` excludes both.
- `mining_requests`: a workshare is kept as an orphan, then its predecessor,
  whose template is missing. `pending_request_for` takes the first orphan of the
  map that misses something. If that is the successor, the answer asks for the
  predecessor, which arrives, is among the orphans already, and is asked for
  again; the template never is. An orphan built on a block that the node does not
  follow hides the others in the same way, since `register_template` refuses its
  template. It ends with the next tip or with the connection, which quick answers
  drop after the 200 object messages per ten seconds of `MessageBudget`.
  `OrphansSettle` holds of orphans that nothing of this kind is in the way of,
  and that a full orphan pool does not keep from their predecessors: `Settles`
  says so in three conditions. Without the room in the orphan pool the run
  `mining` fails; `MiningSettle.cfg`, with a third workshare and a second orphan
  place, fails without any one of them.

### Further configurations

These are kept beside the runs above. `MiningSettle.cfg` asks `OrphansSettle` of
three workshares, valid or not, on either tip or on a block never followed, with
two orphan places, and finds no error (482,603 states); a full orphan pool, an
orphan that waits for another one and one that can never settle all occur. Each
of the others gives a counterexample.
(`Reconnects` is not asked of nodes that dial each other: they may refuse both
connections as duplicates again and again.)

| Configuration | Property | What happens |
|---|---|---|
| `ChainStoreCap.cfg` | `NoReorgDepthCap` | `assemble_candidate` refuses a branch of more than 100,000 blocks (scaled to 1) although `consider_chain` promises no cap. |
| `ChainStoreSnap.cfg` | `TipHasSnapshot` | `save_chain` keeps the highest three snapshots; a reorganization to a shorter chain deletes the one it just wrote. |
| `MempoolTtl.cfg` | `NothingOutlivesTtl` | Entries expire only when another transaction is accepted. |
| `MempoolRbf.cfg` | `RefusedReplacesNothing` | `accept` removes the entry to be replaced before it checks that the sender can fund the replacement; on `Balance` both are gone. |
| `MiningClock.cfg` | `OwnCandidateSettles` | A share up to `MAX_FUTURE_BLOCK_TIME` ahead enters the pool, and `validate_workshares` refuses every block that settles it before its timestamp: the node's own blocks are lost until its clock catches up. |
| `MiningWitness.cfg` | `LiveWitnessFits` | The pool never compares its witness with `MAX_WORKSHARE_WITNESS_BYTES`. |
| `MiningConfig.cfg` | `ConfigApplied` | The payout address is read before the generation: a change between the two is missed by the worker. |
| `MiningOrphan.cfg` | `OrphansMissSomething` | A template that arrives between the orphan decision and the insertion leaves a complete share among the orphans. |
| `SettingsUnpair.cfg` | `PairingPreservesChanges` | `unpair` reads the file, waits for the portal and writes back what it read, undoing what another request saved meanwhile. `pair` reads the file again after it has waited (`portal.rs:75`). |
| `PeersBusy.cfg` | `LeavesWhenStopped` | A peer sends a message in every second to a node that was stopped: the branch of `select!` that looks at the switch never comes to its turn and the connection stays, although the P2P of a stopped node is said to rest (`INSTALLATION.md:63-64`). |
| `SyncBatch.cfg` | `Converged` | A branch longer than a batch of headers (2,000, scaled to 2) is never fetched to its end when its first batch does not win yet. |
| `SyncRelay.cfg` | `Converged` | Three nodes in a row: only the new tip of a reorganization is announced; a neighbour without its parent drops it and asks for nothing. |
| `SyncHandshake.cfg` | `Converged` | A block published between a node's `Hello` and its subscription is announced to nobody. |
| `RandomXDataset.cfg` | `OneContextPerSeed` | A thread still hashes with a seed that was replaced; the next one that asks for this seed allocates it a second time. |

## 4. Proofs

TLAPS checks eight modules of theorems. The constants are arbitrary but for the
named assumptions of the modules (`TreeAssumption`, `RewardAssumption`,
`MempoolAssumption` and so on), which TLC evaluates in the runs. No property is
inductive alone; below is what each rests on.

*Chain store.* `ForkChoiceInv` adds `SubmissionSound` (the candidate under way
is a valid chain with stored parents and is preferred to the live chain exactly
when its event says so) and `BestCommitted` (the database's chain is the best of
the stored ones, except interrupted tips and the submission in progress). Each
action preserves it: one lemma per action, on top of the facts that `Preferred`
is a strict order and that a child is preferred to its parent. From it follow
type correctness, `StoredChainsComplete`, `LiveIsDurable`,
`BestUnlessInterrupted` and the refinement `ImplementsForkChoice`: every step
maps to `Adopt` or to a stutter, a crash and a restart to a stutter because live
and active agree.

*Ledger.* `LedgerInv` joins types, `RootCommitsToState`, `NoRewardLeftBehind`
and `NoncesUsedOnce`, which carries `NoReplay` through the block being applied:
applied transactions have nonces below their senders', and accounts that are
emptied keep their nonce. The lemmas `SetAccountsSound`, `SetPendingSound`,
`MatureSound`, `ScheduleSound` and `TransferSound` say what the operations on
the state return and preserve.

Sums over accounts, heights and transactions are folds. What they need (a
change of one term, the sum of two functions, a larger summand) is not an
induction over the set but the search for a counterexample: if a fact failed for
some set of terms, it would fail for one of least cardinality, and taking away
one term gives a smaller one (`LeastNumber`, `SmallestPart`). On these rest:

- `AllocationFair`: `reward_allocation` hands out subsidy and fees completely,
  gives each miner its exact share rounded down or up, and more to whoever did
  more work; that the remainders are fewer than the miners is part of it. It
  holds for any addresses, weights and subsidy.
- `ScheduleAgrees`: the supply summed era by era is the sum of the subsidies.
- `MoneyConserved` and `RewardsLocked` from `MoneyInv`: money is conserved at
  every point of applying a block, in the clone that is worked on as well as in
  the state that is kept, and the subsidy of every block that has not matured is
  still pending. `MaturityLock` needs the second part: balances are bounded by
  what was issued only because the rest lies elsewhere.
- `HistoryTrue` from `HistoryInv`: every pending entry is the reward of exactly
  one block, computed from the window of that block, and a balance is what
  matured less what was sent. `HistoryAddsUp` alone says nothing of rewards
  that are still to mature.

The assumptions are those of `params.rs`: the smallest subsidy is not above the
first one, which is within `MAX_MONEY` and fits 64 bits, so that 64 halvings
leave nothing. TLC finds no violation of `MoneyInv` and `HistoryInv` on the
instance of the run `ledger` either.

*Mempool.* `IndexInv` is `IndexConsistent` with the few types it needs: what
clients, blocks and reorganizations bring is a transaction. `TakeInSound`,
`DropSound`, `RemoveConfirmedSound` and `AcceptSound` follow the pool through
one call of `accept`, however it ends; they also show that a slot only changes
hands for `RequiredFee` (`ReplacementPaysMore`). `RaceInv` adds that a confirmed
nonce is below its sender's in the accounts of that block and of every later one
(`SpentIn`): only a call that cloned older accounts than the chain's can let a
confirmed transaction in, which is `OnlyRacesPool`.

`SelectionsValid` follows the loop of `select`. The loop is written as a
recursive function of the rounds; `Loop`, `Run` and `Round` turn it into
equations, so that a fact that holds before the first round and is kept by each
(the transactions chosen so far apply one after the other to the accounts of the
chain, and lead to the accounts the loop works with) holds after the last. From
the pool it needs `PoolValid`: what is pooled is signed, pays something and has
two parties. `PoolFits` is `SizeBounded`: adding an entry, replacing one and
removing some keep the running size equal to the sum of the entries
(`SizeParts`). An entry stays in the pool when what pays less than it makes
room for the rest; the one that pays least among those that stay (`RatesOrder`
and `Unbeaten`: there is one) shows that the pool fits (`TrimFits`). The module
repeats the few facts about sums and least counterexamples it shares with
`LedgerProofs`: the two extend different components.

*Mining.* `TypeOK` bounds the orphans although each handler inserts its own.
`BuiltOnTip` says that a candidate under construction is on the live tip (the
chain lock) and that a hashing worker's generation is never ahead of the
counter; since a new tip counts a generation, `CurrentTip` follows.
`OrphansAsked` is preserved because only the idle handler of a peer counts:
an orphan is inserted, or becomes ready, while a handler is on its way to
`Reply`, which asks for something unless nothing is missing, and a tip that
changes clears the orphans.

`PathsAvailable` is `PathsComplete`: the predecessors of every share of the pool,
up to the block the pool is built on, are in the pool, their number is the work
the pool recorded, and the best share has the most. Nothing in the code or in
the model says that workshares cannot name each other in a circle; it is a
consequence: a share enters only on a complete path, so the walk from it meets
shares that were there before, another one at each step, and must end
(`WalkSteps` to `WalkContinues`). `PathInv` adds that an empty pool has no tip
and that no work is recorded outside the pool. TLC checks it on the instance of
the run `mining` too (347,178 states).

*Synchronization.* `SyncInv` holds for any graph of nodes: `StoredComplete` and
`QueueServed` are preserved together with types and with `Stocked`, which says
that the ids in a `Headers` message are in its sender's store, and the ids
queued for a peer in that peer's store. The queue is filled from the answer and
nothing stored is deleted, so each `GetData` finds its block. `AnswerSound`,
`ServedAfter` and `StockedAfter` follow one message through its handler. `ChainsProper`, `UnknownSound` and `HeadersSound` say what
chains, the filter of known ids and an answer to `GetHeaders` contain; they are
proved by looking at the least index that would be an exception.

`SeedConverges` is `UndisturbedConverge` for a node `h` that has the preferred
chain to start with and an end of every connection (`Seed`), whatever the other
nodes start with and however often connections break; `PairConverges` is the
case of any two nodes. The invariant is `Converging(h)`, as long as no block is
mined and `request_sync` is not called:

- `Drawn`: nobody stores anything but what some node started with, and whoever
  stores `h`'s tip follows it; `h` itself never moves.
- `Silent`: `h` announces nothing, its `Hello` names its tip, and who sends a
  block has it.
- `Fetching`: for each other node without `h`'s tip exactly one thing brings it
  closer: a `Hello` not yet compared with its own tip, a request of its own or an
  answer of `h`. What the queue or the answer names, taken in order, finds its
  ancestors in the store or earlier in the list and ends with `h`'s tip
  (`Leads`).

A channel that is empty on both sides leaves no room for `Fetching`, hence the
theorem. Exactly one matters: a second answer would find another front of the
queue and end the synchronization, which is what `sync_interrupted` shows. The
lemmas underneath: a locator always reaches the genesis block (`GenesisLocated`,
although its steps double), the answer to it leads to the sender's tip
(`HeadersLead`), and so do the part of it that is unknown (`UnknownLeads`) and the
rest of a queue whose front was stored (`RestLeads`). The two hypotheses of `Seed`
are needed: `SyncBatch` has a chain longer than one batch, `SyncRelay` a third
node that is not connected to the one with the preferred chain. TLC finds no
violation of the invariant on the instance of the run `sync`, with room for four
events (133,569 states), and on a star of three nodes with one broken connection
(4,329 states).

*Peers.* `TableInv` joins types with one dial attempt per dialler
(`OneAttempt`), `TableExact` (an entry of either direction stands for exactly
one end that is up) and `TableBounded`. The limits and the exactness need each
other: a connection is refused when the table has an entry, and the entry is
removed by the end that made it.

*Settings.* `OneAtATime` says what a single request may have changed at each of
its steps, `Covered` that a value in the file which the process lacks has a
restart behind it, a handler that will schedule one, or a request behind it that
failed after the rename, `AgentConsistent` that the agent only holds results of
the credentials it last saw. `ConsistentAlone` and `RestartsCover` hold through
all failures: the value that a refused request left in the file stays there,
unapplied, until a later request that takes its field over, or the next process,
does so (a new process only for the name, the RandomX mode and the peers).

*RandomX.* `Referenced` makes the reference counts exact (with cardinalities of
the sets of holders), `LockHeld` gives the initialization lock one owner,
`HoldsWanted` and `MachinesApart` say which context and machine a thread has.
`HashesSound` and `InitializedOnce` follow.

*Difficulty.* `CompactSound` and `RetargetSound` state what the run `arithmetic`
checks as `CompactRoundsDown` and `FollowsSchedule` (`RoundedDown` and
`Scheduled` in `Difficulty`) for every target, parent and launch, for any even
radix, any width of at least three digits and any polynomial that grows from one
to less than two. Powers are a recursive function; `PowerSteps` turns it into
equations and `QuotientIs` names a quotient by the two inequalities it satisfies,
and the rest follows without another induction over data:

- The size byte of a compact form is the digit count of twice the target
  (`CompactIs`), which covers both branches of `target_to_bits`. All targets
  between a target and what its compact form keeps have that same form
  (`CompactKept`), so that nothing representable lies between, and the form passes
  the checks of `bits_to_target`, at the extra size above the last digit too. An
  odd radix would break it: half of it is what the sign bit needs.
- A retarget is a base between the initial target and its double, shifted either
  way (`AfterIs`). The limit taken before the shift loses nothing against one taken
  after it (`ShiftLimited`); more shifts give no less and one more doubles up to
  the last bit (`ShiftGrows`, `ShiftNext`, `ShiftDouble`), and the fraction that
  starts again at zero with the next shift never gives a smaller target
  (`AfterMono`).

*Byte format.* `Canonical` says two things of a frame: what `decode_frame`
accepts is what `encode_frame` writes of the message it returns, and what a node
may send is accepted as it was sent. Both follow from one statement about a
reader, `Reads`: it returns the value `v` at a place exactly if the encoding of
`v` stands there, is a value it allows, and ends where the reader stops. Fields
and byte strings read (`FixedReads`, `BytesRead`), a length prefix keeps it
(`NestedReads`), so do two, three or four readers one after the other, and a
counted list of items that read (`CountedReads`). A list is not an induction over
its length either: of the items read and those written, the first that differ
would be a counterexample to the item's reader. So the readers of transactions,
templates, shares, witnesses, blocks and the other messages read, one made of the
other, up to the frame (`ContentReads`, `FrameReads`, `FrameDecodes`).

That nothing sendable is refused (`SendableAccepted`) needs limits that leave room
for what they allow, `CodecAssumption`. The code's do:
`MAX_CONSENSUS_ALLOCATION` and `MAX_BLOCK_BYTES` are both 8 MiB, a frame has
64 KiB more; a witness or template has at most 4 MiB, a transaction 1,024 bytes; a
`Hello` has 2,048, of which its strings and fixed fields take about 900; 2,000
headers of 160 bytes, 64 hashes of a locator and 256 URLs of at most 512 bytes fit
a frame several times.

*Merkle root.* `RootOfOneList` is `RootInjective` for lists of any length. A level
without a repetition has parents without one, and only one list of such a level
has these parents (`ParentsInjective`): a list that is longer by a copy of its
last element repeats an element. From the root down two trees agree level by
level, and a leaf is not a node, so they have the same height (`SameRoot`).

*Arithmetic.* The theorems above are about operators. In the transition system
`ArithmeticSpec`, an answer is the result of the call that was asked and its input
is one of those enumerated (`AnswersTrue`); hence the five invariants of the run
`arithmetic` are theorems for every value of the constants, with any bounds and
any set of messages: `AllocationProportional`, `CompactRounding`,
`ScheduleFollowed`, `FormatCanonical` and `RootsCommit`.

Only model-checked: liveness (`Recovers`, `LeavesOldTip`, `OrphansSettle`,
`Quiesces`, `StopsWhenDisabled`, `Reconnects`, `AgentFollows`, `CallsReturn`),
which is out of the prover's reach. Every invariant of the passing runs, and every
action property of them, is stated by a theorem.

## 5. Not modelled

Hash functions, signatures, addresses and the UTF-8 check of strings (a block, a
transaction or a share is valid or not; an id is a value with an order; `Codec`
has where fields begin and end); the shape of the sparse Merkle tree, of which
the leaves are modelled; the RandomX hash and the loading of its library;
request parsing, status pages and presentation in the HTTP interface and the
admin page; which portal commands are allowed; mDNS, command line, installers.
Real time (back-off, rates of `MessageBudget`, timeouts) appears as steps that
may happen at any time. The median time rule of `validate_header_context` adds
nothing to the rule that a block is later than its parent, since the median of a
rising sequence is not above its last element, and is left out. Blocks in
`Mempool` carry at most one transaction and no rewards; `Ledger` has the rest.

## 6. Plan

1. Done: every component with state of its own has a module; the encodings and
   the reward queries; proofs for chain store, ledger, mempool, mining,
   synchronization, peers, settings and proof of work, and about the
   computations of rewards, targets, encodings and roots.
2. Model next: the order in which the locks of `Node` are taken; `Sync` and
   `Peers` composed, so that a refused duplicate connection and a
   synchronization under way meet.
3. Prove next: what a `request_sync` between two synchronizations, not in the
   middle of one, leaves intact of `Converging`.
