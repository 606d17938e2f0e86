# A TLA+ model of the notary node

The notary node is a small permissioned blockchain in Node.js. Clients post
requests to a node; the node bundles them into a signed transaction and
broadcasts it; one node proposes a block every second; the nodes vote on it in
two phases (prepare, commit), add it to their chains, and tell an application
on the same machine. The application in the repository rents out cars: it
watches an Ethereum contract, takes IOTA payments, and uses the node to agree on
who rents what. This directory holds TLA+ modules of the core engine and of the
application, the TLC runs that check them on small instances, and theorems that hold for
every instance, with proofs checked by TLAPS. Source lines are relative to
`src/src/core/` unless a path is given.

## 1. The system

| Part | State | Operations | Interacts through |
|---|---|---|---|
| `P2pServer` (`p2p_server.js`) | `sockets`, `pendingCommitedBlocks` (10 s TTL), `proposedSequenceId` | four message handlers, `proposeBlock` every second | WebSockets to its peers; calls on the pools and the blockchain |
| `Blockchain` (`chains/blockchain_db.js`) | `latestBlock`, height, LevelDB, counts | `addBlockToBlockhain`, `addGenesisBlock`, `createBlock` | promise continuations; one POST to the application per block |
| Pools (`pools/*.js`) | pending transactions; blocks (30 s TTL); votes per block and completed blocks (30 s TTL) | add, finalize, delete, expiry | shared by the handlers and `proposeBlock` |
| Request intake (`app.js`, `pools/request_pool.js`) | pending requests, the threshold, the request rate | `POST /transact`, the one second timer | broadcasts a transaction |
| Keys (`utils/*.js`, `chains/block.js`, `chains/transaction.js`) | the validators' list | sign, verify, hash | called by all of the above |
| Rental car app (`src/src/apps/rental_car/`) | tables `rental_cars` and `payments` in SQLite, cleared at start | `NewRentalCarAdded` events, `POST /notification` of blocks, `POST /tx_hash` payments | HTTP to its core engine; IPFS, IOTA and Ethereum, all awaited |
| Contract (`contracts/CarRentalContract.sol`) | `rentalCars` | `storeRentalCar` by owners, `authorizeRentalCar` by the master | events, transactions |
| Engines (`src/src/payment`, `compute`, `storage`) | none | wrappers of external clients | |

What makes the core hard:

* **Order.** Votes that arrive before their pool is open are dropped and nothing
  is ever sent twice. What saves the protocol is that a node relays a message on
  all its sockets *before* it votes on it, and that sockets are FIFO.
* **Asynchrony.** `latestBlock` changes at once, the database write ends later,
  and only then are the pools cleaned. Other handlers run in between.
* **Time.** Four caches expire entries at any moment, inside loops too.
* **Restarts.** The database is cleared at every start, and what has been
  proposed is remembered in memory only.
* **Awaits.** The application's handlers ask whether a car or a payment is known,
  await IPFS or IOTA, and insert afterwards. The event and the notification of
  one car race, and so do two posts of one payment.
* **No taking back.** The application writes its tables before it calls the core
  engine or Ethereum, and leaves them so when the call fails.
* **One proposer.** It is the last validator, for ever. Votes are not tied to
  a height: agreement rests on the proposer proposing each height once.

## 2. Modules

| Module | Models | Uses |
|---|---|---|
| `ReplicatedLedger` | what is promised: one growing ledger, every chain a prefix of it | |
| `NotaryConsensus` | the handlers, the proposer, blockchain and pools of every node, over a network that may lose, repeat and reorder anything | `ReplicatedLedger` (INSTANCE, as `LedgerSpec`) |
| `NotaryMesh` | the same nodes on FIFO sockets that open late, with processes that die | extends `NotaryConsensus` |
| `NotaryRequests` | request pool, `POST /transact`, the threshold timer | |
| `RentalCar` | the application on every machine, the contract, and the engines' answers; the core engine as its promise | |
| `NotaryConsensus_proofs`, `NotaryVotes_proofs`, `NotaryPools_proofs` | theorems on one ledger, on votes, and on what the pools hold and lose | extend `NotaryConsensus` |
| `NotaryMesh_proofs`, `NotaryOrder_proofs` | theorems on the mesh: it implements `NotaryConsensus`; the order in which messages arrive | extend `NotaryMesh` and the above |
| `NotaryRequests_proofs`, `RentalCar_proofs` | theorems on these two | extend the modules |
| `MCConsensus`, `MCMesh`, `MCRequests`, `MCRental` | instances for TLC | |

### From code to model

*State.* A node's variables are functions of the node. `chain[n]` is the
sequence of blocks that node `n` made its `latestBlock`; the code keeps the last
one and LevelDB, the model keeps all, to compare chains. `prepares[n][h]` is
the set of keys of the inner map of `preparePool`, empty when there is no such
map (a map is never created empty); `prepared[n]` is its cache of completed
blocks; `commits` and `committed` are the same of `commitPool`. `callbacks[n]`
are the `.then` continuations of database writes under way. `busy` and `keys`
are the program counter of the loop over the pending commits.

*Actions.* JavaScript runs one handler at a time, so a handler is one action:
`Receive(n, m)` is the whole `messageHandler`, relay and own vote included;
`Continue(n, c)` is the continuation; `Submit` the POST that fills the request
pool. `proposeBlock` is `StartDrain`, one `DrainKey` per pending commit, and
`Propose` or `EndTick`. It is split because time passes in the loop and an
entry may expire between two keys; `busy` shuts the node's own handlers out
meanwhile, as the event loop does. With nothing to retry, `Propose` is the
whole tick. `Expire` is a cache entry reaching its TTL, `Restart` a process
that died being started again.

*Data.* A block's hash is the number of the proposal (hashes cover the
time in milliseconds, so they differ); a transaction is a model value; a
signature is the sender's identity, which always verifies, since every node runs
this code. A transaction in `BadTx` holds a request whose `priority_id` is
unknown, on which `countNumberOfTxInBlock` throws after `latestBlock` was
replaced. The pending commits are visited in the order in which
`Array.prototype.sort` puts their decimal numerals.

*Network.* In `NotaryConsensus` every message ever broadcast stays in `msgs`
and may be received by anyone, at any time, any number of times, or never. A
sender receives its own messages too, as it does when peers relay them:
the proposer gets its own block in no other way. `NotaryMesh` has the
sockets: `Send` appends to those that are open, `Deliver` takes the first
message, accepted (`Accept`) or dropped (`Ignore`). `Connect` opens a socket,
`Crash` ends a process, `Lose` drops what a dead sender had under way.

*Requests.* In `NotaryRequests` a POST is one action, and so is a firing of the
timer. An entry carries the number of its POST, which stands for the
fresh id used while benchmarking and tells equal requests apart otherwise.

*The application.* `listed[a]` and `rentedTo[a]` are the rows of `rental_cars` at
machine `a`, `payments[a]` the keys of `payments`; the latter table holds payment
hashes where payments are posted and car hashes at the master, as `car.js:70`
has it. A handler is one action from one `await` to the next; what it awaits is in
`reading` (a description from IPFS), `paying` (a verdict of IOTA) or `calls` (a
transaction of Ethereum). So `ProcessTxHash` runs to the first await of
`isPaymentValid`, and `Judge` from IOTA's answer to the end of
`sendUpdateToCoreEngine`. The two IOTA requests in between read nothing of the
application, so their answers come in one step. An exception ends a handler where
it stands. The primary keys make a second insert throw. `Unreliable` names the
services whose requests may fail. A transaction sent to Ethereum ends in
`AuthorizeRentalCar` (the contract carries it out) or in `SendFails` (it is
reverted, or never mined: the node is unreachable, the gas does not suffice, the
renter's address is none). Then the handler throws (`car.js:112`), and neither the
rented row nor the car's hash among the used ones is taken back; `failed`
remembers the transaction for the properties only. A transaction that
web3 gives up on but Ethereum mines later is an `AuthorizeRentalCar`, since the
handler does nothing but report.

The core engine is in `RentalCar` what the application sees of it:
`PostToCore(q)` puts the request into one or more blocks (a transaction may be
included twice, see section 5), and each machine is told of each of them at most
once, in any order (`due`). A restart may miss any of them.

## 3. Properties and runs

| Run | Instance | Properties | Shows |
|---|---|---|---|
| `consensus_restart` | 3 of 4 nodes, 3 approvals, 2 blocks, a backup restarts | `TypeOK`, `CommitCertificate`, `NoZombieVotes`, `NoCommitLost`, `LedgerSpec` | every block in a chain has 3 different voters in each phase; late copies reopen no pool; out of order commits lose no block; the chains implement one ledger |
| `consensus_ttl` | 2 nodes, 2 blocks, a transaction, a backup restarts and its caches expire | `Agreement`, `TxKeptUntilIncluded` | expiry between any two steps never makes chains differ; a transaction leaves a pool only when a block that holds it was added |
| `mesh_order` | 3 nodes, 2 approvals, 2 blocks, all sockets open | `NoEarlyVote`, `CommitsInOrder`, `NothingStalls` | no vote is dropped for being early; commits complete in order; once nothing is under way every chain has every block proposed |
| `mesh_late` | the same, backups' sockets open late, or in time | `MeshTypeOK`, `NoCommitLost`, `Spec`, `EveryBlockAdopted` | commits now do complete out of order, and none is lost; the mesh implements `NotaryConsensus`; if all sockets opened in time, each proposed block reaches each chain |
| `mesh_crash` | 1 transaction, 1 block, a backup dies | `NothingStalls`, `PooledTxIncluded` | a backup that dies half way through its votes leaves nobody stuck; a pooled transaction is included by all who live |
| `requests` | 7 posts of 3 requests, 2 levels | `RequestsTypeOK`, `BundledOnce`, `DistinctRequests`, `NoOversizedTransaction`, `NoRequestLost` | no request is lost or bundled twice; no transaction or pool outgrows the largest threshold, though the timer moves it between the POSTs |
| `rental` | 2 machines, 1 car, 1 payment posted twice, 2 blocks per request, a core engine, IOTA and Ethereum that fail, a restart | `RentalTypeOK`, `NoRevertedCall`, `NoRentedCarOffered`, `PaymentSpentOnce`, `OwnerVouchedFor`, `RentedRowKept`, `EveryCarListed`, `PaidCarIsRented` | the contract never refuses the master, a rented car is never offered again, a payment buys one authorization per machine; every car comes to be listed; an authorization that the master can carry out is lost only with the one transaction that carries it |
| `proposer_restart` | the proposer restarts | `BackupsAgree` violated | see below |
| `unknown_priority` | 1 transaction of unknown priority | `AddedBlocksComplete` violated | see below |
| `drain_order` | 2 nodes that hold 7 blocks, 3 more | `LowestFirst` violated | see below |
| `early_start` | no socket open at first | `BlocksGetCreated` violated | see below |
| `invalid_payment` | a payment that is not confirmed | `RejectedNotPosted` violated | see below |

Deadlock is not checked: with `MaxBlocks`, `Tx` and `MaxPosts` bounded, a run
comes to an end when all of them are used up.

### Where code and documentation disagree

* `proposer_restart`. `config.js:37` counts one tolerable faulty node, but one
  restart of the proposer lets two correct nodes hold different blocks at one
  height: `proposedSequenceId` is gone, the database is cleared, and the new
  process proposes height 1 again to nodes that had not finished the first.
* `unknown_priority`. The branch that means to report an unknown priority
  (`chains/blockchain_db.js:188`) names a variable that does not exist. The
  exception leaves a chain whose last block was never stored, whose messages are
  never cleaned up, and whose transaction is proposed again in every block.
* `early_start`. `src/README.md:92` says the machines start to create
  blocks; a proposer whose timer fires before its sockets are open sends its
  block to nobody, counts it as proposed, and never proposes again.
* `drain_order`. The comment at `p2p_server.js:268` has the retries "begin
  inserting from the lowest sequence id", but `sort` compares the keys as
  strings: with 9 and 10 pending, 10 is tried first, is refused, and waits for
  another tick.
* `invalid_payment`. The handler answers "Tx hash is not valid"
  (`apps/rental_car/processors/iota_payment.js:45`) without returning: the
  payment is recorded, the car marked as rented, and the authorization posted,
  which the master then carries out.

### Bounds

* Two blocks are the least number for which order matters: block 2
  may complete before block 1, be refused, put off and retried. The keys' string
  order needs ten heights: `drain_order` starts from `AgedInit`, the state of two
  nodes that have seven blocks each, whose messages have all arrived and whose
  caches have forgotten them.
* Three of the four validators run where votes of the fourth add nothing but
  states: with `MinApprovals` 3 every one of them is needed, so every order of
  three votes is explored. That any three of four suffice is the theorem
  `CertificateHolds`.
* In the mesh, `Prompt` lists sockets that deliver before anything else
  happens. In every run one node, `NODE1`, is on slow sockets, so it may
  lag behind by whole blocks; `mesh_order` also delays what `NODE1` tells the
  proposer. What is lost is two slow nodes at a time.
* `Expirable`, `Restartable` and `Crashable` say which nodes may fail. The
  proofs below have no such bound.
* `requests`: seven posts let the threshold go through all its levels (here 1, 2
  and 3 for 1, 10, 50, 100, 250 and 500) with a pool on either side of each. The
  run is in normal mode: while benchmarking no two requests are equal.
* `rental`: two machines are a master and another; two posts of one payment and
  two blocks per request are what every check for a second use is about; one
  restart of the other machine. Several cars and payments are left to
  the proofs, which have any number of them.

### Fairness

`FairMeshSpec` is weakly fair, per running node, to three things: handling a
message from anyone (not from each socket: the event loop may serve one peer
before another for long), the continuations, and the periodic tick; and to the
opening of sockets. TCP delivers what is sent between running processes, the event
loop serves what is ready, and `proposeBlock` sets its timer again at its end
(`p2p_server.js:299`), whatever it did. Nothing is assumed about clients,
crashes or caches. `EveryBlockAdopted` speaks of sockets that are open before
the first proposal: a node whose socket opens later misses that block for good, and
refuses all later ones (`mesh_late` contains those behaviours).

`RentalFairness` is weakly fair to what was asked for: an event the contract
emitted is heard, a file is read or fails, a block's notification is handled, a
`send()` of a transaction ends, well or badly (web3 gives up after a number of
blocks or seconds). None of it must succeed where `Unreliable` says otherwise, and
nothing is assumed about payments or their confirmation. In `rental` Ethereum is
unreliable: a failed transaction is never sent again and its car's hash counts as
used, so the car is never rented, and `PaidCarIsRented` names this as its only
exception. IPFS is reliable in
`rental`: a description that could not be read is not asked for again, so
`EveryCarListed` holds only of files that can be.

## 4. Proofs

| Theorem | Statement |
|---|---|
| `TypeCorrect` | `Spec => []TypeOK` |
| `AgreementHolds` | `Proposer \notin Restartable` implies `Spec => []Agreement` |
| `ImplementsLedger` | `Proposer \notin Restartable` implies `Spec => LedgerSpec` |
| `CertificateHolds` | `Spec => []CommitCertificate` |
| `TxIsKept` | `Spec => TxKeptUntilIncluded` |
| `NoCommitIsLost` | `Proposer \notin Restartable` implies `Spec => []NoCommitLost` |
| `NoVoteReturns` | `Spec => []NoZombieVotes` |
| `MeshImplementsConsensus` | `MeshSpec => Spec` |
| `MeshTypeCorrect` | `MeshSpec => []MeshTypeOK` |
| `MeshSafe` | `Proposer \notin Restartable` implies `MeshSpec => [](Agreement /\ CommitCertificate)` |
| `NoVoteIsEarly`, `CommitsComeInOrder` | `SteadyMesh` implies `MeshSpec => []` `NoEarlyVote`, `CommitsInOrder` |
| `VotingNeverStalls` | `SteadyMesh` and `EveryPairLinked` imply `MeshSpec => []NothingStalls` |
| `RequestsTypeCorrect`, `BundledOnceHolds`, `RequestsAreDistinct` | `RequestsSpec => []` `RequestsTypeOK`, `BundledOnce`, `DistinctRequests` |
| `TransactionsAreBounded` | `RequestsSpec => []NoOversizedTransaction` |
| `NoRequestIsLost` | `RequestsSpec => NoRequestLost` |
| `RentalTypeCorrect`, `NoCallReverted`, `RentedCarNotOffered`, `PaymentIsSpentOnce`, `OwnerIsVouchedFor` | `RentalSpec => []` `RentalTypeOK`, `NoRevertedCall`, `NoRentedCarOffered`, `PaymentSpentOnce`, `OwnerVouchedFor` |
| `RentedRowIsKept` | `RentalSpec => RentedRowKept` |

They hold for any finite set of nodes, any threshold, any transactions and
bounds, with the caches of any nodes expiring (`NoCommitLost` and `NoZombieVotes`
speak of the others); and for any machines, cars, renters and payments. The assumptions are those the modules name: finite `Node`
and `Tx`, a `Proposer` among the validators, numbers that are natural, and in
`RentalCar` that no payment hash is a car hash (they are of different networks).

*Types.* `TypeOK` is inductive with `NotAhead`: the sequence id a node would
propose next is at most one more than the number of blocks proposed.

*Agreement.* `Agreement` says nothing of pools and messages, so it is not
inductive. `AgreementInv` adds what the code relies on: there is exactly one
proposal of each height up to `minted`, and the proposer's next sequence id
is the height above (`ProposalInv`); a pooled block was proposed
(`PooledAreProposed`); the block at position i of a chain is a proposal of height
i - 1 (`ChainInv`). Then two chains agree because heights determine
proposals. The condition that the proposer does not restart is needed:
without it `proposer_restart` is a counterexample. The proof uses no quorum,
which is what it says of the protocol: agreement is the proposer's doing.

*Ledger.* The refinement maps `ledger` to the proposals in order of height. By
`AgreementInv` each step extends it (`Propose`), appends its next block to
one chain (an accepted commit or a drained key), resets a chain (`Restart`),
or changes neither.

*Certificates.* `CertificateInv` adds that counted votes were sent
(`CountedWereSent`), that a commit pool is open only after a prepare quorum
(`CommitAfterPrepares`), and that the blocks in continuations, pending
commits and chains have both quorums. Votes are never unsent, so quorums
stay while pools are cleaned, expire or are lost in a restart. For expiring
caches this is the only evidence: `consensus_restart` checks the certificates
without expiry, and in `consensus_ttl`, where each of two votes is needed, they
could hardly fail.

*Pools.* The three properties compare what a node once did with what its
continuations still have to do, so each needs an invariant on callbacks.
`NotaryPools_proofs` first says what a step of `NotaryConsensus` is to the
pools of one node (`PoolStep`: it pools a block, counts a vote, cleans up, puts
off, retries, forgets, starts again or does none of that), and then goes through
those few.

* `TxKeptUntilIncluded` needs `AddedInChain`: the block of a continuation that
  succeeded is in the chain. Retries and expiry do not touch this.
* `NoCommitLost` needs `KeptInv`: the agreement above (two blocks of one height
  would share an entry of the pending commits), that a block with votes is in the
  block pool (`OpenHasBlock`), and that what is refused or put off was proposed.
  It speaks of nodes in `Node \ Expirable`: an expiring block is lost for good.
* `NoZombieVotes` needs `ZombieInv`: whatever was added had its commits
  (`CompletedFirst`), a block that has its commits had its prepares
  (`CommitAfterPrepared`), and the caches that remember both are never cleared
  where nothing expires, so late copies are refused by one or the other.

*Order.* `NotaryOrder_proofs` is about `SteadyMesh`: the sockets there are,
any number between any nodes, are open before the first proposal; each node that
runs has its key in the list. (It also asks that no cache expires and nobody
is restarted; `MeshSpec` has no such step.) Nodes may die, and what they sent
may be lost. The invariant, `OrderInv`, has two parts.

* `SocketInv(l)` compares the two ends of a socket. With the two phases of
  voting taken alike, it says what a node *knows* of a prefix of a queue: what it
  counted, or will have counted after that prefix. `Founded`: the receiver of a
  vote knows, by what is ahead of it in the queue, the block (for a prepare)
  or a quorum of prepares (for a commit), and the receiver of a block a quorum of
  commits for the block below. `Relayed`: if both ends run, the receiver knows of the
  whole queue whatever the sender has counted. The second makes the first inductive:
  a vote is appended behind everything it rests on, since the relay is
  sent before the vote (`p2p_server.js:151-163`, `184-199`) and a socket is FIFO.
* `Ordered(n)`: a node accepts a block only after the commits of the one
  below. So what gets its commits is always the next block of the chain, is
  valid, and is never put off.

The two need each other: that `n` has completed the commits of the block below
follows from the queue the block came by, and that its chain is then long
enough from `Ordered`. A step is described once as a socket sees it
(`SocketStep`: at most one message is handled at the head, and what the sender
adds tells whatever it has just learned) and once as a node does (`OrderedStep`);
`EveryStepInOrder` shows that every action of the mesh is such a step.
`mesh_late` shows that sockets must be open in time: there `CommitsInOrder` fails.

*No stall.* `NothingStalls` is the safety half of `EveryBlockAdopted`, and unlike
it can be proved for any number of nodes. `OfferedInv` adds to `OrderInv` that
the proposer's running peers know, or will know from its socket, every block
proposed. When nothing is under way, "will know" is "know": all nodes that run have
accepted the same blocks and counted each other's votes, so if they are
as many as `MinApprovals` a phase that all have begun is complete at all of them
(`PhaseCompletes`), and by `Ordered` what is committed is in the chain.
This one needs a socket between each two nodes (`EveryPairLinked`, as
`PEERS` has it): in a sparser mesh a node that dies may cut it in two. It
does not say that the rest comes about, which is fairness and stays with TLC.

*Mesh.* `NetInv` says that whatever is under way on a socket was broadcast. So
a delivery is a `Receive`, and dropping a message, opening a socket or dying is a
stutter of `NotaryConsensus`. `MeshSafe` takes over what was proved of it.

*Requests.* Entries carry the number of their POST, which is larger than
that of anything pending or bundled, so a new entry is in no transaction
(`RequestsInv`). `PoolInv` adds that a pool is finite and holds no two equal
requests. The timer's choice of the largest level below the rate exists because
the numbers below the rate are finitely many (`ThresholdIsALevel`).
`NoOversizedTransaction` is inductive with `PoolInv`: a POST adds at most one to
what is pending, which was below some threshold `m`; if the pool is then not
bundled it is below the threshold of the moment, and the larger of the two serves
from then on. The property says nothing of how long a pool waits: after the timer
has put the threshold below what is pending, a POST of a request that is pending
already returns before the comparison (`pools/request_pool.js:19-21`), and the
pool stays full until the next new one.

*The application.* None of its properties is inductive, since each rests on what
an earlier handler checked. `RentalInv` says what those checks leave behind:

* `InsertsVouchedFor`: a posted request to insert a car, and a description being
  read because of one, concern a car whose owner the master's event handler
  compared. With the contract never changing an owner this gives
  `OwnerVouchedFor`, although the notification handler compares nothing.
* `PaymentsRecorded`: each authorization a machine posted left its payment in the
  machine's table, so the primary key stops a second one, whenever it passed the
  first check.
* `CarsRecorded`: a car that is rented, or whose authorization is being mined, is
  in the master's `payments` under its own hash, and marked as rented in the
  master's table; and at most one call concerns it, on a car not rented yet.
  So a further authorization, by whoever, finds the car used.
* `NoticesPosted`, `CallsAuthorize`, `PostsNumbered`, `RentedRowsListed`: what is
  under way came from a post.

The conditions `Master \notin Restartable` and `q.from \notin Restartable` are
needed: a restart empties the tables while the contract keeps its renters.

Only model-checked: liveness (`EveryBlockAdopted`, `PooledTxIncluded`,
`EveryCarListed`, `PaidCarIsRented`), which is out of the prover's reach. Every
other property of a passing run is stated by a theorem. The invariants of the
proofs were checked by TLC on the instances of the runs before they were proved.

## 5. Not modelled

* Signatures that do not verify, and nodes that run other code.
* The statistics of `Blockchain`, the read-only GET handlers, the load
  average timer, logging.
* A peer that is not up when a node connects to it: the uncaught `error` event
  ends the connecting process at its start.
* How many requests a block holds after the dynamic threshold has dropped
  (`pools/transaction_pool.js:31`): `TxLimit` is a constant.
* The payment, compute and storage engines keep no state; `RentalCar` has the
  calls the handlers make, as answers and failures. An event that Ethereum
  delivers twice on one subscription, why a transaction fails (gas, addresses,
  the Ethereum node), and the application's GET handlers and measurements are
  left out.
* Code that is not the system's: the vendored IOTA address generator and jQuery
  (`src/iota_offline_tools`, nine tenths of the repository's lines), Truffle's
  migrations, benchmarks, examples and deployment scripts.
* A transaction being included twice: between `latestBlock` changing and
  its continuation a tick proposes the same pool again. The models contain
  this; no document says it does not happen.

* The tables of two machines naming different renters, and a restarted master
  offering rented cars: the code does both, and promises neither. The same
  goes for a car that is paid for and never rented because the core engine or
  Ethereum failed, or because its authorization overtook its listing.

## 6. Plan

What is left, in this order:

1. `RentalCar` composed with `ReplicatedLedger`, the notifications taken from
   one node's chain rather than from `due`, and the proof that it implements
   the promise `RentalCar` rests on.
2. `NothingStalls` for a mesh in which not every pair has a socket, as long as
   the nodes that run stay connected.
3. Block capacity under a changing threshold, in `NotaryRequests`.
