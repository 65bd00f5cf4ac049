# Verification of the BLOCX masternode layer

BLOCX is a proof-of-work chain with a masternode layer inherited from Dash Core.
Bitcoin's part (scripts, UTXO set, wallet) is mature and tested; what is peculiar to
this layer, and concurrent, is what masternode quorums decide and how a node acts on it.
This directory models that: TLA+ modules translated from the C++ sources, TLC
configurations for small instances, and TLAPS proofs for instances of any size.

    tlc -config MCQuorumSigning.cfg MCQuorumSigning     # one run
    tlapm QuorumSigningProofs.tla                       # one proof module

`PROJECT.json` lists the components, the runs with their properties, the definitions
with the source lines they translate, the hazards and the theorems.

## 1. Inventory of the system

| Component | State | Operations that change it | Who calls them |
|---|---|---|---|
| Threshold signing (`llmq/signing.cpp`) | votes, recovered signatures (LevelDB), pending signatures, listeners | `AsyncSignIfMember`, `ProcessRecoveredSig`, cleanup, truncation | ChainLocks, InstantSend; sigshares worker; net thread |
| Share exchange (`llmq/signing_shares.cpp`) | shares, sessions, requests, queues, time seen | create, announce, request, batch, verify, recover, time out | sigshares worker, net thread |
| ChainLocks (`llmq/chainlocks.cpp`) | best CLSIG with and without a known block, seen hashes, active flags, last signed, transaction ages | process CLSIG, enforce, sign the tip, reset on activation, cleanup | net thread, sigshares worker, scheduler thread |
| Chain state (`validation.cpp`) | block index with flags, active chain, candidates | accept header/block, activate, enforce, mark, reset flags | net, RPC, scheduler threads |
| Quorum commitments (`llmq/blockprocessor.cpp`) | evo database keys, mined-commitment cache, pool of mineable commitments | process/undo block, receive, add, look up | validation (cs_main), net, DKG threads, readers |
| Sporks (`spork.cpp`) | messages by hash and by signer, two caches, keys | process, update, look up, load, save | net thread, RPC, all readers |
| InstantSend (`llmq/instantsend.cpp`) | lock database, pending locks, non-locked transactions | lock inputs, create, process, resolve conflicts | net, worker, validation |
| DKG (`llmq/dkgsession*.cpp`) | phase, contributions, complaints, justifications | phase handlers, message batches | one thread per quorum |
| Quorum manager (`llmq/quorums.cpp`, `utils.cpp`, `snapshot.cpp`) | quorum and member caches, data requests | build, scan, recover data | everyone |
| Deterministic masternode list (`evo/`) | lists, diffs, snapshots | process/undo block, cleanup | validation |
| CoinJoin, governance, masternode sync, payments, version bits, scheduler, mnauth, netfulfilledman | see `PROJECT.json` | | |

How they interact: a DKG session ends in a *final commitment*, which is mined
(blockprocessor) and from then on defines a *quorum*. Members of a quorum sign what
ChainLocks and InstantSend ask for; a *recovered signature* makes a block hash a CLSIG
and a transaction hash an ISLOCK. A CLSIG steers the choice of the active chain; an
ISLOCK keeps competing transactions out of mempool and chain unless a CLSIG decides
otherwise. Sporks switch all of this on and off at run time.

What makes it hard: callers on four to six threads with several mutexes (`cs_main`, each
handler's `cs`, cache mutexes) taken one after the other; values read under one mutex
and used under the next; messages lost, repeated and reordered; restarts that keep only
part of the state; reorganisations.

What correctness means: a quorum never signs two messages under one id; the chain that
was locked is never made unusable, and what listeners were told is locked stays active;
a quorum has one commitment per chain and the database says so; a spork has one value
and caches do not outlive the messages they came from; mempool and chain never
contradict the locks on record for longer than it takes to process a lock, and a
ChainLock wins over a lock; and work that was begun is finished.

## 2. Modules

| Module | Models | Proved in |
|---|---|---|
| `SigningAgreement` | what signing promises: one message per quorum and id | |
| `QuorumSigning` | votes, shares, recovery and relay of all nodes; implements `SigningAgreement` | `QuorumSigningProofs` |
| `SigShareExchange` | the messages by which shares travel | `SigShareManagerProofs`, `SigShareExchangeProofs` |
| `SigShareSigning` | how `SigShareExchange` implements `QuorumSigning` | (model-checked only) |
| `BlockTree` | the tree of block headers, used by the next and by `InstantSend` | `BlockTreeProofs` |
| `ChainLocks` | handler, scheduler and chain state of one masternode | `ChainLocksProofs` |
| `QuorumCommitments` | commitments of one DKG cycle on one node | `QuorumCommitmentsProofs` |
| `Sporks` | one spork on several nodes | `SporksProofs` |
| `InstantSend` | locks, mempool, transaction index and chain of one node | `InstantSendProofs` |
| `MC...` | instances for TLC | |

A definition that begins with the comment "Mutant:" is no part of a specification. It is
a plausible bug, named in `PROJECT.json` with the definition it would replace and the
property that then fails.

### QuorumSigning

State: `vote` (`rs_v` in recsigdb), `recSig` (`rs_r`) and `recHash` (`rs_h`) are on
disk; `pendingSigns` and `sigShares` are in memory; `shareMsgs` and `recSigMsgs` are
everything that was ever sent, so that delivery in any order, repeated, late or never is
covered. A node handles shares and recovered signatures on one worker thread, so a
handler is one step, trailing calls included: `SignPendingSigShares` runs
`CreateSigShare`, `ProcessSigShare`, recovery and `ProcessRecoveredSig` with its
listener that drops the session's shares.

Abstractions: BLS signatures are unique, so a recovered signature *is* its sign hash;
verification is membership in what was sent. There is no clock; expiry
(`TruncateRecoveredSig`, `CleanupOldRecoveredSigs`, session timeouts) may happen at any
time, except that only nodes in `Forgetful` lose votes.

### SigShareExchange

`mgr[n]` is the `CSigSharesManager` of member `n`: the queue of signing requests, the
shares, the queue of announcements, `signed` (`signedSessions`, with the number of
attempts), `asked` (`sigSharesRequested`), and `states` (`nodeStates`), one
`CSigSharesNodeState` per connection with its sessions, session numbers, pending shares
and requests. `chan[n][p]` is the connection from `n` to `p`, in order; when it is lost,
so is what is on the way, and the next connection has another `NodeId`. `ProcessMessage`
is the message thread; on the worker thread are `SignPendingSigShares`,
`ProcessPendingSigShares`, which collects and verifies, `ProcessVerified`, one share of
the loop that follows, `HandleNewRecoveredSig`, `SendMessages` with its four collect
functions, and the two parts of `Cleanup`.

`CollectSigSharesToRequest` goes through the nodes in a random order. The module does
not enumerate the orders but says which sets of requests they produce: no share twice,
no node above its limit, nothing left out that has room, and at each node the smaller
members first.

A behaviour takes place in one of several `Scenarios`: who is connected, which links
break and come back, who is asked to sign what. `created` is a history variable for the
refinement: the shares that `QuorumSigning` calls sent.

Abstractions: a request is old (timed out) or not, and a session may time out at any
moment. A vector of entries is one message per session. A message is handled in one
step, although the handlers look up the session and use it under `cs` twice. Numbers are
given to new sessions in the order of the sessions. The batch limit of 32 sessions is
not reached. The spork that connects all members does not change, and quorums stay
active. Members follow the protocol, so no handler's check of a malformed message is
modelled; that nobody is banned (`NobodyBanned`) is then a property. `HasWork` only
leaves out rounds of `SendMessages` that do nothing. Restarts are in `QuorumSigning`.

### ChainLocks

A step is one critical section of the handler's `cs`, or the stretch between two of them
under `cs_main`; local variables carried across a gap are in `th` (message thread and
sigshares worker) and `sched` (scheduler). The chain is the set of headers known
(`index`), of blocks received (`data`), of flags (`conflict`, `failed`), and `tip`;
`ActivateBestChain` goes block by block, and `AcceptBlockHeader` is split at its call
into the handler. With `RpcBlocks = FALSE` all headers come on the net thread.

Abstractions: masternode mode and a synced node are assumed; one boolean stands for the
spork that enables ChainLocks and the one that enables signing; work is height, a tie is
won by the active tip, and among other candidates by any; `CheckActiveState` reads the
tip and sets both flags in one step; the transaction ages consulted by `TrySignChainTip`
may give any answer; `AcceptBlockHeader`'s shortcut for parents with valid scripts is
not distinguished; "should not happen" branches for CLSIGs with a wrong height are
absent, as `ClSigs` are blocks.

### QuorumCommitments

One cycle of one LLMQ type, with one quorum or, with rotation, several. `db` is the evo
database inside the open transaction and `base` the committed one: `ProcessBlock` opens
a transaction, `ProcessCommitment` works on one commitment after the other, `ConnectTip`
commits and `RejectBlock` rolls back, while cache and pool keep what was done to them.
Message handling has its three critical sections, the DKG thread one, and a reader
outside `cs_main` the two ends of `HasMinedCommitment`, between which anything may
happen. `overtaken` is a history variable: the quorums of which such a reader cached "not
mined" after a commitment had been written (F3). No action reads it; the properties that
F3 can break speak of the other quorums, and so say that F3 is the only way.

Abstractions: verification of a commitment is the choice between `ConnectTip` and
`RejectBlock`; a block may carry any set of commitments; the base blocks stay in place;
one reader at a time; the `fJustCheck` path, other cycles and types, the database
upgrade, and replay after a crash with no tip are left out. `Template` is what
`GetMineableCommitments` returns; that `GetMineableCommitmentsTx` empties commitments
while SPORK_24 is active (`blockprocessor.cpp:812-828`) is left out.

### Sporks

Every node has the maps by hash and by signer, both caches, and its settings.
`ProcessSpork` is two critical sections (`CheckSpork`, `StoreSpork`); `IsSporkActive` is
`ReadSporkValue` and `CacheActive`. `Restart` covers a shutdown, which writes
`sporks.dat`, and a crash, which does not, with a new choice of keys and minimum;
loading runs `CheckAndRemove`. A message is received from a peer that has it in one of
its two maps (`IsServed`): what every holder lost in crashes is gone. One clock is
shared, so the refusal of messages from the future never applies; a message dropped
because the node has no tip is a message not delivered yet; a message that is on the way
while its sender loses it counts as received before the loss or as lost; one reader at a
time. That a peer is punished for a message of an unknown signer (`spork.cpp:141-145`),
and may lose the connection, is left out.

### InstantSend

Three threads: whoever holds `cs_main` (`AcceptToMemoryPool`, `ProcessNewBlock`,
`ActivateBestChain`, `ProcessNewChainLock`, `EnforceBestChainLock`), the scheduler
(`Scheduler`), which delivers the queued notifications in order, and the `isman` worker
(`Worker`), which takes a lock from `pending` through lookup, store, conflict resolution
and mempool clearing. `cb` and `w` hold what the last two read in one critical section
and use in the next. `db` is `CInstantSendDb`: locks, index by transaction and by
outpoint, mined markers, archive, and of the three caches the entries that are not in
the database, which stay when a lock leaves the database as confirmed. `nonLocked` has
both maps of unlocked transactions, with the placeholders that children create;
`txindex` is written by a later listener than `CInstantSendManager` and forgets nothing.

Quorums may sign *rival* locks, for two transactions that spend one outpoint or twice
for one transaction: `LLMQ_50_60`, which signs InstantSend on mainnet
(`chainparams.cpp:316`), has a threshold of 7 of 50, so that nothing in the signing
protocol excludes it. `ProcessInstantSendLock` logs the conflict
(`instantsend.cpp:1078-1097`) and writes on: `WriteNewInstantSendLock` overwrites the
index records of the first lock, and a removal erases the records under a lock's keys
whichever hash they hold. The lock that an index record names is called the lock *on
record* for its transaction or outpoint. `Vin` has the order of a transaction's inputs,
in which `ConnectBlock` looks for conflicting locks and prunes them (`PruneInput`,
`PruneTx`, `PruneBlock`): with rivals, pruning for one input changes what the next one
finds.

The mempool and the chain are in the same module because the properties are about their
agreement: `ActivateBestChain` disconnects, connects with `ConnectBlock`'s lock filter,
removes what was mined or conflicts, and resurrects what was disconnected
(`UpdateMempoolForReorg`), in one step under `cs_main`.

Abstractions: a synchronised node with InstantSend, `RejectConflictingBlocks` and
ChainLocks switched on, and with a transaction index; not a masternode, so that no locks
are created and `pendingRetryTxs` is unused; no restarts. The worker handles one lock at
a time, and its writes between lookup and conflict resolution are one step. The three
LRU caches drop their entries for one lock together, and an entry of a stored lock,
which the database answers as well, is not distinguished from none. Fewer than eleven
blocks are disconnected at once (beyond that nothing is resurrected).
`TransactionRemovedFromMempool` does nothing here, as `fUpgradedDB` is never set. Fees,
limits and expiry of the mempool are left out.

## 3. Runs

| Run | Checks | Result |
|---|---|---|
| `quorum_signing` | types, shares follow votes, shares are genuine, recovery needs the threshold, one message per quorum and id, refinement of `SigningAgreement` | pass |
| `sigshares` | types, session numbers resolve, one request at a time, nobody banned, refinement of `QuorumSigning`, `SharesSpread`: shares reach every running member, `SignedIsRecovered`: enough signers lead to a signature everywhere | pass |
| `chainlocks` | types, locked chain usable, known lock tracked, tip job not lost, notified lock active, `StoredLockEnforced` | pass |
| `chainlocks_late_header` | `KnownBestIsTracked` when headers come on other threads | violated (F1) |
| `chainlocks_sign` | `NoConflictingSign` | violated (F2) |
| `commitments` | types, pool complete; unless a reader's answer was overtaken: one commitment per quorum, database matches chain, nothing offered twice; undone stays mineable | pass |
| `commitments_reader` | `OneCommitmentPerQuorum`, whatever readers cached | violated (F3) |
| `sporks` | types, one value, value cache fresh, messages servable, no return to older messages, `SporkSpreads` | pass |
| `sporks_cache` | `CachedActiveFresh` | violated (F4) |
| `instantsend` | types, database indexes agree, mempool agrees with locks and with the chain, unlocked transactions tracked, overruled locks pruned with those chained to them | pass |
| `instantsend_live` | `ChainLockReturns` | pass |
| `instantsend_conflict` | `DisconnectsConflicts` | violated (F5) |

Where the code and its comments disagree:

* **F1** `ProcessNewChainLock` looks the block up before it stores the CLSIG. A header
  accepted in between on another thread is noticed by neither side. The run `chainlocks`
  takes the normal case, in which headers come on the thread that also handles CLSIG
  messages.
* **F2** A tip above the locked height on a competing branch is signed, because only
  heights are compared.
* **F3** `HasMinedCommitment` caches what it read before the commitment was mined when
  its caller does not hold `cs_main` (`CQuorumManager::GetQuorum`). A second commitment
  for the quorum is then required and accepted, and overwrites the first one's record.
* **F4** `IsSporkActive` caches "active" under another mutex than the one under which
  the value was read, after a new message cleared the caches.
* **F5** `nonLockedTxsByOutpoints` keeps the first transaction of an outpoint. If the
  locked one was tracked first and its competitor mined later, the competitor's block is
  not found by `ResolveBlockConflicts` and stays active.

F1, F3 and F4 need an exact interleaving of two threads and are unlikely; they are
reported because the comments next to the code exclude them. F5 needs no race: it is
enough that the node saw the locked transaction before the block.

### Bounds

* Signing: two members that must both sign, one of which may forget its vote, and one
  node outside the quorum, two messages: the smallest instance in which a member is torn
  between messages and a session crosses a restart or timeout (one interrupt per node).
* Share exchange: four members, two of which must sign, one (4) may hang at any moment.
  In the ring 1-2-3-4 the share of 1 reaches 3 through 2 or through 4, and the link to 4
  may break: the smallest case in which the asked neighbour fails and another one is
  left. In the other scenarios 2 relays between 1 and 3, which sign; 3 may request one
  share at a time (in the code 32) and two are announced; two sessions exist and one
  times out or is asked for again; the only link breaks and comes back; all members are
  connected and the first of two recovery members is 4; one member is asked for a second
  quorum under the same id. Larger ones were checked once, for safety and refinement:
  two members that both sign for both quorums (165,000 states), three mutually linked
  members with a retry (470,000), a pair with a lost link and a retry (437,000).
* ChainLocks: one locked block and a competing branch of two, the first of which is
  active at the start, so that the wrong branch has more work when the CLSIG arrives;
  two handler threads and the scheduler; one spork change or restart. The instance that
  starts below the fork was checked once (687,073 states).
* Commitments: two quorums (`Quorums`), null commitments, two real ones for the first
  quorum and one for the second (`Commitments`), peers that relay those of the first
  (`Relayed`), readers that ask for it (`Asked`), a mining window of two blocks and one
  block after it (`MaxHeight`). Competing commitments, a reader and an undisturbed second
  quorum meet in one behaviour. Restarts, evictions, reorganisations and lookups are
  unlimited. 1,347,374 states.
* Sporks: two nodes, three keys of which two must agree, two messages, two clock values,
  one restart or crash, and a setting that `SetMinSporkKeys` must refuse. 27,137 states.
* InstantSend: a transaction T, its competitor D and (safety) its child C; two competing
  blocks of which the second, with D, has more work, so that a reorganisation meets
  locks for either side. For safety all three may be locked, T and D as rivals, and D's
  block may get a ChainLock (576,490 states); for liveness T is locked and either block
  may get one (30,938 states). `ActivateBestChain` waits for an empty queue
  (`QueueLimit` 0, in the code 10), which orders its callbacks before the next block but
  not against the worker or new transactions. Archived hashes are kept for one block
  instead of 100.

Symmetry is used only in runs of safety properties, over sets whose members no
definition singles out.

### Fairness

* `SigShareExchange`: the worker thread loops until shutdown, the message thread reads
  what arrived, and time passes, so that a member with something to do (`Step`) does not
  stop. Weak fairness of `Step` for every member except those in `Slow`; nothing is
  assumed of members in `Slow`, of callers, and of connections that break or come back.
  The liveness properties exempt behaviours with a session timeout or a repeated
  request, after which callers must ask again, and with a lost link between running
  members.
* `ChainLocks`: handler threads leave `ProcessNewChainLock`, the scheduler thread serves
  its queue, notifications are delivered, a block that was received leads to
  `ActivateBestChain`. Weak fairness of each. Nothing is assumed about blocks, CLSIGs or
  sporks arriving.
* `Sporks`: a peer announces a message when it stores it, and a node asks every peer for
  its sporks while syncing (`masternode/sync.cpp:175-183`), to which the peer answers
  with the messages that count on it. So a node eventually processes a message that it
  does not have by hash and that counts on a peer for as long as it does; the thread
  finishes `ProcessSpork`. Assumed is that a node asks its peers again after a restart:
  `netfulfilledman`, which remembers whom it asked, must not suppress that. Nothing is
  assumed of a message that no peer holds any more.
* `InstantSend`: notifications are delivered, an `ActivateBestChain` that is due is run,
  the scheduler's enforcement job (every five seconds) enforces the best ChainLock.
  Nothing is assumed of the worker, which may stop between any two steps.

## 4. Proofs

All theorems hold for every value of the constants that satisfies the named `ASSUME`s of
the component's module, which TLC evaluates on every run.

* **QuorumSigning.** `IInv` is types plus three facts that need each other: shares
  follow votes, shares are genuine, recovered signatures rest on `Threshold` shares.
  `OneStoredPerId` (a node stores one recovered signature per id) needs no more.
  `QuorumAgrees` and `RefinesAgreement` assume `MajorityThreshold`: any two sets of
  signers share a member that keeps its votes, its one vote names both messages.
  Agreement is not inductive by itself because it says nothing about the shares under
  way. The three facts are also stated on their own: `VotesBindShares`,
  `SharesStayGenuine`, `RecoveryNeedsThreshold`.
* **ChainLocks.** `BlockTreeProofs` has the facts about block trees: heights, ancestors,
  forks. `ChainLocksProofs` begins with `ChainInv`: what is active, or aimed at, is
  complete and without flags, and the goal of an activation beats the tip it began with.
  It adds the threads' locals (`IInv`) and proves `TypeCorrect`, `TipJobKept` and, if
  the CLSIGs are on one chain (`ConsistentLocks`), `LockedStaysUsable`. Its second part
  shows that a CLSIG is stored at most once while in use (`SeenInv`), that the choice of
  a new tip keeps a locked active block, that this block stays active while its lock is
  in force (`HeldStep`), and concludes `NotifiedStaysActive`, under `ConsistentLocks`
  and `~ExpireSeen` (no CLSIG is delivered again after `seenChainLocks` forgot it, a day
  later). `KnownBestTracked` holds under `ConsistentLocks` and `~RpcBlocks`: what is
  signed was active and so is indexed (`SignedInv`); a thread about to store a CLSIG
  knows its block if it is indexed, since no header comes in meanwhile (`LookupInv`);
  hence the best CLSIG's block is recognised (`BestInv`). Without `~RpcBlocks` it is
  false (F1).
* **QuorumCommitments.** `IInv` (types, the pool's two maps, the open block) gives
  `TypeCorrect`, `PoolNeverDangles` and `UndoneCanBeMined`. `Ledger(q)` says of one
  quorum that the committed database matches the chain, the open one adds what was
  processed, and a cached "no" is right. It is inductive for each quorum by itself,
  except that `ReaderCaches` may break it for the quorum that it enters into `overtaken`;
  hence `LedgerInvariance`, and from it `CommitmentMinedOnce`, `DatabaseFollowsChain` and
  `OffersOnce`. Nothing is assumed of the readers. A cached "yes" may be wrong: the
  duplicate check of a refused block caches what is then rolled back.
* **Sporks.** `IInv` says that a node keeps only messages of its configured signers and
  that its minimum is a majority of them; two sufficient sets meet, hence
  `AgreedValueIsUnique`. `ValueCacheIsFresh` and `ActiveCanBeServed` are conjuncts of
  it. `FollowsTheNewest` (`NoFallBack`) adds that what `ProcessSpork` checked is still
  newer when it is stored, but for the node's own key (`CheckedIsNewer`).
* **InstantSend.** `IInv` has the types, `KnownClosed` (a block is received after its
  parent), `IndexComplete`, `WorkerFits` (what the worker read is still what it is
  about to use), and the two agreements of the mempool. They need each other: a
  resurrected transaction is checked against the locks, a lock is written before the
  mempool is cleared of its competitors, and what `ConnectBlock` removes from the
  mempool decides what may stay. The steps run loops over blocks and transactions
  (`ConnectTo`, `UpdateMempoolForReorg`, `RemoveConfirmed`). The module writes a loop as
  `Iterate`, the last value of a sequence of values that follow each other (`IsRun`);
  that it exists, and keeps a loop invariant given as a family of *sets* of values, is
  proved with the induction theorem for subsets of `Nat`, once, and every loop then
  needs one turn only. Nothing is assumed of the locks, so a stored lock need not be in
  the index; `IndexComplete` says what remains true (records and caches name stored
  locks of their own key) and that a lock without rivals (`Uncontested`) is found over
  every key. The loops that prune are shown to leave a database with fewer locks and
  records (`Left`), to take with each lock those on record for its transaction's outputs
  (`Pruned`), and to keep an outpoint free once it is (`Free`). Results: `TypeCorrect`,
  `DatabaseIndexed`, `MempoolRespectsLocks`, `MempoolMinable`, `LocksOverruledTogether`.
* **SigShareExchange.** That nobody is banned is about two managers and the connection
  between them. `Means(n, p, i, s)` says that number `i` stands for session `s` in what
  `n` sends to `p`: `n` gave it, `p` learned it, or a message under way says so.
  `NumbersAgree`: a number stands for one session, and is below the next number `n`
  gives. `IInv` adds that the two maps of a node state fit together (`Sound`), that the
  requests of all node states agree with `sigSharesRequested` (`AskedOnce`), that every
  share a manager holds or sends was created (`Backed`), that node ids are those of the
  current or an earlier connection (`Known`), and that a connection that is down carries
  nothing (`Channels`). A handler is first shown to take a sound node state to a sound
  one in which numbers keep their meaning (`Follows`, `Changes`), then a manager to one
  that `Evolves`, then the step (`SigShareManagerProofs`). `SendMessages` is the only
  step that gives numbers and is treated in `SigShareExchangeProofs`, with the theorems.
  Results: `TypeCorrect`, `NumbersResolve`, `RequestedOnce`, `MembersNotBanned`.

What is proved of `QuorumSigning` holds of `SigShareExchange` in the scenarios of its
run, because it implements `QuorumSigning` there.

Only model-checked: the liveness properties (`SharesSpread`, `SignedIsRecovered`,
`StoredLockEnforced`, `SporkSpreads`, `ChainLockReturns`), which need fairness;
`ImplementsSigning`, for which every step of the exchange would have to be mapped to a
step of `QuorumSigning`, with counts of shares in both; and `UnlockedIsTracked` of
`InstantSend`, which also depends on the notifications that are still queued.

## 5. Observations without a property

* The height of the best CLSIG may fall: two threads pass the check in either order, and
  the store does not repeat it.
* The activation reset may drop a CLSIG that was stored a moment before.
* `params.h:62` asks for a threshold of "at least 50%+1", and `signing.cpp:797` relies
  on it. `LLMQ_50_60` has 7 of 50 (`params.h:329-331`) and `LLMQ_TEST_DIP0024` 2 of 4.
  For such types the assumption `MajorityThreshold` of `QuorumAgrees` and
  `RefinesAgreement` does not hold, and neither does what they conclude.
* Two quorums without common members may sign different messages under one id; nodes
  keep the one that arrives first.
* A share is not requested a second time from the node that was asked last, even if that
  node announces it again (`signing_shares.cpp:883`), until the connection is a new one
  or the session is dropped.
* With all members connected, `SignPendingSigShares` enters a session into
  `signedSessions` after `ProcessSigShare` may have recovered it; `Cleanup` finds
  sessions by their shares and leaves the entry.
* In `ProcessPendingSigShares` the comment "don't process any additional shares from
  this node" (`signing_shares.cpp:635`) is about verification; the second loop skips a
  node only if it is in `badSources`. Shares that cannot be decoded are not modelled.
* "After the non-null commitment, no other commitments are allowed, including null
  commitments" (`blockprocessor.cpp:158-160`) is not enforced for null ones.
  `ProcessBlock` compares numbers of commitments per type (lines 168-177), and
  `ProcessCommitment` returns for a null one (lines 242-249) before it looks for a
  duplicate. With rotation a block may carry a null commitment of a quorum that has a
  real one, in the same block or an earlier one, in place of a commitment of another
  quorum. `OneCommitmentPerQuorum` and `OneCommitmentUnlessOvertaken` are about real
  ones; `NeverOffersTwice` says that this node does not build such a block.
* `NeverOffersTwice` is about a wrong "not mined". A wrong "mined", left in the cache by
  a refused block, makes the node require and offer too little until it is evicted.
* `blockprocessor.cpp:119` drops a received commitment when the known one has *fewer or
  as many* signers, while line 112 speaks of "a better one locally".
* `blockprocessor.cpp:716-717` overwrites the hash before it erases by it, so a replaced
  commitment stays in `minableCommitments`.
* A signer's own node may return to an older spork message when `UpdateSpork` runs
  between the two halves of `ProcessSpork`: after a crash a peer sends the signer's last
  message back, the operator sets a new value meanwhile, and the old message is stored
  over it. The node then has the new one by hash and does not fetch it. `NoFallBack` and
  `SporkSpreads` except a node's own key for this reason, and show that it is confined
  to it.
* Two spork messages of one signer in one second are kept by whoever sees them first.
* `ProcessInstantSendLock` looks the transaction up before it stores the lock. If the
  transaction arrives in between, the lock waits in `pendingNoTxInstantSendLocks` until
  the transaction is mined; if it is mined or its block disconnected in between, the
  mined marker is missing or stale.
* Of two rival locks the one written first can no longer be found over the shared keys.
  It neither keeps its competitors out of mempool and blocks nor is it pruned with its
  parent. When the second one is removed, the shared outpoint has no lock on record
  although the first is stored. The properties of `InstantSend` speak of the lock on
  record.
* Of two locks that wait for one transaction only one goes back to pending.
* When a lock of an unknown transaction hits a block, the block is disconnected and its
  flag reset, but `ActivateBestChain` is left to the next caller.

## 6. Not modelled

* The caches of the recovered-signature database (`HasRecoveredSigForId` asks and fills
  its cache in two critical sections, `signing.cpp:232-250`), quorum selection, the ages
  of transactions behind ChainLock signing: answers to them are nondeterministic or
  constants.
* In `SigShareExchange` a member pushes its own share when it signs. If it dropped the
  share and gets it back from another member, the model announces it like any share;
  the code pushes it once more (`signing_shares.cpp:701-703`, `722-731`), to nodes that
  ignore a share they have.
* In `InstantSend` some neighbouring critical sections are one step: the lookups of
  `LookupTx` (`instantsend.cpp:1056-1074`), the two checks and the writes of `StoreLock`
  (`1076-1112`), the check and the insertion of `ProcessMessage` (`823-824`, `831`).
  `UnlockedIsTracked` is about the map of transactions; that the index by outpoint may
  still miss the block is F5.
* The creation of InstantSend locks by masternodes, which ends in the locks that
  `InstantSend` takes as given.
* DKG phases: without the arithmetic on contributions little is left but timers.
* The masternode list, version bits, payments: functions of the chain, without
  concurrent state of their own.
* Masternode sync, governance: independent of what quorums decide; the modules assume a
  synchronised node.
* CoinJoin: switched off between nodes of this version (its handlers return for peers
  from protocol version 70220 on; `PROTOCOL_VERSION` is 70228).
* BLS and other cryptography (signatures are records), sockets and message framing
  (delivery is arbitrary instead), wallet, GUI and RPC formatting, scripts, vendored
  libraries.

`PROJECT.json` gives the reason for every component.
