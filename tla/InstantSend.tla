---------------------------- MODULE InstantSend ----------------------------
(***************************************************************************)
(* InstantSend locks on one synchronised full node                         *)
(* (src/llmq/instantsend.cpp), with the mempool and the active chain that  *)
(* they protect (src/validation.cpp, src/txmempool.cpp).  A lock names a   *)
(* transaction; competing transactions and the blocks that contain them    *)
(* are refused or undone, unless a ChainLock decided otherwise.            *)
(*                                                                         *)
(* Three threads take part: whoever holds cs_main (transactions, blocks    *)
(* and ChainLocks come in), the scheduler, which delivers the notifications *)
(* of the first in order, and the "isman" worker, which processes locks.   *)
(* The node is no masternode: pendingRetryTxs and signing are left out.    *)
(***************************************************************************)
EXTENDS Integers, Sequences, BlockTree

CONSTANTS
  TxOrder,      \* the transactions, parents before children
  Outpoints,
  Vin,          \* Vin[t]: the outpoints transaction t spends, in order
  Creator,      \* Creator[o]: the transaction with output o, None if confirmed long ago
  Relayed,      \* the transactions that peers send on their own, not only in blocks
  Work,         \* Work[b]: nChainWork, the work in the chain up to b
  BlockTxs,     \* BlockTxs[b]: the transactions of b in order, without the coinbase
  Locks,        \* the locks that quorums sign: records with fields txid and det
  ClBlocks,     \* the blocks for which a CLSIG may come
  QueueLimit,   \* bound: blocks wait for this many queued notifications
  ArchiveDepth  \* how many blocks archived hashes are kept

Txs == {TxOrder[i] : i \in DOMAIN TxOrder}
Spends == [t \in Txs |-> {Vin[t][i] : i \in 1..Len(Vin[t])}]

ASSUME TxAssumption ==
  /\ TxOrder \in Seq(Txs) /\ None \notin Txs /\ Relayed \subseteq Txs
  /\ Vin \in [Txs -> Seq(Outpoints)] /\ Creator \in [Outpoints -> Txs \cup {None}]
  /\ \A t \in Txs : Vin[t] # <<>>
ASSUME BlockAssumption ==
  /\ ClBlocks \subseteq Blocks /\ BlockTxs \in [Blocks -> Seq(Txs)]
  /\ Work \in [Blocks -> Nat]
  /\ \A b \in Blocks \ {Genesis} : Work[b] > Work[Parent[b]]
  /\ QueueLimit \in Nat /\ ArchiveDepth \in Nat
\* Quorums may sign several locks for a transaction or for an input.
ASSUME LockAssumption ==
  None \notin Locks /\ \A l \in Locks : l.txid \in Txs /\ l.det \in BOOLEAN

VARIABLES
  known,         \* the blocks received
  tip, failed,   \* the active tip; blocks flagged as failed
  activate,      \* somebody has to run ActivateBestChain
  best,          \* the block of the best ChainLock
  notified,      \* the last block passed to NotifyChainLock
  mempool,
  queue,         \* notifications queued for the scheduler
  cb,            \* the one being delivered, and what was read for it
  txindex,       \* the block in which the transaction index has each transaction
  pending, noTx, \* pendingInstantSendLocks, pendingNoTxInstantSendLocks
  nonLocked,     \* nonLockedTxs and nonLockedTxsByOutpoints
  db,            \* CInstantSendDb
  w              \* the locals of the worker

chain == <<known, tip, failed, activate, best, notified, mempool>>
vars == <<chain, queue, cb, txindex, pending, noTx, nonLocked, db, w>>

\* Entry of a transaction that is not tracked: no body, no children.
NoInfo == [body |-> FALSE, mined |-> None, kids |-> {}]
IdleWorker == [pc |-> "idle", lock |-> None, found |-> FALSE, at |-> None, foes |-> {},
               unknown |-> FALSE]
IdleCallback == [kind |-> "none", arg |-> None, open |-> {}]

Init ==
  /\ known = {Genesis} /\ tip = Genesis /\ failed = {} /\ activate = FALSE
  /\ best = Genesis /\ notified = Genesis
  /\ mempool = {} /\ queue = <<>> /\ cb = IdleCallback
  /\ txindex = [t \in Txs |-> None]
  /\ pending = {} /\ noTx = {}
  /\ nonLocked = [info |-> [t \in Txs |-> NoInfo], by |-> [o \in Outpoints |-> None]]
  /\ db = [stored |-> {}, byTx |-> [t \in Txs |-> None], byIn |-> [o \in Outpoints |-> None],
           mined |-> {}, archived |-> {}, confirmed |-> 0, islockCache |-> {},
           txidCache |-> [t \in Txs |-> None], outpointCache |-> [o \in Outpoints |-> None]]
  /\ w = IdleWorker

SeqTxs(b) == {BlockTxs[b][i] : i \in DOMAIN BlockTxs[b]}
ChainTxs(b) == UNION {SeqTxs(a) : a \in Chain[b]}
Parents(t) == {Creator[o] : o \in Spends[t]} \ {None}
Conflicts(t) == {u \in Txs \ {t} : Spends[t] \cap Spends[u] # {}}
HasChainLock(b) == b \in Chain[best]

\* S and what depends on it in U: the least set with S that contains a transaction
\* of U if it contains one of its parents.
Closed(X, U) == \A u \in U : Parents(u) \cap X # {} => u \in X
WithDescendants(S, U) ==
  {t \in S \cup U : \A X \in SUBSET (S \cup U) : S \subseteq X /\ Closed(X, U) => t \in X}

\* step[n], ..., step[1] applied to init: a loop over n elements.
Iterate(step, init, n) ==
  LET r[i \in 0..n] == IF i = 0 THEN init ELSE step[i][r[i - 1]]
  IN r[n]
-----------------------------------------------------------------------------
(* CInstantSendDb: the stored locks, and their hashes by transaction and by
   outpoint (a lock stands for its hash).  A later lock replaces the hash of an
   earlier one.  What is read goes through caches; of these the model keeps the
   entries that are not in the database, which a removal as confirmed leaves
   behind until they are evicted. *)

HashByTxid(d, t) == IF d.byTx[t] # None THEN d.byTx[t] ELSE d.txidCache[t]
HashByInput(d, o) == IF d.byIn[o] # None THEN d.byIn[o] ELSE d.outpointCache[o]

GetInstantSendLockByTxid(d, t) == (d.stored \cup d.islockCache) \cap {HashByTxid(d, t)}
GetInstantSendLockByInput(d, o) == (d.stored \cup d.islockCache) \cap {HashByInput(d, o)}
KnownInstantSendLock(d, l) == l \in d.stored \cup d.islockCache \cup {a.lock : a \in d.archived}
IsLocked(d, t) == KnownInstantSendLock(d, HashByTxid(d, t))
GetConflictingLock(d, t) ==
  {l \in UNION {GetInstantSendLockByInput(d, o) : o \in Spends[t]} : l.txid # t}

WriteNewInstantSendLock(d, l) ==
  [d EXCEPT !.stored = @ \cup {l}, !.byTx[l.txid] = l, !.txidCache[l.txid] = None,
            !.byIn = [o \in Outpoints |-> IF o \in Spends[l.txid] THEN l ELSE @[o]],
            !.outpointCache = [o \in Outpoints |-> IF o \in Spends[l.txid] THEN None ELSE @[o]]]

\* The maps f and g, over transactions and outpoints, without the keys of the locks ls.
WithoutTxs(f, ls) == [t \in Txs |-> IF \E l \in ls : l.txid = t THEN None ELSE f[t]]
WithoutInputs(f, ls) == [o \in Outpoints |-> IF \E l \in ls : o \in Spends[l.txid] THEN None ELSE f[o]]

\* Mutant: the outpoint records stay behind.
EraseKeepingOutpoints(d, ls) == [d EXCEPT !.stored = @ \ ls, !.byTx = WithoutTxs(@, ls)]

\* RemoveInstantSendLock for every lock of ls: the records in the database, under
\* the keys of the locks and whichever hash they hold ...
EraseRecords(d, ls) ==
  [d EXCEPT !.stored = @ \ ls, !.byTx = WithoutTxs(@, ls), !.byIn = WithoutInputs(@, ls)]
\* ... and unless keep_cache the cache entries.
RemoveInstantSendLocks(d, ls) ==
  [EraseRecords(d, ls) EXCEPT !.islockCache = @ \ ls, !.txidCache = WithoutTxs(@, ls),
                              !.outpointCache = WithoutInputs(@, ls)]

Archive(d, ls, h) == [d EXCEPT !.archived = @ \cup {[lock |-> l, height |-> h] : l \in ls}]

RemoveAndArchiveInstantSendLock(d, l, h) == Archive(RemoveInstantSendLocks(d, {l}), {l}, h)

GetInstantSendLocksByParent(d, t) ==
  {k \in d.stored : \E o \in Outpoints : Creator[o] = t /\ d.byIn[o] = k}

\* Mutant: children are not looked for.
ChainedAlone(d, t) == {}

\* The locks of transactions chained to t that are found over the outpoints.
Chained(d, t) ==
  {k \in d.stored : \A X \in SUBSET d.stored :
     /\ GetInstantSendLocksByParent(d, t) \subseteq X
     /\ \A m \in X : GetInstantSendLocksByParent(d, m.txid) \subseteq X
     => k \in X}

\* A lock that is not in the database leaves only its own cache entry.
RemoveChainedInstantSendLocks(d, l, h) ==
  LET gone == Chained(d, l.txid) \cup ({l} \cap d.stored)
  IN Archive([RemoveInstantSendLocks(d, gone) EXCEPT !.islockCache = @ \ {l}], gone \cup {l}, h)

\* Locks whose marker says they were mined at h or below.  Only heights above the
\* last call's are looked at.
RemoveConfirmedInstantSendLocks(d, h) ==
  LET done == {m \in d.mined : m.height <= h}
      ls == {m.lock : m \in done}
      gone == ls \cap d.stored
      erased == EraseRecords(d, gone)
  IN IF h <= d.confirmed THEN d
     ELSE [erased EXCEPT
             !.confirmed = h, !.mined = @ \ done, !.archived = @ \cup done,
             !.islockCache = (@ \ ls) \cup gone,
             !.txidCache = [t \in Txs |-> IF erased.byTx[t] = None THEN HashByTxid(d, t) ELSE @[t]],
             !.outpointCache = [o \in Outpoints |->
                                  IF erased.byIn[o] = None THEN HashByInput(d, o) ELSE @[o]]]

RemoveArchivedInstantSendLocks(d, h) ==
  LET old == {a.lock : a \in {x \in d.archived : h > 0 /\ x.height <= h}}
  IN [d EXCEPT !.archived = {a \in @ : a.lock \notin old}]

\* WriteBlockInstantSendLocks, RemoveBlockInstantSendLocks: markers of b's locks.
BlockMarkers(d, b) ==
  {[lock |-> l, height |-> Height[b]] : l \in {HashByTxid(d, t) : t \in SeqTxs(b)} \ {None}}
-----------------------------------------------------------------------------
(* nonLockedTxs: an entry exists if it has a body or, as a placeholder made
   by its children, at least one child. *)

Received == known \ {Genesis}
NonLocked == [info : [Txs -> [body : BOOLEAN, mined : Received \cup {None}, kids : SUBSET Txs]],
              by : [Outpoints -> Txs \cup {None}]]
Tracked(s, t) == s.info[t].body \/ s.info[t].kids # {}

\* Mutant: the block is only noted for a new entry.
AddNonLockedTxOnce(s, t, b) ==
  IF Tracked(s, t) THEN s
  ELSE [info |-> [x \in Txs |->
                    IF x = t THEN [s.info[t] EXCEPT !.body = TRUE, !.mined = b]
                    ELSE IF x \in Parents(t) THEN [s.info[x] EXCEPT !.kids = @ \cup {t}]
                    ELSE s.info[x]],
        by |-> [o \in Outpoints |-> IF o \in Spends[t] /\ s.by[o] = None THEN t ELSE s.by[o]]]

AddNonLockedTx(s, t, b) ==
  LET new == ~Tracked(s, t)
  IN [info |-> [x \in Txs |->
                  IF x = t THEN [s.info[t] EXCEPT !.body = @ \/ new, !.mined = b]
                  ELSE IF new /\ x \in Parents(t) THEN [s.info[x] EXCEPT !.kids = @ \cup {t}]
                  ELSE s.info[x]],
      by |-> [o \in Outpoints |-> IF new /\ o \in Spends[t] /\ s.by[o] = None THEN t ELSE s.by[o]]]

\* RemoveNonLockedTx for every transaction of ts.  A placeholder goes with its last child.
RemoveNonLockedTxs(s, ts) ==
  LET bodies == {t \in ts : s.info[t].body}
      orphaned(x) == ~s.info[x].body /\ s.info[x].kids # {} /\ s.info[x].kids \subseteq bodies
  IN [info |-> [x \in Txs |-> IF x \in ts \/ orphaned(x) THEN NoInfo
                               ELSE [s.info[x] EXCEPT !.kids = @ \ bodies]],
      by |-> [o \in Outpoints |-> IF \E t \in bodies : o \in Spends[t] THEN None ELSE s.by[o]]]
RemoveNonLockedTx(s, t) == RemoveNonLockedTxs(s, {t})

\* The locks that wait for one of the transactions ts: of each transaction, the
\* first one found goes back to pending.
Requeue(ts) ==
  \E ls \in SUBSET {l \in noTx : l.txid \in ts} :
    /\ \A l \in noTx : l.txid \in ts => \E k \in ls : k.txid = l.txid
    /\ \A k, l \in ls : k.txid = l.txid => k = l
    /\ noTx' = noTx \ ls /\ pending' = pending \cup ls

IsWaitingForTx(t) == \E l \in noTx : l.txid = t
-----------------------------------------------------------------------------
(* The chain and the mempool, under cs_main *)

\* AcceptToMemoryPool on top of block b: a transaction that a lock waits for makes
\* room for itself before the remaining checks, accepted or not.
Displaced(d, mp, t) ==
  IF t \notin mp /\ GetConflictingLock(d, t) = {} /\ IsWaitingForTx(t)
  THEN WithDescendants(Conflicts(t) \cap mp, mp) ELSE {}

\* Mutant: conflicting locks are not asked for.
AcceptableUnasked(d, mp, b, t) ==
  /\ t \notin mp \cup ChainTxs(b)
  /\ Conflicts(t) \cap (ChainTxs(b) \cup (mp \ Displaced(d, mp, t))) = {}
  /\ Parents(t) \subseteq ChainTxs(b) \cup (mp \ Displaced(d, mp, t))

Acceptable(d, mp, b, t) ==
  /\ t \notin mp \cup ChainTxs(b)
  /\ GetConflictingLock(d, t) = {}
  /\ Conflicts(t) \cap (ChainTxs(b) \cup (mp \ Displaced(d, mp, t))) = {}
  /\ Parents(t) \subseteq ChainTxs(b) \cup (mp \ Displaced(d, mp, t))
AfterAccept(d, mp, t) == (mp \ Displaced(d, mp, t)) \cup {t}

\* A mempool, and the notifications about what came into it.
TxNotes == [kind : {"tx"}, arg : Txs]
Notes == TxNotes \cup [kind : {"connected", "disconnected"}, arg : Received]
                 \cup [kind : {"chainlock"}, arg : known]
Pool == [mp : SUBSET Txs, added : Seq(TxNotes)]
AddBack(d, s, t) ==
  [mp |-> AfterAccept(d, s.mp, t), added |-> Append(s.added, [kind |-> "tx", arg |-> t])]

\* Mutant: a refused transaction leaves its descendants in the mempool.
ResurrectOneAlone(d, s, b, t) ==
  IF Acceptable(d, s.mp, b, t) THEN AddBack(d, s, t)
  ELSE [s EXCEPT !.mp = @ \ Displaced(d, @, t)]

\* UpdateMempoolForReorg: the transactions ts come back, if they are accepted,
\* or take what depends on them along.
ResurrectOne(d, s, b, t) ==
  IF Acceptable(d, s.mp, b, t) THEN AddBack(d, s, t)
  ELSE [s EXCEPT !.mp = @ \ (Displaced(d, @, t) \cup WithDescendants({t}, @))]
Resurrect(d, mp, b, ts) ==
  Iterate([i \in 1..Len(TxOrder) |->
             [s \in Pool |-> IF TxOrder[i] \in ts THEN ResurrectOne(d, s, b, TxOrder[i]) ELSE s]],
          [mp |-> mp, added |-> <<>>], Len(TxOrder))

\* The notifications for the blocks between `low' and `top', above `low', in
\* ascending or descending order.
Connected(top, low) ==
  [i \in 1..(Height[top] - Height[low]) |->
     [kind |-> "connected", arg |-> GetAncestor(top, Height[low] + i)]]
Disconnected(top, low) ==
  [i \in 1..(Height[top] - Height[low]) |->
     [kind |-> "disconnected", arg |-> GetAncestor(top, Height[top] - i + 1)]]

Highest(S) == CHOOSE b \in S : \A a \in S : Height[a] <= Height[b]

AcceptToMemoryPool(t) ==
  /\ IF Acceptable(db, mempool, tip, t)
     THEN /\ mempool' = AfterAccept(db, mempool, t)
          /\ queue' = Append(queue, [kind |-> "tx", arg |-> t])
     ELSE /\ Displaced(db, mempool, t) # {}
          /\ mempool' = mempool \ Displaced(db, mempool, t)
          /\ UNCHANGED queue
  /\ UNCHANGED <<known, tip, failed, activate, best, notified, cb, txindex, pending, noTx, nonLocked, db, w>>

\* Blocks that do not contradict the ChainLock and have more work than the tip.
Usable(b) == Chain[b] \cap failed = {} /\ (best \in Chain[b] \/ b \in Chain[best])
\* Mutant: blocks count before their data is there.
CandidatesByHeader == {b \in Blocks : Usable(b) /\ Work[b] > Work[tip]}

Candidates == {b \in known : Usable(b) /\ Work[b] > Work[tip]}

\* ProcessNewBlock stores the block and goes on to ActivateBestChain.
ProcessNewBlock(b) ==
  /\ b \notin known /\ Parent[b] \in known /\ Usable(b)
  /\ known' = known \cup {b}
  /\ activate' = (activate \/ Work[b] > Work[tip])
  /\ UNCHANGED <<tip, failed, best, notified, mempool, queue, cb, txindex, pending, noTx, nonLocked, db, w>>

Db == [stored : SUBSET Locks, byTx : [Txs -> Locks \cup {None}],
       byIn : [Outpoints -> Locks \cup {None}], mined : SUBSET [lock : Locks, height : Nat],
       archived : SUBSET [lock : Locks, height : Nat], confirmed : Nat,
       islockCache : SUBSET Locks, txidCache : [Txs -> Locks \cup {None}],
       outpointCache : [Outpoints -> Locks \cup {None}]]

\* ConnectBlock's filter: a block that contradicts a lock is refused.  One that has a
\* ChainLock prunes the lock and what is chained to it, input by input.
LockConflicts(d, b) == UNION {GetConflictingLock(d, t) : t \in SeqTxs(b)}
PruneInput(d, t, o, h) ==
  LET ls == {l \in GetInstantSendLockByInput(d, o) : l.txid # t}
  IN IF ls = {} THEN d ELSE RemoveChainedInstantSendLocks(d, CHOOSE l \in ls : TRUE, h)
PruneTx(d, t, h) ==
  Iterate([i \in 1..Len(Vin[t]) |-> [e \in Db |-> PruneInput(e, t, Vin[t][i], h)]], d, Len(Vin[t]))
PruneBlock(d, b, h) ==
  Iterate([i \in 1..Len(BlockTxs[b]) |-> [e \in Db |-> PruneTx(e, BlockTxs[b][i], h)]],
          d, Len(BlockTxs[b]))
ConnectBlock(s, b) ==
  IF s.bad # {} THEN s
  ELSE IF HasChainLock(b)
  THEN [s EXCEPT !.top = b, !.db = PruneBlock(@, b, Height[s.top])]
  ELSE IF LockConflicts(s.db, b) # {} THEN [s EXCEPT !.bad = {b}]
  ELSE [s EXCEPT !.top = b]

\* The locks' database, a tip, and the block that was refused.
Attempt == [top : Blocks, bad : SUBSET Blocks, db : Db]

\* The blocks from `fork' to its descendant b are connected one by one, until one is refused.
ConnectTo(b, fork) ==
  Iterate([i \in 1..(Height[b] - Height[fork]) |->
             [s \in Attempt |-> ConnectBlock(s, GetAncestor(b, Height[fork] + i))]],
          [top |-> fork, bad |-> {}, db |-> db], Height[b] - Height[fork])

TxsOf(S) == UNION {SeqTxs(b) : b \in S}

\* One step of ActivateBestChain towards the candidate b with most work: blocks are
\* disconnected down to the fork, and connected until the tip is better than before
\* or a block is refused; the mempool follows.  It goes on until nothing is better.
ActivateBestChain(b) ==
  LET fork == FindFork(b, tip)
      enough == Highest({a \in Chain[b] \ Chain[tip] : Work[Parent[a]] <= Work[tip]})
      end == ConnectTo(enough, fork)
      mined == TxsOf(Chain[end.top] \ Chain[tip])
      lost == TxsOf(Chain[tip] \ Chain[b]) \ mined
      left == mempool \ (mined \cup WithDescendants(mempool \cap UNION {Conflicts(t) : t \in mined}, mempool))
      back == Resurrect(end.db, left, end.top, lost)
  IN /\ activate /\ Len(queue) <= QueueLimit
     /\ b \in Candidates /\ \A c \in Candidates : Work[c] <= Work[b]
     /\ tip' = end.top
     /\ failed' = failed \cup end.bad
     /\ db' = end.db
     /\ mempool' = back.mp
     /\ queue' = queue \o Disconnected(tip, fork) \o back.added \o Connected(end.top, fork)
     /\ UNCHANGED <<known, best, notified, cb, txindex, pending, noTx, nonLocked, w>>
     /\ activate' = (Candidates' # {})

\* A CLSIG for b comes in.
ProcessNewChainLock(b) ==
  /\ b \in known /\ best \in Chain[b] /\ b # best
  /\ best' = b
  /\ UNCHANGED <<known, tip, failed, notified, mempool, queue, cb, txindex, pending, noTx, nonLocked, db, w>>
  /\ activate' = (activate /\ Candidates' # {})

\* Mutant: flags stay.
ReconsideredNone(S) == failed

\* ResetBlockFailureFlags for the ancestors and descendants of the blocks of S.
Reconsidered(S) == {f \in failed : \A b \in S : f \notin Chain[b] /\ b \notin Chain[f]}

\* EnforceBestChainLock: competitors of the ChainLock leave the active chain
\* (MarkConflictingBlock), failure flags on its own are reset, and the best
\* chain is activated.
EnforceBestChainLock ==
  LET top == IF best \in Chain[tip] THEN tip ELSE FindFork(best, tip)
      back == Resurrect(db, mempool, top, TxsOf(Chain[tip] \ Chain[top]))
  IN /\ best \notin Chain[tip] \/ Chain[best] \cap failed # {}
     /\ failed' = IF Chain[best] \cap failed = {} THEN failed ELSE Reconsidered({best})
     /\ tip' = top /\ mempool' = back.mp
     /\ queue' = queue \o Disconnected(tip, top) \o back.added
     /\ best' = best /\ known' = known /\ activate' = (Candidates' # {})
     /\ UNCHANGED <<notified, cb, txindex, pending, noTx, nonLocked, db, w>>

NotifyChainLock ==
  /\ best # notified /\ best \in Chain[tip]
  /\ notified' = best
  /\ queue' = Append(queue, [kind |-> "chainlock", arg |-> best])
  /\ UNCHANGED <<known, tip, failed, activate, best, mempool, cb, txindex, pending, noTx, nonLocked, db, w>>
-----------------------------------------------------------------------------
(* The scheduler delivers notifications *)

\* RemoveMempoolConflictsForLock: competitors leave the mempool, with what
\* depends on them, and are no longer tracked.
RemoveMempoolConflicts(l, s) ==
  LET bad == Conflicts(l.txid) \cap mempool
  IN /\ mempool' = mempool \ WithDescendants(bad, mempool)
     /\ nonLocked' = RemoveNonLockedTxs(s, bad)

\* TransactionAddedToMempool: is a lock waiting for the transaction?
DeliverTx ==
  /\ cb = IdleCallback /\ queue # <<>> /\ Head(queue).kind = "tx"
  /\ queue' = Tail(queue)
  /\ LET t == Head(queue).arg
     IN \/ /\ IsWaitingForTx(t)
           /\ Requeue({t})
           /\ RemoveMempoolConflicts([txid |-> t], nonLocked)
           /\ UNCHANGED cb
        \/ /\ ~IsWaitingForTx(t)
           /\ cb' = [kind |-> "tx", arg |-> t, open |-> {t}]
           /\ UNCHANGED <<mempool, nonLocked, pending, noTx>>
  /\ UNCHANGED <<known, tip, failed, activate, best, notified, txindex, db, w>>

\* ... if not, it is tracked, and AddNonLockedTx looks for a lock once more.
TrackTx ==
  /\ cb.kind = "tx"
  /\ nonLocked' = AddNonLockedTx(nonLocked, cb.arg, None)
  /\ Requeue(cb.open)
  /\ cb' = IdleCallback
  /\ UNCHANGED <<chain, queue, txindex, db, w>>

\* BlockConnected: which transactions are neither locked nor ChainLocked?
DeliverBlock ==
  /\ cb = IdleCallback /\ queue # <<>> /\ Head(queue).kind = "connected"
  /\ queue' = Tail(queue)
  /\ LET b == Head(queue).arg
     IN cb' = [kind |-> "block", arg |-> b,
               open |-> {t \in SeqTxs(b) : ~IsLocked(db, t) /\ ~HasChainLock(b)}]
  /\ UNCHANGED <<chain, txindex, pending, noTx, nonLocked, db, w>>

\* ... they are tracked, the others are not any more, and locks are marked as mined.
TrackBlock ==
  /\ cb.kind = "block"
  /\ LET txs == BlockTxs[cb.arg]
     IN nonLocked' = Iterate([i \in 1..Len(txs) |->
                                [s \in NonLocked |-> IF txs[i] \in cb.open
                                                     THEN AddNonLockedTx(s, txs[i], cb.arg)
                                                     ELSE RemoveNonLockedTx(s, txs[i])]],
                             nonLocked, Len(txs))
  /\ Requeue(cb.open)
  /\ db' = [db EXCEPT !.mined = @ \cup BlockMarkers(db, cb.arg)]
  /\ cb' = [cb EXCEPT !.kind = "index", !.open = {}]
  /\ UNCHANGED <<chain, queue, txindex, w>>

\* The transaction index is the next listener.  It forgets nothing when a block
\* is disconnected.
IndexBlock ==
  /\ cb.kind = "index"
  /\ txindex' = [t \in Txs |-> IF t \in SeqTxs(cb.arg) THEN cb.arg ELSE txindex[t]]
  /\ cb' = IdleCallback
  /\ UNCHANGED <<chain, queue, pending, noTx, nonLocked, db, w>>

BlockDisconnected ==
  /\ cb = IdleCallback /\ queue # <<>> /\ Head(queue).kind = "disconnected"
  /\ queue' = Tail(queue)
  /\ db' = [db EXCEPT !.mined = @ \ BlockMarkers(db, Head(queue).arg)]
  /\ UNCHANGED <<chain, cb, txindex, pending, noTx, nonLocked, w>>

HandleFullyConfirmedBlock ==
  /\ cb = IdleCallback /\ queue # <<>> /\ Head(queue).kind = "chainlock"
  /\ queue' = Tail(queue)
  /\ LET b == Head(queue).arg
     IN /\ db' = RemoveArchivedInstantSendLocks(
                   RemoveConfirmedInstantSendLocks(db, Height[b]), Height[b] - ArchiveDepth)
        /\ nonLocked' = RemoveNonLockedTxs(nonLocked, {t \in Txs : nonLocked.info[t].mined \in Chain[b]})
  /\ UNCHANGED <<chain, cb, txindex, pending, noTx, w>>

Scheduler ==
  \/ DeliverTx \/ TrackTx \/ DeliverBlock \/ TrackBlock \/ IndexBlock
  \/ BlockDisconnected \/ HandleFullyConfirmedBlock
-----------------------------------------------------------------------------
(* Locks come in and are processed by the worker *)

ProcessMessageInstantSendLock(l) ==
  /\ l \notin pending \cup noTx /\ ~KnownInstantSendLock(db, l)
  /\ pending' = pending \cup {l}
  /\ UNCHANGED <<chain, queue, cb, txindex, noTx, nonLocked, db, w>>

\* The worker takes a pending lock, which is verified.  ProcessInstantSendLock: known
\* locks and those of ChainLocked transactions are ignored; the transaction is
\* looked up in the mempool, then in the index.
LookupTx(l) ==
  LET at == IF l.txid \in mempool THEN None ELSE txindex[l.txid]
  IN /\ w.pc = "idle" /\ l \in pending
     /\ pending' = pending \ {l}
     /\ w' = IF KnownInstantSendLock(db, l) \/ (at # None /\ HasChainLock(at)) THEN IdleWorker
             ELSE [pc |-> "store", lock |-> l, found |-> l.txid \in mempool \/ at # None,
                   at |-> at, foes |-> {}, unknown |-> FALSE]
     /\ UNCHANGED <<chain, queue, cb, txindex, noTx, nonLocked, db>>

\* Another lock of the same transaction stays if it is deterministic, and makes way
\* for one that is; otherwise, and for locks of the same outpoint, there is a log
\* entry only.  Without its transaction the lock has to wait.
StoreLock ==
  LET l == w.lock
      same == GetInstantSendLockByTxid(db, l.txid)
      d == IF l.det /\ same # {}
           THEN RemoveAndArchiveInstantSendLock(db, CHOOSE k \in same : TRUE, Height[tip]) ELSE db
      mark == {[lock |-> l, height |-> Height[b]] : b \in {w.at} \ {None}}
  IN /\ w.pc = "store"
     /\ IF \E k \in same : k.det
        THEN /\ w' = IdleWorker
             /\ UNCHANGED <<db, noTx, nonLocked>>
        ELSE /\ db' = IF w.found
                      THEN [WriteNewInstantSendLock(d, l) EXCEPT !.mined = @ \cup mark] ELSE d
             /\ noTx' = IF w.found THEN noTx ELSE noTx \cup {l}
             /\ nonLocked' = RemoveNonLockedTx(nonLocked, l.txid)
             /\ w' = [w EXCEPT !.pc = "resolve", !.at = None]
     /\ UNCHANGED <<chain, queue, cb, txindex, pending>>

\* ResolveBlockConflicts: tracked competitors that were mined, by outpoint.  One in
\* a ChainLocked block prunes the lock.
Competitors(l) ==
  {t \in {nonLocked.by[o] : o \in Spends[l.txid]} \ {None, l.txid} :
     nonLocked.info[t].body /\ nonLocked.info[t].mined # None}
AfterResolve == IF w.found THEN [w EXCEPT !.pc = "clear", !.foes = {}, !.unknown = FALSE] ELSE IdleWorker

FindConflicts ==
  LET foes == {[tx |-> t, block |-> nonLocked.info[t].mined] : t \in Competitors(w.lock)}
      lost == \E f \in foes : HasChainLock(f.block)
  IN /\ w.pc = "resolve"
     /\ db' = IF lost THEN RemoveChainedInstantSendLocks(db, w.lock, Height[tip]) ELSE db
     /\ w' = IF lost \/ foes = {} THEN AfterResolve
             ELSE [w EXCEPT !.pc = "invalidate", !.foes = foes, !.unknown = w.lock \in noTx]
     /\ UNCHANGED <<chain, queue, cb, txindex, pending, noTx, nonLocked>>

\* InvalidateBlock disconnects block by block; after each, its transactions return.
DisconnectTo(top) ==
  Iterate([i \in 1..(Height[tip] - Height[top]) |->
             [s \in [mp : SUBSET Txs, added : Seq(Notes)] |->
                LET b == GetAncestor(tip, Height[tip] - i + 1)
                    back == Resurrect(db, s.mp, Parent[b], SeqTxs(b))
                IN [mp |-> back.mp,
                    added |-> s.added \o Disconnected(b, Parent[b]) \o back.added]]],
          [mp |-> mempool, added |-> <<>>], Height[tip] - Height[top])

\* Otherwise the blocks are invalidated and another chain is activated, unless the
\* locked transaction was unknown: then their flags are reset at once.
InvalidateConflicts ==
  LET bad == {f.block : f \in w.foes}
      top == Highest({a \in Chain[tip] : Chain[a] \cap bad = {}})
      end == DisconnectTo(top)
  IN /\ w.pc = "invalidate"
     /\ known' = known /\ best' = best
     /\ tip' = top /\ mempool' = end.mp /\ queue' = queue \o end.added
     /\ nonLocked' = RemoveNonLockedTxs(nonLocked, {f.tx : f \in w.foes})
     /\ IF w.unknown
        THEN failed' = Reconsidered(bad) /\ UNCHANGED activate
        ELSE failed' = failed \cup bad \cup (Chain[tip] \ Chain[top]) /\ activate' = (Candidates' # {})
     /\ w' = AfterResolve
     /\ UNCHANGED <<notified, cb, txindex, pending, noTx, db>>

\* ... and RemoveMempoolConflictsForLock follows if the transaction was found.
ClearMempool ==
  /\ w.pc = "clear"
  /\ RemoveMempoolConflicts(w.lock, nonLocked)
  /\ w' = IdleWorker
  /\ UNCHANGED <<known, tip, failed, activate, best, notified, queue, cb, txindex, pending, noTx, db>>

Worker ==
  \/ \E l \in Locks : LookupTx(l)
  \/ StoreLock \/ FindConflicts \/ InvalidateConflicts \/ ClearMempool

\* The cache entries that were left behind for a lock are evicted.
Evict(l) ==
  LET drop(f) == [x \in DOMAIN f |-> IF f[x] = l THEN None ELSE f[x]]
  IN /\ db' = [db EXCEPT !.islockCache = @ \ {l}, !.txidCache = drop(@), !.outpointCache = drop(@)]
     /\ db' # db
     /\ UNCHANGED <<chain, queue, cb, txindex, pending, noTx, nonLocked, w>>
-----------------------------------------------------------------------------
Next ==
  \/ \E t \in Relayed : AcceptToMemoryPool(t)
  \/ \E b \in Blocks : ProcessNewBlock(b) \/ ActivateBestChain(b)
  \/ \E b \in ClBlocks : ProcessNewChainLock(b)
  \/ EnforceBestChainLock \/ NotifyChainLock
  \/ Scheduler
  \/ \E l \in Locks : ProcessMessageInstantSendLock(l) \/ Evict(l)
  \/ Worker

Spec == Init /\ [][Next]_vars

\* Queued notifications are delivered, ActivateBestChain is run where it is due, and the
\* best ChainLock is enforced.  Nothing is assumed of the worker.
Activation == \E b \in Blocks : ActivateBestChain(b)
Fairness == WF_vars(Scheduler) /\ WF_vars(Activation) /\ WF_vars(EnforceBestChainLock)
FairSpec == Spec /\ Fairness
-----------------------------------------------------------------------------
\* The node's state is well formed; in particular only received blocks become active.
TypeOK ==
  /\ known \subseteq Blocks /\ tip \in known /\ failed \subseteq known
  /\ activate \in BOOLEAN /\ {best, notified} \subseteq known
  /\ mempool \subseteq Txs /\ pending \subseteq Locks /\ noTx \subseteq Locks
  /\ queue \in Seq(Notes) /\ txindex \in [Txs -> known \cup {None}]
  /\ nonLocked \in NonLocked /\ db \in Db
  /\ cb \in {IdleCallback} \cup [kind : {"tx"}, arg : Txs, open : SUBSET Txs]
             \cup [kind : {"block", "index"}, arg : Received, open : SUBSET Txs]
  /\ w \in {IdleWorker} \cup
            [pc : {"store", "resolve", "invalidate", "clear"}, lock : Locks, found : BOOLEAN,
             at : known \cup {None}, foes : SUBSET [tx : Txs, block : Received], unknown : BOOLEAN]

\* The records of CInstantSendDb agree, whichever thread wrote or pruned last: no index
\* record outlives its lock, an index record or a cache entry names a lock of its own
\* transaction or outpoint, and a stored lock is found over its transaction and each
\* of its inputs - unless there is a second lock for one of these, which
\* ProcessInstantSendLock logs, and then writes over the first.
Uncontested(t) ==
  /\ \A l \in Locks : l.txid # t => Spends[l.txid] \cap Spends[t] = {}
  /\ \A k, l \in Locks : k.txid = t /\ l.txid = t /\ ~k.det /\ ~l.det => k = l
Indexed(d) ==
  /\ \A t \in Txs : d.byTx[t] \in d.stored \cup {None}
  /\ \A o \in Outpoints : d.byIn[o] \in d.stored \cup {None}
  /\ \A t \in Txs : \A l \in {d.byTx[t], d.txidCache[t]} \ {None} : l.txid = t
  /\ \A o \in Outpoints : \A l \in {d.byIn[o], d.outpointCache[o]} \ {None} : o \in Spends[l.txid]
  /\ \A l \in d.stored : Uncontested(l.txid) =>
       d.byTx[l.txid] = l /\ \A o \in Spends[l.txid] : d.byIn[o] = l
IndexComplete == Indexed(db)

\* No transaction in the mempool contradicts the lock on record for an outpoint,
\* except while the worker is still processing that lock: AcceptToMemoryPool refuses
\* it, also when blocks are disconnected, and RemoveMempoolConflictsForLock removes it.
MempoolAgreesWithLocks ==
  \A o \in Outpoints, t \in mempool :
    db.byIn[o] # None /\ o \in Spends[t] /\ db.byIn[o].txid # t =>
      w.lock = db.byIn[o] /\ w.pc \in {"resolve", "invalidate", "clear"}

\* Whatever locks, ChainLocks and reorganisations did, the mempool is one that could be
\* mined: no double spends, no missing inputs, nothing already confirmed.
MempoolAgreesWithChain ==
  \A t \in mempool :
    /\ ({t} \cup Conflicts(t)) \cap ChainTxs(tip) = {} /\ Conflicts(t) \cap mempool = {}
    /\ Parents(t) \subseteq mempool \cup ChainTxs(tip)

\* When nothing is in progress, an unlocked transaction in an active block without
\* ChainLock is tracked with that block, so that a lock that contradicts it can
\* find the block - or its own lock is there and waits.
Quiet == queue = <<>> /\ cb = IdleCallback /\ w = IdleWorker /\ ~activate
UnlockedIsTracked ==
  Quiet => \A b \in Chain[tip] \ Chain[best], t \in Txs :
    t \in SeqTxs(b) /\ ~IsLocked(db, t) /\ (\A l \in pending \cup noTx : l.txid # t) =>
      nonLocked.info[t].body /\ nonLocked.info[t].mined = b

\* A block is only connected when no outpoint that it spends has another transaction's
\* lock on record any more.  A lock pruned for that takes the locks along that are on
\* record for its transaction's outputs, and so on down the chain of transactions.
OverruledTogether ==
  [][\A b \in Chain[tip'] \ Chain[tip] :
       /\ \A t \in SeqTxs(b), o \in Outpoints :
            o \in Spends[t] /\ db'.byIn[o] # None => db'.byIn[o].txid = t
       /\ \A l \in db.stored \ db'.stored, o \in Outpoints :
            Creator[o] = l.txid => db'.byIn[o] = None]_vars

\* Locks do not win against ChainLocks: although the worker may invalidate a block just
\* when its ChainLock comes in, the ChainLocked block ends up in the active chain.
ChainLockReturns == <>[](best \in Chain[tip])

\* "Collect all non-locked TXs which conflict with the given ISLOCK": with every
\* notification delivered, ResolveBlockConflicts leaves no block without ChainLock
\* in the active chain that contains a competitor of the lock's transaction.
DisconnectsConflicts ==
  [][(FindConflicts \/ InvalidateConflicts) /\ w'.pc # "invalidate" /\ queue = <<>> /\ cb = IdleCallback
       => \A b \in Chain[tip'] \ Chain[best] : Conflicts(w.lock.txid) \cap SeqTxs(b) = {}]_vars
=============================================================================
