------------------------- MODULE InstantSendProofs -------------------------
(***************************************************************************)
(* Proofs about InstantSend, for every set of transactions, every block    *)
(* tree and every set of locks, also locks that contradict each other: the *)
(* records of the locks' database fit together, the mempool agrees with    *)
(* the locks on record and with the active chain, and a lock that a        *)
(* ChainLock overrules goes with the locks chained to it.                  *)
(***************************************************************************)
EXTENDS InstantSend, BlockTreeProofs

\* The prover of all steps that name no other.
USE ZenonT(20)
-----------------------------------------------------------------------------
(* Loops *)

\* The values of a loop variable before the first and after every turn.
IsRun(r, X, step, init, n) ==
  r \in [0..n -> X] /\ r[0] = init /\ \A i \in 1..n : r[i] = step[i][r[i - 1]]

\* Such a sequence of values exists, if a loop invariant keeps them in X.
LEMMA IterateExists ==
  ASSUME NEW X, NEW n \in Nat, NEW step, NEW init,
         NEW Good \in [0..n -> SUBSET X], init \in Good[0],
         \A i \in 1..n : \A x \in Good[i - 1] : step[i][x] \in Good[i]
  PROVE  \E r : IsRun(r, X, step, init, n)
<1> DEFINE Runs(k) == {r \in [0..n -> X] : /\ r[0] = init
                                           /\ \A i \in 1..k : r[i] = step[i][r[i - 1]]
                                           /\ \A i \in 0..k : r[i] \in Good[i]}
           S == {k \in Nat : k <= n => Runs(k) # {}}
<1>1. 0 \in S
  <2>1. [i \in 0..n |-> init] \in Runs(0)
    BY SMTT(30)
  <2>2. QED
    BY <2>1
<1>2. ASSUME NEW k \in Nat, k \in S PROVE k + 1 \in S
  <2>1. SUFFICES ASSUME k + 1 <= n PROVE Runs(k + 1) # {}
    BY SMTT(30)
  <2>2. PICK r \in Runs(k) : TRUE
    BY <1>2, <2>1, SMTT(30)
  <2> DEFINE v == step[k + 1][r[k]]
             q == [r EXCEPT ![k + 1] = v]
  <2>3. k \in 0..n /\ k \in 0..k /\ k + 1 \in 1..n /\ k + 1 \in 0..n /\ (k + 1) - 1 = k
    BY <2>1, SMTT(30)
  <2>4. v \in Good[k + 1]
    BY <2>2, <2>3
  <2>5. v \in X
    BY <2>3, <2>4
  <2>6. q \in [0..n -> X]
    BY <2>2, <2>5
  <2>7. q[0] = init
    BY <2>2, <2>3, SMTT(30)
  <2>8. ASSUME NEW i \in 1..(k + 1) PROVE q[i] = step[i][q[i - 1]]
    <3>1. i \in 0..n /\ i - 1 \in 0..n /\ i - 1 # k + 1
      BY <2>3, <2>8, SMTT(30)
    <3>2. CASE i = k + 1
      BY <2>2, <2>3, <3>1, <3>2
    <3>3. CASE i # k + 1
      BY <2>2, <2>3, <2>8, <3>1, <3>3, SMTT(30)
    <3>4. QED
      BY <3>2, <3>3
  <2>9. ASSUME NEW i \in 0..(k + 1) PROVE q[i] \in Good[i]
    <3>1. i \in 0..n /\ (i # k + 1 => i \in 0..k)
      BY <2>3, <2>9, SMTT(30)
    <3>2. QED
      BY <2>2, <2>3, <2>4, <3>1
  <2>10. QED
    BY <2>6, <2>7, <2>8, <2>9
<1>3. n \in S
  <2> HIDE DEF S
  <2>1. QED
    BY <1>1, <1>2, NatSetInduction
<1>4. QED
  BY <1>3, SMTT(30) DEF IsRun

\* A loop invariant: what holds before the loop and is kept by each turn holds after it.
LEMMA IterateInvariant ==
  ASSUME NEW X, NEW n \in Nat, NEW step, NEW init,
         NEW Good \in [0..n -> SUBSET X], init \in Good[0],
         \A i \in 1..n : \A x \in Good[i - 1] : step[i][x] \in Good[i]
  PROVE  Iterate(step, init, n) \in Good[n]
<1>0. \E r : IsRun(r, X, step, init, n)
  BY IterateExists
<1> DEFINE Def(r) == r = [i \in 0..n |-> IF i = 0 THEN init ELSE step[i][r[i - 1]]]
           run == CHOOSE r : Def(r)
<1>1. \E r : Def(r)
  <2>1. PICK r \in [0..n -> X] : r[0] = init /\ \A i \in 1..n : r[i] = step[i][r[i - 1]]
    BY <1>0 DEF IsRun
  <2>2. r = [i \in 0..n |-> IF i = 0 THEN init ELSE step[i][r[i - 1]]]
    BY <2>1, SMTT(30)
  <2>3. QED
    BY <2>2
<1>2. Def(run)
  <2> HIDE DEF Def
  <2>1. QED
    BY <1>1
<1>3. Iterate(step, init, n) = run[n]
  BY DEF Iterate
<1> HIDE DEF run
<1> DEFINE S == {k \in Nat : k <= n => run[k] \in Good[k]}
<1>4. 0 \in S
  BY <1>2, SMTT(30)
<1>5. ASSUME NEW k \in Nat, k \in S PROVE k + 1 \in S
  BY <1>2, <1>5, SMTT(30)
<1>6. n \in S
  <2> HIDE DEF S, Def
  <2>1. QED
    BY <1>4, <1>5, NatSetInduction
<1>7. QED
  BY <1>3, <1>6, SMTT(30)
-----------------------------------------------------------------------------
(* Transactions and the mempool *)

\* What WithDescendants adds to S comes from U, and it leaves no child in U out.
LEMMA DescendantsProperty ==
  ASSUME NEW S, NEW U
  PROVE  /\ S \subseteq WithDescendants(S, U)
         /\ WithDescendants(S, U) \subseteq S \cup U
         /\ Closed(WithDescendants(S, U), U)
<1>1. S \subseteq WithDescendants(S, U) /\ WithDescendants(S, U) \subseteq S \cup U
  BY DEF WithDescendants
<1>2. ASSUME NEW u \in U, NEW p \in Parents(u), p \in WithDescendants(S, U)
      PROVE  u \in WithDescendants(S, U)
  <2>1. SUFFICES ASSUME NEW X \in SUBSET (S \cup U), S \subseteq X, Closed(X, U)
                 PROVE  u \in X
    BY DEF WithDescendants
  <2>2. p \in X
    BY <1>2, <2>1 DEF WithDescendants
  <2>3. QED
    BY <1>2, <2>1, <2>2 DEF Closed
<1>3. QED
  BY <1>1, <1>2 DEF Closed

\* Conflicts are mutual.
LEMMA ConflictsSymmetric ==
  ASSUME NEW t \in Txs, NEW u \in Conflicts(t)
  PROVE  u \in Txs /\ u # t /\ t \in Conflicts(u)
BY DEF Conflicts

\* Pool mp on top of block b: no double spends, nothing confirmed, and inputs that exist
\* but for those of the transactions W.
PoolFits(mp, b, W) ==
  \A t \in mp :
    /\ ({t} \cup Conflicts(t)) \cap ChainTxs(b) = {} /\ Conflicts(t) \cap mp = {}
    /\ Parents(t) \subseteq mp \cup ChainTxs(b) \cup W

\* Transactions leave with what depends on them.
LEMMA DropFits ==
  ASSUME NEW mp, NEW b, NEW W, NEW X, PoolFits(mp, b, W), Closed(X, mp)
  PROVE  PoolFits(mp \ X, b, W \ X)
BY DEF PoolFits, Closed

\* What Displaced removes contains the competitors of an acceptable transaction.
LEMMA DisplacedClosed ==
  ASSUME NEW d, NEW mp, NEW t
  PROVE  Closed(Displaced(d, mp, t), mp) /\ Displaced(d, mp, t) \subseteq mp
<1>1. CASE Displaced(d, mp, t) = {}
  BY <1>1 DEF Closed
<1>2. CASE Displaced(d, mp, t) = WithDescendants(Conflicts(t) \cap mp, mp)
  BY <1>2, DescendantsProperty
<1>3. QED
  BY <1>1, <1>2 DEF Displaced

\* AcceptToMemoryPool keeps the pool consistent; the transaction is no longer missing.
LEMMA AcceptFits ==
  ASSUME NEW d, NEW mp \in SUBSET Txs, NEW b, NEW W, NEW t \in Txs,
         PoolFits(mp, b, W), Acceptable(d, mp, b, t)
  PROVE  PoolFits(AfterAccept(d, mp, t), b, W \ {t})
<1> DEFINE X == Displaced(d, mp, t)
           new == (mp \ X) \cup {t}
<1>1. Closed(X, mp) /\ X \subseteq mp
  BY DisplacedClosed
<1>2. /\ t \notin mp \cup ChainTxs(b)
      /\ Conflicts(t) \cap (ChainTxs(b) \cup (mp \ X)) = {}
      /\ Parents(t) \subseteq ChainTxs(b) \cup (mp \ X)
  BY DEF Acceptable
<1> HIDE DEF X
<1>3. ASSUME NEW u \in mp \ X PROVE t \notin Conflicts(u)
  BY <1>2, <1>3, ConflictsSymmetric
<1>4. ASSUME NEW u \in mp \ X
      PROVE  /\ ({u} \cup Conflicts(u)) \cap ChainTxs(b) = {} /\ Conflicts(u) \cap new = {}
             /\ Parents(u) \subseteq new \cup ChainTxs(b) \cup (W \ {t})
  BY <1>1, <1>3, <1>4, SMTT(30) DEF PoolFits, Closed
<1>5. t \notin Conflicts(t)
  BY DEF Conflicts
<1>6. /\ ({t} \cup Conflicts(t)) \cap ChainTxs(b) = {} /\ Conflicts(t) \cap new = {}
      /\ Parents(t) \subseteq new \cup ChainTxs(b) \cup (W \ {t})
  BY <1>2, <1>5
<1>7. PoolFits(new, b, W \ {t})
  BY <1>4, <1>6 DEF PoolFits
<1>8. QED
  BY <1>7 DEF X, AfterAccept

\* So does refusing it, if what depends on it goes as well.
LEMMA RefuseFits ==
  ASSUME NEW d, NEW mp, NEW b, NEW W, NEW t, PoolFits(mp, b, W)
  PROVE  PoolFits(mp \ (Displaced(d, mp, t) \cup WithDescendants({t}, mp)), b, W \ {t})
<1> DEFINE X == Displaced(d, mp, t) \cup WithDescendants({t}, mp)
<1>1. Closed(X, mp) /\ t \in X
  BY DisplacedClosed, DescendantsProperty DEF Closed
<1>2. PoolFits(mp \ X, b, W \ X)
  BY <1>1, DropFits
<1>3. QED
  BY <1>1, <1>2 DEF PoolFits

\* One turn of UpdateMempoolForReorg.
LEMMA ResurrectOneProperty ==
  ASSUME NEW d, NEW s \in Pool, NEW b, NEW W, NEW t \in Txs
  PROVE  /\ ResurrectOne(d, s, b, t) \in Pool
         /\ PoolFits(s.mp, b, W) => PoolFits(ResurrectOne(d, s, b, t).mp, b, W \ {t})
         /\ \A u \in ResurrectOne(d, s, b, t).mp : u \in s.mp \/ GetConflictingLock(d, u) = {}
<1> DEFINE r == ResurrectOne(d, s, b, t)
<1>1. CASE Acceptable(d, s.mp, b, t)
  <2>1. r = AddBack(d, s, t)
    BY <1>1 DEF ResurrectOne
  <2>2. [kind |-> "tx", arg |-> t] \in TxNotes /\ s.added \in Seq(TxNotes) /\ s.mp \in SUBSET Txs
    BY DEF TxNotes, Pool
  <2>3. r.mp = AfterAccept(d, s.mp, t) /\ r.added = Append(s.added, [kind |-> "tx", arg |-> t])
    BY <2>1, SMTT(30) DEF AddBack
  <2>4. AfterAccept(d, s.mp, t) \subseteq s.mp \cup {t}
    BY DEF AfterAccept
  <2>5. r \in Pool
    BY <2>1, <2>2, <2>4, SMTT(30) DEF Pool, AddBack
  <2>6. PoolFits(s.mp, b, W) => PoolFits(r.mp, b, W \ {t})
    BY <1>1, <2>2, <2>3, AcceptFits, SMTT(30)
  <2>7. QED
    BY <1>1, <2>3, <2>4, <2>5, <2>6 DEF Acceptable
<1>2. CASE ~Acceptable(d, s.mp, b, t)
  <2> DEFINE X == Displaced(d, s.mp, t) \cup WithDescendants({t}, s.mp)
  <2>1. r = [s EXCEPT !.mp = s.mp \ X]
    BY <1>2 DEF ResurrectOne
  <2> HIDE DEF X
  <2>2. r \in Pool /\ r.mp = s.mp \ X
    BY <2>1 DEF Pool
  <2>3. PoolFits(s.mp, b, W) => PoolFits(s.mp \ X, b, W \ {t})
    BY RefuseFits DEF X
  <2>4. QED
    BY <2>2, <2>3
<1>3. QED
  BY <1>1, <1>2

\* UpdateMempoolForReorg makes the mempool fit the new tip, if only transactions that
\* were disconnected are missing, and lets nothing in that contradicts a lock.
LEMMA ResurrectProperty ==
  ASSUME NEW d, NEW mp \in SUBSET Txs, NEW b, NEW ts \in SUBSET Txs, PoolFits(mp, b, ts)
  PROVE  /\ Resurrect(d, mp, b, ts) \in Pool
         /\ PoolFits(Resurrect(d, mp, b, ts).mp, b, {})
         /\ \A u \in Resurrect(d, mp, b, ts).mp : u \in mp \/ GetConflictingLock(d, u) = {}
<1> DEFINE n == Len(TxOrder)
           step == [i \in 1..n |->
                      [s \in Pool |-> IF TxOrder[i] \in ts THEN ResurrectOne(d, s, b, TxOrder[i]) ELSE s]]
           init == [mp |-> mp, added |-> <<>>]
           left(i) == {TxOrder[j] : j \in (i + 1)..n} \cap ts
           good(i) == {s \in Pool : /\ PoolFits(s.mp, b, left(i))
                                    /\ \A u \in s.mp : u \in mp \/ GetConflictingLock(d, u) = {}}
           Good == [i \in 0..n |-> good(i)]
<1>1. n \in Nat /\ \A i \in 1..n : TxOrder[i] \in Txs
  BY TxAssumption, SMTT(30)
<1>3. init \in Pool
  BY SMTT(30) DEF Pool
<1>4. init \in Good[0]
  <2>1. left(0) = ts
    BY TxAssumption, SMTT(30) DEF Txs
  <2>2. init.mp = mp
    OBVIOUS
  <2> HIDE DEF left, init
  <2>3. QED
    BY <1>1, <1>3, <2>1, <2>2, SMTT(30)
<1>5. ASSUME NEW i \in 1..n, NEW s \in Good[i - 1] PROVE step[i][s] \in Good[i]
  <2>1. i - 1 \in 0..n /\ i \in 0..n /\ TxOrder[i] \in Txs
    BY <1>1, SMTT(30)
  <2>2. s \in Pool /\ PoolFits(s.mp, b, left(i - 1))
    BY <1>5, <2>1
  <2>3. \A u \in s.mp : u \in mp \/ GetConflictingLock(d, u) = {}
    BY <1>5, <2>1
  <2>4. left(i - 1) \ {TxOrder[i]} \subseteq left(i)
    <3>1. \A j \in ((i - 1) + 1)..n : j = i \/ j \in (i + 1)..n
      BY <1>1, SMTT(30)
    <3>2. QED
      BY <3>1
  <2>5. CASE TxOrder[i] \in ts
    <3> DEFINE r == ResurrectOne(d, s, b, TxOrder[i])
    <3>1. step[i][s] = r
      BY <2>2, <2>5
    <3>2. r \in Pool /\ PoolFits(r.mp, b, left(i - 1) \ {TxOrder[i]})
      <4> HIDE DEF left
      <4>1. QED
        BY <2>1, <2>2, ResurrectOneProperty
    <3>3. \A u \in r.mp : u \in s.mp \/ GetConflictingLock(d, u) = {}
      BY <2>1, <2>2, ResurrectOneProperty
    <3> HIDE DEF left, r, step
    <3>4. PoolFits(r.mp, b, left(i))
      BY <2>4, <3>2 DEF PoolFits
    <3>5. r \in good(i)
      BY <2>3, <3>2, <3>3, <3>4
    <3>6. QED
      BY <2>1, <3>1, <3>5
  <2>6. CASE TxOrder[i] \notin ts
    <3>1. step[i][s] = s
      BY <2>2, <2>6
    <3>2. left(i - 1) \subseteq left(i)
      BY <2>4, <2>6
    <3> HIDE DEF left, step
    <3>3. PoolFits(s.mp, b, left(i))
      BY <2>2, <3>2 DEF PoolFits
    <3>4. QED
      BY <2>1, <2>2, <2>3, <3>1, <3>3
  <2>7. QED
    BY <2>5, <2>6
<1>6. Iterate(step, init, n) \in Good[n]
  <2>1. Good \in [0..n -> SUBSET Pool]
    OBVIOUS
  <2> HIDE DEF Good, step, init
  <2>2. QED
    BY <1>1, <1>4, <1>5, <2>1, IterateInvariant
<1>7. left(n) = {}
  BY <1>1, SMTT(30)
<1>8. Resurrect(d, mp, b, ts) = Iterate(step, init, n)
  BY DEF Resurrect
<1> HIDE DEF left, step, init
<1>9. Iterate(step, init, n) \in good(n)
  BY <1>1, <1>6, SMTT(30)
<1>10. QED
  BY <1>7, <1>8, <1>9
-----------------------------------------------------------------------------
(* The locks' database *)

\* What transactions spend.
LEMMA SpendsType == \A t \in Txs : Spends[t] \subseteq Outpoints
<1>1. SUFFICES ASSUME NEW t \in Txs, NEW i \in 1..Len(Vin[t]) PROVE Vin[t][i] \in Outpoints
  BY DEF Spends
<1>2. QED
  BY TxAssumption, SMTT(30)

\* What a lock is.
LEMMA LockType ==
  ASSUME NEW l \in Locks
  PROVE  l.txid \in Txs /\ l.det \in BOOLEAN /\ l # None /\ Spends[l.txid] \subseteq Outpoints
BY LockAssumption, SpendsType

\* The maps of a database.
Maps(d) ==
  /\ d.stored \in SUBSET Locks /\ d.islockCache \in SUBSET Locks
  /\ d.byTx \in [Txs -> Locks \cup {None}] /\ d.txidCache \in [Txs -> Locks \cup {None}]
  /\ d.byIn \in [Outpoints -> Locks \cup {None}] /\ d.outpointCache \in [Outpoints -> Locks \cup {None}]

LEMMA MapsType ==
  ASSUME NEW d \in Db
  PROVE  Maps(d)
BY DEF Db, Maps

LEMMA WithoutType ==
  ASSUME NEW f, NEW ls
  PROVE  /\ f \in [Txs -> Locks \cup {None}] => WithoutTxs(f, ls) \in [Txs -> Locks \cup {None}]
         /\ f \in [Outpoints -> Locks \cup {None}] => WithoutInputs(f, ls) \in [Outpoints -> Locks \cup {None}]
BY DEF WithoutTxs, WithoutInputs

\* d is what is left of e: no record of an outpoint is new.
Left(d, e) ==
  d.stored \subseteq e.stored /\ \A o \in Outpoints : d.byIn[o] = None \/ d.byIn[o] = e.byIn[o]

LEMMA LeftProperty ==
  /\ \A d, e : d.stored = e.stored /\ d.byIn = e.byIn => Left(d, e)
  /\ \A c, d, e : Left(c, d) /\ Left(d, e) => Left(c, e)
BY DEF Left

\* The lock on record for an input of a transaction is found, if it is another one's.
LEMMA ConflictFound ==
  ASSUME NEW d \in Db, Indexed(d), NEW t \in Txs, NEW o \in Spends[t],
         d.byIn[o] # None, d.byIn[o].txid # t
  PROVE  d.byIn[o] \in GetConflictingLock(d, t)
<1>1. d.byIn[o] \in d.stored
  BY SpendsType DEF Indexed
<1>2. d.byIn[o] \in GetInstantSendLockByInput(d, o)
  BY <1>1 DEF GetInstantSendLockByInput, HashByInput
<1>3. QED
  BY <1>2 DEF GetConflictingLock

\* Locks leave with their records.  Others of the same transaction may be left without.
LEMMA EraseIndexed ==
  ASSUME NEW d \in Db, Indexed(d), NEW ls \in SUBSET Locks,
         \A k \in d.stored \ ls, l \in ls : Uncontested(k.txid) => k.txid # l.txid
  PROVE  LET r == EraseRecords(d, ls)
         IN /\ r \in Db /\ Indexed(r) /\ Left(r, d) /\ r.stored = d.stored \ ls
            /\ \A l \in ls : \A o \in Spends[l.txid] : r.byIn[o] = None
            /\ r.mined = d.mined /\ r.archived = d.archived /\ r.confirmed = d.confirmed
            /\ r.islockCache = d.islockCache /\ r.txidCache = d.txidCache
            /\ r.outpointCache = d.outpointCache
<1> DEFINE byTx == WithoutTxs(d.byTx, ls)
           byIn == WithoutInputs(d.byIn, ls)
           r == [d EXCEPT !.stored = d.stored \ ls, !.byTx = byTx, !.byIn = byIn]
<1>1. EraseRecords(d, ls) = r
  BY DEF EraseRecords
<1>2. /\ d.stored \in SUBSET Locks /\ d.byTx \in [Txs -> Locks \cup {None}]
      /\ d.byIn \in [Outpoints -> Locks \cup {None}]
  BY MapsType DEF Maps
<1>3. byTx \in [Txs -> Locks \cup {None}] /\ byIn \in [Outpoints -> Locks \cup {None}]
  BY <1>2, WithoutType
<1>4. /\ \A t \in Txs : byTx[t] = IF \E l \in ls : l.txid = t THEN None ELSE d.byTx[t]
      /\ \A o \in Outpoints : byIn[o] = IF \E l \in ls : o \in Spends[l.txid] THEN None ELSE d.byIn[o]
  BY DEF WithoutTxs, WithoutInputs
<1> HIDE DEF byTx, byIn
<1>5. /\ r \in Db /\ r.stored = d.stored \ ls /\ r.byTx = byTx /\ r.byIn = byIn
      /\ r.mined = d.mined /\ r.archived = d.archived /\ r.confirmed = d.confirmed
      /\ r.islockCache = d.islockCache /\ r.txidCache = d.txidCache
      /\ r.outpointCache = d.outpointCache
  BY <1>2, <1>3 DEF Db
<1> HIDE DEF r
<1>6. \A l \in ls : \A o \in Spends[l.txid] : byIn[o] = None
  BY <1>4, LockType
<1>7. Left(r, d)
  BY <1>4, <1>5 DEF Left
<1>8. \A t \in Txs : byTx[t] \in (d.stored \ ls) \cup {None}
  <2>1. SUFFICES ASSUME NEW t \in Txs, byTx[t] # None PROVE byTx[t] \in d.stored \ ls
    OBVIOUS
  <2>2. byTx[t] = d.byTx[t] /\ ~\E l \in ls : l.txid = t
    BY <1>4, <2>1
  <2>3. d.byTx[t] \in d.stored /\ d.byTx[t].txid = t
    BY <2>1, <2>2 DEF Indexed
  <2>4. QED
    BY <2>2, <2>3
<1>9. \A o \in Outpoints : byIn[o] \in (d.stored \ ls) \cup {None}
  <2>1. SUFFICES ASSUME NEW o \in Outpoints, byIn[o] # None PROVE byIn[o] \in d.stored \ ls
    OBVIOUS
  <2>2. byIn[o] = d.byIn[o] /\ ~\E l \in ls : o \in Spends[l.txid]
    BY <1>4, <2>1
  <2>3. d.byIn[o] \in d.stored /\ o \in Spends[d.byIn[o].txid]
    BY <2>1, <2>2 DEF Indexed
  <2>4. QED
    BY <2>2, <2>3
<1>10. /\ \A t \in Txs : \A l \in {byTx[t], d.txidCache[t]} \ {None} : l.txid = t
       /\ \A o \in Outpoints : \A l \in {byIn[o], d.outpointCache[o]} \ {None} : o \in Spends[l.txid]
  BY <1>4 DEF Indexed
<1>11. ASSUME NEW k \in d.stored \ ls, Uncontested(k.txid)
       PROVE  byTx[k.txid] = k /\ \A o \in Spends[k.txid] : byIn[o] = k
  <2>1. k.txid \in Txs /\ Spends[k.txid] \subseteq Outpoints
    BY <1>2, LockType
  <2>2. ASSUME NEW l \in ls PROVE l.txid # k.txid /\ Spends[l.txid] \cap Spends[k.txid] = {}
    BY <1>11, <2>2 DEF Uncontested
  <2>3. d.byTx[k.txid] = k /\ \A o \in Spends[k.txid] : d.byIn[o] = k
    BY <1>11 DEF Indexed
  <2>4. byTx[k.txid] = k
    BY <1>4, <2>1, <2>2, <2>3
  <2>5. ASSUME NEW o \in Spends[k.txid] PROVE byIn[o] = k
    <3>1. o \in Outpoints /\ ~\E l \in ls : o \in Spends[l.txid]
      BY <2>1, <2>2
    <3>2. QED
      BY <1>4, <2>3, <3>1
  <2>6. QED
    BY <2>4, <2>5
<1>12. Indexed(r)
  <2>1. /\ \A t \in Txs : \A l \in {r.byTx[t], r.txidCache[t]} \ {None} : l.txid = t
        /\ \A o \in Outpoints : \A l \in {r.byIn[o], r.outpointCache[o]} \ {None} : o \in Spends[l.txid]
    BY <1>5, <1>10
  <2>2. QED
    BY <1>5, <1>8, <1>9, <1>11, <2>1 DEF Indexed
<1>13. QED
  BY <1>1, <1>5, <1>6, <1>7, <1>12

\* A database with other caches.
LEMMA CachesIndexed ==
  ASSUME NEW d \in Db, Indexed(d), NEW e \in Db, e.stored = d.stored, e.byTx = d.byTx, e.byIn = d.byIn,
         \A t \in Txs : e.txidCache[t] # None /\ e.txidCache[t] # d.txidCache[t] => e.txidCache[t].txid = t,
         \A o \in Outpoints : e.outpointCache[o] # None /\ e.outpointCache[o] # d.outpointCache[o] =>
           o \in Spends[e.outpointCache[o].txid]
  PROVE  Indexed(e) /\ Left(e, d)
<1>1. ASSUME NEW t \in Txs, NEW l \in {e.byTx[t], e.txidCache[t]} \ {None} PROVE l.txid = t
  <2>1. CASE l = e.txidCache[t] /\ e.txidCache[t] # d.txidCache[t]
    BY <1>1, <2>1
  <2>2. CASE l \in {d.byTx[t], d.txidCache[t]} \ {None}
    BY <2>2 DEF Indexed
  <2>3. QED
    BY <1>1, <2>1, <2>2
<1>2. ASSUME NEW o \in Outpoints, NEW l \in {e.byIn[o], e.outpointCache[o]} \ {None}
      PROVE  o \in Spends[l.txid]
  <2>1. CASE l = e.outpointCache[o] /\ e.outpointCache[o] # d.outpointCache[o]
    BY <1>2, <2>1
  <2>2. CASE l \in {d.byIn[o], d.outpointCache[o]} \ {None}
    BY <2>2 DEF Indexed
  <2>3. QED
    BY <1>2, <2>1, <2>2
<1>3. /\ \A t \in Txs : e.byTx[t] \in e.stored \cup {None}
      /\ \A o \in Outpoints : e.byIn[o] \in e.stored \cup {None}
  BY DEF Indexed
<1>4. ASSUME NEW l \in e.stored, Uncontested(l.txid)
      PROVE  e.byTx[l.txid] = l /\ \A o \in Spends[l.txid] : e.byIn[o] = l
  <2>1. d.byTx[l.txid] = l /\ \A o \in Spends[l.txid] : d.byIn[o] = l
    BY <1>4 DEF Indexed
  <2>2. QED
    BY <2>1
<1>5. Indexed(e)
  BY <1>1, <1>2, <1>3, <1>4 DEF Indexed
<1>6. QED
  BY <1>5 DEF Left

LEMMA RemoveIndexed ==
  ASSUME NEW d \in Db, Indexed(d), NEW ls \in SUBSET Locks,
         \A k \in d.stored \ ls, l \in ls : Uncontested(k.txid) => k.txid # l.txid
  PROVE  LET r == RemoveInstantSendLocks(d, ls)
         IN /\ r \in Db /\ Indexed(r) /\ Left(r, d) /\ r.stored = d.stored \ ls
            /\ \A l \in ls : \A o \in Spends[l.txid] : r.byIn[o] = None
<1> DEFINE e == EraseRecords(d, ls)
           locks == e.islockCache \ ls
           txs == WithoutTxs(e.txidCache, ls)
           ins == WithoutInputs(e.outpointCache, ls)
           r == [e EXCEPT !.islockCache = locks, !.txidCache = txs, !.outpointCache = ins]
<1>1. RemoveInstantSendLocks(d, ls) = r
  BY DEF RemoveInstantSendLocks
<1>2. /\ e \in Db /\ Indexed(e) /\ Left(e, d) /\ e.stored = d.stored \ ls
      /\ \A l \in ls : \A o \in Spends[l.txid] : e.byIn[o] = None
  BY EraseIndexed
<1> HIDE DEF e
<1>3. /\ locks \in SUBSET Locks /\ txs \in [Txs -> Locks \cup {None}]
      /\ ins \in [Outpoints -> Locks \cup {None}]
  BY <1>2, MapsType, WithoutType DEF Maps
<1>4. /\ \A t \in Txs : txs[t] = None \/ txs[t] = e.txidCache[t]
      /\ \A o \in Outpoints : ins[o] = None \/ ins[o] = e.outpointCache[o]
  BY DEF WithoutTxs, WithoutInputs
<1> HIDE DEF locks, txs, ins
<1>5. /\ r \in Db /\ r.stored = e.stored /\ r.byTx = e.byTx /\ r.byIn = e.byIn
      /\ r.txidCache = txs /\ r.outpointCache = ins
  BY <1>2, <1>3 DEF Db
<1> HIDE DEF r
<1>6. Indexed(r)
  BY <1>2, <1>4, <1>5, CachesIndexed
<1>7. QED
  BY <1>1, <1>2, <1>5, <1>6 DEF Left

\* In particular, locks that are stored.
LEMMA RemoveStored ==
  ASSUME NEW d, Indexed(d), NEW ls \in SUBSET d.stored
  PROVE  \A k \in d.stored \ ls, l \in ls : Uncontested(k.txid) => k.txid # l.txid
<1>1. SUFFICES ASSUME NEW k \in d.stored \ ls, NEW l \in ls, Uncontested(k.txid), k.txid = l.txid
               PROVE  FALSE
  OBVIOUS
<1>2. d.byTx[k.txid] = k /\ d.byTx[l.txid] = l
  BY <1>1 DEF Indexed
<1>3. QED
  BY <1>1, <1>2

\* Archiving and mined markers leave the rest alone.
LEMMA ArchiveProperty ==
  ASSUME NEW d \in Db, Indexed(d), NEW ls \in SUBSET Locks, NEW h \in Nat
  PROVE  LET r == Archive(d, ls, h)
         IN r \in Db /\ Indexed(r) /\ r.stored = d.stored /\ r.byIn = d.byIn
<1> DEFINE new == d.archived \cup {[lock |-> l, height |-> h] : l \in ls}
           r == [d EXCEPT !.archived = new]
<1>1. Archive(d, ls, h) = r
  BY DEF Archive
<1>2. new \in SUBSET [lock : Locks, height : Nat]
  BY SMTT(30) DEF Db
<1> HIDE DEF new
<1>3. /\ r \in Db /\ r.stored = d.stored /\ r.byTx = d.byTx /\ r.byIn = d.byIn
      /\ r.txidCache = d.txidCache /\ r.outpointCache = d.outpointCache
  BY <1>2 DEF Db
<1> HIDE DEF r
<1>4. Indexed(r)
  BY <1>3, CachesIndexed
<1>5. QED
  BY <1>1, <1>3, <1>4

\* d was pruned to r: no record is left for an output of a removed lock's transaction.
Pruned(r, d) ==
  /\ r \in Db /\ Indexed(r) /\ Left(r, d)
  /\ \A l \in d.stored \ r.stored, o \in Outpoints : Creator[o] = l.txid => r.byIn[o] = None

LEMMA PrunedTwice ==
  ASSUME NEW q, NEW r, NEW d, Pruned(q, r), Pruned(r, d)
  PROVE  Pruned(q, d)
<1>1. Left(q, d)
  BY DEF Pruned, Left
<1>2. ASSUME NEW l \in d.stored \ q.stored, NEW o \in Outpoints, Creator[o] = l.txid
      PROVE  q.byIn[o] = None
  BY <1>2 DEF Pruned, Left
<1>3. QED
  BY <1>1, <1>2 DEF Pruned

\* What is chained to a transaction contains the children on record, of the
\* transaction and of each other.
LEMMA ChainedClosed ==
  ASSUME NEW d, NEW t
  PROVE  /\ Chained(d, t) \subseteq d.stored /\ GetInstantSendLocksByParent(d, t) \subseteq Chained(d, t)
         /\ \A m \in Chained(d, t) : GetInstantSendLocksByParent(d, m.txid) \subseteq Chained(d, t)
<1>1. \A u : GetInstantSendLocksByParent(d, u) \subseteq d.stored
  BY DEF GetInstantSendLocksByParent
<1>2. Chained(d, t) \subseteq d.stored /\ GetInstantSendLocksByParent(d, t) \subseteq Chained(d, t)
  BY <1>1 DEF Chained
<1>3. ASSUME NEW m \in Chained(d, t), NEW k \in GetInstantSendLocksByParent(d, m.txid)
      PROVE  k \in Chained(d, t)
  <2>1. k \in d.stored
    BY <1>1, <1>3
  <2>2. SUFFICES ASSUME NEW X \in SUBSET d.stored, GetInstantSendLocksByParent(d, t) \subseteq X,
                        \A x \in X : GetInstantSendLocksByParent(d, x.txid) \subseteq X
                 PROVE  k \in X
    BY <2>1 DEF Chained
  <2>3. m \in X
    BY <1>3, <2>2 DEF Chained
  <2>4. QED
    BY <1>3, <2>2, <2>3
<1>4. QED
  BY <1>2, <1>3

\* Pruning a lock keeps the database indexed and leaves no child on record.
LEMMA ChainedProperty ==
  ASSUME NEW d \in Db, Indexed(d), NEW l \in Locks, NEW h \in Nat
  PROVE  LET r == RemoveChainedInstantSendLocks(d, l, h)
         IN Pruned(r, d) /\ l \notin r.stored
<1> DEFINE C == Chained(d, l.txid)
           gone == C \cup ({l} \cap d.stored)
           q == RemoveInstantSendLocks(d, gone)
           q2 == [q EXCEPT !.islockCache = q.islockCache \ {l}]
           r == Archive(q2, gone \cup {l}, h)
<1>1. RemoveChainedInstantSendLocks(d, l, h) = r
  BY DEF RemoveChainedInstantSendLocks
<1>2. d.stored \subseteq Locks
  BY MapsType DEF Maps
<1>3. /\ C \subseteq d.stored /\ GetInstantSendLocksByParent(d, l.txid) \subseteq C
      /\ \A m \in C : GetInstantSendLocksByParent(d, m.txid) \subseteq C
  BY ChainedClosed
<1> HIDE DEF C
<1>4. /\ gone \in SUBSET d.stored /\ gone \in SUBSET Locks /\ gone \cup {l} \in SUBSET Locks
      /\ C \subseteq gone /\ \A k \in gone : k = l \/ k \in C
  BY <1>2, <1>3
<1>5. l \in d.stored => l \in gone
  OBVIOUS
<1> HIDE DEF gone
<1>6. /\ q \in Db /\ Indexed(q) /\ Left(q, d) /\ q.stored = d.stored \ gone
      /\ \A k \in gone : \A o \in Spends[k.txid] : q.byIn[o] = None
  BY <1>4, RemoveIndexed, RemoveStored
<1> HIDE DEF q
<1>7. /\ q2 \in Db /\ q2.stored = q.stored /\ q2.byTx = q.byTx /\ q2.byIn = q.byIn
      /\ q2.txidCache = q.txidCache /\ q2.outpointCache = q.outpointCache
  BY <1>6 DEF Db
<1> HIDE DEF q2
<1>8. Indexed(q2)
  BY <1>6, <1>7, CachesIndexed
<1>9. r \in Db /\ Indexed(r) /\ r.stored = q.stored /\ r.byIn = q.byIn
  BY <1>4, <1>7, <1>8, ArchiveProperty
<1> HIDE DEF r
<1>10. ASSUME NEW k \in gone, NEW o \in Outpoints, Creator[o] = k.txid PROVE q.byIn[o] = None
  <2>1. SUFFICES ASSUME q.byIn[o] # None PROVE FALSE
    OBVIOUS
  <2>2. q.byIn[o] = d.byIn[o] /\ d.byIn[o] # None
    BY <1>6, <2>1 DEF Left
  <2> DEFINE m == d.byIn[o]
  <2>3. m \in d.stored /\ o \in Spends[m.txid]
    BY <2>2 DEF Indexed
  <2>4. m \in GetInstantSendLocksByParent(d, k.txid)
    BY <1>10, <2>3 DEF GetInstantSendLocksByParent
  <2> HIDE DEF m
  <2>5. m \in gone
    BY <1>3, <1>4, <1>10, <2>4
  <2>6. QED
    BY <1>6, <2>1, <2>3, <2>5
<1>11. \A k \in d.stored \ r.stored, o \in Outpoints : Creator[o] = k.txid => r.byIn[o] = None
  BY <1>6, <1>9, <1>10
<1>12. Left(r, d) /\ l \notin r.stored
  BY <1>5, <1>6, <1>9 DEF Left
<1>13. QED
  BY <1>1, <1>9, <1>11, <1>12 DEF Pruned
\* The lock on record for each of the outpoints os, if any, is one of transaction t.
Free(d, t, os) == \A o \in os : d.byIn[o] # None => d.byIn[o].txid = t

LEMMA StaysFree ==
  ASSUME NEW r, NEW d, Left(r, d), NEW os \in SUBSET Outpoints, NEW t, Free(d, t, os)
  PROVE  Free(r, t, os)
BY DEF Free, Left

\* One input of ConnectBlock's filter.
LEMMA PruneInputProperty ==
  ASSUME NEW d \in Db, Indexed(d), NEW t, NEW o \in Outpoints, NEW h \in Nat
  PROVE  LET r == PruneInput(d, t, o, h) IN Pruned(r, d) /\ Free(r, t, {o})
<1> DEFINE ls == {l \in GetInstantSendLockByInput(d, o) : l.txid # t}
           l == CHOOSE x \in ls : TRUE
           r == RemoveChainedInstantSendLocks(d, l, h)
<1>1. CASE ls = {}
  <2>1. PruneInput(d, t, o, h) = d
    BY <1>1 DEF PruneInput
  <2>2. d.byIn[o] # None => d.byIn[o] \in GetInstantSendLockByInput(d, o)
    BY DEF Indexed, GetInstantSendLockByInput, HashByInput
  <2>3. QED
    BY <1>1, <2>1, <2>2 DEF Pruned, Left, Free
<1>2. CASE ls # {}
  <2>1. l \in ls
    BY <1>2
  <2>2. PruneInput(d, t, o, h) = r
    BY <1>2 DEF PruneInput
  <2> HIDE DEF l
  <2>3. l \in Locks /\ l = HashByInput(d, o)
    BY <2>1, MapsType DEF Maps, GetInstantSendLockByInput
  <2>4. Pruned(r, d) /\ l \notin r.stored
    BY <2>3, ChainedProperty
  <2> HIDE DEF r
  <2>5. ASSUME r.byIn[o] # None PROVE FALSE
    <3>1. r.byIn[o] = d.byIn[o] /\ r.byIn[o] \in r.stored
      BY <2>4, <2>5 DEF Pruned, Left, Indexed
    <3>2. d.byIn[o] = l
      BY <2>3, <2>5, <3>1 DEF HashByInput
    <3>3. QED
      BY <2>4, <3>1, <3>2
  <2>6. QED
    BY <2>2, <2>4, <2>5 DEF Free
<1>3. QED
  BY <1>1, <1>2

\* A loop whose turns prune and free outpoints prunes and frees them all.
LEMMA PruneLoop ==
  ASSUME NEW d \in Db, Indexed(d), NEW n \in Nat, NEW step, NEW T, NEW O \in [1..n -> SUBSET Outpoints],
         \A i \in 1..n : \A e \in Db :
           Indexed(e) => Pruned(step[i][e], e) /\ Free(step[i][e], T[i], O[i])
  PROVE  LET r == Iterate(step, d, n) IN Pruned(r, d) /\ \A i \in 1..n : Free(r, T[i], O[i])
<1> DEFINE good(i) == {e \in Db : Pruned(e, d) /\ \A j \in 1..i : Free(e, T[j], O[j])}
           Good == [i \in 0..n |-> good(i)]
<1>1. Good \in [0..n -> SUBSET Db] /\ 0 \in 0..n /\ n \in 0..n /\ 1..0 = {}
  BY SMTT(30)
<1>2. d \in Good[0]
  <2>1. Pruned(d, d)
    BY DEF Pruned, Left
  <2>2. QED
    BY <1>1, <2>1
<1>3. ASSUME NEW i \in 1..n, NEW e \in Good[i - 1] PROVE step[i][e] \in Good[i]
  <2>1. i - 1 \in 0..n /\ i \in 0..n /\ \A j \in 1..i : j \in 1..n /\ (j # i => j \in 1..(i - 1))
    BY <1>3, SMTT(30)
  <2>2. e \in Db /\ Pruned(e, d) /\ \A j \in 1..(i - 1) : Free(e, T[j], O[j])
    BY <1>3, <2>1
  <2> DEFINE r == step[i][e]
  <2>3. Pruned(r, e) /\ Free(r, T[i], O[i])
    BY <1>3, <2>2 DEF Pruned
  <2> HIDE DEF r
  <2>4. r \in Db /\ Left(r, e) /\ Pruned(r, d)
    <3>1. Pruned(r, d)
      BY <2>2, <2>3, PrunedTwice
    <3>2. QED
      BY <2>3, <3>1 DEF Pruned
  <2>5. ASSUME NEW j \in 1..i PROVE Free(r, T[j], O[j])
    <3>1. CASE j = i
      BY <2>3, <3>1
    <3>2. CASE j # i
      <4>1. Free(e, T[j], O[j]) /\ O[j] \in SUBSET Outpoints
        BY <2>1, <2>2, <2>5, <3>2
      <4>2. QED
        BY <2>4, <4>1, StaysFree
    <3>3. QED
      BY <3>1, <3>2
  <2>6. r \in good(i)
    BY <2>4, <2>5
  <2>7. QED
    BY <2>1, <2>6 DEF r
<1>4. Iterate(step, d, n) \in Good[n]
  <2> HIDE DEF Good
  <2>1. QED
    BY <1>1, <1>2, <1>3, IterateInvariant
<1>5. QED
  BY <1>1, <1>4

\* A transaction, and a block, of ConnectBlock's filter.
LEMMA PruneTxProperty ==
  ASSUME NEW d \in Db, Indexed(d), NEW t \in Txs, NEW h \in Nat
  PROVE  LET r == PruneTx(d, t, h) IN Pruned(r, d) /\ Free(r, t, Spends[t])
<1> DEFINE n == Len(Vin[t])
           step == [i \in 1..n |-> [e \in Db |-> PruneInput(e, t, Vin[t][i], h)]]
           T == [i \in 1..n |-> t]
           O == [i \in 1..n |-> {Vin[t][i]}]
           r == Iterate(step, d, n)
<1>1. n \in Nat /\ \A i \in 1..n : Vin[t][i] \in Outpoints
  BY TxAssumption, SMTT(30)
<1>2. PruneTx(d, t, h) = r
  BY DEF PruneTx
<1>3. Spends[t] = {Vin[t][i] : i \in 1..n}
  BY DEF Spends
<1> HIDE DEF n
<1>4. O \in [1..n -> SUBSET Outpoints]
  BY <1>1
<1>5. ASSUME NEW i \in 1..n, NEW e \in Db, Indexed(e)
      PROVE  Pruned(step[i][e], e) /\ Free(step[i][e], T[i], O[i])
  <2>1. step[i][e] = PruneInput(e, t, Vin[t][i], h) /\ T[i] = t /\ O[i] = {Vin[t][i]}
    BY <1>5
  <2>2. QED
    BY <1>1, <1>5, <2>1, PruneInputProperty
<1>6. (\A i \in 1..n : T[i] = t /\ O[i] = {Vin[t][i]})
  OBVIOUS
<1> HIDE DEF step, T, O
<1>7. Pruned(r, d) /\ \A i \in 1..n : Free(r, T[i], O[i])
  BY <1>1, <1>4, <1>5, PruneLoop
<1> HIDE DEF r
<1>8. \A i \in 1..n : Free(r, t, {Vin[t][i]})
  BY <1>6, <1>7
<1>9. Free(r, t, Spends[t])
  BY <1>3, <1>8 DEF Free
<1>10. QED
  BY <1>2, <1>7, <1>9

LEMMA PruneBlockProperty ==
  ASSUME NEW d \in Db, Indexed(d), NEW b \in Blocks, NEW h \in Nat
  PROVE  LET r == PruneBlock(d, b, h) IN Pruned(r, d) /\ \A t \in SeqTxs(b) : Free(r, t, Spends[t])
<1> DEFINE n == Len(BlockTxs[b])
           step == [i \in 1..n |-> [e \in Db |-> PruneTx(e, BlockTxs[b][i], h)]]
           T == [i \in 1..n |-> BlockTxs[b][i]]
           O == [i \in 1..n |-> Spends[BlockTxs[b][i]]]
           r == Iterate(step, d, n)
<1>1. n \in Nat /\ (\A i \in 1..n : BlockTxs[b][i] \in Txs) /\ SeqTxs(b) = {BlockTxs[b][i] : i \in 1..n}
  BY BlockAssumption, SMTT(30) DEF SeqTxs
<1>2. PruneBlock(d, b, h) = r
  BY DEF PruneBlock
<1> HIDE DEF n
<1>3. O \in [1..n -> SUBSET Outpoints]
  BY <1>1, SpendsType
<1>4. ASSUME NEW i \in 1..n, NEW e \in Db, Indexed(e)
      PROVE  Pruned(step[i][e], e) /\ Free(step[i][e], T[i], O[i])
  <2>1. /\ step[i][e] = PruneTx(e, BlockTxs[b][i], h)
        /\ T[i] = BlockTxs[b][i] /\ O[i] = Spends[BlockTxs[b][i]]
    BY <1>4
  <2>2. QED
    BY <1>1, <1>4, <2>1, PruneTxProperty
<1>5. \A i \in 1..n : T[i] = BlockTxs[b][i] /\ O[i] = Spends[BlockTxs[b][i]]
  OBVIOUS
<1> HIDE DEF step, T, O
<1>6. Pruned(r, d) /\ \A i \in 1..n : Free(r, T[i], O[i])
  BY <1>1, <1>3, <1>4, PruneLoop
<1> HIDE DEF r
<1>7. ASSUME NEW t \in SeqTxs(b) PROVE Free(r, t, Spends[t])
  <2>1. PICK i \in 1..n : t = BlockTxs[b][i]
    BY <1>1, <1>7
  <2>2. QED
    BY <1>5, <1>6, <2>1
<1>8. QED
  BY <1>2, <1>6, <1>7
-----------------------------------------------------------------------------
(* Chains *)

\* Highest finds a block in a set of blocks of one chain.
LEMMA HighestProperty ==
  ASSUME NEW b \in Blocks, NEW S \in SUBSET Chain[b], S # {}
  PROVE  Highest(S) \in S /\ \A a \in S : Height[a] <= Height[Highest(S)]
<1>1. \A a \in S : Height[a] \in Nat /\ Height[a] <= Height[b] /\ Height[b] \in Nat
  BY ChainTransitive, TreeAssumption
<1>2. SUFFICES ASSUME \A f \in S : \E a \in S : ~(Height[a] <= Height[f]) PROVE FALSE
  BY DEF Highest
<1> DEFINE P == {n \in Nat : \E a \in S : Height[a] >= n}
<1>3. 0 \in P
  BY <1>1, SMTT(30)
<1>4. ASSUME NEW n \in Nat, n \in P PROVE n + 1 \in P
  BY <1>1, <1>2, <1>4, SMTT(30)
<1>5. Height[b] + 1 \in P
  <2>1. Height[b] + 1 \in Nat
    BY <1>1, SMTT(30)
  <2> HIDE DEF P
  <2>2. QED
    BY <1>3, <1>4, <2>1, NatSetInduction
<1>6. QED
  BY <1>1, <1>5, SMTT(30)

\* A chain has more work than those of its ancestors.
LEMMA WorkMonotone == \A b \in Blocks : \A a \in Chain[b] : Work[a] <= Work[b]
<1> DEFINE S == {n \in Nat : \A b \in Blocks : Height[b] = n => \A a \in Chain[b] : Work[a] <= Work[b]}
<1>1. Work \in [Blocks -> Nat]
  BY BlockAssumption
<1>2. 0 \in S
  <2>1. \A b \in Blocks : Height[b] = 0 => b = Genesis
    BY TreeAssumption, SMTT(30)
  <2>2. QED
    BY <1>1, <2>1, TreeAssumption, SMTT(30)
<1>3. ASSUME NEW n \in Nat, n \in S PROVE n + 1 \in S
  <2>1. SUFFICES ASSUME NEW b \in Blocks, Height[b] = n + 1, NEW a \in Chain[b] PROVE Work[a] <= Work[b]
    BY SMTT(30)
  <2>2. b # Genesis /\ Parent[b] \in Blocks /\ Height[Parent[b]] = n /\ a \in Blocks
    BY <2>1, TreeAssumption, SMTT(30)
  <2>3. a = b \/ a \in Chain[Parent[b]]
    BY <2>2, TreeAssumption, SMTT(30)
  <2>4. Work[Parent[b]] < Work[b]
    BY <2>2, BlockAssumption
  <2>5. a \in Chain[Parent[b]] => Work[a] <= Work[Parent[b]]
    BY <1>3, <2>2
  <2>6. Work[a] \in Nat /\ Work[b] \in Nat /\ Work[Parent[b]] \in Nat
    BY <1>1, <2>2
  <2>7. QED
    BY <2>3, <2>4, <2>5, <2>6, SMTT(30)
<1>4. Nat \subseteq S
  <2> HIDE DEF S
  <2>1. QED
    BY <1>2, <1>3, NatSetInduction
<1>5. QED
  BY <1>4, TreeAssumption

\* GetAncestor walks up a chain block by block.
LEMMA Walk ==
  ASSUME NEW b \in Blocks, NEW h \in 1..Height[b]
  PROVE  LET a == GetAncestor(b, h)
         IN /\ a \in Chain[b] /\ a \in Blocks \ {Genesis} /\ Height[a] = h
            /\ Parent[a] = GetAncestor(b, h - 1) /\ Parent[a] \in Chain[b]
<1> DEFINE a == GetAncestor(b, h)
<1>1. Height[b] \in Nat /\ h \in 0..Height[b] /\ h - 1 \in 0..Height[b] /\ h # 0
  BY TreeAssumption, SMTT(30)
<1>2. /\ a \in Chain[b] /\ Height[a] = h
      /\ GetAncestor(b, h - 1) \in Chain[b] /\ Height[GetAncestor(b, h - 1)] = h - 1
  BY <1>1, AncestorExists
<1> HIDE DEF a
<1>3. a \in Blocks \ {Genesis}
  BY <1>1, <1>2, TreeAssumption
<1>4. Parent[a] \in Blocks /\ Height[Parent[a]] = h - 1 /\ Parent[a] \in Chain[a]
  BY <1>2, <1>3, TreeAssumption, OwnChain, SMTT(30)
<1>5. Parent[a] \in Chain[b]
  BY <1>2, <1>4, ChainTransitive
<1>6. QED
  BY <1>2, <1>3, <1>4, <1>5, OneAtHeight DEF a
-----------------------------------------------------------------------------
(* Connecting blocks *)

\* The transactions of blocks.
LEMMA BlockTxsType ==
  /\ \A b \in Blocks : SeqTxs(b) \subseteq Txs
  /\ \A S \in SUBSET Blocks : TxsOf(S) \subseteq Txs
BY BlockAssumption, SMTT(30) DEF SeqTxs, TxsOf

\* After the attempt to connect the blocks above `fork' up to x: the pruned locks left no
\* child on record, and what is connected contradicts no lock on record.
AttemptFits(s, fork, x) ==
  /\ Pruned(s.db, db)
  /\ s.top \in Chain[x] /\ fork \in Chain[s.top] /\ s.bad \subseteq Chain[x]
  /\ s.bad = {} => s.top = x
  /\ \A a \in Chain[s.top] \ Chain[fork] : \A t \in SeqTxs(a) : Free(s.db, t, Spends[t])

\* ConnectBlock goes on with the next block.
LEMMA ConnectBlockProperty ==
  ASSUME NEW s \in Attempt, NEW x \in Blocks \ {Genesis}, NEW fork \in Chain[Parent[x]],
         AttemptFits(s, fork, Parent[x])
  PROVE  ConnectBlock(s, x) \in Attempt /\ AttemptFits(ConnectBlock(s, x), fork, x)
<1>1. /\ Chain[x] = Chain[Parent[x]] \cup {x} /\ x \in Chain[x] /\ Parent[x] \in Blocks
      /\ x \in Blocks
  BY TreeAssumption, OwnChain
<1>2. s.top \in Blocks /\ s.bad \in SUBSET Blocks /\ s.db \in Db /\ Indexed(s.db)
  BY DEF Attempt, AttemptFits, Pruned
<1>3. Height[s.top] \in Nat
  BY <1>2, TreeAssumption
<1>4. \A a \in Blocks : \A t \in SeqTxs(a) : t \in Txs /\ Spends[t] \in SUBSET Outpoints
  BY BlockTxsType, SpendsType
<1>5. s.bad = {} => Chain[x] \ Chain[fork] \subseteq (Chain[s.top] \ Chain[fork]) \cup {x}
  BY <1>1 DEF AttemptFits
<1>6. CASE s.bad # {}
  <2>1. ConnectBlock(s, x) = s
    BY <1>6 DEF ConnectBlock
  <2>2. QED
    BY <1>1, <1>6, <2>1 DEF AttemptFits
<1>7. CASE s.bad = {} /\ HasChainLock(x)
  <2> DEFINE e == s.db
             h == Height[s.top]
             d == PruneBlock(e, x, h)
             r == [s EXCEPT !.top = x, !.db = d]
  <2>1. ConnectBlock(s, x) = r
    BY <1>7 DEF ConnectBlock
  <2>2. Pruned(d, e) /\ \A t \in SeqTxs(x) : Free(d, t, Spends[t])
    <3> HIDE DEF e, h
    <3>1. e \in Db /\ Indexed(e) /\ h \in Nat
      BY <1>2, <1>3 DEF e, h
    <3>2. QED
      BY <1>1, <3>1, PruneBlockProperty
  <2> HIDE DEF d
  <2>3. d \in Db /\ Left(d, e) /\ Pruned(d, db)
    <3>1. Pruned(d, db)
      BY <2>2, PrunedTwice DEF AttemptFits
    <3>2. QED
      BY <2>2, <3>1 DEF Pruned
  <2>4. r \in Attempt /\ r.top = x /\ r.db = d /\ r.bad = {}
    BY <1>2, <1>7, <2>3 DEF Attempt
  <2> HIDE DEF r
  <2>5. ASSUME NEW a \in Chain[x] \ Chain[fork], NEW t \in SeqTxs(a) PROVE Free(d, t, Spends[t])
    <3>1. CASE a = x
      BY <2>2, <2>5, <3>1
    <3>2. CASE a # x
      <4>1. Free(e, t, Spends[t])
        BY <1>5, <1>7, <2>5, <3>2 DEF AttemptFits
      <4>2. a \in Blocks
        BY <1>1, <2>5, ChainTransitive
      <4>3. QED
        BY <1>4, <2>3, <2>5, <4>1, <4>2, StaysFree
    <3>3. QED
      BY <3>1, <3>2
  <2>6. fork \in Chain[x] /\ x \in Chain[x] /\ r.bad \subseteq Chain[x]
    BY <1>1, <2>4
  <2>7. AttemptFits(r, fork, x)
    BY <2>3, <2>4, <2>5, <2>6 DEF AttemptFits
  <2>8. QED
    BY <2>1, <2>4, <2>7
<1>8. CASE s.bad = {} /\ ~HasChainLock(x) /\ LockConflicts(s.db, x) # {}
  <2> DEFINE r == [s EXCEPT !.bad = {x}]
  <2>1. ConnectBlock(s, x) = r
    BY <1>8 DEF ConnectBlock
  <2>2. r \in Attempt /\ r.top = s.top /\ r.db = s.db /\ r.bad = {x}
    BY <1>2 DEF Attempt
  <2> HIDE DEF r
  <2>3. QED
    BY <1>1, <2>1, <2>2 DEF AttemptFits
<1>9. CASE s.bad = {} /\ ~HasChainLock(x) /\ LockConflicts(s.db, x) = {}
  <2> DEFINE r == [s EXCEPT !.top = x]
  <2>1. ConnectBlock(s, x) = r
    BY <1>9 DEF ConnectBlock
  <2>2. r \in Attempt /\ r.top = x /\ r.db = s.db /\ r.bad = {}
    BY <1>2, <1>9 DEF Attempt
  <2> HIDE DEF r
  <2>3. ASSUME NEW t \in SeqTxs(x), NEW o \in Spends[t], s.db.byIn[o] # None, s.db.byIn[o].txid # t
        PROVE  FALSE
    <3>1. s.db.byIn[o] \in GetConflictingLock(s.db, t)
      BY <1>1, <1>2, <1>4, <2>3, ConflictFound
    <3>2. QED
      BY <1>9, <3>1 DEF LockConflicts
  <2>4. ASSUME NEW a \in Chain[x] \ Chain[fork], NEW t \in SeqTxs(a) PROVE Free(s.db, t, Spends[t])
    <3>1. CASE a = x
      BY <2>3, <2>4, <3>1 DEF Free
    <3>2. CASE a # x
      BY <1>5, <1>9, <2>4, <3>2 DEF AttemptFits
    <3>3. QED
      BY <3>1, <3>2
  <2>5. QED
    BY <1>1, <2>1, <2>2, <2>4 DEF AttemptFits
<1>10. QED
  BY <1>6, <1>7, <1>8, <1>9

\* ConnectTo connects blocks up to b, or to the first one that is refused.
LEMMA ConnectToProperty ==
  ASSUME db \in Db, Indexed(db), NEW b \in Blocks, NEW fork \in Chain[b]
  PROVE  ConnectTo(b, fork) \in Attempt /\ AttemptFits(ConnectTo(b, fork), fork, b)
<1> DEFINE n == Height[b] - Height[fork]
           B(i) == GetAncestor(b, Height[fork] + i)
           step == [i \in 1..n |-> [s \in Attempt |-> ConnectBlock(s, B(i))]]
           init == [top |-> fork, bad |-> {}, db |-> db]
           good(i) == {s \in Attempt : AttemptFits(s, fork, B(i))}
           Good == [i \in 0..n |-> good(i)]
<1>1. fork \in Blocks /\ Height[fork] \in Nat /\ Height[b] \in Nat /\ Height[fork] <= Height[b] /\ n \in Nat
  BY ChainTransitive, TreeAssumption, SMTT(30)
<1>2. B(0) = fork /\ B(n) = b
  <2>1. Height[fork] + 0 \in 0..Height[b] /\ Height[fork] + n = Height[b]
    BY <1>1, SMTT(30)
  <2>2. B(0) \in Chain[b] /\ Height[B(0)] = Height[fork]
    BY <1>1, <2>1, AncestorExists, SMTT(30)
  <2>3. B(n) \in Chain[b] /\ Height[B(n)] = Height[b] /\ b \in Chain[b]
    BY <1>1, <2>1, AncestorExists, OwnChain, SMTT(30)
  <2> HIDE DEF B, n
  <2>4. QED
    BY <2>2, <2>3, OneAtHeight
<1>3. ASSUME NEW i \in 1..n
      PROVE  /\ i - 1 \in 0..n /\ B(i) \in Blocks \ {Genesis} /\ Parent[B(i)] = B(i - 1)
             /\ fork \in Chain[Parent[B(i)]] /\ B(i) \in Chain[b]
  <2> DEFINE h == Height[fork] + i
  <2>1. h \in 1..Height[b] /\ h - 1 = Height[fork] + (i - 1) /\ i - 1 \in 0..n /\ Height[fork] <= h - 1
    BY <1>1, <1>3, SMTT(30)
  <2>2. /\ B(i) \in Chain[b] /\ B(i) \in Blocks \ {Genesis} /\ Height[B(i)] = h
        /\ Parent[B(i)] = B(i - 1) /\ Parent[B(i)] \in Chain[b]
    BY <2>1, Walk
  <2> HIDE DEF B, h
  <2>3. Height[Parent[B(i)]] = h - 1
    BY <1>1, <2>1, <2>2, TreeAssumption, SMTT(30) DEF h
  <2>4. QED
    BY <2>1, <2>2, <2>3, LowerIsAncestor
<1>4. ASSUME NEW i \in 1..n, NEW s \in Attempt, AttemptFits(s, fork, B(i - 1))
      PROVE  ConnectBlock(s, B(i)) \in Attempt /\ AttemptFits(ConnectBlock(s, B(i)), fork, B(i))
  <2> HIDE DEF B
  <2>1. QED
    BY <1>3, <1>4, ConnectBlockProperty
<1>5. init \in Attempt /\ AttemptFits(init, fork, fork)
  <2>1. fork \in Chain[fork] /\ Pruned(db, db)
    BY <1>1, OwnChain DEF Pruned, Left
  <2>2. QED
    BY <1>1, <2>1 DEF Attempt, AttemptFits
<1>6. init \in Good[0]
  <2> HIDE DEF B, init, n
  <2>1. 0 \in 0..n
    BY <1>1, SMTT(30)
  <2>2. QED
    BY <1>2, <1>5, <2>1
<1>7. ASSUME NEW i \in 1..n, NEW s \in Good[i - 1] PROVE step[i][s] \in Good[i]
  <2> HIDE DEF B, init
  <2>1. i - 1 \in 0..n /\ i \in 0..n
    BY <1>1, <1>7, SMTT(30)
  <2>2. s \in Attempt /\ AttemptFits(s, fork, B(i - 1))
    BY <1>7, <2>1
  <2>3. step[i][s] = ConnectBlock(s, B(i))
    BY <2>2
  <2>4. ConnectBlock(s, B(i)) \in good(i)
    BY <1>4, <2>2
  <2>5. QED
    BY <2>1, <2>3, <2>4
<1>8. Iterate(step, init, n) \in Good[n]
  <2>1. Good \in [0..n -> SUBSET Attempt]
    OBVIOUS
  <2> HIDE DEF Good, step, init, n
  <2>2. QED
    BY <1>1, <1>6, <1>7, <2>1, IterateInvariant
<1>9. ConnectTo(b, fork) = Iterate(step, init, n)
  BY DEF ConnectTo
<1> HIDE DEF step, init, B, n
<1>10. Iterate(step, init, n) \in good(n)
  BY <1>1, <1>8, SMTT(30)
<1>11. QED
  BY <1>2, <1>9, <1>10
-----------------------------------------------------------------------------
(* The mempool on another chain *)

\* The transactions of a chain are those of an ancestor's and of the blocks above it.
LEMMA TxsSplit ==
  ASSUME NEW b \in Blocks, NEW a \in Chain[b]
  PROVE  ChainTxs(b) = ChainTxs(a) \cup TxsOf(Chain[b] \ Chain[a])
<1>1. Chain[a] \subseteq Chain[b]
  BY ChainTransitive
<1>2. QED
  BY <1>1 DEF ChainTxs, TxsOf

\* Blocks with the transactions ts are disconnected.
LEMMA DisconnectFits ==
  ASSUME NEW mp, NEW b, NEW c, NEW ts, PoolFits(mp, b, {}),
         ChainTxs(c) \subseteq ChainTxs(b), ChainTxs(b) \subseteq ChainTxs(c) \cup ts
  PROVE  PoolFits(mp, c, ts)
BY DEF PoolFits

\* The mined transactions and their competitors leave; those of `lost' are missing.
LEMMA ConnectFits ==
  ASSUME NEW mp \in SUBSET Txs, NEW b, NEW c, NEW mined \in SUBSET Txs, NEW lost,
         PoolFits(mp, b, {}), mined \subseteq ChainTxs(c),
         ChainTxs(c) \subseteq ChainTxs(b) \cup mined, ChainTxs(b) \subseteq ChainTxs(c) \cup lost
  PROVE  PoolFits(mp \ (mined \cup WithDescendants(mp \cap UNION {Conflicts(t) : t \in mined}, mp)), c, lost)
<1> DEFINE foes == mp \cap UNION {Conflicts(t) : t \in mined}
           X == WithDescendants(foes, mp)
           left == mp \ (mined \cup X)
<1>1. foes \subseteq X /\ Closed(X, mp)
  BY DescendantsProperty
<1> HIDE DEF X
<1>2. ASSUME NEW t \in left
      PROVE  ({t} \cup Conflicts(t)) \cap ChainTxs(c) = {}
  <2>1. Conflicts(t) \cap mined = {}
    <3>1. SUFFICES ASSUME NEW u \in mined, u \in Conflicts(t) PROVE FALSE
      OBVIOUS
    <3>2. t \in Conflicts(u) /\ t \in mp
      BY <3>1, ConflictsSymmetric
    <3>3. QED
      BY <1>1, <3>2
  <2>2. QED
    BY <1>2, <2>1, SMTT(30) DEF PoolFits
<1>3. ASSUME NEW t \in left
      PROVE  Conflicts(t) \cap left = {} /\ Parents(t) \subseteq left \cup ChainTxs(c) \cup lost
  BY <1>1, <1>3 DEF PoolFits, Closed
<1>4. PoolFits(left, c, lost)
  BY <1>2, <1>3 DEF PoolFits
<1>5. QED
  BY <1>4 DEF X
-----------------------------------------------------------------------------
(* Types *)

\* nonLockedTxs keeps its form.
LEMMA AddNonLockedType ==
  ASSUME NEW s \in NonLocked, NEW t \in Txs, NEW b \in Received \cup {None}
  PROVE  AddNonLockedTx(s, t, b) \in NonLocked
<1> DEFINE new == ~Tracked(s, t)
           Info == [body : BOOLEAN, mined : Received \cup {None}, kids : SUBSET Txs]
           info == [x \in Txs |->
                      IF x = t THEN [s.info[t] EXCEPT !.body = s.info[t].body \/ new, !.mined = b]
                      ELSE IF new /\ x \in Parents(t) THEN [s.info[x] EXCEPT !.kids = s.info[x].kids \cup {t}]
                      ELSE s.info[x]]
           by == [o \in Outpoints |-> IF new /\ o \in Spends[t] /\ s.by[o] = None THEN t ELSE s.by[o]]
<1>1. AddNonLockedTx(s, t, b) = [info |-> info, by |-> by]
  BY DEF AddNonLockedTx
<1>2. s.info \in [Txs -> Info] /\ s.by \in [Outpoints -> Txs \cup {None}]
  BY DEF NonLocked
<1>3. ASSUME NEW x \in Txs PROVE info[x] \in Info
  <2>1. s.info[x] \in Info /\ new \in BOOLEAN
    BY <1>2
  <2> HIDE DEF new
  <2>2. QED
    BY <2>1
<1>4. by \in [Outpoints -> Txs \cup {None}]
  BY <1>2
<1>5. info \in [Txs -> Info]
  BY <1>3
<1> HIDE DEF info, by
<1>6. QED
  BY <1>1, <1>4, <1>5, SMTT(30) DEF NonLocked

LEMMA RemoveNonLockedType ==
  ASSUME NEW s \in NonLocked, NEW ts
  PROVE  RemoveNonLockedTxs(s, ts) \in NonLocked
<1> DEFINE bodies == {t \in ts : s.info[t].body}
           Info == [body : BOOLEAN, mined : Received \cup {None}, kids : SUBSET Txs]
           orphaned(x) == ~s.info[x].body /\ s.info[x].kids # {} /\ s.info[x].kids \subseteq bodies
           info == [x \in Txs |-> IF x \in ts \/ orphaned(x) THEN NoInfo
                                  ELSE [s.info[x] EXCEPT !.kids = s.info[x].kids \ bodies]]
           by == [o \in Outpoints |-> IF \E t \in bodies : o \in Spends[t] THEN None ELSE s.by[o]]
<1>1. RemoveNonLockedTxs(s, ts) = [info |-> info, by |-> by]
  BY DEF RemoveNonLockedTxs
<1>2. s.info \in [Txs -> Info] /\ s.by \in [Outpoints -> Txs \cup {None}]
  BY DEF NonLocked
<1>3. ASSUME NEW x \in Txs PROVE info[x] \in Info
  <2>1. s.info[x] \in Info /\ NoInfo \in Info
    BY <1>2 DEF NoInfo
  <2> HIDE DEF bodies, orphaned
  <2>2. QED
    BY <2>1
<1>4. by \in [Outpoints -> Txs \cup {None}]
  BY <1>2
<1>5. info \in [Txs -> Info]
  BY <1>3
<1> HIDE DEF info, by
<1>6. QED
  BY <1>1, <1>4, <1>5, SMTT(30) DEF NonLocked

\* Notifications name received blocks.
LEMMA NotesType ==
  ASSUME NEW top \in Blocks, Chain[top] \subseteq known, NEW low \in Chain[top]
  PROVE  Connected(top, low) \in Seq(Notes) /\ Disconnected(top, low) \in Seq(Notes)
<1> DEFINE n == Height[top] - Height[low]
<1>1. low \in Blocks /\ Height[low] \in Nat /\ Height[top] \in Nat /\ Height[low] <= Height[top] /\ n \in Nat
  BY ChainTransitive, TreeAssumption, SMTT(30)
<1>2. \A h \in 1..Height[top] : GetAncestor(top, h) \in Received
  BY Walk DEF Received
<1>3. \A i \in 1..n : [kind |-> "connected", arg |-> GetAncestor(top, Height[low] + i)] \in Notes
  <2>1. \A i \in 1..n : Height[low] + i \in 1..Height[top]
    BY <1>1, SMTT(30)
  <2>2. QED
    BY <1>2, <2>1 DEF Notes
<1>4. \A i \in 1..n : [kind |-> "disconnected", arg |-> GetAncestor(top, Height[top] - i + 1)] \in Notes
  <2>1. \A i \in 1..n : Height[top] - i + 1 \in 1..Height[top]
    BY <1>1, SMTT(30)
  <2>2. QED
    BY <1>2, <2>1 DEF Notes
<1> HIDE DEF n
<1>5. Connected(top, low) \in [1..n -> Notes] /\ Disconnected(top, low) \in [1..n -> Notes]
  BY <1>3, <1>4 DEF Connected, Disconnected, n
<1>6. QED
  BY <1>1, <1>5, SMTT(30)

\* Types that depend on the received blocks.
LEMMA SameTypes ==
  ASSUME known' = known
  PROVE  Received' = Received /\ NonLocked' = NonLocked /\ Notes' = Notes
BY DEF Received, NonLocked, Notes, TxNotes
-----------------------------------------------------------------------------
(* The inductive invariant *)

\* Blocks come in after their parents.
KnownClosed == \A b \in known : Chain[b] \subseteq known

\* A lock that the worker is about to store, or that waits for its transaction, is not
\* stored: only the worker stores locks.
WorkerFits ==
  w.pc = "store" \/ (w.pc \in {"resolve", "invalidate", "clear"} /\ ~w.found) => w.lock \notin db.stored

IInv ==
  TypeOK /\ KnownClosed /\ IndexComplete /\ WorkerFits /\ MempoolAgreesWithLocks /\ MempoolAgreesWithChain

LEMMA ChainAgreement == MempoolAgreesWithChain <=> PoolFits(mempool, tip, {})
BY DEF MempoolAgreesWithChain, PoolFits

LEMMA ChainAgreementNext == MempoolAgreesWithChain' <=> PoolFits(mempool', tip', {})
BY DEF MempoolAgreesWithChain, PoolFits, ChainTxs

\* The next candidate is above the fork.
LEMMA EnoughProperty ==
  ASSUME tip \in Blocks, NEW b \in Blocks, Work[b] > Work[tip]
  PROVE  LET fork == FindFork(b, tip)
             enough == Highest({a \in Chain[b] \ Chain[tip] : Work[Parent[a]] <= Work[tip]})
         IN fork \in Chain[tip] /\ enough \in Chain[b] /\ fork \in Chain[enough] /\ enough \notin Chain[tip]
<1> DEFINE fork == FindFork(b, tip)
           S == {a \in Chain[b] \ Chain[tip] : Work[Parent[a]] <= Work[tip]}
           enough == Highest(S)
<1>1. /\ fork \in Chain[b] /\ fork \in Chain[tip] /\ Chain[b] \cap Chain[tip] \subseteq Chain[fork]
  BY ForkProperty
<1> HIDE DEF fork
<1>2. Work[fork] <= Work[tip] /\ fork # b /\ fork \in Blocks /\ Work[tip] \in Nat
  <2>1. Work[fork] <= Work[tip] /\ fork \in Blocks
    BY <1>1, WorkMonotone, ChainTransitive
  <2>2. QED
    BY <2>1, BlockAssumption, SMTT(30)
<1> DEFINE n == Height[b]
           m == Height[fork]
           c == GetAncestor(b, m + 1)
<1>3. n \in Nat /\ m \in Nat /\ m < n /\ b \in Chain[b]
  <2>1. n \in Nat /\ m \in Nat /\ m <= n /\ b \in Chain[b]
    BY <1>1, <1>2, ChainTransitive, OwnChain, TreeAssumption
  <2>2. m # n
    BY <1>1, <1>2, <2>1, OneAtHeight
  <2>3. QED
    BY <2>1, <2>2, SMTT(30)
<1>4. m + 1 \in 1..n /\ m \in 0..n /\ (m + 1) - 1 = m
  BY <1>3, SMTT(30)
<1>5. c \in Chain[b] /\ Height[c] = m + 1 /\ Parent[c] = GetAncestor(b, m)
  BY <1>4, Walk, SMTT(30)
<1>6. Parent[c] = fork
  BY <1>1, <1>4, <1>5, AncestorExists, OneAtHeight
<1>7. c \in S
  <2>1. c \notin Chain[fork]
    BY <1>2, <1>3, <1>5, ChainTransitive, SMTT(30)
  <2>2. QED
    BY <1>1, <1>2, <1>5, <1>6, <2>1
<1>8. enough \in S
  BY <1>7, HighestProperty
<1> HIDE DEF enough
<1>9. fork \in Chain[enough]
  <2>1. enough \in Chain[b] /\ enough \in Blocks /\ Height[enough] \in Nat
    BY <1>8, ChainTransitive, TreeAssumption
  <2>2. Height[enough] >= m
    <3>1. SUFFICES ASSUME Height[enough] < m PROVE FALSE
      BY <1>3, <2>1, SMTT(30)
    <3>2. enough \in Chain[fork]
      BY <1>1, <1>3, <2>1, <3>1, LowerIsAncestor, SMTT(30)
    <3>3. QED
      BY <1>1, <1>8, <3>2, ChainTransitive
  <2>3. QED
    BY <1>1, <2>1, <2>2, LowerIsAncestor
<1>10. QED
  BY <1>1, <1>8, <1>9 DEF fork, enough
\* ActivateBestChain's step: locks, chain and mempool afterwards.
LEMMA ActivateProperty ==
  ASSUME IInv, NEW b \in Candidates
  PROVE  LET fork == FindFork(b, tip)
             enough == Highest({a \in Chain[b] \ Chain[tip] : Work[Parent[a]] <= Work[tip]})
             end == ConnectTo(enough, fork)
             mined == TxsOf(Chain[end.top] \ Chain[tip])
             lost == TxsOf(Chain[tip] \ Chain[b]) \ mined
             left == mempool \ (mined \cup WithDescendants(mempool \cap UNION {Conflicts(t) : t \in mined}, mempool))
             back == Resurrect(end.db, left, end.top, lost)
         IN /\ enough \in Chain[b] /\ fork \in Chain[tip]
            /\ end \in Attempt /\ AttemptFits(end, fork, enough)
            /\ back \in Pool /\ PoolFits(back.mp, end.top, {})
            /\ \A u \in back.mp : u \in mempool \/ GetConflictingLock(end.db, u) = {}
<1> DEFINE fork == FindFork(b, tip)
           enough == Highest({a \in Chain[b] \ Chain[tip] : Work[Parent[a]] <= Work[tip]})
           end == ConnectTo(enough, fork)
           mined == TxsOf(Chain[end.top] \ Chain[tip])
           lost == TxsOf(Chain[tip] \ Chain[b]) \ mined
           left == mempool \ (mined \cup WithDescendants(mempool \cap UNION {Conflicts(t) : t \in mined}, mempool))
           back == Resurrect(end.db, left, end.top, lost)
<1>1. /\ tip \in Blocks /\ b \in Blocks /\ Work[b] > Work[tip] /\ mempool \in SUBSET Txs
      /\ db \in Db /\ Indexed(db) /\ PoolFits(mempool, tip, {})
  BY ChainAgreement DEF IInv, TypeOK, Candidates, IndexComplete
<1>2. fork \in Chain[tip] /\ enough \in Chain[b] /\ fork \in Chain[enough] /\ enough \in Blocks
  BY <1>1, EnoughProperty, ChainTransitive
<1>3. Chain[b] \cap Chain[tip] \subseteq Chain[fork]
  BY <1>1, ForkProperty
<1> HIDE DEF fork, enough
<1>4. end \in Attempt /\ AttemptFits(end, fork, enough)
  BY <1>1, <1>2, ConnectToProperty
<1> HIDE DEF end
<1>5. end.top \in Blocks /\ fork \in Chain[end.top]
  BY <1>4 DEF Attempt, AttemptFits
<1>6. /\ mined \in SUBSET Txs /\ lost \in SUBSET Txs /\ mined \subseteq ChainTxs(end.top)
      /\ ChainTxs(end.top) \subseteq ChainTxs(tip) \cup mined
  <2>1. Chain[end.top] \ Chain[tip] \in SUBSET Blocks /\ Chain[tip] \ Chain[b] \in SUBSET Blocks
    BY <1>1, <1>5, OwnChain
  <2>2. QED
    BY <2>1, BlockTxsType DEF ChainTxs, TxsOf
<1>7. ChainTxs(tip) \subseteq ChainTxs(end.top) \cup lost
  <2>1. SUFFICES ASSUME NEW x \in Chain[tip], NEW t \in SeqTxs(x), t \notin ChainTxs(end.top)
                 PROVE  t \in lost
    BY DEF ChainTxs
  <2>2. x \notin Chain[end.top]
    BY <2>1 DEF ChainTxs
  <2>3. x \notin Chain[b]
    BY <1>3, <1>5, <2>2, ChainTransitive
  <2>4. t \notin mined
    BY <1>6, <2>1
  <2> HIDE DEF mined
  <2>5. QED
    BY <2>3, <2>4 DEF TxsOf
<1>8. left \in SUBSET Txs /\ left \subseteq mempool
  BY <1>1
<1>9. PoolFits(left, end.top, lost)
  <2> HIDE DEF mined, lost
  <2>1. QED
    BY <1>1, <1>6, <1>7, ConnectFits
<1> DEFINE e == end.db
           top == end.top
<1> HIDE DEF mined, lost, left, e, top
<1>10. PoolFits(left, top, lost) /\ back = Resurrect(e, left, top, lost)
  BY <1>9 DEF e, top
<1> HIDE DEF back
<1>11. /\ Resurrect(e, left, top, lost) \in Pool
       /\ PoolFits(Resurrect(e, left, top, lost).mp, top, {})
       /\ \A u \in Resurrect(e, left, top, lost).mp : u \in left \/ GetConflictingLock(e, u) = {}
  BY <1>6, <1>8, <1>10, ResurrectProperty
<1>12. /\ back \in Pool /\ PoolFits(back.mp, end.top, {})
       /\ \A u \in back.mp : u \in mempool \/ GetConflictingLock(end.db, u) = {}
  BY <1>8, <1>10, <1>11 DEF e, top
<1>13. QED
  BY <1>2, <1>4, <1>12 DEF fork, enough, end, mined, lost, left, back
\* Blocks above `top' are disconnected at once, as EnforceBestChainLock does.
LEMMA ReturnProperty ==
  ASSUME NEW d, NEW mp \in SUBSET Txs, NEW b \in Blocks, NEW top \in Chain[b], PoolFits(mp, b, {})
  PROVE  LET back == Resurrect(d, mp, top, TxsOf(Chain[b] \ Chain[top]))
         IN /\ back \in Pool /\ PoolFits(back.mp, top, {})
            /\ \A u \in back.mp : u \in mp \/ GetConflictingLock(d, u) = {}
<1> DEFINE ts == TxsOf(Chain[b] \ Chain[top])
<1>1. ts \in SUBSET Txs
  BY BlockTxsType, OwnChain
<1>2. ChainTxs(b) = ChainTxs(top) \cup ts
  BY TxsSplit
<1> HIDE DEF ts
<1>3. PoolFits(mp, top, ts)
  BY <1>2, DisconnectFits
<1>4. QED
  BY <1>1, <1>3, ResurrectProperty DEF ts

\* InvalidateBlock disconnects one block after the other.
LEMMA DisconnectToProperty ==
  ASSUME TypeOK, KnownClosed, PoolFits(mempool, tip, {}), NEW top \in Chain[tip]
  PROVE  LET end == DisconnectTo(top)
         IN /\ end.mp \in SUBSET Txs /\ end.added \in Seq(Notes) /\ PoolFits(end.mp, top, {})
            /\ \A u \in end.mp : u \in mempool \/ GetConflictingLock(db, u) = {}
<1> DEFINE n == Height[tip] - Height[top]
           X == [mp : SUBSET Txs, added : Seq(Notes)]
           B(i) == GetAncestor(tip, Height[tip] - i + 1)
           A(i) == GetAncestor(tip, Height[tip] - i)
           one(s, b) == LET back == Resurrect(db, s.mp, Parent[b], SeqTxs(b))
                        IN [mp |-> back.mp, added |-> s.added \o Disconnected(b, Parent[b]) \o back.added]
           step == [i \in 1..n |-> [s \in X |-> one(s, B(i))]]
           init == [mp |-> mempool, added |-> <<>>]
           ok(s) == \A u \in s.mp : u \in mempool \/ GetConflictingLock(db, u) = {}
           good(i) == {s \in X : PoolFits(s.mp, A(i), {}) /\ ok(s)}
           Good == [i \in 0..n |-> good(i)]
<1>1. tip \in Blocks /\ mempool \in SUBSET Txs /\ Chain[tip] \subseteq known
  BY DEF TypeOK, KnownClosed
<1>2. /\ top \in Blocks /\ Height[top] \in Nat /\ Height[tip] \in Nat /\ Height[top] <= Height[tip]
      /\ n \in Nat /\ tip \in Chain[tip]
  BY <1>1, ChainTransitive, OwnChain, TreeAssumption, SMTT(30)
<1>3. A(0) = tip /\ A(n) = top
  <2>1. Height[tip] - 0 = Height[tip] /\ Height[tip] - n = Height[top]
        /\ Height[tip] \in 0..Height[tip] /\ Height[top] \in 0..Height[tip]
    BY <1>2, SMTT(30)
  <2>2. QED
    BY <1>1, <1>2, <2>1, AncestorExists, OneAtHeight, SMTT(30)
<1>4. ASSUME NEW i \in 1..n
      PROVE  /\ B(i) \in Blocks \ {Genesis} /\ B(i) \in Chain[tip] /\ Parent[B(i)] = A(i) /\ A(i - 1) = B(i)
  <2>1. /\ Height[tip] - i + 1 \in 1..Height[tip] /\ (Height[tip] - i + 1) - 1 = Height[tip] - i
        /\ Height[tip] - (i - 1) = Height[tip] - i + 1
    BY <1>2, SMTT(30)
  <2>2. QED
    BY <1>1, <2>1, Walk, SMTT(30)
<1>5. DisconnectTo(top) = Iterate(step, init, n)
  BY DEF DisconnectTo
<1>6. init \in Good[0]
  <2>1. init \in X
    BY <1>1, SMTT(30)
  <2>2. QED
    BY <1>2, <1>3, <2>1, SMTT(30)
<1>7. ASSUME NEW i \in 1..n, NEW s \in Good[i - 1] PROVE step[i][s] \in Good[i]
  <2>1. i - 1 \in 0..n /\ i \in 0..n
    BY <1>2, SMTT(30)
  <2>2. s \in X /\ PoolFits(s.mp, A(i - 1), {}) /\ ok(s)
    BY <1>7, <2>1
  <2> DEFINE b == B(i)
             p == Parent[b]
             mp == s.mp
             ts == SeqTxs(b)
             back == Resurrect(db, mp, p, ts)
  <2>3. /\ b \in Blocks \ {Genesis} /\ b \in Chain[tip] /\ p = A(i) /\ A(i - 1) = b
    BY <1>4
  <2> HIDE DEF b, A
  <2>4. p \in Blocks /\ Chain[b] = Chain[p] \cup {b} /\ p \in Chain[b] /\ Chain[b] \subseteq known
    BY <1>1, <2>3, TreeAssumption, OwnChain, ChainTransitive, SMTT(30)
  <2> HIDE DEF p, ts, mp
  <2>5. mp \in SUBSET Txs /\ ts \in SUBSET Txs /\ PoolFits(mp, b, {})
    BY <2>2, <2>3, BlockTxsType DEF mp, ts
  <2>6. ChainTxs(p) \subseteq ChainTxs(b) /\ ChainTxs(b) \subseteq ChainTxs(p) \cup ts
    BY <2>4 DEF ChainTxs, ts
  <2>7. PoolFits(mp, p, ts)
    BY <2>5, <2>6, DisconnectFits
  <2>8. /\ back \in Pool /\ PoolFits(back.mp, p, {})
        /\ \A u \in back.mp : u \in mp \/ GetConflictingLock(db, u) = {}
    BY <2>5, <2>7, ResurrectProperty
  <2>9. Disconnected(b, p) \in Seq(Notes)
    BY <2>3, <2>4, NotesType
  <2> HIDE DEF back
  <2>10. back.mp \in SUBSET Txs /\ back.added \in Seq(Notes)
    <3>1. back.mp \in SUBSET Txs /\ back.added \in Seq(TxNotes)
      BY <2>8 DEF Pool
    <3>2. TxNotes \subseteq Notes
      BY DEF Notes
    <3>3. QED
      BY <3>1, <3>2, SMTT(30)
  <2>11. step[i][s] = [mp |-> back.mp, added |-> s.added \o Disconnected(b, p) \o back.added]
    BY <2>2 DEF b, p, mp, ts, back
  <2>12. s.added \o Disconnected(b, p) \o back.added \in Seq(Notes)
    BY <2>2, <2>9, <2>10, SMTT(30)
  <2> DEFINE r == step[i][s]
  <2> HIDE DEF step
  <2>13. r \in X /\ r.mp = back.mp
    BY <2>10, <2>11, <2>12, SMTT(30)
  <2>14. PoolFits(r.mp, A(i), {}) /\ ok(r)
    BY <2>2, <2>3, <2>8, <2>13 DEF mp, p
  <2>15. QED
    BY <2>1, <2>13, <2>14
<1>8. Good \in [0..n -> SUBSET X]
  OBVIOUS
<1> DEFINE end == Iterate(step, init, n)
<1>9. end \in Good[n]
  <2> HIDE DEF step, init, Good, n, X
  <2>1. QED
    BY <1>2, <1>6, <1>7, <1>8, IterateInvariant
<1> HIDE DEF end, step, init
<1>10. end \in X /\ PoolFits(end.mp, A(n), {}) /\ ok(end)
  BY <1>2, <1>9, SMTT(30)
<1> HIDE DEF A, n
<1>11. QED
  BY <1>3, <1>5, <1>10 DEF end
-----------------------------------------------------------------------------
(* The steps under cs_main *)

\* Whatever is new in the mempool contradicts no lock on record.
LEMMA LocksAgreeNext ==
  ASSUME MempoolAgreesWithLocks, db' \in Db, Indexed(db'), Left(db', db), w' = w,
         mempool' \subseteq Txs, \A u \in mempool' : u \in mempool \/ GetConflictingLock(db', u) = {}
  PROVE  MempoolAgreesWithLocks'
<1>1. SUFFICES ASSUME NEW o \in Outpoints, NEW t \in mempool',
                      db'.byIn[o] # None, o \in Spends[t], db'.byIn[o].txid # t
               PROVE  w.lock = db'.byIn[o] /\ w.pc \in {"resolve", "invalidate", "clear"}
  BY DEF MempoolAgreesWithLocks
<1>2. db'.byIn[o] \in GetConflictingLock(db', t)
  BY <1>1, ConflictFound
<1>3. t \in mempool /\ db'.byIn[o] = db.byIn[o]
  BY <1>1, <1>2 DEF Left
<1>4. QED
  BY <1>1, <1>3 DEF MempoolAgreesWithLocks

LEMMA AcceptStep ==
  ASSUME IInv, NEW t \in Relayed, AcceptToMemoryPool(t)
  PROVE  IInv'
<1> USE DEF AcceptToMemoryPool
<1>1. t \in Txs /\ mempool \in SUBSET Txs /\ db \in Db /\ PoolFits(mempool, tip, {}) /\ Indexed(db)
  BY TxAssumption, ChainAgreement DEF IInv, TypeOK, IndexComplete
<1>2. known' = known /\ tip' = tip /\ db' = db /\ w' = w
  OBVIOUS
<1>3. /\ mempool' \in SUBSET Txs /\ PoolFits(mempool', tip, {})
      /\ \A u \in mempool' : u \in mempool \/ GetConflictingLock(db, u) = {}
      /\ queue' = queue \/ queue' = Append(queue, [kind |-> "tx", arg |-> t])
  <2>1. CASE Acceptable(db, mempool, tip, t)
    <3>1. PoolFits(AfterAccept(db, mempool, t), tip, {} \ {t})
      BY <1>1, <2>1, AcceptFits
    <3>2. {} \ {t} = {}
      OBVIOUS
    <3>3. PoolFits(mempool', tip, {})
      BY <2>1, <3>1, <3>2
    <3>4. QED
      BY <1>1, <2>1, <3>3 DEF AfterAccept, Acceptable
  <2>2. CASE ~Acceptable(db, mempool, tip, t)
    <3> DEFINE X == Displaced(db, mempool, t)
    <3>1. Closed(X, mempool)
      BY DisplacedClosed
    <3>2. mempool' = mempool \ X /\ queue' = queue
      BY <2>2
    <3> HIDE DEF X
    <3>3. PoolFits(mempool \ X, tip, {} \ X)
      BY <1>1, <3>1, DropFits
    <3>4. {} \ X = {}
      OBVIOUS
    <3>5. QED
      BY <1>1, <3>2, <3>3, <3>4
  <2>3. QED
    BY <2>1, <2>2
<1>4. TypeOK'
  <2>1. [kind |-> "tx", arg |-> t] \in Notes
    BY <1>1 DEF Notes, TxNotes
  <2>2. queue' \in Seq(Notes)
    BY <1>3, <2>1, SMTT(30) DEF IInv, TypeOK
  <2>3. QED
    BY <1>2, <1>3, <2>2, SameTypes DEF IInv, TypeOK
<1>5. KnownClosed' /\ IndexComplete' /\ WorkerFits'
  BY <1>2, SMTT(30) DEF IInv, KnownClosed, IndexComplete, WorkerFits, Indexed
<1>6. MempoolAgreesWithLocks'
  BY <1>1, <1>2, <1>3, LocksAgreeNext, LeftProperty DEF IInv
<1>7. MempoolAgreesWithChain'
  BY <1>2, <1>3, ChainAgreementNext
<1>8. QED
  BY <1>4, <1>5, <1>6, <1>7 DEF IInv

LEMMA NewBlockStep ==
  ASSUME IInv, NEW b \in Blocks, ProcessNewBlock(b)
  PROVE  IInv'
<1> USE DEF ProcessNewBlock
<1>1. /\ known' = known \cup {b} /\ b \notin known /\ Parent[b] \in known
      /\ tip' = tip /\ mempool' = mempool /\ db' = db /\ w' = w
  OBVIOUS
<1>2. KnownClosed'
  <2>1. b # Genesis => Chain[b] = Chain[Parent[b]] \cup {b}
    BY TreeAssumption
  <2>2. b = Genesis => Chain[b] = {b}
    BY TreeAssumption
  <2>3. QED
    BY <1>1, <2>1, <2>2 DEF IInv, KnownClosed
<1>3. Received \subseteq Received'
  BY <1>1 DEF Received
<1>4. NonLocked \subseteq NonLocked' /\ Notes \subseteq Notes'
  <2>1. ASSUME NEW x \in NonLocked PROVE x \in NonLocked'
    BY <1>3, <2>1 DEF NonLocked
  <2>2. Notes \subseteq Notes'
    BY <1>1, <1>3 DEF Notes, TxNotes
  <2>3. QED
    BY <2>1, <2>2
<1>5. TypeOK'
  <2>1. /\ known' \subseteq Blocks /\ tip' \in known' /\ failed' \subseteq known'
        /\ activate' \in BOOLEAN /\ {best', notified'} \subseteq known'
        /\ mempool' \subseteq Txs /\ pending' \subseteq Locks /\ noTx' \subseteq Locks
        /\ txindex' \in [Txs -> known' \cup {None}] /\ db' \in Db
    BY DEF IInv, TypeOK
  <2>2. queue' \in Seq(Notes') /\ nonLocked' \in NonLocked'
    BY <1>4, SMTT(30) DEF IInv, TypeOK
  <2>3. cb' \in {IdleCallback} \cup [kind : {"tx"}, arg : Txs, open : SUBSET Txs]
             \cup [kind : {"block", "index"}, arg : Received', open : SUBSET Txs]
    BY <1>3 DEF IInv, TypeOK
  <2>4. w' \in {IdleWorker} \cup
            [pc : {"store", "resolve", "invalidate", "clear"}, lock : Locks, found : BOOLEAN,
             at : known' \cup {None}, foes : SUBSET [tx : Txs, block : Received'], unknown : BOOLEAN]
    <3>1. SUBSET [tx : Txs, block : Received] \subseteq SUBSET [tx : Txs, block : Received']
      BY <1>3
    <3>2. QED
      BY <1>1, <3>1 DEF IInv, TypeOK
  <2>5. QED
    BY <2>1, <2>2, <2>3, <2>4 DEF TypeOK
<1>6. IndexComplete' /\ WorkerFits' /\ MempoolAgreesWithLocks'
  BY <1>1, SMTT(30) DEF IInv, IndexComplete, WorkerFits, Indexed, MempoolAgreesWithLocks
<1>7. MempoolAgreesWithChain'
  BY <1>1, ChainAgreement, ChainAgreementNext DEF IInv
<1>8. QED
  BY <1>2, <1>5, <1>6, <1>7 DEF IInv
LEMMA ActivateStep ==
  ASSUME IInv, NEW b \in Blocks, ActivateBestChain(b)
  PROVE  IInv'
<1> DEFINE fork == FindFork(b, tip)
           enough == Highest({a \in Chain[b] \ Chain[tip] : Work[Parent[a]] <= Work[tip]})
           end == ConnectTo(enough, fork)
           mined == TxsOf(Chain[end.top] \ Chain[tip])
           lost == TxsOf(Chain[tip] \ Chain[b]) \ mined
           left == mempool \ (mined \cup WithDescendants(mempool \cap UNION {Conflicts(t) : t \in mined}, mempool))
           back == Resurrect(end.db, left, end.top, lost)
<1>1. /\ b \in Candidates /\ tip' = end.top /\ failed' = failed \cup end.bad /\ db' = end.db
      /\ mempool' = back.mp
      /\ queue' = queue \o Disconnected(tip, fork) \o back.added \o Connected(end.top, fork)
      /\ UNCHANGED <<known, best, notified, cb, txindex, pending, noTx, nonLocked, w>>
      /\ activate' \in BOOLEAN
  BY DEF ActivateBestChain
<1>2. /\ enough \in Chain[b] /\ fork \in Chain[tip]
      /\ end \in Attempt /\ AttemptFits(end, fork, enough)
      /\ back \in Pool /\ PoolFits(back.mp, end.top, {})
      /\ \A u \in back.mp : u \in mempool \/ GetConflictingLock(end.db, u) = {}
  BY <1>1, ActivateProperty
<1> HIDE DEF fork, enough, end, mined, lost, left, back
<1>3. /\ b \in known /\ tip \in known /\ known \subseteq Blocks /\ Chain[b] \subseteq known
      /\ Chain[tip] \subseteq known
  BY <1>1 DEF IInv, TypeOK, KnownClosed, Candidates
<1>4. Chain[enough] \subseteq known /\ enough \in Blocks
  BY <1>2, <1>3, ChainTransitive
<1>5. end.top \in known /\ fork \in Chain[end.top] /\ end.bad \subseteq known /\ end.db \in Db
  BY <1>2, <1>4 DEF AttemptFits, Attempt
<1>6. Chain[end.top] \subseteq known /\ end.top \in Blocks
  BY <1>3, <1>5 DEF IInv, KnownClosed
<1>7. queue' \in Seq(Notes)
  <2>1. Disconnected(tip, fork) \in Seq(Notes) /\ Connected(end.top, fork) \in Seq(Notes)
    BY <1>2, <1>3, <1>5, <1>6, NotesType
  <2>2. back.added \in Seq(Notes)
    <3>1. back.added \in Seq(TxNotes) /\ TxNotes \subseteq Notes
      BY <1>2 DEF Pool, Notes
    <3>2. QED
      BY <3>1, SMTT(30)
  <2>3. QED
    BY <1>1, <2>1, <2>2, SMTT(30) DEF IInv, TypeOK
<1>8. back.mp \subseteq Txs
  BY <1>2 DEF Pool
<1>9. TypeOK'
  BY <1>1, <1>5, <1>7, <1>8, SameTypes DEF IInv, TypeOK
<1>10. Indexed(end.db) /\ Left(end.db, db)
  BY <1>2 DEF AttemptFits, Pruned
<1>11. KnownClosed' /\ WorkerFits'
  BY <1>1, <1>10 DEF IInv, KnownClosed, WorkerFits, Left
<1>12. IndexComplete'
  BY <1>1, <1>10 DEF IndexComplete, Indexed
<1>13. MempoolAgreesWithLocks'
  BY <1>1, <1>2, <1>5, <1>8, <1>10, LocksAgreeNext DEF IInv
<1>14. MempoolAgreesWithChain'
  BY <1>1, <1>2, ChainAgreementNext
<1>15. QED
  BY <1>9, <1>11, <1>12, <1>13, <1>14 DEF IInv

LEMMA EnforceStep ==
  ASSUME IInv, EnforceBestChainLock
  PROVE  IInv'
<1> DEFINE top == IF best \in Chain[tip] THEN tip ELSE FindFork(best, tip)
           back == Resurrect(db, mempool, top, TxsOf(Chain[tip] \ Chain[top]))
<1>1. /\ tip' = top /\ mempool' = back.mp /\ queue' = queue \o Disconnected(tip, top) \o back.added
      /\ failed' \subseteq failed /\ activate' \in BOOLEAN
      /\ UNCHANGED <<known, best, notified, cb, txindex, pending, noTx, nonLocked, db, w>>
  BY DEF EnforceBestChainLock, Reconsidered
<1>2. /\ tip \in Blocks /\ best \in Blocks /\ Chain[tip] \subseteq known /\ mempool \in SUBSET Txs
      /\ PoolFits(mempool, tip, {}) /\ db \in Db /\ Indexed(db)
  BY ChainAgreement DEF IInv, TypeOK, KnownClosed, IndexComplete
<1>3. top \in Chain[tip]
  BY <1>2, OwnChain, ForkProperty
<1> HIDE DEF top
<1>4. /\ back \in Pool /\ PoolFits(back.mp, top, {})
      /\ \A u \in back.mp : u \in mempool \/ GetConflictingLock(db, u) = {}
  BY <1>2, <1>3, ReturnProperty
<1> HIDE DEF back
<1>5. back.mp \subseteq Txs /\ back.added \in Seq(Notes)
  <2>1. back.mp \subseteq Txs /\ back.added \in Seq(TxNotes) /\ TxNotes \subseteq Notes
    BY <1>4 DEF Pool, Notes
  <2>2. QED
    BY <2>1, SMTT(30)
<1>6. queue' \in Seq(Notes)
  <2>1. Disconnected(tip, top) \in Seq(Notes)
    BY <1>2, <1>3, NotesType
  <2>2. QED
    BY <1>1, <1>5, <2>1, SMTT(30) DEF IInv, TypeOK
<1>7. TypeOK'
  BY <1>1, <1>2, <1>3, <1>5, <1>6, SameTypes DEF IInv, TypeOK
<1>8. KnownClosed' /\ WorkerFits' /\ IndexComplete'
  BY <1>1 DEF IInv, KnownClosed, WorkerFits, IndexComplete, Indexed
<1>9. MempoolAgreesWithLocks'
  BY <1>1, <1>2, <1>4, <1>5, LocksAgreeNext, LeftProperty DEF IInv
<1>10. MempoolAgreesWithChain'
  BY <1>1, <1>4, ChainAgreementNext
<1>11. QED
  BY <1>7, <1>8, <1>9, <1>10 DEF IInv

\* ProcessNewChainLock and NotifyChainLock touch neither mempool nor locks.
LEMMA ChainLockStep ==
  ASSUME IInv, (\E b \in ClBlocks : ProcessNewChainLock(b)) \/ NotifyChainLock
  PROVE  IInv'
<1> USE DEF ProcessNewChainLock, NotifyChainLock
<1>1. UNCHANGED <<known, tip, failed, mempool, cb, txindex, pending, noTx, nonLocked, db, w>>
  OBVIOUS
<1>2. best' \in known /\ notified' \in known /\ activate' \in BOOLEAN
  BY DEF IInv, TypeOK
<1>3. queue' \in Seq(Notes)
  <2>1. [kind |-> "chainlock", arg |-> best] \in Notes
    BY DEF IInv, TypeOK, Notes
  <2>2. queue' = queue \/ queue' = Append(queue, [kind |-> "chainlock", arg |-> best])
    OBVIOUS
  <2>3. QED
    BY <2>1, <2>2, SMTT(30) DEF IInv, TypeOK
<1>4. TypeOK'
  BY <1>1, <1>2, <1>3, SameTypes DEF IInv, TypeOK
<1>5. KnownClosed' /\ WorkerFits' /\ IndexComplete' /\ MempoolAgreesWithLocks'
  BY <1>1 DEF IInv, KnownClosed, WorkerFits, IndexComplete, Indexed, MempoolAgreesWithLocks
<1>6. MempoolAgreesWithChain'
  BY <1>1, ChainAgreement, ChainAgreementNext DEF IInv
<1>7. QED
  BY <1>4, <1>5, <1>6 DEF IInv
-----------------------------------------------------------------------------
(* The steps of the scheduler *)

LEMMA ClearFits ==
  ASSUME IInv, NEW l
  PROVE  PoolFits(mempool \ WithDescendants(Conflicts(l.txid) \cap mempool, mempool), tip, {})
<1> DEFINE X == WithDescendants(Conflicts(l.txid) \cap mempool, mempool)
<1>1. Closed(X, mempool) /\ PoolFits(mempool, tip, {})
  BY DescendantsProperty, ChainAgreement DEF IInv
<1> HIDE DEF X
<1>2. PoolFits(mempool \ X, tip, {} \ X)
  BY <1>1, DropFits
<1>3. {} \ X = {}
  OBVIOUS
<1>4. QED
  BY <1>2, <1>3 DEF X

LEMMA RequeueType ==
  ASSUME TypeOK, NEW ts, Requeue(ts)
  PROVE  pending' \subseteq Locks /\ noTx' \subseteq Locks
BY DEF TypeOK, Requeue

\* What a notification carries.
LEMMA NoteType ==
  ASSUME TypeOK, queue # <<>>
  PROVE  /\ Tail(queue) \in Seq(Notes)
         /\ Head(queue).kind = "tx" => Head(queue).arg \in Txs
         /\ Head(queue).kind \in {"connected", "disconnected"} => Head(queue).arg \in Received
         /\ Head(queue).kind = "chainlock" => Head(queue).arg \in known
<1>1. queue \in Seq(Notes)
  BY DEF TypeOK
<1>2. Head(queue) \in Notes /\ Tail(queue) \in Seq(Notes)
  BY <1>1, SMTT(30)
<1>3. QED
  BY <1>2 DEF Notes, TxNotes

LEMMA DeliverTxStep ==
  ASSUME IInv, DeliverTx
  PROVE  IInv'
<1> DEFINE t == Head(queue).arg
           X == WithDescendants(Conflicts(t) \cap mempool, mempool)
<1>1. /\ queue # <<>> /\ Head(queue).kind = "tx" /\ queue' = Tail(queue)
      /\ UNCHANGED <<known, tip, failed, activate, best, notified, txindex, db, w>>
  BY DEF DeliverTx
<1>2. t \in Txs /\ queue' \in Seq(Notes)
  BY <1>1, NoteType DEF IInv
<1>3. PoolFits(mempool', tip, {}) /\ mempool' \subseteq mempool
  <2>1. mempool' = mempool \/ mempool' = mempool \ X
    BY DEF DeliverTx, RemoveMempoolConflicts
  <2>2. PoolFits(mempool \ X, tip, {})
    <3>1. [txid |-> t].txid = t
      OBVIOUS
    <3>2. QED
      BY <3>1, ClearFits
  <2> HIDE DEF X
  <2>3. QED
    BY <2>1, <2>2, ChainAgreement DEF IInv
<1>4. pending' \subseteq Locks /\ noTx' \subseteq Locks
  BY RequeueType DEF DeliverTx, IInv, TypeOK
<1>5. nonLocked' \in NonLocked
  BY RemoveNonLockedType, SMTT(30) DEF DeliverTx, RemoveMempoolConflicts, IInv, TypeOK
<1>6. cb' = cb \/ cb' = [kind |-> "tx", arg |-> t, open |-> {t}]
  BY DEF DeliverTx
<1> HIDE DEF t
<1>7. cb' \in {IdleCallback} \cup [kind : {"tx"}, arg : Txs, open : SUBSET Txs]
             \cup [kind : {"block", "index"}, arg : Received, open : SUBSET Txs]
  BY <1>2, <1>6, SMTT(30) DEF IInv, TypeOK
<1>8. TypeOK'
  BY <1>1, <1>2, <1>3, <1>4, <1>5, <1>7, SameTypes DEF IInv, TypeOK
<1>9. KnownClosed' /\ WorkerFits' /\ IndexComplete' /\ MempoolAgreesWithLocks'
  BY <1>1, <1>3 DEF IInv, KnownClosed, WorkerFits, IndexComplete, Indexed, MempoolAgreesWithLocks
<1>10. MempoolAgreesWithChain'
  BY <1>1, <1>3, ChainAgreementNext
<1>11. QED
  BY <1>8, <1>9, <1>10 DEF IInv

\* Steps that leave the chain and the mempool alone, and record no lock.
LEMMA QuietStep ==
  ASSUME IInv, TypeOK', UNCHANGED chain, Left(db', db), Indexed(db'), w' = w
  PROVE  IInv'
<1>1. KnownClosed' /\ WorkerFits' /\ MempoolAgreesWithLocks'
  BY DEF IInv, chain, KnownClosed, WorkerFits, MempoolAgreesWithLocks, Left
<1>2. IndexComplete'
  BY DEF IndexComplete, Indexed
<1>3. MempoolAgreesWithChain'
  BY ChainAgreement, ChainAgreementNext DEF IInv, chain
<1>4. QED
  BY <1>1, <1>2, <1>3 DEF IInv

LEMMA MinedType ==
  ASSUME NEW d \in Db, NEW ms \in SUBSET [lock : Locks, height : Nat], Indexed(d)
  PROVE  LET r == [d EXCEPT !.mined = ms]
         IN r \in Db /\ Indexed(r) /\ Left(r, d) /\ r.stored = d.stored /\ r.byIn = d.byIn
<1> DEFINE r == [d EXCEPT !.mined = ms]
<1>1. /\ r \in Db /\ r.stored = d.stored /\ r.byTx = d.byTx /\ r.byIn = d.byIn
      /\ r.txidCache = d.txidCache /\ r.outpointCache = d.outpointCache
  BY DEF Db
<1> HIDE DEF r
<1>2. Indexed(r) /\ Left(r, d)
  BY <1>1, CachesIndexed
<1>3. QED
  BY <1>1, <1>2 DEF r

LEMMA MarkersType ==
  ASSUME NEW d \in Db, NEW b \in Blocks
  PROVE  BlockMarkers(d, b) \subseteq [lock : Locks, height : Nat]
<1>1. \A t \in SeqTxs(b) : HashByTxid(d, t) \in Locks \cup {None}
  BY MapsType, BlockTxsType DEF HashByTxid, Maps
<1>2. Height[b] \in Nat
  BY TreeAssumption
<1>3. ASSUME NEW l \in {HashByTxid(d, t) : t \in SeqTxs(b)} \ {None}
      PROVE  [lock |-> l, height |-> Height[b]] \in [lock : Locks, height : Nat]
  BY <1>1, <1>2, <1>3
<1>4. QED
  BY <1>3 DEF BlockMarkers

\* TrackBlock's loop over the transactions of a block.
LEMMA TrackingType ==
  ASSUME nonLocked \in NonLocked, NEW b \in Received, b \in Blocks, NEW open
  PROVE  LET txs == BlockTxs[b]
         IN Iterate([i \in 1..Len(txs) |->
                       [s \in NonLocked |-> IF txs[i] \in open THEN AddNonLockedTx(s, txs[i], b)
                                            ELSE RemoveNonLockedTx(s, txs[i])]],
                    nonLocked, Len(txs)) \in NonLocked
<1> DEFINE txs == BlockTxs[b]
           n == Len(txs)
           step == [i \in 1..n |->
                      [s \in NonLocked |-> IF txs[i] \in open THEN AddNonLockedTx(s, txs[i], b)
                                           ELSE RemoveNonLockedTx(s, txs[i])]]
           Good == [i \in 0..n |-> NonLocked]
<1>1. n \in Nat /\ \A i \in 1..n : txs[i] \in Txs
  BY BlockAssumption, SMTT(30)
<1> HIDE DEF n, txs
<1>2. ASSUME NEW i \in 1..n, NEW s \in Good[i - 1] PROVE step[i][s] \in Good[i]
  <2>1. i - 1 \in 0..n /\ i \in 0..n
    BY <1>1, SMTT(30)
  <2>2. s \in NonLocked /\ txs[i] \in Txs
    BY <1>1, <1>2, <2>1
  <2>3. AddNonLockedTx(s, txs[i], b) \in NonLocked
    BY <2>2, AddNonLockedType
  <2>4. RemoveNonLockedTx(s, txs[i]) \in NonLocked
    BY <2>2, RemoveNonLockedType DEF RemoveNonLockedTx
  <2>5. step[i][s] \in NonLocked
    BY <2>2, <2>3, <2>4
  <2>6. QED
    BY <2>1, <2>5
<1>3. Good \in [0..n -> SUBSET NonLocked] /\ nonLocked \in Good[0] /\ Good[n] = NonLocked
  BY <1>1, SMTT(30)
<1>4. Iterate(step, nonLocked, n) \in Good[n]
  <2> HIDE DEF step, Good
  <2>1. QED
    BY <1>1, <1>2, <1>3, IterateInvariant
<1>5. QED
  BY <1>3, <1>4 DEF n, txs

\* Removal of confirmed locks, and of archived hashes.
LEMMA ConfirmedProperty ==
  ASSUME NEW d \in Db, Indexed(d), NEW h \in Nat
  PROVE  LET r == RemoveConfirmedInstantSendLocks(d, h)
         IN r \in Db /\ Indexed(r) /\ Left(r, d)
<1> DEFINE done == {m \in d.mined : m.height <= h}
           ls == {m.lock : m \in done}
           gone == ls \cap d.stored
           q == EraseRecords(d, gone)
           locks == (q.islockCache \ ls) \cup gone
           txs == [t \in Txs |-> IF q.byTx[t] = None THEN HashByTxid(d, t) ELSE q.txidCache[t]]
           ins == [o \in Outpoints |-> IF q.byIn[o] = None THEN HashByInput(d, o) ELSE q.outpointCache[o]]
           r == [q EXCEPT !.confirmed = h, !.mined = q.mined \ done, !.archived = q.archived \cup done,
                          !.islockCache = locks, !.txidCache = txs, !.outpointCache = ins]
<1>1. CASE h <= d.confirmed
  BY <1>1, LeftProperty DEF RemoveConfirmedInstantSendLocks
<1>2. CASE ~(h <= d.confirmed)
  <2>1. RemoveConfirmedInstantSendLocks(d, h) = r
    BY <1>2 DEF RemoveConfirmedInstantSendLocks
  <2>2. gone \in SUBSET d.stored /\ gone \in SUBSET Locks /\ done \subseteq [lock : Locks, height : Nat]
    BY DEF Db
  <2> HIDE DEF gone
  <2>3. /\ q \in Db /\ Indexed(q) /\ Left(q, d)
        /\ q.txidCache = d.txidCache /\ q.outpointCache = d.outpointCache
    BY <2>2, EraseIndexed, RemoveStored
  <2> HIDE DEF q, done, ls
  <2>4. Maps(d) /\ Maps(q)
    BY <2>3, MapsType
  <2>5. txs \in [Txs -> Locks \cup {None}]
    BY <2>4 DEF HashByTxid, Maps
  <2>6. ins \in [Outpoints -> Locks \cup {None}]
    BY <2>4 DEF HashByInput, Maps
  <2>7. locks \in SUBSET Locks
    BY <2>2, <2>4 DEF Maps
  <2>8. ASSUME NEW t \in Txs, txs[t] # None PROVE txs[t].txid = t
    <3>1. txs[t] \in {d.byTx[t], d.txidCache[t]}
      BY <2>3 DEF HashByTxid
    <3> HIDE DEF txs
    <3>2. QED
      BY <2>8, <3>1 DEF Indexed
  <2>9. ASSUME NEW o \in Outpoints, ins[o] # None PROVE o \in Spends[ins[o].txid]
    <3>1. ins[o] \in {d.byIn[o], d.outpointCache[o]}
      BY <2>3 DEF HashByInput
    <3> HIDE DEF ins
    <3>2. QED
      BY <2>9, <3>1 DEF Indexed
  <2> HIDE DEF txs, ins, locks
  <2>10. /\ r \in Db /\ r.stored = q.stored /\ r.byTx = q.byTx /\ r.byIn = q.byIn
         /\ r.txidCache = txs /\ r.outpointCache = ins
    BY <2>2, <2>3, <2>5, <2>6, <2>7 DEF Db
  <2> HIDE DEF r
  <2>11. Indexed(r)
    BY <2>3, <2>8, <2>9, <2>10, CachesIndexed
  <2>12. QED
    BY <2>1, <2>3, <2>10, <2>11, LeftProperty
<1>3. QED
  BY <1>1, <1>2

LEMMA ArchivedProperty ==
  ASSUME NEW d \in Db, Indexed(d), NEW h
  PROVE  LET r == RemoveArchivedInstantSendLocks(d, h)
         IN r \in Db /\ Indexed(r) /\ Left(r, d)
<1> DEFINE r == RemoveArchivedInstantSendLocks(d, h)
<1>1. /\ r \in Db /\ r.stored = d.stored /\ r.byTx = d.byTx /\ r.byIn = d.byIn
      /\ r.txidCache = d.txidCache /\ r.outpointCache = d.outpointCache
  BY DEF Db, RemoveArchivedInstantSendLocks
<1> HIDE DEF r
<1>2. Indexed(r)
  BY <1>1, CachesIndexed
<1>3. QED
  BY <1>1, <1>2, LeftProperty DEF r

LEMMA ConfirmedStep ==
  ASSUME IInv, HandleFullyConfirmedBlock
  PROVE  IInv'
<1> DEFINE b == Head(queue).arg
           q == RemoveConfirmedInstantSendLocks(db, Height[b])
<1>1. /\ queue # <<>> /\ Head(queue).kind = "chainlock" /\ queue' = Tail(queue)
      /\ db' = RemoveArchivedInstantSendLocks(q, Height[b] - ArchiveDepth)
      /\ nonLocked' = RemoveNonLockedTxs(nonLocked, {t \in Txs : nonLocked.info[t].mined \in Chain[b]})
      /\ UNCHANGED <<chain, cb, txindex, pending, noTx, w>>
  BY DEF HandleFullyConfirmedBlock
<1>2. b \in Blocks /\ queue' \in Seq(Notes) /\ Height[b] \in Nat /\ db \in Db /\ Indexed(db)
  BY <1>1, NoteType, TreeAssumption DEF IInv, TypeOK, IndexComplete
<1> HIDE DEF b
<1>3. q \in Db /\ Indexed(q) /\ Left(q, db)
  BY <1>2, ConfirmedProperty
<1> HIDE DEF q
<1>4. db' \in Db /\ Indexed(db') /\ Left(db', db)
  BY <1>1, <1>3, ArchivedProperty, LeftProperty
<1>5. nonLocked' \in NonLocked
  BY <1>1, RemoveNonLockedType DEF IInv, TypeOK
<1>6. TypeOK'
  BY <1>1, <1>2, <1>4, <1>5, SameTypes DEF IInv, TypeOK, chain
<1>7. QED
  BY <1>1, <1>4, <1>6, QuietStep

LEMMA SchedulerStep ==
  ASSUME IInv, TrackTx \/ DeliverBlock \/ TrackBlock \/ IndexBlock \/ BlockDisconnected
  PROVE  IInv'
<1> DEFINE Callbacks == {IdleCallback} \cup [kind : {"tx"}, arg : Txs, open : SUBSET Txs]
                          \cup [kind : {"block", "index"}, arg : Received, open : SUBSET Txs]
<1>1. TypeOK /\ db \in Db /\ Indexed(db) /\ nonLocked \in NonLocked /\ cb \in Callbacks
  BY DEF IInv, TypeOK, IndexComplete
<1>2. Received \subseteq Blocks
  BY DEF IInv, TypeOK, Received
<1>3. CASE TrackTx
  <2>1. cb.arg \in Txs
    BY <1>1, <1>3, SMTT(30) DEF TrackTx, IdleCallback
  <2>2. nonLocked' \in NonLocked
    BY <1>1, <1>3, <2>1, AddNonLockedType DEF TrackTx
  <2>3. pending' \subseteq Locks /\ noTx' \subseteq Locks
    BY <1>1, <1>3, RequeueType DEF TrackTx
  <2>4. TypeOK'
    BY <1>1, <1>3, <2>2, <2>3, SameTypes DEF TrackTx, TypeOK, chain
  <2>5. QED
    BY <1>1, <1>3, <2>4, QuietStep, LeftProperty DEF TrackTx
<1>4. CASE DeliverBlock
  <2> DEFINE b == Head(queue).arg
             open == {t \in SeqTxs(b) : ~IsLocked(db, t) /\ ~HasChainLock(b)}
  <2>1. /\ queue # <<>> /\ Head(queue).kind = "connected" /\ queue' = Tail(queue)
        /\ cb' = [kind |-> "block", arg |-> b, open |-> open]
        /\ UNCHANGED <<chain, txindex, pending, noTx, nonLocked, db, w>>
    BY <1>4 DEF DeliverBlock
  <2>2. b \in Received /\ queue' \in Seq(Notes)
    BY <1>1, <2>1, NoteType
  <2> HIDE DEF b
  <2>3. open \subseteq Txs
    BY <1>2, <2>2, BlockTxsType
  <2> HIDE DEF open
  <2>4. cb' \in Callbacks
    BY <2>1, <2>2, <2>3
  <2>5. TypeOK'
    BY <1>1, <2>1, <2>2, <2>4, SameTypes DEF TypeOK, chain
  <2>6. QED
    BY <1>1, <2>1, <2>5, QuietStep, LeftProperty
<1>5. CASE TrackBlock
  <2>1. cb.arg \in Received /\ cb \in [kind : {"block", "index"}, arg : Received, open : SUBSET Txs]
    BY <1>1, <1>5, SMTT(30) DEF TrackBlock, IdleCallback
  <2>2. nonLocked' \in NonLocked
    BY <1>1, <1>2, <1>5, <2>1, TrackingType DEF TrackBlock
  <2>3. pending' \subseteq Locks /\ noTx' \subseteq Locks
    BY <1>1, <1>5, RequeueType DEF TrackBlock
  <2>4. cb' \in Callbacks
    BY <1>5, <2>1 DEF TrackBlock
  <2>5. db' \in Db /\ Left(db', db) /\ Indexed(db')
    <3> DEFINE ms == db.mined \cup BlockMarkers(db, cb.arg)
    <3>1. ms \in SUBSET [lock : Locks, height : Nat]
      BY <1>1, <1>2, <2>1, MarkersType DEF Db
    <3>2. db' = [db EXCEPT !.mined = ms]
      BY <1>5 DEF TrackBlock
    <3> HIDE DEF ms
    <3>3. QED
      BY <1>1, <3>1, <3>2, MinedType
  <2>6. TypeOK'
    BY <1>1, <1>5, <2>2, <2>3, <2>4, <2>5, SameTypes DEF TrackBlock, TypeOK, chain
  <2>7. QED
    BY <1>5, <2>5, <2>6, QuietStep DEF TrackBlock
<1>6. CASE IndexBlock
  <2>1. cb.arg \in known
    BY <1>1, <1>6, SMTT(30) DEF IndexBlock, IdleCallback, Received
  <2>2. txindex' \in [Txs -> known \cup {None}]
    BY <1>1, <1>6, <2>1 DEF IndexBlock, TypeOK
  <2>3. TypeOK'
    BY <1>1, <1>6, <2>2, SameTypes DEF IndexBlock, TypeOK, chain
  <2>4. QED
    BY <1>1, <1>6, <2>3, QuietStep, LeftProperty DEF IndexBlock
<1>7. CASE BlockDisconnected
  <2> DEFINE b == Head(queue).arg
             ms == db.mined \ BlockMarkers(db, b)
  <2>1. /\ queue # <<>> /\ Head(queue).kind = "disconnected" /\ queue' = Tail(queue)
        /\ db' = [db EXCEPT !.mined = ms]
        /\ UNCHANGED <<chain, cb, txindex, pending, noTx, nonLocked, w>>
    BY <1>7 DEF BlockDisconnected
  <2>2. queue' \in Seq(Notes)
    BY <1>1, <2>1, NoteType
  <2>3. ms \in SUBSET [lock : Locks, height : Nat]
    BY <1>1 DEF Db
  <2> HIDE DEF ms
  <2>4. db' \in Db /\ Left(db', db) /\ Indexed(db')
    BY <1>1, <2>1, <2>3, MinedType
  <2>5. TypeOK'
    BY <1>1, <2>1, <2>2, <2>4, SameTypes DEF TypeOK, chain
  <2>6. QED
    BY <2>1, <2>4, <2>5, QuietStep
<1>8. QED
  BY <1>3, <1>4, <1>5, <1>6, <1>7
-----------------------------------------------------------------------------
(* Locks come in, and the worker's steps *)

LEMMA LockStep ==
  ASSUME IInv, NEW l \in Locks, ProcessMessageInstantSendLock(l) \/ Evict(l)
  PROVE  IInv'
<1>1. TypeOK /\ db \in Db /\ Indexed(db)
  BY DEF IInv, TypeOK, IndexComplete
<1>2. CASE ProcessMessageInstantSendLock(l)
  <2>1. TypeOK'
    BY <1>1, <1>2, SameTypes DEF ProcessMessageInstantSendLock, TypeOK, chain
  <2>2. QED
    BY <1>1, <1>2, <2>1, QuietStep, LeftProperty DEF ProcessMessageInstantSendLock
<1>3. CASE Evict(l)
  <2> DEFINE drop(f) == [x \in DOMAIN f |-> IF f[x] = l THEN None ELSE f[x]]
             locks == db.islockCache \ {l}
             txs == drop(db.txidCache)
             ins == drop(db.outpointCache)
             r == [db EXCEPT !.islockCache = locks, !.txidCache = txs, !.outpointCache = ins]
  <2>1. db' = r /\ UNCHANGED <<chain, queue, cb, txindex, pending, noTx, nonLocked, w>>
    BY <1>3 DEF Evict
  <2>2. Maps(db)
    BY <1>1, MapsType
  <2>3. locks \in SUBSET Locks
    BY <2>2 DEF Maps
  <2>4. /\ txs \in [Txs -> Locks \cup {None}]
        /\ \A t \in Txs : txs[t] = None \/ txs[t] = db.txidCache[t]
    BY <2>2 DEF Maps
  <2>5. /\ ins \in [Outpoints -> Locks \cup {None}]
        /\ \A o \in Outpoints : ins[o] = None \/ ins[o] = db.outpointCache[o]
    BY <2>2 DEF Maps
  <2> HIDE DEF locks, txs, ins
  <2>6. /\ r \in Db /\ r.stored = db.stored /\ r.byTx = db.byTx /\ r.byIn = db.byIn
        /\ r.txidCache = txs /\ r.outpointCache = ins
    BY <1>1, <2>3, <2>4, <2>5 DEF Db
  <2> HIDE DEF r
  <2>7. Indexed(r) /\ Left(r, db)
    BY <1>1, <2>4, <2>5, <2>6, CachesIndexed
  <2>8. TypeOK'
    BY <1>1, <2>1, <2>6, SameTypes DEF TypeOK, chain
  <2>9. QED
    BY <2>1, <2>7, <2>8, QuietStep
<1>4. QED
  BY <1>2, <1>3
\* The worker's locals.
Working ==
  [pc : {"store", "resolve", "invalidate", "clear"}, lock : Locks, found : BOOLEAN,
   at : known \cup {None}, foes : SUBSET [tx : Txs, block : Received], unknown : BOOLEAN]

LEMMA WorkingType ==
  ASSUME TypeOK, w.pc # "idle"
  PROVE  w \in Working
BY SMTT(30) DEF TypeOK, Working, IdleWorker

\* After ResolveBlockConflicts the worker goes on to the mempool, or is done with a lock
\* that is not stored.
LEMMA AfterResolveProperty ==
  ASSUME IInv, w.pc \in {"resolve", "invalidate"}
  PROVE  /\ AfterResolve \in {IdleWorker} \cup Working
         /\ w.found => AfterResolve.pc = "clear" /\ AfterResolve.lock = w.lock /\ AfterResolve.found
         /\ ~w.found => AfterResolve = IdleWorker /\ w.lock \notin db.stored
<1>1. w \in Working
  BY WorkingType DEF IInv
<1>2. QED
  BY <1>1 DEF AfterResolve, IInv, WorkerFits, Working

LEMMA LookupStep ==
  ASSUME IInv, NEW l \in Locks, LookupTx(l)
  PROVE  IInv'
<1> DEFINE at == IF l.txid \in mempool THEN None ELSE txindex[l.txid]
           new == [pc |-> "store", lock |-> l, found |-> l.txid \in mempool \/ at # None,
                   at |-> at, foes |-> {}, unknown |-> FALSE]
<1>1. /\ w.pc = "idle" /\ pending' = pending \ {l}
      /\ w' = IdleWorker \/ (~KnownInstantSendLock(db, l) /\ w' = new)
      /\ UNCHANGED <<chain, queue, cb, txindex, noTx, nonLocked, db>>
  BY DEF LookupTx
<1>2. at \in known \cup {None}
  BY LockType DEF IInv, TypeOK
<1>3. new \in Working /\ new.pc = "store" /\ new.lock = l
  <2>1. (l.txid \in mempool \/ at # None) \in BOOLEAN
    OBVIOUS
  <2> HIDE DEF at
  <2>2. QED
    BY <1>2, <2>1 DEF Working
<1> HIDE DEF at, new
<1>4. w' = IdleWorker \/ (w' \in Working /\ w'.pc = "store" /\ w'.lock = l /\ l \notin db.stored)
  BY <1>1, <1>3 DEF KnownInstantSendLock
<1>5. TypeOK'
  BY <1>1, <1>4, SameTypes DEF IInv, TypeOK, chain, Working
<1>6. KnownClosed' /\ IndexComplete'
  BY <1>1 DEF IInv, chain, KnownClosed, IndexComplete, Indexed
<1>7. WorkerFits'
  BY <1>1, <1>4, SMTT(30) DEF WorkerFits, IdleWorker
<1>8. MempoolAgreesWithLocks'
  BY <1>1 DEF IInv, chain, MempoolAgreesWithLocks
<1>9. MempoolAgreesWithChain'
  BY <1>1, ChainAgreement, ChainAgreementNext DEF IInv, chain
<1>10. QED
  BY <1>5, <1>6, <1>7, <1>8, <1>9 DEF IInv

\* A new lock is found over its transaction and inputs.
LEMMA WriteProperty ==
  ASSUME NEW d \in Db, Indexed(d), NEW l \in Locks,
         Uncontested(l.txid) => \A k \in d.stored : k.txid # l.txid
  PROVE  LET r == WriteNewInstantSendLock(d, l)
         IN /\ r \in Db /\ Indexed(r) /\ r.stored = d.stored \cup {l} /\ r.mined = d.mined
            /\ \A o \in Outpoints : r.byIn[o] = l \/ r.byIn[o] = d.byIn[o]
<1> DEFINE stored == d.stored \cup {l}
           byTx == [d.byTx EXCEPT ![l.txid] = l]
           txs == [d.txidCache EXCEPT ![l.txid] = None]
           byIn == [o \in Outpoints |-> IF o \in Spends[l.txid] THEN l ELSE d.byIn[o]]
           ins == [o \in Outpoints |-> IF o \in Spends[l.txid] THEN None ELSE d.outpointCache[o]]
           r == [d EXCEPT !.stored = stored, !.byTx = byTx, !.txidCache = txs, !.byIn = byIn,
                          !.outpointCache = ins]
<1>1. WriteNewInstantSendLock(d, l) = r
  BY DEF WriteNewInstantSendLock, Db
<1>2. Maps(d)
  BY MapsType
<1>3. l.txid \in Txs /\ Spends[l.txid] \subseteq Outpoints /\ l # None
  BY LockType
<1>4. /\ byTx \in [Txs -> Locks \cup {None}] /\ txs \in [Txs -> Locks \cup {None}]
      /\ byTx[l.txid] = l /\ \A t \in Txs : t # l.txid => byTx[t] = d.byTx[t]
      /\ \A t \in Txs : txs[t] = None \/ txs[t] = d.txidCache[t]
  BY <1>2, <1>3 DEF Maps
<1>5. byIn \in [Outpoints -> Locks \cup {None}] /\ ins \in [Outpoints -> Locks \cup {None}]
  BY <1>2 DEF Maps
<1>6. /\ \A o \in Outpoints : byIn[o] = IF o \in Spends[l.txid] THEN l ELSE d.byIn[o]
      /\ \A o \in Outpoints : ins[o] = None \/ ins[o] = d.outpointCache[o]
  OBVIOUS
<1>7. stored \in SUBSET Locks /\ d.stored \subseteq stored /\ l \in stored
  BY <1>2 DEF Maps
<1>8. \A k \in stored : k = l \/ k \in d.stored
  OBVIOUS
<1> HIDE DEF stored, byTx, txs, byIn, ins
<1>9. /\ r \in Db /\ r.stored = stored /\ r.byTx = byTx /\ r.byIn = byIn /\ r.mined = d.mined
      /\ r.txidCache = txs /\ r.outpointCache = ins
  BY <1>2, <1>4, <1>5, <1>7 DEF Db
<1> HIDE DEF r
<1>10. \A t \in Txs : byTx[t] \in stored \cup {None}
  BY <1>4, <1>7 DEF Indexed
<1>11. \A o \in Outpoints : byIn[o] \in stored \cup {None}
  BY <1>6, <1>7 DEF Indexed
<1>12. ASSUME NEW t \in Txs, NEW k \in {byTx[t], txs[t]} \ {None} PROVE k.txid = t
  <2>1. (k = l /\ t = l.txid) \/ k \in {d.byTx[t], d.txidCache[t]} \ {None}
    BY <1>4, <1>12
  <2>2. QED
    BY <2>1 DEF Indexed
<1>13. ASSUME NEW o \in Outpoints, NEW k \in {byIn[o], ins[o]} \ {None} PROVE o \in Spends[k.txid]
  <2>1. (k = l /\ o \in Spends[l.txid]) \/ k \in {d.byIn[o], d.outpointCache[o]} \ {None}
    BY <1>6, <1>13
  <2>2. QED
    BY <2>1 DEF Indexed
<1>14. ASSUME NEW k \in stored, Uncontested(k.txid)
       PROVE  byTx[k.txid] = k /\ \A o \in Spends[k.txid] : byIn[o] = k
  <2>1. CASE k = l
    BY <1>3, <1>4, <1>6, <2>1
  <2>2. CASE k \in d.stored /\ k # l
    <3>1. k.txid \in Txs /\ Spends[k.txid] \subseteq Outpoints
      BY <1>7, LockType
    <3>2. k.txid # l.txid
      BY <1>14, <2>2
    <3>3. Spends[l.txid] \cap Spends[k.txid] = {}
      BY <1>14, <3>2 DEF Uncontested
    <3>4. d.byTx[k.txid] = k /\ \A o \in Spends[k.txid] : d.byIn[o] = k
      BY <1>14, <2>2 DEF Indexed
    <3>5. byTx[k.txid] = k
      BY <1>4, <3>1, <3>2, <3>4
    <3>6. ASSUME NEW o \in Spends[k.txid] PROVE byIn[o] = k
      BY <1>6, <3>1, <3>3, <3>4, <3>6
    <3>7. QED
      BY <3>5, <3>6
  <2>3. QED
    BY <1>8, <2>1, <2>2
<1>15. Indexed(r)
  BY <1>9, <1>10, <1>11, <1>12, <1>13, <1>14 DEF Indexed
<1>16. QED
  BY <1>1, <1>6, <1>9, <1>15 DEF stored

\* StoreLock's database before the new lock is written: no other lock of the transaction,
\* unless more than one is not deterministic.
LEMMA MakeWayProperty ==
  ASSUME IInv, w.pc = "store", \A k \in GetInstantSendLockByTxid(db, w.lock.txid) : ~k.det
  PROVE  LET l == w.lock
             same == GetInstantSendLockByTxid(db, l.txid)
             d == IF l.det /\ same # {}
                  THEN RemoveAndArchiveInstantSendLock(db, CHOOSE k \in same : TRUE, Height[tip]) ELSE db
         IN /\ d \in Db /\ Indexed(d) /\ Left(d, db)
            /\ Uncontested(l.txid) => \A k \in d.stored : k.txid # l.txid
<1> DEFINE l == w.lock
           same == GetInstantSendLockByTxid(db, l.txid)
           h == Height[tip]
<1>1. l \in Locks /\ db \in Db /\ Indexed(db) /\ Maps(db) /\ l \notin db.stored /\ h \in Nat
  BY WorkingType, TreeAssumption, MapsType DEF IInv, TypeOK, IndexComplete, WorkerFits, Working
<1>2. \A k \in same : ~k.det
  OBVIOUS
<1> HIDE DEF l, h
<1>3. l.txid \in Txs
  BY <1>1, LockType
<1>4. same \subseteq Locks /\ \A k \in same : k = HashByTxid(db, l.txid)
  BY <1>1 DEF GetInstantSendLockByTxid, Maps
<1>5. ASSUME NEW k \in same PROVE k.txid = l.txid
  <2>1. k \in {db.byTx[l.txid], db.txidCache[l.txid]} \ {None}
    BY <1>4, <1>5, LockType DEF HashByTxid
  <2>2. \A t \in Txs : \A j \in {db.byTx[t], db.txidCache[t]} \ {None} : j.txid = t
    BY <1>1 DEF Indexed
  <2>3. QED
    BY <1>3, <2>1, <2>2
<1>6. ASSUME NEW k \in db.stored, k.txid = l.txid, Uncontested(l.txid) PROVE k \in same
  <2>1. db.byTx[l.txid] = k
    BY <1>1, <1>6 DEF Indexed
  <2>2. k # None
    BY <1>1, <1>6, LockType DEF Maps
  <2>3. QED
    BY <1>6, <2>1, <2>2 DEF GetInstantSendLockByTxid, HashByTxid
<1> HIDE DEF same
<1>7. CASE l.det /\ same # {}
  <2> DEFINE k == CHOOSE k \in same : TRUE
             q == RemoveInstantSendLocks(db, {k})
             r == Archive(q, {k}, h)
  <2>1. RemoveAndArchiveInstantSendLock(db, k, h) = r
    BY DEF RemoveAndArchiveInstantSendLock
  <2>2. k \in same
    BY <1>7
  <2> HIDE DEF k
  <2>3. k \in Locks /\ {k} \in SUBSET Locks /\ k.txid = l.txid /\ \A j \in same : j = k
    BY <1>4, <1>5, <2>2
  <2>4. ASSUME NEW j \in db.stored \ {k}, NEW i \in {k}, Uncontested(j.txid) PROVE j.txid # i.txid
    <3>1. SUFFICES ASSUME j.txid = l.txid PROVE FALSE
      BY <2>3
    <3>2. j \in same
      BY <1>6, <2>4, <3>1
    <3>3. QED
      BY <2>3, <2>4, <3>2
  <2>5. q \in Db /\ Indexed(q) /\ Left(q, db) /\ q.stored = db.stored \ {k}
    BY <1>1, <2>3, <2>4, RemoveIndexed
  <2> HIDE DEF q
  <2>6. r \in Db /\ Indexed(r) /\ r.stored = q.stored /\ r.byIn = q.byIn
    BY <1>1, <2>3, <2>5, ArchiveProperty
  <2> HIDE DEF r
  <2>7. Left(r, db)
    BY <2>5, <2>6, LeftProperty
  <2>8. ASSUME Uncontested(l.txid), NEW j \in r.stored PROVE j.txid # l.txid
    BY <1>6, <2>3, <2>5, <2>6, <2>8
  <2>9. QED
    BY <1>7, <2>1, <2>6, <2>7, <2>8 DEF l, same, k, h
<1>8. CASE ~(l.det /\ same # {})
  <2>1. ASSUME Uncontested(l.txid), NEW k \in db.stored, k.txid = l.txid PROVE FALSE
    <3>1. k \in same /\ k \in Locks
      BY <1>4, <1>6, <2>1
    <3>2. ~k.det /\ ~l.det
      BY <1>2, <1>8, <3>1 DEF same
    <3>3. k = l
      BY <1>1, <2>1, <3>1, <3>2 DEF Uncontested
    <3>4. QED
      BY <1>1, <2>1, <3>3
  <2>2. QED
    BY <1>1, <1>8, <2>1, LeftProperty DEF l, same
<1>9. QED
  BY <1>7, <1>8

LEMMA StoreStep ==
  ASSUME IInv, StoreLock
  PROVE  IInv'
<1> DEFINE l == w.lock
           same == GetInstantSendLockByTxid(db, l.txid)
           d == IF l.det /\ same # {}
                THEN RemoveAndArchiveInstantSendLock(db, CHOOSE k \in same : TRUE, Height[tip]) ELSE db
           mark == {[lock |-> l, height |-> Height[b]] : b \in {w.at} \ {None}}
           new == WriteNewInstantSendLock(d, l)
<1>1. w.pc = "store" /\ UNCHANGED <<chain, queue, cb, txindex, pending>>
  BY DEF StoreLock
<1>2. w \in Working /\ TypeOK
  BY <1>1, WorkingType DEF IInv
<1>3. CASE \E k \in same : k.det
  <2>1. w' = IdleWorker /\ UNCHANGED <<db, noTx, nonLocked>>
    BY <1>3 DEF StoreLock
  <2>2. TypeOK'
    BY <1>1, <1>2, <2>1, SameTypes DEF TypeOK, chain
  <2>3. KnownClosed' /\ IndexComplete' /\ WorkerFits' /\ MempoolAgreesWithLocks'
    BY <1>1, <2>1 DEF IInv, chain, KnownClosed, IndexComplete, Indexed, WorkerFits, IdleWorker,
                      MempoolAgreesWithLocks
  <2>4. MempoolAgreesWithChain'
    BY <1>1, ChainAgreement, ChainAgreementNext DEF IInv, chain
  <2>5. QED
    BY <2>2, <2>3, <2>4 DEF IInv
<1>4. CASE ~\E k \in same : k.det
  <2>1. /\ db' = IF w.found THEN [new EXCEPT !.mined = new.mined \cup mark] ELSE d
        /\ noTx' = IF w.found THEN noTx ELSE noTx \cup {l}
        /\ nonLocked' = RemoveNonLockedTx(nonLocked, l.txid)
        /\ w' = [w EXCEPT !.pc = "resolve", !.at = None]
    BY <1>4 DEF StoreLock
  <2>2. /\ d \in Db /\ Indexed(d) /\ Left(d, db)
        /\ Uncontested(l.txid) => \A k \in d.stored : k.txid # l.txid
    BY <1>1, <1>4, MakeWayProperty
  <2> HIDE DEF d
  <2>3. l \in Locks /\ w.at \in known \cup {None} /\ known \subseteq Blocks
    BY <1>2 DEF Working, TypeOK
  <2>4. /\ new \in Db /\ Indexed(new) /\ new.stored = d.stored \cup {l}
        /\ \A o \in Outpoints : new.byIn[o] = l \/ new.byIn[o] = d.byIn[o]
    BY <2>2, <2>3, WriteProperty
  <2> HIDE DEF new
  <2> DEFINE ms == new.mined \cup mark
  <2>5. ms \in SUBSET [lock : Locks, height : Nat]
    BY <2>3, <2>4, TreeAssumption, SMTT(30) DEF Db
  <2> HIDE DEF ms
  <2> DEFINE x == [new EXCEPT !.mined = ms]
  <2>6. x \in Db /\ Indexed(x) /\ x.stored = new.stored /\ x.byIn = new.byIn
    BY <2>4, <2>5, MinedType
  <2>7. db' = IF w.found THEN x ELSE d
    BY <2>1 DEF ms
  <2> HIDE DEF x
  <2>8. l \notin db.stored
    BY <1>1 DEF IInv, WorkerFits
  <2>9. /\ db' \in Db /\ Indexed(db') /\ (~w.found => l \notin db'.stored)
        /\ \A o \in Outpoints : db'.byIn[o] \in {None, l, db.byIn[o]}
    <3>1. CASE w.found
      BY <2>2, <2>4, <2>6, <2>7, <3>1 DEF Left
    <3>2. CASE ~w.found
      BY <2>2, <2>7, <2>8, <3>2 DEF Left
    <3>3. QED
      BY <3>1, <3>2
  <2>10. w' \in Working /\ w'.pc = "resolve" /\ w'.lock = l /\ w'.found = w.found
    BY <1>2, <2>1 DEF Working
  <2>11. nonLocked' \in NonLocked
    BY <1>2, <2>1, RemoveNonLockedType DEF RemoveNonLockedTx, TypeOK
  <2> HIDE DEF mark
  <2>12. noTx' \subseteq Locks
    BY <1>2, <2>1, <2>3 DEF TypeOK
  <2>13. TypeOK'
    BY <1>1, <1>2, <2>9, <2>10, <2>11, <2>12, SameTypes DEF TypeOK, chain, Working
  <2>14. KnownClosed' /\ WorkerFits'
    BY <1>1, <2>9, <2>10 DEF IInv, chain, KnownClosed, WorkerFits
  <2>15. IndexComplete'
    BY <2>9 DEF IndexComplete, Indexed
  <2>16. MempoolAgreesWithLocks'
    <3>1. SUFFICES ASSUME NEW o \in Outpoints, NEW t \in mempool, db'.byIn[o] # None,
                          o \in Spends[t], db'.byIn[o].txid # t
                   PROVE  l = db'.byIn[o]
      BY <1>1, <2>10 DEF MempoolAgreesWithLocks, chain
    <3>2. SUFFICES ASSUME db'.byIn[o] = db.byIn[o] PROVE FALSE
      BY <2>9, <3>1
    <3>3. QED
      BY <1>1, <3>1, <3>2 DEF IInv, MempoolAgreesWithLocks
  <2>17. MempoolAgreesWithChain'
    BY <1>1, ChainAgreement, ChainAgreementNext DEF IInv, chain
  <2>18. QED
    BY <2>13, <2>14, <2>15, <2>16, <2>17 DEF IInv
<1>5. QED
  BY <1>3, <1>4

LEMMA FindStep ==
  ASSUME IInv, FindConflicts
  PROVE  IInv'
<1> DEFINE foes == {[tx |-> t, block |-> nonLocked.info[t].mined] : t \in Competitors(w.lock)}
           lost == \E f \in foes : HasChainLock(f.block)
           h == Height[tip]
           r == RemoveChainedInstantSendLocks(db, w.lock, h)
<1>1. /\ w.pc = "resolve" /\ UNCHANGED <<chain, queue, cb, txindex, pending, noTx, nonLocked>>
      /\ db' = IF lost THEN r ELSE db
      /\ \/ w' = AfterResolve
         \/ w' = [w EXCEPT !.pc = "invalidate", !.foes = foes, !.unknown = w.lock \in noTx] /\ db' = db
  BY DEF FindConflicts
<1>2. w \in Working /\ TypeOK /\ db \in Db /\ Indexed(db) /\ h \in Nat /\ nonLocked \in NonLocked
  BY <1>1, WorkingType, TreeAssumption DEF IInv, TypeOK, IndexComplete
<1>3. w.lock \in Locks
  BY <1>2 DEF Working
<1>4. foes \in SUBSET [tx : Txs, block : Received]
  <2>1. ASSUME NEW t \in Competitors(w.lock)
        PROVE  t \in Txs /\ nonLocked.info[t].mined \in Received
    <3>1. Spends[w.lock.txid] \subseteq Outpoints
      BY <1>3, LockType
    <3>2. t \in Txs
      BY <1>2, <3>1, <2>1, SMTT(30) DEF Competitors, NonLocked
    <3>3. QED
      BY <1>2, <3>2, <2>1 DEF Competitors, NonLocked
  <2>2. QED
    BY <2>1, SMTT(30)
<1> HIDE DEF foes, lost, h
<1>5. r \in Db /\ Indexed(r) /\ Left(r, db)
  <2>1. Pruned(r, db)
    BY <1>2, <1>3, ChainedProperty
  <2>2. QED
    BY <2>1 DEF Pruned
<1> HIDE DEF r
<1>6. db' \in Db /\ Indexed(db') /\ Left(db', db)
  BY <1>1, <1>2, <1>5, LeftProperty
<1>7. /\ w' \in {IdleWorker} \cup Working
      /\ \/ w'.lock = w.lock /\ w'.pc \in {"invalidate", "clear"} /\ w'.found = w.found
         \/ w' = IdleWorker /\ w.lock \notin db.stored
  <2>1. CASE w' = AfterResolve
    <3>1. w.found \in BOOLEAN
      BY <1>2 DEF Working
    <3>2. CASE w.found
      <4>1. w' \in {IdleWorker} \cup Working /\ w'.pc = "clear" /\ w'.lock = w.lock
        BY <1>1, <2>1, <3>2, AfterResolveProperty
      <4>2. w' = [w EXCEPT !.pc = "clear", !.foes = {}, !.unknown = FALSE]
        BY <2>1, <3>2 DEF AfterResolve
      <4>3. w'.found = w.found
        BY <1>2, <4>2 DEF Working
      <4>4. QED
        BY <4>1, <4>3
    <3>3. CASE ~w.found
      BY <1>1, <2>1, <3>3, AfterResolveProperty
    <3>4. QED
      BY <3>2, <3>3
  <2>2. CASE w' = [w EXCEPT !.pc = "invalidate", !.foes = foes, !.unknown = w.lock \in noTx]
    <3> DEFINE u == w.lock \in noTx
    <3>1. u \in BOOLEAN
      BY SMTT(30)
    <3>2. w' = [w EXCEPT !.pc = "invalidate", !.foes = foes, !.unknown = u]
      BY <2>2
    <3> HIDE DEF u
    <3>3. QED
      BY <1>2, <1>4, <3>1, <3>2 DEF Working
  <2>3. QED
    BY <1>1, <2>1, <2>2
<1>8. TypeOK'
  BY <1>1, <1>2, <1>6, <1>7, SameTypes DEF TypeOK, chain, Working
<1>9. KnownClosed' /\ WorkerFits'
  BY <1>1, <1>6, <1>7, SMTT(30) DEF IInv, chain, KnownClosed, WorkerFits, IdleWorker, Left
<1>10. MempoolAgreesWithLocks'
  <2>1. SUFFICES ASSUME NEW o \in Outpoints, NEW t \in mempool, db'.byIn[o] # None,
                        o \in Spends[t], db'.byIn[o].txid # t
                 PROVE  w'.lock = db'.byIn[o] /\ w'.pc \in {"resolve", "invalidate", "clear"}
    BY <1>1 DEF MempoolAgreesWithLocks, chain
  <2>2. db'.byIn[o] = db.byIn[o] /\ db.byIn[o] \in db.stored
    BY <1>2, <1>6, <2>1 DEF Left, Indexed
  <2>3. w.lock = db.byIn[o]
    BY <2>1, <2>2 DEF IInv, MempoolAgreesWithLocks
  <2>4. QED
    BY <1>7, <2>2, <2>3
<1>11. IndexComplete'
  BY <1>6 DEF IndexComplete, Indexed
<1>12. MempoolAgreesWithChain'
  BY <1>1, ChainAgreement, ChainAgreementNext DEF IInv, chain
<1>13. QED
  BY <1>8, <1>9, <1>10, <1>11, <1>12 DEF IInv

\* InvalidateBlock goes down to a block of the active chain.
LEMMA InvalidateTarget ==
  ASSUME IInv, w.pc = "invalidate"
  PROVE  LET bad == {f.block : f \in w.foes}
         IN bad \subseteq known /\ Highest({a \in Chain[tip] : Chain[a] \cap bad = {}}) \in Chain[tip]
<1> DEFINE bad == {f.block : f \in w.foes}
           S == {a \in Chain[tip] : Chain[a] \cap bad = {}}
<1>1. bad \subseteq Received /\ tip \in Blocks
  BY WorkingType, SMTT(30) DEF IInv, TypeOK, Working
<1>2. Genesis \in S
  BY <1>1, OwnChain, TreeAssumption DEF Received
<1>3. S \in SUBSET Chain[tip] /\ S # {}
  BY <1>2
<1> HIDE DEF S
<1>4. Highest(S) \in S
  BY <1>1, <1>3, HighestProperty
<1>5. QED
  BY <1>1, <1>3, <1>4 DEF S, Received

LEMMA InvalidateStep ==
  ASSUME IInv, InvalidateConflicts
  PROVE  IInv'
<1> DEFINE bad == {f.block : f \in w.foes}
           top == Highest({a \in Chain[tip] : Chain[a] \cap bad = {}})
           end == DisconnectTo(top)
<1>1. /\ w.pc = "invalidate" /\ UNCHANGED <<known, best, notified, cb, txindex, pending, noTx, db>>
      /\ tip' = top /\ mempool' = end.mp /\ queue' = queue \o end.added
      /\ nonLocked' = RemoveNonLockedTxs(nonLocked, {f.tx : f \in w.foes})
      /\ \/ failed' = Reconsidered(bad) /\ activate' = activate
         \/ failed' = failed \cup bad \cup (Chain[tip] \ Chain[top]) /\ activate' \in BOOLEAN
      /\ w' = AfterResolve
  BY DEF InvalidateConflicts
<1>2. bad \subseteq known /\ top \in Chain[tip]
  BY <1>1, InvalidateTarget
<1> HIDE DEF bad, top
<1>3. /\ TypeOK /\ KnownClosed /\ PoolFits(mempool, tip, {}) /\ Chain[tip] \subseteq known
      /\ db \in Db /\ Indexed(db) /\ queue \in Seq(Notes)
  BY ChainAgreement DEF IInv, TypeOK, KnownClosed, IndexComplete
<1>4. /\ end.mp \in SUBSET Txs /\ end.added \in Seq(Notes) /\ PoolFits(end.mp, top, {})
      /\ \A u \in end.mp : u \in mempool \/ GetConflictingLock(db, u) = {}
  BY <1>2, <1>3, DisconnectToProperty
<1> HIDE DEF end
<1>5. queue' \in Seq(Notes)
  BY <1>1, <1>3, <1>4, SMTT(30)
<1>6. failed' \subseteq known /\ activate' \in BOOLEAN
  BY <1>1, <1>2, <1>3 DEF Reconsidered, TypeOK
<1>7. nonLocked' \in NonLocked
  BY <1>1, <1>3, RemoveNonLockedType DEF TypeOK
<1>8. /\ w' \in {IdleWorker} \cup Working
      /\ \/ w'.lock = w.lock /\ w'.pc = "clear" /\ w'.found
         \/ w' = IdleWorker /\ w.lock \notin db.stored
  BY <1>1, AfterResolveProperty
<1>9. TypeOK'
  BY <1>1, <1>2, <1>3, <1>4, <1>5, <1>6, <1>7, <1>8, SameTypes DEF TypeOK, Working
<1>10. KnownClosed' /\ IndexComplete'
  BY <1>1, <1>3 DEF KnownClosed, IndexComplete, Indexed
<1>11. WorkerFits'
  BY <1>8, SMTT(30) DEF WorkerFits, IdleWorker
<1>12. MempoolAgreesWithLocks'
  <2>1. SUFFICES ASSUME NEW o \in Outpoints, NEW t \in mempool', db.byIn[o] # None,
                        o \in Spends[t], db.byIn[o].txid # t
                 PROVE  w'.lock = db.byIn[o] /\ w'.pc = "clear"
    BY <1>1 DEF MempoolAgreesWithLocks
  <2>2. t \in Txs
    BY <1>1, <1>4
  <2>3. db.byIn[o] \in GetConflictingLock(db, t)
    BY <1>3, <2>1, <2>2, ConflictFound
  <2>4. t \in mempool /\ db.byIn[o] \in db.stored
    BY <1>1, <1>3, <1>4, <2>1, <2>3 DEF Indexed
  <2>5. w.lock = db.byIn[o]
    BY <2>1, <2>4 DEF IInv, MempoolAgreesWithLocks
  <2>6. QED
    BY <1>8, <2>4, <2>5
<1>13. MempoolAgreesWithChain'
  BY <1>1, <1>4, ChainAgreementNext
<1>14. QED
  BY <1>9, <1>10, <1>11, <1>12, <1>13 DEF IInv

LEMMA ClearStep ==
  ASSUME IInv, ClearMempool
  PROVE  IInv'
<1> DEFINE bad == Conflicts(w.lock.txid) \cap mempool
           X == WithDescendants(bad, mempool)
<1>1. /\ w.pc = "clear" /\ mempool' = mempool \ X /\ nonLocked' = RemoveNonLockedTxs(nonLocked, bad)
      /\ w' = IdleWorker
      /\ UNCHANGED <<known, tip, failed, activate, best, notified, queue, cb, txindex, pending, noTx, db>>
  BY DEF ClearMempool, RemoveMempoolConflicts
<1>2. bad \subseteq X
  BY DescendantsProperty
<1>3. PoolFits(mempool \ X, tip, {})
  BY ClearFits
<1> HIDE DEF X
<1>4. nonLocked' \in NonLocked
  BY <1>1, RemoveNonLockedType DEF IInv, TypeOK
<1>5. TypeOK'
  BY <1>1, <1>4, SameTypes DEF IInv, TypeOK
<1>6. KnownClosed' /\ IndexComplete' /\ WorkerFits'
  BY <1>1 DEF IInv, KnownClosed, IndexComplete, Indexed, WorkerFits, IdleWorker
<1>7. MempoolAgreesWithLocks'
  <2>1. SUFFICES ASSUME NEW o \in Outpoints, NEW t \in mempool', db.byIn[o] # None,
                        o \in Spends[t], db.byIn[o].txid # t
                 PROVE  FALSE
    BY <1>1 DEF MempoolAgreesWithLocks
  <2>2. w.lock = db.byIn[o] /\ t \in mempool /\ t \in Txs
    BY <1>1, <2>1 DEF IInv, MempoolAgreesWithLocks, TypeOK
  <2>3. o \in Spends[w.lock.txid]
    BY <2>1, <2>2 DEF IInv, IndexComplete, Indexed
  <2>4. t \in bad
    BY <2>1, <2>2, <2>3 DEF Conflicts
  <2>5. QED
    BY <1>1, <1>2, <2>1, <2>4
<1>8. MempoolAgreesWithChain'
  BY <1>1, <1>3, ChainAgreementNext
<1>9. QED
  BY <1>5, <1>6, <1>7, <1>8 DEF IInv
-----------------------------------------------------------------------------
(* The results *)

LEMMA InitIInv == Init => IInv
<1> SUFFICES ASSUME Init PROVE IInv
  OBVIOUS
<1> USE DEF Init
<1>1. db \in Db /\ nonLocked \in NonLocked
  BY DEF Db, NonLocked, NoInfo
<1>2. TypeOK
  <2>1. queue \in Seq(Notes)
    BY SMTT(30)
  <2>2. QED
    BY <1>1, <2>1, TreeAssumption DEF TypeOK
<1>3. KnownClosed
  BY TreeAssumption DEF KnownClosed
<1>4. IndexComplete
  BY DEF IndexComplete, Indexed
<1>5. WorkerFits /\ MempoolAgreesWithLocks /\ MempoolAgreesWithChain
  BY DEF WorkerFits, MempoolAgreesWithLocks, MempoolAgreesWithChain
<1>6. QED
  BY <1>2, <1>3, <1>4, <1>5 DEF IInv

LEMMA NextIInv == IInv /\ [Next]_vars => IInv'
<1> SUFFICES ASSUME IInv, [Next]_vars PROVE IInv'
  OBVIOUS
<1>1. CASE UNCHANGED vars
  <2>1. TypeOK'
    BY <1>1, SameTypes DEF IInv, TypeOK, vars, chain
  <2>2. Left(db', db) /\ Indexed(db') /\ w' = w /\ UNCHANGED chain
    BY <1>1, LeftProperty DEF IInv, IndexComplete, vars
  <2>3. QED
    BY <2>1, <2>2, QuietStep
<1>2. CASE \E t \in Relayed : AcceptToMemoryPool(t)
  BY <1>2, AcceptStep
<1>3. CASE \E b \in Blocks : ProcessNewBlock(b) \/ ActivateBestChain(b)
  BY <1>3, NewBlockStep, ActivateStep
<1>4. CASE (\E b \in ClBlocks : ProcessNewChainLock(b)) \/ NotifyChainLock
  BY <1>4, ChainLockStep
<1>5. CASE EnforceBestChainLock
  BY <1>5, EnforceStep
<1>6. CASE Scheduler
  BY <1>6, DeliverTxStep, SchedulerStep, ConfirmedStep DEF Scheduler
<1>7. CASE \E l \in Locks : ProcessMessageInstantSendLock(l) \/ Evict(l)
  BY <1>7, LockStep
<1>8. CASE Worker
  BY <1>8, LookupStep, StoreStep, FindStep, InvalidateStep, ClearStep DEF Worker
<1>9. QED
  BY <1>1, <1>2, <1>3, <1>4, <1>5, <1>6, <1>7, <1>8 DEF Next

\* The invariant on which the results rest.
THEOREM Inductive == Spec => []IInv
<1>1. Init => IInv
  BY InitIInv
<1>2. IInv /\ [Next]_vars => IInv'
  BY NextIInv
<1>3. QED
  BY <1>1, <1>2, PTL DEF Spec

\* The node's state stays well formed for every tree of blocks and every set of
\* transactions: only received blocks become active.
THEOREM TypeCorrect == Spec => []TypeOK
<1>1. IInv => TypeOK
  BY DEF IInv
<1>2. QED
  BY <1>1, Inductive, PTL

\* Whichever thread stored, replaced, pruned, confirmed or archived locks last, and
\* whichever locks the quorums sign, the records of CInstantSendDb agree: none outlives
\* its lock, and a lock that has no rival is found over all its keys.
THEOREM DatabaseIndexed == Spec => []IndexComplete
<1>1. IInv => IndexComplete
  BY DEF IInv
<1>2. QED
  BY <1>1, Inductive, PTL

\* AcceptToMemoryPool, UpdateMempoolForReorg and RemoveMempoolConflictsForLock together
\* keep competitors of the locks on record out of the mempool, also where rival locks
\* of an outpoint replace each other.
THEOREM MempoolRespectsLocks == Spec => []MempoolAgreesWithLocks
<1>1. IInv => MempoolAgreesWithLocks
  BY DEF IInv
<1>2. QED
  BY <1>1, Inductive, PTL

\* Through every reorganisation, invalidation and pruning the mempool could be mined on
\* top of the active tip.
THEOREM MempoolMinable == Spec => []MempoolAgreesWithChain
<1>1. IInv => MempoolAgreesWithChain
  BY DEF IInv
<1>2. QED
  BY <1>1, Inductive, PTL

\* Only ActivateBestChain connects blocks.
LEMMA OnlyActivationConnects ==
  ASSUME IInv, [Next]_vars, ~\E b \in Blocks : ActivateBestChain(b)
  PROVE  Chain[tip'] \subseteq Chain[tip]
<1>1. tip \in Blocks /\ best \in Blocks
  BY DEF IInv, TypeOK
<1>2. CASE EnforceBestChainLock
  BY <1>1, <1>2, OwnChain, ForkProperty, ChainTransitive DEF EnforceBestChainLock
<1>3. CASE InvalidateConflicts
  BY <1>1, <1>3, InvalidateTarget, ChainTransitive DEF InvalidateConflicts
<1>4. CASE ~EnforceBestChainLock /\ ~InvalidateConflicts
  BY <1>4 DEF Next, vars, chain, AcceptToMemoryPool, ProcessNewBlock, ProcessNewChainLock, NotifyChainLock,
     Scheduler, DeliverTx, TrackTx, DeliverBlock, TrackBlock, IndexBlock, BlockDisconnected,
     HandleFullyConfirmedBlock, ProcessMessageInstantSendLock, Evict, Worker, LookupTx, StoreLock,
     FindConflicts, ClearMempool
<1>5. QED
  BY <1>2, <1>3, <1>4

\* A connected block contradicts no lock on record, and no child of a pruned lock is left.
LEMMA OverruledStep ==
  ASSUME IInv, [Next]_vars, NEW a \in Chain[tip'] \ Chain[tip]
  PROVE  /\ \A t \in SeqTxs(a) : Free(db', t, Spends[t])
         /\ \A l \in db.stored \ db'.stored, o \in Outpoints : Creator[o] = l.txid => db'.byIn[o] = None
<1>1. PICK b \in Blocks : ActivateBestChain(b)
  BY OnlyActivationConnects
<1> DEFINE fork == FindFork(b, tip)
           enough == Highest({x \in Chain[b] \ Chain[tip] : Work[Parent[x]] <= Work[tip]})
           end == ConnectTo(enough, fork)
<1>2. b \in Candidates /\ tip' = end.top /\ db' = end.db
  BY <1>1 DEF ActivateBestChain
<1>3. fork \in Chain[tip] /\ AttemptFits(end, fork, enough)
  BY <1>2, ActivateProperty
<1> HIDE DEF fork, enough, end
<1>4. a \in Chain[end.top] \ Chain[fork]
  <2>1. Chain[fork] \subseteq Chain[tip]
    BY <1>3, ChainTransitive DEF IInv, TypeOK
  <2>2. QED
    BY <1>2, <2>1
<1>5. QED
  BY <1>2, <1>3, <1>4 DEF AttemptFits, Pruned

\* A block is connected only when ConnectBlock has pruned the lock on record for every
\* outpoint that it spends in another way, and with a lock those on record for the
\* outputs of its transaction, down the chain.
THEOREM LocksOverruledTogether == Spec => OverruledTogether
<1> DEFINE A == \A b \in Chain[tip'] \ Chain[tip] :
                  /\ \A t \in SeqTxs(b), o \in Outpoints :
                       o \in Spends[t] /\ db'.byIn[o] # None => db'.byIn[o].txid = t
                  /\ \A l \in db.stored \ db'.stored, o \in Outpoints :
                       Creator[o] = l.txid => db'.byIn[o] = None
<1>1. IInv /\ [Next]_vars => [A]_vars
  BY OverruledStep DEF Free
<1>2. QED
  BY <1>1, Inductive, PTL DEF Spec, OverruledTogether
=============================================================================
