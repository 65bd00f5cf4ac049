---------------------- MODULE QuorumCommitmentsProofs ----------------------
(***************************************************************************)
(* QuorumCommitments, for all quorums and commitments and every mining     *)
(* window: the pool's two maps fit together, what is undone can be mined   *)
(* again, and for every quorum of which no overtaken answer was cached the *)
(* database follows the chain, which has one commitment of it.             *)
(***************************************************************************)
EXTENDS QuorumCommitments, TLAPS

\* The prover of all steps that name no other.
USE ZenonT(20)

\* The inductive invariant behind the types and the pool.
IInv == TypeOK /\ PoolIsComplete /\ Framed

\* What AddMineableCommitment does to the pool: the commitments it adds are
\* known afterwards, or better ones.
LEMMA AddPool ==
  ASSUME TypeOK, PoolIsComplete, NEW S \in SUBSET Real(Commitments), AddMineableCommitment(S)
  PROVE  /\ byQuorum' \in [Quorums -> Real(Commitments) \cup {None}]
         /\ minable' \subseteq Real(Commitments)
         /\ PoolIsComplete'
         /\ \A qc \in S : byQuorum'[qc.quorum] # None /\ byQuorum'[qc.quorum].signers >= qc.signers
<1> DEFINE new == {qc \in S : \/ byQuorum[qc.quorum] = None
                              \/ byQuorum[qc.quorum].signers < qc.signers}
           best == {qc \in new : \A x \in new : x.quorum = qc.quorum => x.signers <= qc.signers}
<1>1. PICK entered \in SUBSET new :
        /\ \A qc \in new : \E x \in best \cap entered : x.quorum = qc.quorum
        /\ minable' = minable \cup entered
        /\ byQuorum' = [q \in Quorums |-> IF \E qc \in new : qc.quorum = q
                                            THEN CHOOSE qc \in best \cap entered : qc.quorum = q
                                            ELSE byQuorum[q]]
  BY DEF AddMineableCommitment
<1>2. new \subseteq Real(Commitments) /\ best \subseteq new
  OBVIOUS
<1>3. \A qc \in best, x \in new : x.quorum = qc.quorum => x.signers <= qc.signers
  OBVIOUS
<1>4. \A qc \in S : qc \notin new =>
        byQuorum[qc.quorum] # None /\ ~(byQuorum[qc.quorum].signers < qc.signers)
  OBVIOUS
<1> HIDE DEF new, best
<1>5. ASSUME NEW q \in Quorums
      PROVE  \/ byQuorum'[q] \in best \cap entered /\ byQuorum'[q].quorum = q
             \/ byQuorum'[q] = byQuorum[q] /\ \A qc \in new : qc.quorum # q
  <2>1. CASE \E qc \in new : qc.quorum = q
    <3>1. \E x \in best \cap entered : x.quorum = q
      BY <1>1, <2>1
    <3>2. byQuorum'[q] = CHOOSE qc \in best \cap entered : qc.quorum = q
      BY <1>1, <2>1
    <3> QED
      BY <3>1, <3>2
  <2>2. CASE ~\E qc \in new : qc.quorum = q
    BY <1>1, <2>2
  <2> QED
    BY <2>1, <2>2
<1>6. byQuorum' \in [Quorums -> Real(Commitments) \cup {None}]
  <2> DEFINE Known(q) == IF \E qc \in new : qc.quorum = q
                           THEN CHOOSE qc \in best \cap entered : qc.quorum = q
                           ELSE byQuorum[q]
  <2>1. byQuorum' = [q \in Quorums |-> Known(q)]
    BY <1>1
  <2> HIDE DEF Known
  <2>2. \A q \in Quorums : byQuorum'[q] \in Real(Commitments) \cup {None}
    BY <1>2, <1>5 DEF TypeOK
  <2> QED
    BY <2>1, <2>2
<1>7. minable' \subseteq Real(Commitments)
  BY <1>1, <1>2 DEF TypeOK
<1>8. PoolIsComplete'
  BY <1>1, <1>5 DEF PoolIsComplete
<1>9. ASSUME NEW qc \in S
      PROVE  byQuorum'[qc.quorum] # None /\ byQuorum'[qc.quorum].signers >= qc.signers
  <2>1. qc \in Commitments /\ qc.quorum \in Quorums /\ qc.signers \in Nat
    BY CommitmentsAssumption DEF Real
  <2>2. \A x \in Real(Commitments) : x \in Commitments /\ x # None /\ x.signers \in Nat
    BY CommitmentsAssumption, NoneAssumption DEF Real
  <2>3. CASE qc \in new
    <3>1. byQuorum'[qc.quorum] \in best /\ byQuorum'[qc.quorum].quorum = qc.quorum
      BY <1>5, <2>1, <2>3
    <3>2. byQuorum'[qc.quorum] \in Real(Commitments) /\ qc.signers <= byQuorum'[qc.quorum].signers
      BY <1>2, <1>3, <2>3, <3>1
    <3> QED
      BY <2>1, <2>2, <3>2, SMTT(30)
  <2>4. CASE qc \notin new
    <3>1. byQuorum[qc.quorum] # None /\ ~(byQuorum[qc.quorum].signers < qc.signers)
      BY <1>4, <2>4
    <3>2. byQuorum[qc.quorum] \in Real(Commitments)
      BY <2>1, <3>1 DEF TypeOK
    <3>3. CASE byQuorum'[qc.quorum] = byQuorum[qc.quorum]
      BY <2>1, <2>2, <3>1, <3>2, <3>3, SMTT(30)
    <3>4. CASE byQuorum'[qc.quorum] \in best \cap entered /\ byQuorum'[qc.quorum].quorum = qc.quorum
      <4>1. byQuorum'[qc.quorum] \in Real(Commitments)
        BY <1>2, <3>4
      <4>2. byQuorum[qc.quorum].signers < byQuorum'[qc.quorum].signers
        BY <1>2, <3>1, <3>4 DEF new
      <4> QED
        BY <2>1, <2>2, <3>1, <3>2, <4>1, <4>2, SMTT(30)
    <3> QED
      BY <1>5, <2>1, <3>3, <3>4
  <2> QED
    BY <2>3, <2>4
<1> QED
  BY <1>6, <1>7, <1>8, <1>9

\* Answers about mined commitments are Booleans.
LEMMA CachedType ==
  ASSUME TypeOK, NEW S
  PROVE  /\ Cached(S) \in [Quorums -> BOOLEAN \cup {None}]
         /\ Invalidated(S) \in [Quorums -> BOOLEAN \cup {None}]
<1>1. \A q \in Quorums : HasMinedCommitment(q) \in BOOLEAN
  BY DEF HasMinedCommitment, TypeOK
<1> QED
  BY <1>1 DEF Cached, Invalidated, TypeOK

\* The database stays one when a commitment is written or erased.
LEMMA DatabaseType ==
  ASSUME TypeOK
  PROVE  /\ \A qc \in Commitments, h \in Heights : Stored(qc, h) \in Databases
         /\ \A b, h : Erased(b, h) \in Databases
<1>1. ASSUME NEW qc \in Commitments, NEW h \in Heights PROVE Stored(qc, h) \in Databases
  <2>1. qc.quorum \in Quorums
    BY CommitmentsAssumption
  <2>2. db.mined \in [Quorums -> [qc : Commitments, height : Heights] \cup {None}]
          /\ db.byHeight \subseteq Quorums \X Heights
    BY DEF TypeOK, Databases
  <2>3. [qc |-> qc, height |-> h] \in [qc : Commitments, height : Heights]
    OBVIOUS
  <2>4. [db.mined EXCEPT ![qc.quorum] = [qc |-> qc, height |-> h]]
          \in [Quorums -> [qc : Commitments, height : Heights] \cup {None}]
    BY <2>1, <2>2, <2>3
  <2>5. db.byHeight \cup {<<qc.quorum, h>>} \in SUBSET (Quorums \X Heights)
    BY <2>1, <2>2, SMTT(30)
  <2> QED
    BY <2>4, <2>5 DEF Stored, Databases
<1>2. ASSUME NEW b, NEW h PROVE Erased(b, h) \in Databases
  <2>1. db.mined \in [Quorums -> [qc : Commitments, height : Heights] \cup {None}]
          /\ db.byHeight \subseteq Quorums \X Heights
    BY DEF TypeOK, Databases
  <2>2. [q \in Quorums |-> IF q \in QuorumsOf(b) THEN None ELSE db.mined[q]]
          \in [Quorums -> [qc : Commitments, height : Heights] \cup {None}]
    BY <2>1
  <2>3. db.byHeight \ {<<q, h>> : q \in QuorumsOf(b)} \in SUBSET (Quorums \X Heights)
    BY <2>1
  <2> QED
    BY <2>2, <2>3 DEF Erased, Databases
<1> QED
  BY <1>1, <1>2

\* A sequence cut after its first n elements.
LEMMA Prefix ==
  ASSUME NEW S, NEW c \in Seq(S), NEW n \in Nat, n < Len(c)
  PROVE  /\ SubSeq(c, 1, n) \in Seq(S)
         /\ Len(SubSeq(c, 1, n)) = n
         /\ \A i \in 1..n : SubSeq(c, 1, n)[i] = c[i]
<1>1. SubSeq(c, 1, n) \in Seq(S)
  BY SMTT(30)
<1>2. Len(SubSeq(c, 1, n)) = n
  <2>1. CASE n = 0
    BY <2>1, SMTT(30)
  <2>2. CASE n > 0
    BY <2>2, SMTT(30)
  <2> QED
    BY <2>1, <2>2, SMTT(30)
<1>3. \A i \in 1..n : SubSeq(c, 1, n)[i] = c[i]
  BY SMTT(30)
<1> QED
  BY <1>1, <1>2, <1>3

\* The chain without its last block.
LEMMA ShorterChain ==
  ASSUME TypeOK, Len(chain) > 0, NEW s, s = SubSeq(chain, 1, Len(chain) - 1)
  PROVE  /\ s \in Seq(SUBSET Commitments)
         /\ Len(s) = Len(chain) - 1
         /\ \A i \in 1..(Len(chain) - 1) : s[i] = chain[i]
<1> DEFINE n == Len(chain) - 1
<1>1. chain \in Seq(SUBSET Commitments) /\ n \in Nat /\ n < Len(chain) /\ s = SubSeq(chain, 1, n)
  BY SMTT(30) DEF TypeOK
<1> HIDE DEF n
<1>2. s \in Seq(SUBSET Commitments) /\ Len(s) = n /\ \A i \in 1..n : s[i] = chain[i]
  BY <1>1, Prefix, SMTT(30)
<1> QED
  BY <1>2 DEF n

\* The pool and the types at the start.
LEMMA InitPool == Init => IInv
<1> SUFFICES ASSUME Init PROVE IInv
  OBVIOUS
<1>1. EmptyDb \in Databases
  BY DEF EmptyDb, Databases
<1>2. <<>> \in Seq(SUBSET Commitments) /\ Len(<<>>) = 0
  BY SMTT(30)
<1> QED
  BY <1>1, <1>2, BoundsAssumption, SMTT(30) DEF Init, IInv, TypeOK, PoolIsComplete, Framed

\* One step of the types and the pool.
LEMMA NextPool == IInv /\ [Next]_vars => IInv'
<1> SUFFICES ASSUME TypeOK, PoolIsComplete, Framed, [Next]_vars
             PROVE  TypeOK' /\ PoolIsComplete' /\ Framed'
  BY DEF IInv
<1>0. Framed'
  <2> USE DEF Framed, main, pool, asking
  <2>1. ASSUME NEW b \in SUBSET Commitments, ProcessBlock(b) PROVE Framed'
    BY <2>1, BoundsAssumption, NoneAssumption, SMTT(30) DEF ProcessBlock, TypeOK, Heights
  <2>2. ASSUME NEW qc \in Commitments, ProcessCommitment(qc) PROVE Framed'
    BY <2>2 DEF ProcessCommitment, ProcessReal, Rollback
  <2>3. CASE ConnectTip \/ RejectBlock \/ UndoBlock
    BY <2>3 DEF ConnectTip, RejectBlock, Rollback, UndoBlock, MainIsFree
  <2>4. ASSUME NEW qc \in Real(Commitments), DkgCommitment(qc) \/ ReceiveCommitment(qc) PROVE Framed'
    BY <2>4 DEF DkgCommitment, ReceiveCommitment
  <2>5. ASSUME NEW q \in Quorums, ReaderLooks(q) \/ Evict(q) PROVE Framed'
    BY <2>5 DEF ReaderLooks, Evict
  <2>6. CASE CompareCommitment \/ AddReceived \/ ReaderCaches \/ Restart \/ UNCHANGED vars
    BY <2>6 DEF CompareCommitment, AddReceived, ReaderCaches, Restart, vars
  <2> QED
    BY <2>1, <2>2, <2>3, <2>4, <2>5, <2>6, BoundsAssumption DEF Next
<1> SUFFICES TypeOK' /\ PoolIsComplete'
  BY <1>0
<1> USE DEF pool, main, asking
<1>1. ASSUME NEW b \in SUBSET Commitments, ProcessBlock(b) PROVE TypeOK' /\ PoolIsComplete'
  <2>1. cache' \in [Quorums -> BOOLEAN \cup {None}]
    BY <1>1, CachedType DEF ProcessBlock, TypeOK
  <2>2. (block' = None \/ block' \subseteq Commitments) /\ todo' \subseteq Commitments
    BY <1>1 DEF ProcessBlock, TypeOK
  <2> QED
    BY <1>1, <2>1, <2>2 DEF ProcessBlock, TypeOK, PoolIsComplete
<1>2. ASSUME NEW qc \in Commitments, ProcessCommitment(qc) PROVE TypeOK' /\ PoolIsComplete'
  <2>1. CASE UNCHANGED <<chain, db, base, block, cache, pool>>
    BY <1>2, <2>1 DEF ProcessCommitment, ProcessReal, Rollback, TypeOK, PoolIsComplete
  <2>2. CASE /\ IsAllowed(qc, Len(chain) + 1)
             /\ db' = Stored(qc, Len(chain) + 1)
             /\ cache' = Invalidated({qc.quorum})
             /\ LeavePool(qc)
             /\ todo' = todo \ {qc}
             /\ UNCHANGED <<chain, base, block>>
             /\ Len(chain) + 1 \in Heights
    <3>1. qc.quorum \in Quorums
      BY CommitmentsAssumption
    <3>2. db' \in Databases /\ cache' \in [Quorums -> BOOLEAN \cup {None}]
      BY <2>2, DatabaseType, CachedType
    <3>3. /\ byQuorum' \in [Quorums -> Real(Commitments) \cup {None}]
          /\ minable' \subseteq Real(Commitments)
      BY <2>2, <3>1 DEF LeavePool, TypeOK
    <3>4. PoolIsComplete'
      BY <2>2, <3>1 DEF LeavePool, TypeOK, PoolIsComplete
    <3> QED
      BY <1>2, <2>2, <3>2, <3>3, <3>4 DEF ProcessCommitment, TypeOK
  <2>3. CASE Rollback /\ cache' = Cached({qc.quorum}) /\ UNCHANGED pool
    <3>1. cache' \in [Quorums -> BOOLEAN \cup {None}]
      BY <2>3, CachedType
    <3> QED
      BY <1>2, <2>3, <3>1 DEF Rollback, ProcessCommitment, TypeOK, PoolIsComplete
  <2>4. Len(chain) + 1 \in Heights
    BY <1>2, BoundsAssumption, SMTT(30) DEF ProcessCommitment, Framed, TypeOK, Heights
  <2> QED
    BY <1>2, <2>1, <2>2, <2>3, <2>4 DEF ProcessCommitment, ProcessReal
<1>3. CASE ConnectTip
  <2>1. block \in SUBSET Commitments /\ Len(chain) < MaxHeight
    BY <1>3 DEF ConnectTip, TypeOK, Framed
  <2>2. chain' \in Seq(SUBSET Commitments) /\ Len(chain') = Len(chain) + 1
    BY <1>3, <2>1, SMTT(30) DEF ConnectTip, TypeOK
  <2>3. Len(chain') <= MaxHeight
    BY <2>1, <2>2, BoundsAssumption, SMTT(30) DEF TypeOK
  <2> QED
    BY <1>3, <2>2, <2>3 DEF ConnectTip, TypeOK, PoolIsComplete
<1>4. CASE RejectBlock
  BY <1>4 DEF RejectBlock, Rollback, TypeOK, PoolIsComplete
<1>5. CASE UndoBlock
  <2> DEFINE h == Len(chain)
             b == Real(chain[h])
  <2>1. h \in 1..MaxHeight /\ chain[h] \subseteq Commitments /\ b \subseteq Real(Commitments)
    BY <1>5, SMTT(30) DEF UndoBlock, TypeOK, Real
  <2>2. chain' = SubSeq(chain, 1, h - 1) /\ AddMineableCommitment(b)
    BY <1>5 DEF UndoBlock
  <2>3. chain' \in Seq(SUBSET Commitments) /\ Len(chain') <= MaxHeight
    <3>1. Len(chain) > 0 /\ Len(chain) \in Nat /\ Len(chain) <= MaxHeight
      BY <2>1, SMTT(30) DEF TypeOK
    <3>2. chain' \in Seq(SUBSET Commitments) /\ Len(chain') = Len(chain) - 1
      BY <2>2, <3>1, ShorterChain
    <3> QED
      BY <3>1, <3>2, BoundsAssumption, SMTT(30)
  <2>4. /\ byQuorum' \in [Quorums -> Real(Commitments) \cup {None}]
        /\ minable' \subseteq Real(Commitments)
        /\ PoolIsComplete'
    BY <2>1, <2>2, AddPool
  <2>5. db' \in Databases /\ base' \in Databases /\ cache' \in [Quorums -> BOOLEAN \cup {None}]
    BY <1>5, DatabaseType, CachedType DEF UndoBlock
  <2> QED
    BY <1>5, <2>3, <2>4, <2>5 DEF UndoBlock, TypeOK
<1>6. ASSUME NEW qc \in Real(Commitments), DkgCommitment(qc) PROVE TypeOK' /\ PoolIsComplete'
  <2>1. AddMineableCommitment({qc})
    BY <1>6 DEF DkgCommitment
  <2> QED
    BY <1>6, <2>1, AddPool DEF DkgCommitment, TypeOK
<1>7. ASSUME NEW qc \in Real(Commitments), ReceiveCommitment(qc) PROVE TypeOK' /\ PoolIsComplete'
  <2>1. cache' \in [Quorums -> BOOLEAN \cup {None}]
    BY <1>7, CachedType DEF ReceiveCommitment
  <2>2. net' \in [qc : Real(Commitments), verified : BOOLEAN] \cup {None}
    BY <1>7 DEF ReceiveCommitment
  <2> QED
    BY <1>7, <2>1, <2>2 DEF ReceiveCommitment, TypeOK, PoolIsComplete
<1>8. CASE CompareCommitment
  <2>1. net' \in [qc : Real(Commitments), verified : BOOLEAN] \cup {None}
    BY <1>8 DEF CompareCommitment, TypeOK
  <2> QED
    BY <1>8, <2>1 DEF CompareCommitment, TypeOK, PoolIsComplete
<1>9. CASE AddReceived
  <2>1. AddMineableCommitment({net.qc}) /\ {net.qc} \subseteq Real(Commitments)
    BY <1>9 DEF AddReceived, TypeOK
  <2> QED
    BY <1>9, <2>1, AddPool DEF AddReceived, TypeOK
<1>10. ASSUME NEW q \in Quorums, ReaderLooks(q) PROVE TypeOK' /\ PoolIsComplete'
  <2>1. reader' \in [quorum : Quorums, exists : BOOLEAN] \cup {None}
    BY <1>10 DEF ReaderLooks
  <2> QED
    BY <1>10, <2>1 DEF ReaderLooks, TypeOK, PoolIsComplete
<1>11. ASSUME NEW q \in Quorums, Evict(q) PROVE TypeOK' /\ PoolIsComplete'
  BY <1>11 DEF Evict, TypeOK, PoolIsComplete
<1>12. CASE ReaderCaches
  <2>1. reader.quorum \in Quorums /\ reader.exists \in BOOLEAN
    BY <1>12 DEF ReaderCaches, TypeOK
  <2>2. cache' \in [Quorums -> BOOLEAN \cup {None}] /\ overtaken' \subseteq Quorums
    BY <1>12, <2>1 DEF ReaderCaches, TypeOK
  <2> QED
    BY <1>12, <2>2 DEF ReaderCaches, TypeOK, PoolIsComplete
<1>13. CASE Restart
  BY <1>13 DEF Restart, TypeOK, PoolIsComplete
<1>14. CASE UNCHANGED vars
  BY <1>14 DEF vars, TypeOK, PoolIsComplete
<1> QED
  BY <1>1, <1>2, <1>3, <1>4, <1>5, <1>6, <1>7, <1>8, <1>9, <1>10, <1>11, <1>12, <1>13, <1>14,
     BoundsAssumption DEF Next

\* The state of CQuorumBlockProcessor stays well formed.
THEOREM TypeCorrect == Spec => []TypeOK
BY InitPool, NextPool, PTL DEF Spec, IInv

\* A hash in minableCommitmentsByQuorum always leads to a commitment in
\* minableCommitments.
THEOREM PoolNeverDangles == Spec => []PoolIsComplete
BY InitPool, NextPool, PTL DEF Spec, IInv
-----------------------------------------------------------------------------
(* Chain, database and cache of one quorum *)

\* What is processed of a block belongs to it.
LEMMA DoneType ==
  ASSUME TypeOK
  PROVE  /\ Done \subseteq Commitments
         /\ QuorumsOf(Done) \subseteq Quorums
         /\ \A qc \in Done : ~IsNull(qc)
         /\ \A qc \in Done, h \in Heights : [qc |-> qc, height |-> h] # None
<1>1. Done \subseteq Commitments /\ \A qc \in Done : ~IsNull(qc)
  BY DEF Done, Real, TypeOK
<1>2. \A qc \in Done, h \in Heights : [qc |-> qc, height |-> h] # None
  BY <1>1, NoneAssumption, SMTT(30)
<1> QED
  BY <1>1, <1>2, CommitmentsAssumption DEF QuorumsOf

\* The height at which a block is being connected.
LEMMA NextHeight ==
  ASSUME TypeOK, Framed, block # None
  PROVE  Len(chain) + 1 \in Heights
BY BoundsAssumption, SMTT(30) DEF TypeOK, Framed, Heights

\* Who is told that the quorum has no commitment is told the truth.
LEMMA AnswerNo ==
  ASSUME TypeOK, Framed, NEW q \in Quorums, Ledger(q), ~HasMinedCommitment(q)
  PROVE  q \notin QuorumsOf(Done) /\ base.mined[q] = None
<1>1. CASE cache[q] # None
  <2>1. cache[q] = FALSE
    BY <1>1 DEF HasMinedCommitment, TypeOK
  <2> QED
    BY <2>1 DEF Ledger, Answers
<1>2. CASE cache[q] = None
  <2>1. db.mined[q] = None
    BY <1>2 DEF HasMinedCommitment
  <2>2. ASSUME q \in QuorumsOf(Done) PROVE FALSE
    <3>1. PICK qc \in Done : qc.quorum = q
      BY <2>2 DEF QuorumsOf
    <3>2. block # None
      BY <3>1 DEF Done
    <3>3. db.mined[q] = [qc |-> qc, height |-> Len(chain) + 1]
      BY <3>1 DEF Ledger, Overlay
    <3> QED
      BY <2>1, <3>1, <3>2, <3>3, DoneType, NextHeight
  <2> QED
    BY <2>1, <2>2 DEF Ledger, Overlay
<1> QED
  BY <1>1, <1>2

\* Caching what HasMinedCommitment answers keeps the cache right.
LEMMA CachedRight ==
  ASSUME TypeOK, Framed, NEW q \in Quorums, Ledger(q), NEW S, Cached(S)[q] = FALSE
  PROVE  q \notin QuorumsOf(Done) /\ base.mined[q] = None
<1>1. CASE q \in S
  <2>1. ~HasMinedCommitment(q)
    BY <1>1 DEF Cached
  <2> QED
    BY <2>1, AnswerNo
<1>2. CASE q \notin S
  BY <1>2 DEF Cached, Ledger, Answers
<1> QED
  BY <1>1, <1>2

\* Steps that leave chain, database and block alone.
LEMMA MainUnchanged ==
  ASSUME TypeOK, NEW q \in Quorums, Ledger(q), UNCHANGED main,
         cache'[q] = FALSE => q \notin QuorumsOf(Done) /\ base.mined[q] = None
  PROVE  Ledger(q)'
<1>1. Done' = Done
  BY DEF main, Done
<1>2. BaseMatches(q)'
  BY DEF main, Ledger, BaseMatches
<1>3. Overlay(q)'
  BY <1>1 DEF main, Ledger, Overlay
<1>4. Answers(q)'
  BY <1>1 DEF main, Ledger, Answers
<1> QED
  BY <1>2, <1>3, <1>4 DEF Ledger

\* The genesis chain and the empty database agree.
LEMMA InitLedger ==
  ASSUME Init, NEW q \in Quorums
  PROVE  Ledger(q)
<1>1. Done = {} /\ QuorumsOf(Done) = {} /\ chain = <<>> /\ DOMAIN chain = {}
  BY SMTT(30) DEF Init, Done, QuorumsOf
<1>2. /\ base.mined[q] = None /\ db.mined[q] = None /\ cache[q] = None
      /\ base.byHeight = {} /\ db.byHeight = {}
  BY DEF Init, EmptyDb
<1>3. BaseMatches(q)
  BY <1>1, <1>2 DEF BaseMatches
<1>4. Overlay(q)
  BY <1>1, <1>2 DEF Overlay
<1>5. Answers(q)
  BY <1>1, <1>2, NoneAssumption DEF Answers
<1> QED
  BY <1>3, <1>4, <1>5 DEF Ledger

\* A rolled back block leaves no trace but in the cache.
LEMMA RollbackLedger ==
  ASSUME TypeOK, Framed, NEW q \in Quorums, Ledger(q), Rollback,
         cache'[q] = FALSE => base.mined[q] = None
  PROVE  Ledger(q)'
<1>1. Done' = {} /\ QuorumsOf(Done)' = {}
  BY DEF Rollback, Done, QuorumsOf
<1>2. BaseMatches(q)'
  BY DEF Rollback, Ledger, BaseMatches
<1>3. Overlay(q)'
  BY <1>1 DEF Rollback, Overlay
<1>4. Answers(q)'
  BY <1>1 DEF Rollback, Ledger, Answers
<1> QED
  BY <1>2, <1>3, <1>4 DEF Ledger

\* A commitment, of this or another quorum, is written to the database.
LEMMA StoreLedger ==
  ASSUME TypeOK, Framed, NEW q \in Quorums, Ledger(q),
         NEW qc \in todo, ~IsNull(qc), ~HasMinedCommitment(qc.quorum),
         db' = Stored(qc, Len(chain) + 1), cache' = Invalidated({qc.quorum}), todo' = todo \ {qc},
         UNCHANGED <<chain, base, block>>
  PROVE  Ledger(q)'
<1>1. qc \in Commitments /\ qc.quorum \in Quorums /\ block # None /\ qc \in Real(block)
  BY CommitmentsAssumption DEF Framed, TypeOK, Real
<1>2. Done' = Done \cup {qc}
  BY <1>1 DEF Done
<1>3. QuorumsOf(Done)' = QuorumsOf(Done) \cup {qc.quorum}
  BY <1>2 DEF QuorumsOf
<1>4. qc.quorum = q => q \notin QuorumsOf(Done) /\ base.mined[q] = None
  BY AnswerNo
<1>5. db.mined \in [Quorums -> [qc : Commitments, height : Heights] \cup {None}]
  BY DEF TypeOK, Databases
<1>6. /\ db'.mined[q] = IF qc.quorum = q THEN [qc |-> qc, height |-> Len(chain) + 1] ELSE db.mined[q]
      /\ db'.byHeight = db.byHeight \cup {<<qc.quorum, Len(chain) + 1>>}
  BY <1>1, <1>5 DEF Stored
<1>7. BaseMatches(q)'
  BY DEF Ledger, BaseMatches
<1>8. Overlay(q)'
  <2>1. ASSUME NEW x \in Done', x.quorum = q
        PROVE  base.mined[q] = None /\ db'.mined[q] = [qc |-> x, height |-> Len(chain) + 1]
    <3>1. CASE x = qc
      BY <1>4, <1>6, <2>1, <3>1
    <3>2. CASE x \in Done
      <4>1. q \in QuorumsOf(Done)
        BY <2>1, <3>2 DEF QuorumsOf
      <4> QED
        BY <1>4, <1>6, <2>1, <3>2, <4>1 DEF Ledger, Overlay
    <3> QED
      BY <1>2, <3>1, <3>2
  <2>2. q \notin QuorumsOf(Done)' => db'.mined[q] = base.mined[q]
    BY <1>3, <1>6 DEF Ledger, Overlay
  <2>3. \A h \in Heights :
          <<q, h>> \in db'.byHeight <=>
            <<q, h>> \in base.byHeight \/ (q \in QuorumsOf(Done)' /\ h = Len(chain) + 1)
    BY <1>3, <1>6 DEF Ledger, Overlay
  <2> QED
    BY <2>1, <2>2, <2>3 DEF Overlay
<1>9. Answers(q)'
  <2>1. cache'[q] = FALSE => q # qc.quorum /\ cache[q] = FALSE
    BY NoneAssumption DEF Invalidated
  <2> QED
    BY <1>1, <1>3, <2>1 DEF Ledger, Answers
<1> QED
  BY <1>7, <1>8, <1>9 DEF Ledger

\* The block is connected and its transaction committed.
LEMMA ConnectLedger ==
  ASSUME TypeOK, Framed, NEW q \in Quorums, Ledger(q), ConnectTip
  PROVE  Ledger(q)'
<1>1. /\ chain' = Append(chain, block) /\ base' = db /\ db' = db /\ block' = None
      /\ cache' = cache /\ block # None /\ todo = {}
  BY DEF ConnectTip
<1>2. chain \in Seq(SUBSET Commitments) /\ block \in SUBSET Commitments /\ Len(chain) + 1 \in Heights
  BY <1>1, NextHeight DEF TypeOK
<1>3. /\ DOMAIN chain = 1..Len(chain) /\ DOMAIN chain' = 1..(Len(chain) + 1) /\ Len(chain) \in Nat
      /\ \A i \in 1..Len(chain) : chain'[i] = chain[i]
      /\ chain'[Len(chain) + 1] = block
  BY <1>1, <1>2, SMTT(30)
<1>4. Done = Real(block) /\ Done' = {} /\ QuorumsOf(Done)' = {}
  BY <1>1 DEF Done, QuorumsOf
<1>5. base.mined[q] # None => q \notin QuorumsOf(Done) /\ db.mined[q] = base.mined[q]
  BY DEF QuorumsOf, Ledger, Overlay
<1>6. BaseMatches(q)'
  <2>1. ASSUME NEW h \in DOMAIN chain', NEW qc \in Real(chain'[h]), qc.quorum = q
        PROVE  db.mined[q] = [qc |-> qc, height |-> h]
    <3>1. CASE h = Len(chain) + 1
      BY <1>3, <1>4, <2>1, <3>1 DEF Ledger, Overlay
    <3>2. CASE h \in DOMAIN chain
      <4>1. qc \in Commitments /\ h \in Heights
        BY <1>2, <1>3, <3>2, BoundsAssumption, SMTT(30) DEF Real, TypeOK, Heights
      <4>2. base.mined[q] = [qc |-> qc, height |-> h]
        BY <1>3, <2>1, <3>2 DEF Ledger, BaseMatches
      <4>3. base.mined[q] # None
        BY <4>1, <4>2, NoneAssumption, SMTT(30)
      <4> QED
        BY <1>5, <4>2, <4>3
    <3> QED
      BY <1>3, <3>1, <3>2, SMTT(30)
  <2>2. ASSUME db.mined[q] # None
        PROVE  /\ db.mined[q].height \in DOMAIN chain'
               /\ db.mined[q].qc \in Real(chain'[db.mined[q].height])
               /\ db.mined[q].qc.quorum = q
    <3>1. CASE q \in QuorumsOf(Done)
      <4>1. PICK qc \in Done : qc.quorum = q
        BY <3>1 DEF QuorumsOf
      <4>2. db.mined[q] = [qc |-> qc, height |-> Len(chain) + 1]
        BY <4>1 DEF Ledger, Overlay
      <4> QED
        BY <1>3, <1>4, <4>1, <4>2, SMTT(30)
    <3>2. CASE q \notin QuorumsOf(Done)
      <4>1. db.mined[q] = base.mined[q]
        BY <3>2 DEF Ledger, Overlay
      <4> QED
        BY <1>3, <2>2, <4>1, SMTT(30) DEF Ledger, BaseMatches
    <3> QED
      BY <3>1, <3>2
  <2>3. ASSUME NEW h \in Heights
        PROVE  <<q, h>> \in db.byHeight <=> db.mined[q] # None /\ db.mined[q].height = h
    <3>1. CASE q \in QuorumsOf(Done)
      <4>1. PICK qc \in Done : qc.quorum = q
        BY <3>1 DEF QuorumsOf
      <4>2. db.mined[q] = [qc |-> qc, height |-> Len(chain) + 1] /\ base.mined[q] = None
        BY <4>1 DEF Ledger, Overlay
      <4>3. db.mined[q] # None
        BY <1>2, <4>1, <4>2, DoneType
      <4>4. <<q, h>> \notin base.byHeight
        BY <4>2 DEF Ledger, BaseMatches
      <4> QED
        BY <3>1, <4>2, <4>3, <4>4, SMTT(30) DEF Ledger, Overlay
    <3>2. CASE q \notin QuorumsOf(Done)
      <4>1. db.mined[q] = base.mined[q]
        BY <3>2 DEF Ledger, Overlay
      <4> QED
        BY <3>2, <4>1, SMTT(30) DEF Ledger, Overlay, BaseMatches
    <3> QED
      BY <3>1, <3>2
  <2> QED
    BY <1>1, <2>1, <2>2, <2>3 DEF BaseMatches
<1>7. Overlay(q)'
  BY <1>1, <1>4 DEF Overlay
<1>8. Answers(q)'
  <2>1. cache[q] = FALSE => db.mined[q] = None
    BY DEF Ledger, Answers, Overlay
  <2> QED
    BY <1>1, <1>4, <2>1 DEF Answers
<1> QED
  BY <1>6, <1>7, <1>8 DEF Ledger

\* The last block is disconnected and its commitments erased.
LEMMA UndoLedger ==
  ASSUME TypeOK, Framed, NEW q \in Quorums, Ledger(q), UndoBlock
  PROVE  Ledger(q)'
<1> DEFINE n == Len(chain)
           b == Real(chain[n])
<1>1. /\ chain' = SubSeq(chain, 1, n - 1) /\ db' = Erased(b, n) /\ base' = Erased(b, n)
      /\ cache' = Invalidated(QuorumsOf(b)) /\ block = None /\ block' = None /\ n > 0
  BY DEF UndoBlock, MainIsFree
<1>2. /\ n \in Heights /\ n \in DOMAIN chain /\ DOMAIN chain = 1..n
      /\ b \subseteq Commitments
  BY <1>1, BoundsAssumption, SMTT(30) DEF TypeOK, Heights, Real
<1>3. /\ DOMAIN chain' = 1..(n - 1)
      /\ \A i \in 1..(n - 1) : chain'[i] = chain[i] /\ i \in DOMAIN chain
  <2>1. /\ chain' \in Seq(SUBSET Commitments) /\ Len(chain') = n - 1
        /\ \A i \in 1..(n - 1) : chain'[i] = chain[i]
    BY <1>1, ShorterChain
  <2> QED
    BY <1>2, <2>1, SMTT(30)
<1>4. Done = {} /\ Done' = {} /\ QuorumsOf(Done) = {} /\ QuorumsOf(Done)' = {}
  BY <1>1 DEF Done, QuorumsOf
<1>5. /\ db.mined[q] = base.mined[q]
      /\ \A h \in Heights : <<q, h>> \in db.byHeight <=> <<q, h>> \in base.byHeight
  BY <1>4 DEF Ledger, Overlay
<1>6. /\ base'.mined[q] = IF q \in QuorumsOf(b) THEN None ELSE base.mined[q]
      /\ base'.byHeight = db.byHeight \ {<<p, n>> : p \in QuorumsOf(b)}
  BY <1>1, <1>5 DEF Erased
<1>7. q \in QuorumsOf(b) => base.mined[q] # None /\ base.mined[q].height = n
  <2> SUFFICES ASSUME q \in QuorumsOf(b)
               PROVE  base.mined[q] # None /\ base.mined[q].height = n
    OBVIOUS
  <2>1. PICK qc \in b : qc.quorum = q
    BY DEF QuorumsOf
  <2>2. base.mined[q] = [qc |-> qc, height |-> n]
    BY <1>2, <2>1 DEF Ledger, BaseMatches
  <2>3. [qc |-> qc, height |-> n] # None
    BY <1>2, NoneAssumption, SMTT(30)
  <2> QED
    BY <2>2, <2>3, SMTT(30)
<1> HIDE DEF n, b
<1>8. BaseMatches(q)'
  <2>1. ASSUME NEW h \in DOMAIN chain', NEW qc \in Real(chain'[h]), qc.quorum = q
        PROVE  base'.mined[q] = [qc |-> qc, height |-> h]
    <3>1. h \in DOMAIN chain /\ qc \in Real(chain[h]) /\ h # n
      BY <1>2, <1>3, SMTT(30)
    <3>2. base.mined[q] = [qc |-> qc, height |-> h]
      BY <2>1, <3>1 DEF Ledger, BaseMatches
    <3>3. q \notin QuorumsOf(b)
      BY <1>7, <3>1, <3>2, SMTT(30)
    <3> QED
      BY <1>6, <3>2, <3>3
  <2>2. ASSUME base'.mined[q] # None
        PROVE  /\ base'.mined[q].height \in DOMAIN chain'
               /\ base'.mined[q].qc \in Real(chain'[base'.mined[q].height])
               /\ base'.mined[q].qc.quorum = q
    <3>1. q \notin QuorumsOf(b) /\ base'.mined[q] = base.mined[q]
      BY <1>6, <2>2
    <3>2. /\ base.mined[q].height \in DOMAIN chain
          /\ base.mined[q].qc \in Real(chain[base.mined[q].height])
          /\ base.mined[q].qc.quorum = q
      BY <2>2, <3>1 DEF Ledger, BaseMatches
    <3>3. base.mined[q].height # n
      BY <3>1, <3>2 DEF QuorumsOf, b
    <3>4. base.mined[q].height \in 1..(n - 1)
      BY <1>2, <3>2, <3>3, SMTT(30) DEF Heights
    <3> QED
      BY <1>3, <3>1, <3>2, <3>4
  <2>3. ASSUME NEW h \in Heights
        PROVE  <<q, h>> \in base'.byHeight <=> base'.mined[q] # None /\ base'.mined[q].height = h
    <3>1. CASE q \in QuorumsOf(b)
      BY <1>5, <1>6, <1>7, <3>1, SMTT(30) DEF Ledger, BaseMatches
    <3>2. CASE q \notin QuorumsOf(b)
      BY <1>5, <1>6, <3>2, SMTT(30) DEF Ledger, BaseMatches
    <3> QED
      BY <3>1, <3>2
  <2> QED
    BY <2>1, <2>2, <2>3 DEF BaseMatches
<1>9. Overlay(q)'
  BY <1>1, <1>4 DEF Overlay
<1>10. Answers(q)'
  <2>1. ASSUME cache'[q] = FALSE PROVE base'.mined[q] = None
    <3>1. q \notin QuorumsOf(b) /\ cache[q] = FALSE
      BY <1>1, <2>1, NoneAssumption DEF Invalidated
    <3> QED
      BY <1>6, <3>1 DEF Ledger, Answers
  <2> QED
    BY <1>4, <2>1 DEF Answers
<1> QED
  BY <1>8, <1>9, <1>10 DEF Ledger

\* Only a "no" that was overtaken makes the cache wrong.
LEMMA ReaderLedger ==
  ASSUME TypeOK, Framed, NEW q \in Quorums \ overtaken', Ledger(q), ReaderCaches
  PROVE  Ledger(q)'
<1>1. /\ reader # None /\ UNCHANGED main
      /\ cache' = [cache EXCEPT ![reader.quorum] = reader.exists]
      /\ overtaken' = IF ~reader.exists /\ db.mined[reader.quorum] # None
                        THEN overtaken \cup {reader.quorum} ELSE overtaken
  BY DEF ReaderCaches
<1>2. ASSUME cache'[q] = FALSE PROVE q \notin QuorumsOf(Done) /\ base.mined[q] = None
  <2>1. CASE q # reader.quorum
    BY <1>1, <1>2, <2>1 DEF Ledger, Answers, TypeOK
  <2>2. CASE q = reader.quorum
    <3>1. reader.exists = FALSE
      BY <1>1, <1>2, <2>2 DEF TypeOK
    <3>2. db.mined[q] = None
      BY <1>1, <2>2, <3>1
    <3>3. ASSUME NEW qc \in Done, qc.quorum = q PROVE FALSE
      <4>1. block # None
        BY <3>3 DEF Done
      <4>2. db.mined[q] = [qc |-> qc, height |-> Len(chain) + 1]
        BY <3>3 DEF Ledger, Overlay
      <4> QED
        BY <3>2, <3>3, <4>1, <4>2, DoneType, NextHeight
    <3>4. q \notin QuorumsOf(Done)
      BY <3>3 DEF QuorumsOf
    <3> QED
      BY <3>2, <3>4 DEF Ledger, Overlay
  <2> QED
    BY <2>1, <2>2
<1> QED
  BY <1>1, <1>2, MainUnchanged
-----------------------------------------------------------------------------
\* One step of the chain, the database and the cache of a quorum.
LEMMA StepLedger ==
  ASSUME IInv, NEW q \in Quorums \ overtaken', Ledger(q), [Next]_vars
  PROVE  Ledger(q)'
<1> USE DEF IInv
<1>1. cache[q] = FALSE => q \notin QuorumsOf(Done) /\ base.mined[q] = None
  BY DEF Ledger, Answers
<1>2. ASSUME UNCHANGED <<main, cache>> PROVE Ledger(q)'
  BY <1>1, <1>2, MainUnchanged
<1>3. ASSUME NEW b \in SUBSET Commitments, ProcessBlock(b) PROVE Ledger(q)'
  <2>1. /\ UNCHANGED <<chain, db, base>> /\ block = None
        /\ cache'[q] = FALSE => q \notin QuorumsOf(Done) /\ base.mined[q] = None
    BY <1>1, <1>3, CachedRight DEF ProcessBlock, MainIsFree
  <2>2. CASE UNCHANGED <<block, todo>>
    BY <2>1, <2>2, MainUnchanged DEF main
  <2>3. CASE block' = b /\ todo' = b
    <3>1. Done = {} /\ Done' = {} /\ QuorumsOf(Done)' = QuorumsOf(Done)
      BY <2>1, <2>3 DEF Done, Real, QuorumsOf
    <3>2. BaseMatches(q)'
      BY <2>1 DEF Ledger, BaseMatches
    <3>3. Overlay(q)'
      BY <2>1, <3>1 DEF Ledger, Overlay
    <3>4. Answers(q)'
      BY <2>1, <3>1 DEF Ledger, Answers
    <3> QED
      BY <3>2, <3>3, <3>4 DEF Ledger
  <2> QED
    BY <1>3, <2>2, <2>3 DEF ProcessBlock
<1>4. ASSUME NEW qc \in Commitments, ProcessCommitment(qc) PROVE Ledger(q)'
  <2>1. block # None /\ qc \in todo
    BY <1>4 DEF ProcessCommitment, Framed
  <2>2. CASE IsNull(qc) /\ todo' = todo \ {qc} /\ UNCHANGED <<chain, db, base, block, cache>>
    <3>1. Done' = Done
      BY <2>1, <2>2 DEF Done, Real
    <3>2. BaseMatches(q)'
      BY <2>2 DEF Ledger, BaseMatches
    <3>3. Overlay(q)'
      BY <2>2, <3>1 DEF Ledger, Overlay
    <3>4. Answers(q)'
      BY <2>1, <2>2, <3>1 DEF Ledger, Answers
    <3> QED
      BY <3>2, <3>3, <3>4 DEF Ledger
  <2>3. CASE ~IsNull(qc) /\ ProcessReal(qc)
    <3>1. CASE IsAllowed(qc, Len(chain) + 1)
      BY <2>1, <2>3, <3>1, StoreLedger DEF ProcessReal, IsAllowed
    <3>2. CASE ~IsAllowed(qc, Len(chain) + 1)
      <4>1. Rollback /\ cache' = Cached({qc.quorum})
        BY <2>3, <3>2 DEF ProcessReal
      <4>2. cache'[q] = FALSE => base.mined[q] = None
        BY <4>1, CachedRight
      <4> QED
        BY <4>1, <4>2, RollbackLedger
    <3> QED
      BY <3>1, <3>2
  <2> QED
    BY <1>4, <2>2, <2>3 DEF ProcessCommitment
<1>5. CASE ConnectTip
  BY <1>5, ConnectLedger
<1>6. CASE RejectBlock
  BY <1>1, <1>6, RollbackLedger DEF RejectBlock
<1>7. CASE UndoBlock
  BY <1>7, UndoLedger
<1>8. ASSUME NEW qc \in Real(Commitments), DkgCommitment(qc) PROVE Ledger(q)'
  BY <1>2, <1>8 DEF DkgCommitment
<1>9. ASSUME NEW qc \in Relayed, ReceiveCommitment(qc) PROVE Ledger(q)'
  <2>1. cache'[q] = FALSE => q \notin QuorumsOf(Done) /\ base.mined[q] = None
    BY <1>9, CachedRight DEF ReceiveCommitment
  <2> QED
    BY <1>9, <2>1, MainUnchanged DEF ReceiveCommitment
<1>10. CASE CompareCommitment \/ AddReceived
  BY <1>2, <1>10 DEF CompareCommitment, AddReceived
<1>11. ASSUME NEW p \in Asked, ReaderLooks(p) PROVE Ledger(q)'
  BY <1>2, <1>11 DEF ReaderLooks
<1>12. ASSUME NEW p \in Quorums, Evict(p) PROVE Ledger(q)'
  <2>1. cache'[q] = FALSE => cache[q] = FALSE
    BY <1>12, NoneAssumption DEF Evict, TypeOK
  <2> QED
    BY <1>1, <1>12, <2>1, MainUnchanged DEF Evict
<1>13. CASE ReaderCaches
  BY <1>13, ReaderLedger
<1>14. CASE Restart
  <2>1. Done' = {} /\ QuorumsOf(Done)' = {}
    BY <1>14 DEF Restart, Done, QuorumsOf
  <2>2. BaseMatches(q)'
    BY <1>14 DEF Restart, Ledger, BaseMatches
  <2>3. Overlay(q)'
    BY <1>14, <2>1 DEF Restart, Overlay
  <2>4. Answers(q)'
    BY <1>14, <2>1, NoneAssumption DEF Restart, Answers
  <2> QED
    BY <2>2, <2>3, <2>4 DEF Ledger
<1>15. CASE UNCHANGED vars
  BY <1>2, <1>15 DEF vars, main
<1> QED
  BY <1>3, <1>4, <1>5, <1>6, <1>7, <1>8, <1>9, <1>10, <1>11, <1>12, <1>13, <1>14, <1>15 DEF Next

\* One step of all quorums: an answer that was overtaken stays in the history.
LEMMA NextLedger == IInv /\ Ledgers /\ [Next]_vars => Ledgers'
<1> SUFFICES ASSUME IInv, Ledgers, [Next]_vars, NEW q \in Quorums \ overtaken'
             PROVE  Ledger(q)'
  BY DEF Ledgers
<1>1. overtaken \subseteq overtaken'
  <2> USE DEF asking, main
  <2>1. ASSUME NEW b \in SUBSET Commitments, ProcessBlock(b) PROVE overtaken' = overtaken
    BY <2>1 DEF ProcessBlock
  <2>2. ASSUME NEW qc \in Commitments, ProcessCommitment(qc) PROVE overtaken' = overtaken
    BY <2>2 DEF ProcessCommitment
  <2>3. CASE ConnectTip \/ RejectBlock \/ UndoBlock
    BY <2>3 DEF ConnectTip, RejectBlock, UndoBlock
  <2>4. ASSUME NEW qc, DkgCommitment(qc) \/ ReceiveCommitment(qc) PROVE overtaken' = overtaken
    BY <2>4 DEF DkgCommitment, ReceiveCommitment
  <2>5. ASSUME NEW p, ReaderLooks(p) \/ Evict(p) PROVE overtaken' = overtaken
    BY <2>5 DEF ReaderLooks, Evict
  <2>6. CASE CompareCommitment \/ AddReceived \/ Restart \/ UNCHANGED vars
    BY <2>6 DEF CompareCommitment, AddReceived, Restart, vars
  <2>7. CASE ReaderCaches
    BY <2>7 DEF ReaderCaches
  <2> QED
    BY <2>1, <2>2, <2>3, <2>4, <2>5, <2>6, <2>7 DEF Next
<1>2. Ledger(q)
  BY <1>1 DEF Ledgers
<1> QED
  BY <1>2, StepLedger

\* The inductive invariant behind what chain and database agree on.
THEOREM LedgerInvariance == Spec => [](IInv /\ Ledgers)
<1>1. Init => IInv /\ Ledgers
  BY InitPool, InitLedger DEF Ledgers
<1>2. IInv /\ Ledgers /\ [Next]_vars => (IInv /\ Ledgers)'
  BY NextPool, NextLedger
<1> QED
  BY <1>1, <1>2, PTL DEF Spec

\* Whatever is connected, rejected, undone and restarted, a quorum has at most
\* one non-null commitment in the chain, unless HasMinedCommitment cached a "no"
\* for it that ProcessCommitment had overtaken.
THEOREM CommitmentMinedOnce == Spec => []OneCommitmentUnlessOvertaken
<1>1. IInv /\ Ledgers => OneCommitmentUnlessOvertaken
  <2> SUFFICES ASSUME NEW q \in Quorums, Ledger(q),
                      NEW i \in DOMAIN chain, NEW j \in DOMAIN chain,
                      NEW x \in Real(chain[i]), NEW y \in Real(chain[j]), x.quorum = q, y.quorum = q
               PROVE  i = j /\ x = y
    BY DEF Ledgers, OneCommitmentUnlessOvertaken, CommittedOnce
  <2>1. [qc |-> x, height |-> i] = [qc |-> y, height |-> j]
    BY SMTT(30) DEF Ledger, BaseMatches
  <2> QED
    BY <2>1
<1> QED
  BY <1>1, LedgerInvariance, PTL

\* The database and the active chain agree between blocks, under both keys, on
\* every quorum for which no overtaken "no" was cached.
THEOREM DatabaseFollowsChain == Spec => []DbMatchesChain
<1>1. IInv /\ Ledgers => DbMatchesChain
  <2> SUFFICES ASSUME IInv, block = None, NEW q \in Quorums, Ledger(q), NEW h \in Heights
               PROVE  /\ \A qc \in Commitments :
                           db.mined[q] = [qc |-> qc, height |-> h]
                             <=> h \in DOMAIN chain /\ qc \in Real(chain[h]) /\ qc.quorum = q
                      /\ <<q, h>> \in db.byHeight
                           <=> h \in DOMAIN chain /\ \E qc \in Real(chain[h]) : qc.quorum = q
    BY DEF Ledgers, DbMatchesChain
  <2>1. /\ db.mined[q] = base.mined[q]
        /\ <<q, h>> \in db.byHeight <=> <<q, h>> \in base.byHeight
    BY DEF Done, QuorumsOf, Ledger, Overlay
  <2>2. ASSUME NEW qc \in Commitments
        PROVE  db.mined[q] = [qc |-> qc, height |-> h]
                 <=> h \in DOMAIN chain /\ qc \in Real(chain[h]) /\ qc.quorum = q
    <3>1. ASSUME db.mined[q] = [qc |-> qc, height |-> h]
          PROVE  h \in DOMAIN chain /\ qc \in Real(chain[h]) /\ qc.quorum = q
      <4>1. base.mined[q] = [qc |-> qc, height |-> h] /\ base.mined[q] # None
        BY <2>1, <3>1, NoneAssumption, SMTT(30)
      <4> QED
        BY <4>1, SMTT(30) DEF Ledger, BaseMatches
    <3>2. ASSUME h \in DOMAIN chain, qc \in Real(chain[h]), qc.quorum = q
          PROVE  db.mined[q] = [qc |-> qc, height |-> h]
      BY <2>1, <3>2 DEF Ledger, BaseMatches
    <3> QED
      BY <3>1, <3>2
  <2>3. <<q, h>> \in db.byHeight
          <=> h \in DOMAIN chain /\ \E qc \in Real(chain[h]) : qc.quorum = q
    <3>1. ASSUME <<q, h>> \in db.byHeight
          PROVE  h \in DOMAIN chain /\ \E qc \in Real(chain[h]) : qc.quorum = q
      BY <2>1, <3>1, SMTT(30) DEF Ledger, BaseMatches
    <3>2. ASSUME h \in DOMAIN chain, NEW qc \in Real(chain[h]), qc.quorum = q
          PROVE  <<q, h>> \in db.byHeight
      <4>1. qc \in Commitments
        BY <3>2, SMTT(30) DEF Real, IInv, TypeOK
      <4>2. base.mined[q] = [qc |-> qc, height |-> h] /\ base.mined[q] # None
        <5>1. base.mined[q] = [qc |-> qc, height |-> h]
          BY <3>2 DEF Ledger, BaseMatches
        <5> QED
          BY <4>1, <5>1, NoneAssumption, SMTT(30)
      <4> QED
        BY <2>1, <4>2, SMTT(30) DEF Ledger, BaseMatches
    <3> QED
      BY <3>1, <3>2
  <2> QED
    BY <2>2, <2>3
<1> QED
  BY <1>1, LedgerInvariance, PTL

\* The node never offers a commitment of a quorum that has one in the chain,
\* unless an overtaken "no" was cached for it.
THEOREM OffersOnce == Spec => []NeverOffersTwice
<1>1. IInv /\ Ledgers => NeverOffersTwice
  <2> SUFFICES ASSUME IInv, Ledgers, NEW qc \in Template, NEW h \in DOMAIN chain,
                      NEW x \in Real(chain[h]), qc.quorum = x.quorum, qc.quorum \notin overtaken
               PROVE  FALSE
    BY DEF NeverOffersTwice
  <2>1. PICK q \in Unmined :
          qc = IF byQuorum[q] = None THEN [quorum |-> q, signers |-> 0] ELSE byQuorum[q]
    BY DEF Template
  <2>2. q \in Quorums /\ ~HasMinedCommitment(q)
    BY DEF Unmined
  <2>3. qc.quorum = q
    BY <2>1, <2>2 DEF IInv, PoolIsComplete
  <2>4. Ledger(q) /\ base.mined[q] = None
    BY <2>2, <2>3, AnswerNo DEF IInv, Ledgers
  <2>5. x \in Commitments /\ h \in Heights
    BY BoundsAssumption, SMTT(30) DEF Real, IInv, TypeOK, Heights
  <2>6. base.mined[q] = [qc |-> x, height |-> h]
    BY <2>3, <2>4 DEF Ledger, BaseMatches
  <2> QED
    BY <2>4, <2>5, <2>6, NoneAssumption, SMTT(30)
<1> QED
  BY <1>1, LedgerInvariance, PTL

\* What UndoBlock takes out of the chain can be mined again, or a better one.
THEOREM UndoneCanBeMined == Spec => UndoneStaysMineable
<1> DEFINE A == Len(chain') < Len(chain) =>
                  \A qc \in Real(chain[Len(chain)]) :
                    byQuorum'[qc.quorum] # None /\ byQuorum'[qc.quorum].signers >= qc.signers
<1>1. IInv /\ [Next]_vars => [A]_vars
  <2> SUFFICES ASSUME IInv, Next, Len(chain') < Len(chain),
                      NEW qc \in Real(chain[Len(chain)])
               PROVE  byQuorum'[qc.quorum] # None /\ byQuorum'[qc.quorum].signers >= qc.signers
    OBVIOUS
  <2>1. chain \in Seq(SUBSET Commitments) /\ Len(chain) \in Nat
    BY SMTT(30) DEF IInv, TypeOK
  <2>2. UndoBlock
    <3>1. chain' # chain
      BY <2>1, SMTT(30)
    <3>2. ~ConnectTip
      BY <2>1, SMTT(30) DEF ConnectTip, IInv, TypeOK
    <3>3. \A b \in SUBSET Commitments : ~ProcessBlock(b)
      BY <3>1 DEF ProcessBlock
    <3>4. \A c \in Commitments : ~ProcessCommitment(c)
      BY <3>1 DEF ProcessCommitment, ProcessReal, Rollback
    <3>5. ~RejectBlock /\ ~CompareCommitment /\ ~AddReceived /\ ~ReaderCaches /\ ~Restart
      BY <3>1 DEF RejectBlock, Rollback, CompareCommitment, AddReceived, ReaderCaches, Restart, main
    <3>6. \A c : ~DkgCommitment(c) /\ ~ReceiveCommitment(c)
      BY <3>1 DEF DkgCommitment, ReceiveCommitment, main
    <3>7. \A q : ~ReaderLooks(q) /\ ~Evict(q)
      BY <3>1 DEF ReaderLooks, Evict, main
    <3> QED
      BY <3>2, <3>3, <3>4, <3>5, <3>6, <3>7 DEF Next
  <2>3. AddMineableCommitment(Real(chain[Len(chain)])) /\ chain[Len(chain)] \subseteq Commitments
    BY <2>1, <2>2, SMTT(30) DEF UndoBlock
  <2>4. Real(chain[Len(chain)]) \in SUBSET Real(Commitments)
    BY <2>3 DEF Real
  <2> QED
    BY <2>3, <2>4, AddPool DEF IInv
<1>2. (Spec => [][A]_vars) => (Spec => UndoneStaysMineable)
  BY DEF UndoneStaysMineable
<1> HIDE DEF A
<1>3. Spec => [][A]_vars
  BY <1>1, InitPool, NextPool, PTL DEF Spec
<1> QED
  BY <1>2, <1>3
=============================================================================
