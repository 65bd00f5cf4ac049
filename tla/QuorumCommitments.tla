------------------------- MODULE QuorumCommitments -------------------------
(***************************************************************************)
(* Final commitments of DKG sessions: how a node collects them, mines them *)
(* into blocks, undoes them in reorganisations and remembers which quorums *)
(* have one (CQuorumBlockProcessor, src/llmq/blockprocessor.cpp).          *)
(*                                                                         *)
(* The model is one DKG cycle of one LLMQ type, with the quorums that      *)
(* rotation creates in it, or a single one without rotation.  The chain    *)
(* holds the blocks after the quorums' base blocks, which stay in place.   *)
(* Four threads act: the one that holds cs_main and connects or            *)
(* disconnects blocks inside a transaction of the evo database, the        *)
(* message thread, the DKG thread, and a reader that asks for a quorum     *)
(* without holding cs_main.                                                *)
(***************************************************************************)
EXTENDS Integers, FiniteSets, Sequences

CONSTANTS
  Quorums,       \* quorums of the cycle (quorumIndex)
  Commitments,   \* commitments [quorum, signers] that exist; null ones have 0 signers
  Relayed,       \* commitments that peers relay
  Asked,         \* quorums that readers ask for
  WindowStart,   \* dkgMiningWindowStart
  WindowEnd,     \* dkgMiningWindowEnd
  MaxHeight,     \* bound on the height of the chain
  None

VARIABLES
  chain,     \* the commitments in each block of the active chain
  db,        \* the evo database inside the current transaction
  base,      \* the evo database at the last commit
  cache,     \* mapHasMinedCommitmentCache
  minable,   \* minableCommitments
  byQuorum,  \* minableCommitmentsByQuorum
  block,     \* the block being connected
  todo,      \* its commitments that are still to be processed
  net,       \* the commitment in ProcessMessage
  reader,    \* the answer a reader is about to cache
  overtaken  \* history: the quorums of which a reader cached "no" too late

vars == <<chain, db, base, cache, minable, byQuorum, block, todo, net, reader, overtaken>>
pool == <<minable, byQuorum>>
main == <<chain, db, base, block, todo>>
asking == <<reader, overtaken>>

IsNull(qc) == qc.signers = 0
Real(b) == {qc \in b : ~IsNull(qc)}
Heights == 1..MaxHeight

\* DB_MINED_COMMITMENT and DB_MINED_COMMITMENT_BY_INVERSED_HEIGHT(_Q_INDEXED).
Databases ==
  [mined    : [Quorums -> [qc : Commitments, height : Heights] \cup {None}],
   byHeight : SUBSET (Quorums \X Heights)]

ASSUME QuorumsAssumption == IsFiniteSet(Quorums)
ASSUME CommitmentsAssumption ==
  \A qc \in Commitments : qc.quorum \in Quorums /\ qc.signers \in Nat
ASSUME BoundsAssumption ==
  Relayed \subseteq Real(Commitments) /\ Asked \subseteq Quorums /\ MaxHeight \in Nat
ASSUME NoneAssumption ==
  /\ None \notin Commitments
  /\ None \notin BOOLEAN
  /\ None \notin [qc : Commitments, height : Heights]
  /\ \A b \in SUBSET Commitments : b # None
-----------------------------------------------------------------------------
\* What a caller that holds cs_main learns, and what is cached then.
HasMinedCommitment(q) ==
  IF cache[q] # None THEN cache[q] ELSE db.mined[q] # None
Cached(S) == [q \in Quorums |-> IF q \in S THEN HasMinedCommitment(q) ELSE cache[q]]

\* The height is in the cycle's mining window.
IsMiningPhase(h) == WindowStart <= h /\ h <= WindowEnd

Unmined == {q \in Quorums : ~HasMinedCommitment(q)}
GetNumCommitmentsRequired(h) == IF IsMiningPhase(h) THEN Cardinality(Unmined) ELSE 0

\* A reader without cs_main: the three parts of HasMinedCommitment, the
\* first two of which are one step as a cached answer is simply returned.
ReaderLooks(q) ==
  /\ reader = None
  /\ cache[q] = None
  /\ reader' = [quorum |-> q, exists |-> db.mined[q] # None]
  /\ UNCHANGED <<main, cache, pool, net, overtaken>>

\* A "no" is overtaken if a commitment was written since the reader looked.
ReaderCaches ==
  /\ reader # None
  /\ cache' = [cache EXCEPT ![reader.quorum] = reader.exists]
  /\ overtaken' = IF ~reader.exists /\ db.mined[reader.quorum] # None
                    THEN overtaken \cup {reader.quorum} ELSE overtaken
  /\ reader' = None
  /\ UNCHANGED <<main, pool, net>>

\* The cache holds a limited number of quorums.
Evict(q) ==
  /\ cache[q] # None
  /\ cache' = [cache EXCEPT ![q] = None]
  /\ UNCHANGED <<main, pool, net, asking>>

MainIsFree == block = None
-----------------------------------------------------------------------------
\* The commitments S enter the pool one after the other, each unless one with
\* as many signers is known for its quorum.  In the end the best one of a
\* quorum is known.  One that was replaced stays in minableCommitments: its
\* hash has been overwritten when the erase asks for it.
AddMineableCommitment(S) ==
  LET new == {qc \in S : byQuorum[qc.quorum] = None \/ byQuorum[qc.quorum].signers < qc.signers}
      best == {qc \in new : \A x \in new : x.quorum = qc.quorum => x.signers <= qc.signers} IN
  \E entered \in SUBSET new :
    /\ \A qc \in new : \E x \in best \cap entered : x.quorum = qc.quorum
    /\ minable' = minable \cup entered
    /\ byQuorum' = [q \in Quorums |-> IF \E qc \in new : qc.quorum = q
                                        THEN CHOOSE qc \in best \cap entered : qc.quorum = q
                                        ELSE byQuorum[q]]

\* The local DKG session ends with a commitment.
DkgCommitment(qc) ==
  /\ AddMineableCommitment({qc})
  /\ UNCHANGED <<main, cache, net, asking>>

\* A commitment arrives.  Under cs_main: its quorum has none yet.
ReceiveCommitment(qc) ==
  /\ MainIsFree
  /\ net = None
  /\ cache' = Cached({qc.quorum})
  /\ net' = IF HasMinedCommitment(qc.quorum) THEN None ELSE [qc |-> qc, verified |-> FALSE]
  /\ UNCHANGED <<main, pool, asking>>

\* Under minableCommitmentsCs: compare with the known one, then verify.
CompareCommitment ==
  /\ net # None
  /\ ~net.verified
  /\ LET known == byQuorum[net.qc.quorum] IN
       net' = IF known # None /\ known \in minable /\ known.signers <= net.qc.signers
                THEN None
                ELSE [net EXCEPT !.verified = TRUE]
  /\ UNCHANGED <<main, cache, pool, asking>>

AddReceived ==
  /\ net # None
  /\ net.verified
  /\ AddMineableCommitment({net.qc})
  /\ net' = None
  /\ UNCHANGED <<main, cache, asking>>
-----------------------------------------------------------------------------
\* ProcessBlock: the block must have as many commitments as are required.
ProcessBlock(b) ==
  LET h == Len(chain) + 1 IN
  /\ MainIsFree
  /\ h \in Heights
  /\ cache' = IF IsMiningPhase(h) THEN Cached(Quorums) ELSE cache
  /\ IF Cardinality(b) = GetNumCommitmentsRequired(h)
       THEN block' = b /\ todo' = b
       ELSE UNCHANGED <<block, todo>>
  /\ UNCHANGED <<chain, db, base, pool, net, asking>>

\* The transaction is rolled back; cache and pool keep what was changed.
Rollback ==
  /\ db' = base
  /\ block' = None
  /\ todo' = {}
  /\ UNCHANGED <<chain, base>>

\* Mutant: no check for a commitment that was mined before.
IsAllowedTwice(qc, h) == IsMiningPhase(h)

\* The checks that answer "bad-qc-dup" and "bad-qc-height".
IsAllowed(qc, h) == ~HasMinedCommitment(qc.quorum) /\ IsMiningPhase(h)

\* The database with the commitment under both of its keys.
Stored(qc, h) ==
  [mined |-> [db.mined EXCEPT ![qc.quorum] = [qc |-> qc, height |-> h]],
   byHeight |-> db.byHeight \cup {<<qc.quorum, h>>}]

\* Mutant: minableCommitmentsByQuorum is not touched.
LeavePoolByHash(qc) == minable' = minable \ {qc} /\ UNCHANGED byQuorum

\* A mined commitment leaves the pool, whichever one was known for its quorum.
LeavePool(qc) ==
  /\ byQuorum' = [byQuorum EXCEPT ![qc.quorum] = None]
  /\ minable' = minable \ {qc}

\* Mutant: the cache is not touched.
Retained(S) == cache

\* The cache without the quorums S, whose answer changes.
Invalidated(S) == [q \in Quorums |-> IF q \in S THEN None ELSE cache[q]]

\* A non-null commitment is written to the database and leaves the pool; a
\* second one for its quorum, or one at the wrong time, fails the block.
ProcessReal(qc) ==
  LET h == Len(chain) + 1 IN
  \/ /\ IsAllowed(qc, h)
     /\ db' = Stored(qc, h)
     /\ cache' = Invalidated({qc.quorum})
     /\ LeavePool(qc)
     /\ todo' = todo \ {qc}
     /\ UNCHANGED <<chain, base, block>>
  \/ /\ ~IsAllowed(qc, h)
     /\ Rollback
     /\ cache' = Cached({qc.quorum})
     /\ UNCHANGED pool

ProcessCommitment(qc) ==
  /\ qc \in todo
  /\ \/ /\ IsNull(qc)
        /\ todo' = todo \ {qc}
        /\ UNCHANGED <<chain, db, base, block, cache, pool>>
     \/ ~IsNull(qc) /\ ProcessReal(qc)
  /\ UNCHANGED <<net, asking>>

\* All checks of ConnectTip passed.
ConnectTip ==
  /\ block # None
  /\ todo = {}
  /\ chain' = Append(chain, block)
  /\ base' = db
  /\ block' = None
  /\ UNCHANGED <<db, todo, cache, pool, net, asking>>

\* A commitment does not verify, or a later check of ConnectBlock fails.
RejectBlock ==
  /\ block # None
  /\ Rollback
  /\ UNCHANGED <<cache, pool, net, asking>>

QuorumsOf(b) == {qc.quorum : qc \in b}

\* Mutant: the keys by height stay.
ErasedByQuorum(b, h) ==
  [mined |-> [q \in Quorums |-> IF q \in QuorumsOf(b) THEN None ELSE db.mined[q]],
   byHeight |-> db.byHeight]

\* The database without the commitments b, mined at height h.
Erased(b, h) ==
  [mined |-> [q \in Quorums |-> IF q \in QuorumsOf(b) THEN None ELSE db.mined[q]],
   byHeight |-> db.byHeight \ {<<q, h>> : q \in QuorumsOf(b)}]

\* Mutant: null commitments enter the pool, too.
UndoBlockWithNull ==
  LET h == Len(chain)
      b == Real(chain[h]) IN
  /\ MainIsFree
  /\ h > 0
  /\ chain' = SubSeq(chain, 1, h - 1)
  /\ db' = Erased(b, h)
  /\ base' = Erased(b, h)
  /\ cache' = Invalidated(QuorumsOf(b))
  /\ AddMineableCommitment(chain[h])
  /\ UNCHANGED <<block, todo, net, asking>>

\* Mutant: the commitments do not enter the pool again.
UndoBlockForgets ==
  LET h == Len(chain)
      b == Real(chain[h]) IN
  /\ MainIsFree
  /\ h > 0
  /\ chain' = SubSeq(chain, 1, h - 1)
  /\ db' = Erased(b, h)
  /\ base' = Erased(b, h)
  /\ cache' = Invalidated(QuorumsOf(b))
  /\ UNCHANGED <<block, todo, pool, net, asking>>

\* UndoBlock, and the commit of its transaction; the commitments enter the
\* pool again.
UndoBlock ==
  LET h == Len(chain)
      b == Real(chain[h]) IN
  /\ MainIsFree
  /\ h > 0
  /\ chain' = SubSeq(chain, 1, h - 1)
  /\ db' = Erased(b, h)
  /\ base' = Erased(b, h)
  /\ cache' = Invalidated(QuorumsOf(b))
  /\ AddMineableCommitment(b)
  /\ UNCHANGED <<block, todo, net, asking>>

\* Chain and database are flushed together; the rest is lost.
Restart ==
  /\ db' = base
  /\ block' = None
  /\ todo' = {}
  /\ cache' = [q \in Quorums |-> None]
  /\ minable' = {}
  /\ byQuorum' = [q \in Quorums |-> None]
  /\ net' = None
  /\ reader' = None
  /\ UNCHANGED <<chain, base, overtaken>>
-----------------------------------------------------------------------------
EmptyDb == [mined |-> [q \in Quorums |-> None], byHeight |-> {}]

Init ==
  /\ chain = <<>>
  /\ db = EmptyDb
  /\ base = EmptyDb
  /\ cache = [q \in Quorums |-> None]
  /\ minable = {}
  /\ byQuorum = [q \in Quorums |-> None]
  /\ block = None
  /\ todo = {}
  /\ net = None
  /\ reader = None
  /\ overtaken = {}

Next ==
  \/ \E b \in SUBSET Commitments : ProcessBlock(b)
  \/ \E qc \in Commitments : ProcessCommitment(qc)
  \/ ConnectTip
  \/ RejectBlock
  \/ UndoBlock
  \/ \E qc \in Real(Commitments) : DkgCommitment(qc)
  \/ \E qc \in Relayed : ReceiveCommitment(qc)
  \/ CompareCommitment
  \/ AddReceived
  \/ \E q \in Asked : ReaderLooks(q)
  \/ \E q \in Quorums : Evict(q)
  \/ ReaderCaches
  \/ Restart

Spec == Init /\ [][Next]_vars
-----------------------------------------------------------------------------
\* The state of the block processor and of its database is well formed.
TypeOK ==
  /\ chain \in Seq(SUBSET Commitments) /\ Len(chain) <= MaxHeight
  /\ db \in Databases
  /\ base \in Databases
  /\ cache \in [Quorums -> BOOLEAN \cup {None}]
  /\ minable \subseteq Real(Commitments)
  /\ byQuorum \in [Quorums -> Real(Commitments) \cup {None}]
  /\ block = None \/ block \subseteq Commitments
  /\ todo \subseteq Commitments
  /\ net \in [qc : Real(Commitments), verified : BOOLEAN] \cup {None}
  /\ reader \in [quorum : Quorums, exists : BOOLEAN] \cup {None}
  /\ overtaken \subseteq Quorums

\* minableCommitmentsByQuorum only refers to commitments that
\* minableCommitments holds, so that the lookups with at() in
\* AddMineableCommitment and GetMineableCommitments never throw.
PoolIsComplete ==
  \A q \in Quorums : byQuorum[q] # None => byQuorum[q] \in minable /\ byQuorum[q].quorum = q

\* The chain has at most one non-null commitment of the quorum q.
CommittedOnce(q) ==
  \A i, j \in DOMAIN chain : \A x \in Real(chain[i]), y \in Real(chain[j]) :
    x.quorum = q /\ y.quorum = q => i = j /\ x = y

\* No quorum has two non-null commitments in the chain: "After the non-null
\* commitment, no other commitments are allowed, including null commitments".
\* Only the first half is stated; the code does not keep null ones out.
OneCommitmentPerQuorum == \A q \in Quorums : CommittedOnce(q)

\* Only an answer of HasMinedCommitment that was overtaken can let a second non-null
\* commitment in: for every other quorum the checks of ProcessBlock and
\* ProcessCommitment hold, with whatever else is rolled back, undone, evicted or
\* cached at the wrong moment.
OneCommitmentUnlessOvertaken == \A q \in Quorums \ overtaken : CommittedOnce(q)

\* Between blocks the database says exactly what the active chain contains of a
\* quorum, under both of its keys, whatever was connected, rejected and undone,
\* unless an overtaken "no" was cached for it.
DbMatchesChain ==
  block = None => \A q \in Quorums \ overtaken, h \in Heights :
    /\ \A qc \in Commitments :
         db.mined[q] = [qc |-> qc, height |-> h]
           <=> h \in DOMAIN chain /\ qc \in Real(chain[h]) /\ qc.quorum = q
    /\ <<q, h>> \in db.byHeight
         <=> h \in DOMAIN chain /\ \E qc \in Real(chain[h]) : qc.quorum = q

\* GetMineableCommitments: the commitments this node would put into a block
\* (GetMineableCommitmentsTx may still empty them, if SPORK_24 is active).
Template == {IF byQuorum[q] = None THEN [quorum |-> q, signers |-> 0] ELSE byQuorum[q] : q \in Unmined}

\* The node never offers a block with a commitment, null or not, for a quorum
\* that has a non-null one in the chain, unless an overtaken "no" was cached for it.
NeverOffersTwice ==
  block = None => \A qc \in Template : \A h \in DOMAIN chain :
                    qc.quorum \notin {x.quorum : x \in Real(chain[h])} \ overtaken

\* A commitment that was undone can be mined again, unless a better one is
\* known: "if a reorg happened, we should allow to mine this commitment later".
UndoneStaysMineable ==
  [][Len(chain') < Len(chain) =>
       \A qc \in Real(chain[Len(chain)]) :
         byQuorum'[qc.quorum] # None /\ byQuorum'[qc.quorum].signers >= qc.signers]_vars

\* Commitments are left to be processed only while their block is connected.
Framed ==
  /\ block = None => todo = {}
  /\ block # None => todo \subseteq block /\ Len(chain) < MaxHeight

\* The commitments of the block being connected that are in the database.
Done == IF block = None THEN {} ELSE Real(block) \ todo

\* The committed database says what the chain contains of the quorum q ...
BaseMatches(q) ==
  /\ \A h \in DOMAIN chain : \A qc \in Real(chain[h]) :
       qc.quorum = q => base.mined[q] = [qc |-> qc, height |-> h]
  /\ base.mined[q] # None =>
       /\ base.mined[q].height \in DOMAIN chain
       /\ base.mined[q].qc \in Real(chain[base.mined[q].height])
       /\ base.mined[q].qc.quorum = q
  /\ \A h \in Heights :
       <<q, h>> \in base.byHeight <=> base.mined[q] # None /\ base.mined[q].height = h

\* ... the current one adds what was processed of the block being connected ...
Overlay(q) ==
  /\ \A qc \in Done : qc.quorum = q =>
       /\ base.mined[q] = None
       /\ db.mined[q] = [qc |-> qc, height |-> Len(chain) + 1]
  /\ q \notin QuorumsOf(Done) => db.mined[q] = base.mined[q]
  /\ \A h \in Heights :
       <<q, h>> \in db.byHeight <=>
         <<q, h>> \in base.byHeight \/ (q \in QuorumsOf(Done) /\ h = Len(chain) + 1)

\* ... and a cached "no" is right in both (a "yes" may have been rolled back).
Answers(q) == cache[q] = FALSE => q \notin QuorumsOf(Done) /\ base.mined[q] = None

\* With Framed, the inductive invariant behind the properties of the chain.
Ledger(q) == BaseMatches(q) /\ Overlay(q) /\ Answers(q)
Ledgers == \A q \in Quorums \ overtaken : Ledger(q)
=============================================================================
