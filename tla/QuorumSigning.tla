--------------------------- MODULE QuorumSigning ---------------------------
(***************************************************************************)
(* Threshold signing by the members of long-living masternode quorums      *)
(* (LLMQs): every member votes at most once per request id, turns its vote *)
(* into a signature share, and whoever collects `Threshold' valid shares   *)
(* of one signing session recovers the quorum's signature and relays it.   *)
(*                                                                         *)
(* One node is the masternode's CSigningManager (src/llmq/signing.cpp)     *)
(* together with the part of its CSigSharesManager that creates, collects  *)
(* and combines shares (src/llmq/signing_shares.cpp).  All share and       *)
(* recovered-signature processing of a node runs on its one "sigshares"    *)
(* worker thread, so each handler is one step.  A message that was sent    *)
(* may be received any number of times, at any later moment, or never; how *)
(* shares travel between members (announcements, requests, retries) is     *)
(* the subject of SigShareExchange, which implements this module.          *)
(***************************************************************************)
EXTENDS Integers, FiniteSets

CONSTANTS
  Nodes,        \* masternodes (proTxHash)
  Quorums,      \* active quorums of one LLMQ type (quorumHash)
  Ids,          \* request ids
  Msgs,         \* message hashes
  Members,      \* Members[q]: the valid members of quorum q
  Threshold,    \* the LLMQ type's threshold parameter
  Forgetful,    \* nodes whose recorded votes may disappear (see ForgetVote)
  AllConnected, \* utils::IsAllMembersConnectedEnabled for the LLMQ type
  MaxInterrupts, \* bound on the restarts and session timeouts of each node
  None          \* "no entry"

ASSUME NodesAssumption == IsFiniteSet(Nodes)
ASSUME MembersAssumption == Members \in [Quorums -> SUBSET Nodes]
ASSUME ThresholdAssumption == Threshold \in Nat \ {0}
ASSUME ForgetfulAssumption == Forgetful \subseteq Nodes
ASSUME AllConnectedAssumption == AllConnected \in BOOLEAN
ASSUME InterruptsAssumption == MaxInterrupts \in Nat
ASSUME NoneAssumption == None \notin Msgs

VARIABLES
  vote,         \* vote[n][id]: the msgHash under "rs_v" (on disk), or None
  pendingSigns, \* pendingSigns[n]: sessions queued by AsyncSign
  sigShares,    \* sigShares[n]: verified shares held by n
  shareMsgs,    \* every QSIGSHARE/QBSIGSHARES share ever sent
  recSig,       \* recSig[n]: recovered signatures under "rs_r" (on disk)
  recHash,      \* recHash[n]: their "rs_h" keys, which AlreadyHave looks up
  recSigMsgs,   \* every recovered signature ever relayed (QSIGREC)
  interrupts    \* interrupts[n]: restarts and session timeouts so far

vars == <<vote, pendingSigns, sigShares, shareMsgs, recSig, recHash,
          recSigMsgs, interrupts>>

\* What utils::BuildSignHash hashes: it identifies one signing session, and,
\* BLS threshold signatures being unique, also the recovered signature.
SignHash == [quorum : Quorums, id : Ids, msg : Msgs]

\* SigShareKey: a session and the member whose share it is.
Share == SignHash \X Nodes

Init ==
  /\ vote = [n \in Nodes |-> [id \in Ids |-> None]]
  /\ pendingSigns = [n \in Nodes |-> {}]
  /\ sigShares = [n \in Nodes |-> {}]
  /\ shareMsgs = {}
  /\ recSig = [n \in Nodes |-> {}]
  /\ recHash = [n \in Nodes |-> {}]
  /\ recSigMsgs = {}
  /\ interrupts = [n \in Nodes |-> 0]

HasRecoveredSigForId(n, id) == \E rs \in recSig[n] : rs.id = id

\* The members whose share of session s is in the set shares.
SharesOf(shares, s) == {m \in Nodes : <<s, m>> \in shares}
-----------------------------------------------------------------------------
\* Mutant: a node that is not a valid member signs too.
AsyncSignIfMemberAnyone(n, s, allowReSign) ==
  /\ \/ vote[n][s.id] = None
     \/ vote[n][s.id] = s.msg /\ allowReSign
  /\ ~HasRecoveredSigForId(n, s.id)
  /\ vote' = [vote EXCEPT ![n][s.id] = s.msg]
  /\ pendingSigns' = [pendingSigns EXCEPT ![n] = @ \cup {s}]
  /\ UNCHANGED <<sigShares, shareMsgs, recSig, recHash, recSigMsgs, interrupts>>

\* Mutant: the sign hash is stored in place of the message hash.
AsyncSignIfMemberSignHash(n, s, allowReSign) ==
  /\ n \in Members[s.quorum]
  /\ \/ vote[n][s.id] = None
     \/ vote[n][s.id] = s.msg /\ allowReSign
  /\ ~HasRecoveredSigForId(n, s.id)
  /\ vote' = [vote EXCEPT ![n][s.id] = s]
  /\ pendingSigns' = [pendingSigns EXCEPT ![n] = @ \cup {s}]
  /\ UNCHANGED <<sigShares, shareMsgs, recSig, recHash, recSigMsgs, interrupts>>

\* Mutant: the vote is not recorded before the share is queued.
AsyncSignIfMemberNoVote(n, s, allowReSign) ==
  /\ n \in Members[s.quorum]
  /\ \/ vote[n][s.id] = None
     \/ vote[n][s.id] = s.msg /\ allowReSign
  /\ ~HasRecoveredSigForId(n, s.id)
  /\ pendingSigns' = [pendingSigns EXCEPT ![n] = @ \cup {s}]
  /\ UNCHANGED <<vote, sigShares, shareMsgs, recSig, recHash, recSigMsgs, interrupts>>

\* A caller (ChainLocks, InstantSend) asks n to sign s.msg under s.id.  The
\* quorum is the one SelectQuorumForSigning picks for the chain tip n sees.
\* The early returns (not a valid member, voted for another message, voted
\* for this one without allowReSign, a recovered signature is known) change
\* nothing.
AsyncSignIfMember(n, s, allowReSign) ==
  /\ n \in Members[s.quorum]
  /\ \/ vote[n][s.id] = None
     \/ vote[n][s.id] = s.msg /\ allowReSign
  /\ ~HasRecoveredSigForId(n, s.id)
  /\ vote' = [vote EXCEPT ![n][s.id] = s.msg]
  /\ pendingSigns' = [pendingSigns EXCEPT ![n] = @ \cup {s}]
  /\ UNCHANGED <<sigShares, shareMsgs, recSig, recHash, recSigMsgs, interrupts>>

\* CSigningManager::ProcessRecoveredSig: nothing happens if the hash is known
\* or if the id already has a recovered signature (the same or a conflicting
\* one); otherwise it is stored, relayed, and the listeners are called, of
\* which CSigSharesManager drops its shares of the session.
ProcessRecoveredSig(n, rs, shares) ==
  IF rs \in recHash[n] \/ HasRecoveredSigForId(n, rs.id)
  THEN /\ sigShares' = [sigShares EXCEPT ![n] = shares]
       /\ UNCHANGED <<recSig, recHash, recSigMsgs>>
  ELSE /\ recSig' = [recSig EXCEPT ![n] = @ \cup {rs}]
       /\ recHash' = [recHash EXCEPT ![n] = @ \cup {rs}]
       /\ recSigMsgs' = recSigMsgs \cup {rs}
       /\ sigShares' = [sigShares EXCEPT ![n] = {sh \in shares : sh[1] # rs}]

\* Mutant: recovery is attempted one share below the threshold.
ProcessSigShareEarly(n, s, m) ==
  IF HasRecoveredSigForId(n, s.id) \/ <<s, m>> \in sigShares[n]
  THEN UNCHANGED <<sigShares, recSig, recHash, recSigMsgs>>
  ELSE LET shares == sigShares[n] \cup {<<s, m>>}
       IN IF Cardinality(SharesOf(shares, s)) >= Threshold - 1
          THEN ProcessRecoveredSig(n, s, shares)
          ELSE /\ sigShares' = [sigShares EXCEPT ![n] = shares]
               /\ UNCHANGED <<recSig, recHash, recSigMsgs>>

\* CSigSharesManager::ProcessSigShare and TryRecoverSig for member m's
\* verified share of session s: a share of a session whose id is already
\* signed, or a known share, is dropped; the share that completes the
\* threshold makes n recover the signature.
ProcessSigShare(n, s, m) ==
  IF HasRecoveredSigForId(n, s.id) \/ <<s, m>> \in sigShares[n]
  THEN UNCHANGED <<sigShares, recSig, recHash, recSigMsgs>>
  ELSE LET shares == sigShares[n] \cup {<<s, m>>}
       IN IF Cardinality(SharesOf(shares, s)) >= Threshold
          THEN ProcessRecoveredSig(n, s, shares)
          ELSE /\ sigShares' = [sigShares EXCEPT ![n] = shares]
               /\ UNCHANGED <<recSig, recHash, recSigMsgs>>

\* SignPendingSigShares for one queued session: CreateSigShare signs it with
\* n's key share.  With all members connected the share is then sent to the
\* recovery members whether or not ProcessSigShare kept it (signedSessions);
\* otherwise only a share that was kept is announced.
SignPendingSigShares(n, s) ==
  /\ s \in pendingSigns[n]
  /\ pendingSigns' = [pendingSigns EXCEPT ![n] = @ \ {s}]
  /\ ProcessSigShare(n, s, n)
  /\ shareMsgs' = IF AllConnected \/ ~HasRecoveredSigForId(n, s.id)
                  THEN shareMsgs \cup {<<s, n>>} ELSE shareMsgs
  /\ UNCHANGED <<vote, interrupts>>

\* A share that some member sent reaches n (ProcessMessageSigShare,
\* ProcessMessageBatchedSigShares), is verified and processed.  Only members
\* of the quorum hold its verification vector.
ReceiveSigShare(n, s, m) ==
  /\ <<s, m>> \in shareMsgs
  /\ n \in Members[s.quorum]
  /\ m \in Members[s.quorum]
  /\ ProcessSigShare(n, s, m)
  /\ UNCHANGED <<vote, pendingSigns, shareMsgs, interrupts>>

\* A relayed recovered signature reaches n, is verified and processed.
ReceiveRecoveredSig(n, rs) ==
  /\ rs \in recSigMsgs
  /\ ProcessRecoveredSig(n, rs, sigShares[n])
  /\ UNCHANGED <<vote, pendingSigns, shareMsgs, interrupts>>

\* TruncateRecoveredSig: the signature is forgotten, its hash key is not.
TruncateRecoveredSig(n, rs) ==
  /\ rs \in recSig[n]
  /\ recSig' = [recSig EXCEPT ![n] = @ \ {rs}]
  /\ UNCHANGED <<vote, pendingSigns, sigShares, shareMsgs, recHash, recSigMsgs, interrupts>>

\* CleanupOldRecoveredSigs: after -maxrecsigsage the signature and its hash
\* key are erased.
CleanupOldRecoveredSigs(n, rs) ==
  /\ rs \in recSig[n]
  /\ recSig' = [recSig EXCEPT ![n] = @ \ {rs}]
  /\ recHash' = [recHash EXCEPT ![n] = @ \ {rs}]
  /\ UNCHANGED <<vote, pendingSigns, sigShares, shareMsgs, recSigMsgs, interrupts>>

\* CleanupOldVotes: a vote older than -maxrecsigsage is erased.  The model
\* has no clock: Forgetful is the set of nodes on which this happens while
\* the id is still in use (it also covers a node restarted with a wiped
\* recsigdb).
ForgetVote(n, id) ==
  /\ n \in Forgetful
  /\ vote[n][id] # None
  /\ vote' = [vote EXCEPT ![n][id] = None]
  /\ UNCHANGED <<pendingSigns, sigShares, shareMsgs, recSig, recHash, recSigMsgs, interrupts>>

\* CSigSharesManager::Cleanup: a session that saw no new share for
\* SESSION_NEW_SHARES_TIMEOUT is dropped (RemoveSigSharesForSession).
SessionTimeout(n, s) ==
  /\ interrupts[n] < MaxInterrupts
  /\ SharesOf(sigShares[n], s) # {}
  /\ interrupts' = [interrupts EXCEPT ![n] = @ + 1]
  /\ sigShares' = [sigShares EXCEPT ![n] = {sh \in @ : sh[1] # s}]
  /\ UNCHANGED <<vote, pendingSigns, shareMsgs, recSig, recHash, recSigMsgs>>

\* The node stops and starts again: queues and shares are in memory, votes
\* and recovered signatures are in recsigdb.
Restart(n) ==
  /\ interrupts[n] < MaxInterrupts
  /\ interrupts' = [interrupts EXCEPT ![n] = @ + 1]
  /\ pendingSigns' = [pendingSigns EXCEPT ![n] = {}]
  /\ sigShares' = [sigShares EXCEPT ![n] = {}]
  /\ UNCHANGED <<vote, shareMsgs, recSig, recHash, recSigMsgs>>

Next ==
  \E n \in Nodes :
    \/ \E s \in SignHash, allowReSign \in BOOLEAN : AsyncSignIfMember(n, s, allowReSign)
    \/ \E s \in SignHash : SignPendingSigShares(n, s)
    \/ \E s \in SignHash, m \in Nodes : ReceiveSigShare(n, s, m)
    \/ \E rs \in SignHash : ReceiveRecoveredSig(n, rs)
    \/ \E rs \in SignHash : TruncateRecoveredSig(n, rs)
    \/ \E rs \in SignHash : CleanupOldRecoveredSigs(n, rs)
    \/ \E id \in Ids : ForgetVote(n, id)
    \/ \E s \in SignHash : SessionTimeout(n, s)
    \/ Restart(n)

Spec == Init /\ [][Next]_vars
-----------------------------------------------------------------------------
\* The state of every node and of the network is well formed.
TypeOK ==
  /\ vote \in [Nodes -> [Ids -> Msgs \cup {None}]]
  /\ pendingSigns \in [Nodes -> SUBSET SignHash]
  /\ sigShares \in [Nodes -> SUBSET Share]
  /\ shareMsgs \in SUBSET Share
  /\ recSig \in [Nodes -> SUBSET SignHash]
  /\ recHash \in [Nodes -> SUBSET SignHash]
  /\ recSigMsgs \in SUBSET SignHash
  /\ interrupts \in [Nodes -> 0..MaxInterrupts]

\* A share, queued or sent, is for the message its member's vote on disk
\* names: AsyncSignIfMember records the vote before it queues the share, so
\* neither a restart nor a second request makes a member sign two messages.
SharesFollowVotes ==
  \A m \in Nodes \ Forgetful, s \in SignHash :
    s \in pendingSigns[m] \/ <<s, m>> \in shareMsgs => vote[m][s.id] = s.msg

\* Only valid members of the quorum sign, and a node holds no share that its
\* member did not send.
SharesAreGenuine ==
  /\ \A n \in Nodes : sigShares[n] \subseteq shareMsgs
  /\ \A n \in Nodes : \A s \in pendingSigns[n] : n \in Members[s.quorum]
  /\ \A sh \in shareMsgs : sh[2] \in Members[sh[1].quorum]

\* A recovered signature rests on the shares of Threshold distinct members
\* (TryRecoverSig combines no fewer), and a node stores only relayed ones.
RecoveredByThreshold ==
  /\ \A rs \in recSigMsgs : Cardinality(SharesOf(shareMsgs, rs)) >= Threshold
  /\ \A n \in Nodes : recSig[n] \subseteq recSigMsgs

\* A node stores at most one recovered signature per id: ProcessRecoveredSig
\* drops every later one, the same or conflicting.
OneRecoveredSigPerId ==
  \A n \in Nodes : \A rs1, rs2 \in recSig[n] : rs1.id = rs2.id => rs1 = rs2

\* One quorum never signs two messages under one id, whatever the members'
\* views, restarts, timeouts and the order of messages.
OneMsgPerQuorumAndId ==
  \A rs1, rs2 \in recSigMsgs :
    rs1.quorum = rs2.quorum /\ rs1.id = rs2.id => rs1.msg = rs2.msg

\* The signing subsystem as its callers see it.
Agreement == INSTANCE SigningAgreement
               WITH Signatures <- SignHash, signed <- recSigMsgs, known <- recSig

\* Votes, shares and messages implement the abstract agreement: every step
\* of a node adds at most one signature to what it holds, never one that
\* conflicts with what its quorum signed before, or drops one.
ImplementsAgreement == Agreement!Spec

\* Threshold is large enough for two sets of signers of one quorum to share
\* a member that never forgets a vote (params.h: "at least 50%+1").
MajorityThreshold ==
  \A q \in Quorums :
    Cardinality(Members[q]) + Cardinality(Members[q] \cap Forgetful) < 2 * Threshold
=============================================================================
