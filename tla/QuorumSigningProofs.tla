------------------------ MODULE QuorumSigningProofs ------------------------
(***************************************************************************)
(* Proofs about QuorumSigning, for every set of nodes, quorums, ids and    *)
(* messages: the inductive invariant and, when the threshold is a majority *)
(* of the valid members, that a quorum signs one message per id.           *)
(***************************************************************************)
EXTENDS QuorumSigning, FiniteSetTheorems, TLAPS

\* The inductive invariant: votes are on disk before shares exist, shares
\* are genuine, and recovered signatures rest on Threshold of them.
IInv ==
  /\ TypeOK
  /\ SharesFollowVotes
  /\ SharesAreGenuine
  /\ RecoveredByThreshold

\* Adding shares never takes a signer of a session away.
LEMMA SharesOfMonotonic ==
  ASSUME NEW S, NEW T, S \subseteq T, NEW s
  PROVE  /\ SharesOf(S, s) \subseteq SharesOf(T, s)
         /\ IsFiniteSet(SharesOf(T, s))
         /\ Cardinality(SharesOf(S, s)) <= Cardinality(SharesOf(T, s))
         /\ Cardinality(SharesOf(T, s)) \in Nat
<1>1. SharesOf(S, s) \subseteq SharesOf(T, s) /\ SharesOf(T, s) \subseteq Nodes
  BY DEF SharesOf
<1>2. IsFiniteSet(SharesOf(T, s))
  BY <1>1, NodesAssumption, FS_Subset
<1>3. QED
  BY <1>1, <1>2, FS_Subset, FS_CardinalityType

\* Two sets of Threshold signers of one quorum have a member in common that
\* never forgets a vote, if the threshold is a majority.
LEMMA MajoritiesIntersect ==
  ASSUME MajorityThreshold, NEW q \in Quorums,
         NEW A, NEW B, A \subseteq Members[q], B \subseteq Members[q],
         Cardinality(A) >= Threshold, Cardinality(B) >= Threshold
  PROVE  \E m \in A \cap B : m \notin Forgetful
<1> DEFINE M == Members[q]
           F == Members[q] \cap Forgetful
<1>1. IsFiniteSet(M)
  BY NodesAssumption, MembersAssumption, FS_Subset
<1>2. IsFiniteSet(A) /\ IsFiniteSet(B) /\ IsFiniteSet(F) /\ IsFiniteSet(A \cup B) /\ IsFiniteSet(A \cap B)
  <2>1. A \cup B \subseteq M /\ A \cap B \subseteq M /\ F \subseteq M
    OBVIOUS
  <2>2. QED
    BY <1>1, <2>1, FS_Subset
<1>3. /\ Cardinality(A) \in Nat /\ Cardinality(B) \in Nat /\ Cardinality(F) \in Nat
      /\ Cardinality(A \cup B) \in Nat /\ Cardinality(A \cap B) \in Nat
      /\ Cardinality(M) \in Nat
  BY <1>1, <1>2, FS_CardinalityType
<1>4. Cardinality(A \cup B) <= Cardinality(M)
  BY <1>1, FS_Subset
<1>5. Cardinality(A \cup B) = Cardinality(A) + Cardinality(B) - Cardinality(A \cap B)
  BY <1>2, FS_Union
<1>6. Cardinality(M) + Cardinality(F) < 2 * Threshold
  BY DEF MajorityThreshold
<1>7. Cardinality(A \cap B) > Cardinality(F)
  BY <1>3, <1>4, <1>5, <1>6, ThresholdAssumption
<1>8. ~(A \cap B \subseteq F)
  <2>1. SUFFICES ASSUME A \cap B \subseteq F PROVE FALSE
    OBVIOUS
  <2>2. Cardinality(A \cap B) <= Cardinality(F)
    BY <1>2, <2>1, FS_Subset
  <2>3. QED
    BY <1>3, <1>7, <2>2
<1>9. QED
  BY <1>8

\* What ProcessRecoveredSig may change: it stores and relays at most rs and
\* only drops shares.
LEMMA ProcessRecoveredSigEffect ==
  ASSUME TypeOK, NEW n \in Nodes, NEW rs \in SignHash, NEW shares \in SUBSET Share,
         ProcessRecoveredSig(n, rs, shares)
  PROVE  /\ sigShares' \in [Nodes -> SUBSET Share]
         /\ recSig' \in [Nodes -> SUBSET SignHash]
         /\ recHash' \in [Nodes -> SUBSET SignHash]
         /\ recSigMsgs' \in SUBSET SignHash
         /\ \A k \in Nodes : sigShares'[k] \subseteq IF k = n THEN shares ELSE sigShares[k]
         /\ recSigMsgs \subseteq recSigMsgs' /\ recSigMsgs' \subseteq recSigMsgs \cup {rs}
         /\ (\A k \in Nodes : recSig[k] \subseteq recSigMsgs)
               => (\A k \in Nodes : recSig'[k] \subseteq recSigMsgs')
<1>1. CASE rs \in recHash[n] \/ HasRecoveredSigForId(n, rs.id)
  BY <1>1 DEF ProcessRecoveredSig, TypeOK
<1>2. CASE ~(rs \in recHash[n] \/ HasRecoveredSigForId(n, rs.id))
  <2>1. /\ recSig' = [recSig EXCEPT ![n] = @ \cup {rs}]
        /\ recHash' = [recHash EXCEPT ![n] = @ \cup {rs}]
        /\ recSigMsgs' = recSigMsgs \cup {rs}
        /\ sigShares' = [sigShares EXCEPT ![n] = {sh \in shares : sh[1] # rs}]
    BY <1>2 DEF ProcessRecoveredSig
  <2>2. {sh \in shares : sh[1] # rs} \subseteq shares
    OBVIOUS
  <2>3. /\ recSig' \in [Nodes -> SUBSET SignHash]
        /\ recHash' \in [Nodes -> SUBSET SignHash]
        /\ recSigMsgs' \in SUBSET SignHash
    BY <2>1 DEF TypeOK
  <2>4. sigShares' \in [Nodes -> SUBSET Share]
    BY <2>1, <2>2 DEF TypeOK
  <2>5. \A k \in Nodes : sigShares'[k] \subseteq IF k = n THEN shares ELSE sigShares[k]
    BY <2>1, <2>2 DEF TypeOK
  <2>6. QED
    BY <2>1, <2>3, <2>4, <2>5 DEF TypeOK
<1>3. QED
  BY <1>1, <1>2

\* What ProcessSigShare may change: a new signature is relayed only if the
\* shares held and the new one reach the threshold.
LEMMA ProcessSigShareEffect ==
  ASSUME TypeOK, NEW n \in Nodes, NEW s \in SignHash, NEW m \in Nodes,
         ProcessSigShare(n, s, m)
  PROVE  /\ sigShares' \in [Nodes -> SUBSET Share]
         /\ recSig' \in [Nodes -> SUBSET SignHash]
         /\ recHash' \in [Nodes -> SUBSET SignHash]
         /\ recSigMsgs' \in SUBSET SignHash
         /\ \A k \in Nodes : sigShares'[k] \subseteq sigShares[k] \cup {<<s, m>>}
         /\ recSigMsgs \subseteq recSigMsgs' /\ recSigMsgs' \subseteq recSigMsgs \cup {s}
         /\ recSigMsgs' # recSigMsgs =>
              Cardinality(SharesOf(sigShares[n] \cup {<<s, m>>}, s)) >= Threshold
         /\ (\A k \in Nodes : recSig[k] \subseteq recSigMsgs)
               => (\A k \in Nodes : recSig'[k] \subseteq recSigMsgs')
<1> DEFINE shares == sigShares[n] \cup {<<s, m>>}
<1>1. CASE HasRecoveredSigForId(n, s.id) \/ <<s, m>> \in sigShares[n]
  BY <1>1 DEF ProcessSigShare, TypeOK
<1>2. CASE /\ ~(HasRecoveredSigForId(n, s.id) \/ <<s, m>> \in sigShares[n])
           /\ Cardinality(SharesOf(shares, s)) >= Threshold
  <2>1. ProcessRecoveredSig(n, s, shares)
    BY <1>2 DEF ProcessSigShare
  <2>2. shares \in SUBSET Share
    BY DEF TypeOK, Share
  <2>3. QED
    BY <1>2, <2>1, <2>2, ProcessRecoveredSigEffect
<1>3. CASE /\ ~(HasRecoveredSigForId(n, s.id) \/ <<s, m>> \in sigShares[n])
           /\ ~(Cardinality(SharesOf(shares, s)) >= Threshold)
  <2>1. /\ sigShares' = [sigShares EXCEPT ![n] = shares]
        /\ UNCHANGED <<recSig, recHash, recSigMsgs>>
    BY <1>3 DEF ProcessSigShare
  <2>2. shares \in SUBSET Share
    BY DEF TypeOK, Share
  <2>3. QED
    BY <2>1, <2>2 DEF TypeOK
<1>4. QED
  BY <1>1, <1>2, <1>3

\* The initial states satisfy the inductive invariant.
LEMMA InitIInv == Init => IInv
BY InterruptsAssumption DEF Init, IInv, TypeOK, SharesFollowVotes, SharesAreGenuine,
   RecoveredByThreshold

\* SignPendingSigShares and ReceiveSigShare both add one share of a member to
\* what circulates and to what n holds; the invariant survives that.
LEMMA ShareStep ==
  ASSUME IInv, NEW n \in Nodes, NEW s \in SignHash, NEW m \in Nodes,
         m \in Members[s.quorum], m \in Forgetful \/ vote[m][s.id] = s.msg,
         ProcessSigShare(n, s, m),
         shareMsgs' \in {shareMsgs, shareMsgs \cup {<<s, m>>}},
         <<s, m>> \in shareMsgs' \/ UNCHANGED <<sigShares, recSig, recHash, recSigMsgs>>,
         \A k \in Nodes : pendingSigns'[k] \subseteq pendingSigns[k],
         pendingSigns' \in [Nodes -> SUBSET SignHash],
         UNCHANGED <<vote, interrupts>>
  PROVE  IInv'
<1> USE DEF IInv
<1>0. /\ sigShares' \in [Nodes -> SUBSET Share]
      /\ recSig' \in [Nodes -> SUBSET SignHash]
      /\ recHash' \in [Nodes -> SUBSET SignHash]
      /\ recSigMsgs' \in SUBSET SignHash
      /\ \A k \in Nodes : sigShares'[k] \subseteq sigShares[k] \cup {<<s, m>>}
      /\ recSigMsgs \subseteq recSigMsgs' /\ recSigMsgs' \subseteq recSigMsgs \cup {s}
      /\ recSigMsgs' # recSigMsgs =>
           Cardinality(SharesOf(sigShares[n] \cup {<<s, m>>}, s)) >= Threshold
      /\ \A k \in Nodes : recSig'[k] \subseteq recSigMsgs'
  BY ProcessSigShareEffect DEF RecoveredByThreshold
<1>1. TypeOK'
  BY <1>0 DEF TypeOK, Share
<1>2. SharesFollowVotes'
  BY DEF SharesFollowVotes, TypeOK
<1>3. SharesAreGenuine'
  <2>1. \A k \in Nodes : sigShares'[k] \subseteq shareMsgs'
    BY <1>0 DEF SharesAreGenuine
  <2>2. QED
    BY <2>1 DEF SharesAreGenuine, TypeOK, Share
<1>4. RecoveredByThreshold'
  <2>1. ASSUME NEW rs \in recSigMsgs' PROVE Cardinality(SharesOf(shareMsgs', rs)) >= Threshold
    <3>1. CASE rs \in recSigMsgs
      <4>1. shareMsgs \subseteq shareMsgs'
        OBVIOUS
      <4>2. Cardinality(SharesOf(shareMsgs, rs)) >= Threshold
        BY <3>1 DEF RecoveredByThreshold
      <4>3. Cardinality(SharesOf(shareMsgs, rs)) \in Nat
        BY SharesOfMonotonic
      <4>4. QED
        BY <4>1, <4>2, <4>3, SharesOfMonotonic, ThresholdAssumption
    <3>2. CASE rs \notin recSigMsgs
      <4>1. rs = s /\ recSigMsgs' # recSigMsgs
        BY <1>0, <3>2, <2>1
      <4> DEFINE S == sigShares[n] \cup {<<s, m>>}
      <4>2. S \subseteq shareMsgs'
        BY <4>1 DEF SharesAreGenuine
      <4>3. Cardinality(SharesOf(S, s)) >= Threshold
        BY <1>0, <4>1
      <4>4. Cardinality(SharesOf(S, s)) \in Nat
        BY SharesOfMonotonic
      <4>5. /\ Cardinality(SharesOf(S, s)) <= Cardinality(SharesOf(shareMsgs', s))
            /\ Cardinality(SharesOf(shareMsgs', s)) \in Nat
        <5> HIDE DEF S
        <5> QED BY <4>2, SharesOfMonotonic
      <4>6. QED
        BY <4>1, <4>3, <4>4, <4>5, ThresholdAssumption
    <3>3. QED
      BY <3>1, <3>2
  <2>2. QED
    BY <2>1, <1>0 DEF RecoveredByThreshold, SharesOf
<1>5. QED
  BY <1>1, <1>2, <1>3, <1>4

\* The inductive step: every action of every node keeps the invariant.
LEMMA NextIInv == IInv /\ [Next]_vars => IInv'
<1> USE DEF IInv
<1>1. SUFFICES ASSUME IInv, [Next]_vars PROVE IInv'
  OBVIOUS
<1>2. CASE UNCHANGED vars
  BY <1>1, <1>2 DEF vars, TypeOK, SharesFollowVotes, SharesAreGenuine, RecoveredByThreshold,
     SharesOf
<1>3. ASSUME NEW n \in Nodes, NEW s \in SignHash, NEW r \in BOOLEAN, AsyncSignIfMember(n, s, r)
      PROVE  IInv'
  <2>1. s.id \in Ids /\ s.msg \in Msgs /\ s.msg # None
    BY NoneAssumption DEF SignHash
  <2>2. vote[n][s.id] = None \/ vote[n][s.id] = s.msg
    BY <1>3 DEF AsyncSignIfMember
  <2>3. /\ n \in Members[s.quorum]
        /\ vote' = [vote EXCEPT ![n][s.id] = s.msg]
        /\ pendingSigns' = [pendingSigns EXCEPT ![n] = @ \cup {s}]
        /\ UNCHANGED <<sigShares, shareMsgs, recSig, recHash, recSigMsgs, interrupts>>
    BY <1>3 DEF AsyncSignIfMember
  <2>4. TypeOK'
    BY <1>1, <2>1, <2>3 DEF TypeOK
  <2>5. SharesFollowVotes'
    <3>1. SUFFICES ASSUME NEW m \in Nodes \ Forgetful, NEW t \in SignHash,
                          t \in pendingSigns'[m] \/ <<t, m>> \in shareMsgs'
                   PROVE  vote'[m][t.id] = t.msg
      BY DEF SharesFollowVotes
    <3>2. t.id \in Ids /\ t.msg # None
      BY NoneAssumption DEF SignHash
    <3>3. CASE t \in pendingSigns[m] \/ <<t, m>> \in shareMsgs
      <4>1. vote[m][t.id] = t.msg
        BY <1>1, <3>3 DEF SharesFollowVotes
      <4>2. QED
        BY <1>1, <2>1, <2>2, <2>3, <3>2, <4>1 DEF TypeOK
    <3>4. CASE m = n /\ t = s
      BY <1>1, <2>1, <2>3, <3>4 DEF TypeOK
    <3>5. QED
      BY <1>1, <2>3, <3>1, <3>3, <3>4 DEF TypeOK
  <2>6. SharesAreGenuine' /\ RecoveredByThreshold'
    BY <1>1, <2>3 DEF TypeOK, SharesAreGenuine, RecoveredByThreshold, SharesOf
  <2>7. QED
    BY <2>4, <2>5, <2>6
<1>4. ASSUME NEW n \in Nodes, NEW s \in SignHash, SignPendingSigShares(n, s)
      PROVE  IInv'
  <2>1. n \in Members[s.quorum] /\ (n \in Forgetful \/ vote[n][s.id] = s.msg)
    BY <1>1, <1>4 DEF SignPendingSigShares, SharesAreGenuine, SharesFollowVotes
  <2>2. <<s, n>> \in shareMsgs' \/ UNCHANGED <<sigShares, recSig, recHash, recSigMsgs>>
    BY <1>4 DEF SignPendingSigShares, ProcessSigShare
  <2>3. /\ ProcessSigShare(n, s, n)
        /\ shareMsgs' \in {shareMsgs, shareMsgs \cup {<<s, n>>}}
        /\ \A k \in Nodes : pendingSigns'[k] \subseteq pendingSigns[k]
        /\ pendingSigns' \in [Nodes -> SUBSET SignHash]
        /\ UNCHANGED <<vote, interrupts>>
    BY <1>1, <1>4 DEF SignPendingSigShares, TypeOK
  <2>4. QED
    BY <1>1, <2>1, <2>2, <2>3, ShareStep
<1>5. ASSUME NEW n \in Nodes, NEW s \in SignHash, NEW m \in Nodes, ReceiveSigShare(n, s, m)
      PROVE  IInv'
  <2>1. /\ m \in Members[s.quorum]
        /\ m \in Forgetful \/ vote[m][s.id] = s.msg
    BY <1>1, <1>5 DEF ReceiveSigShare, SharesFollowVotes
  <2>2. /\ ProcessSigShare(n, s, m)
        /\ shareMsgs' \in {shareMsgs, shareMsgs \cup {<<s, m>>}}
        /\ <<s, m>> \in shareMsgs'
        /\ \A k \in Nodes : pendingSigns'[k] \subseteq pendingSigns[k]
        /\ pendingSigns' \in [Nodes -> SUBSET SignHash]
        /\ UNCHANGED <<vote, interrupts>>
    BY <1>1, <1>5 DEF ReceiveSigShare, TypeOK
  <2>3. QED
    BY <1>1, <2>1, <2>2, ShareStep
<1>6. ASSUME NEW n \in Nodes, NEW rs \in SignHash, ReceiveRecoveredSig(n, rs)
      PROVE  IInv'
  <2>1. /\ rs \in recSigMsgs
        /\ ProcessRecoveredSig(n, rs, sigShares[n])
        /\ UNCHANGED <<vote, pendingSigns, shareMsgs, interrupts>>
    BY <1>6 DEF ReceiveRecoveredSig
  <2>2. sigShares[n] \in SUBSET Share
    BY <1>1 DEF TypeOK
  <2>3. /\ sigShares' \in [Nodes -> SUBSET Share]
        /\ recSig' \in [Nodes -> SUBSET SignHash]
        /\ recHash' \in [Nodes -> SUBSET SignHash]
        /\ \A k \in Nodes : sigShares'[k] \subseteq sigShares[k]
        /\ recSigMsgs' = recSigMsgs
        /\ \A k \in Nodes : recSig'[k] \subseteq recSigMsgs'
    <3>1. /\ sigShares' \in [Nodes -> SUBSET Share]
          /\ recSig' \in [Nodes -> SUBSET SignHash]
          /\ recHash' \in [Nodes -> SUBSET SignHash]
          /\ \A k \in Nodes : sigShares'[k] \subseteq IF k = n THEN sigShares[n] ELSE sigShares[k]
          /\ recSigMsgs \subseteq recSigMsgs' /\ recSigMsgs' \subseteq recSigMsgs \cup {rs}
          /\ (\A k \in Nodes : recSig[k] \subseteq recSigMsgs)
                => (\A k \in Nodes : recSig'[k] \subseteq recSigMsgs')
      BY <1>1, <2>1, <2>2, ProcessRecoveredSigEffect
    <3>2. QED
      BY <1>1, <2>1, <3>1 DEF RecoveredByThreshold
  <2>4. TypeOK' /\ SharesFollowVotes'
    BY <1>1, <2>1, <2>3 DEF TypeOK, SharesFollowVotes
  <2>5. SharesAreGenuine' /\ RecoveredByThreshold'
    BY <1>1, <2>1, <2>3 DEF SharesAreGenuine, RecoveredByThreshold, SharesOf
  <2>6. QED
    BY <2>4, <2>5
<1>7. ASSUME NEW n \in Nodes, NEW rs \in SignHash,
             TruncateRecoveredSig(n, rs) \/ CleanupOldRecoveredSigs(n, rs)
      PROVE  IInv'
  <2>1. /\ recSig' = [recSig EXCEPT ![n] = @ \ {rs}]
        /\ recHash' \in [Nodes -> SUBSET SignHash]
        /\ UNCHANGED <<vote, pendingSigns, sigShares, shareMsgs, recSigMsgs, interrupts>>
    BY <1>1, <1>7 DEF TruncateRecoveredSig, CleanupOldRecoveredSigs, TypeOK
  <2>2. QED
    BY <1>1, <2>1 DEF TypeOK, SharesFollowVotes, SharesAreGenuine, RecoveredByThreshold, SharesOf
<1>8. ASSUME NEW n \in Nodes, NEW id \in Ids, ForgetVote(n, id)
      PROVE  IInv'
  BY <1>1, <1>8 DEF ForgetVote, TypeOK, SharesFollowVotes, SharesAreGenuine,
     RecoveredByThreshold, SharesOf
<1>9. ASSUME NEW n \in Nodes, \/ \E s \in SignHash : SessionTimeout(n, s)
                              \/ Restart(n)
      PROVE  IInv'
  <2>1. /\ interrupts[n] < MaxInterrupts
        /\ interrupts' = [interrupts EXCEPT ![n] = @ + 1]
        /\ sigShares' \in [Nodes -> SUBSET Share]
        /\ pendingSigns' \in [Nodes -> SUBSET SignHash]
        /\ \A k \in Nodes : sigShares'[k] \subseteq sigShares[k]
        /\ \A k \in Nodes : pendingSigns'[k] \subseteq pendingSigns[k]
        /\ UNCHANGED <<vote, shareMsgs, recSig, recHash, recSigMsgs>>
    BY <1>1, <1>9 DEF SessionTimeout, Restart, TypeOK
  <2>2. TypeOK'
    BY <1>1, <2>1, InterruptsAssumption DEF TypeOK
  <2>3. SharesFollowVotes' /\ SharesAreGenuine' /\ RecoveredByThreshold'
    BY <1>1, <2>1 DEF SharesFollowVotes, SharesAreGenuine, RecoveredByThreshold, SharesOf
  <2>4. QED
    BY <2>2, <2>3
<1>10. QED
  BY <1>1, <1>2, <1>3, <1>4, <1>5, <1>6, <1>7, <1>8, <1>9 DEF Next

\* Every reachable state satisfies the inductive invariant, in particular:
\* no member that keeps its votes ever has shares for two messages of an id.
THEOREM Invariance == Spec => []IInv
BY InitIInv, NextIInv, PTL DEF Spec

\* The state stays well formed.
THEOREM TypeCorrect == Spec => []TypeOK
BY Invariance, PTL DEF IInv

\* A member that keeps its votes never signs against the vote on its disk,
\* through restarts, session timeouts and repeated requests.
THEOREM VotesBindShares == Spec => []SharesFollowVotes
BY Invariance, PTL DEF IInv

\* Only members of the quorum sign, and no node holds a share its member did
\* not send.
THEOREM SharesStayGenuine == Spec => []SharesAreGenuine
BY Invariance, PTL DEF IInv

\* Whatever the threshold, a recovered signature rests on the shares of that
\* many distinct members.
THEOREM RecoveryNeedsThreshold == Spec => []RecoveredByThreshold
BY Invariance, PTL DEF IInv

\* Node n adds rs to what it holds.
Learns(n, rs) ==
  /\ ~HasRecoveredSigForId(n, rs.id)
  /\ recSig' = [recSig EXCEPT ![n] = @ \cup {rs}]
  /\ recSigMsgs' = recSigMsgs \cup {rs}

\* Node n drops rs.
Forgets(n, rs) ==
  /\ rs \in recSig[n]
  /\ recSig' = [recSig EXCEPT ![n] = @ \ {rs}]
  /\ recSigMsgs' = recSigMsgs

\* What a step may do to the recovered signatures: nothing, or one node
\* learns or forgets one.
LEMMA StepsLearnOrForget ==
  ASSUME [Next]_vars
  PROVE  \/ UNCHANGED <<recSig, recSigMsgs>>
         \/ \E n \in Nodes, rs \in SignHash : Learns(n, rs)
         \/ \E n \in Nodes, rs \in SignHash : Forgets(n, rs)
<1>1. ASSUME NEW n \in Nodes, NEW rs \in SignHash, NEW shares, ProcessRecoveredSig(n, rs, shares)
      PROVE  UNCHANGED <<recSig, recSigMsgs>> \/ Learns(n, rs)
  BY <1>1 DEF ProcessRecoveredSig, Learns
<1>2. ASSUME NEW n \in Nodes, NEW s \in SignHash, NEW m \in Nodes, ProcessSigShare(n, s, m)
      PROVE  UNCHANGED <<recSig, recSigMsgs>> \/ Learns(n, s)
  BY <1>1, <1>2 DEF ProcessSigShare
<1>3. CASE UNCHANGED vars
  BY <1>3 DEF vars
<1>4. CASE \E n \in Nodes :
             \/ \E s \in SignHash, r \in BOOLEAN : AsyncSignIfMember(n, s, r)
             \/ \E id \in Ids : ForgetVote(n, id)
             \/ \E s \in SignHash : SessionTimeout(n, s)
             \/ Restart(n)
  BY <1>4 DEF AsyncSignIfMember, ForgetVote, SessionTimeout, Restart
<1>5. CASE \E n \in Nodes, s \in SignHash : SignPendingSigShares(n, s)
  BY <1>2, <1>5 DEF SignPendingSigShares
<1>6. CASE \E n \in Nodes, s \in SignHash, m \in Nodes : ReceiveSigShare(n, s, m)
  BY <1>2, <1>6 DEF ReceiveSigShare
<1>7. CASE \E n \in Nodes, rs \in SignHash : ReceiveRecoveredSig(n, rs)
  BY <1>1, <1>7 DEF ReceiveRecoveredSig
<1>8. CASE \E n \in Nodes, rs \in SignHash : TruncateRecoveredSig(n, rs) \/ CleanupOldRecoveredSigs(n, rs)
  BY <1>8 DEF TruncateRecoveredSig, CleanupOldRecoveredSigs, Forgets
<1>9. QED
  BY <1>3, <1>4, <1>5, <1>6, <1>7, <1>8 DEF Next

\* A node stores at most one recovered signature per id, whatever the
\* threshold: ProcessRecoveredSig drops every later one.
THEOREM OneStoredPerId == Spec => []OneRecoveredSigPerId
<1> DEFINE J == TypeOK /\ OneRecoveredSigPerId
<1>1. Init => J
  BY InitIInv DEF IInv, Init, OneRecoveredSigPerId
<1>2. TypeOK /\ TypeOK' /\ OneRecoveredSigPerId /\ [Next]_vars => OneRecoveredSigPerId'
  <2>1. SUFFICES ASSUME TypeOK, TypeOK', OneRecoveredSigPerId, [Next]_vars
                 PROVE  OneRecoveredSigPerId'
    OBVIOUS
  <2>2. CASE UNCHANGED recSig
    BY <2>1, <2>2 DEF OneRecoveredSigPerId
  <2>3. CASE \E n \in Nodes, rs \in SignHash : Learns(n, rs)
    <3>1. PICK n \in Nodes, rs \in SignHash : Learns(n, rs)
      BY <2>3
    <3>2. /\ recSig'[n] = recSig[n] \cup {rs}
          /\ \A k \in Nodes : k # n => recSig'[k] = recSig[k]
      BY <2>1, <3>1 DEF TypeOK, Learns
    <3>3. \A other \in recSig[n] : other.id # rs.id
      BY <3>1 DEF Learns, HasRecoveredSigForId
    <3>4. QED
      BY <2>1, <3>2, <3>3 DEF OneRecoveredSigPerId
  <2>4. CASE \E n \in Nodes, rs \in SignHash : Forgets(n, rs)
    <3>1. \A k \in Nodes : recSig'[k] \subseteq recSig[k]
      BY <2>1, <2>4 DEF TypeOK, Forgets
    <3>2. QED
      BY <2>1, <3>1 DEF OneRecoveredSigPerId
  <2>5. QED
    BY <2>1, <2>2, <2>3, <2>4, StepsLearnOrForget DEF vars
<1>3. QED
  BY <1>1, <1>2, TypeCorrect, PTL DEF Spec

\* With a majority threshold the inductive invariant leaves no room for two
\* signatures of one quorum under one id.
LEMMA InvariantAgrees ==
  ASSUME MajorityThreshold, IInv
  PROVE  OneMsgPerQuorumAndId
<1>1. SUFFICES ASSUME NEW rs1 \in recSigMsgs, NEW rs2 \in recSigMsgs,
                      rs1.quorum = rs2.quorum, rs1.id = rs2.id
               PROVE  rs1.msg = rs2.msg
  BY DEF OneMsgPerQuorumAndId
<1>2. rs1 \in SignHash /\ rs2 \in SignHash /\ rs1.quorum \in Quorums
  BY <1>1 DEF IInv, TypeOK, SignHash
<1> DEFINE A == SharesOf(shareMsgs, rs1)
           B == SharesOf(shareMsgs, rs2)
<1>3. A \subseteq Members[rs1.quorum] /\ B \subseteq Members[rs1.quorum]
  BY <1>1 DEF IInv, SharesAreGenuine, SharesOf
<1>4. Cardinality(A) >= Threshold /\ Cardinality(B) >= Threshold
  BY <1>1 DEF IInv, RecoveredByThreshold
<1>5. PICK m \in A \cap B : m \notin Forgetful
  <2> HIDE DEF A, B
  <2> QED BY <1>2, <1>3, <1>4, MajoritiesIntersect
<1>6. m \in Nodes \ Forgetful /\ <<rs1, m>> \in shareMsgs /\ <<rs2, m>> \in shareMsgs
  BY <1>5 DEF SharesOf
<1>7. QED
  BY <1>1, <1>2, <1>6 DEF IInv, SharesFollowVotes

\* With a majority threshold a quorum signs at most one message per id,
\* whatever the order of requests, messages, restarts and timeouts.
THEOREM QuorumAgrees ==
  ASSUME MajorityThreshold
  PROVE  Spec => []OneMsgPerQuorumAndId
<1>1. IInv => OneMsgPerQuorumAndId
  BY InvariantAgrees
<1>2. QED
  BY <1>1, Invariance, PTL

\* With a majority threshold, votes, shares and messages implement the
\* abstract agreement: every step is a step of SigningAgreement or leaves
\* the recovered signatures alone.
THEOREM RefinesAgreement ==
  ASSUME MajorityThreshold
  PROVE  Spec => ImplementsAgreement
<1>1. Init => Agreement!Init
  BY DEF Init, Agreement!Init
<1>2. IInv' /\ [Next]_vars => [Agreement!Next]_Agreement!vars
  <2>1. SUFFICES ASSUME IInv', [Next]_vars PROVE [Agreement!Next]_Agreement!vars
    OBVIOUS
  <2>2. OneMsgPerQuorumAndId'
    BY <2>1, InvariantAgrees, PTL
  <2>3. CASE UNCHANGED <<recSig, recSigMsgs>>
    BY <2>3 DEF Agreement!vars
  <2>4. ASSUME NEW n \in Nodes, NEW rs \in SignHash, Learns(n, rs)
        PROVE  Agreement!Learn(n, rs)
    <3>1. \A other \in recSig[n] : other.id # rs.id
      BY <2>4 DEF Learns, HasRecoveredSigForId
    <3>2. \A other \in recSigMsgs :
            other.quorum = rs.quorum /\ other.id = rs.id => other.msg = rs.msg
      BY <2>2, <2>4 DEF OneMsgPerQuorumAndId, Learns
    <3>3. QED
      BY <2>4, <3>1, <3>2 DEF Learns, Agreement!Learn
  <2>5. ASSUME NEW n \in Nodes, NEW rs \in SignHash, Forgets(n, rs)
        PROVE  Agreement!Forget(n, rs)
    BY <2>5 DEF Forgets, Agreement!Forget
  <2>6. QED
    BY <2>1, <2>3, <2>4, <2>5, StepsLearnOrForget DEF Agreement!Next
<1>3. QED
  BY <1>1, <1>2, Invariance, PTL DEF Spec, ImplementsAgreement, Agreement!Spec
=============================================================================
