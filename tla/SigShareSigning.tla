-------------------------- MODULE SigShareSigning --------------------------
(***************************************************************************)
(* How SigShareExchange implements QuorumSigning: the exchange of shares   *)
(* between the managers, seen as shares that were sent and may arrive.     *)
(***************************************************************************)
EXTENDS SigShareExchange

\* The variables of QuorumSigning.
VotesOf(n) ==
  [id \in {SignHashOf[s].id : s \in Sessions} |->
     LET msgs == {SignHashOf[s].msg : s \in {r \in voted[n] : SignHashOf[r].id = id}}
     IN IF msgs = {} THEN "none" ELSE CHOOSE msg \in msgs : TRUE]
SignHashes(S) == {SignHashOf[s] : s \in S}
Shares(keys) == {<<SignHashOf[k[1]], k[2]>> : k \in keys}

Signing(AllConnected_) == INSTANCE QuorumSigning
  WITH Nodes <- Members,
       Quorums <- {SignHashOf[s].quorum : s \in Sessions},
       Ids <- {SignHashOf[s].id : s \in Sessions},
       Msgs <- {SignHashOf[s].msg : s \in Sessions},
       Members <- [q \in {SignHashOf[s].quorum : s \in Sessions} |-> Members],
       Forgetful <- {},
       AllConnected <- AllConnected_,
       MaxInterrupts <- MaxRetries,
       None <- "none",
       vote <- [n \in Members |-> VotesOf(n)],
       pendingSigns <- [n \in Members |-> SignHashes(mgr[n].pendingSigns)],
       sigShares <- [n \in Members |-> Shares(mgr[n].sigShares)],
       shareMsgs <- Shares(created),
       recSig <- [n \in Members |-> SignHashes(recovered[n])],
       recHash <- [n \in Members |-> SignHashes(recovered[n])],
       recSigMsgs <- SignHashes(UNION Range(recovered)),
       interrupts <- timeouts

\* What they are made of.
Seen == <<voted, created, recovered, timeouts,
          [n \in Members |-> <<mgr[n].pendingSigns, mgr[n].sigShares>>]>>

\* The exchange implements QuorumSigning, in which a share that was sent may
\* arrive at any moment: every step of a member changes nothing that
\* QuorumSigning sees or is one of its steps, so that what holds of all its
\* behaviours (a node stores one recovered signature per id, a quorum signs one
\* message per id) holds of the exchange.
ImplementsSigning ==
  /\ Signing(FALSE)!Init
  /\ [][Seen' # Seen =>
          IF AllConnected THEN Signing(TRUE)!Next ELSE Signing(FALSE)!Next]_vars
=============================================================================
