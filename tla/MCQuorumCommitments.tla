------------------------ MODULE MCQuorumCommitments ------------------------
(***************************************************************************)
(* Instances of QuorumCommitments for TLC.                                 *)
(***************************************************************************)
EXTENDS QuorumCommitments, TLC

\* The quorum "q0" may end with one of two commitments, "q1" with one.
MCSigners == ("q0" :> 0..2) @@ ("q1" :> 0..1)
MCCommitments == UNION {[quorum : {q}, signers : MCSigners[q]] : q \in Quorums}
MCRelayed == {[quorum |-> "q0", signers |-> n] : n \in 1..2}

\* One commitment per quorum.
MCOneEach == [quorum : Quorums, signers : 0..1]
=============================================================================
