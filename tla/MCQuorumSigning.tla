-------------------------- MODULE MCQuorumSigning --------------------------
(***************************************************************************)
(* Instances of QuorumSigning for TLC.                                     *)
(***************************************************************************)
EXTENDS QuorumSigning, TLC

\* Node 3 is not a member of any quorum.
MCWithOutsider == [q \in Quorums |-> Nodes \ {3}]

\* Messages are interchangeable; the nodes are not, some are singled out.
MCMsgSymmetry == Permutations(Msgs)
=============================================================================
