------------------------------ MODULE MCSporks ------------------------------
(***************************************************************************)
(* Instances of Sporks for TLC.                                            *)
(***************************************************************************)
EXTENDS Sporks

\* Node n signs with key n; key 3 belongs to nobody who runs a node.
MCPrivKey == [n \in Nodes |-> n]
MCNetwork == [keys |-> Keys, min |-> 2]

\* The network's setting, another signer set, and a minimum of half the keys.
MCConfigs == {MCNetwork, [keys |-> {1}, min |-> 1], [keys |-> {1, 2}, min |-> 1]}
=============================================================================
