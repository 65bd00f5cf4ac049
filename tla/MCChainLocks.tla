---------------------------- MODULE MCChainLocks ----------------------------
(***************************************************************************)
(* Instances of ChainLocks for TLC: block 0 is the genesis block, 1 the    *)
(* one on top of it; 12 and 22, 23 are two branches on top of 1.           *)
(***************************************************************************)
EXTENDS ChainLocks, TLC

MCShortLocked == {0, 1, 12, 22, 23}
MCParent == 1 :> 0 @@ 12 :> 1 @@ 22 :> 1 @@ 23 :> 22
MCHeight == 0 :> 0 @@ 1 :> 1 @@ 12 :> 2 @@ 22 :> 2 @@ 23 :> 3
MCChain == 0 :> {0} @@ 1 :> {0, 1} @@ 12 :> {0, 1, 12} @@ 22 :> {0, 1, 22} @@ 23 :> {0, 1, 22, 23}
=============================================================================
