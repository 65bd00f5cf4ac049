----------------------------- MODULE BlockTree -----------------------------
(***************************************************************************)
(* The tree of block headers (CBlockIndex in src/chain.h and src/chain.cpp), *)
(* which the models of ChainLocks and of InstantSend have in common.       *)
(***************************************************************************)
EXTENDS Integers

CONSTANTS
  Blocks, Genesis,
  Parent,       \* Parent[b]: pprev, for every block but Genesis
  Height,       \* Height[b]: nHeight
  Chain,        \* Chain[b]: b and its ancestors
  None

ASSUME TreeAssumption ==
  /\ Genesis \in Blocks /\ None \notin Blocks
  /\ Parent \in [Blocks \ {Genesis} -> Blocks]
  /\ Height \in [Blocks -> Nat]
  /\ Chain \in [Blocks -> SUBSET Blocks]
  /\ Chain[Genesis] = {Genesis} /\ Height[Genesis] = 0
  /\ \A b \in Blocks \ {Genesis} :
       Chain[b] = Chain[Parent[b]] \cup {b} /\ Height[b] = Height[Parent[b]] + 1

\* The ancestor of b at height h.
GetAncestor(b, h) == CHOOSE a \in Chain[b] : Height[a] = h

\* The last block that the chains of b and c share (CChain::FindFork).
FindFork(b, c) ==
  CHOOSE f \in Chain[b] \cap Chain[c] :
    \A a \in Chain[b] \cap Chain[c] : Height[a] <= Height[f]
=============================================================================
