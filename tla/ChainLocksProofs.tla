-------------------------- MODULE ChainLocksProofs --------------------------
(***************************************************************************)
(* Proofs about ChainLocks, for every block tree, every set of CLSIGs and  *)
(* any number of events: what connects and flags blocks in validation.cpp  *)
(* keeps the chain state well formed (ChainInv), the handler its own       *)
(* (IInv), and as long as the quorums signed one chain, no block of it is  *)
(* ever flagged.  If moreover no CLSIG is forgotten while in use, what the *)
(* handler told its listeners to be locked stays active; and the block of  *)
(* the best CLSIG is recognised as soon as both are known, whichever came  *)
(* first.                                                                  *)
(***************************************************************************)
EXTENDS ChainLocks, BlockTreeProofs

\* The prover of all steps that name no other.
USE ZenonT(20)
-----------------------------------------------------------------------------
(* The chain state *)

\* No block of b's chain is flagged.
Usable(b) == Chain[b] \cap (conflict \cup failed) = {}

ChainType ==
  /\ index \subseteq Blocks /\ data \subseteq index /\ conflict \subseteq index
  /\ failed \subseteq index /\ tip \in data
  /\ header \in (Blocks \ {Genesis}) \cup {None}
  /\ from \in data \cup {None} /\ goal \in data \cup {None} /\ tipSignal \in BOOLEAN

\* The chains of known headers are known; what is or will be active is complete
\* and not flagged; an activation that holds cs_main has not found a chain as
\* good as the one it began with.
ActivationInv ==
  /\ \A b \in index : Chain[b] \subseteq index
  /\ Chain[tip] \subseteq data /\ Usable(tip)
  /\ goal # None => /\ Chain[goal] \subseteq data /\ Usable(goal)
                    /\ tip \in Chain[goal] /\ tip # goal
  /\ from # None => /\ Chain[from] \subseteq data /\ Height[tip] <= Height[from]
                    /\ goal # None => goal = from \/ Height[goal] > Height[from]
  /\ header # None => from = None /\ header \notin index /\ Parent[header] \in index

ChainInv == ChainType /\ ActivationInv

\* The chain of the genesis block alone is well formed.
LEMMA InitChain == Init => ChainInv
<1> SUFFICES ASSUME Init PROVE ChainInv
  OBVIOUS
<1>1. Start \in Blocks /\ Start \in Chain[Start] /\ Chain[Start] \subseteq Blocks
  BY StartAssumption, OwnChain
<1>2. ChainType
  BY <1>1 DEF Init, ChainType
<1>3. \A b \in Chain[Start] : Chain[b] \subseteq Chain[Start]
  BY <1>1, ChainTransitive
<1>4. ActivationInv
  BY <1>1, <1>3 DEF Init, ActivationInv, Usable
<1>5. QED
  BY <1>2, <1>4 DEF ChainInv

\* What the active tip is, and where blocks lie.
LEMMA ChainFacts ==
  ASSUME ChainInv
  PROVE  /\ tip \in Blocks /\ ActiveTip \in data /\ ActiveTip \in Blocks
         /\ Chain[ActiveTip] \subseteq data
         /\ Height[tip] \in Nat /\ Height[ActiveTip] \in Nat
         /\ Height[tip] <= Height[ActiveTip]
         /\ data \subseteq Blocks /\ None \notin Blocks
BY TreeAssumption, SMTT(30) DEF ChainInv, ChainType, ActivationInv, ActiveTip

\* A new header leaves the tree and the active chain well formed.
LEMMA AcceptBlockHeaderChain ==
  ASSUME ChainInv, NEW b \in Blocks \ {Genesis}, AcceptBlockHeader(b)
  PROVE  ChainInv'
<1> USE DEF ChainInv
<1>1. Parent[b] \in index /\ Parent[b] \in Blocks /\ b \notin index /\ b # None
  BY TreeAssumption DEF AcceptBlockHeader, ChainType
<1>2. Chain[Parent[b]] \subseteq index /\ Chain[b] = Chain[Parent[b]] \cup {b}
  BY <1>1, TreeAssumption DEF ActivationInv
<1>3. CASE Chain[Parent[b]] \cap failed # {}
  <2> DEFINE New == {a \in Chain[Parent[b]] : Chain[a] \cap failed # {}}
  <2>1. /\ failed' = failed \cup New
        /\ UNCHANGED <<index, data, conflict, tip, header, from, goal, tipSignal>>
    BY <1>3 DEF AcceptBlockHeader
  <2>2. ChainType'
    BY <1>2, <2>1 DEF ChainType
  <2>3. ASSUME NEW c \in Blocks, Usable(c) PROVE Usable(c)'
    <3>1. Chain[c] \cap New = {}
      BY <2>3, ChainTransitive DEF Usable
    <3>2. QED
      BY <2>1, <2>3, <3>1 DEF Usable
  <2>4. tip \in Blocks /\ (goal # None => goal \in Blocks)
    BY DEF ChainType
  <2>5. Usable(tip)' /\ (goal # None => Usable(goal)')
    BY <2>1, <2>3, <2>4 DEF ActivationInv, Usable
  <2>6. ActivationInv'
    BY <2>1, <2>5 DEF ActivationInv
  <2>7. QED
    BY <2>2, <2>6
<1>4. CASE Chain[Parent[b]] \cap failed = {} /\ HasConflictingChainLock(b)
  <2>1. /\ index' = index \cup {b} /\ conflict' = conflict \cup {b}
        /\ header = None /\ from = None
        /\ UNCHANGED <<data, failed, tip, header, from, goal, tipSignal>>
    BY <1>4 DEF AcceptBlockHeader, MainFree
  <2>2. ChainType'
    BY <2>1 DEF ChainType
  <2>3. Usable(tip)' /\ (goal # None => Usable(goal)')
    BY <1>1, <2>1 DEF ActivationInv, Usable, ChainType
  <2>4. \A c \in index' : Chain[c] \subseteq index'
    BY <1>2, <2>1 DEF ActivationInv
  <2>5. ActivationInv'
    BY <2>1, <2>3, <2>4 DEF ActivationInv
  <2>6. QED
    BY <2>2, <2>5
<1>5. CASE Chain[Parent[b]] \cap failed = {} /\ ~HasConflictingChainLock(b)
  <2>1. /\ header' = b /\ from = None
        /\ UNCHANGED <<index, data, conflict, failed, tip, from, goal, tipSignal>>
    BY <1>5 DEF AcceptBlockHeader, MainFree
  <2>2. ChainType'
    BY <2>1 DEF ChainType
  <2>3. ActivationInv'
    BY <1>1, <2>1 DEF ActivationInv, Usable
  <2>4. QED
    BY <2>2, <2>3
<1>6. QED
  BY <1>3, <1>4, <1>5

\* The AcceptedBlockHeader signal leaves the chain as it is, or flags the new header.
LEMMA AcceptedBlockHeaderChain ==
  ASSUME ChainInv, AcceptedBlockHeader
  PROVE  ChainInv'
<1> USE DEF ChainInv
<1>1. /\ header # None /\ index' = index \cup {header} /\ header' = None
      /\ UNCHANGED <<data, conflict, failed, tip, from, goal, tipSignal>>
  BY DEF AcceptedBlockHeader
<1>2. header \in Blocks \ {Genesis} /\ Parent[header] \in index
  BY <1>1 DEF ChainType, ActivationInv
<1>3. Chain[header] = Chain[Parent[header]] \cup {header}
  BY <1>2, TreeAssumption
<1>4. \A b \in index' : Chain[b] \subseteq index'
  BY <1>1, <1>2, <1>3 DEF ActivationInv
<1>5. ChainType'
  BY <1>1, <1>2 DEF ChainType
<1>6. ActivationInv'
  BY <1>1, <1>4 DEF ActivationInv, Usable
<1>7. QED
  BY <1>5, <1>6

\* The arrival of a block extends what can be connected.
LEMMA AcceptBlockChain ==
  ASSUME ChainInv, NEW b \in Blocks, AcceptBlock(b)
  PROVE  ChainInv'
<1>1. /\ data' = data \cup {b} /\ b \in index
      /\ UNCHANGED <<index, conflict, failed, tip, header, from, goal, tipSignal>>
  BY DEF AcceptBlock, step
<1>2. ChainType'
  BY <1>1 DEF ChainInv, ChainType
<1>3. ActivationInv'
  BY <1>1 DEF ChainInv, ActivationInv, Usable
<1>4. QED
  BY <1>2, <1>3 DEF ChainInv

\* The blocks above a flagged one are in no chain that is free of flags.
LEMMA AboveFlagged ==
  ASSUME NEW m \in Blocks, NEW x \in Chain[m], x \in conflict \cup failed,
         NEW a \in Chain[m], Height[a] > Height[x],
         NEW c \in Blocks, Usable(c)
  PROVE  a \notin Chain[c]
<1>1. SUFFICES ASSUME a \in Chain[c] PROVE FALSE
  OBVIOUS
<1>2. Height[x] <= Height[a]
  <2>1. x \in Blocks /\ a \in Blocks
    BY ChainTransitive
  <2>2. QED
    BY <2>1, TreeAssumption, SMTT(30)
<1>3. x \in Chain[a]
  BY <1>2, LowerIsAncestor
<1>4. x \in Chain[c]
  BY <1>1, <1>3, ChainTransitive
<1>5. QED
  BY <1>4 DEF Usable

\* The choice of a new best chain, which disconnects to the fork or flags
\* what lies above a bad block, leaves the chain well formed.
LEMMA FindMostWorkChainChain ==
  ASSUME ChainInv, FindMostWorkChain
  PROVE  ChainInv'
<1>1. PICK m \in Candidates \ {tip} :
        /\ from' = ActiveTip
        /\ \/ /\ ToConnect(m) \cap (conflict \cup failed) = {}
              /\ goal' = m /\ tip' = Fork(m)
              /\ UNCHANGED <<conflict, failed>>
           \/ \E x \in ToConnect(m) \cap (conflict \cup failed) :
                LET above == {a \in ToConnect(m) : Height[a] > Height[x]}
                IN /\ above \cap (conflict \cup failed) = {}
                   /\ failed' = IF x \in failed THEN failed \cup above ELSE failed
                   /\ conflict' = IF x \in failed THEN conflict ELSE conflict \cup above
                   /\ UNCHANGED <<goal, tip>>
  BY DEF FindMostWorkChain
<1>2. /\ header = None /\ goal = None /\ header' = None
      /\ UNCHANGED <<index, data, tipSignal>>
  BY DEF FindMostWorkChain
<1>3. /\ m \in Blocks /\ m \in data /\ m \in Chain[m] /\ Chain[m] \subseteq data /\ Height[m] \in Nat
      /\ Height[m] > Height[ActiveTip] \/ m = ActiveTip
  <2>1. /\ m \in index /\ Chain[m] \subseteq data
        /\ Height[m] > Height[ActiveTip] \/ m = ActiveTip
    BY DEF Candidates
  <2>2. m \in Blocks
    BY <2>1 DEF ChainInv, ChainType
  <2>3. QED
    BY <2>1, <2>2, OwnChain, TreeAssumption
<1>4. CASE /\ ToConnect(m) \cap (conflict \cup failed) = {}
           /\ goal' = m /\ tip' = Fork(m)
           /\ UNCHANGED <<conflict, failed>>
  <2>1. Fork(m) \in Chain[m] /\ Fork(m) \in Chain[tip] /\ Chain[m] \cap Chain[tip] \subseteq Chain[Fork(m)]
    BY <1>3, ForkProperty, ChainFacts DEF Fork
  <2>2. Fork(m) \in Blocks /\ Chain[Fork(m)] \subseteq Chain[tip] /\ Height[Fork(m)] <= Height[tip]
    BY <2>1, ChainTransitive, ChainFacts
  <2>3. Usable(m)'
    BY <1>4 DEF Usable, ToConnect, ChainInv, ActivationInv
  <2>4. Usable(tip)'
    BY <1>4, <2>2 DEF Usable, ChainInv, ActivationInv
  <2>5. Fork(m) # m
    <3>1. SUFFICES ASSUME m \in Chain[tip] PROVE FALSE
      BY <2>1
    <3>2. Height[m] <= Height[tip]
      BY <3>1, ChainTransitive, ChainFacts
    <3>3. m = ActiveTip
      BY <1>3, <3>2, ChainFacts, SMTT(30)
    <3>4. Height[m] = Height[tip]
      BY <1>3, <3>2, <3>3, ChainFacts, SMTT(30)
    <3>5. m = tip
      BY <3>1, <3>4, OneAtHeight, OwnChain, ChainFacts
    <3>6. QED
      BY <1>1, <3>5
  <2>6. Chain[Fork(m)] \subseteq data /\ Fork(m) \in data
    BY <2>1, <2>2 DEF ChainInv, ActivationInv
  <2>7. ChainType'
    BY <1>1, <1>2, <1>3, <1>4, <2>6, ChainFacts DEF ChainInv, ChainType
  <2>8. Height[Fork(m)] <= Height[ActiveTip]
    BY <2>2, ChainFacts, TreeAssumption, SMTT(30)
  <2>9. ActivationInv'
    <3>1. (\A b \in index : Chain[b] \subseteq index)'
      BY <1>2 DEF ChainInv, ActivationInv
    <3>2. (goal # None => /\ Chain[goal] \subseteq data /\ Usable(goal)
                          /\ tip \in Chain[goal] /\ tip # goal)'
      BY <1>2, <1>3, <1>4, <2>1, <2>3, <2>5
    <3>3. (from # None => /\ Chain[from] \subseteq data /\ Height[tip] <= Height[from]
                          /\ goal # None => goal = from \/ Height[goal] > Height[from])'
      BY <1>1, <1>2, <1>3, <1>4, <2>8, ChainFacts
    <3>4. QED
      BY <1>2, <1>4, <2>4, <2>6, <3>1, <3>2, <3>3 DEF ActivationInv
  <2>10. QED
    BY <2>7, <2>9 DEF ChainInv
<1>5. ASSUME NEW x \in ToConnect(m) \cap (conflict \cup failed),
             LET above == {a \in ToConnect(m) : Height[a] > Height[x]}
             IN /\ above \cap (conflict \cup failed) = {}
                /\ failed' = IF x \in failed THEN failed \cup above ELSE failed
                /\ conflict' = IF x \in failed THEN conflict ELSE conflict \cup above
                /\ UNCHANGED <<goal, tip>>
      PROVE  ChainInv'
  <2> DEFINE above == {a \in ToConnect(m) : Height[a] > Height[x]}
  <2>1. /\ conflict' \cup failed' = conflict \cup failed \cup above
        /\ conflict' \subseteq conflict \cup above /\ failed' \subseteq failed \cup above
        /\ UNCHANGED <<goal, tip>>
    BY <1>5
  <2>2. above \subseteq index
    BY <1>3 DEF ToConnect, ChainInv, ChainType
  <2>3. above \cap Chain[tip] = {}
    BY DEF ToConnect
  <2>4. Usable(tip)'
    BY <2>1, <2>3 DEF Usable, ChainInv, ActivationInv
  <2>5. ChainType'
    BY <1>1, <1>2, <2>1, <2>2, ChainFacts DEF ChainInv, ChainType
  <2>6. ActivationInv'
    BY <1>1, <1>2, <2>1, <2>4, ChainFacts DEF ChainInv, ActivationInv
  <2>7. QED
    BY <2>5, <2>6 DEF ChainInv
<1>6. QED
  BY <1>1, <1>4, <1>5

\* The block that ConnectTip connects next.
NextBlock == CHOOSE b \in Chain[goal] : Height[b] = Height[tip] + 1

\* The next block towards a descendant is the child of the tip on its chain.
LEMMA NextBlockProperty ==
  ASSUME ChainInv, goal # None
  PROVE  /\ NextBlock \in Chain[goal] /\ Height[NextBlock] = Height[tip] + 1
         /\ NextBlock \in Blocks /\ NextBlock \in data
         /\ tip \in Chain[NextBlock] /\ Chain[tip] \subseteq Chain[NextBlock]
         /\ Chain[NextBlock] \subseteq data
         /\ NextBlock \notin Chain[tip]
<1>1. goal \in Blocks /\ tip \in Chain[goal] /\ tip # goal /\ Chain[goal] \subseteq data
  BY DEF ChainInv, ChainType, ActivationInv
<1>2. goal \in Chain[goal] /\ Height[goal] \in Nat
  BY <1>1, OwnChain, TreeAssumption
<1>3. Height[tip] < Height[goal]
  <2>1. Height[tip] <= Height[goal] /\ Height[tip] # Height[goal]
    BY <1>1, <1>2, ChainTransitive, OneAtHeight
  <2>2. QED
    BY <1>2, <2>1, ChainFacts, SMTT(30)
<1>4. Height[tip] + 1 \in 0..Height[goal]
  BY <1>2, <1>3, ChainFacts, SMTT(30)
<1>5. \E b \in Chain[goal] : Height[b] = Height[tip] + 1
  BY <1>1, <1>4, ChainTransitive, OneAtHeight, EveryChainWellFormed, SMTT(30) DEF WellFormed
<1>6. NextBlock \in Chain[goal] /\ Height[NextBlock] = Height[tip] + 1
  BY <1>5 DEF NextBlock
<1>7. NextBlock \in Blocks /\ Chain[NextBlock] \subseteq Chain[goal]
  BY <1>1, <1>6, ChainTransitive
<1>8. tip \in Chain[NextBlock]
  <2>1. Height[tip] <= Height[NextBlock]
    BY <1>6, ChainFacts, SMTT(30)
  <2>2. QED
    BY <1>1, <1>6, <2>1, LowerIsAncestor
<1>9. NextBlock \notin Chain[tip]
  <2>1. SUFFICES ASSUME NextBlock \in Chain[tip] PROVE FALSE
    OBVIOUS
  <2>2. Height[NextBlock] <= Height[tip]
    BY <2>1, ChainTransitive, ChainFacts
  <2>3. QED
    BY <1>6, <2>2, ChainFacts, SMTT(30)
<1>10. Chain[tip] \subseteq Chain[NextBlock]
  BY <1>7, <1>8, ChainTransitive
<1>11. QED
  BY <1>1, <1>6, <1>7, <1>8, <1>9, <1>10

\* What a step of ConnectTip does.
LEMMA ConnectTipEffect ==
  ASSUME ChainInv, ConnectTip
  PROVE  /\ header = None /\ goal # None
         /\ \/ /\ HasConflictingChainLock(NextBlock)
               /\ tip' = tip /\ failed' = failed \cup {NextBlock} /\ goal' = None
            \/ /\ ~HasConflictingChainLock(NextBlock)
               /\ tip' = NextBlock /\ failed' = failed
               /\ goal' = IF NextBlock = goal THEN None ELSE goal
         /\ from' = IF tip' = ActiveTip \/ Height[tip'] > Height[ActiveTip] THEN None ELSE ActiveTip
         /\ tipSignal' \in BOOLEAN
         /\ UNCHANGED <<index, data, conflict, header>>
BY DEF ConnectTip, NextBlock

\* Connecting the next block, or failing to, leaves the chain well formed.
LEMMA ConnectTipChain ==
  ASSUME ChainInv, ConnectTip
  PROVE  ChainInv'
<1> DEFINE b == NextBlock
<1>1. /\ header = None /\ goal # None
      /\ from' = IF tip' = ActiveTip \/ Height[tip'] > Height[ActiveTip] THEN None ELSE ActiveTip
      /\ tipSignal' \in BOOLEAN
      /\ UNCHANGED <<index, data, conflict, header>>
  BY ConnectTipEffect
<1>2. /\ b \in Chain[goal] /\ Height[b] = Height[tip] + 1 /\ b \in Blocks /\ b \in data
      /\ Chain[b] \subseteq data /\ b \notin Chain[tip]
  BY <1>1, NextBlockProperty
<1>3. Height[b] \in Nat /\ goal \in Blocks /\ goal \in data
  BY <1>1, <1>2, TreeAssumption DEF ChainInv, ChainType
<1>4. CASE tip' = tip /\ failed' = failed \cup {b} /\ goal' = None
  <2>1. Usable(tip)'
    BY <1>1, <1>2, <1>4 DEF Usable, ChainInv, ActivationInv
  <2>2. ChainType'
    BY <1>1, <1>2, <1>4, ChainFacts DEF ChainInv, ChainType
  <2>3. ActivationInv'
    BY <1>1, <1>4, <2>1, ChainFacts DEF ChainInv, ActivationInv
  <2>4. QED
    BY <2>2, <2>3 DEF ChainInv
<1>5. CASE tip' = b /\ failed' = failed /\ goal' = IF b = goal THEN None ELSE goal
  <2>1. Usable(goal) /\ Chain[b] \subseteq Chain[goal] /\ Chain[goal] \subseteq data
    BY <1>1, <1>2, <1>3, ChainTransitive DEF ChainInv, ActivationInv
  <2>2. Usable(tip)'
    BY <1>1, <1>5, <2>1 DEF Usable
  <2>3. ChainType'
    BY <1>1, <1>2, <1>5, ChainFacts DEF ChainInv, ChainType
  <2>4. (from # None => /\ Chain[from] \subseteq data /\ Height[tip] <= Height[from]
                        /\ goal # None => goal = from \/ Height[goal] > Height[from])'
    <3>1. SUFFICES ASSUME from' # None
                   PROVE  /\ Chain[from'] \subseteq data' /\ Height[tip'] <= Height[from']
                          /\ goal' # None => goal' = from' \/ Height[goal'] > Height[from']
      OBVIOUS
    <3>2. from' = ActiveTip /\ ~(Height[b] > Height[ActiveTip])
      BY <1>1, <1>5, <3>1
    <3>3. Height[b] <= Height[ActiveTip]
      BY <1>3, <3>2, ChainFacts, SMTT(30)
    <3>4. from # None /\ ActiveTip = from
      BY <1>2, <3>3, ChainFacts, SMTT(30) DEF ActiveTip
    <3>5. goal' # None => goal' = from' \/ Height[goal'] > Height[from']
      BY <1>1, <1>5, <3>2, <3>4 DEF ChainInv, ActivationInv
    <3>6. QED
      BY <1>1, <1>5, <3>2, <3>3, <3>5, ChainFacts
  <2>5. (goal # None => /\ Chain[goal] \subseteq data /\ Usable(goal)
                        /\ tip \in Chain[goal] /\ tip # goal)'
    BY <1>1, <1>2, <1>5, <2>1 DEF Usable
  <2>6. ActivationInv'
    BY <1>1, <1>2, <1>5, <2>2, <2>4, <2>5 DEF ChainInv, ActivationInv
  <2>7. QED
    BY <2>3, <2>6 DEF ChainInv
<1>6. QED
  BY <1>4, <1>5, ConnectTipEffect

\* So does the end of ActivateBestChain.
LEMMA EndActivationChain ==
  ASSUME ChainInv, EndActivation
  PROVE  ChainInv'
<1>1. /\ from # None /\ goal = None /\ from' = None /\ tipSignal' \in BOOLEAN
      /\ UNCHANGED <<index, data, conflict, failed, tip, header, goal>>
  BY DEF EndActivation
<1>2. ChainType'
  BY <1>1 DEF ChainInv, ChainType
<1>3. ActivationInv'
  BY <1>1 DEF ChainInv, ActivationInv, Usable
<1>4. QED
  BY <1>2, <1>3 DEF ChainInv

\* A block that shares a parent with a block of L's chain, and is not that
\* block, is not in L's chain or in any chain that contains L's.
LEMMA SiblingsOffChain ==
  ASSUME tip \in Blocks, NEW L \in Blocks, index \subseteq Blocks,
         NEW c \in Blocks, Chain[L] \subseteq Chain[c]
  PROVE  Siblings(L) \cap Chain[c] = {}
<1>1. SUFFICES ASSUME NEW b \in Siblings(L), b \in Chain[c] PROVE FALSE
  OBVIOUS
<1>2. PICK w \in ToConnect(L) : b # w /\ Parent[b] = Parent[w]
  BY <1>1 DEF Siblings
<1>3. w \in Blocks /\ w # Genesis /\ b \in Blocks /\ b # Genesis
  BY <1>1, <1>2, OwnChain DEF ToConnect, Siblings
<1>4. Height[b] = Height[w]
  BY <1>2, <1>3, TreeAssumption
<1>5. w \in Chain[c]
  BY <1>2 DEF ToConnect
<1>6. QED
  BY <1>1, <1>2, <1>4, <1>5, OneAtHeight

\* EnforceBlock leaves the tip on the enforced chain, unflagged.
LEMMA EnforceBlockChain ==
  ASSUME ChainInv, NEW L \in index, EnforceBlock(L), MainFree, goal = None,
         UNCHANGED <<index, data, step>>
  PROVE  ChainInv'
<1>1. /\ L \in Blocks /\ Chain[L] \subseteq index /\ L \in Chain[L]
      /\ tip \in Blocks
  BY OwnChain, ChainFacts DEF ChainInv, ChainType, ActivationInv
<1>2. /\ UNCHANGED <<index, data, header, from, goal>>
      /\ header = None /\ from = None /\ goal = None
      /\ tipSignal' \in BOOLEAN /\ failed' \subseteq failed
  BY DEF MainFree, step, EnforceBlock
<1>3. CASE L \in Chain[tip]
  <2>1. Chain[L] \subseteq Chain[tip]
    BY <1>1, <1>3, ChainTransitive
  <2>2. Siblings(L) = {}
    BY <2>1 DEF Siblings, ToConnect
  <2>3. conflict' = conflict /\ tip' = tip
    BY <1>3, <2>2 DEF EnforceBlock
  <2>4. ChainType'
    BY <1>2, <2>3 DEF ChainInv, ChainType
  <2>5. ActivationInv'
    BY <1>2, <2>3 DEF ChainInv, ActivationInv, Usable
  <2>6. QED
    BY <2>4, <2>5 DEF ChainInv
<1>4. CASE L \notin Chain[tip]
  <2>1. /\ conflict' = conflict \cup Siblings(L) \cup (Chain[tip] \ Chain[L])
        /\ tip' = Fork(L)
    BY <1>4 DEF EnforceBlock
  <2>2. Fork(L) \in Chain[L] /\ Fork(L) \in Chain[tip]
    BY <1>1, ForkProperty DEF Fork
  <2>3. Chain[Fork(L)] \subseteq Chain[L] /\ Chain[Fork(L)] \subseteq Chain[tip]
    BY <1>1, <2>2, ChainTransitive
  <2>4. Siblings(L) \subseteq index /\ Chain[tip] \subseteq data /\ data \subseteq index
    BY DEF Siblings, ChainInv, ActivationInv, ChainType
  <2>5. Siblings(L) \cap Chain[L] = {}
    BY <1>1, SiblingsOffChain DEF ChainInv, ChainType
  <2>6. Usable(tip)'
    BY <1>2, <2>1, <2>3, <2>5 DEF Usable, ChainInv, ActivationInv
  <2>7. ChainType'
    BY <1>2, <2>1, <2>2, <2>4 DEF ChainInv, ChainType
  <2>8. ActivationInv'
    BY <1>2, <2>1, <2>3, <2>4, <2>6 DEF ChainInv, ActivationInv
  <2>9. QED
    BY <2>7, <2>8 DEF ChainInv
<1>5. QED
  BY <1>3, <1>4

\* A restart loads a well-formed part of the tree.
LEMMA RestartChain ==
  ASSUME ChainInv, Restart
  PROVE  ChainInv'
<1>1. /\ conflict' \subseteq conflict /\ goal' = None /\ from = None /\ header = None
      /\ failed' = {b \in index : Chain[b] \cap failed # {}}
      /\ tipSignal' = TRUE
      /\ UNCHANGED <<index, data, tip, header, from>>
  BY DEF Restart, MainFree
<1>2. ChainType'
  BY <1>1 DEF ChainInv, ChainType
<1>3. ActivationInv'
  <2>1. \A a \in Chain[tip] : Chain[a] \subseteq Chain[tip]
    BY ChainFacts, ChainTransitive
  <2>2. Usable(tip)'
    BY <1>1, <2>1 DEF ChainInv, ActivationInv, Usable
  <2>3. QED
    BY <1>1, <2>2 DEF ChainInv, ActivationInv
<1>4. QED
  BY <1>2, <1>3 DEF ChainInv
-----------------------------------------------------------------------------
ValuesInv ==
  /\ spork \in BOOLEAN /\ events \in 0..MaxEvents
  /\ isEnabled \in BOOLEAN /\ isEnforced \in BOOLEAN
  /\ seen \subseteq ClSigs
  /\ best \in ClSigs \cup {None} /\ bestIdx \in ClSigs \cup {None}
  /\ lastNotify \in ClSigs \cup {None} /\ lastSigned \in Blocks \cup {None}
  /\ bestIdx # None => bestIdx \in index

ThreadsInv ==
  /\ th \in [Handlers -> [pc : {"idle", "check", "reset", "seen", "lookup", "store"},
                          cl : ClSigs \cup {None}, found : BOOLEAN]]
  /\ \A t \in Handlers : /\ th[t].pc # "idle" => th[t].cl \in ClSigs
                         /\ th[t].pc = "store" /\ th[t].found => th[t].cl \in index

\* The scheduler is enforcing a block that was the best known one.
Enforcing == sched.pc \in {"mark", "activate", "notify"}

SchedInv ==
  /\ jobs \subseteq {"enforce", "tip"} /\ tryLock \in BOOLEAN
  /\ sched \in [pc : {"idle", "check", "reset", "enforce", "mark", "activate", "notify", "tip",
                      "safe", "sign", "end"},
                job : {"none", "enforce", "tip", "periodic"}, blk : Blocks \cup {None}]
  /\ Enforcing => sched.blk \in ClSigs \cap index
  /\ sched.pc \in {"safe", "sign"} => sched.blk \in Blocks
  /\ sched.pc = "idle" => sched.job # "tip"
  /\ TipJobNotLost

\* The inductive invariant behind type correctness and TipJobNotLost.
IInv == ChainInv /\ ValuesInv /\ ThreadsInv /\ SchedInv

\* The inductive invariant implies the two invariants that TLC checks.
LEMMA IInvTypeOK == IInv => TypeOK /\ TipJobNotLost
BY DEF IInv, ChainInv, ChainType, ValuesInv, ThreadsInv, SchedInv, TypeOK

\* A node that has just started satisfies the inductive invariant.
LEMMA InitIInv == Init => IInv
<1> SUFFICES ASSUME Init PROVE IInv
  OBVIOUS
<1>1. ValuesInv
  BY FlagsAssumption, BoundsAssumption, SMTT(30) DEF Init, ValuesInv
<1>2. ThreadsInv
  BY DEF Init, ThreadsInv, IdleHandler
<1>3. SchedInv
  BY DEF Init, SchedInv, IdleSched, TipJobNotLost, Enforcing
<1>4. QED
  BY <1>1, <1>2, <1>3, InitChain DEF IInv

\* Every step is a step of one of these actions.
LEMMA NextCases ==
  ASSUME Next
  PROVE  \/ \E cl \in ClSigs : ProcessMessage(cl) \/ HandleNewRecoveredSig(cl)
         \/ \E t \in Handlers : HandlerCheckActive(t) \/ HandlerReset(t) \/ CheckSeen(t)
         \/ \E t \in Handlers : LookupBlock(t) \/ StoreChainLock(t)
         \/ \E b \in Blocks \ {Genesis} : AcceptBlockHeader(b) \/ AcceptBlock(b)
         \/ AcceptedBlockHeader
         \/ FindMostWorkChain \/ ConnectTip \/ EndActivation
         \/ UpdatedBlockTip
         \/ \E job \in {"enforce", "tip", "periodic"} : StartJob(job)
         \/ SchedCheckActive \/ SchedReset \/ EnforceRead
         \/ EnforceMark \/ EnforceActivate \/ EnforceNotify
         \/ ReadTip \/ CheckTip \/ SignTip \/ EndJob
         \/ SporkChange \/ Restart
BY DEF Next, Handler, ActivateBestChain, SchedStep

\* Headers are never forgotten.
LEMMA IndexGrows ==
  ASSUME [Next]_vars
  PROVE  index \subseteq index'
<1>1. CASE \E cl \in ClSigs : ProcessMessage(cl) \/ HandleNewRecoveredSig(cl)
  BY <1>1 DEF ProcessMessage, HandleNewRecoveredSig, chain
<1>2. CASE \E t \in Handlers : HandlerCheckActive(t) \/ HandlerReset(t) \/ CheckSeen(t)
  BY <1>2 DEF HandlerCheckActive, HandlerReset, CheckSeen, chain
<1>3. CASE \E t \in Handlers : LookupBlock(t) \/ StoreChainLock(t)
  BY <1>3 DEF LookupBlock, StoreChainLock, chain
<1>4. CASE \E b \in Blocks \ {Genesis} : AcceptBlockHeader(b) \/ AcceptBlock(b)
  BY <1>4 DEF AcceptBlockHeader, AcceptBlock
<1>5. CASE AcceptedBlockHeader \/ FindMostWorkChain \/ ConnectTip \/ EndActivation
  BY <1>5 DEF AcceptedBlockHeader, FindMostWorkChain, ConnectTip, EndActivation
<1>6. CASE UpdatedBlockTip \/ \E job \in {"enforce", "tip", "periodic"} : StartJob(job)
  BY <1>6 DEF UpdatedBlockTip, StartJob, chain
<1>7. CASE SchedCheckActive \/ SchedReset \/ EnforceRead \/ EnforceMark \/ EnforceActivate
  BY <1>7 DEF SchedCheckActive, SchedReset, EnforceRead, EnforceMark, EnforceActivate, chain
<1>8. CASE EnforceNotify \/ ReadTip \/ CheckTip \/ SignTip \/ EndJob
  BY <1>8 DEF EnforceNotify, ReadTip, CheckTip, SignTip, EndJob, chain
<1>9. CASE SporkChange \/ Restart \/ UNCHANGED vars
  BY <1>9 DEF SporkChange, Restart, vars, chain
<1>10. QED
  BY <1>1, <1>2, <1>3, <1>4, <1>5, <1>6, <1>7, <1>8, <1>9, NextCases

\* Every step preserves the part of the invariant about the block tree.
LEMMA ChainStep ==
  ASSUME IInv, [Next]_vars
  PROVE  ChainInv'
<1>1. ChainInv
  BY DEF IInv
<1>2. ASSUME UNCHANGED <<index, data, conflict, failed, tip, header, from, goal>>, tipSignal' \in BOOLEAN
      PROVE ChainInv'
  BY <1>1, <1>2 DEF ChainInv, ChainType, ActivationInv, Usable
<1>3. ASSUME UNCHANGED chain PROVE ChainInv'
  <2>1. UNCHANGED <<index, data, conflict, failed, tip, header, from, goal, tipSignal>>
    BY <1>3 DEF chain, step
  <2>2. QED
    BY <1>1, <1>2, <2>1 DEF ChainInv, ChainType
<1>4. CASE \E cl \in ClSigs : ProcessMessage(cl) \/ HandleNewRecoveredSig(cl)
  BY <1>3, <1>4 DEF ProcessMessage, HandleNewRecoveredSig
<1>5. CASE \E t \in Handlers : HandlerCheckActive(t) \/ HandlerReset(t) \/ CheckSeen(t)
  BY <1>3, <1>5 DEF HandlerCheckActive, HandlerReset, CheckSeen
<1>6. CASE \E t \in Handlers : LookupBlock(t) \/ StoreChainLock(t)
  BY <1>3, <1>6 DEF LookupBlock, StoreChainLock
<1>7. CASE \E b \in Blocks \ {Genesis} : AcceptBlockHeader(b) \/ AcceptBlock(b)
  BY <1>1, <1>7, AcceptBlockHeaderChain, AcceptBlockChain
<1>8. CASE AcceptedBlockHeader \/ FindMostWorkChain \/ ConnectTip \/ EndActivation
  BY <1>1, <1>8, AcceptedBlockHeaderChain, FindMostWorkChainChain, ConnectTipChain, EndActivationChain
<1>9. CASE UpdatedBlockTip
  BY <1>2, <1>9 DEF UpdatedBlockTip, step
<1>10. CASE \E job \in {"enforce", "tip", "periodic"} : StartJob(job)
  BY <1>3, <1>10 DEF StartJob
<1>11. CASE SchedCheckActive \/ SchedReset \/ EnforceRead \/ EnforceActivate
  BY <1>3, <1>11 DEF SchedCheckActive, SchedReset, EnforceRead, EnforceActivate
<1>12. CASE EnforceMark
  <2>1. sched.blk \in index
    BY <1>12 DEF EnforceMark, IInv, SchedInv, Enforcing
  <2>2. QED
    BY <1>1, <1>12, <2>1, EnforceBlockChain DEF EnforceMark
<1>13. CASE EnforceNotify \/ ReadTip \/ CheckTip \/ SignTip \/ EndJob
  BY <1>3, <1>13 DEF EnforceNotify, ReadTip, CheckTip, SignTip, EndJob
<1>14. CASE SporkChange \/ UNCHANGED vars
  BY <1>3, <1>14 DEF SporkChange, vars
<1>15. CASE Restart
  BY <1>1, <1>15, RestartChain
<1>16. QED
  BY <1>4, <1>5, <1>6, <1>7, <1>8, <1>9, <1>10, <1>11, <1>12, <1>13, <1>14, <1>15, NextCases

\* Every step preserves the part about the values the handler keeps.
LEMMA ValuesStep ==
  ASSUME IInv, [Next]_vars
  PROVE  ValuesInv'
<1>1. ValuesInv /\ index \subseteq index'
  BY IndexGrows DEF IInv
<1>2. ASSUME UNCHANGED <<active, locks, lastSigned>> PROVE ValuesInv'
  BY <1>1, <1>2 DEF ValuesInv, active, locks
<1>3. CASE \E cl \in ClSigs : ProcessMessage(cl) \/ HandleNewRecoveredSig(cl)
  BY <1>2, <1>3 DEF ProcessMessage, HandleNewRecoveredSig
<1>4. CASE \E t \in Handlers : HandlerCheckActive(t) \/ HandlerReset(t)
  BY <1>1, <1>4 DEF HandlerCheckActive, HandlerReset, SetActiveState, ResetChainLocks,
                   ValuesInv, active, locks
<1>5. CASE \E t \in Handlers : CheckSeen(t)
  BY <1>1, <1>5 DEF CheckSeen, ValuesInv, active, IInv, ThreadsInv
<1>6. CASE \E t \in Handlers : LookupBlock(t)
  BY <1>2, <1>6 DEF LookupBlock
<1>7. CASE \E t \in Handlers : StoreChainLock(t)
  BY <1>1, <1>7 DEF StoreChainLock, ValuesInv, active, IInv, ThreadsInv, chain
<1>8. CASE \E b \in Blocks \ {Genesis} : AcceptBlockHeader(b) \/ AcceptBlock(b)
  BY <1>2, <1>8 DEF AcceptBlockHeader, AcceptBlock
<1>9. CASE AcceptedBlockHeader
  BY <1>1, <1>9 DEF AcceptedBlockHeader, ValuesInv, active
<1>10. CASE FindMostWorkChain \/ ConnectTip \/ EndActivation \/ UpdatedBlockTip
  BY <1>2, <1>10 DEF FindMostWorkChain, ConnectTip, EndActivation, UpdatedBlockTip
<1>11. CASE \E job \in {"enforce", "tip", "periodic"} : StartJob(job)
  BY <1>2, <1>11 DEF StartJob
<1>12. CASE SchedCheckActive \/ SchedReset
  BY <1>1, <1>12 DEF SchedCheckActive, SchedReset, SetActiveState, ResetChainLocks,
                    ValuesInv, active, locks
<1>13. CASE EnforceRead \/ EnforceMark \/ EnforceActivate \/ CheckTip \/ EndJob
  BY <1>2, <1>13 DEF EnforceRead, EnforceMark, EnforceActivate, CheckTip, EndJob
<1>14. CASE EnforceNotify
  BY <1>1, <1>14 DEF EnforceNotify, ValuesInv, active, IInv, SchedInv, Enforcing
<1>15. CASE ReadTip
  BY <1>1, <1>15 DEF ReadTip, ValuesInv, active
<1>16. CASE SignTip
  BY <1>1, <1>16 DEF SignTip, ValuesInv, active, locks, IInv, SchedInv
<1>17. CASE SporkChange \/ Restart
  <2>1. events' \in 0..MaxEvents
    BY <1>1, <1>17, BoundsAssumption, SMTT(30) DEF SporkChange, Restart, ValuesInv
  <2>2. CASE SporkChange
    BY <1>1, <2>1, <2>2 DEF SporkChange, ValuesInv, locks
  <2>3. CASE Restart
    BY <1>1, <2>1, <2>3 DEF Restart, ValuesInv
  <2>4. QED
    BY <1>17, <2>2, <2>3
<1>18. CASE UNCHANGED vars
  BY <1>2, <1>18 DEF vars
<1>19. QED
  BY <1>3, <1>4, <1>5, <1>6, <1>7, <1>8, <1>9, <1>10, <1>11, <1>12, <1>13, <1>14, <1>15, <1>16,
     <1>17, <1>18, NextCases

Locals == [pc : {"idle", "check", "reset", "seen", "lookup", "store"},
           cl : ClSigs \cup {None}, found : BOOLEAN]

\* One thread's locals change.
LEMMA ThreadUpdate ==
  ASSUME ThreadsInv, index \subseteq index', NEW t \in Handlers, NEW r \in Locals,
         th' = [th EXCEPT ![t] = r],
         r.pc # "idle" => r.cl \in ClSigs,
         r.pc = "store" /\ r.found => r.cl \in index'
  PROVE  ThreadsInv'
BY DEF ThreadsInv, Locals

\* Every step preserves the part about the threads that handle CLSIGs.
LEMMA ThreadsStep ==
  ASSUME IInv, [Next]_vars
  PROVE  ThreadsInv'
<1>1. ThreadsInv /\ index \subseteq index'
  BY IndexGrows DEF IInv
<1>2. ASSUME UNCHANGED th PROVE ThreadsInv'
  BY <1>1, <1>2 DEF ThreadsInv
<1>3. CASE \E cl \in ClSigs : ProcessMessage(cl) \/ HandleNewRecoveredSig(cl)
  <2>1. PICK cl \in ClSigs : ProcessMessage(cl) \/ HandleNewRecoveredSig(cl)
    BY <1>3
  <2> DEFINE r == [pc |-> "check", cl |-> cl, found |-> FALSE]
  <2>2. r \in Locals /\ r.cl \in ClSigs /\ r.pc # "store"
    BY DEF Locals
  <2>3. \E t \in Handlers : th' = [th EXCEPT ![t] = r]
    BY <2>1 DEF ProcessMessage, HandleNewRecoveredSig
  <2>4. QED
    BY <1>1, <2>2, <2>3, ThreadUpdate
<1>4. CASE \E t \in Handlers : HandlerCheckActive(t) \/ HandlerReset(t)
  BY <1>1, <1>4, SMTT(30) DEF HandlerCheckActive, HandlerReset, Goto, ThreadsInv
<1>5. CASE \E t \in Handlers : CheckSeen(t)
  <2>1. PICK t \in Handlers : CheckSeen(t)
    BY <1>5
  <2>2. CASE Return(t)
    BY <1>1, <2>2 DEF Return, IdleHandler, ThreadsInv
  <2>3. CASE Goto(t, "lookup")
    BY <1>1, <2>1, <2>3 DEF CheckSeen, Goto, ThreadsInv
  <2>4. QED
    BY <2>1, <2>2, <2>3 DEF CheckSeen
<1>6. CASE \E t \in Handlers : LookupBlock(t)
  <2>1. PICK t \in Handlers : LookupBlock(t)
    BY <1>6
  <2>2. th[t] \in Locals /\ th[t].cl \in ClSigs
    BY <1>1, <2>1 DEF LookupBlock, ThreadsInv, Locals
  <2>3. PICK f \in BOOLEAN : f = (th[t].cl \in index)
    <3>1. (th[t].cl \in index) \in BOOLEAN
      BY SMTT(30)
    <3>2. QED
      BY <3>1, Zenon
  <2> DEFINE r == [th[t] EXCEPT !.pc = "store", !.found = f]
  <2>4. /\ r \in Locals /\ r.cl = th[t].cl /\ r.found = f
        /\ th' = [th EXCEPT ![t] = r]
    <3>1. th' = [th EXCEPT ![t].pc = "store", ![t].found = f]
      BY <2>1, <2>3 DEF LookupBlock
    <3>2. QED
      BY <1>1, <2>2, <3>1 DEF ThreadsInv, Locals
  <2>5. QED
    BY <1>1, <2>2, <2>3, <2>4, ThreadUpdate
<1>7. CASE \E t \in Handlers : StoreChainLock(t)
  <2>1. PICK t \in Handlers : th' = [th EXCEPT ![t] = IdleHandler]
    BY <1>7 DEF StoreChainLock, Return
  <2>2. QED
    BY <1>1, <2>1 DEF IdleHandler, ThreadsInv
<1>8. CASE \E b \in Blocks \ {Genesis} : AcceptBlockHeader(b) \/ AcceptBlock(b)
  BY <1>2, <1>8 DEF AcceptBlockHeader, AcceptBlock
<1>9. CASE AcceptedBlockHeader \/ FindMostWorkChain \/ ConnectTip \/ EndActivation \/ UpdatedBlockTip
  <2>1. CASE AcceptedBlockHeader \/ UpdatedBlockTip
    BY <1>2, <2>1 DEF AcceptedBlockHeader, UpdatedBlockTip
  <2>2. CASE FindMostWorkChain
    BY <1>2, <2>2 DEF FindMostWorkChain
  <2>3. CASE ConnectTip \/ EndActivation
    BY <1>2, <2>3 DEF ConnectTip, EndActivation
  <2>4. QED
    BY <1>9, <2>1, <2>2, <2>3
<1>10. CASE \E job \in {"enforce", "tip", "periodic"} : StartJob(job)
  BY <1>2, <1>10 DEF StartJob
<1>11. CASE SchedCheckActive \/ SchedReset \/ EnforceRead \/ EnforceMark \/ EnforceActivate
  BY <1>2, <1>11 DEF SchedCheckActive, SchedReset, EnforceRead, EnforceMark, EnforceActivate
<1>12. CASE EnforceNotify \/ ReadTip \/ CheckTip \/ SignTip \/ EndJob \/ SporkChange \/ UNCHANGED vars
  BY <1>2, <1>12 DEF EnforceNotify, ReadTip, CheckTip, SignTip, EndJob, SporkChange, vars
<1>13. CASE Restart
  BY <1>13 DEF Restart, IdleHandler, ThreadsInv
<1>14. QED
  BY <1>3, <1>4, <1>5, <1>6, <1>7, <1>8, <1>9, <1>10, <1>11, <1>12, <1>13, NextCases

\* What SchedGoto does to the scheduler's locals.
LEMMA SchedGotoEffect ==
  ASSUME SchedInv, NEW pc, SchedGoto(pc),
         pc \in {"enforce", "reset", "activate", "notify", "tip", "sign", "end"}
  PROVE  /\ sched' \in [pc : {"idle", "check", "reset", "enforce", "mark", "activate", "notify",
                              "tip", "safe", "sign", "end"},
                         job : {"none", "enforce", "tip", "periodic"}, blk : Blocks \cup {None}]
         /\ sched'.pc = pc /\ sched'.job = sched.job
         /\ pc \notin {"tip", "end"} => sched'.blk = sched.blk
BY DEF SchedGoto, SchedInv

\* Every step preserves the part about the scheduler thread and its jobs.
LEMMA SchedulerStep ==
  ASSUME IInv, [Next]_vars
  PROVE  SchedInv'
<1>1. SchedInv /\ index \subseteq index'
  BY IndexGrows DEF IInv
<1> USE DEF TipJobNotLost, Enforcing
<1>2. ASSUME UNCHANGED <<queue, sched>> PROVE SchedInv'
  BY <1>1, <1>2 DEF SchedInv, queue
<1>3. CASE \E cl \in ClSigs : ProcessMessage(cl) \/ HandleNewRecoveredSig(cl)
  BY <1>2, <1>3 DEF ProcessMessage, HandleNewRecoveredSig
<1>4. CASE \E t \in Handlers : HandlerCheckActive(t) \/ HandlerReset(t) \/ CheckSeen(t)
  BY <1>2, <1>4 DEF HandlerCheckActive, HandlerReset, CheckSeen
<1>5. CASE \E t \in Handlers : LookupBlock(t)
  BY <1>2, <1>5 DEF LookupBlock
<1>6. CASE \E t \in Handlers : StoreChainLock(t)
  BY <1>1, <1>6, SMTT(30) DEF StoreChainLock, SchedInv
<1>7. CASE \E b \in Blocks \ {Genesis} : AcceptBlockHeader(b) \/ AcceptBlock(b)
  BY <1>2, <1>7 DEF AcceptBlockHeader, AcceptBlock
<1>8. CASE AcceptedBlockHeader \/ FindMostWorkChain \/ ConnectTip \/ EndActivation
  <2>1. CASE AcceptedBlockHeader \/ FindMostWorkChain
    BY <1>2, <2>1 DEF AcceptedBlockHeader, FindMostWorkChain
  <2>2. CASE ConnectTip \/ EndActivation
    BY <1>2, <2>2 DEF ConnectTip, EndActivation
  <2>3. QED
    BY <1>8, <2>1, <2>2
<1>9. CASE UpdatedBlockTip
  BY <1>1, <1>9 DEF UpdatedBlockTip, SchedInv
<1>10. CASE \E job \in {"enforce", "tip", "periodic"} : StartJob(job)
  BY <1>1, <1>10, SMTT(30) DEF StartJob, SchedInv
<1>11. CASE SchedCheckActive \/ SchedReset
  <2>1. PICK pc \in {"enforce", "reset"} : SchedGoto(pc) /\ UNCHANGED queue
    BY <1>11 DEF SchedCheckActive, SchedReset
  <2>2. QED
    BY <1>1, <2>1, SchedGotoEffect DEF SchedInv, queue
<1>12. CASE EnforceRead
  <2>1. CASE isEnforced /\ bestIdx # None
    <3>1. /\ sched' = [sched EXCEPT !.pc = "mark", !.blk = bestIdx] /\ UNCHANGED <<jobs, tryLock>>
      BY <1>12, <2>1 DEF EnforceRead, queue
    <3>2. bestIdx \in ClSigs \cap index /\ ClSigs \subseteq Blocks
      BY <2>1, ClSigsAssumption DEF IInv, ValuesInv
    <3>3. QED
      BY <1>1, <3>1, <3>2 DEF SchedInv
  <2>2. CASE ~(isEnforced /\ bestIdx # None)
    <3>1. SchedGoto(AfterEnforce) /\ UNCHANGED queue /\ AfterEnforce \in {"tip", "end"}
      BY <1>12, <2>2 DEF EnforceRead, AfterEnforce
    <3>2. QED
      BY <1>1, <3>1, SchedGotoEffect DEF SchedInv, queue
  <2>3. QED
    BY <2>1, <2>2
<1>13. CASE EnforceMark \/ EnforceActivate \/ EnforceNotify
  <2>1. PICK pc \in {"activate", "notify", "tip", "end"} : SchedGoto(pc) /\ UNCHANGED queue /\ Enforcing
    BY <1>13 DEF EnforceMark, EnforceActivate, EnforceNotify, AfterEnforce
  <2>2. QED
    BY <1>1, <2>1, SchedGotoEffect DEF SchedInv, queue
<1>14. CASE ReadTip
  BY <1>1, <1>14, ChainFacts DEF ReadTip, SchedInv, queue, IInv
<1>15. CASE CheckTip \/ SignTip
  <2>1. PICK pc \in {"sign", "end"} : /\ SchedGoto(pc) /\ UNCHANGED queue
                                     /\ sched.pc \in {"safe", "sign"}
    BY <1>15 DEF CheckTip, SignTip
  <2>2. QED
    BY <1>1, <2>1, SchedGotoEffect DEF SchedInv, queue
<1>16. CASE EndJob
  BY <1>1, <1>16 DEF EndJob, IdleSched, SchedInv
<1>17. CASE Restart
  BY <1>17 DEF Restart, IdleSched, SchedInv
<1>18. CASE SporkChange \/ UNCHANGED vars
  BY <1>2, <1>18 DEF SporkChange, vars
<1>19. QED
  BY <1>3, <1>4, <1>5, <1>6, <1>7, <1>8, <1>9, <1>10, <1>11, <1>12, <1>13, <1>14, <1>15, <1>16,
     <1>17, <1>18, NextCases

\* The inductive invariant holds in every reachable state.
THEOREM Invariance == Spec => []IInv
<1>1. Init => IInv
  BY InitIInv
<1>2. IInv /\ [Next]_vars => IInv'
  BY ChainStep, ValuesStep, ThreadsStep, SchedulerStep DEF IInv
<1>3. QED
  BY <1>1, <1>2, PTL DEF Spec

\* The chain state and the handler are always well formed.
THEOREM TypeCorrect == Spec => []TypeOK
BY Invariance, IInvTypeOK, PTL

\* UpdatedBlockTip's flag never stays set without a job that will clear it.
THEOREM TipJobKept == Spec => []TipJobNotLost
BY Invariance, IInvTypeOK, PTL
-----------------------------------------------------------------------------
(* The locked chain is never flagged *)

\* LockedChain contains the ancestors of its blocks, and any block of it lies
\* in one chain with any CLSIG's block.
LEMMA LockedChainFacts ==
  ASSUME ConsistentLocks, NEW a \in LockedChain
  PROVE  /\ a \in Blocks /\ Chain[a] \subseteq LockedChain
         /\ \A L \in ClSigs : \E c \in ClSigs : a \in Chain[c] /\ Chain[L] \subseteq Chain[c] /\ L \in Chain[c]
<1>1. PICK cl \in ClSigs : a \in Chain[cl]
  BY DEF LockedChain
<1>2. cl \in Blocks /\ a \in Blocks /\ Chain[a] \subseteq Chain[cl]
  BY <1>1, ClSigsAssumption, ChainTransitive
<1>3. ASSUME NEW L \in ClSigs
      PROVE  \E c \in ClSigs : a \in Chain[c] /\ Chain[L] \subseteq Chain[c] /\ L \in Chain[c]
  <2>1. L \in Blocks /\ L \in Chain[L]
    BY ClSigsAssumption, OwnChain
  <2>2. CASE cl \in Chain[L]
    BY <1>1, <2>1, <2>2, ChainTransitive
  <2>3. CASE L \in Chain[cl]
    BY <1>1, <1>2, <2>1, <2>3, ChainTransitive
  <2>4. QED
    BY <2>2, <2>3 DEF ConsistentLocks
<1>4. QED
  BY <1>1, <1>2, <1>3, SMTT(30) DEF LockedChain

\* A block that conflicts with the best ChainLock is not of the locked chain.
LEMMA ConflictingNotLocked ==
  ASSUME ConsistentLocks, IInv, NEW b \in Blocks, HasConflictingChainLock(b)
  PROVE  b \notin LockedChain
<1>1. SUFFICES ASSUME b \in LockedChain PROVE FALSE
  OBVIOUS
<1>2. bestIdx \in ClSigs /\ Height[b] <= Height[bestIdx] /\ b \notin Chain[bestIdx]
  BY DEF HasConflictingChainLock, IInv, ValuesInv
<1>3. PICK c \in ClSigs : b \in Chain[c] /\ bestIdx \in Chain[c]
  BY <1>1, <1>2, LockedChainFacts
<1>4. QED
  BY <1>2, <1>3, ClSigsAssumption, LowerIsAncestor

\* The blocks that EnforceBlock(L) marks are not of the locked chain.
LEMMA MarkedNotLocked ==
  ASSUME ConsistentLocks, IInv, NEW L \in ClSigs, NEW b \in LockedChain
  PROVE  /\ b \notin Siblings(L)
         /\ L \notin Chain[tip] => b \notin Chain[tip] \ Chain[L]
<1>1. PICK c \in ClSigs : b \in Chain[c] /\ Chain[L] \subseteq Chain[c] /\ L \in Chain[c]
  BY LockedChainFacts, SMTT(30)
<1>2. c \in Blocks /\ L \in Blocks /\ tip \in Blocks /\ index \subseteq Blocks
  BY ClSigsAssumption, ChainFacts DEF IInv, ChainInv, ChainType
<1>3. b \notin Siblings(L)
  BY <1>1, <1>2, SiblingsOffChain
<1>4. ASSUME L \notin Chain[tip], b \in Chain[tip], b \notin Chain[L] PROVE FALSE
  <2>1. Height[b] \in Nat /\ Height[L] \in Nat
    BY <1>1, <1>2, ChainTransitive, TreeAssumption
  <2>2. CASE Height[b] <= Height[L]
    BY <1>1, <1>2, <1>4, <2>2, LowerIsAncestor
  <2>3. CASE Height[L] <= Height[b]
    <3>1. L \in Chain[b]
      BY <1>1, <1>2, <2>3, LowerIsAncestor
    <3>2. QED
      BY <1>2, <1>4, <3>1, ChainTransitive
  <2>4. QED
    BY <2>1, <2>2, <2>3, SMTT(30)
<1>5. QED
  BY <1>3, <1>4

\* No step flags a block of the locked chain.
LEMMA LockedStep ==
  ASSUME ConsistentLocks, IInv, LockedChainUsable, [Next]_vars
  PROVE  LockedChainUsable'
<1>1. ASSUME conflict' \subseteq conflict, failed' \subseteq failed PROVE LockedChainUsable'
  BY <1>1 DEF LockedChainUsable, LockedChain
<1>2. ASSUME UNCHANGED chain PROVE LockedChainUsable'
  BY <1>1, <1>2 DEF chain
<1>3. ASSUME NEW b \in Blocks \ {Genesis}, AcceptBlockHeader(b) PROVE LockedChainUsable'
  <2>1. CASE Chain[Parent[b]] \cap failed # {}
    <3>1. /\ failed' = failed \cup {a \in Chain[Parent[b]] : Chain[a] \cap failed # {}}
          /\ conflict' = conflict
      BY <1>3, <2>1 DEF AcceptBlockHeader
    <3>2. QED
      BY <3>1, LockedChainFacts DEF LockedChainUsable, LockedChain
  <2>2. CASE Chain[Parent[b]] \cap failed = {} /\ HasConflictingChainLock(b)
    <3>1. failed' = failed /\ conflict' = conflict \cup {b}
      BY <1>3, <2>2 DEF AcceptBlockHeader
    <3>2. QED
      BY <2>2, <3>1, ConflictingNotLocked DEF LockedChainUsable, LockedChain
  <2>3. CASE Chain[Parent[b]] \cap failed = {} /\ ~HasConflictingChainLock(b)
    BY <1>1, <1>3, <2>3 DEF AcceptBlockHeader
  <2>4. QED
    BY <2>1, <2>2, <2>3
<1>4. CASE FindMostWorkChain
  <2>1. CASE UNCHANGED <<conflict, failed>>
    BY <1>1, <2>1
  <2>2. CASE \E m \in Candidates, x \in conflict \cup failed :
               /\ x \in ToConnect(m)
               /\ conflict' \cup failed' \subseteq
                    conflict \cup failed \cup {a \in ToConnect(m) : Height[a] > Height[x]}
    <3>1. PICK m \in Candidates, x \in conflict \cup failed :
               /\ x \in Chain[m]
               /\ conflict' \cup failed' \subseteq
                    conflict \cup failed \cup {a \in ToConnect(m) : Height[a] > Height[x]}
      BY <2>2 DEF ToConnect
    <3>2. m \in Blocks
      BY DEF Candidates, IInv, ChainInv, ChainType
    <3>3. ASSUME NEW a \in LockedChain, a \in ToConnect(m), Height[a] > Height[x] PROVE FALSE
      <4>1. a \in Chain[m] /\ a \in Blocks /\ Chain[a] \subseteq LockedChain
        BY <3>3, LockedChainFacts DEF ToConnect
      <4>2. Usable(a)
        BY <4>1 DEF Usable, LockedChainUsable
      <4>3. QED
        BY <3>1, <3>2, <3>3, <4>1, <4>2, AboveFlagged, OwnChain
    <3>4. QED
      BY <3>1, <3>3 DEF LockedChainUsable, LockedChain
  <2>3. QED
    BY <1>4, <2>1, <2>2 DEF FindMostWorkChain
<1>5. CASE ConnectTip
  <2>1. ChainInv
    BY DEF IInv
  <2>2. /\ conflict' = conflict
        /\ failed' = failed \/ (HasConflictingChainLock(NextBlock) /\ failed' = failed \cup {NextBlock})
        /\ goal # None
    BY <1>5, <2>1, ConnectTipEffect
  <2>3. NextBlock \in Blocks
    BY <2>1, <2>2, NextBlockProperty
  <2>4. HasConflictingChainLock(NextBlock) => NextBlock \notin LockedChain
    BY <2>3, ConflictingNotLocked
  <2>5. QED
    BY <2>2, <2>4 DEF LockedChainUsable, LockedChain
<1>6. CASE EnforceMark
  <2>1. sched.blk \in ClSigs
    BY <1>6 DEF EnforceMark, IInv, SchedInv, Enforcing
  <2>2. /\ failed' \subseteq failed
        /\ conflict' = conflict \cup Siblings(sched.blk)
             \cup (IF sched.blk \in Chain[tip] THEN {} ELSE Chain[tip] \ Chain[sched.blk])
    BY <1>6 DEF EnforceMark, EnforceBlock
  <2>3. QED
    BY <2>1, <2>2, MarkedNotLocked DEF LockedChainUsable, LockedChain
<1>7. CASE \/ \E cl \in ClSigs : ProcessMessage(cl) \/ HandleNewRecoveredSig(cl)
           \/ \E t \in Handlers : HandlerCheckActive(t) \/ HandlerReset(t) \/ CheckSeen(t)
           \/ \E t \in Handlers : LookupBlock(t) \/ StoreChainLock(t)
  BY <1>2, <1>7 DEF ProcessMessage, HandleNewRecoveredSig, HandlerCheckActive, HandlerReset,
                   CheckSeen, LookupBlock, StoreChainLock
<1>8. CASE \/ \E b \in Blocks \ {Genesis} : AcceptBlock(b)
           \/ AcceptedBlockHeader \/ EndActivation \/ UpdatedBlockTip
  <2>1. CASE \E b \in Blocks \ {Genesis} : AcceptBlock(b)
    BY <1>1, <2>1 DEF AcceptBlock
  <2>2. CASE AcceptedBlockHeader \/ EndActivation \/ UpdatedBlockTip
    BY <1>1, <2>2 DEF AcceptedBlockHeader, EndActivation, UpdatedBlockTip
  <2>3. QED
    BY <1>8, <2>1, <2>2
<1>9. CASE \/ \E job \in {"enforce", "tip", "periodic"} : StartJob(job)
           \/ SchedCheckActive \/ SchedReset \/ EnforceRead \/ EnforceActivate \/ EnforceNotify
           \/ ReadTip \/ CheckTip \/ SignTip \/ EndJob \/ SporkChange \/ UNCHANGED vars
  BY <1>2, <1>9 DEF StartJob, SchedCheckActive, SchedReset, EnforceRead, EnforceActivate,
       EnforceNotify, ReadTip, CheckTip, SignTip, EndJob, SporkChange, vars
<1>10. CASE Restart
  <2>1. conflict' \subseteq conflict /\ failed' = {b \in index : Chain[b] \cap failed # {}}
    BY <1>10 DEF Restart
  <2>2. QED
    BY <2>1, LockedChainFacts, SMTT(30) DEF LockedChainUsable, LockedChain
<1>11. QED
  BY <1>3, <1>4, <1>5, <1>6, <1>7, <1>8, <1>9, <1>10, NextCases

\* If the quorums signed blocks of one chain only, no block of it is ever
\* flagged as failed or conflicting by this node.
THEOREM LockedStaysUsable ==
  ASSUME ConsistentLocks
  PROVE  Spec => []LockedChainUsable
<1>1. Init => LockedChainUsable
  BY DEF Init, LockedChainUsable
<1>2. IInv /\ LockedChainUsable /\ [Next]_vars => LockedChainUsable'
  BY LockedStep
<1>3. QED
  BY <1>1, <1>2, Invariance, PTL DEF Spec
-----------------------------------------------------------------------------
(* Locks that are in force *)

\* Thread t has passed the check of seenChainLocks and not yet stored its CLSIG.
Pending(t) == th[t].pc \in {"lookup", "store"}

\* The CLSIGs that were stored and are still in use somewhere.
Used ==
  ({best, bestIdx, lastNotify} \cup (IF Enforcing THEN {sched.blk} ELSE {})) \ {None}

\* A CLSIG is stored once: no thread is about to store one that is in use.
SeenInv ==
  /\ Used \subseteq seen
  /\ \A t \in Handlers : Pending(t) => th[t].cl \in seen /\ th[t].cl \notin Used
  /\ \A t, u \in Handlers : Pending(t) /\ Pending(u) /\ th[t].cl = th[u].cl => t = u

\* Every step keeps the CLSIGs in use among the seen ones, and none of them pending.
LEMMA SeenStep ==
  ASSUME ~ExpireSeen, IInv, SeenInv, [Next]_vars
  PROVE  SeenInv'
<1> USE DEF Enforcing
<1>1. ThreadsInv /\ SchedInv /\ ValuesInv
  BY DEF IInv
<1>2. ASSUME UNCHANGED <<seen, th>>, Used' \subseteq Used PROVE SeenInv'
  BY <1>2 DEF SeenInv, Pending
<1>3. ASSUME UNCHANGED <<locks, th, sched>> PROVE SeenInv'
  <2>1. Used' = Used /\ UNCHANGED <<seen, th>>
    BY <1>3 DEF Used, locks
  <2>2. QED
    BY <1>2, <2>1
<1>4. ASSUME NEW t \in Handlers, NEW r, r.pc \notin {"lookup", "store"}, th' = [th EXCEPT ![t] = r],
             seen \subseteq seen', Used' \subseteq Used
      PROVE  SeenInv'
  <2>1. \A u \in Handlers : Pending(u)' => Pending(u) /\ th'[u] = th[u]
    BY <1>1, <1>4 DEF ThreadsInv, Pending
  <2>2. QED
    BY <1>4, <2>1 DEF SeenInv
<1>5. CASE \E cl \in ClSigs : ProcessMessage(cl) \/ HandleNewRecoveredSig(cl)
  <2>1. PICK cl \in ClSigs, t \in Handlers :
               th' = [th EXCEPT ![t] = [pc |-> "check", cl |-> cl, found |-> FALSE]]
    BY <1>5 DEF ProcessMessage, HandleNewRecoveredSig
  <2>2. Used' = Used /\ seen' = seen
    BY <1>5 DEF ProcessMessage, HandleNewRecoveredSig, Used, locks
  <2>3. QED
    BY <1>4, <2>1, <2>2
<1>6. CASE \E t \in Handlers : HandlerCheckActive(t) \/ HandlerReset(t)
  <2>1. PICK t \in Handlers : HandlerCheckActive(t) \/ HandlerReset(t)
    BY <1>6
  <2>2. PICK pc \in {"reset", "seen"} : th' = [th EXCEPT ![t].pc = pc]
    BY <2>1 DEF HandlerCheckActive, HandlerReset, Goto
  <2>3. Used' \subseteq Used /\ seen' = seen
    BY <2>1 DEF HandlerCheckActive, HandlerReset, ResetChainLocks, Used, locks
  <2>4. \A u \in Handlers : Pending(u)' => Pending(u) /\ th'[u] = th[u]
    BY <1>1, <2>2 DEF ThreadsInv, Pending
  <2>5. QED
    BY <2>3, <2>4 DEF SeenInv
<1>7. CASE \E t \in Handlers : CheckSeen(t)
  <2>1. PICK t \in Handlers : CheckSeen(t)
    BY <1>7
  <2>2. Used' = Used /\ seen' = seen \cup {th[t].cl}
    BY <2>1 DEF CheckSeen, Used
  <2>3. CASE Return(t)
    BY <1>4, <2>2, <2>3 DEF Return, IdleHandler
  <2>4. CASE th[t].cl \notin seen /\ Goto(t, "lookup")
    <3>1. \A u \in Handlers : th'[u].cl = th[u].cl /\ (u # t => th'[u] = th[u])
      BY <1>1, <2>4 DEF Goto, ThreadsInv
    <3>2. QED
      BY <2>2, <2>4, <3>1, SMTT(30) DEF SeenInv, Pending
  <2>5. QED
    BY <2>1, <2>3, <2>4 DEF CheckSeen
<1>8. CASE \E t \in Handlers : LookupBlock(t)
  <2>1. PICK t \in Handlers : LookupBlock(t)
    BY <1>8
  <2>2. Used' = Used /\ seen' = seen
    BY <2>1 DEF LookupBlock, Used, locks
  <2>3. \A u \in Handlers : th'[u].cl = th[u].cl /\ (u # t => th'[u] = th[u])
    BY <1>1, <2>1 DEF LookupBlock, ThreadsInv
  <2>4. Pending(t)
    BY <2>1 DEF LookupBlock, Pending
  <2>5. QED
    BY <2>2, <2>3, <2>4 DEF SeenInv, Pending
<1>9. CASE \E t \in Handlers : StoreChainLock(t)
  <2>1. PICK t \in Handlers : StoreChainLock(t)
    BY <1>9
  <2>2. Used' \subseteq Used \cup {th[t].cl} /\ seen' = seen
    BY <2>1 DEF StoreChainLock, Used
  <2>3. Pending(t)
    BY <2>1 DEF StoreChainLock, Pending
  <2>4. \A u \in Handlers : Pending(u)' => u # t /\ Pending(u) /\ th'[u] = th[u]
    BY <1>1, <2>1 DEF StoreChainLock, Return, IdleHandler, ThreadsInv, Pending
  <2>5. QED
    BY <2>2, <2>3, <2>4 DEF SeenInv
<1>10. CASE \E b \in Blocks \ {Genesis} : AcceptBlockHeader(b) \/ AcceptBlock(b)
  BY <1>3, <1>10 DEF AcceptBlockHeader, AcceptBlock
<1>11. CASE AcceptedBlockHeader
  <2>1. Used' \subseteq Used
    BY <1>11 DEF AcceptedBlockHeader, Used
  <2>2. QED
    BY <1>2, <1>11, <2>1 DEF AcceptedBlockHeader
<1>12. CASE FindMostWorkChain \/ ConnectTip \/ EndActivation \/ UpdatedBlockTip
  BY <1>3, <1>12 DEF FindMostWorkChain, ConnectTip, EndActivation, UpdatedBlockTip
<1>13. CASE \E job \in {"enforce", "tip", "periodic"} : StartJob(job)
  <2>1. Used' \subseteq Used
    BY <1>13, SMTT(30) DEF StartJob, Used, locks
  <2>2. QED
    BY <1>2, <1>13, <2>1 DEF StartJob, locks
<1>14. CASE SchedCheckActive \/ SchedReset
  <2>1. PICK pc \in {"enforce", "reset"} : SchedGoto(pc)
    BY <1>14 DEF SchedCheckActive, SchedReset
  <2>2. ~Enforcing'
    BY <1>1, <2>1, SchedGotoEffect
  <2>3. Used' \subseteq Used
    BY <1>14, <2>2 DEF SchedCheckActive, SchedReset, ResetChainLocks, Used, locks
  <2>4. QED
    BY <1>2, <1>14, <2>3 DEF SchedCheckActive, SchedReset, locks
<1>15. CASE EnforceRead
  <2>1. Enforcing' => sched'.blk = bestIdx /\ bestIdx # None
    <3>1. CASE isEnforced /\ bestIdx # None
      BY <1>1, <1>15, <3>1 DEF EnforceRead, SchedInv
    <3>2. CASE ~(isEnforced /\ bestIdx # None)
      <4>1. SchedGoto(AfterEnforce) /\ AfterEnforce \in {"tip", "end"}
        BY <1>15, <3>2 DEF EnforceRead, AfterEnforce
      <4>2. QED
        BY <1>1, <4>1, SchedGotoEffect
    <3>3. QED
      BY <3>1, <3>2
  <2>2. Used' \subseteq Used
    BY <1>15, <2>1 DEF EnforceRead, Used, locks
  <2>3. QED
    BY <1>2, <1>15, <2>2 DEF EnforceRead, locks
<1>16. CASE EnforceMark \/ EnforceActivate \/ EnforceNotify
  <2>1. Enforcing
    BY <1>16 DEF EnforceMark, EnforceActivate, EnforceNotify
  <2>2. Enforcing' => sched'.blk = sched.blk
    BY <1>1, <1>16, SchedGotoEffect DEF EnforceMark, EnforceActivate, EnforceNotify, AfterEnforce
  <2>3. Used' \subseteq Used
    BY <1>16, <2>1, <2>2 DEF EnforceMark, EnforceActivate, EnforceNotify, Used, locks
  <2>4. QED
    BY <1>2, <1>16, <2>3 DEF EnforceMark, EnforceActivate, EnforceNotify, locks
<1>17. CASE ReadTip \/ CheckTip \/ SignTip \/ EndJob
  <2>1. ~Enforcing'
    <3>1. CASE ReadTip
      BY <1>1, <3>1 DEF ReadTip, SchedInv
    <3>2. CASE CheckTip \/ SignTip
      BY <1>1, <3>2, SchedGotoEffect, SMTT(30) DEF CheckTip, SignTip
    <3>3. CASE EndJob
      BY <3>3 DEF EndJob, IdleSched
    <3>4. QED
      BY <1>17, <3>1, <3>2, <3>3
  <2>2. seen' = seen
    BY <1>17 DEF ReadTip, CheckTip, SignTip, EndJob, locks
  <2>3. Used' \subseteq Used
    BY <1>17, <2>1 DEF ReadTip, CheckTip, SignTip, EndJob, Used, locks
  <2>4. QED
    BY <1>2, <1>17, <2>2, <2>3 DEF ReadTip, CheckTip, SignTip, EndJob
<1>18. CASE SporkChange \/ UNCHANGED vars
  BY <1>3, <1>18 DEF SporkChange, vars
<1>19. CASE Restart
  BY <1>19 DEF Restart, IdleHandler, IdleSched, SeenInv, Used, Pending
<1>20. QED
  BY <1>5, <1>6, <1>7, <1>8, <1>9, <1>10, <1>11, <1>12, <1>13, <1>14, <1>15, <1>16, <1>17, <1>18,
     <1>19, NextCases

\* L is the lock being enforced; if it is, it is active, and an activation
\* that holds cs_main can only come back to a chain that contains it.
InForce(L) == isEnforced /\ bestIdx = L /\ ~ResetPending
Active(L) ==
  /\ L \in Chain[ActiveTip]
  /\ from # None => Usable(from) /\ (L \in Chain[tip] \/ tip \in Chain[L])
Held(L) == InForce(L) => Active(L)

\* Once L is no longer in force, it never is again while it is in use.
LEMMA InForceBefore ==
  ASSUME IInv, [Next]_vars, NEW L \in Blocks, L \in index,
         \A t \in Handlers : Pending(t) => th[t].cl # L,
         InForce(L)'
  PROVE  InForce(L)
<1>1. ThreadsInv /\ SchedInv /\ ValuesInv /\ ChainInv /\ L # None
  BY TreeAssumption DEF IInv
<1>2. isEnforced' /\ bestIdx' = L /\ ~ResetPending'
  BY DEF InForce
<1>3. ASSUME UNCHANGED <<isEnforced, bestIdx>>, ResetPending => ResetPending' PROVE InForce(L)
  BY <1>2, <1>3 DEF InForce
<1>4. ASSUME UNCHANGED <<th, isEnforced, bestIdx>>, sched.pc = "reset" => sched'.pc = "reset"
      PROVE  InForce(L)
  BY <1>3, <1>4 DEF ResetPending
<1>5. ASSUME NEW t \in Handlers, th[t].pc # "reset", UNCHANGED sched,
             \A u \in Handlers \ {t} : th'[u] = th[u]
      PROVE  ResetPending => ResetPending'
  BY <1>5 DEF ResetPending
<1>6. CASE \E cl \in ClSigs : ProcessMessage(cl) \/ HandleNewRecoveredSig(cl)
  <2>1. PICK cl \in ClSigs, t \in Handlers :
              /\ th[t].pc = "idle"
              /\ th' = [th EXCEPT ![t] = [pc |-> "check", cl |-> cl, found |-> FALSE]]
    BY <1>6 DEF ProcessMessage, HandleNewRecoveredSig
  <2>2. \A u \in Handlers \ {t} : th'[u] = th[u]
    BY <1>1, <2>1 DEF ThreadsInv
  <2>3. QED
    BY <1>3, <1>5, <1>6, <2>1, <2>2 DEF ProcessMessage, HandleNewRecoveredSig, active, locks
<1>7. CASE \E t \in Handlers : HandlerCheckActive(t)
  <2>1. PICK t \in Handlers : HandlerCheckActive(t)
    BY <1>7
  <2>2. CASE ~isEnforced
    <3>1. Goto(t, "reset")
      BY <1>2, <2>1, <2>2 DEF HandlerCheckActive, SetActiveState
    <3>2. th'[t].pc = "reset"
      BY <1>1, <3>1 DEF Goto, ThreadsInv
    <3>3. QED
      BY <1>2, <3>2 DEF ResetPending
  <2>3. CASE isEnforced
    <3>1. \A u \in Handlers \ {t} : th'[u] = th[u]
      BY <1>1, <2>1 DEF HandlerCheckActive, Goto, ThreadsInv
    <3>2. th[t].pc # "reset" /\ UNCHANGED <<sched, bestIdx>>
      BY <2>1 DEF HandlerCheckActive, locks
    <3>3. ~ResetPending
      BY <1>2, <1>5, <3>1, <3>2
    <3>4. QED
      BY <1>2, <2>3, <3>2, <3>3 DEF InForce
  <2>4. QED
    BY <2>2, <2>3
<1>8. CASE (\E t \in Handlers : HandlerReset(t)) \/ SchedReset \/ Restart
  BY <1>1, <1>2, <1>8 DEF HandlerReset, SchedReset, ResetChainLocks, Restart
<1>9. CASE \E t \in Handlers : CheckSeen(t) \/ LookupBlock(t)
  <2>1. PICK t \in Handlers : CheckSeen(t) \/ LookupBlock(t)
    BY <1>9
  <2>2. \A u \in Handlers \ {t} : th'[u] = th[u]
    BY <1>1, <2>1 DEF CheckSeen, LookupBlock, Goto, Return, ThreadsInv
  <2>3. QED
    BY <1>3, <1>5, <2>1, <2>2 DEF CheckSeen, LookupBlock, active, locks
<1>10. CASE \E t \in Handlers : StoreChainLock(t)
  <2>1. PICK t \in Handlers : StoreChainLock(t)
    BY <1>10
  <2>2. \A u \in Handlers \ {t} : th'[u] = th[u]
    BY <1>1, <2>1 DEF StoreChainLock, Return, ThreadsInv
  <2>3. th[t].cl # L
    BY <2>1 DEF StoreChainLock, Pending
  <2>4. bestIdx' = bestIdx
    BY <1>2, <2>1, <2>3 DEF StoreChainLock
  <2>5. QED
    BY <1>3, <1>5, <2>1, <2>2, <2>4 DEF StoreChainLock, active
<1>11. CASE \E b \in Blocks \ {Genesis} : AcceptBlockHeader(b) \/ AcceptBlock(b)
  BY <1>4, <1>11 DEF AcceptBlockHeader, AcceptBlock, active, locks
<1>12. CASE AcceptedBlockHeader
  <2>1. header # L
    BY <1>1, <1>12 DEF AcceptedBlockHeader, ChainInv, ActivationInv
  <2>2. bestIdx' = bestIdx
    BY <1>2, <1>12, <2>1 DEF AcceptedBlockHeader
  <2>3. QED
    BY <1>4, <1>12, <2>2 DEF AcceptedBlockHeader, active
<1>13. CASE FindMostWorkChain \/ ConnectTip \/ EndActivation \/ UpdatedBlockTip
  <2>1. CASE FindMostWorkChain \/ ConnectTip
    BY <1>4, <2>1 DEF FindMostWorkChain, ConnectTip, active, locks
  <2>2. CASE EndActivation \/ UpdatedBlockTip
    BY <1>4, <2>2 DEF EndActivation, UpdatedBlockTip, active, locks
  <2>3. QED
    BY <1>13, <2>1, <2>2
<1>14. CASE \E job \in {"enforce", "tip", "periodic"} : StartJob(job)
  BY <1>4, <1>14 DEF StartJob, active, locks
<1>15. CASE SchedCheckActive
  <2>1. CASE ~isEnforced
    <3>1. SchedGoto("reset")
      BY <1>2, <1>15, <2>1 DEF SchedCheckActive, SetActiveState
    <3>2. sched'.pc = "reset"
      BY <1>1, <3>1, SchedGotoEffect
    <3>3. QED
      BY <1>2, <3>2 DEF ResetPending
  <2>2. CASE isEnforced
    BY <1>2, <1>4, <1>15, <2>2 DEF SchedCheckActive, locks
  <2>3. QED
    BY <2>1, <2>2
<1>16. CASE EnforceRead \/ EnforceMark \/ EnforceActivate \/ EnforceNotify
  BY <1>4, <1>16 DEF EnforceRead, EnforceMark, EnforceActivate, EnforceNotify, active, locks
<1>17. CASE ReadTip \/ CheckTip \/ SignTip \/ EndJob
  BY <1>4, <1>17 DEF ReadTip, CheckTip, SignTip, EndJob, active, locks
<1>18. CASE SporkChange \/ UNCHANGED vars
  BY <1>4, <1>18 DEF SporkChange, vars, active, locks
<1>19. QED
  BY <1>6, <1>7, <1>8, <1>9, <1>10, <1>11, <1>12, <1>13, <1>14, <1>15, <1>16, <1>17, <1>18, NextCases

\* Two blocks of a chain are comparable.
LEMMA Comparable ==
  ASSUME NEW b \in Blocks, NEW x \in Chain[b], NEW y \in Chain[b]
  PROVE  x \in Chain[y] \/ y \in Chain[x]
<1>1. Height[x] \in Nat /\ Height[y] \in Nat
  BY ChainTransitive, TreeAssumption
<1>2. Height[x] <= Height[y] \/ Height[y] <= Height[x]
  BY <1>1, SMTT(30)
<1>3. QED
  BY <1>2, LowerIsAncestor

\* ActivateBestChain disconnects to the fork without leaving the locked block.
LEMMA FindMostWorkChainKeeps ==
  ASSUME IInv, NEW L \in Blocks, Active(L), FindMostWorkChain
  PROVE  Active(L)'
<1>1. ChainInv
  BY DEF IInv
<1>2. from' = ActiveTip /\ ActiveTip # None /\ ActiveTip \in Blocks /\ tip \in Blocks
  BY <1>1, ChainFacts DEF FindMostWorkChain
<1>3. ActiveTip' = ActiveTip
  BY <1>2 DEF ActiveTip
<1>4. Usable(ActiveTip)
  BY <1>1 DEF ActiveTip, Active, ChainInv, ActivationInv
<1>5. L \in Chain[tip] \/ tip \in Chain[L]
  BY DEF ActiveTip, Active
<1>6. CASE \E m \in Candidates : tip' = Fork(m) /\ UNCHANGED <<conflict, failed>>
  <2>1. PICK m \in Candidates : tip' = Fork(m) /\ UNCHANGED <<conflict, failed>>
    BY <1>6
  <2>2. tip' \in Chain[tip]
    <3>1. m \in Blocks
      BY <1>1 DEF Candidates, ChainInv, ChainType
    <3>2. QED
      BY <1>2, <2>1, <3>1, ForkProperty DEF Fork
  <2>3. L \in Chain[tip'] \/ tip' \in Chain[L]
    BY <1>2, <1>5, <2>2, Comparable, ChainTransitive
  <2>4. Usable(from)'
    BY <1>2, <1>4, <2>1 DEF Usable
  <2>5. QED
    BY <1>3, <2>3, <2>4 DEF Active
<1>7. CASE \E m \in Candidates, x \in conflict \cup failed :
             /\ x \in ToConnect(m) /\ tip' = tip
             /\ conflict' \cup failed' \subseteq
                  conflict \cup failed \cup {a \in ToConnect(m) : Height[a] > Height[x]}
  <2>1. PICK m \in Candidates, x \in conflict \cup failed :
             /\ x \in Chain[m] /\ tip' = tip
             /\ conflict' \cup failed' \subseteq
                  conflict \cup failed \cup {a \in Chain[m] : Height[a] > Height[x]}
    BY <1>7 DEF ToConnect
  <2>2. m \in Blocks
    BY <1>1 DEF Candidates, ChainInv, ChainType
  <2>3. Chain[ActiveTip] \cap {a \in Chain[m] : Height[a] > Height[x]} = {}
    BY <1>2, <1>4, <2>1, <2>2, AboveFlagged
  <2>4. Usable(from)'
    BY <1>2, <1>4, <2>1, <2>3 DEF Usable
  <2>5. QED
    BY <1>3, <1>5, <2>1, <2>4 DEF Active
<1>8. QED
  BY <1>6, <1>7 DEF FindMostWorkChain

\* Connecting the next block, or failing to, does not leave the locked block.
LEMMA ConnectTipKeeps ==
  ASSUME IInv, NEW L \in Blocks, InForce(L), Active(L), ConnectTip
  PROVE  Active(L)'
<1> DEFINE b == NextBlock
<1>1. ChainInv
  BY DEF IInv
<1>2. /\ goal # None
      /\ from' = IF tip' = ActiveTip \/ Height[tip'] > Height[ActiveTip] THEN None ELSE ActiveTip
      /\ conflict' = conflict
  BY <1>1, ConnectTipEffect
<1>3. /\ b \in Blocks /\ Height[b] = Height[tip] + 1
      /\ Chain[tip] \subseteq Chain[b] /\ tip \in Chain[b]
  BY <1>1, <1>2, NextBlockProperty
<1>4. /\ tip \in Blocks /\ ActiveTip \in Blocks /\ ActiveTip # None
      /\ Height[tip] \in Nat /\ Height[ActiveTip] \in Nat /\ Height[b] \in Nat
  BY <1>1, <1>3, ChainFacts, TreeAssumption
<1>5. /\ L \in Chain[ActiveTip] /\ Height[L] <= Height[ActiveTip] /\ Height[L] \in Nat
      /\ Usable(ActiveTip) /\ (L \in Chain[tip] \/ tip \in Chain[L])
  <2>1. L \in Chain[ActiveTip]
    BY DEF Active
  <2>2. Height[L] <= Height[ActiveTip] /\ Height[L] \in Nat
    BY <1>4, <2>1, ChainTransitive, TreeAssumption
  <2>3. Usable(ActiveTip) /\ (L \in Chain[tip] \/ tip \in Chain[L])
    BY <1>1 DEF Active, ActiveTip, ChainInv, ActivationInv
  <2>4. QED
    BY <2>1, <2>2, <2>3
<1>6. CASE HasConflictingChainLock(b) /\ tip' = tip /\ failed' = failed \cup {b}
  <2>1. Height[b] <= Height[L] /\ b \notin Chain[L]
    BY <1>6 DEF HasConflictingChainLock, InForce
  <2>2. b \notin Chain[ActiveTip]
    BY <1>4, <1>5, <2>1, LowerIsAncestor
  <2>3. CASE from' = None
    <3>1. tip = ActiveTip
      <4>1. ~(Height[tip] > Height[ActiveTip])
        BY <1>1, <1>4, ChainFacts, SMTT(30)
      <4>2. QED
        BY <1>2, <1>4, <1>6, <2>3, <4>1
    <3>2. QED
      BY <1>5, <1>6, <2>3, <3>1 DEF Active, ActiveTip
  <2>4. CASE from' = ActiveTip
    <3>1. ActiveTip' = ActiveTip
      BY <1>4, <2>4 DEF ActiveTip
    <3>2. Usable(from)'
      BY <1>2, <1>5, <1>6, <2>2, <2>4 DEF Usable
    <3>3. QED
      BY <1>5, <1>6, <3>1, <3>2 DEF Active
  <2>5. QED
    BY <1>2, <2>3, <2>4
<1>7. CASE ~HasConflictingChainLock(b) /\ tip' = b /\ failed' = failed
  <2>1. L \in Chain[b] \/ b \in Chain[L]
    <3>1. CASE L \in Chain[tip]
      BY <1>3, <3>1
    <3>2. CASE tip \in Chain[L] /\ Height[b] <= Height[L]
      <4>1. b \in Chain[L]
        <5>1. isEnforced /\ bestIdx = L /\ L # None
          BY TreeAssumption DEF InForce
        <5>2. QED
          BY <1>7, <3>2, <5>1 DEF HasConflictingChainLock
      <4>2. QED
        BY <4>1
    <3>3. CASE tip \in Chain[L] /\ ~(Height[b] <= Height[L])
      <4>1. Height[tip] <= Height[L]
        BY <3>3, ChainTransitive
      <4>2. Height[tip] = Height[L]
        BY <1>3, <1>4, <1>5, <3>3, <4>1, SMTT(30)
      <4>3. tip = L
        BY <3>3, <4>2, OneAtHeight, OwnChain
      <4>4. QED
        BY <1>3, <4>3
    <3>4. QED
      BY <1>5, <3>1, <3>2, <3>3
  <2>2. CASE from' = None
    <3>1. Height[b] >= Height[L]
      BY <1>2, <1>4, <1>5, <1>7, <2>2, SMTT(30)
    <3>2. L \in Chain[b]
      <4>1. CASE b \in Chain[L]
        <5>1. Height[b] <= Height[L]
          BY <4>1, ChainTransitive
        <5>2. Height[b] = Height[L]
          BY <1>4, <1>5, <3>1, <5>1, SMTT(30)
        <5>3. b = L
          BY <4>1, <5>2, OneAtHeight, OwnChain
        <5>4. QED
          BY <5>3, OwnChain
      <4>2. QED
        BY <2>1, <4>1
    <3>3. ActiveTip' = b
      BY <1>7, <2>2 DEF ActiveTip
    <3>4. QED
      BY <2>2, <3>2, <3>3 DEF Active
  <2>3. CASE from' = ActiveTip
    <3>1. ActiveTip' = ActiveTip
      BY <1>4, <2>3 DEF ActiveTip
    <3>2. Usable(from)'
      BY <1>2, <1>5, <1>7, <2>3 DEF Usable
    <3>3. QED
      BY <1>5, <1>7, <2>1, <3>1, <3>2 DEF Active
  <2>4. QED
    BY <1>2, <2>2, <2>3
<1>8. QED
  BY <1>1, <1>6, <1>7, ConnectTipEffect
-----------------------------------------------------------------------------
\* Leaving ActivateBestChain keeps the tip, and so the locked block.
LEMMA EndActivationKeeps ==
  ASSUME IInv, NEW L \in Blocks, Active(L), EndActivation
  PROVE  Active(L)'
<1>1. from # None /\ from' = None /\ Candidates \subseteq {tip} /\ tip' = tip
  BY DEF EndActivation
<1>2. from \in data /\ Chain[from] \subseteq data /\ from \in Blocks /\ from \in index
  BY <1>1 DEF IInv, ChainInv, ChainType, ActivationInv
<1>3. from \notin conflict \cup failed
  BY <1>1, <1>2, OwnChain DEF Active, Usable
<1>4. from \in Candidates
  BY <1>1, <1>2, <1>3 DEF Candidates, ActiveTip
<1>5. QED
  BY <1>1, <1>4 DEF Active, ActiveTip

\* EnforceBlock flags siblings and disconnects, and spares the locked block.
LEMMA EnforceMarkKeeps ==
  ASSUME ConsistentLocks, IInv, NEW L \in ClSigs, Active(L), EnforceMark
  PROVE  Active(L)'
<1>1. from = None /\ from' = None /\ EnforceBlock(sched.blk) /\ sched.blk \in ClSigs
  BY DEF EnforceMark, MainFree, step, IInv, SchedInv, Enforcing
<1>2. L \in Chain[tip]
  BY <1>1 DEF Active, ActiveTip
<1>3. L \in Blocks /\ sched.blk \in Blocks /\ tip \in Blocks
  BY <1>1, ClSigsAssumption, ChainFacts DEF IInv
<1>4. L \in Chain[tip']
  <2>1. CASE sched.blk \in Chain[tip]
    BY <1>1, <1>2, <2>1 DEF EnforceBlock
  <2>2. CASE sched.blk \notin Chain[tip]
    <3>1. L \in Chain[sched.blk]
      BY <1>1, <1>2, <1>3, <2>2, ChainTransitive DEF ConsistentLocks
    <3>2. L \in Chain[Fork(sched.blk)]
      BY <1>2, <1>3, <3>1, ForkProperty DEF Fork
    <3>3. QED
      BY <1>1, <2>2, <3>2 DEF EnforceBlock
  <2>3. QED
    BY <2>1, <2>2
<1>5. QED
  BY <1>1, <1>4 DEF Active, ActiveTip

\* While L is in force it stays active.
LEMMA HeldStep ==
  ASSUME ConsistentLocks, IInv, [Next]_vars, NEW L \in ClSigs, L \in index,
         \A t \in Handlers : Pending(t) => th[t].cl # L,
         Held(L)
  PROVE  Held(L)'
<1>1. SUFFICES ASSUME InForce(L)' PROVE Active(L)'
  BY DEF Held
<1>2. L \in Blocks /\ InForce(L) /\ Active(L)
  BY <1>1, InForceBefore, ClSigsAssumption DEF Held
<1>3. ASSUME UNCHANGED <<tip, from, conflict, failed>> PROVE Active(L)'
  BY <1>2, <1>3 DEF Active, ActiveTip, Usable
<1>4. ASSUME UNCHANGED chain PROVE Active(L)'
  BY <1>3, <1>4 DEF chain, step
<1>5. CASE \/ \E cl \in ClSigs : ProcessMessage(cl) \/ HandleNewRecoveredSig(cl)
           \/ \E t \in Handlers : HandlerCheckActive(t) \/ HandlerReset(t) \/ CheckSeen(t)
           \/ \E t \in Handlers : LookupBlock(t) \/ StoreChainLock(t)
  <2>1. CASE \E cl \in ClSigs : ProcessMessage(cl) \/ HandleNewRecoveredSig(cl)
    BY <1>4, <2>1 DEF ProcessMessage, HandleNewRecoveredSig
  <2>2. CASE \E t \in Handlers : HandlerCheckActive(t) \/ HandlerReset(t) \/ CheckSeen(t)
    BY <1>4, <2>2 DEF HandlerCheckActive, HandlerReset, CheckSeen
  <2>3. CASE \E t \in Handlers : LookupBlock(t) \/ StoreChainLock(t)
    BY <1>4, <2>3 DEF LookupBlock, StoreChainLock
  <2>4. QED
    BY <1>5, <2>1, <2>2, <2>3
<1>6. CASE \E b \in Blocks \ {Genesis} : AcceptBlockHeader(b)
  <2>1. from = None /\ UNCHANGED <<tip, from>>
    BY <1>6 DEF AcceptBlockHeader, MainFree
  <2>2. QED
    BY <1>2, <2>1 DEF Active, ActiveTip
<1>7. CASE \/ \E b \in Blocks \ {Genesis} : AcceptBlock(b)
           \/ AcceptedBlockHeader \/ UpdatedBlockTip
  BY <1>3, <1>7 DEF AcceptBlock, AcceptedBlockHeader, UpdatedBlockTip, step
<1>8. CASE FindMostWorkChain \/ ConnectTip \/ EndActivation \/ EnforceMark
  BY <1>2, <1>8, FindMostWorkChainKeeps, ConnectTipKeeps, EndActivationKeeps, EnforceMarkKeeps
<1>9. CASE \/ \E job \in {"enforce", "tip", "periodic"} : StartJob(job)
           \/ SchedCheckActive \/ SchedReset \/ EnforceRead \/ EnforceActivate \/ EnforceNotify
           \/ ReadTip \/ CheckTip \/ SignTip \/ EndJob \/ SporkChange \/ UNCHANGED vars
  BY <1>4, <1>9 DEF StartJob, SchedCheckActive, SchedReset, EnforceRead, EnforceActivate,
       EnforceNotify, ReadTip, CheckTip, SignTip, EndJob, SporkChange, vars
<1>10. CASE Restart
  <2>1. bestIdx' = None /\ L # None
    BY <1>2, <1>10, TreeAssumption DEF Restart
  <2>2. QED
    BY <1>1, <2>1 DEF InForce
<1>11. QED
  BY <1>5, <1>6, <1>7, <1>8, <1>9, <1>10, NextCases

\* The inductive invariant behind NotifiedLockIsActive.
NotifyInv ==
  /\ SeenInv
  /\ lastNotify # None => lastNotify \in index /\ Held(lastNotify)
  /\ sched.pc = "notify" => Held(sched.blk)

\* lastNotifyChainLockBlockIndex and the scheduler's block change only so.
LEMMA NotifyChanges ==
  ASSUME IInv, [Next]_vars
  PROVE  /\ \/ lastNotify' = lastNotify \/ lastNotify' = None
            \/ sched.pc = "notify" /\ lastNotify' = sched.blk
         /\ sched'.pc = "notify" =>
              \/ sched' = sched
              \/ EnforceActivate /\ sched'.blk = sched.blk /\ sched.blk \in Chain[tip]
<1>1. SchedInv
  BY DEF IInv
<1>2. CASE \/ \E cl \in ClSigs : ProcessMessage(cl) \/ HandleNewRecoveredSig(cl)
           \/ \E t \in Handlers : HandlerCheckActive(t) \/ HandlerReset(t) \/ CheckSeen(t)
           \/ \E t \in Handlers : LookupBlock(t) \/ StoreChainLock(t)
  <2>1. sched' = sched
    BY <1>2 DEF ProcessMessage, HandleNewRecoveredSig, HandlerCheckActive, HandlerReset,
                CheckSeen, LookupBlock, StoreChainLock
  <2>2. CASE \E cl \in ClSigs : ProcessMessage(cl) \/ HandleNewRecoveredSig(cl)
    BY <2>1, <2>2 DEF ProcessMessage, HandleNewRecoveredSig, locks
  <2>3. CASE \E t \in Handlers : HandlerCheckActive(t) \/ HandlerReset(t) \/ CheckSeen(t)
    BY <2>1, <2>3 DEF HandlerCheckActive, HandlerReset, CheckSeen, ResetChainLocks, locks
  <2>4. CASE \E t \in Handlers : LookupBlock(t) \/ StoreChainLock(t)
    BY <2>1, <2>4 DEF LookupBlock, StoreChainLock, locks
  <2>5. QED
    BY <1>2, <2>2, <2>3, <2>4
<1>3. CASE \E b \in Blocks \ {Genesis} : AcceptBlockHeader(b) \/ AcceptBlock(b)
  BY <1>3 DEF AcceptBlockHeader, AcceptBlock, locks
<1>4. CASE AcceptedBlockHeader \/ FindMostWorkChain \/ ConnectTip \/ EndActivation \/ UpdatedBlockTip
  <2>1. CASE AcceptedBlockHeader \/ FindMostWorkChain
    BY <2>1 DEF AcceptedBlockHeader, FindMostWorkChain, locks
  <2>2. CASE ConnectTip \/ EndActivation
    BY <2>2 DEF ConnectTip, EndActivation, locks
  <2>3. CASE UpdatedBlockTip
    BY <2>3 DEF UpdatedBlockTip, locks
  <2>4. QED
    BY <1>4, <2>1, <2>2, <2>3
<1>5. CASE \E job \in {"enforce", "tip", "periodic"} : StartJob(job)
  BY <1>5, SMTT(30) DEF StartJob, locks
<1>6. CASE SchedCheckActive \/ SchedReset
  <2>1. PICK pc \in {"enforce", "reset"} : SchedGoto(pc)
    BY <1>6 DEF SchedCheckActive, SchedReset
  <2>2. sched'.pc # "notify"
    BY <1>1, <2>1, SchedGotoEffect
  <2>3. QED
    BY <1>6, <2>2 DEF SchedCheckActive, SchedReset, ResetChainLocks, locks
<1>7. CASE EnforceRead
  <2>1. sched'.pc # "notify"
    <3>1. CASE isEnforced /\ bestIdx # None
      BY <1>1, <1>7, <3>1 DEF EnforceRead, SchedInv
    <3>2. CASE ~(isEnforced /\ bestIdx # None)
      <4>1. SchedGoto(AfterEnforce) /\ AfterEnforce \in {"tip", "end"}
        BY <1>7, <3>2 DEF EnforceRead, AfterEnforce
      <4>2. QED
        BY <1>1, <4>1, SchedGotoEffect
    <3>3. QED
      BY <3>1, <3>2
  <2>2. QED
    BY <1>7, <2>1 DEF EnforceRead, locks
<1>8. CASE EnforceMark
  <2>1. sched'.pc = "activate"
    BY <1>1, <1>8, SchedGotoEffect DEF EnforceMark
  <2>2. QED
    BY <1>8, <2>1 DEF EnforceMark, locks
<1>9. CASE EnforceActivate
  <2>1. CASE sched.blk \in Chain[tip] /\ SchedGoto("notify")
    <3>1. sched'.blk = sched.blk
      BY <1>1, <2>1, SchedGotoEffect, SMTT(30)
    <3>2. QED
      BY <1>9, <2>1, <3>1 DEF EnforceActivate, locks
  <2>2. CASE SchedGoto(AfterEnforce)
    <3>1. sched'.pc # "notify"
      BY <1>1, <2>2, SchedGotoEffect, SMTT(30) DEF AfterEnforce
    <3>2. QED
      BY <1>9, <3>1 DEF EnforceActivate, locks
  <2>3. QED
    BY <1>9, <2>1, <2>2 DEF EnforceActivate
<1>10. CASE EnforceNotify
  <2>1. sched'.pc # "notify"
    BY <1>1, <1>10, SchedGotoEffect, SMTT(30) DEF EnforceNotify, AfterEnforce
  <2>2. QED
    BY <1>10, <2>1 DEF EnforceNotify
<1>11. CASE ReadTip
  BY <1>1, <1>11 DEF ReadTip, SchedInv
<1>12. CASE CheckTip \/ SignTip
  <2>1. PICK pc \in {"sign", "end"} : SchedGoto(pc)
    BY <1>12 DEF CheckTip, SignTip
  <2>2. sched'.pc # "notify"
    BY <1>1, <2>1, SchedGotoEffect
  <2>3. QED
    BY <1>12, <2>2 DEF CheckTip, SignTip, locks
<1>13. CASE EndJob \/ SporkChange \/ Restart \/ UNCHANGED vars
  <2>1. CASE EndJob
    BY <2>1 DEF EndJob, IdleSched, locks
  <2>2. CASE SporkChange \/ UNCHANGED vars
    BY <2>2 DEF SporkChange, vars, locks
  <2>3. CASE Restart
    BY <2>3 DEF Restart, IdleSched
  <2>4. QED
    BY <1>13, <2>1, <2>2, <2>3
<1>14. QED
  BY <1>2, <1>3, <1>4, <1>5, <1>6, <1>7, <1>8, <1>9, <1>10, <1>11, <1>12, <1>13, NextCases

\* Every step preserves the invariant behind NotifiedLockIsActive.
LEMMA NotifyStep ==
  ASSUME ConsistentLocks, ~ExpireSeen, IInv, NotifyInv, [Next]_vars
  PROVE  NotifyInv'
<1>1. SeenInv /\ SeenInv' /\ index \subseteq index'
  BY SeenStep, IndexGrows DEF NotifyInv
<1>2. ASSUME NEW L \in Used, L \in index, Held(L) PROVE Held(L)'
  <2>1. L \in ClSigs
    BY DEF Used, IInv, ValuesInv, SchedInv
  <2>2. \A t \in Handlers : Pending(t) => th[t].cl # L
    BY <1>1 DEF SeenInv
  <2>3. QED
    BY <1>2, <2>1, <2>2, HeldStep
<1>3. sched.pc = "notify" => sched.blk \in index /\ sched.blk \in Used /\ sched.blk # None
  BY ClSigsAssumption, TreeAssumption DEF IInv, SchedInv, Enforcing, Used
<1>4. lastNotify # None => lastNotify \in Used
  BY DEF Used
<1>5. ASSUME NEW L, lastNotify' = L, L # None PROVE L \in index' /\ Held(L)'
  <2>1. L \in Used /\ L \in index /\ Held(L)
    BY <1>3, <1>4, <1>5, NotifyChanges DEF NotifyInv
  <2>2. QED
    BY <1>1, <1>2, <2>1
<1>6. ASSUME NEW L, sched'.blk = L, sched'.pc = "notify" PROVE Held(L)'
  <2>1. CASE sched' = sched
    BY <1>2, <1>3, <1>6, <2>1 DEF NotifyInv
  <2>2. CASE EnforceActivate /\ L = sched.blk /\ L \in Chain[tip]
    <3>1. from' = None /\ tip' = tip
      BY <2>2 DEF EnforceActivate, MainFree, chain, step
    <3>2. QED
      BY <2>2, <3>1 DEF Held, Active, ActiveTip
  <2>3. QED
    BY <1>6, <2>1, <2>2, NotifyChanges
<1>7. QED
  BY <1>1, <1>5, <1>6 DEF NotifyInv

\* If the quorums signed blocks of one chain only and no CLSIG is delivered
\* again after seenChainLocks forgot it, a lock that listeners were told of
\* is active for as long as it is the one being enforced.
THEOREM NotifiedStaysActive ==
  ASSUME ConsistentLocks, ~ExpireSeen
  PROVE  Spec => []NotifiedLockIsActive
<1>1. Init => NotifyInv
  <2>1. SUFFICES ASSUME Init PROVE NotifyInv
    OBVIOUS
  <2>2. /\ th = [t \in Handlers |-> IdleHandler] /\ sched = IdleSched
        /\ best = None /\ bestIdx = None /\ lastNotify = None
    BY <2>1 DEF Init
  <2>3. SeenInv
    BY <2>2 DEF SeenInv, Used, Pending, Enforcing, IdleHandler, IdleSched
  <2>4. QED
    BY <2>2, <2>3 DEF NotifyInv, IdleSched
<1>2. IInv /\ NotifyInv /\ [Next]_vars => NotifyInv'
  BY NotifyStep
<1>3. NotifyInv => NotifiedLockIsActive
  BY DEF NotifyInv, Held, InForce, Active, NotifiedLockIsActive
<1>4. QED
  BY <1>1, <1>2, <1>3, Invariance, PTL DEF Spec
-----------------------------------------------------------------------------
(* The block of the best CLSIG is recognised *)

\* What the scheduler signs, and has signed, are blocks that were active.
SignedInv ==
  /\ lastSigned # None => lastSigned \in index
  /\ sched.pc \in {"safe", "sign"} => sched.blk \in index

\* Blocks do not come in while the net thread handles a CLSIG, and the sig
\* thread handles only CLSIGs of known blocks; so the outcome of a lookup is
\* still right when the CLSIG is stored.
LookupInv ==
  \A t \in Handlers :
    /\ th[t].pc # "idle" => header = None \/ t # "net"
    /\ th[t].pc # "idle" => th[t].cl \in index \/ t = "net"
    /\ th[t].pc = "store" /\ th[t].cl \in index => th[t].found

\* If the block of the best CLSIG is known, it is the one being enforced.
BestInv == best \in index => bestIdx = best

\* Every step keeps what was signed among the known blocks.
LEMMA SignedStep ==
  ASSUME IInv, SignedInv, [Next]_vars
  PROVE  SignedInv'
<1>1. SchedInv /\ tip \in index /\ index \subseteq index'
  BY IndexGrows DEF IInv, ChainInv, ChainType
<1>2. ASSUME UNCHANGED <<lastSigned, sched>> PROVE SignedInv'
  BY <1>1, <1>2 DEF SignedInv
<1>3. ASSUME UNCHANGED lastSigned, NEW pc \in {"enforce", "reset", "activate", "notify", "tip", "end"},
             SchedGoto(pc)
      PROVE  SignedInv'
  <2>1. sched'.pc = pc
    BY <1>1, <1>3, SchedGotoEffect
  <2>2. QED
    BY <1>1, <1>3, <2>1 DEF SignedInv
<1>4. CASE \E cl \in ClSigs : ProcessMessage(cl) \/ HandleNewRecoveredSig(cl)
  BY <1>2, <1>4 DEF ProcessMessage, HandleNewRecoveredSig
<1>5. CASE \E t \in Handlers : HandlerCheckActive(t) \/ HandlerReset(t) \/ CheckSeen(t)
  BY <1>2, <1>5 DEF HandlerCheckActive, HandlerReset, CheckSeen
<1>6. CASE \E t \in Handlers : LookupBlock(t) \/ StoreChainLock(t)
  BY <1>2, <1>6 DEF LookupBlock, StoreChainLock
<1>7. CASE \E b \in Blocks \ {Genesis} : AcceptBlockHeader(b) \/ AcceptBlock(b)
  BY <1>2, <1>7 DEF AcceptBlockHeader, AcceptBlock
<1>8. CASE AcceptedBlockHeader \/ FindMostWorkChain \/ ConnectTip \/ EndActivation \/ UpdatedBlockTip
  <2>1. CASE AcceptedBlockHeader \/ UpdatedBlockTip
    BY <1>2, <2>1 DEF AcceptedBlockHeader, UpdatedBlockTip
  <2>2. CASE FindMostWorkChain
    BY <1>2, <2>2 DEF FindMostWorkChain
  <2>3. CASE ConnectTip \/ EndActivation
    BY <1>2, <2>3 DEF ConnectTip, EndActivation
  <2>4. QED
    BY <1>8, <2>1, <2>2, <2>3
<1>9. CASE \E job \in {"enforce", "tip", "periodic"} : StartJob(job)
  BY <1>1, <1>9, SMTT(30) DEF StartJob, SignedInv
<1>10. CASE SchedCheckActive \/ SchedReset
  BY <1>3, <1>10 DEF SchedCheckActive, SchedReset
<1>11. CASE EnforceRead
  <2>1. CASE isEnforced /\ bestIdx # None
    <3>1. sched'.pc = "mark" /\ UNCHANGED <<index, lastSigned>>
      BY <1>1, <1>11, <2>1 DEF EnforceRead, SchedInv, chain
    <3>2. QED
      BY <3>1 DEF SignedInv
  <2>2. CASE ~(isEnforced /\ bestIdx # None)
    BY <1>3, <1>11, <2>2 DEF EnforceRead, AfterEnforce
  <2>3. QED
    BY <2>1, <2>2
<1>12. CASE EnforceMark \/ EnforceActivate \/ EnforceNotify
  BY <1>3, <1>12 DEF EnforceMark, EnforceActivate, EnforceNotify, AfterEnforce
<1>13. CASE ReadTip
  BY <1>1, <1>13 DEF ReadTip, SchedInv, SignedInv
<1>14. CASE CheckTip
  <2>1. PICK pc \in {"sign", "end"} : SchedGoto(pc)
    BY <1>14 DEF CheckTip
  <2>2. sched'.pc = pc /\ (pc = "sign" => sched'.blk = sched.blk)
    BY <1>1, <2>1, SchedGotoEffect
  <2>3. sched.pc = "safe" /\ lastSigned' = lastSigned
    BY <1>14 DEF CheckTip
  <2>4. QED
    BY <1>1, <2>1, <2>2, <2>3 DEF SignedInv
<1>15. CASE SignTip
  <2>1. sched.pc = "sign" /\ SchedGoto("end") /\ lastSigned' \in {lastSigned, sched.blk}
    BY <1>15 DEF SignTip
  <2>2. sched'.pc = "end"
    BY <1>1, <2>1, SchedGotoEffect
  <2>3. QED
    BY <1>1, <2>1, <2>2 DEF SignedInv
<1>16. CASE EndJob \/ Restart
  <2>1. CASE EndJob
    <3>1. sched'.pc = "idle" /\ lastSigned' = lastSigned /\ index' = index
      BY <2>1 DEF EndJob, IdleSched, chain
    <3>2. QED
      BY <1>1, <3>1 DEF SignedInv
  <2>2. CASE Restart
    <3>1. sched'.pc = "idle" /\ lastSigned' = None
      BY <2>2 DEF Restart, IdleSched
    <3>2. QED
      BY <3>1 DEF SignedInv
  <2>3. QED
    BY <1>16, <2>1, <2>2
<1>17. CASE SporkChange \/ UNCHANGED vars
  BY <1>2, <1>17 DEF SporkChange, vars
<1>18. QED
  BY <1>4, <1>5, <1>6, <1>7, <1>8, <1>9, <1>10, <1>11, <1>12, <1>13, <1>14, <1>15, <1>16, <1>17,
     NextCases

\* Every step keeps the outcome of each thread's lookup right.
LEMMA LookupStep ==
  ASSUME ~RpcBlocks, IInv, SignedInv, LookupInv, [Next]_vars
  PROVE  LookupInv'
<1>1. ThreadsInv /\ index \subseteq index'
  BY IndexGrows DEF IInv
<1>2. ASSUME UNCHANGED <<index, header, th>> PROVE LookupInv'
  BY <1>2 DEF LookupInv
<1>3. ASSUME NEW t \in Handlers, th[t].pc # "idle", NEW pc \in {"reset", "seen", "lookup"},
             th' = [th EXCEPT ![t].pc = pc], UNCHANGED <<index, header>>
      PROVE  LookupInv'
  <2>1. \A u \in Handlers : /\ u # t => th'[u] = th[u]
                            /\ th'[t].pc = pc /\ th'[t].cl = th[t].cl
    BY <1>1, <1>3 DEF ThreadsInv
  <2>2. QED
    BY <1>3, <2>1, SMTT(30) DEF LookupInv
<1>4. ASSUME NEW t \in Handlers, th' = [th EXCEPT ![t] = IdleHandler], UNCHANGED <<index, header>>
      PROVE  LookupInv'
  <2>1. \A u \in Handlers : (u # t => th'[u] = th[u]) /\ th'[t].pc = "idle"
    BY <1>1, <1>4 DEF ThreadsInv, IdleHandler
  <2>2. QED
    BY <1>4, <2>1, SMTT(30) DEF LookupInv
<1>5. CASE \E cl \in ClSigs : ProcessMessage(cl) \/ HandleNewRecoveredSig(cl)
  <2>1. PICK cl \in ClSigs : ProcessMessage(cl) \/ HandleNewRecoveredSig(cl)
    BY <1>5
  <2>2. UNCHANGED <<index, header>>
    BY <2>1 DEF ProcessMessage, HandleNewRecoveredSig, chain, step
  <2>3. PICK t \in Handlers :
               /\ th' = [th EXCEPT ![t] = [pc |-> "check", cl |-> cl, found |-> FALSE]]
               /\ t = "net" => header = None
               /\ t # "net" => cl = lastSigned
    BY <2>1 DEF ProcessMessage, HandleNewRecoveredSig
  <2>4. \A u \in Handlers : /\ u # t => th'[u] = th[u]
                            /\ th'[t].pc = "check" /\ th'[t].cl = cl
    BY <1>1, <2>3 DEF ThreadsInv
  <2>5. t # "net" => cl \in index
    BY <2>3, ClSigsAssumption, TreeAssumption DEF SignedInv
  <2>6. QED
    BY <2>2, <2>3, <2>4, <2>5, SMTT(30) DEF LookupInv
<1>6. CASE \E t \in Handlers : HandlerCheckActive(t) \/ HandlerReset(t)
  <2>1. PICK t \in Handlers : HandlerCheckActive(t) \/ HandlerReset(t)
    BY <1>6
  <2>2. th[t].pc # "idle" /\ UNCHANGED <<index, header>>
    BY <2>1 DEF HandlerCheckActive, HandlerReset, chain, step
  <2>3. \E pc \in {"reset", "seen"} : th' = [th EXCEPT ![t].pc = pc]
    BY <2>1 DEF HandlerCheckActive, HandlerReset, Goto
  <2>4. QED
    BY <1>3, <2>2, <2>3
<1>7. CASE \E t \in Handlers : CheckSeen(t)
  <2>1. PICK t \in Handlers : CheckSeen(t)
    BY <1>7
  <2>2. th[t].pc # "idle" /\ UNCHANGED <<index, header>>
    BY <2>1 DEF CheckSeen, chain, step
  <2>3. Return(t) \/ Goto(t, "lookup")
    BY <2>1 DEF CheckSeen
  <2>4. QED
    BY <1>3, <1>4, <2>2, <2>3 DEF Return, Goto
<1>8. CASE \E t \in Handlers : LookupBlock(t)
  <2>1. PICK t \in Handlers : LookupBlock(t)
    BY <1>8
  <2>2. th[t].pc # "idle" /\ UNCHANGED <<index, header>>
    BY <2>1 DEF LookupBlock, chain, step
  <2>3. \A u \in Handlers : /\ u # t => th'[u] = th[u]
                            /\ th'[t].cl = th[t].cl /\ (th[t].cl \in index => th'[t].found)
    BY <1>1, <2>1 DEF LookupBlock, ThreadsInv
  <2>4. QED
    BY <2>2, <2>3 DEF LookupInv
<1>9. CASE \E t \in Handlers : StoreChainLock(t)
  BY <1>4, <1>9 DEF StoreChainLock, Return, chain, step
<1>10. ASSUME "net" \in Handlers => th["net"].pc = "idle", UNCHANGED th PROVE LookupInv'
  BY <1>1, <1>10 DEF LookupInv
<1>11. CASE \E b \in Blocks \ {Genesis} : AcceptBlockHeader(b)
  BY <1>10, <1>11 DEF AcceptBlockHeader, BlocksMayCome
<1>12. CASE AcceptedBlockHeader
  <2>1. header # None /\ UNCHANGED th
    BY <1>12 DEF AcceptedBlockHeader
  <2>2. "net" \in Handlers => th["net"].pc = "idle"
    BY <2>1 DEF LookupInv
  <2>3. QED
    BY <1>10, <2>1, <2>2
<1>13. CASE \/ \E b \in Blocks \ {Genesis} : AcceptBlock(b)
            \/ FindMostWorkChain \/ ConnectTip \/ EndActivation \/ UpdatedBlockTip
  <2>1. CASE UpdatedBlockTip \/ \E b \in Blocks \ {Genesis} : AcceptBlock(b)
    BY <1>2, <2>1 DEF UpdatedBlockTip, AcceptBlock, step
  <2>2. CASE FindMostWorkChain
    BY <1>2, <2>2 DEF FindMostWorkChain
  <2>3. CASE ConnectTip \/ EndActivation
    BY <1>2, <2>3 DEF ConnectTip, EndActivation
  <2>4. QED
    BY <1>13, <2>1, <2>2, <2>3
<1>14. CASE \/ \E job \in {"enforce", "tip", "periodic"} : StartJob(job)
            \/ SchedCheckActive \/ SchedReset \/ EnforceRead
            \/ EnforceMark \/ EnforceActivate \/ EnforceNotify
            \/ ReadTip \/ CheckTip \/ SignTip \/ EndJob \/ SporkChange \/ UNCHANGED vars
  <2>1. CASE \/ \E job \in {"enforce", "tip", "periodic"} : StartJob(job)
             \/ SchedCheckActive \/ SchedReset \/ EnforceRead
    BY <1>2, <2>1 DEF StartJob, SchedCheckActive, SchedReset, EnforceRead, chain, step
  <2>2. CASE EnforceMark \/ EnforceActivate \/ EnforceNotify
    BY <1>2, <2>2 DEF EnforceMark, EnforceActivate, EnforceNotify, chain, step
  <2>3. CASE ReadTip \/ CheckTip \/ SignTip \/ EndJob \/ SporkChange \/ UNCHANGED vars
    BY <1>2, <2>3 DEF ReadTip, CheckTip, SignTip, EndJob, SporkChange, vars, chain, step
  <2>4. QED
    BY <1>14, <2>1, <2>2, <2>3
<1>15. CASE Restart
  BY <1>15 DEF Restart, LookupInv, IdleHandler
<1>16. QED
  BY <1>5, <1>6, <1>7, <1>8, <1>9, <1>11, <1>12, <1>13, <1>14, <1>15, NextCases

\* Every step keeps the known block of the best CLSIG recognised.
LEMMA BestStep ==
  ASSUME ConsistentLocks, IInv, LookupInv, BestInv, [Next]_vars
  PROVE  BestInv'
<1>1. best \in ClSigs \cup {None} /\ None \notin index /\ index \subseteq Blocks
  BY TreeAssumption DEF IInv, ChainInv, ChainType, ValuesInv
<1>2. ASSUME UNCHANGED <<index, best, bestIdx>> PROVE BestInv'
  BY <1>2 DEF BestInv
<1>3. ASSUME best' = None, UNCHANGED index PROVE BestInv'
  BY <1>1, <1>3 DEF BestInv
<1>4. CASE \/ \E cl \in ClSigs : ProcessMessage(cl) \/ HandleNewRecoveredSig(cl)
           \/ \E t \in Handlers : HandlerCheckActive(t) \/ CheckSeen(t) \/ LookupBlock(t)
  <2>1. CASE \E cl \in ClSigs : ProcessMessage(cl) \/ HandleNewRecoveredSig(cl)
    BY <1>2, <2>1 DEF ProcessMessage, HandleNewRecoveredSig, chain, locks
  <2>2. CASE \E t \in Handlers : HandlerCheckActive(t) \/ CheckSeen(t) \/ LookupBlock(t)
    BY <1>2, <2>2 DEF HandlerCheckActive, CheckSeen, LookupBlock, chain, locks
  <2>3. QED
    BY <1>4, <2>1, <2>2
<1>5. CASE SchedReset \/ Restart \/ \E t \in Handlers : HandlerReset(t)
  BY <1>3, <1>5 DEF SchedReset, Restart, HandlerReset, ResetChainLocks, chain
<1>6. CASE \E t \in Handlers : StoreChainLock(t)
  <2>1. PICK t \in Handlers : StoreChainLock(t)
    BY <1>6
  <2>2. /\ th[t].pc = "store" /\ best' = th[t].cl /\ index' = index
        /\ th[t].found => bestIdx' = th[t].cl
    BY <2>1 DEF StoreChainLock, chain
  <2>3. th[t].cl \in index => th[t].found
    BY <2>2 DEF LookupInv
  <2>4. QED
    BY <2>2, <2>3 DEF BestInv
<1>7. CASE \E b \in Blocks \ {Genesis} : AcceptBlockHeader(b)
  <2>1. PICK b \in Blocks \ {Genesis} : AcceptBlockHeader(b)
    BY <1>7
  <2>2. UNCHANGED <<best, bestIdx>>
    BY <2>1 DEF AcceptBlockHeader, locks
  <2>3. CASE UNCHANGED index
    BY <1>2, <2>2, <2>3
  <2>4. CASE HasConflictingChainLock(b) /\ index' = index \cup {b}
    <3>1. b \notin LockedChain
      BY <2>4, ConflictingNotLocked
    <3>2. best # b
      BY <1>1, <3>1, OwnChain, TreeAssumption, SMTT(30) DEF LockedChain
    <3>3. QED
      BY <2>2, <2>4, <3>2 DEF BestInv
  <2>5. QED
    BY <2>1, <2>3, <2>4 DEF AcceptBlockHeader
<1>8. CASE AcceptedBlockHeader
  <2>1. /\ index' = index \cup {header} /\ best' = best
        /\ bestIdx' = IF header = best THEN header ELSE bestIdx
    BY <1>8 DEF AcceptedBlockHeader
  <2>2. QED
    BY <2>1 DEF BestInv
<1>9. CASE \/ \E b \in Blocks \ {Genesis} : AcceptBlock(b)
           \/ FindMostWorkChain \/ ConnectTip \/ EndActivation \/ UpdatedBlockTip
  <2>1. CASE UpdatedBlockTip \/ \E b \in Blocks \ {Genesis} : AcceptBlock(b)
    BY <1>2, <2>1 DEF UpdatedBlockTip, AcceptBlock, locks
  <2>2. CASE FindMostWorkChain
    BY <1>2, <2>2 DEF FindMostWorkChain, locks
  <2>3. CASE ConnectTip \/ EndActivation
    BY <1>2, <2>3 DEF ConnectTip, EndActivation, locks
  <2>4. QED
    BY <1>9, <2>1, <2>2, <2>3
<1>10. CASE \/ \E job \in {"enforce", "tip", "periodic"} : StartJob(job)
            \/ SchedCheckActive \/ EnforceRead \/ EnforceMark \/ EnforceActivate \/ EnforceNotify
            \/ ReadTip \/ CheckTip \/ SignTip \/ EndJob \/ SporkChange \/ UNCHANGED vars
  <2>1. CASE \/ \E job \in {"enforce", "tip", "periodic"} : StartJob(job)
             \/ SchedCheckActive \/ EnforceRead
    BY <1>2, <2>1 DEF StartJob, SchedCheckActive, EnforceRead, chain, locks
  <2>2. CASE EnforceMark \/ EnforceActivate \/ EnforceNotify
    BY <1>2, <2>2 DEF EnforceMark, EnforceActivate, EnforceNotify, chain, locks
  <2>3. CASE ReadTip \/ CheckTip \/ SignTip \/ EndJob \/ SporkChange \/ UNCHANGED vars
    BY <1>2, <2>3 DEF ReadTip, CheckTip, SignTip, EndJob, SporkChange, vars, chain, locks
  <2>4. QED
    BY <1>10, <2>1, <2>2, <2>3
<1>11. QED
  BY <1>4, <1>5, <1>6, <1>7, <1>8, <1>9, <1>10, NextCases

\* If headers come in on the net thread only and the quorums signed blocks of
\* one chain, the block of the best CLSIG is the one enforced as soon as it is
\* known, whichever of the two came first.
THEOREM KnownBestTracked ==
  ASSUME ~RpcBlocks, ConsistentLocks
  PROVE  Spec => []KnownBestIsTracked
<1> DEFINE Inv == SignedInv /\ LookupInv /\ BestInv
<1>1. Init => Inv
  <2>1. SUFFICES ASSUME Init PROVE Inv
    OBVIOUS
  <2>2. SignedInv /\ LookupInv
    BY <2>1 DEF Init, SignedInv, LookupInv, IdleHandler, IdleSched
  <2>3. BestInv
    BY <2>1, StartAssumption, TreeAssumption DEF Init, BestInv
  <2>4. QED
    BY <2>2, <2>3
<1>2. IInv /\ Inv /\ [Next]_vars => Inv'
  BY SignedStep, LookupStep, BestStep
<1>3. Inv => KnownBestIsTracked
  BY DEF BestInv, KnownBestIsTracked
<1> HIDE DEF Inv
<1>4. QED
  BY <1>1, <1>2, <1>3, Invariance, PTL DEF Spec
=============================================================================
