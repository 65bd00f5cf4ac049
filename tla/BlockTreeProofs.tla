-------------------------- MODULE BlockTreeProofs --------------------------
(***************************************************************************)
(* Facts about the block tree, for every tree that BlockTree assumes: what *)
(* the proofs about ChainLocks and InstantSend use of it.  They are proved *)
(* by induction on the height of a block.                                  *)
(***************************************************************************)
EXTENDS BlockTree, WellFoundedInduction, TLAPS

\* A set that contains 0 and with every number its successor contains them all.
LEMMA NatSetInduction ==
  ASSUME NEW S, 0 \in S, \A n \in Nat : n \in S => n + 1 \in S
  PROVE  Nat \subseteq S
<1> DEFINE T == Nat \ S
<1>1. SUFFICES ASSUME T # {} PROVE FALSE
  OBVIOUS
<1>2. PICK x \in T : \A y \in T : ~(<<y, x>> \in OpToRel(<, Nat))
  <2> HIDE DEF T
  <2>1. T \subseteq Nat
    BY DEF T
  <2>2. QED
    BY <1>1, <2>1, WFMin, NatLessThanWellFounded
<1>3. x # 0 /\ x \in Nat
  OBVIOUS
<1>4. x - 1 \in Nat /\ x - 1 \notin S
  BY <1>3
<1>5. <<x - 1, x>> \in OpToRel(<, Nat)
  BY <1>3, <1>4 DEF OpToRel
<1>6. QED
  BY <1>2, <1>4, <1>5
-----------------------------------------------------------------------------
\* The chain of b contains b, the genesis block, with every block that one's chain,
\* and one block of every height up to its own.
WellFormed(b) ==
  /\ b \in Chain[b] /\ Genesis \in Chain[b]
  /\ \A a \in Chain[b] : Chain[a] \subseteq Chain[b] /\ Height[a] <= Height[b]
  /\ \A h \in 0..Height[b] : \E a \in Chain[b] : Height[a] = h
  /\ \A a1, a2 \in Chain[b] : Height[a1] = Height[a2] => a1 = a2

\* One more block on a well formed chain.
LEMMA ChildWellFormed ==
  ASSUME NEW b \in Blocks \ {Genesis}, WellFormed(Parent[b])
  PROVE  WellFormed(b)
<1> DEFINE p == Parent[b]
<1>1. /\ p \in Blocks /\ Chain[b] = Chain[p] \cup {b} /\ Height[b] = Height[p] + 1
      /\ Height[p] \in Nat /\ Chain[p] \subseteq Blocks
  BY TreeAssumption
<1> HIDE DEF p
<1>2. WellFormed(p)
  BY DEF p
<1>3. \A a \in Chain[p] : Height[a] \in Nat /\ Height[a] <= Height[p]
  BY <1>1, <1>2, TreeAssumption DEF WellFormed
<1>4. \A a \in Chain[b] : Chain[a] \subseteq Chain[b] /\ Height[a] <= Height[b]
  <2>1. Height[p] <= Height[b] /\ Height[b] \in Nat
    BY <1>1
  <2>2. QED
    BY <1>1, <1>2, <1>3, <2>1 DEF WellFormed
<1>5. ASSUME NEW h \in 0..Height[b] PROVE \E a \in Chain[b] : Height[a] = h
  <2>1. CASE h = Height[b]
    BY <1>1, <2>1
  <2>2. CASE h # Height[b]
    <3>1. h \in 0..Height[p]
      BY <1>1, <2>2
    <3>2. QED
      BY <1>1, <1>2, <3>1 DEF WellFormed
  <2>3. QED
    BY <2>1, <2>2
<1>6. ASSUME NEW a1 \in Chain[b], NEW a2 \in Chain[b], Height[a1] = Height[a2] PROVE a1 = a2
  <2>1. \A a \in Chain[p] : Height[a] # Height[b]
    BY <1>1, <1>3
  <2>2. QED
    BY <1>1, <1>2, <1>6, <2>1 DEF WellFormed
<1>7. QED
  BY <1>1, <1>2, <1>4, <1>5, <1>6 DEF WellFormed

\* Every chain is well formed.
LEMMA EveryChainWellFormed == \A b \in Blocks : WellFormed(b)
<1> DEFINE S == {n \in Nat : \A b \in Blocks : Height[b] = n => WellFormed(b)}
<1>1. ASSUME NEW b \in Blocks, Height[b] = 0 PROVE WellFormed(b)
  <2>1. b = Genesis
    BY <1>1, TreeAssumption
  <2>2. QED
    BY <2>1, TreeAssumption DEF WellFormed
<1>2. ASSUME NEW n \in Nat, n \in S PROVE n + 1 \in S
  <2>1. SUFFICES ASSUME NEW b \in Blocks, Height[b] = n + 1 PROVE WellFormed(b)
    OBVIOUS
  <2>2. b # Genesis /\ Parent[b] \in Blocks /\ Height[Parent[b]] = n
    BY <2>1, TreeAssumption
  <2>3. QED
    BY <1>2, <2>2, ChildWellFormed
<1>3. 0 \in S
  BY <1>1
<1>4. Nat \subseteq S
  <2> HIDE DEF S
  <2>1. QED
    BY <1>2, <1>3, NatSetInduction
<1>5. QED
  BY <1>4, TreeAssumption

\* A block belongs to its own chain, and so does the genesis block.
LEMMA OwnChain ==
  ASSUME NEW b \in Blocks
  PROVE  b \in Chain[b] /\ Genesis \in Chain[b] /\ Chain[b] \subseteq Blocks
BY EveryChainWellFormed, TreeAssumption DEF WellFormed

\* Ancestry is transitive.
LEMMA ChainTransitive ==
  ASSUME NEW b \in Blocks, NEW a \in Chain[b]
  PROVE  a \in Blocks /\ Chain[a] \subseteq Chain[b] /\ Height[a] <= Height[b]
BY EveryChainWellFormed, TreeAssumption DEF WellFormed

\* A chain has one block at each height.
LEMMA OneAtHeight ==
  ASSUME NEW b \in Blocks, NEW x \in Chain[b], NEW y \in Chain[b], Height[x] = Height[y]
  PROVE  x = y
BY EveryChainWellFormed DEF WellFormed

\* GetAncestor finds the block at a height up to the block's own.
LEMMA AncestorExists ==
  ASSUME NEW b \in Blocks, NEW h \in 0..Height[b]
  PROVE  GetAncestor(b, h) \in Chain[b] /\ Height[GetAncestor(b, h)] = h
BY EveryChainWellFormed DEF WellFormed, GetAncestor

\* Two blocks of one chain: the lower one is an ancestor of the other.
LEMMA LowerIsAncestor ==
  ASSUME NEW b \in Blocks, NEW x \in Chain[b], NEW y \in Chain[b], Height[x] <= Height[y]
  PROVE  x \in Chain[y]
<1>1. x \in Blocks /\ y \in Blocks /\ Height[x] \in Nat /\ Height[y] \in Nat
  BY TreeAssumption
<1>2. PICK a \in Chain[y] : Height[a] = Height[x]
  BY <1>1, EveryChainWellFormed DEF WellFormed
<1>3. a \in Chain[b]
  BY ChainTransitive
<1>4. QED
  BY <1>2, <1>3, OneAtHeight

\* Two chains part once: above the fork they have nothing in common.
LEMMA ForkExists ==
  \A b, c \in Blocks : \E f \in Chain[b] \cap Chain[c] : Chain[b] \cap Chain[c] \subseteq Chain[f]
<1> DEFINE P(b, c) == \E f \in Chain[b] \cap Chain[c] : Chain[b] \cap Chain[c] \subseteq Chain[f]
           S == {n \in Nat : \A b, c \in Blocks : Height[b] = n => P(b, c)}
<1>1. ASSUME NEW b \in Blocks, NEW c \in Blocks, b \in Chain[c] PROVE P(b, c)
  BY <1>1, OwnChain
<1>2. 0 \in S
  <2>1. \A b \in Blocks : Height[b] = 0 => b = Genesis
    BY TreeAssumption
  <2>2. QED
    BY <1>1, <2>1, OwnChain
<1>3. ASSUME NEW n \in Nat, n \in S PROVE n + 1 \in S
  <2>1. SUFFICES ASSUME NEW b \in Blocks, NEW c \in Blocks, Height[b] = n + 1, b \notin Chain[c]
                 PROVE  P(b, c)
    BY <1>1
  <2>2. b # Genesis /\ Parent[b] \in Blocks /\ Height[Parent[b]] = n
    BY <2>1, TreeAssumption
  <2>3. P(Parent[b], c)
    BY <1>3, <2>2
  <2>4. Chain[b] \cap Chain[c] = Chain[Parent[b]] \cap Chain[c]
    BY <2>1, <2>2, TreeAssumption
  <2>5. QED
    BY <2>3, <2>4
<1>4. Nat \subseteq S
  <2> HIDE DEF S
  <2>1. QED
    BY <1>2, <1>3, NatSetInduction
<1>5. QED
  BY <1>4, TreeAssumption

\* FindFork returns that block.
LEMMA ForkProperty ==
  ASSUME NEW b \in Blocks, NEW c \in Blocks
  PROVE  /\ FindFork(b, c) \in Chain[b] \cap Chain[c]
         /\ Chain[b] \cap Chain[c] \subseteq Chain[FindFork(b, c)]
<1> DEFINE common == Chain[b] \cap Chain[c]
           IsHighest(f) == \A a \in common : Height[a] <= Height[f]
<1>1. PICK f \in common : common \subseteq Chain[f]
  BY ForkExists
<1>2. IsHighest(f)
  <2>1. f \in Blocks
    BY <1>1, TreeAssumption
  <2>2. QED
    BY <1>1, <2>1, ChainTransitive
<1>3. FindFork(b, c) \in common /\ IsHighest(FindFork(b, c))
  BY <1>1, <1>2 DEF FindFork
<1>4. ASSUME NEW a \in common PROVE a \in Chain[FindFork(b, c)]
  <2>1. a \in Chain[b] /\ FindFork(b, c) \in Chain[b] /\ Height[a] <= Height[FindFork(b, c)]
    BY <1>3
  <2>2. QED
    BY <2>1, LowerIsAncestor
<1>5. QED
  BY <1>3, <1>4
=============================================================================
