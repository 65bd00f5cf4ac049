--------------------------- MODULE MCInstantSend ---------------------------
(***************************************************************************)
(* Instance of InstantSend for TLC: transactions T and D spend the same    *)
(* confirmed output and C spends an output of T.  T is mined in block a1,  *)
(* D in its competitor b1, which has more work.                            *)
(***************************************************************************)
EXTENDS InstantSend

MCTxOrder == <<"T", "D", "C">>
MCTxOrderPair == <<"T", "D">>
MCOutpoints == {"o", "c"}
MCVin == [T |-> <<"o">>, D |-> <<"o">>, C |-> <<"c">>]
MCVinPair == [T |-> <<"o">>, D |-> <<"o">>]
MCCreator == [o |-> None, c |-> "T"]

MCBlocks == {"g", "a1", "b1"}
MCParent == [a1 |-> "g", b1 |-> "g"]
MCHeight == [g |-> 0, a1 |-> 1, b1 |-> 1]
MCChain == [g |-> {"g"}, a1 |-> {"g", "a1"}, b1 |-> {"g", "b1"}]
MCWork == [g |-> 0, a1 |-> 1, b1 |-> 2]
MCBlockTxs == [g |-> <<>>, a1 |-> <<"T">>, b1 |-> <<"D">>]

Lock(t) == [txid |-> t, det |-> FALSE]
MCLocks == {Lock("T"), Lock("C"), Lock("D")}
MCLocksPair == {Lock("T")}
=============================================================================
