------------------------ MODULE MCSigShareExchange ------------------------
(***************************************************************************)
(* The scenarios of SigShareExchange for TLC.  Member 4 is slow.           *)
(***************************************************************************)
EXTENDS SigShareSigning, TLC

\* Two ids, and a second quorum of the same members for the first one.
MCSignHashOf == <<[quorum |-> "q1", id |-> "a", msg |-> "m"],
                  [quorum |-> "q1", id |-> "b", msg |-> "m"],
                  [quorum |-> "q2", id |-> "a", msg |-> "m"]>>

MCRecoveryOrder == <<4, 2, 3, 1>>

Signers(sessions) == [n \in Members |-> IF n \in DOMAIN sessions THEN sessions[n] ELSE {}]

\* 1 and 3 are not neighbours, 2 and 4 relay the share of 1 to 3, which may
\* lose its connection to 4.
Ring == [allConnected |-> FALSE, links |-> {{1, 2}, {2, 3}, {3, 4}, {1, 4}},
         fragile |-> {{3, 4}}, returning |-> {},
         asked |-> Signers(1 :> {1}), retries |-> 0]

\* 2 relays between 1 and 3, which both sign, and recovers the signature.
Line == [Ring EXCEPT !.links = {{1, 2}, {2, 3}}, !.fragile = {},
                     !.asked = Signers(1 :> {1} @@ 3 :> {1})]

\* 3 has two shares to request from 2 and may request one at a time.
Queue == [Line EXCEPT !.asked = Signers(1 :> {1, 2})]

\* Two sessions of 1, of which one times out or is asked for again.
Retry == [Line EXCEPT !.links = {{1, 2}}, !.asked = Signers(1 :> {1, 2}), !.retries = 1]

\* Two sessions of 1, which loses its connection to 2 and gets a new one.
Reconnected == [Retry EXCEPT !.fragile = {{1, 2}}, !.returning = {{1, 2}}, !.retries = 0]

\* All members are connected; the first recovery member is slow.
Concentrating == [Line EXCEPT !.allConnected = TRUE, !.retries = 1,
                              !.asked = Signers(1 :> {1} @@ 2 :> {1})]

\* 2, with another tip, is asked to sign for another quorum too.
TwoQuorums == [Line EXCEPT !.links = {{1, 2}},
                           !.asked = Signers(1 :> {1} @@ 2 :> {1, 3})]

MCScenarios == {Ring, Line, Queue, Retry, Reconnected, Concentrating, TwoQuorums}
=============================================================================
