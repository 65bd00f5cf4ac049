-------------------------- MODULE SigningAgreement --------------------------
(***************************************************************************)
(* What the signing subsystem promises its callers: a quorum signs at most *)
(* one message per id, a node holds at most one signature per id, and only *)
(* signatures that were produced.  It says nothing of votes, shares,       *)
(* thresholds or messages; QuorumSigning implements it.                    *)
(***************************************************************************)
CONSTANTS Nodes, Signatures \* Signatures: records with fields quorum, id, msg

VARIABLES
  signed,  \* the recovered signatures that exist
  known    \* known[n]: the ones node n holds

vars == <<signed, known>>

Init == signed = {} /\ known = [n \in Nodes |-> {}]

\* Node n comes to hold rs, which is new or was produced elsewhere.
Learn(n, rs) ==
  /\ \A other \in known[n] : other.id # rs.id
  /\ \A other \in signed : other.quorum = rs.quorum /\ other.id = rs.id => other.msg = rs.msg
  /\ signed' = signed \cup {rs}
  /\ known' = [known EXCEPT ![n] = @ \cup {rs}]

\* Node n drops rs (truncated or too old).
Forget(n, rs) ==
  /\ rs \in known[n]
  /\ known' = [known EXCEPT ![n] = @ \ {rs}]
  /\ UNCHANGED signed

Next == \E n \in Nodes, rs \in Signatures : Learn(n, rs) \/ Forget(n, rs)

Spec == Init /\ [][Next]_vars
=============================================================================
