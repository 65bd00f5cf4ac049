---------------------- MODULE SigShareExchangeProofs ----------------------
(***************************************************************************)
(* Proofs about SigShareExchange, second part: SendMessages, which gives   *)
(* numbers to sessions and requests shares, keeps the invariant; hence     *)
(* numbers resolve, nobody is banned, and a share is requested from one    *)
(* node at a time.                                                         *)
(***************************************************************************)
EXTENDS SigShareManagerProofs, FiniteSetTheorems

\* The prover of all steps that name no other.
USE ZenonT(20)
-----------------------------------------------------------------------------
(* Numbering the sessions and sending *)

LEMMA FiniteSessions ==
  ASSUME NEW S, S \subseteq Sessions
  PROVE  IsFiniteSet(S) /\ Cardinality(S) \in Nat
BY MembersAssumption, FS_Subset, FS_CardinalityType

\* The new sessions get different numbers, from the node's next one on.
LEMMA SendIdProperty ==
  ASSUME NEW st \in NodeState, NEW new, new \subseteq Sessions, NEW s \in new
  PROVE  /\ SendId(st, new, s) \in Nat /\ SendId(st, new, s) >= st.nextId
         /\ SendId(st, new, s) < st.nextId + Cardinality(new)
         /\ \A r \in new : SendId(st, new, r) = SendId(st, new, s) => r = s
<1> DEFINE below(r) == {x \in new : x < r}
           card(r) == Cardinality(below(r))
<1>1. new \subseteq Nat /\ IsFiniteSet(new) /\ Cardinality(new) \in Nat
  BY FiniteSessions, MembersAssumption
<1>2. \A r : IsFiniteSet(below(r)) /\ card(r) \in Nat
  <2> TAKE r
  <2>1. below(r) \subseteq Sessions
    OBVIOUS
  <2> HIDE DEF below
  <2>2. QED
    BY <2>1, FiniteSessions
<1>3. \A q, r \in new : q < r => card(q) < card(r)
  <2> TAKE q, r \in new
  <2> HAVE q < r
  <2>1. q \in Nat /\ r \in Nat
    BY <1>1
  <2>2. \A x \in new : x < q => x < r
    BY <1>1, <2>1, SMTT(30)
  <2>3. below(q) \subseteq below(r) /\ below(q) # below(r)
    <3>1. q \in below(r) /\ q \notin below(q)
      BY <2>1, SMTT(30)
    <3>2. below(q) \subseteq below(r)
      BY <2>2
    <3>3. QED
      BY <3>1, <3>2
  <2>4. IsFiniteSet(below(r)) /\ card(q) \in Nat /\ card(r) \in Nat
    BY <1>2
  <2> DEFINE B == below(q)
             C == below(r)
  <2>5. Cardinality(B) <= Cardinality(C) /\ Cardinality(B) # Cardinality(C)
    <3> HIDE DEF B, C
    <3>1. B \in SUBSET C /\ B # C /\ IsFiniteSet(C)
      BY <2>3, <2>4 DEF B, C
    <3>2. QED
      BY <3>1, FS_Subset
  <2>6. QED
    BY <2>4, <2>5, SMTT(30)
<1>4. card(s) < Cardinality(new)
  <2> DEFINE B == below(s)
  <2>1. B \in SUBSET new /\ B # new
    BY <1>1, SMTT(30)
  <2>2. Cardinality(B) \in Nat
    BY <1>2
  <2> HIDE DEF B
  <2>3. Cardinality(B) <= Cardinality(new) /\ Cardinality(B) # Cardinality(new)
    BY <1>1, <2>1, FS_Subset
  <2>4. Cardinality(B) < Cardinality(new)
    BY <1>1, <2>2, <2>3, SMTT(30)
  <2>5. QED
    BY <2>4 DEF B
<1>5. \A r \in new : SendId(st, new, r) = st.nextId + card(r)
  BY DEF SendId
<1>6. st.nextId \in Nat
  BY DEF NodeState
<1> HIDE DEF card
<1>7. ASSUME NEW r \in new, SendId(st, new, r) = SendId(st, new, s) PROVE r = s
  <2>1. card(r) = card(s)
    <3>1. card(r) \in Nat /\ card(s) \in Nat
      BY <1>2
    <3>2. st.nextId + card(r) = st.nextId + card(s)
      BY <1>5, <1>7
    <3>3. QED
      BY <1>6, <3>1, <3>2, SMTT(30)
  <2>2. r \in Nat /\ s \in Nat /\ card(r) \in Nat
    BY <1>1, <1>2
  <2>3. ~(r < s) /\ ~(s < r)
    BY <1>3, <2>1, <2>2, SMTT(30)
  <2>4. QED
    BY <2>2, <2>3, SMTT(30)
<1>8. card(s) \in Nat
  BY <1>2
<1>9. QED
  BY <1>1, <1>4, <1>5, <1>6, <1>7, <1>8, SMTT(30)

LEMMA OrderProperty ==
  ASSUME NEW S, S \subseteq Sessions
  PROVE  InSomeOrder(S) \in Seq(S)
<1>1. Cardinality(S) \in Nat /\ ExistsBijection(1..Cardinality(S), S)
  BY FiniteSessions, FS_CardinalityType
<1>2. \E order \in [1..Cardinality(S) -> S] : IsInjective(order)
  BY <1>1 DEF ExistsBijection, Bijection, Injection
<1>3. InSomeOrder(S) \in [1..Cardinality(S) -> S]
  BY <1>2 DEF InSomeOrder
<1>4. QED
  BY <1>1, <1>3, SMTT(30)

LEMMA SessionNumbers ==
  ASSUME NEW st \in NodeState, NEW s
  PROVE  s \in DOMAIN st.sessions \/ Session(st, s).sendId = NoId
BY DEF Session, NewSession

\* Number i is given to session s, one of those in new.
Fresh(st, new, i, s) == s \in new /\ i = SendId(st, new, s)

LEMMA CollectedProperty ==
  ASSUME NEW n, NEW st, Sound(st), NEW get, get \subseteq Key, NEW send, send \subseteq Key,
         NEW tell, tell \subseteq Key, NEW after, after = Collected(n, st, get, send, tell),
         NEW fresh, fresh = Unnumbered(st, get \cup send \cup tell)
  PROVE  /\ Sound(after) /\ after.nextId = st.nextId + Cardinality(fresh) /\ after.pending = st.pending
         /\ after.requested = Override(OpenRequests(st), [k \in get |-> FALSE])
         /\ after.byRecvId = st.byRecvId
         /\ \A i, s : SentAs(after, i, s) => SentAs(st, i, s) \/ Fresh(st, fresh, i, s)
<1> DEFINE new == Unnumbered(st, get \cup send \cup tell)
           keys == get \cup mgr[n].sigShares
           one(s) == IF HasRecoveredSigForSession(n, s) THEN Session(st, s) ELSE
                     [Session(st, s) EXCEPT
                        !.announced = @ \ MembersOf(keys, s), !.requested = {},
                        !.knows = @ \cup MembersOf(tell, s), !.sendId = SendId(st, new, s)]
           f == [s \in DOMAIN st.sessions \cup SessionsOf(tell) |-> one(s)]
           asked == Override(OpenRequests(st), [k \in get |-> FALSE])
           next == st.nextId + Cardinality(new)
           c == [st EXCEPT !.nextId = next, !.requested = asked, !.sessions = f]
<1>1. /\ st \in NodeState /\ st.sessions \in Map(Sessions, SessionRec) /\ st.nextId \in Nat \ {0}
      /\ st.requested \in Map(Key, BOOLEAN)
  BY DEF Sound, NodeState
<1>2. Collected(n, st, get, send, tell) = c
  BY DEF Collected, Sound
<1>3. new \subseteq Sessions /\ SessionsOf(tell) \subseteq Sessions
  BY DEF Unnumbered, SessionsOf, Key
<1>4. Cardinality(new) \in Nat
  <2> HIDE DEF new
  <2> QED
    BY <1>3, FiniteSessions
<1>5. next \in Nat \ {0}
  <2> HIDE DEF new
  <2> QED
    BY <1>1, <1>4, SMTT(30)
<1>6. asked \in Map(Key, BOOLEAN)
  <2> DEFINE g == [k \in get |-> FALSE]
             o == OpenRequests(st)
  <2>1. g \in Map(Key, BOOLEAN)
    <3>1. g \in [DOMAIN g -> BOOLEAN] /\ DOMAIN g \subseteq Key
      OBVIOUS
    <3> HIDE DEF g
    <3> QED
      BY <3>1, MapProperty
  <2>2. o \in Map(Key, BOOLEAN)
    <3> DEFINE E == {k \in DOMAIN st.requested : ~st.requested[k]}
    <3>1. E \subseteq DOMAIN st.requested /\ o = Restrict(st.requested, E)
      BY DEF OpenRequests
    <3> HIDE DEF E, o
    <3>2. QED
      BY <1>1, <3>1, RestrictType
  <2>3. asked = Override(o, g)
    OBVIOUS
  <2> HIDE DEF g, o, asked
  <2>4. QED
    BY <2>1, <2>2, <2>3, OverrideType
<1>7. \A s : SendId(st, new, s) \in Nat
  <2> TAKE s
  <2> HIDE DEF new
  <2>1. CASE s \in new
    BY <1>1, <1>3, <2>1, SendIdProperty
  <2>2. CASE s \notin new
    <3>1. Session(st, s) \in SessionRec
      BY <1>1, SessionType
    <3>2. QED
      BY <2>2, <3>1 DEF SendId, SessionRec
  <2>3. QED
    BY <2>1, <2>2
<1>8. \A s : MembersOf(tell, s) \subseteq Members
  BY DEF MembersOf, Key
<1>9. \A s : /\ one(s) \in SessionRec /\ one(s).recvId = Session(st, s).recvId
             /\ one(s).sendId \in {Session(st, s).sendId, SendId(st, new, s)}
  <2> TAKE s
  <2> DEFINE old == Session(st, s)
             known == MembersOf(tell, s)
             had == MembersOf(keys, s)
             number == SendId(st, new, s)
             changed == [old EXCEPT !.announced = @ \ had, !.requested = {},
                                    !.knows = @ \cup known, !.sendId = number]
  <2>1. old \in SessionRec /\ known \subseteq Members /\ number \in Nat
    BY <1>1, <1>7, <1>8, SessionType
  <2>2. one(s) = IF HasRecoveredSigForSession(n, s) THEN old ELSE changed
    OBVIOUS
  <2> HIDE DEF old, known, had, number, one
  <2>3. changed \in SessionRec /\ changed.recvId = old.recvId /\ changed.sendId = number
    BY <2>1 DEF SessionRec
  <2> HIDE DEF changed
  <2>4. one(s) \in SessionRec /\ one(s).recvId = old.recvId /\ one(s).sendId \in {old.sendId, number}
    BY <2>1, <2>2, <2>3
  <2>5. QED
    BY <2>4 DEF old, number
<1> HIDE DEF one
<1>10. DOMAIN f = DOMAIN st.sessions \cup SessionsOf(tell) /\ \A s \in DOMAIN f : f[s] = one(s)
  OBVIOUS
<1>11. f \in Map(Sessions, SessionRec)
  <2>1. f \in [DOMAIN f -> SessionRec]
    BY <1>9
  <2>2. DOMAIN f \subseteq Sessions
    BY <1>1, <1>3, <1>10, MapProperty
  <2> HIDE DEF f
  <2>3. QED
    BY <2>1, <2>2, MapProperty
<1> HIDE DEF f, asked, next
<1>12. /\ c \in NodeState /\ c.sessions = f /\ c.byRecvId = st.byRecvId /\ c.nextId = next
       /\ c.banned = st.banned /\ c.pending = st.pending /\ c.requested = asked
  BY <1>1, <1>5, <1>6, <1>11 DEF NodeState
<1>15. Collected(n, st, get, send, tell) = c
  BY <1>2 DEF f, asked, next, one
<1> HIDE DEF c
<1>13. Sound(c)
  <2>1. \A s \in DOMAIN st.sessions : s \in DOMAIN f /\ f[s].recvId = st.sessions[s].recvId
    BY <1>9, <1>10 DEF Session
  <2>2. QED
    BY <1>12, <2>1, SMTT(30) DEF Sound
<1>14. ASSUME NEW i, NEW s, SentAs(c, i, s) PROVE SentAs(st, i, s) \/ Fresh(st, new, i, s)
  <2>1. s \in DOMAIN f /\ i # NoId /\ i \in {Session(st, s).sendId, SendId(st, new, s)}
    BY <1>9, <1>10, <1>12, <1>14 DEF SentAs
  <2>2. CASE s \in new /\ i = SendId(st, new, s)
    BY <2>2 DEF Fresh
  <2>3. CASE i = Session(st, s).sendId
    BY <1>1, <2>1, <2>3, SessionNumbers DEF SentAs, Session
  <2>4. CASE s \notin new /\ i = SendId(st, new, s)
    <3>1. i = Session(st, s).sendId
      BY <2>4 DEF SendId
    <3>2. QED
      BY <2>3, <3>1
  <2>5. QED
    BY <2>1, <2>2, <2>3, <2>4
<1>16. QED
  <2>1. after = c /\ fresh = new
    BY <1>15
  <2>2. QED
    BY <1>12, <1>13, <1>14, <2>1 DEF asked, next

\* The messages that name sessions by the numbers they have in st or that those in new get, and
\* that carry shares of C.
Numbered(st, new, C) ==
  {m \in Message : /\ \A i, s : Names(m, i, s) => SentAs(st, i, s) \/ Fresh(st, new, i, s)
                   /\ \A k \in Key : Carries(m, k) => k \in C}

LEMMA SeqImage ==
  ASSUME NEW S, NEW X, NEW order \in Seq(S), NEW g \in [S -> X]
  PROVE  [i \in DOMAIN order |-> g[order[i]]] \in Seq(X)
<1> DEFINE q == [i \in DOMAIN order |-> g[order[i]]]
<1>1. Len(order) \in Nat /\ order \in [1..Len(order) -> S] /\ DOMAIN order = 1..Len(order)
  BY SMTT(30)
<1>2. q \in [1..Len(order) -> X]
  BY <1>1
<1> HIDE DEF q
<1>3. q \in Seq(X)
  BY <1>1, <1>2, SMTT(30)
<1>4. QED
  BY <1>3 DEF q

LEMMA ForSessionsType ==
  ASSUME NEW S, S \subseteq Sessions, NEW X, NEW msgs \in [S -> X]
  PROVE  ForSessions(msgs) \in Seq(X)
<1>1. DOMAIN msgs = S /\ InSomeOrder(S) \in Seq(S)
  BY OrderProperty
<1>2. [i \in DOMAIN InSomeOrder(S) |-> msgs[InSomeOrder(S)[i]]] \in Seq(X)
  BY <1>1, SeqImage
<1>3. QED
  BY <1>1, <1>2 DEF ForSessions

LEMMA NumbersUsed ==
  ASSUME NEW st \in NodeState, NEW keys, keys \subseteq Key, NEW s \in SessionsOf(keys)
  PROVE  LET new == Unnumbered(st, keys)
             i == SendId(st, new, s)
         IN i \in Nat /\ s \in Sessions /\ (SentAs(st, i, s) \/ Fresh(st, new, i, s))
<1> DEFINE new == Unnumbered(st, keys)
           i == SendId(st, new, s)
<1> SUFFICES i \in Nat /\ s \in Sessions /\ (SentAs(st, i, s) \/ Fresh(st, new, i, s))
  OBVIOUS
<1>1. new \subseteq Sessions /\ s \in Sessions
  BY DEF Unnumbered, SessionsOf, Key
<1>2. s \in new \/ Session(st, s).sendId # NoId
  BY DEF Unnumbered
<1> HIDE DEF new
<1>3. CASE s \in new
  BY <1>1, <1>3, SendIdProperty DEF Fresh
<1>4. CASE s \notin new
  <2>1. i = Session(st, s).sendId /\ i # NoId
    BY <1>2, <1>4 DEF SendId
  <2>2. s \in DOMAIN st.sessions
    BY <2>1, SessionNumbers
  <2>3. Session(st, s) \in SessionRec
    BY SessionType
  <2>4. i \in Nat
    BY <2>1, <2>3 DEF SessionRec
  <2>5. QED
    BY <1>1, <2>1, <2>2, <2>4 DEF SentAs, Session
<1>5. QED
  BY <1>3, <1>4

LEMMA MessagesProperty ==
  ASSUME NEW st \in NodeState, NEW get, get \subseteq Key, NEW send, send \subseteq Key,
         NEW tell, tell \subseteq Key, NEW C, send \subseteq C
  PROVE  Messages(st, get, send, tell)
           \in Seq(Numbered(st, Unnumbered(st, get \cup send \cup tell), C))
<1> DEFINE keys == get \cup send \cup tell
           new == Unnumbered(st, keys)
           X == Numbered(st, new, C)
           id(s) == SendId(st, new, s)
           ann(s) == [type |-> "QSIGSESANN", id |-> id(s), session |-> s]
           ask(s) == [type |-> "QGETSIGSHARES", id |-> id(s), members |-> MembersOf(get, s)]
           batch(s) == [type |-> "QBSIGSHARES", id |-> id(s), shares |-> {k \in send : k[1] = s}]
           inv(s) == [type |-> "QSIGSHARESINV", id |-> id(s), members |-> MembersOf(tell, s)]
           m1 == [s \in new |-> ann(s)]
           m2 == [s \in SessionsOf(get) |-> ask(s)]
           m3 == [s \in SessionsOf(send) |-> batch(s)]
           m4 == [s \in SessionsOf(tell) |-> inv(s)]
           q1 == ForSessions(m1)
           q2 == ForSessions(m2)
           q3 == ForSessions(m3)
           q4 == ForSessions(m4)
<1>1. Messages(st, get, send, tell) = q1 \o q2 \o q3 \o q4
  BY DEF Messages
<1>2. \A s \in SessionsOf(keys) :
        id(s) \in Nat /\ s \in Sessions /\ (SentAs(st, id(s), s) \/ Fresh(st, new, id(s), s))
  <2> TAKE s \in SessionsOf(keys)
  <2>1. keys \subseteq Key
    OBVIOUS
  <2> HIDE DEF keys
  <2>2. QED
    BY <2>1, NumbersUsed
<1>3. /\ SessionsOf(get) \subseteq SessionsOf(keys) /\ SessionsOf(send) \subseteq SessionsOf(keys)
      /\ SessionsOf(tell) \subseteq SessionsOf(keys) /\ new \subseteq SessionsOf(keys)
      /\ SessionsOf(keys) \subseteq Sessions
  BY DEF SessionsOf, Unnumbered, Key
<1>4. /\ \A s : MembersOf(get, s) \subseteq Members /\ MembersOf(tell, s) \subseteq Members
      /\ \A s : {k \in send : k[1] = s} \subseteq Key
  BY DEF MembersOf, Key
<1> HIDE DEF new, keys, id
<1>5. \A s \in new : ann(s) \in X
  <2> TAKE s \in new
  <2> DEFINE m == ann(s)
  <2>1. m \in Message /\ m.type = "QSIGSESANN" /\ m.id = id(s) /\ m.session = s
    BY <1>2, <1>3 DEF Message
  <2> HIDE DEF m
  <2>2. m \in X
    BY <1>2, <1>3, <2>1 DEF Numbered, Names, Carries
  <2>3. QED
    BY <2>2 DEF m
<1>6. \A s \in SessionsOf(get) : ask(s) \in X
  <2> TAKE s \in SessionsOf(get)
  <2> DEFINE m == ask(s)
  <2>1. m \in Message /\ m.type = "QGETSIGSHARES"
    BY <1>2, <1>3, <1>4 DEF Message
  <2> HIDE DEF m
  <2>2. m \in X
    BY <2>1 DEF Numbered, Names, Carries
  <2>3. QED
    BY <2>2 DEF m
<1>7. \A s \in SessionsOf(send) : batch(s) \in X
  <2> TAKE s \in SessionsOf(send)
  <2> DEFINE m == batch(s)
  <2>1. m \in Message /\ m.type = "QBSIGSHARES" /\ m.id = id(s) /\ m.shares = {k \in send : k[1] = s}
    BY <1>2, <1>3, <1>4 DEF Message
  <2> HIDE DEF m
  <2>2. \A i, r : Names(m, i, r) => i = id(s) /\ r = s
    BY <2>1 DEF Names
  <2>3. \A k : Carries(m, k) => k \in C
    BY <2>1 DEF Carries
  <2>4. m \in X
    BY <1>2, <1>3, <2>1, <2>2, <2>3, SMTT(30) DEF Numbered
  <2>5. QED
    BY <2>4 DEF m
<1>8. \A s \in SessionsOf(tell) : inv(s) \in X
  <2> TAKE s \in SessionsOf(tell)
  <2> DEFINE m == inv(s)
  <2>1. m \in Message /\ m.type = "QSIGSHARESINV"
    BY <1>2, <1>3, <1>4 DEF Message
  <2> HIDE DEF m
  <2>2. m \in X
    BY <2>1 DEF Numbered, Names, Carries
  <2>3. QED
    BY <2>2 DEF m
<1> HIDE DEF X, ann, ask, batch, inv
<1>9. /\ m1 \in [new -> X] /\ m2 \in [SessionsOf(get) -> X]
       /\ m3 \in [SessionsOf(send) -> X] /\ m4 \in [SessionsOf(tell) -> X]
  BY <1>5, <1>6, <1>7, <1>8
<1>10. /\ new \subseteq Sessions /\ SessionsOf(get) \subseteq Sessions
       /\ SessionsOf(send) \subseteq Sessions /\ SessionsOf(tell) \subseteq Sessions
  BY <1>3
<1> HIDE DEF m1, m2, m3, m4
<1>11. q1 \in Seq(X) /\ q2 \in Seq(X) /\ q3 \in Seq(X) /\ q4 \in Seq(X)
  BY <1>9, <1>10, ForSessionsType
<1> HIDE DEF q1, q2, q3, q4
<1>12. q1 \o q2 \o q3 \o q4 \in Seq(X)
  BY <1>11, SMTT(30)
<1>13. QED
  BY <1>1, <1>12 DEF X, new, keys

LEMMA FreshNumbers ==
  ASSUME NEW st \in NodeState, NEW keys, keys \subseteq Key, NEW new, new = Unnumbered(st, keys),
         NEW i, NEW s, Fresh(st, new, i, s)
  PROVE  /\ i \in Nat /\ i >= st.nextId /\ i < st.nextId + Cardinality(new)
         /\ \A r : Fresh(st, new, i, r) => r = s
<1>1. new \subseteq Sessions
  BY DEF Unnumbered, SessionsOf, Key
<1>2. s \in new /\ i = SendId(st, new, s) /\ \A r : Fresh(st, new, i, r) => r \in new /\ SendId(st, new, r) = i
  BY DEF Fresh
<1>3. QED
  BY <1>1, <1>2, SendIdProperty

\* The shares requested from node id, and the requests that the manager remembers.
RequestedFrom(R, id) == {x[2] : x \in {y \in R : y[1] = id}}
AskedWith(R, old) ==
  Override([k \in {x[2] : x \in R} |-> [node |-> (CHOOSE x \in R : x[2] = k)[1], old |-> FALSE]], old)

\* R requests every share of one of the nodes D; the requests R are remembered, and the others in old.
OneNodeEach(R, D) == R \subseteq D \X Key /\ \A x, y \in R : x[2] = y[2] => x = y
Remembered(asked, R, old) ==
  /\ asked \in Map(Key, [node : Members \X Nat, old : BOOLEAN])
  /\ \A id : \A k \in RequestedFrom(R, id) :
       k \in DOMAIN asked /\ asked[k] = [node |-> id, old |-> FALSE]
  /\ \A k \in DOMAIN old : (\A x \in R : x[2] # k) => k \in DOMAIN asked /\ asked[k] = old[k]

LEMMA AskedProperty ==
  ASSUME NEW D, D \subseteq Members \X Nat, NEW R, OneNodeEach(R, D),
         NEW old \in Map(Key, [node : Members \X Nat, old : BOOLEAN])
  PROVE  Remembered(AskedWith(R, old), R, old)
<1> DEFINE K == {x[2] : x \in R}
           at(k) == (CHOOSE x \in R : x[2] = k)[1]
           rec(k) == [node |-> at(k), old |-> FALSE]
           g == [k \in K |-> rec(k)]
           a == Override(g, old)
<1>0. R \subseteq D \X Key /\ \A x, y \in R : x[2] = y[2] => x = y
  BY DEF OneNodeEach
<1>1. AskedWith(R, old) = a
  BY DEF AskedWith
<1>2. \A x \in R : x[2] \in K /\ at(x[2]) = x[1] /\ x[1] \in Members \X Nat
  <2> TAKE x \in R
  <2>1. (CHOOSE y \in R : y[2] = x[2]) = x
    BY <1>0
  <2>2. QED
    BY <1>0, <2>1
<1>3. K \subseteq Key
  BY <1>0
<1>4. \A k \in K : at(k) \in Members \X Nat
  BY <1>2
<1>5. \A k \in K : rec(k) \in [node : Members \X Nat, old : BOOLEAN]
  BY <1>4
<1>6. DOMAIN g = K /\ \A k \in K : g[k] = rec(k)
  OBVIOUS
<1>7. g \in [K -> [node : Members \X Nat, old : BOOLEAN]]
  <2> HIDE DEF rec, K
  <2> QED
    BY <1>5
<1> HIDE DEF g, K, at
<1>8. g \in Map(Key, [node : Members \X Nat, old : BOOLEAN])
  BY <1>3, <1>6, <1>7, MapProperty
<1>9. a \in Map(Key, [node : Members \X Nat, old : BOOLEAN])
  BY <1>8, OverrideType
<1>10. /\ \A k \in K : k \in DOMAIN a /\ a[k] = rec(k)
       /\ \A k \in DOMAIN old \ K : k \in DOMAIN a /\ a[k] = old[k]
  BY <1>6 DEF Override
<1> HIDE DEF a
<1>11. ASSUME NEW id, NEW k \in RequestedFrom(R, id)
       PROVE  k \in DOMAIN a /\ a[k] = [node |-> id, old |-> FALSE]
  <2>1. PICK x \in R : x[1] = id /\ x[2] = k
    BY DEF RequestedFrom
  <2>2. k \in K /\ at(k) = id
    BY <1>2, <2>1
  <2>3. QED
    BY <1>10, <2>2
<1>12. ASSUME NEW k \in DOMAIN old, \A x \in R : x[2] # k PROVE k \in DOMAIN a /\ a[k] = old[k]
  <2>1. k \notin K
    BY <1>12 DEF K
  <2>2. QED
    BY <1>10, <2>1
<1>13. QED
  BY <1>1, <1>9, <1>11, <1>12 DEF Remembered

LEMMA AskedAfter ==
  ASSUME NEW M \in Manager, NEW R, OneNodeEach(R, DOMAIN M.states)
  PROVE  Remembered(AskedWith(R, M.asked), R, M.asked)
<1>1. DOMAIN M.states \subseteq Members \X Nat /\ M.asked \in Map(Key, [node : Members \X Nat, old : BOOLEAN])
  BY MapProperty DEF Manager
<1>2. QED
  BY <1>1, AskedProperty

LEMMA StillAskedOnce ==
  ASSUME NEW M \in Manager, AskedOnce(M), NEW R, OneNodeEach(R, DOMAIN M.states),
         \A x \in R : x[2] \in DOMAIN M.asked => M.asked[x[2]].old,
         NEW N, N.asked = AskedWith(R, M.asked),
         \A id \in DOMAIN N.states :
           N.states[id].requested = Override(OpenRequests(State(M, id)),
                                             [k \in RequestedFrom(R, id) |-> FALSE])
  PROVE  AskedOnce(N)
<1> DEFINE a == AskedWith(R, M.asked)
<1>1. Remembered(a, R, M.asked)
  BY AskedAfter
<1>2. /\ \A id : \A k \in RequestedFrom(R, id) : k \in DOMAIN a /\ a[k] = [node |-> id, old |-> FALSE]
      /\ \A k \in DOMAIN M.asked : (\A x \in R : x[2] # k) => k \in DOMAIN a /\ a[k] = M.asked[k]
  BY <1>1 DEF Remembered
<1> SUFFICES ASSUME NEW id \in DOMAIN N.states, NEW k \in DOMAIN N.states[id].requested
             PROVE  k \in DOMAIN a /\ a[k] = [node |-> id, old |-> FALSE]
  <2> HIDE DEF a
  <2>1. \A id, k : a[k] = [node |-> id, old |-> FALSE] => a[k].node = id
    BY SMTT(30)
  <2>2. N.asked = a
    BY DEF a
  <2>3. ASSUME NEW id \in DOMAIN N.states, NEW k \in DOMAIN N.states[id].requested
        PROVE  /\ k \in DOMAIN N.asked /\ N.asked[k] = [node |-> id, old |-> FALSE]
               /\ N.asked[k].node = id
    BY <2>1, <2>2, SMTT(30)
  <2>4. QED
    BY <2>3 DEF AskedOnce
<1> HIDE DEF a
<1> DEFINE st == State(M, id)
<1>3. k \in RequestedFrom(R, id) \/ (k \in DOMAIN st.requested /\ ~st.requested[k])
  <2> DEFINE o == OpenRequests(st)
             g == [j \in RequestedFrom(R, id) |-> FALSE]
  <2>1. DOMAIN g = RequestedFrom(R, id) /\ N.states[id].requested = Override(o, g)
    OBVIOUS
  <2>2. DOMAIN o = {j \in DOMAIN st.requested : ~st.requested[j]}
    BY DEF OpenRequests, Restrict
  <2> HIDE DEF o, g
  <2>3. k \in DOMAIN o \cup DOMAIN g
    BY <2>1 DEF Override
  <2>4. QED
    BY <2>1, <2>2, <2>3
<1>4. CASE k \in RequestedFrom(R, id)
  BY <1>2, <1>4
<1>5. CASE k \in DOMAIN st.requested /\ ~st.requested[k]
  <2>1. id \in DOMAIN M.states /\ st = M.states[id]
    BY <1>5, EmptyMap DEF State, NewNodeState
  <2>2. k \in DOMAIN M.asked /\ M.asked[k] = [node |-> id, old |-> FALSE]
    BY <1>5, <2>1 DEF AskedOnce
  <2>3. ~M.asked[k].old
    BY <2>2, SMTT(30)
  <2>4. \A x \in R : x[2] # k
    BY <2>2, <2>3
  <2>5. QED
    BY <1>2, <2>2, <2>4
<1>6. QED
  BY <1>3, <1>4, <1>5

LEMMA RequestsProperty ==
  ASSUME NEW n, NEW R \in CollectSigSharesToRequest(n)
  PROVE  /\ OneNodeEach(R, DOMAIN mgr[n].states)
         /\ \A x \in R : x[2] \in DOMAIN mgr[n].asked => mgr[n].asked[x[2]].old
<1>1. R \subseteq Requestable(n) /\ \A x, y \in R : x[2] = y[2] => x = y
  BY DEF CollectSigSharesToRequest
<1>2. \A x \in Requestable(n) : /\ x \in (DOMAIN mgr[n].states) \X Key
                                /\ x[2] \in DOMAIN mgr[n].asked => mgr[n].asked[x[2]].old
  <2> TAKE x \in Requestable(n)
  <2>1. x \in (DOMAIN mgr[n].states) \X (Key \ mgr[n].sigShares)
    BY DEF Requestable
  <2>2. x[2] \in DOMAIN mgr[n].asked => mgr[n].asked[x[2]].old
    BY DEF Requestable
  <2>3. QED
    BY <2>1, <2>2
<1>3. QED
  BY <1>1, <1>2 DEF OneNodeEach

\* The node states, the signed sessions and the messages to p after SendMessages.
SentTo(n, id) == CollectSigSharesToSend(n, State(mgr[n], id))
ToldTo(n, id) ==
  IF id \in (IF mgr[n].queued = {} THEN {} ELSE QuorumNodes(n))
  THEN CollectSigSharesToAnnounce(n, State(mgr[n], id)) ELSE {}
StatesAfter(n, R) ==
  [id \in DOMAIN mgr[n].states \cup (IF mgr[n].queued = {} THEN {} ELSE QuorumNodes(n)) |->
     Collected(n, State(mgr[n], id), RequestedFrom(R, id), SentTo(n, id), ToldTo(n, id))]
SignedAfter(M, due) == [s \in DOMAIN M.signed |-> IF s \in due THEN M.signed[s] + 1 ELSE M.signed[s]]
ManagerAfter(n, R, due) ==
  [mgr[n] EXCEPT !.states = StatesAfter(n, R), !.asked = AskedWith(R, @), !.queued = {},
                 !.signed = SignedAfter(mgr[n], due)]
MessagesTo(n, R, due, p) ==
  IF ~Linked(n, p) THEN chan[n][p] ELSE
  LET id == NodeId(n, p)
  IN chan[n][p] \o Messages(State(mgr[n], id), RequestedFrom(R, id), SentTo(n, id), ToldTo(n, id))
                \o Concentrated(n, due, p)

LEMMA SendMessagesAfter ==
  ASSUME NEW n \in Members, SendMessages(n), mgr \in [Members -> Manager]
  PROVE  \E R \in CollectSigSharesToRequest(n), due \in DueSessions(n) :
           /\ mgr' = [mgr EXCEPT ![n] = ManagerAfter(n, R, due)]
           /\ chan' = [chan EXCEPT ![n] = [p \in Members |-> MessagesTo(n, R, due, p)]]
           /\ UNCHANGED <<scenario, voted, created, recovered, conn, timeouts, retries>>
<1> DEFINE M == mgr[n]
           nodes == IF M.queued = {} THEN {} ELSE QuorumNodes(n)
           get(R, id) == {x[2] : x \in {y \in R : y[1] = id}}
           send(id) == CollectSigSharesToSend(n, State(M, id))
           tell(id) == IF id \in nodes THEN CollectSigSharesToAnnounce(n, State(M, id)) ELSE {}
<1>1. PICK R \in CollectSigSharesToRequest(n), due \in DueSessions(n) :
        /\ mgr' = [mgr EXCEPT ![n] = [M EXCEPT
             !.states = [id \in DOMAIN M.states \cup nodes |->
                           Collected(n, State(M, id), get(R, id), send(id), tell(id))],
             !.asked = Override([k \in {x[2] : x \in R} |->
                          [node |-> (CHOOSE x \in R : x[2] = k)[1], old |-> FALSE]], M.asked),
             !.queued = {},
             !.signed = [s \in DOMAIN M.signed |-> IF s \in due THEN M.signed[s] + 1 ELSE M.signed[s]]]]
        /\ chan' = [chan EXCEPT ![n] = [p \in Members |->
             IF ~Linked(n, p) THEN chan[n][p] ELSE
             chan[n][p] \o Messages(State(M, NodeId(n, p)), get(R, NodeId(n, p)), send(NodeId(n, p)), tell(NodeId(n, p)))
                \o Concentrated(n, due, p)]]
        /\ UNCHANGED <<scenario, voted, created, recovered, conn, timeouts, retries>>
  BY Zenon DEF SendMessages
<1>2. \A id : get(R, id) = RequestedFrom(R, id) /\ send(id) = SentTo(n, id) /\ tell(id) = ToldTo(n, id)
  BY DEF RequestedFrom, SentTo, ToldTo
<1>3. mgr' = [mgr EXCEPT ![n] = ManagerAfter(n, R, due)]
  BY <1>1 DEF ManagerAfter, StatesAfter, SignedAfter, SentTo, ToldTo, RequestedFrom, AskedWith
<1>4. chan' = [chan EXCEPT ![n] = [p \in Members |-> MessagesTo(n, R, due, p)]]
  BY <1>1 DEF MessagesTo, SentTo, ToldTo, RequestedFrom
<1>5. QED
  BY <1>1, <1>3, <1>4

LEMMA SeqSuper ==
  ASSUME NEW A, NEW B, NEW q \in Seq(A), \A j \in DOMAIN q : q[j] \in B
  PROVE  q \in Seq(B)
<1>1. Len(q) \in Nat /\ DOMAIN q = 1..Len(q) /\ q = [j \in 1..Len(q) |-> q[j]]
  BY SMTT(30)
<1>2. q \in [1..Len(q) -> B]
  BY <1>1
<1>3. QED
  BY <1>1, <1>2, SMTT(30)

\* What a node's state is after SendMessages: new sessions have numbers, and the requests of R
\* are open.
NumberedState(new, st, fresh) ==
  /\ Sound(new) /\ new.nextId = st.nextId + Cardinality(fresh) /\ new.pending = st.pending
  /\ \A i, s : SentAs(new, i, s) => SentAs(st, i, s) \/ Fresh(st, fresh, i, s)
  /\ \A i, s : LearnedAs(new, i, s) => LearnedAs(st, i, s)

\* The sessions that get a number in what is sent to node id.
FreshFor(n, R, id) ==
  Unnumbered(State(mgr[n], id), RequestedFrom(R, id) \cup SentTo(n, id) \cup ToldTo(n, id))

LEMMA SentKeys ==
  ASSUME IInv, NEW n \in Members, NEW R, OneNodeEach(R, DOMAIN mgr[n].states), NEW id
  PROVE  /\ RequestedFrom(R, id) \subseteq Key /\ SentTo(n, id) \subseteq Key
         /\ SentTo(n, id) \subseteq created /\ ToldTo(n, id) \subseteq Key
<1>1. mgr[n].sigShares \subseteq Key /\ mgr[n].sigShares \subseteq created /\ mgr[n].queued \subseteq Key
  BY ManagerType DEF Manager, Backed
<1>2. \A x \in R : x[2] \in Key
  BY DEF OneNodeEach
<1>3. RequestedFrom(R, id) \subseteq Key
  BY <1>2 DEF RequestedFrom
<1>4. SentTo(n, id) \subseteq mgr[n].sigShares
  BY DEF SentTo, CollectSigSharesToSend
<1>5. ToldTo(n, id) \subseteq mgr[n].sigShares
  BY DEF ToldTo, CollectSigSharesToAnnounce
<1>6. QED
  BY <1>1, <1>3, <1>4, <1>5

LEMMA NumberedStates ==
  ASSUME IInv, NEW n \in Members, NEW R, OneNodeEach(R, DOMAIN mgr[n].states), NEW id,
         NEW new, new = Collected(n, State(mgr[n], id), RequestedFrom(R, id), SentTo(n, id), ToldTo(n, id))
  PROVE  /\ NumberedState(new, State(mgr[n], id), FreshFor(n, R, id))
         /\ new.requested = Override(OpenRequests(State(mgr[n], id)), [k \in RequestedFrom(R, id) |-> FALSE])
<1> DEFINE st == State(mgr[n], id)
           get == RequestedFrom(R, id)
           send == SentTo(n, id)
           tell == ToldTo(n, id)
           fresh == Unnumbered(st, get \cup send \cup tell)
<1>1. Sound(st) /\ get \subseteq Key /\ send \subseteq Key /\ tell \subseteq Key
  BY StateSound, SentKeys
<1>2. new = Collected(n, st, get, send, tell) /\ FreshFor(n, R, id) = fresh
  BY DEF FreshFor
<1> SUFFICES NumberedState(new, st, fresh) /\ new.requested = Override(OpenRequests(st), [k \in get |-> FALSE])
  BY <1>2
<1> HIDE DEF st, get, send, tell
<1> HIDE DEF fresh
<1>3. /\ Sound(new) /\ new.nextId = st.nextId + Cardinality(fresh) /\ new.pending = st.pending
      /\ new.requested = Override(OpenRequests(st), [k \in get |-> FALSE])
      /\ new.byRecvId = st.byRecvId
      /\ \A i, s : SentAs(new, i, s) => SentAs(st, i, s) \/ Fresh(st, fresh, i, s)
  <2>1. fresh = Unnumbered(st, get \cup send \cup tell)
    BY DEF fresh
  <2>2. QED
    BY <1>1, <1>2, <2>1, CollectedProperty
<1>4. QED
  BY <1>3 DEF NumberedState, LearnedAs

LEMMA UntouchedState ==
  ASSUME IInv, NEW n \in Members, NEW R, OneNodeEach(R, DOMAIN mgr[n].states),
         NEW id, id \notin DOMAIN StatesAfter(n, R)
  PROVE  State(mgr[n], id) = NewNodeState /\ FreshFor(n, R, id) = {}
<1>1. /\ id \notin DOMAIN mgr[n].states
      /\ id \notin (IF mgr[n].queued = {} THEN {} ELSE QuorumNodes(n))
  BY DEF StatesAfter
<1>2. State(mgr[n], id) = NewNodeState
  BY <1>1 DEF State
<1>3. RequestedFrom(R, id) = {}
  <2>1. \A x \in R : x[1] # id
    BY <1>1 DEF OneNodeEach
  <2>2. QED
    BY <2>1 DEF RequestedFrom
<1>4. SentTo(n, id) = {}
  <2>1. DOMAIN NewNodeState.sessions = {}
    BY EmptyMap DEF NewNodeState
  <2>2. QED
    BY <1>2, <2>1 DEF SentTo, CollectSigSharesToSend
<1>5. ToldTo(n, id) = {}
  BY <1>1 DEF ToldTo
<1>6. QED
  BY <1>2, <1>3, <1>4, <1>5 DEF FreshFor, Unnumbered, SessionsOf

LEMMA SentManager ==
  ASSUME IInv, NEW n \in Members, NEW R \in CollectSigSharesToRequest(n), NEW due \in DueSessions(n),
         NEW N, N = ManagerAfter(n, R, due)
  PROVE  /\ ManagerFits(N) /\ Backed(n, N, created) /\ \A id \in DOMAIN N.states : Known(n, id)
         /\ \A id : NumberedState(State(N, id), State(mgr[n], id), FreshFor(n, R, id))
<1> DEFINE M == mgr[n]
           f == StatesAfter(n, R)
           a == AskedWith(R, M.asked)
           g == SignedAfter(M, due)
<1>1. /\ M \in Manager /\ ManagerFits(M) /\ Backed(n, M, created)
      /\ \A id \in DOMAIN M.states : Sound(M.states[id]) /\ Known(n, id)
  BY ManagerType
<1>2. /\ OneNodeEach(R, DOMAIN M.states)
      /\ \A x \in R : x[2] \in DOMAIN M.asked => M.asked[x[2]].old
  BY RequestsProperty
<1>3. \A id \in DOMAIN f : Known(n, id) /\ id \in Members \X Nat
  <2>1. \A id \in DOMAIN f : id \in DOMAIN M.states \/ id \in QuorumNodes(n)
    BY DEF StatesAfter
  <2>2. DOMAIN M.states \subseteq Members \X Nat
    BY <1>1, MapProperty DEF Manager
  <2>3. QED
    BY <1>1, <2>1, <2>2, QuorumNodesKnown
<1>4. \A id \in DOMAIN f :
        /\ NumberedState(f[id], State(M, id), FreshFor(n, R, id))
        /\ f[id].requested = Override(OpenRequests(State(M, id)), [k \in RequestedFrom(R, id) |-> FALSE])
  <2> TAKE id \in DOMAIN f
  <2> DEFINE new == f[id]
  <2>1. new = Collected(n, State(M, id), RequestedFrom(R, id), SentTo(n, id), ToldTo(n, id))
    BY DEF StatesAfter
  <2> HIDE DEF new
  <2>2. /\ NumberedState(new, State(M, id), FreshFor(n, R, id))
        /\ new.requested = Override(OpenRequests(State(M, id)), [k \in RequestedFrom(R, id) |-> FALSE])
    BY <1>2, <2>1, NumberedStates
  <2>3. QED
    BY <2>2 DEF new
<1>5. f = [id \in DOMAIN f |-> f[id]]
  BY DEF StatesAfter
<1>6. a \in Map(Key, [node : Members \X Nat, old : BOOLEAN])
  BY <1>1, <1>2, AskedAfter DEF Remembered
<1>7. g \in Map(Sessions, 0..RecoveryMembers) /\ DOMAIN g = DOMAIN M.signed
  <2>1. DOMAIN M.signed \subseteq Sessions /\ M.signed \in [DOMAIN M.signed -> 0..RecoveryMembers]
    BY <1>1, MapProperty DEF Manager
  <2>2. \A s \in due : s \in DOMAIN M.signed /\ M.signed[s] < RecoveryMembers
    BY DEF DueSessions
  <2>3. DOMAIN g = DOMAIN M.signed
    BY DEF SignedAfter
  <2>4. \A s \in DOMAIN M.signed : g[s] = IF s \in due THEN M.signed[s] + 1 ELSE M.signed[s]
    BY DEF SignedAfter
  <2>5. g = [s \in DOMAIN g |-> g[s]]
    BY DEF SignedAfter
  <2> DEFINE h == M.signed
  <2> HIDE DEF g, h
  <2>6. \A s \in DOMAIN g : g[s] \in 0..RecoveryMembers
    <3>1. RecoveryMembers \in Nat
      BY ParameterAssumption
    <3>2. ASSUME NEW s \in DOMAIN g PROVE g[s] \in 0..RecoveryMembers
      <4> DEFINE v == h[s]
      <4>1. v \in 0..RecoveryMembers /\ (s \in due => v < RecoveryMembers)
        BY <2>1, <2>2, <2>3 DEF h
      <4>2. g[s] = IF s \in due THEN v + 1 ELSE v
        BY <2>3, <2>4 DEF h
      <4> HIDE DEF v
      <4>3. QED
        BY <3>1, <4>1, <4>2, SMTT(30)
    <3>3. QED
      BY <3>2
  <2>7. QED
    BY <2>1, <2>3, <2>5, <2>6, MapProperty
<1> HIDE DEF f, a, g
<1>8. f \in Map(Members \X Nat, NodeState)
  <2>1. \A id \in DOMAIN f : f[id] \in NodeState
    BY <1>4 DEF NumberedState, Sound
  <2>2. f \in [DOMAIN f -> NodeState]
    BY <1>5, <2>1
  <2>3. QED
    BY <1>3, <2>2, MapProperty
<1>9. /\ N \in Manager /\ N.states = f /\ N.asked = a /\ N.signed = g /\ N.sigShares = M.sigShares
      /\ N.verified = M.verified
  <2>1. N = [M EXCEPT !.states = f, !.asked = a, !.queued = {}, !.signed = g]
    BY DEF ManagerAfter, f, a, g
  <2>2. QED
    BY <1>1, <1>6, <1>7, <1>8, <2>1 DEF Manager
<1>10. AskedOnce(N)
  <2>1. /\ N.asked = AskedWith(R, M.asked)
        /\ \A id \in DOMAIN N.states :
             N.states[id].requested = Override(OpenRequests(State(M, id)),
                                               [k \in RequestedFrom(R, id) |-> FALSE])
    BY <1>4, <1>9 DEF a
  <2>2. M \in Manager /\ AskedOnce(M)
    BY <1>1 DEF ManagerFits
  <2> HIDE DEF M
  <2>3. QED
    BY <1>2, <2>1, <2>2, StillAskedOnce
<1>11. ManagerFits(N)
  BY <1>4, <1>9, <1>10 DEF ManagerFits, NumberedState
<1>12. Backed(n, N, created)
  <2>1. \A id \in DOMAIN f : DOMAIN f[id].pending \subseteq created
    <3> TAKE id \in DOMAIN f
    <3>1. f[id].pending = State(M, id).pending
      BY <1>4 DEF NumberedState
    <3>2. QED
      BY <1>1, <3>1, EmptyMap DEF State, NewNodeState, Backed
  <2>2. QED
    BY <1>1, <1>7, <1>9, <2>1 DEF Backed
<1>13. ASSUME NEW id PROVE NumberedState(State(N, id), State(M, id), FreshFor(n, R, id))
  <2>1. CASE id \in DOMAIN f
    BY <1>4, <1>9, <2>1 DEF State
  <2>2. CASE id \notin DOMAIN f
    <3>1. State(M, id) = NewNodeState /\ FreshFor(n, R, id) = {} /\ State(N, id) = NewNodeState
      BY <1>2, <1>9, <2>2, UntouchedState DEF f, State
    <3>2. Cardinality({}) = 0 /\ NewNodeState.nextId = 1
      BY FS_EmptySet DEF NewNodeState
    <3>3. QED
      BY <3>1, <3>2, NewStateSound, SMTT(30) DEF NumberedState
  <2>3. QED
    BY <2>1, <2>2
<1>14. QED
  BY <1>3, <1>9, <1>11, <1>12, <1>13

LEMMA ConcentratedProperty ==
  ASSUME IInv, NEW n \in Members, NEW due \in DueSessions(n), NEW p
  PROVE  Concentrated(n, due, p) \in Seq({m \in Message : m.type = "QSIGSHARE" /\ m.share \in created})
<1> DEFINE X == {m \in Message : m.type = "QSIGSHARE" /\ m.share \in created}
           S == {s \in due : RecoveryOrder[mgr[n].signed[s] + 1] = p}
           e(s) == [type |-> "QSIGSHARE", share |-> <<s, n>>]
           g == [s \in S |-> e(s)]
<1>1. Concentrated(n, due, p) = ForSessions(g)
  BY DEF Concentrated
<1>2. S \subseteq DOMAIN mgr[n].signed
  BY DEF DueSessions
<1>3. S \subseteq Sessions /\ \A s \in S : <<s, n>> \in created
  BY <1>2, ManagerType, MapProperty DEF Manager, Backed
<1>4. \A s \in S : e(s) \in X
  <2> HIDE DEF S
  <2>1. \A s \in S : e(s) \in Message /\ e(s).type = "QSIGSHARE" /\ e(s).share = <<s, n>>
    BY <1>3 DEF Message, Key
  <2>2. QED
    BY <1>3, <2>1
<1> HIDE DEF S, e, X
<1>5. g \in [S -> X]
  BY <1>4
<1> HIDE DEF g
<1>6. QED
  BY <1>1, <1>3, <1>5, ForSessionsType DEF X

\* What is on the way to p after SendMessages uses numbers as before or those that are new.
LEMMA SentMessages ==
  ASSUME IInv, NEW n \in Members, NEW R \in CollectSigSharesToRequest(n), NEW due \in DueSessions(n),
         NEW p \in Members, NEW q, q = MessagesTo(n, R, due, p)
  PROVE  LET id == NodeId(n, p) IN
         /\ q \in Seq(Message) /\ (~Linked(n, p) => q = <<>>)
         /\ \A j \in DOMAIN q, k \in Key : Carries(q[j], k) => k \in created
         /\ \A i, s : InChannel(q, i, s) =>
              Means(n, p, i, s) \/ Fresh(State(mgr[n], id), FreshFor(n, R, id), i, s)
<1> DEFINE id == NodeId(n, p)
           st == State(mgr[n], id)
           fresh == FreshFor(n, R, id)
           X == {m \in Message : /\ \A i, s : Names(m, i, s) => Means(n, p, i, s) \/ Fresh(st, fresh, i, s)
                                 /\ \A k \in Key : Carries(m, k) => k \in created}
           old == chan[n][p]
           q1 == Messages(st, RequestedFrom(R, id), SentTo(n, id), ToldTo(n, id))
           q2 == Concentrated(n, due, p)
<1>1. old \in Seq(Message)
  BY SMTT(30) DEF IInv, Types
<1>2. \A j \in DOMAIN old : old[j] \in X
  <2> TAKE j \in DOMAIN old
  <2>1. old[j] \in Message
    <3> HIDE DEF old
    <3> QED
      BY <1>1, SMTT(30)
  <2>2. \A i, s : Names(old[j], i, s) => Means(n, p, i, s)
    BY DEF Means, InChannel
  <2>3. \A k \in Key : Carries(old[j], k) => k \in created
    BY DEF IInv, Channels
  <2>4. QED
    BY <2>1, <2>2, <2>3
<1>3. old \in Seq(X)
  <2> HIDE DEF old, X
  <2> QED
    BY <1>1, <1>2, SeqSuper
<1>4. \A i, s : SentAs(st, i, s) => Means(n, p, i, s)
  BY DEF Means
<1>5. q1 \in Seq(Numbered(st, fresh, created))
  <2> DEFINE get == RequestedFrom(R, id)
             send == SentTo(n, id)
             tell == ToldTo(n, id)
  <2>1. OneNodeEach(R, DOMAIN mgr[n].states)
    BY RequestsProperty
  <2>2. get \subseteq Key /\ send \subseteq Key /\ send \subseteq created /\ tell \subseteq Key
    BY <2>1, SentKeys
  <2>3. st \in NodeState
    BY StateSound DEF Sound
  <2>4. q1 = Messages(st, get, send, tell) /\ fresh = Unnumbered(st, get \cup send \cup tell)
    BY DEF FreshFor
  <2> HIDE DEF st, get, send, tell, q1, fresh
  <2>5. QED
    BY <2>2, <2>3, <2>4, MessagesProperty
<1>6. q2 \in Seq({m \in Message : m.type = "QSIGSHARE" /\ m.share \in created})
  BY ConcentratedProperty
<1>7. q = IF ~Linked(n, p) THEN old ELSE old \o q1 \o q2
  BY DEF MessagesTo
<1>8. ~Linked(n, p) => old = <<>>
  BY DEF IInv, Channels
<1> SUFFICES /\ q \in Seq(Message) /\ (~Linked(n, p) => q = <<>>)
             /\ \A j \in DOMAIN q, k \in Key : Carries(q[j], k) => k \in created
             /\ \A i, s : InChannel(q, i, s) => Means(n, p, i, s) \/ Fresh(st, fresh, i, s)
  OBVIOUS
<1> HIDE DEF id, st, fresh, old, q1, q2
<1>9. Numbered(st, fresh, created) \subseteq X
  BY <1>4 DEF Numbered
<1>10. {m \in Message : m.type = "QSIGSHARE" /\ m.share \in created} \subseteq X
  BY DEF Names, Carries
<1>11. X \subseteq Message
  OBVIOUS
<1> DEFINE A == Numbered(st, fresh, created)
           B == {m \in Message : m.type = "QSIGSHARE" /\ m.share \in created}
<1>12. q1 \in Seq(X) /\ q2 \in Seq(X)
  <2> q1 \in Seq(A) /\ q2 \in Seq(B) /\ A \subseteq X /\ B \subseteq X
    BY <1>5, <1>6, <1>9, <1>10
  <2> HIDE DEF A, B, X
  <2>1. (\A j \in DOMAIN q1 : q1[j] \in X) /\ (\A j \in DOMAIN q2 : q2[j] \in X)
    BY SMTT(30)
  <2>2. QED
    BY <2>1, SeqSuper
<1>13. q \in Seq(X)
  <2> HIDE DEF X
  <2>1. old \o q1 \o q2 \in Seq(X)
    BY <1>3, <1>12, SMTT(30)
  <2>2. QED
    BY <1>3, <1>7, <2>1
<1>14. q \in Seq(Message) /\ \A j \in DOMAIN q : q[j] \in X
  <2> X \subseteq Message
    BY <1>11
  <2> HIDE DEF X
  <2>1. \A j \in DOMAIN q : q[j] \in X /\ q[j] \in Message
    BY <1>13, SMTT(30)
  <2>2. QED
    BY <1>13, <2>1, SeqSuper
<1>15. \A j \in DOMAIN q, k \in Key : Carries(q[j], k) => k \in created
  BY <1>14
<1>16. \A i, s : InChannel(q, i, s) => Means(n, p, i, s) \/ Fresh(st, fresh, i, s)
  BY <1>14 DEF InChannel
<1>17. QED
  BY <1>7, <1>8, <1>14, <1>15, <1>16

LEMMA SendMessagesStep ==
  ASSUME IInv, NEW n \in Members, SendMessages(n)
  PROVE  IInv'
<1>1. mgr \in [Members -> Manager] /\ chan \in [Members -> [Members -> Seq(Message)]]
  BY DEF IInv, Types
<1>2. PICK R \in CollectSigSharesToRequest(n), due \in DueSessions(n) :
           /\ mgr' = [mgr EXCEPT ![n] = ManagerAfter(n, R, due)]
           /\ chan' = [chan EXCEPT ![n] = [p \in Members |-> MessagesTo(n, R, due, p)]]
           /\ UNCHANGED <<scenario, voted, created, recovered, conn, timeouts, retries>>
  BY <1>1, SendMessagesAfter
<1> DEFINE N == ManagerAfter(n, R, due)
           out == [p \in Members |-> MessagesTo(n, R, due, p)]
           fresh(id) == FreshFor(n, R, id)
<1>3. /\ ManagerFits(N) /\ Backed(n, N, created) /\ \A id \in DOMAIN N.states : Known(n, id)
      /\ \A id : NumberedState(State(N, id), State(mgr[n], id), fresh(id))
  BY SentManager
<1>4. ASSUME NEW p \in Members
      PROVE  /\ out[p] \in Seq(Message) /\ (~Linked(n, p) => out[p] = <<>>)
             /\ \A j \in DOMAIN out[p], k \in Key : Carries(out[p][j], k) => k \in created
             /\ \A i, s : InChannel(out[p], i, s) =>
                  Means(n, p, i, s) \/ Fresh(State(mgr[n], NodeId(n, p)), fresh(NodeId(n, p)), i, s)
  <2> DEFINE q == MessagesTo(n, R, due, p)
  <2>1. out[p] = q
    OBVIOUS
  <2> HIDE DEF out
  <2>2. /\ q \in Seq(Message) /\ (~Linked(n, p) => q = <<>>)
        /\ \A j \in DOMAIN q, k \in Key : Carries(q[j], k) => k \in created
        /\ \A i, s : InChannel(q, i, s) =>
             Means(n, p, i, s) \/ Fresh(State(mgr[n], NodeId(n, p)), fresh(NodeId(n, p)), i, s)
    BY SentMessages
  <2> HIDE DEF q, fresh
  <2>3. QED
    BY <2>1, <2>2
<1>5. mgr' = [mgr EXCEPT ![n] = N] /\ chan' = [chan EXCEPT ![n] = out]
  BY <1>2
<1>6. out \in [Members -> Seq(Message)]
  <2>1. out = [p \in Members |-> out[p]]
    OBVIOUS
  <2> HIDE DEF out
  <2>2. QED
    BY <1>4, <2>1
<1>7. \A id : LET st == State(mgr[n], id) IN
        /\ st \in NodeState /\ fresh(id) \subseteq Sessions
        /\ \A i, s : Fresh(st, fresh(id), i, s) =>
             /\ i \in Nat /\ i >= st.nextId /\ i < st.nextId + Cardinality(fresh(id))
             /\ \A r : Fresh(st, fresh(id), i, r) => r = s
  <2> TAKE id
  <2> DEFINE st == State(mgr[n], id)
             keys == RequestedFrom(R, id) \cup SentTo(n, id) \cup ToldTo(n, id)
             new == fresh(id)
  <2>1. st \in NodeState /\ keys \subseteq Key /\ new = Unnumbered(st, keys)
    <3>1. OneNodeEach(R, DOMAIN mgr[n].states)
      BY RequestsProperty
    <3>2. QED
      BY <3>1, StateSound, SentKeys DEF Sound, FreshFor
  <2>2. new \subseteq Sessions
    <3> HIDE DEF st, keys, new
    <3> QED
      BY <2>1 DEF Unnumbered, SessionsOf, Key
  <2> SUFFICES /\ st \in NodeState /\ new \subseteq Sessions
               /\ \A i, s : Fresh(st, new, i, s) =>
                    /\ i \in Nat /\ i >= st.nextId /\ i < st.nextId + Cardinality(new)
                    /\ \A r : Fresh(st, new, i, r) => r = s
    OBVIOUS
  <2> HIDE DEF st, keys, new
  <2>3. QED
    BY <2>1, <2>2, FreshNumbers
<1> HIDE DEF N, out, fresh
<1>8. /\ mgr' \in [Members -> Manager] /\ mgr'[n] = N /\ \A x \in Members \ {n} : mgr'[x] = mgr[x]
  BY <1>1, <1>3, <1>5 DEF ManagerFits
<1>9. /\ chan' \in [Members -> [Members -> Seq(Message)]] /\ chan'[n] = out
      /\ \A x \in Members \ {n} : chan'[x] = chan[x]
  BY <1>1, <1>5, <1>6
<1>10. Types'
  BY <1>2, <1>8, <1>9 DEF IInv, Types
<1>11. \A x \in Members : \A y : (Known(x, y)' <=> Known(x, y)) /\ (Linked(x, y)' <=> Linked(x, y))
  BY <1>2 DEF Known, Linked, AllConnected
<1>12. ASSUME NEW x \in Members
       PROVE  /\ ManagerFits(mgr'[x]) /\ Backed(x, mgr'[x], created') /\ timeouts'[x] <= retries'
              /\ \A y \in DOMAIN mgr'[x].states : Known(x, y)'
  <2>1. CASE x = n
    BY <1>2, <1>3, <1>8, <1>11, <2>1 DEF IInv
  <2>2. CASE x # n
    BY <1>2, <1>8, <1>11, <2>2 DEF IInv
  <2>3. QED
    BY <2>1, <2>2
<1>13. Channels'
  <2>1. ASSUME NEW x \in Members, NEW y \in Members, ~Linked(x, y)' PROVE chan'[x][y] = <<>>
    <3>1. ~Linked(x, y)
      BY <1>11, <2>1
    <3>2. CASE x = n
      BY <1>4, <1>9, <3>1, <3>2
    <3>3. CASE x # n
      BY <1>9, <3>1, <3>3 DEF IInv, Channels
    <3>4. QED
      BY <3>2, <3>3
  <2>2. ASSUME NEW x \in Members, NEW y \in Members, NEW j \in DOMAIN chan'[x][y], NEW k \in Key,
               Carries(chan'[x][y][j], k)
        PROVE  k \in created'
    <3>1. CASE x = n
      BY <1>2, <1>4, <1>9, <2>2, <3>1
    <3>2. CASE x # n
      BY <1>2, <1>9, <2>2, <3>2 DEF IInv, Channels
    <3>3. QED
      BY <3>1, <3>2
  <2>3. QED
    BY <2>1, <2>2 DEF Channels, Carries
<1>14. \A x, y \in Members : NodeId(x, y)' = NodeId(x, y)
  BY <1>2 DEF NodeId
<1>15. NumbersAgree'
  <2> DEFINE next(x, y) == State(mgr[x], NodeId(x, y)).nextId
  <2>1. ASSUME NEW b \in Members \ {n}, NEW i, NEW s, Means(n, b, i, s)'
        PROVE  Means(n, b, i, s) \/ Fresh(State(mgr[n], NodeId(n, b)), fresh(NodeId(n, b)), i, s)
    <3>1. /\ State(mgr[n], NodeId(n, b))' = State(N, NodeId(n, b))
          /\ State(mgr[b], NodeId(b, n))' = State(mgr[b], NodeId(b, n))
      BY <1>8, <1>14 DEF State
    <3>2. \/ SentAs(State(N, NodeId(n, b)), i, s) \/ LearnedAs(State(mgr[b], NodeId(b, n)), i, s)
          \/ InChannel(out[b], i, s)
      BY <1>9, <2>1, <3>1 DEF Means, SentAs, LearnedAs, InChannel, Names
    <3>3. CASE SentAs(State(N, NodeId(n, b)), i, s)
      BY <1>3, <3>3 DEF NumberedState, Means
    <3>4. CASE LearnedAs(State(mgr[b], NodeId(b, n)), i, s)
      BY <3>4 DEF Means
    <3>5. CASE InChannel(out[b], i, s)
      BY <1>4, <3>5
    <3>6. QED
      BY <3>2, <3>3, <3>4, <3>5
  <2>2. ASSUME NEW a \in Members \ {n}, NEW b \in Members, a # b, NEW i, NEW s, Means(a, b, i, s)'
        PROVE  Means(a, b, i, s)
    <3>1. State(mgr[a], NodeId(a, b))' = State(mgr[a], NodeId(a, b))
      BY <1>8, <1>14 DEF State
    <3>2. LearnedAs(State(mgr[b], NodeId(b, a))', i, s) => LearnedAs(State(mgr[b], NodeId(b, a)), i, s)
      <4>1. CASE b = n
        <5>1. State(mgr[b], NodeId(b, a))' = State(N, NodeId(n, a))
          BY <1>8, <1>14, <4>1 DEF State
        <5>2. QED
          BY <1>3, <4>1, <5>1 DEF NumberedState
      <4>2. CASE b # n
        BY <1>8, <1>14, <4>2 DEF State
      <4>3. QED
        BY <4>1, <4>2
    <3>3. chan'[a][b] = chan[a][b]
      BY <1>9
    <3>4. QED
      BY <2>2, <3>1, <3>2, <3>3 DEF Means, SentAs, LearnedAs, InChannel, Names
  <2>3. ASSUME NEW a \in Members \ {n}, NEW b \in Members
        PROVE  State(mgr[a], NodeId(a, b))' = State(mgr[a], NodeId(a, b))
    BY <1>8, <1>14 DEF State
  <2>4. ASSUME NEW b \in Members \ {n}, NEW i, NEW s, Means(n, b, i, s)'
        PROVE  /\ i \in Nat /\ i < State(mgr[n], NodeId(n, b))'.nextId
               /\ \A r : Means(n, b, i, r)' => r = s
    <3> DEFINE st == State(mgr[n], NodeId(n, b))
               new == fresh(NodeId(n, b))
               c == Cardinality(new)
    <3>1. State(mgr[n], NodeId(n, b))'.nextId = st.nextId + c
      <4>1. State(mgr[n], NodeId(n, b))' = State(N, NodeId(n, b))
        BY <1>8, <1>14 DEF State
      <4>2. QED
        BY <1>3, <4>1 DEF NumberedState
    <3>2. /\ st.nextId \in Nat /\ new \subseteq Sessions
          /\ \A j, r : Fresh(st, new, j, r) =>
               /\ j \in Nat /\ j >= st.nextId /\ j < st.nextId + c
               /\ \A t : Fresh(st, new, j, t) => t = r
      BY <1>7 DEF NodeState
    <3>3. c \in Nat
      BY <3>2, FiniteSessions
    <3>4. \A j, r : Means(n, b, j, r) =>
            j \in Nat /\ j < st.nextId /\ \A t : Means(n, b, j, t) => t = r
      BY DEF IInv, NumbersAgree
    <3>5. \A j, r : Means(n, b, j, r)' => Means(n, b, j, r) \/ Fresh(st, new, j, r)
      BY <2>1
    <3> HIDE DEF st, new, c
    <3>6. ASSUME NEW j, NEW r, Means(n, b, j, r)' PROVE j \in Nat /\ j < st.nextId + c
      <4>1. CASE Means(n, b, j, r)
        BY <3>2, <3>3, <3>4, <4>1, SMTT(30)
      <4>2. CASE Fresh(st, new, j, r)
        BY <3>2, <4>2
      <4>3. QED
        BY <3>5, <3>6, <4>1, <4>2
    <3>7. ASSUME NEW r, Means(n, b, i, r)' PROVE r = s
      <4>1. \A t, u : ~(Means(n, b, i, t) /\ Fresh(st, new, i, u))
        BY <3>2, <3>4, SMTT(30)
      <4>2. QED
        BY <2>4, <3>2, <3>4, <3>5, <3>7, <4>1, SMTT(30)
    <3>8. QED
      BY <2>4, <3>1, <3>6, <3>7
  <2>5. ASSUME NEW a \in Members \ {n}, NEW b \in Members, a # b, NEW i, NEW s, Means(a, b, i, s)'
        PROVE  /\ i \in Nat /\ i < State(mgr[a], NodeId(a, b))'.nextId
               /\ \A r : Means(a, b, i, r)' => r = s
    BY <2>2, <2>3, <2>5, SMTT(30) DEF IInv, NumbersAgree
  <2>6. QED
    BY <2>4, <2>5, SMTT(30) DEF NumbersAgree
<1>16. QED
  BY <1>10, <1>12, <1>13, <1>15 DEF IInv
-----------------------------------------------------------------------------
(* The theorems *)

LEMMA InitIInv == Init => IInv
<1> SUFFICES ASSUME Init PROVE IInv
  OBVIOUS
<1>1. NewManager \in Manager /\ DOMAIN NewManager.states = {} /\ DOMAIN NewManager.signed = {}
  BY EmptyMap DEF NewManager, Manager
<1>2. \A n \in Members : mgr[n] = NewManager /\ timeouts[n] = 0
  BY DEF Init
<1>3. Types
  <2>1. mgr \in [Members -> Manager]
    BY <1>1 DEF Init
  <2>2. conn \in [Pairs -> [up : BOOLEAN, lost : 0..MaxLost]]
    BY ParameterAssumption, SMTT(30) DEF Init
  <2>3. chan \in [Members -> [Members -> Seq(Message)]]
    BY SMTT(30) DEF Init
  <2>4. retries \in 0..scenario.retries
    BY ScenariosAssumption, ParameterAssumption, SMTT(30) DEF Init, Scenario
  <2>5. QED
    BY <2>1, <2>2, <2>3, <2>4 DEF Init, Types
<1>4. \A n \in Members : ManagerFits(mgr[n])
  BY <1>1, <1>2 DEF ManagerFits, AskedOnce
<1>5. \A n \in Members : Backed(n, mgr[n], created)
  BY <1>1, <1>2, SMTT(30) DEF Backed, NewManager
<1>6. \A n \in Members : timeouts[n] <= retries
  BY <1>2, SMTT(30) DEF Init
<1>7. \A n, p \in Members : chan[n][p] = <<>> /\ DOMAIN chan[n][p] = {}
  BY SMTT(30) DEF Init
<1>8. Channels
  BY <1>7 DEF Channels
<1>9. NumbersAgree
  <2>1. ASSUME NEW n \in Members, NEW p \in Members, NEW i, NEW s PROVE ~Means(n, p, i, s)
    <3>1. State(mgr[n], NodeId(n, p)) = NewNodeState /\ State(mgr[p], NodeId(p, n)) = NewNodeState
      BY <1>1, <1>2 DEF State
    <3>2. QED
      BY <1>7, <3>1, NewStateSound DEF Means, InChannel
  <2>2. QED
    BY <2>1 DEF NumbersAgree
<1>10. QED
  BY <1>1, <1>2, <1>3, <1>4, <1>5, <1>6, <1>8, <1>9 DEF IInv

LEMMA NextIInv == IInv /\ [Next]_vars => IInv'
<1> SUFFICES ASSUME IInv, [Next]_vars PROVE IInv'
  OBVIOUS
<1>1. CASE UNCHANGED vars
  <2>1. UNCHANGED <<scenario, mgr, voted, created, recovered, conn, chan, timeouts, retries>>
    BY <1>1 DEF vars
  <2>2. Types'
    BY <2>1 DEF IInv, Types
  <2>3. ASSUME NEW x \in Members
        PROVE  /\ ManagerFits(mgr'[x]) /\ Backed(x, mgr'[x], created') /\ timeouts'[x] <= retries'
               /\ \A y \in DOMAIN mgr'[x].states : Known(x, y)'
    BY <2>1 DEF IInv, Known, Linked, AllConnected
  <2>4. Channels'
    BY <2>1, SMTT(30) DEF IInv, Channels, Linked, AllConnected, Carries
  <2>5. \A n, p \in Members : NodeId(n, p)' = NodeId(n, p)
    BY <2>1 DEF NodeId
  <2>6. NumbersAgree'
    <3>1. \A n, p \in Members : State(mgr[n], NodeId(n, p))' = State(mgr[n], NodeId(n, p))
      BY <2>1, <2>5 DEF State
    <3>2. \A n, p \in Members : \A i, s : Means(n, p, i, s)' <=> Means(n, p, i, s)
      BY <2>1, <3>1, SMTT(30) DEF Means, SentAs, LearnedAs, InChannel, Names
    <3>3. QED
      BY <3>1, <3>2, SMTT(30) DEF IInv, NumbersAgree
  <2>7. QED
    BY <2>2, <2>3, <2>4, <2>6 DEF IInv
<1>2. CASE Next
  <2>1. PICK n \in Members :
          \/ Step(n)
          \/ \E s \in Sessions, allowReSign \in BOOLEAN : AsyncSignIfMember(n, s, allowReSign)
          \/ \E s \in Sessions : SessionTimeout(n, s)
          \/ \E p \in Members : Disconnect(n, p)
          \/ \E p \in Members : Reconnect(n, p)
    BY <1>2 DEF Next
  <2>2. CASE Step(n)
    BY <2>2, SignStep, MessageStep, PendingStep, VerifiedStep, RecoveredStep, SendMessagesStep,
       RequestTimeoutStep, CleanupStep DEF Step
  <2>3. QED
    BY <2>1, <2>2, AsyncSignStep, SessionTimeoutStep, DisconnectStep, ReconnectStep
<1>3. QED
  BY <1>1, <1>2

\* The invariant on which the results rest: in every reachable state the maps of every
\* CSigSharesManager fit together, and a session number stands for one session in the
\* node that gave it, in the messages under way and in the node that learned it.
THEOREM Inductive == Spec => []IInv
BY InitIInv, NextIInv, PTL DEF Spec

\* For every set of members, sessions and scenarios the maps of a CSigSharesManager hold
\* only sessions, shares and nodes that exist.
THEOREM TypeCorrect == Spec => []TypeOK
<1>1. IInv => TypeOK
  <2> SUFFICES ASSUME IInv PROVE TypeOK
    OBVIOUS
  <2>1. ASSUME NEW n \in Members
        PROVE  /\ mgr[n].pendingSigns \subseteq Sessions
               /\ mgr[n].sigShares \cup mgr[n].queued \cup DOMAIN mgr[n].asked \subseteq Key
               /\ mgr[n].signed \in [DOMAIN mgr[n].signed -> 0..RecoveryMembers]
    <3> DEFINE M == mgr[n]
    <3>1. M \in Manager
      BY ManagerType
    <3> HIDE DEF M
    <3>2. /\ M.pendingSigns \subseteq Sessions /\ M.sigShares \subseteq Key /\ M.queued \subseteq Key
          /\ M.asked \in Map(Key, [node : Members \X Nat, old : BOOLEAN])
          /\ M.signed \in Map(Sessions, 0..RecoveryMembers)
      BY <3>1 DEF Manager
    <3>3. DOMAIN M.asked \subseteq Key
      BY <3>2, MapProperty
    <3>4. M.signed \in [DOMAIN M.signed -> 0..RecoveryMembers]
      BY <3>2, MapProperty
    <3>5. QED
      BY <3>2, <3>3, <3>4 DEF M
  <2>2. ASSUME NEW n \in Members, NEW id \in DOMAIN mgr[n].states
        PROVE  /\ id \in (Members \ {n}) \X (0..MaxLost)
               /\ DOMAIN mgr[n].states[id].sessions \subseteq Sessions
    <3>1. id \in (Members \ {n}) \X (0..MaxLost)
      BY KnownLost
    <3>2. mgr[n].states[id] \in NodeState
      BY ManagerType DEF Sound
    <3>3. QED
      BY <3>1, <3>2, MapProperty, SMTT(30) DEF NodeState
  <2>3. QED
    BY <2>1, <2>2 DEF IInv, Types, TypeOK
<1>2. QED
  BY <1>1, Inductive, PTL

\* Announcements that renumber a session (GetOrCreateSessionFromAnn), RemoveSession and
\* reconnects never leave sessionByRecvId with a number of a session that is gone or has
\* another number.
THEOREM NumbersResolve == Spec => []RecvIdsResolve
<1>1. IInv => RecvIdsResolve
  BY DEF IInv, ManagerFits, Sound, RecvIdsResolve
<1>2. QED
  BY <1>1, Inductive, PTL

\* CollectSigSharesToRequest asks one node at a time for a share, whatever was timed out,
\* answered, removed or lost since the last request.
THEOREM RequestedOnce == Spec => []OneRequestAtATime
<1>1. IInv => OneRequestAtATime
  BY DEF IInv, ManagerFits, AskedOnce, OneRequestAtATime
<1>2. QED
  BY <1>1, Inductive, PTL

\* ProcessMessageBatchedSigShares never takes a batch of a member that follows the protocol
\* for one of another session, so that no check of PreVerifyBatchedSigShares bans it.
THEOREM MembersNotBanned == Spec => []NobodyBanned
<1>1. IInv => NobodyBanned
  BY DEF IInv, ManagerFits, Sound, NobodyBanned
<1>2. QED
  BY <1>1, Inductive, PTL
=============================================================================
