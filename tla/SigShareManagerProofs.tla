----------------------- MODULE SigShareManagerProofs -----------------------
(***************************************************************************)
(* Proofs about SigShareExchange, first part: the inductive invariant, by  *)
(* which a session number means the same on both sides of a connection,    *)
(* and the steps that only receive, verify, time out or lose something.    *)
(***************************************************************************)
EXTENDS SigShareExchange, TLAPS

\* The prover of all steps that name no other.
USE ZenonT(20)

(* Maps *)

\* The maps from keys in D to values in R.
Map(D, R) == UNION {[E -> R] : E \in SUBSET D}

LEMMA MapProperty ==
  ASSUME NEW D, NEW R, NEW f
  PROVE  f \in Map(D, R) <=> DOMAIN f \subseteq D /\ f \in [DOMAIN f -> R]
<1>1. ASSUME f \in Map(D, R) PROVE DOMAIN f \subseteq D /\ f \in [DOMAIN f -> R]
  BY <1>1 DEF Map
<1>2. ASSUME DOMAIN f \subseteq D, f \in [DOMAIN f -> R] PROVE f \in Map(D, R)
  BY <1>2 DEF Map
<1>3. QED
  BY <1>1, <1>2

LEMMA EmptyMap == \A D, R : <<>> \in Map(D, R) /\ DOMAIN <<>> = {}
<1>1. ASSUME NEW D, NEW R PROVE <<>> \in Map(D, R)
  <2>1. <<>> \in [{} -> R]
    BY SMTT(30)
  <2>2. QED
    BY <2>1 DEF Map
<1>2. QED
  BY <1>1, SMTT(30)

LEMMA PutType ==
  ASSUME NEW D, NEW R, NEW f \in Map(D, R), NEW k \in D, NEW v \in R
  PROVE  Put(f, k, v) \in Map(D, R)
<1>1. DOMAIN f \subseteq D /\ f \in [DOMAIN f -> R]
  BY MapProperty
<1>2. Put(f, k, v) \in [DOMAIN f \cup {k} -> R] /\ DOMAIN Put(f, k, v) = DOMAIN f \cup {k}
  BY <1>1 DEF Put
<1>3. QED
  BY <1>1, <1>2, MapProperty, SMTT(30)

LEMMA OverrideType ==
  ASSUME NEW D, NEW R, NEW f \in Map(D, R), NEW g \in Map(D, R)
  PROVE  Override(f, g) \in Map(D, R)
<1>1. DOMAIN f \subseteq D /\ f \in [DOMAIN f -> R] /\ DOMAIN g \subseteq D /\ g \in [DOMAIN g -> R]
  BY MapProperty
<1>2. /\ Override(f, g) \in [DOMAIN f \cup DOMAIN g -> R]
      /\ DOMAIN Override(f, g) = DOMAIN f \cup DOMAIN g
  BY <1>1 DEF Override
<1>3. QED
  BY <1>1, <1>2, MapProperty

LEMMA RestrictType ==
  ASSUME NEW D, NEW R, NEW f \in Map(D, R), NEW E, E \subseteq DOMAIN f
  PROVE  Restrict(f, E) \in Map(D, R)
<1>1. DOMAIN f \subseteq D /\ f \in [DOMAIN f -> R]
  BY MapProperty
<1>2. Restrict(f, E) \in [E -> R] /\ DOMAIN Restrict(f, E) = E
  BY <1>1 DEF Restrict
<1>3. QED
  BY <1>1, <1>2, MapProperty

LEMMA WithoutType ==
  ASSUME NEW D, NEW R, NEW f \in Map(D, R), NEW K
  PROVE  Without(f, K) \in Map(D, R)
<1>1. DOMAIN f \ K \subseteq DOMAIN f
  OBVIOUS
<1>2. QED
  BY <1>1, RestrictType DEF Without

LEMMA WithoutSessionsType ==
  ASSUME NEW D, NEW R, NEW f \in Map(D, R), NEW S
  PROVE  WithoutSessions(f, S) \in Map(D, R)
<1> DEFINE E == {k \in DOMAIN f : k[1] \notin S}
<1>1. E \subseteq DOMAIN f /\ WithoutSessions(f, S) = Restrict(f, E)
  BY DEF WithoutSessions
<1> HIDE DEF E
<1>2. QED
  BY <1>1, RestrictType

-----------------------------------------------------------------------------
(* The state that a manager keeps for a node *)

SessionRec == [recvId : Nat, sendId : Nat, announced : SUBSET Members, requested : SUBSET Members,
               knows : SUBSET Members]
NodeState == [sessions : Map(Sessions, SessionRec), byRecvId : Map(Nat, Sessions), nextId : Nat \ {0},
              pending : Map(Key, BOOLEAN), requested : Map(Key, BOOLEAN), banned : BOOLEAN]

\* Number i stands for session s: as the manager sends it, as it learned it, and in messages
\* under way.
SentAs(st, i, s) == i # NoId /\ s \in DOMAIN st.sessions /\ st.sessions[s].sendId = i
LearnedAs(st, i, s) == i \in DOMAIN st.byRecvId /\ st.byRecvId[i] = s

\* What is to hold of every node's state: numbers resolve, no share is invalid, nobody is banned.
Sound(st) ==
  /\ st \in NodeState /\ ~st.banned
  /\ \A i \in DOMAIN st.byRecvId :
       st.byRecvId[i] \in DOMAIN st.sessions /\ st.sessions[st.byRecvId[i]].recvId = i
  /\ \A k \in DOMAIN st.pending : st.pending[k]

\* A change after which numbers stand for the same sessions as before, or for nothing.
Follows(new, old) ==
  /\ Sound(new) /\ new.nextId >= old.nextId
  /\ \A i, s : SentAs(new, i, s) => SentAs(old, i, s)
  /\ \A i, s : LearnedAs(new, i, s) => LearnedAs(old, i, s)

\* f is g with some keys erased.
Shrunk(f, g) == DOMAIN f \subseteq DOMAIN g /\ \A x \in DOMAIN f : f[x] = g[x]

\* Such a change in which shares of the set keys become pending and requests are only erased.
Changes(new, old, keys) ==
  /\ Follows(new, old) /\ Shrunk(new.requested, old.requested)
  /\ DOMAIN new.pending \subseteq DOMAIN old.pending \cup keys

LEMMA FollowsReflexive == \A st : Sound(st) => Follows(st, st)
BY SMTT(30) DEF Follows, Sound, NodeState

LEMMA FollowsTransitive ==
  ASSUME NEW a, NEW b, NEW c, Sound(c), Follows(a, b), Follows(b, c)
  PROVE  Follows(a, c)
<1>1. a.nextId \in Nat /\ b.nextId \in Nat /\ c.nextId \in Nat
  BY DEF Follows, Sound, NodeState
<1>2. c.nextId <= b.nextId /\ b.nextId <= a.nextId
  BY DEF Follows
<1>3. a.nextId >= c.nextId
  BY <1>1, <1>2, SMTT(30)
<1>4. QED
  BY <1>3 DEF Follows

LEMMA NewStateSound ==
  Sound(NewNodeState) /\ \A i, s : ~SentAs(NewNodeState, i, s) /\ ~LearnedAs(NewNodeState, i, s)
<1>1. NewNodeState \in NodeState
  BY EmptyMap, SMTT(30) DEF NewNodeState, NodeState
<1>2. QED
  BY <1>1, EmptyMap DEF NewNodeState, Sound, SentAs, LearnedAs

LEMMA SessionType ==
  ASSUME NEW st \in NodeState, NEW s
  PROVE  Session(st, s) \in SessionRec
<1>1. NewSession \in SessionRec
  BY DEF NewSession, SessionRec, NoId
<1>2. DOMAIN st.sessions \subseteq Sessions /\ st.sessions \in [DOMAIN st.sessions -> SessionRec]
  BY MapProperty DEF NodeState
<1>3. QED
  BY <1>1, <1>2 DEF Session

\* A session changes, but neither the number it was announced with nor, to another one, the one
\* it is sent with.
LEMMA SessionChange ==
  ASSUME NEW st, Sound(st), NEW s \in Sessions, NEW new \in SessionRec,
         new.recvId = Session(st, s).recvId, new.sendId \in {NoId, Session(st, s).sendId}
  PROVE  Changes(WithSession(st, s, new), st, {})
<1> DEFINE old == st.sessions
           f == Put(old, s, new)
           r == [st EXCEPT !.sessions = f]
<1>1. WithSession(st, s, new) = r
  BY DEF WithSession
<1>2. st \in NodeState /\ st.sessions \in Map(Sessions, SessionRec)
  BY DEF Sound, NodeState
<1>3. /\ f \in Map(Sessions, SessionRec) /\ DOMAIN f = DOMAIN old \cup {s} /\ f[s] = new
      /\ \A x \in DOMAIN old : x # s => f[x] = old[x]
  <2> old \in Map(Sessions, SessionRec)
    BY <1>2
  <2> HIDE DEF old, r
  <2>1. DOMAIN f = DOMAIN old \cup {s} /\ f[s] = new
    BY DEF Put
  <2>2. \A x \in DOMAIN old : x # s => f[x] = old[x]
    BY DEF Put
  <2>3. f \in Map(Sessions, SessionRec)
    BY PutType
  <2> QED
    BY <2>1, <2>2, <2>3
<1> HIDE DEF f
<1>4. /\ r \in NodeState /\ r.sessions = f /\ r.byRecvId = st.byRecvId /\ r.nextId = st.nextId
      /\ r.banned = st.banned /\ r.pending = st.pending /\ r.requested = st.requested
  BY <1>2, <1>3 DEF NodeState
<1> HIDE DEF r
<1>5. s \in DOMAIN st.sessions => Session(st, s) = st.sessions[s]
  BY DEF Session
<1>6. s \notin DOMAIN st.sessions => new.sendId = NoId
  BY DEF Session, NewSession
<1>7. Sound(r)
  <2>1. ASSUME NEW i \in DOMAIN r.byRecvId
        PROVE  r.byRecvId[i] \in DOMAIN r.sessions /\ r.sessions[r.byRecvId[i]].recvId = i
    <3>1. st.byRecvId[i] \in DOMAIN st.sessions /\ st.sessions[st.byRecvId[i]].recvId = i
      BY <1>4, <2>1 DEF Sound
    <3>2. QED
      BY <1>3, <1>4, <1>5, <3>1
  <2>2. QED
    BY <1>4, <2>1 DEF Sound
<1>8. ASSUME NEW i, NEW x, SentAs(r, i, x) PROVE SentAs(st, i, x)
  BY <1>3, <1>4, <1>5, <1>6, <1>8 DEF SentAs
<1>9. \A i, x : LearnedAs(r, i, x) => LearnedAs(st, i, x)
  BY <1>4 DEF LearnedAs
<1>10. r.nextId >= st.nextId
  BY <1>2, <1>4, SMTT(30) DEF NodeState
<1>11. Follows(r, st)
  BY <1>7, <1>8, <1>9, <1>10 DEF Follows
<1>12. QED
  BY <1>1, <1>4, <1>11 DEF Changes, Shrunk
LEMMA ReAnnouncedChange ==
  ASSUME NEW st, Sound(st), NEW s \in Sessions
  PROVE  Changes(ReAnnounced(st, s), st, {})
<1>1. CASE s \notin DOMAIN st.sessions
  BY <1>1, FollowsReflexive DEF ReAnnounced, Changes, Shrunk
<1>2. CASE s \in DOMAIN st.sessions
  <2> DEFINE old == st.sessions[s]
             new == [old EXCEPT !.knows = {}, !.sendId = NoId]
  <2>1. old \in SessionRec /\ old = Session(st, s)
    BY <1>2, SessionType DEF Sound, Session
  <2> HIDE DEF old
  <2>2. new \in SessionRec /\ new.recvId = old.recvId /\ new.sendId = NoId
    BY <2>1 DEF SessionRec, NoId
  <2>3. ReAnnounced(st, s) = WithSession(st, s, new)
    BY <1>2 DEF ReAnnounced, old
  <2> HIDE DEF new
  <2>4. QED
    BY <2>1, <2>2, <2>3, SessionChange
<1>3. QED
  BY <1>1, <1>2

LEMMA PushedChange ==
  ASSUME NEW st, Sound(st), NEW s \in Sessions, NEW n \in Members
  PROVE  Changes(Pushed(n, st, s), st, {})
<1> DEFINE old == Session(st, s)
           new == [old EXCEPT !.requested = @ \cup {n}, !.knows = @ \cup {n}]
<1>1. old \in SessionRec
  BY SessionType DEF Sound
<1>2. Pushed(n, st, s) = WithSession(st, s, new)
  BY DEF Pushed
<1>3. new \in SessionRec /\ new.recvId = old.recvId /\ new.sendId = old.sendId
  <2> HIDE DEF old
  <2> QED
    BY <1>1 DEF SessionRec
<1> HIDE DEF new
<1>4. QED
  BY <1>2, <1>3, SessionChange

LEMMA RemoveSessionChange ==
  ASSUME NEW st, Sound(st), NEW S
  PROVE  Changes(RemoveSession(st, S), st, {})
         /\ \A k \in DOMAIN RemoveSession(st, S).requested : k[1] \notin S
<1> DEFINE gone == {st.sessions[s].recvId : s \in S \cap DOMAIN st.sessions}
           byId == Without(st.byRecvId, gone)
           left == Without(st.sessions, S)
           req == WithoutSessions(st.requested, S)
           pend == WithoutSessions(st.pending, S)
           r == [st EXCEPT !.byRecvId = byId, !.sessions = left, !.requested = req, !.pending = pend]
<1>1. RemoveSession(st, S) = r
  BY DEF RemoveSession
<1>2. /\ st \in NodeState /\ st.sessions \in Map(Sessions, SessionRec) /\ st.nextId \in Nat
      /\ st.byRecvId \in Map(Nat, Sessions)
      /\ st.pending \in Map(Key, BOOLEAN) /\ st.requested \in Map(Key, BOOLEAN)
  BY DEF Sound, NodeState
<1>3. /\ byId \in Map(Nat, Sessions) /\ DOMAIN byId = DOMAIN st.byRecvId \ gone
      /\ \A i \in DOMAIN byId : byId[i] = st.byRecvId[i]
  <2> HIDE DEF gone, r
  <2>1. byId \in Map(Nat, Sessions)
    BY <1>2, WithoutType
  <2>2. QED
    BY <2>1 DEF Without, Restrict
<1>4. /\ left \in Map(Sessions, SessionRec) /\ DOMAIN left = DOMAIN st.sessions \ S
      /\ \A x \in DOMAIN left : left[x] = st.sessions[x]
  BY <1>2, WithoutType DEF Without, Restrict
<1>5. /\ req \in Map(Key, BOOLEAN) /\ DOMAIN req = {k \in DOMAIN st.requested : k[1] \notin S}
      /\ Shrunk(req, st.requested)
  BY <1>2, WithoutSessionsType DEF Shrunk, WithoutSessions, Restrict
<1>6. pend \in Map(Key, BOOLEAN) /\ Shrunk(pend, st.pending)
  BY <1>2, WithoutSessionsType DEF Shrunk, WithoutSessions, Restrict
<1> HIDE DEF byId, left, req, pend
<1>7. /\ r \in NodeState /\ r.sessions = left /\ r.byRecvId = byId /\ r.nextId = st.nextId
      /\ r.banned = st.banned /\ r.pending = pend /\ r.requested = req
  BY <1>2, <1>3, <1>4, <1>5, <1>6 DEF NodeState
<1> HIDE DEF r
<1>8. ASSUME NEW i \in DOMAIN byId
      PROVE  byId[i] \in DOMAIN left /\ left[byId[i]].recvId = i
  <2>1. st.byRecvId[i] \in DOMAIN st.sessions /\ st.sessions[st.byRecvId[i]].recvId = i /\ i \notin gone
    BY <1>3, <1>8 DEF Sound
  <2>2. st.byRecvId[i] \notin S
    BY <2>1
  <2>3. QED
    BY <1>3, <1>4, <1>8, <2>1, <2>2
<1>9. Sound(r)
  BY <1>6, <1>7, <1>8 DEF Sound, Shrunk
<1>10. \A i, x : SentAs(r, i, x) => SentAs(st, i, x)
  BY <1>4, <1>7 DEF SentAs
<1>11. \A i, x : LearnedAs(r, i, x) => LearnedAs(st, i, x)
  BY <1>3, <1>7 DEF LearnedAs
<1>12. Follows(r, st)
  BY <1>2, <1>7, <1>9, <1>10, <1>11, SMTT(30) DEF Follows
<1>13. QED
  BY <1>1, <1>5, <1>6, <1>7, <1>12 DEF Changes, Shrunk
LEMMA InvChange ==
  ASSUME NEW st, Sound(st), NEW n, NEW m, m.members \subseteq Members
  PROVE  Changes(ProcessMessageSigSharesInv(n, st, m), st, {})
<1>1. CASE ~Resolves(n, st, m)
  BY <1>1, FollowsReflexive DEF ProcessMessageSigSharesInv, Changes, Shrunk
<1>2. CASE Resolves(n, st, m)
  <2> DEFINE s == st.byRecvId[m.id]
             old == st.sessions[s]
             new == [old EXCEPT !.announced = @ \cup m.members, !.knows = @ \cup m.members]
  <2>1. s \in DOMAIN st.sessions
    BY <1>2 DEF Resolves, Sound
  <2>2. s \in Sessions
    BY <2>1, MapProperty, SMTT(30) DEF Sound, NodeState
  <2>3. ProcessMessageSigSharesInv(n, st, m) = WithSession(st, s, new)
    BY <1>2 DEF ProcessMessageSigSharesInv
  <2> HIDE DEF s
  <2>4. old \in SessionRec /\ old = Session(st, s)
    BY <2>1, SessionType DEF Sound, Session
  <2> HIDE DEF old
  <2>5. new \in SessionRec /\ new.recvId = old.recvId /\ new.sendId = old.sendId
    BY <2>4 DEF SessionRec
  <2> HIDE DEF new
  <2>6. QED
    BY <2>2, <2>3, <2>4, <2>5, SessionChange
<1>3. QED
  BY <1>1, <1>2

LEMMA GetChange ==
  ASSUME NEW st, Sound(st), NEW n, NEW m, m.members \subseteq Members
  PROVE  Changes(ProcessMessageGetSigShares(n, st, m), st, {})
<1>1. CASE ~Resolves(n, st, m)
  BY <1>1, FollowsReflexive DEF ProcessMessageGetSigShares, Changes, Shrunk
<1>2. CASE Resolves(n, st, m)
  <2> DEFINE s == st.byRecvId[m.id]
             old == st.sessions[s]
             new == [old EXCEPT !.requested = @ \cup m.members, !.knows = @ \cup m.members]
  <2>1. s \in DOMAIN st.sessions
    BY <1>2 DEF Resolves, Sound
  <2>2. s \in Sessions
    BY <2>1, MapProperty, SMTT(30) DEF Sound, NodeState
  <2>3. ProcessMessageGetSigShares(n, st, m) = WithSession(st, s, new)
    BY <1>2 DEF ProcessMessageGetSigShares
  <2> HIDE DEF s
  <2>4. old \in SessionRec /\ old = Session(st, s)
    BY <2>1, SessionType DEF Sound, Session
  <2> HIDE DEF old
  <2>5. new \in SessionRec /\ new.recvId = old.recvId /\ new.sendId = old.sendId
    BY <2>4 DEF SessionRec
  <2> HIDE DEF new
  <2>6. QED
    BY <2>2, <2>3, <2>4, <2>5, SessionChange
<1>3. QED
  BY <1>1, <1>2

\* A state of which only requests, erased, and pending shares, all valid, differ.
WithShares(st, req, pend) == [st EXCEPT !.requested = req, !.pending = pend]
LEMMA PendingChange ==
  ASSUME NEW st, Sound(st), NEW keys,
         NEW req \in Map(Key, BOOLEAN), Shrunk(req, st.requested),
         NEW pend \in Map(Key, BOOLEAN), DOMAIN pend \subseteq DOMAIN st.pending \cup keys,
         \A k \in DOMAIN pend : pend[k]
  PROVE  Changes(WithShares(st, req, pend), st, keys)
<1> DEFINE r == WithShares(st, req, pend)
<1>1. st \in NodeState /\ st.nextId \in Nat
  BY DEF Sound, NodeState
<1>2. /\ r \in NodeState /\ r.sessions = st.sessions /\ r.byRecvId = st.byRecvId /\ r.nextId = st.nextId
      /\ r.banned = st.banned /\ r.pending = pend /\ r.requested = req
  BY <1>1 DEF NodeState, WithShares
<1> HIDE DEF r
<1>3. Sound(r)
  BY <1>2 DEF Sound
<1>4. Follows(r, st)
  BY <1>1, <1>2, <1>3, SMTT(30) DEF Follows, SentAs, LearnedAs
<1>5. Changes(r, st, keys)
  BY <1>2, <1>4 DEF Changes
<1>6. QED
  BY <1>5 DEF r

\* A batch of shares of the session that its number stands for.
LEMMA BatchChange ==
  ASSUME NEW st, Sound(st), NEW n, NEW m, m.shares \subseteq Key,
         \A k \in m.shares : \A i : m.id = i /\ i \in DOMAIN st.byRecvId => k[1] = st.byRecvId[i]
  PROVE  Changes(ProcessMessageBatchedSigShares(n, st, m), st, m.shares)
<1>1. CASE m.id \notin DOMAIN st.byRecvId
  BY <1>1, FollowsReflexive DEF ProcessMessageBatchedSigShares, Changes, Shrunk
<1>2. CASE m.id \in DOMAIN st.byRecvId
  <2> DEFINE s == st.byRecvId[m.id]
             keys == {<<s, k[2]>> : k \in m.shares}
             new == {k \in keys : k \notin mgr[n].sigShares /\ ~HasRecoveredSigForId(n, s)}
             f == [k \in new |-> k \in m.shares]
             req == Without(st.requested, keys)
             pend == Override(st.pending, f)
  <2>1. ProcessMessageBatchedSigShares(n, st, m) = WithShares(st, req, pend)
    BY <1>2 DEF ProcessMessageBatchedSigShares, WithShares
  <2>2. \A k \in m.shares : k \in Key /\ k = <<s, k[2]>>
    BY <1>2, SMTT(30) DEF Key
  <2> HIDE DEF s
  <2>3. new \subseteq m.shares
    BY <2>2
  <2> HIDE DEF keys, new
  <2>4. f \in Map(Key, BOOLEAN) /\ \A k \in DOMAIN f : f[k]
    <3>1. f \in [DOMAIN f -> BOOLEAN] /\ DOMAIN f = new
      BY SMTT(30)
    <3>2. \A k \in new : f[k]
      BY <2>3
    <3> HIDE DEF f
    <3>3. QED
      BY <2>3, <3>1, <3>2, MapProperty
  <2>5. DOMAIN f = new
    OBVIOUS
  <2> HIDE DEF f
  <2>6. st.requested \in Map(Key, BOOLEAN) /\ st.pending \in Map(Key, BOOLEAN)
    BY DEF Sound, NodeState
  <2>7. req \in Map(Key, BOOLEAN)
    BY <2>6, WithoutType
  <2>8. Shrunk(req, st.requested)
    BY DEF Shrunk, Without, Restrict
  <2>9. pend \in Map(Key, BOOLEAN)
    BY <2>4, <2>6, OverrideType
  <2>10. DOMAIN pend \subseteq DOMAIN st.pending \cup m.shares
    BY <2>3, <2>5 DEF Override
  <2>11. \A k \in DOMAIN pend : pend[k]
    BY <2>4 DEF Override, Sound
  <2> HIDE DEF req, pend
  <2>12. QED
    BY <2>1, <2>7, <2>8, <2>9, <2>10, <2>11, PendingChange, SMTT(30)
<1>3. QED
  BY <1>1, <1>2
LEMMA ShareChange ==
  ASSUME NEW st, Sound(st), NEW n, NEW m, m.share \in Key
  PROVE  Changes(ProcessMessageSigShare(n, st, m), st, {m.share})
<1>1. CASE m.share \in mgr[n].sigShares \/ HasRecoveredSigForId(n, m.share[1])
  BY <1>1, FollowsReflexive DEF ProcessMessageSigShare, Changes, Shrunk
<1>2. CASE ~(m.share \in mgr[n].sigShares \/ HasRecoveredSigForId(n, m.share[1]))
  <2> DEFINE k == m.share
             pend == Put(st.pending, k, TRUE)
  <2>1. st \in NodeState /\ st.requested \in Map(Key, BOOLEAN) /\ st.pending \in Map(Key, BOOLEAN)
    BY DEF Sound, NodeState
  <2>2. ProcessMessageSigShare(n, st, m) = WithShares(st, st.requested, pend)
    <3> HIDE DEF pend
    <3> [st EXCEPT !.pending = pend] = [st EXCEPT !.requested = st.requested, !.pending = pend]
      BY <2>1 DEF NodeState
    <3> QED
      BY <1>2 DEF ProcessMessageSigShare, WithShares, pend
  <2>3. k \in Key
    OBVIOUS
  <2> HIDE DEF k
  <2>4. pend \in Map(Key, BOOLEAN)
    BY <2>1, <2>3, PutType
  <2>5. DOMAIN pend \subseteq DOMAIN st.pending \cup {k} /\ \A x \in DOMAIN pend : pend[x]
    BY DEF Put, Sound
  <2>6. Shrunk(st.requested, st.requested)
    BY DEF Shrunk
  <2> HIDE DEF pend
  <2>7. Changes(WithShares(st, st.requested, pend), st, {k})
    BY <2>1, <2>4, <2>5, <2>6, PendingChange
  <2>8. QED
    BY <2>2, <2>7 DEF k
<1>3. QED
  BY <1>1, <1>2

LEMMA ClearedChange ==
  ASSUME NEW st, Sound(st)
  PROVE  Changes([st EXCEPT !.pending = <<>>], st, {})
<1>1. st \in NodeState /\ st.requested \in Map(Key, BOOLEAN)
  BY DEF Sound, NodeState
<1> DEFINE none == <<>>
<1>2. none \in Map(Key, BOOLEAN) /\ DOMAIN none = {}
  BY EmptyMap
<1> HIDE DEF none
<1>3. [st EXCEPT !.pending = none] = WithShares(st, st.requested, none)
  BY <1>1 DEF NodeState, WithShares
<1>4. Shrunk(st.requested, st.requested)
  BY DEF Shrunk
<1>5. Changes(WithShares(st, st.requested, none), st, {})
  BY <1>1, <1>2, <1>4, PendingChange
<1>6. QED
  BY <1>3, <1>5 DEF none

\* An announcement gives a number a meaning.
LEMMA SesAnnChange ==
  ASSUME NEW st, Sound(st), NEW n, NEW m, m.id \in Nat, m.session \in Sessions
  PROVE  LET new == ProcessMessageSigSesAnn(n, st, m) IN
         /\ Sound(new) /\ new.nextId = st.nextId
         /\ new.requested = st.requested /\ new.pending = st.pending
         /\ \A i, s : SentAs(new, i, s) => SentAs(st, i, s)
         /\ \A i, s : LearnedAs(new, i, s) => LearnedAs(st, i, s) \/ (i = m.id /\ s = m.session)
<1> DEFINE id == m.id
           s == m.session
           old == Session(st, s)
           session == [old EXCEPT !.recvId = id]
           others == Without(st.byRecvId, {old.recvId})
           byId == Put(others, id, s)
           before == st.sessions
           after == Put(before, s, session)
           r == [st EXCEPT !.sessions = after, !.byRecvId = byId]
<1>1. st \in NodeState /\ st.byRecvId \in Map(Nat, Sessions) /\ before \in Map(Sessions, SessionRec)
  BY DEF Sound, NodeState
<1>2. ProcessMessageSigSesAnn(n, st, m) = r
  <2> HIDE DEF after, byId
  <2>1. [[st EXCEPT !.sessions = after] EXCEPT !.byRecvId = byId] = r
    BY <1>1 DEF NodeState
  <2>2. QED
    BY <2>1 DEF ProcessMessageSigSesAnn, WithSession, after, byId
<1>3. id \in Nat /\ s \in Sessions
  OBVIOUS
<1> HIDE DEF id, s
<1>4. old \in SessionRec
  BY SessionType DEF Sound
<1>5. s \in DOMAIN before => old = before[s]
  BY DEF Session
<1>6. s \notin DOMAIN before => old.sendId = NoId
  BY DEF Session, NewSession
<1> HIDE DEF old
<1>7. session \in SessionRec /\ session.recvId = id /\ session.sendId = old.sendId
  BY <1>3, <1>4 DEF SessionRec
<1> HIDE DEF session
<1>8. /\ others \in Map(Nat, Sessions) /\ DOMAIN others = DOMAIN st.byRecvId \ {old.recvId}
      /\ \A i \in DOMAIN others : others[i] = st.byRecvId[i]
  <2> HIDE DEF r
  <2>1. others \in Map(Nat, Sessions)
    BY <1>1, WithoutType
  <2>2. QED
    BY <2>1 DEF Without, Restrict
<1> HIDE DEF others
<1>9. byId \in Map(Nat, Sessions)
  BY <1>3, <1>8, PutType
<1>10. /\ DOMAIN byId = DOMAIN others \cup {id} /\ byId[id] = s
       /\ \A i \in DOMAIN others : i # id => byId[i] = others[i]
  BY DEF Put
<1> HIDE DEF byId
<1>11. after \in Map(Sessions, SessionRec)
  <2> HIDE DEF before
  <2> QED
    BY <1>1, <1>3, <1>7, PutType
<1>12. /\ DOMAIN after = DOMAIN before \cup {s} /\ after[s] = session
       /\ \A x \in DOMAIN before : x # s => after[x] = before[x]
  BY DEF Put
<1> HIDE DEF after
<1>13. /\ r \in NodeState /\ r.sessions = after /\ r.byRecvId = byId /\ r.nextId = st.nextId
       /\ r.banned = st.banned /\ r.pending = st.pending /\ r.requested = st.requested
  BY <1>1, <1>9, <1>11 DEF NodeState
<1> HIDE DEF r
<1>14. ASSUME NEW i \in DOMAIN byId
       PROVE  byId[i] \in DOMAIN after /\ after[byId[i]].recvId = i
  <2>1. CASE i = id
    BY <1>7, <1>10, <1>12, <2>1
  <2>2. CASE i # id
    <3>1. i \in DOMAIN others /\ byId[i] = st.byRecvId[i] /\ i # old.recvId
      BY <1>8, <1>10, <1>14, <2>2
    <3>2. st.byRecvId[i] \in DOMAIN before /\ before[st.byRecvId[i]].recvId = i
      BY <1>8, <3>1 DEF Sound
    <3>3. st.byRecvId[i] # s
      BY <1>5, <3>1, <3>2
    <3>4. QED
      BY <1>12, <3>1, <3>2, <3>3
  <2>3. QED
    BY <2>1, <2>2
<1>15. Sound(r)
  BY <1>13, <1>14 DEF Sound
<1>16. ASSUME NEW i, NEW x, SentAs(r, i, x) PROVE SentAs(st, i, x)
  BY <1>5, <1>6, <1>7, <1>12, <1>13, <1>16 DEF SentAs
<1>17. ASSUME NEW i, NEW x, LearnedAs(r, i, x) PROVE LearnedAs(st, i, x) \/ (i = id /\ x = s)
  BY <1>8, <1>10, <1>13, <1>17 DEF LearnedAs
<1>18. QED
  BY <1>2, <1>13, <1>15, <1>16, <1>17 DEF id, s
-----------------------------------------------------------------------------
(* The inductive invariant *)

Message ==
  [type : {"QSIGSESANN"}, id : Nat, session : Sessions]
  \cup [type : {"QSIGSHARESINV", "QGETSIGSHARES"}, id : Nat, members : SUBSET Members]
  \cup [type : {"QBSIGSHARES"}, id : Nat, shares : SUBSET Key]
  \cup [type : {"QSIGSHARE"}, share : Key]

Manager == [pendingSigns : SUBSET Sessions, verified : SUBSET Key, sigShares : SUBSET Key,
            queued : SUBSET Key, signed : Map(Sessions, 0..RecoveryMembers),
            states : Map(Members \X Nat, NodeState),
            asked : Map(Key, [node : Members \X Nat, old : BOOLEAN])]

\* A request that did not time out is the one that the manager remembers, and the one that it
\* remembers, unless that timed out, is the only one for the share.
AskedOnce(M) ==
  \A id \in DOMAIN M.states : \A k \in DOMAIN M.states[id].requested :
    /\ ~M.states[id].requested[k] => k \in DOMAIN M.asked /\ M.asked[k] = [node |-> id, old |-> FALSE]
    /\ k \in DOMAIN M.asked /\ ~M.asked[k].old => M.asked[k].node = id

ManagerFits(M) ==
  M \in Manager /\ AskedOnce(M) /\ \A id \in DOMAIN M.states : Sound(M.states[id])

\* A node id that n has a state for is that of the connection it has now or of an earlier one.
Known(n, id) ==
  /\ id[1] \in Members \ {n} /\ id[2] <= conn[{n, id[1]}].lost
  /\ id[2] = conn[{n, id[1]}].lost => Linked(n, id[1])

\* All shares that n has, is about to verify or sends are in the set C of those that were created.
Backed(n, M, C) ==
  /\ M.sigShares \cup M.verified \subseteq C
  /\ \A s \in DOMAIN M.signed : <<s, n>> \in C
  /\ \A id \in DOMAIN M.states : DOMAIN M.states[id].pending \subseteq C

\* Message m uses number i for session s; it carries share k.
Names(m, i, s) ==
  \/ m.type = "QSIGSESANN" /\ m.id = i /\ m.session = s
  \/ m.type = "QBSIGSHARES" /\ m.id = i /\ \E k \in m.shares : k[1] = s
Carries(m, k) ==
  \/ m.type = "QSIGSHARE" /\ m.share = k
  \/ m.type = "QBSIGSHARES" /\ k \in m.shares

InChannel(q, i, s) == \E j \in DOMAIN q : Names(q[j], i, s)

\* Number i stands for session s in what n sends to p: n uses it so, p learned it so or is going
\* to, or a batch with this number holds shares of s.
Means(n, p, i, s) ==
  \/ SentAs(State(mgr[n], NodeId(n, p)), i, s)
  \/ LearnedAs(State(mgr[p], NodeId(p, n)), i, s)
  \/ InChannel(chan[n][p], i, s)

\* A number stands for one session, and is below those that come next.
NumbersAgree ==
  \A n, p \in Members : n # p => \A i, s : Means(n, p, i, s) =>
    /\ i \in Nat /\ i < State(mgr[n], NodeId(n, p)).nextId
    /\ \A r : Means(n, p, i, r) => r = s

Types ==
  /\ scenario \in Scenarios
  /\ mgr \in [Members -> Manager]
  /\ voted \in [Members -> SUBSET Sessions]
  /\ recovered \in [Members -> SUBSET Sessions]
  /\ created \subseteq Key
  /\ conn \in [Pairs -> [up : BOOLEAN, lost : 0..MaxLost]]
  /\ chan \in [Members -> [Members -> Seq(Message)]]
  /\ timeouts \in [Members -> Nat]
  /\ retries \in 0..scenario.retries

Channels ==
  \A n, p \in Members :
    /\ ~Linked(n, p) => chan[n][p] = <<>>
    /\ \A j \in DOMAIN chan[n][p], k \in Key : Carries(chan[n][p][j], k) => k \in created

IInv ==
  /\ Types
  /\ \A n \in Members :
       /\ ManagerFits(mgr[n]) /\ Backed(n, mgr[n], created) /\ timeouts[n] <= retries
       /\ \A id \in DOMAIN mgr[n].states : Known(n, id)
  /\ Channels /\ NumbersAgree

LEMMA PairsSymmetric == \A n, p \in Members : {n, p} = {p, n} /\ {n, p} \in Pairs
BY SMTT(30) DEF Pairs

LEMMA StateSound ==
  ASSUME IInv, NEW n \in Members, NEW id
  PROVE  Sound(State(mgr[n], id))
BY NewStateSound DEF IInv, ManagerFits, State

\* If what a number may stand for only gets less, numbers stay unambiguous.
LEMMA NumbersShrink ==
  ASSUME NumbersAgree,
         ASSUME NEW n \in Members, NEW p \in Members, n # p, NEW i, NEW s, Means(n, p, i, s)'
         PROVE  /\ Means(n, p, i, s)
                /\ State(mgr[n], NodeId(n, p)).nextId \in Nat
                /\ State(mgr[n], NodeId(n, p))'.nextId \in Nat
                /\ State(mgr[n], NodeId(n, p))'.nextId >= State(mgr[n], NodeId(n, p)).nextId
  PROVE  NumbersAgree'
<1> SUFFICES ASSUME NEW n \in Members, NEW p \in Members, n # p, NEW i, NEW s, Means(n, p, i, s)'
             PROVE  /\ i \in Nat /\ i < State(mgr[n], NodeId(n, p))'.nextId
                    /\ \A r : Means(n, p, i, r)' => r = s
  BY DEF NumbersAgree
<1> DEFINE old == State(mgr[n], NodeId(n, p)).nextId
           new == State(mgr[n], NodeId(n, p))'.nextId
<1>1. Means(n, p, i, s) /\ old \in Nat /\ new \in Nat /\ new >= old
  OBVIOUS
<1>2. i \in Nat /\ i < old /\ \A r : Means(n, p, i, r) => r = s
  BY <1>1 DEF NumbersAgree
<1>3. i < new
  <2> HIDE DEF old, new
  <2> QED
    BY <1>1, <1>2, SMTT(30)
<1>4. ASSUME NEW r, Means(n, p, i, r)' PROVE r = s
  BY <1>2, <1>4
<1>5. QED
  BY <1>2, <1>3, <1>4

\* A step in which n changes the states of nodes so that numbers keep their meaning.
LEMMA ManagerStep ==
  ASSUME IInv, NEW n \in Members, NEW N, ManagerFits(N), Backed(n, N, created'),
         mgr' = [mgr EXCEPT ![n] = N], UNCHANGED <<scenario, conn, chan>>,
         created \subseteq created', created' \subseteq Key,
         voted' \in [Members -> SUBSET Sessions], recovered' \in [Members -> SUBSET Sessions],
         timeouts' \in [Members -> Nat], retries' \in 0..scenario.retries,
         \A m \in Members : timeouts'[m] <= retries',
         \A id \in DOMAIN N.states : Known(n, id) /\ Follows(N.states[id], State(mgr[n], id)),
         \A id \in DOMAIN mgr[n].states \ DOMAIN N.states, p \in Members \ {n} : id # NodeId(n, p)
  PROVE  IInv'
<1>1. mgr \in [Members -> Manager] /\ N \in Manager
  BY DEF IInv, Types, ManagerFits
<1>2. mgr' \in [Members -> Manager] /\ mgr'[n] = N /\ \A m \in Members \ {n} : mgr'[m] = mgr[m]
  BY <1>1
<1>3. Types'
  BY <1>2 DEF IInv, Types
<1>4. \A m \in Members : \A id : (Known(m, id)' <=> Known(m, id)) /\ \A p : (Linked(m, p)' <=> Linked(m, p))
  BY DEF Known, Linked, AllConnected
<1>5. ASSUME NEW m \in Members
      PROVE  /\ ManagerFits(mgr'[m]) /\ Backed(m, mgr'[m], created')
             /\ \A id \in DOMAIN mgr'[m].states : Known(m, id)'
  <2>1. CASE m = n
    BY <1>2, <1>4, <2>1
  <2>2. CASE m # n
    <3>1. mgr'[m] = mgr[m] /\ ManagerFits(mgr[m]) /\ Backed(m, mgr[m], created)
      BY <1>2, <2>2 DEF IInv
    <3>2. Backed(m, mgr[m], created')
      BY <3>1 DEF Backed
    <3>3. QED
      BY <1>4, <3>1, <3>2 DEF IInv
  <2>3. QED
    BY <2>1, <2>2
<1>6. Channels'
  BY <1>4 DEF IInv, Channels
<1>7. ASSUME NEW m \in Members, NEW p \in Members, m # p
      PROVE  Follows(State(mgr'[m], NodeId(m, p)), State(mgr[m], NodeId(m, p)))
  <2> DEFINE id == NodeId(m, p)
  <2>1. CASE m = n
    <3>1. CASE id \in DOMAIN N.states
      BY <1>2, <2>1, <3>1 DEF State
    <3>2. CASE id \notin DOMAIN N.states
      <4>1. id \notin DOMAIN mgr[n].states
        BY <1>7, <2>1, <3>2
      <4>2. QED
        BY <1>2, <2>1, <3>2, <4>1, NewStateSound, FollowsReflexive DEF State
    <3>3. QED
      BY <3>1, <3>2
  <2>2. CASE m # n
    BY <1>2, <2>2, StateSound, FollowsReflexive DEF State
  <2>3. QED
    BY <2>1, <2>2
<1>8. \A m, p \in Members : NodeId(m, p)' = NodeId(m, p)
  BY DEF NodeId
<1>9. NumbersAgree'
  <2>1. NumbersAgree
    BY DEF IInv
  <2>2. ASSUME NEW m \in Members, NEW p \in Members, m # p, NEW i, NEW s, Means(m, p, i, s)'
        PROVE  /\ Means(m, p, i, s)
               /\ State(mgr[m], NodeId(m, p)).nextId \in Nat
               /\ State(mgr[m], NodeId(m, p))'.nextId \in Nat
               /\ State(mgr[m], NodeId(m, p))'.nextId >= State(mgr[m], NodeId(m, p)).nextId
    <3> DEFINE a == State(mgr[m], NodeId(m, p))
               b == State(mgr[p], NodeId(p, m))
    <3>1. a' = State(mgr'[m], NodeId(m, p)) /\ b' = State(mgr'[p], NodeId(p, m))
      BY <1>8, SMTT(30) DEF State
    <3>2. Follows(a', a) /\ Follows(b', b) /\ Sound(a)
      BY <1>7, <2>2, <3>1, StateSound
    <3>3. SentAs(a', i, s) \/ LearnedAs(b', i, s) \/ InChannel(chan[m][p], i, s)
      BY <2>2, <3>1 DEF Means, SentAs, LearnedAs, InChannel, Names
    <3> HIDE DEF a, b
    <3>4. Means(m, p, i, s)
      BY <3>2, <3>3 DEF Means, Follows, a, b
    <3>5. a.nextId \in Nat /\ a'.nextId \in Nat /\ a'.nextId >= a.nextId
      BY <3>2 DEF Follows, Sound, NodeState
    <3>6. QED
      BY <3>4, <3>5 DEF a
  <2>3. QED
    BY <2>1, <2>2, NumbersShrink
<1>10. QED
  BY <1>3, <1>5, <1>6, <1>9 DEF IInv
-----------------------------------------------------------------------------
(* Steps in which a manager forgets or relabels *)

\* Manager N is M after changes of node states; requests and what is remembered of them go together.
Evolves(N, M) ==
  /\ N \in Manager /\ DOMAIN M.states \subseteq DOMAIN N.states /\ Shrunk(N.asked, M.asked)
  /\ \A id \in DOMAIN N.states :
       /\ Changes(N.states[id], State(M, id), {})
       /\ \A k \in DOMAIN N.states[id].requested : k \in DOMAIN M.asked => k \in DOMAIN N.asked

LEMMA EvolvesTransitive ==
  ASSUME NEW A, NEW B, NEW C, \A id \in DOMAIN C.states : Sound(C.states[id]), Evolves(A, B), Evolves(B, C)
  PROVE  Evolves(A, C)
<1>1. /\ A \in Manager /\ DOMAIN C.states \subseteq DOMAIN A.states
      /\ DOMAIN B.states \subseteq DOMAIN A.states
      /\ Shrunk(A.asked, B.asked) /\ Shrunk(B.asked, C.asked) /\ Shrunk(A.asked, C.asked)
  BY DEF Evolves, Shrunk
<1>2. ASSUME NEW id \in DOMAIN A.states
      PROVE  /\ Changes(A.states[id], State(C, id), {})
             /\ \A k \in DOMAIN A.states[id].requested : k \in DOMAIN C.asked => k \in DOMAIN A.asked
  <2> DEFINE a == A.states[id]
             b == State(B, id)
             c == State(C, id)
  <2>1. Sound(c)
    BY NewStateSound DEF State
  <2>2. Changes(a, b, {})
    BY DEF Evolves
  <2>3. CASE id \in DOMAIN B.states
    <3>1. Changes(b, c, {}) /\ b = B.states[id]
      BY <2>3 DEF Evolves, State
    <3> HIDE DEF a, b, c
    <3>2. Follows(a, c) /\ Shrunk(a.requested, c.requested) /\ DOMAIN a.pending \subseteq DOMAIN c.pending
      BY <2>1, <2>2, <3>1, FollowsTransitive DEF Changes, Shrunk
    <3>3. \A k \in DOMAIN a.requested : k \in DOMAIN C.asked => k \in DOMAIN A.asked
      BY <2>2, <2>3, <3>1 DEF Evolves, Changes, Shrunk, a
    <3>4. QED
      BY <3>2, <3>3 DEF Changes, a, c
  <2>4. CASE id \notin DOMAIN B.states
    <3>1. b = NewNodeState /\ c = NewNodeState
      BY <2>4 DEF State, Evolves
    <3>2. DOMAIN a.requested = {}
      BY <2>2, <3>1, EmptyMap, SMTT(30) DEF Changes, Shrunk, NewNodeState
    <3>3. QED
      BY <2>2, <3>1, <3>2
  <2>5. QED
    BY <2>3, <2>4
<1>3. QED
  BY <1>1, <1>2 DEF Evolves

LEMMA EvolvesFits ==
  ASSUME NEW M, ManagerFits(M), NEW N, Evolves(N, M)
  PROVE  ManagerFits(N)
<1>1. N \in Manager /\ \A id \in DOMAIN N.states : Sound(N.states[id])
  BY DEF Evolves, Changes, Follows
<1>2. ASSUME NEW id \in DOMAIN N.states, NEW k \in DOMAIN N.states[id].requested
      PROVE  /\ ~N.states[id].requested[k] =>
                  k \in DOMAIN N.asked /\ N.asked[k] = [node |-> id, old |-> FALSE]
             /\ k \in DOMAIN N.asked /\ ~N.asked[k].old => N.asked[k].node = id
  <2>1. /\ Shrunk(N.states[id].requested, State(M, id).requested) /\ Shrunk(N.asked, M.asked)
        /\ k \in DOMAIN M.asked => k \in DOMAIN N.asked
    BY DEF Evolves, Changes
  <2>2. id \in DOMAIN M.states /\ State(M, id) = M.states[id]
    BY <2>1, EmptyMap DEF State, Shrunk, NewNodeState
  <2>3. k \in DOMAIN M.states[id].requested /\ N.states[id].requested[k] = M.states[id].requested[k]
    BY <2>1, <2>2 DEF Shrunk
  <2>4. /\ ~M.states[id].requested[k] =>
             k \in DOMAIN M.asked /\ M.asked[k] = [node |-> id, old |-> FALSE]
        /\ k \in DOMAIN M.asked /\ ~M.asked[k].old => M.asked[k].node = id
    BY <2>2, <2>3 DEF ManagerFits, AskedOnce
  <2>5. QED
    BY <2>1, <2>3, <2>4 DEF Shrunk
<1>3. QED
  BY <1>1, <1>2 DEF ManagerFits, AskedOnce

LEMMA EvolveStep ==
  ASSUME IInv, NEW n \in Members, NEW N, Evolves(N, mgr[n]),
         mgr' = [mgr EXCEPT ![n] = N], UNCHANGED <<scenario, conn, chan>>,
         created \subseteq created', created' \subseteq Key,
         N.sigShares \cup N.verified \subseteq created',
         \A s \in DOMAIN N.signed : <<s, n>> \in created',
         voted' \in [Members -> SUBSET Sessions], recovered' \in [Members -> SUBSET Sessions],
         timeouts' \in [Members -> Nat], retries' \in 0..scenario.retries,
         \A m \in Members : timeouts'[m] <= retries',
         \A id \in DOMAIN N.states \ DOMAIN mgr[n].states : Known(n, id)
  PROVE  IInv'
<1>1. ManagerFits(N)
  BY EvolvesFits DEF IInv
<1>2. ASSUME NEW id \in DOMAIN N.states
      PROVE  /\ Known(n, id) /\ Follows(N.states[id], State(mgr[n], id))
             /\ DOMAIN N.states[id].pending \subseteq created'
  <2>1. Changes(N.states[id], State(mgr[n], id), {})
    BY DEF Evolves
  <2>2. DOMAIN State(mgr[n], id).pending \subseteq created
    BY EmptyMap DEF State, IInv, Backed, NewNodeState
  <2>3. QED
    BY <2>1, <2>2 DEF Changes, IInv
<1>3. Backed(n, N, created')
  BY <1>2 DEF Backed
<1>4. DOMAIN mgr[n].states \ DOMAIN N.states = {}
  BY DEF Evolves
<1>5. QED
  BY <1>1, <1>2, <1>3, <1>4, ManagerStep
\* A manager of which only node states change.
WithStates(M, states) == [M EXCEPT !.states = states]

LEMMA StatesEvolve ==
  ASSUME NEW M \in Manager, NEW f, DOMAIN M.states \subseteq DOMAIN f,
         DOMAIN f \subseteq Members \X Nat,
         \A id \in DOMAIN f : Changes(f[id], State(M, id), {}), f = [id \in DOMAIN f |-> f[id]]
  PROVE  /\ Evolves(WithStates(M, f), M) /\ WithStates(M, f).states = f
         /\ WithStates(M, f).sigShares = M.sigShares /\ WithStates(M, f).verified = M.verified
         /\ WithStates(M, f).signed = M.signed /\ WithStates(M, f).pendingSigns = M.pendingSigns
         /\ WithStates(M, f).queued = M.queued
<1>1. f \in Map(Members \X Nat, NodeState)
  <2>1. \A id \in DOMAIN f : f[id] \in NodeState
    BY DEF Changes, Follows, Sound
  <2>2. f \in [DOMAIN f -> NodeState]
    BY <2>1
  <2>3. QED
    BY <2>2, MapProperty
<1> DEFINE N == WithStates(M, f)
<1>2. /\ N \in Manager /\ N.states = f /\ N.asked = M.asked /\ N.sigShares = M.sigShares
      /\ N.verified = M.verified /\ N.signed = M.signed /\ N.pendingSigns = M.pendingSigns
      /\ N.queued = M.queued
  BY <1>1 DEF WithStates, Manager
<1> HIDE DEF N
<1>3. Evolves(N, M)
  BY <1>2 DEF Evolves, Shrunk
<1>4. QED
  BY <1>2, <1>3 DEF N

LEMMA RemoveEvolves ==
  ASSUME NEW M \in Manager, \A id \in DOMAIN M.states : Sound(M.states[id]), NEW S
  PROVE  LET N == RemoveSigSharesForSession(M, S) IN
         /\ Evolves(N, M) /\ DOMAIN N.states = DOMAIN M.states
         /\ N.sigShares = {k \in M.sigShares : k[1] \notin S} /\ N.verified = M.verified
         /\ N.pendingSigns = M.pendingSigns /\ Shrunk(N.signed, M.signed)
<1> DEFINE f == [id \in DOMAIN M.states |-> RemoveSession(M.states[id], S)]
           a == WithoutSessions(M.asked, S)
           q == {k \in M.queued : k[1] \notin S}
           h == {k \in M.sigShares : k[1] \notin S}
           g == Without(M.signed, S)
           N == [M EXCEPT !.states = f, !.asked = a, !.queued = q, !.sigShares = h, !.signed = g]
<1>1. RemoveSigSharesForSession(M, S) = N
  BY DEF RemoveSigSharesForSession
<1>2. /\ M.states \in Map(Members \X Nat, NodeState) /\ M.signed \in Map(Sessions, 0..RecoveryMembers)
      /\ M.asked \in Map(Key, [node : Members \X Nat, old : BOOLEAN])
      /\ M.queued \subseteq Key /\ M.sigShares \subseteq Key
  BY DEF Manager
<1>3. \A id \in DOMAIN M.states : /\ Changes(f[id], M.states[id], {}) /\ f[id] \in NodeState
                                  /\ \A k \in DOMAIN f[id].requested : k[1] \notin S
  <2> TAKE id \in DOMAIN M.states
  <2> DEFINE st == M.states[id]
  <2>1. f[id] = RemoveSession(st, S) /\ Sound(st)
    OBVIOUS
  <2> HIDE DEF f, st
  <2>2. Changes(f[id], st, {}) /\ \A k \in DOMAIN f[id].requested : k[1] \notin S
    BY <2>1, RemoveSessionChange
  <2>3. QED
    BY <2>2 DEF Changes, Follows, Sound, st
<1>4. f \in Map(Members \X Nat, NodeState) /\ DOMAIN f = DOMAIN M.states
  <2>1. DOMAIN f = DOMAIN M.states /\ DOMAIN M.states \subseteq Members \X Nat
    BY <1>2, MapProperty
  <2>2. f \in [DOMAIN f -> NodeState]
    BY <1>3
  <2>3. QED
    BY <2>1, <2>2, MapProperty
<1>5. /\ a \in Map(Key, [node : Members \X Nat, old : BOOLEAN]) /\ Shrunk(a, M.asked)
      /\ DOMAIN a = {k \in DOMAIN M.asked : k[1] \notin S}
  <2>1. a \in Map(Key, [node : Members \X Nat, old : BOOLEAN])
    BY <1>2, WithoutSessionsType
  <2>2. QED
    BY <2>1 DEF WithoutSessions, Restrict, Shrunk
<1>6. g \in Map(Sessions, 0..RecoveryMembers) /\ Shrunk(g, M.signed)
  <2>1. g \in Map(Sessions, 0..RecoveryMembers)
    BY <1>2, WithoutType
  <2>2. QED
    BY <2>1 DEF Without, Restrict, Shrunk
<1>7. q \subseteq Key /\ h \subseteq Key
  BY <1>2
<1> HIDE DEF f, a, q, h, g
<1>8. /\ N \in Manager /\ N.states = f /\ N.asked = a /\ N.sigShares = h /\ N.signed = g
      /\ N.verified = M.verified /\ N.pendingSigns = M.pendingSigns
  BY <1>4, <1>5, <1>6, <1>7 DEF Manager
<1> HIDE DEF N
<1>9. Evolves(N, M)
  BY <1>3, <1>4, <1>5, <1>8 DEF Evolves, State
<1>10. QED
  BY <1>1, <1>4, <1>6, <1>8, <1>9 DEF h

LEMMA ForceEvolves ==
  ASSUME NEW M \in Manager, \A id \in DOMAIN M.states : Sound(M.states[id]), NEW s \in Sessions
  PROVE  LET N == ForceReAnnouncement(M, s) IN
         /\ Evolves(N, M) /\ DOMAIN N.states = DOMAIN M.states
         /\ N.sigShares = M.sigShares /\ N.verified = M.verified /\ N.signed = M.signed
         /\ N.pendingSigns = M.pendingSigns
<1>1. CASE AllConnected
  BY <1>1, FollowsReflexive DEF ForceReAnnouncement, Evolves, Changes, Shrunk, State
<1>2. CASE ~AllConnected
  <2> DEFINE f == [id \in DOMAIN M.states |-> ReAnnounced(M.states[id], s)]
             q == M.queued \cup {k \in M.sigShares : k[1] = s}
             N == [M EXCEPT !.queued = q, !.states = f]
  <2>1. ForceReAnnouncement(M, s) = N
    BY <1>2 DEF ForceReAnnouncement
  <2>2. M.states \in Map(Members \X Nat, NodeState) /\ M.queued \subseteq Key /\ M.sigShares \subseteq Key
    BY DEF Manager
  <2>3. \A id \in DOMAIN M.states : Changes(f[id], M.states[id], {}) /\ f[id] \in NodeState
    <3> TAKE id \in DOMAIN M.states
    <3> DEFINE st == M.states[id]
    <3>1. f[id] = ReAnnounced(st, s) /\ Sound(st)
      OBVIOUS
    <3> HIDE DEF f, st
    <3>2. Changes(f[id], st, {})
      BY <3>1, ReAnnouncedChange
    <3>3. QED
      BY <3>2 DEF Changes, Follows, Sound, st
  <2>4. f \in Map(Members \X Nat, NodeState) /\ DOMAIN f = DOMAIN M.states
    <3>1. DOMAIN f = DOMAIN M.states /\ DOMAIN M.states \subseteq Members \X Nat
      BY <2>2, MapProperty
    <3>2. f \in [DOMAIN f -> NodeState]
      BY <2>3
    <3>3. QED
      BY <3>1, <3>2, MapProperty
  <2>5. q \subseteq Key
    BY <2>2
  <2> HIDE DEF f, q
  <2>6. /\ N \in Manager /\ N.states = f /\ N.asked = M.asked /\ N.sigShares = M.sigShares
        /\ N.verified = M.verified /\ N.signed = M.signed /\ N.pendingSigns = M.pendingSigns
    BY <2>4, <2>5 DEF Manager
  <2> HIDE DEF N
  <2>7. Evolves(N, M)
    BY <2>3, <2>4, <2>6 DEF Evolves, Shrunk, State
  <2>8. QED
    BY <2>1, <2>4, <2>6, <2>7
<1>3. QED
  BY <1>1, <1>2
LEMMA NodeIdType ==
  ASSUME IInv, NEW n \in Members, NEW p \in Members
  PROVE  /\ NodeId(n, p) \in Members \X Nat /\ NodeId(n, p)[1] = p
         /\ conn[{n, p}] \in [up : BOOLEAN, lost : 0..MaxLost]
         /\ NodeId(n, p)[2] = conn[{n, p}].lost /\ conn[{n, p}].lost \in 0..MaxLost
<1>1. conn[{n, p}] \in [up : BOOLEAN, lost : 0..MaxLost]
  BY PairsSymmetric DEF IInv, Types
<1>2. conn[{n, p}].lost \in 0..MaxLost
  BY <1>1
<1> DEFINE l == conn[{n, p}].lost
<1>3. NodeId(n, p) = <<p, l>> /\ l \in Nat
  BY <1>2, ParameterAssumption, SMTT(30) DEF NodeId
<1>4. NodeId(n, p) \in Members \X Nat /\ NodeId(n, p)[1] = p /\ NodeId(n, p)[2] = l
  <2> HIDE DEF l
  <2> QED
    BY <1>3, SMTT(30)
<1>5. QED
  BY <1>1, <1>2, <1>4

LEMMA LinkKnown ==
  ASSUME IInv, NEW n \in Members, NEW p \in Members, Linked(n, p)
  PROVE  Known(n, NodeId(n, p))
<1>1. p # n
  BY DEF Linked
<1> DEFINE id == NodeId(n, p)
<1>2. id[1] = p /\ id[2] = conn[{n, p}].lost /\ conn[{n, p}].lost \in Nat
  BY NodeIdType, ParameterAssumption, SMTT(30)
<1> HIDE DEF id
<1>3. Known(n, id)
  BY <1>1, <1>2, SMTT(30) DEF Known
<1>4. QED
  BY <1>3 DEF id

LEMMA QuorumNodesKnown ==
  ASSUME IInv, NEW n \in Members, NEW id \in QuorumNodes(n)
  PROVE  Known(n, id) /\ id \in Members \X Nat
<1>1. PICK p \in Members : Linked(n, p) /\ id = NodeId(n, p)
  BY DEF QuorumNodes
<1>2. QED
  BY <1>1, NodeIdType, LinkKnown

LEMMA PushEvolves ==
  ASSUME IInv, NEW n \in Members, NEW M \in Manager, \A id \in DOMAIN M.states : Sound(M.states[id]),
         NEW s \in Sessions
  PROVE  LET N == PushOwnShare(n, M, s) IN
         /\ Evolves(N, M) /\ DOMAIN N.states \subseteq DOMAIN M.states \cup QuorumNodes(n)
         /\ N.sigShares = M.sigShares /\ N.verified = M.verified /\ N.signed = M.signed
         /\ N.pendingSigns = M.pendingSigns
<1> DEFINE pass == AllConnected \/ HasRecoveredSigForId(n, s) \/ <<s, n>> \in M.sigShares
<1>1. CASE pass
  BY <1>1, FollowsReflexive DEF PushOwnShare, Evolves, Changes, Shrunk, State
<1>2. CASE ~pass
  <2> DEFINE g == [id \in QuorumNodes(n) |-> Pushed(n, State(M, id), s)]
             f == Override(g, M.states)
  <2>1. PushOwnShare(n, M, s) = WithStates(M, f)
    BY <1>2 DEF PushOwnShare, WithStates
  <2>2. DOMAIN M.states \subseteq Members \X Nat
    BY MapProperty DEF Manager
  <2>3. DOMAIN f = QuorumNodes(n) \cup DOMAIN M.states /\ f = [id \in DOMAIN f |-> f[id]]
    BY DEF Override
  <2>4. DOMAIN f \subseteq Members \X Nat
    BY <2>2, <2>3, QuorumNodesKnown
  <2>5. ASSUME NEW id \in DOMAIN f PROVE Changes(f[id], State(M, id), {})
    <3> DEFINE st == State(M, id)
    <3>1. Sound(st)
      BY NewStateSound DEF State
    <3>2. CASE id \in QuorumNodes(n)
      <4>1. f[id] = Pushed(n, st, s)
        BY <3>2 DEF Override
      <4> HIDE DEF f, st
      <4>2. QED
        BY <3>1, <4>1, PushedChange DEF st
    <3>3. CASE id \notin QuorumNodes(n)
      <4>1. f[id] = st
        BY <2>3, <3>3 DEF Override, State
      <4>2. QED
        BY <3>1, <4>1, FollowsReflexive DEF Changes, Shrunk
    <3>4. QED
      BY <3>2, <3>3
  <2> HIDE DEF f
  <2>6. QED
    BY <2>1, <2>3, <2>4, <2>5, StatesEvolve, SMTT(30)
<1>3. QED
  BY <1>1, <1>2

\* Where ProcessSigShare takes manager M.
ShareFits(n, M, k, signed, N, done) ==
  /\ Evolves(N, M) /\ done \subseteq Sessions
  /\ DOMAIN N.states = DOMAIN M.states /\ N.sigShares \subseteq M.sigShares \cup {k}
  /\ HasRecoveredSigForId(n, k[1]) => N.sigShares \subseteq M.sigShares
  /\ N.verified = M.verified /\ N.pendingSigns = M.pendingSigns
  /\ DOMAIN N.signed \subseteq DOMAIN signed \cup DOMAIN M.signed

LEMMA ShareEvolves ==
  ASSUME NEW n \in Members, NEW M \in Manager, \A id \in DOMAIN M.states : Sound(M.states[id]),
         NEW k \in Key, NEW signed \in Map(Sessions, 0..RecoveryMembers),
         ProcessSigShare(n, M, k, signed)
  PROVE  \E N, done : /\ ShareFits(n, M, k, signed, N, done) /\ mgr' = [mgr EXCEPT ![n] = N]
                      /\ recovered' = [recovered EXCEPT ![n] = @ \cup done]
<1> DEFINE new == {j \in {k} \ M.sigShares : ~HasRecoveredSigForId(n, j[1])}
           held == M.sigShares \cup new
           queued == IF AllConnected THEN M.queued ELSE M.queued \cup new
           kept == [M EXCEPT !.sigShares = held, !.queued = queued]
           done == {s \in {j[1] : j \in new} : Cardinality({j \in kept.sigShares : j[1] = s}) >= Threshold}
           R == RemoveSigSharesForSession(kept, done)
           g == Override(signed, R.signed)
           N == [R EXCEPT !.signed = g]
<1>1. mgr' = [mgr EXCEPT ![n] = N] /\ recovered' = [recovered EXCEPT ![n] = @ \cup done]
  BY DEF ProcessSigShare
<1>2. M.sigShares \subseteq Key /\ M.queued \subseteq Key /\ new \subseteq {k} /\ done \subseteq Sessions
  BY DEF Manager, Key
<1>3. /\ held \subseteq Key /\ queued \subseteq Key /\ held \subseteq M.sigShares \cup {k}
      /\ HasRecoveredSigForId(n, k[1]) => held \subseteq M.sigShares
  BY <1>2
<1> HIDE DEF new, held, queued
<1>4. /\ kept \in Manager /\ kept.states = M.states /\ kept.asked = M.asked /\ kept.sigShares = held
      /\ kept.verified = M.verified /\ kept.signed = M.signed /\ kept.pendingSigns = M.pendingSigns
  BY <1>3 DEF Manager
<1> HIDE DEF kept, done
<1>5. /\ Evolves(R, kept) /\ DOMAIN R.states = DOMAIN M.states /\ R.sigShares \subseteq held
      /\ R.verified = M.verified /\ R.pendingSigns = M.pendingSigns /\ Shrunk(R.signed, M.signed)
  BY <1>4, RemoveEvolves, SMTT(30)
<1> HIDE DEF R
<1>6. R \in Manager /\ R.signed \in Map(Sessions, 0..RecoveryMembers)
  BY <1>5 DEF Evolves, Manager
<1>7. g \in Map(Sessions, 0..RecoveryMembers)
  BY <1>6, OverrideType
<1>8. DOMAIN g = DOMAIN signed \cup DOMAIN R.signed
  BY DEF Override
<1> HIDE DEF g
<1>9. /\ N \in Manager /\ N.states = R.states /\ N.asked = R.asked /\ N.sigShares = R.sigShares
      /\ N.signed = g /\ N.verified = R.verified /\ N.pendingSigns = R.pendingSigns
  BY <1>6, <1>7 DEF Manager
<1> HIDE DEF N
<1>10. Evolves(N, M)
  BY <1>4, <1>5, <1>9 DEF Evolves, State
<1>11. ShareFits(n, M, k, signed, N, done)
  BY <1>2, <1>3, <1>5, <1>8, <1>9, <1>10 DEF ShareFits, Shrunk
<1>12. QED
  BY <1>1, <1>11
LEMMA ManagerType ==
  ASSUME IInv, NEW n \in Members
  PROVE  /\ mgr[n] \in Manager /\ ManagerFits(mgr[n]) /\ Backed(n, mgr[n], created)
         /\ \A id \in DOMAIN mgr[n].states : Sound(mgr[n].states[id]) /\ Known(n, id)
BY DEF IInv, ManagerFits

LEMMA RetriesType ==
  ASSUME IInv
  PROVE  scenario \in Scenario /\ scenario.retries \in 0..MaxRetries /\ retries \in Nat
<1>1. scenario \in Scenario
  BY ScenariosAssumption DEF IInv, Types
<1>2. scenario.retries \in 0..MaxRetries
  BY <1>1 DEF Scenario
<1>3. QED
  BY <1>1, <1>2, ParameterAssumption, SMTT(30) DEF IInv, Types

LEMMA AsyncSignStep ==
  ASSUME IInv, NEW n \in Members, NEW s \in Sessions, NEW allowReSign \in BOOLEAN,
         AsyncSignIfMember(n, s, allowReSign)
  PROVE  IInv'
<1> DEFINE M == mgr[n]
           F == IF allowReSign THEN ForceReAnnouncement(M, s) ELSE M
           pend == F.pendingSigns \cup {s}
           N == AsyncSign(F, s)
<1>1. M \in Manager /\ Backed(n, M, created) /\ \A id \in DOMAIN M.states : Sound(M.states[id])
  BY ManagerType
<1>2. /\ mgr' = [mgr EXCEPT ![n] = N] /\ UNCHANGED <<scenario, created, recovered, conn, chan, timeouts>>
      /\ voted' = [voted EXCEPT ![n] = @ \cup {s}]
      /\ retries' = IF s \in voted[n] THEN retries + 1 ELSE retries
      /\ s \in voted[n] => retries < scenario.retries
  <2>1. mgr' = [mgr EXCEPT ![n] = N]
    BY DEF AsyncSignIfMember
  <2>2. QED
    BY <2>1 DEF AsyncSignIfMember
<1>3. /\ Evolves(F, M) /\ DOMAIN F.states = DOMAIN M.states
      /\ F.sigShares = M.sigShares /\ F.verified = M.verified /\ F.signed = M.signed
      /\ F.pendingSigns = M.pendingSigns
  <2> HIDE DEF M
  <2>1. CASE allowReSign
    BY <1>1, <2>1, ForceEvolves
  <2>2. CASE ~allowReSign
    BY <1>1, <2>2, FollowsReflexive DEF Evolves, Changes, Shrunk, State
  <2>3. QED
    BY <2>1, <2>2
<1> HIDE DEF M, F
<1>4. F \in Manager /\ pend \subseteq Sessions
  BY <1>3 DEF Evolves, Manager
<1> HIDE DEF pend
<1>5. /\ N \in Manager /\ N.states = F.states /\ N.asked = F.asked /\ N.sigShares = F.sigShares
      /\ N.signed = F.signed /\ N.verified = F.verified
  BY <1>4 DEF Manager, AsyncSign, pend
<1> HIDE DEF N
<1>6. Evolves(N, M)
  BY <1>3, <1>5 DEF Evolves
<1>7. N.sigShares \cup N.verified \subseteq created' /\ \A r \in DOMAIN N.signed : <<r, n>> \in created'
  BY <1>1, <1>2, <1>3, <1>5 DEF Backed
<1>8. /\ created \subseteq created' /\ created' \subseteq Key
      /\ voted' \in [Members -> SUBSET Sessions] /\ recovered' \in [Members -> SUBSET Sessions]
      /\ timeouts' \in [Members -> Nat]
  BY <1>2 DEF IInv, Types
<1>9. retries' \in 0..scenario.retries /\ \A m \in Members : timeouts'[m] <= retries'
  <2>1. retries \in 0..scenario.retries /\ \A m \in Members : timeouts[m] \in Nat /\ timeouts[m] <= retries
    BY DEF IInv, Types
  <2>2. QED
    BY <1>2, <2>1, RetriesType, SMTT(30)
<1>10. DOMAIN N.states \ DOMAIN M.states = {}
  BY <1>3, <1>5
<1>11. QED
  BY <1>2, <1>6, <1>7, <1>8, <1>9, <1>10, EvolveStep DEF M

\* Steps that change neither votes nor counters.
LEMMA OrdinaryStep ==
  ASSUME IInv, NEW n \in Members, NEW N, Evolves(N, mgr[n]),
         mgr' = [mgr EXCEPT ![n] = N], UNCHANGED <<scenario, voted, conn, chan, timeouts, retries>>,
         created \subseteq created', created' \subseteq Key,
         N.sigShares \cup N.verified \subseteq created',
         \A s \in DOMAIN N.signed : <<s, n>> \in created',
         recovered' \in [Members -> SUBSET Sessions],
         \A id \in DOMAIN N.states \ DOMAIN mgr[n].states : Known(n, id)
  PROVE  IInv'
<1>1. /\ voted' \in [Members -> SUBSET Sessions] /\ timeouts' \in [Members -> Nat]
      /\ retries' \in 0..scenario.retries /\ \A m \in Members : timeouts'[m] <= retries'
  BY DEF IInv, Types
<1>2. QED
  BY <1>1, EvolveStep

LEMMA RecoveredType ==
  ASSUME IInv, NEW n \in Members, NEW done \in SUBSET Sessions,
         recovered' = [recovered EXCEPT ![n] = @ \cup done]
  PROVE  recovered' \in [Members -> SUBSET Sessions]
BY DEF IInv, Types

LEMMA SignStep ==
  ASSUME IInv, NEW n \in Members, NEW s \in Sessions, SignPendingSigShares(n, s)
  PROVE  IInv'
<1> DEFINE M == mgr[n]
           pend == M.pendingSigns \ {s}
           A == [M EXCEPT !.pendingSigns = pend]
           B == PushOwnShare(n, A, s)
           signed == IF AllConnected THEN [r \in {s} |-> 0] ELSE <<>>
           k == <<s, n>>
<1>1. M \in Manager /\ Backed(n, M, created) /\ \A id \in DOMAIN M.states : Sound(M.states[id])
  BY ManagerType
<1>0. ProcessSigShare(n, B, k, signed)
  BY DEF SignPendingSigShares
<1>2. /\ created' = IF AllConnected \/ ~HasRecoveredSigForId(n, s)
                    THEN created \cup {k} ELSE created
      /\ UNCHANGED <<scenario, voted, conn, chan, timeouts, retries>>
  BY DEF SignPendingSigShares
<1>3. /\ k \in Key /\ signed \in Map(Sessions, 0..RecoveryMembers) /\ DOMAIN signed \subseteq {s}
      /\ DOMAIN signed # {} => AllConnected
  <2>1. [r \in {s} |-> 0] \in Map(Sessions, 0..RecoveryMembers)
    BY MapProperty, ParameterAssumption, SMTT(30)
  <2>2. QED
    BY <2>1, EmptyMap DEF Key
<1> HIDE DEF M, signed, k
<1>4. pend \subseteq Sessions
  BY <1>1 DEF Manager
<1> HIDE DEF pend
<1>5. /\ A \in Manager /\ A.states = M.states /\ A.asked = M.asked /\ A.sigShares = M.sigShares
      /\ A.signed = M.signed /\ A.verified = M.verified
  BY <1>1, <1>4 DEF Manager
<1> HIDE DEF A
<1>6. /\ Evolves(B, A) /\ DOMAIN B.states \subseteq DOMAIN A.states \cup QuorumNodes(n)
      /\ B.sigShares = A.sigShares /\ B.verified = A.verified /\ B.signed = A.signed
  BY <1>1, <1>5, PushEvolves
<1> HIDE DEF B
<1>7. B \in Manager /\ \A id \in DOMAIN B.states : Sound(B.states[id])
  BY <1>6 DEF Evolves, Changes, Follows
<1>8. PICK N, done : /\ ShareFits(n, B, k, signed, N, done) /\ mgr' = [mgr EXCEPT ![n] = N]
                     /\ recovered' = [recovered EXCEPT ![n] = @ \cup done]
  BY <1>0, <1>3, <1>7, ShareEvolves
<1>9. Evolves(N, M)
  <2>1. Evolves(N, B)
    BY <1>8 DEF ShareFits
  <2>2. Evolves(B, M)
    BY <1>5, <1>6 DEF Evolves, State
  <2>3. QED
    BY <1>1, <2>1, <2>2, EvolvesTransitive
<1>10. N.sigShares \cup N.verified \subseteq created' /\ \A r \in DOMAIN N.signed : <<r, n>> \in created'
  <2>1. /\ N.sigShares \subseteq B.sigShares \cup {k} /\ N.verified = B.verified
        /\ HasRecoveredSigForId(n, k[1]) => N.sigShares \subseteq B.sigShares
        /\ DOMAIN N.signed \subseteq DOMAIN signed \cup DOMAIN B.signed
    BY <1>8 DEF ShareFits
  <2>2. k[1] = s /\ k = <<s, n>>
    BY DEF k
  <2>3. B.sigShares \cup B.verified \subseteq created /\ \A r \in DOMAIN B.signed : <<r, n>> \in created
    BY <1>1, <1>5, <1>6 DEF Backed
  <2>4. QED
    BY <1>2, <1>3, <2>1, <2>2, <2>3
<1>11. \A id \in DOMAIN N.states \ DOMAIN M.states : Known(n, id)
  BY <1>5, <1>6, <1>8, QuorumNodesKnown DEF ShareFits
<1>12. recovered' \in [Members -> SUBSET Sessions]
  BY <1>8, RecoveredType DEF ShareFits
<1>13. created \subseteq created' /\ created' \subseteq Key
  BY <1>2, <1>3 DEF IInv, Types
<1>14. QED
  BY <1>2, <1>8, <1>9, <1>10, <1>11, <1>12, <1>13, OrdinaryStep DEF M

LEMMA VerifiedStep ==
  ASSUME IInv, NEW n \in Members, NEW k \in Key, ProcessVerified(n, k)
  PROVE  IInv'
<1> DEFINE M == mgr[n]
           left == M.verified \ {k}
           A == [M EXCEPT !.verified = left]
           none == <<>>
<1>1. M \in Manager /\ Backed(n, M, created) /\ \A id \in DOMAIN M.states : Sound(M.states[id])
  BY ManagerType
<1>2. /\ ProcessSigShare(n, A, k, none) /\ k \in M.verified
      /\ UNCHANGED <<scenario, voted, created, conn, chan, timeouts, retries>>
  BY DEF ProcessVerified
<1>3. none \in Map(Sessions, 0..RecoveryMembers) /\ DOMAIN none = {}
  BY EmptyMap
<1> HIDE DEF M, none
<1>4. left \subseteq Key /\ left \subseteq M.verified
  BY <1>1 DEF Manager
<1> HIDE DEF left
<1>5. /\ A \in Manager /\ A.states = M.states /\ A.asked = M.asked /\ A.sigShares = M.sigShares
      /\ A.signed = M.signed /\ A.verified = left
  BY <1>1, <1>4 DEF Manager
<1> HIDE DEF A
<1>6. PICK N, done : /\ ShareFits(n, A, k, none, N, done) /\ mgr' = [mgr EXCEPT ![n] = N]
                     /\ recovered' = [recovered EXCEPT ![n] = @ \cup done]
  BY <1>1, <1>2, <1>3, <1>5, ShareEvolves, SMTT(30)
<1>7. Evolves(N, M)
  BY <1>5, <1>6 DEF ShareFits, Evolves, State
<1>8. N.sigShares \cup N.verified \subseteq created' /\ \A r \in DOMAIN N.signed : <<r, n>> \in created'
  BY <1>1, <1>2, <1>3, <1>4, <1>5, <1>6 DEF ShareFits, Backed
<1>9. DOMAIN N.states \ DOMAIN M.states = {}
  BY <1>5, <1>6 DEF ShareFits
<1>10. recovered' \in [Members -> SUBSET Sessions]
  BY <1>6, RecoveredType DEF ShareFits
<1>11. created \subseteq created' /\ created' \subseteq Key
  BY <1>2 DEF IInv, Types
<1>12. QED
  BY <1>2, <1>6, <1>7, <1>8, <1>9, <1>10, <1>11, OrdinaryStep DEF M

LEMMA RecoveredStep ==
  ASSUME IInv, NEW n \in Members, NEW s \in Sessions, HandleNewRecoveredSig(n, s)
  PROVE  IInv'
<1> DEFINE M == mgr[n]
           N == RemoveSigSharesForSession(M, {s})
<1>1. M \in Manager /\ Backed(n, M, created) /\ \A id \in DOMAIN M.states : Sound(M.states[id])
  BY ManagerType
<1>2. /\ mgr' = [mgr EXCEPT ![n] = N] /\ recovered' = [recovered EXCEPT ![n] = @ \cup {s}]
      /\ UNCHANGED <<scenario, voted, created, conn, chan, timeouts, retries>>
  BY DEF HandleNewRecoveredSig, IInv, Types
<1> HIDE DEF M
<1>3. /\ Evolves(N, M) /\ DOMAIN N.states = DOMAIN M.states /\ N.sigShares \subseteq M.sigShares
      /\ N.verified = M.verified /\ Shrunk(N.signed, M.signed)
  BY <1>1, RemoveEvolves, SMTT(30)
<1> HIDE DEF N
<1>4. N.sigShares \cup N.verified \subseteq created' /\ \A r \in DOMAIN N.signed : <<r, n>> \in created'
  BY <1>1, <1>2, <1>3 DEF Backed, Shrunk
<1>5. recovered' \in [Members -> SUBSET Sessions] /\ created \subseteq created' /\ created' \subseteq Key
  BY <1>2 DEF IInv, Types
<1>6. DOMAIN N.states \ DOMAIN M.states = {}
  BY <1>3
<1>7. QED
  BY <1>2, <1>3, <1>4, <1>5, <1>6, OrdinaryStep DEF M

LEMMA SessionTimeoutStep ==
  ASSUME IInv, NEW n \in Members, NEW s \in Sessions, SessionTimeout(n, s)
  PROVE  IInv'
<1> DEFINE M == mgr[n]
           N == RemoveSigSharesForSession(M, {s})
<1>1. M \in Manager /\ Backed(n, M, created) /\ \A id \in DOMAIN M.states : Sound(M.states[id])
  BY ManagerType
<1>2. /\ mgr' = [mgr EXCEPT ![n] = N] /\ UNCHANGED <<scenario, voted, created, recovered, conn, chan>>
      /\ retries < scenario.retries /\ retries' = retries + 1
      /\ timeouts' = [timeouts EXCEPT ![n] = @ + 1]
  BY DEF SessionTimeout
<1> HIDE DEF M
<1>3. /\ Evolves(N, M) /\ DOMAIN N.states = DOMAIN M.states /\ N.sigShares \subseteq M.sigShares
      /\ N.verified = M.verified /\ Shrunk(N.signed, M.signed)
  BY <1>1, RemoveEvolves, SMTT(30)
<1> HIDE DEF N
<1>4. N.sigShares \cup N.verified \subseteq created' /\ \A r \in DOMAIN N.signed : <<r, n>> \in created'
  BY <1>1, <1>2, <1>3 DEF Backed, Shrunk
<1>5. /\ recovered' \in [Members -> SUBSET Sessions] /\ voted' \in [Members -> SUBSET Sessions]
      /\ created \subseteq created' /\ created' \subseteq Key
  BY <1>2 DEF IInv, Types
<1>6. /\ retries' \in 0..scenario.retries /\ timeouts' \in [Members -> Nat]
      /\ \A m \in Members : timeouts'[m] <= retries'
  <2>1. /\ retries \in 0..scenario.retries /\ timeouts \in [Members -> Nat]
        /\ \A m \in Members : timeouts[m] \in Nat /\ timeouts[m] <= retries
    BY DEF IInv, Types
  <2>2. QED
    BY <1>2, <2>1, RetriesType, SMTT(30)
<1>7. DOMAIN N.states \ DOMAIN M.states = {}
  BY <1>3
<1>8. QED
  BY <1>2, <1>3, <1>4, <1>5, <1>6, <1>7, EvolveStep DEF M
LEMMA BanNobody ==
  ASSUME NEW M \in Manager
  PROVE  BanNode(M, {}) = M
<1> DEFINE keys == UNION {DOMAIN M.states[id].requested : id \in {}}
           a == Without(M.asked, keys)
           f == [id \in DOMAIN M.states |-> IF id \in {}
                   THEN [M.states[id] EXCEPT !.requested = <<>>, !.banned = TRUE] ELSE M.states[id]]
           R == [M EXCEPT !.asked = a]
<1>1. M.asked \in [DOMAIN M.asked -> [node : Members \X Nat, old : BOOLEAN]]
      /\ M.states \in [DOMAIN M.states -> NodeState]
  BY MapProperty DEF Manager
<1>2. keys = {}
  OBVIOUS
<1> HIDE DEF keys
<1>3. a = M.asked
  BY <1>1, <1>2 DEF Without, Restrict
<1>4. f = M.states
  BY <1>1
<1>5. ReleaseRequests(M, {}) = R
  BY DEF ReleaseRequests, keys
<1> HIDE DEF a
<1>6. R = M
  BY <1>3 DEF Manager
<1>7. BanNode(M, {}) = [M EXCEPT !.states = f]
  BY <1>5, <1>6 DEF BanNode
<1> HIDE DEF f
<1>8. QED
  BY <1>4, <1>7 DEF Manager

LEMMA PendingStep ==
  ASSUME IInv, NEW n \in Members, ProcessPendingSigShares(n)
  PROVE  IInv'
<1> DEFINE M == mgr[n]
           got == [id \in DOMAIN M.states |-> DOMAIN M.states[id].pending \ M.sigShares]
           bad == {id \in DOMAIN M.states : \E k \in got[id] :
                     ~HasRecoveredSigForId(n, k[1]) /\ ~M.states[id].pending[k]}
           f == [id \in DOMAIN M.states |-> [M.states[id] EXCEPT !.pending = <<>>]]
           left == WithStates(M, f)
           V == UNION {got[id] : id \in DOMAIN M.states \ bad}
           N == [BanNode(left, bad) EXCEPT !.verified = V]
<1>1. M \in Manager /\ Backed(n, M, created) /\ \A id \in DOMAIN M.states : Sound(M.states[id])
  BY ManagerType
<1>2. /\ mgr' = [mgr EXCEPT ![n] = N]
      /\ UNCHANGED <<scenario, voted, created, recovered, conn, chan, timeouts, retries>>
  BY DEF ProcessPendingSigShares, WithStates
<1>3. bad = {}
  BY <1>1 DEF Sound
<1>4. V \subseteq created
  BY <1>1 DEF Backed
<1>5. created \subseteq Key
  BY DEF IInv, Types
<1> HIDE DEF M, bad, got, V
<1>6. /\ Evolves(left, M) /\ left.states = f
      /\ left.sigShares = M.sigShares /\ left.verified = M.verified
      /\ left.signed = M.signed
  <2>1. DOMAIN f = DOMAIN M.states /\ DOMAIN M.states \subseteq Members \X Nat
    BY <1>1, MapProperty DEF Manager
  <2>2. f = [id \in DOMAIN f |-> f[id]]
    OBVIOUS
  <2>3. \A id \in DOMAIN f : Changes(f[id], State(M, id), {})
    <3> TAKE id \in DOMAIN f
    <3> DEFINE st == M.states[id]
    <3>1. f[id] = [st EXCEPT !.pending = <<>>] /\ Sound(st) /\ State(M, id) = st
      BY <1>1 DEF State
    <3> HIDE DEF f, st
    <3>2. QED
      BY <3>1, ClearedChange
  <2> HIDE DEF f
  <2>4. QED
    BY <1>1, <2>1, <2>2, <2>3, StatesEvolve, SMTT(30)
<1>7. DOMAIN f = DOMAIN M.states
  OBVIOUS
<1> HIDE DEF f, left
<1>8. left \in Manager /\ BanNode(left, bad) = left
  BY <1>3, <1>6, BanNobody DEF Evolves
<1>9. /\ N \in Manager /\ N.states = left.states /\ N.asked = left.asked /\ N.verified = V
      /\ N.sigShares = left.sigShares /\ N.signed = left.signed
  BY <1>4, <1>5, <1>8 DEF Manager
<1> HIDE DEF N
<1>10. Evolves(N, M)
  BY <1>6, <1>9 DEF Evolves
<1>11. N.sigShares \cup N.verified \subseteq created' /\ \A r \in DOMAIN N.signed : <<r, n>> \in created'
  BY <1>1, <1>2, <1>4, <1>6, <1>9 DEF Backed
<1>12. DOMAIN N.states \ DOMAIN M.states = {}
  BY <1>6, <1>7, <1>9
<1>13. recovered' \in [Members -> SUBSET Sessions] /\ created \subseteq created' /\ created' \subseteq Key
  BY <1>2 DEF IInv, Types
<1>14. QED
  BY <1>2, <1>10, <1>11, <1>12, <1>13, OrdinaryStep DEF M

LEMMA CleanupStep ==
  ASSUME IInv, NEW n \in Members, CleanupNodeStates(n)
  PROVE  IInv'
<1> DEFINE M == mgr[n]
           gone == DOMAIN M.states \ QuorumNodes(n)
           keys == UNION {DOMAIN M.states[id].requested : id \in gone}
           a == Without(M.asked, keys)
           R == [M EXCEPT !.asked = a]
           f == Without(M.states, gone)
           N == [R EXCEPT !.states = f]
<1>1. /\ M \in Manager /\ Backed(n, M, created) /\ AskedOnce(M)
      /\ \A id \in DOMAIN M.states : Sound(M.states[id]) /\ Known(n, id)
  BY ManagerType DEF ManagerFits
<1>2. /\ ReleaseRequests(M, gone) = R
      /\ UNCHANGED <<scenario, voted, created, recovered, conn, chan, timeouts, retries>>
  BY DEF CleanupNodeStates, ReleaseRequests
<1>3. /\ M.asked \in Map(Key, [node : Members \X Nat, old : BOOLEAN])
      /\ M.states \in Map(Members \X Nat, NodeState)
  BY <1>1 DEF Manager
<1>4. gone \subseteq DOMAIN M.states /\ \A p \in Members \ {n} : NodeId(n, p) \notin gone
  <2>1. ASSUME NEW p \in Members \ {n}, NodeId(n, p) \in DOMAIN M.states PROVE NodeId(n, p) \in QuorumNodes(n)
    <3>1. Known(n, NodeId(n, p))
      BY <1>1, <2>1
    <3> DEFINE id == NodeId(n, p)
    <3>2. Linked(n, p)
      <4>1. id[1] = p /\ id[2] = conn[{n, p}].lost
        BY NodeIdType
      <4> HIDE DEF id
      <4>2. Known(n, id)
        BY <3>1 DEF id
      <4>3. QED
        BY <4>1, <4>2 DEF Known
    <3>3. QED
      BY <3>2 DEF QuorumNodes
  <2>2. QED
    BY <2>1
<1>5. a \in Map(Key, [node : Members \X Nat, old : BOOLEAN]) /\ Shrunk(a, M.asked)
      /\ \A k \in DOMAIN M.asked : k \notin keys => k \in DOMAIN a
  <2> HIDE DEF keys, M
  <2>1. a \in Map(Key, [node : Members \X Nat, old : BOOLEAN])
    BY <1>3, WithoutType
  <2>2. QED
    BY <2>1 DEF Shrunk, Without, Restrict
<1>6. f \in Map(Members \X Nat, NodeState) /\ Shrunk(f, M.states) /\ DOMAIN f = DOMAIN M.states \ gone
  <2> HIDE DEF gone, M
  <2>1. f \in Map(Members \X Nat, NodeState)
    BY <1>3, WithoutType
  <2>2. QED
    BY <2>1 DEF Shrunk, Without, Restrict
<1>7. mgr' = [mgr EXCEPT ![n] = N]
  <2>1. R.states = M.states
    <3> HIDE DEF a
    <3> QED
      BY <1>1 DEF Manager
  <2>2. mgr' = [mgr EXCEPT ![n] = [ReleaseRequests(M, gone) EXCEPT !.states = Without(@, gone)]]
    BY DEF CleanupNodeStates
  <2> HIDE DEF R, gone
  <2>3. QED
    BY <1>2, <2>1, <2>2
<1>8. \A id \in gone : \A k \in DOMAIN M.states[id].requested : k \in keys
  OBVIOUS
<1>9. ASSUME NEW k \in keys PROVE \E id \in gone : k \in DOMAIN M.states[id].requested
  OBVIOUS
<1> HIDE DEF M, gone, keys, a, f
<1>10. /\ R \in Manager /\ R.states = M.states /\ R.asked = a /\ R.verified = M.verified
       /\ R.sigShares = M.sigShares /\ R.signed = M.signed
  BY <1>1, <1>5 DEF Manager
<1> HIDE DEF R
<1>11. /\ N \in Manager /\ N.states = f /\ N.asked = a /\ N.verified = M.verified
       /\ N.sigShares = M.sigShares /\ N.signed = M.signed
  BY <1>6, <1>10 DEF Manager
<1> HIDE DEF N
<1>12. ASSUME NEW id \in DOMAIN N.states, NEW k \in DOMAIN N.states[id].requested
       PROVE  /\ ~N.states[id].requested[k] =>
                   k \in DOMAIN N.asked /\ N.asked[k] = [node |-> id, old |-> FALSE]
              /\ k \in DOMAIN N.asked /\ ~N.asked[k].old => N.asked[k].node = id
  <2>1. /\ id \in DOMAIN M.states /\ id \notin gone /\ N.states[id] = M.states[id]
        /\ k \in DOMAIN M.states[id].requested
    BY <1>6, <1>11, <1>12 DEF Shrunk
  <2>2. /\ ~M.states[id].requested[k] =>
             k \in DOMAIN M.asked /\ M.asked[k] = [node |-> id, old |-> FALSE]
        /\ k \in DOMAIN M.asked /\ ~M.asked[k].old => M.asked[k].node = id
    BY <1>1, <2>1 DEF AskedOnce
  <2>3. ASSUME ~M.states[id].requested[k] PROVE k \notin keys
    <3>1. SUFFICES ASSUME k \in keys PROVE FALSE
      OBVIOUS
    <3>2. PICK x \in gone : k \in DOMAIN M.states[x].requested
      BY <1>9, <3>1
    <3>3. k \in DOMAIN M.asked /\ M.asked[k] = [node |-> id, old |-> FALSE]
      BY <2>2, <2>3
    <3>4. M.asked[k].node = x
      <4>1. x \in DOMAIN M.states /\ ~M.asked[k].old
        BY <1>4, <3>2, <3>3, SMTT(30)
      <4>2. QED
        BY <1>1, <3>2, <3>3, <4>1 DEF AskedOnce
    <3>5. QED
      BY <2>1, <3>3, <3>4, SMTT(30)
  <2>4. QED
    BY <1>5, <1>11, <2>1, <2>2, <2>3 DEF Shrunk
<1>13. ManagerFits(N)
  BY <1>1, <1>6, <1>11, <1>12 DEF ManagerFits, AskedOnce, Shrunk
<1>14. Backed(n, N, created')
  BY <1>1, <1>2, <1>6, <1>11 DEF Backed, Shrunk
<1>15. \A id \in DOMAIN N.states : Known(n, id) /\ Follows(N.states[id], State(M, id))
  BY <1>1, <1>6, <1>11, FollowsReflexive DEF Shrunk, State
<1>16. \A id \in DOMAIN M.states \ DOMAIN N.states, p \in Members \ {n} : id # NodeId(n, p)
  BY <1>4, <1>6, <1>11
<1>17. /\ recovered' \in [Members -> SUBSET Sessions] /\ created \subseteq created' /\ created' \subseteq Key
       /\ voted' \in [Members -> SUBSET Sessions] /\ timeouts' \in [Members -> Nat]
       /\ retries' \in 0..scenario.retries /\ \A m \in Members : timeouts'[m] <= retries'
  BY <1>2 DEF IInv, Types
<1>18. QED
  BY <1>2, <1>7, <1>13, <1>14, <1>15, <1>16, <1>17, ManagerStep DEF M
LEMMA TimedOutChange ==
  ASSUME NEW st, Sound(st), NEW k \in DOMAIN st.requested
  PROVE  LET new == [st EXCEPT !.requested[k] = TRUE] IN
         /\ Follows(new, st) /\ new.pending = st.pending /\ DOMAIN new.requested = DOMAIN st.requested
         /\ new.requested[k] /\ \A j \in DOMAIN st.requested \ {k} : new.requested[j] = st.requested[j]
<1> DEFINE req == [st.requested EXCEPT ![k] = TRUE]
           new == [st EXCEPT !.requested = req]
<1>1. [st EXCEPT !.requested[k] = TRUE] = new
  OBVIOUS
<1>2. st \in NodeState /\ st.requested \in Map(Key, BOOLEAN) /\ st.nextId \in Nat
  BY DEF Sound, NodeState
<1>3. st.requested \in [DOMAIN st.requested -> BOOLEAN] /\ DOMAIN st.requested \subseteq Key
  BY <1>2, MapProperty
<1>4. /\ req \in [DOMAIN st.requested -> BOOLEAN] /\ DOMAIN req = DOMAIN st.requested /\ req[k]
      /\ \A j \in DOMAIN st.requested \ {k} : req[j] = st.requested[j]
  BY <1>3
<1> HIDE DEF req
<1>5. req \in Map(Key, BOOLEAN)
  BY <1>3, <1>4, MapProperty
<1>6. /\ new \in NodeState /\ new.sessions = st.sessions /\ new.byRecvId = st.byRecvId
      /\ new.nextId = st.nextId /\ new.banned = st.banned /\ new.pending = st.pending
      /\ new.requested = req
  BY <1>2, <1>5 DEF NodeState
<1> HIDE DEF new
<1>7. Sound(new)
  BY <1>6 DEF Sound
<1>8. Follows(new, st)
  BY <1>2, <1>6, <1>7, SMTT(30) DEF Follows, SentAs, LearnedAs
<1>9. QED
  BY <1>1, <1>4, <1>6, <1>8

LEMMA RequestTimeoutStep ==
  ASSUME IInv, NEW n \in Members, NEW k \in Key, RequestTimeout(n, k)
  PROVE  IInv'
<1> DEFINE M == mgr[n]
           requesting == {id \in DOMAIN M.states : k \in DOMAIN M.states[id].requested}
           a == [M.asked EXCEPT ![k].old = TRUE]
           f == [id \in DOMAIN M.states |->
                   IF id \in requesting THEN [M.states[id] EXCEPT !.requested[k] = TRUE] ELSE M.states[id]]
           N == [M EXCEPT !.asked = a, !.states = f]
           Asked == [node : Members \X Nat, old : BOOLEAN]
<1>1. /\ M \in Manager /\ Backed(n, M, created) /\ AskedOnce(M)
      /\ \A id \in DOMAIN M.states : Sound(M.states[id]) /\ Known(n, id)
  BY ManagerType DEF ManagerFits
<1>2. /\ k \in DOMAIN M.asked /\ mgr' = [mgr EXCEPT ![n] = N]
      /\ UNCHANGED <<scenario, voted, created, recovered, conn, chan, timeouts, retries>>
  <2>1. mgr' = [mgr EXCEPT ![n] = TimedOut(M, k)]
    BY DEF RequestTimeout
  <2>2. TimedOut(M, k) = N
    BY DEF TimedOut
  <2>3. k \in DOMAIN M.asked /\ UNCHANGED <<scenario, voted, created, recovered, conn, chan, timeouts, retries>>
    BY DEF RequestTimeout
  <2>4. QED
    BY <2>1, <2>2, <2>3
<1>3. /\ M.asked \in [DOMAIN M.asked -> Asked] /\ DOMAIN M.asked \subseteq Key
      /\ DOMAIN M.states \subseteq Members \X Nat
  <2>1. M.asked \in Map(Key, Asked) /\ M.states \in Map(Members \X Nat, NodeState)
    BY <1>1 DEF Manager
  <2> HIDE DEF Asked
  <2>2. QED
    BY <2>1, MapProperty
<1>4. /\ a \in [DOMAIN M.asked -> Asked] /\ DOMAIN a = DOMAIN M.asked /\ a[k].old
      /\ \A j \in DOMAIN M.asked \ {k} : a[j] = M.asked[j]
  BY <1>2, <1>3
<1>5. a \in Map(Key, Asked)
  <2> HIDE DEF a, Asked
  <2> QED
    BY <1>3, <1>4, MapProperty
<1> HIDE DEF a
<1>6. ASSUME NEW id \in DOMAIN M.states
      PROVE  /\ Follows(f[id], M.states[id]) /\ f[id].pending = M.states[id].pending
             /\ DOMAIN f[id].requested = DOMAIN M.states[id].requested
             /\ k \in DOMAIN f[id].requested => f[id].requested[k]
             /\ \A j \in DOMAIN f[id].requested \ {k} : f[id].requested[j] = M.states[id].requested[j]
  <2> DEFINE st == M.states[id]
  <2>1. CASE id \in requesting
    <3>1. f[id] = [st EXCEPT !.requested[k] = TRUE] /\ Sound(st) /\ k \in DOMAIN st.requested
      BY <1>1, <2>1
    <3> HIDE DEF f, st
    <3>2. QED
      BY <3>1, TimedOutChange, SMTT(30) DEF st
  <2>2. CASE id \notin requesting
    <3>1. f[id] = st /\ Sound(st) /\ k \notin DOMAIN st.requested
      BY <1>1, <2>2
    <3>2. QED
      BY <3>1, FollowsReflexive
  <2>3. QED
    BY <2>1, <2>2
<1>7. f \in Map(Members \X Nat, NodeState) /\ DOMAIN f = DOMAIN M.states
  <2>1. DOMAIN f = DOMAIN M.states
    OBVIOUS
  <2>2. \A id \in DOMAIN f : f[id] \in NodeState
    BY <1>6 DEF Follows, Sound
  <2>3. f \in [DOMAIN f -> NodeState]
    BY <2>2
  <2> HIDE DEF f
  <2>4. QED
    BY <1>3, <2>1, <2>3, MapProperty
<1> HIDE DEF f, M
<1>8. /\ N \in Manager /\ N.states = f /\ N.asked = a /\ N.verified = M.verified
      /\ N.sigShares = M.sigShares /\ N.signed = M.signed
  BY <1>1, <1>5, <1>7 DEF Manager
<1> HIDE DEF N
<1>9. AskedOnce(N)
  <2> SUFFICES ASSUME NEW id \in DOMAIN N.states, NEW j \in DOMAIN N.states[id].requested
               PROVE  /\ ~N.states[id].requested[j] =>
                           j \in DOMAIN N.asked /\ N.asked[j] = [node |-> id, old |-> FALSE]
                      /\ j \in DOMAIN N.asked /\ ~N.asked[j].old => N.asked[j].node = id
    BY DEF AskedOnce
  <2>1. id \in DOMAIN M.states /\ j \in DOMAIN M.states[id].requested /\ N.states[id] = f[id]
    BY <1>6, <1>7, <1>8
  <2>2. CASE j = k
    BY <1>4, <1>6, <1>8, <2>1, <2>2
  <2>3. CASE j # k
    <3>1. N.states[id].requested[j] = M.states[id].requested[j]
      BY <1>6, <2>1, <2>3
    <3>2. j \in DOMAIN N.asked <=> j \in DOMAIN M.asked
      BY <1>4, <1>8
    <3>3. j \in DOMAIN N.asked => N.asked[j] = M.asked[j]
      BY <1>4, <1>8, <2>3
    <3>4. QED
      BY <1>1, <2>1, <3>1, <3>2, <3>3, SMTT(30) DEF AskedOnce
  <2>4. QED
    BY <2>2, <2>3
<1>10. ManagerFits(N)
  BY <1>6, <1>7, <1>8, <1>9 DEF ManagerFits, Follows
<1>11. Backed(n, N, created')
  BY <1>1, <1>2, <1>6, <1>7, <1>8 DEF Backed
<1>12. \A id \in DOMAIN N.states : Known(n, id) /\ Follows(N.states[id], State(M, id))
  BY <1>1, <1>6, <1>7, <1>8 DEF State
<1>13. DOMAIN M.states \ DOMAIN N.states = {}
  BY <1>7, <1>8
<1>14. /\ recovered' \in [Members -> SUBSET Sessions] /\ created \subseteq created' /\ created' \subseteq Key
       /\ voted' \in [Members -> SUBSET Sessions] /\ timeouts' \in [Members -> Nat]
       /\ retries' \in 0..scenario.retries /\ \A m \in Members : timeouts'[m] <= retries'
  BY <1>2 DEF IInv, Types
<1>15. QED
  BY <1>2, <1>10, <1>11, <1>12, <1>13, <1>14, ManagerStep DEF M
-----------------------------------------------------------------------------
(* Messages *)

\* What handling a message may change: numbers get only the meaning that it gives them, and only
\* shares that it carries become pending.
HandledWell(new, st, m) ==
  /\ Sound(new) /\ new.nextId >= st.nextId /\ Shrunk(new.requested, st.requested)
  /\ \A k \in DOMAIN new.pending : k \in DOMAIN st.pending \/ (k \in Key /\ Carries(m, k))
  /\ \A i, s : SentAs(new, i, s) => SentAs(st, i, s)
  /\ \A i, s : LearnedAs(new, i, s) => LearnedAs(st, i, s) \/ Names(m, i, s)

LEMMA MessageTypes ==
  ASSUME NEW m \in Message
  PROVE  /\ m.type = "QSIGSESANN" => m.id \in Nat /\ m.session \in Sessions
         /\ m.type = "QSIGSHARESINV" => m.members \subseteq Members
         /\ m.type = "QGETSIGSHARES" => m.members \subseteq Members
         /\ m.type = "QBSIGSHARES" => m.id \in Nat /\ m.shares \subseteq Key
         /\ m.type = "QSIGSHARE" => m.share \in Key
         /\ m.type \in {"QSIGSESANN", "QSIGSHARESINV", "QGETSIGSHARES", "QBSIGSHARES", "QSIGSHARE"}
BY DEF Message

LEMMA HandledProperty ==
  ASSUME NEW n, NEW st, Sound(st), NEW m \in Message,
         \A i, s, r : Names(m, i, s) /\ LearnedAs(st, i, r) => r = s
  PROVE  HandledWell(Handled(n, st, m), st, m)
<1>1. st.nextId \in Nat
  BY DEF Sound, NodeState
<1>2. ASSUME NEW new, NEW keys, Changes(new, st, keys), \A k \in keys : k \in Key /\ Carries(m, k)
      PROVE  HandledWell(new, st, m)
  BY <1>2 DEF Changes, Follows, HandledWell
<1>3. CASE m.type = "QSIGSESANN"
  <2> DEFINE new == ProcessMessageSigSesAnn(n, st, m)
  <2>1. Handled(n, st, m) = new
    BY <1>3 DEF Handled
  <2>2. /\ Sound(new) /\ new.nextId = st.nextId
        /\ new.requested = st.requested /\ new.pending = st.pending
        /\ \A i, s : SentAs(new, i, s) => SentAs(st, i, s)
        /\ \A i, s : LearnedAs(new, i, s) => LearnedAs(st, i, s) \/ (i = m.id /\ s = m.session)
    BY <1>3, MessageTypes, SesAnnChange, SMTT(30)
  <2>3. QED
    <3> HIDE DEF new
    <3>1. HandledWell(new, st, m)
      BY <1>1, <1>3, <2>2, SMTT(30) DEF HandledWell, Names, Shrunk
    <3>2. QED
      BY <2>1, <3>1
<1>4. CASE m.type = "QSIGSHARESINV"
  BY <1>2, <1>4, MessageTypes, InvChange, SMTT(30) DEF Handled
<1>5. CASE m.type = "QGETSIGSHARES"
  BY <1>2, <1>5, MessageTypes, GetChange, SMTT(30) DEF Handled
<1>6. CASE m.type = "QBSIGSHARES"
  <2> DEFINE new == ProcessMessageBatchedSigShares(n, st, m)
  <2>1. \A k \in m.shares : \A i : m.id = i /\ i \in DOMAIN st.byRecvId => k[1] = st.byRecvId[i]
    BY <1>6 DEF Names, LearnedAs
  <2>2. m.shares \subseteq Key /\ \A k \in m.shares : Carries(m, k)
    BY <1>6, MessageTypes DEF Carries
  <2>3. Changes(new, st, m.shares)
    BY <2>1, <2>2, BatchChange
  <2>4. Handled(n, st, m) = new
    BY <1>6 DEF Handled
  <2> HIDE DEF new
  <2>5. QED
    BY <1>2, <2>2, <2>3, <2>4
<1>7. CASE m.type = "QSIGSHARE"
  <2> DEFINE new == ProcessMessageSigShare(n, st, m)
  <2>1. m.share \in Key /\ Carries(m, m.share)
    BY <1>7, MessageTypes DEF Carries
  <2>2. Changes(new, st, {m.share})
    BY <2>1, ShareChange
  <2>3. Handled(n, st, m) = new
    BY <1>7 DEF Handled
  <2> HIDE DEF new
  <2>4. QED
    BY <1>2, <2>1, <2>2, <2>3, SMTT(30)
<1>8. QED
  BY <1>3, <1>4, <1>5, <1>6, <1>7, MessageTypes

LEMMA HeadProperty ==
  ASSUME NEW q \in Seq(Message), q # <<>>
  PROVE  /\ Head(q) \in Message /\ Tail(q) \in Seq(Message)
         /\ 1 \in DOMAIN q /\ Head(q) = q[1]
         /\ \A j \in DOMAIN Tail(q) : j + 1 \in DOMAIN q /\ Tail(q)[j] = q[j + 1]
BY SMTT(30)

LEMMA NodeIdsDiffer ==
  \A n, p, q : NodeId(n, p) = NodeId(n, q) => p = q
BY DEF NodeId
LEMMA MessageStep ==
  ASSUME IInv, NEW n \in Members, NEW p \in Members, ProcessMessage(n, p)
  PROVE  IInv'
<1> DEFINE M == mgr[n]
           id == NodeId(n, p)
           q == chan[p][n]
           m == Head(q)
           st == State(M, id)
           new == Handled(n, st, m)
           f == Put(M.states, id, new)
           N == WithState(M, id, new)
<1>1. /\ M \in Manager /\ Backed(n, M, created) /\ AskedOnce(M) /\ mgr \in [Members -> Manager]
      /\ \A x \in DOMAIN M.states : Sound(M.states[x]) /\ Known(n, x)
  BY ManagerType DEF ManagerFits, IInv, Types
<1>2. /\ Linked(n, p) /\ p # n /\ q # <<>>
      /\ mgr' = [mgr EXCEPT ![n] = N] /\ chan' = [chan EXCEPT ![p][n] = Tail(q)]
      /\ UNCHANGED <<scenario, voted, created, recovered, conn, timeouts, retries>>
  <2>1. mgr' = [mgr EXCEPT ![n] = N]
    BY DEF ProcessMessage
  <2>2. chan' = [chan EXCEPT ![p][n] = Tail(q)]
    BY DEF ProcessMessage
  <2>3. QED
    BY <2>1, <2>2 DEF ProcessMessage, Linked
<1>3. q \in Seq(Message)
  BY SMTT(30) DEF IInv, Types
<1>4. /\ m \in Message /\ Tail(q) \in Seq(Message) /\ 1 \in DOMAIN q /\ m = q[1]
      /\ \A j \in DOMAIN Tail(q) : j + 1 \in DOMAIN q /\ Tail(q)[j] = q[j + 1]
  BY <1>2, <1>3, HeadProperty
<1>5. Sound(st) /\ id \in Members \X Nat /\ Known(n, id) /\ id[1] = p
  BY <1>2, StateSound, NodeIdType, LinkKnown
<1>6. \A i, s : Names(m, i, s) => Means(p, n, i, s)
  BY <1>4 DEF Means, InChannel
<1>7. \A i, s, r : Names(m, i, s) /\ LearnedAs(st, i, r) => r = s
  <2>1. \A i, r : LearnedAs(st, i, r) => Means(p, n, i, r)
    BY DEF Means
  <2>2. QED
    BY <1>2, <1>6, <2>1 DEF IInv, NumbersAgree
<1>8. HandledWell(new, st, m)
  <2> HIDE DEF m, st
  <2> QED
    BY <1>4, <1>5, <1>7, HandledProperty
<1>9. \A k \in Key : Carries(m, k) => k \in created
  BY <1>4, SMTT(30) DEF IInv, Channels
<1> HIDE DEF M, id, m, st, new, q
<1>10. /\ M.states \in Map(Members \X Nat, NodeState) /\ new \in NodeState
       /\ M.states \in [DOMAIN M.states -> NodeState]
  BY <1>1, <1>8, MapProperty DEF Manager, HandledWell, Sound
<1>11. f \in Map(Members \X Nat, NodeState)
  BY <1>5, <1>10, PutType
<1>12. /\ DOMAIN f = DOMAIN M.states \cup {id} /\ f[id] = new
       /\ \A x \in DOMAIN M.states : x # id => f[x] = M.states[x]
  BY DEF Put
<1> HIDE DEF f
<1>13. /\ N \in Manager /\ N.states = f /\ N.asked = M.asked /\ N.verified = M.verified
       /\ N.sigShares = M.sigShares /\ N.signed = M.signed
  BY <1>1, <1>11 DEF WithState, Manager, f
<1> HIDE DEF N
<1>14. \A x : x # id => State(N, x) = State(M, x)
  BY <1>12, <1>13 DEF State
<1>15. State(N, id) = new
  BY <1>12, <1>13 DEF State
<1>16. AskedOnce(N)
  <2> SUFFICES ASSUME NEW x \in DOMAIN N.states, NEW k \in DOMAIN N.states[x].requested
               PROVE  /\ ~N.states[x].requested[k] =>
                           k \in DOMAIN N.asked /\ N.asked[k] = [node |-> x, old |-> FALSE]
                      /\ k \in DOMAIN N.asked /\ ~N.asked[k].old => N.asked[k].node = x
    BY DEF AskedOnce
  <2>1. /\ x \in DOMAIN M.states /\ k \in DOMAIN M.states[x].requested
        /\ N.states[x].requested[k] = M.states[x].requested[k]
    <3>1. CASE x = id
      <4>1. k \in DOMAIN st.requested /\ N.states[x].requested[k] = st.requested[k]
        BY <1>8, <1>12, <1>13, <3>1 DEF HandledWell, Shrunk
      <4>2. id \in DOMAIN M.states /\ st = M.states[id]
        BY <4>1, EmptyMap DEF st, State, NewNodeState
      <4>3. QED
        BY <3>1, <4>1, <4>2
    <3>2. CASE x # id
      BY <1>12, <1>13, <3>2
    <3>3. QED
      BY <3>1, <3>2
  <2>2. QED
    BY <1>1, <1>13, <2>1, SMTT(30) DEF AskedOnce
<1>17. ManagerFits(N)
  BY <1>1, <1>8, <1>12, <1>13, <1>16 DEF ManagerFits, HandledWell
<1>18. Backed(n, N, created)
  <2>1. DOMAIN st.pending \subseteq created
    BY <1>1, EmptyMap DEF st, State, NewNodeState, Backed
  <2>2. \A x \in DOMAIN N.states : DOMAIN N.states[x].pending \subseteq created
    BY <1>1, <1>8, <1>9, <1>12, <1>13, <2>1 DEF HandledWell, Backed
  <2>3. QED
    BY <1>1, <1>13, <2>2 DEF Backed
<1>19. /\ mgr' \in [Members -> Manager] /\ mgr'[n] = N /\ \A x \in Members \ {n} : mgr'[x] = mgr[x]
  BY <1>1, <1>2, <1>13
<1>20. /\ chan' \in [Members -> [Members -> Seq(Message)]] /\ chan'[p][n] = Tail(q)
       /\ \A x, y \in Members : <<x, y>> # <<p, n>> => chan'[x][y] = chan[x][y]
  BY <1>2, <1>4 DEF IInv, Types
<1>21. Types'
  BY <1>2, <1>19, <1>20 DEF IInv, Types
<1>22. \A x \in Members : \A y : (Known(x, y)' <=> Known(x, y)) /\ (Linked(x, y)' <=> Linked(x, y))
  BY <1>2 DEF Known, Linked, AllConnected
<1>23. ASSUME NEW x \in Members
       PROVE  /\ ManagerFits(mgr'[x]) /\ Backed(x, mgr'[x], created') /\ timeouts'[x] <= retries'
              /\ \A y \in DOMAIN mgr'[x].states : Known(x, y)'
  <2>1. CASE x = n
    BY <1>1, <1>2, <1>5, <1>12, <1>13, <1>17, <1>18, <1>19, <1>22, <2>1, SMTT(30) DEF IInv
  <2>2. CASE x # n
    BY <1>2, <1>19, <1>22, <2>2 DEF IInv
  <2>3. QED
    BY <2>1, <2>2
<1>24. \A x, y \in Members : \A j \in DOMAIN chan'[x][y] :
         \E h \in DOMAIN chan[x][y] : chan'[x][y][j] = chan[x][y][h]
  <2> TAKE x, y \in Members
  <2>1. CASE <<x, y>> = <<p, n>>
    <3>1. x = p /\ y = n
      BY <2>1
    <3>2. chan'[x][y] = Tail(q) /\ chan[x][y] = q
      BY <1>20, <3>1 DEF q
    <3>3. QED
      BY <1>4, <3>2
  <2>2. CASE <<x, y>> # <<p, n>>
    BY <1>20, <2>2
  <2>3. QED
    BY <2>1, <2>2
<1>25. Channels'
  <2>1. Linked(p, n)
    BY <1>2, PairsSymmetric DEF Linked
  <2>2. ASSUME NEW x \in Members, NEW y \in Members, ~Linked(x, y)' PROVE chan'[x][y] = <<>>
    BY <1>20, <1>22, <2>1, <2>2 DEF IInv, Channels
  <2>3. ASSUME NEW x \in Members, NEW y \in Members, NEW j \in DOMAIN chan'[x][y], NEW k \in Key,
               Carries(chan'[x][y][j], k)
        PROVE  k \in created'
    BY <1>2, <1>24, <2>3, SMTT(30) DEF IInv, Channels
  <2>4. QED
    BY <2>2, <2>3 DEF Channels, Carries
<1>26. \A x, y \in Members : NodeId(x, y)' = NodeId(x, y)
  BY <1>2 DEF NodeId
<1>27. NumbersAgree'
  <2>1. NumbersAgree
    BY DEF IInv
  <2>2. ASSUME NEW a \in Members, NEW b \in Members, a # b, NEW i, NEW s, Means(a, b, i, s)'
        PROVE  /\ Means(a, b, i, s)
               /\ State(mgr[a], NodeId(a, b)).nextId \in Nat
               /\ State(mgr[a], NodeId(a, b))'.nextId \in Nat
               /\ State(mgr[a], NodeId(a, b))'.nextId >= State(mgr[a], NodeId(a, b)).nextId
    <3> DEFINE A == State(mgr[a], NodeId(a, b))
               B == State(mgr[b], NodeId(b, a))
    <3>1. A' = State(mgr'[a], NodeId(a, b)) /\ B' = State(mgr'[b], NodeId(b, a))
      BY <1>26 DEF State
    <3>2. \A x, y \in Members : x # n => State(mgr'[x], NodeId(x, y)) = State(mgr[x], NodeId(x, y))
      BY <1>19
    <3>3. \A y \in Members : y # p => State(mgr'[n], NodeId(n, y)) = State(mgr[n], NodeId(n, y))
      BY <1>14, <1>19, NodeIdsDiffer DEF M, id
    <3>4. State(mgr'[n], NodeId(n, p)) = new /\ State(mgr[n], NodeId(n, p)) = st
      BY <1>15, <1>19 DEF id, st, M
    <3>5. \/ A' = A
          \/ a = n /\ b = p /\ A' = new /\ A = st
      BY <3>1, <3>2, <3>3, <3>4
    <3>6. \/ B' = B
          \/ b = n /\ a = p /\ B' = new /\ B = st
      BY <3>1, <3>2, <3>3, <3>4
    <3>7. Sound(A) /\ A.nextId \in Nat /\ st.nextId \in Nat /\ new.nextId \in Nat /\ new.nextId >= st.nextId
      <4>1. Sound(A) /\ Sound(st) /\ Sound(new) /\ new.nextId >= st.nextId
        BY <1>5, <1>8, StateSound DEF HandledWell
      <4> HIDE DEF A
      <4>2. QED
        BY <4>1 DEF Sound, NodeState
    <3>8. SentAs(A', i, s) \/ LearnedAs(B', i, s) \/ InChannel(chan'[a][b], i, s)
      BY <2>2, <3>1 DEF Means, SentAs, LearnedAs, InChannel, Names
    <3>9. InChannel(chan'[a][b], i, s) => InChannel(chan[a][b], i, s)
      BY <1>24 DEF InChannel
    <3>10. \A x, y : (SentAs(A, x, y) \/ LearnedAs(B, x, y) \/ InChannel(chan[a][b], x, y)) => Means(a, b, x, y)
      BY DEF Means
    <3> HIDE DEF A, B
    <3>11. SentAs(A', i, s) => SentAs(A, i, s)
      BY <1>8, <3>5 DEF HandledWell
    <3>12. LearnedAs(B', i, s) => LearnedAs(B, i, s) \/ Means(a, b, i, s)
      BY <1>6, <1>8, <3>6 DEF HandledWell
    <3>13. Means(a, b, i, s)
      BY <3>8, <3>9, <3>10, <3>11, <3>12
    <3>14. A'.nextId \in Nat /\ A'.nextId >= A.nextId
      BY <3>5, <3>7, SMTT(30)
    <3>15. QED
      BY <3>7, <3>13, <3>14 DEF A
  <2>3. QED
    BY <2>1, <2>2, NumbersShrink
<1>28. QED
  BY <1>21, <1>23, <1>25, <1>27 DEF IInv
-----------------------------------------------------------------------------
(* Connections *)

LEMMA KnownLost ==
  ASSUME IInv, NEW n \in Members, NEW id \in DOMAIN mgr[n].states
  PROVE  id \in (Members \ {n}) \X (0..MaxLost) /\ id[2] <= conn[{n, id[1]}].lost
<1>1. id \in Members \X Nat
  BY MapProperty, ManagerType DEF Manager
<1>2. id[1] \in Members \ {n} /\ id[2] <= conn[{n, id[1]}].lost
  BY ManagerType DEF Known
<1>3. conn[{n, id[1]}].lost \in 0..MaxLost
  BY <1>2, NodeIdType
<1>4. id[2] \in 0..MaxLost
  BY <1>1, <1>2, <1>3, ParameterAssumption, SMTT(30)
<1>5. QED
  BY <1>1, <1>2, <1>4

LEMMA DisconnectStep ==
  ASSUME IInv, NEW n \in Members, NEW p \in Members, Disconnect(n, p)
  PROVE  IInv'
<1> DEFINE l == {n, p}
           lost == conn[l].lost
<1>1. /\ n # p /\ lost < MaxLost /\ conn' = [conn EXCEPT ![l] = [up |-> FALSE, lost |-> lost + 1]]
      /\ UNCHANGED <<scenario, mgr, voted, created, recovered, timeouts, retries>>
  BY DEF Disconnect, Linked
<1>2. l \in Pairs /\ lost \in 0..MaxLost /\ conn \in [Pairs -> [up : BOOLEAN, lost : 0..MaxLost]]
  BY PairsSymmetric, NodeIdType DEF IInv, Types
<1>3. /\ chan' \in [Members -> [Members -> Seq(Message)]] /\ chan'[n][p] = <<>> /\ chan'[p][n] = <<>>
      /\ \A x, y \in Members : {x, y} # l => chan'[x][y] = chan[x][y]
  <2> DEFINE c == [chan EXCEPT ![n][p] = <<>>]
  <2>1. chan' = [c EXCEPT ![p][n] = <<>>] /\ chan \in [Members -> [Members -> Seq(Message)]]
    BY DEF IInv, Types, Disconnect
  <2>2. <<>> \in Seq(Message)
    BY SMTT(30)
  <2>3. /\ c \in [Members -> [Members -> Seq(Message)]] /\ c[n][p] = <<>>
        /\ \A x, y \in Members : ~(x = n /\ y = p) => c[x][y] = chan[x][y]
    BY <2>1, <2>2
  <2> HIDE DEF c
  <2>4. /\ chan' \in [Members -> [Members -> Seq(Message)]] /\ chan'[p][n] = <<>>
        /\ \A x, y \in Members : ~(x = p /\ y = n) => chan'[x][y] = c[x][y]
    BY <2>1, <2>2, <2>3
  <2>5. \A x, y \in Members : {x, y} # l => ~(x = n /\ y = p) /\ ~(x = p /\ y = n)
    OBVIOUS
  <2>6. ASSUME NEW x \in Members, NEW y \in Members, {x, y} # l PROVE chan'[x][y] = chan[x][y]
    BY <2>3, <2>4, <2>5, <2>6
  <2>7. chan'[n][p] = <<>>
    BY <1>1, <2>3, <2>4
  <2>8. QED
    BY <2>4, <2>6, <2>7
<1>4. /\ conn' \in [Pairs -> [up : BOOLEAN, lost : 0..MaxLost]]
      /\ conn'[l].lost = lost + 1 /\ ~conn'[l].up
      /\ \A x \in Pairs \ {l} : conn'[x] = conn[x]
  <2> HIDE DEF l, lost
  <2>1. lost + 1 \in 0..MaxLost
    BY <1>1, <1>2, ParameterAssumption, SMTT(30)
  <2>2. QED
    BY <1>1, <1>2, <2>1
<1>5. \A x, y \in Members : {x, y} = l => (x = n /\ y = p) \/ (x = p /\ y = n)
  OBVIOUS
<1>6. lost \in Nat
  BY <1>2, ParameterAssumption, SMTT(30)
<1> HIDE DEF l, lost
<1>7. \A x, y \in Members : {x, y} # l => (Linked(x, y)' <=> Linked(x, y)) /\ NodeId(x, y)' = NodeId(x, y)
  BY <1>1, <1>4, PairsSymmetric DEF Linked, NodeId, AllConnected
<1>8. \A x, y \in Members : {x, y} = l => ~Linked(x, y)' /\ chan'[x][y] = <<>>
  BY <1>3, <1>4, <1>5 DEF Linked
<1>9. ASSUME NEW x \in Members, NEW id \in DOMAIN mgr[x].states PROVE Known(x, id)'
  <2>1. id[1] \in Members \ {x} /\ id[2] \in Nat /\ id[2] <= conn[{x, id[1]}].lost /\ Known(x, id)
    <3>1. id \in (Members \ {x}) \X (0..MaxLost) /\ id[2] <= conn[{x, id[1]}].lost
      BY KnownLost
    <3>2. id[1] \in Members \ {x} /\ id[2] \in Nat
      BY <3>1, ParameterAssumption, SMTT(30)
    <3>3. QED
      BY <3>1, <3>2, ManagerType
  <2>2. CASE {x, id[1]} = l
    <3>1. id[2] <= lost
      BY <2>1, <2>2 DEF lost
    <3>2. conn'[{x, id[1]}].lost = lost + 1
      BY <1>4, <2>2
    <3>3. QED
      BY <1>6, <2>1, <3>1, <3>2, SMTT(30) DEF Known
  <2>3. CASE {x, id[1]} # l
    <3>1. conn'[{x, id[1]}] = conn[{x, id[1]}] /\ (Linked(x, id[1])' <=> Linked(x, id[1]))
      BY <1>4, <1>7, <2>1, <2>3, PairsSymmetric
    <3>2. QED
      BY <2>1, <3>1 DEF Known
  <2>4. QED
    BY <2>2, <2>3
<1>10. Types'
  BY <1>1, <1>3, <1>4 DEF IInv, Types
<1>11. Channels'
  <2>1. ASSUME NEW x \in Members, NEW y \in Members
        PROVE  /\ ~Linked(x, y)' => chan'[x][y] = <<>>
               /\ \A j \in DOMAIN chan'[x][y], k \in Key : Carries(chan'[x][y][j], k) => k \in created'
    <3>1. CASE {x, y} = l
      BY <1>8, <3>1, SMTT(30)
    <3>2. CASE {x, y} # l
      <4>1. chan'[x][y] = chan[x][y] /\ (Linked(x, y)' <=> Linked(x, y)) /\ created' = created
        BY <1>1, <1>3, <1>7, <3>2
      <4>2. QED
        BY <4>1 DEF IInv, Channels
    <3>3. QED
      BY <3>1, <3>2
  <2>2. QED
    BY <2>1 DEF Channels, Carries
<1>12. NumbersAgree'
  <2>1. NumbersAgree
    BY DEF IInv
  <2>2. ASSUME NEW a \in Members, NEW b \in Members, a # b, NEW i, NEW s, Means(a, b, i, s)'
        PROVE  /\ Means(a, b, i, s)
               /\ State(mgr[a], NodeId(a, b)).nextId \in Nat
               /\ State(mgr[a], NodeId(a, b))'.nextId \in Nat
               /\ State(mgr[a], NodeId(a, b))'.nextId >= State(mgr[a], NodeId(a, b)).nextId
    <3> DEFINE A == State(mgr[a], NodeId(a, b))
               B == State(mgr[b], NodeId(b, a))
    <3>1. SentAs(A', i, s) \/ LearnedAs(B', i, s) \/ InChannel(chan'[a][b], i, s)
      BY <2>2 DEF Means, SentAs, LearnedAs, InChannel, Names
    <3>2. A' = State(mgr[a], NodeId(a, b)') /\ B' = State(mgr[b], NodeId(b, a)')
      BY <1>1 DEF State
    <3>3. CASE {a, b} = l
      <4>1. {b, a} = l
        BY <3>3
      <4>2. ASSUME NEW x \in Members, NEW y \in Members, {x, y} = l PROVE NodeId(x, y)' \notin DOMAIN mgr[x].states
        <5>1. NodeId(x, y)' = <<y, lost + 1>>
          BY <1>4, <4>2 DEF NodeId
        <5>2. SUFFICES ASSUME <<y, lost + 1>> \in DOMAIN mgr[x].states PROVE FALSE
          BY <5>1
        <5>3. lost + 1 <= conn[{x, y}].lost
          BY <5>2, KnownLost
        <5>4. QED
          BY <1>6, <4>2, <5>3, SMTT(30) DEF lost
      <4>3. A' = NewNodeState /\ B' = NewNodeState
        BY <3>2, <3>3, <4>1, <4>2 DEF State
      <4>4. ~InChannel(chan'[a][b], i, s)
        BY <1>8, <3>3, SMTT(30) DEF InChannel
      <4>5. QED
        BY <3>1, <4>3, <4>4, NewStateSound
    <3>4. CASE {a, b} # l
      <4>1. A' = A /\ B' = B /\ chan'[a][b] = chan[a][b]
        BY <1>3, <1>7, <3>2, <3>4, PairsSymmetric
      <4>2. Means(a, b, i, s)
        BY <3>1, <4>1 DEF Means
      <4>3. Sound(A)
        BY StateSound
      <4> HIDE DEF A
      <4>4. A.nextId \in Nat
        BY <4>3 DEF Sound, NodeState
      <4>5. QED
        BY <4>1, <4>2, <4>4, SMTT(30) DEF A
    <3>5. QED
      BY <3>3, <3>4
  <2>3. QED
    BY <2>1, <2>2, NumbersShrink
<1>13. QED
  BY <1>1, <1>9, <1>10, <1>11, <1>12 DEF IInv
LEMMA ReconnectStep ==
  ASSUME IInv, NEW n \in Members, NEW p \in Members, Reconnect(n, p)
  PROVE  IInv'
<1> DEFINE l == {n, p}
<1>1. /\ conn' = [conn EXCEPT ![l].up = TRUE] /\ ~conn[l].up
      /\ UNCHANGED <<scenario, mgr, voted, created, recovered, chan, timeouts, retries>>
  BY DEF Reconnect
<1>2. l \in Pairs /\ conn \in [Pairs -> [up : BOOLEAN, lost : 0..MaxLost]]
  BY PairsSymmetric DEF IInv, Types
<1> HIDE DEF l
<1>3. /\ conn' \in [Pairs -> [up : BOOLEAN, lost : 0..MaxLost]]
      /\ \A x \in Pairs : conn'[x].lost = conn[x].lost /\ (conn[x].up => conn'[x].up)
  BY <1>1, <1>2
<1>4. \A x, y \in Members : (Linked(x, y) => Linked(x, y)') /\ NodeId(x, y)' = NodeId(x, y)
  BY <1>1, <1>3, PairsSymmetric DEF Linked, NodeId, AllConnected
<1>5. ASSUME NEW x \in Members, NEW id \in DOMAIN mgr[x].states PROVE Known(x, id)'
  <2>1. Known(x, id)
    BY ManagerType
  <2>2. id[1] \in Members /\ conn'[{x, id[1]}].lost = conn[{x, id[1]}].lost
    BY <1>3, <2>1, PairsSymmetric DEF Known
  <2>3. QED
    BY <1>4, <2>1, <2>2 DEF Known
<1>6. Types'
  BY <1>1, <1>3 DEF IInv, Types
<1>7. Channels'
  BY <1>1, <1>4, SMTT(30) DEF IInv, Channels, Carries
<1>8. NumbersAgree'
  <2>1. NumbersAgree
    BY DEF IInv
  <2>2. \A a, b \in Members : State(mgr[a], NodeId(a, b))' = State(mgr[a], NodeId(a, b))
    BY <1>1, <1>4 DEF State
  <2>3. \A a, b \in Members : \A i, s : Means(a, b, i, s)' => Means(a, b, i, s)
    BY <1>1, <2>2, SMTT(30) DEF Means, SentAs, LearnedAs, InChannel, Names
  <2>4. \A a, b \in Members : State(mgr[a], NodeId(a, b)).nextId \in Nat
    <3> TAKE a, b \in Members
    <3> DEFINE st == State(mgr[a], NodeId(a, b))
    <3>1. Sound(st)
      BY StateSound
    <3> HIDE DEF st
    <3>2. st.nextId \in Nat
      BY <3>1 DEF Sound, NodeState
    <3>3. QED
      BY <3>2 DEF st
  <2>5. ASSUME NEW a \in Members, NEW b \in Members, a # b, NEW i, NEW s, Means(a, b, i, s)'
        PROVE  /\ Means(a, b, i, s)
               /\ State(mgr[a], NodeId(a, b)).nextId \in Nat
               /\ State(mgr[a], NodeId(a, b))'.nextId \in Nat
               /\ State(mgr[a], NodeId(a, b))'.nextId >= State(mgr[a], NodeId(a, b)).nextId
    BY <2>2, <2>3, <2>4, <2>5, SMTT(30)
  <2>6. QED
    BY <2>1, <2>5, NumbersShrink
<1>9. QED
  BY <1>1, <1>5, <1>6, <1>7, <1>8 DEF IInv
=============================================================================
