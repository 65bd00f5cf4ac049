------------------------- MODULE SigShareExchange -------------------------
(***************************************************************************)
(* How signature shares travel between the members of one quorum: the      *)
(* CSigSharesManager of every member (src/llmq/signing_shares.cpp).        *)
(*                                                                         *)
(* Without all members connected, a member pushes its own share to its     *)
(* quorum neighbours; a share it verified is announced to the neighbours   *)
(* that do not know it (QSIGSHARESINV), asked for (QGETSIGSHARES), from    *)
(* one neighbour at a time and from another after a timeout, and answered  *)
(* (QBSIGSHARES).  These messages name a session by a number that the      *)
(* sender chose and announced first (QSIGSESANN).  With all members        *)
(* connected, a member sends its share to the recovery members, one after  *)
(* the other, until a signature is recovered (QSIGSHARE).                  *)
(*                                                                         *)
(* Every message is handled in one step.  The worker thread processes one  *)
(* verified share per step, each of its other functions is one step.       *)
(* Members follow the protocol, but may be slow or hang.                   *)
(***************************************************************************)
EXTENDS Integers, FiniteSets, Sequences, Functions

CONSTANTS
  Members,         \* indexes of the members in the quorum
  Sessions,        \* signing sessions, numbered
  SignHashOf,      \* the quorum (with these members), id and msg of a session
  Threshold,       \* the LLMQ type's threshold parameter
  Scenarios,       \* see Scenario
  RecoveryOrder,   \* members as SelectMemberForRecovery sorts them
  RecoveryMembers, \* the LLMQ type's recoveryMembers parameter
  MaxRequests,     \* maxRequestsForNode
  MaxLost,         \* bound: how often a connection is lost
  MaxRetries,      \* bound: session timeouts and repeated requests
  Slow             \* members that may stop at any moment

ASSUME MembersAssumption ==
  Members \subseteq Nat /\ Sessions \subseteq Nat /\ IsFiniteSet(Members) /\ IsFiniteSet(Sessions)
\* A session is what BuildSignHash hashes.
ASSUME SignHashAssumption ==
  /\ \A s \in Sessions : SignHashOf[s] = [quorum |-> SignHashOf[s].quorum, id |-> SignHashOf[s].id,
                                         msg |-> SignHashOf[s].msg]
  /\ \A s, r \in Sessions : SignHashOf[s] = SignHashOf[r] => s = r
  /\ \A s \in Sessions : SignHashOf[s].msg # "none"
ASSUME ParameterAssumption ==
  /\ Threshold \in Nat \ {0} /\ RecoveryMembers \in Nat /\ MaxRequests \in Nat
  /\ RecoveryOrder \in Seq(Members) /\ RecoveryMembers <= Len(RecoveryOrder)
  /\ MaxLost \in Nat /\ MaxRetries \in Nat

Pairs == {{n, p} : n, p \in Members}

\* The circumstances of a behaviour: whether all members are connected
\* (IsAllMembersConnectedEnabled) or only the pairs in links (those that
\* GetQuorumRelayMembers connects), which connections may be lost and come
\* back, who is asked to sign what, and a bound on the session timeouts and new
\* requests.
Scenario == [allConnected : BOOLEAN, links : SUBSET Pairs, fragile : SUBSET Pairs,
             returning : SUBSET Pairs, asked : [Members -> SUBSET Sessions],
             retries : 0..MaxRetries]

ASSUME ScenariosAssumption == \A sc \in Scenarios : sc \in Scenario

VARIABLES
  scenario,   \* the scenario of this behaviour
  mgr,        \* mgr[n]: the maps of n's CSigSharesManager
  voted,      \* voted[n]: sessions n agreed to sign, its votes on disk
  created,    \* the shares that were created to be sent (a history variable)
  recovered,  \* recovered[n]: sessions with a recovered signature at n
  conn,       \* conn[l]: whether link l is up, how often it went down
  chan,       \* chan[n][p]: messages from n that p has not read yet
  timeouts,   \* timeouts[n]: sessions that timed out at n so far
  retries     \* session timeouts and repeated requests so far

vars == <<scenario, mgr, voted, created, recovered, conn, chan, timeouts, retries>>

AllConnected == scenario.allConnected

\* UNINITIALIZED_SESSION_ID
NoId == 0

\* SigShareKey
Key == Sessions \X Members

NewSession == [recvId |-> NoId, sendId |-> NoId,
               announced |-> {}, requested |-> {}, knows |-> {}]

\* CSigSharesNodeState.  pending maps a share to whether its signature is
\* valid, requested maps it to whether the request timed out.
NewNodeState == [sessions |-> <<>>, byRecvId |-> <<>>, nextId |-> 1,
                 pending |-> <<>>, requested |-> <<>>, banned |-> FALSE]

NewManager == [pendingSigns |-> {}, verified |-> {}, sigShares |-> {}, queued |-> {},
               signed |-> <<>>, states |-> <<>>, asked |-> <<>>]

Init ==
  /\ scenario \in Scenarios
  /\ mgr = [n \in Members |-> NewManager]
  /\ voted = [n \in Members |-> {}]
  /\ recovered = [n \in Members |-> {}]
  /\ conn = [l \in Pairs |-> [up |-> TRUE, lost |-> 0]]
  /\ chan = [n \in Members |-> [p \in Members |-> <<>>]]
  /\ created = {}
  /\ timeouts = [n \in Members |-> 0]
  /\ retries = 0
-----------------------------------------------------------------------------
Linked(n, p) == p # n /\ (AllConnected \/ {n, p} \in scenario.links) /\ conn[{n, p}].up

\* NodeId of p at n: a new connection has a new one.
NodeId(n, p) == <<p, conn[{n, p}].lost>>

\* CConnman::GetMasternodeQuorumNodes
QuorumNodes(n) == {NodeId(n, p) : p \in {p \in Members : Linked(n, p)}}

\* nodeStates[id], which creates the entry
State(M, id) == IF id \in DOMAIN M.states THEN M.states[id] ELSE NewNodeState

SameId(s, r) == SignHashOf[s].id = SignHashOf[r].id

HasRecoveredSigForId(n, s) == \E r \in recovered[n] : SameId(s, r)
HasRecoveredSigForSession(n, s) == s \in recovered[n]

\* GetOrCreateSessionFromShare, GetOrCreateSessionFromAnn
Session(st, s) == IF s \in DOMAIN st.sessions THEN st.sessions[s] ELSE NewSession

\* Map f with its value for k set to v; map g, overridden by f; f without the keys K.
Put(f, k, v) == [x \in DOMAIN f \cup {k} |-> IF x = k THEN v ELSE f[x]]
Override(f, g) == [x \in DOMAIN f \cup DOMAIN g |-> IF x \in DOMAIN f THEN f[x] ELSE g[x]]
Without(f, K) == Restrict(f, DOMAIN f \ K)

\* EraseAllForSignHash
WithoutSessions(f, S) == Restrict(f, {k \in DOMAIN f : k[1] \notin S})

WithSession(st, s, session) == [st EXCEPT !.sessions = Put(@, s, session)]
WithState(M, id, st) == [M EXCEPT !.states = Put(@, id, st)]

\* Mutant: the number of a removed session stays.
RemoveSessionKeepingId(st, S) ==
  [st EXCEPT !.sessions = Without(@, S),
             !.requested = WithoutSessions(@, S),
             !.pending = WithoutSessions(@, S)]

\* CSigSharesNodeState::RemoveSession
RemoveSession(st, S) ==
  LET gone == {st.sessions[s].recvId : s \in S \cap DOMAIN st.sessions}
  IN [st EXCEPT !.byRecvId = Without(@, gone),
                !.sessions = Without(@, S),
                !.requested = WithoutSessions(@, S),
                !.pending = WithoutSessions(@, S)]

RemoveSigSharesForSession(M, S) ==
  [M EXCEPT !.states = [id \in DOMAIN @ |-> RemoveSession(@[id], S)],
            !.asked = WithoutSessions(@, S),
            !.queued = {k \in @ : k[1] \notin S},
            !.sigShares = {k \in @ : k[1] \notin S},
            !.signed = Without(@, S)]

\* The entries of asked (sigSharesRequested) that nodes ids still have open
\* are erased, so that somebody else is asked.
ReleaseRequests(M, ids) ==
  LET keys == UNION {DOMAIN M.states[id].requested : id \in ids}
  IN [M EXCEPT !.asked = Without(@, keys)]

BanNode(M, ids) ==
  [ReleaseRequests(M, ids) EXCEPT !.states =
     [id \in DOMAIN @ |-> IF id \in ids
                          THEN [@[id] EXCEPT !.requested = <<>>, !.banned = TRUE]
                          ELSE @[id]]]

\* Mutant: a share is kept although the id has a recovered signature.
ProcessSigShareAnyId(n, M, k, signed) ==
  LET new  == {k} \ M.sigShares
      kept == [M EXCEPT !.sigShares = @ \cup new,
                        !.queued = IF AllConnected THEN @ ELSE @ \cup new]
      done == {s \in {j[1] : j \in new} :
                 Cardinality({j \in kept.sigShares : j[1] = s}) >= Threshold}
  IN /\ recovered' = [recovered EXCEPT ![n] = @ \cup done]
     /\ mgr' = [mgr EXCEPT ![n] = [RemoveSigSharesForSession(kept, done)
                                     EXCEPT !.signed = Override(signed, @)]]

\* ProcessSigShare and TryRecoverSig for a verified share: a new one is kept
\* and queued to be announced; the one that completes the threshold makes n
\* recover the signature and drop the session (HandleNewRecoveredSig).  signed
\* is what the caller then enters into signedSessions.
ProcessSigShare(n, M, k, signed) ==
  LET new  == {j \in {k} \ M.sigShares : ~HasRecoveredSigForId(n, j[1])}
      kept == [M EXCEPT !.sigShares = @ \cup new,
                        !.queued = IF AllConnected THEN @ ELSE @ \cup new]
      done == {s \in {j[1] : j \in new} :
                 Cardinality({j \in kept.sigShares : j[1] = s}) >= Threshold}
  IN /\ recovered' = [recovered EXCEPT ![n] = @ \cup done]
     /\ mgr' = [mgr EXCEPT ![n] = [RemoveSigSharesForSession(kept, done)
                                     EXCEPT !.signed = Override(signed, @)]]
-----------------------------------------------------------------------------
\* ForceReAnnouncement: all shares of s are announced again, to everybody and
\* under a new session number.
ReAnnounced(st, s) ==
  IF s \notin DOMAIN st.sessions THEN st
  ELSE WithSession(st, s, [st.sessions[s] EXCEPT !.knows = {}, !.sendId = NoId])
ForceReAnnouncement(M, s) ==
  IF AllConnected THEN M ELSE
  [M EXCEPT !.queued = @ \cup {k \in M.sigShares : k[1] = s},
            !.states = [id \in DOMAIN @ |-> ReAnnounced(@[id], s)]]

AsyncSign(M, s) == [M EXCEPT !.pendingSigns = @ \cup {s}]

\* The worker thread is not in the loop over verified shares.
Idle(n) == mgr[n].verified = {}

\* A caller asks n to sign session s.  A member that voted for the id signs
\* only the same message, and only with allowReSign.
AsyncSignIfMember(n, s, allowReSign) ==
  /\ s \in scenario.asked[n]
  /\ \A r \in voted[n] :
       SameId(r, s) => allowReSign /\ SignHashOf[r].msg = SignHashOf[s].msg
  /\ ~HasRecoveredSigForId(n, s)
  /\ s \in voted[n] => retries < scenario.retries
  /\ retries' = IF s \in voted[n] THEN retries + 1 ELSE retries
  /\ voted' = [voted EXCEPT ![n] = @ \cup {s}]
  /\ mgr' = [mgr EXCEPT ![n] =
               AsyncSign(IF allowReSign THEN ForceReAnnouncement(@, s) ELSE @, s)]
  /\ UNCHANGED <<scenario, created, recovered, conn, chan, timeouts>>

\* The own share of s, if it is new, goes to the quorum nodes unasked.
Pushed(n, st, s) ==
  WithSession(st, s, [Session(st, s) EXCEPT !.requested = @ \cup {n}, !.knows = @ \cup {n}])
PushOwnShare(n, M, s) ==
  IF AllConnected \/ HasRecoveredSigForId(n, s) \/ <<s, n>> \in M.sigShares THEN M
  ELSE [M EXCEPT !.states = Override([id \in QuorumNodes(n) |-> Pushed(n, State(M, id), s)], @)]

\* SignPendingSigShares for one session: the own share is created and
\* processed and, with all members connected, due for the first recovery
\* member.
SignPendingSigShares(n, s) ==
  /\ Idle(n)
  /\ s \in mgr[n].pendingSigns
  /\ LET M == [mgr[n] EXCEPT !.pendingSigns = @ \ {s}]
     IN ProcessSigShare(n, PushOwnShare(n, M, s), <<s, n>>,
                        IF AllConnected THEN [r \in {s} |-> 0] ELSE <<>>)
  /\ created' = IF AllConnected \/ ~HasRecoveredSigForId(n, s)
                THEN created \cup {<<s, n>>} ELSE created
  /\ UNCHANGED <<scenario, voted, conn, chan, timeouts, retries>>
-----------------------------------------------------------------------------
\* ProcessMessageSigSesAnn
ProcessMessageSigSesAnn(n, st, m) ==
  LET session == Session(st, m.session)
      others  == Without(st.byRecvId, {session.recvId})
  IN [WithSession(st, m.session, [session EXCEPT !.recvId = m.id])
        EXCEPT !.byRecvId = Put(others, m.id, m.session)]

\* A message about a session number that is not known, or about a session
\* that is recovered, is ignored.
Resolves(n, st, m) ==
  m.id \in DOMAIN st.byRecvId /\ ~HasRecoveredSigForSession(n, st.byRecvId[m.id])

\* ProcessMessageSigSharesInv
ProcessMessageSigSharesInv(n, st, m) ==
  IF ~Resolves(n, st, m) THEN st ELSE
  LET s == st.byRecvId[m.id]
  IN WithSession(st, s, [st.sessions[s] EXCEPT !.announced = @ \cup m.members,
                                               !.knows = @ \cup m.members])

\* ProcessMessageGetSigShares
ProcessMessageGetSigShares(n, st, m) ==
  IF ~Resolves(n, st, m) THEN st ELSE
  LET s == st.byRecvId[m.id]
  IN WithSession(st, s, [st.sessions[s] EXCEPT !.requested = @ \cup m.members,
                                               !.knows = @ \cup m.members])

\* ProcessMessageBatchedSigShares: the shares are rebuilt (RebuildSigShare)
\* for the session that the number stands for here; a signature that was
\* made for another session is then not valid.
ProcessMessageBatchedSigShares(n, st, m) ==
  IF m.id \notin DOMAIN st.byRecvId THEN st ELSE
  LET s    == st.byRecvId[m.id]
      keys == {<<s, k[2]>> : k \in m.shares}
      new  == {k \in keys : k \notin mgr[n].sigShares /\ ~HasRecoveredSigForId(n, s)}
  IN [st EXCEPT !.requested = Without(@, keys),
                !.pending = Override(@, [k \in new |-> k \in m.shares])]

\* ProcessMessageSigShare
ProcessMessageSigShare(n, st, m) ==
  IF m.share \in mgr[n].sigShares \/ HasRecoveredSigForId(n, m.share[1]) THEN st
  ELSE [st EXCEPT !.pending = Put(@, m.share, TRUE)]

\* The state of the node that message m came from, after it was handled.
Handled(n, st, m) ==
  CASE m.type = "QSIGSESANN"    -> ProcessMessageSigSesAnn(n, st, m)
    [] m.type = "QSIGSHARESINV" -> ProcessMessageSigSharesInv(n, st, m)
    [] m.type = "QGETSIGSHARES" -> ProcessMessageGetSigShares(n, st, m)
    [] m.type = "QBSIGSHARES"   -> ProcessMessageBatchedSigShares(n, st, m)
    [] m.type = "QSIGSHARE"     -> ProcessMessageSigShare(n, st, m)

\* n's message thread takes the next message of p.
ProcessMessage(n, p) ==
  /\ Linked(n, p)
  /\ chan[p][n] # <<>>
  /\ LET id == NodeId(n, p)
     IN mgr' = [mgr EXCEPT ![n] =
                  WithState(@, id, Handled(n, State(@, id), Head(chan[p][n])))]
  /\ chan' = [chan EXCEPT ![p][n] = Tail(@)]
  /\ UNCHANGED <<scenario, voted, created, recovered, conn, timeouts, retries>>

\* ProcessPendingSigShares: all pending shares are taken and verified; a node
\* that sent an invalid one is banned and none of its shares is used.
ProcessPendingSigShares(n) ==
  LET M    == mgr[n]
      got  == [id \in DOMAIN M.states |-> DOMAIN M.states[id].pending \ M.sigShares]
      bad  == {id \in DOMAIN M.states : \E k \in got[id] :
                 ~HasRecoveredSigForId(n, k[1]) /\ ~M.states[id].pending[k]}
      left == [M EXCEPT !.states = [id \in DOMAIN @ |-> [@[id] EXCEPT !.pending = <<>>]]]
  IN /\ Idle(n)
     /\ \E id \in DOMAIN M.states : M.states[id].pending # <<>>
     /\ mgr' = [mgr EXCEPT ![n] = [BanNode(left, bad) EXCEPT
                  !.verified = UNION {got[id] : id \in DOMAIN M.states \ bad}]]
     /\ UNCHANGED <<scenario, voted, created, recovered, conn, chan, timeouts, retries>>

\* The loop over the verified shares.
ProcessVerified(n, k) ==
  /\ k \in mgr[n].verified
  /\ ProcessSigShare(n, [mgr[n] EXCEPT !.verified = @ \ {k}], k, <<>>)
  /\ UNCHANGED <<scenario, voted, created, conn, chan, timeouts, retries>>

\* A recovered signature is relayed to n (CSigningManager), which drops the
\* session.
HandleNewRecoveredSig(n, s) ==
  /\ Idle(n)
  /\ ~HasRecoveredSigForId(n, s)
  /\ \E p \in Members : s \in recovered[p]
  /\ recovered' = [recovered EXCEPT ![n] = @ \cup {s}]
  /\ mgr' = [mgr EXCEPT ![n] = RemoveSigSharesForSession(@, {s})]
  /\ UNCHANGED <<scenario, voted, created, conn, chan, timeouts, retries>>
-----------------------------------------------------------------------------
\* Mutant: a request that timed out is not repeated elsewhere.
RequestableOnce(n) ==
  LET M == mgr[n] IN
  {x \in (DOMAIN M.states) \X (Key \ M.sigShares) :
     LET st == M.states[x[1]] k == x[2] IN
     /\ ~st.banned
     /\ k[1] \in DOMAIN st.sessions
     /\ ~HasRecoveredSigForSession(n, k[1])
     /\ k[2] \in st.sessions[k[1]].announced
     /\ k \notin DOMAIN M.asked}

\* Mutant: a share is requested from every node that announced it.
RequestableEverywhere(n) ==
  LET M == mgr[n] IN
  {x \in (DOMAIN M.states) \X (Key \ M.sigShares) :
     LET st == M.states[x[1]] k == x[2] IN
     /\ ~st.banned
     /\ k[1] \in DOMAIN st.sessions
     /\ ~HasRecoveredSigForSession(n, k[1])
     /\ k[2] \in st.sessions[k[1]].announced
     /\ k \in DOMAIN M.asked => M.asked[k].node # x[1]}

\* What CollectSigSharesToRequest may request: an announced share that n does
\* not have, from a node that announced it, unless another request for it is
\* open or this node was the last one asked.
Requestable(n) ==
  LET M == mgr[n] IN
  {x \in (DOMAIN M.states) \X (Key \ M.sigShares) :
     LET st == M.states[x[1]] k == x[2] IN
     /\ ~st.banned
     /\ k[1] \in DOMAIN st.sessions
     /\ ~HasRecoveredSigForSession(n, k[1])
     /\ k[2] \in st.sessions[k[1]].announced
     /\ k \in DOMAIN M.asked => M.asked[k].old /\ M.asked[k].node # x[1]}

\* Requests that did not time out.
OpenRequests(st) == Restrict(st.requested, {k \in DOMAIN st.requested : ~st.requested[k]})

\* The nodes are gone through in a random order, so that any of those that
\* announced a share may get the request; each is asked for the shares in the
\* order of their members, up to the limit of open requests.
CollectSigSharesToRequest(n) ==
  LET all == Requestable(n)
      before(j, k) == j[1] < k[1] \/ (j[1] = k[1] /\ j[2] < k[2])
      requested(R, k) == \E x \in R : x[2] = k
      room(R, id) == Cardinality(DOMAIN OpenRequests(mgr[n].states[id]))
                       + Cardinality({x \in R : x[1] = id}) < MaxRequests
      full(R, id) == Cardinality(DOMAIN OpenRequests(mgr[n].states[id]))
                       + Cardinality({x \in R : x[1] = id}) > MaxRequests
  IN {R \in SUBSET all :
        /\ \A x, y \in R : x[2] = y[2] => x = y
        /\ \A x \in R : ~full(R, x[1])
        /\ \A x \in all : requested(R, x[2]) \/ ~room(R, x[1])
        /\ \A x \in R, y \in all :
             y[1] = x[1] /\ before(y[2], x[2]) => requested(R, y[2])}

\* CollectSigSharesToSend: what a node requested and n has.
CollectSigSharesToSend(n, st) ==
  {k \in mgr[n].sigShares :
     /\ ~st.banned
     /\ k[1] \in DOMAIN st.sessions
     /\ ~HasRecoveredSigForSession(n, k[1])
     /\ k[2] \in st.sessions[k[1]].requested}

\* CollectSigSharesToAnnounce: the queued shares that a quorum node does not
\* know.
CollectSigSharesToAnnounce(n, st) ==
  {k \in mgr[n].queued \cap mgr[n].sigShares :
     ~st.banned /\ k[2] \notin Session(st, k[1]).knows}

SessionsOf(keys) == {k[1] : k \in keys}
MembersOf(keys, s) == {k[2] : k \in {j \in keys : j[1] = s}}

\* Mutant: two sessions that are announced together get the same number.
SendIdSame(st, new, s) ==
  IF s \in new THEN st.nextId ELSE Session(st, s).sendId

\* addSigSesAnnIfNeeded: a session that a message is sent about gets the
\* node's next number if it has none.
SendId(st, new, s) ==
  IF s \in new THEN st.nextId + Cardinality({r \in new : r < s}) ELSE Session(st, s).sendId

Unnumbered(st, keys) == {s \in SessionsOf(keys) : Session(st, s).sendId = NoId}

\* The state of a node after the collect functions and the numbering: what is
\* requested from it is not announced any more, what it requested is
\* forgotten, what is announced to it is known.
Collected(n, st, get, send, tell) ==
  LET new == Unnumbered(st, get \cup send \cup tell) IN
  IF st.banned THEN st ELSE
  [st EXCEPT
     !.nextId = @ + Cardinality(new),
     !.requested = Override(OpenRequests(st), [k \in get |-> FALSE]),
     !.sessions = [s \in DOMAIN @ \cup SessionsOf(tell) |->
        IF HasRecoveredSigForSession(n, s) THEN Session(st, s) ELSE
        [Session(st, s) EXCEPT
           !.announced = @ \ MembersOf(get \cup mgr[n].sigShares, s),
           !.requested = {},
           !.knows = @ \cup MembersOf(tell, s),
           !.sendId = SendId(st, new, s)]]]

\* The messages msgs, one per session, in some order (that of an unordered_map).
InSomeOrder(S) == CHOOSE order \in [1..Cardinality(S) -> S] : IsInjective(order)
ForSessions(msgs) ==
  LET order == InSomeOrder(DOMAIN msgs) IN [i \in DOMAIN order |-> msgs[order[i]]]

\* What SendMessages then pushes to the node, in this order.
Messages(st, get, send, tell) ==
  LET new   == Unnumbered(st, get \cup send \cup tell)
      id(s) == SendId(st, new, s)
  IN    ForSessions([s \in new |->
          [type |-> "QSIGSESANN", id |-> id(s), session |-> s]])
     \o ForSessions([s \in SessionsOf(get) |->
          [type |-> "QGETSIGSHARES", id |-> id(s), members |-> MembersOf(get, s)]])
     \o ForSessions([s \in SessionsOf(send) |->
          [type |-> "QBSIGSHARES", id |-> id(s), shares |-> {k \in send : k[1] = s}]])
     \o ForSessions([s \in SessionsOf(tell) |->
          [type |-> "QSIGSHARESINV", id |-> id(s), members |-> MembersOf(tell, s)]])

\* Mutant: the share is sent to one recovery member too many.
DueSessionsOneMore(n) ==
  LET open == {s \in DOMAIN mgr[n].signed : mgr[n].signed[s] <= RecoveryMembers}
  IN {due \in SUBSET open : \A s \in open \ due : mgr[n].signed[s] > 0}

\* Mutant: only the first recovery member gets the share.
DueSessionsOnce(n) == {{s \in DOMAIN mgr[n].signed : mgr[n].signed[s] = 0}}

\* CollectSigSharesToSendConcentrated: the sessions whose share is due for the
\* next recovery member, the first one at once, every other after a while.
DueSessions(n) ==
  LET open == {s \in DOMAIN mgr[n].signed : mgr[n].signed[s] < RecoveryMembers}
  IN {due \in SUBSET open : \A s \in open \ due : mgr[n].signed[s] > 0}

Concentrated(n, due, p) ==
  ForSessions([s \in {r \in due : RecoveryOrder[mgr[n].signed[r] + 1] = p} |->
    [type |-> "QSIGSHARE", share |-> <<s, n>>]])

\* There is something to collect.
HasWork(n) ==
  \/ mgr[n].queued # {}
  \/ DOMAIN mgr[n].signed # {}
  \/ \E id \in DOMAIN mgr[n].states :
       LET st == mgr[n].states[id] IN
       \/ \E s \in DOMAIN st.sessions : st.sessions[s].announced \cup st.sessions[s].requested # {}
       \/ \E k \in DOMAIN st.requested : st.requested[k]

\* SendMessages: everything is collected under the lock and then sent to the
\* nodes that are connected.
SendMessages(n) ==
  /\ Idle(n)
  /\ HasWork(n)
  /\ \E R \in CollectSigSharesToRequest(n), due \in DueSessions(n) :
       LET M == mgr[n]
           nodes    == IF M.queued = {} THEN {} ELSE QuorumNodes(n)
           get(id)  == {x[2] : x \in {y \in R : y[1] = id}}
           send(id) == CollectSigSharesToSend(n, State(M, id))
           tell(id) == IF id \in nodes THEN CollectSigSharesToAnnounce(n, State(M, id)) ELSE {}
       IN /\ mgr' = [mgr EXCEPT ![n] = [M EXCEPT
               !.states = [id \in DOMAIN M.states \cup nodes |->
                             Collected(n, State(M, id), get(id), send(id), tell(id))],
               !.asked = Override([k \in {x[2] : x \in R} |->
                            [node |-> (CHOOSE x \in R : x[2] = k)[1], old |-> FALSE]], M.asked),
               !.queued = {},
               !.signed = [s \in DOMAIN M.signed |->
                             IF s \in due THEN M.signed[s] + 1 ELSE M.signed[s]]]]
          /\ chan' = [chan EXCEPT ![n] = [p \in Members |->
               IF ~Linked(n, p) THEN chan[n][p] ELSE
               LET id == NodeId(n, p)
               IN chan[n][p] \o Messages(State(M, id), get(id), send(id), tell(id))
                            \o Concentrated(n, due, p)]]
          /\ UNCHANGED <<scenario, voted, created, recovered, conn, timeouts, retries>>
-----------------------------------------------------------------------------
\* SIG_SHARE_REQUEST_TIMEOUT passes since n requested share k.
TimedOut(M, k) ==
  LET requesting == {id \in DOMAIN M.states : k \in DOMAIN M.states[id].requested}
  IN [M EXCEPT !.asked[k].old = TRUE,
               !.states = [id \in DOMAIN @ |->
                  IF id \in requesting THEN [@[id] EXCEPT !.requested[k] = TRUE] ELSE @[id]]]
RequestTimeout(n, k) ==
  /\ k \in DOMAIN mgr[n].asked
  /\ ~mgr[n].asked[k].old
  /\ mgr' = [mgr EXCEPT ![n] = TimedOut(@, k)]
  /\ UNCHANGED <<scenario, voted, created, recovered, conn, chan, timeouts, retries>>

\* Cleanup: no new share of s came in for SESSION_NEW_SHARES_TIMEOUT.
SessionTimeout(n, s) ==
  /\ Idle(n)
  /\ retries < scenario.retries
  /\ \E k \in mgr[n].sigShares : k[1] = s
  /\ retries' = retries + 1
  /\ timeouts' = [timeouts EXCEPT ![n] = @ + 1]
  /\ mgr' = [mgr EXCEPT ![n] = RemoveSigSharesForSession(@, {s})]
  /\ UNCHANGED <<scenario, voted, created, recovered, conn, chan>>

\* Cleanup: the states of nodes that disconnected are deleted.
CleanupNodeStates(n) ==
  LET M    == mgr[n]
      gone == DOMAIN M.states \ QuorumNodes(n)
  IN /\ Idle(n)
     /\ gone # {}
     /\ mgr' = [mgr EXCEPT ![n] = [ReleaseRequests(M, gone) EXCEPT
                  !.states = Without(@, gone)]]
     /\ UNCHANGED <<scenario, voted, created, recovered, conn, chan, timeouts, retries>>

\* A connection is lost, with all that is on the way.
Disconnect(n, p) ==
  /\ Linked(n, p)
  /\ {n, p} \in scenario.fragile
  /\ conn[{n, p}].lost < MaxLost
  /\ conn' = [conn EXCEPT ![{n, p}] = [up |-> FALSE, lost |-> @.lost + 1]]
  /\ chan' = [chan EXCEPT ![n][p] = <<>>, ![p][n] = <<>>]
  /\ UNCHANGED <<scenario, mgr, voted, created, recovered, timeouts, retries>>

Reconnect(n, p) ==
  /\ ~conn[{n, p}].up
  /\ {n, p} \in scenario.returning
  /\ conn' = [conn EXCEPT ![{n, p}].up = TRUE]
  /\ UNCHANGED <<scenario, mgr, voted, created, recovered, chan, timeouts, retries>>

\* What the worker thread and the message thread of n do, and time.
Step(n) ==
  \/ \E s \in Sessions : SignPendingSigShares(n, s)
  \/ \E p \in Members : ProcessMessage(n, p)
  \/ ProcessPendingSigShares(n)
  \/ \E k \in Key : ProcessVerified(n, k)
  \/ \E s \in Sessions : HandleNewRecoveredSig(n, s)
  \/ \E k \in Key : RequestTimeout(n, k)
  \/ CleanupNodeStates(n)
  \/ SendMessages(n)

Next ==
  \E n \in Members :
    \/ Step(n)
    \/ \E s \in Sessions, allowReSign \in BOOLEAN : AsyncSignIfMember(n, s, allowReSign)
    \/ \E s \in Sessions : SessionTimeout(n, s)
    \/ \E p \in Members : Disconnect(n, p)
    \/ \E p \in Members : Reconnect(n, p)

Spec == Init /\ [][Next]_vars

\* A member that is not slow does not stop while one of its threads has
\* something to do or a request can time out.
Fairness == \A n \in Members \ Slow : WF_vars(Step(n))

FairSpec == Spec /\ Fairness
-----------------------------------------------------------------------------
\* The maps of every manager are well formed.
TypeOK ==
  /\ scenario \in Scenarios
  /\ voted \in [Members -> SUBSET Sessions]
  /\ recovered \in [Members -> SUBSET Sessions]
  /\ retries \in 0..scenario.retries
  /\ \A n \in Members :
       /\ mgr[n].pendingSigns \subseteq Sessions
       /\ mgr[n].sigShares \cup mgr[n].queued \cup DOMAIN mgr[n].asked \subseteq Key
       /\ mgr[n].signed \in [DOMAIN mgr[n].signed -> 0..RecoveryMembers]
       /\ \A id \in DOMAIN mgr[n].states :
            /\ id \in (Members \ {n}) \X (0..MaxLost)
            /\ DOMAIN mgr[n].states[id].sessions \subseteq Sessions

\* A session number resolves to a session that exists and has this number:
\* sessionByRecvId holds pointers into the map of sessions, which announcements
\* and RemoveSession change.
RecvIdsResolve ==
  \A n \in Members : \A id \in DOMAIN mgr[n].states :
    LET st == mgr[n].states[id]
    IN \A i \in DOMAIN st.byRecvId :
         /\ st.byRecvId[i] \in DOMAIN st.sessions
         /\ st.sessions[st.byRecvId[i]].recvId = i

\* A share is being requested from one node at a time ("don't request it from
\* other nodes until a timeout happens"): a request that did not time out is
\* the one that the manager remembers, whatever was removed, lost or answered
\* late in the meantime.
OneRequestAtATime ==
  \A n \in Members : \A id \in DOMAIN mgr[n].states :
    \A k \in DOMAIN mgr[n].states[id].requested :
      ~mgr[n].states[id].requested[k] =>
        k \in DOMAIN mgr[n].asked /\ mgr[n].asked[k] = [node |-> id, old |-> FALSE]

\* No member that follows the protocol is banned: whatever was announced,
\* renumbered, timed out or lost, the receiver takes the shares of a batch for
\* the session that the sender meant.
NobodyBanned ==
  \A n \in Members : \A id \in DOMAIN mgr[n].states : ~mgr[n].states[id].banned

\* The members that are not slow and have neighbours.
Running == {n \in Members \ Slow : AllConnected \/ \E l \in scenario.links : n \in l}

\* Something other than a member that is slow got in the way.
Interrupted ==
  retries > 0 \/ \E l \in Pairs : conn[l].lost > 0 /\ l \subseteq Running

\* Shares reach every member that is not slow, or a signature is recovered: a
\* neighbour that announced a share, was asked for it and hangs or loses its
\* connection only delays it.
SharesSpread ==
  []<>(\/ AllConnected \/ Interrupted
       \/ \A m, n \in Running, s \in Sessions :
            <<s, m>> \in mgr[m].sigShares =>
              <<s, m>> \in mgr[n].sigShares \/ HasRecoveredSigForId(n, s))

\* When threshold many members that are not slow signed, all of them get the
\* recovered signature, with all members connected also when a recovery member
\* hangs.
SignedIsRecovered ==
  []<>(\/ Interrupted
       \/ \A n \in Running, s \in Sessions :
            Cardinality({m \in Running : s \in voted[m]}) >= Threshold =>
              HasRecoveredSigForId(n, s))
=============================================================================
