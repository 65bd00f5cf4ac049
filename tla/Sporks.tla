------------------------------- MODULE Sporks -------------------------------
(***************************************************************************)
(* Sporks: network parameters whose value is what a majority of the spork  *)
(* keys signed last (CSporkManager, src/spork.cpp).  Every node keeps the  *)
(* latest message of each signer, derives the value from them, and caches  *)
(* both the value and the fact that it is active, with caches that have    *)
(* mutexes of their own.                                                   *)
(*                                                                         *)
(* One spork id is modelled: ids share no state but the map of hashes, and *)
(* a hash covers the id.  All nodes read one clock, so the check for       *)
(* messages from the future never fails.  A message can be received at any *)
(* time, any number of times, while a peer holds it: after an inventory,   *)
(* or pushed by the peer as the answer to "getsporks".                     *)
(***************************************************************************)
EXTENDS Integers, FiniteSets

CONSTANTS
  Nodes,
  Keys,         \* spork signers (CKeyID)
  PrivKey,      \* PrivKey[n]: the key of a node's -sporkkey
  Values,       \* values an operator may set
  Default,      \* the compiled-in value, far in the future: "off"
  Configs,      \* -sporkaddr and -minsporkkeys settings, [keys, min]
  Network,      \* the setting of the network, used by all nodes at first
  MaxTime,      \* bound on the clock
  MaxUpdates,   \* bound on the number of spork messages
  MaxRestarts,  \* bound on the restarts
  None

VARIABLES
  clock,        \* GetAdjustedTime
  sent,         \* messages that were signed
  config,       \* setSporkPubKeyIDs and nMinSporkKeys of every node
  active,       \* mapSporksActive: the latest message of every signer
  byHash,       \* mapSporksByHash
  cachedValue,  \* mapSporksCachedValues
  cachedActive, \* mapSporksCachedActive
  storing,      \* the message between the two critical sections of ProcessSpork
  reading,      \* the value between the two halves of IsSporkActive
  disk,         \* sporks.dat: byHash and active at the last clean shutdown
  restarts

vars == <<clock, sent, config, active, byHash, cachedValue, cachedActive,
          storing, reading, disk, restarts>>
maps == <<active, byHash, cachedValue, cachedActive>>

Messages == [key : Keys, value : Values, time : 0..MaxTime]
Empty == [byHash |-> {}, active |-> [k \in Keys |-> None]]
-----------------------------------------------------------------------------
\* A node starts only with a minimum of more than half of its keys.
SetMinSporkKeys(c) ==
  c.min > Cardinality(c.keys) \div 2 /\ c.min <= Cardinality(c.keys)

ASSUME KeysAssumption == IsFiniteSet(Keys)
ASSUME ConfigsAssumption == Configs \subseteq [keys : SUBSET Keys, min : Nat]
ASSUME NetworkAssumption == Network \in Configs /\ SetMinSporkKeys(Network)
ASSUME NoneAssumption == None \notin Messages /\ None \notin Values \cup {Default}
ASSUME PrivKeyAssumption == PrivKey \in [Nodes -> Keys \cup {None}]
ASSUME TimeAssumption == MaxTime \in Nat
-----------------------------------------------------------------------------
Supporters(n, v) == {k \in Keys : active[n][k] # None /\ active[n][k].value = v}

\* The values that enough signers agree on.
Agreed(n) == {v \in Values : Cardinality(Supporters(n, v)) >= config[n].min}

\* What a lookup finds: the cached value, or the agreed one, or nothing.
SporkValueIfActive(n) ==
  IF \A k \in Keys : active[n][k] = None THEN {}
  ELSE IF cachedValue[n] # None THEN {cachedValue[n]}
  ELSE Agreed(n)

\* Mutant: the default is cached too.
LookUpCachesDefault(n, v) ==
  /\ v \in SporkValueIfActive(n) \/ (SporkValueIfActive(n) = {} /\ v = Default)
  /\ cachedValue' = [cachedValue EXCEPT ![n] = v]

\* Looks up the value v, which the cache then holds unless it is the default.
LookUp(n, v) ==
  \/ /\ v \in SporkValueIfActive(n)
     /\ cachedValue' = [cachedValue EXCEPT ![n] = v]
  \/ /\ SporkValueIfActive(n) = {}
     /\ v = Default
     /\ UNCHANGED cachedValue

\* GetSporkValue, called directly.
GetSporkValue(n) ==
  /\ \E v \in Values \cup {Default} : LookUp(n, v)
  /\ UNCHANGED <<clock, sent, config, active, byHash, cachedActive, storing,
                 reading, disk, restarts>>

\* The first half of IsSporkActive: no cached answer, the value is looked up.
ReadSporkValue(n) ==
  /\ reading[n] = None
  /\ ~cachedActive[n]
  /\ \E v \in Values \cup {Default} :
       LookUp(n, v) /\ reading' = [reading EXCEPT ![n] = v]
  /\ UNCHANGED <<clock, sent, config, active, byHash, cachedActive, storing,
                 disk, restarts>>

\* The second half: compare with the clock, cache the answer "active".
CacheActive(n) ==
  /\ reading[n] # None
  /\ cachedActive' = [cachedActive EXCEPT ![n] = @ \/ reading[n] < clock]
  /\ reading' = [reading EXCEPT ![n] = None]
  /\ UNCHANGED <<clock, sent, config, active, byHash, cachedValue, storing,
                 disk, restarts>>
-----------------------------------------------------------------------------
\* Mutant: the value cache is not cleared.
StoreSparingCache(n, m) ==
  /\ active' = [active EXCEPT ![n][m.key] = m]
  /\ byHash' = [byHash EXCEPT ![n] = @ \cup {m}]
  /\ cachedActive' = [cachedActive EXCEPT ![n] = FALSE]
  /\ UNCHANGED cachedValue

\* Mutant: the message is not filed by its hash.
StoreUnhashed(n, m) ==
  /\ active' = [active EXCEPT ![n][m.key] = m]
  /\ cachedActive' = [cachedActive EXCEPT ![n] = FALSE]
  /\ cachedValue' = [cachedValue EXCEPT ![n] = None]
  /\ UNCHANGED byHash

\* Mutant: a signer's earlier message is not replaced.
StoreHashOnly(n, m) ==
  /\ byHash' = [byHash EXCEPT ![n] = @ \cup {m}]
  /\ cachedActive' = [cachedActive EXCEPT ![n] = FALSE]
  /\ cachedValue' = [cachedValue EXCEPT ![n] = None]
  /\ active' = IF active[n][m.key] = None THEN [active EXCEPT ![n][m.key] = m] ELSE active

\* A message enters both maps and both caches are cleared, under cs.
Store(n, m) ==
  /\ active' = [active EXCEPT ![n][m.key] = m]
  /\ byHash' = [byHash EXCEPT ![n] = @ \cup {m}]
  /\ cachedActive' = [cachedActive EXCEPT ![n] = FALSE]
  /\ cachedValue' = [cachedValue EXCEPT ![n] = None]

\* An operator sets a value through a node that holds a spork key.
UpdateSpork(n, v) ==
  LET m == [key |-> PrivKey[n], value |-> v, time |-> clock] IN
  /\ PrivKey[n] \in config[n].keys
  /\ Cardinality(sent) < MaxUpdates
  /\ Store(n, m)
  /\ sent' = sent \cup {m}
  /\ UNCHANGED <<clock, config, storing, reading, disk, restarts>>

\* What a peer can serve: by hash, or as the answer to "getsporks".
IsServed(n, m) == \E p \in Nodes \ {n} : m \in byHash[p] \/ m = active[p][m.key]

\* Mutant: an older message passes, too.
CheckSporkUnordered(n, m) ==
  /\ storing[n] = None
  /\ IsServed(n, m)
  /\ m.key \in config[n].keys
  /\ storing' = [storing EXCEPT ![n] = m]
  /\ UNCHANGED <<clock, sent, config, maps, reading, disk, restarts>>

\* The first critical section of ProcessSpork: the signer is known and the
\* message is newer than the signer's last one; others are dropped.
CheckSpork(n, m) ==
  /\ storing[n] = None
  /\ IsServed(n, m)
  /\ m.key \in config[n].keys
  /\ active[n][m.key] # None => active[n][m.key].time < m.time
  /\ storing' = [storing EXCEPT ![n] = m]
  /\ UNCHANGED <<clock, sent, config, maps, reading, disk, restarts>>

\* The second one; the message is relayed again.
StoreSpork(n) ==
  /\ storing[n] # None
  /\ Store(n, storing[n])
  /\ storing' = [storing EXCEPT ![n] = None]
  /\ UNCHANGED <<clock, sent, config, reading, disk, restarts>>
-----------------------------------------------------------------------------
\* Mutant: messages of former signers are kept.
CheckAndKeep(d, c) == d

\* Messages of signers that are no longer configured are dropped.
CheckAndRemove(d, c) ==
  [byHash |-> {m \in d.byHash : m.key \in c.keys},
   active |-> [k \in Keys |-> IF k \in c.keys THEN d.active[k] ELSE None]]

\* The node stops, by a shutdown that writes sporks.dat or by a crash, and
\* comes up with setting c.
Restart(n, c) ==
  /\ restarts < MaxRestarts
  /\ restarts' = restarts + 1
  /\ SetMinSporkKeys(c)
  /\ config' = [config EXCEPT ![n] = c]
  /\ \E d \in {disk[n], [byHash |-> byHash[n], active |-> active[n]]} :
       /\ disk' = [disk EXCEPT ![n] = d]
       /\ active' = [active EXCEPT ![n] = CheckAndRemove(d, c).active]
       /\ byHash' = [byHash EXCEPT ![n] = CheckAndRemove(d, c).byHash]
  /\ cachedValue' = [cachedValue EXCEPT ![n] = None]
  /\ cachedActive' = [cachedActive EXCEPT ![n] = FALSE]
  /\ storing' = [storing EXCEPT ![n] = None]
  /\ reading' = [reading EXCEPT ![n] = None]
  /\ UNCHANGED <<clock, sent>>

Tick ==
  /\ clock < MaxTime
  /\ clock' = clock + 1
  /\ UNCHANGED <<sent, config, maps, storing, reading, disk, restarts>>
-----------------------------------------------------------------------------
Init ==
  /\ clock = 0
  /\ sent = {}
  /\ config = [n \in Nodes |-> Network]
  /\ active = [n \in Nodes |-> Empty.active]
  /\ byHash = [n \in Nodes |-> {}]
  /\ cachedValue = [n \in Nodes |-> None]
  /\ cachedActive = [n \in Nodes |-> FALSE]
  /\ storing = [n \in Nodes |-> None]
  /\ reading = [n \in Nodes |-> None]
  /\ disk = [n \in Nodes |-> Empty]
  /\ restarts = 0

Next ==
  \/ Tick
  \/ \E n \in Nodes :
       \/ \E v \in Values : UpdateSpork(n, v)
       \/ \E m \in sent : CheckSpork(n, m)
       \/ StoreSpork(n)
       \/ GetSporkValue(n)
       \/ ReadSporkValue(n)
       \/ CacheActive(n)
       \/ \E c \in Configs : Restart(n, c)

Spec == Init /\ [][Next]_vars

\* A peer announces the messages that count on it when they are new, and pushes
\* them when the node asks after its start; the node fetches one it does not
\* have, and its message thread finishes what it began.
Fairness ==
  \A n \in Nodes :
    /\ WF_vars(\E m \in sent \ byHash[n] :
                 (\E p \in Nodes \ {n} : m = active[p][m.key]) /\ CheckSpork(n, m))
    /\ WF_vars(StoreSpork(n))

FairSpec == Spec /\ Fairness
-----------------------------------------------------------------------------
\* The state of every node is well formed.
TypeOK ==
  /\ clock \in 0..MaxTime
  /\ sent \subseteq Messages
  /\ config \in [Nodes -> Configs]
  /\ active \in [Nodes -> [Keys -> Messages \cup {None}]]
  /\ byHash \in [Nodes -> SUBSET Messages]
  /\ cachedValue \in [Nodes -> Values \cup {None}]
  /\ cachedActive \in [Nodes -> BOOLEAN]
  /\ storing \in [Nodes -> Messages \cup {None}]
  /\ reading \in [Nodes -> Values \cup {Default, None}]
  /\ disk \in [Nodes -> [byHash : SUBSET Messages, active : [Keys -> Messages \cup {None}]]]
  /\ restarts \in Nat

\* The loop of SporkValueIfActive may stop at the first value with enough
\* signers: "there is only one such value", whatever the restarts with other
\* keys and minimums left in the maps.
OneAgreedValue == \A n \in Nodes : \A v, w \in Agreed(n) : v = w

\* mapSporksCachedValues never answers with a value that the stored messages
\* do not support: "Clear cached values on new spork being processed".
CachedValueFresh ==
  \A n \in Nodes : cachedValue[n] # None => cachedValue[n] \in Agreed(n)

\* A message that counts for the value can be served to a peer that asks for
\* it by hash, after any restart, and it is filed under its own signer.
ActiveIsServed ==
  \A n \in Nodes, k \in Keys :
    active[n][k] # None => active[n][k] \in byHash[n] /\ active[n][k].key = k

\* mapSporksCachedActive never says that a spork is active when the stored
\* messages give it a value in the future: "Clear cached values on new spork
\* being processed".
CachedActiveFresh ==
  \A n \in Nodes :
    cachedActive[n] => \E v \in Agreed(n) \cup {Default} :
                         v < clock /\ (v = Default => Agreed(n) = {})

\* The inductive invariant: a node only keeps messages of the signers it is
\* configured with, of whom any two sufficient sets share one.
IInv ==
  /\ TypeOK
  /\ \A n \in Nodes : SetMinSporkKeys(config[n])
  /\ \A n \in Nodes : storing[n] # None => storing[n].key \in config[n].keys
  /\ \A n \in Nodes, k \in Keys : active[n][k] # None => k \in config[n].keys
  /\ \A n \in Nodes, k \in Keys :
       disk[n].active[k] # None =>
         disk[n].active[k] \in disk[n].byHash /\ disk[n].active[k].key = k
  /\ ActiveIsServed
  /\ CachedValueFresh

\* What ProcessSpork checked is still newer when it stores it, but for the
\* node's own key.
CheckedIsNewer ==
  \A n \in Nodes :
    storing[n] # None /\ storing[n].key # PrivKey[n] /\ active[n][storing[n].key] # None
      => active[n][storing[n].key].time < storing[n].time

\* No node returns to an older message of a signer, or to none, but by a restart;
\* only a node's own key is excepted, as UpdateSpork may come between the check
\* and the store of ProcessSpork.
NoFallBack ==
  [][\A n \in Nodes, k \in Keys :
       active[n][k] # None /\ (active'[n][k] = None \/ active'[n][k].time < active[n][k].time)
         => restarts' # restarts \/ k = PrivKey[n]]_vars

\* A message that counts on some node reaches every other one, also the one that
\* signed it and lost it in a crash, unless all nodes that could pass it on lost
\* or replaced it: the node then follows it or a newer one of its signer, or does
\* not know the signer.  Of its own key a node may hold it and follow an older
\* one, see NoFallBack.
SporkSpreads ==
  \A m \in Messages : \A n \in Nodes :
    (\E p \in Nodes \ {n} : active[p][m.key] = m)
      ~> \/ active[n][m.key] # None /\ active[n][m.key].time >= m.time
         \/ m.key \notin config[n].keys
         \/ \A p \in Nodes \ {n} : active[p][m.key] # m
         \/ m.key = PrivKey[n] /\ m \in byHash[n]
=============================================================================
