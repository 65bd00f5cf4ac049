---------------------------- MODULE SporksProofs ----------------------------
(***************************************************************************)
(* Sporks, for every set of nodes, keys, values and settings: the agreed   *)
(* value is unique, the value cache never disagrees with it, and what      *)
(* counts can be served.  Everything follows from one inductive invariant. *)
(***************************************************************************)
EXTENDS Sporks, FiniteSetTheorems, TLAPS

\* Two sets of more than half of the keys have a common member.
LEMMA MajoritiesMeet ==
  ASSUME NEW S, IsFiniteSet(S), NEW A \in SUBSET S, NEW B \in SUBSET S, NEW q \in Nat,
         q > Cardinality(S) \div 2, Cardinality(A) >= q, Cardinality(B) >= q
  PROVE  A \cap B # {}
<1>1. IsFiniteSet(A) /\ IsFiniteSet(B) /\ IsFiniteSet(A \cup B)
  BY FS_Subset, A \cup B \subseteq S
<1>2. Cardinality(A \cup B) <= Cardinality(S)
  BY <1>1, FS_Subset, A \cup B \subseteq S
<1>3. Cardinality(A) \in Nat /\ Cardinality(B) \in Nat /\ Cardinality(S) \in Nat
        /\ Cardinality(A \cup B) \in Nat /\ Cardinality(A \cap B) \in Nat
  BY <1>1, FS_CardinalityType, FS_Intersection
<1>4. Cardinality(A \cup B) = Cardinality(A) + Cardinality(B) - Cardinality(A \cap B)
  BY <1>1, FS_Union
<1>5. Cardinality(A \cap B) # 0
  BY <1>2, <1>3, <1>4
<1> QED
  BY <1>5, FS_EmptySet

\* The invariant holds when all nodes have started with the network's setting.
LEMMA InitInv == Init => IInv
<1> SUFFICES ASSUME Init PROVE IInv
  OBVIOUS
<1> USE DEF Init, Empty
<1>1. TypeOK
  BY NetworkAssumption, TimeAssumption DEF TypeOK
<1>2. \A n \in Nodes : SetMinSporkKeys(config[n])
  BY NetworkAssumption
<1>3. ActiveIsServed /\ CachedValueFresh
  BY DEF ActiveIsServed, CachedValueFresh
<1> QED
  BY <1>1, <1>2, <1>3 DEF IInv

\* A step that leaves the maps and the settings alone keeps what is said of them.
LEMMA MapsKept ==
  ASSUME CachedValueFresh, ActiveIsServed, UNCHANGED <<config, active, byHash, cachedValue>>
  PROVE  CachedValueFresh' /\ ActiveIsServed'
<1>1. ActiveIsServed'
  BY DEF ActiveIsServed
<1>2. \A n \in Nodes : Agreed(n)' = Agreed(n)
  BY DEF Agreed, Supporters
<1>3. CachedValueFresh'
  BY <1>2 DEF CachedValueFresh
<1> QED
  BY <1>1, <1>3

\* What the lookup of a value does to the cache keeps the cache fresh.
LEMMA LookUpFresh ==
  ASSUME IInv, NEW n \in Nodes, NEW v, LookUp(n, v), UNCHANGED <<config, active>>
  PROVE  CachedValueFresh' /\ cachedValue' \in [Nodes -> Values \cup {None}]
<1>1. \A p \in Nodes : Agreed(p)' = Agreed(p)
  BY DEF Agreed, Supporters
<1>2. CASE /\ v \in SporkValueIfActive(n)
           /\ cachedValue' = [cachedValue EXCEPT ![n] = v]
  <2>1. v \in Agreed(n)
    BY <1>2 DEF SporkValueIfActive, IInv, CachedValueFresh
  <2>2. v \in Values
    BY <2>1 DEF Agreed
  <2> QED
    BY <1>1, <1>2, <2>1, <2>2 DEF IInv, TypeOK, CachedValueFresh
<1>3. CASE UNCHANGED cachedValue
  BY <1>1, <1>3 DEF IInv, TypeOK, CachedValueFresh
<1> QED
  BY <1>2, <1>3 DEF LookUp

\* Storing a message of a known signer keeps the maps and the cache in order.
LEMMA StoreInv ==
  ASSUME IInv, NEW n \in Nodes, NEW m \in Messages, m.key \in config[n].keys,
         Store(n, m), UNCHANGED config
  PROVE  /\ active' \in [Nodes -> [Keys -> Messages \cup {None}]]
         /\ byHash' \in [Nodes -> SUBSET Messages]
         /\ cachedValue' \in [Nodes -> Values \cup {None}]
         /\ cachedActive' \in [Nodes -> BOOLEAN]
         /\ \A p \in Nodes, k \in Keys : active'[p][k] # None => k \in config'[p].keys
         /\ ActiveIsServed'
         /\ CachedValueFresh'
<1> USE DEF IInv, TypeOK, Store
<1>1. m.key \in Keys
  BY DEF Messages
<1>2. \A p \in Nodes, k \in Keys :
        active'[p][k] = IF p = n /\ k = m.key THEN m ELSE active[p][k]
  BY <1>1
<1>3. active' \in [Nodes -> [Keys -> Messages \cup {None}]]
  BY <1>1
<1>4. byHash' \in [Nodes -> SUBSET Messages] /\ \A p \in Nodes :
        byHash'[p] = IF p = n THEN byHash[p] \cup {m} ELSE byHash[p]
  OBVIOUS
<1>5. \A p \in Nodes, k \in Keys : active'[p][k] # None => k \in config'[p].keys
  BY <1>2
<1>6. ActiveIsServed'
  BY <1>2, <1>4 DEF ActiveIsServed
<1>7. cachedValue' \in [Nodes -> Values \cup {None}] /\ cachedActive' \in [Nodes -> BOOLEAN]
  OBVIOUS
<1>8. ASSUME NEW p \in Nodes, cachedValue'[p] # None
      PROVE  cachedValue'[p] \in Agreed(p)'
  <2>1. p # n /\ cachedValue'[p] = cachedValue[p]
    BY <1>8
  <2>2. Agreed(p)' = Agreed(p)
    BY <1>2, <2>1 DEF Agreed, Supporters
  <2> QED
    BY <1>8, <2>1, <2>2 DEF CachedValueFresh
<1> QED
  BY <1>3, <1>4, <1>5, <1>6, <1>7, <1>8 DEF CachedValueFresh

\* A restart drops what the new setting does not know and empties the caches.
LEMMA RestartInv ==
  ASSUME IInv, NEW n \in Nodes, NEW c \in Configs, Restart(n, c)
  PROVE  IInv'
<1>1. PICK d \in {disk[n], [byHash |-> byHash[n], active |-> active[n]]} :
        /\ disk' = [disk EXCEPT ![n] = d]
        /\ active' = [active EXCEPT ![n] = CheckAndRemove(d, c).active]
        /\ byHash' = [byHash EXCEPT ![n] = CheckAndRemove(d, c).byHash]
  BY DEF Restart
<1>2. /\ d \in [byHash : SUBSET Messages, active : [Keys -> Messages \cup {None}]]
      /\ \A k \in Keys : d.active[k] # None => d.active[k] \in d.byHash /\ d.active[k].key = k
  BY DEF IInv, TypeOK, ActiveIsServed
<1>3. /\ config' = [config EXCEPT ![n] = c]
      /\ SetMinSporkKeys(c)
      /\ cachedValue' = [cachedValue EXCEPT ![n] = None]
      /\ cachedActive' = [cachedActive EXCEPT ![n] = FALSE]
      /\ storing' = [storing EXCEPT ![n] = None]
      /\ reading' = [reading EXCEPT ![n] = None]
      /\ restarts' = restarts + 1
      /\ UNCHANGED <<clock, sent>>
  BY DEF Restart
<1>4. /\ CheckAndRemove(d, c).byHash = {m \in d.byHash : m.key \in c.keys}
      /\ CheckAndRemove(d, c).active
           = [k \in Keys |-> IF k \in c.keys THEN d.active[k] ELSE None]
  BY DEF CheckAndRemove
<1>5. TypeOK'
  <2>1. active' \in [Nodes -> [Keys -> Messages \cup {None}]]
    BY <1>1, <1>2, <1>4 DEF IInv, TypeOK
  <2>2. byHash' \in [Nodes -> SUBSET Messages]
    BY <1>1, <1>2, <1>4 DEF IInv, TypeOK
  <2>3. disk' \in [Nodes -> [byHash : SUBSET Messages, active : [Keys -> Messages \cup {None}]]]
    BY <1>1, <1>2 DEF IInv, TypeOK
  <2>4. config' \in [Nodes -> Configs] /\ storing' \in [Nodes -> Messages \cup {None}]
    BY <1>3 DEF IInv, TypeOK
  <2>5. /\ cachedValue' \in [Nodes -> Values \cup {None}]
        /\ cachedActive' \in [Nodes -> BOOLEAN]
        /\ reading' \in [Nodes -> Values \cup {Default, None}]
        /\ restarts' \in Nat
        /\ clock' \in 0..MaxTime
        /\ sent' \subseteq Messages
    BY <1>3 DEF IInv, TypeOK
  <2> QED
    BY <2>1, <2>2, <2>3, <2>4, <2>5 DEF TypeOK
<1>6. \A p \in Nodes : SetMinSporkKeys(config'[p])
  BY <1>3 DEF IInv, TypeOK
<1>7. \A p \in Nodes : storing'[p] # None => storing'[p].key \in config'[p].keys
  BY <1>3 DEF IInv, TypeOK
<1>8. \A p \in Nodes, k \in Keys :
        active'[p][k] = IF p # n THEN active[p][k]
                        ELSE IF k \in c.keys THEN d.active[k] ELSE None
  BY <1>1, <1>4 DEF IInv, TypeOK
<1>9. \A p \in Nodes, k \in Keys : active'[p][k] # None => k \in config'[p].keys
  BY <1>3, <1>8 DEF IInv, TypeOK
<1>10. \A p \in Nodes, k \in Keys :
         disk'[p].active[k] # None =>
           disk'[p].active[k] \in disk'[p].byHash /\ disk'[p].active[k].key = k
  BY <1>1, <1>2 DEF IInv, TypeOK
<1>11. ActiveIsServed'
  <2> SUFFICES ASSUME NEW p \in Nodes, NEW k \in Keys, active'[p][k] # None
               PROVE  active'[p][k] \in byHash'[p] /\ active'[p][k].key = k
    BY DEF ActiveIsServed
  <2>1. CASE p = n
    <3>1. k \in c.keys /\ active'[p][k] = d.active[k]
      BY <1>8, <2>1
    <3>2. byHash'[p] = {m \in d.byHash : m.key \in c.keys}
      BY <1>1, <1>4, <2>1 DEF IInv, TypeOK
    <3> QED
      BY <1>2, <3>1, <3>2
  <2>2. CASE p # n
    <3>1. active'[p][k] = active[p][k] /\ byHash'[p] = byHash[p]
      BY <1>1, <1>8, <2>2 DEF IInv, TypeOK
    <3> QED
      BY <3>1 DEF IInv, ActiveIsServed
  <2> QED
    BY <2>1, <2>2
<1>12. CachedValueFresh'
  <2> SUFFICES ASSUME NEW p \in Nodes, cachedValue'[p] # None
               PROVE  cachedValue'[p] \in Agreed(p)'
    BY DEF CachedValueFresh
  <2>1. p # n /\ cachedValue'[p] = cachedValue[p] /\ config'[p] = config[p]
    BY <1>3 DEF IInv, TypeOK
  <2>2. \A k \in Keys : active'[p][k] = active[p][k]
    BY <1>8, <2>1
  <2>3. \A v : Supporters(p, v)' = Supporters(p, v)
    BY <2>2 DEF Supporters
  <2>4. Agreed(p)' = Agreed(p)
    BY <2>1, <2>3 DEF Agreed
  <2> QED
    BY <2>1, <2>4 DEF IInv, CachedValueFresh
<1> QED
  BY <1>5, <1>6, <1>7, <1>9, <1>10, <1>11, <1>12 DEF IInv

\* Every step of every thread preserves the invariant.
LEMMA NextInv == IInv /\ [Next]_vars => IInv'
<1> SUFFICES ASSUME IInv, [Next]_vars PROVE IInv'
  OBVIOUS
<1>1. CASE Tick
  <2>1. CachedValueFresh' /\ ActiveIsServed'
    BY <1>1, MapsKept DEF Tick, maps, IInv
  <2>2. TypeOK'
    BY <1>1, TimeAssumption DEF Tick, maps, IInv, TypeOK
  <2> QED
    BY <1>1, <2>1, <2>2 DEF Tick, maps, IInv
<1>2. ASSUME NEW n \in Nodes, NEW v \in Values, UpdateSpork(n, v) PROVE IInv'
  <2> DEFINE m == [key |-> PrivKey[n], value |-> v, time |-> clock]
  <2>1. m \in Messages /\ m.key \in config[n].keys
    BY <1>2, ConfigsAssumption DEF UpdateSpork, IInv, TypeOK, Messages
  <2>2. Store(n, m) /\ UNCHANGED <<clock, config, storing, reading, disk, restarts>>
    BY <1>2 DEF UpdateSpork
  <2>3. sent' \subseteq Messages
    BY <1>2, <2>1 DEF UpdateSpork, IInv, TypeOK
  <2> HIDE DEF m
  <2> QED
    BY <2>1, <2>2, <2>3, StoreInv DEF IInv, TypeOK
<1>3. ASSUME NEW n \in Nodes, NEW m \in sent, CheckSpork(n, m) PROVE IInv'
  <2>1. CachedValueFresh' /\ ActiveIsServed'
    BY <1>3, MapsKept DEF CheckSpork, maps, IInv
  <2>2. m \in Messages
    BY DEF IInv, TypeOK
  <2>3. TypeOK'
    BY <1>3, <2>2 DEF CheckSpork, maps, IInv, TypeOK
  <2>4. \A p \in Nodes : storing'[p] # None => storing'[p].key \in config'[p].keys
    BY <1>3 DEF CheckSpork, IInv, TypeOK
  <2> QED
    BY <1>3, <2>1, <2>3, <2>4 DEF CheckSpork, maps, IInv
<1>4. ASSUME NEW n \in Nodes, StoreSpork(n) PROVE IInv'
  <2>1. storing[n] \in Messages /\ storing[n].key \in config[n].keys
    BY <1>4 DEF StoreSpork, IInv, TypeOK
  <2>2. /\ Store(n, storing[n])
        /\ storing' = [storing EXCEPT ![n] = None]
        /\ UNCHANGED <<clock, sent, config, reading, disk, restarts>>
    BY <1>4 DEF StoreSpork
  <2> QED
    BY <2>1, <2>2, StoreInv DEF IInv, TypeOK
<1>5. ASSUME NEW n \in Nodes, GetSporkValue(n) PROVE IInv'
  <2>1. CachedValueFresh' /\ cachedValue' \in [Nodes -> Values \cup {None}]
    BY <1>5, LookUpFresh DEF GetSporkValue
  <2> QED
    BY <1>5, <2>1 DEF GetSporkValue, IInv, TypeOK, ActiveIsServed
<1>6. ASSUME NEW n \in Nodes, ReadSporkValue(n) PROVE IInv'
  <2>1. CachedValueFresh' /\ cachedValue' \in [Nodes -> Values \cup {None}]
    BY <1>6, LookUpFresh DEF ReadSporkValue
  <2>2. reading' \in [Nodes -> Values \cup {Default, None}]
    BY <1>6 DEF ReadSporkValue, IInv, TypeOK
  <2> QED
    BY <1>6, <2>1, <2>2 DEF ReadSporkValue, IInv, TypeOK, ActiveIsServed
<1>7. ASSUME NEW n \in Nodes, CacheActive(n) PROVE IInv'
  <2>1. cachedActive' \in [Nodes -> BOOLEAN] /\ reading' \in [Nodes -> Values \cup {Default, None}]
    BY <1>7 DEF CacheActive, IInv, TypeOK
  <2>2. CachedValueFresh' /\ ActiveIsServed'
    BY <1>7, MapsKept DEF CacheActive, IInv
  <2> QED
    BY <1>7, <2>1, <2>2 DEF CacheActive, IInv, TypeOK
<1>8. CASE UNCHANGED vars
  <2>1. CachedValueFresh' /\ ActiveIsServed'
    BY <1>8, MapsKept DEF vars, IInv
  <2> QED
    BY <1>8, <2>1 DEF vars, IInv, TypeOK
<1> QED
  BY <1>1, <1>2, <1>3, <1>4, <1>5, <1>6, <1>7, <1>8, RestartInv DEF Next

\* At every node, in every state that satisfies the invariant, two agreed
\* values have a common supporter, who supports one value.
LEMMA AgreedUnique == IInv => OneAgreedValue
<1> SUFFICES ASSUME IInv, NEW n \in Nodes, NEW v \in Agreed(n), NEW w \in Agreed(n)
             PROVE  v = w
  BY DEF OneAgreedValue
<1> DEFINE ks == config[n].keys
<1>1. /\ IsFiniteSet(ks)
      /\ config[n].min \in Nat
      /\ config[n].min > Cardinality(ks) \div 2
  BY KeysAssumption, ConfigsAssumption, FS_Subset DEF IInv, TypeOK, SetMinSporkKeys
<1>2. Supporters(n, v) \in SUBSET ks /\ Supporters(n, w) \in SUBSET ks
  BY DEF Supporters, IInv
<1>3. Cardinality(Supporters(n, v)) >= config[n].min /\ Cardinality(Supporters(n, w)) >= config[n].min
  BY DEF Agreed
<1> HIDE DEF ks
<1>4. Supporters(n, v) \cap Supporters(n, w) # {}
  BY <1>1, <1>2, <1>3, MajoritiesMeet
<1> QED
  BY <1>4 DEF Supporters

\* The invariant holds in every reachable state.
THEOREM Invariance == Spec => []IInv
  BY InitInv, NextInv, PTL DEF Spec

\* CSporkManager's state is always well formed.
THEOREM TypeCorrect == Spec => []TypeOK
<1>1. IInv => TypeOK
  BY DEF IInv
<1> QED
  BY <1>1, Invariance, PTL

\* At most one value has enough signers, for every set of keys, every
\* minimum that SetMinSporkKeys accepts and every history of restarts.
THEOREM AgreedValueIsUnique == Spec => []OneAgreedValue
  BY AgreedUnique, Invariance, PTL

\* The cached value is always one that enough signers support.
THEOREM ValueCacheIsFresh == Spec => []CachedValueFresh
<1>1. IInv => CachedValueFresh
  BY DEF IInv
<1> QED
  BY <1>1, Invariance, PTL

\* What counts for the value can be served by its hash.
THEOREM ActiveCanBeServed == Spec => []ActiveIsServed
<1>1. IInv => ActiveIsServed
  BY DEF IInv
<1> QED
  BY <1>1, Invariance, PTL
-----------------------------------------------------------------------------
\* The message between check and store, in every step of every thread.
LEMMA NextChecked == IInv /\ CheckedIsNewer /\ [Next]_vars => CheckedIsNewer'
<1> SUFFICES ASSUME IInv, CheckedIsNewer, [Next]_vars PROVE CheckedIsNewer'
  OBVIOUS
<1> USE DEF CheckedIsNewer
<1>1. ASSUME UNCHANGED <<active, storing>> PROVE CheckedIsNewer'
  BY <1>1
<1>2. ASSUME NEW n \in Nodes, NEW v \in Values, UpdateSpork(n, v) PROVE CheckedIsNewer'
  <2> SUFFICES ASSUME NEW p \in Nodes, storing'[p] # None, storing'[p].key # PrivKey[p],
                      active'[p][storing'[p].key] # None
               PROVE  active'[p][storing'[p].key].time < storing'[p].time
    OBVIOUS
  <2>1. storing' = storing /\ storing[p] \in Messages
    BY <1>2 DEF UpdateSpork, IInv, TypeOK
  <2>2. active'[p][storing[p].key] = active[p][storing[p].key]
    BY <1>2, <2>1 DEF UpdateSpork, Store, IInv, TypeOK, Messages
  <2> QED
    BY <2>1, <2>2
<1>3. ASSUME NEW n \in Nodes, NEW m \in sent, CheckSpork(n, m) PROVE CheckedIsNewer'
  BY <1>3 DEF CheckSpork, maps, IInv, TypeOK
<1>4. ASSUME NEW n \in Nodes, StoreSpork(n) PROVE CheckedIsNewer'
  <2>1. \A p \in Nodes \ {n} : storing'[p] = storing[p] /\ active'[p] = active[p]
    BY <1>4 DEF StoreSpork, Store, IInv, TypeOK
  <2>2. storing'[n] = None
    BY <1>4 DEF StoreSpork, IInv, TypeOK
  <2> QED
    BY <2>1, <2>2
<1>5. ASSUME NEW n \in Nodes, NEW c \in Configs, Restart(n, c) PROVE CheckedIsNewer'
  <2>1. \A p \in Nodes \ {n} : storing'[p] = storing[p] /\ active'[p] = active[p]
    BY <1>5 DEF Restart, IInv, TypeOK
  <2>2. storing'[n] = None
    BY <1>5 DEF Restart, IInv, TypeOK
  <2> QED
    BY <2>1, <2>2
<1> QED
  BY <1>1, <1>2, <1>3, <1>4, <1>5
  DEF Next, Tick, GetSporkValue, ReadSporkValue, CacheActive, maps, vars

\* Only a restart, or the race of UpdateSpork with ProcessSpork over a node's own
\* key, makes a node return to an older message of a signer.
THEOREM FollowsTheNewest == Spec => NoFallBack
<1> DEFINE A == \A n \in Nodes, k \in Keys :
                  active[n][k] # None /\ (active'[n][k] = None \/ active'[n][k].time < active[n][k].time)
                    => restarts' # restarts \/ k = PrivKey[n]
<1>1. IInv /\ CheckedIsNewer /\ [Next]_vars => [A]_vars
  <2> SUFFICES ASSUME IInv, CheckedIsNewer, Next, NEW n \in Nodes, NEW k \in Keys,
                      active[n][k] # None, restarts' = restarts, k # PrivKey[n]
               PROVE  active'[n][k] # None /\ ~(active'[n][k].time < active[n][k].time)
    OBVIOUS
  <2>1. active[n][k] \in Messages /\ active[n][k].time \in Int
    BY TimeAssumption, SMTT(30) DEF IInv, TypeOK, Messages
  <2>2. ASSUME active'[n][k] = active[n][k] PROVE ~(active'[n][k].time < active[n][k].time)
    BY <2>1, <2>2, SMTT(30)
  <2>3. ASSUME NEW p \in Nodes, NEW v \in Values, UpdateSpork(p, v) PROVE active'[n][k] = active[n][k]
    BY <2>3 DEF UpdateSpork, Store, IInv, TypeOK
  <2>4. ASSUME NEW p \in Nodes, StoreSpork(p)
        PROVE  active'[n][k] # None /\ ~(active'[n][k].time < active[n][k].time)
    <3>1. storing[p] # None /\ storing[p] \in Messages
      BY <2>4 DEF StoreSpork, IInv, TypeOK
    <3>2. active'[n][k] = IF p = n /\ storing[p].key = k THEN storing[p] ELSE active[n][k]
      BY <2>4, <3>1 DEF StoreSpork, Store, IInv, TypeOK
    <3>3. CASE p = n /\ storing[p].key = k
      <4>1. active'[n][k] = storing[n] /\ active[n][k].time < storing[n].time
        BY <3>1, <3>2, <3>3 DEF CheckedIsNewer
      <4>2. storing[n].time \in Int
        BY <3>1, <3>3, TimeAssumption, SMTT(30) DEF Messages
      <4> QED
        BY <2>1, <3>1, <3>3, <4>1, <4>2, SMTT(30)
    <3>4. CASE ~(p = n /\ storing[p].key = k)
      BY <2>2, <3>2, <3>4
    <3> QED
      BY <3>3, <3>4
  <2>5. ASSUME NEW p \in Nodes, NEW c \in Configs, Restart(p, c) PROVE FALSE
    <3>1. restarts' = restarts + 1 /\ restarts \in Nat
      BY <2>5 DEF Restart, IInv, TypeOK
    <3> QED
      BY <3>1, SMTT(30)
  <2>6. ASSUME UNCHANGED active
        PROVE  active'[n][k] # None /\ ~(active'[n][k].time < active[n][k].time)
    BY <2>2, <2>6
  <2> QED
    BY <2>2, <2>3, <2>4, <2>5, <2>6
    DEF Next, Tick, CheckSpork, GetSporkValue, ReadSporkValue, CacheActive, maps
<1>2. Init => CheckedIsNewer
  BY DEF Init, CheckedIsNewer
<1>3. (Spec => [][A]_vars) => (Spec => NoFallBack)
  BY DEF NoFallBack
<1> HIDE DEF A
<1>4. Spec => [][A]_vars
  BY <1>1, <1>2, InitInv, NextInv, NextChecked, PTL DEF Spec
<1> QED
  BY <1>3, <1>4
=============================================================================
