---------------------------- MODULE ListingProofs ---------------------------
(***************************************************************************)
(* The two ends of the table of properties.  Reads: what the cache of      *)
(* property reads keeps for any keys and any number of loads and changes,  *)
(* how old an answer can be and in which order answers come                *)
(* (PropertyReadCache).  Imports: what ties a listing to the file of the   *)
(* advertisement it was made of, for any advertisements and handlers       *)
(* (DivarImport).                                                          *)
(***************************************************************************)
EXTENDS PropertyReadCache, DivarImport, FiniteSetTheorems, TLAPS

----------------------------------------------------------------------------
(* Reads *)

\* Nothing is newer than the database, whose version is not yet overwritten.
Versioned ==
    /\ \A v \in Versions : v >= db => since[v] = 0
    /\ \A k \in Keys : seen[k] <= db
    /\ floor <= db
    /\ \A l \in Loads : load[l] # Idle /\ load[l].step = "read" => load[l].value <= db

\* What a load holds is at most as old as the load, at least as new as what was
\* stored before, and from after the last clear unless it is marked.
HeldIsRecent ==
    \A l \in Loads : load[l] # Idle /\ load[l].step = "read" =>
        /\ since[load[l].value] <= load[l].age
        /\ load[l].value >= seen[load[l].key]
        /\ load[l].value >= floor \/ load[l].late

OneLoadPerKey ==
    \A l, m \in Loads : load[l] # Idle /\ load[m] # Idle /\ load[l].key = load[m].key => l = m

\* An entry ages no faster than it runs out.
EntriesRunOut ==
    \A k \in Cached : cache[k].left > 0 =>
        since[cache[k].value] + cache[k].left <= TTL[k] + LoadTicks

IInv ==
    /\ TypeOK /\ IsFiniteSet(Cached)
    /\ Versioned /\ HeldIsRecent /\ OneLoadPerKey /\ EntriesRunOut /\ ClearedIsGone

USE CacheAssumption, AbsentAssumption

LEMMA InitInv == Init => IInv
<1> SUFFICES ASSUME Init PROVE IInv
  OBVIOUS
<1>1. Cached = {}
  BY DEF Init, Cached
<1>2. IsFiniteSet(Cached) /\ Cardinality(Cached) = 0
  BY <1>1, FS_EmptySet
<1>3. TypeOK
  BY <1>2 DEF Init, TypeOK, Versions
<1>4. Versioned /\ HeldIsRecent /\ OneLoadPerKey
  BY DEF Init, Versioned, HeldIsRecent, OneLoadPerKey, Versions
<1>5. EntriesRunOut /\ ClearedIsGone
  BY <1>1 DEF EntriesRunOut, ClearedIsGone, Live
<1> QED BY <1>2, <1>3, <1>4, <1>5 DEF IInv

----------------------------------------------------------------------------
(* The actions *)

LEMMA MissInv ==
    ASSUME IInv, NEW k \in Keys, NEW l \in Loads, Miss(k, l)
    PROVE  IInv'
<1>1. /\ load' = [load EXCEPT ![l] = [step |-> "asked", key |-> k, age |-> 0]]
      /\ cache' = [cache EXCEPT ![k] = None]
      /\ UNCHANGED <<db, pending, since, floor, seen>>
      /\ ~Loading(k)
  BY DEF Miss, history
<1>2. Cached' = Cached \ {k}
  BY <1>1 DEF IInv, TypeOK, Cached
<1>3. IsFiniteSet(Cached') /\ Cardinality(Cached') <= MaxEntries
  <2>1. /\ IsFiniteSet(Cached) /\ Cardinality(Cached) <= MaxEntries
        /\ Cardinality(Cached) \in Nat
    BY FS_CardinalityType DEF IInv, TypeOK
  <2>2. IsFiniteSet(Cached \ {k})
        /\ Cardinality(Cached \ {k}) =
              IF k \in Cached THEN Cardinality(Cached) - 1 ELSE Cardinality(Cached)
    BY <2>1, FS_RemoveElement
  <2> QED BY <1>2, <2>1, <2>2
<1>4. [step |-> "asked", key |-> k, age |-> 0] \in Asked
  BY DEF Asked
<1>5. TypeOK'
  BY <1>1, <1>3, <1>4 DEF IInv, TypeOK
<1>6. Versioned'
  BY <1>1, <1>4 DEF IInv, TypeOK, Versioned
<1>7. \A m \in Loads : load'[m] = IF m = l THEN [step |-> "asked", key |-> k, age |-> 0]
                                           ELSE load[m]
  BY <1>1 DEF IInv, TypeOK
<1>8. HeldIsRecent'
  BY <1>1, <1>7 DEF IInv, HeldIsRecent
<1>9. OneLoadPerKey'
  BY <1>1, <1>7 DEF IInv, OneLoadPerKey, Loading
<1>10. \A j \in Cached' : j \in Cached /\ cache'[j] = cache[j]
  BY <1>1, <1>2 DEF IInv, TypeOK, Cached
<1>11. EntriesRunOut' /\ ClearedIsGone'
  BY <1>1, <1>10 DEF IInv, EntriesRunOut, ClearedIsGone, Live
<1> QED BY <1>3, <1>5, <1>6, <1>8, <1>9, <1>11 DEF IInv

LEMMA QueryInv ==
    ASSUME IInv, NEW l \in Loads, Query(l)
    PROVE  IInv'
<1> DEFINE held == [step |-> "read", key |-> load[l].key, age |-> load[l].age,
                    value |-> db, late |-> FALSE]
<1>1. /\ load[l].step = "asked" /\ load' = [load EXCEPT ![l] = held]
      /\ UNCHANGED <<db, cache, pending, since, floor, seen>>
  BY DEF Query, history
<1>2. load[l] \in Asked /\ load[l] # Idle
  BY <1>1 DEF IInv, TypeOK, Idle, Holding
<1>3. held \in Holding
  BY <1>2 DEF Asked, Holding, IInv, TypeOK
<1>4. TypeOK' /\ Cached' = Cached
  BY <1>1, <1>3 DEF IInv, TypeOK, Cached
<1>5. \A m \in Loads : load'[m] = IF m = l THEN held ELSE load[m]
  BY <1>1 DEF IInv, TypeOK
<1>6. Versioned'
  BY <1>1, <1>5 DEF IInv, TypeOK, Versioned, Versions
<1>7. /\ held.value = db /\ held.key = load[l].key /\ held.age = load[l].age
      /\ held.key \in Keys /\ held.age \in Nat /\ held # Idle
  BY <1>2 DEF Asked, Idle
<1>8. since[db] = 0 /\ db >= floor /\ \A k \in Keys : db >= seen[k]
  BY DEF IInv, TypeOK, Versioned, Versions
<1> HIDE DEF held
<1>9. HeldIsRecent'
  BY <1>1, <1>5, <1>7, <1>8 DEF IInv, HeldIsRecent
<1>10. OneLoadPerKey'
  BY <1>2, <1>5, <1>7 DEF IInv, OneLoadPerKey
<1>11. EntriesRunOut' /\ ClearedIsGone'
  BY <1>1, <1>4 DEF IInv, EntriesRunOut, ClearedIsGone, Live
<1> QED BY <1>4, <1>6, <1>9, <1>10, <1>11 DEF IInv

\* Evicting makes room for one entry.
LEMMA EvictedHasRoom ==
    ASSUME IInv, NEW room \in Evicted, NEW k \in Keys, NEW e \in Entries,
           cache' = [room EXCEPT ![k] = e]
    PROVE  /\ cache' \in [Keys -> Entries \cup {None}]
           /\ \A j \in Keys \ {k} : cache'[j] # None => cache'[j] = cache[j]
           /\ cache'[k] = e
           /\ IsFiniteSet(Cached') /\ Cardinality(Cached') <= MaxEntries
<1> DEFINE left == {j \in Keys : room[j] # None}
<1>1. /\ IsFiniteSet(Cached) /\ Cardinality(Cached) \in Nat
      /\ Cardinality(Cached) <= MaxEntries /\ MaxEntries \in Nat \ {0}
  BY FS_CardinalityType DEF IInv, TypeOK
<1>2. cache \in [Keys -> Entries \cup {None}]
  BY DEF IInv, TypeOK
<1>3. /\ room \in [Keys -> Entries \cup {None}]
      /\ \A j \in Keys : room[j] # None => room[j] = cache[j]
      /\ IsFiniteSet(left) /\ Cardinality(left) \in Nat
      /\ Cardinality(left) + 1 <= MaxEntries
  <2>1. CASE Cardinality(Cached) >= MaxEntries
    <3>1. PICK v \in Cached : room = [cache EXCEPT ![v] = None]
      BY <2>1 DEF Evicted
    <3>2. left = Cached \ {v}
      BY <1>2, <3>1 DEF Cached
    <3>3. IsFiniteSet(Cached \ {v}) /\ Cardinality(Cached \ {v}) = Cardinality(Cached) - 1
      BY <1>1, FS_RemoveElement
    <3>4. Cardinality(Cached \ {v}) \in Nat
      BY <3>3, FS_CardinalityType
    <3> HIDE DEF left
    <3>5. Cardinality(left) + 1 <= MaxEntries
      BY <1>1, <3>2, <3>3
    <3>6. /\ room \in [Keys -> Entries \cup {None}]
          /\ \A j \in Keys : room[j] # None => room[j] = cache[j]
      BY <1>2, <3>1
    <3> QED BY <3>2, <3>3, <3>4, <3>5, <3>6
  <2>2. CASE ~(Cardinality(Cached) >= MaxEntries)
    <3>1. room = cache
      BY <2>2 DEF Evicted
    <3>2. left = Cached
      BY <3>1 DEF Cached
    <3>3. Cardinality(left) + 1 <= MaxEntries
      BY <1>1, <2>2, <3>2
    <3> QED BY <1>1, <1>2, <3>1, <3>2, <3>3
  <2> QED BY <2>1, <2>2
<1>4. Cached' = left \cup {k}
  BY <1>3 DEF Cached
<1>5. IsFiniteSet(left \cup {k}) /\ Cardinality(left \cup {k}) <= Cardinality(left) + 1
  <2>1. /\ IsFiniteSet(left \cup {k})
        /\ Cardinality(left \cup {k}) =
              IF k \in left THEN Cardinality(left) ELSE Cardinality(left) + 1
    BY <1>3, FS_AddElement
  <2> QED BY <1>3, <2>1
<1>6. Cardinality(left \cup {k}) \in Nat
  BY <1>5, FS_CardinalityType
<1> HIDE DEF left
<1>7. Cardinality(Cached') <= MaxEntries
  BY <1>1, <1>3, <1>4, <1>5, <1>6
<1> QED BY <1>3, <1>4, <1>5, <1>7

LEMMA StoreInv ==
    ASSUME IInv, NEW l \in Loads, Store(l)
    PROVE  IInv' /\ \A k \in Keys : seen'[k] >= seen[k]
<1> DEFINE k == load[l].key
           e == [value |-> load[l].value, left |-> TTL[k], late |-> load[l].late]
<1>1. load[l].step = "read" /\ load[l] # Idle
  BY DEF Store, Idle
<1>2. load[l] \in Holding
  BY <1>1 DEF IInv, TypeOK, Asked
<1>3. k \in Keys /\ e \in Entries /\ e # None /\ load[l].age \in 0 .. LoadTicks
      /\ load[l].value \in Versions
  BY <1>2 DEF Holding, Entries
<1>4. /\ load' = [load EXCEPT ![l].step = "stored"] /\ seen' = [seen EXCEPT ![k] = e.value]
      /\ UNCHANGED <<db, pending, since, floor>>
  BY DEF Store
<1>5. PICK room \in Evicted : cache' = [room EXCEPT ![k] = e]
  BY DEF Store
<1>6. since[e.value] <= load[l].age /\ e.value >= seen[k] /\ (e.value >= floor \/ e.late)
  BY <1>1 DEF IInv, HeldIsRecent
<1>7. e.left = TTL[k] /\ e.value = load[l].value
  OBVIOUS
<1> HIDE DEF e
<1>8. /\ cache' \in [Keys -> Entries \cup {None}]
      /\ \A j \in Keys \ {k} : cache'[j] # None => cache'[j] = cache[j]
      /\ cache'[k] = e
      /\ IsFiniteSet(Cached') /\ Cardinality(Cached') <= MaxEntries
  BY <1>3, <1>5, EvictedHasRoom
<1>9. [load[l] EXCEPT !.step = "stored"] \in Holding
  BY <1>2 DEF Holding
<1>10. TypeOK'
  BY <1>3, <1>4, <1>7, <1>8, <1>9 DEF IInv, TypeOK
<1>11. /\ \A j \in Keys : seen'[j] = IF j = k THEN e.value ELSE seen[j]
       /\ \A m \in Loads : m # l => load'[m] = load[m]
       /\ load'[l] = [load[l] EXCEPT !.step = "stored"]
  BY <1>4 DEF IInv, TypeOK
<1>12. load'[l].step = "stored" /\ load'[l].key = k
  BY <1>2, <1>11 DEF Holding
<1>13. e.value <= db
  BY <1>1, <1>7 DEF IInv, Versioned
<1>14. Versioned'
  BY <1>1, <1>4, <1>11, <1>12, <1>13 DEF IInv, Versioned
<1>15. HeldIsRecent'
  <2> SUFFICES ASSUME NEW m \in Loads, load'[m] # Idle, load'[m].step = "read"
               PROVE  /\ since[load'[m].value] <= load'[m].age
                      /\ load'[m].value >= seen'[load'[m].key]
                      /\ load'[m].value >= floor \/ load'[m].late
    BY <1>4 DEF HeldIsRecent
  <2>1. m # l /\ load'[m] = load[m]
    BY <1>11, <1>12
  <2>2. load[m].key # k
    BY <1>1, <2>1 DEF IInv, OneLoadPerKey
  <2>3. load[m] \in Holding
    BY <2>1 DEF IInv, TypeOK, Asked
  <2>4. seen'[load[m].key] = seen[load[m].key]
    BY <1>11, <2>2, <2>3 DEF Holding
  <2> QED BY <2>1, <2>4 DEF IInv, HeldIsRecent
<1>16. OneLoadPerKey'
  <2>1. \A m \in Loads : load'[m] # Idle => load[m] # Idle /\ load'[m].key = load[m].key
    BY <1>1, <1>11, <1>12
  <2> QED BY <2>1 DEF IInv, OneLoadPerKey
<1>17. EntriesRunOut'
  <2> SUFFICES ASSUME NEW j \in Cached', cache'[j].left > 0
               PROVE  since[cache'[j].value] + cache'[j].left <= TTL[j] + LoadTicks
    BY <1>4 DEF EntriesRunOut
  <2>1. j \in Keys /\ cache'[j] # None
    BY DEF Cached
  <2>2. CASE j = k
    <3>1. since[e.value] \in Nat /\ load[l].age \in Nat /\ load[l].age <= LoadTicks
          /\ TTL[k] \in Nat
      BY <1>3, <1>7 DEF IInv, TypeOK
    <3>2. cache'[j].value = e.value /\ cache'[j].left = TTL[k]
      BY <1>7, <1>8, <2>2
    <3> QED BY <1>6, <2>2, <3>1, <3>2
  <2>3. CASE j # k
    BY <1>8, <2>1, <2>3 DEF IInv, EntriesRunOut, Cached
  <2> QED BY <2>2, <2>3
<1>18. ClearedIsGone'
  <2> SUFFICES ASSUME NEW j \in Keys, Live(j)'
               PROVE  cache'[j].value >= floor \/ cache'[j].late
    BY <1>4 DEF ClearedIsGone
  <2>1. CASE j = k
    BY <1>6, <1>8, <2>1
  <2>2. CASE j # k
    BY <1>8, <2>2 DEF IInv, ClearedIsGone, Live, Cached
  <2> QED BY <2>1, <2>2
<1>19. \A j \in Keys : seen'[j] >= seen[j]
  <2>1. \A j \in Keys : seen[j] \in Int
    BY DEF IInv, TypeOK, Versions
  <2> QED BY <1>6, <1>11, <2>1
<1> QED BY <1>8, <1>10, <1>14, <1>15, <1>16, <1>17, <1>18, <1>19 DEF IInv

LEMMA SettleInv ==
    ASSUME IInv, NEW l \in Loads, Settle(l)
    PROVE  IInv'
<1>1. load' = [load EXCEPT ![l] = Idle] /\ UNCHANGED <<db, cache, pending, since, floor, seen>>
  BY DEF Settle, history
<1>2. TypeOK' /\ Cached' = Cached
  BY <1>1 DEF IInv, TypeOK, Cached
<1>3. \A m \in Loads : load'[m] # Idle => load'[m] = load[m]
  BY <1>1 DEF IInv, TypeOK
<1>4. Versioned' /\ HeldIsRecent'
  BY <1>1, <1>3 DEF IInv, Versioned, HeldIsRecent
<1>5. OneLoadPerKey'
  BY <1>3 DEF IInv, OneLoadPerKey
<1>6. EntriesRunOut' /\ ClearedIsGone'
  BY <1>1, <1>2 DEF IInv, EntriesRunOut, ClearedIsGone, Live
<1> QED BY <1>2, <1>4, <1>5, <1>6 DEF IInv

LEMMA WriteInv ==
    ASSUME IInv, NEW clears \in BOOLEAN, Write(clears)
    PROVE  IInv'
<1>1. /\ db < MaxWrites /\ db' = db + 1
      /\ pending' = (IF clears THEN pending + 1 ELSE pending)
      /\ UNCHANGED <<cache, load, since, floor, seen>>
  BY DEF Write, history
<1>2. db \in Nat /\ pending \in Nat /\ db' \in Versions /\ pending' \in Nat
  BY <1>1 DEF IInv, TypeOK, Versions
<1>3. TypeOK' /\ Cached' = Cached
  BY <1>1, <1>2 DEF IInv, TypeOK, Cached
<1>4. Versioned'
  <2>1. \A v \in Versions : v >= db' => since'[v] = 0
    BY <1>1, <1>2 DEF IInv, Versioned, Versions
  <2>2. (\A k \in Keys : seen'[k] <= db') /\ floor' <= db'
    BY <1>1, <1>2 DEF IInv, TypeOK, Versioned, Versions
  <2>3. \A l \in Loads : load[l] # Idle /\ load[l].step = "read" => load[l].value \in Int
    BY DEF IInv, TypeOK, Asked, Holding, Versions
  <2>4. \A l \in Loads : load'[l] # Idle /\ load'[l].step = "read" => load'[l].value <= db'
    BY <1>1, <1>2, <2>3 DEF IInv, Versioned
  <2> QED BY <2>1, <2>2, <2>4 DEF Versioned
<1>5. HeldIsRecent' /\ OneLoadPerKey'
  BY <1>1 DEF IInv, HeldIsRecent, OneLoadPerKey
<1>6. EntriesRunOut' /\ ClearedIsGone'
  BY <1>1, <1>3 DEF IInv, EntriesRunOut, ClearedIsGone, Live
<1> QED BY <1>3, <1>4, <1>5, <1>6 DEF IInv

LEMMA ClearInv ==
    ASSUME IInv, Clear
    PROVE  IInv'
<1>1. /\ pending > 0 /\ pending' = pending - 1
      /\ cache' = [k \in Keys |-> None] /\ floor' = db
      /\ UNCHANGED <<db, since, seen>>
  BY DEF Clear
<1>2. \A l \in Loads : load'[l] = IF load[l].step = "read"
                                  THEN [load[l] EXCEPT !.late = TRUE] ELSE load[l]
  BY DEF Clear
<1>3. \A l \in Loads : /\ load[l] = Idle => load'[l] = Idle
                       /\ load[l] \in Asked => load'[l] = load[l]
                       /\ load[l] \in Holding => load'[l] \in Holding
  BY <1>2 DEF Idle, Asked, Holding
<1>4. \A l \in Loads :
          /\ load'[l] # Idle => /\ load[l] # Idle /\ load'[l].key = load[l].key
                                /\ load'[l].step = load[l].step
          /\ load'[l] # Idle /\ load'[l].step = "read" =>
                /\ load'[l].value = load[l].value /\ load'[l].age = load[l].age
                /\ load'[l].late
  BY <1>2 DEF IInv, TypeOK, Idle, Asked, Holding
<1>5. Cached' = {}
  BY <1>1 DEF Cached
<1>6. IsFiniteSet(Cached') /\ Cardinality(Cached') <= MaxEntries
  BY <1>5, FS_EmptySet
<1>7. load' \in [Loads -> {Idle} \cup Asked \cup Holding]
  <2>1. load' = [l \in Loads |-> load'[l]]
    BY DEF Clear
  <2> QED BY <1>3, <2>1 DEF IInv, TypeOK
<1>8. TypeOK'
  BY <1>1, <1>6, <1>7 DEF IInv, TypeOK
<1>9. Versioned' /\ HeldIsRecent'
  <2>1. db <= db
    BY DEF IInv, TypeOK, Versions
  <2>2. Versioned'
    BY <1>1, <1>4, <2>1 DEF IInv, Versioned
  <2>3. HeldIsRecent'
    BY <1>1, <1>4 DEF IInv, HeldIsRecent
  <2> QED BY <2>2, <2>3
<1>10. OneLoadPerKey'
  BY <1>4 DEF IInv, OneLoadPerKey
<1>11. EntriesRunOut' /\ ClearedIsGone'
  BY <1>5 DEF EntriesRunOut, ClearedIsGone, Live
<1> QED BY <1>6, <1>8, <1>9, <1>10, <1>11 DEF IInv

LEMMA TickInv ==
    ASSUME IInv, Tick
    PROVE  IInv'
<1>1. UNCHANGED <<db, pending, floor, seen>>
  BY DEF Tick
<1>2. \A v \in Versions : /\ since'[v] \in 0 .. Horizon
                          /\ since'[v] <= since[v] + 1
                          /\ v >= db => since'[v] = since[v]
  BY DEF Tick, IInv, TypeOK, Versions
<1>3. \A k \in Keys : cache'[k] = IF k \in Cached /\ cache[k].left > 0
                                  THEN [cache[k] EXCEPT !.left = @ - 1] ELSE cache[k]
  BY DEF Tick
<1>4. \A l \in Loads : load'[l] = IF load[l] = Idle THEN Idle
                                  ELSE [load[l] EXCEPT !.age = @ + 1]
  BY DEF Tick
<1>5. \A l \in Loads : load[l] # Idle => load[l].step # "stored" /\ load[l].age < LoadTicks
  BY DEF Tick
<1>6. \A k \in Cached : /\ cache[k] \in Entries
                        /\ cache'[k] \in Entries
                        /\ cache'[k].value = cache[k].value
                        /\ cache'[k].late = cache[k].late
                        /\ cache'[k].left > 0 => cache[k].left > 0
                                                /\ cache'[k].left = cache[k].left - 1
  <2> SUFFICES ASSUME NEW k \in Cached
               PROVE  /\ cache[k] \in Entries
                      /\ cache'[k] \in Entries
                      /\ cache'[k].value = cache[k].value
                      /\ cache'[k].late = cache[k].late
                      /\ cache'[k].left > 0 => cache[k].left > 0
                                              /\ cache'[k].left = cache[k].left - 1
    OBVIOUS
  <2>1. k \in Keys /\ cache[k] \in Entries
    BY DEF IInv, TypeOK, Cached
  <2>2. CASE cache[k].left > 0
    <3>1. cache'[k] = [cache[k] EXCEPT !.left = cache[k].left - 1]
      BY <1>3, <2>1, <2>2
    <3> QED BY <2>1, <2>2, <3>1 DEF Entries
  <2>3. CASE ~(cache[k].left > 0)
    <3>1. cache'[k] = cache[k]
      BY <1>3, <2>1, <2>3
    <3> QED BY <2>1, <2>3, <3>1
  <2> QED BY <2>2, <2>3
<1>7. \A k \in Keys \ Cached : cache'[k] = None
  BY <1>3 DEF Cached
<1>8. Cached' = Cached
  BY <1>6, <1>7 DEF Cached
<1>9. \A l \in Loads : load[l] # Idle =>
          /\ load'[l] \in Asked \cup Holding /\ load'[l] # Idle
          /\ load'[l].step = load[l].step /\ load'[l].key = load[l].key
          /\ load'[l].age = load[l].age + 1
          /\ load'[l].step = "read" =>
                /\ load'[l].value = load[l].value /\ load'[l].late = load[l].late
                /\ load[l].value \in Versions /\ load[l].age \in Nat
  <2> SUFFICES ASSUME NEW l \in Loads, load[l] # Idle
               PROVE  /\ load'[l] \in Asked \cup Holding /\ load'[l] # Idle
                      /\ load'[l].step = load[l].step /\ load'[l].key = load[l].key
                      /\ load'[l].age = load[l].age + 1
                      /\ load'[l].step = "read" =>
                            /\ load'[l].value = load[l].value /\ load'[l].late = load[l].late
                            /\ load[l].value \in Versions /\ load[l].age \in Nat
    OBVIOUS
  <2>1. load'[l] = [load[l] EXCEPT !.age = @ + 1] /\ load[l].age < LoadTicks
    BY <1>4, <1>5
  <2>2. CASE load[l] \in Asked
    BY <2>1, <2>2 DEF Asked, Idle
  <2>3. CASE load[l] \in Holding
    BY <2>1, <2>3 DEF Holding, Idle
  <2> QED BY <2>2, <2>3 DEF IInv, TypeOK
<1>10. \A l \in Loads : load[l] = Idle => load'[l] = Idle
  BY <1>4
<1>11. TypeOK'
  <2>1. cache' = [k \in Keys |-> cache'[k]] /\ load' = [l \in Loads |-> load'[l]]
        /\ since' = [v \in Versions |-> since'[v]]
    BY DEF Tick
  <2>2. cache' \in [Keys -> Entries \cup {None}]
    BY <1>6, <1>7, <2>1
  <2>3. load' \in [Loads -> {Idle} \cup Asked \cup Holding]
    BY <1>9, <1>10, <2>1
  <2>4. since' \in [Versions -> 0 .. Horizon]
    BY <1>2, <2>1
  <2> QED BY <1>1, <1>8, <2>2, <2>3, <2>4 DEF IInv, TypeOK
<1>12. Versioned'
  BY <1>1, <1>2, <1>9, <1>10 DEF IInv, Versioned
<1>13. HeldIsRecent'
  <2>1. \A v \in Versions : since[v] \in Int /\ since'[v] \in Int
    BY <1>2 DEF IInv, TypeOK
  <2> QED BY <1>1, <1>2, <1>9, <1>10, <2>1 DEF IInv, HeldIsRecent
<1>14. OneLoadPerKey'
  BY <1>9, <1>10 DEF IInv, OneLoadPerKey
<1>15. EntriesRunOut'
  <2> SUFFICES ASSUME NEW k \in Cached, cache'[k].left > 0
               PROVE  since'[cache'[k].value] + cache'[k].left <= TTL[k] + LoadTicks
    BY <1>8 DEF EntriesRunOut
  <2>1. since[cache[k].value] + cache[k].left <= TTL[k] + LoadTicks
    BY <1>6 DEF IInv, EntriesRunOut
  <2>2. /\ cache[k].value \in Versions /\ cache[k].left \in Nat
        /\ since[cache[k].value] \in Int /\ k \in Keys
    BY <1>6 DEF IInv, TypeOK, Entries, Cached
  <2>3. since'[cache[k].value] \in Int /\ since'[cache[k].value] <= since[cache[k].value] + 1
    BY <1>2, <2>2
  <2>4. cache'[k].value = cache[k].value /\ cache'[k].left = cache[k].left - 1
    BY <1>6
  <2>5. TTL[k] \in Int /\ LoadTicks \in Int
    BY <2>2
  <2> QED BY <2>1, <2>2, <2>3, <2>4, <2>5
<1>16. ClearedIsGone'
  BY <1>1, <1>6, <1>8 DEF IInv, ClearedIsGone, Live
<1> QED BY <1>8, <1>11, <1>12, <1>13, <1>14, <1>15, <1>16 DEF IInv

LEMMA NextInv == IInv /\ [Next]_vars => IInv' /\ \A k \in Keys : seen'[k] >= seen[k]
<1> SUFFICES ASSUME IInv, [Next]_vars
             PROVE  IInv' /\ \A k \in Keys : seen'[k] >= seen[k]
  OBVIOUS
<1>1. \A k \in Keys : seen[k] >= seen[k]
  BY DEF IInv, TypeOK, Versions
<1>2. CASE UNCHANGED vars
  <2>1. Cached' = Cached
    BY <1>2 DEF vars, Cached
  <2>2. IInv'
    BY <1>2, <2>1 DEF vars, history, IInv, TypeOK, Versioned, HeldIsRecent, OneLoadPerKey,
                      EntriesRunOut, ClearedIsGone, Live
  <2> QED BY <1>1, <1>2, <2>2 DEF vars, history
<1>3. ASSUME NEW l \in Loads, Store(l) PROVE IInv' /\ \A k \in Keys : seen'[k] >= seen[k]
  BY <1>3, StoreInv
<1>4. ASSUME NEW l \in Loads, (\E k \in Keys : Miss(k, l)) \/ Query(l) \/ Settle(l)
      PROVE  IInv' /\ seen' = seen
  BY <1>4, MissInv, QueryInv, SettleInv DEF Miss, Query, Settle, history
<1>5. ASSUME (\E clears \in BOOLEAN : Write(clears)) \/ Clear \/ Tick
      PROVE  IInv' /\ seen' = seen
  BY <1>5, WriteInv, ClearInv, TickInv DEF Write, Clear, Tick, history
<1> QED BY <1>1, <1>2, <1>3, <1>4, <1>5 DEF Next

\* The inductive invariant holds of the cache in every reachable state.
THEOREM Invariance == Spec => []IInv
BY InitInv, NextInv, PTL DEF Spec

----------------------------------------------------------------------------
(* The theorems *)

\* The maps stay well typed and the cache within MAX_ENTRIES (TypeOK), for any
\* number of keys and loads.
THEOREM TypeCorrect == Spec => []TypeOK
<1>1. IInv => TypeOK
  BY DEF IInv
<1> QED BY <1>1, Invariance, PTL

\* A read is answered with what the database held within the key's TTL and the
\* time of one load, for any TTLs.
THEOREM AnswersAreRecent == Spec => []StalenessIsBounded
<1>1. IInv => StalenessIsBounded
  <2> SUFFICES ASSUME IInv, NEW k \in Keys, Live(k)
               PROVE  since[cache[k].value] <= TTL[k] + LoadTicks
    BY DEF StalenessIsBounded
  <2>1. /\ k \in Cached /\ cache[k].left > 0
        /\ since[cache[k].value] + cache[k].left <= TTL[k] + LoadTicks
    BY DEF Live, IInv, EntriesRunOut
  <2>2. cache[k].left \in Nat /\ cache[k].value \in Versions
    BY <2>1 DEF IInv, TypeOK, Cached, Entries
  <2>3. since[cache[k].value] \in Int
    BY <2>2 DEF IInv, TypeOK
  <2> QED BY <2>1, <2>2, <2>3
<1> QED BY <1>1, Invariance, PTL

\* After a clear only a load that had read before it brings old data back.
THEOREM OnlyLateLoadsReturn == Spec => []ClearedIsGone
<1>1. IInv => ClearedIsGone
  BY DEF IInv
<1> QED BY <1>1, Invariance, PTL

\* The reads of a key never go back in time.
THEOREM ReadsAreMonotone == Spec => NeverGoesBack
<1>1. IInv /\ [Next]_vars => [\A k \in Keys : seen'[k] >= seen[k]]_vars
  BY NextInv
<1> QED BY <1>1, Invariance, PTL DEF Spec, NeverGoesBack


----------------------------------------------------------------------------
(***************************************************************************)
(* Imports.                                                                *)
(***************************************************************************)

\* A handler at work on a property knows which.
Carried ==
    \A r \in Requests : request[r] # Nothing
        /\ request[r].step \in {"look", "unlink", "stamp", "record"}
        => request[r].property # Nothing

FilesTyped == FilesTypeOK /\ Carried

\* A handler goes to another step, or ends; the others stay as they are.
LEMMA HandlerGoes ==
    ASSUME FilesTyped, NEW r \in Requests, request[r] # Nothing, NEW step \in Steps,
           step \in {"look", "unlink", "stamp", "record"} => request[r].property # Nothing,
           Goes(r, step)
    PROVE  /\ request' \in [Requests -> Handlers \cup {Nothing}] /\ Carried'
           /\ request'[r] # Nothing /\ request'[r] = [request[r] EXCEPT !.step = step]
           /\ \A s \in Requests \ {r} : request'[s] = request[s]
<1>1. request[r] \in Handlers
  BY DEF FilesTyped, FilesTypeOK
<1>2. request' = [request EXCEPT ![r] = [request[r] EXCEPT !.step = step]]
  BY DEF Goes
<1>3. [request[r] EXCEPT !.step = step] \in Handlers
  BY <1>1 DEF Handlers
<1>4. Nothing \notin Handlers
  BY NothingAssumption
<1>5. /\ request' \in [Requests -> Handlers \cup {Nothing}]
      /\ request'[r] = [request[r] EXCEPT !.step = step]
      /\ \A s \in Requests \ {r} : request'[s] = request[s]
  BY <1>2, <1>3 DEF FilesTyped, FilesTypeOK
<1>6. request'[r].step = step /\ request'[r].property = request[r].property
  BY <1>1, <1>5 DEF Handlers
<1>7. Carried'
  BY <1>5, <1>6 DEF FilesTyped, Carried
<1> QED BY <1>3, <1>4, <1>5, <1>7

LEMMA HandlerEnds ==
    ASSUME FilesTyped, NEW r \in Requests, Ends(r)
    PROVE  /\ request' \in [Requests -> Handlers \cup {Nothing}] /\ Carried'
           /\ request'[r] = Nothing
           /\ \A s \in Requests \ {r} : request'[s] = request[s]
<1>1. /\ request' \in [Requests -> Handlers \cup {Nothing}]
      /\ request'[r] = Nothing
      /\ \A s \in Requests \ {r} : request'[s] = request[s]
  BY DEF Ends, FilesTyped, FilesTypeOK
<1> QED BY <1>1 DEF FilesTyped, Carried

\* An update by a handler touches at most the row it read.
LEMMA FileUpdated ==
    ASSUME FilesTyped, NEW r \in Requests, request[r] # Nothing, NEW update,
           row[request[r].ad] # Nothing => update \in Rows,
           UpdateFile(request[r], update)
    PROVE  /\ row' \in [Ads -> Rows \cup {Nothing}]
           /\ \A a \in Ads : a # request[r].ad => row'[a] = row[a]
           /\ row'[request[r].ad] = IF StillThere(request[r]) THEN update
                                                            ELSE row[request[r].ad]
<1>1. request[r].ad \in Ads
  BY DEF FilesTyped, FilesTypeOK, Handlers
<1> QED BY <1>1 DEF FilesTyped, FilesTypeOK, UpdateFile, StillThere

\* What the crawl makes of the row of an advertisement: a new row names no
\* property, and one there is keeps its id, approval and property; it stays
\* published if it was, and is not rejected if it was approved.
Refreshed(a) ==
    \/ row'[a] = row[a]
    \/ row[a] = Nothing /\ row'[a] # Nothing /\ row'[a].link = Nothing /\ ~row'[a].override
    \/ /\ row[a] # Nothing /\ row'[a] # Nothing
       /\ row'[a].id = row[a].id /\ row'[a].link = row[a].link
       /\ row'[a].override = row[a].override
       /\ row'[a].status = "imported" <=> row[a].status = "imported"
       /\ row[a].override => row'[a].status # "rejected"

LEMMA UpsertTyped ==
    ASSUME FilesTyped, NEW a \in Ads, NEW new, NEW update, Upsert(a, new, update),
           rowIds[a] + 1 \in Ids => new \in Rows,
           row[a] # Nothing => update \in Rows
    PROVE  /\ row' \in [Ads -> Rows \cup {Nothing}] /\ rowIds' \in [Ads -> 0 .. MaxRows]
           /\ \A b \in Ads : b # a => row'[b] = row[b]
           /\ row'[a] = IF row[a] = Nothing THEN new ELSE update
           /\ row[a] = Nothing => new \in Rows
<1>1. MaxRows \in Nat /\ rowIds[a] \in 0 .. MaxRows
  BY BoundsAssumption DEF FilesTyped, FilesTypeOK
<1>2. CASE row[a] = Nothing
  <2>1. rowIds[a] < MaxRows /\ rowIds' = [rowIds EXCEPT ![a] = @ + 1]
        /\ row' = [row EXCEPT ![a] = new]
    BY <1>2 DEF Upsert
  <2>2. rowIds[a] + 1 \in Ids /\ rowIds[a] + 1 \in 0 .. MaxRows
    BY <1>1, <2>1 DEF Ids
  <2> QED BY <1>2, <2>1, <2>2 DEF FilesTyped, FilesTypeOK
<1>3. CASE row[a] # Nothing
  <2>1. row' = [row EXCEPT ![a] = update] /\ rowIds' = rowIds
    BY <1>3 DEF Upsert
  <2> QED BY <1>3, <2>1 DEF FilesTyped, FilesTypeOK
<1> QED BY <1>2, <1>3

LEMMA NewRowTyped ==
    ASSUME NEW a \in Ads, rowIds[a] + 1 \in Ids,
           NEW status \in {"accepted", "imported", "rejected"}, NEW flagged \in BOOLEAN
    PROVE  NewRow(a, status, flagged) \in Rows
BY DEF NewRow, Rows

LEMMA AgainTyped ==
    ASSUME NEW old \in Rows
    PROVE  /\ RejectedAgain(old) \in Rows /\ AcceptedAgain(old) \in Rows
           /\ \A new \in {RejectedAgain(old), AcceptedAgain(old)} :
                 /\ new.id = old.id /\ new.link = old.link /\ new.override = old.override
                 /\ new.status = "imported" <=> old.status = "imported"
                 /\ old.override => new.status # "rejected"
<1> DEFINE imported == old.status = "imported"
           rejected == [old EXCEPT !.status = IF imported THEN "imported"
                                              ELSE IF old.override THEN "accepted" ELSE "rejected",
                                   !.flagged = old.flagged \/ ~old.override]
           accepted == [old EXCEPT !.status = IF imported THEN "imported" ELSE "accepted",
                                   !.flagged = FALSE]
<1>1. rejected = RejectedAgain(old) /\ accepted = AcceptedAgain(old)
  BY DEF RejectedAgain, AcceptedAgain, Rows
<1>2. rejected \in Rows /\ accepted \in Rows
  BY DEF Rows
<1>3. /\ rejected.id = old.id /\ rejected.link = old.link /\ rejected.override = old.override
      /\ rejected.status = "imported" <=> old.status = "imported"
      /\ old.override => rejected.status # "rejected"
  BY DEF Rows
<1>4. /\ accepted.id = old.id /\ accepted.link = old.link /\ accepted.override = old.override
      /\ accepted.status = "imported" <=> old.status = "imported"
      /\ accepted.status # "rejected"
  BY DEF Rows
<1> HIDE DEF rejected, accepted
<1> QED BY <1>1, <1>2, <1>3, <1>4

LEMMA StoreRefreshes ==
    ASSUME FilesTyped, NEW a \in Ads, StoreRejected(a) \/ StoreAccepted(a)
    PROVE  /\ FilesTypeOK' /\ \A b \in Ads : Refreshed(b)
           /\ UNCHANGED <<property, request, importHistory>>
<1> DEFINE Stores(status, flagged, again) ==
              Upsert(a, NewRow(a, status, flagged), again)
<1>1. /\ \/ Stores("rejected", TRUE, RejectedAgain(row[a]))
         \/ Stores("accepted", FALSE, AcceptedAgain(row[a]))
      /\ crawled' = [crawled EXCEPT ![a] = Nothing]
      /\ UNCHANGED <<verdict, property, request, importHistory>>
  BY DEF StoreRejected, StoreAccepted
<1>2. Nothing \notin Rows
  BY NothingAssumption
<1>3. row[a] # Nothing => row[a] \in Rows
  BY DEF FilesTyped, FilesTypeOK
<1>4. ASSUME NEW status \in {"accepted", "imported", "rejected"}, NEW flagged \in BOOLEAN,
             NEW again, Stores(status, flagged, again),
             row[a] # Nothing =>
                 again \in {RejectedAgain(row[a]), AcceptedAgain(row[a])}
      PROVE  /\ row' \in [Ads -> Rows \cup {Nothing}] /\ rowIds' \in [Ads -> 0 .. MaxRows]
             /\ \A b \in Ads : Refreshed(b)
  <2>1. row[a] # Nothing => again \in Rows
    BY <1>3, <1>4, AgainTyped
  <2>2. rowIds[a] + 1 \in Ids => NewRow(a, status, flagged) \in Rows
    BY NewRowTyped
  <2>3. /\ row' \in [Ads -> Rows \cup {Nothing}] /\ rowIds' \in [Ads -> 0 .. MaxRows]
        /\ \A b \in Ads : b # a => row'[b] = row[b]
        /\ row'[a] = IF row[a] = Nothing THEN NewRow(a, status, flagged) ELSE again
        /\ row[a] = Nothing => NewRow(a, status, flagged) \in Rows
    BY <1>4, <2>1, <2>2, UpsertTyped
  <2>4. Refreshed(a)
    <3>1. CASE row[a] = Nothing
      <4>1. /\ NewRow(a, status, flagged).link = Nothing
            /\ ~NewRow(a, status, flagged).override
        BY DEF NewRow
      <4> QED BY <1>2, <2>3, <3>1, <4>1 DEF Refreshed
    <3>2. CASE row[a] # Nothing
      <4> DEFINE old == row[a]
      <4>1. old \in Rows /\ row'[a] \in {RejectedAgain(old), AcceptedAgain(old)}
        BY <1>3, <1>4, <2>3, <3>2
      <4>2. /\ row'[a].id = old.id /\ row'[a].link = old.link /\ row'[a].override = old.override
            /\ row'[a].status = "imported" <=> old.status = "imported"
            /\ old.override => row'[a].status # "rejected"
            /\ row'[a] \in Rows
        BY <4>1, AgainTyped
      <4> QED BY <1>2, <3>2, <4>2 DEF Refreshed
    <3> QED BY <3>1, <3>2
  <2>5. \A b \in Ads : b # a => Refreshed(b)
    BY <2>3 DEF Refreshed
  <2> QED BY <2>3, <2>4, <2>5
<1>5. /\ row' \in [Ads -> Rows \cup {Nothing}] /\ rowIds' \in [Ads -> 0 .. MaxRows]
      /\ \A b \in Ads : Refreshed(b)
  BY <1>1, <1>4
<1>6. FilesTypeOK'
  BY <1>1, <1>5 DEF FilesTyped, FilesTypeOK, importHistory
<1> QED BY <1>1, <1>5, <1>6

LEMMA ListRefreshes ==
    ASSUME FilesTyped, NEW a \in Ads, ListAccepted(a)
    PROVE  FilesTypeOK' /\ \A b \in Ads : Refreshed(b)
<1>1. row[a] \in Rows /\ row[a].status = "accepted" /\ ~row[a].override /\ row[a] # Nothing
  BY DEF ListAccepted, FilesTyped, FilesTypeOK
<1>2. row' = [row EXCEPT ![a] = [row[a] EXCEPT !.status = "rejected"]]
  BY DEF ListAccepted
<1>3. [row[a] EXCEPT !.status = "rejected"] \in Rows /\ Nothing \notin Rows
  BY <1>1, NothingAssumption DEF Rows
<1>4. /\ row' \in [Ads -> Rows \cup {Nothing}]
      /\ row'[a] = [row[a] EXCEPT !.status = "rejected"]
      /\ \A b \in Ads : b # a => row'[b] = row[b]
  BY <1>2, <1>3 DEF FilesTyped, FilesTypeOK
<1>5. FilesTypeOK'
  BY <1>4 DEF ListAccepted, FilesTyped, FilesTypeOK, ads, importHistory
<1>6. Refreshed(a)
  BY <1>1, <1>3, <1>4 DEF Refreshed, Rows
<1> QED BY <1>4, <1>5, <1>6 DEF Refreshed

----------------------------------------------------------------------------
(* The invariant *)

\* The file, the listing or a handler of an advertisement names a property.
Names(a, p) ==
    \/ property[p] = a
    \/ row[a] # Nothing /\ row[a].link = p
    \/ \E r \in Requests : request[r] # Nothing /\ request[r].ad = a /\ request[r].property = p

\* No property is named for two advertisements.
OneAdvertisement == \A p \in Properties, a, b \in Ads : Names(a, p) /\ Names(b, p) => a = b

Alone == \A r, s \in Requests :
    request[r] # Nothing /\ request[s] # Nothing /\ request[r].ad = request[s].ad
        /\ request[r].ad \notin overlapped => r = s

\* The row still is what the handler read, but for what it wrote itself; when it
\* unlinks a property that property is gone, what it refuses no human approved,
\* and what it approves or revokes is not published.
AsRead(h) ==
    /\ row[h.ad] # Nothing /\ row[h.ad].id = h.id /\ row[h.ad].override = h.override
    /\ row[h.ad].link = IF h.step \in {"insert", "record"} THEN Nothing ELSE h.property
    /\ h.step = "unlink" => property[h.property] = Nothing
    /\ h.step = "refuse" => ~h.override
    /\ h.step \in {"approve", "revoke"} => row[h.ad].status # "imported"

ReadsHold == \A r \in Requests :
    request[r] # Nothing /\ request[r].ad \notin overlapped => AsRead(request[r])

Excused == overlapped \cup broken \cup demoted

\* The file of a listing is published, so that it cannot be deleted.
Protected == \A p \in Properties, a \in Ads \ Excused :
    property[p] = a /\ row[a] # Nothing /\ row[a].link = p => row[a].status = "imported"

Filed == /\ OneAdvertisement /\ Alone /\ ReadsHold /\ Protected
         /\ ListingHasFile /\ ApprovalStands

FileInv == FilesTyped /\ Filed

\* What the invariant says of a listing, of a handler's row and of None.
LEMMA Facts ==
    ASSUME FilesTyped
    PROVE  /\ Nothing \notin Ads /\ Nothing \notin Properties
           /\ Nothing \notin Rows /\ Nothing \notin Handlers
           /\ \A p \in Properties : property[p] # Nothing => property[p] \in Ads
           /\ \A r \in Requests : request[r] # Nothing => /\ request[r] \in Handlers
                                                          /\ request[r].ad \in Ads
           /\ \A a \in Ads : row[a] # Nothing => row[a] \in Rows
           /\ overlapped \subseteq Ads
<1>1. /\ Nothing \notin Ads /\ Nothing \notin Int
      /\ Nothing \notin Rows /\ Nothing \notin Handlers
  BY NothingAssumption
<1>2. Nothing \notin Properties
  BY <1>1 DEF Properties
<1>3. /\ \A p \in Properties : property[p] # Nothing => property[p] \in Ads
      /\ \A r \in Requests : request[r] # Nothing => request[r] \in Handlers
      /\ \A a \in Ads : row[a] # Nothing => row[a] \in Rows
      /\ overlapped \subseteq Ads
  BY DEF FilesTyped, FilesTypeOK
<1>4. \A h \in Handlers : h.ad \in Ads
  BY DEF Handlers
<1> QED BY <1>1, <1>2, <1>3, <1>4

\* A listing that is not excused has its file, or a handler about to record it.
LEMMA OfListing ==
    ASSUME FileInv, NEW p \in Properties, NEW a \in Ads \ Excused, property[p] = a
    PROVE  \/ row[a] # Nothing /\ row[a].link = p
           \/ \E r \in Requests : /\ request[r] # Nothing /\ request[r].step = "record"
                                  /\ request[r].property = p /\ request[r].ad = a
<1>1. a # Nothing /\ Names(a, p)
  BY Facts DEF FileInv, Names
<1>2. CASE row[a] # Nothing /\ row[a].link = p
  BY <1>2
<1>3. ASSUME NEW r \in Requests, request[r] # Nothing, request[r].step = "record",
             request[r].property = p
      PROVE  request[r].ad = a
  <2>1. Names(request[r].ad, p)
    BY <1>3 DEF Names
  <2>2. request[r].ad \in Ads
    BY <1>3, Facts DEF FileInv
  <2> QED BY <1>1, <2>1, <2>2 DEF FileInv, Filed, OneAdvertisement
<1> QED BY <1>1, <1>2, <1>3 DEF FileInv, Filed, ListingHasFile, Excused

\* ... and conversely this is what ListingHasFile asks.
LEMMA ListingsHaveFiles ==
    ASSUME FilesTypeOK', Nothing \notin Ads,
           \A p \in Properties, a \in Ads : property'[p] = a /\ a \notin Excused' =>
               \/ row'[a] # Nothing /\ row'[a].link = p
               \/ \E r \in Requests : /\ request'[r] # Nothing /\ request'[r].step = "record"
                                      /\ request'[r].property = p
    PROVE  ListingHasFile'
BY DEF FilesTypeOK, ListingHasFile, Excused

LEMMA NamesKept ==
    ASSUME OneAdvertisement,
           \A a \in Ads, p \in Properties : Names(a, p)' => Names(a, p)
    PROVE  OneAdvertisement'
BY DEF OneAdvertisement

LEMMA StayAlone ==
    ASSUME Alone, overlapped \subseteq overlapped',
           \A s \in Requests : request'[s] # Nothing =>
               request[s] # Nothing /\ request'[s].ad = request[s].ad
    PROVE  Alone'
BY DEF Alone

----------------------------------------------------------------------------
(* The crawl *)

LEMMA RefreshKeeps ==
    ASSUME FileInv, FilesTypeOK', \A b \in Ads : Refreshed(b),
           UNCHANGED <<property, request, importHistory>>
    PROVE  FileInv'
<1>0. FilesTyped /\ UNCHANGED <<overlapped, broken, demoted>>
  BY DEF FileInv, importHistory
<1>1. FilesTyped'
  BY <1>0 DEF FilesTyped, Carried
<1>2. OneAdvertisement'
  <2>1. \A a \in Ads, p \in Properties : Names(a, p)' => Names(a, p)
    BY <1>0, Facts DEF Names, Refreshed
  <2> QED BY <2>1, NamesKept DEF FileInv, Filed
<1>3. Alone'
  BY <1>0, StayAlone DEF FileInv, Filed
<1>4. ReadsHold'
  <2> SUFFICES ASSUME NEW r \in Requests, request[r] # Nothing, request[r].ad \notin overlapped
               PROVE  AsRead(request[r])'
    BY <1>0 DEF ReadsHold
  <2>1. AsRead(request[r]) /\ Refreshed(request[r].ad)
    BY <1>0, Facts DEF FileInv, Filed, ReadsHold
  <2> QED BY <2>1 DEF AsRead, Refreshed
<1>5. Protected'
  <2> SUFFICES ASSUME NEW p \in Properties, NEW a \in Ads \ Excused, property[p] = a,
                      row'[a] # Nothing, row'[a].link = p
               PROVE  row'[a].status = "imported"
    BY <1>0 DEF Protected, Excused
  <2>1. Refreshed(a) /\ p # Nothing
    BY <1>0, Facts
  <2> QED BY <2>1 DEF FileInv, Filed, Protected, Refreshed
<1>6. ListingHasFile'
  <2> SUFFICES ASSUME NEW p \in Properties, NEW a \in Ads \ Excused, property[p] = a
               PROVE  \/ row'[a] # Nothing /\ row'[a].link = p
                      \/ \E r \in Requests : /\ request[r] # Nothing /\ request[r].step = "record"
                                             /\ request[r].property = p
    BY <1>0, <1>1, Facts, ListingsHaveFiles DEF FilesTyped, Excused
  <2>1. Refreshed(a)
    OBVIOUS
  <2> QED BY <2>1, OfListing DEF Refreshed
<1>7. ApprovalStands'
  <2>1. \A a \in Ads : Refreshed(a)
    OBVIOUS
  <2> QED BY <1>0, <2>1 DEF FileInv, Filed, ApprovalStands, Refreshed
<1> QED BY <1>1, <1>2, <1>3, <1>4, <1>5, <1>6, <1>7 DEF FileInv, Filed

LEMMA CrawlKeeps ==
    ASSUME FileInv, NEW a \in Ads, Sync(a) \/ ListAccepted(a)
    PROVE  FileInv'
<1>1. CASE AdChanges(a) \/ Crawl(a)
  <2>1. UNCHANGED <<row, rowIds, property, request, importHistory>>
    BY <1>1 DEF AdChanges, Crawl, files
  <2>2. FilesTypeOK'
    BY <1>1, <2>1 DEF AdChanges, Crawl, FileInv, FilesTyped, FilesTypeOK, importHistory
  <2>3. \A b \in Ads : Refreshed(b)
    BY <2>1 DEF Refreshed
  <2> QED BY <2>1, <2>2, <2>3, RefreshKeeps
<1>2. CASE StoreRejected(a) \/ StoreAccepted(a)
  BY <1>2, StoreRefreshes, RefreshKeeps DEF FileInv
<1>3. CASE ListAccepted(a)
  <2>1. UNCHANGED <<property, request, importHistory>>
    BY <1>3 DEF ListAccepted
  <2> QED BY <1>3, <2>1, ListRefreshes, RefreshKeeps DEF FileInv
<1> QED BY <1>1, <1>2, <1>3 DEF Sync

----------------------------------------------------------------------------
(* A handler arrives *)

\* What a handler has checked of the row before its first statement.
Admitted(a, step) ==
    /\ step \in {"refuse", "fetch", "look", "insert", "approve", "revoke"}
    /\ step = "look" => row[a].link # Nothing
    /\ step = "insert" => row[a].link = Nothing
    /\ step = "refuse" => ~row[a].override
    /\ step \in {"approve", "revoke"} => row[a].status # "imported"

LEMMA ArrivesAdmitted ==
    ASSUME NEW r \in Requests, Arrives(r)
    PROVE  \E a \in Ads, step \in Steps, force \in BOOLEAN :
               Admitted(a, step) /\ Starts(r, a, step, force)
<1> PICK a \in Ads : \/ StartImport(r, a) \/ StartRevoke(r, a)
                     \/ \E force \in BOOLEAN : StartApprove(r, a, force)
  BY DEF Arrives
<1>1. CASE StartImport(r, a)
  <2>1. CASE row[a].flagged /\ ~row[a].override
    <3>1. Admitted(a, "refuse") /\ Starts(r, a, "refuse", FALSE) /\ "refuse" \in Steps
      BY <1>1, <2>1 DEF StartImport, Admitted, Steps
    <3> QED BY <3>1
  <2>2. CASE Starts(r, a, "fetch", FALSE)
    <3>1. Admitted(a, "fetch") /\ "fetch" \in Steps
      BY DEF Admitted, Steps
    <3> QED BY <2>2, <3>1
  <2>3. CASE Starts(r, a, Onward(row[a].link), FALSE)
    <3>1. Admitted(a, Onward(row[a].link)) /\ Onward(row[a].link) \in Steps
      BY DEF Admitted, Steps, Onward
    <3> QED BY <2>3, <3>1
  <2> QED BY <1>1, <2>1, <2>2, <2>3 DEF StartImport
<1>2. CASE StartRevoke(r, a)
  <2>1. Admitted(a, "revoke") /\ Starts(r, a, "revoke", FALSE) /\ "revoke" \in Steps
    BY <1>2 DEF StartRevoke, Admitted, Steps
  <2> QED BY <2>1
<1>3. ASSUME NEW force \in BOOLEAN, StartApprove(r, a, force)
      PROVE  \E step \in Steps : Admitted(a, step) /\ Starts(r, a, step, force)
  <2>1. Admitted(a, "approve") /\ Starts(r, a, "approve", force) /\ "approve" \in Steps
    BY <1>3 DEF StartApprove, Admitted, Steps
  <2> QED BY <2>1
<1> QED BY <1>1, <1>2, <1>3

LEMMA StartsKeeps ==
    ASSUME FileInv, NEW r \in Requests, NEW a \in Ads,
           NEW step \in Steps, NEW force \in BOOLEAN,
           Admitted(a, step), Starts(r, a, step, force)
    PROVE  FileInv'
<1> DEFINE new == [step |-> step, ad |-> a, id |-> row[a].id, override |-> row[a].override,
                   force |-> force, property |-> row[a].link]
<1>0. /\ FilesTyped /\ request[r] = Nothing /\ row[a] # Nothing /\ row[a] \in Rows
      /\ Nothing \notin Handlers
      /\ request' = [request EXCEPT ![r] = new]
      /\ overlapped' = IF Open(a) = {} THEN overlapped ELSE overlapped \cup {a}
      /\ UNCHANGED <<verdict, crawled, row, rowIds, property, broken, demoted>>
  BY Facts DEF FileInv, Starts, ads, files
<1>1. new \in Handlers
  BY <1>0 DEF Handlers, Rows
<1> HIDE DEF new
<1>2. /\ request' \in [Requests -> Handlers \cup {Nothing}]
      /\ request'[r] = new /\ new # Nothing
      /\ \A s \in Requests \ {r} : request'[s] = request[s]
  BY <1>0, <1>1 DEF FilesTyped, FilesTypeOK
<1>3. /\ new.step = step /\ new.ad = a /\ new.id = row[a].id /\ new.property = row[a].link
      /\ new.override = row[a].override
  BY DEF new
<1>4. FilesTyped'
  <2>1. FilesTypeOK'
    BY <1>0, <1>2 DEF FilesTyped, FilesTypeOK
  <2>2. Carried'
    BY <1>0, <1>2, <1>3 DEF FilesTyped, Carried, Admitted
  <2> QED BY <1>0, <2>1, <2>2 DEF FilesTyped
<1>5. overlapped \subseteq overlapped'
  BY <1>0
<1>6. OneAdvertisement'
  <2>1. ASSUME NEW b \in Ads, NEW p \in Properties, Names(b, p)'
        PROVE  Names(b, p)
    <3>1. CASE property'[p] = b \/ (row'[b] # Nothing /\ row'[b].link = p)
      BY <1>0, <3>1 DEF Names
    <3>2. CASE \E s \in Requests : /\ request'[s] # Nothing
                                   /\ request'[s].ad = b /\ request'[s].property = p
      BY <1>0, <1>2, <1>3, <3>2 DEF Names
    <3> QED BY <2>1, <3>1, <3>2 DEF Names
  <2> QED BY <2>1, NamesKept DEF FileInv, Filed
<1>7. Alone'
  <2>1. \A s \in Requests \ {r} : request[s] # Nothing /\ request[s].ad = a => a \in overlapped'
    BY <1>0 DEF Open
  <2> QED BY <1>2, <1>3, <1>5, <2>1 DEF FileInv, Filed, Alone
<1>8. ReadsHold'
  <2>1. ASSUME NEW s \in Requests \ {r}, request'[s] # Nothing, request'[s].ad \notin overlapped'
        PROVE  AsRead(request[s])'
    <3> PICK h : h = request[s]
      OBVIOUS
    <3>1. AsRead(h) /\ h = request'[s]
      BY <1>2, <1>5, <2>1 DEF FileInv, Filed, ReadsHold
    <3> QED BY <1>0, <3>1 DEF AsRead
  <2>2. row'[a] # Nothing /\ row' = row /\ step \notin {"unlink", "record"}
    BY <1>0 DEF Admitted
  <2>3. AsRead(request[r])'
    <3> PICK h : h = new
      OBVIOUS
    <3>1. AsRead(h) /\ h = request'[r]
      BY <1>0, <1>2, <1>3, <2>2 DEF AsRead, Admitted
    <3> QED BY <2>2, <1>0, <3>1 DEF AsRead
  <2> QED BY <1>2, <2>1, <2>3 DEF ReadsHold
<1>9. Protected' /\ ApprovalStands'
  BY <1>0, <1>5 DEF FileInv, Filed, Protected, ApprovalStands, Excused
<1>10. ListingHasFile'
  <2> SUFFICES ASSUME NEW p \in Properties, NEW b \in Ads \ Excused, property[p] = b
               PROVE  \/ row[b] # Nothing /\ row[b].link = p
                      \/ \E s \in Requests : /\ request'[s] # Nothing /\ request'[s].step = "record"
                                             /\ request'[s].property = p
    BY <1>0, <1>4, <1>5, Facts, ListingsHaveFiles DEF FilesTyped, Excused
  <2>1. \A s \in Requests : request[s] # Nothing => s # r
    BY <1>0
  <2> QED BY <1>2, <2>1, OfListing
<1> QED BY <1>4, <1>6, <1>7, <1>8, <1>9, <1>10 DEF FileInv, Filed

----------------------------------------------------------------------------
(* A handler goes on without writing, or stops *)

LEMMA HandlerMoves ==
    ASSUME FileInv, NEW r \in Requests, request[r] # Nothing,
           NEW step \in Steps, Goes(r, step),
           step \in {"look", "unlink", "stamp", "record"} => request[r].property # Nothing,
           request[r].step # "record", step # "record",
           request[r].ad \notin overlapped => AsRead([request[r] EXCEPT !.step = step]),
           UNCHANGED <<ads, files, property, importHistory>>
    PROVE  FileInv'
<1>0. /\ FilesTyped
      /\ UNCHANGED <<verdict, crawled, row, rowIds, property, overlapped, broken, demoted>>
  BY DEF FileInv, ads, files, importHistory
<1>1. /\ request' \in [Requests -> Handlers \cup {Nothing}] /\ Carried'
      /\ request'[r] # Nothing /\ request'[r] = [request[r] EXCEPT !.step = step]
      /\ \A s \in Requests \ {r} : request'[s] = request[s]
  BY <1>0, HandlerGoes
<1>2. /\ request'[r].step = step /\ request'[r].ad = request[r].ad
      /\ request'[r].property = request[r].property
  BY <1>0, <1>1, Facts DEF Handlers
<1>3. FilesTyped'
  BY <1>0, <1>1 DEF FilesTyped, FilesTypeOK
<1>4. OneAdvertisement'
  <2>1. ASSUME NEW b \in Ads, NEW p \in Properties, Names(b, p)'
        PROVE  Names(b, p)
    BY <1>0, <1>1, <1>2, <2>1 DEF Names
  <2> QED BY <2>1, NamesKept DEF FileInv, Filed
<1>5. Alone'
  BY <1>0, <1>1, <1>2, StayAlone DEF FileInv, Filed
<1>6. ReadsHold'
  <2> SUFFICES ASSUME NEW s \in Requests, request'[s] # Nothing, request'[s].ad \notin overlapped
               PROVE  AsRead(request[s])'
    BY <1>0 DEF ReadsHold
  <2> PICK h : h = request'[s]
    OBVIOUS
  <2>1. AsRead(h)
    BY <1>0, <1>1, <1>2 DEF FileInv, Filed, ReadsHold
  <2> QED BY <1>0, <2>1 DEF AsRead
<1>7. Protected' /\ ApprovalStands'
  BY <1>0 DEF FileInv, Filed, Protected, ApprovalStands, Excused
<1>8. ListingHasFile'
  <2> SUFFICES ASSUME NEW p \in Properties, NEW b \in Ads \ Excused, property[p] = b
               PROVE  \/ row[b] # Nothing /\ row[b].link = p
                      \/ \E s \in Requests : /\ request'[s] # Nothing /\ request'[s].step = "record"
                                             /\ request'[s].property = p
    BY <1>0, <1>3, Facts, ListingsHaveFiles DEF FilesTyped, Excused
  <2> QED BY <1>1, OfListing
<1> QED BY <1>3, <1>4, <1>5, <1>6, <1>7, <1>8 DEF FileInv, Filed

LEMMA FetchKeeps ==
    ASSUME FileInv, NEW r \in Requests, Fetch(r)
    PROVE  FileInv'
<1> DEFINE h == request[r]
<1>1. /\ h # Nothing /\ h.step = "fetch" /\ h \in Handlers
      /\ UNCHANGED <<ads, files, property, importHistory>>
      /\ \/ Goes(r, Onward(h.property))
         \/ ~h.override /\ Goes(r, "refuse")
  BY Facts DEF Fetch, FileInv
<1>2. h.ad \notin overlapped => AsRead(h)
  BY <1>1 DEF FileInv, Filed, ReadsHold
<1> HIDE DEF h
<1>3. CASE Goes(r, Onward(h.property))
  <2> PICK step : step = Onward(h.property)
    OBVIOUS
  <2>1. step \in {"insert", "look"} /\ (step = "insert" <=> h.property = Nothing)
    BY DEF Onward
  <2>2. h.ad \notin overlapped => AsRead([h EXCEPT !.step = step])
    BY <1>1, <1>2, <2>1 DEF AsRead, Handlers
  <2>3. step \in Steps
    BY <2>1 DEF Steps
  <2> QED BY <1>1, <1>3, <2>1, <2>2, <2>3, HandlerMoves DEF h
<1>4. CASE ~h.override /\ Goes(r, "refuse")
  <2>1. h.ad \notin overlapped => AsRead([h EXCEPT !.step = "refuse"])
    BY <1>1, <1>2, <1>4 DEF AsRead, Handlers
  <2>2. "refuse" \in Steps
    BY DEF Steps
  <2> QED BY <1>1, <1>4, <2>1, <2>2, HandlerMoves DEF h
<1> QED BY <1>1, <1>3, <1>4

LEMMA LookKeeps ==
    ASSUME FileInv, NEW r \in Requests, Look(r)
    PROVE  FileInv'
<1> DEFINE h == request[r]
           step == IF property[h.property] = Nothing THEN "unlink" ELSE "stamp"
<1>1. /\ h # Nothing /\ h.step = "look" /\ h \in Handlers
      /\ UNCHANGED <<ads, files, property, importHistory>> /\ Goes(r, step)
  BY Facts DEF Look, FileInv
<1>2. h.property # Nothing
  BY <1>1 DEF FileInv, FilesTyped, Carried
<1>3. h.ad \notin overlapped => AsRead(h)
  BY <1>1 DEF FileInv, Filed, ReadsHold
<1> HIDE DEF h
<1>4. h.ad \notin overlapped => AsRead([h EXCEPT !.step = step])
  BY <1>1, <1>3 DEF AsRead, Handlers
<1>5. step \in Steps /\ step # "record"
  BY DEF Steps
<1> HIDE DEF step
<1> QED BY <1>1, <1>2, <1>4, <1>5, HandlerMoves DEF h

\* A handler ends, and an import that had yet to name its listing is broken.
LEMMA HandlerStops ==
    ASSUME FileInv, NEW r \in Requests, Ends(r),
           UNCHANGED <<ads, files, property, overlapped, demoted>>,
           broken \subseteq broken', broken' \subseteq Ads,
           request[r] # Nothing /\ request[r].step = "record" => request[r].ad \in broken'
    PROVE  FileInv'
<1>0. FilesTyped /\ UNCHANGED <<verdict, crawled, row, rowIds, property, overlapped, demoted>>
  BY DEF FileInv, ads, files
<1>1. /\ request' \in [Requests -> Handlers \cup {Nothing}] /\ Carried'
      /\ request'[r] = Nothing
      /\ \A s \in Requests \ {r} : request'[s] = request[s]
  BY <1>0, HandlerEnds
<1>2. FilesTyped'
  BY <1>0, <1>1 DEF FilesTyped, FilesTypeOK
<1>3. OneAdvertisement'
  <2>1. ASSUME NEW b \in Ads, NEW p \in Properties, Names(b, p)'
        PROVE  Names(b, p)
    BY <1>0, <1>1, <2>1 DEF Names
  <2> QED BY <2>1, NamesKept DEF FileInv, Filed
<1>4. Alone'
  BY <1>0, <1>1, StayAlone DEF FileInv, Filed
<1>5. ReadsHold'
  <2> SUFFICES ASSUME NEW s \in Requests, request'[s] # Nothing, request'[s].ad \notin overlapped
               PROVE  AsRead(request[s])'
    BY <1>0 DEF ReadsHold
  <2> PICK h : h = request'[s]
    OBVIOUS
  <2>1. AsRead(h)
    BY <1>0, <1>1 DEF FileInv, Filed, ReadsHold
  <2> QED BY <1>0, <2>1 DEF AsRead
<1>6. Protected' /\ ApprovalStands'
  BY <1>0 DEF FileInv, Filed, Protected, ApprovalStands, Excused
<1>7. ListingHasFile'
  <2> SUFFICES ASSUME NEW p \in Properties, NEW b \in Ads \ Excused', property[p] = b
               PROVE  \/ row[b] # Nothing /\ row[b].link = p
                      \/ \E s \in Requests : /\ request'[s] # Nothing /\ request'[s].step = "record"
                                             /\ request'[s].property = p
    BY <1>0, <1>2, Facts, ListingsHaveFiles DEF FilesTyped
  <2>1. b \notin Excused /\ b \notin broken'
    BY <1>0 DEF Excused
  <2> QED BY <1>1, <2>1, OfListing
<1> QED BY <1>2, <1>3, <1>4, <1>5, <1>6, <1>7 DEF FileInv, Filed

LEMMA StopsKeeps ==
    ASSUME FileInv, NEW r \in Requests, ApproveStops(r) \/ Dies(r)
    PROVE  FileInv'
<1>1. broken \subseteq Ads /\ (request[r] # Nothing => request[r].ad \in Ads)
  BY Facts DEF FileInv, FilesTyped, FilesTypeOK
<1>2. CASE ApproveStops(r)
  BY <1>1, <1>2, HandlerStops DEF ApproveStops, importHistory
<1>3. CASE Dies(r)
  BY <1>1, <1>3, HandlerStops DEF Dies
<1> QED BY <1>2, <1>3

----------------------------------------------------------------------------
(* A handler writes the row *)

\* A handler writes the row and ends: it keeps the property that the row names or
\* names the one it has listed; a listing's file is published then, and an
\* approved file not rejected.
LEMMA WriterKeeps ==
    ASSUME FileInv, NEW r \in Requests, request[r] # Nothing, NEW update,
           UpdateFile(request[r], update), Ends(r),
           UNCHANGED <<ads, rowIds, property, overlapped, broken>>,
           demoted \subseteq demoted', demoted' \subseteq Ads,
           row[request[r].ad] # Nothing =>
               /\ update \in Rows
               /\ update.link = IF request[r].step = "record" THEN request[r].property
                                ELSE row[request[r].ad].link,
           request[r].ad \notin overlapped /\ update.override => update.status # "rejected",
           \A p \in Properties :
               property[p] = request[r].ad /\ request[r].ad \notin Excused' /\ update.link = p
                   => update.status = "imported"
    PROVE  FileInv'
<1> DEFINE h == request[r]
           a == h.ad
<1>0. /\ FilesTyped /\ h \in Handlers /\ a \in Ads
      /\ UNCHANGED <<verdict, crawled, rowIds, property, overlapped, broken>>
      /\ \A b \in Ads : b \notin Excused' => b \notin Excused
  BY Facts DEF FileInv, ads, Excused
<1>1. /\ request' \in [Requests -> Handlers \cup {Nothing}] /\ Carried'
      /\ request'[r] = Nothing
      /\ \A s \in Requests \ {r} : request'[s] = request[s]
  BY <1>0, HandlerEnds
<1>2. /\ row' \in [Ads -> Rows \cup {Nothing}]
      /\ \A b \in Ads : b # a => row'[b] = row[b]
      /\ row'[a] = IF StillThere(h) THEN update ELSE row[a]
  BY <1>0, FileUpdated
<1>3. StillThere(h) => row[a] # Nothing /\ update # Nothing
  BY <1>0, Facts DEF StillThere
<1>4. FilesTyped'
  BY <1>0, <1>1, <1>2 DEF FilesTyped, FilesTypeOK
<1>5. a \notin overlapped => AsRead(h) /\ StillThere(h)
  BY DEF FileInv, Filed, ReadsHold, AsRead, StillThere
<1>6. OneAdvertisement'
  <2>1. ASSUME NEW b \in Ads, NEW p \in Properties, Names(b, p)'
        PROVE  Names(b, p)
    <3>1. CASE property'[p] = b
      BY <1>0, <3>1 DEF Names
    <3>2. CASE row'[b] # Nothing /\ row'[b].link = p
      <4>1. CASE b # a \/ ~StillThere(h)
        BY <1>2, <3>2, <4>1 DEF Names
      <4>2. CASE b = a /\ StillThere(h)
        <5>1. p = h.property \/ p = row[a].link
          BY <1>2, <1>3, <3>2, <4>2
        <5> QED BY <1>3, <4>2, <5>1 DEF Names
      <4> QED BY <4>1, <4>2
    <3>3. CASE \E s \in Requests : /\ request'[s] # Nothing
                                   /\ request'[s].ad = b /\ request'[s].property = p
      BY <1>1, <3>3 DEF Names
    <3> QED BY <2>1, <3>1, <3>2, <3>3 DEF Names
  <2> QED BY <2>1, NamesKept DEF FileInv, Filed
<1>7. Alone'
  BY <1>0, <1>1, StayAlone DEF FileInv, Filed
<1>8. ReadsHold'
  <2> SUFFICES ASSUME NEW s \in Requests, request'[s] # Nothing, request'[s].ad \notin overlapped
               PROVE  AsRead(request[s])'
    BY <1>0 DEF ReadsHold
  <2> PICK g : g = request'[s]
    OBVIOUS
  <2>1. s # r /\ g = request[s] /\ g.ad \in Ads
    BY <1>0, <1>1, Facts
  <2>2. AsRead(g) /\ g.ad # a
    BY <2>1 DEF FileInv, Filed, ReadsHold, Alone
  <2> QED BY <1>0, <1>2, <2>1, <2>2 DEF AsRead
<1>9. Protected'
  <2> SUFFICES ASSUME NEW p \in Properties, NEW b \in Ads \ Excused', property[p] = b,
                      row'[b] # Nothing, row'[b].link = p
               PROVE  row'[b].status = "imported"
    BY <1>0 DEF Protected
  <2>1. CASE b # a
    BY <1>0, <1>2, <2>1 DEF FileInv, Filed, Protected
  <2>2. CASE b = a
    <3>1. a \notin overlapped
      BY <1>0, <2>2 DEF Excused
    <3> QED BY <1>2, <1>5, <2>2, <3>1
  <2> QED BY <2>1, <2>2
<1>10. ListingHasFile'
  <2> SUFFICES ASSUME NEW p \in Properties, NEW b \in Ads \ Excused', property[p] = b
               PROVE  \/ row'[b] # Nothing /\ row'[b].link = p
                      \/ \E s \in Requests : /\ request'[s] # Nothing /\ request'[s].step = "record"
                                             /\ request'[s].property = p
    BY <1>0, <1>4, Facts, ListingsHaveFiles DEF FilesTyped
  <2>0. b \in Ads \ Excused
    BY <1>0
  <2>1. CASE b # a
    <3>1. \A s \in Requests : request[s] # Nothing /\ request[s].ad = b => s # r
      BY <2>1
    <3> QED BY <1>1, <1>2, <2>0, <2>1, <3>1, OfListing
  <2>2. CASE b = a
    <3>1. AsRead(h) /\ StillThere(h)
      BY <1>5, <2>0, <2>2 DEF Excused
    <3>2. row'[a] = update /\ update # Nothing /\ row[a] # Nothing
      BY <1>2, <1>3, <3>1
    <3>3. CASE row[a].link = p
      <4>1. h.step # "record"
        BY <3>1, <3>3, Facts, <1>0 DEF AsRead
      <4> QED BY <2>2, <3>2, <3>3, <4>1
    <3>4. ASSUME NEW s \in Requests, request[s] # Nothing, request[s].step = "record",
                 request[s].property = p, request[s].ad = a
          PROVE  update.link = p
      <4>1. s = r
        BY <2>0, <2>2, <3>4 DEF FileInv, Filed, Alone, Excused
      <4> QED BY <3>2, <3>4, <4>1
    <3> QED BY <2>0, <2>2, <3>2, <3>3, <3>4, OfListing
  <2> QED BY <2>1, <2>2
<1>11. ApprovalStands'
  <2> SUFFICES ASSUME NEW b \in Ads, row'[b] # Nothing, row'[b].override, b \notin overlapped
               PROVE  row'[b].status # "rejected"
    BY <1>0 DEF ApprovalStands
  <2>1. CASE b # a
    BY <1>2, <2>1 DEF FileInv, Filed, ApprovalStands
  <2>2. CASE b = a
    BY <1>2, <1>5, <2>2
  <2> QED BY <2>1, <2>2
<1> QED BY <1>4, <1>6, <1>7, <1>8, <1>9, <1>10, <1>11 DEF FileInv, Filed

\* A handler that ends with an update of the status and of the approval only.
LEMMA RefuseKeeps ==
    ASSUME FileInv, NEW r \in Requests, Refuse(r)
    PROVE  FileInv'
<1> DEFINE h == request[r]
           old == row[h.ad]
           new == [old EXCEPT !.status = "rejected"]
<1>1. /\ h # Nothing /\ h.step = "refuse" /\ UpdateFile(h, new) /\ Ends(r)
      /\ demoted' = IF h.property # Nothing /\ property[h.property] # Nothing
                    THEN demoted \cup {h.ad} ELSE demoted
      /\ UNCHANGED <<ads, rowIds, property, overlapped, broken>>
  BY DEF Refuse
<1>2. /\ h \in Handlers /\ h.ad \in Ads /\ demoted \subseteq Ads
      /\ old # Nothing => old \in Rows
  BY <1>1, Facts DEF FileInv, FilesTyped, FilesTypeOK
<1>3. old # Nothing => new \in Rows /\ new.link = old.link /\ new.override = old.override
  BY <1>2 DEF Rows
<1>4. h.ad \notin overlapped => old # Nothing /\ ~old.override /\ old.link = h.property
  BY <1>1 DEF FileInv, Filed, ReadsHold, AsRead
<1>5. h.ad \notin overlapped /\ new.override => new.status # "rejected"
  BY <1>3, <1>4
<1>6. \A p \in Properties :
          property[p] = h.ad /\ h.ad \notin Excused' /\ new.link = p => new.status = "imported"
  <2> SUFFICES ASSUME NEW p \in Properties, property[p] = h.ad, h.ad \notin Excused',
                      new.link = p
               PROVE  FALSE
    OBVIOUS
  <2>1. h.ad \notin overlapped /\ h.ad \notin demoted'
    BY <1>1 DEF Excused
  <2>2. h.property = p /\ property[p] # Nothing /\ p # Nothing
    BY <1>2, <1>3, <1>4, <2>1, Facts DEF FileInv
  <2> QED BY <1>1, <2>1, <2>2
<1>7. demoted \subseteq demoted' /\ demoted' \subseteq Ads
  BY <1>1, <1>2
<1>8. old # Nothing => /\ new \in Rows
                       /\ new.link = IF h.step = "record" THEN h.property ELSE old.link
  BY <1>1, <1>3
<1> HIDE DEF new
<1> QED BY <1>1, <1>5, <1>6, <1>7, <1>8, WriterKeeps

LEMMA StampKeeps ==
    ASSUME FileInv, NEW r \in Requests, Stamp(r)
    PROVE  FileInv'
<1> DEFINE h == request[r]
           old == row[h.ad]
           new == [old EXCEPT !.status = "imported"]
<1>1. /\ h # Nothing /\ h.step = "stamp" /\ UpdateFile(h, new) /\ Ends(r)
      /\ UNCHANGED <<ads, rowIds, property, overlapped, broken, demoted>>
  BY DEF Stamp, importHistory
<1>2. h.ad \in Ads /\ (old # Nothing => old \in Rows) /\ demoted \subseteq Ads
  BY <1>1, Facts DEF FileInv, FilesTyped, FilesTypeOK
<1>3. old # Nothing => new \in Rows /\ new.link = old.link /\ new.status = "imported"
  BY <1>2 DEF Rows
<1>4. h.ad \notin overlapped => old # Nothing
  BY <1>1 DEF FileInv, Filed, ReadsHold, AsRead
<1>5. \A p \in Properties :
          property[p] = h.ad /\ h.ad \notin Excused' /\ new.link = p => new.status = "imported"
  BY <1>1, <1>3, <1>4 DEF Excused
<1> HIDE DEF new
<1> QED BY <1>1, <1>2, <1>3, <1>4, <1>5, WriterKeeps

LEMMA RecordKeeps ==
    ASSUME FileInv, NEW r \in Requests, Record(r)
    PROVE  FileInv'
<1> DEFINE h == request[r]
           old == row[h.ad]
           new == [old EXCEPT !.status = "imported", !.link = h.property]
<1>1. /\ h # Nothing /\ h.step = "record" /\ UpdateFile(h, new) /\ Ends(r)
      /\ UNCHANGED <<ads, rowIds, property, overlapped, broken, demoted>>
  BY DEF Record, importHistory
<1>2. /\ h \in Handlers /\ h.ad \in Ads /\ demoted \subseteq Ads
      /\ old # Nothing => old \in Rows
  BY <1>1, Facts DEF FileInv, FilesTyped, FilesTypeOK
<1>3. old # Nothing => new \in Rows /\ new.link = h.property /\ new.status = "imported"
  BY <1>2 DEF Rows, Handlers
<1>4. h.ad \notin overlapped => old # Nothing
  BY <1>1 DEF FileInv, Filed, ReadsHold, AsRead
<1>5. \A p \in Properties :
          property[p] = h.ad /\ h.ad \notin Excused' /\ new.link = p => new.status = "imported"
  BY <1>1, <1>3, <1>4 DEF Excused
<1> HIDE DEF new
<1> QED BY <1>1, <1>2, <1>3, <1>4, <1>5, WriterKeeps

LEMMA ReviewKeeps ==
    ASSUME FileInv, NEW r \in Requests, Approve(r) \/ Revoke(r)
    PROVE  FileInv'
<1> DEFINE h == request[r]
           old == row[h.ad]
           approved == [old EXCEPT !.status = "accepted", !.override = TRUE]
           revoked == [old EXCEPT !.status = "rejected", !.override = FALSE]
<1> PICK new : /\ new = approved \/ new = revoked
               /\ UpdateFile(h, new)
  BY DEF Approve, Revoke
<1>1. /\ h # Nothing /\ h.step \in {"approve", "revoke"} /\ Ends(r)
      /\ UNCHANGED <<ads, rowIds, property, overlapped, broken, demoted>>
  BY DEF Approve, Revoke, importHistory
<1>2. /\ h.ad \in Ads /\ (old # Nothing => old \in Rows) /\ demoted \subseteq Ads
  BY <1>1, Facts DEF FileInv, FilesTyped, FilesTypeOK
<1>3. old # Nothing => /\ new \in Rows /\ new.link = old.link
                       /\ new.override => new.status # "rejected"
  <2>1. old # Nothing => /\ approved \in Rows /\ approved.link = old.link
                         /\ approved.status = "accepted"
    BY <1>2 DEF Rows
  <2>2. old # Nothing => /\ revoked \in Rows /\ revoked.link = old.link
                         /\ revoked.override = FALSE
    BY <1>2 DEF Rows
  <2> HIDE DEF approved, revoked
  <2> QED BY <2>1, <2>2
<1>4. h.ad \notin overlapped => old # Nothing /\ old.status # "imported"
  BY <1>1 DEF FileInv, Filed, ReadsHold, AsRead
<1>5. \A p \in Properties :
          property[p] = h.ad /\ h.ad \notin Excused' /\ new.link = p => new.status = "imported"
  <2> SUFFICES ASSUME NEW p \in Properties, property[p] = h.ad, h.ad \notin Excused',
                      new.link = p
               PROVE  FALSE
    OBVIOUS
  <2>1. h.ad \notin Excused
    BY <1>1 DEF Excused
  <2>2. old # Nothing /\ old.link = p /\ old.status # "imported"
    BY <1>3, <1>4, <2>1 DEF Excused
  <2> QED BY <1>2, <2>1, <2>2 DEF FileInv, Filed, Protected
<1> QED BY <1>1, <1>2, <1>3, <1>4, <1>5, WriterKeeps

\* The listing is gone: the file forgets it, and the handler makes another one.
LEMMA UnlinkKeeps ==
    ASSUME FileInv, NEW r \in Requests, Unlink(r)
    PROVE  FileInv'
<1> DEFINE h == request[r]
           a == h.ad
           old == row[a]
           new == [old EXCEPT !.link = Nothing, !.status = "accepted"]
<1>1. /\ h # Nothing /\ h.step = "unlink" /\ UpdateFile(h, new) /\ Goes(r, "insert")
      /\ UNCHANGED <<ads, rowIds, property, importHistory>>
  BY DEF Unlink
<1>2. /\ FilesTyped /\ h \in Handlers /\ a \in Ads /\ (old # Nothing => old \in Rows)
      /\ Nothing \notin Rows /\ Nothing \notin Properties /\ Nothing \notin Ads
      /\ UNCHANGED <<verdict, crawled, rowIds, property, overlapped, broken, demoted>>
  BY <1>1, Facts DEF FileInv, ads, importHistory
<1>3. old # Nothing => /\ new \in Rows /\ new.link = Nothing /\ new.status = "accepted"
                       /\ new.id = old.id /\ new.override = old.override
  BY <1>2 DEF Rows
<1> HIDE DEF new
<1>4. /\ row' \in [Ads -> Rows \cup {Nothing}]
      /\ \A b \in Ads : b # a => row'[b] = row[b]
      /\ row'[a] = IF StillThere(h) THEN new ELSE row[a]
  BY <1>1, <1>2, <1>3, FileUpdated
<1>5. /\ request' \in [Requests -> Handlers \cup {Nothing}] /\ Carried'
      /\ request'[r] # Nothing /\ request'[r] = [h EXCEPT !.step = "insert"]
      /\ \A s \in Requests \ {r} : request'[s] = request[s]
  <2>1. "insert" \in Steps
    BY DEF Steps
  <2> QED BY <1>1, <1>2, <2>1, HandlerGoes
<1>6. /\ request'[r].step = "insert" /\ request'[r].ad = a /\ request'[r].property = h.property
      /\ request'[r].id = h.id /\ request'[r].override = h.override
  BY <1>2, <1>5 DEF Handlers
<1>7. StillThere(h) => old # Nothing /\ new # Nothing
  BY <1>2, <1>3 DEF StillThere
<1>8. a \notin overlapped => /\ old # Nothing /\ row'[a] = new /\ old.link = h.property
                             /\ old.id = h.id /\ old.override = h.override
                             /\ property[h.property] = Nothing
  BY <1>1, <1>4 DEF FileInv, Filed, ReadsHold, AsRead, StillThere
<1>9. FilesTyped'
  BY <1>2, <1>4, <1>5 DEF FilesTyped, FilesTypeOK
<1>10. OneAdvertisement'
  <2>1. ASSUME NEW b \in Ads, NEW p \in Properties, Names(b, p)'
        PROVE  Names(b, p)
    <3>1. CASE property'[p] = b
      BY <1>2, <3>1 DEF Names
    <3>2. CASE row'[b] # Nothing /\ row'[b].link = p
      BY <1>2, <1>3, <1>4, <1>7, <3>2 DEF Names
    <3>3. CASE \E s \in Requests : /\ request'[s] # Nothing
                                   /\ request'[s].ad = b /\ request'[s].property = p
      <4> PICK s \in Requests : /\ request'[s] # Nothing
                                /\ request'[s].ad = b /\ request'[s].property = p
        BY <3>3
      <4>1. request[s] # Nothing /\ request[s].ad = b /\ request[s].property = p
        BY <1>1, <1>5, <1>6
      <4> QED BY <4>1 DEF Names
    <3> QED BY <2>1, <3>1, <3>2, <3>3 DEF Names
  <2> QED BY <2>1, NamesKept DEF FileInv, Filed
<1>11. Alone'
  BY <1>1, <1>2, <1>5, <1>6, StayAlone DEF FileInv, Filed
<1>12. ReadsHold'
  <2> SUFFICES ASSUME NEW s \in Requests, request'[s] # Nothing, request'[s].ad \notin overlapped
               PROVE  AsRead(request[s])'
    BY <1>2 DEF ReadsHold
  <2> PICK g : g = request'[s]
    OBVIOUS
  <2>1. CASE s = r
    <3>1. g.ad = a /\ g.step = "insert" /\ g.id = h.id /\ g.override = h.override
      BY <1>6, <2>1
    <3>2. /\ row'[a] # Nothing /\ row'[a].link = Nothing
          /\ row'[a].id = h.id /\ row'[a].override = h.override
      BY <1>2, <1>3, <1>8, <3>1
    <3> QED BY <2>1, <3>1, <3>2 DEF AsRead
  <2>2. CASE s # r
    <3>1. g = request[s] /\ g.ad \in Ads
      BY <1>2, <1>5, <2>2, Facts
    <3>2. AsRead(g) /\ g.ad # a
      BY <1>1, <2>2, <3>1 DEF FileInv, Filed, ReadsHold, Alone
    <3> QED BY <1>2, <1>4, <3>1, <3>2 DEF AsRead
  <2> QED BY <2>1, <2>2
<1>13. Protected'
  <2> SUFFICES ASSUME NEW p \in Properties, NEW b \in Ads \ Excused, property[p] = b,
                      row'[b] # Nothing, row'[b].link = p
               PROVE  row'[b].status = "imported"
    BY <1>2 DEF Protected, Excused
  <2>1. b # a
    BY <1>2, <1>3, <1>8 DEF Excused
  <2> QED BY <1>4, <2>1 DEF FileInv, Filed, Protected
<1>14. ListingHasFile'
  <2> SUFFICES ASSUME NEW p \in Properties, NEW b \in Ads \ Excused, property[p] = b
               PROVE  \/ row'[b] # Nothing /\ row'[b].link = p
                      \/ \E s \in Requests : /\ request'[s] # Nothing /\ request'[s].step = "record"
                                             /\ request'[s].property = p
    BY <1>2, <1>9, Facts, ListingsHaveFiles DEF FilesTyped, Excused
  <2>1. CASE b # a
    BY <1>1, <1>4, <1>5, <2>1, OfListing
  <2>2. CASE b = a
    <3>1. a \notin overlapped
      BY <2>2 DEF Excused
    <3>2. property[p] # Nothing /\ old.link # p
      BY <1>2, <1>8, <2>2, <3>1
    <3> QED BY <1>1, <1>5, <2>2, <3>2, OfListing
  <2> QED BY <2>1, <2>2
<1>15. ApprovalStands'
  <2> SUFFICES ASSUME NEW b \in Ads, row'[b] # Nothing, row'[b].override, b \notin overlapped
               PROVE  row'[b].status # "rejected"
    BY <1>2 DEF ApprovalStands
  <2>1. CASE b # a
    BY <1>4, <2>1 DEF FileInv, Filed, ApprovalStands
  <2>2. CASE b = a
    BY <1>3, <1>8, <2>2
  <2> QED BY <2>1, <2>2
<1> QED BY <1>9, <1>10, <1>11, <1>12, <1>13, <1>14, <1>15 DEF FileInv, Filed

----------------------------------------------------------------------------
(* Listings are inserted and purged, files deleted *)

LEMMA InsertKeeps ==
    ASSUME FileInv, NEW r \in Requests, Insert(r)
    PROVE  FileInv'
<1> DEFINE h == request[r]
           a == h.ad
<1>0. /\ FilesTyped /\ h # Nothing /\ h.step = "insert" /\ h \in Handlers /\ a \in Ads
      /\ Nothing \notin Properties /\ Nothing \notin Ads
      /\ UNCHANGED <<verdict, crawled, row, rowIds, overlapped, broken, demoted>>
  BY Facts DEF Insert, FileInv, ads, files, importHistory
<1>1. CASE Ends(r) /\ UNCHANGED property
  <2>1. UNCHANGED <<ads, files, property, overlapped, demoted>> /\ broken' = broken
    BY <1>0, <1>1 DEF ads, files
  <2>2. broken \subseteq Ads
    BY <1>0 DEF FilesTyped, FilesTypeOK
  <2> QED BY <1>0, <1>1, <2>1, <2>2, HandlerStops
<1>2. ASSUME NEW p \in Properties,
             \/ h.property = p /\ property[p] = Nothing
             \/ \A b \in Ads : ~Names(b, p),
             property[p] = Nothing,
             property' = [property EXCEPT ![p] = a],
             request' = [request EXCEPT ![r].step = "record", ![r].property = p]
      PROVE  FileInv'
  <2> DEFINE new == [h EXCEPT !.step = "record", !.property = p]
  <2>1. /\ new \in Handlers /\ new.step = "record" /\ new.property = p /\ new.ad = a
        /\ new.id = h.id /\ new.override = h.override
    <3>1. "record" \in Steps
      BY DEF Steps
    <3> QED BY <1>0, <3>1 DEF Handlers
  <2>2. request' = [request EXCEPT ![r] = new]
    BY <1>2
  <2> HIDE DEF new
  <2>3. /\ request' \in [Requests -> Handlers \cup {Nothing}]
        /\ request'[r] = new /\ new # Nothing
        /\ \A s \in Requests \ {r} : request'[s] = request[s]
    BY <1>0, <2>1, <2>2, Facts DEF FilesTyped, FilesTypeOK
  <2>4. /\ property' \in [Properties -> Ads \cup {Nothing}] /\ property'[p] = a
        /\ \A q \in Properties \ {p} : property'[q] = property[q]
    BY <1>0, <1>2 DEF FilesTyped, FilesTypeOK
  <2>5. FilesTyped'
    <3>1. FilesTypeOK'
      BY <1>0, <2>3, <2>4 DEF FilesTyped, FilesTypeOK
    <3>2. Carried'
      BY <1>0, <2>1, <2>3 DEF FilesTyped, Carried
    <3> QED BY <1>0, <3>1, <3>2 DEF FilesTyped
  <2>6. ASSUME NEW b \in Ads, NEW q \in Properties, Names(b, q)'
        PROVE  Names(b, q) \/ (q = p /\ b = a)
    <3>1. CASE property'[q] = b
      BY <2>4, <3>1 DEF Names
    <3>2. CASE row'[b] # Nothing /\ row'[b].link = q
      BY <1>0, <3>2 DEF Names
    <3>3. CASE \E s \in Requests : /\ request'[s] # Nothing
                                   /\ request'[s].ad = b /\ request'[s].property = q
      BY <2>1, <2>3, <3>3 DEF Names
    <3> QED BY <2>6, <3>1, <3>2, <3>3 DEF Names
  <2>7. \A b \in Ads : Names(b, p) => b = a
    <3>1. h.property = p => Names(a, p)
      BY <1>0 DEF Names
    <3> QED BY <1>0, <1>2, <3>1 DEF FileInv, Filed, OneAdvertisement
  <2>8. OneAdvertisement'
    <3> SUFFICES ASSUME NEW q \in Properties, NEW b \in Ads, NEW c \in Ads,
                        Names(b, q)', Names(c, q)'
                 PROVE  b = c
      BY DEF OneAdvertisement
    <3>1. (Names(b, q) \/ (q = p /\ b = a)) /\ (Names(c, q) \/ (q = p /\ c = a))
      BY <2>6
    <3>2. CASE q = p
      BY <2>7, <3>1, <3>2
    <3>3. CASE q # p
      BY <3>1, <3>3 DEF FileInv, Filed, OneAdvertisement
    <3> QED BY <3>2, <3>3
  <2>9. Alone'
    BY <1>0, <2>1, <2>3, StayAlone DEF FileInv, Filed
  <2>10. ReadsHold'
    <3> SUFFICES ASSUME NEW s \in Requests, request'[s] # Nothing, request'[s].ad \notin overlapped
                 PROVE  AsRead(request[s])'
      BY <1>0 DEF ReadsHold
    <3> PICK g : g = request'[s]
      OBVIOUS
    <3>1. CASE s = r
      <4>1. AsRead(h)
        BY <1>0, <2>1, <2>3, <3>1 DEF FileInv, Filed, ReadsHold
      <4> QED BY <1>0, <2>1, <2>3, <3>1, <4>1 DEF AsRead
    <3>2. CASE s # r
      <4>1. g = request[s] /\ g.ad \in Ads /\ g \in Handlers
        BY <1>0, <2>3, <3>2, Facts
      <4>2. AsRead(g) /\ g.ad # a
        BY <1>0, <3>2, <4>1 DEF FileInv, Filed, ReadsHold, Alone
      <4>3. g.step = "unlink" => g.property \in Properties /\ g.property # p
        <5>1. g.step = "unlink" => g.property \in Properties
          BY <2>3, <3>2, <4>1 DEF FileInv, FilesTyped, Carried, Handlers
        <5>2. g.property = p => Names(g.ad, p)
          BY <2>3, <3>2, <4>1 DEF Names
        <5> QED BY <2>7, <4>1, <4>2, <5>1, <5>2
      <4> QED BY <1>0, <2>4, <4>1, <4>2, <4>3 DEF AsRead
    <3> QED BY <3>1, <3>2
  <2>11. a \notin overlapped => row[a] # Nothing /\ row[a].link = Nothing
    BY <1>0 DEF FileInv, Filed, ReadsHold, AsRead
  <2>12. Protected'
    <3> SUFFICES ASSUME NEW q \in Properties, NEW b \in Ads \ Excused, property'[q] = b,
                        row[b] # Nothing, row[b].link = q
                 PROVE  row[b].status = "imported"
      BY <1>0 DEF Protected, Excused
    <3>1. q # p
      BY <1>0, <2>4, <2>11 DEF Excused
    <3> QED BY <2>4, <3>1 DEF FileInv, Filed, Protected
  <2>13. ListingHasFile'
    <3> SUFFICES ASSUME NEW q \in Properties, NEW b \in Ads \ Excused, property'[q] = b
                 PROVE  \/ row[b] # Nothing /\ row[b].link = q
                        \/ \E s \in Requests : /\ request'[s] # Nothing /\ request'[s].step = "record"
                                               /\ request'[s].property = q
      BY <1>0, <2>5, ListingsHaveFiles DEF FilesTyped, Excused
    <3>1. CASE q = p
      BY <2>1, <2>3, <3>1
    <3>2. CASE q # p
      BY <1>0, <2>3, <2>4, <3>2, OfListing
    <3> QED BY <3>1, <3>2
  <2>14. ApprovalStands'
    BY <1>0 DEF FileInv, Filed, ApprovalStands
  <2> QED BY <2>5, <2>8, <2>9, <2>10, <2>12, <2>13, <2>14 DEF FileInv, Filed
<1> DEFINE drawn == {p \in Properties :
                        \/ property[p] # Nothing
                        \/ \E b \in Ads : row[b] # Nothing /\ row[b].link = p
                        \/ \E s \in Requests : request[s] # Nothing /\ request[s].property = p}
<1>3. CASE h.property # Nothing /\ property[h.property] # Nothing
  <2>1. Ends(r) /\ UNCHANGED property
    BY <1>3 DEF Insert
  <2> QED BY <1>1, <2>1
<1>4. CASE ~(h.property # Nothing /\ property[h.property] # Nothing)
  <2> PICK p \in IF h.property # Nothing THEN {h.property} ELSE Properties \ drawn :
              /\ property' = [property EXCEPT ![p] = a]
              /\ request' = [request EXCEPT ![r].step = "record", ![r].property = p]
    BY <1>4 DEF Insert
  <2>1. CASE h.property # Nothing
    <3>1. p = h.property /\ p \in Properties /\ property[p] = Nothing
      BY <1>0, <1>4, <2>1 DEF Handlers
    <3> QED BY <1>2, <3>1
  <2>2. CASE h.property = Nothing
    <3>1. p \in Properties /\ p \notin drawn
      BY <2>2
    <3>2. property[p] = Nothing /\ \A b \in Ads : ~Names(b, p)
      BY <1>0, <3>1 DEF Names
    <3> QED BY <1>2, <3>1, <3>2
  <2> QED BY <2>1, <2>2
<1> QED BY <1>3, <1>4

LEMMA PurgeKeeps ==
    ASSUME FileInv, NEW p \in Properties, Purge(p)
    PROVE  FileInv'
<1>0. /\ FilesTyped /\ property' = [property EXCEPT ![p] = Nothing]
      /\ UNCHANGED <<verdict, crawled, row, rowIds, request, overlapped, broken, demoted>>
      /\ Nothing \notin Ads /\ Nothing \notin Properties
  BY Facts DEF FileInv, Purge, ads, files, importHistory
<1>1. /\ property' \in [Properties -> Ads \cup {Nothing}] /\ property'[p] = Nothing
      /\ \A q \in Properties : property'[q] = property[q] \/ property'[q] = Nothing
  BY <1>0 DEF FilesTyped, FilesTypeOK
<1>2. FilesTyped'
  BY <1>0, <1>1 DEF FilesTyped, FilesTypeOK, Carried
<1>3. OneAdvertisement'
  <2>1. ASSUME NEW b \in Ads, NEW q \in Properties, Names(b, q)'
        PROVE  Names(b, q)
    BY <1>0, <1>1, <2>1 DEF Names
  <2> QED BY <2>1, NamesKept DEF FileInv, Filed
<1>4. Alone'
  BY <1>0, StayAlone DEF FileInv, Filed
<1>5. ReadsHold'
  <2> SUFFICES ASSUME NEW s \in Requests, request[s] # Nothing, request[s].ad \notin overlapped
               PROVE  AsRead(request[s])'
    BY <1>0 DEF ReadsHold
  <2> PICK g : g = request[s]
    OBVIOUS
  <2>1. AsRead(g) /\ g \in Handlers
    BY Facts DEF FileInv, Filed, ReadsHold
  <2>2. g.step = "unlink" => g.property \in Properties
    BY <2>1 DEF FileInv, FilesTyped, Carried, Handlers
  <2> QED BY <1>0, <1>1, <2>1, <2>2 DEF AsRead
<1>6. Protected' /\ ApprovalStands'
  BY <1>0, <1>1 DEF FileInv, Filed, Protected, ApprovalStands, Excused
<1>7. ListingHasFile'
  <2> SUFFICES ASSUME NEW q \in Properties, NEW b \in Ads \ Excused, property'[q] = b
               PROVE  \/ row[b] # Nothing /\ row[b].link = q
                      \/ \E s \in Requests : /\ request[s] # Nothing /\ request[s].step = "record"
                                             /\ request[s].property = q
    BY <1>0, <1>2, ListingsHaveFiles DEF FilesTyped, Excused
  <2>1. property[q] = b
    BY <1>0, <1>1
  <2> QED BY <2>1, OfListing
<1> QED BY <1>2, <1>3, <1>4, <1>5, <1>6, <1>7 DEF FileInv, Filed

\* No file is deleted while its listing stays, nor under a handler unnoticed.
LEMMA DeleteKeeps ==
    ASSUME FileInv, NEW a \in Ads, Delete(a)
    PROVE  FileInv'
<1>0. /\ FilesTyped /\ row[a] # Nothing /\ row[a].status # "imported"
      /\ row' = [row EXCEPT ![a] = Nothing]
      /\ overlapped' = IF Open(a) = {} THEN overlapped ELSE overlapped \cup {a}
      /\ UNCHANGED <<verdict, crawled, rowIds, property, request, broken, demoted>>
      /\ Nothing \notin Ads
  BY Facts DEF FileInv, Delete, Deletable, ads
<1>1. /\ row' \in [Ads -> Rows \cup {Nothing}] /\ row'[a] = Nothing
      /\ \A b \in Ads : b # a => row'[b] = row[b]
      /\ overlapped \subseteq overlapped' /\ overlapped' \subseteq Ads
      /\ \A b \in Ads : b \notin Excused' => b \notin Excused
  BY <1>0 DEF FilesTyped, FilesTypeOK, Excused
<1>2. \A s \in Requests : request[s] # Nothing /\ request[s].ad = a => a \in overlapped'
  BY <1>0 DEF Open
<1>3. FilesTyped'
  BY <1>0, <1>1 DEF FilesTyped, FilesTypeOK, Carried
<1>4. OneAdvertisement'
  <2>1. ASSUME NEW b \in Ads, NEW q \in Properties, Names(b, q)'
        PROVE  Names(b, q)
    BY <1>0, <1>1, <2>1 DEF Names
  <2> QED BY <2>1, NamesKept DEF FileInv, Filed
<1>5. Alone'
  BY <1>0, <1>1, StayAlone DEF FileInv, Filed
<1>6. ReadsHold'
  <2> SUFFICES ASSUME NEW s \in Requests, request[s] # Nothing, request[s].ad \notin overlapped'
               PROVE  AsRead(request[s])'
    BY <1>0 DEF ReadsHold
  <2> PICK g : g = request[s]
    OBVIOUS
  <2>1. g.ad # a /\ g.ad \in Ads /\ AsRead(g)
    BY <1>1, <1>2, Facts DEF FileInv, Filed, ReadsHold
  <2> QED BY <1>0, <1>1, <2>1 DEF AsRead
<1>7. Protected' /\ ApprovalStands'
  BY <1>0, <1>1 DEF FileInv, Filed, Protected, ApprovalStands
<1>8. ListingHasFile'
  <2> SUFFICES ASSUME NEW q \in Properties, NEW b \in Ads \ Excused', property[q] = b
               PROVE  \/ row'[b] # Nothing /\ row'[b].link = q
                      \/ \E s \in Requests : /\ request[s] # Nothing /\ request[s].step = "record"
                                             /\ request[s].property = q
    BY <1>0, <1>3, ListingsHaveFiles DEF FilesTyped
  <2>0. b \in Ads \ Excused
    BY <1>1
  <2>1. CASE b # a
    BY <1>1, <2>0, <2>1, OfListing
  <2>2. CASE b = a
    <3>1. row[a].link # q
      BY <1>0, <2>0, <2>2 DEF FileInv, Filed, Protected
    <3> QED BY <2>0, <2>2, <3>1, OfListing
  <2> QED BY <2>1, <2>2
<1> QED BY <1>3, <1>4, <1>5, <1>6, <1>7, <1>8 DEF FileInv, Filed

----------------------------------------------------------------------------
(* The theorems *)

LEMMA InitFiled == ImportInit => FileInv
<1> SUFFICES ASSUME ImportInit
             PROVE  FileInv
  OBVIOUS
<1>1. Nothing \notin Ads /\ MaxRows \in Nat
  BY NothingAssumption, BoundsAssumption
<1>2. FilesTyped
  BY <1>1 DEF ImportInit, FilesTyped, FilesTypeOK, Carried
<1>3. \A b \in Ads, p \in Properties : ~Names(b, p)
  BY <1>1 DEF ImportInit, Names
<1>4. Filed
  BY <1>1, <1>3 DEF ImportInit, Filed, OneAdvertisement, Alone, ReadsHold, Protected,
     ListingHasFile, ApprovalStands
<1> QED BY <1>2, <1>4 DEF FileInv

LEMMA FiledKept == FileInv /\ [ImportNext]_importVars => FileInv'
<1> SUFFICES ASSUME FileInv, [ImportNext]_importVars
             PROVE  FileInv'
  OBVIOUS
<1>1. ASSUME NEW a \in Ads, Sync(a) \/ ListAccepted(a) \/ Delete(a)
      PROVE  FileInv'
  BY <1>1, CrawlKeeps, DeleteKeeps
<1>2. ASSUME NEW p \in Properties, Purge(p)
      PROVE  FileInv'
  BY <1>2, PurgeKeeps
<1>3. ASSUME NEW r \in Requests, Arrives(r)
      PROVE  FileInv'
  BY <1>3, ArrivesAdmitted, StartsKeeps
<1>4. ASSUME NEW r \in Requests, Proceeds(r)
      PROVE  FileInv'
  BY <1>4, FetchKeeps, RefuseKeeps, LookKeeps, UnlinkKeeps, StampKeeps, InsertKeeps,
     RecordKeeps, ReviewKeeps, StopsKeeps DEF Proceeds
<1>5. CASE UNCHANGED importVars
  BY <1>5 DEF importVars, ads, files, importHistory, FileInv, FilesTyped,
     FilesTypeOK, Carried, Filed, OneAdvertisement, Names, Alone, ReadsHold, AsRead, Protected,
     ListingHasFile,
     ApprovalStands, Excused
<1> QED BY <1>1, <1>2, <1>3, <1>4, <1>5 DEF ImportNext

\* A row keeps the id it was inserted with, and a handler knows the property it
\* works on (rows and handlers of divar.ts and divar-review.ts).
THEOREM FilesAreTyped == ImportSpec => []FilesTypeOK
<1>1. ImportInit => FileInv
  BY InitFiled
<1>2. FileInv => FilesTypeOK
  BY DEF FileInv, FilesTyped
<1> QED BY <1>1, <1>2, FiledKept, PTL DEF ImportSpec

\* Every listing importDivarFile made is named by the file of its advertisement,
\* or about to be, unless two handlers of the advertisement overlapped, an import
\* stopped before its last statement, or one refused the file of a listing.
THEOREM ListingsKeepFiles == ImportSpec => []ListingHasFile
<1>1. ImportInit => FileInv
  BY InitFiled
<1>2. FileInv => ListingHasFile
  BY DEF FileInv, Filed
<1> QED BY <1>1, <1>2, FiledKept, PTL DEF ImportSpec

\* A file approved by hand (approveDivarFile) is rejected by no sync, list or import
\* that did not work on what it had read before.
THEOREM ApprovalsStand == ImportSpec => []ApprovalStands
<1>1. ImportInit => FileInv
  BY InitFiled
<1>2. FileInv => ApprovalStands
  BY DEF FileInv, Filed
<1> QED BY <1>1, <1>2, FiledKept, PTL DEF ImportSpec

\* With the same exceptions an advertisement is never published twice, and its
\* file is not deleted while its listing stays (importDivarFile, deleteDivarFiles).
THEOREM PublishedOnlyOnce == ImportSpec => []OneListing
<1>1. ImportInit => FileInv
  BY InitFiled
<1>2. FileInv => OneListing
  <2> SUFFICES ASSUME FileInv, NEW p \in Properties, property[p] # Nothing,
                      property[p] \notin overlapped \cup broken \cup demoted,
                      NEW q \in Properties
               PROVE  /\ row[property[p]] # Nothing
                      /\ property[q] = property[p] => q = p
    BY DEF OneListing
  <2> DEFINE a == property[p]
  <2>1. a \in Ads \ Excused /\ a \notin overlapped
    BY Facts DEF FileInv, Excused
  \* What the invariant says of a listing of this advertisement.
  <2>2. ASSUME NEW t \in Properties, property[t] = a
        PROVE  \/ row[a] # Nothing /\ row[a].link = t
               \/ \E r \in Requests :
                     /\ request[r] # Nothing /\ request[r].ad = a
                     /\ request[r].property = t
                     /\ row[a] # Nothing /\ row[a].link = Nothing
    <3>1. CASE row[a] # Nothing /\ row[a].link = t
      BY <3>1
    <3>2. CASE \E r \in Requests : /\ request[r] # Nothing /\ request[r].step = "record"
                                   /\ request[r].property = t
      <4>1. PICK r \in Requests : /\ request[r] # Nothing /\ request[r].step = "record"
                                  /\ request[r].property = t
        BY <3>2
      <4>2. request[r].ad \in Ads
        BY <4>1, Facts DEF FileInv
      <4>3. request[r].ad = a
        BY <2>1, <2>2, <4>1, <4>2 DEF FileInv, Filed, OneAdvertisement, Names
      <4> QED
        BY <2>1, <4>1, <4>3 DEF FileInv, Filed, ReadsHold, AsRead
    <3> QED
      BY <2>1, <2>2, <3>1, <3>2 DEF FileInv, Filed, ListingHasFile, Excused
  <2>3. Nothing \notin Properties
    BY Facts DEF FileInv
  <2>4. \A r, s \in Requests : request[r] # Nothing /\ request[s] # Nothing
                                  /\ request[r].ad = a /\ request[s].ad = a => r = s
    BY <2>1 DEF FileInv, Filed, Alone
  <2> QED
    BY <2>2, <2>3, <2>4
<1> QED BY <1>1, <1>2, FiledKept, PTL DEF ImportSpec

\* A file names no other advertisement's listing, and no handler works on one.
OwnListings ==
    /\ \A a \in Ads : row[a] # Nothing /\ row[a].link # Nothing
                      => property[row[a].link] \in {a, Nothing}
    /\ \A r \in Requests : request[r] # Nothing /\ request[r].property # Nothing
                           => property[request[r].property] \in {request[r].ad, Nothing}

\* Whatever overlaps and wherever an import stops, a repair or a second import
\* (importDivarFile) writes no other advertisement's images or position into a
\* listing, and the files of two advertisements never name one listing.
THEOREM RepairsTheirOwn == ImportSpec => []OwnListings
<1>1. ImportInit => FileInv
  BY InitFiled
<1>2. FileInv => OwnListings
  <2> SUFFICES ASSUME FileInv PROVE OwnListings
    OBVIOUS
  <2>1. ASSUME NEW a \in Ads, NEW p \in Properties, Names(a, p), property[p] # Nothing
        PROVE  property[p] = a
    <3>1. property[p] \in Ads
      BY <2>1, Facts DEF FileInv
    <3> QED
      BY <2>1, <3>1 DEF FileInv, Filed, OneAdvertisement, Names
  <2>2. ASSUME NEW a \in Ads, row[a] # Nothing, row[a].link # Nothing
        PROVE  property[row[a].link] \in {a, Nothing}
    <3>1. row[a].link \in Properties
      BY <2>2, Facts DEF FileInv, Rows
    <3> QED
      BY <2>1, <2>2, <3>1 DEF Names
  <2>3. ASSUME NEW r \in Requests, request[r] # Nothing, request[r].property # Nothing
        PROVE  property[request[r].property] \in {request[r].ad, Nothing}
    <3>1. request[r].property \in Properties /\ request[r].ad \in Ads
      BY <2>3, Facts DEF FileInv, Handlers
    <3> QED
      BY <2>1, <2>3, <3>1 DEF Names
  <2> QED
    BY <2>2, <2>3 DEF OwnListings
<1> QED BY <1>1, <1>2, FiledKept, PTL DEF ImportSpec
=============================================================================
