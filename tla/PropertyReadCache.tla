------------------------- MODULE PropertyReadCache --------------------------
(***************************************************************************)
(* The cache of property reads one server process keeps (property-read-    *)
(* cache.server.ts).  A read that misses starts a load, which every other  *)
(* read of the key joins; the office's changes write to the database and   *)
(* then clear the cache, but not the loads under way.  The database is     *)
(* its version: every read depends on it.  Time is in ticks.               *)
(***************************************************************************)
EXTENDS Integers, FiniteSets

CONSTANTS
    Keys,
    Loads,      \* loads under way at once
    MaxEntries, \* MAX_ENTRIES
    TTL,        \* by key
    LoadTicks,  \* the longest a load takes before its query times out (query_timeout)
    MaxWrites,  \* bound on the changes of the database
    Horizon,    \* bound on the ticks counted since a version was overwritten
    None

ASSUME CacheAssumption ==
    /\ MaxEntries \in Nat \ {0}
    /\ TTL \in [Keys -> Nat \ {0}]
    /\ {LoadTicks, MaxWrites, Horizon} \subseteq Nat
    /\ \A k \in Keys : TTL[k] + LoadTicks < Horizon

VARIABLES
    db,      \* version of the database
    since,   \* ticks since each version was overwritten, 0 for the current one
    cache,   \* the map cache: what each key has, and for how many more ticks
    load,    \* the loads behind the map inFlight
    pending, \* changes written to the database that have not cleared the cache
    floor,   \* version at the last clear
    seen     \* the newest version a load of the key has stored

history == <<since, floor, seen>>
vars    == <<db, cache, load, pending, history>>

Versions == 0 .. MaxWrites
Entries  == [value : Versions, left : Nat, late : BOOLEAN]
Idle     == [step |-> "idle"]
Asked    == [step : {"asked"}, key : Keys, age : 0 .. LoadTicks]
Holding  == [step : {"read", "stored"}, key : Keys, age : 0 .. LoadTicks,
             value : Versions, late : BOOLEAN]

ASSUME AbsentAssumption == None \notin Entries

Cached == {k \in Keys : cache[k] # None}

\* Mutant: entries do not expire
LiveForever(k) == k \in Cached
(* An entry that a read is answered with. *)
Live(k) == k \in Cached /\ cache[k].left > 0

Loading(k) == \E l \in Loads : load[l] # Idle /\ load[l].key = k

Init ==
    /\ db = 0 /\ since = [v \in Versions |-> 0]
    /\ cache = [k \in Keys |-> None]
    /\ load = [l \in Loads |-> Idle]
    /\ pending = 0 /\ floor = 0 /\ seen = [k \in Keys |-> 0]

----------------------------------------------------------------------------
(* Reads.  One that finds a live entry or a load under way changes nothing *)
(* here: which entry was used last only decides which one goes first.      *)

\* Mutant: reads do not join
MissAlways(k, l) ==
    /\ ~Live(k) /\ load[l] = Idle
    /\ cache' = [cache EXCEPT ![k] = None]
    /\ load' = [load EXCEPT ![l] = [step |-> "asked", key |-> k, age |-> 0]]
    /\ UNCHANGED <<db, pending, history>>

Miss(k, l) ==
    /\ ~Live(k) /\ ~Loading(k) /\ load[l] = Idle
    /\ cache' = [cache EXCEPT ![k] = None]
    /\ load' = [load EXCEPT ![l] = [step |-> "asked", key |-> k, age |-> 0]]
    /\ UNCHANGED <<db, pending, history>>

(* The query reads the database. *)
Query(l) ==
    /\ load[l].step = "asked"
    /\ load' = [load EXCEPT ![l] = [step |-> "read", key |-> load[l].key, age |-> load[l].age,
                                    value |-> db, late |-> FALSE]]
    /\ UNCHANGED <<db, cache, pending, history>>

\* Mutant: one entry too many
EvictedLate == IF Cardinality(Cached) > MaxEntries
               THEN {[cache EXCEPT ![k] = None] : k \in Cached} ELSE {cache}
(* The cache after evictIfNeeded: without the entry used least recently,   *)
(* which may be any of them, when it is full.                              *)
Evicted == IF Cardinality(Cached) >= MaxEntries
           THEN {[cache EXCEPT ![k] = None] : k \in Cached} ELSE {cache}

Store(l) ==
    LET k == load[l].key IN
    /\ load[l].step = "read"
    /\ \E room \in Evicted :
         cache' = [room EXCEPT ![k] = [value |-> load[l].value, left |-> TTL[k],
                                       late |-> load[l].late]]
    /\ load' = [load EXCEPT ![l].step = "stored"]
    /\ seen' = [seen EXCEPT ![k] = load[l].value]
    /\ UNCHANGED <<db, pending, since, floor>>

(* finally: the load has been stored, or its query has failed. *)
Settle(l) ==
    /\ load[l] # Idle
    /\ load' = [load EXCEPT ![l] = Idle]
    /\ UNCHANGED <<db, cache, pending, history>>

----------------------------------------------------------------------------
(* Changes *)

(* A handler of this process changes the database; it will clear the       *)
(* cache.  Another process only changes the database, as does a handler    *)
(* that stops before the clear.                                            *)
Write(clears) ==
    /\ db < MaxWrites
    /\ db' = db + 1
    /\ pending' = IF clears THEN pending + 1 ELSE pending
    /\ UNCHANGED <<cache, load, history>>

\* Mutant: what is cached stays
ClearNothing ==
    /\ pending > 0 /\ pending' = pending - 1
    /\ load' = [l \in Loads |-> IF load[l].step = "read"
                                THEN [load[l] EXCEPT !.late = TRUE] ELSE load[l]]
    /\ floor' = db
    /\ UNCHANGED <<db, cache, since, seen>>

(* late marks the loads that have read the database and not stored yet. *)
Clear ==
    /\ pending > 0 /\ pending' = pending - 1
    /\ cache' = [k \in Keys |-> None]
    /\ load' = [l \in Loads |-> IF load[l].step = "read"
                                THEN [load[l] EXCEPT !.late = TRUE] ELSE load[l]]
    /\ floor' = db
    /\ UNCHANGED <<db, since, seen>>

(* Storing and settling are callbacks of one promise: no time between. *)
Tick ==
    /\ \A l \in Loads : load[l] # Idle => load[l].step # "stored" /\ load[l].age < LoadTicks
    /\ cache' = [k \in Keys |-> IF k \in Cached /\ cache[k].left > 0
                                 THEN [cache[k] EXCEPT !.left = @ - 1] ELSE cache[k]]
    /\ load' = [l \in Loads |-> IF load[l] = Idle THEN Idle ELSE [load[l] EXCEPT !.age = @ + 1]]
    /\ since' = [v \in Versions |-> IF v < db /\ since[v] < Horizon
                                 THEN since[v] + 1 ELSE since[v]]
    /\ UNCHANGED <<db, pending, floor, seen>>

----------------------------------------------------------------------------
Next ==
    \/ \E l \in Loads : \/ \E k \in Keys : Miss(k, l)
                        \/ Query(l) \/ Store(l) \/ Settle(l)
    \/ \E clears \in BOOLEAN : Write(clears)
    \/ Clear \/ Tick

Spec == Init /\ [][Next]_vars

----------------------------------------------------------------------------
(* Properties *)

(* The maps are well typed, and the cache never has more than MAX_ENTRIES  *)
(* entries, however many loads end at once.                                *)
TypeOK ==
    /\ db \in Versions /\ since \in [Versions -> 0 .. Horizon]
    /\ cache \in [Keys -> Entries \cup {None}]
    /\ load \in [Loads -> {Idle} \cup Asked \cup Holding]
    /\ pending \in Nat /\ floor \in Versions /\ seen \in [Keys -> Versions]
    /\ Cardinality(Cached) <= MaxEntries

(* Whatever changes and clears race with the loads, and whichever process  *)
(* makes the change, a read is answered with what the database held within *)
(* the key's TTL and the time of one load.                                 *)
StalenessIsBounded ==
    \A k \in Keys : Live(k) => since[cache[k].value] <= TTL[k] + LoadTicks

(* After a change has cleared the cache, only a load that had read the     *)
(* database before the clear brings back what the database held before.    *)
ClearedIsGone ==
    \A k \in Keys : Live(k) => cache[k].value >= floor \/ cache[k].late

(* The reads of a key never go back in time: two loads of one key never    *)
(* overlap, so the later one stores what is at least as new, also after a  *)
(* clear and after an eviction.                                            *)
NeverGoesBack == [][\A k \in Keys : seen'[k] >= seen[k]]_vars

=============================================================================
