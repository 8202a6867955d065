---------------------------- MODULE ServerCaches ----------------------------
(***************************************************************************)
(* The in-memory caches of the HTTP backend in front of the database:      *)
(* ResponseCache (entity histories, block and range lists) and its scalar  *)
(* sibling ValueCache (transaction counts), with the notifications that    *)
(* keep them fresh.                                                        *)
(*                                                                         *)
(* A request that misses runs a loader, shared by the requests that come   *)
(* while it runs.  A writer's commit queues a notification; when the       *)
(* backend handles it, the keys it names are dropped and the loads in      *)
(* flight for them are marked stale.  Notifications are lost while the     *)
(* LISTEN connection is down; then only the TTL is left.                   *)
(*                                                                         *)
(* The data behind a key is abstracted to a version that a commit raises.  *)
(***************************************************************************)
EXTENDS Integers, Sequences, FiniteSets

CONSTANTS
  None,
  Keys,        \* cache keys
  Clients,     \* concurrent requests
  Scopes,      \* the sets of keys one notification makes stale
  Size,        \* bytes of a key's response, per version of its data
  MaxEntries, MaxBytes, TTL,
  JoinsStale,  \* ValueCache: a load marked stale is joined all the same
  MaxVersion   \* bound: how often the data behind a key changes

Versions == 0..MaxVersion

ASSUME CacheAssumption ==
  /\ MaxEntries \in Nat \ {0} /\ MaxBytes \in Nat /\ TTL \in Nat \ {0}
  /\ MaxVersion \in Nat
  /\ Scopes \subseteq SUBSET Keys
  /\ Size \in [Keys -> [Versions -> Nat]]
  /\ JoinsStale \in BOOLEAN

\* The marker of a load in flight: its key, what its query has returned, and
\* whether an invalidation came meanwhile.
Markers == [key : Keys, value : Versions \cup {None}, stale : BOOLEAN]

\* A cached value, its bytes and its age.
Entries == [value : Versions, bytes : Nat, age : 0..TTL]

ASSUME NoneAssumption == None \notin Clients \cup Nat \cup Markers \cup Entries

VARIABLES
  data,        \* database: the version behind each key
  notices,     \* notifications committed and not handled, oldest first
  listening,   \* is the LISTEN connection up?
  entries,     \* the cached value of each key, its bytes and its age
  recency,     \* the cached keys, least recently used first
  totalBytes,
  inflight,    \* the load registered for each key: the request that began it
  loads,       \* the load each request began and has not finished
  waiting,     \* the load each request waits for, and since when
  answers,     \* what each request was last answered
  notified     \* history: the version the last handled notification announced

database == <<data, notices, listening>>
cache    == <<entries, recency, totalBytes>>
vars == <<data, notices, listening, entries, recency, totalBytes, inflight,
          loads, waiting, answers, notified>>

\* The n-th of some positions.
Nth(positions, n) ==
  CHOOSE i \in positions : Cardinality({j \in positions : j <= i}) = n

\* s, but for the members of K.
Without(s, K) ==
  LET kept == {i \in DOMAIN s : s[i] \notin K}
  IN  [n \in 1..Cardinality(kept) |-> s[Nth(kept, n)]]

\* The bytes of the entries of K, counted.
BytesOf(K) == Cardinality(UNION {{k} \X (1..entries[k].bytes) : k \in K})

Cached == {k \in Keys : entries[k] # None}

Expired(k) == k \in Cached /\ entries[k].age >= TTL

-----------------------------------------------------------------------------
Init ==
  /\ data = [k \in Keys |-> 0]
  /\ notices = << >>
  /\ listening = TRUE
  /\ entries = [k \in Keys |-> None]
  /\ recency = << >>
  /\ totalBytes = 0
  /\ inflight = [k \in Keys |-> None]
  /\ loads = [c \in Clients |-> None]
  /\ waiting = [c \in Clients |-> None]
  /\ answers = [c \in Clients |-> None]
  /\ notified = [k \in Keys |-> 0]

-----------------------------------------------------------------------------
(* The database and the clock (external). *)

\* A writer commits; the notification leaves with the commit.
Commit(K) ==
  /\ \A k \in K : data[k] < MaxVersion
  /\ data' = [k \in Keys |-> IF k \in K THEN data[k] + 1 ELSE data[k]]
  /\ notices' = IF listening THEN Append(notices, [keys |-> K, at |-> data'])
                ELSE notices
  /\ UNCHANGED <<listening, cache, inflight, loads, waiting, answers, notified>>

\* The connection drops, with what was under way; it comes back later.
Disconnect ==
  /\ listening
  /\ listening' = FALSE
  /\ notices' = << >>
  /\ UNCHANGED <<data, cache, inflight, loads, waiting, answers, notified>>

Reconnect ==
  /\ ~listening
  /\ listening' = TRUE
  /\ UNCHANGED <<data, notices, cache, inflight, loads, waiting, answers, notified>>

\* Entries grow older.
Tick ==
  /\ \E k \in Cached : ~Expired(k)
  /\ entries' = [k \in Keys |-> IF k \in Cached /\ ~Expired(k)
                                THEN [entries[k] EXCEPT !.age = @ + 1]
                                ELSE entries[k]]
  /\ UNCHANGED <<database, recency, totalBytes, inflight, loads, waiting,
                 answers, notified>>

-----------------------------------------------------------------------------
(* The cache. *)

\* The entries of K go, with their bytes.
Drop(K) ==
  /\ entries' = [k \in Keys |-> IF k \in K THEN None ELSE entries[k]]
  /\ recency' = Without(recency, K)
  /\ totalBytes' = totalBytes - BytesOf(K \cap Cached)

\* A notification reaches the backend.
Receive ==
  /\ notices # << >>
  /\ Drop(Head(notices).keys)
  /\ notified' = [k \in Keys |-> IF k \in Head(notices).keys
                                 THEN Head(notices).at[k] ELSE notified[k]]
  /\ notices' = Tail(notices)
  /\ UNCHANGED <<data, listening, inflight, waiting, answers>>

\* Mutant of Handle: loads in flight are not marked.
HandleWithoutPoison == Receive /\ UNCHANGED loads

\* invalidate and clear also mark the loads registered for the keys.
Handle ==
  /\ Receive
  /\ LET poisoned == {inflight[k] : k \in Head(notices).keys} \ {None}
     IN  loads' = [c \in Clients |-> IF c \in poisoned
                                     THEN [loads[c] EXCEPT !.stale = TRUE]
                                     ELSE loads[c]]

Idle(c) == waiting[c] = None /\ loads[c] = None

\* An entry that is still valid is the answer, and the last in the order.
Serve(c, k) ==
  /\ Idle(c)
  /\ k \in Cached /\ ~Expired(k)
  /\ recency' = Append(Without(recency, {k}), k)
  /\ answers' = [answers EXCEPT ![c] =
       [value |-> entries[k].value, since |-> notified[k]]]
  /\ UNCHANGED <<database, totalBytes, inflight, loads, waiting, notified>>

\* Mutant of Hit: a hit renews the entry.
SlidingHit(c, k) == Serve(c, k) /\ entries' = [entries EXCEPT ![k].age = 0]

\* load and get, on a hit: the entry is re-inserted as it is.
Hit(c, k) == Serve(c, k) /\ UNCHANGED entries

\* Mutant of Miss: the bytes of an expired entry are debited, the entry stays.
MissKeepsEntry(k) ==
  /\ k \in Cached => Expired(k)
  /\ totalBytes' = totalBytes - BytesOf({k} \cap Cached)
  /\ UNCHANGED <<entries, recency>>

\* get, on a miss: an expired entry is removed.
Miss(k) ==
  /\ k \in Cached => Expired(k)
  /\ Drop({k})

\* Mutant of Joinable: any load in flight is joined.
AnyLoad(k) == inflight[k] # None

\* The load a miss may wait for instead of running its own.
Joinable(k) ==
  inflight[k] # None /\ (JoinsStale \/ ~loads[inflight[k]].stale)

Join(c, k) ==
  /\ Idle(c) /\ Miss(k) /\ Joinable(k)
  /\ waiting' = [waiting EXCEPT ![c] = [load |-> inflight[k], since |-> notified[k]]]
  /\ UNCHANGED <<database, inflight, loads, answers, notified>>

\* A new load takes the place of a stale one, which goes on by itself.
StartLoad(c, k) ==
  /\ Idle(c) /\ Miss(k) /\ ~Joinable(k)
  /\ loads' = [loads EXCEPT ![c] = [key |-> k, value |-> None, stale |-> FALSE]]
  /\ inflight' = [inflight EXCEPT ![k] = c]
  /\ waiting' = [waiting EXCEPT ![c] = [load |-> c, since |-> notified[k]]]
  /\ UNCHANGED <<database, answers, notified>>

\* The loader's query sees what is committed at that moment.
Read(c) ==
  /\ loads[c] # None /\ loads[c].value = None
  /\ loads' = [loads EXCEPT ![c].value = data[loads[c].key]]
  /\ UNCHANGED <<database, cache, inflight, waiting, answers, notified>>

\* The first n entries of the order make way for `bytes' more.
MakesRoom(n, bytes) ==
  /\ Len(recency) - n < MaxEntries
  /\ n = Len(recency)
       \/ totalBytes - BytesOf({recency[i] : i \in 1..n}) + bytes <= MaxBytes

\* The least recently used entries, until both limits hold.
Evicted(bytes) ==
  LET n == CHOOSE m \in 0..Len(recency) :
             MakesRoom(m, bytes) /\ \A l \in 0..(m - 1) : ~MakesRoom(l, bytes)
  IN  {recency[i] : i \in 1..n}

Insert(k, value, evicted) ==
  /\ entries' = [j \in Keys |->
       IF j = k THEN [value |-> value, bytes |-> Size[k][value], age |-> 0]
       ELSE IF j \in evicted THEN None ELSE entries[j]]
  /\ recency' = Append(Without(recency, evicted), k)

\* Mutant of Put: an evicted entry's bytes stay on the account.
PutWithoutDebit(k, value) ==
  LET bytes == Size[k][value]
  IN  IF bytes > MaxBytes THEN UNCHANGED cache
      ELSE Insert(k, value, Evicted(bytes)) /\ totalBytes' = totalBytes + bytes

\* set: a response too large is not cached.  (The key itself has no entry then:
\* WithinBudget would break otherwise.)
Put(k, value) ==
  LET bytes == Size[k][value]
      evicted == Evicted(bytes)
  IN  IF bytes > MaxBytes THEN UNCHANGED cache
      ELSE /\ Insert(k, value, evicted)
           /\ totalBytes' = totalBytes - BytesOf(evicted) + bytes

\* A load ends with a value, or with None and an error: its registration goes
\* unless a newer load holds it, and everybody who waits for it goes on.
EndLoad(c, value) ==
  /\ inflight' = [k \in Keys |-> IF inflight[k] = c THEN None ELSE inflight[k]]
  /\ loads' = [loads EXCEPT ![c] = None]
  /\ LET released == {d \in Clients : waiting[d] # None /\ waiting[d].load = c}
     IN  /\ waiting' = [d \in Clients |-> IF d \in released THEN None ELSE waiting[d]]
         /\ answers' = [d \in Clients |->
              IF d \notin released THEN answers[d]
              ELSE IF value = None THEN None
              ELSE [value |-> value, since |-> waiting[d].since]]
  /\ UNCHANGED <<database, notified>>

\* The query has answered: the result is cached unless it was marked stale.
Finish(c) ==
  /\ loads[c] # None /\ loads[c].value # None
  /\ IF loads[c].stale THEN UNCHANGED cache ELSE Put(loads[c].key, loads[c].value)
  /\ EndLoad(c, loads[c].value)

\* The loader throws.
Fail(c) ==
  /\ loads[c] # None
  /\ EndLoad(c, None)
  /\ UNCHANGED cache

-----------------------------------------------------------------------------
Request(c) == \E k \in Keys : Hit(c, k) \/ Join(c, k) \/ StartLoad(c, k)

Next ==
  \/ Disconnect \/ Reconnect \/ Tick \/ Handle
  \/ \E K \in Scopes : Commit(K)
  \/ \E c \in Clients : Request(c) \/ Read(c) \/ Finish(c) \/ Fail(c)

Spec == Init /\ [][Next]_vars

\* Time passes, queries answer or fail, notifications that arrive are handled.
Fairness ==
  /\ WF_vars(Tick) /\ WF_vars(Handle)
  /\ \A c \in Clients : WF_vars(Read(c)) /\ WF_vars(Finish(c))

FairSpec == Spec /\ Fairness

-----------------------------------------------------------------------------
\* Types of the variables.
TypeOK ==
  /\ data \in [Keys -> Versions]
  /\ notices \in Seq([keys : Scopes, at : [Keys -> Versions]])
  /\ listening \in BOOLEAN
  /\ entries \in [Keys -> Entries \cup {None}]
  /\ recency \in Seq(Keys)
  /\ totalBytes \in Nat
  /\ inflight \in [Keys -> Clients \cup {None}]
  /\ loads \in [Clients -> Markers \cup {None}]
  /\ waiting \in [Clients -> [load : Clients, since : Versions] \cup {None}]
  /\ answers \in [Clients -> [value : Versions, since : Versions] \cup {None}]
  /\ notified \in [Keys -> Versions]

\* "A read started before the write cannot re-fill the cache with pre-write
\* data": no entry is older than the last notification handled for its key,
\* whatever loads were in flight, superseded or failed.
NothingStaleCached == \A k \in Cached : entries[k].value >= notified[k]

\* A request is never answered with data older than the notifications handled
\* before it came, neither from an entry nor from a load it joined.
AnswersFresh ==
  \A c \in Clients : answers[c] # None => answers[c].value >= answers[c].since

\* "It can never grow past its configured memory budget": the byte account is
\* the sum over the entries, both limits hold, and the order lists each cached
\* key once.
WithinBudget ==
  /\ totalBytes = BytesOf(Cached)
  /\ totalBytes <= MaxBytes
  /\ Cardinality(Cached) <= MaxEntries
  /\ {recency[i] : i \in DOMAIN recency} = Cached
  /\ Len(recency) = Cardinality(Cached)

\* "The cache still self-heals via its TTL": once the data has come to rest,
\* no entry that would be served stays behind it, lost notification or not.
SelfHeals ==
  <>[](\A k \in Cached : ~Expired(k) => entries[k].value = data[k])
=============================================================================
