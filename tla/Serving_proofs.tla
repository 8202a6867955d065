--------------------------- MODULE Serving_proofs ---------------------------
(***************************************************************************)
(* Proofs about what stands between a request and the stored blocks or the *)
(* node: the response caches, for any keys, requests, sizes, limits and    *)
(* number of writes; the entity index, carried over from                   *)
(* EntityProjector_proofs, for any entities, chain and late writers; and   *)
(* the key ring, for any number of keys.                                   *)
(***************************************************************************)
EXTENDS Serving, FunctionTheorems, FiniteSetTheorems, SequenceTheorems,
        WellFoundedInduction, NaturalsInduction, TLAPS

-----------------------------------------------------------------------------
(* The response caches.  What is cached was written by a load that was not *)
(* marked stale when it ended.  The strengthening says of the loads in     *)
(* flight what the property says of the entries: a load that is not marked *)
(* is the registered one of its key, and what it has read is at least what *)
(* was notified.  Handling a notification then either leaves a key alone   *)
(* or marks its load.  That a load which is not marked is the only one of  *)
(* its key, and began with a miss, is also why a put finds no entry to     *)
(* replace, on which the byte account and the order rest.                  *)

Promises == [load : Clients, since : Versions]
Notices == [keys : Scopes, at : [Keys -> Versions]]

\* What the argument needs of the types; the order and the byte account do not
\* matter to it.
Types ==
  /\ data \in [Keys -> Versions]
  /\ notified \in [Keys -> Versions]
  /\ notices \in Seq(Notices)
  /\ entries \in [Keys -> Entries \cup {None}]
  /\ inflight \in [Keys -> Clients \cup {None}]
  /\ loads \in [Clients -> Markers \cup {None}]
  /\ waiting \in [Clients -> Promises \cup {None}]
  /\ answers \in [Clients -> [value : Versions, since : Versions] \cup {None}]

\* Nothing is announced before it is committed.
NoticeInv ==
  /\ \A k \in Keys : notified[k] <= data[k]
  /\ \A i \in DOMAIN notices : \A k \in Keys : notices[i].at[k] <= data[k]

\* A registered load is a load of its key.
RegisterInv ==
  \A k \in Keys : inflight[k] # None =>
    loads[inflight[k]] # None /\ loads[inflight[k]].key = k

\* A load that is not marked stale is registered, and has read nothing older
\* than what was notified.
LoadInv ==
  \A c \in Clients : loads[c] # None /\ ~loads[c].stale =>
    /\ inflight[loads[c].key] = c
    /\ loads[c].value # None => loads[c].value >= notified[loads[c].key]

CacheInv == \A k \in Keys : entries[k] # None => entries[k].value >= notified[k]

IInv == Types /\ NoticeInv /\ RegisterInv /\ LoadInv /\ CacheInv

-----------------------------------------------------------------------------
LEMMA InitHolds == Init => IInv
  BY CacheAssumption, NoneAssumption, SMT
     DEF Init, IInv, Types, NoticeInv, RegisterInv, LoadInv, CacheInv, Versions

\* A writer's commit: versions only rise, and the notice carries the new ones.
LEMMA CommitHolds ==
  ASSUME IInv, NEW K \in Scopes, Commit(K)
  PROVE  IInv'
<1> DEFINE notice == [keys |-> K, at |-> data']
<1>1. /\ data \in [Keys -> Versions] /\ notified \in [Keys -> Versions]
      /\ notices \in Seq(Notices)
  BY DEF IInv, Types
<1>2. /\ data' \in [Keys -> Versions]
      /\ \A k \in Keys : data[k] <= data'[k]
  BY <1>1, CacheAssumption, SMT DEF Commit, Versions
<1>3. notice \in Notices
  BY <1>2, CacheAssumption DEF Notices
<1>4. notices' = notices \/ notices' = Append(notices, notice)
  BY DEF Commit
<1>5. notices' \in Seq(Notices)
  <2> HIDE DEF notice
  <2> QED
    BY <1>1, <1>3, <1>4, AppendProperties
<1>6. \A i \in DOMAIN notices' : \A k \in Keys : notices'[i].at[k] <= data'[k]
  <2> SUFFICES ASSUME NEW i \in DOMAIN notices', NEW k \in Keys
               PROVE  notices'[i].at[k] <= data'[k]
    OBVIOUS
  <2>1. CASE i \in DOMAIN notices /\ notices'[i] = notices[i]
    <3>1. notices[i] \in Notices
      BY <1>1, <2>1, SMT
    <3>2. notices[i].at[k] <= data[k] /\ notices[i].at[k] \in Versions
      BY <2>1, <3>1 DEF IInv, NoticeInv, Notices
    <3>3. data[k] \in Nat /\ data'[k] \in Nat /\ notices[i].at[k] \in Nat
      BY <1>1, <1>2, <3>2, CacheAssumption, SMT DEF Versions
    <3> QED
      BY <1>2, <2>1, <3>2, <3>3, SMT
  <2>2. CASE notices'[i] = notice
    <3>1. data'[k] \in Nat
      BY <1>2, CacheAssumption, SMT DEF Versions
    <3> QED
      BY <2>2, <3>1, SMT
  <2>3. (i \in DOMAIN notices /\ notices'[i] = notices[i]) \/ notices'[i] = notice
    <3> HIDE DEF notice
    <3> QED
      BY <1>1, <1>3, <1>4, AppendProperties, SMT
  <2> QED
    BY <2>1, <2>2, <2>3
<1>7. \A k \in Keys : notified[k] <= data'[k]
  <2> SUFFICES ASSUME NEW k \in Keys PROVE notified[k] <= data'[k]
    OBVIOUS
  <2>1. notified[k] <= data[k]
    BY DEF IInv, NoticeInv
  <2> QED
    BY <1>1, <1>2, <2>1, CacheAssumption, SMT DEF Versions
<1>8. UNCHANGED <<entries, inflight, loads, waiting, answers, notified>>
  BY DEF Commit, cache
<1> QED
  BY <1>2, <1>5, <1>6, <1>7, <1>8
     DEF IInv, Types, NoticeInv, RegisterInv, LoadInv, CacheInv

LEMMA DisconnectHolds == IInv /\ Disconnect => IInv'
  BY SMT DEF IInv, Types, NoticeInv, RegisterInv, LoadInv, CacheInv, Disconnect, cache

LEMMA ReconnectHolds == IInv /\ Reconnect => IInv'
  BY DEF IInv, Types, NoticeInv, RegisterInv, LoadInv, CacheInv, Reconnect, cache

\* Ageing leaves the values alone.
LEMMA TickHolds == ASSUME IInv, Tick PROVE IInv'
<1>1. UNCHANGED <<data, notices, inflight, loads, waiting, answers, notified>>
  BY DEF Tick, database
<1>2. entries \in [Keys -> Entries \cup {None}]
  BY DEF IInv, Types
<1>3. \A k \in Keys : entries'[k] \in Entries \cup {None}
  <2> SUFFICES ASSUME NEW k \in Keys PROVE entries'[k] \in Entries \cup {None}
    OBVIOUS
  <2>1. CASE k \in Cached /\ ~Expired(k)
    <3>1. entries[k] \in Entries /\ ~(entries[k].age >= TTL) /\ TTL \in Nat
      BY <1>2, <2>1, CacheAssumption DEF Cached, Expired
    <3>2. entries[k].age + 1 \in 0..TTL
      BY <3>1, SMT DEF Entries
    <3>3. entries'[k] = [entries[k] EXCEPT !.age = entries[k].age + 1]
      BY <2>1 DEF Tick
    <3> QED
      BY <3>1, <3>2, <3>3 DEF Entries
  <2>2. CASE ~(k \in Cached /\ ~Expired(k))
    BY <1>2, <2>2 DEF Tick
  <2> QED
    BY <2>1, <2>2
<1>4. entries' \in [Keys -> Entries \cup {None}]
  BY <1>3 DEF Tick
<1>5. \A k \in Keys : entries'[k] # None =>
        entries[k] # None /\ entries'[k].value = entries[k].value
  BY <1>2, SMT DEF Tick, Cached, Entries
<1>6. CacheInv'
  BY <1>1, <1>5 DEF IInv, CacheInv
<1> QED
  BY <1>1, <1>4, <1>6 DEF IInv, Types, NoticeInv, RegisterInv, LoadInv

\* An entry disappears, or stays as it is.
LEMMA DropHolds ==
  ASSUME Types, CacheInv, NEW K, Drop(K), notified' = notified
  PROVE  /\ entries' \in [Keys -> Entries \cup {None}]
         /\ CacheInv'
  BY DEF Types, CacheInv, Drop

\* Marking a load changes nothing else of it.
LEMMA MarkingKeeps ==
  ASSUME IInv, Handle, NEW c \in Clients
  PROVE  /\ loads'[c] \in Markers \cup {None}
         /\ loads'[c] = None <=> loads[c] = None
         /\ loads[c] # None => /\ loads'[c].key = loads[c].key
                               /\ loads'[c].value = loads[c].value
                               /\ ~loads'[c].stale => loads'[c] = loads[c]
<1> DEFINE poisoned == {inflight[k] : k \in Head(notices).keys} \ {None}
<1>1. loads' = [d \in Clients |-> IF d \in poisoned
                                  THEN [loads[d] EXCEPT !.stale = TRUE]
                                  ELSE loads[d]]
  BY DEF Handle
<1>2. /\ notices \in Seq(Notices) /\ notices # << >>
      /\ loads \in [Clients -> Markers \cup {None}]
  BY DEF IInv, Types, Handle, Receive
<1>3. Head(notices).keys \in SUBSET Keys
  <2>1. Head(notices) \in Notices
    BY <1>2, HeadTailProperties
  <2> QED
    BY <2>1, CacheAssumption DEF Notices
<1>4. CASE c \notin poisoned
  BY <1>1, <1>2, <1>4
<1>5. CASE c \in poisoned
  <2>1. loads'[c] = [loads[c] EXCEPT !.stale = TRUE]
    BY <1>1, <1>5
  <2>2. loads[c] \in Markers /\ loads[c] # None
    BY <1>2, <1>3, <1>5 DEF IInv, RegisterInv
  <2>3. /\ loads'[c] \in Markers
        /\ loads'[c].key = loads[c].key /\ loads'[c].value = loads[c].value
        /\ loads'[c].stale
    BY <2>1, <2>2 DEF Markers
  <2>4. loads'[c] # None
    BY <2>3, NoneAssumption
  <2> QED
    BY <2>2, <2>3, <2>4
<1> QED
  BY <1>4, <1>5

\* A notification raises what is known of the keys it names; their entries go,
\* and their loads are marked.
LEMMA HandleHolds == ASSUME IInv, Handle PROVE IInv'
<1> DEFINE K == Head(notices).keys
           at == Head(notices).at
           poisoned == {inflight[k] : k \in K} \ {None}
<1>1. /\ UNCHANGED <<data, listening, inflight, waiting, answers>>
      /\ notices # << >>
      /\ notices' = Tail(notices)
      /\ entries' = [k \in Keys |-> IF k \in K THEN None ELSE entries[k]]
      /\ notified' = [k \in Keys |-> IF k \in K THEN at[k] ELSE notified[k]]
      /\ loads' = [c \in Clients |-> IF c \in poisoned
                                     THEN [loads[c] EXCEPT !.stale = TRUE]
                                     ELSE loads[c]]
  BY DEF Handle, Receive, Drop
<1>2. /\ data \in [Keys -> Versions] /\ notified \in [Keys -> Versions]
      /\ notices \in Seq(Notices)
      /\ entries \in [Keys -> Entries \cup {None}]
      /\ inflight \in [Keys -> Clients \cup {None}]
      /\ loads \in [Clients -> Markers \cup {None}]
  BY DEF IInv, Types
<1>3. /\ Head(notices) \in Notices
      /\ notices' \in Seq(Notices)
      /\ Len(notices') = Len(notices) - 1
      /\ \A i \in 1..Len(notices') : notices'[i] = notices[i + 1]
  BY <1>1, <1>2, HeadTailProperties
<1>4. /\ Head(notices) = notices[1] /\ 1 \in DOMAIN notices
      /\ \A i \in DOMAIN notices' : i + 1 \in DOMAIN notices /\ notices'[i] = notices[i + 1]
  BY <1>1, <1>2, <1>3, SMT
<1>5. K \in SUBSET Keys /\ at \in [Keys -> Versions]
  BY <1>3, CacheAssumption DEF Notices
<1>6. /\ notified' \in [Keys -> Versions]
      /\ entries' \in [Keys -> Entries \cup {None}]
  BY <1>1, <1>2, <1>5
<1>7. NoticeInv'
  <2>1. \A k \in Keys : at[k] <= data[k]
    BY <1>4 DEF IInv, NoticeInv
  <2>2. \A k \in Keys : notified'[k] <= data'[k]
    BY <1>1, <2>1 DEF IInv, NoticeInv
  <2>3. \A i \in DOMAIN notices' : \A k \in Keys : notices'[i].at[k] <= data'[k]
    BY <1>1, <1>4 DEF IInv, NoticeInv
  <2> QED
    BY <2>2, <2>3 DEF NoticeInv
<1>8. \A c \in Clients : c \in poisoned => loads[c] \in Markers
  BY <1>2, <1>5 DEF IInv, RegisterInv
<1>9. \A c \in Clients :
        /\ loads'[c] \in Markers \cup {None}
        /\ loads'[c] = None <=> loads[c] = None
        /\ loads[c] # None => /\ loads'[c].key = loads[c].key
                              /\ loads'[c].value = loads[c].value
                              /\ ~loads'[c].stale => loads'[c] = loads[c]
  BY MarkingKeeps
<1>10. loads' \in [Clients -> Markers \cup {None}]
  BY <1>1, <1>9
<1>11. RegisterInv'
  <2> SUFFICES ASSUME NEW k \in Keys, inflight[k] # None
               PROVE  loads'[inflight[k]] # None /\ loads'[inflight[k]].key = k
    BY <1>1 DEF RegisterInv
  <2>1. inflight[k] \in Clients
    BY <1>2
  <2>2. loads[inflight[k]] # None /\ loads[inflight[k]].key = k
    BY DEF IInv, RegisterInv
  <2> QED
    BY <1>9, <2>1, <2>2
<1>12. LoadInv'
  <2> SUFFICES ASSUME NEW c \in Clients, loads'[c] # None, ~loads'[c].stale
               PROVE  /\ inflight'[loads'[c].key] = c
                      /\ loads'[c].value # None =>
                           loads'[c].value >= notified'[loads'[c].key]
    BY DEF LoadInv
  <2>1. loads'[c] = loads[c] /\ loads[c] # None
    BY <1>9
  <2>2. /\ inflight[loads[c].key] = c
        /\ loads[c].value # None => loads[c].value >= notified[loads[c].key]
    BY <2>1 DEF IInv, LoadInv
  <2>3. loads[c].key \in Keys
    BY <1>2, <2>1 DEF Markers
  <2>4. loads[c].key \notin K
    <3> SUFFICES ASSUME loads[c].key \in K PROVE FALSE
      OBVIOUS
    <3>1. c # None
      BY NoneAssumption
    <3>2. c \in poisoned
      BY <2>2, <3>1
    <3>3. loads'[c] = [loads[c] EXCEPT !.stale = TRUE]
      BY <1>1, <3>2
    <3>4. loads[c] \in Markers
      BY <1>8, <3>2
    <3>5. loads'[c].stale
      BY <3>3, <3>4 DEF Markers
    <3> QED
      BY <3>5
  <2>5. notified'[loads[c].key] = notified[loads[c].key]
    BY <1>1, <2>3, <2>4
  <2> QED
    BY <1>1, <2>1, <2>2, <2>5
<1>13. CacheInv'
  BY <1>1 DEF IInv, CacheInv
<1> QED
  BY <1>1, <1>3, <1>6, <1>7, <1>10, <1>11, <1>12, <1>13 DEF IInv, Types

-----------------------------------------------------------------------------
(* The steps of a request. *)

\* A hit answers with the entry and changes nothing else.
LEMMA HitHolds ==
  ASSUME IInv, NEW c \in Clients, NEW k \in Keys, Hit(c, k)
  PROVE  IInv'
<1>1. /\ UNCHANGED <<data, notices, entries, inflight, loads, waiting, notified>>
      /\ answers' = [answers EXCEPT ![c] =
           [value |-> entries[k].value, since |-> notified[k]]]
      /\ entries[k] # None
  BY DEF Hit, Serve, database, Cached
<1>2. entries[k].value \in Versions /\ notified[k] \in Versions
  BY <1>1 DEF IInv, Types, Entries
<1>3. answers' \in [Clients -> [value : Versions, since : Versions] \cup {None}]
  BY <1>1, <1>2 DEF IInv, Types
<1> QED
  BY <1>1, <1>3 DEF IInv, Types, NoticeInv, RegisterInv, LoadInv, CacheInv

LEMMA JoinHolds ==
  ASSUME IInv, NEW c \in Clients, NEW k \in Keys, Join(c, k)
  PROVE  IInv'
<1>1. /\ UNCHANGED <<data, notices, inflight, loads, answers, notified>>
      /\ waiting' = [waiting EXCEPT ![c] =
           [load |-> inflight[k], since |-> notified[k]]]
      /\ inflight[k] # None
      /\ Drop({k})
  BY DEF Join, Joinable, Miss, database
<1>2. inflight[k] \in Clients /\ notified[k] \in Versions
  BY <1>1 DEF IInv, Types
<1>3. waiting' \in [Clients -> Promises \cup {None}]
  BY <1>1, <1>2 DEF IInv, Types, Promises
<1>4. entries' \in [Keys -> Entries \cup {None}] /\ CacheInv'
  BY <1>1, DropHolds DEF IInv
<1> QED
  BY <1>1, <1>3, <1>4 DEF IInv, Types, NoticeInv, RegisterInv, LoadInv

\* A load that another one replaces is a marked one.
LEMMA StartLoadHolds ==
  ASSUME IInv, NEW c \in Clients, NEW k \in Keys, StartLoad(c, k)
  PROVE  IInv'
<1> DEFINE marker == [key |-> k, value |-> None, stale |-> FALSE]
<1>1. /\ UNCHANGED <<data, notices, answers, notified>>
      /\ waiting' = [waiting EXCEPT ![c] = [load |-> c, since |-> notified[k]]]
      /\ inflight' = [inflight EXCEPT ![k] = c]
      /\ loads' = [loads EXCEPT ![c] = marker]
      /\ loads[c] = None
      /\ inflight[k] # None => loads[inflight[k]].stale
      /\ Drop({k})
  BY DEF StartLoad, Joinable, Miss, Idle, database
<1>2. /\ inflight \in [Keys -> Clients \cup {None}]
      /\ loads \in [Clients -> Markers \cup {None}]
      /\ waiting \in [Clients -> Promises \cup {None}]
      /\ notified[k] \in Versions
  BY DEF IInv, Types
<1>3. /\ marker \in Markers /\ marker # None
      /\ marker.key = k /\ marker.value = None
  <2>1. marker \in Markers
    BY DEF Markers
  <2>2. marker.key = k /\ marker.value = None
    OBVIOUS
  <2> HIDE DEF marker
  <2>3. marker # None
    BY <2>1, NoneAssumption
  <2> QED
    BY <2>1, <2>2, <2>3
<1>4. c # None
  BY NoneAssumption
<1>5. /\ inflight' \in [Keys -> Clients \cup {None}]
      /\ loads' \in [Clients -> Markers \cup {None}]
  <2> HIDE DEF marker
  <2> QED
    BY <1>1, <1>2, <1>3
<1>6. waiting' \in [Clients -> Promises \cup {None}]
  BY <1>1, <1>2 DEF Promises
<1>7. entries' \in [Keys -> Entries \cup {None}] /\ CacheInv'
  BY <1>1, DropHolds DEF IInv
<1> HIDE DEF marker
<1>8. RegisterInv'
  <2> SUFFICES ASSUME NEW j \in Keys, inflight'[j] # None
               PROVE  loads'[inflight'[j]] # None /\ loads'[inflight'[j]].key = j
    BY DEF RegisterInv
  <2>1. CASE j = k
    BY <1>1, <1>2, <1>3, <2>1
  <2>2. CASE j # k
    <3>1. inflight'[j] = inflight[j] /\ inflight[j] \in Clients
      BY <1>1, <1>2, <2>2
    <3>2. loads[inflight[j]] # None /\ loads[inflight[j]].key = j
      BY <3>1 DEF IInv, RegisterInv
    <3> QED
      BY <1>1, <1>2, <3>1, <3>2
  <2> QED
    BY <2>1, <2>2
<1>9. LoadInv'
  <2> SUFFICES ASSUME NEW d \in Clients, loads'[d] # None, ~loads'[d].stale
               PROVE  /\ inflight'[loads'[d].key] = d
                      /\ loads'[d].value # None =>
                           loads'[d].value >= notified'[loads'[d].key]
    BY DEF LoadInv
  <2>1. CASE d = c
    BY <1>1, <1>2, <1>3, <2>1
  <2>2. CASE d # c
    <3>1. loads'[d] = loads[d]
      BY <1>1, <1>2, <2>2
    <3>2. /\ inflight[loads[d].key] = d
          /\ loads[d].value # None => loads[d].value >= notified[loads[d].key]
      BY <3>1 DEF IInv, LoadInv
    <3>3. d # None
      BY NoneAssumption
    <3>4. loads[d].key # k
      BY <1>1, <3>1, <3>2, <3>3
    <3>5. inflight'[loads[d].key] = inflight[loads[d].key]
      BY <1>1, <1>2, <3>4
    <3> QED
      BY <1>1, <3>1, <3>2, <3>5
  <2> QED
    BY <2>1, <2>2
<1> QED
  BY <1>1, <1>5, <1>6, <1>7, <1>8, <1>9 DEF IInv, Types, NoticeInv

\* A query sees everything that was announced.
LEMMA ReadHolds ==
  ASSUME IInv, NEW c \in Clients, Read(c)
  PROVE  IInv'
<1>1. /\ UNCHANGED <<data, notices, entries, inflight, waiting, answers, notified>>
      /\ loads' = [loads EXCEPT ![c] = [loads[c] EXCEPT !.value = data[loads[c].key]]]
      /\ loads[c] # None
  BY DEF Read, database, cache
<1>2. /\ loads \in [Clients -> Markers \cup {None}]
      /\ data \in [Keys -> Versions] /\ notified \in [Keys -> Versions]
  BY DEF IInv, Types
<1>3. loads[c] \in Markers /\ loads[c].key \in Keys
  BY <1>1, <1>2 DEF Markers
<1>4. /\ loads'[c] \in Markers
      /\ loads'[c].key = loads[c].key
      /\ loads'[c].stale = loads[c].stale
      /\ loads'[c].value = data[loads[c].key]
  BY <1>1, <1>2, <1>3 DEF Markers
<1>5. \A d \in Clients : d # c => loads'[d] = loads[d]
  BY <1>1, <1>2
<1>6. loads' \in [Clients -> Markers \cup {None}]
  BY <1>1, <1>2, <1>4, <1>5
<1>7. loads'[c] # None
  BY <1>4, NoneAssumption
<1>8. RegisterInv'
  <2> SUFFICES ASSUME NEW k \in Keys, inflight[k] # None
               PROVE  loads'[inflight[k]] # None /\ loads'[inflight[k]].key = k
    BY <1>1 DEF RegisterInv
  <2>1. inflight[k] \in Clients
    BY DEF IInv, Types
  <2>2. loads[inflight[k]] # None /\ loads[inflight[k]].key = k
    BY DEF IInv, RegisterInv
  <2> QED
    BY <1>4, <1>5, <1>7, <2>1, <2>2
<1>9. LoadInv'
  <2> SUFFICES ASSUME NEW d \in Clients, loads'[d] # None, ~loads'[d].stale
               PROVE  /\ inflight[loads'[d].key] = d
                      /\ loads'[d].value # None =>
                           loads'[d].value >= notified[loads'[d].key]
    BY <1>1 DEF LoadInv
  <2>1. CASE d = c
    <3>1. inflight[loads[c].key] = c
      BY <1>1, <1>4, <2>1 DEF IInv, LoadInv
    <3>2. notified[loads[c].key] <= data[loads[c].key]
      BY <1>3 DEF IInv, NoticeInv
    <3>3. notified[loads[c].key] \in Nat /\ data[loads[c].key] \in Nat
      BY <1>2, <1>3, CacheAssumption, SMT DEF Versions
    <3>4. data[loads[c].key] >= notified[loads[c].key]
      BY <3>2, <3>3, SMT
    <3> QED
      BY <1>4, <2>1, <3>1, <3>4
  <2>2. CASE d # c
    BY <1>5, <2>2 DEF IInv, LoadInv
  <2> QED
    BY <2>1, <2>2
<1> QED
  BY <1>1, <1>6, <1>8, <1>9 DEF IInv, Types, NoticeInv, CacheInv

\* The end of a load: the registrations and loads of the others stay.
LEMMA EndLoadHolds ==
  ASSUME IInv, NEW c \in Clients, NEW value \in Versions \cup {None},
         EndLoad(c, value)
  PROVE  /\ inflight' \in [Keys -> Clients \cup {None}]
         /\ loads' \in [Clients -> Markers \cup {None}]
         /\ waiting' \in [Clients -> Promises \cup {None}]
         /\ answers' \in [Clients -> [value : Versions, since : Versions] \cup {None}]
         /\ UNCHANGED <<data, notices, notified>>
         /\ RegisterInv' /\ LoadInv'
<1> DEFINE released == {d \in Clients : waiting[d] # None /\ waiting[d].load = c}
<1>1. /\ UNCHANGED <<data, notices, notified>>
      /\ inflight' = [k \in Keys |-> IF inflight[k] = c THEN None ELSE inflight[k]]
      /\ loads' = [loads EXCEPT ![c] = None]
      /\ waiting' = [d \in Clients |-> IF d \in released THEN None ELSE waiting[d]]
      /\ answers' = [d \in Clients |->
           IF d \notin released THEN answers[d]
           ELSE IF value = None THEN None
           ELSE [value |-> value, since |-> waiting[d].since]]
  BY DEF EndLoad, database
<1>2. /\ inflight \in [Keys -> Clients \cup {None}]
      /\ loads \in [Clients -> Markers \cup {None}]
      /\ waiting \in [Clients -> Promises \cup {None}]
      /\ answers \in [Clients -> [value : Versions, since : Versions] \cup {None}]
  BY DEF IInv, Types
<1>3. /\ inflight' \in [Keys -> Clients \cup {None}]
      /\ loads' \in [Clients -> Markers \cup {None}]
  BY <1>1, <1>2
<1>4. waiting' \in [Clients -> Promises \cup {None}]
  BY <1>1, <1>2
<1>5. answers' \in [Clients -> [value : Versions, since : Versions] \cup {None}]
  <2>1. \A d \in released : waiting[d].since \in Versions
    BY <1>2 DEF Promises
  <2> QED
    BY <1>1, <1>2, <2>1
<1>6. RegisterInv'
  BY <1>1, <1>2 DEF IInv, RegisterInv
<1>7. LoadInv'
  <2> SUFFICES ASSUME NEW d \in Clients, loads'[d] # None, ~loads'[d].stale
               PROVE  /\ inflight'[loads'[d].key] = d
                      /\ loads'[d].value # None =>
                           loads'[d].value >= notified'[loads'[d].key]
    BY DEF LoadInv
  <2>1. d # c /\ loads'[d] = loads[d]
    BY <1>1, <1>2
  <2>2. loads[d].key \in Keys
    BY <1>2, <2>1 DEF Markers
  <2>3. /\ inflight[loads[d].key] = d
        /\ loads[d].value # None => loads[d].value >= notified[loads[d].key]
    BY <2>1 DEF IInv, LoadInv
  <2> QED
    BY <1>1, <2>1, <2>2, <2>3
<1> QED
  BY <1>1, <1>3, <1>4, <1>5, <1>6, <1>7

\* Only what an unmarked load has read is cached.
LEMMA FinishHolds ==
  ASSUME IInv, NEW c \in Clients, Finish(c)
  PROVE  IInv'
<1> DEFINE k == loads[c].key
           value == loads[c].value
<1>1. /\ loads[c] # None /\ value # None
      /\ EndLoad(c, value)
      /\ loads[c].stale \/ entries' = entries \/ \E evicted : Insert(k, value, evicted)
      /\ loads[c].stale => entries' = entries
  BY DEF Finish, Put, cache
<1>2. loads[c] \in Markers
  BY <1>1 DEF IInv, Types
<1>3. k \in Keys /\ value \in Versions
  BY <1>1, <1>2 DEF Markers
<1>4. entries \in [Keys -> Entries \cup {None}]
  BY DEF IInv, Types
<1>5. entries' \in [Keys -> Entries \cup {None}] /\ CacheInv'
  <2>1. UNCHANGED notified
    BY <1>1 DEF EndLoad
  <2>2. CASE entries' = entries
    BY <1>4, <2>1, <2>2 DEF IInv, CacheInv
  <2>3. CASE ~loads[c].stale /\ \E evicted : Insert(k, value, evicted)
    <3>1. PICK evicted : Insert(k, value, evicted)
      BY <2>3, Zenon
    <3> DEFINE entry == [value |-> value, bytes |-> Size[k][value], age |-> 0]
    <3>2. entries' = [j \in Keys |-> IF j = k THEN entry
                                     ELSE IF j \in evicted THEN None ELSE entries[j]]
      BY <3>1 DEF Insert
    <3>3. Size[k][value] \in Nat /\ 0 \in 0..TTL
      BY <1>3, CacheAssumption, SMT
    <3>4. entry \in Entries /\ entry.value = value
      BY <1>3, <3>3 DEF Entries
    <3>5. value >= notified[k]
      BY <1>1, <2>3 DEF IInv, LoadInv
    <3> HIDE DEF entry
    <3>6. entries' \in [Keys -> Entries \cup {None}]
      BY <1>4, <3>2, <3>4
    <3>7. CacheInv'
      BY <2>1, <3>2, <3>4, <3>5 DEF IInv, CacheInv
    <3> QED
      BY <3>6, <3>7
  <2> QED
    BY <1>1, <2>2, <2>3
<1> QED
  BY <1>1, <1>3, <1>5, EndLoadHolds DEF IInv, Types, NoticeInv

LEMMA FailHolds ==
  ASSUME IInv, NEW c \in Clients, Fail(c)
  PROVE  IInv'
<1>1. EndLoad(c, None) /\ entries' = entries
  BY DEF Fail, cache
<1>2. /\ UNCHANGED <<data, notices, notified>>
      /\ RegisterInv' /\ LoadInv'
  BY <1>1, EndLoadHolds
<1>3. CacheInv'
  BY <1>1, <1>2 DEF IInv, CacheInv
<1> QED
  BY <1>1, <1>2, <1>3, EndLoadHolds DEF IInv, Types, NoticeInv

-----------------------------------------------------------------------------
\* IInv is inductive: it holds at the start and every step keeps it.
THEOREM Invariance == Spec => []IInv
<1>1. Init => IInv
  BY InitHolds
<1>2. ASSUME IInv, Next PROVE IInv'
  <2>1. CASE Disconnect \/ Reconnect \/ Tick \/ Handle
    BY <1>2, <2>1, DisconnectHolds, ReconnectHolds, TickHolds, HandleHolds
  <2>2. CASE \E K \in Scopes : Commit(K)
    BY <1>2, <2>2, CommitHolds
  <2>3. ASSUME NEW c \in Clients, Request(c) PROVE IInv'
    BY <1>2, <2>3, HitHolds, JoinHolds, StartLoadHolds DEF Request
  <2>4. ASSUME NEW c \in Clients, Read(c) \/ Finish(c) \/ Fail(c) PROVE IInv'
    BY <1>2, <2>4, ReadHolds, FinishHolds, FailHolds
  <2> QED
    BY <1>2, <2>1, <2>2, <2>3, <2>4 DEF Next
<1>3. IInv /\ UNCHANGED vars => IInv'
  BY DEF IInv, Types, NoticeInv, RegisterInv, LoadInv, CacheInv, vars
<1> QED
  BY <1>1, <1>2, <1>3, PTL DEF Spec

\* No entry is ever older than the last notification handled for its key.
THEOREM NeverStale == Spec => []NothingStaleCached
<1>1. IInv => NothingStaleCached
  BY DEF IInv, CacheInv, NothingStaleCached, Cached
<1> QED
  BY <1>1, Invariance, PTL

-----------------------------------------------------------------------------
(* The answers of ResponseCache.  A request waits for a load that was not  *)
(* marked when it came; so whatever that load has read, or will read, is   *)
(* at least what had been notified then.                                   *)

\* What the load a request waits for has read is fresh enough for it.
WaitInv ==
  \A c \in Clients : waiting[c] # None =>
    /\ loads[waiting[c].load] # None
    /\ waiting[c].since <= data[loads[waiting[c].load].key]
    /\ loads[waiting[c].load].value # None =>
         loads[waiting[c].load].value >= waiting[c].since

AInv == IInv /\ WaitInv /\ AnswersFresh

\* Versions only rise, and no step but these touches the loads and requests.
LEMMA WaitKept ==
  ASSUME AInv, UNCHANGED <<waiting, answers>>,
         \A k \in Keys : data[k] <= data'[k],
         data' \in [Keys -> Versions],
         \A c \in Clients : loads[c] # None =>
           loads'[c] # None /\ loads'[c].key = loads[c].key /\ loads'[c].value = loads[c].value
  PROVE  WaitInv' /\ AnswersFresh'
<1>1. SUFFICES ASSUME NEW c \in Clients, waiting[c] # None
               PROVE  /\ loads'[waiting[c].load] # None
                      /\ waiting[c].since <= data'[loads'[waiting[c].load].key]
                      /\ loads'[waiting[c].load].value # None =>
                           loads'[waiting[c].load].value >= waiting[c].since
  BY DEF WaitInv, AnswersFresh, AInv
<1>2. waiting[c].load \in Clients /\ waiting[c].since \in Versions
  BY <1>1 DEF AInv, IInv, Types, Promises
<1> DEFINE load == loads[waiting[c].load]
<1>3. /\ load # None
      /\ waiting[c].since <= data[load.key]
      /\ load.value # None => load.value >= waiting[c].since
  BY <1>1 DEF AInv, WaitInv
<1>4. load.key \in Keys
  BY <1>2, <1>3 DEF AInv, IInv, Types, Markers
<1>5. /\ data[load.key] \in Nat /\ data'[load.key] \in Nat
      /\ waiting[c].since \in Nat
  BY <1>2, <1>4, CacheAssumption, SMT DEF AInv, IInv, Types, Versions
<1>6. waiting[c].since <= data'[load.key]
  <2>1. data[load.key] <= data'[load.key]
    BY <1>4
  <2> QED
    BY <1>3, <1>5, <2>1, SMT
<1> QED
  BY <1>2, <1>3, <1>6

LEMMA HitAnswers ==
  ASSUME AInv, NEW c \in Clients, NEW k \in Keys, Hit(c, k)
  PROVE  WaitInv' /\ AnswersFresh'
<1>1. /\ UNCHANGED <<data, loads, waiting>>
      /\ answers' = [answers EXCEPT ![c] =
           [value |-> entries[k].value, since |-> notified[k]]]
      /\ entries[k] # None
  BY DEF Hit, Serve, database, Cached
<1>2. entries[k].value >= notified[k]
  BY <1>1 DEF AInv, IInv, CacheInv
<1>3. AnswersFresh'
  BY <1>1, <1>2 DEF AInv, IInv, Types, AnswersFresh
<1>4. WaitInv'
  BY <1>1 DEF AInv, WaitInv
<1> QED
  BY <1>3, <1>4

\* The load a request joins is not marked: what it has read is recent enough.
LEMMA JoinAnswers ==
  ASSUME AInv, JoinsStale = FALSE, NEW c \in Clients, NEW k \in Keys, Join(c, k)
  PROVE  WaitInv' /\ AnswersFresh'
<1> DEFINE load == inflight[k]
           promise == [load |-> load, since |-> notified[k]]
<1>1. /\ UNCHANGED <<data, loads, answers>>
      /\ waiting' = [waiting EXCEPT ![c] = promise]
      /\ load # None /\ ~loads[load].stale
  BY DEF Join, Joinable, database
<1>2. load \in Clients /\ waiting \in [Clients -> Promises \cup {None}]
  BY <1>1 DEF AInv, IInv, Types
<1>3. loads[load] # None /\ loads[load].key = k
  BY <1>1 DEF AInv, IInv, RegisterInv
<1>4. /\ loads[load].value # None => loads[load].value >= notified[k]
      /\ notified[k] <= data[k]
  BY <1>1, <1>2, <1>3 DEF AInv, IInv, LoadInv, NoticeInv
<1>5. waiting'[c].load = load /\ waiting'[c].since = notified[k]
  BY <1>1, <1>2
<1>6. \A d \in Clients : d # c => waiting'[d] = waiting[d]
  BY <1>1, <1>2
<1> HIDE DEF promise, load
<1>7. WaitInv'
  <2> SUFFICES ASSUME NEW d \in Clients, waiting'[d] # None
               PROVE  /\ loads[waiting'[d].load] # None
                      /\ waiting'[d].since <= data[loads[waiting'[d].load].key]
                      /\ loads[waiting'[d].load].value # None =>
                           loads[waiting'[d].load].value >= waiting'[d].since
    BY <1>1 DEF WaitInv
  <2>1. CASE d = c
    BY <1>3, <1>4, <1>5, <2>1
  <2>2. CASE d # c
    BY <1>6, <2>2 DEF AInv, WaitInv
  <2> QED
    BY <2>1, <2>2
<1> QED
  BY <1>1, <1>7 DEF AInv, AnswersFresh

\* A new load has read nothing yet.
LEMMA StartLoadAnswers ==
  ASSUME AInv, NEW c \in Clients, NEW k \in Keys, StartLoad(c, k)
  PROVE  WaitInv' /\ AnswersFresh'
<1> DEFINE marker == [key |-> k, value |-> None, stale |-> FALSE]
           promise == [load |-> c, since |-> notified[k]]
<1>1. /\ UNCHANGED <<data, answers>>
      /\ waiting' = [waiting EXCEPT ![c] = promise]
      /\ loads' = [loads EXCEPT ![c] = marker]
      /\ loads[c] = None
  BY DEF StartLoad, Idle, database
<1>2. /\ loads \in [Clients -> Markers \cup {None}]
      /\ waiting \in [Clients -> Promises \cup {None}]
  BY DEF AInv, IInv, Types
<1>3. /\ marker.key = k /\ marker.value = None
      /\ promise.load = c /\ promise.since = notified[k]
  OBVIOUS
<1>4. marker # None
  <2>1. marker \in Markers
    BY DEF Markers
  <2> HIDE DEF marker
  <2> QED
    BY <2>1, NoneAssumption
<1> HIDE DEF marker, promise
<1>5. /\ loads'[c] = marker /\ waiting'[c] = promise
      /\ \A d \in Clients : d # c =>
           loads'[d] = loads[d] /\ waiting'[d] = waiting[d]
  BY <1>1, <1>2
<1>6. notified[k] <= data[k]
  BY DEF AInv, IInv, NoticeInv
<1>7. WaitInv'
  <2> SUFFICES ASSUME NEW d \in Clients, waiting'[d] # None
               PROVE  /\ loads'[waiting'[d].load] # None
                      /\ waiting'[d].since <= data[loads'[waiting'[d].load].key]
                      /\ loads'[waiting'[d].load].value # None =>
                           loads'[waiting'[d].load].value >= waiting'[d].since
    BY <1>1 DEF WaitInv
  <2>1. CASE d = c
    BY <1>3, <1>4, <1>5, <1>6, <2>1
  <2>2. CASE d # c
    <3>1. waiting'[d] = waiting[d]
      BY <1>5, <2>2
    <3>2. /\ loads[waiting[d].load] # None
          /\ waiting[d].since <= data[loads[waiting[d].load].key]
          /\ loads[waiting[d].load].value # None =>
               loads[waiting[d].load].value >= waiting[d].since
      BY <3>1 DEF AInv, WaitInv
    <3>3. waiting[d].load \in Clients
      BY <1>2, <3>1 DEF Promises
    <3>4. loads'[waiting[d].load] = loads[waiting[d].load]
      BY <1>1, <1>5, <3>2, <3>3
    <3> QED
      BY <3>1, <3>2, <3>4
  <2> QED
    BY <2>1, <2>2
<1> QED
  BY <1>1, <1>7 DEF AInv, AnswersFresh

\* What a query returns is at least what any of those who wait had seen announced.
LEMMA ReadAnswers ==
  ASSUME AInv, NEW c \in Clients, Read(c)
  PROVE  WaitInv' /\ AnswersFresh'
<1>1. /\ UNCHANGED <<data, waiting, answers>>
      /\ loads' = [loads EXCEPT ![c] = [loads[c] EXCEPT !.value = data[loads[c].key]]]
      /\ loads[c] # None
  BY DEF Read, database
<1>2. /\ loads \in [Clients -> Markers \cup {None}]
      /\ waiting \in [Clients -> Promises \cup {None}]
      /\ data \in [Keys -> Versions]
  BY DEF AInv, IInv, Types
<1>3. /\ loads'[c] \in Markers
      /\ loads'[c].key = loads[c].key /\ loads[c].key \in Keys
      /\ loads'[c].value = data[loads[c].key]
  BY <1>1, <1>2 DEF Markers
<1>4. loads'[c] # None
  BY <1>3, NoneAssumption
<1>5. WaitInv'
  <2> SUFFICES ASSUME NEW d \in Clients, waiting[d] # None
               PROVE  /\ loads'[waiting[d].load] # None
                      /\ waiting[d].since <= data[loads'[waiting[d].load].key]
                      /\ loads'[waiting[d].load].value # None =>
                           loads'[waiting[d].load].value >= waiting[d].since
    BY <1>1 DEF WaitInv
  <2>1. /\ loads[waiting[d].load] # None
        /\ waiting[d].since <= data[loads[waiting[d].load].key]
        /\ loads[waiting[d].load].value # None =>
             loads[waiting[d].load].value >= waiting[d].since
    BY DEF AInv, WaitInv
  <2>2. waiting[d].load \in Clients /\ waiting[d].since \in Versions
    BY <1>2 DEF Promises
  <2>3. CASE waiting[d].load = c
    <3>1. waiting[d].since <= data[loads[c].key]
      BY <2>1, <2>3
    <3>2. waiting[d].since \in Nat /\ data[loads[c].key] \in Nat
      BY <1>2, <1>3, <2>2, CacheAssumption, SMT DEF Versions
    <3>3. data[loads[c].key] >= waiting[d].since
      BY <3>1, <3>2, SMT
    <3> QED
      BY <1>3, <1>4, <2>3, <3>1, <3>3
  <2>4. CASE waiting[d].load # c
    BY <1>1, <1>2, <2>1, <2>2, <2>4
  <2> QED
    BY <2>3, <2>4
<1> QED
  BY <1>1, <1>5 DEF AInv, AnswersFresh

\* Those who waited for the load are answered with what it has read.
LEMMA EndLoadAnswers ==
  ASSUME AInv, NEW c \in Clients, NEW value, EndLoad(c, value),
         value = None \/ loads[c].value = value
  PROVE  WaitInv' /\ AnswersFresh'
<1> DEFINE released == {d \in Clients : waiting[d] # None /\ waiting[d].load = c}
<1>1. /\ UNCHANGED data
      /\ loads' = [loads EXCEPT ![c] = None]
      /\ waiting' = [d \in Clients |-> IF d \in released THEN None ELSE waiting[d]]
      /\ answers' = [d \in Clients |->
           IF d \notin released THEN answers[d]
           ELSE IF value = None THEN None
           ELSE [value |-> value, since |-> waiting[d].since]]
  BY DEF EndLoad, database
<1>2. /\ loads \in [Clients -> Markers \cup {None}]
      /\ waiting \in [Clients -> Promises \cup {None}]
  BY DEF AInv, IInv, Types
<1>3. WaitInv'
  <2> SUFFICES ASSUME NEW d \in Clients, waiting'[d] # None
               PROVE  /\ loads'[waiting'[d].load] # None
                      /\ waiting'[d].since <= data[loads'[waiting'[d].load].key]
                      /\ loads'[waiting'[d].load].value # None =>
                           loads'[waiting'[d].load].value >= waiting'[d].since
    BY <1>1 DEF WaitInv
  <2>1. waiting'[d] = waiting[d] /\ waiting[d].load # c
    BY <1>1
  <2>2. waiting[d].load \in Clients
    BY <1>2, <2>1 DEF Promises
  <2>3. loads'[waiting[d].load] = loads[waiting[d].load]
    BY <1>1, <1>2, <2>1, <2>2
  <2> QED
    BY <2>1, <2>3 DEF AInv, WaitInv
<1>4. AnswersFresh'
  <2> SUFFICES ASSUME NEW d \in Clients, answers'[d] # None
               PROVE  answers'[d].value >= answers'[d].since
    BY DEF AnswersFresh
  <2>1. CASE d \notin released
    BY <1>1, <2>1 DEF AInv, AnswersFresh
  <2>2. CASE d \in released
    <3>1. answers'[d] = [value |-> value, since |-> waiting[d].since] /\ value # None
      BY <1>1, <2>2
    <3>2. value >= waiting[d].since
      BY <2>2, <3>1 DEF AInv, WaitInv
    <3> QED
      BY <3>1, <3>2
  <2> QED
    BY <2>1, <2>2
<1> QED
  BY <1>3, <1>4

\* Of a cache that joins no marked load, AInv is inductive too.
LEMMA AnswersStep == ASSUME AInv, Next, IInv', JoinsStale = FALSE PROVE AInv'
<1>1. CASE Disconnect \/ Reconnect \/ Tick
  <2>1. UNCHANGED <<data, loads, waiting, answers>>
    BY <1>1 DEF Disconnect, Reconnect, Tick, database, cache
  <2> QED
    BY <2>1 DEF AInv, WaitInv, AnswersFresh
<1>2. CASE Handle
  <2>1. UNCHANGED <<data, waiting, answers>>
    BY <1>2 DEF Handle, Receive
  <2>2. \A c \in Clients : loads[c] # None =>
          loads'[c] # None /\ loads'[c].key = loads[c].key /\ loads'[c].value = loads[c].value
    BY <1>2, MarkingKeeps DEF AInv
  <2>3. data' \in [Keys -> Versions] /\ \A k \in Keys : data[k] <= data'[k]
    BY <2>1, CacheAssumption, SMT DEF AInv, IInv, Types, Versions
  <2> QED
    BY <2>1, <2>2, <2>3, WaitKept DEF AInv
<1>3. CASE \E K \in Scopes : Commit(K)
  <2>1. UNCHANGED <<loads, waiting, answers>>
    BY <1>3 DEF Commit
  <2>2. data' \in [Keys -> Versions] /\ \A k \in Keys : data[k] <= data'[k]
    BY <1>3, CacheAssumption, SMT DEF AInv, IInv, Types, Commit, Versions
  <2> QED
    BY <2>1, <2>2, WaitKept DEF AInv
<1>4. ASSUME NEW c \in Clients, Request(c) PROVE AInv'
  BY <1>4, HitAnswers, JoinAnswers, StartLoadAnswers DEF Request, AInv
<1>5. ASSUME NEW c \in Clients, Read(c) PROVE AInv'
  BY <1>5, ReadAnswers DEF AInv
<1>6. ASSUME NEW c \in Clients, Finish(c) \/ Fail(c) PROVE AInv'
  <2>1. \E value : EndLoad(c, value) /\ (value = None \/ loads[c].value = value)
    BY <1>6 DEF Finish, Fail
  <2> QED
    BY <2>1, EndLoadAnswers DEF AInv
<1> QED
  BY <1>1, <1>2, <1>3, <1>4, <1>5, <1>6 DEF Next

\* A request is never answered with data older than what had been notified when
\* it came, by a cache whose load joins no load that is marked stale.
THEOREM AnswersAreFresh ==
  ASSUME JoinsStale = FALSE
  PROVE  Spec => []AnswersFresh
<1>1. Init => AInv
  BY InitHolds DEF Init, AInv, WaitInv, AnswersFresh
<1>2. AInv /\ [Next]_vars /\ IInv' => AInv'
  <2>1. AInv /\ UNCHANGED vars => AInv'
    BY DEF AInv, IInv, Types, NoticeInv, RegisterInv, LoadInv, CacheInv, WaitInv,
           AnswersFresh, vars
  <2> QED
    BY <2>1, AnswersStep
<1>3. AInv => AnswersFresh
  BY DEF AInv
<1> QED
  BY <1>1, <1>2, <1>3, Invariance, PTL DEF Spec
-----------------------------------------------------------------------------
(* The memory budget.  The order lists every cached key once, and the byte  *)
(* account is the bytes of the entries it lists.  A put lists its key at    *)
(* the end, and that is right only because the key has no entry then: a     *)
(* load that is not marked began with a miss, which dropped the entry, and  *)
(* only the load registered for a key may put one.                          *)

\* A list without repetition, and what it lists.
Distinct(s) == \A i, j \in DOMAIN s : s[i] = s[j] => i = j
Listed(s) == {s[i] : i \in DOMAIN s}

\* The bytes of the entries of K in e.
Pieces(e, K) == UNION {{k} \X (1..e[k].bytes) : k \in K}
Held(e, K) == Cardinality(Pieces(e, K))

\* A list is as long as what it lists is large.
LEMMA ListedOnce ==
  ASSUME NEW S, NEW s \in Seq(S), Distinct(s)
  PROVE  /\ IsFiniteSet(Listed(s)) /\ Cardinality(Listed(s)) = Len(s)
         /\ Listed(s) \subseteq S
<1>1. /\ Len(s) \in Nat /\ DOMAIN s = 1..Len(s) /\ s \in [1..Len(s) -> S]
  BY LenProperties
<1>2. s \in Injection(1..Len(s), Listed(s)) /\ s \in Surjection(1..Len(s), Listed(s))
  BY <1>1 DEF Injection, Surjection, IsInjective, Distinct, Listed
<1>3. IsFiniteSet(1..Len(s)) /\ Cardinality(1..Len(s)) = Len(s)
  BY <1>1, FS_Interval, SMT
<1> QED
  BY <1>1, <1>2, <1>3, FS_Surjection DEF Listed

\* Filtering a list keeps its order: the n-th of what is left stands at the
\* n-th of the places that are kept.
LEMMA KeptPlaces ==
  ASSUME NEW P, IsFiniteSet(P), P \subseteq Nat
  PROVE  /\ \A n \in 1..Cardinality(P) : Nth(P, n) \in P
         /\ \A n, m \in 1..Cardinality(P) : Nth(P, n) = Nth(P, m) => n = m
         /\ \A i \in P : \E n \in 1..Cardinality(P) : Nth(P, n) = i
<1> DEFINE upTo(i) == {j \in P : j <= i}
           rank == [i \in P |-> Cardinality(upTo(i))]
<1>1. Cardinality(P) \in Nat
  BY FS_CardinalityType
<1>2. \A i \in P : IsFiniteSet(upTo(i)) /\ Cardinality(upTo(i)) \in 1..Cardinality(P)
  <2> SUFFICES ASSUME NEW i \in P
               PROVE  IsFiniteSet(upTo(i)) /\ Cardinality(upTo(i)) \in 1..Cardinality(P)
    OBVIOUS
  <2>1. upTo(i) \in SUBSET P
    OBVIOUS
  <2>2. IsFiniteSet(upTo(i)) /\ Cardinality(upTo(i)) <= Cardinality(P)
    BY <2>1, FS_Subset
  <2>3. i \in upTo(i)
    BY SMT
  <2>4. Cardinality(upTo(i)) # 0
    BY <2>2, <2>3, FS_EmptySet
  <2>5. Cardinality(upTo(i)) \in Nat
    BY <2>2, FS_CardinalityType
  <2> HIDE DEF upTo
  <2> QED
    BY <1>1, <2>2, <2>4, <2>5, SMT
<1>3. \A i, j \in P : i < j => rank[i] < rank[j]
  <2> SUFFICES ASSUME NEW i \in P, NEW j \in P, i < j
               PROVE  Cardinality(upTo(i)) < Cardinality(upTo(j))
    OBVIOUS
  <2>1. upTo(i) \in SUBSET upTo(j) /\ j \in upTo(j) /\ j \notin upTo(i)
    <3>1. i \in Nat /\ j \in Nat
      OBVIOUS
    <3>2. \A l \in P : l <= i => l <= j
      BY <3>1, SMT
    <3>3. j <= j /\ ~(j <= i)
      BY <3>1, SMT
    <3> QED
      BY <3>2, <3>3
  <2>2. Cardinality(upTo(i)) <= Cardinality(upTo(j)) /\ Cardinality(upTo(i)) # Cardinality(upTo(j))
    <3> HIDE DEF upTo
    <3> QED
      BY <1>2, <2>1, FS_Subset
  <2>3. Cardinality(upTo(i)) \in Nat /\ Cardinality(upTo(j)) \in Nat
    BY <1>2, FS_CardinalityType
  <2> HIDE DEF upTo
  <2> QED
    BY <2>2, <2>3, SMT
<1>4. rank \in [P -> 1..Cardinality(P)]
  BY <1>2
<1>5. \A i, j \in P : rank[i] = rank[j] => i = j
  <2> SUFFICES ASSUME NEW i \in P, NEW j \in P, rank[i] = rank[j], i # j PROVE FALSE
    OBVIOUS
  <2>1. i < j \/ j < i
    BY SMT
  <2>2. rank[i] \in Nat /\ rank[j] \in Nat
    BY <1>1, <1>4, SMT
  <2> HIDE DEF rank
  <2> QED
    BY <1>3, <2>1, <2>2, SMT
<1>6. rank \in Injection(P, 1..Cardinality(P))
  BY <1>4, <1>5 DEF Injection, IsInjective
<1>7. IsFiniteSet(1..Cardinality(P)) /\ Cardinality(1..Cardinality(P)) = Cardinality(P)
  BY <1>1, FS_Interval, SMT
<1>8. rank \in Surjection(P, 1..Cardinality(P))
  <2> HIDE DEF rank
  <2> QED
    BY <1>6, <1>7, FS_Injection
<1>9. \A n \in 1..Cardinality(P) : Nth(P, n) \in P /\ rank[Nth(P, n)] = n
  <2> SUFFICES ASSUME NEW n \in 1..Cardinality(P)
               PROVE  Nth(P, n) \in P /\ Cardinality(upTo(Nth(P, n))) = n
    OBVIOUS
  <2>1. \E i \in P : Cardinality(upTo(i)) = n
    BY <1>8 DEF Surjection
  <2> QED
    BY <2>1 DEF Nth
<1> HIDE DEF rank
<1> QED
  BY <1>4, <1>5, <1>9

LEMMA WithoutIs ==
  ASSUME NEW S, NEW s \in Seq(S), Distinct(s), NEW K
  PROVE  /\ Without(s, K) \in Seq(S)
         /\ Distinct(Without(s, K))
         /\ Listed(Without(s, K)) = Listed(s) \ K
<1> DEFINE kept == {i \in DOMAIN s : s[i] \notin K}
           m == Cardinality(kept)
           t == Without(s, K)
<1>1. Len(s) \in Nat /\ DOMAIN s = 1..Len(s) /\ \A i \in DOMAIN s : s[i] \in S
  BY LenProperties
<1>2. IsFiniteSet(kept) /\ kept \subseteq Nat
  <2>1. IsFiniteSet(1..Len(s)) /\ 1..Len(s) \subseteq Nat
    BY <1>1, FS_Interval, SMT
  <2> QED
    BY <1>1, <2>1, FS_Subset
<1>3. m \in Nat
  BY <1>2, FS_CardinalityType
<1>4. t = [n \in 1..m |-> s[Nth(kept, n)]]
  BY DEF Without
<1>5. /\ \A n \in 1..m : Nth(kept, n) \in kept
      /\ \A n, o \in 1..m : Nth(kept, n) = Nth(kept, o) => n = o
      /\ \A i \in kept : \E n \in 1..m : Nth(kept, n) = i
  <2> HIDE DEF kept
  <2> QED
    BY <1>2, KeptPlaces
<1>6. \A n \in 1..m : /\ Nth(kept, n) \in DOMAIN s /\ s[Nth(kept, n)] \notin K
                      /\ s[Nth(kept, n)] \in S
  BY <1>1, <1>5
<1>7. DOMAIN t = 1..m /\ \A n \in 1..m : t[n] = s[Nth(kept, n)]
  BY <1>4
<1>8. t \in Seq(S)
  <2> HIDE DEF kept, m, t
  <2>1. t \in [1..m -> S]
    BY <1>4, <1>6
  <2> QED
    BY <1>3, <2>1, SeqDef
<1>9. Distinct(t)
  <2> SUFFICES ASSUME NEW i \in DOMAIN t, NEW j \in DOMAIN t, t[i] = t[j] PROVE i = j
    BY DEF Distinct
  <2>1. s[Nth(kept, i)] = s[Nth(kept, j)]
    BY <1>7
  <2> HIDE DEF kept, m, t
  <2> QED
    BY <1>5, <1>6, <1>7, <2>1 DEF Distinct
<1>10. Listed(t) = Listed(s) \ K
  <2>1. ASSUME NEW k \in Listed(t) PROVE k \in Listed(s) \ K
    BY <1>6, <1>7, <2>1 DEF Listed
  <2>2. ASSUME NEW k \in Listed(s) \ K PROVE k \in Listed(t)
    <3>1. PICK i \in DOMAIN s : s[i] = k
      BY DEF Listed
    <3>2. i \in kept
      BY <3>1
    <3> HIDE DEF kept, m, t
    <3> QED
      BY <1>5, <1>7, <3>1, <3>2 DEF Listed
  <2> QED
    BY <2>1, <2>2
<1> QED
  BY <1>8, <1>9, <1>10

LEMMA AppendIs ==
  ASSUME NEW S, NEW s \in Seq(S), Distinct(s), NEW k \in S, k \notin Listed(s)
  PROVE  /\ Append(s, k) \in Seq(S)
         /\ Distinct(Append(s, k))
         /\ Listed(Append(s, k)) = Listed(s) \cup {k}
<1> DEFINE t == Append(s, k)
<1>1. Len(s) \in Nat /\ DOMAIN s = 1..Len(s)
  BY LenProperties
<1>2. /\ t \in Seq(S) /\ Len(t) = Len(s) + 1 /\ t[Len(s) + 1] = k
      /\ \A i \in 1..Len(s) : t[i] = s[i]
  BY AppendProperties
<1>3. DOMAIN t = 1..(Len(s) + 1)
  BY <1>2, LenProperties
<1>4. \A i \in 1..Len(s) : s[i] # k
  BY <1>1 DEF Listed
<1> HIDE DEF t
<1>5. Distinct(t)
  BY <1>1, <1>2, <1>3, <1>4, SMT DEF Distinct
<1>6. \A i \in DOMAIN t : i \in DOMAIN s \/ i = Len(s) + 1
  BY <1>1, <1>3, SMT
<1>7. \A i \in DOMAIN s : i \in DOMAIN t
  BY <1>1, <1>3, SMT
<1>8. Len(s) + 1 \in DOMAIN t
  BY <1>1, <1>3, SMT
<1>9. Listed(t) = Listed(s) \cup {k}
  BY <1>1, <1>2, <1>6, <1>7, <1>8 DEF Listed
<1> QED
  BY <1>2, <1>5, <1>9 DEF t

LEMMA PiecesFinite ==
  ASSUME NEW K, IsFiniteSet(K), NEW e, \A k \in K : e[k].bytes \in Nat
  PROVE  IsFiniteSet(Pieces(e, K)) /\ Held(e, K) \in Nat
<1> DEFINE piece == [k \in K |-> {k} \X (1..e[k].bytes)]
           all == {{k} \X (1..e[k].bytes) : k \in K}
<1>1. piece \in Surjection(K, all)
  BY DEF Surjection
<1>2. IsFiniteSet(all)
  BY <1>1, FS_Surjection
<1>3. \A T \in all : IsFiniteSet(T)
  <2> SUFFICES ASSUME NEW k \in K PROVE IsFiniteSet({k} \X (1..e[k].bytes))
    OBVIOUS
  <2>1. IsFiniteSet(1..e[k].bytes)
    <3>1. 1 \in Int /\ e[k].bytes \in Int
      OBVIOUS
    <3> QED
      BY <3>1, FS_Interval
  <2> QED
    BY <2>1, FS_Singleton, FS_Product
<1>4. IsFiniteSet(Pieces(e, K))
  BY <1>2, <1>3, FS_UNION DEF Pieces
<1> QED
  BY <1>4, FS_CardinalityType DEF Held

\* The bytes of two sets of entries add up.
LEMMA HeldAdds ==
  ASSUME NEW K, IsFiniteSet(K), NEW J, IsFiniteSet(J), K \cap J = {},
         NEW e, \A k \in K \cup J : e[k].bytes \in Nat
  PROVE  Held(e, K \cup J) = Held(e, K) + Held(e, J)
<1>1. IsFiniteSet(Pieces(e, K)) /\ IsFiniteSet(Pieces(e, J))
  BY PiecesFinite
<1>2. Pieces(e, K \cup J) = Pieces(e, K) \cup Pieces(e, J)
  BY DEF Pieces
<1>3. Pieces(e, K) \cap Pieces(e, J) = {}
  <2> SUFFICES ASSUME NEW p \in Pieces(e, K), p \in Pieces(e, J) PROVE FALSE
    OBVIOUS
  <2>1. PICK k \in K : p \in {k} \X (1..e[k].bytes)
    BY DEF Pieces
  <2>2. PICK j \in J : p \in {j} \X (1..e[j].bytes)
    BY DEF Pieces
  <2>3. p[1] = k /\ p[1] = j
    BY <2>1, <2>2
  <2> QED
    BY <2>3
<1>4. Held(e, K) \in Nat /\ Held(e, J) \in Nat
  BY PiecesFinite
<1>5. Held(e, K \cup J) = Held(e, K) + Held(e, J) - Cardinality({})
  <2> DEFINE p == Pieces(e, K)
             q == Pieces(e, J)
  <2>1. Held(e, K \cup J) = Cardinality(p \cup q) /\ p \cap q = {}
    BY <1>2, <1>3 DEF Held
  <2>2. IsFiniteSet(p) /\ IsFiniteSet(q)
    BY <1>1
  <2>3. Held(e, K) = Cardinality(p) /\ Held(e, J) = Cardinality(q)
    BY DEF Held
  <2> HIDE DEF p, q
  <2>4. Cardinality(p \cup q) = Cardinality(p) + Cardinality(q) - Cardinality(p \cap q)
    BY <2>2, FS_Union
  <2> QED
    BY <2>1, <2>3, <2>4
<1> QED
  BY <1>4, <1>5, FS_EmptySet, SMT

LEMMA HeldSame ==
  ASSUME NEW K, NEW e, NEW f, \A k \in K : e[k].bytes = f[k].bytes
  PROVE  Held(e, K) = Held(f, K)
<1>1. Pieces(e, K) = Pieces(f, K)
  BY DEF Pieces
<1> QED
  BY <1>1 DEF Held

LEMMA HeldOne ==
  ASSUME NEW k, NEW e, e[k].bytes \in Nat
  PROVE  Held(e, {k}) = e[k].bytes
<1> DEFINE n == e[k].bytes
<1>1. Pieces(e, {k}) = {k} \X (1..n)
  BY DEF Pieces
<1>2. IsFiniteSet(1..n) /\ Cardinality(1..n) = n
  <2>1. n \in Nat
    OBVIOUS
  <2> HIDE DEF n
  <2>2. n \in Int /\ 1 \in Int
    BY <2>1, SMT
  <2>3. IsFiniteSet(1..n) /\ Cardinality(1..n) = IF 1 > n THEN 0 ELSE n - 1 + 1
    BY <2>2, FS_Interval
  <2> QED
    BY <2>1, <2>3, SMT
<1>3. IsFiniteSet({k}) /\ Cardinality({k}) = 1
  BY FS_Singleton
<1>4. Cardinality({k} \X (1..n)) = Cardinality({k}) * Cardinality(1..n)
  <2> HIDE DEF n
  <2> QED
    BY <1>2, <1>3, FS_Product
<1> QED
  BY <1>1, <1>2, <1>3, <1>4, SMT DEF Held

LEMMA HeldNone == \A e : Held(e, {}) = 0
<1>1. \A e : Pieces(e, {}) = {}
  BY DEF Pieces
<1> QED
  BY <1>1, FS_EmptySet DEF Held

\* Taking a part of the entries away takes their bytes away.
LEMMA HeldWithout ==
  ASSUME NEW K, IsFiniteSet(K), NEW J \in SUBSET K, NEW e, \A k \in K : e[k].bytes \in Nat
  PROVE  /\ Held(e, K \ J) = Held(e, K) - Held(e, J)
         /\ Held(e, K) \in Nat /\ Held(e, J) \in Nat /\ Held(e, K \ J) \in Nat
<1>1. IsFiniteSet(J) /\ IsFiniteSet(K \ J)
  BY FS_Subset
<1>2. (K \ J) \cup J = K /\ (K \ J) \cap J = {}
  OBVIOUS
<1>3. Held(e, K) = Held(e, K \ J) + Held(e, J)
  BY <1>1, <1>2, HeldAdds
<1>4. Held(e, K) \in Nat /\ Held(e, J) \in Nat /\ Held(e, K \ J) \in Nat
  BY <1>1, PiecesFinite
<1> QED
  BY <1>3, <1>4, SMT

\* The order lists the cached keys once, the account is their bytes, and both
\* limits hold.
BudgetInv ==
  /\ recency \in Seq(Keys) /\ Distinct(recency) /\ Listed(recency) = Cached
  /\ totalBytes = BytesOf(Cached) /\ totalBytes <= MaxBytes
  /\ Cardinality(Cached) <= MaxEntries

\* What a load will put has no entry yet.
PutInv ==
  \A c \in Clients : loads[c] # None /\ ~loads[c].stale => entries[loads[c].key] = None

BInv == IInv /\ BudgetInv /\ PutInv

LEMMA CachedFacts ==
  ASSUME IInv, BudgetInv
  PROVE  /\ IsFiniteSet(Cached) /\ Cardinality(Cached) = Len(recency) /\ Len(recency) \in Nat
         /\ \A k \in Cached : entries[k] \in Entries /\ entries[k].bytes \in Nat
         /\ totalBytes = Held(entries, Cached) /\ totalBytes \in Nat
<1>1. IsFiniteSet(Cached) /\ Cardinality(Cached) = Len(recency) /\ Len(recency) \in Nat
  BY ListedOnce, LenProperties DEF BudgetInv
<1>2. \A k \in Cached : entries[k] \in Entries
  BY DEF IInv, Types, Cached
<1>3. \A k \in Cached : entries[k].bytes \in Nat
  BY <1>2 DEF Entries
<1>4. totalBytes = Held(entries, Cached)
  BY DEF BudgetInv, BytesOf, Held, Pieces
<1>5. Held(entries, Cached) \in Nat
  BY <1>1, <1>3, PiecesFinite
<1> QED
  BY <1>1, <1>2, <1>3, <1>4, <1>5

\* Entries that go take their bytes with them.
LEMMA DropBudget ==
  ASSUME IInv, BudgetInv, NEW K, Drop(K)
  PROVE  /\ BudgetInv'
         /\ \A k \in Keys : k \in K \/ entries[k] = None => entries'[k] = None
<1>1. /\ entries' = [k \in Keys |-> IF k \in K THEN None ELSE entries[k]]
      /\ recency' = Without(recency, K)
      /\ totalBytes' = totalBytes - Held(entries, K \cap Cached)
  BY DEF Drop, BytesOf, Held, Pieces
<1>2. /\ IsFiniteSet(Cached) /\ Cardinality(Cached) \in Nat
      /\ \A k \in Cached : entries[k].bytes \in Nat
      /\ totalBytes = Held(entries, Cached) /\ totalBytes \in Nat
  BY CachedFacts
<1>3. Cached' = Cached \ K
  BY <1>1 DEF Cached
<1>4. /\ recency' \in Seq(Keys) /\ Distinct(recency') /\ Listed(recency') = Cached'
  BY <1>1, <1>3, WithoutIs DEF BudgetInv
<1>5. Held(entries', Cached') = Held(entries, Cached \ K)
  <2>1. \A k \in Cached \ K : entries'[k] = entries[k]
    BY <1>1 DEF Cached
  <2> QED
    BY <1>3, <2>1, HeldSame
<1>6. /\ Held(entries, Cached \ K) = totalBytes - Held(entries, K \cap Cached)
      /\ Held(entries, K \cap Cached) \in Nat
  <2>1. Cached \ (K \cap Cached) = Cached \ K /\ K \cap Cached \in SUBSET Cached
    OBVIOUS
  <2> QED
    BY <1>2, <2>1, HeldWithout
<1>7. totalBytes' = Held(entries', Cached') /\ totalBytes' <= MaxBytes
  <2>1. totalBytes <= MaxBytes /\ MaxBytes \in Nat
    BY CacheAssumption DEF BudgetInv
  <2>2. totalBytes - Held(entries, K \cap Cached) <= MaxBytes
    BY <1>2, <1>6, <2>1, SMT
  <2> QED
    BY <1>1, <1>5, <1>6, <2>2
<1>8. Cardinality(Cached') <= MaxEntries
  <2>1. Cardinality(Cached \ K) <= Cardinality(Cached) /\ Cardinality(Cached \ K) \in Nat
    BY <1>2, FS_Subset, FS_CardinalityType
  <2>2. Cardinality(Cached) <= MaxEntries /\ MaxEntries \in Nat
    BY CacheAssumption DEF BudgetInv
  <2> QED
    BY <1>2, <1>3, <2>1, <2>2, SMT
<1>9. BudgetInv'
  BY <1>4, <1>7, <1>8 DEF BudgetInv, BytesOf, Held, Pieces
<1> QED
  BY <1>1, <1>9

\* There is always room in the end: with every entry gone.
LEMMA LeastOfNats ==
  ASSUME NEW S \in SUBSET Nat, S # {}
  PROVE  \E m \in S : \A l \in S : m <= l
<1>1. PICK m \in S : \A l \in S : <<l, m>> \notin OpToRel(<, Nat)
  BY WFMin, NatLessThanWellFounded, Zenon
<1>2. \A l, n \in Nat : l < n => <<l, n>> \in OpToRel(<, Nat)
  BY Zenon DEF OpToRel
<1>3. ASSUME NEW l \in S PROVE m <= l
  <2>1. l \in Nat /\ m \in Nat /\ ~(l < m)
    BY <1>1, <1>2
  <2> QED
    BY <2>1, SMT
<1> QED
  BY <1>3

LEMMA EvictedIs ==
  ASSUME IInv, BudgetInv, NEW bytes \in Nat, bytes <= MaxBytes
  PROVE  \E n \in 0..Len(recency) : /\ MakesRoom(n, bytes)
                                    /\ Evicted(bytes) = {recency[i] : i \in 1..n}
<1> DEFINE room == {m \in 0..Len(recency) : MakesRoom(m, bytes)}
           Least(m) == MakesRoom(m, bytes) /\ \A l \in 0..(m - 1) : ~MakesRoom(l, bytes)
<1>1. Len(recency) \in Nat
  BY CachedFacts
<1>2. Len(recency) \in room
  BY <1>1, CacheAssumption, SMT DEF MakesRoom
<1>3. room \in SUBSET Nat /\ room # {}
  BY <1>1, <1>2, SMT
<1>4. PICK m \in room : \A l \in room : m <= l
  <2> HIDE DEF room
  <2> QED
    BY <1>3, LeastOfNats
<1>5. m \in 0..Len(recency) /\ MakesRoom(m, bytes)
  BY <1>4
<1>6. ASSUME NEW l \in 0..(m - 1), MakesRoom(l, bytes) PROVE FALSE
  <2>1. l \in 0..Len(recency) /\ l \in Nat /\ m \in Nat /\ l < m
    BY <1>1, <1>5, SMT
  <2>2. m <= l
    BY <1>4, <1>6, <2>1
  <2> QED
    BY <2>1, <2>2, SMT
<1>7. \E n \in 0..Len(recency) : Least(n)
  BY <1>5, <1>6
<1> DEFINE n == CHOOSE o \in 0..Len(recency) : Least(o)
<1>8. n \in 0..Len(recency) /\ Least(n)
  BY <1>7
<1>9. Evicted(bytes) = {recency[i] : i \in 1..n}
  BY DEF Evicted
<1> HIDE DEF n
<1> QED
  BY <1>8, <1>9

\* A put pays for its bytes with the entries it evicts.
LEMMA PutBudget ==
  ASSUME IInv, BudgetInv, NEW k \in Keys, NEW value \in Versions, entries[k] = None,
         Put(k, value)
  PROVE  /\ BudgetInv'
         /\ \A j \in Keys : j # k /\ entries[j] = None => entries'[j] = None
<1> DEFINE bytes == Size[k][value]
           entry == [value |-> value, bytes |-> bytes, age |-> 0]
<1>1. CASE bytes > MaxBytes
  <2>1. UNCHANGED cache
    BY <1>1 DEF Put
  <2> QED
    BY <2>1 DEF cache, BudgetInv, BytesOf, Cached
<1>2. CASE ~(bytes > MaxBytes)
  <2>1. bytes \in Nat /\ bytes <= MaxBytes /\ MaxBytes \in Nat
    BY <1>2, CacheAssumption, SMT
  <2>2. PICK n \in 0..Len(recency) : /\ MakesRoom(n, bytes)
                                     /\ Evicted(bytes) = {recency[i] : i \in 1..n}
    <3> HIDE DEF bytes
    <3> QED
      BY <2>1, EvictedIs
  <2> DEFINE gone == {recency[i] : i \in 1..n}
  <2>3. /\ entries' = [j \in Keys |-> IF j = k THEN entry
                                      ELSE IF j \in gone THEN None ELSE entries[j]]
        /\ recency' = Append(Without(recency, gone), k)
        /\ totalBytes' = totalBytes - Held(entries, gone) + bytes
    BY <1>2, <2>2 DEF Put, Insert, BytesOf, Held, Pieces
  <2>4. /\ IsFiniteSet(Cached) /\ Cardinality(Cached) = Len(recency) /\ Len(recency) \in Nat
        /\ \A j \in Cached : entries[j].bytes \in Nat
        /\ totalBytes = Held(entries, Cached) /\ totalBytes \in Nat
    BY CachedFacts
  <2>5. /\ recency \in Seq(Keys) /\ Distinct(recency) /\ Listed(recency) = Cached
        /\ DOMAIN recency = 1..Len(recency)
    BY LenProperties DEF BudgetInv
  <2>6. /\ gone \subseteq Cached /\ n \in Nat /\ n <= Len(recency)
        /\ \A i \in 1..n : i \in DOMAIN recency
    <3>1. n \in Nat /\ n <= Len(recency) /\ \A i \in 1..n : i \in 1..Len(recency)
      BY <2>4, SMT
    <3> QED
      BY <2>5, <3>1 DEF Listed
  <2>7. IsFiniteSet(gone) /\ Cardinality(gone) = n
    <3> DEFINE f == [i \in 1..n |-> recency[i]]
    <3>1. f \in Injection(1..n, gone) /\ f \in Surjection(1..n, gone)
      BY <2>5, <2>6 DEF Injection, Surjection, IsInjective, Distinct
    <3>2. IsFiniteSet(1..n) /\ Cardinality(1..n) = n
      <4>1. 1 \in Int /\ n \in Int
        BY <2>6
      <4>2. IsFiniteSet(1..n) /\ Cardinality(1..n) = IF 1 > n THEN 0 ELSE n - 1 + 1
        BY <4>1, FS_Interval
      <4> QED
        BY <2>6, <4>2, SMT
    <3> HIDE DEF f, gone
    <3> QED
      BY <3>1, <3>2, FS_Surjection
  <2>8. k \notin Cached /\ k \notin gone
    BY <2>6 DEF Cached
  <2>9. entry # None /\ entry.bytes = bytes
    <3>1. entry.bytes = bytes /\ entry \in Entries
      BY <2>1, CacheAssumption, SMT DEF Entries
    <3> HIDE DEF entry
    <3> QED
      BY <3>1, NoneAssumption
  <2> HIDE DEF gone, bytes, entry
  <2>10. Cached' = (Cached \ gone) \cup {k}
    BY <2>3, <2>8, <2>9 DEF Cached
  <2>11. /\ recency' \in Seq(Keys) /\ Distinct(recency') /\ Listed(recency') = Cached'
    <3> DEFINE t == Without(recency, gone)
    <3>1. t \in Seq(Keys) /\ Distinct(t) /\ Listed(t) = Cached \ gone
      BY <2>5, WithoutIs
    <3>2. k \notin Listed(t)
      BY <2>8, <3>1
    <3>3. recency' = Append(t, k)
      BY <2>3
    <3> HIDE DEF t
    <3> QED
      BY <2>10, <3>1, <3>2, <3>3, AppendIs
  <2>12. /\ Held(entries, Cached \ gone) = totalBytes - Held(entries, gone)
         /\ Held(entries, gone) \in Nat /\ Held(entries, Cached \ gone) \in Nat
    BY <2>4, <2>6, HeldWithout
  <2>13. Held(entries', Cached') = Held(entries, Cached \ gone) + bytes
    <3>1. /\ IsFiniteSet(Cached \ gone) /\ IsFiniteSet({k})
          /\ (Cached \ gone) \cap {k} = {}
      <4>1. Cached \ gone \in SUBSET Cached
        OBVIOUS
      <4>2. IsFiniteSet(Cached \ gone)
        BY <2>4, <4>1, FS_Subset
      <4> QED
        BY <2>8, <4>2, FS_Singleton
    <3>2. \A j \in Cached \ gone : entries'[j] = entries[j]
      BY <2>3, <2>8 DEF Cached
    <3>3. entries'[k].bytes = bytes
      BY <2>3, <2>9
    <3>4. \A j \in (Cached \ gone) \cup {k} : entries'[j].bytes \in Nat
      BY <2>1, <2>4, <3>2, <3>3
    <3>5. Held(entries', (Cached \ gone) \cup {k}) =
            Held(entries', Cached \ gone) + Held(entries', {k})
      BY <3>1, <3>4, HeldAdds
    <3>6. Held(entries', Cached \ gone) = Held(entries, Cached \ gone)
      BY <3>2, HeldSame
    <3>7. Held(entries', {k}) = bytes
      BY <2>1, <3>3, HeldOne
    <3> QED
      BY <2>10, <3>5, <3>6, <3>7
  <2>14. totalBytes' = Held(entries', Cached')
    BY <2>1, <2>3, <2>4, <2>12, <2>13, SMT
  <2>15. totalBytes' <= MaxBytes
    <3>1. n = Len(recency) \/ totalBytes - Held(entries, gone) + bytes <= MaxBytes
      BY <2>2 DEF MakesRoom, BytesOf, Held, Pieces, gone
    <3>2. CASE n = Len(recency)
      <4>1. gone = Cached
        <5>1. gone \in SUBSET Cached /\ Cardinality(gone) = Cardinality(Cached)
          BY <2>4, <2>6, <2>7, <3>2
        <5> QED
          BY <2>4, <5>1, FS_Subset
      <4> QED
        BY <2>1, <2>3, <2>4, <4>1, SMT
    <3> QED
      BY <2>3, <3>1, <3>2
  <2>16. Cardinality(Cached') <= MaxEntries
    <3>1. Cardinality(Cached \ gone) = Len(recency) - n /\ IsFiniteSet(Cached \ gone)
      <4>1. Cached \cap gone = gone
        BY <2>6
      <4>2. /\ IsFiniteSet(Cached \ gone)
            /\ Cardinality(Cached \ gone) = Cardinality(Cached) - Cardinality(Cached \cap gone)
        BY <2>4, FS_Difference
      <4> QED
        BY <2>4, <2>7, <4>1, <4>2
    <3>2. Cardinality(Cached') = Len(recency) - n + 1
      BY <2>8, <2>10, <3>1, FS_AddElement
    <3>3. Len(recency) - n < MaxEntries /\ MaxEntries \in Nat
      BY <2>2, CacheAssumption DEF MakesRoom
    <3> QED
      BY <2>4, <2>6, <3>2, <3>3, SMT
  <2>17. BudgetInv'
    BY <2>11, <2>14, <2>15, <2>16 DEF BudgetInv, BytesOf, Held, Pieces
  <2> QED
    BY <2>3, <2>17
<1> QED
  BY <1>1, <1>2

LEMMA InitBudget == Init => BudgetInv /\ PutInv
<1> SUFFICES ASSUME Init PROVE BudgetInv /\ PutInv
  OBVIOUS
<1>1. Cached = {} /\ totalBytes = 0 /\ recency = << >>
  BY DEF Init, Cached
<1>2. recency \in Seq(Keys) /\ Distinct(recency) /\ Listed(recency) = Cached
  BY <1>1, EmptySeq DEF Distinct, Listed
<1>3. BytesOf(Cached) = 0
  BY <1>1, HeldNone DEF BytesOf, Held, Pieces
<1>4. Cardinality(Cached) = 0
  BY <1>1, FS_EmptySet
<1>5. 0 <= MaxBytes /\ 0 <= MaxEntries
  BY CacheAssumption, SMT
<1>6. PutInv
  BY DEF Init, PutInv
<1> QED
  BY <1>1, <1>2, <1>3, <1>4, <1>5, <1>6 DEF BudgetInv

\* The caches and the loads stay: so does the account.
LEMMA CacheSame ==
  ASSUME BudgetInv, PutInv, UNCHANGED <<cache, loads>>
  PROVE  BudgetInv' /\ PutInv'
BY DEF cache, BudgetInv, PutInv, BytesOf, Cached

\* An entry that grows older is as large as before.
LEMMA TickBudget ==
  ASSUME IInv, BudgetInv, PutInv, Tick
  PROVE  BudgetInv' /\ PutInv'
<1>1. /\ entries' = [k \in Keys |-> IF k \in Cached /\ ~Expired(k)
                                    THEN [entries[k] EXCEPT !.age = @ + 1]
                                    ELSE entries[k]]
      /\ UNCHANGED <<recency, totalBytes, loads>>
  BY DEF Tick
<1>2. entries' \in [Keys -> Entries \cup {None}]
  BY TickHolds DEF IInv, Types
<1>3. \A k \in Cached : entries'[k] # None /\ entries'[k].bytes = entries[k].bytes
  <2> SUFFICES ASSUME NEW k \in Cached
               PROVE  entries'[k] # None /\ entries'[k].bytes = entries[k].bytes
    OBVIOUS
  <2>1. entries[k] \in Entries /\ entries[k] # None /\ k \in Keys
    BY CachedFacts DEF Cached
  <2>2. CASE ~Expired(k)
    <3>1. entries'[k] = [entries[k] EXCEPT !.age = entries[k].age + 1]
      BY <1>1, <2>1, <2>2
    <3>2. entries'[k] # None
      <4>1. ~(entries[k].age >= TTL) /\ TTL \in Nat
        BY <2>2, CacheAssumption DEF Expired
      <4>2. entries[k].age + 1 \in 0..TTL
        BY <2>1, <4>1, SMT DEF Entries
      <4>3. entries'[k] \in Entries
        BY <2>1, <3>1, <4>2 DEF Entries
      <4> QED
        BY <4>3, NoneAssumption
    <3> QED
      BY <2>1, <3>1, <3>2 DEF Entries
  <2>3. CASE Expired(k)
    BY <1>1, <2>1, <2>3
  <2> QED
    BY <2>2, <2>3
<1>4. \A k \in Keys : entries[k] = None => entries'[k] = None
  BY <1>1 DEF Cached
<1>5. Cached' = Cached
  BY <1>3, <1>4 DEF Cached
<1>6. Held(entries', Cached) = Held(entries, Cached)
  BY <1>3, HeldSame
<1>7. BudgetInv'
  BY <1>1, <1>5, <1>6 DEF BudgetInv, BytesOf, Held, Pieces
<1>8. PutInv'
  <2>1. \A c \in Clients : loads[c] # None => loads[c].key \in Keys
    BY DEF IInv, Types, Markers
  <2> QED
    BY <1>1, <1>4, <2>1 DEF PutInv
<1> QED
  BY <1>7, <1>8

LEMMA HandleBudget ==
  ASSUME IInv, BudgetInv, PutInv, Handle
  PROVE  BudgetInv' /\ PutInv'
<1>1. PICK K : K = Head(notices).keys
  OBVIOUS
<1>2. Drop(K)
  BY <1>1 DEF Handle, Receive
<1>3. /\ BudgetInv'
      /\ \A k \in Keys : entries[k] = None => entries'[k] = None
  BY <1>2, DropBudget
<1>4. PutInv'
  <2> SUFFICES ASSUME NEW c \in Clients, loads'[c] # None, ~loads'[c].stale
               PROVE  entries'[loads'[c].key] = None
    BY DEF PutInv
  <2>1. loads[c] # None /\ loads'[c] = loads[c]
    BY MarkingKeeps
  <2>2. loads[c].key \in Keys
    BY <2>1 DEF IInv, Types, Markers
  <2> QED
    BY <1>3, <2>1, <2>2 DEF PutInv
<1> QED
  BY <1>3, <1>4

\* A hit moves its key to the end of the order.
LEMMA HitBudget ==
  ASSUME IInv, BudgetInv, PutInv, NEW c \in Clients, NEW k \in Keys, Hit(c, k)
  PROVE  BudgetInv' /\ PutInv'
<1>1. /\ UNCHANGED <<entries, totalBytes, loads>>
      /\ k \in Cached
      /\ recency' = Append(Without(recency, {k}), k)
  BY DEF Hit, Serve
<1> DEFINE t == Without(recency, {k})
<1>2. t \in Seq(Keys) /\ Distinct(t) /\ Listed(t) = Cached \ {k}
  BY WithoutIs DEF BudgetInv
<1>3. recency' \in Seq(Keys) /\ Distinct(recency') /\ Listed(recency') = (Cached \ {k}) \cup {k}
  <2>1. k \notin Listed(t) /\ recency' = Append(t, k)
    BY <1>1, <1>2
  <2> HIDE DEF t
  <2> QED
    BY <1>2, <2>1, AppendIs
<1>4. Cached' = Cached /\ (Cached \ {k}) \cup {k} = Cached
  BY <1>1 DEF Cached
<1>5. BytesOf(Cached)' = BytesOf(Cached)
  BY <1>1, <1>4 DEF BytesOf
<1> QED
  BY <1>1, <1>3, <1>4, <1>5 DEF BudgetInv, PutInv

\* A load begins with a miss: its key has no entry.
LEMMA MissBudget ==
  ASSUME IInv, BudgetInv, PutInv, NEW c \in Clients, NEW k \in Keys,
         Join(c, k) \/ StartLoad(c, k)
  PROVE  BudgetInv' /\ PutInv'
<1>1. /\ Drop({k})
      /\ loads' = loads \/ loads' =
           [loads EXCEPT ![c] = [key |-> k, value |-> None, stale |-> FALSE]]
  BY DEF Join, StartLoad, Miss
<1>2. /\ BudgetInv'
      /\ \A j \in Keys : j \in {k} \/ entries[j] = None => entries'[j] = None
  BY <1>1, DropBudget
<1>3. loads \in [Clients -> Markers \cup {None}]
  BY DEF IInv, Types
<1>4. PutInv'
  <2> SUFFICES ASSUME NEW d \in Clients, loads'[d] # None, ~loads'[d].stale
               PROVE  entries'[loads'[d].key] = None
    BY DEF PutInv
  <2>1. CASE loads'[d] = loads[d]
    <3>1. loads[d].key \in Keys
      BY <1>3, <2>1 DEF Markers
    <3> QED
      BY <1>2, <2>1, <3>1 DEF PutInv
  <2>2. CASE loads'[d] # loads[d]
    <3>1. loads'[d] = [key |-> k, value |-> None, stale |-> FALSE]
      BY <1>1, <1>3, <2>2
    <3>2. loads'[d].key = k
      BY <3>1
    <3> QED
      BY <1>2, <3>2
  <2> QED
    BY <2>1, <2>2
<1> QED
  BY <1>2, <1>4

LEMMA ReadBudget ==
  ASSUME IInv, BudgetInv, PutInv, NEW c \in Clients, Read(c)
  PROVE  BudgetInv' /\ PutInv'
<1>1. /\ UNCHANGED cache
      /\ loads' = [loads EXCEPT ![c] = [loads[c] EXCEPT !.value = data[loads[c].key]]]
      /\ loads[c] # None
  BY DEF Read
<1>2. loads \in [Clients -> Markers \cup {None}]
  BY DEF IInv, Types
<1>3. loads[c] \in Markers
  BY <1>1, <1>2
<1>4. loads'[c].key = loads[c].key /\ loads'[c].stale = loads[c].stale
  BY <1>1, <1>2, <1>3 DEF Markers
<1>5. \A d \in Clients : d # c => loads'[d] = loads[d]
  BY <1>1, <1>2
<1>6. PutInv'
  BY <1>1, <1>4, <1>5 DEF PutInv, cache
<1> QED
  BY <1>1, <1>6 DEF cache, BudgetInv, BytesOf, Cached

\* Of the loads of a key only the registered one may put, and it is over then.
LEMMA EndBudget ==
  ASSUME IInv, BudgetInv, PutInv, NEW c \in Clients, Finish(c) \/ Fail(c)
  PROVE  BudgetInv' /\ PutInv'
<1> DEFINE k == loads[c].key
           value == loads[c].value
<1>1. /\ loads[c] # None
      /\ loads' = [loads EXCEPT ![c] = None]
      /\ UNCHANGED cache \/ (~loads[c].stale /\ value # None /\ Put(k, value))
  BY DEF Finish, Fail, EndLoad
<1>2. loads \in [Clients -> Markers \cup {None}]
  BY DEF IInv, Types
<1>3. \A d \in Clients : loads'[d] # None => d # c /\ loads'[d] = loads[d]
  BY <1>1, <1>2
<1>4. CASE UNCHANGED cache
  BY <1>3, <1>4 DEF cache, BudgetInv, PutInv, BytesOf, Cached
<1>5. CASE ~loads[c].stale /\ value # None /\ Put(k, value)
  <2>1. k \in Keys /\ value \in Versions
    BY <1>1, <1>2, <1>5 DEF Markers
  <2>2. entries[k] = None
    BY <1>1, <1>5 DEF PutInv
  <2>3. /\ BudgetInv'
        /\ \A j \in Keys : j # k /\ entries[j] = None => entries'[j] = None
    <3> HIDE DEF k, value
    <3> QED
      BY <1>5, <2>1, <2>2, PutBudget
  <2>4. PutInv'
    <3> SUFFICES ASSUME NEW d \in Clients, loads'[d] # None, ~loads'[d].stale
                 PROVE  entries'[loads'[d].key] = None
      BY DEF PutInv
    <3>1. d # c /\ loads'[d] = loads[d]
      BY <1>3
    <3>2. loads[d].key \in Keys
      BY <1>2, <3>1 DEF Markers
    <3>3. inflight[loads[d].key] = d /\ inflight[k] = c
      BY <1>1, <1>5, <3>1 DEF IInv, LoadInv
    <3>4. loads[d].key # k
      BY <3>1, <3>3
    <3> QED
      BY <2>3, <3>1, <3>2, <3>4 DEF PutInv
  <2> QED
    BY <2>3, <2>4
<1> QED
  BY <1>1, <1>4, <1>5

LEMMA StepBudget == ASSUME BInv, Next PROVE BudgetInv' /\ PutInv'
<1> USE DEF BInv
<1>1. CASE Disconnect \/ Reconnect \/ \E K \in Scopes : Commit(K)
  <2>1. UNCHANGED <<cache, loads>>
    BY <1>1 DEF Disconnect, Reconnect, Commit
  <2> QED
    BY <2>1, CacheSame
<1>2. CASE Tick \/ Handle
  BY <1>2, TickBudget, HandleBudget
<1>3. ASSUME NEW c \in Clients, Request(c) PROVE BudgetInv' /\ PutInv'
  BY <1>3, HitBudget, MissBudget DEF Request
<1>4. ASSUME NEW c \in Clients, Read(c) \/ Finish(c) \/ Fail(c) PROVE BudgetInv' /\ PutInv'
  BY <1>4, ReadBudget, EndBudget
<1> QED
  BY <1>1, <1>2, <1>3, <1>4 DEF Next

THEOREM BudgetInvariance == Spec => []BInv
<1>1. Init => BudgetInv /\ PutInv
  BY InitBudget
<1>2. IInv /\ BudgetInv /\ PutInv /\ [Next]_vars => (BudgetInv /\ PutInv)'
  <2> SUFFICES ASSUME IInv, BudgetInv, PutInv, [Next]_vars PROVE (BudgetInv /\ PutInv)'
    OBVIOUS
  <2>1. CASE Next
    BY <2>1, StepBudget DEF BInv
  <2>2. CASE UNCHANGED vars
    BY <2>2, CacheSame DEF vars, cache
  <2> QED
    BY <2>1, <2>2
<1> QED
  BY <1>1, <1>2, Invariance, PTL DEF Spec, BInv

\* The caches never outgrow their budget, whatever the sizes of the responses,
\* the limits and the order of requests, notifications and failures: the byte
\* account is exact, both limits hold, and the order lists each entry once.
THEOREM BudgetHolds == Spec => []WithinBudget
<1>1. BInv => WithinBudget
  <2> SUFFICES ASSUME BInv PROVE WithinBudget
    OBVIOUS
  <2>1. Cardinality(Cached) = Len(recency)
    BY CachedFacts DEF BInv
  <2> QED
    BY <2>1 DEF BInv, BudgetInv, WithinBudget, Listed
<1> QED
  BY <1>1, BudgetInvariance, PTL

\* Every variable keeps its type, the byte account included: it never runs
\* below zero.
THEOREM TypeCorrect == Spec => []TypeOK
<1>1. Init => listening \in BOOLEAN
  BY DEF Init
<1>2. listening \in BOOLEAN /\ [Next]_vars => (listening \in BOOLEAN)'
  BY DEF Next, vars, Disconnect, Reconnect, Tick, Handle, Receive, Commit, Request, Hit, Serve,
     Join, StartLoad, Read, Finish, Fail, EndLoad, database
<1>3. BInv /\ listening \in BOOLEAN => TypeOK
  <2> SUFFICES ASSUME BInv, listening \in BOOLEAN PROVE TypeOK
    OBVIOUS
  <2>1. totalBytes \in Nat
    BY CachedFacts DEF BInv
  <2> QED
    BY <2>1 DEF BInv, IInv, Types, BudgetInv, TypeOK, Promises, Notices
<1> QED
  BY <1>1, <1>2, <1>3, BudgetInvariance, PTL DEF Spec

\* The caches of a serving process behave as the caches by themselves.
THEOREM CachesBehave == AllSpec => Spec
<1>1. AllInit => Init
  BY DEF AllInit
<1>2. [AllNext]_<<part, vars, ringVars, projectorVars>> => [Next]_vars
  BY DEF AllNext, CachesStep, RingStep, ProjectorStep
<1> QED
  BY <1>1, <1>2, PTL DEF AllSpec, Spec

-----------------------------------------------------------------------------
(* The entity index: what EntityProjector_proofs shows of the projector.   *)

Folding == INSTANCE EntityProjector_proofs WITH
  Keys <- Entities, Projectors <- {"p"}, Writers <- LateWriters,
  MaxFailures <- MaxProjectorFailures, StartCrashes <- FALSE,
  now <- scanTime, failures <- projectorFailures

LEMMA SameAssumptions == Folding!ProjectorAssumption /\ Folding!OneBackend /\ Folding!NoStartCrash
  BY ProjectorBounds DEF Projector!ProjectorAssumption, Folding!ProjectorAssumption, Folding!OneBackend,
     Folding!NoStartCrash, Projector!Blocks, Folding!Blocks

LEMMA SameInit == Projector!Init = Folding!Init
  BY DEF Projector!Init, Folding!Init, Projector!Nothing, Folding!Nothing, Projector!Blocks, Folding!Blocks,
     Projector!AllWriters, Folding!AllWriters

LEMMA SameNext == [Projector!Next]_(Projector!vars) = [Folding!Next]_(Folding!vars)
  BY DEF
     Projector!Next, Folding!Next, Projector!Tick, Folding!Tick, Projector!CommitWrite, Folding!CommitWrite,
     Projector!BeginWrite, Folding!BeginWrite, Projector!ProjectorStep, Folding!ProjectorStep,
     Projector!TickFails, Folding!TickFails, Projector!BeginTick, Folding!BeginTick,
     Projector!ReadProgress, Folding!ReadProgress, Projector!Start, Folding!Start, Projector!DetectFloor,
     Folding!DetectFloor, Projector!ReadStartClock, Folding!ReadStartClock, Projector!SetFloor, Folding!SetFloor,
     Projector!SetThrough, Folding!SetThrough, Projector!SetWatermark, Folding!SetWatermark,
     Projector!LateScan, Folding!LateScan, Projector!LateStart, Folding!LateStart, Projector!LateKeys,
     Folding!LateKeys, Projector!LateLoad, Folding!LateLoad, Projector!LateCommit, Folding!LateCommit,
     Projector!LateFloor, Folding!LateFloor, Projector!LateWatermark, Folding!LateWatermark,
     Projector!Chunks, Folding!Chunks, Projector!Plan, Folding!Plan, Projector!ChunkLoad, Folding!ChunkLoad,
     Projector!ChunkCommit, Folding!ChunkCommit, Projector!EndTick, Folding!EndTick, Projector!Load,
     Folding!Load, Projector!Leave, Folding!Leave, Projector!Goto, Folding!Goto, Projector!Replace, Folding!Replace,
     Projector!AllWriters, Folding!AllWriters, Projector!Blocks, Folding!Blocks, Projector!ingest,
     Folding!ingest, Projector!progress, Folding!progress, Projector!PCs, Folding!PCs, Projector!StartPCs,
     Folding!StartPCs, Projector!Nothing, Folding!Nothing, Projector!Fold, Folding!Fold, Projector!CreateBlock,
     Folding!CreateBlock, Projector!IsDetectedFloor, Folding!IsDetectedFloor, Projector!StoredCreates,
     Folding!StoredCreates, Projector!KnownFromBlockZero, Folding!KnownFromBlockZero,
     Projector!TouchedBetween, Folding!TouchedBetween, Projector!ScannedSince, Folding!ScannedSince,
     Projector!vars, Folding!vars

LEMMA SameProperties ==
  /\ Projector!TypeOK = Folding!TypeOK
  /\ Projector!FoldedOrDue = Folding!FoldedOrDue
  /\ Projector!FloorFollows = Folding!FloorFollows
  /\ [Projector!ForwardStep]_(Projector!progress) = [Folding!ForwardStep]_(Folding!progress)
  BY DEF Projector!TypeOK, Folding!TypeOK, Projector!FoldedOrDue, Folding!FoldedOrDue,
     Projector!FloorFollows, Folding!FloorFollows, Projector!ForwardStep, Folding!ForwardStep,
     Projector!progress, Folding!progress, Projector!Seen, Folding!Seen, Projector!Due, Folding!Due,
     Projector!DueAfter, Folding!DueAfter, Projector!Fold, Folding!Fold, Projector!CreateBlock, Folding!CreateBlock,
     Projector!ScannedSince, Folding!ScannedSince, Projector!Nothing, Folding!Nothing, Projector!Blocks,
     Folding!Blocks, Projector!AllWriters, Folding!AllWriters, Projector!PCs, Folding!PCs

LEMMA ProjectorStepIsStep ==
  [AllNext]_<<part, vars, ringVars, projectorVars>> => [Folding!Next]_(Folding!vars)
<1> SUFFICES ASSUME [AllNext]_<<part, vars, ringVars, projectorVars>>
             PROVE  [Projector!Next]_(Projector!vars)
  BY SameNext
<1> QED
  BY DEF AllNext, CachesStep, RingStep, ProjectorStep, projectorVars, Projector!vars,
     Projector!ingest, Projector!progress

\* The entity index behind the answers: nothing that is stored is ever forgotten, and the
\* floor follows the creates down.
THEOREM IndexComplete == AllSpec => []FoldedOrDue
<1>1. AllInit => Folding!IInv
  BY SameAssumptions, SameInit, Folding!InitHolds DEF AllInit
<1>2. Folding!IInv /\ [AllNext]_<<part, vars, ringVars, projectorVars>> => Folding!IInv'
  BY SameAssumptions, ProjectorStepIsStep, Folding!StepHolds
<1>3. Folding!IInv => FoldedOrDue
  BY SameAssumptions, SameProperties, Folding!IInvImplies DEF FoldedOrDue
<1> QED
  BY <1>1, <1>2, <1>3, PTL DEF AllSpec

\* Its progress never runs back.
THEOREM IndexOnlyForward == AllSpec => ProgressAdvances
<1>1. AllInit => Folding!IInv
  BY SameAssumptions, SameInit, Folding!InitHolds DEF AllInit
<1>2. Folding!IInv /\ [AllNext]_<<part, vars, ringVars, projectorVars>>
        => Folding!IInv' /\ [Projector!ForwardStep]_(Projector!progress)
  BY SameAssumptions, SameProperties, ProjectorStepIsStep, Folding!StepHolds, Folding!StepForward
<1> QED
  BY <1>1, <1>2, PTL DEF AllSpec, ProgressAdvances, Projector!ProgressAdvances

-----------------------------------------------------------------------------
(* The key ring.  A usable key that was passed over in favour of another   *)
(* lies nearer ahead of the cursor than that one, so it comes first.       *)

BehindInv ==
  \A j \in Ring!Available, k \in Ring!RingKeys :
    overtaken[j][k] # 0 => Ring!Ahead(j) < Ring!Ahead(k)

RingInv == Ring!TypeOK /\ Ring!NoKeyStarves /\ Ring!UsableFirst /\ BehindInv

\* How far ahead of position c key j lies on a ring of n keys.
Distance(n, c, j) == (j - c + n) % n

LEMMA DistanceIs ==
  ASSUME NEW n \in Nat \ {0}, NEW c \in 0..(n - 1), NEW j \in 0..(n - 1)
  PROVE  /\ Distance(n, c, j) = IF j >= c THEN j - c ELSE j - c + n
         /\ Distance(n, c, j) \in 0..(n - 1)
  BY SMT DEF Distance

\* The cursor passes key k: it is the last one now, and those behind it come nearer.
LEMMA DistanceAfter ==
  ASSUME NEW n \in Nat \ {0}, NEW c \in 0..(n - 1), NEW k \in 0..(n - 1)
  PROVE  /\ (k + 1) % n \in 0..(n - 1)
         /\ Distance(n, (k + 1) % n, k) = n - 1
         /\ \A j \in 0..(n - 1) : j # k /\ Distance(n, c, k) <= Distance(n, c, j) =>
              Distance(n, (k + 1) % n, j) = Distance(n, c, j) - Distance(n, c, k) - 1
<1> DEFINE m == (k + 1) % n
<1>1. m = IF k = n - 1 THEN 0 ELSE k + 1
  BY SMT
<1>2. m \in 0..(n - 1) /\ n \in Int /\ c \in Int /\ k \in Int
  BY <1>1, SMT
<1> HIDE DEF m
<1>3. \A j \in 0..(n - 1) :
        /\ Distance(n, c, j) = IF j >= c THEN j - c ELSE j - c + n
        /\ Distance(n, m, j) = IF j >= m THEN j - m ELSE j - m + n
  BY <1>2, DistanceIs
<1>4. Distance(n, m, k) = n - 1
  BY <1>1, <1>2, <1>3, SMT
<1>5. ASSUME NEW j \in 0..(n - 1), j # k, Distance(n, c, k) <= Distance(n, c, j)
      PROVE  Distance(n, m, j) = Distance(n, c, j) - Distance(n, c, k) - 1
  <2> DEFINE x == Distance(n, c, j)
             y == Distance(n, c, k)
             z == Distance(n, m, j)
  <2>1. /\ x = IF j >= c THEN j - c ELSE j - c + n
        /\ y = IF k >= c THEN k - c ELSE k - c + n
        /\ z = IF j >= m THEN j - m ELSE j - m + n
        /\ y <= x
    BY <1>3, <1>5
  <2> HIDE DEF x, y, z
  <2>2. z = x - y - 1
    BY <1>1, <1>2, <1>5, <2>1, SMT
  <2> QED
    BY <2>2 DEF x, y, z
<1> QED
  BY <1>2, <1>4, <1>5 DEF m

LEMMA AheadIsDistance == \A j : Ring!Ahead(j) = Distance(RingSize, cursor, j)
  BY DEF Ring!Ahead, Distance

LEMMA RingInit == Ring!Init => RingInv
  BY RingBounds, SMT DEF Ring!RingAssumption, Ring!Init, RingInv, Ring!TypeOK, Ring!NoKeyStarves,
     Ring!UsableFirst, BehindInv, Ring!RingKeys, Ring!Offers, Ring!Available

\* Handing out the key that comes next.
LEMMA HandOutKeeps ==
  ASSUME RingInv, NEW k \in Ring!RingKeys, Ring!IsNext(k), Ring!HandOut(k),
         UNCHANGED <<exhausted, cooling>>, leases' \in [Owners -> Ring!RingKeys \cup {None}]
  PROVE  RingInv'
<1> DEFINE Keep(j) ==
      IF j = k THEN [i \in Ring!RingKeys |-> 0]
      ELSE IF j \notin Ring!Available THEN overtaken[j]
      ELSE [overtaken[j] EXCEPT ![k] = IF @ < 2 THEN @ + 1 ELSE @]
<1>1. /\ cursor' = (k + 1) % RingSize /\ handedOut' = handedOut \cup {k}
      /\ overtaken' = [j \in Ring!RingKeys |-> Keep(j)]
      /\ offer' = [key |-> k, available |-> Ring!Available]
      /\ Ring!Available' = Ring!Available
  BY DEF Ring!HandOut, Ring!Available
<1>2. /\ overtaken \in [Ring!RingKeys -> [Ring!RingKeys -> 0..2]]
      /\ Ring!Available \subseteq Ring!RingKeys
      /\ RingSize \in Nat \ {0} /\ cursor \in 0..(RingSize - 1) /\ k \in 0..(RingSize - 1)
      /\ \A j, i \in Ring!RingKeys : overtaken[j][i] <= 1
  BY RingBounds DEF Ring!RingAssumption, RingInv, Ring!TypeOK, Ring!NoKeyStarves, Ring!Available,
     Ring!RingKeys
\* A key that was passed over in favour of this one would have come first.
<1>3. \A j \in Ring!Available : j # k => overtaken[j][k] = 0
  <2> SUFFICES ASSUME NEW j \in Ring!Available, overtaken[j][k] # 0 PROVE FALSE
    OBVIOUS
  <2>1. Ring!Ahead(j) < Ring!Ahead(k)
    BY DEF RingInv, BehindInv
  <2>2. Ring!Ahead(k) <= Ring!Ahead(j)
    BY DEF Ring!IsNext
  <2>3. Ring!Ahead(j) \in Int /\ Ring!Ahead(k) \in Int
    BY <1>2, AheadIsDistance, DistanceIs, SMT DEF Ring!RingKeys
  <2> QED
    BY <2>1, <2>2, <2>3, SMT
<1>4. ASSUME NEW j \in Ring!RingKeys
      PROVE  /\ Keep(j) \in [Ring!RingKeys -> 0..2]
             /\ \A i \in Ring!RingKeys : Keep(j)[i] <= 1
             /\ j = k => \A i \in Ring!RingKeys : Keep(j)[i] = 0
             /\ j # k => \A i \in Ring!RingKeys : i # k => Keep(j)[i] = overtaken[j][i]
  BY <1>2, <1>3, SMT
<1>5. cursor' \in Ring!RingKeys
  BY <1>1, <1>2, SMT DEF Ring!RingKeys
<1>6. Ring!TypeOK'
  BY <1>1, <1>2, <1>4, <1>5 DEF RingInv, Ring!TypeOK, Ring!Offers
<1>7. Ring!NoKeyStarves'
  BY <1>1, <1>4 DEF Ring!NoKeyStarves
<1>8. Ring!UsableFirst'
  BY <1>1 DEF Ring!UsableFirst, Ring!IsNext
<1>9. BehindInv'
  <2> SUFFICES ASSUME NEW j \in Ring!Available, NEW i \in Ring!RingKeys, Keep(j)[i] # 0
               PROVE  Distance(RingSize, cursor', j) < Distance(RingSize, cursor', i)
    BY <1>1, <1>2 DEF BehindInv, Ring!Ahead, Distance
  <2> HIDE DEF Keep
  <2> DEFINE before(x) == Distance(RingSize, cursor, x)
             after(x) == Distance(RingSize, cursor', x)
  <2>1. j \in Ring!RingKeys /\ j # k
    BY <1>2, <1>4
  <2>2. before(k) <= before(j)
    BY AheadIsDistance DEF Ring!IsNext
  <2>3. /\ after(k) = RingSize - 1
        /\ \A x \in Ring!RingKeys : x # k /\ before(k) <= before(x) =>
             after(x) = before(x) - before(k) - 1
        /\ \A x \in Ring!RingKeys : before(x) \in 0..(RingSize - 1)
    BY <1>1, <1>2, DistanceAfter, DistanceIs DEF Ring!RingKeys
  <2> HIDE DEF before, after
  <2>4. /\ RingSize \in Int /\ k \in Ring!RingKeys
        /\ before(j) \in 0..(RingSize - 1) /\ before(k) \in 0..(RingSize - 1)
        /\ before(i) \in 0..(RingSize - 1)
    BY <1>2, <2>1, <2>3
  <2>5. CASE i = k
    BY <2>1, <2>2, <2>3, <2>4, <2>5, SMT DEF after
  <2>6. CASE i # k
    <3>1. overtaken[j][i] # 0
      BY <1>4, <2>1, <2>6
    <3>2. before(j) < before(i)
      BY <3>1, AheadIsDistance DEF RingInv, BehindInv, before
    <3>3. before(k) <= before(i)
      BY <2>2, <2>4, <3>2, SMT
    <3>4. after(i) = before(i) - before(k) - 1 /\ after(j) = before(j) - before(k) - 1
      BY <2>1, <2>2, <2>3, <2>6, <3>3
    <3>5. after(j) < after(i)
      BY <2>4, <3>2, <3>4, SMT
    <3> QED
      BY <3>5 DEF after
  <2> QED
    BY <2>5, <2>6
<1> QED
  BY <1>6, <1>7, <1>8, <1>9 DEF RingInv

LEMMA RingStepKeeps == ASSUME RingInv, Ring!Next PROVE RingInv' /\ [Ring!StickyStep]_leases
<1>1. CASE Ring!Call
  BY <1>1, HandOutKeeps DEF Ring!Call, RingInv, Ring!TypeOK
<1>2. ASSUME NEW o \in Owners, Ring!LeaseFor(o) PROVE RingInv' /\ Ring!StickyStep
  <2>1. PICK k \in Ring!RingKeys :
          Ring!IsNext(k) /\ Ring!HandOut(k) /\ leases' = [leases EXCEPT ![o] = k]
    BY <1>2 DEF Ring!LeaseFor
  <2>2. leases \in [Owners -> Ring!RingKeys \cup {None}]
    BY DEF RingInv, Ring!TypeOK
  <2>3. RingInv'
    BY <1>2, <2>1, <2>2, HandOutKeeps DEF Ring!LeaseFor
  <2>4. Ring!StickyStep
    BY <1>2, <2>1, <2>2 DEF Ring!LeaseFor, Ring!StickyStep
  <2> QED
    BY <2>3, <2>4
<1>3. ASSUME NEW k \in Ring!RingKeys, Ring!Retire(k) \/ Ring!Rest(k) PROVE RingInv'
  <2>1. UNCHANGED <<cursor, leases, handedOut, offer, overtaken>>
        /\ Ring!Available' \subseteq Ring!Available
    BY <1>3 DEF Ring!Retire, Ring!Rest, Ring!ring, Ring!Available
  <2>2. exhausted' \subseteq Ring!RingKeys /\ cooling' \subseteq Ring!RingKeys
    BY <1>3 DEF RingInv, Ring!TypeOK, Ring!Retire, Ring!Rest, Ring!ring
  <2> QED
    BY <2>1, <2>2 DEF RingInv, Ring!TypeOK, Ring!NoKeyStarves, Ring!UsableFirst, BehindInv,
       Ring!Ahead
<1>4. ASSUME NEW k \in Ring!RingKeys, Ring!Rested(k) PROVE RingInv'
  <2>1. UNCHANGED <<cursor, leases, handedOut, offer, exhausted>>
        /\ cooling' \subseteq Ring!RingKeys
        /\ Ring!Available' \subseteq Ring!Available \cup {k}
    BY <1>4 DEF RingInv, Ring!TypeOK, Ring!Rested, Ring!ring, Ring!Available
  <2>2. overtaken \in [Ring!RingKeys -> [Ring!RingKeys -> 0..2]]
    BY DEF RingInv, Ring!TypeOK
  <2>3. /\ overtaken' \in [Ring!RingKeys -> [Ring!RingKeys -> 0..2]]
        /\ \A i \in Ring!RingKeys : overtaken'[k][i] = 0
        /\ \A j \in Ring!RingKeys : j # k => overtaken'[j] = overtaken[j]
    BY <1>4, <2>2, SMT DEF Ring!Rested
  <2>4. Ring!TypeOK' /\ Ring!UsableFirst'
    BY <2>1, <2>3 DEF RingInv, Ring!TypeOK, Ring!UsableFirst
  <2>5. Ring!NoKeyStarves'
    BY <2>3, SMT DEF RingInv, Ring!NoKeyStarves
  <2>6. BehindInv'
    <3>1. Ring!Available \subseteq Ring!RingKeys
      BY DEF Ring!Available
    <3> QED
      BY <2>1, <2>3, <3>1 DEF RingInv, BehindInv, Ring!Ahead
  <2> QED
    BY <2>4, <2>5, <2>6 DEF RingInv
<1>5. (\E k \in Ring!RingKeys : Ring!Retire(k) \/ Ring!Rest(k) \/ Ring!Rested(k)) \/ Ring!Call
        => UNCHANGED leases
  BY DEF Ring!Retire, Ring!Rest, Ring!Rested, Ring!ring, Ring!Call
<1> QED
  BY <1>1, <1>2, <1>3, <1>4, <1>5 DEF Ring!Next

\* Round-robin: no usable key is passed over twice in favour of the same other, none that is
\* burnt or resting is handed out while one is usable, and a lease changes hands only when
\* its key is burnt; for any number of keys and owners.
THEOREM KeysAreUsedFairly == AllSpec => KeysUsedFairly
<1>1. AllInit => RingInv
  BY RingInit DEF AllInit
<1>2. RingInv /\ [AllNext]_<<part, vars, ringVars, projectorVars>>
        => RingInv' /\ [Ring!StickyStep]_leases
  <2>1. ASSUME RingInv, UNCHANGED ringVars PROVE RingInv' /\ UNCHANGED leases
    BY <2>1 DEF RingInv, Ring!TypeOK, Ring!NoKeyStarves, Ring!UsableFirst, BehindInv, Ring!Ahead,
       Ring!Available, ringVars
  <2> QED
    BY <2>1, RingStepKeeps DEF AllNext, CachesStep, RingStep, ProjectorStep
<1>3. RingInv => Ring!TypeOK /\ Ring!NoKeyStarves /\ Ring!UsableFirst
  BY DEF RingInv
<1> QED
  BY <1>1, <1>2, <1>3, PTL DEF AllSpec, KeysUsedFairly, Ring!LeasesSticky
=============================================================================
