----------------------------- MODULE ListCache -----------------------------
(***************************************************************************)
(* One list endpoint behind the list cache: the plain JSON, and a          *)
(* compressed variant whose loader asks the same cache for the plain one.  *)
(* Both are entries with a TTL of their own and loads of their own, and a  *)
(* stored-block notification clears both.  Notifications may be lost.      *)
(*                                                                         *)
(* ServerCaches models the cache itself, its keys, sizes and evictions;    *)
(* here the cache has room, and the two levels and the time matter.        *)
(***************************************************************************)
EXTENDS Integers, FiniteSetsExt

CONSTANTS
  None,
  TTL,
  MaxLoad,      \* bound: how long one load may take
  MaxVersion,   \* bound: commits
  MaxFailures   \* bound: loads that fail

Variants == {"plain", "packed"}
Ids == 1..4     \* a stale and a current load of each variant

\* What is cached of a list, and a load of it.
Cached  == [version : Nat, age : Nat, held : Nat]
Running == [variant : Variants, version : Nat \union {None}, age : Nat, held : Nat,
            stale : BOOLEAN, from : Ids \union {None}, since : Nat]

ListAssumption ==
  /\ {TTL, MaxLoad, MaxVersion, MaxFailures} \subseteq Nat /\ TTL > 0
  /\ None \notin Nat \union Cached \union Running

VARIABLES
  data,         \* database: the version of the list
  notices,      \* notifications under way: the versions they announce
  notified,     \* the version of the last notification handled
  entries,      \* the cached value of each variant, since when it was read and cached
  inflight,     \* the load registered for each variant
  loads,        \* the loads that run
  queries,      \* history: storage queries since the plain list was last given up
  answer,       \* the last answer; since: what was notified when it was asked for
  failures

vars == <<data, notices, notified, entries, inflight, loads, queries, answer, failures>>

\* The longest a list can have been out of the database when it is served.
MaxAge == 2 * (MaxLoad + TTL - 1)

Init ==
  /\ data = 0 /\ notices = {} /\ notified = 0
  /\ entries = [v \in Variants |-> None]
  /\ inflight = [v \in Variants |-> None]
  /\ loads = [i \in Ids |-> None]
  /\ queries = 0 /\ answer = None /\ failures = 0

-----------------------------------------------------------------------------
\* The value of a load or an entry grows older; beyond MaxAge by how much is left open.
Older(x) == IF x = None THEN None
            ELSE [x EXCEPT !.age = Min({@ + 1, MaxAge + 1}), !.held = Min({@ + 1, TTL + MaxLoad})]

\* Time passes; no load takes longer than MaxLoad.
Tick ==
  /\ \A i \in Ids : loads[i] # None => loads[i].held < MaxLoad
  /\ entries' = [v \in Variants |-> Older(entries[v])]
  /\ loads' = [i \in Ids |-> Older(loads[i])]
  /\ answer' = None
  /\ UNCHANGED <<data, notices, notified, inflight, queries, failures>>

\* A block is stored; its notification is sent or lost.
Commit ==
  /\ data < MaxVersion
  /\ data' = data + 1
  /\ notices' \in {notices, notices \union {data'}}
  /\ UNCHANGED <<notified, entries, inflight, loads, queries, answer, failures>>

\* Mutant of Cleared: only the plain list's load is marked.
ClearedPlain == {inflight["plain"]} \ {None}

\* clear marks every load that is registered.
Cleared == {inflight[v] : v \in Variants} \ {None}

Clear ==
  /\ notices # {}
  /\ notified' = Min(notices) /\ notices' = notices \ {Min(notices)}
  /\ entries' = [v \in Variants |-> None]
  /\ loads' = [i \in Ids |-> IF i \in Cleared THEN [loads[i] EXCEPT !.stale = TRUE] ELSE loads[i]]
  /\ queries' = 0
  /\ UNCHANGED <<data, inflight, answer, failures>>

-----------------------------------------------------------------------------

Valid(v) == entries[v] # None /\ entries[v].held < TTL

Joinable(v) == inflight[v] # None /\ ~loads[inflight[v]].stale

Free == {i \in Ids : loads[i] = None}
Load(v) == [variant |-> v, version |-> None, age |-> 0, held |-> 0, stale |-> FALSE,
            from |-> None, since |-> notified]

\* A hit; an entry that expired is dropped by the request that finds it.
Hit(v) ==
  /\ Valid(v)
  /\ answer' = [version |-> entries[v].version, age |-> entries[v].age, since |-> notified]
  /\ UNCHANGED <<data, notices, notified, entries, inflight, loads, queries, failures>>

Join(v) ==
  /\ ~Valid(v) /\ Joinable(v)
  /\ loads' = [loads EXCEPT ![inflight[v]].since = notified]
  /\ entries' = [entries EXCEPT ![v] = None]
  /\ UNCHANGED <<data, notices, notified, inflight, queries, answer, failures>>

\* plainLoader: the storage query starts.
LoadPlain ==
  /\ ~Valid("plain") /\ ~Joinable("plain") /\ Free # {}
  /\ loads' = [loads EXCEPT ![Min(Free)] = Load("plain")]
  /\ inflight' = [inflight EXCEPT !["plain"] = Min(Free)]
  /\ queries' = Min({2, 1 + IF entries["plain"] = None THEN queries ELSE 0})
  /\ entries' = [entries EXCEPT !["plain"] = None]
  /\ UNCHANGED <<data, notices, notified, answer, failures>>

\* compressedLoader asks for the plain list in the same step: from the entry ...
LoadPackedFromEntry ==
  /\ ~Valid("packed") /\ ~Joinable("packed") /\ Valid("plain") /\ Free # {}
  /\ loads' = [loads EXCEPT ![Min(Free)] =
       [Load("packed") EXCEPT !.version = entries["plain"].version, !.age = entries["plain"].age]]
  /\ inflight' = [inflight EXCEPT !["packed"] = Min(Free)]
  /\ entries' = [entries EXCEPT !["packed"] = None]
  /\ UNCHANGED <<data, notices, notified, queries, answer, failures>>

\* ... or from the load that runs; it runs one first when there is none.
LoadPackedFromLoad ==
  /\ ~Valid("packed") /\ ~Joinable("packed") /\ ~Valid("plain") /\ Free # {}
  /\ IF Joinable("plain")
     THEN /\ loads' = [loads EXCEPT ![inflight["plain"]].since = notified,
                                    ![Min(Free)] = [Load("packed") EXCEPT !.from = inflight["plain"]]]
          /\ inflight' = [inflight EXCEPT !["packed"] = Min(Free)]
          /\ entries' = [v \in Variants |-> None]
          /\ UNCHANGED queries
     ELSE LET p == Min(Free) c == Min(Free \ {p}) IN
          /\ Free # {p}
          /\ loads' = [loads EXCEPT ![p] = Load("plain"), ![c] = [Load("packed") EXCEPT !.from = p]]
          /\ inflight' = [v \in Variants |-> IF v = "plain" THEN p ELSE c]
          /\ queries' = Min({2, 1 + IF entries["plain"] = None THEN queries ELSE 0})
          /\ entries' = [v \in Variants |-> None]
  /\ UNCHANGED <<data, notices, notified, answer, failures>>

\* The storage query of the plain load answers.
Read(i) ==
  /\ loads[i] # None /\ loads[i].variant = "plain" /\ loads[i].version = None
  /\ loads' = [loads EXCEPT ![i].version = data, ![i].age = 0]
  /\ UNCHANGED <<data, notices, notified, entries, inflight, queries, answer, failures>>

\* A load that ended gives up its registration, unless a newer load holds it; one that
\* waited for it and fails with it does the same.
Unregisters(i, v, brings) ==
  \/ inflight[v] = i
  \/ inflight[v] # None /\ brings = None /\ loads[inflight[v]].from = i

\* A load ends; a compressed load that waits for it goes on with what it brings, or fails.
Ended(i, brings) ==
  LET waits(j) == loads[j] # None /\ loads[j].from = i IN
  /\ loads' = [j \in Ids |->
       CASE j = i -> None
         [] j # i /\ waits(j) /\ brings # None ->
              [loads[j] EXCEPT !.from = None, !.version = brings.version, !.age = brings.age, !.held = 0]
         [] j # i /\ waits(j) /\ brings = None -> None
         [] j # i /\ ~waits(j) -> loads[j]]
  /\ inflight' = [v \in Variants |-> IF Unregisters(i, v, brings) THEN None ELSE inflight[v]]

\* The body is there (compressed, for the second variant): it is cached and served.
Finish(i) ==
  /\ loads[i] # None /\ loads[i].version # None
  /\ Ended(i, loads[i])
  /\ LET l == loads[i] IN
     /\ entries' = IF ~loads[i].stale
          THEN [entries EXCEPT ![l.variant] = [version |-> l.version, age |-> l.age, held |-> 0]]
          ELSE entries
     /\ answer' = [version |-> l.version, age |-> l.age, since |-> l.since]
  /\ UNCHANGED <<data, notices, notified, queries, failures>>

Fail(i) ==
  /\ loads[i] # None /\ loads[i].from = None /\ failures < MaxFailures
  /\ failures' = failures + 1
  /\ Ended(i, None)
  /\ queries' = IF loads[i].variant = "plain" /\ ~loads[i].stale THEN 0 ELSE queries
  /\ UNCHANGED <<data, notices, notified, entries, answer>>

-----------------------------------------------------------------------------
Next ==
  \/ Tick \/ Commit \/ Clear \/ LoadPlain \/ LoadPackedFromEntry \/ LoadPackedFromLoad
  \/ \E v \in Variants : Hit(v) \/ Join(v)
  \/ \E i \in Ids : Read(i) \/ Finish(i) \/ Fail(i)

Spec == Init /\ [][Next]_vars

-----------------------------------------------------------------------------
\* A registered load runs and is of its variant, and a load waits only for a plain one that runs.
TypeOK ==
  /\ {data, notified} \subseteq 0..MaxVersion /\ notices \subseteq 0..MaxVersion
  /\ \A v \in Variants : inflight[v] # None =>
       loads[inflight[v]] # None /\ loads[inflight[v]].variant = v
  /\ \A i \in Ids : loads[i] # None /\ loads[i].from # None =>
       /\ loads[i].variant = "packed" /\ loads[loads[i].from] # None
       /\ loads[loads[i].from].variant = "plain"
  /\ queries \in 0..2

\* A list is never served with less than what had been notified when it was asked for, also
\* when the compressed one is made from a plain load that an older request began.
ListFresh == answer # None => answer.version >= answer.since

\* With notifications lost, the two TTLs add up and no more: what is served left the database
\* at most twice (the TTL and a load) ago.
AgeBounded == answer # None => answer.age <= MaxAge

\* "The storage query runs at most once per key per cache lifetime no matter which encodings
\* clients ask for": no second query while a plain list is cached or being loaded.
OneQuery == queries <= 1
=============================================================================
