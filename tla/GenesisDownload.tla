-------------------------- MODULE GenesisDownload --------------------------
(***************************************************************************)
(* The verified, resumable download of one bootstrap object (the genesis   *)
(* dump): parallel byte ranges into one pre-sized partial file, pinned to  *)
(* the ETag of the first answer, with a sidecar naming the parts that are  *)
(* on disk, so that a killed download resumes.  The object may be replaced *)
(* in storage under the download, a request may break or stall, the pod    *)
(* may die at any step and lose what was written and not synced.           *)
(*                                                                         *)
(* A part's content is the object version its bytes came from, Hole before *)
(* anything was written, or Torn after a broken attempt.  A version stands *)
(* for its ETag, and for its digest.                                       *)
(***************************************************************************)
EXTENDS Naturals, Sequences, FiniteSetsExt

CONSTANTS
  Versions,         \* object versions storage may hold
  Wanted,           \* the version whose digest the reference names
  PartCount,        \* byte ranges of the object
  Workers,          \* concurrent part requests
  Lead,             \* the one that stands for the unpinned first request
  PartAttempts,     \* failed attempts of one part before the run gives up
  MaxReplaced,      \* bound: replacements of the object in storage
  MaxBroken,        \* bound: broken requests and failed sidecar writes
  MaxCrashes,       \* bound: deaths of the pod
  None, Hole, Torn

Parts == 0..(PartCount - 1)

\* A sidecar, and the contents of a partial file.
Sidecars == [etag : Versions, done : SUBSET Parts]
Contents == [Parts -> Versions \union {Hole, Torn}]

\* What may end a run.
Failures == {"changed", "broken", "mismatch"}

\* None stands for what is not there.
DownloadAssumption ==
  /\ Wanted \in Versions /\ Lead \in Workers
  /\ {PartCount, PartAttempts} \subseteq Nat \ {0}
  /\ None \notin Nat /\ None \notin Versions \union Failures
  /\ None \notin Sidecars /\ None \notin Contents

VARIABLES
  stored,           \* the version in object storage
  written,          \* the .partial file as the process reads it, or None
  onDisk,           \* the same as a crash may leave it
  sidecar,          \* the .parts file: [etag, done] or None
  ready,            \* a verified file is at the final path
  refused,          \* a durable integrity failure is recorded in the database
  phase,            \* where the call in progress stands
  etag,             \* the pinned tag, None before the first answer is whole
  done,             \* the run's finished parts
  queue,            \* parts no worker has taken
  worker,           \* [at, part, body, failures] of each worker
  snapshots,        \* sidecars on the `persisted` chain, each with its worker
  failure,          \* what ended the run, or None
  restarts,         \* restarts after a changed object, in this call
  replaced, broken, crashes

run == <<etag, done, queue, worker, snapshots, failure>>
files == <<written, onDisk, sidecar, ready>>
faults == <<replaced, broken, crashes>>
vars == <<run, files, phase, restarts, refused, stored, faults>>

Resting == [at |-> "rest", part |-> None, body |-> None, failures |-> 0]
Aborted == failure # None

Init ==
  /\ stored \in Versions
  /\ written = None /\ onDisk = None /\ sidecar = None
  /\ ready = FALSE /\ refused = FALSE
  /\ phase = "idle" /\ restarts = 0
  /\ etag = None /\ done = {} /\ queue = {} /\ snapshots = <<>> /\ failure = None
  /\ worker = [w \in Workers |-> Resting]
  /\ replaced = 0 /\ broken = 0 /\ crashes = 0

Forget ==
  /\ etag' = None /\ done' = {} /\ queue' = {} /\ snapshots' = <<>> /\ failure' = None
  /\ worker' = [w \in Workers |-> Resting]

\* A verified file ends the call before it starts; a recorded failure ends them all.
Begin ==
  /\ phase = "idle" /\ ~ready /\ ~refused
  /\ phase' = "open" /\ restarts' = 0
  /\ UNCHANGED <<run, files, refused, stored, faults>>

\* A sidecar counts beside a partial file of the full size only.
Usable == sidecar # None /\ written # None

Resume ==
  /\ phase = "open" /\ Usable
  /\ etag' = sidecar.etag /\ done' = sidecar.done /\ queue' = Parts \ sidecar.done
  /\ phase' = "parts"
  /\ UNCHANGED <<files, worker, snapshots, failure, restarts, refused, stored, faults>>

StartOver ==
  /\ phase = "open" /\ ~Usable
  /\ written' = [p \in Parts |-> Hole] /\ onDisk' = written' /\ sidecar' = None
  /\ queue' = Parts \ {0}
  /\ worker' = [worker EXCEPT ![Lead] = [Resting EXCEPT !.at = "ask", !.part = 0]]
  /\ phase' = "first"
  /\ UNCHANGED <<ready, etag, done, snapshots, failure, restarts, refused, stored, faults>>

\* Storage without ranges or strong tags: one stream, and nothing of it to resume.
StreamInstead ==
  /\ phase = "first" /\ worker[Lead].at = "ask"
  /\ written' = None /\ onDisk' = None
  /\ phase' = "stream" /\ etag' = stored
  /\ worker' = [worker EXCEPT ![Lead] = Resting]
  /\ UNCHANGED <<sidecar, ready, done, queue, snapshots, failure, restarts, refused, stored, faults>>

StreamEnds ==
  /\ phase = "stream"
  /\ ready' = (etag = Wanted)
  /\ refused' = (etag # Wanted)
  /\ phase' = "idle" /\ Forget
  /\ UNCHANGED <<written, onDisk, sidecar, restarts, stored, faults>>

StreamBreaks ==
  /\ phase = "stream" /\ broken < MaxBroken
  /\ broken' = broken + 1
  /\ phase' = "idle" /\ Forget
  /\ UNCHANGED <<files, restarts, refused, stored, replaced, crashes>>

(***************************************************************************)
(* One part: take, ask with If-Match, write, datasync, record.             *)
(***************************************************************************)
Take(w) ==
  /\ phase = "parts" /\ worker[w].at = "rest" /\ queue # {} /\ ~Aborted
  /\ queue' = queue \ {Min(queue)}
  /\ worker' = [worker EXCEPT ![w] = [Resting EXCEPT !.at = "ask", !.part = Min(queue)]]
  /\ UNCHANGED <<etag, done, snapshots, failure, files, phase, restarts, refused, stored, faults>>

\* If-Match is sent once a tag is pinned.
Matches == etag # None => stored = etag

Answered(w) ==
  /\ worker[w].at = "ask" /\ ~Aborted /\ Matches
  /\ worker' = [worker EXCEPT ![w].at = "read", ![w].body = stored]
  /\ UNCHANGED <<etag, done, queue, snapshots, failure, files, phase, restarts, refused, stored, faults>>

\* 412: the object changed.
Refused(w) ==
  /\ worker[w].at = "ask" /\ ~Aborted /\ ~Matches
  /\ worker' = [worker EXCEPT ![w].at = "over"]
  /\ failure' = "changed"
  /\ UNCHANGED <<etag, done, queue, snapshots, files, phase, restarts, refused, stored, faults>>

\* The first whole answer pins its tag.
Received(w) ==
  /\ worker[w].at = "read" /\ ~Aborted
  /\ written' = [written EXCEPT ![worker[w].part] = worker[w].body]
  /\ etag' = IF etag = None THEN worker[w].body ELSE etag
  /\ worker' = [worker EXCEPT ![w].at = "sync"]
  /\ UNCHANGED <<onDisk, sidecar, ready, done, queue, snapshots, failure, phase, restarts, refused,
                 stored, faults>>

\* A broken, stalled or short answer: the part is asked for again, up to PartAttempts times.
Broken(w) ==
  /\ worker[w].at \in {"ask", "read"} /\ ~Aborted /\ broken < MaxBroken
  /\ broken' = broken + 1
  /\ written' = IF worker[w].at = "read" THEN [written EXCEPT ![worker[w].part] = Torn] ELSE written
  /\ worker' = [worker EXCEPT ![w].at = IF worker[w].failures + 1 = PartAttempts
                                         THEN "over" ELSE "ask",
                              ![w].body = None, ![w].failures = @ + 1]
  /\ failure' = IF worker'[w].at = "over" THEN "broken" ELSE None
  /\ UNCHANGED <<onDisk, sidecar, ready, etag, done, queue, snapshots, phase, restarts, refused,
                 stored, replaced, crashes>>

\* Mutant of Synced: a part counts before its bytes have reached the disk.
SyncedLater == onDisk

\* complete(): every byte written so far reaches the disk before the part counts.
Synced == written

Sync(w) ==
  /\ worker[w].at = "sync"
  /\ onDisk' = Synced
  /\ done' = done \union {worker[w].part}
  /\ snapshots' = Append(snapshots, [by |-> w, etag |-> etag, done |-> done'])
  /\ worker' = [worker EXCEPT ![w].at = "persist"]
  /\ UNCHANGED <<written, sidecar, ready, etag, queue, failure, phase, restarts, refused, stored, faults>>

\* Mutant of NextSnapshots: records are written as they come, not one after the other.
AnySnapshot == DOMAIN snapshots

\* The sidecars are replaced by rename, in the order of the chain.
NextSnapshots == {1} \intersect DOMAIN snapshots

Persist ==
  \E i \in NextSnapshots :
    LET shot == snapshots[i] IN
    /\ sidecar' = [etag |-> shot.etag, done |-> shot.done]
    /\ snapshots' = SubSeq(snapshots, 1, i - 1) \o SubSeq(snapshots, i + 1, Len(snapshots))
    /\ worker' = [worker EXCEPT ![shot.by] = Resting]
    /\ phase' = "parts"
    /\ UNCHANGED <<written, onDisk, ready, etag, done, queue, failure, restarts, refused, stored, faults>>

\* The write fails; the chain goes on with the next snapshot.
PersistFails ==
  /\ snapshots # <<>> /\ broken < MaxBroken
  /\ broken' = broken + 1
  /\ snapshots' = Tail(snapshots)
  /\ worker' = [worker EXCEPT ![Head(snapshots).by].at = "over"]
  /\ failure' = IF Aborted THEN failure ELSE "broken"
  /\ UNCHANGED <<etag, done, queue, files, phase, restarts, refused, stored, replaced, crashes>>

\* Another worker's failure aborts the requests under way.
Abandon(w) ==
  /\ Aborted /\ worker[w].at \in {"ask", "read"}
  /\ written' = IF worker[w].at = "read" THEN [written EXCEPT ![worker[w].part] = Torn] ELSE written
  /\ worker' = [worker EXCEPT ![w].at = "over"]
  /\ UNCHANGED <<onDisk, sidecar, ready, etag, done, queue, snapshots, failure, phase, restarts,
                 refused, stored, faults>>

WorkersOver == \A w \in Workers : worker[w].at \in {"rest", "over"}

(***************************************************************************)
(* The end of a run, and the digest of the whole file.                     *)
(***************************************************************************)
RunWhole ==
  /\ phase = "parts" /\ WorkersOver /\ ~Aborted /\ queue = {}
  /\ onDisk' = written
  /\ phase' = "verify"
  /\ UNCHANGED <<written, sidecar, ready, run, restarts, refused, stored, faults>>

\* Availability failures keep the files for the next call; a changed object drops them.
RunFails ==
  /\ phase \in {"first", "parts"} /\ WorkersOver /\ Aborted
  /\ IF failure = "broken"
     THEN phase' = "idle" /\ Forget
     ELSE phase' = "discard" /\ UNCHANGED run
  /\ UNCHANGED <<files, restarts, refused, stored, faults>>

Place ==
  /\ phase = "verify" /\ \A p \in Parts : written[p] = Wanted
  /\ ready' = TRUE
  /\ written' = None /\ onDisk' = None
  /\ phase' = "placed"
  /\ UNCHANGED <<sidecar, run, restarts, refused, stored, faults>>

DropSidecar ==
  /\ phase = "placed"
  /\ sidecar' = None
  /\ phase' = "idle" /\ Forget
  /\ UNCHANGED <<written, onDisk, ready, restarts, refused, stored, faults>>

Mismatch ==
  /\ phase = "verify" /\ \E p \in Parts : written[p] # Wanted
  /\ failure' = "mismatch"
  /\ phase' = "discard"
  /\ UNCHANGED <<files, etag, done, queue, worker, snapshots, restarts, refused, stored, faults>>

\* discard() removes the partial file, then the sidecar.
DiscardPartial ==
  /\ phase = "discard" /\ written # None
  /\ written' = None /\ onDisk' = None
  /\ UNCHANGED <<sidecar, ready, phase, run, restarts, refused, stored, faults>>

\* A changed object restarts the download once in this call; a mismatch is recorded for good.
Discarded ==
  /\ phase = "discard" /\ written = None
  /\ sidecar' = None
  /\ refused' = (failure = "mismatch")
  /\ phase' = IF failure = "changed" /\ restarts = 0 THEN "open" ELSE "idle"
  /\ restarts' = IF phase' = "open" THEN 1 ELSE 0
  /\ Forget
  /\ UNCHANGED <<written, onDisk, ready, stored, faults>>

(***************************************************************************)
(* The environment.                                                        *)
(***************************************************************************)
Replace ==
  /\ replaced < MaxReplaced
  /\ stored' \in Versions \ {stored}
  /\ replaced' = replaced + 1
  /\ UNCHANGED <<run, files, phase, restarts, refused, broken, crashes>>

\* Of what was written and not synced, each part may or may not be on disk.
Crash ==
  /\ phase # "idle" /\ crashes < MaxCrashes
  /\ crashes' = crashes + 1
  /\ onDisk' \in IF written = None THEN {None}
                 ELSE {f \in [Parts -> {written[p] : p \in Parts} \union {onDisk[p] : p \in Parts}] :
                         \A p \in Parts : f[p] \in {written[p], onDisk[p]}}
  /\ written' = onDisk'
  /\ phase' = "idle" /\ restarts' = 0 /\ Forget
  /\ UNCHANGED <<sidecar, ready, refused, stored, replaced, broken>>

\* The answer a worker waits for, then its own steps.
Step(w) == Take(w) \/ Answered(w) \/ Refused(w) \/ Received(w) \/ Sync(w) \/ Abandon(w)

Advance ==
  \/ Begin \/ Resume \/ StartOver \/ StreamEnds \/ Persist
  \/ RunWhole \/ RunFails \/ Place \/ DropSidecar \/ Mismatch \/ DiscardPartial \/ Discarded

Next ==
  \/ Advance
  \/ \E w \in Workers : Step(w) \/ Broken(w)
  \/ StreamInstead \/ StreamBreaks \/ PersistFails \/ Replace \/ Crash

Spec == Init /\ [][Next]_vars
FairSpec == Spec /\ WF_vars(Advance) /\ \A w \in Workers : WF_vars(Step(w))

-----------------------------------------------------------------------------

\* Files and run are of their types, and no part is with two workers, or finished and queued.
Requests == [at : {"rest", "ask", "read", "sync", "persist", "over"},
             part : Parts \union {None}, body : Versions \union {None},
             failures : 0..PartAttempts]
TypeOK ==
  /\ stored \in Versions /\ {written, onDisk} \subseteq Contents \union {None}
  /\ written = None <=> onDisk = None
  /\ sidecar \in Sidecars \union {None} /\ {ready, refused} \subseteq BOOLEAN
  /\ etag \in Versions \union {None} /\ done \subseteq Parts /\ queue \subseteq Parts \ done
  /\ worker \in [Workers -> Requests]
  /\ failure \in Failures \union {None}
  /\ \A w, v \in Workers : w # v /\ worker[w].part = worker[v].part => worker[w].part = None

\* genesisBootstrap.ts:499 "A replaced object is never spliced onto the old prefix": every
\* part the sidecar counts as finished is on disk, whole, and of the version the sidecar
\* pins, whatever was lost in a crash.
NeverSpliced ==
  sidecar # None /\ onDisk # None => \A p \in sidecar.done : onDisk[p] = sidecar.etag

\* A durable integrity failure needs an operator's reset; no mix of crashes, broken requests,
\* resumed parts and replacements records one unless the version this download pinned
\* is not the referenced one.
RefusedForCause == [][refused' /\ ~refused => etag # Wanted]_vars

\* The record of finished parts only grows while it is of one version: concurrent workers
\* never put an older sidecar over a newer one.
ProgressKept ==
  [][sidecar # None /\ sidecar' # None
       => sidecar'.etag = sidecar.etag /\ sidecar.done \subseteq sidecar'.done]_vars

\* Once storage and pod calm down, the dump is in place or its failure is recorded.
Decided == <>(ready \/ refused)
=============================================================================
