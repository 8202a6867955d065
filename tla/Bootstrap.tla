----------------------------- MODULE Bootstrap -----------------------------
(***************************************************************************)
(* How the entities of block 0 come into the index: the download of the    *)
(* dump, and its import or the walk over the node's own entities.  The     *)
(* verified file at its final path is all that the two share, and an       *)
(* import only ever begins with it; a behaviour therefore moves one of     *)
(* them, chosen in the initial state.                                      *)
(***************************************************************************)
EXTENDS GenesisImport

CONSTANTS
  Moving,   \* the components that may move
  \* Of the download: the versions of the object, its parts, the requests under way,
  \* and the bounds.
  Versions, Wanted, PartCount, Workers, Lead, PartAttempts, MaxReplaced, MaxBroken,
  MaxCrashes, Hole, Torn

VARIABLES
  part,   \* the component that moves
  object, written, onDisk, sidecar, ready, refused, phase, etag, done, queue,
  worker, snapshots, failure, reruns, replaced, broken, crashes

downloadVars ==
  <<object, written, onDisk, sidecar, ready, refused, phase, etag, done, queue,
    worker, snapshots, failure, reruns, replaced, broken, crashes>>

Download == INSTANCE GenesisDownload WITH
  stored <- object, restarts <- reruns

ASSUME DownloadBounds == Download!DownloadAssumption

AllInit ==
  /\ part \in Moving
  /\ Init /\ Download!Init
  /\ part # "download" => object = Wanted

ImportStep == part = "import" /\ Next /\ UNCHANGED <<part, downloadVars>>
DownloadStep == part = "download" /\ Download!Next /\ UNCHANGED <<part, vars>>

AllSpec == AllInit /\ [][ImportStep \/ DownloadStep]_<<part, vars, downloadVars>>

\* The fairness of each component; only the one that moves is held to it.
AllFairSpec ==
  /\ AllSpec
  /\ \A b \in Backends : WF_vars(part = "import" /\ BackendStep(b))
  /\ WF_vars(part = "import" /\ \E i \in Importers : ImporterStep(i))
  /\ WF_downloadVars(part = "download" /\ Download!Advance)
  /\ \A w \in Workers : WF_downloadVars(part = "download" /\ Download!Step(w))

-----------------------------------------------------------------------------
\* An entity's position is the node's, wherever walks stopped, restarted or
\* overlapped and whoever imported it; and what an attempt skips because it was
\* counted is there (GenesisImport).
EntitiesInPlace == TypeOK /\ InNodeOrder /\ CountedIsThere

\* "Block 0 once the genesis import is done": every genesis entity is in, with
\* the operations folded before on top, and the secondary indexes are back,
\* whichever attempt dropped them (GenesisImport).
ImportComplete == DoneIsComplete /\ IndexesRebuilt

\* "A replaced object is never spliced onto the old prefix": every part counted
\* as finished is on disk, whole and of the version the sidecar pins, whatever
\* was lost in a crash (GenesisDownload).
DumpOfOneVersion == Download!TypeOK /\ Download!NeverSpliced

\* No mix of crashes, broken requests and resumed parts records an integrity
\* failure, which only an operator clears, for the version that was wanted; and
\* concurrent workers never put an older record of parts over a newer one
\* (GenesisDownload).
DownloadKeepsProgress == Download!RefusedForCause /\ Download!ProgressKept

\* The bootstrap comes to an end: the dump is in place or refused, the import is
\* done or has failed with a reason.
BootstrapEnds ==
  /\ part = "import" => Settles
  /\ part = "download" => Download!Decided
=============================================================================
