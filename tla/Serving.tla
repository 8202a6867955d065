------------------------------ MODULE Serving ------------------------------
(***************************************************************************)
(* The parts between a request and the stored blocks or the node: the      *)
(* response caches, the RPC key ring, and the projector that folds the     *)
(* stored operations into the entity index.  They share no state; a        *)
(* behaviour moves one of them, chosen in the initial state, and leaves    *)
(* the others as they started: interleaving them would only multiply       *)
(* states.                                                                 *)
(***************************************************************************)
EXTENDS ServerCaches

CONSTANTS
  Parts,             \* the components that may move
  RingSize, Owners,  \* of the key ring
  \* Of the projector: the entities, the chain and the operations on it, the writers
  \* beside the scanner, the length of their transactions, and the bounds.
  Entities, MaxBlock, Touches, LateWriters, MaxClock, MaxTx, Overlap, MaxRevision,
  MaxProjectorFailures

VARIABLES
  part,   \* the component that moves
  cursor, exhausted, cooling, leases, handedOut, overtaken, offer,
  clock, head, rows, scannedAt, writing, floor, through, watermark, folded, lock,
  pc, hd, thr, flr, wm, scanTime, keys, end, loaded, projectorFailures

ringVars == <<cursor, exhausted, cooling, leases, handedOut, overtaken, offer>>
projectorVars == <<clock, head, rows, scannedAt, writing, floor, through, watermark,
                   folded, lock, pc, hd, thr, flr, wm, scanTime, keys, end, loaded,
                   projectorFailures>>

Ring == INSTANCE RpcKeyRing WITH N <- RingSize

\* One backend, whose first start is not cut short.
Projector == INSTANCE EntityProjector WITH
  Keys <- Entities, Projectors <- {"p"}, Writers <- LateWriters,
  MaxFailures <- MaxProjectorFailures, StartCrashes <- FALSE,
  now <- scanTime, failures <- projectorFailures

ASSUME RingBounds == Ring!RingAssumption
ASSUME ProjectorBounds == Projector!ProjectorAssumption

AllInit == part \in Parts /\ Init /\ Ring!Init /\ Projector!Init

CachesStep ==
  part = "caches" /\ Next /\ UNCHANGED <<part, ringVars, projectorVars>>
RingStep ==
  part = "ring" /\ Ring!Next /\ UNCHANGED <<part, vars, projectorVars>>
ProjectorStep ==
  part = "projector" /\ Projector!Next /\ UNCHANGED <<part, vars, ringVars>>

AllNext == CachesStep \/ RingStep \/ ProjectorStep

AllSpec == AllInit /\ [][AllNext]_<<part, vars, ringVars, projectorVars>>

\* The fairness of ServerCaches and of EntityProjector, when it is the one that moves.
AllFairSpec ==
  /\ AllSpec
  /\ WF_vars(part = "caches" /\ Tick)
  /\ WF_vars(part = "caches" /\ Handle)
  /\ \A c \in Clients : /\ WF_vars(part = "caches" /\ Read(c))
                        /\ WF_vars(part = "caches" /\ Finish(c))
  /\ WF_projectorVars(part = "projector" /\ Projector!ProjectorStep("p"))
  /\ SF_projectorVars(part = "projector" /\ Projector!ReadProgress("p") /\ pc'["p"] = "late")
  /\ SF_projectorVars(part = "projector" /\ Projector!Plan("p"))

-----------------------------------------------------------------------------
\* "Round-robin over the keys that are neither exhausted nor cooling down": no
\* usable key is passed over twice in favour of another, and none that is burnt
\* or resting is handed out while one is usable; and a key lent to an owner stays
\* with it "until it burns out" (RpcKeyRing).
KeysUsedFairly ==
  [](Ring!TypeOK /\ Ring!NoKeyStarves /\ Ring!UsableFirst) /\ Ring!LeasesSticky

\* What the index holds is the fold of the stored operations up to its point, or
\* what is missing lies in sight of the next late scan; and "a backfill that writes
\* older blocks lowers the floor as it goes": an entity the index serves is not
\* older than the floor, or its rows are due (EntityProjector).
FoldedOrDue ==
  Projector!TypeOK /\ Projector!FoldedOrDue /\ Projector!FloorFollows

\* The block the index answers at never runs back, nor the watermark, and the
\* floor only goes down (EntityProjector).
ProgressAdvances == Projector!ProgressAdvances

\* Every stored operation of a created entity is folded in the end, whether it
\* arrives at the head or years below it, and stays folded (EntityProjector).
EventuallyFolded == Projector!EventuallyFolded
=============================================================================
