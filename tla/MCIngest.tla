------------------------------ MODULE MCIngest ------------------------------
(***************************************************************************)
(* TLC instances of Ingest.  The .cfg files choose the deployment: the     *)
(* compose stack of two scanner containers (IngestSplit) or one scanner    *)
(* that alternates its two phases (IngestCombined).                        *)
(***************************************************************************)
EXTENDS Ingest
=============================================================================
