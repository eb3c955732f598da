---------------------------- MODULE MCRecording ----------------------------
(***************************************************************************)
(* Two audits that share the reports directory and the SQLite file.        *)
(***************************************************************************)
EXTENDS Recording, TLC

CONSTANTS r1, r2

MCYield == (r1 :> {1, 2}) @@ (r2 :> {2})
MCRunColumns == {"status", "completed_at"}
MCFindingColumns == {"attested_by"}
=============================================================================
