--------------------------- MODULE MCDraftCleanup ---------------------------
(* Instances of DraftCleanup for TLC.                                      *)
EXTENDS DraftCleanup, TLC

CONSTANTS p1, p2, p3, d1, d2, d3

(* Processes and staging directories are interchangeable; Runs are not,    *)
(* they are numbered.                                                      *)
DraftSymmetry == Permutations(Procs) \cup Permutations(Drafts)
=============================================================================
