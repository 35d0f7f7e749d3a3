---------------------------- MODULE MCDetectorRun ----------------------------
(* DetectorRun on a few requests and detectors. *)
EXTENDS DetectorRun, TLC

Symmetric == Permutations(Requests) \cup Permutations(Detectors \ InProcess)
=============================================================================
