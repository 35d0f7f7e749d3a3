--------------------------- MODULE MCCheckRequest ---------------------------
(* CheckRequest on short finding lists. *)
EXTENDS CheckRequest, SequencesExt

(* Every list of up to three findings. *)
ShortLists == BoundedSeq(Kinds, 3)
(* One finding for the model. *)
OnePlain == {<<"plain">>}

Symmetric == Permutations(Requests) \cup Permutations(Fresh)
=============================================================================
