--------------------------- MODULE MCDeepWindows ---------------------------
(* DeepWindows with sizes that make blocks fit, be split, and not fit at all. *)
EXTENDS DeepWindows

(* A long line is more than a window of 4 tokens. *)
Sizes == [t \in Texts |-> IF t = "long" THEN 12 ELSE 2]
Headers == [p \in AllPaths |-> 3]
=============================================================================
