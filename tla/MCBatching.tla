----------------------------- MODULE MCBatching -----------------------------
(* Batching with findings small, large and too large for a call of 10 tokens *)
(* (30 characters): a match that is clamped, a context that is clamped.      *)
EXTENDS Batching

MatchSizes == [k \in Keys |-> IF k = 2 THEN 40 ELSE 3]
ContextSizes == [k \in Keys |-> IF k = 3 THEN 60 ELSE 6]

(* Every key found once by one detector; the third by two, and verified. *)
Report(k, l, v) == [key |-> k, label |-> l, verified |-> v]
Reports == {Report(k, 1, FALSE) : k \in Keys}
           \cup {Report(3, 1, TRUE), Report(3, 2, FALSE)}

Config(maxCount, perCall, input, diff) ==
  [maxCount |-> maxCount, perCall |-> perCall, input |-> input, output |-> 2, diff |-> diff]

(* No limits, limits, no budget, a budget the output takes all of. *)
SomeConfigs ==
  {Config(0, p, i, 6) : p \in {0, 1, 2}, i \in {0, 2, 14}}
  \cup {Config(3, 2, 14, 30), Config(0, 2, 60, 6), Config(0, 0, 60, 6)}
=============================================================================
