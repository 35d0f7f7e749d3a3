---------------------------- MODULE Reachability ----------------------------
(***************************************************************************)
(* The reachability watcher (internal/llm/health.go): a goroutine probes   *)
(* the LLM endpoint once at start and then once per ticker interval, and   *)
(* caches the result with its time; /readyz only reads the cache.          *)
(*                                                                         *)
(* Time is discrete.  Tick lets one unit pass and may not pass the moment  *)
(* something is due: a probe's deadline, the answer of a backend that is   *)
(* up, or the longest pause the scheduler imposes on a runnable goroutine. *)
(***************************************************************************)
EXTENDS Integers

CONSTANTS Interval,  \* llm.healthcheck_interval
          MaxProbe,  \* the longest answer of a backend that is up
          MaxPause   \* the longest a runnable goroutine is kept from running

(* A pause is what the comment on staleMultiplier calls one: short of an    *)
(* interval, so that at most one tick is missed.                            *)
ASSUME ReachabilityAssumption ==
  /\ Interval \in Nat \ {0} /\ MaxProbe \in Nat /\ MaxPause \in Nat
  /\ MaxProbe < Interval
  /\ 2 * MaxPause + MaxProbe <= 2 * Interval

(* Faulty: one interval less, so that a probe late by a tick is stale. *)
StaleEarly == 2 * Interval

Stale == 3 * Interval  \* staleMultiplier

(* How long a change of the backend may stay unnoticed, at worst when it    *)
(* comes just after the first probe began, since the ticker starts after    *)
(* that probe.  Up: it runs into its deadline before the next one succeeds. *)
(* Down: its answer, on its way at the change, is cached before one fails.  *)
UpNotice     == 2 * Interval + 3 * MaxPause + MaxProbe
DownNotice   == 3 * Interval + 3 * MaxPause
WedgedNotice == Interval + MaxPause + Stale
Horizon      == 4 * Interval + 3 * MaxPause + MaxProbe + 1

VARIABLES loop,       \* where the goroutine stands
          waited,     \* time since it could last have moved, or the probe began
          answer,     \* what Probe returned
          reachable,  \* the cached result
          age,        \* time since lastCheck, -1 while lastCheck is zero
          toTick,     \* time to the ticker's next tick, 0: no ticker
          tick,       \* is a tick waiting in the ticker's channel?
          stop,       \* is the stop channel closed?
          up,         \* does the backend answer?
          since       \* time since that changed, up to Horizon

vars == <<loop, waited, answer, reachable, age, toTick, tick, stop, up, since>>
cache == <<reachable, age>>
ticker == <<toTick, tick>>
backend == <<up, since>>

TypeOK ==
  /\ loop \in {"started", "probing", "answered", "waiting", "exited"}
  /\ waited \in 0..Interval
  /\ answer \in BOOLEAN /\ reachable \in BOOLEAN
  /\ tick \in BOOLEAN /\ stop \in BOOLEAN /\ up \in BOOLEAN
  /\ age \in -1..(Stale + 1)
  /\ toTick \in 0..Interval
  /\ since \in 0..Horizon

Init ==
  /\ loop = "started" /\ waited = 0 /\ answer = FALSE
  /\ reachable = FALSE /\ age = -1
  /\ toTick = 0 /\ tick = FALSE /\ stop = FALSE
  /\ up \in BOOLEAN /\ since = 0

Go(from, to) == loop = from /\ loop' = to /\ waited' = 0

(* Faulty: a cached result is good for as long as there is no other. *)
ReadyForGood == age # -1 /\ reachable

Ready == age # -1 /\ age <= Stale /\ reachable

-----------------------------------------------------------------------------
(* The first probe does not wait for the ticker. *)
FirstProbe ==
  /\ Go("started", "probing")
  /\ UNCHANGED <<answer, cache, ticker, stop, backend>>

(* The backend has been up for all of the probe, to the unit. *)
UpThroughout == up /\ since > waited

(* An answer may come from a backend that has gone down since; a probe      *)
(* fails for a backend that is or was down, and by its deadline.            *)
Answer(ok) ==
  /\ IF ok THEN up \/ since <= waited ELSE ~UpThroughout
  /\ Go("probing", "answered")
  /\ answer' = ok
  /\ UNCHANGED <<cache, ticker, stop, backend>>

(* After the first probe the ticker starts. *)
Stamp ==
  /\ Go("answered", "waiting")
  /\ reachable' = answer /\ age' = 0
  /\ IF toTick = 0 THEN toTick' = Interval ELSE UNCHANGED toTick
  /\ UNCHANGED <<answer, tick, stop, backend>>

TakeTick ==
  /\ tick
  /\ Go("waiting", "probing")
  /\ tick' = FALSE
  /\ UNCHANGED <<answer, cache, toTick, stop, backend>>

Exit ==
  /\ stop
  /\ Go("waiting", "exited")
  /\ toTick' = 0 /\ tick' = FALSE
  /\ UNCHANGED <<answer, cache, stop, backend>>

Stop ==
  /\ ~stop /\ stop' = TRUE
  /\ UNCHANGED <<loop, waited, answer, cache, ticker, backend>>

(* The backend comes up or goes down, at most once a unit. *)
Flip ==
  /\ since > 0
  /\ up' = (~up) /\ since' = 0
  /\ UNCHANGED <<loop, waited, answer, cache, ticker, stop>>

-----------------------------------------------------------------------------
Runnable ==
  \/ loop \in {"started", "answered"}
  \/ loop = "waiting" /\ (tick \/ stop)

(* Faulty: the probe's context has no deadline. *)
NothingDueNoDeadline ==
  /\ (loop = "probing" /\ UpThroughout) => waited < MaxProbe
  /\ Runnable => waited < MaxPause

NothingDue ==
  /\ loop = "probing" => waited < (IF UpThroughout THEN MaxProbe ELSE Interval)
  /\ Runnable => waited < MaxPause

Upto(n, bound) == IF n < bound THEN n + 1 ELSE bound

(* The ticker's channel holds one tick; a tick that finds it full is gone. *)
Tick ==
  /\ NothingDue
  /\ waited' = IF loop = "probing" \/ Runnable THEN Upto(waited, Interval + 1) ELSE 0
  /\ age' = IF age = -1 THEN -1 ELSE Upto(age, Stale + 1)
  /\ toTick' = IF toTick = 1 THEN Interval ELSE IF toTick = 0 THEN 0 ELSE toTick - 1
  /\ tick' = (tick \/ toTick = 1)
  /\ since' = Upto(since, Horizon)
  /\ UNCHANGED <<loop, answer, reachable, stop, up>>

Goroutine == FirstProbe \/ (\E ok \in BOOLEAN : Answer(ok)) \/ Stamp \/ TakeTick \/ Exit

Next == Goroutine \/ Stop \/ Flip \/ Tick

(* Time passes, and what is due is done.  A probe is answered in the end    *)
(* only for its deadline, which makes the answer due.                       *)
(* select picks among its ready cases at random, so Exit, ready over and    *)
(* over with a tick beside it, is taken in the end.                         *)
Spec == Init /\ [][Next]_vars
FairSpec ==
  Spec /\ WF_vars(Tick) /\ WF_vars(~NothingDue /\ Goroutine) /\ SF_vars(Exit)

-----------------------------------------------------------------------------
(* While the watcher runs, a backend that is up for UpNotice units is ready *)
(* and stays so: neither a slow probe nor a paused goroutine flips it       *)
(* (health.go:30-33).                                                       *)
UpIsNoticed == (up /\ since > UpNotice /\ ~stop) => Ready

(* A backend that has been down for DownNotice units is not ready, though   *)
(* the last answer was still on its way when it went down.                  *)
DownIsNoticed == (~up /\ since > DownNotice /\ ~stop) => ~Ready

(* Nor is it with a watcher that has stopped probing, after Stale more      *)
(* units: readiness fails closed (health.go:14-17, handlers.go:202-204).    *)
WedgedIsNoticed == (~up /\ since > WedgedNotice) => ~Ready

(* Stop, which waits for the goroutine, returns, the endpoint hanging or    *)
(* not.                                                                     *)
StopReturns == stop ~> loop = "exited"
=============================================================================
