----------------------------- MODULE DetectorRun -----------------------------
(***************************************************************************)
(* The detect stage (internal/detector/runner.go): every /check request    *)
(* runs every detector in a goroutine of its own, subprocess detectors     *)
(* share a pool of slots across requests, a scan's deadline starts when it *)
(* holds its slot, and each goroutine ends by adding its findings or its   *)
(* error to the request's, under the mutex.                                *)
(*                                                                         *)
(* What a detector finds is reduced to whether it found something and, if  *)
(* it did not, whether its scan got to the end of the diff.                *)
(***************************************************************************)
EXTENDS Integers, FiniteSets

CONSTANTS Requests,            \* /check requests being served
          Detectors,           \* detectors.enabled
          InProcess,           \* those that spawn nothing (gitleaks)
          MaxConcurrentScans,  \* detectors.max_concurrent_scans; <= 0: no pool
          ScanTimeout          \* is detectors.parallel_timeout positive?

ASSUME DetectorAssumption ==
  /\ IsFiniteSet(Requests)
  /\ IsFiniteSet(Detectors)
  /\ InProcess \subseteq Detectors
  /\ MaxConcurrentScans \in Int
  /\ ScanTimeout \in BOOLEAN

Workers == Requests \X Detectors
Req(w)  == w[1]
Det(w)  == w[2]

VARIABLES run,       \* where each request's Run stands
          phase,     \* where each goroutine stands
          outcome,   \* how each scan ended
          sem,       \* tokens in the pool's channel
          ctxDone,   \* requests whose context is done
          expired,   \* scans under way whose deadline has passed
          findings,  \* goroutines that added findings to their request's
          errs       \* goroutines that added an error to their request's

vars == <<run, phase, outcome, sem, ctxDone, expired, findings, errs>>

Phases   == {"none", "spawned", "queued", "scanning", "scanned", "merged", "done"}
(* What Scan returned: findings, of the whole diff or of part of it; an     *)
(* error; or neither, having got to the end of the diff (clean), stopped at *)
(* a line beyond a buffer (blank), or stopped as its context ended (halted).*)
Outcomes == {"none", "clean", "found", "blank", "halted", "error"}

(* NewApp makes a pool only for a positive size, and gated exempts the rest. *)
Gated(w) == MaxConcurrentScans > 0 /\ Det(w) \notin InProcess

MyWorkers(r)   == {w \in Workers : Req(w) = r}
ScanCtxDone(w) == Req(w) \in ctxDone \/ w \in expired

Go(w, from, to) == phase[w] = from /\ phase' = [phase EXCEPT ![w] = to]

Init ==
  /\ run = [r \in Requests |-> "idle"]
  /\ phase = [w \in Workers |-> "none"]
  /\ outcome = [w \in Workers |-> "none"]
  /\ sem = 0
  /\ ctxDone = {} /\ expired = {} /\ findings = {} /\ errs = {}

-----------------------------------------------------------------------------
Start(r) ==
  /\ run[r] = "idle"
  /\ run' = [run EXCEPT ![r] = "running"]
  /\ phase' = [w \in Workers |-> IF Req(w) = r THEN "spawned" ELSE phase[w]]
  /\ UNCHANGED <<outcome, sem, ctxDone, expired, findings, errs>>

(* The client goes away, or its deadline passes. *)
RequestDone(r) ==
  /\ run[r] = "running" /\ r \notin ctxDone
  /\ ctxDone' = ctxDone \cup {r}
  /\ UNCHANGED <<run, phase, outcome, sem, expired, findings, errs>>

(* Faulty: a gated scan does not wait for a slot. *)
EnterUnqueued(w) ==
  /\ Go(w, "spawned", "scanning")
  /\ UNCHANGED <<run, outcome, sem, ctxDone, expired, findings, errs>>

Enter(w) ==
  /\ IF Gated(w) THEN Go(w, "spawned", "queued") ELSE Go(w, "spawned", "scanning")
  /\ UNCHANGED <<run, outcome, sem, ctxDone, expired, findings, errs>>

TakeSlot(w) ==
  /\ sem < MaxConcurrentScans
  /\ Go(w, "queued", "scanning")
  /\ sem' = sem + 1
  /\ UNCHANGED <<run, outcome, ctxDone, expired, findings, errs>>

(* Faulty: the receive is deferred before the slot is had. *)
GiveUpReceives(w) ==
  /\ Req(w) \in ctxDone
  /\ Go(w, "queued", "done")
  /\ errs' = errs \cup {w}
  /\ sem' = sem - 1
  /\ UNCHANGED <<run, outcome, ctxDone, expired, findings>>

(* Faulty: gives up without an entry in the error map. *)
GiveUpSilently(w) ==
  /\ Req(w) \in ctxDone
  /\ Go(w, "queued", "done")
  /\ UNCHANGED <<run, outcome, sem, ctxDone, expired, findings, errs>>

(* The request gave up while the goroutine waited in line. *)
GiveUp(w) ==
  /\ Req(w) \in ctxDone
  /\ Go(w, "queued", "done")
  /\ errs' = errs \cup {w}
  /\ UNCHANGED <<run, outcome, sem, ctxDone, expired, findings>>

(* The per-scan deadline runs only while the scan does, and for nothing     *)
(* when the request's context is done.                                      *)
Deadline(w) ==
  /\ ScanTimeout
  /\ phase[w] = "scanning" /\ ~ScanCtxDone(w)
  /\ expired' = expired \cup {w}
  /\ UNCHANGED <<run, phase, outcome, sem, ctxDone, findings, errs>>

(* A subprocess that fails, or is killed, is an error only if nothing had   *)
(* been parsed from it.  The in-process scan looks at its context before    *)
(* each block only: done inside the last, it may end it there and not say.  *)
(* And WalkDiff, whose blocks the in-process scan is of, and the parsers of *)
(* the subprocesses' reports read by lines: at one beyond the scanner's     *)
(* buffer they stop, and nobody asks the scanner for its error.             *)
ScanEnds(w) ==
  {"clean", "found", "blank"} \cup
  IF Det(w) \notin InProcess THEN {"error"}
  ELSE IF ScanCtxDone(w) THEN {"error", "halted"} ELSE {}

Scan(w, end) ==
  /\ end \in ScanEnds(w)
  /\ Go(w, "scanning", "scanned")
  /\ outcome' = [outcome EXCEPT ![w] = end]
  /\ expired' = expired \ {w}
  /\ UNCHANGED <<run, sem, ctxDone, findings, errs>>

(* Faulty: an error returns before the slot is freed. *)
MergeKeepsSlotOnError(w) ==
  /\ IF Gated(w) /\ outcome[w] # "error"
     THEN Go(w, "scanned", "merged") ELSE Go(w, "scanned", "done")
  /\ errs' = IF outcome[w] = "error" THEN errs \cup {w} ELSE errs
  /\ findings' = IF outcome[w] = "found" THEN findings \cup {w} ELSE findings
  /\ UNCHANGED <<run, outcome, sem, ctxDone, expired>>

(* Faulty: an append without the mutex loses the request's other findings. *)
MergeUnlocked(w) ==
  /\ IF Gated(w) THEN Go(w, "scanned", "merged") ELSE Go(w, "scanned", "done")
  /\ errs' = IF outcome[w] = "error" THEN errs \cup {w} ELSE errs
  /\ findings' = IF outcome[w] = "found"
                 THEN {v \in findings : Req(v) # Req(w)} \cup {w} ELSE findings
  /\ UNCHANGED <<run, outcome, sem, ctxDone, expired>>

Merge(w) ==
  /\ IF Gated(w) THEN Go(w, "scanned", "merged") ELSE Go(w, "scanned", "done")
  /\ errs' = IF outcome[w] = "error" THEN errs \cup {w} ELSE errs
  /\ findings' = IF outcome[w] = "found" THEN findings \cup {w} ELSE findings
  /\ UNCHANGED <<run, outcome, sem, ctxDone, expired>>

(* The deferred receive, before wg.Done. *)
FreeSlot(w) ==
  /\ sem > 0
  /\ Go(w, "merged", "done")
  /\ sem' = sem - 1
  /\ UNCHANGED <<run, outcome, ctxDone, expired, findings, errs>>

(* wg.Wait: every goroutine of the request is done. *)
Return(r) ==
  /\ run[r] = "running"
  /\ \A w \in Workers : Req(w) = r => phase[w] = "done"
  /\ run' = [run EXCEPT ![r] = "returned"]
  /\ UNCHANGED <<phase, outcome, sem, ctxDone, expired, findings, errs>>

(* The handler is through with the result; the server's next request. *)
Forget(r) ==
  LET Others(S) == {w \in S : Req(w) # r} IN
  /\ run[r] = "returned"
  /\ run' = [run EXCEPT ![r] = "idle"]
  /\ phase' = [w \in Workers |-> IF Req(w) = r THEN "none" ELSE phase[w]]
  /\ outcome' = [w \in Workers |-> IF Req(w) = r THEN "none" ELSE outcome[w]]
  /\ ctxDone' = ctxDone \ {r}
  /\ findings' = Others(findings) /\ errs' = Others(errs)
  /\ UNCHANGED <<sem, expired>>

Worker(w) ==
  \/ Enter(w)
  \/ TakeSlot(w)
  \/ GiveUp(w)
  \/ Deadline(w)
  \/ \E end \in Outcomes : Scan(w, end)
  \/ Merge(w)
  \/ FreeSlot(w)

Next ==
  \/ \E r \in Requests : Start(r) \/ RequestDone(r) \/ Return(r) \/ Forget(r)
  \/ \E w \in Workers : Worker(w)

Spec == Init /\ [][Next]_vars

(* Timers fire, a scan whose context is done ends (its subprocess is        *)
(* killed), a free slot goes to those in line in turn, and goroutines run.  *)
(* No scan is assumed to end by itself, no client to stay or to leave.      *)
FairSpec ==
  /\ Spec
  /\ \A r \in Requests : WF_vars(Return(r))
  /\ \A w \in Workers :
       /\ WF_vars(Enter(w)) /\ WF_vars(Merge(w)) /\ WF_vars(FreeSlot(w))
       /\ WF_vars(Deadline(w))
       /\ WF_vars(ScanCtxDone(w) /\ \E end \in Outcomes : Scan(w, end))
       /\ SF_vars(TakeSlot(w) \/ GiveUp(w))

-----------------------------------------------------------------------------
AtPhases(S) == {w \in Workers : phase[w] \in S}
SlotPhases  == {"scanning", "scanned", "merged"}
Holding     == {w \in AtPhases(SlotPhases) : Gated(w)}
Queued      == AtPhases({"queued"})

TypeOK ==
  /\ run \in [Requests -> {"idle", "running", "returned"}]
  /\ phase \in [Workers -> Phases]
  /\ outcome \in [Workers -> Outcomes]
  /\ sem \in Nat
  /\ ctxDone \subseteq Requests
  /\ expired \subseteq Workers
  /\ findings \subseteq Workers
  /\ errs \subseteq Workers

(* The pool's tokens are those of the goroutines between their send and     *)
(* their deferred receive: no path out of Run's goroutine (queue, scan      *)
(* error, findings) leaks a slot or frees one it does not have.             *)
PoolAccounted == sem = Cardinality(Holding)

(* Never more subprocess scans at once, over all requests, than the pool.   *)
ScansBounded == MaxConcurrentScans > 0 => Cardinality(Holding) <= MaxConcurrentScans

(* Run's result is what every Scan returned, and no goroutine's part of it  *)
(* is lost to another's: an error exactly if Scan returned one or was never *)
(* called, findings exactly if Scan returned some without an error.  A scan *)
(* killed after its first findings is no error to Run, nor is a blank one.  *)
EveryDetectorAccounted ==
  \A r \in Requests : run[r] = "returned" =>
    \A w \in MyWorkers(r) :
      /\ w \in errs <=> outcome[w] \in {"none", "error"}
      /\ w \in findings <=> outcome[w] = "found"

(* A request with no finding and no detector error, which /check answers    *)
(* 200 with no verdict: a detector that did not get to the end of the diff  *)
(* met a line beyond its buffer, or is in-process and saw its context end.  *)
(* Waiting in line, being killed and failing never come to this.            *)
EmptyIsExplained ==
  \A r \in Requests :
    /\ run[r] = "returned"
    /\ MyWorkers(r) \cap (findings \cup errs) = {}
    => \A w \in MyWorkers(r) :
         \/ outcome[w] \in {"clean", "blank"}
         \/ /\ outcome[w] = "halted" /\ Det(w) \in InProcess
            /\ r \in ctxDone \/ ScanTimeout

(* The pool is a slot gate for the gated goroutines.                        *)
Gate == INSTANCE SlotGate WITH Callers <- {w \in Workers : Gated(w)},
                               Capacity <- MaxConcurrentScans,
                               queued <- Queued, holders <- Holding

(* Every step is a step of the gate or invisible to it: a goroutine gets a  *)
(* slot from the line only, and only when there is room.                    *)
PoolIsAGate == Gate!GateSafety

(* Run returns, even if no scan ever ends by itself, when scans have a      *)
(* deadline: whoever waits in line is behind scans that time out.           *)
RunReturns == \A r \in Requests : run[r] = "running" ~> run[r] = "returned"
=============================================================================
