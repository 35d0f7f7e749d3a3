---------------------------- MODULE CheckRequest ----------------------------
(***************************************************************************)
(* POST /check from the body to the audit entry (internal/api/handlers.go, *)
(* internal/llm/adjudicate.go, recovery.go, review.go, deep.go): detect,   *)
(* decide without the model what can be, adjudicate the rest under an LLM  *)
(* slot, then, when asked, read the added lines window by window and put   *)
(* what that finds through the same adjudication, answer, audit.           *)
(*                                                                         *)
(* The slots are SlotGate's, which LLMSemaphore implements.  Detection is  *)
(* what DetectorRun shows of it: a detector either errs or reports.  The   *)
(* findings of a request are numbered in the order Dedup leaves them and   *)
(* keep only what decides their way, a reply keeps only what it says of    *)
(* each finding.  One LLM call is one step.                                *)
(***************************************************************************)
EXTENDS Integers, FiniteSets, Sequences

CONSTANTS Requests,               \* calls of /check
          Capacity,               \* LLM slots
          QueueMax,               \* llm.queue_max; zero or less: no cap
          MaxFindingsPerRequest,  \* llm.max_findings_per_request; <= 0: no cap
          MaxFindingsPerCall,     \* llm.max_findings_per_call; <= 0: no cap
          DeepEnabled,            \* llm.deep_scan.enabled
          DeepReview,             \* llm.deep_scan.review
          AdmissionWait,          \* is llm.deep_scan.admission_wait positive?
          Found,                  \* the finding lists that can reach the LLM stage
          Failures,               \* how many detectors may err: none, some, all
          Claims,                 \* what a deep read may report to be a credential
          Fresh,                  \* of these, the ones that are in the diff, look like
                                  \* a secret and are no detector's finding
          MaxWindows              \* the most windows a plan has

Kinds == {"verified", "sentinel", "plain"}

ASSUME CheckAssumption ==
  /\ IsFiniteSet(Requests)
  /\ Capacity \in Nat \ {0}
  /\ {QueueMax, MaxFindingsPerRequest, MaxFindingsPerCall} \subseteq Int
  /\ {DeepEnabled, DeepReview, AdmissionWait} \subseteq BOOLEAN
  /\ Found \subseteq Seq(Kinds)
  /\ Failures \subseteq {"none", "some", "all"}
  /\ Fresh \subseteq Claims /\ IsFiniteSet(Fresh)
  /\ MaxWindows \in Nat

VARIABLES stage,       \* where each request's handler stands
          ctxDone,     \* requests whose context is done
          queued,      \* requests queued in Acquire
          holders,     \* requests holding an LLM slot
          attempt,     \* completeParsed's calls, 1 or 2
          found,       \* deduped
          failed,      \* which detectors erred: "none", "some" or "all"
          deep,        \* did the caller ask for a deep read?
          said,        \* what the model has said of each finding
          verdicts,    \* verdicts[]
          planned,     \* len(windows)
          cut,         \* the plan's truncated
          scanned,     \* WindowsScanned
          candidates,  \* the deep read's claims so far
          grounded,    \* those Ground found in the diff
          judged,      \* what the model has said of each in review
          discoveries, \* discoveries[]
          withheld,    \* those not reported because review did not judge them
          deepStatus,  \* stats.deep_scan.status
          ran,         \* stats.deep_scan.ran
          answer,      \* the HTTP status sent, 0 before
          audit        \* the request's audit entry

gate      == <<queued, holders>>
input     == <<found, failed, deep>>
shallow   == <<said, verdicts>>
read      == <<planned, cut, scanned, candidates>>
review    == <<grounded, judged, discoveries, withheld>>
deepStats == <<deepStatus, ran>>
vars == <<stage, ctxDone, gate, attempt, input, shallow, read, review, deepStats,
          answer, audit>>

Slots == INSTANCE SlotGate WITH Callers <- Requests

CallStages == {"adjudicating", "reading", "reviewing"}
DeepStages == {"deep", "window", "reading", "grounding", "review", "reviewing"}
Stages == {"idle", "detect", "triage", "acquire", "queued", "respond", "audit", "answered"}
          \cup CallStages \cup DeepStages

Says == {"confirmed", "dismissed", "other"}   \* other: no verdict, or no known one
Verdicts == {"confirmed", "dismissed", "unreviewed"}

Go(r, from, to) == stage[r] = from /\ stage' = [stage EXCEPT ![r] = to]
Set(f, r, v)    == [f EXCEPT ![r] = v]
SendStatus(r, code) == answer' = Set(answer, r, code)

Init ==
  /\ stage = [r \in Requests |-> "idle"]
  /\ ctxDone = {} /\ queued = {} /\ holders = {}
  /\ attempt = [r \in Requests |-> 1]
  /\ found = [r \in Requests |-> <<>>]
  /\ failed = [r \in Requests |-> "none"]
  /\ deep = [r \in Requests |-> FALSE]
  /\ said = [r \in Requests |-> <<>>]
  /\ verdicts = [r \in Requests |-> <<>>]
  /\ planned = [r \in Requests |-> 0]
  /\ cut = [r \in Requests |-> FALSE]
  /\ scanned = [r \in Requests |-> 0]
  /\ candidates = [r \in Requests |-> {}]
  /\ grounded = [r \in Requests |-> {}]
  /\ judged = [r \in Requests |-> <<>>]
  /\ discoveries = [r \in Requests |-> {}]
  /\ withheld = [r \in Requests |-> {}]
  /\ deepStatus = [r \in Requests |-> "none"]
  /\ ran = [r \in Requests |-> FALSE]
  /\ answer = [r \in Requests |-> 0]
  /\ audit = [r \in Requests |-> "none"]

-----------------------------------------------------------------------------
(* Reading and detecting *)

Arrive(r, d) ==
  /\ Go(r, "idle", "detect")
  /\ deep' = Set(deep, r, d)
  /\ UNCHANGED <<ctxDone, gate, attempt, found, failed, shallow, read, review,
                 deepStats, answer, audit>>

(* readCheckRequest's error: body, size or content type. *)
BadRequest(r) ==
  /\ Go(r, "idle", "answered")
  /\ SendStatus(r, 400)
  /\ UNCHANGED <<ctxDone, gate, attempt, input, shallow, read, review, deepStats, audit>>

(* The client goes away, or the server's deadline for it passes. *)
ContextDone(r) ==
  /\ stage[r] \notin {"idle", "audit", "answered"} /\ r \notin ctxDone
  /\ ctxDone' = ctxDone \cup {r}
  /\ UNCHANGED <<stage, gate, attempt, input, shallow, read, review, deepStats,
                 answer, audit>>

(* Faulty: fails closed only when every detector has failed. *)
DetectFailsOpen(r, fs, errs) ==
  /\ errs = "all" => fs = <<>>
  /\ found' = Set(found, r, fs)
  /\ failed' = Set(failed, r, errs)
  /\ said' = Set(said, r, [i \in DOMAIN fs |-> "unasked"])
  /\ IF errs = "all"
     THEN Go(r, "detect", "answered") /\ SendStatus(r, 503)
     ELSE Go(r, "detect", "triage") /\ UNCHANGED answer
  /\ UNCHANGED <<ctxDone, gate, attempt, deep, verdicts, read, review, deepStats, audit>>

(* A failed detector and nothing to show is a 503, never an empty 200. *)
Detect(r, fs, errs) ==
  /\ errs = "all" => fs = <<>>
  /\ found' = Set(found, r, fs)
  /\ failed' = Set(failed, r, errs)
  /\ said' = Set(said, r, [i \in DOMAIN fs |-> "unasked"])
  /\ IF errs # "none" /\ fs = <<>>
     THEN Go(r, "detect", "answered") /\ SendStatus(r, 503)
     ELSE Go(r, "detect", "triage") /\ UNCHANGED answer
  /\ UNCHANGED <<ctxDone, gate, attempt, deep, verdicts, read, review, deepStats, audit>>

-----------------------------------------------------------------------------
(* Adjudicate *)

(* Findings past the cap are never looked at. *)
InCap(r) == {i \in DOMAIN found[r] :
                     MaxFindingsPerRequest <= 0 \/ i <= MaxFindingsPerRequest}
LLMBound(r) == {i \in InCap(r) : found[r][i] = "plain"}
Unasked(r)  == {i \in LLMBound(r) : said[r][i] = "unasked"}

(* What review has yet to ask about, or has heard these words about. *)
Judged(r, words) == {v \in grounded[r] : judged[r][v] \in words}

(* There is a call to make: batches remain, or a window is being read. *)
Calling(r) ==
  \/ stage[r] = "adjudicating" /\ Unasked(r) # {}
  \/ stage[r] = "reading"
  \/ stage[r] = "reviewing" /\ Judged(r, {"unasked"}) # {}

(* Batches are packed by tokens, then split by count; one is never empty. *)
IsBatch(b) == b # {} /\ (MaxFindingsPerCall <= 0 \/ Cardinality(b) <= MaxFindingsPerCall)

(* Faulty: what the model was not asked is left out as if dismissed. *)
FinalVerdictDropsGaps(kind, word, inCap) ==
  IF ~inCap                 THEN "confirmed"
  ELSE IF kind = "verified" THEN "confirmed"
  ELSE IF kind = "sentinel" THEN "dismissed"
  ELSE IF word \in {"confirmed", "dismissed"} THEN word ELSE "dismissed"

(* shortCircuit, then mergeAndFill's gap-fill, then mergeVerdicts' own for  *)
(* the findings Adjudicate returned nothing for.                            *)
FinalVerdict(kind, word, inCap) ==
  IF ~inCap                 THEN "confirmed"
  ELSE IF kind = "verified" THEN "confirmed"
  ELSE IF kind = "sentinel" THEN "dismissed"
  ELSE IF word \in {"confirmed", "dismissed"} THEN word ELSE "unreviewed"

MergedVerdicts(r) ==
  [i \in DOMAIN found[r] |-> FinalVerdict(found[r][i], said[r][i], i \in InCap(r))]

(* Nothing for the model: no slot is asked for. *)
TriageDecidesAll(r) ==
  /\ LLMBound(r) = {}
  /\ Go(r, "triage", "deep")
  /\ verdicts' = Set(verdicts, r, MergedVerdicts(r))
  /\ UNCHANGED <<ctxDone, gate, attempt, input, said, read, review, deepStats, answer, audit>>

TriageNeedsModel(r) ==
  /\ LLMBound(r) # {}
  /\ Go(r, "triage", "acquire")
  /\ UNCHANGED <<ctxDone, gate, attempt, input, shallow, read, review, deepStats,
                 answer, audit>>

(* Requests that may count towards the semaphore's depth. *)
Others(r) == {q \in Requests \ {r} : stage[q] \notin {"idle", "answered"}}

(* A rejection is earned (LLMSemaphore!RejectedOnlyUnderLoad). *)
QueueFull(r) ==
  /\ QueueMax > 0 /\ Cardinality(Others(r)) >= QueueMax
  /\ Go(r, "acquire", "answered")
  /\ SendStatus(r, 503)
  /\ UNCHANGED <<ctxDone, gate, attempt, input, shallow, read, review, deepStats, audit>>

Enqueue(r) ==
  /\ Slots!Enqueue(r)
  /\ Go(r, "acquire", "queued")
  /\ UNCHANGED <<ctxDone, attempt, input, shallow, read, review, deepStats, answer, audit>>

Admit(r) ==
  /\ Slots!Admit(r)
  /\ Go(r, "queued", "adjudicating")
  /\ attempt' = Set(attempt, r, 1)
  /\ UNCHANGED <<ctxDone, input, shallow, read, review, deepStats, answer, audit>>

Cancelled(r) ==
  /\ r \in ctxDone
  /\ Slots!Abandon(r)
  /\ Go(r, "queued", "answered")
  /\ SendStatus(r, 502)
  /\ UNCHANGED <<ctxDone, attempt, input, shallow, read, review, deepStats, audit>>

(* Faulty: asks again for as long as replies are bad. *)
RetryForever(r) ==
  /\ Calling(r)
  /\ r \notin ctxDone
  /\ attempt' = Set(attempt, r, 3 - attempt[r])
  /\ UNCHANGED <<stage, ctxDone, gate, input, shallow, read, review, deepStats,
                 answer, audit>>

(* completeParsed: an incomplete or malformed reply, or a 5xx, is asked for *)
(* once more; the context is looked at before each call.                    *)
Retry(r) ==
  /\ Calling(r)
  /\ r \notin ctxDone
  /\ attempt[r] = 1
  /\ attempt' = Set(attempt, r, 2)
  /\ UNCHANGED <<stage, ctxDone, gate, input, shallow, read, review, deepStats,
                 answer, audit>>

(* Faulty: the slot goes back after each batch. *)
AskBatchReleases(r, batch, reply) ==
  /\ Slots!Return(r)
  /\ stage[r] = "adjudicating"
  /\ r \notin ctxDone
  /\ IsBatch(batch)
  /\ said' = Set(said, r, [i \in DOMAIN said[r] |->
                             IF i \in batch THEN reply[i] ELSE said[r][i]])
  /\ attempt' = Set(attempt, r, 1)
  /\ UNCHANGED <<stage, ctxDone, input, verdicts, read, review, deepStats,
                 answer, audit>>

(* A reply that parses speaks for its batch, whose ids (hashes) only that   *)
(* call's prompt carries; the next call starts afresh.                      *)
AskBatch(r, batch, reply) ==
  /\ stage[r] = "adjudicating"
  /\ r \notin ctxDone
  /\ IsBatch(batch)
  /\ said' = Set(said, r, [i \in DOMAIN said[r] |->
                             IF i \in batch THEN reply[i] ELSE said[r][i]])
  /\ attempt' = Set(attempt, r, 1)
  /\ UNCHANGED <<stage, ctxDone, gate, input, verdicts, read, review, deepStats,
                 answer, audit>>

(* Faulty: a batch that fails is passed over. *)
AdjudicationFailsGoesOn(r) ==
  /\ Slots!Return(r)
  /\ Go(r, "adjudicating", "deep")
  /\ Unasked(r) # {}
  /\ verdicts' = Set(verdicts, r, MergedVerdicts(r))
  /\ UNCHANGED <<ctxDone, attempt, input, said, read, review, deepStats, answer, audit>>

(* A refusal, a 4xx, a transport error, a deadline, or a second bad reply, *)
(* in any batch, fails the request: the batches already done are dropped.  *)
AdjudicationFails(r) ==
  /\ Slots!Return(r)
  /\ Go(r, "adjudicating", "answered")
  /\ Unasked(r) # {}
  /\ SendStatus(r, 502)
  /\ UNCHANGED <<ctxDone, attempt, input, shallow, read, review, deepStats, audit>>

AdjudicationEnds(r) ==
  /\ Unasked(r) = {}
  /\ Slots!Return(r)
  /\ Go(r, "adjudicating", "deep")
  /\ verdicts' = Set(verdicts, r, MergedVerdicts(r))
  /\ UNCHANGED <<ctxDone, attempt, input, said, read, review, deepStats, answer, audit>>

-----------------------------------------------------------------------------
(* The deep read *)

(* Not asked for, not enabled, or excluded by a selection rule. *)
NoDeepRead(r) ==
  /\ Go(r, "deep", "respond")
  /\ \/ ~deep[r] /\ UNCHANGED deepStatus
     \/ deep[r] /\ ~DeepEnabled /\ deepStatus' = Set(deepStatus, r, "disabled")
     \/ deep[r] /\ DeepEnabled /\ deepStatus' = Set(deepStatus, r, "skipped")
  /\ UNCHANGED <<ctxDone, gate, attempt, input, shallow, read, review, ran, answer, audit>>

(* A plan without windows, no line having been added, is complete at once. *)
Plan(r, n, c) ==
  /\ deep[r] /\ DeepEnabled
  /\ c => n = MaxWindows
  /\ Go(r, "deep", "window")
  /\ planned' = Set(planned, r, n)
  /\ cut' = Set(cut, r, c)
  /\ UNCHANGED <<ctxDone, gate, attempt, input, shallow, scanned, candidates, review,
                 deepStats, answer, audit>>

(* TryAcquire says yes. *)
Borrow(r, from, to) ==
  /\ Slots!Borrow(r)
  /\ Go(r, from, to)
  /\ attempt' = Set(attempt, r, 1)
  /\ UNCHANGED <<ctxDone, input, shallow, read, review, deepStats, answer, audit>>

(* TryAcquire may say no while others use the gate or, where it waits, when *)
(* its context is done.                                                     *)
MayBeRefused(r) == Others(r) # {} \/ (AdmissionWait /\ r \in ctxDone)

(* Faulty: one window more than planned. *)
OpenWindowOffByOne(r) ==
  /\ scanned[r] <= planned[r]
  /\ Borrow(r, "window", "reading")

OpenWindow(r) ==
  /\ scanned[r] < planned[r]
  /\ Borrow(r, "window", "reading")

ScanEnds(r, status) ==
  /\ deepStatus' = Set(deepStatus, r, status)
  /\ ran' = Set(ran, r, status \in {"complete", "partial"})
  /\ UNCHANGED <<ctxDone, gate, attempt, input, shallow, read, review, answer, audit>>

(* The read stops for good: what it has read is grounded, if anything. *)
WindowRefused(r) ==
  /\ scanned[r] < planned[r] /\ MayBeRefused(r)
  /\ IF scanned[r] = 0
     THEN Go(r, "window", "respond") /\ ScanEnds(r, "deferred")
     ELSE Go(r, "window", "grounding") /\ ScanEnds(r, "partial")

AllWindowsRead(r) ==
  /\ scanned[r] = planned[r]
  /\ Go(r, "window", "grounding")
  /\ ScanEnds(r, "complete")

WindowRead(r, claims) ==
  /\ r \notin ctxDone
  /\ Slots!Return(r)
  /\ Go(r, "reading", "window")
  /\ scanned' = Set(scanned, r, scanned[r] + 1)
  /\ candidates' = Set(candidates, r, candidates[r] \cup claims)
  /\ UNCHANGED <<ctxDone, attempt, input, shallow, planned, cut, review, deepStats,
                 answer, audit>>

(* Faulty: a window's error returns before the release. *)
WindowFailsKeepsSlot(r) ==
  /\ Go(r, "reading", "respond")
  /\ deepStatus' = Set(deepStatus, r, "failed")
  /\ UNCHANGED <<ctxDone, gate, attempt, input, shallow, read, review, ran, answer, audit>>

(* Faulty: the deep read's error is the request's. *)
WindowFailsRequest(r) ==
  /\ Slots!Return(r)
  /\ Go(r, "reading", "answered")
  /\ deepStatus' = Set(deepStatus, r, "failed")
  /\ SendStatus(r, 502)
  /\ UNCHANGED <<ctxDone, attempt, input, shallow, read, review, ran, audit>>

(* One window's error discards what the others found. *)
WindowFails(r) ==
  /\ Slots!Return(r)
  /\ Go(r, "reading", "respond")
  /\ deepStatus' = Set(deepStatus, r, "failed")
  /\ UNCHANGED <<ctxDone, attempt, input, shallow, read, review, ran, answer, audit>>

(* Ground keeps what is in the diff, is a secret, and is not a verdict's. *)
Ground(r) ==
  LET kept == candidates[r] \cap Fresh
      toReview == DeepReview /\ kept # {} IN
  /\ IF toReview THEN Go(r, "grounding", "review") ELSE Go(r, "grounding", "respond")
  /\ grounded' = Set(grounded, r, kept)
  /\ judged' = Set(judged, r, [v \in kept |-> "unasked"])
  /\ discoveries' = Set(discoveries, r, IF toReview THEN {} ELSE kept)
  /\ UNCHANGED <<ctxDone, gate, attempt, input, shallow, read, withheld,
                 deepStats, answer, audit>>

-----------------------------------------------------------------------------
(* Review *)

ReviewAdmitted(r) == Borrow(r, "review", "reviewing")

(* Faulty: with no slot for a review, reports what it would have reviewed. *)
ReviewRefusedReports(r) ==
  /\ MayBeRefused(r)
  /\ Go(r, "review", "respond")
  /\ deepStatus' = Set(deepStatus, r, "partial")
  /\ discoveries' = Set(discoveries, r, grounded[r])
  /\ UNCHANGED <<ctxDone, gate, attempt, input, shallow, read, grounded, judged,
                 withheld, ran, answer, audit>>

ReviewRefused(r) ==
  /\ MayBeRefused(r)
  /\ Go(r, "review", "respond")
  /\ deepStatus' = Set(deepStatus, r, "partial")
  /\ withheld' = Set(withheld, r, grounded[r])
  /\ UNCHANGED <<ctxDone, gate, attempt, input, shallow, read, grounded, judged,
                 discoveries, ran, answer, audit>>

ReviewBatch(r, batch, reply) ==
  /\ stage[r] = "reviewing"
  /\ r \notin ctxDone
  /\ IsBatch(batch)
  /\ judged' = Set(judged, r, [v \in DOMAIN judged[r] |->
                                 IF v \in batch THEN reply[v] ELSE judged[r][v]])
  /\ attempt' = Set(attempt, r, 1)
  /\ UNCHANGED <<stage, ctxDone, gate, input, shallow, read, grounded, discoveries,
                 withheld, deepStats, answer, audit>>

ReviewFails(r) ==
  /\ Slots!Return(r)
  /\ Go(r, "reviewing", "respond")
  /\ Judged(r, {"unasked"}) # {}
  /\ deepStatus' = Set(deepStatus, r, "failed")
  /\ withheld' = Set(withheld, r, grounded[r])
  /\ UNCHANGED <<ctxDone, attempt, input, shallow, read, grounded, judged, discoveries,
                 ran, answer, audit>>

(* Faulty: those without a verdict count as dismissed. *)
ReviewEndsDropsGaps(r) ==
  /\ Judged(r, {"unasked"}) = {}
  /\ Slots!Return(r)
  /\ Go(r, "reviewing", "respond")
  /\ discoveries' = Set(discoveries, r, Judged(r, {"confirmed"}))
  /\ UNCHANGED <<ctxDone, attempt, input, shallow, read, grounded, judged, withheld,
                 deepStats, answer, audit>>

ReviewEnds(r) ==
  /\ Judged(r, {"unasked"}) = {}
  /\ Slots!Return(r)
  /\ Go(r, "reviewing", "respond")
  /\ discoveries' = Set(discoveries, r, Judged(r, {"confirmed"}))
  /\ withheld' = Set(withheld, r, Judged(r, {"other"}))
  /\ deepStatus' = IF Judged(r, {"other"}) = {} THEN deepStatus
                   ELSE Set(deepStatus, r, "partial")
  /\ UNCHANGED <<ctxDone, attempt, input, shallow, read, grounded, judged, ran,
                 answer, audit>>

-----------------------------------------------------------------------------
(* Answering *)

Respond(r) ==
  /\ Go(r, "respond", "audit")
  /\ SendStatus(r, 200)
  /\ UNCHANGED <<ctxDone, gate, attempt, input, shallow, read, review, deepStats, audit>>

(* The entry is written after the answer; a failed write is only logged. *)
WriteAudit(r, result) ==
  /\ Go(r, "audit", "answered")
  /\ audit' = Set(audit, r, result)
  /\ UNCHANGED <<ctxDone, gate, attempt, input, shallow, read, review, deepStats, answer>>

(* The handler returns and its locals go; the caller's next request. *)
Forget(r) ==
  LET Reset(f, v) == f' = Set(f, r, v) IN
  /\ Go(r, "answered", "idle")
  /\ ctxDone' = ctxDone \ {r}
  /\ Reset(attempt, 1)
  /\ Reset(found, <<>>) /\ Reset(failed, "none") /\ Reset(deep, FALSE)
  /\ Reset(said, <<>>) /\ Reset(verdicts, <<>>)
  /\ Reset(planned, 0) /\ Reset(cut, FALSE) /\ Reset(scanned, 0) /\ Reset(candidates, {})
  /\ Reset(grounded, {}) /\ Reset(judged, <<>>) /\ Reset(discoveries, {}) /\ Reset(withheld, {})
  /\ Reset(deepStatus, "none") /\ Reset(ran, FALSE)
  /\ Reset(answer, 0) /\ Reset(audit, "none")
  /\ UNCHANGED gate

-----------------------------------------------------------------------------
CallLLM(r) ==
  \/ \E b \in SUBSET Unasked(r) : \E reply \in [b -> Says] : AskBatch(r, b, reply)
  \/ AdjudicationFails(r)
  \/ AdjudicationEnds(r)
  \/ \E claims \in SUBSET Claims : WindowRead(r, claims)
  \/ WindowFails(r)
  \/ \E b \in SUBSET Judged(r, {"unasked"}) :
       \E reply \in [b -> Says] : ReviewBatch(r, b, reply)
  \/ ReviewFails(r)
  \/ ReviewEnds(r)

Receive(r) ==
  \/ \E d \in BOOLEAN : Arrive(r, d)
  \/ BadRequest(r)
  \/ ContextDone(r)
  \/ Forget(r)

Handle(r) ==
  \/ \E fs \in Found, errs \in Failures : Detect(r, fs, errs)
  \/ TriageDecidesAll(r) \/ TriageNeedsModel(r)
  \/ QueueFull(r) \/ Enqueue(r)
  \/ NoDeepRead(r)
  \/ \E n \in 0..MaxWindows, c \in BOOLEAN : Plan(r, n, c)
  \/ OpenWindow(r) \/ WindowRefused(r) \/ AllWindowsRead(r) \/ Ground(r)
  \/ ReviewAdmitted(r) \/ ReviewRefused(r)
  \/ Respond(r)
  \/ \E result \in {"written", "lost"} : WriteAudit(r, result)

Next ==
  \E r \in Requests :
    Receive(r) \/ Handle(r) \/ Admit(r) \/ Cancelled(r) \/ Retry(r) \/ CallLLM(r)

Spec == Init /\ [][Next]_vars

(* Handlers run; every LLM call ends (llm.request_timeout), though nothing  *)
(* is assumed of what it returns; the semaphore answers whoever queues      *)
(* (LLMSemaphore!GateSpec).  No context is assumed to be done.              *)
FairSpec ==
  /\ Spec
  /\ \A r \in Requests :
       /\ WF_vars(Handle(r) \/ Retry(r) \/ CallLLM(r))
       /\ SF_vars(Admit(r) \/ Cancelled(r))

-----------------------------------------------------------------------------
Served(r) == answer[r] = 200

TypeOK ==
  /\ stage \in [Requests -> Stages]
  /\ ctxDone \subseteq Requests
  /\ queued \subseteq Requests
  /\ holders \subseteq Requests
  /\ attempt \in [Requests -> 1..2]
  /\ found \in [Requests -> Seq(Kinds)]
  /\ failed \in [Requests -> {"none", "some", "all"}]
  /\ deep \in [Requests -> BOOLEAN]
  /\ \A r \in Requests :
       /\ said[r] \in [DOMAIN found[r] -> Says \cup {"unasked"}]
       /\ verdicts[r] = <<>> \/ verdicts[r] \in [DOMAIN found[r] -> Verdicts]
       /\ judged[r] \in [grounded[r] -> Says \cup {"unasked"}]
  /\ planned \in [Requests -> 0..MaxWindows]
  /\ cut \in [Requests -> BOOLEAN]
  /\ scanned \in [Requests -> 0..MaxWindows]
  /\ candidates \in [Requests -> SUBSET Claims]
  /\ {grounded, discoveries, withheld} \subseteq [Requests -> SUBSET Fresh]
  /\ deepStatus \in [Requests -> {"none", "disabled", "skipped", "complete",
                                   "partial", "deferred", "failed"}]
  /\ ran \in [Requests -> BOOLEAN]
  /\ answer \in [Requests -> {0, 200, 400, 502, 503}]
  /\ audit \in [Requests -> {"none", "written", "lost"}]

(* A request holds an LLM slot exactly while it is making calls under it,   *)
(* and is in the queue exactly while it waits: whichever way a stage ends   *)
(* (every batch answered, an error, a refusal, a cancelled context), the    *)
(* slot goes back once, and nobody asks for a second one while holding one. *)
SlotsMatchStages ==
  /\ holders = {r \in Requests : stage[r] \in CallStages}
  /\ queued = {r \in Requests : stage[r] = "queued"}

(* "no verdicts" on a 200 means that every detector had looked: the empty   *)
(* answer is never one where a detector failed.                             *)
FailClosed ==
  \A r \in Requests : Served(r) /\ found[r] = <<>> => failed[r] = "none"

(* A 200 has a verdict for every finding.  One is dismissed only if it is a *)
(* known sample value or the model said so in a reply that parsed, and a    *)
(* verified credential is confirmed, whatever the model failed to answer.   *)
DismissedOnlyWhenDecided ==
  \A r \in Requests : Served(r) =>
    /\ DOMAIN verdicts[r] = DOMAIN found[r]
    /\ \A i \in DOMAIN found[r] :
         /\ verdicts[r][i] = "dismissed" => found[r][i] = "sentinel" \/ said[r][i] = "dismissed"
         /\ found[r][i] = "verified" => verdicts[r][i] = "confirmed"

(* No 200 covers up a batch that failed: every finding within the cap that  *)
(* needs the model was in a batch it answered.                              *)
NothingLeftUnasked == \A r \in Requests : Served(r) => Unasked(r) = {}

(* "an empty discoveries[] is never mistaken for a clean diff"              *)
(* (reviewDiscoveries): the status is complete only if every window of the  *)
(* plan was read and each credential grounded was reported or, where there  *)
(* is review, dismissed by it.                                              *)
CompleteMeansJudged ==
  \A r \in Requests : Served(r) /\ deepStatus[r] = "complete" =>
    /\ scanned[r] = planned[r]
    /\ \A v \in candidates[r] \cap Fresh :
         v \in discoveries[r] \/ (DeepReview /\ judged[r][v] = "dismissed")

(* What is reported of a deep read is in the diff, is no detector's finding *)
(* (the two lists are disjoint) and, with review on, was confirmed by it.   *)
ReportedIsConfirmed ==
  \A r \in Requests : Served(r) =>
    /\ discoveries[r] \subseteq candidates[r] \cap Fresh
    /\ DeepReview => \A v \in discoveries[r] : judged[r][v] = "confirmed"

(* The deep read never fails its request: once the findings are             *)
(* adjudicated, the verdicts do not change and the answer is a 200.         *)
DeepNeverFailsRequest ==
  [][\A r \in Requests :
       stage[r] \in DeepStages \cup {"respond"} =>
         /\ verdicts'[r] = verdicts[r]
         /\ stage'[r] \in DeepStages \cup {"respond"} \/ answer'[r] = 200]_vars

(* Every call of /check is answered and done with, however the model and    *)
(* the other requests behave.                                               *)
EveryRequestAnswered ==
  \A r \in Requests : stage[r] = "detect" ~> stage[r] = "answered"

=============================================================================
