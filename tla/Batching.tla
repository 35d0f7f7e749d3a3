------------------------------ MODULE Batching ------------------------------
(***************************************************************************)
(* From the deduplicated list to the LLM calls of one request: Adjudicate  *)
(* caps the list and decides what needs no model, and adjudicateHeld       *)
(* chooses between one call with the whole diff and calls with packed      *)
(* findings (fitsSingleCall, packBatches, clampFindingToBudget), which     *)
(* capFindingsPerBatch then cuts by count.                                 *)
(*                                                                         *)
(* Each loop takes one finding or one batch per step.  Of a finding only   *)
(* its sizes in characters matter; a batch or a call is a range of bound.  *)
(* CheckRequest, which asks batch after batch, takes from here that the    *)
(* batches partition the findings and are neither empty nor too many.      *)
(***************************************************************************)
EXTENDS Dedup, FiniteSetsExt

CONSTANTS
  Configs,       \* what the operator may have configured, and the diff's size
  Samples,       \* keys whose match is a known sample
  MatchSize,     \* characters of a key's match
  ContextSize,   \* characters of the lines around it
  LabelSize,     \* characters of a body that are neither match nor context
  RenderPerFinding,  \* characters fitsSingleCall allows per finding
  MaxMatchChars,
  TruncMark      \* characters of the truncation marker

ASSUME ConfigAssumption ==
  Configs \subseteq [maxCount : Int, perCall : Int, input : Int, output : Nat, diff : Nat]
ASSUME SizesAssumption ==
  /\ Samples \subseteq Keys
  /\ MatchSize \in [Keys -> Nat \ {0}] /\ ContextSize \in [Keys -> Nat]
  /\ {LabelSize, RenderPerFinding, MaxMatchChars, TruncMark} \subseteq Nat
  /\ 0 < LabelSize /\ TruncMark < MaxMatchChars

VARIABLES
  config,     \* the configuration in force
  asked,      \* findings within max_findings_per_request
  verdicts,   \* findings decided without the model
  bound,      \* llmBound: findings for the model
  packed,     \* packBatches: findings put into batches so far
  current,    \* packBatches: the batch being built
  batches,    \* the batches, before they are cut by count
  split,      \* capFindingsPerBatch: batches cut so far
  calls       \* the calls to make

batchVars == <<asked, verdicts, bound, packed, current, batches, split, calls>>
vars == <<stage, dedupVars, config, batchVars>>

Span(from, to, tok) == [from |-> from, to |-> to, tok |-> tok]

Init ==
  /\ DedupInit
  /\ config \in Configs
  /\ asked = 0 /\ verdicts = {} /\ bound = <<>>
  /\ packed = 0 /\ current = Span(1, 0, 0) /\ batches = <<>>
  /\ split = 0 /\ calls = <<>>

Go(from, to) == stage = from /\ stage' = to /\ UNCHANGED <<dedupVars, config>>

(* estimateTokens. *)
Tokens(chars) == (chars + 2) \div 3

(* max_findings_per_request; what is past it gets no verdict here. *)
CapRequest ==
  LET over == config.maxCount > 0 /\ Len(deduped) > config.maxCount IN
  /\ Go("capping", "triage")
  /\ asked' = IF over THEN config.maxCount ELSE Len(deduped)
  /\ UNCHANGED <<verdicts, bound, packed, current, batches, split, calls>>

Looked == Cardinality(verdicts) + Len(bound)

ShortCircuits(d) == d.anyVerified \/ d.key \in Samples

(* A live credential or a known sample needs no model. *)
ShortCircuit ==
  /\ Go("triage", "triage")
  /\ Looked < asked /\ ShortCircuits(deduped[Looked + 1])
  /\ verdicts' = verdicts \cup {Looked + 1}
  /\ UNCHANGED <<asked, bound, packed, current, batches, split, calls>>

NeedsModel ==
  /\ Go("triage", "triage")
  /\ Looked < asked /\ ~ShortCircuits(deduped[Looked + 1])
  /\ bound' = Append(bound, Looked + 1)
  /\ UNCHANGED <<asked, verdicts, packed, current, batches, split, calls>>

KeyOf(n) == deduped[bound[n]].key
Sum(f(_), S) == MapThenSumSet(f, S)

(* Go divides toward zero, which for these signs compares alike. *)
NineTenths(n) == (n * 9) \div 10

FitsSingleCall ==
  LET overhead(n) == MatchSize[KeyOf(n)] + RenderPerFinding
      budget == config.input - config.output
  IN \/ config.input <= 0
     \/ /\ budget > 0
        /\ Tokens(config.diff) + Tokens(Sum(overhead, DOMAIN bound)) <= NineTenths(budget)

(* One call with the diff and every finding. *)
SingleCall ==
  /\ Go("triage", "splitting")
  /\ Looked = asked /\ bound # <<>>
  /\ FitsSingleCall /\ (config.perCall <= 0 \/ Len(bound) <= config.perCall)
  /\ batches' = <<Span(1, Len(bound), 0)>>
  /\ packed' = Len(bound)
  /\ UNCHANGED <<asked, verdicts, bound, current, split, calls>>

PerFinding ==
  /\ Go("triage", "packing")
  /\ Looked = asked /\ bound # <<>>
  /\ ~(FitsSingleCall /\ (config.perCall <= 0 \/ Len(bound) <= config.perCall))
  /\ UNCHANGED batchVars

(* Nothing for the model: no slot is asked for, no call made. *)
NothingToAsk ==
  /\ Go("triage", "planned")
  /\ Looked = asked /\ bound = <<>>
  /\ UNCHANGED batchVars

(* The budget of a call, a tenth kept for the system prompt. *)
Effective ==
  LET budget == config.input - config.output
  IN NineTenths(IF budget <= 0 THEN config.input ELSE budget)

(* clampStr and clampMiddle, which keeps as much of both ends.  *)
ClampStr(size, max) == IF max <= 0 THEN 0 ELSE IF size <= max THEN size ELSE max
ClampMiddle(size, max) ==
  IF max <= 0 THEN 0
  ELSE IF size <= max THEN size
  ELSE IF max <= TruncMark + 2 THEN max
  ELSE 2 * ((max - TruncMark) \div 2) + TruncMark

(* A body without its context. *)
Bare(k) == LabelSize + ClampStr(MatchSize[k], MaxMatchChars)

(* Faulty: the context may have the whole of a call to itself. *)
BodyUnclamped(k) ==
  IF Effective <= 0 THEN LabelSize + MatchSize[k] + ContextSize[k]
  ELSE Bare(k) + ClampMiddle(ContextSize[k], Effective * 3)

(* The body of a finding once clampFindingToBudget has seen it: without a  *)
(* budget it stays as it is, else the match is bounded and the context     *)
(* has what the rest leaves it.                                            *)
Body(k) ==
  IF Effective <= 0 THEN LabelSize + MatchSize[k] + ContextSize[k]
  ELSE LET whole == Bare(k) + ContextSize[k] IN
       IF Tokens(whole) <= Effective THEN whole
       ELSE Bare(k) + ClampMiddle(ContextSize[k], Effective * 3 - Bare(k))

BodyTokens(n) == Tokens(Body(KeyOf(n)))

Full(t) == current.from <= current.to /\ current.tok + t > Effective

(* The next finding joins the batch. *)
PackFinding ==
  LET n == packed + 1  t == BodyTokens(n) IN
  /\ Go("packing", "packing")
  /\ packed < Len(bound) /\ ~Full(t)
  /\ current' = Span(current.from, n, current.tok + t)
  /\ packed' = n
  /\ UNCHANGED <<asked, verdicts, bound, batches, split, calls>>

(* Faulty: the finding that does not fit is left behind. *)
CloseBatchLosing ==
  LET n == packed + 1 IN
  /\ Go("packing", "packing")
  /\ packed < Len(bound) /\ Full(BodyTokens(n))
  /\ batches' = Append(batches, current)
  /\ current' = Span(n + 1, n, 0)
  /\ packed' = n
  /\ UNCHANGED <<asked, verdicts, bound, split, calls>>

(* It does not fit: the batch is done and another begins with it. *)
CloseBatch ==
  LET n == packed + 1  t == BodyTokens(n) IN
  /\ Go("packing", "packing")
  /\ packed < Len(bound) /\ Full(t)
  /\ batches' = Append(batches, current)
  /\ current' = Span(n, n, t)
  /\ packed' = n
  /\ UNCHANGED <<asked, verdicts, bound, split, calls>>

LastBatch ==
  /\ Go("packing", "splitting")
  /\ packed = Len(bound)
  /\ batches' = IF current.from <= current.to THEN Append(batches, current) ELSE batches
  /\ UNCHANGED <<asked, verdicts, bound, packed, current, split, calls>>

(* The next batch, or what of it is not yet cut, makes a call of at most   *)
(* max_findings_per_call findings.                                         *)
CutBatch ==
  LET b     == batches[split + 1]
      done  == IF calls = <<>> THEN 0 ELSE calls[Len(calls)].to
      first == done + 1
      last  == IF config.perCall > 0 /\ b.to > done + config.perCall
               THEN done + config.perCall ELSE b.to
  IN
  /\ Go("splitting", "splitting")
  /\ split < Len(batches)
  /\ calls' = Append(calls, Span(first, last, b.tok))
  /\ split' = IF last = b.to THEN split + 1 ELSE split
  /\ UNCHANGED <<asked, verdicts, bound, packed, current, batches>>

CallsReady ==
  /\ Go("splitting", "planned")
  /\ split = Len(batches)
  /\ UNCHANGED batchVars

Next ==
  \/ \E f \in Finding : Collect(f) /\ UNCHANGED <<config, batchVars>>
  \/ SortFindings /\ UNCHANGED <<config, batchVars>>
  \/ CapRequest \/ ShortCircuit \/ NeedsModel
  \/ SingleCall \/ PerFinding \/ NothingToAsk
  \/ PackFinding \/ CloseBatch \/ LastBatch
  \/ CutBatch \/ CallsReady

Spec == Init /\ [][Next]_vars
-----------------------------------------------------------------------------
AskedIn(c) == {bound[n] : n \in calls[c].from .. calls[c].to}

(* Once the calls are planned, every finding within the cap is decided     *)
(* without the model or put to it in exactly one call, and none is both;   *)
(* no call is empty, too long, or about a finding past the cap.            *)
HandledOnce ==
  stage = "planned" =>
    /\ verdicts \cup UNION {AskedIn(c) : c \in DOMAIN calls} = 1..asked
    /\ \A c \in DOMAIN calls :
         /\ calls[c].from <= calls[c].to
         /\ config.perCall > 0 => calls[c].to - calls[c].from < config.perCall
         /\ AskedIn(c) \cap verdicts = {}
         /\ \A d \in DOMAIN calls : AskedIn(c) \cap AskedIn(d) # {} => c = d

(* A call with packed findings stays within the budget, unless it is about *)
(* one finding whose place and bounded match alone are more than that.     *)
CallsFit ==
  stage = "planned" =>
    \A c \in DOMAIN calls :
      LET range == calls[c].from .. calls[c].to IN
      \/ calls[c].tok = 0     \* the single call, with the diff
      \/ Sum(BodyTokens, range) <= Effective
      \/ /\ calls[c].from = calls[c].to
         /\ Effective > 0 => Tokens(Bare(KeyOf(calls[c].from))) > Effective
=============================================================================
