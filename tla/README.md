# Atalaia in TLA+

Atalaia receives a diff over HTTP (`POST /check`), runs several secret
detectors on it, merges what they find, asks an LLM which findings are real
credentials and answers with a verdict for each. On request it also has the
LLM read the added lines themselves (the *deep read*) and reports what that
turns up beside the verdicts. The process shares two scarce things among its
requests, the LLM's slots and the subprocess slots of the detectors, and its
promise to the caller is about what an answer may be taken to mean: an empty
one must not pass for a clean diff.

This directory models the program's control: who waits for whom, what is
decided in which order, what happens when a step fails, and what the answer
then says. Line numbers refer to the source beside it.

## 1. Inventory

| component | state | operations | what makes it correct |
|---|---|---|---|
| LLM semaphore `llm/semaphore.go` | a channel of tokens, an atomic `depth` | `Acquire` (queues, may be rejected), `TryAcquire` (borrows, never queues), `Release` | both counters exact, capacity kept, no give-back blocks, borrowers do not starve the queue, a rejection is earned |
| detect stage `detector/runner.go` | per request a goroutine per detector, its findings and error map; a pool shared by all requests | `Run` | pool exact and bounded, every detector accounted for, `Run` returns |
| detector adapters `detector/{gitleaks,trufflehog,kingfisher,build}.go` | none | `Scan` | an error of the scanner, a kill or a deadline is not passed off as a scan that found nothing |
| diff walking `detector/diff.go`, `llm/context.go` | none | iterate added lines, locate a line, index files | the two walkers agree on paths and line numbers |
| dedup `detector/dedup.go` | none | merge findings by file, line and match | nothing lost, the result does not depend on the order detectors finish in |
| check handler `api/handlers.go` | the request's locals | `Check`, `Readyz`, `Healthz`, `Version` | status codes and statistics say what happened |
| adjudicator `llm/adjudicate.go`, `recovery.go`, `review.go` | the request's locals | `Adjudicate`, `Review`, `completeParsed` | each finding asked about once, at most one retry, gaps never read as dismissals, the slot returned once |
| short circuit `llm/shortcircuit.go` | tables | `shortCircuit` | verified beats known sample beats model |
| deep reader `llm/deep.go`, `deepwindow.go`, `deepparse.go` | the request's locals | `Scan`, window planning | never fails its request, `complete` means what it says |
| grounding `llm/ground.go`, `sourceliterals.go` | none | `Ground` | only what is in the diff, disjoint from the verdicts |
| batching `llm/context.go` | none | pack findings into calls under token and count budgets | a partition, no batch over budget |
| reachability watcher `llm/health.go` | cached result and its time, a ticker, a stop channel | `Start`, `Stop`, `Ready`, probe loop | readiness follows the backend, fails closed, `Stop` returns |
| process `app.go`, `cli/serve.go` | servers, watcher, audit log, a signal | `Serve`, `Shutdown` | drain loses nothing in time, a signal ends the process |
| audit log `audit/audit.go` | an append-only file | `Write`, `Close` | one entry per audited answer, none lost in a drain |
| LLM client `llm/client.go` | none | `Complete`, `Probe` | input and output |
| the rest: redaction, authentication, configuration, metrics, prompts, command line, wire types | none that behaves | | left out, see section 8 |

### How they interact

`Serve` builds the detectors, one semaphore, the adjudicator, the deep reader
and the watcher, and passes them to the API. Each request runs in a goroutine
of `net/http`: it calls `detector.Run`, which starts a goroutine per detector
and shares the pool with every other request; then `Adjudicate`, which takes
the semaphore with `Acquire` for all its batches; then, if asked, `Scan`, which
takes the same semaphore with `TryAcquire` for each window, `Ground`, and
`Review`, which takes it once more. It answers, and only then writes its audit
entry. `/readyz` reads the watcher's cache. A signal makes the main goroutine
shut the servers down, stop the watcher and close the audit log, while
requests, and perhaps `Serve` itself, are still under way.

### What is hard

* The semaphore's two counters are read and written by separate atomic
  operations, in an order that matters, by callers with different rights.
* A slot must come back on every way out: an error, a refusal, a cancelled
  context, a hand-back in the middle of taking it.
* Contexts end while a caller waits, and deadlines while a scan runs.
* Some of several steps fail: one detector of three, one batch of two, one
  window after another was read, a review of what a complete read found.
* The model answers about fewer findings than it was asked, or in other words.
* A backend changes state in the middle of a probe; a drain ends by deadline.

* A diff is read line by line by two loops written twice, cut into windows by
  sizes, and numbered by a third; each is off by one in its own way.
* Findings pass from map to list to batch to call, in an order that differs
  from run to run of the detectors.
* The model claims what it likes, in any spelling, as often as it likes.

`PROJECT.json` lists these at their lines under `hazards`, each with the
properties aimed at it; nine have a note why there is none.

## 2. Modules

| module | models | composed of |
|---|---|---|
| `SlotGate` | what a slot gate promises, without its machinery | |
| `LLMSemaphore` | the semaphore, one step per atomic operation | shown to implement `SlotGate` |
| `DetectorRun` | the detect stage across requests | its pool implements `SlotGate` |
| `CheckRequest` | `POST /check` from body to audit entry | uses `SlotGate` for the LLM slots |
| `DiffWalk` | both walkers of a diff, beside what its author meant | |
| `DeepWindows` | one deep read: rules, planning of windows, reading them | extends `DiffWalk` |
| `Dedup` | merging what the detectors report | |
| `Batching` | from the merged list to the calls to make | extends `Dedup` |
| `Grounding` | which claims of the deep read become discoveries | |
| `Reachability` | the watcher over discrete time | |
| `Lifecycle` | start, signal, drain, exit | takes that `Stop` returns from `Reachability` |
| `MC…` | definitions for TLC: symmetry, sizes, lists of findings, diffs and claims | |
| `…Proofs` | theorems and their proofs | |

The system is checked in layers. `LLMSemaphore` is too fine to run under whole
requests, so it is shown once to implement `SlotGate`, and `CheckRequest` uses
that gate's actions instead; the gate's fairness, which `CheckRequest` assumes,
is part of what the refinement checks (`GateSpec`). In the same way
`CheckRequest!Detect` keeps only what `DetectorRun` shows of the detect stage.
Its batches are whatever `Batching!HandledOnce` allows: consecutive parts of the
findings, none empty, none longer than the count. Its claims are a set with a
fixed part `Fresh` that is groundable, which `Grounding!ClaimsAreIndependent`
justifies: neither the order nor the company of a claim decides its fate. Its
windows are numbers; what they hold is `DeepWindows`'s.

### Correspondence

**LLMSemaphore.** `slots` is `len(s.slots)`, `depth` the atomic counter,
`pc` the instruction a goroutine is about to run and `loaded` the value
`waiters()` has read of `depth` before it reads `len`. `Acquire` is
`AcquireRejected`/`AcquireCheck` (the load of line 43), `AcquireEnqueue` (the
add), `AcquireTake` or `AcquireCancelled` with `AcquireLeave` (the select and
the give-back). `TryAcquire` is the first look at the waiters, the send with
or without a timer, the second look and then `TryCount` (the slot is kept) or
`TryHandBack`. `Release` frees the slot and lowers `depth`, in two steps.

**DetectorRun.** A worker is a goroutine of `Run`, a pair of request and
detector. `Enter`, `TakeSlot`, `GiveUp`, `Deadline`, `Scan`, `Merge` and
`FreeSlot` are its ways through; `Start` and `Return` are `Run`'s. What a scan
yields is reduced to what `Scan` returns: findings of the whole diff or of part
of it (`found`), an error (`error`), or neither, having got to the end (`clean`),
stopped at a line beyond a scanner's buffer (`blank`) or stopped because the
context ended inside the last block (`halted`). `ScanEnds` says which of these
an adapter can produce when: `blank` is any adapter's at any time, because
`WalkDiff` and both parsers read by lines and never ask for the scanner's error.

**CheckRequest.** `stage` is where the handler stands; the other variables are
its locals by name. Findings are numbered as `Dedup` leaves them and keep their
kind: verified by a detector, a known sample, or plain. A reply of the model is
what it says of each finding of its batch; any batch the count allows may be
asked. A deep read's claims are members of a small set, of which some are
groundable. One LLM call is one step, and `Retry` is `completeParsed`'s second.

**Reachability.** `Tick` lets a unit of time pass unless something is due:
a probe's deadline, the answer of a backend that is up, or a runnable
goroutine kept waiting for as long as `MaxPause`. `since` measures how long ago
the backend changed, `age` how old the cached result is; both stop counting at
a bound past which nothing depends on them.

**Lifecycle.** `serve` is where `Serve` stands, `main` where the serve command
does, `srv` each `http.Server`. A nil field that `Shutdown` skips is a server
in state `none`. The fields are shared without synchronisation; a racing read
finds the old or the new pointer, which the interleaving covers.

**DiffWalk.** A diff is taken line by line, as any sequence of the kinds the
two switches tell apart; the variables of each loop keep the code's names
(`path`, `newLine`, `blockBuf`, `blockStart`; `ipath`, `iline`, `index`). An
added line that the walkers take for a header is `AddedLookalike`, one that
overflows the scanner's buffer `OverlongLine`; any other line that does is
`OverlongOther`. `file`, `line` and `truth` are
what the author of the diff meant: they follow the format, not the code. `tidy`
says that the diff so far is one git writes: an added line stands in a hunk of
a file, a file is not begun twice, hunks ascend, and no line is misread.

**DeepWindows.** `Skip` and `Plan` are `Scan`'s selection rules; the phases
`blocks` and `lines` are the loops of `buildDeepWindows` and `splitBlock`, one
block or line a step. Text is replaced by ranges: `added` is the sequence of all
lines in finished blocks, a block, chunk or window a range of it with its size
in characters, so that every estimate is computed as the code computes it.

**Dedup.** A key is a file, line and match, numbered in the order of the sort;
a label is a detection's type, detector and rule. `Collect` takes one report of
any detector, `SortFindings` is both sorts and the verified flag. `Sorted` and
`Ascending` say what a sort of either kind returns, an arrangement with nothing
out of order, and leave open how it gets there.

**Batching.** `CapRequest` is the cap of a request, `ShortCircuit` and
`NeedsModel` the triage, `FitsSingleCall` the choice of mode, `Body` what
`clampFindingToBudget` leaves of a finding, `PackFinding`, `CloseBatch` and
`LastBatch` the loop of `packBatches`, `CutBatch` that of
`capFindingsPerBatch`. A batch or call is a range of `bound`.

**Grounding.** A text is a sequence of tokens, one for each shape that a gate of
`Ground` asks about, so that containment, quoting, assignments, references and
literals are decided on the text and not by fiat. `$NAME`, `${NAME}`, `$(…)`,
`os.environ` and `user:$NAME` differ there as `isReference` tells them apart:
some are refused only where the claim begins with them. One claim is one step;
`Outcome` has the early returns in their order and names them as the code does.

## 3. Runs

| run | instance | states | shows |
|---|---|---|---|
| `sem_live` | 3 goroutines, 1 slot, `queue_max` 2, timed wait | 39 400 | implements the gate with its fairness, both counters exact, no give-back blocks, `TryAcquire` answers, rejections are earned |
| `detector` | 2 requests, 1 in-process and 1 subprocess detector, pool of 1, timeout | 158 000 | pool exact, a gate, what each scan returned accounted for, an empty result explained, `Run` returns |
| `check_one` | 1 request, every list of up to 3 findings, cap 2, 1 a call, 2 windows, 3 claims, review | 445 000 | what a 200 means, shallow and deep; the slot is held through every batch and comes back; the deep read never fails a request |
| `check_live` | 2 deep requests, 1 slot, `queue_max` 1, one window each | 219 000 | slots follow stages, every request is answered |
| `reach` | interval 4, answers of up to 3, pauses of 1 | 28 300 | readiness within exact bounds, `Stop` returns |
| `lifecycle` | 2 requests, 2 listeners | 24 200 | nothing lost in time, all closed, a signal ends the process |
| `diff` | every diff of up to 6 lines over 2 files, windows of 4 tokens, at most 2 | 1 050 000 | lines placed where the author put them, walkers agree, windows tile the lines, fit and hold one file, a complete read read it all |
| `findings` | up to 4 reports of 5 keys in any order, 12 configurations | 360 000 | the list does not depend on the order, each finding handled once, calls within budget and count |
| `grounding` | up to 3 claims of 30 against 5 diffs and 3 sets of findings | 419 000 | discoveries are in the diff as reported, but for one exception, and independent of each other |

Three more runs show a violation and are described in section 6.

*Bounds.* Three goroutines on one slot are the least in which a holder, a
borrower between its two looks and a queued or leaving caller exist at once,
and keep the liveness check small; for more of them there are the theorems. A pool of one with two
requests makes every queued scan wait behind another request's. Three findings
over a cap of two, one a call, give a finding past the cap and a second batch
that can fail after the first was answered; three claims, two of them
groundable, give a review of two batches in which one may be left without a
verdict. Six lines are a header, a hunk and four more: enough for a block that
is split, one that follows in the same window, a second file or hunk, context or
an unmarked line between two additions, and a misread line anywhere. Added
lines are short, too long for a window, misread or too long for the scanner;
a window of four tokens takes one or two short lines beside its header, so
windows are filled, broken and cut. Of four reports two or three may share a
key, with equal and different labels; the configurations have no limits, either
limit, no budget, a budget the output takes all of, one that makes a call of
ten tokens and one that allows the single call; one key's match and one key's
context are too large for a call. The diffs of `grounding` have a line for each
shape a gate asks about, the claims each spelling of what is on these lines;
three of them give a duplicate, another order, and a claim between. In `reach` the pause is chosen so that the three bounds differ from
each other; with each bound lowered by one TLC finds a counterexample, so they
are exact. Nothing in the models counts without end: `Forget` returns a
request to its start, so that runs are not cut short by a number of requests.

Every property has a mutant, a variant of one definition with a plausible fault
(its name and a comment starting with "Faulty" in the modules) under which TLC
finds the property violated on the same instance.

## 4. Properties

*Semaphore.* `SlotsAccounted` and `DepthAccounted` tie each counter to the set
of callers that own a share in it, from which the cap follows (a theorem).
`GivingBackNeverBlocks` says that a receive on the channel always finds a token,
`RejectedOnlyUnderLoad` that `queue_max` callers really stand behind a 503.
`GateSpec` is the refinement; with its fairness it says that borrowers cannot
starve those queued.

*Detect stage.* `PoolAccounted` and `PoolIsAGate` for the pool,
`RunReturns`. `EveryDetectorAccounted`: the findings and the error map hold
exactly what each `Scan` returned, whatever the goroutines do at once.
`EmptyIsExplained`: an empty result without errors comes of scans that were all
made, and a part of the diff that was not scanned was lost to an overlong line
or, in process, to a context that ended in the last block. It does not say that
everything was scanned, because that is not so (section 6).

*Request.* `FailClosed`: no empty 200 when a detector failed.
`DismissedOnlyWhenDecided`: a dismissal is a known sample's or the model's word,
never a gap, and a verified credential is confirmed. `NothingLeftUnasked`: a
200 does not cover up a failed batch. `CompleteMeansJudged`: under `complete`
each grounded candidate was reported or dismissed by review.
`ReportedIsConfirmed`: what is reported is in the diff, not among the verdicts
and, with review on, confirmed. `SlotsMatchStages`: a slot is held exactly
during the calls made under it. `DeepNeverFailsRequest` and
`EveryRequestAnswered`.

*Walking and windows.* `Located`: in a tidy diff each added line gets its own
file and number, once and in order. `IndexAgrees`: the lines a finding is shown
with include the one it points at, though another loop numbered them.
`WindowsTile`: no line is read twice, none is lost between two windows, chunks
or blocks. `WindowsFit`: a window is within the budget, or is one line that
cannot be split. `OneFilePerWindow`: no line under another file's name.
`CompleteReadsTidyDiffs` puts them together: a complete read that was not cut
read every line the author added.

*Findings.* `OrderIndependent`: the list depends on which findings there are,
not on which detector was first. `HandledOnce`: a finding within the cap is
decided without the model or asked about in exactly one call. `CallsFit`: a call
is within the budget, or is about one finding whose place and match alone are
more.

*Grounding.* `DiscoveriesAreInTheDiff`: what is reported stands word for word on
the added line at the place reported, at least once outside `$NAME` and
`${NAME}`, and is no sample. The exception is a value in two pairs of quotes,
`UnseenValue` (section 6). `ClaimsAreIndependent`: no claim adds or hides
another. That `verdicts[]` and `discoveries[]` share no secret is the guard
`collidesWithVerdict`, which is modelled and not stated a second time.

*Watcher.* `UpIsNoticed`, `DownIsNoticed` and `WedgedIsNoticed` bound how long
readiness may be wrong; the first is also what the staleness limit of three
intervals is for, and fails with two. `StopReturns`.

*Process.* `NothingLostInTime`: a drain within its deadline, begun with
everything up, cuts no request and loses no audit entry. `AllClosed`: an error
in one step, the deadline included, does not keep the others from running.
`SignalEnds`: also when handlers never end, and when `Serve` is still building.

### Fairness

* Semaphore: a goroutine that can take its next instruction takes it; LLM calls
  end, by `llm.request_timeout`; the select of a queued caller is strongly fair,
  because the runtime serves senders parked on a channel in order of arrival.
  Nothing is assumed of contexts or of new calls.
* Detect stage: timers fire, a scan whose context is done ends (its subprocess
  is killed), queued senders as above. No scan is assumed to end by itself.
* Request: a handler runs, LLM calls end with any result, the gate answers who
  queues. No context is assumed to be done.
* Watcher: time passes and what is due is done; a probe ends only because its
  deadline makes it due. `Exit` is strongly fair because `select` chooses among
  ready cases at random.
* Process: goroutines run and the deadline passes. Handlers need not end.
* `DeepWindows`, `Batching` and `Grounding` are sequential code of one request;
  their properties are safety, checked without fairness. Their runs stop at the
  end of the diff, the list or the claims, as `lifecycle` and `reach` do when
  the process or the watcher is gone, hence no deadlock check there.

## 5. Proofs

The theorems hold for any number of goroutines, requests, detectors, findings,
connections, lines, windows and claims, and for any sizes, budgets and limits, under the named assumption of each module, which TLC evaluates
in every run.

* `LLMSemaphoreProofs`. `SemInv` is the type invariant with `SlotsAccounted` and
  `DepthAccounted`; it is inductive because a caller's place decides whether it
  owns a token and a share of `depth` (`SlotsAreExact`, `DepthIsExact`). `BalancedStep` says so once for a step
  between any two places, with `MoveCounts` for the cardinalities; each action
  is an instance. The cap (`InflightBounded`), `GivingBackNeverBlocks`,
  `RejectedOnlyUnderLoad` and the step refinement `Spec => GateSafety` follow.
  Two theorems say what is true where the documentation is not (section 6): a
  borrower that keeps its slot passes at most as many queued callers as there
  are borrowers looking (`BorrowMissesFew`), and running borrowers take at most
  `max_inflight` of the `queue_max` places (`RejectedByFewBorrowers`).
* `DetectorRunProofs`. `ReportInv` adds to the types that a goroutine that is
  done has reported what its outcome demands and that a returned `Run` has no
  goroutine left. `PoolInv` adds that only gated goroutines queue and that the
  counter is the number of those past their send, so that scans never exceed
  the pool (`ScansBounded`). From it, step by step, the pool implements the
  gate (`PoolIsAGate`): goroutines of in-process detectors are in neither of the
  gate's sets, and for the others each action moves them as the gate says or not
  at all. `EmptyExplained`
  needs only the types and that a scan `halted` had a context that was done
  (`HaltedByContext`).
* `CheckRequestProofs`. Four separate invariants keep the proofs small. `TypeInv`
  adds to the types that the batches and windows at hand are within the plan.
  `SlotInv` is `SlotsMatchStages` with the type of `stage`. `ShallowInv` says,
  stage by stage, that what has passed detection was looked at (`Looked`) and
  what has passed adjudication is settled (`Settled`); `DeepInv` does the same
  for the read and its review (`Blank`, `Sound`, `WholeIfComplete`). The
  requests use the gate as it is meant (`UsesTheGate`), which closes the
  layering from this side, and so stay within its capacity (`CallsBounded`);
  from `SlotInv` alone nobody waits on everybody (`NobodyStuck`). Each step that
  changes where a handler stands brings it nearer to its answer
  (`EachStepLeadsOn`): its stages only descend (`Phase`), and within one the
  calls and windows left are a number that falls (`Rest`), since a batch takes
  two calls at most and a reply leaves fewer findings unasked. That number is
  finite because what a diff can hold is, which `CheckAssumption` states of
  `Fresh`.
* `ReachabilityProofs`. `ClockInv` bounds, wherever the goroutine stands, how
  old the cache is (`Fresh`) and how long ago a change can have come that the
  cache does not know of (`UpKnown`, `DownKnown`, `Answered`). The three bounds
  are sums of these, for all values of interval, answer time and pause.
* `LifecycleProofs`. `ShutdownInv` says what `Serve` has made by the time there
  is a server (`Built`), that after a signal with everything up each server is
  closed in its turn (`InTurn`), and that a server whose turn is over has no
  request left unless the deadline passed (`Drained`).

* `DeepWindowsProofs`. `WalkInv` says that the two loops count alike (`InStep`),
  that in a tidy diff they are where the author is (`OnTrack`: what was placed
  is what was added, all of it before the line the author is at) and that each
  placed line is in the index. `BlocksTile` says that the blocks are the added
  lines, in order. `PlanInv` adds where the planner stands: the window goes on
  where the finished ones end (`Continues`), the chunk where the window ends
  (`Splitting`), and the tokens counted for each are at least the estimate of
  its text, because an estimate of a sum is at most the sum of the estimates
  (`TokensAdd`); a finished window within its count is then within the budget.
  A loop that counts up to a length needs no induction over data: the invariant
  speaks of the prefix done so far. The loops end (`ReadEnds`): each step lowers
  a natural number (`Left`), three steps for each block and one for a line, each
  worth two because it may add a window to read.
* `BatchingProofs`. `BatchInv` says, stage by stage, that what was looked at is
  decided or bound and not both (`Triaged`), and that batches and calls tile
  `bound` as far as the loop has come (`Packing`, `Splitting`, `Tiles`).
  `HandledOnce` follows because a position is in exactly one range.
  `DedupInv` says that the map holds each key found, with each detection as
  often as it was made; that the two sorts have a result is a lemma about finite
  sets with a strict order (`Listing`: each element at the place its rank
  gives), so `OrderIndependent` holds of whatever they return. `FitInv` says
  that the tokens counted for a batch are the cost of its bodies. That cost is a
  fold over a set; `Paid`, a function on sets of positions with the equations a
  sum has, agrees with it because a least set where it did not cannot exist
  (`Smallest`), and `CallsFit` follows for a call that is a part of a batch. The
  loops end, as those of the deep read do (`LoopsEnd`).
* `GroundingProofs`. `GroundInv` has `FromClaims`, the discoveries are those of
  the claims that are fresh by themselves, `SeenReported` and `Counted`. The
  lemmas are about texts: the search finds what it says it finds (`Least`), a
  part of a part is a part (`PartOfPart`), a normal form is a part
  (`NormalPart`), and an assignment's value is wherever the assignment is
  (`ValueInside`), which is why a claim found by its assignment can be reported
  by its value. For `NothingIsMadeUp` a value found only in its normal form is a
  case of its own (`OnlyNormal`), the exception in the statement.

Every safety property that a passing run checks is stated by a theorem, and each
invariant was checked by TLC before it was proved. What is stated beside its
proof, the measures, `NobodyStuck`, `CallsBounded` and the two bounds on
borrowers, has no run of its own. Only model-checked is what needs fairness, which the prover does not do:
`RunReturns`, `StopReturns`, `SignalEnds`, `EveryRequestAnswered`,
`TryAcquireAnswers` and the fairness half of `GateSpec`. For
`EveryRequestAnswered` the parts without fairness are theorems: each step leads
on, and nobody is stuck; what is left to TLC is that a step that can be taken is.

What a fold or a sort computes by recursion over its input is an induction over
data, which the provers cannot do; the two proofs above go by a least
counterexample instead, and where a definition only needs to say what results,
it says so (`Sorted`).

## 6. Where the code and its documentation differ

Shown by a run that checks what the documentation says:

* `sem_yield`. `TryAcquire` says it takes a slot "never while another caller is
  queued in Acquire" (semaphore.go:59-61) and looks a second time for that
  reason (lines 91-96). At that look the borrower's own token is in
  `len(slots)` and not yet in `depth`, so `waiters()` is one short: exactly one
  queued caller is never seen, and the borrower keeps the slot. With several
  borrowers looking at once it is one for each, and no more: `BorrowersPassFew`.
* `sem_reject`. An admitted borrower adds to `depth` (line 97), which `Acquire`
  compares with `queue_max`; with `queue_max` 1 a running deep read makes an
  adjudication a 503. docs/deployment.md:526 and deep.go:94-95 say it cannot.
  By `BorrowersTakeFewPlaces` it takes `max_inflight` places at most.
* `diff_long`. A line longer than the scanner's buffer of 1 MiB (diff.go:47)
  ends the walk, and nobody asks for the scanner's error: that line and all
  after it are in no block, and the deep read is `complete` and not truncated.
  deep.go:17-18 and apitypes/types.go:51-53 say that only `complete` means the
  whole diff was covered. `buildFileIndex` stops in the same place.

Met while modelling, part of the models, without a run of their own:

* A read whose plan was cut at `max_windows` is `complete`, with `truncated`
  beside it; apitypes/types.go:51-53 names `complete` alone.
* An added line whose text begins with `++ ` begins with `+++ ` in the diff and
  is taken for a header, since that case comes first (diff.go:55, and alike in
  context.go): what follows in the hunk is placed in a file that does not exist.
  `DiffWalk!AddedLookalike`; such a diff is not `tidy`.
* context.go:228 and 251-254 say that no single finding can exceed a call's
  budget. The match is bounded by a constant, not by the budget, and the place
  by nothing; `CallsFit` has the exception.
* types/config.go:132 says `ceil(N/MaxFindingsPerCall)` calls; batches are
  packed by tokens first and cut one by one, so there may be more.
* A claim written as an assignment is reported by its value (ground.go:120-125),
  also when `locate` found only the normal form of that value; ground.go:277-278
  says the form that matched is returned. A value in two pairs of quotes is then
  reported with quotes the diff does not have, against docs/api.md:157 ("must
  appear verbatim"), and the checks for samples and for bare variable names look
  at that form, so a sample in such quotes is reported. It is the exception
  of `DiscoveriesAreInTheDiff`.
* One secret may be reported twice, with its quotes and without, since ids are
  compared as they are; docs/api.md:235 counts "the same secret found in two
  windows" among what is dropped. `Grounding` has such pairs among its claims.
* docs/api.md:157 says "Fixed rules also drop references". `isReference` looks
  at the claim as a whole: `$NAME` and `os.environ` are refused where the claim
  begins with them, so `PASSWORD=$DB_PASSWORD`, whose value is not asked about
  again, and `"$NAME"` in quotes are reported, if they stand on an added line.
  `isReference` in `Grounding` has this, and the run reaches it.
* An id is a hash of `file:line:match` (detector.go:52), a join that two
  different triples may share; the models keep the triple.
* `Acquire` loads `depth` at semaphore.go:43 and adds at line 46, so callers
  that load together pass `queue_max` together; lines 18-19 call it a cap.
* A subprocess detector that is killed after its first finding returns findings
  and no error (trufflehog.go:83, kingfisher alike), so `detector_errors` does
  not name it; apitypes/types.go:116-117 and docs/api.md:209 say it would.
  `DetectorRun!ScanEnds` has it among `found`, which may be of a part.
* A result without findings and without `detector_errors` need not be of the
  whole diff, though docs/api.md:209 says "Absent the field, all detectors
  completed". gitleaks scans the blocks of `WalkDiff`, which end at the first
  line over 1 MiB (diff.go:46-48); a subprocess's report is read up to the first
  line over 4 MiB (trufflehog.go:100, kingfisher.go:86): the outcome `blank`.
  And the gitleaks adapter looks at its context before each block and not after
  the last (gitleaks.go:81-90), so should the library stop early in it, nobody
  says so: the outcome `halted`; the library is not in the repository, and the
  model allows both. `EmptyIsExplained` says that there is no other way.
* With more findings than `max_findings_per_request` the answer carries a
  verdict for each, `confirmed` past the cap (handlers.go:327); docs/api.md:208
  says "only contains the first N verdicts".
* The 503 for an inconclusive scan is sent as soon as one detector failed and
  nothing was found (handlers.go:56); docs/api.md:374 says "every detector failed".
* A review that errs leaves `ran` true with status `failed` (handlers.go:552),
  and withholds candidates under `failed`; apitypes/types.go:53-54 and 77-79
  exclude both.
* Only a 200 is audited (handlers.go:186); audit.go:50 says "per /check call".
* `Stop` of the watcher, and so `Shutdown`, ignores the deadline: a hung probe
  holds it for up to an interval (health.go:61-70, app.go:64-66).
* An accept error on the main listener ends the process without `Shutdown`
  (serve.go:38-39): requests on the host listener are cut.
* A signal during `Serve`'s construction finds nil fields, and servers made
  afterwards accept requests that die with the process; `NothingLostInTime` is
  about signals after the start.

## 7. Plan

The plan was: the semaphore and its gate, the detect stage, the request, the
watcher and the process first, as what runs concurrently; then the algorithms a
request is made of, `DiffWalk`, `DeepWindows`, `Dedup`, `Batching` and
`Grounding`; and for each a proof of what was checked. It is carried out. What
could follow, in this order:

1. Measures for the watcher's `Stop`, the process's shutdown and `Run`, like
   those of the request and the planners.
2. Candidates cut at `max_candidates` (deep.go:244) as a state of their own, so
   that what was cut differs from what the model left out.
3. The source literals a deep reply is checked against (`sourceliterals.go`), as
   further shapes in `Grounding`.
4. The writers of a subprocess's pipe in `DetectorRun`.

## 8. Not modelled

* Text processing: prompts, templates, JSON schemas, the parsing of replies
  (`deepparse.go`), the extraction of source literals (`sourceliterals.go`),
  the layout of a finding's context, previews and scrubbed reasons, redaction.
  Strings without state of their own; unit tests serve them better.
* Within what is modelled: the shapes of paths, hunk headers and identifiers.
  `parseNewPath`, `parseHunkNewStart`, `isPlaceholder` and the like enter by
  what they tell apart, not character by character. `finding_context_lines` is
  taken as a natural number, though nothing validates it.
* Panics. `net/http` recovers a handler's panic, and the window loop's release
  is not deferred (deep.go:128), so one would leak a slot; no path that panics
  was found.
* A subprocess whose grandchild keeps the output pipe open past the deadline
  (trufflehog.go:81): a scan whose context is done is assumed to end.
* The tsnet node, the metrics listener and keep-alive connections in
  `Lifecycle`; only requests are followed.
* The HTTP client of the LLM below the level of a call that succeeds or fails.
* Authentication, configuration loading and validation, metrics, the other
  commands, the wire types and the evaluation corpus: no behaviour over time. What validation lets through is
  stated as the assumptions on the constants.
