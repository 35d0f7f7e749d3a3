----------------------------- MODULE LLMSemaphore -----------------------------
(***************************************************************************)
(* The semaphore in front of the LLM backend (internal/llm/semaphore.go),  *)
(* one step per atomic operation of the code: a load or an add on depth, a *)
(* len, a send or a receive on the slots channel.  Adjudication enters     *)
(* through Acquire and may queue; the deep read and the review of its      *)
(* discoveries enter through TryAcquire and may not.                       *)
(*                                                                         *)
(* A goroutine is a caller; what it does with the slot (LLM calls) is the  *)
(* time it spends in "adjudicating" or "reading".  A context may be        *)
(* cancelled, and a timer may fire, at any moment.  Which of several       *)
(* blocked senders wins a freed slot is left open, as the language does.   *)
(***************************************************************************)
EXTENDS Integers, FiniteSets

CONSTANTS Callers,      \* goroutines serving /check requests
          MaxInflight,  \* llm.max_inflight
          QueueMax,     \* llm.queue_max; zero or less: no cap
          TimedWait     \* is deep_scan.admission_wait positive?

ASSUME SemaphoreAssumption ==
  /\ IsFiniteSet(Callers)
  /\ MaxInflight \in Int
  /\ QueueMax \in Int
  /\ TimedWait \in BOOLEAN

VARIABLES slots,   \* len(s.slots)
          depth,   \* s.depth
          pc,      \* where each caller stands
          loaded   \* the depth a caller read in waiters(), before its len

vars == <<slots, depth, pc, loaded>>

(* NewSemaphore: the channel has room for at least one. *)
Capacity == IF MaxInflight < 1 THEN 1 ELSE MaxInflight

(* A caller parked in Acquire's select, its context live or done. *)
QueuedPhases  == {"waiting", "expired"}
AcquirePhases == QueuedPhases \cup {"rejected", "checked", "leaving"}
TryPhases     == {"tryLen", "tryWait", "tryTaken", "tryRelen", "tryBack", "tryCount"}
HeldPhases    == {"adjudicating", "reading"}
Phases        == {"idle", "releasing"} \cup AcquirePhases \cup TryPhases \cup HeldPhases

Go(c, from, to) == pc[c] = from /\ pc' = [pc EXCEPT ![c] = to]

Init ==
  /\ slots = 0
  /\ depth = 0
  /\ pc = [c \in Callers |-> "idle"]
  /\ loaded = [c \in Callers |-> 0]

(* Faulty variants, each used to show that a property notices the fault.   *)
QueueFullEarly == QueueMax > 0 /\ depth >= QueueMax - 1

QueueFull == QueueMax > 0 /\ depth >= QueueMax
SlotFree  == slots < Capacity

-----------------------------------------------------------------------------
(* Acquire *)

(* The cap is read first: a full queue is ErrQueueFull at once. *)
AcquireRejected(c) ==
  /\ QueueFull
  /\ Go(c, "idle", "rejected")
  /\ UNCHANGED <<slots, depth, loaded>>

(* The handler's answer to ErrQueueFull, a 503; the goroutine is done. *)
AnswerRejected(c) ==
  /\ Go(c, "rejected", "idle")
  /\ UNCHANGED <<slots, depth, loaded>>

AcquireCheck(c) ==
  /\ ~QueueFull
  /\ Go(c, "idle", "checked")
  /\ UNCHANGED <<slots, depth, loaded>>

AcquireEnqueue(c) ==
  /\ Go(c, "checked", "waiting")
  /\ depth' = depth + 1
  /\ UNCHANGED <<slots, loaded>>

(* The environment: the client went away, or its deadline passed. *)
ContextDone(c) ==
  /\ Go(c, "waiting", "expired")
  /\ UNCHANGED <<slots, depth, loaded>>

(* With both cases ready the select may pick either. *)
AcquireTake(c) ==
  /\ SlotFree
  /\ Go(c, "waiting", "adjudicating") \/ Go(c, "expired", "adjudicating")
  /\ slots' = slots + 1
  /\ UNCHANGED <<depth, loaded>>

(* Faulty: a Release deferred before the error is looked at. *)
AcquireCancelledReleases(c) ==
  /\ slots > 0
  /\ Go(c, "expired", "leaving")
  /\ slots' = slots - 1
  /\ UNCHANGED <<depth, loaded>>

(* ctx.Done() wins the select; the caller still counts until its add. *)
AcquireCancelled(c) ==
  /\ Go(c, "expired", "leaving")
  /\ UNCHANGED <<slots, depth, loaded>>

(* Faulty: the cancelled wait stays in depth. *)
AcquireLeaveKeepsDepth(c) ==
  /\ Go(c, "leaving", "idle")
  /\ UNCHANGED <<slots, depth, loaded>>

AcquireLeave(c) ==
  /\ Go(c, "leaving", "idle")
  /\ depth' = depth - 1
  /\ UNCHANGED <<slots, loaded>>

-----------------------------------------------------------------------------
(* TryAcquire *)

(* waiters() is two reads, the depth and then the channel's length. *)
LoadDepth(c) == loaded' = [loaded EXCEPT ![c] = depth]
Waiters(c)   == IF loaded[c] - slots < 0 THEN 0 ELSE loaded[c] - slots

TryStart(c) ==
  /\ Go(c, "idle", "tryLen")
  /\ LoadDepth(c)
  /\ UNCHANGED <<slots, depth>>

TryFirstLook(c) ==
  /\ IF Waiters(c) > 0 THEN Go(c, "tryLen", "idle") ELSE Go(c, "tryLen", "tryWait")
  /\ UNCHANGED <<slots, depth, loaded>>

TryTake(c) ==
  /\ SlotFree
  /\ Go(c, "tryWait", "tryTaken")
  /\ slots' = slots + 1
  /\ UNCHANGED <<depth, loaded>>

(* Faulty: a wait that ends only with a slot. *)
TryGiveUpNoTimer(c) ==
  /\ ~TimedWait /\ ~SlotFree
  /\ Go(c, "tryWait", "idle")
  /\ UNCHANGED <<slots, depth, loaded>>

(* The default case when no wait is configured, else the timer or ctx. *)
TryGiveUp(c) ==
  /\ TimedWait \/ ~SlotFree
  /\ Go(c, "tryWait", "idle")
  /\ UNCHANGED <<slots, depth, loaded>>

TryReload(c) ==
  /\ Go(c, "tryTaken", "tryRelen")
  /\ LoadDepth(c)
  /\ UNCHANGED <<slots, depth>>

TrySecondLook(c) ==
  /\ IF Waiters(c) > 0 THEN Go(c, "tryRelen", "tryBack") ELSE Go(c, "tryRelen", "tryCount")
  /\ UNCHANGED <<slots, depth, loaded>>

(* Faulty: refused without receiving the token back. *)
TryHandBackLeaks(c) ==
  /\ Go(c, "tryBack", "idle")
  /\ UNCHANGED <<slots, depth, loaded>>

TryHandBack(c) ==
  /\ slots > 0
  /\ Go(c, "tryBack", "idle")
  /\ slots' = slots - 1
  /\ UNCHANGED <<depth, loaded>>

TryCount(c) ==
  /\ Go(c, "tryCount", "reading")
  /\ depth' = depth + 1
  /\ UNCHANGED <<slots, loaded>>

-----------------------------------------------------------------------------
(* Release, by a caller that was let in: the slot first, the depth after. *)

ReleaseSlot(c) ==
  /\ slots > 0
  /\ \/ Go(c, "adjudicating", "releasing")
     \/ Go(c, "reading", "releasing")
  /\ slots' = slots - 1
  /\ UNCHANGED <<depth, loaded>>

ReleaseDepth(c) ==
  /\ Go(c, "releasing", "idle")
  /\ depth' = depth - 1
  /\ UNCHANGED <<slots, loaded>>

-----------------------------------------------------------------------------
Acquire(c) ==
  \/ AcquireRejected(c)
  \/ AnswerRejected(c)
  \/ AcquireCheck(c)
  \/ AcquireEnqueue(c)
  \/ ContextDone(c)
  \/ AcquireTake(c)
  \/ AcquireCancelled(c)
  \/ AcquireLeave(c)

TryAcquire(c) ==
  \/ TryStart(c)
  \/ TryFirstLook(c)
  \/ TryTake(c)
  \/ TryGiveUp(c)
  \/ TryReload(c)
  \/ TrySecondLook(c)
  \/ TryHandBack(c)
  \/ TryCount(c)

Release(c) == ReleaseSlot(c) \/ ReleaseDepth(c)

Next == \E c \in Callers : Acquire(c) \/ TryAcquire(c) \/ Release(c)

Spec == Init /\ [][Next]_vars

(* A goroutine that can take its next instruction takes it; the LLM calls  *)
(* made under a slot end (llm.request_timeout); a sender parked on the     *)
(* channel is served in turn by the runtime, hence strong fairness of the  *)
(* select.  Nothing is assumed of the context, nor of new calls.           *)
Progress(c) ==
  \/ AnswerRejected(c) \/ AcquireEnqueue(c) \/ AcquireLeave(c)
  \/ TryFirstLook(c) \/ TryTake(c) \/ TryGiveUp(c) \/ TryReload(c)
  \/ TrySecondLook(c) \/ TryHandBack(c) \/ TryCount(c)
  \/ ReleaseSlot(c) \/ ReleaseDepth(c)

FairSpec ==
  /\ Spec
  /\ \A c \in Callers : WF_vars(Progress(c)) /\ SF_vars(AcquireTake(c) \/ AcquireCancelled(c))

-----------------------------------------------------------------------------
(* Who is where *)

At(phases) == {c \in Callers : pc[c] \in phases}

Holders     == At(HeldPhases)
Waiting     == At(QueuedPhases)
(* Callers whose token is in the channel. *)
SlotPhases  == HeldPhases \cup {"tryTaken", "tryRelen", "tryBack", "tryCount"}
InSlot      == At(SlotPhases)
(* Callers that depth stands for. *)
DepthPhases == HeldPhases \cup QueuedPhases \cup {"leaving", "releasing"}
InDepth     == At(DepthPhases)

TypeOK ==
  /\ slots \in 0..Capacity
  /\ depth \in Nat
  /\ pc \in [Callers -> Phases]
  /\ loaded \in [Callers -> Nat]

(* Every token in the channel belongs to exactly one caller between its     *)
(* send and its receive, on every path through Acquire, TryAcquire (the     *)
(* hand-back too) and Release: no slot leaks and none is given up twice.    *)
SlotsAccounted == slots = Cardinality(InSlot)

(* depth counts exactly the callers queued, let in, or on their way out: a  *)
(* cancelled wait and a Release give back what they added, a refused or     *)
(* handed-back TryAcquire never adds, and depth cannot drift or go below 0. *)
DepthAccounted == depth = Cardinality(InDepth)

(* Never more callers let in than llm.max_inflight, whichever way they came.*)
InflightBounded == Cardinality(Holders) <= Capacity

(* The receives in Release and in TryAcquire's hand-back never block: the   *)
(* channel is not empty when they run, so no request hangs giving back.     *)
GivingBackNeverBlocks ==
  At(HeldPhases \cup {"tryBack"}) # {} => slots > 0

(* A 503 is never for nothing: whenever Acquire rejects, QueueMax callers   *)
(* really are queued, let in, or in the middle of leaving.                  *)
RejectedOnlyUnderLoad ==
  [][\A c \in Callers :
       pc[c] = "idle" /\ pc'[c] = "rejected" => Cardinality(InDepth) >= QueueMax]_vars

(* TryAcquire always answers, yes or no: its timer bounds the wait and its  *)
(* hand-back finds a token.                                                 *)
TryAcquireAnswers ==
  \A c \in Callers : pc[c] \in TryPhases ~> pc[c] \in {"idle", "reading"}

(* The gate it implements: those queued and those let in, nothing else. *)
Gate == INSTANCE SlotGate WITH queued <- Waiting, holders <- Holders

(* Every step of the semaphore is a step of the gate or changes nothing the *)
(* gate's callers can see: in particular it lets nobody in without room.    *)
GateSafety == Gate!GateSafety

(* It keeps the gate's whole promise: an admitted caller gives back and a   *)
(* queued one is let in or gives up, so deep reads that come and go without *)
(* queueing cannot starve adjudication.                                     *)
GateSpec == Gate!GateSpec

-----------------------------------------------------------------------------
(* What the comments and the documentation say and the code does not do.   *)

(* "never while another caller is queued in Acquire" (TryAcquire): when the *)
(* depth a borrower re-reads counts a caller that has no slot, and a caller *)
(* is still queued when it has compared, it hands its slot back.            *)
BorrowerYields ==
  [][\A c \in Callers :
       /\ pc[c] = "tryRelen"
       /\ loaded[c] > Cardinality(InSlot \ {c})
       /\ Waiting # {}
       => pc'[c] # "tryCount"]_vars

(* "llm.queue_max is adjudication's alone" (deployment guide), "It cannot   *)
(* push an adjudication past queue_max" (DeepReader.Scan): an adjudication  *)
(* is rejected on account of QueueMax callers other than running borrowers. *)
RejectedForAdjudicationsAlone ==
  [][\A c \in Callers :
       pc[c] = "idle" /\ pc'[c] = "rejected"
       => Cardinality(InDepth \ At({"reading"})) >= QueueMax]_vars
=============================================================================
