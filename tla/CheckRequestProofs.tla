------------------------- MODULE CheckRequestProofs -------------------------
(***************************************************************************)
(* What holds of CheckRequest for every number of requests, slots,         *)
(* findings and windows and every setting of the caps: the slots are held  *)
(* where the calls are made and nowhere else, and a 200 stands for what    *)
(* was really scanned, asked and answered.                                 *)
(***************************************************************************)
EXTENDS CheckRequest, FiniteSetTheorems, TLAPS

Step(r) == Receive(r) \/ Handle(r) \/ Admit(r) \/ Cancelled(r) \/ Retry(r) \/ CallLLM(r)

-----------------------------------------------------------------------------
(* Slots *)

SlotInv == stage \in [Requests -> Stages] /\ SlotsMatchStages

(* Every step moves one request, and its slot or place in line with it.     *)
LEMMA NextSlots == SlotInv /\ [Next]_vars => SlotInv'
<1> SUFFICES ASSUME SlotInv, [Next]_vars PROVE SlotInv'
  OBVIOUS
<1> USE DEF SlotInv, SlotsMatchStages, Stages, CallStages, DeepStages, Go, gate
<1>1. ASSUME NEW r \in Requests, Step(r) PROVE SlotInv'
  <2>1. ASSUME NEW d \in BOOLEAN, Arrive(r, d) PROVE SlotInv'
    BY <2>1 DEF Arrive
  <2>2. CASE BadRequest(r)
    BY <2>2 DEF BadRequest
  <2>3. CASE ContextDone(r)
    BY <2>3 DEF ContextDone
  <2>4. CASE Forget(r)
    BY <2>4 DEF Forget
  <2>5. ASSUME NEW fs \in Found, NEW errs \in Failures, Detect(r, fs, errs)
        PROVE  SlotInv'
    BY <2>5 DEF Detect
  <2>6. CASE TriageDecidesAll(r)
    BY <2>6 DEF TriageDecidesAll
  <2>7. CASE TriageNeedsModel(r)
    BY <2>7 DEF TriageNeedsModel
  <2>8. CASE QueueFull(r)
    BY <2>8 DEF QueueFull
  <2>9. CASE Enqueue(r)
    BY <2>9 DEF Enqueue, Slots!Enqueue
  <2>10. CASE NoDeepRead(r)
    BY <2>10 DEF NoDeepRead
  <2>11. ASSUME NEW n \in 0..MaxWindows, NEW c \in BOOLEAN, Plan(r, n, c)
         PROVE  SlotInv'
    BY <2>11 DEF Plan
  <2>12. CASE OpenWindow(r)
    BY <2>12 DEF OpenWindow, Borrow, Slots!Borrow
  <2>13. CASE WindowRefused(r)
    BY <2>13 DEF WindowRefused, ScanEnds
  <2>14. CASE AllWindowsRead(r)
    BY <2>14 DEF AllWindowsRead, ScanEnds
  <2>15. CASE Ground(r)
    BY <2>15 DEF Ground
  <2>16. CASE ReviewAdmitted(r)
    BY <2>16 DEF ReviewAdmitted, Borrow, Slots!Borrow
  <2>17. CASE ReviewRefused(r)
    BY <2>17 DEF ReviewRefused
  <2>18. CASE Respond(r)
    BY <2>18 DEF Respond
  <2>19. ASSUME NEW result \in {"written", "lost"}, WriteAudit(r, result)
         PROVE  SlotInv'
    BY <2>19 DEF WriteAudit
  <2>20. CASE Admit(r)
    BY <2>20 DEF Admit, Slots!Admit
  <2>21. CASE Cancelled(r)
    BY <2>21 DEF Cancelled, Slots!Abandon
  <2>22. CASE Retry(r)
    BY <2>22 DEF Retry, Calling
  <2>23. ASSUME NEW b \in SUBSET Unasked(r), NEW reply \in [b -> Says], AskBatch(r,
                b, reply)
         PROVE  SlotInv'
    BY <2>23 DEF AskBatch
  <2>24. CASE AdjudicationFails(r)
    BY <2>24 DEF AdjudicationFails, Slots!Return
  <2>25. CASE AdjudicationEnds(r)
    BY <2>25 DEF AdjudicationEnds, Slots!Return
  <2>26. ASSUME NEW claims \in SUBSET Claims, WindowRead(r, claims) PROVE SlotInv'
    BY <2>26 DEF WindowRead, Slots!Return
  <2>27. CASE WindowFails(r)
    BY <2>27 DEF WindowFails, Slots!Return
  <2>28. ASSUME NEW b \in SUBSET Judged(r, {"unasked"}), NEW reply \in [b -> Says],
                ReviewBatch(r, b, reply)
         PROVE  SlotInv'
    BY <2>28 DEF ReviewBatch
  <2>29. CASE ReviewFails(r)
    BY <2>29 DEF ReviewFails, Slots!Return
  <2>30. CASE ReviewEnds(r)
    BY <2>30 DEF ReviewEnds, Slots!Return
  <2> QED
    BY <1>1, <2>1, <2>2, <2>3, <2>4, <2>5, <2>6, <2>7, <2>8, <2>9, <2>10, <2>11,
       <2>12, <2>13, <2>14, <2>15, <2>16, <2>17, <2>18, <2>19, <2>20, <2>21,
       <2>22, <2>23, <2>24, <2>25, <2>26, <2>27, <2>28, <2>29, <2>30
    DEF Receive, Handle, CallLLM, Step
<1>2. CASE UNCHANGED vars
  BY <1>2 DEF vars
<1> QED
  BY <1>1, <1>2 DEF Next, Step

(* Whichever way a stage ends, its slot goes back once.                     *)
THEOREM SlotsFollowStages == Spec => []SlotsMatchStages
<1>1. Init => SlotInv
  BY DEF Init, SlotInv, SlotsMatchStages, Stages, CallStages
<1>2. SlotInv => SlotsMatchStages
  BY DEF SlotInv
<1> QED
  BY <1>1, <1>2, NextSlots, PTL DEF Spec

-----------------------------------------------------------------------------
(* The gate *)

LEMMA RoomForOne == Slots!HasRoom <=> Cardinality(holders) < Capacity
<1>1. Slots!Cardinality(holders) = Cardinality(holders)
  BY DEF Slots!Cardinality, Cardinality, Slots!IsFiniteSet, IsFiniteSet
<1> QED
  BY <1>1 DEF Slots!HasRoom

(* A step of a request is a step of the gate, or the gate does not see it.  *)
LEMMA NextGate == [Next]_vars => [Slots!GateNext]_(Slots!gateVars)
<1> SUFFICES ASSUME [Next]_vars PROVE Slots!GateNext \/ UNCHANGED gate
  BY DEF gate, Slots!gateVars
<1>1. ASSUME NEW r \in Requests, Step(r) PROVE Slots!GateNext \/ UNCHANGED gate
  <2>1. CASE Receive(r)
    BY <2>1 DEF Receive, Arrive, BadRequest, ContextDone, Forget
  <2>2. CASE Enqueue(r)
    BY <2>2 DEF Enqueue, Slots!GateNext
  <2>3. CASE OpenWindow(r) \/ ReviewAdmitted(r)
    BY <2>3 DEF OpenWindow, ReviewAdmitted, Borrow, Slots!GateNext
  <2>4. CASE Admit(r)
    BY <2>4 DEF Admit, Slots!GateNext
  <2>5. CASE Cancelled(r)
    BY <2>5 DEF Cancelled, Slots!GateNext
  <2>6. ASSUME Handle(r), ~Enqueue(r), ~OpenWindow(r), ~ReviewAdmitted(r)
        PROVE  UNCHANGED gate
    BY <2>6 DEF Handle, Detect, TriageDecidesAll, TriageNeedsModel, QueueFull, NoDeepRead, Plan,
                WindowRefused, AllWindowsRead, ScanEnds, Ground, ReviewRefused, Respond, WriteAudit
  <2>7. CASE Retry(r)
    BY <2>7 DEF Retry
  <2>8. ASSUME CallLLM(r) PROVE Slots!Return(r) \/ UNCHANGED gate
    BY <2>8 DEF CallLLM, AskBatch, AdjudicationFails, AdjudicationEnds, WindowRead, WindowFails,
                ReviewBatch, ReviewFails, ReviewEnds
  <2>9. CASE CallLLM(r)
    BY <2>8, <2>9 DEF Slots!GateNext
  <2> QED
    BY <1>1, <2>1, <2>2, <2>3, <2>4, <2>5, <2>6, <2>7, <2>9 DEF Step
<1>2. CASE UNCHANGED vars
  BY <1>2 DEF vars
<1> QED
  BY <1>1, <1>2 DEF Next, Step

(* However its handlers use the slots, a request never does at the gate     *)
(* what the semaphore does not provide for: it queues once, is admitted     *)
(* from the queue, borrows without queueing and returns what it holds.      *)
THEOREM UsesTheGate == Spec => Slots!GateSafety
<1>1. Init => Slots!GateInit
  BY DEF Init, Slots!GateInit
<1> QED
  BY <1>1, NextGate, PTL DEF Spec, Slots!GateSafety

Filled == Cardinality(holders) \in Nat /\ Cardinality(holders) <= Capacity

(* The gate keeps its count, whatever its users do.                         *)
LEMMA GateCounts ==
  ASSUME IsFiniteSet(holders), Filled, [Slots!GateNext]_(Slots!gateVars)
  PROVE  Filled'
<1>1. CASE holders' = holders
  BY <1>1 DEF Filled
<1>2. ASSUME NEW r \in Requests, Slots!HasRoom, holders' = holders \cup {r}
      PROVE  Filled'
  <2>1. Cardinality(holders') = IF r \in holders THEN Cardinality(holders)
                                ELSE Cardinality(holders) + 1
    BY <1>2, FS_AddElement
  <2>2. Cardinality(holders) < Capacity
    BY <1>2, RoomForOne
  <2>3. Capacity \in Nat
    BY CheckAssumption
  <2> QED
    BY <2>1, <2>2, <2>3 DEF Filled
<1>3. ASSUME NEW r \in Requests, holders' = holders \ {r}
      PROVE  Filled'
  <2>1. Cardinality(holders') = IF r \in holders THEN Cardinality(holders) - 1
                                ELSE Cardinality(holders)
    BY <1>3, FS_RemoveElement
  <2>2. IsFiniteSet(holders')
    BY <1>3, FS_RemoveElement
  <2> QED
    BY <2>1, <2>2, FS_CardinalityType, CheckAssumption DEF Filled
<1> QED
  BY <1>1, <1>2, <1>3
  DEF Slots!GateNext, Slots!gateVars, Slots!Enqueue, Slots!Admit, Slots!Abandon,
      Slots!Borrow, Slots!Return

(* Adjudications, windows and reviews together: never more requests than    *)
(* max_inflight are making LLM calls.                                       *)
CallsBounded == Cardinality({r \in Requests : stage[r] \in CallStages}) <= Capacity

(* max_inflight holds for whole requests, whichever stage their calls are of.*)
THEOREM CallsWithinCapacity == Spec => []CallsBounded
<1>1. SlotInv => IsFiniteSet(holders)
  <2>1. SlotInv => holders \in SUBSET Requests
    BY DEF SlotInv, SlotsMatchStages
  <2> QED
    BY <2>1, CheckAssumption, FS_Subset
<1>2. Init => Filled
  BY FS_EmptySet, CheckAssumption DEF Init, Filled
<1>3. SlotInv /\ Filled /\ [Next]_vars => Filled'
  BY <1>1, NextGate, GateCounts
<1>4. SlotInv /\ Filled => CallsBounded
  BY DEF SlotInv, SlotsMatchStages, Filled, CallsBounded
<1>5. Init => SlotInv
  BY DEF Init, SlotInv, SlotsMatchStages, Stages, CallStages
<1> QED
  BY <1>2, <1>3, <1>4, <1>5, NextSlots, PTL DEF Spec

(* Nobody waits on everybody: a request at the gate finds room or another   *)
(* request that has a slot to give back, a request in a call has one to     *)
(* give back, and a deep read that may not go on may be refused.            *)
NobodyStuck ==
  \A r \in Requests :
    /\ stage[r] \in CallStages => r \in holders
    /\ stage[r] \in {"window", "review"} =>
         /\ r \notin queued \cup holders
         /\ Slots!HasRoom \/ MayBeRefused(r)
    /\ stage[r] = "queued" =>
         Slots!HasRoom \/ \E q \in Requests \ {r} : stage[q] \in CallStages

(* There is no circular wait for LLM slots, for any number of requests.     *)
THEOREM NobodyIsStuck == Spec => []NobodyStuck
<1>1. ASSUME SlotInv, NEW r \in Requests, r \notin holders, ~Slots!HasRoom
      PROVE  \E q \in Requests \ {r} : stage[q] \in CallStages
  <2>1. holders # {}
    <3>1. ~(Cardinality(holders) < Capacity)
      BY <1>1, RoomForOne
    <3>2. 0 < Capacity
      BY CheckAssumption
    <3> QED
      BY <3>1, <3>2, FS_EmptySet
  <2> QED
    BY <1>1, <2>1 DEF SlotInv, SlotsMatchStages
<1>2. ASSUME SlotInv, NEW r \in Requests, \E q \in Requests \ {r} : stage[q] \in CallStages
      PROVE  MayBeRefused(r)
  BY <1>2 DEF MayBeRefused, Others, CallStages
<1>3. ASSUME SlotInv, NEW r \in Requests
      PROVE  /\ stage[r] \in CallStages => r \in holders
             /\ stage[r] \in {"window", "review", "queued"} => r \notin holders
             /\ stage[r] \in {"window", "review"} => r \notin queued \cup holders
  BY <1>3 DEF SlotInv, SlotsMatchStages, CallStages
<1>4. SlotInv => NobodyStuck
  BY <1>1, <1>2, <1>3 DEF NobodyStuck
<1>5. Init => SlotInv
  BY DEF Init, SlotInv, SlotsMatchStages, Stages, CallStages
<1> QED
  BY <1>4, <1>5, NextSlots, PTL DEF Spec

-----------------------------------------------------------------------------
(* Types *)

Early == {"idle", "detect", "triage", "acquire", "queued", "adjudicating", "deep"}

(* The types of what is said, decided and judged; and what they rest on:     *)
(* nothing is decided before detection, no window is read before the plan,   *)
(* and a window being read is one of it.                                     *)
Worded ==
  \A r \in Requests :
    /\ said[r] \in [DOMAIN found[r] -> Says \cup {"unasked"}]
    /\ verdicts[r] = <<>> \/ verdicts[r] \in [DOMAIN found[r] -> Verdicts]
    /\ judged[r] \in [grounded[r] -> Says \cup {"unasked"}]

InPlan ==
  \A r \in Requests :
    /\ stage[r] \in {"idle", "detect"} => verdicts[r] = <<>>
    /\ stage[r] \in Early => scanned[r] = 0
    /\ stage[r] = "window" => scanned[r] <= planned[r]
    /\ stage[r] = "reading" => scanned[r] < planned[r]

Domains == DOMAIN said = Requests /\ DOMAIN verdicts = Requests /\ DOMAIN judged = Requests

TypeInv == TypeOK /\ Domains /\ InPlan

DeepStatuses == {"none", "disabled", "skipped", "complete", "partial", "deferred", "failed"}

LEMMA NoEntries ==
  ASSUME NEW S
  PROVE  DOMAIN <<>> = {} /\ <<>> \in [{} -> S] /\ <<>> \in Seq(S)
  OBVIOUS

LEMMA VerdictTypes ==
  ASSUME NEW r \in Requests, TypeOK
  PROVE  MergedVerdicts(r) \in [DOMAIN found[r] -> Verdicts]
<1>1. ASSUME NEW i \in DOMAIN found[r]
      PROVE  FinalVerdict(found[r][i], said[r][i], i \in InCap(r)) \in Verdicts
  BY Zenon DEF FinalVerdict, Verdicts
<1> QED
  BY <1>1 DEF MergedVerdicts

LEMMA NextTypes == TypeInv /\ [Next]_vars => TypeInv'
<1> SUFFICES ASSUME TypeInv, [Next]_vars PROVE TypeInv'
  OBVIOUS
<1> USE DEF TypeInv, TypeOK, Domains, InPlan, Early, Go, Set, SendStatus, gate, input,
           shallow, read, review, deepStats, Stages, CallStages, DeepStages
<1>1. ASSUME NEW r \in Requests, Step(r) PROVE TypeInv'
  <2>1. ASSUME NEW d \in BOOLEAN, Arrive(r, d)
        PROVE  TypeInv'
    BY <2>1 DEF Arrive
  <2>2. CASE BadRequest(r)
    BY <2>2 DEF BadRequest
  <2>3. CASE ContextDone(r)
    BY <2>3 DEF ContextDone
  <2>4. CASE Forget(r)
    <3>1. Worded'
      BY <2>4, NoEntries DEF Forget, Worded
    <3>2. found' \in [Requests -> Seq(Kinds)]
      BY <2>4, NoEntries DEF Forget
    <3>3. /\ planned' \in [Requests -> 0..MaxWindows] /\ scanned' \in [Requests -> 0..MaxWindows]
      BY <2>4, CheckAssumption DEF Forget
    <3>4. {grounded', discoveries', withheld'} \subseteq [Requests -> SUBSET Fresh]
      BY <2>4 DEF Forget
    <3>5. TypeOK'
      BY <2>4, <3>1, <3>2, <3>3, <3>4 DEF Forget, Worded
    <3>6. InPlan'
      BY <2>4 DEF Forget
    <3>7. Domains'
      BY <2>4 DEF Forget
    <3> HIDE DEF TypeOK, Domains, InPlan
    <3> QED
      BY <3>5, <3>6, <3>7
  <2>5. ASSUME NEW fs \in Found, NEW errs \in Failures, Detect(r, fs, errs)
        PROVE  TypeInv'
    <3>0. fs \in Seq(Kinds) /\ errs \in {"none", "some", "all"}
      BY CheckAssumption
    <3>1. Worded'
      BY <2>5 DEF Detect, Worded
    <3>2. found' \in [Requests -> Seq(Kinds)] /\ failed' \in [Requests -> {"none", "some", "all"}]
      BY <2>5, <3>0 DEF Detect
    <3>3. stage' \in [Requests -> Stages] /\ answer' \in [Requests -> {0, 200, 400, 502, 503}]
      <4>1. \/ stage' = [stage EXCEPT ![r] = "answered"] /\ answer' = [answer EXCEPT ![r] = 503]
            \/ stage' = [stage EXCEPT ![r] = "triage"] /\ answer' = answer
        BY <2>5, ZenonT(60) DEF Detect
      <4>2. "answered" \in Stages /\ "triage" \in Stages /\ stage \in [Requests -> Stages]
            /\ answer \in [Requests -> {0, 200, 400, 502, 503}]
        OBVIOUS
      <4> HIDE DEF Stages, TypeInv, TypeOK, InPlan, Domains
      <4> QED
        BY <4>1, <4>2
    <3>4. UNCHANGED <<ctxDone, queued, holders, attempt, deep, planned, cut, scanned, candidates,
                      grounded, discoveries, withheld, deepStatus, ran, audit>>
      BY <2>5 DEF Detect
    <3>5. TypeOK'
      <4>1. /\ ctxDone' \subseteq Requests /\ queued' \subseteq Requests /\ holders' \subseteq Requests
            /\ attempt' \in [Requests -> 1..2] /\ deep' \in [Requests -> BOOLEAN]
        BY <3>4
      <4>2. /\ planned' \in [Requests -> 0..MaxWindows] /\ scanned' \in [Requests -> 0..MaxWindows]
            /\ cut' \in [Requests -> BOOLEAN] /\ candidates' \in [Requests -> SUBSET Claims]
        BY <3>4
      <4>3. /\ {grounded', discoveries', withheld'} \subseteq [Requests -> SUBSET Fresh]
            /\ deepStatus' \in [Requests -> DeepStatuses] /\ ran' \in [Requests -> BOOLEAN]
            /\ audit' \in [Requests -> {"none", "written", "lost"}]
        BY <3>4 DEF DeepStatuses
      <4> HIDE DEF TypeInv, InPlan, Domains, Stages
      <4> QED
        BY <3>1, <3>2, <3>3, <4>1, <4>2, <4>3, Zenon DEF Worded, TypeOK, DeepStatuses
    <3>6. InPlan'
      BY <2>5 DEF Detect
    <3>7. Domains'
      BY <2>5 DEF Detect
    <3> HIDE DEF TypeOK, Domains, InPlan
    <3> QED
      BY <3>5, <3>6, <3>7
  <2>6. CASE TriageDecidesAll(r)
    <3>1. MergedVerdicts(r) \in [DOMAIN found[r] -> Verdicts]
      BY VerdictTypes
    <3>2. Worded'
      BY <2>6, <3>1 DEF TriageDecidesAll, Worded
    <3> QED
      BY <2>6, <3>2 DEF TriageDecidesAll, Worded
  <2>7. CASE TriageNeedsModel(r)
    BY <2>7 DEF TriageNeedsModel
  <2>8. CASE QueueFull(r)
    BY <2>8 DEF QueueFull
  <2>9. CASE Enqueue(r)
    BY <2>9 DEF Enqueue, Slots!Enqueue
  <2>10. CASE NoDeepRead(r)
    <3>1. \E status \in DeepStatuses :
            deepStatus' = [deepStatus EXCEPT ![r] = status] \/ deepStatus' = deepStatus
      BY <2>10, Zenon DEF NoDeepRead, DeepStatuses
    <3>2. deepStatus' \in [Requests -> DeepStatuses]
      <4>1. deepStatus \in [Requests -> DeepStatuses]
        BY DEF DeepStatuses
      <4>2. PICK status \in DeepStatuses :
              deepStatus' = [deepStatus EXCEPT ![r] = status] \/ deepStatus' = deepStatus
        BY <3>1
      <4> HIDE DEF DeepStatuses, TypeOK, TypeInv, InPlan, Domains
      <4> QED
        BY <4>1, <4>2
    <3> QED
      BY <2>10, <3>2 DEF NoDeepRead, DeepStatuses
  <2>11. ASSUME NEW n \in 0..MaxWindows, NEW c \in BOOLEAN, Plan(r, n, c)
         PROVE  TypeInv'
    BY <2>11 DEF Plan
  <2>12. CASE OpenWindow(r)
    BY <2>12 DEF OpenWindow, Borrow, Slots!Borrow
  <2>13. CASE WindowRefused(r)
    <3>1. \E to \in {"respond", "grounding"}, status \in {"deferred", "partial"} :
            stage' = [stage EXCEPT ![r] = to] /\ ScanEnds(r, status)
      BY <2>13, Zenon DEF WindowRefused
    <3> QED
      BY <3>1 DEF ScanEnds
  <2>14. CASE AllWindowsRead(r)
    BY <2>14 DEF AllWindowsRead, ScanEnds
  <2>15. CASE Ground(r)
    <3> DEFINE kept == candidates[r] \cap Fresh
    <3>0. kept \subseteq Fresh
      OBVIOUS
    <3>1. /\ grounded' = [grounded EXCEPT ![r] = kept]
          /\ judged' = [judged EXCEPT ![r] = [v \in kept |-> "unasked"]]
          /\ discoveries' = [discoveries EXCEPT ![r] = IF DeepReview /\ kept # {} THEN {} ELSE kept]
          /\ withheld' = withheld
      BY <2>15 DEF Ground
    <3>2. stage' = [stage EXCEPT ![r] = IF DeepReview /\ kept # {} THEN "review" ELSE "respond"]
      BY <2>15 DEF Ground
    <3>9. UNCHANGED <<ctxDone, queued, holders, attempt, found, failed, deep, said, verdicts,
                      planned, cut, scanned, candidates, deepStatus, ran, answer, audit>>
      BY <2>15 DEF Ground
    <3> HIDE DEF kept
    <3>3. {grounded', discoveries', withheld'} \subseteq [Requests -> SUBSET Fresh]
      BY <3>0, <3>1
    <3>4. \A q \in Requests : judged'[q] \in [grounded'[q] -> Says \cup {"unasked"}]
      <4>1. \A q \in Requests \ {r} : judged'[q] = judged[q] /\ grounded'[q] = grounded[q]
        BY <3>1
      <4>2. grounded'[r] = kept /\ judged'[r] = [v \in kept |-> "unasked"]
        BY <3>1
      <4>3. judged'[r] \in [grounded'[r] -> Says \cup {"unasked"}]
        BY <4>2
      <4> QED
        BY <4>1, <4>3
    <3>5. stage' \in [Requests -> Stages] /\ Domains'
      <4>1. Domains'
        BY <3>1, <3>9
      <4>2. "review" \in Stages /\ "respond" \in Stages /\ stage \in [Requests -> Stages]
        OBVIOUS
      <4> HIDE DEF Stages, TypeInv, TypeOK, InPlan, Domains
      <4>3. stage' \in [Requests -> Stages]
        BY <3>2, <4>2
      <4> QED
        BY <4>1, <4>3
    <3>6. InPlan'
      BY <3>2, <3>9
    <3>7. TypeOK'
      BY <3>3, <3>4, <3>5, <3>9
    <3> HIDE DEF TypeOK, Domains, InPlan
    <3> QED
      BY <3>5, <3>6, <3>7
  <2>16. CASE ReviewAdmitted(r)
    BY <2>16 DEF ReviewAdmitted, Borrow, Slots!Borrow
  <2>17. CASE ReviewRefused(r)
    BY <2>17 DEF ReviewRefused
  <2>18. CASE Respond(r)
    BY <2>18 DEF Respond
  <2>19. ASSUME NEW result \in {"written", "lost"}, WriteAudit(r, result)
         PROVE  TypeInv'
    BY <2>19 DEF WriteAudit
  <2>20. CASE Admit(r)
    BY <2>20 DEF Admit, Slots!Admit
  <2>21. CASE Cancelled(r)
    BY <2>21 DEF Cancelled, Slots!Abandon
  <2>22. CASE Retry(r)
    BY <2>22 DEF Retry
  <2>23. ASSUME NEW b \in SUBSET Unasked(r), NEW reply \in [b -> Says], AskBatch(r, b, reply)
         PROVE  TypeInv'
    BY <2>23 DEF AskBatch
  <2>24. CASE AdjudicationFails(r)
    BY <2>24 DEF AdjudicationFails, Slots!Return
  <2>25. CASE AdjudicationEnds(r)
    <3>1. MergedVerdicts(r) \in [DOMAIN found[r] -> Verdicts]
      BY VerdictTypes
    <3>2. Worded'
      BY <2>25, <3>1 DEF AdjudicationEnds, Worded
    <3> QED
      BY <2>25, <3>2 DEF AdjudicationEnds, Slots!Return, Worded
  <2>26. ASSUME NEW claims \in SUBSET Claims, WindowRead(r, claims)
         PROVE  TypeInv'
    <3>1. scanned[r] < planned[r] /\ planned[r] \in 0..MaxWindows /\ scanned[r] \in 0..MaxWindows
      BY <2>26 DEF WindowRead
    <3>2. scanned[r] + 1 \in 0..MaxWindows
      BY <3>1, CheckAssumption
    <3>3. scanned' \in [Requests -> 0..MaxWindows]
      BY <2>26, <3>2 DEF WindowRead
    <3>4. candidates' \in [Requests -> SUBSET Claims]
      BY <2>26 DEF WindowRead
    <3>5. /\ scanned'[r] <= planned'[r]
          /\ \A q \in Requests \ {r} : scanned'[q] = scanned[q] /\ stage'[q] = stage[q]
      BY <2>26, <3>1, CheckAssumption DEF WindowRead
    <3> QED
      BY <2>26, <3>3, <3>4, <3>5 DEF WindowRead, Slots!Return
  <2>27. CASE WindowFails(r)
    BY <2>27 DEF WindowFails, Slots!Return
  <2>28. ASSUME NEW b \in SUBSET Judged(r, {"unasked"}), NEW reply \in [b -> Says],
                ReviewBatch(r, b, reply)
         PROVE  TypeInv'
    BY <2>28 DEF ReviewBatch
  <2>29. CASE ReviewFails(r)
    BY <2>29 DEF ReviewFails, Slots!Return
  <2>30. CASE ReviewEnds(r)
    <3>1. Judged(r, {"confirmed"}) \subseteq Fresh /\ Judged(r, {"other"}) \subseteq Fresh
      BY DEF Judged
    <3>2. {grounded', discoveries', withheld'} \subseteq [Requests -> SUBSET Fresh]
      BY <2>30, <3>1 DEF ReviewEnds
    <3>3. deepStatus' \in [Requests -> DeepStatuses]
      BY <2>30 DEF ReviewEnds, DeepStatuses
    <3> QED
      BY <2>30, <3>2, <3>3 DEF ReviewEnds, Slots!Return, DeepStatuses
  <2> HIDE DEF TypeInv, Domains, TypeOK, InPlan, Go, Set, SendStatus
  <2> QED
    BY <1>1, <2>1, <2>2, <2>3, <2>4, <2>5, <2>6, <2>7, <2>8, <2>9, <2>10, <2>11,
       <2>12, <2>13, <2>14, <2>15, <2>16, <2>17, <2>18, <2>19, <2>20, <2>21,
       <2>22, <2>23, <2>24, <2>25, <2>26, <2>27, <2>28, <2>29, <2>30
    DEF Receive, Handle, CallLLM, Step
<1>2. CASE UNCHANGED vars
  BY <1>2 DEF vars
<1> QED
  BY <1>1, <1>2 DEF Next, Step

(* The inductive invariant of the types.                                    *)
LEMMA TypeInvariant == Spec => []TypeInv
<1>1. Init => TypeInv
  <2>1. ASSUME Init PROVE Domains /\ InPlan
    BY <2>1 DEF Init, Domains, InPlan
  <2>2. ASSUME Init PROVE Worded
    BY <2>2, NoEntries DEF Init, Worded
  <2>3. ASSUME Init PROVE TypeOK
    <3>1. found \in [Requests -> Seq(Kinds)]
      BY <2>3, NoEntries DEF Init
    <3>2. planned \in [Requests -> 0..MaxWindows] /\ scanned \in [Requests -> 0..MaxWindows]
      BY <2>3, CheckAssumption DEF Init
    <3> QED
      BY <2>2, <2>3, <3>1, <3>2 DEF Init, TypeOK, Worded, Stages
  <2> QED
    BY <2>1, <2>3 DEF TypeInv
<1> QED
  BY <1>1, NextTypes, PTL DEF Spec

(* A plan is never overrun: no window is opened past the planned ones, and   *)
(* what is said, decided and judged is about the request's own findings and  *)
(* candidates, however requests interleave and their contexts end.           *)
THEOREM RequestTypes == Spec => []TypeOK
<1>1. TypeInv => TypeOK
  BY DEF TypeInv
<1> QED
  BY <1>1, TypeInvariant, PTL

-----------------------------------------------------------------------------
(* Verdicts *)

(* Requests whose empty result would be an answer, and requests whose       *)
(* verdicts are what the model and the short circuit decided.               *)
Looked  == {r \in Requests : found[r] = <<>> => failed[r] = "none"}
Settled == {r \in Requests : Unasked(r) = {} /\ verdicts[r] = MergedVerdicts(r)}

ShallowInv ==
  /\ DOMAIN stage = Requests /\ DOMAIN answer = Requests
  /\ DOMAIN found = Requests /\ DOMAIN failed = Requests
  /\ DOMAIN said = Requests /\ DOMAIN verdicts = Requests
  /\ \A r \in Requests :
       /\ stage[r] \notin {"audit", "answered"} => answer[r] = 0
       /\ stage[r] \notin {"idle", "detect", "answered"} \/ Served(r) => r \in Looked
       /\ stage[r] \in DeepStages \cup {"respond"} \/ Served(r) => r \in Settled

(* What a request's findings and verdicts show depends on nothing else.     *)
LEMMA SameShallow ==
  ASSUME NEW r \in Requests,
         found'[r] = found[r], failed'[r] = failed[r],
         said'[r] = said[r], verdicts'[r] = verdicts[r]
  PROVE  (r \in Looked' <=> r \in Looked) /\ (r \in Settled' <=> r \in Settled)
  BY DEF Looked, Settled, Unasked, LLMBound, InCap, MergedVerdicts

LEMMA NextShallow == ShallowInv /\ [Next]_vars => ShallowInv'
<1> SUFFICES ASSUME ShallowInv, [Next]_vars PROVE ShallowInv'
  OBVIOUS
<1> USE DEF ShallowInv, DeepStages, Served, Go, Set
<1>1. ASSUME NEW r \in Requests, Step(r) PROVE ShallowInv'
  <2>s. ASSUME UNCHANGED <<found, failed, said, verdicts>>
        PROVE  Looked' = Looked /\ Settled' = Settled
    BY <2>s, SameShallow DEF Looked, Settled
  <2>o. ASSUME NEW q \in Requests,
               found'[q] = found[q], failed'[q] = failed[q],
               said'[q] = said[q], verdicts'[q] = verdicts[q]
        PROVE  (q \in Looked' <=> q \in Looked) /\ (q \in Settled' <=> q \in Settled)
    BY <2>o, SameShallow
  <2>1. ASSUME NEW d \in BOOLEAN, Arrive(r, d) PROVE ShallowInv'
    BY <2>1, <2>s DEF Arrive, shallow, input
  <2>2. CASE BadRequest(r)
    BY <2>2, <2>s DEF BadRequest, SendStatus, shallow, input
  <2>3. CASE ContextDone(r)
    BY <2>3, <2>s DEF ContextDone, shallow, input
  <2>4. CASE Forget(r)
    BY <2>4, <2>o DEF Forget
  <2>5. ASSUME NEW fs \in Found, NEW errs \in Failures, Detect(r, fs, errs)
        PROVE  ShallowInv'
    <3>1. ASSUME NEW q \in Requests \ {r}
          PROVE  /\ q \in Looked' <=> q \in Looked
                 /\ q \in Settled' <=> q \in Settled
                 /\ stage'[q] = stage[q] /\ answer'[q] = answer[q]
      BY <2>5, <2>o DEF Detect, SendStatus
    <3>2. \/ stage'[r] = "answered" /\ answer'[r] = 503
          \/ stage'[r] = "triage" /\ answer'[r] = 0 /\ r \in Looked'
      BY <2>5 DEF Detect, SendStatus, Looked
    <3> QED
      BY <2>5, <3>1, <3>2 DEF Detect, SendStatus
  <2>6. CASE TriageDecidesAll(r)
    <3>1. ASSUME NEW q \in Requests \ {r}
          PROVE  /\ q \in Looked' <=> q \in Looked
                 /\ q \in Settled' <=> q \in Settled
                 /\ stage'[q] = stage[q] /\ answer'[q] = answer[q]
      BY <2>6, <2>o DEF TriageDecidesAll, input
    <3>2. r \in Looked' /\ r \in Settled'
      <4>1. Unasked(r)' = {} /\ MergedVerdicts(r)' = MergedVerdicts(r)
        BY <2>6
        DEF TriageDecidesAll, input, Unasked, LLMBound, InCap, MergedVerdicts
      <4> QED
        BY <2>6, <4>1 DEF TriageDecidesAll, input, Looked, Settled
    <3>3. stage'[r] = "deep" /\ answer'[r] = 0
      BY <2>6 DEF TriageDecidesAll
    <3> QED
      BY <2>6, <3>1, <3>2, <3>3 DEF TriageDecidesAll, input
  <2>7. CASE TriageNeedsModel(r)
    BY <2>7, <2>s DEF TriageNeedsModel, shallow, input
  <2>8. CASE QueueFull(r)
    BY <2>8, <2>s DEF QueueFull, SendStatus, shallow, input
  <2>9. CASE Enqueue(r)
    BY <2>9, <2>s DEF Enqueue, shallow, input
  <2>10. CASE NoDeepRead(r)
    BY <2>10, <2>s DEF NoDeepRead, shallow, input
  <2>11. ASSUME NEW n \in 0..MaxWindows, NEW c \in BOOLEAN, Plan(r, n, c)
         PROVE  ShallowInv'
    BY <2>11, <2>s DEF Plan, shallow, input
  <2>12. CASE OpenWindow(r)
    BY <2>12, <2>s DEF OpenWindow, Borrow, shallow, input
  <2>13. CASE WindowRefused(r)
    BY <2>13, <2>s DEF WindowRefused, ScanEnds, shallow, input
  <2>14. CASE AllWindowsRead(r)
    BY <2>14, <2>s DEF AllWindowsRead, ScanEnds, shallow, input
  <2>15. CASE Ground(r)
    BY <2>15, <2>s DEF Ground, shallow, input
  <2>16. CASE ReviewAdmitted(r)
    BY <2>16, <2>s DEF ReviewAdmitted, Borrow, shallow, input
  <2>17. CASE ReviewRefused(r)
    BY <2>17, <2>s DEF ReviewRefused, shallow, input
  <2>18. CASE Respond(r)
    BY <2>18, <2>s DEF Respond, SendStatus, shallow, input
  <2>19. ASSUME NEW result \in {"written", "lost"}, WriteAudit(r, result)
         PROVE  ShallowInv'
    BY <2>19, <2>s DEF WriteAudit, shallow, input
  <2>20. CASE Admit(r)
    BY <2>20, <2>s DEF Admit, shallow, input
  <2>21. CASE Cancelled(r)
    BY <2>21, <2>s DEF Cancelled, SendStatus, shallow, input
  <2>22. CASE Retry(r)
    BY <2>22, <2>s DEF Retry, Calling, shallow, input
  <2>23. ASSUME NEW b \in SUBSET Unasked(r), NEW reply \in [b -> Says], AskBatch(r,
                b, reply)
         PROVE  ShallowInv'
    <3>1. ASSUME NEW q \in Requests \ {r}
          PROVE  /\ q \in Looked' <=> q \in Looked
                 /\ q \in Settled' <=> q \in Settled
                 /\ stage'[q] = stage[q] /\ answer'[q] = answer[q]
      BY <2>23, <2>o DEF AskBatch, input
    <3>2. r \in Looked' /\ stage'[r] = "adjudicating" /\ answer'[r] = 0
      BY <2>23 DEF AskBatch, input, Looked
    <3> QED
      BY <2>23, <3>1, <3>2 DEF AskBatch, input
  <2>24. CASE AdjudicationFails(r)
    BY <2>24, <2>s DEF AdjudicationFails, SendStatus, shallow, input
  <2>25. CASE AdjudicationEnds(r)
    <3>1. ASSUME NEW q \in Requests \ {r}
          PROVE  /\ q \in Looked' <=> q \in Looked
                 /\ q \in Settled' <=> q \in Settled
                 /\ stage'[q] = stage[q] /\ answer'[q] = answer[q]
      BY <2>25, <2>o DEF AdjudicationEnds, input
    <3>2. r \in Looked' /\ r \in Settled'
      <4>1. Unasked(r)' = {} /\ MergedVerdicts(r)' = MergedVerdicts(r)
        BY <2>25
        DEF AdjudicationEnds, input, Unasked, LLMBound, InCap, MergedVerdicts
      <4> QED
        BY <2>25, <4>1 DEF AdjudicationEnds, input, Looked, Settled
    <3>3. stage'[r] = "deep" /\ answer'[r] = 0
      BY <2>25 DEF AdjudicationEnds
    <3> QED
      BY <2>25, <3>1, <3>2, <3>3 DEF AdjudicationEnds, input
  <2>26. ASSUME NEW claims \in SUBSET Claims, WindowRead(r, claims)
         PROVE  ShallowInv'
    BY <2>26, <2>s DEF WindowRead, shallow, input
  <2>27. CASE WindowFails(r)
    BY <2>27, <2>s DEF WindowFails, shallow, input
  <2>28. ASSUME NEW b \in SUBSET Judged(r, {"unasked"}), NEW reply \in [b -> Says],
                ReviewBatch(r, b, reply)
         PROVE  ShallowInv'
    BY <2>28, <2>s DEF ReviewBatch, shallow, input
  <2>29. CASE ReviewFails(r)
    BY <2>29, <2>s DEF ReviewFails, shallow, input
  <2>30. CASE ReviewEnds(r)
    BY <2>30, <2>s DEF ReviewEnds, shallow, input
  <2> QED
    BY <1>1, <2>1, <2>2, <2>3, <2>4, <2>5, <2>6, <2>7, <2>8, <2>9, <2>10, <2>11,
       <2>12, <2>13, <2>14, <2>15, <2>16, <2>17, <2>18, <2>19, <2>20, <2>21,
       <2>22, <2>23, <2>24, <2>25, <2>26, <2>27, <2>28, <2>29, <2>30
    DEF Receive, Handle, CallLLM, Step
<1>2. CASE UNCHANGED vars
  BY <1>2, SameShallow DEF vars, input, shallow
<1> QED
  BY <1>1, <1>2 DEF Next, Step

LEMMA ShallowInvariant == Spec => []ShallowInv
<1>1. Init => ShallowInv
  BY DEF Init, ShallowInv, DeepStages, Served
<1> QED
  BY <1>1, NextShallow, PTL DEF Spec

(* An empty 200 is never the answer where a detector failed.                *)
THEOREM EmptyMeansLooked == Spec => []FailClosed
<1>1. ShallowInv => FailClosed
  BY DEF ShallowInv, FailClosed, Looked
<1> QED
  BY <1>1, ShallowInvariant, PTL

(* No 200 covers up a batch the model did not answer.                       *)
THEOREM EveryBatchAnswered == Spec => []NothingLeftUnasked
<1>1. ShallowInv => NothingLeftUnasked
  BY DEF ShallowInv, NothingLeftUnasked, Settled
<1> QED
  BY <1>1, ShallowInvariant, PTL

(* A 200 has a verdict for every finding, a dismissal was decided, and a    *)
(* verified credential is confirmed.                                        *)
THEOREM DismissalsAreDecided == Spec => []DismissedOnlyWhenDecided
<1>1. ASSUME ShallowInv, NEW r \in Requests, Served(r)
      PROVE  /\ DOMAIN verdicts[r] = DOMAIN found[r]
             /\ \A i \in DOMAIN found[r] :
                  /\ verdicts[r][i] = "dismissed" =>
                       found[r][i] = "sentinel" \/ said[r][i] = "dismissed"
                  /\ found[r][i] = "verified" => verdicts[r][i] = "confirmed"
  <2>1. verdicts[r] = MergedVerdicts(r)
    BY <1>1 DEF ShallowInv, Settled
  <2>2. DOMAIN verdicts[r] = DOMAIN found[r]
    BY <2>1 DEF MergedVerdicts
  <2>3. ASSUME NEW i \in DOMAIN found[r]
        PROVE  verdicts[r][i] = FinalVerdict(found[r][i], said[r][i], i \in InCap(r))
    BY <2>1 DEF MergedVerdicts
  <2> QED
    BY <2>2, <2>3 DEF FinalVerdict
<1>2. ShallowInv => DismissedOnlyWhenDecided
  BY <1>1 DEF DismissedOnlyWhenDecided
<1> QED
  BY <1>2, ShallowInvariant, PTL

(* Whatever the deep read runs into, the verdicts stand and go out as a 200.*)
THEOREM DeepReadIsHarmless == Spec => DeepNeverFailsRequest
<1>1. ShallowInv /\ [Next]_vars =>
        [\A r \in Requests :
           stage[r] \in DeepStages \cup {"respond"} =>
             /\ verdicts'[r] = verdicts[r]
             /\ stage'[r] \in DeepStages \cup {"respond"} \/ answer'[r] = 200]_vars
  <2> DEFINE Late == DeepStages \cup {"respond"}
             Harmless == \A q \in Requests : stage[q] \in Late =>
                           /\ verdicts'[q] = verdicts[q]
                           /\ stage'[q] \in Late \/ answer'[q] = 200
  <2> SUFFICES ASSUME ShallowInv, Next PROVE Harmless
    OBVIOUS
  <2> USE DEF ShallowInv, DeepStages, Go, Set
  <2>1. ASSUME NEW r \in Requests, Step(r) PROVE Harmless
    <3>1. ASSUME NEW d \in BOOLEAN, Arrive(r, d) PROVE Harmless
      BY <3>1 DEF Arrive, shallow
    <3>2. CASE BadRequest(r)
      BY <3>2 DEF BadRequest, SendStatus, shallow
    <3>3. CASE ContextDone(r)
      BY <3>3 DEF ContextDone, shallow
    <3>4. CASE Forget(r)
      BY <3>4 DEF Forget, shallow
    <3>5. ASSUME NEW fs \in Found, NEW errs \in Failures, Detect(r, fs, errs)
          PROVE  Harmless
      BY <3>5 DEF Detect, SendStatus, shallow
    <3>6. CASE TriageDecidesAll(r)
      BY <3>6 DEF TriageDecidesAll, shallow
    <3>7. CASE TriageNeedsModel(r)
      BY <3>7 DEF TriageNeedsModel, shallow
    <3>8. CASE QueueFull(r)
      BY <3>8 DEF QueueFull, SendStatus, shallow
    <3>9. CASE Enqueue(r)
      BY <3>9 DEF Enqueue, shallow
    <3>10. CASE NoDeepRead(r)
      BY <3>10 DEF NoDeepRead, shallow
    <3>11. ASSUME NEW n \in 0..MaxWindows, NEW c \in BOOLEAN, Plan(r, n, c)
           PROVE  Harmless
      BY <3>11 DEF Plan, shallow
    <3>12. CASE OpenWindow(r)
      BY <3>12 DEF OpenWindow, Borrow, shallow
    <3>13. CASE WindowRefused(r)
      BY <3>13 DEF WindowRefused, ScanEnds, shallow
    <3>14. CASE AllWindowsRead(r)
      BY <3>14 DEF AllWindowsRead, ScanEnds, shallow
    <3>15. CASE Ground(r)
      BY <3>15 DEF Ground, shallow
    <3>16. CASE ReviewAdmitted(r)
      BY <3>16 DEF ReviewAdmitted, Borrow, shallow
    <3>17. CASE ReviewRefused(r)
      BY <3>17 DEF ReviewRefused, shallow
    <3>18. CASE Respond(r)
      BY <3>18 DEF Respond, SendStatus, shallow
    <3>19. ASSUME NEW result \in {"written", "lost"}, WriteAudit(r, result)
           PROVE  Harmless
      BY <3>19 DEF WriteAudit, shallow
    <3>20. CASE Admit(r)
      BY <3>20 DEF Admit, shallow
    <3>21. CASE Cancelled(r)
      BY <3>21 DEF Cancelled, SendStatus, shallow
    <3>22. CASE Retry(r)
      BY <3>22 DEF Retry, Calling, shallow
    <3>23. ASSUME NEW b \in SUBSET Unasked(r), NEW reply \in [b -> Says],
                  AskBatch(r, b, reply)
           PROVE  Harmless
      BY <3>23 DEF AskBatch, shallow
    <3>24. CASE AdjudicationFails(r)
      BY <3>24 DEF AdjudicationFails, SendStatus, shallow
    <3>25. CASE AdjudicationEnds(r)
      BY <3>25 DEF AdjudicationEnds, shallow
    <3>26. ASSUME NEW claims \in SUBSET Claims, WindowRead(r, claims) PROVE Harmless
      BY <3>26 DEF WindowRead, shallow
    <3>27. CASE WindowFails(r)
      BY <3>27 DEF WindowFails, shallow
    <3>28. ASSUME NEW b \in SUBSET Judged(r, {"unasked"}),
                  NEW reply \in [b -> Says], ReviewBatch(r, b, reply)
           PROVE  Harmless
      BY <3>28 DEF ReviewBatch, shallow
    <3>29. CASE ReviewFails(r)
      BY <3>29 DEF ReviewFails, shallow
    <3>30. CASE ReviewEnds(r)
      BY <3>30 DEF ReviewEnds, shallow
    <3> QED
      BY <2>1, <3>1, <3>2, <3>3, <3>4, <3>5, <3>6, <3>7, <3>8, <3>9, <3>10, <3>11,
         <3>12, <3>13, <3>14, <3>15, <3>16, <3>17, <3>18, <3>19, <3>20, <3>21,
         <3>22, <3>23, <3>24, <3>25, <3>26, <3>27, <3>28, <3>29, <3>30
      DEF Receive, Handle, CallLLM, Step
  <2> QED
    BY <2>1 DEF Next, Step
<1> QED
  BY <1>1, ShallowInvariant, PTL DEF Spec, DeepNeverFailsRequest

-----------------------------------------------------------------------------
(* Discoveries *)

(* Requests that report nothing yet, whose status claims no more windows    *)
(* than were read, whose review is under way, and whose report stands.      *)
Blank           == {r \in Requests : discoveries[r] = {}}
WholeIfComplete == {r \in Requests : deepStatus[r] = "complete" => scanned[r] = planned[r]}
UnderReview     == {r \in Requests :
                      /\ DeepReview
                      /\ grounded[r] = candidates[r] \cap Fresh
                      /\ judged[r] \in [grounded[r] -> Says \cup {"unasked"}]}
Sound ==
  {r \in Requests :
     /\ deepStatus[r] = "complete" =>
          \A v \in candidates[r] \cap Fresh :
            v \in discoveries[r] \/ (DeepReview /\ judged[r][v] = "dismissed")
     /\ discoveries[r] \subseteq candidates[r] \cap Fresh
     /\ DeepReview => \A v \in discoveries[r] : judged[r][v] = "confirmed"}

DeepInv ==
  /\ DOMAIN stage = Requests /\ DOMAIN answer = Requests
  /\ DOMAIN planned = Requests /\ DOMAIN scanned = Requests /\ DOMAIN candidates = Requests
  /\ DOMAIN grounded = Requests /\ DOMAIN judged = Requests
  /\ DOMAIN discoveries = Requests /\ DOMAIN deepStatus = Requests
  /\ \A r \in Requests :
       /\ stage[r] \notin {"audit", "answered"} => answer[r] = 0
       /\ stage[r] \notin {"respond", "audit", "answered"} => r \in Blank
       /\ stage[r] \in {"idle", "detect", "triage", "acquire", "queued", "adjudicating",
                        "deep", "window", "reading"} => deepStatus[r] = "none"
       /\ stage[r] \in {"grounding", "review", "reviewing", "respond"} \/ Served(r)
            => r \in WholeIfComplete
       /\ stage[r] \in {"review", "reviewing"} => r \in UnderReview
       /\ stage[r] = "respond" \/ Served(r) => r \in Sound

(* What a request's report shows depends on nothing else.                   *)
LEMMA SameDeep ==
  ASSUME NEW r \in Requests,
         planned'[r] = planned[r], scanned'[r] = scanned[r],
         candidates'[r] = candidates[r], grounded'[r] = grounded[r],
         judged'[r] = judged[r], discoveries'[r] = discoveries[r],
         deepStatus'[r] = deepStatus[r]
  PROVE  /\ r \in Blank' <=> r \in Blank
         /\ r \in WholeIfComplete' <=> r \in WholeIfComplete
         /\ r \in UnderReview' <=> r \in UnderReview
         /\ r \in Sound' <=> r \in Sound
  BY DEF Blank, WholeIfComplete, UnderReview, Sound

LEMMA NextDeep == DeepInv /\ [Next]_vars => DeepInv'
<1> SUFFICES ASSUME DeepInv, [Next]_vars PROVE DeepInv'
  OBVIOUS
<1> USE DEF DeepInv, Served, Go, Set
<1> DEFINE SameReport(q) == /\ q \in Blank' <=> q \in Blank
                            /\ q \in WholeIfComplete' <=> q \in WholeIfComplete
                            /\ q \in UnderReview' <=> q \in UnderReview
                            /\ q \in Sound' <=> q \in Sound
           Report == <<planned, scanned, candidates, grounded, judged, discoveries,
                       deepStatus>>
<1>1. ASSUME NEW r \in Requests, Step(r) PROVE DeepInv'
  <2>s. ASSUME UNCHANGED Report
        PROVE  /\ Blank' = Blank /\ WholeIfComplete' = WholeIfComplete
               /\ UnderReview' = UnderReview /\ Sound' = Sound
    BY <2>s DEF Blank, WholeIfComplete, UnderReview, Sound
  <2>o. ASSUME NEW q \in Requests,
               planned'[q] = planned[q], scanned'[q] = scanned[q],
               candidates'[q] = candidates[q], grounded'[q] = grounded[q],
               judged'[q] = judged[q], discoveries'[q] = discoveries[q],
               deepStatus'[q] = deepStatus[q]
        PROVE  SameReport(q)
    BY <2>o, SameDeep
  <2>1. ASSUME NEW d \in BOOLEAN, Arrive(r, d) PROVE DeepInv'
    BY <2>1, <2>s DEF Arrive, read, review, deepStats
  <2>2. CASE BadRequest(r)
    BY <2>2, <2>s DEF BadRequest, SendStatus, read, review, deepStats
  <2>3. CASE ContextDone(r)
    BY <2>3, <2>s DEF ContextDone, read, review, deepStats
  <2>4. CASE Forget(r)
    <3>1. ASSUME NEW q \in Requests \ {r}
          PROVE  SameReport(q) /\ stage'[q] = stage[q] /\ answer'[q] = answer[q]
      BY <2>4, <2>o DEF Forget
    <3>2. stage'[r] = "idle" /\ answer'[r] = 0 /\ r \in Blank' /\ deepStatus'[r] = "none"
      BY <2>4 DEF Forget, Blank, WholeIfComplete
    <3> QED
      BY <2>4, <3>1, <3>2 DEF Forget
  <2>5. ASSUME NEW fs \in Found, NEW errs \in Failures, Detect(r, fs, errs)
        PROVE  DeepInv'
    BY <2>5, <2>s DEF Detect, SendStatus, read, review, deepStats
  <2>6. CASE TriageDecidesAll(r)
    BY <2>6, <2>s DEF TriageDecidesAll, read, review, deepStats
  <2>7. CASE TriageNeedsModel(r)
    BY <2>7, <2>s DEF TriageNeedsModel, read, review, deepStats
  <2>8. CASE QueueFull(r)
    BY <2>8, <2>s DEF QueueFull, SendStatus, read, review, deepStats
  <2>9. CASE Enqueue(r)
    BY <2>9, <2>s DEF Enqueue, read, review, deepStats
  <2>10. CASE NoDeepRead(r)
    <3>1. ASSUME NEW q \in Requests \ {r}
          PROVE  SameReport(q) /\ stage'[q] = stage[q] /\ answer'[q] = answer[q]
      BY <2>10, <2>o DEF NoDeepRead, read, review, deepStats
    <3>2. stage'[r] = "respond" /\ answer'[r] = 0 /\ r \in WholeIfComplete' /\ r \in Sound'
      BY <2>10
      DEF NoDeepRead, read, review, deepStats, Blank, WholeIfComplete, Sound
    <3> QED
      BY <2>10, <3>1, <3>2 DEF NoDeepRead, read, review, deepStats
  <2>11. ASSUME NEW n \in 0..MaxWindows, NEW c \in BOOLEAN, Plan(r, n, c)
         PROVE  DeepInv'
    <3>1. ASSUME NEW q \in Requests \ {r}
          PROVE  SameReport(q) /\ stage'[q] = stage[q] /\ answer'[q] = answer[q]
      BY <2>11, <2>o DEF Plan, read, review, deepStats
    <3>2. stage'[r] = "window" /\ answer'[r] = 0 /\ r \in Blank' /\ deepStatus'[r] = "none"
      BY <2>11 DEF Plan, read, review, deepStats, Blank, WholeIfComplete
    <3> QED
      BY <2>11, <3>1, <3>2 DEF Plan, read, review, deepStats
  <2>12. CASE OpenWindow(r)
    BY <2>12, <2>s DEF OpenWindow, Borrow, read, review, deepStats
  <2>13. CASE WindowRefused(r)
    <3>1. ASSUME NEW q \in Requests \ {r}
          PROVE  SameReport(q) /\ stage'[q] = stage[q] /\ answer'[q] = answer[q]
      BY <2>13, <2>o DEF WindowRefused, ScanEnds, read, review, deepStats
    <3>2. /\ stage'[r] \in {"respond", "grounding"} /\ answer'[r] = 0
          /\ r \in Blank' /\ r \in WholeIfComplete'
          /\ stage'[r] = "respond" => r \in Sound'
      BY <2>13
      DEF WindowRefused, ScanEnds, read, review, deepStats, Blank,
         WholeIfComplete, Sound
    <3> QED
      BY <2>13, <3>1, <3>2 DEF WindowRefused, ScanEnds, read, review, deepStats
  <2>14. CASE AllWindowsRead(r)
    <3>1. ASSUME NEW q \in Requests \ {r}
          PROVE  SameReport(q) /\ stage'[q] = stage[q] /\ answer'[q] = answer[q]
      BY <2>14, <2>o DEF AllWindowsRead, ScanEnds, read, review, deepStats
    <3>2. stage'[r] = "grounding" /\ answer'[r] = 0 /\ r \in Blank' /\ r \in WholeIfComplete'
      BY <2>14
      DEF AllWindowsRead, ScanEnds, read, review, deepStats, Blank,
         WholeIfComplete
    <3> QED
      BY <2>14, <3>1, <3>2 DEF AllWindowsRead, ScanEnds, read, review, deepStats
  <2>15. CASE Ground(r)
    <3>1. ASSUME NEW q \in Requests \ {r}
          PROVE  SameReport(q) /\ stage'[q] = stage[q] /\ answer'[q] = answer[q]
      BY <2>15, <2>o DEF Ground, read, review, deepStats
    <3>2. /\ answer'[r] = 0 /\ r \in WholeIfComplete'
          /\ \/ stage'[r] = "review" /\ r \in Blank' /\ r \in UnderReview'
             \/ stage'[r] = "respond" /\ r \in Sound'
      BY <2>15
      DEF Ground, read, review, deepStats, Blank, WholeIfComplete, UnderReview,
         Sound
    <3> QED
      BY <2>15, <3>1, <3>2 DEF Ground, read, review, deepStats
  <2>16. CASE ReviewAdmitted(r)
    BY <2>16, <2>s DEF ReviewAdmitted, Borrow, read, review, deepStats
  <2>17. CASE ReviewRefused(r)
    <3>1. ASSUME NEW q \in Requests \ {r}
          PROVE  SameReport(q) /\ stage'[q] = stage[q] /\ answer'[q] = answer[q]
      BY <2>17, <2>o DEF ReviewRefused, read, review, deepStats
    <3>2. stage'[r] = "respond" /\ answer'[r] = 0 /\ r \in WholeIfComplete' /\ r \in Sound'
      BY <2>17
      DEF ReviewRefused, read, review, deepStats, Blank, WholeIfComplete,
         UnderReview, Sound
    <3> QED
      BY <2>17, <3>1, <3>2 DEF ReviewRefused, read, review, deepStats
  <2>18. CASE Respond(r)
    BY <2>18, <2>s DEF Respond, SendStatus, read, review, deepStats
  <2>19. ASSUME NEW result \in {"written", "lost"}, WriteAudit(r, result)
         PROVE  DeepInv'
    BY <2>19, <2>s DEF WriteAudit, read, review, deepStats
  <2>20. CASE Admit(r)
    BY <2>20, <2>s DEF Admit, read, review, deepStats
  <2>21. CASE Cancelled(r)
    BY <2>21, <2>s DEF Cancelled, SendStatus, read, review, deepStats
  <2>22. CASE Retry(r)
    BY <2>22, <2>s DEF Retry, Calling, read, review, deepStats
  <2>23. ASSUME NEW b \in SUBSET Unasked(r), NEW reply \in [b -> Says], AskBatch(r,
                b, reply)
         PROVE  DeepInv'
    BY <2>23, <2>s DEF AskBatch, read, review, deepStats
  <2>24. CASE AdjudicationFails(r)
    BY <2>24, <2>s DEF AdjudicationFails, SendStatus, read, review, deepStats
  <2>25. CASE AdjudicationEnds(r)
    BY <2>25, <2>s DEF AdjudicationEnds, read, review, deepStats
  <2>26. ASSUME NEW claims \in SUBSET Claims, WindowRead(r, claims) PROVE DeepInv'
    <3>1. ASSUME NEW q \in Requests \ {r}
          PROVE  SameReport(q) /\ stage'[q] = stage[q] /\ answer'[q] = answer[q]
      BY <2>26, <2>o DEF WindowRead, read, review, deepStats
    <3>2. stage'[r] = "window" /\ answer'[r] = 0 /\ r \in Blank' /\ deepStatus'[r] = "none"
      BY <2>26 DEF WindowRead, read, review, deepStats, Blank, WholeIfComplete
    <3> QED
      BY <2>26, <3>1, <3>2 DEF WindowRead, read, review, deepStats
  <2>27. CASE WindowFails(r)
    <3>1. ASSUME NEW q \in Requests \ {r}
          PROVE  SameReport(q) /\ stage'[q] = stage[q] /\ answer'[q] = answer[q]
      BY <2>27, <2>o DEF WindowFails, read, review, deepStats
    <3>2. stage'[r] = "respond" /\ answer'[r] = 0 /\ r \in WholeIfComplete' /\ r \in Sound'
      BY <2>27
      DEF WindowFails, read, review, deepStats, Blank, WholeIfComplete, Sound
    <3> QED
      BY <2>27, <3>1, <3>2 DEF WindowFails, read, review, deepStats
  <2>28. ASSUME NEW b \in SUBSET Judged(r, {"unasked"}), NEW reply \in [b -> Says],
                ReviewBatch(r, b, reply)
         PROVE  DeepInv'
    <3>1. ASSUME NEW q \in Requests \ {r}
          PROVE  SameReport(q) /\ stage'[q] = stage[q] /\ answer'[q] = answer[q]
      BY <2>28, <2>o DEF ReviewBatch, read, review, deepStats
    <3>2. /\ stage'[r] = "reviewing" /\ answer'[r] = 0 /\ r \in Blank'
          /\ r \in WholeIfComplete' /\ r \in UnderReview'
      BY <2>28
      DEF ReviewBatch, read, review, deepStats, Blank, WholeIfComplete,
         UnderReview, Judged
    <3> QED
      BY <2>28, <3>1, <3>2 DEF ReviewBatch, read, review, deepStats
  <2>29. CASE ReviewFails(r)
    <3>1. ASSUME NEW q \in Requests \ {r}
          PROVE  SameReport(q) /\ stage'[q] = stage[q] /\ answer'[q] = answer[q]
      BY <2>29, <2>o DEF ReviewFails, read, review, deepStats
    <3>2. stage'[r] = "respond" /\ answer'[r] = 0 /\ r \in WholeIfComplete' /\ r \in Sound'
      BY <2>29
      DEF ReviewFails, read, review, deepStats, Blank, WholeIfComplete,
         UnderReview, Sound
    <3> QED
      BY <2>29, <3>1, <3>2 DEF ReviewFails, read, review, deepStats
  <2>30. CASE ReviewEnds(r)
    <3>1. ASSUME NEW q \in Requests \ {r}
          PROVE  SameReport(q) /\ stage'[q] = stage[q] /\ answer'[q] = answer[q]
      BY <2>30, <2>o DEF ReviewEnds, read, review, deepStats
    <3>2. stage'[r] = "respond" /\ answer'[r] = 0 /\ r \in WholeIfComplete' /\ r \in Sound'
      <4>1. /\ discoveries'[r] = Judged(r, {"confirmed"})
            /\ deepStatus'[r] = "complete" => Judged(r, {"other"}) = {}
            /\ deepStatus'[r] \in {deepStatus[r], "partial"}
            /\ candidates'[r] = candidates[r] /\ judged'[r] = judged[r]
            /\ scanned'[r] = scanned[r] /\ planned'[r] = planned[r]
        BY <2>30 DEF ReviewEnds, read
      <4>2. DeepReview /\ grounded[r] = candidates[r] \cap Fresh
        BY <2>30 DEF ReviewEnds, UnderReview
      <4>3. ASSUME NEW v \in grounded[r]
            PROVE  judged[r][v] \in Says
        BY <2>30, <4>2 DEF ReviewEnds, UnderReview, Judged
      <4>4. r \in Sound'
        BY <4>1, <4>2, <4>3 DEF Sound, Judged, Says
      <4>5. stage'[r] = "respond" /\ answer'[r] = 0 /\ r \in WholeIfComplete'
        BY <2>30, <4>1 DEF ReviewEnds, WholeIfComplete
      <4> QED
        BY <4>4, <4>5
    <3> QED
      BY <2>30, <3>1, <3>2 DEF ReviewEnds, read, review, deepStats
  <2> HIDE DEF DeepInv, Served, Go, Set
  <2> QED
    BY <1>1, <2>1, <2>2, <2>3, <2>4, <2>5, <2>6, <2>7, <2>8, <2>9, <2>10, <2>11,
       <2>12, <2>13, <2>14, <2>15, <2>16, <2>17, <2>18, <2>19, <2>20, <2>21,
       <2>22, <2>23, <2>24, <2>25, <2>26, <2>27, <2>28, <2>29, <2>30
    DEF Receive, Handle, CallLLM, Step
<1>2. CASE UNCHANGED vars
  <2>1. /\ Blank' = Blank /\ WholeIfComplete' = WholeIfComplete
        /\ UnderReview' = UnderReview /\ Sound' = Sound
    BY <1>2
    DEF Blank, WholeIfComplete, UnderReview, Sound, vars, read, review, deepStats
  <2> QED
    BY <1>2, <2>1 DEF vars, read, review, deepStats
<1> QED
  BY <1>1, <1>2 DEF Next, Step

LEMMA DeepInvariant == Spec => []DeepInv
<1>1. Init => DeepInv
  BY DEF Init, DeepInv, Served, Blank
<1> QED
  BY <1>1, NextDeep, PTL DEF Spec

(* A complete deep read has read every window of its plan and reported, or  *)
(* had dismissed in review, every credential it grounded.                   *)
THEOREM CompleteIsComplete == Spec => []CompleteMeansJudged
<1>1. DeepInv => CompleteMeansJudged
  BY DEF DeepInv, CompleteMeansJudged, WholeIfComplete, Sound
<1> QED
  BY <1>1, DeepInvariant, PTL

(* Nothing is reported that is not in the diff, that a detector reported,   *)
(* or that review, when on, did not confirm.                                *)
THEOREM DiscoveriesAreConfirmed == Spec => []ReportedIsConfirmed
<1>1. DeepInv => ReportedIsConfirmed
  BY DEF DeepInv, ReportedIsConfirmed, Sound
<1> QED
  BY <1>1, DeepInvariant, PTL

-----------------------------------------------------------------------------
(* The requests end *)

Phase(s) ==
  CASE s = "detect"       -> 12
    [] s = "triage"       -> 11
    [] s = "acquire"      -> 10
    [] s = "queued"       -> 9
    [] s = "adjudicating" -> 8
    [] s = "deep"         -> 7
    [] s \in {"window", "reading"} -> 6
    [] s = "grounding"    -> 5
    [] s = "review"       -> 4
    [] s = "reviewing"    -> 3
    [] s = "respond"      -> 2
    [] s = "audit"        -> 1
    [] OTHER              -> 0

(* What is left of a phase: a batch may take two calls, a window a slot and *)
(* two calls.                                                               *)
Rest(r) ==
  CASE stage[r] = "adjudicating" -> 2 * Cardinality(Unasked(r)) + 2 - attempt[r]
    [] stage[r] = "window"       -> 3 * (planned[r] - scanned[r])
    [] stage[r] = "reading"      -> 3 * (planned[r] - scanned[r]) - attempt[r]
    [] stage[r] = "reviewing"    -> 2 * Cardinality(Judged(r, {"unasked"})) + 2 - attempt[r]
    [] OTHER                     -> 0

Nearer(r) ==
  \/ Phase(stage'[r]) < Phase(stage[r])
  \/ /\ Phase(stage'[r]) = Phase(stage[r])
     /\ Rest(r) \in Nat /\ Rest(r)' \in Nat /\ Rest(r)' < Rest(r)

Standing(r) == <<stage[r], attempt[r], said[r], scanned[r], judged[r]>>

(* A handler comes to an end: whatever the model, the other requests and    *)
(* its client do, a step of it that changes where it stands brings it       *)
(* nearer to its answer, in a phase of its own or in what is left of one.   *)
EachStepLeadsOn ==
  [][\A r \in Requests :
       stage[r] # "idle" /\ stage'[r] # "idle" /\ Standing(r)' # Standing(r) => Nearer(r)]_vars

Leads(r) == stage[r] # "idle" /\ stage'[r] # "idle" /\ Standing(r)' # Standing(r) => Nearer(r)
Alone(r) == \A q \in Requests \ {r} : Standing(q)' = Standing(q)

Falls(r) ==
  \E from, to \in Stages :
    /\ Go(r, from, to)
    /\ from = "idle" \/ to = "idle" \/ Phase(to) < Phase(from)

LEMMA Descends ==
  ASSUME TypeInv, NEW r \in Requests, Falls(r)
  PROVE  Leads(r) /\ \A q \in Requests \ {r} : stage'[q] = stage[q]
<1>1. PICK from, to \in Stages :
        /\ Go(r, from, to)
        /\ from = "idle" \/ to = "idle" \/ Phase(to) < Phase(from)
  BY DEF Falls
<1>2. /\ stage[r] = from /\ stage'[r] = to
      /\ \A q \in Requests \ {r} : stage'[q] = stage[q]
  BY <1>1 DEF Go, TypeInv, TypeOK
<1> QED
  BY <1>1, <1>2 DEF Leads, Nearer

LEMMA DescendsAlone ==
  ASSUME TypeInv, NEW r \in Requests, Falls(r), UNCHANGED <<attempt, said, scanned, judged>>
  PROVE  Leads(r) /\ Alone(r)
  BY Descends DEF Alone, Standing

(* Within a phase what is left is a number that falls.                      *)
LEMMA UnaskedFinite ==
  ASSUME TypeInv, NEW r \in Requests
  PROVE  /\ IsFiniteSet(Unasked(r)) /\ Cardinality(Unasked(r)) \in Nat
         /\ IsFiniteSet(Judged(r, {"unasked"})) /\ Cardinality(Judged(r, {"unasked"})) \in Nat
<1>1. IsFiniteSet(DOMAIN found[r])
  <2>1. found[r] \in Seq(Kinds)
    BY DEF TypeInv, TypeOK
  <2>2. DOMAIN found[r] = 1..Len(found[r]) /\ Len(found[r]) \in Nat
    BY <2>1
  <2>3. IsFiniteSet(1..Len(found[r]))
    BY <2>2, 1 \in Int, Len(found[r]) \in Int, FS_Interval, Zenon
  <2> QED
    BY <2>2, <2>3
<1>2. Unasked(r) \subseteq DOMAIN found[r]
  BY DEF Unasked, LLMBound, InCap
<1>3. Judged(r, {"unasked"}) \subseteq Fresh /\ IsFiniteSet(Fresh)
  BY CheckAssumption DEF Judged, TypeInv, TypeOK
<1> QED
  BY <1>1, <1>2, <1>3, FS_Subset, FS_CardinalityType

LEMMA RetryLeads ==
  ASSUME TypeInv, NEW r \in Requests, Retry(r)
  PROVE  Leads(r) /\ Alone(r)
<1>1. /\ attempt[r] = 1 /\ attempt'[r] = 2
      /\ \A q \in Requests \ {r} : attempt'[q] = attempt[q]
  BY DEF Retry, Set, TypeInv, TypeOK
<1>2. UNCHANGED <<stage, said, scanned, planned, judged, found, grounded>>
  BY DEF Retry, input, shallow, read, review
<1>3. Unasked(r)' = Unasked(r) /\ Judged(r, {"unasked"})' = Judged(r, {"unasked"})
  BY <1>2 DEF Unasked, LLMBound, InCap, Judged
<1>4. /\ stage[r] \in {"adjudicating", "reading", "reviewing"}
      /\ planned[r] \in Nat /\ scanned[r] \in Nat
      /\ stage[r] = "reading" => scanned[r] < planned[r]
  BY CheckAssumption DEF Retry, Calling, TypeInv, TypeOK, InPlan
<1>5. Rest(r) \in Nat /\ Rest(r)' \in Nat /\ Rest(r)' < Rest(r)
  <2>1. CASE stage[r] = "adjudicating"
    <3>1. /\ Rest(r) = 2 * Cardinality(Unasked(r)) + 2 - attempt[r]
          /\ Rest(r)' = 2 * Cardinality(Unasked(r)) + 2 - attempt'[r]
      BY <2>1, <1>2, <1>3 DEF Rest
    <3> QED
      BY <3>1, <1>1, UnaskedFinite
  <2>2. CASE stage[r] = "reading"
    <3>1. /\ Rest(r) = 3 * (planned[r] - scanned[r]) - attempt[r]
          /\ Rest(r)' = 3 * (planned[r] - scanned[r]) - attempt'[r]
      BY <2>2, <1>2 DEF Rest
    <3> QED
      BY <2>2, <3>1, <1>1, <1>4
  <2>3. CASE stage[r] = "reviewing"
    <3>1. /\ Rest(r) = 2 * Cardinality(Judged(r, {"unasked"})) + 2 - attempt[r]
          /\ Rest(r)' = 2 * Cardinality(Judged(r, {"unasked"})) + 2 - attempt'[r]
      BY <2>3, <1>2, <1>3 DEF Rest
    <3> QED
      BY <3>1, <1>1, UnaskedFinite
  <2> QED
    BY <1>4, <2>1, <2>2, <2>3
<1> QED
  BY <1>1, <1>2, <1>5 DEF Leads, Nearer, Alone, Standing

(* A batch that is answered leaves fewer findings to ask about.             *)
LEMMA BatchLeads ==
  ASSUME TypeInv, NEW r \in Requests, NEW b \in SUBSET Unasked(r), NEW reply \in [b -> Says],
         AskBatch(r, b, reply)
  PROVE  Leads(r) /\ Alone(r)
<1>1. /\ stage[r] = "adjudicating" /\ attempt[r] \in 1..2 /\ attempt'[r] = 1 /\ b # {}
      /\ \A q \in Requests \ {r} : attempt'[q] = attempt[q] /\ said'[q] = said[q]
  BY DEF AskBatch, Set, IsBatch, TypeInv, TypeOK, Domains
<1>2. UNCHANGED <<stage, scanned, judged, found>>
  BY DEF AskBatch, input, read, review
<1>3. Unasked(r)' = Unasked(r) \ b
  <2>1. /\ said'[r] = [i \in DOMAIN said[r] |-> IF i \in b THEN reply[i] ELSE said[r][i]]
        /\ DOMAIN said[r] = DOMAIN found[r]
    BY DEF AskBatch, Set, TypeInv, TypeOK, Domains
  <2>2. \A i \in b : reply[i] # "unasked"
    BY DEF Says
  <2> QED
    BY <1>2, <2>1, <2>2 DEF Unasked, LLMBound, InCap
<1>4. /\ Cardinality(Unasked(r)') \in Nat /\ Cardinality(Unasked(r)) \in Nat
      /\ Cardinality(Unasked(r)') < Cardinality(Unasked(r))
  <2>1. Unasked(r)' \subseteq Unasked(r) /\ Unasked(r)' # Unasked(r)
    BY <1>1, <1>3
  <2> QED
    BY <2>1, UnaskedFinite, FS_Subset, FS_CardinalityType
<1>5. Rest(r) \in Nat /\ Rest(r)' \in Nat /\ Rest(r)' < Rest(r)
  <2>1. /\ Rest(r) = 2 * Cardinality(Unasked(r)) + 2 - attempt[r]
        /\ Rest(r)' = 2 * Cardinality(Unasked(r)') + 2 - attempt'[r]
    BY <1>1, <1>2 DEF Rest
  <2> QED
    BY <1>1, <1>4, <2>1
<1> QED
  BY <1>1, <1>2, <1>5 DEF Leads, Nearer, Alone, Standing

LEMMA ReviewLeads ==
  ASSUME TypeInv, NEW r \in Requests, NEW b \in SUBSET Judged(r, {"unasked"}),
         NEW reply \in [b -> Says], ReviewBatch(r, b, reply)
  PROVE  Leads(r) /\ Alone(r)
<1>1. /\ stage[r] = "reviewing" /\ attempt[r] \in 1..2 /\ attempt'[r] = 1 /\ b # {}
      /\ \A q \in Requests \ {r} : attempt'[q] = attempt[q] /\ judged'[q] = judged[q]
  BY DEF ReviewBatch, Set, IsBatch, TypeInv, TypeOK, Domains
<1>2. UNCHANGED <<stage, scanned, said, grounded>>
  BY DEF ReviewBatch, shallow, read
<1>3. Judged(r, {"unasked"})' = Judged(r, {"unasked"}) \ b
  <2>1. /\ judged'[r] = [v \in DOMAIN judged[r] |-> IF v \in b THEN reply[v] ELSE judged[r][v]]
        /\ DOMAIN judged[r] = grounded[r]
    BY DEF ReviewBatch, Set, TypeInv, TypeOK, Domains
  <2>2. \A v \in b : reply[v] # "unasked"
    BY DEF Says
  <2> QED
    BY <1>2, <2>1, <2>2 DEF Judged
<1>4. /\ Cardinality(Judged(r, {"unasked"})') \in Nat /\ Cardinality(Judged(r, {"unasked"})) \in Nat
      /\ Cardinality(Judged(r, {"unasked"})') < Cardinality(Judged(r, {"unasked"}))
  <2>1. /\ Judged(r, {"unasked"})' \subseteq Judged(r, {"unasked"})
        /\ Judged(r, {"unasked"})' # Judged(r, {"unasked"})
    BY <1>1, <1>3
  <2> QED
    BY <2>1, UnaskedFinite, FS_Subset, FS_CardinalityType
<1>5. Rest(r) \in Nat /\ Rest(r)' \in Nat /\ Rest(r)' < Rest(r)
  <2>1. /\ Rest(r) = 2 * Cardinality(Judged(r, {"unasked"})) + 2 - attempt[r]
        /\ Rest(r)' = 2 * Cardinality(Judged(r, {"unasked"})') + 2 - attempt'[r]
    BY <1>1, <1>2 DEF Rest
  <2> QED
    BY <1>1, <1>4, <2>1
<1> QED
  BY <1>1, <1>2, <1>5 DEF Leads, Nearer, Alone, Standing

(* A slot for a window, or the window read: the plan is that much shorter.  *)
LEMMA WindowLeads ==
  ASSUME TypeInv, NEW r \in Requests,
         OpenWindow(r) \/ \E claims \in SUBSET Claims : WindowRead(r, claims)
  PROVE  Leads(r) /\ Alone(r)
<1>0. planned[r] \in Nat /\ scanned[r] \in Nat /\ attempt[r] \in 1..2
  BY CheckAssumption DEF TypeInv, TypeOK
<1>1. CASE OpenWindow(r)
  <2>1. /\ stage[r] = "window" /\ stage'[r] = "reading" /\ attempt'[r] = 1
        /\ scanned[r] < planned[r]
        /\ \A q \in Requests \ {r} : stage'[q] = stage[q] /\ attempt'[q] = attempt[q]
    BY <1>1 DEF OpenWindow, Borrow, Go, Set, TypeInv, TypeOK
  <2>2. UNCHANGED <<said, scanned, planned, judged>>
    BY <1>1 DEF OpenWindow, Borrow, shallow, read, review
  <2>3. /\ Rest(r) = 3 * (planned[r] - scanned[r])
        /\ Rest(r)' = 3 * (planned[r] - scanned[r]) - 1
    BY <2>1, <2>2 DEF Rest
  <2>4. Phase(stage'[r]) = Phase(stage[r])
    BY <2>1 DEF Phase
  <2>5. Rest(r) \in Nat /\ Rest(r)' \in Nat /\ Rest(r)' < Rest(r)
    BY <1>0, <2>1, <2>3
  <2> QED
    BY <2>1, <2>2, <2>4, <2>5 DEF Leads, Nearer, Alone, Standing
<1>2. ASSUME NEW claims \in SUBSET Claims, WindowRead(r, claims)
      PROVE  Leads(r) /\ Alone(r)
  <2>1. /\ stage[r] = "reading" /\ stage'[r] = "window" /\ scanned'[r] = scanned[r] + 1
        /\ scanned[r] < planned[r]
        /\ \A q \in Requests \ {r} : stage'[q] = stage[q] /\ scanned'[q] = scanned[q]
    BY <1>2 DEF WindowRead, Go, Set, TypeInv, TypeOK, InPlan
  <2>2. UNCHANGED <<attempt, said, planned, judged>>
    BY <1>2 DEF WindowRead, shallow, review
  <2>3. /\ Rest(r) = 3 * (planned[r] - scanned[r]) - attempt[r]
        /\ Rest(r)' = 3 * (planned[r] - (scanned[r] + 1))
    BY <2>1, <2>2 DEF Rest
  <2>4. Phase(stage'[r]) = Phase(stage[r])
    BY <2>1 DEF Phase
  <2>5. Rest(r) \in Nat /\ Rest(r)' \in Nat /\ Rest(r)' < Rest(r)
    BY <1>0, <2>1, <2>3
  <2> QED
    BY <2>1, <2>2, <2>4, <2>5 DEF Leads, Nearer, Alone, Standing
<1> QED
  BY <1>1, <1>2

(* The other actions of a handler take it to a later phase.                 *)
LEMMA OthersLead ==
  ASSUME TypeInv, NEW r \in Requests, Step(r), ~Retry(r), ~OpenWindow(r),
         \A claims \in SUBSET Claims : ~WindowRead(r, claims),
         \A b \in SUBSET Unasked(r) : \A reply \in [b -> Says] : ~AskBatch(r, b, reply),
         \A b \in SUBSET Judged(r, {"unasked"}) : \A reply \in [b -> Says] :
           ~ReviewBatch(r, b, reply)
  PROVE  Leads(r) /\ Alone(r)
<1> DEFINE Steady == UNCHANGED <<attempt, said, scanned, judged>>
<1>0. ASSUME NEW from \in Stages, NEW to \in Stages, Go(r, from, to),
             from = "idle" \/ to = "idle" \/ Phase(to) < Phase(from)
      PROVE  Falls(r)
  BY <1>0 DEF Falls
<1> USE DEF Stages, CallStages, DeepStages, Phase, input, shallow, read, review
<1>1. ASSUME \E d \in BOOLEAN : Arrive(r, d) PROVE Falls(r) /\ Steady
  BY <1>0, <1>1 DEF Arrive
<1>2. ASSUME BadRequest(r) PROVE Falls(r) /\ Steady
  BY <1>0, <1>2 DEF BadRequest
<1>3. ASSUME TriageDecidesAll(r) PROVE Falls(r) /\ Steady
  BY <1>0, <1>3 DEF TriageDecidesAll
<1>4. ASSUME TriageNeedsModel(r) PROVE Falls(r) /\ Steady
  BY <1>0, <1>4 DEF TriageNeedsModel
<1>5. ASSUME QueueFull(r) PROVE Falls(r) /\ Steady
  BY <1>0, <1>5 DEF QueueFull
<1>6. ASSUME Enqueue(r) PROVE Falls(r) /\ Steady
  BY <1>0, <1>6 DEF Enqueue
<1>7. ASSUME NoDeepRead(r) PROVE Falls(r) /\ Steady
  BY <1>0, <1>7 DEF NoDeepRead
<1>8. ASSUME WindowRefused(r) PROVE Falls(r) /\ Steady
  BY <1>0, <1>8 DEF WindowRefused, ScanEnds
<1>9. ASSUME AllWindowsRead(r) PROVE Falls(r) /\ Steady
  BY <1>0, <1>9 DEF AllWindowsRead, ScanEnds
<1>10. ASSUME ReviewRefused(r) PROVE Falls(r) /\ Steady
  BY <1>0, <1>10 DEF ReviewRefused
<1>11. ASSUME Respond(r) PROVE Falls(r) /\ Steady
  BY <1>0, <1>11 DEF Respond
<1>12. ASSUME Cancelled(r) PROVE Falls(r) /\ Steady
  BY <1>0, <1>12 DEF Cancelled
<1>13. ASSUME AdjudicationFails(r) PROVE Falls(r) /\ Steady
  BY <1>0, <1>13 DEF AdjudicationFails
<1>14. ASSUME AdjudicationEnds(r) PROVE Falls(r) /\ Steady
  BY <1>0, <1>14 DEF AdjudicationEnds
<1>15. ASSUME WindowFails(r) PROVE Falls(r) /\ Steady
  BY <1>0, <1>15 DEF WindowFails
<1>16. ASSUME ReviewFails(r) PROVE Falls(r) /\ Steady
  BY <1>0, <1>16 DEF ReviewFails
<1>17. ASSUME ReviewEnds(r) PROVE Falls(r) /\ Steady
  BY <1>0, <1>17 DEF ReviewEnds
<1>18. ASSUME \E m \in 0..MaxWindows, c \in BOOLEAN : Plan(r, m, c) PROVE Falls(r) /\ Steady
  BY <1>0, <1>18 DEF Plan
<1>19. ASSUME \E result \in {"written", "lost"} : WriteAudit(r, result) PROVE Falls(r) /\ Steady
  BY <1>0, <1>19 DEF WriteAudit
<1>20. ASSUME ContextDone(r) PROVE Leads(r) /\ Alone(r)
  BY <1>20 DEF ContextDone, Leads, Alone, Standing
<1>21. ASSUME \E fs \in Found, errs \in Failures : Detect(r, fs, errs)
       PROVE  Leads(r) /\ Alone(r)
  <2>1. Falls(r)
    BY <1>0, <1>21 DEF Detect
  <2>2. /\ UNCHANGED <<attempt, scanned, judged>>
        /\ \A q \in Requests \ {r} : said'[q] = said[q]
    BY <1>21 DEF Detect, Set, TypeInv, TypeOK, Domains
  <2> QED
    BY <2>1, <2>2, Descends DEF Alone, Standing
<1>22. ASSUME Forget(r) PROVE Leads(r) /\ Alone(r)
  <2>1. Falls(r)
    BY <1>0, <1>22 DEF Forget
  <2>2. \A q \in Requests \ {r} :
          /\ attempt'[q] = attempt[q] /\ said'[q] = said[q]
          /\ scanned'[q] = scanned[q] /\ judged'[q] = judged[q]
    BY <1>22 DEF Forget, Set, TypeInv, TypeOK, Domains
  <2> QED
    BY <2>1, <2>2, Descends DEF Alone, Standing
<1>23. ASSUME Ground(r) PROVE Leads(r) /\ Alone(r)
  <2>1. Falls(r)
    BY <1>0, <1>23 DEF Ground
  <2>2. /\ UNCHANGED <<attempt, said, scanned>>
        /\ \A q \in Requests \ {r} : judged'[q] = judged[q]
    BY <1>23 DEF Ground, Set, TypeInv, TypeOK, Domains
  <2> QED
    BY <2>1, <2>2, Descends DEF Alone, Standing
<1>24. ASSUME Admit(r) \/ ReviewAdmitted(r) PROVE Leads(r) /\ Alone(r)
  <2>1. Falls(r)
    BY <1>0, <1>24 DEF Admit, ReviewAdmitted, Borrow
  <2>2. /\ UNCHANGED <<said, scanned, judged>>
        /\ \A q \in Requests \ {r} : attempt'[q] = attempt[q]
    BY <1>24 DEF Admit, ReviewAdmitted, Borrow, Set, TypeInv, TypeOK, Domains
  <2> QED
    BY <2>1, <2>2, Descends DEF Alone, Standing
<1> HIDE DEF Stages, CallStages, DeepStages, Phase, input, shallow, read, review
<1> QED
  BY DescendsAlone, <1>1, <1>2, <1>3, <1>4, <1>5, <1>6, <1>7, <1>8, <1>9, <1>10, <1>11, <1>12, <1>13, <1>14, <1>15, <1>16, <1>17, <1>18, <1>19, <1>20, <1>21, <1>22, <1>23, <1>24
     DEF Step, Receive, Handle, CallLLM

LEMMA NextLeads ==
  TypeInv /\ [Next]_vars => [\A r \in Requests : Leads(r)]_vars
<1> SUFFICES ASSUME TypeInv, NEW q \in Requests, Step(q)
             PROVE  \A r \in Requests : Leads(r)
  BY DEF Next, Step
<1>1. Leads(q) /\ Alone(q)
  BY RetryLeads, WindowLeads, BatchLeads, ReviewLeads, OthersLead
<1>2. ASSUME NEW r \in Requests \ {q} PROVE Leads(r)
  BY <1>1, <1>2 DEF Alone, Leads
<1> QED
  BY <1>1, <1>2

(* No handler goes round in circles: retries, batches and windows run out.  *)
THEOREM RequestsEnd == Spec => EachStepLeadsOn
<1>1. TypeInv /\ [Next]_vars =>
        [\A r \in Requests :
           stage[r] # "idle" /\ stage'[r] # "idle" /\ Standing(r)' # Standing(r)
             => Nearer(r)]_vars
  BY NextLeads DEF Leads
<1> QED
  BY <1>1, TypeInvariant, PTL DEF Spec, EachStepLeadsOn

=============================================================================
