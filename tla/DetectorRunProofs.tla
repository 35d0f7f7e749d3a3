-------------------------- MODULE DetectorRunProofs --------------------------
(***************************************************************************)
(* What holds of DetectorRun for every number of requests and detectors    *)
(* and every pool size: the pool's accounts, and what an empty answer with *)
(* no detector error can come from.                                        *)
(***************************************************************************)
EXTENDS DetectorRun, FiniteSetTheorems, TLAPS

(* What a goroutine has reported, by where it stands. *)
Reported ==
  \A w \in Workers :
    /\ phase[w] \in {"none", "spawned", "queued", "scanning"} =>
         outcome[w] = "none" /\ w \notin findings /\ w \notin errs
    /\ phase[w] = "scanned" =>
         outcome[w] # "none" /\ w \notin findings /\ w \notin errs
    /\ phase[w] \in {"merged", "done"} =>
         /\ w \in errs <=> outcome[w] \in {"none", "error"}
         /\ w \in findings <=> outcome[w] = "found"

(* A request that is over has only goroutines that are over, and one that *)
(* has not begun has none.                                                *)
RunMatches ==
  \A r \in Requests : \A w \in MyWorkers(r) :
    /\ run[r] = "idle" => phase[w] = "none"
    /\ run[r] = "returned" => phase[w] = "done"

(* Only the in-process scan is ended without a word by its context, and a *)
(* context that is done is the request's, or a scan's past its deadline.  *)
HaltedByContext ==
  /\ expired # {} => ScanTimeout
  /\ \A w \in Workers : outcome[w] = "halted" =>
       Det(w) \in InProcess /\ (Req(w) \in ctxDone \/ ScanTimeout)

(* Ungated goroutines are never in line, nor on their way to free a slot. *)
OnlyGatedQueue == \A w \in Workers : phase[w] \in {"queued", "merged"} => Gated(w)

PoolInv ==
  /\ TypeOK
  /\ PoolAccounted
  /\ MaxConcurrentScans > 0 => sem <= MaxConcurrentScans
  /\ OnlyGatedQueue

ReportInv == TypeOK /\ Reported /\ RunMatches /\ HaltedByContext

-----------------------------------------------------------------------------
(* Types hold at the start and every step keeps them.                       *)
LEMMA InitTypeOK == Init => TypeOK
  BY DEF Init, TypeOK, Phases, Outcomes

LEMMA NextTypeOK == TypeOK /\ [Next]_vars => TypeOK'
<1> SUFFICES ASSUME TypeOK, [Next]_vars PROVE TypeOK'
  OBVIOUS
<1> USE DEF TypeOK, Phases, Outcomes
<1>1. ASSUME NEW r \in Requests, Start(r) \/ RequestDone(r) \/ Return(r) \/ Forget(r)
      PROVE  TypeOK'
  <2>1. CASE Start(r)
    BY <2>1 DEF Start
  <2>2. CASE RequestDone(r)
    BY <2>2 DEF RequestDone
  <2>3. CASE Return(r)
    BY <2>3 DEF Return
  <2>4. CASE Forget(r)
    BY <2>4 DEF Forget
  <2> QED
    BY <1>1, <2>1, <2>2, <2>3, <2>4
<1>2. ASSUME NEW w \in Workers, Worker(w) PROVE TypeOK'
  <2>1. CASE Enter(w)
    BY <2>1 DEF Enter, Go
  <2>2. CASE TakeSlot(w)
    BY <2>2 DEF TakeSlot, Go
  <2>3. CASE GiveUp(w)
    BY <2>3 DEF GiveUp, Go
  <2>4. CASE Deadline(w)
    BY <2>4 DEF Deadline
  <2>5. ASSUME NEW end \in Outcomes, Scan(w, end) PROVE TypeOK'
    BY <2>5 DEF Scan, Go
  <2>6. CASE Merge(w)
    BY <2>6 DEF Merge, Go
  <2>7. CASE FreeSlot(w)
    BY <2>7 DEF FreeSlot, Go
  <2> QED
    BY <1>2, <2>1, <2>2, <2>3, <2>4, <2>5, <2>6, <2>7 DEF Worker
<1>3. CASE UNCHANGED vars
  BY <1>3 DEF vars
<1> QED
  BY <1>1, <1>2, <1>3 DEF Next

(* Every variable keeps its type.                                           *)
THEOREM TypeCorrect == Spec => []TypeOK
  BY InitTypeOK, NextTypeOK, PTL DEF Spec

-----------------------------------------------------------------------------
(* What is reported *)

(* The reporting invariant holds at the start and every step keeps it.      *)
LEMMA InitReport == Init => ReportInv
  BY InitTypeOK DEF Init, ReportInv, Reported, RunMatches, HaltedByContext, MyWorkers

LEMMA NextReport == ReportInv /\ [Next]_vars => ReportInv'
<1> SUFFICES ASSUME ReportInv, [Next]_vars PROVE ReportInv'
  OBVIOUS
<1> USE DEF ReportInv, TypeOK, Reported, RunMatches, HaltedByContext
<1>0. TypeOK'
  BY NextTypeOK
<1>1. ASSUME NEW r \in Requests, Start(r) \/ RequestDone(r) \/ Return(r) \/ Forget(r)
      PROVE  Reported' /\ RunMatches' /\ HaltedByContext'
  <2>1. CASE Start(r)
    BY <2>1 DEF Start, MyWorkers
  <2>2. CASE RequestDone(r)
    BY <2>2 DEF RequestDone, MyWorkers
  <2>3. CASE Return(r)
    BY <2>3 DEF Return, MyWorkers
  <2>4. CASE Forget(r)
    BY <2>4 DEF Forget, MyWorkers
  <2> QED
    BY <1>1, <2>1, <2>2, <2>3, <2>4
<1>2. ASSUME NEW w \in Workers, Worker(w)
      PROVE  Reported' /\ RunMatches' /\ HaltedByContext'
  <2>1. CASE Enter(w)
    BY <2>1 DEF Enter, Go, MyWorkers
  <2>2. CASE TakeSlot(w)
    BY <2>2 DEF TakeSlot, Go, MyWorkers
  <2>3. CASE GiveUp(w)
    BY <2>3 DEF GiveUp, Go, MyWorkers
  <2>4. CASE Deadline(w)
    BY <2>4 DEF Deadline, MyWorkers
  <2>5. ASSUME NEW end \in Outcomes, Scan(w, end)
        PROVE  Reported' /\ RunMatches' /\ HaltedByContext'
    <3>1. end = "halted" => Det(w) \in InProcess /\ (Req(w) \in ctxDone \/ w \in expired)
      BY <2>5 DEF Scan, ScanEnds, ScanCtxDone
    <3>2. end \notin {"none"} /\ phase[w] = "scanning"
      BY <2>5 DEF Scan, ScanEnds, Go
    <3>3. HaltedByContext'
      BY <2>5, <3>1 DEF Scan
    <3>4. Reported'
      BY <2>5, <3>2 DEF Scan, Go
    <3>5. RunMatches'
      BY <2>5, <3>2 DEF Scan, Go, MyWorkers
    <3> QED
      BY <3>3, <3>4, <3>5
  <2>6. CASE Merge(w)
    BY <2>6 DEF Merge, Go, MyWorkers
  <2>7. CASE FreeSlot(w)
    BY <2>7 DEF FreeSlot, Go, MyWorkers
  <2> QED
    BY <1>2, <2>1, <2>2, <2>3, <2>4, <2>5, <2>6, <2>7 DEF Worker
<1>3. CASE UNCHANGED vars
  BY <1>3 DEF vars, MyWorkers
<1> QED
  BY <1>0, <1>1, <1>2, <1>3 DEF Next

(* What a returned request holds follows from what its goroutines reported. *)
LEMMA ReportGives == ReportInv => EveryDetectorAccounted /\ EmptyIsExplained
<1> SUFFICES ASSUME ReportInv PROVE EveryDetectorAccounted /\ EmptyIsExplained
  OBVIOUS
<1> USE DEF ReportInv, TypeOK, Reported, RunMatches, HaltedByContext, MyWorkers, Outcomes
<1>1. EveryDetectorAccounted
  BY DEF EveryDetectorAccounted
<1>2. ASSUME NEW r \in Requests, run[r] = "returned",
             MyWorkers(r) \cap (findings \cup errs) = {}, NEW w \in MyWorkers(r)
      PROVE  \/ outcome[w] \in {"clean", "blank"}
             \/ /\ outcome[w] = "halted" /\ Det(w) \in InProcess
                /\ r \in ctxDone \/ ScanTimeout
  <2>1. w \in Workers /\ phase[w] = "done" /\ Req(w) = r
    BY <1>2
  <2>2. outcome[w] \notin {"none", "error", "found"}
    BY <1>2, <2>1
  <2>3. outcome[w] \in {"clean", "blank", "halted"}
    BY <2>1, <2>2
  <2> QED
    BY <2>1, <2>3
<1> QED
  BY <1>1, <1>2 DEF EmptyIsExplained

(* Run's result holds what every Scan returned: a detector is in the error  *)
(* map exactly if Scan returned an error or was never called, and among the *)
(* findings exactly if Scan returned some.                                  *)
THEOREM DetectorsAccounted == Spec => []EveryDetectorAccounted
  BY InitReport, NextReport, ReportGives, PTL DEF Spec

(* An empty answer without errors never comes from a detector that waited   *)
(* in line in vain, failed or was killed: each got to the end of the diff,  *)
(* met a line beyond a buffer, or is in-process and saw its context end.    *)
THEOREM EmptyExplained == Spec => []EmptyIsExplained
  BY InitReport, NextReport, ReportGives, PTL DEF Spec

-----------------------------------------------------------------------------
(* The pool *)

(* Workers are finitely many, and so are those that hold a slot.            *)
LEMMA HoldingFinite == IsFiniteSet(Holding) /\ Cardinality(Holding) \in Nat
<1>1. IsFiniteSet(Workers)
  BY DetectorAssumption, FS_Product DEF Workers
<1>2. Holding \in SUBSET Workers
  BY DEF Holding, AtPhases
<1> QED
  BY <1>1, <1>2, FS_Subset, FS_CardinalityType

(* A goroutine that gets a slot is one more holder, and one that frees its  *)
(* slot is one fewer.                                                       *)
LEMMA HoldingMoves ==
  ASSUME TypeOK, NEW CONSTANT w \in Workers, NEW CONSTANT from, NEW CONSTANT to,
         Gated(w), Go(w, from, to)
  PROVE  /\ from \notin SlotPhases /\ to \in SlotPhases =>
              Cardinality(Holding') = Cardinality(Holding) + 1
         /\ from \in SlotPhases /\ to \notin SlotPhases =>
              /\ Cardinality(Holding) > 0
              /\ Cardinality(Holding') = Cardinality(Holding) - 1
         /\ (from \in SlotPhases <=> to \in SlotPhases) => Holding' = Holding
<1>1. w \in Holding <=> from \in SlotPhases
  BY DEF Holding, AtPhases, Go
<1>2. Holding' = IF to \in SlotPhases THEN Holding \cup {w} ELSE Holding \ {w}
  BY DEF Holding, AtPhases, Go, TypeOK, Gated
<1>3. w \in Holding => Cardinality(Holding) > 0
  BY HoldingFinite, FS_EmptySet
<1>4. Cardinality(Holding \cup {w}) =
        IF w \in Holding THEN Cardinality(Holding) ELSE Cardinality(Holding) + 1
  BY HoldingFinite, FS_AddElement
<1>5. Cardinality(Holding \ {w}) =
        IF w \in Holding THEN Cardinality(Holding) - 1 ELSE Cardinality(Holding)
  BY HoldingFinite, FS_RemoveElement
<1> QED
  BY <1>1, <1>2, <1>3, <1>4, <1>5

(* A goroutine outside the pool changes no holder by its own move.          *)
LEMMA UngatedHolds ==
  ASSUME TypeOK, NEW CONSTANT w \in Workers, NEW CONSTANT from, NEW CONSTANT to,
         ~Gated(w), Go(w, from, to)
  PROVE  Holding' = Holding
  BY DEF Holding, AtPhases, Go, TypeOK, Gated

(* The pool's invariant holds at the start and every step keeps it.         *)
LEMMA InitPool == Init => PoolInv
<1> SUFFICES ASSUME Init PROVE PoolInv
  OBVIOUS
<1>1. Holding = {}
  BY DEF Init, Holding, AtPhases, SlotPhases
<1> QED
  BY <1>1, InitTypeOK, FS_EmptySet, DetectorAssumption
     DEF Init, PoolInv, PoolAccounted, OnlyGatedQueue

LEMMA NextPool == ReportInv /\ PoolInv /\ [Next]_vars => PoolInv'
<1> SUFFICES ASSUME ReportInv, PoolInv, [Next]_vars PROVE PoolInv'
  OBVIOUS
<1> DEFINE SamePool == /\ Holding' = Holding /\ sem' = sem /\ OnlyGatedQueue'
<1>0. TypeOK /\ TypeOK' /\ sem \in Nat /\ MaxConcurrentScans \in Int
  BY NextTypeOK, DetectorAssumption DEF PoolInv, TypeOK
<1>1. SamePool => PoolInv'
  BY <1>0 DEF PoolInv, PoolAccounted
<1>2. ASSUME NEW r \in Requests, Start(r) \/ RequestDone(r) \/ Return(r) \/ Forget(r)
      PROVE  PoolInv'
  <2>1. CASE Start(r)
    <3>1. \A w \in Workers : Req(w) = r => phase[w] = "none"
      BY <2>1 DEF Start, ReportInv, RunMatches, MyWorkers
    <3>2. Holding' = Holding
      BY <2>1, <3>1, <1>0 DEF Start, Holding, AtPhases, SlotPhases, Gated, TypeOK
    <3>3. OnlyGatedQueue'
      BY <2>1, <1>0 DEF Start, PoolInv, OnlyGatedQueue, Gated, TypeOK
    <3> QED
      BY <2>1, <3>2, <3>3, <1>1 DEF Start
  <2>2. CASE RequestDone(r) \/ Return(r)
    <3>1. SamePool
      BY <2>2 DEF RequestDone, Return, Holding, AtPhases, Gated, PoolInv, OnlyGatedQueue
    <3> QED
      BY <3>1, <1>1
  <2>3. CASE Forget(r)
    <3>1. \A w \in Workers : Req(w) = r => phase[w] = "done"
      BY <2>3 DEF Forget, ReportInv, RunMatches, MyWorkers
    <3>2. Holding' = Holding
      BY <2>3, <3>1, <1>0 DEF Forget, Holding, AtPhases, SlotPhases, Gated, TypeOK
    <3>3. OnlyGatedQueue'
      BY <2>3, <1>0 DEF Forget, PoolInv, OnlyGatedQueue, Gated, TypeOK
    <3> QED
      BY <2>3, <3>2, <3>3, <1>1 DEF Forget
  <2> QED
    BY <1>2, <2>1, <2>2, <2>3
<1>3. ASSUME NEW w \in Workers, Worker(w) PROVE PoolInv'
  <2>0. OnlyGatedQueue'
    BY <1>0, <1>3 DEF Worker, Enter, TakeSlot, GiveUp, Deadline, Scan, Merge, FreeSlot,
                      Go, PoolInv, OnlyGatedQueue, Gated, TypeOK
  <2>1. CASE Enter(w)
    <3>1. ~Gated(w) => Holding' = Holding
      BY <1>0, <2>1, UngatedHolds DEF Enter
    <3>2. Gated(w) => Holding' = Holding
      BY <1>0, <2>1, HoldingMoves DEF SlotPhases, Enter
    <3> QED
      BY <2>0, <2>1, <3>1, <3>2, <1>1 DEF Enter
  <2>2. CASE TakeSlot(w)
    <3>1. Gated(w)
      BY <2>2 DEF TakeSlot, Go, PoolInv, OnlyGatedQueue
    <3>2. Cardinality(Holding') = Cardinality(Holding) + 1
      BY <1>0, <2>2, <3>1, HoldingMoves DEF SlotPhases, TakeSlot
    <3> QED
      BY <1>0, <2>0, <2>2, <3>2 DEF TakeSlot, PoolInv, PoolAccounted
  <2>3. CASE GiveUp(w)
    <3>1. Gated(w)
      BY <2>3 DEF GiveUp, Go, PoolInv, OnlyGatedQueue
    <3>2. Holding' = Holding
      BY <1>0, <2>3, <3>1, HoldingMoves DEF SlotPhases, GiveUp
    <3> QED
      BY <2>0, <2>3, <3>2, <1>1 DEF GiveUp
  <2>4. CASE Deadline(w)
    <3>1. Holding' = Holding
      BY <2>4 DEF Deadline, Holding, AtPhases, Gated
    <3> QED
      BY <2>0, <2>4, <3>1, <1>1 DEF Deadline
  <2>5. ASSUME NEW end \in Outcomes, Scan(w, end) PROVE PoolInv'
    <3>1. ~Gated(w) => Holding' = Holding
      BY <1>0, <2>5, UngatedHolds DEF Scan
    <3>2. Gated(w) => Holding' = Holding
      BY <1>0, <2>5, HoldingMoves DEF SlotPhases, Scan
    <3> QED
      BY <2>0, <2>5, <3>1, <3>2, <1>1 DEF Scan
  <2>6. CASE Merge(w)
    <3>1. ~Gated(w) => Holding' = Holding
      BY <1>0, <2>6, UngatedHolds DEF Merge
    <3>2. Gated(w) => Holding' = Holding
      BY <1>0, <2>6, HoldingMoves DEF SlotPhases, Merge
    <3> QED
      BY <2>0, <2>6, <3>1, <3>2, <1>1 DEF Merge
  <2>7. CASE FreeSlot(w)
    <3>1. Gated(w)
      BY <2>7 DEF FreeSlot, Go, PoolInv, OnlyGatedQueue
    <3>2. Cardinality(Holding') = Cardinality(Holding) - 1
      BY <1>0, <2>7, <3>1, HoldingMoves DEF SlotPhases, FreeSlot
    <3> QED
      BY <1>0, <2>0, <2>7, <3>2, HoldingFinite DEF FreeSlot, PoolInv, PoolAccounted
  <2> QED
    BY <1>3, <2>1, <2>2, <2>3, <2>4, <2>5, <2>6, <2>7 DEF Worker
<1>4. CASE UNCHANGED vars
  BY <1>0, <1>1, <1>4 DEF vars, Holding, AtPhases, Gated, PoolInv, OnlyGatedQueue
<1> QED
  BY <1>2, <1>3, <1>4 DEF Next

(* The pool's channel holds exactly the tokens of the scans in progress.    *)
THEOREM PoolIsExact == Spec => []PoolAccounted
  BY InitReport, NextReport, InitPool, NextPool, PTL DEF Spec, PoolInv

(* No more subprocess scans at once than the pool allows, over all requests.*)
THEOREM PoolBoundsScans == Spec => []ScansBounded
<1>1. PoolInv => ScansBounded
  BY DEF PoolInv, PoolAccounted, ScansBounded
<1> QED
  BY <1>1, InitReport, NextReport, InitPool, NextPool, PTL DEF Spec
-----------------------------------------------------------------------------
(* The pool is a gate *)

(* The gate counts its holders as this module does.                         *)
LEMMA SameCount == Gate!Cardinality(Holding) = Cardinality(Holding)
  BY DEF Gate!Cardinality, Cardinality, Gate!IsFiniteSet, IsFiniteSet

(* Who is in line and who is in after the move of one gated goroutine.      *)
LEMMA MoveMembers ==
  ASSUME TypeOK, NEW CONSTANT w \in Workers, NEW CONSTANT from, NEW CONSTANT to,
         Gated(w), Go(w, from, to)
  PROVE  /\ Queued' = IF to = "queued" THEN Queued \cup {w} ELSE Queued \ {w}
         /\ Holding' = IF to \in SlotPhases THEN Holding \cup {w} ELSE Holding \ {w}
         /\ w \in Queued <=> from = "queued"
         /\ w \in Holding <=> from \in SlotPhases
  BY DEF Queued, Holding, AtPhases, Go, TypeOK, Gated

(* A goroutine outside the pool is never in line, before or after its move. *)
LEMMA UngatedQueues ==
  ASSUME TypeOK, NEW CONSTANT w \in Workers, NEW CONSTANT from, NEW CONSTANT to,
         ~Gated(w), from # "queued", to # "queued", Go(w, from, to)
  PROVE  Queued' = Queued
  BY DEF Queued, AtPhases, Go, TypeOK

(* Initial states map to initial states and steps to steps or stutters: a   *)
(* line and a pool are entered and left by the sends and receives alone.    *)
LEMMA InitGate == Init => Gate!GateInit
  BY DEF Init, Gate!GateInit, Queued, Holding, AtPhases, SlotPhases

LEMMA NextGate == ReportInv /\ PoolInv /\ [Next]_vars => [Gate!GateNext]_(Gate!gateVars)
<1> SUFFICES ASSUME ReportInv, PoolInv, [Next]_vars PROVE [Gate!GateNext]_(Gate!gateVars)
  OBVIOUS
<1> DEFINE Unseen == Queued' = Queued /\ Holding' = Holding
<1>0. TypeOK
  BY DEF PoolInv
<1>1. ASSUME Unseen PROVE [Gate!GateNext]_(Gate!gateVars)
  BY <1>1 DEF Gate!gateVars
<1>2. ASSUME NEW r \in Requests, Start(r) \/ RequestDone(r) \/ Return(r) \/ Forget(r)
      PROVE  Unseen
  <2>1. CASE Start(r)
    <3>1. \A w \in Workers : Req(w) = r => phase[w] = "none"
      BY <2>1 DEF Start, ReportInv, RunMatches, MyWorkers
    <3> QED
      BY <2>1, <3>1, <1>0 DEF Start, Queued, Holding, AtPhases, SlotPhases, Gated, TypeOK
  <2>2. CASE RequestDone(r) \/ Return(r)
    BY <2>2 DEF RequestDone, Return, Queued, Holding, AtPhases, Gated
  <2>3. CASE Forget(r)
    <3>1. \A w \in Workers : Req(w) = r => phase[w] = "done"
      BY <2>3 DEF Forget, ReportInv, RunMatches, MyWorkers
    <3> QED
      BY <2>3, <3>1, <1>0 DEF Forget, Queued, Holding, AtPhases, SlotPhases, Gated, TypeOK
  <2> QED
    BY <1>2, <2>1, <2>2, <2>3
<1>3. ASSUME NEW w \in Workers, Worker(w) PROVE [Gate!GateNext]_(Gate!gateVars)
  <2>1. CASE Enter(w)
    <3>1. CASE Gated(w)
      <4>1. Gate!Enqueue(w)
        BY <1>0, <2>1, <3>1, MoveMembers DEF Enter, Gate!Enqueue, SlotPhases
      <4> QED
        BY <3>1, <4>1 DEF Gate!GateNext
    <3>2. CASE ~Gated(w)
      BY <1>0, <1>1, <2>1, <3>2, UngatedHolds, UngatedQueues DEF Enter
    <3> QED
      BY <3>1, <3>2
  <2>2. CASE TakeSlot(w)
    <3>1. Gated(w)
      BY <2>2 DEF TakeSlot, Go, PoolInv, OnlyGatedQueue
    <3>2. Gate!Admit(w)
      BY <1>0, <2>2, <3>1, MoveMembers, SameCount
         DEF TakeSlot, Gate!Admit, Gate!HasRoom, SlotPhases, PoolInv, PoolAccounted
    <3> QED
      BY <3>1, <3>2 DEF Gate!GateNext
  <2>3. CASE GiveUp(w)
    <3>1. Gated(w)
      BY <2>3 DEF GiveUp, Go, PoolInv, OnlyGatedQueue
    <3>2. Gate!Abandon(w)
      BY <1>0, <2>3, <3>1, MoveMembers DEF GiveUp, Gate!Abandon, SlotPhases
    <3> QED
      BY <3>1, <3>2 DEF Gate!GateNext
  <2>4. CASE Deadline(w)
    BY <1>1, <2>4 DEF Deadline, Queued, Holding, AtPhases, Gated
  <2>5. ASSUME NEW end \in Outcomes, Scan(w, end) PROVE [Gate!GateNext]_(Gate!gateVars)
    <3>1. CASE Gated(w)
      BY <1>0, <1>1, <2>5, <3>1, MoveMembers DEF Scan, SlotPhases
    <3>2. CASE ~Gated(w)
      BY <1>0, <1>1, <2>5, <3>2, UngatedHolds, UngatedQueues DEF Scan
    <3> QED
      BY <3>1, <3>2
  <2>6. CASE Merge(w)
    <3>1. CASE Gated(w)
      BY <1>0, <1>1, <2>6, <3>1, MoveMembers DEF Merge, SlotPhases
    <3>2. CASE ~Gated(w)
      BY <1>0, <1>1, <2>6, <3>2, UngatedHolds, UngatedQueues DEF Merge
    <3> QED
      BY <3>1, <3>2
  <2>7. CASE FreeSlot(w)
    <3>1. Gated(w)
      BY <2>7 DEF FreeSlot, Go, PoolInv, OnlyGatedQueue
    <3>2. Gate!Return(w)
      BY <1>0, <2>7, <3>1, MoveMembers DEF FreeSlot, Gate!Return, SlotPhases
    <3> QED
      BY <3>1, <3>2 DEF Gate!GateNext
  <2> QED
    BY <1>3, <2>1, <2>2, <2>3, <2>4, <2>5, <2>6, <2>7 DEF Worker
<1>4. CASE UNCHANGED vars
  BY <1>1, <1>4 DEF vars, Queued, Holding, AtPhases, Gated
<1> QED
  BY <1>1, <1>2, <1>3, <1>4 DEF Next

(* The pool implements the slot gate, for any number of requests and        *)
(* detectors and any pool size: a subprocess scan gets a slot only from the *)
(* line and when there is room, and leaves it once.                         *)
THEOREM ImplementsGate == Spec => PoolIsAGate
  BY InitGate, NextGate, InitReport, NextReport, InitPool, NextPool, PTL
     DEF Spec, PoolIsAGate, Gate!GateSafety
=============================================================================
