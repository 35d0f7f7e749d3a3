-------------------------- MODULE LLMSemaphoreProofs --------------------------
(***************************************************************************)
(* What holds of LLMSemaphore for every set of callers, every max_inflight *)
(* and every queue_max.  The accounts of the two counters are kept         *)
(* together: depth stays natural only because it counts callers, and a     *)
(* receive finds a token only because tokens are counted too.              *)
(***************************************************************************)
EXTENDS LLMSemaphore, FiniteSetTheorems, TLAPS

(* The inductive invariant: the types and both accounts. *)
SemInv == TypeOK /\ SlotsAccounted /\ DepthAccounted

-----------------------------------------------------------------------------
(* Counting callers by phase *)

(* The callers standing at given phases are finitely many.                  *)
LEMMA AtFinite ==
  ASSUME NEW S
  PROVE  IsFiniteSet(At(S)) /\ Cardinality(At(S)) \in Nat
<1>1. At(S) \in SUBSET Callers
  BY DEF At
<1>2. IsFiniteSet(At(S))
  BY <1>1, SemaphoreAssumption, FS_Subset
<1> QED
  BY <1>2, FS_CardinalityType

(* What one caller's move does to the number of callers at given phases:    *)
(* one more if it enters them, one fewer if it leaves them, else the same.  *)
LEMMA MoveCounts ==
  ASSUME NEW CONSTANT S, NEW CONSTANT c \in Callers, NEW CONSTANT to \in Phases,
         pc \in [Callers -> Phases],
         pc' = [pc EXCEPT ![c] = to]
  PROVE  /\ pc[c] \notin S /\ to \in S => Cardinality(At(S)') = Cardinality(At(S)) + 1
         /\ pc[c] \in S /\ to \notin S =>
              /\ Cardinality(At(S)) > 0
              /\ Cardinality(At(S)') = Cardinality(At(S)) - 1
         /\ (pc[c] \in S <=> to \in S) => At(S)' = At(S)
<1>1. IsFiniteSet(At(S)) /\ Cardinality(At(S)) \in Nat
  BY AtFinite
<1>2. c \in At(S) <=> pc[c] \in S
  BY DEF At
<1>3. CASE pc[c] \notin S /\ to \in S
  <2>1. At(S)' = At(S) \cup {c}
    BY <1>3 DEF At
  <2> QED
    BY <1>1, <1>2, <1>3, <2>1, FS_AddElement
<1>4. CASE pc[c] \in S /\ to \notin S
  <2>1. At(S)' = At(S) \ {c}
    BY <1>4 DEF At
  <2>2. At(S) # {}
    BY <1>2, <1>4
  <2>3. Cardinality(At(S)) > 0
    BY <1>1, <2>2, FS_EmptySet
  <2> QED
    BY <1>1, <1>2, <1>4, <2>1, <2>3, FS_RemoveElement
<1>5. CASE pc[c] \in S <=> to \in S
  <2>1. At(S)' = At(S)
    BY <1>5 DEF At
  <2> QED
    BY <1>5, <2>1
<1> QED
  BY <1>3, <1>4, <1>5

-----------------------------------------------------------------------------
(* What a phase weighs in an account: one if the account counts it. *)
Weight(S, phase) == IF phase \in S THEN 1 ELSE 0

(* A step that moves one caller and moves the two counters by what the move *)
(* weighs keeps both accounts.                                              *)
LEMMA BalancedStep ==
  ASSUME SemInv,
         NEW CONSTANT c \in Callers,
         NEW CONSTANT from \in Phases, NEW CONSTANT to \in Phases,
         Go(c, from, to),
         slots' = slots + Weight(SlotPhases, to) - Weight(SlotPhases, from),
         slots' <= Capacity,
         depth' = depth + Weight(DepthPhases, to) - Weight(DepthPhases, from),
         loaded' \in [Callers -> Nat]
  PROVE  SemInv'
<1>1. pc \in [Callers -> Phases] /\ pc[c] = from /\ pc' = [pc EXCEPT ![c] = to]
  BY DEF SemInv, TypeOK, Go
<1>2. /\ Cardinality(InSlot) \in Nat
      /\ Cardinality(InSlot') = Cardinality(InSlot) + Weight(SlotPhases, to)
                                - Weight(SlotPhases, from)
      /\ Cardinality(InSlot') \in Nat
  <2>1. /\ Cardinality(At(SlotPhases)) \in Nat
        /\ from \notin SlotPhases /\ to \in SlotPhases =>
             Cardinality(At(SlotPhases)') = Cardinality(At(SlotPhases)) + 1
        /\ from \in SlotPhases /\ to \notin SlotPhases =>
             /\ Cardinality(At(SlotPhases)) > 0
             /\ Cardinality(At(SlotPhases)') = Cardinality(At(SlotPhases)) - 1
        /\ (from \in SlotPhases <=> to \in SlotPhases) =>
             Cardinality(At(SlotPhases)') = Cardinality(At(SlotPhases))
    BY <1>1, AtFinite, MoveCounts
  <2> QED
    BY <2>1 DEF InSlot, Weight
<1>3. /\ Cardinality(InDepth) \in Nat
      /\ Cardinality(InDepth') = Cardinality(InDepth) + Weight(DepthPhases, to)
                                 - Weight(DepthPhases, from)
      /\ Cardinality(InDepth') \in Nat
  <2>1. /\ Cardinality(At(DepthPhases)) \in Nat
        /\ from \notin DepthPhases /\ to \in DepthPhases =>
             Cardinality(At(DepthPhases)') = Cardinality(At(DepthPhases)) + 1
        /\ from \in DepthPhases /\ to \notin DepthPhases =>
             /\ Cardinality(At(DepthPhases)) > 0
             /\ Cardinality(At(DepthPhases)') = Cardinality(At(DepthPhases)) - 1
        /\ (from \in DepthPhases <=> to \in DepthPhases) =>
             Cardinality(At(DepthPhases)') = Cardinality(At(DepthPhases))
    BY <1>1, AtFinite, MoveCounts
  <2> QED
    BY <2>1 DEF InDepth, Weight
<1>4. SlotsAccounted' /\ DepthAccounted'
  BY <1>2, <1>3 DEF SemInv, SlotsAccounted, DepthAccounted
<1>5. Capacity \in Nat \ {0}
  BY SemaphoreAssumption DEF Capacity
<1>6. TypeOK'
  <2>1. slots' \in 0..Capacity /\ depth' \in Nat
    BY <1>2, <1>3, <1>4, <1>5 DEF SlotsAccounted, DepthAccounted
  <2>2. pc' \in [Callers -> Phases]
    BY <1>1
  <2> QED
    BY <2>1, <2>2 DEF TypeOK
<1> QED
  BY <1>4, <1>6 DEF SemInv

(* The accounts balance at the start and every step keeps them.             *)
LEMMA InitSemInv == Init => SemInv
<1> SUFFICES ASSUME Init PROVE SemInv
  OBVIOUS
<1>1. Capacity \in Nat \ {0}
  BY SemaphoreAssumption DEF Capacity
<1>2. TypeOK
  BY <1>1 DEF Init, TypeOK, Phases
<1>3. InSlot = {} /\ InDepth = {}
  BY DEF Init, InSlot, InDepth, At, SlotPhases, DepthPhases, HeldPhases, QueuedPhases
<1> QED
  BY <1>2, <1>3, FS_EmptySet DEF SemInv, SlotsAccounted, DepthAccounted, Init

LEMMA NextSemInv == SemInv /\ [Next]_vars => SemInv'
<1> SUFFICES ASSUME SemInv, [Next]_vars PROVE SemInv'
  OBVIOUS
<1> USE DEF Weight, Phases, AcquirePhases, QueuedPhases, TryPhases, HeldPhases,
            SlotPhases, DepthPhases
<1>1. /\ slots \in 0..Capacity /\ depth \in Nat
      /\ loaded \in [Callers -> Nat] /\ Capacity \in Nat
  BY SemaphoreAssumption DEF SemInv, TypeOK, Capacity
<1>2. CASE UNCHANGED vars
  BY <1>2 DEF vars, SemInv, TypeOK, SlotsAccounted, DepthAccounted, InSlot, InDepth, At
<1>3. ASSUME NEW c \in Callers, Acquire(c) PROVE SemInv'
  <2>1. CASE AcquireRejected(c)
    BY <1>1, <2>1, BalancedStep DEF AcquireRejected
  <2>2. CASE AnswerRejected(c)
    BY <1>1, <2>2, BalancedStep DEF AnswerRejected
  <2>3. CASE AcquireCheck(c)
    BY <1>1, <2>3, BalancedStep DEF AcquireCheck
  <2>4. CASE AcquireEnqueue(c)
    BY <1>1, <2>4, BalancedStep DEF AcquireEnqueue
  <2>5. CASE ContextDone(c)
    BY <1>1, <2>5, BalancedStep DEF ContextDone
  <2>6. CASE AcquireTake(c)
    BY <1>1, <2>6, BalancedStep DEF AcquireTake, SlotFree
  <2>7. CASE AcquireCancelled(c)
    BY <1>1, <2>7, BalancedStep DEF AcquireCancelled
  <2>8. CASE AcquireLeave(c)
    BY <1>1, <2>8, BalancedStep DEF AcquireLeave
  <2> QED
    BY <1>3, <2>1, <2>2, <2>3, <2>4, <2>5, <2>6, <2>7, <2>8 DEF Acquire
<1>4. ASSUME NEW c \in Callers, TryAcquire(c) PROVE SemInv'
  <2>0. loaded' \in [Callers -> Nat]
    BY <1>1, <1>4 DEF TryAcquire, TryStart, TryFirstLook, TryTake, TryGiveUp, TryReload,
                      TrySecondLook, TryHandBack, TryCount, LoadDepth
  <2>1. CASE TryStart(c)
    BY <1>1, <2>0, <2>1, BalancedStep DEF TryStart
  <2>2. CASE TryFirstLook(c)
    BY <1>1, <2>0, <2>2, BalancedStep DEF TryFirstLook
  <2>3. CASE TryTake(c)
    BY <1>1, <2>0, <2>3, BalancedStep DEF TryTake, SlotFree
  <2>4. CASE TryGiveUp(c)
    BY <1>1, <2>0, <2>4, BalancedStep DEF TryGiveUp
  <2>5. CASE TryReload(c)
    BY <1>1, <2>0, <2>5, BalancedStep DEF TryReload
  <2>6. CASE TrySecondLook(c)
    BY <1>1, <2>0, <2>6, BalancedStep DEF TrySecondLook
  <2>7. CASE TryHandBack(c)
    BY <1>1, <2>0, <2>7, BalancedStep DEF TryHandBack
  <2>8. CASE TryCount(c)
    BY <1>1, <2>0, <2>8, BalancedStep DEF TryCount
  <2> QED
    BY <1>4, <2>1, <2>2, <2>3, <2>4, <2>5, <2>6, <2>7, <2>8 DEF TryAcquire
<1>5. ASSUME NEW c \in Callers, Release(c) PROVE SemInv'
  <2>1. CASE ReleaseSlot(c)
    BY <1>1, <2>1, BalancedStep DEF ReleaseSlot
  <2>2. CASE ReleaseDepth(c)
    BY <1>1, <2>2, BalancedStep DEF ReleaseDepth
  <2> QED
    BY <1>5, <2>1, <2>2 DEF Release
<1> QED
  BY <1>2, <1>3, <1>4, <1>5 DEF Next

(* Types and both accounts hold in every reachable state.                   *)
THEOREM SemaphoreAccounts == Spec => []SemInv
  BY InitSemInv, NextSemInv, PTL DEF Spec

(* Depth never drifts: it is exactly the callers queued, let in or leaving. *)
THEOREM DepthIsExact == Spec => []DepthAccounted
  BY SemaphoreAccounts, PTL DEF SemInv

-----------------------------------------------------------------------------
(* What the accounts give *)

(* Those let in all have a token, and the channel holds at most Capacity.   *)
LEMMA SemInvBounds == SemInv => InflightBounded /\ GivingBackNeverBlocks
<1> SUFFICES ASSUME SemInv PROVE InflightBounded /\ GivingBackNeverBlocks
  OBVIOUS
<1>1. /\ slots = Cardinality(InSlot) /\ slots \in 0..Capacity
      /\ Capacity \in Nat
  BY SemaphoreAssumption DEF SemInv, TypeOK, SlotsAccounted, Capacity
<1>2. IsFiniteSet(InSlot)
  BY AtFinite DEF InSlot
<1>3. InflightBounded
  <2>1. Holders \in SUBSET InSlot
    BY DEF Holders, InSlot, At, SlotPhases
  <2>2. Cardinality(Holders) \in Nat /\ Cardinality(Holders) <= Cardinality(InSlot)
    BY <1>2, <2>1, FS_Subset, FS_CardinalityType
  <2> QED
    BY <1>1, <2>2 DEF InflightBounded
<1>4. GivingBackNeverBlocks
  <2> SUFFICES ASSUME At(HeldPhases \cup {"tryBack"}) # {}
               PROVE  slots > 0
    BY DEF GivingBackNeverBlocks
  <2>1. InSlot # {}
    BY DEF InSlot, At, SlotPhases
  <2> QED
    BY <1>1, <1>2, <2>1, FS_EmptySet
<1> QED
  BY <1>3, <1>4

(* max_inflight is respected, on both ways in, for any number of callers.   *)
THEOREM MaxInflightRespected == Spec => []InflightBounded
  BY SemaphoreAccounts, SemInvBounds, PTL

(* Neither Release nor the hand-back can block on an empty channel.         *)
THEOREM ReleaseNeverBlocks == Spec => []GivingBackNeverBlocks
  BY SemaphoreAccounts, SemInvBounds, PTL

(* A rejection means QueueMax callers are queued, let in or leaving.        *)
THEOREM RejectionsAreEarned == Spec => RejectedOnlyUnderLoad
<1>1. SemInv /\ [Next]_vars =>
        [\A c \in Callers : pc[c] = "idle" /\ pc'[c] = "rejected"
           => Cardinality(InDepth) >= QueueMax]_vars
  <2> SUFFICES ASSUME SemInv, Next,
                      NEW c \in Callers, pc[c] = "idle", pc'[c] = "rejected"
               PROVE  Cardinality(InDepth) >= QueueMax
    OBVIOUS
  <2>1. PICK d \in Callers : Acquire(d) \/ TryAcquire(d) \/ Release(d)
    BY DEF Next
  <2>2. pc \in [Callers -> Phases]
    BY DEF SemInv, TypeOK
  <2>3. AcquireRejected(d)
    BY <2>1, <2>2 DEF Acquire, TryAcquire, Release, Go,
         AnswerRejected, AcquireCheck, AcquireEnqueue, ContextDone, AcquireTake,
         AcquireCancelled, AcquireLeave, TryStart, TryFirstLook, TryTake, TryGiveUp,
         TryReload, TrySecondLook, TryHandBack, TryCount, ReleaseSlot, ReleaseDepth
  <2> QED
    BY <2>3 DEF AcquireRejected, QueueFull, SemInv, DepthAccounted
<1> QED
  BY <1>1, SemaphoreAccounts, PTL DEF Spec, RejectedOnlyUnderLoad

-----------------------------------------------------------------------------
(* The semaphore implements the gate *)

(* The gate counts its holders as this module does.                         *)
LEMMA SameCount == Gate!Cardinality(Holders) = Cardinality(Holders)
  BY DEF Gate!Cardinality, Cardinality, Gate!IsFiniteSet, IsFiniteSet

(* Room for one more, seen by a caller whose own token is in the channel or *)
(* about to be: those let in are then fewer than the tokens.                *)
LEMMA RoomForOne ==
  ASSUME SemInv, NEW c \in Callers,
         \/ pc[c] = "tryCount"
         \/ SlotFree
  PROVE  Cardinality(Holders) < Capacity
<1>1. /\ slots = Cardinality(InSlot) /\ slots \in 0..Capacity
      /\ Capacity \in Nat
  BY SemaphoreAssumption DEF SemInv, TypeOK, SlotsAccounted, Capacity
<1>2. IsFiniteSet(InSlot)
  BY AtFinite DEF InSlot
<1>3. Holders \in SUBSET InSlot
  BY DEF Holders, InSlot, At, SlotPhases
<1>4. /\ Cardinality(Holders) \in Nat
      /\ Cardinality(Holders) <= Cardinality(InSlot)
      /\ Cardinality(InSlot) = Cardinality(Holders) => InSlot = Holders
  BY <1>2, <1>3, FS_Subset, FS_CardinalityType
<1>5. CASE pc[c] = "tryCount"
  <2>1. c \in InSlot /\ c \notin Holders
    BY <1>5 DEF InSlot, Holders, At, SlotPhases, HeldPhases
  <2> QED
    BY <1>1, <1>4, <2>1
<1>6. CASE SlotFree
  BY <1>1, <1>4, <1>6 DEF SlotFree
<1> QED
  BY <1>5, <1>6

(* Who is queued and who is in after one caller's move.                     *)
LEMMA MoveMembers ==
  ASSUME NEW CONSTANT c \in Callers, NEW CONSTANT from, NEW CONSTANT to \in Phases,
         pc \in [Callers -> Phases], Go(c, from, to)
  PROVE  /\ Waiting' = IF to \in QueuedPhases THEN Waiting \cup {c} ELSE Waiting \ {c}
         /\ Holders' = IF to \in HeldPhases THEN Holders \cup {c} ELSE Holders \ {c}
         /\ c \in Waiting <=> from \in QueuedPhases
         /\ c \in Holders <=> from \in HeldPhases
  BY DEF Waiting, Holders, At, Go

(* Initial states map to initial states and steps to steps or stutters.     *)
LEMMA InitGate == Init => Gate!GateInit
  BY DEF Init, Gate!GateInit, Waiting, Holders, At, QueuedPhases, HeldPhases

LEMMA NextGate == SemInv /\ [Next]_vars => [Gate!GateNext]_(Gate!gateVars)
<1> SUFFICES ASSUME SemInv, [Next]_vars PROVE [Gate!GateNext]_(Gate!gateVars)
  OBVIOUS
<1> DEFINE Unseen == Waiting' = Waiting /\ Holders' = Holders
<1> USE DEF Phases, AcquirePhases, QueuedPhases, TryPhases, HeldPhases
<1>1. pc \in [Callers -> Phases]
  BY DEF SemInv, TypeOK
<1>2. CASE UNCHANGED vars
  BY <1>2 DEF vars, Gate!gateVars, Waiting, Holders, At
<1>3. ASSUME NEW c \in Callers, Acquire(c) PROVE [Gate!GateNext]_(Gate!gateVars)
  <2>1. CASE AcquireEnqueue(c)
    <3>1. Gate!Enqueue(c)
      BY <1>1, <2>1, MoveMembers DEF AcquireEnqueue, Gate!Enqueue
    <3> QED
      BY <3>1 DEF Gate!GateNext
  <2>2. CASE AcquireTake(c)
    <3>1. Gate!Admit(c)
      BY <1>1, <2>2, MoveMembers, RoomForOne, SameCount DEF AcquireTake, Gate!Admit, Gate!HasRoom
    <3> QED
      BY <3>1 DEF Gate!GateNext
  <2>3. CASE AcquireCancelled(c)
    <3>1. Gate!Abandon(c)
      BY <1>1, <2>3, MoveMembers DEF AcquireCancelled, Gate!Abandon
    <3> QED
      BY <3>1 DEF Gate!GateNext
  <2>4. CASE AcquireRejected(c) \/ AnswerRejected(c) \/ AcquireCheck(c)
             \/ ContextDone(c) \/ AcquireLeave(c)
    <3>1. Unseen
      BY <1>1, <2>4, MoveMembers
         DEF AcquireRejected, AnswerRejected, AcquireCheck, ContextDone, AcquireLeave
    <3> QED
      BY <3>1 DEF Gate!gateVars
  <2> QED
    BY <1>3, <2>1, <2>2, <2>3, <2>4 DEF Acquire
<1>4. ASSUME NEW c \in Callers, TryAcquire(c) PROVE [Gate!GateNext]_(Gate!gateVars)
  <2>1. CASE TryCount(c)
    <3>1. pc[c] = "tryCount"
      BY <2>1 DEF TryCount, Go
    <3>2. Gate!Borrow(c)
      BY <1>1, <2>1, <3>1, MoveMembers, RoomForOne, SameCount DEF TryCount, Gate!Borrow, Gate!HasRoom
    <3> QED
      BY <3>2 DEF Gate!GateNext
  <2>2. CASE TryStart(c) \/ TryFirstLook(c) \/ TryTake(c) \/ TryGiveUp(c)
             \/ TryReload(c) \/ TrySecondLook(c) \/ TryHandBack(c)
    <3>1. Unseen
      BY <1>1, <2>2, MoveMembers DEF TryStart, TryFirstLook, TryTake, TryGiveUp,
         TryReload, TrySecondLook, TryHandBack
    <3> QED
      BY <3>1 DEF Gate!gateVars
  <2> QED
    BY <1>4, <2>1, <2>2 DEF TryAcquire
<1>5. ASSUME NEW c \in Callers, Release(c) PROVE [Gate!GateNext]_(Gate!gateVars)
  <2>1. CASE ReleaseSlot(c)
    <3>1. Gate!Return(c)
      BY <1>1, <2>1, MoveMembers DEF ReleaseSlot, Gate!Return
    <3> QED
      BY <3>1 DEF Gate!GateNext
  <2>2. CASE ReleaseDepth(c)
    <3>1. Unseen
      BY <1>1, <2>2, MoveMembers DEF ReleaseDepth
    <3> QED
      BY <3>1 DEF Gate!gateVars
  <2> QED
    BY <1>5, <2>1, <2>2 DEF Release
<1> QED
  BY <1>2, <1>3, <1>4, <1>5 DEF Next

(* The semaphore implements the safety half of the gate.                    *)
THEOREM ImplementsGate == Spec => GateSafety
  BY InitGate, NextGate, SemaphoreAccounts, PTL DEF Spec, GateSafety, Gate!GateSafety

(* The channel's length is the number of callers between their send and their *)
(* receive, at every interleaving: no path of Acquire, TryAcquire or Release  *)
(* leaks a token or gives one back twice.                                     *)
THEOREM SlotsAreExact == Spec => []SlotsAccounted
<1>1. SemInv => SlotsAccounted
  BY DEF SemInv
<1> QED
  BY <1>1, SemaphoreAccounts, PTL

-----------------------------------------------------------------------------
(* How far the documentation is from the code *)

LEMMA PartCounts ==
  ASSUME NEW S, NEW T, S \cap T = {}
  PROVE  Cardinality(At(S \cup T)) = Cardinality(At(S)) + Cardinality(At(T))
<1>1. At(S \cup T) = At(S) \cup At(T) /\ At(S) \cap At(T) = {}
  BY DEF At
<1>2. Cardinality(At(S) \cup At(T)) =
        Cardinality(At(S)) + Cardinality(At(T)) - Cardinality(At(S) \cap At(T))
  BY AtFinite, FS_Union
<1>3. Cardinality(At(S) \cap At(T)) = 0
  BY <1>1, FS_EmptySet, Zenon
<1>4. Cardinality(At(S)) \in Nat /\ Cardinality(At(T)) \in Nat
  BY AtFinite, Zenon
<1>5. Cardinality(At(S \cup T)) = Cardinality(At(S) \cup At(T))
  BY <1>1, Zenon
<1> QED
  BY <1>2, <1>3, <1>4, <1>5

(* Borrowers that have a token and are not yet in depth. *)
LookingPhases == {"tryTaken", "tryRelen", "tryBack", "tryCount"}

(* "never while another caller is queued in Acquire" (TryAcquire) is not    *)
(* true, but nearly: a borrower that keeps its slot, nothing having changed *)
(* the depth it re-read, passes no more queued callers than there are       *)
(* borrowers looking, itself included; alone, it passes one.                *)
BorrowMissesFew ==
  [][\A c \in Callers :
       pc[c] = "tryRelen" /\ pc'[c] = "tryCount" /\ loaded[c] = depth
       => Cardinality(Waiting) <= Cardinality(At(LookingPhases))]_vars

(* The second look of TryAcquire misses one queued caller for each borrower *)
(* looking at the same time, and no more.                                   *)
THEOREM BorrowersPassFew == Spec => BorrowMissesFew
<1>1. SemInv /\ [Next]_vars =>
        [\A c \in Callers :
           pc[c] = "tryRelen" /\ pc'[c] = "tryCount" /\ loaded[c] = depth
           => Cardinality(Waiting) <= Cardinality(At(LookingPhases))]_vars
  <2> SUFFICES ASSUME SemInv, Next, NEW c \in Callers,
                      pc[c] = "tryRelen", pc'[c] = "tryCount", loaded[c] = depth
               PROVE  Cardinality(Waiting) <= Cardinality(At(LookingPhases))
    OBVIOUS
  <2>1. PICK d \in Callers : Acquire(d) \/ TryAcquire(d) \/ Release(d)
    BY DEF Next
  <2>2. pc \in [Callers -> Phases]
    BY DEF SemInv, TypeOK
  <2>3. d = c /\ TrySecondLook(d)
    BY <2>1, <2>2 DEF Acquire, TryAcquire, Release, Go,
         AcquireRejected, AnswerRejected, AcquireCheck, AcquireEnqueue, ContextDone,
         AcquireTake, AcquireCancelled, AcquireLeave, TryStart, TryFirstLook, TryTake,
         TryGiveUp, TryReload, TrySecondLook, TryHandBack, TryCount, ReleaseSlot, ReleaseDepth
  <2>4. depth \in Nat /\ slots \in Nat
    BY SemaphoreAssumption DEF SemInv, TypeOK, Capacity
  <2>5. ~(Waiters(c) > 0)
    BY <2>2, <2>3 DEF TrySecondLook, Go
  <2>6. depth <= slots
    BY <2>4, <2>5 DEF Waiters
  <2> DEFINE Going == {"leaving", "releasing"}
  <2>7. depth = Cardinality(Holders) + Cardinality(Waiting) + Cardinality(At(Going))
    <3>1. /\ DepthPhases = (HeldPhases \cup QueuedPhases) \cup Going
          /\ (HeldPhases \cup QueuedPhases) \cap Going = {}
          /\ HeldPhases \cap QueuedPhases = {}
      BY DEF DepthPhases, HeldPhases, QueuedPhases
    <3>2. Cardinality(InDepth) = Cardinality(At(HeldPhases \cup QueuedPhases)) + Cardinality(At(Going))
      BY <3>1, PartCounts DEF InDepth
    <3>3. Cardinality(At(HeldPhases \cup QueuedPhases)) = Cardinality(Holders) + Cardinality(Waiting)
      BY <3>1, PartCounts DEF Holders, Waiting
    <3> QED
      BY <3>2, <3>3 DEF SemInv, DepthAccounted
  <2>8. slots = Cardinality(Holders) + Cardinality(At(LookingPhases))
    <3>1. SlotPhases = HeldPhases \cup LookingPhases /\ HeldPhases \cap LookingPhases = {}
      BY DEF SlotPhases, HeldPhases, LookingPhases
    <3> QED
      BY <3>1, PartCounts DEF InSlot, Holders, SemInv, SlotsAccounted
  <2>9. {Cardinality(Holders), Cardinality(Waiting), Cardinality(At(Going)),
         Cardinality(At(LookingPhases))} \subseteq Nat
    BY AtFinite DEF Holders, Waiting
  <2> QED
    BY <2>6, <2>7, <2>8, <2>9
<1> QED
  BY <1>1, SemaphoreAccounts, PTL DEF Spec, BorrowMissesFew

(* "It cannot push an adjudication past queue_max" (DeepReader.Scan) is not *)
(* true either; what is true is that running borrowers take at most         *)
(* max_inflight of the queue_max places, so that an adjudication is         *)
(* rejected on account of at least queue_max - max_inflight other callers.  *)
RejectedByFewBorrowers ==
  [][\A c \in Callers :
       pc[c] = "idle" /\ pc'[c] = "rejected"
       => Cardinality(InDepth \ At({"reading"})) >= QueueMax - Capacity]_vars

(* A rejection by queue_max is at most max_inflight places early.           *)
THEOREM BorrowersTakeFewPlaces == Spec => RejectedByFewBorrowers
<1>1. SemInv =>
        (Cardinality(InDepth) >= QueueMax
           => Cardinality(InDepth \ At({"reading"})) >= QueueMax - Capacity)
  <2> SUFFICES ASSUME SemInv, Cardinality(InDepth) >= QueueMax
               PROVE  Cardinality(InDepth \ At({"reading"})) >= QueueMax - Capacity
    OBVIOUS
  <2>1. At({"reading"}) \subseteq Holders
    BY DEF At, Holders, HeldPhases
  <2>2. Cardinality(At({"reading"})) <= Capacity
    <3>1. Cardinality(Holders) <= Capacity
      BY SemInvBounds DEF InflightBounded
    <3>2. Cardinality(At({"reading"})) <= Cardinality(Holders)
      BY <2>1, AtFinite, FS_Subset DEF Holders
    <3> QED
      BY <3>1, <3>2, AtFinite, SemaphoreAssumption DEF Holders, Capacity
  <2>3. /\ IsFiniteSet(InDepth) /\ Cardinality(InDepth) \in Nat
        /\ Cardinality(At({"reading"})) \in Nat
    BY AtFinite DEF InDepth
  <2>4. InDepth \cap At({"reading"}) = At({"reading"})
    BY DEF InDepth, At, DepthPhases, HeldPhases
  <2>5. Cardinality(InDepth \ At({"reading"})) = Cardinality(InDepth) - Cardinality(At({"reading"}))
    BY <2>3, <2>4, FS_Difference
  <2> QED
    BY <2>2, <2>3, <2>5, SemaphoreAssumption DEF Capacity
<1>2. SemInv /\ [\A c \in Callers : pc[c] = "idle" /\ pc'[c] = "rejected"
                   => Cardinality(InDepth) >= QueueMax]_vars =>
        [\A c \in Callers : pc[c] = "idle" /\ pc'[c] = "rejected"
           => Cardinality(InDepth \ At({"reading"})) >= QueueMax - Capacity]_vars
  BY <1>1
<1> QED
  BY <1>2, SemaphoreAccounts, RejectionsAreEarned, PTL
     DEF RejectedOnlyUnderLoad, RejectedByFewBorrowers
=============================================================================
