------------------------- MODULE ReachabilityProofs -------------------------
(***************************************************************************)
(* How far readiness may lag behind the backend, for any interval, answer  *)
(* time and pause.  The invariant bounds, wherever the goroutine stands,   *)
(* how long ago the backend can have changed without the cache knowing.    *)
(***************************************************************************)
EXTENDS Reachability, TLAPS

(* How long the goroutine has been where it is. *)
Prompt ==
  /\ loop \in {"started", "answered", "waiting"} => waited <= MaxPause
  /\ loop = "probing" => waited <= Interval
  /\ (loop = "probing" /\ UpThroughout) => waited <= MaxProbe
  /\ loop = "started" => since <= waited

(* How old the cache is: a tick comes within an interval of a stamp. *)
Fresh ==
  /\ reachable => age # -1
  /\ loop = "started" => age = -1
  /\ loop = "waiting" =>
       /\ age >= 0 /\ toTick >= 1
       /\ IF tick THEN age <= Interval + waited ELSE toTick + age <= Interval
  /\ loop = "probing" => age <= Interval + MaxPause + waited
  /\ (loop = "answered" /\ up /\ since > Interval + waited)
       => age <= Interval + MaxPause + MaxProbe + waited

(* How long ago the change was that the cache, or the answer about to be    *)
(* cached, does not know of.                                                *)
UpKnown ==
  up /\ ~reachable =>
    /\ loop = "waiting" => since <= Interval + MaxPause + age
    /\ (loop = "probing" /\ since > waited)
         => since <= 2 * Interval + 2 * MaxPause + waited
    /\ loop = "answered" => since <= 2 * Interval + 2 * MaxPause + MaxProbe + waited

DownKnown ==
  ~up /\ reachable =>
    /\ (loop = "probing" /\ since > waited)
         => since <= 2 * Interval + 2 * MaxPause + waited
    /\ loop = "answered" => since <= 3 * Interval + 2 * MaxPause + waited
    /\ age <= Stale => since <= Interval + MaxPause + age

Answered ==
  loop = "answered" /\ ~(answer <=> up) => since <= Interval + waited

ClockInv ==
  /\ TypeOK /\ Prompt /\ Fresh /\ UpKnown /\ DownKnown /\ Answered
  /\ loop = "exited" => stop

USE ReachabilityAssumption
    DEF Stale, UpNotice, DownNotice, WedgedNotice, Horizon, cache, ticker, backend

-----------------------------------------------------------------------------
LEMMA InitClock == Init => ClockInv
<1> SUFFICES ASSUME Init PROVE ClockInv
  OBVIOUS
<1>1. TypeOK
  <2>1. answer \in BOOLEAN /\ reachable \in BOOLEAN /\ tick \in BOOLEAN /\ stop \in BOOLEAN
    BY Zenon DEF Init
  <2> QED
    BY <2>1 DEF Init, TypeOK
<1>2. Prompt /\ Answered
  BY DEF Init, Prompt, Answered, UpThroughout
<1>3. Fresh
  BY DEF Init, Fresh
<1>4. UpKnown /\ DownKnown
  BY DEF Init, UpKnown, DownKnown
<1> QED
  BY <1>1, <1>2, <1>3, <1>4 DEF ClockInv, Init

LEMMA NextClock == ClockInv /\ [Next]_vars => ClockInv'
<1> SUFFICES ASSUME ClockInv, [Next]_vars
             PROVE  ClockInv'
  OBVIOUS
<1> USE DEF ClockInv, TypeOK, Prompt, Fresh, UpKnown, DownKnown, Answered, UpThroughout, Go
<1>1. CASE FirstProbe
  BY <1>1 DEF FirstProbe
<1>2. ASSUME NEW ok \in BOOLEAN, Answer(ok)
      PROVE  ClockInv'
  BY <1>2 DEF Answer
<1>3. CASE Stamp
  BY <1>3 DEF Stamp
<1>4. CASE TakeTick
  <2> USE <1>4 DEF TakeTick
  <2>1. TypeOK'
    <3>1. tick' \in BOOLEAN
      BY Zenon
    <3> QED
      BY <3>1
  <2>2. Prompt' /\ Fresh' /\ Answered'
    OBVIOUS
  <2>3. UpKnown'
    OBVIOUS
  <2>4. DownKnown'
    OBVIOUS
  <2> QED
    BY <2>1, <2>2, <2>3, <2>4
<1>5. CASE Exit
  <2>1. tick' \in BOOLEAN
    BY <1>5, Zenon DEF Exit
  <2> QED
    BY <1>5, <2>1 DEF Exit
<1>6. CASE Stop
  BY <1>6 DEF Stop
<1>7. CASE Flip
  BY <1>7 DEF Flip
<1>8. CASE Tick
  <2> USE <1>8 DEF Tick, NothingDue, Runnable, Upto
  <2>1. TypeOK'
    <3>1. tick' \in BOOLEAN
      BY Zenon
    <3> QED
      BY <3>1
  <2>2. Prompt'
    OBVIOUS
  <2>3. Fresh'
    <3>1. loop # "waiting" => Fresh'
      OBVIOUS
    <3>2. CASE loop = "waiting" /\ tick
      <4>1. tick'
        BY <3>2, Zenon
      <4>2. toTick' >= 1
        BY <3>2
      <4>3. waited' = waited + 1
        BY <3>2
      <4>4. age' = age + 1
        BY <3>2
      <4> QED
        BY <3>2, <4>1, <4>2, <4>3, <4>4
    <3>3. CASE loop = "waiting" /\ ~tick
      <4>1. tick' <=> toTick = 1
        BY <3>3
      <4>2. age' = age + 1 /\ age' <= Interval
        BY <3>3
      <4>3. waited' >= 0 /\ toTick' >= 1 /\ (toTick # 1 => toTick' = toTick - 1)
        BY <3>3
      <4> QED
        BY <3>3, <4>1, <4>2, <4>3
    <3> QED
      BY <3>1, <3>2, <3>3
  <2>4. UpKnown'
    OBVIOUS
  <2>5. DownKnown'
    OBVIOUS
  <2>6. Answered' /\ (loop = "exited" => stop)'
    OBVIOUS
  <2> QED
    BY <2>1, <2>2, <2>3, <2>4, <2>5, <2>6
<1>9. CASE UNCHANGED vars
  BY <1>9 DEF vars
<1> QED
  BY <1>1, <1>2, <1>3, <1>4, <1>5, <1>6, <1>7, <1>8, <1>9 DEF Next, Goroutine

LEMMA ClockInvariant == Spec => []ClockInv
  BY InitClock, NextClock, PTL DEF Spec

-----------------------------------------------------------------------------
(* Readiness follows a backend that is up, and stays. *)
THEOREM UpIsSeen == Spec => []UpIsNoticed
<1>1. ClockInv => UpIsNoticed
  BY DEF ClockInv, TypeOK, Prompt, Fresh, UpKnown, UpThroughout, UpIsNoticed, Ready
<1> QED
  BY <1>1, ClockInvariant, PTL

(* It falls with a backend that is down. *)
THEOREM DownIsSeen == Spec => []DownIsNoticed
<1>1. ClockInv => DownIsNoticed
  BY DEF ClockInv, TypeOK, Prompt, Fresh, DownKnown, DownIsNoticed, Ready
<1> QED
  BY <1>1, ClockInvariant, PTL

(* It falls without a watcher, too. *)
THEOREM WedgedIsSeen == Spec => []WedgedIsNoticed
<1>1. ClockInv => WedgedIsNoticed
  BY DEF ClockInv, TypeOK, DownKnown, WedgedIsNoticed, Ready
<1> QED
  BY <1>1, ClockInvariant, PTL

(* The clocks keep their bounds: of these, that a probe is no longer than its *)
(* timeout and the stamp no older than counted is what the rest is about.     *)
THEOREM ClocksTyped == Spec => []TypeOK
<1>1. ClockInv => TypeOK
  BY DEF ClockInv
<1> QED
  BY <1>1, ClockInvariant, PTL
=============================================================================
