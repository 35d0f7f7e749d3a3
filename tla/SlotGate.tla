------------------------------- MODULE SlotGate -------------------------------
(***************************************************************************)
(* What a slot gate promises the goroutines that share it, with none of    *)
(* its machinery: at most Capacity of them are in, a caller that queues is *)
(* let in or leaves, and a borrower comes and goes without ever queueing.  *)
(* LLMSemaphore (the LLM slots) and DetectorRun (the subprocess slots)     *)
(* each implement it.                                                      *)
(***************************************************************************)
EXTENDS Naturals, FiniteSets

CONSTANTS Callers,   \* the goroutines that use the gate
          Capacity   \* how many of them may be in at once

VARIABLES queued,    \* callers waiting for a slot
          holders    \* callers to which the gate has answered yes

gateVars == <<queued, holders>>

GateInit ==
  /\ queued = {}
  /\ holders = {}

HasRoom == Cardinality(holders) < Capacity

Enqueue(c) ==
  /\ c \notin queued \cup holders
  /\ queued' = queued \cup {c}
  /\ UNCHANGED holders

Admit(c) ==
  /\ c \in queued
  /\ HasRoom
  /\ queued' = queued \ {c}
  /\ holders' = holders \cup {c}

Abandon(c) ==
  /\ c \in queued
  /\ queued' = queued \ {c}
  /\ UNCHANGED holders

Borrow(c) ==
  /\ c \notin queued \cup holders
  /\ HasRoom
  /\ holders' = holders \cup {c}
  /\ UNCHANGED queued

Return(c) ==
  /\ c \in holders
  /\ holders' = holders \ {c}
  /\ UNCHANGED queued

GateNext ==
  \E c \in Callers : Enqueue(c) \/ Admit(c) \/ Abandon(c) \/ Borrow(c) \/ Return(c)

(* The safety half of the promise. *)
GateSafety == GateInit /\ [][GateNext]_gateVars

(* The whole promise: holders give back, and a queued caller is answered. *)
GateSpec ==
  /\ GateSafety
  /\ \A c \in Callers : WF_gateVars(Return(c)) /\ WF_gateVars(Admit(c) \/ Abandon(c))
=============================================================================
