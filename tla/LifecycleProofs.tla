--------------------------- MODULE LifecycleProofs --------------------------
(***************************************************************************)
(* What the shutdown keeps, for any number of connections and with or      *)
(* without a host listener.                                                *)
(***************************************************************************)
EXTENDS Lifecycle, TLAPS

(* The serve command is through with a server. *)
Past(s) ==
  main \in {"watcher", "stopping", "audit", "exit"} \cup (IF s = "main" THEN {"host"} ELSE {})

(* What Serve has made by the time there is a server to accept with. *)
Built ==
  /\ serve \in {"build", "made"} => srv["main"] = "none" /\ srv["host"] = "none"
  /\ serve \in {"watching", "audited", "server", "listening", "serving"}
       => watcher \in {"running", "stopped"}
  /\ serve \in {"audited", "server", "listening", "serving"} => auditFile # "none"
  /\ srv["main"] \in {"serving", "broken"} => serve \in {"serving", "failed"}
  /\ (srv["main"] # "none" \/ srv["host"] # "none")
       => auditFile # "none" /\ watcher \in {"running", "stopped"}
  /\ srv["host"] # "none" => HostListener

(* Who is served was accepted by a server that had been made. *)
Accepted ==
  \A c \in Conns : conn[c] # "none" =>
    on[c] \in Servers /\ srv[on[c]] # "none" /\ auditFile # "none"

(* A signal that finds everything up: nothing is made any more, and each    *)
(* server is closed in its turn.                                            *)
InTurn ==
  main \notin {"waiting", "exited"} /\ ~early =>
    /\ serve \in {"serving", "failed"}
    /\ srv["main"] \notin {"none", "made"} /\ srv["host"] # "made"
    /\ \A s \in Servers : Past(s) => srv[s] \in {"none", "closed"}
    /\ main \in {"audit", "exit"} => watcher = "stopped"
    /\ main = "exit" => auditFile = "closed"

(* In time, it has no request left that could write an entry too late. *)
Drained ==
  InTime => lost = {} /\ \A s \in Servers : Past(s) => Busy(s) = {}

ShutdownInv ==
  /\ TypeOK /\ Built /\ Accepted /\ InTurn /\ Drained
  /\ main = "waiting" => InTime
  /\ auditFile = "closed" => main \in {"exit", "exited"}

USE DEF command, requests, Servers, After

-----------------------------------------------------------------------------
LEMMA InitShutdown == Init => ShutdownInv
  BY DEF Init, ShutdownInv, TypeOK, Built, Accepted, InTurn, Drained, Past, Busy, Done, InTime

(* Serve and its servers. *)
LEMMA ServeKeeps ==
  ShutdownInv /\ (Build \/ ServeHost \/ ServeFails \/ \E s \in Servers : Crash(s))
    => ShutdownInv'
<1> SUFFICES ASSUME ShutdownInv, Build \/ ServeHost \/ ServeFails \/ \E s \in Servers : Crash(s)
             PROVE  ShutdownInv'
  OBVIOUS
<1> USE DEF ShutdownInv, TypeOK, Built, Accepted, InTurn, Drained, Past, Busy, Done, InTime,
            Alive, Serve
<1>1. CASE MakeWatcher
  BY <1>1 DEF MakeWatcher
<1>2. CASE StartWatcher
  BY <1>2 DEF StartWatcher
<1>3. CASE OpenAudit
  BY <1>3 DEF OpenAudit
<1>4. CASE MakeServer
  BY <1>4 DEF MakeServer
<1>5. CASE Listen
  BY <1>5, LifecycleAssumption DEF Listen
<1>6. CASE ServeMain
  BY <1>6 DEF ServeMain
<1>7. CASE ServeHost
  BY <1>7 DEF ServeHost
<1>8. CASE ServeFails
  BY <1>8 DEF ServeFails
<1>9. CASE \E s \in Servers : Crash(s)
  BY <1>9 DEF Crash
<1> QED
  BY <1>1, <1>2, <1>3, <1>4, <1>5, <1>6, <1>7, <1>8, <1>9 DEF Build

(* Requests: none is accepted by a server whose turn has come. *)
LEMMA RequestKeeps ==
  ShutdownInv /\ (\E c \in Conns : Request(c) \/ \E s \in Servers : Accept(c, s))
    => ShutdownInv'
<1> SUFFICES ASSUME ShutdownInv, NEW c \in Conns, Request(c) \/ \E s \in Servers : Accept(c, s)
             PROVE  ShutdownInv'
  OBVIOUS
<1> USE DEF ShutdownInv, TypeOK, Built, Accepted, InTurn, Drained, Past, Busy, Done, InTime, Alive
<1>1. CASE Answer(c)
  BY <1>1 DEF Answer
<1>2. CASE AnswerError(c)
  BY <1>2 DEF AnswerError
<1>3. CASE WriteAudit(c)
  <2>1. InTime => auditFile = "open"
    BY <1>3 DEF WriteAudit
  <2> QED
    BY <1>3, <2>1 DEF WriteAudit
<1>4. ASSUME NEW s \in Servers, Accept(c, s)
      PROVE  ShutdownInv'
  BY <1>4 DEF Accept
<1> QED
  BY <1>1, <1>2, <1>3, <1>4 DEF Request

(* The serve command. *)
LEMMA CommandKeeps ==
  ShutdownInv /\ (Signal \/ ExitOnError \/ Deadline \/ Shutdown) => ShutdownInv'
<1> SUFFICES ASSUME ShutdownInv, Signal \/ ExitOnError \/ Deadline \/ Shutdown
             PROVE  ShutdownInv'
  OBVIOUS
<1> USE DEF ShutdownInv, TypeOK, Built, Accepted, InTurn, Drained, Past, Busy, Done, InTime, Command
<1>1. CASE Signal
  BY <1>1 DEF Signal, Up
<1>2. CASE ExitOnError
  BY <1>2 DEF ExitOnError
<1>3. CASE Deadline
  BY <1>3 DEF Deadline
<1>4. ASSUME NEW s \in Servers, BeginDrain(s)
      PROVE  ShutdownInv'
  BY <1>4 DEF BeginDrain
<1>5. ASSUME NEW s \in Servers, EndDrain(s)
      PROVE  ShutdownInv'
  BY <1>5 DEF EndDrain
<1>6. CASE StopWatcher
  BY <1>6 DEF StopWatcher
<1>7. CASE WatcherStops
  BY <1>7 DEF WatcherStops
<1>8. CASE CloseAudit
  BY <1>8 DEF CloseAudit
<1>9. CASE Exit
  BY <1>9 DEF Exit
<1> QED
  BY <1>1, <1>2, <1>3, <1>4, <1>5, <1>6, <1>7, <1>8, <1>9 DEF Shutdown

LEMMA ShutdownInvariant == Spec => []ShutdownInv
<1>1. ShutdownInv /\ UNCHANGED vars => ShutdownInv'
  BY DEF ShutdownInv, TypeOK, Built, Accepted, InTurn, Drained, Past, Busy, Done, InTime, vars
<1>2. ShutdownInv /\ [Next]_vars => ShutdownInv'
  BY <1>1, ServeKeeps, RequestKeeps, CommandKeeps DEF Next
<1> QED
  BY <1>2, InitShutdown, PTL DEF Spec

-----------------------------------------------------------------------------
(* A shutdown within its deadline cuts no request and loses no audit entry. *)
THEOREM ShutdownLosesNothing == Spec => []NothingLostInTime
<1>1. ShutdownInv => NothingLostInTime
  BY DEF ShutdownInv, Drained, NothingLostInTime, Past
<1> QED
  BY <1>1, ShutdownInvariant, PTL

(* A shutdown leaves nothing open, whatever became of its deadline. *)
THEOREM ShutdownClosesAll == Spec => []AllClosed
<1>1. ShutdownInv => AllClosed
  BY DEF ShutdownInv, InTurn, AllClosed, Past
<1> QED
  BY <1>1, ShutdownInvariant, PTL

(* Serve, its servers and its requests are always in a phase they have. *)
THEOREM PhasesTyped == Spec => []TypeOK
<1>1. ShutdownInv => TypeOK
  BY DEF ShutdownInv
<1> QED
  BY <1>1, ShutdownInvariant, PTL
=============================================================================
