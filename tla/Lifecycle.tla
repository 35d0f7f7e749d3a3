----------------------------- MODULE Lifecycle ------------------------------
(***************************************************************************)
(* The process from start to exit: Serve (app.go) builds the watcher, the  *)
(* audit log, the servers and their listeners in a goroutine of its own;   *)
(* the serve command (cli/serve.go) waits for a signal or for Serve's      *)
(* error and then runs Shutdown, which may overlap a Serve still building. *)
(* A nil field is skipped by Shutdown and may be set by Serve just after;  *)
(* the fields are not synchronised, so a read finds either.                *)
(***************************************************************************)
EXTENDS Integers

CONSTANTS Conns,        \* connections, each with one /check request
          HostListener  \* tailscale is enabled without listen_only

ASSUME LifecycleAssumption == HostListener \in BOOLEAN

Servers == {"main", "host"}
After == [main |-> "host", host |-> "watcher"]

VARIABLES serve,    \* where Serve stands
          main,     \* where the serve command stands, a server: draining it
          srv,      \* each http.Server
          watcher, auditFile,
          conn,     \* each connection
          on,       \* the server it was accepted on
          expired,  \* has the deadline given to Shutdown passed?
          early,    \* did the signal come before Serve had everything up?
          log,      \* connections with an entry in the audit log
          lost      \* those whose entry could not be written

vars == <<serve, main, srv, watcher, auditFile, conn, on, expired, early, log, lost>>
command == <<main, expired, early>>
requests == <<conn, on, log, lost>>

Done == {c \in Conns : conn[c] = "done"}
Busy(s) == {c \in Conns : on[c] = s /\ conn[c] \in {"active", "answered"}}

(* An entry is written at the end of its request. *)
TypeOK ==
  /\ serve \in {"build", "made", "watching", "audited", "server", "listening",
                "serving", "failed"}
  /\ main \in Servers \cup {"waiting", "watcher", "stopping", "audit", "exit", "exited"}
  /\ srv \in [Servers -> {"none", "made", "serving", "broken", "closed"}]
  /\ watcher \in {"none", "made", "running", "stopped"}
  /\ auditFile \in {"none", "open", "closed"}
  /\ conn \in [Conns -> {"none", "active", "answered", "done"}]
  /\ on \in [Conns -> Servers \cup {"none"}]
  /\ expired \in BOOLEAN /\ early \in BOOLEAN
  /\ log \subseteq Done /\ lost \subseteq Done /\ log \cap lost = {}

Init ==
  /\ serve = "build" /\ main = "waiting"
  /\ srv = [s \in Servers |-> "none"]
  /\ watcher = "none" /\ auditFile = "none"
  /\ conn = [c \in Conns |-> "none"] /\ on = [c \in Conns |-> "none"]
  /\ expired = FALSE /\ early = FALSE /\ log = {} /\ lost = {}

Alive == main # "exited"

-----------------------------------------------------------------------------
(* Serve.                                                                  *)
Serve(from, to) == Alive /\ serve = from /\ serve' = to

MakeWatcher ==
  /\ Serve("build", "made")
  /\ watcher' = "made"
  /\ UNCHANGED <<command, srv, auditFile, requests>>

StartWatcher ==
  /\ Serve("made", "watching")
  /\ watcher' = "running"
  /\ UNCHANGED <<command, srv, auditFile, requests>>

OpenAudit ==
  /\ Serve("watching", "audited")
  /\ auditFile' = "open"
  /\ UNCHANGED <<command, srv, watcher, requests>>

MakeServer ==
  /\ Serve("audited", "server")
  /\ srv' = [srv EXCEPT !["main"] = "made"]
  /\ UNCHANGED <<command, watcher, auditFile, requests>>

Listen ==
  /\ Serve("server", "listening")
  /\ srv' = [srv EXCEPT !["host"] = IF HostListener THEN "made" ELSE "none"]
  /\ UNCHANGED <<command, watcher, auditFile, requests>>

(* The main server serves in Serve's goroutine, the host server in one of   *)
(* its own.  A server that was shut down before does not start.             *)
ServeMain ==
  /\ Serve("listening", "serving")
  /\ srv' = [srv EXCEPT !["main"] = IF @ = "made" THEN "serving" ELSE @]
  /\ UNCHANGED <<command, watcher, auditFile, requests>>

ServeHost ==
  /\ Alive /\ srv["host"] = "made"
  /\ srv' = [srv EXCEPT !["host"] = "serving"]
  /\ UNCHANGED <<serve, command, watcher, auditFile, requests>>

(* Detectors, templates, the audit file, the API or a listener cannot be had. *)
ServeFails ==
  /\ \E step \in {"build", "watching", "audited", "server"} : Serve(step, "failed")
  /\ UNCHANGED <<command, srv, watcher, auditFile, requests>>

(* Accepting fails: Serve returns the error, the host goroutine logs it. *)
Crash(s) ==
  /\ Alive /\ srv[s] = "serving"
  /\ srv' = [srv EXCEPT ![s] = "broken"]
  /\ serve' = IF s = "main" THEN "failed" ELSE serve
  /\ UNCHANGED <<command, watcher, auditFile, requests>>

-----------------------------------------------------------------------------
(* Requests.                                                               *)
Accept(c, s) ==
  /\ Alive /\ srv[s] = "serving" /\ conn[c] = "none"
  /\ conn' = [conn EXCEPT ![c] = "active"]
  /\ on' = [on EXCEPT ![c] = s]
  /\ UNCHANGED <<serve, command, srv, watcher, auditFile, log, lost>>

Answer(c) ==
  /\ Alive /\ conn[c] = "active"
  /\ conn' = [conn EXCEPT ![c] = "answered"]
  /\ UNCHANGED <<serve, command, srv, watcher, auditFile, on, log, lost>>

(* Any answer but a 200 leaves no entry. *)
AnswerError(c) ==
  /\ Alive /\ conn[c] = "active"
  /\ conn' = [conn EXCEPT ![c] = "done"]
  /\ UNCHANGED <<serve, command, srv, watcher, auditFile, on, log, lost>>

WriteAudit(c) ==
  /\ Alive /\ conn[c] = "answered"
  /\ conn' = [conn EXCEPT ![c] = "done"]
  /\ IF auditFile = "open" THEN log' = log \cup {c} /\ UNCHANGED lost
                           ELSE lost' = lost \cup {c} /\ UNCHANGED log
  /\ UNCHANGED <<serve, command, srv, watcher, auditFile, on>>

-----------------------------------------------------------------------------
(* The serve command.                                                      *)
Command(from, to) == main = from /\ main' = to

Up == \A s \in Servers : srv[s] = "serving" \/ (s = "host" /\ ~HostListener)

Signal ==
  /\ Command("waiting", "main")
  /\ early' = ~Up
  /\ UNCHANGED <<serve, srv, watcher, auditFile, requests, expired>>

(* The error of Serve ends the process without a Shutdown. *)
ExitOnError ==
  /\ serve = "failed"
  /\ Command("waiting", "exited")
  /\ UNCHANGED <<serve, srv, watcher, auditFile, requests, expired, early>>

Deadline ==
  /\ main \in Servers /\ ~expired /\ expired' = TRUE
  /\ UNCHANGED <<serve, main, srv, watcher, auditFile, requests, early>>

(* http.Server.Shutdown stops accepting and then waits for its requests. *)
BeginDrain(s) ==
  /\ main = s /\ srv[s] \in {"made", "serving", "broken"}
  /\ srv' = [srv EXCEPT ![s] = "closed"]
  /\ UNCHANGED <<serve, command, watcher, auditFile, requests>>

(* Faulty: the drain has no deadline. *)
EndDrainWhenIdle(s) ==
  /\ Command(s, After[s])
  /\ srv[s] = "none" \/ (srv[s] = "closed" /\ Busy(s) = {})
  /\ UNCHANGED <<serve, srv, watcher, auditFile, requests, expired, early>>

(* Faulty: the main server only, whatever runs on the other. *)
EndDrainOfMain(s) ==
  /\ Command(s, After[s])
  /\ srv[s] = "none" \/ (srv[s] = "closed" /\ (Busy("main") = {} \/ expired))
  /\ UNCHANGED <<serve, srv, watcher, auditFile, requests, expired, early>>

(* Faulty: a drain that ends with an error ends the shutdown. *)
EndDrainGivesUp(s) ==
  /\ Command(s, IF Busy(s) = {} THEN After[s] ELSE "exit")
  /\ srv[s] = "none" \/ (srv[s] = "closed" /\ (Busy(s) = {} \/ expired))
  /\ UNCHANGED <<serve, srv, watcher, auditFile, requests, expired, early>>

(* An error, the deadline's included, is kept for the end. *)
EndDrain(s) ==
  /\ Command(s, After[s])
  /\ srv[s] = "none" \/ (srv[s] = "closed" /\ (Busy(s) = {} \/ expired))
  /\ UNCHANGED <<serve, srv, watcher, auditFile, requests, expired, early>>

(* Stop waits for the watcher's goroutine, one not yet started included,    *)
(* and whatever the deadline.                                               *)
StopWatcher ==
  /\ Command("watcher", IF watcher = "none" THEN "audit" ELSE "stopping")
  /\ UNCHANGED <<serve, srv, watcher, auditFile, requests, expired, early>>

WatcherStops ==
  /\ watcher = "running"
  /\ Command("stopping", "audit")
  /\ watcher' = "stopped"
  /\ UNCHANGED <<serve, srv, auditFile, requests, expired, early>>

CloseAudit ==
  /\ Command("audit", "exit")
  /\ auditFile' = IF auditFile = "open" THEN "closed" ELSE auditFile
  /\ UNCHANGED <<serve, srv, watcher, requests, expired, early>>

Exit ==
  /\ Command("exit", "exited")
  /\ UNCHANGED <<serve, srv, watcher, auditFile, requests, expired, early>>

-----------------------------------------------------------------------------
Build == MakeWatcher \/ StartWatcher \/ OpenAudit \/ MakeServer \/ Listen \/ ServeMain
Request(c) == Answer(c) \/ AnswerError(c) \/ WriteAudit(c)
Shutdown ==
  \/ \E s \in Servers : BeginDrain(s) \/ EndDrain(s)
  \/ StopWatcher \/ WatcherStops \/ CloseAudit \/ Exit

Next ==
  \/ Build \/ ServeHost \/ ServeFails \/ (\E s \in Servers : Crash(s))
  \/ \E c \in Conns : Request(c) \/ (\E s \in Servers : Accept(c, s))
  \/ Signal \/ ExitOnError \/ Deadline \/ Shutdown

(* Goroutines run and the deadline passes; handlers need not end. *)
Spec == Init /\ [][Next]_vars
FairSpec ==
  Spec /\ WF_vars(Build) /\ WF_vars(ServeHost) /\ WF_vars(Shutdown) /\ WF_vars(Deadline)

-----------------------------------------------------------------------------
InTime == ~early /\ ~expired

(* Shutdown in time cuts no request short and closes the audit log after    *)
(* the last entry: a server accepts up to its own turn, and the log waits   *)
(* for both (app.go:40-72).                                                 *)
NothingLostInTime ==
  (main = "exit" /\ InTime) =>
    (\A s \in Servers : Busy(s) = {}) /\ lost = {}

(* What Shutdown began to look at with everything up is stopped and closed  *)
(* when it is done, the deadline notwithstanding (app.go:40-72).            *)
AllClosed ==
  (main = "exit" /\ ~early) =>
    /\ \A s \in Servers : srv[s] \in {"none", "closed"}
    /\ watcher = "stopped" /\ auditFile = "closed"

(* A signal ends the process though its handlers never end, in the middle   *)
(* of Serve's construction too (serve.go:42-44).                            *)
SignalEnds == (main \in Servers) ~> (main = "exited")
=============================================================================
