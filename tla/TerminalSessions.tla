-------------------------- MODULE TerminalSessions --------------------------
(***************************************************************************)
(* The managed terminals of terminal.py: the worker threads of the MCP     *)
(* server (and the collectors of Discovery) operating tmux sessions, one   *)
(* per device and namespace, on one dedicated tmux server.  An operation   *)
(* holds its session's lock from beginning to end, but every tmux command  *)
(* in it is a subprocess of its own, and the server, its global options    *)
(* and the bootstrap session that starts it are shared by all sessions.    *)
(*                                                                         *)
(* tmux is external: a server exists while it has a session, a new server  *)
(* has default options and numbers its panes from zero, and a target name  *)
(* that no session has means the only session whose name it begins.        *)
(***************************************************************************)
EXTENDS Naturals, FiniteSets

CONSTANTS
  Name,           (* managed session names: a namespace and a device        *)
  DiscoveryNames, (* those in the Discovery namespace                       *)
  Longer,         (* the session names a session name is a prefix of        *)
  Worker,         (* threads that serve tool calls                          *)
  Bootstrap,      (* the session that only starts the server                *)
  None,           (* no session, no lock holder, no pane                    *)
  InitialServers, (* sessions of a tmux server that is already running      *)
  MaxCalls        (* bound on the calls made                                *)

ASSUME NameAssumption ==
  /\ DiscoveryNames \subseteq Name
  /\ Longer \in [Name -> SUBSET Name]
  /\ \A n \in Name : n \notin Longer[n]
  /\ Bootstrap \notin Name
  /\ None \notin Name \cup Worker \cup Nat

ASSUME BoundAssumption == MaxCalls \in Nat

VARIABLES
  sessions,   (* the tmux sessions, each with its one pane                  *)
  tuned,      (* the server's history-limit has been set                    *)
  nextPane,   (* the number of the server's next pane                       *)
  lock,       (* _session_locks: the holder of each lock                    *)
  worker,     (* what each thread is doing                                  *)
  calls       (* calls made so far                                          *)

vars == <<sessions, tuned, nextPane, lock, worker, calls>>

Ops == {"open", "send", "read", "close"}

(* A pane's transport starts when the launch gate is released; what it     *)
(* shows is what the authentication waits for.                             *)
Pane ==
  [ id      : Nat,
    recorded : BOOLEAN,                      \* @nlm_pane_id is set
    logged  : BOOLEAN,                       \* pipe-pane is attached
    history : BOOLEAN,                       \* created with the history-limit
    gate    : {"pending", "open"},           \* @nlm_gate
    started : BOOLEAN,                       \* the transport was exec'ed
    dead    : BOOLEAN,
    screen  : {"blank", "login", "prompt"} ]

(* The sessions found at the start were created completely, by this        *)
(* version or by one that did not record their panes.                      *)
ASSUME InitialServersAssumption ==
  /\ IsFiniteSet(Name) /\ None \notin Pane
  /\ \A found \in InitialServers :
       /\ found \in [Name \cup {Bootstrap} -> Pane \cup {None}]
       /\ found[Bootstrap] = None
       /\ \A n \in Name : found[n] # None =>
            /\ found[n].started /\ found[n].logged
            /\ found[n].recorded <=> found[n].gate = "open"
            /\ found[n].id < Cardinality({m \in Name : found[m] # None})
            /\ \A m \in Name \ {n} : found[m] # None => found[m].id # found[n].id

Idle == [op |-> "none", name |-> None, at |-> "idle", boot |-> FALSE,
         reused |-> FALSE, target |-> None, left |-> 0]

Steps == {"idle", "waiting", "inspect", "replace", "server", "bootstrap",
          "server_again", "tune", "exists", "create", "configure", "release",
          "open_gate", "unboot", "look", "password", "final", "discard",
          "verify", "deliver", "capture", "kill"}

WorkerState ==
  [ op     : Ops \cup {"none"},
    name   : Name \cup {None},
    at     : Steps,
    boot   : BOOLEAN,                        \* bootstrap_created
    reused : BOOLEAN,
    target : Nat \cup {None},                \* pane id verified for sending
    left   : 0..2 ]                          \* inputs still to deliver

TypeOK ==
  /\ sessions \in [Name \cup {Bootstrap} -> Pane \cup {None}]
  /\ tuned \in BOOLEAN
  /\ nextPane \in Nat
  /\ lock \in [Name -> Worker \cup {None}]
  /\ worker \in [Worker -> WorkerState]
  /\ calls \in 0..MaxCalls
  /\ \A n \in Name, w \in Worker : lock[n] = w <=> /\ worker[w].name = n
                                                  /\ worker[w].at # "waiting"

-----------------------------------------------------------------------------
(* tmux.                                                                   *)

Running == \E n \in Name \cup {Bootstrap} : sessions[n] # None

(* has-session -t name: an exact name, or an unambiguous beginning of one. *)
Resolve(n) ==
  LET begun == {m \in Longer[n] : sessions[m] # None}
  IN IF sessions[n] # None THEN n
     ELSE IF Cardinality(begun) = 1 THEN CHOOSE m \in begun : TRUE
     ELSE None

Exists(n) == Resolve(n) # None
At(n) == sessions[Resolve(n)]

(* What an operation reads of the session a name means.                    *)
Dead(n) == Exists(n) /\ At(n).dead
Recorded(n) == Exists(n) /\ At(n).recorded
Shows(n, screen) == Exists(n) /\ At(n).screen = screen

(* _managed_pane_target(): input is typed only into an identified, living  *)
(* pane past its gate.                                                     *)
Ready(n) == Recorded(n) /\ ~Dead(n) /\ At(n).gate = "open"

NewPane(id) ==
  [ id |-> id, recorded |-> FALSE, logged |-> FALSE,
    history |-> Running /\ tuned, gate |-> "pending", started |-> FALSE,
    dead |-> FALSE, screen |-> "blank" ]

(* new-session starts the server when there is none.                       *)
NewSession(n) ==
  LET id == IF Running THEN nextPane ELSE 0
  IN /\ sessions' = [sessions EXCEPT ![n] = NewPane(id)]
     /\ tuned' = (Running /\ tuned)
     /\ nextPane' = id + 1

(* kill-session: the server exits with its last session.                   *)
KillSession(n) ==
  LET last == \A m \in (Name \cup {Bootstrap}) \ {n} : sessions[m] = None
  IN /\ sessions' = [sessions EXCEPT ![n] = None]
     /\ tuned' = (tuned /\ ~last)
     /\ nextPane' = IF last THEN 0 ELSE nextPane

SetPane(n, pane) ==
  /\ sessions' = [sessions EXCEPT ![n] = pane]
  /\ UNCHANGED <<tuned, nextPane>>

Server == <<sessions, tuned, nextPane>>

-----------------------------------------------------------------------------
(* Calls.                                                                  *)

Goto(w, step) == worker' = [worker EXCEPT ![w].at = step]

\* Faulty: an exception leaves the lock held.
ReturnLocked(w) == worker' = [worker EXCEPT ![w] = Idle] /\ UNCHANGED lock

(* The end of the locked block, by return or by exception.                 *)
Return(w) ==
  /\ lock' = [lock EXCEPT ![worker[w].name] = None]
  /\ worker' = [worker EXCEPT ![w] = Idle]

Call(w, op, n) ==
  /\ worker[w].at = "idle"
  /\ calls < MaxCalls
  /\ calls' = calls + 1
  /\ worker' = [worker EXCEPT ![w] = [Idle EXCEPT !.op = op, !.name = n,
                                                  !.at = "waiting"]]
  /\ UNCHANGED <<Server, lock>>

FirstStep(op) ==
  CASE op = "open" -> "inspect" [] op = "send" -> "verify"
    [] op = "read" -> "capture" [] op = "close" -> "kill"

\* Faulty: the operation does not wait for the session's lock.
AcquireUnlocked(w) ==
  LET op == worker[w].op
  IN /\ worker[w].at = "waiting"
     /\ lock' = [lock EXCEPT ![worker[w].name] = w]
     /\ \E inputs \in (IF op = "send" THEN 1..2 ELSE {0}) :
          worker' = [worker EXCEPT ![w].at = FirstStep(op), ![w].left = inputs]
     /\ UNCHANGED <<Server, calls>>

(* with _session_lock(session_name): text, keys and Enter are delivered    *)
(* one after the other.                                                    *)
Acquire(w) ==
  LET op == worker[w].op
  IN /\ worker[w].at = "waiting"
     /\ lock[worker[w].name] = None
     /\ lock' = [lock EXCEPT ![worker[w].name] = w]
     /\ \E inputs \in (IF op = "send" THEN 1..2 ELSE {0}) :
          worker' = [worker EXCEPT ![w].at = FirstStep(op), ![w].left = inputs]
     /\ UNCHANGED <<Server, calls>>

-----------------------------------------------------------------------------
(* Opening: open_device_terminal(), open_bootstrap_terminal().             *)

(* A dead pane is replaced, one this version did not create is refused;    *)
(* Discovery replaces any session of its own.                              *)
Inspect(w) ==
  LET n == worker[w].name
  IN /\ worker[w].at = "inspect"
     /\ \/ /\ Exists(n) /\ (n \in DiscoveryNames \/ Dead(n))
           /\ Goto(w, "replace") /\ UNCHANGED lock
        \/ /\ Exists(n) /\ n \notin DiscoveryNames /\ ~Dead(n) /\ ~Recorded(n)
           /\ Return(w)
        \/ /\ ~Exists(n) \/ (n \notin DiscoveryNames /\ ~Dead(n) /\ Recorded(n))
           /\ Goto(w, "server") /\ UNCHANGED lock
     /\ UNCHANGED <<Server, calls>>

Replace(w) ==
  /\ worker[w].at = "replace"
  /\ \/ /\ Exists(worker[w].name)
        /\ KillSession(Resolve(worker[w].name))
        /\ Goto(w, "server") /\ UNCHANGED lock
     \/ /\ ~Exists(worker[w].name)
        /\ (Goto(w, "server") /\ UNCHANGED lock) \/ Return(w)
        /\ UNCHANGED Server
  /\ UNCHANGED calls

(* _ensure_tmux_environment(): the loser of a race for the bootstrap       *)
(* session goes on if there is a server by then.                           *)
FindServer(w) ==
  /\ \/ /\ worker[w].at \in {"server", "server_again"} /\ Running
        /\ Goto(w, "tune") /\ UNCHANGED lock
     \/ /\ worker[w].at = "server" /\ ~Running
        /\ Goto(w, "bootstrap") /\ UNCHANGED lock
     \/ /\ worker[w].at = "server_again" /\ ~Running
        /\ Return(w)
  /\ UNCHANGED <<Server, calls>>

StartServer(w) ==
  /\ worker[w].at = "bootstrap"
  /\ \/ /\ sessions[Bootstrap] = None
        /\ NewSession(Bootstrap)
        /\ worker' = [worker EXCEPT ![w].at = "tune", ![w].boot = TRUE]
     \/ /\ sessions[Bootstrap] # None
        /\ Goto(w, "server_again") /\ UNCHANGED Server
  /\ UNCHANGED <<lock, calls>>

Tune(w) ==
  /\ worker[w].at = "tune"
  /\ \/ /\ Running
        /\ tuned' = TRUE
        /\ Goto(w, "exists") /\ UNCHANGED <<sessions, nextPane, lock>>
     \/ /\ ~Running
        /\ Return(w) /\ UNCHANGED Server
  /\ UNCHANGED calls

CheckExists(w) ==
  /\ worker[w].at = "exists"
  /\ worker' = [worker EXCEPT
       ![w].reused = Exists(worker[w].name),
       ![w].at = IF Exists(worker[w].name) THEN "unboot" ELSE "create"]
  /\ UNCHANGED <<Server, lock, calls>>

(* _create_logged_session(): the pane is created blocked on the launch     *)
(* gate, and only configured panes are released.                           *)
Create(w) ==
  /\ worker[w].at = "create"
  /\ \/ /\ sessions[worker[w].name] = None
        /\ NewSession(worker[w].name)
        /\ Goto(w, "configure") /\ UNCHANGED lock
     \/ Return(w) /\ UNCHANGED Server
  /\ UNCHANGED calls

Configure(w) ==
  LET n == worker[w].name
  IN /\ worker[w].at = "configure"
     /\ sessions[n] # None
     /\ SetPane(n, [sessions[n] EXCEPT !.recorded = TRUE, !.logged = TRUE])
     /\ Goto(w, "release")
     /\ UNCHANGED <<lock, calls>>

Release(w) ==
  LET n == worker[w].name
  IN /\ worker[w].at = "release"
     /\ sessions[n] # None
     /\ SetPane(n, [sessions[n] EXCEPT !.started = TRUE])
     /\ Goto(w, "open_gate")
     /\ UNCHANGED <<lock, calls>>

OpenGate(w) ==
  LET n == worker[w].name
  IN /\ worker[w].at = "open_gate"
     /\ sessions[n] # None
     /\ SetPane(n, [sessions[n] EXCEPT !.gate = "open"])
     /\ Goto(w, "unboot")
     /\ UNCHANGED <<lock, calls>>

\* Faulty: the half-built session is left behind.
AbortKeepsSession(w) ==
  /\ worker[w].at \in {"configure", "release", "open_gate"}
  /\ Return(w)
  /\ UNCHANGED <<Server, calls>>

(* A step of the creation fails (a tmux command, the log directory).       *)
Abort(w) ==
  /\ worker[w].at \in {"configure", "release", "open_gate"}
  /\ IF Exists(worker[w].name) THEN KillSession(Resolve(worker[w].name))
     ELSE UNCHANGED Server
  /\ Return(w)
  /\ UNCHANGED calls

Unboot(w) ==
  LET n == worker[w].name
  IN /\ worker[w].at = "unboot"
     /\ IF worker[w].boot /\ sessions[Bootstrap] # None THEN KillSession(Bootstrap)
        ELSE UNCHANGED Server
     /\ IF n \in DiscoveryNames THEN Return(w)
        ELSE Goto(w, "look") /\ UNCHANGED lock
     /\ UNCHANGED calls

(* _authenticate_managed_session(): one look at the pane (repeated for a   *)
(* new session until something shows or the time is up), then at most one  *)
(* password; without one configured for this prompt the open fails.        *)
Look(w) ==
  LET n == worker[w].name
      fail == IF worker[w].reused THEN "final" ELSE "discard"
  IN /\ worker[w].at = "look"
     /\ \E step \in IF Shows(n, "login") /\ ~Dead(n) THEN {"password", fail}
                     ELSE {"final", fail} : Goto(w, step)
     /\ UNCHANGED <<Server, lock, calls>>

(* The password is typed into a pane that still verifies.  It is accepted, *)
(* or it is rejected or not answered in time and the open fails.           *)
Password(w) ==
  LET n == worker[w].name
      fail == IF worker[w].reused THEN "final" ELSE "discard"
  IN /\ worker[w].at = "password"
     /\ \/ /\ Ready(n)
           /\ \E screen \in {"login", "prompt"} :
                /\ SetPane(Resolve(n), [At(n) EXCEPT !.screen = screen])
                /\ Goto(w, IF screen = "prompt" THEN "final" ELSE fail)
        \/ /\ ~Ready(n)
           /\ Goto(w, fail) /\ UNCHANGED Server
     /\ UNCHANGED <<lock, calls>>

(* open returns: a new session that has ended is reported and kept.        *)
Finish(w) ==
  /\ worker[w].at = "final"
  /\ Return(w)
  /\ UNCHANGED <<Server, calls>>

-----------------------------------------------------------------------------
(* Sending, reading and closing.                                           *)

(* Each input is verified on its own, so a later one can fail after an     *)
(* earlier one was delivered.                                              *)
Verify(w) ==
  LET n == worker[w].name
  IN /\ worker[w].at = "verify"
     /\ \/ /\ Ready(n)
           /\ worker' = [worker EXCEPT ![w].at = "deliver", ![w].target = At(n).id]
           /\ UNCHANGED lock
        \/ ~Ready(n) /\ Return(w)
     /\ UNCHANGED <<Server, calls>>

Addressed(w) ==
  {n \in Name \cup {Bootstrap} :
     sessions[n] # None /\ sessions[n].id = worker[w].target}

Deliver(w) ==
  /\ worker[w].at = "deliver"
  /\ \/ /\ Addressed(w) # {}
        /\ \E n \in Addressed(w) : \E screen \in {"login", "prompt"} :
             /\ screen = "login" => sessions[n].screen = "login"
             /\ SetPane(n, IF sessions[n].dead \/ sessions[n].screen = "blank"
                           THEN sessions[n]
                           ELSE [sessions[n] EXCEPT !.screen = screen])
        /\ IF worker[w].left > 1
           THEN /\ worker' = [worker EXCEPT ![w].at = "verify", ![w].left = @ - 1]
                /\ UNCHANGED lock
           ELSE Return(w)
     \/ /\ Addressed(w) = {}
        /\ Return(w) /\ UNCHANGED Server
  /\ UNCHANGED calls

Capture(w) ==
  /\ worker[w].at = "capture"
  /\ Return(w)
  /\ UNCHANGED <<Server, calls>>

(* terminal_close(), and an open that failed in a session it created.      *)
Kill(w) ==
  /\ worker[w].at \in {"kill", "discard"}
  /\ IF Exists(worker[w].name) THEN KillSession(Resolve(worker[w].name))
     ELSE UNCHANGED Server
  /\ Return(w)
  /\ UNCHANGED calls

-----------------------------------------------------------------------------
(* Transports.                                                             *)

TransportEnds(n) ==
  /\ sessions[n] # None /\ sessions[n].started /\ ~sessions[n].dead
  /\ SetPane(n, [sessions[n] EXCEPT !.dead = TRUE])
  /\ UNCHANGED <<lock, worker, calls>>

TransportPrompts(n) ==
  /\ sessions[n] # None /\ sessions[n].started /\ ~sessions[n].dead
  /\ sessions[n].screen = "blank"
  /\ \E screen \in {"login", "prompt"} :
       SetPane(n, [sessions[n] EXCEPT !.screen = screen])
  /\ UNCHANGED <<lock, worker, calls>>

-----------------------------------------------------------------------------
Init ==
  /\ sessions \in InitialServers
  /\ tuned = \E n \in Name : sessions[n] # None
  /\ nextPane = Cardinality({n \in Name : sessions[n] # None})
  /\ lock = [n \in Name |-> None]
  /\ worker = [w \in Worker |-> Idle]
  /\ calls = 0

Step(w) ==
  \/ Acquire(w) \/ Inspect(w) \/ Replace(w) \/ FindServer(w) \/ StartServer(w)
  \/ Tune(w) \/ CheckExists(w) \/ Create(w) \/ Configure(w) \/ Release(w)
  \/ OpenGate(w) \/ Abort(w) \/ Unboot(w) \/ Look(w) \/ Password(w)
  \/ Finish(w) \/ Verify(w) \/ Deliver(w) \/ Capture(w) \/ Kill(w)

Next ==
  \/ \E w \in Worker : Step(w) \/ \E op \in Ops, n \in Name : Call(w, op, n)
  \/ \E n \in Name : TransportEnds(n) \/ TransportPrompts(n)

Spec == Init /\ [][Next]_vars

(* The scheduler runs every thread; every wait in an operation is bounded  *)
(* by a timeout of its own.                                                *)
FairSpec == Spec /\ \A w \in Worker : WF_vars(Step(w))

-----------------------------------------------------------------------------
(* Properties.                                                             *)

(* An input is delivered to the session it was verified for and to no      *)
(* other, although the delivery names a pane by a number that a new server *)
(* would use again (_managed_pane_target).                                 *)
InputReachesItsSession ==
  \A w \in Worker :
    worker[w].at = "deliver" => Addressed(w) = {worker[w].name}

(* A password is typed only while the prompt it answers is still the one   *)
(* the pane shows: concurrent opens of a device, or an open and a send,    *)
(* never answer one prompt twice (open_device_terminal).                   *)
PasswordMeetsItsPrompt ==
  \A w \in Worker :
    worker[w].at = "password" => Shows(worker[w].name, "login")

(* Outside of an operation there is no half-built session, whichever step  *)
(* of its creation failed; one that accepts input is identified, logged    *)
(* and past its launch gate (_create_logged_session).                      *)
SessionsAreReady ==
  \A n \in Name : sessions[n] # None =>
    /\ sessions[n].gate = "open" =>
         sessions[n].started /\ sessions[n].recorded /\ sessions[n].logged
    /\ lock[n] = None =>
         sessions[n].started /\ (sessions[n].recorded => sessions[n].gate = "open")

(* Every call returns: no failure path keeps a lock, and the bootstrap     *)
(* race leaves nobody waiting.                                             *)
CallsReturn ==
  \A w \in Worker : worker[w].at # "idle" ~> worker[w].at = "idle"

(* docs/architecture.md, "terminal.py serialization": every tmux command   *)
(* is scoped to one session name derived from the device.                  *)
CommandsStayInTheirSession ==
  [][\A w \in Worker, n \in Name :
       worker'[w] # worker[w] /\ n # worker[w].name
       => sessions'[n] = sessions[n]]_vars
=============================================================================
