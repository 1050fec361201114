--------------------------- MODULE TelnetTunnel ---------------------------
(***************************************************************************)
(* Telnet to a device behind a jump host (terminal.py): one logical        *)
(* session is a tmux session with an ssh port forward (the tunnel) and a   *)
(* tmux session with a telnet process connected to the forwarded local     *)
(* port.  Whoever holds the local port answers telnet, so every credential *)
(* is preceded by a proof, from lsof, that the connection runs into the    *)
(* tunnel's own ssh process.                                               *)
(*                                                                         *)
(* The tmux server itself, its pane identities and the launch gate are     *)
(* those of TerminalSessions and are not repeated: a session here is one   *)
(* that was created completely.                                            *)
(***************************************************************************)
EXTENDS Naturals, FiniteSets

CONSTANTS
  Device,          (* devices reached by Telnet through a jump host          *)
  DiscoveryDevice, (* those that are the Discovery namespace's own           *)
  Port,            (* free local ports of the machine                        *)
  Worker,          (* threads that serve tool calls                          *)
  None,            (* no session, no lock holder, no device                  *)
  PortAttempts,    (* _TUNNEL_PORT_ATTEMPTS                                  *)
  InitialSessions, (* the sessions found at the start                        *)
  MaxCalls,        (* bound on the calls made                                *)
  MaxRestarts      (* bound on the ends of the server process                *)

ASSUME TunnelAssumption ==
  /\ DiscoveryDevice \subseteq Device
  /\ None \notin Device \cup Worker
  /\ PortAttempts \in Nat \ {0}
  /\ MaxCalls \in Nat /\ MaxRestarts \in Nat

VARIABLES
  tunnel,    (* network-lab-tunnel-<device>                                  *)
  device,    (* network-lab-device-<device>                                  *)
  taken,     (* ports bound by other processes, dying tunnels included       *)
  lock,      (* _session_locks                                               *)
  worker,    (* what each thread is doing                                    *)
  handed,    (* history: devices whose session an open reported              *)
  calls, restarts

sessions == <<tunnel, device, taken>>
vars == <<sessions, lock, worker, handed, calls, restarts>>

Ops == {"open", "send", "read", "close", "list"}

(* How far ssh has come: its prompts, the answer, the bound port.          *)
Tunnel ==
  [ alive : BOOLEAN,
    port  : Port,
    stage : {"blank", "prompt", "strange", "answered", "again",
             "authenticated", "listening", "conflict"} ]

Telnet ==
  [ alive  : BOOLEAN,
    marked : BOOLEAN,                     \* @nlm_tunnel_session is set
    port   : Port,
    peer   : {"none", "own", "other"},    \* who accepted the connection
    screen : {"blank", "username", "password", "prompt"} ]

(* Half a session is never found at the start, nor one that was not proven: *)
(* the sessions left by an earlier process that ended between two calls.   *)
ASSUME InitialSessionsAssumption ==
  /\ None \notin Tunnel \cup Telnet
  /\ \A found \in InitialSessions :
       /\ found.device \in [Device -> Telnet \cup {None}]
       /\ found.tunnel \in [Device -> Tunnel \cup {None}]
       /\ \A d \in Device :
            /\ found.device[d] # None => found.device[d].marked /\ found.device[d].peer = "own"
            /\ found.tunnel[d] # None =>
                 found.device[d] # None /\ found.tunnel[d].stage = "listening"

Idle == [op |-> "none", dev |-> None, at |-> "idle", port |-> None, tries |-> 0,
         reused |-> FALSE, named |-> FALSE, todo |-> {}]

Steps == {"idle", "waiting", "survey", "inspect", "alive", "reap", "input",
          "reset_device", "reset_tunnel", "allocate", "create_tunnel", "drive",
          "answer", "retry", "create_device", "mark", "prove", "look", "check",
          "type", "settle", "final", "drop_device", "drop_tunnel"}

WorkerState ==
  [ op     : Ops \cup {"none"},
    dev    : Device \cup {None},
    at     : Steps,
    port   : Port \cup {None},
    tries  : 0..PortAttempts,
    reused : BOOLEAN,
    named  : BOOLEAN,                     \* the username was sent
    todo   : SUBSET Device ]              \* sessions still to list

TypeOK ==
  /\ tunnel \in [Device -> Tunnel \cup {None}]
  /\ device \in [Device -> Telnet \cup {None}]
  /\ taken \subseteq Port
  /\ lock \in [Device -> Worker \cup {None}]
  /\ worker \in [Worker -> WorkerState]
  /\ handed \subseteq Device
  /\ calls \in 0..MaxCalls /\ restarts \in 0..MaxRestarts
  /\ \A d \in Device, w \in Worker :
       lock[d] = w <=> /\ worker[w].dev = d /\ worker[w].op # "list"
                       /\ worker[w].at # "waiting"

-----------------------------------------------------------------------------
(* Processes and ports.                                                    *)

TunnelAlive(d) == tunnel[d] # None /\ tunnel[d].alive

Listens(d, p) ==
  TunnelAlive(d) /\ tunnel[d].stage = "listening" /\ tunnel[d].port = p

Bound == taken \cup {p \in Port : \E d \in Device : Listens(d, p)}

DeviceAlive(d) == device[d] # None /\ device[d].alive
DeviceDead(d)  == device[d] # None /\ ~device[d].alive
Marked(d)      == device[d] # None /\ device[d].marked

\* Faulty: the server side of the connection is not compared with the tunnel.
OwnedByAnyone(d) == DeviceAlive(d) /\ device[d].peer # "none"

(* verify_tcp_ownership(): both ends of the connection and the listener    *)
(* are seen, the one telnet's, the others the tunnel's ssh process's.      *)
Owned(d) ==
  /\ DeviceAlive(d)
  /\ Listens(d, device[d].port)
  /\ device[d].peer = "own"

(* A killed ssh process can hold its port a little longer.                 *)
CloseTunnel(d) ==
  /\ tunnel' = [tunnel EXCEPT ![d] = None]
  /\ \E lingers \in SUBSET {p \in Port : Listens(d, p)} :
       taken' = taken \cup lingers
  /\ UNCHANGED device

CloseDevice(d) ==
  /\ device' = [device EXCEPT ![d] = None]
  /\ UNCHANGED <<tunnel, taken>>

SetTunnel(d, t) ==
  tunnel' = [tunnel EXCEPT ![d] = t] /\ UNCHANGED <<device, taken>>

SetDevice(d, t) ==
  device' = [device EXCEPT ![d] = t] /\ UNCHANGED <<tunnel, taken>>

-----------------------------------------------------------------------------
(* Calls.                                                                  *)

Goto(w, step) == worker' = [worker EXCEPT ![w].at = step] /\ UNCHANGED lock

\* Faulty: an exception leaves the lock held.
ReturnLocked(w) == worker' = [worker EXCEPT ![w] = Idle] /\ UNCHANGED lock

Return(w) ==
  /\ lock' = [d \in Device |-> IF lock[d] = w THEN None ELSE lock[d]]
  /\ worker' = [worker EXCEPT ![w] = Idle]

\* Faulty: a failed login leaves the sessions it built.
FailInPlace(w) == Return(w)

(* A failed login removes the two sessions it built, and only those.       *)
Fail(w) == IF worker[w].reused THEN Return(w) ELSE Goto(w, "drop_device")

Call(w, op, d) ==
  /\ worker[w].at = "idle"
  /\ calls < MaxCalls
  /\ calls' = calls + 1
  /\ worker' = [worker EXCEPT ![w] = [Idle EXCEPT !.op = op, !.dev = d,
                                                  !.at = "waiting"]]
  /\ UNCHANGED <<sessions, lock, handed, restarts>>

(* list_device_sessions() takes no lock: the names first, then the state   *)
(* of each.                                                                *)
CallList(w) ==
  /\ worker[w].at = "idle"
  /\ calls < MaxCalls
  /\ calls' = calls + 1
  /\ worker' = [worker EXCEPT ![w] = [Idle EXCEPT !.op = "list", !.at = "survey",
       !.todo = {d \in Device \ DiscoveryDevice : device[d] # None}]]
  /\ UNCHANGED <<sessions, lock, handed, restarts>>

FirstStep(op, d) ==
  CASE op = "open" /\ d \in DiscoveryDevice -> "reset_device"
    [] op = "open" /\ d \notin DiscoveryDevice -> "inspect"
    [] op \in {"send", "read"} -> "alive"
    [] op = "close" -> "drop_device"

(* Without a telnet client the open fails before anything is looked at.    *)
Acquire(w) ==
  LET d == worker[w].dev
  IN /\ worker[w].at = "waiting"
     /\ lock[d] = None
     /\ \/ /\ lock' = [lock EXCEPT ![d] = w]
           /\ worker' = [worker EXCEPT ![w].at = FirstStep(worker[w].op, d)]
        \/ /\ worker[w].op = "open"
           /\ Return(w)
     /\ UNCHANGED <<sessions, handed, calls, restarts>>

-----------------------------------------------------------------------------
(* Reaping: the tunnel of a telnet process that ended is closed too.       *)

ToReap(d) == Marked(d) /\ DeviceDead(d)

Survey(w) ==
  /\ worker[w].at = "survey"
  /\ \/ worker[w].todo = {} /\ Return(w)
     \/ /\ \E d \in worker[w].todo :
             worker' = [worker EXCEPT
               ![w].todo = @ \ {d},
               ![w].dev = IF ToReap(d) THEN d ELSE None,
               ![w].at = IF ToReap(d) THEN "reap" ELSE "survey"]
        /\ UNCHANGED lock
  /\ UNCHANGED <<sessions, handed, calls, restarts>>

Reusable(d) == DeviceAlive(d) /\ Marked(d) /\ TunnelAlive(d)

(* _logical_state(): a session is reused only with both its processes      *)
(* running; a tunnel without a telnet session is refused.                  *)
Inspect(w) ==
  LET d == worker[w].dev
  IN /\ worker[w].at = "inspect"
     /\ \/ ToReap(d) /\ Goto(w, "reap")
        \/ /\ Reusable(d)
           /\ worker' = [worker EXCEPT ![w].at = "prove", ![w].reused = TRUE]
           /\ UNCHANGED lock
        \/ device[d] # None /\ ~ToReap(d) /\ ~Reusable(d) /\ Goto(w, "reset_device")
        \/ device[d] = None /\ tunnel[d] # None /\ Return(w)
        \/ device[d] = None /\ tunnel[d] = None /\ Goto(w, "allocate")
     /\ UNCHANGED <<sessions, handed, calls, restarts>>

Usable(d) == DeviceAlive(d) /\ (Marked(d) => TunnelAlive(d))

(* send_to_device() refuses a session whose tunnel has ended;              *)
(* read_device() only reaps.                                               *)
Alive(w) ==
  LET d == worker[w].dev
  IN /\ worker[w].at = "alive"
     /\ \/ ToReap(d) /\ Goto(w, "reap")
        \/ worker[w].op = "send" /\ Usable(d) /\ Goto(w, "input")
        \/ ~ToReap(d) /\ ~(worker[w].op = "send" /\ Usable(d)) /\ Return(w)
     /\ UNCHANGED <<sessions, handed, calls, restarts>>

Reap(w) ==
  /\ worker[w].at = "reap"
  /\ CloseTunnel(worker[w].dev)
  /\ \/ worker[w].op = "open" /\ Goto(w, "reset_device")
     \/ /\ worker[w].op = "list"
        /\ worker' = [worker EXCEPT ![w].at = "survey", ![w].dev = None]
        /\ UNCHANGED lock
     \/ worker[w].op \notin {"open", "list"} /\ Return(w)
  /\ UNCHANGED <<handed, calls, restarts>>

(* What is typed may answer whatever the device asks.                      *)
Input(w) ==
  LET d == worker[w].dev
  IN /\ worker[w].at = "input"
     /\ IF DeviceAlive(d) THEN SetDevice(d, [device[d] EXCEPT !.screen = "blank"])
        ELSE UNCHANGED sessions
     /\ Return(w)
     /\ UNCHANGED <<handed, calls, restarts>>

-----------------------------------------------------------------------------
(* Opening: _open_telnet_via_jump().                                       *)

ResetDevice(w) ==
  /\ worker[w].at = "reset_device"
  /\ CloseDevice(worker[w].dev)
  /\ handed' = handed \ {worker[w].dev}
  /\ Goto(w, "reset_tunnel")
  /\ UNCHANGED <<calls, restarts>>

ResetTunnel(w) ==
  /\ worker[w].at = "reset_tunnel"
  /\ CloseTunnel(worker[w].dev)
  /\ Goto(w, "allocate")
  /\ UNCHANGED <<handed, calls, restarts>>

(* The port is free when it is chosen, and nobody's until ssh binds it.    *)
Allocate(w) ==
  /\ worker[w].at = "allocate"
  /\ \/ /\ \E p \in Port \ Bound :
             worker' = [worker EXCEPT ![w].at = "create_tunnel", ![w].port = p,
                                      ![w].tries = @ + 1]
        /\ UNCHANGED lock
     \/ Port \subseteq Bound /\ Return(w)
  /\ UNCHANGED <<sessions, handed, calls, restarts>>

CreateTunnel(w) ==
  LET d == worker[w].dev
  IN /\ worker[w].at = "create_tunnel"
     /\ \/ /\ tunnel[d] = None
           /\ SetTunnel(d, [alive |-> TRUE, port |-> worker[w].port, stage |-> "blank"])
           /\ Goto(w, "drive")
        \/ Return(w) /\ UNCHANGED sessions
     /\ UNCHANGED <<handed, calls, restarts>>

(* One poll of _establish_tunnel().  Any poll can be the last one before   *)
(* the deadline, and a prompt that is not the jump host's own, or comes    *)
(* back, ends the attempt.                                                 *)
Drive(w) ==
  LET d == worker[w].dev
  IN /\ worker[w].at = "drive"
     /\ \/ TunnelAlive(d) /\ tunnel[d].stage = "prompt" /\ Goto(w, "answer")
        \/ TunnelAlive(d) /\ tunnel[d].stage = "listening" /\ Goto(w, "create_device")
        \/ /\ tunnel[d] # None /\ ~tunnel[d].alive /\ tunnel[d].stage = "conflict"
           /\ Goto(w, "retry")
        \/ Goto(w, "drop_tunnel")
     /\ UNCHANGED <<sessions, handed, calls, restarts>>

Answer(w) ==
  LET d == worker[w].dev
  IN /\ worker[w].at = "answer"
     /\ \/ /\ TunnelAlive(d) /\ tunnel[d].stage = "prompt"
           /\ SetTunnel(d, [tunnel[d] EXCEPT !.stage = "answered"])
           /\ Goto(w, "drive")
        \/ Goto(w, "drop_tunnel") /\ UNCHANGED sessions
     /\ UNCHANGED <<handed, calls, restarts>>

Retry(w) ==
  /\ worker[w].at = "retry"
  /\ CloseTunnel(worker[w].dev)
  /\ IF worker[w].tries < PortAttempts THEN Goto(w, "allocate") ELSE Return(w)
  /\ UNCHANGED <<handed, calls, restarts>>

CreateDevice(w) ==
  LET d == worker[w].dev
  IN /\ worker[w].at = "create_device"
     /\ \/ /\ device[d] = None
           /\ SetDevice(d, [alive |-> TRUE, marked |-> FALSE, port |-> worker[w].port,
                            peer |-> "none", screen |-> "blank"])
           /\ Goto(w, "mark")
        \/ Goto(w, "drop_device") /\ UNCHANGED sessions
     /\ UNCHANGED <<handed, calls, restarts>>

Mark(w) ==
  LET d == worker[w].dev
  IN /\ worker[w].at = "mark"
     /\ \/ /\ SetDevice(d, [device[d] EXCEPT !.marked = TRUE])
           /\ Goto(w, "prove")
        \/ Goto(w, "drop_device") /\ UNCHANGED sessions
     /\ UNCHANGED <<handed, calls, restarts>>

(* _wait_for_established_connection(): until proven, ended or too late.    *)
Prove(w) ==
  /\ worker[w].at = "prove"
  /\ \/ Owned(worker[w].dev) /\ Goto(w, "look")
     \/ Fail(w)
  /\ UNCHANGED <<sessions, handed, calls, restarts>>

(* _authenticate_managed_telnet_session(): before the username nothing     *)
(* recognizable in time is no failure; a missing credential always is.     *)
Look(w) ==
  LET screen == device[worker[w].dev].screen
      asked  == IF worker[w].named THEN {"password"} ELSE {"username", "password"}
      passed == IF worker[w].named THEN {"username", "prompt"} ELSE {"blank", "prompt"}
  IN /\ worker[w].at = "look"
     /\ \/ screen \in asked /\ Goto(w, "check")
        \/ screen \in passed /\ Goto(w, "final")
        \/ Fail(w)
     /\ UNCHANGED <<sessions, handed, calls, restarts>>

(* pre_send_check(): the same proof again before each credential.          *)
Check(w) ==
  /\ worker[w].at = "check"
  /\ \/ Owned(worker[w].dev) /\ Goto(w, "type")
     \/ Fail(w)
  /\ UNCHANGED <<sessions, handed, calls, restarts>>

Type(w) ==
  LET d == worker[w].dev
      name == device[d].screen = "username"
  IN /\ worker[w].at = "type"
     /\ \/ /\ DeviceAlive(d)
           /\ SetDevice(d, [device[d] EXCEPT !.screen = "blank"])
           /\ worker' = [worker EXCEPT ![w].at = IF name THEN "look" ELSE "settle",
                                       ![w].named = name]
           /\ UNCHANGED lock
        \/ ~DeviceAlive(d) /\ Fail(w) /\ UNCHANGED sessions
     /\ UNCHANGED <<handed, calls, restarts>>

(* After the password only the device's own prompt is success.             *)
Settle(w) ==
  /\ worker[w].at = "settle"
  /\ \/ device[worker[w].dev].screen = "prompt" /\ Goto(w, "final")
     \/ Fail(w)
  /\ UNCHANGED <<sessions, handed, calls, restarts>>

Finish(w) ==
  LET d == worker[w].dev
  IN /\ worker[w].at = "final"
     /\ IF DeviceDead(d) /\ ~worker[w].reused
        THEN Goto(w, "drop_device") /\ UNCHANGED handed
        ELSE Return(w) /\ handed' = handed \cup {d}
     /\ UNCHANGED <<sessions, calls, restarts>>

(* close_device_terminal() and the failure of an open.                     *)
DropDevice(w) ==
  /\ worker[w].at = "drop_device"
  /\ CloseDevice(worker[w].dev)
  /\ handed' = handed \ {worker[w].dev}
  /\ Goto(w, "drop_tunnel")
  /\ UNCHANGED <<calls, restarts>>

\* Faulty: the failure of an open leaves its tunnel behind.
DropTunnelOnClose(w) ==
  /\ worker[w].at = "drop_tunnel"
  /\ IF worker[w].op = "close" THEN CloseTunnel(worker[w].dev) ELSE UNCHANGED sessions
  /\ Return(w)
  /\ UNCHANGED <<handed, calls, restarts>>

DropTunnel(w) ==
  /\ worker[w].at = "drop_tunnel"
  /\ CloseTunnel(worker[w].dev)
  /\ Return(w)
  /\ UNCHANGED <<handed, calls, restarts>>

-----------------------------------------------------------------------------
(* Processes outside of the program.                                       *)

Environment == <<lock, worker, handed, calls, restarts>>

(* The ssh process: prompts, authentication, and then the local port, with *)
(* ExitOnForwardFailure.                                                   *)
TunnelProceeds(d) ==
  /\ TunnelAlive(d)
  /\ LET t == tunnel[d]
         to(stages) == \E s \in stages : SetTunnel(d, [t EXCEPT !.stage = s])
     IN \/ t.stage = "blank" /\ to({"prompt", "strange", "authenticated"})
        \/ t.stage = "answered" /\ to({"again", "authenticated"})
        \/ t.stage = "authenticated" /\ t.port \notin Bound /\ to({"listening"})
        \/ /\ t.stage = "authenticated" /\ t.port \in Bound
           /\ SetTunnel(d, [t EXCEPT !.stage = "conflict", !.alive = FALSE])
  /\ UNCHANGED Environment

TunnelEnds(d) ==
  /\ TunnelAlive(d)
  /\ SetTunnel(d, [tunnel[d] EXCEPT !.alive = FALSE])
  /\ UNCHANGED Environment

(* The telnet process connects to whoever holds the port by then.          *)
Connect(d) ==
  /\ DeviceAlive(d) /\ device[d].peer = "none"
  /\ LET p == device[d].port
     IN SetDevice(d, IF Listens(d, p) THEN [device[d] EXCEPT !.peer = "own"]
                     ELSE IF p \in Bound THEN [device[d] EXCEPT !.peer = "other"]
                     ELSE [device[d] EXCEPT !.alive = FALSE])
  /\ UNCHANGED Environment

Prompts(d) ==
  /\ DeviceAlive(d) /\ device[d].peer # "none" /\ device[d].screen = "blank"
  /\ \E s \in {"username", "password", "prompt"} :
       SetDevice(d, [device[d] EXCEPT !.screen = s])
  /\ UNCHANGED Environment

DeviceEnds(d) ==
  /\ DeviceAlive(d)
  /\ SetDevice(d, [device[d] EXCEPT !.alive = FALSE])
  /\ UNCHANGED Environment

PortChanges(p) ==
  /\ \/ p \notin Bound /\ taken' = taken \cup {p}
     \/ p \in taken /\ taken' = taken \ {p}
  /\ UNCHANGED <<tunnel, device, Environment>>

(* The server process ends; tmux and its sessions do not.                  *)
Restart ==
  /\ restarts < MaxRestarts
  /\ restarts' = restarts + 1
  /\ worker' = [w \in Worker |-> Idle]
  /\ lock' = [d \in Device |-> None]
  /\ UNCHANGED <<sessions, handed, calls>>

-----------------------------------------------------------------------------
Init ==
  /\ \E found \in InitialSessions : device = found.device /\ tunnel = found.tunnel
  /\ taken = {}
  /\ lock = [d \in Device |-> None]
  /\ worker = [w \in Worker |-> Idle]
  /\ handed = {d \in Device : device[d] # None}
  /\ calls = 0 /\ restarts = 0

Step(w) ==
  \/ Acquire(w) \/ Survey(w) \/ Inspect(w) \/ Alive(w) \/ Reap(w) \/ Input(w)
  \/ ResetDevice(w) \/ ResetTunnel(w) \/ Allocate(w) \/ CreateTunnel(w)
  \/ Drive(w) \/ Answer(w) \/ Retry(w) \/ CreateDevice(w) \/ Mark(w) \/ Prove(w)
  \/ Look(w) \/ Check(w) \/ Type(w) \/ Settle(w) \/ Finish(w)
  \/ DropDevice(w) \/ DropTunnel(w)

Next ==
  \/ \E w \in Worker :
       Step(w) \/ CallList(w) \/ \E op \in Ops \ {"list"}, d \in Device : Call(w, op, d)
  \/ \E d \in Device : TunnelProceeds(d) \/ TunnelEnds(d) \/ Connect(d)
                         \/ Prompts(d) \/ DeviceEnds(d)
  \/ \E p \in Port : PortChanges(p)
  \/ Restart

Spec == Init /\ [][Next]_vars

(* Every wait of a step ends at a deadline of its own.                     *)
FairSpec == Spec /\ \A w \in Worker : WF_vars(Step(w))

-----------------------------------------------------------------------------
(* Properties.                                                             *)

(* A credential is typed only into a telnet process whose connection went  *)
(* into the tunnel's own ssh process, whoever took the local port before,  *)
(* between or after, and also if a listing closes the tunnel meanwhile     *)
(* (_make_ownership_check).                                                *)
CredentialsStayInTheTunnel ==
  \A w \in Worker : worker[w].at = "type" =>
    /\ device[worker[w].dev].peer = "own"
    /\ device[worker[w].dev].screen \in {"username", "password"}

(* Without a restart of the server process no call leaves half a session:  *)
(* a tunnel without its telnet session would be refused by every later     *)
(* open, an unmarked telnet session would hide its tunnel from reaping.    *)
PairsAreWhole ==
  \A d \in Device : restarts = 0 /\ lock[d] = None =>
    /\ tunnel[d] # None => device[d] # None
    /\ device[d] # None => device[d].marked

(* Input of terminal_send goes to a session that was once proven and       *)
(* reported, or to none (send_to_device).                                  *)
InputGoesToProvenSession ==
  \A w \in Worker :
    worker[w].at = "input" /\ restarts = 0 => worker[w].dev \in handed

(* Every call returns, whatever the tunnel and the device do.              *)
CallsReturn ==
  \A w \in Worker : worker[w].at # "idle" ~> worker[w].at = "idle"

StageOf(d) ==
  CASE device[d] = None /\ tunnel[d] = None -> "closed"
    [] device[d] = None /\ tunnel[d] # None -> "tunnel"
    [] DeviceAlive(d) /\ device[d].peer = "none"  -> "joining"
    [] DeviceAlive(d) /\ device[d].peer = "other" -> "stray"
    [] Owned(d) -> "live"
    [] OTHER -> "ended"

stages == [d \in Device |-> StageOf(d)]

Logical == INSTANCE LogicalSession WITH stage <- stages, handed <- handed

(* The two tmux sessions of a device behave like one session that is built *)
(* once, proven before it is reported, and not revived.                    *)
ImplementsLogicalSession == Logical!Spec
=============================================================================
