-------------------------- MODULE TelnetTunnelProofs --------------------------
(***************************************************************************)
(* For any number of devices, threads, ports and calls, and whatever the   *)
(* processes outside of the program do: credentials go into the proven     *)
(* tunnel only, no call leaves half a session, input goes to sessions that *)
(* were proven, and the two tmux sessions of a device behave like the one  *)
(* session of LogicalSession.                                              *)
(***************************************************************************)
EXTENDS TelnetTunnel, TLAPS

Opening == {"reset_device", "reset_tunnel", "allocate", "create_tunnel", "drive", "answer",
            "retry", "create_device", "mark", "prove", "look", "check", "type", "settle", "final"}

(* Where a call of each kind can be, and what it knows there.              *)
Sound(k) ==
  /\ k.op = "none" => k.at = "idle"
  /\ k.op = "open" => k.at \in Opening \cup {"waiting", "inspect", "reap", "drop_device", "drop_tunnel"}
  /\ k.op \in {"send", "read"} => k.at \in {"waiting", "alive", "reap", "input"}
  /\ k.op = "close" => k.at \in {"waiting", "drop_device", "drop_tunnel"}
  /\ k.op = "list" => k.at \in {"survey", "reap"}
  /\ k.at = "input" => k.op = "send"
  /\ k.at \in {"idle", "survey"} <=> k.dev = None
  /\ k.at \in {"waiting", "survey", "inspect", "alive", "reap", "reset_device", "reset_tunnel"}
       => k.tries = 0 /\ ~k.reused
  /\ k.at = "allocate" => k.tries < PortAttempts /\ ~k.reused
  /\ k.at \in {"create_tunnel", "drive", "answer", "retry", "create_device", "mark"}
       => k.port \in Port /\ ~k.reused

Calls == \A w \in Worker : Sound(worker[w])

TypeInv == TypeOK /\ Calls

(* The thread that is in the middle of an operation on the device.         *)
Holding(k, d) == k.dev = d /\ k.op # "list" /\ k.at # "waiting"

-----------------------------------------------------------------------------
(* How the step of a thread changes its call and the locks.                *)

Becomes(w, k) == k \in WorkerState /\ Sound(k) /\ worker' = [worker EXCEPT ![w] = k]

Keeps(w, k) ==
  /\ Becomes(w, k) /\ lock' = lock
  /\ \A d \in Device : Holding(k, d) <=> Holding(worker[w], d)

Frees(w, k) ==
  /\ Becomes(w, k) /\ lock' = [d \in Device |-> IF lock[d] = w THEN None ELSE lock[d]]
  /\ \A d \in Device : ~Holding(k, d)

Takes(w, k) ==
  LET d == worker[w].dev
  IN /\ Becomes(w, k) /\ lock[d] = None /\ lock' = [lock EXCEPT ![d] = w]
     /\ worker[w].at = "waiting" /\ k.dev = d /\ Holding(k, d)

LEMMA LocksStayRight ==
  ASSUME TypeInv, NEW w \in Worker, NEW k, Keeps(w, k) \/ Frees(w, k) \/ Takes(w, k)
  PROVE  /\ worker' \in [Worker -> WorkerState] /\ Calls'
         /\ lock' \in [Device -> Worker \cup {None}]
         /\ \A d \in Device, v \in Worker : lock'[d] = v <=> Holding(worker'[v], d)
<1>t. /\ worker \in [Worker -> WorkerState] /\ lock \in [Device -> Worker \cup {None}]
      /\ \A d \in Device, v \in Worker : lock[d] = v <=> Holding(worker[v], d)
      /\ \A v \in Worker : Sound(worker[v])
  BY DEF TypeInv, TypeOK, Holding, Calls
<1>1. worker' = [worker EXCEPT ![w] = k] /\ k \in WorkerState /\ Sound(k)
  BY DEF Keeps, Frees, Takes, Becomes
<1>2. worker' \in [Worker -> WorkerState] /\ Calls'
  BY <1>1, <1>t DEF Calls
<1>3. lock' \in [Device -> Worker \cup {None}]
  BY <1>t DEF Keeps, Frees, Takes
<1>4. ASSUME NEW d \in Device, NEW v \in Worker
      PROVE  lock'[d] = v <=> Holding(worker'[v], d)
  <2>1. None \notin Worker
    BY TunnelAssumption
  <2>2. worker'[v] = IF v = w THEN k ELSE worker[v]
    BY <1>1, <1>t
  <2>3. CASE Keeps(w, k)
    BY <2>2, <2>3, <1>t DEF Keeps
  <2>4. CASE Frees(w, k)
    BY <2>1, <2>2, <2>4, <1>t DEF Frees
  <2>5. CASE Takes(w, k)
    <3>1. ~Holding(worker[w], d)
      BY <2>5 DEF Takes, Holding
    <3>2. Holding(k, d) <=> d = worker[w].dev
      BY <2>5 DEF Takes, Holding
    <3> QED BY <2>1, <2>2, <2>5, <3>1, <3>2, <1>t DEF Takes
  <2> QED BY <2>3, <2>4, <2>5
<1> QED BY <1>2, <1>3, <1>4

(* A step that a call can go on to.                                        *)
Fits(k, step) ==
  /\ k.at \notin {"idle", "waiting", "survey"} /\ step \notin {"idle", "waiting", "survey"}
  /\ k.op = "open" => step \in Opening \cup {"inspect", "reap", "drop_device", "drop_tunnel"}
  /\ k.op \in {"send", "read"} => step \in {"alive", "reap", "input"}
  /\ k.op = "close" => step \in {"drop_device", "drop_tunnel"}
  /\ k.op = "list" => step = "reap"
  /\ step = "input" => k.op = "send"
  /\ step \in {"inspect", "alive", "reap", "reset_device", "reset_tunnel"}
       => k.tries = 0 /\ ~k.reused
  /\ step = "allocate" => k.tries < PortAttempts /\ ~k.reused
  /\ step \in {"create_tunnel", "drive", "answer", "retry", "create_device", "mark"}
       => k.port \in Port /\ ~k.reused

Changes(w) == \E k \in WorkerState : Keeps(w, k) \/ Frees(w, k) \/ Takes(w, k)

LEMMA GoingOn ==
  ASSUME TypeInv, NEW w \in Worker, NEW step \in Steps, Goto(w, step), Fits(worker[w], step)
  PROVE  Changes(w)
<1> DEFINE k == [worker[w] EXCEPT !.at = step]
<1>t. worker \in [Worker -> WorkerState] /\ worker[w] \in WorkerState /\ Sound(worker[w])
  BY DEF TypeInv, TypeOK, Calls
<1>1. k \in WorkerState
  BY <1>t DEF WorkerState
<1>2. worker' = [worker EXCEPT ![w] = k] /\ lock' = lock
  BY DEF Goto
<1>3. /\ k.op = worker[w].op /\ k.dev = worker[w].dev /\ k.at = step
      /\ k.tries = worker[w].tries /\ k.port = worker[w].port /\ k.reused = worker[w].reused
  BY <1>t DEF WorkerState
<1> HIDE DEF k
<1>4. \A d \in Device : Holding(k, d) <=> Holding(worker[w], d)
  BY <1>3 DEF Holding, Fits
<1>5. worker[w].op \in Ops \cup {"none"}
  BY <1>t DEF WorkerState
<1>6. Sound(k)
  BY <1>3, <1>t, <1>5 DEF Sound, Fits, Ops
<1> QED BY <1>1, <1>2, <1>4, <1>6 DEF Keeps, Becomes, Changes

LEMMA IdleIsSound == Idle \in WorkerState /\ Sound(Idle) /\ \A d \in Device : ~Holding(Idle, d)
<1>1. Idle \in WorkerState
  BY TunnelAssumption DEF Idle, WorkerState, Steps, Ops
<1> QED BY <1>1, TunnelAssumption DEF Idle, Sound, Holding

LEMMA Returning ==
  ASSUME NEW w \in Worker, Return(w)
  PROVE  Frees(w, Idle) /\ Changes(w)
<1>1. Frees(w, Idle)
  BY IdleIsSound DEF Return, Frees, Becomes
<1> QED BY <1>1, IdleIsSound DEF Changes

(* Steps that go on or return, whatever they do to the sessions.           *)
LEMMA StepsChange ==
  ASSUME TypeInv, NEW w \in Worker,
         \/ Alive(w) \/ (Reap(w) /\ worker[w].op # "list") \/ Input(w)
         \/ ResetDevice(w) \/ ResetTunnel(w) \/ CreateTunnel(w)
         \/ Drive(w) \/ Answer(w) \/ Retry(w) \/ CreateDevice(w) \/ Mark(w) \/ Prove(w)
         \/ Look(w) \/ Check(w) \/ Settle(w) \/ Finish(w) \/ DropDevice(w) \/ DropTunnel(w)
  PROVE  Changes(w)
<1>t. worker \in [Worker -> WorkerState] /\ worker[w] \in WorkerState /\ Sound(worker[w])
  BY DEF TypeInv, TypeOK, Calls
<1>o. worker[w].op \in Ops \cup {"none"} /\ worker[w].tries \in Nat
  BY <1>t, TunnelAssumption DEF WorkerState
<1>g. \A step \in Steps : Goto(w, step) /\ Fits(worker[w], step) => Changes(w)
  BY GoingOn
<1>r. Return(w) => Changes(w)
  BY Returning
<1>1. CASE Alive(w) \/ Input(w)
  BY <1>1, <1>g, <1>r, <1>t, <1>o DEF Alive, Usable, Input, Fits, Sound, Steps, Ops
<1>2. CASE ResetDevice(w) \/ ResetTunnel(w) \/ CreateTunnel(w)
  BY <1>2, <1>g, <1>r, <1>t, <1>o, TunnelAssumption
     DEF ResetDevice, ResetTunnel, CreateTunnel, Fits, Sound, Steps, Ops, Opening
<1>3. CASE Drive(w) \/ Answer(w) \/ Retry(w)
  BY <1>3, <1>g, <1>r, <1>t, <1>o DEF Drive, Answer, Retry, Fits, Sound, Steps, Ops, Opening
<1>4. CASE CreateDevice(w) \/ Mark(w) \/ Prove(w)
  BY <1>4, <1>g, <1>r, <1>t, <1>o DEF CreateDevice, Mark, Prove, Fail, Fits, Sound, Steps, Ops, Opening
<1>5. CASE Look(w) \/ Check(w) \/ Settle(w) \/ Finish(w)
  BY <1>5, <1>g, <1>r, <1>t, <1>o
     DEF Look, Check, Settle, Finish, Fail, Fits, Sound, Steps, Ops, Opening
<1>6. CASE DropDevice(w) \/ DropTunnel(w)
  BY <1>6, <1>g, <1>r, <1>t, <1>o DEF DropDevice, DropTunnel, Fits, Sound, Steps, Ops, Opening
<1>7. CASE Reap(w) /\ worker[w].op # "list"
  BY <1>7, <1>g, <1>r, <1>t, <1>o DEF Reap, Fits, Sound, Steps, Ops, Opening
<1> QED BY <1>1, <1>2, <1>3, <1>4, <1>5, <1>6, <1>7

LEMMA OtherSteps ==
  ASSUME TypeInv, NEW w \in Worker,
         \/ Acquire(w) \/ Survey(w) \/ (Reap(w) /\ worker[w].op = "list")
         \/ Inspect(w) \/ Allocate(w) \/ Type(w)
  PROVE  Changes(w)
<1>t. worker \in [Worker -> WorkerState] /\ worker[w] \in WorkerState /\ Sound(worker[w])
  BY DEF TypeInv, TypeOK, Calls
<1>o. worker[w].op \in Ops \cup {"none"} /\ worker[w].tries \in Nat
  BY <1>t, TunnelAssumption DEF WorkerState
<1>g. \A step \in Steps : Goto(w, step) /\ Fits(worker[w], step) => Changes(w)
  BY GoingOn
<1>r. Return(w) => Changes(w)
  BY Returning
<1>k. ASSUME NEW k \in WorkerState, k.op = worker[w].op, k.dev = worker[w].dev,
             k.at \notin {"idle", "waiting", "survey"}, worker[w].at \notin {"idle", "waiting", "survey"},
             Sound(k), worker' = [worker EXCEPT ![w] = k], UNCHANGED lock
      PROVE  Changes(w)
  BY <1>k DEF Changes, Keeps, Becomes, Holding
<1>1. CASE Acquire(w)
  <2>1. CASE Return(w)
    BY <2>1, <1>r
  <2>2. CASE ~Return(w)
    <3> DEFINE d == worker[w].dev
               k == [worker[w] EXCEPT !.at = FirstStep(worker[w].op, d)]
    <3>1. worker[w].at = "waiting" /\ lock[d] = None /\ lock' = [lock EXCEPT ![d] = w]
          /\ worker' = [worker EXCEPT ![w] = k]
      BY <1>1, <2>2 DEF Acquire
    <3>2. worker[w].op \in {"open", "send", "read", "close"} /\ d \in Device
          /\ worker[w].tries = 0 /\ ~worker[w].reused
      BY <3>1, <1>t, <1>o DEF Sound, WorkerState, Ops
    <3>3. FirstStep(worker[w].op, d) \in {"reset_device", "inspect", "alive", "drop_device"}
          /\ (FirstStep(worker[w].op, d) \in {"reset_device", "inspect"} => worker[w].op = "open")
          /\ (FirstStep(worker[w].op, d) = "alive" => worker[w].op \in {"send", "read"})
          /\ (FirstStep(worker[w].op, d) = "drop_device" => worker[w].op = "close")
      BY <3>2 DEF FirstStep
    <3>4. k \in WorkerState
      BY <3>3, <1>t DEF WorkerState, Steps
    <3>5. k.op = worker[w].op /\ k.dev = d /\ k.at = FirstStep(worker[w].op, d) /\ k.tries = 0
          /\ k.reused = worker[w].reused
      BY <3>2, <1>t DEF WorkerState
    <3> HIDE DEF k
    <3>6. Sound(k) /\ Holding(k, d)
      BY <3>2, <3>3, <3>5, TunnelAssumption DEF Sound, Holding, Opening
    <3> QED BY <3>1, <3>4, <3>5, <3>6 DEF Changes, Takes, Becomes
  <2> QED BY <2>1, <2>2
<1>2. CASE Survey(w)
  <2>1. CASE Return(w)
    BY <2>1, <1>r
  <2>2. CASE ~Return(w)
    <3>1. PICK d \in worker[w].todo :
            worker' = [worker EXCEPT ![w] = [worker[w] EXCEPT !.todo = @ \ {d},
                         !.dev = IF ToReap(d) THEN d ELSE None,
                         !.at = IF ToReap(d) THEN "reap" ELSE "survey"]]
      BY <1>2, <2>2 DEF Survey
    <3> DEFINE k == [worker[w] EXCEPT !.todo = @ \ {d}, !.dev = IF ToReap(d) THEN d ELSE None,
                                      !.at = IF ToReap(d) THEN "reap" ELSE "survey"]
    <3>2. worker[w].at = "survey" /\ UNCHANGED lock /\ worker[w].op = "list" /\ worker[w].dev = None
          /\ d \in Device /\ worker[w].tries = 0 /\ ~worker[w].reused
      BY <1>2, <2>2, <1>t, <1>o DEF Survey, Sound, WorkerState, Ops, Opening
    <3>3. k \in WorkerState
      BY <3>2, <1>t DEF WorkerState, Steps
    <3>4. /\ k.op = "list" /\ k.tries = worker[w].tries /\ k.reused = worker[w].reused
          /\ k.dev = IF ToReap(d) THEN d ELSE None
          /\ k.at = IF ToReap(d) THEN "reap" ELSE "survey"
      BY <3>2, <1>t DEF WorkerState
    <3>6. worker' = [worker EXCEPT ![w] = k]
      BY <3>1
    <3> HIDE DEF k
    <3>5. Sound(k) /\ \A e \in Device : ~Holding(k, e) /\ ~Holding(worker[w], e)
      <4>1. \A e \in Device : ~Holding(k, e) /\ ~Holding(worker[w], e)
        BY <3>2, <3>4 DEF Holding
      <4>2. d # None
        BY <3>2, TunnelAssumption
      <4>3. CASE ToReap(d)
        <5>1. k.dev = d /\ k.at = "reap" /\ k.op = "list" /\ k.tries = 0 /\ ~k.reused
          BY <4>3, <3>2, <3>4
        <5> QED BY <4>1, <4>2, <5>1 DEF Sound
      <4>4. CASE ~ToReap(d)
        <5>1. k.dev = None /\ k.at = "survey" /\ k.op = "list" /\ k.tries = 0 /\ ~k.reused
          BY <4>4, <3>2, <3>4
        <5> QED BY <4>1, <5>1 DEF Sound
      <4> QED BY <4>3, <4>4
    <3> QED BY <3>2, <3>3, <3>5, <3>6 DEF Changes, Keeps, Becomes
  <2> QED BY <2>1, <2>2
<1>3. CASE Reap(w) /\ worker[w].op = "list"
  <2> DEFINE k == [worker[w] EXCEPT !.at = "survey", !.dev = None]
  <2>1. worker' = [worker EXCEPT ![w] = k] /\ UNCHANGED lock
    BY <1>3 DEF Reap
  <2>2. /\ k \in WorkerState /\ k.op = "list" /\ k.at = "survey" /\ k.dev = None
        /\ k.tries = worker[w].tries /\ k.reused = worker[w].reused
    BY <1>3, <1>t DEF WorkerState, Steps
  <2>4. worker[w].at = "reap" /\ worker[w].tries = 0 /\ ~worker[w].reused
    BY <1>3, <1>t DEF Reap, Sound
  <2> HIDE DEF k
  <2>3. Sound(k) /\ \A e \in Device : ~Holding(k, e) /\ ~Holding(worker[w], e)
    BY <1>3, <2>2, <2>4 DEF Sound, Holding
  <2> QED BY <2>1, <2>2, <2>3 DEF Changes, Keeps, Becomes
<1>4. CASE Inspect(w)
  <2> DEFINE k == [worker[w] EXCEPT !.at = "prove", !.reused = TRUE]
  <2>1. worker[w].at = "inspect" /\ worker[w].op = "open"
    BY <1>4, <1>t, <1>o DEF Inspect, Sound, Ops
  <2>2. CASE worker' = [worker EXCEPT ![w] = k] /\ UNCHANGED lock
    <3>1. /\ k \in WorkerState /\ k.op = "open" /\ k.at = "prove"
          /\ k.dev = worker[w].dev /\ k.tries = worker[w].tries
      BY <2>1, <1>t DEF WorkerState, Steps
    <3> HIDE DEF k
    <3>2. Sound(k)
      BY <2>1, <3>1, <1>t DEF Sound, Opening
    <3> QED BY <2>1, <2>2, <3>1, <3>2, <1>k
  <2> HIDE DEF k
  <2>3. CASE Return(w) \/ \E step \in {"reap", "reset_device", "allocate"} : Goto(w, step)
    <3>1. worker[w].tries = 0 /\ ~worker[w].reused /\ 0 < PortAttempts
      BY <2>1, <1>t, TunnelAssumption DEF Sound
    <3>2. \A step \in {"reap", "reset_device", "allocate"} : Fits(worker[w], step) /\ step \in Steps
      BY <2>1, <3>1 DEF Fits, Opening, Steps
    <3> QED BY <2>3, <3>2, <1>g, <1>r
  <2> QED BY <1>4, <2>2, <2>3 DEF Inspect, k
<1>5. CASE Allocate(w)
  <2>1. CASE Return(w)
    BY <2>1, <1>r
  <2>2. CASE ~Return(w)
    <3>1. PICK p \in Port :
            worker' = [worker EXCEPT ![w] = [worker[w] EXCEPT !.at = "create_tunnel", !.port = p,
                                                              !.tries = @ + 1]]
      BY <1>5, <2>2 DEF Allocate
    <3>6. worker[w].at = "allocate" /\ UNCHANGED lock
      BY <1>5, <2>2 DEF Allocate
    <3>7. worker[w].op = "open" /\ worker[w].tries < PortAttempts
      BY <3>6, <1>t, <1>o DEF Sound, Ops
    <3>2. worker[w].at = "allocate" /\ worker[w].op = "open" /\ UNCHANGED lock
          /\ worker[w].tries + 1 \in 0..PortAttempts
      BY <3>6, <3>7, <1>o, TunnelAssumption
    <3> DEFINE k == [worker[w] EXCEPT !.at = "create_tunnel", !.port = p, !.tries = @ + 1]
    <3>3. k \in WorkerState
      BY <3>2, <1>t DEF WorkerState, Steps
    <3>4. k.op = "open" /\ k.at = "create_tunnel" /\ k.dev = worker[w].dev /\ k.port = p
          /\ k.reused = worker[w].reused
      BY <3>2, <1>t DEF WorkerState
    <3> HIDE DEF k
    <3>5. Sound(k)
      BY <3>2, <3>4, <1>t DEF Sound, Opening
    <3> QED BY <3>1, <3>2, <3>3, <3>4, <3>5, <1>k DEF k
  <2> QED BY <2>1, <2>2
<1>6. CASE Type(w)
  <2>1. worker[w].at = "type" /\ worker[w].op = "open"
    BY <1>6, <1>t, <1>o DEF Type, Sound, Ops
  <2>2. CASE Fail(w)
    <3>1. Fits(worker[w], "drop_device") /\ "drop_device" \in Steps
      BY <2>1 DEF Fits, Steps
    <3> QED BY <2>2, <3>1, <1>g, <1>r DEF Fail
  <2>3. CASE ~Fail(w)
    <3> DEFINE name == device[worker[w].dev].screen = "username"
               k == [worker[w] EXCEPT !.at = IF name THEN "look" ELSE "settle", !.named = name]
    <3>1. worker' = [worker EXCEPT ![w] = k] /\ UNCHANGED lock
      BY <1>6, <2>3 DEF Type
    <3>2. /\ k \in WorkerState /\ k.op = "open" /\ k.at \in {"look", "settle"}
          /\ k.dev = worker[w].dev
      BY <2>1, <1>t DEF WorkerState, Steps
    <3> HIDE DEF k
    <3>3. Sound(k)
      BY <2>1, <3>2, <1>t DEF Sound, Opening
    <3> QED BY <2>1, <3>1, <3>2, <3>3, <1>k
  <2> QED BY <2>2, <2>3
<1> QED BY <1>1, <1>2, <1>3, <1>4, <1>5, <1>6

-----------------------------------------------------------------------------
(* What a thread knows of the session of its device, step by step.         *)

Vacant == {"reset_tunnel", "allocate", "create_tunnel", "drive", "answer", "retry", "create_device"}
Proven == {"look", "check", "type", "settle", "final"}

Known(w) ==
  LET k == worker[w]
      d == worker[w].dev
  IN /\ k.at \in Vacant => device[d] = None
     /\ k.at \in {"mark", "prove"} => device[d] # None
     /\ k.at \in Proven => device[d] # None /\ device[d].peer = "own"
     /\ k.at \in {"check", "type"} => device[d].screen \in {"username", "password"}
     /\ k.at = "create_device" /\ TunnelAlive(d) => tunnel[d].stage = "listening"
     /\ k.at = "input" /\ restarts = 0 => d \in handed

(* A session that is not whole, or not yet reported, is being built or     *)
(* removed by the thread that holds its lock.                              *)
Halfway == {"reset_tunnel", "drive", "answer", "retry", "create_device", "drop_device", "drop_tunnel"}
Fresh == {"mark", "drop_device"} \cup {"prove"} \cup Proven

Sane(d) ==
  /\ device[d] # None /\ TunnelAlive(d) => tunnel[d].stage = "listening"
  /\ d \in handed => device[d] # None

Excused(k, d) ==
  restarts = 0 =>
    /\ tunnel[d] # None /\ device[d] = None => k.at \in Halfway
    /\ device[d] # None /\ ~device[d].marked => k.at \in {"mark", "drop_device"}
    /\ device[d] # None /\ d \notin handed => k.at \in Fresh /\ ~k.reused

Accounted(d) ==
  Excused(Idle, d) \/ \E w \in Worker : Holding(worker[w], d) /\ Excused(worker[w], d)

SessionInv ==
  /\ \A w \in Worker : Known(w)
  /\ \A d \in Device : Sane(d) /\ Accounted(d)

Inv == TypeInv /\ SessionInv

-----------------------------------------------------------------------------
LEMMA OneHolder ==
  ASSUME TypeInv, NEW d \in Device, NEW v \in Worker, NEW w \in Worker,
         Holding(worker[v], d), Holding(worker[w], d)
  PROVE  v = w
BY DEF TypeInv, TypeOK, Holding

LEMMA IdleExcuses ==
  ASSUME NEW k, NEW d \in Device, Excused(Idle, d) PROVE Excused(k, d)
BY DEF Excused, Idle, Halfway, Fresh, Proven

SessionTypes ==
  /\ tunnel \in [Device -> Tunnel \cup {None}] /\ device \in [Device -> Telnet \cup {None}]
  /\ taken \subseteq Port /\ handed \subseteq Device

(* A step of the thread that holds a device's lock is about that device.   *)
Local(w, d) ==
  /\ \A v \in Worker \ {w} : worker'[v] = worker[v]
  /\ \A e \in Device \ {d} : /\ device'[e] = device[e] /\ tunnel'[e] = tunnel[e]
                             /\ (e \in handed' <=> e \in handed)
  /\ restarts' = restarts
  /\ worker'[w] = Idle \/ Holding(worker'[w], d)

LEMMA StepOfHolder ==
  ASSUME Inv, NEW w \in Worker, NEW d \in Device, Holding(worker[w], d),
         Local(w, d),
         Excused(worker[w], d) => Excused(worker[w], d)',
         Known(w)', Sane(d)'
  PROVE  SessionInv'
<1>1. ASSUME NEW v \in Worker, v # w PROVE Known(v)'
  <2>1. Known(v) /\ worker'[v] = worker[v] /\ Sound(worker[v])
    BY <1>1 DEF Inv, SessionInv, TypeInv, Calls, Local
  <2>2. CASE worker[v].dev \in Device \ {d}
    BY <2>1, <2>2 DEF Known, TunnelAlive, Local
  <2>3. CASE worker[v].dev \notin Device \ {d}
    <3>1. worker[v].dev = None \/ worker[v].op = "list" \/ worker[v].at = "waiting"
      <4>1. worker[v].dev \in Device \cup {None}
        BY DEF Inv, TypeInv, TypeOK, WorkerState
      <4> QED BY <1>1, <2>3, <4>1, OneHolder DEF Inv, Holding
    <3>2. worker[v].at \in {"idle", "survey", "reap", "waiting"}
      BY <2>1, <3>1 DEF Sound
    <3> QED BY <2>1, <3>2 DEF Known, Vacant, Proven
  <2> QED BY <2>2, <2>3
<1>2. ASSUME NEW e \in Device, e # d PROVE Sane(e)' /\ Accounted(e)'
  <2>1. Sane(e) /\ Accounted(e)
    BY DEF Inv, SessionInv
  <2>2. Sane(e)'
    BY <1>2, <2>1 DEF Sane, TunnelAlive, Local
  <2>3. \A k : Excused(k, e) => Excused(k, e)'
    BY <1>2 DEF Excused, Local
  <2>4. ~Holding(worker[w], e)
    BY <1>2 DEF Holding
  <2> QED BY <2>1, <2>2, <2>3, <2>4 DEF Accounted, Local
<1>3. Accounted(d)'
  <2>1. Excused(worker[w], d)
    BY IdleExcuses, OneHolder DEF Inv, SessionInv, Accounted
  <2>2. Excused(worker[w], d)'
    BY <2>1
  <2> QED BY <2>2, IdleExcuses DEF Accounted, Local
<1> QED BY <1>1, <1>2, <1>3 DEF SessionInv

LEMMA GotoMeans ==
  ASSUME TypeInv, NEW w \in Worker, NEW step \in Steps, Goto(w, step)
  PROVE  /\ worker'[w].at = step /\ worker'[w].dev = worker[w].dev /\ worker'[w].op = worker[w].op
         /\ worker'[w].reused = worker[w].reused
         /\ \A v \in Worker \ {w} : worker'[v] = worker[v]
<1>1. worker \in [Worker -> WorkerState] /\ worker[w] \in WorkerState
  BY DEF TypeInv, TypeOK
<1>2. worker' = [worker EXCEPT ![w] = [worker[w] EXCEPT !.at = step]]
  BY DEF Goto
<1> QED BY <1>1, <1>2 DEF WorkerState

LEMMA ReturnMeans ==
  ASSUME TypeInv, NEW w \in Worker, Return(w)
  PROVE  worker'[w] = Idle /\ \A v \in Worker \ {w} : worker'[v] = worker[v]
BY DEF TypeInv, TypeOK, Return

LEMMA CloseTunnelMeans ==
  ASSUME SessionTypes, NEW d \in Device, CloseTunnel(d)
  PROVE  /\ tunnel' = [tunnel EXCEPT ![d] = None] /\ device' = device
         /\ tunnel' \in [Device -> Tunnel \cup {None}] /\ taken' \subseteq Port
BY DEF SessionTypes, CloseTunnel

(* What the steps of a holder have in common.                              *)
Right(w, d) ==
  /\ SessionTypes' /\ Local(w, d) /\ Known(w)' /\ Sane(d)'
  /\ Excused(worker[w], d) => Excused(worker[w], d)'

(* Steps that only look.                                                   *)
LEMMA Looking ==
  ASSUME Inv, NEW w \in Worker, NEW d \in Device, worker[w].dev = d, Holding(worker[w], d),
         \/ Inspect(w) \/ Alive(w) \/ Allocate(w) \/ Drive(w) \/ Prove(w)
         \/ Look(w) \/ Check(w) \/ Settle(w)
  PROVE  Right(w, d)
<1>t. /\ SessionTypes /\ Known(w) /\ Sane(d) /\ Sound(worker[w])
      /\ worker \in [Worker -> WorkerState] /\ worker[w] \in WorkerState
  BY DEF Inv, TypeInv, TypeOK, SessionTypes, SessionInv, Calls
<1>u. UNCHANGED <<device, tunnel, taken, handed, restarts>>
  BY DEF Inspect, Alive, Allocate, Drive, Prove, Look, Check, Settle, sessions
<1>g. ASSUME NEW step \in Steps, Goto(w, step)
      PROVE  /\ worker'[w].at = step /\ worker'[w].dev = d /\ worker'[w].op = worker[w].op
             /\ worker'[w].reused = worker[w].reused
             /\ \A v \in Worker \ {w} : worker'[v] = worker[v]
  BY <1>g, GotoMeans DEF Inv
<1>r. Return(w) => worker'[w] = Idle /\ \A v \in Worker \ {w} : worker'[v] = worker[v]
  BY ReturnMeans DEF Inv
<1>s. SessionTypes' /\ Sane(d)'
  BY <1>t, <1>u DEF SessionTypes, Sane, TunnelAlive
<1>1. CASE Prove(w)
  <2>1. worker[w].at = "prove"
    BY <1>1 DEF Prove
  <2>2. CASE Owned(d) /\ Goto(w, "look")
    <3>1. worker'[w].at = "look"
      BY <2>2, <1>g DEF Steps
    <3> QED BY <2>1, <2>2, <3>1, <1>t, <1>u, <1>s, <1>g
       DEF Right, Known, Local, Excused, Owned, DeviceAlive, Steps, Vacant, Halfway, Fresh, Proven, Holding
  <2>3. CASE Fail(w)
    <3> QED BY <2>1, <2>3, <1>t, <1>u, <1>s, <1>g, <1>r
       DEF Right, Fail, Known, Local, Excused, Steps, Vacant, Halfway, Fresh, Proven, Holding, Idle
  <2> QED BY <1>1, <2>2, <2>3 DEF Prove
<1>f. ASSUME Fail(w), worker[w].at \in {"prove"} \cup Proven PROVE Right(w, d)
  BY <1>f, <1>t, <1>u, <1>s, <1>g, <1>r
     DEF Fail, Right, Known, Local, Excused, Steps, Vacant, Halfway, Fresh, Proven, Holding, Idle
<1>2. CASE Look(w)
  <2>1. worker[w].at = "look" /\ device[d] # None /\ device[d].peer = "own"
    BY <1>2, <1>t DEF Look, Known, Proven
  <2>2. CASE Fail(w)
    BY <2>1, <2>2, <1>f DEF Proven
  <2>3. CASE device[d].screen \in {"username", "password"} /\ Goto(w, "check")
    BY <2>1, <2>3, <1>t, <1>u, <1>s, <1>g
       DEF Right, Known, Local, Excused, Steps, Vacant, Halfway, Fresh, Proven, Holding
  <2>4. CASE Goto(w, "final")
    BY <2>1, <2>4, <1>t, <1>u, <1>s, <1>g
       DEF Right, Known, Local, Excused, Steps, Vacant, Halfway, Fresh, Proven, Holding
  <2> QED BY <1>2, <2>2, <2>3, <2>4 DEF Look
<1>3. CASE Check(w)
  <2>1. /\ worker[w].at = "check" /\ device[d] # None /\ device[d].peer = "own"
        /\ device[d].screen \in {"username", "password"}
    BY <1>3, <1>t DEF Check, Known, Proven
  <2>2. CASE Fail(w)
    BY <2>1, <2>2, <1>f DEF Proven
  <2>3. CASE Goto(w, "type")
    BY <2>1, <2>3, <1>t, <1>u, <1>s, <1>g
       DEF Right, Known, Local, Excused, Steps, Vacant, Halfway, Fresh, Proven, Holding
  <2> QED BY <1>3, <2>2, <2>3 DEF Check
<1>4. CASE Settle(w)
  <2>1. worker[w].at = "settle" /\ device[d] # None /\ device[d].peer = "own"
    BY <1>4, <1>t DEF Settle, Known, Proven
  <2>2. CASE Fail(w)
    BY <2>1, <2>2, <1>f DEF Proven
  <2>3. CASE Goto(w, "final")
    BY <2>1, <2>3, <1>t, <1>u, <1>s, <1>g
       DEF Right, Known, Local, Excused, Steps, Vacant, Halfway, Fresh, Proven, Holding
  <2> QED BY <1>4, <2>2, <2>3 DEF Settle
<1>5. CASE Drive(w)
  <2>1. worker[w].at = "drive" /\ device[d] = None
    BY <1>5, <1>t DEF Drive, Vacant, Known
  <2>2. CASE Goto(w, "answer") \/ Goto(w, "retry") \/ Goto(w, "drop_tunnel")
    BY <2>1, <2>2, <1>t, <1>u, <1>s, <1>g
       DEF Right, Known, Local, Excused, Steps, Vacant, Halfway, Fresh, Proven, Holding
  <2>3. CASE tunnel[d].stage = "listening" /\ Goto(w, "create_device")
    BY <2>1, <2>3, <1>t, <1>u, <1>s, <1>g
       DEF Right, Known, Local, Excused, Steps, Vacant, Halfway, Fresh, Proven, Holding
  <2> QED BY <1>5, <2>2, <2>3 DEF Drive
<1>6. CASE Alive(w)
  <2>1. worker[w].at = "alive" /\ worker[w].op # "open"
    BY <1>6, <1>t DEF Alive, Sound, Opening
  <2>2. CASE Return(w)
    BY <2>1, <2>2, <1>t, <1>u, <1>s, <1>r
       DEF Right, Known, Local, Excused, Vacant, Halfway, Fresh, Proven, Holding, Idle
  <2>3. CASE Goto(w, "reap")
    BY <2>1, <2>3, <1>t, <1>u, <1>s, <1>g
       DEF Right, Known, Local, Excused, Steps, Vacant, Halfway, Fresh, Proven, Holding
  <2>4. CASE Usable(d) /\ Goto(w, "input")
    <3>1. Excused(worker[w], d)
      BY OneHolder, IdleExcuses DEF Inv, SessionInv, Accounted
    <3>2. restarts = 0 => d \in handed
      BY <2>1, <2>4, <3>1 DEF Excused, Fresh, Proven, Usable, DeviceAlive
    <3> QED BY <2>1, <2>4, <3>2, <1>t, <1>u, <1>s, <1>g
       DEF Right, Known, Local, Excused, Steps, Vacant, Halfway, Fresh, Proven, Holding
  <2> QED BY <1>6, <2>2, <2>3, <2>4 DEF Alive
<1>7. CASE Inspect(w)
  <2>1. worker[w].at = "inspect"
    BY <1>7 DEF Inspect
  <2>2. CASE Return(w)
    BY <2>1, <2>2, <1>t, <1>u, <1>s, <1>r
       DEF Right, Known, Local, Excused, Vacant, Halfway, Fresh, Proven, Holding, Idle
  <2>3. CASE Goto(w, "reap") \/ Goto(w, "reset_device") \/ (device[d] = None /\ Goto(w, "allocate"))
    BY <2>1, <2>3, <1>t, <1>u, <1>s, <1>g
       DEF Right, Known, Local, Excused, Steps, Vacant, Halfway, Fresh, Proven, Holding
  <2>4. CASE Reusable(d) /\ worker' = [worker EXCEPT ![w].at = "prove", ![w].reused = TRUE]
    <3>1. /\ worker'[w].at = "prove" /\ worker'[w].dev = d /\ worker'[w].op = worker[w].op
          /\ \A v \in Worker \ {w} : worker'[v] = worker[v]
      BY <2>4, <1>t DEF WorkerState
    <3>2. device[d] # None
      BY <2>4 DEF Reusable, DeviceAlive
    <3>3. restarts = 0 => /\ device[d] # None => device[d].marked /\ d \in handed
                          /\ tunnel[d] # None => device[d] # None
      BY OneHolder, IdleExcuses, <2>1 DEF Inv, SessionInv, Accounted, Excused, Halfway, Fresh, Proven
    <3> QED BY <2>1, <3>1, <3>2, <3>3, <1>t, <1>u, <1>s
       DEF Right, Known, Local, Excused, Vacant, Halfway, Fresh, Proven, Holding
  <2> QED BY <1>7, <2>2, <2>3, <2>4 DEF Inspect
<1>8. CASE Allocate(w)
  <2>1. worker[w].at = "allocate" /\ device[d] = None
    BY <1>8, <1>t DEF Allocate, Known, Vacant
  <2>2. CASE Return(w)
    BY <2>1, <2>2, <1>t, <1>u, <1>s, <1>r
       DEF Right, Known, Local, Excused, Vacant, Halfway, Fresh, Proven, Holding, Idle
  <2>3. CASE ~Return(w)
    <3>1. PICK p \in Port :
            worker' = [worker EXCEPT ![w] = [worker[w] EXCEPT !.at = "create_tunnel", !.port = p,
                                                              !.tries = @ + 1]]
      BY <1>8, <2>3 DEF Allocate
    <3>2. /\ worker'[w].at = "create_tunnel" /\ worker'[w].dev = d /\ worker'[w].op = worker[w].op
          /\ \A v \in Worker \ {w} : worker'[v] = worker[v]
      BY <3>1, <1>t DEF WorkerState
    <3> QED BY <2>1, <3>2, <1>t, <1>u, <1>s
       DEF Right, Known, Local, Excused, Vacant, Halfway, Fresh, Proven, Holding
  <2> QED BY <2>2, <2>3
<1> QED BY <1>1, <1>2, <1>3, <1>4, <1>5, <1>6, <1>7, <1>8

(* Steps that close one of the two sessions.                               *)
LEMMA Closing ==
  ASSUME Inv, NEW w \in Worker, NEW d \in Device, worker[w].dev = d, Holding(worker[w], d),
         \/ Reap(w) \/ ResetDevice(w) \/ ResetTunnel(w) \/ Retry(w)
         \/ DropDevice(w) \/ DropTunnel(w)
  PROVE  Right(w, d)
<1>t. /\ SessionTypes /\ Known(w) /\ Sane(d) /\ Sound(worker[w])
      /\ worker \in [Worker -> WorkerState] /\ worker[w] \in WorkerState
      /\ None \notin Tunnel \cup Telnet
  BY InitialSessionsAssumption DEF Inv, TypeInv, TypeOK, SessionTypes, SessionInv, Calls
<1>g. ASSUME NEW step \in Steps, Goto(w, step)
      PROVE  /\ worker'[w].at = step /\ worker'[w].dev = d /\ worker'[w].op = worker[w].op
             /\ worker'[w].reused = worker[w].reused
             /\ \A v \in Worker \ {w} : worker'[v] = worker[v]
  BY <1>g, GotoMeans DEF Inv
<1>r. Return(w) => worker'[w] = Idle /\ \A v \in Worker \ {w} : worker'[v] = worker[v]
  BY ReturnMeans DEF Inv
<1>u. restarts' = restarts
  BY DEF Reap, ResetDevice, ResetTunnel, Retry, DropDevice, DropTunnel
<1>1. CASE ResetDevice(w) \/ DropDevice(w)
  <2>1. /\ device' = [device EXCEPT ![d] = None] /\ UNCHANGED <<tunnel, taken>>
        /\ handed' = handed \ {d}
        /\ \/ worker[w].at = "reset_device" /\ Goto(w, "reset_tunnel")
           \/ worker[w].at = "drop_device" /\ Goto(w, "drop_tunnel")
    BY <1>1 DEF ResetDevice, DropDevice, CloseDevice
  <2>2. SessionTypes' /\ Sane(d)'
    BY <2>1, <1>t DEF SessionTypes, Sane, TunnelAlive
  <2>3. device'[d] = None /\ \A e \in Device \ {d} : device'[e] = device[e]
    BY <2>1, <1>t DEF SessionTypes
  <2> QED BY <2>1, <2>2, <2>3, <1>t, <1>u, <1>g
     DEF Right, Known, Local, Excused, Steps, Vacant, Halfway, Fresh, Proven, Holding
<1>2. CASE Reap(w) \/ ResetTunnel(w) \/ Retry(w) \/ DropTunnel(w)
  <2>1. handed' = handed /\ CloseTunnel(d)
    BY <1>2 DEF Reap, ResetTunnel, Retry, DropTunnel
  <2>2. /\ tunnel' = [tunnel EXCEPT ![d] = None] /\ device' = device /\ SessionTypes'
    BY <2>1, <1>t, CloseTunnelMeans DEF SessionTypes
  <2>3. Sane(d)' /\ (Excused(worker[w], d) => tunnel'[d] = None)
    BY <2>1, <2>2, <1>t DEF Sane, TunnelAlive, SessionTypes
  <2>4. CASE Reap(w)
    <3>1. /\ worker[w].at = "reap" /\ worker[w].op # "list"
          /\ Goto(w, "reset_device") \/ Return(w)
      BY <2>4 DEF Reap, Holding
    <3> QED BY <2>1, <2>2, <2>3, <3>1, <1>t, <1>u, <1>g, <1>r
       DEF Right, Known, Local, Excused, Steps, Vacant, Halfway, Fresh, Proven, Holding, Idle
  <2>5. CASE ResetTunnel(w)
    <3>1. worker[w].at = "reset_tunnel" /\ Goto(w, "allocate")
      BY <2>5 DEF ResetTunnel
    <3> QED BY <2>1, <2>2, <2>3, <3>1, <1>t, <1>u, <1>g
       DEF Right, Known, Local, Excused, Steps, Vacant, Halfway, Fresh, Proven, Holding
  <2>6. CASE Retry(w)
    <3>1. worker[w].at = "retry" /\ (Goto(w, "allocate") \/ Return(w))
      BY <2>6 DEF Retry
    <3> QED BY <2>1, <2>2, <2>3, <3>1, <1>t, <1>u, <1>g, <1>r
       DEF Right, Known, Local, Excused, Steps, Vacant, Halfway, Fresh, Proven, Holding, Idle
  <2>7. CASE DropTunnel(w)
    <3>1. worker[w].at = "drop_tunnel" /\ Return(w)
      BY <2>7 DEF DropTunnel
    <3> QED BY <2>1, <2>2, <2>3, <3>1, <1>t, <1>u, <1>r
       DEF Right, Known, Local, Excused, Vacant, Halfway, Fresh, Proven, Holding, Idle
  <2> QED BY <1>2, <2>4, <2>5, <2>6, <2>7
<1> QED BY <1>1, <1>2

(* Steps that create a session, type into one, or report it.               *)
LEMMA Making ==
  ASSUME Inv, NEW w \in Worker, NEW d \in Device, worker[w].dev = d, Holding(worker[w], d),
         \/ CreateTunnel(w) \/ Answer(w) \/ CreateDevice(w) \/ Mark(w)
         \/ Type(w) \/ Input(w) \/ Finish(w)
  PROVE  Right(w, d)
<1>t. /\ SessionTypes /\ Known(w) /\ Sane(d) /\ Sound(worker[w])
      /\ worker \in [Worker -> WorkerState] /\ worker[w] \in WorkerState
      /\ None \notin Tunnel \cup Telnet
  BY InitialSessionsAssumption DEF Inv, TypeInv, TypeOK, SessionTypes, SessionInv, Calls
<1>g. ASSUME NEW step \in Steps, Goto(w, step)
      PROVE  /\ worker'[w].at = step /\ worker'[w].dev = d /\ worker'[w].op = worker[w].op
             /\ worker'[w].reused = worker[w].reused
             /\ \A v \in Worker \ {w} : worker'[v] = worker[v]
  BY <1>g, GotoMeans DEF Inv
<1>r. Return(w) => worker'[w] = Idle /\ \A v \in Worker \ {w} : worker'[v] = worker[v]
  BY ReturnMeans DEF Inv
<1>u. restarts' = restarts
  BY DEF CreateTunnel, Answer, CreateDevice, Mark, Type, Input, Finish
<1>1. CASE CreateTunnel(w) \/ Answer(w)
  <2>1. device' = device /\ handed' = handed /\ device[d] = None /\ taken' = taken
    BY <1>1, <1>t DEF CreateTunnel, Answer, SetTunnel, Known, Vacant, sessions
  <2>2. Sound(worker[w]) /\ (worker[w].at = "create_tunnel" => worker[w].port \in Port)
    BY <1>t DEF Sound
  <2>3. tunnel' = tunnel \/ \E t \in Tunnel : tunnel' = [tunnel EXCEPT ![d] = t]
    <3>1. CASE CreateTunnel(w)
      <4>1. [alive |-> TRUE, port |-> worker[w].port, stage |-> "blank"] \in Tunnel
        BY <3>1, <2>2 DEF CreateTunnel, Tunnel
      <4> QED BY <3>1, <4>1 DEF CreateTunnel, SetTunnel, sessions
    <3>2. CASE Answer(w)
      <4>1. TunnelAlive(d) => [tunnel[d] EXCEPT !.stage = "answered"] \in Tunnel
        BY <1>t DEF TunnelAlive, SessionTypes, Tunnel
      <4> QED BY <3>2, <4>1 DEF Answer, SetTunnel, sessions
    <3> QED BY <1>1, <3>1, <3>2
  <2>4. SessionTypes' /\ Sane(d)' /\ \A e \in Device \ {d} : tunnel'[e] = tunnel[e]
    BY <2>1, <2>3, <1>t DEF SessionTypes, Sane
  <2>5. CASE CreateTunnel(w)
    <3>1. /\ worker[w].at = "create_tunnel"
          /\ Goto(w, "drive") \/ (Return(w) /\ tunnel' = tunnel)
      BY <2>5 DEF CreateTunnel, sessions
    <3> QED BY <2>1, <2>4, <3>1, <1>t, <1>u, <1>g, <1>r
       DEF Right, Known, Local, Excused, Steps, Vacant, Halfway, Fresh, Proven, Holding, Idle
  <2>6. CASE Answer(w)
    <3>1. worker[w].at = "answer" /\ (Goto(w, "drive") \/ Goto(w, "drop_tunnel"))
      BY <2>6 DEF Answer
    <3> QED BY <2>1, <2>4, <3>1, <1>t, <1>u, <1>g
       DEF Right, Known, Local, Excused, Steps, Vacant, Halfway, Fresh, Proven, Holding
  <2> QED BY <1>1, <2>5, <2>6
<1>2. CASE CreateDevice(w)
  <2>1. worker[w].at = "create_device" /\ device[d] = None /\ worker[w].port \in Port
        /\ handed' = handed /\ d \notin handed
    BY <1>2, <1>t DEF CreateDevice, Known, Vacant, Sound, Sane
  <2>2. CASE Goto(w, "drop_device") /\ UNCHANGED sessions
    <3>1. SessionTypes' /\ Sane(d)'
      BY <2>1, <2>2, <1>t DEF sessions, SessionTypes, Sane, TunnelAlive
    <3> QED BY <2>1, <2>2, <3>1, <1>t, <1>u, <1>g
       DEF Right, Known, Local, Excused, Steps, Vacant, Halfway, Fresh, Proven, Holding, sessions
  <2>3. CASE SetDevice(d, [alive |-> TRUE, marked |-> FALSE, port |-> worker[w].port,
                           peer |-> "none", screen |-> "blank"]) /\ Goto(w, "mark")
    <3> DEFINE t == [alive |-> TRUE, marked |-> FALSE, port |-> worker[w].port,
                     peer |-> "none", screen |-> "blank"]
    <3>1. t \in Telnet
      BY <2>1 DEF Telnet
    <3>2. device' = [device EXCEPT ![d] = t] /\ UNCHANGED <<tunnel, taken>>
      BY <2>3 DEF SetDevice
    <3> HIDE DEF t
    <3>3. device'[d] = t /\ t # None /\ \A e \in Device \ {d} : device'[e] = device[e]
      BY <3>1, <3>2, <1>t DEF SessionTypes
    <3>4. SessionTypes'
      BY <3>1, <3>2, <2>1, <1>t DEF SessionTypes
    <3>5. Sane(d)'
      BY <3>2, <3>3, <2>1, <1>t DEF Known, Sane, TunnelAlive
    <3>6. ~worker[w].reused
      BY <2>1, <1>t DEF Sound
    <3> QED BY <2>1, <2>3, <3>2, <3>3, <3>4, <3>5, <3>6, <1>t, <1>u, <1>g
       DEF Right, Known, Local, Excused, Steps, Vacant, Halfway, Fresh, Proven, Holding
  <2> QED BY <1>2, <2>2, <2>3 DEF CreateDevice
<1>3. ASSUME NEW t \in Telnet, device' = [device EXCEPT ![d] = t], UNCHANGED <<tunnel, taken>>,
             device[d] # None, handed' = handed
      PROVE  /\ SessionTypes' /\ Sane(d)' /\ device'[d] = t /\ t # None
             /\ \A e \in Device \ {d} : device'[e] = device[e]
  BY <1>3, <1>t DEF SessionTypes, Sane, TunnelAlive
<1>4. CASE Mark(w)
  <2>1. worker[w].at = "mark" /\ device[d] # None /\ handed' = handed /\ device[d] \in Telnet
    BY <1>4, <1>t DEF Mark, Known, SessionTypes
  <2>2. CASE Goto(w, "drop_device") /\ UNCHANGED sessions
    <3>1. SessionTypes' /\ Sane(d)'
      BY <2>1, <2>2, <1>t DEF sessions, SessionTypes, Sane, TunnelAlive
    <3>2. ~worker[w].reused
      BY <2>1, <1>t DEF Sound
    <3> QED BY <2>1, <2>2, <3>1, <3>2, <1>t, <1>u, <1>g
       DEF Right, Known, Local, Excused, Steps, Vacant, Halfway, Fresh, Proven, Holding, sessions
  <2>3. CASE SetDevice(d, [device[d] EXCEPT !.marked = TRUE]) /\ Goto(w, "prove")
    <3>1. PICK t \in Telnet : t = [device[d] EXCEPT !.marked = TRUE]
      BY <2>1 DEF Telnet
    <3>2. t.marked
      BY <2>1, <3>1 DEF Telnet
    <3>3. device' = [device EXCEPT ![d] = t] /\ UNCHANGED <<tunnel, taken>>
      BY <2>3, <3>1 DEF SetDevice
    <3>4. /\ SessionTypes' /\ Sane(d)' /\ device'[d] = t /\ t # None
          /\ \A e \in Device \ {d} : device'[e] = device[e]
      BY <2>1, <3>3, <1>3
    <3>5. ~worker[w].reused
      BY <2>1, <1>t DEF Sound
    <3> QED BY <2>1, <2>3, <3>2, <3>3, <3>4, <3>5, <1>t, <1>u, <1>g
       DEF Right, Known, Local, Excused, Steps, Vacant, Halfway, Fresh, Proven, Holding
  <2> QED BY <1>4, <2>2, <2>3 DEF Mark
<1>5. CASE Type(w)
  <2>1. worker[w].at = "type" /\ device[d] # None /\ device[d].peer = "own" /\ handed' = handed
        /\ device[d] \in Telnet
    BY <1>5, <1>t DEF Type, Known, Proven, SessionTypes
  <2>2. CASE Fail(w) /\ UNCHANGED sessions
    <3>1. SessionTypes' /\ Sane(d)'
      BY <2>1, <2>2, <1>t DEF sessions, SessionTypes, Sane, TunnelAlive
    <3> QED BY <2>1, <2>2, <3>1, <1>t, <1>u, <1>g, <1>r
       DEF Right, Known, Local, Excused, Steps, Vacant, Halfway, Fresh, Proven, Holding, sessions,
           Fail, Idle
  <2>3. CASE ~(Fail(w) /\ UNCHANGED sessions)
    <3>1. PICK t \in Telnet : t = [device[d] EXCEPT !.screen = "blank"]
      BY <2>1 DEF Telnet
    <3>2. t.peer = "own" /\ t.marked = device[d].marked
      BY <2>1, <3>1 DEF Telnet
    <3>3. device' = [device EXCEPT ![d] = t] /\ UNCHANGED <<tunnel, taken>>
      BY <1>5, <2>3, <3>1 DEF Type, SetDevice
    <3>4. /\ SessionTypes' /\ Sane(d)' /\ device'[d] = t /\ t # None
          /\ \A e \in Device \ {d} : device'[e] = device[e]
      BY <2>1, <3>3, <1>3
    <3>5. \E name \in BOOLEAN :
            worker' = [worker EXCEPT ![w] = [worker[w] EXCEPT
                         !.at = IF name THEN "look" ELSE "settle", !.named = name]]
      BY <1>5, <2>3 DEF Type
    <3>6. /\ worker'[w].at \in {"look", "settle"} /\ worker'[w].dev = d
          /\ worker'[w].op = worker[w].op /\ worker'[w].reused = worker[w].reused
          /\ \A v \in Worker \ {w} : worker'[v] = worker[v]
      BY <3>5, <1>t DEF WorkerState
    <3> QED BY <2>1, <3>2, <3>3, <3>4, <3>6, <1>t, <1>u
       DEF Right, Known, Local, Excused, Vacant, Halfway, Fresh, Proven, Holding
  <2> QED BY <2>2, <2>3
<1>6. CASE Input(w)
  <2>1. worker[w].at = "input" /\ handed' = handed /\ Return(w)
    BY <1>6 DEF Input
  <2>2. CASE ~DeviceAlive(d)
    <3>1. UNCHANGED sessions
      BY <1>6, <2>2 DEF Input
    <3>2. SessionTypes' /\ Sane(d)'
      BY <2>1, <3>1, <1>t DEF sessions, SessionTypes, Sane, TunnelAlive
    <3> QED BY <2>1, <3>1, <3>2, <1>t, <1>u, <1>r
       DEF Right, Known, Local, Excused, Vacant, Halfway, Fresh, Proven, Holding, sessions, Idle
  <2>3. CASE DeviceAlive(d)
    <3>0. device[d] # None /\ device[d] \in Telnet
      BY <2>3, <1>t DEF DeviceAlive, SessionTypes
    <3>1. PICK t \in Telnet : t = [device[d] EXCEPT !.screen = "blank"]
      BY <3>0 DEF Telnet
    <3>2. t.peer = device[d].peer /\ t.marked = device[d].marked
      BY <3>0, <3>1 DEF Telnet
    <3>3. device' = [device EXCEPT ![d] = t] /\ UNCHANGED <<tunnel, taken>>
      BY <1>6, <2>3, <3>1 DEF Input, SetDevice
    <3>4. /\ SessionTypes' /\ Sane(d)' /\ device'[d] = t /\ t # None
          /\ \A e \in Device \ {d} : device'[e] = device[e]
      BY <2>1, <3>0, <3>3, <1>3
    <3> QED BY <2>1, <3>0, <3>2, <3>3, <3>4, <1>t, <1>u, <1>r
       DEF Right, Known, Local, Excused, Vacant, Halfway, Fresh, Proven, Holding, Idle
  <2> QED BY <2>2, <2>3
<1>7. CASE Finish(w)
  <2>1. worker[w].at = "final" /\ device[d] # None /\ UNCHANGED sessions
    BY <1>7, <1>t DEF Finish, Known, Proven
  <2>2. CASE Goto(w, "drop_device") /\ handed' = handed /\ ~worker[w].reused
    <3>1. SessionTypes' /\ Sane(d)'
      BY <2>1, <2>2, <1>t DEF sessions, SessionTypes, Sane, TunnelAlive
    <3> QED BY <2>1, <2>2, <3>1, <1>t, <1>u, <1>g
       DEF Right, Known, Local, Excused, Steps, Vacant, Halfway, Fresh, Proven, Holding, sessions
  <2>3. CASE Return(w) /\ handed' = handed \cup {d}
    <3>1. SessionTypes' /\ Sane(d)'
      BY <2>1, <2>3, <1>t DEF sessions, SessionTypes, Sane, TunnelAlive
    <3> QED BY <2>1, <2>3, <3>1, <1>t, <1>u, <1>r
       DEF Right, Known, Local, Excused, Vacant, Halfway, Fresh, Proven, Holding, sessions, Idle
  <2> QED BY <1>7, <2>2, <2>3 DEF Finish
<1> QED BY <1>1, <1>2, <1>4, <1>5, <1>6, <1>7

-----------------------------------------------------------------------------
(* Every step preserves the invariant.                                     *)

Counted == calls \in 0..MaxCalls /\ restarts \in 0..MaxRestarts

LEMMA TypesAfterChange ==
  ASSUME TypeInv, NEW w \in Worker, Changes(w), SessionTypes', Counted'
  PROVE  TypeInv'
<1>1. PICK k \in WorkerState : Keeps(w, k) \/ Frees(w, k) \/ Takes(w, k)
  BY DEF Changes
<1>2. /\ worker' \in [Worker -> WorkerState] /\ Calls'
      /\ lock' \in [Device -> Worker \cup {None}]
      /\ \A d \in Device, v \in Worker : lock'[d] = v <=> Holding(worker'[v], d)
  BY <1>1, LocksStayRight
<1> QED BY <1>2 DEF TypeInv, TypeOK, SessionTypes, Counted, Holding

HolderStep(w) ==
  \/ Inspect(w) \/ Alive(w) \/ (Reap(w) /\ worker[w].op # "list") \/ Input(w)
  \/ ResetDevice(w) \/ ResetTunnel(w) \/ Allocate(w) \/ CreateTunnel(w)
  \/ Drive(w) \/ Answer(w) \/ Retry(w) \/ CreateDevice(w) \/ Mark(w) \/ Prove(w)
  \/ Look(w) \/ Check(w) \/ Type(w) \/ Settle(w) \/ Finish(w)
  \/ DropDevice(w) \/ DropTunnel(w)

LEMMA HoldersStep ==
  ASSUME Inv, NEW w \in Worker, HolderStep(w)
  PROVE  \E d \in Device : worker[w].dev = d /\ Holding(worker[w], d) /\ Right(w, d)
<1>1. worker[w] \in WorkerState /\ Sound(worker[w])
  BY DEF Inv, TypeInv, TypeOK, Calls
<1>2. worker[w].at \notin {"idle", "waiting", "survey"} /\ worker[w].op # "list"
  <2>1. CASE Reap(w) /\ worker[w].op # "list"
    BY <2>1 DEF Reap
  <2>2. CASE ~Reap(w)
    <3>1. worker[w].at \in Opening \cup {"inspect", "alive", "input", "drop_device", "drop_tunnel"}
      BY <2>2 DEF HolderStep, Inspect, Alive, Input, ResetDevice, ResetTunnel, Allocate, CreateTunnel,
           Drive, Answer, Retry, CreateDevice, Mark, Prove, Look, Check, Type, Settle, Finish,
           DropDevice, DropTunnel, Opening
    <3> QED BY <3>1, <1>1 DEF Sound, Opening
  <2> QED BY <2>1, <2>2 DEF HolderStep, Reap, Inspect, Alive, Input, ResetDevice, ResetTunnel,
         Allocate, CreateTunnel, Drive, Answer, Retry, CreateDevice, Mark, Prove, Look, Check, Type,
         Settle, Finish, DropDevice, DropTunnel
<1>3. worker[w].dev \in Device
  BY <1>1, <1>2 DEF Sound, WorkerState
<1>4. Holding(worker[w], worker[w].dev)
  BY <1>2 DEF Holding
<1>5. Right(w, worker[w].dev)
  BY <1>3, <1>4, Looking, Closing, Making DEF HolderStep
<1> QED BY <1>3, <1>4, <1>5

LEMMA HoldersPreserve ==
  ASSUME Inv, NEW w \in Worker, HolderStep(w)
  PROVE  Inv'
<1>1. PICK d \in Device : Holding(worker[w], d) /\ Right(w, d)
  BY HoldersStep
<1>2. Counted'
  BY DEF Inv, TypeInv, TypeOK, Counted, HolderStep, Inspect, Alive, Reap, Input, ResetDevice,
     ResetTunnel, Allocate, CreateTunnel, Drive, Answer, Retry, CreateDevice, Mark, Prove, Look,
     Check, Type, Settle, Finish, DropDevice, DropTunnel
<1>3. Changes(w)
  BY StepsChange, OtherSteps DEF HolderStep, Inv
<1>4. TypeInv'
  BY <1>1, <1>2, <1>3, TypesAfterChange DEF Inv, Right
<1>5. SessionInv'
  BY <1>1, StepOfHolder DEF Right
<1> QED BY <1>4, <1>5 DEF Inv

(* Threads that hold no lock: they change no session, except that a        *)
(* listing may close a tunnel.                                             *)
LEMMA OthersPreserve ==
  ASSUME Inv, NEW w \in Worker,
         \A d \in Device : ~Holding(worker[w], d),
         \A v \in Worker \ {w} : worker'[v] = worker[v],
         worker'[w].at \in {"idle", "waiting", "survey", "inspect", "alive", "reap", "reset_device",
                            "drop_device"},
         device' = device, handed' = handed, restarts' = restarts,
         \A d \in Device : tunnel'[d] = tunnel[d] \/ tunnel'[d] = None
  PROVE  SessionInv'
<1>1. \A v \in Worker : Known(v)'
  <2>1. Known(w)'
    BY DEF Known, Vacant, Proven
  <2>2. ASSUME NEW v \in Worker \ {w} PROVE Known(v)'
    <3>1. Known(v) /\ worker'[v] = worker[v] /\ worker[v].dev \in Device \cup {None} /\ Sound(worker[v])
      BY DEF Inv, SessionInv, TypeInv, TypeOK, WorkerState, Calls
    <3>2. CASE worker[v].dev \in Device
      BY <3>1, <3>2 DEF Known, TunnelAlive
    <3>3. CASE worker[v].dev = None
      BY <3>1, <3>3 DEF Sound, Known, Vacant, Proven
    <3> QED BY <3>1, <3>2, <3>3
  <2> QED BY <2>1, <2>2
<1>2. ASSUME NEW d \in Device PROVE Sane(d)' /\ Accounted(d)'
  <2>1. Sane(d) /\ Accounted(d)
    BY DEF Inv, SessionInv
  <2>2. Sane(d)'
    BY <2>1 DEF Sane, TunnelAlive
  <2>3. \A k : Excused(k, d) => Excused(k, d)'
    BY DEF Excused
  <2> QED BY <2>1, <2>2, <2>3 DEF Accounted
<1> QED BY <1>1, <1>2 DEF SessionInv

LEMMA ListersPreserve ==
  ASSUME Inv, NEW w \in Worker,
         Acquire(w) \/ Survey(w) \/ (Reap(w) /\ worker[w].op = "list")
  PROVE  Inv'
<1>t. /\ SessionTypes /\ Sound(worker[w])
      /\ worker \in [Worker -> WorkerState] /\ worker[w] \in WorkerState
  BY DEF Inv, TypeInv, TypeOK, SessionTypes, Calls
<1>1. Changes(w) /\ Counted' /\ device' = device /\ handed' = handed /\ restarts' = restarts
  <2>1. CASE Acquire(w) \/ Survey(w)
    BY <2>1, OtherSteps DEF Inv, TypeInv, TypeOK, Counted, Acquire, Survey, sessions
  <2>2. CASE Reap(w) /\ worker[w].op = "list"
    BY <2>2, OtherSteps DEF Inv, TypeInv, TypeOK, Counted, Reap, CloseTunnel
  <2> QED BY <2>1, <2>2
<1>2. SessionTypes' /\ \A d \in Device : tunnel'[d] = tunnel[d] \/ tunnel'[d] = None
  <2>1. CASE Acquire(w) \/ Survey(w)
    BY <2>1, <1>t DEF Acquire, Survey, sessions, SessionTypes
  <2>2. CASE Reap(w) /\ worker[w].op = "list"
    <3>1. worker[w].dev \in Device /\ CloseTunnel(worker[w].dev)
      BY <2>2, <1>t DEF Reap, Sound, WorkerState
    <3> QED BY <3>1, <1>1, <1>t, CloseTunnelMeans DEF SessionTypes
  <2> QED BY <2>1, <2>2
<1>3. TypeInv'
  BY <1>1, <1>2, TypesAfterChange DEF Inv
<1>4. \A d \in Device : ~Holding(worker[w], d)
  BY <1>t, TunnelAssumption DEF Acquire, Survey, Reap, Sound, Holding
<1>5. \A v \in Worker \ {w} : worker'[v] = worker[v]
  BY <1>1, <1>t DEF Changes, Keeps, Frees, Takes, Becomes
<1>6. worker'[w].at \in {"idle", "waiting", "survey", "inspect", "alive", "reap", "reset_device",
                         "drop_device"}
  <2>1. CASE Return(w)
    BY <2>1, ReturnMeans DEF Inv, Idle
  <2>2. CASE Acquire(w) /\ ~Return(w)
    <3>1. worker[w].op \in {"open", "send", "read", "close"}
      BY <2>2, <1>t DEF Acquire, Sound, WorkerState, Ops
    <3>2. FirstStep(worker[w].op, worker[w].dev) \in {"inspect", "alive", "reset_device", "drop_device"}
      BY <3>1 DEF FirstStep
    <3>3. worker'[w].at = FirstStep(worker[w].op, worker[w].dev)
      BY <2>2, <1>t DEF Acquire, WorkerState
    <3> QED BY <3>2, <3>3
  <2>3. CASE Survey(w) /\ ~Return(w)
    <3>1. PICK d \in worker[w].todo :
            worker' = [worker EXCEPT ![w] = [worker[w] EXCEPT !.todo = @ \ {d},
                         !.dev = IF ToReap(d) THEN d ELSE None,
                         !.at = IF ToReap(d) THEN "reap" ELSE "survey"]]
      BY <2>3 DEF Survey
    <3>2. worker'[w].at = IF ToReap(d) THEN "reap" ELSE "survey"
      BY <3>1, <1>t DEF WorkerState
    <3> QED BY <3>2
  <2>4. CASE Reap(w) /\ worker[w].op = "list"
    <3>1. worker' = [worker EXCEPT ![w] = [worker[w] EXCEPT !.at = "survey", !.dev = None]]
      BY <2>4 DEF Reap
    <3> QED BY <3>1, <1>t DEF WorkerState
  <2> QED BY <2>1, <2>2, <2>3, <2>4
<1> QED BY <1>1, <1>2, <1>3, <1>4, <1>5, <1>6, OthersPreserve DEF Inv

LEMMA CallersPreserve ==
  ASSUME Inv, NEW w \in Worker,
         CallList(w) \/ \E op \in Ops \ {"list"}, d \in Device : Call(w, op, d)
  PROVE  Inv'
<1>t. /\ SessionTypes /\ Sound(worker[w]) /\ worker[w].at = "idle"
      /\ worker \in [Worker -> WorkerState] /\ worker[w] \in WorkerState
  BY DEF Inv, TypeInv, TypeOK, SessionTypes, Calls, Call, CallList
<1>1. /\ UNCHANGED <<tunnel, device, taken, handed, restarts, lock>>
      /\ Counted'
  <2>1. calls \in 0..MaxCalls /\ restarts \in 0..MaxRestarts /\ MaxCalls \in Nat
    BY TunnelAssumption DEF Inv, TypeInv, TypeOK
  <2>2. /\ UNCHANGED <<tunnel, device, taken, handed, restarts, lock>>
        /\ calls < MaxCalls /\ calls' = calls + 1
    BY DEF Call, CallList, sessions
  <2> QED BY <2>1, <2>2 DEF Counted
<1>2. PICK k : /\ worker' = [worker EXCEPT ![w] = k] /\ k \in WorkerState /\ Sound(k)
               /\ k.at \in {"waiting", "survey"} /\ \A d \in Device : ~Holding(k, d)
  <2>1. CASE CallList(w)
    <3> DEFINE k == [Idle EXCEPT !.op = "list", !.at = "survey",
                       !.todo = {d \in Device \ DiscoveryDevice : device[d] # None}]
    <3>1. worker' = [worker EXCEPT ![w] = k]
      BY <2>1 DEF CallList
    <3>2. /\ k \in WorkerState /\ k.op = "list" /\ k.at = "survey" /\ k.dev = None /\ k.tries = 0
          /\ ~k.reused
      BY IdleIsSound DEF WorkerState, Steps, Ops, Idle
    <3> HIDE DEF k
    <3>3. Sound(k) /\ \A d \in Device : ~Holding(k, d)
      BY <3>2 DEF Sound, Holding
    <3> QED BY <3>1, <3>2, <3>3
  <2>2. ASSUME NEW op \in Ops \ {"list"}, NEW d \in Device, Call(w, op, d)
        PROVE  \E k : /\ worker' = [worker EXCEPT ![w] = k] /\ k \in WorkerState /\ Sound(k)
                      /\ k.at \in {"waiting", "survey"} /\ \A e \in Device : ~Holding(k, e)
    <3> DEFINE k == [Idle EXCEPT !.op = op, !.dev = d, !.at = "waiting"]
    <3>1. worker' = [worker EXCEPT ![w] = k]
      BY <2>2 DEF Call
    <3>2. /\ k \in WorkerState /\ k.op = op /\ k.at = "waiting" /\ k.dev = d /\ k.tries = 0
          /\ ~k.reused
      BY IdleIsSound DEF WorkerState, Steps, Ops, Idle
    <3> HIDE DEF k
    <3>3. Sound(k) /\ \A e \in Device : ~Holding(k, e)
      BY <3>2, TunnelAssumption DEF Sound, Holding, Ops
    <3> QED BY <3>1, <3>2, <3>3
  <2> QED BY <2>1, <2>2
<1>3. \A d \in Device : ~Holding(worker[w], d)
  BY <1>t, TunnelAssumption DEF Sound, Holding
<1>4. Changes(w)
  BY <1>1, <1>2, <1>3 DEF Changes, Keeps, Becomes
<1>5. TypeInv'
  BY <1>1, <1>4, <1>t, TypesAfterChange DEF Inv, SessionTypes
<1>6. worker'[w] = k /\ \A v \in Worker \ {w} : worker'[v] = worker[v]
  BY <1>2, <1>t
<1> QED BY <1>1, <1>2, <1>3, <1>5, <1>6, OthersPreserve DEF Inv

(* What the processes outside of the program leave alone.                  *)
Steady(d) ==
  /\ tunnel'[d] = None <=> tunnel[d] = None
  /\ device'[d] = None <=> device[d] = None
  /\ device[d] # None =>
       /\ device'[d].marked = device[d].marked
       /\ device[d].peer = "own" => device'[d].peer = "own"
       /\ device[d].screen \in {"username", "password"} => device'[d].screen = device[d].screen
  /\ TunnelAlive(d)' => /\ TunnelAlive(d)
                        /\ tunnel[d].stage = "listening" => tunnel'[d].stage = "listening"

LEMMA SteadyPreserve ==
  ASSUME Inv, UNCHANGED Environment, SessionTypes', \A d \in Device : Steady(d)
  PROVE  Inv'
<1>1. UNCHANGED <<lock, worker, handed, calls, restarts>>
  BY DEF Environment
<1>2. TypeInv'
  BY <1>1 DEF Inv, TypeInv, TypeOK, Calls, SessionTypes
<1>3. ASSUME NEW w \in Worker PROVE Known(w)'
  <2>1. Known(w) /\ Sound(worker[w]) /\ worker[w].dev \in Device \cup {None}
    BY DEF Inv, SessionInv, TypeInv, TypeOK, WorkerState, Calls
  <2>2. CASE worker[w].dev = None
    BY <1>1, <2>1, <2>2 DEF Known, Sound, Vacant, Proven
  <2>3. CASE worker[w].dev \in Device
    <3>1. Steady(worker[w].dev)
      BY <2>3
    <3> QED BY <1>1, <2>1, <2>3, <3>1 DEF Known, Steady, Vacant, Proven
  <2> QED BY <2>1, <2>2, <2>3
<1>4. ASSUME NEW d \in Device PROVE Sane(d)' /\ Accounted(d)'
  <2>1. Sane(d) /\ Accounted(d) /\ Steady(d)
    BY DEF Inv, SessionInv
  <2>2. Sane(d)'
    BY <1>1, <2>1 DEF Sane, Steady
  <2>3. \A k : Excused(k, d) => Excused(k, d)'
    BY <1>1, <2>1 DEF Excused, Steady
  <2> QED BY <1>1, <2>1, <2>2, <2>3 DEF Accounted
<1> QED BY <1>2, <1>3, <1>4 DEF Inv, SessionInv

OutsideStep ==
  \/ \E d \in Device : TunnelProceeds(d) \/ TunnelEnds(d) \/ Connect(d) \/ Prompts(d) \/ DeviceEnds(d)
  \/ \E p \in Port : PortChanges(p)

LEMMA OutsidersPreserve ==
  ASSUME Inv, OutsideStep PROVE Inv'
<1>t. SessionTypes /\ None \notin Tunnel \cup Telnet
  BY InitialSessionsAssumption DEF Inv, TypeInv, TypeOK, SessionTypes
<1>1. ASSUME NEW d \in Device, TunnelProceeds(d) \/ TunnelEnds(d) PROVE Inv'
  <2>1. TunnelAlive(d) /\ tunnel[d] \in Tunnel /\ UNCHANGED Environment
    BY <1>1, <1>t DEF TunnelProceeds, TunnelEnds, TunnelAlive, SessionTypes
  <2>2. PICK t \in Tunnel :
          /\ SetTunnel(d, t)
          /\ tunnel[d].stage = "listening" => t.stage = "listening"
    <3>1. CASE TunnelEnds(d)
      <4>1. /\ [tunnel[d] EXCEPT !.alive = FALSE] \in Tunnel
            /\ [tunnel[d] EXCEPT !.alive = FALSE].stage = tunnel[d].stage
        BY <2>1 DEF Tunnel
      <4> QED BY <3>1, <4>1 DEF TunnelEnds
    <3>2. CASE TunnelProceeds(d)
      <4>1. tunnel[d].stage # "listening"
        BY <3>2 DEF TunnelProceeds
      <4>2. \A s \in {"prompt", "strange", "authenticated", "again", "listening"} :
              [tunnel[d] EXCEPT !.stage = s] \in Tunnel
        BY <2>1 DEF Tunnel
      <4>3. [tunnel[d] EXCEPT !.stage = "conflict", !.alive = FALSE] \in Tunnel
        BY <2>1 DEF Tunnel
      <4> QED BY <3>2, <4>1, <4>2, <4>3 DEF TunnelProceeds
    <3> QED BY <1>1, <3>1, <3>2
  <2>3. tunnel' = [tunnel EXCEPT ![d] = t] /\ UNCHANGED <<device, taken>>
    BY <2>2 DEF SetTunnel
  <2>4. SessionTypes'
    BY <2>1, <2>3, <1>t DEF SessionTypes, Environment
  <2>5. \A e \in Device : Steady(e)
    BY <2>1, <2>2, <2>3, <1>t DEF Steady, SessionTypes, TunnelAlive
  <2> QED BY <2>1, <2>4, <2>5, SteadyPreserve
<1>2. ASSUME NEW d \in Device, Connect(d) \/ Prompts(d) \/ DeviceEnds(d) PROVE Inv'
  <2>1. /\ DeviceAlive(d) /\ device[d] # None /\ device[d] \in Telnet /\ UNCHANGED Environment
    BY <1>2, <1>t DEF Connect, Prompts, DeviceEnds, DeviceAlive, SessionTypes
  <2>2. PICK t \in Telnet :
          /\ SetDevice(d, t)
          /\ t.marked = device[d].marked
          /\ device[d].peer = "own" => t.peer = "own"
          /\ device[d].screen # "blank" => t.screen = device[d].screen
    <3>1. /\ \A p \in {"own", "other"} : [device[d] EXCEPT !.peer = p] \in Telnet
          /\ \A s \in {"username", "password", "prompt"} : [device[d] EXCEPT !.screen = s] \in Telnet
          /\ [device[d] EXCEPT !.alive = FALSE] \in Telnet
      BY <2>1 DEF Telnet
    <3>2. CASE Connect(d)
      <4>1. device[d].peer = "none"
        BY <3>2 DEF Connect
      <4>2. PICK t \in {[device[d] EXCEPT !.peer = "own"], [device[d] EXCEPT !.peer = "other"],
                        [device[d] EXCEPT !.alive = FALSE]} : SetDevice(d, t)
        BY <3>2 DEF Connect
      <4>3. t \in Telnet
        BY <3>1, <4>2
      <4>4. t.marked = device[d].marked /\ t.screen = device[d].screen
        BY <2>1, <4>2 DEF Telnet
      <4> QED BY <4>1, <4>2, <4>3, <4>4
    <3>3. CASE Prompts(d)
      <4>1. /\ device[d].screen = "blank"
            /\ \E s \in {"username", "password", "prompt"} :
                 SetDevice(d, [device[d] EXCEPT !.screen = s])
        BY <3>3 DEF Prompts
      <4>2. \A s : /\ [device[d] EXCEPT !.screen = s].marked = device[d].marked
                   /\ [device[d] EXCEPT !.screen = s].peer = device[d].peer
        BY <2>1 DEF Telnet
      <4> QED BY <3>1, <4>1, <4>2
    <3>4. CASE DeviceEnds(d)
      <4>1. /\ [device[d] EXCEPT !.alive = FALSE].marked = device[d].marked
            /\ [device[d] EXCEPT !.alive = FALSE].peer = device[d].peer
            /\ [device[d] EXCEPT !.alive = FALSE].screen = device[d].screen
        BY <2>1 DEF Telnet
      <4> QED BY <3>1, <3>4, <4>1 DEF DeviceEnds
    <3> QED BY <1>2, <3>2, <3>3, <3>4
  <2>3. device' = [device EXCEPT ![d] = t] /\ UNCHANGED <<tunnel, taken>>
    BY <2>2 DEF SetDevice
  <2>4. SessionTypes'
    BY <2>1, <2>3, <1>t DEF SessionTypes, Environment
  <2>5. \A e \in Device : Steady(e)
    BY <2>1, <2>2, <2>3, <1>t DEF Steady, SessionTypes, TunnelAlive
  <2> QED BY <2>1, <2>4, <2>5, SteadyPreserve
<1>3. ASSUME NEW p \in Port, PortChanges(p) PROVE Inv'
  <2>1. UNCHANGED <<tunnel, device>> /\ UNCHANGED Environment /\ SessionTypes'
    BY <1>3, <1>t DEF PortChanges, SessionTypes, Environment
  <2>2. \A e \in Device : Steady(e)
    BY <2>1 DEF Steady, TunnelAlive
  <2> QED BY <2>1, <2>2, SteadyPreserve
<1> QED BY <1>1, <1>2, <1>3 DEF OutsideStep

(* A restarted server excuses whatever it finds.                           *)
LEMMA RestartPreserves ==
  ASSUME Inv, Restart PROVE Inv'
<1>1. /\ UNCHANGED <<tunnel, device, taken, handed, calls>>
      /\ worker' = [w \in Worker |-> Idle] /\ lock' = [d \in Device |-> None]
      /\ restarts < MaxRestarts /\ restarts' = restarts + 1
  BY DEF Restart, sessions
<1>2. restarts \in 0..MaxRestarts /\ MaxRestarts \in Nat
  BY TunnelAssumption DEF Inv, TypeInv, TypeOK
<1>3. restarts' \in 0..MaxRestarts /\ restarts' # 0
  BY <1>1, <1>2
<1>4. \A d \in Device, w \in Worker : lock'[d] # w /\ ~Holding(worker'[w], d)
  BY <1>1, IdleIsSound, TunnelAssumption
<1>5. worker' \in [Worker -> WorkerState] /\ lock' \in [Device -> Worker \cup {None}] /\ Calls'
  BY <1>1, IdleIsSound DEF Calls
<1>6. TypeInv'
  BY <1>1, <1>3, <1>4, <1>5 DEF Inv, TypeInv, TypeOK, Holding
<1>7. \A w \in Worker : Known(w)'
  BY <1>1 DEF Known, Idle, Vacant, Proven
<1>8. \A d \in Device : Sane(d)' /\ Excused(Idle, d)'
  BY <1>1, <1>3 DEF Inv, SessionInv, Sane, TunnelAlive, Excused
<1> QED BY <1>6, <1>7, <1>8 DEF Inv, SessionInv, Accounted

LEMMA UnchangedPreserves ==
  ASSUME Inv, UNCHANGED vars PROVE Inv'
<1>1. UNCHANGED <<tunnel, device, taken, lock, worker, handed, calls, restarts>>
  BY DEF vars, sessions
<1> QED BY <1>1 DEF Inv, TypeInv, TypeOK, Calls, SessionInv, Known, Sane, Accounted, Excused,
     TunnelAlive

LEMMA InitHolds ==
  ASSUME Init PROVE Inv
<1>1. PICK found \in InitialSessions : device = found.device /\ tunnel = found.tunnel
  BY DEF Init
<1>2. /\ lock = [d \in Device |-> None] /\ worker = [w \in Worker |-> Idle]
      /\ handed = {d \in Device : device[d] # None} /\ taken = {} /\ calls = 0 /\ restarts = 0
  BY DEF Init
<1>3. /\ device \in [Device -> Telnet \cup {None}] /\ tunnel \in [Device -> Tunnel \cup {None}]
      /\ \A d \in Device :
           /\ device[d] # None => device[d].marked
           /\ tunnel[d] # None => device[d] # None /\ tunnel[d].stage = "listening"
  BY <1>1, InitialSessionsAssumption
<1>4. \A d \in Device, w \in Worker : lock[d] # w /\ ~Holding(worker[w], d)
  BY <1>2, IdleIsSound, TunnelAssumption
<1>5. worker \in [Worker -> WorkerState] /\ Calls
  BY <1>2, IdleIsSound DEF Calls
<1>6. TypeInv
  BY <1>2, <1>3, <1>4, <1>5, TunnelAssumption DEF TypeInv, TypeOK, Holding
<1>7. \A w \in Worker : Known(w)
  BY <1>2 DEF Known, Idle, Vacant, Proven
<1>8. \A d \in Device : Sane(d) /\ Excused(Idle, d)
  BY <1>2, <1>3 DEF Sane, TunnelAlive, Excused
<1> QED BY <1>6, <1>7, <1>8 DEF Inv, SessionInv, Accounted

LEMMA StepPreserves ==
  ASSUME Inv, [Next]_vars PROVE Inv'
<1>1. ASSUME NEW w \in Worker, Step(w) PROVE Inv'
  BY <1>1, HoldersPreserve, ListersPreserve DEF Step, HolderStep
<1> QED BY <1>1, CallersPreserve, OutsidersPreserve, RestartPreserves, UnchangedPreserves
     DEF Next, OutsideStep

LEMMA Invariant == Spec => []Inv
<1>1. Init => Inv
  BY InitHolds
<1>2. Inv /\ [Next]_vars => Inv'
  BY StepPreserves
<1> QED BY <1>1, <1>2, PTL DEF Spec

-----------------------------------------------------------------------------
(* Every variable keeps its type, and a device's lock is held by exactly   *)
(* the thread that is working on it (_session_locks), for any number of    *)
(* devices, threads and ports.                                             *)
THEOREM TypeCorrect == Spec => []TypeOK
<1>1. Inv => TypeOK
  BY DEF Inv, TypeInv
<1> QED BY <1>1, Invariant, PTL

(* No credential is ever typed into a telnet process whose connection did  *)
(* not run into the tunnel's own ssh process, nor at anything but the      *)
(* prompt it answers (_make_ownership_check).                              *)
THEOREM CredentialsAreSafe == Spec => []CredentialsStayInTheTunnel
<1>1. Inv => CredentialsStayInTheTunnel
  BY DEF Inv, SessionInv, Known, Proven, CredentialsStayInTheTunnel
<1> QED BY <1>1, Invariant, PTL

(* As long as the server process has not been restarted, no call that      *)
(* returns, and none that fails, leaves a tunnel without its telnet        *)
(* session or a telnet session without its mark (_open_telnet_via_jump).   *)
THEOREM NoHalfSessions == Spec => []PairsAreWhole
<1>1. ASSUME Inv, NEW d \in Device, restarts = 0, lock[d] = None
      PROVE  /\ tunnel[d] # None => device[d] # None
             /\ device[d] # None => device[d].marked
  <2>1. \A w \in Worker : ~Holding(worker[w], d)
    BY <1>1, TunnelAssumption DEF Inv, TypeInv, TypeOK, Holding
  <2>2. Excused(Idle, d)
    BY <1>1, <2>1 DEF Inv, SessionInv, Accounted
  <2> QED BY <1>1, <2>2 DEF Excused, Idle, Halfway
<1>2. Inv => PairsAreWhole
  BY <1>1 DEF PairsAreWhole
<1> QED BY <1>2, Invariant, PTL

(* terminal_send types only into a session that an open proved and         *)
(* reported, or into none (send_to_device).                                *)
THEOREM InputIsForProvenSessions == Spec => []InputGoesToProvenSession
<1>1. Inv => InputGoesToProvenSession
  BY DEF Inv, SessionInv, Known, InputGoesToProvenSession
<1> QED BY <1>1, Invariant, PTL

-----------------------------------------------------------------------------
(* The pair of tmux sessions of a device, seen as one session.             *)

From(t, n) ==
  IF t = None THEN IF n = None THEN "closed" ELSE "tunnel"
  ELSE IF ~t.alive THEN "ended"
  ELSE IF t.peer = "none" THEN "joining"
  ELSE IF t.peer = "other" THEN "stray"
  ELSE IF t.peer = "own" /\ n # None /\ n.alive /\ n.stage = "listening" /\ n.port = t.port
  THEN "live" ELSE "ended"

LEMMA StageMeans ==
  ASSUME NEW d \in Device
  PROVE  /\ StageOf(d) = From(device[d], tunnel[d])
         /\ StageOf(d)' = From(device'[d], tunnel'[d])
<1>1. StageOf(d) = From(device[d], tunnel[d])
  BY DEF StageOf, From, DeviceAlive, Owned, Listens, TunnelAlive
<1>2. StageOf(d)' = From(device'[d], tunnel'[d])
  BY DEF StageOf, From, DeviceAlive, Owned, Listens, TunnelAlive
<1> QED BY <1>1, <1>2

(* A step of LogicalSession, or none, for one device.                      *)
Moved(d) ==
  \/ StageOf(d)' = StageOf(d) /\ handed' = handed
  \/ StageOf(d) = "closed" /\ StageOf(d)' = "tunnel" /\ handed' = handed
  \/ StageOf(d) \in {"tunnel", "closed"} /\ StageOf(d)' = "joining" /\ handed' = handed
  \/ StageOf(d) = "joining" /\ StageOf(d)' \in {"live", "stray"} /\ handed' = handed
  \/ StageOf(d) \in {"joining", "live", "stray"} /\ StageOf(d)' = "ended" /\ handed' = handed
  \/ /\ StageOf(d) \in {"joining", "live", "stray", "ended"} /\ StageOf(d)' \in {"tunnel", "closed"}
     /\ handed' = handed \ {d}
  \/ StageOf(d) = "tunnel" /\ StageOf(d)' = "closed" /\ handed' = handed \ {d}
  \/ StageOf(d) \in {"live", "ended"} /\ StageOf(d)' = StageOf(d) /\ handed' = handed \cup {d}

Apart(d) == \A e \in Device \ {d} : device'[e] = device[e] /\ tunnel'[e] = tunnel[e]

LEMMA MovedIsAStep ==
  ASSUME NEW d \in Device, Apart(d), Moved(d)
  PROVE  [Logical!Next]_<<stages, handed>>
<1>1. \A e \in Device \ {d} : StageOf(e)' = StageOf(e)
  BY StageMeans DEF Apart
<1>2. stages' = [stages EXCEPT ![d] = StageOf(d)'] /\ stages[d] = StageOf(d)
  BY <1>1 DEF stages
<1>3. CASE StageOf(d)' = StageOf(d)
  <2>1. stages' = stages
    BY <1>1, <1>3 DEF stages
  <2>2. CASE handed' = handed
    BY <2>1, <2>2
  <2>3. CASE handed' # handed
    <3>1. StageOf(d) \in {"live", "ended"} /\ handed' = handed \cup {d}
      BY <1>3, <2>3 DEF Moved
    <3>2. Logical!Hand(d)
      BY <2>1, <3>1, <1>2 DEF Logical!Hand
    <3> QED BY <3>2 DEF Logical!Next
  <2> QED BY <2>2, <2>3
<1>4. CASE StageOf(d)' # StageOf(d)
  <2>1. Logical!Build(d) \/ Logical!End(d) \/ Logical!Remove(d)
    BY <1>2, <1>4 DEF Moved, Logical!Build, Logical!End, Logical!Remove, Logical!Moves, Logical!Stages
  <2> QED BY <2>1 DEF Logical!Next
<1> QED BY <1>3, <1>4

(* Steps that change neither session, nor what was reported.               *)
LEMMA QuietSteps ==
  ASSUME UNCHANGED <<device, tunnel, handed>>
  PROVE  [Logical!Next]_<<stages, handed>>
<1>1. \A e \in Device : StageOf(e)' = StageOf(e)
  BY StageMeans
<1> QED BY <1>1 DEF stages

LEMMA ClosingMoves ==
  ASSUME Inv, NEW d \in Device, CloseTunnel(d), handed' = handed
  PROVE  Apart(d) /\ Moved(d)
<1>1. SessionTypes /\ Sane(d)
  BY DEF Inv, TypeInv, TypeOK, SessionTypes, SessionInv
<1>2. tunnel' = [tunnel EXCEPT ![d] = None] /\ device' = device
  BY <1>1, CloseTunnelMeans
<1>3. tunnel'[d] = None /\ Apart(d)
  BY <1>1, <1>2 DEF SessionTypes, Apart
<1>4. CASE device[d] = None
  BY <1>1, <1>2, <1>3, <1>4, StageMeans DEF From, Moved, Sane
<1>5. CASE device[d] # None
  BY <1>1, <1>2, <1>3, <1>5, StageMeans DEF From, Moved
<1> QED BY <1>3, <1>4, <1>5

LEMMA HoldersMove ==
  ASSUME Inv, NEW w \in Worker, HolderStep(w)
  PROVE  [Logical!Next]_<<stages, handed>>
<1>1. PICK d \in Device : worker[w].dev = d /\ Holding(worker[w], d) /\ Right(w, d)
  BY HoldersStep
<1>t. /\ SessionTypes /\ Known(w) /\ Sane(d) /\ Apart(d)
      /\ None \notin Tunnel \cup Telnet
  BY <1>1, InitialSessionsAssumption
     DEF Inv, TypeInv, TypeOK, SessionTypes, SessionInv, Right, Local, Apart
<1>2. CASE \/ Inspect(w) \/ Alive(w) \/ Allocate(w) \/ Drive(w) \/ Prove(w)
           \/ Look(w) \/ Check(w) \/ Settle(w)
  <2>1. UNCHANGED <<device, tunnel, handed>>
    BY <1>2 DEF Inspect, Alive, Allocate, Drive, Prove, Look, Check, Settle, sessions
  <2> QED BY <2>1, QuietSteps
<1>3. CASE (Reap(w) /\ worker[w].op # "list") \/ ResetTunnel(w) \/ Retry(w) \/ DropTunnel(w)
  <2>1. CloseTunnel(d) /\ handed' = handed
    BY <1>1, <1>3 DEF Reap, ResetTunnel, Retry, DropTunnel
  <2> QED BY <2>1, ClosingMoves, MovedIsAStep
<1>4. CASE ResetDevice(w) \/ DropDevice(w)
  <2>1. device' = [device EXCEPT ![d] = None] /\ tunnel' = tunnel /\ handed' = handed \ {d}
    BY <1>1, <1>4 DEF ResetDevice, DropDevice, CloseDevice
  <2>2. device'[d] = None
    BY <2>1, <1>t DEF SessionTypes
  <2>3. CASE device[d] = None
    <3>1. handed' = handed
      BY <2>1, <2>3, <1>t DEF Sane
    <3> QED BY <2>1, <2>2, <2>3, <3>1, <1>t, StageMeans, MovedIsAStep DEF Moved
  <2>4. CASE device[d] # None
    <3>1. StageOf(d) \in {"joining", "live", "stray", "ended"} /\ StageOf(d)' \in {"tunnel", "closed"}
      BY <2>2, <2>4, StageMeans DEF From
    <3> QED BY <2>1, <3>1, <1>t, MovedIsAStep DEF Moved
  <2> QED BY <2>3, <2>4
<1>5. CASE CreateTunnel(w) \/ Answer(w)
  <2>1. device' = device /\ handed' = handed /\ device[d] = None /\ device'[d] = None
    BY <1>5, <1>1, <1>t DEF CreateTunnel, Answer, SetTunnel, Known, Vacant, sessions
  <2>2. StageOf(d)' = StageOf(d) \/ (StageOf(d) = "closed" /\ StageOf(d)' = "tunnel")
    <3>1. tunnel[d] # None => tunnel'[d] # None
      <4>1. CASE CreateTunnel(w)
        BY <4>1, <1>1 DEF CreateTunnel, sessions
      <4>2. CASE Answer(w)
        <5>1. CASE UNCHANGED sessions
          BY <5>1 DEF sessions
        <5>2. CASE ~UNCHANGED sessions
          <6>1. TunnelAlive(d) /\ SetTunnel(d, [tunnel[d] EXCEPT !.stage = "answered"])
            BY <4>2, <5>2, <1>1 DEF Answer
          <6>2. tunnel[d] \in Tunnel
            BY <6>1, <1>t DEF TunnelAlive, SessionTypes
          <6>3. [tunnel[d] EXCEPT !.stage = "answered"] \in Tunnel
            BY <6>2 DEF Tunnel
          <6> QED BY <6>1, <6>3, <1>t DEF SetTunnel, SessionTypes
        <5> QED BY <5>1, <5>2
      <4> QED BY <1>5, <4>1, <4>2
    <3> QED BY <2>1, <3>1, StageMeans DEF From
  <2> QED BY <2>1, <2>2, <1>t, MovedIsAStep DEF Moved
<1>6. CASE CreateDevice(w)
  <2>1. device[d] = None /\ handed' = handed /\ worker[w].port \in Port
    <3>1. Sound(worker[w])
      BY DEF Inv, TypeInv, Calls
    <3> QED BY <1>6, <1>1, <1>t, <3>1 DEF CreateDevice, Known, Vacant, Sound
  <2>2. CASE UNCHANGED sessions
    BY <2>1, <2>2, QuietSteps DEF sessions
  <2>3. CASE ~UNCHANGED sessions
    <3> DEFINE t == [alive |-> TRUE, marked |-> FALSE, port |-> worker[w].port,
                     peer |-> "none", screen |-> "blank"]
    <3>1. t \in Telnet /\ t.alive /\ t.peer = "none"
      BY <2>1 DEF Telnet
    <3>2. device' = [device EXCEPT ![d] = t] /\ tunnel' = tunnel
      BY <1>6, <1>1, <2>3 DEF CreateDevice, SetDevice
    <3> HIDE DEF t
    <3>3. device'[d] = t /\ t # None
      BY <3>1, <3>2, <1>t DEF SessionTypes
    <3>4. StageOf(d) \in {"tunnel", "closed"} /\ StageOf(d)' = "joining"
      BY <2>1, <3>1, <3>3, StageMeans DEF From
    <3> QED BY <2>1, <3>4, <1>t, MovedIsAStep DEF Moved
  <2> QED BY <2>2, <2>3
<1>7. CASE Mark(w) \/ Type(w) \/ Input(w)
  <2>1. handed' = handed
    BY <1>7 DEF Mark, Type, Input
  <2>2. CASE UNCHANGED sessions
    BY <2>1, <2>2, QuietSteps DEF sessions
  <2>3. CASE ~UNCHANGED sessions
    <3>1. device[d] # None
      BY <1>7, <1>1, <1>t, <2>3 DEF Mark, Type, Input, Known, DeviceAlive
    <3>2. device[d] \in Telnet
      BY <3>1, <1>t DEF SessionTypes
    <3>3. PICK t : /\ t = [device[d] EXCEPT !.marked = TRUE] \/ t = [device[d] EXCEPT !.screen = "blank"]
                   /\ device' = [device EXCEPT ![d] = t] /\ tunnel' = tunnel
      BY <1>7, <1>1, <2>3 DEF Mark, Type, Input, SetDevice
    <3>4. /\ t \in Telnet /\ t.alive = device[d].alive /\ t.peer = device[d].peer
          /\ t.port = device[d].port
      BY <3>2, <3>3 DEF Telnet
    <3>5. device'[d] = t /\ t # None
      BY <3>3, <3>4, <1>t DEF SessionTypes
    <3>6. StageOf(d)' = StageOf(d)
      BY <3>1, <3>3, <3>4, <3>5, StageMeans DEF From
    <3> QED BY <2>1, <3>6, <1>t, MovedIsAStep DEF Moved
  <2> QED BY <2>2, <2>3
<1>8. CASE Finish(w)
  <2>1. /\ UNCHANGED sessions /\ device[d] # None /\ device[d].peer = "own"
        /\ handed' = handed \/ handed' = handed \cup {d}
    BY <1>8, <1>1, <1>t DEF Finish, Known, Proven
  <2>2. StageOf(d)' = StageOf(d) /\ StageOf(d) \in {"live", "ended"}
    BY <2>1, StageMeans DEF From, sessions
  <2> QED BY <2>1, <2>2, <1>t, MovedIsAStep DEF Moved
<1> QED BY <1>2, <1>3, <1>4, <1>5, <1>6, <1>7, <1>8 DEF HolderStep

LEMMA OutsidersMove ==
  ASSUME Inv, OutsideStep
  PROVE  [Logical!Next]_<<stages, handed>>
<1>t. SessionTypes /\ None \notin Tunnel \cup Telnet /\ \A d \in Device : Sane(d)
  BY InitialSessionsAssumption DEF Inv, TypeInv, TypeOK, SessionTypes, SessionInv
<1>h. handed' = handed
  BY DEF OutsideStep, TunnelProceeds, TunnelEnds, Connect, Prompts, DeviceEnds, PortChanges, Environment
<1>1. ASSUME NEW d \in Device, TunnelProceeds(d) \/ TunnelEnds(d)
      PROVE  Apart(d) /\ Moved(d)
  <2>1. TunnelAlive(d) /\ tunnel[d] \in Tunnel
    BY <1>1, <1>t DEF TunnelProceeds, TunnelEnds, TunnelAlive, SessionTypes
  <2>2. PICK t \in Tunnel :
          /\ tunnel' = [tunnel EXCEPT ![d] = t] /\ device' = device
          /\ device[d] # None => t = [tunnel[d] EXCEPT !.alive = FALSE]
    <3>1. CASE TunnelEnds(d)
      <4>1. [tunnel[d] EXCEPT !.alive = FALSE] \in Tunnel
        BY <2>1 DEF Tunnel
      <4> QED BY <3>1, <4>1 DEF TunnelEnds, SetTunnel
    <3>2. CASE TunnelProceeds(d)
      <4>1. device[d] = None
        BY <2>1, <3>2, <1>t DEF TunnelProceeds, Sane
      <4>2. /\ \A s \in {"prompt", "strange", "authenticated", "again", "listening"} :
                 [tunnel[d] EXCEPT !.stage = s] \in Tunnel
            /\ [tunnel[d] EXCEPT !.stage = "conflict", !.alive = FALSE] \in Tunnel
        BY <2>1 DEF Tunnel
      <4> QED BY <3>2, <4>1, <4>2 DEF TunnelProceeds, SetTunnel
    <3> QED BY <1>1, <3>1, <3>2
  <2>3. tunnel'[d] = t /\ t # None /\ tunnel[d] # None /\ Apart(d)
    BY <2>1, <2>2, <1>t DEF SessionTypes, Apart, TunnelAlive
  <2>4. CASE device[d] = None
    BY <2>2, <2>3, <2>4, <1>h, StageMeans DEF From, Moved
  <2>5. CASE device[d] # None
    <3>1. ~t.alive
      BY <2>1, <2>2, <2>5 DEF Tunnel
    <3> QED BY <2>2, <2>3, <2>5, <3>1, <1>h, StageMeans DEF From, Moved
  <2> QED BY <2>3, <2>4, <2>5
<1>2. ASSUME NEW d \in Device, Connect(d) \/ Prompts(d) \/ DeviceEnds(d)
      PROVE  Apart(d) /\ Moved(d)
  <2>1. /\ device[d] # None /\ device[d].alive /\ device[d] \in Telnet
    BY <1>2, <1>t DEF Connect, Prompts, DeviceEnds, DeviceAlive, SessionTypes
  <2>2. PICK t \in Telnet :
          /\ device' = [device EXCEPT ![d] = t] /\ tunnel' = tunnel /\ t.port = device[d].port
          /\ \/ ~t.alive
             \/ t.alive /\ t.peer = device[d].peer
             \/ t.alive /\ device[d].peer = "none" /\ t.peer = "other"
             \/ t.alive /\ device[d].peer = "none" /\ t.peer = "own" /\ Listens(d, t.port)
    <3>1. CASE Connect(d)
      <4>1. device[d].peer = "none"
        BY <3>1 DEF Connect
      <4>2. \/ SetDevice(d, [device[d] EXCEPT !.peer = "own"]) /\ Listens(d, device[d].port)
            \/ SetDevice(d, [device[d] EXCEPT !.peer = "other"])
            \/ SetDevice(d, [device[d] EXCEPT !.alive = FALSE])
        BY <3>1 DEF Connect
      <4>3. ASSUME NEW p \in {"own", "other"}
            PROVE  LET t == [device[d] EXCEPT !.peer = p]
                   IN t \in Telnet /\ t.alive /\ t.peer = p /\ t.port = device[d].port
        BY <2>1 DEF Telnet
      <4>4. LET t == [device[d] EXCEPT !.alive = FALSE]
            IN t \in Telnet /\ ~t.alive /\ t.port = device[d].port
        BY <2>1 DEF Telnet
      <4> QED BY <4>1, <4>2, <4>3, <4>4 DEF SetDevice
    <3>2. CASE Prompts(d)
      <4>1. ASSUME NEW s \in {"username", "password", "prompt"}
            PROVE  LET t == [device[d] EXCEPT !.screen = s]
                   IN t \in Telnet /\ t.alive /\ t.peer = device[d].peer /\ t.port = device[d].port
        BY <2>1 DEF Telnet
      <4> QED BY <3>2, <4>1 DEF Prompts, SetDevice
    <3>3. CASE DeviceEnds(d)
      <4>1. LET t == [device[d] EXCEPT !.alive = FALSE]
            IN t \in Telnet /\ ~t.alive /\ t.port = device[d].port
        BY <2>1 DEF Telnet
      <4> QED BY <3>3, <4>1 DEF DeviceEnds, SetDevice
    <3> QED BY <1>2, <3>1, <3>2, <3>3
  <2>3. device'[d] = t /\ t # None /\ Apart(d)
    BY <2>2, <1>t DEF SessionTypes, Apart
  <2>4. CASE ~t.alive
    <3>1. StageOf(d)' = "ended" /\ StageOf(d) \in {"joining", "live", "stray", "ended"}
      BY <2>1, <2>3, <2>4, StageMeans DEF From
    <3> QED BY <3>1, <2>3, <1>h DEF Moved
  <2>5. CASE t.alive /\ t.peer = device[d].peer
    <3>1. StageOf(d)' = StageOf(d)
      BY <2>1, <2>2, <2>3, <2>5, StageMeans DEF From
    <3> QED BY <3>1, <2>3, <1>h DEF Moved
  <2>6. CASE /\ t.alive /\ device[d].peer = "none"
             /\ t.peer = "other" \/ (t.peer = "own" /\ Listens(d, t.port))
    <3>1. StageOf(d) = "joining" /\ StageOf(d)' \in {"live", "stray"}
      BY <2>1, <2>2, <2>3, <2>6, StageMeans DEF From, Listens, TunnelAlive
    <3> QED BY <3>1, <2>3, <1>h DEF Moved
  <2> QED BY <2>2, <2>4, <2>5, <2>6
<1>3. ASSUME NEW p \in Port, PortChanges(p)
      PROVE  UNCHANGED <<device, tunnel, handed>>
  BY <1>3, <1>h DEF PortChanges
<1> QED BY <1>1, <1>2, <1>3, MovedIsAStep, QuietSteps DEF OutsideStep

LEMMA StepRefines ==
  ASSUME Inv, [Next]_vars
  PROVE  [Logical!Next]_<<stages, handed>>
<1>1. ASSUME NEW w \in Worker, Acquire(w) \/ Survey(w)
      PROVE  UNCHANGED <<device, tunnel, handed>>
  BY <1>1 DEF Acquire, Survey, sessions
<1>2. ASSUME NEW w \in Worker, Reap(w), worker[w].op = "list"
      PROVE  \E d \in Device : Apart(d) /\ Moved(d)
  <2>1. worker[w].dev \in Device
    BY <1>2 DEF Inv, TypeInv, TypeOK, Calls, Sound, WorkerState, Reap
  <2>2. CloseTunnel(worker[w].dev) /\ handed' = handed
    BY <1>2 DEF Reap
  <2> QED BY <2>1, <2>2, ClosingMoves
<1>3. ASSUME NEW w \in Worker, Step(w)
      PROVE  [Logical!Next]_<<stages, handed>>
  BY <1>1, <1>2, <1>3, QuietSteps, MovedIsAStep, HoldersMove DEF Step, HolderStep
<1>4. ASSUME NEW w \in Worker,
             CallList(w) \/ \E op \in Ops \ {"list"}, d \in Device : Call(w, op, d)
      PROVE  UNCHANGED <<device, tunnel, handed>>
  BY <1>4 DEF CallList, Call, sessions
<1>5. Restart \/ UNCHANGED vars => UNCHANGED <<device, tunnel, handed>>
  BY DEF Restart, vars, sessions
<1> QED BY <1>3, <1>4, <1>5, QuietSteps, OutsidersMove DEF Next, OutsideStep

(* The tunnel and the telnet session of a device, built, reused, reaped,   *)
(* failed and closed by any number of threads, behave like one session     *)
(* that is proven before it is reported and never revived.                 *)
THEOREM Refinement == Spec => ImplementsLogicalSession
<1>1. Init => Logical!Init
  <2>1. ASSUME Init, NEW d \in Device
        PROVE  /\ StageOf(d) \in Logical!Stages
               /\ d \in handed => StageOf(d) \in {"live", "ended"}
    <3>1. PICK found \in InitialSessions : device = found.device /\ tunnel = found.tunnel
      BY <2>1 DEF Init
    <3>2. device[d] # None => device[d].peer = "own"
      BY <3>1, InitialSessionsAssumption
    <3>3. d \in handed => device[d] # None
      BY <2>1 DEF Init
    <3> QED BY <3>2, <3>3, StageMeans DEF From, Logical!Stages
  <2>2. Init => handed \subseteq Device
    BY DEF Init
  <2> QED BY <2>1, <2>2 DEF Logical!Init, stages
<1>2. Inv /\ [Next]_vars => [Logical!Next]_<<stages, handed>>
  BY StepRefines
<1> QED BY <1>1, <1>2, Invariant, PTL DEF Spec, ImplementsLogicalSession, Logical!Spec
===============================================================================
