------------------------ MODULE TerminalSessionsProofs ------------------------
(***************************************************************************)
(* For any number of sessions, threads and calls, provided that no session *)
(* name begins another one: input reaches the session it was meant for, a  *)
(* password meets the prompt it answers, and no half-built session is left *)
(* outside of an operation.  With names that begin one another the first   *)
(* of these is what the run terminal_name_prefix refutes.                  *)
(***************************************************************************)
EXTENDS TerminalSessions, FiniteSetTheorems, TLAPS

NoPrefixes == \A n \in Name : Longer[n] = {}

Busy(k) == k.at \notin {"idle", "waiting"}

Sound(k) ==
  /\ k.at = "idle" <=> k.name = None
  /\ k.at # "idle" => k.op \in Ops

(* The threads, the locks, and which holds which.                          *)
WorkInv ==
  /\ lock \in [Name -> Worker \cup {None}]
  /\ worker \in [Worker -> WorkerState]
  /\ calls \in 0..MaxCalls
  /\ \A n \in Name, w \in Worker : lock[n] = w <=> /\ worker[w].name = n
                                                  /\ worker[w].at # "waiting"
  /\ \A w \in Worker : Sound(worker[w])

Holding(k, n) == k.name = n /\ k.at # "waiting"

(* A server and the identity of its panes.                                 *)
Distinct ==
  \A n \in Name \cup {Bootstrap} : sessions[n] # None =>
    /\ sessions[n].id < nextPane
    /\ \A m \in Name \cup {Bootstrap} :
         sessions[m] # None /\ m # n => sessions[m].id # sessions[n].id

ServerInv ==
  /\ sessions \in [Name \cup {Bootstrap} -> Pane \cup {None}]
  /\ tuned \in BOOLEAN /\ nextPane \in Nat
  /\ Distinct

Building == {"configure", "release", "open_gate"}

Gated(p) == p.gate = "open" => p.started /\ p.recorded /\ p.logged
Whole(p) == p.started /\ (p.recorded => p.gate = "open")

(* What a thread knows of its session.                                     *)
Known(w) ==
  LET at == worker[w].at
      p  == sessions[worker[w].name]
  IN /\ at \in Building \cup {"password", "deliver"} => p # None
     /\ at \in {"release", "open_gate"} => p.recorded /\ p.logged
     /\ at = "open_gate" => p.started
     /\ at = "password" => p.screen = "login"
     /\ at = "deliver" => p.id = worker[w].target

(* A half-built session belongs to the thread that is building it.         *)
Settled(n) ==
  sessions[n] # None =>
    /\ Gated(sessions[n])
    /\ \/ Whole(sessions[n])
       \/ \E w \in Worker : Holding(worker[w], n) /\ worker[w].at \in Building

SessionInv ==
  /\ \A w \in Worker : Known(w)
  /\ \A n \in Name : Settled(n)

Inv == WorkInv /\ ServerInv /\ SessionInv

-----------------------------------------------------------------------------
(* Names.                                                                  *)

LEMMA NamesAreExact ==
  ASSUME NoPrefixes, NEW n \in Name
  PROVE  /\ Exists(n) <=> sessions[n] # None
         /\ Exists(n) => Resolve(n) = n /\ At(n) = sessions[n]
<1>1. {m \in Longer[n] : sessions[m] # None} = {}
  BY DEF NoPrefixes
<1>2. Cardinality({m \in Longer[n] : sessions[m] # None}) # 1
  BY <1>1, FS_EmptySet
<1>3. Resolve(n) = IF sessions[n] # None THEN n ELSE None
  BY <1>2 DEF Resolve
<1> QED BY <1>3, NameAssumption DEF Exists, At

-----------------------------------------------------------------------------
(* The effects of tmux commands on the server.                             *)

Only(n) == \A m \in (Name \cup {Bootstrap}) \ {n} : sessions'[m] = sessions[m]

LEMMA CreatedSession ==
  ASSUME ServerInv, NEW n \in Name \cup {Bootstrap}, sessions[n] = None, NewSession(n)
  PROVE  /\ ServerInv' /\ Only(n) /\ sessions'[n] # None
         /\ sessions'[n].gate = "pending"
<1> DEFINE id == IF Running THEN nextPane ELSE 0
           p == NewPane(id)
<1>1. id \in Nat
  BY DEF ServerInv
<1>2. /\ p \in Pane /\ p.id = id /\ p.gate = "pending"
  BY <1>1 DEF NewPane, Pane, Running, ServerInv
<1>3. sessions' = [sessions EXCEPT ![n] = p] /\ nextPane' = id + 1 /\ tuned' = (Running /\ tuned)
  BY DEF NewSession
<1>4. p # None
  BY <1>2, InitialServersAssumption
<1>5. \A m \in Name \cup {Bootstrap} : sessions[m] # None => sessions[m].id < id /\ sessions[m].id \in Nat
  BY DEF Running, ServerInv, Distinct, Pane
<1> HIDE DEF p, id
<1>6. Only(n) /\ sessions'[n] = p
  BY <1>3 DEF ServerInv, Only
<1>7. sessions' \in [Name \cup {Bootstrap} -> Pane \cup {None}]
  BY <1>2, <1>3 DEF ServerInv
<1>8. nextPane' \in Nat /\ tuned' \in BOOLEAN
  BY <1>1, <1>3 DEF ServerInv
<1>9. Distinct'
  <2>1. ASSUME NEW k \in Name \cup {Bootstrap}, sessions'[k] # None
        PROVE  /\ sessions'[k].id < nextPane'
               /\ \A m \in Name \cup {Bootstrap} :
                    sessions'[m] # None /\ m # k => sessions'[m].id # sessions'[k].id
    <3>1. CASE k = n
      <4>1. sessions'[k].id = id
        BY <1>2, <1>6, <3>1
      <4>2. ASSUME NEW m \in Name \cup {Bootstrap}, sessions'[m] # None, m # k
            PROVE  sessions'[m].id # id
        BY <1>1, <1>5, <1>6, <3>1, <4>2 DEF Only
      <4> QED BY <1>1, <1>3, <4>1, <4>2
    <3>2. CASE k # n
      <4>1. sessions'[k] = sessions[k] /\ sessions[k].id < id /\ sessions[k].id \in Nat
        BY <1>5, <1>6, <2>1, <3>2 DEF Only
      <4>2. ASSUME NEW m \in Name \cup {Bootstrap}, sessions'[m] # None, m # k
            PROVE  sessions'[m].id # sessions'[k].id
        <5>1. CASE m = n
          BY <1>1, <1>2, <1>6, <4>1, <5>1
        <5>2. CASE m # n
          BY <1>6, <2>1, <4>1, <4>2, <5>2 DEF Only, ServerInv, Distinct
        <5> QED BY <5>1, <5>2
      <4> QED BY <1>1, <1>3, <4>1, <4>2
    <3> QED BY <3>1, <3>2
  <2> QED BY <2>1 DEF Distinct
<1> QED BY <1>2, <1>4, <1>6, <1>7, <1>8, <1>9 DEF ServerInv

LEMMA KilledSession ==
  ASSUME ServerInv, NEW n \in Name \cup {Bootstrap}, KillSession(n)
  PROVE  ServerInv' /\ Only(n) /\ sessions'[n] = None
<1> DEFINE last == \A m \in (Name \cup {Bootstrap}) \ {n} : sessions[m] = None
<1>1. /\ sessions' = [sessions EXCEPT ![n] = None] /\ tuned' = (tuned /\ ~last)
      /\ nextPane' = IF last THEN 0 ELSE nextPane
  BY DEF KillSession
<1>2. Only(n) /\ sessions'[n] = None
  BY <1>1 DEF ServerInv, Only
<1>3. sessions' \in [Name \cup {Bootstrap} -> Pane \cup {None}] /\ tuned' \in BOOLEAN
      /\ nextPane' \in Nat
  BY <1>1 DEF ServerInv
<1>4. Distinct'
  <2>1. CASE last
    BY <1>2, <2>1 DEF Distinct, Only
  <2>2. CASE ~last
    <3>1. nextPane' = nextPane
      BY <1>1, <2>2
    <3> HIDE DEF last
    <3> QED BY <1>2, <3>1 DEF ServerInv, Distinct, Only
  <2> QED BY <2>1, <2>2
<1> QED BY <1>2, <1>3, <1>4 DEF ServerInv

LEMMA ChangedPane ==
  ASSUME ServerInv, NEW n \in Name \cup {Bootstrap}, sessions[n] # None,
         NEW p \in Pane, p.id = sessions[n].id, SetPane(n, p)
  PROVE  ServerInv' /\ Only(n) /\ sessions'[n] = p /\ p # None
<1>1. sessions' = [sessions EXCEPT ![n] = p] /\ tuned' = tuned /\ nextPane' = nextPane
  BY DEF SetPane
<1>2. Only(n) /\ sessions'[n] = p /\ p # None
  BY <1>1, InitialServersAssumption DEF ServerInv, Only
<1>3. \A m \in Name \cup {Bootstrap} :
        /\ sessions'[m] = None <=> sessions[m] = None
        /\ sessions[m] # None => sessions'[m].id = sessions[m].id
  BY <1>2 DEF Only
<1>4. Distinct'
  BY <1>1, <1>3 DEF Distinct, ServerInv
<1> QED BY <1>1, <1>2, <1>4 DEF ServerInv

-----------------------------------------------------------------------------
(* The effects of a step on the threads.                                   *)

Moves(w, k) ==
  /\ k \in WorkerState /\ Busy(k) /\ k.name = worker[w].name /\ k.op = worker[w].op
  /\ worker' = [worker EXCEPT ![w] = k] /\ lock' = lock

LEMMA MovingOn ==
  ASSUME WorkInv, NEW w \in Worker, Busy(worker[w]), calls' = calls,
         NEW k, Moves(w, k)
  PROVE  WorkInv' /\ worker'[w] = k /\ \A v \in Worker \ {w} : worker'[v] = worker[v]
<1>1. Sound(worker[w]) /\ Sound(k)
  BY DEF WorkInv, Sound, Busy, Moves
<1>2. worker'[w] = k /\ \A v \in Worker \ {w} : worker'[v] = worker[v]
  BY DEF WorkInv, Moves
<1> QED BY <1>1, <1>2 DEF WorkInv, Moves, Busy

LEMMA IdleIsSound == Idle \in WorkerState /\ Sound(Idle) /\ \A n \in Name : ~Holding(Idle, n)
<1>1. Idle \in WorkerState
  BY DEF Idle, WorkerState, Steps, Ops
<1> QED BY <1>1, NameAssumption DEF Idle, Sound, Holding

LEMMA Returning ==
  ASSUME WorkInv, NEW w \in Worker, Busy(worker[w]), calls' = calls, Return(w)
  PROVE  WorkInv' /\ worker'[w] = Idle /\ \A v \in Worker \ {w} : worker'[v] = worker[v]
<1>1. worker'[w] = Idle /\ \A v \in Worker \ {w} : worker'[v] = worker[v]
  BY DEF WorkInv, Return
<1>2. worker[w].name \in Name /\ lock[worker[w].name] = w
  BY DEF WorkInv, WorkerState, Sound, Busy
<1>3. worker' \in [Worker -> WorkerState] /\ lock' \in [Name -> Worker \cup {None}]
  BY IdleIsSound DEF WorkInv, Return
<1>4. ASSUME NEW n \in Name, NEW v \in Worker
      PROVE  lock'[n] = v <=> worker'[v].name = n /\ worker'[v].at # "waiting"
  <2>1. lock'[n] = IF n = worker[w].name THEN None ELSE lock[n]
    BY DEF WorkInv, Return
  <2>2. None # v /\ (v = w => ~Holding(worker'[v], n))
    BY <1>1, IdleIsSound, NameAssumption
  <2> QED BY <1>1, <1>2, <2>1, <2>2 DEF WorkInv, Holding
<1> QED BY <1>1, <1>3, <1>4, IdleIsSound DEF WorkInv

LEMMA OneHolder ==
  ASSUME WorkInv, NEW n \in Name, NEW v \in Worker, NEW w \in Worker,
         Holding(worker[v], n), Holding(worker[w], n)
  PROVE  v = w
BY DEF WorkInv, Holding

-----------------------------------------------------------------------------
(* The step of a thread that holds the lock of its session.                *)

Right(w, n) ==
  /\ WorkInv' /\ ServerInv'
  /\ \A v \in Worker \ {w} : worker'[v] = worker[v]
  /\ \A m \in Name \ {n} : sessions'[m] = sessions[m]
  /\ worker'[w] = Idle \/ Holding(worker'[w], n)
  /\ Known(w)'
  /\ sessions'[n] # None => /\ Gated(sessions'[n])
                            /\ Whole(sessions'[n]) \/ worker'[w].at \in Building

LEMMA RightPreserves ==
  ASSUME Inv, NEW w \in Worker, NEW n \in Name, Holding(worker[w], n), Right(w, n)
  PROVE  Inv'
<1>1. ASSUME NEW v \in Worker, v # w PROVE Known(v)'
  <2>1. Known(v) /\ worker'[v] = worker[v] /\ Sound(worker[v])
    BY <1>1 DEF Inv, SessionInv, WorkInv, Right
  <2>2. CASE Busy(worker[v])
    <3>1. worker[v].name \in Name
      BY <2>1, <2>2 DEF Inv, WorkInv, WorkerState, Sound, Busy
    <3>2. worker[v].name # n
      BY <1>1, <2>2, OneHolder DEF Inv, Holding, Busy
    <3> QED BY <2>1, <3>1, <3>2 DEF Known, Right
  <2>3. CASE ~Busy(worker[v])
    BY <2>1, <2>3 DEF Busy, Known, Building
  <2> QED BY <2>2, <2>3
<1>2. ASSUME NEW m \in Name PROVE Settled(m)'
  <2>1. CASE m = n
    <3>1. worker'[w].at \in Building => Holding(worker'[w], n)
      BY DEF Right, Idle, Building
    <3> QED BY <2>1, <3>1 DEF Settled, Right
  <2>2. CASE m # n
    <3>1. ~Holding(worker[w], m)
      BY <2>2 DEF Holding
    <3> QED BY <2>2, <3>1 DEF Inv, SessionInv, Settled, Right
  <2> QED BY <2>1, <2>2
<1> QED BY <1>1, <1>2 DEF Inv, SessionInv, Right

(* What a step needs to know before it.                                    *)
LEMMA HolderKnows ==
  ASSUME Inv, NEW w \in Worker, Busy(worker[w])
  PROVE  LET n == worker[w].name
         IN /\ n \in Name /\ Holding(worker[w], n) /\ Known(w)
            /\ worker \in [Worker -> WorkerState] /\ worker[w] \in WorkerState
            /\ worker[w].op \in Ops
            /\ sessions[n] # None =>
                 /\ sessions[n] \in Pane /\ Gated(sessions[n])
                 /\ Whole(sessions[n]) \/ worker[w].at \in Building
<1>1. /\ worker[w].name \in Name /\ Holding(worker[w], worker[w].name) /\ Known(w)
      /\ worker \in [Worker -> WorkerState] /\ worker[w] \in WorkerState /\ worker[w].op \in Ops
  BY DEF Inv, SessionInv, WorkInv, WorkerState, Sound, Busy, Holding
<1>2. Settled(worker[w].name)
  BY <1>1 DEF Inv, SessionInv
<1>3. sessions[worker[w].name] # None => sessions[worker[w].name] \in Pane
  BY <1>1 DEF Inv, ServerInv
<1> QED BY <1>1, <1>2, <1>3, OneHolder DEF Inv, Settled

LEMMA GotoMoves ==
  ASSUME WorkInv, NEW w \in Worker, Busy(worker[w]), calls' = calls,
         NEW step \in Steps \ {"idle", "waiting"}, Goto(w, step), UNCHANGED lock
  PROVE  /\ WorkInv' /\ \A v \in Worker \ {w} : worker'[v] = worker[v]
         /\ worker'[w].at = step /\ worker'[w].name = worker[w].name
<1> DEFINE k == [worker[w] EXCEPT !.at = step]
<1>1. worker[w] \in WorkerState
  BY DEF WorkInv
<1>2. /\ k \in WorkerState /\ k.at = step /\ k.name = worker[w].name /\ k.op = worker[w].op
      /\ worker' = [worker EXCEPT ![w] = k]
  BY <1>1 DEF WorkerState, Goto
<1> HIDE DEF k
<1>3. Moves(w, k)
  BY <1>2 DEF Moves, Busy
<1> QED BY <1>2, <1>3, MovingOn

(* The end of a step: the thread goes on to a step that relies on nothing, *)
(* or returns, and its session is whole or gone.                           *)
Ends(w) ==
  \/ Return(w)
  \/ UNCHANGED lock /\ \E step \in Steps \ (Building \cup {"idle", "waiting", "password", "deliver"}) :
                         Goto(w, step)

LEMMA EndOfStep ==
  ASSUME Inv, NEW w \in Worker, Busy(worker[w]), calls' = calls, Ends(w), ServerInv',
         LET n == worker[w].name
         IN /\ \A m \in Name \ {n} : sessions'[m] = sessions[m]
            /\ sessions'[n] # None => Gated(sessions'[n]) /\ Whole(sessions'[n])
  PROVE  Inv'
<1> DEFINE n == worker[w].name
<1>1. n \in Name /\ Holding(worker[w], n)
  BY HolderKnows
<1>2. /\ WorkInv' /\ \A v \in Worker \ {w} : worker'[v] = worker[v]
      /\ worker'[w] = Idle \/ Holding(worker'[w], n)
      /\ worker'[w].at \notin Building \cup {"password", "deliver"}
  <2>1. CASE Return(w)
    <3>1. WorkInv' /\ worker'[w] = Idle /\ \A v \in Worker \ {w} : worker'[v] = worker[v]
      BY <2>1, Returning DEF Inv
    <3>2. Idle.at = "idle"
      BY DEF Idle
    <3> QED BY <3>1, <3>2 DEF Building
  <2>2. ASSUME NEW step \in Steps \ (Building \cup {"idle", "waiting", "password", "deliver"}),
               Goto(w, step), UNCHANGED lock
        PROVE  /\ WorkInv' /\ \A v \in Worker \ {w} : worker'[v] = worker[v]
               /\ worker'[w] = Idle \/ Holding(worker'[w], n)
               /\ worker'[w].at \notin Building \cup {"password", "deliver"}
    BY <2>2, GotoMoves DEF Inv, Holding
  <2> QED BY <2>1, <2>2 DEF Ends
<1>3. Known(w)'
  BY <1>2 DEF Known, Building
<1>4. Right(w, n)
  BY <1>2, <1>3 DEF Right
<1> QED BY <1>1, <1>4, RightPreserves

(* Steps that only look at the server.                                     *)
LEMMA LookingOn ==
  ASSUME Inv, NEW w \in Worker, Busy(worker[w]), calls' = calls, Ends(w), UNCHANGED Server,
         worker[w].at \notin Building
  PROVE  Inv'
<1>1. UNCHANGED <<sessions, tuned, nextPane>>
  BY DEF Server
<1>2. ServerInv'
  BY <1>1 DEF Inv, ServerInv, Distinct
<1>3. LET n == worker[w].name
      IN sessions[n] # None => Gated(sessions[n]) /\ Whole(sessions[n])
  BY HolderKnows
<1> QED BY <1>1, <1>2, <1>3, EndOfStep

(* A session is removed.                                                   *)
LEMMA KillingOn ==
  ASSUME Inv, NoPrefixes, NEW w \in Worker, Busy(worker[w]), calls' = calls, Ends(w),
         \/ Exists(worker[w].name) /\ KillSession(Resolve(worker[w].name))
         \/ ~Exists(worker[w].name) /\ UNCHANGED Server
  PROVE  Inv'
<1> DEFINE n == worker[w].name
<1>1. n \in Name
  BY HolderKnows
<1>2. CASE Exists(n) /\ KillSession(Resolve(n))
  <2>1. KillSession(n)
    BY <1>1, <1>2, NamesAreExact
  <2>2. ServerInv' /\ Only(n) /\ sessions'[n] = None
    BY <1>1, <2>1, KilledSession DEF Inv
  <2> QED BY <2>2, EndOfStep DEF Only
<1>3. CASE ~Exists(n) /\ UNCHANGED Server
  <2>1. sessions[n] = None
    BY <1>1, <1>3, NamesAreExact
  <2>2. UNCHANGED <<sessions, tuned, nextPane>>
    BY <1>3 DEF Server
  <2>3. ServerInv'
    BY <2>2 DEF Inv, ServerInv, Distinct
  <2> QED BY <2>1, <2>2, <2>3, EndOfStep
<1> QED BY <1>2, <1>3

LEMMA BootstrapPreserves ==
  ASSUME Inv, NEW w \in Worker, StartServer(w) \/ Tune(w) \/ Unboot(w)
  PROVE  Inv'
<1> DEFINE n == worker[w].name
<1>1. Busy(worker[w]) /\ calls' = calls /\ worker[w].at \notin Building
  BY DEF StartServer, Tune, Unboot, Busy, Building
<1>2. n \in Name /\ Holding(worker[w], n) /\ worker[w] \in WorkerState /\ worker \in [Worker -> WorkerState]
      /\ (sessions[n] # None => Gated(sessions[n]) /\ Whole(sessions[n]))
  BY <1>1, HolderKnows
<1>3. Bootstrap \notin Name
  BY NameAssumption
<1>4. ASSUME Only(Bootstrap) PROVE \A m \in Name : sessions'[m] = sessions[m]
  BY <1>3, <1>4 DEF Only
<1>5. CASE Unboot(w)
  <2>1. Ends(w)
    BY <1>5 DEF Unboot, Ends, Steps, Building
  <2>2. CASE KillSession(Bootstrap)
    <3>1. ServerInv' /\ Only(Bootstrap)
      BY <2>2, KilledSession DEF Inv
    <3> QED BY <1>1, <1>2, <1>4, <2>1, <3>1, EndOfStep
  <2>3. CASE UNCHANGED Server
    BY <1>1, <2>1, <2>3, LookingOn
  <2> QED BY <1>5, <2>2, <2>3 DEF Unboot
<1>6. CASE Tune(w)
  <2>1. Ends(w)
    BY <1>6 DEF Tune, Ends, Steps, Building
  <2>2. CASE UNCHANGED Server
    BY <1>1, <2>1, <2>2, LookingOn
  <2>3. CASE tuned' = TRUE /\ UNCHANGED <<sessions, nextPane>>
    <3>1. ServerInv'
      BY <2>3 DEF Inv, ServerInv, Distinct
    <3> QED BY <1>1, <1>2, <2>1, <2>3, <3>1, EndOfStep
  <2> QED BY <1>6, <2>2, <2>3 DEF Tune
<1>7. CASE StartServer(w)
  <2>1. CASE Goto(w, "server_again") /\ UNCHANGED Server
    <3>1. Ends(w)
      BY <1>7, <2>1 DEF StartServer, Ends, Steps, Building
    <3> QED BY <1>1, <2>1, <3>1, LookingOn
  <2>2. CASE ~(Goto(w, "server_again") /\ UNCHANGED Server)
    <3> DEFINE k == [worker[w] EXCEPT !.at = "tune", !.boot = TRUE]
    <3>1. /\ sessions[Bootstrap] = None /\ NewSession(Bootstrap) /\ lock' = lock
          /\ worker' = [worker EXCEPT ![w] = k]
      BY <1>7, <2>2 DEF StartServer
    <3>2. /\ k \in WorkerState /\ k.at = "tune" /\ k.name = n /\ k.op = worker[w].op
      BY <1>2 DEF WorkerState, Steps
    <3> HIDE DEF k
    <3>3. Moves(w, k)
      BY <3>1, <3>2 DEF Moves, Busy
    <3>4. WorkInv' /\ worker'[w] = k /\ \A v \in Worker \ {w} : worker'[v] = worker[v]
      BY <1>1, <3>3, MovingOn DEF Inv
    <3>5. ServerInv' /\ \A m \in Name : sessions'[m] = sessions[m]
      BY <3>1, <1>4, CreatedSession DEF Inv
    <3>6. Known(w)' /\ Holding(worker'[w], n)
      BY <3>2, <3>4 DEF Known, Holding, Building
    <3> QED BY <1>2, <3>4, <3>5, <3>6, RightPreserves DEF Right
  <2> QED BY <2>1, <2>2
<1> QED BY <1>5, <1>6, <1>7

(* The creation of a session, step by step.                                *)
LEMMA CreationPreserves ==
  ASSUME Inv, NoPrefixes, NEW w \in Worker,
         Create(w) \/ Configure(w) \/ Release(w) \/ OpenGate(w) \/ Abort(w)
  PROVE  Inv'
<1> DEFINE n == worker[w].name
<1>1. Busy(worker[w]) /\ calls' = calls
  BY DEF Create, Configure, Release, OpenGate, Abort, Busy
<1>2. /\ n \in Name /\ Holding(worker[w], n) /\ Known(w)
      /\ sessions[n] # None =>
           /\ sessions[n] \in Pane /\ Gated(sessions[n])
           /\ Whole(sessions[n]) \/ worker[w].at \in Building
  BY <1>1, HolderKnows
<1>g. ASSUME NEW step \in Steps \ {"idle", "waiting"}, Goto(w, step), UNCHANGED lock
      PROVE  /\ WorkInv' /\ \A v \in Worker \ {w} : worker'[v] = worker[v]
             /\ worker'[w].at = step /\ worker'[w].name = n /\ Holding(worker'[w], n)
  BY <1>1, <1>g, GotoMoves DEF Inv, Holding
<1>3. CASE Create(w)
  <2>1. CASE Return(w) /\ UNCHANGED Server
    <3>1. worker[w].at \notin Building /\ Ends(w)
      BY <1>3, <2>1 DEF Create, Building, Ends
    <3> QED BY <1>1, <2>1, <3>1, LookingOn
  <2>2. CASE sessions[n] = None /\ NewSession(n) /\ Goto(w, "configure") /\ UNCHANGED lock
    <3>1. ServerInv' /\ Only(n) /\ sessions'[n] # None /\ sessions'[n].gate = "pending"
      BY <1>2, <2>2, CreatedSession DEF Inv
    <3>2. "configure" \in Steps \ {"idle", "waiting"}
      BY DEF Steps
    <3>3. Known(w)'
      BY <3>1, <3>2, <2>2, <1>g DEF Known, Building
    <3> QED BY <3>1, <3>2, <3>3, <2>2, <1>2, <1>g, RightPreserves DEF Right, Only, Gated, Building
  <2> QED BY <1>3, <2>1, <2>2 DEF Create
<1>4. CASE Configure(w)
  <2>1. /\ sessions[n] # None /\ SetPane(n, [sessions[n] EXCEPT !.recorded = TRUE, !.logged = TRUE])
        /\ Goto(w, "release") /\ UNCHANGED lock
    BY <1>4 DEF Configure
  <2>2. PICK p \in Pane : p = [sessions[n] EXCEPT !.recorded = TRUE, !.logged = TRUE]
    BY <1>2, <2>1 DEF Pane
  <2>3. p.id = sessions[n].id /\ p.recorded /\ p.logged /\ p.gate = sessions[n].gate
        /\ p.started = sessions[n].started
    BY <1>2, <2>1, <2>2 DEF Pane
  <2>4. ServerInv' /\ Only(n) /\ sessions'[n] = p /\ p # None
    BY <1>2, <2>1, <2>2, <2>3, ChangedPane DEF Inv
  <2>5. "release" \in Steps \ {"idle", "waiting"}
    BY DEF Steps
  <2>6. Known(w)'
    BY <2>1, <2>3, <2>4, <2>5, <1>g DEF Known, Building
  <2> QED BY <2>1, <2>3, <2>4, <2>5, <2>6, <1>2, <1>g, RightPreserves DEF Right, Only, Gated, Building
<1>5. CASE Release(w)
  <2>1. /\ sessions[n] # None /\ SetPane(n, [sessions[n] EXCEPT !.started = TRUE])
        /\ Goto(w, "open_gate") /\ UNCHANGED lock /\ worker[w].at = "release"
    BY <1>5 DEF Release
  <2>2. PICK p \in Pane : p = [sessions[n] EXCEPT !.started = TRUE]
    BY <1>2, <2>1 DEF Pane
  <2>3. p.id = sessions[n].id /\ p.started /\ p.recorded /\ p.logged
    BY <1>2, <2>1, <2>2 DEF Pane, Known
  <2>4. ServerInv' /\ Only(n) /\ sessions'[n] = p /\ p # None
    BY <1>2, <2>1, <2>2, <2>3, ChangedPane DEF Inv
  <2>5. "open_gate" \in Steps \ {"idle", "waiting"}
    BY DEF Steps
  <2>6. Known(w)'
    BY <2>1, <2>3, <2>4, <2>5, <1>g DEF Known, Building
  <2> QED BY <2>1, <2>3, <2>4, <2>5, <2>6, <1>2, <1>g, RightPreserves DEF Right, Only, Gated, Building
<1>6. CASE OpenGate(w)
  <2>1. /\ sessions[n] # None /\ SetPane(n, [sessions[n] EXCEPT !.gate = "open"])
        /\ Goto(w, "unboot") /\ UNCHANGED lock /\ worker[w].at = "open_gate"
    BY <1>6 DEF OpenGate
  <2>2. PICK p \in Pane : p = [sessions[n] EXCEPT !.gate = "open"]
    BY <1>2, <2>1 DEF Pane
  <2>3. p.id = sessions[n].id /\ p.gate = "open" /\ p.started /\ p.recorded /\ p.logged
    BY <1>2, <2>1, <2>2 DEF Pane, Known
  <2>4. ServerInv' /\ Only(n) /\ sessions'[n] = p
    BY <1>2, <2>1, <2>2, <2>3, ChangedPane DEF Inv
  <2>5. Ends(w)
    BY <2>1 DEF Ends, Steps, Building
  <2> QED BY <1>1, <2>3, <2>4, <2>5, EndOfStep DEF Only, Gated, Whole
<1>7. CASE Abort(w)
  <2>1. Ends(w)
    BY <1>7 DEF Abort, Ends
  <2> QED BY <1>1, <1>7, <2>1, KillingOn DEF Abort
<1> QED BY <1>3, <1>4, <1>5, <1>6, <1>7

LEMMA KillersPreserve ==
  ASSUME Inv, NoPrefixes, NEW w \in Worker, Replace(w) \/ Kill(w)
  PROVE  Inv'
<1>1. Busy(worker[w]) /\ calls' = calls /\ Ends(w)
  BY DEF Replace, Kill, Busy, Ends, Steps, Building
<1>2. \/ Exists(worker[w].name) /\ KillSession(Resolve(worker[w].name))
      \/ ~Exists(worker[w].name) /\ UNCHANGED Server
  BY DEF Replace, Kill
<1> QED BY <1>1, <1>2, KillingOn

LEMMA LookersPreserve ==
  ASSUME Inv, NoPrefixes, NEW w \in Worker,
         \/ Inspect(w) \/ FindServer(w) \/ CheckExists(w) \/ Look(w) \/ Finish(w)
         \/ Verify(w) \/ Capture(w)
  PROVE  Inv'
<1> DEFINE n == worker[w].name
<1>1. /\ Busy(worker[w]) /\ calls' = calls /\ worker[w].at \notin Building /\ UNCHANGED Server
  BY DEF Inspect, FindServer, CheckExists, Look, Finish, Verify, Capture, Busy, Building
<1>2. /\ n \in Name /\ Holding(worker[w], n) /\ worker[w] \in WorkerState
      /\ worker \in [Worker -> WorkerState]
      /\ sessions[n] # None => sessions[n] \in Pane /\ Gated(sessions[n]) /\ Whole(sessions[n])
  BY <1>1, HolderKnows
<1>3. UNCHANGED <<sessions, tuned, nextPane>> /\ ServerInv'
  BY <1>1 DEF Server, Inv, ServerInv, Distinct
<1>4. CASE Inspect(w) \/ FindServer(w) \/ Finish(w) \/ Capture(w)
  <2>1. Ends(w)
    BY <1>4 DEF Inspect, FindServer, Finish, Capture, Ends, Steps, Building
  <2> QED BY <1>1, <2>1, LookingOn
<1>5. CASE CheckExists(w)
  <2> DEFINE k == [worker[w] EXCEPT !.reused = Exists(n),
                                    !.at = IF Exists(n) THEN "unboot" ELSE "create"]
  <2>1. worker' = [worker EXCEPT ![w] = k] /\ lock' = lock
    BY <1>5 DEF CheckExists
  <2>2. /\ k \in WorkerState /\ k.at \in {"unboot", "create"} /\ k.name = n /\ k.op = worker[w].op
    <3>1. Exists(n) \in BOOLEAN
      BY DEF Exists
    <3> QED BY <3>1, <1>2 DEF WorkerState, Steps
  <2> HIDE DEF k
  <2>3. Moves(w, k)
    BY <2>1, <2>2 DEF Moves, Busy
  <2>4. WorkInv' /\ worker'[w] = k /\ \A v \in Worker \ {w} : worker'[v] = worker[v]
    BY <1>1, <2>3, MovingOn DEF Inv
  <2>5. Known(w)' /\ Holding(worker'[w], n)
    BY <2>2, <2>4 DEF Known, Holding, Building
  <2> QED BY <1>2, <1>3, <2>4, <2>5, RightPreserves DEF Right
<1>6. CASE Look(w)
  <2>1. CASE Ends(w)
    BY <1>1, <2>1, LookingOn
  <2>2. CASE ~Ends(w)
    <3>1. Goto(w, "password") /\ Shows(n, "login") /\ UNCHANGED lock
      BY <1>6, <2>2 DEF Look, Ends, Steps, Building
    <3>2. sessions[n] # None /\ sessions[n].screen = "login"
      BY <1>2, <3>1, NamesAreExact DEF Shows
    <3>3. /\ WorkInv' /\ \A v \in Worker \ {w} : worker'[v] = worker[v]
          /\ worker'[w].at = "password" /\ worker'[w].name = n
      BY <1>1, <3>1, GotoMoves DEF Steps, Inv
    <3>4. Known(w)' /\ Holding(worker'[w], n)
      BY <1>3, <3>2, <3>3 DEF Known, Holding, Building
    <3> QED BY <1>2, <1>3, <3>3, <3>4, RightPreserves DEF Right
  <2> QED BY <2>1, <2>2
<1>7. CASE Verify(w)
  <2>1. CASE Return(w)
    BY <1>1, <2>1, LookingOn DEF Ends
  <2>2. CASE ~Return(w)
    <3> DEFINE k == [worker[w] EXCEPT !.at = "deliver", !.target = At(n).id]
    <3>1. Ready(n) /\ worker' = [worker EXCEPT ![w] = k] /\ lock' = lock
      BY <1>7, <2>2 DEF Verify
    <3>2. sessions[n] # None /\ At(n) = sessions[n]
      BY <1>2, <3>1, NamesAreExact DEF Ready, Recorded
    <3>3. At(n).id \in Nat
      BY <1>2, <3>2 DEF Pane
    <3>4. /\ k \in WorkerState /\ k.at = "deliver" /\ k.name = n /\ k.op = worker[w].op
          /\ k.target = sessions[n].id
      BY <1>2, <3>2, <3>3 DEF WorkerState, Steps
    <3> HIDE DEF k
    <3>5. Moves(w, k)
      BY <3>1, <3>4 DEF Moves, Busy
    <3>6. WorkInv' /\ worker'[w] = k /\ \A v \in Worker \ {w} : worker'[v] = worker[v]
      BY <1>1, <3>5, MovingOn DEF Inv
    <3>7. Known(w)' /\ Holding(worker'[w], n)
      BY <1>3, <3>2, <3>4, <3>6 DEF Known, Holding, Building
    <3> QED BY <1>2, <1>3, <3>6, <3>7, RightPreserves DEF Right
  <2> QED BY <2>1, <2>2
<1> QED BY <1>4, <1>5, <1>6, <1>7

(* Typing: the password, and the inputs of a send.                         *)
LEMMA PasswordPreserves ==
  ASSUME Inv, NoPrefixes, NEW w \in Worker, Password(w)
  PROVE  Inv'
<1> DEFINE n == worker[w].name
<1>1. Busy(worker[w]) /\ calls' = calls /\ worker[w].at \notin Building
  BY DEF Password, Busy, Building
<1>2. /\ n \in Name
      /\ sessions[n] # None => sessions[n] \in Pane /\ Gated(sessions[n]) /\ Whole(sessions[n])
  BY <1>1, HolderKnows
<1>3. Ends(w)
  BY DEF Password, Ends, Steps, Building
<1>4. CASE UNCHANGED Server
  BY <1>1, <1>3, <1>4, LookingOn
<1>5. CASE ~UNCHANGED Server
  <2>1. Ready(n) /\ \E screen \in {"login", "prompt"} :
                      SetPane(Resolve(n), [At(n) EXCEPT !.screen = screen])
    BY <1>5 DEF Password
  <2>2. sessions[n] # None /\ At(n) = sessions[n] /\ Resolve(n) = n
    BY <1>2, <2>1, NamesAreExact DEF Ready, Recorded
  <2>3. PICK screen \in {"login", "prompt"} : SetPane(n, [sessions[n] EXCEPT !.screen = screen])
    BY <2>1, <2>2
  <2>4. PICK p \in Pane : p = [sessions[n] EXCEPT !.screen = screen]
    BY <1>2, <2>2 DEF Pane
  <2>5. /\ p.id = sessions[n].id /\ Gated(p) /\ Whole(p)
    BY <1>2, <2>2, <2>4 DEF Pane, Gated, Whole
  <2>6. ServerInv' /\ Only(n) /\ sessions'[n] = p
    BY <1>2, <2>2, <2>3, <2>4, <2>5, ChangedPane DEF Inv
  <2> QED BY <1>1, <1>3, <2>5, <2>6, EndOfStep DEF Only
<1> QED BY <1>4, <1>5

LEMMA DeliveryIsExact ==
  ASSUME Inv, NEW w \in Worker, worker[w].at = "deliver"
  PROVE  Addressed(w) = {worker[w].name}
<1>1. worker[w].name \in Name /\ Known(w)
  BY HolderKnows DEF Busy
<1>2. /\ sessions[worker[w].name] # None /\ sessions[worker[w].name].id = worker[w].target
  BY <1>1 DEF Known
<1> QED BY <1>1, <1>2 DEF Addressed, Inv, ServerInv, Distinct

LEMMA DeliveryPreserves ==
  ASSUME Inv, NEW w \in Worker, Deliver(w)
  PROVE  Inv'
<1> DEFINE n == worker[w].name
<1>1. Busy(worker[w]) /\ calls' = calls /\ worker[w].at \notin Building /\ worker[w].at = "deliver"
  BY DEF Deliver, Busy, Building
<1>2. /\ n \in Name /\ Holding(worker[w], n) /\ worker[w] \in WorkerState
      /\ worker \in [Worker -> WorkerState] /\ Known(w)
      /\ sessions[n] # None => sessions[n] \in Pane /\ Gated(sessions[n]) /\ Whole(sessions[n])
  BY <1>1, HolderKnows
<1>3. Addressed(w) = {n} /\ sessions[n] # None
  BY <1>1, <1>2, DeliveryIsExact DEF Known
<1>4. PICK p \in Pane : SetPane(n, p) /\ p.id = sessions[n].id /\ Gated(p) /\ Whole(p)
  <2>1. PICK screen \in {"login", "prompt"} :
          SetPane(n, IF sessions[n].dead \/ sessions[n].screen = "blank" THEN sessions[n]
                     ELSE [sessions[n] EXCEPT !.screen = screen])
    BY <1>3 DEF Deliver
  <2>2. LET q == [sessions[n] EXCEPT !.screen = screen]
        IN q \in Pane /\ q.id = sessions[n].id /\ Gated(q) /\ Whole(q)
    BY <1>2, <1>3 DEF Pane, Gated, Whole
  <2> QED BY <1>2, <1>3, <2>1, <2>2
<1>5. ServerInv' /\ Only(n) /\ sessions'[n] = p
  BY <1>2, <1>3, <1>4, ChangedPane DEF Inv
<1>6. CASE Return(w)
  BY <1>1, <1>4, <1>5, <1>6, EndOfStep DEF Only, Ends
<1>7. CASE ~Return(w)
  <2> DEFINE k == [worker[w] EXCEPT !.at = "verify", !.left = @ - 1]
  <2>1. worker' = [worker EXCEPT ![w] = k] /\ lock' = lock /\ worker[w].left > 1
    BY <1>3, <1>7 DEF Deliver
  <2>2. worker[w].left \in 0..2
    BY <1>2 DEF WorkerState
  <2>3. worker[w].left - 1 \in 0..2
    BY <2>1, <2>2
  <2>4. /\ k \in WorkerState /\ k.at = "verify" /\ k.name = n /\ k.op = worker[w].op
    BY <1>2, <2>3 DEF WorkerState, Steps
  <2> HIDE DEF k
  <2>5. Moves(w, k)
    BY <2>1, <2>4 DEF Moves, Busy
  <2>6. WorkInv' /\ worker'[w] = k /\ \A v \in Worker \ {w} : worker'[v] = worker[v]
    BY <1>1, <2>5, MovingOn DEF Inv
  <2>7. Known(w)' /\ Holding(worker'[w], n)
    BY <2>4, <2>6 DEF Known, Holding, Building
  <2> QED BY <1>2, <1>4, <1>5, <2>6, <2>7, RightPreserves DEF Right, Only
<1> QED BY <1>6, <1>7

-----------------------------------------------------------------------------
(* Threads that come to a lock, and transports.                            *)

LEMMA NewcomersPreserve ==
  ASSUME Inv, NEW w \in Worker, Acquire(w) \/ \E op \in Ops, n \in Name : Call(w, op, n)
  PROVE  Inv'
<1>1. UNCHANGED <<sessions, tuned, nextPane>> /\ ~Busy(worker[w])
  BY DEF Acquire, Call, Server, Busy
<1>2. /\ worker \in [Worker -> WorkerState] /\ worker[w] \in WorkerState /\ Sound(worker[w])
      /\ calls \in 0..MaxCalls /\ MaxCalls \in Nat
  BY BoundAssumption DEF Inv, WorkInv
<1>3. /\ WorkInv' /\ \A v \in Worker \ {w} : worker'[v] = worker[v]
      /\ worker'[w].at \notin Building \cup {"password", "deliver"}
  <2>1. CASE Acquire(w)
    <3> DEFINE n == worker[w].name
               step == FirstStep(worker[w].op)
    <3>1. PICK inputs \in 0..2 :
            worker' = [worker EXCEPT ![w] = [worker[w] EXCEPT !.at = step, !.left = inputs]]
      <4>1. PICK inputs \in (IF worker[w].op = "send" THEN 1..2 ELSE {0}) :
              worker' = [worker EXCEPT ![w] = [worker[w] EXCEPT !.at = step, !.left = inputs]]
        BY <2>1 DEF Acquire
      <4>2. inputs \in 0..2
        OBVIOUS
      <4> QED BY <4>1, <4>2
    <3>2. n \in Name /\ worker[w].op \in Ops /\ lock[n] = None /\ lock' = [lock EXCEPT ![n] = w]
          /\ worker[w].at = "waiting" /\ calls' = calls
      BY <2>1, <1>2 DEF Acquire, Sound, WorkerState
    <3>3. step \in {"inspect", "verify", "capture", "kill"}
      BY <3>2 DEF FirstStep, Ops
    <3> DEFINE k == [worker[w] EXCEPT !.at = step, !.left = inputs]
    <3>4. k \in WorkerState /\ k.at = step /\ k.name = n /\ k.op = worker[w].op
      BY <1>2, <3>3 DEF WorkerState, Steps
    <3>5. worker' = [worker EXCEPT ![w] = k]
      BY <3>1
    <3> HIDE DEF k
    <3>6. worker'[w] = k /\ \A v \in Worker \ {w} : worker'[v] = worker[v]
      BY <1>2, <3>5
    <3>7. Sound(k) /\ k.at \notin Building \cup {"password", "deliver"}
      BY <3>2, <3>3, <3>4, NameAssumption DEF Sound, Building
    <3>8. \A m \in Name, v \in Worker : lock'[m] = v <=> worker'[v].name = m /\ worker'[v].at # "waiting"
      <4>1. ASSUME NEW m \in Name, NEW v \in Worker
            PROVE  lock'[m] = v <=> worker'[v].name = m /\ worker'[v].at # "waiting"
        <5>1. lock'[m] = IF m = n THEN w ELSE lock[m]
          BY <3>2 DEF Inv, WorkInv
        <5>2. k.at # "waiting"
          BY <3>3, <3>4
        <5>3. None # v
          BY NameAssumption
        <5> QED BY <3>2, <3>4, <3>6, <5>1, <5>2, <5>3 DEF Inv, WorkInv
      <4> QED BY <4>1
    <3>9. lock' \in [Name -> Worker \cup {None}]
      BY <3>2 DEF Inv, WorkInv
    <3>10. worker' \in [Worker -> WorkerState] /\ \A v \in Worker : Sound(worker'[v])
      BY <1>2, <3>4, <3>5, <3>6, <3>7 DEF Inv, WorkInv
    <3> QED BY <1>2, <3>2, <3>6, <3>7, <3>8, <3>9, <3>10 DEF WorkInv
  <2>2. ASSUME NEW op \in Ops, NEW n \in Name, Call(w, op, n)
        PROVE  /\ WorkInv' /\ \A v \in Worker \ {w} : worker'[v] = worker[v]
               /\ worker'[w].at \notin Building \cup {"password", "deliver"}
    <3> DEFINE k == [Idle EXCEPT !.op = op, !.name = n, !.at = "waiting"]
    <3>1. worker' = [worker EXCEPT ![w] = k] /\ lock' = lock /\ worker[w].at = "idle"
          /\ calls < MaxCalls /\ calls' = calls + 1
      BY <2>2 DEF Call
    <3>2. k \in WorkerState /\ k.op = op /\ k.name = n /\ k.at = "waiting"
      BY IdleIsSound DEF WorkerState, Steps
    <3> HIDE DEF k
    <3>3. worker'[w] = k /\ \A v \in Worker \ {w} : worker'[v] = worker[v]
      BY <1>2, <3>1
    <3>4. Sound(k)
      BY <3>2, NameAssumption DEF Sound
    <3>5. worker[w].name = None /\ calls' \in 0..MaxCalls
      BY <1>2, <3>1 DEF Sound
    <3>6. \A m \in Name : m # None
      BY NameAssumption
    <3> QED BY <1>2, <3>1, <3>2, <3>3, <3>4, <3>5, <3>6 DEF Inv, WorkInv, Building
  <2> QED BY <2>1, <2>2
<1>4. ServerInv'
  BY <1>1 DEF Inv, ServerInv, Distinct
<1>5. ASSUME NEW v \in Worker PROVE Known(v)'
  <2>1. CASE v = w
    BY <1>3, <2>1 DEF Known, Building
  <2>2. CASE v # w
    BY <1>1, <1>3, <2>2 DEF Inv, SessionInv, Known
  <2> QED BY <2>1, <2>2
<1>6. ASSUME NEW m \in Name PROVE Settled(m)'
  <2>1. worker[w].at \notin Building
    BY <1>1 DEF Busy, Building
  <2> QED BY <1>1, <1>3, <2>1 DEF Inv, SessionInv, Settled
<1> QED BY <1>3, <1>4, <1>5, <1>6 DEF Inv, SessionInv

LEMMA TransportsPreserve ==
  ASSUME Inv, NEW n \in Name, TransportEnds(n) \/ TransportPrompts(n)
  PROVE  Inv'
<1>1. UNCHANGED <<lock, worker, calls>> /\ sessions[n] # None
  BY DEF TransportEnds, TransportPrompts
<1>2. sessions[n] \in Pane
  BY <1>1 DEF Inv, ServerInv
<1>3. PICK p \in Pane :
        /\ SetPane(n, p) /\ p.id = sessions[n].id
        /\ p.started = sessions[n].started /\ p.recorded = sessions[n].recorded
        /\ p.logged = sessions[n].logged /\ p.gate = sessions[n].gate
        /\ sessions[n].screen = "login" => p.screen = "login"
  <2>1. CASE TransportEnds(n)
    <3>1. LET p == [sessions[n] EXCEPT !.dead = TRUE]
          IN /\ p \in Pane /\ p.id = sessions[n].id /\ p.screen = sessions[n].screen
             /\ p.started = sessions[n].started /\ p.recorded = sessions[n].recorded
             /\ p.logged = sessions[n].logged /\ p.gate = sessions[n].gate
      BY <1>2 DEF Pane
    <3> QED BY <2>1, <3>1 DEF TransportEnds
  <2>2. CASE TransportPrompts(n)
    <3>1. \A screen \in {"login", "prompt"} :
            LET p == [sessions[n] EXCEPT !.screen = screen]
            IN /\ p \in Pane /\ p.id = sessions[n].id
               /\ p.started = sessions[n].started /\ p.recorded = sessions[n].recorded
               /\ p.logged = sessions[n].logged /\ p.gate = sessions[n].gate
      BY <1>2 DEF Pane
    <3> QED BY <2>2, <3>1 DEF TransportPrompts
  <2> QED BY <2>1, <2>2
<1>4. ServerInv' /\ Only(n) /\ sessions'[n] = p /\ p # None
  BY <1>1, <1>3, ChangedPane DEF Inv
<1>5. WorkInv'
  BY <1>1 DEF Inv, WorkInv
<1>6. ASSUME NEW v \in Worker PROVE Known(v)'
  <2>1. Known(v) /\ worker'[v] = worker[v]
    BY <1>1 DEF Inv, SessionInv
  <2>2. CASE worker[v].name = n
    BY <1>1, <1>3, <1>4, <2>1, <2>2 DEF Known
  <2>3. CASE worker[v].name \in Name \ {n}
    BY <1>4, <2>1, <2>3 DEF Known, Only
  <2>4. CASE worker[v].name \notin Name
    <3>1. worker[v].at = "idle"
      BY <2>4 DEF Inv, WorkInv, WorkerState, Sound
    <3> QED BY <2>1, <3>1 DEF Known, Building
  <2> QED BY <2>2, <2>3, <2>4
<1>7. ASSUME NEW m \in Name PROVE Settled(m)'
  <2>1. CASE m = n
    BY <1>1, <1>3, <1>4, <2>1 DEF Inv, SessionInv, Settled, Gated, Whole
  <2>2. CASE m # n
    BY <1>1, <1>4, <2>2 DEF Inv, SessionInv, Settled, Only
  <2> QED BY <2>1, <2>2
<1> QED BY <1>4, <1>5, <1>6, <1>7 DEF Inv, SessionInv

LEMMA InitHolds ==
  ASSUME Init PROVE Inv
<1> DEFINE there == {n \in Name : sessions[n] # None}
<1>1. /\ sessions \in InitialServers /\ tuned = (\E n \in Name : sessions[n] # None)
      /\ nextPane = Cardinality(there) /\ lock = [n \in Name |-> None]
      /\ worker = [w \in Worker |-> Idle] /\ calls = 0
  BY DEF Init
<1>2. /\ sessions \in [Name \cup {Bootstrap} -> Pane \cup {None}] /\ sessions[Bootstrap] = None
      /\ \A n \in Name : sessions[n] # None =>
           /\ sessions[n].started /\ sessions[n].logged
           /\ sessions[n].recorded <=> sessions[n].gate = "open"
           /\ sessions[n].id < Cardinality(there)
           /\ \A m \in Name \ {n} : sessions[m] # None => sessions[m].id # sessions[n].id
  BY <1>1, InitialServersAssumption
<1>3. Cardinality(there) \in Nat
  <2>1. IsFiniteSet(there)
    BY InitialServersAssumption, FS_Subset
  <2> QED BY <2>1, FS_CardinalityType
<1> HIDE DEF there
<1>4. WorkInv
  <2>1. \A n \in Name, w \in Worker : lock[n] # w /\ ~Holding(worker[w], n)
    BY <1>1, IdleIsSound, NameAssumption
  <2> QED BY <1>1, <2>1, IdleIsSound, BoundAssumption DEF WorkInv, Holding
<1>5. Distinct
  BY <1>1, <1>2 DEF Distinct
<1>6. ServerInv
  BY <1>1, <1>2, <1>3, <1>5 DEF ServerInv
<1>7. \A w \in Worker : Known(w)
  BY <1>1 DEF Known, Idle, Building
<1>8. \A n \in Name : Settled(n)
  BY <1>2 DEF Settled, Gated, Whole
<1> QED BY <1>4, <1>6, <1>7, <1>8 DEF Inv, SessionInv

LEMMA StepPreserves ==
  ASSUME NoPrefixes, Inv, [Next]_vars PROVE Inv'
<1>1. ASSUME NEW w \in Worker, Step(w) PROVE Inv'
  BY <1>1, NewcomersPreserve, LookersPreserve, KillersPreserve, BootstrapPreserves,
     CreationPreserves, PasswordPreserves, DeliveryPreserves DEF Step
<1>2. CASE UNCHANGED vars
  BY <1>2 DEF vars, Inv, WorkInv, ServerInv, Distinct, SessionInv, Known, Settled
<1> QED BY <1>1, <1>2, NewcomersPreserve, TransportsPreserve DEF Next

LEMMA Invariant == ASSUME NoPrefixes PROVE Spec => []Inv
<1>1. Init => Inv
  BY InitHolds
<1>2. Inv /\ [Next]_vars => Inv'
  BY StepPreserves
<1> QED BY <1>1, <1>2, PTL DEF Spec

-----------------------------------------------------------------------------
(* Every variable keeps its type, and each session's lock is held by       *)
(* exactly the thread that works on it (_session_locks).                   *)
THEOREM TypeCorrect == ASSUME NoPrefixes PROVE Spec => []TypeOK
<1>1. Inv => TypeOK
  BY DEF Inv, WorkInv, ServerInv, TypeOK
<1> QED BY <1>1, Invariant, PTL

(* Input is delivered to the session it was verified for, although it is   *)
(* addressed to a pane number that another session may have had or may     *)
(* get, whatever other threads do in between (_managed_pane_target).       *)
THEOREM InputIsDelivered == ASSUME NoPrefixes PROVE Spec => []InputReachesItsSession
<1>1. Inv => InputReachesItsSession
  BY DeliveryIsExact DEF InputReachesItsSession
<1> QED BY <1>1, Invariant, PTL

(* Between the look that saw a password prompt and the answer nobody else  *)
(* answers it (open_device_terminal).                                      *)
THEOREM PasswordsMeetTheirPrompts == ASSUME NoPrefixes PROVE Spec => []PasswordMeetsItsPrompt
<1>1. ASSUME NoPrefixes, Inv, NEW w \in Worker, worker[w].at = "password"
      PROVE  Shows(worker[w].name, "login")
  <2>1. worker[w].name \in Name /\ Known(w)
    BY <1>1, HolderKnows DEF Busy
  <2>2. sessions[worker[w].name] # None /\ sessions[worker[w].name].screen = "login"
    BY <1>1, <2>1 DEF Known
  <2> QED BY <1>1, <2>1, <2>2, NamesAreExact DEF Shows
<1>2. Inv => PasswordMeetsItsPrompt
  BY <1>1 DEF PasswordMeetsItsPrompt
<1> QED BY <1>2, Invariant, PTL

(* Whichever step of a session's creation fails, and whoever looks: a      *)
(* session nobody is working on was started completely, and one that       *)
(* accepts input is identified and logged (_create_logged_session).        *)
THEOREM SessionsAreComplete == ASSUME NoPrefixes PROVE Spec => []SessionsAreReady
<1>1. ASSUME Inv, NEW n \in Name, sessions[n] # None
      PROVE  /\ sessions[n].gate = "open" =>
                  sessions[n].started /\ sessions[n].recorded /\ sessions[n].logged
             /\ lock[n] = None =>
                  sessions[n].started /\ (sessions[n].recorded => sessions[n].gate = "open")
  <2>1. Settled(n)
    BY <1>1 DEF Inv, SessionInv
  <2>2. ASSUME lock[n] = None, NEW w \in Worker PROVE ~Holding(worker[w], n)
    BY <1>1, <2>2, NameAssumption DEF Inv, WorkInv, Holding
  <2> QED BY <1>1, <2>1, <2>2 DEF Settled, Gated, Whole
<1>2. Inv => SessionsAreReady
  BY <1>1 DEF SessionsAreReady
<1> QED BY <1>2, Invariant, PTL
===============================================================================
