-------------------------- MODULE DiscoveryRunProofs --------------------------
(***************************************************************************)
(* For any number of devices, workers and runs, and whatever fails: no     *)
(* bootstrap session outlives a command that could close it, and a new     *)
(* candidate is made of one attempt in which every target was collected.   *)
(* And whatever the devices answer: its links are what the tables say.     *)
(***************************************************************************)
EXTENDS DiscoveryRun, SequenceTheorems, FiniteSetTheorems, WellFoundedInduction, TLAPS

-----------------------------------------------------------------------------
(* Lists that are made member by member.                                   *)

(* Induction over the numbers up to N, in the first-order form the provers *)
(* can use: the numbers at which something holds are a set.                *)
LEMMA Induction ==
  ASSUME NEW N \in Nat, NEW S, 0 \in S, \A n \in 1..N : n - 1 \in S => n \in S
  PROVE  0..N \subseteq S
<1> DEFINE Bad == (0..N) \ S
           Below == OpToRel(<, Nat)
<1>1. Bad \subseteq Nat
  OBVIOUS
<1>2. ASSUME NEW n \in Bad PROVE n - 1 \in Bad /\ n - 1 < n
  <2>1. n \in 1..N
    OBVIOUS
  <2> QED
    BY <2>1
<1>3. \A m, n \in Nat : m < n => <<m, n>> \in Below
  BY SMT DEF OpToRel
<1>4. IsWellFoundedOn(Below, Nat)
  BY NatLessThanWellFounded
<1> HIDE DEF Below, Bad
<1>5. Bad # {} => \E n \in Bad : \A m \in Bad : ~ (<<m, n>> \in Below)
  BY <1>1, <1>4, WFMin
<1>6. Bad = {}
  BY <1>1, <1>2, <1>3, <1>5, Zenon
<1> QED
  BY <1>6 DEF Bad

(* Recursion up to N: the values exist if each has its next one.           *)
Recurs(f, N, base, step) == f[0] = base /\ \A n \in 1..N : f[n] = step[n][f[n - 1]]

LEMMA Recursion ==
  ASSUME NEW N \in Nat, NEW V, NEW base \in V, NEW step \in [1..N -> [V -> V]]
  PROVE  \E f \in [0..N -> V] : Recurs(f, N, base, step)
<1> DEFINE UpTo(f, n) == /\ f \in [0..n -> V] /\ f[0] = base
                         /\ \A i \in 1..n : f[i] = step[i][f[i - 1]]
           S == {n \in 0..N : \E f : UpTo(f, n)}
<1>1. 0 \in S
  <2> DEFINE f == [i \in 0..0 |-> base]
  <2>1. UpTo(f, 0)
    OBVIOUS
  <2> HIDE DEF f
  <2>2. \E g : UpTo(g, 0)
    BY <2>1
  <2> QED
    BY <2>2
<1>2. ASSUME NEW n \in 1..N, n - 1 \in S PROVE n \in S
  <2>1. PICK f : UpTo(f, n - 1)
    BY <1>2
  <2> DEFINE last == step[n][f[n - 1]]
             g == [i \in 0..n |-> IF i = n THEN last ELSE f[i]]
  <2>2. last \in V
    <3>1. f[n - 1] \in V
      BY <2>1
    <3> QED
      BY <3>1
  <2> HIDE DEF last
  <2>3. \A i \in 0..n : i = n \/ i \in 0..(n - 1)
    OBVIOUS
  <2>4. g \in [0..n -> V] /\ g[0] = base
    BY <2>1, <2>2, <2>3
  <2>5. ASSUME NEW i \in 1..n PROVE g[i] = step[i][g[i - 1]]
    <3>1. g[i - 1] = f[i - 1]
      OBVIOUS
    <3>2. CASE i = n
      BY <3>1, <3>2 DEF last
    <3>3. CASE i # n
      <4>1. i \in 1..(n - 1) /\ g[i] = f[i]
        BY <3>3
      <4> QED
        BY <2>1, <3>1, <4>1
    <3> QED
      BY <3>2, <3>3
  <2> HIDE DEF g
  <2>6. UpTo(g, n)
    BY <2>4, <2>5
  <2> QED
    BY <2>6
<1> HIDE DEF S
<1>3. 0..N \subseteq S
  BY <1>1, <1>2, Induction
<1>4. N \in S
  BY <1>3
<1> QED
  BY <1>4 DEF S, Recurs

(* What Picked takes from a list, and in which steps.                      *)
LEMMA PickedSteps ==
  ASSUME NEW S, NEW list \in Seq(S), NEW places
  PROVE  \E f : /\ Picked(list, places) = f[Len(list)] /\ f[0] = << >>
                /\ \A n \in 1..Len(list) :
                     f[n] = IF n \in places THEN Append(f[n - 1], list[n]) ELSE f[n - 1]
<1> DEFINE N == Len(list)
           Made(f) == [n \in 0..N |-> IF n = 0 THEN << >>
                        ELSE IF n \in places THEN Append(f[n - 1], list[n]) ELSE f[n - 1]]
           F == CHOOSE f : f = Made(f)
           none == << >>
           V == Seq(S)
           step == [n \in 1..N |-> [s \in V |-> IF n \in places THEN Append(s, list[n]) ELSE s]]
<1>1. N \in Nat /\ \A n \in 1..N : list[n] \in S
  OBVIOUS
<1>2. Picked(list, places) = F[N]
  BY DEF Picked
<1> HIDE DEF N
<1>3. none \in V /\ step \in [1..N -> [V -> V]]
  <2>1. \A n \in 1..N, s \in Seq(S) : Append(s, list[n]) \in Seq(S)
    BY <1>1
  <2> QED
    BY <2>1
<1>4. /\ \A f \in [0..N -> V], n \in 1..N : n - 1 \in 0..N /\ f[n - 1] \in V
      /\ \A n \in 1..N, s \in V : step[n][s] = IF n \in places THEN Append(s, list[n]) ELSE s
  <2> HIDE DEF V
  <2> QED
    BY <1>1
<1> HIDE DEF step, V, none
<1>5. PICK f \in [0..N -> V] : Recurs(f, N, none, step)
  BY <1>1, <1>3, Recursion
<1>6. f[0] = none /\ \A n \in 1..N : f[n] = step[n][f[n - 1]]
  BY <1>5 DEF Recurs
<1>7. \A n \in 1..N : f[n] = IF n \in places THEN Append(f[n - 1], list[n]) ELSE f[n - 1]
  BY <1>4, <1>6
<1>8. f = Made(f)
  <2>1. \A n \in 0..N : n = 0 \/ (n # 0 /\ n \in 1..N)
    BY <1>1
  <2> QED
    BY <1>6, <1>7, <2>1 DEF none
<1>9. F = Made(F)
  <2> HIDE DEF Made
  <2> QED
    BY <1>8
<1> HIDE DEF F
<1>10. /\ F[0] = << >>
       /\ \A n \in 1..N : F[n] = IF n \in places THEN Append(F[n - 1], list[n]) ELSE F[n - 1]
  <2>1. 0 \in 0..N /\ \A n \in 1..N : n \in 0..N /\ n # 0
    BY <1>1
  <2> QED
    BY <1>9, <2>1
<1> QED
  BY <1>2, <1>10 DEF N

LEMMA AppendIs ==
  ASSUME NEW S, NEW s \in Seq(S), NEW e \in S
  PROVE  Append(s, e) \in Seq(S) /\ Range(Append(s, e)) = Range(s) \cup {e}
<1>1. <<e>> \in Seq(S) /\ Append(s, e) = s \o <<e>> /\ Append(s, e) \in Seq(S)
  OBVIOUS
<1>2. Range(<<e>>) = {e}
  BY DEF Range
<1>3. Range(s \o <<e>>) = Range(s) \cup Range(<<e>>)
  BY <1>1, RangeConcatenation
<1> QED
  BY <1>1, <1>2, <1>3

LEMMA PickedIs ==
  ASSUME NEW S, NEW list \in Seq(S), NEW places
  PROVE  /\ Picked(list, places) \in Seq(S)
         /\ Range(Picked(list, places)) = {list[i] : i \in places \cap DOMAIN list}
<1> DEFINE N == Len(list)
           Shown(n) == {list[i] : i \in places \cap (1..n)}
<1>1. N \in Nat /\ DOMAIN list = 1..N /\ \A n \in 1..N : list[n] \in S
  OBVIOUS
<1>2. PICK f : /\ Picked(list, places) = f[N] /\ f[0] = << >>
              /\ \A n \in 1..N : f[n] = IF n \in places THEN Append(f[n - 1], list[n]) ELSE f[n - 1]
  BY PickedSteps
<1> HIDE DEF N
<1> DEFINE Good == {n \in 0..N : f[n] \in Seq(S) /\ Range(f[n]) = Shown(n)}
<1>3. 0 \in Good
  <2>1. << >> \in Seq(S) /\ Range(<< >>) = {} /\ 0 \in 0..N /\ Shown(0) = {}
    BY <1>1 DEF Range
  <2> QED
    BY <1>2, <2>1
<1>4. ASSUME NEW n \in 1..N, n - 1 \in Good PROVE n \in Good
  <2>1. f[n - 1] \in Seq(S) /\ Range(f[n - 1]) = Shown(n - 1) /\ list[n] \in S /\ n \in 0..N
    BY <1>1, <1>4
  <2>2. 1..n = (1..(n - 1)) \cup {n}
    BY <1>1
  <2> DEFINE prior == f[n - 1]
  <2> HIDE DEF prior
  <2>3. CASE n \in places
    <3>1. f[n] = Append(prior, list[n])
      BY <1>2, <2>3 DEF prior
    <3>2. Append(prior, list[n]) \in Seq(S) /\ Range(Append(prior, list[n])) = Range(prior) \cup {list[n]}
      BY <2>1, AppendIs DEF prior
    <3>3. Shown(n) = Shown(n - 1) \cup {list[n]}
      BY <2>2, <2>3
    <3> QED
      BY <2>1, <3>1, <3>2, <3>3 DEF prior
  <2>4. CASE n \notin places
    <3>1. f[n] = f[n - 1]
      BY <1>2, <2>4
    <3>2. Shown(n) = Shown(n - 1)
      BY <2>2, <2>4
    <3> QED
      BY <2>1, <3>1, <3>2
  <2> QED
    BY <2>3, <2>4
<1> HIDE DEF Good
<1>5. 0..N \subseteq Good
  BY <1>1, <1>3, <1>4, Induction
<1>6. N \in Good
  BY <1>1, <1>5
<1> QED
  BY <1>1, <1>2, <1>6 DEF Good

(* The targets in their order are the targets.                             *)
LEMMA TargetOrderIs == TargetOrder \in Seq(Targets) /\ Range(TargetOrder) = Targets
<1>1. ASSUME NEW type
      PROVE  OfType(type) \in Seq(Device) /\ Range(OfType(type)) = {d \in Device : Type[d] = type}
  <2> DEFINE places == {i \in DOMAIN Order : Type[Order[i]] = type}
  <2>1. Order \in Seq(Device) /\ Range(Order) = Device
    BY DiscoveryAssumption
  <2>2. {Order[i] : i \in places \cap DOMAIN Order} = {d \in Device : Type[d] = type}
    BY <2>1 DEF Range
  <2>3. /\ Picked(Order, places) \in Seq(Device)
        /\ Range(Picked(Order, places)) = {Order[i] : i \in places \cap DOMAIN Order}
    <3> HIDE DEF places
    <3> QED
      BY <2>1, PickedIs
  <2> QED
    BY <2>2, <2>3 DEF OfType
<1> DEFINE a == OfType("iosxr")
           b == OfType("iosxe")
           c == OfType("ios")
<1>2. /\ a \in Seq(Device) /\ b \in Seq(Device) /\ c \in Seq(Device)
      /\ Range(a) \cup Range(b) \cup Range(c) = Targets
  BY <1>1 DEF Targets
<1>3. TargetOrder = (a \o b) \o c
  BY DEF TargetOrder
<1> HIDE DEF a, b, c
<1>4. a \o b \in Seq(Device) /\ Range(a \o b) = Range(a) \cup Range(b)
  BY <1>2, RangeConcatenation, ConcatProperties
<1> DEFINE ab == a \o b
<1> HIDE DEF ab
<1>5. ab \in Seq(Device) /\ Range(ab) = Range(a) \cup Range(b)
  BY <1>4 DEF ab
<1>6. ab \o c \in Seq(Device) /\ Range(ab \o c) = Range(ab) \cup Range(c)
  BY <1>2, <1>5, RangeConcatenation, ConcatProperties
<1>7. TargetOrder \in Seq(Device) /\ Range(TargetOrder) = Targets
  BY <1>2, <1>3, <1>5, <1>6 DEF ab
<1>8. TargetOrder \in Seq(Range(TargetOrder))
  BY <1>7, SeqOfRange
<1> QED
  BY <1>7, <1>8

-----------------------------------------------------------------------------
(* The command, its pool and its sessions.                                 *)

Step == {"idle", "preparing", "collecting", "closing", "aggregating", "exiting"}
Progress == Results \cup {"none", "queued", "opening", "login", "commands"}
Outcome == (UNION {DOMAIN Outputs[d] : d \in Device}) \cup {None}

MainType == [at : Step, todo : Seq(Device), recoveries : 0..MaxRecoveries, interrupted : BOOLEAN]
FutureType == [at : Progress, out : Outcome, from : Nat]

LEMMA TargetsAreDevices == Targets \subseteq Device
BY DEF Targets

LEMMA OrderIsOfDevices == TargetOrder \in Seq(Device)
BY TargetOrderIs, TargetsAreDevices

(* What the two halves of a step leave alone.                              *)
LEMMA WorkerFrame ==
  ASSUME NEW d \in Device, WorkerStep(d)
  PROVE  UNCHANGED <<main, guarded, candidate, attempt, runs, faults>>
BY DEF WorkerStep, Start, Open, Login, Collect, Fail, Pool

LEMMA WorkerFuture ==
  ASSUME NEW d \in Device, WorkerStep(d), TypeOK
  PROVE  \E f \in FutureType :
           /\ future' = [future EXCEPT ![d] = f] /\ f.from = future[d].from
           /\ InFlight(d) /\ f.at # "none"
<1>t. future[d] \in FutureType
  BY DEF TypeOK, FutureType, Progress, Outcome
<1>1. InFlight(d)
  BY DEF WorkerStep, Start, Open, Login, Collect, Fail, InFlight, Results
<1>2. CASE \E step \in Progress \ {"none"} : Worker(d, step)
  <2>1. PICK step \in Progress \ {"none"} : future' = [future EXCEPT ![d].at = step]
    BY <1>2 DEF Worker
  <2>2. [future[d] EXCEPT !.at = step] \in FutureType
    BY <1>t DEF FutureType
  <2> QED BY <1>t, <1>1, <2>1, <2>2 DEF FutureType
<1>3. CASE Collect(d)
  <2>1. PICK out \in DOMAIN Outputs[d] : future' = [future EXCEPT ![d].at = "collected", ![d].out = out]
    BY <1>3 DEF Collect
  <2>2. [future[d] EXCEPT !.at = "collected", !.out = out] \in FutureType
    BY <1>t DEF FutureType, Progress, Results, Outcome
  <2> QED BY <1>t, <1>1, <2>1, <2>2 DEF FutureType
<1>4. Collect(d) \/ \E step \in {"opening", "login", "commands", "changed", "failed"} : Worker(d, step)
  BY DEF WorkerStep, Start, Open, Login, Fail
<1> QED BY <1>2, <1>3, <1>4 DEF Progress, Results

-----------------------------------------------------------------------------
LEMMA IdleIsTyped == Idle \in MainType /\ NoFuture \in FutureType
<1>1. Idle \in MainType
  BY DEF Idle, MainType, Step, MaxRecoveries
<1>2. NoFuture \in FutureType
  BY DEF NoFuture, FutureType, Progress, Results, Outcome
<1> QED BY <1>1, <1>2

LEMMA TypeInit == Init => TypeOK
<1> SUFFICES ASSUME Init PROVE TypeOK
  OBVIOUS
<1>1. main \in MainType /\ future \in [Device -> FutureType]
  BY IdleIsTyped DEF Init
<1> QED BY <1>1 DEF Init, TypeOK, MainType, Step, FutureType, Progress, Outcome

LEMMA WorkerTypes ==
  ASSUME TypeOK, NEW d \in Device, WorkerStep(d)
  PROVE  TypeOK'
<1>1. UNCHANGED <<main, guarded, candidate, attempt, runs, faults>>
  BY WorkerFrame
<1>2. future' \in [Device -> FutureType]
  BY WorkerFuture DEF TypeOK, FutureType, Progress, Outcome
<1>3. session' \in [Device -> {"none", "open"}] /\ left' \subseteq Device
  BY DEF TypeOK, WorkerStep, Start, Open, Login, Collect, Fail
<1> QED BY <1>1, <1>2, <1>3 DEF TypeOK, FutureType, Progress, Outcome

CommandStep == Discover \/ MainStep \/ CloseFails \/ Interrupt

LEMMA CommandTypes ==
  ASSUME TypeOK, CommandStep
  PROVE  TypeOK'
<1>t. main \in MainType /\ future \in [Device -> FutureType] /\ TargetOrder \in Seq(Device)
  BY OrderIsOfDevices DEF TypeOK, MainType, Step, FutureType, Progress, Outcome
<1>i. Idle \in MainType
  BY DEF Idle, MainType, Step, MaxRecoveries
<1>1. main' \in MainType
  <2>1. CASE Discover
    BY <2>1, <1>i DEF Discover, Stop, MainType, Step, Idle
  <2>2. CASE Prepare \/ Closed
    BY <2>2, <1>t, <1>i DEF Prepare, Closed, GoTo, Stop, MainType, Step
  <2>3. CASE Collected \/ Interrupt
    BY <2>3, <1>t DEF Collected, Interrupt, GoTo, MainType, Step
  <2>4. CASE Close
    <3>1. main.todo \in Seq(Device) /\ main.todo # <<>> => Tail(main.todo) \in Seq(Device)
      OBVIOUS
    <3>2. main' = [main EXCEPT !.todo = Tail(main.todo)]
      BY <2>4 DEF Close
    <3>3. Tail(main.todo) \in Seq(Device)
      BY <2>4, <3>1, <1>t DEF Close, MainType
    <3> HIDE DEF MainType
    <3>4. \A todo \in Seq(Device) : [main EXCEPT !.todo = todo] \in MainType
      BY <1>t DEF MainType
    <3> QED BY <3>2, <3>3, <3>4
  <2>5. CASE CloseFails \/ Rebuild \/ Exit
    BY <2>5, <1>t, <1>i DEF CloseFails, Rebuild, Exit, GoTo, Stop, MainType, Step
  <2>6. CASE Recover
    <3>1. CASE Stop
      BY <3>1, <1>i DEF Stop
    <3>2. CASE main.recoveries < MaxRecoveries
               /\ main' = [main EXCEPT !.at = "preparing", !.recoveries = @ + 1]
      <4>1. main.recoveries + 1 \in 0..MaxRecoveries
        BY <3>2, <1>t DEF MainType, MaxRecoveries
      <4>2. \A n \in 0..MaxRecoveries :
              [main EXCEPT !.at = "preparing", !.recoveries = n] \in MainType
        BY <1>t DEF MainType, Step
      <4> HIDE DEF MainType
      <4> QED BY <3>2, <4>1, <4>2
    <3> QED BY <2>6, <3>1, <3>2 DEF Recover
  <2> QED BY <2>1, <2>2, <2>3, <2>4, <2>5, <2>6 DEF CommandStep, MainStep
<1>2. future' \in [Device -> FutureType] /\ attempt' \in Nat
  <2>1. attempt' \in Nat
    BY DEF TypeOK, CommandStep, MainStep, Discover, Prepare, Collected, Close, CloseFails, Closed,
       Rebuild, Recover, Interrupt, Exit
  <2>2. CASE Prepare \/ Exit
    <3>1. NoFuture \in FutureType
      BY DEF NoFuture, FutureType, Progress, Results, Outcome
    <3>2. [NoFuture EXCEPT !.at = "queued", !.from = attempt'] \in FutureType
      BY <2>1 DEF NoFuture, FutureType, Progress, Results, Outcome
    <3> QED BY <2>1, <2>2, <1>t, <3>1, <3>2 DEF Prepare, Exit, Submit
  <2>3. CASE ~(Prepare \/ Exit)
    BY <2>1, <2>3, <1>t DEF CommandStep, MainStep, Discover, Collected, Close, CloseFails, Closed,
       Rebuild, Recover, Interrupt
  <2> QED BY <2>1, <2>2, <2>3
<1>3. guarded' \in BOOLEAN /\ (guarded' => main'.at = "collecting")
  BY <1>t DEF TypeOK, CommandStep, MainStep, Discover, Prepare, Collected, Close, CloseFails, Closed,
     Rebuild, Recover, Interrupt, Exit, GoTo, Stop, Idle, MainType
<1>4. session' \in [Device -> {"none", "open"}] /\ left' \subseteq Device
  <2>1. Range(main.todo) \subseteq Device
    BY <1>t DEF MainType, Range
  <2> QED BY <2>1, TargetsAreDevices DEF TypeOK, CommandStep, MainStep, Discover, Prepare, Collected,
       Close, CloseFails, Closed, Rebuild, Recover, Interrupt, Exit
<1> QED BY <1>1, <1>2, <1>3, <1>4 DEF TypeOK, MainType, Step, FutureType, Progress, Outcome

LEMMA TypeStep == TypeOK /\ [Next]_vars => TypeOK'
<1>1. ASSUME TypeOK, UNCHANGED vars PROVE TypeOK'
  BY <1>1 DEF vars, TypeOK
<1> QED BY <1>1, WorkerTypes, CommandTypes DEF Next, CommandStep

(* The command, the pool and the sessions keep their types, and the flag   *)
(* of the host-key guard is set only while targets are collected.          *)
THEOREM TypeCorrect == Spec => []TypeOK
BY TypeInit, TypeStep, PTL DEF Spec

-----------------------------------------------------------------------------
(* Sessions.  Threads are at work while the command waits for them, or     *)
(* after an interrupt, which gives every session up.                       *)

Quiet == \A d \in Device : ~InFlight(d)

Awaited ==
  /\ \A d \in Device : InFlight(d) => d \in Targets /\ (main.at = "collecting" \/ Targets \subseteq left)
  /\ main.at \in {"idle", "preparing", "aggregating"} => Quiet
  /\ main.at = "closing" /\ ~main.interrupted => Quiet

ToBeClosed(d) ==
  \/ main.at = "collecting"
  \/ main.at = "closing" /\ d \in Range(main.todo)

Accounted ==
  \A d \in Device : session[d] = "open" => d \in Targets /\ (d \in left \/ ToBeClosed(d))

SessionInv == Awaited /\ Accounted

LEMMA WorkerSessions ==
  ASSUME TypeOK, SessionInv, NEW d \in Device, WorkerStep(d)
  PROVE  SessionInv'
<1>1. UNCHANGED main /\ InFlight(d)
  BY WorkerFrame, WorkerFuture
<1>2. \A e \in Device \ {d} : InFlight(e)' <=> InFlight(e)
  BY WorkerFuture DEF InFlight, TypeOK
<1>3. d \in Targets /\ (main.at = "collecting" \/ Targets \subseteq left)
  BY <1>1 DEF SessionInv, Awaited
<1>4. main.at = "collecting" \/ left' = left
  BY DEF WorkerStep, Start, Open, Login, Collect, Fail
<1>5. Awaited'
  BY <1>1, <1>2, <1>3, <1>4 DEF SessionInv, Awaited, Quiet
<1>6. \A e \in Device : session'[e] = "open" => session[e] = "open" \/ e = d
  BY DEF WorkerStep, Start, Open, Login, Collect, Fail, TypeOK
<1>7. Accounted'
  BY <1>1, <1>3, <1>4, <1>6 DEF SessionInv, Accounted, ToBeClosed
<1> QED BY <1>5, <1>7 DEF SessionInv

LEMMA CommandSessions ==
  ASSUME TypeOK, SessionInv, CommandStep
  PROVE  SessionInv'
<1>t. main \in MainType /\ session \in [Device -> {"none", "open"}] /\ Awaited /\ Accounted
  BY DEF TypeOK, MainType, Step, SessionInv
<1>f. ASSUME UNCHANGED future PROVE Quiet' <=> Quiet
  BY <1>f DEF Quiet, InFlight
<1>g. ASSUME UNCHANGED future, NEW d \in Device PROVE InFlight(d)' <=> InFlight(d)
  BY <1>g DEF InFlight
<1>1. CASE Discover
  <2>1. UNCHANGED <<future, session, left>> /\ main.at = "idle"
        /\ main'.at \in {"idle", "preparing"}
    BY <1>1 DEF Discover, Stop, Idle
  <2> QED BY <2>1, <1>t, <1>f, <1>g DEF SessionInv, Awaited, Accounted, ToBeClosed, Quiet
<1>2. CASE Prepare
  <2>1. CASE Stop /\ UNCHANGED future
    BY <1>2, <2>1, <1>t, <1>f, <1>g
       DEF Prepare, Stop, Idle, SessionInv, Awaited, Accounted, ToBeClosed, Quiet
  <2>2. CASE Submit /\ GoTo("collecting")
    <3>1. main'.at = "collecting" /\ UNCHANGED <<session, left>>
      BY <1>2, <2>2, <1>t DEF Prepare, GoTo, MainType
    <3>2. \A d \in Device : InFlight(d)' => d \in Targets
      BY <2>2 DEF Submit, InFlight, NoFuture
    <3> QED BY <3>1, <3>2, <1>t DEF SessionInv, Awaited, Accounted, ToBeClosed
  <2> QED BY <1>2, <2>1, <2>2 DEF Prepare
<1>3. CASE Collected
  <2>1. /\ main.at = "collecting" /\ main'.at = "closing" /\ main'.todo = TargetOrder
        /\ UNCHANGED <<future, session, left>>
    BY <1>3, <1>t DEF Collected, MainType
  <2>2. Quiet
    BY <1>3, <1>t DEF Collected, Awaited, Quiet
  <2>3. Awaited'
    BY <2>1, <2>2, <1>f, <1>g DEF Awaited, Quiet
  <2>4. Accounted'
    BY <2>1, <1>t, TargetOrderIs DEF Accounted, ToBeClosed
  <2> QED BY <2>3, <2>4 DEF SessionInv
<1>4. CASE Close
  <2>1. /\ main.at = "closing" /\ main' = [main EXCEPT !.todo = Tail(main.todo)]
        /\ main.todo # <<>> /\ UNCHANGED <<future, left>>
        /\ session' = [session EXCEPT ![Head(main.todo)] = "none"]
    BY <1>4 DEF Close
  <2>2. main'.at = main.at /\ main'.interrupted = main.interrupted /\ main'.todo = Tail(main.todo)
    BY <2>1, <1>t DEF MainType
  <2>3. Awaited'
    BY <2>1, <2>2, <1>t, <1>f, <1>g DEF Awaited
  <2>4. \A d \in Range(main.todo) : d # Head(main.todo) => d \in Range(Tail(main.todo))
    <3>1. main.todo \in Seq(Device) /\ main.todo # <<>>
      BY <2>1, <1>t DEF MainType
    <3>2. ASSUME NEW i \in DOMAIN main.todo, i # 1
          PROVE  main.todo[i] \in Range(Tail(main.todo))
      <4>1. i - 1 \in DOMAIN Tail(main.todo) /\ Tail(main.todo)[i - 1] = main.todo[i]
        BY <3>1, <3>2
      <4> QED BY <4>1 DEF Range
    <3> QED BY <3>1, <3>2 DEF Range
  <2>5. Accounted'
    BY <2>1, <2>2, <2>4, <1>t DEF Accounted, ToBeClosed
  <2> QED BY <2>3, <2>5 DEF SessionInv
<1>5. CASE CloseFails
  <2>1. /\ main.at = "closing" /\ UNCHANGED <<future, session>>
        /\ left' = left \cup Range(main.todo)
        /\ main' = IF main.interrupted THEN [main EXCEPT !.at = "exiting"] ELSE Idle
    BY <1>5 DEF CloseFails, GoTo, Stop
  <2>2. /\ main.interrupted => main'.at = "exiting"
        /\ ~main.interrupted => main'.at = "idle"
    BY <2>1, <1>t DEF MainType, Idle
  <2>3. Awaited'
    BY <2>1, <2>2, <1>t, <1>f, <1>g DEF Awaited, Quiet
  <2>4. Accounted'
    BY <2>1, <2>2, <1>t DEF Accounted, ToBeClosed
  <2> QED BY <2>3, <2>4 DEF SessionInv
<1>6. CASE Closed
  <2>1. /\ main.at = "closing" /\ Range(main.todo) = {} /\ UNCHANGED <<future, session, left>>
        /\ main' = [main EXCEPT !.at = IF main.interrupted THEN "exiting" ELSE "aggregating"]
    BY <1>6 DEF Closed, GoTo, Range
  <2>2. /\ main.interrupted => main'.at = "exiting"
        /\ ~main.interrupted => main'.at = "aggregating"
    BY <2>1, <1>t DEF MainType
  <2>3. Awaited'
    BY <2>1, <2>2, <1>t, <1>f, <1>g DEF Awaited, Quiet
  <2>4. Accounted'
    BY <2>1, <2>2, <1>t DEF Accounted, ToBeClosed
  <2> QED BY <2>3, <2>4 DEF SessionInv
<1>7. CASE Rebuild \/ Recover
  <2>1. /\ main.at = "aggregating" /\ UNCHANGED <<future, session, left>>
        /\ \/ main' = Idle
           \/ main' = [main EXCEPT !.at = "preparing", !.recoveries = main.recoveries + 1]
    BY <1>7 DEF Rebuild, Recover, Stop
  <2>2. main'.at \in {"idle", "preparing"}
    <3>1. CASE main' = Idle
      BY <3>1 DEF Idle
    <3>2. CASE main' = [main EXCEPT !.at = "preparing", !.recoveries = main.recoveries + 1]
      BY <3>2, <1>t DEF MainType
    <3> QED BY <2>1, <3>1, <3>2
  <2> QED BY <2>1, <2>2, <1>t, <1>f, <1>g DEF SessionInv, Awaited, Accounted, ToBeClosed, Quiet
<1>8. CASE Interrupt
  <2>1. CASE main.at \in {"collecting", "closing"}
    <3>1. Targets \subseteq left' /\ UNCHANGED <<future, session>>
      BY <1>8, <2>1 DEF Interrupt
    <3>2. CASE main.at = "collecting"
      <4>1. main'.at = "closing" /\ main'.interrupted
        BY <1>8, <3>2, <1>t DEF Interrupt, MainType
      <4> QED BY <3>1, <4>1, <1>t, <1>g DEF SessionInv, Awaited, Accounted
    <3>3. CASE main.at = "closing"
      <4>1. main'.at = "exiting"
        BY <1>8, <3>3, <1>t DEF Interrupt, GoTo, MainType
      <4> QED BY <3>1, <4>1, <1>t, <1>g DEF SessionInv, Awaited, Accounted
    <3> QED BY <2>1, <3>2, <3>3
  <2>2. CASE main.at \in {"preparing", "aggregating"}
    <3>1. main'.at = "exiting" /\ UNCHANGED <<future, session, left>>
      BY <1>8, <2>2, <1>t DEF Interrupt, GoTo, MainType
    <3> QED BY <3>1, <2>2, <1>t, <1>g DEF SessionInv, Awaited, Accounted, ToBeClosed, Quiet
  <2> QED BY <1>8, <2>1, <2>2 DEF Interrupt
<1>9. CASE Exit
  <2>1. main'.at = "idle" /\ main.at = "exiting" /\ UNCHANGED <<session, left>>
    BY <1>9 DEF Exit, Stop, Idle
  <2>2. Quiet'
    BY <1>9 DEF Exit, Quiet, InFlight, NoFuture
  <2> QED BY <2>1, <2>2, <1>t DEF SessionInv, Awaited, Accounted, ToBeClosed, Quiet
<1> QED BY <1>1, <1>2, <1>3, <1>4, <1>5, <1>6, <1>7, <1>8, <1>9 DEF CommandStep, MainStep

LEMMA SessionStep == TypeOK /\ SessionInv /\ [Next]_vars => SessionInv'
<1>1. ASSUME SessionInv, UNCHANGED vars PROVE SessionInv'
  BY <1>1 DEF vars, SessionInv, Awaited, Accounted, Quiet, InFlight, ToBeClosed
<1> QED BY <1>1, WorkerSessions, CommandSessions DEF Next, CommandStep

(* No bootstrap session outlives the command that opened it, unless it was *)
(* interrupted or a session could not be closed.                           *)
THEOREM NoSessionLeft == Spec => []NothingLeftOpen
<1>1. Init => SessionInv
  BY DEF Init, SessionInv, Awaited, Accounted, Quiet, InFlight, NoFuture, ToBeClosed, Idle
<1>2. SessionInv => NothingLeftOpen
  BY DEF SessionInv, Accounted, ToBeClosed, NothingLeftOpen
<1> QED BY <1>1, <1>2, TypeInit, TypeStep, SessionStep, PTL DEF Spec

-----------------------------------------------------------------------------
(* Candidates.                                                             *)

(* Every target's future belongs to the attempt that is under way.         *)
SameAttempt == \A d \in Targets : future[d].at # "none" => future[d].from = attempt

LEMMA AttemptStep == TypeOK /\ SameAttempt /\ [Next]_vars => SameAttempt'
<1> SUFFICES ASSUME TypeOK, SameAttempt, [Next]_vars PROVE SameAttempt'
  OBVIOUS
<1>1. CASE UNCHANGED <<future, attempt>>
  BY <1>1 DEF SameAttempt
<1>2. CASE \E d \in Device : WorkerStep(d)
  <2>1. PICK d \in Device : WorkerStep(d)
    BY <1>2
  <2>2. PICK f \in FutureType : /\ future' = [future EXCEPT ![d] = f]
                               /\ f.from = future[d].from /\ InFlight(d)
    BY <2>1, WorkerFuture
  <2>3. UNCHANGED attempt
    BY <2>1, WorkerFrame
  <2> QED BY <2>2, <2>3 DEF SameAttempt, InFlight, TypeOK
<1>3. CASE Prepare /\ Submit
  BY <1>3, TargetsAreDevices DEF Submit, SameAttempt, NoFuture
<1>4. CASE Exit
  BY <1>4, TargetsAreDevices DEF Exit, SameAttempt, NoFuture
<1> QED BY <1>1, <1>2, <1>3, <1>4
  DEF Next, MainStep, Discover, Prepare, Collected, Close, CloseFails, Closed, Rebuild, Recover,
      Interrupt, vars

(* A candidate is rebuilt only from one attempt in which every target was  *)
(* collected: never from a part of them, and never with what was collected *)
(* before a host key was replaced.                                         *)
THEOREM CandidateFromOneAttempt == Spec => CandidateIsOneAttempt
<1>1. Init => SameAttempt
  BY TargetsAreDevices DEF Init, SameAttempt, NoFuture
<1>2. ASSUME SameAttempt, [Next]_vars, candidate' \notin {candidate, None}
      PROVE  \A d \in Targets : future[d].at = "collected" /\ future[d].from = attempt
  <2>1. Rebuild
    BY <1>2, WorkerFrame DEF Next, MainStep, Discover, Prepare, Collected, Close, CloseFails, Closed,
       Recover, Interrupt, Exit, vars
  <2> QED BY <1>2, <2>1 DEF Rebuild, Uncollected, SameAttempt
<1>3. SameAttempt /\ [Next]_vars
        => [candidate' \notin {candidate, None} =>
              \A d \in Targets : future[d].at = "collected" /\ future[d].from = attempt]_vars
  BY <1>2
<1> QED BY <1>1, <1>3, TypeInit, TypeStep, AttemptStep, PTL DEF Spec, CandidateIsOneAttempt

-----------------------------------------------------------------------------
(* From observations to links.                                             *)

(* What fails at some place fails at a first one: induction over places.   *)
LEMMA FirstOne ==
  ASSUME NEW T, T \subseteq Nat, T # {}
  PROVE  Min(T) \in T /\ \A m \in T : Min(T) <= m
<1> DEFINE Below == OpToRel(<, Nat)
<1>1. IsWellFoundedOn(Below, Nat)
  BY NatLessThanWellFounded
<1>2. \E n \in T : \A m \in T : ~ (<<m, n>> \in Below)
  <2> HIDE DEF Below
  <2> QED
    BY <1>1, WFMin
<1>3. \A m, n \in Nat : <<m, n>> \notin Below => n <= m
  BY SMT DEF OpToRel
<1> HIDE DEF Below
<1>4. \E n \in T : \A m \in T : n <= m
  BY <1>2, <1>3, Zenon
<1> QED
  BY <1>4, Zenon DEF Min

(* An end of any device, also of an unmanaged one.                         *)
AnyEnd == (Device \cup {None}) \X Interface
Pair == AnyEnd \X AnyEnd
Sums == [links : Seq(Pair), conflicts : SUBSET SUBSET AnyEnd, seen : SUBSET AnyEnd]

(* What reconcile_links knows after n observations, from what it knew      *)
(* before the last of them.                                                *)
Step1(o, prior, n) ==
  IF n = 0 THEN [links |-> <<>>, conflicts |-> {}, seen |-> {}]
  ELSE IF n \in Managed(o) THEN Reconcile1(o, prior, o[n].here) ELSE prior

(* The record of these steps, up to the n-th observation.                  *)
SumsUpTo(o, f, n) ==
  f = [i \in 0..n |-> f[i]] /\ \A i \in 0..n : f[i] = Step1(o, f[i - 1], i)

(* Such a record exists for every list: the recursion is well founded.     *)
LEMMA SumsExist ==
  ASSUME NEW o \in Seq(Observations)
  PROVE  \E f : SumsUpTo(o, f, Len(o))
<1> DEFINE Bad == {n \in 0..Len(o) : ~ \E f : SumsUpTo(o, f, n)}
<1>0. Len(o) \in Nat
  OBVIOUS
<1>1. \E f : SumsUpTo(o, f, 0)
  <2> DEFINE f == [i \in 0..0 |-> Step1(o, << >>, 0)]
  <2>1. f = [i \in 0..0 |-> f[i]] /\ \A i \in 0..0 : i = 0 /\ f[i] = Step1(o, << >>, 0)
    OBVIOUS
  <2> HIDE DEF f
  <2> QED
    BY <2>1 DEF SumsUpTo, Step1
<1>2. ASSUME NEW n \in 0..Len(o), n # Len(o), NEW f, SumsUpTo(o, f, n)
      PROVE  \E g : SumsUpTo(o, g, n + 1)
  <2> DEFINE last == Step1(o, f[n], n + 1)
             g == [i \in 0..(n + 1) |-> IF i = n + 1 THEN last ELSE f[i]]
  <2>1. g = [i \in 0..(n + 1) |-> g[i]]
    OBVIOUS
  <2>2. ASSUME NEW i \in 0..(n + 1) PROVE g[i] = Step1(o, g[i - 1], i)
    <3>1. CASE i = 0
      <4>1. g[i] = f[0] /\ f[0] = Step1(o, f[0 - 1], 0)
        BY <1>0, <1>2, <3>1 DEF SumsUpTo
      <4> QED
        BY <3>1, <4>1 DEF Step1
    <3>2. CASE i = n + 1
      <4>1. n \in 0..(n + 1) /\ n # n + 1 /\ i - 1 = n
        BY <1>0, <3>2
      <4>2. g[i - 1] = f[n] /\ g[i] = last
        <5> HIDE DEF last
        <5> QED
          BY <3>2, <4>1
      <4> QED
        BY <3>2, <4>2
    <3>3. CASE i # 0 /\ i # n + 1
      <4>1. i \in 0..n /\ i - 1 \in 0..n /\ i - 1 # n + 1 /\ i - 1 \in 0..(n + 1)
        BY <1>0, <3>3
      <4>2. g[i - 1] = f[i - 1] /\ g[i] = f[i]
        <5> HIDE DEF last
        <5> QED
          BY <3>3, <4>1
      <4> HIDE DEF g
      <4> QED
        BY <1>2, <4>1, <4>2 DEF SumsUpTo
    <3> QED
      BY <3>1, <3>2, <3>3
  <2> HIDE DEF g
  <2> QED
    BY <2>1, <2>2 DEF SumsUpTo
<1>3. Bad = {}
  <2> SUFFICES ASSUME Bad # {} PROVE FALSE
    OBVIOUS
  <2>0. Bad \subseteq Nat
    OBVIOUS
  <2>1. PICK n \in Bad : \A m \in Bad : n <= m
    <3> HIDE DEF Bad
    <3> QED
      BY <2>0, FirstOne
  <2>2. n # 0 /\ n \in 0..Len(o) /\ ~ \E f : SumsUpTo(o, f, n)
    BY <1>1, <2>1
  <2>3. n - 1 \in 0..Len(o) /\ n - 1 # Len(o) /\ (n - 1) + 1 = n /\ ~ (n <= n - 1)
    BY <1>0, <2>2
  <2>4. PICK f : SumsUpTo(o, f, n - 1)
    BY <2>1, <2>3
  <2> QED
    BY <1>2, <2>2, <2>3, <2>4
<1> QED
  BY <1>0, <1>3

(* The recursive function of Reconcile takes these steps.                  *)
LEMMA ReconcileIs ==
  ASSUME NEW o \in Seq(Observations)
  PROVE  \E f : Reconcile[o] = f[Len(o)] /\ \A i \in 0..Len(o) : f[i] = Step1(o, f[i - 1], i)
<1> DEFINE Made(f) == [n \in 0..Len(o) |->
             IF n = 0 THEN [links |-> <<>>, conflicts |-> {}, seen |-> {}]
             ELSE IF n \in Managed(o) THEN Reconcile1(o, f[n - 1], o[n].here) ELSE f[n - 1]]
           F == CHOOSE f : f = Made(f)
<1>1. Reconcile[o] = F[Len(o)]
  BY DEF Reconcile
<1>2. PICK p : SumsUpTo(o, p, Len(o))
  BY SumsExist
<1>3. p = Made(p)
  BY <1>2 DEF SumsUpTo, Step1
<1>4. F = Made(F)
  <2> HIDE DEF Made
  <2> QED
    BY <1>3
<1>5. \A n \in 0..Len(o) : F[n] = Step1(o, F[n - 1], n)
  <2> HIDE DEF F
  <2> QED
    BY <1>4 DEF Step1
<1> HIDE DEF F
<1> QED
  BY <1>1, <1>5

(* Places, and the ends observed there.                                    *)
LEMMA PlacesAreNat ==
  ASSUME NEW o \in Seq(Observations)
  PROVE  /\ DOMAIN o = 1..Len(o) /\ Len(o) \in Nat
         /\ Managed(o) \subseteq 1..Len(o)
         /\ \A e : At(o, e) \subseteq Nat /\ At(o, e) \subseteq Managed(o)
         /\ \A i \in 1..Len(o) : o[i].here \in AnyEnd /\ o[i].there \in AnyEnd
<1>1. DOMAIN o = 1..Len(o) /\ Len(o) \in Nat
  OBVIOUS
<1>2. Managed(o) \subseteq 1..Len(o)
  BY <1>1 DEF Managed
<1>3. \A e : At(o, e) \subseteq Managed(o)
  BY DEF At
<1>4. ASSUME NEW i \in 1..Len(o) PROVE o[i].here \in AnyEnd /\ o[i].there \in AnyEnd
  <2>1. o[i] \in Observations
    BY <1>1
  <2>2. o[i].here \in Ends /\ o[i].there \in (Device \cup {None}) \X Interface
    BY <2>1 DEF Observations
  <2> QED
    BY <2>2 DEF AnyEnd, Ends
<1> QED
  BY <1>1, <1>2, <1>3, <1>4

(* An end that was observed faces what its first observation says, and     *)
(* what every one says if it is settled.                                   *)
LEMMA FacedIsObserved ==
  ASSUME NEW o \in Seq(Observations), NEW e, At(o, e) # {}
  PROVE  /\ Faced(o, e) \in AnyEnd /\ e \in AnyEnd
         /\ \E i \in Managed(o) : o[i].here = e /\ o[i].there = Faced(o, e)
         /\ IsSettled(o, e) => \A i \in Managed(o) : o[i].here = e => o[i].there = Faced(o, e)
<1> DEFINE m == Min(At(o, e))
<1>1. m \in At(o, e)
  BY PlacesAreNat, FirstOne
<1> HIDE DEF m
<1>2. m \in Managed(o) /\ o[m].here = e /\ m \in 1..Len(o)
  BY <1>1, PlacesAreNat DEF At
<1>3. Faced(o, e) = o[m].there
  BY DEF Faced, m
<1>4. ASSUME IsSettled(o, e), NEW i \in Managed(o), o[i].here = e PROVE o[i].there = o[m].there
  BY <1>1, <1>4 DEF IsSettled, Agrees, At
<1> QED
  BY <1>2, <1>3, <1>4, PlacesAreNat

(* An end that was observed, always facing the same end.                   *)
Speaks(o, e) == At(o, e) # {} /\ IsSettled(o, e)

(* What is known about the ends that have been visited.                    *)
SumInv(o, sum, n) ==
  /\ sum \in Sums
  /\ \A l \in Range(sum.links) : \E e : Speaks(o, e) /\ l = <<e, Faced(o, e)>>
  /\ sum.conflicts = {} =>
       /\ \A e \in sum.seen : Speaks(o, e) /\ \E l \in Range(sum.links) :
                                                 {l[1], l[2]} = {e, Faced(o, e)}
       /\ \A i \in Managed(o) : i <= n => o[i].here \in sum.seen

WithLink(sum, l, seen) == [sum EXCEPT !.links = Append(@, l), !.seen = @ \cup seen]

(* What a new link, and what a conflict, does to that.                     *)
LEMMA LinkIsAdded ==
  ASSUME NEW sum \in Sums, NEW l \in Pair, NEW seen \in SUBSET AnyEnd
  PROVE  /\ WithLink(sum, l, seen) \in Sums
         /\ Range(WithLink(sum, l, seen).links) = Range(sum.links) \cup {l}
         /\ WithLink(sum, l, seen).seen = sum.seen \cup seen
         /\ WithLink(sum, l, seen).conflicts = sum.conflicts
<1> DEFINE new == WithLink(sum, l, seen)
<1>1. sum.links \in Seq(Pair) /\ new.links = Append(sum.links, l)
  BY DEF Sums, WithLink
<1>2. Append(sum.links, l) \in Seq(Pair)
  BY <1>1
<1>3. new \in Sums /\ new.seen = sum.seen \cup seen /\ new.conflicts = sum.conflicts
  BY <1>2 DEF Sums, WithLink
<1>4. Range(Append(sum.links, l)) = Range(sum.links) \cup {l}
  <2>1. <<l>> \in Seq(Pair) /\ Append(sum.links, l) = sum.links \o <<l>>
    BY <1>1
  <2>2. Range(<<l>>) = {l}
    BY DEF Range
  <2>3. \A one \in Seq(Pair) : Range(sum.links \o one) = Range(sum.links) \cup Range(one)
    BY <1>1, RangeConcatenation
  <2> QED
    BY <2>1, <2>2, <2>3
<1> QED
  BY <1>1, <1>3, <1>4

LEMMA ConflictIsAdded ==
  ASSUME NEW sum \in Sums, NEW ends \in SUBSET AnyEnd,
         NEW new, new = [sum EXCEPT !.conflicts = @ \cup {ends}, !.seen = @ \cup ends]
  PROVE  new \in Sums /\ new.links = sum.links /\ new.conflicts # {}
<1>1. sum.conflicts \cup {ends} \in SUBSET SUBSET AnyEnd /\ sum.seen \cup ends \in SUBSET AnyEnd
  BY DEF Sums
<1>2. new = [links |-> sum.links, conflicts |-> sum.conflicts \cup {ends},
             seen |-> sum.seen \cup ends]
  BY DEF Sums
<1>3. sum.links \in Seq(Pair)
  BY DEF Sums
<1> QED
  BY <1>1, <1>2, <1>3 DEF Sums

(* One more observation, and all of them.                                  *)
LEMMA SumStep ==
  ASSUME NEW o \in Seq(Observations), NEW sum, NEW n \in Managed(o), SumInv(o, sum, n - 1)
  PROVE  SumInv(o, Reconcile1(o, sum, o[n].here), n)
<1> DEFINE end == o[n].here
           other == Faced(o, end)
           new == Reconcile1(o, sum, end)
<1>1. /\ At(o, end) # {} /\ n \in Nat
      /\ \A i \in Managed(o) : i <= n => i <= n - 1 \/ i = n
  <2>1. n \in At(o, end)
    BY DEF At
  <2> QED
    BY <2>1, PlacesAreNat
<1>2. end \in AnyEnd /\ other \in AnyEnd /\ <<end, other>> \in Pair
  BY <1>1, FacedIsObserved DEF Pair
<1>3. sum \in Sums
  BY DEF SumInv
<1>4. \A i \in Managed(o) : i <= n => i <= n - 1 \/ o[i].here = end
  BY <1>1
<1> HIDE DEF end
<1>5. CASE ~IsSettled(o, end)
  <2>1. new = [sum EXCEPT !.conflicts = @ \cup {{end}}, !.seen = @ \cup {end}]
    BY <1>5 DEF Reconcile1
  <2> HIDE DEF new, other
  <2>2. new \in Sums /\ new.links = sum.links /\ new.conflicts # {}
    BY <1>2, <1>3, <2>1, ConflictIsAdded
  <2> QED
    BY <2>2 DEF SumInv, new, end
<1>6. CASE IsSettled(o, end) /\ end \in sum.seen
  <2>1. new = sum
    BY <1>6 DEF Reconcile1
  <2> QED
    BY <1>4, <1>6, <2>1 DEF SumInv, end
<1>7. ASSUME IsSettled(o, end), NEW seen \in SUBSET AnyEnd, end \in seen,
             new = [sum EXCEPT !.links = Append(@, <<end, other>>), !.seen = @ \cup seen],
             \A e \in seen : Speaks(o, e) /\ {end, other} = {e, Faced(o, e)}
      PROVE  SumInv(o, new, n)
  <2> HIDE DEF new
  <2>1. /\ new \in Sums /\ Range(new.links) = Range(sum.links) \cup {<<end, other>>}
        /\ new.seen = sum.seen \cup seen /\ new.conflicts = sum.conflicts
    <3> DEFINE link == <<end, other>>
    <3>1. link \in Pair /\ new = WithLink(sum, link, seen)
      BY <1>2, <1>7 DEF WithLink
    <3> HIDE DEF link
    <3>2. seen \in SUBSET AnyEnd
      BY <1>7
    <3>3. /\ new \in Sums /\ Range(new.links) = Range(sum.links) \cup {link}
          /\ new.seen = sum.seen \cup seen /\ new.conflicts = sum.conflicts
      BY <1>3, <3>1, <3>2, LinkIsAdded
    <3> QED
      BY <3>3 DEF link
  <2>2. Speaks(o, end)
    BY <1>7
  <2>3. ASSUME NEW l \in Range(new.links) PROVE \E e : Speaks(o, e) /\ l = <<e, Faced(o, e)>>
    BY <2>1, <2>2 DEF SumInv
  <2>4. ASSUME sum.conflicts = {}, NEW e \in new.seen
        PROVE  Speaks(o, e) /\ \E l \in Range(new.links) : {l[1], l[2]} = {e, Faced(o, e)}
    <3>1. CASE e \in sum.seen
      BY <2>1, <2>4, <3>1 DEF SumInv
    <3>2. CASE e \in seen
      <4>1. <<end, other>>[1] = end /\ <<end, other>>[2] = other /\ <<end, other>> \in Range(new.links)
        BY <2>1
      <4> QED
        BY <1>7, <3>2, <4>1
    <3> QED
      BY <2>1, <2>4, <3>1, <3>2
  <2>5. ASSUME sum.conflicts = {}, NEW i \in Managed(o), i <= n PROVE o[i].here \in new.seen
    BY <1>4, <1>7, <2>1, <2>5 DEF SumInv
  <2> QED
    BY <2>1, <2>3, <2>4, <2>5 DEF SumInv
<1>8. CASE IsSettled(o, end) /\ end \notin sum.seen /\ ~Speaks(o, other)
  <2>1. new = [sum EXCEPT !.links = Append(@, <<end, other>>), !.seen = @ \cup {end}]
    BY <1>8 DEF Reconcile1, Speaks
  <2> HIDE DEF new
  <2> QED
    BY <1>1, <1>2, <1>7, <1>8, <2>1 DEF Speaks, new, end
<1>9. CASE /\ IsSettled(o, end) /\ end \notin sum.seen /\ Speaks(o, other)
           /\ Faced(o, other) = end
  <2>1. new = [sum EXCEPT !.links = Append(@, <<end, other>>), !.seen = @ \cup {end, other}]
    BY <1>9 DEF Reconcile1, Speaks
  <2>2. \A e \in {end, other} : Speaks(o, e) /\ {end, other} = {e, Faced(o, e)}
    BY <1>1, <1>9 DEF Speaks
  <2>3. {end, other} \in SUBSET AnyEnd /\ end \in {end, other}
    BY <1>2
  <2> HIDE DEF new, other
  <2> QED
    BY <1>7, <1>9, <2>1, <2>2, <2>3 DEF new, end
<1>10. CASE /\ IsSettled(o, end) /\ end \notin sum.seen /\ Speaks(o, other)
            /\ Faced(o, other) # end
  <2>1. new = [sum EXCEPT !.conflicts = @ \cup {{end, other}}, !.seen = @ \cup {end, other}]
    BY <1>10 DEF Reconcile1, Speaks
  <2> HIDE DEF new, other
  <2>2. new \in Sums /\ new.links = sum.links /\ new.conflicts # {}
    BY <1>2, <1>3, <2>1, ConflictIsAdded
  <2> QED
    BY <2>2 DEF SumInv, new, end
<1> QED
  BY <1>5, <1>6, <1>8, <1>9, <1>10 DEF end

LEMMA ReconcileSum ==
  ASSUME NEW o \in Seq(Observations)
  PROVE  SumInv(o, Reconcile[o], Len(o))
<1>0. Len(o) \in Nat /\ Managed(o) \subseteq 1..Len(o)
  BY PlacesAreNat
<1>1. PICK f : Reconcile[o] = f[Len(o)] /\ \A i \in 0..Len(o) : f[i] = Step1(o, f[i - 1], i)
  BY ReconcileIs
<1> DEFINE Bad == {n \in 0..Len(o) : ~SumInv(o, f[n], n)}
<1>2. SumInv(o, f[0], 0)
  <2>1. f[0] = [links |-> <<>>, conflicts |-> {}, seen |-> {}]
    BY <1>0, <1>1 DEF Step1
  <2>2. <<>> \in Seq(Pair) /\ Range(<<>>) = {}
    BY DEF Range
  <2>3. f[0] \in Sums
    BY <2>1, <2>2 DEF Sums
  <2>4. \A i \in Managed(o) : ~ (i <= 0)
    BY <1>0
  <2> QED
    BY <2>1, <2>2, <2>3, <2>4 DEF SumInv
<1>3. ASSUME NEW n \in 1..Len(o), SumInv(o, f[n - 1], n - 1) PROVE SumInv(o, f[n], n)
  <2>1. n \in 0..Len(o) /\ n # 0
    BY <1>0
  <2>2. f[n] = Step1(o, f[n - 1], n)
    BY <1>1, <2>1
  <2>3. CASE n \in Managed(o)
    <3>1. f[n] = Reconcile1(o, f[n - 1], o[n].here)
      BY <2>1, <2>2, <2>3 DEF Step1
    <3>2. SumInv(o, Reconcile1(o, f[n - 1], o[n].here), n)
      BY <1>3, <2>3, SumStep
    <3> QED
      BY <3>1, <3>2
  <2>4. CASE n \notin Managed(o)
    <3>1. f[n] = f[n - 1]
      BY <2>1, <2>2, <2>4 DEF Step1
    <3>2. \A i \in Managed(o) : i <= n => i <= n - 1
      BY <1>0, <2>4
    <3> QED
      BY <1>3, <3>1, <3>2 DEF SumInv
  <2> QED
    BY <2>3, <2>4
<1>4. Bad = {}
  <2> SUFFICES ASSUME Bad # {} PROVE FALSE
    OBVIOUS
  <2>0. Bad \subseteq Nat
    BY <1>0
  <2>1. PICK n \in Bad : \A m \in Bad : n <= m
    <3> HIDE DEF Bad
    <3> QED
      BY <2>0, FirstOne
  <2>2. n \in 1..Len(o) /\ ~SumInv(o, f[n], n)
    BY <1>0, <1>2, <2>1
  <2>3. n - 1 \in 0..Len(o) /\ ~ (n <= n - 1)
    BY <1>0, <2>2
  <2>4. SumInv(o, f[n - 1], n - 1)
    BY <2>1, <2>3
  <2> QED
    BY <1>3, <2>2, <2>4
<1> QED
  BY <1>0, <1>1, <1>4

LEMMA TwoEnds ==
  ASSUME NEW a, NEW b, a # b
  PROVE  Cardinality({a, b}) = 2
<1>1. IsFiniteSet({a}) /\ Cardinality({a}) = 1
  BY FS_Singleton
<1>2. {a, b} = {a} \cup {b} /\ b \notin {a}
  OBVIOUS
<1> QED
  BY <1>1, <1>2, FS_AddElement

(* Whatever the devices report, in whatever order: if Discovery does not   *)
(* fail, its links are exactly the observations that face a managed        *)
(* device, none invented and none left out; each has two ends, no end has  *)
(* two links, and none of them was also seen facing an unmanaged neighbor  *)
(* (reconcile_links, _fail_on_link_ambiguity).                             *)
THEOREM LinksAreExact ==
  ASSUME NEW o \in Seq(Observations), Links[o].ok = TRUE
  PROVE  /\ Links[o].links = {{o[i].here, o[i].there} : i \in Managed(o)}
         /\ \A l, m \in Links[o].links : Cardinality(l) = 2 /\ (l # m => l \cap m = {})
         /\ \A i \in DOMAIN o \ Managed(o) : o[i].here \notin UNION Links[o].links
<1> DEFINE found == Reconcile[o]
           Ends2(l) == {l[1], l[2]}
<1>1. /\ ~Ambiguous(found, o)
      /\ Links[o].links = {Ends2(found.links[i]) : i \in 1..Len(found.links)}
  BY DEF Links
<1>2. SumInv(o, found, Len(o))
  BY ReconcileSum
<1> HIDE DEF found
<1>3. found.conflicts = {} /\ found.links \in Seq(Pair) /\ DOMAIN found.links = 1..Len(found.links)
  BY <1>1, <1>2 DEF Ambiguous, SumInv, Sums
<1>4. Links[o].links = {Ends2(l) : l \in Range(found.links)}
  BY <1>1, <1>3 DEF Range
<1>5. ASSUME NEW l \in Range(found.links)
      PROVE  \E i \in Managed(o) : Ends2(l) = {o[i].here, o[i].there}
  <2>1. PICK e : Speaks(o, e) /\ l = <<e, Faced(o, e)>>
    BY <1>2 DEF SumInv
  <2>2. PICK i \in Managed(o) : o[i].here = e /\ o[i].there = Faced(o, e)
    BY <2>1, FacedIsObserved DEF Speaks
  <2> QED
    BY <2>1, <2>2
<1>6. ASSUME NEW i \in Managed(o)
      PROVE  \E l \in Range(found.links) : Ends2(l) = {o[i].here, o[i].there}
  <2> DEFINE e == o[i].here
  <2>1. i <= Len(o)
    BY PlacesAreNat
  <2>2. PICK l \in Range(found.links) : Speaks(o, e) /\ {l[1], l[2]} = {e, Faced(o, e)}
    BY <1>2, <1>3, <2>1 DEF SumInv
  <2>3. o[i].there = Faced(o, e)
    BY <2>2, FacedIsObserved DEF Speaks
  <2> QED
    BY <2>2, <2>3
<1>7. Links[o].links = {{o[i].here, o[i].there} : i \in Managed(o)}
  <2> HIDE DEF Ends2
  <2> DEFINE Faces == {{o[i].here, o[i].there} : i \in Managed(o)}
  <2>1. ASSUME NEW x \in Links[o].links PROVE x \in Faces
    <3>1. PICK l \in Range(found.links) : x = Ends2(l)
      BY <1>4, <2>1
    <3> QED
      BY <1>5, <3>1
  <2>2. ASSUME NEW x \in Faces PROVE x \in Links[o].links
    <3>1. PICK i \in Managed(o) : x = {o[i].here, o[i].there}
      BY <2>2
    <3>2. PICK l \in Range(found.links) : Ends2(l) = {o[i].here, o[i].there}
      BY <1>6, <3>1
    <3> QED
      BY <1>4, <3>1, <3>2
  <2> HIDE DEF Faces
  <2>3. Links[o].links = Faces
    BY <2>1, <2>2
  <2> QED
    BY <2>3 DEF Faces
<1>8. ~Shared(found.links)
  BY <1>1 DEF Ambiguous
<1>9. ASSUME NEW i \in 1..Len(found.links)
      PROVE  Cardinality(Ends2(found.links[i])) = 2
  <2>1. found.links[i][1] # found.links[i][2]
    <3>1. <<i, 1>> # <<i, 2>>
      OBVIOUS
    <3> QED
      BY <1>8, <3>1 DEF Shared
  <2> QED
    BY <2>1, TwoEnds
<1>10. ASSUME NEW i \in 1..Len(found.links), NEW j \in 1..Len(found.links),
              Ends2(found.links[i]) # Ends2(found.links[j])
       PROVE  Ends2(found.links[i]) \cap Ends2(found.links[j]) = {}
  <2>1. i # j
    BY <1>10
  <2>2. \A a, b \in 1..2 : found.links[i][a] # found.links[j][b]
    BY <1>8, <2>1 DEF Shared
  <2>3. 1 \in 1..2 /\ 2 \in 1..2
    OBVIOUS
  <2> QED
    BY <2>2, <2>3
<1>11. ASSUME NEW i \in DOMAIN o \ Managed(o), NEW j \in 1..Len(found.links)
       PROVE  o[i].here \notin Ends2(found.links[j])
  BY <1>1, <1>11 DEF Ambiguous
<1> HIDE DEF Ends2
<1>12. \A l, m \in Links[o].links : Cardinality(l) = 2 /\ (l # m => l \cap m = {})
  BY <1>1, <1>9, <1>10
<1>13. \A i \in DOMAIN o \ Managed(o) : o[i].here \notin UNION Links[o].links
  BY <1>1, <1>11
<1> QED
  BY <1>7, <1>12, <1>13

-----------------------------------------------------------------------------
(* From the output of the devices to observations.                         *)

(* A neighbor that a parser has read, and a CDP table that is being read.  *)
Rows == [id : Name \cup {None}, local : Interface, port : Interface]
Tables == [pending : Name \cup {None}, rows : Seq(Rows)]

LEMMA FirstOfIs ==
  ASSUME NEW text \in Seq(Lines), NEW kinds
  PROVE  FirstOf(text, kinds) \in 0..Len(text)
<1> DEFINE I == {i \in 1..Len(text) : text[i].kind \in kinds}
<1>1. FirstOf(text, kinds) = IF I # {} THEN Min(I) ELSE 0
  BY DEF FirstOf, SelectInSeq
<1>2. Len(text) \in Nat /\ I \subseteq Nat /\ I \subseteq 1..Len(text)
  OBVIOUS
<1> HIDE DEF I
<1>3. CASE I # {}
  <2>1. Min(I) \in I
    BY <1>2, <1>3, FirstOne
  <2>2. FirstOf(text, kinds) = Min(I)
    BY <1>1, <1>3
  <2>3. FirstOf(text, kinds) \in 1..Len(text)
    BY <1>2, <2>1, <2>2, Zenon
  <2> QED
    BY <1>2, <2>3
<1>4. CASE I = {}
  BY <1>1, <1>2, <1>4
<1> QED
  BY <1>3, <1>4

LEMMA BodyIs ==
  ASSUME NEW text \in Seq(Lines), NEW ends
  PROVE  Body(text, ends) \in Seq(Lines)
<1> DEFINE first == FirstOf(text, {"header"}) + 1
           rest == SubSeq(text, first, Len(text))
           last == FirstOf(rest, ends)
<1>1. Len(text) \in Nat /\ first \in Int /\ first >= 1 /\ \A i \in 1..Len(text) : text[i] \in Lines
  BY FirstOfIs
<1> HIDE DEF first
<1>2. rest \in Seq(Lines)
  BY <1>1, SubSeqProperties
<1>3. Body(text, ends) = IF last = 0 THEN rest ELSE SubSeq(rest, 1, last - 1)
  BY DEF Body, AfterHeader, first
<1> HIDE DEF rest
<1>4. Len(rest) \in Nat /\ last \in 0..Len(rest) /\ \A i \in 1..Len(rest) : rest[i] \in Lines
  BY <1>2, FirstOfIs
<1> HIDE DEF last
<1>5. SubSeq(rest, 1, last - 1) \in Seq(Lines)
  BY <1>4, SubSeqProperties
<1> QED
  BY <1>2, <1>3, <1>5

(* The rows of an LLDP table.                                              *)
LEMMA LldpRows ==
  ASSUME NEW text \in Seq(Lines)
  PROVE  ParseLldp(text).rows \in Seq(Rows)
<1> DEFINE body == Body(text, {"blank", "total", "prompt"})
           places == {i \in DOMAIN body : IsRow(body[i])}
           rows == Picked(body, places)
           read == [i \in 1..Len(rows) |-> Neighbor(rows[i])]
<1>1. ParseLldp(text).rows = read \/ ParseLldp(text).rows = <<>>
  BY DEF ParseLldp, Read, Failed
<1>2. body \in Seq(Lines)
  BY BodyIs
<1> HIDE DEF body
<1>3. places \subseteq DOMAIN body /\ \A i \in places : body[i] \in Lines /\ body[i].kind = "row"
  BY <1>2 DEF IsRow
<1> HIDE DEF places
<1>4. rows \in Seq(Lines) /\ Range(rows) = {body[i] : i \in places \cap DOMAIN body}
  BY <1>2, PickedIs
<1> HIDE DEF rows
<1>5. ASSUME NEW i \in 1..Len(rows) PROVE Neighbor(rows[i]) \in Rows
  <2>1. rows[i] \in Range(rows)
    BY <1>4 DEF Range
  <2>2. rows[i] \in Lines /\ rows[i].kind = "row"
    BY <1>3, <1>4, <2>1
  <2> QED
    BY <2>2 DEF Lines, Neighbor, Rows
<1>6. read \in Seq(Rows)
  BY <1>4, <1>5
<1>7. <<>> \in Seq(Rows)
  OBVIOUS
<1> HIDE DEF read
<1> QED
  BY <1>1, <1>6, <1>7

LEMMA WordIs ==
  ASSUME NEW line \in Lines
  PROVE  Word(line) \in Name /\ Word(line) # None
BY LinksAssumption DEF Word, Lines

LEMMA CdpRowIs ==
  ASSUME NEW pending \in Name \cup {None}, NEW line \in Lines, IsWhole(CdpRow(pending, line))
  PROVE  CdpRow(pending, line) \in Rows
<1> DEFINE row == CdpRow(pending, line)
<1>1. /\ line.id \in Name \cup {None}
      /\ line.local \in Interface \cup {None} /\ line.port \in Interface \cup {None}
  BY DEF Lines
<1>2. row.id \in Name /\ row.local \in Interface \cup {None} /\ row.port \in Interface \cup {None}
  BY <1>1, LinksAssumption DEF CdpRow
<1>3. row.local # None /\ row.port # None
  BY DEF IsWhole
<1>4. row = [id |-> row.id, local |-> row.local, port |-> row.port]
  BY DEF CdpRow
<1> HIDE DEF row
<1>5. row \in Rows
  BY <1>2, <1>3, <1>4 DEF Rows
<1> QED
  BY <1>5 DEF row

LEMMA CdpLineIs ==
  ASSUME NEW table \in Tables, NEW line \in Lines
  PROVE  CdpLine(table, line) \in Tables
<1>1. table.pending \in Name \cup {None} /\ table.rows \in Seq(Rows)
  BY DEF Tables
<1>2. CASE line.kind \in AloneKinds
  <2>1. CdpLine(table, line) = [pending |-> Word(line), rows |-> table.rows]
    BY <1>2 DEF CdpLine, Tables
  <2> QED
    BY <1>1, <2>1, WordIs DEF Tables
<1>3. CASE line.kind \notin AloneKinds \cup HoldTime
  BY <1>3 DEF CdpLine
<1>4. CASE line.kind \notin AloneKinds /\ line.kind \in HoldTime
  <2> DEFINE row == CdpRow(table.pending, line)
  <2>1. IsWhole(row) => row \in Rows
    BY <1>1, CdpRowIs
  <2>2. CdpLine(table, line) =
          [pending |-> None, rows |-> IF IsWhole(row) THEN Append(table.rows, row) ELSE table.rows]
    BY <1>4 DEF CdpLine
  <2> HIDE DEF row
  <2>3. IsWhole(row) => Append(table.rows, row) \in Seq(Rows)
    BY <1>1, <2>1, AppendIs
  <2> QED
    BY <1>1, <2>2, <2>3 DEF Tables
<1> QED
  BY <1>2, <1>3, <1>4

(* The states of the CDP table after each of its lines.                    *)
CdpTables(body, f) ==
  /\ f[0] = [pending |-> None, rows |-> <<>>]
  /\ \A n \in 1..Len(body) : f[n] = CdpLine(f[n - 1], body[n])
  /\ \A n \in 0..Len(body) : f[n] \in Tables

LEMMA CdpSteps ==
  ASSUME NEW text \in Seq(Lines)
  PROVE  LET body == Body(text, {"blank"})
         IN \E f : CdpTables(body, f) /\ ParseCdp(text) = f[Len(body)].rows
<1> DEFINE body == Body(text, {"blank"})
           N == Len(body)
           none == [pending |-> None, rows |-> <<>>]
           Made(f) == [n \in 0..N |-> IF n = 0 THEN none ELSE CdpLine(f[n - 1], body[n])]
           F == CHOOSE f : f = Made(f)
           step == [n \in 1..N |-> [table \in Tables |-> CdpLine(table, body[n])]]
<1>1. body \in Seq(Lines)
  BY BodyIs
<1>2. ParseCdp(text) = F[N].rows
  BY DEF ParseCdp
<1> HIDE DEF body
<1>3. N \in Nat /\ \A n \in 1..N : body[n] \in Lines
  BY <1>1
<1> HIDE DEF N
<1>4. none \in Tables /\ step \in [1..N -> [Tables -> Tables]]
  <2>1. <<>> \in Seq(Rows)
    OBVIOUS
  <2>2. none \in Tables
    BY <2>1 DEF Tables
  <2>3. step \in [1..N -> [Tables -> Tables]]
    BY <1>3, CdpLineIs
  <2> QED
    BY <2>2, <2>3
<1>5. /\ \A f \in [0..N -> Tables], n \in 1..N : n - 1 \in 0..N /\ f[n - 1] \in Tables
      /\ \A n \in 1..N, table \in Tables : step[n][table] = CdpLine(table, body[n])
  BY <1>3
<1> HIDE DEF step, none
<1>6. PICK f \in [0..N -> Tables] : Recurs(f, N, none, step)
  BY <1>3, <1>4, Recursion
<1>7. f[0] = none /\ \A n \in 1..N : f[n] = CdpLine(f[n - 1], body[n])
  <2>1. f[0] = none /\ \A n \in 1..N : f[n] = step[n][f[n - 1]]
    BY <1>6 DEF Recurs
  <2> QED
    BY <1>5, <2>1
<1>8. f = Made(f)
  <2>1. \A n \in 0..N : n = 0 \/ (n # 0 /\ n \in 1..N)
    BY <1>3
  <2> QED
    BY <1>6, <1>7, <2>1
<1>9. F = Made(F)
  <2> HIDE DEF Made
  <2> QED
    BY <1>8
<1> HIDE DEF F
<1>10. F[0] = none /\ \A n \in 1..N : F[n] = CdpLine(F[n - 1], body[n])
  <2>1. 0 \in 0..N /\ \A n \in 1..N : n \in 0..N /\ n # 0
    BY <1>3
  <2> QED
    BY <1>9, <2>1
<1> HIDE DEF Made
<1> DEFINE Good == {n \in 0..N : F[n] \in Tables}
<1>11. 0 \in Good /\ \A n \in 1..N : n - 1 \in Good => n \in Good
  BY <1>3, <1>4, <1>10, CdpLineIs
<1> HIDE DEF Good
<1>12. 0..N \subseteq Good
  BY <1>3, <1>11, Induction
<1>13. \A n \in 0..N : F[n] \in Tables
  BY <1>12 DEF Good
<1>14. CdpTables(body, F)
  BY <1>10, <1>13 DEF CdpTables, N, none
<1> QED
  BY <1>2, <1>14 DEF N, body

(* The rows of a CDP table.                                                *)
LEMMA CdpRows ==
  ASSUME NEW text \in Seq(Lines)
  PROVE  ParseCdp(text) \in Seq(Rows)
<1> DEFINE body == Body(text, {"blank"})
<1>1. body \in Seq(Lines)
  BY BodyIs
<1>2. PICK f : CdpTables(body, f) /\ ParseCdp(text) = f[Len(body)].rows
  BY CdpSteps
<1> HIDE DEF body
<1>3. Len(body) \in 0..Len(body)
  BY <1>1
<1> QED
  BY <1>2, <1>3 DEF CdpTables, Tables

(* The lines of a table: those after the header before the first line that *)
(* ends it.                                                                *)
InTable(text, ends) ==
  {i \in DOMAIN text : \E h \in 1..(i - 1) :
     /\ text[h].kind = "header" /\ \A k \in 1..(h - 1) : text[k].kind # "header"
     /\ \A k \in (h + 1)..i : text[k].kind \notin ends}

LEMMA FirstOfFinds ==
  ASSUME NEW text \in Seq(Lines), NEW kinds
  PROVE  LET first == FirstOf(text, kinds)
         IN /\ first = 0 => \A i \in 1..Len(text) : text[i].kind \notin kinds
            /\ first # 0 => /\ first \in 1..Len(text) /\ text[first].kind \in kinds
                            /\ \A i \in 1..(first - 1) : text[i].kind \notin kinds
<1> DEFINE I == {i \in 1..Len(text) : text[i].kind \in kinds}
<1>1. FirstOf(text, kinds) = IF I # {} THEN Min(I) ELSE 0
  BY DEF FirstOf, SelectInSeq
<1>2. Len(text) \in Nat /\ I \subseteq Nat
  OBVIOUS
<1>3. CASE I # {}
  <2>1. Min(I) \in I /\ \A i \in I : Min(I) <= i
    <3> HIDE DEF I
    <3> QED
      BY <1>2, <1>3, FirstOne
  <2> DEFINE m == Min(I)
  <2>2. m \in 1..Len(text) /\ text[m].kind \in kinds
    BY <2>1
  <2>3. \A i \in 1..(m - 1) : text[i].kind \notin kinds
    <3>1. \A i \in 1..(m - 1) : i \in 1..Len(text) /\ ~ (m <= i)
      <4> HIDE DEF m
      <4> QED
        BY <1>2, <2>2
    <3> QED
      BY <2>1, <3>1
  <2>4. FirstOf(text, kinds) = m /\ m # 0
    BY <1>1, <1>3, <2>2
  <2> HIDE DEF m
  <2> QED
    BY <2>2, <2>3, <2>4
<1>4. CASE I = {}
  BY <1>1, <1>4
<1> QED
  BY <1>3, <1>4

(* Where the lines of a table are.                                         *)
LEMMA BodyPlaces ==
  ASSUME NEW text \in Seq(Lines), NEW ends, HasHeader(text)
  PROVE  \E h \in 1..Len(text) : \E e \in h..Len(text) :
           /\ Body(text, ends) \in Seq(Lines) /\ Len(Body(text, ends)) = e - h
           /\ \A i \in 1..(e - h) : Body(text, ends)[i] = text[h + i]
           /\ InTable(text, ends) = (h + 1)..e
<1> DEFINE n == Len(text)
           h == FirstOf(text, {"header"})
           rest == SubSeq(text, h + 1, n)
           last == FirstOf(rest, ends)
           e == IF last = 0 THEN n ELSE h + last - 1
<1>1. n \in Nat /\ DOMAIN text = 1..n
  OBVIOUS
<1>2. /\ h \in 1..n /\ text[h].kind = "header"
      /\ \A i \in 1..(h - 1) : text[i].kind # "header"
  BY FirstOfFinds DEF HasHeader
<1>3. Body(text, ends) = IF last = 0 THEN rest ELSE SubSeq(rest, 1, last - 1)
  BY DEF Body, AfterHeader
<1> HIDE DEF h
<1>4. rest \in Seq(Lines) /\ Len(rest) = n - h /\ \A i \in 1..(n - h) : rest[i] = text[h + i]
  <2>1. \A i \in (h + 1)..n : text[i] \in Lines
    BY <1>1, <1>2
  <2> DEFINE m == h + 1
  <2>2. /\ rest \in Seq(Lines) /\ Len(rest) = IF m <= n THEN n - m + 1 ELSE 0
        /\ \A i \in 1..(n - m + 1) : rest[i] = text[m + i - 1]
    <3>1. m \in Int /\ n \in Int
      BY <1>1, <1>2
    <3> HIDE DEF m, n
    <3> QED
      BY <2>1, <3>1, SubSeqProperties DEF m
  <2>3. /\ n - m + 1 = n - h /\ (IF m <= n THEN n - m + 1 ELSE 0) = n - h
        /\ \A i \in 1..(n - h) : m + i - 1 = h + i
    BY <1>1, <1>2
  <2> HIDE DEF m, n, rest
  <2> QED
    BY <2>2, <2>3
<1> HIDE DEF rest, n
<1>5. /\ last = 0 => \A i \in 1..(n - h) : rest[i].kind \notin ends
      /\ last # 0 => /\ last \in 1..(n - h) /\ rest[last].kind \in ends
                     /\ \A i \in 1..(last - 1) : rest[i].kind \notin ends
  BY <1>4, FirstOfFinds
<1> HIDE DEF last
<1>6. e \in h..n
  BY <1>1, <1>2, <1>5
<1>7. /\ Body(text, ends) \in Seq(Lines) /\ Len(Body(text, ends)) = e - h
      /\ \A i \in 1..(e - h) : Body(text, ends)[i] = text[h + i]
  <2>1. CASE last = 0
    BY <1>1, <1>2, <1>3, <1>4, <2>1
  <2>2. CASE last # 0
    <3> DEFINE body == SubSeq(rest, 1, last - 1)
    <3>1. last \in 1..(n - h) /\ e - h = last - 1
      BY <1>1, <1>2, <1>5, <2>2
    <3>2. \A i \in 1..(last - 1) : rest[i] \in Lines
      BY <1>1, <1>2, <1>4, <3>1
    <3>3. /\ body \in Seq(Lines) /\ Len(body) = last - 1
          /\ \A i \in 1..(last - 1) : body[i] = rest[1 + i - 1]
      BY <1>1, <1>2, <1>4, <3>1, <3>2, SubSeqProperties
    <3>4. \A i \in 1..(last - 1) : 1 + i - 1 = i /\ i \in 1..(n - h)
      BY <1>1, <1>2, <3>1
    <3> HIDE DEF body
    <3>5. \A i \in 1..(last - 1) : body[i] = text[h + i]
      BY <1>4, <3>3, <3>4
    <3> QED
      BY <1>3, <2>2, <3>1, <3>3, <3>5 DEF body
  <2> QED
    BY <2>1, <2>2
<1>8. InTable(text, ends) = (h + 1)..e
  <2>1. ASSUME NEW k \in (h + 1)..e PROVE text[k].kind \notin ends
    <3>1. k - h \in 1..(n - h) /\ h + (k - h) = k /\ (last # 0 => k - h \in 1..(last - 1))
      BY <1>1, <1>2, <1>5
    <3>2. rest[k - h] = text[k]
      BY <1>4, <3>1
    <3> QED
      BY <1>5, <3>1, <3>2
  <2>2. ASSUME NEW i \in InTable(text, ends) PROVE i \in (h + 1)..e
    <3>1. PICK g \in 1..(i - 1) :
            /\ text[g].kind = "header" /\ \A k \in 1..(g - 1) : text[k].kind # "header"
            /\ \A k \in (g + 1)..i : text[k].kind \notin ends
      BY DEF InTable
    <3>2. i \in 1..n
      BY <1>1 DEF InTable
    <3>3. g = h
      BY <1>1, <1>2, <3>1, <3>2
    <3>4. ASSUME last # 0 PROVE i < h + last
      <4>1. last \in 1..(n - h) /\ rest[last] = text[h + last] /\ rest[last].kind \in ends
        BY <1>4, <1>5, <3>4
      <4>2. h + last \notin (g + 1)..i
        BY <3>1, <4>1
      <4> QED
        BY <1>1, <1>2, <3>2, <3>3, <4>1, <4>2
    <3> QED
      BY <1>1, <1>2, <1>5, <3>1, <3>2, <3>3, <3>4
  <2>3. ASSUME NEW i \in (h + 1)..e PROVE i \in InTable(text, ends)
    <3>1. i \in DOMAIN text /\ h \in 1..(i - 1) /\ (h + 1)..i \subseteq (h + 1)..e
      BY <1>1, <1>2, <1>6
    <3> QED
      BY <1>2, <2>1, <3>1 DEF InTable
  <2> QED
    BY <2>2, <2>3
<1> QED
  BY <1>2, <1>6, <1>7, <1>8 DEF n

LEMMA NoHeaderNoTable ==
  ASSUME NEW text \in Seq(Lines), NEW ends, ~HasHeader(text)
  PROVE  InTable(text, ends) = {}
<1>1. FirstOf(text, {"header"}) = 0
  BY DEF HasHeader
<1>2. \A i \in 1..Len(text) : text[i].kind # "header"
  BY <1>1, FirstOfFinds
<1>3. ASSUME NEW i \in 1..Len(text), NEW h \in 1..(i - 1) PROVE h \in 1..Len(text)
  OBVIOUS
<1> QED
  BY <1>2, <1>3 DEF InTable

(* What an LLDP table tells: a neighbor per line of five words, and no     *)
(* other line has a part in it.                                            *)
LldpTold(text) ==
  {Neighbor(text[i]) : i \in {j \in InTable(text, {"blank", "total", "prompt"}) : IsRow(text[j])}}

LEMMA LldpIsTold ==
  ASSUME NEW text \in Seq(Lines), ParseLldp(text).ok = TRUE
  PROVE  Range(ParseLldp(text).rows) = LldpTold(text)
<1> DEFINE ends == {"blank", "total", "prompt"}
           body == Body(text, ends)
           places == {i \in DOMAIN body : IsRow(body[i])}
           rows == Picked(body, places)
           read == [i \in 1..Len(rows) |-> Neighbor(rows[i])]
<1>1. HasHeader(text) /\ ParseLldp(text).rows = read
  BY DEF ParseLldp, Read, Failed
<1>2. PICK h \in 1..Len(text) : \E e \in h..Len(text) :
           /\ body \in Seq(Lines) /\ Len(body) = e - h
           /\ \A i \in 1..(e - h) : body[i] = text[h + i]
           /\ InTable(text, ends) = (h + 1)..e
  <2>1. HasHeader(text)
    BY <1>1
  <2> HIDE DEF ends
  <2> QED
    BY <2>1, BodyPlaces
<1>3. PICK e \in h..Len(text) :
           /\ body \in Seq(Lines) /\ Len(body) = e - h
           /\ \A i \in 1..(e - h) : body[i] = text[h + i]
           /\ InTable(text, ends) = (h + 1)..e
  BY <1>2
<1>4. LldpTold(text) = {Neighbor(text[i]) : i \in {j \in InTable(text, ends) : IsRow(text[j])}}
  BY DEF LldpTold
<1> HIDE DEF ends, body
<1>5. h \in Nat /\ e \in Nat /\ DOMAIN body = 1..(e - h)
  <2>1. Len(text) \in Nat
    OBVIOUS
  <2> QED
    BY <1>3, <2>1
<1>6. rows \in Seq(Lines) /\ Range(rows) = {body[i] : i \in places}
  <2>1. places \cap DOMAIN body = places
    OBVIOUS
  <2> QED
    BY <1>3, <2>1, PickedIs
<1> HIDE DEF rows
<1>7. Range(read) = {Neighbor(row) : row \in Range(rows)}
  BY <1>6 DEF Range
<1>8. ASSUME NEW i \in places PROVE Neighbor(body[i]) \in LldpTold(text)
  <2>1. h + i \in (h + 1)..e /\ body[i] = text[h + i] /\ IsRow(body[i])
    BY <1>3, <1>5
  <2> QED
    BY <1>3, <1>4, <2>1
<1>9. ASSUME NEW j \in InTable(text, ends), IsRow(text[j])
      PROVE  \E i \in places : body[i] = text[j]
  <2>1. j - h \in 1..(e - h) /\ h + (j - h) = j
    BY <1>3, <1>5
  <2>2. body[j - h] = text[j]
    BY <1>3, <2>1
  <2> QED
    BY <1>5, <1>9, <2>1, <2>2
<1> HIDE DEF places, read
<1>10. LldpTold(text) = {Neighbor(row) : row \in Range(rows)}
  BY <1>4, <1>6, <1>8, <1>9
<1> QED
  BY <1>1, <1>7, <1>10

(* What a CDP table tells.  A word alone on a line, also a prompt, is the   *)
(* Device ID of the next line with a hold time, with lines of other kinds  *)
(* between them or not.                                                    *)
CdpKinds == AloneKinds \cup HoldTime

Halves(text, i) ==
  {j \in InTable(text, {"blank"}) :
     /\ j < i /\ text[j].kind \in AloneKinds
     /\ \A k \in (j + 1)..(i - 1) : text[k].kind \notin CdpKinds}

Above(text, i) == {Word(text[j]) : j \in Halves(text, i)}

(* What a line tells below the words in above: a neighbor, if its          *)
(* interface and Port ID are there, or none.                               *)
CdpToldOf(line, above) ==
  {row \in {CdpRow(id, line) : id \in IF above = {} THEN {None} ELSE above} :
     line.kind \in HoldTime /\ IsWhole(row)}

CdpTold(text) ==
  UNION {CdpToldOf(text[i], Above(text, i)) : i \in InTable(text, {"blank"})}

LEMMA HalvesStep ==
  ASSUME NEW text, NEW h \in Nat, NEW e \in Nat, InTable(text, {"blank"}) = (h + 1)..e
  PROVE  /\ Halves(text, h + 1) = {}
         /\ \A i \in (h + 1)..e :
              Halves(text, i + 1) = IF text[i].kind \in AloneKinds THEN {i}
                                    ELSE IF text[i].kind \in CdpKinds THEN {}
                                    ELSE Halves(text, i)
<1>1. Halves(text, h + 1) = {}
  <2>1. \A j \in (h + 1)..e : ~ (j < h + 1)
    OBVIOUS
  <2> QED
    BY <2>1 DEF Halves
<1>2. ASSUME NEW i \in (h + 1)..e
      PROVE  Halves(text, i + 1) = IF text[i].kind \in AloneKinds THEN {i}
                                   ELSE IF text[i].kind \in CdpKinds THEN {}
                                   ELSE Halves(text, i)
  <2>1. Halves(text, i + 1) =
          {j \in (h + 1)..e : /\ j < i + 1 /\ text[j].kind \in AloneKinds
                              /\ \A k \in (j + 1)..i : text[k].kind \notin CdpKinds}
    <3>1. (i + 1) - 1 = i
      OBVIOUS
    <3> QED
      BY <3>1 DEF Halves
  <2>2. Halves(text, i) =
          {j \in (h + 1)..e : /\ j < i /\ text[j].kind \in AloneKinds
                              /\ \A k \in (j + 1)..(i - 1) : text[k].kind \notin CdpKinds}
    BY DEF Halves
  <2>3. ASSUME NEW j \in (h + 1)..e
        PROVE  /\ j < i + 1 <=> j < i \/ j = i
               /\ j < i => (j + 1)..i = (j + 1)..(i - 1) \cup {i}
               /\ j = i => (j + 1)..i = {}
    OBVIOUS
  <2>4. ~ (i < i) /\ i \in (h + 1)..e
    OBVIOUS
  <2>5. CASE text[i].kind \in CdpKinds
    <3>1. \A j \in (h + 1)..e : j \in Halves(text, i + 1) => j = i /\ text[j].kind \in AloneKinds
      BY <2>1, <2>3, <2>5
    <3>2. text[i].kind \in AloneKinds => i \in Halves(text, i + 1)
      BY <2>1, <2>3, <2>4
    <3>3. Halves(text, i + 1) \subseteq (h + 1)..e
      BY <2>1
    <3> QED
      BY <2>5, <3>1, <3>2, <3>3
  <2>6. CASE text[i].kind \notin CdpKinds
    <3>1. text[i].kind \notin AloneKinds
      BY <2>6 DEF CdpKinds
    <3> QED
      BY <2>1, <2>2, <2>3, <2>6, <3>1
  <2> QED
    BY <2>5, <2>6
<1> QED
  BY <1>1, <1>2

LEMMA CdpLineTells ==
  ASSUME NEW table \in Tables, NEW line \in Lines
  PROVE  LET above == {table.pending} \ {None}
             next == CdpLine(table, line)
         IN /\ Range(next.rows) = Range(table.rows) \cup CdpToldOf(line, above)
            /\ {next.pending} \ {None} = IF line.kind \in AloneKinds THEN {Word(line)}
                                         ELSE IF line.kind \in CdpKinds THEN {} ELSE above
<1> DEFINE above == {table.pending} \ {None}
           next == CdpLine(table, line)
           row == CdpRow(table.pending, line)
<1>1. table.pending \in Name \cup {None} /\ table.rows \in Seq(Rows)
  BY DEF Tables
<1>2. CASE line.kind \in AloneKinds
  <2>1. next.rows = table.rows /\ next.pending = Word(line)
    BY <1>2 DEF CdpLine, Tables
  <2>2. CdpToldOf(line, above) = {}
    BY <1>2 DEF CdpToldOf, AloneKinds, HoldTime
  <2> QED
    BY <1>2, <2>1, <2>2, WordIs
<1>3. CASE line.kind \notin CdpKinds
  <2>1. next = table
    BY <1>3 DEF CdpLine, CdpKinds
  <2>2. CdpToldOf(line, above) = {} /\ line.kind \notin AloneKinds
    BY <1>3 DEF CdpToldOf, CdpKinds
  <2> QED
    BY <1>3, <2>1, <2>2
<1>4. CASE line.kind \in HoldTime
  <2>1. line.kind \in CdpKinds /\ line.kind \notin AloneKinds
    BY <1>4 DEF CdpKinds, HoldTime, AloneKinds
  <2>2. next = [pending |-> None, rows |-> IF IsWhole(row) THEN Append(table.rows, row) ELSE table.rows]
    BY <1>4, <2>1 DEF CdpLine
  <2>3. (IF above = {} THEN {None} ELSE above) = {table.pending}
    OBVIOUS
  <2>4. CdpToldOf(line, above) = {r \in {row} : IsWhole(r)}
    BY <1>4, <2>3 DEF CdpToldOf
  <2>5. IsWhole(row) => row \in Rows
    BY <1>1, CdpRowIs
  <2> HIDE DEF row, next
  <2>6. CdpToldOf(line, above) = IF IsWhole(row) THEN {row} ELSE {}
    BY <2>4
  <2>7. IsWhole(row) => Range(Append(table.rows, row)) = Range(table.rows) \cup {row}
    BY <1>1, <2>5, AppendIs
  <2> HIDE DEF above
  <2>8. next.pending = None
    BY <2>2
  <2>9. Range(next.rows) = Range(table.rows) \cup CdpToldOf(line, above)
    BY <2>2, <2>6, <2>7
  <2> QED
    BY <2>1, <2>8, <2>9 DEF next, above
<1> QED
  BY <1>2, <1>3, <1>4 DEF CdpKinds

LEMMA CdpIsTold ==
  ASSUME NEW text \in Seq(Lines), HasHeader(text)
  PROVE  Range(ParseCdp(text)) = CdpTold(text)
<1> DEFINE ends == {"blank"}
           body == Body(text, ends)
<1>1. PICK h \in 1..Len(text) : \E e \in h..Len(text) :
           /\ body \in Seq(Lines) /\ Len(body) = e - h
           /\ \A i \in 1..(e - h) : body[i] = text[h + i]
           /\ InTable(text, ends) = (h + 1)..e
  <2> HIDE DEF ends
  <2> QED
    BY BodyPlaces
<1>2. PICK e \in h..Len(text) :
           /\ body \in Seq(Lines) /\ Len(body) = e - h
           /\ \A i \in 1..(e - h) : body[i] = text[h + i]
           /\ InTable(text, ends) = (h + 1)..e
  BY <1>1
<1>3. PICK f : CdpTables(body, f) /\ ParseCdp(text) = f[Len(body)].rows
  BY CdpSteps
<1> HIDE DEF body
<1> DEFINE N == e - h
<1>4. /\ h \in Nat /\ e \in Nat /\ N \in Nat /\ Len(body) = N
      /\ (h + 1)..e = {h + i : i \in 1..N}
      /\ \A n \in 1..N : n \in 0..N /\ n - 1 \in 0..N /\ h + (n - 1) + 1 = h + n
  <2>1. Len(text) \in Nat
    OBVIOUS
  <2>2. h \in Nat /\ e \in Nat /\ N \in Nat
    BY <2>1
  <2>3. \A j \in (h + 1)..e : j - h \in 1..N /\ j = h + (j - h)
    BY <2>2
  <2>4. \A i \in 1..N : h + i \in (h + 1)..e
    BY <2>2
  <2>5. (h + 1)..e = {h + i : i \in 1..N}
    BY <2>3, <2>4
  <2>6. \A n \in 1..N : n \in 0..N /\ n - 1 \in 0..N /\ h + (n - 1) + 1 = h + n
    BY <2>2
  <2> QED
    BY <1>2, <2>2, <2>5, <2>6
<1>5. /\ f[0] = [pending |-> None, rows |-> <<>>]
      /\ \A n \in 1..N : f[n] = CdpLine(f[n - 1], text[h + n])
      /\ \A n \in 0..N : f[n] \in Tables
      /\ \A n \in 1..N : text[h + n] \in Lines
  <2>1. \A n \in 1..N : body[n] = text[h + n] /\ body[n] \in Lines
    BY <1>2, <1>4
  <2> QED
    BY <1>3, <1>4, <2>1 DEF CdpTables
<1>6. /\ Halves(text, h + 1) = {}
      /\ \A i \in (h + 1)..e :
           Halves(text, i + 1) = IF text[i].kind \in AloneKinds THEN {i}
                                 ELSE IF text[i].kind \in CdpKinds THEN {}
                                 ELSE Halves(text, i)
  <2>1. h \in Nat /\ e \in Nat /\ InTable(text, {"blank"}) = (h + 1)..e
    BY <1>2, <1>4
  <2> QED
    BY <2>1, HalvesStep
<1> DEFINE At1(n) == CdpToldOf(text[h + n], Above(text, h + n))
           Told1(n) == UNION {At1(i) : i \in 1..n}
           Good == {n \in 0..N : /\ Range(f[n].rows) = Told1(n)
                                 /\ {f[n].pending} \ {None} = Above(text, h + n + 1)}
<1>7. 0 \in Good
  <2>1. Told1(0) = {} /\ Range(<<>>) = {}
    BY DEF Range
  <2>2. Above(text, h + 0 + 1) = {}
    <3>1. h + 0 + 1 = h + 1
      BY <1>4
    <3> QED
      BY <1>6, <3>1 DEF Above
  <2> HIDE DEF Told1
  <2>3. 0 \in 0..N /\ f[0].rows = <<>> /\ f[0].pending = None
    BY <1>4, <1>5
  <2> QED
    BY <2>1, <2>2, <2>3
<1>8. ASSUME NEW n \in 1..N, n - 1 \in Good PROVE n \in Good
  <2> DEFINE line == text[h + n]
             prior == f[n - 1]
             above == {prior.pending} \ {None}
  <2>1. /\ n \in 0..N /\ n - 1 \in 0..N /\ h + (n - 1) + 1 = h + n
        /\ h + n \in (h + 1)..e
    <3> HIDE DEF N
    <3> QED
      BY <1>4
  <2>2. Range(prior.rows) = Told1(n - 1) /\ above = Above(text, h + n)
    <3> HIDE DEF Told1
    <3> QED
      BY <1>8, <2>1
  <2>3. Told1(n) = Told1(n - 1) \cup At1(n)
    <3>1. 1..n = 1..(n - 1) \cup {n}
      BY <1>4
    <3> HIDE DEF At1
    <3> QED
      BY <3>1
  <2> HIDE DEF Told1
  <2>4. f[n] = CdpLine(prior, line) /\ prior \in Tables /\ line \in Lines
    BY <1>5, <2>1
  <2>5. Above(text, h + n + 1) = IF line.kind \in AloneKinds THEN {Word(line)}
                                 ELSE IF line.kind \in CdpKinds THEN {} ELSE Above(text, h + n)
    BY <1>6, <2>1 DEF Above
  <2> HIDE DEF line, prior
  <2>6. /\ Range(f[n].rows) = Range(prior.rows) \cup CdpToldOf(line, above)
        /\ {f[n].pending} \ {None} = IF line.kind \in AloneKinds THEN {Word(line)}
                                     ELSE IF line.kind \in CdpKinds THEN {} ELSE above
    BY <2>4, CdpLineTells
  <2>7. At1(n) = CdpToldOf(line, above)
    BY <2>2 DEF line
  <2> HIDE DEF At1, above
  <2>8. Range(f[n].rows) = Told1(n) /\ {f[n].pending} \ {None} = Above(text, h + n + 1)
    BY <2>2, <2>3, <2>5, <2>6, <2>7
  <2> QED
    BY <2>1, <2>8
<1> HIDE DEF Good
<1>9. 0..N \subseteq Good
  BY <1>4, <1>7, <1>8, Induction
<1>10. Range(f[N].rows) = Told1(N)
  <2>1. N \in 0..N
    BY <1>4
  <2> HIDE DEF N, Told1
  <2>2. N \in Good
    BY <1>9, <2>1
  <2> QED
    BY <2>2 DEF Good
<1>11. Told1(N) = CdpTold(text)
  <2> DEFINE at(j) == CdpToldOf(text[j], Above(text, j))
  <2>1. CdpTold(text) = UNION {at(j) : j \in {h + i : i \in 1..N}}
    BY <1>2, <1>4 DEF CdpTold
  <2>2. Told1(N) = UNION {at(h + i) : i \in 1..N}
    OBVIOUS
  <2> HIDE DEF at, Told1
  <2> QED
    BY <2>1, <2>2
<1> QED
  BY <1>3, <1>4, <1>10, <1>11

(* What the tables of a device tell: those of the protocols that it runs.  *)
RowsTold(type, out) ==
  CdpTold(out.cdp)
  \cup IF Lldp(type, out.lldp).state = "success" THEN LldpTold(out.lldp) ELSE {}

(* The rows that a device reports are those that its tables tell, of any   *)
(* lines: nothing outside of a table is read as a neighbor, nothing in it  *)
(* is lost but lines without an interface or a Port ID, and a word alone   *)
(* on a line is the Device ID of no other line than the next one with a    *)
(* hold time (parse_lldp_neighbors, parse_cdp_neighbors).                  *)
THEOREM RowsAreExact ==
  ASSUME NEW type, NEW out, out.lldp \in Seq(Lines), out.cdp \in Seq(Lines),
         Report(type, out).ok = TRUE
  PROVE  Range(Report(type, out).rows) = RowsTold(type, out)
<1> DEFINE lldp == Lldp(type, out.lldp)
           cdp == Cdp(type, out.lnt, out.cdp)
<1>1. /\ lldp.read.ok = TRUE /\ cdp.read.ok = TRUE
      /\ Report(type, out).rows = lldp.read.rows \o cdp.read.rows
  <2>1. lldp.read.ok \in BOOLEAN /\ cdp.read.ok \in BOOLEAN
    BY DEF Lldp, Cdp, ParseLldp, Read, Failed
  <2> HIDE DEF lldp, cdp
  <2>2. lldp.read.ok /\ cdp.read.ok /\ Report(type, out) = Read(lldp.read.rows \o cdp.read.rows)
    BY DEF Report, Failed, lldp, cdp
  <2>3. Report(type, out).rows = lldp.read.rows \o cdp.read.rows
    <3>1. Report(type, out) = Read(lldp.read.rows \o cdp.read.rows)
      BY <2>2, Zenon
    <3> DEFINE rows == lldp.read.rows \o cdp.read.rows
    <3>2. Read(rows).rows = rows
      <4> HIDE DEF rows
      <4> QED
        BY DEF Read
    <3> QED
      BY <3>1, <3>2, Zenon
  <2>4. lldp.read.ok = TRUE /\ cdp.read.ok = TRUE
    BY <2>1, <2>2, Zenon
  <2> QED
    BY <2>3, <2>4
<1>2. <<>> \in Seq(Rows) /\ Range(<<>>) = {}
  BY DEF Range
<1>3. /\ lldp.read.rows \in Seq(Rows)
      /\ Range(lldp.read.rows) = IF lldp.state = "success" THEN LldpTold(out.lldp) ELSE {}
  <2>1. CASE lldp.state = "success"
    <3>1. lldp.read = ParseLldp(out.lldp)
      BY <2>1 DEF Lldp
    <3> HIDE DEF lldp
    <3> QED
      BY <1>1, <2>1, <3>1, LldpRows, LldpIsTold
  <2>2. CASE lldp.state # "success"
    <3>1. lldp.read.rows = <<>>
      BY <2>2 DEF Lldp, Read, Failed
    <3> HIDE DEF lldp
    <3> QED
      BY <1>2, <2>2, <3>1
  <2> QED
    BY <2>1, <2>2
<1>4. cdp.read.rows \in Seq(Rows) /\ Range(cdp.read.rows) = CdpTold(out.cdp)
  <2>1. CASE HasHeader(out.cdp)
    <3>1. cdp.read.rows = ParseCdp(out.cdp)
      BY <1>1, <2>1 DEF Cdp, Read, Failed
    <3> HIDE DEF cdp
    <3> QED
      BY <2>1, <3>1, CdpRows, CdpIsTold
  <2>2. CASE ~HasHeader(out.cdp)
    <3>1. cdp.read.rows = <<>>
      BY <2>2 DEF Cdp, Read, Failed
    <3>2. CdpTold(out.cdp) = {}
      BY <2>2, NoHeaderNoTable DEF CdpTold
    <3> HIDE DEF cdp
    <3> QED
      BY <1>2, <3>1, <3>2
  <2> QED
    BY <2>1, <2>2
<1> HIDE DEF lldp, cdp
<1>5. Range(lldp.read.rows \o cdp.read.rows) = Range(lldp.read.rows) \cup Range(cdp.read.rows)
  BY <1>3, <1>4, RangeConcatenation
<1> QED
  BY <1>1, <1>3, <1>4, <1>5 DEF RowsTold, lldp

(* What a device reports.                                                  *)
LEMMA ReportRows ==
  ASSUME NEW d \in Device, NEW n \in DOMAIN Outputs[d]
  PROVE  Report(Type[d], Outputs[d][n]).rows \in Seq(Rows)
<1> DEFINE out == Outputs[d][n]
           lldp == Lldp(Type[d], out.lldp)
           cdp == Cdp(Type[d], out.lnt, out.cdp)
<1>1. out.lldp \in Seq(Lines) /\ out.cdp \in Seq(Lines)
  BY OutputsAssumption
<1> HIDE DEF out
<1>2. <<>> \in Seq(Rows) /\ ParseLldp(out.lldp).rows \in Seq(Rows) /\ ParseCdp(out.cdp) \in Seq(Rows)
  BY <1>1, LldpRows, CdpRows
<1>3. lldp.read.rows \in Seq(Rows)
  <2>1. lldp.read.rows \in {<<>>, ParseLldp(out.lldp).rows}
    BY DEF Lldp, Read, Failed
  <2> QED
    BY <1>2, <2>1
<1>4. cdp.read.rows \in Seq(Rows)
  <2>1. cdp.read.rows \in {<<>>, ParseCdp(out.cdp)}
    BY DEF Cdp, Read, Failed
  <2> QED
    BY <1>2, <2>1
<1>5. \/ Report(Type[d], out).rows = <<>>
      \/ Report(Type[d], out).rows = lldp.read.rows \o cdp.read.rows
  BY DEF Report, Read, Failed
<1> HIDE DEF lldp, cdp
<1>6. lldp.read.rows \o cdp.read.rows \in Seq(Rows)
  BY <1>3, <1>4, ConcatProperties
<1> QED
  BY <1>2, <1>5, <1>6 DEF out

(* A neighbor is taken for a device only by a name of that device, which   *)
(* no other device has; and a name that in any spelling is that of one     *)
(* device alone is found (resolve_remote_identity).                        *)
THEOREM IdentitiesAreExact ==
  ASSUME NEW hostname, IsFiniteSet(DOMAIN hostname), NEW raw
  PROVE  LET named == {d \in DOMAIN hostname : Lower[hostname[d]] \in {Lower[raw], Short[raw]}}
             found == Resolve(raw, hostname)
         IN /\ found # None =>
                 found \in named /\ \A d \in DOMAIN hostname \ {found} : hostname[d] # hostname[found]
            /\ \A d : named = {d} => found = d
<1> DEFINE named == {d \in DOMAIN hostname : Lower[hostname[d]] \in {Lower[raw], Short[raw]}}
           exact == {d \in DOMAIN hostname : hostname[d] = raw}
           folded == {d \in DOMAIN hostname : Lower[hostname[d]] = Lower[raw]}
           alias == {d \in DOMAIN hostname : Lower[hostname[d]] = Short[raw]}
           match == IF exact # {} THEN exact ELSE IF folded # {} THEN folded ELSE alias
           found == Resolve(raw, hostname)
<1>1. found = IF Cardinality(match) = 1 THEN CHOOSE d \in match : TRUE ELSE None
  BY DEF Resolve
<1>2. match \subseteq named
  OBVIOUS
<1>3. match = {} => named = {}
  OBVIOUS
<1>4. ASSUME NEW d \in match, NEW e \in DOMAIN hostname, hostname[e] = hostname[d] PROVE e \in match
  BY <1>4
<1>5. match \subseteq DOMAIN hostname
  OBVIOUS
<1> HIDE DEF match, found
<1>6. ASSUME found # None PROVE match = {found}
  <2>1. PICK d : match = {d}
    <3>1. Cardinality(match) = 1
      BY <1>1, <1>6
    <3>2. IsFiniteSet(match)
      BY <1>5, FS_Subset
    <3> QED
      BY <3>1, <3>2, FS_Singleton
  <2> QED
    BY <1>1, <1>6, <2>1
<1>7. ASSUME NEW d, named = {d} PROVE found = d
  <2>1. match = {d}
    BY <1>2, <1>3, <1>7
  <2>2. Cardinality(match) = 1
    BY <2>1, FS_Singleton
  <2> QED
    BY <1>1, <2>1, <2>2
<1>8. ASSUME found # None
      PROVE  found \in named /\ \A d \in DOMAIN hostname \ {found} : hostname[d] # hostname[found]
  <2>1. found \in match /\ match = {found}
    BY <1>6, <1>8
  <2> HIDE DEF named
  <2> QED
    BY <1>2, <1>4, <2>1
<1> HIDE DEF named
<1>9. \A d : named = {d} => found = d
  BY <1>7
<1> QED
  BY <1>8, <1>9 DEF named, found

(* One row is one observation, of one managed device.                      *)
LEMMA ObservationIs ==
  ASSUME NEW d \in Device, NEW row \in Rows, NEW hostname, DOMAIN hostname \subseteq Device
  PROVE  Observation(d, row, hostname) \in Observations
<1>1. Canonical[row.local] \in Interface /\ Canonical[row.port] \in Interface
  BY LinksAssumption DEF Rows
<1>2. Resolve(row.id, hostname) \in Device \cup {None}
  <2> DEFINE raw == row.id
             exact == {e \in DOMAIN hostname : hostname[e] = raw}
             folded == {e \in DOMAIN hostname : Lower[hostname[e]] = Lower[raw]}
             alias == {e \in DOMAIN hostname : Lower[hostname[e]] = Short[raw]}
             match == IF exact # {} THEN exact ELSE IF folded # {} THEN folded ELSE alias
  <2>1. Resolve(row.id, hostname) = IF Cardinality(match) = 1 THEN CHOOSE e \in match : TRUE ELSE None
    BY DEF Resolve
  <2>2. match \subseteq Device
    OBVIOUS
  <2> HIDE DEF match
  <2>3. Cardinality(match) = 1 => match # {}
    BY FS_EmptySet
  <2> QED
    BY <2>1, <2>2, <2>3
<1> QED
  BY <1>1, <1>2 DEF Observation, End, Observations, Ends

(* The observations of a device, as its tables are read.                   *)
ReadBy(outs, d) ==
  {Observation(d, row, Hostnames(outs)) : row \in Range(Reports(outs)[d].rows)}

LEMMA ObservedByIs ==
  ASSUME NEW outs \in Answers, NEW d \in Targets
  PROVE  /\ ObservedBy(outs, d) \in Seq(Observations)
         /\ Range(ObservedBy(outs, d)) = ReadBy(outs, d)
<1> DEFINE rows == Reports(outs)[d].rows
           seen(row) == Observation(d, row, Hostnames(outs))
           list == [j \in 1..Len(rows) |-> seen(rows[j])]
<1>1. d \in Device /\ outs[d] \in DOMAIN Outputs[d]
  BY DEF Answers, Targets
<1>2. rows = Report(Type[d], Outputs[d][outs[d]]).rows
  BY <1>1 DEF Reports, Reported
<1> HIDE DEF rows
<1>3. rows \in Seq(Rows)
  BY <1>1, <1>2, ReportRows
<1>4. DOMAIN Hostnames(outs) \subseteq Device
  BY DEF Hostnames, Targets
<1>5. \A j \in 1..Len(rows) : rows[j] \in Rows /\ seen(rows[j]) \in Observations
  BY <1>1, <1>3, <1>4, ObservationIs
<1>6. ObservedBy(outs, d) = list
  BY DEF ObservedBy, rows
<1>7. ReadBy(outs, d) = {seen(row) : row \in Range(rows)}
  BY DEF ReadBy, rows
<1> HIDE DEF seen
<1>8. list \in Seq(Observations)
  BY <1>3, <1>5
<1>9. Range(list) = {seen(row) : row \in Range(rows)}
  BY <1>3 DEF Range
<1> QED
  BY <1>6, <1>7, <1>8, <1>9

(* The observations of all devices, as their tables are read.              *)
AllRead(outs) == UNION {ReadBy(outs, d) : d \in Targets}

LEMMA ObservedSteps ==
  ASSUME NEW outs \in Answers
  PROVE  \E f : /\ Observed(outs) = f[Len(TargetOrder)] /\ f[0] = << >>
                /\ \A n \in 1..Len(TargetOrder) :
                     f[n] = f[n - 1] \o ObservedBy(outs, TargetOrder[n])
<1> DEFINE N == Len(TargetOrder)
           next(n) == ObservedBy(outs, TargetOrder[n])
           Made(f) == [n \in 0..N |-> IF n = 0 THEN << >> ELSE f[n - 1] \o next(n)]
           F == CHOOSE f : f = Made(f)
           none == << >>
           V == Seq(Observations)
           step == [n \in 1..N |-> [s \in V |-> s \o next(n)]]
<1>1. N \in Nat /\ \A n \in 1..N : TargetOrder[n] \in Targets
  BY TargetOrderIs
<1>2. Observed(outs) = F[N]
  BY DEF Observed
<1> HIDE DEF N
<1>3. \A n \in 1..N : next(n) \in Seq(Observations)
  BY <1>1, ObservedByIs
<1> HIDE DEF next
<1>4. none \in V /\ step \in [1..N -> [V -> V]]
  <2>1. \A n \in 1..N, s \in Seq(Observations) : s \o next(n) \in Seq(Observations)
    BY <1>3, ConcatProperties
  <2> QED
    BY <2>1
<1>5. /\ \A f \in [0..N -> V], n \in 1..N : n - 1 \in 0..N /\ f[n - 1] \in V
      /\ \A n \in 1..N, s \in V : step[n][s] = s \o next(n)
  <2> HIDE DEF V
  <2> QED
    BY <1>1
<1> HIDE DEF step, V, none
<1>6. PICK f \in [0..N -> V] : Recurs(f, N, none, step)
  BY <1>1, <1>4, Recursion
<1>7. f[0] = none /\ \A n \in 1..N : f[n] = f[n - 1] \o next(n)
  <2>1. f[0] = none /\ \A n \in 1..N : f[n] = step[n][f[n - 1]]
    BY <1>6 DEF Recurs
  <2> QED
    BY <1>5, <2>1
<1>8. f = Made(f)
  <2>1. \A n \in 0..N : n = 0 \/ (n # 0 /\ n \in 1..N)
    BY <1>1
  <2> QED
    BY <1>6, <1>7, <2>1 DEF none
<1>9. F = Made(F)
  <2> HIDE DEF Made
  <2> QED
    BY <1>8
<1> HIDE DEF F
<1>10. F[0] = << >> /\ \A n \in 1..N : F[n] = F[n - 1] \o next(n)
  <2>1. 0 \in 0..N /\ \A n \in 1..N : n \in 0..N /\ n # 0
    BY <1>1
  <2> QED
    BY <1>9, <2>1
<1> QED
  BY <1>2, <1>10 DEF N, next

LEMMA ObservedIs ==
  ASSUME NEW outs \in Answers
  PROVE  /\ Observed(outs) \in Seq(Observations)
         /\ Range(Observed(outs)) = AllRead(outs)
<1> DEFINE N == Len(TargetOrder)
           next(n) == ObservedBy(outs, TargetOrder[n])
           Shown(n) == UNION {ReadBy(outs, TargetOrder[i]) : i \in 1..n}
<1>1. /\ N \in Nat /\ \A n \in 1..N : TargetOrder[n] \in Targets
      /\ Range(TargetOrder) = Targets
  BY TargetOrderIs
<1>2. PICK f : Observed(outs) = f[N] /\ f[0] = << >> /\ \A n \in 1..N : f[n] = f[n - 1] \o next(n)
  BY ObservedSteps
<1>3. \A n \in 1..N : next(n) \in Seq(Observations) /\ Range(next(n)) = ReadBy(outs, TargetOrder[n])
  BY <1>1, ObservedByIs
<1>4. Shown(N) = AllRead(outs)
  <2>1. {TargetOrder[i] : i \in 1..N} = Targets
    BY <1>1, TargetOrderIs DEF Range
  <2> QED
    BY <2>1 DEF AllRead
<1> HIDE DEF N, next
<1> DEFINE Good == {n \in 0..N : f[n] \in Seq(Observations) /\ Range(f[n]) = Shown(n)}
<1>5. 0 \in Good
  <2>1. << >> \in Seq(Observations) /\ Range(<< >>) = {} /\ 0 \in 0..N /\ Shown(0) = {}
    BY <1>1 DEF Range
  <2> QED
    BY <1>2, <2>1
<1>6. ASSUME NEW n \in 1..N, n - 1 \in Good PROVE n \in Good
  <2> DEFINE prior == f[n - 1]
             more == next(n)
  <2>1. /\ prior \in Seq(Observations) /\ Range(prior) = Shown(n - 1)
        /\ more \in Seq(Observations) /\ Range(more) = ReadBy(outs, TargetOrder[n])
        /\ f[n] = prior \o more /\ n \in 0..N
    BY <1>1, <1>2, <1>3, <1>6
  <2> HIDE DEF prior, more
  <2>2. prior \o more \in Seq(Observations) /\ Range(prior \o more) = Range(prior) \cup Range(more)
    BY <2>1, ConcatProperties, RangeConcatenation
  <2>3. Shown(n) = Shown(n - 1) \cup ReadBy(outs, TargetOrder[n])
    <3>1. 1..n = (1..(n - 1)) \cup {n}
      BY <1>1
    <3> QED
      BY <3>1
  <2> QED
    BY <2>1, <2>2, <2>3
<1> HIDE DEF Good
<1>7. 0..N \subseteq Good
  BY <1>1, <1>5, <1>6, Induction
<1>8. N \in Good
  BY <1>1, <1>7
<1> QED
  BY <1>2, <1>4, <1>8 DEF Good

(* What was collected is an answer of its device.                          *)
Answered == \A d \in Targets : future[d].at = "collected" => future[d].out \in DOMAIN Outputs[d]

LEMMA AnswersStep == TypeOK /\ Answered /\ [Next]_vars => Answered'
<1> SUFFICES ASSUME TypeOK, Answered, [Next]_vars PROVE Answered'
  OBVIOUS
<1>t. future \in [Device -> FutureType]
  BY DEF TypeOK, FutureType, Progress, Outcome, Results
<1>1. CASE UNCHANGED future
  BY <1>1 DEF Answered
<1>2. ASSUME NEW e \in Device, WorkerStep(e) PROVE Answered'
  <2>1. CASE Collect(e)
    <3>1. PICK out \in DOMAIN Outputs[e] :
            future' = [future EXCEPT ![e].at = "collected", ![e].out = out]
      BY <2>1 DEF Collect
    <3> QED
      BY <3>1, <1>t, TargetsAreDevices DEF Answered, FutureType
  <2>2. CASE Start(e) \/ Open(e) \/ Login(e) \/ Fail(e)
    <3>1. PICK at \in {"opening", "login", "commands", "changed", "failed"} :
            future' = [future EXCEPT ![e].at = at]
      BY <2>2 DEF Start, Open, Login, Fail, Worker
    <3> QED
      BY <3>1, <1>t, TargetsAreDevices DEF Answered, FutureType
  <2> QED
    BY <1>2, <2>1, <2>2 DEF WorkerStep
<1>3. CASE Prepare
  BY <1>1, <1>3, TargetsAreDevices DEF Prepare, Submit, Answered, NoFuture
<1>4. CASE Exit
  BY <1>4, TargetsAreDevices DEF Exit, Answered, NoFuture
<1> QED
  BY <1>1, <1>2, <1>3, <1>4 DEF Next, MainStep, Discover, Collected, Close, CloseFails, Closed,
     Rebuild, Recover, Interrupt, vars

(* What the tables of every device tell, of an answer of each.             *)
SeenBy(outs, d) ==
  {Observation(d, row, Hostnames(outs)) : row \in RowsTold(Type[d], Outputs[d][outs[d]])}

Seen(outs) == UNION {SeenBy(outs, d) : d \in Targets}

LEMMA SeenIsRead ==
  ASSUME NEW outs \in Answers, \A d \in Targets : Reports(outs)[d].ok = TRUE
  PROVE  AllRead(outs) = Seen(outs)
<1>1. ASSUME NEW d \in Targets PROVE ReadBy(outs, d) = SeenBy(outs, d)
  <2> DEFINE out == Outputs[d][outs[d]]
  <2>1. outs[d] \in DOMAIN Outputs[d] /\ d \in Device
    BY DEF Answers, Targets
  <2>2. Reports(outs)[d] = Report(Type[d], out)
    BY <2>1 DEF Reports, Reported
  <2>3. out.lldp \in Seq(Lines) /\ out.cdp \in Seq(Lines)
    BY <2>1, OutputsAssumption
  <2> HIDE DEF out
  <2>4. Range(Reports(outs)[d].rows) = RowsTold(Type[d], out)
    BY <2>2, <2>3, RowsAreExact
  <2> QED
    BY <2>4 DEF ReadBy, SeenBy, out
<1> QED
  BY <1>1 DEF AllRead, Seen

(* The links that a set of observations tells.                             *)
Told(observations) == {{o.here, o.there} : o \in {seen \in observations : IsManaged(seen)}}

LEMMA LinksAreTold ==
  ASSUME NEW outs \in Answers, \A d \in Targets : Reports(outs)[d].ok = TRUE,
         Links[Observed(outs)].ok = TRUE
  PROVE  /\ Links[Observed(outs)].links = Told(Seen(outs))
         /\ \A l, m \in Told(Seen(outs)) : Cardinality(l) = 2 /\ (l # m => l \cap m = {})
         /\ \A o \in Seen(outs) : ~IsManaged(o) => o.here \notin UNION Told(Seen(outs))
<1> DEFINE o == Observed(outs)
<1>1. o \in Seq(Observations) /\ Range(o) = Seen(outs)
  BY ObservedIs, SeenIsRead
<1>2. /\ Links[o].links = {{o[i].here, o[i].there} : i \in Managed(o)}
      /\ \A l, m \in Links[o].links : Cardinality(l) = 2 /\ (l # m => l \cap m = {})
      /\ \A i \in DOMAIN o \ Managed(o) : o[i].here \notin UNION Links[o].links
  <2>1. Links[o].ok = TRUE
    OBVIOUS
  <2> HIDE DEF o
  <2> QED
    BY <1>1, <2>1, LinksAreExact
<1> HIDE DEF o
<1>3. Links[o].links = Told(Seen(outs))
  BY <1>1, <1>2 DEF Told, Managed, Range
<1>4. ASSUME NEW s \in Seen(outs), ~IsManaged(s) PROVE s.here \notin UNION Told(Seen(outs))
  <2>1. PICK i \in DOMAIN o : o[i] = s
    BY <1>1 DEF Range
  <2>2. i \notin Managed(o)
    BY <1>4, <2>1 DEF Managed
  <2> QED
    BY <1>2, <1>3, <2>1, <2>2
<1>5. \A l, m \in Told(Seen(outs)) : Cardinality(l) = 2 /\ (l # m => l \cap m = {})
  BY <1>2, <1>3
<1> QED
  BY <1>3, <1>4, <1>5 DEF o

(* A new candidate has exactly the links that the tables of all devices,   *)
(* of one attempt, tell of managed devices, whatever the devices answer:   *)
(* none is invented, lost or taken from another attempt.  No interface has *)
(* two links, and none that was also seen facing an unmanaged neighbor has *)
(* one (discover_topology, parse_lldp_neighbors, parse_cdp_neighbors,      *)
(* reconcile_links, _fail_on_link_ambiguity).                              *)
THEOREM CandidateIsExact ==
  Spec => [][candidate' \notin {candidate, None} =>
               LET seen == Seen(Collection)
               IN /\ candidate' = Told(seen)
                  /\ \A l, m \in Told(seen) : Cardinality(l) = 2 /\ (l # m => l \cap m = {})
                  /\ \A o \in seen : ~IsManaged(o) => o.here \notin UNION Told(seen)]_vars
<1>1. Init => Answered
  BY TargetsAreDevices DEF Init, Answered, NoFuture
<1>2. ASSUME Answered, [Next]_vars, candidate' \notin {candidate, None}
      PROVE  LET seen == Seen(Collection)
             IN /\ candidate' = Told(seen)
                /\ \A l, m \in Told(seen) : Cardinality(l) = 2 /\ (l # m => l \cap m = {})
                /\ \A o \in seen : ~IsManaged(o) => o.here \notin UNION Told(seen)
  <2>1. Rebuild
    BY <1>2, WorkerFrame DEF Next, MainStep, Discover, Prepare, Collected, Close, CloseFails, Closed,
       Recover, Interrupt, Exit, vars
  <2>2. Collection \in Answers
    <3>1. \A d \in Targets : future[d].out \in DOMAIN Outputs[d]
      BY <1>2, <2>1 DEF Rebuild, Uncollected, Answered
    <3> QED
      BY <3>1 DEF Collection, Answers
  <2>3. Rebuilt[Collection].ok = TRUE /\ candidate' = Rebuilt[Collection].links
    <3>1. Rebuilt[Collection].ok /\ candidate' = Rebuilt[Collection].links
      BY <1>2, <2>1 DEF Rebuild
    <3>2. Rebuilt[Collection].ok \in BOOLEAN
      <4>1. Observed(Collection) \in Seq(Observations)
        BY <2>2, ObservedIs
      <4>2. Links[Observed(Collection)].ok \in BOOLEAN
        BY <4>1 DEF Links
      <4> QED
        BY <2>2, <4>2 DEF Rebuilt
    <3> QED
      BY <3>1, <3>2
  <2>4. /\ Links[Observed(Collection)].ok = TRUE /\ candidate' = Links[Observed(Collection)].links
        /\ \A d \in Targets : Reports(Collection)[d].ok = TRUE
    <3> DEFINE outs == Collection
    <3>1. \A d \in Targets : Reports(outs)[d].ok \in BOOLEAN
      BY <2>2, TargetsAreDevices DEF Reports, Reported, Report, Read, Failed, Answers
    <3> HIDE DEF outs
    <3>2. outs \in Answers /\ Rebuilt[outs].ok = TRUE /\ candidate' = Rebuilt[outs].links
      BY <2>2, <2>3 DEF outs
    <3>3. /\ \A d \in Targets : Reports(outs)[d].ok
          /\ Rebuilt[outs] = Links[Observed(outs)]
      BY <3>2 DEF Rebuilt
    <3>4. \A d \in Targets : Reports(outs)[d].ok = TRUE
      BY <3>1, <3>3
    <3> QED
      BY <3>2, <3>3, <3>4 DEF outs
  <2> DEFINE outs == Collection
  <2> HIDE DEF outs
  <2>5. outs \in Answers /\ Links[Observed(outs)].ok = TRUE
        /\ candidate' = Links[Observed(outs)].links
        /\ \A d \in Targets : Reports(outs)[d].ok = TRUE
    BY <2>2, <2>4 DEF outs
  <2> QED
    BY <2>5, LinksAreTold DEF outs
<1>3. Answered /\ [Next]_vars
        => [candidate' \notin {candidate, None} =>
               LET seen == Seen(Collection)
               IN /\ candidate' = Told(seen)
                  /\ \A l, m \in Told(seen) : Cardinality(l) = 2 /\ (l # m => l \cap m = {})
                  /\ \A o \in seen : ~IsManaged(o) => o.here \notin UNION Told(seen)]_vars
  BY <1>2
<1> QED
  BY <1>1, <1>3, TypeInit, TypeStep, AnswersStep, PTL DEF Spec
=============================================================================
