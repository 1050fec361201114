-------------------------- MODULE ManagedAuthProofs --------------------------
(***************************************************************************)
(* For any devices, budget and number of calls, and whatever the hops ask, *)
(* refuse and print, at any moment: which hop reads the secret that a      *)
(* login types, what a success means for the passwords that were refused,  *)
(* and how often a jump host refuses the password of one command.          *)
(***************************************************************************)
EXTENDS ManagedAuth, SequenceTheorems, FiniteSetTheorems, TLAPS

(* What the login has typed so far, and what its screen shows.             *)
Secrets == {typed[i].secret : i \in DOMAIN typed}
OnScreen == Range(screen)

(* The steps at which a secret cannot have been typed yet.                 *)
BeforeJump == {"first", "jump", "recheck", "send_jump"}
BeforeName == BeforeJump \cup {"after_jump", "await", "name", "send_name"}
BeforeTarget == BeforeName \cup {"renew", "target", "send_target"}

(* Where a login is in the code, and which secrets it has typed by then.   *)
StepInv ==
  /\ call.new = TRUE => call.at # "idle"
  /\ device.flow # "managed" /\ call.at # "idle" => call.new = TRUE
  /\ device.flow = "probe" => call.at \in {"idle", "poll", "send_jump"} /\ Secrets \subseteq {"jump"}
  /\ call.at = "poll" => device.flow = "probe"
  /\ call.at \in {"await", "prompt"} => Discovery
  /\ call.at \in {"send_name", "renew"} => device.flow = "ios"
  /\ call.at # "idle" => call.result = "none"
  /\ call.at \in BeforeJump => typed = <<>>
  /\ call.at \in BeforeName => "name" \notin Secrets
  /\ call.at \in BeforeTarget => "target" \notin Secrets
  /\ typed = <<>> => refusals.login = 0

(* What the login has read when it is about to answer: the line on which   *)
(* it decides to type, which may be out of date by the time it types.      *)
TextInv ==
  /\ call.at \in {"recheck", "send_jump", "after_jump"} => LastLine(call.text) = "jump"
  /\ call.at = "send_name" => LastLine(call.text) = "name"
  /\ call.at = "send_target" => AsksPassword(call.text) /\ Answerable(LastLine(call.text))
  /\ call.at \in {"name", "target"} /\ device.flow = "managed" /\ typed # <<>> => AsksPassword(call.text)

(* In a session that the login opened, a prompt on the screen tells where  *)
(* ssh is, as long as the prompt's secret has not been typed: the hop      *)
(* still waits for it, or ssh has ended. So a line that was read before it *)
(* is answered is enough. A refused password leaves ssh at a prompt again. *)
HopInv ==
  call.new = TRUE =>
  /\ ssh.phase \notin {"off", "asks_inner"} /\ "other" \notin OnScreen
  /\ device.jump = FALSE => ssh.phase \notin {"to_jump", "asks_jump", "checks_jump"} /\ "jump" \notin OnScreen
  /\ device.jump = TRUE => ssh.phase # "asks_name" /\ "name" \notin OnScreen
  /\ ssh.phase = "checks_jump" => "jump" \in Secrets
  /\ ssh.phase = "checks_target" => "target" \in Secrets
  /\ "jump" \in OnScreen \ Secrets => ssh.phase \in {"asks_jump", "ended"}
  /\ "name" \in OnScreen \ Secrets => ssh.phase \in {"asks_name", "ended"}
  /\ "target" \in OnScreen \ Secrets => ssh.phase \in {"asks_target", "ended"}
  /\ device.jump = FALSE /\ "vague" \in OnScreen /\ "target" \notin Secrets
       => ssh.phase \in {"asks_target", "ended"}
  /\ "shell" \in OnScreen => ssh.phase \in {"shell", "ended"} /\ refusals.login = 0
  /\ refusals.login # 0 => ssh.phase \in {"asks_jump", "asks_target", "ended"}
  /\ refusals.login # 0 /\ "target" \notin Secrets => ssh.phase \in {"asks_jump", "ended"}

(* A refusal stays on the screen, and after the jump password it is among  *)
(* the lines that have come since.                                         *)
DenialInv ==
  refusals.login # 0 =>
  /\ call.at # "idle" => OnScreen \cap Denials # {}
  /\ call.at = "after_jump" => \E i \in (Len(call.text) + 1)..Len(screen) : screen[i] \in Denials

(* The refusals of one command are those of probes that ended without      *)
(* reading the answer, and at most one that was read: it stops the         *)
(* command's probes.                                                       *)
ProbeInv ==
  device.flow = "probe" =>
  /\ call.at = "idle" => ssh.phase = "off"
  /\ ssh.phase \in {"to_jump", "asks_jump", "checks_jump"} => ssh.reached = FALSE
  /\ call.at # "idle" /\ refusals.login # 0 => ssh.reached = FALSE /\ LastLine(screen) \notin {"target", "vague", "other"}
  /\ call.at # "idle" => run.failed = FALSE /\ refusals.command <= refusals.unread + refusals.login
  /\ call.at = "idle" /\ run.failed = FALSE => refusals.command <= refusals.unread
  /\ run.failed = TRUE => refusals.command <= refusals.unread + 1

(* A call ends with at most one answer unread.                             *)
CountInv == refusals.unread + (IF call.at = "idle" THEN 0 ELSE 1) <= calls

-----------------------------------------------------------------------------
(* Sequences: what is on a screen that has grown, and how it ends.         *)

LEMMA PrefixMeans ==
  ASSUME NEW S, NEW s \in Seq(S), NEW t \in Seq(S)
  PROVE  IsPrefix(t, s) <=> Len(t) <= Len(s) /\ \A i \in 1..Len(t) : t[i] = s[i]
<1>1. ASSUME Len(t) <= Len(s)
      PROVE  /\ SubSeq(t, 1, Len(t)) = t
             /\ SubSeq(s, 1, Len(t)) \in Seq(S) /\ Len(SubSeq(s, 1, Len(t))) = Len(t)
             /\ \A i \in 1..Len(t) : SubSeq(s, 1, Len(t))[i] = s[i]
  BY <1>1
<1>2. ASSUME Len(t) <= Len(s), \A i \in 1..Len(t) : t[i] = s[i]
      PROVE  SubSeq(s, 1, Len(t)) = t
  BY <1>1, <1>2, SeqEqual
<1>3. ASSUME Len(t) <= Len(s), SubSeq(s, 1, Len(t)) = t, NEW i \in 1..Len(t)
      PROVE  t[i] = s[i]
  BY <1>1, <1>3
<1> QED
  BY <1>1, <1>2, <1>3, Zenon DEF IsPrefix

LEMMA PrefixOfSelf ==
  ASSUME NEW S, NEW s \in Seq(S)
  PROVE  IsPrefix(s, s) /\ IsPrefix(<<>>, s)
<1>1. IsPrefix(s, s)
  BY PrefixMeans
<1>2. ASSUME NEW t \in Seq(S), Len(t) = 0 PROVE IsPrefix(t, s)
  <2>1. Len(s) \in Nat
    BY EmptySeq
  <2>2. Len(t) <= Len(s) /\ \A i \in 1..Len(t) : t[i] = s[i]
    BY <1>2, <2>1
  <2> QED
    BY <2>2, PrefixMeans
<1> QED
  BY <1>1, <1>2, EmptySeq

LEMMA PrefixGrows ==
  ASSUME NEW S, NEW s \in Seq(S), NEW t \in Seq(S), NEW u \in Seq(S), IsPrefix(t, s)
  PROVE  IsPrefix(t, s \o u)
<1>1. Len(t) <= Len(s) /\ \A i \in 1..Len(t) : t[i] = s[i]
  BY PrefixMeans
<1>2. s \o u \in Seq(S) /\ Len(s) <= Len(s \o u) /\ \A i \in 1..Len(s) : (s \o u)[i] = s[i]
  BY ConcatProperties
<1>3. Len(t) <= Len(s \o u) /\ \A i \in 1..Len(t) : t[i] = (s \o u)[i]
  BY <1>1, <1>2
<1> QED
  BY <1>2, <1>3, PrefixMeans

LEMMA RangeGrows ==
  ASSUME NEW S, NEW s \in Seq(S), NEW u \in Seq(S)
  PROVE  Range(s \o u) = Range(s) \cup Range(u)
<1> DEFINE v == s \o u
<1>1. /\ v \in Seq(S) /\ Len(v) = Len(s) + Len(u) /\ Len(s) \in Nat /\ Len(u) \in Nat
      /\ \A i \in 1..Len(s) : v[i] = s[i]
      /\ \A i \in 1..Len(v) : i > Len(s) => v[i] = u[i - Len(s)]
  BY ConcatProperties
<1> HIDE DEF v
<1>2. DOMAIN v = 1..Len(v) /\ DOMAIN s = 1..Len(s) /\ DOMAIN u = 1..Len(u)
  BY <1>1
<1>3. ASSUME NEW i \in 1..Len(v) PROVE v[i] \in Range(s) \cup Range(u)
  <2>1. CASE i <= Len(s)
    BY <2>1, <1>1, <1>2 DEF Range
  <2>2. CASE i > Len(s)
    <3>1. i - Len(s) \in 1..Len(u)
      BY <2>2, <1>1
    <3>2. v[i] = u[i - Len(s)]
      BY <2>2, <1>1
    <3> QED
      BY <3>1, <3>2, <1>2 DEF Range
  <2> QED
    BY <2>1, <2>2, <1>1
<1>4. ASSUME NEW i \in 1..Len(s) PROVE s[i] \in Range(v)
  <2>1. i \in 1..Len(v) /\ v[i] = s[i]
    BY <1>1
  <2> QED
    BY <2>1, <1>2 DEF Range
<1>5. ASSUME NEW i \in 1..Len(u) PROVE u[i] \in Range(v)
  <2>1. Len(s) + i \in 1..Len(v) /\ Len(s) + i > Len(s) /\ (Len(s) + i) - Len(s) = i
    BY <1>1
  <2> QED
    BY <2>1, <1>1, <1>2 DEF Range
<1>6. Range(v) = Range(s) \cup Range(u)
  BY <1>2, <1>3, <1>4, <1>5 DEF Range
<1> QED
  BY <1>6 DEF v

LEMMA RangeOfFew ==
  /\ Range(<<>>) = {}
  /\ \A a : Range(<<a>>) = {a}
  /\ \A a, b : Range(<<a, b>>) = {a, b}
BY DEF Range

(* The last line of what was read is a line of the screen.                 *)
LEMMA LastIsShown ==
  ASSUME NEW S, NEW s \in Seq(S), NEW t \in Seq(S), IsPrefix(t, s), LastLine(t) # "blank"
  PROVE  LastLine(t) \in Range(s)
<1>1. t # <<>> /\ LastLine(t) = t[Len(t)]
  BY DEF LastLine
<1>2. Len(t) \in 1..Len(t) /\ Len(s) \in Nat
  BY <1>1, EmptySeq
<1>3. Len(t) \in 1..Len(s) /\ t[Len(t)] = s[Len(t)]
  BY <1>2, PrefixMeans
<1> QED
  BY <1>1, <1>3 DEF Range

(* How often a line occurs, and whether it has occurred again.             *)
LEMMA Counts ==
  ASSUME NEW S, NEW s \in Seq(S), NEW L
  PROVE  /\ IsFiniteSet({i \in 1..Len(s) : s[i] \in L})
         /\ Count(s, L) = Cardinality({i \in 1..Len(s) : s[i] \in L})
         /\ Count(s, L) \in Nat
         /\ Count(s, L) > 0 <=> Range(s) \cap L # {}
<1> DEFINE A == {i \in 1..Len(s) : s[i] \in L}
<1>1. Count(s, L) = Cardinality(A)
  BY DEF Count, Quantify
<1>2. IsFiniteSet(1..Len(s)) /\ A \in SUBSET (1..Len(s))
  BY FS_Interval
<1>3. IsFiniteSet(A)
  BY <1>2, FS_Subset
<1>4. A = {} <=> Range(s) \cap L = {}
  BY DEF Range
<1> HIDE DEF A
<1>5. Cardinality(A) \in Nat /\ (Cardinality(A) = 0 <=> A = {})
  BY <1>3, FS_CardinalityType, FS_EmptySet
<1>6. Count(s, L) \in Nat /\ (Count(s, L) > 0 <=> Range(s) \cap L # {})
  BY <1>1, <1>4, <1>5
<1> QED
  BY <1>1, <1>3, <1>6 DEF A

(* A line after the prefix that was read counts once more.                 *)
LEMMA CountsMore ==
  ASSUME NEW S, NEW s \in Seq(S), NEW t \in Seq(S), IsPrefix(t, s), NEW L,
         NEW j \in (Len(t) + 1)..Len(s), s[j] \in L
  PROVE  Count(s, L) > Count(t, L)
<1> DEFINE A == {i \in 1..Len(s) : s[i] \in L}
           B == {i \in 1..Len(t) : t[i] \in L}
<1>1. /\ IsFiniteSet(A) /\ Count(s, L) = Cardinality(A) /\ Count(s, L) \in Nat
      /\ IsFiniteSet(B) /\ Count(t, L) = Cardinality(B) /\ Count(t, L) \in Nat
  BY Counts
<1>2. Len(t) \in Nat /\ Len(s) \in Nat /\ Len(t) <= Len(s) /\ \A i \in 1..Len(t) : t[i] = s[i]
  BY PrefixMeans
<1>3. B \in SUBSET A /\ j \in A /\ j \notin B
  BY <1>2
<1> HIDE DEF A, B
<1>4. Cardinality(B) <= Cardinality(A) /\ Cardinality(A) # Cardinality(B)
  BY <1>1, <1>3, FS_Subset
<1> QED
  BY <1>1, <1>4

-----------------------------------------------------------------------------
(* Types.                                                                  *)

LEMMA Shapes ==
  /\ {Budget, MaxCalls, MaxTries, MaxNotes, MaxInputs} \subseteq Nat
  /\ Idle \in [at : Steps, new : BOOLEAN, text : Seq(Lines), result : {"none", "ok", "failed"}]
  /\ <<>> \in Seq(Lines)
  /\ \A l \in Lines : <<l>> \in Seq(Lines)
  /\ \A k, l \in Lines : <<k, l>> \in Seq(Lines)
  /\ [phase |-> "off", tries |-> 0, reached |-> FALSE] \in
        [phase : Phases, tries : 0..MaxTries, reached : BOOLEAN]
BY AuthAssumption DEF Idle, Steps, Phases

LEMMA InitTypes == Init => TypeOK
BY Shapes DEF Init, TypeOK, Idle

Call == [at : Steps, new : BOOLEAN, text : Seq(Lines), result : {"none", "ok", "failed"}]
Entries == [secret : {"jump", "target", "name"},
            reader : {"jump", "target", "name", "inner", "shell", "ahead"}]
Ssh == [phase : Phases, tries : 0..MaxTries, reached : BOOLEAN]

(* How a step may leave the call, and the connection.                      *)
CallTypes == call \in Call /\ (IsPrefix(call.text, screen) \/ call.at = "idle")
EnvTypes == ssh \in Ssh /\ screen \in Seq(Lines)
RestTypes ==
  /\ device \in Devices
  /\ typed \in Seq(Entries)
  /\ run \in [sends : 0..Budget, failed : BOOLEAN]
  /\ refusals \in [login : 0..1, command : Nat, unread : 0..MaxCalls]
  /\ calls \in 0..MaxCalls /\ notes \in 0..MaxNotes /\ inputs \in 0..MaxInputs

LEMMA TypeParts ==
  /\ TypeOK => CallTypes /\ EnvTypes /\ RestTypes
  /\ CallTypes' /\ EnvTypes' /\ RestTypes' => TypeOK'
BY DEF TypeOK, CallTypes, EnvTypes, RestTypes, Call, Ssh, Entries

(* The ways in which a step moves the call keep its type.                  *)
LEMMA StepTypes ==
  ASSUME CallTypes, EnvTypes, UNCHANGED env, NEW step \in Steps
  PROVE  /\ EnvTypes'
         /\ \A result \in {"ok", "failed"} : Return(result) => CallTypes'
         /\ Goto(step) /\ call.at # "idle" => CallTypes'
         /\ GotoWith(step, screen) => CallTypes'
         /\ GotoWith(step, call.text) /\ call.at # "idle" => CallTypes'
<1>1. EnvTypes' /\ screen' = screen /\ screen \in Seq(Lines)
  BY DEF EnvTypes, env
<1>2. ASSUME NEW result \in {"ok", "failed"}, Return(result) PROVE CallTypes'
  BY <1>2, Shapes DEF Return, CallTypes, Call, Idle
<1>3. ASSUME Goto(step), call.at # "idle" PROVE CallTypes'
  BY <1>1, <1>3 DEF Goto, CallTypes, Call
<1>4. ASSUME GotoWith(step, screen) PROVE CallTypes'
  BY <1>1, <1>4, PrefixOfSelf DEF GotoWith, CallTypes, Call
<1>5. ASSUME GotoWith(step, call.text), call.at # "idle" PROVE CallTypes'
  BY <1>1, <1>5 DEF GotoWith, CallTypes, Call
<1> QED
  BY <1>1, <1>2, <1>3, <1>4, <1>5

LEMMA QuitTypes ==
  ASSUME Quit, NEW result \in {"ok", "failed"}, Return(result)
  PROVE  EnvTypes' /\ CallTypes'
BY Shapes DEF Quit, Return, EnvTypes, CallTypes, Call, Ssh, Idle

LEMMA FailTypes ==
  ASSUME CallTypes, EnvTypes, Fail
  PROVE  EnvTypes' /\ CallTypes'
<1>1. CASE Return("failed") /\ Quit
  BY <1>1, QuitTypes
<1>2. CASE Return("failed") /\ UNCHANGED env
  BY <1>2, StepTypes DEF Steps
<1> QED
  BY <1>1, <1>2 DEF Fail

(* Who reads a line that is typed, phase by phase.                         *)
LEMMA ReaderIs ==
  /\ ssh.phase = "asks_jump" => Reader = "jump"
  /\ ssh.phase = "asks_target" => Reader = "target"
  /\ ssh.phase = "asks_name" => Reader = "name"
  /\ ssh.phase = "asks_inner" => Reader = "inner"
  /\ ssh.phase = "shell" => Reader = "shell"
  /\ ssh.phase \notin {"asks_jump", "asks_target", "asks_name", "asks_inner", "shell"}
        => Reader = "ahead"
BY DEF Reader

LEMMA TypesTypes ==
  ASSUME CallTypes, EnvTypes, RestTypes, call.at # "idle",
         NEW secret \in {"jump", "target", "name"}, NEW step \in Steps,
         Types(secret, step, call.text), UNCHANGED <<device, run, refusals, calls, notes, inputs>>
  PROVE  EnvTypes' /\ CallTypes' /\ RestTypes'
<1>1. CASE Fail /\ UNCHANGED typed
  BY <1>1, FailTypes DEF RestTypes
<1>2. CASE /\ typed' = Append(typed, [secret |-> secret, reader |-> Reader])
           /\ ssh' = Answered /\ GotoWith(step, call.text) /\ UNCHANGED screen
  <2>1. [secret |-> secret, reader |-> Reader] \in Entries
    BY ReaderIs DEF Entries
  <2>2. Answered \in Ssh
    BY DEF Answered, EnvTypes, Ssh, Phases
  <2>3. EnvTypes' /\ CallTypes'
    BY <1>2, <2>2 DEF EnvTypes, CallTypes, Call, GotoWith
  <2>4. typed' \in Seq(Entries)
    BY <1>2, <2>1 DEF RestTypes
  <2> QED
    BY <2>3, <2>4 DEF RestTypes
<1> QED
  BY <1>1, <1>2 DEF Types

(* A login goes on or ends, with everything else as it was.                *)
Keeps == UNCHANGED <<device, typed, run, refusals, calls, notes, inputs>>

LEMMA KeepsTypes ==
  ASSUME RestTypes, Keeps
  PROVE  RestTypes'
BY DEF Keeps, RestTypes

LEMMA LoginKeepsTypes ==
  ASSUME TypeOK, CountInv, Login
  PROVE  TypeOK'
<1> USE TypeParts
<1>1. CallTypes /\ EnvTypes /\ RestTypes
  OBVIOUS
<1>2. call.at # "idle"
  BY DEF Login, First, JumpStage, Recheck, SendJump, AfterJump, Await, NameStage, SendName,
         Renew, TargetStage, SendTarget, Settle, AtPrompt, PollRefused, PollAsked, PollEnds
<1>3. ASSUME NEW step \in Steps, UNCHANGED env, Keeps,
             Goto(step) \/ GotoWith(step, screen)
      PROVE  TypeOK'
  BY <1>1, <1>2, <1>3, StepTypes, KeepsTypes
<1>4. ASSUME Keeps, Fail \/ Succeed PROVE TypeOK'
  <2>1. CASE Fail
    BY <1>1, <1>4, <2>1, FailTypes, KeepsTypes
  <2>2. CASE Succeed
    BY <1>1, <1>4, <2>2, StepTypes, KeepsTypes DEF Succeed, Steps
  <2> QED
    BY <1>4, <2>1, <2>2
<1>5. ASSUME NEW secret \in {"jump", "target", "name"}, NEW step \in Steps,
             Types(secret, step, call.text), UNCHANGED <<device, run, refusals, calls, notes, inputs>>
      PROVE  TypeOK'
  BY <1>1, <1>2, <1>5, TypesTypes
<1> HIDE TypeParts
<1> USE DEF Unmoved, Keeps
<1>6. CASE First
  BY <1>3, <1>4, <1>6, Zenon DEF First, Steps
<1>7. CASE JumpStage
  BY <1>3, <1>4, <1>7 DEF JumpStage, Steps
<1>8. CASE Recheck
  BY <1>3, <1>4, <1>8 DEF Recheck, Steps
<1>9. CASE SendJump
  BY <1>5, <1>9 DEF SendJump, Steps
<1>10. CASE AfterJump
  BY <1>3, <1>4, <1>10 DEF AfterJump, Steps
<1>11. CASE Await
  BY <1>3, <1>4, <1>11 DEF Await, Steps
<1>12. CASE NameStage
  BY <1>3, <1>4, <1>12 DEF NameStage, Steps
<1>13. CASE SendName
  BY <1>5, <1>13 DEF SendName, Steps
<1>14. CASE Renew
  BY <1>3, <1>4, <1>14 DEF Renew, Steps
<1>15. CASE TargetStage
  BY <1>3, <1>4, <1>15 DEF TargetStage, Steps
<1>16. CASE SendTarget
  BY <1>5, <1>16 DEF SendTarget, Steps
<1>17. CASE Settle
  BY <1>3, <1>4, <1>17 DEF Settle, Steps
<1>18. CASE AtPrompt
  BY <1>3, <1>4, <1>18 DEF AtPrompt, Steps
<1>19. CASE PollRefused
  <2>1. EnvTypes' /\ CallTypes'
    BY <1>19, QuitTypes DEF PollRefused, Stop
  <2>2. RestTypes'
    BY <1>1, <1>19 DEF PollRefused, RestTypes
  <2> QED
    BY <2>1, <2>2, TypeParts
<1>20. CASE PollAsked
  <2>1. CASE run' = [run EXCEPT !.sends = @ + 1] /\ MayOffer
             /\ GotoWith("send_jump", screen) /\ UNCHANGED env
    <3>1. EnvTypes' /\ CallTypes'
      BY <1>1, <2>1, StepTypes DEF Steps
    <3>2. run' \in [sends : 0..Budget, failed : BOOLEAN]
      <4>1. run.sends \in Nat /\ Budget \in Nat /\ run.sends + 1 <= Budget
        BY <1>1, <2>1, Shapes DEF RestTypes, MayOffer
      <4>2. run.sends + 1 \in 0..Budget
        BY <4>1
      <4> QED
        BY <1>1, <2>1, <4>2 DEF RestTypes
    <3>3. RestTypes'
      BY <1>1, <1>20, <3>2 DEF PollAsked, RestTypes
    <3> QED
      BY <3>1, <3>3, TypeParts
  <2>2. CASE Stop /\ UNCHANGED run
    <3>1. EnvTypes' /\ CallTypes'
      BY <2>2, QuitTypes DEF Stop
    <3>2. RestTypes'
      BY <1>1, <1>20, <2>2 DEF PollAsked, RestTypes
    <3> QED
      BY <3>1, <3>2, TypeParts
  <2> QED
    BY <1>20, <2>1, <2>2 DEF PollAsked
<1>21. CASE PollEnds
  <2>1. EnvTypes' /\ CallTypes'
    BY <1>21, QuitTypes DEF PollEnds
  <2>2. refusals.unread + 1 <= MaxCalls
    BY <1>1, <1>2, Shapes DEF CountInv, RestTypes
  <2>3. refusals' \in [login : 0..1, command : Nat, unread : 0..MaxCalls]
    BY <1>1, <1>21, <2>2 DEF PollEnds, RestTypes
  <2>4. RestTypes'
    BY <1>1, <1>21, <2>3 DEF PollEnds, RestTypes
  <2> QED
    BY <2>1, <2>4, TypeParts
<1> QED
  BY <1>6, <1>7, <1>8, <1>9, <1>10, <1>11, <1>12, <1>13, <1>14, <1>15, <1>16, <1>17, <1>18,
     <1>19, <1>20, <1>21 DEF Login

(* What the hops print is added to the screen.                             *)
LEMMA MovesTypes ==
  ASSUME CallTypes, EnvTypes, UNCHANGED call, NEW lines \in Seq(Lines), NEW phase \in Phases,
         \/ Moves(phase, lines)
         \/ /\ screen' = screen \o lines
            /\ \E n \in 0..MaxTries : ssh' = [ssh EXCEPT !.phase = phase, !.tries = n]
         \/ screen' = screen \o lines /\ UNCHANGED ssh
  PROVE  EnvTypes' /\ CallTypes'
<1>1. ssh' \in Ssh
  <2>1. CASE Moves(phase, lines)
    BY <2>1 DEF Moves, EnvTypes, Ssh
  <2>2. CASE \E n \in 0..MaxTries : ssh' = [ssh EXCEPT !.phase = phase, !.tries = n]
    BY <2>2 DEF EnvTypes, Ssh
  <2>3. CASE UNCHANGED ssh
    BY <2>3 DEF EnvTypes
  <2> QED
    BY <2>1, <2>2, <2>3
<1>2. screen' = screen \o lines
  BY DEF Moves
<1>3. screen \in Seq(Lines) /\ call.text \in Seq(Lines)
  BY DEF EnvTypes, CallTypes, Call
<1>4. screen' \in Seq(Lines)
  BY <1>2, <1>3, ConcatProperties
<1>5. IsPrefix(call.text, screen) => IsPrefix(call.text, screen')
  BY <1>2, <1>3, PrefixGrows
<1> QED
  BY <1>1, <1>4, <1>5 DEF EnvTypes, CallTypes

LEMMA HopsKeepTypes ==
  ASSUME TypeOK, Hops
  PROVE  TypeOK'
<1>1. CallTypes /\ EnvTypes /\ RestTypes
  BY TypeParts
<1>2. UNCHANGED <<device, call, typed, run, calls, inputs>>
  BY DEF Hops, AskJump, AskTarget, Accept, Refuse, Disconnect, Note, Others
<1>3. EnvTypes' /\ CallTypes'
  <2>1. CASE AskJump
    <3>1. PICK phase \in Phases, lines \in Seq(Lines) : Moves(phase, lines)
      BY <2>1, Shapes DEF AskJump, Phases, Lines, Prompts
    <3> QED
      BY <1>1, <1>2, <3>1, MovesTypes
  <2>2. CASE AskTarget
    <3>1. PICK phase \in Phases, lines \in Seq(Lines) : Moves(phase, lines)
      BY <2>2, Shapes DEF AskTarget, Phases, Lines, Prompts
    <3> QED
      BY <1>1, <1>2, <3>1, MovesTypes
  <2>3. CASE Accept
    <3>1. PICK phase \in Phases, lines \in Seq(Lines) : Moves(phase, lines)
      BY <2>3, Shapes DEF Accept, Phases, Lines, Prompts
    <3> QED
      BY <1>1, <1>2, <3>1, MovesTypes
  <2>4. CASE Refuse
    <3> DEFINE jump == ssh.phase = "checks_jump"
    <3>1. CASE /\ ssh.tries + 1 < MaxTries
               /\ \E p \in IF jump THEN {"jump"} ELSE {"target", "vague"} :
                     screen' = screen \o <<"denied", p>>
               /\ ssh' = [ssh EXCEPT !.phase = IF jump THEN "asks_jump" ELSE "asks_target",
                                     !.tries = @ + 1]
      <4>1. PICK p \in Lines : screen' = screen \o <<"denied", p>>
        BY <3>1 DEF Lines, Prompts
      <4>2. <<"denied", p>> \in Seq(Lines)
        BY Shapes DEF Lines, Denials
      <4>3. ssh.tries + 1 \in 0..MaxTries
        BY <1>1, <3>1, Shapes DEF EnvTypes, Ssh
      <4>4. PICK phase \in Phases : ssh' = [ssh EXCEPT !.phase = phase, !.tries = ssh.tries + 1]
        BY <3>1 DEF Phases
      <4>5. \E n \in 0..MaxTries : ssh' = [ssh EXCEPT !.phase = phase, !.tries = n]
        BY <4>3, <4>4
      <4> QED
        BY <1>1, <1>2, <4>1, <4>2, <4>5, MovesTypes
    <3>2. CASE Moves("ended", <<IF jump THEN "jump_denied" ELSE "denied">>)
      <4>1. PICK lines \in Seq(Lines) : Moves("ended", lines)
        BY <3>2, Shapes DEF Lines, Denials
      <4> QED
        BY <1>1, <1>2, <4>1, MovesTypes DEF Phases
    <3> QED
      BY <2>4, <3>1, <3>2 DEF Refuse
  <2>5. CASE Disconnect
    <3>1. PICK lines \in Seq(Lines) : Moves("ended", lines)
      BY <2>5, Shapes DEF Disconnect, Lines, Denials
    <3> QED
      BY <1>1, <1>2, <3>1, MovesTypes DEF Phases
  <2>6. CASE Note
    <3>1. screen' = screen \o <<"note">> /\ UNCHANGED ssh
      BY <1>1, <2>6 DEF Note, EnvTypes
    <3>2. <<"note">> \in Seq(Lines)
      BY Shapes DEF Lines
    <3> QED
      BY <1>1, <1>2, <3>1, <3>2, MovesTypes DEF Phases
  <2> QED
    BY <2>1, <2>2, <2>3, <2>4, <2>5, <2>6 DEF Hops
<1>4. refusals' \in [login : 0..1, command : Nat, unread : 0..MaxCalls]
  <2>1. CASE Refuse
    <3>1. PICK login \in 0..1, command \in Nat :
            refusals' = [refusals EXCEPT !.login = login, !.command = command]
      <4>1. refusals.command \in Nat /\ refusals.command + 1 \in Nat
        BY <1>1 DEF RestTypes
      <4>2. \E login \in 0..1 : (IF typed = <<>> THEN 0 ELSE 1) = login
        OBVIOUS
      <4>3. \E command \in Nat :
              (IF ssh.phase = "checks_jump" THEN refusals.command + 1 ELSE refusals.command) = command
        BY <4>1
      <4> QED
        BY <2>1, <4>2, <4>3, Zenon DEF Refuse
    <3> QED
      BY <1>1, <3>1 DEF RestTypes
  <2>2. CASE UNCHANGED refusals
    BY <1>1, <2>2 DEF RestTypes
  <2> QED
    BY <2>1, <2>2 DEF Hops, AskJump, AskTarget, Accept, Disconnect, Note
<1>5. notes' \in 0..MaxNotes
  <2>1. CASE Note
    BY <1>1, <2>1, Shapes DEF Note, RestTypes
  <2>2. CASE UNCHANGED notes
    BY <1>1, <2>2 DEF RestTypes
  <2> QED
    BY <2>1, <2>2 DEF Hops, AskJump, AskTarget, Accept, Disconnect, Refuse
<1> QED
  BY <1>1, <1>2, <1>3, <1>4, <1>5, TypeParts DEF RestTypes

LEMMA NextKeepsTypes ==
  ASSUME TypeOK, CountInv, [Next]_vars
  PROVE  TypeOK' /\ CountInv'
<1>1. CallTypes /\ EnvTypes /\ RestTypes
  BY TypeParts
<1>2. CASE UNCHANGED vars
  BY <1>1, <1>2, TypeParts DEF vars, env, CallTypes, EnvTypes, RestTypes, CountInv
<1>3. CASE Open
  <2>1. calls + 1 \in 0..MaxCalls
    BY <1>1, <1>3, Shapes DEF Open, RestTypes
  <2>2. typed' \in Seq(Entries) /\ refusals' \in [login : 0..1, command : Nat, unread : 0..MaxCalls]
    BY <1>1, <1>3 DEF Open, RestTypes
  <2>3. RestTypes'
    BY <1>1, <1>3, <2>1, <2>2 DEF Open, RestTypes
  <2>4. CountInv'
    <3>1. refusals'.unread = refusals.unread /\ calls' = calls + 1 /\ call.at = "idle"
      BY <1>1, <1>3 DEF Open, RestTypes
    <3> QED
      BY <1>1, <3>1 DEF CountInv, RestTypes
  <2>5. CASE Return("failed") /\ UNCHANGED env
    <3>1. EnvTypes' /\ CallTypes'
      BY <1>1, <2>5, StepTypes DEF Steps
    <3> QED
      BY <2>3, <2>4, <3>1, TypeParts
  <2>6. CASE ~(device.flow = "probe" /\ run.failed)
    <3>1. EnvTypes'
      <4>1. CASE UNCHANGED env
        BY <1>1, <4>1 DEF env, EnvTypes
      <4>2. CASE ssh' = [phase |-> IF device.jump THEN "to_jump" ELSE "to_target",
                         tries |-> 0, reached |-> FALSE] /\ screen' = <<>>
        BY <4>2, Shapes DEF EnvTypes, Ssh, Phases
      <4> QED
        BY <1>3, <2>6, <4>1, <4>2 DEF Open
    <3>2. call' \in Call /\ call'.text = <<>>
      BY <1>3, <2>6, Shapes DEF Open, Call, Idle, Steps
    <3>3. IsPrefix(<<>>, screen')
      BY <3>1, PrefixOfSelf DEF EnvTypes
    <3>4. CallTypes'
      <4>1. IsPrefix(call'.text, screen')
        BY <3>2, <3>3, Zenon
      <4> QED
        BY <3>2, <4>1 DEF CallTypes
    <3> QED
      BY <2>3, <2>4, <3>1, <3>4, TypeParts
  <2> QED
    BY <1>3, <2>5, <2>6 DEF Open
<1>4. CASE Login
  <2>1. call.at # "idle" /\ UNCHANGED calls
    BY <1>4 DEF Login, First, JumpStage, Recheck, SendJump, AfterJump, Await, NameStage,
         SendName, Renew, TargetStage, SendTarget, Settle, AtPrompt, PollRefused, PollAsked,
         PollEnds, Unmoved
  <2>2. CASE PollEnds
    <3>1. call'.at = "idle" /\ refusals'.unread \in {refusals.unread, refusals.unread + 1}
      BY <1>1, <2>2 DEF PollEnds, Return, Idle, RestTypes
    <3>2. CountInv'
      BY <1>1, <2>1, <3>1 DEF CountInv, RestTypes
    <3> QED
      BY <1>4, <3>2, LoginKeepsTypes
  <2>3. CASE ~PollEnds
    <3>1. UNCHANGED refusals
      BY <1>4, <2>3 DEF Login, First, JumpStage, Recheck, SendJump, AfterJump, Await, NameStage,
         SendName, Renew, TargetStage, SendTarget, Settle, AtPrompt, PollRefused, PollAsked, Unmoved
    <3>2. CountInv'
      BY <1>1, <2>1, <3>1 DEF CountInv, RestTypes
    <3> QED
      BY <1>4, <3>2, LoginKeepsTypes
  <2> QED
    BY <2>2, <2>3
<1>5. CASE NewRun
  <2>1. EnvTypes' /\ CallTypes'
    BY <1>1, <1>5 DEF NewRun, env, EnvTypes, CallTypes
  <2>2. RestTypes'
    BY <1>1, <1>5, Shapes DEF NewRun, RestTypes
  <2>3. CountInv'
    BY <1>1, <1>5 DEF NewRun, RestTypes, CountInv
  <2> QED
    BY <2>1, <2>2, <2>3, TypeParts
<1>6. CASE Hops
  <2>1. refusals'.unread = refusals.unread
    BY <1>1, <1>6 DEF Hops, AskJump, AskTarget, Accept, Refuse, Disconnect, Note, RestTypes
  <2>2. UNCHANGED <<call, calls>>
    BY <1>6 DEF Hops, AskJump, AskTarget, Accept, Refuse, Disconnect, Note, Others
  <2> QED
    BY <1>6, <2>1, <2>2, HopsKeepTypes DEF CountInv
<1>7. CASE SendInput
  <2>1. EnvTypes' /\ CallTypes'
    <3>1. CASE ssh' = Answered /\ UNCHANGED screen
      <4>1. Answered \in Ssh
        BY <1>1 DEF Answered, EnvTypes, Ssh, Phases
      <4> QED
        BY <1>1, <1>7, <3>1, <4>1 DEF SendInput, EnvTypes, CallTypes
    <3>2. CASE \E phase \in Phases, lines \in Seq(Lines) : Moves(phase, lines)
      BY <1>1, <1>7, <3>2, MovesTypes DEF SendInput
    <3> QED
      BY <1>7, <3>1, <3>2, Shapes DEF SendInput, Phases, Lines, Prompts
  <2>2. inputs + 1 \in 0..MaxInputs
    BY <1>1, <1>7, Shapes DEF SendInput, RestTypes
  <2>3. RestTypes' /\ CountInv'
    BY <1>1, <1>7, <2>2 DEF SendInput, RestTypes, CountInv
  <2> QED
    BY <2>1, <2>3, TypeParts
<1> QED
  BY <1>2, <1>3, <1>4, <1>5, <1>6, <1>7 DEF Next

(* For any devices, number of calls, refusals and lines of output: what a  *)
(* call has read is a beginning of what the pane shows, and the counters   *)
(* of a command stay within their limits.                                  *)
THEOREM TypeCorrect == Spec => []TypeOK
<1>1. Init => TypeOK /\ CountInv
  BY InitTypes, Shapes DEF Init, CountInv, Idle
<1>2. TypeOK /\ CountInv /\ [Next]_vars => TypeOK' /\ CountInv'
  BY NextKeepsTypes
<1> QED
  BY <1>1, <1>2, PTL DEF Spec

-----------------------------------------------------------------------------
(* What holds of a login at every step, and the steps of a login.          *)

IInv ==
  /\ TypeOK /\ CountInv
  /\ StepInv /\ TextInv /\ HopInv /\ DenialInv /\ ProbeInv
  /\ SecretsMeetTheirHop

(* The set of typed secrets grows with what is typed.                      *)
LEMMA SecretsOfNone ==
  ASSUME typed \in Seq(Entries)
  PROVE  typed = <<>> <=> Secrets = {}
<1>1. CASE typed = <<>>
  BY <1>1 DEF Secrets
<1>2. CASE typed # <<>>
  <2>1. 1 \in DOMAIN typed
    BY <1>2
  <2> QED
    BY <1>2, <2>1 DEF Secrets
<1> QED
  BY <1>1, <1>2

LEMMA SecretsGrow ==
  ASSUME typed \in Seq(Entries), NEW e \in Entries, typed' = Append(typed, e)
  PROVE  Secrets' = Secrets \cup {e.secret} /\ typed' # <<>>
<1>1. /\ DOMAIN typed = 1..Len(typed) /\ DOMAIN typed' = 1..(Len(typed) + 1)
      /\ Len(typed) \in Nat /\ typed'[Len(typed) + 1] = e
      /\ \A i \in 1..Len(typed) : typed'[i] = typed[i]
      /\ typed' # <<>>
  OBVIOUS
<1>2. ASSUME NEW i \in 1..(Len(typed) + 1) PROVE typed'[i].secret \in Secrets \cup {e.secret}
  <2>1. CASE i = Len(typed) + 1
    BY <2>1, <1>1
  <2>2. CASE i \in 1..Len(typed)
    BY <2>2, <1>1 DEF Secrets
  <2> QED
    BY <2>1, <2>2, <1>1
<1>3. ASSUME NEW i \in 1..Len(typed) PROVE typed[i].secret \in Secrets'
  <2>1. i \in 1..(Len(typed) + 1) /\ typed'[i] = typed[i]
    BY <1>1
  <2> QED
    BY <2>1, <1>1 DEF Secrets
<1>4. e.secret \in Secrets'
  BY <1>1 DEF Secrets
<1> QED
  BY <1>1, <1>2, <1>3, <1>4 DEF Secrets

(* Nothing but the place of the call in the code changes, or what it has   *)
(* read.                                                                   *)
LEMMA GoesOn ==
  ASSUME IInv, TypeOK', CountInv', call.at # "idle", call'.at \notin {"idle", "after_jump"},
         call'.new = call.new, UNCHANGED env,
         UNCHANGED <<device, typed, refusals, calls>>, run'.failed = run.failed, StepInv', TextInv'
  PROVE  IInv'
<1>1. UNCHANGED <<ssh, screen>>
  BY DEF env
<1>2. Secrets' = Secrets /\ OnScreen' = OnScreen
  BY <1>1 DEF Secrets, OnScreen
<1>3. HopInv'
  BY <1>1, <1>2 DEF IInv, HopInv
<1>4. DenialInv'
  BY <1>1, <1>2 DEF IInv, DenialInv
<1>5. ProbeInv'
  BY <1>1 DEF IInv, ProbeInv
<1>6. SecretsMeetTheirHop'
  BY <1>1 DEF IInv, SecretsMeetTheirHop
<1> QED
  BY <1>3, <1>4, <1>5, <1>6 DEF IInv

(* The call returns.                                                       *)
LEMMA Returns ==
  ASSUME IInv, TypeOK', CountInv', NEW result, Return(result),
         UNCHANGED <<device, typed>>, refusals'.login = refusals.login, ProbeInv'
  PROVE  IInv'
<1>1. call'.at = "idle" /\ call'.new = FALSE
  BY DEF Return, Idle
<1>2. Secrets' = Secrets
  BY DEF Secrets
<1>3. StepInv'
  BY <1>1, <1>2 DEF IInv, StepInv, BeforeJump, BeforeName, BeforeTarget
<1>4. TextInv' /\ HopInv' /\ DenialInv' /\ SecretsMeetTheirHop'
  BY <1>1 DEF TextInv, HopInv, DenialInv, SecretsMeetTheirHop
<1> QED
  BY <1>3, <1>4 DEF IInv

LEMMA ReturnsKeeping ==
  ASSUME IInv, TypeOK', CountInv', Fail \/ Succeed, Keeps, call.at # "idle",
         device.flow = "probe" => Fail /\ refusals.login = 0
  PROVE  IInv'
<1>1. PICK result : Return(result)
  BY DEF Fail, Succeed
<1>2. ProbeInv'
  <2>1. CASE device.flow # "probe"
    BY <2>1 DEF ProbeInv, Keeps
  <2>2. CASE device.flow = "probe"
    <3>1. call.new = TRUE
      BY <2>2 DEF IInv, StepInv
    <3>2. Quit
      BY <2>2, <3>1 DEF Fail
    <3>3. call'.at = "idle" /\ ssh'.phase = "off" /\ ssh'.reached = FALSE
      BY <1>1, <3>2 DEF Return, Idle, Quit
    <3>4. run.failed = FALSE /\ refusals.command <= refusals.unread + refusals.login
      BY <2>2 DEF IInv, ProbeInv
    <3>5. refusals.command <= refusals.unread
      BY <2>2, <3>4 DEF IInv, TypeOK
    <3>6. UNCHANGED <<run, refusals>>
      BY DEF Keeps
    <3> QED
      BY <3>3, <3>4, <3>5, <3>6 DEF ProbeInv
  <2> QED
    BY <2>1, <2>2
<1> QED
  BY <1>1, <1>2, Returns DEF Keeps

(* A prompt that was read is on the screen.                                *)
LEMMA ReadIsShown ==
  ASSUME IInv, call.at # "idle", LastLine(call.text) # "blank"
  PROVE  LastLine(call.text) \in OnScreen
BY LastIsShown DEF IInv, TypeOK, OnScreen

(* When a secret is about to be typed, and ssh has not ended, the hop is   *)
(* the one whose prompt was read.                                          *)
LEMMA AskedAtHop ==
  ASSUME IInv, call.new = TRUE, ssh.phase # "ended"
  PROVE  /\ call.at = "send_jump" => ssh.phase = "asks_jump"
         /\ call.at = "send_name" => ssh.phase = "asks_name"
         /\ call.at = "send_target" => ssh.phase = "asks_target"
<1>1. /\ LastLine(call.text) = "jump" => "jump" \in OnScreen
      /\ LastLine(call.text) = "name" => "name" \in OnScreen
      /\ LastLine(call.text) = "target" => "target" \in OnScreen
      /\ LastLine(call.text) = "vague" => "vague" \in OnScreen
      /\ LastLine(call.text) = "other" => "other" \in OnScreen
  BY ReadIsShown DEF IInv, StepInv
<1>2. CASE call.at = "send_jump"
  <2>1. LastLine(call.text) = "jump" /\ "jump" \notin Secrets
    BY <1>2, SecretsOfNone DEF IInv, TextInv, StepInv, BeforeJump, TypeOK, Entries
  <2> QED
    BY <1>1, <1>2, <2>1 DEF IInv, HopInv
<1>3. CASE call.at = "send_name"
  <2>1. LastLine(call.text) = "name" /\ "name" \notin Secrets
    BY <1>3 DEF IInv, TextInv, StepInv, BeforeName
  <2> QED
    BY <1>1, <1>3, <2>1 DEF IInv, HopInv
<1>4. CASE call.at = "send_target"
  <2>1. /\ LastLine(call.text) \in Prompts /\ "target" \notin Secrets
        /\ device.jump = FALSE \/ LastLine(call.text) = "target"
    BY <1>4 DEF IInv, TextInv, StepInv, BeforeTarget, AsksPassword, Answerable, Classify, TypeOK
  <2>2. CASE LastLine(call.text) = "jump"
    BY <1>1, <2>1, <2>2 DEF IInv, HopInv
  <2>3. CASE LastLine(call.text) \in {"target", "vague", "other"}
    BY <1>1, <1>4, <2>1, <2>3 DEF IInv, HopInv
  <2> QED
    BY <1>4, <2>1, <2>2, <2>3 DEF Prompts
<1> QED
  BY <1>2, <1>3, <1>4

(* A secret is typed to the hop that asked for it.                         *)
LEMMA TypesKeeps ==
  ASSUME IInv, TypeOK', CountInv', NEW secret \in {"jump", "target", "name"}, NEW step,
         \/ call.at = "send_jump" /\ secret = "jump"
            /\ step = IF device.flow = "probe" THEN "poll" ELSE "after_jump"
         \/ call.at = "send_name" /\ secret = "name" /\ step = "renew"
         \/ call.at = "send_target" /\ secret = "target" /\ step = "settle",
         Types(secret, step, call.text), Unmoved
  PROVE  IInv'
<1>1. CASE Fail /\ UNCHANGED typed
  <2>1. device.flow = "probe" => refusals.login = 0
    BY DEF IInv, StepInv, BeforeJump
  <2> QED
    BY <1>1, <2>1, ReturnsKeeping DEF Unmoved, Keeps
<1>2. CASE /\ ssh.phase # "ended"
           /\ typed' = Append(typed, [secret |-> secret, reader |-> Reader])
           /\ ssh' = Answered /\ GotoWith(step, call.text) /\ UNCHANGED screen
  <2>1. typed \in Seq(Entries) /\ [secret |-> secret, reader |-> Reader] \in Entries
    BY ReaderIs DEF IInv, TypeOK, Entries
  <2>2. Secrets' = Secrets \cup {secret} /\ typed' # <<>>
    BY <1>2, <2>1, SecretsGrow
  <2>3. call'.at = step /\ call'.new = call.new /\ call'.text = call.text /\ call'.result = call.result
    BY <1>2 DEF GotoWith, IInv, TypeOK
  <2>4. UNCHANGED <<device, run, refusals, calls, screen>> /\ OnScreen' = OnScreen
    BY <1>2 DEF Unmoved, OnScreen
  <2>5. secret \notin Secrets
    BY <2>1, SecretsOfNone DEF IInv, StepInv, BeforeJump, BeforeName, BeforeTarget
  <2>6. /\ call.at = "send_jump" => refusals.login = 0
        /\ call.new = TRUE => refusals.login = 0
    BY <1>2, <2>5, AskedAtHop DEF IInv, StepInv, BeforeJump, HopInv
  <2>7. StepInv'
    BY <2>2, <2>3, <2>4 DEF IInv, StepInv, BeforeJump, BeforeName, BeforeTarget, Discovery
  <2>8. TextInv'
    BY <2>3, <2>4 DEF IInv, TextInv
  <2>9. HopInv'
    <3> SUFFICES ASSUME call.new = TRUE PROVE HopInv'
      BY <2>3 DEF HopInv
    <3>1. CASE call.at = "send_jump"
      <4>1. ssh.phase = "asks_jump" /\ ssh'.phase = "checks_jump" /\ secret = "jump"
        BY <1>2, <3>1, AskedAtHop DEF Answered, IInv, TypeOK
      <4> QED
        BY <2>2, <2>3, <2>4, <2>6, <4>1 DEF IInv, HopInv
    <3>2. CASE call.at = "send_name"
      <4>1. ssh.phase = "asks_name" /\ ssh'.phase = "to_target" /\ secret = "name"
        BY <1>2, <3>2, AskedAtHop DEF Answered, IInv, TypeOK
      <4> QED
        BY <2>2, <2>3, <2>4, <2>6, <4>1 DEF IInv, HopInv
    <3>3. CASE call.at = "send_target"
      <4>1. ssh.phase = "asks_target" /\ ssh'.phase = "checks_target" /\ secret = "target"
        BY <1>2, <3>3, AskedAtHop DEF Answered, IInv, TypeOK
      <4> QED
        BY <2>2, <2>3, <2>4, <2>6, <4>1 DEF IInv, HopInv
    <3> QED
      BY <3>1, <3>2, <3>3
  <2>10. DenialInv'
    BY <2>3, <2>4, <2>6 DEF IInv, DenialInv
  <2>11. ProbeInv'
    BY <1>2, <2>3, <2>4 DEF IInv, StepInv, ProbeInv, Answered, TypeOK
  <2>12. SecretsMeetTheirHop'
    <3> SUFFICES ASSUME call.new = TRUE PROVE SecretsMeetTheirHop'
      BY <2>3 DEF SecretsMeetTheirHop
    <3>1. Reader = secret
      BY <1>2, AskedAtHop, ReaderIs
    <3>2. /\ Len(typed') = Len(typed) + 1 /\ Len(typed) \in Nat
          /\ typed'[Len(typed) + 1] = [secret |-> secret, reader |-> secret]
          /\ \A i \in 1..Len(typed) : typed'[i] = typed[i] /\ typed[i].secret \in Secrets
      BY <1>2, <2>1, <3>1 DEF Secrets
    <3>3. \A i \in 1..Len(typed) : typed[i].secret # secret
      BY <2>5, <3>2
    <3>4. /\ \A i \in 1..Len(typed) : typed[i].reader = typed[i].secret
          /\ \A i, j \in 1..Len(typed) : typed[i].secret = typed[j].secret => i = j
      BY DEF IInv, SecretsMeetTheirHop
    <3>5. ASSUME NEW i \in 1..Len(typed') PROVE i \in 1..Len(typed) \/ i = Len(typed) + 1
      BY <3>2
    <3>6. ASSUME NEW i \in 1..Len(typed') PROVE typed'[i].reader = typed'[i].secret
      BY <3>2, <3>4, <3>5
    <3>7. ASSUME NEW i \in 1..Len(typed'), NEW j \in 1..Len(typed'),
                 typed'[i].secret = typed'[j].secret
          PROVE  i = j
      BY <3>2, <3>3, <3>4, <3>5, <3>7
    <3> QED
      BY <3>6, <3>7 DEF SecretsMeetTheirHop
  <2> QED
    BY <2>7, <2>8, <2>9, <2>10, <2>11, <2>12 DEF IInv
<1> QED
  BY <1>1, <1>2 DEF Types

LEMMA GotoMeans ==
  ASSUME TypeOK, NEW step, NEW text,
         GotoWith(step, text) \/ (Goto(step) /\ text = call.text)
  PROVE  call'.at = step /\ call'.new = call.new /\ call'.text = text /\ call'.result = call.result
BY DEF Goto, GotoWith, TypeOK

(* The call reads again, or decides what to do about what it has read.     *)
LEMMA GoesOnFrom ==
  ASSUME IInv, TypeOK', CountInv', device.flow # "probe", UNCHANGED env, Keeps,
         NEW step, NEW text, GotoWith(step, text) \/ (Goto(step) /\ text = call.text),
         \/ call.at = "first" /\ step = "jump"
         \/ call.at = "jump" /\ step = "name"
         \/ call.at = "jump" /\ step = "recheck" /\ LastLine(text) = "jump"
         \/ call.at = "recheck" /\ step = "send_jump" /\ text = call.text
         \/ call.at = "after_jump" /\ step = "name" /\ AsksPassword(text)
         \/ call.at = "after_jump" /\ step = "await" /\ Discovery
         \/ call.at = "await" /\ step = "name"
         \/ call.at = "name" /\ step = "target" /\ text = call.text
         \/ /\ call.at = "name" /\ step = "send_name"
            /\ LastLine(text) = "name" /\ device.flow = "ios"
         \/ call.at = "renew" /\ step = "target"
         \/ call.at = "target" /\ step = "prompt" /\ Discovery
         \/ /\ call.at = "target" /\ step = "send_target"
            /\ AsksPassword(text) /\ Answerable(LastLine(text))
         \/ call.at = "settle" /\ step = "prompt" /\ Discovery
  PROVE  IInv'
<1>1. call'.at = step /\ call'.new = call.new /\ call'.text = text /\ call'.result = call.result
  BY GotoMeans DEF IInv
<1>2. UNCHANGED <<device, typed, refusals>> /\ Secrets' = Secrets
  BY DEF Keeps, Secrets
<1>3. Answerable(LastLine(text))' = Answerable(LastLine(text))
  BY <1>2 DEF Answerable, Classify
<1>4. Discovery' = Discovery
  BY <1>2 DEF Discovery
<1>5. StepInv'
  BY <1>1, <1>2, <1>4
     DEF IInv, StepInv, BeforeJump, BeforeName, BeforeTarget, Discovery
<1>6. TextInv'
  BY <1>1, <1>2, <1>3
     DEF IInv, StepInv, TextInv, BeforeJump, Discovery
<1>7. call.at # "idle" /\ call'.at \notin {"idle", "after_jump"}
  BY <1>1
<1>8. UNCHANGED <<device, typed, refusals, calls>> /\ run'.failed = run.failed
  BY DEF Keeps
<1> QED
  BY <1>1, <1>5, <1>6, <1>7, <1>8, GoesOn

(* A probe, which has only its jump host's password.                       *)
LEMMA ProbeIs ==
  ASSUME IInv, call.at = "poll"
  PROVE  /\ device.flow = "probe" /\ run.failed = FALSE
         /\ refusals.command <= refusals.unread + refusals.login
         /\ Sent <=> Secrets = {"jump"}
         /\ Sent \/ typed = <<>>
         /\ refusals.login # 0 => Sent /\ ssh.reached = FALSE
         /\ LastLine(Output) # "blank" => LastLine(Output) = LastLine(screen)
<1>1. device.flow = "probe" /\ Secrets \subseteq {"jump"}
  BY DEF IInv, StepInv
<1>2. run.failed = FALSE /\ refusals.command <= refusals.unread + refusals.login
      /\ (refusals.login # 0 => ssh.reached = FALSE)
  BY <1>1 DEF IInv, ProbeInv
<1>3. typed = <<>> <=> Secrets = {}
  BY SecretsOfNone DEF IInv, TypeOK, Entries
<1>4. Sent <=> "jump" \in Secrets
  BY DEF Sent, Secrets, IInv, TypeOK
<1>5. refusals.login # 0 => typed # <<>>
  BY DEF IInv, StepInv
<1>6. LastLine(Output) # "blank" => LastLine(Output) = LastLine(screen)
  <2> SUFFICES ASSUME LastLine(Output) # "blank" PROVE LastLine(Output) = LastLine(screen)
    OBVIOUS
  <2>1. screen \in Seq(Lines) /\ call.text \in Seq(Lines)
    BY DEF IInv, TypeOK
  <2> DEFINE m == Len(call.text) + 1
             n == Len(screen)
  <2>2. m \in Int /\ n \in Int /\ m >= 1
    BY <2>1
  <2>3. \A i \in m..n : screen[i] \in Lines
    BY <2>1, <2>2
  <2>4. /\ Len(Output) = IF m <= n THEN n - m + 1 ELSE 0
        /\ \A i \in 1..(n - m + 1) : Output[i] = screen[m + i - 1]
    <3> HIDE DEF m, n
    <3>1. Output = SubSeq(screen, m, n)
      BY DEF Output, m, n
    <3> QED
      BY <2>2, <2>3, <3>1, SubSeqProperties
  <2>5. Output # <<>> /\ LastLine(Output) = Output[Len(Output)]
    BY DEF LastLine
  <2>6. CASE m <= n
    <3>1. Len(Output) = n - m + 1 /\ Output[Len(Output)] = screen[n] /\ screen # <<>>
      BY <2>1, <2>2, <2>4, <2>6
    <3> QED
      BY <2>5, <3>1 DEF LastLine
  <2>7. CASE ~(m <= n)
    <3>1. Output = <<>>
      <4>1. n < m /\ Output = SubSeq(screen, m, n)
        BY <2>2, <2>7 DEF Output
      <4> HIDE DEF m, n
      <4> QED
        BY <2>2, <4>1, SubSeqEmpty
    <3> QED
      BY <2>5, <3>1
  <2> QED
    BY <2>6, <2>7
<1> QED
  BY <1>1, <1>2, <1>3, <1>4, <1>5, <1>6

LEMMA PollsKeep ==
  ASSUME IInv, TypeOK', CountInv', PollRefused \/ PollAsked \/ PollEnds
  PROVE  IInv'
<1>1. call.at = "poll"
  BY DEF PollRefused, PollAsked, PollEnds
<1>2. refusals.login \in 0..1 /\ refusals.command \in Nat /\ refusals.unread \in Nat
      /\ run \in [sends : 0..Budget, failed : BOOLEAN]
  BY DEF IInv, TypeOK
<1>3. ASSUME NEW result, Return(result), Quit, UNCHANGED <<device, typed>>,
             refusals'.login = refusals.login, refusals'.command = refusals.command,
             refusals'.unread \in Nat,
             \/ run'.failed = TRUE /\ refusals.command <= refusals'.unread + 1
             \/ run'.failed = FALSE /\ refusals.command <= refusals'.unread
      PROVE  IInv'
  <2>1. call'.at = "idle" /\ ssh'.phase = "off" /\ ssh'.reached = FALSE
    BY <1>3 DEF Return, Idle, Quit
  <2>2. ProbeInv'
    BY <1>2, <1>3, <2>1 DEF ProbeInv
  <2> QED
    BY <1>3, <2>2, Returns
<1>4. CASE PollRefused
  <2>1. run'.failed = TRUE
    BY <1>2, <1>4 DEF PollRefused
  <2>2. refusals.command <= refusals.unread + 1
    BY <1>1, <1>2, ProbeIs
  <2> QED
    BY <1>2, <1>3, <1>4, <2>1, <2>2 DEF PollRefused, Stop
<1>5. CASE PollAsked
  <2>1. /\ LastLine(Output) \in Prompts /\ LastLine(screen) = LastLine(Output)
        /\ Classify(LastLine(Output)) = "jump" => ~Sent /\ LastLine(screen) = "jump"
    BY <1>1, <1>5, ProbeIs DEF PollAsked, AsksPassword, Refusal, Classify, Prompts
  <2>2. CASE /\ Classify(LastLine(Output)) = "jump"
             /\ run' = [run EXCEPT !.sends = @ + 1]
             /\ GotoWith("send_jump", screen) /\ UNCHANGED env
    <3>1. call'.at = "send_jump" /\ call'.new = call.new /\ call'.text = screen
          /\ call'.result = call.result
      BY <2>2, GotoMeans DEF IInv
    <3>2. run'.failed = run.failed
      BY <1>2, <2>2
    <3>3. UNCHANGED <<device, typed, refusals, calls>> /\ Secrets' = Secrets
      BY <1>5 DEF PollAsked, Secrets
    <3>4. typed = <<>> /\ Secrets = {} /\ refusals.login = 0
      BY <1>1, <2>1, <2>2, ProbeIs, SecretsOfNone DEF IInv, TypeOK, Entries
    <3>5. StepInv'
      BY <1>1, <3>1, <3>3, <3>4 DEF IInv, StepInv, BeforeJump, BeforeName, BeforeTarget
    <3>6. TextInv'
      BY <2>1, <2>2, <3>1 DEF TextInv
    <3> QED
      BY <1>1, <2>2, <3>1, <3>2, <3>3, <3>5, <3>6, GoesOn
  <2>3. CASE Stop /\ UNCHANGED run
    <3>1. refusals.login = 0
      <4>1. ASSUME refusals.login # 0 PROVE FALSE
        <5>1. LastLine(screen) \notin {"target", "vague", "other"} /\ Sent
          BY <1>1, <4>1, ProbeIs DEF IInv, ProbeInv
        <5>2. Classify(LastLine(Output)) = "jump"
          BY <2>1, <5>1 DEF Classify, Prompts
        <5> QED
          BY <2>1, <5>1, <5>2
      <4> QED
        BY <4>1
    <3>2. run'.failed = FALSE /\ refusals.command <= refusals.unread
      <4>1. run.failed = FALSE /\ refusals.command <= refusals.unread + refusals.login
        BY <1>1, ProbeIs
      <4>2. refusals.command <= refusals.unread
        BY <1>2, <3>1, <4>1
      <4> QED
        BY <2>3, <4>1, <4>2
    <3> QED
      BY <1>2, <1>3, <1>5, <2>3, <3>2 DEF PollAsked, Stop
  <2> QED
    BY <1>5, <2>2, <2>3 DEF PollAsked
<1>6. CASE PollEnds
  <2> DEFINE key == ssh.reached /\ Count(Output, {"shell"}) = 0
  <2>1. /\ refusals'.login = refusals.login /\ refusals'.command = refusals.command
        /\ refusals'.unread = IF Sent /\ ~key THEN refusals.unread + 1 ELSE refusals.unread
    BY <1>6 DEF PollEnds, IInv, TypeOK
  <2>2. run'.failed = FALSE
    BY <1>1, <1>6, ProbeIs DEF PollEnds
  <2>3. refusals.command <= refusals'.unread
    <3>1. CASE Sent /\ ~key
      BY <1>1, <1>2, <2>1, <3>1, ProbeIs
    <3>2. CASE ~(Sent /\ ~key)
      <4>1. refusals.login = 0
        BY <1>1, <3>2, ProbeIs
      <4> QED
        BY <1>1, <1>2, <2>1, <3>2, <4>1, ProbeIs
    <3> QED
      BY <3>1, <3>2
  <2>4. refusals'.unread \in Nat
    BY <1>2, <2>1
  <2> HIDE DEF key
  <2>5. \E result : Return(result)
    BY <1>6 DEF PollEnds
  <2> QED
    BY <1>3, <1>6, <2>1, <2>2, <2>3, <2>4, <2>5 DEF PollEnds
<1> QED
  BY <1>4, <1>5, <1>6

LEMMA LoginKeeps ==
  ASSUME IInv, TypeOK', CountInv', Login
  PROVE  IInv'
<1>1. CASE PollRefused \/ PollAsked \/ PollEnds
  BY <1>1, PollsKeep
<1>2. CASE SendJump
  BY <1>2, TypesKeeps DEF SendJump
<1>3. CASE SendName
  BY <1>3, TypesKeeps DEF SendName
<1>4. CASE SendTarget
  BY <1>4, TypesKeeps DEF SendTarget
<1>5. ASSUME call.at \notin {"idle", "poll", "send_jump"}, UNCHANGED typed, Unmoved
      PROVE  device.flow # "probe" /\ Keeps /\ call.at # "idle" /\ (Fail \/ Succeed => IInv')
  <2>1. device.flow # "probe" /\ call.at # "idle"
    BY <1>5 DEF IInv, StepInv
  <2>2. Keeps
    BY <1>5 DEF Keeps, Unmoved
  <2> QED
    BY <2>1, <2>2, ReturnsKeeping
<1>6. CASE First
  <2>1. CASE GotoWith("jump", screen) /\ UNCHANGED env
    BY <1>5, <1>6, <2>1, GoesOnFrom DEF First
  <2> QED
    BY <1>5, <1>6, <2>1 DEF First
<1>7. CASE JumpStage
  <2>1. CASE Goto("name") /\ UNCHANGED env
    BY <1>5, <1>7, <2>1, GoesOnFrom DEF JumpStage
  <2>2. CASE Goto("recheck") /\ UNCHANGED env /\ Classify(LastLine(call.text)) = "jump"
    <3>1. LastLine(call.text) = "jump"
      BY <2>2 DEF Classify
    <3> QED
      BY <1>5, <1>7, <2>2, <3>1, GoesOnFrom DEF JumpStage
  <2> QED
    BY <1>5, <1>7, <2>1, <2>2 DEF JumpStage
<1>8. CASE Recheck
  <2>1. CASE Goto("send_jump") /\ UNCHANGED env
    BY <1>5, <1>8, <2>1, GoesOnFrom DEF Recheck
  <2> QED
    BY <1>5, <1>8, <2>1 DEF Recheck
<1>9. CASE AfterJump
  <2>1. CASE GotoWith("name", screen) /\ AsksPassword(screen) /\ UNCHANGED env
    BY <1>5, <1>9, <2>1, GoesOnFrom DEF AfterJump
  <2>2. CASE Goto("await") /\ Discovery /\ UNCHANGED env
    BY <1>5, <1>9, <2>2, GoesOnFrom DEF AfterJump
  <2> QED
    BY <1>5, <1>9, <2>1, <2>2 DEF AfterJump
<1>10. CASE Await
  <2>1. CASE GotoWith("name", screen) /\ UNCHANGED env
    BY <1>5, <1>10, <2>1, GoesOnFrom DEF Await
  <2> QED
    BY <1>5, <1>10, <2>1 DEF Await
<1>11. CASE NameStage
  <2>1. CASE Goto("target") /\ UNCHANGED env
    BY <1>5, <1>11, <2>1, GoesOnFrom DEF NameStage
  <2>2. CASE Goto("send_name") /\ UNCHANGED env /\ LastLine(call.text) = "name" /\ device.flow = "ios"
    BY <1>5, <1>11, <2>2, GoesOnFrom DEF NameStage
  <2> QED
    BY <1>5, <1>11, <2>1, <2>2 DEF NameStage
<1>12. CASE Renew
  <2>1. CASE GotoWith("target", screen) /\ UNCHANGED env
    BY <1>5, <1>12, <2>1, GoesOnFrom DEF Renew
  <2> QED
    BY <1>5, <1>12, <2>1 DEF Renew
<1>13. CASE TargetStage
  <2>1. CASE Discovery /\ Goto("prompt") /\ UNCHANGED env
    BY <1>5, <1>13, <2>1, GoesOnFrom DEF TargetStage
  <2>2. CASE /\ AsksPassword(call.text) /\ Answerable(LastLine(call.text))
             /\ Goto("send_target") /\ UNCHANGED env
    BY <1>5, <1>13, <2>2, GoesOnFrom DEF TargetStage
  <2> QED
    BY <1>5, <1>13, <2>1, <2>2 DEF TargetStage
<1>14. CASE Settle
  <2>1. CASE Discovery /\ GotoWith("prompt", screen) /\ UNCHANGED env
    BY <1>5, <1>14, <2>1, GoesOnFrom DEF Settle
  <2> QED
    BY <1>5, <1>14, <2>1 DEF Settle
<1>15. CASE AtPrompt
  BY <1>5, <1>15 DEF AtPrompt
<1> QED
  BY <1>1, <1>2, <1>3, <1>4, <1>6, <1>7, <1>8, <1>9, <1>10, <1>11, <1>12, <1>13, <1>14, <1>15
     DEF Login

-----------------------------------------------------------------------------
(* The steps of the hops.                                                  *)

(* What they print does not concern what the call has done and read.       *)
LEMMA Prints ==
  ASSUME IInv, TypeOK', Others, NEW lines \in Seq(Lines), screen' = screen \o lines
  PROVE  /\ OnScreen' = OnScreen \cup Range(lines) /\ Secrets' = Secrets
         /\ UNCHANGED <<device, call, typed, run, calls>>
         /\ TextInv' /\ SecretsMeetTheirHop'
         /\ (typed = <<>> => refusals'.login = 0) => StepInv'
         /\ refusals'.login = refusals.login => StepInv' /\ DenialInv'
         /\ lines = <<>> => LastLine(screen') = LastLine(screen)
         /\ lines # <<>> => LastLine(screen') = LastLine(lines)
<1>1. screen \in Seq(Lines) /\ call.text \in Seq(Lines)
  BY DEF IInv, TypeOK
<1>2. OnScreen' = OnScreen \cup Range(lines)
  BY <1>1, RangeGrows DEF OnScreen
<1>3. UNCHANGED <<device, call, typed, run, calls>> /\ Secrets' = Secrets
  BY DEF Others, Secrets
<1>4. TextInv' /\ SecretsMeetTheirHop'
  BY <1>3 DEF IInv, TextInv, SecretsMeetTheirHop, AsksPassword, Answerable, Classify, LastLine
<1>5. ASSUME typed = <<>> => refusals'.login = 0 PROVE StepInv'
  BY <1>3, <1>5 DEF IInv, StepInv, Discovery
<1>6. ASSUME refusals'.login = refusals.login PROVE StepInv' /\ DenialInv'
  <2>1. StepInv'
    BY <1>5, <1>6 DEF IInv, StepInv
  <2>2. /\ Len(screen) \in Nat /\ Len(lines) \in Nat /\ Len(call.text) \in Nat
        /\ Len(screen') = Len(screen) + Len(lines)
        /\ \A i \in 1..Len(screen) : screen'[i] = screen[i]
    BY <1>1, ConcatProperties
  <2>3. ASSUME NEW i \in (Len(call.text) + 1)..Len(screen), screen[i] \in Denials
        PROVE  i \in (Len(call'.text) + 1)..Len(screen') /\ screen'[i] \in Denials
    BY <1>3, <2>2, <2>3
  <2>4. DenialInv'
    BY <1>2, <1>3, <1>6, <2>3 DEF IInv, DenialInv
  <2> QED
    BY <2>1, <2>4
<1>7. lines = <<>> => LastLine(screen') = LastLine(screen)
  BY <1>1
<1>8. ASSUME lines # <<>> PROVE LastLine(screen') = LastLine(lines)
  <2>1. Len(lines) \in Nat \ {0} /\ Len(screen) \in Nat
    BY <1>1, <1>8, EmptySeq
  <2>2. Len(screen') = Len(screen) + Len(lines) /\ screen' \in Seq(Lines)
        /\ screen'[Len(screen) + Len(lines)] = lines[Len(lines)]
    BY <1>1, <2>1, ConcatProperties
  <2>3. screen' # <<>>
    BY <2>1, <2>2, EmptySeq
  <2> QED
    BY <1>8, <2>2, <2>3 DEF LastLine
<1> QED
  BY <1>2, <1>3, <1>4, <1>5, <1>6, <1>7, <1>8

(* A hop that has not refused anything goes on.                            *)
LEMMA MovesKeep ==
  ASSUME IInv, TypeOK', CountInv', Others, NEW lines \in Seq(Lines), NEW phase \in Phases,
         Moves(phase, lines), UNCHANGED refusals, HopInv',
         phase \in {"asks_jump", "checks_jump"} => ssh.phase = "to_jump",
         phase # "to_jump", ssh.phase # "off",
         \/ phase = "ended" /\ (lines = <<>> \/ LastLine(lines) = "denied")
         \/ ssh.phase \in {"to_jump", "to_target", "checks_jump", "checks_target"}
  PROVE  IInv'
<1>1. /\ StepInv' /\ TextInv' /\ DenialInv' /\ SecretsMeetTheirHop'
      /\ UNCHANGED <<device, call, typed, run, calls>>
      /\ lines = <<>> => LastLine(screen') = LastLine(screen)
      /\ lines # <<>> => LastLine(screen') = LastLine(lines)
  BY Prints DEF Moves
<1>2. ssh'.phase = phase /\ ssh'.reached = (ssh.reached \/ ssh.phase = "to_target")
      /\ ssh.reached \in BOOLEAN
  BY DEF Moves, IInv, TypeOK
<1>3. ProbeInv'
  <2> SUFFICES ASSUME device.flow = "probe" PROVE ProbeInv'
    BY <1>1 DEF ProbeInv
  <2>1. call.at # "idle" /\ call.new = TRUE
    BY DEF IInv, StepInv, ProbeInv
  <2>2. refusals.login # 0 => ssh.phase \in {"asks_jump", "asks_target", "ended"}
    BY <2>1 DEF IInv, HopInv
  <2>3. phase \in {"asks_jump", "checks_jump"} => ssh.reached = FALSE
    BY DEF IInv, ProbeInv
  <2> QED
    BY <1>1, <1>2, <2>1, <2>2, <2>3 DEF IInv, ProbeInv
<1> QED
  BY <1>1, <1>3 DEF IInv

LEMMA AskJumpKeeps ==
  ASSUME IInv, TypeOK', CountInv', AskJump
  PROVE  IInv'
<1>1. CASE \E p \in {"jump", "vague"} : Moves("asks_jump", <<p>>)
  <2>1. PICK p \in {"jump", "vague"} : Moves("asks_jump", <<p>>)
    BY <1>1
  <2>2. <<p>> \in Seq(Lines) /\ Range(<<p>>) = {p}
    BY Shapes, RangeOfFew DEF Lines, Prompts
  <2>3. OnScreen' = OnScreen \cup {p} /\ Secrets' = Secrets /\ UNCHANGED <<device, call, refusals>>
    BY <2>1, <2>2, Prints DEF AskJump, Moves
  <2>4. ssh.phase = "to_jump" /\ ssh'.phase = "asks_jump"
    BY <2>1 DEF AskJump, Moves, IInv, TypeOK
  <2>5. HopInv'
    BY <2>3, <2>4 DEF IInv, HopInv, TypeOK
  <2> QED
    BY <2>1, <2>2, <2>4, <2>5, MovesKeep DEF AskJump, Phases
<1>2. CASE Moves("to_target", <<>>)
  <2>1. <<>> \in Seq(Lines) /\ Range(<<>>) = {}
    BY Shapes, RangeOfFew
  <2>2. OnScreen' = OnScreen /\ Secrets' = Secrets /\ UNCHANGED <<device, call, refusals>>
    BY <1>2, <2>1, Prints DEF AskJump, Moves
  <2>3. ssh.phase = "to_jump" /\ ssh'.phase = "to_target"
    BY <1>2 DEF AskJump, Moves, IInv, TypeOK
  <2>4. HopInv'
    BY <2>2, <2>3 DEF IInv, HopInv, TypeOK
  <2> QED
    BY <1>2, <2>1, <2>3, <2>4, MovesKeep DEF AskJump, Phases
<1> QED
  BY <1>1, <1>2 DEF AskJump

LEMMA AskTargetKeeps ==
  ASSUME IInv, TypeOK', CountInv', AskTarget
  PROVE  IInv'
<1>1. PICK line \in {"target", "vague", "shell", "name"}, phase \in {"asks_target", "shell", "asks_name"} :
        /\ Moves(phase, <<line>>)
        /\ phase = "asks_target" => line \in {"target", "vague"}
        /\ phase = "shell" => line = "shell"
        /\ phase = "asks_name" => line = "name" /\ ~device.jump
  BY DEF AskTarget
<1>2. <<line>> \in Seq(Lines) /\ Range(<<line>>) = {line}
  BY Shapes, RangeOfFew DEF Lines, Prompts
<1>3. OnScreen' = OnScreen \cup {line} /\ Secrets' = Secrets /\ UNCHANGED <<device, call, refusals>>
  BY <1>1, <1>2, Prints DEF AskTarget, Moves
<1>4. ssh.phase = "to_target" /\ ssh'.phase = phase
  BY <1>1 DEF AskTarget, Moves, IInv, TypeOK
<1>5. HopInv'
  BY <1>1, <1>3, <1>4 DEF IInv, HopInv, TypeOK
<1> QED
  BY <1>1, <1>2, <1>4, <1>5, MovesKeep DEF AskTarget, Phases

LEMMA AcceptKeeps ==
  ASSUME IInv, TypeOK', CountInv', Accept
  PROVE  IInv'
<1>1. CASE ssh.phase = "checks_jump" /\ Moves("to_target", <<>>)
  <2>1. <<>> \in Seq(Lines) /\ Range(<<>>) = {}
    BY Shapes, RangeOfFew
  <2>2. OnScreen' = OnScreen /\ Secrets' = Secrets /\ UNCHANGED <<device, call, refusals>>
    BY <1>1, <2>1, Prints DEF Accept, Moves
  <2>3. ssh'.phase = "to_target"
    BY <1>1 DEF Moves, IInv, TypeOK
  <2>4. HopInv'
    BY <1>1, <2>2, <2>3 DEF IInv, HopInv, TypeOK
  <2> QED
    BY <1>1, <2>1, <2>4, MovesKeep DEF Accept, Phases
<1>2. CASE ssh.phase = "checks_target" /\ Moves("shell", <<"shell">>)
  <2>1. <<"shell">> \in Seq(Lines) /\ Range(<<"shell">>) = {"shell"}
    BY Shapes, RangeOfFew DEF Lines
  <2>2. OnScreen' = OnScreen \cup {"shell"} /\ Secrets' = Secrets /\ UNCHANGED <<device, call, refusals>>
    BY <1>2, <2>1, Prints DEF Accept, Moves
  <2>3. ssh'.phase = "shell"
    BY <1>2 DEF Moves, IInv, TypeOK
  <2>4. HopInv'
    BY <1>2, <2>2, <2>3 DEF IInv, HopInv, TypeOK
  <2> QED
    BY <1>2, <2>1, <2>4, MovesKeep DEF Accept, Phases
<1> QED
  BY <1>1, <1>2 DEF Accept

LEMMA DisconnectKeeps ==
  ASSUME IInv, TypeOK', CountInv', Disconnect
  PROVE  IInv'
<1>1. PICK lines \in {<<>>, <<"denied">>} : Moves("ended", lines)
  BY DEF Disconnect
<1>2. /\ lines \in Seq(Lines) /\ Range(lines) \subseteq {"denied"}
      /\ lines = <<>> \/ LastLine(lines) = "denied"
  <2>1. CASE lines = <<>>
    BY <2>1, Shapes, RangeOfFew
  <2>2. CASE lines = <<"denied">>
    <3>1. "denied" \in Lines /\ LastLine(<<"denied">>) = "denied"
      BY DEF Lines, Denials, LastLine
    <3> QED
      BY <2>2, <3>1, Shapes, RangeOfFew
  <2> QED
    BY <2>1, <2>2
<1>3. OnScreen' \subseteq OnScreen \cup {"denied"} /\ OnScreen \subseteq OnScreen'
      /\ Secrets' = Secrets /\ UNCHANGED <<device, call, refusals>>
  BY <1>1, <1>2, Prints DEF Disconnect, Moves
<1>4. ssh.phase # "off" /\ ssh'.phase = "ended"
  BY <1>1 DEF Disconnect, Moves, IInv, TypeOK
<1>5. HopInv'
  BY <1>3, <1>4 DEF IInv, HopInv, TypeOK
<1> QED
  BY <1>1, <1>2, <1>4, <1>5, MovesKeep DEF Disconnect, Phases

LEMMA NoteKeeps ==
  ASSUME IInv, TypeOK', CountInv', Note
  PROVE  IInv'
<1>1. screen' = screen \o <<"note">> /\ <<"note">> \in Seq(Lines) /\ Range(<<"note">>) = {"note"}
  <2>1. screen' = screen \o <<"note">>
    <3>1. screen \in Seq(Lines)
      BY DEF IInv, TypeOK
    <3> QED
      BY <3>1 DEF Note
  <2> QED
    BY <2>1, Shapes, RangeOfFew DEF Lines
<1>2. /\ OnScreen' = OnScreen \cup {"note"} /\ Secrets' = Secrets
      /\ UNCHANGED <<device, call, typed, run, calls>>
      /\ StepInv' /\ TextInv' /\ DenialInv' /\ SecretsMeetTheirHop'
      /\ LastLine(screen') = "note"
  <2>1. LastLine(<<"note">>) = "note" /\ <<"note">> # <<>>
    BY DEF LastLine
  <2> QED
    BY <1>1, <2>1, Prints DEF Note
<1>3. UNCHANGED <<ssh, refusals>>
  BY DEF Note
<1>4. HopInv'
  BY <1>2, <1>3 DEF IInv, HopInv
<1>5. ProbeInv'
  BY <1>2, <1>3 DEF IInv, ProbeInv
<1> QED
  BY <1>2, <1>4, <1>5 DEF IInv

LEMMA RefuseKeeps ==
  ASSUME IInv, TypeOK', CountInv', Refuse
  PROVE  IInv'
<1> DEFINE jump == ssh.phase = "checks_jump"
<1>1. PICK lines \in Seq(Lines) :
        /\ screen' = screen \o lines /\ lines # <<>> /\ lines[1] \in Denials
        /\ Range(lines) \subseteq Denials \cup IF jump THEN {"jump"} ELSE {"target", "vague"}
        /\ jump => LastLine(lines) \in {"jump", "jump_denied"}
        /\ ssh'.phase \in {"ended", IF jump THEN "asks_jump" ELSE "asks_target"}
        /\ ssh'.reached = ssh.reached
  <2>1. CASE /\ ssh.tries + 1 < MaxTries
             /\ \E p \in IF jump THEN {"jump"} ELSE {"target", "vague"} :
                   screen' = screen \o <<"denied", p>>
             /\ ssh' = [ssh EXCEPT !.phase = IF jump THEN "asks_jump" ELSE "asks_target",
                                   !.tries = @ + 1]
    <3>1. PICK p \in IF jump THEN {"jump"} ELSE {"target", "vague"} :
            screen' = screen \o <<"denied", p>>
      BY <2>1
    <3>2. <<"denied", p>> \in Seq(Lines) /\ Range(<<"denied", p>>) = {"denied", p}
      BY Shapes, RangeOfFew DEF Lines, Denials, Prompts
    <3>3. /\ <<"denied", p>> # <<>> /\ <<"denied", p>>[1] \in Denials
          /\ LastLine(<<"denied", p>>) = p
      BY DEF LastLine, Denials
    <3>4. /\ ssh'.phase = IF jump THEN "asks_jump" ELSE "asks_target"
          /\ ssh'.reached = ssh.reached
      BY <2>1 DEF IInv, TypeOK
    <3> QED
      BY <3>1, <3>2, <3>3, <3>4 DEF Denials
  <2>2. CASE Moves("ended", <<IF jump THEN "jump_denied" ELSE "denied">>)
    <3> DEFINE line == IF jump THEN "jump_denied" ELSE "denied"
    <3>1. <<line>> \in Seq(Lines) /\ Range(<<line>>) = {line}
      BY Shapes, RangeOfFew DEF Lines, Denials
    <3>2. <<line>> # <<>> /\ <<line>>[1] \in Denials /\ LastLine(<<line>>) = line
      BY DEF LastLine, Denials
    <3>3. ssh'.phase = "ended" /\ ssh'.reached = ssh.reached /\ screen' = screen \o <<line>>
      BY <2>2 DEF Refuse, Moves, IInv, TypeOK
    <3> QED
      BY <3>1, <3>2, <3>3 DEF Denials
  <2> QED
    BY <2>1, <2>2 DEF Refuse
<1>2. /\ ssh.phase \in {"checks_jump", "checks_target"}
      /\ Others /\ refusals'.login = IF typed = <<>> THEN 0 ELSE 1
      /\ refusals'.command = IF jump THEN refusals.command + 1 ELSE refusals.command
      /\ refusals'.unread = refusals.unread
  BY DEF Refuse, IInv, TypeOK
<1> HIDE DEF jump
<1>3. /\ OnScreen' = OnScreen \cup Range(lines) /\ Secrets' = Secrets
      /\ UNCHANGED <<device, call, typed, run, calls>>
      /\ StepInv' /\ TextInv' /\ SecretsMeetTheirHop'
      /\ LastLine(screen') = LastLine(lines)
  BY <1>1, <1>2, Prints
<1>4. typed = <<>> <=> Secrets = {}
  BY SecretsOfNone DEF IInv, TypeOK, Entries
<1>5. HopInv'
  <2> SUFFICES ASSUME call.new = TRUE PROVE HopInv'
    BY <1>3 DEF HopInv
  <2>1. /\ "shell" \notin OnScreen /\ "name" \notin OnScreen \ Secrets
        /\ "jump" \notin OnScreen \ Secrets /\ "target" \notin OnScreen \ Secrets
        /\ "other" \notin OnScreen
        /\ device.jump = TRUE => "name" \notin OnScreen
        /\ device.jump = FALSE => "jump" \notin OnScreen
    BY <1>2 DEF IInv, HopInv
  <2>2. CASE jump
    <3>1. ssh.phase = "checks_jump" /\ device.jump # FALSE /\ "jump" \in Secrets
      BY <2>2 DEF jump, IInv, HopInv
    <3>2. ssh'.phase \in {"ended", "asks_jump"}
          /\ OnScreen' \subseteq OnScreen \cup {"jump_denied", "denied", "jump"}
      BY <1>1, <1>3, <2>2 DEF Denials
    <3> QED
      BY <1>3, <2>1, <3>1, <3>2 DEF HopInv
  <2>3. CASE ~jump
    <3>1. ssh.phase = "checks_target" /\ "target" \in Secrets
      BY <1>2, <2>3 DEF jump, IInv, HopInv
    <3>2. ssh'.phase \in {"ended", "asks_target"}
          /\ OnScreen' \subseteq OnScreen \cup {"jump_denied", "denied", "target", "vague"}
      BY <1>1, <1>3, <2>3 DEF Denials
    <3> QED
      BY <1>3, <2>1, <3>1, <3>2 DEF HopInv
  <2> QED
    BY <2>2, <2>3
<1>6. DenialInv'
  <2>1. screen \in Seq(Lines) /\ Len(screen) \in Nat
    BY DEF IInv, TypeOK
  <2>2. CASE call.at # "idle"
    <3>1. Len(call.text) \in Nat /\ Len(call.text) <= Len(screen)
      <4>1. call.text \in Seq(Lines) /\ IsPrefix(call.text, screen)
        BY <2>2 DEF IInv, TypeOK
      <4> QED
        BY <2>1, <4>1, PrefixMeans
    <3>2. Len(lines) \in Nat \ {0}
      BY <1>1, EmptySeq
    <3>3. /\ Len(screen') = Len(screen) + Len(lines)
          /\ screen'[Len(screen) + 1] = lines[1]
      BY <1>1, <2>1, <3>2, ConcatProperties
    <3>4. Len(screen) + 1 \in (Len(call.text) + 1)..Len(screen')
      BY <2>1, <3>1, <3>2, <3>3
    <3>5. lines[1] \in Range(lines)
      BY <1>1, <3>2 DEF Range
    <3> QED
      BY <1>1, <1>3, <3>3, <3>4, <3>5 DEF DenialInv
  <2>3. CASE call.at = "idle"
    BY <1>3, <2>3 DEF DenialInv
  <2> QED
    BY <2>2, <2>3
<1>7. ProbeInv'
  <2> SUFFICES ASSUME device.flow = "probe" PROVE ProbeInv'
    BY <1>3 DEF ProbeInv
  <2>1. call.at # "idle" /\ call.new = TRUE /\ Secrets \subseteq {"jump"}
    BY <1>2 DEF IInv, StepInv, ProbeInv
  <2>2. ssh.phase = "checks_jump" /\ Secrets # {} /\ refusals.login = 0
    BY <1>2, <2>1 DEF IInv, HopInv
  <2>3. ssh.reached = FALSE /\ run.failed = FALSE
        /\ refusals.command <= refusals.unread + refusals.login
    BY <2>1, <2>2 DEF IInv, ProbeInv
  <2>4. refusals'.login = 1 /\ refusals'.command <= refusals'.unread + refusals'.login
    <3>1. refusals.command \in Nat /\ refusals.unread \in Nat
      BY DEF IInv, TypeOK
    <3>2. refusals'.login = 1 /\ refusals'.command = refusals.command + 1
          /\ refusals'.unread = refusals.unread
      BY <1>2, <1>4, <2>2 DEF jump
    <3> QED
      BY <2>2, <2>3, <3>1, <3>2
  <2>5. LastLine(screen') \in {"jump", "jump_denied"} /\ ssh'.reached = FALSE
    BY <1>1, <1>3, <2>2, <2>3 DEF jump
  <2> QED
    BY <1>1, <1>3, <2>1, <2>3, <2>4, <2>5 DEF ProbeInv
<1> QED
  BY <1>3, <1>5, <1>6, <1>7 DEF IInv

-----------------------------------------------------------------------------
(* The invariant, and what follows from it.                                *)

LEMMA OpenKeeps ==
  ASSUME IInv, TypeOK', CountInv', Open
  PROVE  IInv'
<1>1. /\ call.at = "idle" /\ typed' = <<>> /\ refusals'.login = 0
      /\ refusals'.command = refusals.command /\ refusals'.unread = refusals.unread
      /\ UNCHANGED <<device, run>>
  BY DEF Open, IInv, TypeOK
<1>2. Secrets' = {} /\ Len(typed') = 0
  BY <1>1 DEF Secrets
<1>3. SecretsMeetTheirHop'
  BY <1>1 DEF SecretsMeetTheirHop
<1>4. refusals.command \in Nat /\ refusals.unread \in Nat
      /\ run \in [sends : 0..Budget, failed : BOOLEAN]
      /\ device \in [flow : {"managed", "xr", "ios", "probe"}, jump : BOOLEAN,
                    secrets : SUBSET {"jump", "target", "name"}]
  BY AuthAssumption DEF IInv, TypeOK
<1>5. CASE device.flow = "probe" /\ run.failed /\ Return("failed") /\ UNCHANGED env
  <2>1. call'.at = "idle" /\ call'.new = FALSE /\ UNCHANGED ssh
    BY <1>5 DEF Return, Idle, env
  <2>2. StepInv'
    BY <1>1, <1>2, <2>1 DEF StepInv, BeforeJump, BeforeName, BeforeTarget
  <2>3. TextInv' /\ HopInv' /\ DenialInv'
    BY <2>1 DEF TextInv, HopInv, DenialInv
  <2>4. ProbeInv'
    BY <1>1, <1>4, <1>5, <2>1 DEF IInv, ProbeInv
  <2> QED
    BY <1>3, <2>2, <2>3, <2>4 DEF IInv
<1>6. CASE ~(device.flow = "probe" /\ run.failed)
  <2> DEFINE reuses == device.flow = "managed" /\ ssh.phase \notin {"off", "ended"}
  <2>1. /\ call'.at = IF device.flow = "probe" THEN "poll" ELSE "first"
        /\ call'.new = ~reuses /\ call'.result = "none" /\ call'.text = <<>>
    BY <1>6 DEF Open, Idle
  <2>2. ~reuses => /\ ssh'.phase = IF device.jump THEN "to_jump" ELSE "to_target"
                   /\ ssh'.reached = FALSE /\ OnScreen' = {}
    <3>1. ~reuses => screen' = <<>> /\ ssh' = [phase |-> IF device.jump THEN "to_jump" ELSE "to_target",
                                              tries |-> 0, reached |-> FALSE]
      BY <1>6 DEF Open
    <3> QED
      BY <3>1, RangeOfFew DEF OnScreen
  <2>3. device.flow # "managed" => ~reuses
    OBVIOUS
  <2> HIDE DEF reuses
  <2>4. StepInv'
    BY <1>1, <1>2, <2>1, <2>3 DEF StepInv, BeforeJump, BeforeName, BeforeTarget
  <2>5. TextInv' /\ DenialInv'
    BY <1>1, <2>1 DEF TextInv, DenialInv
  <2>6. HopInv'
    BY <1>1, <1>2, <1>4, <2>1, <2>2 DEF HopInv
  <2>7. ProbeInv'
    BY <1>1, <1>4, <1>6, <2>1, <2>2, <2>3 DEF IInv, ProbeInv
  <2> QED
    BY <1>3, <2>4, <2>5, <2>6, <2>7 DEF IInv
<1> QED
  BY <1>5, <1>6 DEF Open

LEMMA IdleKeeps ==
  ASSUME IInv, TypeOK', CountInv', NewRun \/ SendInput
  PROVE  IInv'
<1>1. /\ call.at = "idle" /\ UNCHANGED <<device, call, typed>>
      /\ refusals'.login \in {refusals.login, 0}
  BY DEF NewRun, SendInput
<1>2. Secrets' = Secrets /\ call.new # TRUE
  BY <1>1 DEF Secrets, IInv, StepInv
<1>3. StepInv'
  BY <1>1, <1>2 DEF IInv, StepInv, Discovery
<1>4. TextInv' /\ HopInv' /\ DenialInv' /\ SecretsMeetTheirHop'
  BY <1>1, <1>2 DEF TextInv, HopInv, DenialInv, SecretsMeetTheirHop, IInv, TypeOK
<1>5. ProbeInv'
  <2>1. CASE NewRun
    BY <1>1, <2>1 DEF NewRun, env, IInv, ProbeInv
  <2>2. CASE SendInput
    BY <1>1, <2>2 DEF SendInput, ProbeInv
  <2> QED
    BY <2>1, <2>2
<1> QED
  BY <1>3, <1>4, <1>5 DEF IInv

(* Every step keeps the invariant.                                         *)
LEMMA NextKeeps ==
  ASSUME IInv, [Next]_vars
  PROVE  IInv'
<1>1. TypeOK' /\ CountInv'
  BY NextKeepsTypes DEF IInv
<1>2. CASE UNCHANGED vars
  <2>1. UNCHANGED <<device, ssh, screen, call, typed, run, refusals, calls>>
    BY <1>2 DEF vars, env
  <2>2. Secrets' = Secrets /\ OnScreen' = OnScreen
    BY <2>1 DEF Secrets, OnScreen
  <2>3. StepInv' /\ TextInv' /\ HopInv' /\ DenialInv'
    BY <2>1, <2>2 DEF IInv, StepInv, TextInv, HopInv, DenialInv, Discovery, AsksPassword,
                     Answerable, Classify
  <2>4. ProbeInv' /\ SecretsMeetTheirHop'
    BY <2>1 DEF IInv, ProbeInv, SecretsMeetTheirHop
  <2> QED
    BY <1>1, <2>3, <2>4 DEF IInv
<1>3. CASE Hops
  BY <1>1, <1>3, AskJumpKeeps, AskTargetKeeps, AcceptKeeps, RefuseKeeps, DisconnectKeeps,
     NoteKeeps DEF Hops
<1> QED
  BY <1>1, <1>2, <1>3, OpenKeeps, LoginKeeps, IdleKeeps DEF Next

LEMMA Invariant == Spec => []IInv
<1>1. Init => IInv
  <2> SUFFICES ASSUME Init PROVE IInv
    OBVIOUS
  <2>1. /\ call.at = "idle" /\ call.new = FALSE /\ typed = <<>> /\ ssh.phase = "off"
        /\ ssh.reached = FALSE /\ run.failed = FALSE
        /\ refusals.login = 0 /\ refusals.command = 0 /\ refusals.unread = 0
    BY DEF Init, Idle
  <2>2. TypeOK /\ CountInv
    BY InitTypes, Shapes DEF Init, CountInv, Idle
  <2>3. Secrets = {}
    BY <2>1 DEF Secrets
  <2>4. StepInv
    BY <2>1, <2>3 DEF StepInv, BeforeJump, BeforeName, BeforeTarget
  <2>5. TextInv /\ HopInv /\ DenialInv /\ SecretsMeetTheirHop
    BY <2>1 DEF TextInv, HopInv, DenialInv, SecretsMeetTheirHop
  <2>6. ProbeInv
    BY <2>1 DEF ProbeInv
  <2> QED
    BY <2>2, <2>4, <2>5, <2>6 DEF IInv
<1>2. IInv /\ [Next]_vars => IInv'
  BY NextKeeps
<1> QED
  BY <1>1, <1>2, PTL DEF Spec

-----------------------------------------------------------------------------
(* What the invariant says of a login.                                     *)

(* Whatever the hops ask, in whatever order and form: what a login types   *)
(* into a session that it opened is read by the hop whose secret it is, at *)
(* its prompt, and no secret is typed twice (resolve_target_password_      *)
(* prompt, _authenticate_jump_stage, probe_host_key).                      *)
THEOREM SecretsAreMet == Spec => []SecretsMeetTheirHop
<1>1. IInv => SecretsMeetTheirHop
  BY DEF IInv
<1> QED
  BY <1>1, Invariant, PTL

(* The probes of one command offer a jump host a password that it refused  *)
(* once, and never again; the ones that end before the answer is read are  *)
(* counted apart (counters["jump_failed"]).                                *)
THEOREM JumpRefusesOnceOnly == Spec => []JumpRefusesOnce
<1>1. IInv => JumpRefusesOnce
  <2> SUFFICES ASSUME IInv, device.flow = "probe"
               PROVE  refusals.command <= 1 + refusals.unread
    BY DEF JumpRefusesOnce
  <2>1. /\ refusals.login \in 0..1 /\ refusals.command \in Nat /\ refusals.unread \in Nat
        /\ run.failed \in BOOLEAN
    BY DEF IInv, TypeOK
  <2>2. CASE call.at # "idle"
    <3>1. refusals.command <= refusals.unread + refusals.login
      BY <2>2 DEF IInv, ProbeInv
    <3> QED
      BY <2>1, <3>1
  <2>3. CASE call.at = "idle" /\ run.failed = FALSE
    <3>1. refusals.command <= refusals.unread
      BY <2>3 DEF IInv, ProbeInv
    <3> QED
      BY <2>1, <3>1
  <2>4. CASE run.failed = TRUE
    <3>1. refusals.command <= refusals.unread + 1
      BY <2>4 DEF IInv, ProbeInv
    <3> QED
      BY <2>1, <3>1
  <2> QED
    BY <2>1, <2>2, <2>3, <2>4
<1> QED
  BY <1>1, Invariant, PTL

(* When a login succeeds, and what has been looked at by then.             *)
LEMMA SuccessIs ==
  ASSUME IInv, Next, call.at # "idle", call'.result = "ok"
  PROVE  \/ call.at = "first"
         \/ call.at = "after_jump" /\ ~(Count(screen, Denials) > Count(call.text, Denials))
         \/ call.at = "target" /\ ~AsksPassword(call.text) /\ ~Discovery
         \/ call.at = "settle" /\ ~Refused
         \/ call.at = "prompt" /\ LastLine(call.text) = "shell"
         \/ call.at = "poll" /\ ssh.reached
<1>1. call.result = "none"
  BY DEF IInv, StepInv
<1>2. ASSUME NEW step, NEW text, Goto(step) \/ GotoWith(step, text) PROVE FALSE
  BY <1>1, <1>2 DEF Goto, GotoWith, IInv, TypeOK
<1>3. ~Fail /\ ~Return("failed") /\ call' # call
  BY <1>1 DEF Fail, Return, Idle
<1>4. ASSUME NEW secret, NEW step, Types(secret, step, call.text) PROVE FALSE
  BY <1>2, <1>3, <1>4 DEF Types
<1>5. ~Open /\ ~NewRun /\ ~SendInput
  BY DEF Open, NewRun, SendInput
<1>6. ~Hops
  BY <1>3 DEF Hops, AskJump, AskTarget, Accept, Refuse, Disconnect, Note, Others
<1>7. ~SendJump /\ ~SendName /\ ~SendTarget
  BY <1>4 DEF SendJump, SendName, SendTarget
<1>8. ~JumpStage /\ ~Recheck /\ ~NameStage /\ ~Renew /\ ~Await
  BY <1>2, <1>3 DEF JumpStage, Recheck, NameStage, Renew, Await
<1>9. ~PollRefused /\ ~PollAsked
  BY <1>2, <1>3 DEF PollRefused, PollAsked, Stop
<1>10. First => call.at = "first"
  BY DEF First
<1>11. AfterJump => call.at = "after_jump" /\ ~(Count(screen, Denials) > Count(call.text, Denials))
  BY <1>2, <1>3 DEF AfterJump
<1>12. TargetStage => call.at = "target" /\ ~AsksPassword(call.text) /\ ~Discovery
  BY <1>2, <1>3 DEF TargetStage
<1>13. Settle => call.at = "settle" /\ ~Refused
  BY <1>2, <1>3 DEF Settle
<1>14. AtPrompt => call.at = "prompt" /\ LastLine(call.text) = "shell"
  BY <1>3 DEF AtPrompt
<1>15. PollEnds => call.at = "poll" /\ ssh.reached
  BY <1>3 DEF PollEnds
<1> QED
  BY <1>5, <1>6, <1>7, <1>8, <1>9, <1>10, <1>11, <1>12, <1>13, <1>14, <1>15 DEF Next, Login

(* No login succeeds in which a password was refused, also if unrelated    *)
(* lines follow the refusal (_wait_after_jump_password and the settling).  *)
THEOREM RefusalsAreReported == Spec => RefusalIsReported
<1>1. IInv /\ [Next]_vars
        => [call.at # "idle" /\ call'.result = "ok" => refusals.login = 0]_vars
  <2> SUFFICES ASSUME IInv, Next, call.at # "idle", call'.result = "ok", refusals.login # 0
               PROVE  FALSE
    OBVIOUS
  <2>1. screen \in Seq(Lines) /\ call.text \in Seq(Lines) /\ IsPrefix(call.text, screen)
    BY DEF IInv, TypeOK
  <2>2. typed # <<>>
    BY DEF IInv, StepInv
  <2>3. CASE call.at = "first"
    BY <2>2, <2>3 DEF IInv, StepInv, BeforeJump
  <2>4. CASE call.at = "after_jump" /\ ~(Count(screen, Denials) > Count(call.text, Denials))
    <3>1. PICK j \in (Len(call.text) + 1)..Len(screen) : screen[j] \in Denials
      BY <2>4 DEF IInv, DenialInv
    <3> QED
      BY <2>1, <2>4, <3>1, CountsMore
  <2>5. CASE call.at = "target" /\ ~AsksPassword(call.text) /\ ~Discovery
    <3>1. device.flow = "managed"
      BY <2>5, AuthAssumption DEF IInv, StepInv, TypeOK, Discovery
    <3> QED
      BY <2>2, <2>5, <3>1 DEF IInv, TextInv
  <2>6. CASE call.at = "settle" /\ ~Refused
    <3>1. OnScreen \cap Denials # {}
      BY <2>6 DEF IInv, DenialInv
    <3> QED
      BY <2>1, <2>6, <3>1, Counts DEF Refused, OnScreen
  <2>7. CASE call.at = "prompt" /\ LastLine(call.text) = "shell"
    <3>1. call.new = TRUE
      BY <2>7 DEF IInv, StepInv, Discovery
    <3>2. "shell" \in OnScreen
      BY <2>7, ReadIsShown
    <3> QED
      BY <3>1, <3>2 DEF IInv, HopInv
  <2>8. CASE call.at = "poll" /\ ssh.reached
    BY <2>8, ProbeIs
  <2> QED
    BY SuccessIs, <2>3, <2>4, <2>5, <2>6, <2>7, <2>8
<1> QED
  BY <1>1, Invariant, PTL DEF Spec, RefusalIsReported

=============================================================================
