---------------------------- MODULE ManagedAuth ----------------------------
(***************************************************************************)
(* Password login over SSH, stage by stage (terminal.py, discovery.py,     *)
(* hostkey_tofu.py): what is read from the pane, what is concluded from    *)
(* its last line, and which password is then typed to whoever asks by      *)
(* that time.  Three flows share the jump stage: terminal_open ("managed"),*)
(* Discovery's bootstrap login ("xr", "ios"), and the probe of a host key  *)
(* behind a jump host ("probe").                                           *)
(*                                                                         *)
(* One device and one connection; a call holds the session's lock, so      *)
(* nothing but ssh changes the pane during it.                             *)
(***************************************************************************)
EXTENDS Naturals, Sequences, SequencesExt

CONSTANTS
  Devices,     (* access-info entries: flow, jump host or not, secrets set   *)
  Budget,      (* counters["limit"]                                          *)
  MaxCalls,    (* bound on the calls                                         *)
  MaxTries,    (* passwords a hop refuses before it disconnects              *)
  MaxNotes,    (* bound on unrelated lines of output                         *)
  MaxInputs    (* bound on terminal_send between two calls                   *)

ASSUME AuthAssumption ==
  /\ Devices \subseteq [flow : {"managed", "xr", "ios", "probe"}, jump : BOOLEAN,
                        secrets : SUBSET {"jump", "target", "name"}]
  /\ {Budget, MaxCalls, MaxTries, MaxNotes, MaxInputs} \subseteq Nat

VARIABLES
  device,      (* the device of this behaviour                               *)
  ssh,         (* the ssh process                                            *)
  screen,      (* the lines of the pane                                      *)
  call,        (* the login in progress                                      *)
  typed,       (* history: what this login typed, and who read it            *)
  run,         (* counters of the probes of one command                      *)
  refusals,    (* history: passwords refused, in this login and this command *)
  calls, notes, inputs

env == <<ssh, screen>>
vars == <<device, env, call, typed, run, refusals, calls, notes, inputs>>

(* "vague" cannot be attributed to a hop, "other" names a third host.      *)
Prompts == {"jump", "target", "vague", "other"}
Denials == {"jump_denied", "denied"}
Lines == Prompts \cup Denials \cup {"name", "shell", "note"}

Phases == {"off", "to_jump", "asks_jump", "checks_jump", "to_target", "asks_name",
           "asks_target", "checks_target", "shell", "asks_inner", "ended"}

Idle == [at |-> "idle", new |-> FALSE, text |-> <<>>, result |-> "none"]

Steps == {"idle", "first", "jump", "recheck", "send_jump", "after_jump", "await",
          "name", "send_name", "renew", "target", "send_target", "settle", "prompt", "poll"}

TypeOK ==
  /\ device \in Devices
  /\ ssh \in [phase : Phases, tries : 0..MaxTries, reached : BOOLEAN]
  /\ screen \in Seq(Lines)
  /\ call \in [at : Steps, new : BOOLEAN, text : Seq(Lines), result : {"none", "ok", "failed"}]
  /\ IsPrefix(call.text, screen) \/ call.at = "idle"
  /\ typed \in Seq([secret : {"jump", "target", "name"},
                    reader : {"jump", "target", "name", "inner", "shell", "ahead"}])
  /\ run \in [sends : 0..Budget, failed : BOOLEAN]
  /\ refusals \in [login : 0..1, command : Nat, unread : 0..MaxCalls]
  /\ calls \in 0..MaxCalls /\ notes \in 0..MaxNotes /\ inputs \in 0..MaxInputs

-----------------------------------------------------------------------------
(* What is read from the pane.                                             *)

LastLine(text) == IF text = <<>> THEN "blank" ELSE text[Len(text)]

AsksPassword(text) == LastLine(text) \in Prompts

Count(text, lines) == Quantify(1..Len(text), LAMBDA i : text[i] \in lines)

(* _wait_for_pattern() looks at the last five lines.                       *)
Shows(text, lines) ==
  \E i \in 1..Len(text) : i + 5 > Len(text) /\ text[i] \in lines

\* Faulty: any password prompt of the first stage is taken for the jump host's.
ClassifyByStage(line) ==
  IF line \in Prompts /\ call.at \in {"jump", "poll"} THEN "jump" ELSE "unknown"

(* _classify_proxyjump_prompt()                                            *)
Classify(line) == IF line \in {"jump", "target"} THEN line ELSE "unknown"

(* resolve_target_password_prompt()                                        *)
Answerable(line) == ~device.jump \/ Classify(line) = "target"

(* What each flow waits for first.                                         *)
Awaited ==
  CASE device.flow = "managed" -> Prompts \cup Denials
    [] device.flow = "xr"      -> Prompts \cup {"shell"}
    [] device.flow = "ios"     -> Prompts \cup {"name", "shell"}
    [] device.flow = "probe"   -> {}

Discovery == device.flow \in {"xr", "ios"}

-----------------------------------------------------------------------------
(* Calls.                                                                  *)

Goto(step) == call' = [call EXCEPT !.at = step]
GotoWith(step, text) == call' = [call EXCEPT !.at = step, !.text = text]
Return(result) == call' = [Idle EXCEPT !.result = result]

(* A probe kills its ssh process, a failed login closes the session that   *)
(* it created.                                                             *)
Quit ==
  /\ ssh' = [phase |-> "off", tries |-> 0, reached |-> FALSE]
  /\ screen' = <<>>

Fail ==
  /\ Return("failed")
  /\ IF call.new THEN Quit ELSE UNCHANGED env

Succeed == Return("ok") /\ UNCHANGED env

(* Who reads a line that is typed now; "ahead" waits until a check ends.   *)
Reader ==
  CASE ssh.phase \in {"asks_jump", "asks_target", "asks_name", "asks_inner"} ->
         (CASE ssh.phase = "asks_jump" -> "jump" [] ssh.phase = "asks_target" -> "target"
            [] ssh.phase = "asks_name" -> "name" [] ssh.phase = "asks_inner" -> "inner")
    [] ssh.phase = "shell" -> "shell"
    [] OTHER -> "ahead"

Answered ==
  [ssh EXCEPT !.phase = CASE @ = "asks_jump" -> "checks_jump"
                          [] @ = "asks_target" -> "checks_target"
                          [] @ = "asks_name" -> "to_target"
                          [] OTHER -> @]

(* _send_secret_text() and Enter; tmux refuses a pane that has ended.      *)
Types(secret, step, text) ==
  IF ssh.phase = "ended" THEN Fail /\ UNCHANGED typed
  ELSE /\ typed' = Append(typed, [secret |-> secret, reader |-> Reader])
       /\ ssh' = Answered
       /\ GotoWith(step, text)
       /\ UNCHANGED screen

(* Discovery replaces its session, a probe has one of its own, and only    *)
(* terminal_open goes on with a running one.                               *)
Open ==
  LET reuses == device.flow = "managed" /\ ssh.phase \notin {"off", "ended"}
  IN /\ call.at = "idle" /\ calls < MaxCalls
     /\ calls' = calls + 1
     /\ typed' = <<>> /\ refusals' = [refusals EXCEPT !.login = 0]
     /\ IF device.flow = "probe" /\ run.failed
        THEN Return("failed") /\ UNCHANGED env
        ELSE /\ call' = [Idle EXCEPT !.at = IF device.flow = "probe" THEN "poll" ELSE "first",
                                     !.new = ~reuses]
             /\ IF reuses THEN UNCHANGED env
                ELSE /\ ssh' = [phase |-> IF device.jump THEN "to_jump" ELSE "to_target",
                                tries |-> 0, reached |-> FALSE]
                     /\ screen' = <<>>
     /\ UNCHANGED <<device, run, notes, inputs>>

Unmoved == UNCHANGED <<device, run, refusals, calls, notes, inputs>>

(* The first observation: a wait in a new session, one capture otherwise.  *)
(* A managed login that sees nothing in time leaves the session as it is.  *)
First ==
  /\ call.at = "first"
  /\ \/ /\ call.new => Shows(screen, Awaited)
        /\ GotoWith("jump", screen)
        /\ UNCHANGED env
     \/ /\ call.new /\ ~Shows(screen, Awaited)
        /\ IF Discovery THEN Fail ELSE Succeed
  /\ UNCHANGED typed /\ Unmoved

(* _answer_jump_stage(), _authenticate_jump_stage()                        *)
JumpStage ==
  LET line == LastLine(call.text)
      jumps == device.jump /\ AsksPassword(call.text) /\ Classify(line) = "jump"
  IN /\ call.at = "jump"
     /\ \/ ~jumps /\ Goto("name") /\ UNCHANGED env
        \/ jumps /\ "jump" \in device.secrets /\ Goto("recheck") /\ UNCHANGED env
        \/ jumps /\ "jump" \notin device.secrets /\ Fail
     /\ UNCHANGED typed /\ Unmoved

(* The pane must still end in the same prompt.                             *)
Recheck ==
  /\ call.at = "recheck"
  /\ IF ssh.phase = "ended" \/ LastLine(screen) # LastLine(call.text) THEN Fail
     ELSE Goto("send_jump") /\ UNCHANGED env
  /\ UNCHANGED typed /\ Unmoved

SendJump ==
  /\ call.at = "send_jump"
  /\ Types("jump", IF device.flow = "probe" THEN "poll" ELSE "after_jump", call.text)
  /\ Unmoved

(* _wait_after_jump_password(): occurrences are counted, so that the old   *)
(* prompt is not mistaken for a new one.                                   *)
AfterJump ==
  LET line == LastLine(call.text)
      refused == \/ Count(screen, {line}) > Count(call.text, {line})
                 \/ Count(screen, Denials) > Count(call.text, Denials)
      next == AsksPassword(screen) /\ LastLine(screen) # line
  IN /\ call.at = "after_jump"
     /\ \/ refused /\ Fail
        \/ ~refused /\ next /\ GotoWith("name", screen) /\ UNCHANGED env
        \/ ~refused /\ ~next /\ ssh.phase = "ended" /\ Fail
        \/ /\ ~refused /\ ~next /\ ssh.phase # "ended"
           /\ IF Discovery THEN Goto("await") /\ UNCHANGED env ELSE Succeed
     /\ UNCHANGED typed /\ Unmoved

\* Faulty: the wait for the device's prompt has no deadline.
AwaitForever ==
  /\ call.at = "await" /\ Shows(screen, {"shell"})
  /\ GotoWith("name", screen)
  /\ UNCHANGED <<env, typed>> /\ Unmoved

(* After a jump login without further prompt Discovery waits for the       *)
(* device's own.                                                           *)
Await ==
  /\ call.at = "await"
  /\ \/ Shows(screen, {"shell"}) /\ GotoWith("name", screen) /\ UNCHANGED env
     \/ ~Shows(screen, {"shell"}) /\ Fail
  /\ UNCHANGED typed /\ Unmoved

(* A username prompt belongs to _login_ios_style() only.                   *)
NameStage ==
  LET named == device.flow = "ios" /\ LastLine(call.text) = "name"
  IN /\ call.at = "name"
     /\ \/ ~named /\ Goto("target") /\ UNCHANGED env
        \/ named /\ "name" \in device.secrets /\ Goto("send_name") /\ UNCHANGED env
        \/ named /\ "name" \notin device.secrets /\ Fail
     /\ UNCHANGED typed /\ Unmoved

SendName ==
  /\ call.at = "send_name"
  /\ Types("name", "renew", call.text)
  /\ Unmoved

Renew ==
  LET renewed == screen # call.text /\ Shows(screen, Awaited)
  IN /\ call.at = "renew"
     /\ IF renewed THEN GotoWith("target", screen) /\ UNCHANGED env ELSE Fail
     /\ UNCHANGED typed /\ Unmoved

(* Without a password prompt a managed login is done, and Discovery must   *)
(* be at the device's prompt.  Discovery types an empty password if none   *)
(* is configured.                                                          *)
TargetStage ==
  /\ call.at = "target"
  /\ \/ ~AsksPassword(call.text) /\ ~Discovery /\ Succeed
     \/ ~AsksPassword(call.text) /\ Discovery /\ Goto("prompt") /\ UNCHANGED env
     \/ /\ AsksPassword(call.text)
        /\ IF Answerable(LastLine(call.text)) /\ (Discovery \/ "target" \in device.secrets)
           THEN Goto("send_target") /\ UNCHANGED env
           ELSE Fail
  /\ UNCHANGED typed /\ Unmoved

SendTarget ==
  /\ call.at = "send_target"
  /\ Types("target", "settle", call.text)
  /\ Unmoved

\* Faulty: only the last line is looked at.
RefusedAtLast == LastLine(screen) \in Prompts \cup Denials

Refused == AsksPassword(screen) \/ Count(screen, Denials) > 0

(* Any change of the pane settles a managed login; a failure message is    *)
(* looked for in all of its history.                                       *)
Settle ==
  /\ call.at = "settle"
  /\ \/ ~Discovery /\ screen # call.text /\ ~Refused /\ Succeed
     \/ ~Discovery /\ (screen = call.text \/ Refused) /\ Fail
     \/ Discovery /\ Shows(screen, {"shell"}) /\ GotoWith("prompt", screen) /\ UNCHANGED env
     \/ Discovery /\ ~Shows(screen, {"shell"}) /\ Fail
  /\ UNCHANGED typed /\ Unmoved

AtPrompt ==
  /\ call.at = "prompt"
  /\ IF LastLine(call.text) = "shell" THEN Succeed ELSE Fail
  /\ UNCHANGED typed /\ Unmoved

-----------------------------------------------------------------------------
(* probe_host_key(): one read of the probe's own terminal.                 *)

Output == SubSeq(screen, Len(call.text) + 1, Len(screen))

Sent == \E i \in 1..Len(typed) : typed[i].secret = "jump"

\* Faulty: only the final denial counts as a refusal.
RefusalIsDenial == Sent /\ ~AsksPassword(Output) /\ Count(Output, {"jump_denied"}) > 0

(* The jump host asks again, or says no.                                   *)
Refusal ==
  /\ Sent
  /\ \/ Classify(LastLine(Output)) = "jump"
     \/ ~AsksPassword(Output) /\ Count(Output, {"jump_denied"}) > 0

Stop == Return("failed") /\ Quit

MayOffer == run.sends < Budget

PollRefused ==
  /\ call.at = "poll" /\ Count(Output, {"shell"}) = 0 /\ Refusal
  /\ run' = [run EXCEPT !.failed = TRUE]
  /\ Stop
  /\ UNCHANGED <<device, typed, refusals, calls, notes, inputs>>

(* What is read so far is dropped when the password is sent.               *)
PollAsked ==
  LET answers == device.jump /\ Classify(LastLine(Output)) = "jump"
                   /\ "jump" \in device.secrets /\ MayOffer
  IN /\ call.at = "poll" /\ Count(Output, {"shell"}) = 0 /\ ~Refusal
     /\ AsksPassword(Output)
     /\ IF answers
        THEN /\ run' = [run EXCEPT !.sends = @ + 1]
             /\ GotoWith("send_jump", screen) /\ UNCHANGED env
        ELSE Stop /\ UNCHANGED run
     /\ UNCHANGED <<device, typed, refusals, calls, notes, inputs>>

(* The key is recorded, the connection ended, or time is over, whatever    *)
(* the pane would have said next; or the probe, against all options, was   *)
(* let in.                                                                 *)
PollEnds ==
  LET key == ssh.reached /\ Count(Output, {"shell"}) = 0
  IN /\ call.at = "poll"
     /\ Return(IF key THEN "ok" ELSE "failed") /\ Quit
     /\ refusals' = [refusals EXCEPT !.unread = IF Sent /\ ~key THEN @ + 1 ELSE @]
     /\ UNCHANGED <<device, typed, run, calls, notes, inputs>>

(* The next command has counters of its own.                               *)
NewRun ==
  /\ call.at = "idle" /\ run.sends > 0
  /\ run' = [sends |-> 0, failed |-> FALSE]
  /\ refusals' = [login |-> 0, command |-> 0, unread |-> 0]
  /\ UNCHANGED <<device, env, call, typed, calls, notes, inputs>>

-----------------------------------------------------------------------------
(* The ssh process and the hops.                                           *)

Others == UNCHANGED <<device, call, typed, run, calls, inputs>>

Moves(phase, lines) ==
  /\ ssh' = [ssh EXCEPT !.phase = phase, !.reached = @ \/ ssh.phase = "to_target"]
  /\ screen' = screen \o lines

AskJump ==
  /\ ssh.phase = "to_jump"
  /\ \/ \E p \in {"jump", "vague"} : Moves("asks_jump", <<p>>)
     \/ Moves("to_target", <<>>)
  /\ Others /\ UNCHANGED <<refusals, notes>>

AskTarget ==
  /\ ssh.phase = "to_target"
  /\ \/ \E p \in {"target", "vague"} : Moves("asks_target", <<p>>)
     \/ Moves("shell", <<"shell">>)
     \/ ~device.jump /\ device.flow = "ios" /\ Moves("asks_name", <<"name">>)
  /\ Others /\ UNCHANGED <<refusals, notes>>

Accept ==
  /\ \/ ssh.phase = "checks_jump" /\ Moves("to_target", <<>>)
     \/ ssh.phase = "checks_target" /\ Moves("shell", <<"shell">>)
  /\ Others /\ UNCHANGED <<refusals, notes>>

(* A refused password is asked for again, MaxTries times.                  *)
Refuse ==
  LET jump == ssh.phase = "checks_jump"
  IN /\ ssh.phase \in {"checks_jump", "checks_target"}
     /\ \/ /\ ssh.tries + 1 < MaxTries
           /\ \E p \in IF jump THEN {"jump"} ELSE {"target", "vague"} :
                screen' = screen \o <<"denied", p>>
           /\ ssh' = [ssh EXCEPT !.phase = IF jump THEN "asks_jump" ELSE "asks_target",
                                 !.tries = @ + 1]
        \/ Moves("ended", <<IF jump THEN "jump_denied" ELSE "denied">>)
     /\ refusals' = [refusals EXCEPT !.login = IF typed = <<>> THEN 0 ELSE 1,
                                     !.command = IF jump THEN @ + 1 ELSE @]
     /\ Others /\ UNCHANGED notes

Disconnect ==
  /\ ssh.phase \notin {"off", "ended"}
  /\ \E lines \in {<<>>, <<"denied">>} : Moves("ended", lines)
  /\ Others /\ UNCHANGED <<refusals, notes>>

Note ==
  /\ ssh.phase \notin {"off", "ended"} /\ notes < MaxNotes
  /\ notes' = notes + 1
  /\ screen' = Append(screen, "note")
  /\ Others /\ UNCHANGED <<ssh, refusals>>

(* terminal_send between two calls: a prompt is answered by hand, or a     *)
(* command asks for a password of its own.                                 *)
SendInput ==
  /\ call.at = "idle" /\ device.flow = "managed" /\ inputs < MaxInputs
  /\ inputs' = inputs + 1
  /\ \/ /\ ssh.phase \in {"asks_jump", "asks_target"}
        /\ ssh' = Answered
        /\ UNCHANGED screen
     \/ ssh.phase = "shell" /\ \E p \in {"vague", "other"} : Moves("asks_inner", <<p>>)
     \/ ssh.phase = "asks_inner" /\ Moves("shell", <<"shell">>)
  /\ UNCHANGED <<device, call, typed, run, refusals, calls, notes>>

-----------------------------------------------------------------------------
Init ==
  /\ device \in Devices
  /\ ssh = [phase |-> "off", tries |-> 0, reached |-> FALSE]
  /\ screen = <<>> /\ call = Idle /\ typed = <<>>
  /\ run = [sends |-> 0, failed |-> FALSE]
  /\ refusals = [login |-> 0, command |-> 0, unread |-> 0]
  /\ calls = 0 /\ notes = 0 /\ inputs = 0

Login ==
  \/ First \/ JumpStage \/ Recheck \/ SendJump \/ AfterJump \/ Await
  \/ NameStage \/ SendName \/ Renew \/ TargetStage \/ SendTarget
  \/ Settle \/ AtPrompt \/ PollRefused \/ PollAsked \/ PollEnds

Hops == AskJump \/ AskTarget \/ Accept \/ Refuse \/ Disconnect \/ Note

Next == Open \/ Login \/ NewRun \/ Hops \/ SendInput

Spec == Init /\ [][Next]_vars

(* Each wait of a login has a deadline.                                    *)
FairSpec == Spec /\ WF_vars(Login)

-----------------------------------------------------------------------------
(* Properties.                                                             *)

(* Whatever the hops ask, in whatever order and form: what a login types   *)
(* into a session that it opened is read by the hop whose secret it is, at *)
(* its prompt, and no secret is typed twice (resolve_target_password_      *)
(* prompt, _authenticate_jump_stage, probe_host_key).                      *)
SecretsMeetTheirHop ==
  call.new =>
    /\ \A i \in 1..Len(typed) : typed[i].reader = typed[i].secret
    /\ \A i, j \in 1..Len(typed) : typed[i].secret = typed[j].secret => i = j

(* The probes of one command (several devices, several reviews) offer a    *)
(* jump host a password that it refused only once, so that they do not     *)
(* lock the account (counters["jump_failed"]); a probe that ends before    *)
(* the answer is read learns nothing and is counted apart.                 *)
JumpRefusesOnce ==
  device.flow = "probe" => refusals.command <= 1 + refusals.unread

(* No login succeeds in which a password was refused, also if unrelated    *)
(* lines follow the refusal (_wait_after_jump_password and the settling).  *)
RefusalIsReported ==
  [][call.at # "idle" /\ call'.result = "ok" => refusals.login = 0]_vars

(* Every login ends, whatever the hops do.                                 *)
LoginEnds == call.at # "idle" ~> call.at = "idle"
=============================================================================
