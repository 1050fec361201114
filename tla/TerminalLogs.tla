---------------------------- MODULE TerminalLogs ----------------------------
(***************************************************************************)
(* The logs of the terminal sessions (terminal.py) and the commands that   *)
(* delete them (delete logging in cli/main.py).  A session of any process  *)
(* makes the directory of its device, chooses a file name that is free and *)
(* has tmux start a cat that creates the file later.  Which file a session *)
(* writes is recorded nowhere: a deletion is refused for a device that has *)
(* a session.  The operator confirms a plan, the plan is built again, and  *)
(* only the same plan is applied.                                          *)
(*                                                                         *)
(* An entry of a log directory that is no log (another file, a directory,  *)
(* a symbolic link) is a device in strange; the sorted order of files and  *)
(* devices is some fixed order.                                            *)
(***************************************************************************)
EXTENDS Naturals, FiniteSets

CONSTANTS
  Device,
  Session,      (* pairs of a device and a kind of session                   *)
  None,         (* no device, no log, no plan                                *)
  MaxSecond,    (* bound on the seconds of the clock                         *)
  MaxNumber,    (* bound on the logs of a device in one second               *)
  MaxStarts,    (* bound on the sessions started                             *)
  MaxCommands   (* bound on the delete commands                              *)

ASSUME LogsAssumption ==
  /\ Session \subseteq Device \X {"production", "discovery", "tunnel", "discovery_tunnel"}
  /\ None \notin Device
  /\ MaxSecond \in Nat /\ MaxNumber \in Nat \ {0} /\ MaxStarts \in Nat /\ MaxCommands \in Nat

VARIABLES
  clock,     (* the current second                                           *)
  dirs,      (* the devices that have a log directory                        *)
  logs,      (* the log files                                                *)
  strange,   (* the devices whose directory holds something else             *)
  session,   (* the sessions of the tmux server                              *)
  orphans,   (* files that the cat of a killed session is about to create    *)
  op,        (* the delete command of the CLI                                *)
  appeared,  (* history: devices whose directory got an entry since it was   *)
             (* listed, or since the answer                                  *)
  starts, commands

disk == <<dirs, logs, strange>>
vars == <<clock, disk, session, orphans, op, appeared, starts, commands>>

(* <timestamp>.log has number 1, <timestamp>_2.log number 2 and so on.     *)
Log == [dev : Device, second : 0..MaxSecond, number : 1..MaxNumber]

Absent == [at |-> "absent", log |-> None, cat |-> "none"]
Dev(s) == s[1]
LogsOf(d) == {f \in logs : f.dev = d}

Kinds == {"file", "device_all", "device_directory", "all", "all_directory"}
IsGlobal(kind) == kind \in {"all", "all_directory"}
TakesDirectories(kind) == kind \in {"device_directory", "all_directory"}

Plan == [files : SUBSET Log, directories : SUBSET Device]

Idle == [at |-> "idle", kind |-> "all", dev |-> None, file |-> None, todo |-> {}, cur |-> None,
         found |-> {}, active |-> FALSE, files |-> {}, directories |-> {}, shown |-> None]

SessionState == [at : {"absent", "made", "directory", "piped", "open"},
                 log : Log \cup {None},
                 cat : {"none", "starting", "writing", "failed"}]

Op == [at : {"idle", "list", "entries", "active", "ask", "apply", "done", "stopped"},
       kind : Kinds, dev : Device \cup {None}, file : Log \cup {None},
       todo : SUBSET Device, cur : Device \cup {None}, found : SUBSET Log,
       active : BOOLEAN, files : SUBSET Log, directories : SUBSET Device,
       shown : Plan \cup {None}]

TypeOK ==
  /\ clock \in 0..MaxSecond
  /\ dirs \subseteq Device /\ strange \subseteq dirs /\ appeared \subseteq Device
  /\ logs \subseteq Log /\ orphans \subseteq Log
  /\ session \in [Session -> SessionState]
  /\ op \in Op
  /\ starts \in 0..MaxStarts /\ commands \in 0..MaxCommands

Init ==
  /\ clock = 0
  /\ dirs \in SUBSET Device
  /\ \E full \in SUBSET dirs : logs = {[dev |-> d, second |-> 0, number |-> 1] : d \in full}
  /\ strange \in SUBSET dirs
  /\ session = [s \in Session |-> Absent]
  /\ orphans = {}
  /\ op = Idle
  /\ appeared = {}
  /\ starts = 0 /\ commands = 0

-----------------------------------------------------------------------------
(* Sessions and their logs                                                 *)

Appear(d) == appeared' = appeared \cup {d}

(* tmux new-session succeeds for a name that no session has.               *)
NewSession(s) ==
  /\ session[s].at = "absent" /\ starts < MaxStarts
  /\ session' = [session EXCEPT ![s].at = "made"]
  /\ starts' = starts + 1
  /\ UNCHANGED <<clock, disk, orphans, op, appeared, commands>>

MakeDirectory(s) ==
  /\ session[s].at = "made"
  /\ session' = [session EXCEPT ![s].at = "directory"]
  /\ dirs' = dirs \cup {Dev(s)}
  /\ UNCHANGED <<clock, logs, strange, orphans, op, appeared, starts, commands>>

(* The name is only looked up, so two sessions can choose the same.        *)
UniqueLogPath(d, f) ==
  /\ f.dev = d /\ f.second = clock
  /\ f \notin logs
  /\ \A k \in 1..(f.number - 1) : [f EXCEPT !.number = k] \in logs

PipePane(s) ==
  /\ session[s].at = "directory"
  /\ \E f \in Log :
       /\ UniqueLogPath(Dev(s), f)
       /\ session' = [session EXCEPT ![s] = [at |-> "piped", log |-> f, cat |-> "starting"]]
  /\ UNCHANGED <<clock, disk, orphans, op, appeared, starts, commands>>

(* The shell of cat >> opens the file, unless the directory is gone.       *)
CatStarts(s) ==
  /\ session[s].cat = "starting"
  /\ IF Dev(s) \in dirs
     THEN /\ session' = [session EXCEPT ![s].cat = "writing"]
          /\ logs' = logs \cup {session[s].log}
          /\ Appear(Dev(s))
     ELSE /\ session' = [session EXCEPT ![s].cat = "failed"]
          /\ UNCHANGED <<logs, appeared>>
  /\ UNCHANGED <<clock, dirs, strange, orphans, op, starts, commands>>

(* #{pane_pipe} is still 1 while tmux has not noticed that its cat ended.  *)
ReleaseGate(s) ==
  /\ session[s].at = "piped"
  /\ session' = [session EXCEPT ![s].at = "open"]
  /\ UNCHANGED <<clock, disk, orphans, op, appeared, starts, commands>>

(* The session is closed, fails while it is created, or its server ends.   *)
Kill(s) ==
  /\ session[s].at # "absent"
  /\ session' = [session EXCEPT ![s] = Absent]
  /\ orphans' = IF session[s].cat = "starting" THEN orphans \cup {session[s].log} ELSE orphans
  /\ UNCHANGED <<clock, disk, op, appeared, starts, commands>>

OrphanStarts(f) ==
  /\ f \in orphans
  /\ orphans' = orphans \ {f}
  /\ IF f.dev \in dirs
     THEN logs' = logs \cup {f} /\ Appear(f.dev)
     ELSE UNCHANGED <<logs, appeared>>
  /\ UNCHANGED <<clock, dirs, strange, session, op, starts, commands>>

(* Somebody leaves something else in a log directory.                      *)
Stray(d) ==
  /\ d \in dirs \ strange
  /\ strange' = strange \cup {d}
  /\ Appear(d)
  /\ UNCHANGED <<clock, dirs, logs, session, orphans, op, starts, commands>>

Tick ==
  /\ clock < MaxSecond
  /\ clock' = clock + 1
  /\ UNCHANGED <<disk, session, orphans, op, appeared, starts, commands>>

-----------------------------------------------------------------------------
(* delete logging                                                          *)

\* Faulty: only the sessions of the MCP server count.
HasProductionSession(d) ==
  \E s \in Session : Dev(s) = d /\ s[2] # "discovery" /\ session[s].at # "absent"

HasActiveSession(d) == \E s \in Session : Dev(s) = d /\ session[s].at # "absent"

Scope(o) == IF IsGlobal(o.kind) THEN dirs ELSE {o.dev}

(* A build goes through the devices one by one; Concluded is what comes    *)
(* after the last: the question, a refusal, or the confirmed work.         *)
Concluded(o) ==
  LET plan == [files |-> o.files, directories |-> o.directories]
  IN CASE o.todo # {} -> [o EXCEPT !.at = "list"]
       [] o.todo = {} /\ (o.active \/ plan = [files |-> {}, directories |-> {}]) -> Idle
       [] OTHER -> IF o.shown = None THEN [o EXCEPT !.at = "ask", !.shown = plan]
                   ELSE IF o.shown = plan THEN [o EXCEPT !.at = "apply"]
                   ELSE Idle

Build(o) ==
  Concluded([o EXCEPT !.todo = Scope(o), !.active = FALSE, !.files = {}, !.directories = {}])

Command(kind, d, f) ==
  /\ op.at = "idle" /\ commands < MaxCommands
  /\ IF IsGlobal(kind) THEN d = None /\ f = None
     ELSE IF kind = "file" THEN f # None /\ f \in LogsOf(d)
     ELSE d \in Device /\ f = None
  /\ op' = Build([Idle EXCEPT !.kind = kind, !.dev = d, !.file = f])
  /\ commands' = commands + 1
  /\ UNCHANGED <<clock, disk, session, orphans, appeared, starts>>

First(devices) == CHOOSE d \in devices : TRUE

(* The eligible logs of the next device.                                   *)
Listed(o, d) ==
  LET found == IF o.kind # "file" THEN LogsOf(d) ELSE LogsOf(d) \cap {o.file}
      next == [o EXCEPT !.cur = d, !.found = found, !.todo = @ \ {d}]
  IN CASE TakesDirectories(o.kind) -> IF d \in dirs THEN [next EXCEPT !.at = "entries"] ELSE Idle
       [] ~TakesDirectories(o.kind) /\ found # {} -> [next EXCEPT !.at = "active"]
       [] OTHER -> IF IsGlobal(o.kind) THEN Concluded(next) ELSE Idle

ListLogs ==
  /\ op.at = "list"
  /\ LET d == First(op.todo)
     IN op' = Listed(op, d) /\ appeared' = appeared \ {d}
  /\ UNCHANGED <<clock, disk, session, orphans, starts, commands>>

(* A directory is removed only if it holds nothing but those logs.         *)
OnlyLogs(d, found) == d \notin strange /\ LogsOf(d) \subseteq found

CheckEntries ==
  /\ op.at = "entries"
  /\ op' = IF OnlyLogs(op.cur, op.found) THEN [op EXCEPT !.at = "active"] ELSE Idle
  /\ UNCHANGED <<clock, disk, session, orphans, appeared, starts, commands>>

Checked(o) ==
  IF HasActiveSession(o.cur)
  THEN IF o.kind = "all" THEN Concluded([o EXCEPT !.active = TRUE]) ELSE Idle
  ELSE Concluded([o EXCEPT !.files = @ \cup o.found,
                           !.directories = IF TakesDirectories(o.kind) THEN @ \cup {o.cur} ELSE @])

CheckActive ==
  /\ op.at = "active"
  /\ op' = Checked(op)
  /\ UNCHANGED <<clock, disk, session, orphans, appeared, starts, commands>>

\* Faulty: what was confirmed is applied without a second look.
ConfirmAtOnce(o) == [o EXCEPT !.at = "apply"]

Confirm(o) == Build(o)

Answer(yes) ==
  /\ op.at = "ask"
  /\ op' = IF yes THEN Confirm(op) ELSE Idle
  /\ appeared' = {}
  /\ UNCHANGED <<clock, disk, session, orphans, starts, commands>>

(* What the plan names, one after the other.                               *)
Unlink ==
  /\ op.at = "apply" /\ op.files # {}
  /\ LET f == CHOOSE g \in op.files : TRUE
     IN IF f \in logs
        THEN logs' = logs \ {f} /\ op' = [op EXCEPT !.files = @ \ {f}]
        ELSE op' = [op EXCEPT !.at = "stopped", !.cur = f.dev] /\ UNCHANGED logs
  /\ UNCHANGED <<clock, dirs, strange, session, orphans, appeared, starts, commands>>

RemoveDirectory ==
  /\ op.at = "apply" /\ op.files = {} /\ op.directories # {}
  /\ LET d == First(op.directories)
     IN IF d \in dirs /\ d \notin strange /\ LogsOf(d) = {}
        THEN dirs' = dirs \ {d} /\ op' = [op EXCEPT !.directories = @ \ {d}]
        ELSE op' = [op EXCEPT !.at = "stopped", !.cur = d] /\ UNCHANGED dirs
  /\ UNCHANGED <<clock, logs, strange, session, orphans, appeared, starts, commands>>

Report ==
  /\ op.at = "apply" /\ op.files = {} /\ op.directories = {}
  /\ op' = [op EXCEPT !.at = "done"]
  /\ UNCHANGED <<clock, disk, session, orphans, appeared, starts, commands>>

(* The CLI is back at its prompt; rmdir's OSError ends it, and another     *)
(* is started.                                                             *)
CommandEnds ==
  /\ op.at \in {"done", "stopped"}
  /\ op' = Idle
  /\ UNCHANGED <<clock, disk, session, orphans, appeared, starts, commands>>

-----------------------------------------------------------------------------
SessionStep(s) ==
  NewSession(s) \/ MakeDirectory(s) \/ PipePane(s) \/ CatStarts(s) \/ ReleaseGate(s) \/ Kill(s)

Deletion ==
  \/ \E kind \in Kinds, d \in Device \cup {None}, f \in logs \cup {None} : Command(kind, d, f)
  \/ \E yes \in BOOLEAN : Answer(yes)
  \/ ListLogs \/ CheckEntries \/ CheckActive \/ Unlink \/ RemoveDirectory \/ Report \/ CommandEnds

Next ==
  \/ \E s \in Session : SessionStep(s)
  \/ \E f \in orphans : OrphanStarts(f)
  \/ \E d \in Device : Stray(d)
  \/ Tick
  \/ Deletion

Spec == Init /\ [][Next]_vars

-----------------------------------------------------------------------------
(* terminal.py:791-810: while a session writes a log, the log is there,    *)
(* whatever the operator confirmed before the session began.               *)
LiveLogsStay ==
  \A s \in Session : session[s].cat = "writing" => session[s].log \in logs

(* main.py:1743-1764, terminal.py:1011-1022: a confirmed deletion leaves   *)
(* no log of its scope behind and does not stop halfway, except at a       *)
(* device whose directory got an entry after the answer and after it was   *)
(* listed for the last time.                                               *)
DeletionIsWhole ==
  /\ op.at = "done" =>
       \A f \in logs : (IsGlobal(op.kind) \/ f.dev = op.dev)
                         => f.dev \in appeared \/ op.kind = "file"
  /\ op.at = "stopped" => op.cur \in appeared
=============================================================================
