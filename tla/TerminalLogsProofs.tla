------------------------- MODULE TerminalLogsProofs -------------------------
(***************************************************************************)
(* For any number of devices, sessions, seconds and commands: a deletion   *)
(* never takes the log of a living session, and it is whole or stops at a  *)
(* directory that got an entry behind its back.                            *)
(***************************************************************************)
EXTENDS TerminalLogs, TLAPS

-----------------------------------------------------------------------------
(* Types.  Building a plan yields an operation whatever it finds.          *)

HasScope(o) == IsGlobal(o.kind) \/ o.dev \in Device
OnDevice(o) ==
  /\ o.at = "list" => o.todo # {}
  /\ o.at \in {"entries", "active"} => o.cur \in Device

OpOK(o) == o \in Op /\ HasScope(o) /\ OnDevice(o)

(* A session that has started a cat has a log in its device's directory.   *)
Keeps(s, state) ==
  state.cat # "none" => state.at # "absent" /\ state.log \in Log /\ state.log.dev = Dev(s)

TypeInv == TypeOK /\ OpOK(op) /\ \A s \in Session : Keeps(s, session[s])

LEMMA IdleIsOK == OpOK(Idle)
BY DEF Idle, Op, Kinds, OpOK, HasScope, OnDevice, IsGlobal

LEMMA ConcludedIsOK ==
  ASSUME NEW o \in Op, HasScope(o)
  PROVE  OpOK(Concluded(o))
<1> DEFINE plan == [files |-> o.files, directories |-> o.directories]
<1>1. plan \in Plan
  BY DEF Op, Plan
<1>2. \/ Concluded(o) = [o EXCEPT !.at = "list"] /\ o.todo # {}
      \/ Concluded(o) = Idle
      \/ Concluded(o) = [o EXCEPT !.at = "ask", !.shown = plan]
      \/ Concluded(o) = [o EXCEPT !.at = "apply"]
  BY DEF Concluded
<1>3. (o.todo # {} => OpOK([o EXCEPT !.at = "list"])) /\ OpOK([o EXCEPT !.at = "apply"])
  BY DEF Op, OpOK, HasScope, OnDevice
<1>4. OpOK([o EXCEPT !.at = "ask", !.shown = plan])
  BY <1>1 DEF Op, OpOK, HasScope, OnDevice
<1> QED BY <1>2, <1>3, <1>4, IdleIsOK

LEMMA BuildIsOK ==
  ASSUME NEW o \in Op, HasScope(o), dirs \subseteq Device
  PROVE  OpOK(Build(o))
<1>1. Scope(o) \subseteq Device
  BY DEF Scope, HasScope
<1> DEFINE start == [o EXCEPT !.todo = Scope(o), !.active = FALSE, !.files = {},
                              !.directories = {}]
<1>2. start \in Op /\ HasScope(start)
  BY <1>1 DEF Op, HasScope
<1> QED BY <1>2, ConcludedIsOK DEF Build

LEMMA ListedIsOK ==
  ASSUME NEW o \in Op, HasScope(o), NEW d \in Device, logs \subseteq Log
  PROVE  OpOK(Listed(o, d))
<1> DEFINE found == IF o.kind # "file" THEN LogsOf(d) ELSE LogsOf(d) \cap {o.file}
           next == [o EXCEPT !.cur = d, !.found = found, !.todo = @ \ {d}]
<1>1. found \subseteq Log
  BY DEF LogsOf
<1>2. next \in Op /\ HasScope(next) /\ next.cur = d
  BY <1>1 DEF Op, HasScope
<1>3. \/ Listed(o, d) = [next EXCEPT !.at = "entries"]
      \/ Listed(o, d) = [next EXCEPT !.at = "active"]
      \/ Listed(o, d) = Concluded(next)
      \/ Listed(o, d) = Idle
  BY DEF Listed
<1>4. OpOK([next EXCEPT !.at = "entries"]) /\ OpOK([next EXCEPT !.at = "active"])
  <2> HIDE DEF next
  <2> QED BY <1>2 DEF Op, OpOK, HasScope, OnDevice
<1> QED BY <1>2, <1>3, <1>4, IdleIsOK, ConcludedIsOK

LEMMA CheckedIsOK ==
  ASSUME NEW o \in Op, HasScope(o), o.cur \in Device
  PROVE  OpOK(Checked(o))
<1> DEFINE refused == [o EXCEPT !.active = TRUE]
           taken == [o EXCEPT !.files = @ \cup o.found,
                              !.directories = IF TakesDirectories(o.kind) THEN @ \cup {o.cur} ELSE @]
<1>1. refused \in Op /\ HasScope(refused)
  BY DEF Op, HasScope
<1>2. taken \in Op /\ HasScope(taken)
  BY DEF Op, HasScope
<1>3. Checked(o) = Concluded(refused) \/ Checked(o) = Concluded(taken) \/ Checked(o) = Idle
  BY DEF Checked
<1> QED BY <1>1, <1>2, <1>3, IdleIsOK, ConcludedIsOK

LEMMA TypeInit == Init => TypeInv
<1> SUFFICES ASSUME Init PROVE TypeInv
  OBVIOUS
<1>1. OpOK(op)
  BY IdleIsOK DEF Init
<1>2. logs \subseteq Log
  BY LogsAssumption DEF Init, Log
<1>3. session \in [Session -> SessionState] /\ \A s \in Session : Keeps(s, session[s])
  BY DEF Init, Absent, SessionState, Keeps
<1> QED BY <1>1, <1>2, <1>3, LogsAssumption DEF Init, TypeInv, TypeOK, OpOK

LEMMA SessionStepTypes ==
  ASSUME TypeInv, NEW s \in Session, SessionStep(s)
  PROVE  TypeInv'
<1>t. /\ session \in [Session -> SessionState] /\ session[s] \in SessionState
      /\ Dev(s) \in Device /\ Keeps(s, session[s])
  BY LogsAssumption DEF TypeInv, TypeOK, Dev
<1>1. PICK state : session' = [session EXCEPT ![s] = state] /\ state \in SessionState
                   /\ Keeps(s, state)
  <2>1. CASE \E at \in {"made", "directory", "open"} :
               session' = [session EXCEPT ![s].at = at]
    <3>1. PICK at \in {"made", "directory", "open"} : session' = [session EXCEPT ![s].at = at]
      BY <2>1
    <3> DEFINE next == [session[s] EXCEPT !.at = at]
    <3>2. session' = [session EXCEPT ![s] = next]
      BY <3>1
    <3>3. next \in SessionState /\ next.at # "absent"
          /\ next.log = session[s].log /\ next.cat = session[s].cat
      BY <1>t DEF SessionState
    <3> HIDE DEF next
    <3>4. Keeps(s, next)
      BY <3>3, <1>t DEF Keeps
    <3> QED BY <3>2, <3>3, <3>4
  <2>2. CASE PipePane(s)
    BY <2>2, <1>t DEF PipePane, UniqueLogPath, SessionState, Keeps
  <2>3. CASE CatStarts(s)
    <3>1. session' = [session EXCEPT ![s].cat = "writing"]
          \/ session' = [session EXCEPT ![s].cat = "failed"]
      BY <2>3 DEF CatStarts
    <3> QED BY <2>3, <3>1, <1>t DEF CatStarts, SessionState, Keeps
  <2>4. CASE Kill(s)
    <3>1. Absent \in SessionState /\ Keeps(s, Absent)
      BY DEF Absent, SessionState, Keeps
    <3> QED BY <2>4, <3>1 DEF Kill
  <2> QED BY <2>1, <2>2, <2>3, <2>4
    DEF SessionStep, NewSession, MakeDirectory, ReleaseGate
<1>2. session' \in [Session -> SessionState] /\ \A r \in Session : Keeps(r, session'[r])
  BY <1>1, <1>t DEF TypeInv
<1>3. OpOK(op)' /\ (clock \in 0..MaxSecond)' /\ (op \in Op)'
      /\ (commands \in 0..MaxCommands)'
  <2>1. UNCHANGED <<clock, op, commands>>
    BY DEF SessionStep, NewSession, MakeDirectory, PipePane, CatStarts, ReleaseGate, Kill
  <2>2. OpOK(op)'
    BY <2>1 DEF TypeInv, OpOK, HasScope, OnDevice, IsGlobal
  <2> QED BY <2>1, <2>2 DEF TypeInv, TypeOK
<1>4. (starts \in 0..MaxStarts)'
  BY LogsAssumption DEF TypeInv, TypeOK, SessionStep, NewSession, MakeDirectory, PipePane,
     CatStarts, ReleaseGate, Kill
<1>5. /\ dirs' \subseteq Device /\ strange' \subseteq dirs' /\ appeared' \subseteq Device
      /\ logs' \subseteq Log /\ orphans' \subseteq Log
  BY <1>t DEF TypeInv, TypeOK, SessionStep, NewSession, MakeDirectory, PipePane, CatStarts,
     ReleaseGate, Kill, disk, Appear, Keeps
<1> QED BY <1>2, <1>3, <1>4, <1>5 DEF TypeInv, TypeOK

LEMMA OutsideStepTypes ==
  ASSUME TypeInv,
         \/ \E f \in orphans : OrphanStarts(f)
         \/ \E d \in Device : Stray(d)
         \/ Tick
  PROVE  TypeInv'
<1>1. UNCHANGED <<session, op, dirs, starts, commands>>
  BY DEF OrphanStarts, Stray, Tick, disk
<1>2. /\ clock' \in 0..MaxSecond /\ strange' \subseteq dirs' /\ appeared' \subseteq Device
      /\ logs' \subseteq Log /\ orphans' \subseteq Log
  BY LogsAssumption DEF TypeInv, TypeOK, OrphanStarts, Stray, Tick, disk, Appear, Log
<1>3. OpOK(op)'
  BY <1>1 DEF TypeInv, OpOK, HasScope, OnDevice, IsGlobal
<1> QED BY <1>1, <1>2, <1>3 DEF TypeInv, TypeOK, Keeps

(* What a step of the delete command leaves alone.                         *)
LEMMA DeletionFrame ==
  ASSUME Deletion
  PROVE  UNCHANGED <<clock, strange, session, orphans, starts>>
BY DEF Deletion, Command, Answer, ListLogs, CheckEntries, CheckActive, Unlink, RemoveDirectory,
   Report, CommandEnds, disk

LEMMA CommandIsOK ==
  ASSUME TypeInv, NEW kind \in Kinds, NEW d \in Device \cup {None}, NEW f \in logs \cup {None},
         Command(kind, d, f)
  PROVE  OpOK(op)'
<1> DEFINE start == [Idle EXCEPT !.kind = kind, !.dev = d, !.file = f]
<1>1. start \in Op /\ start.kind = kind /\ start.dev = d
  BY IdleIsOK DEF OpOK, Op, Idle, TypeInv, TypeOK
<1>2. HasScope(start)
  <2>1. CASE kind = "file"
    BY <2>1, <1>1 DEF Command, HasScope, LogsOf, TypeInv, TypeOK, Log, IsGlobal
  <2> QED BY <2>1, <1>1 DEF Command, HasScope
<1>3. op' = Build(start)
  BY DEF Command
<1> HIDE DEF start
<1>4. OpOK(op')
  BY <1>1, <1>2, <1>3, BuildIsOK DEF TypeInv, TypeOK
<1> QED BY <1>4 DEF OpOK, HasScope, OnDevice, IsGlobal

LEMMA DeletionIsOK ==
  ASSUME TypeInv, Deletion
  PROVE  OpOK(op')
<1>t. op \in Op /\ HasScope(op) /\ OnDevice(op) /\ logs \subseteq Log /\ dirs \subseteq Device
  BY DEF TypeInv, TypeOK, OpOK
<1>1. CASE \E kind \in Kinds, d \in Device \cup {None}, f \in logs \cup {None} : Command(kind, d, f)
  BY <1>1, CommandIsOK DEF OpOK, HasScope, OnDevice, IsGlobal
<1>2. CASE \E yes \in BOOLEAN : Answer(yes)
  BY <1>2, <1>t, BuildIsOK, IdleIsOK DEF Answer, Confirm
<1>3. CASE ListLogs
  <2>1. op.todo # {} /\ op.todo \subseteq Device /\ op' = Listed(op, First(op.todo))
    BY <1>3, <1>t DEF ListLogs, OnDevice, Op
  <2>2. First(op.todo) \in Device
    BY <2>1 DEF First
  <2> QED BY <1>t, <2>1, <2>2, ListedIsOK
<1>4. CASE CheckEntries
  <2>1. op.cur \in Device
    BY <1>4, <1>t DEF CheckEntries, OnDevice
  <2> QED BY <1>4, <1>t, <2>1, IdleIsOK DEF CheckEntries, OpOK, Op, HasScope, OnDevice
<1>5. CASE CheckActive
  BY <1>5, <1>t, CheckedIsOK DEF CheckActive, OnDevice
<1>6. CASE Unlink
  <2>1. PICK f \in op.files : \/ op' = [op EXCEPT !.files = @ \ {f}]
                            \/ op' = [op EXCEPT !.at = "stopped", !.cur = f.dev]
    BY <1>6 DEF Unlink
  <2>2. f.dev \in Device
    BY <1>t, <2>1 DEF Op, Log
  <2>3. OpOK([op EXCEPT !.files = @ \ {f}]) /\ OpOK([op EXCEPT !.at = "stopped", !.cur = f.dev])
    BY <1>6, <1>t, <2>2 DEF Unlink, OpOK, Op, HasScope, OnDevice
  <2> QED BY <2>1, <2>3
<1>7. CASE RemoveDirectory
  <2>1. PICK d \in op.directories : \/ op' = [op EXCEPT !.directories = @ \ {d}]
                                  \/ op' = [op EXCEPT !.at = "stopped", !.cur = d]
    BY <1>7 DEF RemoveDirectory, First
  <2>2. d \in Device
    BY <1>t, <2>1 DEF Op
  <2>3. OpOK([op EXCEPT !.directories = @ \ {d}]) /\ OpOK([op EXCEPT !.at = "stopped", !.cur = d])
    BY <1>7, <1>t, <2>2 DEF RemoveDirectory, OpOK, Op, HasScope, OnDevice
  <2> QED BY <2>1, <2>3
<1>8. CASE Report
  BY <1>8, <1>t DEF Report, OpOK, Op, HasScope, OnDevice
<1>9. CASE CommandEnds
  BY <1>9, IdleIsOK DEF CommandEnds
<1> QED BY <1>1, <1>2, <1>3, <1>4, <1>5, <1>6, <1>7, <1>8, <1>9 DEF Deletion

LEMMA DeletionTypes ==
  ASSUME TypeInv, Deletion
  PROVE  TypeInv'
<1>1. UNCHANGED <<clock, strange, session, orphans, starts>>
  BY DeletionFrame
<1>2. OpOK(op)'
  BY DeletionIsOK DEF OpOK, HasScope, OnDevice, IsGlobal
<1>3. commands' \in 0..MaxCommands
  <2>1. (commands < MaxCommands /\ commands' = commands + 1) \/ commands' = commands
    BY DEF Deletion, Command, Answer, ListLogs, CheckEntries, CheckActive, Unlink,
       RemoveDirectory, Report, CommandEnds
  <2> QED BY <2>1, LogsAssumption DEF TypeInv, TypeOK
<1>4. /\ dirs' \subseteq Device /\ strange' \subseteq dirs' /\ appeared' \subseteq Device
      /\ logs' \subseteq Log
  BY DEF TypeInv, TypeOK, Deletion, Command, Answer, ListLogs, CheckEntries, CheckActive, Unlink,
     RemoveDirectory, Report, CommandEnds, disk
<1> QED BY <1>1, <1>2, <1>3, <1>4 DEF TypeInv, TypeOK, OpOK, Keeps

LEMMA TypeStep == TypeInv /\ [Next]_vars => TypeInv'
<1> SUFFICES ASSUME TypeInv, [Next]_vars PROVE TypeInv'
  OBVIOUS
<1>1. CASE UNCHANGED vars
  BY <1>1 DEF vars, disk, TypeInv, TypeOK, OpOK, HasScope, OnDevice, IsGlobal, Keeps
<1> QED BY <1>1, SessionStepTypes, OutsideStepTypes, DeletionTypes DEF Next

(* Every variable keeps its type, and the delete command works on devices  *)
(* it has listed.                                                          *)
THEOREM TypeCorrect == Spec => []TypeOK
<1>1. TypeInv => TypeOK
  BY DEF TypeInv
<1> QED BY <1>1, TypeInit, TypeStep, PTL DEF Spec

-----------------------------------------------------------------------------
(* Live logs.  No session ever uses a log that a plan has taken up, since  *)
(* none existed when its device was checked and new logs have new names.   *)

HasCat(s) == session[s].cat \in {"starting", "writing"}
Unused(files) == \A s \in Session : HasCat(s) => session[s].log \notin files

Working(o) == o.at \in {"list", "entries", "active", "apply"}

Planned(o) ==
  /\ Working(o) => o.files \subseteq logs /\ Unused(o.files)
  /\ o.at \in {"entries", "active"} => o.found \subseteq LogsOf(o.cur)

LiveInv == LiveLogsStay /\ Planned(op)

LEMMA ConcludedIsPlanned ==
  ASSUME NEW o \in Op, o.files \subseteq logs, Unused(o.files)
  PROVE  Planned(Concluded(o))
<1> DEFINE plan == [files |-> o.files, directories |-> o.directories]
<1>1. \/ Concluded(o) = [o EXCEPT !.at = "list"]
      \/ Concluded(o) = Idle
      \/ Concluded(o) = [o EXCEPT !.at = "ask", !.shown = plan]
      \/ Concluded(o) = [o EXCEPT !.at = "apply"]
  BY DEF Concluded
<1>2. Planned([o EXCEPT !.at = "list"]) /\ Planned([o EXCEPT !.at = "apply"])
  BY DEF Op, Planned, Working
<1>3. Planned([o EXCEPT !.at = "ask", !.shown = plan])
  BY DEF Op, Planned, Working
<1>4. Planned(Idle)
  BY DEF Idle, Planned, Working
<1> QED BY <1>1, <1>2, <1>3, <1>4

LEMMA BuildIsPlanned ==
  ASSUME NEW o \in Op, HasScope(o), dirs \subseteq Device
  PROVE  Planned(Build(o))
<1> DEFINE start == [o EXCEPT !.todo = Scope(o), !.active = FALSE, !.files = {},
                              !.directories = {}]
<1>1. start \in Op /\ start.files = {}
  BY DEF Op, HasScope, Scope
<1> QED BY <1>1, ConcludedIsPlanned DEF Build, Unused

LEMMA ListedIsPlanned ==
  ASSUME NEW o \in Op, NEW d \in Device, logs \subseteq Log, o.at = "list", Planned(o)
  PROVE  Planned(Listed(o, d))
<1> DEFINE found == IF o.kind # "file" THEN LogsOf(d) ELSE LogsOf(d) \cap {o.file}
           next == [o EXCEPT !.cur = d, !.found = found, !.todo = @ \ {d}]
<1>1. next \in Op /\ next.files = o.files /\ next.cur = d /\ next.found \subseteq LogsOf(d)
  BY DEF Op, LogsOf
<1>2. o.files \subseteq logs /\ Unused(o.files)
  BY DEF Planned, Working
<1>3. \/ Listed(o, d) = [next EXCEPT !.at = "entries"]
      \/ Listed(o, d) = [next EXCEPT !.at = "active"]
      \/ Listed(o, d) = Concluded(next)
      \/ Listed(o, d) = Idle
  BY DEF Listed
<1> HIDE DEF next
<1>4. Planned([next EXCEPT !.at = "entries"]) /\ Planned([next EXCEPT !.at = "active"])
  BY <1>1, <1>2 DEF Op, Planned, Working
<1>5. Planned(Concluded(next))
  BY <1>1, <1>2, ConcludedIsPlanned
<1>6. Planned(Idle)
  BY DEF Idle, Planned, Working
<1> QED BY <1>3, <1>4, <1>5, <1>6

LEMMA CheckedIsPlanned ==
  ASSUME TypeInv, op.at = "active", Planned(op)
  PROVE  Planned(Checked(op))
<1> DEFINE refused == [op EXCEPT !.active = TRUE]
           taken == [op EXCEPT !.files = @ \cup op.found,
                               !.directories = IF TakesDirectories(op.kind) THEN @ \cup {op.cur} ELSE @]
<1>t. op \in Op /\ op.cur \in Device
  BY DEF TypeInv, OpOK, OnDevice
<1>1. op.files \subseteq logs /\ Unused(op.files) /\ op.found \subseteq LogsOf(op.cur)
  BY DEF Planned, Working
<1>2. refused \in Op /\ refused.files = op.files
  BY <1>t DEF Op
<1>3. taken \in Op /\ taken.files = op.files \cup op.found
  BY <1>t DEF Op
<1>4. CASE HasActiveSession(op.cur)
  <2>1. Planned(Idle)
    BY DEF Idle, Planned, Working
  <2>2. Planned(Concluded(refused))
    BY <1>1, <1>2, ConcludedIsPlanned
  <2> QED BY <1>4, <2>1, <2>2 DEF Checked
<1>5. CASE ~HasActiveSession(op.cur)
  <2>1. Unused(op.found)
    <3> SUFFICES ASSUME NEW s \in Session, HasCat(s), session[s].log \in op.found
                 PROVE  FALSE
      BY DEF Unused
    <3>1. session[s].log.dev = Dev(s) /\ session[s].at # "absent"
      BY DEF TypeInv, Keeps, HasCat
    <3>2. session[s].log.dev = op.cur
      BY <1>1 DEF LogsOf
    <3> QED BY <1>5, <3>1, <3>2 DEF HasActiveSession
  <2>2. Unused(op.files \cup op.found) /\ op.files \cup op.found \subseteq logs
    BY <1>1, <2>1 DEF Unused, LogsOf
  <2>3. Planned(Concluded(taken))
    BY <1>3, <2>2, ConcludedIsPlanned
  <2> QED BY <1>5, <2>3 DEF Checked
<1> QED BY <1>4, <1>5

(* Steps of others: logs grow, and only names that are free are chosen.    *)
LEMMA OthersKeepLive ==
  ASSUME TypeInv, LiveInv, UNCHANGED op, logs \subseteq logs',
         \A s \in Session : HasCat(s)' =>
           (HasCat(s) /\ session'[s].log = session[s].log) \/ session'[s].log \notin logs,
         LiveLogsStay'
  PROVE  LiveInv'
<1>1. ASSUME Working(op) PROVE op.files \subseteq logs' /\ Unused(op.files)'
  BY <1>1 DEF LiveInv, Planned, Unused
<1>2. ASSUME op.at \in {"entries", "active"} PROVE op.found \subseteq LogsOf(op.cur)'
  BY <1>2 DEF LiveInv, Planned, LogsOf
<1> QED BY <1>1, <1>2 DEF LiveInv, Planned, Working

LEMMA SessionStepLive ==
  ASSUME TypeInv, LiveInv, NEW s \in Session, SessionStep(s)
  PROVE  LiveInv'
<1>t. session \in [Session -> SessionState] /\ Keeps(s, session[s])
  BY DEF TypeInv, TypeOK
<1>1. UNCHANGED op /\ logs \subseteq logs'
  BY DEF SessionStep, NewSession, MakeDirectory, PipePane, CatStarts, ReleaseGate, Kill, disk
<1>2. \A r \in Session \ {s} : session'[r] = session[r]
  BY <1>t DEF SessionStep, NewSession, MakeDirectory, PipePane, CatStarts, ReleaseGate, Kill
<1>3. \/ session'[s].cat = session[s].cat /\ session'[s].log = session[s].log
      \/ session'[s].cat = "starting" /\ session'[s].log \notin logs
      \/ CatStarts(s) /\ session[s].cat = "starting" /\ session'[s].log = session[s].log
      \/ session'[s].cat = "none"
  BY <1>t DEF SessionStep, NewSession, MakeDirectory, PipePane, CatStarts, ReleaseGate, Kill,
     Absent, SessionState, UniqueLogPath
<1>4. LiveLogsStay'
  <2>1. session'[s].cat = "writing" => session'[s].log \in logs'
    BY <1>t, <1>1, <1>3 DEF CatStarts, LiveInv, LiveLogsStay, SessionState
  <2> QED BY <1>1, <1>2, <2>1 DEF LiveInv, LiveLogsStay
<1>5. \A r \in Session : HasCat(r)' =>
           (HasCat(r) /\ session'[r].log = session[r].log) \/ session'[r].log \notin logs
  BY <1>2, <1>3 DEF HasCat
<1> QED BY <1>1, <1>4, <1>5, OthersKeepLive

LEMMA DeletionLive ==
  ASSUME TypeInv, LiveInv, Deletion
  PROVE  LiveInv'
<1>t. op \in Op /\ HasScope(op) /\ OnDevice(op) /\ logs \subseteq Log /\ dirs \subseteq Device
  BY DEF TypeInv, TypeOK, OpOK
<1>s. UNCHANGED session
  BY DeletionFrame
<1>i. Planned(Idle)
  BY DEF Idle, Planned, Working
<1>u. ASSUME UNCHANGED logs, Planned(op') PROVE LiveInv'
  BY <1>u, <1>s DEF LiveInv, LiveLogsStay, Planned, Unused, HasCat, LogsOf, Working
<1>1. CASE \E kind \in Kinds, d \in Device \cup {None}, f \in logs \cup {None} : Command(kind, d, f)
  <2>1. PICK kind \in Kinds, d \in Device \cup {None}, f \in logs \cup {None} : Command(kind, d, f)
    BY <1>1
  <2> DEFINE start == [Idle EXCEPT !.kind = kind, !.dev = d, !.file = f]
  <2>2. start \in Op /\ start.kind = kind /\ start.dev = d
    BY <1>t, IdleIsOK DEF OpOK, Op, Idle
  <2>3. HasScope(start)
    <3>1. CASE kind = "file"
      BY <1>t, <2>1, <3>1, <2>2 DEF Command, HasScope, LogsOf, Log, IsGlobal
    <3> QED BY <2>1, <3>1, <2>2 DEF Command, HasScope
  <2> HIDE DEF start
  <2>4. Planned(Build(start))
    BY <1>t, <2>2, <2>3, BuildIsPlanned
  <2>5. op' = Build(start) /\ UNCHANGED logs
    BY <2>1 DEF Command, disk, start
  <2> QED BY <2>4, <2>5, <1>u
<1>2. CASE \E yes \in BOOLEAN : Answer(yes)
  <2>1. (op' = Build(op) \/ op' = Idle) /\ UNCHANGED logs
    BY <1>2 DEF Answer, Confirm, disk
  <2>2. Planned(Build(op))
    BY <1>t, BuildIsPlanned
  <2> QED BY <1>i, <1>u, <2>1, <2>2
<1>3. CASE ListLogs
  <2>1. op.todo # {} /\ op.todo \subseteq Device /\ op' = Listed(op, First(op.todo)) /\ UNCHANGED logs
    BY <1>3, <1>t DEF ListLogs, OnDevice, Op, disk
  <2>2. First(op.todo) \in Device
    BY <2>1 DEF First
  <2>3. Planned(op')
    BY <1>3, <1>t, <2>1, <2>2, ListedIsPlanned DEF ListLogs, LiveInv
  <2> QED BY <1>u, <2>1, <2>3
<1>4. CASE CheckEntries
  <2>1. Planned(op')
    BY <1>4, <1>t, <1>i DEF CheckEntries, LiveInv, Planned, Working, Op
  <2> QED BY <1>4, <1>u, <2>1 DEF CheckEntries, disk
<1>5. CASE CheckActive
  <2>1. Planned(Checked(op))
    BY <1>5, CheckedIsPlanned DEF CheckActive, LiveInv
  <2> QED BY <1>5, <1>u, <2>1 DEF CheckActive, disk
<1>6. CASE Unlink
  <2>1. op.files \subseteq logs /\ Unused(op.files)
    BY <1>6 DEF Unlink, LiveInv, Planned, Working
  <2>2. PICK f \in op.files : logs' = logs \ {f} /\ op' = [op EXCEPT !.files = @ \ {f}]
    BY <1>6, <2>1 DEF Unlink
  <2>3. LiveLogsStay'
    BY <1>s, <2>1, <2>2 DEF LiveInv, LiveLogsStay, Unused, HasCat
  <2>4. op'.at = "apply" /\ op'.files = op.files \ {f}
    BY <1>6, <1>t, <2>2 DEF Unlink, Op
  <2>5. Unused(op.files)' /\ (op.files \subseteq logs)'
    BY <1>s, <2>1, <2>2, <2>4 DEF Unused, HasCat
  <2>6. Planned(op)'
    BY <2>4, <2>5 DEF Planned
  <2> QED BY <2>3, <2>6 DEF LiveInv
<1>7. CASE RemoveDirectory
  <2>1. (op'.at = "apply" /\ op'.files = op.files) \/ op'.at = "stopped"
    BY <1>7, <1>t DEF RemoveDirectory, Op
  <2>2. Planned(op')
    BY <1>7, <2>1 DEF RemoveDirectory, LiveInv, Planned, Working
  <2> QED BY <1>7, <1>u, <2>2 DEF RemoveDirectory
<1>8. CASE Report
  <2>1. Planned(op')
    BY <1>8, <1>t DEF Report, Planned, Working, Op
  <2> QED BY <1>8, <1>u, <2>1 DEF Report, disk
<1>9. CASE CommandEnds
  BY <1>9, <1>i, <1>u DEF CommandEnds, disk
<1> QED BY <1>1, <1>2, <1>3, <1>4, <1>5, <1>6, <1>7, <1>8, <1>9 DEF Deletion

LEMMA LiveStep == TypeInv /\ LiveInv /\ [Next]_vars => LiveInv'
<1> SUFFICES ASSUME TypeInv, LiveInv, [Next]_vars PROVE LiveInv'
  OBVIOUS
<1>1. CASE UNCHANGED vars
  BY <1>1 DEF vars, disk, LiveInv, LiveLogsStay, Planned, Working, Unused, HasCat, LogsOf
<1>2. CASE (\E f \in orphans : OrphanStarts(f)) \/ (\E d \in Device : Stray(d)) \/ Tick
  <2>1. UNCHANGED <<op, session>> /\ logs \subseteq logs'
    BY <1>2 DEF OrphanStarts, Stray, Tick, disk
  <2>2. LiveLogsStay'
    BY <2>1 DEF LiveInv, LiveLogsStay
  <2> QED BY <2>1, <2>2, OthersKeepLive DEF HasCat
<1> QED BY <1>1, <1>2, SessionStepLive, DeletionLive DEF Next

(* The log of a living session is never removed, whatever the operator     *)
(* confirmed and whenever the session began.                               *)
THEOREM LiveLogsAreKept == Spec => []LiveLogsStay
<1>1. Init => LiveInv
  BY DEF Init, LiveInv, LiveLogsStay, Planned, Working, Idle, Absent
<1>2. LiveInv => LiveLogsStay
  BY DEF LiveInv
<1> QED BY <1>1, <1>2, TypeInit, TypeStep, LiveStep, PTL DEF Spec

-----------------------------------------------------------------------------
(* Whole deletions.  What is behind the build, in its scope and not in its *)
(* plan, came into a directory after it was listed.                        *)

InScope(o, d) == IsGlobal(o.kind) \/ d = o.dev

Taken(o, pending, since) ==
  /\ \A d \in o.todo : InScope(o, d)
  /\ o.directories \subseteq dirs /\ o.directories \cap pending = {}
  /\ \A d \in o.directories :
       /\ InScope(o, d) /\ o.kind # "file"
       /\ d \in strange => d \in since
  /\ ~o.active /\ o.kind # "file" =>
       \A f \in logs : InScope(o, f.dev) /\ f.dev \notin pending
                        => f \in o.files \/ f.dev \in since

OnCurrent(o, since) ==
  /\ InScope(o, o.cur) /\ o.cur \notin o.todo
  /\ o.kind # "file" => LogsOf(o.cur) \subseteq o.found \/ o.cur \in since
  /\ o.at = "entries" => TakesDirectories(o.kind)
  /\ TakesDirectories(o.kind) => o.cur \in dirs
  /\ TakesDirectories(o.kind) /\ o.at = "active" => (o.cur \in strange => o.cur \in since)

Whole(o, since) ==
  /\ o.at \in {"list", "apply"} => Taken(o, o.todo, since)
  /\ o.at \in {"entries", "active"} => Taken(o, o.todo \cup {o.cur}, since) /\ OnCurrent(o, since)
  /\ o.at = "apply" => o.todo = {} /\ ~o.active

LogsInDirectories == \A f \in logs : f.dev \in dirs

WholeInv == LogsInDirectories /\ Whole(op, appeared) /\ DeletionIsWhole

LEMMA IdleIsWhole == ASSUME NEW since PROVE Whole(Idle, since)
BY DEF Idle, Whole

LEMMA ConcludedIsWhole ==
  ASSUME NEW o \in Op, NEW since, Taken(o, o.todo, since)
  PROVE  Whole(Concluded(o), since)
<1> DEFINE plan == [files |-> o.files, directories |-> o.directories]
<1>1. \/ Concluded(o) = [o EXCEPT !.at = "list"]
      \/ Concluded(o) = Idle
      \/ Concluded(o) = [o EXCEPT !.at = "ask", !.shown = plan]
      \/ Concluded(o) = [o EXCEPT !.at = "apply"] /\ o.todo = {} /\ ~o.active
  BY DEF Concluded
<1>2. Whole([o EXCEPT !.at = "list"], since)
  BY DEF Op, Whole, Taken, InScope, IsGlobal
<1>3. o.todo = {} /\ ~o.active => Whole([o EXCEPT !.at = "apply"], since)
  BY DEF Op, Whole, Taken, InScope, IsGlobal
<1>4. Whole([o EXCEPT !.at = "ask", !.shown = plan], since)
  BY DEF Op, Whole
<1> QED BY <1>1, <1>2, <1>3, <1>4, IdleIsWhole

LEMMA BuildIsWhole ==
  ASSUME NEW o \in Op, NEW since, HasScope(o), dirs \subseteq Device, LogsInDirectories
  PROVE  Whole(Build(o), since)
<1> DEFINE start == [o EXCEPT !.todo = Scope(o), !.active = FALSE, !.files = {},
                              !.directories = {}]
<1>1. start \in Op /\ start.todo = Scope(o) /\ start.directories = {} /\ start.kind = o.kind
      /\ start.dev = o.dev
  BY DEF Op, HasScope, Scope
<1> HIDE DEF start
<1>2. Taken(start, start.todo, since)
  BY <1>1 DEF Taken, InScope, Scope, IsGlobal, LogsInDirectories
<1> QED BY <1>1, <1>2, ConcludedIsWhole DEF Build, start

(* Steps of others: what comes into a directory makes it appear.           *)
LEMMA OthersKeepWhole ==
  ASSUME TypeInv, WholeInv, UNCHANGED op, dirs \subseteq dirs', logs \subseteq logs',
         appeared \subseteq appeared', LogsInDirectories',
         \A f \in logs' \ logs : f.dev \in appeared',
         \A d \in strange' \ strange : d \in appeared'
  PROVE  WholeInv'
<1>1. DeletionIsWhole'
  BY DEF WholeInv, DeletionIsWhole
<1>2. ASSUME NEW pending, Taken(op, pending, appeared) PROVE Taken(op, pending, appeared)'
  BY <1>2 DEF Taken, InScope, WholeInv
<1>3. ASSUME OnCurrent(op, appeared) PROVE OnCurrent(op, appeared)'
  BY <1>3 DEF OnCurrent, InScope, LogsOf, WholeInv
<1>4. Whole(op, appeared)'
  BY <1>2, <1>3 DEF Whole, WholeInv
<1> QED BY <1>1, <1>4 DEF WholeInv

LEMMA SessionStepWhole ==
  ASSUME TypeInv, WholeInv, NEW s \in Session, SessionStep(s)
  PROVE  WholeInv'
<1>t. session \in [Session -> SessionState] /\ Keeps(s, session[s])
  BY DEF TypeInv, TypeOK
<1>1. UNCHANGED <<op, strange>> /\ dirs \subseteq dirs' /\ appeared \subseteq appeared'
  BY DEF SessionStep, NewSession, MakeDirectory, PipePane, CatStarts, ReleaseGate, Kill, disk, Appear
<1>2. \/ logs' = logs
      \/ /\ logs' = logs \cup {session[s].log} /\ session[s].log.dev = Dev(s)
         /\ Dev(s) \in dirs /\ Dev(s) \in appeared'
  BY <1>t DEF SessionStep, NewSession, MakeDirectory, PipePane, CatStarts, ReleaseGate, Kill, disk,
     Appear, Keeps
<1>3. LogsInDirectories'
  BY <1>1, <1>2 DEF WholeInv, LogsInDirectories
<1> QED BY <1>1, <1>2, <1>3, OthersKeepWhole

LEMMA OutsideStepWhole ==
  ASSUME TypeInv, WholeInv,
         \/ \E f \in orphans : OrphanStarts(f)
         \/ \E d \in Device : Stray(d)
         \/ Tick
  PROVE  WholeInv'
<1>1. UNCHANGED <<op, dirs>> /\ appeared \subseteq appeared' /\ logs \subseteq logs'
  BY DEF OrphanStarts, Stray, Tick, disk, Appear
<1>2. /\ \A f \in logs' \ logs : f.dev \in dirs /\ f.dev \in appeared'
      /\ \A d \in strange' \ strange : d \in appeared'
  BY DEF OrphanStarts, Stray, Tick, disk, Appear
<1>3. LogsInDirectories'
  BY <1>1, <1>2 DEF WholeInv, LogsInDirectories
<1> QED BY <1>1, <1>2, <1>3, OthersKeepWhole

LEMMA ListedIsWhole ==
  ASSUME NEW o \in Op, NEW d \in o.todo, NEW since, logs \subseteq Log, o.todo \subseteq Device,
         o.at = "list", Whole(o, since)
  PROVE  Whole(Listed(o, d), since \ {d})
<1> DEFINE found == IF o.kind # "file" THEN LogsOf(d) ELSE LogsOf(d) \cap {o.file}
           next == [o EXCEPT !.cur = d, !.found = found, !.todo = @ \ {d}]
<1>1. /\ next \in Op /\ next.files = o.files /\ next.cur = d /\ next.found = found
      /\ next.todo = o.todo \ {d} /\ next.kind = o.kind /\ next.dev = o.dev
      /\ next.directories = o.directories /\ next.active = o.active
  BY DEF Op, LogsOf
<1>2. Taken(o, o.todo, since)
  BY DEF Whole
<1>3. \/ Listed(o, d) = [next EXCEPT !.at = "entries"] /\ TakesDirectories(o.kind) /\ d \in dirs
      \/ Listed(o, d) = [next EXCEPT !.at = "active"] /\ ~TakesDirectories(o.kind)
      \/ Listed(o, d) = Concluded(next) /\ IsGlobal(o.kind) /\ found = {}
      \/ Listed(o, d) = Idle
  <2>1. CASE TakesDirectories(o.kind)
    BY <2>1 DEF Listed
  <2>2. CASE ~TakesDirectories(o.kind) /\ found # {}
    BY <2>2 DEF Listed
  <2>3. CASE ~TakesDirectories(o.kind) /\ found = {}
    BY <2>3 DEF Listed
  <2> QED BY <2>1, <2>2, <2>3
<1> HIDE DEF next
<1>4. Taken(next, o.todo, since \ {d}) /\ InScope(next, d)
  BY <1>1, <1>2 DEF Taken, InScope
<1>5. o.kind # "file" => LogsOf(d) \subseteq found
  OBVIOUS
<1>6. Taken([next EXCEPT !.at = "entries"], o.todo, since \ {d})
      /\ Taken([next EXCEPT !.at = "active"], o.todo, since \ {d})
  BY <1>1, <1>4 DEF Op, Taken, InScope
<1>7. o.todo = next.todo \cup {d}
  BY <1>1
<1>8. TakesDirectories(o.kind) /\ d \in dirs => Whole([next EXCEPT !.at = "entries"], since \ {d})
  <2>1. TakesDirectories(o.kind) /\ d \in dirs
           => OnCurrent([next EXCEPT !.at = "entries"], since \ {d})
    BY <1>1, <1>4, <1>5 DEF Op, OnCurrent, InScope
  <2> QED BY <1>1, <1>6, <1>7, <2>1 DEF Op, Whole
<1>9. ~TakesDirectories(o.kind) => Whole([next EXCEPT !.at = "active"], since \ {d})
  <2>1. ~TakesDirectories(o.kind) => OnCurrent([next EXCEPT !.at = "active"], since \ {d})
    BY <1>1, <1>4, <1>5 DEF Op, OnCurrent, InScope
  <2> QED BY <1>1, <1>6, <1>7, <2>1 DEF Op, Whole
<1>10. found = {} /\ IsGlobal(o.kind) => Whole(Concluded(next), since \ {d})
  <2>1. found = {} /\ IsGlobal(o.kind) => LogsOf(d) = {}
    BY DEF IsGlobal
  <2>2. found = {} /\ IsGlobal(o.kind) => Taken(next, next.todo, since \ {d})
    BY <1>1, <1>4, <2>1 DEF Taken, LogsOf
  <2> QED BY <1>1, <2>2, ConcludedIsWhole
<1> QED BY <1>3, <1>8, <1>9, <1>10, IdleIsWhole

LEMMA CheckedIsWhole ==
  ASSUME TypeInv, op.at = "active", Whole(op, appeared)
  PROVE  Whole(Checked(op), appeared)
<1> DEFINE refused == [op EXCEPT !.active = TRUE]
           taken == [op EXCEPT !.files = @ \cup op.found,
                               !.directories = IF TakesDirectories(op.kind) THEN @ \cup {op.cur} ELSE @]
<1>t. op \in Op /\ op.cur \in Device
  BY DEF TypeInv, OpOK, OnDevice
<1>1. Taken(op, op.todo \cup {op.cur}, appeared) /\ OnCurrent(op, appeared)
  BY DEF Whole
<1>2. Taken(refused, refused.todo, appeared) /\ refused \in Op
  BY <1>t, <1>1 DEF Op, Taken, InScope
<1>3. taken \in Op /\ taken.todo = op.todo /\ taken.kind = op.kind /\ taken.dev = op.dev
      /\ taken.active = op.active /\ taken.files = op.files \cup op.found
      /\ taken.directories = IF TakesDirectories(op.kind) THEN op.directories \cup {op.cur}
                             ELSE op.directories
  BY <1>t DEF Op
<1>4. Taken(taken, taken.todo, appeared)
  <2> HIDE DEF taken
  <2>1. ASSUME NEW d \in taken.directories
        PROVE  InScope(taken, d) /\ taken.kind # "file" /\ (d \in strange => d \in appeared)
               /\ d \in dirs /\ d \notin taken.todo
    <3>1. CASE d \in op.directories
      <4>1. InScope(op, d) /\ op.kind # "file" /\ (d \in strange => d \in appeared) /\ d \in dirs
        BY <1>1, <3>1 DEF Taken, InScope
      <4>2. d \notin op.todo
        BY <1>1, <3>1 DEF Taken
      <4> QED BY <1>3, <4>1, <4>2 DEF InScope
    <3>2. CASE d = op.cur /\ TakesDirectories(op.kind)
      BY <1>1, <1>3, <3>2 DEF OnCurrent, InScope, TakesDirectories
    <3> QED BY <1>3, <3>1, <3>2
  <2>2. ASSUME ~taken.active, taken.kind # "file", NEW f \in logs, InScope(taken, f.dev),
               f.dev \notin taken.todo
        PROVE  f \in taken.files \/ f.dev \in appeared
    BY <1>1, <1>3, <2>2 DEF Taken, OnCurrent, InScope, LogsOf
  <2>3. \A d \in taken.todo : InScope(taken, d)
    BY <1>1, <1>3 DEF Taken, InScope
  <2> QED BY <2>1, <2>2, <2>3 DEF Taken
<1>5. Checked(op) = Concluded(refused) \/ Checked(op) = Concluded(taken) \/ Checked(op) = Idle
  BY DEF Checked
<1> HIDE DEF refused, taken
<1> QED BY <1>2, <1>3, <1>4, <1>5, ConcludedIsWhole, IdleIsWhole

LEMMA DeletionWhole ==
  ASSUME TypeInv, LiveInv, WholeInv, Deletion
  PROVE  WholeInv'
<1>t. op \in Op /\ HasScope(op) /\ OnDevice(op) /\ logs \subseteq Log /\ dirs \subseteq Device
      /\ LogsInDirectories /\ Whole(op, appeared)
  BY DEF TypeInv, TypeOK, OpOK, WholeInv
<1>s. UNCHANGED strange
  BY DeletionFrame
<1>u. ASSUME UNCHANGED <<dirs, logs>>, Whole(op', appeared'), op'.at \notin {"done", "stopped"}
      PROVE WholeInv'
  BY <1>u, <1>s, <1>t DEF WholeInv, Whole, Taken, OnCurrent, InScope, LogsOf, LogsInDirectories,
     DeletionIsWhole
<1>b. ASSUME NEW o \in Op PROVE Build(o).at \notin {"done", "stopped"}
  <2> DEFINE start == [o EXCEPT !.todo = Scope(o), !.active = FALSE, !.files = {},
                                !.directories = {}]
  <2>1. DOMAIN start = DOMAIN o
    OBVIOUS
  <2> QED BY <2>1 DEF Build, Concluded, Idle, Op
<1>1. CASE \E kind \in Kinds, d \in Device \cup {None}, f \in logs \cup {None} : Command(kind, d, f)
  <2>1. PICK kind \in Kinds, d \in Device \cup {None}, f \in logs \cup {None} : Command(kind, d, f)
    BY <1>1
  <2> DEFINE start == [Idle EXCEPT !.kind = kind, !.dev = d, !.file = f]
  <2>2. start \in Op /\ start.kind = kind /\ start.dev = d
    BY <1>t, IdleIsOK DEF OpOK, Op, Idle
  <2>3. HasScope(start)
    <3>1. CASE kind = "file"
      BY <1>t, <2>1, <3>1, <2>2 DEF Command, HasScope, LogsOf, Log, IsGlobal
    <3> QED BY <2>1, <3>1, <2>2 DEF Command, HasScope
  <2>4. op' = Build(start) /\ UNCHANGED <<dirs, logs, appeared>>
    BY <2>1 DEF Command, disk
  <2> HIDE DEF start
  <2>5. Whole(Build(start), appeared')
    BY <1>t, <2>2, <2>3, BuildIsWhole
  <2> QED BY <2>2, <2>4, <2>5, <1>b, <1>u
<1>2. CASE \E yes \in BOOLEAN : Answer(yes)
  <2>1. (op' = Build(op) \/ op' = Idle) /\ UNCHANGED <<dirs, logs>>
    BY <1>2 DEF Answer, Confirm, disk
  <2>2. Whole(Build(op), appeared') /\ Whole(Idle, appeared')
    BY <1>t, BuildIsWhole, IdleIsWhole
  <2>3. op'.at \notin {"done", "stopped"}
    BY <1>t, <1>b, <2>1 DEF Idle
  <2>4. Whole(op', appeared')
    BY <2>1, <2>2
  <2> QED BY <1>u, <2>1, <2>3, <2>4
<1>3. CASE ListLogs
  <2> DEFINE d == First(op.todo)
  <2>1. op.todo # {} /\ op.todo \subseteq Device /\ op.at = "list"
    BY <1>3, <1>t DEF ListLogs, OnDevice, Op
  <2>2. op' = Listed(op, d) /\ appeared' = appeared \ {d} /\ UNCHANGED <<dirs, logs>>
    BY <1>3 DEF ListLogs, disk
  <2>3. d \in op.todo
    BY <2>1 DEF First
  <2> HIDE DEF d
  <2>4. Whole(op', appeared')
    BY <1>t, <2>1, <2>2, <2>3, ListedIsWhole
  <2>5. Listed(op, d).at \notin {"done", "stopped"}
    BY <1>t DEF Listed, Concluded, Idle, Op
  <2> QED BY <1>u, <2>2, <2>4, <2>5
<1>4. CASE CheckEntries
  <2>1. op.at = "entries" /\ UNCHANGED <<dirs, logs, appeared>>
    BY <1>4 DEF CheckEntries, disk
  <2>2. CASE OnlyLogs(op.cur, op.found)
    <3>1. op' = [op EXCEPT !.at = "active"]
      BY <1>4, <2>2 DEF CheckEntries
    <3>2. Whole([op EXCEPT !.at = "active"], appeared)
      BY <1>t, <2>1, <2>2 DEF OnlyLogs, Op, Whole, Taken, OnCurrent, InScope
    <3> QED BY <1>t, <1>u, <2>1, <3>1, <3>2 DEF Op
  <2>3. CASE ~OnlyLogs(op.cur, op.found)
    BY <1>4, <2>3, <1>u, <2>1, IdleIsWhole DEF CheckEntries, Idle
  <2> QED BY <2>2, <2>3
<1>5. CASE CheckActive
  <2>1. Whole(Checked(op), appeared)
    BY <1>5, <1>t, CheckedIsWhole DEF CheckActive
  <2>2. Checked(op).at \notin {"done", "stopped"}
    BY <1>5, <1>t DEF CheckActive, Checked, Concluded, Idle, Op
  <2>3. op' = Checked(op) /\ UNCHANGED <<dirs, logs, appeared>>
    BY <1>5 DEF CheckActive, disk
  <2> QED BY <1>u, <2>1, <2>2, <2>3
<1>6. CASE Unlink
  <2>1. op.files \subseteq logs /\ op.at = "apply" /\ UNCHANGED <<dirs, appeared>>
    BY <1>6 DEF Unlink, LiveInv, Planned, Working
  <2>2. PICK f \in op.files : logs' = logs \ {f} /\ op' = [op EXCEPT !.files = @ \ {f}]
    BY <1>6, <2>1 DEF Unlink
  <2>3. /\ op'.at = "apply" /\ op'.files = op.files \ {f} /\ op'.todo = op.todo
        /\ op'.kind = op.kind /\ op'.dev = op.dev /\ op'.active = op.active
        /\ op'.directories = op.directories
    BY <1>t, <2>1, <2>2 DEF Op
  <2>4. Taken(op, op.todo, appeared) /\ op.todo = {} /\ ~op.active
    BY <1>t, <2>1 DEF Whole
  <2>5. Taken(op, op.todo, appeared)'
    BY <1>s, <2>1, <2>2, <2>3, <2>4 DEF Taken, InScope
  <2>6. Whole(op, appeared)' /\ LogsInDirectories'
    BY <1>t, <2>1, <2>2, <2>3, <2>4, <2>5 DEF Whole, LogsInDirectories
  <2> QED BY <2>3, <2>6 DEF WholeInv, DeletionIsWhole
<1>7. CASE RemoveDirectory
  <2>1. /\ op.at = "apply" /\ op.files = {} /\ UNCHANGED <<logs, appeared>>
        /\ Taken(op, op.todo, appeared) /\ op.todo = {} /\ ~op.active
    BY <1>7, <1>t DEF RemoveDirectory, Whole
  <2>2. PICK d \in op.directories :
          \/ /\ dirs' = dirs \ {d} /\ LogsOf(d) = {}
             /\ op' = [op EXCEPT !.directories = @ \ {d}]
          \/ /\ dirs' = dirs /\ (d \in strange \/ LogsOf(d) # {} \/ d \notin dirs)
             /\ op' = [op EXCEPT !.at = "stopped", !.cur = d]
    BY <1>7 DEF RemoveDirectory, First
  <2>3. CASE op' = [op EXCEPT !.directories = @ \ {d}] /\ dirs' = dirs \ {d} /\ LogsOf(d) = {}
    <3>1. /\ op'.at = "apply" /\ op'.files = op.files /\ op'.todo = op.todo
          /\ op'.kind = op.kind /\ op'.dev = op.dev /\ op'.active = op.active
          /\ op'.directories = op.directories \ {d}
      BY <1>t, <2>1, <2>3 DEF Op
    <3>2. Taken(op, op.todo, appeared)'
      BY <1>s, <2>1, <2>3, <3>1 DEF Taken, InScope
    <3>3. Whole(op, appeared)' /\ LogsInDirectories'
      BY <1>t, <2>1, <2>3, <3>1, <3>2 DEF Whole, LogsInDirectories, LogsOf
    <3> QED BY <3>1, <3>3 DEF WholeInv, DeletionIsWhole
  <2>4. CASE /\ op' = [op EXCEPT !.at = "stopped", !.cur = d] /\ dirs' = dirs
             /\ d \in strange \/ LogsOf(d) # {} \/ d \notin dirs
    <3>1. d \in appeared
      <4>1. CASE d \in strange \/ d \notin dirs
        BY <2>1, <4>1 DEF Taken
      <4>2. CASE LogsOf(d) # {}
        BY <2>1, <4>2 DEF Taken, LogsOf, InScope
      <4> QED BY <2>4, <4>1, <4>2
    <3>2. op'.at = "stopped" /\ op'.cur = d
      BY <1>t, <2>4 DEF Op
    <3> QED BY <1>t, <2>1, <2>4, <3>1, <3>2 DEF WholeInv, DeletionIsWhole, Whole, LogsInDirectories
  <2> QED BY <2>2, <2>3, <2>4
<1>8. CASE Report
  <2>1. /\ op'.at = "done" /\ op'.kind = op.kind /\ op'.dev = op.dev
        /\ UNCHANGED <<dirs, logs, appeared>>
    BY <1>8, <1>t DEF Report, disk, Op
  <2>2. op.files = {} /\ ~op.active /\ op.todo = {} /\ Taken(op, op.todo, appeared)
    BY <1>8, <1>t DEF Report, Whole
  <2>3. DeletionIsWhole'
    BY <2>1, <2>2 DEF Taken, InScope, DeletionIsWhole
  <2> QED BY <1>t, <2>1, <2>3 DEF WholeInv, Whole, LogsInDirectories
<1>9. CASE CommandEnds
  BY <1>9, <1>u, IdleIsWhole DEF CommandEnds, disk, Idle
<1> QED BY <1>1, <1>2, <1>3, <1>4, <1>5, <1>6, <1>7, <1>8, <1>9 DEF Deletion

LEMMA WholeStep == TypeInv /\ LiveInv /\ WholeInv /\ [Next]_vars => WholeInv'
<1> SUFFICES ASSUME TypeInv, LiveInv, WholeInv, [Next]_vars PROVE WholeInv'
  OBVIOUS
<1>1. CASE UNCHANGED vars
  BY <1>1, OthersKeepWhole DEF vars, disk, WholeInv, LogsInDirectories
<1> QED BY <1>1, SessionStepWhole, OutsideStepWhole, DeletionWhole DEF Next

(* A confirmed deletion leaves no log of its scope and does not stop       *)
(* halfway, except where an entry came into a directory after its last     *)
(* check.                                                                  *)
THEOREM DeletionsAreWhole == Spec => []DeletionIsWhole
<1>1. Init => LiveInv /\ WholeInv
  BY DEF Init, LiveInv, LiveLogsStay, Planned, Working, Idle, Absent, WholeInv, Whole,
     LogsInDirectories, DeletionIsWhole
<1>2. WholeInv => DeletionIsWhole
  BY DEF WholeInv
<1> QED BY <1>1, <1>2, TypeInit, TypeStep, LiveStep, WholeStep, PTL DEF Spec
=============================================================================
