----------------------------- MODULE LabQueries -----------------------------
(***************************************************************************)
(* The MCP tools (mcp_server.py, lab.py): every call reads settings.yaml   *)
(* and then the selected definitions from disk, without a lock, while the  *)
(* CLI commits by replacing or deleting one file after the other.  What a  *)
(* call found is then used under the lock of a terminal session, possibly  *)
(* after a long wait, and the session outlives the configuration.          *)
(*                                                                         *)
(* get_execution_instructions() is one call that reads the files of        *)
(* scenarios and references up to three times: the active ones, those that *)
(* it describes in its two catalogs, and those that it is asked for.       *)
(*                                                                         *)
(* One device, and one active reference at most; principles.yaml, which no *)
(* commit writes, is left out.  The CLI's candidates and their validation  *)
(* are those of CandidateCommit and appear here as the file operations of  *)
(* a commit.                                                               *)
(***************************************************************************)
EXTENDS Naturals, Sequences, FiniteSets

CONSTANTS
  Name,         (* names of definitions                                      *)
  Content,      (* what a definition of each kind can say                    *)
  Labs,         (* the labs found on disk at the start                       *)
  Selections,   (* the selections that a commit can make                     *)
  Address,      (* where the device may be found                             *)
  Worker,       (* threads that serve tool calls                             *)
  Serves,       (* the tools that each of them is called for                 *)
  Requests,     (* the names that a call asks to inspect                     *)
  None,         (* nothing: no file, no selection, no session, no holder     *)
  MaxCalls,     (* bound on the calls                                        *)
  MaxCommits    (* bound on the commits                                      *)

Kind == {"topology", "access", "scenario", "reference"}

(* "drive" stands for terminal_send and terminal_read.                     *)
Ops == {"get_topology", "get_instructions", "open", "drive", "close"}

ASSUME QueriesAssumption ==
  /\ None \notin Name \cup Address \cup Worker \cup Kind
  /\ Content \in [Kind -> SUBSET [type : {"none", "xr", "ios"}, at : Address \cup {None}]]
  /\ Selections \subseteq [Kind -> Name \cup {None}]
  /\ Serves \in [Worker -> SUBSET Ops]
  /\ Requests \subseteq [{"scenario", "reference"} -> SUBSET Name]
  /\ MaxCalls \in Nat /\ MaxCommits \in Nat

VARIABLES
  selected,  (* settings.yaml                                                *)
  stored,    (* the definition files                                         *)
  commit,    (* the commit in progress                                       *)
  session,   (* where the terminal session of the device leads               *)
  lock,      (* its lock                                                     *)
  worker,    (* what each thread is doing                                    *)
  met,       (* history: commits that a thread's call overlapped             *)
  moments,   (* history: the lab as it was at each moment of the call        *)
  calls, commits

disk == <<selected, stored>>
vars == <<disk, commit, session, lock, worker, met, moments, calls, commits>>

Definition == [type : {"none", "xr", "ios"}, at : Address \cup {None}]
Selection == [Kind -> Name \cup {None}]
Files == [Kind -> [Name -> Definition \cup {None}]]

(* An answer is a sequence of sections, each a set of labelled definitions.*)
Sections ==
  SUBSET ((Name \cup {"topology", "scenario", "reference", "device", "error"}) \X Definition)

ASSUME LabsAssumption ==
  /\ None \notin Definition
  /\ \A lab \in Labs : lab.selected \in Selection /\ lab.stored \in Files

NoCommit == [at |-> "none", kind |-> None, name |-> None, new |-> None, select |-> None]

NoRequest == [k \in {"scenario", "reference"} |-> {}]

Idle == [op |-> "none", at |-> "idle", asked |-> NoRequest, snap |-> None, got |-> <<>>,
         listed |-> <<>>, todo |-> {}, entries |-> {}, result |-> <<>>]

(* A call and what it has read so far: the section that it is reading      *)
(* after those of its result, and the names still to be read for it.       *)
CallState ==
  [ op      : Ops \cup {"none"},
    at      : {"idle", "settings", "part", "list", "check", "load", "waiting", "holding", "done"},
    asked   : [{"scenario", "reference"} -> SUBSET Name],
    snap    : Selection \cup {None},
    got     : Seq(Definition),
    listed  : Seq(SUBSET Name),
    todo    : SUBSET Name,
    entries : Sections,
    result  : Seq(Sections) ]

Lab == [selected : Selection, stored : Files]

TypeOK ==
  /\ selected \in Selection /\ stored \in Files
  /\ commit \in [at : {"none", "settings", "file"}, kind : Kind \cup {None},
                 name : Name \cup {None}, new : {None} \cup Definition,
                 select : {None} \cup Selection]
  /\ session \in Address \cup {None}
  /\ lock \in Worker \cup {None}
  /\ worker \in [Worker -> CallState]
  /\ \A w \in Worker : /\ worker[w].at = "holding" <=> lock = w
                       /\ worker[w].at = "part" => Len(worker[w].got) < 2
  /\ met \in [Worker -> Nat] /\ moments \in [Worker -> Seq(Lab)]
  /\ calls \in 0..MaxCalls /\ commits \in 0..MaxCommits

-----------------------------------------------------------------------------
(* What a call asks for.                                                   *)

(* The definitions that a call reads after settings.yaml, in this order.   *)
Parts(op) ==
  CASE op \in {"get_topology", "drive"} -> <<"topology">>
    [] op = "get_instructions" -> <<"scenario", "reference">>
    [] op = "open" -> <<"topology", "access">>

Blank == [type |-> "none", at |-> None]
Failed == {<<"error", Blank>>}
Error == <<Failed>>

(* get_device(): the device is in both definitions, with one type.         *)
Resolved(here, access) ==
  IF "none" \in {here.type, access.type} \/ here.type # access.type
  THEN Failed ELSE {<<"device", access>>}

(* The section on what is active, from the definitions that were read.     *)
Answer(op, got) ==
  CASE op = "get_topology"     -> {<<"topology", got[1]>>}
    [] op = "get_instructions" -> {<<"scenario", got[1]>>, <<"reference", got[2]>>}
    [] op = "drive"            -> (IF got[1].type = "none" THEN Failed ELSE {<<"device", Blank>>})
    [] op = "open"             -> Resolved(got[1], got[2])

(* References are optional, the other selections are not.                  *)
Found(kind, selection, files) ==
  IF selection[kind] # None THEN files[kind][selection[kind]]
  ELSE IF kind = "reference" THEN Blank ELSE None

ActiveAt(op, lab) ==
  LET got == [i \in 1..Len(Parts(op)) |-> Found(Parts(op)[i], lab.selected, lab.stored)]
  IN IF \E i \in 1..Len(got) : got[i] = None THEN Failed ELSE Answer(op, got)

(* The sections of an answer: what is active, then in the instructions the *)
(* two catalogs and the two lists of inspected definitions.                *)
SectionsOf(op) ==
  CASE op = "get_instructions" -> 1..5 [] op = "close" -> {} [] OTHER -> {1}

IsCatalog(s) == s \in {2, 3}
KindOf(s) == IF s \in {2, 4} THEN "scenario" ELSE "reference"

Existing(files) == {n \in Name : files[n] # None}

(* For one kind: each name with its description, or with its body.         *)
Catalog(files) == {<<n, files[n]>> : n \in Existing(files)}
Inspected(files, names) ==
  IF names \subseteq Existing(files) THEN {<<n, files[n]>> : n \in names} ELSE Failed

(* The right section of a call for one state of the disk.                  *)
SectionAt(call, s, lab) ==
  CASE s = 1        -> ActiveAt(call.op, lab)
    [] IsCatalog(s) -> Catalog(lab.stored[KindOf(s)])
    [] OTHER        -> Inspected(lab.stored[KindOf(s)], call.asked[KindOf(s)])

-----------------------------------------------------------------------------
(* Commits: one definition and the selections (config.py, commit()).       *)

Busy(w) == worker[w].at # "idle"

(* The moments of a call that overlaps one commit at most; no more is said *)
(* of the others.                                                          *)
Recorded(w) == moments[w] # <<>>

(* A commit changes one definition at most, and is accepted if what it     *)
(* selects will exist.                                                     *)
Begin ==
  /\ commit.at = "none" /\ commits < MaxCommits
  /\ commits' = commits + 1
  /\ \E sel \in Selections :
       \/ /\ sel # selected
          /\ \A j \in Kind : sel[j] # None => stored[j][sel[j]] # None
          /\ commit' = [NoCommit EXCEPT !.at = "settings", !.select = sel]
       \/ \E k \in Kind, n \in Name : \E new \in (Content[k] \cup {None}) \ {stored[k][n]} :
            /\ \A j \in Kind : sel[j] # None =>
                 IF j = k /\ sel[j] = n THEN new # None ELSE stored[j][sel[j]] # None
            /\ commit' = [at |-> IF new = None /\ sel # selected THEN "settings" ELSE "file",
                          kind |-> k, name |-> n, new |-> new, select |-> sel]
  /\ met' = [w \in Worker |-> IF Busy(w) THEN met[w] + 1 ELSE met[w]]
  /\ moments' = [w \in Worker |-> IF met[w] = 0 THEN moments[w] ELSE <<>>]
  /\ UNCHANGED <<disk, session, lock, worker, calls>>

(* A deletion comes after the settings that may have selected it,          *)
(* everything else before.                                                 *)
FileFollows == commit.kind # None /\ commit.new = None

(* One file operation; each replaces or removes a file at once.            *)
CommitStep ==
  /\ \/ /\ commit.at = "settings"
        /\ selected' = commit.select /\ UNCHANGED stored
        /\ commit' = IF FileFollows THEN [commit EXCEPT !.at = "file"] ELSE NoCommit
     \/ /\ commit.at = "file"
        /\ stored' = [stored EXCEPT ![commit.kind][commit.name] = commit.new]
        /\ UNCHANGED selected
        /\ commit' = IF FileFollows \/ commit.select = selected THEN NoCommit
                     ELSE [commit EXCEPT !.at = "settings"]
  /\ moments' = [w \in Worker |->
       IF Recorded(w) THEN Append(moments[w], [selected |-> selected', stored |-> stored'])
       ELSE moments[w]]
  /\ UNCHANGED <<session, lock, worker, met, calls, commits>>

(* The CLI ends, or the file operation fails.                              *)
CommitEnds ==
  /\ commit.at # "none"
  /\ commit' = NoCommit
  /\ UNCHANGED <<disk, session, lock, worker, met, moments, calls, commits>>

-----------------------------------------------------------------------------
(* Calls.                                                                  *)

Reads == UNCHANGED <<disk, commit, session, lock, met, moments, calls, commits>>

Return(w, result) ==
  worker' = [worker EXCEPT ![w] = [Idle EXCEPT !.op = worker[w].op, !.asked = worker[w].asked,
                                               !.at = "done", !.result = result]]

Reply(w) ==
  /\ worker[w].at = "done"
  /\ worker' = [worker EXCEPT ![w] = Idle]
  /\ met' = [met EXCEPT ![w] = 0]
  /\ moments' = [moments EXCEPT ![w] = <<>>]
  /\ UNCHANGED <<disk, commit, session, lock, calls, commits>>

\* Faulty: input for an open session is not verified.
FirstStepTrusting(op) == IF op \in {"close", "drive"} THEN "waiting" ELSE "settings"

FirstStep(op) == IF op = "close" THEN "waiting" ELSE "settings"

Call(w, op, asked) ==
  /\ ~Busy(w) /\ calls < MaxCalls
  /\ calls' = calls + 1
  /\ worker' = [worker EXCEPT ![w] =
       [Idle EXCEPT !.op = op, !.asked = asked, !.at = FirstStep(op)]]
  /\ met' = [met EXCEPT ![w] = IF commit.at = "none" THEN 0 ELSE 1]
  /\ moments' = [moments EXCEPT ![w] = <<[selected |-> selected, stored |-> stored]>>]
  /\ UNCHANGED <<disk, commit, session, lock, commits>>

\* Faulty: settings.yaml is read again before the access-info is looked up.
SnapshotPerPart(w) == selected

Snapshot(w) == worker[w].snap

ReadSettings(w) ==
  /\ worker[w].at = "settings"
  /\ worker' = [worker EXCEPT ![w].at = "part", ![w].snap = selected]
  /\ Reads

(* One definition.  An error ends the call; a terminal call goes on to the *)
(* lock of its session, get_execution_instructions() to the listings.      *)
ReadPart(w) ==
  LET op == worker[w].op
      kind == Parts(op)[Len(worker[w].got) + 1]
      part == Found(kind, Snapshot(w), stored)
      got == Append(worker[w].got, part)
      goes(step) == worker' = [worker EXCEPT ![w].got = got, ![w].at = step,
        ![w].result = IF step = "part" THEN <<>> ELSE <<Answer(op, got)>>]
  IN /\ worker[w].at = "part"
     /\ \/ part = None /\ Return(w, Error)
        \/ part # None /\ Len(got) < Len(Parts(op)) /\ goes("part")
        \/ /\ part # None /\ Len(got) = Len(Parts(op))
           /\ IF op = "get_topology" \/ Answer(op, got) = Failed
              THEN Return(w, <<Answer(op, got)>>)
              ELSE goes(IF op = "get_instructions" THEN "list" ELSE "waiting")
     /\ Reads

(* list_scenario_names(), then list_reference_names().                     *)
List(w) ==
  LET kind == KindOf(Len(worker[w].listed) + 2)
      listed == Append(worker[w].listed, Existing(stored[kind]))
  IN /\ worker[w].at = "list"
     /\ worker' = [worker EXCEPT ![w].listed = listed,
          ![w].at = IF Len(listed) = 2 THEN "check" ELSE "list",
          ![w].todo = IF Len(listed) = 2 THEN listed[1] ELSE {}]
     /\ Reads

(* The section in progress, the names listed for its kind, and the name    *)
(* that is next in their order.                                            *)
Current(r) == Len(r.result) + 1
Listed(r, s) == r.listed[IF KindOf(s) = "scenario" THEN 1 ELSE 2]
NextName(r) == CHOOSE n \in r.todo : TRUE

(* _stored_definition_is_deletable().  A catalog leaves out a name that is *)
(* gone by now, an inspection fails.                                       *)
Check(w) ==
  LET s == Current(worker[w])
      n == NextName(worker[w])
      there == n \in Listed(worker[w], s) /\ stored[KindOf(s)][n] # None
  IN /\ worker[w].at = "check" /\ worker[w].todo # {}
     /\ \/ there /\ worker' = [worker EXCEPT ![w].at = "load"]
        \/ ~there /\ IsCatalog(s) /\ worker' = [worker EXCEPT ![w].todo = @ \ {n}]
        \/ ~there /\ ~IsCatalog(s) /\ Return(w, Error)
     /\ Reads

(* The file may be gone since: then a catalog has no description for it.   *)
Load(w) ==
  LET s == Current(worker[w])
      n == NextName(worker[w])
      file == stored[KindOf(s)][n]
      adds(says) == worker' = [worker EXCEPT ![w].at = "check", ![w].todo = @ \ {n},
                                             ![w].entries = @ \cup {<<n, says>>}]
  IN /\ worker[w].at = "load"
     /\ \/ file # None /\ adds(file)
        \/ file = None /\ IsCatalog(s) /\ adds(Blank)
        \/ file = None /\ ~IsCatalog(s) /\ Return(w, Error)
     /\ Reads

(* A section is complete: the next one, or the answer.                     *)
NextSection(w) ==
  LET result == Append(worker[w].result, worker[w].entries)
      s == Len(result) + 1
      names == IF IsCatalog(s) THEN Listed(worker[w], s) ELSE worker[w].asked[KindOf(s)]
  IN /\ worker[w].at = "check" /\ worker[w].todo = {}
     /\ IF s = 6 THEN Return(w, result)
        ELSE worker' = [worker EXCEPT ![w].result = result, ![w].todo = names, ![w].entries = {}]
     /\ Reads

Acquire(w) ==
  /\ worker[w].at = "waiting" /\ lock = None
  /\ lock' = w
  /\ worker' = [worker EXCEPT ![w].at = "holding"]
  /\ UNCHANGED <<disk, commit, session, met, moments, calls, commits>>

(* What the call does in the session; an open session is used as it is.    *)
Act(w) ==
  /\ worker[w].at = "holding"
  /\ CASE worker[w].op = "open"  -> session' = IF session = None THEN worker[w].got[2].at ELSE session
       [] worker[w].op = "close" -> session' = None
       [] OTHER -> UNCHANGED session
  /\ lock' = None
  /\ Return(w, worker[w].result)
  /\ UNCHANGED <<disk, commit, met, moments, calls, commits>>

(* The login fails or the connection ends; its pane is closed.             *)
SessionEnds ==
  /\ session # None /\ lock = None
  /\ session' = None
  /\ UNCHANGED <<disk, commit, lock, worker, met, moments, calls, commits>>

-----------------------------------------------------------------------------
Init ==
  /\ \E lab \in Labs : selected = lab.selected /\ stored = lab.stored
  /\ commit = NoCommit /\ session = None /\ lock = None
  /\ worker = [w \in Worker |-> Idle]
  /\ met = [w \in Worker |-> 0]
  /\ moments = [w \in Worker |-> <<>>]
  /\ calls = 0 /\ commits = 0

Step(w) ==
  \/ ReadSettings(w) \/ ReadPart(w) \/ List(w) \/ Check(w) \/ Load(w) \/ NextSection(w)
  \/ Acquire(w) \/ Act(w) \/ Reply(w)

Next ==
  \/ Begin \/ CommitStep \/ CommitEnds \/ SessionEnds
  \/ \E w \in Worker :
       Step(w) \/ \E op \in Serves[w] :
         \E asked \in IF op = "get_instructions" THEN Requests ELSE {NoRequest} :
           Call(w, op, asked)

Spec == Init /\ [][Next]_vars

-----------------------------------------------------------------------------
(* Properties.                                                             *)

(* A call that closes a session answers nothing.                           *)
Answered(w) == worker[w].at \in {"waiting", "holding", "done"} /\ worker[w].result # <<>>

(* Section s of a call is right for the i-th of the moments seen, or is a  *)
(* catalog in which a name that was there then, and is gone at a later     *)
(* moment, has no description.                                             *)
IsOf(call, seen, s, i) ==
  LET section == call.result[s]
      right == SectionAt(call, s, seen[i])
      file(j, n) == seen[j].stored[KindOf(s)][n]
  IN \/ section = right
     \/ IsCatalog(s) /\ \E n \in Name, j \in DOMAIN seen :
          /\ i < j /\ file(i, n) # None /\ file(j, n) = None
          /\ section = (right \ {<<n, file(i, n)>>}) \cup {<<n, Blank>>}

(* The lab was in error for the call, or what the call reads first was     *)
(* selected and there, and was then deleted.                               *)
MayFail(call, seen) ==
  \/ \E i \in DOMAIN seen, s \in SectionsOf(call.op) : SectionAt(call, s, seen[i]) = Failed
  \/ \E i, j \in DOMAIN seen, p \in DOMAIN Parts(call.op) :
       LET kind == Parts(call.op)[p]
           name == seen[i].selected[kind]
       IN /\ i < j /\ name # None
          /\ seen[i].stored[kind][name] # None /\ seen[j].stored[kind][name] = None

InOrder(call, seen) ==
  \E when \in [SectionsOf(call.op) -> DOMAIN seen] :
    /\ \A s, t \in SectionsOf(call.op) : s < t => when[s] <= when[t]
    /\ \A s \in SectionsOf(call.op) : IsOf(call, seen, s, when[s])

(* A call that overlaps at most one commit: each section of its answer is  *)
(* right for one moment of the call, between the two files of that commit  *)
(* included, and no section is older than the one before it.  A topology,  *)
(* a device or the active scenario with its references thus mixes no two   *)
(* configurations; the instructions as a whole may, since a commit of the  *)
(* active scenario leaves its old body beside its new description.  A call *)
(* fails only if it had to, or if the commit deletes what it reads (the    *)
(* order of the writes in commit(), os.replace, get_device() and           *)
(* get_execution_instructions()).                                          *)
AnswersAreCurrent ==
  \A w \in Worker : Answered(w) /\ met[w] <= 1 =>
    IF worker[w].result = Error THEN MayFail(worker[w], moments[w])
    ELSE InOrder(worker[w], moments[w])

(* A session is used for a device only by a call during which the device   *)
(* was in the active topology, however long the call waits for the session *)
(* (verify_device_in_active_topology, get_device).                         *)
DrivenOnlyIfActive ==
  [][\A w \in Worker :
       /\ worker[w].at = "holding" /\ worker'[w].at = "done"
       /\ worker[w].op \in {"open", "drive"} /\ met[w] <= 1
       => \E i \in DOMAIN moments[w] : ActiveAt(worker[w].op, moments[w][i]) # Failed]_vars
=============================================================================
