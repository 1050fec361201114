-------------------------- MODULE CandidateCommit --------------------------
(***************************************************************************)
(* The candidate / commit engine of the human CLI (cli/config.py, class    *)
(* CliSession, and the handlers of cli/main.py that drive it) together     *)
(* with the stored lab it commits to (lab.py): the definition files under  *)
(* lab/{topologies,access-info,scenarios,references} and settings.yaml,    *)
(* the running-config that the MCP server reads.                           *)
(*                                                                         *)
(* A CLI process works on a snapshot of settings.yaml and on at most one   *)
(* open definition.  commit() validates the candidate against the stored   *)
(* lab and then persists it in up to two separate file operations, each    *)
(* of which is atomic and each of which may fail (OSError) or be the last  *)
(* thing the process does.  Several CLI processes may run on one lab.      *)
(***************************************************************************)

CONSTANTS
  Session,        (* CLI processes                                          *)
  Def,            (* definition identities: a kind and an exact file stem   *)
  KindOf,         (* the kind of a definition                               *)
  CaseVariants,   (* definitions of one kind whose names differ by case     *)
  Folding,        (* does the filesystem resolve names case-insensitively?  *)
  TopologyOf,     (* the topology with the name of an access-info           *)
  Body,           (* contents of a definition                               *)
  Valid,          (* contents the kind's validator accepts                  *)
  NewBody,        (* what new_<kind>_data() returns                         *)
  Absent,         (* no file / no content                                   *)
  NoDef,          (* no definition is open                                  *)
  InitialLabs,    (* stored labs a session may start from                   *)
  Selectable,     (* bound: definitions the operator selects or unselects   *)
  Describable     (* bound: entries the operator describes                  *)

Kinds == {"topology", "access_info", "scenario", "reference"}
Stored == Valid \cup {Absent}

(* A running-config: the selected definitions and those among them (or    *)
(* left over from before) that carry a description.                       *)
Settings == [active : SUBSET Def, described : SUBSET Def]

ASSUME IdentityAssumption ==
  /\ NoDef \notin Def
  /\ KindOf \in [Def -> Kinds]
  /\ Folding \in BOOLEAN
  /\ CaseVariants \in [Def -> SUBSET Def]
  /\ \A d \in Def : d \notin CaseVariants[d]
  /\ \A d, e \in Def : e \in CaseVariants[d] => d \in CaseVariants[e]
  /\ \A d, e \in Def : e \in CaseVariants[d] => KindOf[e] = KindOf[d]
  /\ TopologyOf \in [Def -> Def]
  /\ \A d \in Def : KindOf[TopologyOf[d]] = "topology"

ASSUME BodyAssumption ==
  /\ Absent \notin Body
  /\ Valid \subseteq Body
  /\ NewBody \in Body

ASSUME BoundAssumption == Selectable \subseteq Def /\ Describable \subseteq Def

ASSUME InitialLabsAssumption ==
  \A lab \in InitialLabs :
    /\ lab.disk \in [Def -> Stored]
    /\ lab.settings \in Settings
    /\ lab.settings.described \subseteq lab.settings.active
    /\ Folding => \A d, e \in Def : /\ e \in CaseVariants[d]
                                    /\ lab.disk[d] # Absent
                                    => lab.disk[e] = Absent

VARIABLES
  disk,       (* content of each definition file                            *)
  settings,   (* content of settings.yaml                                   *)
  cli         (* the state of each CLI process                              *)

vars == <<disk, settings, cli>>

(***************************************************************************)
(* Fields of a CLI process.  base and cand are committed_settings and      *)
(* settings_candidate; slot, orig and draft are definition_kind/name,      *)
(* definition_original and definition_candidate (orig = Absent: brand-new, *)
(* draft = Absent: pending deletion).  edited is the only thing the code   *)
(* asks of _mutation_rev and _discovery_baseline_rev: whether they differ. *)
(* kept and manual are history: a persistence failure has happened and     *)
(* nothing was changed since; the draft holds an operator's own change.    *)
(***************************************************************************)
Stages == {"idle", "settings_first", "delete_file", "write_file", "settings",
           "discovery_checked", "discovery_running"}

CliState ==
  [ mode   : {"exec", "configure"},
    base   : Settings,
    cand   : Settings,
    slot   : Def \cup {NoDef},
    orig   : Body \cup {Absent},
    draft  : Body \cup {Absent},
    edited : BOOLEAN,
    stage  : Stages,
    target : Def \cup {NoDef},
    kept   : BOOLEAN,
    manual : BOOLEAN ]

NoSettings == [active |-> {}, described |-> {}]

ExecState ==
  [ mode |-> "exec", base |-> NoSettings, cand |-> NoSettings,
    slot |-> NoDef, orig |-> Absent, draft |-> Absent, edited |-> FALSE,
    stage |-> "idle", target |-> NoDef, kept |-> FALSE, manual |-> FALSE ]

(* A slot is open on something: stored content, a draft, or both; a file   *)
(* is written from a draft that passed its validator.                      *)
SlotConsistent(c) ==
  /\ c.slot = NoDef <=> c.orig = Absent /\ c.draft = Absent
  /\ c.stage = "discovery_running" => c.target # NoDef
  /\ c.stage = "write_file" => c.draft \in Valid

(* Types, and no session ever holds a definition that is neither stored    *)
(* nor drafted (the state definition_dirty() documents as unreachable).    *)
TypeOK ==
  /\ disk \in [Def -> Body \cup {Absent}]
  /\ settings \in Settings
  /\ cli \in [Session -> CliState]
  /\ \A s \in Session : SlotConsistent(cli[s])

-----------------------------------------------------------------------------
(* The stored lab.                                                         *)

Exists(d) == disk[d] # Absent

FileState(d) ==
  IF Exists(d) THEN "exact"
  ELSE IF Folding /\ \E e \in CaseVariants[d] : Exists(e) THEN "alias"
  ELSE "absent"

Missing(active) == {d \in active : ~Exists(d)}

(* Descriptions survive only for active entries.                           *)
NormalizedKeepsAll(r) == r       \* faulty: no pruning
Normalized(r) == [active |-> r.active, described |-> r.described \cap r.active]

-----------------------------------------------------------------------------
(* Queries on the state c of one CLI process.                              *)

Configuring(c) == c.mode = "configure" /\ c.stage = "idle"

\* Faulty: descriptions are not compared.
SettingsDirtyActiveOnly(c) == c.cand.active # c.base.active
SettingsDirty(c) == Normalized(c.cand) # Normalized(c.base)

DefinitionDirty(c) ==
  /\ c.slot # NoDef
  /\ \/ c.draft = Absent
     \/ c.orig = Absent
     \/ c.draft # c.orig

OverallDirty(c) == SettingsDirty(c) \/ DefinitionDirty(c)

PendingDeletion(c, d) == c.slot = d /\ c.draft = Absent /\ c.orig # Absent

CanSwitch(c, d) == c.slot \in {NoDef, d} \/ ~DefinitionDirty(c)

WillExist(c, d) == Exists(d) \/ c.slot = d

Deleting(c) == DefinitionDirty(c) /\ c.draft = Absent
Writing(c) == DefinitionDirty(c) /\ c.draft # Absent

EffectiveExists(c, d) ==
  IF DefinitionDirty(c) /\ c.slot = d THEN ~Deleting(c) ELSE Exists(d)

\* Faulty: the candidate is judged by what is stored now.
NewFindingsStored(c) == Missing(c.cand.active) \ Missing(c.base.active)

(* Selections that would be missing after the commit and are not already   *)
(* missing in the running-config the session loaded.                       *)
NewFindings(c) ==
  {d \in c.cand.active : ~EffectiveExists(c, d)} \ Missing(c.base.active)

Selects(r, kind) == \E d \in r.active : KindOf[d] = kind

\* Faulty: the validator is not run.
CommitValidUnchecked(c) ==
  /\ Writing(c) =>
       /\ FileState(c.slot) # "alias"
       /\ FileState(c.slot) = "exact" => c.orig # Absent
  /\ Selects(c.cand, "topology")
  /\ Selects(c.cand, "scenario")
  /\ NewFindings(c) = {}
  /\ Deleting(c) => Exists(c.slot)

CommitValid(c) ==
  /\ Writing(c) =>
       /\ c.draft \in Valid
       /\ FileState(c.slot) # "alias"
       /\ FileState(c.slot) = "exact" => c.orig # Absent
  /\ Selects(c.cand, "topology")
  /\ Selects(c.cand, "scenario")
  /\ NewFindings(c) = {}
  /\ Deleting(c) => Exists(c.slot)

-----------------------------------------------------------------------------
(* Every operator command that touches the candidate ends a wait for a     *)
(* retry (history only).                                                   *)
Become(s, c) ==
  /\ cli' = [cli EXCEPT ![s] = [c EXCEPT !.kept = FALSE]]
  /\ UNCHANGED <<disk, settings>>

Reopened(c, d, content) ==
  [c EXCEPT !.slot = d, !.orig = disk[d], !.draft = content,
            !.edited = FALSE, !.manual = FALSE]

Closed(c) ==
  [c EXCEPT !.slot = NoDef, !.orig = Absent, !.draft = Absent]

EnterConfigure(s) ==
  /\ cli[s].mode = "exec"
  /\ Become(s, [ExecState EXCEPT !.mode = "configure", !.base = settings,
                                 !.cand = settings])

(* end / exit out of configuration mode: refused while dirty.              *)
LeaveConfigure(s) ==
  /\ Configuring(cli[s])
  /\ ~OverallDirty(cli[s])
  /\ Become(s, ExecState)

(* The process ends (crash, kill, end of input), possibly inside commit(). *)
Terminate(s) ==
  /\ cli[s].mode = "configure"
  /\ Become(s, ExecState)

\* Faulty: a brand-new definition is "reset to empty" instead of dropped.
ClearKeepsSlot(s) ==
  /\ Configuring(cli[s])
  /\ Become(s, [cli[s] EXCEPT !.cand = cli[s].base, !.draft = cli[s].orig,
                              !.edited = FALSE, !.manual = FALSE])

Clear(s) ==
  LET c == cli[s]
      r == [c EXCEPT !.cand = c.base, !.edited = FALSE, !.manual = FALSE]
  IN /\ Configuring(c)
     /\ Become(s, IF c.slot # NoDef /\ c.orig = Absent THEN Closed(r)
                  ELSE [r EXCEPT !.draft = c.orig])

(* topology | access-info | scenario | reference <name> in global          *)
(* configuration mode.  Re-entering the open definition only moves the     *)
(* prompt, unless its deletion is pending: then it is loaded again.        *)
EnterDefinition(s, d) ==
  LET c == cli[s] IN
  /\ Configuring(c)
  /\ CanSwitch(c, d)
  /\ ~(c.slot = d /\ c.draft # Absent)
  /\ FileState(d) # "alias"
  /\ Become(s, Reopened(c, d, IF Exists(d) THEN disk[d] ELSE NewBody))

\* Faulty: the mutation revision is not incremented.
EditDefinitionUntracked(s, content) ==
  /\ Configuring(cli[s])
  /\ cli[s].slot # NoDef
  /\ cli[s].draft \notin {Absent, content}
  /\ Become(s, [cli[s] EXCEPT !.draft = content, !.manual = TRUE])

(* Any structured edit or editor round trip that changes the draft.        *)
EditDefinition(s, content) ==
  LET c == cli[s] IN
  /\ Configuring(c)
  /\ c.slot # NoDef
  /\ c.draft \notin {Absent, content}
  /\ Become(s, [c EXCEPT !.draft = content, !.edited = TRUE, !.manual = TRUE])

(* no <kind> <name>: the open definition is marked for deletion or, when   *)
(* it was never committed, dropped; another one is loaded for deletion.    *)
RemoveDefinition(s, d) ==
  LET c == cli[s] IN
  /\ Configuring(c)
  /\ \/ /\ c.slot = d
        /\ Become(s, IF c.orig = Absent
                     THEN [Closed(c) EXCEPT !.edited = TRUE, !.manual = FALSE]
                     ELSE [c EXCEPT !.draft = Absent, !.edited = TRUE,
                                    !.manual = TRUE])
     \/ /\ c.slot # d
        /\ CanSwitch(c, d)
        /\ Exists(d)
        /\ Become(s, [Reopened(c, d, Absent) EXCEPT !.edited = TRUE,
                                                    !.manual = TRUE])

(* running-config: <kind> <name>.                                          *)
Select(s, d) ==
  LET c == cli[s]
      others == IF KindOf[d] = "reference" THEN c.cand.active
                ELSE {e \in c.cand.active : KindOf[e] # KindOf[d]}
  IN /\ Configuring(c)
     /\ d \in Selectable \ c.cand.active
     /\ WillExist(c, d)
     /\ KindOf[d] = "reference" => ~PendingDeletion(c, d)
     /\ Become(s, [c EXCEPT !.cand.active = others \cup {d}])

Unselect(s, d) ==
  /\ Configuring(cli[s])
  /\ d \in Selectable \cap cli[s].cand.active
  /\ Become(s, [cli[s] EXCEPT !.cand.active = @ \ {d}])

SetDescription(s, d) ==
  /\ Configuring(cli[s])
  /\ d \in Describable \cap cli[s].cand.active
  /\ Become(s, [cli[s] EXCEPT !.cand.described = @ \cup {d}])

ClearDescription(s, d) ==
  /\ Configuring(cli[s])
  /\ d \in cli[s].cand.active \cap cli[s].cand.described
  /\ Become(s, [cli[s] EXCEPT !.cand.described = @ \ {d}])

-----------------------------------------------------------------------------
(* discover topology: a preflight on the candidate, the Discovery run      *)
(* (which resolves its target again), and the replacement of the draft.    *)

SelectedTarget ==
  {TopologyOf[d] : d \in {e \in settings.active : KindOf[e] = "access_info"}}

DiscoveryAllowed(c, d) ==
  /\ CanSwitch(c, d)
  /\ c.slot = d => ~(DefinitionDirty(c) /\ c.edited)

CheckDiscovery(s) ==
  LET c == cli[s] IN
  /\ Configuring(c)
  /\ \E d \in SelectedTarget : DiscoveryAllowed(c, d)
  /\ cli' = [cli EXCEPT ![s] = [c EXCEPT !.stage = "discovery_checked"]]
  /\ UNCHANGED <<disk, settings>>

RunDiscovery(s) ==
  LET c == cli[s] IN
  /\ c.stage = "discovery_checked"
  /\ \E a \in settings.active :
       /\ KindOf[a] = "access_info"
       /\ Exists(a)
       /\ cli' = [cli EXCEPT ![s] = [c EXCEPT !.stage = "discovery_running",
                                             !.target = TopologyOf[a]]]
  /\ UNCHANGED <<disk, settings>>

ApplyDiscovery(s, content) ==
  LET c == cli[s]
      d == c.target
      rebuilt == IF c.slot = d /\ c.draft # Absent
                 THEN [c EXCEPT !.draft = content, !.edited = FALSE,
                                !.manual = FALSE]
                 ELSE Reopened(c, d, content)
  IN /\ c.stage = "discovery_running"
     /\ content \in Valid
     /\ \/ c.slot = d
        \/ Exists(d)
        \/ \A e \in CaseVariants[d] : ~Exists(e)
     /\ (c.slot = d /\ c.draft # Absent) \/ FileState(d) # "alias"
     /\ Become(s, [rebuilt EXCEPT !.stage = "idle", !.target = NoDef])

(* Any failure of the run leaves the candidate as it was.                  *)
FailDiscovery(s) ==
  LET c == cli[s] IN
  /\ c.stage \in {"discovery_checked", "discovery_running"}
  /\ cli' = [cli EXCEPT ![s] = [c EXCEPT !.stage = "idle", !.target = NoDef]]
  /\ UNCHANGED <<disk, settings>>

-----------------------------------------------------------------------------
(* commit().  A rejected or empty commit changes nothing.                  *)

BeginCommit(s) ==
  LET c == cli[s] IN
  /\ Configuring(c)
  /\ OverallDirty(c)
  /\ CommitValid(c)
  /\ cli' = [cli EXCEPT ![s] =
       IF Deleting(c) THEN [c EXCEPT !.stage = "settings_first"]
       ELSE IF Writing(c) THEN [c EXCEPT !.stage = "write_file"]
       ELSE [c EXCEPT !.stage = "settings", !.edited = FALSE,
                      !.manual = FALSE]]
  /\ UNCHANGED <<disk, settings>>

(* An OSError: the candidate is kept for another commit.                   *)
KeepCandidate(s, c) ==
  /\ cli' = [cli EXCEPT ![s] = [c EXCEPT !.stage = "idle", !.kept = TRUE]]
  /\ UNCHANGED <<disk, settings>>

(* A LabConfigError at the write: nothing is written either.               *)
Refused(s, c) ==
  /\ cli' = [cli EXCEPT ![s] = [c EXCEPT !.stage = "idle"]]
  /\ UNCHANGED <<disk, settings>>

AfterSettings(c) ==
  IF c.stage = "settings_first" THEN [c EXCEPT !.stage = "delete_file"]
  ELSE [c EXCEPT !.stage = "idle", !.kept = FALSE]

WriteSettings(s) ==
  LET c == cli[s]
      n == Normalized(c.cand)
  IN /\ c.stage \in {"settings_first", "settings"}
     /\ \/ /\ ~SettingsDirty(c)
           /\ cli' = [cli EXCEPT ![s] = AfterSettings(c)]
           /\ UNCHANGED <<disk, settings>>
        \/ /\ SettingsDirty(c)
           /\ settings' = n
           /\ cli' = [cli EXCEPT ![s] =
                [AfterSettings(c) EXCEPT !.cand = n, !.base = n]]
           /\ UNCHANGED disk
        \/ /\ SettingsDirty(c)
           /\ KeepCandidate(s, [c EXCEPT !.cand = n])

DeleteFile(s) ==
  LET c == cli[s] IN
  /\ c.stage = "delete_file"
  /\ \/ /\ Exists(c.slot)
        /\ disk' = [disk EXCEPT ![c.slot] = Absent]
        /\ cli' = [cli EXCEPT ![s] =
             [Closed(c) EXCEPT !.stage = "idle", !.edited = FALSE,
                               !.manual = FALSE, !.kept = FALSE]]
        /\ UNCHANGED settings
     \/ /\ Exists(c.slot)
        /\ KeepCandidate(s, c)
     \/ /\ ~Exists(c.slot)
        /\ Refused(s, c)

\* Faulty: the name is not looked up among the stored spellings.
WriteRefusedExactOnly(c) == FileState(c.slot) = "exact" /\ c.orig = Absent

\* Faulty: creation replaces a file that appeared in the meantime.
WriteRefusedAliasOnly(c) == FileState(c.slot) = "alias"

(* Replacing an existing file is unconditional; creating one is exclusive. *)
WriteRefused(c) ==
  \/ FileState(c.slot) = "alias"
  \/ FileState(c.slot) = "exact" /\ c.orig = Absent

\* Faulty: the session still takes the written definition for a new one.
AfterWriteStillNew(c) == [c EXCEPT !.stage = "settings"]

AfterWrite(c) ==
  [c EXCEPT !.stage = "settings", !.orig = c.draft, !.edited = FALSE,
            !.manual = FALSE]

WriteFile(s) ==
  LET c == cli[s] IN
  /\ c.stage = "write_file"
  /\ \/ /\ ~WriteRefused(c)
        /\ disk' = [disk EXCEPT ![c.slot] = c.draft]
        /\ cli' = [cli EXCEPT ![s] = AfterWrite(c)]
        /\ UNCHANGED settings
     \/ /\ ~WriteRefused(c)
        /\ KeepCandidate(s, c)
     \/ /\ WriteRefused(c)
        /\ Refused(s, c)

-----------------------------------------------------------------------------
Init ==
  /\ \E lab \in InitialLabs : disk = lab.disk /\ settings = lab.settings
  /\ cli = [s \in Session |-> ExecState]

Candidate(s) ==
  \/ EnterConfigure(s) \/ LeaveConfigure(s) \/ Terminate(s) \/ Clear(s)
  \/ \E d \in Def :
       \/ EnterDefinition(s, d) \/ RemoveDefinition(s, d)
       \/ Select(s, d) \/ Unselect(s, d)
       \/ SetDescription(s, d) \/ ClearDescription(s, d)
  \/ \E content \in Body : EditDefinition(s, content)

Discovery(s) ==
  \/ CheckDiscovery(s) \/ RunDiscovery(s) \/ FailDiscovery(s)
  \/ \E content \in Body : ApplyDiscovery(s, content)

Commit(s) ==
  BeginCommit(s) \/ WriteSettings(s) \/ DeleteFile(s) \/ WriteFile(s)

Next == \E s \in Session : Candidate(s) \/ Discovery(s) \/ Commit(s)

Spec == Init /\ [][Next]_vars

-----------------------------------------------------------------------------
(* Properties.                                                             *)

(* The abstract lab: the same two variables, with the candidates hidden.   *)
Abstract == INSTANCE CommittedLab

(* A single CLI process implements the abstract lab step by step, through  *)
(* every partial failure and every crash.                                  *)
ImplementsCommittedLab == Abstract!Spec

(* One operator, one process: "the CLI is the single writer of lab         *)
(* definitions" (lab.py, _write_definition).                               *)
SingleWriter == \A s, t \in Session : s = t

(* The selections of the stored running-config whose definition is gone.   *)
Dangling == Missing(settings.active)

(* No file operation of a commit, no failure between two of them and no    *)
(* crash leaves the stored running-config selecting a missing definition   *)
(* it did not already miss: a deletion writes settings.yaml before it      *)
(* unlinks, a creation links the file before settings.yaml selects it.     *)
NoNewDangling == [][Dangling' \subseteq Dangling]_<<disk, settings>>

(* After an OSError the message is "Candidate kept; retry 'commit'": while *)
(* the operator changes nothing, the retry has something left to write and *)
(* passes validation, wherever in the write sequence the failure was.      *)
KeptCandidateCommits ==
  \A s \in Session : (cli[s].kept /\ cli[s].stage = "idle") =>
                       OverallDirty(cli[s]) /\ CommitValid(cli[s])

CommitReturns(s) ==
  /\ cli[s].stage \in {"settings_first", "delete_file", "write_file", "settings"}
  /\ cli'[s].mode = "configure" /\ cli'[s].stage = "idle" /\ ~cli'[s].kept

(* When commit() reports success the stored lab is the candidate, also     *)
(* when earlier attempts wrote a part of it: nothing is left dirty, and    *)
(* a retried deletion or creation has happened.                            *)
SuccessMeansPersisted ==
  [][\A s \in Session : CommitReturns(s) =>
       /\ settings' = Normalized(cli[s].cand)
       /\ cli'[s].base = settings'
       /\ cli[s].slot # NoDef => disk'[cli[s].slot] = cli[s].draft]_vars

(* Discovery replaces the draft of its target only when no change made by  *)
(* the operator would be lost with it.                                     *)
DiscoveryKeepsManualEdits ==
  [][\A s \in Session :
       (/\ cli[s].stage = "discovery_running"
        /\ cli'[s].draft # cli[s].draft \/ cli'[s].slot # cli[s].slot
        /\ cli'[s].mode = "configure")
       => ~(DefinitionDirty(cli[s]) /\ cli[s].manual)]_vars

(* Only content that passed the validator of its kind reaches a file.      *)
OnlyValidStored == disk \in [Def -> Stored]

(* On a filesystem that folds case no two stored definitions are spellings *)
(* of one name, however many processes create definitions at once.         *)
NoAliasedPair ==
  Folding => \A d, e \in Def :
    e \in CaseVariants[d] /\ Exists(d) => ~Exists(e)

(* A definition that a session created from nothing never replaces a file  *)
(* that another process stored under that name in the meantime.            *)
CreateNeverOverwrites ==
  [][\A s \in Session :
       (cli[s].stage = "write_file" /\ cli[s].orig = Absent
        /\ cli'[s].stage = "settings")
       => ~Exists(cli[s].slot)]_vars
=============================================================================
