----------------------- MODULE CandidateCommitProofs -----------------------
(***************************************************************************)
(* Proofs about CandidateCommit, for every set of processes, definitions   *)
(* and contents, and about ReferenceOrder, the one selection of it that    *)
(* the code keeps as a list.                                               *)
(***************************************************************************)
EXTENDS CandidateCommit, ReferenceOrder, Functions, SequenceTheorems, WellFoundedInduction, TLAPS

-----------------------------------------------------------------------------
(* Type correctness.                                                       *)

WellTyped(c) == c \in CliState /\ SlotConsistent(c)

(* A process that becomes a well-typed state leaves everything well typed. *)
LEMMA BecomeTyped ==
  ASSUME TypeOK, NEW s \in Session, NEW c, WellTyped(c), Become(s, c)
  PROVE  TypeOK'
<1>1. [c EXCEPT !.kept = FALSE] \in CliState
  BY DEF WellTyped, CliState
<1>2. SlotConsistent([c EXCEPT !.kept = FALSE])
  BY DEF WellTyped, SlotConsistent, CliState
<1>3. cli' \in [Session -> CliState]
  BY <1>1 DEF TypeOK, Become
<1>4. \A t \in Session : SlotConsistent(cli'[t])
  BY <1>2 DEF TypeOK, Become
<1> QED
  BY <1>3, <1>4 DEF TypeOK, Become, SlotConsistent

(* The same for a step that also changes the stored lab.                   *)
LEMMA SetTyped ==
  ASSUME TypeOK, NEW s \in Session, NEW c, WellTyped(c),
         cli' = [cli EXCEPT ![s] = c],
         disk' \in [Def -> Body \cup {Absent}], settings' \in Settings
  PROVE  TypeOK'
<1>1. cli' \in [Session -> CliState]
  BY DEF TypeOK, WellTyped
<1>2. \A t \in Session : SlotConsistent(cli'[t])
  BY DEF TypeOK, WellTyped
<1> QED
  BY <1>1, <1>2 DEF TypeOK, SlotConsistent

LEMMA NormalizedTyped ==
  ASSUME NEW r \in Settings PROVE Normalized(r) \in Settings
BY DEF Normalized, Settings

LEMMA InitTyped == Init => TypeOK
BY IdentityAssumption, BodyAssumption, InitialLabsAssumption
   DEF Init, TypeOK, Stored, ExecState, CliState, NoSettings, Settings,
       Stages, SlotConsistent

LEMMA CandidateTyped ==
  ASSUME TypeOK, NEW s \in Session, Candidate(s) PROVE TypeOK'
<1> DEFINE c == cli[s]
<1>1. c \in CliState /\ SlotConsistent(c)
  BY DEF TypeOK
<1>2. WellTyped(ExecState)
  BY IdentityAssumption
     DEF WellTyped, ExecState, CliState, NoSettings, Settings, Stages, SlotConsistent
<1>3. CASE EnterConfigure(s)
  <2>1. WellTyped([ExecState EXCEPT !.mode = "configure", !.base = settings,
                                    !.cand = settings])
    BY <1>2 DEF WellTyped, CliState, SlotConsistent, TypeOK, ExecState
  <2> QED BY <2>1, <1>3, BecomeTyped DEF EnterConfigure
<1>4. CASE LeaveConfigure(s) \/ Terminate(s)
  BY <1>2, <1>4, BecomeTyped DEF LeaveConfigure, Terminate
<1>5. CASE Clear(s)
  <2> c.stage = "idle"
    BY <1>5 DEF Clear, Configuring
  <2> DEFINE r == [c EXCEPT !.cand = c.base, !.edited = FALSE, !.manual = FALSE]
             n == IF c.slot # NoDef /\ c.orig = Absent THEN Closed(r)
                  ELSE [r EXCEPT !.draft = c.orig]
  <2>1. WellTyped(n)
    BY <1>1 DEF WellTyped, CliState, SlotConsistent, Closed
  <2> QED BY <2>1, <1>5, BecomeTyped DEF Clear
<1>6. ASSUME NEW d \in Def, EnterDefinition(s, d) PROVE TypeOK'
  <2> c.stage = "idle"
    BY <1>6 DEF EnterDefinition, Configuring
  <2>1. WellTyped(Reopened(c, d, IF Exists(d) THEN disk[d] ELSE NewBody))
    BY <1>1, <1>6, IdentityAssumption, BodyAssumption
       DEF WellTyped, CliState, SlotConsistent, Reopened, TypeOK, Exists
  <2> QED BY <2>1, <1>6, BecomeTyped DEF EnterDefinition
<1>7. ASSUME NEW d \in Def, RemoveDefinition(s, d) PROVE TypeOK'
  <2> c.stage = "idle"
    BY <1>7 DEF RemoveDefinition, Configuring
  <2>1. CASE c.slot = d
    <3>1. WellTyped(IF c.orig = Absent
                    THEN [Closed(c) EXCEPT !.edited = TRUE, !.manual = FALSE]
                    ELSE [c EXCEPT !.draft = Absent, !.edited = TRUE,
                                   !.manual = TRUE])
      BY <1>1, <2>1, IdentityAssumption
         DEF WellTyped, CliState, SlotConsistent, Closed
    <3> QED BY <3>1, <2>1, <1>7, BecomeTyped DEF RemoveDefinition
  <2>2. CASE c.slot # d
    <3>1. WellTyped([Reopened(c, d, Absent) EXCEPT !.edited = TRUE,
                                                   !.manual = TRUE])
      BY <1>1, <2>2, <1>7, IdentityAssumption
         DEF WellTyped, CliState, SlotConsistent, Reopened, TypeOK, Exists,
             RemoveDefinition
    <3> QED BY <3>1, <2>2, <1>7, BecomeTyped DEF RemoveDefinition
  <2> QED BY <2>1, <2>2
<1>8. ASSUME NEW d \in Def, Select(s, d) PROVE TypeOK'
  <2> DEFINE others == IF KindOf[d] = "reference" THEN c.cand.active
                       ELSE {e \in c.cand.active : KindOf[e] # KindOf[d]}
  <2>1. WellTyped([c EXCEPT !.cand.active = others \cup {d}])
    BY <1>1 DEF WellTyped, CliState, SlotConsistent, Settings
  <2> QED BY <2>1, <1>8, BecomeTyped DEF Select
<1>9. ASSUME NEW d \in Def,
             Unselect(s, d) \/ SetDescription(s, d) \/ ClearDescription(s, d)
      PROVE TypeOK'
  <2>1. /\ WellTyped([c EXCEPT !.cand.active = @ \ {d}])
        /\ WellTyped([c EXCEPT !.cand.described = @ \cup {d}])
        /\ WellTyped([c EXCEPT !.cand.described = @ \ {d}])
    BY <1>1 DEF WellTyped, CliState, SlotConsistent, Settings
  <2> QED BY <2>1, <1>9, BecomeTyped DEF Unselect, SetDescription, ClearDescription
<1>10. ASSUME NEW content \in Body, EditDefinition(s, content) PROVE TypeOK'
  <2> c.stage = "idle"
    BY <1>10 DEF EditDefinition, Configuring
  <2>1. WellTyped([c EXCEPT !.draft = content, !.edited = TRUE, !.manual = TRUE])
    BY <1>1, <1>10, BodyAssumption
       DEF WellTyped, CliState, SlotConsistent, EditDefinition
  <2> QED BY <2>1, <1>10, BecomeTyped DEF EditDefinition
<1> QED
  BY <1>3, <1>4, <1>5, <1>6, <1>7, <1>8, <1>9, <1>10 DEF Candidate

LEMMA DiscoveryTyped ==
  ASSUME TypeOK, NEW s \in Session, Discovery(s) PROVE TypeOK'
<1> DEFINE c == cli[s]
<1>1. c \in CliState /\ SlotConsistent(c)
  BY DEF TypeOK
<1>2. CASE CheckDiscovery(s) \/ FailDiscovery(s)
  <2>1. /\ WellTyped([c EXCEPT !.stage = "discovery_checked"])
        /\ WellTyped([c EXCEPT !.stage = "idle", !.target = NoDef])
    BY <1>1 DEF WellTyped, CliState, SlotConsistent, Stages
  <2> QED
    BY <2>1, <1>2, SetTyped DEF CheckDiscovery, FailDiscovery, TypeOK
<1>3. CASE RunDiscovery(s)
  <2>1. PICK a \in settings.active :
          cli' = [cli EXCEPT ![s] = [c EXCEPT !.stage = "discovery_running",
                                              !.target = TopologyOf[a]]]
    BY <1>3 DEF RunDiscovery
  <2>2. TopologyOf[a] \in Def
    BY IdentityAssumption DEF TypeOK, Settings
  <2>3. WellTyped([c EXCEPT !.stage = "discovery_running", !.target = TopologyOf[a]])
    BY <1>1, <2>2, IdentityAssumption DEF WellTyped, CliState, SlotConsistent, Stages
  <2> QED
    BY <2>1, <2>3, <1>3, SetTyped DEF RunDiscovery, TypeOK
<1>4. ASSUME NEW content \in Body, ApplyDiscovery(s, content) PROVE TypeOK'
  <2> DEFINE d == c.target
             rebuilt == IF c.slot = d /\ c.draft # Absent
                        THEN [c EXCEPT !.draft = content, !.edited = FALSE,
                                       !.manual = FALSE]
                        ELSE Reopened(c, d, content)
  <2>1. d \in Def
    BY <1>1, <1>4 DEF ApplyDiscovery, CliState, SlotConsistent
  <2>2. WellTyped([rebuilt EXCEPT !.stage = "idle", !.target = NoDef])
    BY <1>1, <2>1, <1>4, IdentityAssumption, BodyAssumption
       DEF WellTyped, CliState, SlotConsistent, Stages, Reopened, TypeOK
  <2> QED
    BY <2>2, <1>4, BecomeTyped DEF ApplyDiscovery
<1> QED
  BY <1>2, <1>3, <1>4 DEF Discovery

LEMMA CommitTyped ==
  ASSUME TypeOK, NEW s \in Session, Commit(s) PROVE TypeOK'
<1> DEFINE c == cli[s]
           n == Normalized(c.cand)
<1>1. c \in CliState /\ SlotConsistent(c)
  BY DEF TypeOK
<1>2. n \in Settings
  BY <1>1, NormalizedTyped DEF CliState
<1>3. CASE BeginCommit(s)
  <2> DEFINE m == IF Deleting(c) THEN [c EXCEPT !.stage = "settings_first"]
                  ELSE IF Writing(c) THEN [c EXCEPT !.stage = "write_file"]
                  ELSE [c EXCEPT !.stage = "settings", !.edited = FALSE,
                                 !.manual = FALSE]
  <2>1. WellTyped(m)
    BY <1>1, <1>3
       DEF WellTyped, CliState, SlotConsistent, Stages, BeginCommit, CommitValid,
           Configuring, Deleting, Writing, DefinitionDirty
  <2> QED
    BY <2>1, <1>3, SetTyped DEF BeginCommit, TypeOK
<1>4. CASE WriteSettings(s)
  <2> HIDE DEF n
  <2>1. WellTyped(AfterSettings(c))
    BY <1>1 DEF WellTyped, CliState, SlotConsistent, Stages, AfterSettings
  <2>2. WellTyped([AfterSettings(c) EXCEPT !.cand = n, !.base = n])
    BY <2>1, <1>2 DEF WellTyped, CliState, SlotConsistent
  <2>3. WellTyped([[c EXCEPT !.cand = n] EXCEPT !.stage = "idle", !.kept = TRUE])
    BY <1>1, <1>2 DEF WellTyped, CliState, SlotConsistent, Stages
  <2> QED
    BY <2>1, <2>2, <2>3, <1>2, <1>4, SetTyped DEF WriteSettings, KeepCandidate, TypeOK, n
<1>5. CASE DeleteFile(s)
  <2>1. /\ WellTyped([Closed(c) EXCEPT !.stage = "idle", !.edited = FALSE,
                                       !.manual = FALSE, !.kept = FALSE])
        /\ WellTyped([c EXCEPT !.stage = "idle", !.kept = TRUE])
        /\ WellTyped([c EXCEPT !.stage = "idle"])
    BY <1>1 DEF WellTyped, CliState, SlotConsistent, Stages, Closed
  <2> QED
    BY <2>1, <1>5, SetTyped DEF DeleteFile, KeepCandidate, Refused, TypeOK
<1>6. CASE WriteFile(s)
  <2>1. c.draft \in Valid /\ c.slot \in Def
    BY <1>1, <1>6, BodyAssumption DEF WriteFile, SlotConsistent, CliState
  <2>2. /\ WellTyped(AfterWrite(c))
        /\ WellTyped([c EXCEPT !.stage = "idle", !.kept = TRUE])
        /\ WellTyped([c EXCEPT !.stage = "idle"])
    BY <1>1, <2>1, BodyAssumption
       DEF WellTyped, CliState, SlotConsistent, Stages, AfterWrite
  <2>3. [disk EXCEPT ![c.slot] = c.draft] \in [Def -> Body \cup {Absent}]
    BY <2>1, BodyAssumption DEF TypeOK
  <2> QED
    BY <2>2, <2>3, <1>6, SetTyped DEF WriteFile, KeepCandidate, Refused, TypeOK
<1> QED
  BY <1>3, <1>4, <1>5, <1>6 DEF Commit

LEMMA NextTyped == TypeOK /\ [Next]_vars => TypeOK'
<1>1. ASSUME TypeOK, UNCHANGED vars PROVE TypeOK'
  BY <1>1 DEF TypeOK, vars, SlotConsistent
<1> QED
  BY <1>1, CandidateTyped, DiscoveryTyped, CommitTyped DEF Next

(* Every value of a session and of the stored lab keeps its type, and no   *)
(* session holds a definition that is neither stored nor drafted.          *)
THEOREM TypeCorrect == Spec => []TypeOK
BY InitTyped, NextTyped, PTL DEF Spec

-----------------------------------------------------------------------------
(* What a step can do to the stored lab.                                   *)

LEMMA LabStep ==
  ASSUME TypeOK, Next
  PROVE  \/ UNCHANGED <<disk, settings>>
         \/ \E s \in Session : LET c == cli[s] IN
              /\ c.stage = "delete_file" /\ DeleteFile(s)
              /\ disk' = [disk EXCEPT ![c.slot] = Absent]
              /\ UNCHANGED settings
         \/ \E s \in Session : LET c == cli[s] IN
              /\ c.stage = "write_file" /\ WriteFile(s)
              /\ ~WriteRefused(c)
              /\ disk' = [disk EXCEPT ![c.slot] = c.draft]
              /\ UNCHANGED settings
         \/ \E s \in Session : LET c == cli[s] IN
              /\ c.stage \in {"settings_first", "settings"} /\ WriteSettings(s)
              /\ settings' = Normalized(c.cand)
              /\ UNCHANGED disk
<1>1. PICK s \in Session : Candidate(s) \/ Discovery(s) \/ Commit(s)
  BY DEF Next
<1>2. CASE Candidate(s)
  BY <1>2 DEF Candidate, Become, EnterConfigure, LeaveConfigure, Terminate, Clear,
              EnterDefinition, RemoveDefinition, Select, Unselect, SetDescription,
              ClearDescription, EditDefinition
<1>3. CASE Discovery(s)
  BY <1>3 DEF Discovery, CheckDiscovery, RunDiscovery, FailDiscovery,
              ApplyDiscovery, Become
<1>4. CASE BeginCommit(s)
  BY <1>4 DEF BeginCommit
<1>5. CASE WriteSettings(s)
  BY <1>5 DEF WriteSettings, KeepCandidate
<1>6. CASE DeleteFile(s)
  BY <1>6 DEF DeleteFile, KeepCandidate, Refused
<1>7. CASE WriteFile(s)
  BY <1>7 DEF WriteFile, KeepCandidate, Refused
<1> QED
  BY <1>1, <1>2, <1>3, <1>4, <1>5, <1>6, <1>7 DEF Commit

(* A file that is written holds validated content, and its name is not     *)
(* another spelling of a stored one.                                       *)
LEMMA WrittenFile ==
  ASSUME TypeOK, NEW s \in Session, cli[s].stage = "write_file"
  PROVE  cli[s].draft \in Valid /\ cli[s].slot \in Def
BY BodyAssumption DEF TypeOK, SlotConsistent, CliState

LEMMA InitStored == Init => OnlyValidStored /\ NoAliasedPair
BY InitialLabsAssumption DEF Init, OnlyValidStored, NoAliasedPair, Exists

LEMMA NextStored ==
  ASSUME TypeOK, OnlyValidStored, NoAliasedPair, [Next]_vars
  PROVE  OnlyValidStored' /\ NoAliasedPair'
<1>1. CASE disk' = disk
  BY <1>1 DEF OnlyValidStored, NoAliasedPair, Exists
<1>2. ASSUME NEW s \in Session, cli[s].stage = "delete_file",
             disk' = [disk EXCEPT ![cli[s].slot] = Absent]
      PROVE  OnlyValidStored' /\ NoAliasedPair'
  BY <1>2 DEF OnlyValidStored, NoAliasedPair, Exists, Stored
<1>3. ASSUME NEW s \in Session, cli[s].stage = "write_file",
             ~WriteRefused(cli[s]),
             disk' = [disk EXCEPT ![cli[s].slot] = cli[s].draft]
      PROVE  OnlyValidStored' /\ NoAliasedPair'
  <2>1. cli[s].draft \in Valid /\ cli[s].slot \in Def
    BY <1>3, WrittenFile
  <2>2. OnlyValidStored'
    BY <1>3, <2>1 DEF OnlyValidStored, Stored
  <2>3. Folding => \A e \in CaseVariants[cli[s].slot] : ~Exists(e)
    BY <1>3, <2>1, IdentityAssumption
       DEF WriteRefused, FileState, NoAliasedPair, Exists
  <2>4. NoAliasedPair'
    BY <1>3, <2>1, <2>3, IdentityAssumption
       DEF NoAliasedPair, Exists, OnlyValidStored
  <2> QED
    BY <2>2, <2>4
<1> QED
  BY <1>1, <1>2, <1>3, LabStep DEF vars

(* However many CLI processes share the lab, and whatever fails: only      *)
(* validated content is stored, and on a filesystem that folds case no two *)
(* stored names are spellings of one another.                              *)
THEOREM StoredLabSafe == Spec => [](OnlyValidStored /\ NoAliasedPair)
<1>1. OnlyValidStored /\ NoAliasedPair /\ TypeOK /\ [Next]_vars
      => (OnlyValidStored /\ NoAliasedPair)'
  BY NextStored
<1> QED
  BY <1>1, InitStored, TypeCorrect, PTL DEF Spec

(* Two CLI processes that create definitions whose names differ only by    *)
(* case do not both succeed on a filesystem that folds case: the exclusive *)
(* creation of the second one finds the first.                             *)
THEOREM NoAliases == Spec => []NoAliasedPair
BY StoredLabSafe, PTL

-----------------------------------------------------------------------------
(* One CLI process.  The properties of commit() hold at each of its file   *)
(* operations because of what the session knows of the stored lab there:   *)
(* its baseline is settings.yaml, the original of its open definition is   *)
(* the stored file, and what validation established still holds.           *)

CommitStages == {"settings_first", "delete_file", "write_file", "settings"}

(* The session's snapshots are what is stored.                             *)
Grounded(c) ==
  c.mode = "configure" =>
    /\ c.base = settings
    /\ c.slot # NoDef => c.orig = disk[c.slot]

Tracks(c) ==
  /\ Grounded(c)
  /\ c.mode = "exec" => c.stage = "idle" /\ ~c.kept
  /\ c.stage \in CommitStages => CommitValid(c)
  /\ c.stage = "settings_first" => Deleting(c)
  /\ c.stage = "delete_file" => Deleting(c) /\ c.slot \notin c.base.active
  /\ c.stage = "write_file" => Writing(c)
  /\ c.stage = "settings" => ~DefinitionDirty(c)
  /\ c.kept /\ c.stage \notin CommitStages => OverallDirty(c) /\ CommitValid(c)

Tracking == \A s \in Session : Tracks(cli[s])

LEMMA InitTracks == Init => Tracking
<1>1. ASSUME NEW c, c = ExecState PROVE Tracks(c)
  BY <1>1 DEF ExecState, Tracks, Grounded, CommitStages
<1> QED
  BY <1>1 DEF Init, Tracking

(* Commands on the candidate leave an idle session with nothing to retry,  *)
(* so only its snapshots matter.                                           *)
LEMMA CandidateGrounded ==
  ASSUME TypeOK, TypeOK', Tracking, NEW s \in Session, Candidate(s)
  PROVE  LET c == cli'[s] IN
           /\ c.stage = "idle" /\ ~c.kept
           /\ UNCHANGED <<disk, settings>>
           /\ c.mode = "configure" =>
                /\ c.base = settings
                /\ c.slot # NoDef => c.orig = disk[c.slot]
<1> DEFINE c == cli[s]
<1>1. c \in CliState /\ SlotConsistent(c) /\ Grounded(c)
  BY DEF TypeOK, Tracking, Tracks
<1>2. CASE EnterConfigure(s)
  BY <1>1, <1>2 DEF EnterConfigure, Become, ExecState, TypeOK
<1>3. CASE LeaveConfigure(s) \/ Terminate(s)
  BY <1>1, <1>3 DEF LeaveConfigure, Terminate, Become, ExecState, TypeOK
<1>4. CASE Clear(s)
  BY <1>1, <1>4 DEF Clear, Configuring, Become, Closed, Grounded, CliState, TypeOK
<1>5. ASSUME NEW d \in Def, EnterDefinition(s, d)
      PROVE  /\ cli'[s].stage = "idle" /\ ~cli'[s].kept
             /\ UNCHANGED <<disk, settings>>
             /\ cli'[s].base = settings /\ cli'[s].orig = disk[cli'[s].slot]
  BY <1>1, <1>5 DEF EnterDefinition, Configuring, Become, Reopened, Grounded, CliState, TypeOK
<1>6. ASSUME NEW d \in Def, RemoveDefinition(s, d)
      PROVE  /\ cli'[s].stage = "idle" /\ ~cli'[s].kept
             /\ UNCHANGED <<disk, settings>>
             /\ cli'[s].base = settings
             /\ cli'[s].slot # NoDef => cli'[s].orig = disk[cli'[s].slot]
  <2>1. c.base = settings /\ c.stage = "idle" /\ UNCHANGED <<disk, settings>>
    BY <1>1, <1>6 DEF RemoveDefinition, Configuring, Grounded, Become
  <2>2. CASE c.slot = d /\ c.orig = Absent
    <3>1. cli'[s] = [[Closed(c) EXCEPT !.edited = TRUE, !.manual = FALSE]
                       EXCEPT !.kept = FALSE]
      BY <2>2, <1>6 DEF RemoveDefinition, Become, TypeOK
    <3> QED
      BY <1>1, <2>1, <3>1 DEF Closed, CliState
  <2>3. CASE c.slot = d /\ c.orig # Absent
    <3>1. cli'[s] = [[c EXCEPT !.draft = Absent, !.edited = TRUE, !.manual = TRUE]
                       EXCEPT !.kept = FALSE]
      BY <2>3, <1>6 DEF RemoveDefinition, Become, TypeOK
    <3>2. c.orig = disk[c.slot] \/ c.slot = NoDef
      BY <1>1, <1>6 DEF RemoveDefinition, Configuring, Grounded
    <3> QED
      BY <1>1, <2>1, <3>1, <3>2 DEF CliState
  <2>4. CASE c.slot # d
    <3>1. cli'[s] = [[Reopened(c, d, Absent) EXCEPT !.edited = TRUE, !.manual = TRUE]
                       EXCEPT !.kept = FALSE]
      BY <2>4, <1>6 DEF RemoveDefinition, Become, TypeOK
    <3> QED
      BY <1>1, <2>1, <3>1 DEF Reopened, CliState
  <2> QED
    BY <2>1, <2>2, <2>3, <2>4
<1>7. ASSUME NEW d \in Def,
             Select(s, d) \/ Unselect(s, d) \/ SetDescription(s, d) \/ ClearDescription(s, d)
      PROVE  /\ cli'[s].stage = "idle" /\ ~cli'[s].kept
             /\ UNCHANGED <<disk, settings>>
             /\ cli'[s].base = settings
             /\ cli'[s].slot # NoDef => cli'[s].orig = disk[cli'[s].slot]
  <2>1. /\ c.base = settings /\ c.stage = "idle" /\ UNCHANGED <<disk, settings>>
        /\ c.slot # NoDef => c.orig = disk[c.slot]
    BY <1>1, <1>7
       DEF Select, Unselect, SetDescription, ClearDescription, Configuring,
           Grounded, Become
  <2>2. CASE Select(s, d)
    BY <1>1, <2>1, <2>2 DEF Select, Become, CliState, TypeOK
  <2>3. CASE Unselect(s, d)
    BY <1>1, <2>1, <2>3 DEF Unselect, Become, CliState, TypeOK
  <2>4. CASE SetDescription(s, d) \/ ClearDescription(s, d)
    <3>1. \E described : cli'[s] = [[c EXCEPT !.cand.described = described]
                                      EXCEPT !.kept = FALSE]
      BY <1>1, <2>4 DEF SetDescription, ClearDescription, Become, CliState, TypeOK
    <3> QED
      BY <1>1, <2>1, <3>1 DEF CliState
  <2> QED
    BY <1>7, <2>1, <2>2, <2>3, <2>4
<1>8. ASSUME NEW content \in Body, EditDefinition(s, content)
      PROVE  /\ cli'[s].stage = "idle" /\ ~cli'[s].kept
             /\ UNCHANGED <<disk, settings>>
             /\ cli'[s].base = settings
             /\ cli'[s].slot # NoDef => cli'[s].orig = disk[cli'[s].slot]
  BY <1>1, <1>8 DEF EditDefinition, Configuring, Become, Grounded, CliState, TypeOK
<1> QED
  BY <1>2, <1>3, <1>4, <1>5, <1>6, <1>7, <1>8 DEF Candidate

(* While the stored lab does not change, the sessions that do not move     *)
(* keep tracking it.                                                       *)
LEMMA IdleTracks ==
  ASSUME SingleWriter, TypeOK', NEW s \in Session,
         UNCHANGED <<disk, settings>>, Grounded(cli[s])',
         cli'[s].stage \notin CommitStages,
         cli'[s].mode = "exec" => cli'[s].stage = "idle" /\ ~cli'[s].kept,
         cli'[s].kept => (OverallDirty(cli[s]) /\ CommitValid(cli[s]))'
  PROVE  Tracking'
<1>1. cli'[s] \in CliState
  BY DEF TypeOK
<1>2. Tracks(cli[s])'
  BY <1>1 DEF Tracks, CommitStages, CliState
<1> QED
  BY <1>2 DEF Tracking, SingleWriter

LEMMA DiscoveryTracks ==
  ASSUME SingleWriter, TypeOK, TypeOK', Tracking,
         NEW s \in Session, Discovery(s)
  PROVE  Tracking'
<1> DEFINE c == cli[s]
<1>1. c \in CliState /\ SlotConsistent(c) /\ Tracks(c)
  BY DEF TypeOK, Tracking
<1>2. CASE CheckDiscovery(s) \/ RunDiscovery(s) \/ FailDiscovery(s)
  <2>1. PICK stage \in {"idle", "discovery_checked", "discovery_running"}, target \in Def \cup {NoDef} :
          cli' = [cli EXCEPT ![s] = [c EXCEPT !.stage = stage, !.target = target]]
    <3>1. CASE CheckDiscovery(s)
      <4>1. [c EXCEPT !.stage = "discovery_checked"]
              = [c EXCEPT !.stage = "discovery_checked", !.target = c.target]
        BY <1>1 DEF CliState
      <4> QED BY <3>1, <4>1, <1>1 DEF CheckDiscovery, CliState
    <3>2. CASE RunDiscovery(s)
      BY <3>2, <1>1, IdentityAssumption DEF RunDiscovery, TypeOK, Settings
    <3>3. CASE FailDiscovery(s)
      BY <3>3 DEF FailDiscovery
    <3> QED BY <1>2, <3>1, <3>2, <3>3
  <2>2. c.mode = "configure" /\ c.stage \notin CommitStages /\ UNCHANGED <<disk, settings>>
    BY <1>1, <1>2
       DEF CheckDiscovery, RunDiscovery, FailDiscovery, Configuring, Tracks, CommitStages, CliState
  <2>3. /\ cli'[s].mode = c.mode /\ cli'[s].stage = stage /\ cli'[s].kept = c.kept
        /\ cli'[s].base = c.base /\ cli'[s].cand = c.cand /\ cli'[s].slot = c.slot
        /\ cli'[s].orig = c.orig /\ cli'[s].draft = c.draft
    BY <1>1, <2>1 DEF CliState, TypeOK
  <2>4. Grounded(cli[s])'
    BY <1>1, <2>2, <2>3 DEF Grounded, Tracks
  <2>5. c.kept => (OverallDirty(cli[s]) /\ CommitValid(cli[s]))'
    BY <1>1, <2>2, <2>3
       DEF Tracks, OverallDirty, SettingsDirty, DefinitionDirty, CommitValid, Writing,
           Deleting, Selects, NewFindings, EffectiveExists, Missing, FileState, Exists
  <2> QED
    BY <2>1, <2>2, <2>3, <2>4, <2>5, IdleTracks DEF CommitStages
<1>3. ASSUME NEW content \in Body, ApplyDiscovery(s, content) PROVE Tracking'
  <2>1. /\ cli'[s].stage = "idle" /\ ~cli'[s].kept /\ UNCHANGED <<disk, settings>>
        /\ cli'[s].mode = c.mode /\ c.mode = "configure" /\ cli'[s].base = c.base
        /\ \/ cli'[s].slot = c.slot /\ cli'[s].orig = c.orig /\ c.slot # NoDef
           \/ cli'[s].slot = c.target /\ cli'[s].orig = disk[c.target]
    BY <1>1, <1>3 DEF ApplyDiscovery, Become, Reopened, Tracks, SlotConsistent, CliState, TypeOK
  <2>2. Grounded(cli[s])'
    BY <1>1, <2>1 DEF Grounded, Tracks
  <2> QED
    BY <2>1, <2>2, IdleTracks DEF CommitStages
<1> QED
  BY <1>2, <1>3 DEF Discovery

(* Validation looks at the selections and the open definition only.        *)
LEMMA SameVerdict ==
  ASSUME NEW c, NEW e, e.slot = c.slot, e.orig = c.orig, e.draft = c.draft,
         e.cand.active = c.cand.active, e.base.active = c.base.active
  PROVE  /\ DefinitionDirty(e) = DefinitionDirty(c)
         /\ Deleting(e) = Deleting(c) /\ Writing(e) = Writing(c)
         /\ CommitValid(e) = CommitValid(c)
BY DEF CommitValid, DefinitionDirty, Deleting, Writing, Selects, NewFindings,
       EffectiveExists

(* A definition that may be deleted is not selected by the candidate.      *)
LEMMA DeletedIsUnselected ==
  ASSUME NEW c, CommitValid(c), Deleting(c) PROVE c.slot \notin c.cand.active
BY DEF CommitValid, Deleting, NewFindings, EffectiveExists, Missing

LEMMA BeginCommitTracks ==
  ASSUME SingleWriter, TypeOK, Tracking, NEW s \in Session, BeginCommit(s)
  PROVE  Tracking'
<1> DEFINE c == cli[s]
           e == cli'[s]
<1>1. c \in CliState /\ Tracks(c)
  BY DEF TypeOK, Tracking
<1>2. /\ c.mode = "configure" /\ CommitValid(c) /\ UNCHANGED <<disk, settings>>
      /\ e.mode = c.mode /\ e.base = c.base /\ e.cand = c.cand /\ e.slot = c.slot
      /\ e.orig = c.orig /\ e.draft = c.draft
      /\ \/ e.stage = "settings_first" /\ Deleting(c)
         \/ e.stage = "write_file" /\ Writing(c)
         \/ e.stage = "settings" /\ ~DefinitionDirty(c)
  BY <1>1 DEF BeginCommit, Configuring, CliState, TypeOK, Deleting, Writing
<1>3. Tracks(cli[s])'
  BY <1>1, <1>2
     DEF Tracks, Grounded, CommitStages, CommitValid, DefinitionDirty, Deleting, Writing,
         Selects, NewFindings, EffectiveExists, Missing, FileState, Exists
<1> QED
  BY <1>3 DEF Tracking, SingleWriter

LEMMA WriteSettingsTracks ==
  ASSUME SingleWriter, TypeOK, Tracking, NEW s \in Session, WriteSettings(s)
  PROVE  Tracking'
<1> DEFINE c == cli[s]
           e == cli'[s]
           n == Normalized(c.cand)
<1>1. /\ c \in CliState /\ Tracks(c) /\ CommitValid(c) /\ c.mode = "configure"
      /\ c.base = settings
      /\ c.slot # NoDef => c.orig = disk[c.slot]
      /\ c.stage = "settings_first" => Deleting(c)
      /\ c.stage = "settings" => ~DefinitionDirty(c)
  BY DEF TypeOK, Tracking, Tracks, Grounded, WriteSettings, CommitStages, CliState
<1>2. c.stage \in {"settings_first", "settings"} /\ UNCHANGED disk
  BY DEF WriteSettings, KeepCandidate
<1>3. n.active = c.cand.active /\ Normalized(n) = n
  BY DEF Normalized
<1>4. /\ e.mode = c.mode /\ e.slot = c.slot /\ e.orig = c.orig /\ e.draft = c.draft
      /\ e.cand.active = c.cand.active
      /\ \/ /\ UNCHANGED settings /\ e.base = c.base /\ ~SettingsDirty(c)
            /\ e = AfterSettings(c)
         \/ /\ settings' = n /\ e.base = n
            /\ e.stage = AfterSettings(c).stage /\ e.kept = AfterSettings(c).kept
         \/ /\ UNCHANGED settings /\ e.base = c.base /\ SettingsDirty(c)
            /\ e.cand = n /\ e.stage = "idle"
  <2> HIDE DEF n
  <2>1. AfterSettings(c) \in CliState
    BY <1>1 DEF AfterSettings, CliState, Stages
  <2>2. /\ AfterSettings(c).mode = c.mode /\ AfterSettings(c).slot = c.slot
        /\ AfterSettings(c).orig = c.orig /\ AfterSettings(c).draft = c.draft
        /\ AfterSettings(c).base = c.base /\ AfterSettings(c).cand = c.cand
    BY <1>1 DEF AfterSettings, CliState
  <2>3. \/ e = AfterSettings(c) /\ ~SettingsDirty(c) /\ UNCHANGED settings
        \/ e = [AfterSettings(c) EXCEPT !.cand = n, !.base = n] /\ settings' = n
        \/ /\ e = [[c EXCEPT !.cand = n] EXCEPT !.stage = "idle", !.kept = TRUE]
           /\ SettingsDirty(c) /\ UNCHANGED settings
    BY DEF WriteSettings, KeepCandidate, TypeOK, n
  <2>4. CASE e = AfterSettings(c) /\ ~SettingsDirty(c) /\ UNCHANGED settings
    BY <2>2, <2>4
  <2>5. CASE e = [AfterSettings(c) EXCEPT !.cand = n, !.base = n] /\ settings' = n
    <3> HIDE DEF e
    <3> QED BY <1>3, <2>1, <2>2, <2>5 DEF CliState
  <2>6. CASE /\ e = [[c EXCEPT !.cand = n] EXCEPT !.stage = "idle", !.kept = TRUE]
             /\ SettingsDirty(c) /\ UNCHANGED settings
    <3> HIDE DEF e
    <3> QED BY <1>1, <1>3, <2>6 DEF CliState
  <2> QED
    BY <2>3, <2>4, <2>5, <2>6
<1>5. CASE UNCHANGED settings /\ SettingsDirty(c) /\ e.cand = n /\ e.base = c.base /\ e.stage = "idle"
  <2>1. OverallDirty(cli[s])'
    BY <1>3, <1>5 DEF OverallDirty, SettingsDirty, n
  <2>2. CommitValid(cli[s])'
    BY <1>1, <1>2, <1>4, <1>5
       DEF CommitValid, DefinitionDirty, Deleting, Writing, Selects, NewFindings,
           EffectiveExists, Missing, FileState, Exists
  <2>3. Tracks(cli[s])'
    BY <1>1, <1>2, <1>4, <1>5, <2>1, <2>2 DEF Tracks, Grounded, CommitStages
  <2> QED
    BY <2>3 DEF Tracking, SingleWriter
<1>6. CASE /\ e.stage = AfterSettings(c).stage /\ e.kept = AfterSettings(c).kept
           /\ settings' = e.base /\ e.base.active = c.cand.active
  <2>1. CASE c.stage = "settings"
    <3>1. e.stage = "idle" /\ ~e.kept
      BY <1>1, <1>6, <2>1 DEF AfterSettings, CliState
    <3> QED
      BY <3>1, <1>1, <1>2, <1>4, <1>6 DEF Tracks, Grounded, CommitStages, Tracking, SingleWriter
  <2>2. CASE c.stage = "settings_first"
    <3>1. e.stage = "delete_file"
      BY <1>1, <1>6, <2>2 DEF AfterSettings, CliState
    <3>2. c.slot \notin c.cand.active
      BY <1>1, <2>2, DeletedIsUnselected
    <3>3. CommitValid(cli[s])' /\ Deleting(cli[s])'
      BY <1>1, <1>2, <1>4, <1>6, <2>2, <3>2
         DEF CommitValid, DefinitionDirty, Deleting, Writing, Selects, NewFindings,
             EffectiveExists, Missing, FileState, Exists
    <3>4. Tracks(cli[s])'
      BY <3>1, <3>2, <3>3, <1>1, <1>2, <1>4, <1>6 DEF Tracks, Grounded, CommitStages
    <3> QED
      BY <3>4 DEF Tracking, SingleWriter
  <2> QED
    BY <1>2, <2>1, <2>2
<1>7. \/ UNCHANGED settings /\ SettingsDirty(c) /\ e.cand = n /\ e.base = c.base /\ e.stage = "idle"
      \/ /\ e.stage = AfterSettings(c).stage /\ e.kept = AfterSettings(c).kept
         /\ settings' = e.base /\ e.base.active = c.cand.active
  <2>1. CASE UNCHANGED settings /\ e.base = c.base /\ ~SettingsDirty(c) /\ e = AfterSettings(c)
    <3>1. settings' = e.base /\ e.base.active = c.cand.active
      BY <1>1, <2>1 DEF SettingsDirty, Normalized
    <3>2. e.stage = AfterSettings(c).stage /\ e.kept = AfterSettings(c).kept
      BY <2>1
    <3> QED BY <3>1, <3>2
  <2>2. CASE /\ settings' = n /\ e.base = n
             /\ e.stage = AfterSettings(c).stage /\ e.kept = AfterSettings(c).kept
    BY <1>3, <2>2
  <2> QED BY <1>4, <2>1, <2>2
<1> QED
  BY <1>5, <1>6, <1>7

LEMMA DeleteFileTracks ==
  ASSUME SingleWriter, TypeOK, Tracking, NEW s \in Session, DeleteFile(s)
  PROVE  Tracking'
<1> DEFINE c == cli[s]
           e == cli'[s]
<1>1. /\ c \in CliState /\ CommitValid(c) /\ Deleting(c) /\ c.mode = "configure"
      /\ c.base = settings
      /\ c.slot # NoDef => c.orig = disk[c.slot]
      /\ Exists(c.slot) /\ c.stage = "delete_file"
  BY DEF TypeOK, Tracking, Tracks, Grounded, DeleteFile, CommitStages, CliState, CommitValid
<1>2. \/ e.stage = "idle" /\ ~e.kept /\ e.slot = NoDef /\ e.base = c.base /\ UNCHANGED settings
      \/ /\ UNCHANGED <<disk, settings>> /\ e.mode = c.mode /\ e.stage = "idle"
         /\ e.base = c.base /\ e.cand = c.cand /\ e.slot = c.slot
         /\ e.orig = c.orig /\ e.draft = c.draft
  <2>1. \/ /\ e = [Closed(c) EXCEPT !.stage = "idle", !.edited = FALSE,
                                    !.manual = FALSE, !.kept = FALSE]
           /\ UNCHANGED settings
        \/ e = [c EXCEPT !.stage = "idle", !.kept = TRUE] /\ UNCHANGED <<disk, settings>>
    BY <1>1 DEF DeleteFile, KeepCandidate, TypeOK
  <2>2. Closed(c) \in CliState /\ Closed(c).slot = NoDef /\ Closed(c).base = c.base
    BY <1>1 DEF Closed, CliState
  <2> HIDE DEF e
  <2>3. CASE /\ e = [Closed(c) EXCEPT !.stage = "idle", !.edited = FALSE,
                                     !.manual = FALSE, !.kept = FALSE]
             /\ UNCHANGED settings
    BY <2>2, <2>3 DEF CliState
  <2>4. CASE e = [c EXCEPT !.stage = "idle", !.kept = TRUE] /\ UNCHANGED <<disk, settings>>
    BY <1>1, <2>4 DEF CliState
  <2> QED BY <2>1, <2>3, <2>4
<1>3. CASE e.stage = "idle" /\ ~e.kept /\ e.slot = NoDef /\ e.base = c.base /\ UNCHANGED settings
  BY <1>1, <1>3 DEF Tracks, Grounded, CommitStages, Tracking, SingleWriter
<1>4. CASE /\ UNCHANGED <<disk, settings>> /\ e.mode = c.mode /\ e.stage = "idle"
           /\ e.base = c.base /\ e.cand = c.cand /\ e.slot = c.slot
           /\ e.orig = c.orig /\ e.draft = c.draft
  <2>1. (OverallDirty(cli[s]) /\ CommitValid(cli[s]))'
    BY <1>1, <1>4
       DEF OverallDirty, CommitValid, DefinitionDirty, Deleting, Writing, Selects, NewFindings,
           EffectiveExists, Missing, FileState, Exists
  <2> QED
    BY <1>1, <1>4, <2>1 DEF Tracks, Grounded, CommitStages, Tracking, SingleWriter
<1> QED
  BY <1>2, <1>3, <1>4

LEMMA WriteFileTracks ==
  ASSUME SingleWriter, TypeOK, Tracking, NEW s \in Session, WriteFile(s)
  PROVE  Tracking'
<1> DEFINE c == cli[s]
           e == cli'[s]
<1>1. /\ c \in CliState /\ CommitValid(c) /\ Writing(c) /\ c.mode = "configure"
      /\ c.base = settings
      /\ c.slot # NoDef => c.orig = disk[c.slot]
      /\ c.draft # Absent /\ c.slot \in Def /\ ~WriteRefused(c)
  BY IdentityAssumption
     DEF TypeOK, Tracking, Tracks, Grounded, WriteFile, CommitStages, CliState, CommitValid,
         Writing, DefinitionDirty, WriteRefused
<1>2. /\ UNCHANGED settings /\ e.mode = c.mode /\ e.base = c.base /\ e.cand = c.cand
      /\ e.slot = c.slot /\ e.draft = c.draft
      /\ \/ e.stage = "settings" /\ e.orig = c.draft /\ disk' = [disk EXCEPT ![c.slot] = c.draft]
         \/ e.stage = "idle" /\ e.orig = c.orig /\ UNCHANGED disk
  <2>1. /\ UNCHANGED settings
        /\ \/ e = AfterWrite(c) /\ disk' = [disk EXCEPT ![c.slot] = c.draft]
           \/ e = [c EXCEPT !.stage = "idle", !.kept = TRUE] /\ UNCHANGED disk
    BY <1>1 DEF WriteFile, KeepCandidate, TypeOK
  <2> HIDE DEF e
  <2> QED BY <1>1, <2>1 DEF AfterWrite, CliState
<1>3. CASE e.stage = "settings" /\ e.orig = c.draft /\ disk' = [disk EXCEPT ![c.slot] = c.draft]
  <2>1. disk'[c.slot] = c.draft /\ \A d \in Def : d # c.slot => disk'[d] = disk[d]
    BY <1>1, <1>3 DEF TypeOK
  <2>2. ~DefinitionDirty(cli[s])'
    BY <1>1, <1>2, <1>3 DEF DefinitionDirty
  <2>3. c.cand.active \subseteq Def /\ c.base.active \subseteq Def
    BY <1>1 DEF CliState, Settings
  <2>4. NewFindings(cli[s])' = {}
    BY <1>1, <1>2, <2>1, <2>2, <2>3
       DEF CommitValid, NewFindings, EffectiveExists, Missing, Exists, Writing, Deleting
  <2>5. CommitValid(cli[s])'
    BY <1>1, <1>2, <2>2, <2>4 DEF CommitValid, Selects, Writing, Deleting
  <2> QED
    BY <1>1, <1>2, <1>3, <2>1, <2>2, <2>5 DEF Tracks, Grounded, CommitStages, Tracking, SingleWriter
<1>4. CASE e.stage = "idle" /\ e.orig = c.orig /\ UNCHANGED disk
  <2>1. (OverallDirty(cli[s]) /\ CommitValid(cli[s]))'
    BY <1>1, <1>2, <1>4
       DEF OverallDirty, CommitValid, DefinitionDirty, Deleting, Writing, Selects, NewFindings,
           EffectiveExists, Missing, FileState, Exists
  <2> QED
    BY <1>1, <1>2, <1>4, <2>1 DEF Tracks, Grounded, CommitStages, Tracking, SingleWriter
<1> QED
  BY <1>2, <1>3, <1>4

LEMMA CandidateTracks ==
  ASSUME SingleWriter, TypeOK, TypeOK', Tracking, NEW s \in Session, Candidate(s)
  PROVE  Tracking'
<1>1. Grounded(cli[s])'
  BY CandidateGrounded DEF Grounded
<1> QED
  BY <1>1, CandidateGrounded, IdleTracks DEF CommitStages

LEMMA NextTracks ==
  ASSUME SingleWriter, TypeOK, TypeOK', Tracking, [Next]_vars
  PROVE  Tracking'
<1>1. CASE UNCHANGED vars
  BY <1>1
     DEF vars, Tracking, Tracks, Grounded, OverallDirty, SettingsDirty, CommitValid,
         DefinitionDirty, Deleting, Writing, Selects, NewFindings, EffectiveExists,
         Missing, FileState, Exists
<1> QED
  BY <1>1, CandidateTracks, DiscoveryTracks, BeginCommitTracks, WriteSettingsTracks,
     DeleteFileTracks, WriteFileTracks DEF Next, Commit

(* The inductive invariant of a single CLI process.                        *)
THEOREM SessionTracksLab == ASSUME SingleWriter PROVE Spec => []Tracking
<1>1. Tracking /\ TypeOK /\ TypeOK' /\ [Next]_vars => Tracking'
  BY NextTracks
<1> QED
  BY <1>1, InitTracks, TypeCorrect, PTL DEF Spec

(* A candidate kept after an OSError passes validation again and still has *)
(* something to write, wherever in the write sequence the failure was.     *)
THEOREM RetrySucceeds == ASSUME SingleWriter PROVE Spec => []KeptCandidateCommits
<1>1. Tracking => KeptCandidateCommits
  BY DEF Tracking, Tracks, KeptCandidateCommits, CommitStages
<1> QED
  BY <1>1, SessionTracksLab, PTL

-----------------------------------------------------------------------------
(* Refinement: each file operation of commit() is one step of the abstract *)
(* lab, and nothing else the CLI does changes it.                          *)

LEMMA DeleteFileIsDelete ==
  ASSUME TypeOK, Tracking, NEW s \in Session, cli[s].stage = "delete_file",
         disk' = [disk EXCEPT ![cli[s].slot] = Absent], UNCHANGED settings
  PROVE  \E d \in Def : Abstract!Delete(d)
<1>1. cli[s] \in CliState /\ Deleting(cli[s]) /\ cli[s].mode = "configure"
  BY DEF TypeOK, Tracking, Tracks, CliState
<1>2. cli[s].slot \in Def /\ cli[s].slot \notin settings.active
  BY <1>1 DEF Tracking, Tracks, Grounded, Deleting, DefinitionDirty, CliState
<1> QED
  BY <1>2 DEF Abstract!Delete

LEMMA WriteFileIsSave ==
  ASSUME TypeOK, NoAliasedPair, NEW s \in Session, cli[s].stage = "write_file",
         ~WriteRefused(cli[s]),
         disk' = [disk EXCEPT ![cli[s].slot] = cli[s].draft], UNCHANGED settings
  PROVE  \E d \in Def : \E content \in Valid : Abstract!Save(d, content)
<1>1. cli[s].draft \in Valid /\ cli[s].slot \in Def
  BY WrittenFile
<1>2. Folding => \A e \in CaseVariants[cli[s].slot] : disk[e] = Absent
  BY <1>1, IdentityAssumption DEF WriteRefused, FileState, NoAliasedPair, Exists
<1> QED
  BY <1>1, <1>2 DEF Abstract!Save

LEMMA WriteSettingsIsReselect ==
  ASSUME TypeOK, Tracking, NEW s \in Session,
         cli[s].stage \in {"settings_first", "settings"},
         settings' = Normalized(cli[s].cand), UNCHANGED disk
  PROVE  \E active \in SUBSET Def, described \in SUBSET Def :
           Abstract!Reselect(active, described)
<1> DEFINE c == cli[s]
           active == c.cand.active
<1>1. /\ c \in CliState /\ CommitValid(c) /\ c.mode = "configure" /\ c.base = settings
      /\ Deleting(c) \/ ~DefinitionDirty(c)
  BY DEF TypeOK, Tracking, Tracks, Grounded, CommitStages, CliState
<1>2. active \in SUBSET Def /\ c.cand.described \cap active \in SUBSET Def
  BY <1>1 DEF CliState, Settings
<1>3. Missing(active) \subseteq {d \in active : ~EffectiveExists(c, d)}
  BY <1>1 DEF Missing, EffectiveExists
<1>4. Missing(active) \subseteq Missing(settings.active)
  BY <1>1, <1>3 DEF CommitValid, NewFindings
<1>5. \A kind \in {"topology", "scenario"} : \E d \in active : KindOf[d] = kind
  BY <1>1 DEF CommitValid, Selects
<1>6. Abstract!Reselect(active, c.cand.described \cap active)
  BY <1>4, <1>5 DEF Abstract!Reselect, Abstract!Missing, Missing, Exists, Normalized
<1> QED
  BY <1>2, <1>6

LEMMA StepImplements ==
  ASSUME TypeOK, Tracking, NoAliasedPair, [Next]_vars
  PROVE  [Abstract!Next]_<<disk, settings>>
<1>1. CASE UNCHANGED vars
  BY <1>1 DEF vars
<1>2. CASE Next
  BY <1>2, LabStep, DeleteFileIsDelete, WriteFileIsSave, WriteSettingsIsReselect
     DEF Abstract!Next
<1> QED
  BY <1>1, <1>2

(* One CLI process implements the abstract lab, through every partial      *)
(* failure and every crash of a commit.                                    *)
THEOREM CliImplementsCommittedLab ==
  ASSUME SingleWriter PROVE Spec => ImplementsCommittedLab
<1>1. Init => Abstract!Init
  BY DEF Init, Abstract!Init
<1>2. TypeOK /\ Tracking /\ OnlyValidStored /\ NoAliasedPair /\ [Next]_vars
      => [Abstract!Next]_<<disk, settings>>
  BY StepImplements
<1> QED
  BY <1>1, <1>2, TypeCorrect, SessionTracksLab, StoredLabSafe, PTL
     DEF Spec, ImplementsCommittedLab, Abstract!Spec

(* A step of the abstract lab makes no selected definition go missing.     *)
LEMMA AbstractStepKeepsDangling ==
  ASSUME TypeOK, [Abstract!Next]_<<disk, settings>>
  PROVE  [Dangling' \subseteq Dangling]_<<disk, settings>>
<1>1. ASSUME NEW d \in Def, Abstract!Delete(d) PROVE Dangling' \subseteq Dangling
  BY <1>1 DEF Abstract!Delete, Dangling, Missing, Exists, TypeOK, Settings
<1>2. ASSUME NEW d \in Def, NEW content \in Valid, Abstract!Save(d, content)
      PROVE  Dangling' \subseteq Dangling
  BY <1>2, BodyAssumption DEF Abstract!Save, Dangling, Missing, Exists, TypeOK, Settings
<1>3. ASSUME NEW active \in SUBSET Def, NEW described \in SUBSET Def,
             Abstract!Reselect(active, described)
      PROVE  Dangling' \subseteq Dangling
  BY <1>3 DEF Abstract!Reselect, Abstract!Missing, Dangling, Missing, Exists
<1> QED
  BY <1>1, <1>2, <1>3 DEF Abstract!Next

(* No file operation, failure or crash of a single CLI process leaves the  *)
(* stored running-config selecting a definition that has gone missing.     *)
THEOREM NothingDangles == ASSUME SingleWriter PROVE Spec => NoNewDangling
<1>1. TypeOK /\ Tracking /\ OnlyValidStored /\ NoAliasedPair /\ [Next]_vars
      => [Dangling' \subseteq Dangling]_<<disk, settings>>
  BY StepImplements, AbstractStepKeepsDangling
<1> QED
  BY <1>1, TypeCorrect, SessionTracksLab, StoredLabSafe, PTL DEF Spec, NoNewDangling

(* A write in progress ends by the write, by an error or with the process, *)
(* and no step of another process interferes with it.                      *)
LEMMA WriteInProgress ==
  ASSUME TypeOK, NEW s \in Session, Candidate(s) \/ Discovery(s) \/ Commit(s),
         NEW t \in Session, cli[t].stage = "write_file", cli'[t].stage = "settings"
  PROVE  t = s /\ WriteFile(s) /\ ~WriteRefused(cli[s])
<1>1. CASE t # s
  <2>1. cli'[t] = cli[t]
    BY <1>1
       DEF TypeOK, Candidate, EnterConfigure, LeaveConfigure, Terminate, Clear,
           EnterDefinition, RemoveDefinition, Select, Unselect, SetDescription,
           ClearDescription, EditDefinition, Become, Discovery, CheckDiscovery,
           RunDiscovery, FailDiscovery, ApplyDiscovery, Commit, BeginCommit,
           WriteSettings, DeleteFile, WriteFile, KeepCandidate, Refused
  <2> QED
    BY <2>1
<1>2. CASE t = s
  <2>1. ~Discovery(s) /\ ~BeginCommit(s) /\ ~WriteSettings(s) /\ ~DeleteFile(s)
    BY <1>2
       DEF Discovery, CheckDiscovery, RunDiscovery, FailDiscovery, ApplyDiscovery,
           BeginCommit, Configuring, WriteSettings, DeleteFile
  <2>2. ASSUME Candidate(s) PROVE FALSE
    <3>1. EnterConfigure(s) \/ Terminate(s)
      BY <1>2, <2>2
         DEF Candidate, LeaveConfigure, Clear, EnterDefinition, RemoveDefinition,
             Select, Unselect, SetDescription, ClearDescription, EditDefinition,
             Configuring
    <3>2. cli'[s].stage = "idle"
      BY <3>1 DEF EnterConfigure, Terminate, Become, ExecState, TypeOK
    <3> QED
      BY <1>2, <3>2
  <2>3. WriteFile(s)
    BY <2>1, <2>2 DEF Commit
  <2>4. ASSUME WriteRefused(cli[s]) PROVE FALSE
    <3>1. cli'[s] = [cli[s] EXCEPT !.stage = "idle"]
      BY <2>3, <2>4 DEF WriteFile, Refused, TypeOK
    <3> QED
      BY <1>2, <3>1 DEF TypeOK, CliState
  <2> QED
    BY <1>2, <2>3, <2>4
<1> QED
  BY <1>1, <1>2

(* Creation is exclusive, whatever other CLI processes do between the      *)
(* validation of a commit and its write.                                   *)
THEOREM CreationIsExclusive == Spec => CreateNeverOverwrites
<1>1. ASSUME TypeOK, [Next]_vars
      PROVE  [\A s \in Session :
                (cli[s].stage = "write_file" /\ cli[s].orig = Absent
                 /\ cli'[s].stage = "settings")
                => ~Exists(cli[s].slot)]_vars
  <2>1. ASSUME NEW t \in Session, cli[t].stage = "write_file", cli[t].orig = Absent,
               cli'[t].stage = "settings", Next
        PROVE  ~Exists(cli[t].slot)
    BY <1>1, <2>1, WriteInProgress DEF Next, WriteRefused, FileState
  <2> QED
    BY <1>1, <2>1 DEF vars
<1> QED
  BY <1>1, TypeCorrect, PTL DEF Spec, CreateNeverOverwrites

-----------------------------------------------------------------------------
(* What a successful commit() leaves.                                      *)

(* The settings of the lab carry no description of what is not selected,   *)
(* and a deletion removes its file only once the settings are written.     *)
SettingsFirst ==
  /\ settings.described \subseteq settings.active
  /\ \A s \in Session : cli[s].stage = "delete_file" => ~SettingsDirty(cli[s])

LEMMA InitSettingsFirst == Init => SettingsFirst
BY InitialLabsAssumption DEF Init, SettingsFirst, ExecState

(* What a step makes of the process that takes it.                         *)
Same(c, e) ==
  /\ e.slot = c.slot /\ e.orig = c.orig /\ e.draft = c.draft
  /\ e.edited = c.edited /\ e.manual = c.manual

OnlyOne(s) == \A t \in Session \ {s} : cli'[t] = cli[t]

LEMMA CommandEffect ==
  ASSUME TypeOK, NEW s \in Session, Candidate(s)
  PROVE  /\ UNCHANGED settings /\ OnlyOne(s) /\ cli'[s].stage = "idle"
         /\ cli'[s].manual = FALSE \/ cli'[s].edited = TRUE
              \/ (cli'[s].manual = cli[s].manual /\ cli'[s].edited = cli[s].edited)
<1> DEFINE c == cli[s]
           e == cli'[s]
<1>t. c \in CliState
  BY DEF TypeOK
<1>b. ASSUME NEW r, Become(s, r) PROVE e = [r EXCEPT !.kept = FALSE]
  BY <1>b DEF Become, TypeOK
<1>1. UNCHANGED settings /\ OnlyOne(s)
  BY DEF OnlyOne, TypeOK, Candidate, EnterConfigure, LeaveConfigure, Terminate, Clear,
         EnterDefinition, RemoveDefinition, Select, Unselect, SetDescription,
         ClearDescription, EditDefinition, Become
<1>2. CASE EnterConfigure(s) \/ LeaveConfigure(s) \/ Terminate(s)
  <2>1. e.stage = "idle" /\ e.manual = FALSE
    BY <1>2 DEF EnterConfigure, LeaveConfigure, Terminate, Become, ExecState, TypeOK
  <2> QED BY <1>1, <2>1
<1>3. CASE Clear(s)
  <2> DEFINE r == [c EXCEPT !.cand = c.base, !.edited = FALSE, !.manual = FALSE]
  <2>1. c.stage = "idle" /\ (Become(s, Closed(r)) \/ Become(s, [r EXCEPT !.draft = c.orig]))
    BY <1>3 DEF Clear, Configuring
  <2>2. r \in CliState /\ r.stage = "idle" /\ r.manual = FALSE
    BY <1>t, <2>1 DEF CliState
  <2> HIDE DEF r
  <2>3. e = [Closed(r) EXCEPT !.kept = FALSE] \/ e = [[r EXCEPT !.draft = c.orig] EXCEPT !.kept = FALSE]
    BY <1>b, <2>1
  <2>4. e.stage = "idle" /\ e.manual = FALSE
    <3> HIDE DEF e
    <3> QED BY <2>2, <2>3 DEF Closed, CliState
  <2> QED BY <1>1, <2>4
<1>4. ASSUME NEW content \in Body, EditDefinition(s, content)
      PROVE  e.stage = "idle" /\ (e.manual = FALSE \/ e.edited = TRUE \/ (e.manual = c.manual /\ e.edited = c.edited))
  BY <1>t, <1>4 DEF EditDefinition, Configuring, Become, CliState, TypeOK
<1>5. ASSUME NEW d \in Def, EnterDefinition(s, d)
      PROVE  e.stage = "idle" /\ (e.manual = FALSE \/ e.edited = TRUE \/ (e.manual = c.manual /\ e.edited = c.edited))
  BY <1>t, <1>5 DEF EnterDefinition, Configuring, Become, Reopened, CliState, TypeOK
<1>6. ASSUME NEW d \in Def, RemoveDefinition(s, d)
      PROVE  e.stage = "idle" /\ (e.manual = FALSE \/ e.edited = TRUE \/ (e.manual = c.manual /\ e.edited = c.edited))
  <2>1. /\ c.stage = "idle"
        /\ \/ Become(s, [Closed(c) EXCEPT !.edited = TRUE, !.manual = FALSE])
           \/ Become(s, [c EXCEPT !.draft = Absent, !.edited = TRUE, !.manual = TRUE])
           \/ Become(s, [Reopened(c, d, Absent) EXCEPT !.edited = TRUE, !.manual = TRUE])
    BY <1>6 DEF RemoveDefinition, Configuring
  <2> HIDE DEF e
  <2>2. CASE Become(s, [Closed(c) EXCEPT !.edited = TRUE, !.manual = FALSE])
    <3>1. e = [[Closed(c) EXCEPT !.edited = TRUE, !.manual = FALSE] EXCEPT !.kept = FALSE]
      BY <1>b, <2>2
    <3> QED BY <1>t, <2>1, <3>1 DEF Closed, CliState
  <2>3. CASE Become(s, [c EXCEPT !.draft = Absent, !.edited = TRUE, !.manual = TRUE])
    <3>1. e = [[c EXCEPT !.draft = Absent, !.edited = TRUE, !.manual = TRUE] EXCEPT !.kept = FALSE]
      BY <1>b, <2>3
    <3> QED BY <1>t, <2>1, <3>1 DEF CliState
  <2>4. CASE Become(s, [Reopened(c, d, Absent) EXCEPT !.edited = TRUE, !.manual = TRUE])
    <3>1. e = [[Reopened(c, d, Absent) EXCEPT !.edited = TRUE, !.manual = TRUE] EXCEPT !.kept = FALSE]
      BY <1>b, <2>4
    <3> QED BY <1>t, <2>1, <3>1 DEF Reopened, CliState
  <2> QED BY <2>1, <2>2, <2>3, <2>4
<1>7. ASSUME NEW d \in Def,
             Select(s, d) \/ Unselect(s, d) \/ SetDescription(s, d) \/ ClearDescription(s, d)
      PROVE  e.stage = "idle" /\ (e.manual = FALSE \/ e.edited = TRUE \/ (e.manual = c.manual /\ e.edited = c.edited))
  <2>1. c.stage = "idle" /\ \E cand : Become(s, [c EXCEPT !.cand = cand])
    <3>1. CASE Select(s, d)
      BY <1>t, <3>1 DEF Select, Configuring, CliState
    <3>2. CASE Unselect(s, d)
      BY <1>t, <3>2 DEF Unselect, Configuring, CliState
    <3>3. CASE SetDescription(s, d)
      BY <1>t, <3>3 DEF SetDescription, Configuring, CliState
    <3>4. CASE ClearDescription(s, d)
      BY <1>t, <3>4 DEF ClearDescription, Configuring, CliState
    <3> QED BY <1>7, <3>1, <3>2, <3>3, <3>4
  <2>2. PICK cand : e = [[c EXCEPT !.cand = cand] EXCEPT !.kept = FALSE]
    BY <1>b, <2>1
  <2> HIDE DEF e
  <2> QED BY <1>t, <2>1, <2>2 DEF CliState
<1> QED BY <1>1, <1>2, <1>3, <1>4, <1>5, <1>6, <1>7 DEF Candidate

LEMMA DiscoveryEffect ==
  ASSUME TypeOK, NEW s \in Session, Discovery(s)
  PROVE  /\ UNCHANGED settings /\ OnlyOne(s)
         /\ cli'[s].stage \in {"idle", "discovery_checked", "discovery_running"}
         /\ \/ CheckDiscovery(s) /\ Same(cli[s], cli'[s])
            \/ cli[s].stage \in {"discovery_checked", "discovery_running"} /\ Same(cli[s], cli'[s])
            \/ cli'[s].stage = "idle" /\ cli'[s].manual = FALSE
<1> DEFINE c == cli[s]
           e == cli'[s]
<1>t. c \in CliState
  BY DEF TypeOK
<1>1. CASE CheckDiscovery(s)
  <2>1. e = [c EXCEPT !.stage = "discovery_checked"] /\ UNCHANGED settings /\ OnlyOne(s)
    BY <1>1 DEF CheckDiscovery, OnlyOne, TypeOK
  <2>2. e.stage = "discovery_checked" /\ Same(c, e)
    <3> HIDE DEF e
    <3> QED BY <1>t, <2>1 DEF Same, CliState
  <2> QED BY <1>1, <2>1, <2>2
<1>2. CASE RunDiscovery(s) \/ FailDiscovery(s)
  <2>1. /\ c.stage \in {"discovery_checked", "discovery_running"}
        /\ \E stage \in {"idle", "discovery_running"} : \E target \in Def \cup {NoDef} :
             e = [c EXCEPT !.stage = stage, !.target = target]
        /\ UNCHANGED settings /\ OnlyOne(s)
    <3>1. CASE RunDiscovery(s)
      <4>1. PICK a \in settings.active : /\ c.stage = "discovery_checked" /\ UNCHANGED settings
               /\ cli' = [cli EXCEPT ![s] = [c EXCEPT !.stage = "discovery_running",
                                                     !.target = TopologyOf[a]]]
        BY <3>1 DEF RunDiscovery
      <4>2. TopologyOf[a] \in Def
        BY IdentityAssumption DEF TypeOK, Settings
      <4> QED BY <4>1, <4>2 DEF OnlyOne, TypeOK
    <3>2. CASE FailDiscovery(s)
      BY <3>2 DEF FailDiscovery, OnlyOne, TypeOK
    <3> QED BY <1>2, <3>1, <3>2
  <2>2. e.stage \in {"idle", "discovery_running"} /\ Same(c, e)
    <3> HIDE DEF e
    <3> QED BY <1>t, <2>1 DEF Same, CliState
  <2> QED BY <2>1, <2>2
<1>3. ASSUME NEW content \in Body, ApplyDiscovery(s, content)
      PROVE  UNCHANGED settings /\ OnlyOne(s) /\ e.stage = "idle" /\ e.manual = FALSE
  BY <1>t, <1>3 DEF ApplyDiscovery, Become, Reopened, OnlyOne, CliState, TypeOK
<1> QED BY <1>1, <1>2, <1>3 DEF Discovery

LEMMA CommitEffect ==
  ASSUME TypeOK, NEW s \in Session, Commit(s)
  PROVE  /\ OnlyOne(s)
         /\ cli'[s].stage \in {"idle"} \cup CommitStages
         /\ cli'[s].manual = FALSE \/ (cli'[s].manual = cli[s].manual /\ cli'[s].edited = cli[s].edited)
         /\ ~WriteSettings(s) => cli'[s].stage # "delete_file" /\ UNCHANGED settings
<1> DEFINE c == cli[s]
           e == cli'[s]
           n == Normalized(c.cand)
<1>t. c \in CliState
  BY DEF TypeOK
<1>1. CASE BeginCommit(s)
  BY <1>t, <1>1 DEF BeginCommit, WriteSettings, Configuring, CommitStages, OnlyOne, CliState, TypeOK
<1>k. ASSUME NEW r, r = c \/ r = [c EXCEPT !.cand = n], KeepCandidate(s, r) \/ Refused(s, r)
      PROVE  /\ OnlyOne(s) /\ e.stage = "idle" /\ e.manual = c.manual /\ e.edited = c.edited
             /\ UNCHANGED settings
  <2>1. /\ e = [r EXCEPT !.stage = "idle", !.kept = TRUE] \/ e = [r EXCEPT !.stage = "idle"]
        /\ OnlyOne(s) /\ UNCHANGED settings
    BY <1>k DEF KeepCandidate, Refused, OnlyOne, TypeOK
  <2>2. n \in Settings
    BY <1>t, NormalizedTyped DEF CliState
  <2> HIDE DEF n
  <2>3. r \in CliState /\ r.manual = c.manual /\ r.edited = c.edited
    BY <1>t, <1>k, <2>2 DEF CliState
  <2> HIDE DEF e
  <2>4. e.stage = "idle" /\ e.manual = r.manual /\ e.edited = r.edited
    BY <2>1, <2>3 DEF CliState
  <2> QED BY <2>1, <2>3, <2>4
<1>a. /\ AfterSettings(c) \in CliState /\ AfterSettings(c).manual = c.manual
      /\ AfterSettings(c).edited = c.edited /\ AfterSettings(c).stage \in {"idle", "delete_file"}
  BY <1>t DEF AfterSettings, CliState, Stages
<1>2. CASE WriteSettings(s)
  <2> HIDE DEF n
  <2>1. CASE cli' = [cli EXCEPT ![s] = AfterSettings(c)]
    BY <1>a, <1>2, <2>1 DEF OnlyOne, CommitStages, TypeOK
  <2>2. CASE cli' = [cli EXCEPT ![s] = [AfterSettings(c) EXCEPT !.cand = n, !.base = n]]
    BY <1>a, <1>2, <2>2 DEF OnlyOne, CommitStages, CliState, TypeOK
  <2> QED BY <1>2, <1>k, <2>1, <2>2 DEF WriteSettings, n
<1>3. CASE DeleteFile(s)
  <2>1. CASE /\ cli' = [cli EXCEPT ![s] = [Closed(c) EXCEPT !.stage = "idle", !.edited = FALSE,
                                                           !.manual = FALSE, !.kept = FALSE]]
             /\ UNCHANGED settings
    BY <1>t, <2>1 DEF Closed, OnlyOne, CliState, TypeOK
  <2> QED BY <1>3, <1>k, <2>1 DEF DeleteFile
<1>4. CASE WriteFile(s)
  <2>1. CASE cli' = [cli EXCEPT ![s] = AfterWrite(c)] /\ UNCHANGED settings
    BY <1>t, <2>1 DEF AfterWrite, OnlyOne, CommitStages, CliState, TypeOK
  <2> QED BY <1>4, <1>k, <2>1 DEF WriteFile
<1> QED BY <1>1, <1>2, <1>3, <1>4 DEF Commit, CommitStages

LEMMA NextSettingsFirst == TypeOK /\ SettingsFirst /\ [Next]_vars => SettingsFirst'
<1> SUFFICES ASSUME TypeOK, SettingsFirst, [Next]_vars PROVE SettingsFirst'
  OBVIOUS
<1>1. CASE UNCHANGED vars
  BY <1>1 DEF vars, SettingsFirst
<1>2. ASSUME NEW s \in Session, Candidate(s) \/ Discovery(s) PROVE SettingsFirst'
  <2>1. UNCHANGED settings /\ OnlyOne(s) /\ cli'[s].stage # "delete_file"
    BY <1>2, CommandEffect, DiscoveryEffect
  <2> QED BY <2>1 DEF SettingsFirst, OnlyOne
<1>3. ASSUME NEW s \in Session, WriteSettings(s) PROVE SettingsFirst'
  <2> DEFINE c == cli[s]
             n == Normalized(c.cand)
  <2>1. c \in CliState /\ c.stage \in {"settings_first", "settings"}
    BY <1>3 DEF WriteSettings, TypeOK
  <2>2. n.described \subseteq n.active
    BY DEF Normalized
  <2> HIDE DEF n
  <2>3. CASE ~SettingsDirty(c) /\ cli' = [cli EXCEPT ![s] = AfterSettings(c)] /\ UNCHANGED <<disk, settings>>
    <3>1. cli'[s].cand = c.cand /\ cli'[s].base = c.base
      BY <2>1, <2>3 DEF AfterSettings, CliState, TypeOK
    <3> QED BY <2>3, <3>1 DEF SettingsFirst, SettingsDirty, TypeOK
  <2>4. CASE settings' = n /\ cli' = [cli EXCEPT ![s] = [AfterSettings(c) EXCEPT !.cand = n, !.base = n]]
    <3>1. cli'[s].cand = n /\ cli'[s].base = n
      BY <2>1, <2>4 DEF AfterSettings, CliState, TypeOK
    <3> QED BY <2>2, <2>4, <3>1 DEF SettingsFirst, SettingsDirty, TypeOK
  <2>5. CASE KeepCandidate(s, [c EXCEPT !.cand = n])
    <3>1. cli'[s].stage = "idle" /\ UNCHANGED settings
      BY <2>1, <2>5 DEF KeepCandidate, CliState, TypeOK
    <3> QED BY <2>5, <3>1 DEF SettingsFirst, KeepCandidate, SettingsDirty, TypeOK
  <2> QED BY <1>3, <2>3, <2>4, <2>5 DEF WriteSettings, n
<1>4. ASSUME NEW s \in Session, Commit(s), ~WriteSettings(s) PROVE SettingsFirst'
  BY <1>4, CommitEffect DEF SettingsFirst, OnlyOne
<1> QED BY <1>1, <1>2, <1>3, <1>4 DEF Next

LEMMA SettingsComeFirst == Spec => []SettingsFirst
<1>1. SettingsFirst /\ TypeOK /\ [Next]_vars => SettingsFirst'
  BY NextSettingsFirst
<1> QED BY <1>1, InitSettingsFirst, TypeCorrect, PTL DEF Spec

(* Each way in which commit() can come to its end without an error.        *)
LEMMA ReturnIsPersisted ==
  ASSUME SingleWriter, TypeOK, Tracking, SettingsFirst, NEW s \in Session,
         Candidate(s) \/ Discovery(s) \/ Commit(s), CommitReturns(s)
  PROVE  /\ settings' = Normalized(cli[s].cand)
         /\ cli'[s].base = settings'
         /\ cli[s].slot # NoDef => disk'[cli[s].slot] = cli[s].draft
<1> DEFINE c == cli[s]
           e == cli'[s]
           n == Normalized(c.cand)
<1>1. /\ c \in CliState /\ Tracks(c) /\ c.mode = "configure" /\ CommitValid(c)
      /\ c.base = settings /\ (c.slot # NoDef => c.orig = disk[c.slot])
      /\ e.mode = "configure" /\ e.stage = "idle" /\ ~e.kept
  BY DEF CommitReturns, TypeOK, Tracking, Tracks, Grounded, CommitStages, CliState
<1>2. ~SettingsDirty(c) => n = settings
  BY <1>1 DEF SettingsDirty, Normalized, SettingsFirst, TypeOK, Settings
<1>3. ~Discovery(s) /\ ~BeginCommit(s)
  BY DEF CommitReturns, Discovery, CheckDiscovery, RunDiscovery, FailDiscovery, ApplyDiscovery,
         BeginCommit, Configuring
<1>4. ~Candidate(s)
  <2>1. Candidate(s) => EnterConfigure(s) \/ Terminate(s)
    BY DEF CommitReturns, Candidate, LeaveConfigure, Clear, EnterDefinition, RemoveDefinition,
           Select, Unselect, SetDescription, ClearDescription, EditDefinition, Configuring
  <2>2. ~EnterConfigure(s)
    BY <1>1 DEF EnterConfigure
  <2>3. ~Terminate(s)
    BY <1>1 DEF Terminate, Become, ExecState, TypeOK
  <2> QED BY <2>1, <2>2, <2>3
<1>5. CASE WriteSettings(s)
  <2> HIDE DEF n
  <2>1. c.stage = "settings"
    <3> SUFFICES ASSUME c.stage = "settings_first" PROVE FALSE
      BY <1>5 DEF WriteSettings
    <3>1. AfterSettings(c) = [c EXCEPT !.stage = "delete_file"]
      BY DEF AfterSettings
    <3>2. CASE cli' = [cli EXCEPT ![s] = AfterSettings(c)]
      BY <1>1, <3>1, <3>2 DEF CliState, TypeOK
    <3>3. CASE cli' = [cli EXCEPT ![s] = [AfterSettings(c) EXCEPT !.cand = n, !.base = n]]
      BY <1>1, <3>1, <3>3 DEF CliState, TypeOK
    <3>4. CASE KeepCandidate(s, [c EXCEPT !.cand = n])
      BY <1>1, <3>4 DEF KeepCandidate, CliState, TypeOK
    <3> QED BY <1>5, <3>2, <3>3, <3>4 DEF WriteSettings, n
  <2>2. UNCHANGED disk /\ (c.slot # NoDef => disk[c.slot] = c.draft)
    BY <1>1, <1>5, <2>1 DEF WriteSettings, KeepCandidate, Tracks, DefinitionDirty
  <2>3. settings' = n /\ e.base = n
    <3>1. CASE ~SettingsDirty(c) /\ cli' = [cli EXCEPT ![s] = AfterSettings(c)] /\ UNCHANGED settings
      BY <1>1, <1>2, <3>1 DEF AfterSettings, CliState, TypeOK
    <3>2. CASE settings' = n /\ cli' = [cli EXCEPT ![s] = [AfterSettings(c) EXCEPT !.cand = n, !.base = n]]
      BY <1>1, <3>2 DEF AfterSettings, CliState, TypeOK
    <3>3. CASE KeepCandidate(s, [c EXCEPT !.cand = n])
      BY <1>1, <3>3 DEF KeepCandidate, CliState, TypeOK
    <3> QED BY <1>5, <3>1, <3>2, <3>3 DEF WriteSettings, n
  <2> QED BY <2>2, <2>3 DEF n
<1>6. CASE DeleteFile(s)
  <2>1. c.stage = "delete_file" /\ Deleting(c) /\ Exists(c.slot) /\ c.slot \in Def
    BY <1>1, <1>6 DEF DeleteFile, Tracks, CommitValid, Deleting, DefinitionDirty, CliState
  <2>2. n = settings
    BY <1>2, <2>1 DEF SettingsFirst
  <2>3. ~KeepCandidate(s, c)
    BY <1>1 DEF KeepCandidate, CliState, TypeOK
  <2>4. /\ disk' = [disk EXCEPT ![c.slot] = Absent] /\ UNCHANGED settings
        /\ cli' = [cli EXCEPT ![s] = [Closed(c) EXCEPT !.stage = "idle", !.edited = FALSE,
                                                       !.manual = FALSE, !.kept = FALSE]]
    BY <1>6, <2>1, <2>3 DEF DeleteFile
  <2>5. e.base = c.base /\ disk'[c.slot] = c.draft
    BY <1>1, <2>1, <2>4 DEF Closed, CliState, TypeOK, Deleting
  <2> QED BY <1>1, <2>2, <2>4, <2>5
<1>7. CASE WriteFile(s)
  <2>1. Writing(c) /\ ~WriteRefused(c)
    BY <1>1, <1>7 DEF WriteFile, Tracks, CommitValid, WriteRefused
  <2>2. cli' = [cli EXCEPT ![s] = AfterWrite(c)] \/ KeepCandidate(s, c)
    BY <1>7, <2>1 DEF WriteFile
  <2>3. FALSE
    BY <1>1, <2>2 DEF AfterWrite, KeepCandidate, CliState, TypeOK
  <2> QED BY <2>3
<1> QED BY <1>3, <1>4, <1>5, <1>6, <1>7 DEF Commit

(* When commit() reports success, the stored settings and the open         *)
(* definition are what the candidate said, in all orders of the writes and *)
(* after any number of failed attempts.                                    *)
THEOREM SuccessIsPersisted == ASSUME SingleWriter PROVE Spec => SuccessMeansPersisted
<1>1. ASSUME TypeOK, Tracking, SettingsFirst, [Next]_vars
      PROVE  [\A s \in Session : CommitReturns(s) =>
                /\ settings' = Normalized(cli[s].cand)
                /\ cli'[s].base = settings'
                /\ cli[s].slot # NoDef => disk'[cli[s].slot] = cli[s].draft]_vars
  <2>1. ASSUME NEW t \in Session, CommitReturns(t), Next
        PROVE  /\ settings' = Normalized(cli[t].cand)
               /\ cli'[t].base = settings'
               /\ cli[t].slot # NoDef => disk'[cli[t].slot] = cli[t].draft
    BY <1>1, <2>1, ReturnIsPersisted DEF Next, SingleWriter
  <2> QED BY <1>1, <2>1
<1> QED
  BY <1>1, TypeCorrect, SessionTracksLab, SettingsComeFirst, PTL DEF Spec, SuccessMeansPersisted

-----------------------------------------------------------------------------
(* Discovery and the operator's changes.                                   *)

(* An operator's change counts as one for the code, and while a Discovery  *)
(* runs the open definition has none.                                      *)
Unharmed(c) ==
  /\ c.manual => c.edited
  /\ c.stage \in {"discovery_checked", "discovery_running"} => ~(DefinitionDirty(c) /\ c.edited)

LEMMA UnharmedKept ==
  ASSUME TypeOK, NEW s \in Session, Unharmed(cli[s]), Candidate(s) \/ Discovery(s) \/ Commit(s)
  PROVE  Unharmed(cli'[s]) /\ OnlyOne(s)
<1> DEFINE c == cli[s]
           e == cli'[s]
<1>1. (c.manual => c.edited) /\ OnlyOne(s)
  BY CommandEffect, DiscoveryEffect, CommitEffect DEF Unharmed
<1>2. CASE Candidate(s)
  BY <1>1, <1>2, CommandEffect DEF Unharmed
<1>3. CASE Discovery(s)
  <2>1. CASE e.stage = "idle" /\ e.manual = FALSE
    BY <1>1, <2>1 DEF Unharmed
  <2>2. CASE CheckDiscovery(s) /\ Same(c, e)
    <3>1. PICK d \in SelectedTarget : DiscoveryAllowed(c, d)
      BY <2>2 DEF CheckDiscovery
    <3>2. ~(DefinitionDirty(c) /\ c.edited)
      BY <3>1 DEF DiscoveryAllowed, CanSwitch, DefinitionDirty
    <3> QED BY <1>1, <2>2, <3>2 DEF Unharmed, Same, DefinitionDirty
  <2>3. CASE c.stage \in {"discovery_checked", "discovery_running"} /\ Same(c, e)
    BY <1>1, <2>3 DEF Unharmed, Same, DefinitionDirty
  <2> QED BY <1>3, <2>1, <2>2, <2>3, DiscoveryEffect
<1>4. CASE Commit(s)
  BY <1>1, <1>4, CommitEffect DEF Unharmed, CommitStages
<1> QED BY <1>1, <1>2, <1>3, <1>4

AllUnharmed == \A s \in Session : Unharmed(cli[s])

LEMMA NextUnharmed == TypeOK /\ AllUnharmed /\ [Next]_vars => AllUnharmed'
BY UnharmedKept DEF AllUnharmed, OnlyOne, Next, vars

(* A Discovery never replaces a draft that holds a change of the operator, *)
(* also if its target is another one by the time it runs: the preflight    *)
(* refuses every open definition with unsaved changes of that kind.        *)
THEOREM ManualEditsAreKept == Spec => DiscoveryKeepsManualEdits
<1>1. Init => AllUnharmed
  <2>1. ASSUME NEW c, c = ExecState PROVE Unharmed(c)
    <3>1. c.manual = FALSE /\ c.stage = "idle"
      BY <2>1 DEF ExecState
    <3> QED BY <3>1 DEF Unharmed
  <2> QED BY <2>1 DEF Init, AllUnharmed
<1>2. AllUnharmed /\ [Next]_vars
      => [\A s \in Session :
            (/\ cli[s].stage = "discovery_running"
             /\ cli'[s].draft # cli[s].draft \/ cli'[s].slot # cli[s].slot
             /\ cli'[s].mode = "configure")
            => ~(DefinitionDirty(cli[s]) /\ cli[s].manual)]_vars
  BY DEF AllUnharmed, Unharmed
<1>3. AllUnharmed /\ TypeOK /\ [Next]_vars => AllUnharmed'
  BY NextUnharmed
<1> QED BY <1>1, <1>2, <1>3, TypeCorrect, PTL DEF Spec, DiscoveryKeepsManualEdits

-----------------------------------------------------------------------------
(* The selection of references is a set here and a list in the code. For   *)
(* any references and any number of commands, ReferenceOrder's list says   *)
(* what its set says: so the dirty check, which compares lists, the        *)
(* rendered delta, which compares sets, and the commit, which writes the   *)
(* list, may be modelled with the set.                                     *)
(* Induction over the places of a list, in the first-order form the        *)
(* provers can use: a place where something fails is not the first.        *)
LEMMA Least ==
  ASSUME NEW T, T \subseteq Nat, T # {}
  PROVE  \E n \in T : \A m \in T : n <= m
<1> DEFINE Below == OpToRel(<, Nat)
<1>1. IsWellFoundedOn(Below, Nat)
  BY NatLessThanWellFounded
<1>2. \E n \in T : \A m \in T : ~ (<<m, n>> \in Below)
  <2> HIDE DEF Below
  <2> QED
    BY <1>1, WFMin
<1>3. \A m, n \in Nat : <<m, n>> \notin Below => n <= m
  BY SMT DEF OpToRel
<1> HIDE DEF Below
<1> QED
  BY <1>2, <1>3, Zenon

(* Induction over the places of a list: the places at which something      *)
(* holds are a set.                                                        *)
LEMMA Induction ==
  ASSUME NEW N \in Nat, NEW S, 0 \in S, \A n \in 1..N : n - 1 \in S => n \in S
  PROVE  0..N \subseteq S
<1> DEFINE Bad == (0..N) \ S
<1> SUFFICES ASSUME Bad # {} PROVE FALSE
  OBVIOUS
<1>1. Bad \subseteq Nat
  OBVIOUS
<1>2. ASSUME NEW n \in Bad PROVE n - 1 \in Bad /\ ~ (n <= n - 1)
  <2>1. n \in 1..N
    OBVIOUS
  <2> QED
    BY <2>1
<1> HIDE DEF Bad
<1> QED
  BY <1>1, <1>2, Least

LEMMA AppendShows ==
  ASSUME NEW S, NEW s \in Seq(S), NEW r \in S
  PROVE  Range(Append(s, r)) = Range(s) \cup {r}
<1>1. /\ Len(s) \in Nat /\ DOMAIN s = 1..Len(s) /\ DOMAIN Append(s, r) = 1..(Len(s) + 1)
      /\ Append(s, r)[Len(s) + 1] = r
      /\ \A i \in 1..Len(s) : Append(s, r)[i] = s[i]
  OBVIOUS
<1> DEFINE t == Append(s, r)
<1> HIDE DEF t
<1>2. /\ DOMAIN t = 1..(Len(s) + 1) /\ t[Len(s) + 1] = r
      /\ \A i \in 1..Len(s) : t[i] = s[i]
  BY <1>1 DEF t
<1>3. ASSUME NEW i \in 1..(Len(s) + 1) PROVE t[i] \in Range(s) \cup {r}
  <2>1. CASE i = Len(s) + 1
    BY <1>2, <2>1
  <2>2. CASE i \in 1..Len(s)
    BY <1>1, <1>2, <2>2 DEF Range
  <2> QED
    BY <1>1, <2>1, <2>2
<1>4. ASSUME NEW i \in 1..Len(s) PROVE s[i] \in Range(t)
  <2>1. i \in 1..(Len(s) + 1) /\ t[i] = s[i]
    BY <1>1, <1>2
  <2> QED
    BY <1>2, <2>1 DEF Range
<1>5. r \in Range(t)
  <2>1. Len(s) + 1 \in 1..(Len(s) + 1)
    BY <1>1
  <2> QED
    BY <1>2, <2>1 DEF Range
<1>6. Range(t) = Range(s) \cup {r}
  BY <1>1, <1>2, <1>3, <1>4, <1>5 DEF Range
<1> QED
  BY <1>6 DEF t

(* One step of the selection.                                              *)
Picked(s, names, prior, n) ==
  IF n = 0 THEN << >> ELSE IF s[n] \in names THEN Append(prior, s[n]) ELSE prior

PickedUpTo(s, names, f, n) ==
  /\ f \in [0..n -> Seq(Reference)]
  /\ \A i \in 0..n : f[i] = Picked(s, names, f[i - 1], i)

(* The recursive function of Selected exists.                              *)
LEMMA PickedExists ==
  ASSUME NEW s \in Seq(Reference), NEW names
  PROVE  \E f : PickedUpTo(s, names, f, Len(s))
<1> DEFINE Bad == {n \in 0..Len(s) : ~ \E f : PickedUpTo(s, names, f, n)}
<1>0. Len(s) \in Nat
  OBVIOUS
<1>1. \E f : PickedUpTo(s, names, f, 0)
  <2> DEFINE f == [i \in 0..0 |-> << >>]
  <2>1. f \in [0..0 -> Seq(Reference)] /\ \A i \in 0..0 : i = 0 /\ f[i] = << >>
    OBVIOUS
  <2> HIDE DEF f
  <2> QED
    BY <2>1 DEF PickedUpTo, Picked
<1>2. ASSUME NEW n \in 0..Len(s), n # Len(s), NEW f, PickedUpTo(s, names, f, n)
      PROVE  \E g : PickedUpTo(s, names, g, n + 1)
  <2> DEFINE last == Picked(s, names, f[n], n + 1)
             g == [i \in 0..(n + 1) |-> IF i = n + 1 THEN last ELSE f[i]]
  <2>1. s[n + 1] \in Reference /\ n \in 0..n /\ n + 1 # 0 /\ (n + 1) - 1 = n
    BY <1>0, <1>2
  <2>2. f \in [0..n -> Seq(Reference)] /\ f[n] \in Seq(Reference)
    BY <1>2, <2>1 DEF PickedUpTo
  <2>3. last \in Seq(Reference)
    BY <2>1, <2>2 DEF Picked
  <2>4. g \in [0..(n + 1) -> Seq(Reference)]
    <3> HIDE DEF last
    <3>1. \A i \in 0..(n + 1) : i = n + 1 \/ i \in 0..n
      BY <1>0
    <3> QED
      BY <2>2, <2>3, <3>1
  <2>5. ASSUME NEW i \in 0..(n + 1) PROVE g[i] = Picked(s, names, g[i - 1], i)
    <3>1. CASE i = 0
      <4>1. g[i] = f[0] /\ f[0] = << >>
        BY <1>0, <1>2, <3>1 DEF PickedUpTo, Picked
      <4> QED
        BY <3>1, <4>1 DEF Picked
    <3>2. CASE i = n + 1
      <4>1. g[i - 1] = f[n] /\ g[i] = last
        BY <1>0, <2>1, <3>2
      <4> QED
        BY <3>2, <4>1
    <3>3. CASE i # 0 /\ i # n + 1
      <4>1. i \in 0..n /\ i - 1 \in 0..n /\ i - 1 # n + 1 /\ i - 1 \in 0..(n + 1)
        BY <1>0, <3>3
      <4>2. g[i - 1] = f[i - 1] /\ g[i] = f[i]
        BY <3>3, <4>1
      <4> HIDE DEF g
      <4> QED
        BY <1>2, <4>1, <4>2 DEF PickedUpTo
    <3> QED
      BY <3>1, <3>2, <3>3
  <2> HIDE DEF g
  <2> QED
    BY <2>4, <2>5 DEF PickedUpTo
<1>3. Bad = {}
  <2> SUFFICES ASSUME Bad # {} PROVE FALSE
    OBVIOUS
  <2>0. Bad \subseteq Nat
    OBVIOUS
  <2>1. PICK n \in Bad : \A m \in Bad : n <= m
    <3> HIDE DEF Bad
    <3> QED
      BY <2>0, Least
  <2>2. n # 0 /\ n \in 0..Len(s) /\ ~ \E f : PickedUpTo(s, names, f, n)
    BY <1>1, <2>1
  <2>3. n - 1 \in 0..Len(s) /\ n - 1 # Len(s) /\ (n - 1) + 1 = n /\ ~ (n <= n - 1)
    BY <1>0, <2>2
  <2>4. PICK f : PickedUpTo(s, names, f, n - 1)
    BY <2>1, <2>3
  <2> QED
    BY <1>2, <2>2, <2>3, <2>4
<1> QED
  BY <1>0, <1>3

(* And Selected is its last value.                                         *)
LEMMA PickedIsSelected ==
  ASSUME NEW s \in Seq(Reference), NEW names
  PROVE  \E f : PickedUpTo(s, names, f, Len(s)) /\ Selected(s, names) = f[Len(s)]
<1> DEFINE Made(f) == [n \in 0..Len(s) |->
                 IF n = 0 THEN << >>
                 ELSE IF s[n] \in names THEN Append(f[n - 1], s[n]) ELSE f[n - 1]]
           F == CHOOSE f : f = Made(f)
<1>1. Selected(s, names) = F[Len(s)]
  BY DEF Selected
<1>2. PICK p : PickedUpTo(s, names, p, Len(s))
  BY PickedExists
<1>3. p = Made(p)
  BY <1>2 DEF PickedUpTo, Picked
<1>4. F = Made(F)
  <2> HIDE DEF Made
  <2> QED
    BY <1>3
<1>5. /\ F = [n \in 0..Len(s) |-> F[n]]
      /\ \A n \in 0..Len(s) : F[n] = Picked(s, names, F[n - 1], n)
  <2> HIDE DEF F
  <2> QED
    BY <1>4 DEF Picked
<1> HIDE DEF F, Made
<1>6. ASSUME NEW n \in 0..Len(s) PROVE F[n] = p[n]
  <2> DEFINE Bad == {m \in 0..Len(s) : F[m] # p[m]}
  <2> SUFFICES ASSUME Bad # {} PROVE FALSE
    OBVIOUS
  <2>0. Bad \subseteq Nat
    OBVIOUS
  <2>1. PICK m \in Bad : \A k \in Bad : m <= k
    <3> HIDE DEF Bad
    <3> QED
      BY <2>0, Least
  <2>2. F[m] = Picked(s, names, F[m - 1], m) /\ p[m] = Picked(s, names, p[m - 1], m)
    BY <1>2, <1>5, <2>1 DEF PickedUpTo
  <2>3. m # 0
    BY <2>1, <2>2 DEF Picked
  <2>4. m - 1 \in 0..Len(s) /\ ~ (m <= m - 1)
    BY <2>1, <2>3
  <2>5. F[m - 1] = p[m - 1]
    BY <2>1, <2>4
  <2> QED
    BY <2>1, <2>2, <2>5
<1>7. F[Len(s)] = p[Len(s)]
  BY <1>6
<1> QED
  BY <1>1, <1>2, <1>7

(* The names that are selected, and the two lists that selecting leaves or *)
(* makes as they are.                                                      *)
LEMMA Selecting ==
  ASSUME NEW s \in Seq(Reference), NEW names
  PROVE  /\ Selected(s, names) \in Seq(Reference)
         /\ Range(Selected(s, names)) = Range(s) \cap names
         /\ Range(s) \subseteq names => Selected(s, names) = s
         /\ Range(s) \cap names = {} => Selected(s, names) = << >>
<1> DEFINE n == Len(s)
           Shown(i) == {s[j] : j \in 1..i}
<1>0. n \in Nat /\ \A i \in 1..n : s[i] \in Reference
  OBVIOUS
<1>1. PICK f : PickedUpTo(s, names, f, n) /\ Selected(s, names) = f[n]
  BY PickedIsSelected
<1>2. f \in [0..n -> Seq(Reference)] /\ \A i \in 0..n : f[i] = Picked(s, names, f[i - 1], i)
  BY <1>1 DEF PickedUpTo
<1> HIDE DEF n
<1>3. ASSUME NEW i \in 0..n
      PROVE  /\ Range(f[i]) = Shown(i) \cap names
             /\ Shown(i) \subseteq names => Len(f[i]) = i /\ \A j \in 1..i : f[i][j] = s[j]
  <2> DEFINE Holds(k) ==
               /\ Range(f[k]) = Shown(k) \cap names
               /\ Shown(k) \subseteq names => Len(f[k]) = k /\ \A j \in 1..k : f[k][j] = s[j]
             Bad == {k \in 0..n : ~Holds(k)}
  <2>1. Holds(0)
    <3>1. f[0] = << >> /\ Shown(0) = {}
      BY <1>0, <1>2 DEF Picked
    <3> QED
      BY <3>1 DEF Range
  <2>2. ASSUME NEW k \in 0..n, k # n, Holds(k) PROVE Holds(k + 1)
    <3>0. /\ k + 1 \in 1..n /\ (k + 1) - 1 = k /\ k \in Nat
          /\ 1..(k + 1) = 1..k \cup {k + 1}
      BY <1>0, <2>2
    <3>1. /\ s[k + 1] \in Reference /\ f[k] \in Seq(Reference)
          /\ Shown(k + 1) = Shown(k) \cup {s[k + 1]}
          /\ \A j \in 1..(k + 1) : j = k + 1 \/ j \in 1..k
      BY <1>0, <1>2, <2>2, <3>0
    <3>2. f[k + 1] = IF s[k + 1] \in names THEN Append(f[k], s[k + 1]) ELSE f[k]
      <4>1. k + 1 \in 0..n /\ k + 1 # 0
        BY <1>0, <3>0, <3>1
      <4>2. f[k + 1] = Picked(s, names, f[k], k + 1)
        BY <1>2, <3>0, <3>1, <4>1
      <4> QED
        BY <4>1, <4>2 DEF Picked
    <3>3. CASE s[k + 1] \in names
      <4>1. f[k + 1] = Append(f[k], s[k + 1])
        BY <3>2, <3>3
      <4>2. Range(f[k + 1]) = Range(f[k]) \cup {s[k + 1]}
        BY <3>1, <4>1, AppendShows
      <4>3. Range(f[k + 1]) = Shown(k + 1) \cap names
        BY <2>2, <3>0, <3>1, <3>3, <4>2
      <4>4. ASSUME Shown(k + 1) \subseteq names
            PROVE  Len(f[k + 1]) = k + 1 /\ \A j \in 1..(k + 1) : f[k + 1][j] = s[j]
        <5>1. Len(f[k]) = k /\ \A j \in 1..k : f[k][j] = s[j]
          BY <2>2, <3>0, <3>1, <4>4
        <5> QED
          BY <3>0, <3>1, <4>1, <5>1
      <4> QED
        BY <4>3, <4>4
    <3>4. CASE s[k + 1] \notin names
      <4>1. f[k + 1] = f[k] /\ ~ (Shown(k + 1) \subseteq names)
        BY <3>0, <3>1, <3>2, <3>4
      <4> QED
        BY <2>2, <3>0, <3>1, <3>4, <4>1
    <3> QED
      BY <3>3, <3>4
  <2> HIDE DEF Holds
  <2>3. Bad = {}
    <3> SUFFICES ASSUME Bad # {} PROVE FALSE
      OBVIOUS
    <3>1. Bad \subseteq Nat
      BY <1>0
    <3>2. PICK k \in Bad : \A m \in Bad : k <= m
      <4> HIDE DEF Bad
      <4> QED
        BY <3>1, Least
    <3>3. k # 0 /\ k \in 0..n /\ ~Holds(k)
      BY <2>1, <3>2
    <3>4. k - 1 \in 0..n /\ k - 1 # n /\ (k - 1) + 1 = k /\ ~ (k <= k - 1)
      BY <1>0, <3>3
    <3>5. Holds(k - 1)
      BY <3>2, <3>4
    <3> QED
      BY <2>2, <3>3, <3>4, <3>5
  <2> QED
    BY <2>3 DEF Holds
<1>4. Shown(n) = Range(s) /\ n \in 0..n /\ f[n] \in Seq(Reference)
  BY <1>0, <1>2 DEF Range, n
<1>5. Range(f[n]) = Range(s) \cap names
  BY <1>3, <1>4
<1>6. ASSUME Range(s) \subseteq names PROVE f[n] = s
  <2>1. Len(f[n]) = n /\ \A j \in 1..n : f[n][j] = s[j]
    BY <1>3, <1>4, <1>6
  <2> QED
    BY <1>4, <2>1, SeqEqual DEF n
<1>7. ASSUME Range(s) \cap names = {} PROVE f[n] = << >>
  <2>1. Range(f[n]) = {}
    BY <1>5, <1>7
  <2>2. f[n] # << >> => f[n][1] \in Range(f[n])
    BY <1>4 DEF Range
  <2> QED
    BY <2>1, <2>2
<1> QED
  BY <1>1, <1>4, <1>5, <1>6, <1>7

(* A list that is stabilized, and what it tells apart.                     *)
LEMMA Stabilizing ==
  ASSUME committedRefs \in Seq(Reference), committedRefs # NoKey, NEW l \in Seq(Reference)
  PROVE  /\ Stabilized(l) \in Seq(Reference)
         /\ Range(Stabilized(l)) = Range(committedRefs) => Stabilized(l) = committedRefs
<1>0. Stabilized(l) =
        Selected(committedRefs, Range(l)) \o Selected(l, Range(l) \ Range(committedRefs))
  BY DEF Stabilized, Listed, Range
<1> DEFINE old == Selected(committedRefs, Range(l))
           new == Selected(l, Range(l) \ Range(committedRefs))
<1>1. Stabilized(l) = old \o new
  BY <1>0
<1>2. /\ old \in Seq(Reference) /\ Range(old) = Range(committedRefs) \cap Range(l)
      /\ new \in Seq(Reference) /\ Range(new) = Range(l) \ Range(committedRefs)
      /\ Range(committedRefs) \subseteq Range(l) => old = committedRefs
      /\ Range(l) \subseteq Range(committedRefs) => new = << >>
  BY Selecting
<1> HIDE DEF old, new
<1>3. Range(old \o new) = Range(old) \cup Range(new)
  BY <1>2, RangeConcatenation
<1>4. Range(old \o new) = Range(l)
  BY <1>2, <1>3
<1> QED
  BY <1>1, <1>2, <1>4, ConcatEmptySeq

(* Whatever the committed selection, what is stabilized is a list again.   *)
LEMMA StabilizedIsList ==
  ASSUME committedRefs \in Seq(Reference) \cup {NoKey}, NEW l \in Seq(Reference)
  PROVE  Stabilized(l) \in Seq(Reference)
<1> DEFINE before == Listed(committedRefs)
           old == Selected(before, Range(l))
           new == Selected(l, Range(l) \ Range(before))
<1>1. before \in Seq(Reference)
  BY DEF Listed
<1>2. Stabilized(l) = old \o new
  BY DEF Stabilized, Range
<1> HIDE DEF before
<1>3. old \in Seq(Reference) /\ new \in Seq(Reference)
  BY <1>1, Selecting
<1> QED
  BY <1>2, <1>3

LEMMA WithoutIsList ==
  ASSUME NEW l \in Seq(Reference), NEW r \in Range(l)
  PROVE  Without(l, r) \in Seq(Reference)
<1>1. Len(l) \in Nat /\ Len(l) - 1 \in Nat
  BY DEF Range
<1>2. \A i \in 1..(Len(l) - 1) : l[i] \in Reference /\ l[i + 1] \in Reference
  BY <1>1
<1> QED
  BY <1>1, <1>2 DEF Without

(* Every list but the committed one has been stabilized.                   *)
ListInv ==
  /\ committedRefs \in Seq(Reference) \cup {NoKey}
  /\ activeRefs \in Seq(Reference) \cup {NoKey}
  /\ committedRefs # NoKey =>
       \/ activeRefs = committedRefs
       \/ \E l \in Seq(Reference) : activeRefs = Stabilized(l)

LEMMA ListStays ==
  ASSUME NoKey \notin Seq(Reference), ListInv, [OrderNext]_listVars
  PROVE  ListInv'
<1>1. Listed(activeRefs) \in Seq(Reference)
  BY DEF ListInv, Listed
<1>2. ASSUME NEW l \in Seq(Reference), activeRefs' = Stabilized(l), UNCHANGED committedRefs
      PROVE  ListInv'
  <2>1. Stabilized(l)' = Stabilized(l)
    BY <1>2 DEF Stabilized, Listed
  <2> QED
    BY <1>2, <2>1, StabilizedIsList DEF ListInv
<1>3. ASSUME NEW r, AddReference(r) PROVE ListInv'
  <2>1. Append(Listed(activeRefs), r) \in Seq(Reference)
    <3> HIDE DEF Listed
    <3> QED
      BY <1>1, <1>3, AppendProperties DEF AddReference
  <2> QED
    BY <1>2, <1>3, <2>1 DEF AddReference
<1>4. ASSUME NEW r, RemoveReference(r) PROVE ListInv'
  <2>1. r \in Range(Listed(activeRefs))
    BY <1>4 DEF RemoveReference, IsMember, Range
  <2>2. Without(Listed(activeRefs), r) \in Seq(Reference)
    BY <1>1, <2>1, WithoutIsList
  <2> QED
    BY <1>2, <1>4, <2>2 DEF RemoveReference
<1>5. ASSUME UNCHANGED committedRefs, activeRefs' = activeRefs \/ activeRefs' = committedRefs PROVE ListInv'
  <2>1. \A l \in Seq(Reference) : Stabilized(l)' = Stabilized(l)
    BY <1>5 DEF Stabilized, Listed
  <2> QED
    BY <1>5, <2>1 DEF ListInv
<1>6. ASSUME UNCHANGED committedRefs, activeRefs' = Listed(activeRefs) PROVE ListInv'
  <2>1. CASE activeRefs # NoKey
    BY <1>5, <1>6, <2>1 DEF Listed
  <2>2. CASE activeRefs = NoKey
    <3>1. committedRefs = NoKey
      BY <2>2, StabilizedIsList DEF ListInv
    <3> QED
      BY <1>1, <1>6, <3>1 DEF ListInv
  <2> QED
    BY <2>1, <2>2
<1>7. CASE CommitList
  BY <1>7 DEF CommitList, ListInv
<1> QED
  BY <1>3, <1>4, <1>5, <1>6, <1>7
     DEF OrderNext, AddRefused, RemoveRefused, ClearList, listVars

(* With the key present, whatever commands led there, the list differs     *)
(* from the committed one exactly when the rendered delta is not empty: a  *)
(* change that is undone by hand leaves nothing to commit                  *)
(* (_stabilize_reference_order).                                           *)
THEOREM ReferencesAreNetZero == OrderSpec => []NetZero
<1>0. NoKey \notin Seq(Reference) /\ InitialSelections \subseteq Seq(Reference) \cup {NoKey}
  BY SelectionAssumption
<1>1. OrderInit => ListInv
  BY <1>0 DEF OrderInit, ListInv
<1>2. ListInv /\ [OrderNext]_listVars => ListInv'
  BY <1>0, ListStays
<1>3. ListInv => NetZero
  <2> SUFFICES ASSUME ListInv, committedRefs # NoKey PROVE activeRefs # committedRefs <=> ~EmptyDelta
    BY DEF NetZero, ListDirty
  <2>1. committedRefs \in Seq(Reference) /\ activeRefs \in Seq(Reference)
    BY StabilizedIsList DEF ListInv
  <2>2. EmptyDelta <=> Range(activeRefs) = Range(committedRefs)
    <3>1. Listed(activeRefs) = activeRefs /\ Listed(committedRefs) = committedRefs
      BY <1>0, <2>1 DEF Listed
    <3>2. /\ Delta.added = Range(activeRefs) \ Range(committedRefs)
          /\ Delta.removed = Range(committedRefs) \ Range(activeRefs)
      BY <3>1 DEF Delta
    <3> QED
      BY <3>2 DEF EmptyDelta
  <2>3. Range(activeRefs) = Range(committedRefs) => activeRefs = committedRefs
    BY <2>1, Stabilizing DEF ListInv
  <2> QED
    BY <2>2, <2>3
<1> QED
  BY <1>1, <1>2, <1>3, PTL DEF OrderSpec

-----------------------------------------------------------------------------
(* The commands act on the names of the list.                              *)

(* A list that has every member once.                                      *)
Distinct(l) == \A i, j \in DOMAIN l : l[i] = l[j] => i = j

LEMMA AppendDistinct ==
  ASSUME NEW S, NEW s \in Seq(S), Distinct(s), NEW r \in S, r \notin Range(s)
  PROVE  Distinct(Append(s, r))
<1>1. /\ Len(s) \in Nat /\ DOMAIN s = 1..Len(s) /\ DOMAIN Append(s, r) = 1..(Len(s) + 1)
      /\ Append(s, r)[Len(s) + 1] = r
      /\ \A i \in 1..Len(s) : Append(s, r)[i] = s[i]
  OBVIOUS
<1>2. \A i \in 1..Len(s) : s[i] # r
  BY <1>1 DEF Range
<1>3. \A i \in 1..(Len(s) + 1) : i = Len(s) + 1 \/ i \in 1..Len(s)
  BY <1>1
<1> QED
  BY <1>1, <1>2, <1>3 DEF Distinct

LEMMA ConcatDistinct ==
  ASSUME NEW S, NEW s \in Seq(S), NEW t \in Seq(S), Distinct(s), Distinct(t),
         Range(s) \cap Range(t) = {}
  PROVE  Distinct(s \o t)
<1> DEFINE n == Len(s)
           m == Len(t)
<1>1. /\ n \in Nat /\ m \in Nat /\ DOMAIN s = 1..n /\ DOMAIN t = 1..m
      /\ s \o t \in Seq(S) /\ Len(s \o t) = n + m
      /\ \A i \in 1..(n + m) : (s \o t)[i] = IF i <= n THEN s[i] ELSE t[i - n]
  BY ConcatProperties
<1>2. DOMAIN (s \o t) = 1..(n + m)
  BY <1>1
<1> HIDE DEF n, m
<1>3. ASSUME NEW i \in 1..(n + m)
      PROVE  \/ i \in 1..n /\ (s \o t)[i] = s[i]
             \/ i - n \in 1..m /\ (s \o t)[i] = t[i - n] /\ i = (i - n) + n
  BY <1>1
<1>4. \A i \in 1..n, j \in 1..m : s[i] # t[j]
  BY <1>1 DEF Range
<1>5. ASSUME NEW i \in 1..(n + m), NEW j \in 1..(n + m), (s \o t)[i] = (s \o t)[j]
      PROVE  i = j
  <2>1. CASE i \in 1..n /\ (s \o t)[i] = s[i] /\ j \in 1..n /\ (s \o t)[j] = s[j]
    BY <1>1, <1>5, <2>1 DEF Distinct
  <2>2. CASE /\ i - n \in 1..m /\ (s \o t)[i] = t[i - n]
             /\ j - n \in 1..m /\ (s \o t)[j] = t[j - n]
    <3>1. i - n = j - n
      BY <1>1, <1>5, <2>2 DEF Distinct
    <3> QED
      BY <1>1, <3>1
  <2> QED
    BY <1>3, <1>4, <1>5, <2>1, <2>2
<1> QED
  BY <1>2, <1>5 DEF Distinct

(* What is picked from a list with every member once has every member once.*)
LEMMA SelectedDistinct ==
  ASSUME NEW s \in Seq(Reference), NEW names, Distinct(s)
  PROVE  Distinct(Selected(s, names))
<1> DEFINE n == Len(s)
           Shown(i) == {s[j] : j \in 1..i}
<1>0. n \in Nat /\ DOMAIN s = 1..n /\ \A i \in 1..n : s[i] \in Reference
  OBVIOUS
<1>1. PICK f : PickedUpTo(s, names, f, n) /\ Selected(s, names) = f[n]
  BY PickedIsSelected
<1>2. f \in [0..n -> Seq(Reference)] /\ \A i \in 0..n : f[i] = Picked(s, names, f[i - 1], i)
  BY <1>1 DEF PickedUpTo
<1> HIDE DEF n
<1> DEFINE Good == {i \in 0..n : Distinct(f[i]) /\ Range(f[i]) \subseteq Shown(i)}
<1>3. 0 \in Good
  <2>1. 0 \in 0..n /\ f[0] = << >>
    BY <1>0, <1>2 DEF Picked
  <2> QED
    BY <2>1 DEF Distinct, Range
<1>4. ASSUME NEW i \in 1..n, i - 1 \in Good PROVE i \in Good
  <2>0. i \in 0..n /\ i - 1 \in 0..n /\ i # 0 /\ s[i] \in Reference
    BY <1>0
  <2>1. /\ i \in 0..n /\ i - 1 \in 0..n /\ s[i] \in Reference /\ f[i - 1] \in Seq(Reference)
        /\ f[i] = IF s[i] \in names THEN Append(f[i - 1], s[i]) ELSE f[i - 1]
    <3> HIDE DEF Good
    <3>1. f[i] = Picked(s, names, f[i - 1], i)
      BY <1>2, <2>0
    <3> QED
      BY <1>2, <2>0, <3>1 DEF Picked
  <2>2. 1..i = 1..(i - 1) \cup {i}
    BY <1>0
  <2>3. Shown(i) = Shown(i - 1) \cup {s[i]}
    BY <2>2
  <2>4. s[i] \notin Shown(i - 1)
    <3>1. \A j \in 1..(i - 1) : j \in 1..n /\ j # i
      BY <1>0
    <3> QED
      BY <1>0, <3>1 DEF Distinct
  <2>5. Distinct(f[i - 1]) /\ Range(f[i - 1]) \subseteq Shown(i - 1)
    BY <1>4
  <2> HIDE DEF Shown
  <2>6. CASE s[i] \in names
    <3>1. f[i] = Append(f[i - 1], s[i]) /\ s[i] \notin Range(f[i - 1])
      BY <2>1, <2>4, <2>5, <2>6
    <3>2. Distinct(f[i]) /\ Range(f[i]) = Range(f[i - 1]) \cup {s[i]}
      BY <2>1, <2>5, <3>1, AppendDistinct, AppendShows
    <3> QED
      BY <2>1, <2>3, <2>5, <3>2
  <2>7. CASE s[i] \notin names
    BY <2>1, <2>3, <2>5, <2>7
  <2> QED
    BY <2>6, <2>7
<1>5. n \in Good
  <2> HIDE DEF Good
  <2>1. 0..n \subseteq Good
    BY <1>0, <1>3, <1>4, Induction
  <2> QED
    BY <1>0, <2>1
<1> QED
  BY <1>1, <1>5

(* Removing the only occurrence of a name removes the name.                *)
LEMMA WithoutShows ==
  ASSUME NEW l \in Seq(Reference), Distinct(l), NEW r \in Range(l)
  PROVE  /\ Distinct(Without(l, r))
         /\ Range(Without(l, r)) = Range(l) \ {r}
<1> DEFINE n == Len(l)
           at == CHOOSE i \in DOMAIN l : l[i] = r /\ \A j \in 1..(i - 1) : l[j] # r
           less == [i \in 1..(n - 1) |-> IF i < at THEN l[i] ELSE l[i + 1]]
<1>1. n \in Nat /\ DOMAIN l = 1..n
  OBVIOUS
<1>2. at \in 1..n /\ l[at] = r
  <2>1. PICK i \in 1..n : l[i] = r
    BY <1>1 DEF Range
  <2>2. \A j \in 1..(i - 1) : j \in 1..n /\ j # i
    BY <1>1
  <2>3. \A j \in 1..(i - 1) : l[j] # r
    BY <1>1, <2>1, <2>2 DEF Distinct
  <2> QED
    BY <1>1, <2>1, <2>3
<1>3. Without(l, r) = less
  BY DEF Without
<1> HIDE DEF n, at
<1>4. ASSUME NEW i \in 1..(n - 1)
      PROVE  \E k \in 1..n : /\ less[i] = l[k] /\ k # at
                             /\ k = (IF i < at THEN i ELSE i + 1)
  BY <1>1, <1>2
<1>5. DOMAIN less = 1..(n - 1)
  OBVIOUS
<1>6. ASSUME NEW k \in 1..n, k # at PROVE l[k] \in Range(less)
  <2>1. CASE k < at
    <3>1. k \in 1..(n - 1) /\ less[k] = l[k]
      BY <1>1, <1>2, <2>1
    <3> QED
      BY <1>5, <3>1 DEF Range
  <2>2. CASE ~ (k < at)
    <3>1. k - 1 \in 1..(n - 1) /\ ~ (k - 1 < at) /\ (k - 1) + 1 = k
      BY <1>1, <1>2, <1>6, <2>2
    <3>2. less[k - 1] = l[k]
      BY <3>1
    <3> QED
      BY <1>5, <3>1, <3>2 DEF Range
  <2> QED
    BY <2>1, <2>2
<1>7. \A k \in 1..n : l[k] = r => k = at
  BY <1>1, <1>2 DEF Distinct
<1> HIDE DEF less
<1>8. Range(less) = Range(l) \ {r}
  <2>1. Range(l) = {l[k] : k \in 1..n} /\ Range(less) = {less[i] : i \in 1..(n - 1)}
    BY <1>1, <1>5 DEF Range
  <2>2. ASSUME NEW i \in 1..(n - 1) PROVE less[i] \in Range(l) /\ less[i] # r
    BY <1>4, <1>7, <2>1
  <2>3. \A x \in Range(l) : x # r => x \in Range(less)
    BY <1>2, <1>6, <2>1
  <2> QED
    BY <2>1, <2>2, <2>3
<1>9. ASSUME NEW i \in 1..(n - 1), NEW j \in 1..(n - 1), less[i] = less[j] PROVE i = j
  <2>1. PICK k \in 1..n : less[i] = l[k] /\ k = (IF i < at THEN i ELSE i + 1)
    BY <1>4
  <2>2. PICK m \in 1..n : less[j] = l[m] /\ m = (IF j < at THEN j ELSE j + 1)
    BY <1>4
  <2>3. k = m
    BY <1>1, <1>9, <2>1, <2>2 DEF Distinct
  <2> QED
    BY <1>1, <1>2, <2>1, <2>2, <2>3
<1> QED
  BY <1>3, <1>5, <1>8, <1>9 DEF Distinct

LEMMA StabilizedShows ==
  ASSUME committedRefs \in Seq(Reference) \cup {NoKey}, NEW l \in Seq(Reference)
  PROVE  /\ Range(Stabilized(l)) = Range(l)
         /\ Distinct(l) /\ Distinct(Listed(committedRefs)) => Distinct(Stabilized(l))
<1> DEFINE before == Listed(committedRefs)
           old == Selected(before, Range(l))
           new == Selected(l, Range(l) \ Range(before))
<1>1. before \in Seq(Reference)
  BY DEF Listed
<1>2. Stabilized(l) = old \o new
  BY DEF Stabilized
<1> HIDE DEF before
<1>3. /\ old \in Seq(Reference) /\ Range(old) = Range(before) \cap Range(l)
      /\ new \in Seq(Reference) /\ Range(new) = Range(l) \ Range(before)
  BY <1>1, Selecting
<1>4. Distinct(l) /\ Distinct(before) => Distinct(old) /\ Distinct(new)
  BY <1>1, SelectedDistinct
<1> HIDE DEF old, new
<1>5. Range(old \o new) = Range(old) \cup Range(new)
  BY <1>3, RangeConcatenation
<1>6. Distinct(old) /\ Distinct(new) => Distinct(old \o new)
  BY <1>3, ConcatDistinct
<1> QED
  BY <1>2, <1>3, <1>4, <1>5, <1>6 DEF before

(* The lists as sets: the state CandidateCommit keeps, and its commands.   *)
ActiveNames == Range(Listed(activeRefs))
CommittedNames == Range(Listed(committedRefs))

NamesAdded(r) == ActiveNames' = ActiveNames \cup {r} /\ UNCHANGED CommittedNames
NamesRemoved(r) == ActiveNames' = ActiveNames \ {r} /\ UNCHANGED CommittedNames
NamesKept == UNCHANGED <<ActiveNames, CommittedNames>>

(* What each command on the list does to the set.                          *)
ActsOnTheSet ==
  /\ \A r \in Reference \cup Unknown :
       /\ AddReference(r) => r \in Reference \ ActiveNames /\ NamesAdded(r)
       /\ RemoveReference(r) => r \in ActiveNames /\ NamesRemoved(r)
       /\ AddRefused(r) \/ RemoveRefused(r) => NamesKept
  /\ ClearList => ActiveNames' = CommittedNames /\ UNCHANGED CommittedNames
  /\ CommitList => CommittedNames' = ActiveNames /\ UNCHANGED ActiveNames

(* No settings.yaml lists a reference twice.                               *)
OnceEach == \A x \in InitialSelections : Distinct(Listed(x))

DistinctInv ==
  /\ committedRefs \in Seq(Reference) \cup {NoKey}
  /\ activeRefs \in Seq(Reference) \cup {NoKey}
  /\ Distinct(Listed(committedRefs)) /\ Distinct(Listed(activeRefs))

LEMMA EmptyDistinct == Distinct(<< >>) /\ << >> \in Seq(Reference) /\ Listed(<< >>) = << >>
BY SelectionAssumption DEF Distinct, Listed

LEMMA ListedIs == \A x \in Seq(Reference) : Listed(x) = x
BY SelectionAssumption DEF Listed

(* One command on lists that have every name once.                         *)
LEMMA CommandOnTheSet ==
  ASSUME DistinctInv, OrderNext PROVE DistinctInv' /\ ActsOnTheSet
<1> DEFINE now == Listed(activeRefs)
<1>1. /\ now \in Seq(Reference) /\ Listed(committedRefs) \in Seq(Reference)
      /\ Distinct(now) /\ ActiveNames = Range(now)
  BY DEF DistinctInv, Listed, ActiveNames
<1>2. ASSUME NEW l \in Seq(Reference), Distinct(l), activeRefs' = Stabilized(l), UNCHANGED committedRefs
      PROVE  DistinctInv' /\ ActiveNames' = Range(l) /\ UNCHANGED CommittedNames
  <2>1. Stabilized(l) \in Seq(Reference) /\ Range(Stabilized(l)) = Range(l) /\ Distinct(Stabilized(l))
    BY <1>2, StabilizedIsList, StabilizedShows DEF DistinctInv
  <2>2. Listed(activeRefs)' = Stabilized(l) /\ Listed(committedRefs)' = Listed(committedRefs)
    <3>1. Listed(activeRefs') = activeRefs'
      BY <1>2, <2>1, ListedIs
    <3> QED
      BY <1>2, <3>1 DEF Listed
  <2> QED
    BY <1>2, <2>1, <2>2 DEF DistinctInv, ActiveNames, CommittedNames
<1>3. ASSUME NEW r, AddReference(r)
      PROVE  DistinctInv' /\ r \in Reference \ ActiveNames /\ NamesAdded(r)
  <2>1. r \in Reference \ ActiveNames
    BY <1>3 DEF AddReference, IsMember, ActiveNames
  <2>2. /\ Append(now, r) \in Seq(Reference) /\ Distinct(Append(now, r))
        /\ Range(Append(now, r)) = ActiveNames \cup {r}
    <3> HIDE DEF now
    <3> QED
      BY <1>1, <2>1, AppendProperties, AppendDistinct, AppendShows
  <2> QED
    BY <1>2, <1>3, <2>1, <2>2 DEF AddReference, NamesAdded
<1>4. ASSUME NEW r, RemoveReference(r)
      PROVE  DistinctInv' /\ r \in ActiveNames /\ NamesRemoved(r)
  <2>1. r \in Range(now)
    BY <1>4 DEF RemoveReference, IsMember
  <2>2. /\ Without(now, r) \in Seq(Reference) /\ Distinct(Without(now, r))
        /\ Range(Without(now, r)) = ActiveNames \ {r}
    <3> HIDE DEF now
    <3> QED
      BY <1>1, <2>1, WithoutIsList, WithoutShows
  <2> QED
    BY <1>1, <1>2, <1>4, <2>1, <2>2 DEF RemoveReference, NamesRemoved
<1>5. ASSUME NEW r, AddRefused(r) \/ RemoveRefused(r) PROVE DistinctInv' /\ NamesKept
  <2>1. activeRefs' = now /\ UNCHANGED committedRefs
    BY <1>5 DEF AddRefused, RemoveRefused
  <2>2. Listed(activeRefs)' = now /\ Listed(committedRefs)' = Listed(committedRefs)
    BY <1>1, <2>1, ListedIs DEF Listed
  <2> QED
    BY <1>1, <2>1, <2>2 DEF DistinctInv, NamesKept, ActiveNames, CommittedNames
<1>6. ASSUME ClearList
      PROVE  DistinctInv' /\ ActiveNames' = CommittedNames /\ UNCHANGED CommittedNames
  BY <1>6 DEF ClearList, DistinctInv, ActiveNames, CommittedNames, Listed
<1>7. ASSUME CommitList
      PROVE  DistinctInv' /\ CommittedNames' = ActiveNames /\ UNCHANGED ActiveNames
  BY <1>7 DEF CommitList, DistinctInv, ActiveNames, CommittedNames, Listed
<1> QED
  BY <1>3, <1>4, <1>5, <1>6, <1>7 DEF OrderNext, ActsOnTheSet

(* A command that selects a reference adds its name to the set, one that   *)
(* unselects it takes that name and no other away, a refused command       *)
(* changes no name, and clear and commit copy the one set to the other: on *)
(* lists that name every reference once the list behaves like the set of   *)
(* CandidateCommit (add_reference, remove_reference, clear, commit).       *)
THEOREM CommandsActOnTheSet ==
  ASSUME OnceEach PROVE OrderSpec => [][ActsOnTheSet]_listVars
<1>1. OrderInit => DistinctInv
  <2> SUFFICES ASSUME OrderInit PROVE DistinctInv
    OBVIOUS
  <2> QED
    BY SelectionAssumption DEF OrderInit, OnceEach, DistinctInv
<1>2. DistinctInv /\ [OrderNext]_listVars => DistinctInv'
  BY CommandOnTheSet DEF DistinctInv, listVars
<1>3. DistinctInv /\ [OrderNext]_listVars => [ActsOnTheSet]_listVars
  BY CommandOnTheSet
<1> QED
  BY <1>1, <1>2, <1>3, PTL DEF OrderSpec
=============================================================================
