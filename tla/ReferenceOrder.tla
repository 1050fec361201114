--------------------------- MODULE ReferenceOrder ---------------------------
(***************************************************************************)
(* The one selection of the running-config that is a list: the active      *)
(* references of a CLI session (cli/config.py).  Commands select and       *)
(* unselect a reference by name and none reorders them, but the dirty      *)
(* check compares lists, the rendered delta compares sets and the commit   *)
(* writes the list.  CandidateCommit keeps the selection as a set: this    *)
(* module is why it may, and CandidateCommitProofs extends both.           *)
(***************************************************************************)
EXTENDS Naturals, Sequences, Functions

CONSTANTS
  Reference,        (* names of stored references                           *)
  Unknown,          (* names an operator may type that no reference has     *)
  NoKey,            (* settings without the key active_references           *)
  InitialSelections (* what a loaded settings.yaml holds under that key     *)

ASSUME ReferenceAssumption == Reference \cap Unknown = {}
ASSUME SelectionAssumption ==
  NoKey \notin Seq(Reference) /\ InitialSelections \subseteq Seq(Reference) \cup {NoKey}

VARIABLES
  committedRefs,  (* committed_settings["active_references"]                *)
  activeRefs      (* settings_candidate["active_references"]                *)

listVars == <<committedRefs, activeRefs>>

(* x.get("active_references") or []                                        *)
Listed(x) == IF x = NoKey THEN << >> ELSE x

IsMember(r, x) == r \in Range(Listed(x))

ListTypeOK ==
  /\ committedRefs \in Seq(Reference) \cup {NoKey}
  /\ activeRefs \in Seq(Reference) \cup {NoKey}

-----------------------------------------------------------------------------
\* Faulty: the list is left in the order of the commands.
StabilizedAsTyped(list) == list

(* [r for r in list if r in names]                                         *)
Selected(list, names) ==
  LET picked[n \in 0..Len(list)] ==
        IF n = 0 THEN << >>
        ELSE IF list[n] \in names THEN Append(picked[n - 1], list[n])
        ELSE picked[n - 1]
  IN picked[Len(list)]

(* The committed references first, in the committed order, then the new    *)
(* ones in the order they were activated.                                  *)
Stabilized(list) ==
  LET before == Listed(committedRefs)
  IN Selected(before, Range(list)) \o Selected(list, Range(list) \ Range(before))

(* list.remove(): the first occurrence.                                    *)
Without(list, r) ==
  LET at == CHOOSE i \in DOMAIN list :
              list[i] = r /\ \A j \in 1..(i - 1) : list[j] # r
  IN [i \in 1..(Len(list) - 1) |-> IF i < at THEN list[i] ELSE list[i + 1]]

ListDirty == activeRefs # committedRefs

(* What `show configuration` lists: names added and names removed.         *)
Delta == [added |-> Range(Listed(activeRefs)) \ Range(Listed(committedRefs)),
          removed |-> Range(Listed(committedRefs)) \ Range(Listed(activeRefs))]

EmptyDelta == Delta.added = {} /\ Delta.removed = {}

-----------------------------------------------------------------------------
(* add_reference() and select_reference_idempotent().                      *)
AddReference(r) ==
  /\ ~IsMember(r, activeRefs)
  /\ r \in Reference
  /\ activeRefs' = Stabilized(Append(Listed(activeRefs), r))
  /\ UNCHANGED committedRefs

(* A refused command has already set the default.                          *)
AddRefused(r) ==
  /\ ~IsMember(r, activeRefs)
  /\ r \in Unknown
  /\ activeRefs' = Listed(activeRefs)
  /\ UNCHANGED committedRefs

RemoveReference(r) ==
  /\ IsMember(r, activeRefs)
  /\ activeRefs' = Stabilized(Without(Listed(activeRefs), r))
  /\ UNCHANGED committedRefs

RemoveRefused(r) ==
  /\ ~IsMember(r, activeRefs)
  /\ activeRefs' = Listed(activeRefs)
  /\ UNCHANGED committedRefs

ClearList == activeRefs' = committedRefs /\ UNCHANGED committedRefs

CommitList ==
  /\ ListDirty
  /\ committedRefs' = activeRefs
  /\ UNCHANGED activeRefs

OrderInit ==
  /\ committedRefs \in InitialSelections
  /\ activeRefs = committedRefs

OrderNext ==
  \/ \E r \in Reference \cup Unknown :
       AddReference(r) \/ AddRefused(r) \/ RemoveReference(r) \/ RemoveRefused(r)
  \/ ClearList \/ CommitList

OrderSpec == OrderInit /\ [][OrderNext]_listVars

-----------------------------------------------------------------------------
(* Properties.                                                             *)

(* With the key present, whatever commands led there: the list differs     *)
(* from the committed one exactly when the rendered delta is not empty, so *)
(* undoing a change by hand leaves nothing to commit.                      *)
NetZero ==
  committedRefs # NoKey => (ListDirty <=> ~EmptyDelta)
=============================================================================
