-------------------------- MODULE MCCandidateCommit --------------------------
(***************************************************************************)
(* Instances of CandidateCommit: two topologies whose names differ by      *)
(* case, a scenario and a reference; for concurrent writers and Discovery, *)
(* two topologies, the access-info definitions they are named after, and   *)
(* two references whose names differ by case.                              *)
(***************************************************************************)
EXTENDS CandidateCommit, TLC

CONSTANTS lab, LAB, lab2, sc, ref, REF, ai, ai2, v1, v2, bad, s2

Nothing == {}
MCValid == {v1, v2}
MCBody == {v1, v2, bad}

CaseDefs == {lab, LAB, sc, ref}
AccessInfos == {ai, ai2}
WriterDefs == {lab, lab2, ai, ai2, sc, ref, REF}

MCKindOf ==
  [d \in Def |-> IF d \in {lab, LAB, lab2} THEN "topology"
                 ELSE IF d = sc THEN "scenario"
                 ELSE IF d \in {ref, REF} THEN "reference"
                 ELSE "access_info"]

CasePair ==
  [d \in Def |-> {e \in Def : {d, e} \in {{lab, LAB}, {ref, REF}} /\ d # e}]

MCTopologyOf == [d \in Def |-> IF d = ai2 THEN lab2 ELSE lab]

Lab(existing, active) ==
  [disk |-> [d \in Def |-> IF d \in existing THEN v1 ELSE Absent],
   settings |-> [active |-> active, described |-> {}]]

(* A healthy lab, and one whose running-config already selects a missing   *)
(* reference (ref) or nothing at all.                                      *)
CaseLabs == {Lab({lab, sc}, {lab, sc}), Lab({lab, sc}, {lab, sc, ref}),
             Lab({sc}, {sc})}

WriterLabs == {Lab({lab, ai, ai2, sc}, {lab, ai, sc})}

(* Bound: either both processes create references, or one of them works on *)
(* topologies, with Discovery, and the other one on the selection.         *)
OneJob ==
  \/ /\ disk[lab] = v1 /\ disk[lab2] = Absent /\ ai \in settings.active
     /\ \A s \in Session : /\ cli[s].slot \in {NoDef, ref, REF}
                           /\ cli[s].cand = cli[s].base
                           /\ cli[s].target = NoDef /\ cli[s].stage # "discovery_checked"
  \/ /\ {disk[ref], disk[REF]} = {Absent}
     /\ \A s \in Session \ {s2} :
          cli[s].cand = cli[s].base /\ cli[s].slot \in {NoDef, lab, lab2}
     /\ cli[s2].slot = NoDef /\ cli[s2].target = NoDef
     /\ cli[s2].stage # "discovery_checked"
=============================================================================
