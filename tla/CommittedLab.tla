--------------------------- MODULE CommittedLab ---------------------------
(***************************************************************************)
(* What the CLI promises about the lab it stores, whatever it holds as a   *)
(* candidate and wherever a commit stops: definition files hold validated  *)
(* content, change one at a time, are not deleted while the running-config *)
(* selects them, and the running-config changes in one step to a selection *)
(* that misses nothing it did not miss before.  This is also all the MCP   *)
(* server can see of the CLI.                                              *)
(***************************************************************************)
CONSTANTS Def, KindOf, CaseVariants, Folding, Valid, Absent, InitialLabs

VARIABLES disk, settings

Missing(active) == {d \in active : disk[d] = Absent}

Init == \E lab \in InitialLabs : disk = lab.disk /\ settings = lab.settings

Save(d, content) ==
  /\ Folding => \A e \in CaseVariants[d] : disk[e] = Absent
  /\ disk' = [disk EXCEPT ![d] = content]
  /\ UNCHANGED settings

Delete(d) ==
  /\ d \notin settings.active
  /\ disk' = [disk EXCEPT ![d] = Absent]
  /\ UNCHANGED settings

Reselect(active, described) ==
  /\ described \subseteq active
  /\ \A kind \in {"topology", "scenario"} : \E d \in active : KindOf[d] = kind
  /\ Missing(active) \subseteq Missing(settings.active)
  /\ settings' = [active |-> active, described |-> described]
  /\ UNCHANGED disk

Next ==
  \/ \E d \in Def : Delete(d) \/ \E content \in Valid : Save(d, content)
  \/ \E active \in SUBSET Def, described \in SUBSET Def :
       Reselect(active, described)

Spec == Init /\ [][Next]_<<disk, settings>>
=============================================================================
