---------------------------- MODULE MCLabQueries ----------------------------
(* Instances of LabQueries for TLC.                                        *)
EXTENDS LabQueries, TLC

CONSTANTS n1, n2, a1, a2, w1, w2

Says(type, address) == [type |-> type, at |-> address]

(* A topology with the device or without; access-info that leads to two    *)
(* addresses.  Scenarios change, come and go, references only go.          *)
SmallContent ==
  [k \in Kind |-> CASE k = "topology" -> {Says("none", None), Says("xr", None)}
                   [] k = "access"   -> {Says("xr", a1), Says("xr", a2)}
                   [] k = "scenario" -> {Says("xr", None), Says("ios", None)}
                   [] OTHER -> {}]

Everything(n) == [k \in Kind |-> n]

(* All of one lab or of the other.                                         *)
FewSelections ==
  {Everything(n1), [Everything(n2) EXCEPT !["reference"] = None]}

First(k) == IF k = "access" THEN Says("xr", a1) ELSE Says("xr", None)
Second(k) == IF k = "access" THEN Says("xr", a2)
             ELSE IF k = "reference" THEN None ELSE Says("xr", None)

(* The second lab leads to the other address, and has no reference.        *)
TwoLabs ==
  {[selected |-> Everything(n1),
    stored |-> [k \in Kind |-> n1 :> First(k) @@ n2 :> Second(k)]]}

(* One thread serves every tool, the other only opens the terminal.        *)
Tools == [w \in Worker |-> IF w = w1 THEN Ops ELSE {"open"}]

(* A call asks for both scenarios and for the active reference.            *)
FewRequests ==
  {[k \in {"scenario", "reference"} |-> IF k = "scenario" THEN {n1, n2} ELSE {n1}]}
=============================================================================
