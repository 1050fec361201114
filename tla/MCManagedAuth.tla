--------------------------- MODULE MCManagedAuth ---------------------------
(* Instances of ManagedAuth for TLC.                                       *)
EXTENDS ManagedAuth

Entry(flow, jump, secrets) == [flow |-> flow, jump |-> jump, secrets |-> secrets]

(* Direct and through a jump host, with and without the secrets asked for. *)
EveryKind ==
  {Entry(f, j, {"jump", "target", "name"}) :
     f \in {"managed", "xr", "ios", "probe"}, j \in BOOLEAN} \cup
  {Entry("managed", TRUE, {"target"}), Entry("managed", TRUE, {"jump"}),
   Entry("ios", FALSE, {"target"})}
=============================================================================
