-------------------------- MODULE MCReferenceOrder --------------------------
(***************************************************************************)
(* Instances of ReferenceOrder: four stored references, in every order a   *)
(* settings.yaml can list them (each at most once), and one unknown name.  *)
(***************************************************************************)
EXTENDS ReferenceOrder, Naturals

Lists ==
  UNION {{list \in [1..n -> Reference] :
            \A i, j \in 1..n : list[i] = list[j] => i = j} : n \in 0..4}

(* And one without the key.                                                *)
Settings == Lists \cup {NoKey}
=============================================================================
