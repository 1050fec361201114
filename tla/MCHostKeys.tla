----------------------------- MODULE MCHostKeys -----------------------------
(***************************************************************************)
(* Instances of HostKeys: a jump host and a device behind it, or devices   *)
(* reached directly, with two keys; the product's file empty or with an    *)
(* old key of any of them.                                                 *)
(***************************************************************************)
EXTENDS HostKeys, TLC

CONSTANTS jump, r1, r2, k1, k2

HopsOfProxyJump == r1 :> <<jump, r1>>
HopsOfOne == r1 :> <<r1>>

OneTarget == <<r1>>

AnyFile == [Host -> {<< >>, <<k1>>}]
FullFile == [Host -> {<<k1>>}]

Threads == Permutations(Terminal)
=============================================================================
