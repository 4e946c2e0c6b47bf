------------------------------ MODULE MCCache ------------------------------
(* An instance of QueryCache for TLC. *)
EXTENDS QueryCache, TLC

CONSTANTS a1, a2

MCKindOf == (a1 :> "HelmRelease") @@ (a2 :> "Kustomization")
MCKeys == {<<"applications", "all">>}
=============================================================================
