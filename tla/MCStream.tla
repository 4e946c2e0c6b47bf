------------------------------ MODULE MCStream ------------------------------
(* Instances of StreamHandler for TLC. *)
EXTENDS StreamHandler

CONSTANTS s1, prod, dev

MCEvents == Publishers \X (1 .. MaxEvents)

(* Every watcher reports on prod, which s1 may read and others may not. *)
MCClusterOf == [p \in Publishers |-> prod]

MCAllowed == [s \in Subscribers |-> IF s = s1 THEN {prod, dev} ELSE {dev}]

(* The handler mounted on a writer that can flush, as its tests mount it. *)
BareChain == <<>>
=============================================================================
