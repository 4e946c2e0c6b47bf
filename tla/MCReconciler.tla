---------------------------- MODULE MCReconciler ----------------------------
(* Instances of ClusterReconciler for TLC. *)
EXTENDS ClusterReconciler

MCEntry == EntryRecord
=============================================================================
