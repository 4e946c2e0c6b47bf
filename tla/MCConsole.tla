------------------------------ MODULE MCConsole ------------------------------
(***************************************************************************)
(* The console with interchangeable applications, clusters, pods and       *)
(* containers.                                                             *)
(***************************************************************************)
EXTENDS Console, TLC

MCLists == {<<>>} \cup {<<c>> : c \in Clusters}
                   \cup {p \in Clusters \X Clusters : p[1] # p[2]}

MCSymmetry ==
  UNION {Permutations(S) : S \in {Apps, Clusters, Pods, Containers}}
=============================================================================
