--------------------------- MODULE MCDependencies ---------------------------
(* An instance of Dependencies for TLC. *)
EXTENDS Dependencies

App(id, cluster, src, status) ==
  [id |-> id, cluster |-> cluster, ns |-> "n1", name |-> id, source |-> src,
   status |-> status, suspended |-> FALSE]

Src(id, cluster, kind, status) ==
  [id |-> id, cluster |-> cluster, ns |-> "n1", kind |-> kind, name |-> "x",
   status |-> status, suspended |-> FALSE]

MCApps ==
  {App("a1", "c1", src, "ready") : src \in {<<>>, <<"x">>, <<"Git", "x">>}}
    \cup {App("a1", "c1", <<"Git", "x">>, "failing"), App("a2", "c1", <<"Helm", "x">>, "ready"),
          App("a3", "c2", <<"Git", "x">>, "ready")}

MCSources ==
  {Src("git", "c1", "Git", "ready"), Src("git", "c1", "Git", "degraded"),
   Src("helm", "c1", "Helm", "failing"), Src("other", "c2", "Git", "failing"),
   [Src("far", "c2", "Git", "ready") EXCEPT !.ns = "n2", !.suspended = TRUE]}

MCSearches == {{"a1", "a2", "a3", "x", "n1", "n2", "Git", "Helm"}, {"a1"}, {"Git"}}
=============================================================================
