-------------------------- MODULE MCPackageManager --------------------------
(* A small registry: a diamond with a cycle (a needs b and c, b needs c and a *)
(* older c, c needs a), a package d without a version list, whose clone has   *)
(* no sn.toml, and projects that ask for different versions of a.             *)
EXTENDS PackageManager

CONSTANTS a, b, c, d, v1, v2

R(p, v) == [name |-> p, version |-> v]

MCPkg == {a, b, c, d}
MCVersion == {v1, v2}
MCProjects ==
  { << >>, <<R(a, v1)>>, <<R(b, v2)>>, <<R(b, Latest), R(a, v2)>>, <<R(c, v2), R(d, Latest)>> }
MCRegistry ==
  (a :> [url |-> TRUE, array |-> TRUE, versions |-> <<v2, v1>>]) @@
  (b :> [url |-> TRUE, array |-> TRUE, versions |-> <<v1>>]) @@
  (c :> [url |-> TRUE, array |-> TRUE, versions |-> <<v2, v1>>]) @@
  (d :> [url |-> TRUE, array |-> FALSE, versions |-> << >>])
Toml(ds) == [file |-> "ok", deps |-> ds]
NoToml == [file |-> "missing", deps |-> << >>]
Always(m) == [k \in MCVersion \cup {Head0} |-> m]
MCManifest ==
  (a :> ((v1 :> Toml(<<R(b, v1), R(c, v1)>>)) @@ (v2 :> Toml(<<R(c, v2)>>)) @@ (Head0 :> NoToml))) @@
  (b :> Always(Toml(<<R(c, Latest), R(a, v2)>>))) @@
  (c :> ((v1 :> Toml(<<R(a, v1)>>)) @@ (v2 :> Toml(<< >>)) @@ (Head0 :> NoToml))) @@
  (d :> Always(NoToml))
=============================================================================
