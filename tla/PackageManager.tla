--------------------------- MODULE PackageManager ---------------------------
(* The package manager of src/src/pm/Manager.cc, as the compiler drives it   *)
(* (Compiler::runPackageManager).  One invocation of `snowball build|run|    *)
(* test|bench` runs runAsMain on the project's sn.toml; install() clones a   *)
(* package into .sn/deps and calls runAsMain again on the manifest it has    *)
(* just cloned.  The recursion is the stack of frames; .sn/deps is the only  *)
(* state that survives from one invocation to the next.                      *)
EXTENDS Integers, Sequences, SequencesExt, FiniteSets

CONSTANTS
  Pkg,        \* package names ("owner/repo")
  Version,    \* git tags a package may be checked out at
  Head0,      \* the default branch, cloned when no tag is asked for
  Latest,     \* the requirement "latest" (also what an absent version means)
  Root,       \* the project itself, owner of the outermost frame
  Projects,   \* the dependency lists the project's own sn.toml may hold
  Registry,   \* [Pkg -> [url, array, versions]]: the registry's JSON
  Manifest    \* [Pkg -> [checkout -> [file, deps]]]: the sn.toml in the clone

Absent  == "absent"     \* no directory .sn/deps/<p>
Partial == "partial"    \* a directory git has created and not finished
Checkout == Version \cup {Head0}
Requirement == [name : Pkg, version : Version \cup {Latest}]

ASSUME NamesAssumption ==
  /\ Root \notin Pkg /\ Latest \notin Version /\ Head0 \notin Version
  /\ Absent \notin Checkout /\ Partial \notin Checkout
ASSUME ProjectsAssumption == Projects \subseteq Seq(Requirement)
ASSUME RegistryAssumption ==
  Registry \in [Pkg -> [url : BOOLEAN, array : BOOLEAN, versions : Seq(Version)]]
ASSUME ManifestAssumption ==
  Manifest \in [Pkg -> [Checkout -> [file : {"ok", "missing", "invalid"},
                                     deps : Seq(Requirement)]]]

VARIABLES
  deps,      \* the directories of .sn/deps: absent, partial or a checkout
  project,   \* the dependencies of the project's sn.toml in this invocation
  stack,     \* active runAsMain frames, innermost first: [owner, todo]
  pc,        \* where the innermost install() is, or how the invocation ended
  commit,    \* commitId: what the install() in progress asked git for
  wd,        \* the process' working directory
  orphans    \* history: packages on disk whose own dependencies an earlier
             \* invocation was still installing when it was cut short
vars == <<deps, project, stack, pc, commit, wd, orphans>>

Installed == {p \in Pkg : deps[p] # Absent}
Required(reqs) == {r.name : r \in ToSet(reqs)}
Needs(p) == IF deps[p] \in Checkout THEN Required(Manifest[p][deps[p]].deps) ELSE {}

Running == pc \in {"install", "clone", "manifest"}
Top == stack[1]
Target == Top.todo[1]
\* The packages whose directory exists while their own frame is not finished.
InProgress ==
  {f.owner : f \in ToSet(stack)} \cup
  (IF pc \in {"clone", "manifest"} THEN {Target.name} ELSE {})

Init ==
  /\ deps = [p \in Pkg |-> Absent]
  /\ project \in Projects
  /\ stack = << >>
  /\ pc = "idle"
  /\ commit = Head0
  /\ wd = "cwd"
  /\ orphans = {}

-----------------------------------------------------------------------------
(* runAsMain on the project's sn.toml: without dependencies it returns at    *)
(* once; otherwise the process moves to .sn/deps and installs them in order. *)
Invoke ==
  /\ ~Running
  /\ \E reqs \in Projects :
       /\ project' = reqs
       /\ IF reqs = << >>
          THEN pc' = "done" /\ stack' = << >> /\ wd' = "cwd"
          ELSE pc' = "install" /\ stack' = <<[owner |-> Root, todo |-> reqs]>> /\ wd' = "deps"
  /\ UNCHANGED <<deps, commit, orphans>>

\* The process ends without a result: an SNError, or a kill.
CutShort(end) ==
  /\ pc' = end
  /\ stack' = << >>
  /\ orphans' = orphans \cup ((InProgress \cap {p \in Pkg : deps'[p] # Absent}) \ {Root})
  /\ UNCHANGED <<project, commit, wd>>

\* Mutants: the loop returns after its first package; it does not advance.
ReturnsAfterFirst(s) == Tail(s)
SameRequirement(s) == s
\* install() of the current requirement returned EXIT_SUCCESS.
NextRequirement(s) == <<[s[1] EXCEPT !.todo = Tail(@)]>> \o Tail(s)

\* Mutants: the check looks at .sn/deps alone; or only at finished packages.
isInstalledAnything(p) == TRUE
isInstalledFinished(p) == deps[p] # Absent /\ p \notin InProgress
\* isInstalled: a directory with the package's name is enough.
isInstalled(p) == deps[p] # Absent

Skip ==
  /\ pc = "install" /\ Top.todo # << >>
  /\ isInstalled(Target.name)
  /\ stack' = NextRequirement(stack)
  /\ UNCHANGED <<deps, project, pc, commit, wd, orphans>>

\* Mutant: the version is not looked up in the registry's list.
CommitIdsUnchecked(r) == {r.version} \cap Version
\* What install() may pass to --branch; empty when it throws instead.
CommitIds(r) ==
  LET info == Registry[r.name]
      asked == IF r.version = Latest THEN {info.versions[i] : i \in DOMAIN info.versions \cap {1}}
                                     ELSE {r.version}
  IN {id \in Checkout : info.url /\ IF info.array THEN id \in asked \cap ToSet(info.versions)
                                                  ELSE id = Head0}

Resolve ==
  /\ pc = "install" /\ Top.todo # << >>
  /\ ~isInstalled(Target.name)
  /\ \E c \in CommitIds(Target) : commit' = c
  /\ pc' = "clone"
  /\ UNCHANGED <<deps, project, stack, wd, orphans>>

\* No answer, a bad answer, no download_url or an unknown version.
ResolveFails ==
  /\ pc = "install" /\ Top.todo # << >>
  /\ ~isInstalled(Target.name)
  /\ deps' = deps
  /\ CutShort("failed")

-----------------------------------------------------------------------------
(* `git clone --depth=1 [--branch commitId]`, run by std::system: git makes  *)
(* the directory first and removes it again when it fails by itself.         *)

CloneStarts ==
  /\ pc = "clone" /\ deps[Target.name] = Absent
  /\ deps' = [deps EXCEPT ![Target.name] = Partial]
  /\ UNCHANGED <<project, stack, pc, commit, wd, orphans>>

CloneSucceeds ==
  /\ pc = "clone" /\ deps[Target.name] = Partial
  /\ deps' = [deps EXCEPT ![Target.name] = commit]
  /\ pc' = "manifest"
  /\ UNCHANGED <<project, stack, commit, wd, orphans>>

CloneFails ==
  /\ pc = "clone"
  /\ deps' = [deps EXCEPT ![Target.name] = IF @ = Partial THEN Absent ELSE @]
  /\ CutShort("failed")

-----------------------------------------------------------------------------
(* The cloned sn.toml becomes this->package and runAsMain is called on it.   *)

ReadManifest ==
  /\ pc = "manifest"
  /\ LET p == Target.name
         m == Manifest[p][deps[p]]
     IN /\ m.file = "ok"
        /\ IF m.deps = << >>
           THEN stack' = NextRequirement(stack) /\ wd' = wd
           ELSE stack' = <<[owner |-> p, todo |-> m.deps]>> \o stack /\ wd' = "deps"
  /\ pc' = "install"
  /\ UNCHANGED <<deps, project, commit, orphans>>

\* "No sn.toml found in package", or toml::parse_file throws.
ManifestFails ==
  /\ pc = "manifest"
  /\ Manifest[Target.name][deps[Target.name]].file # "ok"
  /\ deps' = deps
  /\ CutShort("failed")

\* The end of runAsMain: back to a directory, and to the install() that called it.
ReturnTo(dir) ==
  /\ pc = "install" /\ Top.todo = << >>
  /\ wd' = dir
  /\ IF Len(stack) = 1
     THEN stack' = << >> /\ pc' = "done"
     ELSE stack' = NextRequirement(Tail(stack)) /\ pc' = pc
  /\ UNCHANGED <<deps, project, commit, orphans>>

Return == ReturnTo("cwd")

-----------------------------------------------------------------------------
(* Outside the code: the process is killed, or the user runs `snowball clean`. *)

Crash == Running /\ deps' = deps /\ CutShort("killed")

clean ==
  /\ ~Running
  /\ deps' = [p \in Pkg |-> Absent]
  /\ orphans' = {}
  /\ pc' = "idle"
  /\ UNCHANGED <<project, stack, commit, wd>>

Manager == \/ Skip \/ Resolve \/ ResolveFails
           \/ CloneStarts \/ CloneSucceeds \/ CloneFails
           \/ ReadManifest \/ ManifestFails \/ Return

Next == Invoke \/ Manager \/ Crash \/ clean

\* The process keeps running: curl gives up after 10 seconds, and git is
\* assumed to end; nothing obliges a user to run or a process to be killed.
Spec == Init /\ [][Next]_vars /\ WF_vars(Manager)

-----------------------------------------------------------------------------
(* Properties *)

Frame == [owner : Pkg \cup {Root}, todo : Seq(Requirement)]

\* The types of the state, and that the process state fits pc: a running
\* manager has a frame, and is inside install() only for a pending requirement.
TypeOK ==
  /\ deps \in [Pkg -> Checkout \cup {Absent, Partial}]
  /\ project \in Projects
  /\ stack \in Seq(Frame)
  /\ pc \in {"idle", "install", "clone", "manifest", "done", "failed", "killed"}
  /\ commit \in Checkout
  /\ wd \in {"cwd", "deps"}
  /\ orphans \subseteq Pkg
  /\ (stack # << >>) <=> Running
  /\ pc \in {"clone", "manifest"} => Top.todo # << >>

\* When an invocation reports success, everything the project requires is
\* checked out, and so is everything required by any package on disk, except
\* around the packages whose installation an earlier invocation left half
\* done (install() and runAsMain, through the recursion and its early skips).
DependenciesInstalled ==
  pc = "done" =>
    \A p \in Required(project) \cup UNION {Needs(q) : q \in Installed \ orphans} :
      p \in orphans \/ deps[p] \in Checkout

\* The recursion of install() through runAsMain never enters a package that is
\* already being installed, whatever cycle the manifests form: this bounds its
\* depth by the number of packages (install() makes the directory first).
NoReentry ==
  /\ \A i, j \in DOMAIN stack : stack[i].owner = stack[j].owner => i = j
  /\ pc \in {"clone", "manifest"} => \A i \in DOMAIN stack : stack[i].owner # Target.name

\* What is checked out for a package is always a version its registry entry
\* lists, or the default branch of one that lists none (the version check).
CheckoutListed ==
  \A p \in Pkg : deps[p] \in Checkout =>
    IF Registry[p].array THEN deps[p] \in ToSet(Registry[p].versions) ELSE deps[p] = Head0

\* An invocation that is not killed ends, also on cyclic dependencies.
Terminates == Running ~> ~Running
=============================================================================
