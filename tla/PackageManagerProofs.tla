------------------------ MODULE PackageManagerProofs ------------------------
(* What the runs of MCPackageManager check on one small registry, proved for *)
(* every set of packages, every registry and all manifests, cyclic or not.   *)
EXTENDS PackageManager, SequenceTheorems, TLAPS

\* r is dealt with: its package is checked out, or an earlier run spoiled it.
Settled(r) == deps[r.name] \in Checkout \/ r.name \in orphans

\* The dependency list runAsMain works on for this owner.
Reqs(o) == IF o = Root THEN project ELSE Manifest[o][deps[o]].deps

Owners == {stack[i].owner : i \in DOMAIN stack}

\* The frames form a chain: the project first, then for each frame the package
\* whose installation the frame above it stands for, all of them checked out.
Chained ==
  /\ \A i \in DOMAIN stack : stack[i].owner # Root => deps[stack[i].owner] \in Checkout
  /\ \A i \in DOMAIN stack : i > 1 =>
       stack[i].todo # << >> /\ stack[i].todo[1].name = stack[i - 1].owner
  /\ stack # << >> => stack[Len(stack)].owner = Root

\* A frame has settled every requirement that is no longer in its todo.
FramesSettled ==
  \A i \in DOMAIN stack : \A r \in ToSet(Reqs(stack[i].owner)) :
    r \in ToSet(stack[i].todo) \/ Settled(r)

\* Only the clone in progress, or an orphan, is a partial directory.
PartialKnown ==
  \A p \in Pkg : deps[p] = Partial => p \in orphans \/ (pc = "clone" /\ p = Target.name)

\* A package whose installation is over has its requirements settled.
ClosedBehind ==
  \A q \in Pkg :
    /\ deps[q] \in Checkout /\ q \notin orphans /\ q \notin Owners
    /\ ~(pc = "manifest" /\ q = Target.name)
    => \A r \in ToSet(Manifest[q][deps[q]].deps) : Settled(r)

\* The package being cloned is new: no owner, no orphan.
TargetNew ==
  /\ pc = "clone" => deps[Target.name] \notin Checkout /\ Target.name \notin orphans
  /\ pc = "manifest" => deps[Target.name] \in Checkout
  /\ pc \in {"clone", "manifest"} => Target.name \notin Owners
OrphansOnDisk == \A p \in orphans : deps[p] # Absent
DoneSettled == pc = "done" => \A r \in ToSet(project) : Settled(r)
Distinct == \A i, j \in DOMAIN stack : stack[i].owner = stack[j].owner => i = j

IInv ==
  /\ TypeOK /\ Chained /\ FramesSettled /\ PartialKnown /\ ClosedBehind
  /\ TargetNew /\ OrphansOnDisk /\ DoneSettled /\ Distinct

-----------------------------------------------------------------------------
(* Two facts about the stack operations. *)

\* install() returning drops the head of the innermost todo and nothing else.
LEMMA NextRequirementProps ==
  ASSUME NEW s \in Seq(Frame), s # << >>, s[1].todo # << >>
  PROVE  LET t == NextRequirement(s) IN
         /\ t \in Seq(Frame) /\ Len(t) = Len(s) /\ t # << >>
         /\ t[1].owner = s[1].owner /\ t[1].todo = Tail(s[1].todo)
         /\ \A i \in 2..Len(s) : t[i] = s[i]
<1> DEFINE f == [s[1] EXCEPT !.todo = Tail(@)]
<1>1. s[1] \in Frame
  OBVIOUS
<1>2. f \in Frame /\ f.owner = s[1].owner /\ f.todo = Tail(s[1].todo)
  <2>1. s[1].todo \in Seq(Requirement)
    BY <1>1 DEF Frame
  <2>2. Tail(s[1].todo) \in Seq(Requirement)
    BY <2>1, HeadTailProperties
  <2>3. QED
    BY <1>1, <2>2 DEF Frame
<1>3. NextRequirement(s) = <<f>> \o Tail(s)
  BY DEF NextRequirement
<1> HIDE DEF f
<1>4. QED
  BY <1>2, <1>3

\* runAsMain on a cloned manifest puts one frame on top of the others.
LEMMA PushProps ==
  ASSUME NEW s \in Seq(Frame), NEW f \in Frame
  PROVE  LET t == <<f>> \o s IN
         /\ t \in Seq(Frame) /\ Len(t) = Len(s) + 1 /\ t # << >> /\ t[1] = f
         /\ \A i \in 1..Len(s) : t[i + 1] = s[i]
OBVIOUS

\* The elements of a sequence.
LEMMA ToSetProps ==
  ASSUME NEW S, NEW q \in Seq(S)
  PROVE  /\ \A r \in ToSet(q) : r \in S /\ \E i \in 1..Len(q) : q[i] = r
         /\ \A i \in 1..Len(q) : q[i] \in ToSet(q)
<1>1. DOMAIN q = 1..Len(q) /\ \A i \in 1..Len(q) : q[i] \in S
  OBVIOUS
<1>2. ToSet(q) = {q[i] : i \in 1..Len(q)}
  BY <1>1, Zenon DEF ToSet
<1>3. QED
  BY <1>1, <1>2

\* What a requirement left in a todo after its head has gone was before.
LEMMA TailElements ==
  ASSUME NEW S, NEW q \in Seq(S), q # << >>, NEW r \in ToSet(q), r # q[1]
  PROVE  r \in ToSet(Tail(q))
<1>1. PICK i \in 1..Len(q) : q[i] = r
  BY ToSetProps
<1>2. /\ Tail(q) \in Seq(S) /\ Len(Tail(q)) = Len(q) - 1
      /\ \A j \in 1..Len(Tail(q)) : Tail(q)[j] = q[j + 1]
  BY HeadTailProperties
<1>3. i > 1
  BY <1>1
<1>4. i - 1 \in 1..Len(Tail(q)) /\ Tail(q)[i - 1] = r
  BY <1>1, <1>2, <1>3
<1>5. QED
  BY <1>2, <1>4, ToSetProps

-----------------------------------------------------------------------------
(* The initial state, and one lemma per group of actions. *)

\* With no command running, nothing is owed.
LEMMA InitIInv == Init => IInv
BY NamesAssumption
DEF Init, IInv, TypeOK, Chained, FramesSettled, PartialKnown, ClosedBehind, TargetNew,
    OrphansOnDisk, DoneSettled, Distinct, Checkout, Running, Owners, Absent, Partial

\* The requirement install() is working on is a requirement.
LEMMA TargetTyped ==
  ASSUME TypeOK, Running
  PROVE  /\ Top \in Frame /\ Top.todo \in Seq(Requirement) /\ stack # << >> /\ 1 \in DOMAIN stack
         /\ Top.todo # << >> => Target \in Requirement /\ Target.name \in Pkg
<1>1. Top \in Frame /\ stack # << >> /\ 1 \in DOMAIN stack
  BY DEF TypeOK, Top
<1>2. Top.todo \in Seq(Requirement)
  BY <1>1 DEF Frame
<1>3. Top.todo # << >> => Target \in Requirement
  BY <1>2 DEF Target
<1>4. QED
  BY <1>1, <1>2, <1>3 DEF Requirement

\* A manifest lists requirements of packages.
LEMMA ManifestTyped ==
  ASSUME NEW p \in Pkg, NEW k \in Checkout
  PROVE  /\ Manifest[p][k].deps \in Seq(Requirement)
         /\ \A r \in ToSet(Manifest[p][k].deps) : r \in Requirement /\ r.name \in Pkg
<1>1. Manifest[p][k].deps \in Seq(Requirement)
  BY ManifestAssumption
<1>2. \A r \in ToSet(Manifest[p][k].deps) : r \in Requirement
  BY <1>1, ToSetProps
<1>3. QED
  BY <1>1, <1>2 DEF Requirement

\* So does the project's.
LEMMA ProjectTyped ==
  ASSUME TypeOK
  PROVE  /\ project \in Seq(Requirement)
         /\ \A r \in ToSet(project) : r \in Requirement /\ r.name \in Pkg
<1>1. project \in Seq(Requirement)
  BY ProjectsAssumption DEF TypeOK
<1>2. \A r \in ToSet(project) : r \in Requirement
  BY <1>1, ToSetProps
<1>3. QED
  BY <1>1, <1>2 DEF Requirement

\* An invocation cut short leaves no frame, and what it was doing as orphans.
LEMMA CutShortIInv ==
  ASSUME IInv, NEW end \in {"failed", "killed"}, CutShort(end), Running,
         \/ deps' = deps
         \/ pc = "clone" /\ deps' = [deps EXCEPT ![Target.name] = IF @ = Partial THEN Absent ELSE @]
  PROVE  IInv'
<1> USE DEF IInv
<1>1. /\ stack' = << >> /\ pc' = end /\ Owners' = {} /\ project' = project
      /\ orphans \subseteq orphans'
  BY DEF CutShort, Owners
<1>2. pc = "clone" => Target.name \in Pkg
  BY TargetTyped DEF TypeOK
<1>3. \A r \in Requirement : Settled(r) => Settled(r)'
  BY <1>1, <1>2 DEF Settled, TargetNew, TypeOK, Requirement
<1>4. TypeOK'
  BY <1>1, <1>2 DEF TypeOK, CutShort, Running
<1>5. \A p \in Pkg : p \in Owners /\ deps'[p] # Absent => p \in orphans'
  BY NamesAssumption DEF CutShort, InProgress, Owners, ToSet
<1>6. \A p \in Pkg : /\ pc \in {"clone", "manifest"} /\ p = Target.name /\ deps'[p] # Absent
                     => p \in orphans'
  BY NamesAssumption DEF CutShort, InProgress
<1>7. \A p \in Pkg : deps'[p] # Absent => deps'[p] = deps[p]
  BY <1>2 DEF TypeOK
<1>8. Chained' /\ FramesSettled' /\ Distinct' /\ TargetNew' /\ DoneSettled'
  BY <1>1 DEF Chained, FramesSettled, Distinct, TargetNew, DoneSettled
<1>9. PartialKnown'
  BY <1>1, <1>6, <1>7 DEF PartialKnown, Absent, Partial
<1>10. ClosedBehind'
  <2> SUFFICES ASSUME NEW q \in Pkg, deps'[q] \in Checkout, q \notin orphans',
                      NEW r \in ToSet(Manifest[q][deps'[q]].deps)
               PROVE  Settled(r)'
    BY DEF ClosedBehind
  <2>1. deps'[q] = deps[q] /\ deps'[q] # Absent
    BY <1>7, NamesAssumption
  <2>2. q \notin orphans /\ q \notin Owners /\ ~(pc = "manifest" /\ q = Target.name)
    BY <1>1, <1>5, <1>6, <2>1
  <2>3. Settled(r)
    BY <2>1, <2>2 DEF ClosedBehind
  <2>4. QED
    BY <1>3, <2>1, <2>3, ManifestTyped
<1>11. OrphansOnDisk'
  <2>1. \A p \in orphans : deps'[p] = deps[p]
    BY <1>2 DEF TargetNew, TypeOK
  <2>2. QED
    BY <2>1 DEF OrphansOnDisk, CutShort, TypeOK
<1>12. QED
  BY <1>4, <1>8, <1>9, <1>10, <1>11

\* An installation begins with the project's frame, and owes it all.
LEMMA InvokeIInv ==
  ASSUME IInv, Invoke
  PROVE  IInv'
<1> USE DEF IInv
<1>1. PICK reqs \in Projects :
        /\ project' = reqs
        /\ IF reqs = << >>
           THEN pc' = "done" /\ stack' = << >> /\ wd' = "cwd"
           ELSE pc' = "install" /\ stack' = <<[owner |-> Root, todo |-> reqs]>> /\ wd' = "deps"
  BY DEF Invoke
<1>2. /\ deps' = deps /\ commit' = commit /\ orphans' = orphans /\ Owners = {}
      /\ pc \notin {"install", "clone", "manifest"}
  BY DEF Invoke, TypeOK, Running, Owners
<1>3. Owners' \subseteq {Root} /\ reqs \in Seq(Requirement)
  BY <1>1, ProjectsAssumption DEF Owners
<1>4. TypeOK'
  <2>1. [owner |-> Root, todo |-> reqs] \in Frame
    BY <1>3 DEF Frame
  <2>2. stack' \in Seq(Frame)
    <3>1. << >> \in Seq(Frame) /\ \A f \in Frame : <<f>> \in Seq(Frame)
      OBVIOUS
    <3>2. QED
      BY <1>1, <2>1, <3>1, Zenon
  <2>3. (stack' # << >> <=> Running') /\ pc' \in {"install", "done"} /\ wd' \in {"cwd", "deps"}
    BY <1>1 DEF Running
  <2>4. QED
    BY <1>1, <1>2, <2>2, <2>3 DEF TypeOK
<1>5. \A i \in DOMAIN stack' : i = 1 /\ stack'[i] = [owner |-> Root, todo |-> project']
  BY <1>1
<1>5a. Chained' /\ Distinct' /\ TargetNew'
  BY <1>1, <1>5 DEF Chained, Distinct, TargetNew
<1>5b. FramesSettled'
  BY <1>5 DEF FramesSettled, Reqs
<1>6. PartialKnown' /\ OrphansOnDisk'
  BY <1>2 DEF PartialKnown, OrphansOnDisk
<1>7. ClosedBehind'
  BY <1>1, <1>2, <1>3, NamesAssumption DEF ClosedBehind, Settled
<1>8. DoneSettled'
  BY <1>1 DEF DoneSettled, ToSet
<1>9. QED
  BY <1>4, <1>5a, <1>5b, <1>6, <1>7, <1>8

\* What is left to do shrinks by a settled requirement: Skip, and the return
\* of an install() whose package has no dependencies of its own.
LEMMA Advance ==
  ASSUME TypeOK, Chained, Distinct, FramesSettled, Running, Top.todo # << >>, Settled(Target),
         deps' = deps, project' = project, orphans' = orphans,
         stack' = NextRequirement(stack)
  PROVE  /\ stack' \in Seq(Frame) /\ stack' # << >> /\ Owners' = Owners
         /\ Chained' /\ Distinct' /\ FramesSettled'
<1>1. Top.todo \in Seq(Requirement) /\ stack \in Seq(Frame) /\ stack # << >>
  BY TargetTyped DEF TypeOK
<1>2. /\ stack' \in Seq(Frame) /\ Len(stack') = Len(stack) /\ stack' # << >>
      /\ stack'[1].owner = stack[1].owner /\ stack'[1].todo = Tail(stack[1].todo)
      /\ \A i \in 2..Len(stack) : stack'[i] = stack[i]
  BY <1>1, NextRequirementProps DEF Top
<1>3. \A i \in DOMAIN stack : stack'[i].owner = stack[i].owner /\ i \in DOMAIN stack'
  BY <1>1, <1>2
<1>4. DOMAIN stack' = DOMAIN stack /\ Owners' = Owners
  BY <1>1, <1>2, <1>3 DEF Owners
<1>5. Chained' /\ Distinct'
  BY <1>1, <1>2, <1>3, <1>4, SMTT(30) DEF Chained, Distinct
<1>6. FramesSettled'
  <2> SUFFICES ASSUME NEW i \in DOMAIN stack, NEW r \in ToSet(Reqs(stack[i].owner))
               PROVE  r \in ToSet(stack'[i].todo) \/ Settled(r)
    BY <1>3, <1>4 DEF FramesSettled, Reqs, Settled
  <2>1. r \in ToSet(stack[i].todo) \/ Settled(r)
    BY DEF FramesSettled
  <2>2. CASE i = 1
    BY <2>1, <2>2, <1>1, <1>2, TailElements DEF Top, Target
  <2>3. CASE i > 1
    BY <2>1, <2>3, <1>1, <1>2
  <2>4. QED
    BY <2>2, <2>3, <1>1
<1>7. QED
  BY <1>2, <1>4, <1>5, <1>6

\* A requirement that is passed over is on disk or in progress.
LEMMA SkipIInv ==
  ASSUME IInv, Skip
  PROVE  IInv'
<1> USE DEF IInv
<1>1. /\ pc = "install" /\ pc' = pc /\ deps' = deps /\ project' = project /\ wd' = wd
      /\ commit' = commit /\ orphans' = orphans /\ Top.todo # << >> /\ Running
      /\ stack' = NextRequirement(stack)
  BY DEF Skip, Running
<1>2. Settled(Target)
  BY <1>1, TargetTyped DEF Skip, isInstalled, Settled, PartialKnown, TypeOK
<1>3. /\ stack' \in Seq(Frame) /\ stack' # << >> /\ Owners' = Owners
      /\ Chained' /\ Distinct' /\ FramesSettled'
  BY <1>1, <1>2, Advance
<1>4. TypeOK'
  BY <1>1, <1>3 DEF TypeOK, Running
<1>5. PartialKnown' /\ OrphansOnDisk' /\ TargetNew' /\ DoneSettled'
  BY <1>1 DEF PartialKnown, OrphansOnDisk, TargetNew, DoneSettled
<1>6. ClosedBehind'
  BY <1>1, <1>3 DEF ClosedBehind, Settled
<1>7. QED
  BY <1>3, <1>4, <1>5, <1>6

\* Resolve and the two clone steps leave the frames alone.
LEMMA ResolveIInv ==
  ASSUME IInv, Resolve
  PROVE  IInv'
<1> USE DEF IInv
<1>1. /\ pc = "install" /\ pc' = "clone" /\ deps' = deps /\ project' = project /\ wd' = wd
      /\ orphans' = orphans /\ stack' = stack /\ Top.todo # << >> /\ Running
      /\ deps[Target.name] = Absent
  BY DEF Resolve, isInstalled, Running
<1>2. Target \in Requirement /\ Target.name \in Pkg
  BY <1>1, TargetTyped
<1>3. PICK c \in CommitIds(Target) : commit' = c
  BY DEF Resolve
<1>4. c \in Checkout
  BY <1>3 DEF CommitIds
<1>5. TypeOK'
  BY <1>1, <1>3, <1>4 DEF TypeOK, Running, Top
<1>6. Owners' = Owners /\ Target' = Target /\ \A r : Settled(r) <=> Settled(r)'
  BY <1>1 DEF Owners, Settled, Target, Top
<1>7. Chained' /\ Distinct' /\ FramesSettled' /\ OrphansOnDisk' /\ DoneSettled'
  BY <1>1, <1>6 DEF Chained, Distinct, FramesSettled, OrphansOnDisk, DoneSettled, Reqs
<1>8. PartialKnown' /\ ClosedBehind'
  BY <1>1, <1>6 DEF PartialKnown, ClosedBehind
<1>9. TargetNew'
  <2>1. Target.name \notin Owners
    BY <1>1, <1>2, NamesAssumption DEF Chained, Owners
  <2>2. Target.name \notin orphans
    BY <1>1 DEF OrphansOnDisk
  <2>3. QED
    BY <1>1, <1>6, <2>1, <2>2, NamesAssumption DEF TargetNew
<1>10. QED
  BY <1>5, <1>7, <1>8, <1>9

\* git creating the directory and filling it: p's entry is all that changes,
\* and p is neither an owner nor an orphan.
LEMMA CloneIInv ==
  ASSUME IInv, CloneStarts \/ CloneSucceeds
  PROVE  IInv'
<1> USE DEF IInv
<1>1. /\ pc = "clone" /\ project' = project /\ wd' = wd /\ commit' = commit
      /\ orphans' = orphans /\ stack' = stack /\ Running
      /\ \/ pc' = "clone" /\ deps' = [deps EXCEPT ![Target.name] = Partial]
         \/ pc' = "manifest" /\ deps' = [deps EXCEPT ![Target.name] = commit]
  BY DEF CloneStarts, CloneSucceeds, Running
<1>2. Target \in Requirement /\ Target.name \in Pkg
  BY <1>1, TargetTyped DEF TypeOK
<1>3. TypeOK'
  BY <1>1, <1>2 DEF TypeOK, Running, Top
<1>4. Owners' = Owners /\ Target' = Target
  BY <1>1 DEF Owners, Target, Top
<1>5. \A p \in Pkg : p # Target.name => deps'[p] = deps[p]
  BY <1>1, <1>2 DEF TypeOK
<1>6. /\ pc' = "clone" => deps'[Target.name] = Partial
      /\ pc' = "manifest" => deps'[Target.name] = commit
  BY <1>1, <1>2 DEF TypeOK
<1>7. Target.name \notin Owners /\ Target.name \notin orphans /\ deps[Target.name] \notin Checkout
  BY <1>1 DEF TargetNew
<1>8. \A r \in Requirement : Settled(r) => Settled(r)'
  BY <1>1, <1>5, <1>7 DEF Settled, Requirement
<1>9. \A i \in DOMAIN stack : /\ stack[i].owner \in Pkg \cup {Root} /\ stack[i].owner \in Owners
                              /\ stack[i].owner # Root => deps'[stack[i].owner] = deps[stack[i].owner]
  <2> SUFFICES ASSUME NEW i \in DOMAIN stack
               PROVE  /\ stack[i].owner \in Pkg \cup {Root} /\ stack[i].owner \in Owners
                      /\ stack[i].owner # Root => deps'[stack[i].owner] = deps[stack[i].owner]
    OBVIOUS
  <2>1. stack[i] \in Frame
    BY DEF TypeOK
  <2>2. stack[i].owner \in Pkg \cup {Root} /\ stack[i].owner \in Owners
    BY <2>1 DEF Frame, Owners
  <2>3. QED
    BY <1>5, <1>7, <2>2
<1>10. Chained' /\ Distinct'
  BY <1>1, <1>9 DEF Chained, Distinct
<1>11. FramesSettled'
  <2> SUFFICES ASSUME NEW i \in DOMAIN stack, NEW r \in ToSet(Reqs(stack[i].owner))
               PROVE  r \in ToSet(stack[i].todo) \/ Settled(r)'
    BY <1>1, <1>9 DEF FramesSettled, Reqs
  <2>1. r \in ToSet(stack[i].todo) \/ Settled(r)
    BY DEF FramesSettled
  <2>2. r \in Requirement
    BY <1>9, ProjectTyped, ManifestTyped DEF Reqs, Chained
  <2>3. QED
    BY <2>1, <2>2, <1>8
<1>12. PartialKnown'
  BY <1>1, <1>4, <1>5, <1>6, NamesAssumption DEF PartialKnown, TypeOK
<1>13. ClosedBehind'
  <2> SUFFICES ASSUME NEW q \in Pkg, deps'[q] \in Checkout, q \notin orphans, q \notin Owners,
                      ~(pc' = "manifest" /\ q = Target.name),
                      NEW r \in ToSet(Manifest[q][deps'[q]].deps)
               PROVE  Settled(r)'
    BY <1>1, <1>4 DEF ClosedBehind
  <2>1. q # Target.name
    BY <1>1, <1>6, NamesAssumption
  <2>2. Settled(r)
    BY <1>1, <1>5, <2>1 DEF ClosedBehind
  <2>3. QED
    BY <1>8, <2>2, ManifestTyped
<1>14. TargetNew'
  BY <1>1, <1>4, <1>6, <1>7, NamesAssumption DEF TargetNew, TypeOK
<1>15. OrphansOnDisk' /\ DoneSettled'
  BY <1>1, <1>5, <1>7 DEF OrphansOnDisk, DoneSettled, TypeOK
<1>16. QED
  BY <1>3, <1>10, <1>11, <1>12, <1>13, <1>14, <1>15

\* A manifest that was read adds a frame, with what its package owes.
LEMMA ReadManifestIInv ==
  ASSUME IInv, ReadManifest
  PROVE  IInv'
<1> USE DEF IInv
<1> DEFINE p == Target.name
           m == Manifest[p][deps[p]]
<1>1. /\ pc = "manifest" /\ pc' = "install" /\ deps' = deps /\ project' = project
      /\ commit' = commit /\ orphans' = orphans /\ Running /\ Top.todo # << >>
      /\ IF m.deps = << >>
         THEN stack' = NextRequirement(stack) /\ wd' = wd
         ELSE stack' = <<[owner |-> p, todo |-> m.deps]>> \o stack /\ wd' = "deps"
  BY DEF ReadManifest, Running, TypeOK
<1>2. /\ Top.todo \in Seq(Requirement) /\ stack \in Seq(Frame) /\ stack # << >>
      /\ Target \in Requirement /\ p \in Pkg
  BY <1>1, TargetTyped DEF TypeOK
<1>3. deps[p] \in Checkout /\ p \notin Owners /\ Settled(Target)
  BY <1>1 DEF TargetNew, Settled
<1>4. m.deps \in Seq(Requirement)
  BY <1>2, <1>3, ManifestTyped
<1>5. \A r : Settled(r) <=> Settled(r)'
  BY <1>1 DEF Settled
<1>6. PartialKnown' /\ OrphansOnDisk' /\ TargetNew' /\ DoneSettled'
  BY <1>1 DEF PartialKnown, OrphansOnDisk, TargetNew, DoneSettled
<1>7. CASE m.deps = << >>
  <2>1. /\ stack' \in Seq(Frame) /\ stack' # << >> /\ Owners' = Owners
        /\ Chained' /\ Distinct' /\ FramesSettled'
    BY <1>1, <1>3, <1>7, Advance
  <2>2. TypeOK'
    BY <1>1, <1>7, <2>1 DEF TypeOK, Running
  <2>3. ClosedBehind'
    <3>1. \A r : r \notin ToSet(m.deps)
      BY <1>7 DEF ToSet
    <3>2. QED
      BY <1>1, <1>5, <2>1, <3>1 DEF ClosedBehind
  <2>4. QED
    BY <1>6, <2>1, <2>2, <2>3
<1>8. CASE m.deps # << >>
  <2> DEFINE f == [owner |-> p, todo |-> m.deps]
  <2>1. f \in Frame
    BY <1>2, <1>4 DEF Frame
  <2>2. stack' = <<f>> \o stack
    BY <1>1, <1>8
  <2>3. f.owner = p /\ f.todo = m.deps
    OBVIOUS
  <2> HIDE DEF f
  <2>4. /\ stack' \in Seq(Frame) /\ Len(stack') = Len(stack) + 1 /\ stack' # << >>
        /\ stack'[1] = f /\ \A i \in 1..Len(stack) : stack'[i + 1] = stack[i]
    BY <1>2, <2>1, <2>2, PushProps
  <2>5. DOMAIN stack = 1..Len(stack) /\ DOMAIN stack' = 1..(Len(stack) + 1) /\ Len(stack) \in Nat \ {0}
    BY <1>2, <2>4
  <2>6. \A i \in DOMAIN stack' : i = 1 \/ (i > 1 /\ i - 1 \in DOMAIN stack /\ stack'[i] = stack[i - 1])
    BY <2>4, <2>5
  <2>7. Owners' = Owners \cup {p}
    BY <2>3, <2>4, <2>5, <2>6, SMTT(30) DEF Owners
  <2>8. TypeOK'
    BY <1>1, <1>8, <2>4 DEF TypeOK, Running
  <2>9. Chained'
    <3>1. \A i \in DOMAIN stack' : stack'[i].owner # Root => deps[stack'[i].owner] \in Checkout
      BY <1>3, <2>3, <2>4, <2>6 DEF Chained
    <3>2. stack'[2].todo # << >> /\ stack'[2].todo[1].name = p
      <4>1. 1 \in 1..Len(stack) /\ 1 + 1 = 2
        BY <2>5
      <4>2. stack'[2] = stack[1]
        BY <2>4, <4>1
      <4>3. QED
        BY <1>1, <4>2 DEF Top, Target
    <3>3. ASSUME NEW i \in DOMAIN stack', i > 2
          PROVE  stack'[i].todo # << >> /\ stack'[i].todo[1].name = stack'[i - 1].owner
      <4>1. i - 1 \in DOMAIN stack /\ i - 1 > 1 /\ stack'[i] = stack[i - 1]
        BY <2>5, <2>6, <3>3
      <4>2. i - 1 \in DOMAIN stack' /\ stack'[i - 1] = stack[(i - 1) - 1]
        BY <2>5, <2>6, <3>3
      <4>3. QED
        BY <4>1, <4>2 DEF Chained
    <3>4. \A i \in DOMAIN stack' : i > 1 =>
             stack'[i].todo # << >> /\ stack'[i].todo[1].name = stack'[i - 1].owner
      BY <2>3, <2>4, <2>5, <3>2, <3>3
    <3>5. stack'[Len(stack')].owner = Root
      BY <1>2, <2>4, <2>5 DEF Chained
    <3>6. QED
      BY <1>1, <3>1, <3>4, <3>5 DEF Chained
  <2>10. Distinct'
    <3>1. \A i \in DOMAIN stack : stack[i].owner # p
      BY <1>3 DEF Owners
    <3>2. QED
      BY <2>3, <2>4, <2>5, <2>6, <3>1 DEF Distinct
  <2>11. FramesSettled'
    <3> SUFFICES ASSUME NEW i \in DOMAIN stack', NEW r \in ToSet(Reqs(stack'[i].owner))
                 PROVE  r \in ToSet(stack'[i].todo) \/ Settled(r)
      BY <1>1, <1>5 DEF FramesSettled, Reqs
    <3>1. CASE i = 1
      BY <3>1, <1>2, <2>3, <2>4, NamesAssumption DEF Reqs
    <3>2. CASE i > 1
      BY <3>2, <2>6 DEF FramesSettled
    <3>3. QED
      BY <3>1, <3>2, <2>6
  <2>12. ClosedBehind'
    BY <1>1, <1>5, <2>7 DEF ClosedBehind
  <2>13. QED
    BY <1>6, <2>8, <2>9, <2>10, <2>11, <2>12
<1>9. QED
  BY <1>7, <1>8

\* A frame that returns has its requirements on disk or in progress.
LEMMA ReturnIInv ==
  ASSUME IInv, Return
  PROVE  IInv'
<1> USE DEF IInv
<1>1. /\ pc = "install" /\ Running /\ Top.todo = << >> /\ deps' = deps /\ project' = project
      /\ commit' = commit /\ orphans' = orphans /\ wd' = "cwd"
      /\ IF Len(stack) = 1
         THEN stack' = << >> /\ pc' = "done"
         ELSE stack' = NextRequirement(Tail(stack)) /\ pc' = pc
  BY DEF Return, ReturnTo, Running
<1>2. stack \in Seq(Frame) /\ stack # << >> /\ DOMAIN stack = 1..Len(stack) /\ Len(stack) \in Nat \ {0}
  BY <1>1, TargetTyped DEF TypeOK
<1>3. \A r : Settled(r) <=> Settled(r)'
  BY <1>1 DEF Settled
<1>4. \A r \in ToSet(Reqs(stack[1].owner)) : Settled(r)
  <2>1. \A r : r \notin ToSet(stack[1].todo)
    BY <1>1 DEF ToSet, Top
  <2>2. QED
    BY <1>2, <2>1 DEF FramesSettled
<1>5. PartialKnown' /\ OrphansOnDisk' /\ TargetNew'
  BY <1>1 DEF PartialKnown, OrphansOnDisk, TargetNew
<1>6. CASE Len(stack) = 1
  <2>1. stack' = << >> /\ pc' = "done" /\ Owners' = {} /\ stack[1].owner = Root /\ Owners \subseteq {Root}
    BY <1>1, <1>2, <1>6 DEF Owners, Chained
  <2>2. TypeOK'
    BY <1>1, <2>1 DEF TypeOK, Running
  <2>3. Chained' /\ Distinct' /\ FramesSettled'
    BY <2>1 DEF Chained, Distinct, FramesSettled
  <2>4. ClosedBehind'
    BY <1>1, <1>3, <2>1, NamesAssumption DEF ClosedBehind
  <2>5. DoneSettled'
    BY <1>1, <1>3, <1>4, <2>1 DEF DoneSettled, Reqs
  <2>6. QED
    BY <1>5, <2>2, <2>3, <2>4, <2>5
<1>7. CASE Len(stack) > 1
  <2> DEFINE s == Tail(stack)
             p == stack[1].owner
  <2>1. /\ s \in Seq(Frame) /\ Len(s) = Len(stack) - 1 /\ s # << >>
        /\ \A i \in 1..Len(s) : s[i] = stack[i + 1]
    <3>1. /\ s \in Seq(Frame) /\ Len(s) = Len(stack) - 1
          /\ \A i \in 1..Len(s) : s[i] = stack[i + 1]
      BY <1>2, HeadTailProperties
    <3> HIDE DEF s
    <3>2. QED
      BY <1>2, <1>7, <3>1
  <2>2. 2 \in DOMAIN stack /\ s[1] = stack[2]
    BY <1>2, <1>7, <2>1
  <2>3. stack[2].todo # << >> /\ stack[2].todo[1].name = p
    BY <2>2 DEF Chained
  <2>4. stack[2].todo \in Seq(Requirement) /\ stack[2].todo[1] \in Requirement
    <3>1. stack[2] \in Frame
      BY <1>2, <2>2
    <3>2. stack[2].todo \in Seq(Requirement)
      BY <3>1 DEF Frame
    <3>3. QED
      BY <2>3, <3>2
  <2>5. p \in Pkg /\ p # Root /\ deps[p] \in Checkout /\ Settled(stack[2].todo[1])
    BY <1>2, <2>3, <2>4, NamesAssumption DEF Requirement, Chained, Settled
  <2>6. /\ stack' \in Seq(Frame) /\ Len(stack') = Len(stack) - 1 /\ stack' # << >>
        /\ stack'[1].owner = stack[2].owner /\ stack'[1].todo = Tail(stack[2].todo)
        /\ \A i \in 2..Len(s) : stack'[i] = s[i]
    <3>1. stack' = NextRequirement(s) /\ s[1].todo # << >>
      BY <1>1, <1>7, <2>2, <2>3
    <3> HIDE DEF s
    <3>2. QED
      BY <2>1, <2>2, <3>1, NextRequirementProps
  <2>7. \A i \in DOMAIN stack' : /\ i + 1 \in DOMAIN stack /\ stack'[i].owner = stack[i + 1].owner
                                 /\ i > 1 => stack'[i] = stack[i + 1]
    BY <1>2, <2>1, <2>2, <2>6
  <2>8. DOMAIN stack' = 1..(Len(stack) - 1)
    BY <2>6
  <2>9. \A q : q \in Owners => q = p \/ q \in Owners'
    <3> SUFFICES ASSUME NEW i \in DOMAIN stack, i # 1
                 PROVE  stack[i].owner \in Owners'
      BY DEF Owners
    <3>1. i - 1 \in DOMAIN stack' /\ (i - 1) + 1 = i
      BY <1>2, <2>8
    <3>2. QED
      BY <2>7, <3>1 DEF Owners
  <2>10. TypeOK'
    BY <1>1, <1>7, <2>6 DEF TypeOK, Running
  <2>11. Chained'
    <3>1. \A i \in DOMAIN stack' : stack'[i].owner # Root => deps[stack'[i].owner] \in Checkout
      BY <2>7 DEF Chained
    <3>2. ASSUME NEW i \in DOMAIN stack', i > 1
          PROVE  stack'[i].todo # << >> /\ stack'[i].todo[1].name = stack'[i - 1].owner
      <4>1. stack'[i] = stack[i + 1] /\ i + 1 \in DOMAIN stack /\ i + 1 > 1
        BY <2>7, <2>8, <3>2
      <4>2. stack[i + 1].todo # << >> /\ stack[i + 1].todo[1].name = stack[(i + 1) - 1].owner
        BY <4>1 DEF Chained
      <4>3. i - 1 \in DOMAIN stack' /\ stack'[i - 1].owner = stack[(i - 1) + 1].owner
        BY <2>7, <2>8, <3>2
      <4>4. (i + 1) - 1 = (i - 1) + 1
        BY <2>8
      <4>5. QED
        BY <4>1, <4>2, <4>3, <4>4
    <3>3. stack'[Len(stack')].owner = Root
      BY <1>2, <1>7, <2>6, <2>7, <2>8 DEF Chained
    <3>4. QED
      BY <1>1, <3>1, <3>2, <3>3 DEF Chained
  <2>12. Distinct'
    <3> SUFFICES ASSUME NEW i \in DOMAIN stack', NEW j \in DOMAIN stack',
                        stack'[i].owner = stack'[j].owner
                 PROVE  i = j
      BY DEF Distinct
    <3>1. i + 1 = j + 1
      BY <2>7 DEF Distinct
    <3>2. QED
      BY <2>8, <3>1
  <2>13. FramesSettled'
    <3> SUFFICES ASSUME NEW i \in DOMAIN stack', NEW r \in ToSet(Reqs(stack[i + 1].owner))
                 PROVE  r \in ToSet(stack'[i].todo) \/ Settled(r)
      BY <1>1, <1>3, <2>7 DEF FramesSettled, Reqs
    <3>1. r \in ToSet(stack[i + 1].todo) \/ Settled(r)
      BY <2>7 DEF FramesSettled
    <3>2. CASE i = 1
      BY <3>1, <3>2, <2>3, <2>4, <2>5, <2>6, TailElements
    <3>3. CASE i > 1
      BY <3>1, <3>3, <2>7
    <3>4. QED
      BY <3>2, <3>3, <2>8
  <2>14. ClosedBehind'
    <3>1. \A r \in ToSet(Manifest[p][deps[p]].deps) : Settled(r)
      BY <1>4, <2>5 DEF Reqs
    <3>2. ASSUME NEW q \in Pkg, deps[q] \in Checkout, q \notin orphans, q \notin Owners'
          PROVE  \A r \in ToSet(Manifest[q][deps[q]].deps) : Settled(r)
      BY <1>1, <2>9, <3>1, <3>2 DEF ClosedBehind
    <3> SUFFICES ASSUME NEW q \in Pkg, deps'[q] \in Checkout, q \notin orphans', q \notin Owners',
                        NEW r \in ToSet(Manifest[q][deps'[q]].deps)
                 PROVE  Settled(r)'
      BY DEF ClosedBehind
    <3>3. QED
      BY <1>1, <1>3, <3>2
  <2>15. DoneSettled'
    BY <1>1, <1>2, <1>7 DEF DoneSettled
  <2>16. QED
    BY <1>5, <2>10, <2>11, <2>12, <2>13, <2>14, <2>15
<1>8. QED
  BY <1>2, <1>6, <1>7

\* What is removed between commands is owed to nobody.
LEMMA CleanIInv ==
  ASSUME IInv, clean
  PROVE  IInv'
<1>1. /\ deps' = [p \in Pkg |-> Absent] /\ orphans' = {} /\ pc' = "idle" /\ ~Running
      /\ project' = project /\ stack' = stack /\ commit' = commit /\ wd' = wd
  BY DEF clean
<1>2. \A p \in Pkg : deps'[p] = Absent
  BY <1>1
<1>3. stack = << >>
  BY <1>1 DEF IInv, TypeOK
<1>4. QED
  BY <1>1, <1>2, <1>3, NamesAssumption
  DEF IInv, TypeOK, Running, Chained, FramesSettled, PartialKnown, ClosedBehind, TargetNew,
      OrphansOnDisk, DoneSettled, Distinct, Absent, Partial

-----------------------------------------------------------------------------
(* The theorems. *)

\* The strengthened invariant holds throughout: every state of the manager, in
\* any sequence of invocations, failures, kills and cleanings.
THEOREM Invariance == Spec => []IInv
<1>1. Init => IInv
  BY InitIInv
<1>2. IInv /\ [Next]_vars => IInv'
  <2> SUFFICES ASSUME IInv, [Next]_vars
               PROVE  IInv'
    OBVIOUS
  <2>1. CASE Invoke
    BY <2>1, InvokeIInv
  <2>2. CASE Skip
    BY <2>2, SkipIInv
  <2>3. CASE Resolve
    BY <2>3, ResolveIInv
  <2>4. CASE CloneStarts \/ CloneSucceeds
    BY <2>4, CloneIInv
  <2>5. CASE ReadManifest
    BY <2>5, ReadManifestIInv
  <2>6. CASE Return
    BY <2>6, ReturnIInv
  <2>7. CASE ResolveFails \/ CloneFails \/ ManifestFails \/ Crash
    BY <2>7, CutShortIInv DEF ResolveFails, CloneFails, ManifestFails, Crash, Running
  <2>8. CASE clean
    BY <2>8, CleanIInv
  <2>9. CASE UNCHANGED vars
    BY <2>9 DEF vars, IInv, TypeOK, Running, Top, Target, Chained, FramesSettled, Reqs, Settled,
       PartialKnown, ClosedBehind, Owners, TargetNew, OrphansOnDisk, DoneSettled, Distinct
  <2>10. QED
    BY <2>1, <2>2, <2>3, <2>4, <2>5, <2>6, <2>7, <2>8, <2>9 DEF Next, Manager
<1>3. QED
  BY <1>1, <1>2, PTL DEF Spec

\* The types of PackageManager's state (its type invariant).
THEOREM TypeCorrect == Spec => []TypeOK
BY Invariance, PTL DEF IInv

\* An invocation that reports success leaves nothing uninstalled except around
\* packages an earlier invocation left half installed.
THEOREM SuccessIsComplete == Spec => []DependenciesInstalled
<1>1. IInv => DependenciesInstalled
  <2> SUFFICES ASSUME IInv, pc = "done",
                      NEW p \in Required(project) \cup UNION {Needs(q) : q \in Installed \ orphans}
               PROVE  p \in orphans \/ deps[p] \in Checkout
    BY DEF DependenciesInstalled
  <2>1. CASE p \in Required(project)
    BY <2>1 DEF Required, IInv, DoneSettled, Settled
  <2>2. CASE \E q \in Installed \ orphans : p \in Needs(q)
    <3>1. PICK q \in Installed \ orphans : p \in Needs(q)
      BY <2>2
    <3>2. q \in Pkg /\ deps[q] \in Checkout /\ p \in Required(Manifest[q][deps[q]].deps)
      BY <3>1 DEF Needs, Installed
    <3>3. Owners = {}
      BY DEF IInv, TypeOK, Running, Owners
    <3>4. QED
      BY <3>1, <3>2, <3>3 DEF IInv, ClosedBehind, Required, Settled
  <2>3. QED
    BY <2>1, <2>2
<1>2. QED
  BY <1>1, Invariance, PTL

\* Cyclic manifests never make install() enter a package it is working on.
THEOREM NoCyclicRecursion == Spec => []NoReentry
<1>1. IInv => NoReentry
  BY DEF IInv, NoReentry, Distinct, TargetNew, Owners
<1>2. QED
  BY <1>1, Invariance, PTL

-----------------------------------------------------------------------------
(* What is checked out *)

\* What may be checked out for p, and that a clone asks for nothing else.
Listed(p, c) == IF Registry[p].array THEN c \in ToSet(Registry[p].versions) ELSE c = Head0
AsksListed == pc = "clone" => Target.name \in Pkg /\ Listed(Target.name, commit)

\* Every step checks out what the version check has let through.
LEMMA ListedStep ==
  ASSUME IInv, IInv', CheckoutListed, AsksListed, [Next]_vars
  PROVE  CheckoutListed' /\ AsksListed'
<1>0. Absent \notin Checkout /\ Partial \notin Checkout /\ deps \in [Pkg -> Checkout \cup {Absent, Partial}]
  BY NamesAssumption DEF IInv, TypeOK
<1>1. CASE Resolve
  <2>1. PICK c \in CommitIds(Target) : commit' = c
    BY <1>1 DEF Resolve
  <2>2. Target \in Requirement /\ Target.name \in Pkg
    BY <1>1, TargetTyped DEF Resolve, Running, IInv
  <2>3. Listed(Target.name, c)
    BY <2>1 DEF CommitIds, Listed
  <2>4. Target' = Target /\ deps' = deps
    BY <1>1 DEF Resolve, Target, Top
  <2> QED
    BY <2>1, <2>2, <2>3, <2>4 DEF CheckoutListed, AsksListed
<1>2. CASE CloneStarts
  <2>1. Target' = Target /\ commit' = commit /\ deps' = [deps EXCEPT ![Target.name] = Partial] /\ pc = "clone"
    BY <1>2 DEF CloneStarts, Target, Top
  <2>2. \A p \in Pkg : deps'[p] \in Checkout => deps'[p] = deps[p]
    BY <1>0, <2>1
  <2> QED
    BY <2>1, <2>2 DEF CheckoutListed, AsksListed
<1>3. CASE CloneSucceeds
  <2>1. deps' = [deps EXCEPT ![Target.name] = commit] /\ pc = "clone" /\ pc' = "manifest"
    BY <1>3 DEF CloneSucceeds
  <2>2. Target.name \in Pkg /\ Listed(Target.name, commit)
    BY <2>1 DEF AsksListed
  <2>3. deps'[Target.name] = commit /\ \A p \in Pkg : p # Target.name => deps'[p] = deps[p]
    BY <1>0, <2>1, <2>2
  <2> QED
    BY <2>1, <2>2, <2>3 DEF CheckoutListed, AsksListed, Listed
<1>4. ASSUME pc' # "clone", \A p \in Pkg : deps'[p] = deps[p] \/ deps'[p] = Absent
      PROVE  CheckoutListed' /\ AsksListed'
  BY <1>0, <1>4 DEF CheckoutListed, AsksListed
<1>5. CASE CloneFails
  <2>1. deps' = [deps EXCEPT ![Target.name] = IF @ = Partial THEN Absent ELSE @] /\ pc' = "failed"
    BY <1>5 DEF CloneFails, CutShort
  <2> QED
    BY <1>0, <1>4, <2>1
<1>6. CASE Invoke \/ Skip \/ ResolveFails \/ ReadManifest \/ ManifestFails \/ Return \/ Crash
  <2>1. pc' # "clone" /\ deps' = deps
    BY <1>6 DEF Invoke, Skip, ResolveFails, CutShort, ReadManifest, ManifestFails, Return, ReturnTo, Crash
  <2> QED
    BY <1>4, <2>1
<1>7. CASE clean
  <2>1. pc' = "idle" /\ \A p \in Pkg : deps'[p] = Absent
    BY <1>7 DEF clean
  <2> QED
    BY <1>4, <2>1
<1>8. CASE UNCHANGED vars
  <2>1. deps' = deps /\ pc' = pc /\ commit' = commit /\ Target' = Target
    BY <1>8 DEF vars, Target, Top
  <2> QED
    BY <2>1 DEF CheckoutListed, AsksListed
<1> QED
  BY <1>1, <1>2, <1>3, <1>5, <1>6, <1>7, <1>8 DEF Next, Manager

\* Whatever was asked for, failed and asked for again, a package is never checked
\* out at a version its registry does not list.
THEOREM ListedIsCheckedOut == Spec => []CheckoutListed
<1>1. Init => CheckoutListed /\ AsksListed
  BY NamesAssumption DEF Init, CheckoutListed, AsksListed
<1>2. IInv /\ IInv' /\ CheckoutListed /\ AsksListed /\ [Next]_vars => CheckoutListed' /\ AsksListed'
  BY ListedStep
<1> QED
  BY <1>1, <1>2, Invariance, PTL DEF Spec
=============================================================================
