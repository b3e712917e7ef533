--------------------------- MODULE ImportsProofs ---------------------------
(***************************************************************************)
(* Imports, proved for every set of programs and every depth: a file goes  *)
(* on in its own context whatever was visited in between, a body sees the  *)
(* names of its own file, and the files are added once and after what they *)
(* import, even when circular imports visit them several times.            *)
(***************************************************************************)
EXTENDS Imports, TLAPS

(* The invariant is stated by operators of the program p, the cache ca, the  *)
(* context c and the stack s, so that one lemma per way the stack changes    *)
(* serves all actions.                                                       *)

IsImportIn(p, f, k) == k \in DOMAIN p[f] /\ p[f][k].op = "import"
BindsIn(p, f, k, scope) ==
  /\ DOMAIN scope = {p[f][i].name : i \in {j \in 1..k : IsImportIn(p, f, j)}}
  /\ \A i \in 1..k : IsImportIn(p, f, i) => scope[p[f][i].name] = Resolve(p[f][i])
DefinitionIn(p, f, fn) == CHOOSE i \in DOMAIN p[f] : p[f][i].op = "fn" /\ p[f][i].name = fn

\* The scope is one that file f has at fn or below it.
SeesFrom(p, f, fn, scope) == \E k \in DefinitionIn(p, f, fn)..Len(p[f]) : BindsIn(p, f, k, scope)

\* How many items of its file the first pass of F has behind it.
Reached(p, F, c) == IF c.generate THEN Len(p[F.file]) ELSE F.at

FileOK(p, ca, F, c) ==
  /\ p[F.file] # <<>> /\ F.file \notin ca
  /\ c.isMain = (F.file[1] = Project)
  /\ BindsIn(p, F.file, Reached(p, F, c), c.scope)
  /\ \A k \in 1..Reached(p, F, c) :
       IsImportIn(p, F.file, k) => Resolve(p[F.file][k]) \in ca \/ p[Resolve(p[F.file][k])] = <<>>
\* The visit F is in order when c is the context it goes on in.
FrameOK(p, ca, F, c) ==
  /\ c.module = F.file
  /\ F.kind = "file" => FileOK(p, ca, F, c)
  /\ F.kind = "body" => c.generate /\ SeesFrom(p, F.file, F.fn, c.scope)

\* The visit F, in context c, has been begun by G, in context F.saved.
Over(p, F, G, c) ==
  /\ F.kind = "file" =>
       /\ G.kind = "file" /\ ~F.saved.generate
       /\ IsImportIn(p, G.file, G.at + 1)
       /\ Resolve(p[G.file][G.at + 1]) = F.file
       /\ F.name = p[G.file][G.at + 1].name /\ F.name \notin DOMAIN F.saved.scope
  /\ F.kind = "body" => F.saved.generate /\ c.isMain = F.saved.isMain

ContextOf(c, s, i) == IF i = 1 THEN c ELSE s[i - 1].saved
StackOK(p, ca, c, s) ==
  /\ \A i \in 1..Len(s) : FrameOK(p, ca, s[i], ContextOf(c, s, i))
  /\ \A i \in 1..Len(s) : i < Len(s) => Over(p, s[i], s[i + 1], ContextOf(c, s, i))
  /\ \A i, j \in 1..Len(s) : i <= j /\ s[i].kind = "file" => s[j].kind = "file"
  /\ s[Len(s)].kind = "file"

\* ImportsFirst, of any program and list of modules.
FirstIn(p, ms) ==
  \A i \in DOMAIN ms : \A g \in DOMAIN p : \A k :
    IsImportIn(p, ms[i], k) /\ Resolve(p[ms[i]][k]) = g /\ p[g] # <<>> => \E j \in 1..(i - 1) : ms[j] = g

StatesOK ==
  \A x \in DOMAIN states : SeesFrom(program, x[1], x[2], states[x])
CacheOK == cache = {modules[i] : i \in DOMAIN modules}
NoneTwice == \A i, j \in DOMAIN modules : modules[i] = modules[j] => i = j
IInv ==
  /\ TypeOK /\ program \in Programs
  /\ StackOK(program, cache, ctx, stack)
  /\ StatesOK /\ CacheOK /\ NoneTwice /\ ImportsFirst

-----------------------------------------------------------------------------
(* Scopes *)

\* Before its first item a file has no names.
LEMMA BindsNothing ==
  ASSUME NEW p, NEW f
  PROVE  BindsIn(p, f, 0, NoNames)
BY DEF BindsIn, NoNames

\* The import at k + 1 adds its name.
LEMMA BindsImport ==
  ASSUME NEW p, NEW f, NEW k \in Nat, NEW scope, BindsIn(p, f, k, scope),
         IsImportIn(p, f, k + 1), p[f][k + 1].name \notin DOMAIN scope
  PROVE  BindsIn(p, f, k + 1, Bind(scope, p[f][k + 1].name, Resolve(p[f][k + 1])))
<1> DEFINE name == p[f][k + 1].name
           new == Bind(scope, name, Resolve(p[f][k + 1]))
<1>1. DOMAIN new = DOMAIN scope \cup {name}
  BY DEF Bind
<1>2. {j \in 1..(k + 1) : IsImportIn(p, f, j)} = {j \in 1..k : IsImportIn(p, f, j)} \cup {k + 1}
  OBVIOUS
<1>3. DOMAIN new = {p[f][i].name : i \in {j \in 1..(k + 1) : IsImportIn(p, f, j)}}
  BY <1>1, <1>2, ZenonT(60) DEF BindsIn
<1>4. ASSUME NEW i \in 1..(k + 1), IsImportIn(p, f, i)
      PROVE  new[p[f][i].name] = Resolve(p[f][i])
  <2>1. CASE i = k + 1
    BY <2>1 DEF Bind
  <2>2. CASE i \in 1..k
    <3>1. p[f][i].name \in DOMAIN scope
      BY <2>2, <1>4 DEF BindsIn
    <3>2. scope[p[f][i].name] = Resolve(p[f][i])
      BY <2>2, <1>4 DEF BindsIn
    <3> QED BY <3>1, <3>2 DEF Bind
  <2> QED BY <2>1, <2>2
<1> QED BY <1>3, <1>4 DEF BindsIn

\* Any other item adds none.
LEMMA BindsOther ==
  ASSUME NEW p, NEW f, NEW k \in Nat, NEW scope, BindsIn(p, f, k, scope), ~IsImportIn(p, f, k + 1)
  PROVE  BindsIn(p, f, k + 1, scope)
<1>1. {j \in 1..(k + 1) : IsImportIn(p, f, j)} = {j \in 1..k : IsImportIn(p, f, j)}
  OBVIOUS
<1>2. \A i \in 1..(k + 1) : IsImportIn(p, f, i) => i \in 1..k
  OBVIOUS
<1> QED BY <1>1, <1>2, Zenon DEF BindsIn

-----------------------------------------------------------------------------
(* Programs *)

\* What is known of a text and of its items.
LEMMA ItemType ==
  ASSUME NEW p \in Programs, NEW f \in DOMAIN p
  PROVE  /\ f \in File /\ f = <<f[1], f[2]>> /\ IsText(p[f]) /\ Len(p[f]) \in Nat /\ DOMAIN p[f] = 1..Len(p[f])
         /\ \A i \in DOMAIN p[f] : p[f][i] \in ImportStmts \cup FunctionDefs
<1>1. f \in File /\ IsText(p[f])
  BY ProgramsAssumption
<1>2. p[f] \in Seq(ImportStmts \cup FunctionDefs)
  BY <1>1 DEF IsText
<1> QED BY <1>1, <1>2 DEF File

\* An import statement names a package, a path and the name it binds.
LEMMA ImportType ==
  ASSUME NEW p \in Programs, NEW f \in DOMAIN p, NEW i \in DOMAIN p[f], p[f][i].op = "import"
  PROVE  p[f][i].package \in (Package \ {Project}) \cup {"pkg"} /\ p[f][i].path \in Path /\ p[f][i].name \in Name
<1>1. p[f][i] \in ImportStmts
  BY ItemType DEF FunctionDefs
<1> QED BY <1>1 DEF ImportStmts

\* A function's definition in its file is where it is written, the only one of that name.
LEMMA FunctionType ==
  ASSUME NEW p \in Programs, NEW f \in DOMAIN p, NEW i \in DOMAIN p[f], p[f][i].op = "fn"
  PROVE  p[f][i].name \in FnName /\ DefinitionIn(p, f, p[f][i].name) = i
<1>1. p[f][i] \in FunctionDefs
  BY ItemType DEF ImportStmts
<1>2. \A j \in DOMAIN p[f] : p[f][j].op = "fn" /\ p[f][j].name = p[f][i].name => j = i
  BY ItemType DEF IsText
<1>3. DefinitionIn(p, f, p[f][i].name) = i
  BY <1>2 DEF DefinitionIn
<1> QED BY <1>1, <1>3 DEF FunctionDefs

-----------------------------------------------------------------------------
(* Stacks *)

\* A visit F is begun by the innermost one.
LEMMA PushOK ==
  ASSUME NEW p, NEW ca, NEW c, NEW X, NEW s \in Seq(X), s # <<>>, StackOK(p, ca, c, s),
         NEW F \in X, NEW d, F.saved = c, FrameOK(p, ca, F, d), Over(p, F, s[1], d)
  PROVE  StackOK(p, ca, d, <<F>> \o s)
<1> DEFINE t == <<F>> \o s
<1>1. /\ Len(s) \in Nat /\ Len(s) >= 1 /\ Len(t) = Len(s) + 1 /\ t[1] = F
      /\ \A i \in 1..Len(t) : i # 1 => t[i] = s[i - 1] /\ i - 1 \in 1..Len(s)
  OBVIOUS
<1>2. \A i \in 1..Len(t) : i # 1 => ContextOf(d, t, i) = ContextOf(c, s, i - 1)
  <2> TAKE i \in 1..Len(t)
  <2> HAVE i # 1
  <2>1. CASE i = 2
    BY <2>1, <1>1 DEF ContextOf
  <2>2. CASE i # 2
    <3>1. t[i - 1] = s[i - 2]
      BY <2>2, <1>1
    <3> QED BY <2>2, <3>1, <1>1 DEF ContextOf
  <2> QED BY <2>1, <2>2
<1>3. ContextOf(d, t, 1) = d
  BY DEF ContextOf
<1>4. \A i \in 1..Len(t) : FrameOK(p, ca, t[i], ContextOf(d, t, i))
  <2> TAKE i \in 1..Len(t)
  <2>1. CASE i = 1
    BY <2>1, <1>1, <1>3
  <2>2. CASE i # 1
    BY <2>2, <1>1, <1>2 DEF StackOK
  <2> QED BY <2>1, <2>2
<1>5. \A i \in 1..Len(t) : i < Len(t) => Over(p, t[i], t[i + 1], ContextOf(d, t, i))
  <2> TAKE i \in 1..Len(t)
  <2> HAVE i < Len(t)
  <2>1. CASE i = 1
    <3>1. t[i + 1] = s[1]
      BY <2>1, <1>1
    <3> QED BY <2>1, <3>1, <1>1, <1>3
  <2>2. CASE i # 1
    <3>1. t[i] = s[i - 1] /\ t[i + 1] = s[(i - 1) + 1] /\ i - 1 \in 1..Len(s) /\ i - 1 < Len(s)
      BY <2>2, <1>1
    <3>2. Over(p, s[i - 1], s[(i - 1) + 1], ContextOf(c, s, i - 1))
      BY <3>1 DEF StackOK
    <3> QED BY <2>2, <3>1, <3>2, <1>2
  <2> QED BY <2>1, <2>2
<1>6. \A i, j \in 1..Len(t) : i <= j /\ t[i].kind = "file" => t[j].kind = "file"
  <2> TAKE i, j \in 1..Len(t)
  <2> HAVE i <= j /\ t[i].kind = "file"
  <2>1. CASE i = 1
    <3>1. \A m \in 1..Len(s) : s[m].kind = "file"
      BY <2>1, <1>1 DEF Over, StackOK
    <3> QED BY <2>1, <3>1, <1>1
  <2>2. CASE i # 1
    BY <2>2, <1>1 DEF StackOK
  <2> QED BY <2>1, <2>2
<1>7. t[Len(t)].kind = "file"
  BY <1>1 DEF StackOK
<1> QED BY <1>4, <1>5, <1>6, <1>7 DEF StackOK

\* The innermost visit goes on, as F and in another context.
LEMMA TopOK ==
  ASSUME NEW p, NEW ca, NEW c, NEW X, NEW s \in Seq(X), s # <<>>, StackOK(p, ca, c, s),
         NEW F \in X, NEW d, F.saved = s[1].saved, F.kind = s[1].kind, FrameOK(p, ca, F, d),
         Len(s) > 1 => Over(p, F, s[2], d)
  PROVE  StackOK(p, ca, d, [s EXCEPT ![1] = F])
<1> DEFINE t == [s EXCEPT ![1] = F]
<1>1. /\ Len(s) \in Nat /\ Len(s) >= 1 /\ Len(t) = Len(s) /\ t[1] = F
      /\ \A i \in 1..Len(t) : i # 1 => t[i] = s[i]
  OBVIOUS
<1>2. \A i \in 1..Len(t) : t[i].saved = s[i].saved /\ t[i].kind = s[i].kind
  BY <1>1
<1>3. \A i \in 1..Len(t) : ContextOf(d, t, i) = IF i = 1 THEN d ELSE ContextOf(c, s, i)
  <2> TAKE i \in 1..Len(t)
  <2>1. CASE i = 1
    BY <2>1 DEF ContextOf
  <2>2. CASE i # 1
    <3>1. i - 1 \in 1..Len(t)
      BY <2>2, <1>1
    <3> QED BY <2>2, <3>1, <1>2 DEF ContextOf
  <2> QED BY <2>1, <2>2
<1>4. \A i \in 1..Len(t) : FrameOK(p, ca, t[i], ContextOf(d, t, i))
  BY <1>1, <1>3 DEF StackOK
<1>5. \A i \in 1..Len(t) : i < Len(t) => Over(p, t[i], t[i + 1], ContextOf(d, t, i))
  <2> TAKE i \in 1..Len(t)
  <2> HAVE i < Len(t)
  <2>1. CASE i = 1
    <3>1. t[i + 1] = s[2] /\ Len(s) > 1
      BY <2>1, <1>1
    <3> QED BY <2>1, <3>1, <1>1, <1>3
  <2>2. CASE i # 1
    <3>1. t[i] = s[i] /\ t[i + 1] = s[i + 1]
      BY <2>2, <1>1
    <3> QED BY <2>2, <3>1, <1>1, <1>3 DEF StackOK
  <2> QED BY <2>1, <2>2
<1>6. \A i, j \in 1..Len(t) : i <= j /\ t[i].kind = "file" => t[j].kind = "file"
  BY <1>1, <1>2 DEF StackOK
<1>7. t[Len(t)].kind = "file"
  BY <1>1, <1>2 DEF StackOK
<1> QED BY <1>4, <1>5, <1>6, <1>7 DEF StackOK

\* The innermost visit ends.
LEMMA PopOK ==
  ASSUME NEW p, NEW ca, NEW c, NEW X, NEW s \in Seq(X), Len(s) > 1, StackOK(p, ca, c, s)
  PROVE  StackOK(p, ca, s[1].saved, Tail(s)) /\ Tail(s) \in Seq(X) /\ Tail(s) # <<>> /\ Tail(s)[1] = s[2]
<1> DEFINE t == Tail(s)
           d == s[1].saved
<1>1. /\ Len(s) \in Nat /\ Len(t) = Len(s) - 1 /\ t \in Seq(X) /\ Len(t) >= 1
      /\ \A i \in 1..Len(t) : t[i] = s[i + 1] /\ i + 1 \in 1..Len(s)
  OBVIOUS
<1>2. \A i \in 1..Len(t) : ContextOf(d, t, i) = ContextOf(c, s, i + 1)
  <2> TAKE i \in 1..Len(t)
  <2>1. CASE i = 1
    BY <2>1 DEF ContextOf
  <2>2. CASE i # 1
    <3>1. t[i - 1] = s[i]
      BY <2>2, <1>1
    <3> QED BY <2>2, <3>1 DEF ContextOf
  <2> QED BY <2>1, <2>2
<1>3. \A i \in 1..Len(t) : FrameOK(p, ca, t[i], ContextOf(d, t, i))
  BY <1>1, <1>2 DEF StackOK
<1>4. \A i \in 1..Len(t) : i < Len(t) => Over(p, t[i], t[i + 1], ContextOf(d, t, i))
  <2> TAKE i \in 1..Len(t)
  <2> HAVE i < Len(t)
  <2>1. t[i] = s[i + 1] /\ t[i + 1] = s[(i + 1) + 1] /\ i + 1 < Len(s)
    BY <1>1
  <2>2. Over(p, s[i + 1], s[(i + 1) + 1], ContextOf(c, s, i + 1))
    BY <2>1, <1>1 DEF StackOK
  <2> QED BY <2>1, <2>2, <1>2
<1>5. \A i, j \in 1..Len(t) : i <= j /\ t[i].kind = "file" => t[j].kind = "file"
  BY <1>1 DEF StackOK
<1>6. t[Len(t)].kind = "file"
  BY <1>1 DEF StackOK
<1>7. t # <<>> /\ t[1] = s[2]
  <2>1. t[1] = s[1 + 1]
    BY <1>1
  <2>2. t # <<>>
    <3>1. Len(t) # 0
      BY <1>1
    <3>2. Len(<<>>) = 0
      OBVIOUS
    <3> QED BY <3>1, <3>2, Zenon
  <2> QED BY <2>1, <2>2
<1>8. StackOK(p, ca, d, t)
  BY <1>3, <1>4, <1>5, <1>6 DEF StackOK
<1> QED BY <1>1, <1>7, <1>8

\* A file that none of the visits is of is added to the cache.
LEMMA CacheGrows ==
  ASSUME NEW p, NEW ca, NEW c, NEW s, StackOK(p, ca, c, s), NEW f,
         \A i \in 1..Len(s) : s[i].kind = "file" => s[i].file # f
  PROVE  StackOK(p, ca \cup {f}, c, s)
<1>1. \A i \in 1..Len(s) : FrameOK(p, ca \cup {f}, s[i], ContextOf(c, s, i))
  BY DEF StackOK, FrameOK, FileOK
<1> QED BY <1>1 DEF StackOK

\* A file that has been passed over has no other visit in progress: the import
\* that visit is at would be of a file in the cache, or empty.
LEMMA NotOpenTwice ==
  ASSUME NEW p, NEW ca, NEW c, NEW s, Len(s) \in Nat, Len(s) >= 1, StackOK(p, ca, c, s),
         s[1].kind = "file", c.generate, DOMAIN p[s[1].file] = 1..Len(p[s[1].file])
  PROVE  \A i \in 1..Len(s) : i # 1 => s[i].file # s[1].file
<1> SUFFICES ASSUME NEW i \in 1..Len(s), i # 1, s[i].file = s[1].file
             PROVE  FALSE
  OBVIOUS
<1>1. i - 1 \in 1..Len(s) /\ (i - 1) + 1 = i /\ i - 1 < Len(s)
  OBVIOUS
<1>2. s[i - 1].kind = "file"
  BY <1>1 DEF StackOK
<1>3. Over(p, s[i - 1], s[i], ContextOf(c, s, i - 1))
  BY <1>1 DEF StackOK
<1>4. FileOK(p, ca, s[i - 1], ContextOf(c, s, i - 1))
  BY <1>1, <1>2 DEF StackOK, FrameOK
<1>5. /\ IsImportIn(p, s[1].file, s[i].at + 1)
      /\ Resolve(p[s[1].file][s[i].at + 1]) = s[i - 1].file
  BY <1>2, <1>3 DEF Over
<1>6. FrameOK(p, ca, s[1], c)
  BY DEF StackOK, ContextOf
<1>7. \A k \in 1..Len(p[s[1].file]) : IsImportIn(p, s[1].file, k) =>
        Resolve(p[s[1].file][k]) \in ca \/ p[Resolve(p[s[1].file][k])] = <<>>
  BY <1>6 DEF FrameOK, FileOK, Reached
<1>8. s[i - 1].file \in ca \/ p[s[i - 1].file] = <<>>
  BY <1>5, <1>7 DEF IsImportIn
<1> QED BY <1>4, <1>8 DEF FileOK

\* Advanced changes nothing but how far the innermost visit is.
LEMMA AdvancedVisit ==
  ASSUME NEW F \in Visit
  PROVE  LET G == [F EXCEPT !.at = @ + 1]
         IN  /\ G \in Visit /\ G.at = F.at + 1 /\ G.kind = F.kind /\ G.file = F.file
             /\ G.fn = F.fn /\ G.name = F.name /\ G.saved = F.saved
BY DEF Visit

\* The innermost visit goes on to its next item: the stack stays in order if its frame does.
LEMMA AdvanceOK ==
  ASSUME NEW p, NEW ca, NEW c, NEW s \in Seq(Visit), s # <<>>, StackOK(p, ca, c, s),
         NEW d, d.isMain = c.isMain, FrameOK(p, ca, [s[1] EXCEPT !.at = @ + 1], d)
  PROVE  StackOK(p, ca, d, Advanced(s)) /\ Advanced(s) \in Seq(Visit) /\ Advanced(s) # <<>>
<1> DEFINE F == [s[1] EXCEPT !.at = @ + 1]
<1>1. s[1] \in Visit /\ Len(s) \in Nat /\ Len(s) >= 1
  OBVIOUS
<1>2. /\ F \in Visit /\ F.kind = s[1].kind /\ F.file = s[1].file
      /\ F.name = s[1].name /\ F.saved = s[1].saved
  BY <1>1, AdvancedVisit
<1>3. Advanced(s) = [s EXCEPT ![1] = F]
  BY DEF Advanced
<1>4. ASSUME Len(s) > 1
      PROVE  Over(p, F, s[2], d)
  <2>1. Over(p, s[1], s[2], c)
    BY <1>4, <1>1 DEF StackOK, ContextOf
  <2> QED BY <2>1, <1>2 DEF Over
<1>5. StackOK(p, ca, d, [s EXCEPT ![1] = F])
  BY <1>1, <1>2, <1>4, TopOK
<1> QED BY <1>1, <1>2, <1>3, <1>5

\* In the second pass, and in a body, that is all there is to it.
LEMMA AdvanceSame ==
  ASSUME NEW p, NEW ca, NEW c, NEW s \in Seq(Visit), s # <<>>, StackOK(p, ca, c, s),
         s[1].kind = "body" \/ c.generate
  PROVE  StackOK(p, ca, c, Advanced(s)) /\ Advanced(s) \in Seq(Visit) /\ Advanced(s) # <<>>
<1> DEFINE F == [s[1] EXCEPT !.at = @ + 1]
<1>1. s[1] \in Visit
  OBVIOUS
<1>2. F.kind = s[1].kind /\ F.file = s[1].file /\ F.fn = s[1].fn
  BY <1>1, AdvancedVisit
<1>3. FrameOK(p, ca, s[1], c)
  BY DEF StackOK, ContextOf
<1>4. FrameOK(p, ca, F, c)
  BY <1>2, <1>3 DEF FrameOK, FileOK, Reached
<1> QED BY <1>4, AdvanceOK

-----------------------------------------------------------------------------
(* Steps *)

Rest == StatesOK /\ CacheOK /\ NoneTwice /\ ImportsFirst

\* What is said of files and the cache stays while these do.
LEMMA RestSame ==
  ASSUME IInv, UNCHANGED <<program, cache, modules, states>>
  PROVE  Rest'
BY DEF IInv, Rest, StatesOK, CacheOK, NoneTwice, ImportsFirst, Imported, IsImport, Text

\* The main file is visited first, nothing is in the cache.
LEMMA InitOK == Init => IInv
<1> SUFFICES ASSUME Init PROVE IInv
  OBVIOUS
<1> DEFINE F == Frame("file", MainFile, Local, Local)
<1>1. program \in Programs /\ MainFile \in DOMAIN program /\ program[MainFile] # <<>>
  BY ProgramsAssumption DEF Init
<1>2. NoNames \in Scope
  BY DEF Scope, NoNames
<1>3. ctx \in Context
  BY <1>1, <1>2 DEF Init, Context
<1>4. F \in Visit
  BY <1>1, <1>3 DEF Frame, Visit
<1>5. TypeOK
  BY <1>3, <1>4 DEF Init, TypeOK
<1>6. F.kind = "file" /\ F.file = MainFile /\ F.at = 0
  BY DEF Frame
<1>7. FrameOK(program, cache, F, ctx)
  <2>1. MainFile[1] = Project
    BY DEF MainFile
  <2>2. Reached(program, F, ctx) = 0
    BY <1>6 DEF Init, Reached
  <2>3. BindsIn(program, MainFile, 0, ctx.scope)
    BY BindsNothing DEF Init
  <2>4. FileOK(program, cache, F, ctx)
    <3> HIDE DEF F
    <3>1. ctx.isMain = (F.file[1] = Project)
      BY <1>6, <2>1 DEF Init
    <3>2. BindsIn(program, F.file, Reached(program, F, ctx), ctx.scope)
      BY <1>6, <2>2, <2>3
    <3>3. \A k \in 1..Reached(program, F, ctx) : FALSE
      BY <2>2
    <3>4. program[F.file] # <<>> /\ F.file \notin cache
      BY <1>1, <1>6 DEF Init
    <3> QED BY <3>1, <3>2, <3>3, <3>4 DEF FileOK
  <2> QED BY <1>6, <2>4 DEF Init, FrameOK
<1>8. StackOK(program, cache, ctx, stack)
  <2>1. stack = <<F>> /\ Len(stack) = 1 /\ stack[1] = F
    BY DEF Init
  <2> QED BY <1>6, <1>7, <2>1 DEF StackOK, ContextOf
<1>9. StatesOK /\ CacheOK /\ NoneTwice /\ ImportsFirst
  BY DEF Init, StatesOK, CacheOK, NoneTwice, ImportsFirst
<1> QED BY <1>1, <1>5, <1>8, <1>9 DEF IInv

\* The innermost visit, and what IInv says of it.
LEMMA TopFacts ==
  ASSUME IInv
  PROVE  /\ stack \in Seq(Visit) /\ stack # <<>> /\ Len(stack) \in Nat /\ Len(stack) >= 1 /\ Top \in Visit
         /\ Top.file \in DOMAIN program /\ FrameOK(program, cache, Top, ctx)
         /\ ctx \in Context /\ Top.saved \in Context
<1>1. stack \in Seq(Visit) /\ stack # <<>>
  BY DEF IInv, TypeOK
<1>2. Len(stack) \in Nat /\ Len(stack) >= 1 /\ Top \in Visit
  BY <1>1 DEF Top
<1>3. FrameOK(program, cache, Top, ctx)
  BY <1>2 DEF IInv, StackOK, ContextOf, Top
<1> QED BY <1>1, <1>2, <1>3 DEF IInv, TypeOK, Visit

\* Steps that leave everything but how far the innermost visit is.
LEMMA AdvanceStep ==
  ASSUME IInv, Advance, UNCHANGED <<program, ctx, cache, modules, status>>,
         states' = states, Top.kind = "body" \/ ctx.generate
  PROVE  IInv'
<1>1. /\ StackOK(program, cache, ctx, Advanced(stack))
      /\ Advanced(stack) \in Seq(Visit) /\ Advanced(stack) # <<>>
  BY TopFacts, AdvanceSame DEF IInv, Top
<1>2. StackOK(program, cache, ctx, stack)'
  BY <1>1 DEF Advance
<1>3. TypeOK'
  BY <1>1 DEF IInv, TypeOK, Advance, Visit, Context, Scope
<1> QED BY <1>2, <1>3, RestSame DEF IInv, Rest

\* The item the innermost visit is at.
LEMMA ItemFacts ==
  ASSUME IInv, NEW op, AtItem(op)
  PROVE  /\ Top.kind = "file" /\ FileOK(program, cache, Top, ctx) /\ Top.at \in Nat
         /\ Top.at + 1 \in DOMAIN program[Top.file] /\ Item = program[Top.file][Top.at + 1] /\ Item.op = op
<1>1. Top.kind = "file" /\ Top.at < Len(program[Top.file]) /\ Item.op = op
  BY DEF AtItem, InFile, Text
<1>2. Top.file \in DOMAIN program /\ Top.at \in Nat /\ FrameOK(program, cache, Top, ctx)
  BY TopFacts DEF Visit
<1>3. Len(program[Top.file]) \in Nat /\ DOMAIN program[Top.file] = 1..Len(program[Top.file])
  BY <1>2, ItemType DEF IInv
<1>4. Item = program[Top.file][Top.at + 1]
  BY DEF Item, Text
<1> QED BY <1>1, <1>2, <1>3, <1>4 DEF FrameOK

\* What the import at which the visit stands binds, and the file that it resolves to.
LEMMA ImportFacts ==
  ASSUME IInv, AtImport, Exists(Item)
  PROVE  /\ IsImportIn(program, Top.file, Top.at + 1)
         /\ Item.name \in Name /\ Resolve(Item) \in DOMAIN program
         /\ (Item.package = "pkg") = (Resolve(Item)[1] = Project)
<1>1. AtItem("import")
  BY DEF AtImport
<1>2. Top.file \in DOMAIN program /\ program \in Programs
  BY TopFacts DEF IInv
<1>3. Item.package \in (Package \ {Project}) \cup {"pkg"} /\ Item.name \in Name
  BY <1>1, <1>2, ItemFacts, ImportType
<1>4. Resolve(Item)[1] = IF Item.package = "pkg" THEN Project ELSE Item.package
  BY DEF Resolve
<1> QED BY <1>1, <1>3, <1>4, ItemFacts DEF Exists, IsImportIn

\* Bind adds a name to a scope of the right type.
LEMMA BindType ==
  ASSUME NEW scope \in Scope, NEW name \in Name, NEW f \in DOMAIN program
  PROVE  Bind(scope, name, f) \in Scope
<1>1. PICK names \in SUBSET Name : scope \in [names -> DOMAIN program]
  BY DEF Scope
<1>2. Bind(scope, name, f) \in [names \cup {name} -> DOMAIN program]
  BY <1>1 DEF Bind
<1> QED BY <1>2 DEF Scope

\* A first pass that goes on past its item, in the same scope or with one more name.
LEMMA PassItem ==
  ASSUME IInv, NEW ca, NEW d, NEW op, AtItem(op), ~ctx.generate,
         d.module = ctx.module, d.isMain = ctx.isMain, d.generate = ctx.generate,
         BindsIn(program, Top.file, Top.at + 1, d.scope),
         op = "import" => Resolve(Item) \in ca \/ program[Resolve(Item)] = <<>>,
         cache \subseteq ca, Top.file \notin ca
  PROVE  FrameOK(program, ca, [Top EXCEPT !.at = @ + 1], d)
<1> DEFINE F == [Top EXCEPT !.at = @ + 1]
<1>1. /\ F.at = Top.at + 1 /\ F.kind = "file" /\ F.file = Top.file /\ Top.at \in Nat
      /\ Item = program[Top.file][Top.at + 1] /\ Item.op = op
  BY TopFacts, ItemFacts, AdvancedVisit
<1>2. FileOK(program, cache, Top, ctx) /\ d.module = F.file
  BY <1>1, TopFacts, ItemFacts DEF FrameOK
<1>3. Reached(program, F, d) = Top.at + 1 /\ Reached(program, Top, ctx) = Top.at
  BY <1>1 DEF Reached
<1>4. ASSUME NEW k \in 1..(Top.at + 1), IsImportIn(program, Top.file, k)
      PROVE  Resolve(program[Top.file][k]) \in ca \/ program[Resolve(program[Top.file][k])] = <<>>
  <2>1. CASE k = Top.at + 1
    BY <2>1, <1>1, <1>4 DEF IsImportIn
  <2>2. CASE k \in 1..Top.at
    BY <2>2, <1>2, <1>3, <1>4 DEF FileOK
  <2> QED BY <2>1, <2>2, <1>1
<1>5. FileOK(program, ca, F, d)
  BY <1>1, <1>2, <1>3, <1>4 DEF FileOK
<1> QED BY <1>1, <1>2, <1>5 DEF FrameOK

\* An import of a file in the cache, or of an empty one, binds its name and goes on.
LEMMA ImportAtOnceOK == IInv /\ ImportAtOnce => IInv'
<1> SUFFICES ASSUME IInv, ImportAtOnce PROVE IInv'
  OBVIOUS
<1>1. AtImport /\ Exists(Item) /\ AtItem("import") /\ ~ctx.generate
  BY DEF ImportAtOnce, AtImport
<1> DEFINE d == [ctx EXCEPT !.scope = Bind(@, Item.name, Resolve(Item))]
<1>2. ctx \in Context
  BY TopFacts
<1>3. /\ d.module = ctx.module /\ d.isMain = ctx.isMain /\ d.generate = ctx.generate
      /\ d.scope = Bind(ctx.scope, Item.name, Resolve(Item))
  BY <1>2 DEF Context
<1>4. d \in Context
  BY <1>1, <1>2, ImportFacts, BindType DEF Context
<1>5. BindsIn(program, Top.file, Top.at + 1, d.scope)
  <2>1. FileOK(program, cache, Top, ctx) /\ Top.at \in Nat /\ Item = program[Top.file][Top.at + 1]
    BY <1>1, ItemFacts
  <2>2. BindsIn(program, Top.file, Top.at, ctx.scope)
    BY <1>1, <2>1 DEF FileOK, Reached
  <2>3. Item.name \notin DOMAIN ctx.scope
    BY DEF ImportAtOnce, Clashes, Names
  <2> QED BY <1>1, <1>3, <2>1, <2>2, <2>3, ImportFacts, BindsImport
<1>6. FrameOK(program, cache, [Top EXCEPT !.at = @ + 1], d)
  <2>1. Resolve(Item) \in cache \/ program[Resolve(Item)] = <<>>
    BY DEF ImportAtOnce, Text
  <2>2. Top.file \notin cache
    BY <1>1, ItemFacts DEF FileOK
  <2> QED BY <1>1, <1>3, <1>5, <2>1, <2>2, PassItem
<1>7. StackOK(program, cache, d, Advanced(stack)) /\ Advanced(stack) \in Seq(Visit) /\ Advanced(stack) # <<>>
  BY <1>3, <1>6, TopFacts, AdvanceOK DEF IInv, Top
<1>8. stack' = Advanced(stack) /\ ctx' = d
  BY DEF ImportAtOnce, Advance
<1>9. StackOK(program, cache, ctx, stack)'
  BY <1>7, <1>8 DEF ImportAtOnce
<1>10. TypeOK'
  BY <1>4, <1>7, <1>8 DEF IInv, TypeOK, ImportAtOnce, Visit, Context, Scope
<1> QED BY <1>9, <1>10, RestSame DEF IInv, Rest, ImportAtOnce

\* A visit F is begun from the innermost one, in the context d.
LEMMA PushStep ==
  ASSUME IInv, NEW F \in Visit, NEW d \in Context, F.saved = ctx,
         FrameOK(program, cache, F, d), Over(program, F, Top, d),
         Push(F), ctx' = d, UNCHANGED <<program, cache, modules, states, status>>
  PROVE  IInv'
<1>1. StackOK(program, cache, d, <<F>> \o stack)
  BY TopFacts, PushOK DEF IInv, Top
<1>2. StackOK(program, cache, ctx, stack)'
  BY <1>1 DEF Push
<1>3. <<F>> \o stack \in Seq(Visit) /\ <<F>> \o stack # <<>>
  BY TopFacts
<1>4. TypeOK'
  BY <1>3 DEF IInv, TypeOK, Push, Visit, Context, Scope
<1> QED BY <1>2, <1>4, RestSame DEF IInv, Rest

\* The first import of a file begins the visit of that file.
LEMMA ImportEntersOK == IInv /\ ImportEnters => IInv'
<1> SUFFICES ASSUME IInv, ImportEnters PROVE IInv'
  OBVIOUS
<1>1. AtImport /\ Exists(Item) /\ AtItem("import") /\ ~ctx.generate /\ ~Clashes(Item)
  BY DEF ImportEnters, AtImport
<1> DEFINE F == Frame("file", Resolve(Item), Local, Item.name)
           d == EntersContext
<1>2. /\ F.kind = "file" /\ F.file = Resolve(Item) /\ F.at = 0 /\ F.saved = ctx /\ F.name = Item.name
  BY DEF Frame
<1>3. F \in Visit
  BY <1>1, TopFacts, ImportFacts DEF Frame, Visit
<1>4. /\ d.scope = NoNames /\ d.module = Resolve(Item) /\ d.isMain = (Item.package = "pkg") /\ d.generate = FALSE
  BY DEF EntersContext
<1>5. d \in Context
  <2>1. NoNames \in Scope
    BY DEF Scope, NoNames
  <2> QED BY <1>1, <2>1, ImportFacts DEF EntersContext, Context
<1>6. FrameOK(program, cache, F, d)
  <2>1. Reached(program, F, d) = 0
    BY <1>2, <1>4 DEF Reached
  <2>2. BindsIn(program, F.file, Reached(program, F, d), d.scope)
    BY <1>4, <2>1, BindsNothing
  <2>3. \A k \in 1..Reached(program, F, d) : FALSE
    BY <2>1
  <2>4. d.isMain = (F.file[1] = Project)
    BY <1>1, <1>2, <1>4, ImportFacts
  <2>5. program[F.file] # <<>> /\ F.file \notin cache
    BY <1>2 DEF ImportEnters, Text
  <2>6. FileOK(program, cache, F, d)
    BY <2>2, <2>3, <2>4, <2>5 DEF FileOK
  <2> QED BY <1>2, <1>4, <2>6 DEF FrameOK
<1>7. Over(program, F, Top, d)
  <2>1. Item.name \notin DOMAIN ctx.scope
    BY <1>1 DEF Clashes, Names
  <2> QED BY <1>1, <1>2, <2>1, ItemFacts, ImportFacts DEF Over
<1>8. Push(F) /\ ctx' = d
  BY DEF ImportEnters
<1> QED BY <1>2, <1>3, <1>5, <1>6, <1>7, <1>8, PushStep DEF ImportEnters

\* An import in a pass that has it already changes only the position.
LEMMA ImportAgainOK == IInv /\ ImportAgain => IInv'
BY AdvanceStep DEF ImportAgain

\* An item that the pass has nothing to do for changes only the position.
LEMMA PassOverOK == IInv /\ PassOver => IInv'
BY AdvanceStep DEF PassOver

\* A call of a function that is generated changes only the position.
LEMMA CallGeneratedOK == IInv /\ CallGenerated => IInv'
BY AdvanceStep DEF CallGenerated, AtCall, InBody

\* The first pass declares a function.
LEMMA DeclareOK == IInv /\ Declare => IInv'
<1> SUFFICES ASSUME IInv, Declare PROVE IInv'
  OBVIOUS
<1> DEFINE x == <<Top.file, Item.name>>
<1>1. AtItem("fn") /\ ~ctx.generate
  BY DEF Declare
<1>2. /\ Top.file \in DOMAIN program /\ program \in Programs /\ ctx \in Context /\ Top.at \in Nat
      /\ Top.at + 1 \in DOMAIN program[Top.file] /\ Item = program[Top.file][Top.at + 1] /\ Item.op = "fn"
  BY <1>1, TopFacts, ItemFacts DEF IInv
<1>3. Item.name \in FnName /\ DefinitionIn(program, Top.file, Item.name) = Top.at + 1
  BY <1>2, FunctionType
<1>4. BindsIn(program, Top.file, Top.at + 1, ctx.scope)
  <2>1. BindsIn(program, Top.file, Top.at, ctx.scope)
    BY <1>1, ItemFacts DEF FileOK, Reached
  <2>2. ~IsImportIn(program, Top.file, Top.at + 1)
    BY <1>2 DEF IsImportIn
  <2> QED BY <1>2, <2>1, <2>2, BindsOther
<1>5. SeesFrom(program, Top.file, Item.name, ctx.scope)
  <2>1. Top.at + 1 \in DefinitionIn(program, Top.file, Item.name)..Len(program[Top.file])
    BY <1>2, <1>3, ItemType
  <2> QED BY <1>4, <2>1 DEF SeesFrom
<1>6. FrameOK(program, cache, [Top EXCEPT !.at = @ + 1], ctx)
  <2>1. Top.file \notin cache
    BY <1>1, ItemFacts DEF FileOK
  <2> QED BY <1>1, <1>4, <2>1, PassItem
<1>7. StackOK(program, cache, ctx, Advanced(stack)) /\ Advanced(stack) \in Seq(Visit) /\ Advanced(stack) # <<>>
  BY <1>6, TopFacts, AdvanceOK DEF IInv, Top
<1>8. states' = states \/ states' = Bind(states, x, ctx.scope)
  BY DEF Declare
<1>9. \A y \in DOMAIN states' : (y \in DOMAIN states /\ states'[y] = states[y]) \/ (y = x /\ states'[y] = ctx.scope)
  BY <1>8 DEF Bind
<1>10. StatesOK'
  <2> SUFFICES ASSUME NEW y \in DOMAIN states'
               PROVE  SeesFrom(program, y[1], y[2], states'[y])
    BY DEF StatesOK, Declare
  <2>1. CASE y \in DOMAIN states /\ states'[y] = states[y]
    BY <2>1 DEF IInv, StatesOK
  <2>2. CASE y = x /\ states'[y] = ctx.scope
    BY <2>2, <1>5
  <2> QED BY <1>9, <2>1, <2>2
<1>11. TypeOK'
  <2>1. ctx.scope \in Scope /\ x \in (DOMAIN program) \X FnName
    BY <1>2, <1>3 DEF Context
  <2>2. DOMAIN states' \subseteq (DOMAIN program) \X FnName /\ \A y \in DOMAIN states' : states'[y] \in Scope
    BY <1>9, <2>1 DEF IInv, TypeOK
  <2>3. Scope' = Scope /\ Visit' = Visit /\ Context' = Context
    BY DEF Declare, Visit, Context, Scope
  <2>4. ctx' \in Context' /\ stack' \in Seq(Visit') /\ stack' # <<>>
    BY <1>2, <1>7, <2>3 DEF Declare, Advance
  <2> QED BY <2>2, <2>3, <2>4 DEF IInv, TypeOK, Declare
<1>12. StackOK(program, cache, ctx, stack)'
  BY <1>7 DEF Declare, Advance
<1>13. (CacheOK /\ NoneTwice /\ ImportsFirst)'
  BY DEF IInv, Declare, CacheOK, NoneTwice, ImportsFirst, Imported, IsImport, Text
<1> QED BY <1>10, <1>11, <1>12, <1>13 DEF IInv, Declare

\* A function's body is begun in the scope of a file that has got as far.
LEMMA GenerateOK ==
  ASSUME IInv, NEW f \in DOMAIN program, NEW fn \in FnName, NEW scope \in Scope,
         ctx.generate, SeesFrom(program, f, fn, scope), Generate(f, fn, scope)
  PROVE  IInv'
<1> DEFINE F == Frame("body", f, fn, Local)
           d == [ctx EXCEPT !.scope = scope, !.module = f]
<1>1. ctx \in Context
  BY TopFacts
<1>2. F \in Visit /\ F.kind = "body" /\ F.file = f /\ F.fn = fn /\ F.saved = ctx
  BY <1>1 DEF Frame, Visit
<1>3. d \in Context /\ d.scope = scope /\ d.module = f /\ d.isMain = ctx.isMain /\ d.generate
  BY <1>1 DEF Context
<1>4. FrameOK(program, cache, F, d)
  BY <1>2, <1>3 DEF FrameOK
<1>5. Over(program, F, Top, d)
  BY <1>2, <1>3 DEF Over
<1> QED BY <1>2, <1>3, <1>4, <1>5, PushStep DEF Generate

\* The second pass generates a function where it is defined.
LEMMA GenerateHereOK == IInv /\ GenerateHere => IInv'
<1> SUFFICES ASSUME IInv, GenerateHere PROVE IInv'
  OBVIOUS
<1>1. AtItem("fn") /\ ctx.generate
  BY DEF GenerateHere
<1>2. /\ Top.file \in DOMAIN program /\ program \in Programs /\ ctx \in Context /\ Top.at \in Nat
      /\ Top.at + 1 \in DOMAIN program[Top.file] /\ Item = program[Top.file][Top.at + 1] /\ Item.op = "fn"
  BY <1>1, TopFacts, ItemFacts DEF IInv
<1>3. Item.name \in FnName /\ DefinitionIn(program, Top.file, Item.name) = Top.at + 1
  BY <1>2, FunctionType
<1>4. BindsIn(program, Top.file, Len(program[Top.file]), ctx.scope)
  BY <1>1, ItemFacts DEF FileOK, Reached
<1>5. SeesFrom(program, Top.file, Item.name, ctx.scope)
  <2>1. Len(program[Top.file]) \in DefinitionIn(program, Top.file, Item.name)..Len(program[Top.file])
    BY <1>2, <1>3, ItemType
  <2> QED BY <1>4, <2>1 DEF SeesFrom
<1> QED BY <1>1, <1>2, <1>3, <1>5, GenerateOK DEF GenerateHere, Context

\* A call of a function that is only declared generates it in its own file's context.
LEMMA CallGeneratesOK == IInv /\ CallGenerates => IInv'
<1> SUFFICES ASSUME IInv, CallGenerates PROVE IInv'
  OBVIOUS
<1>1. Callee \in DOMAIN states /\ Generate(Callee[1], Callee[2], states[Callee]) /\ Top.kind = "body"
  BY DEF CallGenerates, Found, AtCall, InBody
<1>2. Callee[1] \in DOMAIN program /\ Callee[2] \in FnName /\ states[Callee] \in Scope
  BY <1>1 DEF IInv, TypeOK
<1>3. SeesFrom(program, Callee[1], Callee[2], states[Callee])
  BY <1>1 DEF IInv, StatesOK
<1>4. ctx.generate
  BY <1>1, TopFacts DEF FrameOK
<1> QED BY <1>1, <1>2, <1>3, <1>4, GenerateOK

\* The end of a body goes back to the context that it was begun in.
LEMMA EndBodyOK == IInv /\ EndBody => IInv'
<1> SUFFICES ASSUME IInv, EndBody PROVE IInv'
  OBVIOUS
<1> DEFINE d == Top.saved
           s == Tail(stack)
<1>1. Top.kind = "body"
  BY DEF EndBody, InBody
<1>2. Len(stack) > 1
  <2>1. stack[Len(stack)].kind = "file"
    BY DEF IInv, StackOK
  <2> QED BY <1>1, <2>1, TopFacts DEF Top
<1>3. ctx \in Context /\ d \in Context /\ ctx.generate /\ d.generate /\ ctx.isMain = d.isMain
  <2>1. Over(program, Top, stack[2], ctx)
    BY <1>2, TopFacts DEF IInv, StackOK, ContextOf, Top
  <2> QED BY <1>1, <2>1, TopFacts DEF Over, FrameOK
<1>4. ctx' = d
  <2>1. ctx' = [ctx EXCEPT !.scope = d.scope, !.module = d.module]
    BY DEF EndBody
  <2>2. ctx.generate = TRUE /\ d.generate = TRUE
    BY <1>3 DEF Context
  <2>3. d = [scope |-> d.scope, module |-> d.module, isMain |-> d.isMain, generate |-> d.generate]
    BY <1>3 DEF Context
  <2>4. ctx' = [scope |-> d.scope, module |-> d.module, isMain |-> ctx.isMain, generate |-> ctx.generate]
    BY <1>3, <2>1 DEF Context
  <2> QED BY <1>3, <2>2, <2>3, <2>4
<1>5. StackOK(program, cache, d, s) /\ s \in Seq(Visit) /\ s # <<>> /\ s[1] = stack[2]
  BY <1>2, TopFacts, PopOK DEF IInv, Top
<1>6. StackOK(program, cache, d, Advanced(s)) /\ Advanced(s) \in Seq(Visit) /\ Advanced(s) # <<>>
  BY <1>3, <1>5, AdvanceSame
<1>7. StackOK(program, cache, ctx, stack)'
  BY <1>4, <1>6 DEF EndBody
<1>8. TypeOK'
  <2>1. Scope' = Scope /\ Visit' = Visit /\ Context' = Context
    BY DEF EndBody, Visit, Context, Scope
  <2>2. ctx' \in Context' /\ stack' \in Seq(Visit') /\ stack' # <<>>
    BY <1>3, <1>4, <1>6, <2>1 DEF EndBody
  <2> QED BY <2>1, <2>2 DEF IInv, TypeOK, EndBody
<1> QED BY <1>7, <1>8, RestSame DEF IInv, Rest, EndBody

\* The end of the first pass begins the second.
LEMMA EndFirstPassOK == IInv /\ EndFirstPass => IInv'
<1> SUFFICES ASSUME IInv, EndFirstPass PROVE IInv'
  OBVIOUS
<1> DEFINE F == [Top EXCEPT !.at = 0]
           d == [ctx EXCEPT !.generate = TRUE]
<1>1. Top.kind = "file" /\ ~ctx.generate /\ Top.at = Len(program[Top.file])
  BY DEF EndFirstPass, InFile, Text
<1>2. Top \in Visit /\ ctx \in Context /\ FileOK(program, cache, Top, ctx) /\ ctx.module = Top.file
  BY <1>1, TopFacts DEF FrameOK
<1>3. /\ F \in Visit /\ F.kind = Top.kind /\ F.file = Top.file /\ F.name = Top.name /\ F.saved = Top.saved
  BY <1>2 DEF Visit
<1>4. d \in Context /\ d.generate /\ d.scope = ctx.scope /\ d.module = ctx.module /\ d.isMain = ctx.isMain
  BY <1>2 DEF Context
<1>5. Reached(program, F, d) = Reached(program, Top, ctx)
  BY <1>1, <1>3, <1>4 DEF Reached
<1>6. FrameOK(program, cache, F, d)
  BY <1>1, <1>2, <1>3, <1>4, <1>5 DEF FrameOK, FileOK
<1>7. ASSUME Len(stack) > 1
      PROVE  Over(program, F, stack[2], d)
  <2>1. Over(program, Top, stack[2], ctx)
    BY <1>7, TopFacts DEF IInv, StackOK, ContextOf, Top
  <2> QED BY <1>3, <1>4, <2>1 DEF Over
<1>8. StackOK(program, cache, d, [stack EXCEPT ![1] = F])
  BY <1>3, <1>6, <1>7, TopFacts, TopOK DEF IInv, Top
<1>9. stack' = [stack EXCEPT ![1] = F] /\ ctx' = d
  BY DEF EndFirstPass, Top
<1>10. StackOK(program, cache, ctx, stack)'
  BY <1>8, <1>9 DEF EndFirstPass
<1>11. TypeOK'
  <2>1. stack' \in Seq(Visit) /\ stack' # <<>>
    BY <1>3, <1>9, TopFacts
  <2> QED BY <1>4, <1>9, <2>1 DEF IInv, TypeOK, EndFirstPass, Visit, Context, Scope
<1> QED BY <1>10, <1>11, RestSame DEF IInv, Rest, EndFirstPass

\* The end of a file puts it into the cache and goes back to the import.
LEMMA EndFileOK == IInv /\ EndFile => IInv'
<1> SUFFICES ASSUME IInv, EndFile PROVE IInv'
  OBVIOUS
<1> DEFINE f == Top.file
           G == stack[2]
           c == Top.saved
           d == [c EXCEPT !.scope = Bind(@, Top.name, f)]
           s == Tail(stack)
           ca == cache \cup {f}
<1>1. Top.kind = "file" /\ ctx.generate /\ Len(stack) > 1
  BY DEF EndFile, InFile
<1>2. /\ Top \in Visit /\ f \in DOMAIN program /\ program \in Programs /\ FileOK(program, cache, Top, ctx)
      /\ c \in Context /\ G \in Visit
  BY <1>1, TopFacts DEF FrameOK, IInv
<1>3. Over(program, Top, G, ctx) /\ G.kind = "file" /\ FrameOK(program, cache, G, c)
  <2>1. Over(program, Top, G, ctx)
    BY <1>1, TopFacts DEF IInv, StackOK, ContextOf, Top
  <2>2. FrameOK(program, cache, G, c)
    BY <1>1, TopFacts DEF IInv, StackOK, ContextOf, Top
  <2> QED BY <1>1, <2>1, <2>2 DEF Over
<1>4. /\ IsImportIn(program, G.file, G.at + 1) /\ Resolve(program[G.file][G.at + 1]) = f
      /\ Top.name = program[G.file][G.at + 1].name /\ Top.name \notin DOMAIN c.scope /\ ~c.generate
  BY <1>1, <1>3 DEF Over
<1>5. FileOK(program, cache, G, c) /\ c.module = G.file /\ G.at \in Nat /\ G.file \in DOMAIN program
  BY <1>2, <1>3 DEF FrameOK, Visit
<1>6. DOMAIN program[f] = 1..Len(program[f])
  BY <1>2, ItemType
<1>7. \A i \in 1..Len(stack) : i # 1 => stack[i].file # f
  BY <1>1, <1>6, TopFacts, NotOpenTwice DEF IInv, Top
<1>8. StackOK(program, ca, c, s) /\ s \in Seq(Visit) /\ s # <<>> /\ s[1] = G
  <2>1. StackOK(program, cache, c, s) /\ s \in Seq(Visit) /\ s # <<>> /\ s[1] = G
    BY <1>1, TopFacts, PopOK DEF IInv, Top
  <2>2. \A i \in 1..Len(s) : s[i].file # f
    <3>1. \A i \in 1..Len(s) : s[i] = stack[i + 1] /\ i + 1 \in 1..Len(stack)
      BY <1>1, TopFacts
    <3> QED BY <1>7, <3>1
  <2> QED BY <2>1, <2>2, CacheGrows
<1>9. /\ d \in Context /\ d.scope = Bind(c.scope, Top.name, f)
      /\ d.module = c.module /\ d.isMain = c.isMain /\ d.generate = c.generate
  <2>1. Top.name \in Name
    BY <1>2, <1>4, <1>5, ImportType DEF IsImportIn
  <2>2. c.scope \in Scope
    BY <1>2 DEF Context
  <2>3. Bind(c.scope, Top.name, f) \in Scope
    BY <1>2, <2>1, <2>2, BindType
  <2> QED BY <1>2, <2>3 DEF Context
<1> DEFINE F == [G EXCEPT !.at = @ + 1]
<1>10. F.at = G.at + 1 /\ F.kind = "file" /\ F.file = G.file
  BY <1>2, <1>3, AdvancedVisit
<1>11. FrameOK(program, ca, F, d)
  <2>1. Reached(program, F, d) = G.at + 1 /\ Reached(program, G, c) = G.at
    BY <1>4, <1>9, <1>10 DEF Reached
  <2>2. BindsIn(program, G.file, G.at + 1, d.scope)
    <3>1. BindsIn(program, G.file, G.at, c.scope)
      BY <1>5, <2>1 DEF FileOK
    <3> QED BY <1>4, <1>5, <1>9, <3>1, BindsImport
  <2>3. ASSUME NEW k \in 1..(G.at + 1), IsImportIn(program, G.file, k)
        PROVE  Resolve(program[G.file][k]) \in ca \/ program[Resolve(program[G.file][k])] = <<>>
    <3>1. CASE k = G.at + 1
      BY <3>1, <1>4
    <3>2. CASE k \in 1..G.at
      BY <3>2, <1>5, <2>1, <2>3 DEF FileOK
    <3> QED BY <3>1, <3>2, <1>5
  <2>4. G.file \notin ca
    <3>1. G.file # f
      BY <1>1, <1>7, TopFacts
    <3> QED BY <1>5, <3>1 DEF FileOK
  <2>5. FileOK(program, ca, F, d)
    BY <1>5, <1>9, <1>10, <2>1, <2>2, <2>3, <2>4 DEF FileOK
  <2> QED BY <1>5, <1>9, <1>10, <2>5 DEF FrameOK
<1>12. StackOK(program, ca, d, Advanced(s)) /\ Advanced(s) \in Seq(Visit) /\ Advanced(s) # <<>>
  BY <1>8, <1>9, <1>11, AdvanceOK
<1>13. /\ stack' = Advanced(s) /\ ctx' = d /\ cache' = ca /\ modules' = Append(modules, f)
       /\ UNCHANGED <<program, states, functions, status>>
  BY DEF EndFile
<1>14. StackOK(program, cache, ctx, stack)'
  BY <1>12, <1>13
<1>15. /\ modules \in Seq(DOMAIN program) /\ Len(modules) \in Nat /\ Len(modules') = Len(modules) + 1
       /\ modules' \in Seq(DOMAIN program) /\ modules'[Len(modules) + 1] = f
       /\ \A i \in 1..Len(modules) : modules'[i] = modules[i]
       /\ DOMAIN modules = 1..Len(modules) /\ DOMAIN modules' = 1..(Len(modules) + 1)
  BY <1>2, <1>13 DEF IInv, TypeOK
<1>16. cache = {modules[i] : i \in DOMAIN modules}
  BY DEF IInv, CacheOK
<1>17. CacheOK'
  <2>1. ca = {modules'[i] : i \in DOMAIN modules'}
    BY <1>15, <1>16
  <2> QED BY <1>13, <2>1 DEF CacheOK
<1>18. NoneTwice'
  <2>1. \A i \in 1..Len(modules) : modules[i] # f
    BY <1>2, <1>15, <1>16 DEF FileOK
  <2> QED BY <1>15, <2>1 DEF IInv, NoneTwice
<1>19. ImportsFirst'
  <2>1. FirstIn(program, modules)
    BY DEF IInv, FirstIn, ImportsFirst, Imported, IsImport, IsImportIn, Text
  <2>2. ASSUME NEW i \in DOMAIN modules', NEW g \in DOMAIN program, program[g] # <<>>,
               NEW k, IsImportIn(program, modules'[i], k), Resolve(program[modules'[i]][k]) = g
        PROVE  \E j \in 1..(i - 1) : modules'[j] = g
    <3>1. CASE i \in 1..Len(modules)
      <4>1. \E j \in 1..(i - 1) : modules[j] = g
        BY <2>1, <2>2, <3>1, <1>15 DEF FirstIn
      <4> QED BY <3>1, <4>1, <1>15
    <3>2. CASE i = Len(modules) + 1
      <4>1. k \in 1..Len(program[f]) /\ IsImportIn(program, f, k) /\ Resolve(program[f][k]) = g
        BY <2>2, <3>2, <1>6, <1>15 DEF IsImportIn
      <4>2. Reached(program, Top, ctx) = Len(program[f])
        BY <1>1 DEF Reached
      <4>3. g \in cache
        BY <1>2, <2>2, <4>1, <4>2 DEF FileOK
      <4> QED BY <1>15, <1>16, <3>2, <4>3
    <3> QED BY <1>15, <3>1, <3>2
  <2>3. FirstIn(program, modules')
    BY <2>2 DEF FirstIn
  <2> QED BY <2>3, <1>13 DEF FirstIn, ImportsFirst, Imported, IsImport, IsImportIn, Text
<1>20. StatesOK'
  BY <1>13 DEF IInv, StatesOK
<1>21. TypeOK'
  <2>1. Scope' = Scope /\ Visit' = Visit /\ Context' = Context
    BY <1>13 DEF Visit, Context, Scope
  <2>2. ctx' \in Context' /\ stack' \in Seq(Visit') /\ stack' # <<>>
    BY <1>9, <1>12, <1>13, <2>1
  <2>3. cache' \subseteq DOMAIN program'
    BY <1>2, <1>13 DEF IInv, TypeOK
  <2> QED BY <1>13, <1>15, <2>1, <2>2, <2>3 DEF IInv, TypeOK
<1> QED BY <1>13, <1>14, <1>17, <1>18, <1>19, <1>20, <1>21 DEF IInv

\* The steps that end the compilation leave all but the status.
LEMMA StopOK ==
  ASSUME IInv, UNCHANGED <<program, ctx, stack, cache, modules, states>>,
         status' \in {"running", "compiled", "not_found", "clash", "undefined"}
  PROVE  IInv'
<1>1. TypeOK'
  BY DEF IInv, TypeOK, Visit, Context, Scope
<1>2. StackOK(program, cache, ctx, stack)'
  BY DEF IInv
<1> QED BY <1>1, <1>2, RestSame DEF IInv, Rest

\* Every step keeps the invariant.
LEMMA StepOK == IInv /\ [Next]_vars => IInv'
<1> SUFFICES ASSUME IInv, [Next]_vars PROVE IInv'
  OBVIOUS
<1>1. CASE ImportFails
  BY <1>1, StopOK DEF ImportFails, Fail
<1>2. CASE ImportAtOnce
  BY <1>2, ImportAtOnceOK
<1>3. CASE ImportEnters
  BY <1>3, ImportEntersOK
<1>4. CASE ImportAgain
  BY <1>4, ImportAgainOK
<1>5. CASE Declare
  BY <1>5, DeclareOK
<1>6. CASE GenerateHere
  BY <1>6, GenerateHereOK
<1>7. CASE PassOver
  BY <1>7, PassOverOK
<1>8. CASE CallUndefined
  BY <1>8, StopOK DEF CallUndefined, Fail
<1>9. CASE CallGenerated
  BY <1>9, CallGeneratedOK
<1>10. CASE CallGenerates
  BY <1>10, CallGeneratesOK
<1>11. CASE EndBody
  BY <1>11, EndBodyOK
<1>12. CASE EndFirstPass
  BY <1>12, EndFirstPassOK
<1>13. CASE EndFile
  BY <1>13, EndFileOK
<1>14. CASE EndMain
  BY <1>14, StopOK DEF EndMain
<1>15. CASE UNCHANGED vars
  BY <1>15, StopOK DEF vars, IInv, TypeOK
<1> QED
  BY <1>1, <1>2, <1>3, <1>4, <1>5, <1>6, <1>7, <1>8, <1>9, <1>10, <1>11, <1>12, <1>13, <1>14, <1>15 DEF Next

-----------------------------------------------------------------------------
(* Theorems *)

\* IInv holds throughout: the invariant behind all the theorems below.
THEOREM Inductive == Spec => []IInv
<1>1. Init => IInv
  BY InitOK
<1>2. IInv /\ [Next]_vars => IInv'
  BY StepOK
<1> QED BY <1>1, <1>2, PTL DEF Spec

\* The variables of the Transformer's walk are well typed for all programs and depths.
THEOREM TypeCorrect == Spec => []TypeOK
<1>1. IInv => TypeOK
  BY DEF IInv
<1> QED BY <1>1, Inductive, PTL

\* The names of the module are the ones that the constant operators give.
LEMMA SameNames ==
  ASSUME NEW f, NEW fn, NEW k, NEW scope
  PROVE  /\ Binds(f, k, scope) = BindsIn(program, f, k, scope)
         /\ Definition(f, fn) = DefinitionIn(program, f, fn)
BY DEF Binds, BindsIn, IsImport, IsImportIn, Definition, DefinitionIn, Text

\* Whatever an import or a call has visited in between, a file goes on in its own
\* module, with its own names and no others (withState, ImportStmt's isMainModule).
THEOREM ContextIsRestored == Spec => []ContextRestored
<1>1. IInv => ContextRestored
  <2> SUFFICES ASSUME IInv, InFile PROVE ContextRestored
    BY DEF ContextRestored
  <2>1. FrameOK(program, cache, Top, ctx) /\ FileOK(program, cache, Top, ctx)
    BY TopFacts DEF InFile, FrameOK
  <2>2. BindsIn(program, Top.file, Reached(program, Top, ctx), ctx.scope)
    BY <2>1 DEF FileOK
  <2>3. Reached(program, Top, ctx) = IF ctx.generate THEN Len(Text(Top.file)) ELSE Top.at
    BY DEF Reached, Text
  <2>4. Binds(Top.file, IF ctx.generate THEN Len(Text(Top.file)) ELSE Top.at, ctx.scope)
    BY <2>2, <2>3, SameNames
  <2> QED BY <2>1, <2>4 DEF ContextRestored, FrameOK, FileOK
<1> QED BY <1>1, Inductive, PTL

\* A body sees its own file's names from wherever it is transformed (the state
\* that FunctionDef caches and transformFunction sets).
THEOREM BodyInItsFile == Spec => []FunctionContext
<1>1. IInv => FunctionContext
  <2> SUFFICES ASSUME IInv, InBody PROVE FunctionContext
    BY DEF FunctionContext
  <2>1. ctx.module = Top.file /\ ctx.generate /\ SeesFrom(program, Top.file, Top.fn, ctx.scope)
    BY TopFacts DEF InBody, FrameOK
  <2>2. PICK k \in DefinitionIn(program, Top.file, Top.fn)..Len(program[Top.file]) :
          BindsIn(program, Top.file, k, ctx.scope)
    BY <2>1 DEF SeesFrom
  <2>3. k \in Definition(Top.file, Top.fn)..Len(Text(Top.file)) /\ Binds(Top.file, k, ctx.scope)
    BY <2>2, SameNames DEF Text
  <2> QED BY <2>1, <2>3 DEF FunctionContext
<1> QED BY <1>1, Inductive, PTL

\* The assertions of ImportCache::addModule and Modules::addModule never fail,
\* even if circular imports have begun a file several times.
THEOREM NeverAddedTwice == Spec => []AddedOnce
<1>1. IInv => AddedOnce
  <2> SUFFICES ASSUME IInv PROVE AddedOnce
    OBVIOUS
  <2>1. stack \in Seq(Visit)
    BY DEF IInv, TypeOK
  <2>2. \A i \in DOMAIN stack : stack[i].kind = "file" => stack[i].file \notin cache
    BY <2>1 DEF IInv, StackOK, FrameOK, FileOK
  <2> QED BY <2>2 DEF IInv, NoneTwice, AddedOnce
<1> QED BY <1>1, Inductive, PTL

\* TypeChecker and LLVMBuilder find a module after those it imports.
THEOREM ImportedFirst == Spec => []ImportsFirst
<1>1. IInv => ImportsFirst
  BY DEF IInv
<1> QED BY <1>1, Inductive, PTL
=============================================================================
