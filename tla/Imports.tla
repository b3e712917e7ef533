------------------------------ MODULE Imports ------------------------------
(* How the Transformer walks a program: import statements compile the files  *)
(* they name (ImportStmt.cc), visitGlobal passes twice over each file, and a *)
(* function is transformed where it stands or, earlier, where it is called,  *)
(* in the context that was saved with it (FunctionDef.cc, transformFunction, *)
(* TransformContext).  A file is <<package, path>>, its text a sequence of   *)
(*   [op |-> "import", package, path, name]    name: getExportName           *)
(*   [op |-> "fn", name, generic, test, body]  body: a sequence of calls     *)
(* and a call is [via, fn]: fn of this file, or of the module imported as    *)
(* via.  The compiler is run with --test; types, overloads, macros, aliases  *)
(* and the entry point are left out, and `std` is a name of the global scope. *)
EXTENDS Integers, Sequences, FiniteSets, SequencesExt

CONSTANTS
  Package, Path,   \* what import statements name
  Name, FnName,    \* identifiers of imports, and of functions
  Project,         \* the package that is compiled
  MainPath,        \* its main file
  Programs,        \* the file systems: functions from files to texts
  Global,          \* the names of the global scope
  MaxDepth         \* bound on the frames of circular imports, which never end

File == Package \X Path
MainFile == <<Project, MainPath>>
Local == ""

ImportStmts == [op : {"import"}, package : (Package \ {Project}) \cup {"pkg"}, path : Path, name : Name]
FunctionDefs == [op : {"fn"}, name : FnName, generic : BOOLEAN, test : BOOLEAN,
                 body : Seq([via : Name \cup {Local}, fn : FnName])]
\* Functions have different names: overloads are OverloadResolution's matter.
IsText(text) ==
  /\ text \in Seq(ImportStmts \cup FunctionDefs)
  /\ \A i, j \in DOMAIN text :
       text[i].op = "fn" /\ text[j].op = "fn" /\ text[i].name = text[j].name => i = j

ASSUME NamesAssumption ==
  MainFile \in File /\ "pkg" \notin Package /\ Local \notin Name \cup FnName
ASSUME ProgramsAssumption ==
  \A p \in Programs : /\ DOMAIN p \subseteq File /\ MainFile \in DOMAIN p
                      /\ p[MainFile] # <<>>   \* compile() does nothing for an empty main file
                      /\ \A f \in DOMAIN p : IsText(p[f])
ASSUME MaxDepthAssumption == MaxDepth \in Nat

VARIABLES
  program,    \* the file system
  ctx,        \* TransformContext: scope, module, isMain, generate
  stack,      \* the visits in progress, innermost first
  cache,      \* the files of ImportCache
  modules,    \* Transformer::modules, in the order of addModule
  states,     \* the scopes cached with the functions declared (setFunction)
  functions,  \* how often each function has been generated
  status      \* "running", "compiled" or an error
vars == <<program, ctx, stack, cache, modules, states, functions, status>>

Text(f) == program[f]
Names(scope) == DOMAIN scope \cup Global
Bind(scope, name, file) == [n \in DOMAIN scope \cup {name} |-> IF n = name THEN file ELSE scope[n]]
NoNames == [n \in {} |-> MainFile]

\* ImportService::getImportPath: "pkg" is the directory the compiler has
\* changed to, that of the main file.
Resolve(item) == <<IF item.package = "pkg" THEN Project ELSE item.package, item.path>>

\* A visit of a file, or of a function's body.  saved is the context to return to.
Frame(kind, file, fn, name) ==
  [kind |-> kind, file |-> file, fn |-> fn, name |-> name, at |-> 0, saved |-> ctx]
Top == stack[1]
InFile == status = "running" /\ stack # <<>> /\ Top.kind = "file"
InBody == status = "running" /\ stack # <<>> /\ Top.kind = "body"
Item == Text(Top.file)[Top.at + 1]
AtItem(op) == InFile /\ Top.at < Len(Text(Top.file)) /\ Item.op = op
Definition(file, fn) == CHOOSE i \in DOMAIN Text(file) : Text(file)[i].op = "fn" /\ Text(file)[i].name = fn
Body(file, fn) == Text(file)[Definition(file, fn)].body

Advanced(s) == [s EXCEPT ![1].at = @ + 1]
Advance == stack' = Advanced(stack)
Push(frame) == stack' = <<frame>> \o stack
Fail(error) == status' = error /\ UNCHANGED <<program, ctx, stack, cache, modules, states, functions>>

-----------------------------------------------------------------------------
(* Import statements *)

AtImport == AtItem("import") /\ ~ctx.generate
Exists(item) == Resolve(item) \in DOMAIN program
Clashes(item) == item.name \in Names(ctx.scope)

ImportFails ==
  /\ AtImport
  /\ \/ ~Exists(Item) /\ Fail("not_found")
     \/ Exists(Item) /\ Clashes(Item) /\ Fail("clash")

\* From the cache, or an empty file: no context is entered.
ImportAtOnce ==
  /\ AtImport /\ Exists(Item) /\ ~Clashes(Item)
  /\ Resolve(Item) \in cache \/ Text(Resolve(Item)) = <<>>
  /\ ctx' = [ctx EXCEPT !.scope = Bind(@, Item.name, Resolve(Item))]
  /\ Advance
  /\ UNCHANGED <<program, cache, modules, states, functions, status>>

EntersContext ==
  [scope |-> NoNames, module |-> Resolve(Item), isMain |-> Item.package = "pkg", generate |-> FALSE]

\* Mutant: the cache is not asked.
ImportEntersAgain ==
  /\ AtImport /\ Exists(Item) /\ ~Clashes(Item) /\ Len(stack) < MaxDepth
  /\ Push(Frame("file", Resolve(Item), Local, Item.name)) /\ ctx' = EntersContext
  /\ UNCHANGED <<program, cache, modules, states, functions, status>>

\* Mutant: the module is added before it is visited, to end circular imports.
ImportEntersAdding ==
  /\ AtImport /\ Exists(Item) /\ ~Clashes(Item) /\ Len(stack) < MaxDepth
  /\ Resolve(Item) \notin cache /\ Text(Resolve(Item)) # <<>>
  /\ cache' = cache \cup {Resolve(Item)} /\ modules' = Append(modules, Resolve(Item))
  /\ Push(Frame("file", Resolve(Item), Local, Item.name)) /\ ctx' = EntersContext
  /\ UNCHANGED <<program, states, functions, status>>

\* isMainModule, then withState of an empty state, then visitGlobal.
ImportEnters ==
  /\ AtImport /\ Exists(Item) /\ ~Clashes(Item) /\ Len(stack) < MaxDepth
  /\ Resolve(Item) \notin cache /\ Text(Resolve(Item)) # <<>>
  /\ Push(Frame("file", Resolve(Item), Local, Item.name)) /\ ctx' = EntersContext
  /\ UNCHANGED <<program, cache, modules, states, functions, status>>

\* The second pass does not look at imports.
ImportAgain ==
  /\ AtItem("import") /\ ctx.generate /\ Advance
  /\ UNCHANGED <<program, ctx, cache, modules, states, functions, status>>

-----------------------------------------------------------------------------
(* Functions *)

Ignored(item) == item.test /\ ~ctx.isMain

\* FunctionDef in the first pass: the function is cached with the current state.
Declare ==
  /\ AtItem("fn") /\ ~ctx.generate
  /\ states' = IF Ignored(Item) THEN states ELSE Bind(states, <<Top.file, Item.name>>, ctx.scope)
  /\ Advance
  /\ UNCHANGED <<program, ctx, cache, modules, functions, status>>

\* defineFunction precedes the body.
Generate(file, fn, scope) ==
  /\ Push(Frame("body", file, fn, Local))
  /\ functions' = [n \in DOMAIN functions \cup {<<file, fn>>} |->
                     (IF n \in DOMAIN functions THEN functions[n] ELSE 0)
                     + (IF n = <<file, fn>> THEN 1 ELSE 0)]
  /\ ctx' = [ctx EXCEPT !.scope = scope, !.module = file]
  /\ UNCHANGED <<program, cache, modules, states, status>>

\* FunctionDef in the second pass: transformed in the current state, and
\* whether a call has done so already is not asked.
GenerateHere ==
  /\ AtItem("fn") /\ ctx.generate /\ ~Ignored(Item) /\ ~Item.generic
  /\ Generate(Top.file, Item.name, ctx.scope)
PassOver ==
  /\ AtItem("fn") /\ ctx.generate /\ (Ignored(Item) \/ Item.generic)
  /\ Advance
  /\ UNCHANGED <<program, ctx, cache, modules, states, functions, status>>

Calls == Body(Top.file, Top.fn)
Call == Calls[Top.at + 1]
AtCall == InBody /\ Top.at < Len(Calls)
Callee == <<IF Call.via = Local THEN ctx.module ELSE ctx.scope[Call.via], Call.fn>>
Found == (Call.via = Local \/ Call.via \in DOMAIN ctx.scope) /\ Callee \in DOMAIN states

CallUndefined == AtCall /\ ~Found /\ Fail("undefined")

\* shouldReturnOverload: the callee has been generated, or is being.
CallGenerated ==
  /\ AtCall /\ Found /\ Callee \in DOMAIN functions
  /\ Advance
  /\ UNCHANGED <<program, ctx, cache, modules, states, functions, status>>

\* Mutant: without withState.
CallGeneratesInline ==
  /\ AtCall /\ Found /\ Callee \notin DOMAIN functions
  /\ Generate(Callee[1], Callee[2], ctx.scope)
CallGenerates ==
  /\ AtCall /\ Found /\ Callee \notin DOMAIN functions
  /\ Generate(Callee[1], Callee[2], states[Callee])

\* transformFunction returns to whoever called it; withState restores the
\* stack and the module.
EndBody ==
  /\ InBody /\ Top.at = Len(Calls)
  /\ stack' = Advanced(Tail(stack))
  /\ ctx' = [ctx EXCEPT !.scope = Top.saved.scope, !.module = Top.saved.module]
  /\ UNCHANGED <<program, cache, modules, states, functions, status>>

-----------------------------------------------------------------------------
(* visitGlobal *)

\* Mutant: generateFunction is not set.
EndFirstPassForgets ==
  /\ InFile /\ ~ctx.generate /\ Top.at = Len(Text(Top.file))
  /\ stack' = [stack EXCEPT ![1].at = 0]
  /\ UNCHANGED <<program, ctx, cache, modules, states, functions, status>>
EndFirstPass ==
  /\ InFile /\ ~ctx.generate /\ Top.at = Len(Text(Top.file))
  /\ ctx' = [ctx EXCEPT !.generate = TRUE]
  /\ stack' = [stack EXCEPT ![1].at = 0]
  /\ UNCHANGED <<program, cache, modules, states, functions, status>>

\* Mutant: isMainModule is not restored.
EndFileForgets ==
  /\ InFile /\ ctx.generate /\ Top.at = Len(Text(Top.file)) /\ Len(stack) > 1
  /\ cache' = cache \cup {Top.file}
  /\ modules' = Append(modules, Top.file)
  /\ ctx' = [Top.saved EXCEPT !.scope = Bind(@, Top.name, Top.file), !.isMain = ctx.isMain]
  /\ stack' = Advanced(Tail(stack))
  /\ UNCHANGED <<program, states, functions, status>>

\* The rest of ImportStmt: withState and isMainModule return to the importer.
EndFile ==
  /\ InFile /\ ctx.generate /\ Top.at = Len(Text(Top.file)) /\ Len(stack) > 1
  /\ cache' = cache \cup {Top.file}
  /\ modules' = Append(modules, Top.file)
  /\ ctx' = [Top.saved EXCEPT !.scope = Bind(@, Top.name, Top.file)]
  /\ stack' = Advanced(Tail(stack))
  /\ UNCHANGED <<program, states, functions, status>>

EndMain ==
  /\ InFile /\ ctx.generate /\ Top.at = Len(Text(Top.file)) /\ Len(stack) = 1
  /\ status' = "compiled"
  /\ UNCHANGED <<program, ctx, stack, cache, modules, states, functions>>

Init ==
  /\ program \in Programs
  /\ ctx = [scope |-> NoNames, module |-> MainFile, isMain |-> TRUE, generate |-> FALSE]
  /\ stack = <<Frame("file", MainFile, Local, Local)>>
  /\ cache = {} /\ modules = <<>>
  /\ states = [f \in {} |-> NoNames] /\ functions = [f \in {} |-> 0]
  /\ status = "running"

Next ==
  \/ ImportFails \/ ImportAtOnce \/ ImportEnters \/ ImportAgain
  \/ Declare \/ GenerateHere \/ PassOver
  \/ CallUndefined \/ CallGenerated \/ CallGenerates \/ EndBody
  \/ EndFirstPass \/ EndFile \/ EndMain

Spec == Init /\ [][Next]_vars
\* The compiler runs on until it is done.
FairSpec == Spec /\ WF_vars(Next)

-----------------------------------------------------------------------------
(* Properties *)

Scope == UNION {[names -> DOMAIN program] : names \in SUBSET Name}
Context == [scope : Scope, module : DOMAIN program, isMain : BOOLEAN, generate : BOOLEAN]
Visit == [kind : {"file", "body"}, file : DOMAIN program, fn : FnName \cup {Local},
          name : Name \cup {Local}, at : Nat, saved : Context]

TypeOK ==
  /\ ctx \in Context /\ stack \in Seq(Visit) /\ stack # <<>>
  /\ cache \subseteq DOMAIN program /\ modules \in Seq(DOMAIN program)
  /\ DOMAIN states \subseteq (DOMAIN program) \X FnName /\ \A f \in DOMAIN states : states[f] \in Scope
  /\ status \in {"running", "compiled", "not_found", "clash", "undefined"}

IsImport(f, i) == i \in DOMAIN Text(f) /\ Text(f)[i].op = "import"
Imported(f, g) == \E i \in DOMAIN Text(f) : IsImport(f, i) /\ Resolve(Text(f)[i]) = g

\* What the imports among the first k items of f bind.
Binds(f, k, scope) ==
  /\ DOMAIN scope = {Text(f)[i].name : i \in {j \in 1..k : IsImport(f, j)}}
  /\ \A i \in 1..k : IsImport(f, i) => scope[Text(f)[i].name] = Resolve(Text(f)[i])

\* Whatever an import or a call has visited in between, a file goes on in its
\* own module, with its own names and no others, as part of the project or not.
ContextRestored ==
  InFile => /\ ctx.module = Top.file
            /\ Binds(Top.file, IF ctx.generate THEN Len(Text(Top.file)) ELSE Top.at, ctx.scope)
            /\ ctx.isMain = (Top.file[1] = Project)

\* Wherever a function is transformed from, its body sees the names of its own
\* file, and at least those imported above it.
FunctionContext ==
  InBody =>
    /\ ctx.generate /\ ctx.module = Top.file
    /\ \E k \in Definition(Top.file, Top.fn)..Len(Text(Top.file)) : Binds(Top.file, k, ctx.scope)

\* The assertions of ImportCache::addModule and Modules::addModule: no file is
\* finished twice, even if circular imports have begun it several times.
AddedOnce ==
  /\ \A i \in DOMAIN stack : stack[i].kind = "file" => stack[i].file \notin cache
  /\ \A i, j \in DOMAIN modules : modules[i] = modules[j] => i = j

\* TypeChecker and LLVMBuilder find a module after those it imports.
ImportsFirst ==
  \A i \in DOMAIN modules : \A g \in DOMAIN program :
    Imported(modules[i], g) /\ Text(g) # <<>> => \E j \in 1..(i - 1) : modules[j] = g

\* Without circular imports the visits come to an end.
Acyclic ==
  \E rank \in [DOMAIN program -> 1..Cardinality(DOMAIN program)] :
    \A f, g \in DOMAIN program : Imported(f, g) => rank[g] < rank[f]
Terminates == Acyclic => <>(status # "running")
=============================================================================
