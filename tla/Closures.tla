-------------------------------- MODULE Closures --------------------------------
(***************************************************************************)
(* The variables that lambdas share with the functions around them: given  *)
(* a scope by the Transformer, marked by the TypeChecker, and put in the   *)
(* closures that LLVMBuilder makes and reads.                              *)
(*                                                                         *)
(* A function is a record [name, args, body]; its body is a sequence of    *)
(* items [k, x, f, of]: the declaration or the use of a variable x, a      *)
(* lambda f, a block of items, or a block that the TypeChecker does not    *)
(* visit (the default case of a switch, the step of a for). Names are      *)
(* unique, as identities are. todo holds what remains to be done: every    *)
(* task with the function it is in and its depth, the number of scopes     *)
(* open around it.                                                         *)
(***************************************************************************)
EXTENDS Naturals, SequencesExt, FiniteSetsExt

CONSTANT Program    \* functions of a module

VARIABLES
    function,    \* the function
    stage,       \* "transform", "check", "build" or "done"
    todo,        \* what remains to be done, first first
    functions,   \* the functions of the module, in the order they were added
    scopeIndex,  \* function or variable -> the scope it is in
    parentScope, \* lambda -> the function it is written in
    symbols,     \* function -> the variables declared in it, in order
    typechecked, \* the functions that were checked
    parentFunc,  \* variable marked as used in a lambda -> the function it is thought to be of
    uses,        \* the lambdas marked as using their parent's scope
    closures,    \* function -> the variables in its closure, in order
    reads        \* the reads that were built: [in, x, from, context]

vars == <<function, stage, todo, functions, scopeIndex, parentScope, symbols, typechecked, parentFunc, uses, closures, reads>>

NoFunction == "none"
Task(do, what, in, depth) == [do |-> do, what |-> what, in |-> in, depth |-> depth]
Each(do, items, in, depth) == [i \in DOMAIN items |-> Task(do, items[i], in, depth)]

Doing(do, k) == todo # <<>> /\ Head(todo).do = do /\ Head(todo).what.k = k
It == Head(todo).what
In == Head(todo).in
Depth == Head(todo).depth
Then(tasks) == todo' = tasks \o Tail(todo)

\* A scope for the primitive types, one for the module and one for the generics of a function.
FunctionDepth == 2

Init ==
    /\ function \in Program
    /\ stage = "transform"
    /\ todo = <<Task("transform", [k |-> "lambda", f |-> function], NoFunction, FunctionDepth)>>
    /\ functions = <<>>
    /\ scopeIndex = <<>> /\ parentScope = <<>> /\ symbols = <<>>
    /\ typechecked = {} /\ parentFunc = <<>> /\ uses = {}
    /\ closures = <<>> /\ reads = {}

checkVars == <<typechecked, parentFunc, uses>>
buildVars == <<closures, reads>>
-----------------------------------------------------------------------------
(* The Transformer *)

transforming == <<function, stage, checkVars, buildVars>>

\* A function and its arguments are in the scope it is written in; its body is a scope within
\* the scope of the arguments' names. It is added to the module when its body is done.
TransformLambda ==
    /\ Doing("transform", "lambda")
    /\ LET f == It.f
       IN  /\ scopeIndex' = scopeIndex @@ [n \in {f.name} \cup Range(f.args) |-> Depth]
           /\ parentScope' = parentScope @@ (f.name :> In)
           /\ symbols' = symbols @@ (f.name :> <<>>)
           /\ Then(Each("transform", f.body, f.name, Depth + 2) \o <<Task("add", It, In, Depth)>>)
    /\ UNCHANGED <<functions, transforming>>
AddFunction ==
    /\ Doing("add", "lambda")
    /\ functions' = Append(functions, It.f)
    /\ Then(<<>>)
    /\ UNCHANGED <<scopeIndex, parentScope, symbols, transforming>>

TransformDeclaration ==
    /\ Doing("transform", "declare")
    /\ scopeIndex' = scopeIndex @@ (It.x :> Depth)
    /\ symbols' = [symbols EXCEPT ![In] = Append(@, It.x)]
    /\ Then(<<>>)
    /\ UNCHANGED <<functions, parentScope, transforming>>
TransformUse == Doing("transform", "use") /\ Then(<<>>) /\ UNCHANGED <<functions, scopeIndex, parentScope, symbols, transforming>>
TransformBlock ==
    /\ Doing("transform", "block") \/ Doing("transform", "unvisited")
    /\ Then(Each("transform", It.of, In, Depth + 1))
    /\ UNCHANGED <<functions, scopeIndex, parentScope, symbols, transforming>>

\* The functions of the module from the last to the first, for the next stage.
EveryFunction(do) == [i \in DOMAIN functions |-> Task(do, [k |-> "lambda", f |-> Reverse(functions)[i]], NoFunction, 0)]
NextStage(from, to, tasks) ==
    /\ stage = from /\ todo = <<>>
    /\ stage' = to /\ todo' = tasks
    /\ UNCHANGED <<function, functions, scopeIndex, parentScope, symbols, checkVars, buildVars>>
StartCheck == NextStage("transform", "check", EveryFunction("check"))
-----------------------------------------------------------------------------
(* The TypeChecker *)

checking == <<function, stage, functions, scopeIndex, parentScope, symbols, buildVars>>
Args(f) == Range((CHOOSE g \in Range(functions) : g.name = f).args)
isAnon(f) == parentScope[f] # NoFunction

CheckLambda ==
    /\ Doing("check", "lambda")
    /\ IF It.f.name \in typechecked THEN Then(<<>>) /\ UNCHANGED typechecked
       ELSE typechecked' = typechecked \cup {It.f.name} /\ Then(Each("check", It.f.body, It.f.name, 0))
    /\ UNCHANGED <<parentFunc, uses, checking>>
CheckDeclaration == Doing("check", "declare") /\ Then(<<>>) /\ UNCHANGED <<checkVars, checking>>
CheckBlock == Doing("check", "block") /\ Then(Each("check", It.of, In, 0)) /\ UNCHANGED <<checkVars, checking>>
CheckUnvisited == Doing("check", "unvisited") /\ Then(<<>>) /\ UNCHANGED <<checkVars, checking>>

\* A mutant: an argument counts like any other variable.
ScopeOfName(x) == scopeIndex[x]
\* An argument counts as one scope further in: it has the scope its function is in.
Scope(x) == scopeIndex[x] + (IF \E f \in DOMAIN parentScope : x \in Args(f) THEN 1 ELSE 0)
\* A variable from outside of the lambda, and not of the module.
FromOutside(x, f) == Scope(x) <= scopeIndex[f] /\ Scope(x) > FunctionDepth

\* A mutant: it is taken to be of the lambda itself.
CheckUseAsOwn ==
    /\ Doing("check", "use")
    /\ IF isAnon(In) /\ FromOutside(It.x, In)
       THEN uses' = uses \cup {In} /\ parentFunc' = (It.x :> In) @@ parentFunc
       ELSE UNCHANGED <<uses, parentFunc>>
    /\ Then(<<>>)
    /\ UNCHANGED <<typechecked, checking>>

\* The function a captured variable is of is taken to be the one the lambda is written in.
CheckUse ==
    /\ Doing("check", "use")
    /\ IF isAnon(In) /\ FromOutside(It.x, In)
       THEN /\ uses' = uses \cup {In}
            /\ parentFunc' = (It.x :> parentScope[In]) @@ parentFunc
       ELSE UNCHANGED <<uses, parentFunc>>
    /\ Then(<<>>)
    /\ UNCHANGED <<typechecked, checking>>

StartBuild == NextStage("check", "build", EveryFunction("build"))
-----------------------------------------------------------------------------
(* LLVMBuilder *)

building == <<function, stage, functions, scopeIndex, parentScope, symbols, checkVars>>
UsedInLambda(x) == x \in DOMAIN parentFunc

\* The closure of a function: its arguments and then its variables that lambdas use.
Captured(f) == SelectSeq(f.args \o symbols[f.name], UsedInLambda)
buildBodiedFunction ==
    /\ Doing("build", "lambda") /\ In = NoFunction
    /\ closures' = IF Captured(It.f) = <<>> THEN closures ELSE closures @@ (It.f.name :> Captured(It.f))
    /\ Then(Each("build", It.f.body, It.f.name, 0))
    /\ UNCHANGED <<reads, building>>

\* A lambda as a value is given the closure of the function it is made in, if it uses one.
BuildLambda == Doing("build", "lambda") /\ In # NoFunction /\ Then(<<>>) /\ UNCHANGED <<buildVars, building>>
BuildDeclaration == Doing("build", "declare") /\ Then(<<>>) /\ UNCHANGED <<buildVars, building>>
BuildBlock ==
    /\ Doing("build", "block") \/ Doing("build", "unvisited")
    /\ Then(Each("build", It.of, In, 0))
    /\ UNCHANGED <<buildVars, building>>

\* Where a captured variable is looked for: in this function's closure or its parent's.
Keeper(x, f) == IF parentFunc[x] # f THEN parentScope[f] ELSE f
Declares(f, x) == x \in Args(f) \cup Range(symbols[f])
Owner(x) == CHOOSE f \in DOMAIN symbols : Declares(f, x)
\* The function whose storage is used: none when there is no such closure or it lacks x.
Fetched(x, f) ==
    IF ~UsedInLambda(x) THEN Owner(x)
    ELSE IF Keeper(x, f) \in DOMAIN closures /\ x \in Range(closures[Keeper(x, f)]) THEN Keeper(x, f) ELSE NoFunction
\* A storage of its own, or the parent's closure that it was given.
Reachable(x, f) == IF UsedInLambda(x) THEN Keeper(x, f) = f \/ f \in uses ELSE Owner(x) = f

BuildUse ==
    /\ Doing("build", "use")
    /\ reads' = reads \cup {[in |-> In, x |-> It.x, from |-> Fetched(It.x, In), reachable |-> Reachable(It.x, In)]}
    /\ Then(<<>>)
    /\ UNCHANGED <<closures, building>>

Finish == NextStage("build", "done", <<>>)
Finished == stage = "done" /\ UNCHANGED vars
-----------------------------------------------------------------------------
Next ==
    \/ TransformLambda \/ AddFunction \/ TransformDeclaration \/ TransformUse \/ TransformBlock \/ StartCheck
    \/ CheckLambda \/ CheckDeclaration \/ CheckBlock \/ CheckUnvisited \/ CheckUse \/ StartBuild
    \/ buildBodiedFunction \/ BuildLambda \/ BuildDeclaration \/ BuildBlock \/ BuildUse \/ Finish
    \/ Finished

Spec == Init /\ [][Next]_vars
-----------------------------------------------------------------------------
(* Properties *)

\* The variables used in items: everywhere, or where the TypeChecker goes; lambdas left out.
RECURSIVE UsedIn(_, _)
UsedIn(items, k) == UNION {CASE i.k = "use" -> {i.x}
                             [] i.k \in {"block"} \cup k -> UsedIn(i.of, k)
                             [] OTHER -> {} : i \in Range(items)}
Uses(f) == UsedIn(f.body, {"unvisited"})
Visited(f) == UsedIn(f.body, {})
Lambdas(x) == {f \in Range(functions) : x \in Uses(f) /\ f.name # Owner(x)}
\* Used only where it is declared and in lambdas written there, and there where it is visited.
OneLevel(x) == \A f \in Lambdas(x) : parentScope[f.name] = Owner(x) /\ x \in Visited(f)

\* A variable that is used in its function and in lambdas written in it, and there at least once
\* in what the TypeChecker visits, is read from its own storage everywhere, and a lambda that
\* reads a closure was given it: scopes, marks, the order functions are built in and the
\* closures' contents agree (TypeChecker.cc 34-48, buildFunc.cc 54-200, varFetchImpl.h 7-35).
OneLevelReads ==
    stage = "done" => \A r \in reads : OneLevel(r.x) => r.from = Owner(r.x) /\ r.reachable

\* Nothing but what lambdas use is in a closure, and only a lambda that uses something from
\* outside is marked: a function's own variables and arguments are never taken for another's.
MarksExactly ==
    stage = "done" =>
        /\ DOMAIN parentFunc = {x \in UNION {Visited(f) : f \in Range(functions)} : \E f \in Lambdas(x) : x \in Visited(f)}
        /\ uses = {f.name : f \in {g \in Range(functions) : \E x \in Visited(g) : Owner(x) # g.name}}
=============================================================================
