------------------------------ MODULE TypeChecker ------------------------------
(***************************************************************************)
(* The TypeChecker's walk over the values of a module (TypeChecker.cc).    *)
(*                                                                         *)
(* A value is a record: its kind k, its type, the values of it in order,   *)
(* and what its kind adds. A place is the path that leads to a value: the  *)
(* function (NoFunction for a variable of the module) and the position     *)
(* taken at every level (<<>> for a function that is called or in the      *)
(* module, and not a value of it). A type is its                           *)
(* shape, outermost kind first (<<"ptr", "i32">> for a pointer to an i32), *)
(* and the mutability of every level. todo holds what the visits on the    *)
(* C++ stack have still to do.                                             *)
(***************************************************************************)
EXTENDS Naturals, SequencesExt

CONSTANTS
    Program,    \* modules: their variables and functions, each in the order of the module
    Extends,    \* pairs of a class and its parent
    MaxDepth    \* no value of the modules has more levels

VARIABLES
    module,          \* the module being checked
    currentFunction, \* Context: the function being checked, or NoFunction
    unsafeContext,   \* Context: whether unsafe operations are allowed
    typechecked,     \* the functions with the attribute TYPECHECKED
    errors,          \* Context: what was reported, [rule, at]; the order is left out
    seen,            \* the places visited, in order
    todo             \* what remains to be done, first first

vars == <<module, currentFunction, unsafeContext, typechecked, errors, seen, todo>>

NoFunction == "none"
Func(f) == LET fs == module.functions IN fs[CHOOSE i \in DOMAIN fs : fs[i].name = f]
Has(f, attribute) == attribute \in Func(f).attributes
-----------------------------------------------------------------------------
(* Types *)

Is(a, b) == a.shape = b.shape
IsMutableType(t) == t.mut[1]
Pointed(t) == [shape |-> Tail(t.shape), mut |-> Tail(t.mut)]
IsPointer(t) == Head(t.shape) = "ptr"
IsReference(t) == Head(t.shape) = "ref"
IsVoid(t) == t.shape = <<"void">>
IsFunction(t) == t.shape = <<"function">>
Numeric == {"i32", "i64", "bool"}
isInt32Type(t) == t.shape = <<"i32">>
Primitive(t) == t.shape \in {<<s>> : s \in Numeric \cup {"void"}}

\* PointerType::getBaseType goes through every pointer, not just one.
BaseType(t) == SubSeq(t.shape, SelectInSeq(t.shape, LAMBDA s : s # "ptr"), Len(t.shape))

\* Numbers become numbers and a class its parent.
BaseCanCast(a, b) == (a \in Numeric /\ b \in Numeric) \/ <<a, b>> \in Extends

\* Pointers and references level by level; none of them becomes mutable.
CanCast(a, b) ==
    /\ Len(a.shape) = Len(b.shape)
    /\ \A i \in 1..Len(a.shape) - 1 : a.shape[i] = b.shape[i] /\ (b.mut[i] => a.mut[i])
    /\ BaseCanCast(Last(a.shape), Last(b.shape))
-----------------------------------------------------------------------------
(* The visits *)

Task(do, what, at) == [do |-> do, what |-> what, at |-> at]
Visit(value, at) == Task("visit", value, at)

\* The places from i to j of value v, to be visited.
Parts(v, at, i, j) == [n \in 1..(IF j < i THEN 0 ELSE j - i + 1) |-> Visit(v.of[i + n - 1], Append(at, i + n - 1))]
All(v, at) == Parts(v, at, 1, Len(v.of))
Check(v, at) == <<Task("check", v, at)>>

Doing(do) == todo # <<>> /\ Head(todo).do = do
It == Head(todo).what
At == Head(todo).at
Visiting(kinds) == Doing("visit") /\ It.k \in kinds
Checking(kind) == Doing("check") /\ It.k = kind

\* The variables of the module first, then its functions from the last to the first.
Init ==
    /\ module \in Program
    /\ currentFunction = NoFunction
    /\ unsafeContext = FALSE
    /\ typechecked = {}
    /\ errors = {}
    /\ seen = <<>>
    /\ todo = [i \in DOMAIN module.variables |-> Visit(module.variables[i], <<NoFunction, i>>)]
              \o [i \in DOMAIN module.functions |-> Visit([k |-> "func", f |-> Reverse(module.functions)[i].name], <<>>)]

context == <<module, currentFunction, unsafeContext, typechecked>>

\* What the visit of this value leads to, in place of the visit.
Descend(tasks) ==
    /\ todo' = tasks \o Tail(todo)
    /\ seen' = Append(seen, At)
    /\ UNCHANGED <<context, errors>>

\* The rules whose condition holds are reported, each at this place.
Rules(checks, at) == {[rule |-> c[2], at |-> at] : c \in {d \in checks : d[1]}}
\* Of a chain of conditions, the first that holds.
FirstOf(chain) == {chain[i] : i \in {j \in DOMAIN chain : chain[j][1] /\ \A l \in 1..j - 1 : ~chain[l][1]}}
Report(checks) ==
    /\ errors' = errors \cup Rules(checks, At)
    /\ todo' = Tail(todo)
    /\ UNCHANGED <<context, seen>>

CantBeVoid(type) == <<IsVoid(type), "void">>

\* Literals, arguments, the values of an enum, break and continue.
VisitLeaf == Visiting({"value", "argument"}) /\ Descend(<<>>)

\* The visit is left early in a function that is not a lambda, whatever the type is.
VisitVariable ==
    /\ Visiting({"variable"})
    /\ Descend(IF currentFunction # NoFunction /\ ~Func(currentFunction).anon THEN <<>> ELSE Check(It, At))
CheckVariable == Checking("variable") /\ Report({CantBeVoid(It.type)})

VisitDereferenceTo == Visiting({"dereference"}) /\ Descend(All(It, At) \o Check(It, At))
CheckDereferenceTo ==
    /\ Checking("dereference")
    /\ LET t == It.of[1].type
       IN  Report({CantBeVoid(t),
                    <<IsPointer(t) /\ ~unsafeContext, "unsafe dereference">>,
                    <<~IsPointer(t) /\ ~IsReference(t), "not a reference">>})

VisitReferenceTo == Visiting({"reference"}) /\ Descend(All(It, At) \o Check(It, At))
CheckReferenceTo == Checking("reference") /\ Report({CantBeVoid(It.of[1].type)})

\* The value it is taken from is not visited.
VisitIndexExtract == Visiting({"index"}) /\ Descend(Check(It, At))
CheckIndexExtract == Checking("index") /\ Report({CantBeVoid(It.type)})

VisitVariableDeclaration ==
    /\ Visiting({"declaration"})
    /\ Descend(All(It, At) \o (IF It.of = <<>> THEN <<>> ELSE Check(It, At)))
CheckVariableDeclaration == Checking("declaration") /\ Report({CantBeVoid(It.of[1].type)})

VisitThrow == Visiting({"throw"}) /\ Descend(All(It, At))
VisitValueExtract == Visiting({"extract"}) /\ Descend(All(It, At))
VisitTryCatch == Visiting({"try"}) /\ Descend(All(It, At))
VisitConditional == Visiting({"if"}) /\ Descend(All(It, At))

\* The condition and the block; not the step of a for.
VisitWhileLoop == Visiting({"while"}) /\ Descend(Parts(It, At, 1, 2))

\* A switch over values compares the type of each with the expression's after its block.
Cases(v, at) ==
    IF v.values = <<>> THEN Parts(v, at, 2, v.cases + 1)
    ELSE [n \in 1..2 * v.cases |->
            LET i == (n + 1) \div 2
            IN  IF n % 2 = 1 THEN Visit(v.of[i + 1], Append(at, i + 1))
                ELSE Task("case", <<v.values[i], v.of[1].type>>, at)]
\* The expression and the cases; not the default case.
VisitSwitch == Visiting({"switch"}) /\ Descend(Parts(It, At, 1, 1) \o Cases(It, At))
CheckCase == Doing("case") /\ Report({<<~Is(It[1], It[2]), "case type">>})
-----------------------------------------------------------------------------
(* Casts and returns *)

VisitCast == Visiting({"cast"}) /\ Descend(All(It, At) \o Check(It, At))

\* Void pointers become any pointer and back, and in an unsafe context a function;
\* a reference becomes a pointer to the same.
FreeCast(a, b) ==
    \/ Is(a, b)
    \/ IsPointer(a) /\ IsPointer(b) /\ (BaseType(a) = <<"void">> \/ BaseType(b) = <<"void">>)
    \/ IsReference(a) /\ IsPointer(b) /\ Pointed(a).shape = BaseType(b)
PointerToFunction(a, b) == IsPointer(a) /\ IsFunction(b) /\ BaseType(a) = <<"void">>

CheckCast ==
    /\ Checking("cast")
    /\ LET a == It.of[1].type
           b == It.type
           judged == ~FreeCast(a, b) /\ ~PointerToFunction(a, b)
       IN  Report({<<IsVoid(a), "cast from void">>,
                    <<PointerToFunction(a, b) /\ ~unsafeContext, "unsafe cast">>,
                    <<judged /\ ~IsMutableType(a) /\ IsMutableType(b), "cast to mutable">>,
                    <<judged /\ ~CanCast(a, b), "cast">>})

VisitReturn == Visiting({"return"}) /\ Descend(All(It, At) \o Check(It, At))
CheckReturn ==
    /\ Checking("return")
    /\ LET returned == Func(currentFunction).ret
       IN  Report({<<IsVoid(returned) /\ It.of # <<>>, "return a value">>,
                    <<~IsVoid(returned) /\ It.of = <<>>, "return nothing">>,
                    <<~Is(It.type, returned), "return type">>})
-----------------------------------------------------------------------------
(* Functions and blocks *)

\* The attribute that decides which checks a declaration gets: the first of these.
Role(f) == SelectInSeq(<<"UNSAFE", "UNSAFE_FUNC_NOT_BODY", "TEST", "BENCH", "INLINE", "LLVM_FUNC">>,
                       LAMBDA a : Has(f, a))
isDeclaration(f) == Func(f).body = <<>> /\ ~Has(f, "LLVM_FUNC")
\* The arguments given to an attribute: triples of it, a name and a kind of value.
Given(f, attribute) == {g \in Range(Func(f).given) : g[1] = attribute}

CheckTest(f) ==
    FirstOf(<<<<isDeclaration(f), "test without body">>, <<~isInt32Type(Func(f).ret), "test returns">>,
              <<Func(f).args > 0, "test with arguments">>, <<Has(f, "INLINE"), "test inline">>>>)
    \cup {CASE g[2] = "expect" -> <<g[3] # "number", "expect">>
            [] g[2] = "skip" -> <<g[3] # "none", "skip">>
            [] OTHER -> <<TRUE, "test attribute">> : g \in Given(f, "TEST")}
CheckBench(f) ==
    FirstOf(<<<<isDeclaration(f), "bench without body">>, <<Func(f).args > 0, "bench with arguments">>,
              <<Has(f, "INLINE"), "bench inline">>>>)
CheckInline(f) == FirstOf(<<<<isDeclaration(f), "inline without body">>, <<Has(f, "NO_INLINE"), "inline and no_inline">>>>)
CheckLLVMFunc(f) ==
    {<<g[2] # "sanitise_void_return" \/ g[3] # "none", "llvm attribute">> : g \in Given(f, "LLVM_FUNC")}

checkFunctionDeclaration(f) ==
    CASE Role(f) = 1 -> {<<Given(f, "UNSAFE_FUNC_NOT_BODY") # {}, "unsafe arguments">>}
      [] Role(f) = 2 -> {<<TRUE, "not body of a safe function">>}
      [] Role(f) = 3 -> CheckTest(f)
      [] Role(f) = 4 -> CheckBench(f)
      [] Role(f) = 5 -> CheckInline(f)
      [] Role(f) = 6 -> CheckLLVMFunc(f)
      [] OTHER -> {}

\* The declaration, then the body, in a context of its own.
EnterFunc(f, unsafe) ==
    /\ typechecked' = typechecked \cup {f}
    /\ errors' = errors \cup Rules(checkFunctionDeclaration(f), <<f>>)
    /\ currentFunction' = f
    /\ unsafeContext' = unsafe
    /\ todo' = [i \in DOMAIN Func(f).body |-> Visit(Func(f).body[i], <<f>>)]
               \o <<Task("restore", <<currentFunction, unsafeContext>>, At)>> \o Tail(todo)
    /\ UNCHANGED module
\* Only a function that is a value is a place.
SeeFunc == seen' = IF At = <<>> THEN seen ELSE Append(seen, At)
UnsafeBody(f) == Has(f, "UNSAFE") /\ ~Has(f, "UNSAFE_FUNC_NOT_BODY")

\* Mutants: what a function may do depends on where it is met first; it is checked each time.
VisitFuncKeepingContext ==
    /\ Visiting({"func"})
    /\ IF It.f \in typechecked
       THEN todo' = Tail(todo) /\ UNCHANGED <<context, errors>>
       ELSE EnterFunc(It.f, unsafeContext \/ UnsafeBody(It.f))
    /\ SeeFunc
VisitFuncAgain == Visiting({"func"}) /\ EnterFunc(It.f, UnsafeBody(It.f)) /\ SeeFunc

\* A function is checked when it is first met: in the module, called or as a value.
VisitFunc ==
    /\ Visiting({"func"})
    /\ IF It.f \in typechecked
       THEN todo' = Tail(todo) /\ UNCHANGED <<context, errors>>
       ELSE EnterFunc(It.f, UnsafeBody(It.f))
    /\ SeeFunc

Leave ==
    /\ Doing("restore")
    /\ currentFunction' = It[1]
    /\ unsafeContext' = It[2]
    /\ todo' = Tail(todo)
    /\ UNCHANGED <<module, typechecked, errors, seen>>

VisitBlock ==
    /\ Visiting({"block"})
    /\ unsafeContext' = (unsafeContext \/ It.unsafe)
    /\ todo' = All(It, At)
               \o (IF It.unsafe THEN <<Task("restore", <<currentFunction, unsafeContext>>, At)>> ELSE <<>>) \o Tail(todo)
    /\ seen' = Append(seen, At)
    /\ UNCHANGED <<module, currentFunction, typechecked, errors>>
-----------------------------------------------------------------------------
(* Calls *)

\* A mutant: only the value itself is looked at.
isMutableShallow(v) ==
    CASE v.k \in {"variable", "argument", "index", "declaration"} -> v.mut
      [] OTHER -> IsMutableType(v.type)

\* From v into the first value of each of these kinds, as far as they go.
Along(v, kinds) ==
    LET inner[n \in 0..MaxDepth] ==
          IF n = 0 THEN v
          ELSE IF inner[n - 1].k \in kinds THEN inner[n - 1].of[1] ELSE inner[n - 1]
    IN  inner

Through == {"extract", "dereference", "reference"}
isMutable(v) ==
    LET root == Along(v, Through)[MaxDepth]
    IN  CASE root.k \in {"variable", "argument", "index", "declaration"} -> root.mut
          [] OTHER -> IsMutableType(root.type)

\* A field of self, or a field of a field of it.
IsSelf(v) == v.k \in {"variable", "argument"} /\ v.self
accessingSelf(v) == v.k = "index" /\ IsSelf(Along(v, {"index"})[MaxDepth])

\* Nothing of a zero value is visited, and only the arguments of a new object.
VisitZero == Visiting({"call"}) /\ It.form = "zero" /\ Descend(<<>>)
VisitObject == Visiting({"call"}) /\ It.form = "object" /\ Descend(All(It, At))

VisitEnumInit == Visiting({"call"}) /\ It.form = "enum" /\ Descend(All(It, At) \o Check(It, At))
\* A wrong number of arguments is reported, and each is compared with the field it has.
\* With more arguments than fields the comparison reads past the end of the fields.
\* Left out: an unknown name, for which the end of find_if is dereferenced (TypeChecker.cc 137),
\* and the BUG for a call that has no callee (200-201). The transformer makes neither.
CheckEnumInit ==
    /\ Checking("call") /\ It.form = "enum"
    /\ LET n == Len(It.of)
           m == Len(It.fields)
       IN  \E beyond \in [m + 1..n -> BOOLEAN] :
               Report({<<n # m, "enum arguments">>} \cup
                      {<<IF i > m THEN beyond[i] ELSE ~Is(It.of[i].type, It.fields[i]), "enum field">> : i \in 1..n})

\* The call of a value that is not a function: only the arguments follow.
VisitCallOfValue == Visiting({"call"}) /\ It.form = "value" /\ Descend(Check(It, At) \o All(It, At))
CheckCallOfValue == Checking("call") /\ It.form = "value" /\ Report({<<~It.callable, "not callable">>})

\* The function called is checked before the arguments of the call.
VisitCall ==
    /\ Visiting({"call"}) /\ It.form = "func"
    /\ Descend(Check(It, At) \o <<Visit([k |-> "func", f |-> It.f], <<>>)>>
               \o (IF It.of = <<>> THEN <<>> ELSE <<Task("mutability", It, At)>>) \o All(It, At))
CheckCall ==
    /\ Checking("call") /\ It.form = "func"
    /\ Report(FirstOf(<<<<Has(It.f, "NOT_IMPLEMENTED"), "not implemented">>,
                        <<Has(It.f, "UNSAFE") /\ ~unsafeContext, "unsafe call">>>>))

\* An assignment to what is not mutable, unless it is the first: the value is visited
\* here, and then again as an argument.
Refused(call) == call.assigns /\ ~call.ignoreMutability /\ ~isMutable(call.of[1]) /\ ~call.isInitialization
\* An assignment to something that may be assigned: nothing else is checked.
Assigns(call) == call.assigns /\ (call.ignoreMutability \/ isMutable(call.of[1]))
Assignable(v) == v.k \in {"variable", "argument", "declaration", "extract", "index", "dereference", "reference", "call"}

CheckMutability ==
    /\ Doing("mutability")
    /\ errors' = errors \cup Rules({<<It.assigns /\ accessingSelf(It.of[1]) /\ ~Func(currentFunction).mutating, "self">>,
                                   <<Assigns(It) /\ ~Assignable(It.of[1]) /\ Primitive(It.of[1].type), "assignable">>}, At)
    /\ todo' = (IF Refused(It) THEN Parts(It, At, 1, 1) \o <<Task("refuse", It, At)>> ELSE <<>>)
               \o (IF Assigns(It) THEN <<>> ELSE <<Task("mutating", It, At)>>) \o Tail(todo)
    /\ UNCHANGED <<context, seen>>

RefuseAssignment == Doing("refuse") /\ Report({<<TRUE, "assign">>})
CheckMutating == Doing("mutating") /\ Report({<<~Func(It.f).ctor /\ Func(It.f).mutating /\ ~isMutable(It.of[1]), "mutating call">>})
-----------------------------------------------------------------------------
Done == todo = <<>>
Finished == Done /\ UNCHANGED vars

Next ==
    \/ VisitLeaf \/ VisitVariable \/ CheckVariable
    \/ VisitDereferenceTo \/ CheckDereferenceTo \/ VisitReferenceTo \/ CheckReferenceTo
    \/ VisitIndexExtract \/ CheckIndexExtract \/ VisitVariableDeclaration \/ CheckVariableDeclaration
    \/ VisitThrow \/ VisitValueExtract \/ VisitTryCatch \/ VisitConditional \/ VisitWhileLoop
    \/ VisitSwitch \/ CheckCase \/ VisitCast \/ CheckCast \/ VisitReturn \/ CheckReturn
    \/ VisitFunc \/ Leave \/ VisitBlock
    \/ VisitZero \/ VisitObject \/ VisitEnumInit \/ CheckEnumInit \/ VisitCallOfValue \/ CheckCallOfValue
    \/ VisitCall \/ CheckCall \/ CheckMutability \/ RefuseAssignment \/ CheckMutating
    \/ Finished

Spec == Init /\ [][Next]_vars
-----------------------------------------------------------------------------
(* What a module holds: every place, with the values on the way to it. *)

Bodies(m) == {f \in Range(m.functions) : f.body # <<>>}
Tops(m) ==
    {[at |-> <<f.name>>, way |-> <<f.body[1]>>] : f \in Bodies(m)}
    \cup {[at |-> <<NoFunction, i>>, way |-> <<m.variables[i]>>] : i \in DOMAIN m.variables}
Child(p, i) == [at |-> Append(p.at, i), way |-> Append(p.way, Last(p.way).of[i])]
Children(p) == {Child(p, i) : i \in DOMAIN Last(p.way).of}

\* The places of m by their number of levels.
Levels(m) ==
    LET level[n \in 0..MaxDepth] == IF n = 0 THEN Tops(m) ELSE UNION {Children(p) : p \in level[n - 1]}
    IN  level
PlacesOf(m) == UNION {Levels(m)[n] : n \in 0..MaxDepth}
Places == PlacesOf(module)

Value(p) == Last(p.way)

\* What the IR has of each kind of value: a function that is known, and the parts that are visited by name.
WellFormed(v, m) ==
    /\ v.of \in Seq(Range(v.of))
    /\ v.k \in {"value", "variable", "argument", "func"} => v.of = <<>>
    /\ v.k \in {"dereference", "reference", "extract", "cast", "index"} => Len(v.of) = 1
    /\ v.k = "while" => Len(v.of) \in {2, 3}
    /\ v.k = "switch" => v.cases \in Nat /\ v.cases < Len(v.of) /\ (v.values # <<>> => Len(v.values) = v.cases)
    /\ v.k = "block" => v.unsafe \in BOOLEAN
    /\ v.k = "func" => v.f \in {f.name : f \in Range(m.functions)}
    /\ v.k = "call" =>
        /\ v.form \in {"zero", "object", "enum", "value", "func"}
        /\ v.form = "zero" => v.of = <<>>
        /\ v.form = "func" => v.f \in {f.name : f \in Range(m.functions)} /\ (v.assigns => v.of # <<>>)

ASSUME ProgramAssumption ==
    \A m \in Program :
        /\ m.functions \in Seq(Range(m.functions)) /\ m.variables \in Seq(Range(m.variables))
        /\ \A f, g \in Range(m.functions) : f.name = g.name => f = g
        /\ \A f \in Range(m.functions) : f.name # NoFunction /\ f.body \in Seq(Range(f.body)) /\ Len(f.body) <= 1
        /\ \A p \in PlacesOf(m) : WellFormed(Value(p), m)
ASSUME DepthAssumption == MaxDepth \in Nat /\ \A m \in Program : Levels(m)[MaxDepth] = {}

\* The values p lies in, each with the position taken there.
Steps(p) == {<<p.way[i], p.at[Len(p.at) - Len(p.way) + i + 1]>> : i \in 1..Len(p.way) - 1}

\* Default cases, the step of a for, and what a field is taken from are not visited.
Skipped(p) == \E s \in Steps(p) :
    \/ s[1].k = "switch" /\ s[2] > s[1].cases + 1
    \/ s[1].k = "while" /\ s[2] = 3
    \/ s[1].k = "index"
Reached == {p \in Places : ~Skipped(p)}

\* In an unsafe block of its function, or in the body of an unsafe function.
InUnsafe(p) ==
    \/ \E s \in Steps(p) : s[1].k = "block" /\ s[1].unsafe
    \/ \E f \in Bodies(module) : f.name = p.at[1] /\ "UNSAFE" \in f.attributes /\ "UNSAFE_FUNC_NOT_BODY" \notin f.attributes

IsUnsafe(v) ==
    \/ v.k = "dereference" /\ IsPointer(v.of[1].type)
    \/ v.k = "call" /\ v.form = "func" /\ Has(v.f, "UNSAFE") /\ ~Has(v.f, "NOT_IMPLEMENTED")
    \/ v.k = "cast" /\ PointerToFunction(v.of[1].type, v.type)

\* Assignments that are not the first and do not make an exception.
Assignment(v) == v.k = "call" /\ v.form = "func" /\ v.assigns /\ ~v.ignoreMutability /\ ~v.isInitialization

\* From the first value of p to r, through the first value of each of these kinds.
Offset(p) == Len(p.at) - Len(p.way)
Follows(p, r, kinds) ==
    LET n == Len(p.way)
    IN  /\ Len(r.way) > n /\ IsPrefix(p.at, r.at) /\ IsPrefix(p.way, r.way)
        /\ \A i \in n + 1..Len(r.way) : r.at[i + Offset(p)] = 1
        /\ \A i \in n + 1..Len(r.way) - 1 : r.way[i].k \in kinds

ReportedAt(rules) == {e.at : e \in {d \in errors : d.rule \in rules}}
UnsafeRules == {"unsafe dereference", "unsafe call", "unsafe cast"}
-----------------------------------------------------------------------------
(* Properties *)

\* Who calls a function first, or where a lambda stands, does not change what is reported
\* in it: exactly the unsafe operations outside of its own unsafe blocks (TypeChecker.cc
\* 58-71, 427-432; a function is checked only once, on whichever way leads to it first).
\* Only places in Reached are spoken of: the default cases of a switch, the step of a for and
\* what a field is taken from are never visited (172-177, 273, 302-305), and an unsafe
\* operation in them is accepted.
UnsafeExactly ==
    Done => ReportedAt(UnsafeRules) = {p.at : p \in {q \in Reached : IsUnsafe(Value(q)) /\ ~InUnsafe(q)}}

\* Every value is visited once, however many calls lead to its function and though functions
\* call themselves; the left side of a refused assignment twice, and twice again for every such
\* assignment around it (TypeChecker.cc 59, 189-244, 478-495).
VisitedOnce ==
    Done => \A p \in Places :
        LET refused == {s \in Steps(p) : Assignment(s[1]) /\ s[2] = 1 /\ ~isMutable(s[1].of[1])}
        IN  Cardinality({i \in DOMAIN seen : seen[i] = p.at}) = IF Skipped(p) THEN 0 ELSE 2 ^ Cardinality(refused)

\* In a module that is accepted, whatever is assigned through references, pointers and
\* extractions is mutable where these end, and a method that is not mutating assigns no field
\* of self (TypeChecker.cc 450-558).
ImmutableStays ==
    Done /\ errors = {} => \A p \in Reached : Assignment(Value(p)) => \A r \in Places :
        /\ Follows(p, r, Through) /\ Value(r).k \in {"variable", "argument", "index", "declaration"} => Value(r).mut
        /\ Follows(p, r, {"index"}) /\ Len(r.way) > Len(p.way) + 1 /\ IsSelf(Value(r)) => Func(p.at[1]).mutating
=============================================================================
