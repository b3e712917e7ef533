----------------------------- MODULE VirtualTables -----------------------------
(***************************************************************************)
(* The virtual tables of a program's classes: filled while the Transformer *)
(* generates the classes (transformClass.cc, transformFunction.cc,         *)
(* FunctionCache.cc), rearranged by the TypeChecker (fixTypes) and read by *)
(* the calls that LLVMBuilder emits (buildCall.cc).                        *)
(*                                                                         *)
(* A class [name, parent, field, methods] may have a field that points to  *)
(* a class; a method [name, override, does] may create an object of a      *)
(* class or call a method of its own class. All methods are virtual, those *)
(* of one name have one type, and names are numbers, in alphabetical       *)
(* order. No class is generic. todo holds what the visits on the C++ stack *)
(* have still to do.                                                       *)
(***************************************************************************)
EXTENDS Naturals, SequencesExt, FiniteSetsExt

NoClass == "none"

CONSTANTS
    Program,    \* programs, each a sequence of classes
    LastName    \* the names of methods are numbers up to this one

ASSUME LastNameAssumption == LastName \in Nat

\* A class names classes of its program, and calls methods that it has.
ASSUME ProgramAssumption ==
    \A p \in Program :
        LET Named == {p[i].name : i \in DOMAIN p}
            Does(c) == [name : 1 .. LastName, override : BOOLEAN,
                        does : [k : {"nothing"}, x : {NoClass}] \cup [k : {"new"}, x : Named]
                               \cup [k : {"call"}, x : {c.methods[i].name : i \in DOMAIN c.methods}]]
        IN  /\ DOMAIN p = 1 .. Len(p) /\ Len(p) \in Nat
            /\ \A i \in DOMAIN p : /\ p[i].name # NoClass
                                  /\ {p[i].parent, p[i].field} \subseteq Named \cup {NoClass}
                                  /\ p[i].methods \in Seq(Does(p[i]))

VARIABLES
    prog,        \* the program
    types,       \* Cache: class generated or under way -> its DefinedType
    known,       \* Module::typeInformation: the classes that are in it
    created,     \* Functions::createdFunctions: class -> name -> its functions, last first
    funcs,       \* the functions generated: [class, name, override, index]
    todo,        \* what remains to be done, first first
    stage,       \* "transform", "check" or "done"
    refused,     \* the functions reported as not marked override
    undefined    \* a map was read where it has no entry

vars == <<prog, types, known, created, funcs, todo, stage, refused, undefined>>

Names == {prog[i].name : i \in DOMAIN prog}
Class(c) == prog[CHOOSE i \in DOMAIN prog : prog[i].name = c]
Method(c, i) == Class(c).methods[i]
HasParent(c) == Class(c).parent # NoClass

Task(do, class, i) == [do |-> do, class |-> class, i |-> i]
TypeTask(c) == IF c = NoClass THEN <<>> ELSE <<Task("type", c, 0)>>

Doing(do) == todo # <<>> /\ Head(todo).do = do
This == Head(todo).class
Then(tasks) == todo' = tasks \o Tail(todo)

-----------------------------------------------------------------------------
(* The Transformer *)

Init ==
    /\ prog \in Program
    /\ types = <<>>
    /\ known = {}
    /\ created = [c \in Names |-> [n \in 1 .. LastName |-> <<>>]]
    /\ funcs = <<>>
    /\ todo = [i \in DOMAIN prog |-> Task("type", prog[i].name, 0)]
    /\ stage = "transform"
    /\ refused = {}
    /\ undefined = FALSE

\* The parent, the fields, what is inherited, and the methods: first declared, then generated.
Stages(c) ==
    TypeTask(Class(c).parent) \o TypeTask(Class(c).field)
    \o <<Task("inherit", c, 0), Task("declare", c, 0)>>
    \o [i \in DOMAIN Class(c).methods |-> Task("method", c, i)]

\* A class is registered and generated when it is first met.
VisitType ==
    /\ Doing("type")
    /\ IF This \in DOMAIN types
       THEN Then(<<>>) /\ UNCHANGED types
       ELSE /\ types' = [c \in DOMAIN types \cup {This} |->
                             IF c \in DOMAIN types THEN types[c]
                             ELSE [id |-> Cardinality(DOMAIN types), ancestors |-> <<>>, hasVtable |-> FALSE, vtable |-> <<>>]]
            /\ Then(Stages(This))
    /\ UNCHANGED <<prog, known, created, funcs, stage, refused, undefined>>

\* transformType returns a copy: what the table and the ancestors of c are now.
Copy(c) == [class |-> c, hasVtable |-> types[c].hasVtable, vtable |-> types[c].vtable]
Lineage(c) == Append(types[c].ancestors, Copy(c))

\* The functions of class c, by name.
InTable(c) == FlattenSeq(created[c])

\* setTransformedFunction: to the functions of that name there are, or as the first.
Inherited(there, more) == IF there = <<>> THEN more ELSE Reverse(more) \o there
FromAbove(up, n) ==
    LET from[i \in 0 .. Len(up)] == IF i = 0 THEN <<>> ELSE Inherited(from[i - 1], created[up[i].class][n])
    IN  from[Len(up)]

\* From the oldest ancestor down: its functions become this class's, and enter its table.
performInheritance ==
    /\ Doing("inherit")
    /\ IF ~HasParent(This) THEN UNCHANGED <<types, created>>
       ELSE LET up == Lineage(Class(This).parent)
            IN  /\ types' = [types EXCEPT ![This].ancestors = up,
                                          ![This].hasVtable = Last(up).hasVtable,
                                          ![This].vtable = FlattenSeq([i \in DOMAIN up |-> InTable(up[i].class)])]
                /\ created' = [created EXCEPT ![This] = [n \in 1 .. LastName |-> FromAbove(up, n)]]
    /\ Then(<<>>)
    /\ UNCHANGED <<prog, known, funcs, stage, refused, undefined>>

\* A mutant of DeclareMethods: typeInformation gets only the classes with methods.
DeclareMethodsOfVirtual ==
    /\ Doing("declare")
    /\ known' = IF Class(This).methods # <<>> THEN known \cup {This} ELSE known
    /\ LET own == Class(This).methods # <<>> \/ types[This].hasVtable
           up == Reverse(types[This].ancestors)
           k == SelectInSeq(up, LAMBDA a : a.class \notin known \/ types[a.class].hasVtable)
       IN  IF own \/ k = 0
           THEN types' = [types EXCEPT ![This].hasVtable = own] /\ UNCHANGED undefined
           ELSE /\ undefined' = (undefined \/ up[k].class \notin known)
                /\ types' = [types EXCEPT ![This].hasVtable = up[k].class \in known]
    /\ Then(<<>>)
    /\ UNCHANGED <<prog, created, funcs, stage, refused>>

\* Without virtual methods of its own a class has a table when an ancestor has one. The
\* ancestors are looked up in typeInformation, which one under way is not yet in.
DeclareMethods ==
    /\ Doing("declare")
    /\ known' = known \cup {This}
    /\ LET own == Class(This).methods # <<>> \/ types[This].hasVtable
           up == Reverse(types[This].ancestors)
           k == SelectInSeq(up, LAMBDA a : a.class \notin known \/ types[a.class].hasVtable)
       IN  IF own \/ k = 0
           THEN types' = [types EXCEPT ![This].hasVtable = own] /\ UNCHANGED undefined
           ELSE /\ undefined' = (undefined \/ up[k].class \notin known)
                /\ types' = [types EXCEPT ![This].hasVtable = up[k].class \in known]
    /\ Then(<<>>)
    /\ UNCHANGED <<prog, created, funcs, stage, refused>>

Body(c, does) ==
    CASE does.k = "new" -> TypeTask(does.x)
      [] does.k = "call" -> <<Task("call", c, CHOOSE i \in DOMAIN Class(c).methods : Method(c, i).name = does.x)>>
      [] OTHER -> <<>>

\* The function gets the next place in its class's table, and then its body.
transformFunction(c, i) ==
    LET m == Method(c, i)
        f == Len(funcs) + 1
    IN  /\ funcs' = Append(funcs, [class |-> c, name |-> m.name, override |-> m.override, index |-> Len(types[c].vtable)])
        /\ types' = [types EXCEPT ![c].vtable = Append(@, f)]
        /\ created' = [created EXCEPT ![c][m.name] = <<f>> \o @]
        /\ Then(Body(c, m.does))

VisitMethod ==
    /\ Doing("method")
    /\ transformFunction(This, Head(todo).i)
    /\ UNCHANGED <<prog, known, stage, refused, undefined>>

\* A mutant of CallMethod: a call generates its callee each time.
CallMethodAgain ==
    /\ Doing("call")
    /\ IF \E f \in ToSet(created[This][Method(This, Head(todo).i).name]) : f + 1 < Len(funcs) /\ funcs[f].class = This
       THEN Then(<<>>) /\ UNCHANGED <<funcs, types, created>>
       ELSE transformFunction(This, Head(todo).i)
    /\ UNCHANGED <<prog, known, stage, refused, undefined>>

\* shouldReturnOverload: a call generates its callee unless it is there.
CallMethod ==
    /\ Doing("call")
    /\ IF \E f \in ToSet(created[This][Method(This, Head(todo).i).name]) : funcs[f].class = This
       THEN Then(<<>>) /\ UNCHANGED <<funcs, types, created>>
       ELSE transformFunction(This, Head(todo).i)
    /\ UNCHANGED <<prog, known, stage, refused, undefined>>
-----------------------------------------------------------------------------
(* The TypeChecker *)

\* The types in the order of their ids, which count from 0.
StartCheck ==
    /\ stage = "transform" /\ todo = <<>>
    /\ stage' = "check"
    /\ todo' = [i \in 1 .. Cardinality(known) |-> Task("fix", CHOOSE c \in DOMAIN types : types[c].id = i - 1, 0)]
    /\ UNCHANGED <<prog, types, known, created, funcs, refused, undefined>>

\* One function of a list: into the place of the one it redefines, or behind all of them.
\* at is vtableIndex; setVirtualIndex sets index.
Placed(c, acc, f) ==
    LET k == SelectInSeq(acc.table, LAMBDA g : funcs[g].name = funcs[f].name)
    IN  IF k = 0
        THEN [acc EXCEPT !.table = Append(@, f), !.index[f] = acc.at, !.at = @ + 1]
        ELSE [acc EXCEPT !.table[k] = f, !.index[f] = k - 1, !.at = k,
                         !.refused = IF ~funcs[f].override /\ funcs[f].class = c THEN @ \cup {f} ELSE @]

\* A list is numbered from 0.
Listed(c, acc, list) ==
    LET upTo[j \in 0 .. Len(list)] == IF j = 0 THEN [acc EXCEPT !.at = 0] ELSE Placed(c, upTo[j - 1], list[j])
    IN  upTo[Len(list)]
Empty == [table |-> <<>>, index |-> [f \in DOMAIN funcs |-> funcs[f].index], at |-> 0, refused |-> {}]

\* A mutant of FixedTable: the class's own list comes first.
FixedTableOwnFirst(c, lists) ==
    LET upTo[i \in 0 .. Len(lists)] == IF i = 0 THEN Empty ELSE Listed(c, upTo[i - 1], Reverse(lists)[i])
    IN  upTo[Len(lists)]

\* The lists of the ancestors, the oldest first, and the class's own.
FixedTable(c, lists) ==
    LET upTo[i \in 0 .. Len(lists)] == IF i = 0 THEN Empty ELSE Listed(c, upTo[i - 1], lists[i])
    IN  upTo[Len(lists)]

fixTypes ==
    /\ Doing("fix")
    /\ IF ~types[This].hasVtable THEN UNCHANGED <<types, funcs, refused>>
       ELSE LET up == types[This].ancestors
                fixed == FixedTable(This, Append([i \in DOMAIN up |-> up[i].vtable], types[This].vtable))
            IN  /\ types' = [types EXCEPT ![This].vtable = fixed.table]
                /\ funcs' = [f \in DOMAIN funcs |->
                               [funcs[f] EXCEPT !.index = fixed.index[f], !.override = @ \/ f \in fixed.refused]]
                /\ refused' = refused \cup fixed.refused
    /\ Then(<<>>)
    /\ UNCHANGED <<prog, known, created, stage, undefined>>

EndCheck ==
    /\ stage = "check" /\ todo = <<>>
    /\ stage' = "done"
    /\ UNCHANGED <<prog, types, known, created, funcs, todo, refused, undefined>>

Done == stage = "done" /\ UNCHANGED vars

Next ==
    \/ VisitType \/ performInheritance \/ DeclareMethods \/ VisitMethod \/ CallMethod
    \/ StartCheck \/ fixTypes \/ EndCheck \/ Done

Spec == Init /\ [][Next]_vars
-----------------------------------------------------------------------------
(* The program that is run *)

Accepted == stage = "done" /\ refused = {} /\ ~undefined

\* A class that descends from c.
Below(d, c) ==
    /\ HasParent(d)
    /\ \A S \in SUBSET Names :
         Class(d).parent \in S /\ (\A x \in S : HasParent(x) => Class(x).parent \in S) => c \in S

\* c and the classes it descends from, and those of them that declare n.
Heritage(c) == {b \in Names : b = c \/ Below(c, b)}
Declares(c, n) == \E i \in DOMAIN Class(c).methods : Method(c, i).name = n
Declaring(c, n) == {b \in Heritage(c) : Declares(b, n)}
Redefines(c, n) == \E b \in Names : Below(c, b) /\ Declares(b, n)

\* A call of f on an object of class d loads this entry of its table (buildCall.cc); 0 when there is none.
Entry(f, d) == IF funcs[f].index < Len(types[d].vtable) THEN types[d].vtable[funcs[f].index + 1] ELSE 0

\* What it should reach: the method of the nearest class that has it.
Reaches(f, d) ==
    LET e == Entry(f, d)
        n == funcs[f].name
    IN  /\ e # 0
        /\ funcs[e].name = n
        /\ funcs[e].class \in Declaring(d, n)
        /\ \A b \in Declaring(d, n) \ {funcs[e].class} : Below(funcs[e].class, b)

Dispatches == {call \in (DOMAIN funcs) \X known : funcs[call[1]].class \in Heritage(call[2])}
-----------------------------------------------------------------------------
(* Programs that the tables are made for *)

\* What a class mentions, and where the generation of x leads.
News(c) == {Method(c, i).does.x : i \in {j \in DOMAIN Class(c).methods : Method(c, j).does.k = "new"}}
Mentions(c) == ({Class(c).parent, Class(c).field} \cup News(c)) \ {NoClass}
LeadsTo(x, d) == \A S \in SUBSET Names : x \in S /\ (\A c \in S : Mentions(c) \subseteq S) => d \in S

\* No class leads to one that descends from it.
MentionsNoDescendant == \A c, d \in Names : Below(d, c) => ~LeadsTo(c, d)

\* No class has two methods of one name; nothing in the code refuses that.
MethodsDiffer == \A c \in Names : \A i, j \in DOMAIN Class(c).methods : Method(c, i).name = Method(c, j).name => i = j

\* New methods are generated in alphabetical order, after all those of the classes above and right after
\* the last of these, or after the one new before them.
Ascending ==
    \A f \in DOMAIN funcs :
        LET own == {g \in 1 .. f - 1 : funcs[g].class = funcs[f].class}
            before == {funcs[g].name : g \in own} \cup {n \in 1 .. LastName : Redefines(funcs[f].class, n)}
        IN  \/ funcs[f].name \in before
            \/ \A n \in before : n < funcs[f].name /\ (own # {} => n <= funcs[Max(own)].name)
-----------------------------------------------------------------------------
(* Properties *)

\* Whether the methods before i lead to a call of it, directly or through the methods they call.
Calls(c, i, j) == Method(c, i).does = [k |-> "call", x |-> Method(c, j).name]
CalledBefore(c, i) ==
    \A S \in SUBSET DOMAIN Class(c).methods :
        (\A k, j \in DOMAIN Class(c).methods : (k < i \/ k \in S) /\ Calls(c, k, j) => j \in S) => i \in S

\* A method is refused when it redefines one without override, and also when one before it
\* leads to a call of it: it is then generated twice and its second function redefines the
\* first (TypeChecker.cc 765-796, FunctionDef.cc 122).
RefusesExactly ==
    stage = "done" /\ MentionsNoDescendant /\ MethodsDiffer =>
        {<<funcs[f].class, funcs[f].name>> : f \in refused} =
        UNION {{<<c, Method(c, i).name>> : i \in {j \in DOMAIN Class(c).methods :
                    ~Method(c, j).override /\ (Redefines(c, Method(c, j).name) \/ CalledBefore(c, j))}} : c \in Names}

\* Of a class that inherits a method from two classes above it that both declare it.
Hidden(n, d) == ~Declares(d, n) /\ Cardinality(Declaring(d, n)) > 1

\* When the names ascend and no class mentions one below it, a call reaches the nearest method,
\* except where the class of the object inherits it from two classes that declare it.
CallsReachOverride ==
    Accepted /\ MentionsNoDescendant /\ MethodsDiffer /\ Ascending =>
        \A call \in Dispatches : Reaches(call[1], call[2]) <=> ~Hidden(funcs[call[1]].name, call[2])

\* typeInformation lacks an ancestor only when that one is generated before it is entered
\* because its own parent or field leads to the class that looks for it.
FindsAncestors ==
    undefined => \E c, d \in Names :
        Below(d, c) /\ \E x \in {Class(c).parent, Class(c).field} \ {NoClass} : LeadsTo(x, d)
=============================================================================
