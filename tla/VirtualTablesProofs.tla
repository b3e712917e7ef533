------------------------- MODULE VirtualTablesProofs -------------------------
(***************************************************************************)
(* The virtual tables, proved for every set of programs. An ancestor that  *)
(* typeInformation lacks is one whose own parent or field leads to the     *)
(* class that looks for it. The methods that the TypeChecker refuses are   *)
(* those that redefine one without override and those that are generated   *)
(* twice, because a method before them leads to a call of them. And when   *)
(* names ascend a call reaches the nearest method.                         *)
(*                                                                         *)
(* The second needs what FlattenSeq, FromAbove and FixedTable compute, and *)
(* an invariant of three parts: while the classes are generated, which of  *)
(* their methods have a function and which have two, which functions a     *)
(* table holds, and which ancestors a class has; then, which classes still *)
(* wait for their check with all of that, and which were checked.          *)
(*                                                                         *)
(* The third needs in what order the functions of a table were generated:  *)
(* what is inherited, then what is new, each name's oldest function last   *)
(* of what is inherited. From that the check makes a table in the order of *)
(* the names, the same in all classes of a line as far as they share them, *)
(* so that the number of a method is its place in every table that has it. *)
(***************************************************************************)
EXTENDS VirtualTables, FiniteSetTheorems, SequenceTheorems, WellFoundedInduction, TLAPS

\* The parent or a field of class c leads to d: they come before c is declared.
Via(c, d) == \E x \in {Class(c).parent, Class(c).field} \ {NoClass} : LeadsTo(x, d)

Kinds == {"type", "inherit", "declare", "method", "call"}
Tasks == {t \in [do : Kinds, class : Names, i : Nat] :
            t.do \in {"method", "call"} => t.i \in DOMAIN Class(t.class).methods}

\* The ancestors that class c has so far are classes above it that have been met.
LineageOK(c) ==
  LET up == types[c].ancestors
  IN  /\ up \in Seq({up[k] : k \in DOMAIN up})
      /\ \A k \in DOMAIN up : up[k].class \in DOMAIN types /\ Below(c, up[k].class)

Typed ==
  /\ prog \in Program /\ known \subseteq Names /\ DOMAIN types \subseteq Names /\ undefined \in BOOLEAN
  /\ \A c \in DOMAIN types : DOMAIN types[c] = {"id", "ancestors", "hasVtable", "vtable"} /\ LineageOK(c)
  /\ stage = "transform" => todo \in Seq(Tasks)
  /\ stage # "transform" => /\ todo \in Seq({todo[i] : i \in DOMAIN todo})
                            /\ \A i \in DOMAIN todo : todo[i].do = "fix"

\* A class that was met has been declared or waits for it.
Declared(q) ==
  /\ \A c \in DOMAIN types : c \in known \/ \E j \in 1..Len(q) : q[j].do = "declare" /\ q[j].class = c
  /\ \A j \in 1..Len(q) : q[j].do = "declare" => q[j].class \in DOMAIN types

\* Before a class is declared come what it inherits and what its parent and its field lead to.
Ordered(q) ==
  \A i, j \in 1..Len(q) : i < j /\ q[j].do = "declare" =>
      \/ q[i].do = "inherit" /\ q[i].class = q[j].class
      \/ Via(q[j].class, q[i].class)

\* A class inherits from one that was met, or that will be before.
ParentsFirst(q) ==
  \A j \in 1..Len(q) : q[j].do = "inherit" /\ HasParent(q[j].class) =>
      \/ Class(q[j].class).parent \in DOMAIN types
      \/ \E i \in 1..(j - 1) : q[i].do = "type" /\ q[i].class = Class(q[j].class).parent

IInv ==
  /\ Typed
  /\ stage = "transform" => Declared(todo) /\ Ordered(todo) /\ ParentsFirst(todo)
  /\ FindsAncestors

-----------------------------------------------------------------------------
(* The program *)

\* A set of numbers has a least one.
LEMMA Least ==
  ASSUME NEW S \in SUBSET Nat, S # {}
  PROVE  \E n \in S : \A y \in S : n <= y
<1> DEFINE Less == {ss \in Nat \X Nat : ss[1] < ss[2]}
<1>1. IsWellFoundedOn(Less, Nat)
  BY NatLessThanWellFounded, Zenon DEF OpToRel
<1>2. \E n \in S : \A y \in S : ~(<<y, n>> \in Less)
  BY <1>1, WFMin, Zenon
<1>3. \A n, y \in S : <<y, n>> \in Less <=> y < n
  OBVIOUS
<1> HIDE DEF Less
<1>4. PICK n \in S : \A y \in S : ~(y < n)
  BY <1>2, <1>3
<1>5. \A y \in S : n <= y
  BY <1>4
<1> QED
  BY <1>5

\* What is said of the program stays true while it is transformed.
LEMMA Static ==
  ASSUME prog' = prog
  PROVE  /\ Names' = Names
         /\ \A c : Class(c)' = Class(c)
         /\ \A c : HasParent(c)' = HasParent(c)
         /\ \A x, d : LeadsTo(x, d)' = LeadsTo(x, d)
         /\ \A c, d : Below(c, d)' = Below(c, d)
         /\ \A c, d : Via(c, d)' = Via(c, d)
         /\ Tasks' = Tasks
<1>1. Names' = Names
  BY DEF Names
<1>2. ASSUME NEW c PROVE Class(c)' = Class(c)
  BY DEF Class
<1>3. ASSUME NEW c PROVE HasParent(c)' = HasParent(c)
  BY <1>2 DEF HasParent
<1>4. ASSUME NEW c PROVE News(c)' = News(c)
  BY <1>2 DEF News, Method
<1>5. ASSUME NEW c PROVE Mentions(c)' = Mentions(c)
  BY <1>2, <1>4 DEF Mentions
<1>6. ASSUME NEW x, NEW d PROVE LeadsTo(x, d)' = LeadsTo(x, d)
  BY <1>1, <1>5 DEF LeadsTo
<1>7. ASSUME NEW c, NEW d PROVE Below(c, d)' = Below(c, d)
  BY <1>1, <1>2, <1>3 DEF Below
<1>8. ASSUME NEW c, NEW d PROVE Via(c, d)' = Via(c, d)
  BY <1>2, <1>6 DEF Via
<1>9. Tasks' = Tasks
  BY <1>1, <1>2 DEF Tasks
<1> QED
  BY <1>1, <1>2, <1>3, <1>6, <1>7, <1>8, <1>9

\* A class of the program names classes of the program.
LEMMA ClassType ==
  ASSUME prog \in Program, NEW c \in Names
  PROVE  /\ c # NoClass
         /\ {Class(c).parent, Class(c).field} \subseteq Names \cup {NoClass}
         /\ Class(c).methods \in Seq({Class(c).methods[i] : i \in DOMAIN Class(c).methods})
         /\ \A i \in DOMAIN Class(c).methods :
              LET does == Method(c, i).does
              IN  /\ does.k = "new" => does.x \in Names
                  /\ does.k = "call" => \E j \in DOMAIN Class(c).methods : Method(c, j).name = does.x
                  /\ Method(c, i).name \in 1 .. LastName /\ Method(c, i).override \in BOOLEAN
                  /\ does = [k |-> does.k, x |-> does.x]
<1>1. PICK n \in DOMAIN prog : Class(c) = prog[n] /\ prog[n].name = c
  BY DEF Class, Names
<1> DEFINE Named == {prog[i].name : i \in DOMAIN prog}
           Does(d) == [name : 1 .. LastName, override : BOOLEAN,
                       does : [k : {"nothing"}, x : {NoClass}] \cup [k : {"new"}, x : Named]
                              \cup [k : {"call"}, x : {d.methods[i].name : i \in DOMAIN d.methods}]]
<1>2. /\ prog[n].name # NoClass
      /\ {prog[n].parent, prog[n].field} \subseteq Named \cup {NoClass}
      /\ prog[n].methods \in Seq(Does(prog[n]))
  BY ProgramAssumption
<1>3. ASSUME NEW i \in DOMAIN Class(c).methods
      PROVE  /\ Method(c, i).does \in
                  [k : {"nothing"}, x : {NoClass}] \cup [k : {"new"}, x : Named]
                  \cup [k : {"call"}, x : {prog[n].methods[j].name : j \in DOMAIN prog[n].methods}]
             /\ Method(c, i).name \in 1 .. LastName /\ Method(c, i).override \in BOOLEAN
  <2>1. Method(c, i) \in Does(prog[n])
    <3>1. prog[n].methods \in Seq(Does(prog[n])) /\ i \in DOMAIN prog[n].methods
      BY <1>1, <1>2
    <3> HIDE DEF Does
    <3> QED
      BY <1>1, <3>1 DEF Method
  <2> QED
    BY <2>1
<1>4. Class(c).methods \in Seq({Class(c).methods[i] : i \in DOMAIN Class(c).methods})
  <2>1. Class(c).methods \in Seq(Does(prog[n]))
    BY <1>1, <1>2
  <2> HIDE DEF Does
  <2> QED
    BY <2>1
<1>5. ASSUME NEW i \in DOMAIN Class(c).methods
      PROVE  LET does == Method(c, i).does
             IN  /\ does.k = "new" => does.x \in Names
                 /\ does.k = "call" => \E j \in DOMAIN Class(c).methods : Method(c, j).name = does.x
                 /\ Method(c, i).name \in 1 .. LastName /\ Method(c, i).override \in BOOLEAN
                 /\ does = [k |-> does.k, x |-> does.x]
  <2>1. Method(c, i).does.k = "new" => Method(c, i).does.x \in Names
    BY <1>3 DEF Names
  <2>2. Method(c, i).does.k = "call" => \E j \in DOMAIN Class(c).methods : Method(c, j).name = Method(c, i).does.x
    BY <1>1, <1>3 DEF Method
  <2>3. Method(c, i).does = [k |-> Method(c, i).does.k, x |-> Method(c, i).does.x]
    BY <1>3
  <2> QED
    BY <1>3, <2>1, <2>2, <2>3
<1>6. c # NoClass /\ {Class(c).parent, Class(c).field} \subseteq Names \cup {NoClass}
  BY <1>1, <1>2 DEF Names
<1> QED
  BY <1>4, <1>5, <1>6

\* Leading goes over what a class mentions.
LEMMA LeadsOn ==
  ASSUME NEW x, NEW c, NEW d \in Mentions(c), LeadsTo(x, c)
  PROVE  LeadsTo(x, d)
BY DEF LeadsTo

\* A class leads to itself.
LEMMA LeadsAtOnce ==
  ASSUME NEW x
  PROVE  LeadsTo(x, x)
BY DEF LeadsTo

\* What comes before a class is declared still does when it is taken apart.
LEMMA ViaOn ==
  ASSUME NEW c, NEW x, NEW d \in Mentions(x), Via(c, x)
  PROVE  Via(c, d)
BY LeadsOn DEF Via

\* Before a class come at once its parent and its field.
LEMMA ViaAtOnce ==
  ASSUME NEW c, NEW d \in {Class(c).parent, Class(c).field} \ {NoClass}
  PROVE  Via(c, d)
BY LeadsAtOnce DEF Via

\* Descent goes from a class to its parent's ancestors.
LEMMA BelowOn ==
  ASSUME NEW c, HasParent(c), NEW a, a = Class(c).parent \/ Below(Class(c).parent, a)
  PROVE  Below(c, a)
BY DEF Below

\* A class that descends from itself leads to itself by its parent.
LEMMA BelowItself ==
  ASSUME NEW c, Below(c, c)
  PROVE  Via(c, c)
<1>1. Class(c).parent # NoClass
  BY DEF Below, HasParent
<1>2. ASSUME NEW S \in SUBSET Names, Class(c).parent \in S, \A x \in S : Mentions(x) \subseteq S
      PROVE  c \in S
  <2>1. \A x \in S : HasParent(x) => Class(x).parent \in S
    BY <1>2 DEF HasParent, Mentions
  <2> QED
    BY <1>2, <2>1 DEF Below
<1>3. LeadsTo(Class(c).parent, c)
  BY <1>2 DEF LeadsTo
<1> QED
  BY <1>1, <1>3 DEF Via
-----------------------------------------------------------------------------
(* What remains to be done *)

\* The head of a queue of tasks, and what is left when others take its place.
LEMMA Replaced ==
  ASSUME NEW S, NEW q \in Seq(S), q # <<>>, NEW s \in Seq(S), NEW r, r = s \o Tail(q)
  PROVE  /\ Len(q) \in Nat \ {0} /\ Len(s) \in Nat /\ Head(q) = q[1] /\ q[1] \in S
         /\ r \in Seq(S) /\ Len(r) = Len(s) + Len(q) - 1
         /\ \A i \in 1..Len(s) : r[i] = s[i]
         /\ \A i \in 1..Len(r) : i > Len(s) => r[i] = q[i - Len(s) + 1]
         /\ \A i \in 2..Len(q) : i + Len(s) - 1 \in 1..Len(r) /\ r[i + Len(s) - 1] = q[i]
<1>1. Len(q) \in Nat \ {0} /\ Len(s) \in Nat /\ Head(q) = q[1] /\ q[1] \in S
  OBVIOUS
<1>2. Tail(q) \in Seq(S) /\ Len(Tail(q)) = Len(q) - 1 /\ \A i \in 1..(Len(q) - 1) : Tail(q)[i] = q[i + 1]
  BY <1>1
<1> DEFINE t == Tail(q)
<1>r. r = s \o t
  OBVIOUS
<1> HIDE DEF t
<1>3. t \in Seq(S) /\ Len(t) = Len(q) - 1 /\ \A i \in 1..(Len(q) - 1) : t[i] = q[i + 1]
  BY <1>2 DEF t
<1>4. /\ r \in Seq(S) /\ Len(r) = Len(s) + Len(t)
      /\ \A i \in 1..Len(r) : r[i] = IF i <= Len(s) THEN s[i] ELSE t[i - Len(s)]
  <2>1. /\ r \in Seq(S) /\ Len(r) = Len(s) + Len(t)
        /\ \A i \in 1..(Len(s) + Len(t)) : r[i] = IF i <= Len(s) THEN s[i] ELSE t[i - Len(s)]
    <3>1. /\ s \o t \in Seq(S) /\ Len(s \o t) = Len(s) + Len(t)
          /\ \A i \in 1..(Len(s) + Len(t)) : (s \o t)[i] = IF i <= Len(s) THEN s[i] ELSE t[i - Len(s)]
      BY <1>3, ConcatProperties
    <3> QED
      BY <1>r, <3>1
  <2> QED
    BY <2>1
<1>5. \A i \in 1..Len(s) : r[i] = s[i]
  BY <1>1, <1>3, <1>4
<1>6. \A i \in 1..Len(r) : i > Len(s) => r[i] = q[i - Len(s) + 1]
  <2> SUFFICES ASSUME NEW i \in 1..Len(r), i > Len(s) PROVE r[i] = q[i - Len(s) + 1]
    OBVIOUS
  <2>1. r[i] = t[i - Len(s)] /\ i - Len(s) \in 1..(Len(q) - 1)
    BY <1>1, <1>3, <1>4
  <2> QED
    BY <1>3, <2>1
<1>7. ASSUME NEW i \in 2..Len(q)
      PROVE  i + Len(s) - 1 \in 1..Len(r) /\ r[i + Len(s) - 1] = q[i]
  <2>1. i + Len(s) - 1 \in 1..Len(r) /\ i + Len(s) - 1 > Len(s)
    BY <1>1, <1>3, <1>4
  <2>2. (i + Len(s) - 1) - Len(s) + 1 = i
    BY <1>1
  <2> QED
    BY <1>6, <2>1, <2>2
<1> QED
  BY <1>1, <1>3, <1>4, <1>5, <1>6, <1>7

\* Replacing the first task by others that what follows it may wait for keeps the order.
LEMMA OrderedStep ==
  ASSUME NEW q \in Seq(Tasks), q # <<>>, NEW s \in Seq(Tasks), Ordered(q), Ordered(s),
         \A j \in 2..Len(q), i \in 1..Len(s) :
           q[j].do = "declare" /\ Via(q[j].class, q[1].class) => Via(q[j].class, s[i].class),
         s # <<>> => q[1].do # "inherit"
  PROVE  Ordered(s \o Tail(q))
<1> DEFINE r == s \o Tail(q)
<1>r. r = s \o Tail(q)
  OBVIOUS
<1> HIDE DEF r
<1>1. /\ Len(q) \in Nat \ {0} /\ Len(s) \in Nat
      /\ r \in Seq(Tasks) /\ Len(r) = Len(s) + Len(q) - 1
      /\ \A i \in 1..Len(s) : r[i] = s[i]
      /\ \A i \in 1..Len(r) : i > Len(s) => r[i] = q[i - Len(s) + 1]
  BY <1>r, Replaced
<1> SUFFICES ASSUME NEW i \in 1..Len(r), NEW j \in 1..Len(r), i < j, r[j].do = "declare"
             PROVE  (r[i].do = "inherit" /\ r[i].class = r[j].class) \/ Via(r[j].class, r[i].class)
  BY DEF Ordered, r
<1>2. CASE j <= Len(s)
  <2>1. i \in 1..Len(s) /\ j \in 1..Len(s) /\ r[i] = s[i] /\ r[j] = s[j]
    BY <1>1, <1>2
  <2> QED
    BY <2>1 DEF Ordered
<1>3. CASE j > Len(s) /\ i > Len(s)
  <2>1. r[i] = q[i - Len(s) + 1] /\ r[j] = q[j - Len(s) + 1]
    BY <1>1, <1>3
  <2>2. /\ i - Len(s) + 1 \in 1..Len(q) /\ j - Len(s) + 1 \in 1..Len(q)
        /\ i - Len(s) + 1 < j - Len(s) + 1
    BY <1>1, <1>3
  <2> QED
    BY <2>1, <2>2 DEF Ordered
<1>4. CASE j > Len(s) /\ i <= Len(s)
  <2>1. r[j] = q[j - Len(s) + 1] /\ j - Len(s) + 1 \in 2..Len(q) /\ r[i] = s[i] /\ i \in 1..Len(s) /\ s # <<>>
    BY <1>1, <1>4
  <2>2. Via(q[j - Len(s) + 1].class, q[1].class)
    BY <1>1, <2>1 DEF Ordered
  <2> QED
    BY <2>1, <2>2
<1> QED
  BY <1>1, <1>2, <1>3, <1>4

\* Every class still inherits from one that is met before.
LEMMA ParentsFirstStep ==
  ASSUME todo \in Seq(Tasks), todo # <<>>, NEW s \in Seq(Tasks), todo' = s \o Tail(todo), ParentsFirst(todo), prog' = prog,
         DOMAIN types \subseteq DOMAIN types',
         todo[1].do = "type" => todo[1].class \in DOMAIN types',
         \A j \in 1..Len(s) : s[j].do = "inherit" /\ HasParent(s[j].class) =>
           \E i \in 1..(j - 1) : s[i].do = "type" /\ s[i].class = Class(s[j].class).parent
  PROVE  ParentsFirst(todo)'
<1>1. /\ Len(todo) \in Nat \ {0} /\ Len(s) \in Nat
      /\ todo' \in Seq(Tasks) /\ Len(todo') = Len(s) + Len(todo) - 1
      /\ \A i \in 1..Len(s) : todo'[i] = s[i]
      /\ \A i \in 1..Len(todo') : i > Len(s) => todo'[i] = todo[i - Len(s) + 1]
      /\ \A i \in 2..Len(todo) : i + Len(s) - 1 \in 1..Len(todo') /\ todo'[i + Len(s) - 1] = todo[i]
  BY Replaced
<1> DEFINE Before(j) == \E i \in 1..(j - 1) : todo'[i].do = "type" /\ todo'[i].class = Class(todo'[j].class).parent
<1>2. ASSUME NEW j \in 1..Len(todo'), todo'[j].do = "inherit", HasParent(todo'[j].class)
      PROVE  Class(todo'[j].class).parent \in DOMAIN types' \/ Before(j)
  <2>1. CASE j <= Len(s)
    <3>1. j \in 1..Len(s) /\ todo'[j] = s[j]
      BY <1>1, <2>1
    <3>2. PICK i \in 1..(j - 1) : s[i].do = "type" /\ s[i].class = Class(s[j].class).parent
      BY <1>2, <3>1
    <3>3. todo'[i] = s[i]
      BY <1>1, <3>1, <3>2
    <3> QED
      BY <3>1, <3>2, <3>3
  <2>2. CASE j > Len(s)
    <3> DEFINE k == j - Len(s) + 1
    <3>1. todo'[j] = todo[k] /\ k \in 2..Len(todo) /\ j = k + Len(s) - 1
      <4>1. k \in 2..Len(todo) /\ j = k + Len(s) - 1
        BY <1>1, <2>2
      <4>2. todo'[j] = todo[k]
        BY <1>1, <2>2
      <4> QED
        BY <4>1, <4>2
    <3> HIDE DEF k
    <3>2. CASE Class(todo[k].class).parent \in DOMAIN types
      BY <3>1, <3>2
    <3>3. ASSUME NEW i \in 1..(k - 1), todo[i].do = "type", todo[i].class = Class(todo[k].class).parent
          PROVE  Class(todo'[j].class).parent \in DOMAIN types' \/ Before(j)
      <4>1. CASE i = 1
        BY <3>1, <3>3, <4>1
      <4>2. CASE i # 1
        <5>1. i \in 2..Len(todo) /\ i + Len(s) - 1 \in 1..(j - 1)
          BY <1>1, <3>1, <4>2
        <5>2. todo'[i + Len(s) - 1] = todo[i]
          BY <1>1, <5>1
        <5> QED
          BY <3>1, <3>3, <5>1, <5>2
      <4> QED
        BY <4>1, <4>2
    <3>4. k \in 1..Len(todo)
      BY <1>1, <3>1
    <3> QED
      BY <1>2, <3>1, <3>2, <3>3, <3>4 DEF ParentsFirst
  <2> QED
    BY <1>1, <2>1, <2>2
<1>3. \A c : Class(c)' = Class(c)
  BY Static
<1>4. \A c : HasParent(c)' = HasParent(c)
  BY Static
<1> QED
  BY <1>2, <1>3, <1>4 DEF ParentsFirst

\* Every class that was met still has its declaration before it.
LEMMA DeclaredStep ==
  ASSUME todo \in Seq(Tasks), todo # <<>>, NEW s \in Seq(Tasks), todo' = s \o Tail(todo),
         Declared(todo), known \subseteq known', DOMAIN types \subseteq DOMAIN types',
         \A j \in 1..Len(s) : s[j].do = "declare" => s[j].class \in DOMAIN types',
         todo[1].do = "declare" => todo[1].class \in known',
         \A c \in DOMAIN types' \ DOMAIN types : \E j \in 1..Len(s) : s[j].do = "declare" /\ s[j].class = c
  PROVE  Declared(todo)'
<1>1. /\ Len(todo) \in Nat \ {0} /\ Len(s) \in Nat /\ Len(todo') = Len(s) + Len(todo) - 1
      /\ \A i \in 1..Len(s) : todo'[i] = s[i]
      /\ \A i \in 1..Len(todo') : i > Len(s) => todo'[i] = todo[i - Len(s) + 1]
      /\ \A i \in 2..Len(todo) : i + Len(s) - 1 \in 1..Len(todo') /\ todo'[i + Len(s) - 1] = todo[i]
  BY Replaced
<1>2. ASSUME NEW c \in DOMAIN types', c \notin known'
      PROVE  \E j \in 1..Len(todo') : todo'[j].do = "declare" /\ todo'[j].class = c
  <2>1. CASE c \in DOMAIN types
    <3>1. PICK j \in 1..Len(todo) : todo[j].do = "declare" /\ todo[j].class = c
      BY <1>2, <2>1 DEF Declared
    <3>2. j \in 2..Len(todo)
      BY <1>1, <1>2, <3>1
    <3>3. j + Len(s) - 1 \in 1..Len(todo') /\ todo'[j + Len(s) - 1] = todo[j]
      BY <1>1, <3>2
    <3> QED
      BY <3>1, <3>3
  <2>2. CASE c \notin DOMAIN types
    <3>1. PICK j \in 1..Len(s) : s[j].do = "declare" /\ s[j].class = c
      BY <1>2, <2>2
    <3>2. j \in 1..Len(todo')
      BY <1>1, <3>1
    <3> QED
      BY <1>1, <3>1, <3>2
  <2> QED
    BY <2>1, <2>2
<1>3. ASSUME NEW j \in 1..Len(todo'), todo'[j].do = "declare" PROVE todo'[j].class \in DOMAIN types'
  <2>1. CASE j <= Len(s)
    <3>1. j \in 1..Len(s) /\ todo'[j] = s[j]
      BY <1>1, <2>1
    <3> QED
      BY <1>3, <3>1
  <2>2. CASE j > Len(s)
    <3>1. j - Len(s) + 1 \in 1..Len(todo) /\ todo'[j] = todo[j - Len(s) + 1]
      BY <1>1, <2>2
    <3> QED
      BY <1>3, <3>1 DEF Declared
  <2> QED
    BY <1>1, <2>1, <2>2
<1> QED
  BY <1>2, <1>3 DEF Declared

\* What is said of the ancestors of a class stays true when they do not change.
LEMMA LineageStep ==
  ASSUME prog' = prog, DOMAIN types \subseteq DOMAIN types', NEW c \in DOMAIN types, LineageOK(c),
         types'[c].ancestors = types[c].ancestors
  PROVE  LineageOK(c)'
<1>1. \A a : Below(c, a)' = Below(c, a)
  BY Static
<1> QED
  BY <1>1 DEF LineageOK

\* The stages of a class, behind n types.
StagesAre(c, n) ==
  /\ Len(Stages(c)) = n + 2 + Len(Class(c).methods)
  /\ \A i \in 1..n : Stages(c)[i].do = "type"
  /\ Stages(c)[n + 1] = Task("inherit", c, 0) /\ Stages(c)[n + 2] = Task("declare", c, 0)
  /\ \A i \in 1..Len(Class(c).methods) : Stages(c)[n + 2 + i] = Task("method", c, i)

\* What the generation of a class comes to.
LEMMA StagesType ==
  ASSUME prog \in Program, NEW c \in Names
  PROVE  /\ Stages(c) \in Seq(Tasks) /\ Stages(c) # <<>> /\ Ordered(Stages(c))
         /\ \A j \in 1..Len(Stages(c)) : Stages(c)[j].class \in {c} \cup Mentions(c)
         /\ \A j \in 1..Len(Stages(c)) : Stages(c)[j].do = "inherit" /\ HasParent(Stages(c)[j].class) =>
              \E i \in 1..(j - 1) : Stages(c)[i].do = "type" /\ Stages(c)[i].class = Class(Stages(c)[j].class).parent
         /\ \A j \in 1..Len(Stages(c)) : Stages(c)[j].do = "declare" => Stages(c)[j].class = c
         /\ \E j \in 1..Len(Stages(c)) : Stages(c)[j].do = "declare" /\ Stages(c)[j].class = c
         /\ \E n \in Nat : StagesAre(c, n)
<1> DEFINE up == TypeTask(Class(c).parent)
           in == TypeTask(Class(c).field)
           own == <<Task("inherit", c, 0), Task("declare", c, 0)>>
           ms == [i \in DOMAIN Class(c).methods |-> Task("method", c, i)]
           s == Stages(c)
<1>1. /\ {Class(c).parent, Class(c).field} \ {NoClass} \subseteq Names
      /\ DOMAIN Class(c).methods = 1..Len(Class(c).methods) /\ Len(Class(c).methods) \in Nat
  <2>1. Class(c).methods \in Seq({Class(c).methods[i] : i \in DOMAIN Class(c).methods})
    BY ClassType
  <2>2. {Class(c).parent, Class(c).field} \subseteq Names \cup {NoClass}
    BY ClassType
  <2> QED
    BY <2>1, <2>2
<1>2. ASSUME NEW x \in {Class(c).parent, Class(c).field}
      PROVE  /\ TypeTask(x) \in Seq(Tasks) /\ Len(TypeTask(x)) = IF x = NoClass THEN 0 ELSE 1
             /\ \A i \in 1..Len(TypeTask(x)) : TypeTask(x)[i].do = "type" /\ TypeTask(x)[i].class = x
  <2>1. x # NoClass => Task("type", x, 0) \in Tasks
    BY <1>1 DEF Task, Tasks, Kinds
  <2> QED
    BY <2>1 DEF TypeTask, Task
<1>3. own \in Seq(Tasks) /\ Len(own) = 2
  BY DEF Task, Tasks, Kinds
<1>4. ms \in Seq(Tasks) /\ Len(ms) = Len(Class(c).methods) /\ \A i \in 1..Len(ms) : ms[i] = Task("method", c, i)
  <2>1. \A i \in DOMAIN Class(c).methods : Task("method", c, i) \in Tasks
    BY <1>1 DEF Task, Tasks, Kinds
  <2> QED
    BY <1>1, <2>1
<1>5. s = ((up \o in) \o own) \o ms
  BY DEF Stages
<1>6. own[1] = Task("inherit", c, 0) /\ own[2] = Task("declare", c, 0)
  OBVIOUS
<1>7. /\ up \in Seq(Tasks) /\ Len(up) = (IF Class(c).parent = NoClass THEN 0 ELSE 1)
      /\ in \in Seq(Tasks) /\ Len(in) = (IF Class(c).field = NoClass THEN 0 ELSE 1)
      /\ \A i \in 1..Len(up) : up[i].do = "type" /\ up[i].class = Class(c).parent
      /\ \A i \in 1..Len(in) : in[i].do = "type" /\ in[i].class = Class(c).field
  BY <1>2
<1> HIDE DEF up, in, own, ms, s
<1> DEFINE a == Len(up)
           b == Len(up) + Len(in)
<1>8. /\ s \in Seq(Tasks) /\ Len(s) = b + 2 + Len(ms)
      /\ \A i \in 1..Len(s) : s[i] = IF i <= a THEN up[i] ELSE IF i <= b THEN in[i - a]
                                      ELSE IF i <= b + 2 THEN own[i - b] ELSE ms[i - (b + 2)]
  <2>1. /\ up \o in \in Seq(Tasks) /\ Len(up \o in) = b
        /\ \A i \in 1..b : (up \o in)[i] = IF i <= a THEN up[i] ELSE in[i - a]
    BY <1>7, ConcatProperties
  <2> DEFINE one == up \o in
             two == one \o own
  <2> HIDE DEF one
  <2>2. /\ one \in Seq(Tasks) /\ Len(one) = b
        /\ \A i \in 1..b : one[i] = IF i <= a THEN up[i] ELSE in[i - a]
    BY <2>1 DEF one
  <2>3. /\ two \in Seq(Tasks) /\ Len(two) = b + 2
        /\ \A i \in 1..(b + 2) : two[i] = IF i <= b THEN one[i] ELSE own[i - b]
    <3>1. /\ two \in Seq(Tasks) /\ Len(two) = Len(one) + Len(own)
          /\ \A i \in 1..(Len(one) + Len(own)) : two[i] = IF i <= Len(one) THEN one[i] ELSE own[i - Len(one)]
      <4>1. one \in Seq(Tasks) /\ own \in Seq(Tasks)
        BY <1>3, <2>2
      <4> QED
        BY <4>1, ConcatProperties
    <3> QED
      BY <1>3, <2>2, <3>1
  <2> HIDE DEF two
  <2>4. /\ two \o ms \in Seq(Tasks) /\ Len(two \o ms) = b + 2 + Len(ms)
        /\ \A i \in 1..(b + 2 + Len(ms)) : (two \o ms)[i] = IF i <= b + 2 THEN two[i] ELSE ms[i - (b + 2)]
    <3>1. /\ two \o ms \in Seq(Tasks) /\ Len(two \o ms) = Len(two) + Len(ms)
          /\ \A i \in 1..(Len(two) + Len(ms)) : (two \o ms)[i] = IF i <= Len(two) THEN two[i] ELSE ms[i - Len(two)]
      <4>1. two \in Seq(Tasks) /\ ms \in Seq(Tasks)
        BY <1>4, <2>3
      <4> QED
        BY <4>1, ConcatProperties
    <3> QED
      BY <2>3, <3>1
  <2>5. s = two \o ms
    BY <1>5 DEF one, two
  <2>6. s \in Seq(Tasks) /\ Len(s) = b + 2 + Len(ms)
    BY <2>4, <2>5
  <2>7. a \in Nat /\ b \in Nat /\ Len(ms) \in Nat /\ a <= b
    BY <1>4, <1>7
  <2>8. ASSUME NEW i \in 1..Len(s)
        PROVE  s[i] = IF i <= a THEN up[i] ELSE IF i <= b THEN in[i - a]
                      ELSE IF i <= b + 2 THEN own[i - b] ELSE ms[i - (b + 2)]
    <3>1. s[i] = IF i <= b + 2 THEN two[i] ELSE ms[i - (b + 2)]
      BY <2>4, <2>5, <2>6
    <3>2. i <= b + 2 => two[i] = IF i <= b THEN one[i] ELSE own[i - b]
      BY <2>3, <2>7
    <3>3. i <= b => one[i] = IF i <= a THEN up[i] ELSE in[i - a]
      BY <2>2, <2>7
    <3> QED
      BY <2>7, <3>1, <3>2, <3>3
  <2> QED
    BY <2>6, <2>8
<1>9. a \in {0, 1} /\ b - a \in {0, 1} /\ b \in Nat /\ Len(ms) \in Nat
  BY <1>1, <1>4, <1>7
<1>10. ASSUME NEW i \in 1..Len(s), i <= b
       PROVE  s[i].do = "type" /\ s[i].class \in {Class(c).parent, Class(c).field} \ {NoClass}
  <2>1. CASE i <= a
    <3>1. s[i] = up[i] /\ i \in 1..Len(up) /\ Len(up) # 0
      BY <1>8, <1>9, <1>10, <2>1
    <3> QED
      BY <1>7, <3>1
  <2>2. CASE i > a
    <3>1. s[i] = in[i - a] /\ i - a \in 1..Len(in) /\ Len(in) # 0
      BY <1>7, <1>8, <1>9, <1>10, <2>2
    <3> QED
      BY <1>7, <3>1
  <2> QED
    BY <1>9, <2>1, <2>2
<1>11. ASSUME NEW i \in 1..Len(s), i > b
       PROVE  s[i].class = c /\ s[i].do = IF i = b + 1 THEN "inherit" ELSE IF i = b + 2 THEN "declare" ELSE "method"
  <2>1. CASE i = b + 1
    <3>1. s[i] = own[1]
      BY <1>8, <1>9, <2>1
    <3> QED
      BY <1>6, <1>9, <2>1, <3>1 DEF Task
  <2>2. CASE i = b + 2
    <3>1. s[i] = own[2]
      BY <1>8, <1>9, <2>2
    <3> QED
      BY <1>6, <1>9, <2>2, <3>1 DEF Task
  <2>3. CASE i > b + 2
    <3>1. s[i] = ms[i - (b + 2)] /\ i - (b + 2) \in 1..Len(ms)
      BY <1>8, <1>9, <2>3
    <3>2. s[i] = Task("method", c, i - (b + 2))
      BY <1>4, <3>1
    <3> QED
      BY <1>9, <2>3, <3>2 DEF Task
  <2> QED
    BY <1>9, <1>11, <2>1, <2>2, <2>3
<1>12. b + 1 \in 1..Len(s) /\ b + 2 \in 1..Len(s) /\ s # <<>>
  BY <1>8, <1>9
<1>13. HasParent(c) => 1 \in 1..b /\ 1 \in 1..Len(s) /\ s[1].do = "type" /\ s[1].class = Class(c).parent
  <2> SUFFICES ASSUME HasParent(c) PROVE 1 \in 1..b /\ s[1] = up[1] /\ 1 \in 1..Len(up) /\ 1 \in 1..Len(s)
    BY <1>7
  <2>1. a = 1
    BY <1>7 DEF HasParent
  <2> QED
    BY <1>8, <1>9, <1>12, <2>1
<1>14. Ordered(s)
  <2> SUFFICES ASSUME NEW i \in 1..Len(s), NEW j \in 1..Len(s), i < j, s[j].do = "declare"
               PROVE  (s[i].do = "inherit" /\ s[i].class = s[j].class) \/ Via(s[j].class, s[i].class)
    BY DEF Ordered
  <2>1. j > b
    BY <1>9, <1>10
  <2>2. j = b + 2 /\ s[j].class = c
    BY <1>11, <2>1
  <2>3. CASE i <= b
    BY <1>10, <2>2, <2>3, ViaAtOnce
  <2>4. CASE i > b
    BY <1>9, <1>11, <2>2, <2>4
  <2> QED
    BY <1>9, <2>3, <2>4
<1>15. ASSUME NEW j \in 1..Len(s)
       PROVE  s[j].class \in {c} \cup Mentions(c)
  <2>1. CASE j <= b
    BY <1>10, <2>1 DEF Mentions
  <2>2. CASE j > b
    BY <1>11, <2>2
  <2> QED
    BY <1>9, <2>1, <2>2
<1>16. ASSUME NEW j \in 1..Len(s), s[j].do = "inherit", HasParent(s[j].class)
       PROVE  \E i \in 1..(j - 1) : s[i].do = "type" /\ s[i].class = Class(s[j].class).parent
  <2>1. j > b
    BY <1>9, <1>10, <1>16
  <2>2. s[j].class = c
    BY <1>11, <2>1
  <2>3. 1 \in 1..(j - 1)
    BY <1>9, <1>13, <1>16, <2>1, <2>2
  <2> QED
    BY <1>13, <1>16, <2>2, <2>3
<1>17. s[b + 2].do = "declare" /\ s[b + 2].class = c
  BY <1>9, <1>11, <1>12
<1>18. ASSUME NEW j \in 1..Len(s), s[j].do = "declare" PROVE s[j].class = c
  <2>1. j > b
    BY <1>9, <1>10, <1>18
  <2> QED
    BY <1>11, <2>1
<1>19. /\ Len(s) = b + 2 + Len(Class(c).methods)
       /\ \A i \in 1..b : s[i].do = "type"
       /\ s[b + 1] = Task("inherit", c, 0) /\ s[b + 2] = Task("declare", c, 0)
       /\ \A i \in 1..Len(Class(c).methods) : s[b + 2 + i] = Task("method", c, i)
  <2>1. Len(s) = b + 2 + Len(Class(c).methods)
    BY <1>4, <1>8
  <2>2. \A i \in 1..b : s[i].do = "type"
    <3>1. \A i \in 1..b : i \in 1..Len(s) /\ i <= b
      BY <1>8, <1>9
    <3> QED
      BY <1>10, <3>1
  <2>3. s[b + 1] = own[1] /\ s[b + 2] = own[2]
    BY <1>8, <1>9, <1>12
  <2>4. ASSUME NEW i \in 1..Len(Class(c).methods) PROVE s[b + 2 + i] = Task("method", c, i)
    <3>1. b + 2 + i \in 1..Len(s) /\ ~(b + 2 + i <= b + 2) /\ (b + 2 + i) - (b + 2) = i /\ i \in 1..Len(ms)
      BY <1>4, <1>8, <1>9
    <3>2. s[b + 2 + i] = ms[i]
      BY <1>8, <1>9, <3>1
    <3> QED
      BY <1>4, <3>1, <3>2
  <2> QED
    BY <1>6, <2>1, <2>2, <2>3, <2>4
<1>20. b \in Nat /\ StagesAre(c, b)
  BY <1>9, <1>19 DEF s, StagesAre
<1> HIDE DEF b
<1> QED
  BY <1>8, <1>12, <1>14, <1>15, <1>16, <1>17, <1>18, <1>19, <1>20 DEF s
-----------------------------------------------------------------------------
(* The steps *)

\* Before the first class nothing was met.
LEMMA InitInv == Init => IInv
<1> SUFFICES ASSUME Init PROVE IInv
  OBVIOUS
<1>1. DOMAIN prog = 1..Len(prog) /\ Len(prog) \in Nat
  BY ProgramAssumption DEF Init
<1>2. \A i \in DOMAIN prog : Task("type", prog[i].name, 0) \in Tasks
  BY DEF Tasks, Task, Kinds, Names
<1>3. todo \in Seq(Tasks)
  BY <1>1, <1>2 DEF Init
<1>4. \A i \in 1..Len(todo) : todo[i].do = "type"
  BY <1>1 DEF Init, Task
<1>5. DOMAIN types = {} /\ known = {} /\ stage = "transform" /\ prog \in Program /\ undefined = FALSE
  BY DEF Init
<1>6. Typed
  BY <1>3, <1>5 DEF Typed
<1>7. Declared(todo) /\ Ordered(todo) /\ ParentsFirst(todo)
  BY <1>4, <1>5 DEF Declared, Ordered, ParentsFirst
<1> QED
  BY <1>5, <1>6, <1>7 DEF IInv, FindsAncestors

\* The property stays while neither the program nor what is missing changes.
LEMMA FindsStep ==
  ASSUME FindsAncestors, prog' = prog, undefined' = undefined
  PROVE  FindsAncestors'
<1>1. Names' = Names
  BY Static
<1>2. \A c : Class(c)' = Class(c)
  BY Static
<1>3. (\A x, d : LeadsTo(x, d)' = LeadsTo(x, d)) /\ \A c, d : Below(c, d)' = Below(c, d)
  BY Static
<1> QED
  BY <1>1, <1>2, <1>3 DEF FindsAncestors

\* A step of the Transformer: tasks of this class, or of those that it mentions, take the place
\* of the first.
LEMMA TransformStep ==
  ASSUME IInv, stage = "transform", stage' = stage, prog' = prog, todo # <<>>,
         NEW s \in Seq(Tasks), todo' = s \o Tail(todo), Ordered(s),
         s # <<>> => Head(todo).do # "inherit",
         \A j \in 1..Len(s) : s[j].class \in {This} \cup Mentions(This),
         \A j \in 1..Len(s) : s[j].do = "inherit" /\ HasParent(s[j].class) =>
           \E i \in 1..(j - 1) : s[i].do = "type" /\ s[i].class = Class(s[j].class).parent,
         known \subseteq known', known' \subseteq Names, DOMAIN types' \subseteq Names, undefined' \in BOOLEAN,
         Head(todo).do = "declare" => This \in known',
         DOMAIN types \subseteq DOMAIN types', Head(todo).do = "type" => This \in DOMAIN types',
         \A c \in DOMAIN types' : DOMAIN types'[c] = {"id", "ancestors", "hasVtable", "vtable"} /\ LineageOK(c)',
         \A c \in DOMAIN types' \ DOMAIN types : \E j \in 1..Len(s) : s[j].do = "declare" /\ s[j].class = c,
         \A j \in 1..Len(s) : s[j].do = "declare" => s[j].class \in DOMAIN types',
         FindsAncestors'
  PROVE  IInv'
<1>1. /\ todo \in Seq(Tasks) /\ Declared(todo) /\ Ordered(todo) /\ ParentsFirst(todo) /\ prog \in Program
  BY DEF IInv, Typed
<1>2. Head(todo) = todo[1] /\ This = todo[1].class /\ todo' \in Seq(Tasks)
  BY <1>1 DEF This
<1>3. Tasks' = Tasks /\ Names' = Names
  BY Static
<1>4. Typed'
  BY <1>1, <1>2, <1>3 DEF Typed
<1>5. Declared(todo)'
  <2>1. todo[1].do = "declare" => todo[1].class \in known'
    BY <1>2
  <2> QED
    BY <1>1, <2>1, DeclaredStep
<1>6. Ordered(todo)'
  <2>1. ASSUME NEW j \in 2..Len(todo), NEW i \in 1..Len(s),
               todo[j].do = "declare", Via(todo[j].class, todo[1].class)
        PROVE  Via(todo[j].class, s[i].class)
    <3>1. s[i].class = todo[1].class \/ s[i].class \in Mentions(todo[1].class)
      BY <1>2
    <3> QED
      BY <2>1, <3>1, ViaOn
  <2>2. s # <<>> => todo[1].do # "inherit"
    BY <1>2
  <2>3. Ordered(s \o Tail(todo))
    BY <1>1, <2>1, <2>2, OrderedStep
  <2>4. \A c, d : Via(c, d)' = Via(c, d)
    BY Static
  <2> QED
    BY <2>3, <2>4 DEF Ordered
<1>7. ParentsFirst(todo)'
  <2>1. todo[1].do = "type" => todo[1].class \in DOMAIN types'
    BY <1>2
  <2> QED
    BY <1>1, <2>1, ParentsFirstStep
<1> QED
  BY <1>4, <1>5, <1>6, <1>7 DEF IInv

\* A step that only takes the first task away.
LEMMA PopStep ==
  ASSUME IInv, stage = "transform", stage' = stage, prog' = prog, todo # <<>>, todo' = <<>> \o Tail(todo),
         known \subseteq known', known' \subseteq Names, DOMAIN types' \subseteq Names, undefined' \in BOOLEAN,
         Head(todo).do = "declare" => This \in known',
         DOMAIN types = DOMAIN types', Head(todo).do = "type" => This \in DOMAIN types',
         \A c \in DOMAIN types' : DOMAIN types'[c] = {"id", "ancestors", "hasVtable", "vtable"} /\ LineageOK(c)',
         FindsAncestors'
  PROVE  IInv'
<1> DEFINE s == <<>>
<1>1. s \in Seq(Tasks) /\ Len(s) = 0 /\ s = <<>> /\ todo' = s \o Tail(todo)
  OBVIOUS
<1>2. Ordered(s)
  BY DEF Ordered
<1>3. DOMAIN types' \ DOMAIN types = {} /\ DOMAIN types \subseteq DOMAIN types'
  OBVIOUS
<1> HIDE DEF s
<1>4. /\ \A j \in 1..Len(s) : s[j].class \in {This} \cup Mentions(This)
      /\ \A j \in 1..Len(s) : s[j].do = "inherit" /\ HasParent(s[j].class) =>
           \E i \in 1..(j - 1) : s[i].do = "type" /\ s[i].class = Class(s[j].class).parent
      /\ \A c \in DOMAIN types' \ DOMAIN types : \E j \in 1..Len(s) : s[j].do = "declare" /\ s[j].class = c
      /\ \A j \in 1..Len(s) : s[j].do = "declare" => s[j].class \in DOMAIN types'
  BY <1>1, <1>3
<1> QED
  BY <1>1, <1>2, <1>3, <1>4, TransformStep, ZenonT(60)

\* The first task is one of the classes of the program.
LEMMA HeadType ==
  ASSUME IInv, stage = "transform", todo # <<>>
  PROVE  /\ todo \in Seq(Tasks) /\ Head(todo) \in Tasks /\ This \in Names
         /\ \A c \in DOMAIN types : DOMAIN types[c] = {"id", "ancestors", "hasVtable", "vtable"} /\ LineageOK(c)
<1>1. todo \in Seq(Tasks)
  BY DEF IInv, Typed
<1>2. Head(todo) \in Tasks
  BY <1>1
<1> QED
  BY <1>1, <1>2 DEF IInv, Typed, Tasks, This

\* Once the Transformer is through, only types to correct are left.
LEMMA AfterTransform ==
  ASSUME IInv, stage # "transform", NEW do, do # "fix", Doing(do)
  PROVE  FALSE
<1>1. todo \in Seq({todo[i] : i \in DOMAIN todo}) /\ todo # <<>> /\ Head(todo).do = do
  BY DEF IInv, Typed, Doing
<1>2. 1 \in DOMAIN todo /\ Head(todo) = todo[1]
  BY <1>1
<1> QED
  BY <1>1, <1>2 DEF IInv, Typed

\* Meeting a class keeps the order of what waits.
LEMMA VisitTypeStep ==
  ASSUME IInv, VisitType
  PROVE  IInv'
<1>1. stage = "transform" /\ todo # <<>> /\ Head(todo).do = "type"
  BY AfterTransform DEF VisitType, Doing
<1>2. /\ todo \in Seq(Tasks) /\ Head(todo) \in Tasks /\ This \in Names
      /\ \A c \in DOMAIN types : DOMAIN types[c] = {"id", "ancestors", "hasVtable", "vtable"} /\ LineageOK(c)
  BY <1>1, HeadType
<1>3. known' = known /\ stage' = stage /\ prog' = prog /\ known \subseteq Names /\ DOMAIN types \subseteq Names /\ undefined' = undefined /\ undefined \in BOOLEAN /\ prog \in Program
  BY DEF VisitType, IInv, Typed
<1>4. FindsAncestors'
  BY <1>3, FindsStep DEF IInv
<1>5. CASE This \in DOMAIN types
  <2>1. types' = types /\ todo' = <<>> \o Tail(todo)
    BY <1>5 DEF VisitType, Then
  <2>2. \A c \in DOMAIN types : LineageOK(c)'
    BY <1>2, <1>3, <2>1, LineageStep
  <2> QED
    BY <1>1, <1>2, <1>3, <1>4, <1>5, <2>1, <2>2, PopStep
<1>6. CASE This \notin DOMAIN types
  <2>1. /\ types' = [c \in DOMAIN types \cup {This} |->
                      IF c \in DOMAIN types THEN types[c]
                      ELSE [id |-> Cardinality(DOMAIN types), ancestors |-> <<>>, hasVtable |-> FALSE, vtable |-> <<>>]]
        /\ todo' = Stages(This) \o Tail(todo)
    BY <1>6 DEF VisitType, Then
  <2>2. DOMAIN types' = DOMAIN types \cup {This} /\ \A c \in DOMAIN types : types'[c] = types[c]
    BY <2>1
  <2>3. DOMAIN types'[This] = {"id", "ancestors", "hasVtable", "vtable"} /\ types'[This].ancestors = <<>>
    BY <1>6, <2>1
  <2>4. ASSUME NEW c \in DOMAIN types' PROVE LineageOK(c)'
    <3>1. CASE c \in DOMAIN types
      BY <1>2, <1>3, <2>2, <3>1, LineageStep
    <3>2. CASE c = This
      <4>1. ASSUME NEW a, a = <<>> PROVE a \in Seq({a[k] : k \in DOMAIN a}) /\ DOMAIN a = {}
        BY <4>1
      <4>2. types'[c].ancestors \in Seq({types'[c].ancestors[k] : k \in DOMAIN types'[c].ancestors})
        BY <2>3, <3>2, <4>1
      <4>3. DOMAIN types'[c].ancestors = {}
        BY <2>3, <3>2, <4>1
      <4> QED
        BY <4>2, <4>3 DEF LineageOK
    <3> QED
      BY <2>2, <3>1, <3>2
  <2>5. \A c \in DOMAIN types' : DOMAIN types'[c] = {"id", "ancestors", "hasVtable", "vtable"} /\ LineageOK(c)'
    BY <1>2, <2>2, <2>3, <2>4
  <2>6. /\ Stages(This) \in Seq(Tasks) /\ Stages(This) # <<>> /\ Ordered(Stages(This))
        /\ \A j \in 1..Len(Stages(This)) : Stages(This)[j].class \in {This} \cup Mentions(This)
        /\ \A j \in 1..Len(Stages(This)) : Stages(This)[j].do = "inherit" /\ HasParent(Stages(This)[j].class) =>
             \E i \in 1..(j - 1) : Stages(This)[i].do = "type" /\ Stages(This)[i].class = Class(Stages(This)[j].class).parent
        /\ \A j \in 1..Len(Stages(This)) : Stages(This)[j].do = "declare" => Stages(This)[j].class = This
        /\ \E j \in 1..Len(Stages(This)) : Stages(This)[j].do = "declare" /\ Stages(This)[j].class = This
    BY <1>2, <1>3, StagesType
  <2>7. \A c \in DOMAIN types' \ DOMAIN types :
          \E j \in 1..Len(Stages(This)) : Stages(This)[j].do = "declare" /\ Stages(This)[j].class = c
    BY <2>2, <2>6
  <2>8. This \in DOMAIN types' /\ DOMAIN types \subseteq DOMAIN types' /\ DOMAIN types' \subseteq Names
    BY <1>2, <1>3, <2>2
  <2>9. \A j \in 1..Len(Stages(This)) : Stages(This)[j].do = "declare" => Stages(This)[j].class \in DOMAIN types'
    BY <2>6, <2>8
  <2> QED
    BY <1>1, <1>3, <1>4, <2>1, <2>5, <2>6, <2>7, <2>8, <2>9, TransformStep
<1> QED
  BY <1>5, <1>6

\* What is inherited is listed from classes above.
LEMMA InheritStep ==
  ASSUME IInv, performInheritance
  PROVE  IInv'
<1>1. stage = "transform" /\ todo # <<>> /\ Head(todo).do = "inherit"
  BY AfterTransform DEF performInheritance, Doing
<1>2. /\ todo \in Seq(Tasks) /\ Head(todo) \in Tasks /\ This \in Names
      /\ \A c \in DOMAIN types : DOMAIN types[c] = {"id", "ancestors", "hasVtable", "vtable"} /\ LineageOK(c)
  BY <1>1, HeadType
<1>3. /\ known' = known /\ stage' = stage /\ prog' = prog /\ known \subseteq Names /\ DOMAIN types \subseteq Names
      /\ undefined' = undefined /\ undefined \in BOOLEAN
      /\ todo' = <<>> \o Tail(todo)
  BY DEF performInheritance, Then, IInv, Typed
<1>4. FindsAncestors'
  BY <1>3, FindsStep DEF IInv
<1>5. CASE ~HasParent(This)
  <2>1. types' = types
    BY <1>5 DEF performInheritance
  <2>2. \A c \in DOMAIN types : LineageOK(c)'
    BY <1>2, <1>3, <2>1, LineageStep
  <2> QED
    BY <1>1, <1>2, <1>3, <1>4, <2>1, <2>2, PopStep
<1>6. CASE HasParent(This)
  <2> DEFINE p == Class(This).parent
             up == Lineage(p)
  <2>1. types' = [types EXCEPT ![This].ancestors = up,
                               ![This].hasVtable = Last(up).hasVtable,
                               ![This].vtable = FlattenSeq([i \in DOMAIN up |-> InTable(up[i].class)])]
    BY <1>6 DEF performInheritance
  <2>2. p \in DOMAIN types
    <3>1. ParentsFirst(todo) /\ Len(todo) \in Nat \ {0} /\ Head(todo) = todo[1] /\ This = todo[1].class
      BY <1>1, <1>2 DEF IInv, This
    <3> QED
      BY <1>1, <1>6, <3>1 DEF ParentsFirst
  <2>3. DOMAIN types' = DOMAIN types /\ \A c \in DOMAIN types : c # This => types'[c] = types[c]
    BY <2>1
  <2>4. This \in DOMAIN types =>
          DOMAIN types'[This] = {"id", "ancestors", "hasVtable", "vtable"} /\ types'[This].ancestors = up
    BY <1>2, <2>1
  <2> DEFINE a == types[p].ancestors
  <2>5. /\ a \in Seq({a[k] : k \in DOMAIN a})
        /\ \A k \in DOMAIN a : a[k].class \in DOMAIN types /\ Below(p, a[k].class)
    BY <1>2, <2>2 DEF LineageOK
  <2>6. up = Append(a, Copy(p)) /\ Copy(p).class = p
    BY DEF Lineage, Copy
  <2> HIDE DEF a, up
  <2>7. /\ up \in Seq({up[k] : k \in DOMAIN up}) /\ DOMAIN up = 1..(Len(a) + 1) /\ Len(a) \in Nat
        /\ \A k \in 1..Len(a) : up[k] = a[k]
        /\ up[Len(a) + 1] = Copy(p)
    <3> DEFINE S == {a[k] : k \in DOMAIN a} \cup {Copy(p)}
    <3>1. a \in Seq(S) /\ Copy(p) \in S
      BY <2>5
    <3> HIDE DEF S
    <3>2. /\ up \in Seq(S) /\ Len(up) = Len(a) + 1 /\ up[Len(a) + 1] = Copy(p)
          /\ \A k \in 1..Len(a) : up[k] = a[k]
      BY <2>6, <3>1, AppendProperties
    <3> QED
      BY <3>1, <3>2
  <2>8. ASSUME NEW k \in DOMAIN up PROVE up[k].class \in DOMAIN types /\ Below(This, up[k].class)
    <3>1. CASE k \in 1..Len(a)
      <4>1. up[k].class \in DOMAIN types /\ Below(p, up[k].class)
        BY <2>5, <2>7, <3>1
      <4> QED
        BY <1>6, <4>1, BelowOn
    <3>2. CASE k = Len(a) + 1
      <4>1. up[k].class = p
        BY <2>6, <2>7, <3>2
      <4> QED
        BY <1>6, <2>2, <4>1, BelowOn
    <3> QED
      BY <2>7, <3>1, <3>2
  <2>9. ASSUME NEW c \in DOMAIN types' PROVE LineageOK(c)'
    <3>1. CASE c # This
      BY <1>2, <1>3, <2>3, <3>1, LineageStep
    <3>2. CASE c = This
      <4>1. types'[c].ancestors = up
        BY <2>3, <2>4, <3>2
      <4>2. \A x : Below(c, x)' = Below(c, x)
        BY <1>3, Static
      <4> QED
        BY <2>3, <2>7, <2>8, <3>2, <4>1, <4>2 DEF LineageOK
    <3> QED
      BY <3>1, <3>2
  <2>n. DOMAIN types' \subseteq Names
    BY <1>3, <2>3
  <2>10. \A c \in DOMAIN types' : DOMAIN types'[c] = {"id", "ancestors", "hasVtable", "vtable"} /\ LineageOK(c)'
    BY <1>2, <2>3, <2>4, <2>9
  <2> QED
    BY <1>1, <1>3, <1>4, <2>3, <2>n, <2>10, PopStep
<1> QED
  BY <1>5, <1>6

\* What setVtable and appending to the table do to the type of a class leaves its ancestors.
LEMMA TableStep ==
  ASSUME prog' = prog, DOMAIN types' = DOMAIN types, NEW d,
         \A c \in DOMAIN types : DOMAIN types[c] = {"id", "ancestors", "hasVtable", "vtable"} /\ LineageOK(c),
         \A c \in DOMAIN types : c # d => types'[c] = types[c],
         d \in DOMAIN types => DOMAIN types'[d] = DOMAIN types[d] /\ types'[d].ancestors = types[d].ancestors
  PROVE  \A c \in DOMAIN types' : DOMAIN types'[c] = {"id", "ancestors", "hasVtable", "vtable"} /\ LineageOK(c)'
<1> SUFFICES ASSUME NEW c \in DOMAIN types
             PROVE  DOMAIN types'[c] = {"id", "ancestors", "hasVtable", "vtable"} /\ LineageOK(c)'
  OBVIOUS
<1>1. types'[c].ancestors = types[c].ancestors /\ DOMAIN types'[c] = DOMAIN types[c]
  OBVIOUS
<1> QED
  BY <1>1, LineageStep

\* The ancestor that DeclareMethods does not find waits for its own declaration: the class
\* at hand comes before it.
LEMMA DeclareStep ==
  ASSUME IInv, DeclareMethods
  PROVE  IInv'
<1>1. stage = "transform" /\ todo # <<>> /\ Head(todo).do = "declare"
  BY AfterTransform DEF DeclareMethods, Doing
<1>2. /\ todo \in Seq(Tasks) /\ Head(todo) \in Tasks /\ This \in Names
      /\ \A c \in DOMAIN types : DOMAIN types[c] = {"id", "ancestors", "hasVtable", "vtable"} /\ LineageOK(c)
  BY <1>1, HeadType
<1>3. /\ known' = known \cup {This} /\ stage' = stage /\ prog' = prog /\ known \subseteq Names /\ DOMAIN types \subseteq Names
      /\ todo' = <<>> \o Tail(todo)
  BY DEF DeclareMethods, Then, IInv, Typed
<1> DEFINE up == Reverse(types[This].ancestors)
           Sought == {i \in 1..Len(up) : up[i].class \notin known \/ types[up[i].class].hasVtable}
           k == IF Sought # {} THEN Min(Sought) ELSE 0
           own == Class(This).methods # <<>> \/ types[This].hasVtable
<1>4. IF own \/ k = 0
      THEN types' = [types EXCEPT ![This].hasVtable = own] /\ undefined' = undefined
      ELSE /\ undefined' = (undefined \/ up[k].class \notin known)
           /\ types' = [types EXCEPT ![This].hasVtable = up[k].class \in known]
  BY DEF DeclareMethods, SelectInSeq
<1>5. k = 0 \/ k \in 1..Len(up)
  <2>1. Sought # {} => k \in Sought
    <3>1. Sought \subseteq Nat
      OBVIOUS
    <3> HIDE DEF Sought
    <3>2. Sought # {} => \E n \in Sought : \A y \in Sought : n <= y
      BY <3>1, Least
    <3> QED
      BY <3>2 DEF Min
  <2> QED
    BY <2>1
<1> HIDE DEF up, k, own
<1>6. PICK b : types' = [types EXCEPT ![This].hasVtable = b]
  BY <1>4
<1>7. \A c \in DOMAIN types' : DOMAIN types'[c] = {"id", "ancestors", "hasVtable", "vtable"} /\ LineageOK(c)'
  <2>1. DOMAIN types' = DOMAIN types /\ \A c \in DOMAIN types : c # This => types'[c] = types[c]
    BY <1>6
  <2>2. This \in DOMAIN types => DOMAIN types'[This] = DOMAIN types[This] /\ types'[This].ancestors = types[This].ancestors
    BY <1>2, <1>6
  <2> QED
    BY <1>2, <1>3, <2>1, <2>2, TableStep
<1>8. FindsAncestors'
  <2>1. CASE undefined' = undefined
    BY <1>3, <2>1, FindsStep DEF IInv
  <2>2. CASE k # 0 /\ up[k].class \notin known
    <3>1. /\ Declared(todo) /\ Ordered(todo) /\ Len(todo) \in Nat \ {0}
          /\ Head(todo) = todo[1] /\ This = todo[1].class
      BY <1>1, <1>2 DEF IInv, This
    <3>2. This \in DOMAIN types
      BY <1>1, <3>1 DEF Declared
    <3> DEFINE a == types[This].ancestors
    <3>3. /\ a \in Seq({a[i] : i \in DOMAIN a})
          /\ \A i \in DOMAIN a : a[i].class \in DOMAIN types /\ Below(This, a[i].class)
      BY <1>2, <3>2 DEF LineageOK
    <3>4. PICK i \in DOMAIN a : up[k] = a[i]
      <4> HIDE DEF a
      <4>1. up = [i \in 1..Len(a) |-> a[(Len(a) - i) + 1]]
        BY DEF up, a, Reverse
      <4>2. k \in 1..Len(a) /\ Len(a) \in Nat
        BY <1>5, <2>2, <3>3, <4>1
      <4> QED
        BY <3>3, <4>1, <4>2
    <3> DEFINE c == up[k].class
    <3>5. c \in DOMAIN types /\ Below(This, c)
      BY <3>3, <3>4
    <3>6. Via(c, This)
      <4>1. CASE c = This
        BY <3>5, <4>1, BelowItself
      <4>2. CASE c # This
        <5>1. PICK j \in 1..Len(todo) : todo[j].do = "declare" /\ todo[j].class = c
          BY <2>2, <3>1, <3>5 DEF Declared
        <5>2. j # 1
          BY <3>1, <4>2, <5>1
        <5> QED
          BY <1>1, <3>1, <5>1, <5>2 DEF Ordered
      <4> QED
        BY <4>1, <4>2
    <3>7. c \in Names
      <4>1. Below(This, c) /\ DOMAIN types \subseteq Names
        BY <3>5 DEF IInv, Typed
      <4> QED
        BY <3>5, <4>1
    <3>8. \E x, d \in Names : Below(d, x) /\ Via(x, d)
      BY <1>2, <3>5, <3>6, <3>7
    <3>9. (\E x, d \in Names : Below(d, x) /\ Via(x, d))'
      <4>1. /\ Names' = Names
            /\ \A x, d : Below(d, x)' = Below(d, x)
            /\ \A x, d : Via(x, d)' = Via(x, d)
        BY <1>3, Static
      <4> QED
        BY <3>8, <4>1
    <3> QED
      BY <3>9 DEF FindsAncestors, Via
  <2>3. undefined \in BOOLEAN
    BY DEF IInv, Typed
  <2> QED
    BY <1>4, <2>1, <2>2, <2>3
<1>9. DOMAIN types' = DOMAIN types /\ undefined' \in BOOLEAN
  BY <1>4, <1>6 DEF IInv, Typed
<1> QED
  BY <1>1, <1>2, <1>3, <1>7, <1>8, <1>9, PopStep

\* The body of a method does nothing, meets a class that its class mentions or generates a
\* method of its own class.
LEMMA BodyType ==
  ASSUME prog \in Program, NEW c \in Names, NEW i \in DOMAIN Class(c).methods
  PROVE  LET s == Body(c, Method(c, i).does)
         IN  /\ s \in Seq(Tasks)
             /\ \A j \in 1..Len(s) : s[j].class \in {c} \cup Mentions(c) /\ s[j].do \in {"type", "call"}
<1> DEFINE does == Method(c, i).does
           s == Body(c, does)
<1>1. \A j \in DOMAIN Class(c).methods : j \in Nat
  <2>1. Class(c).methods \in Seq({Class(c).methods[j] : j \in DOMAIN Class(c).methods})
    BY ClassType
  <2> QED
    BY <2>1
<1>2. /\ does.k = "new" => does.x \in Names
      /\ does.k = "call" => \E j \in DOMAIN Class(c).methods : Method(c, j).name = does.x
  BY ClassType
<1>3. CASE does.k = "new"
  <2>1. does.x \in Names /\ does.x # NoClass
    BY <1>2, <1>3, ClassType
  <2>2. does.x \in Mentions(c)
    BY <1>3, <2>1 DEF Mentions, News
  <2>3. s = <<Task("type", does.x, 0)>>
    BY <1>3, <2>1 DEF Body, TypeTask
  <2>4. Task("type", does.x, 0) \in Tasks
    BY <2>1 DEF Task, Tasks, Kinds
  <2> HIDE DEF s, does
  <2>5. s \in Seq(Tasks) /\ Len(s) = 1 /\ s[1] = Task("type", does.x, 0)
    BY <2>3, <2>4
  <2>6. s[1].do = "type" /\ s[1].class = does.x
    BY <2>5 DEF Task
  <2> QED
    BY <2>2, <2>5, <2>6 DEF s, does
<1>4. CASE does.k = "call"
  <2> DEFINE m == CHOOSE j \in DOMAIN Class(c).methods : Method(c, j).name = does.x
  <2>1. m \in DOMAIN Class(c).methods
    BY <1>2, <1>4
  <2>2. s = <<Task("call", c, m)>>
    BY <1>4 DEF Body
  <2> HIDE DEF m, s, does
  <2>3. Task("call", c, m) \in Tasks
    BY <1>1, <2>1 DEF Task, Tasks, Kinds
  <2>4. s \in Seq(Tasks) /\ Len(s) = 1 /\ s[1] = Task("call", c, m)
    BY <2>2, <2>3
  <2>5. s[1].do = "call" /\ s[1].class = c
    BY <2>4 DEF Task
  <2> QED
    BY <2>4, <2>5 DEF s, does
<1>5. CASE does.k \notin {"new", "call"}
  <2>1. s = <<>>
    BY <1>5 DEF Body
  <2> HIDE DEF s, does
  <2> QED
    BY <2>1 DEF s, does
<1> QED
  BY <1>3, <1>4, <1>5

\* A function enters the table of its class, and its body is next.
LEMMA FunctionStep ==
  ASSUME IInv, stage = "transform", todo # <<>>, Head(todo).do \in {"method", "call"},
         transformFunction(This, Head(todo).i), UNCHANGED <<prog, known, stage, refused, undefined>>
  PROVE  IInv'
<1>1. /\ todo \in Seq(Tasks) /\ Head(todo) \in Tasks /\ This \in Names
      /\ \A c \in DOMAIN types : DOMAIN types[c] = {"id", "ancestors", "hasVtable", "vtable"} /\ LineageOK(c)
  BY HeadType
<1>2. /\ known \subseteq Names /\ DOMAIN types \subseteq Names /\ undefined \in BOOLEAN /\ prog \in Program
      /\ FindsAncestors'
  BY FindsStep DEF IInv, Typed
<1>3. Head(todo).i \in DOMAIN Class(This).methods
  BY <1>1 DEF Tasks, This
<1> DEFINE s == Body(This, Method(This, Head(todo).i).does)
           f == Len(funcs) + 1
<1>4. todo' = s \o Tail(todo) /\ types' = [types EXCEPT ![This].vtable = Append(@, f)]
  BY DEF transformFunction, Then
<1>5. /\ s \in Seq(Tasks)
      /\ \A j \in 1..Len(s) : s[j].class \in {This} \cup Mentions(This) /\ s[j].do \in {"type", "call"}
  BY <1>1, <1>2, <1>3, BodyType
<1> HIDE DEF s, f
<1>6. DOMAIN types' = DOMAIN types /\ \A c \in DOMAIN types : c # This => types'[c] = types[c]
  BY <1>4
<1>7. This \in DOMAIN types => DOMAIN types'[This] = DOMAIN types[This] /\ types'[This].ancestors = types[This].ancestors
  BY <1>1, <1>4
<1>8. \A c \in DOMAIN types' : DOMAIN types'[c] = {"id", "ancestors", "hasVtable", "vtable"} /\ LineageOK(c)'
  BY <1>1, <1>6, <1>7, TableStep
<1>9. Ordered(s)
  BY <1>5 DEF Ordered
<1>10. /\ \A j \in 1..Len(s) : s[j].class \in {This} \cup Mentions(This)
       /\ \A j \in 1..Len(s) : s[j].do = "inherit" /\ HasParent(s[j].class) =>
            \E i \in 1..(j - 1) : s[i].do = "type" /\ s[i].class = Class(s[j].class).parent
       /\ \A j \in 1..Len(s) : s[j].do = "declare" => s[j].class \in DOMAIN types'
       /\ \A c \in DOMAIN types' \ DOMAIN types : \E j \in 1..Len(s) : s[j].do = "declare" /\ s[j].class = c
  BY <1>5, <1>6
<1>11. /\ known' = known /\ known \subseteq known' /\ known' \subseteq Names /\ DOMAIN types' \subseteq Names
       /\ DOMAIN types \subseteq DOMAIN types' /\ undefined' \in BOOLEAN /\ stage' = stage /\ prog' = prog
       /\ Head(todo).do # "inherit" /\ Head(todo).do # "declare" /\ Head(todo).do # "type"
  BY <1>2, <1>6
<1> QED
  BY <1>2, <1>4, <1>5, <1>8, <1>9, <1>10, <1>11, TransformStep

\* So does a method,
LEMMA VisitMethodStep ==
  ASSUME IInv, VisitMethod
  PROVE  IInv'
<1>1. stage = "transform" /\ todo # <<>> /\ Head(todo).do = "method"
  BY AfterTransform DEF VisitMethod, Doing
<1> QED
  BY <1>1, FunctionStep DEF VisitMethod

\* a call,
LEMMA CallMethodStep ==
  ASSUME IInv, CallMethod
  PROVE  IInv'
<1>1. stage = "transform" /\ todo # <<>> /\ Head(todo).do = "call"
  BY AfterTransform DEF CallMethod, Doing
<1>2. CASE transformFunction(This, Head(todo).i)
  BY <1>1, <1>2, FunctionStep DEF CallMethod
<1>3. CASE Then(<<>>) /\ UNCHANGED <<funcs, types, created>>
  <2>1. /\ known \subseteq Names /\ DOMAIN types \subseteq Names /\ undefined \in BOOLEAN /\ FindsAncestors
        /\ \A c \in DOMAIN types : DOMAIN types[c] = {"id", "ancestors", "hasVtable", "vtable"} /\ LineageOK(c)
    BY DEF IInv, Typed
  <2>2. /\ known' = known /\ types' = types /\ undefined' = undefined /\ stage' = stage /\ prog' = prog
        /\ todo' = <<>> \o Tail(todo)
    BY <1>3 DEF CallMethod, Then
  <2>3. FindsAncestors'
    BY <2>1, <2>2, FindsStep
  <2>4. \A c \in DOMAIN types : LineageOK(c)'
    BY <2>1, <2>2, LineageStep
  <2> QED
    BY <1>1, <2>1, <2>2, <2>3, <2>4, PopStep
<1> QED
  BY <1>2, <1>3 DEF CallMethod

\* A step of the TypeChecker reads the classes and changes tables only.
LEMMA CheckStep ==
  ASSUME IInv, stage' # "transform", prog' = prog, known' = known, undefined' = undefined,
         todo' \in Seq({todo'[i] : i \in DOMAIN todo'}), \A i \in DOMAIN todo' : todo'[i].do = "fix",
         DOMAIN types' = DOMAIN types,
         \A c \in DOMAIN types' : DOMAIN types'[c] = {"id", "ancestors", "hasVtable", "vtable"} /\ LineageOK(c)'
  PROVE  IInv'
<1>1. FindsAncestors'
  BY FindsStep DEF IInv
<1>2. Names' = Names
  BY Static
<1>3. Typed'
  BY <1>2 DEF IInv, Typed
<1> QED
  BY <1>1, <1>3 DEF IInv

\* the end of the transformation, when nothing waits,
LEMMA StartCheckStep ==
  ASSUME IInv, StartCheck
  PROVE  IInv'
<1>1. Cardinality(known) \in Nat
  <2>1. prog \in Program /\ known \subseteq Names
    BY DEF IInv, Typed
  <2>2. DOMAIN prog = 1..Len(prog) /\ Len(prog) \in Nat
    BY <2>1, ProgramAssumption
  <2>3. IsFiniteSet(DOMAIN prog)
    BY <2>2, FS_Interval
  <2>4. IsFiniteSet(Names)
    <3> DEFINE f == [i \in DOMAIN prog |-> prog[i].name]
    <3>1. f \in Surjection(DOMAIN prog, Names)
      BY DEF Names, Surjection
    <3> QED
      BY <2>3, <3>1, FS_Surjection
  <2> QED
    BY <2>1, <2>4, FS_Subset, FS_CardinalityType
<1> DEFINE n == Cardinality(known)
           q == todo'
<1>2. PICK g : q = [i \in 1..n |-> Task("fix", g[i], 0)]
  <2> DEFINE g == [i \in 1..n |-> CHOOSE c \in DOMAIN types : types[c].id = i - 1]
  <2>1. q = [i \in 1..n |-> Task("fix", g[i], 0)]
    BY DEF StartCheck
  <2> HIDE DEF g, n, q
  <2> QED
    BY <2>1
<1> HIDE DEF n, q
<1>3. q \in Seq({q[i] : i \in DOMAIN q}) /\ \A i \in DOMAIN q : q[i].do = "fix"
  BY <1>1, <1>2 DEF Task, n
<1>4. \A c \in DOMAIN types : DOMAIN types[c] = {"id", "ancestors", "hasVtable", "vtable"} /\ LineageOK(c)
  BY DEF IInv, Typed
<1>5. /\ stage' = "check" /\ prog' = prog /\ types' = types /\ known' = known /\ undefined' = undefined
  BY DEF StartCheck
<1>6. \A c \in DOMAIN types : LineageOK(c)'
  BY <1>4, <1>5, LineageStep
<1> QED
  BY <1>3, <1>4, <1>5, <1>6, CheckStep DEF q

\* and the check of a class, which finds its ancestors.
LEMMA FixTypesStep ==
  ASSUME IInv, fixTypes
  PROVE  IInv'
<1>1. /\ todo # <<>> /\ Head(todo).do = "fix" /\ todo' = <<>> \o Tail(todo) /\ stage' = stage
      /\ prog' = prog /\ known' = known /\ undefined' = undefined
  BY DEF fixTypes, Doing, Then
<1>2. stage # "transform"
  <2> SUFFICES ASSUME stage = "transform" PROVE FALSE
    OBVIOUS
  <2>1. Head(todo) \in Tasks
    BY <1>1, HeadType
  <2> QED
    BY <1>1, <2>1 DEF Tasks, Kinds
<1>3. todo \in Seq({todo[i] : i \in DOMAIN todo}) /\ \A i \in DOMAIN todo : todo[i].do = "fix"
  BY <1>2 DEF IInv, Typed
<1> DEFINE q == todo'
<1>4. q \in Seq({q[i] : i \in DOMAIN q}) /\ \A i \in DOMAIN q : q[i].do = "fix"
  <2> DEFINE S == {t \in {todo[i] : i \in DOMAIN todo} : t.do = "fix"}
  <2>1. todo \in Seq(S) /\ \A t \in S : t.do = "fix"
    BY <1>3
  <2> HIDE DEF S
  <2>2. Tail(todo) \in Seq(S)
    BY <1>1, <2>1
  <2>3. q \in Seq(S)
    BY <1>1, <2>2
  <2> HIDE DEF q
  <2> QED
    BY <2>1, <2>3
<1>5. \A c \in DOMAIN types : DOMAIN types[c] = {"id", "ancestors", "hasVtable", "vtable"} /\ LineageOK(c)
  BY DEF IInv, Typed
<1>6. PICK b : types' = types \/ types' = [types EXCEPT ![This].vtable = b]
  BY DEF fixTypes
<1>7. DOMAIN types' = DOMAIN types /\ \A c \in DOMAIN types : c # This => types'[c] = types[c]
  BY <1>6
<1>8. This \in DOMAIN types => DOMAIN types'[This] = DOMAIN types[This] /\ types'[This].ancestors = types[This].ancestors
  BY <1>5, <1>6
<1>9. \A c \in DOMAIN types' : DOMAIN types'[c] = {"id", "ancestors", "hasVtable", "vtable"} /\ LineageOK(c)'
  BY <1>1, <1>5, <1>7, <1>8, TableStep
<1> QED
  BY <1>1, <1>2, <1>4, <1>7, <1>9, CheckStep

\* The end of the check, and the steps that change nothing.
LEMMA RestStep ==
  ASSUME IInv, EndCheck \/ UNCHANGED vars
  PROVE  IInv'
<1>1. /\ UNCHANGED <<prog, types, known, todo, undefined>>
      /\ stage' = stage \/ (stage # "transform" /\ stage' # "transform")
  <2>1. CASE EndCheck
    BY <2>1 DEF EndCheck
  <2>2. CASE UNCHANGED vars
    BY <2>2 DEF vars
  <2> QED
    BY <2>1, <2>2
<1>2. FindsAncestors'
  BY <1>1, FindsStep DEF IInv
<1>3. Names' = Names /\ Tasks' = Tasks
  BY <1>1, Static
<1>4. \A c \in DOMAIN types : DOMAIN types[c] = {"id", "ancestors", "hasVtable", "vtable"} /\ LineageOK(c)
  BY DEF IInv, Typed
<1>5. \A c \in DOMAIN types : LineageOK(c)'
  BY <1>1, <1>4, LineageStep
<1>6. Typed'
  BY <1>1, <1>3, <1>4, <1>5 DEF IInv, Typed
<1>7. /\ \A c : Class(c)' = Class(c)
      /\ \A c : HasParent(c)' = HasParent(c)
      /\ \A c, d : Via(c, d)' = Via(c, d)
  BY <1>1, Static
<1>8. stage' = "transform" => Declared(todo)' /\ Ordered(todo)' /\ ParentsFirst(todo)'
  BY <1>1, <1>7 DEF IInv, Declared, Ordered, ParentsFirst
<1> QED
  BY <1>2, <1>6, <1>8 DEF IInv

-----------------------------------------------------------------------------

\* The inductive invariant: the classes that were met and not declared wait in an order in which
\* those that come first are led to by the parent or the field of those that come later.
THEOREM Invariance == Spec => []IInv
<1>1. Init => IInv
  BY InitInv
<1>2. IInv /\ [Next]_vars => IInv'
  <2> SUFFICES ASSUME IInv, [Next]_vars PROVE IInv'
    OBVIOUS
  <2>1. CASE VisitType
    BY <2>1, VisitTypeStep
  <2>2. CASE performInheritance
    BY <2>2, InheritStep
  <2>3. CASE DeclareMethods
    BY <2>3, DeclareStep
  <2>4. CASE VisitMethod
    BY <2>4, VisitMethodStep
  <2>5. CASE CallMethod
    BY <2>5, CallMethodStep
  <2>6. CASE StartCheck
    BY <2>6, StartCheckStep
  <2>7. CASE fixTypes
    BY <2>7, FixTypesStep
  <2>8. CASE EndCheck \/ UNCHANGED vars
    BY <2>8, RestStep
  <2> QED
    BY <2>1, <2>2, <2>3, <2>4, <2>5, <2>6, <2>7, <2>8 DEF Next, Done
<1> QED
  BY <1>1, <1>2, PTL DEF Spec

\* DeclareMethods looks every ancestor up in typeInformation (transformClass.cc): it lacks one
\* only when that one's own parent or field leads to the class that looks for it.
THEOREM AncestorsAreFound == Spec => []FindsAncestors
<1>1. IInv => FindsAncestors
  BY DEF IInv
<1> QED
  BY <1>1, Invariance, PTL
-----------------------------------------------------------------------------
(* What FlattenSeq, FromAbove and FixedTable compute: recursive definitions over 0..N *)

\* What holds of 0, and of n when of the number before it, holds of all numbers up to N.
LEMMA UpTo ==
  ASSUME NEW N \in Nat, NEW Good \in SUBSET (0..N), 0 \in Good, \A n \in 1..N : n - 1 \in Good => n \in Good
  PROVE  Good = 0..N
<1> DEFINE Bad == (0..N) \ Good
<1> SUFFICES ASSUME Bad # {} PROVE FALSE
  OBVIOUS
<1>1. Bad \in SUBSET Nat
  OBVIOUS
<1> HIDE DEF Bad
<1>2. PICK n \in Bad : \A y \in Bad : n <= y
  BY <1>1, Least
<1>3. n \in 0..N /\ n \notin Good
  BY <1>2 DEF Bad
<1>4. n \in 1..N
  BY <1>3
<1>5. n - 1 \in 0..N /\ ~(n <= n - 1)
  BY <1>4
<1>6. n - 1 \in Good
  BY <1>2, <1>5 DEF Bad
<1> QED
  BY <1>3, <1>4, <1>6

\* What N steps come to.
Follows(f, N, V, base, step) == f \in [0..N -> V] /\ f[0] = base /\ \A n \in 1..N : f[n] = step[n][f[n - 1]]

\* A step from values in V to values in V can be taken N times.
LEMMA Recursion ==
  ASSUME NEW N \in Nat, NEW V, NEW base \in V, NEW step \in [1..N -> [V -> V]]
  PROVE  \E f : Follows(f, N, V, base, step)
<1> DEFINE Is(f, n) == f \in [0..n -> V] /\ f[0] = base /\ \A m \in 1..n : f[m] = step[m][f[m - 1]]
           Good == {n \in 0..N : \E f : Is(f, n)}
<1>1. 0 \in Good
  <2>1. Is([m \in 0..0 |-> base], 0)
    OBVIOUS
  <2> HIDE DEF Is
  <2> QED
    BY <2>1
<1>2. ASSUME NEW n \in 1..N, n - 1 \in Good PROVE n \in Good
  <2>1. PICK f : Is(f, n - 1)
    BY <1>2
  <2> DEFINE g == [m \in 0..n |-> IF m = n THEN step[n][f[n - 1]] ELSE f[m]]
  <2>2. n - 1 \in 0..(n - 1) /\ f[n - 1] \in V
    BY <2>1
  <2>4. step[n][f[n - 1]] \in V
    BY <2>2
  <2>5. g \in [0..n -> V]
    BY <2>1, <2>4
  <2>6. g[0] = base
    BY <2>1
  <2>7. ASSUME NEW m \in 1..n PROVE g[m] = step[m][g[m - 1]]
    <3>1. m - 1 \in 0..n /\ m - 1 # n /\ g[m - 1] = f[m - 1]
      OBVIOUS
    <3>2. m # n => m \in 1..(n - 1) /\ g[m] = f[m]
      OBVIOUS
    <3> QED
      BY <2>1, <3>1, <3>2
  <2> HIDE DEF g
  <2>8. Is(g, n) /\ n \in 0..N
    BY <2>5, <2>6, <2>7
  <2> HIDE DEF Is
  <2> QED
    BY <2>8
<1>3. Good \in SUBSET (0..N)
  OBVIOUS
<1> HIDE DEF Good
<1>4. N \in Good
  BY <1>1, <1>2, <1>3, UpTo
<1> QED
  BY <1>4 DEF Good, Follows

\* Lists put together one by one,
Joined(w, ss, S) ==
  /\ w[0] = <<>> /\ \A i \in 1..Len(ss) : w[i] = w[i - 1] \o ss[i]
  /\ \A i \in 0..Len(ss) : w[i] \in Seq(S)

\* as FlattenSeq does:
LEMMA FlattenSeqSteps ==
  ASSUME NEW S, NEW ss \in Seq(Seq(S))
  PROVE  \E w : Joined(w, ss, S) /\ FlattenSeq(ss) = w[Len(ss)]
<1>1. CASE Len(ss) = 0
  <2>1. ss = <<>>
    BY <1>1
  <2>2. FlattenSeq(ss) = ss
    BY <1>1, Zenon DEF FlattenSeq
  <2> PICK w : w = [i \in 0..0 |-> <<>>]
    OBVIOUS
  <2>3. w[0] = <<>> /\ w[0] \in Seq(S)
    OBVIOUS
  <2>4. Joined(w, ss, S) /\ FlattenSeq(ss) = w[Len(ss)]
    BY <1>1, <2>1, <2>2, <2>3 DEF Joined
  <2> QED
    BY <2>4
<1>2. CASE Len(ss) # 0
  <2> DEFINE N == Len(ss)
  <2>1. N \in Nat \ {0} /\ \A i \in 1..N : ss[i] \in Seq(S)
    BY <1>2
  <2> DEFINE Is(f) == f = [i \in 1..N |-> IF i = 1 THEN ss[i] ELSE f[i - 1] \o ss[i]]
             whole == CHOOSE f : Is(f)
  <2>2. FlattenSeq(ss) = whole[N]
    BY <1>2, Zenon DEF FlattenSeq
  <2>3. \E f : Is(f)
    <3> DEFINE step == [i \in 1..(N - 1) |-> [s \in Seq(S) |-> s \o ss[i + 1]]]
    <3>1. step \in [1..(N - 1) -> [Seq(S) -> Seq(S)]]
      BY <2>1
    <3>2. ss[1] \in Seq(S) /\ N - 1 \in Nat
      BY <2>1
    <3> HIDE DEF step
    <3> DEFINE M == N - 1
               V == Seq(S)
               b == ss[1]
    <3> HIDE DEF M, V, b
    <3>r. \E f : Follows(f, M, V, b, step)
      <4>1. M \in Nat /\ b \in V /\ step \in [1..M -> [V -> V]]
        BY <3>1, <3>2 DEF M, V, b
      <4> QED
        BY <4>1, Recursion, Zenon
    <3>3. PICK f \in [0..(N - 1) -> Seq(S)] : f[0] = ss[1] /\ \A n \in 1..(N - 1) : f[n] = step[n][f[n - 1]]
      BY <3>r DEF M, V, b, Follows
    <3> DEFINE g == [i \in 1..N |-> f[i - 1]]
    <3>4. ASSUME NEW i \in 1..N, i # 1 PROVE g[i] = g[i - 1] \o ss[i]
      <4>1. i - 1 \in 1..(N - 1) /\ i - 1 \in 1..N /\ (i - 1) + 1 = i /\ (i - 1) - 1 \in 0..(N - 1)
        BY <2>1, <3>4
      <4>2. g[i - 1] = f[(i - 1) - 1] /\ f[(i - 1) - 1] \in Seq(S)
        BY <4>1
      <4>3. f[i - 1] = step[i - 1][f[(i - 1) - 1]]
        BY <3>3, <4>1
      <4>4. step[i - 1][f[(i - 1) - 1]] = f[(i - 1) - 1] \o ss[i]
        BY <4>1, <4>2 DEF step
      <4> QED
        BY <4>2, <4>3, <4>4
    <3>5. g[1] = ss[1]
      BY <2>1, <3>3
    <3>6. \A i \in 1..N : g[i] = IF i = 1 THEN ss[i] ELSE g[i - 1] \o ss[i]
      BY <3>4, <3>5
    <3>7. g = [i \in 1..N |-> g[i]]
      OBVIOUS
    <3> HIDE DEF g
    <3>8. g = [i \in 1..N |-> IF i = 1 THEN ss[i] ELSE g[i - 1] \o ss[i]]
      BY <3>6, <3>7
    <3> QED
      BY <3>8
  <2>4. Is(whole)
    BY <2>3, Zenon
  <2> HIDE DEF whole
  <2> DEFINE Good == {n \in 0..(N - 1) : whole[n + 1] \in Seq(S)}
  <2>5. \A i \in 1..N : whole[i] = IF i = 1 THEN ss[i] ELSE whole[i - 1] \o ss[i]
    BY <2>4
  <2>6. 0 \in Good
    BY <2>1, <2>5
  <2>7. ASSUME NEW n \in 1..(N - 1), n - 1 \in Good PROVE n \in Good
    <3>1. n + 1 \in 1..N /\ n + 1 # 1 /\ (n + 1) - 1 = n /\ (n - 1) + 1 = n
      BY <2>1
    <3>2. whole[n] \in Seq(S) /\ ss[n + 1] \in Seq(S) /\ whole[n + 1] = whole[n] \o ss[n + 1]
      BY <2>1, <2>5, <2>7, <3>1
    <3>3. whole[n + 1] \in Seq(S)
      BY <3>2
    <3> QED
      BY <2>1, <3>3
  <2>8. N - 1 \in Nat /\ N - 1 \in 0..(N - 1) /\ Good \in SUBSET (0..(N - 1))
    BY <2>1
  <2> HIDE DEF Good
  <2>9. Good = 0..(N - 1)
    BY <2>6, <2>7, <2>8, UpTo
  <2> PICK w : w = [i \in 0..N |-> IF i = 0 THEN <<>> ELSE whole[i]]
    OBVIOUS
  <2>10. w[0] = <<>> /\ \A i \in 1..N : w[i] = whole[i]
    BY <2>1
  <2>11. ASSUME NEW i \in 1..N PROVE w[i] \in Seq(S)
    <3>1. i - 1 \in Good /\ (i - 1) + 1 = i
      BY <2>1, <2>9
    <3> QED
      BY <2>10, <3>1 DEF Good
  <2>12. ASSUME NEW i \in 1..N PROVE w[i] = w[i - 1] \o ss[i]
    <3>1. CASE i = 1
      BY <2>1, <2>5, <2>10, <3>1
    <3>2. CASE i # 1
      <4>1. i - 1 \in 1..N
        BY <2>1, <3>2
      <4> QED
        BY <2>5, <2>10, <3>2, <4>1
    <3> QED
      BY <3>1, <3>2
  <2>13. \A i \in 0..N : i = 0 \/ i \in 1..N
    BY <2>1
  <2>14. w[0] \in Seq(S)
    BY <2>10
  <2>15. Joined(w, ss, S)
    BY <2>10, <2>11, <2>12, <2>13, <2>14 DEF Joined
  <2>16. FlattenSeq(ss) = w[Len(ss)]
    BY <2>1, <2>2, <2>10
  <2> QED
    BY <2>15, <2>16
<1> QED
  BY <1>1, <1>2

\* of lists of things of one kind it makes a list of them.
LEMMA FlattenSeqType ==
  ASSUME NEW S, NEW ss \in Seq(Seq(S))
  PROVE  FlattenSeq(ss) \in Seq(S)
<1>1. PICK w : Joined(w, ss, S) /\ FlattenSeq(ss) = w[Len(ss)]
  BY FlattenSeqSteps
<1>2. Len(ss) \in 0..Len(ss)
  OBVIOUS
<1> QED
  BY <1>1, <1>2 DEF Joined

\* What a class inherits of one name, ancestor by ancestor,
Handed(w, up, n, S) ==
  /\ w[0] = <<>> /\ \A i \in 1..Len(up) : w[i] = Inherited(w[i - 1], created[up[i].class][n])
  /\ \A i \in 0..Len(up) : w[i] \in Seq(S)

\* as FromAbove puts it together:
LEMMA FromAboveSteps ==
  ASSUME NEW S, NEW up, Len(up) \in Nat, NEW n, \A i \in 1..Len(up) : created[up[i].class][n] \in Seq(S)
  PROVE  \E w : Handed(w, up, n, S) /\ FromAbove(up, n) = w[Len(up)]
<1> DEFINE N == Len(up)
           Is(f) == f = [i \in 0..N |-> IF i = 0 THEN <<>> ELSE Inherited(f[i - 1], created[up[i].class][n])]
           whole == CHOOSE f : Is(f)
<1>1. FromAbove(up, n) = whole[N]
  BY Zenon DEF FromAbove
<1>2. ASSUME NEW i \in 1..N, NEW s \in Seq(S) PROVE Inherited(s, created[up[i].class][n]) \in Seq(S)
  <2> DEFINE more == created[up[i].class][n]
  <2>1. more \in Seq(S)
    OBVIOUS
  <2> HIDE DEF more
  <2>2. Reverse(more) \in Seq(S)
    BY <2>1 DEF Reverse
  <2>3. Reverse(more) \o s \in Seq(S)
    BY <2>2
  <2>4. Inherited(s, more) \in Seq(S)
    BY <2>1, <2>3 DEF Inherited
  <2> QED
    BY <2>4 DEF more
<1>3. \E f : Is(f)
  <2> DEFINE step == [i \in 1..N |-> [s \in Seq(S) |-> Inherited(s, created[up[i].class][n])]]
  <2>1. step \in [1..N -> [Seq(S) -> Seq(S)]]
    BY <1>2
  <2> DEFINE V == Seq(S)
             b == <<>>
  <2>2. N \in Nat /\ b \in V /\ step \in [1..N -> [V -> V]]
    BY <2>1
  <2> HIDE DEF step, V, b, N
  <2>3. PICK f : Follows(f, N, V, b, step)
    BY <2>2, Recursion
  <2>4. ASSUME NEW i \in 1..N PROVE f[i] = Inherited(f[i - 1], created[up[i].class][n])
    <3>1. i - 1 \in 0..N
      BY <2>2
    <3>2. f[i - 1] \in Seq(S) /\ f[i] = step[i][f[i - 1]]
      BY <2>3, <3>1 DEF Follows, V
    <3> QED
      BY <3>2 DEF step
  <2>5. f[0] = <<>> /\ f = [i \in 0..N |-> f[i]]
    BY <2>3 DEF Follows, b
  <2>6. f = [i \in 0..N |-> IF i = 0 THEN <<>> ELSE Inherited(f[i - 1], created[up[i].class][n])]
    <3>1. \A i \in 0..N : i = 0 \/ i \in 1..N
      BY <2>2
    <3>2. \A i \in 0..N : f[i] = IF i = 0 THEN <<>> ELSE Inherited(f[i - 1], created[up[i].class][n])
      BY <2>4, <2>5, <3>1, Zenon
    <3> QED
      BY <2>5, <3>2, Zenon
  <2> QED
    BY <2>6 DEF N
<1>4. Is(whole)
  BY <1>3, Zenon
<1> HIDE DEF whole
<1> DEFINE Good == {i \in 0..N : whole[i] \in Seq(S)}
<1>5. 0 \in Good
  BY <1>4
<1>6. ASSUME NEW i \in 1..N, i - 1 \in Good PROVE i \in Good
  <2>1. whole[i] = Inherited(whole[i - 1], created[up[i].class][n])
    BY <1>4
  <2> QED
    BY <1>2, <1>6, <2>1
<1>7. N \in Nat /\ Good \in SUBSET (0..N)
  OBVIOUS
<1> HIDE DEF Good
<1>8. Good = 0..N
  BY <1>5, <1>6, <1>7, UpTo
<1>9. \A i \in 0..N : whole[i] \in Seq(S)
  BY <1>8 DEF Good
<1>10. whole[0] = <<>> /\ \A i \in 1..N : whole[i] = Inherited(whole[i - 1], created[up[i].class][n])
  BY <1>4
<1>11. Handed(whole, up, n, S)
  BY <1>9, <1>10 DEF Handed
<1> QED
  BY <1>1, <1>11

\* they are functions of the classes above it.
LEMMA FromAboveType ==
  ASSUME NEW S, NEW up, Len(up) \in Nat, NEW n, \A i \in 1..Len(up) : created[up[i].class][n] \in Seq(S)
  PROVE  FromAbove(up, n) \in Seq(S)
<1>1. PICK w : Handed(w, up, n, S) /\ FromAbove(up, n) = w[Len(up)]
  BY FromAboveSteps
<1>2. Len(up) \in 0..Len(up)
  OBVIOUS
<1> QED
  BY <1>1, <1>2 DEF Handed


\* What FixedTable works with, and the names of the functions in a list.
Working == [table : Seq(DOMAIN funcs), index : [DOMAIN funcs -> Nat], at : Nat, refused : SUBSET DOMAIN funcs]
NamesIn(list) == {funcs[list[j]].name : j \in DOMAIN list}

\* The first position of a sequence that passes a test is one that does, if there is any.
LEMMA SelectIs ==
  ASSUME NEW S \in SUBSET Nat, 0 \notin S, NEW k, k = IF S # {} THEN Min(S) ELSE 0
  PROVE  (k \in S) <=> S # {}
<1>1. S # {} => \E n \in S : \A y \in S : n <= y
  BY Least
<1> QED
  BY <1>1 DEF Min

\* Placing a function adds its name to the table; it is refused when the name is there, and
\* the function is of the class at hand and not marked.
LEMMA PlacedIs ==
  ASSUME NEW c, NEW acc \in Working, NEW f \in DOMAIN funcs
  PROVE  /\ Placed(c, acc, f) \in Working
         /\ \A n : n \in NamesIn(Placed(c, acc, f).table) <=> n \in NamesIn(acc.table) \/ n = funcs[f].name
         /\ \A g : g \in Placed(c, acc, f).refused <=>
                    \/ g \in acc.refused
                    \/ g = f /\ funcs[f].name \in NamesIn(acc.table) /\ ~funcs[f].override /\ funcs[f].class = c
<1> DEFINE t == acc.table
           r == Placed(c, acc, f)
           Same == {i \in 1..Len(t) : funcs[t[i]].name = funcs[f].name}
           k == IF Same # {} THEN Min(Same) ELSE 0
<1>1. r = IF k = 0
          THEN [acc EXCEPT !.table = Append(@, f), !.index[f] = acc.at, !.at = @ + 1]
          ELSE [acc EXCEPT !.table[k] = f, !.index[f] = k - 1, !.at = k,
                           !.refused = IF ~funcs[f].override /\ funcs[f].class = c THEN @ \cup {f} ELSE @]
  BY Zenon DEF Placed, SelectInSeq
<1>2. t \in Seq(DOMAIN funcs) /\ Len(t) \in Nat /\ DOMAIN t = 1..Len(t)
  BY DEF Working
<1>3. (k \in Same) <=> Same # {}
  <2>1. Same \in SUBSET Nat /\ 0 \notin Same
    BY <1>2
  <2> HIDE DEF Same
  <2> QED
    BY <2>1, SelectIs
<1>4. Same # {} <=> funcs[f].name \in NamesIn(t)
  BY <1>2 DEF NamesIn
<1>5. k \in Same => k \in 1..Len(t) /\ funcs[t[k]].name = funcs[f].name
  OBVIOUS
<1>6. Same = {} => k = 0
  OBVIOUS
<1> HIDE DEF k, Same, t, r
<1>7. CASE Same = {}
  <2>1. r = [acc EXCEPT !.table = Append(@, f), !.index[f] = acc.at, !.at = @ + 1]
    BY <1>1, <1>6, <1>7
  <2> DEFINE s == Append(t, f)
  <2>s. /\ s \in Seq(DOMAIN funcs) /\ DOMAIN s = 1..(Len(t) + 1) /\ Len(t) + 1 \in DOMAIN s
        /\ s[Len(t) + 1] = f /\ \A j \in DOMAIN t : j \in DOMAIN s /\ s[j] = t[j]
        /\ \A j \in DOMAIN s : j \in DOMAIN t \/ j = Len(t) + 1
    BY <1>2
  <2> HIDE DEF s
  <2>r. r = [table |-> s, index |-> [acc.index EXCEPT ![f] = acc.at], at |-> acc.at + 1, refused |-> acc.refused]
    BY <2>1 DEF Working, t, s
  <2>i. [acc.index EXCEPT ![f] = acc.at] \in [DOMAIN funcs -> Nat] /\ acc.at + 1 \in Nat /\ acc.refused \in SUBSET DOMAIN funcs
    BY DEF Working
  <2>2. r \in Working /\ r.table = s /\ r.refused = acc.refused
    BY <2>r, <2>s, <2>i DEF Working
  <2>3. NamesIn(s) = NamesIn(t) \cup {funcs[f].name}
    BY <2>s DEF NamesIn
  <2> QED
    BY <1>4, <1>7, <2>2, <2>3 DEF t, r
<1>8. CASE Same # {}
  <2>1. k \in 1..Len(t) /\ funcs[t[k]].name = funcs[f].name /\ k # 0
    BY <1>2, <1>3, <1>5, <1>8
  <2>2. r = [acc EXCEPT !.table[k] = f, !.index[f] = k - 1, !.at = k,
                        !.refused = IF ~funcs[f].override /\ funcs[f].class = c THEN @ \cup {f} ELSE @]
    BY <1>1, <2>1
  <2> DEFINE more == IF ~funcs[f].override /\ funcs[f].class = c THEN acc.refused \cup {f} ELSE acc.refused
  <2>r. r = [table |-> [t EXCEPT ![k] = f], index |-> [acc.index EXCEPT ![f] = k - 1], at |-> k, refused |-> more]
    BY <2>2 DEF Working, t
  <2>i. [acc.index EXCEPT ![f] = k - 1] \in [DOMAIN funcs -> Nat] /\ k \in Nat /\ more \in SUBSET DOMAIN funcs
    BY <1>2, <2>1 DEF Working
  <2>s. [t EXCEPT ![k] = f] \in Seq(DOMAIN funcs)
    BY <1>2, <2>1
  <2> HIDE DEF more
  <2>4. r \in Working /\ r.table = [t EXCEPT ![k] = f] /\ r.refused = more
    BY <2>r, <2>s, <2>i DEF Working
  <2>5. NamesIn([t EXCEPT ![k] = f]) = NamesIn(t) \cup {funcs[f].name}
    BY <1>2, <2>1 DEF NamesIn
  <2> QED
    BY <1>4, <1>8, <2>4, <2>5 DEF t, r, more
<1> QED
  BY <1>7, <1>8

\* The function at position j of a list is refused, when the table has these names before.
Clashes(c, names, list, j) ==
  /\ ~funcs[list[j]].override /\ funcs[list[j]].class = c
  /\ \/ funcs[list[j]].name \in names
     \/ \E k \in 1..(j - 1) : funcs[list[k]].name = funcs[list[j]].name

\* A list adds its names to the table, and the functions at these positions to the refused ones.
LEMMA ListedIs ==
  ASSUME NEW c, NEW acc \in Working, NEW list \in Seq(DOMAIN funcs)
  PROVE  /\ Listed(c, acc, list) \in Working
         /\ \A n : n \in NamesIn(Listed(c, acc, list).table) <=> n \in NamesIn(acc.table) \/ n \in NamesIn(list)
         /\ \A g : g \in Listed(c, acc, list).refused <=>
                    g \in acc.refused \/ \E j \in DOMAIN list : g = list[j] /\ Clashes(c, NamesIn(acc.table), list, j)
<1> DEFINE N == Len(list)
           base == [acc EXCEPT !.at = 0]
           Is(f) == f = [j \in 0..N |-> IF j = 0 THEN [acc EXCEPT !.at = 0] ELSE Placed(c, f[j - 1], list[j])]
           whole == CHOOSE f : Is(f)
<1>1. Listed(c, acc, list) = whole[N]
  BY Zenon DEF Listed
<1>2. N \in Nat /\ DOMAIN list = 1..N /\ \A j \in 1..N : list[j] \in DOMAIN funcs
  OBVIOUS
<1>3. base \in Working /\ base.table = acc.table /\ base.refused = acc.refused
  BY DEF Working
<1>4. \E f : Is(f)
  <2> DEFINE step == [j \in 1..N |-> [a \in Working |-> Placed(c, a, list[j])]]
  <2>1. \A j \in 1..N : \A a \in Working : Placed(c, a, list[j]) \in Working
    BY <1>2, PlacedIs
  <2>2. step \in [1..N -> [Working -> Working]]
    BY <2>1
  <2> HIDE DEF step, base
  <2>3. PICK f : Follows(f, N, Working, base, step)
    BY <1>2, <1>3, <2>2, Recursion
  <2>4. ASSUME NEW j \in 1..N PROVE f[j] = Placed(c, f[j - 1], list[j])
    <3>1. j - 1 \in 0..N
      BY <1>2
    <3>2. f[j - 1] \in Working /\ f[j] = step[j][f[j - 1]]
      BY <2>3, <3>1 DEF Follows
    <3> QED
      BY <3>2 DEF step
  <2>5. f[0] = base /\ f = [j \in 0..N |-> f[j]]
    BY <2>3 DEF Follows
  <2>6. \A j \in 0..N : j = 0 \/ j \in 1..N
    BY <1>2
  <2>7. \A j \in 0..N : f[j] = IF j = 0 THEN base ELSE Placed(c, f[j - 1], list[j])
    BY <2>4, <2>5, <2>6, Zenon
  <2>8. f = [j \in 0..N |-> IF j = 0 THEN base ELSE Placed(c, f[j - 1], list[j])]
    BY <2>5, <2>7, Zenon
  <2> QED
    BY <2>8, Zenon DEF base
<1>5. Is(whole)
  BY <1>4, Zenon
<1> HIDE DEF whole
<1>6. whole[0] = base /\ \A j \in 1..N : whole[j] = Placed(c, whole[j - 1], list[j])
  BY <1>2, <1>5
<1> DEFINE M(n, j) == n \in NamesIn(acc.table) \/ \E k \in 1..j : n = funcs[list[k]].name
           R(g, j) == g \in acc.refused \/ \E k \in 1..j : g = list[k] /\ Clashes(c, NamesIn(acc.table), list, k)
           Right(j) == /\ whole[j] \in Working
                       /\ \A n : n \in NamesIn(whole[j].table) <=> M(n, j)
                       /\ \A g : g \in whole[j].refused <=> R(g, j)
           Good == {j \in 0..N : Right(j)}
<1>7. 0 \in Good
  <2>1. (\A n : M(n, 0) <=> n \in NamesIn(acc.table)) /\ \A g : R(g, 0) <=> g \in acc.refused
    BY <1>2
  <2> HIDE DEF M, R, base
  <2>2. Right(0)
    BY <1>3, <1>6, <2>1
  <2> HIDE DEF Right
  <2> QED
    BY <1>2, <2>2
<1>8. ASSUME NEW j \in 1..N, j - 1 \in Good PROVE j \in Good
  <2>1. PICK i \in 0..N, f \in DOMAIN funcs : i = j - 1 /\ f = list[j]
    BY <1>2
  <2>2. Right(i) /\ whole[j] = Placed(c, whole[i], f)
    BY <1>6, <1>8, <2>1
  <2>3. PICK a \in Working : a = whole[i]
    BY <2>2
  <2>4. /\ whole[j] \in Working
        /\ \A n : n \in NamesIn(whole[j].table) <=> n \in NamesIn(a.table) \/ n = funcs[f].name
        /\ \A g : g \in whole[j].refused <=>
                   g \in a.refused \/ (g = f /\ funcs[f].name \in NamesIn(a.table) /\ ~funcs[f].override /\ funcs[f].class = c)
    <3>1. whole[j] = Placed(c, a, f)
      BY <2>2, <2>3
    <3>2. /\ Placed(c, a, f) \in Working
          /\ \A n : n \in NamesIn(Placed(c, a, f).table) <=> n \in NamesIn(a.table) \/ n = funcs[f].name
      BY PlacedIs
    <3>3. \A g : g \in Placed(c, a, f).refused <=>
                   g \in a.refused \/ (g = f /\ funcs[f].name \in NamesIn(a.table) /\ ~funcs[f].override /\ funcs[f].class = c)
      BY PlacedIs
    <3> QED
      BY <3>1, <3>2, <3>3, Zenon
  <2>5. \A k : k \in 1..j <=> k \in 1..i \/ k = j
    BY <1>2, <2>1
  <2>6. \A n : M(n, j) <=> M(n, i) \/ n = funcs[f].name
    BY <2>1, <2>5, Zenon
  <2>7. Clashes(c, NamesIn(acc.table), list, j) <=> M(funcs[f].name, i) /\ ~funcs[f].override /\ funcs[f].class = c
    BY <2>1, Zenon DEF Clashes
  <2>8. \A g : R(g, j) <=> R(g, i) \/ (g = f /\ M(funcs[f].name, i) /\ ~funcs[f].override /\ funcs[f].class = c)
    BY <2>1, <2>5, <2>7, Zenon
  <2> HIDE DEF M, R
  <2>9. Right(j)
    BY <2>2, <2>3, <2>4, <2>6, <2>8, Zenon
  <2> HIDE DEF Right
  <2> QED
    BY <1>2, <2>9
<1>9. N \in 0..N /\ Good \in SUBSET (0..N)
  BY <1>2
<1> HIDE DEF Good
<1>10. N \in Good
  BY <1>2, <1>7, <1>8, <1>9, UpTo
<1>11. /\ \A n : M(n, N) <=> n \in NamesIn(acc.table) \/ n \in NamesIn(list)
       /\ \A g : R(g, N) <=> g \in acc.refused \/ \E j \in DOMAIN list : g = list[j] /\ Clashes(c, NamesIn(acc.table), list, j)
  BY <1>2 DEF NamesIn
<1> HIDE DEF M, R, N
<1> QED
  BY <1>1, <1>10, <1>11 DEF Good

\* g is in a class's own list, and behind another of its name there or in the lists before.
Clashing(c, lists, own, g) ==
  \E j \in DOMAIN own :
     /\ g = own[j] /\ ~funcs[own[j]].override /\ funcs[own[j]].class = c
     /\ \/ \E i \in 1..(Len(lists) - 1) : funcs[own[j]].name \in NamesIn(lists[i])
        \/ \E k \in 1..(j - 1) : funcs[own[k]].name = funcs[own[j]].name

\* A class whose functions are in the last list only has those refused whose names come before them.
LEMMA FixedTableIs ==
  ASSUME NEW c, NEW lists \in Seq(Seq(DOMAIN funcs)), lists # <<>>, \A f \in DOMAIN funcs : funcs[f].index \in Nat,
         \A i \in 1..(Len(lists) - 1) : \A j \in DOMAIN lists[i] : funcs[lists[i][j]].class # c
  PROVE  /\ FixedTable(c, lists) \in Working
         /\ \A g : g \in FixedTable(c, lists).refused <=> Clashing(c, lists, lists[Len(lists)], g)
<1> DEFINE N == Len(lists)
           Is(f) == f = [i \in 0..N |-> IF i = 0 THEN Empty ELSE Listed(c, f[i - 1], lists[i])]
           whole == CHOOSE f : Is(f)
<1>1. FixedTable(c, lists) = whole[N]
  BY Zenon DEF FixedTable
<1>2. N \in Nat /\ N # 0 /\ \A i \in 1..N : lists[i] \in Seq(DOMAIN funcs)
  OBVIOUS
<1>3. Empty \in Working /\ Empty.table = <<>> /\ Empty.refused = {}
  BY DEF Working, Empty
<1>4. \E f : Is(f)
  <2> DEFINE step == [i \in 1..N |-> [a \in Working |-> Listed(c, a, lists[i])]]
  <2>1. \A i \in 1..N : \A a \in Working : Listed(c, a, lists[i]) \in Working
    BY <1>2, ListedIs
  <2>2. step \in [1..N -> [Working -> Working]]
    BY <2>1
  <2> HIDE DEF step
  <2>3. PICK f : Follows(f, N, Working, Empty, step)
    BY <1>2, <1>3, <2>2, Recursion
  <2>4. ASSUME NEW i \in 1..N PROVE f[i] = Listed(c, f[i - 1], lists[i])
    <3>1. i - 1 \in 0..N
      BY <1>2
    <3>2. f[i - 1] \in Working /\ f[i] = step[i][f[i - 1]]
      BY <2>3, <3>1 DEF Follows
    <3> QED
      BY <3>2 DEF step
  <2>5. f[0] = Empty /\ f = [i \in 0..N |-> f[i]]
    BY <2>3 DEF Follows
  <2>6. \A i \in 0..N : i = 0 \/ i \in 1..N
    BY <1>2
  <2>7. \A i \in 0..N : f[i] = IF i = 0 THEN Empty ELSE Listed(c, f[i - 1], lists[i])
    BY <2>4, <2>5, <2>6, Zenon
  <2>8. f = [i \in 0..N |-> IF i = 0 THEN Empty ELSE Listed(c, f[i - 1], lists[i])]
    BY <2>5, <2>7, Zenon
  <2> QED
    BY <2>8, Zenon
<1>5. Is(whole)
  BY <1>4, Zenon
<1> HIDE DEF whole
<1>6. whole[0] = Empty /\ \A i \in 1..N : whole[i] = Listed(c, whole[i - 1], lists[i])
  <2>1. 0 \in 0..N /\ \A i \in 1..N : i \in 0..N /\ i # 0
    BY <1>2
  <2>2. \A i \in 0..N : whole[i] = IF i = 0 THEN Empty ELSE Listed(c, whole[i - 1], lists[i])
    BY <1>5, Zenon
  <2> QED
    BY <2>1, <2>2, Zenon
<1> DEFINE M(n, i) == \E k \in 1..i : n \in NamesIn(lists[k])
           Right(i) == /\ whole[i] \in Working
                       /\ \A n : n \in NamesIn(whole[i].table) <=> M(n, i)
                       /\ i < N => \A g : g \notin whole[i].refused
           Good == {i \in 0..N : Right(i)}
<1>7. 0 \in Good
  <2>1. \A n : ~M(n, 0)
    BY <1>2
  <2>2. \A n : n \notin NamesIn(<<>>)
    BY DEF NamesIn
  <2> HIDE DEF M
  <2>3. Right(0)
    BY <1>3, <1>6, <2>1, <2>2
  <2> HIDE DEF Right
  <2> QED
    BY <1>2, <2>3
<1>8. ASSUME NEW j \in 1..N, j - 1 \in 0..N, Right(j - 1)
      PROVE  /\ Right(j)
             /\ \A g : g \in whole[j].refused <=> \E k \in DOMAIN lists[j] :
                         /\ g = lists[j][k] /\ ~funcs[lists[j][k]].override /\ funcs[lists[j][k]].class = c
                         /\ \/ M(funcs[lists[j][k]].name, j - 1)
                            \/ \E m \in 1..(k - 1) : funcs[lists[j][m]].name = funcs[lists[j][k]].name
  <2>1. PICK i \in 0..N, list \in Seq(DOMAIN funcs) : i = j - 1 /\ list = lists[j]
    BY <1>2, <1>8
  <2>2. PICK a \in Working : a = whole[i]
    BY <1>8, <2>1
  <2>3. whole[j] = Listed(c, a, list) /\ Right(i)
    BY <1>6, <1>8, <2>1, <2>2
  <2>4. /\ Listed(c, a, list) \in Working
        /\ \A n : n \in NamesIn(Listed(c, a, list).table) <=> n \in NamesIn(a.table) \/ n \in NamesIn(list)
    BY ListedIs
  <2>5. \A g : g \in Listed(c, a, list).refused <=>
                 g \in a.refused \/ \E k \in DOMAIN list : g = list[k] /\ Clashes(c, NamesIn(a.table), list, k)
    BY ListedIs
  <2>6. \A k : k \in 1..j <=> k \in 1..i \/ k = j
    BY <1>2, <2>1
  <2>7. \A n : M(n, j) <=> M(n, i) \/ n \in NamesIn(list)
    BY <2>1, <2>6, Zenon
  <2>8. \A g : g \notin a.refused
    <3>1. i < N
      BY <1>2, <2>1
    <3> QED
      BY <2>2, <2>3, <3>1
  <2>n. \A n : n \in NamesIn(a.table) <=> M(n, i)
    BY <2>2, <2>3
  <2> HIDE DEF M
  <2>9. \A g : g \in whole[j].refused <=> \E k \in DOMAIN list :
                         /\ g = list[k] /\ ~funcs[list[k]].override /\ funcs[list[k]].class = c
                         /\ \/ M(funcs[list[k]].name, i)
                            \/ \E m \in 1..(k - 1) : funcs[list[m]].name = funcs[list[k]].name
    BY <2>3, <2>5, <2>8, <2>n, Zenon DEF Clashes
  <2>10. j < N => \A g : g \notin whole[j].refused
    <3> SUFFICES ASSUME j < N PROVE \A g : g \notin whole[j].refused
      OBVIOUS
    <3>1. \A k \in DOMAIN list : funcs[list[k]].class # c
      <4>1. j \in 1..(N - 1)
        BY <1>2
      <4> QED
        BY <2>1, <4>1
    <3> QED
      BY <2>9, <3>1, Zenon
  <2>11. Right(j)
    BY <2>3, <2>4, <2>n, <2>7, <2>10, Zenon
  <2> HIDE DEF Right
  <2> QED
    BY <2>1, <2>9, <2>11
<1>9. \A j \in 1..N : j - 1 \in Good => j \in Good
  <2> SUFFICES ASSUME NEW j \in 1..N, j - 1 \in Good PROVE j \in Good
    OBVIOUS
  <2>1. j - 1 \in 0..N /\ Right(j - 1) /\ j \in 0..N
    BY <1>2
  <2>2. Right(j)
    BY <1>8, <2>1, Zenon
  <2> HIDE DEF Right
  <2> QED
    BY <2>1, <2>2
<1>10. N \in 1..N /\ N \in 0..N /\ N - 1 \in 0..N /\ Good \in SUBSET (0..N)
  BY <1>2
<1>11. Right(N - 1) /\ Right(N)
  <2> HIDE DEF Good
  <2>1. Good = 0..N
    BY <1>2, <1>7, <1>9, <1>10, UpTo
  <2>2. N - 1 \in Good /\ N \in Good
    BY <1>10, <2>1
  <2> HIDE DEF Right
  <2> QED
    BY <2>2 DEF Good
<1>12. \A g : g \in whole[N].refused <=> \E k \in DOMAIN lists[N] :
                         /\ g = lists[N][k] /\ ~funcs[lists[N][k]].override /\ funcs[lists[N][k]].class = c
                         /\ \/ M(funcs[lists[N][k]].name, N - 1)
                            \/ \E m \in 1..(k - 1) : funcs[lists[N][m]].name = funcs[lists[N][k]].name
  <2> HIDE DEF Right, M, Good
  <2> QED
    BY <1>8, <1>10, <1>11, Zenon
<1>13. whole[N] \in Working
  BY <1>11
<1> HIDE DEF Right, Good
<1> QED
  BY <1>1, <1>12, <1>13, Zenon DEF Clashing

-----------------------------------------------------------------------------
(* Which methods are refused: what is said of them, of the functions and of the tables *)

\* Tasks of one class wait in the order of its stages, with a call before the methods.
Rank(t) ==
  CASE t.do = "inherit" -> 0
    [] t.do = "declare" -> 1
    [] t.do = "call" -> 2
    [] OTHER -> 2 + t.i

\* A class leads to those whose tasks come before its own.
InTurn(q) ==
  \A i, j \in 1..Len(q) : i < j /\ q[j].do # "type" =>
      /\ LeadsTo(q[j].class, q[i].class)
      /\ q[i].do # "type" /\ q[i].class = q[j].class => Rank(q[i]) < Rank(q[j])

Waits(do, c) == \E t \in ToSet(todo) : t.do = do /\ t.class = c
WaitsFor(do, c, i) == \E t \in ToSet(todo) : t.do = do /\ t.class = c /\ t.i = i

\* Every class was met or waits for it; of one that was met the later stages wait with the earlier ones.
Awaited ==
  /\ \A t \in ToSet(todo) : t.do # "type" => t.class \in DOMAIN types
  /\ \A c \in Names : c \in DOMAIN types \/ Waits("type", c)
  /\ \A c \in Names : Waits("inherit", c) => Waits("declare", c)
  /\ \A c \in Names : Waits("declare", c) => \A i \in DOMAIN Class(c).methods : WaitsFor("method", c, i)
  /\ \A c \in Names : \A i, k \in DOMAIN Class(c).methods : WaitsFor("method", c, i) /\ i < k => WaitsFor("method", c, k)

\* The classes that were met are numbered from 0.
Identified ==
  /\ \A c \in DOMAIN types : types[c].id \in 0 .. Cardinality(DOMAIN types) - 1
  /\ \A c, d \in DOMAIN types : types[c].id = types[d].id => c = d
  /\ \A n \in 0 .. Cardinality(DOMAIN types) - 1 : \E c \in DOMAIN types : types[c].id = n

\* f is a function of method i of class c. A method has none, one or more.
Of(f, c, i) == funcs[f].class = c /\ funcs[f].name = Method(c, i).name
Made(c, i) == \E f \in DOMAIN funcs : Of(f, c, i)
Twice(c, i) == \E f, g \in DOMAIN funcs : f # g /\ Of(f, c, i) /\ Of(g, c, i)

FunctionsOK ==
  /\ funcs \in Seq({funcs[f] : f \in DOMAIN funcs})
  /\ \A f \in DOMAIN funcs :
       /\ DOMAIN funcs[f] = {"class", "name", "override", "index"}
       /\ funcs[f].class \in Names /\ funcs[f].name \in 1 .. LastName /\ funcs[f].index \in Nat
       /\ \E i \in DOMAIN Class(funcs[f].class).methods : Of(f, funcs[f].class, i)

\* The functions of a class are marked as its methods are.
Marked(c) ==
  \A f \in DOMAIN funcs : \A i \in DOMAIN Class(c).methods : Of(f, c, i) => (funcs[f].override <=> Method(c, i).override)

\* The methods in V lead to a call of method i.
Led(c, V, i) ==
  \A S \in SUBSET DOMAIN Class(c).methods :
      (\A k, j \in DOMAIN Class(c).methods : (k \in V \/ k \in S) /\ Calls(c, k, j) => j \in S) => i \in S

Visited(c) == {i \in DOMAIN Class(c).methods : c \in DOMAIN types /\ ~WaitsFor("method", c, i)}

\* A method has a function when it was visited or called, and two when both.
Generated(c) ==
  \A i \in DOMAIN Class(c).methods :
      /\ i \in Visited(c) => Made(c, i)
      /\ Made(c, i) => i \in Visited(c) \/ Led(c, Visited(c), i)
      /\ WaitsFor("call", c, i) => Led(c, Visited(c), i)
      /\ Made(c, i) => \A j \in DOMAIN Class(c).methods : Calls(c, i, j) => Made(c, j) \/ WaitsFor("call", c, j)
      /\ i \in Visited(c) => (Twice(c, i) <=> CalledBefore(c, i))
      /\ i \notin Visited(c) => ~Twice(c, i)

\* The functions of a class or of one above it.
Upward(c) == {f \in DOMAIN funcs : funcs[f].class = c \/ Below(c, funcs[f].class)}
Above(c) == {f \in DOMAIN funcs : Below(c, funcs[f].class)}

\* createdFunctions has of a class its functions and some of those above it, by their names.
Entered ==
  /\ created \in [Names -> [1 .. LastName -> Seq(DOMAIN funcs)]]
  /\ \A c \in Names : \A n \in 1 .. LastName :
       \A j \in DOMAIN created[c][n] : created[c][n][j] \in Upward(c) /\ funcs[created[c][n][j]].name = n
  /\ \A f \in DOMAIN funcs : \E j \in DOMAIN created[funcs[f].class][funcs[f].name] : created[funcs[f].class][funcs[f].name][j] = f

\* The table of a class has each of its functions once, and others of classes above it.
HasFunctions(c, table) ==
  /\ table \in Seq(Upward(c))
  /\ \A f \in DOMAIN funcs : funcs[f].class = c => \E j \in DOMAIN table : table[j] = f
  /\ \A j, k \in DOMAIN table : table[j] = table[k] /\ funcs[table[j]].class = c => j = k
Tabled(c) == HasFunctions(c, types[c].vtable)

\* The ancestors of a class are all those above it, with tables that have their methods.
HasAncestors(c, up) ==
  /\ \A k \in DOMAIN up : /\ up[k].vtable \in Seq(Above(c))
                          /\ \A i \in DOMAIN Class(up[k].class).methods :
                               \E j \in DOMAIN up[k].vtable : funcs[up[k].vtable[j]].name = Method(up[k].class, i).name
  /\ \A b \in Names : Below(c, b) => \E k \in DOMAIN up : up[k].class = b
Inherits(c) == HasAncestors(c, types[c].ancestors)

Transforming ==
  /\ InTurn(todo) /\ Awaited /\ Identified
  /\ \A c \in Names : Marked(c) /\ Generated(c)
  /\ Entered
  /\ \A c \in DOMAIN types : /\ Tabled(c)
                             /\ ~Waits("inherit", c) => Inherits(c)
                             /\ Class(c).methods # <<>> /\ ~Waits("declare", c) => types[c].hasVtable
  /\ refused = {}

\* What the check of a class finds.
Ready(c) ==
  /\ Marked(c) /\ Tabled(c) /\ Inherits(c)
  /\ \A i \in DOMAIN Class(c).methods : Made(c, i) /\ (Twice(c, i) <=> CalledBefore(c, i))
  /\ Class(c).methods # <<>> => types[c].hasVtable

\* The name of a method of class c that is to be refused.
ToRefuse(c, n) ==
  \E i \in DOMAIN Class(c).methods :
      /\ Method(c, i).name = n /\ ~Method(c, i).override
      /\ Redefines(c, n) \/ CalledBefore(c, i)
Refused(c, n) == \E f \in refused : funcs[f].class = c /\ funcs[f].name = n

Checking ==
  /\ \A i \in DOMAIN todo : todo[i].class \in Names /\ \A j \in DOMAIN todo : todo[i].class = todo[j].class => i = j
  /\ DOMAIN types = Names /\ refused \subseteq DOMAIN funcs
  /\ \A c \in Names : Waits("fix", c) => Ready(c) /\ \A n \in 1 .. LastName : ~Refused(c, n)
  /\ \A c \in Names : ~Waits("fix", c) => \A n \in 1 .. LastName : Refused(c, n) <=> ToRefuse(c, n)

\* What holds of the programs that RefusesExactly is about.
Regular == MentionsNoDescendant /\ MethodsDiffer
Refusals ==
  /\ stage \in {"transform", "check", "done"}
  /\ stage = "done" => todo = <<>>
  /\ Regular => /\ FunctionsOK
                /\ stage = "transform" => Transforming
                /\ stage # "transform" => Checking

-----------------------------------------------------------------------------
(* More of the program *)

\* This too stays true while it is transformed.
LEMMA StaticToo ==
  ASSUME prog' = prog
  PROVE  /\ \A c, i : Method(c, i)' = Method(c, i)
         /\ \A c, i, j : Calls(c, i, j)' <=> Calls(c, i, j)
         /\ \A c, V, i : Led(c, V, i)' <=> Led(c, V, i)
         /\ \A c, i : CalledBefore(c, i)' <=> CalledBefore(c, i)
         /\ \A c, n : ToRefuse(c, n)' <=> ToRefuse(c, n)
         /\ Regular' <=> Regular
<1>1. Names' = Names
  BY Static
<1>2. \A c : Class(c)' = Class(c)
  BY Static
<1>3. \A c, d : Below(c, d)' = Below(c, d)
  BY Static
<1>4. \A c, d : LeadsTo(c, d)' = LeadsTo(c, d)
  BY Static
<1>5. \A c, i : Method(c, i)' = Method(c, i)
  BY <1>2 DEF Method
<1>6. \A c, i, j : Calls(c, i, j)' <=> Calls(c, i, j)
  BY <1>5, Zenon DEF Calls
<1>7. ASSUME NEW c, NEW V, NEW i PROVE Led(c, V, i)' <=> Led(c, V, i)
  BY <1>2, <1>6, Zenon DEF Led
<1>8. ASSUME NEW c, NEW i PROVE CalledBefore(c, i)' <=> CalledBefore(c, i)
  BY <1>2, <1>6, Zenon DEF CalledBefore
<1>9. ASSUME NEW c, NEW n PROVE Declares(c, n)' <=> Declares(c, n)
  BY <1>2, <1>5, Zenon DEF Declares
<1>10. ASSUME NEW c, NEW n PROVE Redefines(c, n)' <=> Redefines(c, n)
  BY <1>1, <1>3, <1>9, Zenon DEF Redefines
<1>11. ASSUME NEW c, NEW n PROVE ToRefuse(c, n)' <=> ToRefuse(c, n)
  BY <1>2, <1>5, <1>8, <1>10, Zenon DEF ToRefuse
<1>12. MentionsNoDescendant' <=> MentionsNoDescendant
  BY <1>1, <1>3, <1>4, Zenon DEF MentionsNoDescendant
<1>13. MethodsDiffer' <=> MethodsDiffer
  BY <1>1, <1>2, <1>5, Zenon DEF MethodsDiffer
<1>14. Regular' <=> Regular
  BY <1>12, <1>13, Zenon DEF Regular
<1> QED
  BY <1>5, <1>6, <1>7, <1>8, <1>11, <1>14, Zenon

\* A class descends from its parent and from those that its parent descends from, and from no other.
LEMMA BelowIs ==
  ASSUME prog \in Program, NEW c \in Names, NEW b, Below(c, b)
  PROVE  b \in Names /\ HasParent(c) /\ Class(c).parent \in Names /\ (b = Class(c).parent \/ Below(Class(c).parent, b))
<1>1. HasParent(c)
  BY DEF Below
<1>2. \A x \in Names : HasParent(x) => Class(x).parent \in Names
  <2> SUFFICES ASSUME NEW x \in Names, HasParent(x) PROVE Class(x).parent \in Names
    OBVIOUS
  <2>1. {Class(x).parent, Class(x).field} \subseteq Names \cup {NoClass}
    BY ClassType
  <2> QED
    BY <2>1 DEF HasParent
<1>3. b \in Names
  BY <1>1, <1>2 DEF Below
<1> DEFINE p == Class(c).parent
           S == {p} \cup {x \in Names : Below(p, x)}
<1>4. S \in SUBSET Names /\ p \in S /\ p \in Names
  BY <1>1, <1>2
<1>5. ASSUME NEW x \in S, HasParent(x) PROVE Class(x).parent \in S
  <2>1. Class(x).parent \in Names
    BY <1>2, <1>4, <1>5
  <2>2. CASE x = p
    <3>1. Below(p, Class(p).parent)
      BY <1>5, <2>2, BelowOn
    <3> QED
      BY <2>1, <2>2, <3>1
  <2>3. CASE Below(p, x)
    <3>1. Below(p, Class(x).parent)
      BY <1>5, <2>3 DEF Below
    <3> QED
      BY <2>1, <3>1
  <2> QED
    BY <2>2, <2>3
<1> HIDE DEF S
<1>6. b \in S
  BY <1>4, <1>5 DEF Below
<1> QED
  BY <1>1, <1>3, <1>4, <1>6 DEF S

\* Descent from an ancestor's ancestor.
LEMMA BelowTrans ==
  ASSUME NEW c, NEW b, NEW a, Below(c, b), Below(b, a)
  PROVE  Below(c, a)
BY DEF Below

\* No class descends from itself.
LEMMA NotBelowItself ==
  ASSUME MentionsNoDescendant, NEW c \in Names
  PROVE  ~Below(c, c)
BY LeadsAtOnce DEF MentionsNoDescendant

-----------------------------------------------------------------------------
(* More of what remains to be done *)

\* The tasks behind the first.
Rest == {todo[j] : j \in 2..Len(todo)}

\* What waits after a step is what takes the place of the first task, and the rest.
LEMMA Turned ==
  ASSUME todo \in Seq(Tasks), todo # <<>>, NEW s \in Seq(Tasks), todo' = s \o Tail(todo)
  PROVE  /\ \A t : t \in ToSet(todo) <=> t = Head(todo) \/ t \in Rest
         /\ \A t : t \in ToSet(todo)' <=> t \in ToSet(s) \/ t \in Rest
         /\ \A t \in ToSet(todo) : t \in Tasks
         /\ Rest \subseteq Tasks /\ Head(todo) \in Tasks
<1>1. /\ Len(todo) \in Nat \ {0} /\ Len(s) \in Nat /\ Head(todo) = todo[1] /\ todo[1] \in Tasks
      /\ todo' \in Seq(Tasks) /\ Len(todo') = Len(s) + Len(todo) - 1
      /\ \A i \in 1..Len(s) : todo'[i] = s[i]
      /\ \A i \in 1..Len(todo') : i > Len(s) => todo'[i] = todo[i - Len(s) + 1]
      /\ \A i \in 2..Len(todo) : i + Len(s) - 1 \in 1..Len(todo') /\ todo'[i + Len(s) - 1] = todo[i]
  BY Replaced
<1>2. DOMAIN todo = 1..Len(todo) /\ DOMAIN s = 1..Len(s) /\ \A i \in 1..Len(todo) : todo[i] \in Tasks
  OBVIOUS
<1>3. DOMAIN todo' = 1..Len(todo')
  BY <1>1
<1>4. ASSUME NEW t PROVE t \in ToSet(todo) <=> t = Head(todo) \/ t \in Rest
  <2>1. \A i : i \in 1..Len(todo) <=> i = 1 \/ i \in 2..Len(todo)
    BY <1>1
  <2> QED
    BY <1>1, <1>2, <2>1 DEF ToSet, Rest
<1>5. ASSUME NEW t, t \in ToSet(todo)' PROVE t \in ToSet(s) \/ t \in Rest
  <2>1. PICK i \in 1..Len(todo') : t = todo'[i]
    BY <1>3, <1>5 DEF ToSet
  <2>2. CASE i <= Len(s)
    <3>1. i \in 1..Len(s) /\ t = s[i]
      BY <1>1, <2>1, <2>2
    <3> QED
      BY <1>2, <3>1 DEF ToSet
  <2>3. CASE i > Len(s)
    <3>1. i - Len(s) + 1 \in 2..Len(todo) /\ t = todo[i - Len(s) + 1]
      BY <1>1, <2>1, <2>3
    <3> QED
      BY <3>1 DEF Rest
  <2> QED
    BY <1>1, <2>2, <2>3
<1>6. ASSUME NEW t, t \in ToSet(s) PROVE t \in ToSet(todo)'
  <2>1. PICK i \in 1..Len(s) : t = s[i]
    BY <1>2, <1>6 DEF ToSet
  <2>2. i \in 1..Len(todo') /\ t = todo'[i]
    BY <1>1, <2>1
  <2> QED
    BY <1>3, <2>2 DEF ToSet
<1>7. ASSUME NEW t, t \in Rest PROVE t \in ToSet(todo)'
  <2>1. PICK i \in 2..Len(todo) : t = todo[i]
    BY <1>7 DEF Rest
  <2>2. i + Len(s) - 1 \in 1..Len(todo') /\ t = todo'[i + Len(s) - 1]
    BY <1>1, <2>1
  <2> QED
    BY <1>3, <2>2 DEF ToSet
<1>8. Rest \subseteq Tasks
  BY <1>1, <1>2 DEF Rest
<1> QED
  BY <1>1, <1>4, <1>5, <1>6, <1>7, <1>8

\* The tasks behind the first are of classes that lead to its class, or come later in its turn.
LEMMA RestInTurn ==
  ASSUME todo \in Seq(Tasks), todo # <<>>, InTurn(todo), NEW t \in Rest, t.do # "type"
  PROVE  /\ LeadsTo(t.class, This)
         /\ Head(todo).do # "type" /\ t.class = This => Rank(Head(todo)) < Rank(t)
<1>1. Len(todo) \in Nat \ {0} /\ Head(todo) = todo[1] /\ This = todo[1].class
  BY DEF This
<1>2. PICK j \in 2..Len(todo) : t = todo[j]
  BY DEF Rest
<1>3. 1 \in 1..Len(todo) /\ j \in 1..Len(todo) /\ 1 < j
  BY <1>1
<1> QED
  BY <1>1, <1>2, <1>3 DEF InTurn

\* Tasks of a class, and of those that it mentions, may take the place of its first task.
LEMMA InTurnStep ==
  ASSUME todo \in Seq(Tasks), todo # <<>>, InTurn(todo), NEW s \in Seq(Tasks), InTurn(s),
         \A i \in 1..Len(s) : s[i].class \in {This} \cup Mentions(This),
         \A i \in 1..Len(s) : s[i].do # "type" =>
            s[i].class = This /\ \A t \in Rest : t.do # "type" /\ t.class = This => Rank(s[i]) < Rank(t)
  PROVE  InTurn(s \o Tail(todo))
<1> DEFINE r == s \o Tail(todo)
<1>r. r = s \o Tail(todo)
  OBVIOUS
<1> HIDE DEF r
<1>1. /\ Len(todo) \in Nat \ {0} /\ Len(s) \in Nat /\ Head(todo) = todo[1]
      /\ Len(r) = Len(s) + Len(todo) - 1
      /\ \A i \in 1..Len(s) : r[i] = s[i]
      /\ \A i \in 1..Len(r) : i > Len(s) => r[i] = todo[i - Len(s) + 1]
  BY <1>r, Replaced
<1> SUFFICES ASSUME NEW i \in 1..Len(r), NEW j \in 1..Len(r), i < j, r[j].do # "type"
             PROVE  /\ LeadsTo(r[j].class, r[i].class)
                    /\ r[i].do # "type" /\ r[i].class = r[j].class => Rank(r[i]) < Rank(r[j])
  BY Zenon DEF InTurn, r
<1>2. CASE j <= Len(s)
  <2>1. i \in 1..Len(s) /\ j \in 1..Len(s) /\ r[i] = s[i] /\ r[j] = s[j]
    BY <1>1, <1>2
  <2> QED
    BY <2>1 DEF InTurn
<1>3. CASE j > Len(s) /\ i > Len(s)
  <2>1. r[i] = todo[i - Len(s) + 1] /\ r[j] = todo[j - Len(s) + 1]
    BY <1>1, <1>3
  <2>2. /\ i - Len(s) + 1 \in 1..Len(todo) /\ j - Len(s) + 1 \in 1..Len(todo)
        /\ i - Len(s) + 1 < j - Len(s) + 1
    BY <1>1, <1>3
  <2> QED
    BY <2>1, <2>2 DEF InTurn
<1>4. CASE j > Len(s) /\ i <= Len(s)
  <2>1. r[j] = todo[j - Len(s) + 1] /\ j - Len(s) + 1 \in 2..Len(todo) /\ r[i] = s[i] /\ i \in 1..Len(s)
    <3>1. j - Len(s) + 1 \in 2..Len(todo) /\ i \in 1..Len(s)
      BY <1>1, <1>4
    <3>2. r[i] = s[i]
      BY <1>1, <3>1
    <3>3. r[j] = todo[j - Len(s) + 1]
      BY <1>1, <1>4
    <3> QED
      BY <3>1, <3>2, <3>3
  <2>2. r[j] \in Rest
    BY <2>1 DEF Rest
  <2>3. LeadsTo(r[j].class, This)
    BY <2>2, RestInTurn
  <2>4. LeadsTo(r[j].class, s[i].class)
    BY <2>1, <2>3, LeadsOn
  <2> QED
    BY <2>1, <2>2, <2>4
<1> QED
  BY <1>1, <1>2, <1>3, <1>4

\* The tasks that a class comes to are in turn, and with them come all its methods.
LEMMA StagesTasks ==
  ASSUME prog \in Program, NEW c \in Names
  PROVE  /\ Stages(c) \in Seq(Tasks) /\ InTurn(Stages(c))
         /\ \A i \in 1..Len(Stages(c)) : Stages(c)[i].class \in {c} \cup Mentions(c)
         /\ \A t \in ToSet(Stages(c)) : t.do = "type" \/ (t.class = c /\ t.do \in {"inherit", "declare", "method"})
         /\ \E t \in ToSet(Stages(c)) : t.do = "inherit" /\ t.class = c
         /\ \E t \in ToSet(Stages(c)) : t.do = "declare" /\ t.class = c
         /\ \A i \in DOMAIN Class(c).methods : \E t \in ToSet(Stages(c)) : t.do = "method" /\ t.class = c /\ t.i = i
<1> DEFINE s == Stages(c)
           M == Len(Class(c).methods)
<1>1. s \in Seq(Tasks) /\ \A j \in 1..Len(s) : s[j].class \in {c} \cup Mentions(c)
  BY StagesType
<1>2. PICK n \in Nat : /\ Len(s) = n + 2 + M
                       /\ \A i \in 1..n : s[i].do = "type"
                       /\ s[n + 1] = Task("inherit", c, 0) /\ s[n + 2] = Task("declare", c, 0)
                       /\ \A i \in 1..M : s[n + 2 + i] = Task("method", c, i)
  <2>1. PICK n \in Nat : StagesAre(c, n)
    BY StagesType
  <2> QED
    BY <2>1 DEF StagesAre
<1>3. M \in Nat /\ DOMAIN Class(c).methods = 1..M
  <2>1. Class(c).methods \in Seq({Class(c).methods[i] : i \in DOMAIN Class(c).methods})
    BY ClassType
  <2> QED
    BY <2>1
<1>4. DOMAIN s = 1..Len(s)
  BY <1>1
<1> HIDE DEF s, M
<1>5. ASSUME NEW i \in 1..Len(s)
      PROVE  \/ i \in 1..n /\ s[i].do = "type"
             \/ i = n + 1 /\ s[i].do = "inherit" /\ s[i].class = c
             \/ i = n + 2 /\ s[i].do = "declare" /\ s[i].class = c
             \/ i - (n + 2) \in 1..M /\ s[i].do = "method" /\ s[i].class = c /\ s[i].i = i - (n + 2)
  <2>1. CASE i \in 1..n
    BY <1>2, <2>1
  <2>2. CASE i = n + 1
    BY <1>2, <2>2 DEF Task
  <2>3. CASE i = n + 2
    BY <1>2, <2>3 DEF Task
  <2>4. CASE i > n + 2
    <3>1. i - (n + 2) \in 1..M /\ n + 2 + (i - (n + 2)) = i
      BY <1>2, <1>3, <2>4
    <3>2. s[i] = Task("method", c, i - (n + 2))
      BY <1>2, <3>1
    <3> QED
      BY <3>1, <3>2 DEF Task
  <2> QED
    BY <1>2, <1>3, <2>1, <2>2, <2>3, <2>4
<1>6. \A d \in {c} \cup Mentions(c) : LeadsTo(c, d)
  BY LeadsAtOnce, LeadsOn
<1>7. ASSUME NEW i \in 1..Len(s), s[i].do # "type"
      PROVE  /\ s[i].class = c /\ s[i].do \in {"inherit", "declare", "method"}
             /\ Rank(s[i]) = IF i <= n + 2 THEN i - (n + 1) ELSE 2 + (i - (n + 2))
  <2>1. CASE i = n + 1 /\ s[i].do = "inherit" /\ s[i].class = c
    <3>1. Rank(s[i]) = 0
      BY <2>1 DEF Rank
    <3> QED
      BY <1>3, <2>1, <3>1
  <2>2. CASE i = n + 2 /\ s[i].do = "declare" /\ s[i].class = c
    <3>1. Rank(s[i]) = 1
      BY <2>2 DEF Rank
    <3> QED
      BY <1>3, <2>2, <3>1
  <2>3. CASE i - (n + 2) \in 1..M /\ s[i].do = "method" /\ s[i].class = c /\ s[i].i = i - (n + 2)
    <3>1. Rank(s[i]) = 2 + s[i].i
      BY <2>3 DEF Rank
    <3> QED
      BY <1>3, <2>3, <3>1
  <2> QED
    BY <1>5, <1>7, <2>1, <2>2, <2>3
<1>8. ASSUME NEW i \in 1..Len(s), NEW j \in 1..Len(s), i < j, s[j].do # "type"
      PROVE  /\ LeadsTo(s[j].class, s[i].class)
             /\ s[i].do # "type" /\ s[i].class = s[j].class => Rank(s[i]) < Rank(s[j])
  <2>1. s[j].class = c
    BY <1>7, <1>8
  <2>2. LeadsTo(s[j].class, s[i].class)
    BY <1>1, <1>6, <2>1 DEF s
  <2>3. ASSUME s[i].do # "type" PROVE Rank(s[i]) < Rank(s[j])
    <3>1. i \in Nat /\ j \in Nat
      OBVIOUS
    <3> QED
      BY <1>2, <1>3, <1>7, <1>8, <2>3, <3>1
  <2> QED
    BY <2>2, <2>3
<1>9. InTurn(s)
  BY <1>8 DEF InTurn
<1>10. n + 2 \in 1..Len(s) /\ s[n + 2].do = "declare" /\ s[n + 2].class = c
  BY <1>2, <1>3 DEF Task
<1>11. n + 1 \in 1..Len(s) /\ s[n + 1].do = "inherit" /\ s[n + 1].class = c
  BY <1>2, <1>3 DEF Task
<1>12. ASSUME NEW i \in 1..M PROVE n + 2 + i \in 1..Len(s) /\ s[n + 2 + i] = Task("method", c, i)
  BY <1>2, <1>3
<1>13. ASSUME NEW i \in DOMAIN Class(c).methods
       PROVE  \E t \in ToSet(s) : t.do = "method" /\ t.class = c /\ t.i = i
  <2>1. Task("method", c, i) \in ToSet(s)
    BY <1>3, <1>4, <1>12 DEF ToSet
  <2>2. Task("method", c, i).do = "method" /\ Task("method", c, i).class = c /\ Task("method", c, i).i = i
    BY DEF Task
  <2> QED
    BY <2>1, <2>2
<1>14. \A t \in ToSet(s) : t.do = "type" \/ (t.class = c /\ t.do \in {"inherit", "declare", "method"})
  BY <1>4, <1>7 DEF ToSet
<1>15. \E t \in ToSet(s) : t.do = "declare" /\ t.class = c
  BY <1>4, <1>10 DEF ToSet
<1>16. \E t \in ToSet(s) : t.do = "inherit" /\ t.class = c
  BY <1>4, <1>11 DEF ToSet
<1> QED
  BY <1>1, <1>9, <1>13, <1>14, <1>15, <1>16 DEF s

\* A method's body comes to a call of the method that it calls, or to a class.
LEMMA BodyTasks ==
  ASSUME prog \in Program, MethodsDiffer, NEW c \in Names, NEW i \in DOMAIN Class(c).methods
  PROVE  LET s == Body(c, Method(c, i).does)
         IN  /\ s \in Seq(Tasks) /\ InTurn(s)
             /\ \A j \in 1..Len(s) : s[j].class \in {c} \cup Mentions(c)
             /\ \A t \in ToSet(s) : t.do = "type" \/ (t.do = "call" /\ t.class = c /\ t.i \in DOMAIN Class(c).methods /\ Calls(c, i, t.i))
             /\ \A j \in DOMAIN Class(c).methods : Calls(c, i, j) => \E t \in ToSet(s) : t.do = "call" /\ t.class = c /\ t.i = j
<1> DEFINE does == Method(c, i).does
           s == Body(c, does)
<1>1. /\ does.k = "call" => \E j \in DOMAIN Class(c).methods : Method(c, j).name = does.x
      /\ does = [k |-> does.k, x |-> does.x]
  BY ClassType
<1>2. s \in Seq(Tasks) /\ \A j \in 1..Len(s) : s[j].class \in {c} \cup Mentions(c) /\ s[j].do \in {"type", "call"}
  BY BodyType
<1>3. DOMAIN s = 1..Len(s) /\ Len(s) \in Nat
  BY <1>2
<1> DEFINE m == CHOOSE j \in DOMAIN Class(c).methods : Method(c, j).name = does.x
<1>4. CASE does.k = "call"
  <2>1. m \in DOMAIN Class(c).methods /\ Method(c, m).name = does.x
    BY <1>1, <1>4
  <2>2. s = <<Task("call", c, m)>>
    BY <1>4 DEF Body
  <2>3. Calls(c, i, m)
    BY <1>1, <1>4, <2>1 DEF Calls
  <2>4. ASSUME NEW j \in DOMAIN Class(c).methods, Calls(c, i, j) PROVE j = m
    <3>1. Method(c, j).name = does.x
      BY <2>4 DEF Calls
    <3> QED
      BY <2>1, <3>1 DEF MethodsDiffer
  <2> HIDE DEF m, s, does
  <2>5. Len(s) = 1 /\ \A t : t \in ToSet(s) <=> t = Task("call", c, m)
    BY <2>2 DEF ToSet
  <2>6. InTurn(s)
    BY <2>5 DEF InTurn
  <2>7. ASSUME NEW t \in ToSet(s)
        PROVE  t.do = "call" /\ t.class = c /\ t.i \in DOMAIN Class(c).methods /\ Calls(c, i, t.i)
    BY <2>1, <2>3, <2>5 DEF Task
  <2>8. ASSUME NEW j \in DOMAIN Class(c).methods, Calls(c, i, j)
        PROVE  \E t \in ToSet(s) : t.do = "call" /\ t.class = c /\ t.i = j
    <3>1. Task("call", c, m) \in ToSet(s) /\ j = m
      BY <2>4, <2>5, <2>8
    <3>2. Task("call", c, m).do = "call" /\ Task("call", c, m).class = c /\ Task("call", c, m).i = m
      BY DEF Task
    <3> QED
      BY <3>1, <3>2
  <2> QED
    BY <1>2, <2>6, <2>7, <2>8 DEF s, does
<1>5. CASE does.k # "call"
  <2>1. \A j \in DOMAIN Class(c).methods : ~Calls(c, i, j)
    BY <1>5 DEF Calls
  <2>2. s = <<>> \/ \E x : s = <<Task("type", x, 0)>>
    BY <1>5 DEF Body, TypeTask
  <2> HIDE DEF s, does
  <2>3. \A t \in ToSet(s) : t.do = "type"
    BY <2>2 DEF ToSet, Task
  <2>4. \A j \in 1..Len(s) : s[j].do = "type"
    BY <1>3, <2>3 DEF ToSet
  <2>5. InTurn(s)
    BY <2>4 DEF InTurn
  <2> QED
    BY <1>2, <2>1, <2>3, <2>5 DEF s, does
<1> QED
  BY <1>4, <1>5

-----------------------------------------------------------------------------
(* A task that adds none *)

\* What waits for a class at the head of the queue comes later in its turn.
LEMMA RestAfter ==
  ASSUME todo \in Seq(Tasks), todo # <<>>, InTurn(todo), NEW t \in Rest, t.do # "type",
         t.class = This, Head(todo).do # "type"
  PROVE  /\ Head(todo).do = "inherit" => t.do # "inherit"
         /\ Head(todo).do = "declare" => t.do # "inherit" /\ t.do # "declare"
         /\ Head(todo).do = "call" => t.do = "method"
         /\ Head(todo).do = "method" => t.do = "method" /\ Head(todo).i < t.i
<1>1. Rank(Head(todo)) < Rank(t)
  BY RestInTurn
<1>2. t \in Tasks /\ Head(todo) \in Tasks
  <2>1. Rest \subseteq Tasks
    BY DEF Rest
  <2> QED
    BY <2>1
<1>3. t.do \in {"inherit", "declare", "method", "call"} /\ t.i \in Nat /\ Head(todo).i \in Nat
  BY <1>2 DEF Tasks, Kinds
<1>4. /\ t.do = "inherit" => Rank(t) = 0
      /\ t.do = "declare" => Rank(t) = 1
      /\ t.do = "call" => Rank(t) = 2
      /\ t.do = "method" => Rank(t) = 2 + t.i
  BY DEF Rank
<1>5. /\ Head(todo).do = "inherit" => Rank(Head(todo)) = 0
      /\ Head(todo).do = "declare" => Rank(Head(todo)) = 1
      /\ Head(todo).do = "call" => Rank(Head(todo)) = 2
      /\ Head(todo).do = "method" => Rank(Head(todo)) = 2 + Head(todo).i
  BY DEF Rank
<1> QED
  BY <1>1, <1>3, <1>4, <1>5

\* The order is kept by a step of the Transformer,
LEMMA TurnStep ==
  ASSUME prog' = prog, todo \in Seq(Tasks), todo # <<>>, InTurn(todo), NEW s \in Seq(Tasks), InTurn(s), todo' = s \o Tail(todo),
         \A i \in 1..Len(s) : s[i].class \in {This} \cup Mentions(This),
         \A i \in 1..Len(s) : s[i].do # "type" =>
            s[i].class = This /\ \A t \in Rest : t.do # "type" /\ t.class = This => Rank(s[i]) < Rank(t)
  PROVE  InTurn(todo)'
<1>1. InTurn(s \o Tail(todo))
  BY InTurnStep
<1>2. \A x, d : LeadsTo(x, d)' = LeadsTo(x, d)
  BY Static
<1> QED
  BY <1>1, <1>2 DEF InTurn

\* and what it takes away no longer waits.
LEMMA Popped ==
  ASSUME prog' = prog, todo \in Seq(Tasks), todo # <<>>, InTurn(todo), todo' = <<>> \o Tail(todo)
  PROVE  /\ InTurn(todo)'
         /\ \A t : t \in ToSet(todo)' <=> t \in Rest
         /\ \A t \in Rest : t \in ToSet(todo)
         /\ \A do, c : Waits(do, c)' => Waits(do, c)
         /\ \A do, c, i : WaitsFor(do, c, i)' => WaitsFor(do, c, i)
         /\ \A do, c : Waits(do, c) => Waits(do, c)' \/ (Head(todo).do = do /\ This = c)
         /\ \A do, c, i : WaitsFor(do, c, i) => WaitsFor(do, c, i)' \/ (Head(todo).do = do /\ This = c /\ Head(todo).i = i)
<1> DEFINE s == <<>>
<1>1. s \in Seq(Tasks) /\ Len(s) = 0 /\ todo' = s \o Tail(todo) /\ ToSet(s) = {}
  BY DEF ToSet
<1> HIDE DEF s
<1>2. InTurn(s) /\ \A i \in 1..Len(s) : FALSE
  BY <1>1 DEF InTurn
<1>3. InTurn(todo)'
  BY <1>1, <1>2, TurnStep
<1>4. /\ \A t : t \in ToSet(todo) <=> t = Head(todo) \/ t \in Rest
      /\ \A t : t \in ToSet(todo)' <=> t \in ToSet(s) \/ t \in Rest
  BY <1>1, Turned
<1>5. \A t : t \in ToSet(todo)' <=> t \in Rest
  BY <1>1, <1>4
<1>6. ASSUME NEW do, NEW c
      PROVE  /\ Waits(do, c)' => Waits(do, c)
             /\ Waits(do, c) => Waits(do, c)' \/ (Head(todo).do = do /\ This = c)
  BY <1>4, <1>5 DEF Waits, This
<1>7. ASSUME NEW do, NEW c, NEW i
      PROVE  /\ WaitsFor(do, c, i)' => WaitsFor(do, c, i)
             /\ WaitsFor(do, c, i) => WaitsFor(do, c, i)' \/ (Head(todo).do = do /\ This = c /\ Head(todo).i = i)
  BY <1>4, <1>5 DEF WaitsFor, This
<1> QED
  BY <1>3, <1>4, <1>5, <1>6, <1>7

\* What is said of the functions stays true while there are no more of them.
LEMMA Quiet ==
  ASSUME prog' = prog, funcs' = funcs
  PROVE  /\ \A c, i : Made(c, i)' <=> Made(c, i)
         /\ \A c, i : Twice(c, i)' <=> Twice(c, i)
         /\ \A c : Marked(c)' <=> Marked(c)
         /\ \A c : Upward(c)' = Upward(c)
         /\ \A c : Above(c)' = Above(c)
         /\ FunctionsOK' <=> FunctionsOK
<1>1. Names' = Names
  BY Static
<1>2. \A c : Class(c)' = Class(c)
  BY Static
<1>3. \A c, d : Below(c, d)' = Below(c, d)
  BY Static
<1>4. \A c, i : Method(c, i)' = Method(c, i)
  BY <1>2 DEF Method
<1>5. \A f, c, i : Of(f, c, i)' <=> Of(f, c, i)
  BY <1>4, Zenon DEF Of
<1>6. ASSUME NEW c, NEW i PROVE Made(c, i)' <=> Made(c, i)
  BY <1>5, Zenon DEF Made
<1>7. ASSUME NEW c, NEW i PROVE Twice(c, i)' <=> Twice(c, i)
  BY <1>5, Zenon DEF Twice
<1>8. ASSUME NEW c PROVE Marked(c)' <=> Marked(c)
  BY <1>2, <1>4, <1>5, Zenon DEF Marked
<1>9. ASSUME NEW c PROVE Upward(c)' = Upward(c)
  BY <1>3 DEF Upward
<1>10. ASSUME NEW c PROVE Above(c)' = Above(c)
  BY <1>3 DEF Above
<1>11. FunctionsOK' <=> FunctionsOK
  BY <1>1, <1>2, <1>5, Zenon DEF FunctionsOK
<1> QED
  BY <1>6, <1>7, <1>8, <1>9, <1>10, <1>11

\* The methods of a class stay as they are while none is generated and none of them waits or is visited.
LEMMA StillGenerated ==
  ASSUME prog' = prog, funcs' = funcs, NEW c, Generated(c), Visited(c)' = Visited(c),
         \A i : WaitsFor("call", c, i)' <=> WaitsFor("call", c, i)
  PROVE  Generated(c)'
<1>1. \A i : Made(c, i)' <=> Made(c, i)
  BY Quiet
<1>2. \A i : Twice(c, i)' <=> Twice(c, i)
  BY Quiet
<1>3. Class(c)' = Class(c)
  BY Static
<1>4. \A V, i : Led(c, V, i)' <=> Led(c, V, i)
  BY StaticToo
<1>5. \A i, j : Calls(c, i, j)' <=> Calls(c, i, j)
  BY StaticToo
<1>6. \A i : CalledBefore(c, i)' <=> CalledBefore(c, i)
  BY StaticToo
<1>7. \A i : Led(c, Visited(c), i)' <=> Led(c, Visited(c), i)
  <2> PICK V : V = Visited(c)
    OBVIOUS
  <2>1. V = Visited(c)'
    OBVIOUS
  <2>2. ASSUME NEW i PROVE Led(c, Visited(c), i)' <=> Led(c, V, i)'
    BY <2>1, Zenon DEF Led
  <2> QED
    BY <1>4, <2>2, Zenon
<1> QED
  BY <1>1, <1>2, <1>3, <1>5, <1>6, <1>7, Zenon DEF Generated

-----------------------------------------------------------------------------
(* What the functions that are made leave as it was *)

\* The functions that there are keep their class and their name.
Kept == \A f \in DOMAIN funcs : f \in DOMAIN funcs' /\ funcs'[f].class = funcs[f].class /\ funcs'[f].name = funcs[f].name

\* A list of things is one of the things of a larger set.
LEMMA SeqWiden ==
  ASSUME NEW S, NEW T, \A x \in S : x \in T, NEW q \in Seq(S)
  PROVE  q \in Seq(T)
OBVIOUS

\* They remain functions of a class and of those above it.
LEMMA KeptUpward ==
  ASSUME prog' = prog, Kept, NEW c
  PROVE  /\ \A f \in Upward(c) : f \in Upward(c)'
         /\ \A f \in Above(c) : f \in Above(c)'
<1>1. \A d : Below(c, d)' = Below(c, d)
  BY Static
<1> QED
  BY <1>1 DEF Kept, Upward, Above

\* The tables of its ancestors still have their methods,
LEMMA StillHasAncestors ==
  ASSUME prog' = prog, Kept, NEW c, NEW up, HasAncestors(c, up)
  PROVE  HasAncestors(c, up)'
<1>1. HasAncestors(c, up)
  OBVIOUS
<1>2. Names' = Names
  BY Static
<1>3. \A d : Class(d)' = Class(d)
  BY Static
<1>4. \A d : Below(c, d)' = Below(c, d)
  BY Static
<1>5. \A d, i : Method(d, i)' = Method(d, i)
  BY StaticToo
<1>6. ASSUME NEW k \in DOMAIN up
      PROVE  /\ up[k].vtable \in Seq(Above(c)')
             /\ \A i \in DOMAIN Class(up[k].class)'.methods :
                   \E j \in DOMAIN up[k].vtable : funcs'[up[k].vtable[j]].name = Method(up[k].class, i)'.name
  <2>1. up[k].vtable \in Seq(Above(c))
    BY <1>1 DEF HasAncestors
  <2>2. \A j \in DOMAIN up[k].vtable : up[k].vtable[j] \in Above(c)
    BY <2>1
  <2>3. \A f \in Above(c) : f \in Above(c)'
    BY KeptUpward
  <2>4. up[k].vtable \in Seq(Above(c)')
    BY <2>1, <2>3, SeqWiden
  <2>5. \A j \in DOMAIN up[k].vtable : funcs'[up[k].vtable[j]].name = funcs[up[k].vtable[j]].name
    BY <2>2 DEF Kept, Above
  <2>6. \A i \in DOMAIN Class(up[k].class).methods :
           \E j \in DOMAIN up[k].vtable : funcs[up[k].vtable[j]].name = Method(up[k].class, i).name
    BY <1>1 DEF HasAncestors
  <2> QED
    BY <1>3, <1>5, <2>4, <2>5, <2>6, Zenon
<1>7. \A b \in Names' : Below(c, b)' => \E k \in DOMAIN up : up[k].class = b
  BY <1>1, <1>2, <1>4, Zenon DEF HasAncestors
<1> QED
  BY <1>6, <1>7, Zenon DEF HasAncestors

\* a class still inherits what it did,
LEMMA StillInherits ==
  ASSUME prog' = prog, Kept, NEW c, types'[c].ancestors = types[c].ancestors, Inherits(c)
  PROVE  Inherits(c)'
<1> PICK up : up = types[c].ancestors
  OBVIOUS
<1>1. HasAncestors(c, up)'
  BY StillHasAncestors DEF Inherits
<1> QED
  BY <1>1 DEF Inherits

\* and its table has its functions while it gets no more of them.
LEMMA StillTabled ==
  ASSUME prog' = prog, Kept, NEW c, types'[c].vtable = types[c].vtable, Tabled(c),
         \A f \in DOMAIN funcs' : funcs'[f].class = c => f \in DOMAIN funcs
  PROVE  Tabled(c)'
<1> PICK t : t = types[c].vtable
  OBVIOUS
<1>0. HasFunctions(c, t)
  BY DEF Tabled
<1>1. t \in Seq(Upward(c))
  BY <1>0 DEF HasFunctions
<1>2. \A f \in Upward(c) : f \in Upward(c)'
  BY KeptUpward
<1>3. t \in Seq(Upward(c)')
  BY <1>1, <1>2, SeqWiden
<1>4. \A j \in DOMAIN t : t[j] \in DOMAIN funcs
  BY <1>1 DEF Upward
<1>5. \A j \in DOMAIN t : funcs'[t[j]].class = funcs[t[j]].class
  BY <1>4 DEF Kept
<1>6. \A f \in DOMAIN funcs' : funcs'[f].class = c => \E j \in DOMAIN t : t[j] = f
  BY <1>0 DEF HasFunctions, Kept
<1>7. \A j, k \in DOMAIN t : t[j] = t[k] /\ funcs'[t[j]].class = c => j = k
  BY <1>0, <1>5 DEF HasFunctions
<1>8. HasFunctions(c, t)'
  BY <1>3, <1>6, <1>7 DEF HasFunctions
<1> QED
  BY <1>8 DEF Tabled

\* createdFunctions is right while it stays the same.
LEMMA StillEntered ==
  ASSUME prog' = prog, funcs' = funcs, created' = created, Entered
  PROVE  Entered'
<1>1. \A c : Upward(c)' = Upward(c)
  BY Quiet
<1>2. Names' = Names
  BY Static
<1> QED
  BY <1>1, <1>2, Zenon DEF Entered

\* When the first task goes that is no method, what was met and what waits stay in step.
LEMMA PoppedAwaited ==
  ASSUME IInv, stage = "transform", prog' = prog, todo # <<>>, todo' = <<>> \o Tail(todo), InTurn(todo), Awaited, Identified,
         DOMAIN types' = DOMAIN types, \A c \in DOMAIN types : types'[c].id = types[c].id,
         Head(todo).do # "method", Head(todo).do = "type" => This \in DOMAIN types
  PROVE  /\ InTurn(todo)' /\ Awaited' /\ Identified'
         /\ \A c : Visited(c)' = Visited(c)
<1>1. todo \in Seq(Tasks) /\ Head(todo) \in Tasks
  BY HeadType
<1>2. InTurn(todo)'
  BY <1>1, Popped
<1>3. \A t : t \in ToSet(todo)' <=> t \in Rest
  BY <1>1, Popped
<1>4. \A do, c : (Waits(do, c)' => Waits(do, c)) /\ (Waits(do, c) => Waits(do, c)' \/ (Head(todo).do = do /\ This = c))
  BY <1>1, Popped
<1>5. \A do, c, i : /\ WaitsFor(do, c, i)' => WaitsFor(do, c, i)
                    /\ WaitsFor(do, c, i) => WaitsFor(do, c, i)' \/ (Head(todo).do = do /\ This = c /\ Head(todo).i = i)
  BY <1>1, Popped
<1>6. Names' = Names
  BY Static
<1>7. \A c : Class(c)' = Class(c)
  BY Static
<1>8. \A c, i : WaitsFor("method", c, i)' <=> WaitsFor("method", c, i)
  BY <1>5
<1>9. Awaited'
  <2>1. \A t \in Rest : t \in ToSet(todo)
    BY <1>1, Popped
  <2>2. \A t \in ToSet(todo)' : t.do # "type" => t.class \in DOMAIN types'
    BY <1>3, <2>1 DEF Awaited
  <2>3. \A c \in Names' : c \in DOMAIN types' \/ Waits("type", c)'
    BY <1>4, <1>6 DEF Awaited
  <2>4. ASSUME NEW c \in Names', Waits("inherit", c)' PROVE Waits("declare", c)'
    <3>1. Waits("declare", c)
      BY <1>4, <1>6, <2>4 DEF Awaited
    <3>2. ASSUME Head(todo).do = "declare", This = c PROVE FALSE
      <4>1. PICK t \in Rest : t.do = "inherit" /\ t.class = c
        BY <1>3, <2>4 DEF Waits
      <4> QED
        BY <1>1, <3>2, <4>1, RestAfter
    <3> QED
      BY <1>4, <3>1, <3>2
  <2>5. \A c \in Names' : Waits("declare", c)' => \A i \in DOMAIN Class(c)'.methods : WaitsFor("method", c, i)'
    BY <1>4, <1>6, <1>7, <1>8, Zenon DEF Awaited
  <2>6. \A c \in Names' : \A i, k \in DOMAIN Class(c)'.methods : WaitsFor("method", c, i)' /\ i < k => WaitsFor("method", c, k)'
    BY <1>6, <1>7, <1>8, Zenon DEF Awaited
  <2> QED
    BY <2>2, <2>3, <2>4, <2>5, <2>6, Zenon DEF Awaited
<1>10. Identified'
  BY DEF Identified
<1>11. ASSUME NEW c PROVE Visited(c)' = Visited(c)
  BY <1>7, <1>8, Zenon DEF Visited
<1> QED
  BY <1>2, <1>9, <1>10, <1>11

\* When that is all that happens to functions and tables, but for a class that inherits, what was
\* said of them stays true.
LEMMA PoppedTransforming ==
  ASSUME IInv, stage = "transform", Regular, FunctionsOK, Transforming,
         prog' = prog, funcs' = funcs, Entered', refused' = refused, todo # <<>>, todo' = <<>> \o Tail(todo),
         DOMAIN types' = DOMAIN types, \A c \in DOMAIN types : types'[c].id = types[c].id,
         \A c \in DOMAIN types : IF Head(todo).do = "inherit" /\ c = This THEN Tabled(c)' /\ Inherits(c)'
                                 ELSE types'[c].ancestors = types[c].ancestors /\ types'[c].vtable = types[c].vtable,
         Head(todo).do # "method", Head(todo).do = "type" => This \in DOMAIN types,
         Head(todo).do = "call" => Made(This, Head(todo).i),
         \A c \in DOMAIN types : Class(c).methods # <<>> /\ ~Waits("declare", c)' => types'[c].hasVtable
  PROVE  FunctionsOK' /\ Transforming'
<1>1. InTurn(todo) /\ Awaited /\ Identified
  BY DEF Transforming
<1>2. InTurn(todo)' /\ Awaited' /\ Identified' /\ \A c : Visited(c)' = Visited(c)
  BY <1>1, PoppedAwaited
<1>3. todo \in Seq(Tasks) /\ Head(todo) \in Tasks
  BY HeadType
<1>4. \A do, c : (Waits(do, c)' => Waits(do, c)) /\ (Waits(do, c) => Waits(do, c)' \/ (Head(todo).do = do /\ This = c))
  BY <1>1, <1>3, Popped
<1>5. \A do, c, i : /\ WaitsFor(do, c, i)' => WaitsFor(do, c, i)
                    /\ WaitsFor(do, c, i) => WaitsFor(do, c, i)' \/ (Head(todo).do = do /\ This = c /\ Head(todo).i = i)
  BY <1>1, <1>3, Popped
<1>6. Names' = Names
  BY Static
<1>7. \A c : Class(c)' = Class(c)
  BY Static
<1>8. FunctionsOK' /\ \A c : Marked(c)' <=> Marked(c)
  BY Quiet
<1>9. \A c, i : Made(c, i)' <=> Made(c, i)
  BY Quiet
<1>10. \A c, i : Twice(c, i)' <=> Twice(c, i)
  BY Quiet
<1>11. \A V, c, i : Led(c, V, i)' <=> Led(c, V, i)
  BY StaticToo
<1>12. \A c, i, j : Calls(c, i, j)' <=> Calls(c, i, j)
  BY StaticToo
<1>13. \A c, i : CalledBefore(c, i)' <=> CalledBefore(c, i)
  BY StaticToo
<1>14. ASSUME NEW c \in Names PROVE Generated(c)'
  <2>1. Generated(c)
    BY DEF Transforming
  <2> PICK V : V = Visited(c)
    OBVIOUS
  <2>2. V = Visited(c)'
    BY <1>2
  <2>3. ASSUME NEW i PROVE Led(c, Visited(c), i)' <=> Led(c, V, i)
    <3>1. Led(c, Visited(c), i)' <=> Led(c, V, i)'
      BY <2>2, Zenon DEF Led
    <3> QED
      BY <1>11, <3>1, Zenon
  <2>4. ASSUME NEW i \in DOMAIN Class(c).methods PROVE Made(c, i) \/ WaitsFor("call", c, i)' \/ ~WaitsFor("call", c, i)
    BY <1>5
  <2>5. ASSUME NEW i \in DOMAIN Class(c)'.methods
        PROVE /\ i \in V => Made(c, i)'
              /\ Made(c, i)' => i \in V \/ Led(c, V, i)
              /\ WaitsFor("call", c, i)' => Led(c, V, i)
              /\ Made(c, i)' => \A j \in DOMAIN Class(c)'.methods : Calls(c, i, j)' => Made(c, j)' \/ WaitsFor("call", c, j)'
              /\ i \in V => (Twice(c, i)' <=> CalledBefore(c, i)')
              /\ i \notin V => ~Twice(c, i)'
    <3>1. i \in DOMAIN Class(c).methods
      BY <1>7
    <3>2. /\ i \in V => Made(c, i)
          /\ Made(c, i) => i \in V \/ Led(c, V, i)
          /\ WaitsFor("call", c, i) => Led(c, V, i)
          /\ Made(c, i) => \A j \in DOMAIN Class(c).methods : Calls(c, i, j) => Made(c, j) \/ WaitsFor("call", c, j)
          /\ i \in V => (Twice(c, i) <=> CalledBefore(c, i))
          /\ i \notin V => ~Twice(c, i)
      BY <2>1, <3>1, Zenon DEF Generated
    <3> QED
      BY <1>5, <1>7, <1>9, <1>10, <1>12, <1>13, <2>4, <3>2, Zenon
  <2> QED
    BY <2>2, <2>3, <2>5, Zenon DEF Generated
<1>15. Entered'
  OBVIOUS
<1>16. ASSUME NEW c \in DOMAIN types
       PROVE  Tabled(c)' /\ (~Waits("inherit", c)' => Inherits(c)')
  <2>1. Kept
    BY DEF Kept
  <2>2. CASE Head(todo).do = "inherit" /\ c = This
    BY <2>2
  <2>3. CASE ~(Head(todo).do = "inherit" /\ c = This)
    <3>1. types'[c].ancestors = types[c].ancestors /\ types'[c].vtable = types[c].vtable
      BY <2>3
    <3>2. Tabled(c)'
      BY <2>1, <3>1, StillTabled DEF Transforming
    <3>3. ASSUME ~Waits("inherit", c)' PROVE Inherits(c)'
      <4>1. ~Waits("inherit", c)
        BY <1>4, <2>3, <3>3
      <4>2. Inherits(c)
        BY <4>1 DEF Transforming
      <4> QED
        BY <2>1, <3>1, <4>2, StillInherits
    <3> QED
      BY <3>2, <3>3
  <2> QED
    BY <2>2, <2>3
<1>17. refused' = {} /\ \A c \in Names : Marked(c)
  BY DEF Transforming
<1> QED
  BY <1>2, <1>6, <1>7, <1>8, <1>14, <1>15, <1>16, <1>17, Zenon DEF Transforming

\* A class that was met before,
LEMMA VisitKnownKeeps ==
  ASSUME IInv, stage = "transform", Regular, FunctionsOK, Transforming, VisitType, This \in DOMAIN types
  PROVE  FunctionsOK' /\ Transforming'
<1>1. todo # <<>> /\ Head(todo).do = "type" /\ todo' = <<>> \o Tail(todo) /\ types' = types
  BY DEF VisitType, Doing, Then
<1>2. prog' = prog /\ funcs' = funcs /\ created' = created /\ refused' = refused
  BY DEF VisitType
<1>3. ASSUME NEW c \in DOMAIN types, Class(c).methods # <<>>, ~Waits("declare", c)' PROVE types'[c].hasVtable
  <2>1. todo \in Seq(Tasks) /\ InTurn(todo)
    BY <1>1, HeadType DEF Transforming
  <2>2. Waits("declare", c) => Waits("declare", c)' \/ (Head(todo).do = "declare" /\ This = c)
    BY <1>1, <1>2, <2>1, Popped
  <2>3. ~Waits("declare", c)
    BY <1>1, <1>3, <2>2
  <2> QED
    BY <1>1, <1>3, <2>3 DEF Transforming
<1>e. Entered'
  BY <1>2, StillEntered DEF Transforming
<1> QED
  BY <1>1, <1>2, <1>3, <1>e, PoppedTransforming

\* the declaration of a class, which has a table when it has methods,
LEMMA DeclareKeeps ==
  ASSUME IInv, stage = "transform", Regular, FunctionsOK, Transforming, DeclareMethods
  PROVE  FunctionsOK' /\ Transforming'
<1>1. todo # <<>> /\ Head(todo).do = "declare" /\ todo' = <<>> \o Tail(todo)
  BY DEF DeclareMethods, Doing, Then
<1>2. prog' = prog /\ funcs' = funcs /\ created' = created /\ refused' = refused
  BY DEF DeclareMethods
<1>3. PICK b : types' = [types EXCEPT ![This].hasVtable = b] /\ (Class(This).methods # <<>> => b)
  <2> DEFINE own == Class(This).methods # <<>> \/ types[This].hasVtable
             up == Reverse(types[This].ancestors)
             k == SelectInSeq(up, LAMBDA a : a.class \notin known \/ types[a.class].hasVtable)
  <2>1. IF own \/ k = 0 THEN types' = [types EXCEPT ![This].hasVtable = own]
        ELSE types' = [types EXCEPT ![This].hasVtable = up[k].class \in known]
    BY Zenon DEF DeclareMethods
  <2>2. Class(This).methods # <<>> => own
    OBVIOUS
  <2> HIDE DEF own, up, k
  <2> QED
    BY <2>1, <2>2
<1>4. \A c \in DOMAIN types : DOMAIN types[c] = {"id", "ancestors", "hasVtable", "vtable"}
  BY <1>1, HeadType
<1>5. /\ DOMAIN types' = DOMAIN types
      /\ \A c \in DOMAIN types : types'[c].id = types[c].id /\ types'[c].ancestors = types[c].ancestors /\ types'[c].vtable = types[c].vtable
  BY <1>3, <1>4
<1>6. ASSUME NEW c \in DOMAIN types, Class(c).methods # <<>>, ~Waits("declare", c)' PROVE types'[c].hasVtable
  <2>1. CASE c = This
    BY <1>3, <1>4, <1>6, <2>1
  <2>2. CASE c # This
    <3>1. todo \in Seq(Tasks) /\ InTurn(todo)
      BY <1>1, HeadType DEF Transforming
    <3>2. Waits("declare", c) => Waits("declare", c)' \/ (Head(todo).do = "declare" /\ This = c)
      BY <1>1, <1>2, <3>1, Popped
    <3>3. ~Waits("declare", c)
      BY <1>6, <2>2, <3>2
    <3>4. types'[c] = types[c]
      BY <1>3, <2>2
    <3> QED
      BY <1>6, <3>3, <3>4 DEF Transforming
  <2> QED
    BY <2>1, <2>2
<1>e. Entered'
  BY <1>2, StillEntered DEF Transforming
<1> QED
  BY <1>1, <1>2, <1>5, <1>6, <1>e, PoppedTransforming

\* createdFunctions has a function of a method when there is one.
LEMMA FoundIsMade ==
  ASSUME prog \in Program, FunctionsOK, Entered, NEW c \in Names, NEW i \in DOMAIN Class(c).methods
  PROVE  (\E f \in ToSet(created[c][Method(c, i).name]) : funcs[f].class = c) <=> Made(c, i)
<1> DEFINE n == Method(c, i).name
<1>1. n \in 1..LastName
  BY ClassType
<1> HIDE DEF n
<1>2. created[c][n] \in Seq(DOMAIN funcs)
  BY <1>1 DEF Entered
<1>3. \A f : f \in ToSet(created[c][n]) <=> \E j \in DOMAIN created[c][n] : created[c][n][j] = f
  BY DEF ToSet
<1>4. ASSUME NEW f \in ToSet(created[c][n]), funcs[f].class = c PROVE Made(c, i)
  <2>1. PICK j \in DOMAIN created[c][n] : created[c][n][j] = f
    BY <1>3
  <2>2. f \in DOMAIN funcs /\ funcs[f].name = n
    BY <1>1, <1>2, <2>1 DEF Entered
  <2> QED
    BY <1>4, <2>2 DEF Made, Of, n
<1>5. ASSUME Made(c, i) PROVE \E f \in ToSet(created[c][n]) : funcs[f].class = c
  <2>1. PICK f \in DOMAIN funcs : funcs[f].class = c /\ funcs[f].name = n
    BY <1>5 DEF Made, Of, n
  <2>2. \E j \in DOMAIN created[c][n] : created[c][n][j] = f
    BY <2>1 DEF Entered
  <2> QED
    BY <1>3, <2>1, <2>2
<1> QED
  BY <1>4, <1>5 DEF n

\* and a call of a method that has a function change nothing of that.
LEMMA CallThereKeeps ==
  ASSUME IInv, stage = "transform", Regular, FunctionsOK, Transforming, Doing("call"), Made(This, Head(todo).i),
         Then(<<>>), UNCHANGED <<funcs, types, created, prog, known, stage, refused, undefined>>
  PROVE  FunctionsOK' /\ Transforming'
<1>1. todo # <<>> /\ Head(todo).do = "call" /\ todo' = <<>> \o Tail(todo)
  BY DEF Doing, Then
<1>2. ASSUME NEW c \in DOMAIN types, Class(c).methods # <<>>, ~Waits("declare", c)' PROVE types'[c].hasVtable
  <2>1. todo \in Seq(Tasks) /\ InTurn(todo)
    BY <1>1, HeadType DEF Transforming
  <2>2. Waits("declare", c) => Waits("declare", c)' \/ (Head(todo).do = "declare" /\ This = c)
    BY <1>1, <2>1, Popped
  <2>3. ~Waits("declare", c)
    BY <1>1, <1>2, <2>2
  <2> QED
    BY <1>2, <2>3 DEF Transforming
<1>e. Entered'
  BY StillEntered DEF Transforming
<1> QED
  BY <1>1, <1>2, <1>e, PoppedTransforming

-----------------------------------------------------------------------------
(* A class that is met *)

\* A program has finitely many classes.
LEMMA NamesFinite ==
  ASSUME prog \in Program
  PROVE  IsFiniteSet(Names)
<1>1. DOMAIN prog = 1..Len(prog) /\ Len(prog) \in Nat
  BY ProgramAssumption
<1>2. IsFiniteSet(DOMAIN prog)
  BY <1>1, FS_Interval
<1> DEFINE f == [i \in DOMAIN prog |-> prog[i].name]
<1>3. f \in Surjection(DOMAIN prog, Names)
  BY DEF Names, Surjection
<1> QED
  BY <1>2, <1>3, FS_Surjection

\* A class that is met gets the next number.
LEMMA NewIdentified ==
  ASSUME prog \in Program, DOMAIN types \subseteq Names, Identified, NEW c, c \notin DOMAIN types,
         DOMAIN types' = DOMAIN types \cup {c}, types'[c].id = Cardinality(DOMAIN types),
         \A d \in DOMAIN types : types'[d] = types[d]
  PROVE  Identified'
<1> PICK D, N : D = DOMAIN types /\ N = Cardinality(DOMAIN types)
  OBVIOUS
<1>1. IsFiniteSet(D)
  BY NamesFinite, FS_Subset
<1>2. N \in Nat /\ Cardinality(D \cup {c}) = N + 1
  BY <1>1, FS_CardinalityType, FS_AddElement
<1>3. Cardinality(DOMAIN types') = N + 1
  BY <1>2
<1>4. /\ \A d \in D : types'[d].id \in 0..(N - 1)
      /\ \A d, e \in D : types'[d].id = types'[e].id => d = e
      /\ \A n \in 0..(N - 1) : \E d \in D : types'[d].id = n
      /\ types'[c].id = N /\ DOMAIN types' = D \cup {c}
  BY DEF Identified
<1>5. \A d \in DOMAIN types' : types'[d].id \in 0..((N + 1) - 1)
  BY <1>2, <1>4
<1>6. \A d, e \in DOMAIN types' : types'[d].id = types'[e].id => d = e
  BY <1>2, <1>4
<1>7. \A n \in 0..((N + 1) - 1) : \E d \in DOMAIN types' : types'[d].id = n
  <2> SUFFICES ASSUME NEW n \in 0..((N + 1) - 1) PROVE \E d \in DOMAIN types' : types'[d].id = n
    OBVIOUS
  <2>1. n = N \/ n \in 0..(N - 1)
    BY <1>2
  <2> QED
    BY <1>4, <2>1
<1> QED
  BY <1>3, <1>5, <1>6, <1>7 DEF Identified

\* No method leads nowhere.
LEMMA NothingLed ==
  ASSUME NEW c, NEW V, NEW i, V = {}, Led(c, V, i)
  PROVE  FALSE
<1>1. {} \in SUBSET DOMAIN Class(c).methods
  OBVIOUS
<1> QED
  BY <1>1 DEF Led

\* A class without visited methods has no functions.
LEMMA NoFunctions ==
  ASSUME FunctionsOK, NEW c \in Names, Generated(c), Visited(c) = {}
  PROVE  \A f \in DOMAIN funcs : funcs[f].class # c
<1> SUFFICES ASSUME NEW f \in DOMAIN funcs, funcs[f].class = c PROVE FALSE
  OBVIOUS
<1>1. PICK i \in DOMAIN Class(c).methods : Of(f, c, i)
  BY DEF FunctionsOK
<1>2. Made(c, i)
  BY <1>1 DEF Made
<1>3. i \in Visited(c) \/ Led(c, Visited(c), i)
  BY <1>2, Zenon DEF Generated
<1> QED
  BY <1>3, NothingLed

\* A class that is met comes with all its stages, and has nothing yet.
LEMMA VisitNewKeeps ==
  ASSUME IInv, stage = "transform", Regular, FunctionsOK, Transforming, VisitType, This \notin DOMAIN types
  PROVE  FunctionsOK' /\ Transforming'
<1>1. /\ todo # <<>> /\ Head(todo).do = "type" /\ todo' = Stages(This) \o Tail(todo)
      /\ types' = [c \in DOMAIN types \cup {This} |->
                     IF c \in DOMAIN types THEN types[c]
                     ELSE [id |-> Cardinality(DOMAIN types), ancestors |-> <<>>, hasVtable |-> FALSE, vtable |-> <<>>]]
  BY DEF VisitType, Doing, Then
<1>2. prog' = prog /\ funcs' = funcs /\ created' = created /\ refused' = refused
  BY DEF VisitType
<1>3. todo \in Seq(Tasks) /\ Head(todo) \in Tasks /\ This \in Names
  BY <1>1, HeadType
<1>4. InTurn(todo) /\ Awaited /\ Identified /\ prog \in Program /\ DOMAIN types \subseteq Names
  BY DEF Transforming, IInv, Typed
<1> PICK n, s : n = This /\ s = Stages(This)
  OBVIOUS
<1>5. s \in Seq(Tasks) /\ InTurn(s) /\ \A i \in 1..Len(s) : s[i].class \in {n} \cup Mentions(n)
  BY <1>3, <1>4, StagesTasks
<1>6. \A t \in ToSet(s) : t.do = "type" \/ (t.class = n /\ t.do \in {"inherit", "declare", "method"})
  BY <1>3, <1>4, StagesTasks
<1>7. Len(s) \in Nat /\ \A i \in 1..Len(s) : s[i] \in ToSet(s)
  BY <1>5 DEF ToSet
<1>8. /\ \A t : t \in ToSet(todo) <=> t = Head(todo) \/ t \in Rest
      /\ \A t : t \in ToSet(todo)' <=> t \in ToSet(s) \/ t \in Rest
  BY <1>1, <1>3, <1>5, Turned
<1>9. \A t \in Rest : t.do # "type" => t.class \in DOMAIN types /\ t.class # n
  BY <1>8 DEF Transforming, Awaited
<1>10. InTurn(todo)'
  <2>1. \A i \in 1..Len(s) : s[i].do # "type" =>
            s[i].class = This /\ \A t \in Rest : t.do # "type" /\ t.class = This => Rank(s[i]) < Rank(t)
    BY <1>6, <1>7, <1>9
  <2>2. \A i \in 1..Len(s) : s[i].class \in {This} \cup Mentions(This)
    BY <1>5
  <2> QED
    BY <1>1, <1>2, <1>3, <1>4, <1>5, <2>1, <2>2, TurnStep
<1>11. DOMAIN types' = DOMAIN types \cup {n} /\ \A c \in DOMAIN types : types'[c] = types[c]
  BY <1>1
<1>12. types'[n] = [id |-> Cardinality(DOMAIN types), ancestors |-> <<>>, hasVtable |-> FALSE, vtable |-> <<>>]
  BY <1>1
<1>13. Names' = Names
  BY <1>2, Static
<1>14. \A c : Class(c)' = Class(c)
  BY <1>2, Static
<1>15. ASSUME NEW do, NEW c, do # "type", c # n PROVE Waits(do, c)' <=> Waits(do, c)
  BY <1>1, <1>6, <1>8, <1>15 DEF Waits
<1>16. ASSUME NEW do, NEW c, NEW i, do # "type", c # n PROVE WaitsFor(do, c, i)' <=> WaitsFor(do, c, i)
  BY <1>1, <1>6, <1>8, <1>16 DEF WaitsFor
<1>17. Waits("declare", n)' /\ \A i \in DOMAIN Class(n).methods : WaitsFor("method", n, i)'
  <2>1. /\ \E t \in ToSet(s) : t.do = "declare" /\ t.class = n
        /\ \A i \in DOMAIN Class(n).methods : \E t \in ToSet(s) : t.do = "method" /\ t.class = n /\ t.i = i
    BY <1>3, <1>4, StagesTasks
  <2> QED
    BY <1>8, <2>1 DEF Waits, WaitsFor
<1>18. Waits("inherit", n)'
  <2>1. \E t \in ToSet(s) : t.do = "inherit" /\ t.class = n
    BY <1>3, <1>4, StagesTasks
  <2> QED
    BY <1>8, <2>1 DEF Waits
<1>19. \A i : ~WaitsFor("call", n, i) /\ ~WaitsFor("call", n, i)'
  BY <1>1, <1>6, <1>8, <1>9 DEF WaitsFor
<1>20. Awaited'
  <2>1. \A t \in ToSet(todo)' : t.do # "type" => t.class \in DOMAIN types'
    BY <1>6, <1>8, <1>9, <1>11
  <2>2. ASSUME NEW c \in Names', c \notin DOMAIN types' PROVE Waits("type", c)'
    <3>1. Waits("type", c) /\ c # n
      BY <1>4, <1>11, <1>13, <2>2 DEF Awaited
    <3> QED
      BY <1>8, <3>1 DEF Waits, This
  <2>3. \A c \in Names' : Waits("inherit", c)' => Waits("declare", c)'
    BY <1>4, <1>13, <1>15, <1>17 DEF Awaited
  <2>4. \A c \in Names' : Waits("declare", c)' => \A i \in DOMAIN Class(c)'.methods : WaitsFor("method", c, i)'
    BY <1>4, <1>13, <1>14, <1>15, <1>16, <1>17 DEF Awaited
  <2>5. \A c \in Names' : \A i, k \in DOMAIN Class(c)'.methods : WaitsFor("method", c, i)' /\ i < k => WaitsFor("method", c, k)'
    BY <1>4, <1>13, <1>14, <1>16, <1>17 DEF Awaited
  <2> QED
    BY <2>1, <2>2, <2>3, <2>4, <2>5, Zenon DEF Awaited
<1>21. Identified'
  BY <1>4, <1>11, <1>12, NewIdentified
<1>22. Visited(n) = {} /\ Visited(n)' = {}
  BY <1>14, <1>17 DEF Visited
<1>23. ASSUME NEW c, c # n PROVE Visited(c)' = Visited(c)
  BY <1>11, <1>14, <1>16, <1>23 DEF Visited
<1>24. ASSUME NEW c \in Names PROVE Generated(c)'
  <2>1. Visited(c)' = Visited(c) /\ \A i : WaitsFor("call", c, i)' <=> WaitsFor("call", c, i)
    BY <1>16, <1>19, <1>22, <1>23
  <2> QED
    BY <1>2, <2>1, StillGenerated DEF Transforming
<1>25. FunctionsOK' /\ \A c : Marked(c)' <=> Marked(c)
  BY <1>2, Quiet
<1>26. Entered'
  BY <1>2, StillEntered DEF Transforming
<1>k. Kept
  BY <1>2 DEF Kept
<1>27. ASSUME NEW c \in DOMAIN types, c # n
       PROVE  /\ Tabled(c)' /\ (~Waits("inherit", c)' => Inherits(c)')
              /\ Class(c)'.methods # <<>> /\ ~Waits("declare", c)' => types'[c].hasVtable
  <2>1. types'[c] = types[c]
    BY <1>11
  <2>2. Tabled(c)'
    BY <1>2, <1>k, <2>1, StillTabled DEF Transforming
  <2>3. ~Waits("inherit", c)' => Inherits(c)'
    BY <1>2, <1>15, <1>27, <1>k, <2>1, StillInherits DEF Transforming
  <2>4. Class(c)'.methods # <<>> /\ ~Waits("declare", c)' => types'[c].hasVtable
    BY <1>14, <1>15, <1>27, <2>1 DEF Transforming
  <2> QED
    BY <2>2, <2>3, <2>4
<1>28. Tabled(n)'
  <2>1. \A f \in DOMAIN funcs' : funcs'[f].class # n
    BY <1>2, <1>3, <1>22, NoFunctions DEF Transforming
  <2> PICK t : t = <<>>
    OBVIOUS
  <2>2. t \in Seq(Upward(n)') /\ DOMAIN t = {}
    OBVIOUS
  <2>3. HasFunctions(n, t)'
    BY <2>1, <2>2 DEF HasFunctions
  <2>4. types'[n].vtable = t
    BY <1>12
  <2> QED
    BY <2>3, <2>4 DEF Tabled
<1>29. refused' = {} /\ \A c \in Names : Marked(c)
  BY <1>2 DEF Transforming
<1>30. ASSUME NEW c \in DOMAIN types'
       PROVE  /\ Tabled(c)' /\ (~Waits("inherit", c)' => Inherits(c)')
              /\ Class(c)'.methods # <<>> /\ ~Waits("declare", c)' => types'[c].hasVtable
  BY <1>9, <1>11, <1>17, <1>18, <1>27, <1>28, <1>30
<1> QED
  BY <1>10, <1>13, <1>20, <1>21, <1>24, <1>25, <1>26, <1>29, <1>30, Zenon DEF Transforming

-----------------------------------------------------------------------------
(* What a class inherits *)

\* What comes after the declaration of a class does while that waits.
LEMMA AwaitsMethods ==
  ASSUME Awaited, NEW c \in Names, Waits("inherit", c)
  PROVE  Waits("declare", c) /\ Visited(c) = {}
<1>1. Waits("declare", c)
  BY DEF Awaited
<1>2. \A i \in DOMAIN Class(c).methods : WaitsFor("method", c, i)
  BY <1>1 DEF Awaited
<1> QED
  BY <1>1, <1>2 DEF Visited

\* A class that inherits leaves the others as they are.
LEMMA InheritedTransforming ==
  ASSUME IInv, stage = "transform", Regular, FunctionsOK, Transforming, Doing("inherit"), Then(<<>>),
         UNCHANGED <<prog, funcs, refused>>, Entered',
         DOMAIN types' = DOMAIN types, \A c \in DOMAIN types : types'[c].id = types[c].id,
         \A c \in DOMAIN types : c # This => types'[c] = types[c],
         \A c \in DOMAIN types : c = This => Tabled(c)' /\ Inherits(c)'
  PROVE  FunctionsOK' /\ Transforming'
<1>1. todo # <<>> /\ Head(todo).do = "inherit" /\ todo' = <<>> \o Tail(todo)
  BY DEF Doing, Then
<1>2. todo \in Seq(Tasks) /\ This \in Names /\ InTurn(todo) /\ Awaited
  BY <1>1, HeadType DEF Transforming
<1>3. Waits("inherit", This)
  <2>1. Head(todo) \in ToSet(todo)
    BY <1>1, <1>2 DEF ToSet
  <2> QED
    BY <1>1, <2>1 DEF Waits, This
<1>4. Waits("declare", This)
  BY <1>2, <1>3, AwaitsMethods
<1>5. ASSUME NEW c \in DOMAIN types, Class(c).methods # <<>>, ~Waits("declare", c)' PROVE types'[c].hasVtable
  <2>1. Waits("declare", c) => Waits("declare", c)' \/ (Head(todo).do = "declare" /\ This = c)
    BY <1>1, <1>2, Popped
  <2>2. ~Waits("declare", c)
    BY <1>1, <1>5, <2>1
  <2>3. types'[c] = types[c]
    BY <1>4, <2>2
  <2> QED
    BY <1>5, <2>2, <2>3 DEF Transforming
<1>6. \A c \in DOMAIN types : IF Head(todo).do = "inherit" /\ c = This THEN Tabled(c)' /\ Inherits(c)'
                              ELSE types'[c].ancestors = types[c].ancestors /\ types'[c].vtable = types[c].vtable
  BY <1>1
<1> QED
  BY <1>1, <1>5, <1>6, PoppedTransforming

\* A class without a parent inherits nothing.
LEMMA InheritNothingKeeps ==
  ASSUME IInv, stage = "transform", Regular, FunctionsOK, Transforming, performInheritance, ~HasParent(This)
  PROVE  FunctionsOK' /\ Transforming'
<1>1. /\ todo # <<>> /\ Head(todo).do = "inherit" /\ Doing("inherit") /\ Then(<<>>)
      /\ types' = types /\ created' = created /\ prog' = prog /\ funcs' = funcs /\ refused' = refused
  BY DEF performInheritance, Doing
<1>2. todo \in Seq(Tasks) /\ This \in Names /\ \A c \in DOMAIN types : LineageOK(c)
  BY <1>1, HeadType
<1>3. Entered'
  BY <1>1, StillEntered DEF Transforming
<1>4. Kept
  BY <1>1 DEF Kept
<1>5. ASSUME NEW c \in DOMAIN types, c = This PROVE Tabled(c)' /\ Inherits(c)'
  <2>1. Tabled(c)'
    BY <1>1, <1>4, <1>5, StillTabled DEF Transforming
  <2>2. HasAncestors(c, types[c].ancestors)
    <3>1. \A b : ~Below(c, b)
      BY <1>5 DEF Below
    <3>2. DOMAIN types[c].ancestors = {}
      BY <1>2, <1>5, <3>1 DEF LineageOK
    <3> QED
      BY <3>1, <3>2 DEF HasAncestors
  <2>3. Inherits(c)'
    BY <1>1, <1>4, <2>2, StillInherits DEF Inherits
  <2> QED
    BY <2>1, <2>3
<1> QED
  BY <1>1, <1>3, <1>5, InheritedTransforming

\* When a class inherits, the one above it has been generated.
LEMMA ParentIsThere ==
  ASSUME IInv, stage = "transform", Regular, FunctionsOK, Transforming, Doing("inherit"),
         NEW c, c = This, HasParent(c), NEW p, p = Class(c).parent
  PROVE  /\ p \in DOMAIN types /\ p \in Names /\ p # c /\ Below(c, p)
         /\ Tabled(p) /\ Inherits(p) /\ LineageOK(p)
         /\ \A i \in DOMAIN Class(p).methods : Made(p, i)
<1>1. todo # <<>> /\ Head(todo).do = "inherit"
  BY DEF Doing
<1>2. todo \in Seq(Tasks) /\ Head(todo) \in Tasks /\ c \in Names /\ \A d \in DOMAIN types : LineageOK(d)
  BY <1>1, HeadType
<1>3. p \in DOMAIN types
  <2>1. ParentsFirst(todo) /\ Len(todo) \in Nat \ {0} /\ Head(todo) = todo[1] /\ This = todo[1].class
    BY <1>1, <1>2 DEF IInv, This
  <2> QED
    BY <1>1, <2>1 DEF ParentsFirst
<1>4. p \in Names /\ prog \in Program
  BY <1>3 DEF IInv, Typed
<1>5. Below(c, p)
  BY BelowOn
<1>6. p # c
  BY <1>2, <1>5, NotBelowItself DEF Regular
<1>7. ASSUME NEW t \in ToSet(todo), t.do # "type", t.class = p PROVE FALSE
  <2>1. t = Head(todo) \/ t \in Rest
    <3> PICK s : s = <<>>
      OBVIOUS
    <3>1. s \in Seq(Tasks)
      OBVIOUS
    <3>2. \E j \in 1..Len(todo) : t = todo[j]
      BY <1>2 DEF ToSet
    <3>3. \A j \in 1..Len(todo) : j = 1 \/ j \in 2..Len(todo)
      BY <1>2
    <3>4. Head(todo) = todo[1]
      BY <1>1, <1>2
    <3> QED
      BY <3>2, <3>3, <3>4 DEF Rest
  <2>2. t \in Rest
    BY <1>6, <1>7, <2>1 DEF This
  <2>3. LeadsTo(p, c)
    BY <1>1, <1>2, <1>7, <2>2, RestInTurn DEF Transforming
  <2> QED
    BY <1>2, <1>4, <1>5, <2>3 DEF Regular, MentionsNoDescendant
<1>8. Tabled(p) /\ Inherits(p)
  <2>1. ~Waits("inherit", p)
    BY <1>7 DEF Waits
  <2> QED
    BY <1>3, <2>1 DEF Transforming
<1>9. ASSUME NEW i \in DOMAIN Class(p).methods PROVE Made(p, i)
  <2>1. ~WaitsFor("method", p, i)
    BY <1>7 DEF WaitsFor
  <2>2. i \in Visited(p)
    BY <1>3, <2>1 DEF Visited
  <2>3. Generated(p)
    BY <1>4 DEF Transforming
  <2> QED
    BY <2>2, <2>3, Zenon DEF Generated
<1> QED
  BY <1>2, <1>3, <1>4, <1>5, <1>6, <1>8, <1>9

\* What a class inherits from one above it is of classes above it.
LEMMA UpwardAbove ==
  ASSUME NEW c, NEW b, Below(c, b)
  PROVE  \A f : f \in Upward(b) \/ f \in Above(b) => f \in Above(c)
BY BelowTrans DEF Upward, Above

\* The ancestors of a class: those of its parent, and that.
LEMMA LineageIs ==
  ASSUME NEW p, LineageOK(p), NEW up, up = Lineage(p)
  PROVE  /\ DOMAIN up = 1..(Len(types[p].ancestors) + 1) /\ Len(types[p].ancestors) \in Nat
         /\ DOMAIN types[p].ancestors = 1..Len(types[p].ancestors)
         /\ Len(up) = Len(types[p].ancestors) + 1
         /\ \A k \in 1..Len(types[p].ancestors) : up[k] = types[p].ancestors[k]
         /\ up[Len(types[p].ancestors) + 1] = Copy(p)
<1> DEFINE a == types[p].ancestors
           S == {a[k] : k \in DOMAIN a} \cup {Copy(p)}
<1>1. a \in Seq({a[k] : k \in DOMAIN a}) /\ up = Append(a, Copy(p))
  BY DEF LineageOK, Lineage
<1> HIDE DEF a
<1>2. a \in Seq(S) /\ Copy(p) \in S
  BY <1>1
<1> HIDE DEF S
<1>3. /\ up \in Seq(S) /\ Len(up) = Len(a) + 1 /\ up[Len(a) + 1] = Copy(p)
      /\ \A k \in 1..Len(a) : up[k] = a[k]
  BY <1>1, <1>2, AppendProperties
<1>4. DOMAIN a = 1..Len(a) /\ Len(a) \in Nat /\ DOMAIN up = 1..(Len(a) + 1)
  BY <1>2, <1>3
<1> QED
  BY <1>3, <1>4 DEF a

\* It has their tables, which have their methods.
LEMMA InheritsLineage ==
  ASSUME IInv, stage = "transform", Regular, FunctionsOK, Transforming, Doing("inherit"),
         NEW c, c = This, HasParent(c), NEW up, up = Lineage(Class(c).parent)
  PROVE  /\ HasAncestors(c, up) /\ Len(up) \in Nat /\ DOMAIN up = 1..Len(up)
         /\ \A k \in 1..Len(up) : Below(c, up[k].class) /\ up[k].class \in Names
<1> PICK p : p = Class(c).parent
  OBVIOUS
<1> PICK a : a = types[p].ancestors
  OBVIOUS
<1>1. /\ p \in DOMAIN types /\ p \in Names /\ p # c /\ Below(c, p)
      /\ Tabled(p) /\ Inherits(p) /\ LineageOK(p)
      /\ \A i \in DOMAIN Class(p).methods : Made(p, i)
  BY ParentIsThere
<1>2. /\ DOMAIN up = 1..(Len(a) + 1) /\ Len(a) \in Nat /\ DOMAIN a = 1..Len(a) /\ Len(up) = Len(a) + 1
      /\ \A k \in 1..Len(a) : up[k] = a[k]
      /\ up[Len(a) + 1] = Copy(p)
  BY <1>1, LineageIs
<1>3. /\ HasAncestors(p, a) /\ HasFunctions(p, types[p].vtable)
      /\ \A k \in DOMAIN a : a[k].class \in DOMAIN types /\ Below(p, a[k].class)
  BY <1>1 DEF Inherits, Tabled, LineageOK
<1>4. Copy(p).class = p /\ Copy(p).vtable = types[p].vtable
  BY DEF Copy
<1>5. \A f : f \in Upward(p) \/ f \in Above(p) => f \in Above(c)
  BY <1>1, UpwardAbove
<1>6. \A k : k \in DOMAIN up <=> k \in DOMAIN a \/ k = Len(a) + 1
  BY <1>2
<1>7. ASSUME NEW k \in DOMAIN up
      PROVE  /\ up[k].vtable \in Seq(Above(c)) /\ Below(c, up[k].class) /\ up[k].class \in Names
             /\ \A i \in DOMAIN Class(up[k].class).methods :
                  \E j \in DOMAIN up[k].vtable : funcs[up[k].vtable[j]].name = Method(up[k].class, i).name
  <2>1. CASE k \in DOMAIN a
    <3> PICK e : e = a[k]
      OBVIOUS
    <3>1. up[k] = e
      BY <1>2, <2>1
    <3>2. e.vtable \in Seq(Above(p)) /\ Below(p, e.class) /\ e.class \in DOMAIN types
      BY <1>3, <2>1 DEF HasAncestors
    <3>3. e.vtable \in Seq(Above(c))
      BY <1>5, <3>2, SeqWiden
    <3>4. Below(c, e.class)
      BY <1>1, <3>2, BelowTrans
    <3>5. \A i \in DOMAIN Class(e.class).methods :
                  \E j \in DOMAIN e.vtable : funcs[e.vtable[j]].name = Method(e.class, i).name
      <4>1. \A i \in DOMAIN Class(a[k].class).methods :
                  \E j \in DOMAIN a[k].vtable : funcs[a[k].vtable[j]].name = Method(a[k].class, i).name
        BY <1>3, <2>1, Zenon DEF HasAncestors
      <4> QED
        BY <4>1
    <3>6. e.class \in Names
      BY <3>2 DEF IInv, Typed
    <3> QED
      BY <3>1, <3>3, <3>4, <3>5, <3>6
  <2>2. CASE k = Len(a) + 1
    <3> PICK t : t = types[p].vtable
      OBVIOUS
    <3>1. up[k].class = p /\ up[k].vtable = t
      BY <1>2, <1>4, <2>2
    <3>2. t \in Seq(Upward(p))
      BY <1>3 DEF HasFunctions
    <3>3. t \in Seq(Above(c))
      BY <1>5, <3>2, SeqWiden
    <3>4. ASSUME NEW i \in DOMAIN Class(p).methods PROVE \E j \in DOMAIN t : funcs[t[j]].name = Method(p, i).name
      <4>1. PICK f \in DOMAIN funcs : funcs[f].class = p /\ funcs[f].name = Method(p, i).name
        BY <1>1 DEF Made, Of
      <4>2. \E j \in DOMAIN t : t[j] = f
        BY <1>3, <4>1 DEF HasFunctions
      <4> QED
        BY <4>1, <4>2
    <3> QED
      BY <1>1, <3>1, <3>3, <3>4
  <2> QED
    BY <1>6, <2>1, <2>2
<1>8. ASSUME NEW b \in Names, Below(c, b) PROVE \E k \in DOMAIN up : up[k].class = b
  <2>1. b = p \/ Below(p, b)
    <3>1. prog \in Program /\ c \in Names
      BY HeadType DEF IInv, Typed, Doing
    <3> QED
      BY <1>8, <3>1, BelowIs
  <2>2. CASE b = p
    BY <1>2, <1>4, <1>6, <2>2
  <2>3. CASE Below(p, b)
    <3>1. PICK k \in DOMAIN a : a[k].class = b
      BY <1>3, <2>3 DEF HasAncestors
    <3> QED
      BY <1>2, <1>6, <3>1
  <2> QED
    BY <2>1, <2>2, <2>3
<1>9. HasAncestors(c, up)
  BY <1>7, <1>8, Zenon DEF HasAncestors
<1> QED
  BY <1>2, <1>7, <1>9

\* The functions that createdFunctions has of a class are of it or of those above it.
LEMMA InTableIs ==
  ASSUME Entered, NEW c \in Names, LastName \in Nat
  PROVE  InTable(c) \in Seq(Upward(c))
<1> DEFINE q == created[c]
<1>1. q \in [1..LastName -> Seq(DOMAIN funcs)] /\ \A n \in 1..LastName : \A j \in DOMAIN q[n] : q[n][j] \in Upward(c)
  BY DEF Entered
<1> HIDE DEF q
<1>2. ASSUME NEW n \in 1..LastName PROVE q[n] \in Seq(Upward(c))
  <2> PICK r : r = q[n]
    OBVIOUS
  <2>1. r \in Seq(DOMAIN funcs) /\ \A j \in DOMAIN r : r[j] \in Upward(c)
    BY <1>1
  <2>2. r \in Seq(Upward(c))
    BY <2>1
  <2> QED
    BY <2>2
<1>3. q \in Seq(Seq(Upward(c)))
  BY <1>1, <1>2
<1>4. FlattenSeq(q) \in Seq(Upward(c))
  BY <1>3, FlattenSeqType
<1> QED
  BY <1>4 DEF InTable, q

\* What a class inherits goes into its table and into createdFunctions.
LEMMA InheritKeeps ==
  ASSUME IInv, stage = "transform", Regular, FunctionsOK, Transforming, performInheritance, HasParent(This)
  PROVE  FunctionsOK' /\ Transforming'
<1> PICK c, up : c = This /\ up = Lineage(Class(This).parent)
  OBVIOUS
<1>1. /\ Doing("inherit") /\ Then(<<>>) /\ prog' = prog /\ funcs' = funcs /\ refused' = refused
      /\ types' = [types EXCEPT ![c].ancestors = up, ![c].hasVtable = Last(up).hasVtable,
                                ![c].vtable = FlattenSeq([i \in DOMAIN up |-> InTable(up[i].class)])]
      /\ created' = [created EXCEPT ![c] = [n \in 1..LastName |-> FromAbove(up, n)]]
  BY DEF performInheritance
<1>2. /\ todo \in Seq(Tasks) /\ c \in Names /\ \A d \in DOMAIN types : DOMAIN types[d] = {"id", "ancestors", "hasVtable", "vtable"}
      /\ prog \in Program
  BY <1>1, HeadType DEF Doing, IInv, Typed
<1>3. /\ HasAncestors(c, up) /\ Len(up) \in Nat /\ DOMAIN up = 1..Len(up)
      /\ \A k \in 1..Len(up) : Below(c, up[k].class) /\ up[k].class \in Names
  BY <1>1, InheritsLineage
<1>4. Entered /\ Awaited /\ Generated(c)
  BY <1>2 DEF Transforming
<1>5. \A f \in DOMAIN funcs : funcs[f].class # c
  <2>1. Head(todo) \in ToSet(todo)
    BY <1>1, <1>2 DEF ToSet, Doing
  <2>2. Waits("inherit", c)
    BY <1>1, <2>1 DEF Waits, This, Doing
  <2>3. Visited(c) = {}
    BY <1>2, <1>4, <2>2, AwaitsMethods
  <2> QED
    BY <1>2, <1>4, <2>3, NoFunctions
<1>6. ASSUME NEW k \in 1..Len(up) PROVE \A f \in Upward(up[k].class) : f \in Above(c)
  BY <1>3, UpwardAbove
<1>7. ASSUME NEW k \in 1..Len(up) PROVE InTable(up[k].class) \in Seq(Above(c))
  <2> PICK b : b = up[k].class
    OBVIOUS
  <2>1. InTable(b) \in Seq(Upward(b))
    BY <1>3, <1>4, InTableIs, LastNameAssumption
  <2>2. InTable(b) \in Seq(Above(c))
    BY <1>6, <2>1, SeqWiden
  <2> QED
    BY <2>2
<1> PICK table : table = FlattenSeq([i \in DOMAIN up |-> InTable(up[i].class)])
  OBVIOUS
<1>8. table \in Seq(Above(c))
  <2>1. [i \in DOMAIN up |-> InTable(up[i].class)] \in Seq(Seq(Above(c)))
    BY <1>3, <1>7
  <2> QED
    BY <2>1, FlattenSeqType
<1>9. Kept /\ (\A d : Upward(d)' = Upward(d)) /\ (\A d : Above(d)' = Above(d)) /\ Names' = Names
  BY <1>1, Quiet, Static DEF Kept
<1>10. /\ DOMAIN types' = DOMAIN types /\ \A d \in DOMAIN types : types'[d].id = types[d].id
       /\ \A d \in DOMAIN types : d # This => types'[d] = types[d]
       /\ c \in DOMAIN types => types'[c].ancestors = up /\ types'[c].vtable = table
  BY <1>1, <1>2
<1>11. HasFunctions(c, table)'
  <2>1. \A j \in DOMAIN table : table[j] \in DOMAIN funcs /\ table[j] \in Above(c)
    BY <1>8 DEF Above
  <2>2. \A f \in Above(c) : f \in Upward(c)
    BY DEF Above, Upward
  <2>3. table \in Seq(Upward(c))
    BY <1>8, <2>2, SeqWiden
  <2>4. \A j \in DOMAIN table : funcs[table[j]].class # c
    BY <1>5, <2>1
  <2> QED
    BY <1>1, <1>5, <1>9, <2>3, <2>4 DEF HasFunctions
<1>12. HasAncestors(c, up)'
  BY <1>1, <1>3, <1>9, StillHasAncestors
<1>13. ASSUME NEW d \in DOMAIN types, d = This PROVE Tabled(d)' /\ Inherits(d)'
  <2>1. types'[c].ancestors = up /\ types'[c].vtable = table /\ d = c
    BY <1>10, <1>13
  <2>2. Tabled(c)' /\ Inherits(c)'
    BY <1>11, <1>12, <2>1 DEF Tabled, Inherits
  <2> QED
    BY <2>1, <2>2
<1>14. Entered'
  <2>2. created \in [Names -> [1..LastName -> Seq(DOMAIN funcs)]]
    BY <1>4 DEF Entered
  <2>1. ASSUME NEW n \in 1..LastName
        PROVE  /\ FromAbove(up, n) \in Seq(DOMAIN funcs)
               /\ \A j \in DOMAIN FromAbove(up, n) : FromAbove(up, n)[j] \in Upward(c) /\ funcs[FromAbove(up, n)[j]].name = n
    <3> DEFINE S == {f \in Above(c) : funcs[f].name = n}
    <3>1. ASSUME NEW k \in 1..Len(up) PROVE created[up[k].class][n] \in Seq(S)
      <4> PICK b, r : b = up[k].class /\ r = created[b][n]
        OBVIOUS
      <4>1. b \in Names
        BY <1>3
      <4>2. r \in Seq(DOMAIN funcs) /\ \A j \in DOMAIN r : r[j] \in Upward(b) /\ funcs[r[j]].name = n
        <5>1. created[b][n] \in Seq(DOMAIN funcs)
          BY <2>2, <4>1
        <5>2. \A j \in DOMAIN created[b][n] : created[b][n][j] \in Upward(b) /\ funcs[created[b][n][j]].name = n
          BY <1>4, <4>1 DEF Entered
        <5> QED
          BY <5>1, <5>2
      <4>3. \A j \in DOMAIN r : r[j] \in S
        BY <1>6, <4>2
      <4> HIDE DEF S
      <4>4. r \in Seq(S)
        BY <4>2, <4>3
      <4> QED
        BY <4>4
    <3> HIDE DEF S
    <3>2. FromAbove(up, n) \in Seq(S)
      BY <1>3, <3>1, FromAboveType
    <3> PICK r : r = FromAbove(up, n)
      OBVIOUS
    <3>3. r \in Seq(S) /\ \A f \in S : f \in DOMAIN funcs /\ f \in Upward(c) /\ funcs[f].name = n
      BY <3>2 DEF S, Above, Upward
    <3>4. r \in Seq(DOMAIN funcs)
      BY <3>3, SeqWiden
    <3> QED
      BY <3>3, <3>4
  <2>3. /\ created' \in [Names -> [1..LastName -> Seq(DOMAIN funcs)]]
        /\ \A n \in 1..LastName : created'[c][n] = FromAbove(up, n)
        /\ \A d \in Names : d # c => created'[d] = created[d]
    <3> PICK g : g = [n \in 1..LastName |-> FromAbove(up, n)]
      OBVIOUS
    <3>1. g \in [1..LastName -> Seq(DOMAIN funcs)] /\ \A n \in 1..LastName : g[n] = FromAbove(up, n)
      BY <2>1
    <3>2. created' = [created EXCEPT ![c] = g]
      BY <1>1
    <3> QED
      BY <1>2, <2>2, <3>1, <3>2
  <2>4. ASSUME NEW d \in Names, NEW n \in 1..LastName, NEW j \in DOMAIN created'[d][n]
        PROVE  created'[d][n][j] \in Upward(d) /\ funcs[created'[d][n][j]].name = n
    BY <1>4, <2>1, <2>3 DEF Entered
  <2>5. ASSUME NEW f \in DOMAIN funcs
        PROVE  \E j \in DOMAIN created'[funcs[f].class][funcs[f].name] : created'[funcs[f].class][funcs[f].name][j] = f
    <3>1. funcs[f].class # c /\ funcs[f].class \in Names
      BY <1>5 DEF FunctionsOK
    <3> QED
      BY <1>4, <2>3, <3>1 DEF Entered
  <2>6. created' \in [Names' -> [1..LastName -> Seq(DOMAIN funcs')]]
    BY <1>1, <1>9, <2>3
  <2>7. \A d \in Names' : \A n \in 1..LastName : \A j \in DOMAIN created'[d][n] :
          created'[d][n][j] \in Upward(d)' /\ funcs'[created'[d][n][j]].name = n
    <3> SUFFICES ASSUME NEW d \in Names', NEW n \in 1..LastName, NEW j \in DOMAIN created'[d][n]
                 PROVE  created'[d][n][j] \in Upward(d)' /\ funcs'[created'[d][n][j]].name = n
      OBVIOUS
    <3>1. Upward(d)' = Upward(d) /\ d \in Names
      BY <1>9
    <3> QED
      BY <1>1, <2>4, <3>1
  <2>8. \A f \in DOMAIN funcs' : \E j \in DOMAIN created'[funcs'[f].class][funcs'[f].name] :
          created'[funcs'[f].class][funcs'[f].name][j] = f
    BY <1>1, <2>5, Zenon
  <2> QED
    BY <2>6, <2>7, <2>8, Zenon DEF Entered
<1> QED
  BY <1>1, <1>10, <1>13, <1>14, InheritedTransforming

-----------------------------------------------------------------------------
(* A function that is made *)

\* A function of method i of class c is the last of all functions.
Grown(c, i, n) ==
  /\ DOMAIN funcs' = DOMAIN funcs \cup {n} /\ n \notin DOMAIN funcs
  /\ \A f \in DOMAIN funcs : funcs'[f] = funcs[f]
  /\ DOMAIN funcs'[n] = {"class", "name", "override", "index"} /\ funcs'[n].index \in Nat
  /\ funcs'[n].class = c /\ funcs'[n].name = Method(c, i).name /\ funcs'[n].override = Method(c, i).override

\* transformFunction puts a function behind the others.
LEMMA GrownBy ==
  ASSUME FunctionsOK, NEW c, NEW i, NEW at \in Nat,
         funcs' = Append(funcs, [class |-> c, name |-> Method(c, i).name, override |-> Method(c, i).override, index |-> at])
  PROVE  /\ Grown(c, i, Len(funcs) + 1)
         /\ funcs' \in Seq({funcs'[f] : f \in DOMAIN funcs'})
<1> PICK r : r = [class |-> c, name |-> Method(c, i).name, override |-> Method(c, i).override, index |-> at]
  OBVIOUS
<1> DEFINE S == {funcs[f] : f \in DOMAIN funcs} \cup {r}
<1>1. funcs \in Seq(S) /\ r \in S
  BY DEF FunctionsOK
<1> HIDE DEF S
<1>2. /\ funcs' \in Seq(S) /\ Len(funcs') = Len(funcs) + 1 /\ funcs'[Len(funcs) + 1] = r
      /\ \A f \in 1..Len(funcs) : funcs'[f] = funcs[f]
  BY <1>1, AppendProperties
<1>3. /\ Len(funcs) \in Nat /\ DOMAIN funcs = 1..Len(funcs) /\ DOMAIN funcs' = 1..(Len(funcs) + 1)
  BY <1>1, <1>2
<1>4. DOMAIN funcs' = DOMAIN funcs \cup {Len(funcs) + 1} /\ Len(funcs) + 1 \notin DOMAIN funcs
  BY <1>3
<1>5. funcs' \in Seq({funcs'[f] : f \in DOMAIN funcs'})
  BY <1>2
<1> QED
  BY <1>2, <1>3, <1>4, <1>5 DEF Grown

\* The method has one function more, and no other has.
LEMMA GrownMade ==
  ASSUME prog' = prog, MethodsDiffer, FunctionsOK, NEW c \in Names, NEW i \in DOMAIN Class(c).methods, NEW n, Grown(c, i, n)
  PROVE  /\ Kept
         /\ \A d \in Names : \A k \in DOMAIN Class(d).methods : Made(d, k)' <=> Made(d, k) \/ (d = c /\ k = i)
         /\ \A d \in Names : \A k \in DOMAIN Class(d).methods : Twice(d, k)' <=> Twice(d, k) \/ (d = c /\ k = i /\ Made(d, k))
         /\ \A d \in Names : Marked(d) => Marked(d)'
<1>1. Kept
  BY DEF Kept, Grown
<1>2. \A d : Class(d)' = Class(d)
  BY Static
<1>3. \A d, k : Method(d, k)' = Method(d, k)
  BY StaticToo
<1>4. \A d, k : \A f \in DOMAIN funcs : Of(f, d, k)' <=> Of(f, d, k)
  BY <1>3 DEF Of, Grown
<1>5. ASSUME NEW d \in Names, NEW k \in DOMAIN Class(d).methods
      PROVE  Of(n, d, k)' <=> d = c /\ k = i
  <2>1. Of(n, d, k)' <=> d = c /\ Method(c, i).name = Method(d, k).name
    BY <1>3 DEF Of, Grown
  <2>2. d = c /\ Method(c, i).name = Method(d, k).name => k = i
    BY DEF MethodsDiffer
  <2> QED
    BY <2>1, <2>2
<1>6. DOMAIN funcs' = DOMAIN funcs \cup {n} /\ n \notin DOMAIN funcs
  BY DEF Grown
<1>7. ASSUME NEW d \in Names, NEW k \in DOMAIN Class(d).methods
      PROVE  Made(d, k)' <=> Made(d, k) \/ (d = c /\ k = i)
  BY <1>4, <1>5, <1>6 DEF Made
<1>8. ASSUME NEW d \in Names, NEW k \in DOMAIN Class(d).methods
      PROVE  Twice(d, k)' <=> Twice(d, k) \/ (d = c /\ k = i /\ Made(d, k))
  <2>1. ASSUME Twice(d, k)' PROVE Twice(d, k) \/ (d = c /\ k = i /\ Made(d, k))
    <3>1. PICK f \in DOMAIN funcs', g \in DOMAIN funcs' : f # g /\ Of(f, d, k)' /\ Of(g, d, k)'
      BY <2>1 DEF Twice
    <3>2. CASE f = n
      BY <1>4, <1>5, <1>6, <3>1, <3>2 DEF Made
    <3>3. CASE g = n
      BY <1>4, <1>5, <1>6, <3>1, <3>3 DEF Made
    <3>4. CASE f # n /\ g # n
      BY <1>4, <1>6, <3>1, <3>4 DEF Twice
    <3> QED
      BY <3>2, <3>3, <3>4
  <2>2. ASSUME Twice(d, k) PROVE Twice(d, k)'
    BY <1>4, <1>6, <2>2 DEF Twice
  <2>3. ASSUME d = c, k = i, Made(d, k) PROVE Twice(d, k)'
    <3>1. PICK f \in DOMAIN funcs : Of(f, d, k)
      BY <2>3 DEF Made
    <3>2. Of(f, d, k)' /\ Of(n, d, k)' /\ f # n
      BY <1>4, <1>5, <1>6, <2>3, <3>1
    <3> QED
      BY <1>6, <3>2 DEF Twice
  <2> QED
    BY <2>1, <2>2, <2>3
<1>9. ASSUME NEW d \in Names, Marked(d) PROVE Marked(d)'
  <2> SUFFICES ASSUME NEW f \in DOMAIN funcs', NEW k \in DOMAIN Class(d).methods, Of(f, d, k)'
               PROVE  funcs'[f].override <=> Method(d, k).override
    BY <1>2, <1>3, Zenon DEF Marked
  <2>1. CASE f = n
    <3>1. d = c /\ k = i
      BY <1>5, <2>1
    <3> QED
      BY <2>1, <3>1 DEF Grown
  <2>2. CASE f # n
    <3>1. f \in DOMAIN funcs /\ Of(f, d, k) /\ funcs'[f] = funcs[f]
      BY <1>4, <1>6, <2>2 DEF Grown
    <3> QED
      BY <1>9, <3>1 DEF Marked
  <2> QED
    BY <2>1, <2>2
<1> QED
  BY <1>1, <1>7, <1>8, <1>9

\* Functions that are methods of the program.
LEMMA AreFunctions ==
  ASSUME prog' = prog, funcs' \in Seq({funcs'[f] : f \in DOMAIN funcs'}),
         \A f \in DOMAIN funcs' :
            /\ DOMAIN funcs'[f] = {"class", "name", "override", "index"}
            /\ funcs'[f].class \in Names /\ funcs'[f].name \in 1 .. LastName /\ funcs'[f].index \in Nat
            /\ \E k \in DOMAIN Class(funcs'[f].class).methods : funcs'[f].name = Method(funcs'[f].class, k).name
  PROVE  FunctionsOK'
<1>1. Names' = Names
  BY Static
<1>2. \A d : Class(d)' = Class(d)
  BY Static
<1>3. \A d, k : Method(d, k)' = Method(d, k)
  BY StaticToo
<1>4. ASSUME NEW f \in DOMAIN funcs', NEW d, d = funcs'[f].class
      PROVE  \E k \in DOMAIN Class(d)'.methods : funcs'[f].class = d /\ funcs'[f].name = Method(d, k)'.name
  BY <1>2, <1>3, <1>4
<1> QED
  BY <1>1, <1>4, Zenon DEF FunctionsOK, Of

\* The functions are still those of methods.
LEMMA GrownFunctions ==
  ASSUME prog \in Program, prog' = prog, FunctionsOK, NEW c \in Names, NEW i \in DOMAIN Class(c).methods, NEW n, Grown(c, i, n),
         funcs' \in Seq({funcs'[f] : f \in DOMAIN funcs'})
  PROVE  FunctionsOK'
<1>1. Method(c, i).name \in 1..LastName
  BY ClassType
<1>2. ASSUME NEW f \in DOMAIN funcs'
      PROVE  /\ DOMAIN funcs'[f] = {"class", "name", "override", "index"}
             /\ funcs'[f].class \in Names /\ funcs'[f].name \in 1 .. LastName /\ funcs'[f].index \in Nat
             /\ \E k \in DOMAIN Class(funcs'[f].class).methods : funcs'[f].name = Method(funcs'[f].class, k).name
  <2>1. CASE f = n
    BY <1>1, <2>1 DEF Grown
  <2>2. CASE f # n
    <3>1. f \in DOMAIN funcs /\ funcs'[f] = funcs[f]
      BY <2>2 DEF Grown
    <3>2. PICK k \in DOMAIN Class(funcs[f].class).methods : Of(f, funcs[f].class, k)
      BY <3>1 DEF FunctionsOK
    <3>3. funcs[f].name = Method(funcs[f].class, k).name
      BY <3>2 DEF Of
    <3>4. /\ DOMAIN funcs[f] = {"class", "name", "override", "index"}
          /\ funcs[f].class \in Names /\ funcs[f].name \in 1 .. LastName /\ funcs[f].index \in Nat
      BY <3>1 DEF FunctionsOK
    <3> QED
      BY <3>1, <3>2, <3>3, <3>4
  <2> QED
    BY <2>1, <2>2
<1> QED
  BY <1>2, AreFunctions

\* createdFunctions gets the function, before the others of its name,
LEMMA GrownEntered ==
  ASSUME prog \in Program, prog' = prog, Entered, NEW c \in Names, NEW i \in DOMAIN Class(c).methods, NEW n, Grown(c, i, n),
         created' = [created EXCEPT ![c][Method(c, i).name] = <<n>> \o @]
  PROVE  Entered'
<1> PICK m : m = Method(c, i).name
  OBVIOUS
<1>1. m \in 1..LastName
  BY ClassType
<1>2. created \in [Names -> [1..LastName -> Seq(DOMAIN funcs)]]
  BY DEF Entered
<1>3. DOMAIN funcs' = DOMAIN funcs \cup {n} /\ funcs'[n].class = c /\ funcs'[n].name = m /\ \A f \in DOMAIN funcs : funcs'[f] = funcs[f]
  BY DEF Grown
<1>4. Names' = Names
  BY Static
<1>k. Kept
  BY DEF Kept, Grown
<1> PICK old, new : old = created[c][m] /\ new = <<n>> \o old
  OBVIOUS
<1>5. old \in Seq(DOMAIN funcs)
  BY <1>1, <1>2
<1>6. /\ new \in Seq(DOMAIN funcs') /\ DOMAIN new = 1..(Len(old) + 1) /\ new[1] = n /\ Len(old) \in Nat /\ DOMAIN old = 1..Len(old)
      /\ \A j \in 1..Len(old) : j + 1 \in DOMAIN new /\ new[j + 1] = old[j]
      /\ \A j \in DOMAIN new : j = 1 \/ (j - 1 \in DOMAIN old /\ new[j] = old[j - 1])
  <2> DEFINE S == DOMAIN funcs \cup {n}
             one == <<n>>
  <2>1. one \in Seq(S) /\ Len(one) = 1 /\ one[1] = n /\ old \in Seq(S)
    BY <1>5
  <2> HIDE DEF S, one
  <2>2. /\ one \o old \in Seq(S) /\ Len(one \o old) = Len(one) + Len(old)
        /\ \A j \in 1..(Len(one) + Len(old)) : (one \o old)[j] = IF j <= Len(one) THEN one[j] ELSE old[j - Len(one)]
    BY <2>1, ConcatProperties
  <2>3. new = one \o old /\ Len(old) \in Nat /\ DOMAIN old = 1..Len(old)
    BY <2>1 DEF one
  <2>4. new \in Seq(S) /\ DOMAIN new = 1..(Len(old) + 1) /\ new[1] = n
    BY <2>1, <2>2, <2>3
  <2>5. \A j \in 1..(Len(old) + 1) : new[j] = IF j <= 1 THEN one[j] ELSE old[j - 1]
    BY <2>1, <2>2, <2>3
  <2>6. \A j \in 1..Len(old) : j + 1 \in 1..(Len(old) + 1) /\ new[j + 1] = old[j]
    BY <2>3, <2>5
  <2>7. \A j \in 1..(Len(old) + 1) : j = 1 \/ (j - 1 \in 1..Len(old) /\ new[j] = old[j - 1])
    BY <2>3, <2>5
  <2>8. new \in Seq(DOMAIN funcs')
    BY <1>3, <2>4 DEF S
  <2> QED
    BY <2>3, <2>4, <2>6, <2>7, <2>8
<1>7. /\ DOMAIN created' = Names
      /\ \A d \in Names : DOMAIN created'[d] = 1..LastName
      /\ \A d \in Names : \A a \in 1..LastName : created'[d][a] = IF d = c /\ a = m THEN new ELSE created[d][a]
  <2>1. created' = [created EXCEPT ![c] = [created[c] EXCEPT ![m] = new]]
    OBVIOUS
  <2> PICK row : row = [created[c] EXCEPT ![m] = new]
    OBVIOUS
  <2>2. DOMAIN row = 1..LastName /\ \A a \in 1..LastName : row[a] = IF a = m THEN new ELSE created[c][a]
    BY <1>1, <1>2
  <2>3. DOMAIN created' = Names /\ \A d \in Names : created'[d] = IF d = c THEN row ELSE created[d]
    BY <1>2, <2>1
  <2>4. \A d \in Names : DOMAIN created[d] = 1..LastName
    BY <1>2
  <2> QED
    BY <2>2, <2>3, <2>4
<1>8. ASSUME NEW d \in Names, NEW a \in 1..LastName
      PROVE  /\ created'[d][a] \in Seq(DOMAIN funcs')
             /\ \A j \in DOMAIN created'[d][a] : created'[d][a][j] \in Upward(d)' /\ funcs'[created'[d][a][j]].name = a
  <2> PICK q : q = created[d][a]
    OBVIOUS
  <2>1. q \in Seq(DOMAIN funcs) /\ \A j \in DOMAIN q : q[j] \in Upward(d) /\ funcs[q[j]].name = a
    BY <1>2 DEF Entered
  <2>2. \A f \in Upward(d) : f \in Upward(d)'
    BY <1>k, KeptUpward
  <2>3. q \in Seq(DOMAIN funcs')
    <3>1. \A f \in DOMAIN funcs : f \in DOMAIN funcs'
      BY <1>3
    <3> QED
      BY <2>1, <3>1, SeqWiden
  <2>4. \A j \in DOMAIN q : q[j] \in Upward(d)' /\ funcs'[q[j]].name = a
    BY <1>3, <2>1, <2>2
  <2>5. CASE d = c /\ a = m
    <3>1. q = old /\ created'[d][a] = new
      BY <1>7, <2>5
    <3>2. n \in Upward(d)'
      BY <1>3, <2>5 DEF Upward
    <3>3. \A j \in DOMAIN new : new[j] \in Upward(d)' /\ funcs'[new[j]].name = a
      BY <1>3, <1>6, <2>4, <2>5, <3>1, <3>2
    <3> QED
      BY <1>6, <3>1, <3>3
  <2>6. CASE ~(d = c /\ a = m)
    <3>1. created'[d][a] = q
      BY <1>7, <2>6
    <3> QED
      BY <2>3, <2>4, <3>1
  <2> QED
    BY <2>5, <2>6
<1>9. created' \in [Names' -> [1..LastName -> Seq(DOMAIN funcs')]]
  <2>1. created' = [d \in DOMAIN created' |-> created'[d]] /\ \A d \in Names : created'[d] = [a \in DOMAIN created'[d] |-> created'[d][a]]
    BY <1>1, <1>2
  <2>2. \A d \in Names : created'[d] \in [1..LastName -> Seq(DOMAIN funcs')]
    BY <1>7, <1>8, <2>1
  <2> QED
    BY <1>4, <1>7, <2>1, <2>2
<1>10. ASSUME NEW f \in DOMAIN funcs', NEW d, NEW a, d = funcs'[f].class, a = funcs'[f].name
       PROVE  \E j \in DOMAIN created'[d][a] : created'[d][a][j] = f
  <2>1. CASE f = n
    <3>1. d \in Names /\ a \in 1..LastName /\ created'[d][a] = new
      BY <1>1, <1>3, <1>7, <1>10, <2>1
    <3> QED
      BY <1>6, <2>1, <3>1
  <2>2. CASE f # n
    <3>1. f \in DOMAIN funcs /\ d = funcs[f].class /\ a = funcs[f].name
      BY <1>3, <1>10, <2>2
    <3>2. PICK j \in DOMAIN created[d][a] : created[d][a][j] = f
      BY <3>1 DEF Entered
    <3>3. CASE d = c /\ a = m
      <4>1. j \in 1..Len(old) /\ old[j] = f
        BY <1>6, <3>2, <3>3
      <4>2. j + 1 \in DOMAIN new /\ new[j + 1] = f
        BY <1>6, <4>1
      <4>3. created'[d][a] = new
        BY <1>1, <1>7, <3>3
      <4> QED
        BY <4>2, <4>3
    <3>4. CASE ~(d = c /\ a = m)
      <4>1. created'[d][a] = created[d][a]
        <5>1. created' = [created EXCEPT ![c][m] = new]
          OBVIOUS
        <5> QED
          BY <1>1, <1>2, <3>4, <5>1
      <4> QED
        BY <3>2, <4>1
    <3> QED
      BY <3>3, <3>4
  <2> QED
    BY <1>3, <2>1, <2>2
<1>11. \A d \in Names' : \A a \in 1..LastName : \A j \in DOMAIN created'[d][a] :
          created'[d][a][j] \in Upward(d)' /\ funcs'[created'[d][a][j]].name = a
  BY <1>4, <1>8
<1>12. \A f \in DOMAIN funcs' : \E j \in DOMAIN created'[funcs'[f].class][funcs'[f].name] :
          created'[funcs'[f].class][funcs'[f].name][j] = f
  BY <1>10
<1> QED
  BY <1>9, <1>11, <1>12, Zenon DEF Entered

\* and so does the table of its class, behind the others.
LEMMA GrownTabled ==
  ASSUME prog' = prog, NEW c, Tabled(c), NEW i, NEW n, Grown(c, i, n), types'[c].vtable = Append(types[c].vtable, n)
  PROVE  Tabled(c)'
<1> PICK t, u : t = types[c].vtable /\ u = types'[c].vtable
  OBVIOUS
<1>1. t \in Seq(Upward(c)) /\ u = Append(t, n)
  BY DEF Tabled, HasFunctions
<1>2. DOMAIN funcs' = DOMAIN funcs \cup {n} /\ n \notin DOMAIN funcs /\ funcs'[n].class = c /\ \A f \in DOMAIN funcs : funcs'[f] = funcs[f]
  BY DEF Grown
<1>3. Kept
  BY DEF Kept, Grown
<1>4. \A f \in Upward(c) : f \in Upward(c)'
  BY <1>3, KeptUpward
<1>5. t \in Seq(Upward(c)')
  BY <1>1, <1>4, SeqWiden
<1>6. n \in Upward(c)'
  BY <1>2 DEF Upward
<1>7. /\ u \in Seq(Upward(c)') /\ DOMAIN u = 1..(Len(t) + 1) /\ u[Len(t) + 1] = n /\ Len(t) \in Nat /\ DOMAIN t = 1..Len(t)
      /\ \A j \in 1..Len(t) : u[j] = t[j]
  <2> PICK S : S = Upward(c)'
    OBVIOUS
  <2>1. t \in Seq(S) /\ n \in S
    BY <1>5, <1>6
  <2>2. /\ u \in Seq(S) /\ Len(u) = Len(t) + 1 /\ u[Len(t) + 1] = n
        /\ \A j \in 1..Len(t) : u[j] = t[j]
    BY <1>1, <2>1, AppendProperties
  <2> QED
    BY <2>1, <2>2
<1>8. \A j \in DOMAIN t : t[j] \in DOMAIN funcs
  BY <1>1 DEF Upward
<1>9. \A j \in DOMAIN u : j \in DOMAIN t \/ j = Len(t) + 1
  BY <1>7
<1>10. ASSUME NEW f \in DOMAIN funcs', funcs'[f].class = c PROVE \E j \in DOMAIN u : u[j] = f
  <2>1. CASE f = n
    BY <1>7, <2>1
  <2>2. CASE f # n
    <3>1. f \in DOMAIN funcs /\ funcs[f].class = c
      BY <1>2, <1>10, <2>2
    <3>2. PICK j \in DOMAIN t : t[j] = f
      BY <3>1 DEF Tabled, HasFunctions
    <3> QED
      BY <1>7, <3>2
  <2> QED
    BY <2>1, <2>2
<1>11. ASSUME NEW j \in DOMAIN u, NEW k \in DOMAIN u, u[j] = u[k], funcs'[u[j]].class = c PROVE j = k
  <2>1. CASE j \in DOMAIN t /\ k \in DOMAIN t
    <3>1. t[j] = t[k] /\ funcs[t[j]].class = c
      BY <1>2, <1>7, <1>8, <1>11, <2>1
    <3> QED
      BY <2>1, <3>1 DEF Tabled, HasFunctions
  <2>2. CASE ~(j \in DOMAIN t /\ k \in DOMAIN t)
    BY <1>2, <1>7, <1>8, <1>9, <1>11, <2>2
  <2> QED
    BY <2>1, <2>2
<1>12. HasFunctions(c, u)'
  BY <1>7, <1>10, <1>11 DEF HasFunctions
<1> QED
  BY <1>12 DEF Tabled

-----------------------------------------------------------------------------
(* The body of a method *)

\* A method or a call is replaced by what its body comes to: a call of the method that it calls.
LEMMA BodyWaits ==
  ASSUME IInv, stage = "transform", Regular, prog' = prog, InTurn(todo), Awaited, todo # <<>>, Head(todo).do \in {"method", "call"},
         NEW c, NEW i, c = This, i = Head(todo).i, todo' = Body(c, Method(c, i).does) \o Tail(todo)
  PROVE  /\ InTurn(todo)' /\ c \in Names /\ c \in DOMAIN types /\ i \in DOMAIN Class(c).methods
         /\ \A t \in ToSet(todo)' : t.do # "type" => t.class \in DOMAIN types
         /\ \A d : Waits("type", d)' \/ ~Waits("type", d)
         /\ \A d : (Waits("inherit", d)' <=> Waits("inherit", d)) /\ (Waits("declare", d)' <=> Waits("declare", d))
         /\ \A d, k : WaitsFor("method", d, k)' <=> WaitsFor("method", d, k) /\ ~(Head(todo).do = "method" /\ d = c /\ k = i)
         /\ \A d, k : d # c => (WaitsFor("call", d, k)' <=> WaitsFor("call", d, k))
         /\ \A k : WaitsFor("call", c, k)' => (k \in DOMAIN Class(c).methods /\ Calls(c, i, k)) \/ (Head(todo).do = "call" /\ WaitsFor("call", c, k))
         /\ \A k \in DOMAIN Class(c).methods : Calls(c, i, k) => WaitsFor("call", c, k)'
         /\ \A k : WaitsFor("call", c, k) => Head(todo).do = "call" /\ (k = i \/ WaitsFor("call", c, k)')
         /\ Head(todo).do = "call" => WaitsFor("call", c, i)
         /\ Head(todo).do = "method" => /\ WaitsFor("method", c, i) /\ ~Waits("declare", c)
                                       /\ \A k : WaitsFor("method", c, k) => i <= k
<1>1. todo \in Seq(Tasks) /\ Head(todo) \in Tasks /\ c \in Names /\ prog \in Program
  BY HeadType DEF IInv, Typed
<1>2. i \in DOMAIN Class(c).methods
  BY <1>1 DEF Tasks, This
<1> PICK s : s = Body(c, Method(c, i).does)
  OBVIOUS
<1>3. s \in Seq(Tasks) /\ InTurn(s) /\ \A j \in 1..Len(s) : s[j].class \in {c} \cup Mentions(c)
  BY <1>1, <1>2, BodyTasks DEF Regular
<1>4. \A t \in ToSet(s) : t.do = "type" \/ (t.do = "call" /\ t.class = c /\ t.i \in DOMAIN Class(c).methods /\ Calls(c, i, t.i))
  BY <1>1, <1>2, BodyTasks DEF Regular
<1>5. \A j \in DOMAIN Class(c).methods : Calls(c, i, j) => \E t \in ToSet(s) : t.do = "call" /\ t.class = c /\ t.i = j
  BY <1>1, <1>2, BodyTasks DEF Regular
<1>6. /\ \A t : t \in ToSet(todo) <=> t = Head(todo) \/ t \in Rest
      /\ \A t : t \in ToSet(todo)' <=> t \in ToSet(s) \/ t \in Rest
      /\ Rest \subseteq Tasks
  BY <1>1, <1>3, Turned
<1>7. \A t \in Rest : t.do # "type" /\ t.class = c =>
         /\ Head(todo).do = "call" => t.do = "method"
         /\ Head(todo).do = "method" => t.do = "method" /\ i < t.i
  BY <1>1, RestAfter
<1>8. InTurn(todo)'
  <2>1. \A j \in 1..Len(s) : s[j] \in ToSet(s)
    BY <1>3 DEF ToSet
  <2>2. ASSUME NEW j \in 1..Len(s), s[j].do # "type", NEW t \in Rest, t.do # "type", t.class = c PROVE Rank(s[j]) < Rank(t)
    <3>1. Rank(s[j]) = 2
      BY <1>4, <2>1, <2>2 DEF Rank
    <3>2. t.do = "method" /\ t \in Tasks
      BY <1>6, <1>7, <2>2
    <3>3. Rank(t) = 2 + t.i
      BY <3>2 DEF Rank
    <3>4. t.i \in DOMAIN Class(c).methods
      BY <2>2, <3>2 DEF Tasks
    <3>5. t.i \in Nat \ {0}
      <4>1. Class(c).methods \in Seq({Class(c).methods[k] : k \in DOMAIN Class(c).methods})
        BY <1>1, ClassType
      <4> QED
        BY <3>4, <4>1
    <3> QED
      BY <3>1, <3>3, <3>5
  <2>3. \A j \in 1..Len(s) : s[j].do # "type" => s[j].class = This
    BY <1>4, <2>1
  <2>4. \A j \in 1..Len(s) : s[j].class \in {This} \cup Mentions(This)
    BY <1>3
  <2>5. \A j \in 1..Len(s) : s[j].do # "type" =>
            s[j].class = This /\ \A t \in Rest : t.do # "type" /\ t.class = This => Rank(s[j]) < Rank(t)
    BY <2>2, <2>3
  <2> QED
    BY <1>1, <1>3, <2>4, <2>5, TurnStep
<1>9. Head(todo) \in ToSet(todo) /\ c \in DOMAIN types
  BY <1>6 DEF Awaited, This
<1>10. \A t \in ToSet(todo)' : t.do # "type" => t.class \in DOMAIN types
  BY <1>4, <1>6, <1>9 DEF Awaited
<1>11. ASSUME NEW do, NEW d, do # "call", do # "method"
       PROVE  /\ Waits(do, d) => Waits(do, d)'
              /\ do # "type" => (Waits(do, d)' => Waits(do, d))
  BY <1>4, <1>6, <1>11 DEF Waits
<1>12. ASSUME NEW d, NEW k
       PROVE  WaitsFor("method", d, k)' <=> WaitsFor("method", d, k) /\ ~(Head(todo).do = "method" /\ d = c /\ k = i)
  <2>1. WaitsFor("method", d, k)' <=> \E t \in Rest : t.do = "method" /\ t.class = d /\ t.i = k
    BY <1>4, <1>6 DEF WaitsFor
  <2>2. WaitsFor("method", d, k) <=> (\E t \in Rest : t.do = "method" /\ t.class = d /\ t.i = k) \/ (Head(todo).do = "method" /\ d = c /\ k = i)
    BY <1>6 DEF WaitsFor, This
  <2>3. \A t \in Rest : t.do = "method" /\ t.class = c /\ t.i = i => Head(todo).do # "method"
    <3>1. i \in Nat
      BY <1>1 DEF Tasks
    <3> QED
      BY <1>7, <3>1
  <2> QED
    BY <2>1, <2>2, <2>3
<1>13. ASSUME NEW d, NEW k, d # c PROVE WaitsFor("call", d, k)' <=> WaitsFor("call", d, k)
  BY <1>4, <1>6, <1>13 DEF WaitsFor, This
<1>14. ASSUME NEW k, WaitsFor("call", c, k)'
       PROVE  (k \in DOMAIN Class(c).methods /\ Calls(c, i, k)) \/ (Head(todo).do = "call" /\ WaitsFor("call", c, k))
  BY <1>4, <1>6, <1>7, <1>14 DEF WaitsFor
<1>15. \A k \in DOMAIN Class(c).methods : Calls(c, i, k) => WaitsFor("call", c, k)'
  BY <1>5, <1>6 DEF WaitsFor
<1>16. ASSUME NEW k, WaitsFor("call", c, k) PROVE Head(todo).do = "call" /\ (k = i \/ WaitsFor("call", c, k)')
  BY <1>6, <1>7, <1>16 DEF WaitsFor, This
<1>17. Head(todo).do = "call" => WaitsFor("call", c, i)
  BY <1>9 DEF WaitsFor, This
<1>18. ASSUME Head(todo).do = "method"
       PROVE  WaitsFor("method", c, i) /\ ~Waits("declare", c) /\ \A k : WaitsFor("method", c, k) => i <= k
  <2>1. WaitsFor("method", c, i)
    BY <1>9, <1>18 DEF WaitsFor, This
  <2>2. ~Waits("declare", c)
    BY <1>6, <1>7, <1>18 DEF Waits
  <2>3. ASSUME NEW k, WaitsFor("method", c, k) PROVE i <= k
    <3>1. PICK t \in ToSet(todo) : t.do = "method" /\ t.class = c /\ t.i = k
      BY <2>3 DEF WaitsFor
    <3>2. i \in Nat /\ t.i \in Nat
      BY <1>1, <1>6, <3>1 DEF Tasks
    <3>3. t.i = i \/ i < t.i
      BY <1>6, <1>7, <1>18, <3>1
    <3> QED
      BY <3>1, <3>2, <3>3
  <2> QED
    BY <2>1, <2>2, <2>3
<1> QED
  BY <1>1, <1>2, <1>8, <1>9, <1>10, <1>11, <1>12, <1>13, <1>14, <1>15, <1>16, <1>17, <1>18

\* What waits stays in step when a body comes next.
LEMMA BodyAwaited ==
  ASSUME IInv, stage = "transform", Regular, prog' = prog, InTurn(todo), Awaited, todo # <<>>, Head(todo).do \in {"method", "call"},
         NEW c, NEW i, c = This, i = Head(todo).i, todo' = Body(c, Method(c, i).does) \o Tail(todo), DOMAIN types' = DOMAIN types
  PROVE  Awaited'
<1>1. c \in Names /\ c \in DOMAIN types /\ i \in DOMAIN Class(c).methods
  BY BodyWaits
<1>2. \A t \in ToSet(todo)' : t.do # "type" => t.class \in DOMAIN types
  BY BodyWaits
<1>3. \A d : Waits("type", d)' \/ ~Waits("type", d)
  BY BodyWaits
<1>4. \A d : (Waits("inherit", d)' <=> Waits("inherit", d)) /\ (Waits("declare", d)' <=> Waits("declare", d))
  BY BodyWaits
<1>5. \A d, k : WaitsFor("method", d, k)' <=> WaitsFor("method", d, k) /\ ~(Head(todo).do = "method" /\ d = c /\ k = i)
  BY BodyWaits
<1>6. Head(todo).do = "method" => ~Waits("declare", c) /\ \A k : WaitsFor("method", c, k) => i <= k
  BY BodyWaits
<1>7. Names' = Names
  BY Static
<1>8. \A d : Class(d)' = Class(d)
  BY Static
<1>9. \A d \in Names' : d \in DOMAIN types' \/ Waits("type", d)'
  BY <1>3, <1>7 DEF Awaited
<1>10. \A d \in Names' : Waits("inherit", d)' => Waits("declare", d)'
  BY <1>4, <1>7 DEF Awaited
<1>11. \A d \in Names' : Waits("declare", d)' => \A k \in DOMAIN Class(d)'.methods : WaitsFor("method", d, k)'
  BY <1>4, <1>5, <1>6, <1>7, <1>8 DEF Awaited
<1>12. ASSUME NEW d \in Names', NEW j \in DOMAIN Class(d)'.methods, NEW k \in DOMAIN Class(d)'.methods,
              WaitsFor("method", d, j)', j < k
       PROVE  WaitsFor("method", d, k)'
  <2>1. d \in Names /\ j \in DOMAIN Class(d).methods /\ k \in DOMAIN Class(d).methods
    BY <1>7, <1>8
  <2>2. WaitsFor("method", d, j)
    BY <1>5, <1>12
  <2>3. WaitsFor("method", d, k)
    BY <1>12, <2>1, <2>2 DEF Awaited
  <2>4. ASSUME Head(todo).do = "method", d = c, k = i PROVE FALSE
    <3>1. i <= j
      BY <1>6, <2>2, <2>4
    <3>2. j \in Nat /\ k \in Nat
      <4>1. Class(d).methods \in Seq({Class(d).methods[m] : m \in DOMAIN Class(d).methods})
        BY <2>1, ClassType DEF IInv, Typed
      <4> QED
        BY <2>1, <4>1
    <3> QED
      BY <1>12, <2>4, <3>1, <3>2
  <2> QED
    BY <1>5, <2>3, <2>4
<1> QED
  BY <1>2, <1>9, <1>10, <1>11, <1>12, Zenon DEF Awaited

\* The methods that lead to a call still do when there are more of them, and so do those that they lead to.
LEMMA LedMore ==
  ASSUME NEW c, NEW V, NEW W, \A k \in V : k \in W, NEW i, Led(c, V, i)
  PROVE  Led(c, W, i)
BY DEF Led

\* What a method calls is led to when the method is visited or led to.
LEMMA LedOn ==
  ASSUME NEW c, NEW V, NEW i \in DOMAIN Class(c).methods, i \in V \/ Led(c, V, i),
         NEW j \in DOMAIN Class(c).methods, Calls(c, i, j)
  PROVE  Led(c, V, j)
BY DEF Led

\* A method that is about to be visited has a function when those before it lead to a call of it.
LEMMA MadeIsCalled ==
  ASSUME NEW c, Generated(c), NEW i \in DOMAIN Class(c).methods, \A k : ~WaitsFor("call", c, k),
         \A k \in DOMAIN Class(c).methods : k \in Visited(c) <=> k < i, ~(i < i)
  PROVE  Made(c, i) <=> CalledBefore(c, i)
<1> PICK V, M : V = Visited(c) /\ M = DOMAIN Class(c).methods
  OBVIOUS
<1>1. ASSUME Made(c, i) PROVE CalledBefore(c, i)
  <2>1. Led(c, V, i)
    BY <1>1 DEF Generated
  <2>2. ASSUME NEW S \in SUBSET M, \A k, j \in M : (k < i \/ k \in S) /\ Calls(c, k, j) => j \in S
        PROVE  i \in S
    <3>1. \A k, j \in M : (k \in V \/ k \in S) /\ Calls(c, k, j) => j \in S
      BY <2>2
    <3> QED
      BY <2>1, <3>1 DEF Led
  <2> QED
    BY <2>2 DEF CalledBefore
<1>2. ASSUME CalledBefore(c, i) PROVE Made(c, i)
  <2> DEFINE S == {k \in M : Made(c, k)}
  <2>1. \A k \in M : k \in V => Made(c, k)
    BY Zenon DEF Generated
  <2>2. \A k, j \in M : Made(c, k) /\ Calls(c, k, j) => Made(c, j)
    BY Zenon DEF Generated
  <2>3. \A k, j \in M : (k < i \/ k \in S) /\ Calls(c, k, j) => j \in S
    BY <2>1, <2>2
  <2>4. S \in SUBSET M
    OBVIOUS
  <2> HIDE DEF S
  <2>5. i \in S
    BY <1>2, <2>3, <2>4 DEF CalledBefore
  <2> QED
    BY <2>5 DEF S
<1> QED
  BY <1>1, <1>2

-----------------------------------------------------------------------------
(* Which methods have a function, and which have two *)

\* What is to be shown of the methods of a class after a step.
LEMMA GeneratedBy ==
  ASSUME prog' = prog, NEW c, NEW V, V = Visited(c)',
         \A i \in DOMAIN Class(c).methods :
            /\ i \in V => Made(c, i)'
            /\ Made(c, i)' => i \in V \/ Led(c, V, i)
            /\ WaitsFor("call", c, i)' => Led(c, V, i)
            /\ Made(c, i)' => \A j \in DOMAIN Class(c).methods : Calls(c, i, j) => Made(c, j)' \/ WaitsFor("call", c, j)'
            /\ i \in V => (Twice(c, i)' <=> CalledBefore(c, i))
            /\ i \notin V => ~Twice(c, i)'
  PROVE  Generated(c)'
<1>1. Class(c)' = Class(c)
  BY Static
<1>2. \A i, j : Calls(c, i, j)' <=> Calls(c, i, j)
  BY StaticToo
<1>3. \A i : CalledBefore(c, i)' <=> CalledBefore(c, i)
  BY StaticToo
<1>4. ASSUME NEW i PROVE Led(c, Visited(c), i)' <=> Led(c, V, i)
  <2>1. Led(c, Visited(c), i)' <=> Led(c, V, i)'
    BY Zenon DEF Led
  <2>2. Led(c, V, i)' <=> Led(c, V, i)
    BY StaticToo
  <2> QED
    BY <2>1, <2>2
<1> QED
  BY <1>1, <1>2, <1>3, <1>4, Zenon DEF Generated

\* The methods of a class stay as they are while its functions and its tasks do.
LEMMA OtherGenerated ==
  ASSUME prog' = prog, NEW c, Generated(c), Visited(c)' = Visited(c),
         \A i \in DOMAIN Class(c).methods : WaitsFor("call", c, i)' <=> WaitsFor("call", c, i),
         \A i \in DOMAIN Class(c).methods : Made(c, i)' <=> Made(c, i),
         \A i \in DOMAIN Class(c).methods : Twice(c, i)' <=> Twice(c, i)
  PROVE  Generated(c)'
<1> PICK V : V = Visited(c)
  OBVIOUS
<1>1. \A i \in DOMAIN Class(c).methods :
            /\ i \in V => Made(c, i)
            /\ Made(c, i) => i \in V \/ Led(c, V, i)
            /\ WaitsFor("call", c, i) => Led(c, V, i)
            /\ Made(c, i) => \A j \in DOMAIN Class(c).methods : Calls(c, i, j) => Made(c, j) \/ WaitsFor("call", c, j)
            /\ i \in V => (Twice(c, i) <=> CalledBefore(c, i))
            /\ i \notin V => ~Twice(c, i)
  BY DEF Generated
<1>2. V = Visited(c)'
  OBVIOUS
<1>3. \A i \in DOMAIN Class(c).methods :
            /\ i \in V => Made(c, i)'
            /\ Made(c, i)' => i \in V \/ Led(c, V, i)
            /\ WaitsFor("call", c, i)' => Led(c, V, i)
            /\ Made(c, i)' => \A j \in DOMAIN Class(c).methods : Calls(c, i, j) => Made(c, j)' \/ WaitsFor("call", c, j)'
            /\ i \in V => (Twice(c, i)' <=> CalledBefore(c, i))
            /\ i \notin V => ~Twice(c, i)'
  BY <1>1
<1> QED
  BY <1>2, <1>3, GeneratedBy

\* A method that is visited has one function when no method before it led to a call of it, and two otherwise.
LEMMA MethodGenerated ==
  ASSUME prog' = prog, NEW c, Generated(c), NEW i \in DOMAIN Class(c).methods, ~(i < i),
         \A k : ~WaitsFor("call", c, k),
         \A k \in DOMAIN Class(c).methods : k \in Visited(c) <=> k < i,
         \A k : k \in Visited(c)' <=> k \in Visited(c) \/ k = i,
         \A k \in DOMAIN Class(c).methods : WaitsFor("call", c, k)' <=> Calls(c, i, k),
         \A k \in DOMAIN Class(c).methods : Made(c, k)' <=> Made(c, k) \/ k = i,
         \A k \in DOMAIN Class(c).methods : Twice(c, k)' <=> Twice(c, k) \/ (k = i /\ Made(c, k))
  PROVE  Generated(c)'
<1> PICK V, W : V = Visited(c) /\ W = Visited(c)'
  OBVIOUS
<1>1. \A k \in DOMAIN Class(c).methods :
            /\ k \in V => Made(c, k)
            /\ Made(c, k) => k \in V \/ Led(c, V, k)
            /\ Made(c, k) => \A j \in DOMAIN Class(c).methods : Calls(c, k, j) => Made(c, j) \/ WaitsFor("call", c, j)
            /\ k \in V => (Twice(c, k) <=> CalledBefore(c, k))
            /\ k \notin V => ~Twice(c, k)
  BY DEF Generated
<1>2. (\A k : k \in W <=> k \in V \/ k = i) /\ i \notin V
  OBVIOUS
<1>3. Made(c, i) <=> CalledBefore(c, i)
  BY MadeIsCalled
<1>4. \A k : Led(c, V, k) => Led(c, W, k)
  BY <1>2, LedMore
<1>5. \A k \in DOMAIN Class(c).methods : Calls(c, i, k) => Led(c, W, k)
  BY <1>2, LedOn
<1>6. \A k \in DOMAIN Class(c).methods :
            /\ k \in W => Made(c, k)'
            /\ Made(c, k)' => k \in W \/ Led(c, W, k)
            /\ WaitsFor("call", c, k)' => Led(c, W, k)
            /\ Made(c, k)' => \A j \in DOMAIN Class(c).methods : Calls(c, k, j) => Made(c, j)' \/ WaitsFor("call", c, j)'
            /\ k \in W => (Twice(c, k)' <=> CalledBefore(c, k))
            /\ k \notin W => ~Twice(c, k)'
  BY <1>1, <1>2, <1>3, <1>4, <1>5
<1> QED
  BY <1>6, GeneratedBy

\* A method that is called for the first time has one function.
LEMMA CallGenerated ==
  ASSUME prog' = prog, NEW c, Generated(c), NEW i \in DOMAIN Class(c).methods, ~Made(c, i),
         WaitsFor("call", c, i), Visited(c)' = Visited(c),
         \A k \in DOMAIN Class(c).methods : WaitsFor("call", c, k)' => Calls(c, i, k) \/ WaitsFor("call", c, k),
         \A k \in DOMAIN Class(c).methods : Calls(c, i, k) => WaitsFor("call", c, k)',
         \A k \in DOMAIN Class(c).methods : WaitsFor("call", c, k) => k = i \/ WaitsFor("call", c, k)',
         \A k \in DOMAIN Class(c).methods : Made(c, k)' <=> Made(c, k) \/ k = i,
         \A k \in DOMAIN Class(c).methods : Twice(c, k)' <=> Twice(c, k) \/ (k = i /\ Made(c, k))
  PROVE  Generated(c)'
<1> PICK V : V = Visited(c)
  OBVIOUS
<1>1. \A k \in DOMAIN Class(c).methods :
            /\ k \in V => Made(c, k)
            /\ Made(c, k) => k \in V \/ Led(c, V, k)
            /\ WaitsFor("call", c, k) => Led(c, V, k)
            /\ Made(c, k) => \A j \in DOMAIN Class(c).methods : Calls(c, k, j) => Made(c, j) \/ WaitsFor("call", c, j)
            /\ k \in V => (Twice(c, k) <=> CalledBefore(c, k))
            /\ k \notin V => ~Twice(c, k)
  BY DEF Generated
<1>2. V = Visited(c)' /\ i \notin V /\ Led(c, V, i)
  BY <1>1
<1>3. \A k \in DOMAIN Class(c).methods : Calls(c, i, k) => Led(c, V, k)
  BY <1>2, LedOn
<1>4. \A k \in DOMAIN Class(c).methods :
            /\ k \in V => Made(c, k)'
            /\ Made(c, k)' => k \in V \/ Led(c, V, k)
            /\ WaitsFor("call", c, k)' => Led(c, V, k)
            /\ Made(c, k)' => \A j \in DOMAIN Class(c).methods : Calls(c, k, j) => Made(c, j)' \/ WaitsFor("call", c, j)'
            /\ k \in V => (Twice(c, k)' <=> CalledBefore(c, k))
            /\ k \notin V => ~Twice(c, k)'
  BY <1>1, <1>2, <1>3
<1> QED
  BY <1>2, <1>4, GeneratedBy

\* A method that is visited, or called for the first time, gets a function, a place in the table of
\* its class and one in createdFunctions.
LEMMA FunctionKeeps ==
  ASSUME IInv, stage = "transform", Regular, FunctionsOK, Transforming, todo # <<>>, Head(todo).do \in {"method", "call"},
         transformFunction(This, Head(todo).i), UNCHANGED <<prog, known, stage, refused, undefined>>,
         Head(todo).do = "call" => ~Made(This, Head(todo).i)
  PROVE  FunctionsOK' /\ Transforming'
<1> PICK c, i, n, at : c = This /\ i = Head(todo).i /\ n = Len(funcs) + 1 /\ at = Len(types[c].vtable)
  OBVIOUS
<1>1. /\ funcs' = Append(funcs, [class |-> c, name |-> Method(c, i).name, override |-> Method(c, i).override, index |-> at])
      /\ types' = [types EXCEPT ![c].vtable = Append(@, n)]
      /\ created' = [created EXCEPT ![c][Method(c, i).name] = <<n>> \o @]
      /\ todo' = Body(c, Method(c, i).does) \o Tail(todo)
  BY DEF transformFunction, Then
<1>p. prog \in Program /\ prog' = prog
  BY DEF IInv, Typed
<1>2. InTurn(todo) /\ Awaited /\ Identified /\ Entered /\ MethodsDiffer
  BY DEF Transforming, Regular
<1>3. /\ InTurn(todo)' /\ c \in Names /\ c \in DOMAIN types /\ i \in DOMAIN Class(c).methods
      /\ \A d : (Waits("inherit", d)' <=> Waits("inherit", d)) /\ (Waits("declare", d)' <=> Waits("declare", d))
      /\ \A d, k : WaitsFor("method", d, k)' <=> WaitsFor("method", d, k) /\ ~(Head(todo).do = "method" /\ d = c /\ k = i)
      /\ \A d, k : d # c => (WaitsFor("call", d, k)' <=> WaitsFor("call", d, k))
  BY <1>1, <1>2, BodyWaits
<1>4. /\ \A k : WaitsFor("call", c, k)' => (k \in DOMAIN Class(c).methods /\ Calls(c, i, k)) \/ (Head(todo).do = "call" /\ WaitsFor("call", c, k))
      /\ \A k \in DOMAIN Class(c).methods : Calls(c, i, k) => WaitsFor("call", c, k)'
      /\ \A k : WaitsFor("call", c, k) => Head(todo).do = "call" /\ (k = i \/ WaitsFor("call", c, k)')
      /\ Head(todo).do = "call" => WaitsFor("call", c, i)
      /\ Head(todo).do = "method" => /\ WaitsFor("method", c, i) /\ ~Waits("declare", c)
                                     /\ \A k : WaitsFor("method", c, k) => i <= k
  BY <1>1, <1>2, BodyWaits
<1>5. \A d \in DOMAIN types : DOMAIN types[d] = {"id", "ancestors", "hasVtable", "vtable"}
  BY HeadType
<1>6. /\ DOMAIN types' = DOMAIN types /\ \A d \in DOMAIN types : d # c => types'[d] = types[d]
      /\ types'[c].vtable = Append(types[c].vtable, n) /\ types'[c].ancestors = types[c].ancestors
      /\ types'[c].hasVtable = types[c].hasVtable /\ types'[c].id = types[c].id
  BY <1>1, <1>3, <1>5
<1>7. Awaited'
  <2>1. todo' = Body(c, Method(c, i).does) \o Tail(todo)
    BY <1>1
  <2>2. DOMAIN types' = DOMAIN types
    BY <1>6
  <2>3. InTurn(todo) /\ Awaited
    BY <1>2
  <2> QED
    BY <1>p, <2>1, <2>2, <2>3, BodyAwaited
<1>8. Identified'
  <2>1. DOMAIN types' = DOMAIN types /\ \A d \in DOMAIN types : types'[d].id = types[d].id
    BY <1>3, <1>6
  <2>2. Identified
    BY <1>2
  <2> QED
    BY <2>1, <2>2, Zenon DEF Identified
<1>9. at \in Nat
  <2>1. types[c].vtable \in Seq(Upward(c))
    BY <1>3 DEF Transforming, Tabled, HasFunctions
  <2> QED
    BY <2>1
<1>10. Grown(c, i, n) /\ funcs' \in Seq({funcs'[f] : f \in DOMAIN funcs'})
  BY <1>1, <1>9, GrownBy
<1>11. FunctionsOK'
  BY <1>3, <1>10, <1>p, GrownFunctions
<1>12. Kept /\ \A d \in Names : Marked(d) => Marked(d)'
  BY <1>2, <1>3, <1>10, GrownMade
<1>13. \A d \in Names : \A k \in DOMAIN Class(d).methods : Made(d, k)' <=> Made(d, k) \/ (d = c /\ k = i)
  BY <1>2, <1>3, <1>10, GrownMade
<1>14. \A d \in Names : \A k \in DOMAIN Class(d).methods : Twice(d, k)' <=> Twice(d, k) \/ (d = c /\ k = i /\ Made(d, k))
  BY <1>2, <1>3, <1>10, GrownMade
<1>15. Entered'
  BY <1>1, <1>2, <1>3, <1>10, <1>p, GrownEntered
<1>16. Names' = Names /\ \A d : Class(d)' = Class(d)
  BY Static
<1>17. \A d : d # c \/ Head(todo).do = "call" => Visited(d)' = Visited(d)
  BY <1>3, <1>6, <1>16 DEF Visited
<1>18. ASSUME NEW d \in Names PROVE Generated(d)'
  <2>1. Generated(d)
    BY DEF Transforming
  <2>2. CASE d # c
    <3>1. /\ \A k \in DOMAIN Class(d).methods : WaitsFor("call", d, k)' <=> WaitsFor("call", d, k)
          /\ \A k \in DOMAIN Class(d).methods : Made(d, k)' <=> Made(d, k)
          /\ \A k \in DOMAIN Class(d).methods : Twice(d, k)' <=> Twice(d, k)
          /\ Visited(d)' = Visited(d)
      BY <1>3, <1>13, <1>14, <1>17, <2>2
    <3> QED
      BY <2>1, <3>1, OtherGenerated
  <2>3. CASE d = c /\ Head(todo).do = "call"
    <3>1. /\ ~Made(c, i) /\ Visited(c)' = Visited(c) /\ WaitsFor("call", c, i)
          /\ \A k \in DOMAIN Class(c).methods : WaitsFor("call", c, k)' => Calls(c, i, k) \/ WaitsFor("call", c, k)
          /\ \A k \in DOMAIN Class(c).methods : WaitsFor("call", c, k) => k = i \/ WaitsFor("call", c, k)'
      BY <1>4, <1>17, <2>3
    <3>2. /\ \A k \in DOMAIN Class(c).methods : Made(c, k)' <=> Made(c, k) \/ k = i
          /\ \A k \in DOMAIN Class(c).methods : Twice(c, k)' <=> Twice(c, k) \/ (k = i /\ Made(c, k))
      BY <1>3, <1>13, <1>14
    <3>3. Generated(c)
      BY <2>1, <2>3
    <3>4. Generated(c)'
      BY <1>3, <1>4, <1>p, <3>1, <3>2, <3>3, CallGenerated
    <3> QED
      BY <2>3, <3>4
  <2>4. CASE d = c /\ Head(todo).do = "method"
    <3>1. \A k \in DOMAIN Class(c).methods : k \in Nat
      <4>1. Class(c).methods \in Seq({Class(c).methods[k] : k \in DOMAIN Class(c).methods})
        BY <1>3, <1>p, ClassType
      <4> QED
        BY <4>1
    <3>2. ~(i < i)
      BY <1>3, <3>1
    <3>3. ASSUME NEW k \in DOMAIN Class(c).methods PROVE k \in Visited(c) <=> k < i
      <4>1. k \in Nat /\ i \in Nat
        BY <1>3, <3>1
      <4>2. ASSUME WaitsFor("method", c, k) PROVE ~(k < i)
        <5>1. i <= k
          BY <1>4, <2>4, <4>2
        <5> QED
          BY <4>1, <5>1
      <4>3. ASSUME ~(k < i) PROVE WaitsFor("method", c, k)
        <5>1. k = i \/ i < k
          BY <4>1, <4>3
        <5> QED
          BY <1>2, <1>3, <1>4, <2>4, <5>1 DEF Awaited
      <4> QED
        BY <1>3, <4>2, <4>3 DEF Visited
    <3>4. \A k : k \in Visited(c)' <=> k \in Visited(c) \/ k = i
      BY <1>3, <1>6, <1>16, <2>4 DEF Visited
    <3>5. /\ \A k : ~WaitsFor("call", c, k)
          /\ \A k \in DOMAIN Class(c).methods : WaitsFor("call", c, k)' <=> Calls(c, i, k)
      BY <1>4, <2>4
    <3>6. /\ \A k \in DOMAIN Class(c).methods : Made(c, k)' <=> Made(c, k) \/ k = i
          /\ \A k \in DOMAIN Class(c).methods : Twice(c, k)' <=> Twice(c, k) \/ (k = i /\ Made(c, k))
      BY <1>3, <1>13, <1>14
    <3>7. Generated(c)
      BY <2>1, <2>4
    <3>8. Generated(c)'
      BY <1>3, <1>p, <3>2, <3>3, <3>4, <3>5, <3>6, <3>7, MethodGenerated
    <3> QED
      BY <2>4, <3>8
  <2> QED
    BY <2>2, <2>3, <2>4
<1>19. ASSUME NEW d \in DOMAIN types'
       PROVE  /\ Tabled(d)' /\ (~Waits("inherit", d)' => Inherits(d)')
              /\ Class(d)'.methods # <<>> /\ ~Waits("declare", d)' => types'[d].hasVtable
  <2>1. types'[d].ancestors = types[d].ancestors /\ types'[d].hasVtable = types[d].hasVtable
    BY <1>6
  <2>2. /\ Tabled(d) /\ (~Waits("inherit", d) => Inherits(d))
        /\ Class(d).methods # <<>> /\ ~Waits("declare", d) => types[d].hasVtable
    BY <1>6 DEF Transforming
  <2>3. ASSUME d = c PROVE Tabled(d)'
    <3>1. Tabled(c)
      BY <2>2, <2>3
    <3>2. Tabled(c)'
      BY <1>3, <1>6, <1>10, <1>p, <3>1, GrownTabled
    <3> QED
      BY <2>3, <3>2
  <2>4. ASSUME d # c PROVE Tabled(d)'
    <3>1. \A f \in DOMAIN funcs' : funcs'[f].class = d => f \in DOMAIN funcs
      BY <1>10, <2>4 DEF Grown
    <3>2. types'[d].vtable = types[d].vtable
      BY <1>6, <2>4
    <3>3. Tabled(d)
      BY <2>2
    <3> QED
      BY <1>12, <1>p, <3>1, <3>2, <3>3, StillTabled
  <2>5. Tabled(d)'
    BY <2>3, <2>4
  <2> QED
    BY <1>3, <1>12, <1>16, <1>p, <2>1, <2>2, <2>5, StillInherits
<1>20. refused' = {} /\ \A d \in Names : Marked(d)'
  BY <1>12 DEF Transforming
<1> QED
  BY <1>3, <1>7, <1>8, <1>11, <1>15, <1>16, <1>18, <1>19, <1>20, Zenon DEF Transforming

\* The visit of a method,
LEMMA VisitMethodKeeps ==
  ASSUME IInv, stage = "transform", Regular, FunctionsOK, Transforming, VisitMethod
  PROVE  FunctionsOK' /\ Transforming'
<1>1. todo # <<>> /\ Head(todo).do = "method" /\ transformFunction(This, Head(todo).i)
  BY DEF VisitMethod, Doing
<1>2. UNCHANGED <<prog, known, stage, refused, undefined>>
  BY DEF VisitMethod
<1> QED
  BY <1>1, <1>2, FunctionKeeps

\* and a call, which finds a function of the method or generates one.
LEMMA CallMethodKeeps ==
  ASSUME IInv, stage = "transform", Regular, FunctionsOK, Transforming, CallMethod
  PROVE  FunctionsOK' /\ Transforming'
<1>1. todo # <<>> /\ Head(todo).do = "call" /\ Doing("call")
  BY DEF CallMethod, Doing
<1>2. UNCHANGED <<prog, known, stage, refused, undefined>>
  BY DEF CallMethod
<1> PICK c, i : c = This /\ i = Head(todo).i
  OBVIOUS
<1>3. Head(todo) \in Tasks /\ c \in Names
  BY <1>1, HeadType
<1>4. i \in DOMAIN Class(c).methods
  BY <1>1, <1>3 DEF Tasks, This
<1>5. prog \in Program /\ Entered
  BY DEF IInv, Typed, Transforming
<1>6. (\E f \in ToSet(created[c][Method(c, i).name]) : funcs[f].class = c) <=> Made(c, i)
  BY <1>3, <1>4, <1>5, FoundIsMade
<1>7. IF Made(c, i) THEN Then(<<>>) /\ UNCHANGED <<funcs, types, created>> ELSE transformFunction(c, i)
  BY <1>6 DEF CallMethod
<1>8. CASE Made(c, i)
  <2>1. Then(<<>>) /\ UNCHANGED <<funcs, types, created, prog, known, stage, refused, undefined>>
    BY <1>2, <1>7, <1>8
  <2>2. Made(This, Head(todo).i)
    BY <1>8
  <2> QED
    BY <1>1, <2>1, <2>2, CallThereKeeps
<1>9. CASE ~Made(c, i)
  <2>1. ~Made(This, Head(todo).i) /\ transformFunction(This, Head(todo).i)
    BY <1>7, <1>9
  <2> QED
    BY <1>1, <1>2, <2>1, FunctionKeeps
<1> QED
  BY <1>8, <1>9

\* At first no class was met, and each of them waits.
LEMMA InitRefusals == Init => Refusals
<1> SUFFICES ASSUME Init, Regular PROVE FunctionsOK /\ Transforming
  BY DEF Init, Refusals
<1>1. types = <<>> /\ funcs = <<>> /\ refused = {} /\ created = [c \in Names |-> [n \in 1 .. LastName |-> <<>>]]
  BY DEF Init
<1>2. DOMAIN types = {} /\ DOMAIN funcs = {}
  BY <1>1
<1>3. FunctionsOK
  BY <1>1, <1>2 DEF FunctionsOK
<1>4. todo = [i \in DOMAIN prog |-> Task("type", prog[i].name, 0)] /\ prog \in Program
  BY DEF Init
<1>5. DOMAIN todo = DOMAIN prog /\ DOMAIN prog = 1..Len(prog) /\ Len(prog) \in Nat /\ Len(todo) = Len(prog)
  <2>1. DOMAIN prog = 1..Len(prog) /\ Len(prog) \in Nat
    BY <1>4, ProgramAssumption
  <2> QED
    BY <1>4, <2>1
<1>6. \A i \in 1..Len(todo) : todo[i] = Task("type", prog[i].name, 0) /\ todo[i].do = "type" /\ todo[i].class = prog[i].name
  BY <1>4, <1>5 DEF Task
<1>7. ToSet(todo) = {todo[i] : i \in 1..Len(todo)}
  BY <1>5 DEF ToSet
<1>8. InTurn(todo)
  BY <1>6 DEF InTurn
<1>9. Awaited
  <2>1. \A t \in ToSet(todo) : t.do = "type"
    BY <1>6, <1>7
  <2>2. ASSUME NEW c \in Names PROVE Waits("type", c)
    <3>1. PICK i \in DOMAIN prog : prog[i].name = c
      BY DEF Names
    <3> QED
      BY <1>5, <1>6, <1>7, <3>1 DEF Waits
  <2>3. \A c, i : ~Waits("inherit", c) /\ ~Waits("declare", c) /\ ~WaitsFor("method", c, i)
    BY <2>1 DEF Waits, WaitsFor
  <2> QED
    BY <2>1, <2>2, <2>3 DEF Awaited
<1>10. Identified
  <2>1. Cardinality(DOMAIN types) = 0
    BY <1>2, FS_EmptySet
  <2> QED
    BY <1>2, <2>1 DEF Identified
<1>11. ASSUME NEW c \in Names PROVE Marked(c) /\ Generated(c)
  <2>1. Marked(c)
    BY <1>2 DEF Marked
  <2>2. \A i : ~Made(c, i) /\ ~Twice(c, i) /\ ~WaitsFor("call", c, i)
    BY <1>2, <1>6, <1>7 DEF Made, Twice, WaitsFor
  <2>3. Visited(c) = {}
    BY <1>2 DEF Visited
  <2> QED
    BY <2>1, <2>2, <2>3 DEF Generated
<1>12. Entered
  <2>1. \A c \in Names : \A n \in 1..LastName : created[c][n] = <<>> /\ DOMAIN created[c][n] = {}
    BY <1>1
  <2>2. created \in [Names -> [1 .. LastName -> Seq(DOMAIN funcs)]]
    BY <1>1
  <2> QED
    BY <1>2, <2>1, <2>2 DEF Entered
<1> QED
  BY <1>1, <1>2, <1>3, <1>8, <1>9, <1>10, <1>11, <1>12 DEF Transforming

-----------------------------------------------------------------------------
(* The check of the classes *)

\* When nothing is left to be transformed every class was met, and is ready.
LEMMA AllReady ==
  ASSUME IInv, stage = "transform", Regular, FunctionsOK, Transforming, todo = <<>>
  PROVE  /\ DOMAIN types = Names /\ known = Names
         /\ \A c \in Names : Ready(c)
<1>1. ToSet(todo) = {}
  BY DEF ToSet
<1>2. \A do, c, i : ~Waits(do, c) /\ ~WaitsFor(do, c, i)
  BY <1>1 DEF Waits, WaitsFor
<1>3. Awaited /\ \A c \in Names : Marked(c) /\ Generated(c)
  BY DEF Transforming
<1>4. DOMAIN types = Names
  BY <1>2, <1>3 DEF Awaited, IInv, Typed
<1>5. known = Names
  <2>1. known \subseteq Names /\ Declared(todo)
    BY DEF IInv, Typed
  <2>2. \A c \in DOMAIN types : c \in known
    BY <2>1 DEF Declared
  <2> QED
    BY <1>4, <2>1, <2>2
<1>6. ASSUME NEW c \in Names PROVE Ready(c)
  <2>1. Tabled(c) /\ Inherits(c) /\ (Class(c).methods # <<>> => types[c].hasVtable)
    BY <1>2, <1>4 DEF Transforming
  <2>2. Marked(c) /\ Generated(c)
    BY <1>3
  <2>3. \A i \in DOMAIN Class(c).methods : i \in Visited(c)
    BY <1>2, <1>4 DEF Visited
  <2>4. \A i \in DOMAIN Class(c).methods : Made(c, i) /\ (Twice(c, i) <=> CalledBefore(c, i))
    BY <2>2, <2>3 DEF Generated
  <2> QED
    BY <2>1, <2>2, <2>4 DEF Ready
<1> QED
  BY <1>4, <1>5, <1>6

\* A class stays ready while what it was made of stays.
LEMMA StillReady ==
  ASSUME prog' = prog, DOMAIN funcs' = DOMAIN funcs, NEW c, Ready(c), types'[c] = types[c],
         \A f \in DOMAIN funcs : funcs'[f].class = funcs[f].class /\ funcs'[f].name = funcs[f].name,
         \A f \in DOMAIN funcs : funcs[f].class = c => (funcs'[f].override <=> funcs[f].override)
  PROVE  Ready(c)'
<1>1. Kept
  BY DEF Kept
<1>2. Class(c)' = Class(c)
  BY Static
<1>3. \A i : Method(c, i)' = Method(c, i)
  BY StaticToo
<1>4. \A i : CalledBefore(c, i)' <=> CalledBefore(c, i)
  BY StaticToo
<1>5. Marked(c) /\ Tabled(c) /\ Inherits(c)
  BY DEF Ready
<1>6. \A f \in DOMAIN funcs : \A i : Of(f, c, i)' <=> Of(f, c, i)
  BY <1>3 DEF Of
<1>7. Marked(c)'
  BY <1>2, <1>3, <1>5, <1>6 DEF Marked, Of
<1>8. Tabled(c)'
  BY <1>1, <1>5, StillTabled
<1>9. Inherits(c)'
  BY <1>1, <1>5, StillInherits
<1>10. \A i : Made(c, i)' <=> Made(c, i)
  BY <1>6, Zenon DEF Made
<1>11. \A i : Twice(c, i)' <=> Twice(c, i)
  BY <1>6, Zenon DEF Twice
<1>12. \A i \in DOMAIN Class(c)'.methods : Made(c, i)' /\ (Twice(c, i)' <=> CalledBefore(c, i)')
  BY <1>2, <1>4, <1>10, <1>11 DEF Ready
<1>13. Class(c)'.methods # <<>> => types'[c].hasVtable
  BY <1>2 DEF Ready
<1> QED
  BY <1>7, <1>8, <1>9, <1>12, <1>13 DEF Ready

\* The check begins with all classes, each once.
LEMMA StartCheckKeeps ==
  ASSUME IInv, stage = "transform", Regular, FunctionsOK, Transforming, StartCheck
  PROVE  FunctionsOK' /\ Checking' /\ \A c \in Names : Waits("fix", c)'
<1>1. /\ todo = <<>> /\ UNCHANGED <<prog, types, funcs, refused>>
      /\ todo' = [i \in 1 .. Cardinality(known) |-> Task("fix", CHOOSE c \in DOMAIN types : types[c].id = i - 1, 0)]
  BY DEF StartCheck
<1>2. DOMAIN types = Names
  BY <1>1, AllReady
<1>3. known = Names
  BY <1>1, AllReady
<1>4. \A c \in Names : Ready(c)
  BY <1>1, AllReady
<1>5. FunctionsOK'
  BY <1>1, Quiet
<1> PICK n, q : n = Cardinality(known) /\ q = todo'
  OBVIOUS
<1>6. n \in Nat
  <2>1. IsFiniteSet(Names)
    BY NamesFinite DEF IInv, Typed
  <2> QED
    BY <1>3, <2>1, FS_CardinalityType
<1> DEFINE g(i) == CHOOSE c \in DOMAIN types : types[c].id = i - 1
<1>7. DOMAIN q = 1..n /\ \A i \in 1..n : q[i] = [do |-> "fix", class |-> g(i), i |-> 0]
  BY <1>1 DEF Task
<1>8. ASSUME NEW i \in 1..n PROVE g(i) \in DOMAIN types /\ types[g(i)].id = i - 1
  <2>1. i - 1 \in 0 .. Cardinality(DOMAIN types) - 1
    BY <1>2, <1>3, <1>6
  <2>2. \E c \in DOMAIN types : types[c].id = i - 1
    BY <2>1 DEF Transforming, Identified
  <2> QED
    BY <2>2
<1> HIDE DEF g
<1>9. \A i \in 1..n : q[i].class = g(i) /\ q[i].do = "fix"
  BY <1>7
<1>10. \A i \in DOMAIN q : q[i].class \in Names /\ \A j \in DOMAIN q : q[i].class = q[j].class => i = j
  <2>1. ASSUME NEW i \in 1..n, NEW j \in 1..n, q[i].class = q[j].class PROVE i = j
    <3>1. i - 1 = j - 1
      BY <1>8, <1>9, <2>1
    <3> QED
      BY <1>6, <3>1
  <2> QED
    BY <1>2, <1>7, <1>8, <1>9, <2>1
<1>11. ASSUME NEW c \in Names PROVE \E i \in DOMAIN q : q[i].do = "fix" /\ q[i].class = c
  <2>1. types[c].id \in 0 .. Cardinality(DOMAIN types) - 1
    BY <1>2 DEF Transforming, Identified
  <2> PICK i : i = types[c].id + 1
    OBVIOUS
  <2>2. i \in 1..n /\ types[c].id = i - 1
    BY <1>2, <1>3, <1>6, <2>1
  <2>3. g(i) \in DOMAIN types /\ types[g(i)].id = types[c].id
    BY <1>8, <2>2
  <2>4. \A d, e \in DOMAIN types : types[d].id = types[e].id => d = e
    BY DEF Transforming, Identified
  <2>5. g(i) = c
    BY <1>2, <2>3, <2>4
  <2> QED
    BY <1>7, <1>9, <2>2, <2>5
<1>12. \A c \in Names : Waits("fix", c)'
  BY <1>11 DEF Waits, ToSet
<1>13. Names' = Names
  BY <1>1, Static
<1>14. \A c \in Names : Ready(c)'
  BY <1>1, <1>4, StillReady
<1>15. refused' = {}
  BY <1>1 DEF Transforming
<1>16. \A c, m : ~Refused(c, m)'
  BY <1>15 DEF Refused
<1>17. DOMAIN types' = Names'
  BY <1>1, <1>2, <1>13
<1>18. Checking'
  BY <1>5, <1>10, <1>12, <1>13, <1>14, <1>15, <1>16, <1>17 DEF Checking
<1> QED
  BY <1>5, <1>12, <1>18

\* The lists that the table of a class is made of.
Lists(c) == Append([k \in DOMAIN types[c].ancestors |-> types[c].ancestors[k].vtable], types[c].vtable)

ListsFit(c, lists, n) ==
  /\ n \in Nat /\ DOMAIN types[c].ancestors = 1..n
  /\ lists \in Seq(Seq(DOMAIN funcs)) /\ lists # <<>> /\ Len(lists) = n + 1
  /\ lists[n + 1] = types[c].vtable
  /\ \A k \in 1..n : lists[k] = types[c].ancestors[k].vtable
  /\ \A k \in 1..n : \A j \in DOMAIN lists[k] : lists[k][j] \in Above(c)

\* What a class gives to its own table, and what its ancestors give: lists of functions.
LEMMA ListsAre ==
  ASSUME MentionsNoDescendant, NEW c \in Names, Tabled(c), Inherits(c), LineageOK(c),
         NEW lists, lists = Lists(c), NEW n, n = Len(types[c].ancestors)
  PROVE  ListsFit(c, lists, n)
<1> PICK up, t : up = types[c].ancestors /\ t = types[c].vtable
  OBVIOUS
<1>1. up \in Seq({up[k] : k \in DOMAIN up})
  BY DEF LineageOK
<1>2. n \in Nat /\ n = Len(up) /\ DOMAIN up = 1..n
  BY <1>1
<1>3. \A k \in 1..n : up[k].vtable \in Seq(Above(c))
  BY <1>2 DEF Inherits, HasAncestors
<1>4. \A f \in Above(c) : f \in DOMAIN funcs
  BY DEF Above
<1>5. \A k \in 1..n : up[k].vtable \in Seq(DOMAIN funcs)
  BY <1>3, <1>4
<1>6. t \in Seq(DOMAIN funcs)
  <2>1. t \in Seq(Upward(c)) /\ \A f \in Upward(c) : f \in DOMAIN funcs
    BY DEF Tabled, HasFunctions, Upward
  <2> QED
    BY <2>1, SeqWiden
<1> PICK ancestral : ancestral = [k \in 1..n |-> up[k].vtable]
  OBVIOUS
<1>7. ancestral \in Seq(Seq(DOMAIN funcs)) /\ Len(ancestral) = n /\ \A k \in 1..n : ancestral[k] = up[k].vtable
  BY <1>2, <1>5
<1>8. lists = Append(ancestral, t)
  BY <1>2 DEF Lists
<1>9. /\ lists \in Seq(Seq(DOMAIN funcs)) /\ lists # <<>> /\ Len(lists) = n + 1
      /\ lists[n + 1] = t /\ \A k \in 1..n : lists[k] = up[k].vtable
  <2> DEFINE S == Seq(DOMAIN funcs)
  <2>1. ancestral \in Seq(S) /\ t \in S
    BY <1>6, <1>7
  <2> HIDE DEF S
  <2>2. /\ lists \in Seq(S) /\ lists # <<>> /\ Len(lists) = n + 1 /\ lists[n + 1] = t
        /\ \A k \in 1..n : lists[k] = ancestral[k]
    BY <1>2, <1>7, <1>8, <2>1
  <2> QED
    BY <1>7, <2>2 DEF S
<1>10. ASSUME NEW k \in 1..n, NEW j \in DOMAIN lists[k] PROVE lists[k][j] \in Above(c)
  <2>1. lists[k] \in Seq(Above(c))
    BY <1>3, <1>9
  <2> QED
    BY <2>1
<1> QED
  BY <1>2, <1>9, <1>10 DEF ListsFit

\* The lists of the ancestors have the names of the methods that are redefined, and the class's own
\* list has a second function of a method that was called before.
LEMMA FixedRefuses ==
  ASSUME prog \in Program, MentionsNoDescendant, MethodsDiffer, FunctionsOK, NEW c \in Names, Ready(c), LineageOK(c),
         NEW fixed, fixed = FixedTable(c, Lists(c))
  PROVE  /\ fixed \in Working
         /\ \A g \in fixed.refused : g \in DOMAIN funcs /\ funcs[g].class = c
         /\ \A m : (\E g \in fixed.refused : funcs[g].name = m) <=> ToRefuse(c, m)
<1> PICK lists, n, t, up : /\ lists = Lists(c) /\ n = Len(types[c].ancestors)
                           /\ t = types[c].vtable /\ up = types[c].ancestors
  OBVIOUS
<1>0. Tabled(c) /\ Inherits(c)
  BY DEF Ready
<1>1. Marked(c) /\ \A i \in DOMAIN Class(c).methods : Made(c, i) /\ (Twice(c, i) <=> CalledBefore(c, i))
  BY DEF Ready
<1>l. ListsFit(c, lists, n)
  BY <1>0, ListsAre
<1>2. /\ n \in Nat /\ DOMAIN up = 1..n
      /\ lists \in Seq(Seq(DOMAIN funcs)) /\ lists # <<>> /\ Len(lists) = n + 1
      /\ lists[n + 1] = t
  BY <1>l DEF ListsFit
<1>3. \A k \in 1..n : lists[k] = up[k].vtable
  BY <1>l DEF ListsFit
<1>4. \A k \in 1..n : \A j \in DOMAIN lists[k] : lists[k][j] \in Above(c)
  BY <1>l DEF ListsFit
<1>5. \A f \in Above(c) : f \in DOMAIN funcs /\ funcs[f].class # c /\ Below(c, funcs[f].class)
  BY NotBelowItself DEF Above
<1>6. Len(lists) - 1 = n
  BY <1>2
<1>7. fixed = FixedTable(c, lists) /\ \A f \in DOMAIN funcs : funcs[f].index \in Nat
  BY DEF FunctionsOK
<1>8. \A i \in 1..(Len(lists) - 1) : \A j \in DOMAIN lists[i] : funcs[lists[i][j]].class # c
  BY <1>4, <1>5, <1>6
<1>9. fixed \in Working
  <2>1. FixedTable(c, lists) \in Working
    BY <1>2, <1>7, <1>8, FixedTableIs, Zenon
  <2> QED
    BY <1>7, <2>1
<1> DEFINE Bad(j) == /\ ~funcs[t[j]].override /\ funcs[t[j]].class = c
                     /\ \/ \E i \in 1..n : funcs[t[j]].name \in NamesIn(lists[i])
                        \/ \E k \in 1..(j - 1) : funcs[t[k]].name = funcs[t[j]].name
<1>10. \A g : g \in fixed.refused <=> \E j \in DOMAIN t : g = t[j] /\ Bad(j)
  <2>1. \A g : g \in FixedTable(c, lists).refused <=> Clashing(c, lists, lists[Len(lists)], g)
    BY <1>2, <1>7, <1>8, FixedTableIs, Zenon
  <2>2. lists[Len(lists)] = t
    BY <1>2
  <2>3. \A g : g \in fixed.refused <=> Clashing(c, lists, t, g)
    BY <1>7, <2>1, <2>2
  <2> HIDE DEF Bad
  <2>4. \A g : Clashing(c, lists, t, g) <=> \E j \in DOMAIN t : g = t[j] /\ Bad(j)
    BY <1>6, Zenon DEF Clashing, Bad
  <2> QED
    BY <2>3, <2>4, Zenon
<1>11. /\ t \in Seq(Upward(c))
       /\ \A f \in DOMAIN funcs : funcs[f].class = c => \E j \in DOMAIN t : t[j] = f
       /\ \A j, k \in DOMAIN t : t[j] = t[k] /\ funcs[t[j]].class = c => j = k
  BY <1>0 DEF Tabled, HasFunctions
<1>12. Len(t) \in Nat /\ DOMAIN t = 1..Len(t) /\ \A j \in DOMAIN t : t[j] \in DOMAIN funcs /\ (funcs[t[j]].class = c \/ Below(c, funcs[t[j]].class))
  BY <1>11 DEF Upward
<1>13. \A f \in DOMAIN funcs : funcs[f].class = c => \E i \in DOMAIN Class(c).methods : Of(f, c, i)
  BY DEF FunctionsOK
<1>14. \A f \in DOMAIN funcs : funcs[f].class \in Names /\ \E i \in DOMAIN Class(funcs[f].class).methods : Of(f, funcs[f].class, i)
  BY DEF FunctionsOK
<1>15. ASSUME NEW f \in DOMAIN funcs, Below(c, funcs[f].class) PROVE Redefines(c, funcs[f].name)
  <2>1. PICK i \in DOMAIN Class(funcs[f].class).methods : Of(f, funcs[f].class, i)
    BY <1>14
  <2>2. Declares(funcs[f].class, funcs[f].name)
    BY <2>1 DEF Declares, Of
  <2> QED
    BY <1>14, <1>15, <2>2 DEF Redefines
<1>16. ASSUME NEW m, Redefines(c, m) PROVE \E k \in 1..n : m \in NamesIn(lists[k])
  <2>1. PICK b \in Names : Below(c, b) /\ Declares(b, m)
    BY <1>16 DEF Redefines
  <2>2. PICK i \in DOMAIN Class(b).methods : Method(b, i).name = m
    BY <2>1 DEF Declares
  <2>3. PICK k \in 1..n : up[k].class = b
    BY <1>0, <1>2, <2>1 DEF Inherits, HasAncestors
  <2>4. \E j \in DOMAIN up[k].vtable : funcs[up[k].vtable[j]].name = Method(b, i).name
    BY <1>0, <1>2, <2>3 DEF Inherits, HasAncestors
  <2> QED
    BY <1>3, <2>2, <2>4 DEF NamesIn
<1> HIDE DEF Bad
<1>17. ASSUME NEW j \in DOMAIN t, Bad(j) PROVE funcs[t[j]].class = c /\ ToRefuse(c, funcs[t[j]].name)
  <2>1. t[j] \in DOMAIN funcs /\ funcs[t[j]].class = c /\ ~funcs[t[j]].override
    BY <1>12, <1>17 DEF Bad
  <2>2. PICK i \in DOMAIN Class(c).methods : Of(t[j], c, i)
    BY <1>13, <2>1
  <2>3. Method(c, i).name = funcs[t[j]].name /\ ~Method(c, i).override
    BY <1>1, <2>1, <2>2 DEF Marked, Of
  <2>4. CASE \E k \in 1..n : funcs[t[j]].name \in NamesIn(lists[k])
    <3>1. PICK k \in 1..n : funcs[t[j]].name \in NamesIn(lists[k])
      BY <2>4
    <3>2. PICK x \in DOMAIN lists[k] : funcs[lists[k][x]].name = funcs[t[j]].name
      BY <3>1 DEF NamesIn
    <3>3. Redefines(c, funcs[t[j]].name)
      BY <1>4, <1>5, <1>15, <3>2
    <3> QED
      BY <2>1, <2>3, <3>3 DEF ToRefuse
  <2>5. CASE \E k \in 1..(j - 1) : funcs[t[k]].name = funcs[t[j]].name
    <3>1. PICK k \in 1..(j - 1) : funcs[t[k]].name = funcs[t[j]].name
      BY <2>5
    <3>2. k \in DOMAIN t /\ k # j
      BY <1>12, <3>1
    <3>3. CASE funcs[t[k]].class = c
      <4>1. t[k] # t[j]
        BY <1>11, <3>2, <3>3
      <4>2. Of(t[k], c, i)
        BY <2>3, <3>1, <3>3 DEF Of
      <4>3. Twice(c, i)
        BY <1>12, <2>1, <2>2, <3>2, <4>1, <4>2 DEF Twice
      <4> QED
        BY <1>1, <2>1, <2>3, <4>3 DEF ToRefuse
    <3>4. CASE Below(c, funcs[t[k]].class)
      <4>1. Redefines(c, funcs[t[j]].name)
        BY <1>12, <1>15, <3>1, <3>2, <3>4
      <4> QED
        BY <2>1, <2>3, <4>1 DEF ToRefuse
    <3> QED
      BY <1>12, <3>2, <3>3, <3>4
  <2> QED
    BY <1>17, <2>4, <2>5 DEF Bad
<1>18. ASSUME NEW m, ToRefuse(c, m) PROVE \E j \in DOMAIN t : Bad(j) /\ funcs[t[j]].name = m
  <2>1. PICK i \in DOMAIN Class(c).methods : Method(c, i).name = m /\ ~Method(c, i).override /\ (Redefines(c, m) \/ CalledBefore(c, i))
    BY <1>18 DEF ToRefuse
  <2>2. ASSUME NEW f \in DOMAIN funcs, Of(f, c, i)
        PROVE  funcs[f].class = c /\ funcs[f].name = m /\ ~funcs[f].override /\ \E j \in DOMAIN t : t[j] = f
    BY <1>1, <1>11, <2>1, <2>2 DEF Marked, Of
  <2>3. CASE Redefines(c, m)
    <3>1. PICK f \in DOMAIN funcs : Of(f, c, i)
      BY <1>1 DEF Made
    <3>2. PICK j \in DOMAIN t : t[j] = f
      BY <2>2, <3>1
    <3>3. funcs[t[j]].class = c /\ funcs[t[j]].name = m /\ ~funcs[t[j]].override
      BY <2>2, <3>1, <3>2
    <3>4. \E k \in 1..n : funcs[t[j]].name \in NamesIn(lists[k])
      BY <1>16, <2>3, <3>3
    <3> QED
      BY <3>3, <3>4 DEF Bad
  <2>4. CASE CalledBefore(c, i)
    <3>1. PICK f, g \in DOMAIN funcs : f # g /\ Of(f, c, i) /\ Of(g, c, i)
      BY <1>1, <2>4 DEF Twice
    <3>2. PICK j, k \in DOMAIN t : t[j] = f /\ t[k] = g
      BY <2>2, <3>1
    <3>3. /\ funcs[t[j]].class = c /\ funcs[t[j]].name = m /\ ~funcs[t[j]].override
          /\ funcs[t[k]].class = c /\ funcs[t[k]].name = m /\ ~funcs[t[k]].override
      BY <2>2, <3>1, <3>2
    <3>4. k \in 1..(j - 1) \/ j \in 1..(k - 1)
      BY <1>12, <3>1, <3>2
    <3>5. Bad(j) \/ Bad(k)
      BY <3>3, <3>4 DEF Bad
    <3> QED
      BY <3>3, <3>5
  <2> QED
    BY <2>1, <2>3, <2>4
<1>19. \A g \in fixed.refused : g \in DOMAIN funcs /\ funcs[g].class = c
  BY <1>10, <1>12, <1>17
<1>20. \A m : (\E g \in fixed.refused : funcs[g].name = m) <=> ToRefuse(c, m)
  BY <1>10, <1>17, <1>18
<1> QED
  BY <1>9, <1>19, <1>20

\* The functions keep their class and their name, and those of other classes their mark.
Fixed(c) ==
  /\ DOMAIN funcs' = DOMAIN funcs
  /\ \A f \in DOMAIN funcs : funcs'[f].class = funcs[f].class /\ funcs'[f].name = funcs[f].name
  /\ \A f \in DOMAIN funcs : funcs[f].class # c => (funcs'[f].override <=> funcs[f].override)

\* A function with the place that it gets and the mark that stops a second report.
Rewritten(fixed, f) == [funcs[f] EXCEPT !.index = fixed.index[f], !.override = @ \/ f \in fixed.refused]

\* The check of a class leaves the functions what they are.
LEMMA FunctionsFixed ==
  ASSUME prog' = prog, FunctionsOK, NEW c, NEW fixed \in Working, \A g \in fixed.refused : funcs[g].class = c,
         funcs' = [f \in DOMAIN funcs |-> Rewritten(fixed, f)]
  PROVE  FunctionsOK' /\ Fixed(c)
<1>1. funcs \in Seq({funcs[f] : f \in DOMAIN funcs})
  BY DEF FunctionsOK
<1>3. \A f \in DOMAIN funcs : fixed.index[f] \in Nat
  BY DEF Working
<1>4. \A f \in DOMAIN funcs : f \in fixed.refused => funcs[f].class = c
  OBVIOUS
<1>5. ASSUME NEW f \in DOMAIN funcs
      PROVE  /\ DOMAIN Rewritten(fixed, f) = {"class", "name", "override", "index"}
             /\ Rewritten(fixed, f).class = funcs[f].class /\ Rewritten(fixed, f).name = funcs[f].name /\ Rewritten(fixed, f).index \in Nat
             /\ funcs[f].class # c => (Rewritten(fixed, f).override <=> funcs[f].override)
  <2> PICK r, index, mark : r = funcs[f] /\ index = fixed.index[f] /\ mark = (r.override \/ f \in fixed.refused)
    OBVIOUS
  <2>1. DOMAIN r = {"class", "name", "override", "index"}
    BY DEF FunctionsOK
  <2> PICK s : s = [r EXCEPT !.index = index]
    OBVIOUS
  <2>2. Rewritten(fixed, f) = [s EXCEPT !.override = mark]
    <3>1. s.override = r.override
      BY <2>1
    <3> QED
      BY <3>1, Zenon DEF Rewritten
  <2>3. DOMAIN s = DOMAIN r /\ s.class = r.class /\ s.name = r.name /\ s.index = index
    BY <2>1
  <2>4. DOMAIN Rewritten(fixed, f) = DOMAIN r /\ Rewritten(fixed, f).class = r.class /\ Rewritten(fixed, f).name = r.name /\ Rewritten(fixed, f).index = index /\ Rewritten(fixed, f).override = mark
    BY <2>1, <2>2, <2>3
  <2>5. r.class # c => (mark <=> r.override)
    BY <1>4
  <2> QED
    BY <1>3, <2>1, <2>4, <2>5
<1>2. Len(funcs) \in Nat /\ DOMAIN funcs = 1..Len(funcs) /\ DOMAIN funcs' = DOMAIN funcs
  BY <1>1
<1>6. funcs' \in Seq({funcs'[f] : f \in DOMAIN funcs'})
  BY <1>2
<1>10. ASSUME NEW f \in DOMAIN funcs'
       PROVE  /\ DOMAIN funcs'[f] = {"class", "name", "override", "index"}
              /\ funcs'[f].class \in Names /\ funcs'[f].name \in 1 .. LastName /\ funcs'[f].index \in Nat
              /\ \E k \in DOMAIN Class(funcs'[f].class).methods : funcs'[f].name = Method(funcs'[f].class, k).name
  <2>1. f \in DOMAIN funcs /\ funcs'[f] = Rewritten(fixed, f)
    BY <1>2
  <2>2. PICK k \in DOMAIN Class(funcs[f].class).methods : Of(f, funcs[f].class, k)
    BY <2>1 DEF FunctionsOK
  <2>3. funcs[f].name = Method(funcs[f].class, k).name
    BY <2>2 DEF Of
  <2>4. funcs[f].class \in Names /\ funcs[f].name \in 1 .. LastName
    BY <2>1 DEF FunctionsOK
  <2> QED
    BY <1>5, <2>1, <2>2, <2>3, <2>4
<1>12. FunctionsOK'
  BY <1>6, <1>10, AreFunctions
<1>13. \A f \in DOMAIN funcs : funcs'[f] = Rewritten(fixed, f)
  OBVIOUS
<1> QED
  BY <1>2, <1>5, <1>12, <1>13 DEF Fixed

\* One class less waits for its check.
OneLess(c) == ~Waits("fix", c)' /\ \A d : d # c => (Waits("fix", d)' <=> Waits("fix", d))
LEMMA CheckedWaits ==
  ASSUME Checking, todo # <<>>, todo \in Seq({todo[i] : i \in DOMAIN todo}),
         \A i \in DOMAIN todo : todo[i].do = "fix", NEW c, c = This, todo' = <<>> \o Tail(todo)
  PROVE  Waits("fix", c) /\ OneLess(c)
<1>1. \A i \in DOMAIN todo : todo[i].class \in Names /\ \A j \in DOMAIN todo : todo[i].class = todo[j].class => i = j
  BY DEF Checking
<1> PICK n, q : n = Len(todo) /\ q = todo'
  OBVIOUS
<1>3. /\ n \in Nat \ {0} /\ DOMAIN todo = 1..n /\ DOMAIN q = 1..(n - 1)
      /\ \A i \in 1..(n - 1) : i + 1 \in 1..n /\ i + 1 # 1 /\ q[i] = todo[i + 1]
  OBVIOUS
<1>4. todo[1].class = c /\ 1 \in 1..n /\ \A i \in 2..n : i - 1 \in 1..(n - 1) /\ i \in 1..n /\ q[i - 1] = todo[i]
  BY <1>3 DEF This
<1>7. Waits("fix", c) /\ ~Waits("fix", c)'
  <2>1. Waits("fix", c)
    BY <1>3, <1>4 DEF Waits, ToSet
  <2>2. ASSUME NEW i \in 1..(n - 1) PROVE q[i].class # c
    <3>1. i + 1 \in DOMAIN todo /\ 1 \in DOMAIN todo /\ i + 1 # 1 /\ q[i].class = todo[i + 1].class
      BY <1>3, <1>4
    <3> QED
      BY <1>1, <1>4, <3>1
  <2> QED
    BY <1>3, <2>1, <2>2 DEF Waits, ToSet
<1>8. ASSUME NEW d, d # c PROVE Waits("fix", d)' <=> Waits("fix", d)
  <2>1. ASSUME NEW i \in 1..(n - 1), q[i].class = d PROVE Waits("fix", d)
    <3>1. todo[i + 1] \in ToSet(todo) /\ todo[i + 1].class = d /\ todo[i + 1].do = "fix"
      BY <1>3, <2>1 DEF ToSet
    <3> QED
      BY <3>1 DEF Waits
  <2>2. ASSUME NEW i \in 1..n, todo[i].class = d PROVE Waits("fix", d)'
    <3>1. i \in 2..n
      BY <1>3, <1>4, <1>8, <2>2
    <3>2. i - 1 \in DOMAIN q /\ q[i - 1].class = d /\ q[i - 1].do = "fix"
      BY <1>3, <1>4, <2>2, <3>1
    <3> QED
      BY <3>2 DEF Waits, ToSet
  <2> QED
    BY <1>3, <2>1, <2>2 DEF Waits, ToSet
<1> QED
  BY <1>7, <1>8 DEF OneLess

\* When a class was checked, its methods that are to be refused are, and the others wait as before.
LEMMA CheckedOne ==
  ASSUME prog' = prog, Checking, NEW c \in Names, todo # <<>>, todo \in Seq({todo[i] : i \in DOMAIN todo}),
         \A i \in DOMAIN todo : todo[i].do = "fix", c = This, todo' = <<>> \o Tail(todo), Fixed(c),
         DOMAIN types' = DOMAIN types, \A d \in DOMAIN types : d # c => types'[d] = types[d],
         NEW more \in SUBSET DOMAIN funcs, refused' = refused \cup more, \A f \in more : funcs[f].class = c,
         \A m : (\E f \in more : funcs[f].name = m) <=> ToRefuse(c, m)
  PROVE  Checking'
<1>1. /\ \A i \in DOMAIN todo : todo[i].class \in Names /\ \A j \in DOMAIN todo : todo[i].class = todo[j].class => i = j
      /\ DOMAIN types = Names /\ refused \subseteq DOMAIN funcs
  BY DEF Checking
<1>2. /\ \A d \in Names : Waits("fix", d) => Ready(d) /\ \A m \in 1 .. LastName : ~Refused(d, m)
      /\ \A d \in Names : ~Waits("fix", d) => \A m \in 1 .. LastName : Refused(d, m) <=> ToRefuse(d, m)
  BY DEF Checking
<1> PICK n, q : n = Len(todo) /\ q = todo'
  OBVIOUS
<1>3. /\ n \in Nat \ {0} /\ DOMAIN todo = 1..n /\ DOMAIN q = 1..(n - 1)
      /\ \A i \in 1..(n - 1) : i + 1 \in 1..n /\ i + 1 # 1 /\ q[i] = todo[i + 1]
  OBVIOUS
<1>4. todo[1].class = c /\ 1 \in 1..n /\ \A i \in 2..n : i - 1 \in 1..(n - 1) /\ i \in 1..n /\ q[i - 1] = todo[i]
  BY <1>3 DEF This
<1>5. Names' = Names
  BY Static
<1>6. \A i \in DOMAIN q : q[i].class \in Names /\ \A j \in DOMAIN q : q[i].class = q[j].class => i = j
  <2>1. ASSUME NEW i \in 1..(n - 1), NEW j \in 1..(n - 1), q[i].class = q[j].class PROVE i = j
    <3>1. todo[i + 1].class = todo[j + 1].class /\ i + 1 \in DOMAIN todo /\ j + 1 \in DOMAIN todo
      BY <1>3, <2>1
    <3>2. i + 1 = j + 1
      BY <1>1, <3>1
    <3> QED
      BY <1>3, <3>2
  <2>2. \A i \in 1..(n - 1) : q[i].class \in Names
    BY <1>1, <1>3
  <2> QED
    BY <1>3, <2>1, <2>2
<1>7. Waits("fix", c) /\ ~Waits("fix", c)'
  BY CheckedWaits DEF OneLess
<1>8. \A d : d # c => (Waits("fix", d)' <=> Waits("fix", d))
  BY CheckedWaits DEF OneLess
<1>9. DOMAIN funcs' = DOMAIN funcs /\ \A f \in DOMAIN funcs : funcs'[f].class = funcs[f].class /\ funcs'[f].name = funcs[f].name
  BY DEF Fixed
<1>10. ASSUME NEW d, NEW m PROVE Refused(d, m)' <=> Refused(d, m) \/ (d = c /\ ToRefuse(c, m))
  <2>1. \A f : f \in refused' => f \in DOMAIN funcs
    BY <1>1
  <2>2. Refused(d, m)' <=> \E f \in refused' : funcs[f].class = d /\ funcs[f].name = m
    BY <1>9, <2>1 DEF Refused
  <2>3. (\E f \in more : funcs[f].class = d /\ funcs[f].name = m) <=> (d = c /\ ToRefuse(c, m))
    OBVIOUS
  <2> QED
    BY <2>2, <2>3 DEF Refused
<1>11. \A d, m : ToRefuse(d, m)' <=> ToRefuse(d, m)
  BY StaticToo
<1>12. ASSUME NEW d \in Names, Waits("fix", d)' PROVE Ready(d)' /\ \A m \in 1 .. LastName : ~Refused(d, m)'
  <2>1. d # c /\ Waits("fix", d)
    BY <1>7, <1>8, <1>12
  <2>2. Ready(d) /\ \A m \in 1 .. LastName : ~Refused(d, m)
    BY <1>2, <2>1
  <2>3. types'[d] = types[d]
    BY <1>1, <2>1
  <2>4. \A f \in DOMAIN funcs : funcs[f].class = d => (funcs'[f].override <=> funcs[f].override)
    BY <2>1 DEF Fixed
  <2>5. Ready(d)'
    BY <1>9, <2>2, <2>3, <2>4, StillReady
  <2> QED
    BY <1>10, <2>1, <2>2, <2>5
<1>13. ASSUME NEW d \in Names, ~Waits("fix", d)', NEW m \in 1 .. LastName PROVE Refused(d, m)' <=> ToRefuse(d, m)'
  <2>1. CASE d = c
    BY <1>2, <1>7, <1>10, <1>11, <2>1
  <2>2. CASE d # c
    BY <1>2, <1>8, <1>10, <1>11, <1>13, <2>2
  <2> QED
    BY <2>1, <2>2
<1>14. refused' \subseteq DOMAIN funcs'
  BY <1>1, <1>9
<1> QED
  BY <1>1, <1>5, <1>6, <1>12, <1>13, <1>14 DEF Checking

\* The check of a class.
LEMMA FixTypesKeeps ==
  ASSUME IInv, stage # "transform", Regular, FunctionsOK, Checking, fixTypes
  PROVE  FunctionsOK' /\ Checking'
<1>1. todo # <<>> /\ Head(todo).do = "fix" /\ todo' = <<>> \o Tail(todo) /\ prog' = prog
  BY DEF fixTypes, Doing, Then
<1>2. prog \in Program /\ todo \in Seq({todo[i] : i \in DOMAIN todo}) /\ \A i \in DOMAIN todo : todo[i].do = "fix"
  BY DEF IInv, Typed
<1> PICK c : c = This
  OBVIOUS
<1>3. c \in Names /\ Waits("fix", c)
  <2>1. 1 \in DOMAIN todo /\ todo[1] = Head(todo) /\ Head(todo).class = c
    BY <1>1, <1>2 DEF This
  <2>2. todo[1].class \in Names
    BY <2>1 DEF Checking
  <2>3. Waits("fix", c)
    BY <1>1, <2>1 DEF Waits, ToSet
  <2> QED
    BY <2>1, <2>2, <2>3
<1>4. Ready(c)
  BY <1>3 DEF Checking
<1>5. LineageOK(c)
  BY <1>3 DEF Checking, IInv, Typed
<1>6. CASE ~types[c].hasVtable
  <2>1. types' = types /\ funcs' = funcs /\ refused' = refused
    BY <1>6 DEF fixTypes
  <2>2. Class(c).methods = <<>>
    BY <1>4, <1>6 DEF Ready
  <2>3. \A m : ~ToRefuse(c, m)
    BY <2>2 DEF ToRefuse
  <2>4. FunctionsOK'
    BY <1>1, <2>1, Quiet
  <2>5. Fixed(c)
    BY <2>1 DEF Fixed
  <2>6. refused' = refused \cup {} /\ DOMAIN types' = DOMAIN types /\ \A d \in DOMAIN types : d # c => types'[d] = types[d]
    BY <2>1
  <2> PICK more \in SUBSET DOMAIN funcs : more = {}
    OBVIOUS
  <2>7. /\ refused' = refused \cup more /\ \A f \in more : funcs[f].class = c
        /\ \A m : (\E f \in more : funcs[f].name = m) <=> ToRefuse(c, m)
    BY <2>3, <2>6
  <2>8. Checking'
    BY <1>1, <1>2, <1>3, <2>5, <2>6, <2>7, CheckedOne
  <2> QED
    BY <2>4, <2>8
<1>7. CASE types[c].hasVtable
  <2> PICK fixed : fixed = FixedTable(c, Lists(c))
    OBVIOUS
  <2>1. /\ types' = [types EXCEPT ![c].vtable = fixed.table]
        /\ funcs' = [f \in DOMAIN funcs |-> Rewritten(fixed, f)]
        /\ refused' = refused \cup fixed.refused
    BY <1>7 DEF fixTypes, Lists, Rewritten
  <2>2. MentionsNoDescendant /\ MethodsDiffer
    BY DEF Regular
  <2>3. fixed \in Working
    BY <1>2, <1>3, <1>4, <1>5, <2>2, FixedRefuses
  <2>4. \A g \in fixed.refused : g \in DOMAIN funcs /\ funcs[g].class = c
    BY <1>2, <1>3, <1>4, <1>5, <2>2, FixedRefuses
  <2>5. \A m : (\E g \in fixed.refused : funcs[g].name = m) <=> ToRefuse(c, m)
    BY <1>2, <1>3, <1>4, <1>5, <2>2, FixedRefuses
  <2>6. FunctionsOK' /\ Fixed(c)
    BY <1>1, <2>1, <2>3, <2>4, FunctionsFixed
  <2>7. DOMAIN types' = DOMAIN types /\ \A d \in DOMAIN types : d # c => types'[d] = types[d]
    BY <2>1
  <2> PICK more \in SUBSET DOMAIN funcs : more = fixed.refused
    BY <2>4
  <2>8. /\ refused' = refused \cup more /\ \A f \in more : funcs[f].class = c
        /\ \A m : (\E f \in more : funcs[f].name = m) <=> ToRefuse(c, m)
    BY <2>1, <2>4, <2>5
  <2>9. Checking'
    BY <1>1, <1>2, <1>3, <2>6, <2>7, <2>8, CheckedOne
  <2> QED
    BY <2>6, <2>9
<1> QED
  BY <1>6, <1>7

-----------------------------------------------------------------------------
(* Every step, and what follows of the tables *)

\* The end of the check and the steps that change nothing keep all of it.
LEMMA RestRefusals ==
  ASSUME IInv, Refusals, EndCheck \/ UNCHANGED vars
  PROVE  Refusals'
<1>1. /\ UNCHANGED <<prog, types, created, funcs, todo, refused>>
      /\ stage' = stage \/ (stage # "transform" /\ stage' = "done" /\ todo = <<>>)
  <2>1. CASE EndCheck
    BY <2>1 DEF EndCheck
  <2>2. CASE UNCHANGED vars
    BY <2>2 DEF vars
  <2> QED
    BY <2>1, <2>2
<1>2. stage' \in {"transform", "check", "done"} /\ (stage' = "done" => todo' = <<>>)
  BY <1>1 DEF Refusals
<1>3. Regular' <=> Regular
  BY <1>1, StaticToo
<1>4. Names' = Names
  BY <1>1, Static
<1>5. \A c : Class(c)' = Class(c)
  BY <1>1, Static
<1>6. \A do, c : Waits(do, c)' <=> Waits(do, c)
  BY <1>1, Zenon DEF Waits
<1>7. \A do, c, i : WaitsFor(do, c, i)' <=> WaitsFor(do, c, i)
  BY <1>1, Zenon DEF WaitsFor
<1>8. FunctionsOK' <=> FunctionsOK
  BY <1>1, Quiet
<1>9. ASSUME Transforming PROVE Transforming'
  <2>1. Kept
    BY <1>1 DEF Kept
  <2>2. InTurn(todo)'
    <3>1. \A x, d : LeadsTo(x, d)' = LeadsTo(x, d)
      BY <1>1, Static
    <3>2. InTurn(todo)
      BY <1>9 DEF Transforming
    <3> PICK q : q = todo
      OBVIOUS
    <3>3. InTurn(q)'
      BY <3>1, <3>2, Zenon DEF InTurn, Rank
    <3> QED
      BY <1>1, <3>3
  <2>3. Awaited'
    BY <1>1, <1>4, <1>5, <1>6, <1>7, <1>9, Zenon DEF Transforming, Awaited
  <2>4. Identified'
    BY <1>1, <1>9, Zenon DEF Transforming, Identified
  <2>5. \A c : Marked(c)' <=> Marked(c)
    BY <1>1, Quiet
  <2>6. ASSUME NEW c \in Names PROVE Generated(c)'
    <3>1. Generated(c)
      BY <1>9 DEF Transforming
    <3>2. Visited(c)' = Visited(c)
      BY <1>1, <1>5, <1>7 DEF Visited
    <3> QED
      BY <1>1, <1>7, <3>1, <3>2, StillGenerated
  <2>7. Entered'
    BY <1>1, <1>9, StillEntered DEF Transforming
  <2>8. ASSUME NEW c \in DOMAIN types
        PROVE  /\ Tabled(c)' /\ (~Waits("inherit", c)' => Inherits(c)')
               /\ Class(c)'.methods # <<>> /\ ~Waits("declare", c)' => types'[c].hasVtable
    <3>1. /\ Tabled(c) /\ (~Waits("inherit", c) => Inherits(c))
          /\ Class(c).methods # <<>> /\ ~Waits("declare", c) => types[c].hasVtable
      BY <1>9 DEF Transforming
    <3>2. Tabled(c)'
      BY <1>1, <2>1, <3>1, StillTabled
    <3>3. Inherits(c) => Inherits(c)'
      BY <1>1, <2>1, StillInherits
    <3> QED
      BY <1>1, <1>5, <1>6, <3>1, <3>2, <3>3
  <2>9. refused' = {}
    BY <1>1, <1>9 DEF Transforming
  <2> QED
    BY <1>1, <1>4, <1>9, <2>2, <2>3, <2>4, <2>5, <2>6, <2>7, <2>8, <2>9 DEF Transforming
<1>10. ASSUME Checking PROVE Checking'
  <2>1. \A c : Ready(c) => Ready(c)'
    BY <1>1, StillReady
  <2>2. \A c, m : Refused(c, m)' <=> Refused(c, m)
    BY <1>1 DEF Refused
  <2>3. \A c, m : ToRefuse(c, m)' <=> ToRefuse(c, m)
    BY <1>1, StaticToo
  <2> QED
    BY <1>1, <1>4, <1>6, <1>10, <2>1, <2>2, <2>3 DEF Checking
<1>11. (stage' = "transform" <=> stage = "transform")
  BY <1>1
<1> QED
  BY <1>2, <1>3, <1>8, <1>9, <1>10, <1>11 DEF Refusals

\* What each stage keeps, every step does.
LEMMA RefusalsStep ==
  ASSUME IInv, Refusals, [Next]_vars
  PROVE  Refusals'
<1>1. CASE VisitType \/ performInheritance \/ DeclareMethods \/ VisitMethod \/ CallMethod
  <2>1. stage = "transform"
    <3> SUFFICES ASSUME stage # "transform" PROVE FALSE
      OBVIOUS
    <3>1. PICK do \in {"type", "inherit", "declare", "method", "call"} : Doing(do)
      BY <1>1 DEF VisitType, performInheritance, DeclareMethods, VisitMethod, CallMethod
    <3> QED
      BY <3>1, AfterTransform
  <2>2. stage' = stage /\ prog' = prog
    BY <1>1 DEF VisitType, performInheritance, DeclareMethods, VisitMethod, CallMethod
  <2>3. Regular' <=> Regular
    BY <2>2, StaticToo
  <2>4. ASSUME Regular PROVE FunctionsOK' /\ Transforming'
    <3>1. FunctionsOK /\ Transforming
      BY <2>1, <2>4 DEF Refusals
    <3>2. CASE VisitType
      BY <2>1, <2>4, <3>1, <3>2, VisitKnownKeeps, VisitNewKeeps
    <3>3. CASE performInheritance
      BY <2>1, <2>4, <3>1, <3>3, InheritNothingKeeps, InheritKeeps
    <3>4. CASE DeclareMethods
      BY <2>1, <2>4, <3>1, <3>4, DeclareKeeps
    <3>5. CASE VisitMethod
      BY <2>1, <2>4, <3>1, <3>5, VisitMethodKeeps
    <3>6. CASE CallMethod
      BY <2>1, <2>4, <3>1, <3>6, CallMethodKeeps
    <3> QED
      BY <1>1, <3>2, <3>3, <3>4, <3>5, <3>6
  <2> QED
    BY <2>1, <2>2, <2>3, <2>4 DEF Refusals
<1>2. CASE StartCheck
  <2>1. stage = "transform" /\ stage' = "check" /\ prog' = prog
    BY <1>2 DEF StartCheck
  <2>2. Regular' <=> Regular
    BY <2>1, StaticToo
  <2>3. ASSUME Regular PROVE FunctionsOK' /\ Checking'
    <3>1. FunctionsOK /\ Transforming
      BY <2>1, <2>3 DEF Refusals
    <3> QED
      BY <1>2, <2>1, <2>3, <3>1, StartCheckKeeps
  <2> QED
    BY <2>1, <2>2, <2>3 DEF Refusals
<1>3. CASE fixTypes
  <2>1. stage' = stage /\ prog' = prog /\ todo # <<>> /\ Head(todo).do = "fix"
    BY <1>3 DEF fixTypes, Doing
  <2>2. stage = "check"
    <3>1. stage # "transform"
      <4> SUFFICES ASSUME stage = "transform" PROVE FALSE
        OBVIOUS
      <4>1. Head(todo) \in Tasks
        BY <2>1, HeadType
      <4> QED
        BY <2>1, <4>1 DEF Tasks, Kinds
    <3> QED
      BY <2>1, <3>1 DEF Refusals
  <2>3. Regular' <=> Regular
    BY <2>1, StaticToo
  <2>4. ASSUME Regular PROVE FunctionsOK' /\ Checking'
    <3>1. FunctionsOK /\ Checking
      BY <2>2, <2>4 DEF Refusals
    <3> QED
      BY <1>3, <2>2, <2>4, <3>1, FixTypesKeeps
  <2> QED
    BY <2>1, <2>2, <2>3, <2>4 DEF Refusals
<1>4. CASE EndCheck \/ UNCHANGED vars
  BY <1>4, RestRefusals
<1> QED
  BY <1>1, <1>2, <1>3, <1>4 DEF Next, Done

\* At the end no class waits for its check.
LEMMA RefusalsEnd ==
  ASSUME IInv, Refusals
  PROVE  RefusesExactly
<1> SUFFICES ASSUME stage = "done", MentionsNoDescendant, MethodsDiffer
             PROVE  {<<funcs[f].class, funcs[f].name>> : f \in refused} =
                    UNION {{<<c, Method(c, i).name>> : i \in {j \in DOMAIN Class(c).methods :
                        ~Method(c, j).override /\ (Redefines(c, Method(c, j).name) \/ CalledBefore(c, j))}} : c \in Names}
  BY DEF RefusesExactly
<1>1. FunctionsOK /\ Checking /\ todo = <<>> /\ prog \in Program
  BY DEF Refusals, Regular, IInv, Typed
<1>2. \A c \in Names : \A m \in 1 .. LastName : Refused(c, m) <=> ToRefuse(c, m)
  BY <1>1 DEF Checking, Waits, ToSet
<1>3. ASSUME NEW f \in refused
      PROVE  \E c \in Names : \E i \in DOMAIN Class(c).methods :
               /\ <<funcs[f].class, funcs[f].name>> = <<c, Method(c, i).name>>
               /\ ~Method(c, i).override /\ (Redefines(c, Method(c, i).name) \/ CalledBefore(c, i))
  <2>1. f \in DOMAIN funcs
    BY <1>1 DEF Checking
  <2> PICK c, m : c = funcs[f].class /\ m = funcs[f].name
    OBVIOUS
  <2>2. c \in Names /\ m \in 1 .. LastName
    BY <1>1, <2>1 DEF FunctionsOK
  <2>3. ToRefuse(c, m)
    BY <1>2, <2>2 DEF Refused
  <2>4. PICK i \in DOMAIN Class(c).methods : Method(c, i).name = m /\ ~Method(c, i).override /\ (Redefines(c, m) \/ CalledBefore(c, i))
    BY <2>3 DEF ToRefuse
  <2> QED
    BY <2>2, <2>4
<1>4. ASSUME NEW c \in Names, NEW i \in DOMAIN Class(c).methods,
             ~Method(c, i).override, Redefines(c, Method(c, i).name) \/ CalledBefore(c, i)
      PROVE  \E f \in refused : <<c, Method(c, i).name>> = <<funcs[f].class, funcs[f].name>>
  <2> PICK m : m = Method(c, i).name
    OBVIOUS
  <2>1. m \in 1 .. LastName
    BY <1>1, ClassType
  <2>2. ToRefuse(c, m)
    BY <1>4 DEF ToRefuse
  <2>3. Refused(c, m)
    BY <1>2, <2>1, <2>2
  <2>4. PICK f \in refused : funcs[f].class = c /\ funcs[f].name = m
    BY <2>3 DEF Refused
  <2> QED
    BY <2>4
<1>5. ASSUME NEW x
      PROVE  x \in {<<funcs[f].class, funcs[f].name>> : f \in refused} <=>
             x \in UNION {{<<c, Method(c, i).name>> : i \in {j \in DOMAIN Class(c).methods :
                   ~Method(c, j).override /\ (Redefines(c, Method(c, j).name) \/ CalledBefore(c, j))}} : c \in Names}
  <2>1. x \in {<<funcs[f].class, funcs[f].name>> : f \in refused} <=>
        \E f \in refused : x = <<funcs[f].class, funcs[f].name>>
    OBVIOUS
  <2>2. x \in UNION {{<<c, Method(c, i).name>> : i \in {j \in DOMAIN Class(c).methods :
              ~Method(c, j).override /\ (Redefines(c, Method(c, j).name) \/ CalledBefore(c, j))}} : c \in Names} <=>
        \E c \in Names : \E i \in DOMAIN Class(c).methods :
          /\ x = <<c, Method(c, i).name>>
          /\ ~Method(c, i).override /\ (Redefines(c, Method(c, i).name) \/ CalledBefore(c, i))
    OBVIOUS
  <2> QED
    BY <1>3, <1>4, <2>1, <2>2
<1> QED
  BY <1>5

\* From which methods have a function while the classes are generated, or two, to which of them
\* were refused when their classes were checked.
THEOREM RefusalsInvariance == Spec => []Refusals
<1>1. Init => Refusals
  BY InitRefusals
<1>2. IInv /\ Refusals /\ [Next]_vars => Refusals'
  BY RefusalsStep
<1> QED
  BY <1>1, <1>2, Invariance, PTL DEF Spec

\* fixTypes (TypeChecker.cc) refuses the methods that redefine one without override, and those that
\* a method before them leads to a call of, and no others.
THEOREM RefusalsAreExact == Spec => []RefusesExactly
<1>1. IInv /\ Refusals => RefusesExactly
  BY RefusalsEnd
<1> QED
  BY <1>1, Invariance, RefusalsInvariance, PTL

-----------------------------------------------------------------------------
(* Where FixedTable puts the functions *)

\* A table in the order of the names, and a function that is numbered with the place of its name.
Sorted(t) == \A j, k \in DOMAIN t : j < k => funcs[t[j]].name < funcs[t[k]].name
Numbered(r, f) == r.index[f] + 1 \in DOMAIN r.table /\ funcs[r.table[r.index[f] + 1]].name = funcs[f].name

\* What is there stays at its place, but for its name's last function.
Extends(t, u, f) ==
  /\ \A j \in DOMAIN t : j \in DOMAIN u /\ funcs[u[j]].name = funcs[t[j]].name /\ (u[j] = t[j] \/ u[j] = f)
  /\ \A j \in DOMAIN u : j \in DOMAIN t \/ u[j] = f

NumbersForNames == \A g \in DOMAIN funcs : funcs[g].name \in Nat
PlaceFor(a, f) ==
  funcs[f].name \in NamesIn(a.table) \/ (a.at = Len(a.table) /\ \A n \in NamesIn(a.table) : n < funcs[f].name)
PutInto(a, r, f) ==
  /\ r \in Working /\ Sorted(r.table) /\ Extends(a.table, r.table, f)
  /\ r.at \in DOMAIN r.table /\ r.table[r.at] = f /\ r.index[f] = r.at - 1
  /\ \A g \in DOMAIN funcs : g # f => r.index[g] = a.index[g]

\* Placing a function keeps the order, when it is new and behind the others, or not new.
LEMMA PlacedRight ==
  ASSUME NEW c, NEW acc \in Working, NEW f \in DOMAIN funcs, NumbersForNames, Sorted(acc.table), PlaceFor(acc, f),
         NEW r, r = Placed(c, acc, f)
  PROVE  PutInto(acc, r, f)
<1> DEFINE t == acc.table
           Same == {i \in 1..Len(t) : funcs[t[i]].name = funcs[f].name}
           k == IF Same # {} THEN Min(Same) ELSE 0
<1>1. r = IF k = 0
          THEN [acc EXCEPT !.table = Append(@, f), !.index[f] = acc.at, !.at = @ + 1]
          ELSE [acc EXCEPT !.table[k] = f, !.index[f] = k - 1, !.at = k,
                           !.refused = IF ~funcs[f].override /\ funcs[f].class = c THEN @ \cup {f} ELSE @]
  BY Zenon DEF Placed, SelectInSeq
<1>2. t \in Seq(DOMAIN funcs) /\ Len(t) \in Nat /\ DOMAIN t = 1..Len(t) /\ \A j \in 1..Len(t) : t[j] \in DOMAIN funcs
  BY DEF Working
<1>3. (k \in Same) <=> Same # {}
  <2>1. Same \in SUBSET Nat /\ 0 \notin Same
    BY <1>2
  <2> HIDE DEF Same
  <2> QED
    BY <2>1, SelectIs
<1>4. Same # {} <=> funcs[f].name \in NamesIn(t)
  BY <1>2 DEF NamesIn
<1>5. k \in Same => k \in 1..Len(t) /\ funcs[t[k]].name = funcs[f].name
  OBVIOUS
<1>6. Same = {} => k = 0
  OBVIOUS
<1>7. r \in Working
  BY PlacedIs
<1>8. Sorted(t)
  OBVIOUS
<1> HIDE DEF k, Same, t
<1>9. CASE Same = {}
  <2>1. r = [acc EXCEPT !.table = Append(@, f), !.index[f] = acc.at, !.at = @ + 1]
    BY <1>1, <1>6, <1>9
  <2> DEFINE s == Append(t, f)
  <2>s. /\ DOMAIN s = 1..(Len(t) + 1) /\ Len(t) + 1 \in DOMAIN s
        /\ s[Len(t) + 1] = f /\ \A j \in 1..Len(t) : j \in DOMAIN s /\ s[j] = t[j]
        /\ \A j \in DOMAIN s : j \in 1..Len(t) \/ j = Len(t) + 1
    BY <1>2
  <2> HIDE DEF s
  <2>r. r = [table |-> s, index |-> [acc.index EXCEPT ![f] = acc.at], at |-> acc.at + 1, refused |-> acc.refused]
    BY <2>1 DEF Working, t, s
  <2>2. r.table = s /\ r.at = acc.at + 1 /\ r.index = [acc.index EXCEPT ![f] = acc.at]
    BY <2>r
  <2>3. acc.index \in [DOMAIN funcs -> Nat] /\ acc.at \in Nat
    BY DEF Working
  <2>4. r.index[f] = acc.at /\ \A g \in DOMAIN funcs : g # f => r.index[g] = acc.index[g]
    BY <2>2, <2>3
  <2>5. acc.at = Len(t) /\ \A n \in NamesIn(t) : n < funcs[f].name
    BY <1>4, <1>9 DEF t, PlaceFor
  <2>6. \A j \in 1..Len(t) : funcs[t[j]].name < funcs[f].name
    BY <1>2, <2>5 DEF NamesIn
  <2>7. Sorted(s)
    <3> SUFFICES ASSUME NEW j \in DOMAIN s, NEW m \in DOMAIN s, j < m PROVE funcs[s[j]].name < funcs[s[m]].name
      BY DEF Sorted
    <3>1. j \in 1..Len(t) /\ s[j] = t[j]
      BY <1>2, <2>s
    <3>2. CASE m = Len(t) + 1
      BY <2>s, <2>6, <3>1, <3>2
    <3>3. CASE m \in 1..Len(t)
      BY <1>2, <1>8, <2>s, <3>1, <3>3 DEF Sorted
    <3> QED
      BY <2>s, <3>2, <3>3
  <2>8. Extends(t, s, f)
    BY <1>2, <2>s DEF Extends
  <2>9. r.at \in DOMAIN s /\ s[r.at] = f /\ r.index[f] = r.at - 1
    BY <1>2, <2>s, <2>2, <2>3, <2>4, <2>5
  <2> QED
    BY <1>7, <2>2, <2>4, <2>7, <2>8, <2>9 DEF t, PutInto
<1>10. CASE Same # {}
  <2>1. k \in 1..Len(t) /\ funcs[t[k]].name = funcs[f].name /\ k # 0
    BY <1>2, <1>3, <1>5, <1>10
  <2>2. r = [acc EXCEPT !.table[k] = f, !.index[f] = k - 1, !.at = k,
                        !.refused = IF ~funcs[f].override /\ funcs[f].class = c THEN @ \cup {f} ELSE @]
    BY <1>1, <2>1
  <2> DEFINE more == IF ~funcs[f].override /\ funcs[f].class = c THEN acc.refused \cup {f} ELSE acc.refused
             s == [t EXCEPT ![k] = f]
  <2>r. r = [table |-> s, index |-> [acc.index EXCEPT ![f] = k - 1], at |-> k, refused |-> more]
    BY <2>2 DEF Working, t
  <2>s. DOMAIN s = 1..Len(t) /\ s[k] = f /\ \A j \in 1..Len(t) : j # k => s[j] = t[j]
    BY <1>2, <2>1
  <2> HIDE DEF more, s
  <2>3. r.table = s /\ r.at = k /\ r.index = [acc.index EXCEPT ![f] = k - 1]
    BY <2>r
  <2>4. acc.index \in [DOMAIN funcs -> Nat]
    BY DEF Working
  <2>5. r.index[f] = k - 1 /\ \A g \in DOMAIN funcs : g # f => r.index[g] = acc.index[g]
    BY <2>3, <2>4
  <2>6. \A j \in 1..Len(t) : funcs[s[j]].name = funcs[t[j]].name
    BY <2>1, <2>s
  <2>7. Sorted(s)
    BY <1>2, <1>8, <2>s, <2>6 DEF Sorted
  <2>8. Extends(t, s, f)
    BY <1>2, <2>s, <2>6 DEF Extends
  <2> QED
    BY <1>7, <2>1, <2>s, <2>3, <2>5, <2>7, <2>8 DEF t, PutInto
<1> QED
  BY <1>9, <1>10

\* What Listed works through, function by function.
LEMMA ListedSteps ==
  ASSUME NEW c, NEW acc \in Working, NEW list \in Seq(DOMAIN funcs)
  PROVE  \E w : /\ w[0] = [acc EXCEPT !.at = 0] /\ Listed(c, acc, list) = w[Len(list)]
                /\ \A j \in 1..Len(list) : w[j] = Placed(c, w[j - 1], list[j])
<1> DEFINE N == Len(list)
           base == [acc EXCEPT !.at = 0]
           Is(f) == f = [j \in 0..N |-> IF j = 0 THEN [acc EXCEPT !.at = 0] ELSE Placed(c, f[j - 1], list[j])]
           whole == CHOOSE f : Is(f)
<1>1. Listed(c, acc, list) = whole[N]
  BY Zenon DEF Listed
<1>2. N \in Nat /\ DOMAIN list = 1..N /\ \A j \in 1..N : list[j] \in DOMAIN funcs
  OBVIOUS
<1>3. base \in Working /\ base.table = acc.table /\ base.refused = acc.refused
  BY DEF Working
<1>4. \E f : Is(f)
  <2> DEFINE step == [j \in 1..N |-> [a \in Working |-> Placed(c, a, list[j])]]
  <2>1. \A j \in 1..N : \A a \in Working : Placed(c, a, list[j]) \in Working
    BY <1>2, PlacedIs
  <2>2. step \in [1..N -> [Working -> Working]]
    BY <2>1
  <2> HIDE DEF step, base
  <2>3. PICK f : Follows(f, N, Working, base, step)
    BY <1>2, <1>3, <2>2, Recursion
  <2>4. ASSUME NEW j \in 1..N PROVE f[j] = Placed(c, f[j - 1], list[j])
    <3>1. j - 1 \in 0..N
      BY <1>2
    <3>2. f[j - 1] \in Working /\ f[j] = step[j][f[j - 1]]
      BY <2>3, <3>1 DEF Follows
    <3> QED
      BY <3>2 DEF step
  <2>5. f[0] = base /\ f = [j \in 0..N |-> f[j]]
    BY <2>3 DEF Follows
  <2>6. \A j \in 0..N : j = 0 \/ j \in 1..N
    BY <1>2
  <2>7. \A j \in 0..N : f[j] = IF j = 0 THEN base ELSE Placed(c, f[j - 1], list[j])
    BY <2>4, <2>5, <2>6, Zenon
  <2>8. f = [j \in 0..N |-> IF j = 0 THEN base ELSE Placed(c, f[j - 1], list[j])]
    BY <2>5, <2>7, Zenon
  <2> QED
    BY <2>8, Zenon DEF base
<1>5. Is(whole)
  BY <1>4, Zenon
<1> HIDE DEF whole
<1>6. whole[0] = base /\ \A j \in 1..N : whole[j] = Placed(c, whole[j - 1], list[j])
  BY <1>2, <1>5
<1> QED
  BY <1>1, <1>6, Zenon

\* And what FixedTable works through, list by list.
LEMMA FixedSteps ==
  ASSUME NEW c, NEW lists \in Seq(Seq(DOMAIN funcs)), \A f \in DOMAIN funcs : funcs[f].index \in Nat
  PROVE  \E w : /\ w[0] = Empty /\ FixedTable(c, lists) = w[Len(lists)]
                /\ \A i \in 1..Len(lists) : w[i] = Listed(c, w[i - 1], lists[i])
<1> DEFINE N == Len(lists)
           Is(f) == f = [i \in 0..N |-> IF i = 0 THEN Empty ELSE Listed(c, f[i - 1], lists[i])]
           whole == CHOOSE f : Is(f)
<1>1. FixedTable(c, lists) = whole[N]
  BY Zenon DEF FixedTable
<1>2. N \in Nat /\ \A i \in 1..N : lists[i] \in Seq(DOMAIN funcs)
  OBVIOUS
<1>3. Empty \in Working
  BY DEF Working, Empty
<1>4. \E f : Is(f)
  <2> DEFINE step == [i \in 1..N |-> [a \in Working |-> Listed(c, a, lists[i])]]
  <2>1. \A i \in 1..N : \A a \in Working : Listed(c, a, lists[i]) \in Working
    BY <1>2, ListedIs
  <2>2. step \in [1..N -> [Working -> Working]]
    BY <2>1
  <2> HIDE DEF step
  <2>3. PICK f : Follows(f, N, Working, Empty, step)
    BY <1>2, <1>3, <2>2, Recursion
  <2>4. ASSUME NEW i \in 1..N PROVE f[i] = Listed(c, f[i - 1], lists[i])
    <3>1. i - 1 \in 0..N
      BY <1>2
    <3>2. f[i - 1] \in Working /\ f[i] = step[i][f[i - 1]]
      BY <2>3, <3>1 DEF Follows
    <3> QED
      BY <3>2 DEF step
  <2>5. f[0] = Empty /\ f = [i \in 0..N |-> f[i]]
    BY <2>3 DEF Follows
  <2>6. \A i \in 0..N : i = 0 \/ i \in 1..N
    BY <1>2
  <2>7. \A i \in 0..N : f[i] = IF i = 0 THEN Empty ELSE Listed(c, f[i - 1], lists[i])
    BY <2>4, <2>5, <2>6, Zenon
  <2>8. f = [i \in 0..N |-> IF i = 0 THEN Empty ELSE Listed(c, f[i - 1], lists[i])]
    BY <2>5, <2>7, Zenon
  <2> QED
    BY <2>8, Zenon
<1>5. Is(whole)
  BY <1>4, Zenon
<1> HIDE DEF whole
<1>6. whole[0] = Empty /\ \A i \in 1..N : whole[i] = Listed(c, whole[i - 1], lists[i])
  <2>1. 0 \in 0..N /\ \A i \in 1..N : i \in 0..N /\ i # 0
    BY <1>2
  <2>2. \A i \in 0..N : whole[i] = IF i = 0 THEN Empty ELSE Listed(c, whole[i - 1], lists[i])
    BY <1>5, Zenon
  <2> QED
    BY <2>1, <2>2, Zenon
<1> QED
  BY <1>1, <1>6, Zenon

\* A function's name is there before, or it is new and behind all, the last of which was placed just before.
Fits(names, list, i) ==
  \/ funcs[list[i]].name \in names
  \/ \E m \in 1..(i - 1) : funcs[list[m]].name = funcs[list[i]].name
  \/ /\ \A n \in names : n < funcs[list[i]].name /\ i > 1 /\ n <= funcs[list[i - 1]].name
     /\ \A m \in 1..(i - 1) : /\ funcs[list[m]].name < funcs[list[i]].name
                              /\ funcs[list[m]].name <= funcs[list[i - 1]].name

\* e is the last of its name among the first i of a list.
Put(list, i, e) == \E m \in 1..i : e = list[m] /\ \A k \in (m + 1)..i : funcs[list[k]].name # funcs[e].name

\* What was reached when i functions of a list were placed.
Reached(acc, list, a, i) ==
  /\ a \in Working /\ Sorted(a.table)
  /\ \A n : n \in NamesIn(a.table) <=> n \in NamesIn(acc.table) \/ \E m \in 1..i : n = funcs[list[m]].name
  /\ \A j \in DOMAIN acc.table : j \in DOMAIN a.table /\ funcs[a.table[j]].name = funcs[acc.table[j]].name
  /\ \A m \in 1..i : Numbered(a, list[m])
  /\ \A g \in DOMAIN funcs : (\A m \in 1..i : list[m] # g) => a.index[g] = acc.index[g]
  /\ \A j \in DOMAIN a.table :
        \/ Put(list, i, a.table[j])
        \/ /\ j \in DOMAIN acc.table /\ a.table[j] = acc.table[j]
           /\ \A m \in 1..i : funcs[list[m]].name # funcs[a.table[j]].name
  /\ i = 0 => a.at = 0
  /\ i > 0 => a.at \in DOMAIN a.table /\ a.table[a.at] = list[i]

\* The place after the last is where the numbers are when a new function comes.
LEMMA AtTheEnd ==
  ASSUME NEW acc \in Working, NEW list \in Seq(DOMAIN funcs), NumbersForNames,
         NEW i \in Nat, i + 1 \in 1..Len(list), NEW a, Reached(acc, list, a, i), Fits(NamesIn(acc.table), list, i + 1)
  PROVE  \/ funcs[list[i + 1]].name \in NamesIn(a.table)
         \/ a.at = Len(a.table) /\ \A n \in NamesIn(a.table) : n < funcs[list[i + 1]].name
<1>1. PICK t : t = a.table
  OBVIOUS
<1>2. t \in Seq(DOMAIN funcs) /\ Len(t) \in Nat /\ DOMAIN t = 1..Len(t) /\ a.at \in Nat
  BY <1>1 DEF Reached, Working
<1>3. \A n : n \in NamesIn(t) <=> n \in NamesIn(acc.table) \/ \E m \in 1..i : n = funcs[list[m]].name
  BY <1>1 DEF Reached
<1>4. PICK f : f = list[i + 1]
  OBVIOUS
<1>5. (i + 1) - 1 = i
  OBVIOUS
<1>6. \/ funcs[f].name \in NamesIn(acc.table)
      \/ \E m \in 1..i : funcs[list[m]].name = funcs[f].name
      \/ /\ \A n \in NamesIn(acc.table) : n < funcs[f].name /\ i + 1 > 1 /\ n <= funcs[list[i]].name
         /\ \A m \in 1..i : funcs[list[m]].name < funcs[f].name /\ funcs[list[m]].name <= funcs[list[i]].name
  BY <1>4, <1>5 DEF Fits
<1>7. SUFFICES ASSUME funcs[f].name \notin NamesIn(t)
               PROVE  a.at = Len(t) /\ \A n \in NamesIn(t) : n < funcs[f].name
  BY <1>1, <1>4
<1>8. /\ \A n \in NamesIn(acc.table) : n < funcs[f].name /\ i + 1 > 1 /\ n <= funcs[list[i]].name
      /\ \A m \in 1..i : funcs[list[m]].name < funcs[f].name /\ funcs[list[m]].name <= funcs[list[i]].name
  <2>1. funcs[f].name \notin NamesIn(acc.table)
    BY <1>3, <1>7
  <2>2. ~\E m \in 1..i : funcs[list[m]].name = funcs[f].name
    BY <1>3, <1>7
  <2> QED
    BY <1>6, <2>1, <2>2, Zenon
<1>9. \A n \in NamesIn(t) : n < funcs[f].name
  BY <1>3, <1>8
<1>10. a.at = Len(t)
  <2>1. CASE i = 0
    <3>1. \A n : n \notin NamesIn(acc.table)
      BY <1>8, <2>1
    <3>2. \A n : n \notin NamesIn(t)
      BY <1>3, <2>1, <3>1
    <3>3. Len(t) = 0
      <4>1. SUFFICES ASSUME Len(t) # 0 PROVE FALSE
        OBVIOUS
      <4>2. 1 \in DOMAIN t
        BY <1>2, <4>1
      <4> QED
        BY <3>2, <4>2 DEF NamesIn
    <3> QED
      BY <2>1, <3>3 DEF Reached
  <2>2. CASE i > 0
    <3>1. a.at \in 1..Len(t) /\ t[a.at] = list[i]
      BY <1>1, <1>2, <2>2 DEF Reached
    <3>2. \A n \in NamesIn(t) : n <= funcs[list[i]].name
      BY <1>3, <1>8
    <3>3. Len(t) \in 1..Len(t)
      BY <1>2, <3>1
    <3>4. funcs[t[Len(t)]].name \in NamesIn(t)
      BY <1>2, <3>3 DEF NamesIn
    <3>5. funcs[t[Len(t)]].name <= funcs[t[a.at]].name
      BY <3>1, <3>2, <3>4
    <3>6. a.at < Len(t) => funcs[t[a.at]].name < funcs[t[Len(t)]].name
      BY <1>1, <1>2, <3>1, <3>3 DEF Reached, Sorted
    <3>7. funcs[t[Len(t)]].name \in Nat /\ funcs[t[a.at]].name \in Nat
      BY <1>2, <3>1, <3>3 DEF NumbersForNames
    <3> QED
      BY <1>2, <3>1, <3>5, <3>6, <3>7
  <2> QED
    BY <2>1, <2>2
<1> QED
  BY <1>9, <1>10

\* One function more.
LEMMA ReachedStep ==
  ASSUME NEW c, NEW acc \in Working, NEW list \in Seq(DOMAIN funcs), NumbersForNames,
         NEW i \in Nat, NEW j, j = i + 1, j \in 1..Len(list), NEW a, Reached(acc, list, a, i),
         Fits(NamesIn(acc.table), list, j),
         NEW r, r = Placed(c, a, list[j])
  PROVE  Reached(acc, list, r, j)
<1>1. PICK f \in DOMAIN funcs : f = list[j]
  OBVIOUS
<1>2. a \in Working /\ Sorted(a.table)
  BY DEF Reached
<1>3. funcs[f].name \in NamesIn(a.table) \/ (a.at = Len(a.table) /\ \A n \in NamesIn(a.table) : n < funcs[f].name)
  BY <1>1, AtTheEnd
<1>4. /\ r \in Working /\ Sorted(r.table) /\ Extends(a.table, r.table, f)
      /\ r.at \in DOMAIN r.table /\ r.table[r.at] = f /\ r.index[f] = r.at - 1
      /\ \A g \in DOMAIN funcs : g # f => r.index[g] = a.index[g]
  <2>1. PICK b \in Working : b = a
    BY <1>2
  <2>2. r = Placed(c, b, f)
    BY <1>1, <2>1
  <2>3. Sorted(b.table) /\ PlaceFor(b, f)
    BY <1>2, <1>3, <2>1 DEF PlaceFor
  <2>4. PutInto(b, r, f)
    BY <2>2, <2>3, PlacedRight
  <2> QED
    BY <2>1, <2>4 DEF PutInto
<1>5. \A n : n \in NamesIn(r.table) <=> n \in NamesIn(a.table) \/ n = funcs[f].name
  <2>1. PICK b \in Working : b = a
    BY <1>2
  <2>2. r = Placed(c, b, f)
    BY <1>1, <2>1
  <2>3. \A n : n \in NamesIn(Placed(c, b, f).table) <=> n \in NamesIn(b.table) \/ n = funcs[f].name
    BY PlacedIs
  <2> QED
    BY <2>1, <2>2, <2>3, Zenon
<1>6. \A m : m \in 1..j <=> m \in 1..i \/ m = j
  OBVIOUS
<1>7. \A n : n \in NamesIn(r.table) <=> n \in NamesIn(acc.table) \/ \E m \in 1..j : n = funcs[list[m]].name
  <2>1. \A n : n \in NamesIn(a.table) <=> n \in NamesIn(acc.table) \/ \E m \in 1..i : n = funcs[list[m]].name
    BY DEF Reached
  <2> QED
    BY <1>1, <1>5, <1>6, <2>1, Zenon
<1>8. \A k \in DOMAIN acc.table : k \in DOMAIN r.table /\ funcs[r.table[k]].name = funcs[acc.table[k]].name
  BY <1>4 DEF Reached, Extends
<1>9. DOMAIN r.table = 1..Len(r.table) /\ Len(r.table) \in Nat /\ r.index \in [DOMAIN funcs -> Nat] /\ a.index \in [DOMAIN funcs -> Nat]
  <2>1. \A b \in Working : b.table \in Seq(DOMAIN funcs) /\ b.index \in [DOMAIN funcs -> Nat]
    BY DEF Working
  <2>2. r.table \in Seq(DOMAIN funcs) /\ r.index \in [DOMAIN funcs -> Nat] /\ a.index \in [DOMAIN funcs -> Nat]
    BY <1>2, <1>4, <2>1
  <2> QED
    BY <2>2
<1>10. Numbered(r, f)
  <2>1. r.index[f] + 1 = r.at
    BY <1>4, <1>9
  <2> QED
    BY <1>4, <2>1 DEF Numbered
<1>11. ASSUME NEW m \in 1..j PROVE Numbered(r, list[m])
  <2>1. PICK g \in DOMAIN funcs : g = list[m]
    OBVIOUS
  <2>2. CASE g = f
    BY <1>10, <2>1, <2>2
  <2>3. CASE g # f
    <3>1. Numbered(a, g)
      BY <1>1, <1>6, <2>1, <2>3 DEF Reached
    <3>2. r.index[g] = a.index[g]
      BY <1>4, <2>3
    <3> QED
      BY <1>4, <2>1, <3>1, <3>2 DEF Numbered, Extends
  <2> QED
    BY <2>2, <2>3
<1>12. ASSUME NEW g \in DOMAIN funcs, \A m \in 1..j : list[m] # g PROVE r.index[g] = acc.index[g]
  <2>1. g # f /\ \A m \in 1..i : list[m] # g
    BY <1>1, <1>6, <1>12
  <2> QED
    BY <1>4, <2>1 DEF Reached
<1>13. ASSUME NEW k \in DOMAIN r.table
       PROVE  \/ Put(list, j, r.table[k])
              \/ /\ k \in DOMAIN acc.table /\ r.table[k] = acc.table[k]
                 /\ \A m \in 1..j : funcs[list[m]].name # funcs[r.table[k]].name
  <2>1. CASE r.table[k] = f
    <3>1. j \in 1..j /\ \A m \in (j + 1)..j : FALSE
      OBVIOUS
    <3> QED
      BY <1>1, <2>1, <3>1 DEF Put
  <2>2. CASE r.table[k] # f
    <3>1. k \in DOMAIN a.table /\ r.table[k] = a.table[k]
      BY <1>4, <2>2 DEF Extends
    <3>2. funcs[r.table[k]].name # funcs[f].name
      <4>1. PICK u : u = r.table
        OBVIOUS
      <4>2. r.at \in DOMAIN u /\ k \in DOMAIN u /\ u[r.at] = f /\ k # r.at /\ Sorted(u)
        BY <1>4, <2>2, <4>1
      <4>3. r.at \in 1..Len(u) /\ k \in 1..Len(u) /\ u[k] \in DOMAIN funcs
        BY <1>4, <1>9, <4>1, <4>2 DEF Working
      <4>4. r.at < k \/ k < r.at
        BY <4>2, <4>3
      <4>5. funcs[u[k]].name < funcs[f].name \/ funcs[f].name < funcs[u[k]].name
        BY <4>2, <4>4 DEF Sorted
      <4>6. funcs[u[k]].name \in Nat /\ funcs[f].name \in Nat
        BY <4>3 DEF NumbersForNames
      <4> QED
        BY <4>1, <4>5, <4>6
    <3>3. CASE Put(list, i, a.table[k])
      <4>1. PICK m \in 1..i : a.table[k] = list[m] /\ \A p \in (m + 1)..i : funcs[list[p]].name # funcs[a.table[k]].name
        BY <3>3 DEF Put
      <4>2. \A p \in (m + 1)..j : p \in (m + 1)..i \/ p = j
        OBVIOUS
      <4>3. \A p \in (m + 1)..j : funcs[list[p]].name # funcs[r.table[k]].name
        BY <1>1, <3>1, <3>2, <4>1, <4>2
      <4>4. m \in 1..j
        OBVIOUS
      <4> QED
        BY <3>1, <4>1, <4>3, <4>4 DEF Put
    <3>4. CASE k \in DOMAIN acc.table /\ a.table[k] = acc.table[k] /\ \A m \in 1..i : funcs[list[m]].name # funcs[a.table[k]].name
      BY <1>1, <1>6, <3>1, <3>2, <3>4
    <3> QED
      BY <3>1, <3>3, <3>4 DEF Reached
  <2> QED
    BY <2>1, <2>2
<1>14. j > 0 /\ j # 0
  OBVIOUS
<1> QED
  BY <1>1, <1>4, <1>7, <1>8, <1>11, <1>12, <1>13, <1>14 DEF Reached

\* A whole list.
LEMMA ListedRight ==
  ASSUME NEW c, NEW acc \in Working, NEW list \in Seq(DOMAIN funcs), NumbersForNames,
         Sorted(acc.table), \A i \in 1..Len(list) : Fits(NamesIn(acc.table), list, i),
         NEW r, r = Listed(c, acc, list)
  PROVE  Reached(acc, list, r, Len(list))
<1>1. PICK w : /\ w[0] = [acc EXCEPT !.at = 0] /\ Listed(c, acc, list) = w[Len(list)]
               /\ \A j \in 1..Len(list) : w[j] = Placed(c, w[j - 1], list[j])
  BY ListedSteps
<1>2. PICK N \in Nat : N = Len(list)
  OBVIOUS
<1>3. PICK Good : Good = {j \in 0..N : Reached(acc, list, w[j], j)}
  OBVIOUS
<1>4. 0 \in Good
  <2>1. PICK a : a = w[0]
    OBVIOUS
  <2>2. a \in Working /\ a.table = acc.table /\ a.at = 0 /\ a.index = acc.index
    <3>1. a = [acc EXCEPT !.at = 0]
      BY <1>1, <2>1
    <3>2. a = [table |-> acc.table, index |-> acc.index, at |-> 0, refused |-> acc.refused]
      BY <3>1 DEF Working
    <3>3. acc.table \in Seq(DOMAIN funcs) /\ acc.index \in [DOMAIN funcs -> Nat] /\ acc.refused \in SUBSET DOMAIN funcs
      BY DEF Working
    <3> QED
      BY <3>2, <3>3 DEF Working
  <2>3. \A m \in 1..0 : FALSE
    OBVIOUS
  <2>4. Reached(acc, list, a, 0)
    BY <2>2, <2>3 DEF Reached
  <2> QED
    BY <1>3, <2>1, <2>4
<1>5. ASSUME NEW j \in 1..N, j - 1 \in Good PROVE j \in Good
  <2>1. PICK i \in Nat : i = j - 1 /\ j = i + 1
    OBVIOUS
  <2>2. Reached(acc, list, w[i], i)
    BY <1>3, <1>5, <2>1
  <2>3. w[j] = Placed(c, w[i], list[j]) /\ Fits(NamesIn(acc.table), list, j) /\ j \in 1..Len(list)
    BY <1>1, <1>2, <2>1
  <2>4. Reached(acc, list, w[j], j)
    BY <2>1, <2>2, <2>3, ReachedStep
  <2> QED
    BY <1>3, <2>4
<1>6. Good \in SUBSET (0..N) /\ N \in 0..N
  BY <1>3
<1>7. N \in Good
  BY <1>4, <1>5, <1>6, UpTo
<1> QED
  BY <1>1, <1>2, <1>3, <1>7

\* The names in the first i lists, and what was reached with them.
NamesOf(lists, i) == UNION {NamesIn(lists[k]) : k \in 1..i}
Worked(lists, a, i) ==
  /\ a \in Working /\ Sorted(a.table) /\ NamesIn(a.table) = NamesOf(lists, i)
  /\ \A k \in 1..i : \A m \in DOMAIN lists[k] : Numbered(a, lists[k][m])
  /\ \A g \in DOMAIN funcs : (\A k \in 1..i : \A m \in DOMAIN lists[k] : lists[k][m] # g) => a.index[g] = funcs[g].index
  /\ \A j \in DOMAIN a.table : i > 0 /\ funcs[a.table[j]].name \in NamesIn(lists[i]) => Put(lists[i], Len(lists[i]), a.table[j])

\* One list more.
LEMMA WorkedStep ==
  ASSUME NEW c, NEW lists \in Seq(Seq(DOMAIN funcs)), NumbersForNames,
         NEW i \in Nat, NEW j, j = i + 1, j \in 1..Len(lists), NEW a, Worked(lists, a, i),
         \A m \in 1..Len(lists[j]) : Fits(NamesOf(lists, i), lists[j], m),
         NEW r, r = Listed(c, a, lists[j])
  PROVE  Worked(lists, r, j)
<1>1. PICK list \in Seq(DOMAIN funcs) : list = lists[j]
  OBVIOUS
<1>2. PICK N \in Nat : N = Len(list) /\ DOMAIN list = 1..N
  OBVIOUS
<1>3. Reached(a, list, r, N)
  <2>1. PICK b \in Working : b = a
    BY DEF Worked
  <2>2. Sorted(b.table) /\ NamesIn(b.table) = NamesOf(lists, i) /\ r = Listed(c, b, list)
    BY <1>1, <2>1 DEF Worked
  <2>3. \A m \in 1..Len(list) : Fits(NamesIn(b.table), list, m)
    BY <1>1, <2>2
  <2>4. Reached(b, list, r, Len(list))
    BY <2>2, <2>3, ListedRight
  <2> QED
    BY <1>2, <2>1, <2>4
<1>n. \A n : n \in NamesIn(r.table) <=> n \in NamesIn(a.table) \/ \E m \in 1..N : n = funcs[list[m]].name
  BY <1>3, Zenon DEF Reached
<1>k. \A k \in DOMAIN a.table : k \in DOMAIN r.table /\ funcs[r.table[k]].name = funcs[a.table[k]].name
  BY <1>3, Zenon DEF Reached
<1>p. \A k \in DOMAIN r.table :
        \/ Put(list, N, r.table[k])
        \/ /\ k \in DOMAIN a.table /\ r.table[k] = a.table[k]
           /\ \A m \in 1..N : funcs[list[m]].name # funcs[r.table[k]].name
  BY <1>3, Zenon DEF Reached
<1>4. r \in Working /\ Sorted(r.table)
  BY <1>3 DEF Reached
<1>5. \A k : k \in 1..j <=> k \in 1..i \/ k = j
  OBVIOUS
<1>6. \A n : n \in NamesIn(list) <=> \E m \in 1..N : n = funcs[list[m]].name
  BY <1>2 DEF NamesIn
<1>7. NamesIn(r.table) = NamesOf(lists, j)
  <2>1. \A n : n \in NamesIn(r.table) <=> n \in NamesIn(a.table) \/ n \in NamesIn(list)
    BY <1>n, <1>6, Zenon
  <2>2. \A n : n \in NamesOf(lists, j) <=> n \in NamesOf(lists, i) \/ n \in NamesIn(lists[j])
    BY <1>5 DEF NamesOf
  <2>3. NamesIn(a.table) = NamesOf(lists, i)
    BY DEF Worked
  <2>4. \A n : n \in NamesIn(r.table) <=> n \in NamesOf(lists, j)
    BY <1>1, <2>1, <2>2, <2>3
  <2> QED
    BY <2>4
<1>8. \A m \in 1..N : Numbered(r, list[m])
  BY <1>3 DEF Reached
<1>9. ASSUME NEW k \in 1..j, NEW m \in DOMAIN lists[k] PROVE Numbered(r, lists[k][m])
  <2>1. PICK g : g = lists[k][m]
    OBVIOUS
  <2>2. CASE \E p \in 1..N : list[p] = g
    BY <1>8, <2>1, <2>2
  <2>3. CASE \A p \in 1..N : list[p] # g
    <3>1. k \in 1..i
      BY <1>1, <1>2, <1>5, <2>1, <2>3
    <3>2. Numbered(a, g)
      BY <2>1, <3>1 DEF Worked
    <3>3. g \in DOMAIN funcs
      <4>1. k \in 1..Len(lists)
        BY <3>1
      <4>2. lists[k] \in Seq(DOMAIN funcs)
        BY <4>1
      <4> QED
        BY <2>1, <4>2
    <3>4. r.index[g] = a.index[g]
      BY <1>3, <2>3, <3>3 DEF Reached
    <3> QED
      BY <1>k, <2>1, <3>2, <3>4 DEF Numbered
  <2> QED
    BY <2>2, <2>3
<1>10. ASSUME NEW g \in DOMAIN funcs, \A k \in 1..j : \A m \in DOMAIN lists[k] : lists[k][m] # g
       PROVE  r.index[g] = funcs[g].index
  <2>1. a.index[g] = funcs[g].index
    BY <1>5, <1>10 DEF Worked
  <2>2. \A m \in 1..N : list[m] # g
    BY <1>1, <1>2, <1>5, <1>10
  <2> QED
    BY <1>3, <2>1, <2>2 DEF Reached
<1>11. ASSUME NEW k \in DOMAIN r.table, funcs[r.table[k]].name \in NamesIn(list) PROVE Put(list, N, r.table[k])
  <2>1. PICK m \in 1..N : funcs[r.table[k]].name = funcs[list[m]].name
    BY <1>6, <1>11, Zenon
  <2>2. ~\A q \in 1..N : funcs[list[q]].name # funcs[r.table[k]].name
    BY <2>1
  <2> QED
    BY <1>p, <2>2, Zenon
<1> QED
  BY <1>1, <1>2, <1>4, <1>7, <1>9, <1>10, <1>11 DEF Worked

\* When every function finds its name or comes behind all the others, so does the table.
LEMMA FixedRight ==
  ASSUME NEW c, NEW lists \in Seq(Seq(DOMAIN funcs)), NumbersForNames, \A f \in DOMAIN funcs : funcs[f].index \in Nat,
         \A i \in Nat : i + 1 \in 1..Len(lists) => \A m \in 1..Len(lists[i + 1]) : Fits(NamesOf(lists, i), lists[i + 1], m)
  PROVE  Worked(lists, FixedTable(c, lists), Len(lists))
<1>1. PICK w : /\ w[0] = Empty /\ FixedTable(c, lists) = w[Len(lists)]
               /\ \A i \in 1..Len(lists) : w[i] = Listed(c, w[i - 1], lists[i])
  BY FixedSteps
<1>2. PICK N \in Nat : N = Len(lists)
  OBVIOUS
<1>3. PICK Good : Good = {i \in 0..N : Worked(lists, w[i], i)}
  OBVIOUS
<1>4. 0 \in Good
  <2>1. PICK a : a = Empty
    OBVIOUS
  <2>2. a \in Working /\ a.table = <<>> /\ a.index = [f \in DOMAIN funcs |-> funcs[f].index]
    BY <2>1 DEF Working, Empty
  <2>3. (\A m \in 1..0 : FALSE) /\ DOMAIN a.table = {}
    BY <2>2
  <2>4. NamesIn(a.table) = {} /\ NamesOf(lists, 0) = {}
    BY <2>3 DEF NamesIn, NamesOf
  <2>5. \A g \in DOMAIN funcs : a.index[g] = funcs[g].index
    BY <2>2
  <2>6. Worked(lists, a, 0)
    BY <2>2, <2>3, <2>4, <2>5 DEF Worked, Sorted
  <2> QED
    BY <1>1, <1>3, <2>1, <2>6
<1>5. ASSUME NEW j \in 1..N, j - 1 \in Good PROVE j \in Good
  <2>1. PICK i \in Nat : i = j - 1 /\ j = i + 1
    OBVIOUS
  <2>2. Worked(lists, w[i], i)
    BY <1>3, <1>5, <2>1
  <2>3. w[j] = Listed(c, w[i], lists[j]) /\ j \in 1..Len(lists)
    BY <1>1, <1>2, <2>1
  <2>4. \A m \in 1..Len(lists[j]) : Fits(NamesOf(lists, i), lists[j], m)
    BY <2>1, <2>3
  <2>5. Worked(lists, w[j], j)
    BY <2>1, <2>2, <2>3, <2>4, WorkedStep
  <2> QED
    BY <1>3, <2>5
<1>6. Good \in SUBSET (0..N) /\ N \in 0..N
  BY <1>3
<1>7. N \in Good
  BY <1>4, <1>5, <1>6, UpTo
<1> QED
  BY <1>1, <1>2, <1>3, <1>7

\* Two tables in order have a name at the same place when they have the same names before it.
LEMMA PlaceOfName ==
  ASSUME NumbersForNames, NEW t \in Seq(DOMAIN funcs), Sorted(t), NEW i \in DOMAIN t
  PROVE  i = Cardinality({n \in NamesIn(t) : n < funcs[t[i]].name}) + 1
<1>1. PICK N \in Nat : N = Len(t) /\ DOMAIN t = 1..N
  OBVIOUS
<1>2. PICK m \in Nat : m = i - 1 /\ i = m + 1 /\ i \in 1..N
  BY <1>1
<1>3. \A j \in 1..N : t[j] \in DOMAIN funcs /\ funcs[t[j]].name \in Nat
  BY <1>1 DEF NumbersForNames
<1>4. PICK B : B = {n \in NamesIn(t) : n < funcs[t[i]].name}
  OBVIOUS
<1>5. PICK f : f = [j \in 1..m |-> funcs[t[j]].name]
  OBVIOUS
<1>6. \A j \in 1..m : f[j] = funcs[t[j]].name /\ j \in 1..N /\ f[j] \in Nat
  <2>1. \A j \in 1..m : j \in 1..N
    BY <1>2
  <2>2. \A j \in 1..m : f[j] = funcs[t[j]].name
    BY <1>5
  <2> QED
    BY <1>3, <2>1, <2>2
<1>7. \A j, k \in 1..N : j < k => funcs[t[j]].name < funcs[t[k]].name
  BY <1>1 DEF Sorted
<1>8. f \in [1..m -> B]
  <2>1. ASSUME NEW j \in 1..m PROVE f[j] \in B
    <3>1. f[j] < funcs[t[i]].name
      BY <1>2, <1>6, <1>7
    <3>2. f[j] \in NamesIn(t)
      BY <1>1, <1>6 DEF NamesIn
    <3> QED
      BY <1>4, <3>1, <3>2
  <2> QED
    BY <1>5, <2>1
<1>9. ASSUME NEW j \in 1..m, NEW k \in 1..m, f[j] = f[k] PROVE j = k
  <2>1. ~(f[j] < f[k]) /\ ~(f[k] < f[j])
    BY <1>6, <1>9
  <2>2. ~(j < k) /\ ~(k < j)
    BY <1>6, <1>7, <2>1
  <2> QED
    BY <2>2
<1>10. ASSUME NEW n \in B PROVE \E j \in 1..m : f[j] = n
  <2>1. PICK j \in 1..N : n = funcs[t[j]].name
    BY <1>1, <1>4 DEF NamesIn
  <2>2. funcs[t[j]].name < funcs[t[i]].name
    BY <1>4, <2>1
  <2>3. ~(i < j) /\ j # i
    <3>1. ~(funcs[t[i]].name < funcs[t[j]].name) /\ ~(funcs[t[i]].name < funcs[t[i]].name)
      BY <1>2, <1>3, <2>2
    <3> QED
      BY <1>2, <1>7, <2>2, <3>1
  <2>4. j \in 1..m
    BY <1>2, <2>3
  <2> QED
    BY <1>6, <2>1, <2>4
<1>11. f \in Bijection(1..m, B)
  BY <1>8, <1>9, <1>10 DEF Bijection, Injection, Surjection, IsInjective
<1>12. ExistsBijection(1..m, B)
  BY <1>11 DEF ExistsBijection
<1>13. IsFiniteSet(1..m) /\ Cardinality(1..m) = m
  BY FS_Interval
<1>14. Cardinality(B) = m
  BY <1>12, <1>13, FS_Bijection
<1> QED
  BY <1>2, <1>4, <1>14

-----------------------------------------------------------------------------
(* The line of a class, and the names that its classes declare *)

\* The class of a function declares its name.
LEMMA FunctionDeclares ==
  ASSUME FunctionsOK, NEW f \in DOMAIN funcs
  PROVE  /\ funcs[f].class \in Names /\ Declares(funcs[f].class, funcs[f].name)
         /\ funcs[f].name \in 1 .. LastName /\ funcs[f].name \in Nat
<1>1. PICK i \in DOMAIN Class(funcs[f].class).methods : Of(f, funcs[f].class, i)
  BY DEF FunctionsOK
<1>2. Declares(funcs[f].class, funcs[f].name)
  BY <1>1 DEF Declares, Of
<1>3. funcs[f].class \in Names /\ funcs[f].name \in 1 .. LastName
  BY DEF FunctionsOK
<1>4. \A n \in 1 .. LastName : n \in Nat
  OBVIOUS
<1> QED
  BY <1>2, <1>3, <1>4

\* Two classes above a third are one above the other.
LEMMA OneLine ==
  ASSUME prog \in Program, NEW d \in Names, NEW b, NEW c, Below(d, b), Below(d, c)
  PROVE  b = c \/ Below(b, c) \/ Below(c, b)
<1> DEFINE S == {x \in Names : x = b \/ Below(x, b) \/ Below(b, x)}
<1>1. Class(d).parent \in S
  BY BelowIs
<1>2. ASSUME NEW x \in S, HasParent(x) PROVE Class(x).parent \in S
  <2>1. Class(x).parent \in Names
    <3>1. {Class(x).parent, Class(x).field} \subseteq Names \cup {NoClass}
      BY ClassType
    <3> QED
      BY <1>2, <3>1 DEF HasParent
  <2>2. CASE x = b
    BY <1>2, <2>1, <2>2, BelowOn
  <2>3. CASE Below(x, b)
    BY <2>1, <2>3, BelowIs
  <2>4. CASE Below(b, x)
    <3>1. Below(b, Class(x).parent)
      BY <1>2, <2>4 DEF Below
    <3> QED
      BY <2>1, <3>1
  <2> QED
    BY <2>2, <2>3, <2>4
<1>3. S \in SUBSET Names
  OBVIOUS
<1> HIDE DEF S
<1>4. c \in S
  BY <1>1, <1>2, <1>3 DEF Below
<1> QED
  BY <1>4 DEF S

\* The classes of a line above one of them belong to the line.
LEMMA HeritageIn ==
  ASSUME NEW d, NEW b \in Heritage(d)
  PROVE  /\ b \in Names
         /\ \A r \in Heritage(b) : r \in Heritage(d)
         /\ \A r \in Names : Below(b, r) => Below(d, r)
BY BelowTrans DEF Heritage

\* A method was new in a class from which the others of its name come.
LEMMA RootOf ==
  ASSUME prog \in Program, MentionsNoDescendant, NEW b \in Names, NEW n, Declares(b, n)
  PROVE  \E r \in Heritage(b) : Declares(r, n) /\ ~Redefines(r, n)
<1> DEFINE Over(x) == {y \in Names : Below(x, y)}
           Sizes == {Cardinality(Over(x)) : x \in Declaring(b, n)}
<1>1. ASSUME NEW x PROVE IsFiniteSet(Over(x)) /\ Cardinality(Over(x)) \in Nat
  <2>1. Over(x) \in SUBSET Names
    OBVIOUS
  <2> HIDE DEF Over
  <2>2. IsFiniteSet(Over(x))
    BY <2>1, NamesFinite, FS_Subset
  <2> QED
    BY <2>2, FS_CardinalityType
<1>2. b \in Declaring(b, n)
  BY DEF Declaring, Heritage
<1>3. ASSUME NEW x, NEW y \in Names, Below(x, y) PROVE Cardinality(Over(y)) < Cardinality(Over(x))
  <2>1. y \in Over(x) /\ y \notin Over(y) /\ Over(y) \in SUBSET Over(x)
    BY <1>3, NotBelowItself, BelowTrans
  <2> HIDE DEF Over
  <2>2. Cardinality(Over(y)) <= Cardinality(Over(x)) /\ (Cardinality(Over(y)) = Cardinality(Over(x)) => Over(y) = Over(x))
    BY <1>1, <2>1, FS_Subset
  <2> QED
    BY <1>1, <2>1, <2>2
<1> HIDE DEF Over
<1>4. Sizes \in SUBSET Nat /\ Sizes # {}
  BY <1>1, <1>2
<1>5. PICK least \in Sizes : \A y \in Sizes : least <= y
  BY <1>4, Least
<1>6. PICK r \in Declaring(b, n) : least = Cardinality(Over(r))
  BY <1>5
<1>7. r \in Heritage(b) /\ Declares(r, n)
  BY <1>6 DEF Declaring
<1>8. ASSUME Redefines(r, n) PROVE FALSE
  <2>1. PICK y \in Names : Below(r, y) /\ Declares(y, n)
    BY <1>8 DEF Redefines
  <2>2. y \in Declaring(b, n)
    BY <1>7, <2>1, BelowTrans DEF Heritage, Declaring
  <2>3. Cardinality(Over(y)) < least /\ Cardinality(Over(y)) \in Sizes
    BY <1>3, <1>6, <2>1, <2>2
  <2>4. least <= Cardinality(Over(y))
    BY <1>5, <2>3
  <2>5. least \in Nat /\ Cardinality(Over(y)) \in Nat
    BY <1>1, <1>6
  <2> QED
    BY <2>3, <2>4, <2>5
<1> QED
  BY <1>7, <1>8

\* All methods of the program have functions.
AllMade == \A c \in Names : \A i \in DOMAIN Class(c).methods : Made(c, i)

\* The names before n that a line declares.
NamesBefore(d, n) == {x \in Nat : x < n /\ \E b \in Heritage(d) : Declares(b, x)}

\* When the names ascend, those before a new one were declared above it.
LEMMA NamesAscend ==
  ASSUME prog \in Program, MentionsNoDescendant, FunctionsOK, AllMade, Ascending,
         NEW d \in Names, NEW r \in Heritage(d), NEW n, Declares(r, n), ~Redefines(r, n)
  PROVE  NamesBefore(d, n) = NamesBefore(r, n)
<1>1. r \in Names /\ \A b \in Heritage(r) : b \in Heritage(d)
  BY HeritageIn
<1>2. n \in 1 .. LastName
  <2>1. PICK i \in DOMAIN Class(r).methods : Method(r, i).name = n
    BY DEF Declares
  <2> QED
    BY <1>1, <2>1, ClassType
<1>3. ASSUME NEW x \in Nat, x < n, NEW e \in Heritage(d), Declares(e, x) PROVE \E b \in Heritage(r) : Declares(b, x)
  <2>1. e \in Names /\ \A b \in Heritage(e) : b \in Heritage(d)
    BY HeritageIn
  <2>2. PICK q \in Heritage(e) : Declares(q, x) /\ ~Redefines(q, x)
    BY <1>3, <2>1, RootOf
  <2>3. q \in Heritage(d) /\ q \in Names
    BY <2>1, HeritageIn
  <2>4. CASE q \in Heritage(r)
    BY <2>2, <2>4
  <2>5. CASE q \notin Heritage(r)
    <3>1. q # r /\ ~Below(r, q)
      BY <2>3, <2>5 DEF Heritage
    <3>2. (q = d \/ Below(d, q)) /\ (r = d \/ Below(d, r))
      BY <2>3 DEF Heritage
    <3>3. Below(q, r)
      BY <3>1, <3>2, OneLine
    <3>4. Redefines(q, n)
      BY <1>1, <3>3 DEF Redefines
    <3> DEFINE F == {f \in DOMAIN funcs : funcs[f].class = q /\ funcs[f].name = x}
    <3>5. F \in SUBSET Nat
      <4>1. funcs \in Seq({funcs[f] : f \in DOMAIN funcs})
        BY DEF FunctionsOK
      <4>2. DOMAIN funcs = 1..Len(funcs) /\ Len(funcs) \in Nat
        BY <4>1
      <4> QED
        BY <4>2
    <3>6. F # {}
      <4>1. PICK i \in DOMAIN Class(q).methods : Method(q, i).name = x
        BY <2>2 DEF Declares
      <4>2. Made(q, i)
        BY <2>3, <4>1 DEF AllMade
      <4> QED
        BY <4>1, <4>2 DEF Made, Of
    <3> HIDE DEF F
    <3>7. PICK f \in F : \A g \in F : f <= g
      BY <3>5, <3>6, Least
    <3>8. f \in DOMAIN funcs /\ funcs[f].class = q /\ funcs[f].name = x /\ f \in Nat
      BY <3>5, <3>7 DEF F
    <3> DEFINE own == {g \in 1 .. f - 1 : funcs[g].class = funcs[f].class}
               before == {funcs[g].name : g \in own} \cup {m \in 1 .. LastName : Redefines(funcs[f].class, m)}
    <3>9. \/ funcs[f].name \in before
          \/ \A m \in before : m < funcs[f].name /\ (own # {} => m <= funcs[Max(own)].name)
      BY <3>8, Zenon DEF Ascending
    <3>10. n \in before
      BY <1>2, <3>4, <3>8
    <3>11. \A g \in own : funcs[g].name # x
      <4> SUFFICES ASSUME NEW g \in own, funcs[g].name = x PROVE FALSE
        OBVIOUS
      <4>1. g \in 1..(f - 1) /\ funcs[g].class = q
        BY <3>8
      <4>2. g \in DOMAIN funcs
        <5>1. funcs \in Seq({funcs[h] : h \in DOMAIN funcs})
          BY DEF FunctionsOK
        <5>2. DOMAIN funcs = 1..Len(funcs) /\ Len(funcs) \in Nat
          BY <5>1
        <5> QED
          BY <3>8, <4>1, <5>2
      <4>3. f <= g
        BY <3>7, <4>1, <4>2 DEF F
      <4> QED
        BY <3>8, <4>1, <4>3
    <3>12. funcs[f].name \notin before
      BY <2>2, <3>8, <3>11
    <3> HIDE DEF own, before
    <3>13. n < x
      BY <3>8, <3>9, <3>10, <3>12
    <3> QED
      BY <1>2, <1>3, <3>13
  <2> QED
    BY <2>4, <2>5
<1> QED
  BY <1>1, <1>3 DEF NamesBefore

-----------------------------------------------------------------------------
(* The tables as they are generated, and as they are corrected *)

\* The function at j is the last of its name up to s, and no class above its own declares that.
FromRoot(c, v, s, n) ==
  \E j \in 1..s : /\ funcs[v[j]].name = n /\ ~Redefines(funcs[v[j]].class, n)
                  /\ \A k \in (j + 1)..s : funcs[v[k]].name # n

\* A generated table: up to s what the class inherits, then its own functions in their order.
BuiltAt(c, v, s) ==
  /\ \A j \in 1..s : Below(c, funcs[v[j]].class)
  /\ \A j \in (s + 1)..Len(v) : funcs[v[j]].class = c
  /\ \A j, k \in (s + 1)..Len(v) : j < k => v[j] < v[k]
  /\ \A n \in 1..LastName : Redefines(c, n) => FromRoot(c, v, s, n)
  /\ \A j \in 1..s : funcs[v[j]].name <= funcs[v[s]].name
Built(c, v) == v \in Seq(DOMAIN funcs) /\ \E s \in 0..Len(v) : BuiltAt(c, v, s)
HasAll(c, v) == \A f \in DOMAIN funcs : funcs[f].class = c => \E j \in DOMAIN v : v[j] = f

\* Each list of such a table is one that the checker can place.
NamesAbove(c) == {n \in 1..LastName : Redefines(c, n)}
LEMMA BuiltFits ==
  ASSUME FunctionsOK, Ascending, NEW c, ~Below(c, c), NEW v, Built(c, v), HasAll(c, v), NEW names, names = NamesAbove(c)
  PROVE  \A m \in 1..Len(v) : Fits(names, v, m)
<1> PICK N \in Nat : N = Len(v)
  BY DEF Built
<1>1. v \in Seq(DOMAIN funcs) /\ DOMAIN v = 1..N
  BY DEF Built
<1>2. PICK s \in 0..N : BuiltAt(c, v, s)
  BY DEF Built
<1>3. /\ \A j \in 1..s : Below(c, funcs[v[j]].class)
      /\ \A j \in (s + 1)..N : funcs[v[j]].class = c
      /\ \A j, k \in (s + 1)..N : j < k => v[j] < v[k]
      /\ \A n \in 1..LastName : Redefines(c, n) => FromRoot(c, v, s, n)
      /\ \A j \in 1..s : funcs[v[j]].name <= funcs[v[s]].name
  BY <1>2 DEF BuiltAt
<1>4. \A j \in 1..N : v[j] \in DOMAIN funcs /\ v[j] \in Nat /\ funcs[v[j]].name \in Nat
  <2>1. \A j \in 1..N : v[j] \in DOMAIN funcs
    BY <1>1
  <2>2. DOMAIN funcs = 1..Len(funcs)
    <3>1. funcs \in Seq({funcs[f] : f \in DOMAIN funcs})
      BY DEF FunctionsOK
    <3> QED
      BY <3>1
  <2> QED
    BY <2>1, <2>2, FunctionDeclares
<1>5. \A j \in 1..s : j \in 1..N /\ funcs[v[j]].name \in names
  <2>1. \A j \in 1..s : j \in 1..N
    OBVIOUS
  <2>2. \A j \in 1..N : funcs[v[j]].name \in 1..LastName
    BY <1>4, FunctionDeclares
  <2>3. \A j \in 1..N : Below(c, funcs[v[j]].class) => Redefines(c, funcs[v[j]].name)
    BY <1>4, FunctionDeclares DEF Redefines
  <2> QED
    BY <1>3, <2>1, <2>2, <2>3 DEF NamesAbove
<1>6. \A n \in names : n \in Nat /\ \E j \in 1..s : funcs[v[j]].name = n
  BY <1>3 DEF NamesAbove, FromRoot
<1> SUFFICES ASSUME NEW m \in 1..N PROVE Fits(names, v, m)
  OBVIOUS
<1> PICK x : x = funcs[v[m]].name
  OBVIOUS
<1>7. CASE m \in 1..s
  BY <1>5, <1>7 DEF Fits
<1>8. CASE m \in (s + 1)..N
  <2> PICK f : f = v[m]
    OBVIOUS
  <2>1. f \in DOMAIN funcs /\ f \in Nat /\ funcs[f].class = c /\ funcs[f].name = x /\ x \in Nat
    BY <1>3, <1>4, <1>8
  <2> DEFINE own == {g \in 1 .. f - 1 : funcs[g].class = funcs[f].class}
             before == {funcs[g].name : g \in own} \cup {n \in 1 .. LastName : Redefines(funcs[f].class, n)}
  <2>2. \/ funcs[f].name \in before
        \/ \A n \in before : n < funcs[f].name /\ (own # {} => n <= funcs[Max(own)].name)
    BY <2>1, Zenon DEF Ascending
  <2>3. \A g : g \in own <=> \E k \in (s + 1)..(m - 1) : g = v[k]
    <3>1. ASSUME NEW g \in own PROVE \E k \in (s + 1)..(m - 1) : g = v[k]
      <4>1. g \in 1..(f - 1) /\ funcs[g].class = c
        BY <2>1
      <4>2. g \in DOMAIN funcs
        <5>1. funcs \in Seq({funcs[h] : h \in DOMAIN funcs})
          BY DEF FunctionsOK
        <5>2. DOMAIN funcs = 1..Len(funcs) /\ Len(funcs) \in Nat
          BY <5>1
        <5> QED
          BY <2>1, <4>1, <5>2
      <4>3. PICK k \in 1..N : v[k] = g
        BY <1>1, <4>1, <4>2 DEF HasAll
      <4>4. k \notin 1..s
        <5> SUFFICES ASSUME k \in 1..s PROVE FALSE
          OBVIOUS
        <5>1. Below(c, c)
          BY <1>3, <4>1, <4>3
        <5> QED
          BY <5>1
      <4>5. k \in (s + 1)..N
        BY <4>4
      <4>6. ~(m <= k)
        <5>1. ~(v[m] < v[k]) /\ v[m] # v[k]
          BY <2>1, <4>1, <4>3
        <5> QED
          BY <1>3, <1>8, <4>5, <5>1
      <4> QED
        BY <4>3, <4>5, <4>6
    <3>2. ASSUME NEW k \in (s + 1)..(m - 1) PROVE v[k] \in own
      <4>1. k \in (s + 1)..N /\ k < m
        BY <1>8
      <4>2. v[k] < v[m] /\ funcs[v[k]].class = c
        BY <1>3, <1>8, <4>1
      <4>3. v[k] \in 1..(f - 1)
        <5>1. v[k] \in DOMAIN funcs /\ v[k] \in Nat
          BY <1>4, <4>1
        <5>2. \A h \in DOMAIN funcs : 1 <= h
          <6>1. funcs \in Seq({funcs[h] : h \in DOMAIN funcs})
            BY DEF FunctionsOK
          <6> QED
            BY <6>1
        <5> QED
          BY <2>1, <4>2, <5>1, <5>2
      <4> QED
        BY <2>1, <4>2, <4>3
    <3> HIDE DEF own
    <3> QED
      BY <3>1, <3>2
  <2>4. \A n : n \in before <=> n \in names \/ \E k \in (s + 1)..(m - 1) : n = funcs[v[k]].name
    <3>1. {n \in 1 .. LastName : Redefines(funcs[f].class, n)} = names
      BY <2>1 DEF NamesAbove
    <3> HIDE DEF own
    <3> QED
      BY <2>3, <3>1
  <2> HIDE DEF before
  <2>5. CASE x \in before
    BY <2>1, <2>4, <2>5 DEF Fits
  <2>6. CASE x \notin before
    <3>1. \A n \in before : n < x /\ (own # {} => n <= funcs[Max(own)].name)
      BY <2>1, <2>2, <2>6
    <3>2. ASSUME s + 1 <= m - 1 PROVE own # {} /\ Max(own) = v[m - 1]
      <4>1. m - 1 \in (s + 1)..(m - 1) /\ m - 1 \in (s + 1)..N /\ m - 1 \in 1..N
        BY <1>8, <3>2
      <4>2. v[m - 1] \in own
        BY <2>3, <4>1
      <4>3. \A g \in own : g \in Nat /\ g <= v[m - 1]
        <5> SUFFICES ASSUME NEW g \in own PROVE g \in Nat /\ g <= v[m - 1]
          OBVIOUS
        <5>1. PICK k \in (s + 1)..(m - 1) : g = v[k]
          BY <2>3
        <5>2. k \in (s + 1)..N /\ k \in 1..N
          BY <1>8
        <5>3. k = m - 1 \/ k < m - 1
          OBVIOUS
        <5> QED
          BY <1>3, <1>4, <4>1, <5>1, <5>2, <5>3
      <4>4. v[m - 1] \in Nat
        BY <1>4, <4>1
      <4> HIDE DEF own
      <4>5. \A y \in own : (\A g \in own : y >= g) => y = v[m - 1]
        BY <4>2, <4>3, <4>4
      <4>6. Max(own) \in own /\ \A g \in own : Max(own) >= g
        <5>1. \E y \in own : \A g \in own : y >= g
          BY <4>2, <4>3, <4>4
        <5> QED
          BY <5>1, Zenon DEF Max
      <4> QED
        BY <4>2, <4>5, <4>6
    <3> HIDE DEF own
    <3>3. ASSUME NEW k \in 1..(m - 1) PROVE funcs[v[k]].name \in before
      <4>1. k \in 1..s \/ k \in (s + 1)..(m - 1)
        OBVIOUS
      <4> QED
        BY <1>5, <2>4, <4>1
    <3>4. ASSUME NEW n \in before PROVE n < x /\ m > 1 /\ n <= funcs[v[m - 1]].name
      <4>1. n < x
        BY <3>1
      <4>2. CASE s + 1 <= m - 1
        BY <3>1, <3>2, <4>1, <4>2
      <4>3. CASE ~(s + 1 <= m - 1)
        <5>1. m - 1 = s
          BY <1>8, <4>3
        <5>2. n \in names
          <6>1. \A k : k \notin (s + 1)..(m - 1)
            BY <5>1
          <6> QED
            BY <2>4, <6>1
        <5>3. PICK j \in 1..s : funcs[v[j]].name = n
          BY <1>6, <5>2
        <5>4. n <= funcs[v[s]].name
          BY <1>3, <5>3
        <5>5. m > 1
          BY <5>1, <5>3
        <5> QED
          BY <4>1, <5>1, <5>4, <5>5
      <4> QED
        BY <4>2, <4>3
    <3> QED
      BY <2>1, <2>4, <3>3, <3>4 DEF Fits
  <2> QED
    BY <2>5, <2>6
<1> QED
  BY <1>7, <1>8

\* The tables of a class's ancestors, from the oldest down.
InLine(up) ==
  /\ \A k \in DOMAIN up : Built(up[k].class, up[k].vtable) /\ HasAll(up[k].class, up[k].vtable)
  /\ \A j, k \in DOMAIN up : j < k => Below(up[k].class, up[j].class)

\* A class that redefines a method has one and a table.
Bequeathed(c) == \A n \in 1..LastName : Redefines(c, n) => created[c][n] # <<>> /\ types[c].hasVtable
Prepared(c) == Built(c, types[c].vtable) /\ InLine(types[c].ancestors) /\ Bequeathed(c)

\* The functions in a table are of its class and of those above.
LEMMA BuiltOf ==
  ASSUME NEW c, NEW v, Built(c, v)
  PROVE  \A j \in DOMAIN v : v[j] \in DOMAIN funcs /\ (funcs[v[j]].class = c \/ Below(c, funcs[v[j]].class))
<1>1. v \in Seq(DOMAIN funcs)
  BY DEF Built
<1>2. PICK s \in 0..Len(v) : BuiltAt(c, v, s)
  BY DEF Built
<1>3. /\ \A j \in 1..s : Below(c, funcs[v[j]].class)
      /\ \A j \in (s + 1)..Len(v) : funcs[v[j]].class = c
  BY <1>2 DEF BuiltAt
<1>4. \A j \in DOMAIN v : j \in 1..s \/ j \in (s + 1)..Len(v)
  BY <1>1
<1> QED
  BY <1>1, <1>3, <1>4

\* The lists before one have the names that its class redefines.
Owner(c, n, k) == IF k <= n THEN types[c].ancestors[k].class ELSE c
LEMMA ListsNames ==
  ASSUME prog \in Program, MentionsNoDescendant, FunctionsOK, NEW c \in Names, Prepared(c), Inherits(c), HasAll(c, types[c].vtable),
         LineageOK(c), NEW lists, NEW n, ListsFit(c, lists, n), NEW i \in Nat, NEW m, m = i + 1, m \in 1..(n + 1),
         NEW b, b = Owner(c, n, m)
  PROVE  /\ Built(b, lists[m]) /\ HasAll(b, lists[m])
         /\ \A x : x \in NamesOf(lists, i) <=> x \in NamesAbove(b)
         /\ b \in Names /\ b \in Heritage(c)
<1> PICK up : up = types[c].ancestors
  OBVIOUS
<1>1. n \in Nat /\ DOMAIN up = 1..n /\ lists[n + 1] = types[c].vtable /\ \A k \in 1..n : lists[k] = up[k].vtable
  BY DEF ListsFit
<1>2. /\ \A k \in DOMAIN up : Built(up[k].class, up[k].vtable) /\ HasAll(up[k].class, up[k].vtable)
      /\ \A j, k \in DOMAIN up : j < k => Below(up[k].class, up[j].class)
  BY DEF Prepared, InLine
<1>3. \A k \in 1..n : Below(c, up[k].class)
  BY <1>1 DEF LineageOK
<1>4. \A k \in 1..n : up[k].class \in Names
  BY <1>3, BelowIs
<1>5. (m \in 1..n /\ b = up[m].class) \/ (m = n + 1 /\ b = c)
  BY <1>1 DEF Owner
<1>6. Built(b, lists[m]) /\ HasAll(b, lists[m])
  <2>1. Built(c, types[c].vtable)
    BY DEF Prepared
  <2> QED
    BY <1>1, <1>2, <1>5, <2>1
<1>7. b \in Names /\ b \in Heritage(c)
  BY <1>3, <1>4, <1>5 DEF Heritage
<1>8. \A k \in 1..i : k \in 1..n /\ Below(b, up[k].class)
  <2> SUFFICES ASSUME NEW k \in 1..i PROVE k \in 1..n /\ Below(b, up[k].class)
    OBVIOUS
  <2>1. k \in 1..n /\ k < m
    BY <1>1
  <2> QED
    BY <1>1, <1>2, <1>3, <1>5, <2>1
<1>9. ASSUME NEW x \in NamesOf(lists, i) PROVE x \in NamesAbove(b)
  <2>1. PICK k \in 1..i : x \in NamesIn(lists[k])
    BY <1>9 DEF NamesOf
  <2> PICK v, a : v = up[k].vtable /\ a = up[k].class
    OBVIOUS
  <2>2. lists[k] = v /\ Built(a, v) /\ Below(b, a)
    BY <1>1, <1>2, <1>8
  <2>3. PICK j \in DOMAIN v : funcs[v[j]].name = x
    BY <2>1, <2>2 DEF NamesIn
  <2>4. v[j] \in DOMAIN funcs /\ (funcs[v[j]].class = a \/ Below(a, funcs[v[j]].class))
    BY <2>2, BuiltOf
  <2>5. Below(b, funcs[v[j]].class)
    BY <2>2, <2>4, BelowTrans
  <2>6. funcs[v[j]].class \in Names /\ Declares(funcs[v[j]].class, x) /\ x \in 1..LastName
    BY <2>3, <2>4, FunctionDeclares
  <2> QED
    BY <2>5, <2>6 DEF NamesAbove, Redefines
<1>10. ASSUME NEW x \in NamesAbove(b) PROVE x \in NamesOf(lists, i)
  <2>1. PICK a \in Names : Below(b, a) /\ Declares(a, x)
    BY <1>10 DEF NamesAbove, Redefines
  <2>2. Below(c, a)
    BY <1>3, <1>5, <2>1, BelowTrans
  <2>3. PICK k \in DOMAIN up : up[k].class = a
    BY <2>1, <2>2 DEF Inherits, HasAncestors
  <2>4. k \in 1..n
    BY <1>1, <2>3
  <2>5. ~(m <= k)
    <3> SUFFICES ASSUME m <= k PROVE FALSE
      OBVIOUS
    <3>1. m \in 1..n /\ b = up[m].class
      BY <1>1, <1>5, <2>4
    <3>2. m = k \/ m < k
      BY <1>1, <2>4
    <3>3. Below(b, b)
      BY <1>1, <1>2, <2>1, <2>3, <3>1, <3>2, BelowTrans
    <3> QED
      BY <1>7, <3>3, NotBelowItself
  <2>6. k \in 1..i
    BY <1>1, <2>4, <2>5
  <2>7. PICK h \in DOMAIN Class(a).methods : Method(a, h).name = x
    BY <2>1 DEF Declares
  <2>8. \E j \in DOMAIN up[k].vtable : funcs[up[k].vtable[j]].name = Method(a, h).name
    BY <2>3, <2>7 DEF Inherits, HasAncestors
  <2> QED
    BY <1>1, <2>4, <2>6, <2>7, <2>8 DEF NamesOf, NamesIn
<1> QED
  BY <1>6, <1>7, <1>9, <1>10

\* A corrected table: in order, with every name of the line, and of each the class's own function or the one that
\* was new.
TableFor(d, t) ==
  /\ t \in Seq(DOMAIN funcs) /\ Sorted(t)
  /\ \A n \in 1..LastName : Declares(d, n) \/ Redefines(d, n) => n \in NamesIn(t)
  /\ \A j \in DOMAIN t :
       /\ funcs[t[j]].class \in Heritage(d)
       /\ funcs[t[j]].class = d \/ (~Declares(d, funcs[t[j]].name) /\ ~Redefines(funcs[t[j]].class, funcs[t[j]].name))

\* What the class's own list makes of the names.
LEMMA LastList ==
  ASSUME prog \in Program, MentionsNoDescendant, FunctionsOK, AllMade, NEW c \in Names, NEW v, Built(c, v), HasAll(c, v),
         NEW e, Put(v, Len(v), e)
  PROVE  /\ funcs[e].class \in Heritage(c)
         /\ funcs[e].class = c \/ (~Declares(c, funcs[e].name) /\ ~Redefines(funcs[e].class, funcs[e].name))
<1> PICK N \in Nat : N = Len(v)
  BY DEF Built
<1>1. v \in Seq(DOMAIN funcs) /\ DOMAIN v = 1..N
  BY DEF Built
<1>2. PICK s \in 0..N : BuiltAt(c, v, s)
  BY DEF Built
<1>3. /\ \A j \in 1..s : Below(c, funcs[v[j]].class)
      /\ \A j \in (s + 1)..N : funcs[v[j]].class = c
      /\ \A n \in 1..LastName : Redefines(c, n) => FromRoot(c, v, s, n)
  BY <1>2 DEF BuiltAt
<1>4. PICK m \in 1..N : e = v[m] /\ \A k \in (m + 1)..N : funcs[v[k]].name # funcs[e].name
  BY DEF Put
<1>5. e \in DOMAIN funcs
  BY <1>1, <1>4
<1>6. funcs[e].class \in Names /\ Declares(funcs[e].class, funcs[e].name) /\ funcs[e].name \in 1..LastName
  BY <1>5, FunctionDeclares
<1>7. CASE m \in (s + 1)..N
  BY <1>3, <1>4, <1>6, <1>7 DEF Heritage
<1>8. CASE m \in 1..s
  <2>1. Below(c, funcs[e].class)
    BY <1>3, <1>4, <1>8
  <2>2. ASSUME Declares(c, funcs[e].name) PROVE FALSE
    <3>1. PICK i \in DOMAIN Class(c).methods : Method(c, i).name = funcs[e].name
      BY <2>2 DEF Declares
    <3>2. PICK f \in DOMAIN funcs : funcs[f].class = c /\ funcs[f].name = funcs[e].name
      BY <3>1 DEF AllMade, Made, Of
    <3>3. PICK k \in 1..N : v[k] = f
      BY <1>1, <3>2 DEF HasAll
    <3>4. k \notin 1..s
      BY <1>3, <3>2, <3>3, NotBelowItself
    <3>5. k \in (m + 1)..N
      BY <1>8, <3>4
    <3> QED
      BY <1>4, <3>2, <3>3, <3>5
  <2>3. ASSUME Redefines(funcs[e].class, funcs[e].name) PROVE FALSE
    <3>1. Redefines(c, funcs[e].name)
      BY <1>6, <2>1 DEF Redefines
    <3>2. FromRoot(c, v, s, funcs[e].name)
      BY <1>3, <1>6, <3>1
    <3>3. PICK j \in 1..s : /\ funcs[v[j]].name = funcs[e].name /\ ~Redefines(funcs[v[j]].class, funcs[e].name)
                            /\ \A k \in (j + 1)..s : funcs[v[k]].name # funcs[e].name
      BY <3>2 DEF FromRoot
    <3>4. j \notin (m + 1)..N
      BY <1>4, <3>3
    <3>5. m \notin (j + 1)..s
      BY <1>4, <3>3
    <3>6. j = m
      BY <1>8, <3>4, <3>5
    <3> QED
      BY <1>4, <2>3, <3>3, <3>6
  <2> QED
    BY <1>6, <2>1, <2>2, <2>3 DEF Heritage
<1> QED
  BY <1>7, <1>8

\* What the check of a class makes of its table, and of the numbers.
LEMMA CheckedRight ==
  ASSUME prog \in Program, MentionsNoDescendant, FunctionsOK, AllMade, Ascending, NEW c \in Names, Prepared(c), Tabled(c), Inherits(c),
         LineageOK(c), NEW fixed, fixed = FixedTable(c, Lists(c))
  PROVE  /\ fixed \in Working /\ TableFor(c, fixed.table)
         /\ \A f \in DOMAIN funcs : funcs[f].class \in Heritage(c) => Numbered(fixed, f)
         /\ \A f \in DOMAIN funcs : funcs[f].class \notin Heritage(c) => fixed.index[f] = funcs[f].index
<1> PICK lists, n, up, t : lists = Lists(c) /\ n = Len(types[c].ancestors) /\ up = types[c].ancestors /\ t = types[c].vtable
  OBVIOUS
<1>1. ListsFit(c, lists, n)
  BY ListsAre
<1>2. /\ n \in Nat /\ DOMAIN up = 1..n /\ lists \in Seq(Seq(DOMAIN funcs)) /\ Len(lists) = n + 1
      /\ lists[n + 1] = t /\ \A k \in 1..n : lists[k] = up[k].vtable
      /\ \A k \in 1..n : \A j \in DOMAIN lists[k] : lists[k][j] \in Above(c)
  BY <1>1 DEF ListsFit
<1>3. HasAll(c, t)
  BY DEF Tabled, HasFunctions, HasAll
<1>4. Built(c, t)
  BY DEF Prepared
<1>5. NumbersForNames /\ \A f \in DOMAIN funcs : funcs[f].index \in Nat
  BY FunctionDeclares DEF NumbersForNames, FunctionsOK
<1>6. ASSUME NEW i \in Nat, i + 1 \in 1..Len(lists) PROVE \A m \in 1..Len(lists[i + 1]) : Fits(NamesOf(lists, i), lists[i + 1], m)
  <2> PICK b, k, v : k = i + 1 /\ b = Owner(c, n, k) /\ v = lists[k]
    OBVIOUS
  <2>1. k \in 1..(n + 1)
    BY <1>2, <1>6
  <2>p. HasAll(c, types[c].vtable)
    BY <1>3
  <2>o. k = i + 1 /\ b = Owner(c, n, k) /\ i \in Nat
    BY <1>6
  <2> DEFINE At(j, m, a) == j \in Nat /\ m = j + 1 /\ m \in 1..(n + 1) /\ a = Owner(c, n, m)
  <2>s. At(i, k, b)
    BY <2>o, <2>1, Zenon
  <2>t. ASSUME NEW j, NEW m, NEW a, At(j, m, a)
        PROVE  /\ Built(a, lists[m]) /\ HasAll(a, lists[m]) /\ a \in Names
               /\ \A x : x \in NamesOf(lists, j) <=> x \in NamesAbove(a)
    <3>0. j \in Nat /\ m = j + 1 /\ m \in 1..(n + 1) /\ a = Owner(c, n, m)
      BY <2>t, Zenon
    <3>1. Built(a, lists[m])
      BY <1>1, <2>p, <3>0, ListsNames, Zenon
    <3>2. HasAll(a, lists[m])
      BY <1>1, <2>p, <3>0, ListsNames, Zenon
    <3>3. a \in Names
      BY <1>1, <2>p, <3>0, ListsNames, Zenon
    <3>4. \A x : x \in NamesOf(lists, j) <=> x \in NamesAbove(a)
      BY <1>1, <2>p, <3>0, ListsNames, SMT
    <3> QED
      BY <3>1, <3>2, <3>3, <3>4
  <2> HIDE DEF At
  <2>q. Built(b, lists[k]) /\ HasAll(b, lists[k]) /\ b \in Names /\ \A x : x \in NamesOf(lists, i) <=> x \in NamesAbove(b)
    BY <2>s, <2>t, Zenon
  <2>r. NamesOf(lists, i) = NamesAbove(b)
    <3>1. (\A x \in NamesOf(lists, i) : x \in NamesAbove(b)) /\ \A x \in NamesAbove(b) : x \in NamesOf(lists, i)
      BY <2>q, Zenon
    <3> QED
      BY <3>1, Zenon
  <2>2. Built(b, v) /\ HasAll(b, v) /\ NamesOf(lists, i) = NamesAbove(b) /\ b \in Names
    BY <2>q, <2>r, Zenon
  <2>3. ~Below(b, b)
    BY <2>2, NotBelowItself
  <2>4. \A m \in 1..Len(v) : Fits(NamesOf(lists, i), v, m)
    BY <2>2, <2>3, BuiltFits
  <2> QED
    BY <2>4
<1>7. Worked(lists, fixed, n + 1)
  <2>1. Worked(lists, FixedTable(c, lists), Len(lists))
    BY <1>2, <1>5, <1>6, FixedRight
  <2> QED
    BY <1>2, <2>1
<1> PICK u : u = fixed.table
  OBVIOUS
<1>8. /\ fixed \in Working /\ Sorted(u) /\ NamesIn(u) = NamesOf(lists, n + 1)
      /\ \A k \in 1..(n + 1) : \A m \in DOMAIN lists[k] : Numbered(fixed, lists[k][m])
      /\ \A g \in DOMAIN funcs : (\A k \in 1..(n + 1) : \A m \in DOMAIN lists[k] : lists[k][m] # g) => fixed.index[g] = funcs[g].index
      /\ \A j \in DOMAIN u : n + 1 > 0 /\ funcs[u[j]].name \in NamesIn(lists[n + 1]) => Put(lists[n + 1], Len(lists[n + 1]), u[j])
  BY <1>7, Zenon DEF Worked
<1>9. \A x \in NamesAbove(c) : x \in NamesIn(t)
  <2>1. PICK s \in 0..Len(t) : BuiltAt(c, t, s)
    BY <1>4 DEF Built
  <2>2. \A j \in 1..s : j \in DOMAIN t
    BY <1>4 DEF Built
  <2>3. \A x \in NamesAbove(c) : \E j \in 1..s : funcs[t[j]].name = x
    BY <2>1 DEF BuiltAt, NamesAbove, FromRoot
  <2> QED
    BY <2>2, <2>3 DEF NamesIn
<1>10. NamesIn(u) = NamesIn(t)
  <2>1. n \in Nat /\ n + 1 \in 1..(n + 1) /\ c = Owner(c, n, n + 1)
    BY <1>2 DEF Owner
  <2> PICK k : k = n + 1
    OBVIOUS
  <2>2. \A x : x \in NamesOf(lists, n) <=> x \in NamesAbove(c)
    BY <1>1, <1>3, <2>1, ListsNames
  <2>3. \A x : x \in NamesOf(lists, n + 1) <=> x \in NamesOf(lists, n) \/ x \in NamesIn(lists[n + 1])
    <3>1. \A h : h \in 1..(n + 1) <=> h \in 1..n \/ h = n + 1
      BY <1>2
    <3> QED
      BY <3>1, Zenon DEF NamesOf
  <2>4. \A x : x \in NamesIn(u) <=> x \in NamesIn(t)
    BY <1>2, <1>8, <1>9, <2>2, <2>3, Zenon
  <2>5. \A x \in NamesIn(u) : x \in NamesIn(t)
    BY <2>4, Zenon
  <2>6. \A x \in NamesIn(t) : x \in NamesIn(u)
    BY <2>4, Zenon
  <2> HIDE DEF NamesIn
  <2> QED
    BY <2>5, <2>6, Zenon
<1>11. u \in Seq(DOMAIN funcs)
  BY <1>8 DEF Working
<1>12. TableFor(c, u)
  <2>1. ASSUME NEW m \in 1..LastName, Declares(c, m) \/ Redefines(c, m) PROVE m \in NamesIn(u)
    <3>1. CASE Redefines(c, m)
      BY <1>9, <1>10, <3>1 DEF NamesAbove
    <3>2. CASE Declares(c, m)
      <4>1. PICK i \in DOMAIN Class(c).methods : Method(c, i).name = m
        BY <3>2 DEF Declares
      <4>2. PICK f \in DOMAIN funcs : funcs[f].class = c /\ funcs[f].name = m
        BY <4>1 DEF AllMade, Made, Of
      <4>3. PICK k \in DOMAIN t : t[k] = f
        BY <1>3, <4>2 DEF HasAll
      <4> QED
        BY <1>10, <4>2, <4>3 DEF NamesIn
    <3> QED
      BY <2>1, <3>1, <3>2
  <2>2. ASSUME NEW j \in DOMAIN u
        PROVE  /\ funcs[u[j]].class \in Heritage(c)
               /\ funcs[u[j]].class = c \/ (~Declares(c, funcs[u[j]].name) /\ ~Redefines(funcs[u[j]].class, funcs[u[j]].name))
    <3>1. funcs[u[j]].name \in NamesIn(t)
      BY <1>10 DEF NamesIn
    <3>2. n + 1 > 0
      BY <1>2
    <3>3. Put(t, Len(t), u[j])
      BY <1>2, <1>8, <3>1, <3>2
    <3> QED
      BY <1>3, <1>4, <3>3, LastList
  <2> QED
    BY <1>8, <1>11, <2>1, <2>2 DEF TableFor
<1>13. ASSUME NEW f \in DOMAIN funcs, funcs[f].class \in Heritage(c) PROVE Numbered(fixed, f)
  <2>1. \E k \in 1..(n + 1) : \E m \in DOMAIN lists[k] : lists[k][m] = f
    <3>1. CASE funcs[f].class = c
      <4>1. n + 1 \in 1..(n + 1)
        BY <1>2
      <4>2. \E m \in DOMAIN t : t[m] = f
        BY <1>3, <3>1 DEF HasAll
      <4> QED
        BY <1>2, <4>1, <4>2
    <3>2. CASE Below(c, funcs[f].class)
      <4>1. PICK k \in DOMAIN up : up[k].class = funcs[f].class
        BY <3>2, FunctionDeclares DEF Inherits, HasAncestors
      <4>2. \E m \in DOMAIN up[k].vtable : up[k].vtable[m] = f
        BY <4>1 DEF Prepared, InLine, HasAll
      <4>3. k \in 1..n /\ k \in 1..(n + 1)
        BY <1>2, <4>1
      <4> QED
        BY <1>2, <4>2, <4>3
    <3> QED
      BY <1>13, <3>1, <3>2 DEF Heritage
  <2> QED
    BY <1>8, <2>1
<1>14. ASSUME NEW f \in DOMAIN funcs, funcs[f].class \notin Heritage(c) PROVE fixed.index[f] = funcs[f].index
  <2>1. ASSUME NEW k \in 1..(n + 1), NEW m \in DOMAIN lists[k] PROVE lists[k][m] # f
    <3>1. k \in 1..n \/ k = n + 1
      BY <1>2
    <3>2. CASE k \in 1..n
      <4>1. lists[k][m] \in Above(c)
        BY <1>2, <3>2
      <4> QED
        BY <1>14, <4>1, FunctionDeclares DEF Above, Heritage
    <3>3. CASE k = n + 1
      <4>1. m \in DOMAIN t /\ lists[k][m] = t[m]
        BY <1>2, <3>3
      <4>2. t[m] \in DOMAIN funcs /\ (funcs[t[m]].class = c \/ Below(c, funcs[t[m]].class))
        BY <1>4, <4>1, BuiltOf
      <4> QED
        BY <1>14, <4>1, <4>2, FunctionDeclares DEF Heritage
    <3> QED
      BY <3>1, <3>2, <3>3
  <2> QED
    BY <1>8, <2>1
<1> QED
  BY <1>8, <1>12, <1>13, <1>14

\* A method is at the same place in the corrected tables of all classes that have it.
LEMMA SamePlaces ==
  ASSUME prog \in Program, MentionsNoDescendant, FunctionsOK, AllMade, Ascending, NEW c \in Names, NEW d \in Names,
         NEW t, NEW u, TableFor(c, t), TableFor(d, u), NEW b, b \in Heritage(c), b \in Heritage(d), NEW n, Declares(b, n),
         NEW i \in DOMAIN t, funcs[t[i]].name = n, NEW j \in DOMAIN u, funcs[u[j]].name = n
  PROVE  i = j
<1>1. PICK r \in Heritage(b) : Declares(r, n) /\ ~Redefines(r, n)
  BY RootOf DEF Heritage
<1>2. r \in Heritage(c) /\ r \in Heritage(d)
  BY HeritageIn
<1>3. NamesBefore(c, n) = NamesBefore(r, n) /\ NamesBefore(d, n) = NamesBefore(r, n)
  BY <1>1, <1>2, NamesAscend
<1>4. NumbersForNames
  BY FunctionDeclares DEF NumbersForNames
<1>5. ASSUME NEW a \in Names, NEW v, TableFor(a, v), NEW k \in DOMAIN v, funcs[v[k]].name = n
      PROVE  k = Cardinality(NamesBefore(a, n)) + 1
  <2>1. v \in Seq(DOMAIN funcs) /\ Sorted(v)
    BY <1>5 DEF TableFor
  <2>2. k = Cardinality({x \in NamesIn(v) : x < n}) + 1
    BY <1>4, <1>5, <2>1, PlaceOfName
  <2>3. ASSUME NEW x \in NamesIn(v), x < n PROVE x \in NamesBefore(a, n)
    <3>1. PICK m \in DOMAIN v : funcs[v[m]].name = x
      BY DEF NamesIn
    <3>2. v[m] \in DOMAIN funcs /\ funcs[v[m]].class \in Heritage(a)
      BY <1>5, <2>1, <3>1 DEF TableFor
    <3>3. Declares(funcs[v[m]].class, x) /\ x \in Nat
      BY <3>1, <3>2, FunctionDeclares
    <3> QED
      BY <2>3, <3>2, <3>3 DEF NamesBefore
  <2>4. ASSUME NEW x \in NamesBefore(a, n) PROVE x \in NamesIn(v) /\ x < n
    <3>1. x < n
      BY DEF NamesBefore
    <3>2. PICK e \in Heritage(a) : Declares(e, x)
      BY DEF NamesBefore
    <3>3. Declares(a, x) \/ Redefines(a, x)
      BY <3>2 DEF Heritage, Redefines
    <3>4. x \in 1..LastName
      <4>1. PICK h \in DOMAIN Class(e).methods : Method(e, h).name = x
        BY <3>2 DEF Declares
      <4>2. e \in Names
        BY DEF Heritage
      <4> QED
        BY <4>1, <4>2, ClassType
    <3> QED
      BY <1>5, <3>1, <3>3, <3>4 DEF TableFor
  <2>5. \A x : x \in {y \in NamesIn(v) : y < n} <=> x \in NamesBefore(a, n)
    BY <2>3, <2>4
  <2>6. {y \in NamesIn(v) : y < n} = NamesBefore(a, n)
    BY <2>5
  <2> QED
    BY <2>2, <2>6
<1>6. i = Cardinality(NamesBefore(c, n)) + 1
  BY <1>5
<1>7. j = Cardinality(NamesBefore(d, n)) + 1
  BY <1>5
<1> QED
  BY <1>3, <1>6, <1>7

-----------------------------------------------------------------------------
(* From the generation of the classes to their corrected tables *)

\* The functions of a class and of those above it are numbered with the places of their names in its table.
NumbersFor(d, t) ==
  \A f \in DOMAIN funcs : funcs[f].class \in Heritage(d) =>
      funcs[f].index + 1 \in DOMAIN t /\ funcs[t[funcs[f].index + 1]].name = funcs[f].name

\* Nothing is left to do for the classes above c.
Settled(c) == \A b \in Names : Below(c, b) => \A t \in ToSet(todo) : t.do = "type" \/ t.class # b

\* The oldest function of a name is of a class where it is new.
Rooted ==
  \A c \in Names : \A n \in 1..LastName :
      created[c][n] # <<>> => ~Redefines(funcs[created[c][n][Len(created[c][n])]].class, n)

Settling == Rooted /\ \A c \in DOMAIN types : ~Waits("inherit", c) => Prepared(c) /\ Settled(c)
Fixing ==
  /\ AllMade
  /\ \A c \in Names : Waits("fix", c) => Prepared(c)
  /\ \A c \in Names : ~Waits("fix", c) /\ Ascending => TableFor(c, types[c].vtable) /\ NumbersFor(c, types[c].vtable)

Dispatching ==
  Regular => /\ stage = "transform" => Settling
             /\ stage # "transform" => Fixing

\* What a call loads when the tables and the numbers are corrected.
LEMMA LoadsRight ==
  ASSUME prog \in Program, FunctionsOK, NEW f \in DOMAIN funcs, NEW d \in Names, funcs[f].class \in Heritage(d),
         TableFor(d, types[d].vtable), NumbersFor(d, types[d].vtable)
  PROVE  Reaches(f, d) <=> ~Hidden(funcs[f].name, d)
<1> PICK n, t, e : n = funcs[f].name /\ t = types[d].vtable /\ e = t[funcs[f].index + 1]
  OBVIOUS
<1>1. funcs[f].index \in Nat /\ funcs[f].index + 1 \in DOMAIN t /\ funcs[e].name = n
  BY DEF NumbersFor, FunctionsOK
<1>2. t \in Seq(DOMAIN funcs)
  BY DEF TableFor
<1>3. e \in DOMAIN funcs /\ e # 0 /\ Entry(f, d) = e
  <2>1. e \in DOMAIN funcs /\ funcs[f].index < Len(t)
    BY <1>1, <1>2
  <2>2. funcs \in Seq({funcs[g] : g \in DOMAIN funcs})
    BY DEF FunctionsOK
  <2>3. e # 0
    BY <2>1, <2>2
  <2> QED
    BY <2>1, <2>3 DEF Entry
<1> PICK c : c = funcs[e].class
  OBVIOUS
<1>4. Declares(c, n) /\ c \in Names
  BY <1>1, <1>3, FunctionDeclares
<1>5. c \in Heritage(d) /\ (c = d \/ (~Declares(d, n) /\ ~Redefines(c, n)))
  BY <1>1 DEF TableFor
<1>6. c \in Declaring(d, n)
  BY <1>4, <1>5 DEF Declaring
<1>7. Reaches(f, d) <=> \A b \in Declaring(d, n) \ {c} : Below(c, b)
  BY <1>1, <1>3, <1>6 DEF Reaches
<1>8. CASE c = d
  <2>1. ~Hidden(n, d)
    BY <1>4, <1>8 DEF Hidden
  <2>2. \A b \in Declaring(d, n) \ {c} : Below(c, b)
    BY <1>8 DEF Declaring, Heritage
  <2> QED
    BY <1>7, <2>1, <2>2
<1>9. CASE c # d
  <2>1. ~Declares(d, n) /\ ~Redefines(c, n)
    BY <1>5, <1>9
  <2>2. \A b \in Declaring(d, n) : Declares(b, n) /\ b \in Names
    BY DEF Declaring, Heritage
  <2>3. \A b \in Declaring(d, n) : ~Below(c, b)
    BY <2>1, <2>2 DEF Redefines
  <2>4. Reaches(f, d) <=> Declaring(d, n) = {c}
    BY <1>6, <1>7, <2>3
  <2>5. IsFiniteSet(Declaring(d, n)) /\ Cardinality(Declaring(d, n)) \in Nat
    <3>1. Declaring(d, n) \subseteq Names
      BY <2>2
    <3> QED
      BY <3>1, NamesFinite, FS_Subset, FS_CardinalityType
  <2>6. Cardinality(Declaring(d, n)) # 0
    BY <1>6, <2>5, FS_EmptySet
  <2>7. Cardinality(Declaring(d, n)) = 1 <=> Declaring(d, n) = {c}
    <3> PICK D : D = Declaring(d, n)
      OBVIOUS
    <3>1. IsFiniteSet(D) /\ c \in D
      BY <1>6, <2>5
    <3>2. Cardinality(D) = 1 <=> \E x : D = {x}
      BY <3>1, FS_Singleton, Zenon
    <3>3. \A x : D = {x} => x = c
      BY <3>1
    <3>4. Cardinality(D) = 1 <=> D = {c}
      BY <3>2, <3>3, Zenon
    <3> QED
      BY <3>4, Zenon
  <2> QED
    BY <2>1, <2>4, <2>5, <2>6, <2>7 DEF Hidden
<1> QED
  BY <1>8, <1>9

\* At the end every table is corrected.
LEMMA DispatchEnd ==
  ASSUME IInv, Refusals, Dispatching
  PROVE  CallsReachOverride
<1> SUFFICES ASSUME Accepted, MentionsNoDescendant, MethodsDiffer, Ascending, NEW call \in Dispatches
             PROVE  Reaches(call[1], call[2]) <=> ~Hidden(funcs[call[1]].name, call[2])
  BY DEF CallsReachOverride
<1> PICK f, d : f = call[1] /\ d = call[2]
  OBVIOUS
<1>1. stage = "done" /\ todo = <<>> /\ Regular /\ FunctionsOK /\ Fixing
  BY DEF Accepted, Refusals, Regular, Dispatching
<1>2. prog \in Program /\ known \subseteq Names
  BY DEF IInv, Typed
<1>3. f \in DOMAIN funcs /\ d \in Names /\ funcs[f].class \in Heritage(d)
  BY <1>2 DEF Dispatches
<1>4. ~Waits("fix", d)
  BY <1>1 DEF Waits, ToSet
<1>5. TableFor(d, types[d].vtable) /\ NumbersFor(d, types[d].vtable)
  BY <1>1, <1>3, <1>4 DEF Fixing
<1> QED
  BY <1>1, <1>2, <1>3, <1>5, LoadsRight

-----------------------------------------------------------------------------
(* What stays of it when functions are added *)

\* What classes declare stays as it is.
LEMMA StillDeclared ==
  ASSUME prog' = prog
  PROVE  /\ \A a, n : Declares(a, n)' <=> Declares(a, n)
         /\ \A a, n : Redefines(a, n)' <=> Redefines(a, n)
<1>1. \A a, n : Declares(a, n)' <=> Declares(a, n)
  BY Static, StaticToo DEF Declares
<1> QED
  BY <1>1, Static DEF Redefines

\* A generated table stays one while functions are added,
LEMMA StillBuilt ==
  ASSUME prog' = prog, Kept, NEW c, NEW v, Built(c, v)
  PROVE  Built(c, v)'
<1> PICK N \in Nat : N = Len(v)
  BY DEF Built
<1>1. v \in Seq(DOMAIN funcs) /\ DOMAIN v = 1..N
  BY DEF Built
<1>2. PICK s \in 0..N : BuiltAt(c, v, s)
  BY DEF Built
<1>3. /\ \A j \in 1..s : Below(c, funcs[v[j]].class)
      /\ \A j \in (s + 1)..N : funcs[v[j]].class = c
      /\ \A j, k \in (s + 1)..N : j < k => v[j] < v[k]
      /\ \A n \in 1..LastName : Redefines(c, n) => FromRoot(c, v, s, n)
      /\ \A j \in 1..s : funcs[v[j]].name <= funcs[v[s]].name
  BY <1>2 DEF BuiltAt
<1>4. \A j \in 1..N : v[j] \in DOMAIN funcs' /\ funcs'[v[j]].class = funcs[v[j]].class /\ funcs'[v[j]].name = funcs[v[j]].name
  BY <1>1 DEF Kept
<1>5. /\ \A j \in 1..s : j \in 1..N /\ s \in 1..N
      /\ \A j \in (s + 1)..N : j \in 1..N
  OBVIOUS
<1>6. /\ \A a, b : Below(a, b)' <=> Below(a, b)
      /\ \A a, n : Redefines(a, n)' <=> Redefines(a, n)
  <2>1. \A a, b : Below(a, b)' <=> Below(a, b)
    BY Static
  <2>2. \A a, n : Declares(a, n)' <=> Declares(a, n)
    BY Static, StaticToo DEF Declares
  <2> QED
    BY <2>1, <2>2, Static DEF Redefines
<1>7. \A n \in 1..LastName : Redefines(c, n)' => FromRoot(c, v, s, n)'
  <2> SUFFICES ASSUME NEW n \in 1..LastName, Redefines(c, n)' PROVE FromRoot(c, v, s, n)'
    OBVIOUS
  <2>1. PICK j \in 1..s : /\ funcs[v[j]].name = n /\ ~Redefines(funcs[v[j]].class, n)
                          /\ \A k \in (j + 1)..s : funcs[v[k]].name # n
    BY <1>3, <1>6 DEF FromRoot
  <2>2. funcs'[v[j]].name = n
    BY <1>4, <1>5, <2>1
  <2>3. \A k \in (j + 1)..s : funcs'[v[k]].name # n
    <3>1. \A k \in (j + 1)..s : k \in 1..s
      OBVIOUS
    <3> QED
      BY <1>4, <1>5, <2>1, <3>1
  <2> PICK a : a = funcs[v[j]].class
    OBVIOUS
  <2>5. ~Redefines(a, n)' /\ funcs'[v[j]].class = a
    BY <1>4, <1>5, <1>6, <2>1
  <2>6. ~Redefines(funcs[v[j]].class, n)'
    BY <2>5
  <2> QED
    BY <2>2, <2>3, <2>6 DEF FromRoot
<1>8. v \in Seq(DOMAIN funcs')
  <2>1. \A x \in DOMAIN funcs : x \in DOMAIN funcs'
    BY DEF Kept
  <2> QED
    BY <1>1, <2>1, SeqWiden
<1>9. BuiltAt(c, v, s)'
  <2>1. \A j \in 1..s : Below(c, funcs[v[j]].class)'
    <3> SUFFICES ASSUME NEW j \in 1..s PROVE Below(c, funcs[v[j]].class)'
      OBVIOUS
    <3> PICK a : a = funcs[v[j]].class
      OBVIOUS
    <3>1. Below(c, a)' /\ funcs'[v[j]].class = a
      BY <1>3, <1>4, <1>5, <1>6
    <3> QED
      BY <3>1
  <2>2. \A j \in (s + 1)..N : funcs'[v[j]].class = c
    BY <1>3, <1>4, <1>5
  <2>3. \A j \in 1..s : funcs'[v[j]].name <= funcs'[v[s]].name
    BY <1>3, <1>4, <1>5
  <2> QED
    BY <1>3, <1>7, <2>1, <2>2, <2>3 DEF BuiltAt
<1> QED
  BY <1>8, <1>9 DEF Built

\* and so do the tables of the ancestors, while they get none,
LEMMA StillInLine ==
  ASSUME prog' = prog, Kept, NEW up, InLine(up),
         \A k \in DOMAIN up : \A f \in DOMAIN funcs' : funcs'[f].class = up[k].class => f \in DOMAIN funcs
  PROVE  InLine(up)'
<1>1. ASSUME NEW k \in DOMAIN up PROVE Built(up[k].class, up[k].vtable)' /\ HasAll(up[k].class, up[k].vtable)'
  <2> PICK b, v : b = up[k].class /\ v = up[k].vtable
    OBVIOUS
  <2>1. Built(b, v) /\ HasAll(b, v)
    BY DEF InLine
  <2>2. Built(b, v)'
    BY <2>1, StillBuilt
  <2>3. HasAll(b, v)'
    BY <2>1 DEF HasAll, Kept
  <2> QED
    BY <2>2, <2>3
<1>2. \A j, k \in DOMAIN up : j < k => Below(up[k].class, up[j].class)'
  BY Static DEF InLine
<1> QED
  BY <1>1, <1>2 DEF InLine

\* and what else a class that has inherited needs.
LEMMA StillPrepared ==
  ASSUME prog' = prog, Kept, NEW c, Prepared(c), LineageOK(c), types'[c].ancestors = types[c].ancestors,
         NEW v, v = types'[c].vtable, Built(c, v)', types[c].hasVtable => types'[c].hasVtable,
         \A n \in 1..LastName : created[c][n] # <<>> => created'[c][n] # <<>>,
         \A b : Below(c, b) => \A f \in DOMAIN funcs' : funcs'[f].class = b => f \in DOMAIN funcs
  PROVE  Prepared(c)'
<1> PICK up : up = types[c].ancestors
  OBVIOUS
<1>1. InLine(up)'
  BY StillInLine DEF Prepared, LineageOK
<1>2. \A n \in 1..LastName : Redefines(c, n)' => created'[c][n] # <<>> /\ types'[c].hasVtable
  <2>1. \A n : Redefines(c, n)' <=> Redefines(c, n)
    BY StillDeclared
  <2> QED
    BY <2>1 DEF Prepared, Bequeathed
<1> QED
  BY <1>1, <1>2 DEF Prepared, Bequeathed

-----------------------------------------------------------------------------
(* What the check of a class makes of it *)

\* The check begins with the tables as they were generated.
LEMMA StartCheckFixing ==
  ASSUME IInv, stage = "transform", Regular, FunctionsOK, Transforming, Settling, StartCheck
  PROVE  Fixing'
<1>1. todo = <<>> /\ UNCHANGED <<prog, types, created, funcs, refused>>
  BY DEF StartCheck
<1>2. DOMAIN types = Names /\ (\A c \in Names : Ready(c)) /\ \A c \in Names : Waits("fix", c)'
  BY <1>1, AllReady, StartCheckKeeps
<1>3. Names' = Names
  BY <1>1, Static
<1>4. Kept
  BY <1>1 DEF Kept
<1>5. ASSUME NEW c \in Names PROVE Prepared(c)'
  <2>1. ~Waits("inherit", c)
    BY <1>1 DEF Waits, ToSet
  <2>2. Prepared(c) /\ LineageOK(c)
    BY <1>2, <2>1 DEF Settling, IInv, Typed
  <2> PICK v : v = types[c].vtable
    OBVIOUS
  <2>3. v = types'[c].vtable /\ Built(c, v)'
    BY <1>1, <1>4, <2>2, StillBuilt DEF Prepared
  <2> QED
    BY <1>1, <1>4, <2>2, <2>3, StillPrepared
<1>6. AllMade'
  <2>1. \A c \in Names : \A i \in DOMAIN Class(c).methods : Made(c, i)
    BY <1>2 DEF Ready
  <2>2. \A c, i : Made(c, i)' <=> Made(c, i)
    BY <1>1, Quiet
  <2>3. \A c : Class(c)' = Class(c)
    BY <1>1, Static
  <2> QED
    BY <1>3, <2>1, <2>2, <2>3 DEF AllMade
<1> QED
  BY <1>2, <1>3, <1>5, <1>6 DEF Fixing

\* A corrected table stays one while the functions keep their names,
LEMMA StillTableFor ==
  ASSUME prog' = prog, Kept, NEW d, NEW t, TableFor(d, t)
  PROVE  TableFor(d, t)'
<1>1. t \in Seq(DOMAIN funcs) /\ Sorted(t)
  BY DEF TableFor
<1>2. \A j \in DOMAIN t : t[j] \in DOMAIN funcs /\ funcs'[t[j]].class = funcs[t[j]].class /\ funcs'[t[j]].name = funcs[t[j]].name
  BY <1>1 DEF Kept
<1>3. \A a, n : Declares(a, n)' <=> Declares(a, n)
  BY StillDeclared
<1>4. \A a, n : Redefines(a, n)' <=> Redefines(a, n)
  BY StillDeclared
<1>5. Heritage(d)' = Heritage(d)
  BY Static DEF Heritage
<1>6. t \in Seq(DOMAIN funcs')
  <2>1. \A x \in DOMAIN funcs : x \in DOMAIN funcs'
    BY DEF Kept
  <2> QED
    BY <1>1, <2>1, SeqWiden
<1>7. Sorted(t)'
  BY <1>1, <1>2 DEF Sorted
<1>8. NamesIn(t)' = NamesIn(t)
  BY <1>2 DEF NamesIn
<1>9. \A n \in 1..LastName : Declares(d, n)' \/ Redefines(d, n)' => n \in NamesIn(t)'
  BY <1>3, <1>4, <1>8 DEF TableFor
<1>10. ASSUME NEW j \in DOMAIN t
       PROVE  /\ funcs'[t[j]].class \in Heritage(d)'
              /\ \/ funcs'[t[j]].class = d
                 \/ ~Declares(d, funcs[t[j]].name)' /\ ~Redefines(funcs[t[j]].class, funcs[t[j]].name)'
  <2> PICK a, n : a = funcs[t[j]].class /\ n = funcs[t[j]].name
    OBVIOUS
  <2>1. funcs'[t[j]].class = a /\ funcs'[t[j]].name = n
    BY <1>2
  <2>2. a \in Heritage(d) /\ (a = d \/ (~Declares(d, n) /\ ~Redefines(a, n)))
    BY DEF TableFor
  <2>3. a \in Heritage(d)' /\ (a = d \/ (~Declares(d, n)' /\ ~Redefines(a, n)'))
    BY <1>3, <1>4, <1>5, <2>2
  <2> QED
    BY <2>1, <2>3
<1> QED
  BY <1>6, <1>7, <1>9, <1>10 DEF TableFor

\* and so does the order in which the names were generated.
LEMMA StillAscending ==
  ASSUME prog' = prog, FunctionsOK, NEW c, Fixed(c), Ascending'
  PROVE  Ascending
<1>1. /\ DOMAIN funcs' = DOMAIN funcs
      /\ \A f \in DOMAIN funcs : funcs'[f].class = funcs[f].class /\ funcs'[f].name = funcs[f].name
  BY DEF Fixed
<1>2. \A a, n : Redefines(a, n)' <=> Redefines(a, n)
  BY StillDeclared
<1>3. DOMAIN funcs = 1..Len(funcs) /\ Len(funcs) \in Nat
  <2>1. funcs \in Seq({funcs[f] : f \in DOMAIN funcs})
    BY DEF FunctionsOK
  <2> QED
    BY <2>1
<1> SUFFICES
      ASSUME NEW f \in DOMAIN funcs
      PROVE  LET own == {g \in 1 .. f - 1 : funcs[g].class = funcs[f].class}
                 before == {funcs[g].name : g \in own} \cup {n \in 1 .. LastName : Redefines(funcs[f].class, n)}
             IN  \/ funcs[f].name \in before
                 \/ \A n \in before : n < funcs[f].name /\ (own # {} => n <= funcs[Max(own)].name)
  BY Zenon DEF Ascending
<1> DEFINE own == {g \in 1 .. f - 1 : funcs[g].class = funcs[f].class}
           own2 == {g \in 1 .. f - 1 : funcs'[g].class = funcs'[f].class}
           before == {funcs[g].name : g \in own} \cup {n \in 1 .. LastName : Redefines(funcs[f].class, n)}
           before2 == {funcs'[g].name : g \in own2} \cup {n \in 1 .. LastName : Redefines(funcs[f].class, n)'}
<1>4. \/ funcs'[f].name \in before2
      \/ \A n \in before2 : n < funcs'[f].name /\ (own2 # {} => n <= funcs'[Max(own2)].name)
  BY <1>1, Zenon DEF Ascending
<1>5. \A g \in 1 .. f - 1 : g \in DOMAIN funcs
  BY <1>3
<1>6. own2 = own /\ \A g \in own : g \in DOMAIN funcs
  BY <1>1, <1>5
<1>7. before2 = before
  <2>1. \A n : Redefines(funcs[f].class, n)' <=> Redefines(funcs[f].class, n)
    <3> PICK a : a = funcs[f].class
      OBVIOUS
    <3>1. funcs'[f].class = a /\ \A n : Redefines(a, n)' <=> Redefines(a, n)
      BY <1>1, <1>2
    <3> QED
      BY <3>1
  <2>2. {funcs'[g].name : g \in own} = {funcs[g].name : g \in own}
    BY <1>1, <1>6
  <2> HIDE DEF own, own2
  <2> QED
    BY <1>6, <2>1, <2>2
<1>8. own # {} => Max(own) \in own
  <2> SUFFICES ASSUME own # {} PROVE Max(own) \in own
    OBVIOUS
  <2>1. \E n \in own : \A g \in own : n >= g
    <3> DEFINE S == {f - g : g \in own}
    <3>1. f \in Nat /\ \A g \in own : g \in Nat /\ f - g \in Nat
      BY <1>3
    <3>2. PICK m \in S : \A y \in S : m <= y
      BY <3>1, Least
    <3>3. PICK n \in own : m = f - n
      BY <3>2
    <3>4. ASSUME NEW g \in own PROVE n >= g
      <4>1. f - g \in S
        OBVIOUS
      <4>2. f - n <= f - g
        BY <3>2, <3>3, <4>1
      <4> QED
        BY <3>1, <4>2
    <3> QED
      BY <3>4
  <2> QED
    BY <2>1, Zenon DEF Max
<1>9. own # {} => funcs'[Max(own)].name = funcs[Max(own)].name
  BY <1>1, <1>6, <1>8
<1> HIDE DEF own, own2, before, before2
<1>10. \/ funcs[f].name \in before
       \/ \A n \in before : n < funcs[f].name /\ (own # {} => n <= funcs[Max(own)].name)
  BY <1>1, <1>4, <1>6, <1>7, <1>9
<1> QED
  BY <1>10 DEF own, before

\* The check of a class numbers the functions as the other corrected tables have them.
LEMMA OtherNumbers ==
  ASSUME prog \in Program, MentionsNoDescendant, FunctionsOK, AllMade, Ascending, NEW c \in Names, NEW d \in Names,
         NEW fixed, TableFor(c, fixed.table),
         \A f \in DOMAIN funcs : funcs[f].class \in Heritage(c) => Numbered(fixed, f),
         \A f \in DOMAIN funcs : funcs[f].class \notin Heritage(c) => fixed.index[f] = funcs[f].index,
         NEW u, TableFor(d, u), NumbersFor(d, u),
         NEW f \in DOMAIN funcs, funcs[f].class \in Heritage(d)
  PROVE  fixed.index[f] + 1 \in DOMAIN u /\ funcs[u[fixed.index[f] + 1]].name = funcs[f].name
<1> PICK b, n, t : b = funcs[f].class /\ n = funcs[f].name /\ t = fixed.table
  OBVIOUS
<1> PICK j : j = funcs[f].index + 1
  OBVIOUS
<1>1. j \in DOMAIN u /\ funcs[u[j]].name = n
  BY DEF NumbersFor
<1>2. Declares(b, n)
  BY FunctionDeclares
<1>3. CASE b \in Heritage(c)
  <2> PICK i : i = fixed.index[f] + 1
    OBVIOUS
  <2>1. i \in DOMAIN t /\ funcs[t[i]].name = n
    BY <1>3 DEF Numbered
  <2>2. TableFor(c, t) /\ b \in Heritage(d)
    OBVIOUS
  <2>3. i = j
    BY <1>1, <1>2, <1>3, <2>1, <2>2, SamePlaces
  <2> QED
    BY <1>1, <2>3
<1>4. CASE b \notin Heritage(c)
  <2>1. fixed.index[f] = funcs[f].index
    BY <1>4
  <2> QED
    BY <1>1, <2>1
<1> QED
  BY <1>3, <1>4

\* A class without a table has no functions to put there.
LEMMA NothingToFix ==
  ASSUME prog \in Program, FunctionsOK, NEW c \in Names, Ready(c), Prepared(c), ~types[c].hasVtable
  PROVE  TableFor(c, types[c].vtable) /\ NumbersFor(c, types[c].vtable)
<1> PICK t : t = types[c].vtable
  OBVIOUS
<1>1. \A n : ~Declares(c, n)
  BY DEF Ready, Declares
<1>2. \A n \in 1..LastName : ~Redefines(c, n)
  BY DEF Prepared, Bequeathed
<1>3. \A f \in DOMAIN funcs : funcs[f].class # c /\ ~Below(c, funcs[f].class)
  BY <1>1, <1>2, FunctionDeclares DEF Redefines
<1>4. Built(c, t)
  BY DEF Prepared
<1>5. t \in Seq(DOMAIN funcs) /\ \A j \in DOMAIN t : FALSE
  BY <1>3, <1>4, BuiltOf DEF Built
<1>6. \A f \in DOMAIN funcs : funcs[f].class \notin Heritage(c)
  BY <1>3 DEF Heritage
<1> QED
  BY <1>1, <1>2, <1>5, <1>6 DEF TableFor, NumbersFor, Sorted

\* The check of a class.
LEMMA FixTypesFixing ==
  ASSUME IInv, stage # "transform", Regular, FunctionsOK, Checking, Fixing, fixTypes
  PROVE  Fixing'
<1>1. todo # <<>> /\ Head(todo).do = "fix" /\ todo' = <<>> \o Tail(todo) /\ prog' = prog /\ created' = created
  BY DEF fixTypes, Doing, Then
<1>2. prog \in Program /\ todo \in Seq({todo[i] : i \in DOMAIN todo}) /\ \A i \in DOMAIN todo : todo[i].do = "fix"
  BY DEF IInv, Typed
<1> PICK c : c = This
  OBVIOUS
<1>3. c \in Names /\ Waits("fix", c) /\ OneLess(c)
  <2>1. 1 \in DOMAIN todo /\ todo[1] = Head(todo) /\ Head(todo).class = c
    BY <1>1, <1>2 DEF This
  <2>2. todo[1].class \in Names
    BY <2>1 DEF Checking
  <2>3. Waits("fix", c) /\ OneLess(c)
    BY <1>1, <1>2, CheckedWaits
  <2> QED
    BY <2>1, <2>2, <2>3
<1>4. Ready(c) /\ Prepared(c) /\ DOMAIN types = Names
  BY <1>3 DEF Checking, Fixing
<1>5. \A d \in Names : LineageOK(d)
  BY <1>4 DEF IInv, Typed
<1>6. MentionsNoDescendant /\ MethodsDiffer /\ AllMade
  BY DEF Regular, Fixing
<1>7. Tabled(c) /\ Inherits(c)
  BY <1>4 DEF Ready
<1> PICK fixed : fixed = FixedTable(c, Lists(c))
  OBVIOUS
\* What it makes of the functions and of the other classes.
<1>8. /\ Fixed(c) /\ DOMAIN types' = DOMAIN types /\ \A d \in DOMAIN types : d # c => types'[d] = types[d]
      /\ IF types[c].hasVtable
         THEN types'[c].vtable = fixed.table /\ \A f \in DOMAIN funcs : funcs'[f].index = fixed.index[f]
         ELSE types' = types /\ funcs' = funcs
  <2>1. CASE ~types[c].hasVtable
    BY <2>1 DEF fixTypes, Fixed
  <2>2. CASE types[c].hasVtable
    <3>1. /\ types' = [types EXCEPT ![c].vtable = fixed.table]
          /\ funcs' = [f \in DOMAIN funcs |-> Rewritten(fixed, f)]
      BY <2>2 DEF fixTypes, Lists, Rewritten
    <3>2. fixed \in Working /\ \A g \in fixed.refused : g \in DOMAIN funcs /\ funcs[g].class = c
      BY <1>2, <1>3, <1>4, <1>5, <1>6, FixedRefuses
    <3>3. Fixed(c)
      BY <1>1, <3>1, <3>2, FunctionsFixed
    <3>4. \A f \in DOMAIN funcs : funcs'[f].index = fixed.index[f]
      BY <3>1, Zenon DEF Rewritten, FunctionsOK
    <3>5. types'[c].vtable = fixed.table /\ DOMAIN types' = DOMAIN types /\ \A d \in DOMAIN types : d # c => types'[d] = types[d]
      <4>1. DOMAIN types[c] = {"id", "ancestors", "hasVtable", "vtable"} /\ c \in DOMAIN types
        BY <1>3, <1>4 DEF IInv, Typed
      <4> QED
        BY <3>1, <4>1
    <3> QED
      BY <2>2, <3>3, <3>4, <3>5
  <2> QED
    BY <2>1, <2>2
<1>9. Kept /\ DOMAIN funcs' = DOMAIN funcs /\ \A f \in DOMAIN funcs : funcs'[f].class = funcs[f].class /\ funcs'[f].name = funcs[f].name
  BY <1>8 DEF Fixed, Kept
<1>10. Names' = Names
  BY <1>1, Static
<1>11. AllMade'
  <2>1. \A a, i : Method(a, i)' = Method(a, i)
    BY <1>1, StaticToo
  <2>2. \A a : Class(a)' = Class(a)
    BY <1>1, Static
  <2>3. \A a, i : Made(a, i) => Made(a, i)'
    BY <1>9, <2>1 DEF Made, Of
  <2> QED
    BY <1>6, <1>10, <2>2, <2>3 DEF AllMade
<1>12. ASSUME NEW d \in Names, Waits("fix", d)' PROVE Prepared(d)'
  <2>1. d # c /\ Waits("fix", d)
    BY <1>3, <1>12 DEF OneLess
  <2>2. Prepared(d) /\ LineageOK(d) /\ types'[d] = types[d]
    BY <1>4, <1>5, <1>8, <2>1 DEF Fixing
  <2> PICK v : v = types[d].vtable
    OBVIOUS
  <2>3. v = types'[d].vtable /\ Built(d, v)'
    BY <1>1, <1>9, <2>2, StillBuilt DEF Prepared
  <2> QED
    BY <1>1, <1>9, <2>2, <2>3, StillPrepared
<1>13. ASSUME NEW d \in Names, ~Waits("fix", d)', Ascending' PROVE TableFor(d, types[d].vtable)' /\ NumbersFor(d, types[d].vtable)'
  <2>1. Ascending
    BY <1>1, <1>8, <1>13, StillAscending
  <2>2. Heritage(d)' = Heritage(d)
    BY <1>1, Static DEF Heritage
  <2> PICK u : u = types'[d].vtable
    OBVIOUS
  <2>3. CASE types[c].hasVtable
    <3>1. /\ TableFor(c, fixed.table)
          /\ \A f \in DOMAIN funcs : funcs[f].class \in Heritage(c) => Numbered(fixed, f)
          /\ \A f \in DOMAIN funcs : funcs[f].class \notin Heritage(c) => fixed.index[f] = funcs[f].index
      BY <1>2, <1>3, <1>4, <1>5, <1>6, <1>7, <2>1, CheckedRight
    <3>2. /\ TableFor(d, u)
          /\ \A f \in DOMAIN funcs : funcs[f].class \in Heritage(d) =>
                fixed.index[f] + 1 \in DOMAIN u /\ funcs[u[fixed.index[f] + 1]].name = funcs[f].name
      <4>1. CASE d = c
        BY <1>8, <2>3, <3>1, <4>1 DEF Numbered
      <4>2. CASE d # c
        <5>1. ~Waits("fix", d) /\ types'[d] = types[d]
          BY <1>3, <1>4, <1>8, <1>13, <4>2 DEF OneLess
        <5>2. TableFor(d, u) /\ NumbersFor(d, u)
          BY <2>1, <5>1 DEF Fixing
        <5> QED
          BY <1>2, <1>3, <1>6, <2>1, <3>1, <5>2, OtherNumbers
      <4> QED
        BY <4>1, <4>2
    <3>3. TableFor(d, u)'
      BY <1>1, <1>9, <3>2, StillTableFor
    <3>4. \A j \in DOMAIN u : u[j] \in DOMAIN funcs
      BY <3>2 DEF TableFor
    <3>5. \A f \in DOMAIN funcs' : funcs'[f].class \in Heritage(d)' =>
             funcs'[f].index + 1 \in DOMAIN u /\ funcs'[u[funcs'[f].index + 1]].name = funcs'[f].name
      BY <1>8, <1>9, <2>2, <2>3, <3>2, <3>4
    <3> QED
      BY <3>3, <3>5 DEF NumbersFor
  <2>4. CASE ~types[c].hasVtable
    <3>1. types' = types /\ funcs' = funcs
      BY <1>8, <2>4
    <3>2. TableFor(d, u) /\ NumbersFor(d, u)
      <4>1. CASE d = c
        BY <1>2, <1>3, <1>4, <2>4, <3>1, <4>1, NothingToFix
      <4>2. CASE d # c
        <5>1. ~Waits("fix", d)
          BY <1>3, <1>13, <4>2 DEF OneLess
        <5> QED
          BY <2>1, <3>1, <5>1 DEF Fixing
      <4> QED
        BY <4>1, <4>2
    <3>3. TableFor(d, u)'
      BY <1>1, <1>9, <3>2, StillTableFor
    <3>4. NumbersFor(d, u)'
      BY <2>2, <3>1, <3>2 DEF NumbersFor
    <3> QED
      BY <3>3, <3>4
  <2> QED
    BY <2>3, <2>4
<1> QED
  BY <1>10, <1>11, <1>12, <1>13 DEF Fixing

-----------------------------------------------------------------------------
(* The steps of the generation *)

\* Nothing is left to do above a class while only types and tasks of other classes come to what waits.
LEMMA StillSettled ==
  ASSUME prog' = prog, NEW c, Settled(c), \A t \in ToSet(todo)' : t \in ToSet(todo) \/ t.do = "type" \/ ~Below(c, t.class)
  PROVE  Settled(c)'
BY Static DEF Settled

\* The oldest functions stay what they are while there are no others.
LEMMA StillRooted ==
  ASSUME prog' = prog, funcs' = funcs, created' = created, Rooted
  PROVE  Rooted'
<1>1. ASSUME NEW c \in Names, NEW n \in 1..LastName, created[c][n] # <<>>
      PROVE  ~Redefines(funcs[created[c][n][Len(created[c][n])]].class, n)'
  <2> PICK a : a = funcs[created[c][n][Len(created[c][n])]].class
    OBVIOUS
  <2>1. ~Redefines(a, n)'
    BY <1>1, StillDeclared DEF Rooted
  <2> QED
    BY <2>1
<1>2. Names' = Names
  BY Static
<1> QED
  BY <1>1, <1>2 DEF Rooted

\* A step that makes no function leaves a class that has inherited settled.
LEMMA QuietSettled ==
  ASSUME prog' = prog, funcs' = funcs, NEW c, Prepared(c), Settled(c), LineageOK(c), created'[c] = created[c],
         types'[c].ancestors = types[c].ancestors, types'[c].vtable = types[c].vtable, types[c].hasVtable => types'[c].hasVtable,
         \A t \in ToSet(todo)' : t \in ToSet(todo) \/ t.do = "type" \/ ~Below(c, t.class)
  PROVE  Prepared(c)' /\ Settled(c)'
<1>1. Kept
  BY DEF Kept
<1> PICK v : v = types'[c].vtable
  OBVIOUS
<1>2. Built(c, v)'
  BY <1>1, StillBuilt DEF Prepared
<1>3. Prepared(c)'
  BY <1>1, <1>2, StillPrepared
<1> QED
  BY <1>3, StillSettled

\* A task that is done away with, of a class that does not inherit,
LEMMA PoppedSettling ==
  ASSUME IInv, stage = "transform", Transforming, Settling,
         UNCHANGED <<prog, funcs, created>>, todo # <<>>, todo' = <<>> \o Tail(todo), Head(todo).do # "inherit",
         DOMAIN types' = DOMAIN types,
         \A c \in DOMAIN types : /\ types'[c].ancestors = types[c].ancestors /\ types'[c].vtable = types[c].vtable
                                 /\ types[c].hasVtable => types'[c].hasVtable
  PROVE  Settling'
<1>1. Rooted'
  BY StillRooted DEF Settling
<1>2. todo \in Seq(Tasks) /\ InTurn(todo)
  BY HeadType DEF Transforming
<1>3. \A t \in ToSet(todo)' : t \in ToSet(todo)
  BY <1>2, Popped
<1>4. \A c : Waits("inherit", c) => Waits("inherit", c)'
  BY <1>2, Popped
<1>5. ASSUME NEW c \in DOMAIN types, ~Waits("inherit", c)' PROVE Prepared(c)' /\ Settled(c)'
  <2>1. Prepared(c) /\ Settled(c) /\ LineageOK(c)
    BY <1>4, <1>5, HeadType DEF Settling
  <2>2. created'[c] = created[c]
    OBVIOUS
  <2> QED
    BY <1>3, <2>1, <2>2, QuietSettled
<1> QED
  BY <1>1, <1>5 DEF Settling

\* a class that is declared,
LEMMA DeclareSettling ==
  ASSUME IInv, stage = "transform", Transforming, Settling, DeclareMethods
  PROVE  Settling'
<1>1. todo # <<>> /\ Head(todo).do = "declare" /\ todo' = <<>> \o Tail(todo) /\ UNCHANGED <<prog, funcs, created>>
  BY DEF DeclareMethods, Doing, Then
<1>2. PICK b : types' = [types EXCEPT ![This].hasVtable = b] /\ (types[This].hasVtable => b)
  <2> DEFINE own == Class(This).methods # <<>> \/ types[This].hasVtable
             up == Reverse(types[This].ancestors)
             k == SelectInSeq(up, LAMBDA a : a.class \notin known \/ types[a.class].hasVtable)
  <2>1. IF own \/ k = 0 THEN types' = [types EXCEPT ![This].hasVtable = own]
        ELSE types' = [types EXCEPT ![This].hasVtable = up[k].class \in known]
    BY Zenon DEF DeclareMethods
  <2>2. types[This].hasVtable => own
    OBVIOUS
  <2> HIDE DEF own, up, k
  <2> QED
    BY <2>1, <2>2
<1>3. \A c \in DOMAIN types : DOMAIN types[c] = {"id", "ancestors", "hasVtable", "vtable"}
  BY <1>1, HeadType
<1>4. /\ DOMAIN types' = DOMAIN types
      /\ \A c \in DOMAIN types : /\ types'[c].ancestors = types[c].ancestors /\ types'[c].vtable = types[c].vtable
                                 /\ types[c].hasVtable => types'[c].hasVtable
  BY <1>2, <1>3
<1> QED
  BY <1>1, <1>4, PoppedSettling

\* and a class that is met, which is above none that has inherited.
LEMMA VisitSettling ==
  ASSUME IInv, stage = "transform", Transforming, Settling, VisitType
  PROVE  Settling'
<1>1. todo # <<>> /\ Head(todo).do = "type" /\ UNCHANGED <<prog, funcs, created>>
  BY DEF VisitType, Doing
<1>2. CASE This \in DOMAIN types
  <2>1. todo' = <<>> \o Tail(todo) /\ types' = types
    BY <1>2 DEF VisitType, Then
  <2> QED
    BY <1>1, <2>1, PoppedSettling
<1>3. CASE This \notin DOMAIN types
  <2> PICK n, s : n = This /\ s = Stages(This)
    OBVIOUS
  <2>1. todo' = s \o Tail(todo) /\ DOMAIN types' = DOMAIN types \cup {n} /\ \A c \in DOMAIN types : types'[c] = types[c]
    BY <1>3 DEF VisitType, Then
  <2>2. todo \in Seq(Tasks) /\ n \in Names /\ prog \in Program
    BY <1>1, HeadType DEF IInv, Typed
  <2>3. /\ s \in Seq(Tasks) /\ \A t \in ToSet(s) : t.do = "type" \/ t.class = n
        /\ \E t \in ToSet(s) : t.do = "inherit" /\ t.class = n
    BY <2>2, StagesTasks
  <2>4. /\ \A t : t \in ToSet(todo) <=> t = Head(todo) \/ t \in Rest
        /\ \A t : t \in ToSet(todo)' <=> t \in ToSet(s) \/ t \in Rest
    BY <1>1, <2>1, <2>2, <2>3, Turned
  <2>5. Waits("inherit", n)'
    BY <2>3, <2>4 DEF Waits
  <2>6. \A c : Waits("inherit", c) => Waits("inherit", c)'
    BY <1>1, <2>4 DEF Waits
  <2>7. ASSUME NEW c \in DOMAIN types, ~Waits("inherit", c)' PROVE Prepared(c)' /\ Settled(c)'
    <3>1. Prepared(c) /\ Settled(c) /\ LineageOK(c) /\ Inherits(c)
      BY <1>1, <2>6, <2>7, HeadType DEF Settling, Transforming
    <3>2. ~Below(c, n)
      <4> SUFFICES ASSUME Below(c, n) PROVE FALSE
        OBVIOUS
      <4>1. PICK k \in DOMAIN types[c].ancestors : types[c].ancestors[k].class = n
        BY <2>2, <3>1 DEF Inherits, HasAncestors
      <4>2. n \in DOMAIN types
        BY <3>1, <4>1 DEF LineageOK
      <4> QED
        BY <1>3, <4>2
    <3>3. \A t \in ToSet(todo)' : t \in ToSet(todo) \/ t.do = "type" \/ ~Below(c, t.class)
      BY <2>3, <2>4, <3>2
    <3>4. types'[c] = types[c] /\ created'[c] = created[c]
      BY <1>1, <2>1
    <3> QED
      BY <1>1, <3>1, <3>3, <3>4, QuietSettled
  <2>8. Rooted'
    BY <1>1, StillRooted DEF Settling
  <2> QED
    BY <2>1, <2>5, <2>7, <2>8 DEF Settling
<1> QED
  BY <1>2, <1>3

\* A class's table is still as it is generated when the newest function is added.
LEMMA BuiltMore ==
  ASSUME prog' = prog, Kept, NEW c, NEW v, Built(c, v), NEW n \in DOMAIN funcs', funcs'[n].class = c,
         \A f \in DOMAIN funcs : f < n, NEW u, u = Append(v, n)
  PROVE  Built(c, u)'
<1> PICK N \in Nat : N = Len(v)
  BY DEF Built
<1>1. v \in Seq(DOMAIN funcs) /\ DOMAIN v = 1..N
  BY DEF Built
<1>2. PICK s \in 0..N : BuiltAt(c, v, s)'
  BY StillBuilt DEF Built
<1>3. /\ \A j \in 1..s : Below(c, funcs[v[j]].class)'
      /\ \A j \in (s + 1)..N : funcs'[v[j]].class = c
      /\ \A j, k \in (s + 1)..N : j < k => v[j] < v[k]
      /\ \A m \in 1..LastName : Redefines(c, m)' => FromRoot(c, v, s, m)'
      /\ \A j \in 1..s : funcs'[v[j]].name <= funcs'[v[s]].name
  BY <1>2 DEF BuiltAt
<1>4. v \in Seq(DOMAIN funcs') /\ \A j \in 1..N : v[j] < n
  <2>1. \A x \in DOMAIN funcs : x \in DOMAIN funcs'
    BY DEF Kept
  <2>2. \A j \in 1..N : v[j] \in DOMAIN funcs
    BY <1>1
  <2> QED
    BY <1>1, <2>1, <2>2, SeqWiden
<1>5. u \in Seq(DOMAIN funcs') /\ Len(u) = N + 1 /\ u[N + 1] = n /\ \A j \in 1..N : u[j] = v[j]
  BY <1>4
<1>6. /\ \A j \in 1..s : u[j] = v[j]
      /\ s \in 1..s \/ ~ \E j : j \in 1..s
      /\ \A j \in (s + 1)..(N + 1) : (j \in (s + 1)..N /\ j \in 1..N /\ u[j] = v[j]) \/ (j = N + 1 /\ u[j] = n)
  BY <1>5
<1>7. \A j \in 1..s : Below(c, funcs[u[j]].class)'
  BY <1>3, <1>6
<1>8. \A j \in (s + 1)..(N + 1) : funcs'[u[j]].class = c
  BY <1>3, <1>6
<1>9. \A j, k \in (s + 1)..(N + 1) : j < k => u[j] < u[k]
  <2> SUFFICES ASSUME NEW j \in (s + 1)..(N + 1), NEW k \in (s + 1)..(N + 1), j < k PROVE u[j] < u[k]
    OBVIOUS
  <2>1. j \in (s + 1)..N /\ j \in 1..N /\ u[j] = v[j]
    BY <1>6
  <2>2. CASE k \in (s + 1)..N
    BY <1>3, <1>6, <2>1, <2>2
  <2>3. CASE k = N + 1
    BY <1>4, <1>5, <2>1, <2>3
  <2> QED
    BY <2>2, <2>3
<1>10. ASSUME NEW m \in 1..LastName, Redefines(c, m)' PROVE FromRoot(c, u, s, m)'
  <2>1. PICK j \in 1..s : /\ funcs'[v[j]].name = m /\ ~Redefines(funcs[v[j]].class, m)'
                          /\ \A k \in (j + 1)..s : funcs'[v[k]].name # m
    BY <1>3, <1>10 DEF FromRoot
  <2>2. \A k \in (j + 1)..s : k \in 1..s
    OBVIOUS
  <2> QED
    BY <1>6, <2>1, <2>2 DEF FromRoot
<1>11. \A j \in 1..s : funcs'[u[j]].name <= funcs'[u[s]].name
  BY <1>3, <1>6
<1>12. BuiltAt(c, u, s)'
  BY <1>5, <1>7, <1>8, <1>9, <1>10, <1>11 DEF BuiltAt
<1>13. s \in 0..Len(u)
  BY <1>5
<1> QED
  BY <1>5, <1>12, <1>13 DEF Built

\* createdFunctions with a function n put before the others of its name.
NewestOf(c, m, n) ==
  /\ \A d \in Names : \A a \in 1..LastName : ~(d = c /\ a = m) => created'[d][a] = created[d][a]
  /\ created'[c][m] # <<>>
  /\ created'[c][m][Len(created'[c][m])] = IF created[c][m] = <<>> THEN n ELSE created[c][m][Len(created[c][m])]
LEMMA OneMore ==
  ASSUME prog \in Program, Entered, NEW c \in Names, NEW m \in 1..LastName, NEW n,
         created' = [created EXCEPT ![c] = [created[c] EXCEPT ![m] = <<n>> \o created[c][m]]]
  PROVE  NewestOf(c, m, n)
<1>1. created \in [Names -> [1..LastName -> Seq(DOMAIN funcs)]]
  BY DEF Entered
<1> PICK old, new : old = created[c][m] /\ new = <<n>> \o old
  OBVIOUS
<1>2. old \in Seq(DOMAIN funcs)
  BY <1>1
<1>3. /\ new # <<>> /\ new[Len(new)] = IF old = <<>> THEN n ELSE old[Len(old)]
  <2> DEFINE S == DOMAIN funcs \cup {n}
             one == <<n>>
  <2>1. one \in Seq(S) /\ Len(one) = 1 /\ one[1] = n /\ old \in Seq(S) /\ Len(old) \in Nat
    BY <1>2
  <2> HIDE DEF S, one
  <2>2. /\ one \o old \in Seq(S) /\ Len(one \o old) = Len(one) + Len(old)
        /\ \A j \in 1..(Len(one) + Len(old)) : (one \o old)[j] = IF j <= Len(one) THEN one[j] ELSE old[j - Len(one)]
    BY <2>1, ConcatProperties
  <2>3. new = one \o old /\ (old = <<>> <=> Len(old) = 0)
    BY <2>1 DEF one
  <2>4. Len(new) = Len(old) + 1 /\ \A j \in 1..(Len(old) + 1) : new[j] = IF j <= 1 THEN one[j] ELSE old[j - 1]
    BY <2>1, <2>2, <2>3
  <2>5. new # <<>>
    BY <2>1, <2>4
  <2>6. new[Len(new)] = IF Len(old) = 0 THEN n ELSE old[Len(old)]
    BY <2>1, <2>4
  <2> QED
    BY <2>3, <2>5, <2>6
<1>4. \A d \in Names : \A a \in 1..LastName : created'[d][a] = IF d = c /\ a = m THEN new ELSE created[d][a]
  <2>1. created' = [created EXCEPT ![c] = [created[c] EXCEPT ![m] = new]]
    OBVIOUS
  <2> PICK row : row = [created[c] EXCEPT ![m] = new]
    OBVIOUS
  <2>2. DOMAIN row = 1..LastName /\ \A a \in 1..LastName : row[a] = IF a = m THEN new ELSE created[c][a]
    BY <1>1
  <2>3. DOMAIN created' = Names /\ \A d \in Names : created'[d] = IF d = c THEN row ELSE created[d]
    BY <1>1, <2>1
  <2> QED
    BY <2>2, <2>3
<1>5. created'[c][m] = new
  BY <1>4
<1> QED
  BY <1>3, <1>4, <1>5 DEF NewestOf

\* A method of a class that has inherited gets a function, and is the oldest of its name when it is new.
LEMMA FunctionSettling ==
  ASSUME IInv, stage = "transform", Regular, FunctionsOK, Transforming, Settling, todo # <<>>, Head(todo).do \in {"method", "call"},
         transformFunction(This, Head(todo).i), prog' = prog
  PROVE  Settling'
<1> PICK c, i, n, at, m : c = This /\ i = Head(todo).i /\ n = Len(funcs) + 1 /\ at = Len(types[c].vtable) /\ m = Method(c, i).name
  OBVIOUS
<1>1. /\ funcs' = Append(funcs, [class |-> c, name |-> Method(c, i).name, override |-> Method(c, i).override, index |-> at])
      /\ types' = [types EXCEPT ![c].vtable = Append(@, n)]
      /\ created' = [created EXCEPT ![c][Method(c, i).name] = <<n>> \o @]
      /\ todo' = Body(c, Method(c, i).does) \o Tail(todo)
  BY DEF transformFunction, Then
<1>2. InTurn(todo) /\ Awaited /\ Entered /\ MethodsDiffer /\ MentionsNoDescendant /\ prog \in Program
  BY DEF Transforming, Regular, IInv, Typed
<1>3. /\ c \in Names /\ c \in DOMAIN types /\ i \in DOMAIN Class(c).methods
      /\ \A d : Waits("inherit", d)' <=> Waits("inherit", d)
  BY <1>1, <1>2, BodyWaits
<1>4. todo \in Seq(Tasks) /\ \A d \in DOMAIN types : DOMAIN types[d] = {"id", "ancestors", "hasVtable", "vtable"} /\ LineageOK(d)
  BY HeadType
<1>5. /\ DOMAIN types' = DOMAIN types /\ \A d \in DOMAIN types : d # c => types'[d] = types[d]
      /\ types'[c].vtable = Append(types[c].vtable, n) /\ types'[c].ancestors = types[c].ancestors
      /\ types'[c].hasVtable = types[c].hasVtable
  BY <1>1, <1>3, <1>4
<1>6. at \in Nat
  <2>1. types[c].vtable \in Seq(Upward(c))
    BY <1>3 DEF Transforming, Tabled, HasFunctions
  <2> QED
    BY <2>1
<1>7. Grown(c, i, n)
  BY <1>1, <1>6, GrownBy
<1>8. /\ Kept /\ n \in DOMAIN funcs' /\ funcs'[n].class = c /\ funcs'[n].name = m
      /\ \A f \in DOMAIN funcs' : f \in DOMAIN funcs \/ f = n
  BY <1>7 DEF Grown, Kept
<1>9. \A f \in DOMAIN funcs : f < n
  <2>1. funcs \in Seq({funcs[f] : f \in DOMAIN funcs})
    BY DEF FunctionsOK
  <2> QED
    BY <2>1
<1>10. m \in 1..LastName
  BY <1>2, <1>3, ClassType
<1>11. created' = [created EXCEPT ![c] = [created[c] EXCEPT ![m] = <<n>> \o created[c][m]]]
  BY <1>1
<1>12. /\ \A d \in Names : \A a \in 1..LastName : ~(d = c /\ a = m) => created'[d][a] = created[d][a]
       /\ created'[c][m] # <<>>
       /\ created'[c][m][Len(created'[c][m])] = IF created[c][m] = <<>> THEN n ELSE created[c][m][Len(created[c][m])]
  <2>1. NewestOf(c, m, n)
    BY <1>2, <1>3, <1>10, <1>11, OneMore
  <2> QED
    BY <2>1 DEF NewestOf
<1> PICK s : s = Body(c, Method(c, i).does)
  OBVIOUS
<1>13. s \in Seq(Tasks) /\ \A t \in ToSet(s) : t.do = "type" \/ t.class = c
  BY <1>2, <1>3, BodyTasks
<1>14. /\ \A t : t \in ToSet(todo) <=> t = Head(todo) \/ t \in Rest
       /\ \A t : t \in ToSet(todo)' <=> t \in ToSet(s) \/ t \in Rest
  BY <1>1, <1>4, <1>13, Turned
<1>15. ~Waits("inherit", c)
  <2> SUFFICES ASSUME NEW t \in ToSet(todo), t.do = "inherit", t.class = c PROVE FALSE
    BY DEF Waits
  <2>1. t \in Rest
    BY <1>14
  <2>2. t.do = "method"
    BY <1>2, <1>4, <2>1, RestAfter
  <2> QED
    BY <2>2
<1>16. ASSUME NEW d \in DOMAIN types, ~Waits("inherit", d)' PROVE Prepared(d)' /\ Settled(d)'
  <2>1. Prepared(d) /\ Settled(d) /\ LineageOK(d) /\ d \in Names
    BY <1>3, <1>4, <1>16 DEF Settling, IInv, Typed
  <2>2. ~Below(d, c)
    <3>1. Head(todo) \in ToSet(todo) /\ Head(todo).do # "type" /\ Head(todo).class = c
      BY <1>14 DEF This
    <3> QED
      BY <1>3, <2>1, <3>1 DEF Settled
  <2>3. Settled(d)'
    BY <1>13, <1>14, <2>1, <2>2, StillSettled
  <2>4. \A b : Below(d, b) => \A f \in DOMAIN funcs' : funcs'[f].class = b => f \in DOMAIN funcs
    BY <1>8, <2>2
  <2>5. \A a \in 1..LastName : created[d][a] # <<>> => created'[d][a] # <<>>
    BY <1>12, <2>1
  <2> PICK v, u : v = types[d].vtable /\ u = types'[d].vtable
    OBVIOUS
  <2>6. Built(d, v)
    BY <2>1 DEF Prepared
  <2>7. Built(d, u)'
    <3>1. CASE d = c
      <4>1. u = Append(v, n) /\ funcs'[n].class = d
        BY <1>5, <1>8, <3>1
      <4> QED
        BY <1>8, <1>9, <2>6, <4>1, BuiltMore
    <3>2. CASE d # c
      <4>1. u = v
        BY <1>5, <3>2
      <4> QED
        BY <1>8, <2>6, <4>1, StillBuilt
    <3> QED
      BY <3>1, <3>2
  <2>8. types'[d].ancestors = types[d].ancestors /\ (types[d].hasVtable => types'[d].hasVtable)
    BY <1>5
  <2>9. Prepared(d)'
    BY <1>8, <2>1, <2>4, <2>5, <2>7, <2>8, StillPrepared
  <2> QED
    BY <2>3, <2>9
<1>17. ASSUME NEW d \in Names, NEW a \in 1..LastName, created'[d][a] # <<>>
       PROVE  ~Redefines(funcs[created[d][a][Len(created[d][a])]].class, a)'
  <2> PICK q : q = created[d][a]
    OBVIOUS
  <2>1. \A f \in DOMAIN funcs : funcs'[f].class = funcs[f].class
    BY <1>8 DEF Kept
  <2>2. q \in Seq(DOMAIN funcs)
    BY <1>2 DEF Entered
  <2>3. ASSUME q # <<>> PROVE q[Len(q)] \in DOMAIN funcs /\ ~Redefines(funcs[q[Len(q)]].class, a)
    BY <2>2, <2>3 DEF Settling, Rooted
  <2> PICK e, b : e = created'[d][a][Len(created'[d][a])] /\ b = funcs'[e].class
    OBVIOUS
  <2>4. CASE ~(d = c /\ a = m)
    <3>1. created'[d][a] = q /\ q # <<>>
      BY <1>12, <1>17, <2>4
    <3>2. b = funcs[q[Len(q)]].class
      BY <2>1, <2>3, <3>1
    <3>3. ~Redefines(b, a)'
      BY <2>3, <3>1, <3>2, StillDeclared
    <3> QED
      BY <3>3
  <2>5. CASE d = c /\ a = m /\ q # <<>>
    <3>1. e = q[Len(q)]
      BY <1>12, <2>5
    <3>2. b = funcs[q[Len(q)]].class
      BY <2>1, <2>3, <2>5, <3>1, Zenon
    <3>3. ~Redefines(b, a)'
      BY <2>3, <2>5, <3>2, StillDeclared
    <3> QED
      BY <3>3
  <2>6. CASE d = c /\ a = m /\ q = <<>>
    <3>1. e = n /\ b = c
      BY <1>8, <1>12, <2>6
    <3>2. ~Redefines(c, m)
      BY <1>3, <1>10, <1>15, <2>6 DEF Settling, Prepared, Bequeathed
    <3>3. ~Redefines(b, a)'
      BY <2>6, <3>1, <3>2, StillDeclared
    <3> QED
      BY <3>3
  <2> QED
    BY <2>4, <2>5, <2>6
<1>18. Rooted'
  <2>1. Names' = Names
    BY Static
  <2> QED
    BY <1>17, <2>1 DEF Rooted
<1> QED
  BY <1>5, <1>16, <1>18 DEF Settling

\* The visit of a method,
LEMMA VisitMethodSettling ==
  ASSUME IInv, stage = "transform", Regular, FunctionsOK, Transforming, Settling, VisitMethod
  PROVE  Settling'
<1>1. todo # <<>> /\ Head(todo).do = "method" /\ transformFunction(This, Head(todo).i) /\ prog' = prog
  BY DEF VisitMethod, Doing
<1> QED
  BY <1>1, FunctionSettling

\* and a call.
LEMMA CallMethodSettling ==
  ASSUME IInv, stage = "transform", Regular, FunctionsOK, Transforming, Settling, CallMethod
  PROVE  Settling'
<1>1. todo # <<>> /\ Head(todo).do = "call" /\ prog' = prog
  BY DEF CallMethod, Doing
<1>2. (todo' = <<>> \o Tail(todo) /\ UNCHANGED <<funcs, types, created>>) \/ transformFunction(This, Head(todo).i)
  BY DEF CallMethod, Then
<1>3. CASE todo' = <<>> \o Tail(todo) /\ UNCHANGED <<funcs, types, created>>
  BY <1>1, <1>3, PoppedSettling
<1>4. CASE transformFunction(This, Head(todo).i)
  BY <1>1, <1>4, FunctionSettling
<1> QED
  BY <1>2, <1>3, <1>4

-----------------------------------------------------------------------------
(* What a class inherits is a table as it is generated *)

\* Lists put together end with the last of them.
LEMMA LastBlock ==
  ASSUME NEW S, NEW ss \in Seq(Seq(S)), ss # <<>>
  PROVE  \E pre \in Seq(S) : FlattenSeq(ss) = pre \o ss[Len(ss)]
<1>1. PICK w : Joined(w, ss, S) /\ FlattenSeq(ss) = w[Len(ss)]
  BY FlattenSeqSteps
<1>2. Len(ss) \in 1..Len(ss) /\ Len(ss) - 1 \in 0..Len(ss)
  OBVIOUS
<1> QED
  BY <1>1, <1>2 DEF Joined

\* The functions of a class by their names, and one list t of those of the first i names.
ByName(q) == /\ q \in [1..LastName -> Seq(DOMAIN funcs)]
             /\ \A n \in 1..LastName : \A j \in DOMAIN q[n] : funcs[q[n][j]].name = n
InOrder(q, t, i) ==
  /\ t \in Seq(DOMAIN funcs)
  /\ \A j \in DOMAIN t : funcs[t[j]].name \in 1..i /\ q[funcs[t[j]].name] # <<>>
  /\ \A n \in 1..i : q[n] # <<>> =>
        \E j \in DOMAIN t : t[j] = q[n][Len(q[n])] /\ \A k \in DOMAIN t : k > j => funcs[t[k]].name > n

\* One name more.
LEMMA OneNameMore ==
  ASSUME NEW q, ByName(q), NEW i \in Nat, NEW m, m = i + 1, m \in 1..LastName, NEW t, InOrder(q, t, i), NEW u, u = t \o q[m]
  PROVE  InOrder(q, u, m)
<1> PICK r : r = q[m]
  OBVIOUS
<1> DEFINE F == DOMAIN funcs
<1>1. t \in Seq(F) /\ r \in Seq(F) /\ \A j \in DOMAIN r : funcs[r[j]].name = m
  BY DEF InOrder, ByName
<1> HIDE DEF F
<1>2. /\ u \in Seq(F) /\ Len(u) = Len(t) + Len(r)
      /\ \A j \in 1..(Len(t) + Len(r)) : u[j] = IF j <= Len(t) THEN t[j] ELSE r[j - Len(t)]
  BY <1>1, ConcatProperties
<1>3. Len(t) \in Nat /\ Len(r) \in Nat /\ DOMAIN t = 1..Len(t) /\ DOMAIN r = 1..Len(r) /\ DOMAIN u = 1..Len(u)
  BY <1>1, <1>2
<1>4. \A j \in DOMAIN t : j \in DOMAIN u /\ u[j] = t[j]
  BY <1>2, <1>3
<1>5. \A j \in DOMAIN u : j \in DOMAIN t \/ (j > Len(t) /\ j - Len(t) \in DOMAIN r /\ u[j] = r[j - Len(t)])
  BY <1>2, <1>3
<1>6. \A j \in DOMAIN u : j \in DOMAIN t \/ (funcs[u[j]].name = m /\ r # <<>>)
  BY <1>1, <1>3, <1>5
<1>7. ASSUME NEW j \in DOMAIN u PROVE funcs[u[j]].name \in 1..m /\ q[funcs[u[j]].name] # <<>>
  <2>1. CASE j \in DOMAIN t
    <3>1. funcs[u[j]].name \in 1..i /\ q[funcs[u[j]].name] # <<>>
      BY <1>4, <2>1 DEF InOrder
    <3>2. \A n \in 1..i : n \in 1..m
      OBVIOUS
    <3> QED
      BY <3>1, <3>2
  <2>2. CASE funcs[u[j]].name = m /\ r # <<>>
    <3>1. m \in 1..m
      OBVIOUS
    <3> QED
      BY <2>2, <3>1
  <2> QED
    BY <1>6, <2>1, <2>2
<1>8. ASSUME NEW n \in 1..m, q[n] # <<>>
      PROVE  \E j \in DOMAIN u : u[j] = q[n][Len(q[n])] /\ \A k \in DOMAIN u : k > j => funcs[u[k]].name > n
  <2>1. CASE n = m
    <3>1. Len(r) > 0 /\ Len(u) \in DOMAIN u /\ Len(u) \notin DOMAIN t /\ Len(u) - Len(t) = Len(r)
      BY <1>1, <1>2, <1>3, <1>8, <2>1
    <3>2. u[Len(u)] = r[Len(r)]
      BY <1>5, <3>1
    <3>3. \A k \in DOMAIN u : ~(k > Len(u))
      BY <1>2, <1>3
    <3> QED
      BY <2>1, <3>1, <3>2, <3>3
  <2>2. CASE n # m
    <3>1. n \in 1..i /\ m > n
      BY <2>2
    <3> PICK e : e = q[n][Len(q[n])]
      OBVIOUS
    <3>2. PICK j \in DOMAIN t : t[j] = e /\ \A k \in DOMAIN t : k > j => funcs[t[k]].name > n
      BY <1>8, <3>1 DEF InOrder
    <3>3. ASSUME NEW k \in DOMAIN u, k > j PROVE funcs[u[k]].name > n
      BY <1>4, <1>6, <3>1, <3>2, <3>3
    <3> QED
      BY <1>4, <3>2, <3>3
  <2> QED
    BY <2>1, <2>2
<1>9. u \in Seq(DOMAIN funcs)
  BY <1>2 DEF F
<1> QED
  BY <1>7, <1>8, <1>9 DEF InOrder

\* All names.
LEMMA FlattenInOrder ==
  ASSUME NEW q, ByName(q), NEW t, t = FlattenSeq(q)
  PROVE  InOrder(q, t, LastName)
<1> PICK N : N = LastName
  OBVIOUS
<1> DEFINE F == DOMAIN funcs
<1>1. N \in Nat /\ q \in Seq(Seq(F)) /\ Len(q) = N
  BY LastNameAssumption DEF ByName
<1> HIDE DEF F
<1>2. PICK w : Joined(w, q, F) /\ t = w[N]
  BY <1>1, FlattenSeqSteps
<1> DEFINE Good == {i \in 0..N : InOrder(q, w[i], i)}
<1>3. 0 \in Good
  <2>1. InOrder(q, <<>>, 0)
    BY DEF InOrder
  <2> QED
    BY <1>1, <1>2, <2>1 DEF Joined
<1>4. ASSUME NEW m \in 1..N, m - 1 \in Good PROVE m \in Good
  <2> PICK i, s, u : i = m - 1 /\ s = w[i] /\ u = w[m]
    OBVIOUS
  <2>1. i \in Nat /\ m = i + 1 /\ InOrder(q, s, i)
    BY <1>1, <1>4
  <2>2. u = s \o q[m]
    BY <1>1, <1>2 DEF Joined
  <2>3. InOrder(q, u, m)
    BY <2>1, <2>2, OneNameMore
  <2> QED
    BY <1>1, <2>3
<1>5. Good \in SUBSET (0..N) /\ N \in 0..N
  BY <1>1
<1> HIDE DEF Good
<1>6. N \in Good
  BY <1>1, <1>3, <1>4, <1>5, UpTo
<1> QED
  BY <1>2, <1>6 DEF Good

\* A list ends as the second of its parts does.
LEMMA EndsWith ==
  ASSUME NEW S, NEW r \in Seq(S), NEW a \in Seq(S), a # <<>>, NEW u, u = r \o a
  PROVE  u # <<>> /\ u[Len(u)] = a[Len(a)]
<1>1. /\ u \in Seq(S) /\ Len(u) = Len(r) + Len(a)
      /\ \A j \in 1..(Len(r) + Len(a)) : u[j] = IF j <= Len(r) THEN r[j] ELSE a[j - Len(r)]
  BY ConcatProperties
<1>2. Len(r) \in Nat /\ Len(a) \in Nat /\ Len(a) > 0
  OBVIOUS
<1> QED
  BY <1>1, <1>2

\* What is inherited ends as what was there.
LEMMA InheritedEnds ==
  ASSUME NEW S, NEW a \in Seq(S), NEW b \in Seq(S), a # <<>>, NEW u, u = Inherited(a, b)
  PROVE  u # <<>> /\ u[Len(u)] = a[Len(a)]
<1> PICK r : r = Reverse(b)
  OBVIOUS
<1>1. u = r \o a
  BY DEF Inherited
<1>2. r \in Seq(S)
  BY DEF Reverse
<1> QED
  BY <1>1, <1>2, EndsWith

\* What is inherited of a name: something when an ancestor has something, and its last is the last of an ancestor's.
FromOne(up, n, q) ==
  /\ \A i \in 1..Len(up) : created[up[i].class][n] # <<>> => q # <<>>
  /\ q # <<>> => \E i \in 1..Len(up) : /\ created[up[i].class][n] # <<>>
                                       /\ q[Len(q)] = created[up[i].class][n][Len(created[up[i].class][n])]
LEMMA FromAboveIs ==
  ASSUME NEW S, NEW up, Len(up) \in Nat, NEW n, \A i \in 1..Len(up) : created[up[i].class][n] \in Seq(S),
         NEW q, q = FromAbove(up, n)
  PROVE  FromOne(up, n, q)
<1> PICK N, h : N = Len(up) /\ h = [i \in 1..N |-> created[up[i].class][n]]
  OBVIOUS
<1>1. N \in Nat /\ \A i \in 1..N : h[i] = created[up[i].class][n] /\ h[i] \in Seq(S)
  OBVIOUS
<1>2. PICK w : Handed(w, up, n, S) /\ q = w[N]
  BY FromAboveSteps
<1>3. /\ w[0] = <<>> /\ \A i \in 1..N : w[i] = Inherited(w[i - 1], h[i])
      /\ \A i \in 0..N : w[i] \in Seq(S)
  BY <1>1, <1>2 DEF Handed
<1> DEFINE Has(i) == /\ \A k \in 1..i : h[k] # <<>> => w[i] # <<>>
                     /\ w[i] # <<>> => \E k \in 1..i : h[k] # <<>> /\ w[i][Len(w[i])] = h[k][Len(h[k])]
           Good == {i \in 0..N : Has(i)}
<1>4. 0 \in Good
  BY <1>1, <1>3
<1> HIDE DEF Has, Good
<1>5. ASSUME NEW m \in 1..N, m - 1 \in Good PROVE m \in Good
  <2> PICK i, a, b, u : i = m - 1 /\ a = w[i] /\ b = h[m] /\ u = w[m]
    OBVIOUS
  <2>1. i \in 0..N /\ m = i + 1 /\ a \in Seq(S) /\ b \in Seq(S) /\ u = Inherited(a, b)
    BY <1>1, <1>3, <1>5
  <2>4. Has(i)
    BY <1>5 DEF Good
  <2>2. CASE a = <<>>
    <3>1. u = b
      BY <2>1, <2>2 DEF Inherited
    <3>2. \A k \in 1..i : h[k] = <<>>
      BY <2>2, <2>4 DEF Has
    <3>3. m \in 1..m /\ \A k \in 1..m : k = m \/ k \in 1..i
      BY <2>1
    <3>4. Has(m)
      BY <3>1, <3>2, <3>3 DEF Has
    <3> QED
      BY <1>1, <3>4 DEF Good
  <2>3. CASE a # <<>>
    <3>5. u # <<>> /\ u[Len(u)] = a[Len(a)]
      BY <2>1, <2>3, InheritedEnds
    <3>6. PICK k \in 1..i : h[k] # <<>> /\ a[Len(a)] = h[k][Len(h[k])]
      BY <2>3, <2>4 DEF Has
    <3>7. k \in 1..m
      BY <2>1
    <3>8. Has(m)
      BY <3>5, <3>6, <3>7 DEF Has
    <3> QED
      BY <1>1, <3>8 DEF Good
  <2> QED
    BY <2>2, <2>3
<1>6. Good \in SUBSET (0..N) /\ N \in 0..N
  BY <1>1 DEF Good
<1>7. N \in Good
  BY <1>1, <1>4, <1>5, <1>6, UpTo
<1>8. Has(N)
  BY <1>7 DEF Good
<1> QED
  BY <1>1, <1>2, <1>8 DEF Has, FromOne

\* The names of a class in createdFunctions.
LEMMA CreatedByName ==
  ASSUME Entered, NEW p \in Names
  PROVE  ByName(created[p])
BY DEF Entered, ByName

\* The oldest function of a name has it.
LEMMA OldestNamed ==
  ASSUME Entered, NEW p \in Names, NEW n \in 1..LastName, NEW q, q = created[p][n], q # <<>>
  PROVE  q[Len(q)] \in DOMAIN funcs /\ funcs[q[Len(q)]].name = n
<1>1. q \in Seq(DOMAIN funcs) /\ \A k \in DOMAIN q : funcs[q[k]].name = n
  BY Zenon DEF Entered
<1> QED
  BY <1>1

\* v has the last function of q, and behind it larger names.
OldestAt(v, q, n) ==
  \E j \in DOMAIN v : v[j] = q[Len(q)] /\ \A k \in DOMAIN v : k > j => funcs[v[k]].name > n

\* Of each name that the parent has, its oldest function is in what is inherited, and behind it come larger names.
LEMMA OldestInTable ==
  ASSUME FunctionsOK, Entered, NEW p \in Names, NEW S \in SUBSET DOMAIN funcs, NEW r \in Seq(Seq(S)), r # <<>>, r[Len(r)] = InTable(p),
         NEW v, v = FlattenSeq(r), NEW n \in 1..LastName, NEW q, q = created[p][n], q # <<>>
  PROVE  OldestAt(v, q, n)
<1> PICK h, t : h = created[p] /\ t = InTable(p)
  OBVIOUS
<1>1. PICK pre \in Seq(S) : v = pre \o t
  BY LastBlock
<1>2. InOrder(h, t, LastName)
  <2>1. t = FlattenSeq(h) /\ ByName(h)
    BY CreatedByName DEF InTable
  <2> QED
    BY <2>1, FlattenInOrder
<1>3. PICK i \in DOMAIN t : t[i] = q[Len(q)] /\ \A k \in DOMAIN t : k > i => funcs[t[k]].name > n
  BY <1>2 DEF InOrder
<1> DEFINE F == DOMAIN funcs
<1>4. t \in Seq(F) /\ pre \in Seq(F)
  BY <1>2 DEF InOrder
<1> HIDE DEF F
<1>5. /\ v \in Seq(F) /\ Len(v) = Len(pre) + Len(t)
      /\ \A j \in 1..(Len(pre) + Len(t)) : v[j] = IF j <= Len(pre) THEN pre[j] ELSE t[j - Len(pre)]
  BY <1>1, <1>4, ConcatProperties
<1>6. Len(pre) \in Nat /\ Len(t) \in Nat /\ DOMAIN t = 1..Len(t) /\ DOMAIN v = 1..Len(v)
  BY <1>4, <1>5
<1> PICK j : j = Len(pre) + i
  OBVIOUS
<1>7. j \in DOMAIN v /\ v[j] = t[i]
  BY <1>5, <1>6
<1>8. ASSUME NEW k \in DOMAIN v, k > j PROVE funcs[v[k]].name > n
  <2> PICK m : m = k - Len(pre)
    OBVIOUS
  <2>1. m \in DOMAIN t /\ m > i /\ v[k] = t[m]
    <3>1. i \in Nat /\ i >= 1 /\ k \in Nat /\ k <= Len(pre) + Len(t) /\ k > Len(pre) + i
      BY <1>5, <1>6, <1>8
    <3>2. k \in 1..(Len(pre) + Len(t)) /\ ~(k <= Len(pre)) /\ m \in 1..Len(t) /\ m > i
      BY <1>6, <3>1
    <3> QED
      BY <1>5, <1>6, <3>2
  <2> QED
    BY <1>3, <2>1
<1> QED
  BY <1>3, <1>7, <1>8 DEF OldestAt

\* What a class inherits is a table as it is generated.
LEMMA InheritedBuilt ==
  ASSUME FunctionsOK, Entered, Rooted, NEW c \in Names, NEW p \in Names,
         NEW r \in Seq(Seq(Above(c))), r # <<>>, r[Len(r)] = InTable(p), NEW v, v = FlattenSeq(r),
         \A n \in 1..LastName : Redefines(c, n) => created[p][n] # <<>>
  PROVE  Built(c, v)
<1> PICK s : s = Len(v)
  OBVIOUS
<1>1. v \in Seq(Above(c))
  BY FlattenSeqType
<1>2. Above(c) \in SUBSET DOMAIN funcs
  BY DEF Above
<1>3. v \in Seq(DOMAIN funcs) /\ s \in Nat /\ DOMAIN v = 1..s
  BY <1>1, <1>2, SeqWiden
<1>4. ASSUME NEW j \in DOMAIN v
      PROVE  /\ v[j] \in DOMAIN funcs /\ Below(c, funcs[v[j]].class)
             /\ funcs[v[j]].name \in 1..LastName /\ funcs[v[j]].name \in Nat /\ created[p][funcs[v[j]].name] # <<>>
  <2> PICK f : f = v[j]
    OBVIOUS
  <2>1. f \in DOMAIN funcs /\ Below(c, funcs[f].class)
    BY <1>1 DEF Above
  <2>2. funcs[f].class \in Names /\ Declares(funcs[f].class, funcs[f].name) /\ funcs[f].name \in 1..LastName /\ funcs[f].name \in Nat
    BY <2>1, FunctionDeclares
  <2>3. Redefines(c, funcs[f].name)
    BY <2>1, <2>2 DEF Redefines
  <2> QED
    BY <2>1, <2>2, <2>3
<1>5. ASSUME NEW n \in 1..LastName, created[p][n] # <<>>
      PROVE  OldestAt(v, created[p][n], n) /\ funcs[created[p][n][Len(created[p][n])]].name = n
  <2> PICK S, q : S = Above(c) /\ q = created[p][n]
    OBVIOUS
  <2>1. S \in SUBSET DOMAIN funcs /\ r \in Seq(Seq(S)) /\ q # <<>>
    BY <1>2, <1>5
  <2>2. OldestAt(v, q, n)
    BY <2>1, OldestInTable
  <2>3. funcs[q[Len(q)]].name = n
    BY <2>1, OldestNamed
  <2> QED
    BY <2>2, <2>3
<1>6. ASSUME NEW n \in 1..LastName, Redefines(c, n) PROVE FromRoot(c, v, s, n)
  <2> PICK q : q = created[p][n]
    OBVIOUS
  <2>1. q # <<>>
    BY <1>6
  <2>2. PICK j \in DOMAIN v : v[j] = q[Len(q)] /\ \A k \in DOMAIN v : k > j => funcs[v[k]].name > n
    BY <1>5, <2>1 DEF OldestAt
  <2>5. funcs[v[j]].name = n /\ ~Redefines(funcs[v[j]].class, n)
    <3> PICK e : e = q[Len(q)]
      OBVIOUS
    <3>1. funcs[e].name = n
      BY <2>1, OldestNamed
    <3>2. ~Redefines(funcs[e].class, n)
      BY <2>1 DEF Rooted
    <3> QED
      BY <2>2, <3>1, <3>2
  <2>6. j \in 1..s /\ n \in Nat
    BY <1>3
  <2>7. ASSUME NEW k \in (j + 1)..s PROVE funcs[v[k]].name # n
    <3>1. k \in DOMAIN v /\ k > j
      BY <1>3, <2>6
    <3>2. funcs[v[k]].name > n
      BY <2>2, <3>1
    <3>3. funcs[v[k]].name \in Nat
      BY <1>4, <3>1
    <3> QED
      BY <2>6, <3>2, <3>3
  <2> QED
    BY <2>5, <2>6, <2>7 DEF FromRoot
<1>7. ASSUME NEW j \in 1..s PROVE funcs[v[j]].name <= funcs[v[s]].name
  <2> PICK n, m : n = funcs[v[j]].name /\ m = funcs[v[s]].name
    OBVIOUS
  <2>1. s \in DOMAIN v /\ j \in DOMAIN v
    BY <1>3
  <2>2. n \in Nat /\ m \in Nat /\ n \in 1..LastName /\ created[p][n] # <<>>
    BY <1>4, <2>1
  <2> PICK q : q = created[p][n]
    OBVIOUS
  <2>3. PICK k \in DOMAIN v : v[k] = q[Len(q)] /\ \A l \in DOMAIN v : l > k => funcs[v[l]].name > n
    BY <1>5, <2>2 DEF OldestAt
  <2>4. CASE s > k
    BY <2>1, <2>2, <2>3, <2>4
  <2>5. CASE ~(s > k)
    <3>1. s = k
      BY <1>3, <2>5
    <3> PICK e : e = q[Len(q)]
      OBVIOUS
    <3>2. funcs[e].name = n
      BY <1>5, <2>2
    <3>4. m = n
      BY <2>3, <3>1, <3>2
    <3> QED
      BY <2>2, <3>4
  <2> QED
    BY <2>4, <2>5
<1>8. BuiltAt(c, v, s)
  <2>1. \A j \in (s + 1)..s : FALSE
    BY <1>3
  <2>2. \A j \in 1..s : Below(c, funcs[v[j]].class)
    BY <1>3, <1>4
  <2> QED
    BY <1>6, <1>7, <2>1, <2>2 DEF BuiltAt
<1> QED
  BY <1>3, <1>8 DEF Built

\* The other classes, while one inherits.
LEMMA OthersSettled ==
  ASSUME IInv, stage = "transform", Transforming, Settling, Doing("inherit"), Then(<<>>),
         UNCHANGED <<prog, funcs>>, NEW d \in DOMAIN types, d # This, types'[d] = types[d], created'[d] = created[d], ~Waits("inherit", d)'
  PROVE  Prepared(d)' /\ Settled(d)'
<1>1. todo # <<>> /\ todo' = <<>> \o Tail(todo)
  BY DEF Doing, Then
<1>2. todo \in Seq(Tasks) /\ InTurn(todo)
  BY <1>1, HeadType DEF Transforming
<1>3. \A t \in ToSet(todo)' : t \in ToSet(todo)
  BY <1>1, <1>2, Popped
<1>4. ~Waits("inherit", d)
  BY <1>1, <1>2, Popped
<1>5. Prepared(d) /\ Settled(d) /\ LineageOK(d)
  BY <1>1, <1>4, HeadType DEF Settling
<1> QED
  BY <1>3, <1>5, QuietSettled

\* A class without a parent inherits nothing.
LEMMA NothingInherited ==
  ASSUME IInv, stage = "transform", Regular, FunctionsOK, Transforming, Settling, performInheritance, ~HasParent(This)
  PROVE  Settling'
<1> PICK c : c = This
  OBVIOUS
<1>1. Doing("inherit") /\ Then(<<>>) /\ UNCHANGED <<prog, funcs, types, created>>
  BY DEF performInheritance
<1>2. /\ todo # <<>> /\ todo' = <<>> \o Tail(todo) /\ todo \in Seq(Tasks) /\ InTurn(todo) /\ c \in Names
      /\ \A d \in DOMAIN types : LineageOK(d)
  BY <1>1, HeadType DEF Doing, Then, Transforming
<1>3. \A b : ~Below(c, b)
  BY DEF Below
<1>4. Rooted'
  BY <1>1, StillRooted DEF Settling
<1>5. ASSUME c \in DOMAIN types PROVE Prepared(c)' /\ Settled(c)'
  <2> PICK v, up : v = types[c].vtable /\ up = types[c].ancestors
    OBVIOUS
  <2>1. \A f \in DOMAIN funcs : funcs[f].class # c
    <3>1. Head(todo) \in ToSet(todo)
      BY <1>1, <1>2 DEF ToSet
    <3>2. Waits("inherit", c)
      BY <1>1, <3>1 DEF Waits, This, Doing
    <3>3. Awaited /\ Generated(c)
      BY <1>2 DEF Transforming
    <3>4. Visited(c) = {}
      BY <1>2, <3>2, <3>3, AwaitsMethods
    <3> QED
      BY <1>2, <3>3, <3>4, NoFunctions
  <2>2. v \in Seq(Upward(c))
    BY <1>5 DEF Transforming, Tabled, HasFunctions
  <2>3. \A f : f \notin Upward(c)
    BY <1>3, <2>1 DEF Upward
  <2>4. v = <<>>
    <3>1. \A j \in 1..Len(v) : FALSE
      BY <2>2, <2>3
    <3> QED
      BY <2>2, <3>1
  <2>5. \A n : ~Redefines(c, n)
    BY <1>3 DEF Redefines
  <2>6. Built(c, v)
    <3>1. v \in Seq(DOMAIN funcs) /\ Len(v) = 0
      BY <2>4
    <3>2. BuiltAt(c, v, 0)
      BY <2>5, <3>1 DEF BuiltAt
    <3> QED
      BY <3>1, <3>2 DEF Built
  <2>7. InLine(up)
    <3>1. DOMAIN up = {}
      BY <1>2, <1>3, <1>5 DEF LineageOK
    <3> QED
      BY <3>1 DEF InLine
  <2>8. Prepared(c)
    BY <2>5, <2>6, <2>7 DEF Prepared, Bequeathed
  <2>9. Settled(c)
    BY <1>3 DEF Settled
  <2>10. \A t \in ToSet(todo)' : t \in ToSet(todo)
    BY <1>1, <1>2, Popped
  <2> QED
    BY <1>1, <1>2, <1>5, <2>8, <2>9, <2>10, QuietSettled
<1>6. ASSUME NEW d \in DOMAIN types, ~Waits("inherit", d)' PROVE Prepared(d)' /\ Settled(d)'
  <2>1. CASE d = c
    BY <1>5, <2>1
  <2>2. CASE d # c
    BY <1>1, <1>6, <2>2, OthersSettled
  <2> QED
    BY <2>1, <2>2
<1> QED
  BY <1>1, <1>4, <1>6 DEF Settling

\* When a class inherits nothing is left to do for those above it,
LEMMA AboveIsDone ==
  ASSUME IInv, stage = "transform", Regular, Transforming, Doing("inherit"), NEW t \in Rest, t.do # "type"
  PROVE  ~Below(This, t.class)
<1>1. todo \in Seq(Tasks) /\ todo # <<>> /\ InTurn(todo) /\ This \in Names
  BY HeadType DEF Doing, Transforming
<1> PICK s : s = <<>> \o Tail(todo)
  OBVIOUS
<1>2. LeadsTo(t.class, This)
  BY <1>1, RestInTurn
<1>3. t.class \in Names
  <2>1. Len(todo) \in Nat /\ \A j \in 2..Len(todo) : todo[j] \in Tasks
    BY <1>1
  <2> QED
    BY <2>1 DEF Rest, Tasks
<1> QED
  BY <1>1, <1>2, <1>3 DEF Regular, MentionsNoDescendant

\* so that its parent has its table.
LEMMA ParentPrepared ==
  ASSUME IInv, stage = "transform", Regular, FunctionsOK, Transforming, Settling, Doing("inherit"),
         NEW c, c = This, HasParent(c), NEW p, p = Class(c).parent
  PROVE  Prepared(p) /\ ~Waits("declare", p) /\ HasAll(p, types[p].vtable)
<1>1. p \in DOMAIN types /\ p # c /\ Below(c, p) /\ Tabled(p)
  BY ParentIsThere
<1>2. todo \in Seq(Tasks) /\ todo # <<>>
  BY HeadType DEF Doing
<1>3. ASSUME NEW t \in ToSet(todo), t.do # "type", t.class = p PROVE FALSE
  <2>1. t = Head(todo) \/ t \in Rest
    <3>1. PICK j \in 1..Len(todo) : t = todo[j]
      BY <1>2 DEF ToSet
    <3>2. j = 1 \/ j \in 2..Len(todo)
      BY <1>2
    <3>3. Head(todo) = todo[1]
      BY <1>2
    <3> QED
      BY <3>1, <3>2, <3>3 DEF Rest
  <2>2. t \in Rest
    BY <1>1, <1>3, <2>1 DEF This
  <2> QED
    BY <1>1, <1>3, <2>2, AboveIsDone
<1>4. ~Waits("inherit", p) /\ ~Waits("declare", p)
  BY <1>3 DEF Waits
<1>5. HasAll(p, types[p].vtable)
  BY <1>1 DEF Tabled, HasFunctions, HasAll
<1> QED
  BY <1>1, <1>4, <1>5 DEF Settling

\* The line that ends with the parent.
LEMMA LineageInLine ==
  ASSUME NEW p, LineageOK(p), Prepared(p), HasAll(p, types[p].vtable), NEW up, up = Lineage(p)
  PROVE  InLine(up)
<1> PICK a, n : a = types[p].ancestors /\ n = Len(a)
  OBVIOUS
<1>1. /\ DOMAIN up = 1..(n + 1) /\ n \in Nat /\ DOMAIN a = 1..n
      /\ \A k \in 1..n : up[k] = a[k]
      /\ up[n + 1] = Copy(p)
  BY LineageIs
<1>2. up[n + 1].class = p /\ up[n + 1].vtable = types[p].vtable
  BY <1>1 DEF Copy
<1>3. InLine(a) /\ Built(p, types[p].vtable) /\ \A k \in 1..n : Below(p, a[k].class)
  BY <1>1 DEF Prepared, LineageOK
<1>4. \A k \in DOMAIN up : k \in 1..n \/ k = n + 1
  BY <1>1
<1>5. ASSUME NEW k \in DOMAIN up PROVE Built(up[k].class, up[k].vtable) /\ HasAll(up[k].class, up[k].vtable)
  <2>1. CASE k \in 1..n
    BY <1>1, <1>3, <2>1 DEF InLine
  <2>2. CASE k = n + 1
    BY <1>2, <1>3, <2>2
  <2> QED
    BY <1>4, <2>1, <2>2
<1>6. ASSUME NEW j \in DOMAIN up, NEW k \in DOMAIN up, j < k PROVE Below(up[k].class, up[j].class)
  <2>1. j \in 1..n
    BY <1>1, <1>6
  <2>2. CASE k \in 1..n
    BY <1>1, <1>3, <1>6, <2>1, <2>2 DEF InLine
  <2>3. CASE k = n + 1
    BY <1>1, <1>2, <1>3, <2>1, <2>3
  <2> QED
    BY <1>4, <2>2, <2>3
<1> QED
  BY <1>5, <1>6 DEF InLine

\* What the classes above a class declare its parent has in createdFunctions, and it has a table.
LEMMA ParentBequeaths ==
  ASSUME IInv, stage = "transform", Regular, FunctionsOK, Transforming, Settling, Doing("inherit"),
         NEW c, c = This, HasParent(c), NEW p, p = Class(c).parent, NEW n \in 1..LastName, Redefines(c, n)
  PROVE  created[p][n] # <<>> /\ types[p].hasVtable
<1>1. prog \in Program /\ c \in Names
  BY HeadType DEF IInv, Typed, Doing
<1>2. p \in DOMAIN types /\ p \in Names /\ \A i \in DOMAIN Class(p).methods : Made(p, i)
  BY ParentIsThere
<1>3. Prepared(p) /\ ~Waits("declare", p)
  BY ParentPrepared
<1>4. PICK b \in Names : Below(c, b) /\ Declares(b, n)
  BY DEF Redefines
<1>5. b = p \/ Below(p, b)
  BY <1>1, <1>4, BelowIs
<1>6. CASE b = p
  <2>1. PICK i \in DOMAIN Class(p).methods : Method(p, i).name = n
    BY <1>4, <1>6 DEF Declares
  <2>2. PICK f \in DOMAIN funcs : funcs[f].class = p /\ funcs[f].name = n
    BY <1>2, <2>1 DEF Made, Of
  <2>3. created[p][n] # <<>>
    <3>1. PICK j \in DOMAIN created[funcs[f].class][funcs[f].name] : created[funcs[f].class][funcs[f].name][j] = f
      BY DEF Transforming, Entered
    <3>2. j \in DOMAIN created[p][n]
      BY <2>2, <3>1
    <3> QED
      BY <3>2
  <2>4. Class(p).methods # <<>>
    BY <2>1
  <2>5. types[p].hasVtable
    BY <1>2, <1>3, <2>4 DEF Transforming
  <2> QED
    BY <2>3, <2>5
<1>7. CASE Below(p, b)
  <2>1. Redefines(p, n)
    BY <1>4, <1>7 DEF Redefines
  <2> QED
    BY <1>3, <2>1 DEF Prepared, Bequeathed
<1> QED
  BY <1>5, <1>6, <1>7

\* What a class inherits is a table as it is generated, and every name it redefines is in createdFunctions.
LEMMA InheritedIs ==
  ASSUME IInv, stage = "transform", Regular, FunctionsOK, Transforming, Settling, Doing("inherit"),
         NEW c, c = This, HasParent(c), NEW up, up = Lineage(Class(c).parent),
         NEW table, table = FlattenSeq([i \in DOMAIN up |-> InTable(up[i].class)])
  PROVE  /\ InLine(up) /\ Built(c, table)
         /\ \A n \in 1..LastName : Redefines(c, n) => FromAbove(up, n) # <<>> /\ Last(up).hasVtable
         /\ \A n \in 1..LastName : FromAbove(up, n) # <<>> =>
              ~Redefines(funcs[FromAbove(up, n)[Len(FromAbove(up, n))]].class, n)
<1> PICK p, m : p = Class(c).parent /\ m = Len(types[p].ancestors) + 1
  OBVIOUS
<1>1. /\ p \in DOMAIN types /\ p \in Names /\ Below(c, p) /\ LineageOK(p)
      /\ Prepared(p) /\ HasAll(p, types[p].vtable) /\ c \in Names
      /\ Entered /\ Rooted
  BY ParentIsThere, ParentPrepared, HeadType DEF Doing, Transforming, Settling
<1>2. /\ m \in Nat \ {0} /\ Len(up) = m /\ DOMAIN up = 1..m /\ m \in 1..m /\ up[m] = Copy(p)
  BY <1>1, LineageIs
<1>3. up[m].class = p /\ up[m].hasVtable = types[p].hasVtable /\ Last(up) = up[m]
  BY <1>2 DEF Copy, Last
<1>4. \A k \in 1..m : Below(c, up[k].class) /\ up[k].class \in Names
  BY <1>2, InheritsLineage
<1>5. InLine(up)
  BY <1>1, LineageInLine
<1>6. \A n \in 1..LastName : Redefines(c, n) => created[p][n] # <<>> /\ types[p].hasVtable
  BY ParentBequeaths
<1>7. Built(c, table)
  <2> PICK r : r = [i \in DOMAIN up |-> InTable(up[i].class)]
    OBVIOUS
  <2>1. ASSUME NEW k \in 1..m PROVE InTable(up[k].class) \in Seq(Above(c))
    <3> PICK b : b = up[k].class
      OBVIOUS
    <3>1. InTable(b) \in Seq(Upward(b))
      BY <1>1, <1>4, InTableIs, LastNameAssumption
    <3>2. \A f \in Upward(b) : f \in Above(c)
      BY <1>4, UpwardAbove
    <3>3. InTable(b) \in Seq(Above(c))
      BY <3>1, <3>2, SeqWiden
    <3> QED
      BY <3>3
  <2>2. r \in Seq(Seq(Above(c))) /\ Len(r) = m /\ r # <<>>
    BY <1>2, <2>1
  <2>3. r[Len(r)] = InTable(p)
    BY <1>2, <1>3, <2>2
  <2> QED
    BY <1>1, <1>6, <2>2, <2>3, InheritedBuilt
<1>8. created \in [Names -> [1..LastName -> Seq(DOMAIN funcs)]]
  BY <1>1 DEF Entered
<1>9. ASSUME NEW n \in 1..LastName
      PROVE  /\ Redefines(c, n) => FromAbove(up, n) # <<>> /\ Last(up).hasVtable
             /\ FromAbove(up, n) # <<>> => ~Redefines(funcs[FromAbove(up, n)[Len(FromAbove(up, n))]].class, n)
  <2> PICK q, F : q = FromAbove(up, n) /\ F = DOMAIN funcs
    OBVIOUS
  <2>1. ASSUME NEW i \in 1..Len(up) PROVE created[up[i].class][n] \in Seq(F)
    <3> PICK b : b = up[i].class
      OBVIOUS
    <3>1. b \in Names
      BY <1>2, <1>4
    <3>2. created[b][n] \in Seq(DOMAIN funcs)
      BY <1>8, <3>1
    <3> QED
      BY <3>2
  <2>2. FromOne(up, n, q)
    BY <1>2, <2>1, FromAboveIs
  <2>3. Redefines(c, n) => q # <<>> /\ Last(up).hasVtable
    BY <1>2, <1>3, <1>6, <2>2 DEF FromOne
  <2>4. ASSUME q # <<>> PROVE ~Redefines(funcs[q[Len(q)]].class, n)
    <3>1. PICK i \in 1..Len(up) : /\ created[up[i].class][n] # <<>>
                                  /\ q[Len(q)] = created[up[i].class][n][Len(created[up[i].class][n])]
      BY <2>2, <2>4 DEF FromOne
    <3> PICK b, e : b = up[i].class /\ e = q[Len(q)]
      OBVIOUS
    <3>2. b \in Names /\ created[b][n] # <<>> /\ e = created[b][n][Len(created[b][n])]
      BY <1>2, <1>4, <3>1
    <3>3. ~Redefines(funcs[e].class, n)
      BY <1>1, <3>2 DEF Rooted
    <3> QED
      BY <3>3
  <2> QED
    BY <2>3, <2>4
<1> QED
  BY <1>5, <1>7, <1>9

\* A class inherits.
LEMMA InheritSettling ==
  ASSUME IInv, stage = "transform", Regular, FunctionsOK, Transforming, Settling, performInheritance, HasParent(This)
  PROVE  Settling'
<1> PICK c, up : c = This /\ up = Lineage(Class(This).parent)
  OBVIOUS
<1> PICK table : table = FlattenSeq([i \in DOMAIN up |-> InTable(up[i].class)])
  OBVIOUS
<1>1. /\ Doing("inherit") /\ Then(<<>>) /\ prog' = prog /\ funcs' = funcs
      /\ types' = [types EXCEPT ![c].ancestors = up, ![c].hasVtable = Last(up).hasVtable, ![c].vtable = table]
      /\ created' = [created EXCEPT ![c] = [n \in 1..LastName |-> FromAbove(up, n)]]
  BY DEF performInheritance
<1>2. /\ todo \in Seq(Tasks) /\ c \in Names /\ \A d \in DOMAIN types : DOMAIN types[d] = {"id", "ancestors", "hasVtable", "vtable"}
      /\ prog \in Program /\ todo # <<>> /\ DOMAIN types \subseteq Names
  BY <1>1, HeadType DEF Doing, IInv, Typed
<1>3. /\ InLine(up) /\ Built(c, table)
      /\ \A n \in 1..LastName : Redefines(c, n) => FromAbove(up, n) # <<>> /\ Last(up).hasVtable
      /\ \A n \in 1..LastName : FromAbove(up, n) # <<>> =>
           ~Redefines(funcs[FromAbove(up, n)[Len(FromAbove(up, n))]].class, n)
  BY <1>1, InheritedIs
<1>4. /\ DOMAIN types' = DOMAIN types
      /\ \A d \in DOMAIN types : d # c => types'[d] = types[d]
      /\ c \in DOMAIN types => types'[c].ancestors = up /\ types'[c].vtable = table /\ types'[c].hasVtable = Last(up).hasVtable
  BY <1>1, <1>2
<1>5. /\ \A n \in 1..LastName : created'[c][n] = FromAbove(up, n)
      /\ \A d \in Names : d # c => created'[d] = created[d]
  <2> PICK g : g = [n \in 1..LastName |-> FromAbove(up, n)]
    OBVIOUS
  <2>1. \A n \in 1..LastName : g[n] = FromAbove(up, n)
    OBVIOUS
  <2>2. DOMAIN created = Names
    BY DEF Transforming, Entered
  <2>3. created' = [created EXCEPT ![c] = g]
    BY <1>1
  <2> QED
    BY <1>2, <2>1, <2>2, <2>3
<1>6. Kept
  BY <1>1 DEF Kept
<1>7. ASSUME c \in DOMAIN types PROVE Prepared(c)' /\ Settled(c)'
  <2>1. Built(c, table)' /\ InLine(up)'
    BY <1>1, <1>3, <1>6, StillBuilt, StillInLine
  <2>2. types'[c].ancestors = up /\ types'[c].vtable = table /\ types'[c].hasVtable = Last(up).hasVtable
    BY <1>4, <1>7
  <2>3. Built(c, types[c].vtable)' /\ InLine(types[c].ancestors)'
    BY <2>1, <2>2
  <2>4. ASSUME NEW n \in 1..LastName, Redefines(c, n)' PROVE created'[c][n] # <<>> /\ types'[c].hasVtable
    <3>1. Redefines(c, n)
      BY <1>1, <2>4, StillDeclared
    <3> QED
      BY <1>3, <1>5, <2>2, <3>1
  <2>5. Bequeathed(c)'
    BY <2>4 DEF Bequeathed
  <2>6. \A t : t \in ToSet(todo)' <=> t \in Rest
    BY <1>1, <1>2, Popped DEF Then, Transforming
  <2>7. \A b, d : Below(b, d)' = Below(b, d)
    BY <1>1, Static
  <2>8. \A t \in Rest : t.do = "type" \/ ~Below(c, t.class)
    BY <1>1, AboveIsDone
  <2>9. Settled(c)'
    BY <2>6, <2>7, <2>8 DEF Settled
  <2> QED
    BY <2>3, <2>5, <2>9 DEF Prepared
<1>8. ASSUME NEW d \in DOMAIN types, ~Waits("inherit", d)' PROVE Prepared(d)' /\ Settled(d)'
  <2>1. CASE d = c
    BY <1>7, <2>1
  <2>2. CASE d # c
    <3>1. types'[d] = types[d] /\ created'[d] = created[d]
      BY <1>2, <1>4, <1>5, <2>2
    <3> QED
      BY <1>1, <1>8, <2>2, <3>1, OthersSettled
  <2> QED
    BY <2>1, <2>2
<1>9. ASSUME NEW d \in Names, NEW n \in 1..LastName, created'[d][n] # <<>>
      PROVE  ~Redefines(funcs[created[d][n][Len(created[d][n])]].class, n)'
  <2> PICK q, a : q = created'[d][n] /\ a = funcs[q[Len(q)]].class
    OBVIOUS
  <2>1. ~Redefines(a, n)
    <3>1. CASE d = c
      <4>1. q = FromAbove(up, n)
        BY <1>5, <3>1
      <4> QED
        BY <1>3, <1>9, <4>1
    <3>2. CASE d # c
      <4>1. q = created[d][n] /\ q # <<>>
        BY <1>5, <1>9, <3>2
      <4> QED
        BY <4>1 DEF Settling, Rooted
    <3> QED
      BY <3>1, <3>2
  <2>2. ~Redefines(a, n)'
    BY <1>1, <2>1, StillDeclared
  <2>3. a = funcs'[created'[d][n][Len(created'[d][n])]].class
    BY <1>1
  <2> QED
    BY <2>2, <2>3
<1>10. Rooted'
  <2>1. Names' = Names
    BY <1>1, Static
  <2> QED
    BY <1>9, <2>1 DEF Rooted
<1> QED
  BY <1>4, <1>8, <1>10 DEF Settling

-----------------------------------------------------------------------------
(* Every step, and where the calls lead *)

\* Nothing was generated at first.
LEMMA InitDispatching == Init => Dispatching
<1> SUFFICES ASSUME Init PROVE Settling
  BY DEF Init, Dispatching
<1>1. DOMAIN types = {} /\ created = [c \in Names |-> [n \in 1 .. LastName |-> <<>>]]
  BY DEF Init
<1>2. \A c \in Names : \A n \in 1..LastName : created[c][n] = <<>>
  BY <1>1
<1> QED
  BY <1>1, <1>2 DEF Settling, Rooted

\* The end of the check, and rest.
LEMMA RestDispatching ==
  ASSUME IInv, Refusals, Dispatching, EndCheck \/ UNCHANGED vars
  PROVE  Dispatching'
<1>1. /\ UNCHANGED <<prog, types, created, funcs, todo>>
      /\ stage' = stage \/ (stage # "transform" /\ stage' # "transform")
  <2>1. CASE EndCheck
    BY <2>1 DEF EndCheck
  <2>2. CASE UNCHANGED vars
    BY <2>2 DEF vars
  <2> QED
    BY <2>1, <2>2
<1>2. Kept /\ DOMAIN funcs' = DOMAIN funcs
  BY <1>1 DEF Kept
<1>3. Regular' <=> Regular
  BY <1>1, StaticToo
<1>4. Names' = Names
  BY <1>1, Static
<1>5. \A do, c : Waits(do, c)' <=> Waits(do, c)
  BY <1>1, Zenon DEF Waits
<1>6. ASSUME NEW c \in DOMAIN types, Prepared(c) PROVE Prepared(c)'
  <2>1. LineageOK(c)
    BY <1>6 DEF IInv, Typed
  <2> PICK v : v = types'[c].vtable
    OBVIOUS
  <2>2. Built(c, v)
    BY <1>1, <1>6 DEF Prepared
  <2>3. Built(c, v)'
    BY <1>1, <1>2, <2>2, StillBuilt
  <2> QED
    BY <1>1, <1>2, <1>6, <2>1, <2>3, StillPrepared
<1>7. ASSUME Settling PROVE Settling'
  <2>1. Rooted'
    BY <1>1, <1>7, StillRooted DEF Settling
  <2>2. ASSUME NEW c, Settled(c) PROVE Settled(c)'
    BY <1>1, <2>2, StillSettled
  <2> QED
    BY <1>1, <1>5, <1>6, <1>7, <2>1, <2>2 DEF Settling
<1>8. ASSUME Fixing, FunctionsOK, Checking PROVE Fixing'
  <2>1. AllMade'
    <3>1. \A c, i : Made(c, i)' <=> Made(c, i)
      BY <1>1, Quiet
    <3>2. \A c : Class(c)' = Class(c)
      BY <1>1, Static
    <3> QED
      BY <1>4, <1>8, <3>1, <3>2 DEF Fixing, AllMade
  <2>2. ASSUME NEW c \in Names, Waits("fix", c)' PROVE Prepared(c)'
    BY <1>5, <1>6, <1>8, <2>2 DEF Fixing, Checking
  <2>3. ASSUME NEW c \in Names, ~Waits("fix", c)', Ascending'
        PROVE  TableFor(c, types[c].vtable)' /\ NumbersFor(c, types[c].vtable)'
    <3>1. Fixed(c)
      BY <1>1, <1>8 DEF Fixed
    <3>2. Ascending
      BY <1>1, <1>8, <2>3, <3>1, StillAscending
    <3> PICK t : t = types[c].vtable
      OBVIOUS
    <3>3. TableFor(c, t) /\ NumbersFor(c, t)
      BY <1>5, <1>8, <2>3, <3>2 DEF Fixing
    <3>4. TableFor(c, t)'
      BY <1>1, <1>2, <3>3, StillTableFor
    <3>5. Heritage(c)' = Heritage(c)
      BY <1>1, Static DEF Heritage
    <3>6. NumbersFor(c, t)'
      BY <1>1, <3>3, <3>5 DEF NumbersFor
    <3> QED
      BY <1>1, <3>4, <3>6
  <2> QED
    BY <1>4, <2>1, <2>2, <2>3 DEF Fixing
<1>9. stage # "transform" /\ Regular => FunctionsOK /\ Checking
  BY DEF Refusals
<1> QED
  BY <1>1, <1>3, <1>7, <1>8, <1>9 DEF Dispatching

\* What each stage keeps for the calls, every step does.
LEMMA DispatchStep ==
  ASSUME IInv, Refusals, Dispatching, [Next]_vars
  PROVE  Dispatching'
<1>1. CASE VisitType \/ performInheritance \/ DeclareMethods \/ VisitMethod \/ CallMethod
  <2>1. stage = "transform"
    <3> SUFFICES ASSUME stage # "transform" PROVE FALSE
      OBVIOUS
    <3>1. PICK do \in {"type", "inherit", "declare", "method", "call"} : Doing(do)
      BY <1>1 DEF VisitType, performInheritance, DeclareMethods, VisitMethod, CallMethod
    <3> QED
      BY <3>1, AfterTransform
  <2>2. stage' = stage /\ prog' = prog
    BY <1>1 DEF VisitType, performInheritance, DeclareMethods, VisitMethod, CallMethod
  <2>3. Regular' <=> Regular
    BY <2>2, StaticToo
  <2>4. ASSUME Regular PROVE Settling'
    <3>1. FunctionsOK /\ Transforming /\ Settling
      BY <2>1, <2>4 DEF Refusals, Dispatching
    <3>2. CASE VisitType
      BY <2>1, <3>1, <3>2, VisitSettling
    <3>3. CASE performInheritance
      BY <2>1, <2>4, <3>1, <3>3, NothingInherited, InheritSettling
    <3>4. CASE DeclareMethods
      BY <2>1, <3>1, <3>4, DeclareSettling
    <3>5. CASE VisitMethod
      BY <2>1, <2>4, <3>1, <3>5, VisitMethodSettling
    <3>6. CASE CallMethod
      BY <2>1, <2>4, <3>1, <3>6, CallMethodSettling
    <3> QED
      BY <1>1, <3>2, <3>3, <3>4, <3>5, <3>6
  <2> QED
    BY <2>1, <2>2, <2>3, <2>4 DEF Dispatching
<1>2. CASE StartCheck
  <2>1. stage = "transform" /\ stage' = "check" /\ prog' = prog
    BY <1>2 DEF StartCheck
  <2>2. Regular' <=> Regular
    BY <2>1, StaticToo
  <2>3. ASSUME Regular PROVE Fixing'
    <3>1. FunctionsOK /\ Transforming /\ Settling
      BY <2>1, <2>3 DEF Refusals, Dispatching
    <3> QED
      BY <1>2, <2>1, <2>3, <3>1, StartCheckFixing
  <2> QED
    BY <2>1, <2>2, <2>3 DEF Dispatching
<1>3. CASE fixTypes
  <2>1. stage' = stage /\ prog' = prog /\ todo # <<>> /\ Head(todo).do = "fix"
    BY <1>3 DEF fixTypes, Doing
  <2>2. stage # "transform"
    <3> SUFFICES ASSUME stage = "transform" PROVE FALSE
      OBVIOUS
    <3>1. Head(todo) \in Tasks
      BY <2>1, HeadType
    <3> QED
      BY <2>1, <3>1 DEF Tasks, Kinds
  <2>3. Regular' <=> Regular
    BY <2>1, StaticToo
  <2>4. ASSUME Regular PROVE Fixing'
    <3>1. FunctionsOK /\ Checking /\ Fixing
      BY <2>2, <2>4 DEF Refusals, Dispatching
    <3> QED
      BY <1>3, <2>2, <2>4, <3>1, FixTypesFixing
  <2> QED
    BY <2>1, <2>2, <2>3, <2>4 DEF Dispatching
<1>4. CASE EndCheck \/ UNCHANGED vars
  BY <1>4, RestDispatching
<1> QED
  BY <1>1, <1>2, <1>3, <1>4 DEF Next, Done

\* From the order in which the tables were generated, and what their classes inherit, to the places that every
\* corrected table has for a name.
THEOREM DispatchInvariance == Spec => []Dispatching
<1>1. Init => Dispatching
  BY InitDispatching
<1>2. IInv /\ Refusals /\ Dispatching /\ [Next]_vars => Dispatching'
  BY DispatchStep
<1> QED
  BY <1>1, <1>2, Invariance, RefusalsInvariance, PTL DEF Spec

\* When the names ascend a call loads from the table of the object's class the method of the nearest class that
\* declares it (buildCall.cc, TypeChecker.cc), except where the class inherits it from two that do.
THEOREM CallsAreRight == Spec => []CallsReachOverride
<1>1. IInv /\ Refusals /\ Dispatching => CallsReachOverride
  BY DispatchEnd
<1> QED
  BY <1>1, Invariance, RefusalsInvariance, DispatchInvariance, PTL
=============================================================================
