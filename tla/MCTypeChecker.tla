----------------------------- MODULE MCTypeChecker -----------------------------
(***************************************************************************)
(* Modules of one or two functions, a lambda and one variable: an          *)
(* operation in every pair of surroundings, with every way of being        *)
(* unsafe; declarations with attributes; casts and assignments.            *)
(***************************************************************************)
EXTENDS TypeChecker

I32 == [shape |-> <<"i32">>, mut |-> <<FALSE>>]
I64 == [shape |-> <<"i64">>, mut |-> <<TRUE>>]
Void == [shape |-> <<"void">>, mut |-> <<FALSE>>]
Fn == [shape |-> <<"function">>, mut |-> <<FALSE>>]
Cls(c) == [shape |-> <<c>>, mut |-> <<TRUE>>]
To(k, t, m) == [shape |-> <<k>> \o t.shape, mut |-> <<m>> \o t.mut]
MCExtends == {<<"B", "A">>}
Types == {I32, I64, Void, Fn, Cls("A"), Cls("B")} \cup
         {To(k, t, m) : k \in {"ptr", "ref"}, t \in {I32, I64, Void, Cls("A"), Cls("B")}, m \in BOOLEAN} \cup
         {To("ptr", To("ptr", t, FALSE), m) : t \in {I32, Void}, m \in BOOLEAN}

Leaf(t) == [k |-> "value", type |-> t, of |-> <<>>]
Var(t, m) == [k |-> "variable", type |-> t, of |-> <<>>, mut |-> m, self |-> FALSE]
Self == [k |-> "argument", type |-> Cls("A"), of |-> <<>>, mut |-> FALSE, self |-> TRUE]
Arg(m) == [k |-> "argument", type |-> I32, of |-> <<>>, mut |-> m, self |-> FALSE]
One(k, t, v) == [k |-> k, type |-> t, of |-> <<v>>]
Field(v, m) == [k |-> "index", type |-> I32, of |-> <<v>>, mut |-> m]
Let(v, m) == [k |-> "declaration", type |-> v.type, of |-> <<v>>, mut |-> m]
Block(vs, u) == [k |-> "block", type |-> Void, of |-> vs, unsafe |-> u]
Many(k, vs) == [k |-> k, type |-> Void, of |-> vs]
Switch(vs, n, values) == [k |-> "switch", type |-> Void, of |-> vs, cases |-> n, values |-> values]
Call(f, vs) == [k |-> "call", form |-> "func", f |-> f, type |-> I32, of |-> vs,
                assigns |-> FALSE, ignoreMutability |-> FALSE, isInitialization |-> FALSE]
Form(form, vs) == [Call("g", vs) EXCEPT !.form = form] @@ [fields |-> <<I32>>, callable |-> FALSE]
Assign(v, i) == [Call("=", <<v, Leaf(I32)>>) EXCEPT !.assigns = TRUE, !.isInitialization = i]
Lambda == [k |-> "func", type |-> Fn, of |-> <<>>, f |-> "l"]

Function(name, body) ==
    [name |-> name, attributes |-> {}, given |-> <<>>, args |-> 0, ret |-> I32, body |-> body,
     anon |-> FALSE, mutating |-> FALSE, ctor |-> FALSE]
AssignOperator == [Function("=", <<>>) EXCEPT !.args = 2, !.attributes = {"BUILTIN"}]
Module(vs, fs) == [variables |-> vs, functions |-> fs \o <<AssignOperator>>]

In(v) == {Block(<<v>>, FALSE), Block(<<v>>, TRUE), Many("if", <<Leaf(I32), Block(<<>>, TRUE), v>>),
          Many("while", <<v, Block(<<>>, TRUE)>>), Many("while", <<Leaf(I32), Block(<<>>, FALSE), v>>),
          Switch(<<Leaf(I32), v, Block(<<v>>, TRUE)>>, 1, <<I32>>), Switch(<<v, Block(<<v>>, FALSE)>>, 1, <<>>),
          Many("try", <<Block(<<v>>, TRUE), v>>), Let(v, FALSE), Field(v, TRUE), One("throw", I32, v),
          One("extract", I32, v), One("return", v.type, v), Call("g", <<v>>), Assign(One("reference", To("ref", I32, TRUE), v), FALSE)}
Around(v) == {v, Block(<<v>>, TRUE), Switch(<<v, v>>, 0, <<>>), Many("try", <<Block(<<v>>, TRUE), v>>),
              Assign(One("reference", To("ref", I32, FALSE), v), FALSE)}
Ops == {One("dereference", I32, Var(To("ptr", I32, FALSE), TRUE)), One("cast", Fn, Leaf(To("ptr", Void, FALSE))),
        Call("g", <<>>), Lambda}
Unsafe == {{}, {"UNSAFE"}, {"UNSAFE", "UNSAFE_FUNC_NOT_BODY"}}

\* f and g, each safe or not, that call one another; l is a lambda of whoever holds it.
Contexts ==
    {Module(<<>>, <<[Function("f", <<Block(<<b>>, FALSE)>>) EXCEPT !.attributes = u],
                    [Function("g", <<Block(<<One("dereference", I32, Leaf(To("ptr", I32, FALSE))), Call("f", <<>>)>>, FALSE)>>)
                        EXCEPT !.attributes = w],
                    [Function("l", <<Block(<<Call("g", <<>>), Var(Void, FALSE)>>, FALSE)>>) EXCEPT !.anon = TRUE]>>) :
     b \in UNION {In(v) : v \in UNION {Around(o) : o \in Ops}}, u \in Unsafe, w \in Unsafe}

\* A function and what it may be declared as.
Declared(attributes) ==
    {Module(<<>>, <<[Function("f", b) EXCEPT !.attributes = attributes \cup a, !.args = n, !.ret = t, !.given = g]>>) :
     b \in {<<>>, <<Block(<<Many("return", <<>>)>>, FALSE)>>, <<Block(<<One("return", I64, Leaf(I64))>>, FALSE)>>},
     a \in SUBSET {"INLINE", "NO_INLINE"}, n \in {0, 1}, t \in {I32, Void}, g \in {<<>>}}
    \cup
    {Module(<<>>, <<[Function("f", <<Block(<<>>, FALSE)>>) EXCEPT !.attributes = attributes, !.given = g]>>) :
     g \in {<<<<"TEST", x, y>>>> : x \in {"expect", "skip", "?"}, y \in {"none", "number", "text"}}
         \cup {<<<<"LLVM_FUNC", x, y>>>> : x \in {"sanitise_void_return", "?"}, y \in {"none", "text"}}
         \cup {<<<<"UNSAFE_FUNC_NOT_BODY", "?", "none">>>>}}
Declarations == UNION {Declared(a) : a \in {{"TEST"}, {"TEST", "UNSAFE"}, {"BENCH"}, {}, {"LLVM_FUNC"}, {"UNSAFE_FUNC_NOT_BODY"}}}

Casts == {Module(<<Let(Leaf(I32), FALSE), Var(Void, TRUE)>>,
                 <<Function("f", <<Block(<<One("cast", b, Leaf(a))>>, FALSE)>>)>>) : a \in Types, b \in Types}

\* Assignments and calls, of what is mutable and what is not, in methods that are mutating and not.
Chain(v) == {v, One("extract", I32, v), One("dereference", I64, v), One("reference", To("ref", I32, TRUE), v)}
Lefts == UNION {Chain(v) : v \in UNION {Chain(w) :
            w \in {Var(I32, TRUE), Var(I32, FALSE), Self, Arg(FALSE), Arg(TRUE), Field(Self, TRUE), Field(Field(Self, FALSE), TRUE),
                   Field(Var(I32, FALSE), TRUE), Let(Leaf(I32), FALSE), Leaf(I64), Assign(Var(I32, FALSE), FALSE)}}}
Assignments ==
    {Module(<<>>, <<[Function("f", <<Block(<<c>>, FALSE)>>) EXCEPT !.mutating = m], [Function("g", <<>>) EXCEPT !.mutating = TRUE]>>) :
     c \in {Assign(v, FALSE) : v \in Lefts} \cup {Assign(Var(I32, FALSE), TRUE)}
           \cup {[Assign(v, FALSE) EXCEPT !.ignoreMutability = TRUE] : v \in {Var(I32, FALSE), Leaf(I32)}}
           \cup {Call("g", <<v>>) : v \in Lefts}, m \in BOOLEAN}
    \cup {Module(<<>>, <<Function("f", <<Block(<<Call("g", <<Var(I32, FALSE)>>)>>, FALSE)>>),
                         [Function("g", <<>>) EXCEPT !.mutating = TRUE, !.ctor = x]>>) : x \in BOOLEAN}

Calls ==
    {Module(<<>>, <<Function("f", <<Block(<<c>>, FALSE)>>), [Function("g", <<>>) EXCEPT !.attributes = a]>>) :
     c \in {Form(k, vs) : k \in {"object", "enum", "value"}, vs \in {<<>>, <<Leaf(I64)>>, <<Leaf(I32), Leaf(I32)>>}} \cup {Call("g", <<>>), Form("zero", <<>>)},
     a \in {{}, {"NOT_IMPLEMENTED"}, {"NOT_IMPLEMENTED", "UNSAFE"}}}

MCProgram == Contexts \cup Declarations \cup Casts \cup Assignments \cup Calls
=============================================================================
