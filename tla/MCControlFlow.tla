----------------------------- MODULE MCControlFlow -----------------------------
(***************************************************************************)
(* All functions of one compound statement over simple bodies, and of one  *)
(* compound statement within another, followed by a call or a return.      *)
(***************************************************************************)
EXTENDS ControlFlow

A == Call("a")
B == Call("b")
C == Call("c")
Ret == Return(TRUE)
VoidRet == Return(FALSE)
Break == LoopFlow("break")
Continue == LoopFlow("continue")

While(b) == WhileLoop(Test("w"), b, <<>>, FALSE)
DoWhile(b) == WhileLoop(Test("d"), b, <<>>, TRUE)
CFor(b) == WhileLoop(Test("f"), b, <<Call("step")>>, FALSE)
For(b) == ForLoop("it", b)
EnumSwitch(f, cases, other) == Switch("s", f, cases, other)
CSwitch(cases, other) == Switch("s", 0, cases, other)

Loops(b) == {While(b), DoWhile(b), CFor(b), For(b)}

\* A body that a loop encloses may also leave or repeat it.
Simple == {<<>>, <<A>>, <<Ret>>}
InLoop == {<<A>>, <<Ret>>, <<Break>>, <<Continue>>}

Branches(S) == {Conditional(Test("i"), x, y) : x \in S, y \in S \cup {<<>>}}
Tries(S) == {TryCatch(x, y) : x \in S \cup {<<Throw>>}, y \in S}
Switches(S) == {EnumSwitch(2, <<Case(0, x), Case(1, y)>>, <<>>) : x \in S, y \in S} \cup {CSwitch( <<Case(1, x)>>, <<y>>) : x \in S, y \in S}

Flat(S) == Branches(S) \cup Tries(S) \cup Switches(S) \cup UNION {Loops(b) : b \in InLoop}

Nested ==
    UNION {Loops(<<c, B>>) : c \in Flat(InLoop)}
    \cup UNION {{Conditional(Test("j"), <<c>>, <<B>>), TryCatch(<<c, B>>, <<>>), TryCatch(<<B>>, <<c>>), TryCatch(<<TryCatch(<<A>>, <<c>>)>>, <<B, Ret>>), TryCatch(<<B>>, <<c, Ret>>)} : c \in Flat(Simple)}

\* Shapes beside the regular ones: conditions, jumps followed by statements, faulty switches.
P == Test("p")
Q == Test("q")
R == Test("r")
Conditions == {And(P, Q), Or(P, Q), And(Or(P, Q), Not(R)), Or(P, And(Not(Q), R)), And(And(P, Not(Q)), Or(Q, R))}

Odd == {<<Conditional(c, <<A>>, <<B>>)>> : c \in Conditions} \cup {<<[CFor(<<A>>) EXCEPT !.c = c]>> : c \in Conditions}
       \cup {<<Ret, A>>, <<While(<<Break, A>>)>>, <<DoWhile(<<Ret, Continue>>)>>, <<Throw, A>>,
             <<EnumSwitch(2, <<Case(0, <<A>>), Case(0, <<B>>)>>, <<>>)>>, <<EnumSwitch(3, <<Case(0, <<A>>)>>, <<>>)>>,
             <<EnumSwitch(3, <<Case(2, <<A>>)>>, <<<<B>>>>), Ret>>, <<CSwitch( <<Case(0, <<A>>)>>, <<>>)>>, <<VoidRet>>,
             <<DoWhile(<<Conditional(Test("i"), <<Break>>, <<>>), Ret>>)>>}

Body == {<<s, C>> : s \in Flat(Simple) \cup Nested} \cup {<<s, Ret>> : s \in Flat(Simple)} \cup {<<s>> : s \in Flat(Simple) \cup Nested} \cup Odd

MCFunction ==
    {Func(k, FALSE, FALSE, FALSE, b) : k \in {"number", "object"}, b \in Body}
    \cup {Func("void", FALSE, FALSE, FALSE, b) : b \in {<<VoidRet>>, <<A>>, <<Ret>>}}
    \cup {Func("pointer", TRUE, s, v, b) : s \in BOOLEAN, v \in BOOLEAN, b \in {<<A>>, <<Ret>>}}
=============================================================================
