---------------------------- MODULE MCVirtualTables ----------------------------
(***************************************************************************)
(* All programs of three classes in one line of descent with up to two     *)
(* methods in the first and one in the others, in either order of the      *)
(* file; with one method that creates an object or calls another, or one   *)
(* field that points to a class; and of such a line with a fourth class    *)
(* beside it, where the first and the fourth have a field or create an     *)
(* object of any other; and of classes whose new methods come in any order *)
(* and before or after those that redefine one.                            *)
(***************************************************************************)
EXTENDS VirtualTables

Nothing == [k |-> "nothing", x |-> NoClass]
New(c) == [k |-> "new", x |-> c]
Calling(n) == [k |-> "call", x |-> n]

M(n, o, does) == [name |-> n, override |-> o, does |-> does]
C(c, parent, field, methods) == [name |-> c, parent |-> parent, field |-> field, methods |-> methods]

Plain(names, o) == [i \in DOMAIN names |-> M(names[i], o, Nothing)]
One == {<<>>, <<1>>, <<2>>, <<3>>}
Two == {<<1>>, <<2>>, <<1, 2>>, <<2, 1>>}

\* Methods of B and C with and without override.
Middle == {Plain(names, o) : names \in One \cup {<<2, 3>>, <<3, 2>>}, o \in BOOLEAN}
Lower == {Plain(names, TRUE) : names \in One} \cup {Plain(<<1>>, FALSE)}

Line(a, b, c, field) == <<C("A", NoClass, field, a), C("B", "A", NoClass, b), C("C", "B", NoClass, c)>>

Upper == {Plain(names, FALSE) : names \in Two \cup {<<>>}}
Busy == {[m EXCEPT ![1].does = d] : m \in {Plain(<<1, 2>>, FALSE), Plain(<<2, 1>>, FALSE), Plain(<<1, 2>>, TRUE)},
                                    d \in {New("B"), New("C"), Calling(1), Calling(2)}}

InFileOrder ==
    {Line(a, b, c, NoClass) : a \in Upper \cup Busy, b \in Middle, c \in Lower}
    \cup {Line(a, b, c, f) : a \in Upper, b \in {<<>>, Plain(<<1>>, TRUE)}, c \in {<<>>}, f \in {"B", "C"}}

\* C has nothing of its own; A, B and a class D beside them mention each other.
Fields == {NoClass, "B", "C", "D"}
Creating == {<<>>} \cup {<<M(1, TRUE, d)>> : d \in {Nothing, New("B"), New("C"), New("D")}}
Aside ==
    {<<C("A", NoClass, f, m), C("B", "A", NoClass, b), C("C", "B", NoClass, <<>>), C("D", NoClass, g, n)>> :
        f \in Fields, m \in Creating, b \in {<<>>, Plain(<<1>>, TRUE)}, g \in Fields, n \in Creating}

\* Three methods that call one another, in a class and in one below it, also in another order.
Chains ==
    {<<C("A", NoClass, NoClass, [i \in 1..3 |-> M(names[i], o, does[i])]), C("B", "A", NoClass, [i \in 1..3 |-> M(i, TRUE, does[i])])>> :
        names \in {<<1, 2, 3>>, <<3, 1, 2>>}, o \in BOOLEAN, does \in [1..3 -> {Nothing, New("B"), Calling(1), Calling(2), Calling(3)}]}

\* Methods that are new in a class, in any order and also after some that are not, and in A with calls.
Orders(names, k) == UNION {{s \in [1..n -> names] : \A i, j \in 1..n : s[i] = s[j] => i = j} : n \in 0..k}
Mixed ==
    {<<C("A", NoClass, NoClass, Plain(a, TRUE)), C("B", "A", NoClass, Plain(b, TRUE)),
       C("C", "B", NoClass, Plain(c, TRUE)), C("D", p, NoClass, Plain(d, TRUE))>> :
        a \in Orders({1, 2}, 2), b \in Orders(1..3, 2), c \in Orders({1, 4}, 1), d \in {<<>>, <<1, 4>>, <<4, 1>>, <<3, 4>>}, p \in {"A", "B", "C"}}
    \cup {<<C("A", NoClass, NoClass, [i \in 1..3 |-> M(i, i # 1, does[i])]), C("B", "A", NoClass, Plain(b, TRUE))>> :
            does \in [1..3 -> {Nothing, Calling(2), Calling(3)}], b \in {<<4>>, <<1, 4>>, <<3, 4>>}}

MCProgram ==
    Mixed \cup Chains \cup InFileOrder \cup {Reverse(p) : p \in InFileOrder}
    \cup Aside \cup {<<p[2], p[1], p[3], p[4]>> : p \in Aside}
=============================================================================
