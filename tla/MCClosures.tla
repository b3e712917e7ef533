------------------------------ MODULE MCClosures ------------------------------
(***************************************************************************)
(* A function f with an argument a and a variable v; in it a lambda l with *)
(* an argument b and a variable w, in that a lambda m with an argument c,  *)
(* and in a block of f a variable u and a lambda n. Every lambda may use   *)
(* what it sees, in what the TypeChecker visits or not.                    *)
(***************************************************************************)
EXTENDS Closures

Use(x) == [k |-> "use", x |-> x]
Declare(x) == [k |-> "declare", x |-> x]
Block(items) == [k |-> "block", of |-> items]
Unvisited(items) == [k |-> "unvisited", of |-> items]
Lambda(name, args, body) == [k |-> "lambda", f |-> [name |-> name, args |-> args, body |-> body]]

\* Every way to use the variables: not at all, plainly, and where it is not visited.
WaysToUse(x) == {<<>>, <<Use(x)>>, <<Unvisited(<<Use(x)>>)>>}
Ways(x, y) == {i \o j : i \in WaysToUse(x), j \in WaysToUse(y)}

Inner == {Lambda("m", <<"c">>, ways \o <<Block(<<Use("c")>>)>>) : ways \in Ways("v", "w")}
Outer == {Lambda("l", <<"b">>, <<Declare("w"), Use("b")>> \o ways \o i) : ways \in {u \o w : u \in Ways("a", "v"), w \in WaysToUse("w")},
                                                                   i \in {<<>>} \cup {<<m>> : m \in Inner}}
         \cup {Lambda("l", <<"b">>, <<Declare("w"), m>> \o ways) : ways \in Ways("v", "w"), m \in Inner}
Second == {<<>>} \cup {<<Block(<<Declare("u"), Lambda("n", <<>>, ways)>>)>> : ways \in {<<Use("u")>>, <<Use("v")>>, <<Unvisited(<<Use("u")>>)>>}}

MCProgram ==
    {[name |-> "f", args |-> <<"a">>, body |-> <<Declare("v"), l>> \o n \o own] :
     l \in Outer, n \in Second, own \in {<<>>, <<Use("v"), Use("a")>>}}
=============================================================================
