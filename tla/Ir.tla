---------------------------------- MODULE Ir ----------------------------------
(***************************************************************************)
(* The statements of the IR (src/src/ir/values) as the code generator gets *)
(* them. A body is a sequence of statements; where one may be missing, it  *)
(* is <<>> or the sequence of the one that is there. Calls, conditions and *)
(* loops over an iterator are told apart by a name n, a string.            *)
(***************************************************************************)
EXTENDS Naturals, Sequences

Call(n) == [k |-> "call", n |-> n]
Test(n) == [k |-> "test", n |-> n]
Throw == [k |-> "throw"]
Return(value) == [k |-> "return", value |-> value]
LoopFlow(flow) == [k |-> flow]
Conditional(c, yes, no) == [k |-> "if", c |-> c, yes |-> yes, no |-> no]
WhileLoop(c, body, step, post) == [k |-> "while", c |-> c, body |-> body, step |-> step, post |-> post]
ForLoop(n, body) == [k |-> "for", n |-> n, body |-> body]
TryCatch(body, handler) == [k |-> "try", body |-> body, handler |-> handler]

\* fields is the number of the enum's fields, 0 for a switch of C's kind; other is the default case.
Case(label, body) == [label |-> label, body |-> body]
Switch(n, fields, cases, other) == [k |-> "switch", n |-> n, fields |-> fields, cases |-> cases, other |-> other]

\* Operators whose operands are conditions.
And(l, r) == [k |-> "and", l |-> l, r |-> r]
Or(l, r) == [k |-> "or", l |-> l, r |-> r]
Not(c) == [k |-> "not", c |-> c]

\* The return type's kind, and for a constructor whether it calls its parent's and has a virtual table.
Func(kind, ctor, super, vtable, body) == [kind |-> kind, ctor |-> ctor, super |-> super, vtable |-> vtable, body |-> body]

\* for x : n { body }, as the transformer rewrites it: iterator, first value, loop and reset.
Desugared(s) ==
    <<Call(s.n), Call(s.n \o ".next"),
      WhileLoop(Test(s.n \o ".is_valid"), <<Call(s.n \o ".value")>> \o s.body, <<Call(s.n \o ".next")>>, FALSE),
      Call(s.n \o ".reset")>>
=============================================================================
