------------------------ MODULE MCOverloadResolution ------------------------
(* A family of declarations in which every shape of parameter occurs, and    *)
(* the casts between i32, i64 and &i32 have three different priorities.      *)
EXTENDS OverloadResolution

CONSTANTS I32, I64, RefI32

MCKind == [t \in Type |-> IF t = RefI32 THEN "ref" ELSE "int"]
MCPointee == [t \in Type |-> I32]

P(t) == [type |-> t, default |-> FALSE]
D(t) == [type |-> t, default |-> TRUE]
Fn(params) == [params |-> params, generic |-> FALSE, fallback |-> FALSE, variadic |-> FALSE]
Gen(params) == [Fn(params) EXCEPT !.generic = TRUE]

MCDeclarations ==
  { Fn(<<P(I32)>>), Fn(<<P(I64)>>), Fn(<<P(RefI32)>>),
    Fn(<<P(I32), P(I64)>>), Fn(<<P(I64), P(I64)>>), Fn(<<P(RefI32), D(I32)>>),
    Fn(<<P(I32), D(RefI32), D(I32)>>),
    [Fn(<<P(I64)>>) EXCEPT !.variadic = TRUE],
    Gen(<<P("T")>>), Gen(<<P("&T")>>), Gen(<<P("T"), P(I64)>>), Gen(<<D("T")>>),
    [Gen(<<P(I32)>>) EXCEPT !.fallback = TRUE] }
=============================================================================
