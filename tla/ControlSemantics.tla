--------------------------- MODULE ControlSemantics ---------------------------
(***************************************************************************)
(* The run of a function as its statements mean it: every step is the next *)
(* observable thing, a call, the outcome of a test, an exception or the    *)
(* end.                                                                    *)
(***************************************************************************)
EXTENDS Statements

VARIABLES
    fn,        \* the function
    rest,      \* what of it is left to execute
    out        \* what it has done

vars == <<fn, rest, out>>

\* A function that has not begun.
Init == out = <<>> /\ rest = Start(fn)

Next == \E e \in Offers(rest) : /\ out' = Append(out, e)
                                /\ rest' = After(rest, e)
                                /\ UNCHANGED fn

Spec == Init /\ [][Next]_vars
=============================================================================
