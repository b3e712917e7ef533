------------------------- MODULE ExceptionSemantics -------------------------
(***************************************************************************)
(* What `throw` does to a compiled program, in one step: which try it      *)
(* lands in, or that the program aborts.                                   *)
(*                                                                         *)
(* A frame is the sequence of the try statements that are open in one      *)
(* activation, each named by the type its catch clause catches, the        *)
(* innermost last (the parser accepts one catch clause per try).           *)
(***************************************************************************)
EXTENDS Naturals, Sequences

CONSTANTS
    Type,       \* the types of exceptions
    None,       \* no exception
    MaxFrames,  \* bound: activations on the stack
    MaxTries    \* bound: open try statements of one activation

VARIABLES
    stack,   \* the activations, the running one last
    status,  \* "running", "exited" or "aborted"
    body     \* the try last landed in and the exception it got: [try, exc, entered]

vars == <<stack, status, body>>

Frame == Seq(Type)

\* The frames whose current call has a landing pad.
Armed == {i \in DOMAIN stack : stack[i] # <<>>}

Innermost(i) == stack[i][Len(stack[i])]

\* The frames whose landing pad has a clause for the exception.
Catching(t) == {i \in Armed : Innermost(i) = t}

\* The stack once control is at the end of frame i's innermost try or in its catch body.
Unwound(i) == [SubSeq(stack, 1, i) EXCEPT ![i] = SubSeq(@, 1, Len(@) - 1)]

Init ==
    /\ stack = << <<>> >>
    /\ status = "running"
    /\ body = None

Call ==
    /\ status = "running"
    /\ Len(stack) < MaxFrames
    /\ stack' = Append(stack, <<>>)
    /\ UNCHANGED <<status, body>>

EnterTry(t) ==
    /\ status = "running"
    /\ Len(stack[Len(stack)]) < MaxTries
    /\ stack' = [stack EXCEPT ![Len(stack)] = Append(@, t)]
    /\ UNCHANGED <<status, body>>

LeaveTry ==
    /\ status = "running"
    /\ Len(stack) \in Armed
    /\ stack' = Unwound(Len(stack))
    /\ UNCHANGED <<status, body>>

Return ==
    /\ status = "running"
    /\ \/ /\ Len(stack) > 1
          /\ stack' = SubSeq(stack, 1, Len(stack) - 1)
          /\ UNCHANGED status
       \/ /\ Len(stack) = 1
          /\ status' = "exited"
          /\ UNCHANGED stack
    /\ UNCHANGED body

\* No landing pad on the stack has a clause for the exception.
Unhandled(t) ==
    /\ status = "running"
    /\ Catching(t) = {}
    /\ status' = "aborted"
    /\ UNCHANGED <<stack, body>>

\* Otherwise control goes to the topmost landing pad, with or without a clause.
Land(t) ==
    /\ status = "running"
    /\ Catching(t) # {}
    /\ \E i \in Armed :
          /\ \A j \in Armed : j <= i
          /\ stack' = Unwound(i)
          /\ body' = [try |-> Innermost(i), exc |-> t, entered |-> Innermost(i) = t]
    /\ UNCHANGED status

Next ==
    \/ Call
    \/ LeaveTry
    \/ Return
    \/ \E t \in Type : EnterTry(t) \/ Unhandled(t) \/ Land(t)

Spec == Init /\ [][Next]_vars
=============================================================================
