------------------------------ MODULE Unwinding ------------------------------
(***************************************************************************)
(* try, catch and throw as compiled and as run: the calls of a try block   *)
(* are invokes whose landing pad is that of the innermost try only         *)
(* (src/src/builder/llvm/call.cc, buildTryCatch.cc), and a throw is a      *)
(* two-phase unwinding steered by the runtime's personality function       *)
(* (src/runtime/libs/exceptions.cc): a search for a frame with a clause of *)
(* the exception's type, then a second walk that stops at the first frame  *)
(* that has any landing pad.                                               *)
(*                                                                         *)
(* Code is not inlined: a frame is an activation of a source function.     *)
(***************************************************************************)
EXTENDS Naturals, Sequences

CONSTANTS
    Type,       \* the types of exceptions, as typeIdxLookup numbers them
    None,       \* no exception, no frame
    MaxFrames,  \* bound: activations on the stack
    MaxTries    \* bound: open try statements of one activation

ASSUME TypeAssumption == None \notin Type
ASSUME BoundsAssumption == MaxFrames \in Nat \ {0} /\ MaxTries \in Nat \ {0}

VARIABLES
    stack,     \* the activations, the running one last; each the open tries' types, innermost last
    status,    \* "running", "exited" or "aborted"
    body,      \* the try last landed in: [try, exc, entered]
    phase,     \* "none", "search", "cleanup" or "route"
    exc,       \* the exception in flight
    at,        \* the frame the unwinder looks at
    handler,   \* the frame the search has found, 0 before
    selector   \* what the personality passes to the landing pad: 0 for cleanup only

vars == <<stack, status, body, phase, exc, at, handler, selector>>

Frame == Seq(Type)

Armed == {i \in DOMAIN stack : stack[i] # <<>>}

Innermost(i) == stack[i][Len(stack[i])]

\* handleActionValue: the clause of the call site's landing pad against the exception's type.
Matches(i) == Innermost(i) = exc

Unwound(i) == [SubSeq(stack, 1, i) EXCEPT ![i] = SubSeq(@, 1, Len(@) - 1)]

Idle == phase = "none" /\ status = "running"

TypeOK ==
    /\ stack \in Seq(Frame) /\ stack # <<>>
    /\ status \in {"running", "exited", "aborted"}
    /\ body \in {None} \cup [try : Type, exc : Type, entered : BOOLEAN]
    /\ phase \in {"none", "search", "cleanup", "route"}
    /\ exc \in Type \cup {None}
    /\ at \in 0 .. Len(stack)
    /\ handler \in 0 .. Len(stack)
    /\ selector \in {0, 1}
-----------------------------------------------------------------------------
(* The program *)

Init ==
    /\ stack = << <<>> >>
    /\ status = "running"
    /\ body = None
    /\ phase = "none" /\ exc = None /\ at = 0 /\ handler = 0 /\ selector = 0

unwinder == <<phase, exc, at, handler, selector>>

\* createCall: a call or, within a try block, an invoke.
Call ==
    /\ Idle
    /\ Len(stack) < MaxFrames
    /\ stack' = Append(stack, <<>>)
    /\ UNCHANGED <<status, body, unwinder>>

\* tryCatchStack.push_back
EnterTry(t) ==
    /\ Idle
    /\ Len(stack[Len(stack)]) < MaxTries
    /\ stack' = [stack EXCEPT ![Len(stack)] = Append(@, t)]
    /\ UNCHANGED <<status, body, unwinder>>

\* tryCatchStack.pop_back: the branch from the end of the try block to try.end
LeaveTry ==
    /\ Idle
    /\ Len(stack) \in Armed
    /\ stack' = Unwound(Len(stack))
    /\ UNCHANGED <<status, body, unwinder>>

Return ==
    /\ Idle
    /\ \/ /\ Len(stack) > 1
          /\ stack' = SubSeq(stack, 1, Len(stack) - 1)
          /\ UNCHANGED status
       \/ /\ Len(stack) = 1
          /\ status' = "exited"
          /\ UNCHANGED stack
    /\ UNCHANGED <<body, unwinder>>

\* A mutant of Throw: the search starts at the caller of the frame that throws.
ThrowFromCaller(t) ==
    /\ Idle
    /\ exc' = t
    /\ phase' = "search"
    /\ at' = Len(stack) - 1
    /\ UNCHANGED <<stack, status, body, handler, selector>>

\* sn.eh.create and sn.eh.throw: the search starts at the frame that throws.
Throw(t) ==
    /\ Idle
    /\ exc' = t
    /\ phase' = "search"
    /\ at' = Len(stack)
    /\ UNCHANGED <<stack, status, body, handler, selector>>
-----------------------------------------------------------------------------
(* The unwinder, calling the personality function of one frame after another *)

\* A mutant of SearchOn: a landing pad that only cleans up ends the search.
SearchPadless ==
    /\ phase = "search" /\ at > 0
    /\ at \notin Armed
    /\ at' = at - 1
    /\ UNCHANGED <<stack, status, body, phase, exc, handler, selector>>

\* _URC_CONTINUE_UNWIND in the search: no landing pad here, or only one to clean up.
SearchOn ==
    /\ phase = "search" /\ at > 0
    /\ ~(at \in Armed /\ Matches(at))
    /\ at' = at - 1
    /\ UNCHANGED <<stack, status, body, phase, exc, handler, selector>>

\* A mutant of SearchFinds: the second walk starts below the frame that throws.
RestartBelow ==
    /\ phase = "search" /\ at > 0
    /\ at \in Armed /\ Matches(at)
    /\ handler' = at
    /\ phase' = "cleanup"
    /\ at' = Len(stack) - 1
    /\ UNCHANGED <<stack, status, body, exc, selector>>

\* _URC_HANDLER_FOUND: the second walk starts over at the top.
SearchFinds ==
    /\ phase = "search" /\ at > 0
    /\ at \in Armed /\ Matches(at)
    /\ handler' = at
    /\ phase' = "cleanup"
    /\ at' = Len(stack)
    /\ UNCHANGED <<stack, status, body, exc, selector>>

\* _URC_END_OF_STACK: throwOurException calls end_stack, which aborts.
EndStack ==
    /\ phase = "search" /\ at = 0
    /\ status' = "aborted"
    /\ phase' = "none"
    /\ UNCHANGED <<stack, body, exc, at, handler, selector>>

\* _URC_CONTINUE_UNWIND in the second walk: the frame has no landing pad.
CleanupOn ==
    /\ phase = "cleanup" /\ at > 0
    /\ at \notin Armed
    /\ at' = at - 1
    /\ UNCHANGED <<stack, status, body, phase, exc, handler, selector>>

\* _URC_INSTALL_CONTEXT: any landing pad is entered, and told whether its clause matched.
Install ==
    /\ phase = "cleanup" /\ at > 0
    /\ at \in Armed
    /\ selector' = IF Matches(at) THEN 1 ELSE 0
    /\ phase' = "route"
    /\ UNCHANGED <<stack, status, body, exc, at, handler>>

\* A mutant of Route: the only handler is the default of the switch.
RouteToHandler ==
    /\ phase = "route"
    /\ stack' = Unwound(at)
    /\ body' = [try |-> Innermost(at), exc |-> exc, entered |-> TRUE]
    /\ phase' = "none" /\ exc' = None /\ at' = 0 /\ handler' = 0 /\ selector' = 0
    /\ UNCHANGED status

\* The catch block: the route switches on the type stored in the exception and
\* leaves through try.end when no handler has it; the selector is not looked at.
Route ==
    /\ phase = "route"
    /\ stack' = Unwound(at)
    /\ body' = [try |-> Innermost(at), exc |-> exc, entered |-> Innermost(at) = exc]
    /\ phase' = "none" /\ exc' = None /\ at' = 0 /\ handler' = 0 /\ selector' = 0
    /\ UNCHANGED status

Unwind == SearchOn \/ SearchFinds \/ EndStack \/ CleanupOn \/ Install \/ Route

Next ==
    \/ Call
    \/ LeaveTry
    \/ Return
    \/ \E t \in Type : EnterTry(t) \/ Throw(t)
    \/ Unwind

\* The unwinder is a loop in a library call: it runs until control is back in the program.
Spec == Init /\ [][Next]_vars /\ WF_vars(Unwind)
-----------------------------------------------------------------------------
(* Properties *)

\* The second walk never passes the frame the search has found: some landing
\* pad at or above it is entered, so _Unwind_RaiseException never returns with
\* _URC_FATAL_PHASE2_ERROR (handleLsda sees the same pads in both phases).
NoOvershoot ==
    phase \in {"cleanup", "route"} =>
        /\ handler \in Armed
        /\ Matches(handler)
        /\ handler <= at

Catches(t) == \E i \in DOMAIN stack : \E k \in DOMAIN stack[i] : stack[i][k] = t

\* When no activation has more than one try open, the program aborts as
\* unhandled only if no open try of the stack catches the exception's type
\* (throwOurException's _URC_END_OF_STACK against the clauses of buildTryCatch).
FlatAbortsUnhandled ==
    /\ status = "aborted"
    /\ \A i \in DOMAIN stack : Len(stack[i]) <= 1
    => ~Catches(exc)

\* A throw is over at some time: in a landing pad or in an abort.
RaiseEnds == (phase # "none") ~> (phase = "none")

\* The two phases amount to one step of ExceptionSemantics, _Unwind_RaiseException
\* seen from the program: which try a throw lands in, which are left on the way,
\* and that its catch body, which loads the exception object as a value of its
\* own type, is entered with that type and no other.
Semantics == INSTANCE ExceptionSemantics
ImplementsSemantics == Semantics!Spec
=============================================================================
