--------------------------- MODULE UnwindingProofs ---------------------------
(***************************************************************************)
(* Unwinding, proved for every set of types and every bound: the state is  *)
(* well typed, the two walks agree, a catch body gets an exception of its  *)
(* type, and the two-phase unwinding implements ExceptionSemantics.        *)
(***************************************************************************)
EXTENDS Unwinding, TLAPS

\* A frame above `at` has no clause for the exception that is searched for.
SearchedAbove ==
    phase = "search" => \A j \in Armed : j > at => Innermost(j) # exc

\* In the second walk every frame above `at` has been passed because it has no landing pad.
CleanedAbove ==
    phase \in {"cleanup", "route"} => \A j \in Armed : j <= at

\* While an exception is in flight the program waits.
InFlight == phase # "none" => status = "running" /\ exc \in Type

\* The unwinder enters landing pads only.
RouteArmed == phase = "route" => at \in Armed

\* An abort comes after a search of the whole stack.
AbortSearched == status = "aborted" => \A j \in Armed : Innermost(j) # exc

\* The unwinder's registers are reset between throws.
AtRest == /\ phase = "none" => at = 0
          /\ phase \in {"none", "search"} => handler = 0

IInv ==
    /\ TypeOK
    /\ NoOvershoot
    /\ SearchedAbove
    /\ CleanedAbove
    /\ InFlight
    /\ RouteArmed
    /\ AbortSearched
    /\ AtRest

\* What LeaveTry and a landing leave of the stack is a nonempty stack of frames.
LEMMA UnwoundType ==
    ASSUME stack \in Seq(Frame), NEW i \in Armed
    PROVE  /\ Unwound(i) \in Seq(Frame)
           /\ Len(Unwound(i)) = i
           /\ i \in 1 .. Len(stack)
           /\ Innermost(i) \in Type
<1>1. i \in 1 .. Len(stack) /\ stack[i] # <<>> /\ stack[i] \in Seq(Type)
  BY DEF Armed, Frame
<1>2. Len(stack[i]) \in Nat \ {0}
  BY <1>1
<1>3. SubSeq(stack[i], 1, Len(stack[i]) - 1) \in Seq(Type)
  BY <1>1, <1>2
<1>4. SubSeq(stack, 1, i) \in Seq(Frame) /\ Len(SubSeq(stack, 1, i)) = i
  BY <1>1
<1>5. SubSeq(stack, 1, i)[i] = stack[i]
  BY <1>1
<1>6. Unwound(i) \in Seq(Frame) /\ Len(Unwound(i)) = i
  BY <1>1, <1>3, <1>4, <1>5 DEF Unwound, Frame
<1>7. Innermost(i) \in Type
  BY <1>1, <1>2 DEF Innermost
<1> QED
  BY <1>1, <1>6, <1>7

\* Before the first call no exception is on its way.
LEMMA InitInv == Init => IInv
<1> SUFFICES ASSUME Init PROVE IInv
  OBVIOUS
<1>1. stack = << <<>> >> /\ <<>> \in Frame
  BY DEF Init, Frame
<1>2. stack \in Seq(Frame) /\ stack # <<>>
  BY <1>1
<1>3. TypeOK
  BY <1>2 DEF Init, TypeOK
<1> QED
  BY <1>3 DEF Init, IInv, NoOvershoot, SearchedAbove, CleanedAbove, InFlight, RouteArmed, AbortSearched, AtRest

\* A step of the running program: the unwinder is at rest before and after, and
\* nothing is landed in.
LEMMA ProgramStep ==
    ASSUME IInv, Idle, stack' \in Seq(Frame), stack' # <<>>,
           status' \in {"running", "exited"}, UNCHANGED <<body, unwinder>>
    PROVE  IInv'
<1>1. phase = "none" /\ at = 0 /\ handler = 0
  BY DEF IInv, AtRest, Idle
<1>2. TypeOK'
  BY <1>1 DEF IInv, TypeOK, unwinder
<1> QED
  BY <1>1, <1>2 DEF IInv, NoOvershoot, SearchedAbove, CleanedAbove, InFlight, RouteArmed, AbortSearched, AtRest, unwinder

\* The steps of the unwinder but the last leave the stack as it is.
LEMMA StackSame ==
    ASSUME UNCHANGED stack
    PROVE  /\ Armed' = Armed
           /\ \A i : Innermost(i)' = Innermost(i)
BY DEF Armed, Innermost

\* Every step of the program and the unwinder keeps the invariant.
LEMMA NextInv == IInv /\ [Next]_vars => IInv'
<1> SUFFICES ASSUME IInv, [Next]_vars PROVE IInv'
  OBVIOUS
<1> USE DEF unwinder
<1>1. stack \in Seq(Frame) /\ Len(stack) \in Nat \ {0} /\ stack[Len(stack)] \in Seq(Type)
  BY DEF IInv, TypeOK, Frame
<1>2. CASE Call
  <2>1. <<>> \in Frame
    BY DEF Frame
  <2>2. stack' \in Seq(Frame) /\ stack' # <<>>
    BY <1>1, <1>2, <2>1 DEF Call
  <2> QED
    BY <1>2, <2>2, ProgramStep DEF Call, Idle
<1>3. CASE LeaveTry
  <2>1. stack' \in Seq(Frame) /\ Len(stack') = Len(stack)
    BY <1>1, <1>3, UnwoundType DEF LeaveTry
  <2> QED
    BY <1>1, <1>3, <2>1, ProgramStep DEF LeaveTry, Idle
<1>4. CASE Return
  <2>1. CASE Len(stack) > 1
    <3>1. stack' = SubSeq(stack, 1, Len(stack) - 1) /\ status' = status
      BY <1>1, <1>4, <2>1 DEF Return
    <3>2. stack' \in Seq(Frame) /\ Len(stack') = Len(stack) - 1
      BY <1>1, <2>1, <3>1
    <3>3. stack' # <<>>
      BY <1>1, <2>1, <3>2
    <3> QED
      BY <1>4, <3>1, <3>2, <3>3, ProgramStep DEF Return, Idle
  <2>2. CASE Len(stack) = 1
    <3>1. stack' = stack /\ status' = "exited" /\ UNCHANGED <<body, unwinder>> /\ Idle
      BY <1>1, <1>4, <2>2 DEF Return
    <3>2. stack' \in Seq(Frame) /\ stack' # <<>>
      BY <3>1 DEF IInv, TypeOK
    <3> QED
      BY <3>1, <3>2, ProgramStep
  <2> QED
    BY <1>4, <2>1, <2>2 DEF Return
<1>5. ASSUME NEW t \in Type, EnterTry(t) PROVE IInv'
  <2>1. Append(stack[Len(stack)], t) \in Frame
    BY <1>1 DEF Frame
  <2>2. stack' \in Seq(Frame) /\ stack' # <<>>
    BY <1>1, <1>5, <2>1 DEF EnterTry
  <2> QED
    BY <1>5, <2>2, ProgramStep DEF EnterTry, Idle
<1>6. ASSUME NEW t \in Type, Throw(t) PROVE IInv'
  <2>1. \A j \in Armed : j <= Len(stack)
    BY <1>1 DEF Armed
  <2>2. TypeOK'
    BY <1>1, <1>6 DEF IInv, TypeOK, Throw
  <2>3. SearchedAbove'
    BY <1>1, <1>6, <2>1, StackSame DEF SearchedAbove, Throw, Armed
  <2> QED
    BY <1>6, <2>2, <2>3 DEF IInv, NoOvershoot, CleanedAbove, InFlight, RouteArmed, AbortSearched, AtRest, Throw, Idle
<1>7. CASE SearchOn
  <2>1. TypeOK' /\ InFlight'
    BY <1>7 DEF IInv, TypeOK, InFlight, SearchOn
  <2>2. SearchedAbove'
    <3> SUFFICES ASSUME NEW j \in Armed, j > at - 1 PROVE Innermost(j) # exc
      BY <1>7, StackSame DEF SearchedAbove, SearchOn
    <3>1. j \in Nat /\ at \in Nat
      BY <1>1 DEF Armed, IInv, TypeOK
    <3>2. CASE j = at
      BY <1>7, <3>2 DEF SearchOn, Matches
    <3>3. CASE j > at
      BY <1>7, <3>3 DEF IInv, SearchedAbove, SearchOn
    <3> QED
      BY <3>1, <3>2, <3>3
  <2> QED
    BY <1>7, <2>1, <2>2 DEF IInv, NoOvershoot, CleanedAbove, InFlight, RouteArmed, AbortSearched, AtRest, SearchOn
<1>8. CASE SearchFinds
  <2>1. \A j \in Armed : j <= Len(stack)
    BY <1>1 DEF Armed
  <2>2. TypeOK' /\ InFlight'
    BY <1>1, <1>8 DEF IInv, TypeOK, InFlight, SearchFinds
  <2>3. Armed' = Armed /\ Matches(handler)' /\ handler' \in Armed /\ handler' <= Len(stack)
    BY <1>8, <2>1 DEF SearchFinds, Armed, Matches, Innermost
  <2>4. NoOvershoot' /\ CleanedAbove'
    BY <1>8, <2>1, <2>3 DEF NoOvershoot, CleanedAbove, SearchFinds
  <2> QED
    BY <1>8, <2>2, <2>4 DEF IInv, SearchedAbove, InFlight, RouteArmed, AbortSearched, AtRest, SearchFinds
<1>9. CASE EndStack
  <2>1. TypeOK' /\ InFlight'
    BY <1>9 DEF IInv, TypeOK, InFlight, EndStack
  <2>2. \A j \in Armed : j > 0
    BY <1>1 DEF Armed
  <2>3. AbortSearched'
    BY <1>9, <2>2, StackSame DEF IInv, SearchedAbove, AbortSearched, EndStack
  <2> QED
    BY <1>9, <2>1, <2>3 DEF IInv, NoOvershoot, SearchedAbove, CleanedAbove, RouteArmed, AtRest, EndStack
<1>10. CASE CleanupOn
  <2>1. TypeOK' /\ InFlight'
    BY <1>10 DEF IInv, TypeOK, InFlight, CleanupOn
  <2>2. \A j \in Armed : j <= at - 1
    <3>1. \A j \in Armed : j \in Nat /\ j <= at /\ j # at
      BY <1>1, <1>10 DEF IInv, CleanedAbove, CleanupOn, Armed
    <3>2. at \in Nat
      BY DEF IInv, TypeOK
    <3> QED
      BY <3>1, <3>2
  <2>3. NoOvershoot' /\ CleanedAbove'
    BY <1>10, <2>2, StackSame DEF IInv, NoOvershoot, CleanedAbove, Matches, CleanupOn
  <2> QED
    BY <1>10, <2>1, <2>3 DEF IInv, SearchedAbove, InFlight, RouteArmed, AbortSearched, AtRest, CleanupOn
<1>11. CASE Install
  <2>1. TypeOK' /\ InFlight'
    BY <1>11 DEF IInv, TypeOK, InFlight, Install
  <2>2. NoOvershoot' /\ CleanedAbove' /\ RouteArmed'
    BY <1>11, StackSame DEF IInv, NoOvershoot, CleanedAbove, Matches, RouteArmed, Install
  <2> QED
    BY <1>11, <2>1, <2>2 DEF IInv, SearchedAbove, InFlight, AbortSearched, AtRest, Install
<1>12. CASE Route
  <2>1. at \in Armed /\ stack \in Seq(Frame) /\ exc \in Type /\ status = "running"
    BY <1>12 DEF IInv, RouteArmed, TypeOK, InFlight, Route
  <2>2. /\ stack' \in Seq(Frame)
        /\ Len(stack') = at
        /\ at \in Nat \ {0}
        /\ Innermost(at) \in Type
    BY <1>12, <2>1, UnwoundType DEF Route
  <2>3. body' = [try |-> Innermost(at), exc |-> exc, entered |-> Innermost(at) = exc]
    BY <1>12 DEF Route
  <2>4. body' \in [try : Type, exc : Type, entered : BOOLEAN]
    BY <2>1, <2>2, <2>3
  <2>5. TypeOK'
    BY <1>12, <2>1, <2>2, <2>4 DEF IInv, TypeOK, Route
  <2> QED
    BY <1>12, <2>1, <2>5 DEF IInv, NoOvershoot, SearchedAbove, CleanedAbove, InFlight, RouteArmed, AbortSearched, AtRest, Route
<1>13. CASE UNCHANGED vars
  BY <1>13 DEF IInv, TypeOK, NoOvershoot, SearchedAbove, CleanedAbove, InFlight, RouteArmed, AbortSearched, AtRest, vars, Armed, Matches, Innermost
<1> QED
  BY <1>2, <1>3, <1>4, <1>5, <1>6, <1>7, <1>8, <1>9, <1>10, <1>11, <1>12, <1>13 DEF Next, Unwind

\* The invariant that the theorems rest on.
THEOREM Invariance == Spec => []IInv
<1>1. Init => IInv
  BY InitInv
<1>2. IInv /\ [Next]_vars => IInv'
  BY NextInv
<1> QED
  BY <1>1, <1>2, PTL DEF Spec

\* The stack, the unwinder's frame and what is in flight keep their types.
THEOREM TypeCorrect == Spec => []TypeOK
<1>1. IInv => TypeOK
  BY DEF IInv
<1> QED
  BY <1>1, Invariance, PTL

\* handleLsda: the second walk stops at or above the frame the search has found.
THEOREM WalksAgree == Spec => []NoOvershoot
<1>1. IInv => NoOvershoot
  BY DEF IInv
<1> QED
  BY <1>1, Invariance, PTL

\* throwOurException: without nesting inside one activation an abort is unhandled indeed.
THEOREM FlatAborts == Spec => []FlatAbortsUnhandled
<1>1. IInv => FlatAbortsUnhandled
  <2> SUFFICES ASSUME IInv, status = "aborted", \A i \in DOMAIN stack : Len(stack[i]) <= 1,
                      NEW i \in DOMAIN stack, NEW k \in DOMAIN stack[i], stack[i][k] = exc
               PROVE  FALSE
    BY DEF FlatAbortsUnhandled, Catches
  <2>1. stack[i] \in Seq(Type) /\ k \in 1 .. Len(stack[i]) /\ Len(stack[i]) <= 1
    <3>1. stack \in Seq(Seq(Type)) /\ i \in 1 .. Len(stack)
      BY DEF IInv, TypeOK, Frame
    <3>2. stack[i] \in Seq(Type)
      BY <3>1
    <3> QED
      BY <3>2
  <2>2. k = 1 /\ Len(stack[i]) = 1
    <3>1. Len(stack[i]) \in Nat /\ k \in Nat /\ 1 <= k /\ k <= Len(stack[i])
      BY <2>1
    <3>2. \A m, n \in Nat : 1 <= n /\ n <= m /\ m <= 1 => n = 1 /\ m = 1
      OBVIOUS
    <3> QED
      BY <2>1, <3>1, <3>2
  <2>3. i \in Armed
    <3>1. stack[i] # <<>>
      BY <2>2
    <3> QED
      BY <3>1 DEF Armed
  <2>4. Innermost(i) # exc
    BY <2>3 DEF IInv, AbortSearched
  <2> QED
    BY <2>2, <2>4 DEF Innermost
<1> QED
  BY <1>1, Invariance, PTL

\* A throw, its search and its cleanup are one step of ExceptionSemantics; all else maps to itself.
THEOREM Refinement == Spec => ImplementsSemantics
<1> USE DEF Semantics!vars, Semantics!Armed, Semantics!Innermost, Semantics!Unwound, Semantics!Catching
<1>1. Init => Semantics!Init
  BY DEF Init, Semantics!Init
<1>2. IInv /\ [Next]_vars => [Semantics!Next]_(Semantics!vars)
  <2> SUFFICES ASSUME IInv, [Next]_vars PROVE [Semantics!Next]_(Semantics!vars)
    OBVIOUS
  <2>1. CASE Call
    BY <2>1 DEF Call, Idle, Semantics!Next, Semantics!Call
  <2>2. CASE LeaveTry
    BY <2>2 DEF LeaveTry, Idle, Armed, Unwound, Semantics!Next, Semantics!LeaveTry
  <2>3. CASE Return
    BY <2>3 DEF Return, Idle, Semantics!Next, Semantics!Return
  <2>4. ASSUME NEW t \in Type, EnterTry(t) PROVE Semantics!Next
    BY <2>4 DEF EnterTry, Idle, Semantics!Next, Semantics!EnterTry
  <2>5. ASSUME NEW t \in Type, Throw(t) PROVE UNCHANGED Semantics!vars
    BY <2>5 DEF Throw
  <2>6. CASE SearchOn \/ SearchFinds \/ CleanupOn \/ Install
    BY <2>6 DEF SearchOn, SearchFinds, CleanupOn, Install
  <2>7. CASE EndStack
    <3>1. exc \in Type /\ status = "running"
      BY <2>7 DEF EndStack, IInv, InFlight
    <3>2. \A j \in Armed : j > 0
      BY DEF Armed, IInv, TypeOK
    <3>3. \A j \in Armed : Innermost(j) # exc
      BY <2>7, <3>2 DEF EndStack, IInv, SearchedAbove
    <3>4. Semantics!Unhandled(exc)
      BY <2>7, <3>1, <3>3 DEF EndStack, Armed, Innermost, Semantics!Unhandled
    <3> QED
      BY <3>1, <3>4 DEF Semantics!Next
  <2>8. CASE Route
    <3>1. exc \in Type /\ status = "running" /\ at \in Armed /\ handler \in Armed
      BY <2>8 DEF Route, IInv, InFlight, RouteArmed, NoOvershoot
    <3>2. Innermost(handler) = exc
      BY <2>8 DEF Route, IInv, NoOvershoot, Matches
    <3>3. \A j \in Armed : j <= at
      BY <2>8 DEF Route, IInv, CleanedAbove
    <3>4. Semantics!Land(exc)
      BY <2>8, <3>1, <3>2, <3>3 DEF Route, Armed, Innermost, Unwound, Semantics!Land
    <3> QED
      BY <3>1, <3>4 DEF Semantics!Next
  <2>9. CASE UNCHANGED vars
    BY <2>9 DEF vars
  <2> QED
    BY <2>1, <2>2, <2>3, <2>4, <2>5, <2>6, <2>7, <2>8, <2>9 DEF Next, Unwind
<1> QED
  BY <1>1, <1>2, Invariance, PTL DEF Spec, ImplementsSemantics, Semantics!Spec
=============================================================================
