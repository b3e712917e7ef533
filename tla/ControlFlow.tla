------------------------------ MODULE ControlFlow ------------------------------
(***************************************************************************)
(* A function from its statements to its run: what the transformer rejects *)
(* (src/src/visitors/transform: transformFunction, bodyReturns, Switch,    *)
(* Return), the blocks of CodeGen, what llvm::verifyFunction rejects, and  *)
(* the execution of the blocks, shown to implement ControlSemantics.       *)
(*                                                                         *)
(* A condition is a test of the environment that does not throw. What an   *)
(* exception meets outside of the function is Unwinding's: here it is one  *)
(* that the innermost catch names, one that only a caller's catch names,   *)
(* or one that ends the run.                                               *)
(***************************************************************************)
EXTENDS CodeGen

CONSTANTS
    Value,      \* the values of a switch
    MaxEvents   \* bound: events of a run

ASSUME ValueAssumption == Value \subseteq Nat
ASSUME MaxEventsAssumption == MaxEvents \in Nat

VARIABLES
    phase,      \* "returns", "transform", "codegen", "verify", "run", "over", or "error"
    error,      \* why the transformer or the verifier ends the compilation
    pending,    \* the statements still to transform
    pc,         \* the next instruction: [block, index]
    prev,       \* the block control came from
    value,      \* the last value computed
    out,        \* the events of the run
    left        \* a history variable: what the statements say is left to do after out

front == <<phase, error, pending>>
machine == <<pc, prev, value, out, left>>

Meaning == INSTANCE Statements
vars == <<genVars, front, machine>>

Init ==
    /\ GenInit
    /\ phase = "returns" /\ error = "none" /\ pending = fn.body
    /\ pc = [block |-> 1, index |-> 1] /\ prev = 0 /\ value = FALSE /\ out = <<>>
    /\ left = Meaning!Start(fn)
-----------------------------------------------------------------------------
(* The transformer *)

BranchBodies(s) == IF s.k = "if" THEN <<s.yes, s.no>> ELSE <<>>
LoopBody(s) == IF s.k \in {"while", "for"} THEN <<s.body>> ELSE <<>>
TryBodies(s) == IF s.k = "try" THEN <<s.body, s.handler>> ELSE <<>>
CaseBodies(s) == IF s.k = "switch" THEN [i \in DOMAIN s.cases |-> s.cases[i].body] \o s.other ELSE <<>>

Bodies(s) == BranchBodies(s) \o LoopBody(s) \o TryBodies(s) \o CaseBodies(s)

\* A mutant of bodyReturns: a branch without else counts.
RECURSIVE bodyReturnsSomewhere(_)
bodyReturnsSomewhere(body) ==
    \E i \in DOMAIN body : body[i].k = "return" \/ (body[i].k = "if" /\ bodyReturnsSomewhere(body[i].yes))

\* The first statement that settles the matter: a switch does so either way.
RECURSIVE bodyReturns(_)
bodyReturns(body) ==
    IF body = <<>> THEN FALSE
    ELSE LET s == Head(body)
         IN  IF s.k = "switch" THEN \A b \in Range(CaseBodies(s)) : bodyReturns(b)
             ELSE \/ s.k \in {"return", "throw"}
                  \/ s.k = "if" /\ bodyReturns(s.yes) /\ bodyReturns(s.no)
                  \/ s.k = "while" /\ s.post /\ bodyReturns(s.body)
                  \/ s.k = "try" /\ bodyReturns(s.handler) /\ bodyReturns(s.body)
                  \/ bodyReturns(Tail(body))

\* Numbers, void and constructors may end without a return.
MustReturn == fn.kind \in {"object", "pointer"} /\ ~fn.ctor

Fail(e) == /\ phase' = "error"
           /\ error' = e
           /\ UNCHANGED <<genVars, pending, machine>>

LacksReturn ==
    /\ phase = "returns"
    /\ MustReturn /\ ~bodyReturns(fn.body)
    /\ Fail("lacks return")

Returning ==
    /\ phase = "returns"
    /\ MustReturn => bodyReturns(fn.body)
    /\ phase' = "transform"
    /\ UNCHANGED <<genVars, error, pending, machine>>

SwitchError(s) ==
    IF s.fields = 0 THEN s.other = <<>> ELSE s.other = <<>> /\ Len(s.cases) # s.fields

ReturnError(s) == fn.ctor \/ (fn.kind = "void") = s.value

StatementError(s) == CASE s.k = "switch" -> SwitchError(s) [] s.k = "return" -> ReturnError(s) [] OTHER -> FALSE

Reject ==
    /\ phase = "transform"
    /\ pending # <<>> /\ StatementError(Head(pending))
    /\ Fail(Head(pending).k)

Transform ==
    /\ phase = "transform"
    /\ pending # <<>> /\ ~StatementError(Head(pending))
    /\ pending' = FlattenSeq(Bodies(Head(pending))) \o Tail(pending)
    /\ UNCHANGED <<genVars, phase, error, machine>>

Transformed ==
    /\ phase = "transform" /\ pending = <<>>
    /\ phase' = "codegen"
    /\ UNCHANGED <<genVars, error, pending, machine>>
-----------------------------------------------------------------------------
(* Code generation and the verifier *)

Codegen ==
    /\ phase = "codegen"
    /\ Gen
    /\ UNCHANGED <<front, machine>>

EndCodegen ==
    /\ phase = "codegen" /\ Generated
    /\ phase' = "verify"
    /\ UNCHANGED <<genVars, error, pending, machine>>

Verify ==
    /\ phase = "verify"
    /\ phase' = IF WellFormed THEN "run" ELSE "error"
    /\ error' = IF WellFormed THEN "none" ELSE "LLVM_INTERNAL"
    /\ UNCHANGED <<genVars, pending, machine>>
-----------------------------------------------------------------------------
(* The run *)

Here == code[pc.block][pc.index]
Running(op) == phase = "run" /\ Here.op = op

Happens(e) == /\ Len(out) < MaxEvents
              /\ out' = Append(out, e)
              /\ left' = Meaning!After(left, e)
Goto(b) == pc' = [block |-> b, index |-> 1] /\ prev' = pc.block
GoOn == pc' = [pc EXCEPT !.index = @ + 1] /\ UNCHANGED prev
Over == phase' = "over" /\ UNCHANGED <<pc, prev>>

RunCall ==
    /\ Running("call")
    /\ \/ Here.n # "throw" /\ Happens(<<"call", Here.n>>) /\ GoOn /\ UNCHANGED phase
       \/ Happens(<<"left", Here.n>>) /\ Over
    /\ UNCHANGED <<genVars, error, pending, value>>

\* An exception enters the landing pad if the handler here names it, or a caller's does: the
\* second walk stops at any pad. Otherwise no frame has a handler, and the program aborts.
RunInvoke ==
    /\ Running("invoke")
    /\ \/ Here.n # "throw" /\ Happens(<<"call", Here.n>>) /\ Goto(Here.to[1]) /\ UNCHANGED <<phase, value>>
       \/ \E named \in BOOLEAN :
            Happens(<<IF named THEN "threw" ELSE "passed", Here.n>>) /\ value' = named
            /\ Goto(Here.to[2]) /\ UNCHANGED phase
       \/ Happens(<<"left", Here.n>>) /\ Over /\ UNCHANGED value
    /\ UNCHANGED <<genVars, error, pending>>

RunTest ==
    /\ Running("test")
    /\ \E v \in BOOLEAN : Happens(<<"test", Here.n, v>>) /\ value' = v
    /\ GoOn
    /\ UNCHANGED <<genVars, front>>

RunLoad ==
    /\ Running("load")
    /\ \E v \in Value :
         /\ Here.n.fields # 0 => v < Here.n.fields
         /\ Happens(<<"load", Here.n.n, v>>)
         /\ value' = v
    /\ GoOn
    /\ UNCHANGED <<genVars, front>>

\* The phi yields the constant of its left predecessor, or the value computed on the right.
RunValue ==
    /\ phase = "run" /\ Here.op \in {"not", "phi"}
    /\ value' = IF Here.op = "not" THEN ~value ELSE IF prev = Here.to[1] THEN Here.n ELSE value
    /\ GoOn
    /\ UNCHANGED <<genVars, front, out, left>>

RunVtable ==
    /\ Running("vtable")
    /\ Happens(<<"vtable">>)
    /\ GoOn
    /\ UNCHANGED <<genVars, front, value>>

SwitchTo ==
    LET hits == {i \in DOMAIN Here.n : Here.n[i] = value}
    IN  IF hits = {} THEN Here.to[1] ELSE Here.to[1 + CHOOSE i \in hits : TRUE]

\* Every exception is ours; the route's switch leaves by its default if the handler does not
\* name the exception.
RunJump ==
    /\ phase = "run" /\ Here.op \in {"br", "condBr", "switch", "ours", "route"}
    /\ Goto(CASE Here.op \in {"condBr", "route"} -> Here.to[IF value THEN 1 ELSE 2]
              [] Here.op = "switch" -> SwitchTo
              [] OTHER -> Here.to[1])
    /\ UNCHANGED <<genVars, front, value, out, left>>

RunRet ==
    /\ Running("ret")
    /\ Happens(<<Here.n>>)
    /\ Over
    /\ UNCHANGED <<genVars, error, pending, value>>

Ended ==
    /\ phase \in {"error", "over"} \/ Len(out) = MaxEvents
    /\ UNCHANGED vars

Run == RunCall \/ RunInvoke \/ RunTest \/ RunLoad \/ RunValue \/ RunVtable \/ RunJump \/ RunRet

Next == LacksReturn \/ Returning \/ Reject \/ Transform \/ Transformed \/ Codegen \/ EndCodegen \/ Verify \/ Run \/ Ended

Spec == Init /\ [][Next]_vars
-----------------------------------------------------------------------------
(* Properties *)

Semantics == INSTANCE ControlSemantics WITH rest <- left

\* What a compiled function does is what its statements mean: no statement is skipped, repeated
\* or run in another order, whatever loops, branches, switches and tries surround a jump.
ImplementsSemantics == Semantics!Spec

Jumps == {"return", "break", "continue"}

\* A handler that is not one straight block, and runs to its end; calls split it within a try.
HandlerStaysOpen(h, inTry) ==
    /\ \E i \in DOMAIN h : h[i].k \in {"if", "while", "for", "switch", "try"} \/ (inTry /\ h[i].k \in {"call", "throw"})
    /\ Last(h).k \notin Jumps

RECURSIVE Defective(_, _)
Defective(body, inTry) ==
    \/ \E i \in 1 .. Len(body) - 1 : body[i].k \in Jumps
    \/ \E i \in DOMAIN body :
         LET s == body[i]
         IN  \/ s.k = "try" /\ (HandlerStaysOpen(s.handler, inTry) \/ Defective(s.handler, inTry) \/ Defective(s.body, TRUE))
             \/ s.k = "switch" /\ ~IsInjective([j \in DOMAIN s.cases |-> s.cases[j].label])
             \/ s.k # "try" /\ \E b \in Range(Bodies(s)) : Defective(b, inTry)

\* The verifier refuses a transformed function exactly if a statement follows a jump, two cases
\* of a switch agree, or a catch body of several blocks runs to its end.
RefusesExactly ==
    /\ error = "LLVM_INTERNAL" => Defective(fn.body, FALSE)
    /\ phase = "run" /\ out = <<>> => ~Defective(fn.body, FALSE)

\* How a body may be left.
RECURSIVE Exits(_)
Exits(body) ==
    IF body = <<>> THEN {"end"}
    ELSE LET s == Head(body)
             inner == UNION {Exits(b) : b \in Range(Bodies(s))}
             here == CASE s.k \in Jumps \cup {"throw"} -> {s.k}
                       [] s.k \in {"if", "try"} -> inner
                       [] s.k = "switch" -> inner \cup (IF s.other = <<>> /\ Len(s.cases) < s.fields THEN {"end"} ELSE {})
                       [] s.k \in {"while", "for"} ->
                            (inner \ {"break", "continue", "end"})
                            \cup (IF s.k = "for" \/ ~s.post \/ inner \cap {"break", "continue", "end"} # {} THEN {"end"} ELSE {})
                       [] OTHER -> {"end"}
         IN  IF "end" \in here THEN (here \ {"end"}) \cup Exits(Tail(body)) ELSE here

\* A do-while that is taken to return, though a break or continue leaves its body before.
RECURSIVE LeavesDoWhile(_)
LeavesDoWhile(body) ==
    \E i \in DOMAIN body :
        \/ /\ body[i].k = "while" /\ body[i].post /\ bodyReturns(body[i].body)
           /\ Exits(body[i].body) \cap {"break", "continue"} # {}
        \/ \E b \in Range(Bodies(body[i])) : LeavesDoWhile(b)

\* transformFunction: "Function lacks ending return statement!", "Function does not return on
\* all paths!" is said of the functions that must return and do not: the others never run to
\* their end, which would return null or leave the caller's memory as it was.
NeverEnds == phase = "over" /\ MustReturn => Last(out) # <<"end">>

\* An exception that the handler it met did not name: the run has gone on after the try.
Passed == \E i \in DOMAIN out : out[i][1] = "passed"

\* That is so of every run that no handler has let an exception pass in, but for functions with
\* a do-while that may be left early: whatever bodyReturns makes of branches, switches, tries
\* and loops within each other, the blocks of the function agree with it.
ReturnsWhenItMust == LeavesDoWhile(fn.body) \/ Passed \/ NeverEnds
=============================================================================
