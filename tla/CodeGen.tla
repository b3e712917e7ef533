-------------------------------- MODULE CodeGen --------------------------------
(***************************************************************************)
(* The blocks that LLVMBuilder emits for the body of one function: one     *)
(* action per visit of a statement (src/src/builder/llvm/build*.cc) and    *)
(* per piece of a visit that follows the visit of a child. What a visit    *)
(* has still to do when its child returns is in todo, the C++ stack.       *)
(*                                                                         *)
(* Blocks are numbered as they are created; block 1 is the entry. An       *)
(* instruction [op, n, to] has the blocks it names in to. Values are left  *)
(* out but for the one a branch or a switch tests. Statements are those of *)
(* Ir.                                                                     *)
(***************************************************************************)
EXTENDS Ir, SequencesExt

CONSTANT Function   \* the functions to compile

VARIABLES
    fn,        \* the function
    code,      \* its blocks, each a sequence of instructions
    at,        \* the insert point of the IRBuilder: a block
    loop,      \* ctx->loop: [next, exit], 0 outside of loops
    tries,     \* tryCatchStack: the landing pads of the open tries
    todo       \* what remains to be done, first first

genVars == <<fn, code, at, loop, tries, todo>>

Instr(op, n, to) == [op |-> op, n |-> n, to |-> to]
Task(do, s, to) == [do |-> do, s |-> s, to |-> to]

NoStmt == [k |-> "none"]

Visit(s) == Task("visit", s, <<>>)
At(b) == Task("at", NoStmt, <<b>>)
Br(b) == Task("br", NoStmt, <<b>>)
BrIfOpen(b) == Task("brIfOpen", NoStmt, <<b>>)
CondBr(yes, no) == Task("condBr", NoStmt, <<yes, no>>)

\* visit(Block) builds its statements one after the other.
Visits(body) == [i \in DOMAIN body |-> Visit(body[i])]

Terminators == {"br", "condBr", "switch", "invoke", "ours", "route", "ret", "resume", "unreachable"}

\* BasicBlock::getTerminator: the last instruction, if it is one.
Terminated(b) == code[b] # <<>> /\ Last(code[b]).op \in Terminators

Block(i) == Len(code) + i
Created(c, n) == c \o [i \in 1 .. n |-> <<>>]
Emitted(c, b, i) == [c EXCEPT ![b] = Append(@, i)]

Emit(i) == code' = Emitted(code, at, i)
Then(tasks) == todo' = tasks \o Tail(todo)
Done == Then(<<>>)

Doing(do) == todo # <<>> /\ Head(todo).do = do
Visiting(k) == Doing("visit") /\ Head(todo).s.k = k
Stmt == Head(todo).s
To == Head(todo).to
-----------------------------------------------------------------------------
(* The IRBuilder *)

SetInsertPoint ==
    /\ Doing("at")
    /\ at' = To[1]
    /\ Done
    /\ UNCHANGED <<fn, code, loop, tries>>

CreateBr ==
    /\ Doing("br")
    /\ Emit(Instr("br", 0, To))
    /\ Done
    /\ UNCHANGED <<fn, at, loop, tries>>

\* A mutant of CreateBrIfOpen: a body that has jumped gets its branch all the same.
CreateBrAlways ==
    /\ Doing("brIfOpen")
    /\ Emit(Instr("br", 0, To))
    /\ Done
    /\ UNCHANGED <<fn, at, loop, tries>>

\* if (!builder->GetInsertBlock()->getTerminator()) builder->CreateBr(...)
CreateBrIfOpen ==
    /\ Doing("brIfOpen")
    /\ IF Terminated(at) THEN UNCHANGED code ELSE Emit(Instr("br", 0, To))
    /\ Done
    /\ UNCHANGED <<fn, at, loop, tries>>

CreateCondBr ==
    /\ Doing("condBr")
    /\ Emit(Instr("condBr", 0, To))
    /\ Done
    /\ UNCHANGED <<fn, at, loop, tries>>
-----------------------------------------------------------------------------
(* Calls and conditions *)

\* createCall: within a try an invoke, after which a new block goes on.
Called(n) ==
    IF tries = <<>>
    THEN Emit(Instr("call", n, <<>>)) /\ UNCHANGED at
    ELSE /\ code' = Emitted(Created(code, 1), at, Instr("invoke", n, <<Block(1), Last(tries)>>))
         /\ at' = Block(1)

VisitCall ==
    /\ Visiting("call")
    /\ Called(Stmt.n)
    /\ Done
    /\ UNCHANGED <<fn, loop, tries>>

\* A throw is a call: nothing ends the block.
VisitThrow ==
    /\ Visiting("throw")
    /\ Called("throw")
    /\ Done
    /\ UNCHANGED <<fn, loop, tries>>

VisitTest ==
    /\ Visiting("test")
    /\ Emit(Instr("test", Stmt.n, <<>>))
    /\ Done
    /\ UNCHANGED <<fn, at, loop, tries>>

VisitNot ==
    /\ Visiting("not")
    /\ Then(<<Visit(Stmt.c), Task("negate", NoStmt, <<>>)>>)
    /\ UNCHANGED <<fn, code, at, loop, tries>>

Negate ==
    /\ Doing("negate")
    /\ Emit(Instr("not", 0, <<>>))
    /\ Done
    /\ UNCHANGED <<fn, at, loop, tries>>

\* && and || of integers: the left operand decides whether the right one is evaluated.
VisitLogical ==
    /\ Doing("visit") /\ Stmt.k \in {"and", "or"}
    /\ Then(<<Visit(Stmt.l), Task("right", Stmt, <<>>)>>)
    /\ UNCHANGED <<fn, code, at, loop, tries>>

\* A mutant of RightOperand: the phi expects the block the right operand began in.
RightOperandFrom ==
    /\ Doing("right")
    /\ LET more == Block(1)  cont == Block(2)
       IN  /\ code' = Emitted(Created(code, 2), at,
                              Instr("condBr", 0, IF Stmt.k = "and" THEN <<more, cont>> ELSE <<cont, more>>))
           /\ at' = more
           /\ Then(<<Visit(Stmt.r), Task("join", Stmt, <<cont, more>>)>>)
    /\ UNCHANGED <<fn, loop, tries>>

RightOperand ==
    /\ Doing("right")
    /\ LET more == Block(1)  cont == Block(2)
       IN  /\ code' = Emitted(Created(code, 2), at,
                              Instr("condBr", 0, IF Stmt.k = "and" THEN <<more, cont>> ELSE <<cont, more>>))
           /\ at' = more
           /\ Then(<<Visit(Stmt.r), Task("join", Stmt, <<cont, at>>)>>)
    /\ UNCHANGED <<fn, loop, tries>>

\* The phi takes a constant from the left block, the right value from where it was computed.
JoinOperands ==
    /\ Doing("join")
    /\ LET cont == To[1]
           phi == Instr("phi", IF Stmt.k = "and" THEN FALSE ELSE TRUE, <<To[2], at>>)
       IN  /\ code' = Emitted(Emitted(code, at, Instr("br", 0, <<cont>>)), cont, phi)
           /\ at' = cont
    /\ Done
    /\ UNCHANGED <<fn, loop, tries>>
-----------------------------------------------------------------------------
(* Statements *)

VisitConditional ==
    /\ Visiting("if")
    /\ LET yes == Block(1)  no == Block(2)  cont == Block(3)
       IN  /\ code' = Created(code, 3)
           /\ Then(<<Visit(Stmt.c), CondBr(yes, no), At(yes)>> \o Visits(Stmt.yes) \o <<BrIfOpen(cont), At(no)>>
                   \o Visits(Stmt.no) \o <<BrIfOpen(cont), At(cont)>>)
    /\ UNCHANGED <<fn, at, loop, tries>>

\* ctx->loop = backupLoop
RestoreLoop == Task("loop", loop, <<>>)

LeaveLoop ==
    /\ Doing("loop")
    /\ loop' = Stmt
    /\ Done
    /\ UNCHANGED <<fn, code, at, tries>>

VisitDoWhile ==
    /\ Visiting("while") /\ Stmt.post
    /\ LET cond == Block(1)  body == Block(2)  cont == Block(3)
       IN  /\ code' = Created(code, 3)
           /\ loop' = [next |-> cond, exit |-> cont]
           /\ Then(<<Br(body), At(body)>> \o Visits(Stmt.body)
                   \o <<BrIfOpen(cond), At(cond), Visit(Stmt.c), CondBr(body, cont), At(cont), RestoreLoop>>)
    /\ UNCHANGED <<fn, at, tries>>

VisitWhile ==
    /\ Visiting("while") /\ ~Stmt.post /\ Stmt.step = <<>>
    /\ LET cond == Block(1)  body == Block(2)  cont == Block(3)
       IN  /\ code' = Created(code, 3)
           /\ loop' = [next |-> cond, exit |-> cont]
           /\ Then(<<Br(cond), At(cond), Visit(Stmt.c), CondBr(body, cont), At(body)>> \o Visits(Stmt.body)
                   \o <<BrIfOpen(cond), At(cont), RestoreLoop>>)
    /\ UNCHANGED <<fn, at, tries>>

\* A mutant of VisitSteppedWhile: continue goes back to the condition, past the step.
VisitSteppedWhileUnstepped ==
    /\ Visiting("while") /\ ~Stmt.post /\ Stmt.step # <<>>
    /\ LET cond == Block(1)  body == Block(2)  cont == Block(3)  step == Block(4)
       IN  /\ code' = Created(code, 4)
           /\ loop' = [next |-> cond, exit |-> cont]
           /\ Then(<<Br(cond), At(cond), Visit(Stmt.c), CondBr(body, cont), At(body)>> \o Visits(Stmt.body)
                   \o <<BrIfOpen(step), At(step)>> \o Visits(Stmt.step) \o <<Br(cond), At(cont), RestoreLoop>>)
    /\ UNCHANGED <<fn, at, tries>>

\* A loop with a step, of for's transformation or C's for: continue goes to the step. It is
\* set once the condition is emitted, before the body.
VisitSteppedWhile ==
    /\ Visiting("while") /\ ~Stmt.post /\ Stmt.step # <<>>
    /\ LET cond == Block(1)  body == Block(2)  cont == Block(3)  step == Block(4)
       IN  /\ code' = Created(code, 4)
           /\ loop' = [next |-> step, exit |-> cont]
           /\ Then(<<Br(cond), At(cond), Visit(Stmt.c), CondBr(body, cont), At(body)>> \o Visits(Stmt.body)
                   \o <<BrIfOpen(step), At(step)>> \o Visits(Stmt.step) \o <<Br(cond), At(cont), RestoreLoop>>)
    /\ UNCHANGED <<fn, at, tries>>

VisitLoopFlow ==
    /\ Doing("visit") /\ Stmt.k \in {"break", "continue"}
    /\ Emit(Instr("br", 0, <<IF Stmt.k = "break" THEN loop.exit ELSE loop.next>>))
    /\ Done
    /\ UNCHANGED <<fn, at, loop, tries>>

\* A for has become a while over an iterator when the builder meets it.
VisitFor ==
    /\ Visiting("for")
    /\ Then(Visits(Desugared(Stmt)))
    /\ UNCHANGED <<fn, code, at, loop, tries>>

\* A value of type kind "object" is copied to the caller's memory in a block of its own.
VisitReturn ==
    /\ Visiting("return")
    /\ IF fn.kind = "object"
       THEN /\ code' = Emitted(Emitted(Created(code, 1), at, Instr("br", 0, <<Block(1)>>)), Block(1), Instr("ret", "return", <<>>))
            /\ at' = Block(1)
       ELSE Emit(Instr("ret", "return", <<>>)) /\ UNCHANGED at
    /\ Done
    /\ UNCHANGED <<fn, loop, tries>>

VisitSwitch ==
    /\ Visiting("switch")
    /\ LET n == Len(Stmt.cases)
           default == Block(n + 1)
           cont == Block(n + 2)
           CaseOf(i) == <<At(Block(i))>> \o Visits(Stmt.cases[i].body)
                      \o <<BrIfOpen(cont), Task("addCase", Stmt.cases[i].label, <<at, Block(i)>>)>>
           other == IF Stmt.other = <<>> THEN <<Br(cont)>> ELSE Visits(Stmt.other[1]) \o <<BrIfOpen(cont)>>
       IN  /\ code' = Emitted(Emitted(Created(code, n + 2), at, Instr("load", [n |-> Stmt.n, fields |-> Stmt.fields], <<>>)),
                              at, Instr("switch", <<>>, <<default>>))
           /\ Then(FlattenSeq([i \in 1 .. n |-> CaseOf(i)]) \o <<At(default)>> \o other \o <<At(cont)>>)
    /\ UNCHANGED <<fn, at, loop, tries>>

\* SwitchInst::addCase, after the case's body is emitted
AddCase ==
    /\ Doing("addCase")
    /\ code' = [code EXCEPT ![To[1]] = Append(Front(@), [Last(@) EXCEPT !.n = Append(@, Stmt), !.to = Append(@, To[2])])]
    /\ Done
    /\ UNCHANGED <<fn, at, loop, tries>>

VisitTry ==
    /\ Visiting("try")
    /\ code' = Emitted(Created(code, 8), at, Instr("br", 0, <<Block(1)>>))
    /\ at' = Block(1)
    /\ tries' = Append(tries, Block(2))
    /\ Then(Visits(Stmt.body) \o <<Task("popTry", NoStmt, <<>>), BrIfOpen(Block(6)),
                                   Task("pads", Stmt, [i \in 1 .. 7 |-> Block(i + 1)])>>)
    /\ UNCHANGED <<fn, loop>>

PopTry ==
    /\ Doing("popTry")
    /\ tries' = Front(tries)
    /\ Done
    /\ UNCHANGED <<fn, code, at, loop>>

\* The blocks around the handler: the landing pad, the test of the exception's class, the
\* switch over its type, whose default goes on after the try, and the unused resume.
EmitPads ==
    /\ Doing("pads")
    /\ LET pad == To[1]  route == To[2]  external == To[3]  unwind == To[4]  end == To[5]  default == To[6]  handler == To[7]
       IN  /\ code' = [code EXCEPT ![unwind] = <<Instr("resume", 0, <<>>)>>,
                                   ![pad] = <<Instr("ours", 0, <<route, external>>)>>,
                                   ![external] = <<Instr("unreachable", 0, <<>>)>>,
                                   ![route] = <<Instr("route", 0, <<handler, default>>)>>,
                                   ![default] = <<Instr("br", 0, <<end>>)>>]
           /\ at' = handler
           /\ Then(Visits(Stmt.handler) \o <<Task("closeHandler", NoStmt, <<handler, end>>), At(end)>>)
    /\ UNCHANGED <<fn, loop, tries>>

\* BBlock->getTerminator(): the handler's first block decides, the branch goes where the builder is.
CloseHandler ==
    /\ Doing("closeHandler")
    /\ IF Terminated(To[1]) THEN UNCHANGED code ELSE Emit(Instr("br", 0, <<To[2]>>))
    /\ Done
    /\ UNCHANGED <<fn, at, loop, tries>>
-----------------------------------------------------------------------------
(* The function *)

\* A mutant of GenInit: the virtual table is stored before the super constructor stores its own.
GenInitVtableFirst ==
    /\ fn \in Function
    /\ code = << <<>>, <<>> >> /\ at = 1
    /\ loop = [next |-> 0, exit |-> 0] /\ tries = <<>>
    /\ todo = (IF fn.vtable THEN <<Task("prelude", [op |-> "vtable", n |-> 0], <<>>)>> ELSE <<>>)
              \o (IF fn.super THEN <<Task("prelude", [op |-> "call", n |-> "super"], <<>>)>> ELSE <<>>)
              \o <<Br(2), At(2)>> \o Visits(fn.body) \o <<Task("close", NoStmt, <<>>)>>

\* buildBodiedFunction: entry and body, and between them what a constructor does first.
GenInit ==
    /\ fn \in Function
    /\ code = << <<>>, <<>> >> /\ at = 1
    /\ loop = [next |-> 0, exit |-> 0] /\ tries = <<>>
    /\ todo = (IF fn.super THEN <<Task("prelude", [op |-> "call", n |-> "super"], <<>>)>> ELSE <<>>)
              \o (IF fn.vtable THEN <<Task("prelude", [op |-> "vtable", n |-> 0], <<>>)>> ELSE <<>>)
              \o <<Br(2), At(2)>> \o Visits(fn.body) \o <<Task("close", NoStmt, <<>>)>>

\* The blocks super-call and vtable-store
Prelude ==
    /\ Doing("prelude")
    /\ code' = Emitted(Emitted(Created(code, 1), at, Instr("br", 0, <<Block(1)>>)), Block(1), Instr(Stmt.op, Stmt.n, <<>>))
    /\ at' = Block(1)
    /\ Done
    /\ UNCHANGED <<fn, loop, tries>>

\* The end of a body that may be reached: ret void, ret self or ret null.
Close ==
    /\ Doing("close")
    /\ IF Terminated(at) THEN UNCHANGED code ELSE Emit(Instr("ret", "end", <<>>))
    /\ Done
    /\ UNCHANGED <<fn, at, loop, tries>>

Gen ==
    \/ SetInsertPoint \/ CreateBr \/ CreateBrIfOpen \/ CreateCondBr
    \/ VisitCall \/ VisitThrow \/ VisitTest \/ VisitNot \/ Negate \/ VisitLogical \/ RightOperand \/ JoinOperands
    \/ VisitConditional \/ LeaveLoop \/ VisitDoWhile \/ VisitWhile \/ VisitSteppedWhile \/ VisitLoopFlow \/ VisitFor
    \/ VisitReturn \/ VisitSwitch \/ AddCase \/ VisitTry \/ PopTry \/ EmitPads \/ CloseHandler
    \/ Prelude \/ Close

Generated == todo = <<>>
-----------------------------------------------------------------------------
(* llvm::verifyFunction *)

Reaching(b) == {a \in DOMAIN code : code[a] # <<>> /\ b \in Range(Last(code[a]).to)}

WellFormedBlock(b) ==
    /\ Terminated(b)
    /\ \A i \in 1 .. Len(code[b]) - 1 : code[b][i].op \notin Terminators
    /\ \A i \in DOMAIN code[b] : code[b][i].op = "phi" => i = 1 /\ Range(code[b][i].to) = Reaching(b)
    /\ Last(code[b]).op = "switch" => IsInjective(Last(code[b]).n)

WellFormed == \A b \in DOMAIN code : WellFormedBlock(b)
=============================================================================
