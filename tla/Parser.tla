------------------------------- MODULE Parser -------------------------------
(* The recursive-descent parser of src/src/parser.  A parse function takes   *)
(* the parser's state and returns the next one, with its result in "node";   *)
(* once an error is set every operator leaves the state alone, which stands  *)
(* for the exception of createError.  The loop of parseGlobal over the       *)
(* file's items is the state machine.                                        *)
(* A token's type is spelled as Token::to_string spells it; i is the         *)
(* position of m_current, counted from 1.  Docstrings are left out.          *)
EXTENDS Ast, FiniteSetsExt

CONSTANT Inputs   \* the token sequences, each closed by its one Eof

VARIABLES tokens, parser, nodes, mode
vars == <<tokens, parser, nodes, mode>>

Eof == [type |-> "eof", value |-> "", glued |-> FALSE]
ASSUME InputsAssumption ==
  \A input \in Inputs : Len(input) > 0 /\ \A k \in DOMAIN input : input[k] = Eof <=> k = Len(input)

(* The state of a Parser.  skipped is not in the code: it collects the       *)
(* tokens that a next() took for granted and that were something else, with  *)
(* what each one was taken for.                                              *)
NoClass == [name |-> "", parent |-> Null]
Start == [i |-> 1, node |-> Null, error |-> "", attributes |-> {}, loop |-> FALSE, class |-> NoClass, skipped |-> {}]

Ok(s) == s.error = ""
Tok(k) == IF k \in DOMAIN tokens THEN tokens[k] ELSE Eof
Value(s) == Tok(s.i).value
Is(s, types) == Ok(s) /\ Tok(s.i).type \in types
Peek(s, types) == Ok(s) /\ Tok(s.i + 1).type \in types

Fail(s, kind) == IF Ok(s) THEN [s EXCEPT !.error = kind, !.node = Null] ELSE s
FailIf(s, wrong, kind) == IF Ok(s) /\ wrong THEN Fail(s, kind) ELSE s
Give(s, node) == IF Ok(s) THEN [s EXCEPT !.node = node] ELSE s
Move(s, n) == IF ~Ok(s) THEN s ELSE IF s.i + n > Len(tokens) THEN Fail(s, "bug") ELSE [s EXCEPT !.i = @ + n]
Advance(s) == Move(s, 1)
Prev(s) == IF Ok(s) THEN [s EXCEPT !.i = @ - 1] ELSE s
\* A peek(), without p_safe, when nothing follows.
Lookahead(s) == FailIf(s, s.i = Len(tokens), "bug")
Expect(s, types) == FailIf(s, ~Is(s, types), "syntax")
Consume(s, type) == Advance(Expect(s, {type}))
\* The code goes on from the current token without a look at it.
Trust(s, type) == IF Ok(s) /\ ~Is(s, {type}) THEN [s EXCEPT !.skipped = @ \cup {<<s.i, type>>}] ELSE s
Skip(s, type) == Trust(Advance(s), type)

Ids == {"id"}
Constants == {"num", "float", "str", "char", "bool"}
TypeStarts == {"&", "&&", "*", "id", "decltype", "func", "("}
PrefixTokens == {"!", "+", "-", "~", "&", "*"}
\* The operators an expression goes on with after an operand.
Infixes == {"=", "==", "+", "+=", "-", "-=", "*", "*=", "/", "/=", "%", "%=", "<", "<=", ">", ">=", "&&", "||", "!", "!=",
            "~", "<<", "<<=", "|>>", "|>>=", "|", "|=", "&", "&=", "^", "^="}
KeywordTypes == {"if", "else", "while", "for", "let", "func", "class", "struct", "enum", "import", "static", "unsafe",
                 "const", "public", "private", "external", "namespace", "macro", "type", "new", "return", "case"}

(* Attributes *)
NoAttributes(s) == FailIf(s, s.attributes # {}, "syntax")
\* verifyAttributes: afterwards none is pending.
Verify(s, allowed) ==
  LET bad == \E a \in s.attributes : a.name \notin allowed \cup {"cfg", "attr"}
  IN IF bad THEN Fail(s, "syntax") ELSE [s EXCEPT !.attributes = {}]
FunctionAttributes == {"llvm_function", "internal_linkage", "external_linkage", "inline", "no_inline", "test", "no_mangle",
                       "export", "bench", "__internal__", "__no_pointer_self__", "unsafe_fn_not_body", "intrinsic"}

RECURSIVE AttributeArgs(_, _)
AttributeArgs(s, args) ==
  LET name  == Expect(Advance(s), Ids)
      value == IF Peek(name, {"="}) THEN Expect(Move(name, 2), {"str", "num"}) ELSE name
      more  == {a \in args : a[1] # Value(name)} \cup {<<Value(name), IF Peek(name, {"="}) THEN Value(value) ELSE "">>}
  IN IF Peek(s, {")"}) THEN Give(Advance(s), args)
     ELSE IF Peek(value, {","}) THEN AttributeArgs(Advance(value), more)
     ELSE IF Peek(value, {")"}) THEN AttributeArgs(value, more) ELSE Fail(value, "syntax")

RECURSIVE AttributeList(_, _)
AttributeList(s, found) ==
  IF ~Is(s, {"@"}) THEN (IF Ok(s) THEN [Prev(s) EXCEPT !.attributes = found] ELSE s)
  ELSE LET name == Expect(Advance(s), Ids \cup KeywordTypes)
           args == IF Peek(name, {"("}) THEN AttributeArgs(Advance(name), {}) ELSE Give(name, {})
           twice == \E a \in found : a.name = Value(name)
       IN AttributeList(Advance(FailIf(args, twice, "syntax")), found \cup {Attribute(Value(name), args.node)})
Attributes(s) == AttributeList(s, {})

(* The operator tree: the leftmost of the operators that bind tightest is    *)
(* applied first, so that every operator associates to the left.             *)
Unary(op) == op.op_type \in {"!", "~", "u+", "u-", "u&", "u*"}
\* Mutant: the comparisons bind tighter than the shifts.
PrecedenceSwapped(op) ==
  IF Unary(op) THEN 0 ELSE CHOOSE level \in 1..11 : op.op_type \in
    <<{"*", "/", "%"}, {"+", "-"}, {"<", "<=", ">", ">="}, {"<<", "|>>"}, {"==", "!="}, {"&"}, {"^"}, {"|"}, {"&&"}, {"||"}, Assignments>>[level]
Precedence(op) ==
  LET levels == <<{"*", "/", "%"}, {"+", "-"}, {"<<", "|>>"}, {"<", "<=", ">", ">="}, {"==", "!="}, {"&"}, {"^"}, {"|"},
                  {"&&"}, {"||"}, Assignments>>
  IN IF Unary(op) THEN 0 ELSE CHOOSE level \in DOMAIN levels : op.op_type \in levels[level]

\* Its operators take the operand they stand before, the last one first.
RECURSIVE Wrap(_, _)
Wrap(ops, operand) == IF ops = <<>> THEN operand ELSE Wrap(Front(ops), BinaryOp(Last(ops).op_type, operand, Null))

RECURSIVE buildOperatorTree(_)
buildOperatorTree(exprs) ==
  LET ops == {k \in DOMAIN exprs : IsOperator(exprs[k])}
      tightest == Min({Precedence(exprs[k]) : k \in ops})
      at == Min({k \in ops : Precedence(exprs[k]) = tightest})
      operand == Min({k \in at..Len(exprs) : k \notin ops})
      before(k) == SubSeq(exprs, 1, k - 1)
      after(k) == SubSeq(exprs, k + 1, Len(exprs))
  IN IF Len(exprs) = 1 THEN exprs[1]
     ELSE IF ops = {} THEN Null
     ELSE IF Unary(exprs[at])
     THEN buildOperatorTree(before(at) \o <<Wrap(SubSeq(exprs, at, operand - 1), exprs[operand])>> \o after(operand))
     ELSE buildOperatorTree(before(at - 1) \o <<BinaryOp(exprs[at].op_type, exprs[at - 1], exprs[at + 1])>> \o after(at + 1))

\* The parse functions that reach each other do so through Parse, where the
\* recursion is: how is the argument that only some of them have.
RECURSIVE Parse(_, _, _)
Type(s) == Parse("type", s, Null)
Expr(s, allowAssign) == Parse("expr", s, allowAssign)
Statement(s) == Parse("statement", s, Null)
BlockAt(s) == Parse("block", s, Null)
Function(s, kind) == Parse("function", s, kind)
Class(s) == Parse("class", s, Null)
GlobalIn(s, terminator) == Parse("global", s, terminator)
Declaration(s) == Parse("declaration", s, Null)

(* Types.  A type ends on the token after it.                                *)
\* The types of a list, from its bracket or a comma to its closing bracket.
RECURSIVE TypeList(_, _)
TypeList(s, types) ==
  LET first == Advance(s)
      type  == Type(first)
      more  == Append(types, type.node)
  IN IF Is(first, {")"}) THEN Give(first, types)
     ELSE IF Is(type, {","}) THEN TypeList(type, more) ELSE Give(Expect(type, {")"}), more)

RECURSIVE GenericExpr(_, _)
GenericExpr(s, types) ==
  LET first == Advance(s)
      type  == Type(first)
      more  == Append(types, type.node)
  IN IF Is(first, {"eof"}) THEN Fail(first, "eof")
     ELSE IF Is(first, {">"}) THEN Give(Advance(first), types)
     ELSE IF Is(type, {","}) THEN GenericExpr(type, more) ELSE Give(Consume(type, ">"), more)

\* Ends on the last token of the identifier.
IdentifierAt(s, isKnownType, allowGenerics) ==
  LET question == Tok(s.i + 2).type = "?"
      open     == Advance(s)
      generics == GenericExpr(IF question THEN Advance(open) ELSE open, <<>>)
  IN IF ~Is(s, Ids) THEN Fail(s, "syntax")
     ELSE IF ~(allowGenerics /\ Peek(s, {"<"}) /\ (isKnownType \/ question)) THEN Give(s, Identifier(Value(s)))
     ELSE IF question /\ isKnownType THEN Fail(s, "syntax")
     ELSE Give(Prev(generics), GenericIdentifier(Value(s), generics.node))

RECURSIVE TypePath(_, _, _)
TypePath(s, ast, id) ==   \* s is on the last part of the path so far
  LET part == s.node
      next == IdentifierAt(Move(s, 2), TRUE, TRUE)
  IN IF ~Ok(s) THEN s
     ELSE IF Peek(s, {"::"}) /\ Ok(next)
     THEN TypePath(next, Index(ast, next.node, TRUE), Append(id, next.node.identifier))
     ELSE IF Peek(s, {"::"}) THEN next
     ELSE Give(Advance(s), TypeRef(ast, id, IF part.kind = "generic" THEN part.generics ELSE <<>>))

DeclTypeAt(s) == LET e == Expr(Expect(Advance(s), {"("}), FALSE) IN Give(Consume(Advance(e), ")"), DeclType(e.node))
FuncTypeAt(s) ==
  LET args == TypeList(Expect(Advance(s), {"("}), <<>>)
      ret  == Type(Consume(Consume(args, ")"), "=>"))
  IN Give(ret, FuncType(args.node, ret.node))
PointerTypeAt(s) ==
  LET access == Expect(Advance(s), {"const", "mut"})
      base   == Type(Advance(access))
  IN Give(base, PointerType(base.node, Is(access, {"mut"})))
ReferenceTypeAt(s) ==
  LET first == Advance(s)
      base  == Type(IF Is(first, {"mut"}) THEN Advance(first) ELSE first)
  IN Give(base, ReferenceType(base.node, Is(first, {"mut"})))
parseType(s) ==
  CASE Is(s, {"decltype"}) -> DeclTypeAt(s)
    [] Is(s, {"func"})     -> FuncTypeAt(s)
    [] Is(s, {"("})        -> LET types == TypeList(s, <<>>) IN Give(Advance(types), TupleType(types.node))
    [] Is(s, {"*"})        -> PointerTypeAt(s)
    [] Is(s, {"&", "&&"})  -> ReferenceTypeAt(s)
    [] Is(s, Ids)          -> LET id == IdentifierAt(s, TRUE, TRUE)
                              IN IF Ok(id) THEN TypePath(id, id.node, <<id.node.identifier>>) ELSE id
    [] OTHER               -> Fail(s, "syntax")

RECURSIVE WhereClauseAt(_, _)
WhereClauseAt(s, checks) ==
  LET type == Type(Advance(s))
  IN IF Is(type, {"+"}) THEN WhereClauseAt(type, Append(checks, type.node))
     ELSE Give(type, WhereClause(Append(checks, type.node)))

RECURSIVE GenericParams(_, _)
AfterGenericParam(s, params) ==
  IF Is(s, {","}) /\ Peek(s, Ids) THEN GenericParams(s, params) ELSE Give(Consume(s, ">"), params)
GenericDefault(s, param, params) ==
  LET type == Type(Advance(s))
  IN IF Is(s, {"="}) THEN AfterGenericParam(type, Append(params, [param EXCEPT !.type = type.node])) ELSE AfterGenericParam(s, Append(params, param))
GenericWhere(s, param, params) ==
  LET where == WhereClauseAt(s, <<>>)
  IN IF Is(s, {":"}) THEN GenericDefault(where, [param EXCEPT !.whereClause = where.node], params) ELSE GenericDefault(s, param, params)
GenericParams(s, params) ==
  LET first == Advance(s)
  IN IF Is(first, {"eof"}) THEN Fail(first, "eof")
     ELSE IF Is(first, {">"}) THEN Give(Advance(first), params)
     ELSE GenericWhere(Advance(Expect(first, Ids)), Param(Value(first), Null, "generic"), params)

(* Expressions.  An expression begins after the current token and ends on    *)
(* its own last token.                                                       *)
RECURSIVE Arguments(_, _)
Arguments(s, args) ==
  LET e == Expr(s, FALSE)
  IN IF Peek(Lookahead(s), {")"}) THEN Give(Advance(s), args)
     ELSE IF Peek(e, {","}) THEN Arguments(Advance(e), Append(args, e.node))
     ELSE IF Peek(e, {")"}) THEN Arguments(e, Append(args, e.node)) ELSE Fail(e, "syntax")
FunctionCallAt(s, callee) == LET args == Arguments(s, <<>>) IN Give(args, FunctionCall(callee, args.node))

\* The arguments of a macro: types after a colon, or statements.
RECURSIVE MacroCallArgs(_, _)
MacroCallArgs(s, args) ==
  LET arg == IF Peek(s, {":"}) THEN Prev(Type(Move(s, 2))) ELSE Statement(s)
  IN IF Peek(arg, {","}) THEN MacroCallArgs(Advance(arg), Append(args, arg.node))
     ELSE Give(Expect(Advance(arg), {")"}), Append(args, arg.node))
Bang(s) == Peek(s, {"!"}) /\ Tok(s.i + 1).glued
MacroCall(s) ==
  LET open == Expect(Move(s, 2), {"("})
      args == IF Peek(open, {")"}) THEN Give(Advance(open), <<>>) ELSE MacroCallArgs(open, <<>>)
  IN Give(args, PseudoVariable(Value(s), args.node, TRUE, FALSE))

NewAt(s) ==
  LET type == Type(Advance(s))
      call == FunctionCallAt(Expect(type, {"("}), type.node)
  IN Give(call, NewInstance(call.node, type.node))
LambdaAt(s) == LET f == Function(s, "lambda") IN Give(f, LambdaFunction(f.node))
Parenthesised(s, allowAssign) == LET e == Expr(s, allowAssign) IN Give(Expect(Advance(e), {")"}), e.node)

\* The comma in the condition of parseExpr.cc:44 makes it one about the next
\* token only: whatever the current token is, a "!" that touches it is taken
\* for the call of a macro.
Primary(s, allowAssign) ==
  CASE Is(s, {"#"}) /\ Peek(s, Ids) /\ Tok(s.i + 1).glued -> Give(Advance(s), PseudoVariable(Tok(s.i + 1).value, <<>>, FALSE, FALSE))
    [] ~Is(s, {"#"}) /\ Bang(s) -> MacroCall(s)
    [] Is(s, {"("}) -> Parenthesised(s, allowAssign)
    [] Is(s, Constants) -> Give(s, ConstantValue(Tok(s.i).type, Value(s), ""))
    [] Is(s, Ids) /\ Peek(s, {"str"}) /\ Tok(s.i + 1).glued -> Give(Advance(s), ConstantValue("str", Tok(s.i + 1).value, Value(s)))
    [] Is(s, Ids) -> IdentifierAt(s, FALSE, TRUE)
    [] Is(s, {"new"}) -> NewAt(s)
    [] Is(s, {"func"}) -> LambdaAt(s)
    [] OTHER -> Fail(s, "syntax")

IndexAt(s, base) == LET e == Expr(Advance(s), FALSE) IN Give(Expect(Advance(e), {"]"}), BinaryOp("[]", base, e.node))
RangeAt(s, from) == LET e == Expr(Move(s, 2), FALSE) IN Give(e, BinaryOp("..", from, e.node))
MemberAt(s, base) ==
  LET id == IdentifierAt(Move(s, 2), FALSE, TRUE) IN Give(id, Index(base, id.node, Peek(s, {"::"})))
CastAt(s, value) == LET type == Type(Move(s, 2)) IN Give(Prev(type), Cast(value, type.node))
RECURSIVE Postfix(_)
Postfix(s) ==
  CASE Peek(s, {"("}) -> Postfix(FunctionCallAt(Advance(s), s.node))
    [] Peek(s, {"["}) -> Postfix(IndexAt(s, s.node))
    [] Peek(s, {"."}) /\ Tok(s.i + 2).type = "." -> Postfix(RangeAt(s, s.node))
    [] Peek(s, {".", "::"}) /\ ~(Peek(s, {"."}) /\ Tok(s.i + 2).type = ".") -> Postfix(MemberAt(s, s.node))
    [] Peek(s, {"as"}) -> Postfix(CastAt(s, s.node))
    [] OTHER -> s

PrefixOp(s) ==
  IF Is(s, {"!", "~"}) THEN PendingOp(Tok(s.i).type)
  ELSE [PendingOp("u" \o Tok(s.i).type) EXCEPT !.isMutableReference = Is(s, {"&"}) /\ Peek(s, {"mut"})]
RECURSIVE Operands(_, _, _)
AfterOperand(operand, exprs, allowAssign) ==
  LET tree == buildOperatorTree(Append(exprs, operand.node))
  IN IF ~Ok(operand) THEN operand
     ELSE IF Peek(operand, Infixes)
     THEN Operands(Advance(operand), exprs \o <<operand.node, PendingOp(Tok(operand.i + 1).type)>>, allowAssign)
     ELSE IF tree = Null THEN Fail(operand, "assert")
     ELSE FailIf(Give(operand, tree), ~allowAssign /\ is_assignment(tree), "syntax")
Operands(s, exprs, allowAssign) ==
  LET first == Advance(s)
  IN IF Is(first, PrefixTokens) /\ ~Bang(first)
     THEN Operands(IF Is(first, {"&"}) /\ Peek(first, {"mut"}) THEN Advance(first) ELSE first, Append(exprs, PrefixOp(first)), allowAssign)
     ELSE AfterOperand(IF Ok(first) THEN Postfix(Primary(first, allowAssign)) ELSE first, exprs, allowAssign)
parseExpr(s, allowAssign) == Operands(s, <<>>, allowAssign)

(* Statements.  They begin after the current token and end on their last.    *)
RECURSIVE Statements(_, _)
Statements(s, stmts) ==
  LET stmt == Statement(s)
  IN IF ~Ok(s) THEN s
     ELSE IF Peek(s, {"}"}) THEN Give(Advance(s), Block(stmts, FALSE))
     ELSE IF Peek(s, {";"}) THEN Statements(Advance(s), stmts)
     ELSE Statements(stmt, Append(stmts, stmt.node))
\* Mutant: asserts the bracket that its callers do not check.
BlockAsserts(s) == Statements(FailIf(s, ~Is(s, {"{"}), "assert"), <<>>)
\* parseBlock does not look at the bracket it starts on.
parseBlock(s) == Statements(FailIf(s, Is(s, {"eof"}), "assert"), <<>>)
BlockOrStmt(s) ==
  LET stmt == Statement(Lookahead(s))
  IN IF Peek(s, {"{"}) THEN BlockAt(Advance(s)) ELSE Give(stmt, Block(<<stmt.node>>, FALSE))

\* The modifiers before a declaration: public two tokens behind the one after
\* its keyword, or three behind when there is another modifier between.
IsPublic(k) == Privacy(Tok(k).type = "public")

VariableAt(s) ==
  LET first == Verify(Advance(s), {})
      name  == Expect(IF Is(first, {"mut"}) THEN Advance(first) ELSE first, Ids)
      colon == Advance(name)
      type  == IF Is(colon, {":"}) THEN Type(Advance(colon)) ELSE Give(colon, Null)
      value == Expr(type, FALSE)
      end   == IF Is(type, {"="}) THEN (IF Peek(value, {";"}) THEN Advance(value) ELSE value)
               ELSE Give(FailIf(Expect(type, {";"}), type.node = Null, "syntax"), Null)
  IN Give(end, [VariableDecl(Value(name), end.node, type.node, Is(first, {"mut"}), FALSE, FALSE, IsPublic(first.i - 2))
                EXCEPT !.attributes = s.attributes])

ConstantAt(s) ==
  LET first  == Advance(Verify(s, {}))
      before == Tok(first.i - 2).type
      extern == before = "external"
      inClass == FailIf(first, before # "static" /\ first.class # NoClass, "syntax")
      type   == Type(Consume(Advance(Expect(inClass, Ids)), ":"))
      value  == IF extern THEN Give(Trust(type, ";"), Null) ELSE Expr(Expect(type, {"="}), FALSE)
      end    == IF Peek(value, {";"}) THEN Advance(value) ELSE value
      privacy == IsPublic(IF before \in {"external", "static"} THEN first.i - 3 ELSE first.i - 2)
  IN Give(end, [VariableDecl(Value(first), value.node, type.node, FALSE, TRUE, extern, privacy) EXCEPT !.attributes = s.attributes])

\* Ends on the token after the type; who called it goes on from there.
AliasType(s, alias) ==
  LET type == Type(Consume(s, "=")) IN Give(Trust(type, ";"), [alias EXCEPT !.type = type.node, !.generics.list = s.node])
TypeAliasAt(s) ==
  LET first == Expect(Advance(s), Ids)
      after == Advance(first)
      alias == TypeAlias(Value(first), Null, Generics(Is(after, {"<"}), <<>>), IsPublic(first.i - 2))
  IN AliasType(IF Is(after, {"<"}) THEN GenericParams(after, <<>>) ELSE Give(after, <<>>), alias)

ReturnAt(s) ==
  LET e == IF Peek(Lookahead(s), {";"}) THEN Give(s, Null) ELSE Expr(s, FALSE) IN Give(e, Return(e.node))
ThrowAt(s) == LET e == Expr(s, FALSE) IN Give(e, Raise(e.node))

ConditionalAt(s) ==
  LET cond == Expr(FailIf(s, Peek(s, {"constexpr"}), "todo"), FALSE)
      then == BlockAt(Skip(cond, "{"))
      else == IF Peek(Lookahead(then), {"else"}) THEN BlockOrStmt(Advance(then)) ELSE Give(then, Null)
  IN Give(else, Conditional(cond.node, then.node, else.node))

\* m_inside_loop around a part of a statement, and back to what it was.
InLoop(s) == [s EXCEPT !.loop = TRUE]
\* Mutant: the flag stays on after a loop.
StayInLoop(s, outer) == s
LeaveLoop(s, outer) == [s EXCEPT !.loop = outer.loop]

WhileAt(s) ==
  LET cond == Expr(InLoop(s), FALSE)
      body == BlockAt(Skip(cond, "{"))
  IN Give(LeaveLoop(body, s), WhileLoop(cond.node, body.node, Null, FALSE))
DoWhileAt(s) ==
  LET body == BlockAt(Skip(InLoop(s), "{"))
      cond == Expr(Expect(Advance(body), {"while"}), FALSE)
  IN Give(LeaveLoop(Expect(Advance(cond), {";"}), s), WhileLoop(cond.node, body.node, Null, TRUE))

LoopBody(s) == LeaveLoop(BlockAt(InLoop(Expect(s, {"{"}))), s)
ForIn(s) ==
  LET e    == Expr(Move(s, 2), TRUE)
      body == LoopBody(Advance(e))
  IN Give(body, ForLoop(Tok(s.i + 1).value, e.node, body.node))
\* A C-style loop becomes a while loop in a block of its own.
ForC(s) ==
  LET none(at) == Peek(Lookahead(at), {";"})
      init == IF none(s) THEN Give(Advance(s), <<>>)
              ELSE LET stmt == Statement(s) IN Give(Expect(stmt, {";"}), <<stmt.node>>)
      condExpr == Expr(init, FALSE)
      cond == IF none(init) THEN Give(Advance(init), ConstantValue("bool", "true", ""))
              ELSE Give(Expect(Advance(condExpr), {";"}), condExpr.node)
      step == IF Peek(Lookahead(cond), {"{"}) THEN Give(cond, Null) ELSE Expr(cond, TRUE)
      body == LoopBody(Advance(step))
  IN Give(body, Block(init.node \o <<WhileLoop(cond.node, body.node, step.node, FALSE)>>, FALSE))
ForAt(s) == IF Peek(s, Ids) /\ Tok(s.i + 2).value = "in" /\ Tok(s.i + 2).type = "id" THEN ForIn(s) ELSE ForC(s)

LoopControlAt(s) == Give(FailIf(s, ~s.loop, "syntax"), LoopFlow(Tok(s.i).type))

\* A block leaves its own "}" current, so that there is only one catch.
TryCatchAt(s) ==
  LET body == BlockAt(Expect(Advance(s), {"{"}))
      name == Expect(Consume(Advance(Expect(Advance(body), {"catch"})), "("), Ids)
      type == Type(Consume(Advance(name), ":"))
      block == BlockAt(Trust(Consume(type, ")"), "{"))
  IN Give(block, TryCatch(body.node, <<CatchBlock(type.node, Value(name), block.node)>>))

(* switch e { value => ..., } and case e { Name(args) => ..., }              *)
RECURSIVE CaseArgs(_, _)
CaseArgs(s, args) ==   \* the names up to the closing bracket, and whether "..." ends them
  LET dots == Is(s, {"."}) /\ Peek(s, {"."}) /\ Tok(s.i + 2).type = "."
      name == Advance(Expect(s, Ids))
      more == Append(args, Value(s))
  IN IF Is(s, {")"}) THEN Give(s, <<args, FALSE>>)
     ELSE IF dots THEN Give(Expect(Move(s, 3), {")"}), <<args, TRUE>>)
     ELSE IF Is(name, {","}) THEN CaseArgs(Advance(name), more) ELSE Give(Expect(name, {")"}), <<more, FALSE>>)

NamedBody(s, name, args) ==
  LET body == BlockOrStmt(Expect(s, {"=>"}))
      end  == IF Peek(Lookahead(body), {"}"}) THEN Advance(body) ELSE Consume(Advance(body), ",")
  IN Give(end, CaseBlock(Null, name, args[1], FALSE, args[2], body.node))
NamedCase(s) ==
  LET after == Advance(s)
      args  == CaseArgs(Advance(after), <<>>)
  IN IF Is(after, {"("}) THEN NamedBody(Advance(args), Value(s), args.node) ELSE NamedBody(after, Value(s), <<<<>>, FALSE>>)
DefaultCase(s) ==
  LET body == BlockOrStmt(Expect(Advance(s), {"=>"}))
      end  == Advance(body)
  IN Give(IF Is(end, {","}) THEN Advance(end) ELSE Expect(end, {"}"}), CaseBlock(Null, "", <<>>, TRUE, FALSE, body.node))
\* When "}" ends the last case, the code goes on past it (line 107).
ValueCase(s) ==
  LET value == Expr(Prev(s), FALSE)
      body  == BlockOrStmt(Skip(value, "=>"))
  IN Give(Advance(Expect(Advance(body), {",", "}"})), CaseBlock(value.node, "", <<>>, FALSE, FALSE, body.node))

\* In a switch, a case given by a name is read as the default one.
CaseAt(s, cStyle) ==
  CASE Is(s, Ids) /\ ~cStyle -> NamedCase(s)
    [] Is(s, {"default"}) \/ (Is(s, Ids) /\ cStyle) -> DefaultCase(Trust(s, "default"))
    [] OTHER -> IF cStyle THEN ValueCase(s) ELSE Fail(s, "syntax")
RECURSIVE Cases(_, _, _)
AfterCase(s, cStyle, cases) == Cases(s, cStyle, Append(cases, s.node))
Cases(s, cStyle, cases) ==
  IF Is(s, {"}"}) \/ ~Ok(s) THEN Give(s, cases) ELSE AfterCase(CaseAt(s, cStyle), cStyle, cases)
SwitchAt(s) ==
  LET e     == Expr(s, TRUE)
      cases == Cases(Consume(Advance(e), "{"), Is(s, {"switch"}), <<>>)
  IN Give(cases, Switch(e.node, cases.node, Is(s, {"switch"})))

Expression(s) ==
  LET e == Expr(s, TRUE) IN IF e.node.kind = "pseudo" THEN Give(e, [e.node EXCEPT !.asStatement = TRUE]) ELSE e
UnsafeBlock(s) == LET b == BlockAt(Expect(Move(s, 2), {"{"})) IN Give(b, [b.node EXCEPT !.unsafe = TRUE])

parseStatement(s) ==
  LET at == Advance(NoAttributes(s))
  IN CASE Peek(s, {"eof"})               -> Fail(s, "eof")
       [] Peek(s, {"{"})                 -> BlockAt(Advance(s))
       [] Peek(s, {";"})                 -> Fail(s, "assert")
       [] Peek(s, {"unsafe"})            -> UnsafeBlock(NoAttributes(s))
       [] Peek(s, {"const"})             -> ConstantAt(at)
       [] Peek(s, {"break", "continue"}) -> LoopControlAt(at)
       [] Peek(s, {"switch", "case"})    -> SwitchAt(at)
       [] Peek(s, {"throw"})             -> ThrowAt(at)
       [] Peek(s, {"let"})               -> VariableAt(at)
       [] Peek(s, {"for"})               -> ForAt(at)
       [] Peek(s, {"while"})             -> WhileAt(at)
       [] Peek(s, {"do"})                -> DoWhileAt(at)
       [] Peek(s, {"type"})              -> TypeAliasAt(at)
       [] Peek(s, {"if"})                -> ConditionalAt(at)
       [] Peek(s, {"try"})               -> TryCatchAt(at)
       [] Peek(s, {"return"})            -> ReturnAt(at)
       [] OTHER                          -> Expression(NoAttributes(s))

(* Functions                                                                 *)
\* The modifiers before a function, read backwards from two tokens behind the
\* current one: external and static end the search, and after them only a
\* public or private is looked at.
RECURSIVE Modifiers(_)
Modifiers(k) ==
  LET type == Tok(k).type
  IN CASE type \in {"unsafe", "virtual", "mut", "override"} -> {type} \cup Modifiers(k - 1)
       [] type \in {"external", "static"} -> {type} \cup (IF Tok(k - 1).type = "public" THEN {"public"} ELSE {})
       [] type = "public" -> {"public"}
       [] OTHER -> {}

OperatorTypes == Infixes
\* Ends on the token before the parameters; for "()" that is their bracket
\* already, as the case has no next() of its own.
OperatorName(s) ==
  CASE Is(s, {"["}) /\ Peek(s, {"]"}) -> Give(Advance(s), <<"[]", "[]">>)
    [] Is(s, {"("}) /\ Peek(s, {")"}) -> Give(s, <<"()", "()">>)
    [] Is(s, Ids) /\ Value(s) = "bool" -> Give(s, <<"#bool", "#bool">>)
    [] Is(s, OperatorTypes) -> Give(s, <<Tok(s.i).type, Tok(s.i).type>>)
    [] OTHER -> Fail(s, "syntax")
\* <<name, external name>>
FunctionName(s, extern) ==
  LET as == Expect(Consume(Advance(s), "as"), Ids)
  IN CASE Is(s, Ids) -> Give(s, <<Value(s), Value(s)>>)
       [] Is(s, {"str"}) /\ extern -> Give(as, <<Value(as), Value(s)>>)
       [] OTHER -> Fail(s, "syntax")

DefaultValue(s, param) ==
  LET e == Expr(s, FALSE)
  IN IF Is(s, {"="}) THEN Give(Advance(e), [param EXCEPT !.defaultValue = e.node]) ELSE Give(s, param)
ExternParam(s) == LET type == Type(s) IN DefaultValue(type, Param("$extern-arg", type.node, "normal"))
\* self is the first parameter of a method that is not static.
NamedParam(s, mayBeSelf) ==
  LET name == IF Is(s, {"mut"}) THEN Advance(s) ELSE s
      type == Type(Consume(Consume(name, "id"), ":"))
      self == FailIf(type, Value(name) = "self" /\ ~mayBeSelf, "syntax")
  IN DefaultValue(self, [Param(Value(name), type.node, "normal") EXCEPT !.mutableArg = Is(s, {"mut"})])
Dots(s) == Is(s, {"."}) /\ Peek(s, {"."}) /\ Tok(s.i + 2).type = "."

\* <<the parameters, whether "..." was among them>>, from a bracket or comma
\* to the closing bracket.  "..." counts as a parameter for the place of self.
RECURSIVE Params(_, _, _, _, _)
Params(s, params, variadic, extern, takesSelf) ==
  LET first == Advance(s)
      param == IF extern /\ Is(first, TypeStarts) /\ ~Peek(first, {":"}) THEN ExternParam(first)
               ELSE NamedParam(first, takesSelf /\ params = <<>> /\ ~variadic)
      end   == IF Dots(first) THEN Move(first, 3) ELSE param
      more  == IF Dots(first) THEN params ELSE Append(params, param.node)
      var   == variadic \/ Dots(first)
  IN IF Peek(Lookahead(s), {")"}) THEN Give(first, <<params, variadic>>)
     ELSE IF Is(end, {","}) THEN Params(FailIf(end, var, "syntax"), more, var, extern, takesSelf)
     ELSE Give(Expect(end, {")"}), <<more, var>>)

\* A constructor's ": super(...), member(value), ...".
RECURSIVE InitArgs(_, _)
InitArgs(s, inits) ==
  LET value == Expr(Expect(Advance(s), {"("}), FALSE)
      end   == Consume(Advance(value), ")")
      more  == Append(inits, <<Value(s), value.node>>)
  IN IF ~Is(s, Ids) THEN Give(s, inits)
     ELSE IF Is(end, {","}) THEN InitArgs(Expect(Advance(end), Ids), more) ELSE Give(Expect(end, {"{"}), more)
\* <<whether super was called, its arguments, the members' values>>
Initialisers(s) ==
  LET first == Advance(s)
      super == Is(first, {"super"})
      args  == Arguments(Expect(Advance(FailIf(first, first.class.parent = Null, "syntax")), {"("}), <<>>)
      after == Consume(args, ")")
      inits == InitArgs(IF ~super THEN first ELSE IF Is(after, {","}) THEN Expect(Advance(after), Ids) ELSE after, <<>>)
  IN IF Is(s, {":"}) THEN Give(inits, <<super, IF super THEN args.node ELSE <<>>, inits.node>>)
     ELSE Give(s, <<FALSE, <<>>, <<>>>>)

\* The text of an LLVM function up to its bracket; {= type} names a type.
RECURSIVE LLVMCode(_, _, _)
LLVMCode(s, depth, types) ==
  LET first == Advance(s)
      type  == Type(Move(first, 2))
  IN IF ~Ok(s) \/ depth = 0 THEN Give(s, types)
     ELSE CASE Is(first, {"{"}) /\ Peek(first, {"="}) -> LLVMCode(Expect(type, {"}"}), depth, Append(types, type.node))
            [] Is(first, {"{"}) -> LLVMCode(first, depth + 1, types)
            [] Is(first, {"}"}) -> LLVMCode(first, depth - 1, types)
            [] Is(first, {"eof"}) -> Fail(first, "syntax")
            [] OTHER -> LLVMCode(first, depth, types)

\* "= 0": the token after it ends the declaration unseen.
NotImplemented(s, virtual) ==
  LET zero == Expect(Advance(s), {"num"})
  IN Give(Trust(Advance(FailIf(zero, Value(zero) # "0" \/ ~virtual, "syntax")), ";"), Block(<<>>, FALSE))
(* The parts of a function, in their order.  Each one takes the function     *)
(* from the part before it in "node" and adds to it.                         *)
FunctionGenerics(s, fn, kind) ==
  LET list == GenericParams(FailIf(s, kind = "lambda", "syntax"), <<>>)
  IN IF Is(s, {"<"}) THEN Give(list, [fn EXCEPT !.generics = Generics(TRUE, list.node)]) ELSE Give(s, fn)
\* An operator with no operand beside self is the unary one.
UnaryName(fn, kind, hasSelf) ==
  IF kind = "operator" /\ Len(fn.args) = (IF hasSelf THEN 1 ELSE 0) /\ fn.name \in {"+", "-"} THEN "u" \o fn.name ELSE fn.name
WithParams(s, fn, kind, takesSelf) ==
  LET known   == [fn EXCEPT !.args = s.node[1], !.variadic = s.node[2]]
      hasSelf == takesSelf /\ known.args # <<>> /\ known.args[1].name = "self"
      self    == IF hasSelf THEN {Attribute("first_arg_is_self", {})} ELSE {}
  IN Give(Consume(s, ")"), [known EXCEPT !.name = UnaryName(known, kind, hasSelf), !.attributes = @ \cup self])
FunctionParams(s, kind) ==
  LET takesSelf == ~s.node.static /\ kind # "constructor" /\ s.class # NoClass
      extern    == s.node.body.kind = "extern"
  IN IF Ok(s) THEN WithParams(Params(Expect(s, {"("}), <<>>, FALSE, extern, takesSelf), s.node, kind, takesSelf) ELSE s
ReturnType(s, fn, kind) ==
  LET type == Type(FailIf(s, kind = "constructor", "syntax"))
  IN IF Is(s, TypeStarts) THEN Give(type, [fn EXCEPT !.retType = type.node]) ELSE Give(s, fn)
WithInits(s, fn) ==
  Give(FailIf(s, s.class.parent # Null /\ ~s.node[1], "syntax"), [fn EXCEPT !.body = ConstructorDef(Null, s.node[1], s.node[2], s.node[3])])
FunctionBody(s, fn, llvm) ==
  LET declared == FailIf(s, fn.body.kind = "constructor" \/ llvm, "syntax")
      zero  == NotImplemented(s, fn.virtual)
      code  == LLVMCode(Expect(s, {"{"}), 1, <<>>)
      block == BlockAt(Expect(s, {"{"}))
      body(b) == IF fn.body.kind = "constructor" THEN [fn.body EXCEPT !.block = b] ELSE IF llvm THEN LLVMFunction(<<>>) ELSE BodiedFunction(b)
  IN IF ~Ok(s) THEN s
     ELSE IF fn.body.kind = "extern" THEN Give(FailIf(Expect(s, {";"}), llvm, "syntax"), fn)
     ELSE IF Is(s, {"="}) THEN Give(zero, [fn EXCEPT !.body = body(zero.node), !.notImplemented = TRUE])
     ELSE IF Is(s, {";"}) THEN Give(declared, fn)
     ELSE IF llvm THEN Give(code, [fn EXCEPT !.body = LLVMFunction(code.node)])
     ELSE Give(block, [fn EXCEPT !.body = body(block.node)])

\* From the token after the name; s.node is the function so far.
AfterName(s, kind, llvm) ==
  LET generics(t) == FunctionGenerics(t, t.node, kind)
      type(t)     == ReturnType(t, t.node, kind)
      inits(t)    == IF kind = "constructor" THEN WithInits(Initialisers(t), t.node) ELSE t
      body(t)     == FunctionBody(t, t.node, llvm)
  IN body(inits(type(FunctionParams(generics(Advance(s)), kind))))
WithName(s, kind, mods, attributes) ==
  LET override == IF "override" \in mods THEN {Attribute("override", {})} ELSE {}
  IN Give(s, [FunctionDef(s.node[1], <<>>, Void, IF "external" \in mods THEN ExternFnDef(s.node[2]) ELSE Undefined) EXCEPT
       !.privacy = Privacy("public" \in mods), !.attributes = attributes \cup override, !.unsafe = "unsafe" \in mods,
       !.virtual = "virtual" \in mods, !.static = "static" \in mods, !.mutable = "mut" \in mods \/ kind = "constructor"])
parseFunction(s, kind) ==
  LET first == IF kind \in {"constructor", "lambda"} THEN s ELSE Advance(s)
      mods  == Modifiers(first.i - 2)
      start == FailIf(IF kind = "operator" THEN Consume(first, "func") ELSE first, {"override", "static"} \subseteq mods, "syntax")
      known == Verify(start, FunctionAttributes)
      llvm  == \E a \in s.attributes : a.name = "llvm_function"
      named == CASE kind = "operator" -> OperatorName(known)
                 [] kind = "lambda"   -> Give(known, <<"", "">>)
                 [] OTHER             -> FunctionName(known, "external" \in mods)
  IN AfterName(WithName(named, kind, mods, s.attributes), kind, llvm)

(* Types                                                                     *)
\* The generic parameters between a type's name and its body, if any.
NameGenerics(s) ==
  LET list == GenericParams(Advance(s), <<>>)
  IN IF Peek(s, {"<"}) THEN Give(list, Generics(TRUE, list.node)) ELSE Give(Advance(s), NotGeneric)

RECURSIVE TypeCommas(_, _)
TypeCommas(s, types) ==
  LET type == Type(s)
      more == Append(types, type.node)
  IN IF Is(type, {","}) THEN TypeCommas(Advance(type), more) ELSE Give(type, more)

\* A declared type's head: its name, its generic parameters and the bracket.
\* Ends on the first token of the body.
TypeHead(s) ==
  LET first == Advance(s)
      name  == Expect(Verify(first, {}), Ids)
      head(generics) == Give(Advance(Expect(generics, {"{"})), [name |-> Value(name), generics |-> generics.node, privacy |-> IsPublic(first.i - 2)])
  IN head(NameGenerics(name))

RECURSIVE StructMembers(_, _)
StructMember(end, var, struct) ==
  IF Ok(end) THEN StructMembers(end, [struct EXCEPT !.variables = Append(@, [var EXCEPT !.privacy = "public"])]) ELSE end
StructMembers(s, struct) ==
  LET add(member) == StructMember(FailIf(Consume(member, ";"), member.node # Null /\ member.node.value # Null, "syntax"), member.node, struct)
  IN IF Is(s, {"}"}) \/ ~Ok(s) THEN Give(s, struct) ELSE add(VariableAt(Expect(s, {"let"})))
\* A structure is a generic container even when it has no parameters.
StructureAt(s) ==
  LET made(h) == [DefinedTypeDef(h.name, Null, "struct", Generics(TRUE, h.generics.list), <<>>, h.privacy) EXCEPT !.attributes = s.attributes]
      members(head) == StructMembers(head, made(head.node))
  IN members(TypeHead(s))

RECURSIVE EnumFields(_, _)
EnumField(end, name, enum) ==   \* end is on the token after the field, its types in node
  EnumFields(IF Is(end, {"}"}) THEN end ELSE Consume(end, ","), [enum EXCEPT !.fields = Append(@, <<name, end.node>>)])
EnumFields(s, enum) ==
  LET name == Expect(s, Ids)
  IN IF Is(s, {"}"}) \/ ~Ok(s) THEN Give(s, enum)
     ELSE EnumField(Advance(IF Peek(name, {"("}) THEN Expect(TypeCommas(Move(name, 2), <<>>), {")"}) ELSE Give(name, <<>>)), Value(name), enum)
EnumAt(s) ==
  LET made(h) == [EnumTypeDef(h.name, h.generics, h.privacy) EXCEPT !.attributes = s.attributes]
      fields(head) == EnumFields(head, made(head.node))
  IN fields(TypeHead(s))

\* The name of a class; "* const" and "* mut" are the pointers' own classes.
ClassName(s) ==
  LET access == Expect(Advance(s), {"mut", "const"})
  IN IF Is(s, {"*"}) THEN Give(access, IF Is(access, {"mut"}) THEN "$mut-pointer" ELSE "$const-pointer")
     ELSE Give(Expect(s, Ids), Value(s))
BuiltinNames == [IntegerImpl |-> "$integer-impl", FunctionImpl |-> "$function-impl"] @@ ("$mut-pointer" :> "$mut-pointer")
                @@ ("$const-pointer" :> "$const-pointer")

\* What may stand after a modifier in a class; anything may after static, as
\* IS_CONSTRUCTOR negates only its first half.
AfterModifier == [
  override |-> {"func", "operator", "unsafe", "mut", "virtual"}, unsafe |-> {"func", "operator", "static", "mut"},
  mut |-> {"func", "operator", "unsafe", "override"}, virtual |-> {"func", "mut"}]
ClassModifier(s, extends) ==
  LET type == Tok(s.i).type
      wrong == CASE type = "static" -> Peek(s, {"mut"})
                 [] type = "virtual" -> extends \/ ~Peek(s, AfterModifier.virtual)
                 [] OTHER -> ~Peek(s, AfterModifier[type])
  IN FailIf(s, wrong, "syntax")

\* The member that begins at the current token, and which list it goes to.
ClassMember(s, interface, extends) ==
  LET plain    == NoAttributes(s)
      variable == VariableAt(plain)
      constant == ConstantAt(FailIf(plain, interface \/ extends, "syntax"))
      owned    == FailIf(s, interface \/ extends, "syntax")
      alias    == TypeAliasAt(NoAttributes(owned))
      init     == Function(NoAttributes(owned), "constructor")
  IN CASE Is(s, {"const"})  -> Expect(FailIf(constant, constant.node # Null /\ constant.node.value = Null, "syntax"), {";"})
       [] Is(s, {"let"})    -> FailIf(Expect(variable, {";"}), extends, "syntax")
       [] Is(s, {"enum"})   -> EnumAt(owned)
       [] Is(s, {"type"})   -> Expect(alias, {";"})
       [] Is(s, {"class", "interface"}) -> Class(owned)
       [] Is(s, {"struct"}) -> StructureAt(owned)
       [] Is(s, {"func"})   -> Function(s, "plain")
       [] Is(s, {"operator"}) -> Function(s, "operator")
       [] Is(s, Ids) /\ Value(s) = s.class.name -> Give(init, [init.node EXCEPT !.name = "$constructor", !.static = TRUE])
       [] OTHER             -> Fail(plain, "syntax")
AddMember(cls, member, scope) ==
  LET m == [member EXCEPT !.privacy = scope]
  IN CASE m.kind = "function" -> [cls EXCEPT !.functions = Append(@, m), !.hasConstructor = @ \/ m.name = "$constructor"]
       [] m.kind = "variable" -> [cls EXCEPT !.variables = Append(@, m)]
       [] OTHER               -> [cls EXCEPT !.typeAliases = Append(@, m)]

RECURSIVE ClassMembers(_, _, _, _)
AfterMember(member, cls, scope, extends) ==
  IF Ok(member) THEN ClassMembers(member, AddMember(cls, member.node, scope), scope, extends) ELSE member
ClassMembers(s, cls, scope, extends) ==
  LET at == Advance(s)
  IN IF ~Ok(at) THEN at
     ELSE CASE Is(at, {"}"}) -> Give(NoAttributes(at), cls)
            [] Is(at, {"private", "public"}) -> ClassMembers(Expect(Advance(NoAttributes(at)), {":"}), cls, Tok(at.i).type, extends)
            [] Is(at, {"@"}) -> ClassMembers(Attributes(at), cls, scope, extends)
            [] Is(at, {"static", "override", "unsafe", "mut", "virtual"}) -> ClassMembers(ClassModifier(at, extends), cls, scope, extends)
            [] OTHER -> AfterMember(ClassMember(at, cls.type = "interface", extends), cls, scope, extends)

\* The parts of a class's head, as those of a function.
ClassGenerics(s, cls) == LET g == NameGenerics(s) IN Give(g, [cls EXCEPT !.generics = g.node])
ClassParent(s, cls) ==
  LET type == Type(Advance(s)) IN IF Is(s, {"extends"}) THEN Give(type, [cls EXCEPT !.extends = type.node]) ELSE s
ClassImpls(s, cls) ==
  LET types == TypeCommas(Advance(s), <<>>) IN IF Is(s, {"implements"}) THEN Give(types, [cls EXCEPT !.impls = types.node]) ELSE s
\* m_current_class is the class, by the name in the source, inside its body.
LeaveClass(s, outer) == IF Ok(s) THEN [s EXCEPT !.class = outer] ELSE s
ClassBody(s, cls, outer) ==
  LET builtin == \E a \in cls.attributes : a.name = "__internal__"
      start   == FailIf(Expect(s, {"{"}), builtin /\ cls.name \notin DOMAIN BuiltinNames, "syntax")
      named   == [cls EXCEPT !.name = IF builtin THEN BuiltinNames[@] ELSE @]
      extends == \E a \in cls.attributes : a.name = "class_extends"
      inside(t) == [t EXCEPT !.class = [name |-> cls.name, parent |-> cls.extends]]
  IN IF Ok(s) THEN LeaveClass(ClassMembers(inside(start), named, "private", extends), outer) ELSE s
parseClass(s) ==
  LET first   == Advance(s)
      known   == Verify(first, {"__internal__", "no_constructor"})
      extends == Is(known, {"extends"})
      name    == ClassName(IF extends THEN Advance(known) ELSE known)
      extra   == IF extends THEN {Attribute("class_extends", {})} ELSE {}
      named   == Give(name, [DefinedTypeDef(name.node, Null, IF Is(s, {"interface"}) THEN "interface" ELSE "class", NotGeneric, <<>>, IsPublic(first.i - 2))
                             EXCEPT !.attributes = s.attributes \cup extra])
      generics(t) == ClassGenerics(t, t.node)
      parent(t)   == ClassParent(t, t.node)
      impls(t)    == ClassImpls(t, t.node)
      body(t)     == ClassBody(t, t.node, s.class)
  IN body(impls(parent(generics(named))))

(* Macros, imports, namespaces and the file                                  *)
\* Ends on the type's last token; a bare "const" is read one token too far.
MacroArgType(s) ==
  LET open  == Advance(s)
      value == Expect(Advance(open), Ids)
      close == Expect(Advance(value), {"]"})
  IN CASE Value(s) \in {"expr", "type", "stmt"} -> Give(s, Value(s))
       [] Is(s, {"const"}) /\ Is(open, {"["}) -> Give(FailIf(close, Value(value) \notin {"str", "num", "chr"}, "syntax"), "const " \o Value(value))
       [] Is(s, {"const"}) -> Give(open, "const")
       [] OTHER -> Fail(s, "syntax")
RECURSIVE MacroParams(_, _)
AfterMacroParam(s, args) == IF Is(s, {","}) THEN MacroParams(Advance(s), args) ELSE Give(s, args)
MacroDefault(s, name, args) ==
  LET default == Statement(Advance(s))
  IN IF Peek(s, {"="}) THEN AfterMacroParam(Advance(default), Append(args, MacroArg(name, s.node, default.node)))
     ELSE AfterMacroParam(Advance(s), Append(args, MacroArg(name, s.node, Null)))
MacroParams(s, args) ==
  IF Is(s, Ids) THEN MacroDefault(MacroArgType(Consume(Advance(s), ":")), Value(s), args) ELSE Give(s, args)
MacroBody(s, macro) ==
  LET expr  == Expr(s, FALSE)
      block == BlockAt(Expect(s, {"{"}))
  IN IF Is(s, {"="}) THEN Give(expr, [macro EXCEPT !.body = Block(<<expr.node>>, FALSE), !.isStatement = FALSE])
     ELSE Give(block, [macro EXCEPT !.body = block.node])
MacroAt(s) ==
  LET name == Expect(Verify(Advance(s), {"export"}), Ids)
      body(args) == MacroBody(Consume(args, ")"), [Macro(Value(name), args.node, Null, TRUE) EXCEPT !.attributes = s.attributes])
  IN body(MacroParams(Consume(Advance(name), "("), <<>>))

RECURSIVE ImportVars(_, _)
ImportVar(s, name, names) ==   \* s is on the name it is known by
  LET more == Append(names, <<name, Value(s)>>)
      end  == Advance(s)
  IN IF Is(end, {","}) THEN ImportVars(Advance(end), more) ELSE Give(end, more)
ImportVars(s, names) ==
  LET name == Expect(s, Ids)
  IN IF Is(s, {"}"}) THEN Give(s, names)
     ELSE ImportVar(IF Peek(name, {"as"}) THEN Expect(Move(name, 2), Ids) ELSE name, Value(name), names)
\* Adds to the statement in node, from the token after a part of the path.  Of
\* ".." only the first dot is read.
RECURSIVE ImportPath(_, _)
ImportPath(s, stmt) ==
  LET part == Advance(s)
      list == ImportVars(Advance(part), <<>>)
  IN CASE ~Is(s, {"::"}) -> Give(s, stmt)
       [] Is(part, Ids)  -> ImportPath(Advance(part), [stmt EXCEPT !.path = Append(@, Value(part))])
       [] Is(part, {"."}) /\ Peek(part, {"."}) -> ImportPath(Advance(part), [stmt EXCEPT !.path = Append(@, "..")])
       [] Is(part, {"{"}) -> Give(Consume(list, "}"), [stmt EXCEPT !.variables = list.node])
       [] OTHER -> Give(s, stmt)
ImportSymbol(s, stmt) ==
  LET symbol == Expect(Advance(s), Ids)
  IN IF Is(s, {"as"}) THEN Give(symbol, [stmt EXCEPT !.exportSymbol = Value(symbol)]) ELSE Give(Prev(s), stmt)
\* use_macro and use_macros are one attribute; of the two, one stays.
MacroImports == {"use_macro", "use_macros"}
ImportAttributes(attributes) ==
  LET macros == {attribute \in attributes : attribute.name \in MacroImports}
  IN (attributes \ macros) \cup (IF macros = {} THEN {} ELSE {CHOOSE attribute \in macros : TRUE})
ImportAt(s) ==
  LET package == Expect(Verify(Advance(s), MacroImports), Ids)
      after   == Advance(package)
      first   == Expect(Advance(after), Ids)
      stmt    == [ImportStmt(<<>>, Value(package), <<>>, "") EXCEPT !.attributes = ImportAttributes(s.attributes)]
      symbol(path) == ImportSymbol(path, path.node)
  IN symbol(IF Is(after, {"::"}) THEN ImportPath(Advance(first), [stmt EXCEPT !.path = <<Value(first)>>]) ELSE Give(after, stmt))

NamespaceAt(s) ==
  LET name == Expect(Advance(Verify(s, {})), Ids)
      body == GlobalIn(Consume(Advance(name), "{"), "}")
  IN Give(Expect(body, {"}"}), [Namespace(Value(name), body.node) EXCEPT !.attributes = s.attributes])

\* What may stand after a modifier of a declaration.
AfterGlobalModifier(type) ==
  CASE type \in {"public", "private"} -> {"func", "let", "type", "struct", "static", "unsafe", "class", "external", "const", "interface", "enum"}
    [] type = "external" -> {"func", "const", "unsafe"}
    [] type = "static"   -> {"func", "unsafe"}
    [] type = "unsafe"   -> {"func"}
GlobalModifiers == {"public", "private", "external", "static", "unsafe"}
Declarations == {"macro", "namespace", "enum", "struct", "let", "const", "func", "class", "interface", "import", "type"}
DeclarationAt(s) ==
  CASE Is(s, {"macro"})     -> MacroAt(s)
    [] Is(s, {"namespace"}) -> NamespaceAt(s)
    [] Is(s, {"enum"})      -> EnumAt(s)
    [] Is(s, {"struct"})    -> StructureAt(s)
    [] Is(s, {"let"})       -> VariableAt(s)
    [] Is(s, {"const"})     -> ConstantAt(s)
    [] Is(s, {"func"})      -> Function(s, "plain")
    [] Is(s, {"class", "interface"}) -> Class(s)
    [] Is(s, {"import"})    -> ImportAt(s)
    [] Is(s, {"type"})      -> TypeAliasAt(NoAttributes(s))

\* The step of the loop from an item to the next.
Onward(s) == IF Ok(s) /\ ~Is(s, {"eof"}) THEN Advance(s) ELSE s
Modifier(s) == FailIf(s, ~Peek(s, AfterGlobalModifier(Tok(s.i).type)), "syntax")

\* The loop inside a namespace; the one over the file is the machine below.
RECURSIVE Global(_, _, _)
Global(s, terminator, global) ==
  LET item == Declaration(s)
  IN CASE ~Ok(s) -> s
       [] Is(s, {terminator}) -> Give(NoAttributes(s), global)
       [] Is(s, {";"}) -> Global(Onward(s), terminator, global)
       [] Is(s, GlobalModifiers) -> Global(Onward(Modifier(s)), terminator, global)
       [] Is(s, {"@"}) -> Global(Onward(Attributes(s)), terminator, global)
       [] Is(s, Declarations) -> Global(Onward(item), terminator, Append(global, item.node))
       [] OTHER -> Fail(s, "syntax")

Parse(what, s, how) ==
  CASE what = "type"      -> parseType(s)
    [] what = "expr"      -> parseExpr(s, how)
    [] what = "statement" -> parseStatement(s)
    [] what = "block"     -> parseBlock(s)
    [] what = "function"  -> parseFunction(s, how)
    [] what = "class"     -> parseClass(s)
    [] what = "global"    -> Global(s, how, <<>>)
    [] what = "declaration" -> DeclarationAt(s)

Init == tokens \in Inputs /\ parser = Start /\ nodes = <<>> /\ mode = "parsing"

Parsing(types) == mode = "parsing" /\ Is(parser, types)
\* One round of the loop: next is what it leaves of the parser.
Round(next, found) ==
  /\ parser' = [next EXCEPT !.node = Null]
  /\ nodes' = IF Ok(next) THEN nodes \o found ELSE nodes
  /\ mode' = IF Ok(next) THEN "parsing" ELSE "failed"
  /\ UNCHANGED tokens
Separator == Parsing({";"}) /\ Round(Onward(parser), <<>>)
ModifierItem == Parsing(GlobalModifiers) /\ Round(Onward(Modifier(parser)), <<>>)
AttributesItem == Parsing({"@"}) /\ Round(Onward(Attributes(parser)), <<>>)
DeclarationItem == Parsing(Declarations) /\ \E s \in {Declaration(parser)} : Round(Onward(s), <<s.node>>)
Unexpected ==
  /\ mode = "parsing" /\ ~Is(parser, {";", "@", "eof"} \cup GlobalModifiers \cup Declarations)
  /\ Round(Fail(parser, "syntax"), <<>>)
Finish ==
  /\ Parsing({"eof"})
  /\ parser' = NoAttributes(parser)
  /\ mode' = IF Ok(parser') THEN "done" ELSE "failed"
  /\ UNCHANGED <<tokens, nodes>>
Ended == mode \in {"done", "failed"} /\ UNCHANGED vars

Next == Separator \/ ModifierItem \/ AttributesItem \/ DeclarationItem \/ Unexpected \/ Finish \/ Ended
Spec == Init /\ [][Next]_vars
=============================================================================
