------------------------------ MODULE MCParser ------------------------------
(* Programs with every operator pair, every statement, every declaration and *)
(* their variants, whole and with one token cut, lost or changed.            *)
EXTENDS Grammar

a == Identifier("a")
b == Identifier("b")
one == ConstantValue("num", "1", "")
text == ConstantValue("str", "\"s\"", "")
Named(id) == TypeRef(Identifier(id), <<id>>, <<>>)
T == Named("T")
ListT == TypeRef(GenericIdentifier("L", <<T>>), <<"L">>, <<T>>)
PathT == TypeRef(Index(Identifier("m"), GenericIdentifier("L", <<T>>), TRUE), <<"m", "L">>, <<T>>)
Call(f, args) == FunctionCall(f, args)
Do(stmts) == Block(stmts, FALSE)
Act == Call(a, <<>>)
Body == Do(<<Act>>)
Arg(name, type) == Param(name, type, "normal")
Fn == FunctionDef("f", <<>>, Void, BodiedFunction(Body))
Lambda == LambdaFunction([Fn EXCEPT !.name = "", !.args = <<Arg("x", T)>>, !.retType = T, !.body = BodiedFunction(Do(<<Return(a)>>))])
Let(value, type) == VariableDecl("x", value, type, FALSE, FALSE, FALSE, "private")
Main(stmt) == <<[Fn EXCEPT !.body = BodiedFunction(Do(<<stmt>>))]>>

Levels == {"*", "+", "<<", "<", "==", "&", "^", "|", "&&", "||"}
Pairs == {BinaryOp(op, BinaryOp(op2, a, one), b) : op \in Levels \cup {"-"}, op2 \in Levels}
         \cup {BinaryOp(op, a, BinaryOp(op2, one, b)) : op \in Levels \cup {"-"}, op2 \in Levels}
         \cup {BinaryOp(op, BinaryOp(op2, a, Null), b) : op \in Levels, op2 \in {"u-", "!", "u*"}}
         \cup {BinaryOp(op, a, BinaryOp(op2, b, Null)) : op \in Levels, op2 \in {"u&", "~", "u+"}}
         \cup {BinaryOp(op, BinaryOp(op2, a, b), BinaryOp(op2, b, a)) : op \in Levels, op2 \in Levels}
         \cup {BinaryOp(op, BinaryOp("=", a, one), b) : op \in Assignments}
Exprs == {BinaryOp("u-", Call(Index(a, b, FALSE), <<one, a>>), Null), BinaryOp("u-", BinaryOp("!", BinaryOp("u&", a, Null), Null), Null),
  Call(BinaryOp("[]", Index(a, Identifier("b"), TRUE), BinaryOp("+", one, one)), <<Lambda>>),
  BinaryOp("+", Cast(a, T), one), Cast(BinaryOp("+", a, one), PointerType(T, TRUE)), BinaryOp("..", one, BinaryOp("+", a, one)),
  Call(NewInstance(Call(ListT, <<one>>), ListT), <<>>), NewInstance(Call(PathT, <<>>), PathT), Call(GenericIdentifier("g", <<T, ListT>>), <<text>>),
  ConstantValue("str", "\"s\"", "c"), PseudoVariable("LINE", <<>>, FALSE, TRUE), PseudoVariable("m", <<a, T, BinaryOp("=", a, one)>>, TRUE, TRUE),
  PseudoVariable("m", <<>>, TRUE, TRUE), ConstantValue("float", "1.5", ""), ConstantValue("char", "'c'", ""), ConstantValue("bool", "true", ""),
  BinaryOp("=", Index(a, b, FALSE), Lambda), Call(Index(a, GenericIdentifier("b", <<T>>), TRUE), <<>>)}
Types == {ListT, PathT, DeclType(a), FuncType(<<T, ListT>>, T), FuncType(<<>>, T), TupleType(<<T, T>>), ReferenceType(T, TRUE),
  ReferenceType(T, FALSE), PointerType(T, TRUE), PointerType(ReferenceType(T, FALSE), FALSE)}
SomeStatements == {Let(one, Null), [Let(Null, T) EXCEPT !.mutable = TRUE], Let(a, T), TypeAlias("A", T, NotGeneric, "private"),
  TypeAlias("A", ListT, Generics(TRUE, <<Param("T", Null, "generic")>>), "private"),
  Conditional(a, Body, Null), Conditional(BinaryOp("<", a, one), Body, Do(<<Return(one)>>)),
  Conditional(a, Body, Do(<<Conditional(b, Body, Do(<<Act, Act>>))>>)), Conditional(a, Block(<<Block(<<Act>>, TRUE)>>, FALSE), Null),
  WhileLoop(a, Do(<<Conditional(b, Do(<<LoopFlow("break")>>), Null), LoopFlow("continue")>>), Null, FALSE), WhileLoop(a, Body, Null, TRUE),
  ForLoop("i", Call(a, <<>>), Do(<<LoopFlow("continue")>>)), ForLoop("i", BinaryOp("..", one, a), Body),
  Do(<<Let(one, Null), WhileLoop(BinaryOp("<", a, one), Do(<<LoopFlow("break")>>), BinaryOp("+=", a, one), FALSE)>>),
  Do(<<WhileLoop(a, Body, Act, FALSE)>>), TryCatch(Body, <<CatchBlock(ReferenceType(T, FALSE), "e", Do(<<Raise(a)>>))>>),
  Switch(a, <<CaseBlock(one, "", <<>>, FALSE, FALSE, Do(<<Return(one)>>)), CaseBlock(BinaryOp("+", one, one), "", <<>>, FALSE, FALSE, Do(<<Act, Act>>)),
    CaseBlock(Null, "", <<>>, TRUE, FALSE, Body)>>, TRUE),
  Switch(a, <<CaseBlock(Null, "A", <<"x", "y">>, FALSE, FALSE, Do(<<Return(a)>>)), CaseBlock(Null, "B", <<"x">>, FALSE, TRUE, Body),
    CaseBlock(Null, "C", <<>>, FALSE, FALSE, Do(<<Act, Act>>)), CaseBlock(Null, "", <<>>, TRUE, FALSE, Do(<<>>))>>, FALSE),
  WhileLoop(Call(Lambda, <<one>>), Do(<<Let(Lambda, Null)>>), Null, FALSE), Return(Null), Raise(NewInstance(Call(T, <<text>>), T)),
  VariableDecl("k", one, T, FALSE, TRUE, FALSE, "private"), Block(<<Act>>, TRUE), WhileLoop(a, Do(<<Call(LambdaFunction([Lambda.func EXCEPT !.body.block = Do(<<LoopFlow("break")>>)]), <<>>)>>), Null, FALSE)}

Self == Arg("self", ReferenceType(T, FALSE))
SelfAttr == Attribute("first_arg_is_self", {})
Method == [Fn EXCEPT !.args = <<Self, Arg("x", T)>>, !.attributes = {SelfAttr}]
GenericP == Param("G", Null, "generic")
SomeFunctions == {[Fn EXCEPT !.args = <<[Arg("x", T) EXCEPT !.mutableArg = TRUE], [Arg("y", ListT) EXCEPT !.defaultValue = BinaryOp("+", one, one)]>>, !.retType = ReferenceType(T, TRUE)],
  [Fn EXCEPT !.generics = Generics(TRUE, <<[GenericP EXCEPT !.whereClause = WhereClause(<<T, ListT>>)], [GenericP EXCEPT !.name = "H", !.type = T]>>)],
  [Fn EXCEPT !.unsafe = TRUE, !.privacy = "public"], [Fn EXCEPT !.unsafe = TRUE, !.static = TRUE, !.privacy = "public", !.unsafe = FALSE],
  [Fn EXCEPT !.attributes = {Attribute("inline", {}), Attribute("cfg", {<<"os", "\"s\"">>, <<"x", "">>})}],
  [Fn EXCEPT !.args = <<Arg("x", T)>>, !.variadic = TRUE], [Fn EXCEPT !.body = Undefined, !.retType = PointerType(T, FALSE)],
  [Fn EXCEPT !.body = ExternFnDef("f"), !.args = <<Param("$extern-arg", PointerType(T, FALSE), "normal"), Arg("x", T)>>, !.variadic = TRUE, !.privacy = "public", !.retType = T],
  [Fn EXCEPT !.body = ExternFnDef("\"s\""), !.name = "g"], [Fn EXCEPT !.body = LLVMFunction(<<T, ListT>>), !.attributes = {Attribute("llvm_function", {})}]}
Constructor == [Fn EXCEPT !.name = "$constructor", !.args = <<Arg("x", T)>>, !.static = TRUE, !.mutable = TRUE, !.body = ConstructorDef(Body, FALSE, <<>>, <<<<"m", a>>, <<"n", one>>>>)]
Derived == [Constructor EXCEPT !.body = ConstructorDef(Body, TRUE, <<a, one>>, <<<<"m", a>>>>), !.privacy = "public"]
Cls(name) == DefinedTypeDef(name, Null, "class", NotGeneric, <<>>, "private")
Op(name, args) == [Fn EXCEPT !.name = name, !.args = args, !.attributes = {SelfAttr}, !.privacy = "public"]
Classes == {[Cls("C") EXCEPT !.functions = <<Constructor, [Method EXCEPT !.privacy = "public"]>>, !.variables = <<[Let(one, T) EXCEPT !.mutable = TRUE]>>, !.hasConstructor = TRUE],
  [Cls("C") EXCEPT !.extends = ListT, !.impls = <<T, PathT>>, !.functions = <<Derived>>, !.hasConstructor = TRUE, !.privacy = "public"],
  [Cls("C") EXCEPT !.generics = Generics(TRUE, <<GenericP>>), !.functions = <<Op("+", <<Self, Arg("x", T)>>), Op("u-", <<Self>>), Op("[]", <<Self, Arg("x", T)>>), Op("#bool", <<Self>>)>>],
  [Cls("C") EXCEPT !.functions = <<[Method EXCEPT !.virtual = TRUE, !.notImplemented = TRUE, !.body = BodiedFunction(Do(<<>>))], [Method EXCEPT !.attributes = {SelfAttr, Attribute("override", {})}, !.mutable = TRUE],
     [Fn EXCEPT !.static = TRUE], [Method EXCEPT !.mutable = TRUE, !.unsafe = TRUE, !.privacy = "public"]>>],
  [Cls("C") EXCEPT !.variables = <<VariableDecl("k", one, T, FALSE, TRUE, FALSE, "public")>>, !.typeAliases = <<TypeAlias("A", T, NotGeneric, "public"), Cls("D"), EnumTypeDef("E", NotGeneric, "private")>>],
  [Cls("$const-pointer") EXCEPT !.attributes = {Attribute("__internal__", {}), Attribute("class_extends", {})}, !.functions = <<Method>>],
  [Cls("$integer-impl") EXCEPT !.attributes = {Attribute("__internal__", {}), Attribute("no_constructor", {})}],
  [Cls("I") EXCEPT !.type = "interface", !.functions = <<[Method EXCEPT !.body = Undefined, !.privacy = "public"]>>]}
Struct == DefinedTypeDef("S", Null, "struct", Generics(TRUE, <<>>), <<>>, "public")
SomeMacro == Macro("m", <<MacroArg("x", "expr", Null), MacroArg("y", "const str", text), MacroArg("t", "type", Null)>>, Body, TRUE)
Items == SomeFunctions \cup Classes \cup {[Struct EXCEPT !.variables = <<[Let(Null, T) EXCEPT !.privacy = "public"], [Let(Null, ListT) EXCEPT !.privacy = "public"]>>],
  [Struct EXCEPT !.generics = Generics(TRUE, <<GenericP>>)], [EnumTypeDef("E", Generics(TRUE, <<GenericP>>), "public") EXCEPT !.fields = <<<<"A", <<T, ListT>>>>, <<"B", <<>>>>, <<"D", <<T>>>>>>],
  SomeMacro, [Macro("m", <<>>, Do(<<BinaryOp("+", a, one)>>), FALSE) EXCEPT !.attributes = {Attribute("export", {})}],
  ImportStmt(<<"a", "b">>, "m", <<>>, ""), ImportStmt(<<"a">>, "m", <<<<"x", "x">>, <<"y", "z">>>>, ""), ImportStmt(<<>>, "m", <<>>, "n"),
  [ImportStmt(<<"a">>, "m", <<>>, "") EXCEPT !.attributes = {Attribute("use_macros", {}), Attribute("cfg", {<<"os", "1">>, <<"x", "\"s\"">>})}],
  [Namespace("n", <<Fn, Namespace("o", <<Let(one, Null)>>)>>) EXCEPT !.attributes = {}], [Let(one, Null) EXCEPT !.privacy = "public"],
  VariableDecl("k", Null, T, FALSE, TRUE, TRUE, "private"), VariableDecl("k", one, T, FALSE, TRUE, FALSE, "public"), TypeAlias("A", T, NotGeneric, "public")}

Small == {Main(s) : s \in SomeStatements \cup Exprs \cup {Let(Null, t) : t \in Types}} \cup {<<item>> : item \in Items}
MCPrograms == LET pairs == {Main(e) : e \in Pairs} IN Small \cup pairs \cup {<<first, second>> : first \in {Struct, SomeMacro, Fn, TypeAlias("A", T, NotGeneric, "private")}, second \in {Fn, Cls("C"), Let(one, Null)}}

\* A break in a lambda in each place of a loop, which accepts it in its body and condition only, and in none.
Leaving == LambdaFunction([Lambda.func EXCEPT !.body.block = Do(<<LoopFlow("break")>>)])
InLambdas == {Main(s) : s \in {WhileLoop(a, Do(<<Call(Leaving, <<>>)>>), Null, FALSE), WhileLoop(Call(Leaving, <<>>), Body, Null, TRUE),
  ForLoop("i", a, Do(<<Let(Leaving, Null)>>)), ForLoop("i", Leaving, Body), Call(Leaving, <<>>)}}

Changes == {";", "}", "a", "{", ",", "break"}
Without(file, k) == SubSeq(file, 1, k - 1) \o SubSeq(file, k + 1, Len(file))
Edits(file) == {SubSeq(file, 1, k) \o <<Eof>> : k \in 0..(Len(file) - 2)} \cup {Without(file, k) : k \in 1..(Len(file) - 1)}
               \cup {[file EXCEPT ![k] = W(word)] : k \in 1..(Len(file) - 1), word \in Changes}
\* Texts that no tree is printed as: members of a class in another order,
\* attributes given twice, a negation behind an operand.
Plain(words) == Ws(words) \o <<Eof>>
Others == {Plain(words) : words \in {
  <<"class", "C", "{", "type", "A", "=", "T", ";", "let", "x", ":", "T", ";", "public", ":", "func", "f", "(", ")", "{", "}", "let", "y", ":", "T", ";", "}">>,
  <<"@", "cfg", "(", "x", "=", "1", ",", "y", ",", "x", "=", "0", ")", "func", "f", "(", ")", "{", "}">>,
  <<"@", "inline", "@", "cfg", "(", "x", ",", "y", "=", "1", ")", "@", "test", "func", "f", "(", ")", "{", "}">>,
  <<"@", "use_macros", "(", "x", ")", "@", "use_macro", "import", "m", ";">>, <<"@", "cfg", "import", "m", "::", "a", ";">>,
  <<"@", "inline", "import", "m", ";">>, <<"namespace", "n", "{", "@", "export", "macro", "m", "(", ")", "=", "a", ";", "}">>,
  <<"func", "f", "(", ")", "{", "a", "(", "b", "!", "b", ")", ";", "}">>, <<"func", "f", "(", ")", "{", "return", "a", "~", "b", "+", "a", ";", "}">>}}
MCInputs == LET small == {PFile(p) : p \in Small}
            IN {PFile(p) : p \in MCPrograms \cup InLambdas} \cup UNION {Edits(file) : file \in small} \cup Others \cup UNION {Edits(file) : file \in Others}
=============================================================================
