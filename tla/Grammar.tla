------------------------------ MODULE Grammar ------------------------------
(* What the parser is for: the way a syntax tree is written down, and the    *)
(* properties that relate the two.  A program is printed in one of the ways  *)
(* the language allows; the parser must find the tree again.                 *)
EXTENDS Parser

CONSTANT Programs   \* sequences of declarations

Symbols == {"@", ".", "#", ",", ":", "::", "?", ";", "{", "}", "(", ")", "[", "]", "=>"} \cup Infixes
Words == {"if", "else", "while", "do", "for", "switch", "case", "default", "break", "continue", "return", "throw", "try",
          "catch", "let", "mut", "const", "func", "operator", "class", "interface", "struct", "enum", "extends",
          "implements", "import", "namespace", "macro", "type", "public", "private", "external", "static", "unsafe",
          "virtual", "override", "new", "super", "as", "decltype", "constexpr"}
Literals == ("0" :> "num") @@ ("1" :> "num") @@ ("1.5" :> "float") @@ ("true" :> "bool") @@ ("'c'" :> "char") @@ ("\"s\"" :> "str")
W(word) == [type |-> IF word \in Symbols \cup Words THEN word ELSE IF word \in DOMAIN Literals THEN Literals[word] ELSE "id",
            value |-> word, glued |-> FALSE]
Glued(word) == [W(word) EXCEPT !.glued = TRUE]
Ws(words) == [k \in DOMAIN words |-> W(words[k])]
If(cond, text) == IF cond THEN text ELSE <<>>
Joined(texts, separator) == FlattenSeq([k \in DOMAIN texts |-> If(k > 1, separator) \o texts[k]])
Commas(texts) == Joined(texts, Ws(<<",">>))
In(open, text, close) == <<W(open)>> \o text \o <<W(close)>>

RECURSIVE PType(_), PExpr(_, _), PStmt(_), PFunction(_, _), PItem(_)
PTypes(types) == Commas([k \in DOMAIN types |-> PType(types[k])])
PId(id) == <<W(id.identifier)>> \o If(id.kind = "generic", Ws(<<"<", "?">>) \o If(id.kind = "generic", PTypes(id.generics)) \o Ws(<<">">>))
RECURSIVE PPath(_)
PPath(ast) ==
  CASE ast.kind = "index" -> PPath(ast.base) \o Ws(<<"::">>) \o PPath(ast.identifier)
    [] ast.kind = "identifier" -> Ws(<<ast.identifier>>)
    [] ast.kind = "generic" -> Ws(<<ast.identifier, "<">>) \o PTypes(ast.generics) \o Ws(<<">">>)
PType(t) ==
  CASE t.kind = "type"     -> PPath(t.ast)
    [] t.kind = "decltype" -> Ws(<<"decltype">>) \o In("(", PExpr(t.value, 12), ")")
    [] t.kind = "functype" -> Ws(<<"func">>) \o In("(", PTypes(t.args), ")") \o Ws(<<"=>">>) \o PType(t.returnValue)
    [] t.kind = "tuple"    -> In("(", PTypes(t.types), ")")
    [] t.kind = "reference" -> Ws(IF t.mutable THEN <<"&", "mut">> ELSE <<"&">>) \o PType(t.baseType)
    [] t.kind = "pointer"  -> Ws(<<"*", IF t.mutable THEN "mut" ELSE "const">>) \o PType(t.baseType)

\* Operators bind as those of C do, the tightest first.
Binding(op) ==
  LET levels == <<{"*", "/", "%"}, {"+", "-"}, {"<<", "|>>"}, {"<", "<=", ">", ">="}, {"==", "!="}, {"&"}, {"^"}, {"|"},
                  {"&&"}, {"||"}>>
      at == {level \in DOMAIN levels : op.op_type \in levels[level]}
  IN IF Unary(op) THEN 0 ELSE IF at = {} THEN 11 ELSE Min(at)
\* How loosely an expression binds: -1 for what needs no parentheses anywhere.
Level(e) ==
  CASE e.kind = "operator" /\ e.op_type = "[]" -> -1
    [] e.kind = "operator" /\ e.op_type = ".." -> 12
    [] e.kind = "operator" /\ e.op_type \notin {"[]", ".."} -> Binding(e)
    [] e.kind \in {"cast", "lambda"} -> 12
    [] OTHER -> -1
Spelling(op) == IF op \in {"u+", "u-", "u&", "u*"} THEN CHOOSE w \in {"+", "-", "&", "*"} : op = "u" \o w ELSE op
PArgs(args) == In("(", Commas([k \in DOMAIN args |-> PExpr(args[k], 12)]), ")")
POperator(e) ==
  CASE e.op_type = "[]" -> PExpr(e.left, -1) \o In("[", PExpr(e.right, 12), "]")
    [] e.op_type = ".." -> PExpr(e.left, -1) \o Ws(<<".", ".">>) \o PExpr(e.right, 12)
    [] Unary(e) -> Ws(<<Spelling(e.op_type)>>) \o PExpr(e.left, 0)
    [] OTHER -> PExpr(e.left, Level(e)) \o Ws(<<e.op_type>>) \o PExpr(e.right, Level(e) - 1)
PPseudo(e) ==
  IF ~e.hasArguments THEN <<W("#"), Glued(e.identifier)>>
  ELSE <<W(e.identifier), Glued("!")>> \o In("(", Commas([k \in DOMAIN e.args |->
         IF e.args[k].kind = "type" THEN <<W(":")>> \o PType(e.args[k]) ELSE PExpr(e.args[k], 12)]), ")")
PPlain(e) ==
  CASE e.kind = "constant" -> IF e.prefix = "" THEN Ws(<<e.value>>) ELSE <<W(e.prefix), Glued(e.value)>>
    [] e.kind = "cast"     -> PExpr(e.value, -1) \o Ws(<<"as">>) \o PType(e.type)
    [] e.kind = "call"     -> PExpr(e.callee, -1) \o PArgs(e.arguments)
    [] e.kind = "new"      -> Ws(<<"new">>) \o PType(e.type) \o PArgs(e.call.arguments)
    [] e.kind \in {"identifier", "generic"} -> PId(e)
    [] e.kind = "pseudo"   -> PPseudo(e)
    [] e.kind = "index"    -> PExpr(e.base, -1) \o Ws(<<IF e.isStatic THEN "::" ELSE ".">>) \o PId(e.identifier)
    [] e.kind = "lambda"   -> PFunction(e.func, "")
    [] e.kind = "operator" -> POperator(e)
PExpr(e, level) == IF Level(e) > level THEN In("(", PPlain(e), ")") ELSE PPlain(e)

PBlock(b) == If(b.unsafe, Ws(<<"unsafe">>)) \o In("{", FlattenSeq([k \in DOMAIN b.stmts |-> PStmt(b.stmts[k])]), "}")
PParam(p) ==
  If(p.mutableArg, Ws(<<"mut">>)) \o If(p.name # "$extern-arg", Ws(<<p.name, ":">>)) \o PType(p.type)
  \o If(p.defaultValue # Null, Ws(<<"=">>) \o PExpr(p.defaultValue, 10))
PGenerics(g) ==
  If(g.generic /\ g.list # <<>>, In("<", Commas([k \in DOMAIN g.list |->
    Ws(<<g.list[k].name>>)
    \o If(g.list[k].whereClause # Null, Ws(<<":">>) \o Joined([c \in DOMAIN g.list[k].whereClause.checks |-> PType(g.list[k].whereClause.checks[c])], Ws(<<"+">>)))
    \o If(g.list[k].type # Null, Ws(<<"=">>) \o PType(g.list[k].type))]), ">"))
Written(attributes) == {a \in attributes : a.name \notin {"override", "first_arg_is_self", "class_extends"}}
PAttributes(attributes) ==
  FlattenSeq(SetToSeq({Ws(<<"@", a.name>>) \o If(a.args # {}, In("(", Commas(SetToSeq({
    IF p[2] = "" THEN Ws(<<p[1]>>) ELSE Ws(<<p[1], "=", p[2]>>) : p \in a.args})), ")")) :
    a \in Written(attributes)}))
\* The privacy of a member of a class is in the label before it.
PVariable(v, inClass) ==
  PAttributes(v.attributes) \o If(v.privacy = "public" /\ ~inClass, Ws(<<"public">>))
  \o If(v.extern, Ws(<<"external">>)) \o If(v.constant /\ inClass, Ws(<<"static">>))
  \o Ws(<<IF v.constant THEN "const" ELSE "let">>) \o If(v.mutable, Ws(<<"mut">>)) \o Ws(<<v.name>>)
  \o If(v.definedType # Null, Ws(<<":">>) \o PType(v.definedType)) \o If(v.value # Null, Ws(<<"=">>) \o PExpr(v.value, 10)) \o Ws(<<";">>)
PAlias(t, inClass) ==
  If(t.privacy = "public" /\ ~inClass, Ws(<<"public">>)) \o Ws(<<"type", t.identifier>>) \o PGenerics(t.generics)
  \o Ws(<<"=">>) \o PType(t.type) \o Ws(<<";">>)

Simple(b) == Len(b.stmts) = 1 /\ b.stmts[1].kind \in {"return", "raise", "call", "loopflow"}
\* A statement without its semicolon.
PBare(s) ==
  CASE s.kind = "return"   -> Ws(<<"return">>) \o If(s.value # Null, PExpr(s.value, 10))
    [] s.kind = "raise"    -> Ws(<<"throw">>) \o PExpr(s.expr, 10)
    [] s.kind = "loopflow" -> Ws(<<s.type>>)
    [] OTHER               -> PExpr(s, 12)
PBody(b) == IF Simple(b) THEN PBare(b.stmts[1]) ELSE PBlock(b)
PCase(c) ==
  (IF c.isDefault THEN Ws(<<"default">>) ELSE IF c.expr # Null THEN PExpr(c.expr, 10)
   ELSE Ws(<<c.name>>) \o If(c.args # <<>> \/ c.isVariadic, In("(", Commas([k \in DOMAIN c.args |-> Ws(<<c.args[k]>>)]) \o
          If(c.isVariadic, If(c.args # <<>>, Ws(<<",">>)) \o Ws(<<".", ".", ".">>)), ")")))
  \o Ws(<<"=>">>) \o PBody(c.block) \o Ws(<<",">>)
IsForC(b) == b.stmts # <<>> /\ Last(b.stmts).kind = "while" /\ Last(b.stmts).forCond # Null
PForC(b) ==
  LET loop == Last(b.stmts)
  IN Ws(<<"for">>) \o (IF Len(b.stmts) = 2 THEN PStmt(b.stmts[1]) ELSE Ws(<<";">>)) \o PExpr(loop.cond, 10) \o Ws(<<";">>)
     \o PExpr(loop.forCond, 12) \o PBlock(loop.insts)
PElse(b) == IF Len(b.stmts) = 1 /\ b.stmts[1].kind = "conditional" THEN PStmt(b.stmts[1]) ELSE PBody(b)
PStmt(s) ==
  CASE s.kind = "block" /\ IsForC(s) -> PForC(s)
    [] s.kind = "block" /\ ~IsForC(s) -> PBlock(s)
    [] s.kind = "variable" -> PVariable(s, FALSE)
    [] s.kind = "alias"    -> PAlias(s, FALSE)
    [] s.kind = "conditional" -> Ws(<<"if">>) \o PExpr(s.cond, 10) \o PBlock(s.insts) \o If(s.elseBlock # Null, Ws(<<"else">>) \o PElse(s.elseBlock))
    [] s.kind = "while"    -> IF s.doWhile THEN Ws(<<"do">>) \o PBlock(s.insts) \o Ws(<<"while">>) \o PExpr(s.cond, 10) \o Ws(<<";">>)
                              ELSE Ws(<<"while">>) \o PExpr(s.cond, 10) \o PBlock(s.insts)
    [] s.kind = "for"      -> Ws(<<"for", s.var, "in">>) \o PExpr(s.expr, 12) \o PBlock(s.block)
    [] s.kind = "try"      -> Ws(<<"try">>) \o PBlock(s.tryBlock) \o FlattenSeq([k \in DOMAIN s.catchBlocks |->
                                Ws(<<"catch">>) \o In("(", Ws(<<s.catchBlocks[k].exceptionVar, ":">>) \o PType(s.catchBlocks[k].exceptionType), ")")
                                \o PBlock(s.catchBlocks[k].block)])
    [] s.kind = "switch"   -> Ws(<<IF s.isCStyle THEN "switch" ELSE "case">>) \o PExpr(s.expr, 12)
                              \o In("{", FlattenSeq([k \in DOMAIN s.cases |-> PCase(s.cases[k])]), "}")
    [] OTHER               -> PBare(s) \o Ws(<<";">>)

OperatorNames == Infixes \cup {"u+", "u-", "[]", "()", "#bool"}
PParams(f) == In("(", Commas([k \in DOMAIN f.args |-> PParam(f.args[k])] \o If(f.variadic, <<Ws(<<".", ".", ".">>)>>)), ")")
PSignature(f) == PGenerics(f.generics) \o PParams(f) \o If(f.retType.kind # "type" \/ f.retType.ast # Null, PType(f.retType))
PInits(c) ==
  LET super == If(c.hasSuperArgs, <<Ws(<<"super">>) \o PArgs(c.superArgs)>>)
      inits == [k \in DOMAIN c.initArgs |-> Ws(<<c.initArgs[k][1]>>) \o In("(", PExpr(c.initArgs[k][2], 10), ")")]
  IN If(super \o inits # <<>>, Ws(<<":">>) \o Commas(super \o inits))
PFunctionBody(f) ==
  CASE f.notImplemented -> Ws(<<"=", "0", ";">>)
    [] f.body.kind \in {"declared", "extern"} -> Ws(<<";">>)
    [] f.body.kind = "llvm" -> In("{", FlattenSeq([k \in DOMAIN f.body.llvmTypesUsed |-> In("{", Ws(<<"=">>) \o PType(f.body.llvmTypesUsed[k]), "}")]), "}")
    [] f.body.kind = "constructor" -> PInits(f.body) \o PBlock(f.body.block)
    [] OTHER -> PBlock(f.body.block)
PModifiers(f, inClass) ==
  If(f.privacy = "public" /\ ~inClass, Ws(<<"public">>))
  \o If(f.body.kind = "extern", Ws(<<"external">>)) \o If(f.static /\ f.body.kind # "constructor", Ws(<<"static">>))
  \o If(\E a \in f.attributes : a.name = "override", Ws(<<"override">>)) \o If(f.virtual, Ws(<<"virtual">>))
  \o If(f.mutable /\ f.body.kind # "constructor", Ws(<<"mut">>)) \o If(f.unsafe, Ws(<<"unsafe">>))
PName(f, cls) ==
  CASE f.body.kind = "constructor" -> Ws(<<cls>>)
    [] f.name = ""  -> Ws(<<"func">>)
    [] f.body.kind = "extern" -> Ws(<<"func", f.body.externalName>>) \o If(f.body.externalName # f.name, Ws(<<"as", f.name>>))
    [] f.name \in OperatorNames -> Ws(<<"operator", "func">>)
         \o (CASE f.name = "[]" -> Ws(<<"[", "]">>) [] f.name = "()" -> Ws(<<"(", ")">>)
               [] f.name = "#bool" -> Ws(<<"bool">>) [] OTHER -> Ws(<<Spelling(f.name)>>))
    [] OTHER -> Ws(<<"func", f.name>>)
PFunction(f, cls) ==
  PAttributes(f.attributes) \o PModifiers(f, cls # "") \o PName(f, cls) \o PSignature(f) \o PFunctionBody(f)

PMember(m, cls) ==
  Ws(<<m.privacy, ":">>)
  \o (CASE m.kind = "function" -> PFunction(m, cls) [] m.kind = "variable" -> PVariable(m, TRUE)
        [] m.kind = "alias" -> PAlias(m, TRUE) [] OTHER -> PItem([m EXCEPT !.privacy = "private"]))
PClass(c) ==
  LET extends == \E a \in c.attributes : a.name = "class_extends"
      members == c.functions \o c.variables \o c.typeAliases
      name == CASE c.name = "$const-pointer" -> Ws(<<"*", "const">>) [] c.name = "$mut-pointer" -> Ws(<<"*", "mut">>)
                [] c.name = "$integer-impl" -> Ws(<<"IntegerImpl">>) [] OTHER -> Ws(<<c.name>>)
  IN Ws(<<c.type>>) \o If(extends, Ws(<<"extends">>)) \o name \o PGenerics(c.generics)
     \o If(c.extends # Null, Ws(<<"extends">>) \o PType(c.extends)) \o If(c.impls # <<>>, Ws(<<"implements">>) \o PTypes(c.impls))
     \o In("{", FlattenSeq([k \in DOMAIN members |-> PMember(members[k], c.name)]), "}")
PStruct(c) ==
  Ws(<<"struct", c.name>>) \o PGenerics(c.generics)
  \o In("{", FlattenSeq([k \in DOMAIN c.variables |-> PVariable([c.variables[k] EXCEPT !.privacy = "private"], FALSE)]), "}")
PEnum(e) ==
  Ws(<<"enum", e.name>>) \o PGenerics(e.generics)
  \o In("{", Commas([k \in DOMAIN e.fields |-> Ws(<<e.fields[k][1]>>) \o If(e.fields[k][2] # <<>>, In("(", PTypes(e.fields[k][2]), ")"))]), "}")
PMacroType(type) ==
  IF type \in {"expr", "type", "stmt", "const"} THEN Ws(<<type>>)
  ELSE Ws(<<"const">>) \o In("[", Ws(<<CHOOSE v \in {"str", "num", "chr"} : type = "const " \o v>>), "]")
PMacro(m) ==
  LET args == [k \in DOMAIN m.args |-> Ws(<<m.args[k].name, ":">>) \o PMacroType(m.args[k].type)
                 \o If(m.args[k].default # Null, Ws(<<"=">>) \o PExpr(m.args[k].default, 12))]
  IN Ws(<<"macro", m.name>>) \o In("(", Commas(args), ")")
     \o (IF m.isStatement THEN PBlock(m.body) ELSE Ws(<<"=">>) \o PExpr(m.body.stmts[1], 10) \o Ws(<<";">>))
PImport(m) ==
  LET dot(p) == IF p = ".." THEN <<".", ".">> ELSE <<p>>
      imported  == [k \in DOMAIN m.variables |-> Ws(<<m.variables[k][1]>>) \o If(m.variables[k][1] # m.variables[k][2], Ws(<<"as", m.variables[k][2]>>))]
  IN PAttributes(m.attributes) \o Ws(<<"import", m.package>>) \o FlattenSeq([k \in DOMAIN m.path |-> Ws(<<"::">> \o dot(m.path[k]))])
     \o If(imported # <<>>, Ws(<<"::">>) \o In("{", Commas(imported), "}")) \o If(m.exportSymbol # "", Ws(<<"as", m.exportSymbol>>)) \o Ws(<<";">>)
PItem(item) ==
  LET declared == item.kind \in {"class", "enum"}
  IN If(declared /\ item.kind # "alias", PAttributes(item.attributes)) \o If(declared /\ item.privacy = "public", Ws(<<"public">>))
     \o (CASE item.kind = "class" /\ item.type # "struct" -> PClass(item)
           [] item.kind = "class" /\ item.type = "struct" -> PStruct(item)
           [] item.kind = "enum"      -> PEnum(item)
           [] item.kind = "function"  -> PFunction(item, "")
           [] item.kind = "variable"  -> PVariable(item, FALSE)
           [] item.kind = "alias"     -> PAlias(item, FALSE)
           [] item.kind = "import"    -> PImport(item)
           [] item.kind = "macro"     -> PAttributes(item.attributes) \o PMacro(item)
           [] item.kind = "namespace" -> PAttributes(item.attributes) \o Ws(<<"namespace", item.name>>)
                \o In("{", FlattenSeq([k \in DOMAIN item.body |-> PItem(item.body[k])]), "}"))
PFile(program) == FlattenSeq([k \in DOMAIN program |-> PItem(program[k])]) \o <<Eof>>

Trees ==
  LET pairs == {<<PFile(p), p>> : p \in Programs}
  IN [file \in {pair[1] : pair \in pairs} |-> (CHOOSE pair \in pairs : pair[1] = file)[2]]

\* A program written down in full is accepted, and its tree is the one it was
\* printed from: operators bind as in C and associate to the left (buildOperatorTree), and every
\* parse function's order of next, peek and consume.
Intact == tokens \in DOMAIN Trees
RoundTrip == [][Intact => mode' # "failed" /\ (mode' = "done" => nodes' = Trees[tokens])]_vars

\* The tokens that the tree keeps: not what only separates, not the modifiers,
\* some of which the parser takes and forgets, and not "true", which also
\* stands for the condition a C-style loop leaves out.
Kept(file) ==
  LET kept == SelectSeq(file, LAMBDA token : token.type \notin
    {";", ",", "(", ")", "{", "}", "<", ">", ":", "bool", "public", "private", "static", "unsafe", "mut", "virtual", "override"})
  IN [k \in DOMAIN kept |-> kept[k].value]
\* What the tree has no room for: an argument given twice to an attribute, of
\* which the last value stays (the TODO at parseAttributes.cc:24), and the two
\* spellings of one attribute of an import.
ArgumentsAt(at) ==
  {k \in (at + 3)..Len(tokens) : tokens[k].type = "id" /\ tokens[k - 1].type \in {"(", ","} /\ \A j \in at..k : tokens[j].type # ")"}
Overwritten ==
  \/ \E at \in DOMAIN tokens : tokens[at].type = "@" /\ Tok(at + 2).type = "("
       /\ \E j, k \in ArgumentsAt(at) : j # k /\ tokens[j].value = tokens[k].value
  \/ {"use_macro", "use_macros"} \subseteq {tokens[k].value : k \in DOMAIN tokens}
\* Where the tree keeps no order: the attributes of a declaration, their
\* arguments, and the three lists of a class among each other.
RECURSIVE Ordered(_)
Ordered(items) ==
  \A k \in DOMAIN items : LET item == items[k] IN
    /\ item.kind # "alias" => Cardinality(Written(item.attributes)) <= 1 /\ \A attribute \in item.attributes : Cardinality(attribute.args) <= 1
    /\ item.kind = "namespace" => Ordered(item.body)
    /\ item.kind = "class" =>
         LET lists == <<item.functions, item.variables, item.typeAliases>>
         IN Cardinality({n \in 1..3 : lists[n] # <<>>}) <= 1 /\ \A n \in 1..3 : Ordered(lists[n])
\* Whatever is accepted is in the tree: every name, literal, operator and
\* keyword of the text is in it as often as it was written and no other is,
\* and they stand in the order of the text but where the tree keeps none.
\* The text is taken with what a next() took for granted in the place of what
\* is there, so that a skipped token, and nothing beside it, is lost.  Excepted
\* are what is overwritten and the bodies of LLVM functions.
Taken ==
  [k \in DOMAIN tokens |->
     IF tokens[k] # Eof /\ (\E skip \in parser.skipped : skip[1] = k) THEN W((CHOOSE skip \in parser.skipped : skip[1] = k)[2]) ELSE tokens[k]]

\* A text that is refused is refused by createError.  The parser's assertions
\* and the BUGs of next and peek are met only at the end of the text, where a
\* statement is empty, and where a "!" or "~" behind an operand goes on with
\* the expression that is refused: it is taken for an operator between two,
\* and the two are left without one (parseExpr.cc).
OperandEnds == Ids \cup Constants \cup {")", "]", "}", ">"}
OwnErrors ==
  parser.error \in {"assert", "bug"} =>
    \/ Tok(parser.i).type \in {"eof", ";"} \/ Tok(parser.i + 1).type \in {"eof", ";"}
    \/ \E k \in 2..parser.i :
         /\ tokens[k].type \in {"!", "~"} /\ tokens[k - 1].type \in OperandEnds
         /\ \A j \in k..parser.i : tokens[j].type \notin {";", "{"}

\* The nodes a node is made of, but for what is parsed with m_inside_loop on:
\* of a while loop with a step only the body is.
PartsOfParams(params) == UNION {{params[k].type, params[k].defaultValue, params[k].whereClause} : k \in DOMAIN params}
PartsOfFunction(f) ==
  PartsOfParams(f.args \o f.generics.list) \cup {f.retType}
  \cup (CASE f.body.kind = "bodied" -> {f.body.block}
          [] f.body.kind = "constructor" -> {f.body.block} \cup Range(f.body.superArgs) \cup {init[2] : init \in Range(f.body.initArgs)}
          [] f.body.kind = "llvm" -> Range(f.body.llvmTypesUsed)
          [] OTHER -> {})
Parts(n) ==
  CASE n.kind = "type"     -> {n.ast} \cup Range(n.generics)
    [] n.kind = "generic"  -> Range(n.generics)
    [] n.kind = "decltype" -> {n.value}
    [] n.kind = "functype" -> Range(n.args) \cup {n.returnValue}
    [] n.kind = "tuple"    -> Range(n.types)
    [] n.kind \in {"reference", "pointer"} -> {n.baseType}
    [] n.kind = "where"    -> Range(n.checks)
    [] n.kind = "cast"     -> {n.value, n.type}
    [] n.kind = "call"     -> {n.callee} \cup Range(n.arguments)
    [] n.kind = "new"      -> {n.call, n.type}
    [] n.kind = "pseudo"   -> Range(n.args)
    [] n.kind = "index"    -> {n.base, n.identifier}
    [] n.kind = "operator" -> {n.left, n.right}
    [] n.kind = "lambda"   -> {n.func}
    [] n.kind = "block"    -> Range(n.stmts)
    [] n.kind = "variable" -> {n.value, n.definedType}
    [] n.kind = "alias"    -> {n.type} \cup PartsOfParams(n.generics.list)
    [] n.kind = "switch"   -> {n.expr} \cup UNION {{c.expr, c.block} : c \in Range(n.cases)}
    [] n.kind = "raise"    -> {n.expr}
    [] n.kind = "return"   -> {n.value}
    [] n.kind = "conditional" -> {n.cond, n.insts, n.elseBlock}
    [] n.kind = "try"      -> {n.tryBlock} \cup UNION {{c.exceptionType, c.block} : c \in Range(n.catchBlocks)}
    [] n.kind = "for"      -> {n.expr}
    [] n.kind = "while"    -> IF n.forCond = Null THEN {} ELSE {n.cond, n.forCond}
    [] n.kind = "function" -> PartsOfFunction(n)
    [] n.kind = "class"    -> {n.extends} \cup Range(n.impls) \cup PartsOfParams(n.generics.list) \cup Range(n.functions \o n.variables \o n.typeAliases)
    [] n.kind = "enum"     -> PartsOfParams(n.generics.list) \cup UNION {Range(field[2]) : field \in Range(n.fields)}
    [] n.kind = "namespace" -> Range(n.body)
    [] n.kind = "macro"    -> {n.body} \cup {arg.default : arg \in Range(n.args)}
    [] OTHER               -> {}

\* A break or continue that is in no loop below the node.
RECURSIVE Stray(_)
Stray(n) == n.kind = "loopflow" \/ \E part \in Parts(n) : Stray(part)

\* m_inside_loop is true exactly inside of loops, wherever they stand: an
\* accepted break or continue has a loop around it, however deep in lambdas,
\* operands, cases and members it is, and between two items the flag is off
\* again, as m_current_class is.  The loop may be one around the lambda in which
\* the break stands: nothing puts the flag back there (parseLoopControl.cc:19).
LoopControl ==
  /\ \A item \in Range(nodes) : ~Stray(item)
  /\ Ok(parser) => ~parser.loop /\ parser.class = NoClass
=============================================================================
