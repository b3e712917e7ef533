-------------------------------- MODULE Ast --------------------------------
(* The nodes of the syntax tree (src/src/ast/syntax): one constructor per    *)
(* class, with the members the parser sets.  A null pointer is Null, so that *)
(* every node has a kind.  Source positions and the state that later passes  *)
(* hang on a node are left out; names and literals are strings.              *)
EXTENDS Naturals, Sequences, SequencesExt, FiniteSets

Null == [kind |-> "null"]

(* Types *)
TypeRef(ast, id, generics) == [kind |-> "type", ast |-> ast, id |-> id, generics |-> generics]
DeclType(value) == [kind |-> "decltype", value |-> value]
FuncType(args, returnValue) == [kind |-> "functype", args |-> args, returnValue |-> returnValue]
TupleType(types) == [kind |-> "tuple", types |-> types]
ReferenceType(baseType, mutable) == [kind |-> "reference", baseType |-> baseType, mutable |-> mutable]
PointerType(baseType, mutable) == [kind |-> "pointer", baseType |-> baseType, mutable |-> mutable]
Void == TypeRef(Null, <<"void">>, <<>>)
WhereClause(checks) == [kind |-> "where", checks |-> checks]
\* status tells a generic parameter from an ordinary one.
Param(name, type, status) ==
  [name |-> name, type |-> type, defaultValue |-> Null, whereClause |-> Null, status |-> status, mutableArg |-> FALSE]
\* A GenericContainer: generic says that a list was written, if only <>.
Generics(generic, list) == [generic |-> generic, list |-> list]
NotGeneric == Generics(FALSE, <<>>)
\* Attributes are a set of [name, args]: an AttributeHolder has one per name.
Attribute(name, args) == [name |-> name, args |-> args]

(* Expressions *)
ConstantValue(type, value, prefix) == [kind |-> "constant", type |-> type, value |-> value, prefix |-> prefix]
Cast(value, type) == [kind |-> "cast", value |-> value, type |-> type]
FunctionCall(callee, arguments) == [kind |-> "call", callee |-> callee, arguments |-> arguments]
NewInstance(call, type) == [kind |-> "new", call |-> call, type |-> type]
Identifier(identifier) == [kind |-> "identifier", identifier |-> identifier]
GenericIdentifier(identifier, generics) == [kind |-> "generic", identifier |-> identifier, generics |-> generics]
PseudoVariable(identifier, args, hasArguments, asStatement) ==
  [kind |-> "pseudo", identifier |-> identifier, args |-> args, hasArguments |-> hasArguments, asStatement |-> asStatement]
Index(base, identifier, isStatic) == [kind |-> "index", base |-> base, identifier |-> identifier, isStatic |-> isStatic]
LambdaFunction(func) == [kind |-> "lambda", func |-> func]
\* isOperator: the node stands for its operator token and has no operands yet.
BinaryOp(op_type, left, right) ==
  [kind |-> "operator", op_type |-> op_type, left |-> left, right |-> right, isOperator |-> FALSE, isMutableReference |-> FALSE]
PendingOp(op_type) == [BinaryOp(op_type, Null, Null) EXCEPT !.isOperator = TRUE]
IsOperator(node) == node.kind = "operator" /\ node.isOperator

Assignments == {"=", "+=", "-=", "*=", "/=", "%=", "<<=", "|>>=", "&=", "^=", "|="}
is_assignment(node) == node.kind = "operator" /\ node.op_type \in Assignments

(* Statements *)
Block(stmts, unsafe) == [kind |-> "block", stmts |-> stmts, unsafe |-> unsafe]
Privacy(isPublic) == IF isPublic THEN "public" ELSE "private"
VariableDecl(name, value, definedType, mutable, constant, extern, privacy) ==
  [kind |-> "variable", name |-> name, value |-> value, definedType |-> definedType, mutable |-> mutable,
   constant |-> constant, extern |-> extern, privacy |-> privacy, attributes |-> {}]
TypeAlias(identifier, type, generics, privacy) ==
  [kind |-> "alias", identifier |-> identifier, type |-> type, generics |-> generics, privacy |-> privacy]
CaseBlock(expr, name, args, isDefault, isVariadic, block) ==
  [expr |-> expr, name |-> name, args |-> args, isDefault |-> isDefault, isVariadic |-> isVariadic, block |-> block]
Switch(expr, cases, isCStyle) == [kind |-> "switch", expr |-> expr, cases |-> cases, isCStyle |-> isCStyle]
Raise(expr) == [kind |-> "raise", expr |-> expr]
Conditional(cond, insts, elseBlock) == [kind |-> "conditional", cond |-> cond, insts |-> insts, elseBlock |-> elseBlock]
LoopFlow(type) == [kind |-> "loopflow", type |-> type]
CatchBlock(exceptionType, exceptionVar, block) ==
  [exceptionType |-> exceptionType, exceptionVar |-> exceptionVar, block |-> block]
TryCatch(tryBlock, catchBlocks) == [kind |-> "try", tryBlock |-> tryBlock, catchBlocks |-> catchBlocks]
ForLoop(var, expr, block) == [kind |-> "for", var |-> var, expr |-> expr, block |-> block]
\* forCond is the step of a C-style for loop.
WhileLoop(cond, insts, forCond, doWhile) ==
  [kind |-> "while", cond |-> cond, insts |-> insts, forCond |-> forCond, doWhile |-> doWhile]
Return(value) == [kind |-> "return", value |-> value]

(* Declarations *)
\* The members that differ by the class of the function are in body.
FunctionDef(name, args, retType, body) ==
  [kind |-> "function", name |-> name, args |-> args, retType |-> retType, body |-> body, generics |-> NotGeneric,
   privacy |-> "private", attributes |-> {}, unsafe |-> FALSE, virtual |-> FALSE, static |-> FALSE, mutable |-> FALSE,
   variadic |-> FALSE, notImplemented |-> FALSE]
Undefined == [kind |-> "declared"]
ExternFnDef(externalName) == [kind |-> "extern", externalName |-> externalName]
BodiedFunction(block) == [kind |-> "bodied", block |-> block]
ConstructorDef(block, hasSuperArgs, superArgs, initArgs) ==
  [kind |-> "constructor", block |-> block, hasSuperArgs |-> hasSuperArgs, superArgs |-> superArgs, initArgs |-> initArgs]
LLVMFunction(llvmTypesUsed) == [kind |-> "llvm", llvmTypesUsed |-> llvmTypesUsed]
DefinedTypeDef(name, extends, type, generics, impls, privacy) ==
  [kind |-> "class", name |-> name, extends |-> extends, type |-> type, generics |-> generics, impls |-> impls,
   privacy |-> privacy, functions |-> <<>>, variables |-> <<>>, typeAliases |-> <<>>, hasConstructor |-> FALSE,
   attributes |-> {}]
EnumTypeDef(name, generics, privacy) ==
  [kind |-> "enum", name |-> name, generics |-> generics, privacy |-> privacy, fields |-> <<>>, attributes |-> {}]
ImportStmt(path, package, variables, exportSymbol) ==
  [kind |-> "import", path |-> path, package |-> package, variables |-> variables, exportSymbol |-> exportSymbol,
   attributes |-> {}]
Namespace(name, body) == [kind |-> "namespace", name |-> name, body |-> body, attributes |-> {}]
MacroArg(name, type, default) == [name |-> name, type |-> type, default |-> default]
Macro(name, args, body, isStatement) ==
  [kind |-> "macro", name |-> name, args |-> args, body |-> body, isStatement |-> isStatement, attributes |-> {}]
=============================================================================
