------------------------- MODULE DefiniteAssignment -------------------------
(* The definite-assignment analysis of src/src/visitors/analyzers, run over  *)
(* any function the parser can produce, one visit handler per action, next   *)
(* to one execution path of the same function.  A frame stands for one       *)
(* asBlock/withScope of the analysis (its scope and its state.inited) and    *)
(* for the lexical scope the program really has (real), with live telling    *)
(* whether the path being followed executes it.                              *)
EXTENDS Integers, Sequences, SequencesExt, FiniteSets, FiniteSetsExt

CONSTANTS
  Var,         \* names of local variables, arguments and bindings
  Field,       \* "$self::<name>": the fields of the class of a constructor
  NoName,      \* no binding, or a right-hand side that reads nothing
  Constructs,  \* which of the constructs below the functions use
  MaxDepth     \* bound on the nesting of frames

Name == Var \cup Field
AllConstructs ==
  {"block", "if", "scope", "try", "lambda", "jump", "rhs", "callee", "shadow", "field", "operand"}

ASSUME NamesAssumption == Var \cap Field = {} /\ NoName \notin Name
ASSUME ConstructsAssumption == Constructs \subseteq AllConstructs /\ MaxDepth \in Nat

VARIABLES
  frames,   \* the active frames, innermost first (DefiniteAssigment::scopes)
  verdict,  \* "analysing", then "accepted" or "rejected" (E<VARIABLE_ERROR>)
  bad,      \* history: kinds of unassigned reads and exits the path has made
  holes     \* history: constructs the analysis is known to misjudge, if used
vars == <<frames, verdict, bad, holes>>

Status == {"none", "no", "yes"}   \* not in the map, NotInitialized, Initialized
None == [x \in Name |-> "none"]
Kinds == {"func", "block", "then", "else", "scope", "loop", "try", "catch", "lambda"}

Frame(kind, live, other, binding) ==
  [kind   |-> kind,
   scope  |-> None,                 \* what the analysis has noted here
   inited |-> {},                   \* state.inited of this asBlock
   before |-> {},                   \* blockInited, while the else is visited
   real   |-> [x \in Name |-> IF x = binding THEN "yes" ELSE "none"],
   live   |-> live,                 \* the path executes this frame
   other  |-> other]                \* it executes the else, or the catch

Top == frames[1]
Analysing == verdict = "analysing"

\* getIdentifier: the innermost scope that mentions x.
Found(fs, x) == {i \in DOMAIN fs : fs[i].scope[x] # "none"}
getIdentifier(fs, x) == IF Found(fs, x) = {} THEN "none" ELSE fs[Min(Found(fs, x))].scope[x]

\* The same for the program: where x is declared, and whether it has a value.
Declared(fs, x) == {i \in DOMAIN fs : fs[i].real[x] # "none"}
Visible(x) == Declared(frames, x) # {}
Unset(x) == Visible(x) /\ frames[Min(Declared(frames, x))].real[x] = "no"
Store(fs, x) ==
  IF fs[1].live THEN [fs EXCEPT ![Min(Declared(fs, x))].real[x] = "yes"] ELSE fs

\* An executed read of an unassigned variable or field, unless rejected.
Witness(kind, x) == IF Top.live /\ x \in Name /\ Unset(x) THEN {kind} ELSE {}

\* A variable found NotInitialized becomes Initialized in the current scope.
Mark(fs, ids) ==
  LET new == {x \in ids : getIdentifier(fs, x) = "no"} IN
  [fs EXCEPT ![1].scope = [x \in Name |-> IF x \in new THEN "yes" ELSE @[x]],
             ![1].inited = @ \cup new]

InLambda == \E i \in DOMAIN frames : frames[i].kind = "lambda"

-----------------------------------------------------------------------------
(* FunctionDef: the arguments, and the fields of a constructor, get a scope  *)
(* of their own; then the body is visited as a Block.                        *)

NewFunction(args, preset) ==
  LET entry == [x \in Name |-> IF x \in args \cup preset THEN "yes"
                               ELSE IF x \in Field /\ "field" \in Constructs THEN "no" ELSE "none"]
      func  == [Frame("func", TRUE, FALSE, NoName) EXCEPT !.scope = entry, !.real = entry]
  IN <<Frame("block", TRUE, FALSE, NoName), func>>

Init ==
  /\ \E args \in SUBSET Var, preset \in SUBSET Field :
       /\ preset # {} => "field" \in Constructs
       /\ frames = NewFunction(args, preset)
  /\ verdict = "analysing"
  /\ bad = {}
  /\ holes = {}

\* After the body: a constructor must have initialised every field in the
\* scope FunctionDef opened.
FunctionEnds ==
  /\ Analysing /\ Len(frames) = 1
  /\ verdict' = IF \E f \in Field : Top.scope[f] = "no" THEN "rejected" ELSE "accepted"
  /\ bad' = bad \cup UNION {Witness("field", f) : f \in Field}
  /\ UNCHANGED <<frames, holes>>

-----------------------------------------------------------------------------
(* Variables. *)

\* VariableDecl: emplace keeps what the current scope already says of x.  The
\* transformer has refused a second declaration in one scope.
VariableDecl(x, initialized) ==
  /\ Analysing /\ Len(frames) > 1 /\ Top.real[x] = "none"
  /\ Visible(x) => "shadow" \in Constructs
  /\ frames' = [frames EXCEPT ![1].scope[x] = IF @ # "none" THEN @ ELSE initialized,
                              ![1].real[x] = initialized]
  /\ holes' = IF Visible(x) \/ Top.scope[x] # "none" THEN holes \cup {"shadow"} ELSE holes
  /\ UNCHANGED <<verdict, bad>>

\* The right operand of && or || is visited like any expression (BinaryOperator.cc:42),
\* but a path that gets to it may not evaluate it (buildOperator.cc).
Evaluated(runs) == runs \/ ("operand" \in Constructs /\ Top.live)

\* Identifier, and Index on self: the read is refused if x is NotInitialized.
Read(x, runs) ==
  /\ Analysing /\ Len(frames) > 1 /\ Visible(x) /\ Evaluated(runs)
  /\ verdict' = IF getIdentifier(frames, x) = "no" THEN "rejected" ELSE verdict
  /\ bad' = IF runs THEN bad \cup Witness("read", x) ELSE bad
  /\ UNCHANGED <<frames, holes>>

\* FunctionCall visits its arguments only: x() does not visit the callee.
CalleeRead(x) ==
  /\ Analysing /\ Len(frames) > 1 /\ Visible(x) /\ x \in Var /\ "callee" \in Constructs
  /\ bad' = bad \cup Witness("callee", x)
  /\ UNCHANGED <<frames, verdict, holes>>

\* What x = e does: the analysis marks x, the path stores in it if it runs.
Assigned(x, runs) == IF runs THEN Store(Mark(frames, {x}), x) ELSE Mark(frames, {x})
AssignmentHoles(runs) ==
  (IF InLambda THEN {"lambda"} ELSE {}) \cup (IF runs THEN {} ELSE {"operand"})

\* BinaryOp, x = e: the handler marks x and returns, and e (here, r) is not
\* visited; a name the analysis does not know, as that of an iteration, is refused.
Assign(x, r, runs) ==
  /\ Analysing /\ Len(frames) > 1 /\ Visible(x) /\ Evaluated(runs)
  /\ r # NoName => Visible(r) /\ "rhs" \in Constructs
  /\ verdict' = IF getIdentifier(frames, x) = "none" THEN "rejected" ELSE verdict
  /\ bad' = IF runs THEN bad \cup Witness("rhs", r) ELSE bad
  /\ frames' = Assigned(x, runs)
  /\ holes' = holes \cup AssignmentHoles(runs)

\* BinaryOp, self.f = e: f is marked first, then e is visited, so that an e
\* that reads self.f itself passes.
AssignField(f, r, runs) ==
  /\ Analysing /\ Len(frames) > 1 /\ Visible(f) /\ Evaluated(runs)
  /\ r # NoName => Visible(r) /\ "rhs" \in Constructs
  /\ LET marked == Mark(frames, {f}) IN
       verdict' = IF r # NoName /\ getIdentifier(marked, r) = "no" THEN "rejected" ELSE verdict
  /\ frames' = Assigned(f, runs)
  /\ bad' = IF runs THEN bad \cup Witness(IF r = f THEN "own" ELSE "read", r) ELSE bad
  /\ holes' = holes \cup AssignmentHoles(runs)

-----------------------------------------------------------------------------
(* Blocks.  asBlock pushes a scope with an empty state and pops it again; a  *)
(* Block and the two branches of a Conditional then hand inited names to the *)
(* enclosing scope, the other statements drop them.                          *)

Open(kind, live, other, binding) ==
  /\ Analysing /\ Len(frames) > 1 /\ Len(frames) < MaxDepth
  /\ frames' = <<Frame(kind, live, other, binding)>> \o frames
  /\ UNCHANGED <<verdict, bad, holes>>

\* What remains when the innermost frame is popped and hands on these names.
CloseMerging(merged) == Mark(Tail(frames), merged)

Close(fs) == frames' = fs /\ UNCHANGED <<verdict, bad, holes>>

OpenBlock == "block" \in Constructs /\ Open("block", Top.live, FALSE, NoName)
CloseBlock ==
  /\ Analysing /\ Top.kind \in {"block", "lambda"}
  /\ Close(CloseMerging(Top.inited))

\* Conditional: the condition has been read; the path takes one branch.
OpenThen(taken) ==
  "if" \in Constructs /\ Open("then", Top.live /\ taken, Top.live /\ ~taken, NoName)
CloseThen == Analysing /\ Top.kind = "then" /\ Close(CloseMerging({}))

OpenElse ==
  /\ Analysing /\ Top.kind = "then"
  /\ Close(<<[Frame("else", Top.other, FALSE, NoName) EXCEPT !.before = Top.inited]>>
           \o Tail(frames))
\* Mutant: what either branch initialised is handed on.
CloseElseUnion ==
  /\ Analysing /\ Top.kind = "else"
  /\ Close(CloseMerging(Top.before \cup Top.inited))
CloseElse ==
  /\ Analysing /\ Top.kind = "else"
  /\ Close(CloseMerging(Top.before \cap Top.inited))

\* WhileLoop, ForLoop and the cases of a Switch: visited once, as if they might
\* not run.  Iteration variables and case arguments are unknown to the analysis.
OpenScope(kind, taken, binding) ==
  "scope" \in Constructs /\ Open(kind, Top.live /\ taken, FALSE, binding)
CloseScope == Analysing /\ Top.kind \in {"loop", "scope"} /\ Close(CloseMerging({}))

\* TryCatch: the handler runs if the try block was left by an exception.
OpenTry == "try" \in Constructs /\ Open("try", Top.live, FALSE, NoName)
OpenCatch(binding) ==
  /\ Analysing /\ Top.kind = "try"
  /\ Close(<<Frame("catch", Top.other, FALSE, binding)>> \o Tail(frames))
\* Mutant: a handler hands on what it initialised.
CloseCatchMerging == Analysing /\ Top.kind = "catch" /\ Close(CloseMerging(Top.inited))
CloseCatch == Analysing /\ Top.kind = "catch" /\ Close(CloseMerging({}))

\* LambdaFunction: the arguments go to the current scope (insert keeps what is
\* there) and the body is a Block; the path may call the lambda at once or not.
OpenLambda(arg, called) ==
  /\ Analysing /\ "lambda" \in Constructs /\ Len(frames) > 1 /\ Len(frames) < MaxDepth
  /\ frames' = <<Frame("lambda", Top.live /\ called, FALSE, arg)>> \o
       [frames EXCEPT ![1].scope =
          [x \in Name |-> IF x = arg /\ @[x] = "none" THEN "yes" ELSE @[x]]]
  /\ holes' = IF arg \in Var /\ Visible(arg) THEN holes \cup {"lambda"} ELSE holes
  /\ UNCHANGED <<verdict, bad>>

-----------------------------------------------------------------------------
(* Jumps: LoopFlow, Return, Raise and calls that throw do not change the     *)
(* analysis; the path leaves the frames up to the target.                    *)

Kill(k) == [i \in DOMAIN frames |-> IF i <= k THEN [frames[i] EXCEPT !.live = FALSE] ELSE frames[i]]
Nearest(kinds) == {i \in DOMAIN frames : frames[i].kind \in kinds}

Jumps == Analysing /\ "jump" \in Constructs /\ Len(frames) > 1 /\ Top.live

LoopFlow ==
  /\ Jumps /\ Nearest({"loop", "lambda"}) # {}
  /\ LET k == Min(Nearest({"loop", "lambda"})) IN
       frames[k].kind = "loop" /\ frames' = Kill(k)
  /\ UNCHANGED <<verdict, bad, holes>>

Raise ==
  /\ Jumps
  /\ frames' = IF Nearest({"try"}) = {} THEN Kill(Len(frames))
               ELSE LET k == Min(Nearest({"try"})) IN [Kill(k) EXCEPT ![k].other = TRUE]
  /\ UNCHANGED <<verdict, bad, holes>>

Return ==
  /\ Jumps
  /\ IF InLambda
     THEN frames' = Kill(Min(Nearest({"lambda"}))) /\ bad' = bad
     ELSE /\ frames' = Kill(Len(frames))
          /\ bad' = bad \cup UNION {Witness("exit", f) : f \in Field}
  /\ UNCHANGED <<verdict, holes>>

Next ==
  \/ FunctionEnds
  \/ \E x \in Var, init \in {"no", "yes"} : VariableDecl(x, init)
  \/ \E x \in Name, runs \in BOOLEAN : Read(x, runs)
  \/ \E x \in Var : CalleeRead(x)
  \/ \E x \in Var, r \in Name \cup {NoName}, runs \in BOOLEAN : Assign(x, r, runs)
  \/ \E f \in Field, r \in Name \cup {NoName}, runs \in BOOLEAN : AssignField(f, r, runs)
  \/ OpenBlock \/ CloseBlock
  \/ \E taken \in BOOLEAN : OpenThen(taken)
  \/ CloseThen \/ OpenElse \/ CloseElse
  \/ \E kind \in {"loop", "scope"}, taken \in BOOLEAN, b \in Var \cup {NoName} : OpenScope(kind, taken, b)
  \/ CloseScope
  \/ OpenTry \/ CloseCatch \/ \E b \in Var \cup {NoName} : OpenCatch(b)
  \/ \E a \in Var \cup {NoName}, called \in BOOLEAN : OpenLambda(a, called)
  \/ LoopFlow \/ Raise \/ Return

Spec == Init /\ [][Next]_vars

-----------------------------------------------------------------------------
(* Properties *)

\* A read that the analysis visits and lets through finds a value on every
\* path, but for a field that the right-hand side of its own assignment reads
\* (the kind "own", see AssignField): the marks of Block and Conditional survive
\* loops, handlers, jumps and merges only where every path has assigned.  It is
\* so until the function shadows a variable, assigns in a lambda, or skips an
\* assignment in the right operand of && or ||.
VisitedReadsAssigned == verdict # "rejected" /\ "read" \in bad => holes # {}

\* A constructor that is accepted and runs to its end has given every field a
\* value, unless one was assigned inside a lambda or in a skipped operand.
FieldsAssigned ==
  verdict = "accepted" /\ "field" \in bad => holes \cap {"lambda", "operand"} # {}

\* DefinitveAssigment.h: "Definite assignment analysis determines whether a
\* variable has been definitely assigned a value before it is used in the
\* program": an accepted function has no unassigned read and no path on which
\* its constructor leaves a field without a value.
DefinitelyAssigned == verdict = "accepted" => bad = {}
=============================================================================
