------------------------ MODULE OverloadResolution ------------------------
(* Transformer::getBestFittingFunction: which declaration a call, or a name  *)
(* used as a value, refers to.  The first loop keeps the overloads whose     *)
(* number of parameters fits and deduces their generics, the second ranks    *)
(* them, then one is chosen.  A declaration is a record                      *)
(*   params    a sequence of [type, default]: a member of Type or one of the *)
(*             patterns T, &T and *T over the declaration's generic          *)
(*   generic   it declares T (one generic stands for several)                *)
(*   fallback  T has a default type                                          *)
(*   variadic  it takes further arguments                                    *)
(* Mutability, interfaces and classes are left out of the types, and no      *)
(* pointer or reference points to another.                                   *)
EXTENDS Integers, Sequences, FiniteSets, FiniteSetsExt, SequencesExt

CONSTANTS
  Type,           \* the types of arguments
  Kind,           \* Kind[t]: the class of types::Type that t belongs to
  Pointee,        \* Pointee[t]: what a ReferenceType or PointerType points to
  Declarations,   \* the functions of one name a program may declare
  MaxOverloads,   \* bound on how many of them are declared
  MaxArguments    \* bound on the arguments of the call

Patterns == {"T", "&T", "*T"}
Kinds == {"int", "float", "void", "class", "ref", "ptr"}

ASSUME TypeAssumption ==
  /\ Type \cap Patterns = {} /\ Kind \in [Type -> Kinds]
  /\ Pointee \in [Type -> Type]
ASSUME DeclarationsAssumption ==
  \A f \in Declarations :
    /\ f.generic \in BOOLEAN /\ f.fallback \in BOOLEAN /\ f.variadic \in BOOLEAN
    /\ f.params \in Seq([type : IF f.generic THEN Type \cup Patterns ELSE Type,
                         default : BOOLEAN])
ASSUME BoundsAssumption == MaxOverloads \in Nat /\ MaxArguments \in Nat

VARIABLES
  call,         \* the overloads, newest first, and what the call gives
  loop,         \* "deduce", "rank", "choose" or "done"
  at,           \* how many elements the running loop has seen
  functions,    \* positions in call.overloads, as are the members of matched
  importances,  \* of functions
  matched,      \* matchedFunctions
  perception,   \* matchedFunctionsPerception
  generics,     \* i, genericIndex and genericCount of the second loop
  exact,        \* bestFunction, 0 if there is no exact one
  result        \* [response, fn]
vars == <<call, loop, at, functions, importances, matched, perception, generics, exact, result>>

Overload(k) == call.overloads[k]
Params(k) == Overload(k).params
Pending == [response |-> "pending", fn |-> 0]

-----------------------------------------------------------------------------
(* canCast.  None of the types is mutable. *)

Numeric(t) == Kind[t] \in {"int", "float"}
Pointing(k, t) == Kind[t] = k

\* Type::canCast: numbers of any width, and pointers or references to numbers.
TypeCanCast(from, to) ==
  \/ Numeric(from) /\ Numeric(to)
  \/ \E k \in {"ref", "ptr"} :
       Pointing(k, from) /\ Pointing(k, to) /\ Numeric(Pointee[from]) /\ Numeric(Pointee[to])

canCast(from, to) ==
  CASE Pointing("ref", from) /\ Pointee[from] = to                    -> "AutoDeref"
    [] Pointing("ref", to) /\ Pointee[to] = from                      -> "AutoRef"
    [] Pointing("ptr", from) /\ Pointing("ptr", to)
         /\ "void" \in {Kind[Pointee[from]], Kind[Pointee[to]]}       -> "Valid"
    [] Pointing("ptr", to) /\ Pointee[to] = from                      -> "ToPointer"
    [] TypeCanCast(from, to)                                          -> "Valid"
    [] OTHER                                                          -> "NoCast"

castPriority(c) ==
  CASE c \in {"AutoDeref", "ToPointer"} -> 2
    [] c = "Valid"                      -> 3
    [] c = "AutoRef"                    -> 4

-----------------------------------------------------------------------------
(* The first loop *)

\* Func::argumentSizesEqual: defaults are counted from the first parameter
\* without an argument up to the first that has none.
argumentSizesEqual(k) ==
  LET n == Len(Params(k))
      m == Len(call.arguments)
  IN \/ n = m
     \/ n > m /\ \A i \in (m + 1)..n : Params(k)[i].default
     \/ n < m /\ Overload(k).variadic

Sized(k) == argumentSizesEqual(k) \/ call.isIdentifier

\* Parameters whose type mentions the generic (genericMatch).
Mentions(k) == {i \in DOMAIN Params(k) : Params(k)[i].type \in Patterns}

\* matchedGeneric: T is more important where it is matched below a reference.
matchedImportance(pattern, argument) ==
  IF \/ pattern = "&T" /\ Pointing("ref", argument)
     \/ pattern = "*T" /\ Pointing("ptr", argument)
  THEN 3 ELSE 1

\* deduceFunction: the importance, or why there is none.  "out_of_range" is the
\* exception of arguments.at for a parameter the call gives no argument.
deduceFunction(k) ==
  CASE ~Overload(k).generic                        -> [outcome |-> "deduced", importance |-> 0]
    [] Overload(k).generic /\ call.explicit        -> [outcome |-> "deduced", importance |-> 1]
    [] Overload(k).generic /\ ~call.explicit /\ Mentions(k) # {} ->
         LET i == Min(Mentions(k)) IN
         IF i > Len(call.arguments) THEN [outcome |-> "out_of_range", importance |-> -1]
         ELSE [outcome |-> "deduced",
               importance |-> matchedImportance(Params(k)[i].type, call.arguments[i])]
    [] OTHER ->
         IF Overload(k).fallback THEN [outcome |-> "deduced", importance |-> 0]
         ELSE [outcome |-> "error", importance |-> -1]

\* Any sized overload whose generic cannot be deduced ends the compilation.
Deduce ==
  /\ loop = "deduce" /\ at < Len(call.overloads)
  /\ LET k == at + 1
         d == deduceFunction(k)
     IN \/ ~Sized(k) /\ at' = k /\ UNCHANGED <<loop, functions, importances, result>>
        \/ /\ Sized(k) /\ d.outcome = "deduced"
           /\ at' = k
           /\ functions' = Append(functions, k)
           /\ importances' = Append(importances, d.importance)
           /\ UNCHANGED <<loop, result>>
        \/ /\ Sized(k) /\ d.outcome # "deduced"
           /\ loop' = "done" /\ result' = [response |-> d.outcome, fn |-> 0]
           /\ UNCHANGED <<at, functions, importances>>
  /\ UNCHANGED <<call, matched, perception, generics, exact>>

EndDeduce ==
  /\ loop = "deduce" /\ at = Len(call.overloads)
  /\ loop' = "rank" /\ at' = 0
  /\ UNCHANGED <<call, functions, importances, matched, perception, generics, exact, result>>

-----------------------------------------------------------------------------
(* The second loop *)

Skipped(k, i) ==
  /\ Params(k)[i].default \/ call.isIdentifier
  /\ Len(call.arguments) < Len(Params(k))
Equal(k, i) == IF Skipped(k, i) THEN TRUE ELSE call.arguments[i] = Params(k)[i].type
Castable(k, i) == canCast(call.arguments[i], Params(k)[i].type) # "NoCast"

\* Mutant: casts are not tried.
argsEqualUncast(k) == \A i \in DOMAIN Params(k) : Equal(k, i)
argsEqual(k) == \A i \in DOMAIN Params(k) : ~Equal(k, i) => Castable(k, i)
argsNeedCasting(k) == \E i \in DOMAIN Params(k) : ~Equal(k, i)

\* succeededArgs after the first i parameters.
succeededArgs(k) ==
  LET s[i \in 0..Len(Params(k))] ==
        CASE i = 0                 -> 0
          [] i # 0 /\ Equal(k, i)  -> s[i - 1]
          [] OTHER -> (s[i - 1] + 1) * (castPriority(canCast(call.arguments[i], Params(k)[i].type)) + 1)
  IN s[Len(Params(k))]

\* Mutant: genericCount is never written.
RankGenericForgets ==
  /\ loop = "rank" /\ at < Len(functions) /\ Overload(functions[at + 1]).generic
  /\ at' = at + 1
  /\ matched' = Append(matched, functions[at + 1])
  /\ generics' = IF importances[generics.i + 1] > generics.count
                 THEN [generics EXCEPT !.i = @ + 1, !.index = generics.i]
                 ELSE [generics EXCEPT !.i = @ + 1]
  /\ UNCHANGED <<call, loop, functions, importances, perception, exact, result>>

\* Mutant: i runs over all functions, as the index of importances should.
RankGenericByPosition ==
  /\ loop = "rank" /\ at < Len(functions) /\ Overload(functions[at + 1]).generic
  /\ at' = at + 1
  /\ matched' = Append(matched, functions[at + 1])
  /\ generics' = IF importances[at + 1] > generics.count
                 THEN [i |-> generics.i + 1, index |-> at, count |-> importances[at + 1]]
                 ELSE [generics EXCEPT !.i = @ + 1]
  /\ UNCHANGED <<call, loop, functions, importances, perception, exact, result>>

\* A generic function is accepted as it is.  generics.i counts generic
\* functions only, but it indexes importances and becomes an index of matched.
RankGeneric ==
  /\ loop = "rank" /\ at < Len(functions) /\ Overload(functions[at + 1]).generic
  /\ at' = at + 1
  /\ matched' = Append(matched, functions[at + 1])
  /\ LET i == generics.i
         importance == importances[i + 1]
     IN generics' = IF importance > generics.count
                    THEN [i |-> i + 1, index |-> i, count |-> importance]
                    ELSE [generics EXCEPT !.i = i + 1]
  /\ UNCHANGED <<call, loop, functions, importances, perception, exact, result>>

RankConcrete ==
  /\ loop = "rank" /\ at < Len(functions) /\ ~Overload(functions[at + 1]).generic
  /\ at' = at + 1
  /\ LET k == functions[at + 1] IN
       \/ ~argsEqual(k) /\ UNCHANGED <<matched, perception, exact>>
       \/ argsEqual(k) /\ ~argsNeedCasting(k) /\ exact' = k /\ UNCHANGED <<matched, perception>>
       \/ /\ argsEqual(k) /\ argsNeedCasting(k)
          /\ matched' = Append(matched, k)
          /\ perception' = Append(perception, succeededArgs(k))
          /\ UNCHANGED exact
  /\ UNCHANGED <<call, loop, functions, importances, generics, result>>

EndRank ==
  /\ loop = "rank" /\ at = Len(functions)
  /\ loop' = "choose"
  /\ UNCHANGED <<call, at, functions, importances, matched, perception, generics, exact, result>>

-----------------------------------------------------------------------------
(* The choice *)

Finish(response, k) ==
  /\ loop' = "done" /\ result' = [response |-> response, fn |-> k]
  /\ UNCHANGED <<call, at, functions, importances, matched, perception, generics, exact>>

\* The first of the largest scores, if any is positive.
MaxIndex ==
  {i \in DOMAIN perception :
     /\ perception[i] > 0
     /\ \A j \in DOMAIN perception : perception[j] <= perception[i]
     /\ \A j \in 1..(i - 1) : perception[j] < perception[i]}
AllSame == \A i, j \in DOMAIN perception : perception[i] = perception[j]
\* Mutant: an exact match is not asked for.
NeedsScoresAnyway == Len(matched) > 1 /\ generics.index = -1
NeedsScores == Len(matched) > 1 /\ exact = 0 /\ generics.index = -1

ChooseExact == loop = "choose" /\ exact # 0 /\ Finish("Ok", exact)
\* Mutant: several candidates are ambiguous, whatever their scores.
ChooseScoredNever == loop = "choose" /\ NeedsScores /\ Finish("AmbiguityConflict", 0)
ChooseScored ==
  /\ loop = "choose" /\ NeedsScores
  /\ IF MaxIndex # {} /\ ~AllSame
     THEN \E i \in MaxIndex : Finish("Ok", matched[i])
     ELSE Finish("AmbiguityConflict", 0)
ChooseGeneric ==
  /\ loop = "choose" /\ ~NeedsScores /\ exact = 0 /\ generics.index # -1
  /\ Finish("Ok", matched[generics.index + 1])
ChooseOnly ==
  /\ loop = "choose" /\ exact = 0 /\ generics.index = -1 /\ Len(matched) <= 1
  /\ IF Len(matched) = 1 THEN Finish("Ok", matched[1]) ELSE Finish("NoMatchesFound", 0)

-----------------------------------------------------------------------------
(* Who calls: a FunctionCall gives arguments and perhaps generics; an Index  *)
(* naming a function gives nothing and refuses several overloads; a          *)
(* GenericIdentifier gives generics only.                                    *)
Calls ==
  {c \in [overloads : SeqOf(Declarations, MaxOverloads), arguments : SeqOf(Type, MaxArguments),
          explicit : BOOLEAN, isIdentifier : BOOLEAN] :
     /\ \A k, l \in DOMAIN c.overloads : c.overloads[k] = c.overloads[l] => k = l
     /\ c.isIdentifier => c.arguments = <<>> /\ (c.explicit \/ Len(c.overloads) <= 1)}

Init ==
  /\ call \in Calls
  /\ loop = "deduce" /\ at = 0
  /\ functions = <<>> /\ importances = <<>>
  /\ matched = <<>> /\ perception = <<>>
  /\ generics = [i |-> 0, index |-> -1, count |-> -1]
  /\ exact = 0 /\ result = Pending

Next ==
  \/ Deduce \/ EndDeduce
  \/ RankGeneric \/ RankConcrete \/ EndRank
  \/ ChooseExact \/ ChooseScored \/ ChooseGeneric \/ ChooseOnly

Spec == Init /\ [][Next]_vars

-----------------------------------------------------------------------------
(* Properties *)

Positions == DOMAIN call.overloads

\* The types of the two loops' variables (scores and importances are left to
\* the definitions that compute them).
TypeOK ==
  /\ loop \in {"deduce", "rank", "choose", "done"} /\ at \in Nat
  /\ functions \in Seq(Positions) /\ matched \in Seq(Positions)
  /\ generics.i \in Nat /\ generics.index \in Nat \cup {-1}
  /\ exact \in Positions \cup {0}
  /\ result.fn \in Positions \cup {0}

\* No vector is read behind its end: importances.at(i) for the next generic
\* function, matchedFunctions.at(genericIndex), and matchedFunctions.at(maxIndex)
\* though maxIndex is an index of matchedFunctionsPerception.
IndicesValid ==
  /\ loop = "rank" /\ at < Len(functions) => generics.i < Len(importances)
  /\ generics.index < Len(matched)
  /\ generics.index = -1 => Len(matched) = Len(perception)

\* What the loops accept, whatever their order: of a generic function that its
\* generic can be deduced, of another that every parameter not skipped takes its
\* argument.  When a default is used, all parameters with a default are skipped,
\* also those that the call does give an argument.
Fits(k) ==
  IF Overload(k).generic THEN deduceFunction(k).outcome = "deduced"
  ELSE \A i \in DOMAIN Params(k) :
         \/ Skipped(k, i)
         \/ call.arguments[i] = Params(k)[i].type
         \/ canCast(call.arguments[i], Params(k)[i].type) # "NoCast"
Viable(k) == Sized(k) /\ Fits(k)
Exact(k) == Viable(k) /\ ~Overload(k).generic /\ ~argsNeedCasting(k)

\* What a call asks of a declaration: each argument that a parameter is given is
\* of its type, or casts to it.
Given(k) == DOMAIN Params(k) \cap DOMAIN call.arguments
IsTaken(k, i) ==
  call.arguments[i] = Params(k)[i].type \/ canCast(call.arguments[i], Params(k)[i].type) # "NoCast"
TakesCall(k) == Sized(k) /\ ~Overload(k).generic /\ \A i \in Given(k) : IsTaken(k, i)

\* The arguments of which the loops never ask it: all those of a generic function,
\* and those given to a parameter with a default while another default is used.
Unchecked(k) ==
  {i \in Given(k) :
     Overload(k).generic \/ (Params(k)[i].default /\ Len(call.arguments) < Len(Params(k)))}

\* What is found takes as many arguments and each one that is checked, and has a
\* type for its generic; when nothing is found, no overload takes the call and
\* none has a generic that could be deduced.
ResolvesCandidates ==
  /\ result.response = "Ok" =>
       /\ result.fn \in Positions /\ Sized(result.fn)
       /\ deduceFunction(result.fn).outcome = "deduced"
       /\ \A i \in Given(result.fn) \ Unchecked(result.fn) : IsTaken(result.fn, i)
  /\ result.response = "NoMatchesFound" =>
       \A k \in Positions :
         /\ ~TakesCall(k)
         /\ ~(Sized(k) /\ Overload(k).generic /\ deduceFunction(k).outcome = "deduced")

\* A function that the loops find to take the arguments as they are wins over
\* generic functions and over casts, in whichever order they were declared,
\* unless the generic of another overload cannot be deduced.
ExactWins ==
  /\ result.response \in {"Ok", "AmbiguityConflict", "NoMatchesFound"}
  /\ \E k \in Positions : Exact(k)
  => result.response = "Ok" /\ Exact(result.fn)

\* A call is reported as ambiguous only if the loops accept two or more, none
\* generic, none exact, and nothing separates their scores.
AmbiguityTies ==
  result.response = "AmbiguityConflict" =>
    LET C == {k \in Positions : Viable(k)} IN
      /\ Cardinality(C) > 1
      /\ \A k \in C : ~Overload(k).generic /\ ~Exact(k)
      /\ \A k, l \in C : succeededArgs(k) = succeededArgs(l)

\* Where no overload without generics gets past the first loop, the generic
\* function chosen is one of the most important ones.
PureGenericsBest ==
  /\ result.response = "Ok" /\ \A k \in Positions : Sized(k) => Overload(k).generic
  => \A k \in Positions : Viable(k) =>
       deduceFunction(k).importance <= deduceFunction(result.fn).importance
=============================================================================
