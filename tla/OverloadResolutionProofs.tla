---------------------- MODULE OverloadResolutionProofs ----------------------
(***************************************************************************)
(* OverloadResolution, proved for every set of types, every family of      *)
(* declarations and every call: the loops never index behind a vector,     *)
(* what they find takes the arguments they check, nothing that takes the   *)
(* call is overlooked, and what they find exact wins.                      *)
(***************************************************************************)
EXTENDS OverloadResolution, FiniteSetTheorems, WellFoundedInduction, TLAPS

\* The overloads the first loop keeps.
Deducible(k) == Sized(k) /\ deduceFunction(k).outcome = "deduced"

CallTyped ==
  /\ call.overloads \in Seq(Declarations) /\ call.arguments \in Seq(Type)
  /\ call.isIdentifier => call.arguments = <<>>

\* How far each loop is.
Progress ==
  /\ loop = "deduce" => at <= Len(call.overloads) /\ matched = <<>> /\ perception = <<>>
                        /\ generics.i = 0 /\ exact = 0
  /\ loop = "rank" => at <= Len(functions) /\ generics.i <= at
  /\ loop # "done" => result = Pending

\* functions holds the deducible overloads seen so far, importances their importances.
Kept ==
  /\ importances \in Seq(Nat) /\ Len(importances) = Len(functions)
  /\ loop = "deduce" => \A k \in 1..at : Deducible(k) => \E j \in DOMAIN functions : functions[j] = k
  /\ loop \in {"rank", "choose"} =>
       \A k \in Positions : Deducible(k) => \E j \in DOMAIN functions : functions[j] = k

\* perception is a sequence (of whatever succeededArgs returns).
IsSequence == perception \in Seq({perception[i] : i \in DOMAIN perception})

\* generics.i numbers the generic functions of matched.
Counted ==
  /\ generics.index < generics.i
  /\ generics.index = -1 => generics.i = 0 /\ generics.count = -1
  /\ Len(matched) = Len(perception) + generics.i

\* The functions the second loop has ranked.
Seen == IF loop = "rank" THEN 1..at ELSE IF loop = "choose" THEN DOMAIN functions ELSE {}

Ranked ==
  /\ \A j \in Seen : Exact(functions[j]) => exact # 0
  /\ \A j \in Seen : Viable(functions[j]) =>
       exact # 0 \/ \E m \in DOMAIN matched : matched[m] = functions[j]
  /\ \A m \in DOMAIN matched : Viable(matched[m])
  /\ exact # 0 => Exact(exact)
  /\ \A j \in DOMAIN functions : Deducible(functions[j])

\* What is found is accepted by the loops, and when nothing is found nothing is.
Resolved ==
  /\ result.response = "Ok" => result.fn \in Positions /\ Viable(result.fn)
  /\ result.response = "NoMatchesFound" => \A k \in Positions : ~Viable(k)

IInv ==
  /\ TypeOK /\ CallTyped /\ Progress /\ Kept /\ IsSequence /\ Counted /\ Ranked
  /\ Resolved /\ ExactWins

-----------------------------------------------------------------------------

\* Whether an overload is generic, or a fallback, is known.
LEMMA DeclarationType ==
  ASSUME CallTyped, NEW k \in Positions
  PROVE  /\ Overload(k).generic \in BOOLEAN
         /\ Overload(k).fallback \in BOOLEAN
<1>1. Overload(k) \in Declarations
  BY DEF CallTyped, Positions, Overload
<1> QED
  BY <1>1, DeclarationsAssumption

\* The importance of a deduced generic is never negative.
LEMMA ImportanceType ==
  ASSUME NEW k, deduceFunction(k).outcome = "deduced"
  PROVE  deduceFunction(k).importance \in Nat
<1> DEFINE i == Min(Mentions(k))
           p == Params(k)[i].type
           a == call.arguments[i]
<1>1. matchedImportance(p, a) \in Nat
  BY DEF matchedImportance
<1> HIDE DEF i, p, a
<1>2. CASE ~Overload(k).generic
  BY <1>2 DEF deduceFunction
<1>3. CASE Overload(k).generic /\ call.explicit
  BY <1>3 DEF deduceFunction
<1>4. CASE Overload(k).generic /\ ~call.explicit /\ Mentions(k) # {}
  <2>1. deduceFunction(k) =
          IF i > Len(call.arguments) THEN [outcome |-> "out_of_range", importance |-> -1]
          ELSE [outcome |-> "deduced", importance |-> matchedImportance(p, a)]
    BY <1>4 DEF deduceFunction, i, p, a
  <2> QED
    BY <1>1, <2>1
<1>5. CASE Overload(k).generic /\ ~call.explicit /\ Mentions(k) = {}
  BY <1>5 DEF deduceFunction
<1> QED
  BY <1>2, <1>3, <1>4, <1>5

\* The call does not change, and with it nothing that is said of its overloads.
LEMMA CallSame ==
  ASSUME call' = call
  PROVE  /\ Positions' = Positions /\ CallTyped' = CallTyped
         /\ \A k : /\ Overload(k)' = Overload(k)
                   /\ Viable(k)' <=> Viable(k)
                   /\ Exact(k)' <=> Exact(k)
                   /\ Deducible(k)' <=> Deducible(k)
<1>1. \A k : Overload(k)' = Overload(k) /\ Params(k)' = Params(k)
  BY DEF Overload, Params
<1>2. \A k : Sized(k)' <=> Sized(k)
  BY <1>1 DEF Sized, argumentSizesEqual
<1>3. \A k : deduceFunction(k)' = deduceFunction(k)
  BY <1>1 DEF deduceFunction, Mentions
<1>4. \A k : Fits(k)' <=> Fits(k)
  BY <1>1, <1>3 DEF Fits, Skipped
<1>5. \A k : argsNeedCasting(k)' <=> argsNeedCasting(k)
  BY <1>1 DEF argsNeedCasting, Equal, Skipped
<1> QED
  BY <1>1, <1>2, <1>3, <1>4, <1>5 DEF Positions, CallTyped, Viable, Exact, Deducible

\* argsEqual is what Fits says of a function without generics.
LEMMA FitsConcrete ==
  ASSUME NEW k, ~Overload(k).generic
  PROVE  argsEqual(k) <=> Fits(k)
BY DEF argsEqual, Fits, Equal, Castable

\* What fits the arguments has had its generics deduced.
LEMMA ViableDeducible ==
  ASSUME NEW k, Viable(k)
  PROVE  Deducible(k)
<1>1. CASE Overload(k).generic
  BY <1>1 DEF Viable, Deducible, Fits
<1>2. CASE ~Overload(k).generic
  BY <1>2 DEF Viable, Deducible, deduceFunction
<1> QED
  BY <1>1, <1>2

\* Before the first overload nothing is collected.
LEMMA InitInv == Init => IInv
<1> SUFFICES ASSUME Init PROVE IInv
  OBVIOUS
<1>1. /\ call.overloads \in SeqOf(Declarations, MaxOverloads) /\ call.arguments \in SeqOf(Type, MaxArguments)
      /\ call.isIdentifier => call.arguments = <<>>
  BY DEF Init, Calls
<1>2. CallTyped
  BY <1>1 DEF CallTyped, SeqOf
<1>3. TypeOK
  BY DEF Init, TypeOK, Pending
<1>4. Progress
  BY <1>2 DEF Init, Progress, CallTyped
<1>5. Kept /\ Counted /\ Ranked
  BY DEF Init, Kept, Counted, Ranked, Seen
<1>6. IsSequence
  BY DEF Init, IsSequence
<1> QED
  BY <1>2, <1>3, <1>4, <1>5, <1>6 DEF IInv, Init, Resolved, ExactWins, Pending

\* A step that chooses needs only to say what it has chosen.
LEMMA FinishInv ==
  ASSUME IInv, loop = "choose", NEW r, NEW k \in Positions \cup {0}, Finish(r, k),
         r = "Ok" => k \in Positions /\ Viable(k),
         r = "NoMatchesFound" => \A l \in Positions : ~Viable(l),
         exact # 0 => r = "Ok" /\ k = exact
  PROVE  IInv'
<1>1. call' = call /\ loop' = "done" /\ result' = [response |-> r, fn |-> k]
  BY DEF Finish
<1>2. \A l \in Positions : Exact(l) => exact # 0
  <2> SUFFICES ASSUME NEW l \in Positions, Exact(l) PROVE exact # 0
    OBVIOUS
  <2>1. PICK j \in DOMAIN functions : functions[j] = l
    BY ViableDeducible DEF Exact, IInv, Kept
  <2> QED
    BY <2>1 DEF IInv, Ranked, Seen
<1>3. TypeOK'
  BY CallSame, <1>1 DEF IInv, TypeOK, Finish
<1>4. Progress' /\ Kept' /\ Counted' /\ Ranked'
  BY CallSame, <1>1 DEF IInv, Progress, Kept, Counted, Ranked, Seen, Finish, TypeOK
<1>7. IsSequence'
  BY DEF IInv, IsSequence, Finish
<1>5. Resolved'
  BY CallSame, <1>1 DEF Resolved
<1>6. ExactWins'
  BY CallSame, <1>1, <1>2 DEF ExactWins, IInv, Ranked
<1> QED
  BY CallSame, <1>1, <1>3, <1>4, <1>5, <1>6, <1>7 DEF IInv

\* One function k more is ranked: the exact one and matched only grow, and hold
\* k if they must.
LEMMA RankedStep ==
  ASSUME Ranked, call' = call, loop = "rank", loop' = "rank", functions' = functions,
         at \in Nat, at' = at + 1, at + 1 \in DOMAIN functions, DOMAIN functions = 1..Len(functions),
         \A m \in DOMAIN matched : m \in DOMAIN matched' /\ matched'[m] = matched[m],
         \A m \in DOMAIN matched' : m \in DOMAIN matched \/ (matched'[m] = functions[at + 1] /\ Viable(functions[at + 1])),
         exact' = exact \/ (exact' = functions[at + 1] /\ exact' # 0 /\ Exact(functions[at + 1])),
         Exact(functions[at + 1]) => exact' # 0,
         Viable(functions[at + 1]) => exact' # 0 \/ \E m \in DOMAIN matched' : matched'[m] = functions[at + 1]
  PROVE  Ranked'
<1>1. Seen' = Seen \cup {at + 1}
  BY DEF Seen
<1>2. \A j \in Seen' : Exact(functions[j]) => exact' # 0
  BY <1>1 DEF Ranked
<1>3. \A j \in Seen' : Viable(functions[j]) =>
        exact' # 0 \/ \E m \in DOMAIN matched' : matched'[m] = functions[j]
  BY <1>1 DEF Ranked
<1>4. (\A m \in DOMAIN matched' : Viable(matched'[m])) /\ (exact' # 0 => Exact(exact'))
  BY DEF Ranked
<1> QED
  BY CallSame, <1>2, <1>3, <1>4 DEF Ranked

\* Every step of the loops keeps what they have collected.
LEMMA NextInv == IInv /\ [Next]_vars => IInv'
<1> SUFFICES ASSUME IInv, [Next]_vars PROVE IInv'
  OBVIOUS
<1>0. /\ functions \in Seq(Positions) /\ matched \in Seq(Positions)
      /\ importances \in Seq(Nat) /\ Len(importances) = Len(functions)
      /\ at \in Nat /\ generics.i \in Nat /\ generics.index \in Nat \cup {-1}
      /\ Positions = 1..Len(call.overloads) /\ Len(call.overloads) \in Nat
      /\ Len(perception) \in Nat /\ Len(matched) \in Nat /\ Len(functions) \in Nat
  BY DEF IInv, TypeOK, Kept, Positions, CallTyped, IsSequence
<1>dom. /\ DOMAIN matched = 1..Len(matched) /\ DOMAIN functions = 1..Len(functions)
        /\ DOMAIN importances = 1..Len(importances)
  BY <1>0
<1>00. ASSUME perception' = perception PROVE IsSequence'
  BY <1>00 DEF IInv, IsSequence
<1>1. CASE Deduce
  <2> DEFINE k == at + 1
  <2>1. k \in Positions /\ call' = call
    BY <1>0, <1>1 DEF Deduce
  <2>2. CASE ~Sized(k) /\ at' = k /\ UNCHANGED <<loop, functions, importances, result>>
    <3>1. TypeOK' /\ Progress'
      BY CallSame, <1>0, <1>1, <2>1, <2>2 DEF Deduce, IInv, TypeOK, Progress, Pending
    <3>4. ~Deducible(k)
      BY <2>2 DEF Deducible
    <3>5. \A l \in 1..at' : Deducible(l) => \E j \in DOMAIN functions : functions[j] = l
      <4>1. \A l \in 1..at' : l \in 1..at \/ l = k
        BY <1>0, <2>2
      <4> QED
        BY <1>1, <3>4, <4>1 DEF Deduce, IInv, Kept
    <3>2. Kept'
      BY CallSame, <1>0, <1>1, <2>1, <2>2, <3>5 DEF Deduce, IInv, Kept
    <3>3. Counted' /\ Ranked'
      BY CallSame, <1>0, <1>1, <2>1, <2>2 DEF Deduce, IInv, Counted, Ranked, Seen
    <3> QED
      BY CallSame, <1>00, <1>1, <2>1, <2>2, <3>1, <3>2, <3>3 DEF Deduce, IInv, Resolved, ExactWins
  <2>3. CASE /\ Sized(k) /\ deduceFunction(k).outcome = "deduced"
             /\ at' = k
             /\ functions' = Append(functions, k)
             /\ importances' = Append(importances, deduceFunction(k).importance)
             /\ UNCHANGED <<loop, result>>
    <3>1. functions' \in Seq(Positions) /\ importances' \in Seq(Nat)
      BY <1>0, <2>1, <2>3, ImportanceType
    <3>2. TypeOK' /\ Progress'
      BY CallSame, <1>0, <1>1, <2>1, <2>3, <3>1 DEF Deduce, IInv, TypeOK, Progress, Pending
    <3>3. /\ Len(functions') = Len(functions) + 1 /\ functions'[Len(functions) + 1] = k
          /\ \A j \in DOMAIN functions : j \in DOMAIN functions' /\ functions'[j] = functions[j]
          /\ \A j \in DOMAIN functions' : j \in DOMAIN functions \/ j = Len(functions) + 1
          /\ Len(functions) + 1 \in DOMAIN functions'
      BY <1>0, <2>1, <2>3
    <3>4. Kept'
      <4>1. Len(importances') = Len(functions')
        BY <1>0, <2>3, <3>3
      <4>2. ASSUME NEW l \in 1..at', Deducible(l)
            PROVE  \E j \in DOMAIN functions' : functions'[j] = l
        <5>1. CASE l \in 1..at
          <6>1. PICK j \in DOMAIN functions : functions[j] = l
            BY <1>1, <4>2, <5>1 DEF Deduce, IInv, Kept
          <6> QED
            BY <3>3, <6>1
        <5>2. CASE l = at + 1
          BY <3>3, <5>2
        <5>3. at' = at + 1
          BY <2>3
        <5> QED
          BY <1>0, <5>1, <5>2, <5>3
      <4>3. loop' = "deduce"
        BY <1>1, <2>3 DEF Deduce
      <4> QED
        BY CallSame, <2>1, <3>1, <4>1, <4>2, <4>3 DEF Kept
    <3>5. Counted' /\ Ranked'
      BY CallSame, <1>0, <1>1, <2>1, <2>3, <3>3 DEF Deduce, IInv, Counted, Ranked, Seen, Deducible
    <3> QED
      BY CallSame, <1>00, <1>1, <2>1, <2>3, <3>2, <3>4, <3>5 DEF Deduce, IInv, Resolved, ExactWins
  <2>4. CASE /\ Sized(k) /\ deduceFunction(k).outcome # "deduced"
             /\ loop' = "done" /\ result' = [response |-> deduceFunction(k).outcome, fn |-> 0]
             /\ UNCHANGED <<at, functions, importances>>
    <3>1. deduceFunction(k).outcome \in {"error", "out_of_range"}
      BY <2>4 DEF deduceFunction
    <3>2. TypeOK' /\ Progress' /\ Kept' /\ Counted' /\ Ranked'
      BY CallSame, <1>0, <1>1, <2>1, <2>4 DEF Deduce, IInv, TypeOK, Progress, Kept, Counted, Ranked, Seen
    <3> QED
      BY CallSame, <1>00, <1>1, <2>1, <2>4, <3>1, <3>2 DEF Deduce, IInv, Resolved, ExactWins
  <2> QED
    BY <1>1, <2>2, <2>3, <2>4 DEF Deduce
<1>2. CASE EndDeduce
  <2>1. call' = call /\ at = Len(call.overloads) /\ loop = "deduce" /\ loop' = "rank" /\ at' = 0
    BY <1>2 DEF EndDeduce
  <2>2. TypeOK' /\ Progress' /\ Counted'
    BY CallSame, <1>0, <1>2, <2>1 DEF EndDeduce, IInv, TypeOK, Progress, Counted, Pending
  <2>4. Ranked'
    <3>1. Seen' = {}
      BY <2>1 DEF Seen
    <3> QED
      BY CallSame, <1>2, <2>1, <3>1 DEF EndDeduce, IInv, Ranked
  <2>3. Kept'
    BY CallSame, <1>0, <1>2, <2>1 DEF EndDeduce, IInv, Kept
  <2> QED
    BY CallSame, <1>00, <1>2, <2>1, <2>2, <2>3, <2>4 DEF EndDeduce, IInv, Resolved, ExactWins
<1>3. CASE RankGeneric
  <2> DEFINE k == functions[at + 1]
  <2>1. /\ at + 1 \in DOMAIN functions /\ k \in Positions /\ call' = call /\ at' = at + 1
        /\ loop = "rank" /\ loop' = "rank" /\ Overload(k).generic /\ exact' = exact
        /\ functions' = functions /\ matched' = Append(matched, k)
    BY <1>0, <1>3, SMTT(30) DEF RankGeneric
  <2>2. Viable(k) /\ ~Exact(k)
    BY <2>1 DEF IInv, Ranked, Deducible, Viable, Fits, Exact
  <2>14. at < Len(functions)
    BY <1>3 DEF RankGeneric
  <2>12. generics.i + 1 \in DOMAIN importances
    <3>1. generics.i <= at
      BY <2>1 DEF IInv, Progress
    <3>2. generics.i + 1 \in 1..Len(importances)
      BY <1>0, <2>14, <3>1
    <3> QED
      BY <1>dom, <3>2
  <2>3. importances[generics.i + 1] \in Nat
    BY <1>0, <2>12
  <2>4. /\ Len(matched') = Len(matched) + 1 /\ matched' \in Seq(Positions)
        /\ matched'[Len(matched) + 1] = k /\ Len(matched) + 1 \in DOMAIN matched'
        /\ \A m \in DOMAIN matched : m \in DOMAIN matched' /\ matched'[m] = matched[m]
        /\ \A m \in DOMAIN matched' : m \in DOMAIN matched \/ m = Len(matched) + 1
    BY <1>0, <2>1, SMTT(30)
  <2>5. /\ generics'.i = generics.i + 1
        /\ \/ generics'.index = generics.i
           \/ generics'.index = generics.index /\ generics.index # -1
    <3>1. CASE importances[generics.i + 1] > generics.count
      BY <1>3, <3>1 DEF RankGeneric
    <3>2. CASE ~(importances[generics.i + 1] > generics.count)
      <4>1. generics.index # -1
        BY <2>3, <3>2 DEF IInv, Counted
      <4> QED
        BY <1>3, <3>2, <4>1 DEF RankGeneric
    <3> QED
      BY <3>1, <3>2
  <2>13. Positions' = Positions
    BY CallSame, <2>1
  <2>6. TypeOK'
    <3>1. generics'.i \in Nat /\ generics'.index \in Nat \cup {-1}
      BY <1>0, <2>5
    <3> QED
      BY <1>0, <1>3, <2>1, <2>4, <2>13, <3>1 DEF RankGeneric, IInv, TypeOK
  <2>10. Progress'
    BY CallSame, <1>0, <1>3, <2>1, <2>5 DEF RankGeneric, IInv, Progress, Pending
  <2>11. perception' = perception
    BY <1>3 DEF RankGeneric
  <2>7. Counted'
    <3>1. generics'.index < generics'.i /\ generics'.index # -1
      BY <1>0, <2>5 DEF IInv, Counted
    <3>2. Len(matched') = Len(perception') + generics'.i
      BY <1>0, <2>4, <2>5, <2>11 DEF IInv, Counted
    <3> QED
      BY <3>1, <3>2 DEF Counted
  <2>8. Kept'
    BY CallSame, <1>3, <2>1 DEF RankGeneric, IInv, Kept
  <2>9. Ranked'
    <3>1. Ranked
      BY DEF IInv
    <3> HIDE DEF k
    <3>2. /\ \A m \in DOMAIN matched' : m \in DOMAIN matched \/ (matched'[m] = k /\ Viable(k))
          /\ \E m \in DOMAIN matched' : matched'[m] = k
      BY <2>2, <2>4
    <3> USE DEF k
    <3> QED
      BY RankedStep, <1>0, <1>dom, <2>1, <2>2, <2>4, <3>1, <3>2
  <2> QED
    BY CallSame, <1>3, <2>1, <2>6, <2>7, <2>8, <2>9, <2>10, <2>11, <1>00 DEF RankGeneric, IInv, Resolved, ExactWins
<1>4. CASE RankConcrete
  <2> DEFINE k == functions[at + 1]
  <2>1. /\ at + 1 \in DOMAIN functions /\ k \in Positions /\ call' = call /\ at' = at + 1
        /\ loop = "rank" /\ loop' = "rank" /\ ~Overload(k).generic
        /\ functions' = functions /\ UNCHANGED <<importances, generics, result>>
    BY <1>0, <1>4, SMTT(30) DEF RankConcrete
  <2>2. Viable(k) <=> argsEqual(k)
    BY <2>1, FitsConcrete DEF IInv, Ranked, Deducible, Viable
  <2>3. Exact(k) <=> argsEqual(k) /\ ~argsNeedCasting(k)
    BY <2>1, <2>2 DEF Exact
  <2>4. Kept'
    BY CallSame, <2>1 DEF IInv, Kept
  <2>5. Progress'
    BY CallSame, <1>0, <2>1 DEF IInv, Progress, Pending
  <2>6. CASE ~argsEqual(k) /\ UNCHANGED <<matched, perception, exact>>
    <3>1. TypeOK' /\ Counted'
      BY CallSame, <1>0, <2>1, <2>6 DEF IInv, TypeOK, Counted
    <3>2. Ranked'
      <4>1. Ranked
        BY DEF IInv
      <4>2. /\ \A m \in DOMAIN matched : m \in DOMAIN matched' /\ matched'[m] = matched[m]
            /\ \A m \in DOMAIN matched' : m \in DOMAIN matched \/ (matched'[m] = functions[at + 1] /\ Viable(functions[at + 1]))
        BY <2>6, Zenon
      <4>3. exact' = exact \/ (exact' = functions[at + 1] /\ exact' # 0 /\ Exact(functions[at + 1]))
        BY <1>0, <2>1, <2>3, <2>6
      <4>4. /\ Exact(functions[at + 1]) => exact' # 0
            /\ Viable(functions[at + 1]) => exact' # 0 \/ \E m \in DOMAIN matched' : matched'[m] = functions[at + 1]
        BY <1>0, <2>1, <2>2, <2>3, <2>6
      <4> QED
        BY RankedStep, <1>0, <1>dom, <2>1, <4>1, <4>2, <4>3, <4>4
    <3> QED
      BY CallSame, <1>00, <2>1, <2>4, <2>5, <2>6, <3>1, <3>2 DEF IInv, Resolved, ExactWins
  <2>7. CASE argsEqual(k) /\ ~argsNeedCasting(k) /\ exact' = k /\ UNCHANGED <<matched, perception>>
    <3>1. TypeOK' /\ Counted'
      BY CallSame, <1>0, <2>1, <2>7 DEF IInv, TypeOK, Counted
    <3>2. Ranked'
      <4>1. Ranked
        BY DEF IInv
      <4>2. /\ \A m \in DOMAIN matched : m \in DOMAIN matched' /\ matched'[m] = matched[m]
            /\ \A m \in DOMAIN matched' : m \in DOMAIN matched \/ (matched'[m] = functions[at + 1] /\ Viable(functions[at + 1]))
        BY <2>7, Zenon
      <4>3. exact' = exact \/ (exact' = functions[at + 1] /\ exact' # 0 /\ Exact(functions[at + 1]))
        BY <1>0, <2>1, <2>3, <2>7
      <4>4. /\ Exact(functions[at + 1]) => exact' # 0
            /\ Viable(functions[at + 1]) => exact' # 0 \/ \E m \in DOMAIN matched' : matched'[m] = functions[at + 1]
        BY <1>0, <2>1, <2>2, <2>3, <2>7
      <4> QED
        BY RankedStep, <1>0, <1>dom, <2>1, <4>1, <4>2, <4>3, <4>4
    <3> QED
      BY CallSame, <1>00, <2>1, <2>4, <2>5, <2>7, <3>1, <3>2 DEF IInv, Resolved, ExactWins
  <2>8. CASE /\ argsEqual(k) /\ argsNeedCasting(k)
             /\ matched' = Append(matched, k)
             /\ perception' = Append(perception, succeededArgs(k))
             /\ UNCHANGED exact
    <3>1. /\ Len(matched') = Len(matched) + 1 /\ matched' \in Seq(Positions)
          /\ matched'[Len(matched) + 1] = k /\ Len(matched) + 1 \in DOMAIN matched'
          /\ \A m \in DOMAIN matched : m \in DOMAIN matched' /\ matched'[m] = matched[m]
          /\ \A m \in DOMAIN matched' : m \in DOMAIN matched \/ m = Len(matched) + 1
      <4>1. matched \in Seq(Positions) /\ k \in Positions /\ matched' = Append(matched, k)
        BY <1>0, <2>1, <2>8
      <4> HIDE DEF k
      <4>2. matched' \in Seq(Positions) /\ Len(matched') = Len(matched) + 1 /\ Len(matched) \in Nat
        BY <4>1
      <4>3. DOMAIN matched = 1..Len(matched) /\ DOMAIN matched' = 1..(Len(matched) + 1)
        BY <4>1, <4>2
      <4>4. /\ matched'[Len(matched) + 1] = k
            /\ \A m \in 1..Len(matched) : matched'[m] = matched[m]
        BY <4>1, <4>2
      <4> QED
        BY <4>2, <4>3, <4>4
    <3>2. TypeOK'
      BY CallSame, <1>0, <2>1, <2>8, <3>1 DEF IInv, TypeOK
    <3>3. /\ IsSequence'
          /\ Len(perception') = Len(perception) + 1
      <4> DEFINE S == {perception[i] : i \in DOMAIN perception} \cup {succeededArgs(k)}
      <4>1. perception \in Seq(S)
        BY DEF IInv, IsSequence
      <4>2. perception' \in Seq(S) /\ Len(perception') = Len(perception) + 1
        BY <2>8, <4>1
      <4> QED
        BY <4>2 DEF IsSequence
    <3>4. Counted'
      BY <1>0, <2>1, <2>8, <3>1, <3>3 DEF IInv, Counted
    <3>5. Ranked'
      <4>1. Ranked
        BY DEF IInv
      <4>2. Viable(k) /\ ~Exact(k) /\ exact' = exact
        BY <2>2, <2>3, <2>8
      <4> HIDE DEF k
      <4>3. /\ \A m \in DOMAIN matched' : m \in DOMAIN matched \/ (matched'[m] = k /\ Viable(k))
            /\ \E m \in DOMAIN matched' : matched'[m] = k
        BY <3>1, <4>2
      <4> USE DEF k
      <4> QED
        BY RankedStep, <1>0, <1>dom, <2>1, <3>1, <4>1, <4>2, <4>3
    <3> QED
      BY CallSame, <2>1, <2>4, <2>5, <2>8, <3>2, <3>3, <3>4, <3>5 DEF IInv, Resolved, ExactWins
  <2> QED
    BY <1>4, <2>6, <2>7, <2>8 DEF RankConcrete
<1>5. CASE EndRank
  <2>1. call' = call /\ at = Len(functions) /\ loop = "rank" /\ loop' = "choose"
    BY <1>5 DEF EndRank
  <2>2. TypeOK' /\ Progress' /\ Kept' /\ Counted'
    BY CallSame, <1>0, <1>5, <2>1 DEF EndRank, IInv, TypeOK, Progress, Kept, Counted
  <2>3. Ranked'
    BY CallSame, <1>0, <1>5, <2>1 DEF EndRank, IInv, Ranked, Seen
  <2> QED
    BY CallSame, <1>00, <1>5, <2>1, <2>2, <2>3 DEF EndRank, IInv, Resolved, ExactWins
<1>6. CASE ChooseExact
  <2>1. exact \in Positions /\ Viable(exact)
    BY <1>6 DEF ChooseExact, IInv, TypeOK, Ranked, Exact
  <2> QED
    BY <1>6, <2>1, FinishInv DEF ChooseExact
<1>7. CASE ChooseScored
  <2>1. CASE MaxIndex # {} /\ ~AllSame
    <3>1. PICK i \in MaxIndex : Finish("Ok", matched[i])
      BY <1>7, <2>1 DEF ChooseScored
    <3>2. i \in DOMAIN matched
      <4>1. Len(matched) = Len(perception)
        BY <1>0, <1>7 DEF ChooseScored, NeedsScores, IInv, Counted
      <4> QED
        BY <1>0, <3>1, <4>1 DEF MaxIndex, IInv, IsSequence
    <3>3. matched[i] \in Positions /\ Viable(matched[i])
      BY <1>0, <3>2 DEF IInv, Ranked
    <3> QED
      BY <1>7, <3>1, <3>3, FinishInv DEF ChooseScored, NeedsScores
  <2>2. CASE ~(MaxIndex # {} /\ ~AllSame)
    BY <1>7, <2>2, FinishInv DEF ChooseScored, NeedsScores
  <2> QED
    BY <2>1, <2>2
<1>8. CASE ChooseGeneric
  <2>1. generics.index + 1 \in DOMAIN matched
    <3> QED
      BY <1>0, <1>8 DEF ChooseGeneric, IInv, Counted
  <2>2. matched[generics.index + 1] \in Positions /\ Viable(matched[generics.index + 1])
    BY <1>0, <2>1 DEF IInv, Ranked
  <2> QED
    BY <1>8, <2>2, FinishInv DEF ChooseGeneric
<1>9. CASE ChooseOnly
  <2>1. CASE Len(matched) = 1
    <3>0. 1 \in DOMAIN matched
      BY <1>0, <1>dom, <2>1
    <3>1. matched[1] \in Positions /\ Viable(matched[1])
      BY <1>0, <3>0 DEF IInv, Ranked
    <3> QED
      BY <1>9, <2>1, <3>1, FinishInv DEF ChooseOnly
  <2>2. CASE Len(matched) # 1
    <3>4. Len(matched) <= 1
      BY <1>9 DEF ChooseOnly
    <3>5. Len(matched) \in Nat
      BY <1>0
    <3>0. Len(matched) = 0
      <4> DEFINE n == Len(matched)
      <4>1. n \in Nat /\ n <= 1 /\ n # 1
        BY <2>2, <3>4, <3>5
      <4> HIDE DEF n
      <4>2. n = 0
        BY <4>1
      <4> QED
        BY <4>2 DEF n
    <3>1. DOMAIN matched = {}
      BY <1>0, <1>dom, <3>0
    <3>2. \A l \in Positions : ~Viable(l)
      <4> SUFFICES ASSUME NEW l \in Positions, Viable(l) PROVE FALSE
        OBVIOUS
      <4>1. PICK j \in DOMAIN functions : functions[j] = l
        BY <1>9, ViableDeducible DEF ChooseOnly, IInv, Kept
      <4> QED
        BY <1>9, <3>1, <4>1 DEF ChooseOnly, IInv, Ranked, Seen
    <3> QED
      BY <1>9, <2>2, <3>2, FinishInv DEF ChooseOnly
  <2> QED
    BY <2>1, <2>2
<1>10. CASE UNCHANGED vars
  <2>1. call' = call
    BY <1>10 DEF vars
  <2>2. TypeOK' /\ Progress' /\ Kept' /\ IsSequence' /\ Counted'
    BY CallSame, <1>10, <2>1 DEF vars, IInv, TypeOK, Progress, Kept, IsSequence, Counted
  <2>3. Ranked'
    BY CallSame, <1>10, <2>1 DEF vars, IInv, Ranked, Seen
  <2> QED
    BY CallSame, <1>10, <2>1, <2>2, <2>3 DEF vars, IInv, Resolved, ExactWins
<1> QED
  BY <1>1, <1>2, <1>3, <1>4, <1>5, <1>6, <1>7, <1>8, <1>9, <1>10 DEF Next

\* The strengthened invariant holds in every behaviour.
THEOREM Invariance == Spec => []IInv
<1> QED
  BY InitInv, NextInv, PTL DEF Spec

\* getBestFittingFunction's variables are well typed in every behaviour.
THEOREM TypeCorrect == Spec => []TypeOK
<1>1. IInv => TypeOK
  BY DEF IInv
<1> QED
  BY <1>1, Invariance, PTL

\* importances, matchedFunctions and matchedFunctionsPerception are never read
\* behind their ends, although their indices count different things.
THEOREM NeverOutOfRange == Spec => []IndicesValid
<1>1. IInv => IndicesValid
  <2> SUFFICES ASSUME IInv PROVE IndicesValid
    OBVIOUS
  <2>1. Len(perception) \in Nat /\ Len(matched) \in Nat
    BY DEF IInv, TypeOK, IsSequence
  <2> QED
    BY <2>1 DEF IInv, TypeOK, Progress, Kept, Counted, IndicesValid
<1> QED
  BY <1>1, Invariance, PTL

\* A parameter behind the arguments of a sized call is skipped.
LEMMA BehindSkipped ==
  ASSUME CallTyped, NEW k \in Positions, Sized(k), NEW i \in DOMAIN Params(k), i \notin Given(k)
  PROVE  Skipped(k, i)
<1> DEFINE n == Len(Params(k))
           m == Len(call.arguments)
<1>1. Overload(k) \in Declarations /\ call.arguments \in Seq(Type)
  BY DEF CallTyped, Positions, Overload
<1>2. n \in Nat /\ m \in Nat /\ DOMAIN Params(k) = 1..n /\ DOMAIN call.arguments = 1..m
  BY <1>1, DeclarationsAssumption DEF Params
<1>3. i \in 1..n /\ m < i /\ m < n
  BY <1>2 DEF Given
<1>4. Params(k)[i].default \/ call.isIdentifier
  BY <1>2, <1>3 DEF Sized, argumentSizesEqual
<1> QED
  BY <1>3, <1>4 DEF Skipped

\* What the resolution returns takes every argument that is checked, and when it
\* returns nothing no overload takes the call, for every family of declarations.
THEOREM Resolves == Spec => []ResolvesCandidates
<1>1. IInv => ResolvesCandidates
  <2> SUFFICES ASSUME IInv PROVE ResolvesCandidates
    OBVIOUS
  <2>0. CallTyped /\ call.arguments \in Seq(Type) /\ (call.isIdentifier => call.arguments = <<>>)
    BY DEF IInv, CallTyped
  <2>1. ASSUME result.response = "Ok"
        PROVE  /\ result.fn \in Positions /\ Sized(result.fn) /\ deduceFunction(result.fn).outcome = "deduced"
               /\ \A i \in Given(result.fn) \ Unchecked(result.fn) : IsTaken(result.fn, i)
    <3> DEFINE k == result.fn
    <3>1. k \in Positions /\ Viable(k)
      BY <2>1 DEF IInv, Resolved
    <3> HIDE DEF k
    <3>2. Deducible(k)
      BY <3>1, ViableDeducible
    <3>3. ASSUME NEW i \in Given(k), i \notin Unchecked(k) PROVE IsTaken(k, i)
      <4>1. ~Overload(k).generic /\ ~Skipped(k, i)
        BY <2>0, <3>3 DEF Unchecked, Skipped, Given
      <4> QED
        BY <3>1, <3>3, <4>1 DEF Viable, Fits, IsTaken, Given
    <3> QED
      BY <3>1, <3>2, <3>3 DEF k, Deducible
  <2>2. ASSUME result.response = "NoMatchesFound", NEW k \in Positions
        PROVE  /\ ~TakesCall(k)
               /\ ~(Sized(k) /\ Overload(k).generic /\ deduceFunction(k).outcome = "deduced")
    <3>1. ~Viable(k)
      BY <2>2 DEF IInv, Resolved
    <3>2. ASSUME TakesCall(k) PROVE FALSE
      <4>1. \A i \in DOMAIN Params(k) : i \in Given(k) \/ Skipped(k, i)
        BY <2>0, <3>2, BehindSkipped DEF TakesCall
      <4> QED
        BY <3>1, <3>2, <4>1 DEF TakesCall, IsTaken, Viable, Fits
    <3> QED
      BY <3>1, <3>2 DEF Viable, Fits
  <2> QED
    BY <2>1, <2>2 DEF ResolvesCandidates
<1> QED
  BY <1>1, Invariance, PTL

\* What the loops find exact is never passed over for a generic function or a cast.
THEOREM ExactIsChosen == Spec => []ExactWins
<1>1. IInv => ExactWins
  BY DEF IInv
<1> QED
  BY <1>1, Invariance, PTL

-----------------------------------------------------------------------------
(* Generic functions alone *)

AllGeneric == \A k \in Positions : Sized(k) => Overload(k).generic

\* importances are those of functions; when all of these are generic, matched
\* follows functions, and index and count are the place of the most important.
Best ==
  /\ \A j \in DOMAIN functions : Sized(functions[j]) /\ importances[j] = deduceFunction(functions[j]).importance
  /\ generics.count \in Int
  /\ AllGeneric /\ loop \in {"rank", "choose"} =>
       /\ generics.i = IF loop = "rank" THEN at ELSE Len(functions)
       /\ Len(matched) = generics.i
       /\ \A j \in 1..generics.i : matched[j] = functions[j] /\ importances[j] <= generics.count
       /\ generics.index # -1 => importances[generics.index + 1] = generics.count
  /\ PureGenericsBest

\* What is said of an overload's generic does not change either.
LEMMA DeductionSame ==
  ASSUME call' = call
  PROVE  /\ \A k : deduceFunction(k)' = deduceFunction(k) /\ (Sized(k)' <=> Sized(k))
         /\ AllGeneric' <=> AllGeneric
<1>1. \A k : Overload(k)' = Overload(k) /\ Params(k)' = Params(k) /\ Positions' = Positions
  BY DEF Overload, Params, Positions
<1>2. \A k : Sized(k)' <=> Sized(k)
  BY <1>1 DEF Sized, argumentSizesEqual
<1>3. \A k : deduceFunction(k)' = deduceFunction(k)
  BY <1>1 DEF deduceFunction, Mentions
<1> QED
  BY <1>1, <1>2, <1>3 DEF AllGeneric

\* The vectors are sequences.
LEMMA Vectors ==
  ASSUME IInv
  PROVE  /\ functions \in Seq(Positions) /\ matched \in Seq(Positions) /\ importances \in Seq(Nat)
         /\ Len(functions) \in Nat /\ Len(importances) = Len(functions) /\ Len(matched) \in Nat
         /\ DOMAIN functions = 1..Len(functions)
         /\ at \in Nat /\ generics.i \in Nat /\ generics.index \in Nat \cup {-1} /\ generics.index < generics.i
         /\ generics.index = -1 => generics.i = 0 /\ generics.count = -1
  BY DEF IInv, TypeOK, Kept, Counted

\* The choice falls on the most important generic function.
LEMMA Chosen ==
  ASSUME IInv, Best, loop = "choose", ChooseExact \/ ChooseScored \/ ChooseGeneric \/ ChooseOnly
  PROVE  Best'
<1>1. call' = call /\ loop' = "done" /\ UNCHANGED <<functions, importances, generics>>
  BY DEF ChooseExact, ChooseScored, ChooseGeneric, ChooseOnly, Finish
<1>2. ASSUME AllGeneric, result'.response = "Ok", NEW k \in Positions, Viable(k)
      PROVE  deduceFunction(k).importance <= deduceFunction(result'.fn).importance
  <2>1. PICK j \in DOMAIN functions : functions[j] = k
    BY <1>2, ViableDeducible DEF IInv, Kept
  <2>2. generics.i = Len(functions) /\ Len(matched) = generics.i /\ j \in 1..generics.i
    BY <1>2, <2>1, Vectors DEF Best
  <2>3. generics.index # -1
    BY <2>2, Vectors
  <2>4. exact = 0
    <3>1. exact # 0 => exact \in Positions /\ Exact(exact)
      BY DEF IInv, Ranked, TypeOK
    <3> QED
      BY <1>2, <3>1 DEF AllGeneric, Exact, Viable
  <2>5. ChooseGeneric
    BY <2>3, <2>4 DEF ChooseExact, ChooseScored, ChooseOnly, NeedsScores
  <2> DEFINE m == generics.index + 1
  <2>6. m \in 1..generics.i /\ m \in DOMAIN functions
    BY <2>2, <2>3, Vectors
  <2>7. result'.fn = matched[m]
    BY <2>5 DEF ChooseGeneric, Finish
  <2> HIDE DEF m
  <2>8. matched[m] = functions[m] /\ importances[j] <= generics.count
    BY <1>2, <2>2, <2>6 DEF Best
  <2>9. importances[m] = generics.count
    BY <1>2, <2>3 DEF Best, m
  <2> QED
    BY <2>1, <2>6, <2>7, <2>8, <2>9 DEF Best
<1>3. PureGenericsBest'
  <2>1. Positions' = Positions /\ \A k : (Viable(k)' <=> Viable(k)) /\ Overload(k)' = Overload(k)
    BY <1>1, CallSame
  <2> QED
    BY <1>1, <1>2, <2>1, DeductionSame DEF PureGenericsBest, AllGeneric
<1> QED
  BY <1>1, <1>3, DeductionSame DEF Best

\* Every step keeps index and count where they should be.
LEMMA BestStep ==
  ASSUME IInv, IInv', Best, [Next]_vars
  PROVE  Best'
<1>0. ASSUME result' = result, call' = call PROVE PureGenericsBest'
  <2>1. Positions' = Positions /\ \A k : (Viable(k)' <=> Viable(k)) /\ Overload(k)' = Overload(k)
    BY <1>0, CallSame
  <2> QED
    BY <1>0, <2>1, DeductionSame DEF PureGenericsBest, Best
<1>1. CASE Deduce
  <2> DEFINE k == at + 1
  <2>1. /\ loop = "deduce" /\ loop' \in {"deduce", "done"} /\ call' = call /\ generics' = generics
    BY <1>1 DEF Deduce
  <2>2. CASE UNCHANGED <<functions, importances>>
    <3>1. PureGenericsBest'
      <4>1. result' = result \/ result'.response # "Ok"
        BY <1>1 DEF Deduce, deduceFunction
      <4> QED
        BY <1>0, <2>1, <4>1 DEF PureGenericsBest
    <3> QED
      BY <2>1, <2>2, <3>1, DeductionSame DEF Best, IInv, Progress
  <2>3. CASE /\ Sized(k) /\ functions' = Append(functions, k) /\ result' = result
             /\ deduceFunction(k).outcome = "deduced" /\ importances' = Append(importances, deduceFunction(k).importance)
    <3>1. \A j \in DOMAIN functions' :
            \/ j \in DOMAIN functions /\ functions'[j] = functions[j] /\ importances'[j] = importances[j]
            \/ functions'[j] = k /\ importances'[j] = deduceFunction(k).importance
      <4>1. k \in Positions /\ deduceFunction(k).importance \in Nat
        BY <1>1, <2>3, ImportanceType DEF Deduce, Positions, IInv, TypeOK, CallTyped
      <4> QED
        BY <2>3, <4>1, Vectors, SMTT(30)
    <3>2. PureGenericsBest'
      BY <1>0, <2>1, <2>3
    <3>3. \A j \in DOMAIN functions' :
            Sized(functions'[j]) /\ importances'[j] = deduceFunction(functions'[j]).importance
      BY <2>3, <3>1 DEF Best
    <3>4. (\A j \in DOMAIN functions : Sized(functions[j]) /\ importances[j] = deduceFunction(functions[j]).importance)'
      BY <2>1, <3>3, DeductionSame
    <3> QED
      BY <2>1, <3>2, <3>4 DEF Best
  <2> QED
    BY <1>1, <2>2, <2>3 DEF Deduce
<1>2. CASE EndDeduce
  <2>1. /\ call' = call /\ result' = result /\ loop = "deduce" /\ loop' = "rank" /\ at' = 0
        /\ UNCHANGED <<functions, importances, generics, matched>>
    BY <1>2 DEF EndDeduce
  <2>2. generics.i = 0 /\ matched = <<>> /\ generics.index = -1
    BY <2>1, Vectors DEF IInv, Progress
  <2> QED
    BY <1>0, <2>1, <2>2, DeductionSame DEF Best
<1>3. CASE RankGeneric
  <2>1. /\ call' = call /\ result' = result /\ loop = "rank" /\ loop' = "rank" /\ at' = at + 1 /\ at < Len(functions)
        /\ UNCHANGED <<functions, importances>> /\ matched' = Append(matched, functions[at + 1])
    BY <1>3 DEF RankGeneric
  <2>2. generics' = IF importances[generics.i + 1] > generics.count
                    THEN [i |-> generics.i + 1, index |-> generics.i, count |-> importances[generics.i + 1]]
                    ELSE [generics EXCEPT !.i = generics.i + 1]
    BY <1>3 DEF RankGeneric
  <2>3. at + 1 \in 1..Len(functions) /\ importances[at + 1] \in Nat /\ functions[at + 1] \in Positions
    BY <2>1, Vectors
  <2>4. generics'.count \in Int
    <3>1. generics.i <= at /\ importances \in Seq(Nat) /\ generics.i + 1 \in 1..Len(importances)
      BY <2>1, Vectors, SMTT(30) DEF IInv, Progress
    <3>2. importances[generics.i + 1] \in Nat
      BY <3>1
    <3>3. [generics EXCEPT !.i = generics.i + 1].count = generics.count
      OBVIOUS
    <3> QED
      BY <2>2, <3>2, <3>3 DEF Best
  <2>5. ASSUME AllGeneric
        PROVE  /\ generics'.i = at' /\ Len(matched') = generics'.i
               /\ \A j \in 1..generics'.i : matched'[j] = functions[j] /\ importances[j] <= generics'.count
               /\ generics'.index # -1 => importances[generics'.index + 1] = generics'.count
    <3>1. /\ generics.i = at /\ Len(matched) = at
          /\ \A j \in 1..at : matched[j] = functions[j] /\ importances[j] <= generics.count
          /\ generics.index # -1 => importances[generics.index + 1] = generics.count
      BY <2>1, <2>5 DEF Best
    <3>2. /\ Len(matched') = at + 1 /\ matched'[at + 1] = functions[at + 1]
          /\ \A j \in 1..at : matched'[j] = functions[j]
      BY <2>1, <2>3, <3>1, Vectors
    <3>3. \A j \in 1..(at + 1) : j \in 1..at \/ j = at + 1
      BY Vectors
    <3>4. CASE importances[at + 1] > generics.count
      <4>1. generics' = [i |-> at + 1, index |-> at, count |-> importances[at + 1]]
        BY <2>2, <3>1, <3>4
      <4>2. \A j \in 1..at : importances[j] \in Nat /\ importances[j] <= importances[at + 1]
        <5>1. \A j \in 1..at : j \in 1..Len(importances)
          BY <2>1, Vectors
        <5>2. \A j \in 1..at : importances[j] \in Nat
          BY <5>1, Vectors
        <5> QED
          BY <2>3, <3>1, <3>4, <5>2 DEF Best
      <4> QED
        BY <2>1, <2>3, <3>2, <3>3, <4>1, <4>2
    <3>5. CASE ~(importances[at + 1] > generics.count)
      <4>1. generics' = [generics EXCEPT !.i = at + 1]
        BY <2>2, <3>1, <3>5
      <4>2. generics'.i = at + 1 /\ generics'.index = generics.index /\ generics'.count = generics.count
        BY <2>4, <4>1 DEF IInv, TypeOK
      <4>3. importances[at + 1] <= generics.count
        BY <2>3, <3>5 DEF Best
      <4> QED
        BY <2>1, <3>1, <3>2, <3>3, <4>2, <4>3
    <3> QED
      BY <3>4, <3>5
  <2> QED
    BY <1>0, <2>1, <2>4, <2>5, DeductionSame DEF Best
<1>4. CASE RankConcrete
  <2>1. /\ call' = call /\ result' = result /\ loop = "rank" /\ loop' = "rank" /\ at < Len(functions)
        /\ UNCHANGED <<functions, importances, generics>> /\ ~Overload(functions[at + 1]).generic
    BY <1>4 DEF RankConcrete
  <2>2. at + 1 \in DOMAIN functions /\ functions[at + 1] \in Positions
    BY <2>1, Vectors
  <2>3. ~AllGeneric
    BY <2>1, <2>2 DEF AllGeneric, Best
  <2> QED
    BY <1>0, <2>1, <2>3, DeductionSame DEF Best
<1>5. CASE EndRank
  <2>1. /\ call' = call /\ result' = result /\ loop = "rank" /\ loop' = "choose" /\ at = Len(functions)
        /\ UNCHANGED <<functions, importances, generics, matched>>
    BY <1>5 DEF EndRank
  <2> QED
    BY <1>0, <2>1, DeductionSame DEF Best
<1>6. CASE ChooseExact \/ ChooseScored \/ ChooseGeneric \/ ChooseOnly
  BY <1>6, Chosen DEF ChooseExact, ChooseScored, ChooseGeneric, ChooseOnly
<1>7. CASE UNCHANGED vars
  BY <1>0, <1>7, DeductionSame DEF vars, Best
<1> QED
  BY <1>1, <1>2, <1>3, <1>4, <1>5, <1>6, <1>7 DEF Next

\* Of generic functions alone the most important one is chosen, although the
\* index of importances counts generic functions only.
THEOREM BestOfGenerics == Spec => []PureGenericsBest
<1>1. Init => Best
  BY DEF Init, Best, PureGenericsBest, Pending
<1>2. IInv /\ IInv' /\ Best /\ [Next]_vars => Best'
  BY BestStep
<1>3. Best => PureGenericsBest
  BY DEF Best
<1> QED
  BY <1>1, <1>2, <1>3, Invariance, PTL DEF Spec

-----------------------------------------------------------------------------
(* Scores *)

\* A set of numbers has a least one.
LEMMA Least ==
  ASSUME NEW S \in SUBSET Nat, S # {}
  PROVE  \E n \in S : \A y \in S : n <= y
<1> DEFINE Less == {ss \in Nat \X Nat : ss[1] < ss[2]}
<1>1. IsWellFoundedOn(Less, Nat)
  BY NatLessThanWellFounded, Zenon DEF OpToRel
<1>2. \E n \in S : \A y \in S : ~(<<y, n>> \in Less)
  BY <1>1, WFMin, Zenon
<1>3. \A n, y \in S : <<y, n>> \in Less <=> y < n
  OBVIOUS
<1> HIDE DEF Less
<1>4. PICK n \in S : \A y \in S : ~(y < n)
  BY <1>2, <1>3
<1>5. \A y \in S : n <= y
  BY <1>4
<1> QED
  BY <1>5

\* The score after parameter i, of the score p before it.
Scored(k, i, p) ==
  CASE i = 0 -> 0
    [] i # 0 /\ Equal(k, i) -> p
    [] OTHER -> (p + 1) * (castPriority(canCast(call.arguments[i], Params(k)[i].type)) + 1)

\* The recursion of succeededArgs has a solution.
LEMMA ScoresExist ==
  ASSUME NEW k, NEW n \in Nat
  PROVE  \E f : f = [i \in 0..n |-> Scored(k, i, f[i - 1])]
<1> DEFINE Bad == {m \in 0..n : \A f : f # [i \in 0..m |-> Scored(k, i, f[i - 1])]}
<1>1. SUFFICES ASSUME Bad # {} PROVE FALSE
  OBVIOUS
<1>2. PICK m \in Bad : \A y \in Bad : m <= y
  <2>1. Bad \in SUBSET Nat
    OBVIOUS
  <2> HIDE DEF Bad
  <2> QED
    BY <1>1, <2>1, Least
<1>3. m \in 0..n /\ \A f : f # [i \in 0..m |-> Scored(k, i, f[i - 1])]
  BY <1>2
<1>4. CASE m = 0
  <2> DEFINE f == [i \in 0..0 |-> Scored(k, i, 0)]
  <2>1. \A i \in 0..0 : Scored(k, i, 0) = 0 /\ Scored(k, i, f[i - 1]) = 0
    BY DEF Scored
  <2>2. f = [i \in 0..0 |-> Scored(k, i, f[i - 1])]
    BY <2>1
  <2> HIDE DEF f
  <2> QED
    BY <1>3, <1>4, <2>2
<1>5. CASE m # 0
  <2>1. m - 1 \in 0..n /\ m - 1 \notin Bad /\ m \in Nat
    BY <1>2, <1>3, <1>5
  <2>2. PICK g : g = [i \in 0..(m - 1) |-> Scored(k, i, g[i - 1])]
    BY <2>1
  <2> DEFINE f == [i \in 0..m |-> IF i < m THEN g[i] ELSE Scored(k, m, g[m - 1])]
  <2>3. \A i \in 0..m : i # 0 => f[i - 1] = g[i - 1]
    BY <1>3, <2>1
  <2>4. \A p, q : Scored(k, 0, p) = Scored(k, 0, q)
    BY DEF Scored
  <2>5. \A i \in 0..m : f[i] = Scored(k, i, f[i - 1])
    <3> SUFFICES ASSUME NEW i \in 0..m PROVE f[i] = Scored(k, i, f[i - 1])
      OBVIOUS
    <3>1. CASE i = m
      <4>1. f[i] = Scored(k, m, g[m - 1])
        BY <3>1, <2>1
      <4> QED
        BY <1>5, <2>3, <3>1, <4>1
    <3>2. CASE i # m
      <4>1. i \in 0..(m - 1) /\ f[i] = g[i]
        BY <3>2, <2>1
      <4>2. g[i] = Scored(k, i, g[i - 1])
        BY <2>2, <4>1
      <4> QED
        BY <2>3, <2>4, <4>1, <4>2
    <3> QED
      BY <3>1, <3>2
  <2>6. f = [i \in 0..m |-> f[i]]
    OBVIOUS
  <2>7. f = [i \in 0..m |-> Scored(k, i, f[i - 1])]
    <3> HIDE DEF f
    <3> QED
      BY <2>5, <2>6
  <2> HIDE DEF f
  <2> QED
    BY <1>3, <2>7
<1> QED
  BY <1>4, <1>5

\* What a function that needs casts scores is a positive number.
LEMMA ScoreType ==
  ASSUME CallTyped, NEW k \in Positions, argsEqual(k), argsNeedCasting(k)
  PROVE  succeededArgs(k) \in Nat /\ succeededArgs(k) > 0
<1> DEFINE n == Len(Params(k))
           s == CHOOSE f : f = [i \in 0..n |-> Scored(k, i, f[i - 1])]
<1>1. n \in Nat /\ DOMAIN Params(k) = 1..n
  <2>1. Overload(k) \in Declarations
    BY DEF CallTyped, Positions, Overload
  <2> QED
    BY <2>1, DeclarationsAssumption DEF Params
<1>2. succeededArgs(k) = s[n]
  BY DEF succeededArgs, Scored
<1> HIDE DEF n
<1>3. s = [i \in 0..n |-> Scored(k, i, s[i - 1])]
  BY <1>1, ScoresExist
<1> HIDE DEF s
<1>4. \A i \in 0..n : s[i] = Scored(k, i, s[i - 1])
  BY <1>3
<1>5. ASSUME NEW i \in 1..n, ~Equal(k, i)
      PROVE  castPriority(canCast(call.arguments[i], Params(k)[i].type)) \in {2, 3, 4}
  <2>1. Castable(k, i)
    BY <1>1, <1>5 DEF argsEqual
  <2> QED
    BY <2>1 DEF Castable, castPriority, canCast
<1>6. ASSUME NEW i \in 1..n, s[i - 1] \in Nat
      PROVE  /\ s[i] \in Nat
             /\ Equal(k, i) => s[i] = s[i - 1]
             /\ ~Equal(k, i) => s[i] > 0
  <2> DEFINE c == castPriority(canCast(call.arguments[i], Params(k)[i].type))
  <2>1. i # 0 /\ s[i] = Scored(k, i, s[i - 1])
    BY <1>1, <1>4
  <2>2. CASE Equal(k, i)
    <3>1. s[i] = s[i - 1]
      BY <2>1, <2>2 DEF Scored
    <3> QED
      BY <1>6, <2>2, <3>1
  <2>3. CASE ~Equal(k, i)
    <3>1. s[i] = (s[i - 1] + 1) * (c + 1)
      BY <2>1, <2>3 DEF Scored
    <3>2. c \in {2, 3, 4}
      BY <1>5, <2>3
    <3> HIDE DEF c
    <3>3. s[i] = (s[i - 1] + 1) * 3 \/ s[i] = (s[i - 1] + 1) * 4 \/ s[i] = (s[i - 1] + 1) * 5
      BY <3>1, <3>2
    <3> QED
      BY <1>6, <2>3, <3>3
  <2> QED
    BY <2>2, <2>3
<1>7. \A i \in 0..n : s[i] \in Nat
  <2> DEFINE Bad == {i \in 0..n : s[i] \notin Nat}
  <2>1. SUFFICES ASSUME Bad # {} PROVE FALSE
    OBVIOUS
  <2>2. Bad \in SUBSET Nat
    OBVIOUS
  <2> HIDE DEF Bad
  <2>3. PICK m \in Bad : \A y \in Bad : m <= y
    BY <2>1, <2>2, Least
  <2> USE DEF Bad
  <2>4. m # 0
    BY <1>1, <1>4, <2>3 DEF Scored
  <2>5. m \in 1..n /\ m - 1 \in 0..n /\ m - 1 \notin Bad
    BY <1>1, <2>3, <2>4
  <2> QED
    BY <1>6, <2>3, <2>5
<1>8. PICK j \in 1..n : ~Equal(k, j)
  BY <1>1 DEF argsNeedCasting
<1>9. \A i \in j..n : s[i] > 0
  <2> DEFINE Bad == {i \in j..n : ~(s[i] > 0)}
  <2>1. SUFFICES ASSUME Bad # {} PROVE FALSE
    OBVIOUS
  <2>2. Bad \in SUBSET Nat
    OBVIOUS
  <2> HIDE DEF Bad
  <2>3. PICK m \in Bad : \A y \in Bad : m <= y
    BY <2>1, <2>2, Least
  <2> USE DEF Bad
  <2>4. m \in 1..n /\ s[m - 1] \in Nat /\ s[m] \in Nat /\ ~(s[m] > 0)
    BY <1>1, <1>7, <2>3
  <2>5. m # j
    BY <1>6, <1>8, <2>4
  <2>6. m - 1 \in j..n /\ m - 1 \notin Bad
    BY <1>1, <2>3, <2>5
  <2> QED
    BY <1>6, <2>4, <2>6
<1> QED
  BY <1>1, <1>2, <1>7, <1>8, <1>9

\* Of positive scores there is a first of the largest.
LEMMA LargestExists ==
  ASSUME perception \in Seq(Nat), perception # <<>>, \A i \in DOMAIN perception : perception[i] > 0
  PROVE  MaxIndex # {}
<1> DEFINE n == Len(perception)
<1>1. n \in Nat /\ n > 0 /\ DOMAIN perception = 1..n /\ \A i \in 1..n : perception[i] \in Nat
  OBVIOUS
<1> HIDE DEF n
<1>2. \A m \in 1..n : \E i \in 1..m : \A j \in 1..m : perception[j] <= perception[i]
  <2> DEFINE Bad == {m \in 1..n : ~\E i \in 1..m : \A j \in 1..m : perception[j] <= perception[i]}
  <2>1. SUFFICES ASSUME Bad # {} PROVE FALSE
    OBVIOUS
  <2>2. Bad \in SUBSET Nat
    OBVIOUS
  <2> HIDE DEF Bad
  <2>3. PICK m \in Bad : \A y \in Bad : m <= y
    BY <2>1, <2>2, Least
  <2> USE DEF Bad
  <2>4. m # 1
    <3>1. perception[1] <= perception[1] /\ 1 \in 1..1 /\ \A j \in 1..1 : j = 1
      BY <1>1
    <3>2. \E i \in 1..1 : \A j \in 1..1 : perception[j] <= perception[i]
      BY <3>1
    <3>3. ~\E i \in 1..m : \A j \in 1..m : perception[j] <= perception[i]
      BY <2>3
    <3> SUFFICES ASSUME m = 1 PROVE FALSE
      OBVIOUS
    <3>4. ~\E i \in 1..1 : \A j \in 1..1 : perception[j] <= perception[i]
      BY <3>3
    <3> QED
      BY <3>2, <3>4
  <2>5. m - 1 \in 1..n /\ m - 1 \notin Bad
    <3>1. m \in 1..n
      BY <2>3
    <3> HIDE DEF Bad
    <3>2. m - 1 \in 1..n /\ ~(m <= m - 1)
      BY <1>1, <2>4, <3>1
    <3> QED
      BY <2>3, <3>2
  <2>6. PICK i \in 1..(m - 1) : \A j \in 1..(m - 1) : perception[j] <= perception[i]
    BY <2>5
  <2>7. \A j \in 1..m : j \in 1..(m - 1) \/ j = m
    BY <1>1, <2>3
  <2>8. m \in 1..m /\ i \in 1..m /\ m \in 1..n /\ i \in 1..n
    BY <1>1, <2>3, <2>5
  <2>9. CASE perception[m] <= perception[i]
    BY <2>3, <2>6, <2>7, <2>8, <2>9
  <2>10. CASE ~(perception[m] <= perception[i])
    <3>1. \A j \in 1..(m - 1) : j \in 1..n
      BY <1>1, <2>3
    <3>2. \A j \in 1..m : perception[j] <= perception[m]
      BY <1>1, <2>6, <2>7, <2>8, <2>10, <3>1
    <3> QED
      BY <2>3, <2>8, <3>2
  <2> QED
    BY <2>9, <2>10
<1>10. n \in 1..n
  BY <1>1
<1>3. PICK i \in 1..n : \A j \in 1..n : perception[j] <= perception[i]
  BY <1>2, <1>10
<1> DEFINE Largest == {m \in 1..n : perception[m] = perception[i]}
<1>4. Largest \in SUBSET Nat /\ i \in Largest
  OBVIOUS
<1> HIDE DEF Largest
<1>5. PICK m \in Largest : \A y \in Largest : m <= y
  BY <1>4, Least
<1> USE DEF Largest
<1>6. m \in 1..n /\ perception[m] = perception[i]
  BY <1>5
<1>7. \A j \in 1..(m - 1) : j \in 1..n /\ perception[j] # perception[i]
  BY <1>1, <1>5, <1>6
<1>8. \A j \in 1..(m - 1) : perception[j] < perception[m]
  BY <1>1, <1>3, <1>6, <1>7
<1> QED
  BY <1>1, <1>3, <1>6, <1>8 DEF MaxIndex

\* What the two loops add up to: functions grows, matched holds each of its members
\* once, and while no generic function is matched perception holds its scores.
Ties ==
  /\ \A i, j \in DOMAIN functions : i < j => functions[i] < functions[j]
  /\ loop = "deduce" => \A i \in DOMAIN functions : functions[i] <= at
  /\ loop = "rank" => \A m \in DOMAIN matched : \E j \in 1..at : matched[m] = functions[j]
  /\ \A l, m \in DOMAIN matched : l # m => matched[l] # matched[m]
  /\ generics.i = 0 => \A m \in DOMAIN matched :
       /\ ~Overload(matched[m]).generic
       /\ perception[m] = succeededArgs(matched[m]) /\ perception[m] \in Nat /\ perception[m] > 0
  /\ AmbiguityTies

\* While the call does not change, scores do not.
LEMMA ScoreSame ==
  ASSUME call' = call
  PROVE  \A k : succeededArgs(k)' = succeededArgs(k)
BY DEF succeededArgs, Equal, Skipped, Params, Overload

\* When a call is ambiguous, the candidates are those in matched, and their scores agree.
LEMMA AmbiguousTies ==
  ASSUME IInv, Ties, loop = "choose", NeedsScores, MaxIndex = {} \/ AllSame
  PROVE  LET C == {k \in Positions : Viable(k)}
         IN  /\ Cardinality(C) > 1
             /\ \A k \in C : ~Overload(k).generic /\ ~Exact(k)
             /\ \A k, l \in C : succeededArgs(k) = succeededArgs(l)
<1> DEFINE C == {k \in Positions : Viable(k)}
<1>1. exact = 0 /\ generics.i = 0 /\ Len(matched) = Len(perception) /\ Len(matched) > 1
      /\ DOMAIN matched = 1..Len(matched) /\ Len(matched) \in Nat
      /\ DOMAIN perception = 1..Len(matched)
  BY Vectors DEF NeedsScores, IInv, Counted, IsSequence
<1>2. perception \in Seq(Nat) /\ \A i \in DOMAIN perception : perception[i] > 0
  <2>1. \A i \in DOMAIN perception : perception[i] \in Nat /\ perception[i] > 0
    BY <1>1 DEF Ties
  <2> QED
    BY <2>1 DEF IInv, IsSequence
<1>3. AllSame
  <2>1. perception # <<>>
    BY <1>1
  <2> QED
    BY <1>2, <2>1, LargestExists
<1>4. \A k \in C : \E m \in DOMAIN matched : matched[m] = k
  <2> SUFFICES ASSUME NEW k \in C PROVE \E m \in DOMAIN matched : matched[m] = k
    OBVIOUS
  <2>1. PICK j \in DOMAIN functions : functions[j] = k
    BY ViableDeducible DEF IInv, Kept
  <2> QED
    BY <1>1, <2>1 DEF IInv, Ranked, Seen
<1>5. \A m \in DOMAIN matched : matched[m] \in C
  BY Vectors DEF IInv, Ranked
<1>6. Cardinality(C) > 1
  <2> DEFINE a == matched[1]
             b == matched[2]
  <2>1. a \in C /\ b \in C /\ a # b
    BY <1>1, <1>5 DEF Ties
  <2> HIDE DEF a, b, C
  <2>2. IsFiniteSet({a}) /\ Cardinality({a}) = 1
    BY FS_Singleton
  <2>3. Cardinality({a} \cup {b}) = 2
    BY <2>1, <2>2, FS_AddElement
  <2>4. IsFiniteSet(C)
    <3>1. IsFiniteSet(1..Len(call.overloads))
      BY FS_Interval DEF IInv, CallTyped
    <3>2. C \in SUBSET (1..Len(call.overloads))
      BY DEF C, IInv, CallTyped, Positions
    <3> QED
      BY <3>1, <3>2, FS_Subset
  <2>5. Cardinality({a} \cup {b}) <= Cardinality(C) /\ Cardinality(C) \in Nat
    BY <2>1, <2>4, FS_Subset, FS_CardinalityType
  <2> QED
    BY <2>3, <2>5
<1>7. \A k \in C : ~Overload(k).generic /\ ~Exact(k)
  <2> SUFFICES ASSUME NEW k \in C PROVE ~Overload(k).generic /\ ~Exact(k)
    OBVIOUS
  <2>1. ~Overload(k).generic
    BY <1>1, <1>4 DEF Ties
  <2>2. PICK j \in DOMAIN functions : functions[j] = k
    BY ViableDeducible DEF IInv, Kept
  <2>3. ~Exact(k)
    BY <1>1, <2>2 DEF IInv, Ranked, Seen
  <2> QED
    BY <2>1, <2>3
<1>8. \A k, l \in C : succeededArgs(k) = succeededArgs(l)
  <2> SUFFICES ASSUME NEW k \in C, NEW l \in C PROVE succeededArgs(k) = succeededArgs(l)
    OBVIOUS
  <2>1. PICK i \in DOMAIN matched : matched[i] = k
    BY <1>4
  <2>2. PICK j \in DOMAIN matched : matched[j] = l
    BY <1>4
  <2>3. perception[i] = succeededArgs(k) /\ perception[j] = succeededArgs(l)
    BY <1>1, <2>1, <2>2 DEF Ties
  <2> QED
    BY <1>1, <1>3, <2>1, <2>2, <2>3 DEF AllSame
<1> QED
  BY <1>6, <1>7, <1>8

\* A step that leaves the result as it is need only keep what Ties says of the loops.
LEMMA TiesSame ==
  ASSUME AmbiguityTies, call' = call,
         result' = result \/ result'.response # "AmbiguityConflict"
  PROVE  AmbiguityTies'
<1>1. Positions' = Positions /\ \A k : (Viable(k)' <=> Viable(k)) /\ Overload(k)' = Overload(k) /\ (Exact(k)' <=> Exact(k))
  BY CallSame
<1>2. \A k : succeededArgs(k)' = succeededArgs(k)
  BY ScoreSame
<1>3. {k \in Positions : Viable(k)}' = {k \in Positions : Viable(k)}
  BY <1>1
<1> QED
  BY <1>1, <1>2, <1>3 DEF AmbiguityTies

\* Every step keeps what is said of ties.
LEMMA TiesStep ==
  ASSUME IInv, IInv', Ties, [Next]_vars
  PROVE  Ties'
<1>0. /\ DOMAIN matched = 1..Len(matched) /\ Len(matched) \in Nat /\ Len(perception) \in Nat
      /\ DOMAIN functions = 1..Len(functions) /\ Len(functions) \in Nat /\ at \in Nat
      /\ functions \in Seq(Positions) /\ matched \in Seq(Positions)
      /\ \A k \in Positions : k \in Nat
  BY Vectors DEF IInv, IsSequence, Positions, CallTyped
<1>1. CASE Deduce
  <2> DEFINE k == at + 1
  <2>1. /\ loop = "deduce" /\ loop' \in {"deduce", "done"} /\ call' = call
        /\ UNCHANGED <<matched, perception, generics>> /\ matched = <<>>
        /\ k \in Positions
    BY <1>0, <1>1 DEF Deduce, IInv, Progress, Positions, CallTyped
  <2>2. AmbiguityTies'
    <3>1. result' = result \/ result'.response # "AmbiguityConflict"
      BY <1>1 DEF Deduce, deduceFunction
    <3> QED
      BY <2>1, <3>1, TiesSame DEF Ties
  <2>3. CASE functions' = functions /\ (loop' = "deduce" => at' = at + 1)
    BY <1>0, <2>1, <2>2, <2>3 DEF Ties
  <2>4. CASE functions' = Append(functions, k) /\ at' = at + 1
    <3>1. \A j \in DOMAIN functions' :
            \/ j \in DOMAIN functions /\ functions'[j] = functions[j]
            \/ j = Len(functions) + 1 /\ functions'[j] = at + 1
      BY <1>0, <2>1, <2>4
    <3>2. \A j \in DOMAIN functions : functions[j] <= at /\ functions[j] \in Nat
      BY <1>0, <2>1 DEF Ties
    <3>3. \A i, j \in DOMAIN functions' : i < j => functions'[i] < functions'[j]
      BY <1>0, <3>1, <3>2 DEF Ties
    <3>4. \A j \in DOMAIN functions' : functions'[j] <= at'
      BY <1>0, <2>4, <3>1, <3>2
    <3> QED
      BY <2>1, <2>2, <3>3, <3>4 DEF Ties
  <2> QED
    BY <1>1, <2>3, <2>4 DEF Deduce
<1>2. CASE EndDeduce
  <2>1. /\ call' = call /\ result' = result /\ loop = "deduce" /\ loop' = "rank"
        /\ UNCHANGED <<functions, matched, perception, generics>> /\ matched = <<>>
    BY <1>2 DEF EndDeduce, IInv, Progress
  <2> QED
    BY <2>1, TiesSame DEF Ties
<1>3. ASSUME loop = "rank", loop' = "rank", at' = at + 1, call' = call, result' = result, functions' = functions,
             at + 1 \in DOMAIN functions,
             \/ UNCHANGED <<matched, perception, generics>>
             \/ matched' = Append(matched, functions[at + 1]) /\ generics'.i # 0
             \/ /\ matched' = Append(matched, functions[at + 1]) /\ generics' = generics
                /\ ~Overload(functions[at + 1]).generic /\ argsEqual(functions[at + 1]) /\ argsNeedCasting(functions[at + 1])
                /\ perception' = Append(perception, succeededArgs(functions[at + 1]))
      PROVE  Ties'
  <2> DEFINE k == functions[at + 1]
  <2>1. AmbiguityTies'
    BY <1>3, TiesSame DEF Ties
  <2>2. k \in Positions
    BY <1>0, <1>3
  <2>5. at + 1 \in 1..at' /\ \A j \in 1..at : j \in 1..at'
    BY <1>0, <1>3
  <2>3. CASE UNCHANGED <<matched, perception, generics>>
    <3>1. \A m \in DOMAIN matched' : \E j \in 1..at' : matched'[m] = functions[j]
      BY <1>3, <2>3, <2>5 DEF Ties
    <3>2. \A j : succeededArgs(j)' = succeededArgs(j)
      BY <1>3, ScoreSame
    <3>3. \A j : Overload(j)' = Overload(j)
      BY <1>3, CallSame
    <3> QED
      BY <1>3, <2>1, <2>3, <3>1, <3>2, <3>3 DEF Ties
  <2>4. CASE matched' = Append(matched, k)
    <3>1. \A m \in DOMAIN matched' :
            \/ m \in DOMAIN matched /\ matched'[m] = matched[m]
            \/ m = Len(matched) + 1 /\ matched'[m] = k
      BY <1>0, <2>2, <2>4
    <3>2. \A m \in DOMAIN matched' : \E j \in 1..at' : matched'[m] = functions'[j]
      BY <1>3, <2>5, <3>1 DEF Ties
    <3>3. \A m \in DOMAIN matched : matched[m] # k
      <4>1. \A j \in 1..at : functions[j] < functions[at + 1] /\ functions[j] \in Nat
        BY <1>0, <1>3, SMTT(30) DEF Ties
      <4>2. \A j \in 1..at : functions[j] # functions[at + 1]
        BY <1>0, <2>2, <4>1
      <4> QED
        BY <1>3, <4>2 DEF Ties
    <3>4. \A l, m \in DOMAIN matched' : l # m => matched'[l] # matched'[m]
      BY <3>1, <3>3 DEF Ties
    <3>5. ASSUME generics'.i = 0, NEW m \in DOMAIN matched'
          PROVE  /\ ~Overload(matched'[m]).generic
                 /\ perception'[m] = succeededArgs(matched'[m]) /\ perception'[m] \in Nat /\ perception'[m] > 0
      <4>1. /\ generics.i = 0 /\ perception' = Append(perception, succeededArgs(k))
            /\ ~Overload(k).generic /\ argsEqual(k) /\ argsNeedCasting(k)
        BY <1>3, <2>4, <3>5, <3>3
      <4>2. Len(perception) = Len(matched)
        BY <1>0, <4>1 DEF IInv, Counted
      <4>3. succeededArgs(k) \in Nat /\ succeededArgs(k) > 0
        BY <2>2, <4>1, ScoreType DEF IInv
      <4>4. /\ perception'[Len(matched) + 1] = succeededArgs(k)
            /\ \A j \in DOMAIN matched : perception'[j] = perception[j]
        <5> DEFINE S == {perception[i] : i \in DOMAIN perception} \cup {succeededArgs(k)}
        <5>1. perception \in Seq(S) /\ succeededArgs(k) \in S
          BY DEF IInv, IsSequence
        <5> HIDE DEF S, k
        <5> QED
          BY <1>0, <4>1, <4>2, <5>1
      <4> HIDE DEF k
      <4> QED
        BY <3>1, <4>1, <4>3, <4>4 DEF Ties
    <3>6. (generics.i = 0 => \A m \in DOMAIN matched :
             /\ ~Overload(matched[m]).generic
             /\ perception[m] = succeededArgs(matched[m]) /\ perception[m] \in Nat /\ perception[m] > 0)'
      <4>1. \A j : succeededArgs(j)' = succeededArgs(j)
        BY <1>3, ScoreSame
      <4>2. \A j : Overload(j)' = Overload(j)
        BY <1>3, CallSame
      <4> QED
        BY <3>5, <4>1, <4>2
    <3> QED
      BY <1>3, <2>1, <3>2, <3>4, <3>6 DEF Ties
  <2> QED
    BY <1>3, <2>3, <2>4
<1>4. CASE RankGeneric
  <2>1. generics'.i = generics.i + 1
    <3>2. generics'.i \in Nat /\ generics.i \in Nat
      BY DEF IInv, TypeOK
    <3>3. CASE importances[generics.i + 1] > generics.count
      BY <1>4, <3>3 DEF RankGeneric
    <3>4. CASE ~(importances[generics.i + 1] > generics.count)
      <4>1. generics.index # -1
        <5>1. generics.i <= at /\ importances \in Seq(Nat) /\ generics.i + 1 \in 1..Len(importances)
          <6>1. generics.i <= at /\ at < Len(functions)
            BY <1>4 DEF RankGeneric, IInv, Progress
          <6> QED
            BY <1>0, <6>1, Vectors, SMTT(30)
        <5>2. importances[generics.i + 1] \in Nat
          BY <5>1
        <5> QED
          BY <3>4, <5>2, Vectors
      <4> QED
        BY <1>4, <3>2, <3>4, <4>1 DEF RankGeneric
    <3> QED
      BY <3>3, <3>4
  <2>2. generics'.i # 0
    BY <2>1 DEF IInv, TypeOK
  <2>3. /\ loop = "rank" /\ loop' = "rank" /\ at' = at + 1 /\ call' = call /\ result' = result /\ functions' = functions
        /\ at + 1 \in DOMAIN functions /\ matched' = Append(matched, functions[at + 1])
    BY <1>0, <1>4 DEF RankGeneric
  <2> QED
    BY <1>3, <2>2, <2>3
<1>5. CASE RankConcrete
  BY <1>0, <1>3, <1>5 DEF RankConcrete
<1>6. CASE EndRank
  <2>1. /\ call' = call /\ result' = result /\ loop' = "choose"
        /\ UNCHANGED <<functions, matched, perception, generics>>
    BY <1>6 DEF EndRank
  <2>2. AmbiguityTies'
    BY <2>1, TiesSame DEF Ties
  <2>3. \A j : succeededArgs(j)' = succeededArgs(j)
    BY <2>1, ScoreSame
  <2>4. \A j : Overload(j)' = Overload(j)
    BY <2>1, CallSame
  <2> QED
    BY <2>1, <2>2, <2>3, <2>4 DEF Ties
<1>7. CASE ChooseExact \/ ChooseScored \/ ChooseGeneric \/ ChooseOnly
  <2>1. /\ call' = call /\ loop = "choose" /\ loop' = "done"
        /\ UNCHANGED <<functions, matched, perception, generics>>
    BY <1>7 DEF ChooseExact, ChooseScored, ChooseGeneric, ChooseOnly, Finish
  <2>2. \A j : succeededArgs(j)' = succeededArgs(j) /\ Overload(j)' = Overload(j)
    BY <2>1, ScoreSame, CallSame
  <2>3. CASE result'.response # "AmbiguityConflict"
    BY <2>1, <2>2, <2>3, TiesSame DEF Ties
  <2>4. CASE result'.response = "AmbiguityConflict"
    <3>1. NeedsScores /\ (MaxIndex = {} \/ AllSame)
      BY <1>7, <2>4 DEF ChooseExact, ChooseScored, ChooseGeneric, ChooseOnly, Finish
    <3>2. Positions' = Positions /\ \A k : (Viable(k)' <=> Viable(k)) /\ (Exact(k)' <=> Exact(k))
      BY <2>1, CallSame
    <3>3. {k \in Positions : Viable(k)}' = {k \in Positions : Viable(k)}
      BY <3>2
    <3>4. AmbiguityTies'
      BY <2>1, <2>2, <3>1, <3>2, <3>3, AmbiguousTies DEF AmbiguityTies
    <3> QED
      BY <2>1, <2>2, <3>4 DEF Ties
  <2> QED
    BY <2>3, <2>4
<1>8. CASE UNCHANGED vars
  <2>1. call' = call /\ result' = result
    BY <1>8 DEF vars
  <2>2. \A j : succeededArgs(j)' = succeededArgs(j) /\ Overload(j)' = Overload(j)
    BY <2>1, ScoreSame, CallSame
  <2>3. AmbiguityTies'
    BY <2>1, TiesSame DEF Ties
  <2> QED
    BY <1>8, <2>2, <2>3 DEF vars, Ties
<1> QED
  BY <1>1, <1>2, <1>4, <1>5, <1>6, <1>7, <1>8 DEF Next

\* When a call is reported as ambiguous, two candidates or more remain that no score,
\* no exact match and no generic function separates.
THEOREM AmbiguityIsReal == Spec => []AmbiguityTies
<1>1. Init => Ties
  BY DEF Init, Ties, AmbiguityTies, Pending
<1>2. IInv /\ IInv' /\ Ties /\ [Next]_vars => Ties'
  BY TiesStep
<1>3. Ties => AmbiguityTies
  BY DEF Ties
<1> QED
  BY <1>1, <1>2, <1>3, Invariance, PTL DEF Spec
=============================================================================
