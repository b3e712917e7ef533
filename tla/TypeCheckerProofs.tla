--------------------------- MODULE TypeCheckerProofs ---------------------------
(***************************************************************************)
(* The walk over the values, proved for every set of modules: what it      *)
(* reports as unsafe, what an accepted module may assign, and how often    *)
(* each value is visited.                                                  *)
(***************************************************************************)
EXTENDS TypeChecker, FiniteSetTheorems, SequenceTheorems, WellFoundedInduction, TLAPS

\* A set of natural numbers has a least one.
LEMMA Least ==
  ASSUME NEW S \in SUBSET Nat, S # {}
  PROVE  \E n \in S : \A y \in S : n <= y
<1> DEFINE Less == {ss \in Nat \X Nat : ss[1] < ss[2]}
<1>1. IsWellFoundedOn(Less, Nat)
  BY NatLessThanWellFounded, Zenon DEF OpToRel
<1>2. \E n \in S : \A y \in S : ~(<<y, n>> \in Less)
  BY <1>1, WFMin, Zenon
<1>3. \A n, y \in S : <<y, n>> \in Less <=> y < n
  OBVIOUS
<1> HIDE DEF Less
<1>4. PICK n \in S : \A y \in S : ~(y < n)
  BY <1>2, <1>3
<1>5. \A y \in S : n <= y
  BY <1>4
<1> QED
  BY <1>5

-----------------------------------------------------------------------------
(* Levels and chains, by their recursive definitions *)

Below(level) == UNION {Children(p) : p \in level}
IsLevels(f, m, N) == f = [n \in 0..N |-> IF n = 0 THEN Tops(m) ELSE Below(f[n - 1])]

\* The levels up to any number exist.
LEMMA LevelsExist ==
  ASSUME NEW m
  PROVE  \A N \in Nat : \E f : IsLevels(f, m, N)
<1> DEFINE Bad == {N \in Nat : ~\E f : IsLevels(f, m, N)}
<1>1. SUFFICES ASSUME Bad # {} PROVE FALSE
  OBVIOUS
<1>2. PICK N \in Bad : \A y \in Bad : N <= y
  <2> HIDE DEF Bad
  <2>1. Bad \in SUBSET Nat
    BY DEF Bad
  <2> QED
    BY <1>1, <2>1, Least
<1>3. CASE N = 0
  <2> DEFINE f == [n \in 0..0 |-> Tops(m)]
  <2>1. f = [n \in 0..N |-> IF n = 0 THEN Tops(m) ELSE Below(f[n - 1])]
    BY <1>3
  <2>2. IsLevels(f, m, N)
    BY <2>1 DEF IsLevels
  <2> QED
    BY <2>2
<1>4. CASE N # 0
  <2>1. N \in Nat /\ N - 1 \in Nat /\ N - 1 \notin Bad
    BY <1>2, <1>4
  <2>2. PICK f : IsLevels(f, m, N - 1)
    BY <2>1
  <2>3. /\ f = [n \in 0..(N - 1) |-> IF n = 0 THEN Tops(m) ELSE Below(f[n - 1])]
    BY <2>2 DEF IsLevels
  <2> DEFINE g == [n \in 0..N |-> IF n < N THEN f[n] ELSE Below(f[N - 1])]
  <2>4. \A n \in 0..N : g[n] = IF n = 0 THEN Tops(m) ELSE Below(g[n - 1])
    <3> SUFFICES ASSUME NEW n \in 0..N PROVE g[n] = IF n = 0 THEN Tops(m) ELSE Below(g[n - 1])
      OBVIOUS
    <3>1. CASE n = 0
      BY <1>4, <2>1, <2>3, <3>1
    <3>2. CASE n # 0 /\ n < N
      <4>1. n - 1 \in 0..N /\ n - 1 < N /\ n \in 0..(N - 1)
        BY <2>1, <3>2
      <4>2. g[n] = f[n] /\ g[n - 1] = f[n - 1] /\ f[n] = Below(f[n - 1])
        BY <2>3, <3>2, <4>1
      <4> QED
        BY <3>2, <4>2
    <3>3. CASE n = N
      <4>1. n - 1 \in 0..N /\ n - 1 < N
        BY <2>1, <3>3
      <4> QED
        BY <1>4, <3>3, <4>1
    <3> QED
      BY <2>1, <3>1, <3>2, <3>3
  <2>5. g = [n \in 0..N |-> IF n = 0 THEN Tops(m) ELSE Below(g[n - 1])]
    <3> DEFINE h == [n \in 0..N |-> IF n = 0 THEN Tops(m) ELSE Below(g[n - 1])]
    <3>1. h = g
      BY <2>4
    <3> QED
      BY <3>1
  <2>6. IsLevels(g, m, N)
    <3> HIDE DEF g
    <3> QED
      BY <2>5 DEF IsLevels
  <2> QED
    BY <1>2, <2>6
<1> QED
  BY <1>3, <1>4

\* The levels are what their definition says.
LEMMA LevelsAre ==
  ASSUME NEW m
  PROVE  /\ Levels(m)[0] = Tops(m)
         /\ \A n \in 1..MaxDepth : Levels(m)[n] = Below(Levels(m)[n - 1])
<1>1. MaxDepth \in Nat
  BY DepthAssumption
<1>2. Levels(m) = CHOOSE f : f = [n \in 0..MaxDepth |-> IF n = 0 THEN Tops(m) ELSE UNION {Children(p) : p \in f[n - 1]}]
  BY Zenon DEF Levels
<1>3. \E f : f = [n \in 0..MaxDepth |-> IF n = 0 THEN Tops(m) ELSE UNION {Children(p) : p \in f[n - 1]}]
  <2>1. PICK f : IsLevels(f, m, MaxDepth)
    BY <1>1, LevelsExist, Zenon
  <2>2. f = [n \in 0..MaxDepth |-> IF n = 0 THEN Tops(m) ELSE UNION {Children(p) : p \in f[n - 1]}]
    BY <2>1, Zenon DEF IsLevels, Below
  <2> QED
    BY <2>2, Zenon
<1>4. Levels(m) = [n \in 0..MaxDepth |-> IF n = 0 THEN Tops(m) ELSE UNION {Children(p) : p \in Levels(m)[n - 1]}]
  BY <1>2, <1>3, Zenon
<1> DEFINE L == Levels(m)
<1> HIDE DEF L
<1>5. L = [n \in 0..MaxDepth |-> IF n = 0 THEN Tops(m) ELSE Below(L[n - 1])]
  BY <1>4, Zenon DEF L, Below
<1>6. L[0] = Tops(m) /\ \A n \in 1..MaxDepth : L[n] = Below(L[n - 1])
  BY <1>1, <1>5
<1> QED
  BY <1>6 DEF L

Inward(v, kinds) == IF v.k \in kinds THEN v.of[1] ELSE v
IsChain(f, v, kinds, N) == f = [n \in 0..N |-> IF n = 0 THEN v ELSE Inward(f[n - 1], kinds)]

\* The chains of any length exist.
LEMMA ChainsExist ==
  ASSUME NEW v, NEW kinds
  PROVE  \A N \in Nat : \E f : IsChain(f, v, kinds, N)
<1> DEFINE Bad == {N \in Nat : ~\E f : IsChain(f, v, kinds, N)}
<1>1. SUFFICES ASSUME Bad # {} PROVE FALSE
  OBVIOUS
<1>2. PICK N \in Bad : \A y \in Bad : N <= y
  <2> HIDE DEF Bad
  <2>1. Bad \in SUBSET Nat
    BY DEF Bad
  <2> QED
    BY <1>1, <2>1, Least
<1>3. CASE N = 0
  <2> DEFINE f == [n \in 0..0 |-> v]
  <2>1. f = [n \in 0..N |-> IF n = 0 THEN v ELSE Inward(f[n - 1], kinds)]
    BY <1>3
  <2>2. IsChain(f, v, kinds, N)
    BY <2>1 DEF IsChain
  <2> QED
    BY <2>2
<1>4. CASE N # 0
  <2>1. N \in Nat /\ N - 1 \in Nat /\ N - 1 \notin Bad
    BY <1>2, <1>4
  <2>2. PICK f : IsChain(f, v, kinds, N - 1)
    BY <2>1
  <2>3. f = [n \in 0..(N - 1) |-> IF n = 0 THEN v ELSE Inward(f[n - 1], kinds)]
    BY <2>2 DEF IsChain
  <2> DEFINE g == [n \in 0..N |-> IF n < N THEN f[n] ELSE Inward(f[N - 1], kinds)]
  <2>4. \A n \in 0..N : g[n] = IF n = 0 THEN v ELSE Inward(g[n - 1], kinds)
    <3> SUFFICES ASSUME NEW n \in 0..N PROVE g[n] = IF n = 0 THEN v ELSE Inward(g[n - 1], kinds)
      OBVIOUS
    <3>1. CASE n = 0
      BY <1>4, <2>1, <2>3, <3>1
    <3>2. CASE n # 0 /\ n < N
      <4>1. n - 1 \in 0..N /\ n - 1 < N /\ n \in 0..(N - 1)
        BY <2>1, <3>2
      <4>2. g[n] = f[n] /\ g[n - 1] = f[n - 1] /\ f[n] = Inward(f[n - 1], kinds)
        BY <2>3, <3>2, <4>1
      <4> QED
        BY <3>2, <4>2
    <3>3. CASE n = N
      <4>1. n - 1 \in 0..N /\ n - 1 < N
        BY <2>1, <3>3
      <4> QED
        BY <1>4, <3>3, <4>1
    <3> QED
      BY <2>1, <3>1, <3>2, <3>3
  <2>5. g = [n \in 0..N |-> IF n = 0 THEN v ELSE Inward(g[n - 1], kinds)]
    <3> DEFINE h == [n \in 0..N |-> IF n = 0 THEN v ELSE Inward(g[n - 1], kinds)]
    <3>1. h = g
      BY <2>4
    <3> QED
      BY <3>1
  <2>6. IsChain(g, v, kinds, N)
    <3> HIDE DEF g
    <3> QED
      BY <2>5 DEF IsChain
  <2> QED
    BY <1>2, <2>6
<1> QED
  BY <1>3, <1>4

\* The chain from a value is what its definition says.
LEMMA AlongIs ==
  ASSUME NEW v, NEW kinds
  PROVE  /\ Along(v, kinds)[0] = v
         /\ \A n \in 1..MaxDepth : Along(v, kinds)[n] = Inward(Along(v, kinds)[n - 1], kinds)
<1>1. MaxDepth \in Nat
  BY DepthAssumption
<1>2. Along(v, kinds) = CHOOSE f : f = [n \in 0..MaxDepth |->
          IF n = 0 THEN v ELSE IF f[n - 1].k \in kinds THEN f[n - 1].of[1] ELSE f[n - 1]]
  BY Zenon DEF Along
<1>3. \E f : f = [n \in 0..MaxDepth |->
          IF n = 0 THEN v ELSE IF f[n - 1].k \in kinds THEN f[n - 1].of[1] ELSE f[n - 1]]
  <2>1. PICK f : IsChain(f, v, kinds, MaxDepth)
    BY <1>1, ChainsExist, Zenon
  <2>2. f = [n \in 0..MaxDepth |->
          IF n = 0 THEN v ELSE IF f[n - 1].k \in kinds THEN f[n - 1].of[1] ELSE f[n - 1]]
    BY <2>1, Zenon DEF IsChain, Inward
  <2> QED
    BY <2>2, Zenon
<1> DEFINE A == Along(v, kinds)
<1>4. A = [n \in 0..MaxDepth |->
          IF n = 0 THEN v ELSE IF A[n - 1].k \in kinds THEN A[n - 1].of[1] ELSE A[n - 1]]
  BY <1>2, <1>3, Zenon
<1> HIDE DEF A
<1>5. A = [n \in 0..MaxDepth |-> IF n = 0 THEN v ELSE Inward(A[n - 1], kinds)]
  BY <1>4, Zenon DEF Inward
<1>6. A[0] = v /\ \A n \in 1..MaxDepth : A[n] = Inward(A[n - 1], kinds)
  BY <1>1, <1>5
<1> QED
  BY <1>6 DEF A

-----------------------------------------------------------------------------
(* Sequences *)

IsSeq(s) == s \in Seq(Range(s))

\* A sequence has a length, and a value at every position up to it.
LEMMA SeqIs ==
  ASSUME NEW s, IsSeq(s)
  PROVE  Len(s) \in Nat /\ DOMAIN s = 1..Len(s)
BY DEF IsSeq

\* A sequence of anything is one of what it holds.
LEMMA IsSeqOf ==
  ASSUME NEW S, NEW s \in Seq(S)
  PROVE  IsSeq(s)
BY DEF IsSeq, Range

\* What Append adds, and what it keeps.
LEMMA Appended ==
  ASSUME NEW s, NEW x, IsSeq(s)
  PROVE  /\ IsSeq(Append(s, x)) /\ Len(s) \in Nat /\ Len(Append(s, x)) = Len(s) + 1
         /\ \A i \in 1..Len(s) : Append(s, x)[i] = s[i]
         /\ Append(s, x)[Len(s) + 1] = x /\ Last(Append(s, x)) = x
<1> DEFINE S == Range(s) \cup {x}
           a == Append(s, x)
<1>1. s \in Seq(S) /\ x \in S
  BY DEF IsSeq
<1> HIDE DEF S
<1>2. /\ a \in Seq(S) /\ Len(s) \in Nat /\ Len(a) = Len(s) + 1
      /\ \A i \in 1..Len(s) : a[i] = s[i]
      /\ a[Len(s) + 1] = x
  BY <1>1
<1> HIDE DEF a
<1>3. IsSeq(a)
  BY <1>2, IsSeqOf
<1>4. Last(a) = x
  BY <1>2 DEF Last
<1> QED
  BY <1>2, <1>3, <1>4 DEF a

\* Append tells both the sequence and what was added.
LEMMA AppendedSame ==
  ASSUME NEW s, NEW x, NEW u, NEW y, IsSeq(s), IsSeq(u), Append(s, x) = Append(u, y)
  PROVE  s = u /\ x = y
<1>1. /\ Len(s) \in Nat /\ Len(u) \in Nat /\ Len(s) + 1 = Len(u) + 1
      /\ \A i \in 1..Len(s) : Append(s, x)[i] = s[i]
      /\ \A i \in 1..Len(u) : Append(u, y)[i] = u[i]
  <2>1. Len(s) \in Nat /\ Len(Append(s, x)) = Len(s) + 1 /\ \A i \in 1..Len(s) : Append(s, x)[i] = s[i]
    BY Appended, Zenon
  <2>2. Len(u) \in Nat /\ Len(Append(u, y)) = Len(u) + 1 /\ \A i \in 1..Len(u) : Append(u, y)[i] = u[i]
    BY Appended, Zenon
  <2> QED
    BY <2>1, <2>2, Zenon
<1>2. Len(s) = Len(u)
  BY <1>1
<1>3. \A i \in 1..Len(s) : s[i] = u[i]
  BY <1>1, <1>2, Zenon
<1>4. s = u
  <2>1. s \in Seq(Range(s) \cup Range(u)) /\ u \in Seq(Range(s) \cup Range(u))
    BY DEF IsSeq
  <2> QED
    BY <1>2, <1>3, <2>1, SeqEqual
<1>5. x = y
  <2>1. Append(s, x)[Len(s) + 1] = x /\ Append(u, y)[Len(u) + 1] = y
    BY Appended, Zenon
  <2> QED
    BY <1>2, <2>1
<1> QED
  BY <1>4, <1>5

\* Tuples that are equal have equal parts, and the same length.
LEMMA Pairs ==
  /\ \A x, y : <<x>> = <<y>> => x = y
  /\ \A x, y, u, v : <<x, y>> = <<u, v>> => y = v
  /\ \A x, y, z : <<x>> # <<y, z>>
<1>1. ASSUME NEW x, NEW y, <<x>> = <<y>> PROVE x = y
  BY <1>1
<1>2. ASSUME NEW x, NEW y, NEW u, NEW v, <<x, y>> = <<u, v>> PROVE y = v
  BY <1>2
<1>3. ASSUME NEW x, NEW y, NEW z, <<x>> = <<y, z>> PROVE FALSE
  BY <1>3
<1> QED
  BY <1>1, <1>2, <1>3, Zenon

-----------------------------------------------------------------------------
(* Places *)

Names == {f.name : f \in Range(module.functions)}

\* The places are the tops, the children of places, and nothing else.
LEMMA PlacesAre ==
  ASSUME module \in Program
  PROVE  /\ Tops(module) \subseteq Places
         /\ \A p \in Places : Children(p) \subseteq Places
         /\ \A p \in Places : p \in Tops(module) \/ \E q \in Places : p \in Children(q)
<1> DEFINE L == Levels(module)
<1>1. /\ MaxDepth \in Nat /\ L[MaxDepth] = {} /\ L[0] = Tops(module)
      /\ \A n \in 1..MaxDepth : L[n] = Below(L[n - 1])
  BY DepthAssumption, LevelsAre
<1>2. Places = UNION {L[n] : n \in 0..MaxDepth}
  BY DEF Places, PlacesOf
<1> HIDE DEF L
<1>3. Tops(module) \subseteq Places
  BY <1>1, <1>2
<1>4. ASSUME NEW p \in Places PROVE Children(p) \subseteq Places
  <2>1. PICK n \in 0..MaxDepth : p \in L[n]
    BY <1>2
  <2>2. n + 1 \in 1..MaxDepth /\ n + 1 \in 0..MaxDepth /\ (n + 1) - 1 = n
    BY <1>1, <2>1
  <2>3. Children(p) \subseteq L[n + 1]
    BY <1>1, <2>1, <2>2 DEF Below
  <2> QED
    BY <1>2, <2>2, <2>3
<1>5. ASSUME NEW p \in Places PROVE p \in Tops(module) \/ \E q \in Places : p \in Children(q)
  <2>1. PICK n \in 0..MaxDepth : p \in L[n]
    BY <1>2
  <2>2. CASE n = 0
    BY <1>1, <2>1, <2>2
  <2>3. CASE n # 0
    <3>1. n \in 1..MaxDepth /\ n - 1 \in 0..MaxDepth
      BY <1>1, <2>3
    <3>2. PICK q \in L[n - 1] : p \in Children(q)
      BY <1>1, <2>1, <3>1 DEF Below
    <3> QED
      BY <1>2, <3>1, <3>2
  <2> QED
    BY <2>2, <2>3
<1> QED
  BY <1>3, <1>4, <1>5

\* What holds of the tops and goes from places to their children holds of all places.
LEMMA PlacesInduction ==
  ASSUME module \in Program, NEW S, Tops(module) \subseteq S, \A p \in Places \cap S : Children(p) \subseteq S
  PROVE  Places \subseteq S
<1> DEFINE L == Levels(module)
           Bad == {n \in 0..MaxDepth : ~(L[n] \subseteq S)}
<1>1. /\ MaxDepth \in Nat /\ L[0] = Tops(module)
      /\ \A n \in 1..MaxDepth : L[n] = Below(L[n - 1])
  BY DepthAssumption, LevelsAre
<1>2. Places = UNION {L[n] : n \in 0..MaxDepth}
  BY DEF Places, PlacesOf
<1> HIDE DEF L
<1>3. SUFFICES ASSUME Bad # {} PROVE FALSE
  BY <1>2
<1>4. PICK n \in Bad : \A y \in Bad : n <= y
  <2>1. Bad \in SUBSET Nat
    OBVIOUS
  <2> HIDE DEF Bad
  <2> QED
    BY <1>3, <2>1, Least
<1>5. n # 0
  BY <1>1
<1>6. n \in 1..MaxDepth /\ n - 1 \in 0..MaxDepth /\ n - 1 \notin Bad
  BY <1>1, <1>4, <1>5
<1>7. L[n - 1] \subseteq S /\ L[n - 1] \subseteq Places
  BY <1>2, <1>6
<1>8. L[n] \subseteq S
  BY <1>1, <1>6, <1>7 DEF Below
<1> QED
  BY <1>4, <1>8

\* The levels count the values on the way, so no way is longer than MaxDepth.
LEMMA WaysAreShort ==
  ASSUME module \in Program, \A p \in Places : IsSeq(p.way), \A p \in Tops(module) : Len(p.way) = 1
  PROVE  \A p \in Places : Len(p.way) <= MaxDepth
<1> DEFINE L == Levels(module)
           Bad == {n \in 0..MaxDepth : ~\A p \in L[n] : Len(p.way) = n + 1}
<1>1. /\ MaxDepth \in Nat /\ L[0] = Tops(module) /\ L[MaxDepth] = {}
      /\ \A n \in 1..MaxDepth : L[n] = Below(L[n - 1])
  BY DepthAssumption, LevelsAre
<1>2. Places = UNION {L[n] : n \in 0..MaxDepth}
  BY DEF Places, PlacesOf
<1> HIDE DEF L
<1>3. Bad = {}
  <2>0. SUFFICES ASSUME Bad # {} PROVE FALSE
    OBVIOUS
  <2>1. PICK n \in Bad : \A y \in Bad : n <= y
    <3>1. Bad \in SUBSET Nat
      OBVIOUS
    <3> HIDE DEF Bad
    <3> QED
      BY <2>0, <3>1, Least
  <2>2. n # 0
    <3>1. \A p \in L[0] : Len(p.way) = 0 + 1
      BY <1>1
    <3> QED
      BY <2>1, <3>1
  <2>3. n \in 1..MaxDepth /\ n - 1 \in 0..MaxDepth /\ n - 1 \notin Bad
    BY <1>1, <2>1, <2>2
  <2>4. ASSUME NEW p \in L[n] PROVE Len(p.way) = n + 1
    <3>1. PICK q \in L[n - 1] : p \in Children(q)
      BY <1>1, <2>3 DEF Below
    <3>2. Len(q.way) = (n - 1) + 1 /\ q \in Places
      BY <1>2, <2>3
    <3>3. PICK i : p.way = Append(q.way, Last(q.way).of[i])
      BY <3>1 DEF Children, Child
    <3>4. Len(p.way) = Len(q.way) + 1
      BY <3>2, <3>3, Appended
    <3> QED
      BY <2>3, <3>2, <3>4
  <2> QED
    BY <2>1, <2>4
<1>4. ASSUME NEW p \in Places PROVE Len(p.way) <= MaxDepth
  <2>1. PICK n \in 0..MaxDepth : p \in L[n]
    BY <1>2
  <2>2. Len(p.way) = n + 1 /\ n # MaxDepth
    BY <1>1, <1>3, <2>1
  <2> QED
    BY <1>1, <2>1, <2>2
<1> QED
  BY <1>4

\* How a place is made: a way of values, each in the one before it at the position taken.
Goes(p) ==
  /\ IsSeq(p.way) /\ IsSeq(p.at) /\ Len(p.way) \in Nat \ {0} /\ Len(p.at) = Len(p.way) + Offset(p)
  /\ \/ Offset(p) = 0 /\ p.at[1] \in Names
     \/ Offset(p) = 1 /\ p.at[1] = NoFunction
  /\ \A i \in 1..(Len(p.way) - 1) : /\ p.at[i + 1 + Offset(p)] \in DOMAIN p.way[i].of
                                    /\ p.way[i + 1] = p.way[i].of[p.at[i + 1 + Offset(p)]]

\* What ASSUME says of the module.
LEMMA Program1 ==
  ASSUME module \in Program
  PROVE  /\ IsSeq(module.functions) /\ IsSeq(module.variables) /\ NoFunction \notin Names
         /\ \A f, g \in Range(module.functions) : f.name = g.name => f = g
         /\ \A f \in Range(module.functions) : IsSeq(f.body) /\ Len(f.body) <= 1
         /\ \A p \in Places : WellFormed(Value(p), module)
BY ProgramAssumption DEF IsSeq, Names, Places

\* A top is the body of a function or a variable.
LEMMA TopIs ==
  ASSUME module \in Program, NEW p \in Tops(module)
  PROVE  /\ Len(p.way) = 1 /\ Value(p) = p.way[1] /\ Goes(p)
         /\ \/ \E f \in Bodies(module) : p = [at |-> <<f.name>>, way |-> <<f.body[1]>>]
            \/ \E i \in DOMAIN module.variables : p = [at |-> <<NoFunction, i>>, way |-> <<module.variables[i]>>]
<1>1. \/ \E f \in Bodies(module) : p = [at |-> <<f.name>>, way |-> <<f.body[1]>>]
      \/ \E i \in DOMAIN module.variables : p = [at |-> <<NoFunction, i>>, way |-> <<module.variables[i]>>]
  BY DEF Tops
<1>2. CASE \E f \in Bodies(module) : p = [at |-> <<f.name>>, way |-> <<f.body[1]>>]
  <2>1. PICK f \in Bodies(module) : p = [at |-> <<f.name>>, way |-> <<f.body[1]>>]
    BY <1>2
  <2>2. p.at = <<f.name>> /\ p.way = <<f.body[1]>> /\ f.name \in Names
    BY <2>1 DEF Bodies, Names
  <2>3. IsSeq(p.way) /\ IsSeq(p.at) /\ Len(p.way) = 1 /\ Len(p.at) = 1 /\ p.at[1] = f.name
    BY <2>2 DEF IsSeq, Range
  <2>4. Offset(p) = 0
    BY <2>3 DEF Offset
  <2>5. Goes(p)
    BY <2>2, <2>3, <2>4 DEF Goes
  <2> QED
    BY <1>1, <2>3, <2>5 DEF Value, Last
<1>3. CASE \E i \in DOMAIN module.variables : p = [at |-> <<NoFunction, i>>, way |-> <<module.variables[i]>>]
  <2>1. PICK i \in DOMAIN module.variables : p = [at |-> <<NoFunction, i>>, way |-> <<module.variables[i]>>]
    BY <1>3
  <2>2. p.at = <<NoFunction, i>> /\ p.way = <<module.variables[i]>>
    BY <2>1
  <2>3. IsSeq(p.way) /\ IsSeq(p.at) /\ Len(p.way) = 1 /\ Len(p.at) = 2 /\ p.at[1] = NoFunction
    BY <2>2 DEF IsSeq, Range
  <2>4. Offset(p) = 1
    BY <2>3 DEF Offset
  <2>5. Goes(p)
    BY <2>2, <2>3, <2>4 DEF Goes
  <2> QED
    BY <1>1, <2>3, <2>5 DEF Value, Last
<1> QED
  BY <1>1, <1>2, <1>3

\* A child has one value and one position more than its parent.
LEMMA ChildIs ==
  ASSUME NEW p, Goes(p), NEW i \in DOMAIN Value(p).of, NEW c, c = Child(p, i)
  PROVE  /\ Goes(c) /\ Offset(c) = Offset(p) /\ Len(c.way) = Len(p.way) + 1 /\ c.at[1] = p.at[1]
         /\ c.at = Append(p.at, i) /\ Value(c) = Value(p).of[i]
         /\ \A j \in 1..Len(p.way) : c.way[j] = p.way[j]
         /\ \A j \in 1..Len(p.at) : c.at[j] = p.at[j]
         /\ c.at[Len(p.at) + 1] = i
         /\ Len(p.way) \in Nat \ {0} /\ Value(p) = p.way[Len(p.way)] /\ Value(c) = c.way[Len(p.way) + 1]
<1>1. c.at = Append(p.at, i) /\ c.way = Append(p.way, Value(p).of[i])
  BY DEF Child, Value
<1>2. /\ IsSeq(c.at) /\ Len(c.at) = Len(p.at) + 1 /\ c.at[Len(p.at) + 1] = i /\ Len(p.at) \in Nat
      /\ \A j \in 1..Len(p.at) : c.at[j] = p.at[j]
  <2>1. IsSeq(p.at)
    BY DEF Goes
  <2> QED
    BY <1>1, <2>1, Appended
<1>3. /\ IsSeq(c.way) /\ Len(c.way) = Len(p.way) + 1 /\ c.way[Len(p.way) + 1] = Value(p).of[i] /\ Len(p.way) \in Nat \ {0}
      /\ \A j \in 1..Len(p.way) : c.way[j] = p.way[j]
      /\ Value(c) = Value(p).of[i]
  <2>1. IsSeq(p.way) /\ Len(p.way) \in Nat \ {0}
    BY DEF Goes
  <2> QED
    BY <1>1, <2>1, Appended DEF Value
<1>4. Offset(c) = Offset(p) /\ Offset(p) \in {0, 1} /\ Len(p.at) = Len(p.way) + Offset(p)
  <2>1. Offset(p) \in {0, 1} /\ Len(p.at) = Len(p.way) + Offset(p)
    BY DEF Goes
  <2> QED
    BY <1>2, <1>3, <2>1 DEF Offset
<1>5. c.at[1] = p.at[1]
  <2>1. Len(p.at) >= 1
    BY <1>3, <1>4
  <2>2. 1 \in 1..Len(p.at)
    BY <1>2, <2>1
  <2> QED
    BY <1>2, <2>2
<1>6. Value(p) = p.way[Len(p.way)]
  BY DEF Value, Last
<1>7. ASSUME NEW j \in 1..(Len(c.way) - 1)
      PROVE  /\ c.at[j + 1 + Offset(c)] \in DOMAIN c.way[j].of
             /\ c.way[j + 1] = c.way[j].of[c.at[j + 1 + Offset(c)]]
  <2>1. j \in 1..Len(p.way)
    BY <1>3
  <2>2. CASE j = Len(p.way)
    <3>1. j + 1 + Offset(c) = Len(p.at) + 1
      BY <1>2, <1>3, <1>4, <2>2
    <3> QED
      BY <1>2, <1>3, <1>6, <2>1, <2>2, <3>1
  <2>3. CASE j # Len(p.way)
    <3>1. j \in 1..(Len(p.way) - 1) /\ j + 1 \in 1..Len(p.way) /\ j + 1 + Offset(p) \in 1..Len(p.at)
      BY <1>3, <1>4, <2>1, <2>3
    <3>2. c.way[j] = p.way[j] /\ c.way[j + 1] = p.way[j + 1] /\ c.at[j + 1 + Offset(c)] = p.at[j + 1 + Offset(p)]
      BY <1>2, <1>3, <1>4, <2>1, <3>1
    <3>3. p.at[j + 1 + Offset(p)] \in DOMAIN p.way[j].of /\ p.way[j + 1] = p.way[j].of[p.at[j + 1 + Offset(p)]]
      BY <3>1 DEF Goes
    <3> QED
      BY <3>2, <3>3
  <2> QED
    BY <2>2, <2>3
<1>8. Goes(c)
  <2>1. Len(c.way) \in Nat \ {0} /\ Len(c.at) = Len(c.way) + Offset(c)
    BY <1>2, <1>3, <1>4
  <2>2. \/ Offset(c) = 0 /\ c.at[1] \in Names
        \/ Offset(c) = 1 /\ c.at[1] = NoFunction
    BY <1>4, <1>5 DEF Goes
  <2> QED
    BY <1>2, <1>3, <1>7, <2>1, <2>2 DEF Goes
<1> QED
  BY <1>1, <1>2, <1>3, <1>4, <1>5, <1>6, <1>8

\* Every place is made so.
LEMMA AllGo ==
  ASSUME module \in Program
  PROVE  \A p \in Places : Goes(p)
<1> DEFINE S == {p \in Places : Goes(p)}
<1>1. Tops(module) \subseteq S
  BY TopIs, PlacesAre
<1>2. ASSUME NEW p \in Places \cap S PROVE Children(p) \subseteq S
  <2>1. SUFFICES ASSUME NEW c \in Children(p) PROVE c \in S
    OBVIOUS
  <2>2. PICK i \in DOMAIN Value(p).of : c = Child(p, i)
    BY DEF Children, Value
  <2>3. Goes(c)
    BY <1>2, <2>2, ChildIs
  <2> QED
    BY <1>2, <2>3, PlacesAre
<1> HIDE DEF S
<1>3. Places \subseteq S
  BY <1>1, <1>2, PlacesInduction
<1> QED
  BY <1>3 DEF S

\* A place is a top or a child, and a child is a place; no way is longer than MaxDepth.
LEMMA Family ==
  ASSUME module \in Program, NEW p \in Places
  PROVE  /\ Goes(p) /\ WellFormed(Value(p), module) /\ Len(p.way) <= MaxDepth
         /\ \A i \in DOMAIN Value(p).of : Child(p, i) \in Places
         /\ p \in Tops(module) \/ \E q \in Places : \E i \in DOMAIN Value(q).of : p = Child(q, i)
<1>1. Goes(p) /\ WellFormed(Value(p), module)
  BY AllGo, Program1
<1>2. Len(p.way) <= MaxDepth
  <2>1. \A q \in Places : IsSeq(q.way)
    BY AllGo DEF Goes
  <2>2. \A q \in Tops(module) : Len(q.way) = 1
    BY TopIs
  <2> QED
    BY <2>1, <2>2, WaysAreShort
<1> QED
  BY <1>1, <1>2, PlacesAre DEF Children, Value

\* The positions tell the place.
LEMMA Unique ==
  ASSUME module \in Program
  PROVE  \A p, q \in Places : p.at = q.at => p = q
<1> DEFINE S == {p \in Places : \A q \in Places : p.at = q.at => p = q}
<1>1. ASSUME NEW p \in Tops(module), NEW q \in Places, NEW i \in DOMAIN Value(q).of
      PROVE  p.at # Append(q.at, i)
  <2>1. IsSeq(q.at) /\ Len(q.at) \in Nat \ {0} /\ (Len(q.at) = 1 => q.at[1] # NoFunction)
    <3>1. Goes(q)
      BY AllGo
    <3> QED
      BY <3>1, Program1 DEF Goes
  <2>2. Len(Append(q.at, i)) = Len(q.at) + 1 /\ Append(q.at, i)[1] = q.at[1]
    BY <2>1, Appended
  <2>3. Len(p.at) = 1 \/ (Len(p.at) = 2 /\ p.at[1] = NoFunction)
    BY TopIs
  <2>4. SUFFICES ASSUME p.at = Append(q.at, i) PROVE FALSE
    OBVIOUS
  <2>5. Len(p.at) = Len(q.at) + 1 /\ p.at[1] = q.at[1]
    BY <2>2, <2>4, Zenon
  <2>6. ASSUME NEW a \in Nat, NEW b \in Nat \ {0}, a = b + 1, a = 1 \/ a = 2 PROVE a = 2 /\ b = 1
    BY <2>6
  <2>7. Len(p.at) = 1 \/ Len(p.at) = 2
    BY <2>3, Zenon
  <2>8. Len(p.at) = 2 /\ Len(q.at) = 1
    <3>1. Len(p.at) \in Nat
      BY <2>7
    <3> QED
      BY <2>1, <2>5, <2>6, <2>7, <3>1, Zenon
  <2>9. Len(p.at) # 1
    BY <2>8
  <2> QED
    BY <2>1, <2>3, <2>5, <2>8, <2>9, Zenon
<1>2. ASSUME NEW p \in Tops(module), NEW q \in Tops(module), p.at = q.at PROVE p = q
  <2>1. CASE \E f \in Bodies(module) : p = [at |-> <<f.name>>, way |-> <<f.body[1]>>]
    <3>1. PICK f \in Bodies(module) : p = [at |-> <<f.name>>, way |-> <<f.body[1]>>]
      BY <2>1
    <3>2. p.at = <<f.name>>
      BY <3>1
    <3>3. PICK g \in Bodies(module) : q = [at |-> <<g.name>>, way |-> <<g.body[1]>>]
      <4>1. ASSUME NEW i, q = [at |-> <<NoFunction, i>>, way |-> <<module.variables[i]>>] PROVE FALSE
        <5>1. q.at = <<NoFunction, i>>
          BY <4>1
        <5>2. p.at = q.at
          BY <1>2
        <5> QED
          BY <3>2, <5>1, <5>2, Pairs, Zenon
      <4> QED
        BY <4>1, TopIs
    <3>4. q.at = <<g.name>>
      BY <3>3
    <3>5. f.name = g.name
      <4>1. p.at = q.at
        BY <1>2
      <4> QED
        BY <3>2, <3>4, <4>1, Pairs, Zenon
    <3>6. f \in Range(module.functions) /\ g \in Range(module.functions)
      BY DEF Bodies
    <3> QED
      BY <3>1, <3>3, <3>5, <3>6, Program1
  <2>2. CASE \E i \in DOMAIN module.variables : p = [at |-> <<NoFunction, i>>, way |-> <<module.variables[i]>>]
    <3>1. PICK i \in DOMAIN module.variables : p = [at |-> <<NoFunction, i>>, way |-> <<module.variables[i]>>]
      BY <2>2
    <3>2. p.at = <<NoFunction, i>>
      BY <3>1
    <3>3. PICK j \in DOMAIN module.variables : q = [at |-> <<NoFunction, j>>, way |-> <<module.variables[j]>>]
      <4>1. ASSUME NEW f, q = [at |-> <<f.name>>, way |-> <<f.body[1]>>] PROVE FALSE
        <5>1. q.at = <<f.name>>
          BY <4>1
        <5>2. p.at = q.at
          BY <1>2
        <5> QED
          BY <3>2, <5>1, <5>2, Pairs, Zenon
      <4> QED
        BY <4>1, TopIs
    <3>4. q.at = <<NoFunction, j>>
      BY <3>3
    <3>5. i = j
      <4>1. p.at = q.at
        BY <1>2
      <4> QED
        BY <3>2, <3>4, <4>1, Pairs, Zenon
    <3> QED
      BY <3>1, <3>3, <3>5
  <2> QED
    BY <2>1, <2>2, TopIs
<1>3. Tops(module) \subseteq S
  <2> SUFFICES ASSUME NEW p \in Tops(module), NEW q \in Places, p.at = q.at PROVE p = q
    BY PlacesAre
  <2>1. CASE q \in Tops(module)
    BY <1>2, <2>1
  <2>2. CASE \E r \in Places : \E i \in DOMAIN Value(r).of : q = Child(r, i)
    <3>1. PICK r \in Places : \E i \in DOMAIN Value(r).of : q = Child(r, i)
      BY <2>2
    <3>2. PICK i \in DOMAIN Value(r).of : q = Child(r, i)
      BY <3>1
    <3>3. q.at = Append(r.at, i)
      BY <3>2 DEF Child
    <3> QED
      BY <1>1, <3>3
  <2> QED
    BY <2>1, <2>2, Family
<1>4. ASSUME NEW p \in Places \cap S PROVE Children(p) \subseteq S
  <2> SUFFICES ASSUME NEW c \in Children(p) PROVE c \in S
    OBVIOUS
  <2>1. PICK i \in DOMAIN Value(p).of : c = Child(p, i)
    BY DEF Children, Value
  <2>2. c \in Places /\ c.at = Append(p.at, i)
    BY <1>4, <2>1, PlacesAre DEF Child
  <2>3. ASSUME NEW q \in Places, c.at = q.at PROVE c = q
    <3>1. CASE q \in Tops(module)
      BY <1>1, <1>4, <2>2, <2>3, <3>1
    <3>2. CASE \E r \in Places : \E j \in DOMAIN Value(r).of : q = Child(r, j)
      <4>1. PICK r \in Places : \E j \in DOMAIN Value(r).of : q = Child(r, j)
        BY <3>2
      <4>2. PICK j \in DOMAIN Value(r).of : q = Child(r, j)
        BY <4>1
      <4>3. q.at = Append(r.at, j)
        BY <4>2 DEF Child
      <4>4. IsSeq(p.at) /\ IsSeq(r.at)
        BY <1>4, AllGo DEF Goes
      <4>5. Append(p.at, i) = Append(r.at, j)
        BY <2>2, <2>3, <4>3
      <4>6. p.at = r.at /\ i = j
        BY <4>4, <4>5, AppendedSame
      <4>7. p = r
        BY <1>4, <4>6
      <4> QED
        BY <2>1, <4>2, <4>6, <4>7
    <3> QED
      BY <3>1, <3>2, Family
  <2> QED
    BY <2>2, <2>3
<1> HIDE DEF S
<1>5. Places \subseteq S
  BY <1>3, <1>4, PlacesInduction
<1> QED
  BY <1>5 DEF S

-----------------------------------------------------------------------------
(* What lies on the way to a place *)

SkipStep(v, i) ==
  \/ v.k = "switch" /\ i > v.cases + 1
  \/ v.k = "while" /\ i = 3
  \/ v.k = "index"
Opens(v) == v.k = "block" /\ v.unsafe
UnsafeFunc(m, g) ==
  \E f \in Bodies(m) : f.name = g /\ "UNSAFE" \in f.attributes /\ "UNSAFE_FUNC_NOT_BODY" \notin f.attributes

\* A child has the steps of its parent and its own; a top has none.
LEMMA StepsAre ==
  /\ \A p : Goes(p) => \A i \in DOMAIN Value(p).of : Steps(Child(p, i)) = Steps(p) \cup {<<Value(p), i>>}
  /\ \A p : Goes(p) /\ Len(p.way) = 1 => Steps(p) = {}
<1>1. ASSUME NEW p, Goes(p), NEW i \in DOMAIN Value(p).of, NEW c, c = Child(p, i)
      PROVE  Steps(c) = Steps(p) \cup {<<Value(p), i>>}
  <2>1. /\ Offset(c) = Offset(p) /\ Len(c.way) = Len(p.way) + 1
        /\ \A j \in 1..Len(p.way) : c.way[j] = p.way[j]
        /\ \A j \in 1..Len(p.at) : c.at[j] = p.at[j]
        /\ c.at[Len(p.at) + 1] = i
        /\ Len(p.way) \in Nat \ {0} /\ Value(p) = p.way[Len(p.way)]
    BY <1>1, ChildIs
  <2>2. Len(p.at) = Len(p.way) + Offset(p) /\ Offset(p) \in {0, 1}
    BY <1>1 DEF Goes
  <2>3. Len(c.at) - Len(c.way) = Offset(p) /\ Len(p.at) - Len(p.way) = Offset(p)
    BY <2>1 DEF Offset
  <2>4. Steps(c) = {<<c.way[j], c.at[Offset(p) + j + 1]>> : j \in 1..Len(p.way)}
    <3>1. Len(c.way) - 1 = Len(p.way)
      BY <2>1
    <3> QED
      BY <2>3, <3>1, Zenon DEF Steps
  <2>5. Steps(p) = {<<p.way[j], p.at[Offset(p) + j + 1]>> : j \in 1..(Len(p.way) - 1)}
    BY <2>3, Zenon DEF Steps
  <2>6. ASSUME NEW j \in 1..(Len(p.way) - 1)
        PROVE  j \in 1..Len(p.way) /\ <<c.way[j], c.at[Offset(p) + j + 1]>> = <<p.way[j], p.at[Offset(p) + j + 1]>>
    <3>1. j \in 1..Len(p.way) /\ Offset(p) + j + 1 \in 1..Len(p.at)
      BY <2>1, <2>2
    <3>2. c.way[j] = p.way[j] /\ c.at[Offset(p) + j + 1] = p.at[Offset(p) + j + 1]
      BY <2>1, <3>1
    <3> QED
      BY <3>1, <3>2
  <2>7. <<c.way[Len(p.way)], c.at[Offset(p) + Len(p.way) + 1]>> = <<Value(p), i>> /\ Len(p.way) \in 1..Len(p.way)
    <3>1. Len(p.way) \in 1..Len(p.way) /\ Offset(p) + Len(p.way) + 1 = Len(p.at) + 1
      BY <2>1, <2>2
    <3>2. c.way[Len(p.way)] = Value(p) /\ c.at[Offset(p) + Len(p.way) + 1] = i
      BY <2>1, <3>1
    <3> QED
      BY <3>1, <3>2
  <2>8. \A j \in 1..Len(p.way) : j = Len(p.way) \/ j \in 1..(Len(p.way) - 1)
    BY <2>1
  <2> QED
    BY <2>4, <2>5, <2>6, <2>7, <2>8, ZenonT(60)
<1>2. ASSUME NEW p, Goes(p), Len(p.way) = 1 PROVE Steps(p) = {}
  BY <1>2 DEF Steps
<1> QED
  BY <1>1, <1>2

\* What is skipped below a place, and what lies in an unsafe block there.
LEMMA ChildReached ==
  ASSUME module \in Program, NEW p \in Reached, NEW i \in DOMAIN Value(p).of, ~SkipStep(Value(p), i),
         NEW c, c = Child(p, i)
  PROVE  c \in Reached /\ c.at[1] = p.at[1] /\ InUnsafe(c) = (InUnsafe(p) \/ Opens(Value(p)))
<1>1. p \in Places /\ ~Skipped(p) /\ Goes(p) /\ c \in Places
  BY Family DEF Reached
<1>2. Steps(c) = Steps(p) \cup {<<Value(p), i>>} /\ c.at[1] = p.at[1]
  BY <1>1, StepsAre, ChildIs
<1>3. ~Skipped(c)
  <2>1. \A s : ~SkipStep(s[1], s[2]) \/ s \notin Steps(p)
    BY <1>1 DEF Skipped, SkipStep
  <2>2. \A s \in Steps(c) : ~SkipStep(s[1], s[2])
    BY <1>2, <2>1
  <2> QED
    BY <2>2, Zenon DEF Skipped, SkipStep
<1>4. (\E s \in Steps(c) : Opens(s[1])) <=> (\E s \in Steps(p) : Opens(s[1])) \/ Opens(Value(p))
  <2>1. <<Value(p), i>>[1] = Value(p)
    OBVIOUS
  <2>2. \A s : s \in Steps(c) <=> s \in Steps(p) \/ s = <<Value(p), i>>
    BY <1>2, Zenon
  <2> QED
    BY <2>1, <2>2, Zenon
<1>5. InUnsafe(c) = ((\E s \in Steps(c) : Opens(s[1])) \/ UnsafeFunc(module, c.at[1]))
  BY Zenon DEF InUnsafe, Opens, UnsafeFunc
<1>6. InUnsafe(p) = ((\E s \in Steps(p) : Opens(s[1])) \/ UnsafeFunc(module, p.at[1]))
  BY Zenon DEF InUnsafe, Opens, UnsafeFunc
<1>7. InUnsafe(c) = (InUnsafe(p) \/ Opens(Value(p)))
  BY <1>2, <1>4, <1>5, <1>6, Zenon
<1> QED
  BY <1>1, <1>2, <1>3, <1>7 DEF Reached

\* A top is never skipped; its context is that of its function.
LEMMA TopReached ==
  ASSUME module \in Program, NEW p \in Tops(module)
  PROVE  p \in Reached /\ InUnsafe(p) = UnsafeFunc(module, p.at[1])
<1>1. p \in Places /\ Steps(p) = {}
  BY TopIs, StepsAre, PlacesAre
<1>2. ~Skipped(p)
  BY <1>1 DEF Skipped
<1>3. InUnsafe(p) = UnsafeFunc(module, p.at[1])
  BY <1>1, Zenon DEF InUnsafe, UnsafeFunc
<1> QED
  BY <1>1, <1>2, <1>3 DEF Reached

\* a lies on the way to p, or is p.
Leads(a, p) ==
  /\ Offset(a) = Offset(p) /\ Len(a.way) <= Len(p.way)
  /\ \A j \in 1..Len(a.way) : a.way[j] = p.way[j]
  /\ \A j \in 1..Len(a.at) : a.at[j] = p.at[j]

\* From a place on the way, one step leads on.
LEMMA NextOnTheWay ==
  ASSUME module \in Program, NEW a \in Places, NEW p \in Reached, Leads(a, p), a # p
  PROVE  \E i \in DOMAIN Value(a).of : ~SkipStep(Value(a), i) /\ Leads(Child(a, i), p)
<1>1. Goes(a) /\ Goes(p) /\ p \in Places /\ ~Skipped(p)
  BY Family DEF Reached
<1>2. /\ Len(a.way) \in Nat \ {0} /\ Len(p.way) \in Nat \ {0} /\ Offset(a) = Offset(p) /\ Offset(a) \in {0, 1}
      /\ Len(a.at) = Len(a.way) + Offset(a) /\ Len(p.at) = Len(p.way) + Offset(a) /\ Len(a.way) <= Len(p.way)
  BY <1>1 DEF Goes, Leads
<1>3. Len(a.way) # Len(p.way)
  <2>1. SUFFICES ASSUME Len(a.way) = Len(p.way) PROVE FALSE
    OBVIOUS
  <2>2. Len(a.at) = Len(p.at) /\ Len(a.at) \in Nat
    BY <1>2, <2>1
  <2>3. \A j \in 1..Len(a.at) : a.at[j] = p.at[j]
    BY DEF Leads
  <2>4. a.at = p.at
    <3>1. a.at \in Seq(Range(a.at) \cup Range(p.at)) /\ p.at \in Seq(Range(a.at) \cup Range(p.at))
      <4>1. IsSeq(a.at) /\ IsSeq(p.at)
        BY <1>1 DEF Goes
      <4> QED
        BY <4>1 DEF IsSeq
    <3> QED
      BY <2>2, <2>3, <3>1, SeqEqual
  <2> QED
    BY <1>1, <2>4, Unique
<1> DEFINE n == Len(a.way)
           i == p.at[n + 1 + Offset(p)]
<1>4. n \in 1..(Len(p.way) - 1) /\ n + 1 \in 1..Len(p.way)
  BY <1>2, <1>3
<1>5. p.way[n] = Value(a)
  <2>1. n \in 1..Len(a.way)
    BY <1>2
  <2>2. Value(a) = a.way[n]
    BY DEF Value, Last
  <2> QED
    BY <2>1, <2>2 DEF Leads
<1>6. i \in DOMAIN Value(a).of /\ p.way[n + 1] = Value(a).of[i]
  <2>1. p.at[n + 1 + Offset(p)] \in DOMAIN p.way[n].of /\ p.way[n + 1] = p.way[n].of[p.at[n + 1 + Offset(p)]]
    BY <1>1, <1>4, Zenon DEF Goes
  <2> QED
    BY <1>5, <2>1
<1>7. ~SkipStep(Value(a), i)
  <2>1. Len(p.at) - Len(p.way) + n + 1 = n + 1 + Offset(p)
    <3>1. ASSUME NEW x \in Nat, NEW y \in Nat, NEW z \in Nat, NEW o \in {0, 1}, y = z + o
          PROVE  y - z + x + 1 = x + 1 + o
      BY <3>1
    <3>2. Len(p.at) \in Nat /\ Len(p.way) \in Nat /\ n \in Nat /\ Offset(p) \in {0, 1}
      BY <1>2
    <3>3. Len(p.at) = Len(p.way) + Offset(p)
      BY <1>2
    <3> QED
      BY <3>1, <3>2, <3>3, Zenon
  <2>2. <<p.way[n], p.at[Len(p.at) - Len(p.way) + n + 1]>> \in Steps(p)
    BY <1>4 DEF Steps
  <2>3. <<Value(a), i>> \in Steps(p)
    BY <1>5, <2>1, <2>2
  <2>4. \A s \in Steps(p) : ~SkipStep(s[1], s[2])
    BY <1>1, Zenon DEF Skipped, SkipStep
  <2>5. <<Value(a), i>>[1] = Value(a) /\ <<Value(a), i>>[2] = i
    OBVIOUS
  <2> HIDE DEF i
  <2> QED
    BY <2>3, <2>4, <2>5
<1>8. Leads(Child(a, i), p)
  <2> HIDE DEF i
  <2> DEFINE c == Child(a, i)
  <2>1. /\ Offset(c) = Offset(a) /\ Len(c.way) = n + 1 /\ Goes(c)
        /\ \A j \in 1..n : c.way[j] = a.way[j]
        /\ \A j \in 1..Len(a.at) : c.at[j] = a.at[j]
        /\ c.at[Len(a.at) + 1] = i /\ c.way[n + 1] = Value(a).of[i]
    BY <1>1, <1>6, ChildIs
  <2> HIDE DEF c
  <2>2. Len(c.at) = Len(a.at) + 1
    <3>1. Len(c.at) = Len(c.way) + Offset(c)
      BY <2>1 DEF Goes
    <3> QED
      BY <1>2, <2>1, <3>1
  <2>3. ASSUME NEW j \in 1..Len(c.way) PROVE c.way[j] = p.way[j]
    <3>1. CASE j = n + 1
      BY <1>6, <2>1, <3>1
    <3>2. CASE j # n + 1
      <4>1. j \in 1..n
        BY <1>2, <2>1, <3>2
      <4> QED
        BY <2>1, <4>1 DEF Leads
    <3> QED
      BY <3>1, <3>2
  <2>4. ASSUME NEW j \in 1..Len(c.at) PROVE c.at[j] = p.at[j]
    <3>1. CASE j = Len(a.at) + 1
      <4>1. j = n + 1 + Offset(p)
        BY <1>2, <3>1
      <4> QED
        BY <2>1, <3>1, <4>1 DEF i
    <3>2. CASE j # Len(a.at) + 1
      <4>1. j \in 1..Len(a.at)
        BY <1>2, <2>2, <3>2
      <4> QED
        BY <2>1, <4>1 DEF Leads
    <3> QED
      BY <3>1, <3>2
  <2>5. Offset(c) = Offset(p) /\ Len(c.way) <= Len(p.way)
    BY <1>2, <1>4, <2>1
  <2>6. Leads(c, p)
    BY <2>3, <2>4, <2>5 DEF Leads
  <2> QED
    BY <2>6 DEF c
<1> QED
  BY <1>6, <1>7, <1>8

\* A place is led to by a top: the body of its function, or a variable.
LEMMA Root ==
  ASSUME module \in Program
  PROVE  \A p \in Places : \E t \in Tops(module) : Leads(t, p) /\ t.at[1] = p.at[1]
<1> DEFINE S == {p \in Places : \E t \in Tops(module) : Leads(t, p) /\ t.at[1] = p.at[1]}
<1>1. Tops(module) \subseteq S
  <2>1. ASSUME NEW t \in Tops(module) PROVE Leads(t, t)
    <3>1. Len(t.way) = 1
      BY TopIs
    <3> QED
      BY <3>1 DEF Leads
  <2> QED
    BY <2>1, PlacesAre
<1>2. ASSUME NEW p \in Places \cap S PROVE Children(p) \subseteq S
  <2> SUFFICES ASSUME NEW c \in Children(p) PROVE c \in S
    OBVIOUS
  <2>1. PICK i \in DOMAIN Value(p).of : c = Child(p, i)
    BY DEF Children, Value
  <2>2. PICK t \in Tops(module) : Leads(t, p) /\ t.at[1] = p.at[1]
    BY <1>2
  <2>3. Goes(p) /\ c \in Places
    BY <1>2, <2>1, Family
  <2>4. Goes(t) /\ Len(t.way) = 1
    BY TopIs
  <2>5. /\ Offset(c) = Offset(p) /\ Len(c.way) = Len(p.way) + 1 /\ c.at[1] = p.at[1] /\ Len(p.way) \in Nat
        /\ \A j \in 1..Len(p.way) : c.way[j] = p.way[j]
        /\ \A j \in 1..Len(p.at) : c.at[j] = p.at[j]
    BY <2>1, <2>3, ChildIs
  <2>6. Len(t.at) <= Len(p.at) /\ Len(t.way) <= Len(p.way) /\ Len(t.at) \in Nat /\ Len(p.at) \in Nat /\ Len(t.way) \in Nat
    BY <2>2, <2>3, <2>4 DEF Goes, Leads
  <2>7. Leads(t, c)
    <3>1. Offset(t) = Offset(c) /\ Len(t.way) <= Len(c.way)
      BY <2>2, <2>5, <2>6 DEF Leads
    <3>2. \A j \in 1..Len(t.way) : j \in 1..Len(p.way) /\ t.way[j] = p.way[j]
      BY <2>2, <2>5, <2>6 DEF Leads
    <3>3. \A j \in 1..Len(t.at) : j \in 1..Len(p.at) /\ t.at[j] = p.at[j]
      BY <2>2, <2>6 DEF Leads
    <3> QED
      BY <2>5, <3>1, <3>2, <3>3 DEF Leads
  <2> QED
    BY <2>2, <2>3, <2>5, <2>7
<1> HIDE DEF S
<1>3. Places \subseteq S
  BY <1>1, <1>2, PlacesInduction
<1> QED
  BY <1>3 DEF S

-----------------------------------------------------------------------------
(* The inductive invariant *)

FuncVisit(g) == Visit([k |-> "func", f |-> g], <<>>)

\* The tasks a place gives.
Of(t, p) ==
  /\ t.at = p.at /\ t.do \in {"visit", "check", "case", "mutability", "refuse", "mutating"}
  /\ t.do # "case" => t.what = Value(p)
  /\ t.do = "mutability" => Value(p).k = "call" /\ Value(p).form = "func"

\* A task in the context c: the end of one, a function, or a task of a place that has this context.
Lawful(t, c) ==
  \/ t.do = "restore" /\ \E x, y : t.what = <<x, y>>
  \/ \E g \in Names : t = FuncVisit(g)
  \/ \E p \in Reached : Of(t, p) /\ c = <<p.at[1], InUnsafe(p)>>

\* The context of task k of s is the one that the task j before it restores; the current one, c, when none does.
Governs(s, j, k) == (j = 0 \/ s[j].do = "restore") /\ \A i \in (j + 1)..(k - 1) : s[i].do # "restore"
ContextOf(s, c, j) == IF j = 0 THEN c ELSE s[j].what
AllLawful(s, c) ==
  \A k \in 1..Len(s) : \A j \in 0..(k - 1) : Governs(s, j, k) => Lawful(s[k], ContextOf(s, c, j))

Waits(t) == \E k \in 1..Len(todo) : todo[k] = t

\* Every function was met, or will be.
FunctionsCome == \A g \in Names : g \in typechecked \/ Waits(FuncVisit(g))

\* What is reported as unsafe is.
Sound == \A e \in errors : e.rule \in UnsafeRules => \E p \in Reached : p.at = e.at /\ IsUnsafe(Value(p)) /\ ~InUnsafe(p)

\* A place is yet to be visited, or was, and what had to be checked there is checked or waits.
ToCome(p) == p.at[1] \in Names \ typechecked \/ \E a \in Places : Leads(a, p) /\ Waits(Visit(Value(a), a.at))
UnsafeSettled(p) ==
  IsUnsafe(Value(p)) => Waits(Task("check", Value(p), p.at)) \/ InUnsafe(p) \/ p.at \in ReportedAt(UnsafeRules)
MayAssign(p) == isMutable(Value(p).of[1]) /\ (accessingSelf(Value(p).of[1]) => Func(p.at[1]).mutating)
AssignmentSettled(p) ==
  Assignment(Value(p)) =>
      Waits(Task("mutability", Value(p), p.at)) \/ Waits(Task("refuse", Value(p), p.at)) \/ errors # {} \/ MayAssign(p)
Fate(p) == ToCome(p) \/ (UnsafeSettled(p) /\ AssignmentSettled(p))

IInv ==
  /\ module \in Program /\ IsSeq(todo) /\ typechecked \subseteq Names
  /\ AllLawful(todo, <<currentFunction, unsafeContext>>)
  /\ FunctionsCome
  /\ Sound
  /\ \A p \in Reached : Fate(p)

-----------------------------------------------------------------------------
(* What taking the first task and putting others before the rest does to the contexts *)

\* The head and the tail of a sequence.
LEMMA Taken ==
  ASSUME NEW s, IsSeq(s), s # <<>>
  PROVE  /\ Len(s) \in Nat \ {0} /\ Head(s) = s[1] /\ IsSeq(Tail(s)) /\ Len(Tail(s)) = Len(s) - 1
         /\ \A i \in 1..Len(Tail(s)) : Tail(s)[i] = s[i + 1]
<1> DEFINE S == Range(s)
           t == Tail(s)
<1>1. s \in Seq(S)
  BY DEF IsSeq
<1> HIDE DEF S
<1>2. Len(s) \in Nat \ {0} /\ Head(s) = s[1]
  BY <1>1
<1>3. t \in Seq(S) /\ Len(t) = Len(s) - 1 /\ \A i \in 1..Len(t) : t[i] = s[i + 1]
  BY <1>1, <1>2
<1> HIDE DEF t
<1>4. IsSeq(t)
  BY <1>3, IsSeqOf
<1> QED
  BY <1>2, <1>3, <1>4 DEF t

\* Two sequences, one after the other.
LEMMA Joined ==
  ASSUME NEW s, NEW u, IsSeq(s), IsSeq(u)
  PROVE  /\ Len(s) \in Nat /\ Len(u) \in Nat /\ IsSeq(s \o u) /\ Len(s \o u) = Len(s) + Len(u)
         /\ \A i \in 1..Len(s) : (s \o u)[i] = s[i]
         /\ \A i \in 1..Len(u) : (s \o u)[Len(s) + i] = u[i]
<1> DEFINE S == Range(s) \cup Range(u)
           t == s \o u
<1>1. s \in Seq(S) /\ u \in Seq(S)
  BY DEF IsSeq
<1> HIDE DEF S
<1>2. Len(s) \in Nat /\ Len(u) \in Nat
  BY <1>1
<1>3. t \in Seq(S) /\ Len(t) = Len(s) + Len(u)
  BY <1>1
<1>4. \A i \in 1..Len(s) : t[i] = s[i]
  BY <1>1
<1>5. \A i \in 1..Len(u) : t[Len(s) + i] = u[i]
  BY <1>1
<1> HIDE DEF t
<1>6. IsSeq(t)
  BY <1>3, IsSeqOf
<1> QED
  BY <1>2, <1>3, <1>4, <1>5, <1>6 DEF t

\* Without the first task, which restores nothing, the others keep their contexts.
LEMMA Popped ==
  ASSUME NEW s, NEW c, IsSeq(s), s # <<>>, AllLawful(s, c)
  PROVE  /\ Lawful(Head(s), c)
         /\ Head(s).do # "restore" => AllLawful(Tail(s), c)
         /\ Head(s).do = "restore" => AllLawful(Tail(s), Head(s).what)
<1>1. /\ Len(s) \in Nat \ {0} /\ Head(s) = s[1] /\ Len(Tail(s)) = Len(s) - 1
      /\ \A i \in 1..Len(Tail(s)) : Tail(s)[i] = s[i + 1]
  BY Taken
<1> DEFINE t == Tail(s)
           h == Head(s)
<1> HIDE DEF t, h
<1>2. \A k \in 1..Len(s) : \A j \in 0..(k - 1) : Governs(s, j, k) => Lawful(s[k], ContextOf(s, c, j))
  BY DEF AllLawful
<1>3. Lawful(h, c)
  <2>1. Governs(s, 0, 1)
    BY DEF Governs
  <2>2. ContextOf(s, c, 0) = c
    BY DEF ContextOf
  <2>3. 1 \in 1..Len(s) /\ 0 \in 0..(1 - 1)
    BY <1>1
  <2> QED
    BY <1>1, <1>2, <2>1, <2>2, <2>3, Zenon DEF h
<1>4. ASSUME h.do # "restore", NEW k \in 1..Len(t), NEW j \in 0..(k - 1), Governs(t, j, k)
      PROVE  Lawful(t[k], ContextOf(t, c, j))
  <2>1. k + 1 \in 1..Len(s) /\ t[k] = s[k + 1]
    BY <1>1 DEF t
  <2> DEFINE l == IF j = 0 THEN 0 ELSE j + 1
  <2>2. l \in 0..((k + 1) - 1)
    OBVIOUS
  <2>3. ContextOf(s, c, l) = ContextOf(t, c, j) /\ (l = 0 \/ s[l].do = "restore")
    <3>1. CASE j = 0
      BY <3>1 DEF ContextOf
    <3>2. CASE j # 0
      <4>1. j \in 1..Len(t) /\ l = j + 1 /\ l # 0
        BY <3>2, <1>1 DEF t
      <4>2. t[j] = s[l]
        BY <1>1, <4>1 DEF t
      <4>3. t[j].do = "restore"
        BY <1>4, <3>2 DEF Governs
      <4> HIDE DEF l
      <4> QED
        BY <3>2, <4>1, <4>2, <4>3 DEF ContextOf
    <3> QED
      BY <3>1, <3>2
  <2>4. ASSUME NEW i \in (l + 1)..((k + 1) - 1) PROVE s[i].do # "restore"
    <3>1. CASE i = 1
      BY <1>1, <1>4, <3>1 DEF h
    <3>2. CASE i # 1
      <4>1. i - 1 \in (j + 1)..(k - 1) /\ i - 1 \in 1..Len(t) /\ (i - 1) + 1 = i
        BY <3>2, <1>1 DEF t
      <4>2. t[i - 1] = s[i]
        BY <1>1, <4>1 DEF t
      <4>3. t[i - 1].do # "restore"
        BY <1>4, <4>1 DEF Governs
      <4> QED
        BY <4>2, <4>3
    <3> QED
      BY <3>1, <3>2
  <2> HIDE DEF l
  <2>5. Governs(s, l, k + 1)
    BY <2>3, <2>4 DEF Governs
  <2> QED
    BY <1>2, <2>1, <2>2, <2>3, <2>5
<1>5. ASSUME h.do = "restore", NEW k \in 1..Len(t), NEW j \in 0..(k - 1), Governs(t, j, k)
      PROVE  Lawful(t[k], ContextOf(t, h.what, j))
  <2>1. k + 1 \in 1..Len(s) /\ t[k] = s[k + 1] /\ j + 1 \in 0..((k + 1) - 1) /\ j + 1 # 0
    BY <1>1 DEF t
  <2>2. ContextOf(s, c, j + 1) = ContextOf(t, h.what, j) /\ s[j + 1].do = "restore"
    <3>1. CASE j = 0
      <4>1. ContextOf(t, h.what, j) = h.what /\ ContextOf(s, c, j + 1) = s[1].what
        BY <3>1 DEF ContextOf
      <4> QED
        BY <1>1, <1>5, <3>1, <4>1 DEF h
    <3>2. CASE j # 0
      <4>1. j \in 1..Len(t)
        BY <3>2, <1>1 DEF t
      <4>2. t[j] = s[j + 1]
        BY <1>1, <4>1 DEF t
      <4>3. t[j].do = "restore"
        BY <1>5, <3>2 DEF Governs
      <4> QED
        BY <2>1, <3>2, <4>2, <4>3 DEF ContextOf
    <3> QED
      BY <3>1, <3>2
  <2>3. ASSUME NEW i \in ((j + 1) + 1)..((k + 1) - 1) PROVE s[i].do # "restore"
    <3>1. i - 1 \in (j + 1)..(k - 1) /\ i - 1 \in 1..Len(t) /\ (i - 1) + 1 = i
      BY <1>1 DEF t
    <3>2. t[i - 1] = s[i]
      BY <1>1, <3>1 DEF t
    <3>3. t[i - 1].do # "restore"
      BY <1>5, <3>1 DEF Governs
    <3> QED
      BY <3>2, <3>3
  <2>4. Governs(s, j + 1, k + 1)
    BY <2>2, <2>3 DEF Governs
  <2> QED
    BY <1>2, <2>1, <2>2, <2>4
<1>6. h.do # "restore" => AllLawful(t, c)
  BY <1>4 DEF AllLawful
<1>7. h.do = "restore" => AllLawful(t, h.what)
  BY <1>5 DEF AllLawful
<1> QED
  BY <1>3, <1>6, <1>7 DEF t, h

\* Tasks of the current context that restore nothing come before the others.
LEMMA Pushed ==
  ASSUME NEW s, NEW u, NEW c, IsSeq(s), IsSeq(u), AllLawful(s, c),
         \A i \in 1..Len(u) : u[i].do # "restore" /\ Lawful(u[i], c)
  PROVE  AllLawful(u \o s, c)
<1> DEFINE q == u \o s
           n == Len(u)
<1>1. /\ n \in Nat /\ Len(s) \in Nat /\ Len(q) = n + Len(s)
      /\ \A i \in 1..n : q[i] = u[i]
      /\ \A i \in 1..Len(s) : q[n + i] = s[i]
  BY Joined
<1> HIDE DEF q, n
<1>2. \A k \in 1..Len(s) : \A j \in 0..(k - 1) : Governs(s, j, k) => Lawful(s[k], ContextOf(s, c, j))
  BY DEF AllLawful
<1>3. \A i \in 1..n : q[i].do # "restore" /\ Lawful(q[i], c)
  BY <1>1 DEF n
<1>4. ASSUME NEW k \in 1..Len(q), NEW j \in 0..(k - 1), Governs(q, j, k)
      PROVE  Lawful(q[k], ContextOf(q, c, j))
  <2>1. j = 0 \/ j > n
    <3>1. j = 0 \/ q[j].do = "restore"
      BY <1>4 DEF Governs
    <3>2. j \in 1..n => q[j].do # "restore"
      BY <1>3
    <3> QED
      BY <1>1, <3>1, <3>2
  <2>2. CASE k <= n
    <3>1. j = 0 /\ k \in 1..n
      BY <1>1, <2>1, <2>2
    <3>2. ContextOf(q, c, j) = c
      BY <3>1 DEF ContextOf
    <3> QED
      BY <1>3, <3>1, <3>2
  <2>3. CASE k > n
    <3>1. k - n \in 1..Len(s) /\ n + (k - n) = k
      BY <1>1, <2>3
    <3>2. q[k] = s[k - n]
      BY <1>1, <3>1
    <3> DEFINE l == IF j = 0 THEN 0 ELSE j - n
    <3>3. l \in 0..((k - n) - 1)
      BY <1>1, <2>1, <2>3
    <3>4. ContextOf(s, c, l) = ContextOf(q, c, j) /\ (l = 0 \/ s[l].do = "restore")
      <4>1. CASE j = 0
        BY <4>1 DEF ContextOf
      <4>2. CASE j # 0
        <5>1. l \in 1..Len(s) /\ l # 0 /\ n + l = j
          BY <1>1, <2>1, <2>3, <4>2
        <5>2. q[j] = s[l]
          BY <1>1, <5>1
        <5>3. q[j].do = "restore"
          BY <1>4, <4>2 DEF Governs
        <5> HIDE DEF l
        <5> QED
          BY <4>2, <5>1, <5>2, <5>3 DEF ContextOf
      <4> QED
        BY <4>1, <4>2
    <3>5. ASSUME NEW i \in (l + 1)..((k - n) - 1) PROVE s[i].do # "restore"
      <4>1. n + i \in (j + 1)..(k - 1) /\ i \in 1..Len(s)
        BY <1>1, <2>1, <2>3, <3>1
      <4>2. q[n + i] = s[i]
        BY <1>1, <4>1
      <4>3. q[n + i].do # "restore"
        BY <1>4, <4>1 DEF Governs
      <4> QED
        BY <4>2, <4>3
    <3> HIDE DEF l
    <3>6. Governs(s, l, k - n)
      BY <3>4, <3>5 DEF Governs
    <3> QED
      BY <1>2, <3>1, <3>2, <3>3, <3>4, <3>6
  <2> QED
    BY <1>1, <2>2, <2>3
<1>5. AllLawful(q, c)
  BY <1>4 DEF AllLawful
<1> QED
  BY <1>5 DEF q

\* A task that restores the context of the others may come before them in any context.
LEMMA PushedRestore ==
  ASSUME NEW s, NEW r, NEW c, NEW d, IsSeq(s), AllLawful(s, c),
         r.do = "restore", r.what = c, \E x, y : c = <<x, y>>
  PROVE  AllLawful(<<r>> \o s, d)
<1> DEFINE q == <<r>> \o s
<1>0. Len(<<r>>) = 1 /\ <<r>>[1] = r /\ IsSeq(<<r>>)
  BY DEF IsSeq, Range
<1>1. /\ Len(s) \in Nat /\ Len(q) = 1 + Len(s) /\ q[1] = r
      /\ \A i \in 1..Len(s) : q[1 + i] = s[i]
  BY <1>0, Joined
<1> HIDE DEF q
<1>2. \A k \in 1..Len(s) : \A j \in 0..(k - 1) : Governs(s, j, k) => Lawful(s[k], ContextOf(s, c, j))
  BY DEF AllLawful
<1>3. \A e : Lawful(q[1], e)
  BY <1>1, Zenon DEF Lawful
<1>4. ASSUME NEW k \in 1..Len(q), NEW j \in 0..(k - 1), Governs(q, j, k)
      PROVE  Lawful(q[k], ContextOf(q, d, j))
  <2>1. CASE k = 1
    BY <1>3, <2>1
  <2>2. CASE k # 1
    <3>1. k - 1 \in 1..Len(s) /\ 1 + (k - 1) = k
      BY <1>1, <2>2
    <3>2. q[k] = s[k - 1]
      BY <1>1, <3>1
    <3>3. j # 0
      <4>1. j = 0 => 1 \in (j + 1)..(k - 1)
        BY <3>1
      <4> QED
        BY <1>1, <1>4, <4>1 DEF Governs
    <3>4. j - 1 \in 0..((k - 1) - 1)
      BY <3>1, <3>3
    <3>5. ContextOf(s, c, j - 1) = ContextOf(q, d, j) /\ (j - 1 = 0 \/ s[j - 1].do = "restore")
      <4>1. CASE j = 1
        <5>1. ContextOf(s, c, j - 1) = c /\ ContextOf(q, d, j) = q[1].what
          BY <4>1 DEF ContextOf
        <5> QED
          BY <1>1, <4>1, <5>1
      <4>2. CASE j # 1
        <5>1. j - 1 \in 1..Len(s) /\ j - 1 # 0 /\ 1 + (j - 1) = j
          BY <3>1, <3>3, <4>2
        <5>2. q[j] = s[j - 1]
          BY <1>1, <5>1
        <5>3. q[j].do = "restore"
          BY <1>4, <3>3 DEF Governs
        <5> QED
          BY <3>3, <5>1, <5>2, <5>3 DEF ContextOf
      <4> QED
        BY <4>1, <4>2
    <3>6. ASSUME NEW i \in ((j - 1) + 1)..((k - 1) - 1) PROVE s[i].do # "restore"
      <4>1. 1 + i \in (j + 1)..(k - 1) /\ i \in 1..Len(s)
        BY <3>1, <3>3
      <4>2. q[1 + i] = s[i]
        BY <1>1, <4>1
      <4>3. q[1 + i].do # "restore"
        BY <1>4, <4>1 DEF Governs
      <4> QED
        BY <4>2, <4>3
    <3>7. Governs(s, j - 1, k - 1)
      BY <3>5, <3>6 DEF Governs
    <3> QED
      BY <1>2, <3>1, <3>2, <3>4, <3>5, <3>7
  <2> QED
    BY <2>1, <2>2
<1>5. AllLawful(q, d)
  BY <1>4 DEF AllLawful
<1> QED
  BY <1>5 DEF q

-----------------------------------------------------------------------------
(* What a step has to show *)

\* What depends on the module alone stays as it is.
LEMMA Static ==
  ASSUME module' = module
  PROVE  /\ Names' = Names /\ Places' = Places /\ Reached' = Reached /\ Tops(module)' = Tops(module)
         /\ \A p : InUnsafe(p)' = InUnsafe(p)
         /\ \A v : IsUnsafe(v)' <=> IsUnsafe(v)
         /\ \A p : MayAssign(p)' <=> MayAssign(p)
         /\ \A s, c : AllLawful(s, c)' <=> AllLawful(s, c)
<1>1. Names' = Names
  BY DEF Names
<1>2. Places' = Places /\ Tops(module)' = Tops(module)
  BY DEF Places
<1>3. Reached' = Reached
  BY <1>2 DEF Reached
<1>4. \A p : InUnsafe(p)' = InUnsafe(p)
  BY Zenon DEF InUnsafe
<1>5. \A g : Func(g)' = Func(g)
  BY Zenon DEF Func
<1>6. \A v : IsUnsafe(v)' <=> IsUnsafe(v)
  BY <1>5, Zenon DEF IsUnsafe, Has
<1>7. \A p : MayAssign(p)' <=> MayAssign(p)
  BY <1>5, Zenon DEF MayAssign
<1>8. \A t, c : Lawful(t, c)' <=> Lawful(t, c)
  BY <1>1, <1>3, <1>4, Zenon DEF Lawful
<1>9. \A s, c : AllLawful(s, c)' <=> AllLawful(s, c)
  BY <1>8, Zenon DEF AllLawful
<1> QED
  BY <1>1, <1>2, <1>3, <1>4, <1>6, <1>7, <1>9

\* What waits goes on waiting, but for the first task; what is put first waits.
LEMMA WaitsOn ==
  ASSUME IsSeq(todo), todo # <<>>, NEW T, IsSeq(T), todo' = T \o Tail(todo)
  PROVE  /\ IsSeq(todo)'
         /\ \A t : Waits(t) => t = Head(todo) \/ Waits(t)'
         /\ \A t \in Range(T) : Waits(t)'
<1>1. /\ Len(todo) \in Nat \ {0} /\ Head(todo) = todo[1] /\ IsSeq(Tail(todo)) /\ Len(Tail(todo)) = Len(todo) - 1
      /\ \A i \in 1..Len(Tail(todo)) : Tail(todo)[i] = todo[i + 1]
  BY Taken
<1>2. PICK u : u = Tail(todo)
  OBVIOUS
<1>3. PICK q : q = T \o u
  OBVIOUS
<1>4. IsSeq(u)
  BY <1>1, <1>2
<1>5. /\ Len(T) \in Nat /\ Len(u) \in Nat /\ IsSeq(q) /\ Len(q) = Len(T) + Len(u)
      /\ \A i \in 1..Len(T) : q[i] = T[i]
      /\ \A i \in 1..Len(u) : q[Len(T) + i] = u[i]
  BY <1>3, <1>4, Joined
<1>6. todo' = q
  BY <1>2, <1>3
<1>7. IsSeq(todo)'
  BY <1>5, <1>6 DEF IsSeq
<1>8. ASSUME NEW t, Waits(t), t # Head(todo) PROVE Waits(t)'
  <2>1. PICK k \in 1..Len(todo) : todo[k] = t
    BY <1>8 DEF Waits
  <2>2. k # 1
    BY <1>1, <1>8, <2>1
  <2>3. k - 1 \in 1..Len(u) /\ (k - 1) + 1 = k
    BY <1>1, <1>2, <2>2
  <2>4. u[k - 1] = t
    BY <1>1, <1>2, <2>1, <2>3
  <2>5. Len(T) + (k - 1) \in 1..Len(q) /\ q[Len(T) + (k - 1)] = t
    BY <1>5, <2>3, <2>4, SMTT(30)
  <2> QED
    BY <1>6, <2>5, Zenon DEF Waits
<1>9. ASSUME NEW t \in Range(T) PROVE Waits(t)'
  <2>1. DOMAIN T = 1..Len(T)
    BY SeqIs
  <2>2. PICK k \in 1..Len(T) : T[k] = t
    BY <2>1 DEF Range
  <2>3. k \in 1..Len(q) /\ q[k] = t
    BY <1>5, <2>2
  <2> QED
    BY <1>6, <2>3, Zenon DEF Waits
<1> QED
  BY <1>7, <1>8, <1>9

\* A step that replaces the first task keeps the invariant when it keeps the contexts, reports
\* nothing wrong, and leaves nothing behind of what waited in the first task.
LEMMA Replaced ==
  ASSUME IInv, todo # <<>>, NEW T, IsSeq(T), todo' = T \o Tail(todo), module' = module,
         typechecked \subseteq typechecked', typechecked' \subseteq Names, errors \subseteq errors',
         AllLawful(todo, <<currentFunction, unsafeContext>>)',
         Sound',
         \A g \in Names : Head(todo) = FuncVisit(g) => g \in typechecked',
         \A p \in Reached : p.at[1] \in typechecked' \ typechecked => Fate(p)',
         \A a \in Places : \A p \in Reached : Head(todo) = Visit(Value(a), a.at) /\ Leads(a, p) => Fate(p)',
         \A p \in Reached : Head(todo) = Task("check", Value(p), p.at) => UnsafeSettled(p)',
         \A p \in Reached : Head(todo) \in {Task("mutability", Value(p), p.at), Task("refuse", Value(p), p.at)}
             => AssignmentSettled(p)'
  PROVE  IInv'
<1>1. /\ IsSeq(todo)'
      /\ \A t : Waits(t) => t = Head(todo) \/ Waits(t)'
  <2>1. IsSeq(todo)
    BY DEF IInv
  <2> QED
    BY <2>1, WaitsOn
<1>2. /\ Names' = Names /\ Places' = Places /\ Reached' = Reached
      /\ \A p : InUnsafe(p)' = InUnsafe(p)
      /\ \A v : IsUnsafe(v)' <=> IsUnsafe(v)
      /\ \A p : MayAssign(p)' <=> MayAssign(p)
  BY Static
<1>3. FunctionsCome'
  <2>1. FunctionsCome
    BY DEF IInv
  <2>2. \A g \in Names : g \in typechecked' \/ Waits(FuncVisit(g))'
    BY <1>1, <2>1 DEF FunctionsCome
  <2>3. \A g : FuncVisit(g)' = FuncVisit(g)
    BY DEF FuncVisit
  <2> QED
    BY <1>2, <2>2, Zenon DEF FunctionsCome
<1>4. ASSUME NEW p \in Reached PROVE Fate(p)'
  <2>1. Fate(p)
    BY DEF IInv
  <2>2. CASE p.at[1] \in Names \ typechecked
    <3>1. CASE p.at[1] \in typechecked'
      BY <2>2, <3>1
    <3>2. CASE p.at[1] \notin typechecked'
      <4>1. ToCome(p)'
        BY <1>2, <2>2, <3>2 DEF ToCome
      <4> QED
        BY <4>1 DEF Fate
    <3> QED
      BY <3>1, <3>2
  <2>3. CASE \E a \in Places : Leads(a, p) /\ Waits(Visit(Value(a), a.at))
    <3>1. PICK a \in Places : Leads(a, p) /\ Waits(Visit(Value(a), a.at))
      BY <2>3
    <3>2. PICK t : t = Visit(Value(a), a.at)
      OBVIOUS
    <3>3. CASE t = Head(todo)
      <4>1. Head(todo) = Visit(Value(a), a.at) /\ Leads(a, p)
        BY <3>1, <3>2, <3>3
      <4> QED
        BY <4>1, Zenon
    <3>4. CASE t # Head(todo)
      <4>1. Waits(t)'
        BY <1>1, <3>1, <3>2, <3>4, Zenon
      <4>2. ToCome(p)'
        BY <1>2, <3>1, <3>2, <4>1, Zenon DEF ToCome
      <4> QED
        BY <4>2 DEF Fate
    <3> QED
      BY <3>3, <3>4
  <2>4. CASE UnsafeSettled(p) /\ AssignmentSettled(p)
    <3>1. UnsafeSettled(p)'
      <4>1. PICK t : t = Task("check", Value(p), p.at)
        OBVIOUS
      <4>2. CASE Head(todo) = t
        BY <4>1, <4>2
      <4>3. CASE Head(todo) # t
        <5>1. Waits(t) => Waits(t)'
          BY <1>1, <4>3
        <5>2. p.at \in ReportedAt(UnsafeRules) => p.at \in ReportedAt(UnsafeRules)'
          <6>1. \A x : x \in ReportedAt(UnsafeRules) <=> \E e \in errors : e.rule \in UnsafeRules /\ e.at = x
            BY DEF ReportedAt
          <6>2. \A x : x \in ReportedAt(UnsafeRules)' <=> \E e \in errors' : e.rule \in UnsafeRules /\ e.at = x
            BY DEF ReportedAt
          <6> QED
            BY <6>1, <6>2
        <5> QED
          BY <1>2, <2>4, <4>1, <5>1, <5>2, Zenon DEF UnsafeSettled
      <4> QED
        BY <4>2, <4>3
    <3>2. AssignmentSettled(p)'
      <4>1. PICK t : t = Task("mutability", Value(p), p.at)
        OBVIOUS
      <4>2. PICK u : u = Task("refuse", Value(p), p.at)
        OBVIOUS
      <4>3. CASE Head(todo) = t \/ Head(todo) = u
        BY <4>1, <4>2, <4>3
      <4>4. CASE Head(todo) # t /\ Head(todo) # u
        <5>1. (Waits(t) => Waits(t)') /\ (Waits(u) => Waits(u)')
          BY <1>1, <4>4
        <5>2. errors # {} => errors' # {}
          OBVIOUS
        <5> QED
          BY <1>2, <2>4, <4>1, <4>2, <5>1, <5>2, Zenon DEF AssignmentSettled
      <4> QED
        BY <4>3, <4>4
    <3> QED
      BY <3>1, <3>2 DEF Fate
  <2> QED
    BY <2>1, <2>2, <2>3, <2>4 DEF Fate, ToCome
<1>5. \A p \in Reached' : Fate(p)'
  BY <1>2, <1>4
<1>6. module' \in Program
  BY DEF IInv
<1>7. (typechecked \subseteq Names)'
  BY <1>2
<1> QED
  BY <1>1, <1>3, <1>5, <1>6, <1>7 DEF IInv

\* The first task is lawful in the current context.
LEMMA HeadLawful ==
  ASSUME IInv, todo # <<>>
  PROVE  /\ IsSeq(todo) /\ IsSeq(Tail(todo)) /\ Lawful(Head(todo), <<currentFunction, unsafeContext>>)
         /\ Head(todo).do # "restore" => AllLawful(Tail(todo), <<currentFunction, unsafeContext>>)
         /\ Head(todo).do = "restore" => AllLawful(Tail(todo), Head(todo).what)
<1>1. IsSeq(todo) /\ AllLawful(todo, <<currentFunction, unsafeContext>>)
  BY DEF IInv
<1>2. PICK c : c = <<currentFunction, unsafeContext>>
  OBVIOUS
<1>3. PICK s : s = todo
  OBVIOUS
<1>4. IsSeq(s) /\ s # <<>> /\ AllLawful(s, c)
  BY <1>1, <1>2, <1>3
<1>5. /\ Lawful(Head(s), c)
      /\ Head(s).do # "restore" => AllLawful(Tail(s), c)
      /\ Head(s).do = "restore" => AllLawful(Tail(s), Head(s).what)
  BY <1>4, Popped
<1>6. IsSeq(Tail(s))
  BY <1>4, Taken
<1> QED
  BY <1>1, <1>2, <1>3, <1>5, <1>6, Zenon

\* Any other than the end of a context or the visit of a function is a task of a place reached.
LEMMA AtPlace ==
  ASSUME IInv, todo # <<>>, Head(todo).do # "restore", \A g \in Names : Head(todo) # FuncVisit(g)
  PROVE  \E p \in Reached : /\ Of(Head(todo), p) /\ At = p.at /\ (Head(todo).do # "case" => It = Value(p))
                            /\ currentFunction = p.at[1] /\ unsafeContext = InUnsafe(p)
<1>1. PICK p \in Reached : Of(Head(todo), p) /\ <<currentFunction, unsafeContext>> = <<p.at[1], InUnsafe(p)>>
  BY HeadLawful, Zenon DEF Lawful
<1>2. currentFunction = p.at[1] /\ unsafeContext = InUnsafe(p)
  <2>1. \A x, y, u, v : <<x, y>> = <<u, v>> => x = u /\ y = v
    OBVIOUS
  <2> QED
    BY <1>1, <2>1, Zenon
<1>3. At = p.at /\ (Head(todo).do # "case" => It = Value(p))
  BY <1>1, Zenon DEF Of, At, It
<1> QED
  BY <1>1, <1>2, <1>3

\* The visits of the values in v, but for those that are skipped.
Kids(v, at) == {Visit(v.of[i], Append(at, i)) : i \in {j \in DOMAIN v.of : ~SkipStep(v, j)}}

\* What a visit of v may lead to.
Fits(t, v, at) ==
  \/ t \in Kids(v, at)
  \/ /\ t.at = at /\ t.do \in {"check", "case", "mutability"} /\ (t.do # "case" => t.what = v)
     /\ t.do = "mutability" => v.k = "call" /\ v.form = "func"
  \/ \E g \in Names : t = FuncVisit(g)

\* What a visit of v must lead to.
Serves(T, v, at) ==
  /\ IsSeq(T) /\ Kids(v, at) \subseteq Range(T)
  /\ IsUnsafe(v) => Task("check", v, at) \in Range(T)
  /\ Assignment(v) => Task("mutability", v, at) \in Range(T)
  /\ \A t \in Range(T) : Fits(t, v, at)

\* The values in a place have the context of the place, and an unsafe one in an unsafe block.
LEMMA KidsLawful ==
  ASSUME module \in Program, NEW p \in Reached, NEW t \in Kids(Value(p), p.at)
  PROVE  t.do = "visit" /\ Lawful(t, <<p.at[1], InUnsafe(p) \/ Opens(Value(p))>>)
<1>1. PICK i \in DOMAIN Value(p).of : ~SkipStep(Value(p), i) /\ t = Visit(Value(p).of[i], Append(p.at, i))
  BY Zenon DEF Kids
<1>2. PICK c : c = Child(p, i)
  OBVIOUS
<1>3. c \in Reached /\ c.at[1] = p.at[1] /\ InUnsafe(c) = (InUnsafe(p) \/ Opens(Value(p)))
  BY <1>1, <1>2, ChildReached
<1>4. Goes(p)
  BY Family DEF Reached
<1>5. c.at = Append(p.at, i) /\ Value(c) = Value(p).of[i]
  BY <1>1, <1>2, <1>4, ChildIs
<1>6. t = Visit(Value(c), c.at)
  BY <1>1, <1>5, Zenon
<1>7. t.do = "visit" /\ t.at = c.at /\ t.what = Value(c)
  BY <1>6 DEF Visit, Task
<1>8. Of(t, c)
  BY <1>7 DEF Of
<1>9. <<p.at[1], InUnsafe(p) \/ Opens(Value(p))>> = <<c.at[1], InUnsafe(c)>>
  BY <1>3, Zenon
<1> QED
  BY <1>3, <1>7, <1>8, <1>9, Zenon DEF Lawful

\* What a visit leads to where no block opens has the context of the place.
LEMMA FitsLawful ==
  ASSUME module \in Program, NEW p \in Reached, ~Opens(Value(p)), NEW t, Fits(t, Value(p), p.at)
  PROVE  t.do # "restore" /\ Lawful(t, <<p.at[1], InUnsafe(p)>>)
<1>1. CASE t \in Kids(Value(p), p.at)
  <2>1. t.do = "visit" /\ Lawful(t, <<p.at[1], InUnsafe(p) \/ Opens(Value(p))>>)
    BY <1>1, KidsLawful
  <2>2. (InUnsafe(p) \/ Opens(Value(p))) = InUnsafe(p)
    BY Zenon DEF InUnsafe
  <2>3. t.do # "restore"
    BY <2>1
  <2> QED
    BY <2>1, <2>2, <2>3, Zenon
<1>2. CASE /\ t.at = p.at /\ t.do \in {"check", "case", "mutability"} /\ (t.do # "case" => t.what = Value(p))
           /\ t.do = "mutability" => Value(p).k = "call" /\ Value(p).form = "func"
  <2>1. Of(t, p) /\ t.do # "restore"
    BY <1>2 DEF Of
  <2> QED
    BY <2>1, Zenon DEF Lawful
<1>3. CASE \E g \in Names : t = FuncVisit(g)
  <2>1. t.do # "restore"
    BY <1>3 DEF FuncVisit, Visit, Task
  <2> QED
    BY <1>3, <2>1, Zenon DEF Lawful
<1> QED
  BY <1>1, <1>2, <1>3 DEF Fits

\* When what must follow the visit of a place waits, nothing below the place is left behind.
LEMMA Handed ==
  ASSUME module \in Program, module' = module, NEW p \in Places,
         \A t \in Kids(Value(p), p.at) : Waits(t)',
         IsUnsafe(Value(p)) => Waits(Task("check", Value(p), p.at))',
         Assignment(Value(p)) => Waits(Task("mutability", Value(p), p.at))',
         NEW q \in Reached, Leads(p, q)
  PROVE  Fate(q)'
<1>1. /\ Places' = Places
      /\ \A v : IsUnsafe(v)' <=> IsUnsafe(v)
  BY Static
<1>2. CASE p = q
  <2>1. UnsafeSettled(p)'
    <3>1. PICK t : t = Task("check", Value(p), p.at)
      OBVIOUS
    <3>2. IsUnsafe(Value(p)) => Waits(t)'
      BY <3>1
    <3> QED
      BY <1>1, <3>1, <3>2, Zenon DEF UnsafeSettled
  <2>2. AssignmentSettled(p)'
    <3>1. PICK t : t = Task("mutability", Value(p), p.at)
      OBVIOUS
    <3>2. Assignment(Value(p)) => Waits(t)'
      BY <3>1
    <3> QED
      BY <3>1, <3>2, Zenon DEF AssignmentSettled
  <2> QED
    BY <1>2, <2>1, <2>2 DEF Fate
<1>3. CASE p # q
  <2>1. p \in Places /\ q \in Places
    BY DEF Reached
  <2>2. PICK i \in DOMAIN Value(p).of : ~SkipStep(Value(p), i) /\ Leads(Child(p, i), q)
    BY <1>3, <2>1, NextOnTheWay
  <2>3. PICK c : c = Child(p, i)
    OBVIOUS
  <2>4. c \in Places /\ c.at = Append(p.at, i) /\ Value(c) = Value(p).of[i]
    <3>1. Goes(p) /\ c \in Places
      BY <2>1, <2>3, Family
    <3> QED
      BY <2>3, <3>1, ChildIs
  <2>5. PICK t : t = Visit(Value(c), c.at)
    OBVIOUS
  <2>6. t \in Kids(Value(p), p.at)
    BY <2>2, <2>4, <2>5, Zenon DEF Kids
  <2>7. Waits(t)'
    BY <2>6
  <2>8. ToCome(q)'
    BY <1>1, <2>2, <2>3, <2>4, <2>5, <2>7, Zenon DEF ToCome
  <2> QED
    BY <2>8 DEF Fate
<1> QED
  BY <1>2, <1>3

\* A visit that opens no context keeps the invariant when it leads to all it must and may.
LEMMA Descended ==
  ASSUME IInv, todo # <<>>, Head(todo).do = "visit", It.k # "func", ~Opens(It),
         NEW T, Serves(T, It, At), todo' = T \o Tail(todo), UNCHANGED <<context, errors>>
  PROVE  IInv'
<1>1. module \in Program /\ typechecked \subseteq Names /\ Sound
  BY DEF IInv
<1>2. /\ module' = module /\ typechecked' = typechecked /\ errors' = errors
      /\ currentFunction' = currentFunction /\ unsafeContext' = unsafeContext
  BY DEF context
<1>3. \A g : Head(todo) # FuncVisit(g)
  BY DEF It, FuncVisit, Visit, Task
<1>4. PICK p \in Reached : /\ Of(Head(todo), p) /\ At = p.at /\ It = Value(p)
                           /\ currentFunction = p.at[1] /\ unsafeContext = InUnsafe(p)
  <2>1. Head(todo).do # "restore" /\ Head(todo).do # "case"
    OBVIOUS
  <2> QED
    BY <1>3, <2>1, AtPlace, Zenon
<1>5. IsSeq(T) /\ DOMAIN T = 1..Len(T)
  BY SeqIs DEF Serves
<1>6. \A t \in Range(T) : t.do # "restore" /\ Lawful(t, <<currentFunction, unsafeContext>>)
  <2>1. \A t \in Range(T) : Fits(t, Value(p), p.at)
    BY <1>4 DEF Serves
  <2>2. ~Opens(Value(p))
    BY <1>4
  <2> QED
    BY <1>1, <1>4, <2>1, <2>2, FitsLawful, Zenon
<1>7. AllLawful(todo, <<currentFunction, unsafeContext>>)'
  <2>1. PICK s : s = Tail(todo)
    OBVIOUS
  <2>2. PICK c : c = <<currentFunction, unsafeContext>>
    OBVIOUS
  <2>3. IsSeq(s) /\ AllLawful(s, c)
    <3>1. Head(todo).do # "restore"
      OBVIOUS
    <3> QED
      BY <2>1, <2>2, <3>1, HeadLawful, Zenon
  <2>4. \A i \in 1..Len(T) : T[i].do # "restore" /\ Lawful(T[i], c)
    <3>1. \A i \in 1..Len(T) : T[i] \in Range(T)
      BY <1>5 DEF Range
    <3> QED
      BY <1>6, <2>2, <3>1, Zenon
  <2>5. AllLawful(T \o s, c)
    BY <1>5, <2>3, <2>4, Pushed
  <2>6. PICK q : q = T \o s
    OBVIOUS
  <2>7. AllLawful(q, c)'
    BY <1>2, <2>5, <2>6, Static
  <2>8. todo' = q /\ c = <<currentFunction', unsafeContext'>>
    BY <1>2, <2>1, <2>2, <2>6
  <2> QED
    BY <2>7, <2>8, Zenon
<1>8. \A t \in Range(T) : Waits(t)'
  <2>1. IsSeq(todo)
    BY DEF IInv
  <2> QED
    BY <1>5, <2>1, WaitsOn
<1>9. ASSUME NEW a \in Places, NEW q \in Reached, Head(todo) = Visit(Value(a), a.at), Leads(a, q)
      PROVE  Fate(q)'
  <2>1. a.at = p.at
    BY <1>4, <1>9 DEF Visit, Task, At
  <2>2. a = p
    BY <1>1, <2>1, Unique DEF Reached
  <2>3. \A t \in Kids(Value(p), p.at) : Waits(t)'
    BY <1>4, <1>8 DEF Serves
  <2>4. IsUnsafe(Value(p)) => Waits(Task("check", Value(p), p.at))'
    BY <1>4, <1>8 DEF Serves
  <2>5. Assignment(Value(p)) => Waits(Task("mutability", Value(p), p.at))'
    BY <1>4, <1>8 DEF Serves
  <2>6. Leads(p, q)
    BY <1>9, <2>2
  <2> QED
    BY <1>1, <1>2, <2>2, <2>3, <2>4, <2>5, <2>6, Handed
<1>10. \A v, x : Head(todo) # Task("check", v, x) /\ Head(todo) # Task("mutability", v, x) /\ Head(todo) # Task("refuse", v, x)
  BY DEF Task
<1>11. Sound'
  <2>1. Reached' = Reached /\ (\A v : IsUnsafe(v)' <=> IsUnsafe(v)) /\ (\A r : InUnsafe(r)' = InUnsafe(r))
    BY <1>2, Static
  <2> QED
    BY <1>1, <1>2, <2>1, Zenon DEF Sound
<1>12. /\ \A g \in Names : Head(todo) = FuncVisit(g) => g \in typechecked'
       /\ \A r \in Reached : r.at[1] \in typechecked' \ typechecked => Fate(r)'
       /\ \A r \in Reached : Head(todo) = Task("check", Value(r), r.at) => UnsafeSettled(r)'
       /\ \A r \in Reached : Head(todo) \in {Task("mutability", Value(r), r.at), Task("refuse", Value(r), r.at)}
             => AssignmentSettled(r)'
  BY <1>2, <1>3, <1>10, Zenon
<1>13. typechecked \subseteq typechecked' /\ typechecked' \subseteq Names /\ errors \subseteq errors'
  BY <1>1, <1>2
<1> QED
  BY <1>2, <1>5, <1>7, <1>9, <1>11, <1>12, <1>13, Replaced

-----------------------------------------------------------------------------
(* What the visits lead to *)

\* What sequences of tasks hold.
LEMMA Ranges ==
  /\ IsSeq(<<>>) /\ Range(<<>>) = {}
  /\ \A x : IsSeq(<<x>>) /\ Range(<<x>>) = {x}
  /\ \A s, u : IsSeq(s) /\ IsSeq(u) => IsSeq(s \o u) /\ Range(s \o u) = Range(s) \cup Range(u)
<1>1. IsSeq(<<>>) /\ Range(<<>>) = {}
  BY DEF IsSeq, Range
<1>2. ASSUME NEW x PROVE IsSeq(<<x>>) /\ Range(<<x>>) = {x}
  BY DEF IsSeq, Range
<1>3. ASSUME NEW s, NEW u, IsSeq(s), IsSeq(u) PROVE IsSeq(s \o u) /\ Range(s \o u) = Range(s) \cup Range(u)
  <2> DEFINE t == s \o u
  <2>1. /\ Len(s) \in Nat /\ Len(u) \in Nat /\ IsSeq(t) /\ Len(t) = Len(s) + Len(u)
        /\ \A i \in 1..Len(s) : t[i] = s[i]
        /\ \A i \in 1..Len(u) : t[Len(s) + i] = u[i]
    BY <1>3, Joined
  <2> HIDE DEF t
  <2>2. DOMAIN t = 1..Len(t) /\ DOMAIN s = 1..Len(s) /\ DOMAIN u = 1..Len(u)
    BY <1>3, <2>1, SeqIs
  <2>3. \A x \in Range(s) : x \in Range(t)
    <3>1. \A i \in 1..Len(s) : i \in 1..Len(t)
      BY <2>1
    <3> QED
      BY <2>1, <2>2, <3>1 DEF Range
  <2>4. \A x \in Range(u) : x \in Range(t)
    <3>1. \A i \in 1..Len(u) : Len(s) + i \in 1..Len(t)
      BY <2>1
    <3> QED
      BY <2>1, <2>2, <3>1 DEF Range
  <2>5. ASSUME NEW x \in Range(t) PROVE x \in Range(s) \cup Range(u)
    <3>1. PICK i \in 1..Len(t) : x = t[i]
      BY <2>2 DEF Range
    <3>2. CASE i <= Len(s)
      <4>1. i \in 1..Len(s)
        BY <2>1, <3>2
      <4> QED
        BY <2>1, <2>2, <3>1, <4>1 DEF Range
    <3>3. CASE i > Len(s)
      <4>1. i - Len(s) \in 1..Len(u) /\ Len(s) + (i - Len(s)) = i
        BY <2>1, <3>3
      <4>2. x = u[i - Len(s)]
        BY <2>1, <3>1, <4>1
      <4> QED
        BY <2>2, <4>1, <4>2 DEF Range
    <3> QED
      BY <2>1, <3>2, <3>3
  <2>6. Range(t) = Range(s) \cup Range(u)
    BY <2>3, <2>4, <2>5
  <2> QED
    BY <2>1, <2>6 DEF t
<1> QED
  BY <1>1, <1>2, <1>3

\* The visits of the values of v from one position to another.
LEMMA PartsAre ==
  ASSUME NEW v, NEW at, NEW i \in Nat, NEW j \in Nat
  PROVE  /\ IsSeq(Parts(v, at, i, j))
         /\ Range(Parts(v, at, i, j)) = {Visit(v.of[l], Append(at, l)) : l \in i..j}
<1> DEFINE n == IF j < i THEN 0 ELSE j - i + 1
           F(l) == Visit(v.of[l], Append(at, l))
           t == Parts(v, at, i, j)
<1>1. n \in Nat
  OBVIOUS
<1>2. t = [m \in 1..n |-> F(i + m - 1)]
  BY Zenon DEF Parts
<1> HIDE DEF t, F
<1>3. /\ \A m \in 1..n : i + m - 1 \in i..j
      /\ \A l \in i..j : l - i + 1 \in 1..n /\ i + (l - i + 1) - 1 = l
  OBVIOUS
<1> HIDE DEF n
<1>4. IsSeq(t) /\ DOMAIN t = 1..n /\ \A m \in 1..n : t[m] = F(i + m - 1)
  <2>1. DOMAIN t = 1..n /\ \A m \in 1..n : t[m] = F(i + m - 1)
    BY <1>2, Zenon
  <2>2. \A m \in 1..n : t[m] \in Range(t)
    BY <2>1 DEF Range
  <2>3. t = [m \in 1..n |-> t[m]]
    BY <1>2, <2>1, Zenon
  <2>4. t \in Seq(Range(t))
    BY <1>1, <2>2, <2>3
  <2> QED
    BY <2>1, <2>4 DEF IsSeq
<1>5. Range(t) = {F(l) : l \in i..j}
  <2>1. ASSUME NEW x \in Range(t) PROVE x \in {F(l) : l \in i..j}
    <3>1. PICK m \in 1..n : x = t[m]
      BY <1>4 DEF Range
    <3>2. x = F(i + m - 1) /\ i + m - 1 \in i..j
      BY <1>3, <1>4, <3>1
    <3> QED
      BY <3>2
  <2>2. ASSUME NEW l \in i..j PROVE F(l) \in Range(t)
    <3>1. PICK m : m = l - i + 1
      OBVIOUS
    <3>2. m \in 1..n /\ i + m - 1 = l
      BY <1>3, <3>1
    <3>3. t[m] = F(l)
      BY <1>4, <3>2
    <3> QED
      BY <1>4, <3>2, <3>3 DEF Range
  <2> QED
    BY <2>1, <2>2
<1> QED
  BY <1>4, <1>5 DEF t, F

\* All the values, where none is skipped.
LEMMA AllIs ==
  ASSUME NEW v, NEW at, IsSeq(v.of), v.k \notin {"switch", "while", "index"}
  PROVE  IsSeq(All(v, at)) /\ Range(All(v, at)) = Kids(v, at)
<1>1. Len(v.of) \in Nat /\ DOMAIN v.of = 1..Len(v.of)
  BY SeqIs
<1>2. IsSeq(All(v, at)) /\ Range(All(v, at)) = {Visit(v.of[l], Append(at, l)) : l \in 1..Len(v.of)}
  BY <1>1, PartsAre DEF All
<1>3. {j \in DOMAIN v.of : ~SkipStep(v, j)} = 1..Len(v.of)
  BY <1>1 DEF SkipStep
<1> QED
  BY <1>2, <1>3, Zenon DEF Kids

\* Values with nothing in them, and those of which nothing is visited.
LEMMA NoKids ==
  ASSUME NEW v, NEW at, v.of = <<>> \/ v.k = "index"
  PROVE  Kids(v, at) = {}
BY DEF Kids, SkipStep

\* A visit of what is not assigned leads to the values and perhaps to a check.
LEMMA Simply ==
  ASSUME NEW v, NEW at, NEW T, NEW X, IsSeq(T), Range(T) = Kids(v, at) \cup X, X \subseteq {Task("check", v, at)},
         IsUnsafe(v) => Task("check", v, at) \in X, ~Assignment(v)
  PROVE  Serves(T, v, at)
<1>1. \A t \in X : t.at = at /\ t.do = "check" /\ t.what = v
  BY DEF Task
<1>2. \A t \in X : Fits(t, v, at)
  BY <1>1 DEF Fits
<1>3. \A t \in Kids(v, at) : Fits(t, v, at)
  BY DEF Fits
<1> QED
  BY <1>2, <1>3 DEF Serves

\* What is visited is a value of the module, and not a function.
LEMMA Visited ==
  ASSUME IInv, todo # <<>>, Head(todo).do = "visit", It.k # "func"
  PROVE  WellFormed(It, module) /\ IsSeq(It.of)
<1>1. \A g : Head(todo) # FuncVisit(g)
  BY DEF It, FuncVisit, Visit, Task
<1>2. PICK p \in Reached : It = Value(p)
  <2>1. Head(todo).do # "restore" /\ Head(todo).do # "case"
    OBVIOUS
  <2> QED
    BY <1>1, <2>1, AtPlace, Zenon
<1>3. WellFormed(It, module)
  BY <1>2, Family DEF IInv, Reached
<1> QED
  BY <1>3 DEF WellFormed, IsSeq

\* The visits that lead to all the values in a value, or where there is nothing to visit, and perhaps to a check.
SimpleKinds == {"value", "argument", "variable", "dereference", "reference", "index", "declaration", "throw",
                "extract", "try", "if", "cast", "return"}
IsSimple(kinds, T) ==
  /\ Visiting(kinds) /\ Descend(T)
  /\ kinds \subseteq SimpleKinds \/ (kinds = {"call"} /\ It.form # "func")
  /\ \/ T = <<>> /\ (It.of = <<>> \/ It.k = "index")
     \/ T = Check(It, At) /\ (It.of = <<>> \/ It.k = "index")
     \/ T = All(It, At) /\ It.k \notin {"dereference", "cast", "index"}
     \/ T \in {All(It, At) \o Check(It, At), Check(It, At) \o All(It, At)} /\ It.k # "index"

\* The visits of all the values, and those with nothing to visit.
LEMMA SimpleVisits ==
  ASSUME IInv, NEW kinds, Visiting(kinds),
         kinds \subseteq {"value", "argument", "variable", "dereference", "reference", "index", "declaration", "throw",
                          "extract", "try", "if", "cast", "return"}
                \/ (kinds = {"call"} /\ It.form # "func"),
         NEW T, Descend(T),
         LET check == Check(It, At)
         IN  \/ T = <<>> /\ (It.of = <<>> \/ It.k = "index")
             \/ T = check /\ (It.of = <<>> \/ It.k = "index")
             \/ T = All(It, At) /\ It.k \notin {"dereference", "cast", "index"}
             \/ T \in {All(It, At) \o check, check \o All(It, At)} /\ It.k # "index"
  PROVE  IInv'
<1>1. /\ todo # <<>> /\ Head(todo).do = "visit" /\ It.k \in kinds
      /\ todo' = T \o Tail(todo) /\ UNCHANGED <<context, errors>>
  BY DEF Visiting, Doing, Descend
<1>2. It.k \notin {"func", "block", "switch", "while"} /\ ~Opens(It)
  BY <1>1 DEF Opens
<1>3. WellFormed(It, module) /\ IsSeq(It.of)
  BY <1>1, <1>2, Visited
<1>4. ~Assignment(It)
  BY <1>1 DEF Assignment
<1>5. ~IsUnsafe(It) \/ It.k \in {"dereference", "cast"}
  BY <1>1 DEF IsUnsafe
<1>6. PICK check : check = Task("check", It, At)
  OBVIOUS
<1>7. IsSeq(Check(It, At)) /\ Range(Check(It, At)) = {check}
  BY <1>6, Ranges, Zenon DEF Check
<1>8. It.k # "index" => IsSeq(All(It, At)) /\ Range(All(It, At)) = Kids(It, At)
  BY <1>2, <1>3, AllIs
<1>9. It.of = <<>> \/ It.k = "index" => Kids(It, At) = {}
  BY NoKids
<1>10. It.of = <<>> => It.k \notin {"dereference", "cast"}
  BY <1>3 DEF WellFormed
<1>11. CASE T = <<>> /\ (It.of = <<>> \/ It.k = "index")
  <2>1. IsSeq(T) /\ Range(T) = Kids(It, At) \cup {}
    BY <1>9, <1>11, Ranges
  <2>2. ~IsUnsafe(It)
    BY <1>5, <1>10, <1>11
  <2>3. Serves(T, It, At)
    BY <1>4, <2>1, <2>2, Simply
  <2> QED
    BY <1>1, <1>2, <2>3, Descended
<1>12. CASE T = Check(It, At) /\ (It.of = <<>> \/ It.k = "index")
  <2>1. IsSeq(T) /\ Range(T) = Kids(It, At) \cup {check}
    BY <1>7, <1>9, <1>12
  <2>2. Serves(T, It, At)
    BY <1>4, <1>6, <2>1, Simply
  <2> QED
    BY <1>1, <1>2, <2>2, Descended
<1>13. CASE T = All(It, At) /\ It.k \notin {"dereference", "cast", "index"}
  <2>1. IsSeq(T) /\ Range(T) = Kids(It, At) \cup {}
    BY <1>8, <1>13
  <2>2. ~IsUnsafe(It)
    BY <1>5, <1>13
  <2>3. Serves(T, It, At)
    BY <1>4, <2>1, <2>2, Simply
  <2> QED
    BY <1>1, <1>2, <2>3, Descended
<1>14. CASE T \in {All(It, At) \o Check(It, At), Check(It, At) \o All(It, At)} /\ It.k # "index"
  <2>1. IsSeq(T) /\ Range(T) = Kids(It, At) \cup {check}
    <3>1. IsSeq(All(It, At)) /\ Range(All(It, At)) = Kids(It, At)
      BY <1>8, <1>14
    <3>2. PICK a, c : a = All(It, At) /\ c = Check(It, At)
      OBVIOUS
    <3>3. \A s, u : IsSeq(s) /\ IsSeq(u) => IsSeq(s \o u) /\ Range(s \o u) = Range(s) \cup Range(u)
      BY Ranges
    <3>4. T = a \o c \/ T = c \o a
      BY <1>14, <3>2
    <3>5. IsSeq(a) /\ IsSeq(c)
      BY <1>7, <3>1, <3>2
    <3>6. IsSeq(T) /\ (Range(T) = Range(a) \cup Range(c) \/ Range(T) = Range(c) \cup Range(a))
      <4>1. IsSeq(a \o c) /\ Range(a \o c) = Range(a) \cup Range(c)
        BY <3>3, <3>5, Zenon
      <4>2. IsSeq(c \o a) /\ Range(c \o a) = Range(c) \cup Range(a)
        BY <3>3, <3>5, Zenon
      <4> QED
        BY <3>4, <4>1, <4>2, Zenon
    <3>7. Range(a) = Kids(It, At) /\ Range(c) = {check}
      BY <1>7, <3>1, <3>2
    <3> QED
      BY <3>6, <3>7
  <2>2. Serves(T, It, At)
    BY <1>4, <1>6, <2>1, Simply
  <2> QED
    BY <1>1, <1>2, <2>2, Descended
<1> QED
  BY <1>11, <1>12, <1>13, <1>14, Zenon

\* The cases are visited, and between them the types of their values are compared.
LEMMA CasesAre ==
  ASSUME NEW v, NEW at, v.cases \in Nat
  PROVE  /\ IsSeq(Cases(v, at))
         /\ \A l \in 2..(v.cases + 1) : Visit(v.of[l], Append(at, l)) \in Range(Cases(v, at))
         /\ \A t \in Range(Cases(v, at)) : \/ \E l \in 2..(v.cases + 1) : t = Visit(v.of[l], Append(at, l))
                                           \/ t.at = at /\ t.do = "case"
<1> DEFINE N == v.cases
           V(l) == Visit(v.of[l], Append(at, l))
           C(i) == Task("case", <<v.values[i], v.of[1].type>>, at)
           S == Cases(v, at)
<1>1. CASE v.values = <<>>
  <2>1. S = Parts(v, at, 2, N + 1)
    BY <1>1, Zenon DEF Cases
  <2>2. N + 1 \in Nat /\ 2 \in Nat
    OBVIOUS
  <2>3. IsSeq(S) /\ Range(S) = {V(l) : l \in 2..(N + 1)}
    BY <2>1, <2>2, PartsAre
  <2> HIDE DEF S, V
  <2>4. (\A l \in 2..(N + 1) : V(l) \in Range(S)) /\ \A t \in Range(S) : \E l \in 2..(N + 1) : t = V(l)
    BY <2>3
  <2> QED
    BY <2>3, <2>4, Zenon DEF S, V
<1>2. CASE v.values # <<>>
  <2> DEFINE G(n) == LET i == (n + 1) \div 2 IN IF n % 2 = 1 THEN V(i + 1) ELSE C(i)
  <2>1. S = [n \in 1..2 * N |-> G(n)]
    BY <1>2, Zenon DEF Cases
  <2>2. \A n \in 1..2 * N : n % 2 = 1 => G(n) = V((n + 1) \div 2 + 1)
    BY Zenon
  <2>3. \A n \in 1..2 * N : n % 2 # 1 => G(n) = C((n + 1) \div 2)
    BY Zenon
  <2> HIDE DEF S, G
  <2>4. DOMAIN S = 1..2 * N /\ \A n \in 1..2 * N : S[n] = G(n)
    BY <2>1, Zenon
  <2>5. IsSeq(S)
    <3>1. \A n \in 1..2 * N : S[n] \in Range(S)
      BY <2>4, Zenon DEF Range
    <3>2. S = [n \in 1..2 * N |-> S[n]]
      BY <2>1, <2>4, Zenon
    <3>3. 2 * N \in Nat
      OBVIOUS
    <3>4. PICK K : K = 2 * N
      OBVIOUS
    <3>5. S \in Seq(Range(S))
      <4>1. K \in Nat /\ S = [n \in 1..K |-> S[n]] /\ \A n \in 1..K : S[n] \in Range(S)
        BY <3>1, <3>2, <3>3, <3>4
      <4> QED
        BY <4>1
    <3> QED
      BY <3>5 DEF IsSeq
  <2>6. ASSUME NEW l \in 2..(N + 1) PROVE V(l) \in Range(S)
    <3>1. PICK n : n = 2 * (l - 1) - 1
      OBVIOUS
    <3>2. n \in 1..2 * N /\ n % 2 = 1 /\ (n + 1) \div 2 + 1 = l
      BY <3>1
    <3>3. S[n] = V(l)
      BY <2>2, <2>4, <3>2, Zenon
    <3> QED
      BY <2>4, <3>2, <3>3, Zenon DEF Range
  <2>7. ASSUME NEW t \in Range(S)
        PROVE  (\E l \in 2..(N + 1) : t = V(l)) \/ (t.at = at /\ t.do = "case")
    <3>1. PICK n \in 1..2 * N : t = G(n)
      BY <2>4, Zenon DEF Range
    <3>2. CASE n % 2 = 1
      <4>1. (n + 1) \div 2 + 1 \in 2..(N + 1)
        BY <3>2
      <4>2. t = V((n + 1) \div 2 + 1)
        BY <2>2, <3>1, <3>2, Zenon
      <4> QED
        BY <4>1, <4>2, Zenon
    <3>3. CASE n % 2 # 1
      <4>1. t = C((n + 1) \div 2)
        BY <2>3, <3>1, <3>3, Zenon
      <4> QED
        BY <4>1 DEF Task
    <3> QED
      BY <3>2, <3>3
  <2> QED
    BY <2>5, <2>6, <2>7, Zenon DEF S
<1> QED
  BY <1>1, <1>2

\* Not the step of a for.
LEMMA WhileServes ==
  ASSUME IInv, VisitWhileLoop
  PROVE  IInv'
<1> DEFINE T == Parts(It, At, 1, 2)
<1>1. /\ todo # <<>> /\ Head(todo).do = "visit" /\ It.k = "while"
      /\ todo' = T \o Tail(todo) /\ UNCHANGED <<context, errors>>
  BY DEF VisitWhileLoop, Visiting, Doing, Descend
<1>2. WellFormed(It, module) /\ IsSeq(It.of)
  BY <1>1, Visited
<1>3. IsSeq(T) /\ Range(T) = {Visit(It.of[l], Append(At, l)) : l \in 1..2}
  BY PartsAre
<1>4. Len(It.of) \in {2, 3} /\ DOMAIN It.of = 1..Len(It.of)
  BY <1>1, <1>2, SeqIs DEF WellFormed
<1>5. {j \in DOMAIN It.of : ~SkipStep(It, j)} = 1..2
  <2>1. \A j : SkipStep(It, j) <=> j = 3
    BY <1>1 DEF SkipStep
  <2>2. \A n \in {2, 3} : {j \in 1..n : j # 3} = 1..2
    OBVIOUS
  <2> QED
    BY <1>4, <2>1, <2>2, Zenon
<1> HIDE DEF T
<1>6. Range(T) = Kids(It, At) \cup {}
  BY <1>3, <1>5, Zenon DEF Kids
<1>7. ~Assignment(It) /\ ~IsUnsafe(It) /\ ~Opens(It) /\ It.k # "func"
  BY <1>1 DEF Assignment, IsUnsafe, Opens
<1>8. PICK U : U = T
  OBVIOUS
<1>9. Serves(U, It, At)
  <2>1. PICK X : X = {}
    OBVIOUS
  <2>2. IsSeq(U) /\ Range(U) = Kids(It, At) \cup X /\ X \subseteq {Task("check", It, At)}
    BY <1>3, <1>6, <1>8, <2>1
  <2> QED
    BY <1>7, <2>2, Simply, Zenon
<1> QED
  BY <1>1, <1>7, <1>8, <1>9, Descended

\* Not the default case.
LEMMA SwitchServes ==
  ASSUME IInv, VisitSwitch
  PROVE  IInv'
<1>1. /\ todo # <<>> /\ Head(todo).do = "visit" /\ It.k = "switch"
      /\ todo' = (Parts(It, At, 1, 1) \o Cases(It, At)) \o Tail(todo) /\ UNCHANGED <<context, errors>>
  BY DEF VisitSwitch, Visiting, Doing, Descend
<1>2. WellFormed(It, module) /\ IsSeq(It.of)
  BY <1>1, Visited
<1>3. PICK v, at, A, B : v = It /\ at = At /\ A = Parts(It, At, 1, 1) /\ B = Cases(It, At)
  OBVIOUS
<1>4. v.cases \in Nat /\ v.cases < Len(v.of) /\ Len(v.of) \in Nat /\ DOMAIN v.of = 1..Len(v.of) /\ v.k = "switch"
  <2>1. It.cases \in Nat /\ It.cases < Len(It.of)
    BY <1>1, <1>2 DEF WellFormed
  <2>2. Len(It.of) \in Nat /\ DOMAIN It.of = 1..Len(It.of)
    BY <1>2, SeqIs
  <2> QED
    BY <1>1, <1>3, <2>1, <2>2
<1>5. IsSeq(A) /\ Range(A) = {Visit(v.of[l], Append(at, l)) : l \in 1..1}
  BY <1>3, PartsAre
<1>6. /\ IsSeq(B)
      /\ \A l \in 2..(v.cases + 1) : Visit(v.of[l], Append(at, l)) \in Range(B)
      /\ \A t \in Range(B) : \/ \E l \in 2..(v.cases + 1) : t = Visit(v.of[l], Append(at, l))
                             \/ t.at = at /\ t.do = "case"
  BY <1>3, <1>4, CasesAre
<1>7. PICK T : T = A \o B
  OBVIOUS
<1>8. IsSeq(T) /\ Range(T) = Range(A) \cup Range(B)
  BY <1>5, <1>6, <1>7, Ranges, Zenon
<1>9. {j \in DOMAIN v.of : ~SkipStep(v, j)} = 1..(v.cases + 1)
  <2>1. \A j : SkipStep(v, j) <=> j > v.cases + 1
    BY <1>4 DEF SkipStep
  <2> QED
    BY <1>4, <2>1
<1>10. Kids(v, at) = {Visit(v.of[l], Append(at, l)) : l \in 1..(v.cases + 1)}
  BY <1>9, Zenon DEF Kids
<1>11. \A l : l \in 1..(v.cases + 1) <=> l \in 1..1 \/ l \in 2..(v.cases + 1)
  BY <1>4
<1>12. Kids(v, at) \subseteq Range(T)
  BY <1>5, <1>6, <1>8, <1>10, <1>11, Zenon
<1>13. ASSUME NEW t \in Range(T) PROVE Fits(t, v, at)
  <2>1. t \in Kids(v, at) \/ (t.at = at /\ t.do = "case")
    BY <1>5, <1>6, <1>8, <1>10, <1>11, Zenon
  <2> QED
    BY <2>1 DEF Fits
<1>14. ~Assignment(v) /\ ~IsUnsafe(v) /\ ~Opens(v) /\ v.k # "func"
  BY <1>4 DEF Assignment, IsUnsafe, Opens
<1>15. Serves(T, v, at)
  BY <1>8, <1>12, <1>13, <1>14 DEF Serves
<1>16. todo' = T \o Tail(todo)
  BY <1>1, <1>3, <1>7
<1> QED
  BY <1>1, <1>3, <1>14, <1>15, <1>16, Descended

\* A call leads to its check, to the function called, to the check of an assignment, and to the arguments.
LEMMA CallServes ==
  ASSUME IInv, VisitCall
  PROVE  IInv'
<1> DEFINE M == IF It.of = <<>> THEN <<>> ELSE <<Task("mutability", It, At)>>
<1>1. /\ todo # <<>> /\ Head(todo).do = "visit" /\ It.k = "call" /\ It.form = "func"
      /\ todo' = (Check(It, At) \o <<FuncVisit(It.f)>> \o M \o All(It, At)) \o Tail(todo) /\ UNCHANGED <<context, errors>>
  BY DEF VisitCall, Visiting, Doing, Descend, FuncVisit
<1>2. WellFormed(It, module) /\ IsSeq(It.of)
  BY <1>1, Visited
<1>3. PICK v, at, A, B, C, D : /\ v = It /\ at = At
                               /\ A = Check(It, At) /\ B = <<FuncVisit(It.f)>> /\ C = M /\ D = All(It, At)
  OBVIOUS
<1>4. v.k = "call" /\ v.form = "func" /\ v.f \in Names /\ (v.assigns => v.of # <<>>)
  BY <1>1, <1>2, <1>3 DEF WellFormed, Names
<1>5. IsSeq(A) /\ Range(A) = {Task("check", v, at)}
  BY <1>3, Ranges, Zenon DEF Check
<1>6. IsSeq(B) /\ Range(B) = {FuncVisit(v.f)}
  BY <1>3, Ranges, Zenon
<1>7. IsSeq(C) /\ Range(C) \subseteq {Task("mutability", v, at)} /\ (v.of # <<>> => Task("mutability", v, at) \in Range(C))
  <2>1. CASE v.of = <<>>
    <3>1. C = <<>>
      BY <1>3, <2>1
    <3> QED
      BY <2>1, <3>1, Ranges
  <2>2. CASE v.of # <<>>
    <3>1. C = <<Task("mutability", v, at)>>
      BY <1>3, <2>2
    <3>2. IsSeq(C) /\ Range(C) = {Task("mutability", v, at)}
      BY <3>1, Ranges, Zenon
    <3> QED
      BY <3>2
  <2> QED
    BY <2>1, <2>2
<1>8. IsSeq(D) /\ Range(D) = Kids(v, at)
  <2>1. It.k \notin {"switch", "while", "index"}
    BY <1>1
  <2> QED
    BY <1>2, <1>3, <2>1, AllIs
<1>9. PICK T : T = A \o B \o C \o D
  OBVIOUS
<1>10. IsSeq(T) /\ Range(T) = Range(A) \cup Range(B) \cup Range(C) \cup Range(D)
  <2>1. \A s, u : IsSeq(s) /\ IsSeq(u) => IsSeq(s \o u) /\ Range(s \o u) = Range(s) \cup Range(u)
    BY Ranges
  <2>2. PICK E : E = A \o B
    OBVIOUS
  <2>3. IsSeq(E) /\ Range(E) = Range(A) \cup Range(B)
    BY <1>5, <1>6, <2>1, <2>2, Zenon
  <2>4. PICK F : F = E \o C
    OBVIOUS
  <2>5. IsSeq(F) /\ Range(F) = Range(E) \cup Range(C)
    BY <1>7, <2>1, <2>3, <2>4, Zenon
  <2>6. T = F \o D
    BY <1>9, <2>2, <2>4
  <2>7. IsSeq(T) /\ Range(T) = Range(F) \cup Range(D)
    BY <1>8, <2>1, <2>5, <2>6, Zenon
  <2> QED
    BY <2>3, <2>5, <2>7
<1>11. ASSUME NEW t \in Range(T) PROVE Fits(t, v, at)
  <2>1. t \in Kids(v, at) \/ t = FuncVisit(v.f) \/ t = Task("check", v, at) \/ t = Task("mutability", v, at)
    BY <1>5, <1>6, <1>7, <1>8, <1>10
  <2>2. CASE t = Task("check", v, at) \/ t = Task("mutability", v, at)
    <3>1. t.at = at /\ t.do \in {"check", "mutability"} /\ t.what = v
      BY <2>2 DEF Task
    <3> QED
      BY <1>4, <3>1 DEF Fits
  <2> QED
    BY <1>4, <2>1, <2>2, Zenon DEF Fits
<1>12. Kids(v, at) \subseteq Range(T) /\ Task("check", v, at) \in Range(T)
  BY <1>5, <1>8, <1>10
<1>13. Assignment(v) => Task("mutability", v, at) \in Range(T)
  BY <1>4, <1>7, <1>10 DEF Assignment
<1>14. Serves(T, v, at)
  BY <1>10, <1>11, <1>12, <1>13 DEF Serves
<1>15. ~Opens(v) /\ v.k # "func"
  BY <1>4 DEF Opens
<1>16. todo' = T \o Tail(todo)
  BY <1>1, <1>3, <1>9
<1> QED
  BY <1>1, <1>3, <1>14, <1>15, <1>16, Descended

\* Concatenation does not depend on the order.
LEMMA Associates ==
  ASSUME NEW a, NEW b, NEW c, IsSeq(a), IsSeq(b), IsSeq(c)
  PROVE  (a \o b) \o c = a \o (b \o c)
<1> DEFINE S == Range(a) \cup Range(b) \cup Range(c)
<1>1. a \in Seq(S) /\ b \in Seq(S) /\ c \in Seq(S)
  BY DEF IsSeq
<1> HIDE DEF S
<1> QED
  BY <1>1, ConcatAssociative

\* The declaration of a function in the module.
LEMMA FuncIs ==
  ASSUME module \in Program, NEW g \in Names
  PROVE  Func(g) \in Range(module.functions) /\ Func(g).name = g
<1>1. \E i \in DOMAIN module.functions : module.functions[i].name = g
  BY DEF Names, Range
<1>2. PICK i \in DOMAIN module.functions : Func(g) = module.functions[i] /\ module.functions[i].name = g
  BY <1>1, Zenon DEF Func
<1> QED
  BY <1>2 DEF Range

\* A visit of a block: what is in it comes in its context, what follows in the context before it.
LEMMA BlockServes ==
  ASSUME IInv, VisitBlock
  PROVE  IInv'
<1>1. /\ todo # <<>> /\ Head(todo).do = "visit" /\ It.k = "block" /\ IsSeq(todo)
      /\ module \in Program /\ typechecked \subseteq Names /\ Sound
  BY DEF VisitBlock, Visiting, Doing, IInv
<1>2. /\ unsafeContext' = (unsafeContext \/ It.unsafe)
      /\ todo' = All(It, At)
                   \o (IF It.unsafe THEN <<Task("restore", <<currentFunction, unsafeContext>>, At)>> ELSE <<>>) \o Tail(todo)
      /\ UNCHANGED <<module, currentFunction, typechecked, errors>>
  BY DEF VisitBlock
<1>3. \A g : Head(todo) # FuncVisit(g)
  BY <1>1 DEF It, FuncVisit, Visit, Task
<1>4. PICK p \in Reached : At = p.at /\ It = Value(p) /\ currentFunction = p.at[1] /\ unsafeContext = InUnsafe(p)
  <2>1. Head(todo).do # "restore" /\ Head(todo).do # "case"
    BY <1>1
  <2> QED
    BY <1>1, <1>3, <2>1, AtPlace, Zenon
<1>5. WellFormed(It, module) /\ IsSeq(It.of) /\ It.unsafe \in BOOLEAN
  <2>1. It.k # "func"
    BY <1>1
  <2>2. WellFormed(It, module) /\ IsSeq(It.of)
    BY <1>1, <2>1, Visited
  <2> QED
    BY <1>1, <2>2 DEF WellFormed
<1>6. ~IsUnsafe(It) /\ ~Assignment(It) /\ (Opens(It) <=> It.unsafe) /\ It.k # "func"
  BY <1>1 DEF IsUnsafe, Assignment, Opens
<1>7. PICK A : A = All(It, At)
  OBVIOUS
<1>8. IsSeq(A) /\ Range(A) = Kids(It, At)
  <2>1. It.k \notin {"switch", "while", "index"}
    BY <1>1
  <2> QED
    BY <1>5, <1>7, <2>1, AllIs
<1>9. CASE ~It.unsafe
  <2>1. PICK T : T = A \o <<>>
    OBVIOUS
  <2>2. IsSeq(T) /\ Range(T) = Kids(It, At) \cup {}
    <3>1. PICK N : N = <<>>
      OBVIOUS
    <3>2. IsSeq(N) /\ Range(N) = {}
      BY <3>1, Ranges, Zenon
    <3>3. IsSeq(A \o N) /\ Range(A \o N) = Range(A) \cup Range(N)
      BY <1>8, <3>2, Ranges, Zenon
    <3> QED
      BY <1>8, <2>1, <3>1, <3>2, <3>3, Zenon
  <2>3. Serves(T, It, At)
    <3>1. PICK X : X = {}
      OBVIOUS
    <3>2. Range(T) = Kids(It, At) \cup X /\ X \subseteq {Task("check", It, At)}
      BY <2>2, <3>1
    <3> QED
      BY <1>6, <2>2, <3>2, Simply, Zenon
  <2>4. unsafeContext' = unsafeContext
    BY <1>2, <1>4, <1>9, Zenon DEF InUnsafe
  <2>5. todo' = T \o Tail(todo)
    BY <1>2, <1>7, <1>9, <2>1
  <2>6. UNCHANGED <<context, errors>>
    BY <1>2, <2>4 DEF context
  <2> QED
    BY <1>1, <1>6, <1>9, <2>3, <2>5, <2>6, Descended
<1>10. CASE It.unsafe
  <2>1. PICK r, R, s, c, d : /\ r = Task("restore", <<currentFunction, unsafeContext>>, At) /\ R = <<r>> /\ s = Tail(todo)
                             /\ c = <<currentFunction, unsafeContext>> /\ d = <<currentFunction, TRUE>>
    OBVIOUS
  <2>2. r.do = "restore" /\ r.what = c
    BY <2>1 DEF Task
  <2>3. IsSeq(R) /\ Range(R) = {r}
    BY <2>1, Ranges, Zenon
  <2>4. IsSeq(s) /\ AllLawful(s, c)
    <3>1. Head(todo).do # "restore"
      BY <1>1
    <3> QED
      BY <1>1, <2>1, <3>1, HeadLawful, Zenon
  <2>5. AllLawful(R \o s, d)
    <3>1. \E x, y : c = <<x, y>>
      BY <2>1, Zenon
    <3> QED
      BY <2>1, <2>2, <2>4, <3>1, PushedRestore
  <2>6. IsSeq(R \o s)
    BY <2>3, <2>4, Ranges, Zenon
  <2>7. \A i \in 1..Len(A) : A[i].do # "restore" /\ Lawful(A[i], d)
    <3>1. \A i \in 1..Len(A) : A[i] \in Kids(Value(p), p.at)
      <4>1. DOMAIN A = 1..Len(A)
        BY <1>8, SeqIs
      <4> QED
        BY <1>4, <1>8, <4>1 DEF Range
    <3>2. <<p.at[1], InUnsafe(p) \/ Opens(Value(p))>> = d
      <4>1. (InUnsafe(p) \/ Opens(Value(p))) = TRUE
        BY <1>4, <1>6, <1>10
      <4> QED
        BY <1>4, <2>1, <4>1, Zenon
    <3>3. \A t \in Kids(Value(p), p.at) : t.do = "visit" /\ Lawful(t, d)
      BY <1>1, <3>2, KidsLawful, Zenon
    <3>4. \A t \in Kids(Value(p), p.at) : t.do # "restore"
      BY <3>3
    <3> QED
      BY <3>1, <3>3, <3>4, Zenon
  <2>8. AllLawful(A \o (R \o s), d)
    <3>1. PICK u : u = R \o s
      OBVIOUS
    <3>2. IsSeq(u) /\ AllLawful(u, d)
      BY <2>5, <2>6, <3>1
    <3> QED
      BY <1>8, <2>7, <3>1, <3>2, Pushed
  <2>9. PICK T : T = A \o R
    OBVIOUS
  <2>10. IsSeq(T) /\ Range(T) = Range(A) \cup {r}
    <3>1. IsSeq(A \o R) /\ Range(A \o R) = Range(A) \cup Range(R)
      BY <1>8, <2>3, Ranges, Zenon
    <3> QED
      BY <2>3, <2>9, <3>1, Zenon
  <2>11. T \o s = A \o (R \o s)
    BY <1>8, <2>3, <2>4, <2>9, Associates
  <2>12. todo' = T \o Tail(todo)
    BY <1>2, <1>7, <1>10, <2>1, <2>9
  <2>13. AllLawful(todo, <<currentFunction, unsafeContext>>)'
    <3>1. PICK q : q = T \o s
      OBVIOUS
    <3>2. AllLawful(q, d)
      BY <2>8, <2>11, <3>1
    <3>3. AllLawful(q, d)'
      BY <1>2, <3>2, Static
    <3>4. todo' = q
      BY <2>1, <2>12, <3>1
    <3>5. d = <<currentFunction', unsafeContext'>>
      <4>1. unsafeContext' = TRUE
        BY <1>2, <1>10
      <4> QED
        BY <1>2, <2>1, <4>1
    <3> QED
      BY <3>3, <3>4, <3>5, Zenon
  <2>14. \A t \in Kids(Value(p), p.at) : Waits(t)'
    <3>1. \A t \in Range(T) : Waits(t)'
      BY <1>1, <2>10, <2>12, WaitsOn
    <3> QED
      BY <1>4, <1>8, <2>10, <3>1
  <2>15. ASSUME NEW a \in Places, NEW q \in Reached, Head(todo) = Visit(Value(a), a.at), Leads(a, q)
         PROVE  Fate(q)'
    <3>1. a.at = p.at
      BY <1>4, <2>15 DEF Visit, Task, At
    <3>2. a = p
      BY <1>1, <3>1, Unique DEF Reached
    <3>3. Leads(p, q) /\ ~IsUnsafe(Value(p)) /\ ~Assignment(Value(p)) /\ module' = module
      BY <1>2, <1>4, <1>6, <2>15, <3>2
    <3> QED
      BY <1>1, <2>14, <3>2, <3>3, Handed
  <2>16. \A v, x : Head(todo) # Task("check", v, x) /\ Head(todo) # Task("mutability", v, x) /\ Head(todo) # Task("refuse", v, x)
    BY <1>1 DEF Task
  <2>17. Sound'
    <3>1. Reached' = Reached /\ (\A v : IsUnsafe(v)' <=> IsUnsafe(v)) /\ (\A x : InUnsafe(x)' = InUnsafe(x))
      BY <1>2, Static
    <3> QED
      BY <1>1, <1>2, <3>1, Zenon DEF Sound
  <2>18. /\ \A g \in Names : Head(todo) = FuncVisit(g) => g \in typechecked'
         /\ \A x \in Reached : x.at[1] \in typechecked' \ typechecked => Fate(x)'
         /\ \A x \in Reached : Head(todo) = Task("check", Value(x), x.at) => UnsafeSettled(x)'
         /\ \A x \in Reached : Head(todo) \in {Task("mutability", Value(x), x.at), Task("refuse", Value(x), x.at)}
               => AssignmentSettled(x)'
    BY <1>2, <1>3, <2>16, Zenon
  <2>19. typechecked \subseteq typechecked' /\ typechecked' \subseteq Names /\ errors \subseteq errors' /\ module' = module
    BY <1>1, <1>2
  <2> QED
    BY <1>1, <2>10, <2>12, <2>13, <2>15, <2>17, <2>18, <2>19, Replaced
<1> QED
  BY <1>5, <1>9, <1>10

\* Checks that report nothing as unsafe.
Harmless(S) == \A c \in S : c[2] \notin UnsafeRules

\* What they report.
LEMMA HarmlessRules ==
  ASSUME NEW S, NEW at, Harmless(S)
  PROVE  \A e \in Rules(S, at) : e.rule \notin UnsafeRules
<1>1. ASSUME NEW e \in Rules(S, at) PROVE e.rule \notin UnsafeRules
  <2>1. PICK c \in S : e = [rule |-> c[2], at |-> at]
    BY DEF Rules
  <2>2. e.rule = c[2]
    BY <2>1
  <2> QED
    BY <2>1, <2>2, Zenon DEF Harmless
<1> QED
  BY <1>1

\* The first of a chain is one of the chain.
LEMMA FirstIsOne ==
  /\ \A a, b : a[2] \notin UnsafeRules /\ b[2] \notin UnsafeRules => Harmless(FirstOf(<<a, b>>))
  /\ \A a, b, c : a[2] \notin UnsafeRules /\ b[2] \notin UnsafeRules /\ c[2] \notin UnsafeRules
                    => Harmless(FirstOf(<<a, b, c>>))
  /\ \A a, b, c, d : a[2] \notin UnsafeRules /\ b[2] \notin UnsafeRules /\ c[2] \notin UnsafeRules /\ d[2] \notin UnsafeRules
                       => Harmless(FirstOf(<<a, b, c, d>>))
<1>1. \A s : \A x \in FirstOf(s) : \E i \in DOMAIN s : x = s[i]
  BY Zenon DEF FirstOf
<1>2. ASSUME NEW a, NEW b, a[2] \notin UnsafeRules, b[2] \notin UnsafeRules PROVE Harmless(FirstOf(<<a, b>>))
  <2>1. PICK s : s = <<a, b>>
    OBVIOUS
  <2>2. \A i \in DOMAIN s : s[i] = a \/ s[i] = b
    BY <2>1
  <2>3. ASSUME NEW x \in FirstOf(s) PROVE x[2] \notin UnsafeRules
    <3>1. PICK i \in DOMAIN s : x = s[i]
      BY <1>1, Zenon
    <3>2. x = a \/ x = b
      BY <2>2, <3>1, Zenon
    <3> QED
      BY <1>2, <3>2, Zenon
  <2> QED
    BY <2>1, <2>3, Zenon DEF Harmless
<1>3. ASSUME NEW a, NEW b, NEW c, a[2] \notin UnsafeRules, b[2] \notin UnsafeRules, c[2] \notin UnsafeRules
      PROVE  Harmless(FirstOf(<<a, b, c>>))
  <2>1. PICK s : s = <<a, b, c>>
    OBVIOUS
  <2>2. \A i \in DOMAIN s : s[i] = a \/ s[i] = b \/ s[i] = c
    BY <2>1
  <2>3. ASSUME NEW x \in FirstOf(s) PROVE x[2] \notin UnsafeRules
    <3>1. PICK i \in DOMAIN s : x = s[i]
      BY <1>1, Zenon
    <3>2. x = a \/ x = b \/ x = c
      BY <2>2, <3>1, Zenon
    <3> QED
      BY <1>3, <3>2, Zenon
  <2> QED
    BY <2>1, <2>3, Zenon DEF Harmless
<1>4. ASSUME NEW a, NEW b, NEW c, NEW d,
             a[2] \notin UnsafeRules, b[2] \notin UnsafeRules, c[2] \notin UnsafeRules, d[2] \notin UnsafeRules
      PROVE  Harmless(FirstOf(<<a, b, c, d>>))
  <2>1. PICK s : s = <<a, b, c, d>>
    OBVIOUS
  <2>2. \A i \in DOMAIN s : s[i] = a \/ s[i] = b \/ s[i] = c \/ s[i] = d
    BY <2>1
  <2>3. ASSUME NEW x \in FirstOf(s) PROVE x[2] \notin UnsafeRules
    <3>1. PICK i \in DOMAIN s : x = s[i]
      BY <1>1, Zenon
    <3>2. x = a \/ x = b \/ x = c \/ x = d
      BY <2>2, <3>1, Zenon
    <3> QED
      BY <1>4, <3>2, Zenon
  <2> QED
    BY <2>1, <2>3, Zenon DEF Harmless
<1> QED
  BY <1>2, <1>3, <1>4, Zenon

\* A declaration is not reported as unsafe.
LEMMA DeclarationsHarmless ==
  ASSUME NEW g
  PROVE  Harmless(checkFunctionDeclaration(g))
<1>0. \A x, r : <<x, r>>[2] = r
  OBVIOUS
<1>1. Harmless(CheckTest(g))
  <2> DEFINE S == FirstOf(<<<<isDeclaration(g), "test without body">>, <<~isInt32Type(Func(g).ret), "test returns">>,
                            <<Func(g).args > 0, "test with arguments">>, <<Has(g, "INLINE"), "test inline">>>>)
             W(x) == CASE x[2] = "expect" -> <<x[3] # "number", "expect">>
                       [] x[2] = "skip" -> <<x[3] # "none", "skip">>
                       [] OTHER -> <<TRUE, "test attribute">>
  <2>1. Harmless(S)
    <3>1. {"test without body", "test returns", "test with arguments", "test inline"} \cap UnsafeRules = {}
      BY DEF UnsafeRules
    <3>2. \A x, y, z, w : Harmless(FirstOf(<<<<x, "test without body">>, <<y, "test returns">>,
                                              <<z, "test with arguments">>, <<w, "test inline">>>>))
      BY <1>0, <3>1, FirstIsOne, Zenon
    <3> QED
      BY <3>2, Zenon
  <2>2. \A x : W(x)[2] \notin UnsafeRules
    BY DEF UnsafeRules
  <2>3. CheckTest(g) = S \cup {W(x) : x \in Given(g, "TEST")}
    BY Zenon DEF CheckTest
  <2> HIDE DEF S, W
  <2> QED
    BY <2>1, <2>2, <2>3, Zenon DEF Harmless
<1>2. Harmless(CheckBench(g))
  <2>1. {"bench without body", "bench with arguments", "bench inline"} \cap UnsafeRules = {}
    BY DEF UnsafeRules
  <2>2. \A x, y, z : Harmless(FirstOf(<<<<x, "bench without body">>, <<y, "bench with arguments">>, <<z, "bench inline">>>>))
    BY <1>0, <2>1, FirstIsOne, Zenon
  <2> QED
    BY <2>2, Zenon DEF CheckBench
<1>3. Harmless(CheckInline(g))
  <2>1. {"inline without body", "inline and no_inline"} \cap UnsafeRules = {}
    BY DEF UnsafeRules
  <2>2. \A x, y : Harmless(FirstOf(<<<<x, "inline without body">>, <<y, "inline and no_inline">>>>))
    BY <1>0, <2>1, FirstIsOne, Zenon
  <2> QED
    BY <2>2, Zenon DEF CheckInline
<1>4. Harmless(CheckLLVMFunc(g))
  <2>1. "llvm attribute" \notin UnsafeRules
    BY DEF UnsafeRules
  <2>2. ASSUME NEW c \in CheckLLVMFunc(g) PROVE c[2] \notin UnsafeRules
    <3>1. PICK x \in Given(g, "LLVM_FUNC") : c = <<x[2] # "sanitise_void_return" \/ x[3] # "none", "llvm attribute">>
      BY Zenon DEF CheckLLVMFunc
    <3>2. c[2] = "llvm attribute"
      BY <3>1
    <3> QED
      BY <2>1, <3>2, Zenon
  <2> QED
    BY <2>2, Zenon DEF Harmless
<1>5. Harmless({<<Given(g, "UNSAFE_FUNC_NOT_BODY") # {}, "unsafe arguments">>})
  <2>1. "unsafe arguments" \notin UnsafeRules
    BY DEF UnsafeRules
  <2> QED
    BY <1>0, <2>1, Zenon DEF Harmless
<1>6. Harmless({<<TRUE, "not body of a safe function">>})
  <2>1. "not body of a safe function" \notin UnsafeRules
    BY DEF UnsafeRules
  <2> QED
    BY <1>0, <2>1, Zenon DEF Harmless
<1>7. Harmless({})
  BY DEF Harmless
<1>8. checkFunctionDeclaration(g) \in {{<<Given(g, "UNSAFE_FUNC_NOT_BODY") # {}, "unsafe arguments">>},
        {<<TRUE, "not body of a safe function">>}, CheckTest(g), CheckBench(g), CheckInline(g), CheckLLVMFunc(g), {}}
  BY DEF checkFunctionDeclaration
<1> QED
  BY <1>1, <1>2, <1>3, <1>4, <1>5, <1>6, <1>7, <1>8, Zenon

\* More that is not unsafe may be reported.
LEMMA StillSound ==
  ASSUME Sound, module' = module, NEW E, errors' = errors \cup E,
         \A e \in E : e.rule \in UnsafeRules => \E p \in Reached : p.at = e.at /\ IsUnsafe(Value(p)) /\ ~InUnsafe(p)
  PROVE  Sound'
<1>1. Reached' = Reached /\ (\A v : IsUnsafe(v)' <=> IsUnsafe(v)) /\ (\A p : InUnsafe(p)' = InUnsafe(p))
  BY Static
<1>2. ASSUME NEW e \in errors', e.rule \in UnsafeRules
      PROVE  \E p \in Reached : p.at = e.at /\ IsUnsafe(Value(p)) /\ ~InUnsafe(p)
  BY <1>2, Zenon DEF Sound
<1> QED
  BY <1>1, <1>2, Zenon DEF Sound

\* The contexts after a step.
LEMMA LawfulAfter ==
  ASSUME module' = module, NEW q, NEW d, AllLawful(q, d), todo' = q, d = <<currentFunction', unsafeContext'>>
  PROVE  AllLawful(todo, <<currentFunction, unsafeContext>>)'
<1>1. AllLawful(q, d)'
  BY Static
<1> QED
  BY <1>1, Zenon

\* A function that is visited is one of the module; nothing is below a value that is a function.
LEMMA FuncVisited ==
  ASSUME IInv, Visiting({"func"})
  PROVE  /\ todo # <<>> /\ Head(todo).do = "visit" /\ It.f \in Names
         /\ \A g \in Names : Head(todo) = FuncVisit(g) => g = It.f
         /\ module' = module => \A a \in Places : \A q \in Reached :
               Head(todo) = Visit(Value(a), a.at) /\ Leads(a, q) => Fate(q)'
         /\ \A v, x : /\ Head(todo) # Task("check", v, x) /\ Head(todo) # Task("mutability", v, x)
                      /\ Head(todo) # Task("refuse", v, x)
<1>1. todo # <<>> /\ Head(todo).do = "visit" /\ It.k = "func" /\ module \in Program
  BY DEF Visiting, Doing, IInv
<1>2. \A g : Head(todo) = FuncVisit(g) => g = It.f
  BY DEF FuncVisit, Visit, Task, It
<1>3. It.f \in Names
  <2>1. CASE \E g \in Names : Head(todo) = FuncVisit(g)
    BY <1>2, <2>1
  <2>2. CASE \A g \in Names : Head(todo) # FuncVisit(g)
    <3>1. Head(todo).do # "restore" /\ Head(todo).do # "case"
      BY <1>1
    <3>2. PICK p \in Reached : It = Value(p)
      BY <1>1, <2>2, <3>1, AtPlace, Zenon
    <3>3. WellFormed(It, module)
      BY <1>1, <3>2, Family DEF Reached
    <3> QED
      BY <1>1, <3>3 DEF WellFormed, Names
  <2> QED
    BY <2>1, <2>2
<1>4. ASSUME module' = module, NEW a \in Places, NEW q \in Reached, Head(todo) = Visit(Value(a), a.at), Leads(a, q)
      PROVE  Fate(q)'
  <2>1. Value(a) = It
    BY <1>4 DEF Visit, Task, It
  <2>2. WellFormed(Value(a), module)
    BY <1>1, Family
  <2>3. Value(a).of = <<>> /\ ~IsUnsafe(Value(a)) /\ ~Assignment(Value(a))
    BY <1>1, <2>1, <2>2 DEF WellFormed, IsUnsafe, Assignment
  <2>4. Kids(Value(a), a.at) = {}
    BY <2>3, NoKids
  <2> QED
    BY <1>1, <1>4, <2>3, <2>4, Handed
<1>5. \A v, x : Head(todo) # Task("check", v, x) /\ Head(todo) # Task("mutability", v, x) /\ Head(todo) # Task("refuse", v, x)
  BY <1>1 DEF Task
<1> QED
  BY <1>1, <1>2, <1>3, <1>4, <1>5

\* A function that was checked is not checked again.
LEMMA AgainServes ==
  ASSUME IInv, Visiting({"func"}), It.f \in typechecked, todo' = Tail(todo), UNCHANGED <<context, errors>>
  PROVE  IInv'
<1>1. /\ todo # <<>> /\ Head(todo).do = "visit" /\ It.f \in Names
      /\ \A g \in Names : Head(todo) = FuncVisit(g) => g = It.f
      /\ module' = module => \A a \in Places : \A q \in Reached :
            Head(todo) = Visit(Value(a), a.at) /\ Leads(a, q) => Fate(q)'
      /\ \A v, x : /\ Head(todo) # Task("check", v, x) /\ Head(todo) # Task("mutability", v, x)
                   /\ Head(todo) # Task("refuse", v, x)
  BY FuncVisited
<1>2. /\ module' = module /\ typechecked' = typechecked /\ errors' = errors
      /\ currentFunction' = currentFunction /\ unsafeContext' = unsafeContext
  BY DEF context
<1>3. typechecked \subseteq Names /\ Sound
  BY DEF IInv
<1>4. PICK s, c : s = Tail(todo) /\ c = <<currentFunction, unsafeContext>>
  OBVIOUS
<1>5. IsSeq(s) /\ AllLawful(s, c)
  <2>1. Head(todo).do # "restore"
    BY <1>1
  <2> QED
    BY <1>1, <1>4, <2>1, HeadLawful, Zenon
<1>6. AllLawful(todo, <<currentFunction, unsafeContext>>)'
  BY <1>2, <1>4, <1>5, LawfulAfter
<1>7. PICK T : T = <<>>
  OBVIOUS
<1>8. IsSeq(T) /\ todo' = T \o Tail(todo)
  <2>1. <<>> \o s = s
    BY <1>5 DEF IsSeq
  <2> QED
    BY <1>4, <1>7, <2>1, Ranges
<1>9. Sound'
  <2>1. PICK E : E = {}
    OBVIOUS
  <2>2. errors' = errors \cup E /\ \A e : e \notin E
    BY <1>2, <2>1
  <2> QED
    BY <1>2, <1>3, <2>2, StillSound, Zenon
<1>10. /\ \A g \in Names : Head(todo) = FuncVisit(g) => g \in typechecked'
       /\ \A r \in Reached : r.at[1] \in typechecked' \ typechecked => Fate(r)'
       /\ \A r \in Reached : Head(todo) = Task("check", Value(r), r.at) => UnsafeSettled(r)'
       /\ \A r \in Reached : Head(todo) \in {Task("mutability", Value(r), r.at), Task("refuse", Value(r), r.at)}
             => AssignmentSettled(r)'
       /\ \A a \in Places : \A q \in Reached : Head(todo) = Visit(Value(a), a.at) /\ Leads(a, q) => Fate(q)'
  BY <1>1, <1>2, Zenon
<1>11. typechecked \subseteq typechecked' /\ typechecked' \subseteq Names /\ errors \subseteq errors'
  BY <1>2, <1>3
<1> QED
  BY <1>1, <1>2, <1>6, <1>8, <1>9, <1>10, <1>11, Replaced

\* A function that is met first is checked in a context of its own: everything in its body is to come.
LEMMA EnterServes ==
  ASSUME IInv, Visiting({"func"}), EnterFunc(It.f, UnsafeBody(It.f))
  PROVE  IInv'
<1>1. /\ todo # <<>> /\ Head(todo).do = "visit" /\ It.f \in Names
      /\ \A g \in Names : Head(todo) = FuncVisit(g) => g = It.f
      /\ module' = module => \A a \in Places : \A q \in Reached :
            Head(todo) = Visit(Value(a), a.at) /\ Leads(a, q) => Fate(q)'
      /\ \A v, x : /\ Head(todo) # Task("check", v, x) /\ Head(todo) # Task("mutability", v, x)
                   /\ Head(todo) # Task("refuse", v, x)
  BY FuncVisited
<1>2. PICK g, u : g = It.f /\ u = UnsafeBody(It.f)
  OBVIOUS
<1>3. /\ module' = module /\ typechecked' = typechecked \cup {g} /\ currentFunction' = g /\ unsafeContext' = u
      /\ errors' = errors \cup Rules(checkFunctionDeclaration(g), <<g>>)
      /\ todo' = [i \in DOMAIN Func(g).body |-> Visit(Func(g).body[i], <<g>>)]
                   \o <<Task("restore", <<currentFunction, unsafeContext>>, At)>> \o Tail(todo)
  BY <1>2 DEF EnterFunc
<1>4. module \in Program /\ IsSeq(todo) /\ typechecked \subseteq Names /\ Sound /\ g \in Names
  BY <1>1, <1>2 DEF IInv
<1>5. PICK fn \in Range(module.functions) : fn = Func(g) /\ fn.name = g
  BY <1>4, FuncIs
<1>6. IsSeq(fn.body) /\ Len(fn.body) \in {0, 1} /\ DOMAIN fn.body = 1..Len(fn.body)
  <2>1. IsSeq(fn.body) /\ Len(fn.body) <= 1
    BY <1>4, Program1
  <2>2. Len(fn.body) \in Nat /\ DOMAIN fn.body = 1..Len(fn.body)
    BY <2>1, SeqIs, Zenon
  <2>3. \A n \in Nat : n <= 1 => n \in {0, 1}
    OBVIOUS
  <2> QED
    BY <2>1, <2>2, <2>3, Zenon
<1>7. PICK B : B = [i \in DOMAIN Func(g).body |-> Visit(Func(g).body[i], <<g>>)]
  OBVIOUS
<1>8. DOMAIN B = 1..Len(fn.body) /\ \A i \in 1..Len(fn.body) : B[i] = Visit(fn.body[i], <<g>>)
  BY <1>5, <1>6, <1>7, Zenon
<1>9. IsSeq(B) /\ Len(B) = Len(fn.body)
  <2>1. PICK n : n = Len(fn.body)
    OBVIOUS
  <2>2. \A i \in 1..n : B[i] \in Range(B)
    BY <1>8, <2>1, Zenon DEF Range
  <2>3. B = [i \in 1..n |-> B[i]]
    BY <1>7, <1>8, <2>1, Zenon
  <2>4. n \in Nat
    BY <1>6, <2>1
  <2>5. B \in Seq(Range(B)) /\ Len(B) = n
    BY <2>2, <2>3, <2>4
  <2> QED
    BY <2>1, <2>5 DEF IsSeq
<1>10. ASSUME fn.body # <<>>, NEW p, p = [at |-> <<g>>, way |-> <<fn.body[1]>>]
       PROVE  /\ p \in Tops(module) /\ p \in Reached /\ p.at = <<g>> /\ p.at[1] = g /\ Value(p) = fn.body[1]
              /\ u = InUnsafe(p)
  <2>1. fn \in Bodies(module) /\ p.at = <<g>> /\ p.at[1] = g /\ p.way = <<fn.body[1]>>
    BY <1>5, <1>10 DEF Bodies
  <2>2. p \in Tops(module)
    BY <1>5, <1>10, <2>1 DEF Tops
  <2>3. p \in Reached /\ InUnsafe(p) = UnsafeFunc(module, g)
    BY <1>4, <2>1, <2>2, TopReached
  <2>4. \A x \in Bodies(module) : x.name = g => x = fn
    BY <1>4, <1>5, Program1 DEF Bodies
  <2>5. UnsafeFunc(module, g) = UnsafeBody(g)
    <3>1. UnsafeFunc(module, g) <=> UnsafeBody(g)
      BY <1>5, <2>1, <2>4, Zenon DEF UnsafeFunc, UnsafeBody, Has
    <3> QED
      BY <3>1, Zenon DEF UnsafeFunc, UnsafeBody
  <2>6. Value(p) = fn.body[1]
    BY <2>1 DEF Value, Last
  <2> QED
    BY <1>2, <2>1, <2>2, <2>3, <2>5, <2>6, Zenon
<1>11. PICK r, R, s, c, d : /\ r = Task("restore", <<currentFunction, unsafeContext>>, At) /\ R = <<r>> /\ s = Tail(todo)
                            /\ c = <<currentFunction, unsafeContext>> /\ d = <<g, u>>
  OBVIOUS
<1>12. r.do = "restore" /\ r.what = c
  BY <1>11 DEF Task
<1>13. IsSeq(R) /\ Range(R) = {r}
  BY <1>11, Ranges, Zenon
<1>14. IsSeq(s) /\ AllLawful(s, c)
  <2>1. Head(todo).do # "restore"
    BY <1>1
  <2> QED
    BY <1>1, <1>11, <2>1, HeadLawful, Zenon
<1>15. AllLawful(R \o s, d)
  <2>1. \E x, y : c = <<x, y>>
    BY <1>11, Zenon
  <2> QED
    BY <1>11, <1>12, <1>14, <2>1, PushedRestore
<1>16. IsSeq(R \o s)
  BY <1>13, <1>14, Ranges, Zenon
<1>17. ASSUME NEW i \in 1..Len(B) PROVE B[i].do # "restore" /\ Lawful(B[i], d)
  <2>1. i = 1 /\ fn.body # <<>>
    <3>1. Len(fn.body) = 1
      BY <1>6, <1>9
    <3>2. fn.body = <<>> => Len(fn.body) = 0
      OBVIOUS
    <3> QED
      BY <1>9, <3>1, <3>2
  <2>2. PICK p : p = [at |-> <<g>>, way |-> <<fn.body[1]>>]
    OBVIOUS
  <2>3. p \in Reached /\ p.at = <<g>> /\ p.at[1] = g /\ Value(p) = fn.body[1] /\ u = InUnsafe(p)
    BY <1>10, <2>1, <2>2
  <2>4. B[i] = Visit(Value(p), p.at)
    BY <1>8, <1>9, <2>1, <2>3
  <2>5. B[i].do = "visit" /\ B[i].at = p.at /\ B[i].what = Value(p)
    BY <2>4 DEF Visit, Task
  <2>6. Of(B[i], p)
    BY <2>5 DEF Of
  <2>7. d = <<p.at[1], InUnsafe(p)>>
    BY <1>11, <2>3
  <2>8. B[i].do # "restore"
    BY <2>5
  <2> QED
    BY <2>3, <2>6, <2>7, <2>8, Zenon DEF Lawful
<1>18. AllLawful(B \o (R \o s), d)
  <2>1. PICK w : w = R \o s
    OBVIOUS
  <2>2. IsSeq(w) /\ AllLawful(w, d)
    BY <1>15, <1>16, <2>1
  <2> QED
    BY <1>9, <1>17, <2>1, <2>2, Pushed
<1>19. PICK T : T = B \o R
  OBVIOUS
<1>20. IsSeq(T) /\ Range(T) = Range(B) \cup Range(R)
  <2>1. IsSeq(B \o R) /\ Range(B \o R) = Range(B) \cup Range(R)
    BY <1>9, <1>13, Ranges, Zenon
  <2> QED
    BY <1>19, <2>1
<1>21. T \o s = B \o (R \o s) /\ todo' = T \o s
  <2>1. (B \o R) \o s = B \o (R \o s)
    BY <1>9, <1>13, <1>14, Associates
  <2> QED
    BY <1>3, <1>7, <1>11, <1>19, <2>1
<1>22. AllLawful(todo, <<currentFunction, unsafeContext>>)'
  <2>1. PICK q : q = T \o s
    OBVIOUS
  <2>2. AllLawful(q, d) /\ todo' = q
    BY <1>18, <1>21, <2>1
  <2> QED
    BY <1>3, <1>11, <2>2, LawfulAfter
<1>23. \A t \in Range(B) : Waits(t)'
  <2>1. todo' = T \o Tail(todo)
    BY <1>11, <1>21
  <2>2. \A t \in Range(T) : Waits(t)'
    BY <1>1, <1>4, <1>20, <2>1, WaitsOn
  <2> QED
    BY <1>20, <2>2
<1>24. ASSUME NEW q \in Reached, q.at[1] \in typechecked' \ typechecked PROVE Fate(q)'
  <2>1. q.at[1] = g /\ q \in Places
    BY <1>3, <1>24 DEF Reached
  <2>2. PICK t \in Tops(module) : Leads(t, q) /\ t.at[1] = g
    BY <1>4, <2>1, Root
  <2>3. fn.body # <<>> /\ t = [at |-> <<g>>, way |-> <<fn.body[1]>>]
    <3>1. CASE \E f \in Bodies(module) : t = [at |-> <<f.name>>, way |-> <<f.body[1]>>]
      <4>1. PICK f \in Bodies(module) : t = [at |-> <<f.name>>, way |-> <<f.body[1]>>]
        BY <3>1
      <4>2. f.name = g
        BY <2>2, <4>1
      <4>3. f = fn
        BY <1>4, <1>5, <4>2, Program1 DEF Bodies
      <4> QED
        BY <4>1, <4>2, <4>3 DEF Bodies
    <3>2. CASE \E i \in DOMAIN module.variables : t = [at |-> <<NoFunction, i>>, way |-> <<module.variables[i]>>]
      <4>1. t.at[1] = NoFunction
        BY <3>2
      <4> QED
        BY <1>4, <2>2, <4>1, Program1
    <3> QED
      BY <1>4, <3>1, <3>2, TopIs
  <2>4. t \in Places /\ t.at = <<g>> /\ Value(t) = fn.body[1]
    BY <1>4, <1>10, <2>3, PlacesAre
  <2>5. 1 \in DOMAIN B
    <3>1. Len(fn.body) # 0
      BY <1>6, <2>3 DEF IsSeq
    <3> QED
      BY <1>6, <1>8, <3>1
  <2>6. PICK x : x = Visit(Value(t), t.at)
    OBVIOUS
  <2>7. x = B[1]
    BY <1>8, <2>4, <2>5, <2>6
  <2>8. Waits(x)'
    BY <1>23, <2>5, <2>7 DEF Range
  <2>9. Places' = Places
    BY <1>3, Static
  <2>10. ToCome(q)'
    BY <2>2, <2>4, <2>6, <2>8, <2>9, Zenon DEF ToCome
  <2> QED
    BY <2>10 DEF Fate
<1>25. Sound'
  <2>1. \A e \in Rules(checkFunctionDeclaration(g), <<g>>) : e.rule \notin UnsafeRules
    BY DeclarationsHarmless, HarmlessRules
  <2> QED
    BY <1>3, <1>4, <2>1, StillSound, Zenon
<1>26. /\ \A f \in Names : Head(todo) = FuncVisit(f) => f \in typechecked'
       /\ \A q \in Reached : Head(todo) = Task("check", Value(q), q.at) => UnsafeSettled(q)'
       /\ \A q \in Reached : Head(todo) \in {Task("mutability", Value(q), q.at), Task("refuse", Value(q), q.at)}
             => AssignmentSettled(q)'
       /\ \A a \in Places : \A q \in Reached : Head(todo) = Visit(Value(a), a.at) /\ Leads(a, q) => Fate(q)'
  <2>1. g \in typechecked'
    BY <1>3
  <2> QED
    BY <1>1, <1>2, <1>3, <2>1, Zenon
<1>27. typechecked \subseteq typechecked' /\ typechecked' \subseteq Names /\ errors \subseteq errors'
  BY <1>3, <1>4
<1>28. todo' = T \o Tail(todo)
  BY <1>11, <1>21
<1> QED
  BY <1>1, <1>3, <1>20, <1>22, <1>24, <1>25, <1>26, <1>27, <1>28, Replaced

\* The end of a function or an unsafe block: what follows has the context that is restored.
LEMMA LeaveServes ==
  ASSUME IInv, Leave
  PROVE  IInv'
<1>1. /\ todo # <<>> /\ Head(todo).do = "restore" /\ currentFunction' = It[1] /\ unsafeContext' = It[2]
      /\ todo' = Tail(todo) /\ UNCHANGED <<module, typechecked, errors, seen>>
  BY DEF Leave, Doing
<1>2. typechecked \subseteq Names /\ Sound
  BY DEF IInv
<1>3. PICK s, d : s = Tail(todo) /\ d = It
  OBVIOUS
<1>4. IsSeq(s) /\ AllLawful(s, d) /\ Lawful(Head(todo), <<currentFunction, unsafeContext>>)
  BY <1>1, <1>3, HeadLawful DEF It
<1>5. d = <<currentFunction', unsafeContext'>>
  <2>1. \A t, c : Lawful(t, c) /\ t.do = "restore" => \E x, y : t.what = <<x, y>>
    <3>1. \A g, t : t = FuncVisit(g) => t.do # "restore"
      BY DEF FuncVisit, Visit, Task
    <3>2. \A t, p : Of(t, p) => t.do # "restore"
      BY DEF Of
    <3> QED
      BY <3>1, <3>2, Zenon DEF Lawful
  <2>2. PICK x, y : It = <<x, y>>
    BY <1>1, <1>4, <2>1, Zenon DEF It
  <2>3. It[1] = x /\ It[2] = y
    BY <2>2
  <2> QED
    BY <1>1, <1>3, <2>2, <2>3
<1>6. AllLawful(todo, <<currentFunction, unsafeContext>>)'
  BY <1>1, <1>3, <1>4, <1>5, LawfulAfter
<1>7. PICK T : T = <<>>
  OBVIOUS
<1>8. IsSeq(T) /\ todo' = T \o Tail(todo)
  <2>1. <<>> \o s = s
    BY <1>4 DEF IsSeq
  <2> QED
    BY <1>1, <1>3, <1>7, <2>1, Ranges
<1>9. Sound'
  <2>1. PICK E : E = {}
    OBVIOUS
  <2>2. errors' = errors \cup E /\ \A e : e \notin E
    BY <1>1, <2>1
  <2> QED
    BY <1>1, <1>2, <2>2, StillSound, Zenon
<1>10. /\ \A g : Head(todo) # FuncVisit(g)
       /\ \A v, x : /\ Head(todo) # Task("check", v, x) /\ Head(todo) # Task("mutability", v, x)
                    /\ Head(todo) # Task("refuse", v, x) /\ Head(todo) # Visit(v, x)
  BY <1>1 DEF FuncVisit, Visit, Task
<1>11. /\ \A g \in Names : Head(todo) = FuncVisit(g) => g \in typechecked'
       /\ \A r \in Reached : r.at[1] \in typechecked' \ typechecked => Fate(r)'
       /\ \A r \in Reached : Head(todo) = Task("check", Value(r), r.at) => UnsafeSettled(r)'
       /\ \A r \in Reached : Head(todo) \in {Task("mutability", Value(r), r.at), Task("refuse", Value(r), r.at)}
             => AssignmentSettled(r)'
       /\ \A a \in Places : \A q \in Reached : Head(todo) = Visit(Value(a), a.at) /\ Leads(a, q) => Fate(q)'
  BY <1>1, <1>10, Zenon
<1>12. typechecked \subseteq typechecked' /\ typechecked' \subseteq Names /\ errors \subseteq errors'
  BY <1>1, <1>2
<1> QED
  BY <1>1, <1>6, <1>8, <1>9, <1>11, <1>12, Replaced

\* A check keeps the invariant when what it reports as unsafe is, and it settles its place.
LEMMA Judged ==
  ASSUME IInv, todo # <<>>, Head(todo).do \notin {"restore", "visit"},
         NEW T, IsSeq(T), \A t \in Range(T) : t.do # "restore" /\ Lawful(t, <<currentFunction, unsafeContext>>),
         todo' = T \o Tail(todo), UNCHANGED context,
         NEW E, errors' = errors \cup E,
         \A e \in E : e.rule \in UnsafeRules => e.at = At /\ Head(todo).do = "check" /\ IsUnsafe(It) /\ ~unsafeContext,
         Head(todo).do = "check" /\ IsUnsafe(It) => unsafeContext \/ \E e \in E : e.rule \in UnsafeRules /\ e.at = At,
         \A p \in Reached : Head(todo) \in {Task("mutability", Value(p), p.at), Task("refuse", Value(p), p.at)}
             => AssignmentSettled(p)'
  PROVE  IInv'
<1>1. /\ module' = module /\ typechecked' = typechecked
      /\ currentFunction' = currentFunction /\ unsafeContext' = unsafeContext
  BY DEF context
<1>2. module \in Program /\ typechecked \subseteq Names /\ Sound
  BY DEF IInv
<1>3. /\ \A g : Head(todo) # FuncVisit(g)
      /\ \A v, x : Head(todo) # Visit(v, x)
  BY DEF FuncVisit, Visit, Task
<1>4. PICK p \in Reached : /\ At = p.at /\ (Head(todo).do # "case" => It = Value(p))
                           /\ currentFunction = p.at[1] /\ unsafeContext = InUnsafe(p)
  <2>1. Head(todo).do # "restore"
    OBVIOUS
  <2> QED
    BY <1>3, <2>1, AtPlace, Zenon
<1>5. PICK s, c : s = Tail(todo) /\ c = <<currentFunction, unsafeContext>>
  OBVIOUS
<1>6. IsSeq(s) /\ AllLawful(s, c)
  <2>1. Head(todo).do # "restore"
    OBVIOUS
  <2> QED
    BY <1>5, <2>1, HeadLawful, Zenon
<1>7. AllLawful(todo, <<currentFunction, unsafeContext>>)'
  <2>1. \A i \in 1..Len(T) : T[i].do # "restore" /\ Lawful(T[i], c)
    <3>1. DOMAIN T = 1..Len(T)
      BY SeqIs
    <3>2. \A i \in 1..Len(T) : T[i] \in Range(T)
      BY <3>1 DEF Range
    <3> QED
      BY <1>5, <3>2, Zenon
  <2>2. AllLawful(T \o s, c)
    BY <1>6, <2>1, Pushed
  <2>3. PICK q : q = T \o s
    OBVIOUS
  <2>4. todo' = q /\ AllLawful(q, c) /\ c = <<currentFunction', unsafeContext'>>
    BY <1>1, <1>5, <2>2, <2>3
  <2> QED
    BY <1>1, <2>4, LawfulAfter
<1>8. Sound'
  <2>1. ASSUME NEW e \in E, e.rule \in UnsafeRules
        PROVE  p.at = e.at /\ IsUnsafe(Value(p)) /\ ~InUnsafe(p)
    <3>1. e.at = At /\ Head(todo).do = "check" /\ IsUnsafe(It) /\ ~unsafeContext
      BY <2>1
    <3>2. It = Value(p)
      BY <1>4, <3>1
    <3> QED
      BY <1>4, <3>1, <3>2, Zenon
  <2> QED
    BY <1>1, <1>2, <2>1, StillSound, Zenon
<1>9. ASSUME NEW q \in Reached, Head(todo) = Task("check", Value(q), q.at) PROVE UnsafeSettled(q)'
  <2>1. Head(todo).do = "check" /\ It = Value(q) /\ At = q.at
    BY <1>9 DEF Task, It, At
  <2>2. p = q
    BY <1>2, <1>4, <2>1, Unique DEF Reached
  <2>3. (\A v : IsUnsafe(v)' <=> IsUnsafe(v)) /\ (\A x : InUnsafe(x)' = InUnsafe(x))
    BY <1>1, Static
  <2>4. IsUnsafe(Value(q)) => InUnsafe(q) \/ \E e \in E : e.rule \in UnsafeRules /\ e.at = q.at
    BY <1>4, <2>1, <2>2, Zenon
  <2>5. (\E e \in E : e.rule \in UnsafeRules /\ e.at = q.at) => q.at \in ReportedAt(UnsafeRules)'
    <3>1. \A x : x \in ReportedAt(UnsafeRules)' <=> \E e \in errors' : e.rule \in UnsafeRules /\ e.at = x
      BY DEF ReportedAt
    <3>2. E \subseteq errors'
      OBVIOUS
    <3> QED
      BY <3>1, <3>2, Zenon
  <2> QED
    BY <2>3, <2>4, <2>5, Zenon DEF UnsafeSettled
<1>10. /\ \A g \in Names : Head(todo) = FuncVisit(g) => g \in typechecked'
       /\ \A r \in Reached : r.at[1] \in typechecked' \ typechecked => Fate(r)'
       /\ \A a \in Places : \A q \in Reached : Head(todo) = Visit(Value(a), a.at) /\ Leads(a, q) => Fate(q)'
  BY <1>1, <1>3, Zenon
<1>11. typechecked \subseteq typechecked' /\ typechecked' \subseteq Names /\ errors \subseteq errors'
  BY <1>1, <1>2
<1> QED
  BY <1>1, <1>7, <1>8, <1>9, <1>10, <1>11, Replaced

\* The same for a check that leads to nothing.
LEMMA Reported ==
  ASSUME IInv, todo # <<>>, Head(todo).do \notin {"restore", "visit"}, NEW checks, Report(checks),
         \A e \in Rules(checks, At) :
             e.rule \in UnsafeRules => Head(todo).do = "check" /\ IsUnsafe(It) /\ ~unsafeContext,
         Head(todo).do = "check" /\ IsUnsafe(It) =>
             unsafeContext \/ \E e \in Rules(checks, At) : e.rule \in UnsafeRules,
         Head(todo).do # "mutability",
         Head(todo).do = "refuse" => Rules(checks, At) # {}
  PROVE  IInv'
<1>1. errors' = errors \cup Rules(checks, At) /\ todo' = Tail(todo) /\ UNCHANGED context
  BY DEF Report
<1>2. PICK E : E = Rules(checks, At)
  OBVIOUS
<1>3. \A e \in E : e.at = At
  BY <1>2 DEF Rules
<1>4. PICK T : T = <<>>
  OBVIOUS
<1>5. IsSeq(T) /\ Range(T) = {}
  BY <1>4, Ranges, Zenon
<1>6. todo' = T \o Tail(todo)
  <2>1. PICK s : s = Tail(todo)
    OBVIOUS
  <2>2. IsSeq(s)
    BY <2>1, HeadLawful
  <2>3. <<>> \o s = s
    BY <2>2 DEF IsSeq
  <2> QED
    BY <1>1, <1>4, <2>1, <2>3
<1>7. ASSUME NEW p \in Reached, Head(todo) \in {Task("mutability", Value(p), p.at), Task("refuse", Value(p), p.at)}
      PROVE  AssignmentSettled(p)'
  <2>1. Head(todo).do = "refuse"
    BY <1>7 DEF Task
  <2>2. errors' # {}
    BY <1>1, <2>1
  <2> QED
    BY <2>2, Zenon DEF AssignmentSettled
<1>8. \A e \in E : e.rule \in UnsafeRules => e.at = At /\ Head(todo).do = "check" /\ IsUnsafe(It) /\ ~unsafeContext
  BY <1>2, <1>3, Zenon
<1>9. Head(todo).do = "check" /\ IsUnsafe(It) => unsafeContext \/ \E e \in E : e.rule \in UnsafeRules /\ e.at = At
  BY <1>2, <1>3, Zenon
<1>10. \A t \in Range(T) : t.do # "restore" /\ Lawful(t, <<currentFunction, unsafeContext>>)
  BY <1>5
<1>11. errors' = errors \cup E
  BY <1>1, <1>2
<1> QED
  BY <1>1, <1>5, <1>6, <1>7, <1>8, <1>9, <1>10, <1>11, Judged

\* A check that reports nothing as unsafe, of something that is not.
LEMMA HarmlessReport ==
  ASSUME IInv, todo # <<>>, Head(todo).do \notin {"restore", "visit", "mutability", "refuse"}, NEW checks, Report(checks),
         Harmless(checks), Head(todo).do = "check" => ~IsUnsafe(It)
  PROVE  IInv'
<1>1. \A e \in Rules(checks, At) : e.rule \notin UnsafeRules
  BY HarmlessRules
<1>2. Head(todo).do \notin {"restore", "visit"} /\ Head(todo).do # "mutability" /\ Head(todo).do # "refuse"
  OBVIOUS
<1> QED
  BY <1>1, <1>2, Reported, Zenon

\* Checks of a void value, a field, an argument, a type.
LEMMA ChecksServe ==
  ASSUME IInv,
         \/ CheckVariable \/ CheckReferenceTo \/ CheckIndexExtract \/ CheckVariableDeclaration \/ CheckCase
         \/ CheckReturn \/ CheckEnumInit \/ CheckCallOfValue
  PROVE  IInv'
<1>0. /\ \A x, r : <<x, r>>[2] = r
      /\ \A r \in {"void", "case type", "return a value", "return nothing", "return type", "enum arguments",
                   "enum field", "not callable"} : r \notin UnsafeRules
  BY DEF UnsafeRules
<1>1. \A r : r \notin UnsafeRules => \A x : Harmless({<<x, r>>})
  BY <1>0, Zenon DEF Harmless
<1>2. ASSUME NEW kind \in {"variable", "reference", "index", "declaration"}, Checking(kind), NEW t, Report({CantBeVoid(t)})
      PROVE  IInv'
  <2>1. todo # <<>> /\ Head(todo).do = "check" /\ ~IsUnsafe(It)
    BY <1>2 DEF Checking, Doing, IsUnsafe
  <2>2. PICK checks : checks = {CantBeVoid(t)}
    OBVIOUS
  <2>3. Harmless(checks) /\ Report(checks)
    BY <1>0, <1>1, <1>2, <2>2 DEF CantBeVoid
  <2>4. Head(todo).do \notin {"restore", "visit", "mutability", "refuse"}
    BY <2>1
  <2> QED
    BY <2>1, <2>3, <2>4, HarmlessReport
<1>3. CASE CheckVariable
  <2>1. Checking("variable") /\ Report({CantBeVoid(It.type)})
    BY <1>3 DEF CheckVariable
  <2>2. PICK t : t = It.type
    OBVIOUS
  <2> QED
    BY <1>2, <2>1, <2>2
<1>4. CASE CheckReferenceTo
  <2>1. Checking("reference") /\ Report({CantBeVoid(It.of[1].type)})
    BY <1>4 DEF CheckReferenceTo
  <2>2. PICK t : t = It.of[1].type
    OBVIOUS
  <2> QED
    BY <1>2, <2>1, <2>2
<1>5. CASE CheckIndexExtract
  <2>1. Checking("index") /\ Report({CantBeVoid(It.type)})
    BY <1>5 DEF CheckIndexExtract
  <2>2. PICK t : t = It.type
    OBVIOUS
  <2> QED
    BY <1>2, <2>1, <2>2
<1>6. CASE CheckVariableDeclaration
  <2>1. Checking("declaration") /\ Report({CantBeVoid(It.of[1].type)})
    BY <1>6 DEF CheckVariableDeclaration
  <2>2. PICK t : t = It.of[1].type
    OBVIOUS
  <2> QED
    BY <1>2, <2>1, <2>2
<1>7. CASE CheckCase
  <2>1. todo # <<>> /\ Head(todo).do = "case" /\ Report({<<~Is(It[1], It[2]), "case type">>})
    BY <1>7 DEF CheckCase, Doing
  <2>2. PICK checks : checks = {<<~Is(It[1], It[2]), "case type">>}
    OBVIOUS
  <2>3. Harmless(checks) /\ Report(checks)
    BY <1>0, <1>1, <2>1, <2>2
  <2>4. Head(todo).do \notin {"restore", "visit", "mutability", "refuse"} /\ Head(todo).do # "check"
    BY <2>1
  <2> QED
    BY <2>1, <2>3, <2>4, HarmlessReport
<1>8. CASE CheckReturn
  <2>1. todo # <<>> /\ Head(todo).do = "check" /\ ~IsUnsafe(It)
    BY <1>8 DEF CheckReturn, Checking, Doing, IsUnsafe
  <2>2. PICK x, y, z, checks : /\ checks = {<<x, "return a value">>, <<y, "return nothing">>, <<z, "return type">>}
                               /\ Report(checks)
    BY <1>8, Zenon DEF CheckReturn
  <2>3. Harmless(checks)
    BY <1>0, <2>2 DEF Harmless
  <2>4. Head(todo).do \notin {"restore", "visit", "mutability", "refuse"}
    BY <2>1
  <2> QED
    BY <2>1, <2>2, <2>3, <2>4, HarmlessReport
<1>9. CASE CheckEnumInit
  <2>1. todo # <<>> /\ Head(todo).do = "check" /\ ~IsUnsafe(It)
    BY <1>9 DEF CheckEnumInit, Checking, Doing, IsUnsafe
  <2>2. PICK checks : Report(checks) /\ \A c \in checks : \E x : c = <<x, "enum arguments">> \/ c = <<x, "enum field">>
    <3> DEFINE n == Len(It.of)
               m == Len(It.fields)
               X(beyond, i) == IF i > m THEN beyond[i] ELSE ~Is(It.of[i].type, It.fields[i])
    <3>1. PICK beyond \in [m + 1..n -> BOOLEAN] :
             Report({<<n # m, "enum arguments">>} \cup {<<X(beyond, i), "enum field">> : i \in 1..n})
      BY <1>9 DEF CheckEnumInit
    <3>2. PICK checks : checks = {<<n # m, "enum arguments">>} \cup {<<X(beyond, i), "enum field">> : i \in 1..n}
      OBVIOUS
    <3> HIDE DEF X
    <3>3. Report(checks)
      BY <3>1, <3>2
    <3>4. \A c \in checks : \E x : c = <<x, "enum arguments">> \/ c = <<x, "enum field">>
      BY <3>2, Zenon
    <3> QED
      BY <3>3, <3>4, Zenon
  <2>3. Harmless(checks)
    <3>1. ASSUME NEW c \in checks PROVE c[2] \notin UnsafeRules
      <4>1. c[2] = "enum arguments" \/ c[2] = "enum field"
        BY <1>0, <2>2, Zenon
      <4> QED
        BY <1>0, <4>1
    <3> QED
      BY <3>1, Zenon DEF Harmless
  <2>4. Head(todo).do \notin {"restore", "visit", "mutability", "refuse"}
    BY <2>1
  <2> QED
    BY <2>1, <2>2, <2>3, <2>4, HarmlessReport
<1>10. CASE CheckCallOfValue
  <2>1. todo # <<>> /\ Head(todo).do = "check" /\ ~IsUnsafe(It) /\ Report({<<~It.callable, "not callable">>})
    BY <1>10 DEF CheckCallOfValue, Checking, Doing, IsUnsafe
  <2>2. PICK checks : checks = {<<~It.callable, "not callable">>}
    OBVIOUS
  <2>3. Harmless(checks) /\ Report(checks)
    BY <1>0, <1>1, <2>1, <2>2
  <2>4. Head(todo).do \notin {"restore", "visit", "mutability", "refuse"}
    BY <2>1
  <2> QED
    BY <2>1, <2>3, <2>4, HarmlessReport
<1> QED
  BY <1>3, <1>4, <1>5, <1>6, <1>7, <1>8, <1>9, <1>10

\* What a rule reports, at this place: exactly the checks that hold.
LEMMA RulesAre ==
  ASSUME NEW S, NEW at
  PROVE  /\ \A e \in Rules(S, at) : \E c \in S : c[1] /\ e.rule = c[2]
         /\ \A c \in S : c[1] => \E e \in Rules(S, at) : e.rule = c[2]
<1>1. ASSUME NEW e \in Rules(S, at) PROVE \E c \in S : c[1] /\ e.rule = c[2]
  <2>1. PICK c \in S : c[1] /\ e = [rule |-> c[2], at |-> at]
    BY Zenon DEF Rules
  <2>2. e.rule = c[2]
    BY <2>1
  <2> QED
    BY <2>1, <2>2, Zenon
<1>2. ASSUME NEW c \in S, c[1] PROVE \E e \in Rules(S, at) : e.rule = c[2]
  <2>1. PICK e : e = [rule |-> c[2], at |-> at]
    OBVIOUS
  <2>2. e \in Rules(S, at)
    BY <1>2, <2>1, Zenon DEF Rules
  <2>3. e.rule = c[2]
    BY <2>1
  <2> QED
    BY <2>2, <2>3, Zenon
<1> QED
  BY <1>1, <1>2

\* A dereference, a cast and a call: unsafe where the context does not allow it.
LEMMA UnsafeServe ==
  ASSUME IInv, CheckDereferenceTo \/ CheckCast \/ CheckCall
  PROVE  IInv'
<1>0. /\ \A x, r : <<x, r>>[2] = r
      /\ \A r \in {"void", "not a reference", "cast from void", "cast to mutable", "cast", "not implemented"} : r \notin UnsafeRules
      /\ \A r \in {"unsafe dereference", "unsafe call", "unsafe cast"} : r \in UnsafeRules
  BY DEF UnsafeRules
<1>1. todo # <<>> /\ Head(todo).do = "check"
  BY DEF CheckDereferenceTo, CheckCast, CheckCall, Checking, Doing
<1>2. ASSUME NEW checks, Report(checks),
             \A c \in checks : c[1] /\ c[2] \in UnsafeRules => IsUnsafe(It) /\ ~unsafeContext,
             IsUnsafe(It) /\ ~unsafeContext => \E c \in checks : c[1] /\ c[2] \in UnsafeRules
      PROVE  IInv'
  <2>0. /\ \A e \in Rules(checks, At) : \E c \in checks : c[1] /\ e.rule = c[2]
        /\ \A c \in checks : c[1] => \E e \in Rules(checks, At) : e.rule = c[2]
    <3>1. PICK at : at = At
      OBVIOUS
    <3> QED
      BY <3>1, RulesAre
  <2>1. \A e \in Rules(checks, At) : e.rule \in UnsafeRules => Head(todo).do = "check" /\ IsUnsafe(It) /\ ~unsafeContext
    <3>1. ASSUME NEW e \in Rules(checks, At), e.rule \in UnsafeRules PROVE IsUnsafe(It) /\ ~unsafeContext
      <4>1. PICK c \in checks : c[1] /\ e.rule = c[2]
        BY <2>0, Zenon
      <4>2. c[2] \in UnsafeRules
        BY <3>1, <4>1
      <4> QED
        BY <1>2, <4>1, <4>2, Zenon
    <3> QED
      BY <1>1, <3>1, Zenon
  <2>2. IsUnsafe(It) => unsafeContext \/ \E e \in Rules(checks, At) : e.rule \in UnsafeRules
    <3>1. ASSUME NEW c \in checks, c[1], c[2] \in UnsafeRules PROVE \E e \in Rules(checks, At) : e.rule \in UnsafeRules
      <4>1. PICK e \in Rules(checks, At) : e.rule = c[2]
        BY <2>0, <3>1, Zenon
      <4>2. e.rule \in UnsafeRules
        BY <3>1, <4>1
      <4> QED
        BY <4>2
    <3> QED
      BY <1>2, <3>1, Zenon
  <2>3. Head(todo).do \notin {"restore", "visit"} /\ Head(todo).do # "mutability" /\ Head(todo).do # "refuse"
    BY <1>1
  <2> QED
    BY <1>1, <1>2, <2>1, <2>2, <2>3, Reported
<1>3. CASE CheckDereferenceTo
  <2>1. IsUnsafe(It) <=> IsPointer(It.of[1].type)
    BY <1>3 DEF CheckDereferenceTo, Checking, Doing, IsUnsafe
  <2>2. PICK x, a, b, d, checks : /\ checks = {a, b, d} /\ Report(checks)
                                  /\ x = It.of[1].type /\ a = CantBeVoid(x)
                                  /\ b = <<IsPointer(x) /\ ~unsafeContext, "unsafe dereference">>
                                  /\ d = <<~IsPointer(x) /\ ~IsReference(x), "not a reference">>
    BY <1>3, Zenon DEF CheckDereferenceTo
  <2>3. /\ a[2] \notin UnsafeRules /\ d[2] \notin UnsafeRules
        /\ b[2] \in UnsafeRules /\ (b[1] <=> IsPointer(x) /\ ~unsafeContext)
    BY <1>0, <2>2 DEF CantBeVoid
  <2>4. \A c \in checks : c[1] /\ c[2] \in UnsafeRules => IsUnsafe(It) /\ ~unsafeContext
    BY <2>1, <2>2, <2>3, Zenon
  <2>5. IsUnsafe(It) /\ ~unsafeContext => \E c \in checks : c[1] /\ c[2] \in UnsafeRules
    <3>1. b \in checks
      BY <2>2
    <3> QED
      BY <2>1, <2>2, <2>3, <3>1, Zenon
  <2> QED
    BY <1>2, <2>2, <2>4, <2>5
<1>4. CASE CheckCast
  <2>1. IsUnsafe(It) <=> PointerToFunction(It.of[1].type, It.type)
    BY <1>4 DEF CheckCast, Checking, Doing, IsUnsafe
  <2>2. PICK x, y3, y4, a, b, c3, c4 : /\ Report({a, b, c3, c4}) /\ x = It.of[1].type
                                      /\ a = <<IsVoid(x), "cast from void">>
                                      /\ b = <<PointerToFunction(x, It.type) /\ ~unsafeContext, "unsafe cast">>
                                      /\ c3 = <<y3, "cast to mutable">> /\ c4 = <<y4, "cast">>
    <3>1. PICK x, y, judged : /\ x = It.of[1].type /\ y = It.type
                              /\ judged = (~FreeCast(x, y) /\ ~PointerToFunction(x, y))
      OBVIOUS
    <3>2. PICK y3, y4 : y3 = (judged /\ ~IsMutableType(x) /\ IsMutableType(y)) /\ y4 = (judged /\ ~CanCast(x, y))
      OBVIOUS
    <3>3. PICK a, b, c3, c4 : /\ a = <<IsVoid(x), "cast from void">>
                              /\ b = <<PointerToFunction(x, y) /\ ~unsafeContext, "unsafe cast">>
                              /\ c3 = <<judged /\ ~IsMutableType(x) /\ IsMutableType(y), "cast to mutable">>
                              /\ c4 = <<judged /\ ~CanCast(x, y), "cast">>
      OBVIOUS
    <3>4. Report({a, b, c3, c4})
      BY <1>4, <3>1, <3>3, Zenon DEF CheckCast
    <3>5. c3 = <<y3, "cast to mutable">> /\ c4 = <<y4, "cast">>
      BY <3>2, <3>3, Zenon
    <3> QED
      BY <3>1, <3>3, <3>4, <3>5, Zenon
  <2>3. /\ a[2] \notin UnsafeRules /\ c3[2] \notin UnsafeRules /\ c4[2] \notin UnsafeRules
        /\ b[2] \in UnsafeRules /\ (b[1] <=> PointerToFunction(x, It.type) /\ ~unsafeContext)
    <3>1. c3[2] = "cast to mutable" /\ c4[2] = "cast" /\ a[2] = "cast from void" /\ b[2] = "unsafe cast"
      BY <1>0, <2>2, Zenon
    <3>2. b[1] = (PointerToFunction(x, It.type) /\ ~unsafeContext)
      BY <2>2
    <3> QED
      BY <1>0, <3>1, <3>2
  <2>4. PICK checks : checks = {a, b, c3, c4}
    OBVIOUS
  <2>5. \A c \in checks : c[1] /\ c[2] \in UnsafeRules => IsUnsafe(It) /\ ~unsafeContext
    BY <2>1, <2>2, <2>3, <2>4, Zenon
  <2>6. IsUnsafe(It) /\ ~unsafeContext => \E c \in checks : c[1] /\ c[2] \in UnsafeRules
    <3>1. b \in checks
      BY <2>4
    <3> QED
      BY <2>1, <2>2, <2>3, <3>1, Zenon
  <2> QED
    BY <1>2, <2>2, <2>4, <2>5, <2>6
<1>5. CASE CheckCall
  <2>1. IsUnsafe(It) <=> Has(It.f, "UNSAFE") /\ ~Has(It.f, "NOT_IMPLEMENTED")
    BY <1>5 DEF CheckCall, Checking, Doing, IsUnsafe
  <2>2. PICK a, b, s, checks : /\ checks = FirstOf(s) /\ Report(checks) /\ s = <<a, b>>
                               /\ a = <<Has(It.f, "NOT_IMPLEMENTED"), "not implemented">>
                               /\ b = <<Has(It.f, "UNSAFE") /\ ~unsafeContext, "unsafe call">>
    BY <1>5, Zenon DEF CheckCall
  <2>3. /\ a[2] \notin UnsafeRules /\ b[2] \in UnsafeRules
        /\ a[1] <=> Has(It.f, "NOT_IMPLEMENTED")
        /\ b[1] <=> Has(It.f, "UNSAFE") /\ ~unsafeContext
    BY <1>0, <2>2
  <2>4. DOMAIN s = {1, 2} /\ s[1] = a /\ s[2] = b
    <3>1. \A x, y : DOMAIN <<x, y>> = 1..2 /\ <<x, y>>[1] = x /\ <<x, y>>[2] = y
      OBVIOUS
    <3>2. 1..2 = {1, 2}
      OBVIOUS
    <3> QED
      BY <2>2, <3>1, <3>2, Zenon
  <2>5. checks = {s[i] : i \in {j \in {1, 2} : s[j][1] /\ \A l \in 1..j - 1 : ~s[l][1]}}
    BY <2>2, <2>4, Zenon DEF FirstOf
  <2>6. \A c \in checks : (c = a \/ (c = b /\ ~a[1])) /\ c[1]
    <3>1. ASSUME NEW j \in {1, 2}, s[j][1], \A l \in 1..j - 1 : ~s[l][1]
          PROVE  (s[j] = a \/ (s[j] = b /\ ~a[1])) /\ s[j][1]
      <4>1. CASE j = 1
        BY <2>4, <3>1, <4>1
      <4>2. CASE j = 2
        <5>1. 1 \in 1..j - 1
          BY <4>2
        <5> QED
          BY <2>4, <3>1, <4>2, <5>1
      <4> QED
        BY <4>1, <4>2
    <3> QED
      BY <2>5, <3>1, Zenon
  <2>7. b[1] /\ ~a[1] => b \in checks
    <3>1. \A l \in 1..2 - 1 : l = 1
      OBVIOUS
    <3>2. 2 \in {1, 2}
      OBVIOUS
    <3> QED
      BY <2>4, <2>5, <3>1, <3>2, Zenon
  <2>8. \A c \in checks : c[1] /\ c[2] \in UnsafeRules => IsUnsafe(It) /\ ~unsafeContext
    BY <2>1, <2>3, <2>6, Zenon
  <2>9. IsUnsafe(It) /\ ~unsafeContext => \E c \in checks : c[1] /\ c[2] \in UnsafeRules
    BY <2>1, <2>3, <2>7, Zenon
  <2> QED
    BY <1>2, <2>2, <2>8, <2>9
<1> QED
  BY <1>3, <1>4, <1>5

\* The refusal of an assignment and the call of a mutating method.
LEMMA RefusalsServe ==
  ASSUME IInv, RefuseAssignment \/ CheckMutating
  PROVE  IInv'
<1>0. /\ \A x, r : <<x, r>>[2] = r
      /\ "assign" \notin UnsafeRules /\ "mutating call" \notin UnsafeRules
  BY DEF UnsafeRules
<1>1. CASE RefuseAssignment
  <2>1. PICK c, checks : c = <<TRUE, "assign">> /\ checks = {c}
    OBVIOUS
  <2>2. todo # <<>> /\ Head(todo).do = "refuse" /\ Report(checks)
    BY <1>1, <2>1 DEF RefuseAssignment, Doing
  <2>3. Harmless(checks)
    BY <1>0, <2>1, Zenon DEF Harmless
  <2>4. \A e \in Rules(checks, At) : e.rule \notin UnsafeRules
    BY <2>3, HarmlessRules
  <2>5. Rules(checks, At) # {}
    <3>1. PICK at : at = At
      OBVIOUS
    <3>2. c \in checks /\ c[1]
      BY <2>1
    <3>3. \E e \in Rules(checks, at) : e.rule = c[2]
      BY <3>2, RulesAre, Zenon
    <3> QED
      BY <3>1, <3>3
  <2>6. Head(todo).do \notin {"restore", "visit"} /\ Head(todo).do # "mutability" /\ Head(todo).do # "check"
    BY <2>2
  <2> QED
    BY <2>2, <2>4, <2>5, <2>6, Reported, Zenon
<1>2. CASE CheckMutating
  <2>1. PICK x, checks : /\ x = (~Func(It.f).ctor /\ Func(It.f).mutating /\ ~isMutable(It.of[1]))
                         /\ checks = {<<x, "mutating call">>}
    OBVIOUS
  <2>2. todo # <<>> /\ Head(todo).do = "mutating" /\ Report(checks)
    BY <1>2, <2>1 DEF CheckMutating, Doing
  <2>3. Harmless(checks)
    BY <1>0, <2>1, Zenon DEF Harmless
  <2>4. Head(todo).do \notin {"restore", "visit", "mutability", "refuse"} /\ Head(todo).do # "check"
    BY <2>2
  <2> QED
    BY <2>2, <2>3, <2>4, HarmlessReport
<1> QED
  BY <1>1, <1>2

\* An assignment that is checked is refused, or is reported, or may be.
LEMMA MutabilityServes ==
  ASSUME IInv, CheckMutability
  PROVE  IInv'
<1>1. todo # <<>> /\ Head(todo).do = "mutability" /\ UNCHANGED context /\ module' = module
  BY DEF CheckMutability, Doing, context
<1>2. PICK v, at : v = It /\ at = At
  OBVIOUS
<1>3. PICK self, other : /\ self = (v.assigns /\ accessingSelf(v.of[1]) /\ ~Func(currentFunction).mutating)
                         /\ other = (Assigns(v) /\ ~Assignable(v.of[1]) /\ Primitive(v.of[1].type))
  OBVIOUS
<1>4. PICK c, d, checks, E : /\ c = <<self, "self">> /\ d = <<other, "assignable">> /\ checks = {c, d}
                             /\ E = Rules(checks, at)
  OBVIOUS
<1>5. errors' = errors \cup E
  BY <1>2, <1>3, <1>4 DEF CheckMutability
<1>6. PICK A, B, T : /\ A = (IF Refused(v) THEN Parts(v, at, 1, 1) \o <<Task("refuse", v, at)>> ELSE <<>>)
                     /\ B = (IF Assigns(v) THEN <<>> ELSE <<Task("mutating", v, at)>>)
                     /\ T = A \o B
  OBVIOUS
<1>7. todo' = T \o Tail(todo)
  BY <1>2, <1>6, Zenon DEF CheckMutability
<1>8. PICK p \in Reached : /\ Of(Head(todo), p) /\ at = p.at /\ v = Value(p)
                           /\ currentFunction = p.at[1] /\ unsafeContext = InUnsafe(p)
  <2>1. \A g : Head(todo) # FuncVisit(g)
    BY <1>1 DEF FuncVisit, Visit, Task
  <2>2. Head(todo).do # "restore" /\ Head(todo).do # "case"
    BY <1>1
  <2> QED
    BY <1>1, <1>2, <2>1, <2>2, AtPlace, Zenon
<1>9. module \in Program /\ p \in Places
  BY <1>8 DEF IInv, Reached
<1>10. v.k = "call" /\ v.form = "func" /\ (v.assigns => 1 \in DOMAIN v.of)
  <2>1. v.k = "call" /\ v.form = "func" /\ WellFormed(v, module)
    BY <1>1, <1>8, <1>9, Family DEF Of
  <2>2. IsSeq(v.of) /\ (v.assigns => v.of # <<>>)
    BY <2>1 DEF WellFormed, IsSeq
  <2>3. v.of # <<>> => 1 \in DOMAIN v.of
    BY <2>2 DEF IsSeq
  <2> QED
    BY <2>1, <2>2, <2>3
<1>11. /\ IsSeq(A)
       /\ Refused(v) => Task("refuse", v, at) \in Range(A)
       /\ \A t \in Range(A) : t = Task("refuse", v, at) \/ (Refused(v) /\ t = Visit(v.of[1], Append(at, 1)))
  <2>1. CASE Refused(v)
    <3>1. PICK X, Y : X = Parts(v, at, 1, 1) /\ Y = <<Task("refuse", v, at)>>
      OBVIOUS
    <3>2. IsSeq(X) /\ Range(X) = {Visit(v.of[l], Append(at, l)) : l \in 1..1}
      BY <3>1, PartsAre
    <3>3. IsSeq(Y) /\ Range(Y) = {Task("refuse", v, at)}
      BY <3>1, Ranges, Zenon
    <3>4. IsSeq(X \o Y) /\ Range(X \o Y) = Range(X) \cup Range(Y)
      BY <3>2, <3>3, Ranges, Zenon
    <3>5. \A l \in 1..1 : l = 1
      OBVIOUS
    <3>6. A = X \o Y
      BY <1>6, <2>1, <3>1
    <3>7. \A t \in Range(X) : t = Visit(v.of[1], Append(at, 1))
      BY <3>2, <3>5, Zenon
    <3> QED
      BY <2>1, <3>3, <3>4, <3>6, <3>7, Zenon
  <2>2. CASE ~Refused(v)
    <3>1. A = <<>>
      BY <1>6, <2>2
    <3> QED
      BY <2>2, <3>1, Ranges
  <2> QED
    BY <2>1, <2>2
<1>12. IsSeq(B) /\ \A t \in Range(B) : t = Task("mutating", v, at)
  <2>1. CASE Assigns(v)
    <3>1. B = <<>>
      BY <1>6, <2>1
    <3> QED
      BY <3>1, Ranges
  <2>2. CASE ~Assigns(v)
    <3>1. B = <<Task("mutating", v, at)>>
      BY <1>6, <2>2
    <3>2. IsSeq(B) /\ Range(B) = {Task("mutating", v, at)}
      BY <3>1, Ranges, Zenon
    <3> QED
      BY <3>2
  <2> QED
    BY <2>1, <2>2
<1>13. IsSeq(T) /\ Range(T) = Range(A) \cup Range(B)
  <2>1. IsSeq(A \o B) /\ Range(A \o B) = Range(A) \cup Range(B)
    BY <1>11, <1>12, Ranges, Zenon
  <2> QED
    BY <1>6, <2>1
<1>14. ASSUME NEW t \in Range(T) PROVE t.do # "restore" /\ Lawful(t, <<currentFunction, unsafeContext>>)
  <2>1. CASE t = Task("refuse", v, at) \/ t = Task("mutating", v, at)
    <3>1. t.at = at /\ t.do \in {"refuse", "mutating"} /\ t.what = v
      BY <2>1 DEF Task
    <3>2. Of(t, p) /\ t.do # "restore"
      BY <1>8, <3>1 DEF Of
    <3>3. <<currentFunction, unsafeContext>> = <<p.at[1], InUnsafe(p)>>
      BY <1>8
    <3> QED
      BY <3>2, <3>3, Zenon DEF Lawful
  <2>2. CASE Refused(v) /\ t = Visit(v.of[1], Append(at, 1))
    <3>1. 1 \in DOMAIN v.of /\ ~SkipStep(v, 1) /\ ~Opens(v)
      BY <1>10, <2>2 DEF Refused, SkipStep, Opens
    <3>2. t \in Kids(v, at)
      BY <2>2, <3>1, Zenon DEF Kids
    <3>3. Fits(t, Value(p), p.at)
      BY <1>8, <3>2, Zenon DEF Fits
    <3>4. t.do # "restore" /\ Lawful(t, <<p.at[1], InUnsafe(p)>>)
      BY <1>8, <1>9, <3>1, <3>3, FitsLawful
    <3>5. <<currentFunction, unsafeContext>> = <<p.at[1], InUnsafe(p)>>
      BY <1>8
    <3> QED
      BY <3>4, <3>5, Zenon
  <2> QED
    BY <1>11, <1>12, <1>13, <2>1, <2>2
<1>15. \A e \in E : e.rule \notin UnsafeRules
  <2>1. "self" \notin UnsafeRules /\ "assignable" \notin UnsafeRules
    BY DEF UnsafeRules
  <2>2. \A x, r : <<x, r>>[2] = r
    OBVIOUS
  <2>3. Harmless(checks)
    BY <1>4, <2>1, <2>2, Zenon DEF Harmless
  <2> QED
    BY <1>4, <2>3, HarmlessRules, Zenon
<1>16. ASSUME NEW q \in Reached, Head(todo) \in {Task("mutability", Value(q), q.at), Task("refuse", Value(q), q.at)}
       PROVE  AssignmentSettled(q)'
  <2>1. v = Value(q) /\ at = q.at
    BY <1>2, <1>16 DEF Task, It, At
  <2>2. p = q
    BY <1>8, <1>9, <2>1, Unique DEF Reached
  <2>3. SUFFICES ASSUME Assignment(v) PROVE AssignmentSettled(q)'
    BY <2>1, Zenon DEF AssignmentSettled
  <2>4. CASE Refused(v)
    <3>1. PICK t : t = Task("refuse", v, at)
      OBVIOUS
    <3>2. t \in Range(T)
      BY <1>11, <1>13, <2>4, <3>1
    <3>3. Waits(t)'
      <4>1. IsSeq(todo)
        BY DEF IInv
      <4> QED
        BY <1>1, <1>7, <1>13, <3>2, <4>1, WaitsOn
    <3> QED
      BY <2>1, <3>1, <3>3, Zenon DEF AssignmentSettled
  <2>5. CASE ~Refused(v)
    <3>1. v.assigns /\ isMutable(v.of[1])
      BY <2>3, <2>5, Zenon DEF Assignment, Refused
    <3>2. CASE accessingSelf(v.of[1]) => Func(q.at[1]).mutating
      <4>1. MayAssign(q)
        BY <2>1, <3>1, <3>2, Zenon DEF MayAssign
      <4>2. MayAssign(q)'
        BY <1>1, <4>1, Static
      <4> QED
        BY <4>2, Zenon DEF AssignmentSettled
    <3>3. CASE accessingSelf(v.of[1]) /\ ~Func(q.at[1]).mutating
      <4>1. ~Func(currentFunction).mutating
        BY <1>8, <2>2, <3>3
      <4>2. self
        BY <1>3, <3>1, <3>3, <4>1, Zenon
      <4>3. c \in checks /\ c[1]
        BY <1>4, <4>2
      <4>4. \E e \in Rules(checks, at) : e.rule = c[2]
        BY <4>3, RulesAre, Zenon
      <4>5. errors' # {}
        BY <1>4, <1>5, <4>4
      <4> QED
        BY <4>5, Zenon DEF AssignmentSettled
    <3> QED
      BY <3>2, <3>3
  <2> QED
    BY <2>4, <2>5
<1>17. Head(todo).do \notin {"restore", "visit"} /\ Head(todo).do # "check"
  BY <1>1
<1> QED
  BY <1>1, <1>5, <1>7, <1>13, <1>14, <1>15, <1>16, <1>17, Judged

-----------------------------------------------------------------------------
(* From the start, along the steps, to the properties *)

\* What is to come at the start: every variable and every function.
LEMMA Starts ==
  ASSUME Init
  PROVE  /\ module \in Program /\ IsSeq(todo)
         /\ \A i \in DOMAIN module.variables : Visit(module.variables[i], <<NoFunction, i>>) \in Range(todo)
         /\ \A g \in Names : FuncVisit(g) \in Range(todo)
         /\ \A t \in Range(todo) : \/ \E g \in Names : t = FuncVisit(g)
                                   \/ \E i \in DOMAIN module.variables : t = Visit(module.variables[i], <<NoFunction, i>>)
<1>1. module \in Program
  BY DEF Init
<1>2. PICK vs, fs : vs = module.variables /\ fs = module.functions
  OBVIOUS
<1>3. IsSeq(vs) /\ IsSeq(fs)
  BY <1>1, <1>2, Program1
<1>4. PICK n, m : n = Len(vs) /\ m = Len(fs)
  OBVIOUS
<1>5. n \in Nat /\ DOMAIN vs = 1..n /\ m \in Nat /\ DOMAIN fs = 1..m
  BY <1>3, <1>4, SeqIs
<1>6. PICK A : A = [i \in DOMAIN vs |-> Visit(vs[i], <<NoFunction, i>>)]
  OBVIOUS
<1>7. PICK B : B = [i \in DOMAIN fs |-> Visit([k |-> "func", f |-> Reverse(fs)[i].name], <<>>)]
  OBVIOUS
<1>8. todo = A \o B
  BY <1>2, <1>6, <1>7, Zenon DEF Init
<1>9. ASSUME NEW s, NEW l \in Nat, DOMAIN s = 1..l, s = [i \in 1..l |-> s[i]] PROVE IsSeq(s)
  <2>1. \A i \in 1..l : s[i] \in Range(s)
    BY <1>9, Zenon DEF Range
  <2>2. s \in Seq(Range(s))
    BY <1>9, <2>1
  <2> QED
    BY <2>2 DEF IsSeq
<1>10. DOMAIN A = 1..n /\ \A i \in 1..n : A[i] = Visit(vs[i], <<NoFunction, i>>)
  BY <1>5, <1>6, Zenon
<1>11. DOMAIN B = 1..m /\ \A i \in 1..m : B[i] = FuncVisit(fs[(m - i) + 1].name)
  <2>1. \A i \in 1..m : Reverse(fs)[i] = fs[(m - i) + 1]
    BY <1>4, Zenon DEF Reverse
  <2> QED
    BY <1>5, <1>7, <2>1, Zenon DEF FuncVisit
<1>12. IsSeq(A)
  <2>1. A = [i \in 1..n |-> A[i]]
    BY <1>5, <1>6, <1>10, Zenon
  <2> QED
    BY <1>5, <1>9, <1>10, <2>1
<1>13. IsSeq(B)
  <2>1. B = [i \in 1..m |-> B[i]]
    BY <1>5, <1>7, <1>11, Zenon
  <2> QED
    BY <1>5, <1>9, <1>11, <2>1
<1>14. IsSeq(todo) /\ Range(todo) = Range(A) \cup Range(B)
  <2>1. IsSeq(A \o B) /\ Range(A \o B) = Range(A) \cup Range(B)
    BY <1>12, <1>13, Ranges, Zenon
  <2> QED
    BY <1>8, <2>1
<1>15. \A i \in DOMAIN module.variables : Visit(module.variables[i], <<NoFunction, i>>) \in Range(A)
  BY <1>2, <1>5, <1>10, Zenon DEF Range
<1>16. ASSUME NEW g \in Names PROVE FuncVisit(g) \in Range(B)
  <2>1. PICK j \in 1..m : fs[j].name = g
    BY <1>2, <1>5, Zenon DEF Names, Range
  <2>2. PICK i : i = (m - j) + 1
    OBVIOUS
  <2>3. i \in 1..m /\ (m - i) + 1 = j
    BY <1>5, <2>2
  <2>4. B[i] = FuncVisit(g)
    BY <1>11, <2>1, <2>3, Zenon
  <2> QED
    BY <1>11, <2>3, <2>4, Zenon DEF Range
<1>17. ASSUME NEW t \in Range(A) PROVE \E i \in DOMAIN module.variables : t = Visit(module.variables[i], <<NoFunction, i>>)
  BY <1>2, <1>5, <1>10, Zenon DEF Range
<1>18. ASSUME NEW t \in Range(B) PROVE \E g \in Names : t = FuncVisit(g)
  <2>1. PICK i \in 1..m : t = FuncVisit(fs[(m - i) + 1].name)
    BY <1>11, Zenon DEF Range
  <2>2. (m - i) + 1 \in 1..m
    BY <1>5
  <2>3. fs[(m - i) + 1].name \in Names
    BY <1>2, <1>5, <2>2, Zenon DEF Names, Range
  <2> QED
    BY <2>1, <2>3
<1> QED
  BY <1>1, <1>14, <1>15, <1>16, <1>17, <1>18

\* The invariant holds at the start.
LEMMA InitIInv ==
  ASSUME Init
  PROVE  IInv
<1>1. /\ module \in Program /\ IsSeq(todo)
      /\ \A i \in DOMAIN module.variables : Visit(module.variables[i], <<NoFunction, i>>) \in Range(todo)
      /\ \A g \in Names : FuncVisit(g) \in Range(todo)
      /\ \A t \in Range(todo) : \/ \E g \in Names : t = FuncVisit(g)
                                \/ \E i \in DOMAIN module.variables : t = Visit(module.variables[i], <<NoFunction, i>>)
  BY Starts
<1>2. typechecked = {} /\ errors = {} /\ currentFunction = NoFunction /\ unsafeContext = FALSE
  BY DEF Init
<1>3. DOMAIN todo = 1..Len(todo)
  BY <1>1, SeqIs
<1>4. \A t \in Range(todo) : Waits(t)
  BY <1>3, Zenon DEF Waits, Range
<1>5. ASSUME NEW i \in DOMAIN module.variables, NEW p, p = [at |-> <<NoFunction, i>>, way |-> <<module.variables[i]>>]
      PROVE  /\ p \in Tops(module) /\ p \in Reached /\ p.at = <<NoFunction, i>> /\ Value(p) = module.variables[i]
             /\ <<currentFunction, unsafeContext>> = <<p.at[1], InUnsafe(p)>>
  <2>1. p.at = <<NoFunction, i>> /\ p.at[1] = NoFunction /\ p.way = <<module.variables[i]>>
    BY <1>5
  <2>2. p \in Tops(module)
    BY <1>5 DEF Tops
  <2>3. p \in Reached /\ InUnsafe(p) = UnsafeFunc(module, NoFunction)
    BY <1>1, <2>1, <2>2, TopReached
  <2>4. UnsafeFunc(module, NoFunction) = FALSE
    <3>1. \A f \in Bodies(module) : f.name # NoFunction
      BY <1>1, Program1 DEF Bodies, Names
    <3> QED
      BY <3>1, Zenon DEF UnsafeFunc
  <2>5. Value(p) = module.variables[i]
    BY <2>1 DEF Value, Last
  <2> QED
    BY <1>2, <2>1, <2>2, <2>3, <2>4, <2>5, Zenon
<1>6. ASSUME NEW t \in Range(todo) PROVE t.do # "restore" /\ Lawful(t, <<currentFunction, unsafeContext>>)
  <2>1. CASE \E g \in Names : t = FuncVisit(g)
    <3>1. t.do # "restore"
      BY <2>1 DEF FuncVisit, Visit, Task
    <3> QED
      BY <2>1, <3>1, Zenon DEF Lawful
  <2>2. CASE \E i \in DOMAIN module.variables : t = Visit(module.variables[i], <<NoFunction, i>>)
    <3>1. PICK i \in DOMAIN module.variables : t = Visit(module.variables[i], <<NoFunction, i>>)
      BY <2>2
    <3>2. PICK p : p = [at |-> <<NoFunction, i>>, way |-> <<module.variables[i]>>]
      OBVIOUS
    <3>3. /\ p \in Reached /\ p.at = <<NoFunction, i>> /\ Value(p) = module.variables[i]
          /\ <<currentFunction, unsafeContext>> = <<p.at[1], InUnsafe(p)>>
      BY <1>5, <3>2
    <3>4. t.do = "visit" /\ t.at = <<NoFunction, i>> /\ t.what = module.variables[i]
      BY <3>1 DEF Visit, Task
    <3>5. Of(t, p) /\ t.do # "restore"
      BY <3>3, <3>4 DEF Of
    <3> QED
      BY <3>3, <3>5, Zenon DEF Lawful
  <2> QED
    BY <1>1, <2>1, <2>2
<1>7. AllLawful(todo, <<currentFunction, unsafeContext>>)
  <2>1. ASSUME NEW k \in 1..Len(todo), NEW j \in 0..(k - 1), Governs(todo, j, k)
        PROVE  Lawful(todo[k], ContextOf(todo, <<currentFunction, unsafeContext>>, j))
    <3>1. \A l \in 1..Len(todo) : todo[l] \in Range(todo)
      BY <1>3, Zenon DEF Range
    <3>2. j = 0
      <4>1. j # 0 => j \in 1..Len(todo)
        <5>1. Len(todo) \in Nat
          BY <1>1, SeqIs
        <5> QED
          BY <5>1
      <4> QED
        BY <1>6, <2>1, <3>1, <4>1, Zenon DEF Governs
    <3>3. ContextOf(todo, <<currentFunction, unsafeContext>>, j) = <<currentFunction, unsafeContext>>
      BY <3>2, Zenon DEF ContextOf
    <3> QED
      BY <1>6, <3>1, <3>3, Zenon
  <2> QED
    BY <2>1, Zenon DEF AllLawful
<1>8. FunctionsCome
  BY <1>1, <1>4 DEF FunctionsCome
<1>9. Sound
  BY <1>2 DEF Sound
<1>10. ASSUME NEW q \in Reached PROVE Fate(q)
  <2>1. PICK t \in Tops(module) : Leads(t, q) /\ t.at[1] = q.at[1]
    BY <1>1, Root DEF Reached
  <2>2. CASE \E f \in Bodies(module) : t = [at |-> <<f.name>>, way |-> <<f.body[1]>>]
    <3>1. PICK f \in Bodies(module) : t = [at |-> <<f.name>>, way |-> <<f.body[1]>>]
      BY <2>2
    <3>2. t.at[1] = f.name /\ f.name \in Names
      BY <3>1 DEF Bodies, Names
    <3> QED
      BY <1>2, <2>1, <3>2 DEF Fate, ToCome
  <2>3. CASE \E i \in DOMAIN module.variables : t = [at |-> <<NoFunction, i>>, way |-> <<module.variables[i]>>]
    <3>1. PICK i \in DOMAIN module.variables : t = [at |-> <<NoFunction, i>>, way |-> <<module.variables[i]>>]
      BY <2>3
    <3>2. t \in Places /\ t.at = <<NoFunction, i>> /\ Value(t) = module.variables[i]
      BY <1>5, <3>1 DEF Reached
    <3>3. PICK x : x = Visit(Value(t), t.at)
      OBVIOUS
    <3>4. x = Visit(module.variables[i], <<NoFunction, i>>)
      BY <3>2, <3>3
    <3>5. Waits(x)
      BY <1>1, <1>4, <3>4
    <3>6. ToCome(q)
      BY <2>1, <3>2, <3>3, <3>5, Zenon DEF ToCome
    <3> QED
      BY <3>6 DEF Fate
  <2> QED
    BY <1>1, <2>1, <2>2, <2>3, TopIs
<1> QED
  BY <1>1, <1>2, <1>7, <1>8, <1>9, <1>10 DEF IInv

\* Every visit but those of blocks, loops, switches, functions and their calls is one of these.
LEMMA VisitForms ==
  ASSUME IInv,
         \/ VisitLeaf \/ VisitVariable \/ VisitDereferenceTo \/ VisitReferenceTo \/ VisitIndexExtract
         \/ VisitVariableDeclaration \/ VisitThrow \/ VisitValueExtract \/ VisitTryCatch \/ VisitConditional
         \/ VisitCast \/ VisitReturn \/ VisitZero \/ VisitObject \/ VisitEnumInit \/ VisitCallOfValue
  PROVE  \E kinds, T : IsSimple(kinds, T)
<1>0. ASSUME NEW kinds, Visiting(kinds), kinds \subseteq SimpleKinds \/ (kinds = {"call"} /\ It.form # "func")
      PROVE  It.k \in kinds /\ It.k # "func" /\ WellFormed(It, module)
  <2>1. todo # <<>> /\ Head(todo).do = "visit" /\ It.k \in kinds /\ It.k # "func"
    BY <1>0 DEF Visiting, Doing, SimpleKinds
  <2> QED
    BY <2>1, Visited
<1>1. CASE VisitLeaf
  <2>1. PICK kinds, T : kinds = {"value", "argument"} /\ T = <<>> /\ Visiting(kinds) /\ Descend(T)
    BY <1>1, Zenon DEF VisitLeaf
  <2>2. kinds \subseteq SimpleKinds
    BY <2>1 DEF SimpleKinds
  <2>3. It.of = <<>>
    BY <1>0, <2>1, <2>2 DEF WellFormed
  <2>9. IsSimple(kinds, T)
    BY <2>1, <2>2, <2>3 DEF IsSimple
  <2> QED
    BY <2>9
<1>2. CASE VisitVariable
  <2>1. PICK kinds, T : /\ kinds = {"variable"} /\ Visiting(kinds) /\ Descend(T)
                        /\ T = (IF currentFunction # NoFunction /\ ~Func(currentFunction).anon THEN <<>> ELSE Check(It, At))
    BY <1>2, Zenon DEF VisitVariable
  <2>2. kinds \subseteq SimpleKinds /\ (T = <<>> \/ T = Check(It, At))
    BY <2>1 DEF SimpleKinds
  <2>3. It.of = <<>>
    BY <1>0, <2>1, <2>2 DEF WellFormed
  <2>9. IsSimple(kinds, T)
    BY <2>1, <2>2, <2>3 DEF IsSimple
  <2> QED
    BY <2>9
<1>3. CASE VisitDereferenceTo \/ VisitReferenceTo \/ VisitCast \/ VisitReturn
  <2>1. PICK kinds, T : /\ kinds \in {{"dereference"}, {"reference"}, {"cast"}, {"return"}} /\ Visiting(kinds)
                        /\ Descend(T) /\ T = All(It, At) \o Check(It, At)
    BY <1>3 DEF VisitDereferenceTo, VisitReferenceTo, VisitCast, VisitReturn
  <2>2. kinds \subseteq SimpleKinds
    BY <2>1 DEF SimpleKinds
  <2>3. It.k # "index"
    BY <1>0, <2>1, <2>2
  <2>9. IsSimple(kinds, T)
    BY <2>1, <2>2, <2>3 DEF IsSimple
  <2> QED
    BY <2>9
<1>4. CASE VisitIndexExtract
  <2>1. PICK kinds, T : kinds = {"index"} /\ T = Check(It, At) /\ Visiting(kinds) /\ Descend(T)
    BY <1>4, Zenon DEF VisitIndexExtract
  <2>2. kinds \subseteq SimpleKinds
    BY <2>1 DEF SimpleKinds
  <2>3. It.k = "index"
    BY <1>0, <2>1, <2>2
  <2>9. IsSimple(kinds, T)
    BY <2>1, <2>2, <2>3 DEF IsSimple
  <2> QED
    BY <2>9
<1>5. CASE VisitVariableDeclaration
  <2>1. PICK kinds, T : /\ kinds = {"declaration"} /\ Visiting(kinds) /\ Descend(T)
                        /\ T = All(It, At) \o (IF It.of = <<>> THEN <<>> ELSE Check(It, At))
    BY <1>5, Zenon DEF VisitVariableDeclaration
  <2>2. kinds \subseteq SimpleKinds
    BY <2>1 DEF SimpleKinds
  <2>3. It.k = "declaration" /\ IsSeq(It.of)
    BY <1>0, <2>1, <2>2 DEF WellFormed, IsSeq
  <2>4. T = All(It, At) \/ T = All(It, At) \o Check(It, At)
    <3>1. CASE It.of = <<>>
      <4>1. PICK A : A = All(It, At)
        OBVIOUS
      <4>2. IsSeq(A)
        BY <2>3, <4>1, AllIs
      <4>3. A \o <<>> = A
        BY <4>2 DEF IsSeq
      <4> QED
        BY <2>1, <3>1, <4>1, <4>3
    <3>2. CASE It.of # <<>>
      BY <2>1, <3>2
    <3> QED
      BY <3>1, <3>2
  <2>9. IsSimple(kinds, T)
    BY <2>1, <2>2, <2>3, <2>4 DEF IsSimple
  <2> QED
    BY <2>9
<1>6. CASE VisitThrow \/ VisitValueExtract \/ VisitTryCatch \/ VisitConditional
  <2>1. PICK kinds, T : /\ kinds \in {{"throw"}, {"extract"}, {"try"}, {"if"}} /\ Visiting(kinds)
                        /\ Descend(T) /\ T = All(It, At)
    BY <1>6 DEF VisitThrow, VisitValueExtract, VisitTryCatch, VisitConditional
  <2>2. kinds \subseteq SimpleKinds
    BY <2>1 DEF SimpleKinds
  <2>3. It.k \notin {"dereference", "cast", "index"}
    BY <1>0, <2>1, <2>2
  <2>9. IsSimple(kinds, T)
    BY <2>1, <2>2, <2>3 DEF IsSimple
  <2> QED
    BY <2>9
<1>7. CASE VisitZero
  <2>1. PICK kinds, T : kinds = {"call"} /\ It.form = "zero" /\ T = <<>> /\ Visiting(kinds) /\ Descend(T)
    BY <1>7, Zenon DEF VisitZero
  <2>2. It.form # "func"
    BY <2>1
  <2>3. It.of = <<>>
    BY <1>0, <2>1, <2>2 DEF WellFormed
  <2>9. IsSimple(kinds, T)
    BY <2>1, <2>2, <2>3 DEF IsSimple
  <2> QED
    BY <2>9
<1>8. CASE VisitObject
  <2>1. PICK kinds, T : kinds = {"call"} /\ It.form = "object" /\ T = All(It, At) /\ Visiting(kinds) /\ Descend(T)
    BY <1>8, Zenon DEF VisitObject
  <2>2. It.form # "func"
    BY <2>1
  <2>3. It.k \notin {"dereference", "cast", "index"}
    BY <1>0, <2>1, <2>2
  <2>9. IsSimple(kinds, T)
    BY <2>1, <2>2, <2>3 DEF IsSimple
  <2> QED
    BY <2>9
<1>9. CASE VisitEnumInit \/ VisitCallOfValue
  <2>1. PICK kinds, T : /\ kinds = {"call"} /\ It.form \in {"enum", "value"} /\ Visiting(kinds) /\ Descend(T)
                        /\ T \in {All(It, At) \o Check(It, At), Check(It, At) \o All(It, At)}
    BY <1>9 DEF VisitEnumInit, VisitCallOfValue
  <2>2. It.form # "func"
    BY <2>1
  <2>3. It.k # "index"
    BY <1>0, <2>1, <2>2
  <2>9. IsSimple(kinds, T)
    BY <2>1, <2>2, <2>3 DEF IsSimple
  <2> QED
    BY <2>9
<1> QED
  BY <1>1, <1>2, <1>3, <1>4, <1>5, <1>6, <1>7, <1>8, <1>9

\* Such a visit keeps the invariant.
LEMMA VisitsKeep ==
  ASSUME IInv,
         \/ VisitLeaf \/ VisitVariable \/ VisitDereferenceTo \/ VisitReferenceTo \/ VisitIndexExtract
         \/ VisitVariableDeclaration \/ VisitThrow \/ VisitValueExtract \/ VisitTryCatch \/ VisitConditional
         \/ VisitCast \/ VisitReturn \/ VisitZero \/ VisitObject \/ VisitEnumInit \/ VisitCallOfValue
  PROVE  IInv'
<1>1. PICK kinds, T : IsSimple(kinds, T)
  BY VisitForms
<1> QED
  BY <1>1, SimpleVisits DEF IsSimple, SimpleKinds

\* Nothing but the variables decides the invariant.
LEMMA StaysIInv ==
  ASSUME IInv, UNCHANGED vars
  PROVE  IInv'
<1>1. /\ module' = module /\ currentFunction' = currentFunction /\ unsafeContext' = unsafeContext
      /\ typechecked' = typechecked /\ errors' = errors /\ todo' = todo
  BY DEF vars
<1>2. /\ Names' = Names /\ Places' = Places /\ Reached' = Reached
      /\ \A p : InUnsafe(p)' = InUnsafe(p)
      /\ \A v : IsUnsafe(v)' <=> IsUnsafe(v)
      /\ \A p : MayAssign(p)' <=> MayAssign(p)
      /\ \A s, c : AllLawful(s, c)' <=> AllLawful(s, c)
  BY <1>1, Static
<1>3. \A t : Waits(t)' <=> Waits(t)
  BY <1>1, Zenon DEF Waits
<1>4. AllLawful(todo, <<currentFunction, unsafeContext>>)'
  <2>1. PICK s, c : s = todo /\ c = <<currentFunction, unsafeContext>>
    OBVIOUS
  <2>2. AllLawful(s, c)
    BY <2>1 DEF IInv
  <2>3. todo' = s /\ c = <<currentFunction', unsafeContext'>>
    BY <1>1, <2>1
  <2> QED
    BY <1>1, <2>2, <2>3, LawfulAfter
<1>5. FunctionsCome'
  <2>1. FunctionsCome
    BY DEF IInv
  <2> QED
    BY <1>1, <1>2, <1>3, <2>1, Zenon DEF FunctionsCome
<1>6. Sound'
  <2>1. Sound
    BY DEF IInv
  <2> QED
    BY <1>1, <1>2, <2>1, Zenon DEF Sound
<1>7. ASSUME NEW p \in Reached PROVE Fate(p)'
  <2>1. Fate(p)
    BY DEF IInv
  <2>2. ToCome(p) => ToCome(p)'
    BY <1>1, <1>2, <1>3, Zenon DEF ToCome
  <2>3. UnsafeSettled(p) => UnsafeSettled(p)'
    <3>1. ReportedAt(UnsafeRules)' = ReportedAt(UnsafeRules)
      BY <1>1, Zenon DEF ReportedAt
    <3> QED
      BY <1>2, <1>3, <3>1, Zenon DEF UnsafeSettled
  <2>4. AssignmentSettled(p) => AssignmentSettled(p)'
    BY <1>1, <1>2, <1>3, Zenon DEF AssignmentSettled
  <2> QED
    BY <2>1, <2>2, <2>3, <2>4 DEF Fate
<1>8. module' \in Program /\ IsSeq(todo)' /\ (typechecked \subseteq Names)'
  BY <1>1, <1>2 DEF IInv, IsSeq
<1> QED
  BY <1>2, <1>4, <1>5, <1>6, <1>7, <1>8 DEF IInv

\* Every step keeps the invariant.
LEMMA NextIInv ==
  ASSUME IInv, [Next]_vars
  PROVE  IInv'
<1>1. CASE \/ VisitLeaf \/ VisitVariable \/ VisitDereferenceTo \/ VisitReferenceTo \/ VisitIndexExtract
           \/ VisitVariableDeclaration \/ VisitThrow \/ VisitValueExtract \/ VisitTryCatch \/ VisitConditional
           \/ VisitCast \/ VisitReturn \/ VisitZero \/ VisitObject \/ VisitEnumInit \/ VisitCallOfValue
  BY <1>1, VisitsKeep
<1>2. CASE VisitWhileLoop
  BY <1>2, WhileServes
<1>3. CASE VisitSwitch
  BY <1>3, SwitchServes
<1>4. CASE VisitCall
  BY <1>4, CallServes
<1>5. CASE VisitBlock
  BY <1>5, BlockServes
<1>6. CASE VisitFunc
  <2>1. Visiting({"func"})
    BY <1>6 DEF VisitFunc
  <2>2. CASE It.f \in typechecked
    <3>1. todo' = Tail(todo) /\ UNCHANGED <<context, errors>>
      BY <1>6, <2>2 DEF VisitFunc
    <3> QED
      BY <2>1, <2>2, <3>1, AgainServes
  <2>3. CASE It.f \notin typechecked
    <3>1. EnterFunc(It.f, UnsafeBody(It.f))
      BY <1>6, <2>3, Zenon DEF VisitFunc
    <3> QED
      BY <2>1, <3>1, EnterServes
  <2> QED
    BY <2>2, <2>3
<1>7. CASE Leave
  BY <1>7, LeaveServes
<1>8. CASE \/ CheckVariable \/ CheckReferenceTo \/ CheckIndexExtract \/ CheckVariableDeclaration \/ CheckCase
           \/ CheckReturn \/ CheckEnumInit \/ CheckCallOfValue
  BY <1>8, ChecksServe
<1>9. CASE CheckDereferenceTo \/ CheckCast \/ CheckCall
  BY <1>9, UnsafeServe
<1>10. CASE CheckMutability
  BY <1>10, MutabilityServes
<1>11. CASE RefuseAssignment \/ CheckMutating
  BY <1>11, RefusalsServe
<1>12. CASE Finished \/ UNCHANGED vars
  BY <1>12, StaysIInv DEF Finished
<1> QED
  BY <1>1, <1>2, <1>3, <1>4, <1>5, <1>6, <1>7, <1>8, <1>9, <1>10, <1>11, <1>12, Zenon DEF Next

\* What is reached from the first value of p through these kinds is where its chain ends.
LEMMA ChainEnds ==
  ASSUME module \in Program, NEW p \in Places, NEW r \in Places, NEW kinds, Follows(p, r, kinds)
  PROVE  /\ r.way[Len(p.way) + 1] = Value(p).of[1]
         /\ Value(r).k \notin kinds => Along(Value(p).of[1], kinds)[MaxDepth] = Value(r)
<1> DEFINE n == Len(p.way)
           L == Len(r.way)
           A == Along(Value(p).of[1], kinds)
<1>1. Goes(p) /\ Goes(r) /\ L <= MaxDepth /\ MaxDepth \in Nat
  BY Family, DepthAssumption
<1>2. /\ L > n /\ IsPrefix(p.at, r.at) /\ IsPrefix(p.way, r.way)
      /\ \A i \in (n + 1)..L : r.at[i + Offset(p)] = 1
      /\ \A i \in (n + 1)..(L - 1) : r.way[i].k \in kinds
  BY Zenon DEF Follows
<1>3. /\ n \in Nat \ {0} /\ L \in Nat \ {0} /\ IsSeq(p.way) /\ IsSeq(r.way) /\ IsSeq(p.at) /\ IsSeq(r.at)
      /\ Len(p.at) = n + Offset(p) /\ Offset(p) \in {0, 1}
      /\ Len(r.at) = L + Offset(r) /\ Offset(r) \in {0, 1}
  BY <1>1 DEF Goes
<1>4. p.way[n] = r.way[n] /\ p.at[1] = r.at[1]
  <2>1. ASSUME NEW s, NEW u, IsSeq(s), IsSeq(u), IsPrefix(s, u), NEW i \in 1..Len(s) PROVE s[i] = u[i]
    <3>1. DOMAIN s = 1..Len(s) /\ DOMAIN u = 1..Len(u) /\ Len(s) \in Nat /\ Len(u) \in Nat
      BY <2>1, SeqIs
    <3>2. Len(s) <= Len(u) /\ \A j \in 1..Len(s) : s[j] = u[j]
      BY <2>1, <3>1 DEF IsPrefix
    <3> QED
      BY <3>2
  <2>2. n \in 1..Len(p.way) /\ 1 \in 1..Len(p.at)
    BY <1>3
  <2>3. /\ IsSeq(p.way) /\ IsSeq(r.way) /\ IsPrefix(p.way, r.way)
        /\ IsSeq(p.at) /\ IsSeq(r.at) /\ IsPrefix(p.at, r.at)
    BY <1>2, <1>3, Zenon
  <2> HIDE DEF n
  <2>4. p.way[n] = r.way[n]
    BY <2>1, <2>2, <2>3, Zenon
  <2>5. p.at[1] = r.at[1]
    <3> DEFINE first == 1
    <3>1. first \in 1..Len(p.at)
      BY <2>2
    <3> HIDE DEF first
    <3>2. p.at[first] = r.at[first]
      BY <2>1, <2>3, <3>1, Zenon
    <3> QED
      BY <3>2 DEF first
  <2> QED
    BY <2>4, <2>5
<1>5. Offset(p) = Offset(r)
  <2>1. NoFunction \notin Names
    BY Program1
  <2>2. (Offset(p) = 0 /\ p.at[1] \in Names) \/ (Offset(p) = 1 /\ p.at[1] = NoFunction)
    BY <1>1 DEF Goes
  <2>3. (Offset(r) = 0 /\ r.at[1] \in Names) \/ (Offset(r) = 1 /\ r.at[1] = NoFunction)
    BY <1>1 DEF Goes
  <2>4. p.at[1] = r.at[1]
    BY <1>4
  <2>5. CASE p.at[1] = NoFunction
    BY <2>1, <2>2, <2>3, <2>4, <2>5
  <2>6. CASE p.at[1] # NoFunction
    BY <2>2, <2>3, <2>4, <2>6
  <2> QED
    BY <2>5, <2>6
<1>6. Value(p) = p.way[n] /\ Value(r) = r.way[L]
  BY DEF Value, Last
<1>7. ASSUME NEW i \in n..(L - 1) PROVE r.way[i + 1] = r.way[i].of[1]
  <2>1. i \in 1..(L - 1) /\ i + 1 \in (n + 1)..L /\ i + 1 + Offset(p) = (i + 1) + Offset(p)
    BY <1>3
  <2>2. r.way[i + 1] = r.way[i].of[r.at[i + 1 + Offset(r)]]
    BY <1>1, <2>1, Zenon DEF Goes
  <2>3. r.at[i + 1 + Offset(p)] = 1
    BY <1>2, <2>1
  <2> QED
    BY <1>5, <2>2, <2>3
<1>8. r.way[n + 1] = Value(p).of[1]
  <2>1. n \in n..(L - 1)
    BY <1>2, <1>3
  <2> QED
    BY <1>4, <1>6, <1>7, <2>1
<1>9. A[0] = Value(p).of[1] /\ \A i \in 1..MaxDepth : A[i] = Inward(A[i - 1], kinds)
  BY AlongIs
<1>13. n \in Nat /\ L \in Nat /\ L > n /\ L <= MaxDepth /\ MaxDepth \in Nat
  <2>1. L > n
    BY <1>2
  <2> QED
    BY <1>1, <1>3, <2>1
<1> HIDE DEF A, n, L
<1> DEFINE Bad == {i \in 0..(L - n - 1) : A[i] # r.way[n + 1 + i]}
<1>10. Bad = {}
  <2>0. SUFFICES ASSUME Bad # {} PROVE FALSE
    OBVIOUS
  <2>1. PICK i \in Bad : \A y \in Bad : i <= y
    <3>1. Bad \in SUBSET Nat
      BY <1>3
    <3> HIDE DEF Bad
    <3> QED
      BY <2>0, <3>1, Least
  <2>2. i # 0
    <3>1. n + 1 + 0 = n + 1
      BY <1>3
    <3> QED
      BY <1>8, <1>9, <2>1, <3>1
  <2>3. i \in 1..MaxDepth /\ i - 1 \in 0..(L - n - 1) /\ i - 1 \notin Bad
    BY <1>1, <1>3, <2>1, <2>2
  <2>4. A[i - 1] = r.way[n + i]
    <3>1. n + 1 + (i - 1) = n + i
      BY <1>3, <2>3
    <3> QED
      BY <2>3, <3>1
  <2>5. n + i \in (n + 1)..(L - 1) /\ n + i \in n..(L - 1) /\ n + i + 1 = n + 1 + i
    BY <1>3, <2>1, <2>3
  <2>6. r.way[n + i].k \in kinds
    BY <1>2, <2>5 DEF n, L
  <2>7. r.way[n + 1 + i] = r.way[n + i].of[1]
    BY <1>7, <2>5
  <2>8. A[i] = r.way[n + i].of[1]
    BY <1>9, <2>3, <2>4, <2>6, Zenon DEF Inward
  <2> QED
    BY <2>1, <2>7, <2>8
<1>11. ASSUME Value(r).k \notin kinds PROVE A[MaxDepth] = Value(r)
  <2> DEFINE J == L - n - 1
             Far == {i \in J..MaxDepth : A[i] # Value(r)}
  <2>1. J \in 0..(L - n - 1) /\ n + 1 + J = L /\ J \in Nat /\ J <= MaxDepth
    BY <1>13
  <2>2. A[J] = Value(r)
    <3>1. J \notin Bad
      BY <1>10
    <3>2. A[J] = r.way[n + 1 + J]
      BY <2>1, <3>1
    <3>3. Value(r) = r.way[L]
      BY <1>6 DEF L
    <3> QED
      BY <2>1, <3>2, <3>3
  <2> HIDE DEF J, Bad
  <2>3. Far = {}
    <3>0. SUFFICES ASSUME Far # {} PROVE FALSE
      OBVIOUS
    <3>1. PICK i \in Far : \A y \in Far : i <= y
      <4>1. Far \in SUBSET Nat
        BY <2>1
      <4> HIDE DEF Far
      <4> QED
        BY <3>0, <4>1, Least
    <3>2. i # J
      BY <2>2, <3>1
    <3>6. J \in Nat /\ MaxDepth \in Nat /\ i \in J..MaxDepth
      BY <1>13, <2>1, <3>1
    <3>7. i \in 1..MaxDepth /\ i - 1 \in J..MaxDepth /\ ~(i <= i - 1)
      BY <3>6, <3>2
    <3>8. i - 1 \notin Far
      <4> HIDE DEF Far
      <4> QED
        BY <3>1, <3>7, Zenon
    <3>3. i \in 1..MaxDepth /\ i - 1 \in J..MaxDepth /\ i - 1 \notin Far
      BY <3>7, <3>8
    <3>4. A[i - 1] = Value(r)
      BY <3>3
    <3>5. A[i] = Value(r)
      BY <1>9, <1>11, <3>3, <3>4, Zenon DEF Inward
    <3> QED
      BY <3>1, <3>5
  <2>4. MaxDepth \in J..MaxDepth
    BY <1>1, <2>1
  <2> QED
    BY <2>3, <2>4
<1> QED
  BY <1>8, <1>11 DEF A, n

\* When nothing is left to do, every place that is reached is settled.
LEMMA AllSettled ==
  ASSUME IInv, Done
  PROVE  /\ \A p \in Reached : IsUnsafe(Value(p)) => InUnsafe(p) \/ p.at \in ReportedAt(UnsafeRules)
         /\ \A p \in Reached : Assignment(Value(p)) => errors # {} \/ MayAssign(p)
<1>1. \A t : ~Waits(t)
  <2>1. Len(todo) = 0
    BY DEF Done
  <2>2. 1..0 = {}
    OBVIOUS
  <2> QED
    BY <2>1, <2>2, Zenon DEF Waits
<1>2. \A g \in Names : g \in typechecked
  BY <1>1, Zenon DEF IInv, FunctionsCome
<1>3. \A p \in Reached : ~ToCome(p)
  BY <1>1, <1>2 DEF ToCome
<1>4. \A p \in Reached : UnsafeSettled(p) /\ AssignmentSettled(p)
  BY <1>3, Zenon DEF IInv, Fate
<1>5. ASSUME NEW p \in Reached, IsUnsafe(Value(p)) PROVE InUnsafe(p) \/ p.at \in ReportedAt(UnsafeRules)
  BY <1>1, <1>4, <1>5, Zenon DEF UnsafeSettled
<1>6. ASSUME NEW p \in Reached, Assignment(Value(p)) PROVE errors # {} \/ MayAssign(p)
  BY <1>1, <1>4, <1>6, Zenon DEF AssignmentSettled
<1> QED
  BY <1>5, <1>6

\* What is reported as unsafe is exactly what is.
LEMMA UnsafeFollows ==
  ASSUME IInv
  PROVE  UnsafeExactly
<1>1. SUFFICES ASSUME Done
               PROVE  ReportedAt(UnsafeRules) = {p.at : p \in {q \in Reached : IsUnsafe(Value(q)) /\ ~InUnsafe(q)}}
  BY Zenon DEF UnsafeExactly
<1>2. ASSUME NEW x \in ReportedAt(UnsafeRules)
      PROVE  \E p \in Reached : IsUnsafe(Value(p)) /\ ~InUnsafe(p) /\ x = p.at
  <2>1. PICK e \in errors : e.rule \in UnsafeRules /\ x = e.at
    BY DEF ReportedAt
  <2>2. Sound
    BY DEF IInv
  <2> QED
    BY <2>1, <2>2, Zenon DEF Sound
<1>3. ASSUME NEW p \in Reached, IsUnsafe(Value(p)), ~InUnsafe(p) PROVE p.at \in ReportedAt(UnsafeRules)
  BY <1>1, <1>3, AllSettled, Zenon
<1> QED
  BY <1>2, <1>3, Zenon

\* What is assigned in an accepted module may be.
LEMMA MutabilityFollows ==
  ASSUME IInv
  PROVE  ImmutableStays
<1>1. SUFFICES ASSUME Done, errors = {}, NEW p \in Reached, Assignment(Value(p)), NEW r \in Places
               PROVE  /\ Follows(p, r, Through) /\ Value(r).k \in {"variable", "argument", "index", "declaration"} => Value(r).mut
                      /\ Follows(p, r, {"index"}) /\ Len(r.way) > Len(p.way) + 1 /\ IsSelf(Value(r)) => Func(p.at[1]).mutating
  BY Zenon DEF ImmutableStays
<1>2. isMutable(Value(p).of[1]) /\ (accessingSelf(Value(p).of[1]) => Func(p.at[1]).mutating)
  BY <1>1, AllSettled, Zenon DEF MayAssign
<1>3. module \in Program /\ p \in Places
  BY DEF IInv, Reached
<1>4. ASSUME Follows(p, r, Through), Value(r).k \in {"variable", "argument", "index", "declaration"} PROVE Value(r).mut
  <2>1. Value(r).k \notin Through
    BY <1>4 DEF Through
  <2>2. Along(Value(p).of[1], Through)[MaxDepth] = Value(r)
    BY <1>3, <1>4, <2>1, ChainEnds
  <2>3. PICK x : x = Along(Value(p).of[1], Through)[MaxDepth]
    OBVIOUS
  <2>4. x.k \in {"variable", "argument", "index", "declaration"} => (isMutable(Value(p).of[1]) = x.mut)
    BY <2>3, Zenon DEF isMutable
  <2> QED
    BY <1>2, <1>4, <2>2, <2>3, <2>4, Zenon
<1>5. ASSUME Follows(p, r, {"index"}), Len(r.way) > Len(p.way) + 1, IsSelf(Value(r)) PROVE Func(p.at[1]).mutating
  <2>1. Value(r).k \notin {"index"}
    BY <1>5 DEF IsSelf
  <2>2. /\ r.way[Len(p.way) + 1] = Value(p).of[1]
        /\ Along(Value(p).of[1], {"index"})[MaxDepth] = Value(r)
    <3>1. PICK kinds : kinds = {"index"}
      OBVIOUS
    <3> QED
      BY <1>3, <1>5, <2>1, <3>1, ChainEnds
  <2>3. Value(p).of[1].k = "index"
    <3>1. Len(p.way) \in Nat /\ Len(r.way) \in Nat
      BY <1>3, AllGo DEF Goes
    <3>2. Len(p.way) + 1 \in (Len(p.way) + 1)..(Len(r.way) - 1)
      BY <1>5, <3>1
    <3>3. \A i \in (Len(p.way) + 1)..(Len(r.way) - 1) : r.way[i].k \in {"index"}
      BY <1>5, Zenon DEF Follows
    <3>4. r.way[Len(p.way) + 1].k \in {"index"}
      BY <3>2, <3>3, Zenon
    <3> QED
      BY <2>2, <3>4
  <2>4. accessingSelf(Value(p).of[1])
    BY <1>5, <2>2, <2>3, Zenon DEF accessingSelf
  <2> QED
    BY <1>2, <2>4
<1> QED
  BY <1>4, <1>5

-----------------------------------------------------------------------------
(* Counting tasks *)

\* How many tasks of s do this at this place, and how often the place was visited.
Hits(s, do, at) == {j \in 1..Len(s) : s[j].do = do /\ s[j].at = at}
Count(s, do, at) == Cardinality(Hits(s, do, at))

\* What was counted is a number; there is one where just one is, and none where none is.
LEMMA Counted ==
  ASSUME NEW s, NEW do, NEW at, IsSeq(s)
  PROVE  /\ IsFiniteSet(Hits(s, do, at)) /\ Count(s, do, at) \in Nat
         /\ (\A j \in 1..Len(s) : ~(s[j].do = do /\ s[j].at = at)) => Count(s, do, at) = 0
         /\ \A k \in 1..Len(s) :
                s[k].do = do /\ s[k].at = at /\ (\A j \in 1..Len(s) : s[j].do = do /\ s[j].at = at => j = k)
                => Count(s, do, at) = 1
<1>1. Len(s) \in Nat
  BY SeqIs
<1>2. IsFiniteSet(Hits(s, do, at))
  <2>1. IsFiniteSet(1..Len(s))
    BY <1>1, FS_Interval
  <2>2. Hits(s, do, at) \in SUBSET (1..Len(s))
    BY DEF Hits
  <2> QED
    BY <2>1, <2>2, FS_Subset
<1>3. Count(s, do, at) \in Nat
  BY <1>2, FS_CardinalityType DEF Count
<1>4. ASSUME \A j \in 1..Len(s) : ~(s[j].do = do /\ s[j].at = at) PROVE Count(s, do, at) = 0
  <2>1. Hits(s, do, at) = {}
    BY <1>4 DEF Hits
  <2> QED
    BY <2>1, FS_EmptySet DEF Count
<1>5. ASSUME NEW k \in 1..Len(s), s[k].do = do, s[k].at = at, \A j \in 1..Len(s) : s[j].do = do /\ s[j].at = at => j = k
      PROVE  Count(s, do, at) = 1
  <2>1. Hits(s, do, at) = {k}
    BY <1>5 DEF Hits
  <2> QED
    BY <2>1, FS_Singleton DEF Count
<1> QED
  BY <1>2, <1>3, <1>4, <1>5, Zenon

\* As many are counted in two sequences, one after the other, as in both of them.
LEMMA CountJoined ==
  ASSUME NEW s, NEW u, IsSeq(s), IsSeq(u), NEW do, NEW at
  PROVE  Count(s \o u, do, at) = Count(s, do, at) + Count(u, do, at)
<1>1. PICK t : t = s \o u
  OBVIOUS
<1>2. /\ Len(s) \in Nat /\ Len(u) \in Nat /\ IsSeq(t) /\ Len(t) = Len(s) + Len(u)
      /\ \A i \in 1..Len(s) : t[i] = s[i]
      /\ \A i \in 1..Len(u) : t[Len(s) + i] = u[i]
  BY <1>1, Joined
<1>3. PICK n : n = Len(s)
  OBVIOUS
<1>4. PICK A, B, C : A = Hits(s, do, at) /\ B = Hits(u, do, at) /\ C = {n + j : j \in B}
  OBVIOUS
<1>5. A \subseteq 1..n /\ B \subseteq 1..Len(u) /\ n \in Nat
  BY <1>2, <1>3, <1>4 DEF Hits
<1>6. IsFiniteSet(A) /\ IsFiniteSet(B)
  BY <1>4, Counted
<1>7. ExistsBijection(B, C)
  <2>1. PICK f : f = [j \in B |-> n + j]
    OBVIOUS
  <2>2. \A j \in B : f[j] = n + j /\ j \in Nat
    BY <1>5, <2>1
  <2>3. f \in [B -> C]
    BY <1>4, <2>1
  <2>4. \A i, j \in B : f[i] = f[j] => i = j
    BY <1>5, <2>2
  <2>5. \A x \in C : \E j \in B : f[j] = x
    BY <1>4, <2>2
  <2>6. f \in Bijection(B, C)
    BY <2>3, <2>4, <2>5 DEF Bijection, Injection, Surjection, IsInjective
  <2> QED
    BY <2>6 DEF ExistsBijection
<1>8. IsFiniteSet(C) /\ Cardinality(C) = Cardinality(B)
  BY <1>6, <1>7, FS_Bijection
<1>9. A \cap C = {}
  <2>1. \A j \in B : n + j > n /\ n + j \notin 1..n
    BY <1>5
  <2> QED
    BY <1>4, <1>5, <2>1
<1>10. Hits(t, do, at) = A \cup C
  <2>1. ASSUME NEW j \in Hits(t, do, at) PROVE j \in A \cup C
    <3>1. j \in 1..Len(t) /\ t[j].do = do /\ t[j].at = at
      BY <2>1 DEF Hits
    <3>2. CASE j <= n
      <4>1. j \in 1..Len(s) /\ t[j] = s[j]
        BY <1>2, <1>3, <3>1, <3>2
      <4> QED
        BY <1>4, <3>1, <4>1 DEF Hits
    <3>3. CASE j > n
      <4>1. PICK i : i = j - n
        OBVIOUS
      <4>2. i \in 1..Len(u) /\ j = n + i
        BY <1>2, <1>3, <3>1, <3>3, <4>1
      <4>3. t[j] = u[i]
        BY <1>2, <1>3, <4>2
      <4>4. i \in B
        BY <1>4, <3>1, <4>2, <4>3 DEF Hits
      <4> QED
        BY <1>4, <4>2, <4>4
    <3> QED
      BY <1>5, <3>1, <3>2, <3>3
  <2>2. ASSUME NEW j \in A PROVE j \in Hits(t, do, at)
    <3>1. j \in 1..Len(s) /\ s[j].do = do /\ s[j].at = at
      BY <1>4 DEF Hits
    <3>2. j \in 1..Len(t) /\ t[j] = s[j]
      BY <1>2, <3>1
    <3> QED
      BY <3>1, <3>2 DEF Hits
  <2>3. ASSUME NEW i \in B PROVE n + i \in Hits(t, do, at)
    <3>1. i \in 1..Len(u) /\ u[i].do = do /\ u[i].at = at
      BY <1>4 DEF Hits
    <3>2. n + i \in 1..Len(t) /\ t[n + i] = u[i]
      BY <1>2, <1>3, <3>1
    <3> QED
      BY <3>1, <3>2 DEF Hits
  <2> QED
    BY <1>4, <2>1, <2>2, <2>3
<1>11. Cardinality(A \cup C) = Cardinality(A) + Cardinality(B)
  <2>1. Cardinality(A \cup C) = Cardinality(A) + Cardinality(C) - Cardinality(A \cap C)
    BY <1>6, <1>8, FS_Union
  <2>2. Cardinality(A \cap C) = 0
    BY <1>9, FS_EmptySet
  <2>3. Cardinality(A) \in Nat /\ Cardinality(B) \in Nat
    BY <1>6, FS_CardinalityType
  <2> QED
    BY <1>8, <2>1, <2>2, <2>3
<1> QED
  BY <1>1, <1>4, <1>10, <1>11 DEF Count

\* One task, and none.
LEMMA CountOne ==
  ASSUME NEW t, NEW do, NEW at
  PROVE  /\ Count(<<>>, do, at) = 0
         /\ t.do = do /\ t.at = at => Count(<<t>>, do, at) = 1
         /\ ~(t.do = do /\ t.at = at) => Count(<<t>>, do, at) = 0
<1>1. IsSeq(<<>>) /\ IsSeq(<<t>>)
  BY Ranges
<1>2. PICK e, s : e = <<>> /\ s = <<t>>
  OBVIOUS
<1>3. Len(e) = 0 /\ Len(s) = 1 /\ s[1] = t /\ 1..0 = {} /\ \A j \in 1..1 : j = 1
  BY <1>2
<1>4. Count(e, do, at) = 0
  BY <1>1, <1>2, <1>3, Counted
<1>5. t.do = do /\ t.at = at => Count(s, do, at) = 1
  <2>1. 1 \in 1..Len(s)
    BY <1>3
  <2>2. \A j \in 1..Len(s) : j = 1
    BY <1>3
  <2> QED
    BY <1>1, <1>2, <1>3, <2>1, <2>2, Counted
<1>6. ~(t.do = do /\ t.at = at) => Count(s, do, at) = 0
  <2>1. \A j \in 1..Len(s) : s[j] = t
    BY <1>3
  <2> QED
    BY <1>1, <1>2, <2>1, Counted, Zenon
<1> QED
  BY <1>2, <1>4, <1>5, <1>6

\* The first task is one of them.
LEMMA CountTail ==
  ASSUME NEW s, IsSeq(s), s # <<>>, NEW do, NEW at
  PROVE  Count(s, do, at) = Count(<<Head(s)>>, do, at) + Count(Tail(s), do, at)
<1>1. IsSeq(Tail(s)) /\ IsSeq(<<Head(s)>>)
  BY Taken, Ranges
<1>2. PICK h, u : h = <<Head(s)>> /\ u = Tail(s)
  OBVIOUS
<1>3. s = h \o u
  BY <1>2 DEF IsSeq
<1>4. Count(h \o u, do, at) = Count(h, do, at) + Count(u, do, at)
  BY <1>1, <1>2, CountJoined
<1> QED
  BY <1>2, <1>3, <1>4

\* T visits, of the values at this place, those in I, each once, and has the mutability of the place checked if m.
Lists(T, at, I, m) ==
  /\ IsSeq(T)
  /\ \A l \in I : Count(T, "visit", Append(at, l)) = 1
  /\ \A a : a # <<>> /\ (\A l \in I : a # Append(at, l)) => Count(T, "visit", a) = 0
  /\ m => Count(T, "mutability", at) = 1
  /\ \A a : ~(m /\ a = at) => Count(T, "mutability", a) = 0

\* The positions tell what was appended.
LEMMA AppendTells ==
  ASSUME NEW at, IsSeq(at)
  PROVE  /\ \A l, k : Append(at, l) = Append(at, k) => l = k
         /\ \A l : Append(at, l) # <<>>
<1>1. \A l, k : Append(at, l) = Append(at, k) => l = k
  BY AppendedSame
<1>2. ASSUME NEW l PROVE Append(at, l) # <<>>
  <2>1. Len(at) \in Nat /\ Len(Append(at, l)) = Len(at) + 1
    BY Appended
  <2>2. Len(<<>>) = 0
    OBVIOUS
  <2> QED
    BY <2>1, <2>2
<1> QED
  BY <1>1, <1>2

\* One after the other.
LEMMA ListsJoined ==
  ASSUME NEW at, IsSeq(at), NEW S, NEW T, NEW I, NEW J, NEW m \in BOOLEAN, NEW n \in BOOLEAN,
         Lists(S, at, I, m), Lists(T, at, J, n), I \cap J = {}, ~(m /\ n)
  PROVE  Lists(S \o T, at, I \cup J, m \/ n)
<1>1. PICK U : U = S \o T
  OBVIOUS
<1>2. IsSeq(S) /\ IsSeq(T)
  BY DEF Lists
<1>3. IsSeq(U)
  BY <1>1, <1>2, Joined
<1>4. \A do, a : Count(U, do, a) = Count(S, do, a) + Count(T, do, a)
  BY <1>1, <1>2, CountJoined
<1>5. ASSUME NEW l \in I \cup J PROVE Count(U, "visit", Append(at, l)) = 1
  <2>1. PICK a : a = Append(at, l)
    OBVIOUS
  <2>2. a # <<>> /\ \A k : a = Append(at, k) => l = k
    BY <2>1, AppendTells, Zenon
  <2>3. CASE l \in I
    <3>1. Count(S, "visit", a) = 1
      BY <2>1, <2>3 DEF Lists
    <3>2. \A k \in J : a # Append(at, k)
      BY <2>2, <2>3
    <3>3. Count(T, "visit", a) = 0
      BY <2>2, <3>2, Zenon DEF Lists
    <3> QED
      BY <1>4, <2>1, <3>1, <3>3
  <2>4. CASE l \in J
    <3>1. Count(T, "visit", a) = 1
      BY <2>1, <2>4 DEF Lists
    <3>2. \A k \in I : a # Append(at, k)
      BY <2>2, <2>4
    <3>3. Count(S, "visit", a) = 0
      BY <2>2, <3>2, Zenon DEF Lists
    <3> QED
      BY <1>4, <2>1, <3>1, <3>3
  <2> QED
    BY <2>3, <2>4
<1>6. ASSUME NEW a, a # <<>>, \A l \in I \cup J : a # Append(at, l) PROVE Count(U, "visit", a) = 0
  <2>1. (\A l \in I : a # Append(at, l)) /\ \A l \in J : a # Append(at, l)
    BY <1>6, Zenon
  <2>2. Count(S, "visit", a) = 0 /\ Count(T, "visit", a) = 0
    BY <1>6, <2>1, Zenon DEF Lists
  <2> QED
    BY <1>4, <2>2
<1>7. ASSUME m \/ n PROVE Count(U, "mutability", at) = 1
  <2>1. m => Count(S, "mutability", at) = 1 /\ Count(T, "mutability", at) = 0
    BY Zenon DEF Lists
  <2>2. n => Count(S, "mutability", at) = 0 /\ Count(T, "mutability", at) = 1
    BY Zenon DEF Lists
  <2> QED
    BY <1>4, <1>7, <2>1, <2>2
<1>8. ASSUME NEW a, ~((m \/ n) /\ a = at) PROVE Count(U, "mutability", a) = 0
  <2>1. Count(S, "mutability", a) = 0 /\ Count(T, "mutability", a) = 0
    BY <1>8, Zenon DEF Lists
  <2> QED
    BY <1>4, <2>1
<1>9. Lists(U, at, I \cup J, m \/ n)
  BY <1>3, <1>5, <1>6, <1>7, <1>8, Zenon DEF Lists
<1> QED
  BY <1>1, <1>9

\* Nothing, one task that visits no value, and the check of the mutability.
LEMMA ListsOne ==
  ASSUME NEW at, NEW t
  PROVE  /\ Lists(<<>>, at, {}, FALSE)
         /\ t.do \notin {"visit", "mutability"} \/ (t.do = "visit" /\ t.at = <<>>) => Lists(<<t>>, at, {}, FALSE)
         /\ t.do = "mutability" /\ t.at = at => Lists(<<t>>, at, {}, TRUE)
<1>1. PICK e, s : e = <<>> /\ s = <<t>>
  OBVIOUS
<1>2. IsSeq(e) /\ IsSeq(s)
  BY <1>1, Ranges, Zenon
<1>3. \A do, a : Count(e, do, a) = 0
  BY <1>1, CountOne, Zenon
<1>4. \A do, a : ~(t.do = do /\ t.at = a) => Count(s, do, a) = 0
  BY <1>1, CountOne, Zenon
<1>5. \A do, a : t.do = do /\ t.at = a => Count(s, do, a) = 1
  <2>1. ASSUME NEW do, NEW a, t.do = do /\ t.at = a PROVE Count(<<t>>, do, a) = 1
    BY <2>1, CountOne
  <2> QED
    BY <1>1, <2>1
<1>6. Lists(e, at, {}, FALSE)
  BY <1>2, <1>3 DEF Lists
<1>7. t.do \notin {"visit", "mutability"} \/ (t.do = "visit" /\ t.at = <<>>) => Lists(s, at, {}, FALSE)
  <2>1. ASSUME t.do \notin {"visit", "mutability"} \/ (t.do = "visit" /\ t.at = <<>>) PROVE Lists(s, at, {}, FALSE)
    <3>1. \A a : a # <<>> => Count(s, "visit", a) = 0
      BY <1>4, <2>1
    <3>2. \A a : Count(s, "mutability", a) = 0
      BY <1>4, <2>1
    <3> QED
      BY <1>2, <3>1, <3>2 DEF Lists
  <2> QED
    BY <2>1
<1>8. t.do = "mutability" /\ t.at = at => Lists(s, at, {}, TRUE)
  <2>1. ASSUME t.do = "mutability", t.at = at PROVE Lists(s, at, {}, TRUE)
    <3>1. \A a : Count(s, "visit", a) = 0
      BY <1>4, <2>1
    <3>2. Count(s, "mutability", at) = 1
      BY <1>5, <2>1
    <3>3. \A a : a # at => Count(s, "mutability", a) = 0
      BY <1>4, <2>1
    <3> QED
      BY <1>2, <3>1, <3>2, <3>3 DEF Lists
  <2> QED
    BY <2>1
<1> QED
  BY <1>1, <1>6, <1>7, <1>8

\* A sequence that visits each of the values in I at one position, and has no other visit.
LEMMA ListsEach ==
  ASSUME NEW at, IsSeq(at), NEW T, IsSeq(T), NEW I,
         \A n \in 1..Len(T) : T[n].do # "mutability",
         \A n \in 1..Len(T) : T[n].do = "visit" => \E l \in I : T[n].at = Append(at, l),
         \A l \in I : \E n \in 1..Len(T) : /\ T[n].do = "visit" /\ T[n].at = Append(at, l)
                                           /\ \A k \in 1..Len(T) : T[k].do = "visit" /\ T[k].at = Append(at, l) => k = n
  PROVE  Lists(T, at, I, FALSE)
<1>1. ASSUME NEW l \in I PROVE Count(T, "visit", Append(at, l)) = 1
  <2>1. PICK a : a = Append(at, l)
    OBVIOUS
  <2>2. PICK n \in 1..Len(T) : /\ T[n].do = "visit" /\ T[n].at = a
                               /\ \A k \in 1..Len(T) : T[k].do = "visit" /\ T[k].at = a => k = n
    BY <2>1
  <2>3. Count(T, "visit", a) = 1
    BY <2>2, Counted
  <2> QED
    BY <2>1, <2>3
<1>2. ASSUME NEW a, \A l \in I : a # Append(at, l) PROVE Count(T, "visit", a) = 0
  <2>1. \A n \in 1..Len(T) : ~(T[n].do = "visit" /\ T[n].at = a)
    BY <1>2, Zenon
  <2> QED
    BY <2>1, Counted
<1>3. \A a : Count(T, "mutability", a) = 0
  <2>1. \A a : \A n \in 1..Len(T) : ~(T[n].do = "mutability" /\ T[n].at = a)
    OBVIOUS
  <2> QED
    BY <2>1, Counted
<1> QED
  BY <1>1, <1>2, <1>3, Zenon DEF Lists

\* The values from one position to another.
LEMMA ListsParts ==
  ASSUME NEW v, NEW at, IsSeq(at), NEW i \in Nat, NEW j \in Nat
  PROVE  Lists(Parts(v, at, i, j), at, i..j, FALSE)
<1> DEFINE n == IF j < i THEN 0 ELSE j - i + 1
           F(l) == Visit(v.of[l], Append(at, l))
<1>1. n \in Nat
  OBVIOUS
<1>2. Parts(v, at, i, j) = [m \in 1..n |-> F(i + m - 1)]
  BY Zenon DEF Parts
<1>3. PICK T : T = Parts(v, at, i, j)
  OBVIOUS
<1> HIDE DEF F
<1>4. /\ \A m \in 1..n : i + m - 1 \in i..j
      /\ \A l \in i..j : l - i + 1 \in 1..n /\ i + (l - i + 1) - 1 = l
      /\ \A m \in 1..n : m = (i + m - 1) - i + 1
  OBVIOUS
<1> HIDE DEF n
<1>5. IsSeq(T)
  BY <1>3, PartsAre
<1>6. DOMAIN T = 1..n /\ \A m \in 1..n : T[m] = F(i + m - 1)
  BY <1>2, <1>3, Zenon
<1>7. Len(T) = n
  BY <1>1, <1>5, <1>6, SeqIs
<1>8. \A l : F(l).do = "visit" /\ F(l).at = Append(at, l)
  BY DEF F, Visit, Task
<1>9. \A m \in 1..n : T[m].do = "visit" /\ T[m].at = Append(at, i + m - 1)
  BY <1>6, <1>8, Zenon
<1>10. \A m \in 1..Len(T) : T[m].do # "mutability"
  BY <1>7, <1>9
<1>11. \A m \in 1..Len(T) : T[m].do = "visit" => \E l \in i..j : T[m].at = Append(at, l)
  <2>1. \A m \in 1..n : i + m - 1 \in i..j
    BY <1>4
  <2> QED
    BY <1>7, <1>9, <2>1
<1>12. ASSUME NEW l \in i..j
       PROVE  \E m \in 1..Len(T) : /\ T[m].do = "visit" /\ T[m].at = Append(at, l)
                                   /\ \A k \in 1..Len(T) : T[k].do = "visit" /\ T[k].at = Append(at, l) => k = m
  <2>1. PICK m : m = l - i + 1
    OBVIOUS
  <2>2. m \in 1..n /\ i + m - 1 = l
    BY <1>4, <2>1
  <2>3. T[m].do = "visit" /\ T[m].at = Append(at, l)
    BY <1>9, <2>2
  <2>4. ASSUME NEW k \in 1..n, T[k].at = Append(at, l) PROVE k = m
    <3>1. Append(at, i + k - 1) = Append(at, l)
      BY <1>9, <2>4
    <3>2. i + k - 1 = l
      BY <3>1, AppendTells, Zenon
    <3> QED
      BY <1>1, <2>1, <3>2
  <2> QED
    BY <1>7, <2>2, <2>3, <2>4
<1>13. PICK I : I = i..j
  OBVIOUS
<1>14. Lists(T, at, I, FALSE)
  BY <1>5, <1>10, <1>11, <1>12, <1>13, ListsEach
<1> QED
  BY <1>3, <1>13, <1>14

\* The cases of a switch.
LEMMA ListsCases ==
  ASSUME NEW v, NEW at, IsSeq(at), v.cases \in Nat
  PROVE  Lists(Cases(v, at), at, 2..(v.cases + 1), FALSE)
<1> DEFINE N == v.cases
           V(l) == Visit(v.of[l], Append(at, l))
           C(i) == Task("case", <<v.values[i], v.of[1].type>>, at)
<1>1. CASE v.values = <<>>
  <2>1. Cases(v, at) = Parts(v, at, 2, N + 1)
    BY <1>1, Zenon DEF Cases
  <2>2. N + 1 \in Nat /\ 2 \in Nat
    OBVIOUS
  <2> QED
    BY <2>1, <2>2, ListsParts
<1>2. CASE v.values # <<>>
  <2> DEFINE G(n) == LET i == (n + 1) \div 2 IN IF n % 2 = 1 THEN V(i + 1) ELSE C(i)
  <2>1. Cases(v, at) = [n \in 1..2 * N |-> G(n)]
    BY <1>2, Zenon DEF Cases
  <2>2. \A n \in 1..2 * N : n % 2 = 1 => G(n) = V((n + 1) \div 2 + 1)
    BY Zenon
  <2>3. \A n \in 1..2 * N : n % 2 # 1 => G(n) = C((n + 1) \div 2)
    BY Zenon
  <2> HIDE DEF G
  <2>4. PICK T, K, I : T = Cases(v, at) /\ K = 2 * N /\ I = 2..(N + 1)
    OBVIOUS
  <2>5. K \in Nat
    BY <2>4
  <2>6. DOMAIN T = 1..K /\ \A n \in 1..K : T[n] = G(n)
    BY <2>1, <2>4, Zenon
  <2>7. IsSeq(T)
    BY <2>4, CasesAre
  <2>8. Len(T) = K
    BY <2>5, <2>6, <2>7, SeqIs
  <2>9. /\ \A l : V(l).do = "visit" /\ V(l).at = Append(at, l)
        /\ \A i : C(i).do = "case"
    BY DEF Visit, Task
  <2> HIDE DEF V, C
  <2>10. \A n \in 1..K : n % 2 = 1 => T[n].do = "visit" /\ T[n].at = Append(at, (n + 1) \div 2 + 1)
    BY <2>2, <2>4, <2>6, <2>9, Zenon
  <2>11. \A n \in 1..K : n % 2 # 1 => T[n].do = "case"
    BY <2>3, <2>4, <2>6, <2>9, Zenon
  <2>12. \A n \in 1..K : n % 2 = 1 => (n + 1) \div 2 + 1 \in I
    BY <2>4
  <2>13. \A n \in 1..Len(T) : T[n].do # "mutability"
    BY <2>8, <2>10, <2>11
  <2>14. \A n \in 1..Len(T) : T[n].do = "visit" => \E l \in I : T[n].at = Append(at, l)
    <3>1. ASSUME NEW n \in 1..K, T[n].do = "visit" PROVE \E l \in I : T[n].at = Append(at, l)
      <4>1. n % 2 = 1
        BY <2>11, <3>1
      <4> QED
        BY <2>10, <2>12, <4>1, Zenon
    <3> QED
      BY <2>8, <3>1
  <2>15. ASSUME NEW l \in I
         PROVE  \E n \in 1..Len(T) : /\ T[n].do = "visit" /\ T[n].at = Append(at, l)
                                     /\ \A k \in 1..Len(T) : T[k].do = "visit" /\ T[k].at = Append(at, l) => k = n
    <3>1. PICK n : n = 2 * (l - 1) - 1
      OBVIOUS
    <3>2. n \in 1..K /\ n % 2 = 1 /\ (n + 1) \div 2 + 1 = l
      BY <2>4, <3>1
    <3>3. T[n].do = "visit" /\ T[n].at = Append(at, l)
      BY <2>10, <3>2
    <3>4. ASSUME NEW k \in 1..K, T[k].do = "visit", T[k].at = Append(at, l) PROVE k = n
      <4>1. k % 2 = 1
        BY <2>11, <3>4
      <4>2. Append(at, (k + 1) \div 2 + 1) = Append(at, l)
        BY <2>10, <3>4, <4>1
      <4>3. (k + 1) \div 2 + 1 = l
        BY <4>2, AppendTells, Zenon
      <4> QED
        BY <2>5, <3>1, <4>1, <4>3
    <3> QED
      BY <2>8, <3>2, <3>3, <3>4
  <2>16. Lists(T, at, I, FALSE)
    BY <2>7, <2>13, <2>14, <2>15, ListsEach
  <2> QED
    BY <2>4, <2>16
<1> QED
  BY <1>1, <1>2

-----------------------------------------------------------------------------
(* What is owed to every place *)

\* How often at is in s.
Occurrences(s, at) == Cardinality({i \in DOMAIN s : s[i] = at})

\* The visits of a place, those that were made and those that are to be done.
Due(at) == Occurrences(seen, at) + Count(todo, "visit", at)
Refuses(v) == Assignment(v) /\ ~isMutable(v.of[1])

\* A top is visited once, a function's when the function was met.
BalancedTop(t) == Due(t.at) = IF t.at[1] \in Names \ typechecked THEN 0 ELSE 1

\* A value in a place is visited as often as the place; the left side of a refused assignment twice
\* as often, the second time when the mutability was checked.
BalancedPart(p, i) ==
  IF SkipStep(Value(p), i) THEN Due(Append(p.at, i)) = 0
  ELSE IF Refuses(Value(p)) /\ i = 1
       THEN Due(Append(p.at, i)) + Count(todo, "mutability", p.at) = Occurrences(seen, p.at) + Occurrences(seen, p.at)
       ELSE Due(Append(p.at, i)) = Occurrences(seen, p.at)

Balanced ==
  /\ IsSeq(seen)
  /\ \A t \in Tops(module) : BalancedTop(t)
  /\ \A p \in Places : \A i \in DOMAIN Value(p).of : BalancedPart(p, i)

\* What is appended occurs once more.
LEMMA Occurs ==
  ASSUME NEW s, IsSeq(s), NEW at
  PROVE  /\ Occurrences(s, at) \in Nat /\ Occurrences(<<>>, at) = 0
         /\ \A x : /\ IsSeq(Append(s, x))
                   /\ x = at => Occurrences(Append(s, x), at) = Occurrences(s, at) + 1
                   /\ x # at => Occurrences(Append(s, x), at) = Occurrences(s, at)
<1>1. Len(s) \in Nat /\ DOMAIN s = 1..Len(s)
  BY SeqIs
<1>2. PICK A : A = {i \in DOMAIN s : s[i] = at}
  OBVIOUS
<1>3. A \subseteq 1..Len(s)
  BY <1>1, <1>2
<1>4. IsFiniteSet(A)
  <2>1. IsFiniteSet(1..Len(s))
    BY <1>1, FS_Interval
  <2> QED
    BY <1>3, <2>1, FS_Subset
<1>5. Occurrences(s, at) = Cardinality(A)
  BY <1>2 DEF Occurrences
<1>6. Occurrences(s, at) \in Nat
  BY <1>4, <1>5, FS_CardinalityType
<1>7. Occurrences(<<>>, at) = 0
  <2>1. {i \in DOMAIN <<>> : <<>>[i] = at} = {}
    OBVIOUS
  <2> QED
    BY <2>1, FS_EmptySet DEF Occurrences
<1>8. ASSUME NEW x
      PROVE  /\ IsSeq(Append(s, x))
             /\ x = at => Occurrences(Append(s, x), at) = Occurrences(s, at) + 1
             /\ x # at => Occurrences(Append(s, x), at) = Occurrences(s, at)
  <2>1. PICK u : u = Append(s, x)
    OBVIOUS
  <2>2. /\ IsSeq(u) /\ Len(u) = Len(s) + 1
        /\ \A i \in 1..Len(s) : u[i] = s[i]
        /\ u[Len(s) + 1] = x
    BY <2>1, Appended
  <2>3. DOMAIN u = 1..(Len(s) + 1)
    BY <2>2, SeqIs
  <2>4. PICK B : B = {i \in DOMAIN u : u[i] = at}
    OBVIOUS
  <2>5. Occurrences(u, at) = Cardinality(B)
    BY <2>4 DEF Occurrences
  <2>6. \A i : i \in 1..(Len(s) + 1) <=> i \in 1..Len(s) \/ i = Len(s) + 1
    BY <1>1
  <2>7. Len(s) + 1 \notin 1..Len(s)
    BY <1>1
  <2>8. CASE x = at
    <3>1. B = A \cup {Len(s) + 1} /\ Len(s) + 1 \notin A
      BY <1>1, <1>2, <2>2, <2>3, <2>4, <2>6, <2>7, <2>8
    <3>2. Cardinality(B) = Cardinality(A) + 1
      BY <1>4, <3>1, FS_AddElement
    <3> QED
      BY <1>5, <2>1, <2>2, <2>5, <2>8, <3>2
  <2>9. CASE x # at
    <3>1. B = A
      BY <1>1, <1>2, <2>2, <2>3, <2>4, <2>6, <2>7, <2>9
    <3> QED
      BY <1>5, <2>1, <2>2, <2>5, <2>9, <3>1
  <2> QED
    BY <2>8, <2>9
<1> QED
  BY <1>6, <1>7, <1>8

\* A visit of a place is seen, and nothing else is.
Sees == seen' = IF Head(todo).do = "visit" /\ At # <<>> THEN Append(seen, At) ELSE seen
First(do, at) == Count(<<Head(todo)>>, do, at)

\* The first task is done, and T put before the rest.
LEMMA Moves ==
  ASSUME IsSeq(todo), todo # <<>>, IsSeq(seen), NEW T, IsSeq(T), todo' = T \o Tail(todo), Sees, NEW at, at # <<>>
  PROVE  /\ Occurrences(seen, at) \in Nat /\ Due(at) \in Nat /\ Count(todo, "mutability", at) \in Nat
         /\ Count(T, "visit", at) \in Nat /\ Count(T, "mutability", at) \in Nat
         /\ First("visit", at) \in {0, 1} /\ First("mutability", at) \in {0, 1}
         /\ Due(at)' = Due(at) + Count(T, "visit", at)
         /\ Occurrences(seen', at) = Occurrences(seen, at) + First("visit", at)
         /\ Count(todo', "mutability", at) + First("mutability", at) = Count(todo, "mutability", at) + Count(T, "mutability", at)
         /\ Count(todo', "mutability", at) \in Nat
         /\ IsSeq(seen')
<1>1. PICK h, u : h = <<Head(todo)>> /\ u = Tail(todo)
  OBVIOUS
<1>2. IsSeq(u) /\ IsSeq(h)
  BY <1>1, Taken, Ranges
<1>3. ASSUME NEW do
      PROVE  /\ Count(todo, do, at) = Count(h, do, at) + Count(u, do, at)
             /\ Count(todo', do, at) = Count(T, do, at) + Count(u, do, at)
             /\ Count(h, do, at) \in Nat /\ Count(u, do, at) \in Nat /\ Count(T, do, at) \in Nat
             /\ Count(h, do, at) = First(do, at)
  <2>1. Count(todo, do, at) = Count(<<Head(todo)>>, do, at) + Count(Tail(todo), do, at)
    BY CountTail
  <2>2. Count(T \o u, do, at) = Count(T, do, at) + Count(u, do, at)
    BY <1>2, CountJoined
  <2>3. Count(h, do, at) \in Nat /\ Count(u, do, at) \in Nat /\ Count(T, do, at) \in Nat
    BY <1>2, Counted
  <2>4. todo' = T \o u
    BY <1>1
  <2> QED
    BY <1>1, <2>1, <2>2, <2>3, <2>4 DEF First
<1>4. ASSUME NEW do PROVE /\ First(do, at) \in {0, 1}
                          /\ Head(todo).do = do /\ Head(todo).at = at => First(do, at) = 1
                          /\ ~(Head(todo).do = do /\ Head(todo).at = at) => First(do, at) = 0
  BY CountOne DEF First
<1>5. Occurrences(seen, at) \in Nat
  BY Occurs
<1>6. Occurrences(seen', at) = Occurrences(seen, at) + First("visit", at) /\ IsSeq(seen')
  <2>1. CASE Head(todo).do = "visit" /\ Head(todo).at = at
    <3>1. seen' = Append(seen, at)
      BY <2>1 DEF Sees, At
    <3>2. Occurrences(Append(seen, at), at) = Occurrences(seen, at) + 1 /\ IsSeq(Append(seen, at))
      BY Occurs
    <3> QED
      BY <1>4, <2>1, <3>1, <3>2
  <2>2. CASE ~(Head(todo).do = "visit" /\ Head(todo).at = at)
    <3>1. First("visit", at) = 0
      BY <1>4, <2>2
    <3>2. CASE Head(todo).do = "visit" /\ At # <<>>
      <4>1. PICK x : x = At
        OBVIOUS
      <4>2. seen' = Append(seen, x) /\ x # at
        BY <2>2, <3>2, <4>1 DEF Sees, At
      <4>3. Occurrences(Append(seen, x), at) = Occurrences(seen, at) /\ IsSeq(Append(seen, x))
        BY <4>2, Occurs
      <4> QED
        BY <1>5, <3>1, <4>2, <4>3
    <3>3. CASE ~(Head(todo).do = "visit" /\ At # <<>>)
      <4>1. seen' = seen
        BY <3>3 DEF Sees
      <4> QED
        BY <1>5, <3>1, <4>1
    <3> QED
      BY <3>2, <3>3
  <2> QED
    BY <2>1, <2>2
<1>7. Due(at)' = Due(at) + Count(T, "visit", at) /\ Due(at) \in Nat
  <2>1. PICK d : d = Due(at)'
    OBVIOUS
  <2>2. d = Occurrences(seen', at) + Count(todo', "visit", at)
    BY <2>1 DEF Due
  <2>3. PICK k, l : k = Occurrences(seen', at) /\ l = Count(todo', "visit", at)
    OBVIOUS
  <2>4. k = Occurrences(seen, at) + First("visit", at) /\ d = k + l
    BY <1>6, <2>2, <2>3
  <2>5. l = Count(T, "visit", at) + Count(u, "visit", at)
    BY <1>3, <2>3
  <2>6. Due(at) = Occurrences(seen, at) + (First("visit", at) + Count(u, "visit", at))
    BY <1>3 DEF Due
  <2>7. First("visit", at) \in Nat /\ Count(u, "visit", at) \in Nat /\ Count(T, "visit", at) \in Nat
    BY <1>3
  <2>8. d = Due(at) + Count(T, "visit", at) /\ Due(at) \in Nat
    BY <1>5, <2>4, <2>5, <2>6, <2>7
  <2> QED
    BY <2>1, <2>8
<1>8. /\ Count(todo', "mutability", at) + First("mutability", at) = Count(todo, "mutability", at) + Count(T, "mutability", at)
      /\ Count(todo', "mutability", at) \in Nat /\ Count(todo, "mutability", at) \in Nat
  <2>1. /\ Count(todo, "mutability", at) = First("mutability", at) + Count(u, "mutability", at)
        /\ Count(todo', "mutability", at) = Count(T, "mutability", at) + Count(u, "mutability", at)
        /\ First("mutability", at) \in Nat /\ Count(u, "mutability", at) \in Nat /\ Count(T, "mutability", at) \in Nat
    BY <1>3
  <2> QED
    BY <2>1
<1> QED
  BY <1>3, <1>4, <1>5, <1>6, <1>7, <1>8

\* What T must visit for the step to keep the balance.
GrantsTop(T, t) == Count(T, "visit", t.at) = IF t.at[1] \in typechecked' /\ t.at[1] \notin typechecked THEN 1 ELSE 0
GrantsPart(T, p, i) ==
  IF SkipStep(Value(p), i) THEN Count(T, "visit", Append(p.at, i)) = 0
  ELSE IF Refuses(Value(p)) /\ i = 1
       THEN Count(T, "visit", Append(p.at, i)) + Count(T, "mutability", p.at)
            = First("visit", p.at) + First("visit", p.at) + First("mutability", p.at)
       ELSE Count(T, "visit", Append(p.at, i)) = First("visit", p.at)
Grants(T) ==
  /\ \A t \in Tops(module) : GrantsTop(T, t)
  /\ \A p \in Places : \A i \in DOMAIN Value(p).of : GrantsPart(T, p, i)

\* No place is without a position.
LEMMA PlacesAt ==
  ASSUME module \in Program, NEW p \in Places
  PROVE  /\ IsSeq(p.at) /\ p.at # <<>> /\ Len(p.at) \in Nat \ {0}
         /\ \A i : Append(p.at, i) # <<>> /\ Len(Append(p.at, i)) = Len(p.at) + 1
<1>1. Goes(p)
  BY Family
<1>2. IsSeq(p.at) /\ Len(p.at) \in Nat \ {0}
  BY <1>1, SeqIs DEF Goes
<1>3. p.at # <<>>
  BY <1>2
<1>4. \A i : Append(p.at, i) # <<>>
  BY <1>2, AppendTells
<1>5. \A i : Len(Append(p.at, i)) = Len(p.at) + 1
  BY <1>2, Appended
<1> QED
  BY <1>2, <1>3, <1>4, <1>5

\* A step that grants this keeps the balance.
LEMMA GrantsKeep ==
  ASSUME IInv, Balanced, todo # <<>>, NEW T, IsSeq(T), todo' = T \o Tail(todo), Sees,
         module' = module, typechecked \subseteq typechecked', typechecked' \subseteq Names, Grants(T)
  PROVE  Balanced'
<1>1. module \in Program /\ IsSeq(todo) /\ IsSeq(seen)
  BY DEF IInv, Balanced
<1>2. Names' = Names /\ Places' = Places /\ Tops(module)' = Tops(module)
  BY Static
<1>3. IsSeq(seen)'
  <2>1. <<1>> # <<>>
    OBVIOUS
  <2>2. IsSeq(seen')
    BY <1>1, <2>1, Moves
  <2> QED
    BY <2>2 DEF IsSeq
<1>4. ASSUME NEW t \in Tops(module) PROVE BalancedTop(t)'
  <2>1. t.at # <<>>
    BY <1>1, PlacesAre, PlacesAt
  <2>2. PICK a : a = t.at
    OBVIOUS
  <2>3. Due(a)' = Due(a) + Count(T, "visit", a)
    BY <1>1, <2>1, <2>2, Moves
  <2>4. Due(a) = IF a[1] \in Names \ typechecked THEN 0 ELSE 1
    BY <2>2 DEF Balanced, BalancedTop
  <2>5. Count(T, "visit", a) = IF a[1] \in typechecked' /\ a[1] \notin typechecked THEN 1 ELSE 0
    BY <2>2 DEF Grants, GrantsTop
  <2>6. PICK d, S : d = Due(a)' /\ S = typechecked'
    OBVIOUS
  <2>7. d = IF a[1] \in Names \ S THEN 0 ELSE 1
    BY <2>3, <2>4, <2>5, <2>6
  <2> QED
    BY <1>2, <2>2, <2>6, <2>7 DEF BalancedTop
<1>5. ASSUME NEW p \in Places, NEW i \in DOMAIN Value(p).of PROVE BalancedPart(p, i)'
  <2>1. p.at # <<>> /\ Append(p.at, i) # <<>>
    BY <1>1, PlacesAt
  <2>2. PICK a, c : a = p.at /\ c = Append(p.at, i)
    OBVIOUS
  <2>3. /\ Due(c)' = Due(c) + Count(T, "visit", c)
        /\ Due(c) \in Nat /\ Count(T, "visit", c) \in Nat
    BY <1>1, <2>1, <2>2, Moves
  <2>4. /\ Occurrences(seen, a) \in Nat /\ Count(todo, "mutability", a) \in Nat
        /\ Count(T, "mutability", a) \in Nat
        /\ First("visit", a) \in {0, 1} /\ First("mutability", a) \in {0, 1}
        /\ Occurrences(seen', a) = Occurrences(seen, a) + First("visit", a)
        /\ Count(todo', "mutability", a) + First("mutability", a) = Count(todo, "mutability", a) + Count(T, "mutability", a)
        /\ Count(todo', "mutability", a) \in Nat
    BY <1>1, <2>1, <2>2, Moves
  <2>5. PICK d, o, k : d = Due(c)' /\ o = Occurrences(seen', a) /\ k = Count(todo', "mutability", a)
    OBVIOUS
  <2>6. PICK skip, refuse : skip = SkipStep(Value(p), i) /\ refuse = (Refuses(Value(p)) /\ i = 1)
    OBVIOUS
  <2>7. IF skip THEN Due(c) = 0
        ELSE IF refuse THEN Due(c) + Count(todo, "mutability", a) = Occurrences(seen, a) + Occurrences(seen, a)
        ELSE Due(c) = Occurrences(seen, a)
    BY <2>2, <2>6, Zenon DEF Balanced, BalancedPart
  <2>8. IF skip THEN Count(T, "visit", c) = 0
        ELSE IF refuse THEN Count(T, "visit", c) + Count(T, "mutability", a) = First("visit", a) + First("visit", a) + First("mutability", a)
        ELSE Count(T, "visit", c) = First("visit", a)
    BY <2>2, <2>6, Zenon DEF Grants, GrantsPart
  <2>9. IF skip THEN d = 0 ELSE IF refuse THEN d + k = o + o ELSE d = o
    <3>1. d = Due(c) + Count(T, "visit", c)
      BY <2>3, <2>5
    <3>2. /\ o = Occurrences(seen, a) + First("visit", a)
          /\ k + First("mutability", a) = Count(todo, "mutability", a) + Count(T, "mutability", a)
          /\ k \in Nat
      BY <2>4, <2>5
    <3>3. CASE skip
      BY <2>7, <2>8, <3>1, <3>3
    <3>4. CASE ~skip /\ refuse
      <4>1. Due(c) + Count(todo, "mutability", a) = Occurrences(seen, a) + Occurrences(seen, a)
        BY <2>7, <3>4
      <4>2. Count(T, "visit", c) + Count(T, "mutability", a) = First("visit", a) + First("visit", a) + First("mutability", a)
        BY <2>8, <3>4
      <4>3. PICK x, m, s, v, n, f, g : /\ x = Due(c) /\ m = Count(todo, "mutability", a) /\ s = Occurrences(seen, a)
                                       /\ v = Count(T, "visit", c) /\ n = Count(T, "mutability", a)
                                       /\ f = First("visit", a) /\ g = First("mutability", a)
        OBVIOUS
      <4>4. x \in Nat /\ m \in Nat /\ s \in Nat /\ v \in Nat /\ n \in Nat /\ f \in Nat /\ g \in Nat /\ k \in Nat
        BY <2>3, <2>4, <3>2, <4>3
      <4>5. x + m = s + s /\ v + n = f + f + g /\ d = x + v /\ o = s + f /\ k + g = m + n
        BY <3>1, <3>2, <4>1, <4>2, <4>3
      <4>6. d + k = o + o
        BY <4>4, <4>5
      <4> QED
        BY <3>4, <4>6
    <3>5. CASE ~skip /\ ~refuse
      BY <2>7, <2>8, <3>1, <3>2, <3>5
    <3> QED
      BY <3>3, <3>4, <3>5
  <2> QED
    BY <2>2, <2>5, <2>6, <2>9, Zenon DEF BalancedPart
<1> QED
  BY <1>2, <1>3, <1>4, <1>5 DEF Balanced

\* What the first task is counted as.
LEMMA FirstIs ==
  ASSUME NEW do, NEW at
  PROVE  /\ Head(todo).do = do /\ Head(todo).at = at => First(do, at) = 1
         /\ ~(Head(todo).do = do /\ Head(todo).at = at) => First(do, at) = 0
BY CountOne DEF First

\* The values in two places have different positions, and none has the position of a top.
LEMMA PartsDiffer ==
  ASSUME module \in Program, NEW p \in Places
  PROVE  /\ \A q \in Places : \A i, j : Append(p.at, i) = Append(q.at, j) => p = q /\ i = j
         /\ \A t \in Tops(module) : \A i \in DOMAIN Value(p).of : t.at # Append(p.at, i)
<1>1. ASSUME NEW q \in Places, NEW i, NEW j, Append(p.at, i) = Append(q.at, j) PROVE p = q /\ i = j
  <2>1. IsSeq(p.at) /\ IsSeq(q.at)
    BY PlacesAt
  <2>2. p.at = q.at /\ i = j
    BY <1>1, <2>1, AppendedSame
  <2> QED
    BY <2>2, Unique
<1>2. ASSUME NEW t \in Tops(module), NEW i \in DOMAIN Value(p).of, t.at = Append(p.at, i) PROVE FALSE
  <2>1. PICK c : c = Child(p, i)
    OBVIOUS
  <2>2. Goes(p) /\ c \in Places
    BY <2>1, Family
  <2>3. c.at = Append(p.at, i) /\ Len(c.way) = Len(p.way) + 1 /\ Len(p.way) \in Nat \ {0}
    BY <2>1, <2>2, ChildIs
  <2>4. t \in Places /\ Len(t.way) = 1
    BY PlacesAre, TopIs
  <2>5. t.way = c.way
    <3>1. t.at = c.at
      BY <1>2, <2>3
    <3>2. t = c
      BY <2>2, <2>4, <3>1, Unique, Zenon
    <3> QED
      BY <3>2
  <2>6. PICK n : n = Len(p.way)
    OBVIOUS
  <2>7. n + 1 = 1 /\ n \in Nat \ {0}
    BY <2>3, <2>4, <2>5, <2>6
  <2> QED
    BY <2>7
<1> QED
  BY <1>1, <1>2

\* The positions at which the values in v are visited.
Followed(v) == {i \in DOMAIN v.of : ~SkipStep(v, i)}

\* The visit of a place grants its values what they are owed.
LEMMA VisitGrants ==
  ASSUME module \in Program, NEW p \in Places, Head(todo).do = "visit", Head(todo).at = p.at,
         NEW T, NEW m \in BOOLEAN, Lists(T, p.at, Followed(Value(p)), m), Refuses(Value(p)) => m, typechecked' = typechecked
  PROVE  Grants(T)
<1> DEFINE I == Followed(Value(p))
<1>1. ASSUME NEW t \in Tops(module) PROVE GrantsTop(T, t)
  <2>1. t.at # <<>>
    BY PlacesAre, PlacesAt
  <2>2. \A i \in I : t.at # Append(p.at, i)
    BY PartsDiffer DEF Followed
  <2>3. Count(T, "visit", t.at) = 0
    BY <2>1, <2>2, Zenon DEF Lists
  <2> QED
    BY <2>3 DEF GrantsTop
<1>2. ASSUME NEW q \in Places, NEW i \in DOMAIN Value(q).of, q # p PROVE GrantsPart(T, q, i)
  <2>1. Append(q.at, i) # <<>> /\ \A j \in I : Append(q.at, i) # Append(p.at, j)
    BY <1>2, PlacesAt, PartsDiffer
  <2>2. Count(T, "visit", Append(q.at, i)) = 0
    BY <2>1, Zenon DEF Lists
  <2>3. q.at # p.at
    BY <1>2, Unique
  <2>4. Count(T, "mutability", q.at) = 0
    BY <2>3, Zenon DEF Lists
  <2>5. First("visit", q.at) = 0 /\ First("mutability", q.at) = 0
    BY <2>3, FirstIs
  <2> QED
    BY <2>2, <2>4, <2>5 DEF GrantsPart
<1>3. ASSUME NEW i \in DOMAIN Value(p).of PROVE GrantsPart(T, p, i)
  <2>1. First("visit", p.at) = 1 /\ First("mutability", p.at) = 0
    BY FirstIs
  <2>2. CASE SkipStep(Value(p), i)
    <3>1. i \notin I
      BY <2>2 DEF Followed
    <3>2. Append(p.at, i) # <<>> /\ \A j \in I : Append(p.at, i) # Append(p.at, j)
      BY <3>1, PlacesAt, PartsDiffer
    <3>3. Count(T, "visit", Append(p.at, i)) = 0
      BY <3>2, Zenon DEF Lists
    <3> QED
      BY <2>2, <3>3 DEF GrantsPart
  <2>3. CASE ~SkipStep(Value(p), i)
    <3>1. i \in I
      BY <2>3 DEF Followed
    <3>2. Count(T, "visit", Append(p.at, i)) = 1
      BY <3>1 DEF Lists
    <3>3. Refuses(Value(p)) => Count(T, "mutability", p.at) = 1
      BY DEF Lists
    <3> QED
      BY <2>1, <2>3, <3>2, <3>3 DEF GrantsPart
  <2> QED
    BY <2>2, <2>3
<1> QED
  BY <1>1, <1>2, <1>3 DEF Grants

\* What is neither a visit of a place nor the check of its mutability grants nothing.
LEMMA NothingGrants ==
  ASSUME module \in Program, Head(todo).do \notin {"visit", "mutability"} \/ (Head(todo).do = "visit" /\ Head(todo).at = <<>>),
         NEW T, NEW at, Lists(T, at, {}, FALSE), typechecked' = typechecked
  PROVE  Grants(T)
<1>1. ASSUME NEW a, a # <<>>
      PROVE  /\ Count(T, "visit", a) = 0 /\ Count(T, "mutability", a) = 0
             /\ First("visit", a) = 0 /\ First("mutability", a) = 0
  <2>1. Count(T, "visit", a) = 0 /\ Count(T, "mutability", a) = 0
    BY <1>1 DEF Lists
  <2>2. First("visit", a) = 0 /\ First("mutability", a) = 0
    BY <1>1, FirstIs
  <2> QED
    BY <2>1, <2>2
<1>2. ASSUME NEW t \in Tops(module) PROVE GrantsTop(T, t)
  <2>1. t.at # <<>>
    BY PlacesAre, PlacesAt
  <2> QED
    BY <1>1, <2>1 DEF GrantsTop
<1>3. ASSUME NEW q \in Places, NEW i \in DOMAIN Value(q).of PROVE GrantsPart(T, q, i)
  <2>1. q.at # <<>> /\ Append(q.at, i) # <<>>
    BY PlacesAt
  <2>2. Count(T, "visit", Append(q.at, i)) = 0
    BY <1>1, <2>1
  <2>3. Count(T, "mutability", q.at) = 0 /\ First("visit", q.at) = 0 /\ First("mutability", q.at) = 0
    BY <1>1, <2>1
  <2> QED
    BY <2>2, <2>3 DEF GrantsPart
<1> QED
  BY <1>2, <1>3 DEF Grants

\* The check of the mutability of a place grants the left side of a refused assignment its second visit.
LEMMA MutabilityGrants ==
  ASSUME module \in Program, NEW p \in Places, Head(todo).do = "mutability", Head(todo).at = p.at,
         NEW T, NEW I, I = (IF Refuses(Value(p)) THEN {1} ELSE {}), Lists(T, p.at, I, FALSE), I \subseteq DOMAIN Value(p).of,
         typechecked' = typechecked
  PROVE  Grants(T)
<1>1. ASSUME NEW t \in Tops(module) PROVE GrantsTop(T, t)
  <2>1. t.at # <<>>
    BY PlacesAre, PlacesAt
  <2>2. \A i \in I : t.at # Append(p.at, i)
    BY PartsDiffer
  <2>3. Count(T, "visit", t.at) = 0
    BY <2>1, <2>2, Zenon DEF Lists
  <2> QED
    BY <2>3 DEF GrantsTop
<1>2. \A a : Count(T, "mutability", a) = 0
  BY DEF Lists
<1>3. \A a : First("visit", a) = 0
  BY FirstIs
<1>4. ASSUME NEW q \in Places, NEW i \in DOMAIN Value(q).of, q # p PROVE GrantsPart(T, q, i)
  <2>1. Append(q.at, i) # <<>> /\ \A j : Append(q.at, i) # Append(p.at, j)
    <3>1. Append(q.at, i) # <<>>
      BY PlacesAt
    <3>2. \A j : Append(q.at, i) # Append(p.at, j)
      BY <1>4, PartsDiffer, Zenon
    <3> QED
      BY <3>1, <3>2
  <2>2. Count(T, "visit", Append(q.at, i)) = 0
    BY <2>1, Zenon DEF Lists
  <2>3. q.at # p.at
    BY <1>4, Unique
  <2>4. First("mutability", q.at) = 0
    BY <2>3, FirstIs
  <2> QED
    BY <1>2, <1>3, <2>2, <2>4 DEF GrantsPart
<1>5. ASSUME NEW i \in DOMAIN Value(p).of PROVE GrantsPart(T, p, i)
  <2>1. First("mutability", p.at) = 1
    BY FirstIs
  <2>2. CASE Refuses(Value(p)) /\ i = 1
    <3>1. Count(T, "visit", Append(p.at, i)) = 1
      BY <2>2 DEF Lists
    <3>2. ~SkipStep(Value(p), i)
      BY <2>2 DEF Refuses, Assignment, SkipStep
    <3> QED
      BY <1>2, <1>3, <2>1, <2>2, <3>1, <3>2 DEF GrantsPart
  <2>3. CASE ~(Refuses(Value(p)) /\ i = 1)
    <3>1. i \notin I
      BY <2>3
    <3>2. Append(p.at, i) # <<>> /\ \A j \in I : Append(p.at, i) # Append(p.at, j)
      BY <3>1, PlacesAt, PartsDiffer
    <3>3. Count(T, "visit", Append(p.at, i)) = 0
      BY <3>2, Zenon DEF Lists
    <3> QED
      BY <1>3, <2>3, <3>3 DEF GrantsPart
  <2> QED
    BY <2>2, <2>3
<1> QED
  BY <1>1, <1>4, <1>5 DEF Grants

\* A function that is met grants its body the one visit.
LEMMA EnterGrants ==
  ASSUME module \in Program, NEW g \in Names, g \notin typechecked, typechecked' = typechecked \cup {g},
         Head(todo).do = "visit",
         Head(todo).at = <<>> \/ \E p \in Places : Head(todo).at = p.at /\ Value(p).of = <<>>,
         NEW T, Lists(T, <<>>, IF Func(g).body = <<>> THEN {} ELSE {g}, FALSE)
  PROVE  Grants(T)
<1>1. Append(<<>>, g) = <<g>>
  OBVIOUS
<1>2. \A a : Count(T, "mutability", a) = 0
  BY DEF Lists
<1>3. \A a : a # <<>> /\ a # <<g>> => Count(T, "visit", a) = 0
  <2>1. ASSUME NEW a, a # <<>>, a # <<g>> PROVE Count(T, "visit", a) = 0
    <3>1. PICK I : I = IF Func(g).body = <<>> THEN {} ELSE {g}
      OBVIOUS
    <3>2. \A l \in I : a # Append(<<>>, l)
      BY <1>1, <2>1, <3>1
    <3>3. Lists(T, <<>>, I, FALSE)
      BY <3>1
    <3> QED
      BY <2>1, <3>2, <3>3, Zenon DEF Lists
  <2> QED
    BY <2>1
<1>4. Func(g).body # <<>> => Count(T, "visit", <<g>>) = 1
  BY <1>1 DEF Lists
<1>5. \A a : First("mutability", a) = 0
  BY FirstIs
<1>6. ASSUME NEW t \in Tops(module) PROVE GrantsTop(T, t)
  <2>1. t.at # <<>>
    BY PlacesAre, PlacesAt
  <2>2. CASE \E f \in Bodies(module) : t = [at |-> <<f.name>>, way |-> <<f.body[1]>>]
    <3>1. PICK f \in Bodies(module) : t = [at |-> <<f.name>>, way |-> <<f.body[1]>>]
      BY <2>2
    <3>2. t.at = <<f.name>> /\ t.at[1] = f.name
      BY <3>1
    <3>3. CASE f.name = g
      <4>1. f \in Range(module.functions) /\ f.body # <<>>
        BY DEF Bodies
      <4>2. Func(g) = f
        BY <3>3, <4>1, FuncIs, Program1
      <4>3. Count(T, "visit", t.at) = 1
        BY <1>4, <3>2, <3>3, <4>1, <4>2
      <4> QED
        BY <3>2, <3>3, <4>3 DEF GrantsTop
    <3>4. CASE f.name # g
      <4>1. t.at # <<g>>
        BY <3>2, <3>4
      <4>2. Count(T, "visit", t.at) = 0
        BY <1>3, <2>1, <4>1
      <4> QED
        BY <3>2, <3>4, <4>2 DEF GrantsTop
    <3> QED
      BY <3>3, <3>4
  <2>3. CASE \E i \in DOMAIN module.variables : t = [at |-> <<NoFunction, i>>, way |-> <<module.variables[i]>>]
    <3>1. PICK i \in DOMAIN module.variables : t = [at |-> <<NoFunction, i>>, way |-> <<module.variables[i]>>]
      BY <2>3
    <3>2. t.at = <<NoFunction, i>> /\ t.at[1] = NoFunction /\ Len(t.at) = 2 /\ Len(<<g>>) = 1
      BY <3>1
    <3>3. t.at # <<g>> /\ t.at[1] # g
      BY <3>2, Program1
    <3>4. Count(T, "visit", t.at) = 0
      BY <1>3, <2>1, <3>3
    <3>5. ~(t.at[1] \in typechecked' /\ t.at[1] \notin typechecked)
      BY <3>3
    <3> QED
      BY <3>4, <3>5 DEF GrantsTop
  <2> QED
    BY <2>2, <2>3, TopIs
<1>7. ASSUME NEW q \in Places, NEW i \in DOMAIN Value(q).of PROVE GrantsPart(T, q, i)
  <2>1. /\ q.at # <<>> /\ Append(q.at, i) # <<>>
        /\ Len(q.at) \in Nat \ {0} /\ Len(Append(q.at, i)) = Len(q.at) + 1
    BY PlacesAt
  <2>2. Append(q.at, i) # <<g>>
    <3>1. Len(<<g>>) = 1
      OBVIOUS
    <3>2. PICK n : n = Len(q.at)
      OBVIOUS
    <3>3. n + 1 # 1 /\ Len(Append(q.at, i)) = n + 1
      BY <2>1, <3>2
    <3> QED
      BY <3>1, <3>3
  <2>3. Count(T, "visit", Append(q.at, i)) = 0
    BY <1>3, <2>1, <2>2
  <2>4. Head(todo).at # q.at
    <3>1. ASSUME NEW p \in Places, Value(p).of = <<>>, p.at = q.at PROVE FALSE
      <4>1. p = q
        BY <3>1, Unique
      <4>2. DOMAIN <<>> = {}
        OBVIOUS
      <4> QED
        BY <3>1, <4>1, <4>2
    <3> QED
      BY <2>1, <3>1
  <2>5. First("visit", q.at) = 0
    BY <2>4, FirstIs
  <2> QED
    BY <1>2, <1>5, <2>3, <2>5 DEF GrantsPart
<1> QED
  BY <1>6, <1>7 DEF Grants

-----------------------------------------------------------------------------
(* What the steps grant *)

\* The first task, when it is one of a place, is at a place of the module.
LEMMA PlaceOf ==
  ASSUME IInv, todo # <<>>, Head(todo).do \notin {"restore", "case"}, Head(todo).do = "visit" => It.k # "func"
  PROVE  \E p \in Places : Head(todo).at = p.at /\ At = p.at /\ It = Value(p) /\ IsSeq(p.at) /\ p.at # <<>> /\ Of(Head(todo), p)
<1>1. \A g : Head(todo) # FuncVisit(g)
  BY DEF It, FuncVisit, Visit, Task
<1>2. PICK p \in Reached : Of(Head(todo), p) /\ At = p.at /\ It = Value(p)
  BY <1>1, AtPlace
<1>3. p \in Places /\ module \in Program
  BY DEF Reached, IInv
<1>4. IsSeq(p.at) /\ p.at # <<>>
  BY <1>3, PlacesAt
<1> QED
  BY <1>2, <1>3, <1>4 DEF At

\* A visit of a place that leads to what it must keeps the balance.
LEMMA PlaceVisited ==
  ASSUME IInv, Balanced, todo # <<>>, Head(todo).do = "visit", It.k # "func",
         NEW T, NEW m \in BOOLEAN, Lists(T, At, Followed(It), m), Refuses(It) => m,
         todo' = T \o Tail(todo), seen' = Append(seen, At), module' = module, typechecked' = typechecked
  PROVE  Balanced'
<1>1. PICK p \in Places : Head(todo).at = p.at /\ At = p.at /\ It = Value(p) /\ p.at # <<>>
  BY PlaceOf
<1>2. module \in Program /\ typechecked \subseteq Names
  BY DEF IInv
<1>3. Grants(T)
  BY <1>1, <1>2, VisitGrants
<1>4. Sees
  BY <1>1 DEF Sees
<1>5. IsSeq(T)
  BY DEF Lists
<1> QED
  BY <1>2, <1>3, <1>4, <1>5, GrantsKeep

\* All the values, where none is skipped.
LEMMA ListsAll ==
  ASSUME NEW v, NEW at, IsSeq(at), IsSeq(v.of), v.k \notin {"switch", "while", "index"}
  PROVE  Lists(All(v, at), at, Followed(v), FALSE)
<1>1. Len(v.of) \in Nat /\ DOMAIN v.of = 1..Len(v.of)
  BY SeqIs
<1>2. Lists(Parts(v, at, 1, Len(v.of)), at, 1..Len(v.of), FALSE)
  BY <1>1, ListsParts
<1>3. Followed(v) = 1..Len(v.of)
  BY <1>1 DEF Followed, SkipStep
<1> QED
  BY <1>2, <1>3 DEF All

\* The check of a value.
LEMMA ListsCheck ==
  ASSUME NEW v, NEW at
  PROVE  Lists(Check(v, at), at, {}, FALSE)
<1>1. PICK t : t = Task("check", v, at)
  OBVIOUS
<1>2. t.do = "check" /\ Check(v, at) = <<t>>
  BY <1>1 DEF Check, Task
<1>3. Lists(<<t>>, at, {}, FALSE)
  BY <1>2, ListsOne
<1> QED
  BY <1>2, <1>3

\* The visits that lead to all the values, or to none.
LEMMA SimpleBalance ==
  ASSUME IInv, Balanced, NEW kinds, NEW T, IsSimple(kinds, T)
  PROVE  Balanced'
<1>1. /\ todo # <<>> /\ Head(todo).do = "visit" /\ It.k \in kinds
      /\ todo' = T \o Tail(todo) /\ seen' = Append(seen, At) /\ module' = module /\ typechecked' = typechecked
  BY DEF IsSimple, Visiting, Doing, Descend, context
<1>2. It.k \notin {"func", "block", "switch", "while"} /\ ~Refuses(It)
  BY <1>1 DEF IsSimple, SimpleKinds, Refuses, Assignment
<1>3. IsSeq(It.of)
  BY <1>1, <1>2, Visited
<1>4. PICK at, F, a, c : at = At /\ F = Followed(It) /\ a = All(It, At) /\ c = Check(It, At)
  OBVIOUS
<1>5. IsSeq(at)
  BY <1>1, <1>2, <1>4, PlaceOf
<1>6. It.k # "index" => Lists(a, at, F, FALSE)
  BY <1>2, <1>3, <1>4, <1>5, ListsAll
<1>7. Lists(c, at, {}, FALSE)
  BY <1>4, ListsCheck
<1>8. It.of = <<>> \/ It.k = "index" => F = {}
  BY <1>4 DEF Followed, SkipStep
<1>9. Lists(T, at, F, FALSE)
  <2>1. CASE T = <<>> /\ (It.of = <<>> \/ It.k = "index")
    BY <1>8, <2>1, ListsOne
  <2>2. CASE T = c /\ (It.of = <<>> \/ It.k = "index")
    BY <1>7, <1>8, <2>2
  <2>3. CASE T = a /\ It.k # "index"
    BY <1>6, <2>3
  <2>4. CASE T = a \o c /\ It.k # "index"
    <3>1. Lists(a \o c, at, F \cup {}, FALSE \/ FALSE)
      BY <1>5, <1>6, <1>7, <2>4, ListsJoined
    <3> QED
      BY <2>4, <3>1
  <2>5. CASE T = c \o a /\ It.k # "index"
    <3>1. Lists(c \o a, at, {} \cup F, FALSE \/ FALSE)
      BY <1>5, <1>6, <1>7, <2>5, ListsJoined
    <3> QED
      BY <2>5, <3>1
  <2> QED
    BY <1>4, <2>1, <2>2, <2>3, <2>4, <2>5 DEF IsSimple
<1> QED
  BY <1>1, <1>2, <1>4, <1>9, PlaceVisited

\* Not the step of a for.
LEMMA WhileBalance ==
  ASSUME IInv, Balanced, VisitWhileLoop
  PROVE  Balanced'
<1>1. /\ todo # <<>> /\ Head(todo).do = "visit" /\ It.k = "while"
      /\ todo' = Parts(It, At, 1, 2) \o Tail(todo) /\ seen' = Append(seen, At) /\ module' = module /\ typechecked' = typechecked
  BY DEF VisitWhileLoop, Visiting, Doing, Descend, context
<1>2. WellFormed(It, module) /\ IsSeq(It.of)
  BY <1>1, Visited
<1>3. Len(It.of) \in {2, 3} /\ DOMAIN It.of = 1..Len(It.of)
  BY <1>1, <1>2, SeqIs DEF WellFormed
<1>4. Followed(It) = 1..2
  <2>1. \A j : SkipStep(It, j) <=> j = 3
    BY <1>1 DEF SkipStep
  <2>2. \A n \in {2, 3} : {j \in 1..n : j # 3} = 1..2
    OBVIOUS
  <2> QED
    BY <1>3, <2>1, <2>2, Zenon DEF Followed
<1>5. IsSeq(At)
  BY <1>1, PlaceOf
<1>6. PICK T, F : T = Parts(It, At, 1, 2) /\ F = Followed(It)
  OBVIOUS
<1>7. Lists(T, At, F, FALSE)
  BY <1>4, <1>5, <1>6, ListsParts
<1>8. ~Refuses(It)
  BY <1>1 DEF Refuses, Assignment
<1> QED
  BY <1>1, <1>6, <1>7, <1>8, PlaceVisited

\* Not the default case.
LEMMA SwitchBalance ==
  ASSUME IInv, Balanced, VisitSwitch
  PROVE  Balanced'
<1>1. /\ todo # <<>> /\ Head(todo).do = "visit" /\ It.k = "switch"
      /\ todo' = (Parts(It, At, 1, 1) \o Cases(It, At)) \o Tail(todo)
      /\ seen' = Append(seen, At) /\ module' = module /\ typechecked' = typechecked
  BY DEF VisitSwitch, Visiting, Doing, Descend, context
<1>2. WellFormed(It, module) /\ IsSeq(It.of)
  BY <1>1, Visited
<1>3. It.cases \in Nat /\ It.cases < Len(It.of) /\ DOMAIN It.of = 1..Len(It.of) /\ Len(It.of) \in Nat
  BY <1>1, <1>2, SeqIs DEF WellFormed
<1>4. PICK A, B, F, at : A = Parts(It, At, 1, 1) /\ B = Cases(It, At) /\ F = Followed(It) /\ at = At
  OBVIOUS
<1>5. IsSeq(at)
  BY <1>1, <1>4, PlaceOf
<1>6. PICK I, J : I = 1..1 /\ J = 2..(It.cases + 1)
  OBVIOUS
<1>7. F = I \cup J /\ I \cap J = {}
  <2>1. \A j : SkipStep(It, j) <=> j > It.cases + 1
    BY <1>1 DEF SkipStep
  <2> QED
    BY <1>3, <1>4, <1>6, <2>1 DEF Followed
<1>8. Lists(A, at, I, FALSE)
  BY <1>4, <1>5, <1>6, ListsParts
<1>9. Lists(B, at, J, FALSE)
  BY <1>3, <1>4, <1>5, <1>6, ListsCases
<1>10. Lists(A \o B, at, I \cup J, FALSE \/ FALSE)
  BY <1>5, <1>7, <1>8, <1>9, ListsJoined
<1>11. PICK T : T = A \o B
  OBVIOUS
<1>12. Lists(T, at, F, FALSE)
  BY <1>7, <1>10, <1>11
<1>13. ~Refuses(It)
  BY <1>1 DEF Refuses, Assignment
<1> QED
  BY <1>1, <1>4, <1>11, <1>12, <1>13, PlaceVisited

\* The values in a block, and the end of an unsafe one.
LEMMA BlockBalance ==
  ASSUME IInv, Balanced, VisitBlock
  PROVE  Balanced'
<1>1. /\ todo # <<>> /\ Head(todo).do = "visit" /\ It.k = "block"
      /\ seen' = Append(seen, At) /\ module' = module /\ typechecked' = typechecked
  BY DEF VisitBlock, Visiting, Doing
<1>2. IsSeq(It.of)
  BY <1>1, Visited
<1>3. PICK A, R, r, F, at : /\ A = All(It, At) /\ F = Followed(It) /\ at = At
                            /\ r = Task("restore", <<currentFunction, unsafeContext>>, At)
                            /\ R = (IF It.unsafe THEN <<r>> ELSE <<>>)
  OBVIOUS
<1>4. IsSeq(at)
  BY <1>1, <1>3, PlaceOf
<1>5. Lists(A, at, F, FALSE)
  <2>1. It.k \notin {"switch", "while", "index"}
    BY <1>1
  <2> QED
    BY <1>2, <1>3, <1>4, <2>1, ListsAll
<1>6. Lists(R, at, {}, FALSE)
  <2>1. r.do = "restore"
    BY <1>3 DEF Task
  <2>2. Lists(<<>>, at, {}, FALSE) /\ Lists(<<r>>, at, {}, FALSE)
    BY <2>1, ListsOne
  <2> QED
    BY <1>3, <2>2
<1>7. PICK T : T = A \o R
  OBVIOUS
<1>8. Lists(T, at, F, FALSE)
  <2>1. Lists(A \o R, at, F \cup {}, FALSE \/ FALSE)
    BY <1>4, <1>5, <1>6, ListsJoined
  <2> QED
    BY <1>7, <2>1
<1>9. todo' = T \o Tail(todo)
  BY <1>3, <1>7, Zenon DEF VisitBlock
<1>10. ~Refuses(It) /\ It.k # "func"
  BY <1>1 DEF Refuses, Assignment
<1> QED
  BY <1>1, <1>3, <1>8, <1>9, <1>10, PlaceVisited

\* The arguments of a call, and the check of its mutability.
LEMMA CallBalance ==
  ASSUME IInv, Balanced, VisitCall
  PROVE  Balanced'
<1>1. /\ todo # <<>> /\ Head(todo).do = "visit" /\ It.k = "call" /\ It.form = "func"
      /\ seen' = Append(seen, At) /\ module' = module /\ typechecked' = typechecked
  BY DEF VisitCall, Visiting, Doing, Descend, context
<1>2. WellFormed(It, module) /\ IsSeq(It.of)
  BY <1>1, Visited
<1>3. PICK v, at, A, B, C, D, F, t, u :
        /\ v = It /\ at = At /\ F = Followed(It) /\ t = FuncVisit(It.f) /\ u = Task("mutability", It, At)
        /\ A = Check(It, At) /\ B = <<t>> /\ C = (IF It.of = <<>> THEN <<>> ELSE <<u>>) /\ D = All(It, At)
  OBVIOUS
<1>4. todo' = (A \o B \o C \o D) \o Tail(todo)
  BY <1>3, Zenon DEF VisitCall, Descend, FuncVisit
<1>5. IsSeq(at)
  BY <1>1, <1>3, PlaceOf
<1>6. Lists(A, at, {}, FALSE)
  BY <1>3, ListsCheck
<1>7. Lists(B, at, {}, FALSE)
  <2>1. t.do = "visit" /\ t.at = <<>>
    BY <1>3 DEF FuncVisit, Visit, Task
  <2> QED
    BY <1>3, <2>1, ListsOne
<1>8. PICK m \in BOOLEAN : m = (It.of # <<>>)
  OBVIOUS
<1>9. Lists(C, at, {}, m)
  <2>1. u.do = "mutability" /\ u.at = at
    BY <1>3 DEF Task
  <2>2. Lists(<<>>, at, {}, FALSE) /\ Lists(<<u>>, at, {}, TRUE)
    BY <2>1, ListsOne
  <2> QED
    BY <1>3, <1>8, <2>2
<1>10. Lists(D, at, F, FALSE)
  <2>1. It.k \notin {"switch", "while", "index"}
    BY <1>1
  <2> QED
    BY <1>2, <1>3, <1>5, <2>1, ListsAll
<1>11. PICK X, Y, T : X = A \o B /\ Y = X \o C /\ T = Y \o D
  OBVIOUS
<1>12. Lists(X, at, {}, FALSE)
  <2>1. Lists(A \o B, at, {} \cup {}, FALSE \/ FALSE)
    BY <1>5, <1>6, <1>7, ListsJoined
  <2> QED
    BY <1>11, <2>1
<1>13. Lists(Y, at, {}, m)
  <2>1. Lists(X \o C, at, {} \cup {}, FALSE \/ m)
    BY <1>5, <1>9, <1>12, ListsJoined
  <2> QED
    BY <1>11, <2>1
<1>14. Lists(T, at, F, m)
  <2>1. Lists(Y \o D, at, {} \cup F, m \/ FALSE)
    BY <1>5, <1>10, <1>13, ListsJoined
  <2>2. {} \cup F = F /\ (m \/ FALSE) = m
    OBVIOUS
  <2> QED
    BY <1>11, <2>1, <2>2
<1>15. Refuses(It) => m
  BY <1>1, <1>2, <1>8 DEF WellFormed, Refuses, Assignment
<1>16. todo' = T \o Tail(todo) /\ It.k # "func"
  BY <1>1, <1>4, <1>11
<1> QED
  BY <1>1, <1>3, <1>14, <1>15, <1>16, PlaceVisited

\* What only reports, or ends a context, owes nothing.
LEMMA PoppedBalance ==
  ASSUME IInv, Balanced, todo # <<>>, Head(todo).do \notin {"visit", "mutability"},
         todo' = Tail(todo), seen' = seen, module' = module, typechecked' = typechecked
  PROVE  Balanced'
<1>1. module \in Program /\ typechecked \subseteq Names /\ IsSeq(todo)
  BY DEF IInv
<1>2. PICK T, s : T = <<>> /\ s = Tail(todo)
  OBVIOUS
<1>3. Lists(T, <<>>, {}, FALSE)
  BY <1>2, ListsOne
<1>4. Grants(T)
  BY <1>1, <1>3, NothingGrants
<1>5. IsSeq(T) /\ todo' = T \o Tail(todo)
  <2>1. IsSeq(s)
    BY <1>1, <1>2, Taken
  <2>2. <<>> \o s = s
    BY <2>1 DEF IsSeq
  <2> QED
    BY <1>2, <2>2, Ranges
<1>6. Sees
  BY DEF Sees
<1> QED
  BY <1>1, <1>4, <1>5, <1>6, GrantsKeep

\* The checks, and the ends of contexts.
LEMMA ChecksBalance ==
  ASSUME IInv, Balanced,
         \/ CheckVariable \/ CheckReferenceTo \/ CheckIndexExtract \/ CheckVariableDeclaration \/ CheckCase
         \/ CheckReturn \/ CheckEnumInit \/ CheckCallOfValue \/ CheckDereferenceTo \/ CheckCast \/ CheckCall
         \/ RefuseAssignment \/ CheckMutating \/ Leave
  PROVE  Balanced'
<1>1. ASSUME NEW checks, Report(checks)
      PROVE  todo' = Tail(todo) /\ seen' = seen /\ module' = module /\ typechecked' = typechecked
  BY <1>1 DEF Report, context
<1>2. ASSUME NEW do, Doing(do), do \notin {"visit", "mutability"}, NEW checks, Report(checks) PROVE Balanced'
  BY <1>1, <1>2, PoppedBalance DEF Doing
<1>3. ASSUME NEW kind, Checking(kind) PROVE Doing("check")
  BY <1>3 DEF Checking
<1>4. CASE CheckVariable \/ CheckReferenceTo \/ CheckIndexExtract \/ CheckVariableDeclaration \/ CheckReturn \/ CheckCallOfValue
  <2>1. PICK checks : Report(checks)
    BY <1>4, Zenon DEF CheckVariable, CheckReferenceTo, CheckIndexExtract, CheckVariableDeclaration, CheckReturn, CheckCallOfValue
  <2>2. Doing("check")
    BY <1>3, <1>4, Zenon DEF CheckVariable, CheckReferenceTo, CheckIndexExtract, CheckVariableDeclaration, CheckReturn, CheckCallOfValue
  <2> QED
    BY <1>2, <2>1, <2>2
<1>5. CASE CheckDereferenceTo \/ CheckCast \/ CheckCall \/ CheckEnumInit
  <2>1. PICK checks : Report(checks)
    BY <1>5, Zenon DEF CheckDereferenceTo, CheckCast, CheckCall, CheckEnumInit
  <2>2. Doing("check")
    BY <1>3, <1>5, Zenon DEF CheckDereferenceTo, CheckCast, CheckCall, CheckEnumInit
  <2> QED
    BY <1>2, <2>1, <2>2
<1>6. CASE CheckCase \/ RefuseAssignment \/ CheckMutating
  <2>1. PICK checks : Report(checks)
    BY <1>6, Zenon DEF CheckCase, RefuseAssignment, CheckMutating
  <2>2. PICK do : do \in {"case", "refuse", "mutating"} /\ Doing(do)
    BY <1>6 DEF CheckCase, RefuseAssignment, CheckMutating
  <2> QED
    BY <1>2, <2>1, <2>2
<1>7. CASE Leave
  <2>1. /\ todo # <<>> /\ Head(todo).do = "restore"
        /\ todo' = Tail(todo) /\ seen' = seen /\ module' = module /\ typechecked' = typechecked
    BY <1>7 DEF Leave, Doing
  <2> QED
    BY <2>1, PoppedBalance
<1> QED
  BY <1>4, <1>5, <1>6, <1>7

\* The left side of a refused assignment is visited again.
LEMMA MutabilityBalance ==
  ASSUME IInv, Balanced, CheckMutability
  PROVE  Balanced'
<1>1. todo # <<>> /\ Head(todo).do = "mutability" /\ seen' = seen /\ module' = module /\ typechecked' = typechecked
  BY DEF CheckMutability, Doing, context
<1>2. PICK p \in Places : Head(todo).at = p.at /\ At = p.at /\ It = Value(p) /\ IsSeq(p.at) /\ Of(Head(todo), p)
  BY <1>1, PlaceOf
<1>3. PICK v, at, A, B, P, t, u :
        /\ v = It /\ at = At /\ P = Parts(It, At, 1, 1) /\ t = Task("refuse", It, At) /\ u = Task("mutating", It, At)
        /\ A = (IF Refused(It) THEN P \o <<t>> ELSE <<>>)
        /\ B = (IF Assigns(It) THEN <<>> ELSE <<u>>)
  OBVIOUS
<1>4. PICK T : T = A \o B
  OBVIOUS
<1>5. todo' = T \o Tail(todo)
  BY <1>3, <1>4, Zenon DEF CheckMutability
<1>6. module \in Program /\ typechecked \subseteq Names /\ WellFormed(v, module) /\ v = Value(p) /\ at = p.at /\ IsSeq(at)
  BY <1>2, <1>3, Family DEF IInv
<1>7. v.k = "call" /\ v.form = "func" /\ (v.assigns => v.of # <<>>) /\ IsSeq(v.of)
  <2>1. v.k = "call" /\ v.form = "func"
    BY <1>1, <1>2, <1>3 DEF Of
  <2> QED
    BY <1>6, <2>1 DEF WellFormed, IsSeq
<1>8. Refuses(v) <=> Refused(v)
  BY <1>7 DEF Refuses, Refused, Assignment
<1>9. PICK I : I = (IF Refuses(v) THEN {1} ELSE {})
  OBVIOUS
<1>10. I \subseteq DOMAIN v.of
  <2>1. CASE Refuses(v)
    <3>1. v.of # <<>>
      BY <1>7, <1>8, <2>1 DEF Refused
    <3>2. 1 \in DOMAIN v.of
      BY <1>7, <3>1, Taken, SeqIs
    <3> QED
      BY <1>9, <2>1, <3>2
  <2>2. CASE ~Refuses(v)
    BY <1>9, <2>2
  <2> QED
    BY <2>1, <2>2
<1>11. t.do = "refuse" /\ u.do = "mutating"
  BY <1>3 DEF Task
<1>12. Lists(<<>>, at, {}, FALSE) /\ Lists(<<t>>, at, {}, FALSE) /\ Lists(<<u>>, at, {}, FALSE)
  BY <1>11, ListsOne
<1>13. Lists(A, at, I, FALSE)
  <2>1. CASE Refuses(v)
    <3>1. PICK J, R : J = 1..1 /\ R = <<t>>
      OBVIOUS
    <3>2. Lists(P, at, J, FALSE)
      BY <1>3, <1>6, <3>1, ListsParts
    <3>3. Lists(P \o R, at, J \cup {}, FALSE \/ FALSE)
      BY <1>6, <1>12, <3>1, <3>2, ListsJoined
    <3>4. A = P \o R /\ I = J
      BY <1>3, <1>8, <1>9, <2>1, <3>1
    <3> QED
      BY <3>3, <3>4
  <2>2. CASE ~Refuses(v)
    BY <1>3, <1>8, <1>9, <1>12, <2>2
  <2> QED
    BY <2>1, <2>2
<1>14. Lists(B, at, {}, FALSE)
  BY <1>3, <1>12
<1>15. Lists(T, at, I, FALSE)
  <2>1. Lists(A \o B, at, I \cup {}, FALSE \/ FALSE)
    BY <1>6, <1>13, <1>14, ListsJoined
  <2> QED
    BY <1>4, <2>1
<1>16. Grants(T)
  <2>1. Head(todo).at = p.at /\ Head(todo).do = "mutability"
    BY <1>1, <1>2
  <2>2. PICK w : w = Value(p)
    OBVIOUS
  <2>3. I = (IF Refuses(Value(p)) THEN {1} ELSE {}) /\ Lists(T, p.at, I, FALSE) /\ I \subseteq DOMAIN Value(p).of
    BY <1>6, <1>9, <1>10, <1>15
  <2> QED
    BY <1>1, <1>6, <2>1, <2>3, MutabilityGrants
<1>17. Sees /\ IsSeq(T)
  BY <1>1, <1>15 DEF Sees, Lists
<1> QED
  BY <1>1, <1>5, <1>6, <1>16, <1>17, GrantsKeep

\* A function that is met.
LEMMA FuncBalance ==
  ASSUME IInv, Balanced, VisitFunc
  PROVE  Balanced'
<1>1. /\ todo # <<>> /\ Head(todo).do = "visit" /\ It.k = "func" /\ Visiting({"func"})
      /\ seen' = IF At = <<>> THEN seen ELSE Append(seen, At)
  BY DEF VisitFunc, Visiting, Doing, SeeFunc
<1>2. It.f \in Names /\ module \in Program /\ typechecked \subseteq Names /\ IsSeq(todo)
  BY <1>1, FuncVisited DEF IInv
<1>3. Sees
  BY <1>1 DEF Sees
<1>4. Head(todo).at = <<>> \/ \E p \in Places : Head(todo).at = p.at /\ Value(p).of = <<>>
  <2>1. CASE \E g \in Names : Head(todo) = FuncVisit(g)
    <3>1. Head(todo).at = <<>>
      BY <2>1 DEF FuncVisit, Visit, Task
    <3> QED
      BY <3>1
  <2>2. CASE \A g \in Names : Head(todo) # FuncVisit(g)
    <3>1. Head(todo).do # "restore" /\ Head(todo).do # "case"
      BY <1>1
    <3>2. PICK p \in Reached : At = p.at /\ It = Value(p)
      BY <1>1, <2>2, <3>1, AtPlace
    <3>3. p \in Places /\ WellFormed(Value(p), module)
      BY <1>2, Family DEF Reached
    <3>4. Value(p).of = <<>>
      BY <1>1, <3>2, <3>3 DEF WellFormed
    <3> QED
      BY <3>2, <3>3, <3>4 DEF At
  <2> QED
    BY <2>1, <2>2
<1>5. CASE It.f \in typechecked
  <2>1. todo' = Tail(todo) /\ module' = module /\ typechecked' = typechecked
    BY <1>5 DEF VisitFunc, context
  <2>2. PICK T, s : T = <<>> /\ s = Tail(todo)
    OBVIOUS
  <2>3. IsSeq(T) /\ todo' = T \o Tail(todo)
    <3>1. IsSeq(s)
      BY <1>1, <1>2, <2>2, Taken
    <3>2. <<>> \o s = s
      BY <3>1 DEF IsSeq
    <3> QED
      BY <2>1, <2>2, <3>2, Ranges
  <2>4. Grants(T)
    <3>1. CASE Head(todo).at = <<>>
      <4>1. Lists(T, <<>>, {}, FALSE)
        BY <2>2, ListsOne
      <4> QED
        BY <1>1, <1>2, <2>1, <3>1, <4>1, NothingGrants
    <3>2. CASE \E p \in Places : Head(todo).at = p.at /\ Value(p).of = <<>>
      <4>1. PICK p \in Places : Head(todo).at = p.at /\ Value(p).of = <<>> /\ At = p.at
        BY <3>2 DEF At
      <4>2. Followed(Value(p)) = {}
        BY <4>1 DEF Followed
      <4>3. Lists(T, p.at, Followed(Value(p)), FALSE)
        BY <2>2, <4>2, ListsOne
      <4>4. ~Refuses(Value(p))
        <5>1. WellFormed(Value(p), module)
          BY <1>2, Family
        <5> QED
          BY <4>1, <5>1 DEF Refuses, Assignment, WellFormed
      <4> QED
        BY <1>1, <1>2, <2>1, <4>1, <4>3, <4>4, VisitGrants
    <3> QED
      BY <1>4, <3>1, <3>2
  <2> QED
    BY <1>1, <1>2, <1>3, <2>1, <2>3, <2>4, GrantsKeep
<1>6. CASE It.f \notin typechecked
  <2>1. EnterFunc(It.f, UnsafeBody(It.f))
    BY <1>6, Zenon DEF VisitFunc
  <2>2. PICK g, B, r : /\ g = It.f /\ B = [i \in DOMAIN Func(g).body |-> Visit(Func(g).body[i], <<g>>)]
                       /\ r = Task("restore", <<currentFunction, unsafeContext>>, At)
    OBVIOUS
  <2>3. todo' = B \o <<r>> \o Tail(todo) /\ module' = module /\ typechecked' = typechecked \cup {g}
    BY <2>1, <2>2 DEF EnterFunc
  <2>4. g \in Names /\ g \notin typechecked
    BY <1>2, <1>6, <2>2
  <2>5. PICK body, n : body = Func(g).body /\ n = Len(body)
    OBVIOUS
  <2>6. IsSeq(body) /\ n \in {0, 1} /\ DOMAIN body = 1..n
    <3>1. IsSeq(body) /\ Len(body) <= 1
      BY <1>2, <2>4, <2>5, FuncIs, Program1
    <3>2. Len(body) \in Nat /\ DOMAIN body = 1..Len(body)
      BY <3>1, SeqIs
    <3>3. \A k \in Nat : k <= 1 => k \in {0, 1}
      OBVIOUS
    <3> QED
      BY <2>5, <3>1, <3>2, <3>3
  <2>7. B = [i \in 1..n |-> Visit(body[i], <<g>>)]
    BY <2>2, <2>5, <2>6
  <2>8. IsSeq(B) /\ Len(B) = n /\ \A i \in 1..n : B[i].do = "visit" /\ B[i].at = <<g>>
    <3>1. \A i \in 1..n : B[i] = Visit(body[i], <<g>>)
      BY <2>7
    <3>2. \A i \in 1..n : B[i].do = "visit" /\ B[i].at = <<g>>
      <4>1. \A v, x : Visit(v, x).do = "visit" /\ Visit(v, x).at = x
        BY DEF Visit, Task
      <4>2. ASSUME NEW i \in 1..n PROVE B[i].do = "visit" /\ B[i].at = <<g>>
        <5>1. B[i] = Visit(body[i], <<g>>)
          BY <3>1
        <5> QED
          BY <4>1, <5>1
      <4> QED
        BY <4>2, Zenon
    <3>3. DOMAIN B = 1..n /\ B = [i \in 1..n |-> B[i]] /\ n \in Nat
      BY <2>6, <2>7
    <3>4. \A i \in 1..n : B[i] \in Range(B)
      BY <3>3, Zenon DEF Range
    <3>5. B \in Seq(Range(B)) /\ Len(B) = n
      BY <3>3, <3>4
    <3> QED
      BY <3>2, <3>5 DEF IsSeq
  <2>9. PICK I, e : I = (IF Func(g).body = <<>> THEN {} ELSE {g}) /\ e = <<>>
    OBVIOUS
  <2>10. n = 0 <=> Func(g).body = <<>>
    BY <2>5, <2>6 DEF IsSeq
  <2>11. IsSeq(e) /\ Append(e, g) = <<g>>
    BY <2>9, Ranges
  <2>12. Lists(B, e, I, FALSE)
    <3>1. \A k \in 1..Len(B) : B[k].do # "mutability"
      BY <2>8
    <3>2. \A k \in 1..Len(B) : B[k].do = "visit" => \E l \in I : B[k].at = Append(e, l)
      <4>1. ASSUME NEW k \in 1..n PROVE I = {g}
        <5>1. n # 0
          BY <2>6
        <5> QED
          BY <2>9, <2>10, <5>1
      <4>2. ASSUME NEW k \in 1..n PROVE \E l \in I : B[k].at = Append(e, l)
        BY <2>8, <2>11, <4>1, <4>2
      <4> QED
        BY <2>8, <4>2
    <3>3. ASSUME NEW l \in I
          PROVE  \E k \in 1..Len(B) : /\ B[k].do = "visit" /\ B[k].at = Append(e, l)
                                      /\ \A j \in 1..Len(B) : B[j].do = "visit" /\ B[j].at = Append(e, l) => j = k
      <4>1. l = g /\ n = 1
        BY <2>6, <2>9, <2>10
      <4>2. 1 \in 1..Len(B) /\ \A j \in 1..Len(B) : j = 1
        BY <2>8, <4>1
      <4>3. B[1].do = "visit" /\ B[1].at = Append(e, l)
        BY <2>8, <2>11, <4>1, <4>2
      <4> QED
        BY <4>2, <4>3
    <3> QED
      BY <2>8, <2>11, <3>1, <3>2, <3>3, ListsEach
  <2>13. PICK R, T : R = <<r>> /\ T = B \o R
    OBVIOUS
  <2>14. Lists(R, e, {}, FALSE)
    <3>1. r.do = "restore"
      BY <2>2 DEF Task
    <3> QED
      BY <2>13, <3>1, ListsOne
  <2>15. Lists(T, e, I, FALSE)
    <3>1. Lists(B \o R, e, I \cup {}, FALSE \/ FALSE)
      BY <2>11, <2>12, <2>14, ListsJoined
    <3> QED
      BY <2>13, <3>1
  <2>16. Grants(T)
    BY <1>1, <1>2, <1>4, <2>3, <2>4, <2>9, <2>15, EnterGrants
  <2>17. IsSeq(T) /\ todo' = T \o Tail(todo)
    BY <2>3, <2>13, <2>15 DEF Lists
  <2>18. typechecked \subseteq typechecked' /\ typechecked' \subseteq Names
    BY <1>2, <2>3, <2>4
  <2> QED
    BY <1>1, <1>3, <2>3, <2>16, <2>17, <2>18, GrantsKeep
<1> QED
  BY <1>5, <1>6

\* At the start one visit of every variable is owed, and nothing else.
LEMMA InitBalanced ==
  ASSUME Init
  PROVE  Balanced
<1>1. module \in Program /\ typechecked = {} /\ seen = <<>>
  BY DEF Init
<1>2. PICK vs, fs : vs = module.variables /\ fs = module.functions
  OBVIOUS
<1>3. IsSeq(vs) /\ IsSeq(fs)
  BY <1>1, <1>2, Program1
<1>4. PICK n, m : n = Len(vs) /\ m = Len(fs)
  OBVIOUS
<1>5. n \in Nat /\ DOMAIN vs = 1..n /\ m \in Nat /\ DOMAIN fs = 1..m
  BY <1>3, <1>4, SeqIs
<1>6. PICK A : A = [i \in DOMAIN vs |-> Visit(vs[i], <<NoFunction, i>>)]
  OBVIOUS
<1>7. PICK B : B = [i \in DOMAIN fs |-> Visit([k |-> "func", f |-> Reverse(fs)[i].name], <<>>)]
  OBVIOUS
<1>8. todo = A \o B
  BY <1>2, <1>6, <1>7, Zenon DEF Init
<1>9. ASSUME NEW s, NEW l \in Nat, DOMAIN s = 1..l, s = [i \in 1..l |-> s[i]] PROVE IsSeq(s) /\ Len(s) = l
  <2>1. \A i \in 1..l : s[i] \in Range(s)
    BY <1>9, Zenon DEF Range
  <2>2. s \in Seq(Range(s)) /\ Len(s) = l
    BY <1>9, <2>1
  <2> QED
    BY <2>2 DEF IsSeq
<1>10. \A v, x : Visit(v, x).do = "visit" /\ Visit(v, x).at = x
  BY DEF Visit, Task
<1>11. IsSeq(A) /\ Len(A) = n
  <2>1. DOMAIN A = 1..n /\ A = [i \in 1..n |-> A[i]]
    BY <1>5, <1>6, Zenon
  <2> QED
    BY <1>5, <1>9, <2>1
<1>12. IsSeq(B) /\ Len(B) = m
  <2>1. DOMAIN B = 1..m /\ B = [i \in 1..m |-> B[i]]
    BY <1>5, <1>7, Zenon
  <2> QED
    BY <1>5, <1>9, <2>1
<1>13. \A i \in 1..n : A[i].do = "visit" /\ A[i].at = <<NoFunction, i>>
  BY <1>5, <1>6, <1>10, Zenon
<1>14. \A i \in 1..m : B[i].do = "visit" /\ B[i].at = <<>>
  BY <1>5, <1>7, <1>10, Zenon
<1>15. PICK e, I : e = <<NoFunction>> /\ I = 1..n
  OBVIOUS
<1>16. IsSeq(e) /\ \A i : Append(e, i) = <<NoFunction, i>>
  <2>1. ASSUME NEW x, NEW i PROVE Append(<<x>>, i) = <<x, i>>
    <3>1. PICK h, a, c : h = <<x>> /\ a = Append(h, i) /\ c = <<x, i>>
      OBVIOUS
    <3>2. PICK S : S = {x, i}
      OBVIOUS
    <3>3. c \in Seq(S) /\ Len(c) = 2 /\ c[1] = x /\ c[2] = i
      BY <3>1, <3>2
    <3>4. h \in Seq(S) /\ Len(h) = 1 /\ h[1] = x /\ i \in S
      BY <3>1, <3>2
    <3>5. a \in Seq(S) /\ Len(a) = 2 /\ a[1] = x /\ a[2] = i
      <4>1. IsSeq(h)
        BY <3>4 DEF IsSeq, Range
      <4>2. IsSeq(a) /\ Len(a) = 2 /\ a[1] = x /\ a[2] = i
        BY <3>1, <3>4, <4>1, Appended
      <4>3. a \in Seq(S)
        BY <3>1, <3>4, <4>2 DEF IsSeq, Range
      <4> QED
        BY <4>2, <4>3
    <3>6. a = c
      BY <3>3, <3>5, SeqEqual
    <3> QED
      BY <3>1, <3>6
  <2> QED
    BY <1>15, <2>1, Ranges
<1>17. Lists(A, e, I, FALSE)
  <2>1. \A k \in 1..Len(A) : A[k].do # "mutability"
    BY <1>11, <1>13
  <2>2. \A k \in 1..Len(A) : A[k].do = "visit" => \E l \in I : A[k].at = Append(e, l)
    BY <1>11, <1>13, <1>15, <1>16
  <2>3. ASSUME NEW l \in I
        PROVE  \E k \in 1..Len(A) : /\ A[k].do = "visit" /\ A[k].at = Append(e, l)
                                    /\ \A j \in 1..Len(A) : A[j].do = "visit" /\ A[j].at = Append(e, l) => j = k
    <3>1. l \in 1..Len(A) /\ A[l].do = "visit" /\ A[l].at = Append(e, l)
      BY <1>11, <1>13, <1>15, <1>16
    <3>2. ASSUME NEW j \in 1..Len(A), A[j].at = Append(e, l) PROVE j = l
      <4>1. Append(e, j) = Append(e, l)
        BY <1>11, <1>13, <1>16, <3>2
      <4> QED
        BY <1>16, <4>1, AppendTells, Zenon
    <3> QED
      BY <3>1, <3>2
  <2> QED
    BY <1>11, <1>16, <2>1, <2>2, <2>3, ListsEach
<1>18. Lists(B, e, {}, FALSE)
  <2>1. \A a : a # <<>> => Count(B, "visit", a) = 0
    BY <1>12, <1>14, Counted
  <2>2. \A a : Count(B, "mutability", a) = 0
    BY <1>12, <1>14, Counted
  <2> QED
    BY <1>12, <2>1, <2>2 DEF Lists
<1>19. Lists(todo, e, I, FALSE)
  <2>1. Lists(A \o B, e, I \cup {}, FALSE \/ FALSE)
    BY <1>16, <1>17, <1>18, ListsJoined
  <2> QED
    BY <1>8, <2>1
<1>20. IsSeq(seen) /\ \A a : Occurrences(seen, a) = 0
  BY <1>1, Ranges, Occurs
<1>21. \A a : Count(todo, "mutability", a) = 0
  BY <1>19 DEF Lists
<1>22. \A a : a # <<>> /\ (\A l \in I : a # Append(e, l)) => Due(a) = 0
  <2>1. ASSUME NEW a, a # <<>>, \A l \in I : a # Append(e, l) PROVE Due(a) = 0
    <3>1. Count(todo, "visit", a) = 0
      BY <1>19, <2>1, Zenon DEF Lists
    <3> QED
      BY <1>20, <3>1 DEF Due
  <2> QED
    BY <2>1, Zenon
<1>23. \A l \in I : Due(Append(e, l)) = 1
  <2>1. ASSUME NEW l \in I PROVE Due(Append(e, l)) = 1
    <3>1. Count(todo, "visit", Append(e, l)) = 1
      BY <1>19 DEF Lists
    <3> QED
      BY <1>20, <3>1 DEF Due
  <2> QED
    BY <2>1
<1>24. ASSUME NEW t \in Tops(module) PROVE BalancedTop(t) 
  <2>1. CASE \E f \in Bodies(module) : t = [at |-> <<f.name>>, way |-> <<f.body[1]>>]
    <3>1. PICK f \in Bodies(module) : t = [at |-> <<f.name>>, way |-> <<f.body[1]>>]
      BY <2>1
    <3>2. t.at = <<f.name>> /\ t.at[1] = f.name /\ f.name \in Names
      BY <3>1 DEF Bodies, Names
    <3>3. t.at # <<>> /\ \A l : t.at # <<NoFunction, l>>
      <4>1. \A x, y, z : <<x>> # <<y, z>>
        BY Pairs
      <4> QED
        BY <3>2, <4>1
    <3>4. Due(t.at) = 0
      BY <1>16, <1>22, <3>3
    <3> QED
      BY <1>1, <3>2, <3>4 DEF BalancedTop
  <2>2. CASE \E i \in DOMAIN module.variables : t = [at |-> <<NoFunction, i>>, way |-> <<module.variables[i]>>]
    <3>1. PICK i \in DOMAIN module.variables : t = [at |-> <<NoFunction, i>>, way |-> <<module.variables[i]>>]
      BY <2>2
    <3>2. t.at = <<NoFunction, i>> /\ t.at[1] = NoFunction /\ i \in I
      BY <1>2, <1>5, <1>15, <3>1
    <3>3. Due(t.at) = 1
      BY <1>16, <1>23, <3>2
    <3>4. NoFunction \notin Names
      BY <1>1, Program1
    <3> QED
      BY <3>2, <3>3, <3>4 DEF BalancedTop
  <2> QED
    BY <1>1, <2>1, <2>2, TopIs
<1>25. ASSUME NEW p \in Places, NEW i \in DOMAIN Value(p).of PROVE BalancedPart(p, i)
  <2>1. Append(p.at, i) # <<>>
    BY <1>1, PlacesAt
  <2>2. ASSUME NEW l \in I PROVE Append(p.at, i) # Append(e, l)
    <3>1. PICK t : t = [at |-> <<NoFunction, l>>, way |-> <<module.variables[l]>>]
      OBVIOUS
    <3>2. t \in Tops(module)
      BY <1>2, <1>5, <1>15, <3>1 DEF Tops
    <3>3. t.at = Append(e, l)
      BY <1>16, <3>1
    <3> QED
      BY <1>1, <3>2, <3>3, PartsDiffer
  <2>3. Due(Append(p.at, i)) = 0
    BY <1>22, <2>1, <2>2
  <2> QED
    BY <1>20, <1>21, <2>3 DEF BalancedPart
<1> QED
  BY <1>20, <1>24, <1>25 DEF Balanced

\* Nothing but the variables decides the balance.
LEMMA StaysBalanced ==
  ASSUME Balanced, UNCHANGED vars
  PROVE  Balanced'
<1>1. module' = module /\ typechecked' = typechecked /\ seen' = seen /\ todo' = todo
  BY DEF vars
<1>2. Names' = Names /\ Places' = Places /\ Tops(module)' = Tops(module)
  BY <1>1, Static
<1>3. \A a : Due(a)' = Due(a)
  BY <1>1, Zenon DEF Due
<1>4. \A t : BalancedTop(t) => BalancedTop(t)'
  BY <1>1, <1>2, <1>3, Zenon DEF BalancedTop
<1>5. \A p, i : BalancedPart(p, i) => BalancedPart(p, i)'
  BY <1>1, <1>3, Zenon DEF BalancedPart
<1>6. IsSeq(seen)'
  BY <1>1 DEF Balanced, IsSeq
<1> QED
  BY <1>2, <1>4, <1>5, <1>6, Zenon DEF Balanced

\* Every step keeps the balance.
LEMMA NextBalanced ==
  ASSUME IInv, Balanced, [Next]_vars
  PROVE  Balanced'
<1>1. CASE \/ VisitLeaf \/ VisitVariable \/ VisitDereferenceTo \/ VisitReferenceTo \/ VisitIndexExtract
           \/ VisitVariableDeclaration \/ VisitThrow \/ VisitValueExtract \/ VisitTryCatch \/ VisitConditional
           \/ VisitCast \/ VisitReturn \/ VisitZero \/ VisitObject \/ VisitEnumInit \/ VisitCallOfValue
  <2>1. PICK kinds, T : IsSimple(kinds, T)
    BY <1>1, VisitForms
  <2> QED
    BY <2>1, SimpleBalance
<1>2. CASE VisitWhileLoop
  BY <1>2, WhileBalance
<1>3. CASE VisitSwitch
  BY <1>3, SwitchBalance
<1>4. CASE VisitCall
  BY <1>4, CallBalance
<1>5. CASE VisitBlock
  BY <1>5, BlockBalance
<1>6. CASE VisitFunc
  BY <1>6, FuncBalance
<1>7. CASE \/ CheckVariable \/ CheckReferenceTo \/ CheckIndexExtract \/ CheckVariableDeclaration \/ CheckCase
           \/ CheckReturn \/ CheckEnumInit \/ CheckCallOfValue \/ CheckDereferenceTo \/ CheckCast \/ CheckCall
           \/ RefuseAssignment \/ CheckMutating \/ Leave
  BY <1>7, ChecksBalance
<1>8. CASE CheckMutability
  BY <1>8, MutabilityBalance
<1>9. CASE Finished \/ UNCHANGED vars
  BY <1>9, StaysBalanced DEF Finished
<1> QED
  BY <1>1, <1>2, <1>3, <1>4, <1>5, <1>6, <1>7, <1>8, <1>9, Zenon DEF Next

-----------------------------------------------------------------------------
(* How often a place was visited when nothing is owed *)

\* One element more makes twice as many subsets.
LEMMA PowerGrows ==
  ASSUME NEW R, IsFiniteSet(R), NEW x, x \notin R
  PROVE  2 ^ Cardinality(R \cup {x}) = 2 ^ Cardinality(R) + 2 ^ Cardinality(R)
<1>1. PICK A, B, C : A = SUBSET R /\ B = {T \cup {x} : T \in A} /\ C = SUBSET (R \cup {x})
  OBVIOUS
<1>2. IsFiniteSet(A) /\ Cardinality(A) = 2 ^ Cardinality(R)
  BY <1>1, FS_SUBSET
<1>3. IsFiniteSet(R \cup {x})
  BY FS_AddElement
<1>4. Cardinality(C) = 2 ^ Cardinality(R \cup {x})
  BY <1>1, <1>3, FS_SUBSET
<1>5. ExistsBijection(A, B)
  <2>1. PICK f : f = [T \in A |-> T \cup {x}]
    OBVIOUS
  <2>2. \A T \in A : f[T] = T \cup {x} /\ x \notin T
    BY <1>1, <2>1
  <2>3. f \in [A -> B]
    BY <1>1, <2>1
  <2>4. ASSUME NEW S \in A, NEW T \in A, f[S] = f[T] PROVE S = T
    <3>1. S \cup {x} = T \cup {x} /\ x \notin S /\ x \notin T
      BY <2>2, <2>4
    <3> QED
      BY <3>1
  <2>5. \A y \in B : \E T \in A : f[T] = y
    BY <1>1, <2>2
  <2>6. f \in Bijection(A, B)
    BY <2>3, <2>4, <2>5 DEF Bijection, Injection, Surjection, IsInjective
  <2> QED
    BY <2>6 DEF ExistsBijection
<1>6. IsFiniteSet(B) /\ Cardinality(B) = Cardinality(A)
  BY <1>2, <1>5, FS_Bijection
<1>7. C = A \cup B
  <2>1. ASSUME NEW S \in C PROVE S \in A \cup B
    <3>1. CASE x \in S
      <4>1. S \ {x} \in A /\ S = (S \ {x}) \cup {x}
        BY <1>1, <3>1
      <4> QED
        BY <1>1, <4>1
    <3>2. CASE x \notin S
      BY <1>1, <3>2
    <3> QED
      BY <3>1, <3>2
  <2>2. ASSUME NEW S \in A PROVE S \in C /\ S \cup {x} \in C
    BY <1>1
  <2>3. ASSUME NEW S \in B PROVE S \in C
    <3>1. PICK T \in A : S = T \cup {x}
      BY <1>1, <2>3
    <3> QED
      BY <2>2, <3>1
  <2>4. \A S : S \in C <=> S \in A \cup B
    <3>1. \A S : S \in C => S \in A \cup B
      BY <2>1
    <3>2. \A S : S \in A => S \in C
      BY <2>2
    <3>3. \A S : S \in B => S \in C
      BY <2>3
    <3> QED
      BY <3>1, <3>2, <3>3, Zenon
  <2> QED
    BY <2>4, Zenon
<1>8. A \cap B = {}
  BY <1>1
<1>9. Cardinality(C) = Cardinality(A) + Cardinality(B)
  <2>1. Cardinality(A \cup B) = Cardinality(A) + Cardinality(B) - Cardinality(A \cap B)
    BY <1>2, <1>6, FS_Union
  <2>2. Cardinality(A \cap B) = 0
    BY <1>8, FS_EmptySet
  <2>3. Cardinality(A) \in Nat /\ Cardinality(B) \in Nat
    BY <1>2, <1>6, FS_CardinalityType
  <2> QED
    BY <1>7, <2>1, <2>2, <2>3
<1> QED
  BY <1>2, <1>4, <1>6, <1>9

\* The empty set has one.
LEMMA PowerStarts ==
  2 ^ Cardinality({}) = 1
<1>1. IsFiniteSet({}) /\ SUBSET {} = {{}}
  BY FS_EmptySet
<1>2. Cardinality(SUBSET {}) = 2 ^ Cardinality({})
  BY <1>1, FS_SUBSET
<1>3. Cardinality({{}}) = 1
  BY FS_Singleton
<1> QED
  BY <1>1, <1>2, <1>3

\* No value lies in itself: its place could be continued for ever.
LEMMA NotWithin ==
  ASSUME module \in Program
  PROVE  \A p \in Places : \A j \in 1..(Len(p.way) - 1) : p.way[j] # Value(p)
<1> DEFINE Again(p) == \E j \in 1..(Len(p.way) - 1) : p.way[j] = Value(p)
           Left(p) == MaxDepth - Len(p.way)
           Bad == {n \in Nat : \E p \in Places : Again(p) /\ n = Left(p)}
<1>1. SUFFICES ASSUME NEW p0 \in Places, Again(p0) PROVE FALSE
  BY Zenon
<1>2. MaxDepth \in Nat
  BY DepthAssumption
<1>3. \A p \in Places : Left(p) \in Nat /\ Len(p.way) \in Nat \ {0}
  BY <1>2, Family DEF Goes
<1>4. PICK n \in Bad : \A y \in Bad : n <= y
  <2>1. Bad \in SUBSET Nat
    OBVIOUS
  <2>2. Left(p0) \in Bad
    BY <1>1, <1>3
  <2> HIDE DEF Bad
  <2> QED
    BY <2>1, <2>2, Least
<1>5. PICK p \in Places : Again(p) /\ n = Left(p)
  BY <1>4
<1>6. PICK j \in 1..(Len(p.way) - 1) : p.way[j] = Value(p)
  BY <1>5
<1>7. PICK k : k = p.at[j + 1 + Offset(p)]
  OBVIOUS
<1>8. Goes(p)
  BY Family
<1>9. k \in DOMAIN Value(p).of /\ p.way[j + 1] = Value(p).of[k]
  BY <1>6, <1>7, <1>8 DEF Goes
<1>10. PICK c : c = Child(p, k)
  OBVIOUS
<1>11. c \in Places
  BY <1>9, <1>10, Family
<1>12. /\ Len(c.way) = Len(p.way) + 1 /\ Value(c) = Value(p).of[k]
       /\ \A l \in 1..Len(p.way) : c.way[l] = p.way[l]
  BY <1>8, <1>9, <1>10, ChildIs
<1>13. j + 1 \in 1..Len(p.way) /\ j + 1 \in 1..(Len(c.way) - 1)
  BY <1>3, <1>6, <1>12
<1>14. c.way[j + 1] = Value(c)
  BY <1>9, <1>12, <1>13
<1>15. Again(c)
  BY <1>13, <1>14
<1>16. Left(c) \in Bad
  BY <1>3, <1>11, <1>15
<1>17. n <= Left(c)
  <2> HIDE DEF Bad
  <2> QED
    BY <1>4, <1>16
<1> QED
  BY <1>2, <1>3, <1>5, <1>11, <1>12, <1>17

\* The refused assignments around a place, on their left side.
Doubled(p) == {s \in Steps(p) : Assignment(s[1]) /\ s[2] = 1 /\ ~isMutable(s[1].of[1])}

\* The steps to a place are finitely many.
LEMMA StepsFinite ==
  ASSUME module \in Program, NEW p \in Places
  PROVE  IsFiniteSet(Doubled(p))
<1>1. PICK n : n = Len(p.way) - 1
  OBVIOUS
<1>2. n \in Nat
  BY <1>1, Family DEF Goes
<1>3. PICK f : f = [i \in 1..n |-> <<p.way[i], p.at[Len(p.at) - Len(p.way) + i + 1]>>]
  OBVIOUS
<1>4. PICK S : S = Steps(p)
  OBVIOUS
<1>5. S = {<<p.way[i], p.at[Len(p.at) - Len(p.way) + i + 1]>> : i \in 1..n}
  BY <1>1, <1>4, Zenon DEF Steps
<1>6. f \in Surjection(1..n, S)
  <2>1. \A i \in 1..n : f[i] \in S
    BY <1>3, <1>5, Zenon
  <2>2. \A s \in S : \E i \in 1..n : f[i] = s
    BY <1>3, <1>5, Zenon
  <2>3. f = [i \in 1..n |-> f[i]]
    BY <1>3, Zenon
  <2>4. f \in [1..n -> S]
    BY <2>1, <2>3
  <2> QED
    BY <2>2, <2>4, Zenon DEF Surjection
<1>7. IsFiniteSet(1..n)
  BY <1>2, FS_Interval
<1>8. IsFiniteSet(S)
  BY <1>6, <1>7, FS_Surjection
<1>9. Doubled(p) \in SUBSET S
  BY <1>4 DEF Doubled
<1> QED
  BY <1>8, <1>9, FS_Subset

\* What was seen of a place when nothing is owed.
SeenRight(p) == Occurrences(seen, p.at) = IF Skipped(p) THEN 0 ELSE 2 ^ Cardinality(Doubled(p))

\* When a place was seen as often as it must, so were the values in it.
LEMMA SeenChild ==
  ASSUME IInv, Balanced, Done, NEW p \in Places, SeenRight(p), NEW i \in DOMAIN Value(p).of, NEW c, c = Child(p, i)
  PROVE  SeenRight(c)
<1>1. module \in Program /\ Goes(p) /\ c \in Places
  BY Family DEF IInv
<1>2. c.at = Append(p.at, i) /\ Steps(c) = Steps(p) \cup {<<Value(p), i>>}
  BY <1>1, ChildIs, StepsAre
<1>3. PICK a, b : a = p.at /\ b = Append(p.at, i)
  OBVIOUS
<1>4. \A do, x : Count(todo, do, x) = 0
  BY CountOne DEF Done
<1>5. Due(b) = Occurrences(seen, b) /\ Occurrences(seen, a) \in Nat /\ Occurrences(seen, b) \in Nat
  <2>1. IsSeq(seen)
    BY DEF Balanced
  <2>2. Occurrences(seen, a) \in Nat /\ Occurrences(seen, b) \in Nat
    BY <2>1, Occurs
  <2>3. Count(todo, "visit", b) = 0
    BY <1>4
  <2> QED
    BY <2>2, <2>3 DEF Due
<1>6. BalancedPart(p, i)
  BY DEF Balanced
<1>7. Skipped(c) <=> Skipped(p) \/ SkipStep(Value(p), i)
  <2>1. PICK x : x = <<Value(p), i>>
    OBVIOUS
  <2>2. x[1] = Value(p) /\ x[2] = i
    BY <2>1
  <2>3. \A s : s \in Steps(c) <=> s \in Steps(p) \/ s = x
    BY <1>2, <2>1, Zenon
  <2>4. Skipped(c) <=> \E s \in Steps(c) : SkipStep(s[1], s[2])
    BY Zenon DEF Skipped, SkipStep
  <2>5. Skipped(p) <=> \E s \in Steps(p) : SkipStep(s[1], s[2])
    BY Zenon DEF Skipped, SkipStep
  <2> QED
    BY <2>2, <2>3, <2>4, <2>5, Zenon
<1>8. CASE SkipStep(Value(p), i)
  <2>1. Occurrences(seen, b) = 0
    BY <1>3, <1>5, <1>6, <1>8 DEF BalancedPart
  <2> QED
    BY <1>2, <1>3, <1>7, <1>8, <2>1 DEF SeenRight
<1>9. CASE ~SkipStep(Value(p), i) /\ ~(Refuses(Value(p)) /\ i = 1)
  <2>1. Occurrences(seen, b) = Occurrences(seen, a)
    BY <1>3, <1>5, <1>6, <1>9 DEF BalancedPart
  <2>2. Doubled(c) = Doubled(p)
    <3>1. ~(Assignment(<<Value(p), i>>[1]) /\ <<Value(p), i>>[2] = 1 /\ ~isMutable(<<Value(p), i>>[1].of[1]))
      BY <1>9 DEF Refuses
    <3>2. PICK x : x = <<Value(p), i>>
      OBVIOUS
    <3>3. \A s : s \in Steps(c) <=> s \in Steps(p) \/ s = x
      BY <1>2, <3>2, Zenon
    <3>4. ~(Assignment(x[1]) /\ x[2] = 1 /\ ~isMutable(x[1].of[1]))
      BY <3>1, <3>2
    <3>5. \A s : s \in Doubled(c) <=> s \in Doubled(p)
      BY <3>3, <3>4, Zenon DEF Doubled
    <3> QED
      BY <3>5
  <2> QED
    BY <1>2, <1>3, <1>7, <1>9, <2>1, <2>2 DEF SeenRight
<1>10. CASE ~SkipStep(Value(p), i) /\ Refuses(Value(p)) /\ i = 1
  <2>1. Occurrences(seen, b) = Occurrences(seen, a) + Occurrences(seen, a)
    <3>1. Due(b) + Count(todo, "mutability", a) = Occurrences(seen, a) + Occurrences(seen, a)
      BY <1>3, <1>6, <1>10 DEF BalancedPart
    <3>2. Count(todo, "mutability", a) = 0
      BY <1>4
    <3> QED
      BY <1>5, <3>1, <3>2
  <2>2. PICK x : x = <<Value(p), i>>
    OBVIOUS
  <2>3. x[1] = Value(p) /\ x[2] = 1
    BY <1>10, <2>2
  <2>4. \A s : s \in Steps(c) <=> s \in Steps(p) \/ s = x
    BY <1>2, <2>2, Zenon
  <2>5. Assignment(x[1]) /\ x[2] = 1 /\ ~isMutable(x[1].of[1])
    BY <1>10, <2>3 DEF Refuses
  <2>6. Doubled(c) = Doubled(p) \cup {x}
    <3>1. \A s : s \in Doubled(c) <=> s \in Doubled(p) \/ s = x
      BY <2>4, <2>5, Zenon DEF Doubled
    <3> QED
      BY <3>1
  <2>7. x \notin Doubled(p)
    <3>1. ASSUME x \in Steps(p) PROVE FALSE
      <4>1. PICK j \in 1..(Len(p.way) - 1) : x = <<p.way[j], p.at[Len(p.at) - Len(p.way) + j + 1]>>
        BY <3>1, Zenon DEF Steps
      <4>2. x[1] = p.way[j]
        BY <4>1
      <4> QED
        BY <1>1, <2>3, <4>2, NotWithin
    <3> QED
      BY <3>1 DEF Doubled
  <2>8. 2 ^ Cardinality(Doubled(c)) = 2 ^ Cardinality(Doubled(p)) + 2 ^ Cardinality(Doubled(p))
    <3>1. PICK R : R = Doubled(p)
      OBVIOUS
    <3>2. IsFiniteSet(R) /\ x \notin R
      BY <1>1, <2>7, <3>1, StepsFinite
    <3>3. 2 ^ Cardinality(R \cup {x}) = 2 ^ Cardinality(R) + 2 ^ Cardinality(R)
      BY <3>2, PowerGrows
    <3> QED
      BY <2>6, <3>1, <3>3
  <2>9. CASE Skipped(p)
    <3>1. Occurrences(seen, a) = 0
      BY <1>3, <2>9 DEF SeenRight
    <3>2. Occurrences(seen, b) = 0
      BY <2>1, <3>1
    <3> QED
      BY <1>2, <1>3, <1>7, <2>9, <3>2 DEF SeenRight
  <2>10. CASE ~Skipped(p)
    <3>1. Occurrences(seen, a) = 2 ^ Cardinality(Doubled(p))
      BY <1>3, <2>10 DEF SeenRight
    <3>2. Occurrences(seen, b) = 2 ^ Cardinality(Doubled(c))
      BY <2>1, <2>8, <3>1
    <3> QED
      BY <1>2, <1>3, <1>7, <1>10, <2>10, <3>2 DEF SeenRight
  <2> QED
    BY <2>9, <2>10
<1> QED
  BY <1>8, <1>9, <1>10

\* When nothing is left to do, every place was visited as often as it must.
LEMMA VisitedFollows ==
  ASSUME IInv, Balanced
  PROVE  VisitedOnce
<1>1. SUFFICES ASSUME Done PROVE \A p \in Places : SeenRight(p)
  <2>1. \A p : Cardinality({i \in DOMAIN seen : seen[i] = p.at}) = Occurrences(seen, p.at)
    BY DEF Occurrences
  <2>2. \A p : Doubled(p) = {s \in Steps(p) : Assignment(s[1]) /\ s[2] = 1 /\ ~isMutable(s[1].of[1])}
    BY DEF Doubled
  <2>3. (\A p \in Places : SeenRight(p)) => \A p \in Places :
            Cardinality({i \in DOMAIN seen : seen[i] = p.at})
              = IF Skipped(p) THEN 0 ELSE 2 ^ Cardinality({s \in Steps(p) : Assignment(s[1]) /\ s[2] = 1 /\ ~isMutable(s[1].of[1])})
    BY Zenon DEF SeenRight, Occurrences, Doubled
  <2> QED
    BY <2>3, Zenon DEF VisitedOnce
<1>2. module \in Program
  BY DEF IInv
<1>3. \A t : ~Waits(t)
  <2>1. Len(todo) = 0
    BY <1>1 DEF Done
  <2>2. 1..0 = {}
    OBVIOUS
  <2> QED
    BY <2>1, <2>2, Zenon DEF Waits
<1>4. Names \ typechecked = {}
  <2>1. \A g \in Names : g \in typechecked
    BY <1>3, Zenon DEF IInv, FunctionsCome
  <2> QED
    BY <2>1
<1>5. PICK S : S = {p \in Places : SeenRight(p)}
  OBVIOUS
<1>6. Tops(module) \subseteq S
  <2>1. ASSUME NEW t \in Tops(module) PROVE SeenRight(t)
    <3>1. Due(t.at) = 1
      BY <1>4 DEF Balanced, BalancedTop
    <3>2. Count(todo, "visit", t.at) = 0
      BY <1>1, CountOne DEF Done
    <3>3. Occurrences(seen, t.at) \in Nat
      BY Occurs DEF Balanced
    <3>4. Occurrences(seen, t.at) = 1
      BY <3>1, <3>2, <3>3 DEF Due
    <3>5. Steps(t) = {} /\ ~Skipped(t)
      <4>1. Goes(t) /\ Len(t.way) = 1
        BY <1>2, TopIs
      <4>2. Steps(t) = {}
        BY <4>1, StepsAre
      <4> QED
        BY <4>2 DEF Skipped
    <3>6. Doubled(t) = {}
      BY <3>5 DEF Doubled
    <3> QED
      BY <3>4, <3>5, <3>6, PowerStarts DEF SeenRight
  <2> QED
    BY <1>2, <1>5, <2>1, PlacesAre
<1>7. ASSUME NEW p \in Places \cap S PROVE Children(p) \subseteq S
  <2>1. SUFFICES ASSUME NEW c \in Children(p) PROVE c \in S
    OBVIOUS
  <2>2. PICK i \in DOMAIN Value(p).of : c = Child(p, i)
    BY DEF Children, Value
  <2>3. p \in Places /\ SeenRight(p)
    BY <1>5, <1>7
  <2>4. SeenRight(c)
    BY <1>1, <2>2, <2>3, SeenChild
  <2>5. c \in Places
    BY <1>2, <2>2, <2>3, Family
  <2> QED
    BY <1>5, <2>4, <2>5
<1>8. Places \subseteq S
  BY <1>2, <1>6, <1>7, PlacesInduction
<1> QED
  BY <1>5, <1>8

-----------------------------------------------------------------------------
(* The theorems *)

\* Every task of the walk belongs to a place that is reached, in the context of that place, and nothing
\* that is to be visited or judged is lost (TypeChecker.cc 32-68, 427-432).
THEOREM Invariance == Spec => []IInv
<1>1. Init => IInv
  BY InitIInv
<1>2. IInv /\ [Next]_vars => IInv'
  BY NextIInv
<1> QED
  BY <1>1, <1>2, PTL DEF Spec

\* In every module, whatever calls what first, exactly the unsafe operations outside of the unsafe
\* blocks of their function are reported as such (TypeChecker.cc 58-71, 427-432), of those in places
\* that are reached: not in default cases, steps and what fields are taken from (172-177, 273, 302-305).
THEOREM UnsafeIsExact == Spec => []UnsafeExactly
<1>1. IInv => UnsafeExactly
  BY UnsafeFollows
<1> QED
  BY <1>1, Invariance, PTL

\* In every module that is accepted, what is assigned is mutable where references, pointers and
\* extractions end, and only mutating methods assign fields of self (TypeChecker.cc 450-558).
THEOREM ImmutableIsKept == Spec => []ImmutableStays
<1>1. IInv => ImmutableStays
  BY MutabilityFollows
<1> QED
  BY <1>1, Invariance, PTL

\* All along the walk, the visits a place has had and those that wait for it are together as many as
\* those of the value around it, and twice as many for the left side of an assignment that is refused,
\* whose second visit comes from the check of its mutability; a variable's and a function's are one,
\* a function's from when it is met first (TypeChecker.cc 59, 189-244, 478-495).
THEOREM BalanceInvariance == Spec => []Balanced
<1>1. Init => IInv /\ Balanced
  BY InitIInv, InitBalanced
<1>2. IInv /\ Balanced /\ [Next]_vars => (IInv /\ Balanced)'
  BY NextIInv, NextBalanced
<1> QED
  BY <1>1, <1>2, PTL DEF Spec

\* In every module, however many calls lead to a function and though functions call themselves, every
\* value is visited once by the end, what is skipped not at all, and what stands in left sides of
\* refused assignments twice for each of these (TypeChecker.cc 59, 189-244, 478-495).
THEOREM VisitsAreExact == Spec => []VisitedOnce
<1>1. IInv /\ Balanced => VisitedOnce
  BY VisitedFollows
<1> QED
  BY <1>1, Invariance, BalanceInvariance, PTL
===============================================================================
