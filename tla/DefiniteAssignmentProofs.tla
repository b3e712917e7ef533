----------------------- MODULE DefiniteAssignmentProofs -----------------------
(* What MCDefiniteAssignment checks for one variable, one field and four      *)
(* frames, proved for all sets of names, constructs and depths: outside its   *)
(* holes the analysis is sound on every path.                                 *)
EXTENDS DefiniteAssignment, WellFoundedInduction, SequenceTheorems, TLAPS

FrameType ==
  [kind : Kinds, scope : [Name -> Status], inited : SUBSET Name, before : SUBSET Name,
   real : [Name -> Status], live : BOOLEAN, other : BOOLEAN]

\* The variables are well typed.
TypeOK ==
  /\ frames \in Seq(FrameType)
  /\ verdict \in {"analysing", "accepted", "rejected"}
  /\ bad \subseteq {"read", "own", "rhs", "callee", "field", "exit"}
  /\ holes \subseteq {"shadow", "lambda", "operand"}

\* Seen from frame i, the nearest declaration of x has no value; and the nearest
\* note of the analysis says so.
UnsetFrom(fs, i, x) ==
  \E j \in i..Len(fs) : fs[j].real[x] = "no" /\ \A k \in i..(j - 1) : fs[k].real[x] = "none"
NotedFrom(fs, i, x) ==
  \E j \in i..Len(fs) : fs[j].scope[x] = "no" /\ \A k \in i..(j - 1) : fs[k].scope[x] = "none"

\* The path executes a frame only within frames it executes, leaves a block only
\* together with what surrounds it, and takes one branch of a conditional.
FrameOnPath(fs, i) ==
  /\ fs[i].kind = "func" <=> i = Len(fs)
  /\ fs[i].live => \A j \in i..Len(fs) : fs[j].live
  /\ fs[i].other => ~fs[i].live /\ i < Len(fs) /\ fs[i + 1].live
  /\ i < Len(fs) /\ fs[i + 1].live =>
       /\ fs[i].kind = "block" => fs[i].live
       /\ fs[i].kind = "then" => fs[i].live \/ fs[i].other
OnPath(fs) == fs # <<>> /\ \A i \in DOMAIN fs : FrameOnPath(fs, i)

\* The frames that may hand names on to the frame below.
Handing == {"block", "then", "else", "lambda"}
InLambdaAt(fs, i) == \E j \in i..Len(fs) : fs[j].kind = "lambda"

\* What the analysis holds of x in frame i is true of the path.
FrameSound(fs, i, x) ==
  /\ fs[i].live /\ UnsetFrom(fs, i, x) => NotedFrom(fs, i, x)
  /\ fs[i].kind \in Handing /\ i < Len(fs) =>
       /\ fs[i].live /\ x \in fs[i].inited => ~UnsetFrom(fs, i + 1, x)
       /\ fs[i].real[x] # "none" => \A j \in (i + 1)..Len(fs) : fs[j].real[x] = "none"
  /\ fs[i].kind = "else" /\ ~fs[i].live /\ i < Len(fs) /\ fs[i + 1].live /\ x \in fs[i].before => ~UnsetFrom(fs, i + 1, x)
  /\ InLambdaAt(fs, i) => x \notin fs[i].inited /\ x \notin fs[i].before
Sound(fs, x) == \A i \in DOMAIN fs : FrameSound(fs, i, x)

\* The names the holes used so far do not concern: only variables are shadowed.
Clean(x) == IF x \in Field THEN holes \cap {"lambda", "operand"} = {} ELSE holes = {}

IInv ==
  /\ TypeOK /\ OnPath(frames)
  /\ \A x \in Name : Clean(x) => Sound(frames, x)
  /\ VisitedReadsAssigned /\ FieldsAssigned
  /\ Analysing => "field" \notin bad

-----------------------------------------------------------------------------
(* Lookups *)

\* The innermost frame of a set of frames.
LEMMA MinProps ==
  ASSUME NEW S \in SUBSET Nat, S # {}
  PROVE  Min(S) \in S /\ \A y \in S : Min(S) <= y
<1> DEFINE Less == {ss \in Nat \X Nat : ss[1] < ss[2]}
<1>0. IsWellFoundedOn(Less, Nat)
  BY NatLessThanWellFounded, Zenon DEF OpToRel
<1>1. \E n \in S : \A y \in S : ~(<<y, n>> \in Less)
  BY <1>0, WFMin, Zenon
<1>2. \A n, y \in S : <<y, n>> \in Less <=> y < n
  OBVIOUS
<1> HIDE DEF Less
<1>3. PICK n \in S : \A y \in S : ~(y < n)
  BY <1>1, <1>2
<1>4. \A y \in S : n <= y
  BY <1>3
<1> QED
  BY <1>4 DEF Min

\* A declaration without a value is one that UnsetFrom sees.
LEMMA UnsetProps ==
  ASSUME NEW fs \in Seq(FrameType), NEW x \in Name,
         Declared(fs, x) # {}, fs[Min(Declared(fs, x))].real[x] = "no"
  PROVE  UnsetFrom(fs, 1, x)
<1> DEFINE m == Min(Declared(fs, x))
<1>1. Declared(fs, x) \subseteq 1..Len(fs)
  BY DEF Declared
<1>2. m \in Declared(fs, x) /\ \A y \in Declared(fs, x) : m <= y
  BY <1>1, MinProps
<1>3. \A k \in 1..(m - 1) : k \notin Declared(fs, x)
  BY <1>1, <1>2
<1> QED
  BY <1>1, <1>2, <1>3 DEF UnsetFrom, Declared

\* getIdentifier finds the note that NotedFrom speaks of.
LEMMA NotedProps ==
  ASSUME NEW fs \in Seq(FrameType), NEW x \in Name, NotedFrom(fs, 1, x)
  PROVE  getIdentifier(fs, x) = "no"
<1>1. PICK j \in 1..Len(fs) : fs[j].scope[x] = "no" /\ \A k \in 1..(j - 1) : fs[k].scope[x] = "none"
  BY DEF NotedFrom
<1>2. Found(fs, x) \subseteq 1..Len(fs) /\ j \in Found(fs, x)
  BY <1>1 DEF Found
<1>3. Min(Found(fs, x)) \in Found(fs, x) /\ \A y \in Found(fs, x) : Min(Found(fs, x)) <= y
  BY <1>2, MinProps
<1>4. Min(Found(fs, x)) \in 1..Len(fs) /\ Min(Found(fs, x)) \notin 1..(j - 1) /\ Min(Found(fs, x)) <= j
  <2>1. \A k \in 1..(j - 1) : k \notin Found(fs, x)
    BY <1>1 DEF Found
  <2> QED
    BY <1>2, <1>3, <2>1
<1>5. Min(Found(fs, x)) = j
  BY <1>4
<1> QED
  BY <1>1, <1>2, <1>5 DEF getIdentifier

\* A lookup passes a frame that does not mention the name.
LEMMA UnsetStep ==
  ASSUME NEW fs \in Seq(FrameType), NEW x \in Name, NEW i \in DOMAIN fs
  PROVE  /\ UnsetFrom(fs, i, x) <=>
              fs[i].real[x] = "no" \/ (fs[i].real[x] = "none" /\ i < Len(fs) /\ UnsetFrom(fs, i + 1, x))
         /\ NotedFrom(fs, i, x) <=>
              fs[i].scope[x] = "no" \/ (fs[i].scope[x] = "none" /\ i < Len(fs) /\ NotedFrom(fs, i + 1, x))
<1>1. \A j \in (i + 1)..Len(fs) : \A k \in i..(j - 1) : k = i \/ k \in (i + 1)..(j - 1)
  OBVIOUS
<1>2. \A j \in i..Len(fs) : j = i \/ (j \in (i + 1)..Len(fs) /\ i \in i..(j - 1) /\ (i + 1)..(j - 1) \subseteq i..(j - 1))
  OBVIOUS
<1>3. i..(i - 1) = {}
  OBVIOUS
<1> QED
  BY <1>1, <1>2, <1>3 DEF UnsetFrom, NotedFrom

\* Two stacks that agree from a frame on agree in what holds of that frame.
LEMMA Shift ==
  ASSUME NEW fs \in Seq(FrameType), NEW gs \in Seq(FrameType), NEW d \in Int,
         NEW i \in DOMAIN fs, i + d \in DOMAIN gs, Len(gs) = Len(fs) + d,
         \A k \in i..Len(fs) : gs[k + d] = fs[k]
  PROVE  /\ FrameOnPath(fs, i) => FrameOnPath(gs, i + d)
         /\ \A x \in Name : /\ FrameSound(fs, i, x) => FrameSound(gs, i + d, x)
                            /\ UnsetFrom(gs, i + d, x) => UnsetFrom(fs, i, x)
                            /\ NotedFrom(fs, i, x) => NotedFrom(gs, i + d, x)
<1> DEFINE n == Len(fs)
<1>1. n \in Nat /\ Len(gs) = n + d /\ DOMAIN fs = 1..n /\ DOMAIN gs = 1..(n + d) /\ i \in 1..n
  OBVIOUS
<1>2. ASSUME NEW a \in i..(n + 1)
      PROVE  /\ \A j \in a..n : j + d \in (a + d)..(n + d) /\ \A k \in (a + d)..(j + d - 1) : k - d \in a..(j - 1) /\ k - d \in i..n
             /\ \A j \in (a + d)..(n + d) : j - d \in a..n /\ j - d \in i..n /\ \A k \in a..(j - d - 1) : k + d \in (a + d)..(j - 1) /\ k \in i..n
  BY <1>1, <1>2
<1>3. \A k \in (i + d)..(n + d) : k - d \in i..n /\ gs[k] = fs[k - d]
  BY <1>1
<1>4. ASSUME NEW a \in i..(n + 1), NEW x \in Name
      PROVE  /\ UnsetFrom(gs, a + d, x) => UnsetFrom(fs, a, x)
             /\ NotedFrom(fs, a, x) => NotedFrom(gs, a + d, x)
  <2>1. ASSUME UnsetFrom(gs, a + d, x) PROVE UnsetFrom(fs, a, x)
    <3>1. PICK j \in (a + d)..(n + d) : gs[j].real[x] = "no" /\ \A k \in (a + d)..(j - 1) : gs[k].real[x] = "none"
      BY <2>1 DEF UnsetFrom
    <3>2. j - d \in a..n /\ fs[j - d].real[x] = "no" /\ \A k \in a..(j - d - 1) : fs[k].real[x] = "none"
      BY <3>1, <1>2, SMTT(30)
    <3> QED
      BY <3>2 DEF UnsetFrom
  <2>2. ASSUME NotedFrom(fs, a, x) PROVE NotedFrom(gs, a + d, x)
    <3>1. PICK j \in a..n : fs[j].scope[x] = "no" /\ \A k \in a..(j - 1) : fs[k].scope[x] = "none"
      BY <2>2 DEF NotedFrom
    <3>2. j + d \in (a + d)..(n + d) /\ j \in i..n /\ gs[j + d].scope[x] = "no"
      BY <3>1, <1>2, <1>1
    <3>3. \A k \in (a + d)..(j + d - 1) : k - d \in a..(j - 1) /\ gs[k] = fs[k - d]
      BY <1>2, <1>3, <1>1
    <3>4. \A k \in (a + d)..(j + d - 1) : gs[k].scope[x] = "none"
      BY <3>1, <3>3
    <3>5. PICK q \in (a + d)..(n + d) : q = j + d
      BY <3>2
    <3>6. gs[q].scope[x] = "no" /\ \A k \in (a + d)..(q - 1) : gs[k].scope[x] = "none"
      BY <3>2, <3>4, <3>5
    <3> QED
      BY <1>1, <3>6 DEF NotedFrom
  <2> QED
    BY <2>1, <2>2
<1>5. gs[i + d] = fs[i] /\ (i < n => gs[i + d + 1] = fs[i + 1] /\ i + 1 \in i..(n + 1)) /\ (i < n <=> i + d < n + d)
  BY <1>1, <1>3
<1>6. ASSUME NEW x \in Name, FrameSound(fs, i, x) PROVE FrameSound(gs, i + d, x)
  <2>1. UnsetFrom(gs, i + d, x) => UnsetFrom(fs, i, x)
    BY <1>4
  <2>2. NotedFrom(fs, i, x) => NotedFrom(gs, i + d, x)
    BY <1>4
  <2>3. i < n => (UnsetFrom(gs, i + d + 1, x) => UnsetFrom(fs, i + 1, x))
    <3>1. i < n => (UnsetFrom(gs, (i + 1) + d, x) => UnsetFrom(fs, i + 1, x))
      BY <1>4, <1>5
    <3>2. (i + 1) + d = i + d + 1
      OBVIOUS
    <3> QED
      BY <3>1, <3>2
  <2>4. InLambdaAt(gs, i + d) => InLambdaAt(fs, i)
    BY <1>3 DEF InLambdaAt
  <2>5. (\A j \in (i + 1)..n : fs[j].real[x] = "none") => \A j \in (i + d + 1)..(n + d) : gs[j].real[x] = "none"
    <3>1. \A j \in (i + d + 1)..(n + d) : j \in (i + d)..(n + d) /\ j - d \in (i + 1)..n
      OBVIOUS
    <3> QED
      BY <3>1, <1>3
  <2> QED
    BY <1>5, <1>6, <2>1, <2>2, <2>3, <2>4, <2>5 DEF FrameSound
<1>7. ASSUME FrameOnPath(fs, i) PROVE FrameOnPath(gs, i + d)
  <2>1. fs[i].live => \A j \in (i + d)..(n + d) : gs[j].live
    BY <1>3, <1>7, <1>1 DEF FrameOnPath
  <2>2. (i = n) <=> (i + d = n + d)
    BY <1>1
  <2> QED
    BY <1>1, <1>5, <1>7, <2>1, <2>2 DEF FrameOnPath
<1> QED
  BY <1>4, <1>6, <1>7, <1>1

-----------------------------------------------------------------------------
(* What the operations on the stack of frames change *)

\* Mark touches the notes of the innermost frame on the given names only.
LEMMA MarkProps ==
  ASSUME NEW fs \in Seq(FrameType), fs # <<>>, NEW ids \in SUBSET Name
  PROVE  LET ms == Mark(fs, ids) IN
         /\ ms \in Seq(FrameType) /\ Len(ms) = Len(fs)
         /\ \A i \in 2..Len(fs) : ms[i] = fs[i]
         /\ ms[1].kind = fs[1].kind /\ ms[1].live = fs[1].live /\ ms[1].other = fs[1].other
         /\ ms[1].before = fs[1].before /\ ms[1].real = fs[1].real
         /\ \A x \in Name \ ids : ms[1].scope[x] = fs[1].scope[x] /\ (x \in ms[1].inited <=> x \in fs[1].inited)
<1> DEFINE new == {x \in ids : getIdentifier(fs, x) = "no"}
           scope == [x \in Name |-> IF x \in new THEN "yes" ELSE fs[1].scope[x]]
           g == [fs[1] EXCEPT !.scope = scope, !.inited = @ \cup new]
<1>1. fs[1] \in FrameType /\ 1 \in DOMAIN fs
  OBVIOUS
<1>2. new \subseteq ids
  OBVIOUS
<1>3. Mark(fs, ids) = [fs EXCEPT ![1] = g]
  BY <1>1 DEF Mark, FrameType
<1> HIDE DEF new
<1>4. scope \in [Name -> Status]
  BY <1>1 DEF FrameType, Status
<1>5. \A x \in Name \ ids : scope[x] = fs[1].scope[x]
  BY <1>2
<1> HIDE DEF scope
<1>6. g \in FrameType
  BY <1>1, <1>2, <1>4 DEF FrameType
<1>7. /\ g.kind = fs[1].kind /\ g.live = fs[1].live /\ g.other = fs[1].other /\ g.before = fs[1].before
      /\ g.real = fs[1].real /\ g.scope = scope /\ g.inited = fs[1].inited \cup new
  BY <1>1 DEF FrameType
<1> HIDE DEF g
<1> QED
  BY <1>1, <1>2, <1>3, <1>5, <1>6, <1>7

\* Store gives a value to the nearest declaration of x, if the path is here.
LEMMA StoreProps ==
  ASSUME NEW fs \in Seq(FrameType), fs # <<>>, NEW x \in Name, Declared(fs, x) # {}
  PROVE  LET ss == Store(fs, x) IN
         /\ ss \in Seq(FrameType) /\ Len(ss) = Len(fs)
         /\ \A i \in DOMAIN fs :
              /\ ss[i].kind = fs[i].kind /\ ss[i].live = fs[i].live /\ ss[i].other = fs[i].other
              /\ ss[i].before = fs[i].before /\ ss[i].inited = fs[i].inited /\ ss[i].scope = fs[i].scope
              /\ \A y \in Name : \/ ss[i].real[y] = fs[i].real[y]
                                 \/ fs[i].real[y] # "none" /\ ss[i].real[y] = "yes"
         /\ fs[1].live => ~UnsetFrom(ss, 1, x)
<1> DEFINE m == Min(Declared(fs, x))
           g == [fs[m] EXCEPT !.real[x] = "yes"]
<1>1. Declared(fs, x) \subseteq 1..Len(fs)
  BY DEF Declared
<1>9. m \in Declared(fs, x) /\ \A y \in Declared(fs, x) : m <= y
  BY <1>1, MinProps
<1>2. m \in 1..Len(fs) /\ fs[m].real[x] # "none"
  BY <1>9 DEF Declared
<1>3. \A k \in 1..(m - 1) : fs[k].real[x] = "none"
  <2>1. \A k \in 1..(m - 1) : k \in DOMAIN fs /\ k \notin Declared(fs, x)
    BY <1>2, <1>9
  <2> QED
    BY <2>1 DEF Declared
<1>4. Store(fs, x) = IF fs[1].live THEN [fs EXCEPT ![m] = g] ELSE fs
  BY DEF Store
<1> HIDE DEF m
<1>5. fs[m] \in FrameType
  BY <1>2
<1>6. /\ g \in FrameType /\ g.kind = fs[m].kind /\ g.live = fs[m].live /\ g.other = fs[m].other /\ g.before = fs[m].before
      /\ g.inited = fs[m].inited /\ g.scope = fs[m].scope
      /\ g.real[x] = "yes" /\ \A y \in Name \ {x} : g.real[y] = fs[m].real[y]
  BY <1>5 DEF FrameType, Status
<1> HIDE DEF g
<1>7. CASE fs[1].live
  <2> DEFINE ss == [fs EXCEPT ![m] = g]
  <2>1. Store(fs, x) = ss
    BY <1>4, <1>7
  <2>2. ss \in Seq(FrameType) /\ Len(ss) = Len(fs) /\ ss[m] = g /\ \A i \in DOMAIN fs \ {m} : ss[i] = fs[i]
    BY <1>2, <1>6
  <2> HIDE DEF ss
  <2>3. \A k \in 1..(m - 1) : ss[k].real[x] = "none"
    BY <1>2, <1>3, <2>2
  <2>4. ~UnsetFrom(ss, 1, x)
    BY <1>2, <1>6, <2>2, <2>3 DEF UnsetFrom
  <2>5. \A i \in DOMAIN fs, y \in Name :
           ss[i].real[y] = fs[i].real[y] \/ (fs[i].real[y] # "none" /\ ss[i].real[y] = "yes")
    BY <1>2, <1>6, <2>2
  <2> QED
    BY <1>6, <2>1, <2>2, <2>4, <2>5
<1>8. CASE ~fs[1].live
  BY <1>4, <1>8
<1> QED
  BY <1>7, <1>8

\* Assigning and marking keep what is known of x.
LEMMA Changes ==
  ASSUME NEW fs \in Seq(FrameType), NEW ns \in Seq(FrameType), fs # <<>>, Len(ns) = Len(fs),
         NEW x \in Name, Sound(fs, x),
         \A i \in DOMAIN fs :
           /\ ns[i].kind = fs[i].kind /\ ns[i].live = fs[i].live /\ ns[i].before = fs[i].before
           /\ ns[i].real[x] = fs[i].real[x] \/ (fs[i].real[x] # "none" /\ ns[i].real[x] = "yes"),
         \A i \in 2..Len(fs) : ns[i].scope[x] = fs[i].scope[x] /\ ns[i].inited = fs[i].inited,
         \/ ns[1].scope[x] = fs[1].scope[x] /\ (x \in ns[1].inited => x \in fs[1].inited)
         \/ ~InLambdaAt(fs, 1) /\ (fs[1].live => ~UnsetFrom(ns, 1, x))
  PROVE  Sound(ns, x)
<1>1. ASSUME NEW i \in Nat \ {0}, UnsetFrom(ns, i, x) PROVE UnsetFrom(fs, i, x)
  <2>1. PICK j \in i..Len(fs) : ns[j].real[x] = "no" /\ \A k \in i..(j - 1) : ns[k].real[x] = "none"
    BY <1>1 DEF UnsetFrom
  <2>2. j \in DOMAIN fs /\ \A k \in i..(j - 1) : k \in DOMAIN fs
    OBVIOUS
  <2>3. fs[j].real[x] = "no" /\ \A k \in i..(j - 1) : fs[k].real[x] = "none"
    BY <2>1, <2>2
  <2> QED
    BY <2>3 DEF UnsetFrom
<1>2. ASSUME NEW i \in 2..Len(fs), NotedFrom(fs, i, x) PROVE NotedFrom(ns, i, x)
  <2>1. \A k \in i..Len(fs) : ns[k].scope[x] = fs[k].scope[x]
    OBVIOUS
  <2> QED
    BY <1>2, <2>1 DEF NotedFrom
<1>3. ns[1].scope[x] = fs[1].scope[x] => (NotedFrom(fs, 1, x) => NotedFrom(ns, 1, x))
  <2> SUFFICES ASSUME ns[1].scope[x] = fs[1].scope[x], NotedFrom(fs, 1, x) PROVE NotedFrom(ns, 1, x)
    OBVIOUS
  <2>1. \A i \in 1..Len(fs) : ns[i].scope[x] = fs[i].scope[x]
    OBVIOUS
  <2> QED
    BY <2>1 DEF NotedFrom
<1>4. \A i \in DOMAIN fs : InLambdaAt(ns, i) <=> InLambdaAt(fs, i)
  BY DEF InLambdaAt
<1>5. \A i \in DOMAIN fs : (\A j \in (i + 1)..Len(fs) : fs[j].real[x] = "none") => \A j \in (i + 1)..Len(fs) : ns[j].real[x] = "none"
  OBVIOUS
<1>6. ASSUME NEW i \in 2..Len(fs) PROVE FrameSound(ns, i, x)
  <2>1. FrameSound(fs, i, x)
    BY DEF Sound
  <2>2. ns[i].kind = fs[i].kind /\ ns[i].live = fs[i].live /\ ns[i].before = fs[i].before /\ ns[i].inited = fs[i].inited
    OBVIOUS
  <2>3. i < Len(fs) => ns[i + 1].live = fs[i + 1].live /\ (UnsetFrom(ns, i + 1, x) => UnsetFrom(fs, i + 1, x))
    BY <1>1
  <2>4. ns[i].real[x] # "none" => fs[i].real[x] # "none"
    OBVIOUS
  <2> QED
    BY <1>1, <1>2, <1>4, <1>5, <2>1, <2>2, <2>3, <2>4 DEF FrameSound
<1>7. FrameSound(ns, 1, x)
  <2>1. FrameSound(fs, 1, x)
    BY DEF Sound
  <2>2. 1 \in DOMAIN fs /\ ns[1].kind = fs[1].kind /\ ns[1].live = fs[1].live /\ ns[1].before = fs[1].before
    OBVIOUS
  <2>3. 1 < Len(fs) => ns[2].live = fs[2].live /\ (UnsetFrom(ns, 2, x) => UnsetFrom(fs, 2, x))
    BY <1>1
  <2>4. ns[1].real[x] # "none" => fs[1].real[x] # "none"
    OBVIOUS
  <2>5. CASE ns[1].scope[x] = fs[1].scope[x] /\ (x \in ns[1].inited => x \in fs[1].inited)
    BY <1>1, <1>3, <1>4, <1>5, <2>1, <2>2, <2>3, <2>4, <2>5 DEF FrameSound
  <2>6. CASE ~InLambdaAt(fs, 1) /\ (fs[1].live => ~UnsetFrom(ns, 1, x))
    <3>1. ASSUME fs[1].live, 1 < Len(fs), fs[1].kind \in Handing PROVE ~UnsetFrom(ns, 2, x)
      <4>1. SUFFICES ASSUME UnsetFrom(ns, 2, x) PROVE FALSE
        OBVIOUS
      <4>2. UnsetFrom(fs, 2, x)
        BY <2>3, <3>1, <4>1
      <4>3. \E j \in 2..Len(fs) : fs[j].real[x] # "none"
        BY <4>2 DEF UnsetFrom
      <4>4. fs[1].real[x] = "none"
        BY <2>1, <3>1, <4>3 DEF FrameSound
      <4>5. UnsetFrom(ns, 1, x)
        BY <2>2, <3>1, <4>1, <4>4, UnsetStep
      <4> QED
        BY <2>6, <3>1, <4>5
    <3> QED
      BY <1>1, <1>4, <1>5, <2>1, <2>2, <2>3, <2>4, <2>6, <3>1 DEF FrameSound
  <2> QED
    BY <2>5, <2>6
<1> QED
  BY <1>6, <1>7 DEF Sound

\* What is left when the innermost frame is popped.
LEMMA Pop ==
  ASSUME NEW fs \in Seq(FrameType), Len(fs) > 1, OnPath(fs)
  PROVE  LET ts == Tail(fs) IN
         /\ ts \in Seq(FrameType) /\ ts # <<>> /\ Len(ts) = Len(fs) - 1
         /\ \A i \in DOMAIN ts : ts[i] = fs[i + 1]
         /\ OnPath(ts)
         /\ InLambdaAt(ts, 1) => InLambdaAt(fs, 1)
         /\ \A x \in Name : /\ Sound(fs, x) => Sound(ts, x)
                            /\ UnsetFrom(ts, 1, x) => UnsetFrom(fs, 2, x)
<1> DEFINE ts == Tail(fs)
<1>1. ts \in Seq(FrameType) /\ ts # <<>> /\ Len(ts) = Len(fs) - 1 /\ \A i \in DOMAIN ts : ts[i] = fs[i + 1]
  <2>1. fs # <<>>
    OBVIOUS
  <2>2. ts \in Seq(FrameType) /\ Len(ts) = Len(fs) - 1 /\ \A i \in 1..Len(ts) : ts[i] = fs[i + 1]
    BY <2>1, HeadTailProperties
  <2> HIDE DEF ts
  <2>3. Len(ts) > 0 /\ DOMAIN ts = 1..Len(ts)
    BY <2>2
  <2> QED
    BY <2>2, <2>3
<1> HIDE DEF ts
<1>2. ASSUME NEW i \in DOMAIN ts
      PROVE  /\ FrameOnPath(fs, i + 1) => FrameOnPath(ts, i)
             /\ \A x \in Name : FrameSound(fs, i + 1, x) => FrameSound(ts, i, x)
             /\ \A x \in Name : UnsetFrom(ts, i, x) => UnsetFrom(fs, i + 1, x)
  <2>1. PICK d \in Int : d = -1
    OBVIOUS
  <2>2. PICK j \in DOMAIN fs : j = i + 1
    BY <1>1
  <2>3. j + d \in DOMAIN ts /\ Len(ts) = Len(fs) + d /\ j + d = i
    BY <1>1, <2>1, <2>2
  <2>4. \A k \in j..Len(fs) : ts[k + d] = fs[k]
    BY <1>1, <2>1, <2>2
  <2>5. /\ FrameOnPath(fs, j) => FrameOnPath(ts, j + d)
        /\ \A x \in Name : /\ FrameSound(fs, j, x) => FrameSound(ts, j + d, x)
                           /\ UnsetFrom(ts, j + d, x) => UnsetFrom(fs, j, x)
    BY <1>1, <2>3, <2>4, Shift
  <2> QED
    BY <2>2, <2>3, <2>5
<1>3. OnPath(ts)
  BY <1>1, <1>2 DEF OnPath
<1>4. \A x \in Name : Sound(fs, x) => Sound(ts, x)
  BY <1>1, <1>2 DEF Sound
<1>5. \A x \in Name : UnsetFrom(ts, 1, x) => UnsetFrom(fs, 2, x)
  BY <1>1, <1>2
<1>6. InLambdaAt(ts, 1) => InLambdaAt(fs, 1)
  BY <1>1 DEF InLambdaAt
<1> QED
  BY <1>1, <1>3, <1>4, <1>5, <1>6 DEF ts

\* A new innermost frame says nothing of x unless it binds it.
LEMMA Push ==
  ASSUME NEW fs \in Seq(FrameType), fs # <<>>, OnPath(fs), NEW g \in FrameType,
         g.kind # "func", g.live => fs[1].live, g.other => ~g.live /\ fs[1].live,
         g.kind = "block" /\ fs[1].live => g.live,
         g.kind = "then" /\ fs[1].live => g.live \/ g.other,
         g.scope = None, g.inited = {}
  PROVE  LET ns == <<g>> \o fs IN
         /\ ns \in Seq(FrameType) /\ Len(ns) = Len(fs) + 1 /\ OnPath(ns)
         /\ \A x \in Name :
              /\ Sound(fs, x) /\ g.real[x] # "no"
              /\ g.kind \in Handing /\ g.real[x] # "none" => \A j \in DOMAIN fs : fs[j].real[x] = "none"
              /\ g.kind = "else" /\ ~g.live /\ fs[1].live /\ x \in g.before => ~UnsetFrom(fs, 1, x)
              /\ g.kind = "lambda" \/ InLambdaAt(fs, 1) => x \notin g.before
              => Sound(ns, x)
<1> DEFINE ns == <<g>> \o fs
<1>1. ns \in Seq(FrameType) /\ Len(ns) = Len(fs) + 1 /\ ns[1] = g /\ \A i \in DOMAIN fs : ns[i + 1] = fs[i]
  OBVIOUS
<1>2. \A i \in 2..Len(ns) : i - 1 \in DOMAIN fs /\ ns[i] = fs[i - 1]
  BY <1>1
<1> HIDE DEF ns
<1>3. ASSUME NEW i \in DOMAIN fs
      PROVE  /\ FrameOnPath(fs, i) => FrameOnPath(ns, i + 1)
             /\ \A x \in Name : FrameSound(fs, i, x) => FrameSound(ns, i + 1, x)
             /\ \A x \in Name : UnsetFrom(ns, i + 1, x) => UnsetFrom(fs, i, x)
             /\ \A x \in Name : NotedFrom(fs, i, x) => NotedFrom(ns, i + 1, x)
  <2>1. i + 1 \in DOMAIN ns /\ 1 \in Int /\ Len(ns) = Len(fs) + 1
    BY <1>1
  <2>2. \A k \in i..Len(fs) : ns[k + 1] = fs[k]
    BY <1>1
  <2> QED
    BY <1>1, <2>1, <2>2, Shift
<1>4. FrameOnPath(ns, 1)
  <2>1. fs[1].live => \A j \in DOMAIN fs : fs[j].live
    BY DEF OnPath, FrameOnPath
  <2>2. g.live => \A j \in 1..Len(ns) : ns[j].live
    <3>1. SUFFICES ASSUME g.live, NEW j \in 1..Len(ns) PROVE ns[j].live
      OBVIOUS
    <3>2. CASE j = 1
      BY <1>1, <3>1, <3>2
    <3>3. CASE j \in 2..Len(ns)
      BY <1>2, <2>1, <3>1, <3>3
    <3> QED
      BY <1>1, <3>2, <3>3
  <2> QED
    BY <1>1, <2>2 DEF FrameOnPath
<1>5. OnPath(ns)
  <2>1. ASSUME NEW i \in 2..Len(ns) PROVE FrameOnPath(ns, i)
    <3>1. FrameOnPath(fs, i - 1) /\ (i - 1) + 1 = i
      BY <1>2 DEF OnPath
    <3> QED
      BY <1>2, <1>3, <3>1
  <2> QED
    BY <1>1, <1>4, <2>1 DEF OnPath
<1>6. ASSUME NEW x \in Name,
             Sound(fs, x), g.real[x] # "no",
             g.kind \in Handing /\ g.real[x] # "none" => \A j \in DOMAIN fs : fs[j].real[x] = "none",
             g.kind = "else" /\ ~g.live /\ fs[1].live /\ x \in g.before => ~UnsetFrom(fs, 1, x),
             g.kind = "lambda" \/ InLambdaAt(fs, 1) => x \notin g.before
      PROVE  Sound(ns, x)
  <2>1. ASSUME NEW i \in 2..Len(ns) PROVE FrameSound(ns, i, x)
    <3>1. FrameSound(fs, i - 1, x) /\ (i - 1) + 1 = i
      BY <1>2, <1>6 DEF Sound
    <3> QED
      BY <1>2, <1>3, <3>1
  <2>2. 1 \in DOMAIN ns /\ 1 < Len(ns) /\ ns[2] = fs[1] /\ 1 \in DOMAIN fs
    BY <1>1
  <2>3. UnsetFrom(ns, 1, x) => UnsetFrom(ns, 2, x)
    BY <1>1, <1>6, <2>2, UnsetStep
  <2>4. UnsetFrom(ns, 2, x) => UnsetFrom(fs, 1, x)
    BY <1>3, <2>2
  <2>5. NotedFrom(fs, 1, x) => NotedFrom(ns, 1, x)
    <3>1. g.scope[x] = "none"
      BY DEF None
    <3>2. NotedFrom(fs, 1, x) => NotedFrom(ns, 2, x)
      BY <1>3, <2>2
    <3> QED
      BY <1>1, <2>2, <3>1, <3>2, UnsetStep
  <2>6. InLambdaAt(ns, 1) => g.kind = "lambda" \/ InLambdaAt(fs, 1)
    <3>1. ASSUME NEW j \in 1..Len(ns), ns[j].kind = "lambda" PROVE g.kind = "lambda" \/ InLambdaAt(fs, 1)
      <4>1. CASE j = 1
        BY <1>1, <3>1, <4>1
      <4>2. CASE j \in 2..Len(ns)
        BY <1>2, <3>1, <4>2 DEF InLambdaAt
      <4> QED
        BY <1>1, <4>1, <4>2
    <3> QED
      BY <3>1 DEF InLambdaAt
  <2>7. (\A j \in DOMAIN fs : fs[j].real[x] = "none") => \A j \in (1 + 1)..Len(ns) : ns[j].real[x] = "none"
    BY <1>2
  <2>8. FrameSound(fs, 1, x)
    BY <1>6, <2>2 DEF Sound
  <2>9. FrameSound(ns, 1, x)
    BY <1>1, <1>6, <2>2, <2>3, <2>4, <2>5, <2>6, <2>7, <2>8 DEF FrameSound
  <2> QED
    BY <1>1, <2>1, <2>9 DEF Sound
<1> QED
  BY <1>1, <1>5, <1>6 DEF ns

\* The path through a stack depends on its kinds and on what is executed.
LEMMA SamePath ==
  ASSUME NEW fs \in Seq(FrameType), NEW ns \in Seq(FrameType), OnPath(fs), Len(ns) = Len(fs),
         \A i \in DOMAIN fs : ns[i].kind = fs[i].kind /\ ns[i].live = fs[i].live /\ ns[i].other = fs[i].other
  PROVE  OnPath(ns)
<1>1. DOMAIN ns = DOMAIN fs /\ ns # <<>> /\ \A i \in DOMAIN fs : i < Len(fs) => i + 1 \in DOMAIN fs
  BY DEF OnPath
<1>2. ASSUME NEW i \in DOMAIN fs PROVE FrameOnPath(ns, i)
  <2>1. FrameOnPath(fs, i)
    BY DEF OnPath
  <2>2. \A j \in i..Len(fs) : j \in DOMAIN fs
    OBVIOUS
  <2> QED
    BY <1>1, <2>1, <2>2 DEF FrameOnPath
<1> QED
  BY <1>1, <1>2 DEF OnPath

\* Lookups depend on the notes and declarations of x alone.
LEMMA SameLookups ==
  ASSUME NEW fs \in Seq(FrameType), NEW ns \in Seq(FrameType), Len(ns) = Len(fs), NEW a \in Nat \ {0}, NEW x \in Name
  PROVE  /\ (\A i \in DOMAIN fs : ns[i].real[x] = fs[i].real[x]) => (UnsetFrom(ns, a, x) <=> UnsetFrom(fs, a, x))
         /\ (\A i \in DOMAIN fs : ns[i].scope[x] = fs[i].scope[x]) => (NotedFrom(ns, a, x) <=> NotedFrom(fs, a, x))
<1>1. \A j \in a..Len(fs) : j \in DOMAIN fs /\ \A k \in a..(j - 1) : k \in DOMAIN fs
  OBVIOUS
<1>2. ASSUME \A i \in DOMAIN fs : ns[i].real[x] = fs[i].real[x]
      PROVE  UnsetFrom(ns, a, x) <=> UnsetFrom(fs, a, x)
  BY <1>1, <1>2 DEF UnsetFrom
<1>3. ASSUME \A i \in DOMAIN fs : ns[i].scope[x] = fs[i].scope[x]
      PROVE  NotedFrom(ns, a, x) <=> NotedFrom(fs, a, x)
  BY <1>1, <1>3 DEF NotedFrom
<1> QED
  BY <1>2, <1>3

\* The path leaves all frames up to the kth, which is no branch and no block.
LEMMA Left ==
  ASSUME NEW fs \in Seq(FrameType), OnPath(fs), fs[1].live, NEW k \in DOMAIN fs,
         fs[k].kind \notin {"block", "then", "else"},
         NEW ns \in Seq(FrameType), Len(ns) = Len(fs),
         \A i \in DOMAIN fs :
           /\ ns[i].kind = fs[i].kind /\ ns[i].live = (fs[i].live /\ i > k)
           /\ ns[i].other => fs[i].other \/ (i = k /\ fs[k].kind # "func")
           /\ ns[i].scope = fs[i].scope /\ ns[i].real = fs[i].real
           /\ ns[i].inited = fs[i].inited /\ ns[i].before = fs[i].before
  PROVE  OnPath(ns) /\ \A x \in Name : Sound(fs, x) => Sound(ns, x)
<1>1. DOMAIN ns = DOMAIN fs /\ ns # <<>> /\ k \in 1..Len(fs) /\ \A i \in DOMAIN fs : i \in Nat /\ (i < Len(fs) => i + 1 \in DOMAIN fs)
  BY DEF OnPath
<1>2. \A i \in DOMAIN fs : fs[i].live
  <2>1. 1 \in DOMAIN fs /\ \A i \in DOMAIN fs : i \in 1..Len(fs)
    BY <1>1
  <2> QED
    BY <2>1 DEF OnPath, FrameOnPath
<1>3. \A i \in DOMAIN fs : ns[i].live <=> i > k
  BY <1>2
<1>4. \A i \in DOMAIN fs : ns[i].other => i = k /\ k < Len(fs)
  BY <1>1, <1>2 DEF OnPath, FrameOnPath
<1>5. ASSUME NEW i \in DOMAIN fs PROVE FrameOnPath(ns, i)
  <2>1. ns[i].kind = "func" <=> i = Len(ns)
    BY DEF OnPath, FrameOnPath
  <2>2. ns[i].live => \A j \in i..Len(ns) : ns[j].live
    <3>1. \A j \in i..Len(ns) : j \in DOMAIN fs /\ j >= i
      BY <1>1
    <3> QED
      BY <1>1, <1>3, <3>1
  <2>3. ns[i].other => ~ns[i].live /\ i < Len(ns) /\ ns[i + 1].live
    BY <1>1, <1>3, <1>4
  <2>4. i < Len(ns) /\ ns[i + 1].live => ns[i].live \/ ns[i].kind \notin {"block", "then"}
    <3>1. i < Len(ns) /\ ns[i + 1].live => i > k \/ i = k
      BY <1>1, <1>3
    <3> QED
      BY <1>3, <3>1
  <2> QED
    BY <2>1, <2>2, <2>3, <2>4 DEF FrameOnPath
<1>6. ASSUME NEW x \in Name, Sound(fs, x), NEW i \in DOMAIN fs PROVE FrameSound(ns, i, x)
  <2>1. FrameSound(fs, i, x)
    BY <1>6 DEF Sound
  <2>2. \A j \in i..Len(fs) : j \in DOMAIN fs
    BY <1>1
  <2>3. /\ UnsetFrom(ns, i, x) => UnsetFrom(fs, i, x)
        /\ NotedFrom(fs, i, x) => NotedFrom(ns, i, x)
        /\ InLambdaAt(ns, i) => InLambdaAt(fs, i)
    <3>1. i \in Nat \ {0}
      BY <1>1
    <3> QED
      BY <2>2, <3>1, SameLookups DEF InLambdaAt
  <2>4. i < Len(fs) => (UnsetFrom(ns, i + 1, x) => UnsetFrom(fs, i + 1, x))
    <3>1. i + 1 \in Nat \ {0}
      BY <1>1
    <3> QED
      BY <3>1, SameLookups
  <2>5. (\A j \in (i + 1)..Len(fs) : fs[j].real[x] = "none") => \A j \in (i + 1)..Len(ns) : ns[j].real[x] = "none"
    BY <1>1
  <2>6. ns[i].kind = "else" /\ i < Len(ns) /\ ns[i + 1].live => ns[i].live
    <3>1. i < Len(ns) /\ ns[i + 1].live => i > k \/ i = k
      BY <1>1, <1>3
    <3> QED
      BY <1>3, <3>1
  <2> QED
    BY <1>2, <2>1, <2>3, <2>4, <2>5, <2>6 DEF FrameSound
<1> QED
  BY <1>1, <1>5, <1>6 DEF OnPath, Sound

\* What is handed to the frame below was found to have a value.
LEMMA Handed ==
  ASSUME NEW fs \in Seq(FrameType), Len(fs) > 1, OnPath(fs), NEW ids \in SUBSET Name
  PROVE  LET ns == Mark(Tail(fs), ids) IN
         /\ ns \in Seq(FrameType) /\ OnPath(ns)
         /\ \A x \in Name :
              /\ Sound(fs, x)
              /\ x \in ids => ~InLambdaAt(fs, 1) /\ (fs[2].live => ~UnsetFrom(fs, 2, x))
              => Sound(ns, x)
<1> DEFINE ts == Tail(fs)
           ns == Mark(ts, ids)
<1>1. /\ ts \in Seq(FrameType) /\ ts # <<>> /\ Len(ts) = Len(fs) - 1 /\ ts[1] = fs[2] /\ 1 \in DOMAIN ts
      /\ OnPath(ts) /\ (InLambdaAt(ts, 1) => InLambdaAt(fs, 1))
      /\ \A x \in Name : (Sound(fs, x) => Sound(ts, x)) /\ (UnsetFrom(ts, 1, x) => UnsetFrom(fs, 2, x))
  <2>1. \A i \in DOMAIN ts : ts[i] = fs[i + 1]
    BY Pop
  <2>2. ts \in Seq(FrameType) /\ ts # <<>> /\ Len(ts) = Len(fs) - 1
    BY Pop
  <2>3. /\ OnPath(ts) /\ (InLambdaAt(ts, 1) => InLambdaAt(fs, 1))
        /\ \A x \in Name : (Sound(fs, x) => Sound(ts, x)) /\ (UnsetFrom(ts, 1, x) => UnsetFrom(fs, 2, x))
    BY Pop
  <2> HIDE DEF ts
  <2>4. 1 \in DOMAIN ts
    BY <2>2
  <2> QED
    BY <2>1, <2>2, <2>3, <2>4
<1> HIDE DEF ts
<1>2. /\ ns \in Seq(FrameType) /\ Len(ns) = Len(ts)
      /\ \A i \in 2..Len(ts) : ns[i] = ts[i]
      /\ ns[1].kind = ts[1].kind /\ ns[1].live = ts[1].live /\ ns[1].other = ts[1].other
      /\ ns[1].before = ts[1].before /\ ns[1].real = ts[1].real
      /\ \A x \in Name \ ids : ns[1].scope[x] = ts[1].scope[x] /\ (x \in ns[1].inited <=> x \in ts[1].inited)
  BY <1>1, MarkProps
<1> HIDE DEF ns
<1>3. \A i \in DOMAIN ts : /\ ns[i].kind = ts[i].kind /\ ns[i].live = ts[i].live /\ ns[i].other = ts[i].other
                           /\ ns[i].before = ts[i].before /\ ns[i].real = ts[i].real
  <2>1. \A i \in DOMAIN ts : i = 1 \/ i \in 2..Len(ts)
    BY <1>1
  <2> QED
    BY <1>2, <2>1
<1>4. OnPath(ns)
  BY <1>1, <1>2, <1>3, SamePath
<1>5. ASSUME NEW x \in Name, Sound(fs, x),
             x \in ids => ~InLambdaAt(fs, 1) /\ (fs[2].live => ~UnsetFrom(fs, 2, x))
      PROVE  Sound(ns, x)
  <2>1. Sound(ts, x)
    BY <1>1, <1>5
  <2>2. UnsetFrom(ns, 1, x) => UnsetFrom(ts, 1, x)
    <3>1. \A i \in 1..Len(ts) : ns[i].real[x] = ts[i].real[x]
      BY <1>1, <1>3
    <3> QED
      BY <1>1, <1>2, <3>1 DEF UnsetFrom
  <2>3. \/ ns[1].scope[x] = ts[1].scope[x] /\ (x \in ns[1].inited => x \in ts[1].inited)
        \/ ~InLambdaAt(ts, 1) /\ (ts[1].live => ~UnsetFrom(ns, 1, x))
    BY <1>1, <1>2, <1>5, <2>2
  <2>4. \A i \in DOMAIN ts :
          /\ ns[i].kind = ts[i].kind /\ ns[i].live = ts[i].live /\ ns[i].before = ts[i].before
          /\ ns[i].real[x] = ts[i].real[x] \/ (ts[i].real[x] # "none" /\ ns[i].real[x] = "yes")
    BY <1>3
  <2>5. \A i \in 2..Len(ts) : ns[i].scope[x] = ts[i].scope[x] /\ ns[i].inited = ts[i].inited
    BY <1>2
  <2> QED
    BY <1>1, <1>2, <2>1, <2>3, <2>4, <2>5, Changes
<1> QED
  BY <1>2, <1>4, <1>5 DEF ns, ts

\* An assignment is noted, and on the path made.
LEMMA AssignSound ==
  ASSUME NEW fs \in Seq(FrameType), OnPath(fs), NEW x \in Name, Declared(fs, x) # {}
  PROVE  LET ns == Store(Mark(fs, {x}), x) IN
         /\ ns \in Seq(FrameType) /\ OnPath(ns)
         /\ ~InLambdaAt(fs, 1) => \A y \in Name : Sound(fs, y) => Sound(ns, y)
<1> DEFINE ms == Mark(fs, {x})
           ns == Store(ms, x)
<1>0. fs # <<>> /\ 1 \in DOMAIN fs
  BY DEF OnPath
<1>1. /\ ms \in Seq(FrameType) /\ Len(ms) = Len(fs)
      /\ \A i \in 2..Len(fs) : ms[i] = fs[i]
      /\ ms[1].kind = fs[1].kind /\ ms[1].live = fs[1].live /\ ms[1].other = fs[1].other
      /\ ms[1].before = fs[1].before /\ ms[1].real = fs[1].real
      /\ \A y \in Name \ {x} : ms[1].scope[y] = fs[1].scope[y] /\ (y \in ms[1].inited <=> y \in fs[1].inited)
  BY <1>0, MarkProps
<1> HIDE DEF ms
<1>2. \A i \in DOMAIN fs : ms[i].kind = fs[i].kind /\ ms[i].live = fs[i].live /\ ms[i].other = fs[i].other
                           /\ ms[i].before = fs[i].before /\ ms[i].real = fs[i].real
  <2>1. \A i \in DOMAIN fs : i = 1 \/ i \in 2..Len(fs)
    OBVIOUS
  <2> QED
    BY <1>1, <2>1
<1>3. Declared(ms, x) # {} /\ ms # <<>> /\ DOMAIN ms = DOMAIN fs
  <2>1. DOMAIN ms = DOMAIN fs /\ ms # <<>>
    BY <1>0, <1>1
  <2> QED
    BY <1>2, <2>1 DEF Declared
<1>4. /\ ns \in Seq(FrameType) /\ Len(ns) = Len(ms)
      /\ \A i \in DOMAIN ms :
           /\ ns[i].kind = ms[i].kind /\ ns[i].live = ms[i].live /\ ns[i].other = ms[i].other
           /\ ns[i].before = ms[i].before /\ ns[i].inited = ms[i].inited /\ ns[i].scope = ms[i].scope
           /\ \A y \in Name : \/ ns[i].real[y] = ms[i].real[y]
                              \/ ms[i].real[y] # "none" /\ ns[i].real[y] = "yes"
      /\ ms[1].live => ~UnsetFrom(ns, 1, x)
  BY <1>1, <1>3, StoreProps
<1> HIDE DEF ns
<1>5. \A i \in DOMAIN fs :
        /\ ns[i].kind = fs[i].kind /\ ns[i].live = fs[i].live /\ ns[i].other = fs[i].other /\ ns[i].before = fs[i].before
        /\ \A y \in Name : ns[i].real[y] = fs[i].real[y] \/ (fs[i].real[y] # "none" /\ ns[i].real[y] = "yes")
  BY <1>2, <1>3, <1>4
<1>6. OnPath(ns)
  BY <1>0, <1>1, <1>4, <1>5, SamePath
<1>7. ASSUME ~InLambdaAt(fs, 1), NEW y \in Name, Sound(fs, y) PROVE Sound(ns, y)
  <2>1. \A i \in 2..Len(fs) : ns[i].scope[y] = fs[i].scope[y] /\ ns[i].inited = fs[i].inited
    BY <1>1, <1>3, <1>4
  <2>2. \/ ns[1].scope[y] = fs[1].scope[y] /\ (y \in ns[1].inited => y \in fs[1].inited)
        \/ ~InLambdaAt(fs, 1) /\ (fs[1].live => ~UnsetFrom(ns, 1, y))
    BY <1>0, <1>1, <1>3, <1>4, <1>7
  <2>3. \A i \in DOMAIN fs :
          /\ ns[i].kind = fs[i].kind /\ ns[i].live = fs[i].live /\ ns[i].before = fs[i].before
          /\ ns[i].real[y] = fs[i].real[y] \/ (fs[i].real[y] # "none" /\ ns[i].real[y] = "yes")
    BY <1>5
  <2>4. ns \in Seq(FrameType) /\ Len(ns) = Len(fs) /\ Sound(fs, y) /\ fs # <<>>
    BY <1>0, <1>1, <1>4, <1>7
  <2> QED
    BY <2>1, <2>2, <2>3, <2>4, Changes
<1> QED
  BY <1>4, <1>6, <1>7 DEF ns, ms

\* A note on a name that no frame declares is of no consequence.
LEMMA NotedOnly ==
  ASSUME NEW fs \in Seq(FrameType), NEW ns \in Seq(FrameType), Len(ns) = Len(fs), NEW x \in Name,
         Sound(fs, x), Declared(fs, x) = {},
         \A i \in DOMAIN fs :
           /\ ns[i].kind = fs[i].kind /\ ns[i].live = fs[i].live /\ ns[i].real = fs[i].real
           /\ ns[i].inited = fs[i].inited /\ ns[i].before = fs[i].before
  PROVE  Sound(ns, x)
<1>1. \A i \in DOMAIN fs : ns[i].real[x] = "none"
  BY DEF Declared
<1>2. ASSUME NEW i \in DOMAIN fs PROVE FrameSound(ns, i, x)
  <2>1. FrameSound(fs, i, x) /\ i \in 1..Len(fs)
    BY DEF Sound
  <2>2. \A j \in i..Len(fs) : j \in DOMAIN fs
    BY <2>1
  <2>3. ~UnsetFrom(ns, i, x)
    BY <1>1, <2>2 DEF UnsetFrom
  <2>4. ~UnsetFrom(ns, i + 1, x) /\ \A j \in (i + 1)..Len(ns) : ns[j].real[x] = "none"
    <3>1. \A j \in (i + 1)..Len(fs) : j \in DOMAIN fs
      BY <2>1
    <3> QED
      BY <1>1, <3>1 DEF UnsetFrom
  <2>5. InLambdaAt(ns, i) => InLambdaAt(fs, i)
    BY <2>2 DEF InLambdaAt
  <2> QED
    BY <2>1, <2>3, <2>4, <2>5 DEF FrameSound
<1> QED
  BY <1>2 DEF Sound

\* A name that nothing declares or notes is declared in the innermost frame.
LEMMA Declares ==
  ASSUME NEW fs \in Seq(FrameType), NEW ns \in Seq(FrameType), fs # <<>>, Len(ns) = Len(fs), NEW x \in Name,
         Sound(fs, x), Declared(fs, x) = {},
         \A i \in 2..Len(fs) : ns[i] = fs[i],
         ns[1].kind = fs[1].kind, ns[1].live = fs[1].live, ns[1].inited = fs[1].inited, ns[1].before = fs[1].before,
         ns[1].real[x] = "no" => ns[1].scope[x] = "no"
  PROVE  Sound(ns, x)
<1>0. 1 \in DOMAIN fs /\ DOMAIN ns = DOMAIN fs /\ \A i \in 2..Len(fs) : i \in DOMAIN fs
  OBVIOUS
<1>1. \A i \in 2..Len(fs) : ns[i].real[x] = "none" /\ fs[i].real[x] = "none"
  BY <1>0 DEF Declared
<1>2. ASSUME NEW i \in 2..Len(fs) PROVE ~UnsetFrom(ns, i, x)
  <2>1. \A j \in i..Len(fs) : j \in 2..Len(fs)
    OBVIOUS
  <2> QED
    BY <1>1, <2>1 DEF UnsetFrom
<1>3. ~UnsetFrom(ns, Len(fs) + 1, x)
  BY DEF UnsetFrom
<1>4. ASSUME NEW i \in 2..Len(fs) PROVE FrameSound(ns, i, x)
  <2>1. FrameSound(fs, i, x)
    BY <1>0 DEF Sound
  <2>2. ~UnsetFrom(ns, i, x) /\ (i < Len(fs) => ~UnsetFrom(ns, i + 1, x))
    BY <1>2
  <2>3. InLambdaAt(ns, i) => InLambdaAt(fs, i)
    <3>1. \A j \in i..Len(fs) : j \in 2..Len(fs)
      OBVIOUS
    <3> QED
      BY <3>1 DEF InLambdaAt
  <2>4. \A j \in (i + 1)..Len(ns) : ns[j].real[x] = "none"
    BY <1>1
  <2> QED
    BY <2>1, <2>2, <2>3, <2>4 DEF FrameSound
<1>5. FrameSound(ns, 1, x)
  <2>1. FrameSound(fs, 1, x)
    BY <1>0 DEF Sound
  <2>2. 1 < Len(fs) => ~UnsetFrom(ns, 2, x)
    BY <1>2
  <2>3. UnsetFrom(ns, 1, x) => NotedFrom(ns, 1, x)
    BY <1>0, <2>2, UnsetStep
  <2>4. InLambdaAt(ns, 1) => InLambdaAt(fs, 1)
    <3>1. \A j \in 1..Len(fs) : ns[j].kind = fs[j].kind
      BY <1>0
    <3> QED
      BY <3>1 DEF InLambdaAt
  <2>5. \A j \in (1 + 1)..Len(ns) : ns[j].real[x] = "none"
    BY <1>1
  <2> QED
    BY <1>0, <2>1, <2>2, <2>3, <2>4, <2>5 DEF FrameSound
<1> QED
  BY <1>0, <1>4, <1>5 DEF Sound

\* The frames that the handlers push.
LEMMA FrameOK ==
  ASSUME NEW kind \in Kinds, NEW live \in BOOLEAN, NEW other \in BOOLEAN, NEW b \in Var \cup {NoName}
  PROVE  LET g == Frame(kind, live, other, b) IN
         /\ g \in FrameType
         /\ g.kind = kind /\ g.live = live /\ g.other = other
         /\ g.scope = None /\ g.inited = {} /\ g.before = {}
         /\ \A x \in Name : g.real[x] = IF x = b THEN "yes" ELSE "none"
  BY DEF Frame, FrameType, None, Status

\* Fields are no variables.
LEMMA Apart == Var \cap Field = {} /\ NoName \notin Name /\ Var \subseteq Name /\ Field \subseteq Name
  BY NamesAssumption DEF Name

-----------------------------------------------------------------------------
(* The steps *)

\* A step that neither reads nor ends the function owes nothing but the frames.
LEMMA Owed ==
  ASSUME IInv, verdict = "analysing", UNCHANGED <<verdict, bad>>,
         holes \subseteq holes', holes' \subseteq {"shadow", "lambda", "operand"},
         frames' \in Seq(FrameType), OnPath(frames'),
         \A x \in Name : Clean(x)' => Sound(frames', x)
  PROVE  IInv'
<1>1. TypeOK'
  BY DEF IInv, TypeOK
<1>2. VisitedReadsAssigned'
  BY DEF IInv, VisitedReadsAssigned
<1>3. FieldsAssigned' /\ (Analysing => "field" \notin bad)'
  BY DEF IInv, FieldsAssigned, Analysing
<1> QED
  BY <1>1, <1>2, <1>3 DEF IInv

\* A name that further holes leave alone was left alone before.
LEMMA CleanBefore ==
  ASSUME NEW x \in Name, holes \subseteq holes', Clean(x)'
  PROVE  Clean(x)
  BY DEF Clean

\* A read of what has no value is noted as such.
LEMMA Caught ==
  ASSUME IInv, NEW x \in Name, Clean(x), Top.live, Unset(x)
  PROVE  NotedFrom(frames, 1, x) /\ getIdentifier(frames, x) = "no"
<1>1. frames \in Seq(FrameType) /\ 1 \in DOMAIN frames
  BY DEF IInv, TypeOK, OnPath
<1>2. UnsetFrom(frames, 1, x)
  BY <1>1, UnsetProps DEF Unset, Visible
<1>3. FrameSound(frames, 1, x)
  BY <1>1 DEF IInv, Sound
<1>4. NotedFrom(frames, 1, x)
  BY <1>2, <1>3 DEF FrameSound, Top
<1> QED
  BY <1>1, <1>4, NotedProps

\* The analysis of a new function holds nothing.
LEMMA InitInv ==
  ASSUME Init PROVE IInv
<1>1. PICK args \in SUBSET Var, preset \in SUBSET Field : frames = NewFunction(args, preset)
  BY DEF Init
<1> DEFINE entry == [x \in Name |-> IF x \in args \cup preset THEN "yes"
                               ELSE IF x \in Field /\ "field" \in Constructs THEN "no" ELSE "none"]
           g == Frame("func", TRUE, FALSE, NoName)
           f == [g EXCEPT !.scope = entry, !.real = entry]
           b == Frame("block", TRUE, FALSE, NoName)
<1>0. "func" \in Kinds /\ "block" \in Kinds /\ TRUE \in BOOLEAN /\ FALSE \in BOOLEAN /\ NoName \in Var \cup {NoName}
  BY DEF Kinds
<1>2. /\ g \in FrameType /\ g.kind = "func" /\ g.live = TRUE /\ g.other = FALSE /\ g.inited = {} /\ g.before = {}
  BY <1>0 DEF Frame, FrameType, None, Status
<1>3. /\ b \in FrameType /\ b.kind = "block" /\ b.live = TRUE /\ b.other = FALSE /\ b.inited = {} /\ b.before = {} /\ b.scope = None
      /\ \A x \in Name : b.real[x] = IF x = NoName THEN "yes" ELSE "none"
  BY <1>0 DEF Frame, FrameType, None, Status
<1>4. entry \in [Name -> Status]
  BY DEF Status
<1>5. frames = <<b, f>>
  BY <1>1 DEF NewFunction
<1> HIDE DEF entry, g, b
<1>6. /\ f \in FrameType /\ f.kind = "func" /\ f.live = TRUE /\ f.other = FALSE /\ f.inited = {} /\ f.before = {}
      /\ f.scope = entry /\ f.real = entry
  BY <1>2, <1>4 DEF FrameType
<1> HIDE DEF f
<1> DEFINE fs == <<f>>
<1>7. fs \in Seq(FrameType) /\ fs # <<>> /\ Len(fs) = 1 /\ fs[1] = f /\ DOMAIN fs = {1}
  BY <1>6
<1>8. frames = <<b>> \o fs
  BY <1>5
<1> HIDE DEF fs
<1>9. OnPath(fs)
  <2>1. FrameOnPath(fs, 1)
    BY <1>6, <1>7 DEF FrameOnPath
  <2> QED
    BY <1>7, <2>1 DEF OnPath
<1>10. ASSUME NEW x \in Name PROVE Sound(fs, x)
  <2>1. UnsetFrom(fs, 1, x) => NotedFrom(fs, 1, x)
    BY <1>6, <1>7 DEF UnsetFrom, NotedFrom
  <2>2. FrameSound(fs, 1, x)
    BY <1>6, <1>7, <2>1 DEF FrameSound
  <2> QED
    BY <1>7, <2>2 DEF Sound
<1>11. ASSUME NEW x \in Name PROVE b.real[x] = "none"
  BY <1>3, Apart
<1>12. frames \in Seq(FrameType) /\ OnPath(frames) /\ \A x \in Name : Sound(frames, x)
  BY <1>3, <1>6, <1>7, <1>8, <1>9, <1>10, <1>11, Push
<1> QED
  BY <1>12 DEF Init, IInv, TypeOK, VisitedReadsAssigned, FieldsAssigned, Analysing

\* What IInv says of the frames.
LEMMA FramesOK ==
  ASSUME IInv
  PROVE  /\ frames \in Seq(FrameType) /\ frames # <<>> /\ 1 \in DOMAIN frames /\ OnPath(frames)
         /\ Len(frames) \in Nat /\ Top \in FrameType
         /\ \A x \in Name : Clean(x) => Sound(frames, x)
         /\ holes \subseteq {"shadow", "lambda", "operand"}
<1>1. frames \in Seq(FrameType) /\ frames # <<>> /\ OnPath(frames)
  BY DEF IInv, TypeOK, OnPath
<1> QED
  BY <1>1 DEF IInv, TypeOK, Top

\* A new variable is sound where it is no shadow; the others are as they were.
LEMMA VariableDeclInv ==
  ASSUME IInv, NEW x \in Var, NEW init \in {"no", "yes"}, VariableDecl(x, init)
  PROVE  IInv'
<1> DEFINE g == [frames[1] EXCEPT !.scope[x] = IF @ # "none" THEN @ ELSE init, !.real[x] = init]
<1>1. frames \in Seq(FrameType) /\ frames # <<>> /\ 1 \in DOMAIN frames /\ OnPath(frames) /\ frames[1] \in FrameType
  BY FramesOK DEF Top
<1>2. frames' = [frames EXCEPT ![1] = g]
  BY <1>1 DEF VariableDecl, FrameType
<1>3. x \in Name /\ x \notin Field /\ init \in Status
  BY Apart DEF Status
<1>4. /\ g \in FrameType /\ g.kind = frames[1].kind /\ g.live = frames[1].live /\ g.other = frames[1].other
      /\ g.inited = frames[1].inited /\ g.before = frames[1].before
      /\ g.real[x] = init /\ g.scope[x] = (IF frames[1].scope[x] # "none" THEN frames[1].scope[x] ELSE init)
      /\ \A y \in Name \ {x} : g.real[y] = frames[1].real[y] /\ g.scope[y] = frames[1].scope[y]
  BY <1>1, <1>3 DEF FrameType
<1> HIDE DEF g
<1>5. /\ frames' \in Seq(FrameType) /\ Len(frames') = Len(frames) /\ frames'[1] = g
      /\ \A i \in 2..Len(frames) : frames'[i] = frames[i]
      /\ \A i \in DOMAIN frames : i = 1 \/ i \in 2..Len(frames)
  BY <1>1, <1>2, <1>4
<1>6. OnPath(frames')
  <2>1. \A i \in DOMAIN frames : frames'[i].kind = frames[i].kind /\ frames'[i].live = frames[i].live /\ frames'[i].other = frames[i].other
    BY <1>4, <1>5
  <2> QED
    BY <1>1, <1>5, <2>1, SamePath
<1>7. holes \subseteq holes' /\ holes' \subseteq {"shadow", "lambda", "operand"}
  BY FramesOK DEF VariableDecl
<1>8. ASSUME NEW y \in Name, Clean(y)' PROVE Sound(frames', y)
  <2>1. Sound(frames, y)
    BY <1>7, <1>8, CleanBefore, FramesOK
  <2>2. CASE y = x
    <3>1. ~Visible(x) /\ frames[1].scope[x] = "none"
      BY <1>3, <1>8, <2>2 DEF VariableDecl, Clean, Top
    <3>2. Declared(frames, x) = {}
      BY <3>1 DEF Visible
    <3>3. frames'[1].real[x] = "no" => frames'[1].scope[x] = "no"
      BY <1>4, <1>5, <3>1
    <3> QED
      BY <1>1, <1>3, <1>4, <1>5, <2>1, <2>2, <3>2, <3>3, Declares
  <2>3. CASE y # x
    <3>1. \A i \in DOMAIN frames :
            /\ frames'[i].kind = frames[i].kind /\ frames'[i].live = frames[i].live /\ frames'[i].before = frames[i].before
            /\ frames'[i].real[y] = frames[i].real[y]
      BY <1>4, <1>5, <2>3
    <3>2. frames'[1].scope[y] = frames[1].scope[y] /\ frames'[1].inited = frames[1].inited
      BY <1>4, <1>5, <2>3
    <3> QED
      BY <1>1, <1>5, <2>1, <3>1, <3>2, Changes
  <2> QED
    BY <2>2, <2>3
<1> QED
  BY <1>5, <1>6, <1>7, <1>8, Owed DEF VariableDecl, Analysing

\* A read that finds no value is refused.
LEMMA ReadInv ==
  ASSUME IInv, NEW x \in Name, NEW runs \in BOOLEAN, Read(x, runs)
  PROVE  IInv'
<1>1. TypeOK' /\ (Analysing => "field" \notin bad)'
  BY DEF IInv, TypeOK, Read, Witness, Analysing
<1>2. OnPath(frames)' /\ \A y \in Name : Clean(y)' => Sound(frames, y)'
  BY DEF IInv, Read, Clean
<1>3. VisitedReadsAssigned'
  <2>1. SUFFICES ASSUME verdict' # "rejected", "read" \in bad', holes = {} PROVE FALSE
    BY DEF VisitedReadsAssigned, Read
  <2>2. verdict # "rejected" /\ "read" \notin bad
    BY <2>1 DEF Read, Analysing, IInv, VisitedReadsAssigned
  <2>3. Top.live /\ Unset(x)
    BY <2>1, <2>2 DEF Read, Witness
  <2>4. Clean(x)
    BY <2>1 DEF Clean
  <2> QED
    BY <2>1, <2>3, <2>4, Caught DEF Read
<1>4. FieldsAssigned'
  BY DEF FieldsAssigned, Read, Analysing
<1> QED
  BY <1>1, <1>2, <1>3, <1>4 DEF IInv

\* What is not visited leaves no trace in the analysis.
LEMMA CalleeReadInv ==
  ASSUME IInv, NEW x \in Var, CalleeRead(x)
  PROVE  IInv'
  BY DEF IInv, TypeOK, CalleeRead, Witness, VisitedReadsAssigned, FieldsAssigned, Analysing, Clean

\* An assignment that the path makes, outside of lambdas, keeps the analysis
\* sound; one that it skips concerns every name.
LEMMA AssignedFrames ==
  ASSUME IInv, NEW x \in Name, NEW runs \in BOOLEAN, Visible(x), frames' = Assigned(x, runs),
         holes' = holes \cup AssignmentHoles(runs)
  PROVE  /\ frames' \in Seq(FrameType) /\ OnPath(frames')
         /\ holes \subseteq holes' /\ holes' \subseteq {"shadow", "lambda", "operand"}
         /\ \A y \in Name : Clean(y)' => Sound(frames', y)
<1>1. holes \subseteq holes' /\ holes' \subseteq {"shadow", "lambda", "operand"}
  BY FramesOK DEF AssignmentHoles
<1>2. CASE runs
  <2>1. /\ frames' \in Seq(FrameType) /\ OnPath(frames')
        /\ ~InLambdaAt(frames, 1) => \A y \in Name : Sound(frames, y) => Sound(frames', y)
    BY <1>2, FramesOK, AssignSound DEF Visible, Assigned
  <2>2. ASSUME NEW y \in Name, Clean(y)' PROVE Sound(frames', y)
    <3>1. ~InLambda
      BY <2>2 DEF Clean, AssignmentHoles
    <3>2. ~InLambdaAt(frames, 1)
      BY <3>1, FramesOK DEF InLambda, InLambdaAt
    <3> QED
      BY <1>1, <2>1, <2>2, <3>2, CleanBefore, FramesOK
  <2> QED
    BY <1>1, <2>1, <2>2
<1>3. CASE ~runs
  <2> DEFINE ms == Mark(frames, {x})
  <2>1. frames' = ms
    BY <1>3 DEF Assigned
  <2>2. /\ ms \in Seq(FrameType) /\ Len(ms) = Len(frames)
        /\ \A i \in 2..Len(frames) : ms[i] = frames[i]
        /\ ms[1].kind = frames[1].kind /\ ms[1].live = frames[1].live /\ ms[1].other = frames[1].other
    BY FramesOK, MarkProps
  <2> HIDE DEF ms
  <2>3. \A i \in DOMAIN frames :
          ms[i].kind = frames[i].kind /\ ms[i].live = frames[i].live /\ ms[i].other = frames[i].other
    <3>1. \A i \in DOMAIN frames : i = 1 \/ i \in 2..Len(frames)
      BY FramesOK
    <3> QED
      BY <2>2, <3>1
  <2>4. OnPath(ms)
    BY <2>2, <2>3, FramesOK, SamePath
  <2>5. \A y \in Name : ~Clean(y)'
    BY <1>3 DEF Clean, AssignmentHoles
  <2> QED
    BY <1>1, <2>1, <2>2, <2>4, <2>5
<1> QED
  BY <1>2, <1>3

\* x = e.
LEMMA AssignInv ==
  ASSUME IInv, NEW x \in Var, NEW r \in Name \cup {NoName}, NEW runs \in BOOLEAN, Assign(x, r, runs)
  PROVE  IInv'
<1>1. /\ frames' \in Seq(FrameType) /\ OnPath(frames')
      /\ holes \subseteq holes' /\ holes' \subseteq {"shadow", "lambda", "operand"}
      /\ \A y \in Name : Clean(y)' => Sound(frames', y)
  BY Apart, AssignedFrames DEF Assign
<1>2. /\ verdict = "analysing" /\ verdict' \in {"analysing", "rejected"}
      /\ bad \subseteq bad' /\ bad' \subseteq bad \cup {"rhs"}
  BY DEF Assign, Analysing, Witness
<1>3. TypeOK' /\ VisitedReadsAssigned' /\ FieldsAssigned' /\ (Analysing => "field" \notin bad)'
  BY <1>1, <1>2 DEF IInv, TypeOK, VisitedReadsAssigned, FieldsAssigned, Analysing
<1> QED
  BY <1>1, <1>3 DEF IInv

\* self.f = e: e is visited with f noted, which is the note of no other name.
LEMMA AssignFieldInv ==
  ASSUME IInv, NEW f \in Field, NEW r \in Name \cup {NoName}, NEW runs \in BOOLEAN, AssignField(f, r, runs)
  PROVE  IInv'
<1>1. /\ frames' \in Seq(FrameType) /\ OnPath(frames')
      /\ holes \subseteq holes' /\ holes' \subseteq {"shadow", "lambda", "operand"}
      /\ \A y \in Name : Clean(y)' => Sound(frames', y)
  BY Apart, AssignedFrames DEF AssignField
<1>2. /\ verdict = "analysing" /\ verdict' \in {"analysing", "rejected"}
      /\ bad' \subseteq bad \cup {"read", "own"}
  BY DEF AssignField, Analysing, Witness
<1>3. TypeOK' /\ FieldsAssigned' /\ (Analysing => "field" \notin bad)'
  BY <1>1, <1>2 DEF IInv, TypeOK, FieldsAssigned, Analysing
<1>4. VisitedReadsAssigned'
  <2>1. SUFFICES ASSUME verdict' # "rejected", "read" \in bad', holes = {} PROVE FALSE
    BY <1>1 DEF VisitedReadsAssigned
  <2>2. verdict # "rejected" /\ "read" \notin bad
    BY <1>2, <2>1 DEF IInv, VisitedReadsAssigned
  <2>3. Top.live /\ Unset(r) /\ r \in Name /\ r # f
    BY <2>1, <2>2 DEF AssignField, Witness
  <2>4. NotedFrom(frames, 1, r)
    BY <2>1, <2>3, Caught DEF Clean
  <2> DEFINE ms == Mark(frames, {f})
  <2>5. /\ ms \in Seq(FrameType) /\ Len(ms) = Len(frames)
        /\ \A i \in 2..Len(frames) : ms[i] = frames[i]
        /\ \A y \in Name \ {f} : ms[1].scope[y] = frames[1].scope[y]
    BY FramesOK, Apart, MarkProps
  <2>6. getIdentifier(ms, r) # "no"
    BY <2>1, <2>3, Apart DEF AssignField
  <2> HIDE DEF ms
  <2>7. \A i \in DOMAIN frames : ms[i].scope[r] = frames[i].scope[r]
    <3>1. \A i \in DOMAIN frames : i = 1 \/ i \in 2..Len(frames)
      BY FramesOK
    <3> QED
      BY <2>3, <2>5, <3>1
  <2>8. NotedFrom(ms, 1, r)
    BY <2>3, <2>4, <2>5, <2>7, FramesOK, SameLookups
  <2> QED
    BY <2>3, <2>5, <2>6, <2>8, NotedProps
<1> QED
  BY <1>1, <1>3, <1>4 DEF IInv

\* A frame opens over a stack on the path; a block and the branches bind nothing.
LEMMA OpenInv ==
  ASSUME IInv, NEW kind \in Kinds \ {"func"}, NEW live \in BOOLEAN, NEW other \in BOOLEAN, NEW b \in Var \cup {NoName},
         live => Top.live, other => ~live /\ Top.live,
         kind = "block" /\ Top.live => live, kind = "then" /\ Top.live => live \/ other,
         kind \in Handing => b = NoName,
         Open(kind, live, other, b)
  PROVE  IInv'
<1> DEFINE g == Frame(kind, live, other, b)
<1>1. /\ g \in FrameType /\ g.kind = kind /\ g.live = live /\ g.other = other
      /\ g.scope = None /\ g.inited = {} /\ g.before = {}
      /\ \A x \in Name : g.real[x] = IF x = b THEN "yes" ELSE "none"
  BY FrameOK
<1>2. frames' = <<g>> \o frames /\ UNCHANGED <<verdict, bad, holes>> /\ verdict = "analysing"
  BY DEF Open, Analysing
<1> HIDE DEF g
<1>3. \A x \in Name : g.real[x] # "no" /\ (g.kind \in Handing => g.real[x] = "none")
  BY <1>1, Apart
<1>4. /\ frames' \in Seq(FrameType) /\ OnPath(frames')
      /\ \A x \in Name : Sound(frames, x) => Sound(frames', x)
  BY <1>1, <1>2, <1>3, FramesOK, Push DEF Top
<1>5. \A x \in Name : Clean(x)' => Clean(x)
  BY <1>2 DEF Clean
<1> QED
  BY <1>2, <1>4, <1>5, FramesOK, Owed

\* A frame that is closed is not the function's.
LEMMA Within ==
  ASSUME IInv, Top.kind # "func"
  PROVE  Len(frames) > 1 /\ 1 < Len(frames) /\ FrameOnPath(frames, 1) /\ \A x \in Name : Clean(x) => FrameSound(frames, 1, x)
<1>1. Len(frames) \in Nat /\ 1 \in DOMAIN frames /\ FrameOnPath(frames, 1)
  BY FramesOK DEF OnPath
<1>2. Len(frames) # 1 /\ Len(frames) # 0
  BY <1>1, FramesOK DEF FrameOnPath, Top
<1>3. \A x \in Name : Clean(x) => FrameSound(frames, 1, x)
  BY <1>1, FramesOK DEF Sound
<1>4. Len(frames) > 1 /\ 1 < Len(frames)
  <2>1. Len(frames) \in Nat
    BY <1>1
  <2> QED
    BY <1>2, <2>1, SMTT(30)
<1> QED
  BY <1>1, <1>3, <1>4

\* What a closing frame hands on is what the path has given a value.
LEMMA CloseInv ==
  ASSUME IInv, verdict = "analysing", Top.kind # "func", NEW ids \in SUBSET Name, Close(CloseMerging(ids)),
         \A x \in ids : Clean(x) => ~InLambdaAt(frames, 1) /\ (frames[2].live => ~UnsetFrom(frames, 2, x))
  PROVE  IInv'
<1>1. frames' = Mark(Tail(frames), ids) /\ UNCHANGED <<verdict, bad, holes>>
  BY DEF Close, CloseMerging
<1>2. /\ frames' \in Seq(FrameType) /\ OnPath(frames')
      /\ \A x \in Name : Clean(x) /\ Sound(frames, x) => Sound(frames', x)
  BY <1>1, Within, FramesOK, Handed
<1>3. \A x \in Name : Clean(x)' => Clean(x)
  BY <1>1 DEF Clean
<1> QED
  BY <1>1, <1>2, <1>3, FramesOK, Owed

\* A block hands on what it has noted: the path has been through it.
LEMMA CloseBlockInv ==
  ASSUME IInv, CloseBlock
  PROVE  IInv'
<1>1. Top.kind \in {"block", "lambda"} /\ verdict = "analysing" /\ Top.inited \in SUBSET Name /\ Top.kind # "func"
  BY FramesOK DEF CloseBlock, FrameType, Analysing
<1>2. ASSUME NEW x \in Top.inited, Clean(x)
      PROVE  ~InLambdaAt(frames, 1) /\ (frames[2].live => ~UnsetFrom(frames, 2, x))
  <2>1. x \in Name /\ FrameSound(frames, 1, x) /\ FrameOnPath(frames, 1) /\ 1 < Len(frames) /\ x \in frames[1].inited
    BY <1>1, <1>2, Within DEF Top
  <2>2. ~InLambdaAt(frames, 1)
    BY <2>1 DEF FrameSound
  <2>3. frames[1].kind = "block"
    BY <1>1, <2>2, FramesOK DEF InLambdaAt, Top
  <2> QED
    BY <2>1, <2>2, <2>3 DEF FrameSound, FrameOnPath, Handing
<1> QED
  BY <1>1, <1>2, CloseInv DEF CloseBlock

\* A conditional hands on what both of its branches have noted.
LEMMA CloseElseInv ==
  ASSUME IInv, CloseElse
  PROVE  IInv'
<1>1. Top.kind = "else" /\ verdict = "analysing" /\ Top.before \cap Top.inited \in SUBSET Name /\ Top.kind # "func"
  BY FramesOK DEF CloseElse, FrameType, Analysing
<1>2. ASSUME NEW x \in Top.before \cap Top.inited, Clean(x)
      PROVE  ~InLambdaAt(frames, 1) /\ (frames[2].live => ~UnsetFrom(frames, 2, x))
  <2>1. x \in Name /\ FrameSound(frames, 1, x) /\ 1 < Len(frames) /\ x \in frames[1].inited /\ x \in frames[1].before
    BY <1>1, <1>2, Within DEF Top
  <2> QED
    BY <1>1, <2>1 DEF FrameSound, Handing, Top
<1> QED
  BY <1>1, <1>2, CloseInv DEF CloseElse

\* The other statements hand on nothing.
LEMMA CloseNothingInv ==
  ASSUME IInv, CloseThen \/ CloseScope \/ CloseCatch
  PROVE  IInv'
<1>1. verdict = "analysing" /\ Top.kind # "func" /\ Close(CloseMerging({}))
  BY DEF CloseThen, CloseScope, CloseCatch, Analysing
<1> QED
  BY <1>1, CloseInv

\* A second part of a statement takes the place of the first: it is on the path
\* if the first was left for it.
LEMMA NextPart ==
  ASSUME IInv, verdict = "analysing", Top.kind # "func", NEW g \in FrameType, frames' = <<g>> \o Tail(frames),
         UNCHANGED <<verdict, bad, holes>>,
         g.kind \in {"else", "catch"}, g.live = Top.other, g.other = FALSE, g.scope = None, g.inited = {},
         \A x \in Name : g.real[x] # "no" /\ (g.kind \in Handing => g.real[x] = "none"),
         g.before # {} => g.before = Top.inited /\ Top.kind = "then"
  PROVE  IInv'
<1> DEFINE ts == Tail(frames)
<1>1. frames \in Seq(FrameType) /\ Len(frames) > 1 /\ OnPath(frames) /\ FrameOnPath(frames, 1)
  BY Within, FramesOK
<1>2. /\ ts \in Seq(FrameType) /\ ts # <<>> /\ Len(ts) = Len(frames) - 1
      /\ \A i \in DOMAIN ts : ts[i] = frames[i + 1]
      /\ OnPath(ts) /\ (InLambdaAt(ts, 1) => InLambdaAt(frames, 1))
      /\ \A x \in Name : (Sound(frames, x) => Sound(ts, x)) /\ (UnsetFrom(ts, 1, x) => UnsetFrom(frames, 2, x))
  BY <1>1, Pop
<1> HIDE DEF ts
<1>3. ts[1] = frames[2]
  <2>1. 1 \in DOMAIN ts /\ 1 + 1 = 2
    BY <1>2
  <2> QED
    BY <1>2, <2>1
<1>4. g.live => ts[1].live
  BY <1>1, <1>3 DEF FrameOnPath, Top
<1>5. ASSUME NEW x \in Name, Clean(x)
      PROVE  /\ g.kind = "else" /\ ~g.live /\ ts[1].live /\ x \in g.before => ~UnsetFrom(ts, 1, x)
             /\ g.kind = "lambda" \/ InLambdaAt(ts, 1) => x \notin g.before
  <2>1. FrameSound(frames, 1, x)
    BY <1>5, Within
  <2>2. ASSUME ~g.live, ts[1].live, x \in g.before PROVE ~UnsetFrom(ts, 1, x)
    BY <1>1, <1>2, <1>3, <2>1, <2>2 DEF FrameSound, FrameOnPath, Handing, Top
  <2>3. InLambdaAt(ts, 1) => x \notin g.before
    BY <1>2, <2>1 DEF FrameSound, Top
  <2> QED
    BY <2>2, <2>3
<1>6. frames' = <<g>> \o ts
  BY DEF ts
<1>7. frames' \in Seq(FrameType) /\ OnPath(frames')
  BY <1>2, <1>4, <1>6, Push
<1>8. ASSUME NEW x \in Name, Clean(x) PROVE Sound(frames', x)
  BY <1>2, <1>4, <1>5, <1>6, <1>8, FramesOK, Push
<1>9. \A x \in Name : Clean(x)' => Clean(x)
  BY DEF Clean
<1> QED
  BY <1>7, <1>8, <1>9, FramesOK, Owed

\* The else follows the then, with what that has noted.
LEMMA OpenElseInv ==
  ASSUME IInv, OpenElse
  PROVE  IInv'
<1> DEFINE h == Frame("else", Top.other, FALSE, NoName)
           g == [h EXCEPT !.before = Top.inited]
<1>1. Top.other \in BOOLEAN /\ Top.inited \in SUBSET Name /\ "else" \in Kinds
  BY FramesOK DEF FrameType, Kinds
<1>2. /\ h \in FrameType /\ h.kind = "else" /\ h.live = Top.other /\ h.other = FALSE /\ h.scope = None /\ h.inited = {}
      /\ \A x \in Name : h.real[x] = IF x = NoName THEN "yes" ELSE "none"
  BY <1>1 DEF Frame, FrameType, None, Status
<1>3. frames' = <<g>> \o Tail(frames) /\ UNCHANGED <<verdict, bad, holes>> /\ Top.kind = "then" /\ verdict = "analysing"
  BY DEF OpenElse, Close, Analysing
<1> HIDE DEF h
<1>4. /\ g \in FrameType /\ g.kind = "else" /\ g.live = Top.other /\ g.other = FALSE /\ g.scope = None /\ g.inited = {}
      /\ g.before = Top.inited /\ g.real = h.real
  BY <1>1, <1>2 DEF FrameType
<1> HIDE DEF g
<1>5. \A x \in Name : g.real[x] = "none"
  BY <1>2, <1>4, Apart
<1> QED
  BY <1>3, <1>4, <1>5, NextPart

\* A handler follows its try.
LEMMA OpenCatchInv ==
  ASSUME IInv, NEW b \in Var \cup {NoName}, OpenCatch(b)
  PROVE  IInv'
<1> DEFINE g == Frame("catch", Top.other, FALSE, b)
<1>1. Top.other \in BOOLEAN /\ "catch" \in Kinds
  BY FramesOK DEF FrameType, Kinds
<1>2. /\ g \in FrameType /\ g.kind = "catch" /\ g.live = Top.other /\ g.other = FALSE /\ g.scope = None /\ g.inited = {} /\ g.before = {}
      /\ \A x \in Name : g.real[x] = IF x = b THEN "yes" ELSE "none"
  BY <1>1 DEF Frame, FrameType, None, Status
<1>3. frames' = <<g>> \o Tail(frames) /\ UNCHANGED <<verdict, bad, holes>> /\ Top.kind = "try" /\ verdict = "analysing"
  BY DEF OpenCatch, Close, Analysing
<1> HIDE DEF g
<1>4. g.kind \notin Handing
  BY <1>2 DEF Handing
<1> QED
  BY <1>2, <1>3, <1>4, NextPart

\* A lambda's argument is noted in the scope around it, which matters to a
\* variable of that name only.
LEMMA OpenLambdaInv ==
  ASSUME IInv, NEW a \in Var \cup {NoName}, NEW called \in BOOLEAN, OpenLambda(a, called)
  PROVE  IInv'
<1> DEFINE g == Frame("lambda", Top.live /\ called, FALSE, a)
           scope == [x \in Name |-> IF x = a /\ frames[1].scope[x] = "none" THEN "yes" ELSE frames[1].scope[x]]
           t == [frames[1] EXCEPT !.scope = scope]
           ms == [frames EXCEPT ![1] = t]
<1>1. frames \in Seq(FrameType) /\ frames # <<>> /\ 1 \in DOMAIN frames /\ OnPath(frames) /\ frames[1] \in FrameType
  BY FramesOK DEF Top
<1>2. /\ g \in FrameType /\ g.kind = "lambda" /\ g.live = (Top.live /\ called) /\ g.other = FALSE
      /\ g.scope = None /\ g.inited = {} /\ g.before = {}
      /\ \A x \in Name : g.real[x] = IF x = a THEN "yes" ELSE "none"
  <2>1. (Top.live /\ called) \in BOOLEAN /\ "lambda" \in Kinds
    BY DEF Kinds
  <2> QED
    BY <2>1 DEF Frame, FrameType, None, Status
<1>3. frames' = <<g>> \o ms
  BY <1>1 DEF OpenLambda, FrameType
<1> HIDE DEF g
<1>4. scope \in [Name -> Status] /\ \A x \in Name \ {a} : scope[x] = frames[1].scope[x]
  BY <1>1 DEF FrameType, Status
<1> HIDE DEF scope
<1>5. /\ t \in FrameType /\ t.scope = scope /\ t.kind = frames[1].kind /\ t.live = frames[1].live /\ t.other = frames[1].other
      /\ t.real = frames[1].real /\ t.inited = frames[1].inited /\ t.before = frames[1].before
  BY <1>1, <1>4 DEF FrameType
<1> HIDE DEF t
<1>6. /\ ms \in Seq(FrameType) /\ Len(ms) = Len(frames) /\ ms # <<>> /\ DOMAIN ms = DOMAIN frames
      /\ \A i \in 2..Len(frames) : ms[i] = frames[i]
      /\ ms[1] = t /\ \A i \in DOMAIN frames : i = 1 \/ i \in 2..Len(frames)
  BY <1>1, <1>5
<1> HIDE DEF ms
<1>7. \A i \in DOMAIN frames :
        /\ ms[i].kind = frames[i].kind /\ ms[i].live = frames[i].live /\ ms[i].other = frames[i].other
        /\ ms[i].real = frames[i].real /\ ms[i].inited = frames[i].inited /\ ms[i].before = frames[i].before
  BY <1>5, <1>6
<1>8. OnPath(ms)
  BY <1>1, <1>6, <1>7, SamePath
<1>9. verdict = "analysing" /\ UNCHANGED <<verdict, bad>> /\ holes \subseteq holes' /\ holes' \subseteq {"shadow", "lambda", "operand"}
  BY FramesOK DEF OpenLambda, Analysing
<1>10. /\ g.kind # "func" /\ (g.live => ms[1].live) /\ ~g.other /\ g.kind \notin {"block", "then", "else"}
  BY <1>2, <1>5, <1>6 DEF Top
<1>11. frames' \in Seq(FrameType) /\ OnPath(frames')
  BY <1>2, <1>3, <1>6, <1>8, <1>10, Push
<1>12. ASSUME NEW x \in Name, Clean(x)' PROVE Sound(frames', x)
  <2>1. Sound(frames, x)
    BY <1>9, <1>12, CleanBefore, FramesOK
  <2>2. x = a => Declared(frames, x) = {}
    BY <1>12, Apart DEF OpenLambda, Clean, Visible
  <2>3. Sound(ms, x)
    <3>1. CASE x = a
      <4>1. Declared(frames, x) = {}
        BY <2>2, <3>1
      <4>2. \A i \in DOMAIN frames :
              /\ ms[i].kind = frames[i].kind /\ ms[i].live = frames[i].live /\ ms[i].real = frames[i].real
              /\ ms[i].inited = frames[i].inited /\ ms[i].before = frames[i].before
        BY <1>7
      <4> QED
        BY <1>1, <1>6, <2>1, <4>1, <4>2, NotedOnly
    <3>2. CASE x # a
      <4>1. ms[1].scope[x] = frames[1].scope[x] /\ ms[1].inited = frames[1].inited
        BY <1>4, <1>5, <1>6, <3>2
      <4>2. \A i \in 2..Len(frames) : ms[i].scope[x] = frames[i].scope[x] /\ ms[i].inited = frames[i].inited
        BY <1>6
      <4>3. \A i \in DOMAIN frames :
              /\ ms[i].kind = frames[i].kind /\ ms[i].live = frames[i].live /\ ms[i].before = frames[i].before
              /\ ms[i].real[x] = frames[i].real[x]
        BY <1>7
      <4> QED
        BY <1>1, <1>6, <2>1, <4>1, <4>2, <4>3, Changes
    <3> QED
      BY <3>1, <3>2
  <2>4. g.real[x] # "no" /\ (g.real[x] # "none" => \A j \in DOMAIN ms : ms[j].real[x] = "none")
    BY <1>2, <1>6, <1>7, <2>2 DEF Declared
  <2> QED
    BY <1>2, <1>3, <1>6, <1>8, <1>10, <2>3, <2>4, Push
<1> QED
  BY <1>9, <1>11, <1>12, Owed

\* A jump leaves frames that are no blocks or branches last.
LEMMA KillInv ==
  ASSUME IInv, Top.live, NEW k \in DOMAIN frames,
         frames[k].kind \notin {"block", "then", "else"},
         \/ frames' = Kill(k)
         \/ frames' = [Kill(k) EXCEPT ![k].other = TRUE] /\ frames[k].kind # "func"
  PROVE  /\ frames' \in Seq(FrameType) /\ OnPath(frames')
         /\ \A x \in Name : Clean(x) => Sound(frames', x)
<1>1. frames \in Seq(FrameType) /\ OnPath(frames) /\ frames[1].live
  BY FramesOK DEF Top
<1>0. k \in Nat /\ Len(frames) \in Nat /\ DOMAIN frames = 1..Len(frames) /\ \A i \in DOMAIN frames : i \in Nat /\ frames[i] \in FrameType
  BY <1>1
<1>2. Kill(k) \in Seq(FrameType) /\ Len(Kill(k)) = Len(frames)
      /\ \A i \in DOMAIN frames : Kill(k)[i] = IF i <= k THEN [frames[i] EXCEPT !.live = FALSE] ELSE frames[i]
  <2>1. \A i \in DOMAIN frames : (IF i <= k THEN [frames[i] EXCEPT !.live = FALSE] ELSE frames[i]) \in FrameType
    BY <1>0 DEF FrameType
  <2> QED
    BY <1>0, <2>1 DEF Kill
<1>3. ASSUME NEW i \in DOMAIN frames, NEW h, h = (IF i <= k THEN [frames[i] EXCEPT !.live = FALSE] ELSE frames[i])
      PROVE  /\ h \in FrameType /\ h.kind = frames[i].kind /\ h.live = (frames[i].live /\ i > k) /\ h.other = frames[i].other
             /\ h.scope = frames[i].scope /\ h.real = frames[i].real
             /\ h.inited = frames[i].inited /\ h.before = frames[i].before
  <2>1. frames[i] \in FrameType /\ i \in Nat /\ frames[i].live \in BOOLEAN
    BY <1>0 DEF FrameType
  <2>2. CASE i <= k
    <3>1. h = [frames[i] EXCEPT !.live = FALSE]
      BY <1>3, <2>2
    <3>2. ~(i > k)
      BY <1>0, <2>1, <2>2
    <3> QED
      BY <2>1, <3>1, <3>2 DEF FrameType
  <2>3. CASE ~(i <= k)
    <3>1. h = frames[i] /\ i > k
      BY <1>0, <1>3, <2>1, <2>3
    <3> QED
      BY <2>1, <3>1
  <2> QED
    BY <2>2, <2>3
<1>4. \A i \in DOMAIN frames :
        LET h == Kill(k)[i] IN
             /\ h \in FrameType /\ h.kind = frames[i].kind /\ h.live = (frames[i].live /\ i > k) /\ h.other = frames[i].other
             /\ h.scope = frames[i].scope /\ h.real = frames[i].real
             /\ h.inited = frames[i].inited /\ h.before = frames[i].before
  BY <1>2, <1>3
<1>5. /\ frames' \in Seq(FrameType) /\ Len(frames') = Len(frames)
      /\ \A i \in DOMAIN frames :
           /\ frames'[i].kind = frames[i].kind /\ frames'[i].live = (frames[i].live /\ i > k)
           /\ frames'[i].other => frames[i].other \/ (i = k /\ frames[k].kind # "func")
           /\ frames'[i].scope = frames[i].scope /\ frames'[i].real = frames[i].real
           /\ frames'[i].inited = frames[i].inited /\ frames'[i].before = frames[i].before
  <2>1. CASE frames' = Kill(k)
    BY <1>2, <1>4, <2>1
  <2>2. CASE frames' = [Kill(k) EXCEPT ![k].other = TRUE] /\ frames[k].kind # "func"
    <3> DEFINE ks == Kill(k)
               h == [ks[k] EXCEPT !.other = TRUE]
    <3>1. /\ h \in FrameType /\ h.kind = ks[k].kind /\ h.live = ks[k].live /\ h.scope = ks[k].scope /\ h.real = ks[k].real
          /\ h.inited = ks[k].inited /\ h.before = ks[k].before
      BY <1>4 DEF FrameType
    <3>2. frames' = [ks EXCEPT ![k] = h]
      BY <2>2
    <3> HIDE DEF h, ks
    <3>3. ks \in Seq(FrameType) /\ Len(ks) = Len(frames) /\ DOMAIN ks = DOMAIN frames
      BY <1>2 DEF ks
    <3>4. frames' \in Seq(FrameType) /\ Len(frames') = Len(frames) /\ frames'[k] = h /\ \A i \in DOMAIN frames \ {k} : frames'[i] = ks[i]
      BY <3>1, <3>2, <3>3
    <3> QED
      BY <1>4, <2>2, <3>1, <3>4 DEF ks
  <2> QED
    BY <2>1, <2>2
<1>6. OnPath(frames') /\ \A x \in Name : Sound(frames, x) => Sound(frames', x)
  BY <1>1, <1>5, Left, ZenonT(60)
<1> QED
  BY <1>5, <1>6, FramesOK

\* The frame a jump goes to.
LEMMA Target ==
  ASSUME IInv, NEW kinds \in SUBSET Kinds, Nearest(kinds) # {}
  PROVE  LET k == Min(Nearest(kinds)) IN k \in DOMAIN frames /\ frames[k].kind \in kinds
<1>1. Nearest(kinds) \in SUBSET Nat
  BY FramesOK DEF Nearest
<1>2. Min(Nearest(kinds)) \in Nearest(kinds)
  BY <1>1, MinProps
<1> QED
  BY <1>2 DEF Nearest

\* break and continue.
LEMMA LoopFlowInv ==
  ASSUME IInv, LoopFlow
  PROVE  IInv'
<1> DEFINE k == Min(Nearest({"loop", "lambda"}))
<1>1. k \in DOMAIN frames /\ frames[k].kind = "loop" /\ frames' = Kill(k) /\ Top.live /\ verdict = "analysing" /\ UNCHANGED <<verdict, bad, holes>>
  BY Target DEF LoopFlow, Jumps, Analysing, Kinds
<1> HIDE DEF k
<1>2. frames' \in Seq(FrameType) /\ OnPath(frames') /\ \A x \in Name : Clean(x) => Sound(frames', x)
  BY <1>1, KillInv
<1>3. \A x \in Name : Clean(x)' => Clean(x)
  BY <1>1 DEF Clean
<1> QED
  BY <1>1, <1>2, <1>3, FramesOK, Owed

\* The outermost frame is the function's.
LEMMA Outermost ==
  ASSUME IInv
  PROVE  Len(frames) \in DOMAIN frames /\ frames[Len(frames)].kind = "func"
<1>1. Len(frames) \in DOMAIN frames
  BY FramesOK
<1> QED
  BY <1>1, FramesOK DEF OnPath, FrameOnPath

\* An exception reaches the nearest handler, or leaves the function.
LEMMA RaiseInv ==
  ASSUME IInv, Raise
  PROVE  IInv'
<1>1. Top.live /\ verdict = "analysing" /\ UNCHANGED <<verdict, bad, holes>>
  BY DEF Raise, Jumps, Analysing
<1>2. frames' \in Seq(FrameType) /\ OnPath(frames') /\ \A x \in Name : Clean(x) => Sound(frames', x)
  <2>1. CASE Nearest({"try"}) = {}
    <3>1. frames' = Kill(Len(frames))
      BY <2>1 DEF Raise
    <3> QED
      BY <1>1, <3>1, Outermost, KillInv
  <2>2. CASE Nearest({"try"}) # {}
    <3> DEFINE k == Min(Nearest({"try"}))
    <3>1. k \in DOMAIN frames /\ frames[k].kind = "try"
      BY <2>2, Target DEF Kinds
    <3>2. frames' = [Kill(k) EXCEPT ![k].other = TRUE]
      BY <2>2 DEF Raise
    <3> HIDE DEF k
    <3> QED
      BY <1>1, <3>1, <3>2, KillInv
  <2> QED
    BY <2>1, <2>2
<1>3. \A x \in Name : Clean(x)' => Clean(x)
  BY <1>1 DEF Clean
<1> QED
  BY <1>1, <1>2, <1>3, FramesOK, Owed

\* A return leaves the function, or the lambda it is in.
LEMMA ReturnInv ==
  ASSUME IInv, Return
  PROVE  IInv'
<1>1. Top.live /\ verdict = "analysing" /\ UNCHANGED <<verdict, holes>>
  BY DEF Return, Jumps, Analysing
<1>2. frames' \in Seq(FrameType) /\ OnPath(frames') /\ \A x \in Name : Clean(x) => Sound(frames', x)
  <2>1. CASE InLambda
    <3> DEFINE k == Min(Nearest({"lambda"}))
    <3>1. Nearest({"lambda"}) # {}
      BY <2>1 DEF InLambda, Nearest
    <3>2. k \in DOMAIN frames /\ frames[k].kind = "lambda"
      BY <3>1, Target DEF Kinds
    <3>3. frames' = Kill(k)
      BY <2>1 DEF Return
    <3> HIDE DEF k
    <3> QED
      BY <1>1, <3>2, <3>3, KillInv
  <2>2. CASE ~InLambda
    <3>1. frames' = Kill(Len(frames))
      BY <2>2 DEF Return
    <3> QED
      BY <1>1, <3>1, Outermost, KillInv
  <2> QED
    BY <2>1, <2>2
<1>3. bad' \subseteq bad \cup {"exit"}
  BY DEF Return, Witness
<1>4. TypeOK' /\ VisitedReadsAssigned' /\ FieldsAssigned' /\ (Analysing => "field" \notin bad)'
  BY <1>1, <1>2, <1>3 DEF IInv, TypeOK, VisitedReadsAssigned, FieldsAssigned, Analysing
<1>5. \A x \in Name : Clean(x)' => Clean(x)
  BY <1>1 DEF Clean
<1> QED
  BY <1>2, <1>4, <1>5 DEF IInv

\* At the end of a constructor the only frame left is its own, so that a field
\* without a value is one it has noted.
LEMMA FunctionEndsInv ==
  ASSUME IInv, FunctionEnds
  PROVE  IInv'
<1>1. /\ verdict = "analysing" /\ Len(frames) = 1 /\ UNCHANGED <<frames, holes>>
      /\ verdict' \in {"accepted", "rejected"} /\ bad' \subseteq bad \cup {"field"}
  BY DEF FunctionEnds, Analysing, Witness
<1>2. TypeOK' /\ VisitedReadsAssigned' /\ (Analysing => "field" \notin bad)'
  BY <1>1 DEF IInv, TypeOK, VisitedReadsAssigned, Analysing
<1>3. OnPath(frames)' /\ \A x \in Name : Clean(x)' => Sound(frames, x)'
  BY <1>1 DEF IInv, Clean
<1>4. FieldsAssigned'
  <2>1. SUFFICES ASSUME verdict' = "accepted", "field" \in bad', holes \cap {"lambda", "operand"} = {} PROVE FALSE
    BY <1>1 DEF FieldsAssigned
  <2>2. PICK f \in Field : Top.live /\ Unset(f)
    BY <1>1, <2>1 DEF FunctionEnds, Witness, IInv, Analysing
  <2>3. NotedFrom(frames, 1, f)
    BY <2>1, <2>2, Apart, Caught DEF Clean
  <2>4. Top.scope[f] = "no"
    BY <1>1, <2>3, FramesOK DEF NotedFrom, Top
  <2> QED
    BY <2>1, <2>4 DEF FunctionEnds
<1> QED
  BY <1>2, <1>3, <1>4 DEF IInv

-----------------------------------------------------------------------------
(* The theorems *)

\* Every step keeps the analysis sound.
LEMMA StepInv ==
  ASSUME IInv, [Next]_vars
  PROVE  IInv'
<1>0. Top.live \in BOOLEAN
  BY FramesOK DEF FrameType
<1>1. CASE FunctionEnds
  BY <1>1, FunctionEndsInv
<1>2. CASE \E x \in Var, init \in {"no", "yes"} : VariableDecl(x, init)
  BY <1>2, VariableDeclInv
<1>3. CASE \E x \in Name, runs \in BOOLEAN : Read(x, runs)
  BY <1>3, ReadInv
<1>4. CASE \E x \in Var : CalleeRead(x)
  BY <1>4, CalleeReadInv
<1>5. CASE \E x \in Var, r \in Name \cup {NoName}, runs \in BOOLEAN : Assign(x, r, runs)
  BY <1>5, AssignInv
<1>6. CASE \E f \in Field, r \in Name \cup {NoName}, runs \in BOOLEAN : AssignField(f, r, runs)
  BY <1>6, AssignFieldInv
<1>7. CASE OpenBlock
  BY <1>0, <1>7, OpenInv DEF OpenBlock, Kinds, Handing
<1>8. CASE CloseBlock
  BY <1>8, CloseBlockInv
<1>9. CASE \E taken \in BOOLEAN : OpenThen(taken)
  <2>1. PICK taken \in BOOLEAN : Open("then", Top.live /\ taken, Top.live /\ ~taken, NoName)
    BY <1>9 DEF OpenThen
  <2> QED
    BY <1>0, <2>1, OpenInv DEF Kinds, Handing
<1>10. CASE CloseThen \/ CloseScope \/ CloseCatch
  BY <1>10, CloseNothingInv
<1>11. CASE OpenElse
  BY <1>11, OpenElseInv
<1>12. CASE CloseElse
  BY <1>12, CloseElseInv
<1>13. CASE \E kind \in {"loop", "scope"}, taken \in BOOLEAN, b \in Var \cup {NoName} : OpenScope(kind, taken, b)
  <2>1. PICK kind \in {"loop", "scope"}, taken \in BOOLEAN, b \in Var \cup {NoName} : Open(kind, Top.live /\ taken, FALSE, b)
    BY <1>13 DEF OpenScope
  <2> QED
    BY <1>0, <2>1, OpenInv DEF Kinds, Handing
<1>14. CASE OpenTry
  BY <1>0, <1>14, OpenInv DEF OpenTry, Kinds, Handing
<1>15. CASE \E b \in Var \cup {NoName} : OpenCatch(b)
  BY <1>15, OpenCatchInv
<1>16. CASE \E a \in Var \cup {NoName}, called \in BOOLEAN : OpenLambda(a, called)
  BY <1>16, OpenLambdaInv
<1>17. CASE LoopFlow
  BY <1>17, LoopFlowInv
<1>18. CASE Raise
  BY <1>18, RaiseInv
<1>19. CASE Return
  BY <1>19, ReturnInv
<1>20. CASE UNCHANGED vars
  BY <1>20 DEF vars, IInv, TypeOK, VisitedReadsAssigned, FieldsAssigned, Analysing, Clean
<1> QED
  BY <1>1, <1>2, <1>3, <1>4, <1>5, <1>6, <1>7, <1>8, <1>9, <1>10, <1>11, <1>12, <1>13, <1>14, <1>15, <1>16, <1>17, <1>18,
     <1>19, <1>20 DEF Next

\* The analysis knows of every variable the path has not assigned, at whatever
\* depth and after whatever jumps, until a hole concerns it.
LEMMA Soundness == Spec => []IInv
<1>1. Init => IInv
  BY InitInv
<1>2. IInv /\ [Next]_vars => IInv'
  BY StepInv
<1> QED
  BY <1>1, <1>2, PTL DEF Spec

\* A read that is visited and accepted finds a value on every path (visit of
\* Identifier and Index), for all names, constructs and depths of nesting: but
\* for self.f in its own right-hand side, and until a name is shadowed, or one
\* is assigned in a lambda or in a skipped operand of && or ||.
THEOREM ReadsAreAssigned == Spec => []VisitedReadsAssigned
<1>1. IInv => VisitedReadsAssigned
  BY DEF IInv
<1> QED
  BY <1>1, Soundness, PTL

\* A constructor that is accepted and runs to its end has set its fields (visit
\* of FunctionDef), unless one was assigned in a lambda or a skipped operand.
THEOREM FieldsAreAssigned == Spec => []FieldsAssigned
<1>1. IInv => FieldsAssigned
  BY DEF IInv
<1> QED
  BY <1>1, Soundness, PTL
=============================================================================
