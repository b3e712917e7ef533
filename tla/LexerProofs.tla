----------------------------- MODULE LexerProofs -----------------------------
(***************************************************************************)
(* The tokenizer, proved for every set of texts of every length: where its *)
(* tokens stand, what they spell, and that it always moves on.             *)
(***************************************************************************)
EXTENDS Lexer, FiniteSetTheorems, SequenceTheorems, WellFoundedInduction, TLAPS

IsSequence(s) == s \in Seq({s[k] : k \in DOMAIN s})

\* cur_col went ahead on a line with a number that gave dots back.
Slipped(line) == \E j \in DOMAIN tokens : Dotted(j) /\ tokens[j].line = line

\* TruePositions, of one token.
Loose(t) == t.type = "VALUE_CHAR" /\ t.to # t.from + 3
Placed(i) ==
  LET t == tokens[i] IN
    /\ t.line = TrueLine(t.from) \/ Loose(t)
    /\ \/ t.col = TrueCol(t.from) \/ Loose(t)
       \/ \E j \in 1..i : Dotted(j) /\ tokens[j].line = t.line

\* Faithful, of one token and of one position.
Lossless == \A i \in DOMAIN tokens : ~Overread(i)
Commented == \E p \in 0..(Len(code) - 1) : At(p) = "/"
Stands(t) ==
  t.type = "_EOF" \/ Spells(t) \/ (IsNumber(t) /\ (At(t.from) = "." \/ At(t.to) \in Suffix))
Accounted(p) == At(p) \in Blank \/ \E i \in DOMAIN tokens : p \in Covered(tokens[i])

Literals == [at : Nat, line : Nat, col : Nat, size : Nat]
Interval(t) == t.from \in Nat /\ t.to \in Nat /\ t.from <= t.to
TokensTyped == IsSequence(tokens) /\ \A i \in DOMAIN tokens : Interval(tokens[i])
Typed ==
  /\ code \in Sources /\ char_ptr \in Nat /\ cur_line \in Nat /\ cur_col \in Nat
  /\ mode \in Modes /\ lit \in Literals

\* The lines are counted right, and the columns on a line that did not slip.
Cursor ==
  cur_line = TrueLine(char_ptr) /\ (cur_col = TrueCol(char_ptr) \/ Slipped(cur_line))

\* A string remembers where it began; a character that is as long as its text
\* has had neither an escape nor a newline.
LiteralBegan ==
  /\ InLiteral => lit.at < char_ptr
  /\ mode = "string" => /\ lit.line = TrueLine(lit.at)
                        /\ lit.col = TrueCol(lit.at) + 1 \/ Slipped(lit.line)
  /\ mode = "char" => /\ lit.size <= char_ptr - lit.at - 1
                      /\ lit.size = char_ptr - lit.at - 1 =>
                           \A q \in lit.at..(char_ptr - 1) : At(q) # "\n"

\* How far the text is in tokens.
Frontier == IF InLiteral THEN lit.at ELSE char_ptr
Behind == \A i \in DOMAIN tokens : tokens[i].to <= Frontier
Follow == \A i \in DOMAIN tokens : i > 1 => tokens[i - 1].to <= tokens[i].from
Stood == Lossless => \A i \in DOMAIN tokens : Stands(tokens[i])
Covers ==
  /\ mode = "comment" => Commented
  /\ Lossless /\ mode \in {"text", "char", "string"} /\ ~Commented =>
       \A p \in 0..(Frontier - 1) : p < Len(code) => Accounted(p)

TokensOK == TokensTyped /\ TruePositions /\ Follow /\ Stood
IInv == Typed /\ Cursor /\ LiteralBegan /\ TokensOK /\ Behind /\ Covers

-----------------------------------------------------------------------------
(* Characters and symbols *)

\* A set of numbers has a least one.
LEMMA Least ==
  ASSUME NEW S \in SUBSET Nat, S # {}
  PROVE  Min(S) \in S /\ \A y \in S : Min(S) <= y
<1> DEFINE Less == {ss \in Nat \X Nat : ss[1] < ss[2]}
<1>1. IsWellFoundedOn(Less, Nat)
  BY NatLessThanWellFounded, Zenon DEF OpToRel
<1>2. \E n \in S : \A y \in S : ~(<<y, n>> \in Less)
  BY <1>1, WFMin, Zenon
<1>3. \A n, y \in S : <<y, n>> \in Less <=> y < n
  OBVIOUS
<1> HIDE DEF Less
<1>4. PICK n \in S : \A y \in S : ~(y < n)
  BY <1>2, <1>3
<1>5. \A y \in S : n <= y
  BY <1>4
<1> QED
  BY <1>5 DEF Min

\* A bounded set of numbers has a greatest one.
LEMMA Greatest ==
  ASSUME NEW b \in Nat, NEW S \in SUBSET 0..b, S # {}
  PROVE  Max(S) \in S /\ \A y \in S : y <= Max(S)
<1> DEFINE T == {b - x : x \in S}
<1>1. T \in SUBSET Nat /\ T # {}
  <2>1. \A x \in S : b - x \in Nat
    OBVIOUS
  <2> QED
    BY <2>1
<1>2. PICK m \in T : \A y \in T : m <= y
  <2> HIDE DEF T
  <2> QED
    BY <1>1, Least
<1>3. b - m \in S /\ \A y \in S : y <= b - m
  <2>1. PICK x \in S : m = b - x
    BY <1>2
  <2>2. ASSUME NEW y \in S PROVE y <= x
    <3>1. b - y \in T
      OBVIOUS
    <3> QED
      BY <3>1, <1>2, <2>1
  <2> QED
    BY <2>1, <2>2
<1> QED
  BY <1>3 DEF Max

\* What neither breaks the line nor ends the text.
Inline(c) == c # "\n" /\ c # NUL

\* No digit, letter or sign that the switch tests for is a newline or the end.
LEMMA InlineSets ==
  /\ \A c \in Letters \cup Digits \cup Hex \cup Suffix : Inline(c)
  /\ \A c \in {"*", "/", ".", "=", "\\", "'", "\"", "x", " ", "\t"} : Inline(c)
  /\ Octal \subseteq Digits /\ {"0", "1"} \subseteq Digits
  /\ \A c \in {"\\", "'", "\"", "t", "n", "r", "0", "e"} : Inline(c)
  /\ NUL \notin Blank /\ NUL # "\n" /\ "." \notin Digits \cup Suffix
<1>1. \A c \in Letters : Inline(c)
  BY DEF Letters, Inline, NUL
<1>2. \A c \in Digits \cup Hex : Inline(c)
  BY DEF Digits, Hex, Inline, NUL
<1>3. \A c \in Suffix : Inline(c)
  BY DEF Suffix, Inline, NUL
<1>4. \A c \in {"*", "/", ".", "=", "\\", "'", "\"", "x", " ", "\t"} : Inline(c)
  BY DEF Inline, NUL
<1>5. Octal \subseteq Digits /\ {"0", "1"} \subseteq Digits
  BY DEF Octal, Digits
<1>6. \A c \in {"\\", "'", "\"", "t", "n", "r", "0", "e"} : Inline(c)
  BY DEF Inline, NUL
<1>7. NUL \notin Blank /\ NUL # "\n" /\ "." \notin Digits \cup Suffix
  BY DEF NUL, Blank, Digits, Suffix
<1> QED
  BY <1>1, <1>2, <1>3, <1>4, <1>5, <1>6, <1>7

\* The same for the signs that symbols are made of,
LEMMA InlineSigns ==
  Inline("=") /\ Inline(Comma) /\ Inline(Semicolon) /\ Inline(LeftCurly) /\ Inline(RightCurly)
<1>1. Inline("=")
  BY DEF Inline, NUL
<1>2. Inline(Comma)
  BY DEF Inline, NUL, Comma
<1>3. Inline(Semicolon)
  BY DEF Inline, NUL, Semicolon
<1>4. Inline(LeftCurly)
  BY DEF Inline, NUL, LeftCurly
<1>5. Inline(RightCurly)
  BY DEF Inline, NUL, RightCurly
<1> QED
  BY <1>1, <1>2, <1>3, <1>4, <1>5

\* and for all symbols.
LEMMA InlineSymbols ==
  /\ \A s \in DOMAIN Punctuation : Inline(Punctuation[s])
  /\ \A s \in DOMAIN Brackets : Inline(Brackets[s])
  /\ \A s \in DOMAIN Operators : Inline(Operators[s])
  /\ \A s \in DOMAIN Assigned : Inline(Assigned[s])
  /\ \A s \in DOMAIN Doubled : Inline(Doubled[s])
  /\ \A s \in DOMAIN Grouped :
       Len(Grouped[s]) \in 2..3 /\ \A k \in 1..Len(Grouped[s]) : Inline(Grouped[s][k])
<1>1. \A s \in DOMAIN Punctuation : Inline(Punctuation[s])
  BY InlineSigns DEF Punctuation, Inline, NUL
<1>2. \A s \in DOMAIN Brackets : Inline(Brackets[s])
  BY InlineSigns DEF Brackets, Inline, NUL
<1>3. \A s \in DOMAIN Operators : Inline(Operators[s])
  BY DEF Operators, Inline, NUL
<1>4. \A s \in DOMAIN Assigned : Inline(Assigned[s])
  BY DEF Assigned, Inline, NUL
<1>5. \A s \in DOMAIN Doubled : Inline(Doubled[s])
  BY DEF Doubled, Inline, NUL
<1>6. \A s \in DOMAIN Grouped :
        Len(Grouped[s]) \in 2..3 /\ \A k \in 1..Len(Grouped[s]) : Inline(Grouped[s][k])
  BY DEF Grouped, Inline, NUL
<1> QED
  BY <1>1, <1>2, <1>3, <1>4, <1>5, <1>6

\* How a symbol is spelled.
LEMMA SymbolCases ==
  ASSUME NEW t \in DOMAIN Symbols
  PROVE  \/ t \in DOMAIN Punctuation /\ Symbols[t] = <<Punctuation[t]>>
         \/ t \in DOMAIN Brackets    /\ Symbols[t] = <<Brackets[t]>>
         \/ t \in DOMAIN Operators   /\ Symbols[t] = <<Operators[t]>>
         \/ t \in DOMAIN Assigned    /\ Symbols[t] = <<Assigned[t], "=">>
         \/ t \in DOMAIN Doubled     /\ Symbols[t] = <<Doubled[t], Doubled[t]>>
         \/ t \in DOMAIN Grouped     /\ Symbols[t] = Grouped[t]
  BY DEF Symbols, SymbolTypes

\* A symbol is one to three characters of one line.
LEMMA SymbolShape ==
  ASSUME NEW t \in DOMAIN Symbols
  PROVE  Len(Symbols[t]) \in 1..3 /\ \A k \in 1..Len(Symbols[t]) : Inline(Symbols[t][k])
<1> USE InlineSymbols
<1>1. CASE t \in DOMAIN Punctuation /\ Symbols[t] = <<Punctuation[t]>>
  BY <1>1
<1>2. CASE t \in DOMAIN Brackets /\ Symbols[t] = <<Brackets[t]>>
  BY <1>2
<1>3. CASE t \in DOMAIN Operators /\ Symbols[t] = <<Operators[t]>>
  BY <1>3
<1>4. CASE t \in DOMAIN Assigned /\ Symbols[t] = <<Assigned[t], "=">>
  BY <1>4, InlineSigns
<1>5. CASE t \in DOMAIN Doubled /\ Symbols[t] = <<Doubled[t], Doubled[t]>>
  BY <1>5
<1>6. CASE t \in DOMAIN Grouped /\ Symbols[t] = Grouped[t]
  BY <1>6
<1> QED
  BY <1>1, <1>2, <1>3, <1>4, <1>5, <1>6, SymbolCases

\* No word becomes a symbol, and no literal.
LEMMA WordsAreNoSymbols ==
  /\ \A word : WordType(word) \notin DOMAIN Symbols
  /\ \A type \in {"VALUE_NUMBER", "VALUE_FLOAT", "VALUE_CHAR", "VALUE_STRING"} : type \notin DOMAIN Symbols
  /\ "SYM_DOT" \in DOMAIN Symbols /\ Symbols["SYM_DOT"] = <<".">>
<1> USE DEF SymbolTypes, Punctuation, Brackets, Operators, Assigned, Doubled, Grouped
<1>1. DOMAIN Symbols = SymbolTypes
  BY DEF Symbols
<1>2. \A w \in DOMAIN Keywords : Keywords[w] \notin SymbolTypes
  BY DEF Keywords
<1>3. "IDENTIFIER" \notin SymbolTypes
  OBVIOUS
<1>4. \A word : WordType(word) \notin SymbolTypes
  <2> HIDE DEF SymbolTypes
  <2> QED
    BY <1>2, <1>3 DEF WordType
<1>5. \A type \in {"VALUE_NUMBER", "VALUE_FLOAT", "VALUE_CHAR", "VALUE_STRING"} : type \notin SymbolTypes
  OBVIOUS
<1>6. "SYM_DOT" \in SymbolTypes /\ "SYM_DOT" \in DOMAIN Punctuation /\ Punctuation["SYM_DOT"] = "."
  OBVIOUS
<1>7. Symbols["SYM_DOT"] = <<".">>
  <2>1. \/ Symbols["SYM_DOT"] = <<".">>
        \/ "SYM_DOT" \in DOMAIN Brackets \/ "SYM_DOT" \in DOMAIN Operators \/ "SYM_DOT" \in DOMAIN Assigned
        \/ "SYM_DOT" \in DOMAIN Doubled \/ "SYM_DOT" \in DOMAIN Grouped
    <3> HIDE DEF SymbolTypes, Punctuation, Brackets, Operators, Assigned, Doubled, Grouped
    <3> QED
      BY <1>1, <1>6, SymbolCases
  <2> QED
    BY <2>1
<1> QED
  BY <1>1, <1>4, <1>5, <1>6, <1>7

\* and the sign that is read twice is itself.
LEMMA GreaterSpelled == "OP_GT" \in DOMAIN Symbols /\ Symbols["OP_GT"] = <<">">>
<1>1. DOMAIN Symbols = SymbolTypes /\ DOMAIN Operators \subseteq SymbolTypes
  BY DEF Symbols, SymbolTypes
<1>2. "OP_GT" \in DOMAIN Operators /\ Operators["OP_GT"] = ">"
  BY DEF Operators
<1>3. /\ "OP_GT" \notin DOMAIN Punctuation /\ "OP_GT" \notin DOMAIN Brackets /\ "OP_GT" \notin DOMAIN Assigned
      /\ "OP_GT" \notin DOMAIN Doubled /\ "OP_GT" \notin DOMAIN Grouped
  BY DEF Punctuation, Brackets, Assigned, Doubled, Grouped
<1> QED
  BY <1>1, <1>2, <1>3, SymbolCases

-----------------------------------------------------------------------------
(* Positions *)

\* The text has a length; from its end on, every character reads as 0.
LEMMA TextEnds ==
  ASSUME code \in Sources
  PROVE  Len(code) \in Nat /\ \A p \in Nat : At(p) # NUL => p < Len(code)
<1>1. Len(code) \in Nat
  BY SourcesAssumption
<1>2. ASSUME NEW p \in Nat, At(p) # NUL PROVE p < Len(code)
  BY <1>1, <1>2 DEF At
<1> QED
  BY <1>1, <1>2

\* A run of characters ends where the first other one stands.
LEMMA RunStops ==
  ASSUME code \in Sources, NEW S, NUL \notin S, NEW p \in 0..Len(code)
  PROVE  /\ Run(p, S) \in p..Len(code) /\ At(Run(p, S)) \notin S
         /\ \A q \in p..(Run(p, S) - 1) : At(q) \in S
<1> DEFINE Stops == {q \in p..Len(code) : At(q) \notin S}
<1>1. Len(code) \in Nat /\ p \in Nat
  BY TextEnds
<1>2. Stops \in SUBSET Nat /\ Stops # {}
  <2>1. At(Len(code)) = NUL
    BY <1>1, TextEnds
  <2> QED
    BY <1>1, <2>1
<1>3. Run(p, S) = Min(Stops)
  BY DEF Run
<1>4. Run(p, S) \in Stops /\ \A y \in Stops : Run(p, S) <= y
  <2> HIDE DEF Stops
  <2> QED
    BY <1>2, <1>3, Least
<1> QED
  BY <1>1, <1>4

\* The newlines before a position, and the place they give it.
LEMMA Places ==
  ASSUME NEW p \in Nat
  PROVE  /\ IsFiniteSet(Newlines(p)) /\ Newlines(p) \subseteq 0..(p - 1)
         /\ TrueLine(p) \in Nat \ {0} /\ TrueCol(p) \in Nat \ {0}
<1>1. IsFiniteSet(Newlines(p)) /\ Newlines(p) \subseteq 0..(p - 1)
  <2>1. IsFiniteSet(0..(p - 1))
    BY FS_Interval
  <2>2. Newlines(p) \subseteq 0..(p - 1)
    BY DEF Newlines
  <2> QED
    BY <2>1, <2>2, FS_Subset
<1>2. TrueLine(p) \in Nat \ {0}
  BY <1>1, FS_CardinalityType DEF TrueLine
<1>3. TrueCol(p) \in Nat \ {0}
  <2>1. CASE Newlines(p) = {}
    BY <2>1 DEF TrueCol
  <2>2. CASE Newlines(p) # {}
    <3>1. p - 1 \in Nat
      BY <1>1, <2>2
    <3>2. Max(Newlines(p)) \in Newlines(p)
      BY <1>1, <2>2, <3>1, Greatest
    <3>3. Max(Newlines(p)) \in 0..(p - 1)
      BY <1>1, <3>2
    <3> QED
      BY <2>2, <3>3 DEF TrueCol
  <2> QED
    BY <2>1, <2>2
<1> QED
  BY <1>1, <1>2, <1>3

\* On one line the column grows with the position.
LEMMA SameLine ==
  ASSUME NEW p \in Nat, NEW n \in Nat, \A q \in p..(p + n - 1) : At(q) # "\n"
  PROVE  TrueLine(p + n) = TrueLine(p) /\ TrueCol(p + n) = TrueCol(p) + n
<1>1. Newlines(p + n) = Newlines(p)
  <2>1. \A q \in 0..(p + n - 1) : q \in 0..(p - 1) \/ q \in p..(p + n - 1)
    OBVIOUS
  <2>2. \A q \in 0..(p - 1) : q \in 0..(p + n - 1)
    OBVIOUS
  <2> QED
    BY <2>1, <2>2 DEF Newlines
<1>2. TrueLine(p + n) = TrueLine(p)
  BY <1>1 DEF TrueLine
<1>3. TrueCol(p + n) = TrueCol(p) + n
  <2>1. CASE Newlines(p) = {}
    BY <1>1, <2>1 DEF TrueCol
  <2>2. CASE Newlines(p) # {}
    <3>1. p - 1 \in Nat /\ Newlines(p) \subseteq 0..(p - 1)
      BY <2>2, Places
    <3>2. Max(Newlines(p)) \in Newlines(p)
      BY <2>2, <3>1, Greatest
    <3>3. Max(Newlines(p)) \in Nat
      BY <3>1, <3>2
    <3> QED
      BY <1>1, <2>2, <3>3 DEF TrueCol
  <2> QED
    BY <2>1, <2>2
<1> QED
  BY <1>2, <1>3

\* After a newline a line begins.
LEMMA NextLine ==
  ASSUME NEW p \in Nat, At(p) = "\n"
  PROVE  TrueLine(p + 1) = TrueLine(p) + 1 /\ TrueCol(p + 1) = 1
<1>1. Newlines(p + 1) = Newlines(p) \cup {p} /\ p \notin Newlines(p)
  <2>1. \A q \in 0..(p + 1 - 1) : q \in 0..(p - 1) \/ q = p
    OBVIOUS
  <2>2. \A q : q \in 0..(p - 1) \/ q = p => q \in 0..(p + 1 - 1)
    OBVIOUS
  <2> QED
    BY <2>1, <2>2 DEF Newlines
<1>2. TrueLine(p + 1) = TrueLine(p) + 1
  <2>1. Cardinality(Newlines(p) \cup {p}) = Cardinality(Newlines(p)) + 1 /\ Cardinality(Newlines(p)) \in Nat
    BY <1>1, Places, FS_AddElement, FS_CardinalityType
  <2> QED
    BY <1>1, <2>1 DEF TrueLine
<1>3. TrueCol(p + 1) = 1
  <2>1. Newlines(p + 1) \in SUBSET (0..p) /\ p \in Newlines(p + 1)
    BY <1>1, Places
  <2>2. Max(Newlines(p + 1)) \in Newlines(p + 1) /\ p <= Max(Newlines(p + 1))
    BY <2>1, Greatest
  <2>3. Max(Newlines(p + 1)) = p
    BY <2>1, <2>2
  <2> QED
    BY <2>1, <2>3 DEF TrueCol
<1> QED
  BY <1>2, <1>3

-----------------------------------------------------------------------------
(* Steps of the tokenizer *)

\* The text does not change, and nothing said of it does.
LEMMA Static ==
  ASSUME code' = code
  PROVE  /\ \A p : At(p)' = At(p)
         /\ Commented' = Commented
         /\ \A t : Spells(t)' = Spells(t)
         /\ \A t : Stands(t)' = Stands(t)
         /\ \A t : Covered(t)' = Covered(t)
<1>1. \A p : At(p)' = At(p)
  BY DEF At
<1>2. Commented' = Commented
  BY <1>1 DEF Commented
<1>3. ASSUME NEW t PROVE Spells(t)' = Spells(t)
  BY <1>1 DEF Spells, Text
<1>4. ASSUME NEW t PROVE Stands(t)' = Stands(t)
  BY <1>1, <1>3 DEF Stands, IsNumber
<1>5. ASSUME NEW t PROVE Covered(t)' = Covered(t)
  BY <1>1 DEF Covered, IsNumber
<1> QED
  BY <1>1, <1>2, <1>3, <1>4, <1>5

\* The same for the places of the cursor, of the literal and of a token.
LEMMA StaticPlaces ==
  ASSUME code' = code
  PROVE  /\ TrueLine(char_ptr)' = TrueLine(char_ptr') /\ TrueCol(char_ptr)' = TrueCol(char_ptr')
         /\ TrueLine(lit.at)' = TrueLine(lit'.at) /\ TrueCol(lit.at)' = TrueCol(lit'.at)
         /\ \A i : TrueLine(tokens[i].from)' = TrueLine(tokens'[i].from)
         /\ \A i : TrueCol(tokens[i].from)' = TrueCol(tokens'[i].from)
  BY DEF TrueLine, TrueCol, Newlines, At

\* What follows a sequence in a longer one.
LEMMA Joined ==
  ASSUME NEW s, NEW u, IsSequence(s), IsSequence(u)
  PROVE  /\ IsSequence(s \o u) /\ Len(s) \in Nat /\ Len(u) \in Nat /\ Len(s \o u) = Len(s) + Len(u)
         /\ DOMAIN s = 1..Len(s) /\ DOMAIN u = 1..Len(u) /\ DOMAIN (s \o u) = 1..(Len(s) + Len(u))
         /\ \A i \in 1..Len(s) : (s \o u)[i] = s[i]
         /\ \A k \in 1..Len(u) : (s \o u)[Len(s) + k] = u[k]
<1> DEFINE S == {s[k] : k \in DOMAIN s} \cup {u[k] : k \in DOMAIN u}
           w == s \o u
<1>1. s \in Seq(S) /\ u \in Seq(S)
  <2>1. s \in Seq({s[k] : k \in DOMAIN s}) /\ u \in Seq({u[k] : k \in DOMAIN u})
    BY DEF IsSequence
  <2> QED
    BY <2>1
<1> HIDE DEF S
<1>2. /\ w \in Seq(S) /\ Len(w) = Len(s) + Len(u) /\ Len(s) \in Nat /\ Len(u) \in Nat
      /\ \A i \in 1..(Len(s) + Len(u)) : w[i] = IF i <= Len(s) THEN s[i] ELSE u[i - Len(s)]
  BY <1>1, ConcatProperties
<1> HIDE DEF w
<1>3. w \in Seq({w[k] : k \in DOMAIN w}) /\ DOMAIN w = 1..Len(w)
  BY <1>2
<1>4. DOMAIN s = 1..Len(s) /\ DOMAIN u = 1..Len(u)
  BY <1>1
<1>5. \A i \in 1..Len(s) : w[i] = s[i]
  BY <1>2
<1>6. ASSUME NEW k \in 1..Len(u) PROVE w[Len(s) + k] = u[k]
  <2>1. Len(s) + k \in 1..(Len(s) + Len(u)) /\ ~(Len(s) + k <= Len(s)) /\ Len(s) + k - Len(s) = k
    BY <1>2
  <2> QED
    BY <1>2, <2>1
<1> QED
  BY <1>2, <1>3, <1>4, <1>5, <1>6 DEF IsSequence, w

\* Reading on takes nothing back of what the tokens so far are and account for.
LEMMA Extends ==
  ASSUME code' = code, IsSequence(tokens), NEW new, IsSequence(new), tokens' = tokens \o new
  PROVE  /\ IsSequence(tokens)' /\ Len(tokens) \in Nat /\ Len(new) \in Nat
         /\ Len(tokens') = Len(tokens) + Len(new)
         /\ DOMAIN tokens = 1..Len(tokens) /\ DOMAIN tokens' = 1..(Len(tokens) + Len(new)) /\ DOMAIN new = 1..Len(new)
         /\ \A i \in DOMAIN tokens : tokens'[i] = tokens[i]
         /\ \A k \in DOMAIN new : tokens'[Len(tokens) + k] = new[k]
         /\ \A i \in DOMAIN tokens : Dotted(i) => Dotted(i)'
         /\ \A i \in DOMAIN tokens : Placed(i) => Placed(i)'
         /\ \A l : Slipped(l) => Slipped(l)'
         /\ Lossless' => Lossless
         /\ \A p : Accounted(p) => Accounted(p)'
<1>1. /\ IsSequence(tokens') /\ Len(tokens) \in Nat /\ Len(new) \in Nat
      /\ Len(tokens') = Len(tokens) + Len(new)
      /\ DOMAIN tokens = 1..Len(tokens) /\ DOMAIN tokens' = 1..(Len(tokens) + Len(new)) /\ DOMAIN new = 1..Len(new)
      /\ \A i \in 1..Len(tokens) : tokens'[i] = tokens[i]
      /\ \A k \in 1..Len(new) : tokens'[Len(tokens) + k] = new[k]
  <2>1. /\ IsSequence(tokens \o new) /\ Len(tokens) \in Nat /\ Len(new) \in Nat
        /\ Len(tokens \o new) = Len(tokens) + Len(new)
        /\ DOMAIN tokens = 1..Len(tokens) /\ DOMAIN new = 1..Len(new)
        /\ DOMAIN (tokens \o new) = 1..(Len(tokens) + Len(new))
        /\ \A i \in 1..Len(tokens) : (tokens \o new)[i] = tokens[i]
        /\ \A k \in 1..Len(new) : (tokens \o new)[Len(tokens) + k] = new[k]
    BY Joined
  <2> QED
    BY <2>1, Zenon
<1>2. IsSequence(tokens)'
  BY <1>1 DEF IsSequence
<1>3. ASSUME NEW i \in DOMAIN tokens, Dotted(i)
      PROVE  Dotted(i)' /\ i + 1 \in DOMAIN tokens
  <2>1. i \in Nat /\ i < Len(tokens) /\ i + 1 \in 1..Len(tokens)
    BY <1>1, <1>3 DEF Dotted
  <2>2. tokens'[i] = tokens[i] /\ tokens'[i + 1] = tokens[i + 1] /\ i < Len(tokens')
    BY <1>1, <2>1
  <2> QED
    BY <1>1, <1>3, <2>1, <2>2 DEF Dotted
<1>4. ASSUME NEW i \in DOMAIN tokens, Placed(i)
      PROVE  Placed(i)'
  <2>1. \A j \in 1..i : j \in DOMAIN tokens
    BY <1>1
  <2>2. \A j \in 1..i : tokens'[j] = tokens[j] /\ (Dotted(j) => Dotted(j)')
    BY <1>1, <1>3, <2>1
  <2>3. i \in 1..i
    BY <1>1
  <2>4. TrueLine(tokens[i].from)' = TrueLine(tokens[i].from) /\ TrueCol(tokens[i].from)' = TrueCol(tokens[i].from)
    BY StaticPlaces, <2>2, <2>3
  <2> QED
    BY <1>4, <2>2, <2>3, <2>4 DEF Placed, Loose
<1>5. ASSUME NEW l, Slipped(l) PROVE Slipped(l)'
  BY <1>1, <1>3, <1>5 DEF Slipped
<1>6. ASSUME NEW i \in DOMAIN tokens, Overread(i) PROVE Overread(i)'
  <2>1. Dotted(i)' /\ tokens'[i] = tokens[i]
    BY <1>1, <1>3, <1>6 DEF Overread
  <2> QED
    BY <1>6, <2>1 DEF Overread, At
<1>7. Lossless' => Lossless
  BY <1>1, <1>6 DEF Lossless
<1>8. ASSUME NEW p, Accounted(p) PROVE Accounted(p)'
  <2>1. CASE At(p) \in Blank
    BY <2>1 DEF Accounted, At
  <2>2. CASE \E i \in DOMAIN tokens : p \in Covered(tokens[i])
    <3>1. PICK i \in DOMAIN tokens : p \in Covered(tokens[i])
      BY <2>2
    <3>2. i \in DOMAIN tokens' /\ tokens'[i] = tokens[i]
      BY <1>1
    <3>3. p \in Covered(tokens[i])'
      BY <3>1, <3>2 DEF Covered, IsNumber, At
    <3> QED
      BY <3>2, <3>3 DEF Accounted
  <2> QED
    BY <1>8, <2>1, <2>2 DEF Accounted
<1> QED
  BY <1>1, <1>2, <1>3, <1>4, <1>5, <1>7, <1>8

\* What a step keeps when it takes no token back.
Keeps ==
  /\ \A l : Slipped(l) => Slipped(l)'
  /\ Lossless' => Lossless
  /\ \A p : Accounted(p) => Accounted(p)'
  /\ Commented' = Commented

\* New tokens, one after the other, each in its place and spelled.
LEMMA TokensGrow ==
  ASSUME TokensOK, Behind, char_ptr \in Nat, lit \in Literals, code' = code,
         NEW new, IsSequence(new), tokens' = tokens \o new,
         \A k \in DOMAIN new : Interval(new[k]),
         \A i \in (DOMAIN tokens') \ DOMAIN tokens : Placed(i)',
         \A k \in DOMAIN new : IF k = 1 THEN Frontier <= new[k].from ELSE new[k - 1].to <= new[k].from,
         Lossless' => \A k \in DOMAIN new : Stands(new[k])
  PROVE  /\ TokensOK' /\ Keeps
         /\ \A i \in DOMAIN tokens' : (\E j \in DOMAIN tokens : tokens'[i] = tokens[j]) \/ \E k \in DOMAIN new : tokens'[i] = new[k]
         /\ \A k \in DOMAIN new : Len(tokens) + k \in DOMAIN tokens' /\ tokens'[Len(tokens) + k] = new[k]
<1>1. /\ IsSequence(tokens)' /\ Len(tokens) \in Nat /\ Len(new) \in Nat
      /\ Len(tokens') = Len(tokens) + Len(new)
      /\ DOMAIN tokens = 1..Len(tokens) /\ DOMAIN tokens' = 1..(Len(tokens) + Len(new)) /\ DOMAIN new = 1..Len(new)
      /\ \A i \in DOMAIN tokens : tokens'[i] = tokens[i]
      /\ \A k \in DOMAIN new : tokens'[Len(tokens) + k] = new[k]
      /\ \A i \in DOMAIN tokens : Placed(i) => Placed(i)'
      /\ \A l : Slipped(l) => Slipped(l)'
      /\ Lossless' => Lossless
      /\ \A p : Accounted(p) => Accounted(p)'
  <2>1. IsSequence(tokens)
    BY DEF TokensOK, TokensTyped
  <2> QED
    BY <2>1, Extends
<1>2. ASSUME NEW i \in DOMAIN tokens'
      PROVE  i \in DOMAIN tokens \/ \E k \in DOMAIN new : i = Len(tokens) + k
  <2>1. CASE i <= Len(tokens)
    BY <1>1, <2>1
  <2>2. CASE i > Len(tokens)
    <3>1. i - Len(tokens) \in 1..Len(new) /\ i = Len(tokens) + (i - Len(tokens))
      BY <1>1, <2>2
    <3> QED
      BY <1>1, <3>1
  <2> QED
    BY <1>1, <2>1, <2>2
<1>3. TokensTyped'
  <2>1. ASSUME NEW i \in DOMAIN tokens' PROVE Interval(tokens'[i])
    <3>1. CASE i \in DOMAIN tokens
      BY <1>1, <3>1 DEF TokensOK, TokensTyped
    <3>2. CASE \E k \in DOMAIN new : i = Len(tokens) + k
      BY <1>1, <3>2
    <3> QED
      BY <1>2, <3>1, <3>2
  <2> QED
    BY <1>1, <2>1 DEF TokensTyped, Interval
<1>4. TruePositions'
  <2>1. ASSUME NEW i \in DOMAIN tokens' PROVE Placed(i)'
    <3>1. CASE i \in DOMAIN tokens
      <4>1. Placed(i)
        BY <3>1 DEF TokensOK, TruePositions, Placed, Loose
      <4> QED
        BY <1>1, <3>1, <4>1
    <3> QED
      BY <2>1, <3>1
  <2> QED
    BY <2>1 DEF TruePositions, Placed, Loose
<1>5. Follow'
  <2>1. ASSUME NEW i \in DOMAIN tokens', i > 1 PROVE tokens'[i - 1].to <= tokens'[i].from
    <3>1. CASE i \in DOMAIN tokens
      <4>1. i - 1 \in DOMAIN tokens
        BY <1>1, <2>1, <3>1
      <4> QED
        BY <1>1, <2>1, <3>1, <4>1 DEF TokensOK, Follow
    <3>2. ASSUME NEW k \in DOMAIN new, i = Len(tokens) + k
          PROVE  tokens'[i - 1].to <= tokens'[i].from
      <4>1. CASE k = 1
        <5>1. i - 1 \in DOMAIN tokens
          BY <1>1, <2>1, <3>2, <4>1
        <5>2. tokens[i - 1].to <= Frontier /\ Frontier <= new[k].from
          BY <5>1, <4>1 DEF Behind
        <5>3. tokens[i - 1].to \in Nat /\ Frontier \in Nat /\ new[k].from \in Nat
          BY <5>1, <3>2 DEF TokensOK, TokensTyped, Interval, Frontier, Literals
        <5>4. tokens'[i - 1] = tokens[i - 1] /\ tokens'[i] = new[k]
          BY <1>1, <5>1, <3>2
        <5> QED
          BY <5>2, <5>3, <5>4
      <4>2. CASE k # 1
        <5>1. k - 1 \in DOMAIN new /\ i - 1 = Len(tokens) + (k - 1)
          BY <1>1, <3>2, <4>2
        <5>2. tokens'[i - 1] = new[k - 1] /\ tokens'[i] = new[k]
          BY <1>1, <5>1, <3>2
        <5> QED
          BY <5>2, <4>2
      <4> QED
        BY <4>1, <4>2
    <3> QED
      BY <1>2, <3>1, <3>2
  <2> QED
    BY <2>1 DEF Follow
<1>6. Stood'
  <2>1. ASSUME Lossless', NEW i \in DOMAIN tokens' PROVE Stands(tokens'[i])
    <3>1. CASE i \in DOMAIN tokens
      BY <1>1, <2>1, <3>1 DEF TokensOK, Stood
    <3>2. CASE \E k \in DOMAIN new : i = Len(tokens) + k
      BY <1>1, <2>1, <3>2
    <3> QED
      BY <1>2, <3>1, <3>2
  <2>2. ASSUME NEW i PROVE Stands(tokens[i])' = Stands(tokens'[i])
    BY DEF Stands, Spells, IsNumber, Text, At
  <2> QED
    BY <2>1, <2>2 DEF Stood
<1>7. Keeps
  BY <1>1, Static DEF Keeps
<1>8. \A i \in DOMAIN tokens' : (\E j \in DOMAIN tokens : tokens'[i] = tokens[j]) \/ \E k \in DOMAIN new : tokens'[i] = new[k]
  BY <1>1, <1>2
<1>9. \A k \in DOMAIN new : Len(tokens) + k \in DOMAIN tokens' /\ tokens'[Len(tokens) + k] = new[k]
  BY <1>1
<1> QED
  BY <1>3, <1>4, <1>5, <1>6, <1>7, <1>8, <1>9 DEF TokensOK

\* No new token.
LEMMA TokensKept ==
  ASSUME TokensOK, code' = code, tokens' = tokens
  PROVE  TokensOK' /\ Keeps
<1>1. \A i : /\ TrueLine(tokens[i].from)' = TrueLine(tokens[i].from)
             /\ TrueCol(tokens[i].from)' = TrueCol(tokens[i].from)
  BY StaticPlaces
<1>2. \A i : Dotted(i)' = Dotted(i)
  BY DEF Dotted
<1>3. \A i : Stands(tokens[i])' = Stands(tokens[i])
  BY DEF Stands, Spells, IsNumber, Text, At
<1>4. Lossless' = Lossless
  BY <1>2, Static DEF Lossless, Overread, At
<1>5. \A p : Accounted(p)' = Accounted(p)
  BY DEF Accounted, Covered, IsNumber, At
<1>6. TokensTyped' /\ Follow'
  BY DEF TokensOK, TokensTyped, IsSequence, Interval, Follow
<1>7. TruePositions'
  BY <1>1, <1>2 DEF TokensOK, TruePositions
<1>8. Stood'
  BY <1>3, <1>4 DEF TokensOK, Stood
<1>9. Keeps
  BY <1>2, <1>4, <1>5, Static DEF Keeps, Slipped
<1> QED
  BY <1>6, <1>7, <1>8, <1>9 DEF TokensOK

\* One new token.
PlacedToken(t) ==
  /\ t.line = TrueLine(t.from) \/ Loose(t)
  /\ t.col = TrueCol(t.from) \/ Loose(t) \/ Slipped(t.line)

\* It is in its place if it stands where it says, or its line has slipped.
LEMMA TokenAdded ==
  ASSUME TokensOK, Behind, char_ptr \in Nat, lit \in Literals, code' = code,
         NEW t, Emit(t), Interval(t), Frontier <= t.from, PlacedToken(t), Lossless => Stands(t)
  PROVE  /\ TokensOK' /\ Keeps
         /\ \A i \in DOMAIN tokens' : (\E j \in DOMAIN tokens : tokens'[i] = tokens[j]) \/ tokens'[i] = t
         /\ \E i \in DOMAIN tokens' : tokens'[i] = t
<1> DEFINE new == <<t>>
<1>1. IsSequence(tokens) /\ IsSequence(new) /\ DOMAIN new = {1} /\ Len(new) = 1 /\ new[1] = t
  BY DEF TokensOK, TokensTyped, IsSequence
<1>2. tokens' = tokens \o new
  <2>1. tokens \in Seq({tokens[k] : k \in DOMAIN tokens} \cup {t})
    <3>1. tokens \in Seq({tokens[k] : k \in DOMAIN tokens})
      BY <1>1 DEF IsSequence
    <3> QED
      BY <3>1
  <2> QED
    BY <2>1 DEF Emit
<1> HIDE DEF new
<1>3. /\ Len(tokens) \in Nat /\ Len(new) \in Nat
      /\ DOMAIN tokens = 1..Len(tokens) /\ DOMAIN tokens' = 1..(Len(tokens) + Len(new)) /\ DOMAIN new = 1..Len(new)
      /\ \A i \in DOMAIN tokens : tokens'[i] = tokens[i]
      /\ \A k \in DOMAIN new : tokens'[Len(tokens) + k] = new[k]
      /\ \A i \in DOMAIN tokens : Dotted(i) => Dotted(i)'
      /\ Lossless' => Lossless
  BY <1>1, <1>2, Extends
<1>4. ASSUME NEW i \in (DOMAIN tokens') \ DOMAIN tokens PROVE Placed(i)'
  <2>1. Len(new) = 1 /\ i = Len(tokens) + 1
    BY <1>1, <1>3
  <2>2. tokens'[i] = t
    BY <1>1, <1>3, <2>1
  <2>3. TrueLine(tokens[i].from)' = TrueLine(t.from) /\ TrueCol(tokens[i].from)' = TrueCol(t.from)
    BY <2>2, StaticPlaces
  <2>4. Slipped(t.line) => \E j \in 1..i : Dotted(j)' /\ tokens'[j].line = t.line
    <3>1. \A j \in DOMAIN tokens : j \in 1..i
      BY <1>3, <2>1
    <3> QED
      BY <1>3, <3>1 DEF Slipped
  <2> QED
    BY <2>2, <2>3, <2>4 DEF Placed, PlacedToken, Loose
<1>5. /\ \A k \in DOMAIN new : Interval(new[k])
      /\ \A k \in DOMAIN new : IF k = 1 THEN Frontier <= new[k].from ELSE new[k - 1].to <= new[k].from
      /\ Lossless' => \A k \in DOMAIN new : Stands(new[k])
  BY <1>1, <1>3
<1>6. /\ TokensOK' /\ Keeps
      /\ \A i \in DOMAIN tokens' : (\E j \in DOMAIN tokens : tokens'[i] = tokens[j]) \/ \E k \in DOMAIN new : tokens'[i] = new[k]
      /\ \A k \in DOMAIN new : Len(tokens) + k \in DOMAIN tokens' /\ tokens'[Len(tokens) + k] = new[k]
  BY <1>1, <1>2, <1>4, <1>5, TokensGrow
<1> QED
  BY <1>1, <1>6

\* The cursor moves along its line.
LEMMA CursorMoves ==
  ASSUME Typed, Cursor, code' = code, Keeps, NEW n \in Nat, EatChar(n),
         \A q \in char_ptr..(char_ptr + n - 1) : At(q) # "\n"
  PROVE  /\ char_ptr' = char_ptr + n /\ cur_line' = cur_line /\ cur_col' = cur_col + n
         /\ char_ptr' \in Nat /\ cur_line' \in Nat /\ cur_col' \in Nat /\ Cursor'
<1>1. /\ char_ptr' = char_ptr + n /\ cur_line' = cur_line /\ cur_col' = cur_col + n
      /\ char_ptr' \in Nat /\ cur_line' \in Nat /\ cur_col' \in Nat
  BY DEF Typed, EatChar
<1>2. TrueLine(char_ptr + n) = TrueLine(char_ptr) /\ TrueCol(char_ptr + n) = TrueCol(char_ptr) + n
  BY SameLine DEF Typed
<1>3. TrueLine(char_ptr)' = TrueLine(char_ptr) /\ TrueCol(char_ptr)' = TrueCol(char_ptr) + n
  BY <1>1, <1>2, StaticPlaces
<1>4. Slipped(cur_line) => Slipped(cur_line)'
  <2>1. \A l : Slipped(l) => Slipped(l)'
    BY DEF Keeps
  <2>2. Slipped(cur_line)' <=> \E j \in DOMAIN tokens' : Dotted(j)' /\ tokens'[j].line = cur_line'
    BY DEF Slipped
  <2>3. \A l : Slipped(l)' <=> \E j \in DOMAIN tokens' : Dotted(j)' /\ tokens'[j].line = l
    BY DEF Slipped
  <2> QED
    BY <1>1, <2>1, <2>2, <2>3
<1>5. Cursor'
  BY <1>1, <1>3, <1>4 DEF Cursor
<1> QED
  BY <1>1, <1>5

\* The cursor goes to the next line.
LEMMA CursorBreaks ==
  ASSUME Typed, Cursor, code' = code, NEW n \in Nat \ {0}, EatLine(n),
         \A q \in char_ptr..(char_ptr + n - 2) : At(q) # "\n", At(char_ptr + n - 1) = "\n"
  PROVE  /\ char_ptr' = char_ptr + n
         /\ char_ptr' \in Nat /\ cur_line' \in Nat /\ cur_col' \in Nat /\ Cursor'
<1>1. /\ char_ptr' = char_ptr + n /\ cur_line' = cur_line + 1 /\ cur_col' = 1
      /\ char_ptr' \in Nat /\ cur_line' \in Nat /\ cur_col' \in Nat
  BY DEF Typed, EatLine
<1>2. /\ n - 1 \in Nat /\ char_ptr + (n - 1) = char_ptr + n - 1
      /\ \A q \in char_ptr..(char_ptr + (n - 1) - 1) : At(q) # "\n"
  BY DEF Typed
<1>3. TrueLine(char_ptr + (n - 1)) = TrueLine(char_ptr)
  BY <1>2, SameLine DEF Typed
<1>4. TrueLine(char_ptr + n) = TrueLine(char_ptr) + 1 /\ TrueCol(char_ptr + n) = 1
  <2> DEFINE p == char_ptr + (n - 1)
  <2>1. p \in Nat /\ At(p) = "\n" /\ p + 1 = char_ptr + n
    BY <1>2 DEF Typed
  <2>2. TrueLine(p + 1) = TrueLine(p) + 1 /\ TrueCol(p + 1) = 1
    <3> HIDE DEF p
    <3> QED
      BY <2>1, NextLine
  <2> QED
    BY <1>3, <2>1, <2>2
<1>5. TrueLine(char_ptr)' = TrueLine(char_ptr) + 1 /\ TrueCol(char_ptr)' = 1
  BY <1>1, <1>4, StaticPlaces
<1> QED
  BY <1>1, <1>5 DEF Cursor

\* What a step in the text, or out of it, may change of the rest.
LEMMA CoversOn ==
  ASSUME Covers, Keeps, code' = code, Typed, NEW f \in Nat, Frontier' = f,
         mode' \in {"text", "char", "string"} => mode \in {"text", "char", "string", "comment"},
         mode' = "comment" => Commented,
         mode' \in {"text", "char", "string"} /\ ~Commented /\ Lossless' =>
            \A p \in Frontier..(f - 1) : p < Len(code) => Accounted(p)'
  PROVE  Covers'
<1>1. mode' = "comment" => Commented'
  BY DEF Keeps
<1>2. ASSUME Lossless', mode' \in {"text", "char", "string"}, ~Commented',
             NEW p \in 0..(f - 1), p < Len(code)
      PROVE  Accounted(p)'
  <2>1. Lossless /\ ~Commented /\ mode \in {"text", "char", "string"}
    BY <1>2 DEF Keeps, Covers
  <2>2. Frontier \in Nat
    BY DEF Frontier, Typed, Literals
  <2>3. CASE p < Frontier
    <3>1. p \in 0..(Frontier - 1)
      BY <1>2, <2>2, <2>3
    <3>2. Accounted(p)
      BY <1>2, <2>1, <3>1 DEF Covers
    <3> QED
      BY <3>2 DEF Keeps
  <2>4. CASE ~(p < Frontier)
    <3>1. p \in Frontier..(f - 1)
      BY <1>2, <2>2, <2>4
    <3> QED
      BY <1>2, <2>1, <3>1
  <2> QED
    BY <2>3, <2>4
<1> QED
  BY <1>1, <1>2 DEF Covers

\* What every step of the tokenizer shows.
Onward == char_ptr' > char_ptr \/ mode' \in {"done", "failed"}

\* The two modes of a quoted literal.
LEMMA Modality ==
  /\ InLiteral <=> mode \in {"char", "string"}
  BY DEF InLiteral, Quotes

\* A quote does not break the line.
LEMMA QuotesInline == \A m \in {"char", "string"} : Quotes[m] # "\n"
<1>1. Quotes["char"] # "\n"
  BY DEF Quotes
<1>2. Quotes["string"] # "\n"
  BY DEF Quotes
<1> QED
  BY <1>1, <1>2

\* What GET_CHAR reads, and how far the tokens reach while text is read.
LEMMA Characters ==
  ASSUME Typed
  PROVE  /\ Ch(0) = At(char_ptr) /\ Ch(1) = At(char_ptr + 1) /\ Frontier \in Nat
         /\ Reading => Frontier = char_ptr /\ mode = "text" /\ char_ptr < Len(code)
         /\ Len(code) \in Nat /\ \A p \in Nat : At(p) # NUL => p < Len(code)
<1>1. char_ptr \in Nat /\ char_ptr + 0 = char_ptr /\ lit.at \in Nat
  BY DEF Typed, Literals
<1>2. Ch(0) = At(char_ptr) /\ Ch(1) = At(char_ptr + 1)
  BY <1>1 DEF Ch
<1>3. Frontier \in Nat
  BY <1>1 DEF Frontier
<1>4. Reading => Frontier = char_ptr /\ mode = "text" /\ char_ptr < Len(code)
  BY Modality DEF Reading, Frontier
<1>5. Len(code) \in Nat /\ \A p \in Nat : At(p) # NUL => p < Len(code)
  BY TextEnds DEF Typed
<1> QED
  BY <1>2, <1>3, <1>4, <1>5

\* A token accounts for the text it was read from.
LEMMA NowAccounted ==
  ASSUME code' = code, NEW t, \E i \in DOMAIN tokens' : tokens'[i] = t
  PROVE  /\ \A p \in Covered(t) : Accounted(p)'
         /\ \A p \in t.from..(t.to - 1) : Accounted(p)'
<1>1. PICK i \in DOMAIN tokens' : tokens'[i] = t
  OBVIOUS
<1>2. Covered(tokens[i])' = Covered(t)
  BY <1>1 DEF Covered, IsNumber, At
<1>3. \A p \in Covered(t) : Accounted(p)'
  BY <1>2 DEF Accounted
<1> QED
  BY <1>3 DEF Covered

\* The conjuncts of the invariant that follow from the others in every step.
LEMMA StepOK ==
  ASSUME IInv, code' = code, TokensOK', Keeps, Cursor',
         char_ptr' \in Nat, cur_line' \in Nat, cur_col' \in Nat, mode' \in Modes, lit' \in Literals,
         LiteralBegan', NEW f \in Nat, Frontier' = f, Frontier <= f,
         \A i \in DOMAIN tokens' : (\E j \in DOMAIN tokens : tokens'[i] = tokens[j]) \/ tokens'[i].to <= f,
         mode' \in {"text", "char", "string"} => mode \in {"text", "char", "string", "comment"},
         mode' = "comment" => Commented,
         mode' \in {"text", "char", "string"} /\ ~Commented /\ Lossless' =>
            \A p \in Frontier..(f - 1) : p < Len(code) => Accounted(p)'
  PROVE  IInv'
<1>1. Typed'
  BY DEF IInv, Typed
<1>2. Behind'
  <2>1. ASSUME NEW j \in DOMAIN tokens PROVE tokens[j].to <= f
    <3>1. tokens[j].to \in Nat /\ Frontier \in Nat /\ tokens[j].to <= Frontier
      BY Characters DEF IInv, TokensOK, TokensTyped, Interval, Behind
    <3> QED
      BY <3>1
  <2>2. \A i \in DOMAIN tokens' : tokens'[i].to <= f
    BY <2>1
  <2> QED
    BY <2>2 DEF Behind
<1>3. Covers'
  BY CoversOn DEF IInv
<1> QED
  BY <1>1, <1>2, <1>3 DEF IInv

\* A step within the text, from the cursor on.
LEMMA TextStep ==
  ASSUME IInv, mode = "text", mode' = "text", code' = code, lit' = lit, TokensOK', Keeps, Cursor',
         cur_line' \in Nat, cur_col' \in Nat, NEW n \in Nat \ {0}, char_ptr' = char_ptr + n,
         \A i \in DOMAIN tokens' : (\E j \in DOMAIN tokens : tokens'[i] = tokens[j]) \/ tokens'[i].to <= char_ptr + n,
         Lossless' => \A p \in char_ptr..(char_ptr + n - 1) : p < Len(code) => Accounted(p)' \/ Commented
  PROVE  IInv' /\ Onward
<1>1. Typed
  BY DEF IInv
<1>2. Frontier = char_ptr /\ Frontier' = char_ptr' /\ ~InLiteral'
  BY Modality DEF Frontier, InLiteral, Quotes
<1>3. char_ptr + n \in Nat /\ Frontier' = char_ptr + n /\ Frontier <= char_ptr + n /\ char_ptr + n > char_ptr
  BY <1>1, <1>2 DEF Typed
<1>4. LiteralBegan' /\ mode' \in Modes /\ lit' \in Literals
  BY <1>1, <1>2 DEF LiteralBegan, Modes, Typed
<1>5. IInv'
  <2> DEFINE f == char_ptr + n
  <2>1. f \in Nat /\ Frontier' = f /\ Frontier <= f
    BY <1>3
  <2>2. \A i \in DOMAIN tokens' : (\E j \in DOMAIN tokens : tokens'[i] = tokens[j]) \/ tokens'[i].to <= f
    OBVIOUS
  <2>3. ASSUME ~Commented, Lossless', NEW p \in Frontier..(f - 1), p < Len(code) PROVE Accounted(p)'
    <3>1. p \in char_ptr..(char_ptr + n - 1)
      BY <1>1, <1>2, <2>3 DEF Typed
    <3> QED
      BY <2>3, <3>1
  <2>4. char_ptr' \in Nat
    BY <1>3
  <2> HIDE DEF f
  <2> QED
    BY <1>4, <2>1, <2>2, <2>3, <2>4, StepOK
<1> QED
  BY <1>3, <1>5 DEF Onward

\* An error ends the work where it is found.
LEMMA Fails ==
  ASSUME IInv, lexer_error
  PROVE  IInv' /\ Onward
<1>1. /\ mode' = "failed" /\ code' = code /\ char_ptr' = char_ptr /\ cur_line' = cur_line /\ cur_col' = cur_col
      /\ tokens' = tokens /\ lit' = lit
  BY DEF lexer_error
<1>2. TokensOK' /\ Keeps
  BY <1>1, TokensKept DEF IInv
<1>3. Typed
  BY DEF IInv
<1>4. Frontier' = char_ptr /\ Frontier <= char_ptr /\ ~InLiteral'
  <2>1. ~InLiteral'
    BY <1>1, Modality DEF InLiteral, Quotes
  <2>2. Frontier' = char_ptr
    BY <1>1, <2>1 DEF Frontier
  <2>3. Frontier <= char_ptr
    BY <1>3 DEF IInv, LiteralBegan, Frontier, Typed, Literals
  <2> QED
    BY <2>1, <2>2, <2>3
<1>5. Cursor'
  <2>1. Cursor /\ TrueLine(char_ptr)' = TrueLine(char_ptr) /\ TrueCol(char_ptr)' = TrueCol(char_ptr)
    BY <1>1, StaticPlaces DEF IInv
  <2>2. Slipped(cur_line)' <=> Slipped(cur_line)
    BY <1>1 DEF Slipped, Dotted
  <2> QED
    BY <1>1, <2>1, <2>2 DEF Cursor
<1>6. /\ char_ptr' \in Nat /\ cur_line' \in Nat /\ cur_col' \in Nat /\ mode' \in Modes /\ lit' \in Literals
      /\ LiteralBegan' /\ char_ptr \in Nat
  BY <1>1, <1>3, <1>4 DEF Typed, Modes, LiteralBegan
<1>7. IInv'
  BY <1>1, <1>2, <1>4, <1>5, <1>6, StepOK
<1> QED
  BY <1>1, <1>7 DEF Onward

\* A token that is read from the cursor on, along the line.
LEMMA OneToken ==
  ASSUME IInv, Reading, code' = code, mode' = mode, lit' = lit,
         NEW t, NEW n \in Nat \ {0}, Emit(t), EatChar(n),
         t.from = char_ptr, t.to = char_ptr + n, t.line = cur_line, t.col = cur_col, Lossless => Stands(t),
         \A q \in char_ptr..(char_ptr + n - 1) : At(q) # "\n"
  PROVE  IInv' /\ Onward
<1>1. /\ Typed /\ Frontier = char_ptr /\ mode = "text" /\ mode' = "text" /\ char_ptr \in Nat
  BY Characters DEF IInv, Typed
<1>2. Interval(t) /\ Frontier <= t.from /\ PlacedToken(t)
  BY <1>1 DEF Interval, PlacedToken, IInv, Cursor
<1>3. /\ TokensOK' /\ Keeps
      /\ \A i \in DOMAIN tokens' : (\E j \in DOMAIN tokens : tokens'[i] = tokens[j]) \/ tokens'[i] = t
      /\ \E i \in DOMAIN tokens' : tokens'[i] = t
  BY <1>1, <1>2, TokenAdded DEF IInv, Typed
<1>4. char_ptr' = char_ptr + n /\ cur_line' \in Nat /\ cur_col' \in Nat /\ Cursor'
  BY <1>1, <1>3, CursorMoves DEF IInv
<1>5. ASSUME NEW p \in char_ptr..(char_ptr + n - 1) PROVE Accounted(p)'
  <2>1. p \in t.from..(t.to - 1)
    BY <1>1
  <2> QED
    BY <1>3, <2>1, NowAccounted
<1>6. \A i \in DOMAIN tokens' : (\E j \in DOMAIN tokens : tokens'[i] = tokens[j]) \/ tokens'[i].to <= char_ptr + n
  BY <1>1, <1>3
<1> QED
  BY <1>1, <1>3, <1>4, <1>5, <1>6, TextStep

\* A character 0 in the text becomes an _EOF.
LEMMA EatNulOK ==
  ASSUME IInv, EatNul
  PROVE  IInv' /\ Onward
<1> DEFINE t == Plain("_EOF", char_ptr, char_ptr + 1)
<1>1. t.type = "_EOF" /\ t.line = cur_line /\ t.col = cur_col /\ t.from = char_ptr /\ t.to = char_ptr + 1
  BY DEF Plain, Token
<1>2. Stands(t)
  BY <1>1 DEF Stands
<1>3. Emit(t) /\ EatChar(1) /\ Reading /\ code' = code /\ mode' = mode /\ lit' = lit
  BY DEF EatNul
<1> HIDE DEF t
<1>4. ASSUME NEW q \in char_ptr..(char_ptr + 1 - 1) PROVE At(q) # "\n"
  <2>1. char_ptr \in Nat /\ At(char_ptr) = NUL
    BY Characters DEF IInv, EatNul, Typed
  <2>2. q = char_ptr
    BY <2>1
  <2> QED
    BY <2>1, <2>2, InlineSets
<1> QED
  BY <1>1, <1>2, <1>3, <1>4, OneToken

\* The longest symbol that can be read is one that can be read.
LEMMA SymbolOK ==
  ASSUME IInv, Symbol
  PROVE  IInv' /\ Onward
<1>1. char_ptr \in Nat
  BY DEF IInv, Typed
<1> DEFINE s == Longest(Candidates)
           t == Plain(s, char_ptr, char_ptr + Len(Symbols[s]))
<1>2. s \in Candidates
  <2>1. Candidates # {} /\ Candidates \subseteq DOMAIN Symbols
    BY DEF Symbol, Candidates
  <2>2. \E c \in Candidates : \A u \in Candidates : Len(Symbols[u]) <= Len(Symbols[c])
    <3> DEFINE Lengths == {Len(Symbols[u]) : u \in Candidates}
    <3>1. Lengths \in SUBSET (0..3) /\ Lengths # {}
      <4>1. \A u \in Candidates : Len(Symbols[u]) \in 1..3
        BY <2>1, SymbolShape
      <4>2. ASSUME NEW y \in Lengths PROVE y \in 0..3
        <5>1. PICK u \in Candidates : y = Len(Symbols[u])
          OBVIOUS
        <5> QED
          BY <4>1, <5>1
      <4>3. PICK u \in Candidates : TRUE
        BY <2>1
      <4>4. Len(Symbols[u]) \in Lengths
        BY <4>3
      <4> HIDE DEF Lengths
      <4> QED
        BY <4>2, <4>4
    <3>2. Max(Lengths) \in Lengths /\ \A y \in Lengths : y <= Max(Lengths)
      <4> HIDE DEF Lengths
      <4> QED
        BY <3>1, Greatest
    <3> QED
      BY <3>2
  <2> QED
    BY <2>2 DEF Longest
<1>3. /\ s \in DOMAIN Symbols /\ Len(Symbols[s]) \in Nat \ {0}
      /\ \A k \in 1..Len(Symbols[s]) : Ch(k - 1) = Symbols[s][k] /\ Inline(Symbols[s][k])
  <2>1. s \in DOMAIN Symbols /\ \A k \in 1..Len(Symbols[s]) : Ch(k - 1) = Symbols[s][k]
    BY <1>2 DEF Candidates
  <2> HIDE DEF s
  <2>2. Len(Symbols[s]) \in 1..3 /\ \A k \in 1..Len(Symbols[s]) : Inline(Symbols[s][k])
    BY <2>1, SymbolShape
  <2> QED
    BY <2>1, <2>2
<1>4. Emit(t) /\ EatChar(Len(Symbols[s])) /\ Reading /\ code' = code /\ mode' = mode /\ lit' = lit
  BY DEF Symbol
<1> HIDE DEF s
<1>5. /\ t.type = s /\ t.line = cur_line /\ t.col = cur_col /\ t.from = char_ptr
      /\ t.to = char_ptr + Len(Symbols[s])
  BY DEF Plain, Token
<1>6. Stands(t)
  <2>1. ASSUME NEW k \in 1..Len(Symbols[s]) PROVE At(char_ptr + k - 1) = Symbols[s][k]
    <3>1. Ch(k - 1) = At(char_ptr + k - 1)
      <4>1. char_ptr + (k - 1) = char_ptr + k - 1
        BY <1>1
      <4> QED
        BY <4>1 DEF Ch
    <3> QED
      BY <1>3, <3>1
  <2> HIDE DEF t
  <2> QED
    BY <1>3, <1>5, <2>1 DEF Stands, Spells
<1>7. ASSUME NEW q \in char_ptr..(char_ptr + Len(Symbols[s]) - 1) PROVE At(q) # "\n"
  <2>1. PICK k \in 1..Len(Symbols[s]) : char_ptr + (k - 1) = q
    <3> DEFINE k == q - char_ptr + 1
    <3>1. k \in 1..Len(Symbols[s]) /\ char_ptr + (k - 1) = q
      BY <1>1, <1>3
    <3> HIDE DEF k
    <3> QED
      BY <3>1
  <2>2. Inline(Ch(k - 1))
    BY <1>3
  <2> QED
    BY <2>1, <2>2 DEF Ch, Inline
<1> HIDE DEF t
<1> QED
  BY <1>3, <1>4, <1>5, <1>6, <1>7, OneToken

\* The two signs read at once, each in its place.
LEMMA TwoGreaterOK ==
  ASSUME IInv, TwoGreater
  PROVE  IInv' /\ Onward
<1> DEFINE t == Plain("OP_GT", char_ptr, char_ptr + 1)
           u == Token("OP_GT", cur_line, cur_col + 1, "", NoComment, char_ptr + 1, char_ptr + 2)
           new == <<t, u>>
<1>1. /\ Typed /\ Cursor /\ Frontier = char_ptr /\ mode = "text" /\ mode' = "text" /\ char_ptr \in Nat /\ cur_col \in Nat
      /\ code' = code /\ lit' = lit /\ lit \in Literals /\ EatChar(2)
      /\ At(char_ptr) = ">" /\ At(char_ptr + 1) = ">"
  BY Characters DEF IInv, TwoGreater, Shift, Typed
<1>2. /\ t.type = "OP_GT" /\ t.line = cur_line /\ t.col = cur_col /\ t.from = char_ptr /\ t.to = char_ptr + 1
      /\ u.type = "OP_GT" /\ u.line = cur_line /\ u.col = cur_col + 1 /\ u.from = char_ptr + 1 /\ u.to = char_ptr + 2
  BY DEF Plain, Token
<1>3. tokens' = tokens \o new
  BY DEF TwoGreater
<1> HIDE DEF t, u
<1>4. IsSequence(new) /\ DOMAIN new = {1, 2} /\ Len(new) = 2 /\ new[1] = t /\ new[2] = u
  BY DEF IsSequence
<1> HIDE DEF new
<1>5. /\ Len(tokens) \in Nat
      /\ DOMAIN tokens = 1..Len(tokens) /\ DOMAIN tokens' = 1..(Len(tokens) + 2)
      /\ \A i \in DOMAIN tokens : tokens'[i] = tokens[i]
      /\ \A k \in DOMAIN new : tokens'[Len(tokens) + k] = new[k]
      /\ \A i \in DOMAIN tokens : Dotted(i) => Dotted(i)'
  BY <1>1, <1>3, <1>4, Extends DEF IInv, TokensOK, TokensTyped
<1>6. ASSUME NEW q \in char_ptr..(char_ptr + 2 - 1) PROVE At(q) # "\n"
  <2>1. q = char_ptr \/ q = char_ptr + 1
    BY <1>1
  <2> QED
    BY <1>1, <2>1
<1>7. TrueLine(char_ptr + 1) = TrueLine(char_ptr) /\ TrueCol(char_ptr + 1) = TrueCol(char_ptr) + 1
  <2>1. \A q \in char_ptr..(char_ptr + 1 - 1) : At(q) # "\n"
    BY <1>1, <1>6
  <2> QED
    BY <1>1, <2>1, SameLine
<1>8. PlacedToken(t) /\ PlacedToken(u)
  BY <1>1, <1>2, <1>7 DEF PlacedToken, Cursor
<1>9. ASSUME NEW i \in (DOMAIN tokens') \ DOMAIN tokens PROVE Placed(i)'
  <2>1. i \in Nat /\ (i = Len(tokens) + 1 \/ i = Len(tokens) + 2)
    BY <1>5
  <2>2. tokens'[i] = t \/ tokens'[i] = u
    BY <1>4, <1>5, <2>1
  <2>3. /\ TrueLine(tokens[i].from)' = TrueLine(tokens'[i].from)
        /\ TrueCol(tokens[i].from)' = TrueCol(tokens'[i].from)
    BY <1>1, StaticPlaces
  <2>4. ASSUME NEW l, Slipped(l) PROVE \E j \in 1..i : Dotted(j)' /\ tokens'[j].line = l
    <3>1. PICK j \in DOMAIN tokens : Dotted(j) /\ tokens[j].line = l
      BY <2>4 DEF Slipped
    <3>2. j \in 1..i /\ Dotted(j)' /\ tokens'[j] = tokens[j]
      BY <1>5, <2>1, <3>1
    <3> QED
      BY <3>1, <3>2
  <2>5. PlacedToken(tokens'[i])
    BY <1>8, <2>2
  <2> QED
    BY <2>3, <2>4, <2>5 DEF Placed, PlacedToken, Loose
<1>10. Stands(t) /\ Stands(u)
  <2>1. "OP_GT" \in DOMAIN Symbols /\ Symbols["OP_GT"] = <<">">>
    BY GreaterSpelled
  <2>2. Spells(t) /\ Spells(u)
    BY <1>1, <1>2, <2>1 DEF Spells
  <2> QED
    BY <2>2 DEF Stands
<1>11. /\ \A k \in DOMAIN new : Interval(new[k])
       /\ \A k \in DOMAIN new : IF k = 1 THEN Frontier <= new[k].from ELSE new[k - 1].to <= new[k].from
       /\ \A k \in DOMAIN new : Stands(new[k])
  <2>1. \A k \in DOMAIN new : k = 1 \/ k = 2
    BY <1>4
  <2>2. Interval(t) /\ Interval(u) /\ Frontier <= t.from /\ t.to <= u.from
    BY <1>1, <1>2 DEF Interval
  <2> QED
    BY <1>4, <1>10, <2>1, <2>2
<1>12. /\ TokensOK' /\ Keeps
       /\ \A i \in DOMAIN tokens' : (\E j \in DOMAIN tokens : tokens'[i] = tokens[j]) \/ \E k \in DOMAIN new : tokens'[i] = new[k]
       /\ \A k \in DOMAIN new : Len(tokens) + k \in DOMAIN tokens' /\ tokens'[Len(tokens) + k] = new[k]
  <2>1. TokensOK /\ Behind
    BY DEF IInv
  <2> QED
    BY <1>1, <1>3, <1>4, <1>9, <1>11, <2>1, TokensGrow
<1>13. char_ptr' = char_ptr + 2 /\ cur_line' \in Nat /\ cur_col' \in Nat /\ Cursor'
  BY <1>1, <1>6, <1>12, CursorMoves
<1>14. \A i \in DOMAIN tokens' : (\E j \in DOMAIN tokens : tokens'[i] = tokens[j]) \/ tokens'[i].to <= char_ptr + 2
  BY <1>1, <1>2, <1>4, <1>12
<1>15. ASSUME NEW p \in char_ptr..(char_ptr + 2 - 1) PROVE Accounted(p)'
  <2>1. p \in t.from..(t.to - 1) \/ p \in u.from..(u.to - 1)
    BY <1>1, <1>2
  <2>2. (\E i \in DOMAIN tokens' : tokens'[i] = t) /\ \E i \in DOMAIN tokens' : tokens'[i] = u
    BY <1>4, <1>12
  <2> QED
    BY <1>1, <2>1, <2>2, NowAccounted
<1> QED
  BY <1>1, <1>12, <1>13, <1>14, <1>15, TextStep

\* A word is a run of letters and digits, and no symbol.
LEMMA WordOK ==
  ASSUME IInv, Word
  PROVE  IInv' /\ Onward
<1> DEFINE S == Letters \cup Digits
           end == Run(char_ptr + 1, S)
           type == WordType(Text(char_ptr, end))
           t == Token(type, cur_line, cur_col, Text(char_ptr, end),
                      IF type \in Declares THEN comments ELSE NoComment, char_ptr, end)
           n == end - char_ptr
<1>1. /\ Typed /\ char_ptr \in Nat /\ char_ptr < Len(code) /\ Len(code) \in Nat
      /\ At(char_ptr) \in Letters
  BY Characters DEF IInv, Word, Typed
<1>2. NUL \notin S /\ \A c \in S : c # "\n"
  <2>1. \A c \in S : Inline(c)
    BY InlineSets
  <2> QED
    BY <2>1 DEF Inline
<1>3. Emit(t) /\ EatChar(n) /\ Reading /\ code' = code /\ mode' = mode /\ lit' = lit
  BY DEF Word
<1>4. end \in (char_ptr + 1)..Len(code) /\ \A q \in (char_ptr + 1)..(end - 1) : At(q) \in S
  <2>1. char_ptr + 1 \in 0..Len(code) /\ code \in Sources
    BY <1>1 DEF Typed
  <2> HIDE DEF S
  <2> QED
    BY <1>2, <2>1, RunStops
<1>5. At(char_ptr) \in S
  BY <1>1
<1> HIDE DEF S, end
<1>6. n \in Nat \ {0} /\ end = char_ptr + n
  BY <1>1, <1>4
<1>7. \A q \in char_ptr..(char_ptr + n - 1) : At(q) # "\n"
  BY <1>1, <1>2, <1>4, <1>5, <1>6
<1>8. type \notin DOMAIN Symbols
  BY WordsAreNoSymbols
<1> HIDE DEF type
<1>9. t.type = type /\ t.line = cur_line /\ t.col = cur_col /\ t.from = char_ptr /\ t.to = end /\ t.value = Text(t.from, t.to)
  BY DEF Token
<1> HIDE DEF t
<1>10. Stands(t)
  BY <1>8, <1>9 DEF Stands, Spells
<1> HIDE DEF n
<1> QED
  BY <1>3, <1>6, <1>7, <1>9, <1>10, OneToken

\* A blank is read, a newline on to the next line.
LEMMA EatBlankOK ==
  ASSUME IInv, EatBlank
  PROVE  IInv' /\ Onward
<1>1. /\ Typed /\ mode = "text" /\ char_ptr \in Nat /\ Ch(0) = At(char_ptr) /\ At(char_ptr) \in Blank
      /\ code' = code /\ tokens' = tokens /\ mode' = "text" /\ lit' = lit
  BY Characters DEF IInv, EatBlank, Typed
<1>2. TokensOK' /\ Keeps
  BY <1>1, TokensKept DEF IInv
<1>3. char_ptr' = char_ptr + 1 /\ cur_line' \in Nat /\ cur_col' \in Nat /\ Cursor'
  <2>1. CASE At(char_ptr) = "\n"
    <3>1. EatLine(1) /\ char_ptr + 1 - 1 = char_ptr /\ \A q \in char_ptr..(char_ptr + 1 - 2) : At(q) # "\n"
      BY <1>1, <2>1 DEF EatBlank
    <3> QED
      BY <1>1, <1>2, <2>1, <3>1, CursorBreaks DEF IInv
  <2>2. CASE At(char_ptr) # "\n"
    <3>1. EatChar(1) /\ \A q \in char_ptr..(char_ptr + 1 - 1) : At(q) # "\n"
      BY <1>1, <2>2 DEF EatBlank
    <3> QED
      BY <1>1, <1>2, <3>1, CursorMoves DEF IInv
  <2> QED
    BY <2>1, <2>2
<1>4. ASSUME NEW p \in char_ptr..(char_ptr + 1 - 1) PROVE Accounted(p)'
  <2>1. p = char_ptr
    BY <1>1
  <2>2. Accounted(p)
    BY <1>1, <2>1 DEF Accounted
  <2> QED
    BY <1>2, <2>2 DEF Keeps
<1> QED
  BY <1>1, <1>2, <1>3, <1>4, TextStep, SMTT(30)

\* A comment is a comment whatever follows.
LEMMA Comments ==
  ASSUME Typed, Reading, Ch(0) = "/"
  PROVE  Commented
<1>1. char_ptr \in Nat /\ char_ptr \in 0..(Len(code) - 1) /\ At(char_ptr) = "/"
  BY Characters DEF Typed
<1> QED
  BY <1>1 DEF Commented

\* A comment up to the end of the line, or of the text.
LEMMA LineCommentOK ==
  ASSUME IInv, LineComment
  PROVE  IInv' /\ Onward
<1> DEFINE Ends == {q \in char_ptr..Len(code) : At(q) \in {"\n", NUL}}
           end == Min(Ends)
           n == end - char_ptr
           t == Token("_EOF", cur_line, cur_col + n, "", NoComment, end, end + 1)
<1>1. /\ Typed /\ Reading /\ mode = "text" /\ Frontier = char_ptr /\ char_ptr \in Nat /\ char_ptr < Len(code) /\ Len(code) \in Nat
      /\ code' = code /\ mode' = "text" /\ lit' = lit /\ cur_line \in Nat /\ cur_col \in Nat
      /\ Commented
  BY Characters, Comments DEF IInv, LineComment, Typed
<1>2. end \in Ends /\ \A y \in Ends : end <= y
  <2>1. Ends \in SUBSET Nat /\ Ends # {}
    <3>1. At(Len(code)) = NUL
      BY <1>1, Characters
    <3> QED
      BY <1>1, <3>1
  <2> HIDE DEF Ends
  <2> QED
    BY <2>1, Least
<1>3. /\ n \in Nat /\ end = char_ptr + n /\ end \in Nat /\ At(end) \in {"\n", NUL}
      /\ \A q \in char_ptr..(char_ptr + n - 1) : At(q) # "\n"
  <2>1. end \in char_ptr..Len(code) /\ At(end) \in {"\n", NUL}
    BY <1>2
  <2>2. ASSUME NEW q \in char_ptr..(end - 1), At(q) = "\n" PROVE FALSE
    <3>1. end \in Nat
      BY <1>1, <2>1
    <3>2. q \in char_ptr..Len(code)
      BY <1>1, <2>1, <3>1
    <3>3. q \in Ends
      BY <2>2, <3>2
    <3>4. end <= q
      BY <1>2, <3>3
    <3> HIDE DEF end
    <3> QED
      BY <1>1, <3>1, <3>4
  <2> HIDE DEF end
  <2>3. n \in Nat /\ end = char_ptr + n /\ end \in Nat
    BY <1>1, <2>1
  <2>4. char_ptr + n - 1 = end - 1
    BY <1>1, <2>3
  <2> HIDE DEF n
  <2> QED
    BY <2>1, <2>2, <2>3, <2>4
<1>4. IF At(end) = "\n" THEN EatLine(n + 1) /\ tokens' = tokens ELSE Emit(t) /\ EatChar(n + 1)
  BY DEF LineComment
<1> HIDE DEF end
<1>5. CASE At(end) = "\n"
  <2>1. TokensOK' /\ Keeps
    BY <1>1, <1>4, <1>5, TokensKept DEF IInv
  <2>2. /\ n + 1 \in Nat \ {0} /\ char_ptr + (n + 1) - 1 = end
        /\ \A q \in char_ptr..(char_ptr + (n + 1) - 2) : At(q) # "\n"
    BY <1>1, <1>3
  <2> HIDE DEF n
  <2>3. char_ptr' = char_ptr + (n + 1) /\ cur_line' \in Nat /\ cur_col' \in Nat /\ Cursor'
    BY <1>1, <1>4, <1>5, <2>2, CursorBreaks DEF IInv
  <2> QED
    BY <1>1, <1>4, <1>5, <2>1, <2>2, <2>3, TextStep
<1>6. CASE At(end) # "\n"
  <2>1. t.type = "_EOF" /\ t.line = cur_line /\ t.col = cur_col + n /\ t.from = end /\ t.to = end + 1
    BY DEF Token
  <2> HIDE DEF t
  <2>2. TrueLine(end) = TrueLine(char_ptr) /\ TrueCol(end) = TrueCol(char_ptr) + n
    <3> HIDE DEF n
    <3> QED
      BY <1>1, <1>3, SameLine
  <2>3. Interval(t) /\ Frontier <= t.from /\ PlacedToken(t) /\ Stands(t)
    <3>1. PlacedToken(t)
      BY <1>1, <1>3, <2>1, <2>2 DEF PlacedToken, IInv, Cursor
    <3>2. Interval(t) /\ Frontier <= t.from
      BY <1>1, <1>3, <2>1 DEF Interval
    <3> QED
      BY <2>1, <3>1, <3>2 DEF Stands
  <2>4. /\ TokensOK' /\ Keeps
        /\ \A i \in DOMAIN tokens' : (\E j \in DOMAIN tokens : tokens'[i] = tokens[j]) \/ tokens'[i] = t
    BY <1>1, <1>4, <1>6, <2>3, TokenAdded DEF IInv, Typed
  <2>5. /\ n + 1 \in Nat \ {0} /\ char_ptr + (n + 1) = end + 1
        /\ \A q \in char_ptr..(char_ptr + (n + 1) - 1) : At(q) # "\n"
    <3>1. ASSUME NEW q \in char_ptr..(char_ptr + (n + 1) - 1) PROVE q = end \/ q \in char_ptr..(char_ptr + n - 1)
      BY <1>1, <1>3
    <3> QED
      BY <1>1, <1>3, <1>6, <3>1
  <2> HIDE DEF n
  <2>6. char_ptr' = char_ptr + (n + 1) /\ cur_line' \in Nat /\ cur_col' \in Nat /\ Cursor'
    BY <1>1, <1>4, <1>6, <2>4, <2>5, CursorMoves DEF IInv
  <2>7. ASSUME NEW i \in DOMAIN tokens'
        PROVE  (\E j \in DOMAIN tokens : tokens'[i] = tokens[j]) \/ tokens'[i].to <= char_ptr + (n + 1)
    <3>1. end + 1 <= end + 1
      BY <1>3
    <3> QED
      BY <2>1, <2>4, <2>5, <3>1
  <2> QED
    BY <1>1, <2>4, <2>5, <2>6, <2>7, TextStep
<1> QED
  BY <1>5, <1>6

\* A block comment begins, and the text has a slash,
LEMMA BeginCommentOK ==
  ASSUME IInv, BeginComment
  PROVE  IInv' /\ Onward
<1>1. /\ Typed /\ Reading /\ mode = "text" /\ Frontier = char_ptr /\ char_ptr \in Nat
      /\ code' = code /\ tokens' = tokens /\ mode' = "comment" /\ lit' = [NoLiteral EXCEPT !.at = char_ptr]
      /\ EatChar(2) /\ At(char_ptr) = "/" /\ At(char_ptr + 1) = "*" /\ Commented
  BY Characters, Comments DEF IInv, BeginComment, Typed
<1>2. TokensOK' /\ Keeps
  BY <1>1, TokensKept DEF IInv
<1>3. char_ptr' = char_ptr + 2 /\ cur_line' \in Nat /\ cur_col' \in Nat /\ Cursor'
  <2>1. ASSUME NEW q \in char_ptr..(char_ptr + 2 - 1) PROVE At(q) # "\n"
    <3>1. q = char_ptr \/ q = char_ptr + 1
      BY <1>1
    <3> QED
      BY <1>1, <3>1
  <2> QED
    BY <1>1, <1>2, <2>1, CursorMoves DEF IInv
<1>4. lit' \in Literals /\ mode' \in Modes /\ ~InLiteral' /\ LiteralBegan'
  BY <1>1 DEF Literals, NoLiteral, Modes, InLiteral, Quotes, LiteralBegan
<1>5. Frontier' = char_ptr + 2 /\ Frontier <= char_ptr + 2 /\ char_ptr + 2 \in Nat
  BY <1>1, <1>3, <1>4 DEF Frontier
<1>6. IInv'
  BY <1>1, <1>2, <1>3, <1>4, <1>5, StepOK
<1> QED
  BY <1>1, <1>3, <1>6 DEF Onward

\* goes on over lines, and ends.
LEMMA InCommentOK ==
  ASSUME IInv, InComment
  PROVE  IInv' /\ Onward
<1>1. /\ Typed /\ mode = "comment" /\ ~InLiteral /\ char_ptr \in Nat /\ Frontier = char_ptr
      /\ Ch(0) = At(char_ptr) /\ Ch(1) = At(char_ptr + 1) /\ Commented
  <2>1. mode = "comment" /\ ~InLiteral
    BY Modality DEF InComment
  <2> QED
    BY <2>1, Characters DEF IInv, Typed, Covers, Frontier
<1>2. CASE Ch(0) = NUL /\ lexer_error
  BY <1>2, Fails
<1>3. ASSUME NEW n \in {1, 2}, char_ptr' = char_ptr + n, code' = code, tokens' = tokens,
             Cursor', cur_line' \in Nat, cur_col' \in Nat, mode' \in {"text", "comment"}, lit' \in Literals
      PROVE  IInv' /\ Onward
  <2>1. TokensOK' /\ Keeps
    BY <1>3, TokensKept DEF IInv
  <2>2. ~InLiteral' /\ mode' \in Modes /\ LiteralBegan'
    BY <1>3 DEF InLiteral, Quotes, Modes, LiteralBegan
  <2>3. Frontier' = char_ptr + n /\ Frontier <= char_ptr + n /\ char_ptr + n \in Nat /\ char_ptr + n > char_ptr
    BY <1>1, <1>3, <2>2 DEF Frontier
  <2>4. IInv'
    BY <1>1, <1>3, <2>1, <2>2, <2>3, StepOK
  <2> QED
    BY <1>3, <2>3, <2>4 DEF Onward
<1>4. code' = code /\ tokens' = tokens => Keeps
  BY TokensKept DEF IInv
<1>5. CASE /\ Ch(0) = "*" /\ Ch(1) = "/"
           /\ EatChar(2) /\ mode' = "text" /\ comments' = {lit.at} /\ lit' = NoLiteral
           /\ UNCHANGED <<code, tokens>>
  <2>1. ASSUME NEW q \in char_ptr..(char_ptr + 2 - 1) PROVE At(q) # "\n"
    <3>1. q = char_ptr \/ q = char_ptr + 1
      BY <1>1
    <3> QED
      BY <1>1, <1>5, <3>1
  <2>2. char_ptr' = char_ptr + 2 /\ cur_line' \in Nat /\ cur_col' \in Nat /\ Cursor'
    BY <1>1, <1>4, <1>5, <2>1, CursorMoves DEF IInv
  <2>3. lit' \in Literals
    BY <1>5 DEF NoLiteral, Literals
  <2> QED
    BY <1>3, <1>5, <2>2, <2>3
<1>6. CASE /\ Ch(0) # NUL
           /\ IF Ch(0) = "\n" THEN EatLine(1) ELSE EatChar(1)
           /\ UNCHANGED <<code, tokens, comments, mode, lit>>
  <2>1. char_ptr' = char_ptr + 1 /\ cur_line' \in Nat /\ cur_col' \in Nat /\ Cursor'
    <3>1. CASE Ch(0) = "\n"
      <4>1. EatLine(1) /\ char_ptr + 1 - 1 = char_ptr /\ \A q \in char_ptr..(char_ptr + 1 - 2) : At(q) # "\n"
        BY <1>1, <1>6, <3>1
      <4> QED
        BY <1>1, <1>4, <1>6, <3>1, <4>1, CursorBreaks DEF IInv
    <3>2. CASE Ch(0) # "\n"
      <4>1. EatChar(1) /\ \A q \in char_ptr..(char_ptr + 1 - 1) : At(q) # "\n"
        BY <1>1, <1>6, <3>2
      <4> QED
        BY <1>1, <1>4, <1>6, <4>1, CursorMoves DEF IInv
    <3> QED
      BY <3>1, <3>2
  <2>2. lit' \in Literals /\ mode' = "comment"
    BY <1>1, <1>6 DEF Typed
  <2> QED
    BY <1>3, <1>6, <2>1, <2>2
<1> QED
  BY <1>2, <1>5, <1>6 DEF InComment

\* An opening quote: the place past it is remembered.
LEMMA BeginLiteralOK ==
  ASSUME IInv, BeginLiteral
  PROVE  IInv' /\ Onward
<1>1. /\ Typed /\ Reading /\ mode = "text" /\ Frontier = char_ptr /\ char_ptr \in Nat /\ cur_line \in Nat /\ cur_col \in Nat
      /\ Ch(0) = At(char_ptr) /\ code' = code /\ tokens' = tokens /\ EatChar(1)
  BY Characters DEF IInv, BeginLiteral, Typed
<1>2. PICK m \in DOMAIN Quotes :
        /\ Ch(0) = Quotes[m] /\ mode' = m
        /\ lit' = [at |-> char_ptr, line |-> cur_line, col |-> cur_col + 1, size |-> 0]
  BY DEF BeginLiteral
<1>3. m \in {"char", "string"} /\ Quotes[m] # "\n"
  <2>1. m \in {"char", "string"}
    BY DEF Quotes
  <2> QED
    BY <2>1, QuotesInline
<1>4. TokensOK' /\ Keeps
  BY <1>1, TokensKept DEF IInv
<1>5. ASSUME NEW q \in char_ptr..(char_ptr + 1 - 1) PROVE At(q) # "\n"
  <2>1. q = char_ptr
    BY <1>1
  <2> QED
    BY <1>1, <1>2, <1>3, <2>1
<1>6. char_ptr' = char_ptr + 1 /\ cur_line' \in Nat /\ cur_col' \in Nat /\ Cursor' /\ cur_line' = cur_line
  BY <1>1, <1>4, <1>5, CursorMoves DEF IInv
<1>7. /\ lit' \in Literals /\ lit'.at = char_ptr /\ lit'.line = cur_line /\ lit'.col = cur_col + 1 /\ lit'.size = 0
      /\ mode' \in Modes /\ InLiteral'
  BY <1>1, <1>2, <1>3 DEF Literals, Modes, InLiteral
<1>8. LiteralBegan'
  <2>1. lit'.at < char_ptr'
    BY <1>1, <1>6, <1>7
  <2>2. TrueLine(lit.at)' = TrueLine(char_ptr) /\ TrueCol(lit.at)' = TrueCol(char_ptr)
    BY <1>1, <1>7, StaticPlaces
  <2>3. cur_line = TrueLine(char_ptr) /\ (cur_col = TrueCol(char_ptr) \/ Slipped(cur_line))
    BY DEF IInv, Cursor
  <2>4. Slipped(cur_line) => Slipped(lit.line)'
    BY <1>1, <1>7 DEF Slipped, Dotted
  <2>5. /\ lit'.size <= char_ptr' - lit'.at - 1
        /\ \A q \in lit'.at..(char_ptr' - 1) : At(q)' # "\n"
    <3>1. lit'.size <= char_ptr' - lit'.at - 1
      <4>1. lit'.size = 0
        BY <1>7
      <4>2. char_ptr' - lit'.at = 1
        BY <1>1, <1>6, <1>7
      <4> QED
        BY <4>1, <4>2
    <3>2. ASSUME NEW q \in lit'.at..(char_ptr' - 1) PROVE At(q) # "\n"
      <4>1. q \in char_ptr..(char_ptr + 1 - 1)
        BY <1>1, <1>6, <1>7
      <4> QED
        BY <1>5, <4>1
    <3> QED
      BY <1>1, <3>1, <3>2, Static
  <2> QED
    BY <1>7, <2>1, <2>2, <2>3, <2>4, <2>5 DEF LiteralBegan
<1>9. Frontier' = char_ptr /\ Frontier <= char_ptr
  BY <1>1, <1>7 DEF Frontier
<1>10. IInv'
  <2>1. \A p \in Frontier..(char_ptr - 1) : FALSE
    BY <1>1
  <2>2. char_ptr' \in Nat /\ mode' # "comment"
    BY <1>1, <1>2, <1>3, <1>6
  <2> QED
    BY <1>1, <1>4, <1>6, <1>7, <1>8, <1>9, <2>1, <2>2, StepOK
<1> QED
  BY <1>1, <1>6, <1>10 DEF Onward

\* The literal has grown by g characters and is otherwise the same.
Longer(g) ==
  lit' \in Literals /\ lit'.at = lit.at /\ lit'.line = lit.line /\ lit'.col = lit.col /\ lit'.size = lit.size + g

\* What a round adds to the length of a literal.
LEMMA Growth ==
  ASSUME lit \in Literals
  PROVE  /\ Grow => Longer(1) /\ code' = code /\ tokens' = tokens /\ mode' = mode
         /\ lit' = lit => Longer(0)
<1>1. Grow => Longer(1)
  BY DEF Grow, Longer, Literals
<1>2. lit' = lit => Longer(0)
  BY DEF Longer, Literals
<1> QED
  BY <1>1, <1>2 DEF Grow

\* A step within a literal, whose length grows by less than the text, or by as
\* much on one line.
LEMMA LiteralStep ==
  ASSUME IInv, InLiteral, code' = code, tokens' = tokens, mode' = mode,
         NEW n \in Nat \ {0}, char_ptr' = char_ptr + n, cur_line' \in Nat, cur_col' \in Nat, Cursor',
         NEW g \in {0, 1}, Longer(g),
         mode = "char" => g < n \/ \A q \in char_ptr..(char_ptr + n - 1) : At(q) # "\n"
  PROVE  IInv' /\ Onward
<1>1. /\ Typed /\ char_ptr \in Nat /\ lit \in Literals /\ lit.at \in Nat /\ lit.size \in Nat /\ mode \in {"char", "string"}
      /\ Frontier = lit.at /\ lit.at < char_ptr
  BY Modality DEF IInv, Typed, Literals, Frontier, LiteralBegan
<1>2. TokensOK' /\ Keeps
  BY TokensKept DEF IInv
<1>3. /\ lit' \in Literals /\ lit'.at = lit.at /\ lit'.line = lit.line /\ lit'.col = lit.col /\ lit'.size = lit.size + g
      /\ InLiteral' /\ mode' \in Modes
  BY <1>1 DEF Longer, InLiteral, Typed
<1>4. char_ptr' \in Nat /\ lit'.at < char_ptr' /\ char_ptr' > char_ptr
  BY <1>1, <1>3
<1>5. ASSUME mode = "string" PROVE lit'.line = TrueLine(lit.at)' /\ (lit'.col = TrueCol(lit.at)' + 1 \/ Slipped(lit.line)')
  <2>1. lit.line = TrueLine(lit.at) /\ (lit.col = TrueCol(lit.at) + 1 \/ Slipped(lit.line))
    BY <1>5 DEF IInv, LiteralBegan
  <2>2. TrueLine(lit.at)' = TrueLine(lit.at) /\ TrueCol(lit.at)' = TrueCol(lit.at)
    BY <1>3, StaticPlaces
  <2>3. Slipped(lit.line) => Slipped(lit.line)'
    BY <1>3 DEF Slipped, Dotted
  <2> QED
    BY <1>3, <2>1, <2>2, <2>3
<1>6. ASSUME mode = "char"
      PROVE  /\ lit'.size <= char_ptr' - lit'.at - 1
             /\ lit'.size = char_ptr' - lit'.at - 1 => \A q \in lit'.at..(char_ptr' - 1) : At(q)' # "\n"
  <2>1. /\ lit.size <= char_ptr - lit.at - 1
        /\ lit.size = char_ptr - lit.at - 1 => \A q \in lit.at..(char_ptr - 1) : At(q) # "\n"
    BY <1>6 DEF IInv, LiteralBegan
  <2>2. lit.size + g <= char_ptr + n - lit.at - 1
    BY <1>1, <2>1
  <2>3. ASSUME lit.size + g = char_ptr + n - lit.at - 1, NEW q \in lit.at..(char_ptr + n - 1)
        PROVE  At(q) # "\n"
    <3>1. g = n /\ lit.size = char_ptr - lit.at - 1
      BY <1>1, <2>1, <2>3
    <3>2. q \in lit.at..(char_ptr - 1) \/ q \in char_ptr..(char_ptr + n - 1)
      BY <1>1, <2>3
    <3> QED
      BY <1>6, <2>1, <3>1, <3>2
  <2>4. lit'.size = lit.size + g /\ char_ptr' - lit'.at - 1 = char_ptr + n - lit.at - 1
    BY <1>1, <1>3
  <2>5. ASSUME lit'.size = char_ptr' - lit'.at - 1, NEW q \in lit'.at..(char_ptr' - 1) PROVE At(q)' # "\n"
    <3>1. q \in lit.at..(char_ptr + n - 1)
      BY <1>1, <1>3, <2>5
    <3>2. At(q) # "\n"
      BY <2>3, <2>4, <2>5, <3>1
    <3> QED
      BY <3>2, Static
  <2> QED
    BY <2>2, <2>4, <2>5
<1>7. LiteralBegan'
  BY <1>4, <1>5, <1>6 DEF LiteralBegan
<1>8. Frontier' = lit.at /\ Frontier <= lit.at
  BY <1>1, <1>3 DEF Frontier
<1>9. IInv'
  <2>1. \A p \in Frontier..(lit.at - 1) : FALSE
    BY <1>1
  <2>2. mode' # "comment"
    BY <1>1
  <2> QED
    BY <1>1, <1>2, <1>3, <1>4, <1>7, <1>8, <2>1, <2>2, StepOK
<1> QED
  BY <1>4, <1>9 DEF Onward

\* A character of a literal: a newline only in a string,
LEMMA LiteralCharOK ==
  ASSUME IInv, LiteralChar
  PROVE  IInv' /\ Onward
<1>1. /\ Typed /\ InLiteral /\ char_ptr \in Nat /\ Ch(0) = At(char_ptr) /\ mode \in {"char", "string"} /\ lit \in Literals
  BY Characters, Modality DEF IInv, LiteralChar, Typed
<1>2. code' = code /\ tokens' = tokens => Keeps
  BY TokensKept DEF IInv
<1>3. CASE Ch(0) # "\n"
  <2>1. EatChar(1) /\ Longer(1) /\ code' = code /\ tokens' = tokens /\ mode' = mode
    BY <1>1, <1>3, Growth DEF LiteralChar
  <2>2. \A q \in char_ptr..(char_ptr + 1 - 1) : At(q) # "\n"
    BY <1>1, <1>3
  <2>3. char_ptr' = char_ptr + 1 /\ cur_line' \in Nat /\ cur_col' \in Nat /\ Cursor'
    BY <1>1, <1>2, <2>1, <2>2, CursorMoves DEF IInv
  <2> QED
    BY <1>1, <2>1, <2>2, <2>3, LiteralStep
<1>4. CASE Ch(0) = "\n" /\ mode = "string"
  <2>1. EatLine(1) /\ Longer(1) /\ code' = code /\ tokens' = tokens /\ mode' = mode
    BY <1>1, <1>4, Growth DEF LiteralChar
  <2>2. \A q \in char_ptr..(char_ptr + 1 - 2) : At(q) # "\n"
    BY <1>1
  <2>3. char_ptr + 1 - 1 = char_ptr
    BY <1>1
  <2>4. char_ptr' = char_ptr + 1 /\ cur_line' \in Nat /\ cur_col' \in Nat /\ Cursor'
    BY <1>1, <1>4, <2>1, <2>2, <2>3, CursorBreaks DEF IInv
  <2> QED
    BY <1>1, <1>4, <2>1, <2>4, LiteralStep
<1>5. CASE Ch(0) = "\n" /\ mode # "string"
  <2>1. lexer_error
    BY <1>5 DEF LiteralChar
  <2> QED
    BY <2>1, Fails
<1> QED
  BY <1>3, <1>4, <1>5

\* or an escape, which is longer than what it stands for.
LEMMA LiteralEscapeOK ==
  ASSUME IInv, LiteralEscape
  PROVE  IInv' /\ Onward
<1>1. /\ Typed /\ InLiteral /\ char_ptr \in Nat /\ At(char_ptr) = "\\" /\ Ch(1) = At(char_ptr + 1)
      /\ mode \in {"char", "string"} /\ lit \in Literals /\ Len(code) \in Nat /\ char_ptr < Len(code)
  <2>1. /\ Typed /\ InLiteral /\ char_ptr \in Nat /\ At(char_ptr) = "\\" /\ Ch(1) = At(char_ptr + 1)
        /\ mode \in {"char", "string"} /\ lit \in Literals /\ Len(code) \in Nat
    BY Characters, Modality DEF IInv, LiteralEscape, Typed
  <2> QED
    BY <2>1, Characters, InlineSets DEF Inline
<1>2. code' = code /\ tokens' = tokens => Keeps
  BY TokensKept DEF IInv
<1>3. At(char_ptr) # "\n"
  BY <1>1
<1>4. CASE Ch(1) \in Escapes(mode) /\ EatChar(2) /\ Grow
  <2>1. EatChar(2) /\ Longer(1) /\ code' = code /\ tokens' = tokens /\ mode' = mode
    BY <1>1, <1>4, Growth
  <2>2. At(char_ptr + 1) # "\n"
    BY <1>1, <1>4, InlineSets DEF Escapes, Inline
  <2>3. ASSUME NEW q \in char_ptr..(char_ptr + 2 - 1) PROVE At(q) # "\n"
    <3>1. q = char_ptr \/ q = char_ptr + 1
      BY <1>1
    <3> QED
      BY <1>3, <2>2, <3>1
  <2>4. char_ptr' = char_ptr + 2 /\ cur_line' \in Nat /\ cur_col' \in Nat /\ Cursor'
    BY <1>1, <1>2, <2>1, <2>3, CursorMoves DEF IInv
  <2> QED
    BY <1>1, <2>1, <2>3, <2>4, LiteralStep
<1>5. CASE Ch(1) = "\n" /\ EatLine(2) /\ UNCHANGED <<code, tokens, comments, mode, lit>>
  <2>1. ASSUME NEW q \in char_ptr..(char_ptr + 2 - 2) PROVE At(q) # "\n"
    <3>1. q = char_ptr
      BY <1>1
    <3> QED
      BY <1>3, <3>1
  <2>2. char_ptr + 2 - 1 = char_ptr + 1
    BY <1>1
  <2>3. char_ptr' = char_ptr + 2 /\ cur_line' \in Nat /\ cur_col' \in Nat /\ Cursor'
    BY <1>1, <1>5, <2>1, <2>2, CursorBreaks DEF IInv
  <2>4. Longer(0)
    BY <1>1, <1>5, Growth
  <2> QED
    BY <1>1, <1>5, <2>3, <2>4, LiteralStep
<1>6. ASSUME Ch(1) = "x", NEW end, end = Run(char_ptr + 2, Hex),
             IF end = char_ptr + 2 \/ Overflows(char_ptr + 2, end) THEN lexer_error ELSE EatChar(end - char_ptr) /\ Grow
      PROVE  IInv' /\ Onward
  <2>1. end \in (char_ptr + 2)..Len(code) /\ \A q \in (char_ptr + 2)..(end - 1) : At(q) \in Hex
    <3>1. char_ptr + 1 < Len(code)
      <4>1. "x" # NUL
        BY DEF NUL
      <4>2. char_ptr + 1 \in Nat /\ At(char_ptr + 1) # NUL
        BY <1>1, <1>6, <4>1
      <4> QED
        BY <1>1, <4>2, Characters
    <3>2. char_ptr + 2 \in 0..Len(code) /\ code \in Sources
      BY <1>1, <3>1 DEF Typed
    <3>3. NUL \notin Hex
      BY InlineSets DEF Inline
    <3> QED
      BY <1>6, <3>2, <3>3, RunStops
  <2>2. CASE end = char_ptr + 2 \/ Overflows(char_ptr + 2, end)
    BY <1>6, <2>2, Fails
  <2>3. CASE end # char_ptr + 2 /\ ~Overflows(char_ptr + 2, end)
    <3> DEFINE n == end - char_ptr
    <3>1. EatChar(n) /\ Longer(1) /\ code' = code /\ tokens' = tokens /\ mode' = mode
      BY <1>1, <1>6, <2>3, Growth
    <3>2. n \in Nat \ {0} /\ 1 < n
      BY <1>1, <2>1
    <3>3. ASSUME NEW q \in char_ptr..(char_ptr + n - 1) PROVE At(q) # "\n"
      <4>1. q = char_ptr \/ q = char_ptr + 1 \/ q \in (char_ptr + 2)..(end - 1)
        BY <1>1, <2>1
      <4> QED
        BY <1>1, <1>3, <1>6, <2>1, <4>1, InlineSets DEF Inline
    <3> HIDE DEF n
    <3>4. char_ptr' = char_ptr + n /\ cur_line' \in Nat /\ cur_col' \in Nat /\ Cursor'
      BY <1>1, <1>2, <3>1, <3>2, <3>3, CursorMoves DEF IInv
    <3> QED
      BY <1>1, <3>1, <3>2, <3>4, LiteralStep
  <2> QED
    BY <2>2, <2>3
<1>7. CASE lexer_error
  BY <1>7, Fails
<1> QED
  BY <1>4, <1>5, <1>6, <1>7 DEF LiteralEscape

\* The end of a literal: its token begins at its first quote.
LEMMA LiteralEnds ==
  ASSUME IInv, InLiteral, code' = code, mode' = "text", lit' = NoLiteral,
         NEW t, Emit(t), EatChar(1), At(char_ptr) # "\n",
         t.from = lit.at, t.to = char_ptr + 1, PlacedToken(t), Stands(t)
  PROVE  IInv' /\ Onward
<1>1. /\ Typed /\ char_ptr \in Nat /\ lit \in Literals /\ lit.at \in Nat
      /\ Frontier = lit.at /\ lit.at < char_ptr /\ mode \in {"char", "string"}
  BY Modality DEF IInv, Typed, Literals, Frontier, LiteralBegan
<1>2. Interval(t) /\ Frontier <= t.from
  BY <1>1 DEF Interval
<1>3. /\ TokensOK' /\ Keeps
      /\ \A i \in DOMAIN tokens' : (\E j \in DOMAIN tokens : tokens'[i] = tokens[j]) \/ tokens'[i] = t
      /\ \E i \in DOMAIN tokens' : tokens'[i] = t
  BY <1>1, <1>2, TokenAdded DEF IInv
<1>4. char_ptr' = char_ptr + 1 /\ cur_line' \in Nat /\ cur_col' \in Nat /\ Cursor'
  <2>1. ASSUME NEW q \in char_ptr..(char_ptr + 1 - 1) PROVE At(q) # "\n"
    <3>1. q = char_ptr
      BY <1>1
    <3> QED
      BY <3>1
  <2> QED
    BY <1>1, <1>3, <2>1, CursorMoves DEF IInv
<1>5. ~InLiteral' /\ lit' \in Literals /\ mode' \in Modes /\ LiteralBegan'
  BY DEF InLiteral, Quotes, Literals, NoLiteral, Modes, LiteralBegan
<1>6. /\ Frontier' = char_ptr + 1 /\ Frontier <= char_ptr + 1 /\ char_ptr + 1 \in Nat
      /\ char_ptr' \in Nat /\ char_ptr' > char_ptr
  BY <1>1, <1>4, <1>5 DEF Frontier
<1>7. ASSUME NEW p \in Frontier..(char_ptr + 1 - 1) PROVE Accounted(p)'
  <2>1. p \in t.from..(t.to - 1)
    BY <1>1
  <2> QED
    BY <1>3, <2>1, NowAccounted
<1>8. \A i \in DOMAIN tokens' : (\E j \in DOMAIN tokens : tokens'[i] = tokens[j]) \/ tokens'[i].to <= char_ptr + 1
  BY <1>1, <1>3
<1>9. IInv'
  <2>1. mode' # "comment"
    OBVIOUS
  <2> QED
    BY <1>1, <1>3, <1>4, <1>5, <1>6, <1>7, <1>8, <2>1, StepOK
<1> QED
  BY <1>6, <1>9 DEF Onward

\* A string stands where it began.
LEMMA EndStringOK ==
  ASSUME IInv, EndString
  PROVE  IInv' /\ Onward
<1> DEFINE t == Token("VALUE_STRING", lit.line, lit.col - 1, Text(lit.at, char_ptr + 1), NoComment, lit.at, char_ptr + 1)
<1>1. /\ Typed /\ InLiteral /\ mode = "string" /\ At(char_ptr) # "\n"
      /\ code' = code /\ mode' = "text" /\ lit' = NoLiteral /\ Emit(t) /\ EatChar(1)
  BY Characters, Modality, QuotesInline DEF IInv, EndString
<1>2. /\ t.type = "VALUE_STRING" /\ t.line = lit.line /\ t.col = lit.col - 1 /\ t.from = lit.at /\ t.to = char_ptr + 1
      /\ t.value = Text(t.from, t.to)
  BY DEF Token
<1> HIDE DEF t
<1>3. PlacedToken(t)
  <2>1. lit.line = TrueLine(lit.at) /\ (lit.col = TrueCol(lit.at) + 1 \/ Slipped(lit.line))
    BY <1>1 DEF IInv, LiteralBegan
  <2>2. lit.col = TrueCol(lit.at) + 1 => lit.col - 1 = TrueCol(lit.at)
    BY <1>1, Places DEF Typed, Literals
  <2>3. t.line = TrueLine(t.from)
    BY <1>2, <2>1
  <2>4. t.col = TrueCol(t.from) \/ Slipped(t.line)
    <3>1. CASE lit.col = TrueCol(lit.at) + 1
      <4>1. t.col = TrueCol(lit.at)
        BY <1>2, <2>2, <3>1
      <4> QED
        BY <1>2, <4>1
    <3>2. CASE Slipped(lit.line)
      BY <1>2, <3>2
    <3> QED
      BY <2>1, <3>1, <3>2
  <2> QED
    BY <2>3, <2>4 DEF PlacedToken
<1>4. Stands(t)
  BY <1>2, WordsAreNoSymbols DEF Stands, Spells
<1> QED
  BY <1>1, <1>2, <1>3, <1>4, LiteralEnds

\* A character without escape began two columns before its end.
LEMMA EndCharOK ==
  ASSUME IInv, EndChar
  PROVE  IInv' /\ Onward
<1> DEFINE t == Token("VALUE_CHAR", cur_line, cur_col + 1 - (lit.size + 2), Text(lit.at, char_ptr + 1),
                      NoComment, lit.at, char_ptr + 1)
<1>1. /\ Typed /\ InLiteral /\ mode = "char" /\ At(char_ptr) # "\n"
      /\ char_ptr \in Nat /\ cur_col \in Nat /\ lit.at \in Nat /\ lit.size \in Nat /\ lit.at < char_ptr
  BY Characters, Modality, QuotesInline DEF IInv, EndChar, Typed, Literals, LiteralBegan
<1>2. CASE lit.size # 1
  <2>1. lexer_error
    BY <1>2 DEF EndChar
  <2> QED
    BY <2>1, Fails
<1>3. CASE lit.size = 1
  <2>1. code' = code /\ mode' = "text" /\ lit' = NoLiteral /\ Emit(t) /\ EatChar(1)
    BY <1>3 DEF EndChar
  <2>2. /\ t.type = "VALUE_CHAR" /\ t.line = cur_line /\ t.col = cur_col + 1 - (lit.size + 2)
        /\ t.from = lit.at /\ t.to = char_ptr + 1 /\ t.value = Text(t.from, t.to)
    BY DEF Token
  <2> HIDE DEF t
  <2>3. CASE t.to # t.from + 3
    <3>1. Loose(t)
      BY <2>2, <2>3 DEF Loose
    <3>2. Stands(t)
      BY <2>2, WordsAreNoSymbols DEF Stands, Spells
    <3> QED
      BY <1>1, <2>1, <2>2, <3>1, <3>2, LiteralEnds DEF PlacedToken
  <2>4. CASE t.to = t.from + 3
    <3>1. char_ptr = lit.at + 2 /\ lit.size = char_ptr - lit.at - 1
      BY <1>1, <1>3, <2>2, <2>4
    <3>2. \A q \in lit.at..(lit.at + 2 - 1) : At(q) # "\n"
      BY <1>1, <3>1 DEF IInv, LiteralBegan
    <3>3. TrueLine(char_ptr) = TrueLine(lit.at) /\ TrueCol(char_ptr) = TrueCol(lit.at) + 2
      BY <1>1, <3>1, <3>2, SameLine
    <3>4. t.col = cur_col - 2 /\ TrueCol(lit.at) \in Nat
      BY <1>1, <1>3, <2>2, Places
    <3>5. PlacedToken(t)
      <4>1. cur_line = TrueLine(char_ptr) /\ (cur_col = TrueCol(char_ptr) \/ Slipped(cur_line))
        BY DEF IInv, Cursor
      <4> QED
        BY <2>2, <3>3, <3>4, <4>1 DEF PlacedToken
    <3>6. Stands(t)
      BY <2>2, WordsAreNoSymbols DEF Stands, Spells
    <3> QED
      BY <1>1, <2>1, <2>2, <3>5, <3>6, LiteralEnds
  <2> QED
    BY <2>3, <2>4
<1> QED
  BY <1>2, <1>3

\* The end of the text: an _EOF unless there is one.
LEMMA FinishOK ==
  ASSUME IInv, Finish
  PROVE  IInv' /\ Onward
<1> DEFINE t == Plain("_EOF", char_ptr, char_ptr)
<1>1. /\ Typed /\ mode = "text" /\ char_ptr \in Nat /\ Frontier = char_ptr
      /\ code' = code /\ mode' = "done" /\ char_ptr' = char_ptr /\ cur_line' = cur_line /\ cur_col' = cur_col /\ lit' = lit
  BY Modality DEF IInv, Finish, Typed, Frontier
<1>2. t.type = "_EOF" /\ t.line = cur_line /\ t.col = cur_col /\ t.from = char_ptr /\ t.to = char_ptr
  BY DEF Plain, Token
<1>3. tokens' = tokens \/ Emit(t)
  BY DEF Finish
<1> HIDE DEF t
<1>4. Interval(t) /\ Frontier <= t.from /\ PlacedToken(t) /\ Stands(t)
  BY <1>1, <1>2 DEF Interval, PlacedToken, IInv, Cursor, Stands
<1>5. /\ TokensOK' /\ Keeps
      /\ \A i \in DOMAIN tokens' : (\E j \in DOMAIN tokens : tokens'[i] = tokens[j]) \/ tokens'[i].to <= char_ptr
  <2>1. CASE tokens' = tokens
    BY <1>1, <2>1, TokensKept DEF IInv
  <2>2. CASE Emit(t)
    <3>1. /\ TokensOK' /\ Keeps
          /\ \A i \in DOMAIN tokens' : (\E j \in DOMAIN tokens : tokens'[i] = tokens[j]) \/ tokens'[i] = t
      BY <1>1, <1>4, <2>2, TokenAdded DEF IInv, Typed
    <3>2. t.to <= char_ptr
      BY <1>1, <1>2
    <3> QED
      BY <3>1, <3>2
  <2> QED
    BY <1>3, <2>1, <2>2
<1>6. Cursor'
  <2>1. Cursor /\ TrueLine(char_ptr)' = TrueLine(char_ptr) /\ TrueCol(char_ptr)' = TrueCol(char_ptr)
    BY <1>1, StaticPlaces DEF IInv
  <2>2. Slipped(cur_line) => Slipped(cur_line)'
    <3>1. \A l : Slipped(l) => \E j \in DOMAIN tokens' : Dotted(j)' /\ tokens'[j].line = l
      BY <1>5 DEF Keeps, Slipped
    <3> QED
      BY <1>1, <3>1 DEF Slipped
  <2> QED
    BY <1>1, <2>1, <2>2 DEF Cursor
<1>7. /\ ~InLiteral' /\ LiteralBegan' /\ mode' \in Modes /\ lit' \in Literals
      /\ char_ptr' \in Nat /\ cur_line' \in Nat /\ cur_col' \in Nat
  BY <1>1 DEF InLiteral, Quotes, LiteralBegan, Modes, Typed
<1>8. Frontier' = char_ptr /\ Frontier <= char_ptr
  BY <1>1, <1>7 DEF Frontier
<1>9. IInv'
  BY <1>1, <1>5, <1>6, <1>7, <1>8, StepOK
<1> QED
  BY <1>1, <1>9 DEF Onward

\* What changes nothing keeps the invariant.
LEMMA StutterOK ==
  ASSUME IInv, UNCHANGED vars
  PROVE  IInv'
<1>1. /\ code' = code /\ char_ptr' = char_ptr /\ cur_line' = cur_line /\ cur_col' = cur_col
      /\ tokens' = tokens /\ mode' = mode /\ lit' = lit
  BY DEF vars
<1>2. TokensOK' /\ Keeps
  BY <1>1, TokensKept DEF IInv
<1>3. Typed' /\ Frontier' = Frontier
  BY <1>1 DEF IInv, Typed, Frontier, InLiteral
<1>4. Cursor'
  <2>1. Cursor /\ TrueLine(char_ptr)' = TrueLine(char_ptr) /\ TrueCol(char_ptr)' = TrueCol(char_ptr)
    BY <1>1, StaticPlaces DEF IInv
  <2>2. Slipped(cur_line)' <=> Slipped(cur_line)
    BY <1>1 DEF Slipped, Dotted
  <2> QED
    BY <1>1, <2>1, <2>2 DEF Cursor
<1>5. LiteralBegan'
  <2>1. TrueLine(lit.at)' = TrueLine(lit.at) /\ TrueCol(lit.at)' = TrueCol(lit.at)
    BY <1>1, StaticPlaces
  <2>2. Slipped(lit.line)' <=> Slipped(lit.line)
    BY <1>1 DEF Slipped, Dotted
  <2>3. \A q : At(q)' = At(q)
    BY <1>1, Static
  <2> QED
    BY <1>1, <2>1, <2>2, <2>3 DEF IInv, LiteralBegan, InLiteral
<1>6. Behind'
  BY <1>1, <1>3 DEF IInv, Behind
<1>7. Covers'
  <2>1. Lossless' => Lossless
    BY <1>2 DEF Keeps
  <2>2. \A p : Accounted(p) => Accounted(p)'
    BY <1>2 DEF Keeps
  <2> QED
    BY <1>1, <1>2, <1>3, <2>1, <2>2 DEF IInv, Covers, Keeps
<1> QED
  BY <1>2, <1>3, <1>4, <1>5, <1>6, <1>7 DEF IInv

\* A float that begins with its dot stands for its text, not its value.
LEMMA LeadingDotOK ==
  ASSUME IInv, LeadingDot
  PROVE  IInv' /\ Onward
<1> DEFINE end == Run(char_ptr + 1, Digits)
           n == end - char_ptr
           t == Token("VALUE_FLOAT", cur_line, cur_col, NUL, NoComment, char_ptr, char_ptr + n)
<1>1. /\ Typed /\ char_ptr \in Nat /\ char_ptr < Len(code) /\ Len(code) \in Nat /\ At(char_ptr) = "."
  BY Characters DEF IInv, LeadingDot, Typed
<1>2. NUL \notin Digits /\ \A c \in Digits : c # "\n"
  BY InlineSets DEF Inline
<1>3. Emit(t) /\ EatChar(n) /\ Reading /\ code' = code /\ mode' = mode /\ lit' = lit
  BY DEF LeadingDot
<1>4. end \in (char_ptr + 1)..Len(code) /\ \A q \in (char_ptr + 1)..(end - 1) : At(q) \in Digits
  <2>1. char_ptr + 1 \in 0..Len(code) /\ code \in Sources
    BY <1>1 DEF Typed
  <2> QED
    BY <1>2, <2>1, RunStops
<1> HIDE DEF end
<1>5. n \in Nat \ {0} /\ end = char_ptr + n
  BY <1>1, <1>4
<1>6. \A q \in char_ptr..(char_ptr + n - 1) : At(q) # "\n"
  <2>1. ASSUME NEW q \in char_ptr..(char_ptr + n - 1) PROVE q = char_ptr \/ q \in (char_ptr + 1)..(end - 1)
    BY <1>1, <1>4, <1>5
  <2> QED
    BY <1>1, <1>2, <1>4, <2>1
<1>7. t.type = "VALUE_FLOAT" /\ t.line = cur_line /\ t.col = cur_col /\ t.from = char_ptr /\ t.to = char_ptr + n
  BY DEF Token
<1> HIDE DEF t, n
<1>8. Stands(t)
  BY <1>1, <1>7 DEF Stands, IsNumber
<1> QED
  BY <1>3, <1>5, <1>6, <1>7, <1>8, OneToken

\* Before the first character nothing has been read.
LEMMA InitOK ==
  ASSUME Init
  PROVE  IInv
<1>1. /\ code \in Sources /\ char_ptr = 0 /\ cur_line = 1 /\ cur_col = 1 /\ tokens = <<>>
      /\ mode = "text" /\ lit = NoLiteral
  BY DEF Init
<1>2. Typed
  BY <1>1 DEF Typed, Modes, Literals, NoLiteral
<1>3. Cursor
  <2>1. Newlines(0) = {}
    BY DEF Newlines
  <2>2. TrueLine(0) = 1 /\ TrueCol(0) = 1
    BY <2>1, FS_EmptySet DEF TrueLine, TrueCol
  <2> QED
    BY <1>1, <2>2 DEF Cursor
<1>4. ~InLiteral /\ LiteralBegan
  BY <1>1 DEF InLiteral, Quotes, LiteralBegan
<1>5. DOMAIN tokens = {} /\ IsSequence(tokens)
  BY <1>1 DEF IsSequence
<1>6. TokensOK /\ Behind
  BY <1>5 DEF TokensOK, TokensTyped, TruePositions, Follow, Stood, Behind
<1>7. Covers
  <2>1. Frontier = 0
    BY <1>1, <1>4 DEF Frontier
  <2> QED
    BY <1>1, <2>1 DEF Covers
<1> QED
  BY <1>2, <1>3, <1>4, <1>6, <1>7 DEF IInv

\* Appending twice is appending once.
LEMMA JoinedTwice ==
  ASSUME NEW s, NEW u, NEW v, IsSequence(s), IsSequence(u), IsSequence(v)
  PROVE  (s \o u) \o v = s \o (u \o v)
<1> DEFINE S == {s[k] : k \in DOMAIN s} \cup {u[k] : k \in DOMAIN u} \cup {v[k] : k \in DOMAIN v}
<1>1. s \in Seq(S) /\ u \in Seq(S) /\ v \in Seq(S)
  <2>1. s \in Seq({s[k] : k \in DOMAIN s}) /\ u \in Seq({u[k] : k \in DOMAIN u}) /\ v \in Seq({v[k] : k \in DOMAIN v})
    BY DEF IsSequence
  <2> QED
    BY <2>1
<1> HIDE DEF S
<1> QED
  BY <1>1, ConcatAssociative

\* A token followed by two sequences, alone and behind a third.
LEMMA JoinedThree ==
  ASSUME NEW first, NEW u, NEW v, NEW s, IsSequence(u), IsSequence(v), IsSequence(s)
  PROVE  LET new == <<first>> \o u \o v
         IN  /\ IsSequence(new) /\ Len(new) = Len(u) + Len(v) + 1 /\ new[1] = first
             /\ \A k \in 1..Len(u) : new[1 + k] = u[k]
             /\ \A k \in 1..Len(v) : new[1 + Len(u) + k] = v[k]
             /\ s \o <<first>> \o u \o v = s \o new
<1> DEFINE one == <<first>>
           both == one \o u
           new == both \o v
<1>1. IsSequence(one) /\ Len(one) = 1 /\ one[1] = first
  BY DEF IsSequence
<1> HIDE DEF one
<1>2. /\ IsSequence(both) /\ Len(both) = 1 + Len(u) /\ both[1] = first /\ Len(u) \in Nat
      /\ \A k \in 1..Len(u) : both[1 + k] = u[k]
  <2>1. /\ IsSequence(both) /\ Len(u) \in Nat /\ Len(both) = Len(one) + Len(u)
        /\ \A i \in 1..Len(one) : both[i] = one[i]
        /\ \A k \in 1..Len(u) : both[Len(one) + k] = u[k]
    <3>1. IsSequence(one)
      BY <1>1
    <3> QED
      BY <3>1, Joined
  <2> HIDE DEF both
  <2> QED
    BY <1>1, <2>1
<1>3. s \o one \o u \o v = s \o new
  <2>1. (s \o one) \o u = s \o both
    BY <1>1, JoinedTwice
  <2> HIDE DEF both
  <2>2. (s \o both) \o v = s \o (both \o v)
    BY <1>2, JoinedTwice, SMTT(30)
  <2> QED
    BY <2>1, <2>2
<1> HIDE DEF both
<1>4. /\ IsSequence(new) /\ Len(v) \in Nat /\ Len(new) = Len(both) + Len(v)
      /\ \A i \in 1..Len(both) : new[i] = both[i]
      /\ \A k \in 1..Len(v) : new[Len(both) + k] = v[k]
  <2>1. IsSequence(both)
    BY <1>2
  <2> QED
    BY <2>1, Joined
<1> HIDE DEF new
<1>5. /\ Len(new) = Len(u) + Len(v) + 1 /\ new[1] = first
      /\ \A k \in 1..Len(u) : new[1 + k] = u[k]
      /\ \A k \in 1..Len(v) : new[1 + Len(u) + k] = v[k]
  BY <1>2, <1>4
<1> QED
  BY <1>3, <1>4, <1>5 DEF both, new, one

\* A dot token at a position of the current line.
IsDot(t, p) == t.type = "SYM_DOT" /\ t.line = cur_line /\ t.from = p /\ t.to = p + 1

\* The dots of a sequence that begins with the text before them.
DotsAfter(new, m, to) == \A k \in 2..(m + 1) : IsDot(new[k], to + k - 2)

\* The dots that consume() is called for follow each other on the line.
LEMMA DotsShape ==
  ASSUME NEW n \in Nat, NEW col, NEW p \in Nat
  PROVE  /\ IsSequence(Dots(n, col, p)) /\ Len(Dots(n, col, p)) = n
         /\ \A k \in 1..n : IsDot(Dots(n, col, p)[k], p + k - 1)
<1> DEFINE s == Dots(n, col, p)
<1>1. DOMAIN s = 1..n
  BY DEF Dots
<1>2. s \in Seq({s[k] : k \in DOMAIN s})
  <2>1. s = [k \in 1..n |-> s[k]]
    BY DEF Dots
  <2> HIDE DEF s
  <2> QED
    BY <1>1, <2>1
<1>3. Len(s) = n
  <2> HIDE DEF s
  <2> QED
    BY <1>1, <1>2
<1>4. ASSUME NEW k \in 1..n PROVE IsDot(s[k], p + k - 1)
  <2>1. s[k] = Token("SYM_DOT", cur_line, col + k - 1, "", NoComment, p + k - 1, p + k)
    BY DEF Dots
  <2>2. p + k = p + k - 1 + 1
    OBVIOUS
  <2> DEFINE t == Token("SYM_DOT", cur_line, col + k - 1, "", NoComment, p + k - 1, p + k)
  <2>3. t.type = "SYM_DOT" /\ t.line = cur_line /\ t.from = p + k - 1 /\ t.to = p + k
    BY DEF Token
  <2> HIDE DEF s
  <2> QED
    BY <2>1, <2>2, <2>3 DEF IsDot, DotsAfter
<1> QED
  BY <1>2, <1>3, <1>4 DEF IsSequence

\* Nothing breaks the line between a position and a later one.
LEMMA LineOf ==
  ASSUME NEW a \in Nat, NEW b \in Nat, NEW e \in Nat, a <= b, b <= e, \A q \in a..(e - 1) : At(q) # "\n"
  PROVE  TrueLine(b) = TrueLine(a)
<1> DEFINE n == b - a
<1>1. n \in Nat /\ a + n = b
  OBVIOUS
<1>2. ASSUME NEW q \in a..(a + n - 1) PROVE At(q) # "\n"
  <2>1. q \in a..(e - 1)
    BY <1>1
  <2> QED
    BY <2>1
<1> HIDE DEF n
<1> QED
  BY <1>1, <1>2, SameLine

\* A number and, right after its text, the dots it gave back.
LEMMA DotsFollow ==
  ASSUME NEW c \in Nat, NEW m \in Nat \ {0}, NEW to \in Nat, NEW e \in Nat, c < to, to + m <= e,
         NEW new, DOMAIN new = 1..(m + 1), new[1].line = cur_line, new[1].from = c, new[1].to = to,
         DotsAfter(new, m, to)
  PROVE  \A k \in DOMAIN new :
         /\ Interval(new[k]) /\ new[k].line = cur_line /\ c <= new[k].from /\ new[k].from <= e /\ new[k].to <= e
         /\ IF k = 1 THEN c <= new[k].from ELSE new[k - 1].to <= new[k].from
<1> TAKE k \in DOMAIN new
<1>1. CASE k = 1
  BY <1>1 DEF Interval
<1>2. CASE k # 1
  <2>1. k \in 2..(m + 1)
    BY <1>2
  <2> DEFINE p == to + k - 2
  <2>2. p \in Nat /\ c <= p /\ p + 1 <= e /\ p <= p /\ p <= e
    BY <2>1
  <2>3. new[k].line = cur_line /\ new[k].from = p /\ new[k].to = p + 1
    BY <2>1 DEF IsDot, DotsAfter
  <2>4. new[k - 1].to = p
    <3>1. CASE k = 2
      BY <3>1
    <3>2. CASE k # 2
      <4>1. k - 1 \in 2..(m + 1) /\ to + (k - 1) - 2 + 1 = p
        BY <2>1, <3>2
      <4>2. new[k - 1].to = to + (k - 1) - 2 + 1
        BY <4>1 DEF IsDot, DotsAfter
      <4> QED
        BY <4>1, <4>2
    <3> QED
      BY <3>1, <3>2
  <2> HIDE DEF p
  <2> QED
    BY <1>2, <2>2, <2>3, <2>4 DEF Interval
<1> QED
  BY <1>1, <1>2

\* A number that gives dots back as tokens of their own.
LEMMA DottedOK ==
  ASSUME IInv, Reading, code' = code, mode' = mode, lit' = lit, cur_line' = cur_line, cur_col' \in Nat,
         NEW new, IsSequence(new), tokens' = tokens \o new,
         NEW m \in Nat \ {0}, Len(new) = m + 1,
         NEW num, new[1] = num, num.type = "VALUE_NUMBER", num.line = cur_line,
         num.from = char_ptr, NEW to \in Nat, num.to = to, char_ptr < to,
         DotsAfter(new, m, to),
         NEW n \in Nat \ {0}, char_ptr' = char_ptr + n, to + m <= char_ptr + n,
         \A q \in char_ptr..(char_ptr + n - 1) : At(q) # "\n",
         At(to) = "." /\ At(to + 1) \notin Digits \cup Suffix =>
            /\ to + m = char_ptr + n /\ num.value = Text(num.from, to)
            /\ \A k \in 2..(m + 1) : At(to + k - 2) = "."
  PROVE  IInv' /\ Onward
<1>1. /\ Typed /\ Frontier = char_ptr /\ mode = "text" /\ mode' = "text" /\ char_ptr \in Nat /\ cur_line \in Nat
      /\ DOMAIN new = 1..(m + 1)
  <2>1. DOMAIN new = 1..(m + 1)
    BY Joined
  <2> QED
    BY <2>1, Characters DEF IInv, Typed
<1>2. ASSUME NEW k \in DOMAIN new
      PROVE  /\ Interval(new[k]) /\ new[k].line = cur_line
             /\ new[k].from \in Nat /\ char_ptr <= new[k].from /\ new[k].from <= char_ptr + n
             /\ new[k].to <= char_ptr + n
             /\ IF k = 1 THEN Frontier <= new[k].from ELSE new[k - 1].to <= new[k].from
  <2> DEFINE e == char_ptr + n
  <2>1. /\ e \in Nat /\ to + m <= e
        /\ new[1].line = cur_line /\ new[1].from = char_ptr /\ new[1].to = to
    BY <1>1
  <2> HIDE DEF e
  <2>2. /\ Interval(new[k]) /\ new[k].line = cur_line /\ char_ptr <= new[k].from /\ new[k].from <= e /\ new[k].to <= e
        /\ IF k = 1 THEN char_ptr <= new[k].from ELSE new[k - 1].to <= new[k].from
    BY <1>1, <2>1, DotsFollow
  <2> QED
    BY <1>1, <2>2 DEF e, Interval
<1>3. /\ Len(tokens) \in Nat /\ DOMAIN tokens = 1..Len(tokens) /\ DOMAIN tokens' = 1..(Len(tokens) + (m + 1))
      /\ Len(tokens') = Len(tokens) + (m + 1)
      /\ \A k \in DOMAIN new : tokens'[Len(tokens) + k] = new[k]
  <2>1. IsSequence(tokens)
    BY DEF IInv, TokensOK, TokensTyped
  <2> QED
    BY <2>1, Extends
<1>0. PICK first \in Nat : first = Len(tokens) + 1
  BY <1>3
<1>4. tokens'[first] = num /\ Dotted(first)' /\ first \in DOMAIN tokens'
  <2>1. tokens'[first] = num
    BY <1>1, <1>3, <1>0
  <2>2. tokens'[first + 1] = new[2]
    <3>1. 2 \in DOMAIN new /\ first + 1 = Len(tokens) + 2
      BY <1>1, <1>3, <1>0
    <3> QED
      BY <1>3, <3>1
  <2>3. new[2].type = "SYM_DOT" /\ new[2].from = to
    <3>1. 2 \in 2..(m + 1) /\ to + 2 - 2 = to
      OBVIOUS
    <3>2. IsDot(new[2], to)
      BY <3>1 DEF DotsAfter
    <3> QED
      BY <3>2 DEF IsDot, DotsAfter
  <2>4. first < Len(tokens') /\ first \in DOMAIN tokens'
    BY <1>3, <1>0
  <2>5. Dotted(first)' <=> /\ tokens'[first].type = "VALUE_NUMBER" /\ first < Len(tokens')
                           /\ tokens'[first + 1].type = "SYM_DOT" /\ tokens'[first + 1].from = tokens'[first].to
    BY DEF Dotted
  <2> QED
    BY <2>1, <2>2, <2>3, <2>4, <2>5
<1>5. ASSUME NEW i \in (DOMAIN tokens') \ DOMAIN tokens PROVE Placed(i)'
  <2>1. i - Len(tokens) \in DOMAIN new /\ i = Len(tokens) + (i - Len(tokens)) /\ first \in 1..i
    BY <1>1, <1>3, <1>0
  <2>2. PICK k \in DOMAIN new : tokens'[i] = new[k]
    BY <1>3, <2>1
  <2>3. TrueLine(new[k].from) = cur_line
    <3>1. TrueLine(new[k].from) = TrueLine(char_ptr)
      <4> DEFINE e == char_ptr + n
      <4>1. e \in Nat /\ \A q \in char_ptr..(e - 1) : At(q) # "\n"
        BY <1>1
      <4>2. new[k].from \in Nat /\ char_ptr <= new[k].from /\ new[k].from <= e
        BY <1>2
      <4> HIDE DEF e
      <4> QED
        BY <1>1, <4>1, <4>2, LineOf
    <3> QED
      BY <3>1 DEF IInv, Cursor
  <2>4. TrueLine(tokens[i].from)' = TrueLine(new[k].from)
    BY <2>2, StaticPlaces
  <2>5. tokens'[i].line = cur_line /\ tokens'[first].line = cur_line
    BY <1>2, <1>4, <2>2
  <2>6. \E j \in 1..i : Dotted(j)' /\ tokens'[j].line = tokens'[i].line
    BY <1>4, <2>1, <2>5
  <2> QED
    BY <2>3, <2>4, <2>5, <2>6 DEF Placed
<1>6. ASSUME Lossless'
      PROVE  /\ to + m = char_ptr + n
             /\ \A k \in DOMAIN new : Stands(new[k])
  <2>1. At(to) = "." /\ At(to + 1) \notin Digits \cup Suffix
    <3>1. ~Overread(first)'
      BY <1>4, <1>6 DEF Lossless
    <3>2. Overread(first)' <=> Dotted(first)' /\ (At(to) # "." \/ At(to + 1) \in Digits \cup Suffix)
      BY <1>4 DEF Overread, At
    <3> QED
      BY <1>4, <3>1, <3>2
  <2>2. /\ to + m = char_ptr + n /\ num.value = Text(num.from, to)
        /\ \A k \in 2..(m + 1) : At(to + k - 2) = "."
    BY <2>1
  <2>3. Stands(num)
    BY <2>2, WordsAreNoSymbols DEF Stands, Spells
  <2>4. ASSUME NEW k \in 2..(m + 1) PROVE Stands(new[k])
    <3> DEFINE p == to + k - 2
    <3>1. IsDot(new[k], p) /\ At(p) = "." /\ p \in Nat
      BY <2>2 DEF DotsAfter
    <3> HIDE DEF p
    <3>2. p + 1 - 1 = p /\ \A j \in 1..1 : j = 1
      BY <3>1
    <3>3. Symbols["SYM_DOT"] = <<".">> /\ "SYM_DOT" \in DOMAIN Symbols /\ Len(<<".">>) = 1 /\ <<".">>[1] = "."
      BY WordsAreNoSymbols
    <3> QED
      BY <3>1, <3>2, <3>3 DEF Stands, Spells, IsDot
  <2>5. \A k \in DOMAIN new : k = 1 \/ k \in 2..(m + 1)
    BY <1>1
  <2> QED
    BY <2>2, <2>3, <2>4, <2>5
<1>7. /\ TokensOK' /\ Keeps
      /\ \A i \in DOMAIN tokens' : (\E j \in DOMAIN tokens : tokens'[i] = tokens[j]) \/ \E k \in DOMAIN new : tokens'[i] = new[k]
      /\ \A k \in DOMAIN new : Len(tokens) + k \in DOMAIN tokens' /\ tokens'[Len(tokens) + k] = new[k]
  <2>1. TokensOK /\ Behind /\ lit \in Literals
    BY <1>1 DEF IInv, Typed
  <2> QED
    BY <1>1, <1>2, <1>5, <1>6, <2>1, TokensGrow
<1>8. Cursor'
  <2>1. TrueLine(char_ptr)' = TrueLine(char_ptr + n)
    BY StaticPlaces
  <2>2. TrueLine(char_ptr + n) = TrueLine(char_ptr)
    BY <1>1, SameLine
  <2>3. cur_line' = TrueLine(char_ptr)'
    BY <2>1, <2>2 DEF IInv, Cursor
  <2>4. Slipped(cur_line)'
    <3>1. tokens'[first].line = cur_line'
      BY <1>4
    <3> QED
      BY <1>4, <3>1 DEF Slipped
  <2> QED
    BY <2>3, <2>4 DEF Cursor
<1>9. ASSUME Lossless', NEW p \in char_ptr..(char_ptr + n - 1) PROVE Accounted(p)'
  <2>1. to + m = char_ptr + n
    BY <1>6, <1>9
  <2>2. \E k \in DOMAIN new : p \in new[k].from..(new[k].to - 1)
    <3>1. CASE p < to
      <4>1. 1 \in DOMAIN new /\ p \in num.from..(to - 1)
        BY <1>1, <3>1
      <4> QED
        BY <4>1
    <3>2. CASE to <= p
      <4> DEFINE k == p - to + 2
      <4>1. k \in 2..(m + 1) /\ k \in DOMAIN new /\ to + k - 2 = p /\ p \in Nat
        BY <1>1, <1>9, <2>1, <3>2
      <4> HIDE DEF k
      <4>2. new[k].from = p /\ new[k].to = p + 1
        BY <4>1 DEF IsDot, DotsAfter
      <4>3. p \in p..(p + 1 - 1)
        BY <4>1
      <4>4. p \in new[k].from..(new[k].to - 1)
        BY <4>2, <4>3
      <4> QED
        BY <4>1, <4>4
    <3> QED
      BY <1>1, <3>1, <3>2
  <2>3. PICK k \in DOMAIN new : p \in new[k].from..(new[k].to - 1)
    BY <2>2
  <2>4. \E i \in DOMAIN tokens' : tokens'[i] = new[k]
    BY <1>7
  <2> QED
    BY <2>3, <2>4, NowAccounted
<1>10. \A i \in DOMAIN tokens' : (\E j \in DOMAIN tokens : tokens'[i] = tokens[j]) \/ tokens'[i].to <= char_ptr + n
  BY <1>2, <1>7
<1> QED
  BY <1>1, <1>7, <1>8, <1>9, <1>10, TextStep

\* Where a number stops, where its text ends and what it gives back: of a
\* range both dots, or one dot in last place.
Stops(d) ==
  /\ d.stop \in (char_ptr + 1)..Len(code) /\ d.to \in (char_ptr + 1)..d.stop
  /\ \A q \in char_ptr..(d.stop - 1) : At(q) # "\n"
  /\ d.isRange \in BOOLEAN /\ d.appendDot \in BOOLEAN
  /\ d.isRange => /\ At(d.stop) = "." /\ d.to + (IF d.appendDot THEN 2 ELSE 1) = d.stop
                  /\ d.appendDot => At(d.to + 1) \in Digits
  /\ d.appendDot /\ ~d.isRange => d.to + 1 = d.stop /\ At(d.to) = "."
  /\ ~d.isRange /\ ~d.appendDot => d.to = d.stop
  /\ d.float => ~d.isRange /\ ~d.appendDot

\* Stops, from the parts of a record.
LEMMA StopsOf ==
  ASSUME NEW stop \in (char_ptr + 1)..Len(code), NEW to \in (char_ptr + 1)..stop,
         NEW isRange \in BOOLEAN, NEW appendDot \in BOOLEAN, NEW float \in BOOLEAN,
         \A q \in char_ptr..(stop - 1) : At(q) # "\n",
         isRange => At(stop) = ".",
         isRange /\ appendDot => to + 2 = stop /\ At(to + 1) \in Digits,
         isRange /\ ~appendDot => to + 1 = stop,
         appendDot /\ ~isRange => to + 1 = stop /\ At(to) = ".",
         ~isRange /\ ~appendDot => to = stop,
         float => ~isRange /\ ~appendDot
  PROVE  Stops([stop |-> stop, isRange |-> isRange, appendDot |-> appendDot, to |-> to, float |-> float])
<1> DEFINE d == [stop |-> stop, isRange |-> isRange, appendDot |-> appendDot, to |-> to, float |-> float]
<1>1. d.stop = stop /\ d.to = to /\ d.isRange = isRange /\ d.appendDot = appendDot /\ d.float = float
  OBVIOUS
<1> HIDE DEF d
<1>2. Stops(d)
  BY <1>1 DEF Stops
<1> QED
  BY <1>2 DEF d

\* The decimal loop: at most two dots, the second right after the first or
\* with digits between them.
LEMMA DecimalStops ==
  ASSUME Typed, char_ptr < Len(code), At(char_ptr) \in Digits
  PROVE  Stops(Decimal(char_ptr))
<1> DEFINE whole == Run(char_ptr + 1, Digits)
           stop == IF At(whole) = "." THEN Run(whole + 1, Digits) ELSE whole
           isRange == At(whole) = "." /\ At(stop) = "."
           kept == IF isRange THEN stop - 1 ELSE stop
           appendDot == At(whole) = "." /\ At(kept - 1) = "."
           to == IF appendDot THEN kept - 1 ELSE kept
           float == At(whole) = "." /\ ~isRange /\ ~appendDot
<1>1. Decimal(char_ptr) = [stop |-> stop, isRange |-> isRange, appendDot |-> appendDot, to |-> to, float |-> float]
  BY DEF Decimal
<1>2. /\ code \in Sources /\ char_ptr \in Nat /\ Len(code) \in Nat /\ NUL \notin Digits
      /\ \A c \in Digits : c # "\n" /\ c # "."
  <2>1. NUL \notin Digits /\ \A c \in Digits : c # "\n"
    BY InlineSets DEF Inline
  <2> QED
    BY <2>1, InlineSets, Characters DEF Typed
<1>3. whole \in (char_ptr + 1)..Len(code) /\ \A q \in (char_ptr + 1)..(whole - 1) : At(q) \in Digits
  <2>1. char_ptr + 1 \in 0..Len(code)
    BY <1>2
  <2> QED
    BY <1>2, <2>1, RunStops
<1> HIDE DEF whole
<1>4. \A q \in char_ptr..(whole - 1) : At(q) \in Digits
  <2>1. ASSUME NEW q \in char_ptr..(whole - 1) PROVE q = char_ptr \/ q \in (char_ptr + 1)..(whole - 1)
    BY <1>2, <1>3
  <2> QED
    BY <1>3, <2>1
<1>5. /\ stop \in whole..Len(code)
      /\ At(whole) # "." => stop = whole
      /\ At(whole) = "." => stop \in (whole + 1)..Len(code) /\ \A q \in (whole + 1)..(stop - 1) : At(q) \in Digits
  <2>1. CASE At(whole) = "."
    <3>1. "." # NUL
      BY DEF NUL
    <3>2. whole + 1 \in 0..Len(code)
      BY <1>2, <1>3, <2>1, <3>1, TextEnds
    <3>3. stop = Run(whole + 1, Digits)
      BY <2>1
    <3>4. stop \in (whole + 1)..Len(code) /\ \A q \in (whole + 1)..(stop - 1) : At(q) \in Digits
      <4> HIDE DEF stop
      <4> QED
        BY <1>2, <3>2, <3>3, RunStops
    <3> HIDE DEF stop
    <3> QED
      BY <1>2, <1>3, <2>1, <3>4
  <2>2. CASE At(whole) # "."
    BY <1>2, <1>3, <2>2
  <2> QED
    BY <2>1, <2>2
<1> HIDE DEF stop
<1>6. isRange \in BOOLEAN /\ appendDot \in BOOLEAN /\ float \in BOOLEAN
  OBVIOUS
<1>7. \A q \in char_ptr..(stop - 1) : At(q) # "\n"
  <2>1. ASSUME NEW q \in char_ptr..(stop - 1)
        PROVE  q \in char_ptr..(whole - 1) \/ q = whole \/ q \in (whole + 1)..(stop - 1)
    BY <1>2, <1>3, <1>5
  <2>2. ASSUME NEW q \in char_ptr..(stop - 1), q = whole PROVE At(whole) = "."
    BY <1>2, <1>3, <1>5, <2>2
  <2>3. ASSUME NEW q \in char_ptr..(stop - 1), q \in (whole + 1)..(stop - 1) PROVE At(q) \in Digits
    BY <1>2, <1>3, <1>5, <2>3
  <2> QED
    BY <1>2, <1>4, <2>1, <2>2, <2>3
<1>8. CASE At(whole) # "."
  <2>1. ~isRange /\ ~appendDot /\ ~float /\ kept = stop /\ to = stop /\ stop = whole
    BY <1>5, <1>8
  <2>2. stop \in (char_ptr + 1)..Len(code) /\ to \in (char_ptr + 1)..stop
    BY <1>2, <1>3, <2>1
  <2> HIDE DEF isRange, kept, appendDot, to, float
  <2> QED
    BY <1>1, <1>6, <1>7, <2>1, <2>2, StopsOf
<1>9. ASSUME At(whole) = "." PROVE Stops(Decimal(char_ptr))
  <2>1. stop \in (whole + 1)..Len(code) /\ whole \in Nat /\ stop \in Nat /\ char_ptr + 1 <= whole
    BY <1>2, <1>3, <1>5, <1>9
  <2>2. \A q \in (whole + 1)..(stop - 1) : At(q) \in Digits /\ At(q) # "."
    BY <1>2, <1>5, <1>9
  <2>3. At(whole - 1) # "."
    <3>1. whole - 1 \in char_ptr..(whole - 1)
      BY <1>2, <2>1
    <3> QED
      BY <1>2, <1>4, <3>1
  <2>4. isRange = (At(stop) = ".")
    BY <1>9
  <2>5. appendDot = (At(kept - 1) = ".")
    BY <1>9
  <2>6. CASE At(stop) = "." /\ At(stop - 2) = "."
    <3>1. stop = whole + 2
      <4>1. stop # whole + 1
        BY <2>1, <2>3, <2>6
      <4>2. ASSUME stop > whole + 2 PROVE FALSE
        <5>1. stop - 2 \in (whole + 1)..(stop - 1)
          BY <2>1, <4>2
        <5> QED
          BY <2>2, <2>6, <5>1
      <4> QED
        BY <2>1, <4>1, <4>2
    <3>2. isRange /\ kept = stop - 1
      BY <2>4, <2>6
    <3>3. appendDot
      <4>1. stop - 1 - 1 = stop - 2
        BY <2>1
      <4> QED
        BY <2>5, <2>6, <3>2, <4>1
    <3>4. to = whole /\ ~float
      BY <2>1, <3>1, <3>2, <3>3
    <3>5. At(whole + 1) \in Digits
      <4>1. whole + 1 \in (whole + 1)..(stop - 1)
        BY <2>1, <3>1
      <4> QED
        BY <2>2, <4>1
    <3> HIDE DEF isRange, kept, appendDot, to, float
    <3>6. to + 2 = stop /\ to \in (char_ptr + 1)..stop /\ stop \in (char_ptr + 1)..Len(code)
      BY <1>2, <2>1, <3>1, <3>4
    <3>7. At(to + 1) \in Digits
      BY <3>4, <3>5
    <3> QED
      BY <1>1, <1>6, <1>7, <2>6, <3>2, <3>3, <3>4, <3>6, <3>7, StopsOf
  <2>7. CASE At(stop) = "." /\ At(stop - 2) # "."
    <3>1. isRange /\ kept = stop - 1
      BY <2>4, <2>7
    <3>2. ~appendDot
      <4>1. stop - 1 - 1 = stop - 2
        BY <2>1
      <4> QED
        BY <2>5, <2>7, <3>1, <4>1
    <3>3. to = stop - 1 /\ ~float
      BY <3>1, <3>2
    <3> HIDE DEF isRange, kept, appendDot, to, float
    <3>4. to + 1 = stop /\ to \in (char_ptr + 1)..stop /\ stop \in (char_ptr + 1)..Len(code)
      BY <1>2, <2>1, <3>3
    <3> QED
      BY <1>1, <1>6, <1>7, <2>7, <3>1, <3>2, <3>3, <3>4, StopsOf
  <2>8. CASE At(stop) # "."
    <3>1. ~isRange /\ kept = stop
      BY <2>4, <2>8
    <3>2. stop \in (char_ptr + 1)..Len(code) /\ stop \in (char_ptr + 1)..stop
      BY <1>2, <2>1
    <3>3. CASE At(stop - 1) = "."
      <4>1. appendDot /\ ~float
        BY <2>5, <3>1, <3>3
      <4>2. to = stop - 1
        BY <3>1, <4>1
      <4>3. to + 1 = stop /\ to \in (char_ptr + 1)..stop /\ At(to) = "."
        BY <1>2, <2>1, <3>3, <4>2
      <4> HIDE DEF isRange, kept, appendDot, to, float
      <4> QED
        BY <1>1, <1>6, <1>7, <3>1, <3>2, <4>1, <4>3, StopsOf
    <3>4. CASE At(stop - 1) # "."
      <4>1. ~appendDot
        BY <2>5, <3>1, <3>4
      <4>2. to = stop
        BY <3>1, <4>1
      <4> HIDE DEF isRange, kept, appendDot, to, float
      <4> QED
        BY <1>1, <1>6, <1>7, <3>1, <3>2, <4>1, <4>2, StopsOf
    <3> QED
      BY <3>3, <3>4
  <2> QED
    BY <2>6, <2>7, <2>8
<1> QED
  BY <1>8, <1>9

\* A number with a prefix has neither dots nor a range.
LEMMA BasedStops ==
  ASSUME Typed, char_ptr < Len(code), At(char_ptr) \in Digits, Based(char_ptr) # {},
         NEW end, end = Run(char_ptr + 2, Based(char_ptr))
  PROVE  Stops([stop |-> end, isRange |-> FALSE, appendDot |-> FALSE, to |-> end, float |-> FALSE])
<1> DEFINE base == Based(char_ptr)
           Openings == {"b", "B", "o", "O", "x", "X"}
<1>1. base \in {{"0", "1"}, Octal, Hex} /\ At(char_ptr + 1) \in Openings
  BY DEF Based
<1>2. \A c \in base \cup Openings \cup Digits : Inline(c)
  <2>1. \A c \in Openings : c \in Letters
    BY DEF Letters
  <2> QED
    BY <1>1, <2>1, InlineSets
<1>3. code \in Sources /\ char_ptr \in Nat /\ Len(code) \in Nat
  BY Characters DEF Typed
<1> HIDE DEF base, Openings
<1>4. char_ptr + 2 \in 0..Len(code)
  <2>1. char_ptr + 1 \in Nat /\ At(char_ptr + 1) # NUL
    <3>1. At(char_ptr + 1) \in base \cup Openings \cup Digits
      BY <1>1, Zenon
    <3>2. Inline(At(char_ptr + 1))
      BY <1>2, <3>1, Zenon
    <3> QED
      BY <1>3, <3>2 DEF Inline
  <2>2. char_ptr + 1 < Len(code)
    BY <1>3, <2>1, TextEnds
  <2> QED
    BY <1>3, <2>2
<1>5. end \in (char_ptr + 2)..Len(code) /\ \A q \in (char_ptr + 2)..(end - 1) : At(q) \in base
  <2>1. NUL \notin base
    BY <1>2 DEF Inline
  <2>2. end = Run(char_ptr + 2, base)
    BY DEF base
  <2> QED
    BY <1>3, <1>4, <2>1, <2>2, RunStops
<1>6. ASSUME NEW q \in char_ptr..(end - 1) PROVE At(q) # "\n"
  <2>1. q = char_ptr \/ q = char_ptr + 1 \/ q \in (char_ptr + 2)..(end - 1)
    BY <1>3, <1>5
  <2> QED
    BY <1>1, <1>2, <1>5, <2>1 DEF Inline
<1>7. end \in (char_ptr + 1)..Len(code) /\ end \in (char_ptr + 1)..end
  BY <1>3, <1>5
<1> QED
  BY <1>6, <1>7 DEF Stops

\* A suffix is read as one character, or as none.
LEMMA Widths == \A s : Width(s) \in {0, 1} /\ (s = "" <=> Width(s) = 0)
<1> TAKE s
<1>1. (s = "" => Width(s) = 0) /\ (s # "" => Width(s) = 1)
  BY Zenon DEF Width
<1>2. 0 \in {0, 1} /\ 1 \in {0, 1} /\ 1 # 0
  OBVIOUS
<1> QED
  BY <1>1, <1>2, Zenon

\* A suffix is up to two letters, and changes the value only if there is one.
LEMMA SuffixEnds ==
  ASSUME NEW stop \in Nat, NEW sign, NEW long, NEW next,
         sign = Sign(stop), long = Long(stop + Width(sign)), next = stop + Width(sign) + Width(long)
  PROVE  /\ next \in Nat /\ stop <= next /\ next <= stop + 2
         /\ \A q \in stop..(next - 1) : At(q) \in Suffix
         /\ At(stop) \notin Suffix => next = stop /\ \A v : With(sign, With(long, v)) = v
<1>1. PICK a \in {0, 1} : a = Width(sign) /\ (sign = "" <=> a = 0)
  BY Widths
<1>2. PICK b \in {0, 1} : b = Width(long) /\ (long = "" <=> b = 0)
  BY Widths
<1>3. next = stop + a + b
  BY <1>1, <1>2
<1>4. sign # "" => At(stop) \in Suffix
  BY DEF Sign, Suffix
<1>5. long # "" => At(stop + a) \in Suffix
  <2>1. long = Long(stop + a)
    BY <1>1
  <2>2. {"l", "L"} \subseteq Suffix
    BY DEF Suffix
  <2> QED
    BY <2>1, <2>2, Zenon DEF Long
<1>6. a = 1 => At(stop) \in Suffix
  <2>1. a = 1 => a # 0
    OBVIOUS
  <2> QED
    BY <1>1, <1>4, <2>1, Zenon
<1>7. b = 1 => At(stop + a) \in Suffix
  <2>1. b = 1 => b # 0
    OBVIOUS
  <2> QED
    BY <1>2, <1>5, <2>1, Zenon
<1>8. ASSUME NEW q \in stop..(next - 1) PROVE At(q) \in Suffix
  <2>1. (q = stop /\ a = 1) \/ (q = stop + a /\ b = 1)
    BY <1>3, <1>8
  <2> QED
    BY <1>6, <1>7, <2>1
<1>9. ASSUME At(stop) \notin Suffix PROVE next = stop /\ \A v : With(sign, With(long, v)) = v
  <2>1. a = 0
    BY <1>6, <1>9
  <2>2. stop + a = stop
    BY <2>1
  <2>3. b = 0
    BY <1>7, <1>9, <2>2
  <2>4. sign = "" /\ long = ""
    BY <1>1, <1>2, <2>1, <2>3
  <2>5. \A v : With("", v) = v
    BY DEF With
  <2>6. next = stop
    BY <1>3, <2>1, <2>3
  <2> QED
    BY <2>4, <2>5, <2>6, Zenon
<1>10. next \in Nat /\ stop <= next /\ next <= stop + 2
  BY <1>3
<1> QED
  BY <1>8, <1>9, <1>10

\* A number: its text, its suffix, and the dots it gives back.
LEMMA NumberOK ==
  ASSUME IInv, Number
  PROVE  IInv' /\ Onward
<1> DEFINE base == Based(char_ptr)
           d == IF base = {} THEN Decimal(char_ptr)
                ELSE LET end == Run(char_ptr + 2, base)
                     IN [stop |-> end, isRange |-> FALSE, appendDot |-> FALSE, to |-> end, float |-> FALSE]
           sign == Sign(d.stop)
           long == Long(d.stop + Width(sign))
           next == d.stop + Width(sign) + Width(long)
           col == cur_col + (next - char_ptr)
           range == IF d.isRange THEN Dots(2, col, d.to) ELSE <<>>
           dot == IF d.appendDot THEN Dots(1, col + Len(range), d.to + Len(range)) ELSE <<>>
           num == Token(IF d.float THEN "VALUE_FLOAT" ELSE "VALUE_NUMBER", cur_line,
                        cur_col + (d.stop - char_ptr) - (d.to - char_ptr),
                        With(sign, With(long, Text(char_ptr, d.to))), NoComment, char_ptr, d.to)
<1>1. /\ Typed /\ Reading /\ mode = "text" /\ Frontier = char_ptr /\ char_ptr \in Nat /\ cur_line \in Nat /\ cur_col \in Nat
      /\ char_ptr < Len(code) /\ Len(code) \in Nat /\ At(char_ptr) \in Digits /\ code \in Sources
  BY Characters DEF IInv, Number, Typed
<1>2. /\ tokens' = tokens \o <<num>> \o range \o dot
      /\ char_ptr' = next + (IF d.isRange THEN 1 ELSE 0)
      /\ cur_col' = col + Len(range) + Len(dot) /\ cur_line' = cur_line
      /\ code' = code /\ mode' = mode /\ lit' = lit
  BY DEF Number
<1>3. Stops(d)
  <2>1. CASE base = {}
    BY <1>1, <2>1, DecimalStops
  <2>2. CASE base # {}
    BY <1>1, <2>2, BasedStops
  <2> QED
    BY <2>1, <2>2
<1> HIDE DEF d, base
<1> DEFINE stop == d.stop
           to == d.to
<1>4. /\ stop \in (char_ptr + 1)..Len(code) /\ to \in (char_ptr + 1)..stop
      /\ stop \in Nat /\ to \in Nat /\ char_ptr < to /\ to <= stop
      /\ \A q \in char_ptr..(stop - 1) : At(q) # "\n"
      /\ d.isRange \in BOOLEAN /\ d.appendDot \in BOOLEAN
      /\ d.isRange => /\ At(stop) = "." /\ to + (IF d.appendDot THEN 2 ELSE 1) = stop
                      /\ d.appendDot => At(to + 1) \in Digits
      /\ d.appendDot /\ ~d.isRange => to + 1 = stop /\ At(to) = "."
      /\ ~d.isRange /\ ~d.appendDot => to = stop
      /\ d.float => ~d.isRange /\ ~d.appendDot
  BY <1>1, <1>3 DEF Stops
<1>5. /\ next \in Nat /\ stop <= next /\ next <= stop + 2
      /\ \A q \in stop..(next - 1) : At(q) \in Suffix
      /\ At(stop) \notin Suffix => next = stop /\ \A v : With(sign, With(long, v)) = v
  <2>1. sign = Sign(stop) /\ long = Long(stop + Width(sign)) /\ next = stop + Width(sign) + Width(long)
    OBVIOUS
  <2>2. stop \in Nat
    BY <1>4
  <2> HIDE DEF sign, long, next, col, range, dot, num, stop, to
  <2> QED
    <3>1. PICK st \in Nat : st = stop
      BY <2>2
    <3>2. PICK sg, lg, nx : sg = sign /\ lg = long /\ nx = next
      OBVIOUS
    <3>3. sg = Sign(st)
      BY <2>1, <3>1, <3>2
    <3>4. lg = Long(st + Width(sg))
      BY <2>1, <3>1, <3>2
    <3>5. nx = st + Width(sg) + Width(lg)
      BY <2>1, <3>1, <3>2
    <3>6. /\ nx \in Nat /\ st <= nx /\ nx <= st + 2
          /\ \A q \in st..(nx - 1) : At(q) \in Suffix
          /\ At(st) \notin Suffix => nx = st /\ \A v : With(sg, With(lg, v)) = v
      BY <3>3, <3>4, <3>5, SuffixEnds, SMTT(30)
    <3> QED
      BY <3>1, <3>2, <3>6
<1>6. /\ num.type = (IF d.float THEN "VALUE_FLOAT" ELSE "VALUE_NUMBER") /\ num.line = cur_line
      /\ num.col = cur_col + (stop - char_ptr) - (to - char_ptr)
      /\ num.value = With(sign, With(long, Text(char_ptr, to))) /\ num.from = char_ptr /\ num.to = to
  BY DEF Token
<1> HIDE DEF sign, long, next, num
<1>7. ASSUME NEW q \in char_ptr..(next - 1) PROVE At(q) # "\n"
  <2>1. q \in char_ptr..(stop - 1) \/ q \in stop..(next - 1)
    BY <1>1, <1>4, <1>5, <1>7
  <2>2. q \in stop..(next - 1) => Inline(At(q))
    BY <1>5, InlineSets
  <2> QED
    BY <1>4, <2>1, <2>2 DEF Inline
<1>8. At(stop) \notin Suffix => next = stop /\ num.value = Text(num.from, to)
  BY <1>5, <1>6
<1>9. CASE ~d.isRange /\ ~d.appendDot
  <2>1. range = <<>> /\ dot = <<>> /\ to = stop
    BY <1>4, <1>9
  <2> DEFINE n == next - char_ptr
  <2>2. n \in Nat \ {0} /\ char_ptr + n = next
    BY <1>1, <1>4, <1>5
  <2>3. Emit(num)
    <3> DEFINE S == {tokens[k] : k \in DOMAIN tokens} \cup {num}
    <3>1. tokens \in Seq(S) /\ num \in S
      <4>1. tokens \in Seq({tokens[k] : k \in DOMAIN tokens})
        BY DEF IInv, TokensOK, TokensTyped, IsSequence
      <4> QED
        BY <4>1
    <3> HIDE DEF S
    <3>2. tokens' = Append(tokens, num) \o <<>> \o <<>> /\ Append(tokens, num) \in Seq(S)
      BY <1>2, <2>1, <3>1, AppendIsConcat, AppendProperties
    <3>3. Append(tokens, num) \o <<>> = Append(tokens, num)
      BY <3>2, ConcatEmptySeq
    <3> QED
      BY <3>2, <3>3 DEF Emit
  <2>4. EatChar(n)
    <3>1. char_ptr' = next /\ cur_col' = col
      <4>1. Len(range) = 0 /\ Len(dot) = 0
        BY <2>1
      <4> HIDE DEF range, dot
      <4> QED
        BY <1>1, <1>2, <1>5, <1>9, <4>1
    <3> QED
      BY <1>1, <1>2, <2>2, <3>1 DEF EatChar
  <2> HIDE DEF range, dot, n, col
  <2>5. Interval(num) /\ Frontier <= num.from /\ PlacedToken(num)
    <3>1. cur_col + (stop - char_ptr) - (to - char_ptr) = cur_col
      BY <1>1, <1>4, <2>1
    <3>2. num.col = cur_col
      BY <1>6, <3>1
    <3> QED
      BY <1>1, <1>4, <1>6, <3>2, SMTT(30) DEF Interval, PlacedToken, IInv, Cursor
  <2>6. Stands(num)
    <3>1. IsNumber(num) /\ num.type \notin DOMAIN Symbols
      BY <1>6, WordsAreNoSymbols DEF IsNumber
    <3>2. CASE At(stop) \in Suffix
      BY <1>6, <2>1, <3>1, <3>2 DEF Stands
    <3>3. CASE At(stop) \notin Suffix
      BY <1>6, <1>8, <3>1, <3>3 DEF Stands, Spells
    <3> QED
      BY <3>2, <3>3
  <2>7. /\ TokensOK' /\ Keeps
        /\ \A i \in DOMAIN tokens' : (\E j \in DOMAIN tokens : tokens'[i] = tokens[j]) \/ tokens'[i] = num
        /\ \E i \in DOMAIN tokens' : tokens'[i] = num
    BY <1>1, <1>2, <2>3, <2>5, <2>6, TokenAdded DEF IInv, Typed
  <2>8. char_ptr' = char_ptr + n /\ cur_line' \in Nat /\ cur_col' \in Nat /\ Cursor'
    <3>1. ASSUME NEW q \in char_ptr..(char_ptr + n - 1) PROVE At(q) # "\n"
      <4>1. q \in char_ptr..(next - 1)
        BY <1>1, <1>5, <2>2
      <4> QED
        BY <1>7, <4>1
    <3> QED
      BY <1>1, <1>2, <2>2, <2>4, <2>7, <3>1, CursorMoves DEF IInv
  <2>9. ASSUME NEW p \in char_ptr..(char_ptr + n - 1) PROVE Accounted(p)'
    <3>1. p \in Covered(num)
      <4>1. CASE p < stop
        <5>1. p \in num.from..(num.to - 1)
          BY <1>1, <1>4, <1>6, <2>1, <2>9, <4>1
        <5> QED
          BY <5>1 DEF Covered
      <4>2. CASE stop <= p
        <5>1. p \in stop..(next - 1) /\ p \in num.to..(num.to + 1)
          BY <1>1, <1>4, <1>6, <1>5, <2>1, <2>2, <2>9, <4>2
        <5>2. At(p) \in Suffix /\ IsNumber(num)
          BY <1>6, <1>5, <5>1 DEF IsNumber
        <5> QED
          BY <5>1, <5>2 DEF Covered
      <4> QED
        BY <1>1, <1>4, <2>9, <4>1, <4>2
    <3> QED
      BY <1>2, <2>7, <3>1, NowAccounted
  <2>10. ASSUME NEW i \in DOMAIN tokens'
         PROVE  (\E j \in DOMAIN tokens : tokens'[i] = tokens[j]) \/ tokens'[i].to <= char_ptr + n
    <3>1. num.to <= char_ptr + n
      BY <1>4, <1>6, <1>5, <2>2
    <3> QED
      BY <2>7, <3>1
  <2> QED
    BY <1>1, <1>2, <2>2, <2>7, <2>8, <2>9, <2>10, TextStep
<1>10. CASE d.isRange \/ d.appendDot
  <2> DEFINE r == Len(range)
             m == Len(range) + Len(dot)
             new == <<num>> \o range \o dot
  <2>1. /\ IsSequence(<<num>>) /\ Len(<<num>>) = 1 /\ <<num>>[1] = num /\ IsSequence(<<>>) /\ Len(<<>>) = 0
    BY DEF IsSequence
  <2>2. /\ IsSequence(range) /\ r = (IF d.isRange THEN 2 ELSE 0)
        /\ \A k \in 1..r : IsDot(range[k], to + k - 1)
    <3>1. CASE d.isRange
      <4>1. range = Dots(2, col, to)
        BY <3>1
      <4> HIDE DEF range, col
      <4> QED
        BY <1>4, <3>1, <4>1, DotsShape
    <3>2. CASE ~d.isRange
      <4>1. range = <<>>
        BY <3>2
      <4> HIDE DEF range
      <4> QED
        BY <2>1, <3>2, <4>1
    <3> QED
      BY <3>1, <3>2
  <2>3. r \in {0, 2} /\ to + r \in Nat
    <3> HIDE DEF r
    <3>1. r = 0 \/ r = 2
      BY <2>2
    <3> QED
      BY <1>4, <3>1
  <2>4. /\ IsSequence(dot) /\ Len(dot) = (IF d.appendDot THEN 1 ELSE 0)
        /\ \A k \in 1..Len(dot) : IsDot(dot[k], to + r + k - 1)
    <3>1. CASE d.appendDot
      <4>1. dot = Dots(1, col + r, to + r)
        BY <3>1
      <4> HIDE DEF dot, col, r
      <4> QED
        BY <2>3, <3>1, <4>1, DotsShape
    <3>2. CASE ~d.appendDot
      <4>1. dot = <<>>
        BY <3>2
      <4> HIDE DEF dot
      <4> QED
        BY <2>1, <3>2, <4>1
    <3> QED
      BY <3>1, <3>2
  <2> DEFINE s == Len(dot)
  <2> HIDE DEF r, s, range, dot, col
  <2>5. s \in {0, 1} /\ (s = 1 <=> d.appendDot) /\ (r = 2 <=> d.isRange) /\ m = r + s /\ m \in Nat \ {0}
    <3>1. s = (IF d.appendDot THEN 1 ELSE 0)
      BY <2>4 DEF s
    <3>2. m = r + s
      BY DEF r, s
    <3> QED
      BY <1>10, <2>2, <2>3, <3>1, <3>2
  <2>6. /\ IsSequence(new) /\ Len(new) = m + 1 /\ new[1] = num
        /\ \A k \in 1..r : new[1 + k] = range[k]
        /\ \A k \in 1..s : new[1 + r + k] = dot[k]
        /\ tokens \o <<num>> \o range \o dot = tokens \o new
    <3> HIDE DEF num
    <3>1. IsSequence(tokens) /\ IsSequence(range) /\ IsSequence(dot)
      BY <2>2, <2>4 DEF IInv, TokensOK, TokensTyped
    <3>2. /\ IsSequence(new) /\ Len(new) = Len(range) + Len(dot) + 1 /\ new[1] = num
          /\ \A k \in 1..Len(range) : new[1 + k] = range[k]
          /\ \A k \in 1..Len(dot) : new[1 + Len(range) + k] = dot[k]
          /\ tokens \o <<num>> \o range \o dot = tokens \o new
      BY <3>1, JoinedThree
    <3> HIDE DEF new
    <3> QED
      BY <3>2 DEF r, s
  <2>7. tokens' = tokens \o new
    <3> HIDE DEF num, new
    <3> QED
      BY <1>2, <2>6
  <2> HIDE DEF new, m
  <2>8. DotsAfter(new, m, to)
    <3>1. ASSUME NEW k \in 2..(m + 1) PROVE IsDot(new[k], to + k - 2)
      <4>1. CASE k <= r + 1
        <5>1. k - 1 \in 1..r /\ 1 + (k - 1) = k /\ to + (k - 1) - 1 = to + k - 2
          BY <1>4, <2>3, <2>5, <4>1
        <5>2. new[k] = range[k - 1]
          BY <2>6, <5>1
        <5>3. IsDot(range[k - 1], to + (k - 1) - 1)
          BY <2>2, <5>1
        <5> QED
          BY <5>1, <5>2, <5>3
      <4>2. CASE ~(k <= r + 1)
        <5>1. k - 1 - r \in 1..s /\ 1 + r + (k - 1 - r) = k /\ to + r + (k - 1 - r) - 1 = to + k - 2
          BY <1>4, <2>3, <2>5, <4>2
        <5>2. new[k] = dot[k - 1 - r]
          BY <2>6, <5>1
        <5>3. IsDot(dot[k - 1 - r], to + r + (k - 1 - r) - 1)
          BY <2>4, <5>1 DEF s
        <5> QED
          BY <5>1, <5>2, <5>3
      <4> QED
        BY <4>1, <4>2
    <3> QED
      BY <3>1 DEF DotsAfter
  <2>9. /\ char_ptr' \in Nat /\ next <= char_ptr' /\ to + m <= char_ptr'
        /\ At(to) = "." /\ At(to + 1) \notin Digits \cup Suffix => to + m = char_ptr' /\ At(stop) \notin Suffix
        /\ At(to) = "." /\ At(to + 1) \notin Digits \cup Suffix => \A k \in 2..(m + 1) : At(to + k - 2) = "."
        /\ char_ptr' = next \/ (char_ptr' = next + 1 /\ At(next) = ".")
    <3>1. CASE d.isRange
      <4>1. At(stop) = "." /\ At(stop) \notin Suffix
        BY <1>4, <3>1, InlineSets
      <4>2. next = stop /\ char_ptr' = stop + 1
        BY <1>2, <1>5, <1>8, <3>1, <4>1
      <4>3. CASE d.appendDot
        <5>1. m = 3 /\ to + 2 = stop /\ At(to + 1) \in Digits
          BY <1>4, <2>2, <2>5, <3>1, <4>3
        <5> QED
          BY <1>4, <4>1, <4>2, <5>1
      <4>4. CASE ~d.appendDot
        <5>1. m = 2 /\ to + 1 = stop
          BY <1>4, <2>3, <2>5, <3>1, <4>4
        <5>2. \A k \in 2..(m + 1) : to + k - 2 = to \/ to + k - 2 = stop
          BY <1>4, <5>1
        <5>3. to + m = stop + 1
          BY <1>4, <5>1
        <5>4. stop + 1 \in Nat /\ stop <= stop + 1 /\ stop + 1 <= stop + 1
          BY <1>4
        <5>5. At(to) = "." => \A k \in 2..(m + 1) : At(to + k - 2) = "."
          BY <4>1, <5>2
        <5> QED
          BY <4>1, <4>2, <5>3, <5>4, <5>5
      <4> QED
        BY <4>3, <4>4
    <3>2. CASE ~d.isRange
      <4>1. d.appendDot /\ to + 1 = stop /\ At(to) = "." /\ m = 1
        BY <1>4, <1>10, <2>3, <2>5, <3>2
      <4>2. char_ptr' = next
        BY <1>2, <1>5, <3>2
      <4>3. At(to + 1) \notin Digits \cup Suffix => At(stop) \notin Suffix /\ next = stop
        BY <1>8, <4>1
      <4>4. \A k \in 2..(m + 1) : to + k - 2 = to
        BY <1>4, <4>1
      <4>5. next <= next /\ to + m = stop /\ stop <= next
        BY <1>5, <4>1
      <4> QED
        BY <1>5, <4>1, <4>2, <4>3, <4>4, <4>5
    <3> QED
      BY <3>1, <3>2
  <2>10. PICK n \in Nat \ {0} : char_ptr' = char_ptr + n
    <3>1. char_ptr' \in Nat /\ next <= char_ptr'
      BY <2>9
    <3>3. next \in Nat /\ stop \in Nat /\ char_ptr < stop /\ stop <= next
      BY <1>1, <1>4, <1>5
    <3>4. char_ptr < char_ptr'
      BY <1>1, <3>1, <3>3
    <3>5. PICK e \in Nat : char_ptr' = e
      BY <3>1
    <3>6. PICK c \in Nat : char_ptr = c
      BY <1>1
    <3> DEFINE n == e - c
    <3>7. n \in Nat \ {0} /\ e = c + n
      <4>1. c < e
        BY <3>4, <3>5, <3>6
      <4> QED
        BY <4>1
    <3> HIDE DEF n
    <3> QED
      BY <3>5, <3>6, <3>7
  <2>11. ASSUME NEW q \in char_ptr..(char_ptr + n - 1) PROVE At(q) # "\n"
    <3>1. CASE q \in char_ptr..(next - 1)
      BY <1>7, <3>1
    <3>2. CASE q \notin char_ptr..(next - 1)
      <4>1. char_ptr + n = next \/ (char_ptr + n = next + 1 /\ At(next) = ".")
        BY <2>9, <2>10
      <4>2. next \in Nat /\ char_ptr \in Nat
        BY <1>1, <1>5
      <4>3. char_ptr + n = next + 1 /\ At(next) = "." /\ q = next
        BY <3>2, <4>1, <4>2
      <4> QED
        BY <4>3
    <3> QED
      BY <3>1, <3>2
  <2>12. cur_col' \in Nat
    <3>1. col \in Nat
      BY <1>1, <1>4, <1>5 DEF col
    <3> QED
      BY <1>2, <2>3, <2>5, <3>1 DEF r, s
  <2>13. num.type = "VALUE_NUMBER"
    BY <1>4, <1>6, <1>10
  <2>14. At(to) = "." /\ At(to + 1) \notin Digits \cup Suffix =>
            /\ to + m = char_ptr + n /\ num.value = Text(num.from, to)
            /\ \A k \in 2..(m + 1) : At(to + k - 2) = "."
    BY <1>8, <2>9, <2>10
  <2>15. to + m <= char_ptr + n
    BY <2>9, <2>10
  <2>16. to \in Nat /\ num.to = to /\ char_ptr < to /\ num.line = cur_line /\ num.from = char_ptr
    BY <1>4, <1>6
  <2>17. m \in Nat \ {0} /\ IsSequence(new) /\ Len(new) = m + 1 /\ new[1] = num
    BY <2>5, <2>6
  <2> HIDE DEF to, stop, num
  <2> QED
    BY <1>1, <1>2, <2>7, <2>8, <2>10, <2>11, <2>12, <2>13, <2>14, <2>15, <2>16, <2>17, DottedOK, ZenonT(60)
<1> QED
  BY <1>4, <1>9, <1>10

-----------------------------------------------------------------------------
(* What holds of every run *)

\* Every round of a loop keeps the invariant and moves on.
LEMMA Round ==
  ASSUME IInv, Next
  PROVE  IInv' /\ (Onward \/ UNCHANGED vars)
<1>1. CASE EatNul \/ EatBlank \/ LineComment \/ BeginComment \/ InComment
  BY <1>1, EatNulOK, EatBlankOK, LineCommentOK, BeginCommentOK, InCommentOK
<1>2. CASE TwoGreater \/ Symbol \/ LeadingDot \/ Number \/ Word
  BY <1>2, TwoGreaterOK, SymbolOK, LeadingDotOK, NumberOK, WordOK
<1>3. CASE BeginLiteral \/ LiteralChar \/ LiteralEscape \/ EndChar \/ EndString
  BY <1>3, BeginLiteralOK, LiteralCharOK, LiteralEscapeOK, EndCharOK, EndStringOK
<1>4. CASE LiteralEof
  BY <1>4, Fails DEF LiteralEof
<1>5. CASE Unknown
  BY <1>5, Fails DEF Unknown
<1>6. CASE Finish
  BY <1>6, FinishOK
<1>7. CASE Ended
  BY <1>7, StutterOK DEF Ended
<1> QED
  BY <1>1, <1>2, <1>3, <1>4, <1>5, <1>6, <1>7 DEF Next

\* The inductive invariant: the cursor stands where its line and column say,
\* except that the column may be ahead on a line with a dotted number; a quoted
\* literal remembers its beginning; tokens stand in order, in their places, and
\* up to the cursor; and what lies before the cursor is in a token.
THEOREM Invariance == Spec => []IInv
<1>1. Init => IInv
  BY InitOK
<1>2. IInv /\ [Next]_vars => IInv'
  BY Round, StutterOK
<1> QED
  BY <1>1, <1>2, PTL DEF Spec

\* cur_line and cur_col, which EAT_LINE resets and EAT_CHAR(n) advances, give
\* every token of every text the line and column its text has.
THEOREM PositionsAreTrue == Spec => []TruePositions
<1>1. IInv => TruePositions
  BY DEF IInv, TokensOK
<1> QED
  BY <1>1, Invariance, PTL

\* Lexer::tokenize loses and invents nothing: each token spells its text, no
\* two overlap, and without comments every character read is blank or in one.
THEOREM NothingIsLost == Spec => []Faithful
<1>1. ASSUME IInv, Lossless, NEW i \in DOMAIN tokens
      PROVE  /\ \/ tokens[i].type = "_EOF" \/ Spells(tokens[i])
                \/ IsNumber(tokens[i]) /\ (At(tokens[i].from) = "." \/ At(tokens[i].to) \in Suffix)
             /\ i > 1 => tokens[i - 1].to <= tokens[i].from
  BY <1>1 DEF IInv, TokensOK, Stood, Stands, Follow
<1>2. ASSUME IInv, Lossless, mode = "text", ~Commented,
             NEW p \in 0..(Min({char_ptr, Len(code)}) - 1)
      PROVE  Accounted(p)
  <2>1. char_ptr \in Nat /\ Len(code) \in Nat /\ Frontier = char_ptr
    BY <1>2, Characters, Modality DEF IInv, Typed, Frontier
  <2>2. Min({char_ptr, Len(code)}) \in Nat /\ Min({char_ptr, Len(code)}) <= char_ptr /\ Min({char_ptr, Len(code)}) <= Len(code)
    BY <2>1, Least
  <2>3. p \in 0..(Frontier - 1) /\ p < Len(code)
    BY <2>1, <2>2
  <2> QED
    BY <1>2, <2>3 DEF IInv, Covers
<1>3. IInv => Faithful
  <2> SUFFICES ASSUME IInv PROVE Faithful
    OBVIOUS
  <2>1. Lossless <=> \A i \in DOMAIN tokens : ~Overread(i)
    BY DEF Lossless
  <2>2. Commented <=> \E p \in 0..(Len(code) - 1) : At(p) = "/"
    BY DEF Commented
  <2>3. \A p : Accounted(p) <=> At(p) \in Blank \/ \E i \in DOMAIN tokens : p \in Covered(tokens[i])
    BY DEF Accounted
  <2> QED
    BY <1>1, <1>2, <2>1, <2>2, <2>3 DEF Faithful
<1> QED
  BY <1>3, Invariance, PTL

\* Neither tokenize's loop nor one of those inside it that cross lines stays
\* where it is: each round reads at least one character, or the work ends.
THEOREM AlwaysOnward == Spec => Progress
<1>1. IInv /\ [Next]_vars => [char_ptr' > char_ptr \/ mode' \in {"done", "failed"}]_vars
  BY Round DEF Onward
<1> QED
  BY <1>1, Invariance, PTL DEF Spec, Progress
=============================================================================
