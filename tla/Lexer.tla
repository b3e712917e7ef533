------------------------------- MODULE Lexer -------------------------------
(* The tokenizer of src/src/lexer: one action per case of the switch that    *)
(* Lexer::tokenize runs on the current character, and one per iteration of   *)
(* the loops that cross lines (block comments and quoted literals).  Source  *)
(* positions are counted from 0, as char_ptr is; lines and columns from 1.   *)
(* The character with code 0 is written as a form feed.                      *)
EXTENDS Naturals, Sequences, SequencesExt, FiniteSets, FiniteSetsExt

CONSTANT Sources   \* the texts to be tokenized; the caller has left out ""

ASSUME SourcesAssumption == \A text \in Sources : text # "" /\ Len(text) \in Nat

VARIABLES
  code,      \* the source text
  char_ptr, cur_line, cur_col,
  tokens,
  comments,  \* where the comment for the next declaration begins, if there is one
  mode,      \* the loop tokenize is in, or how it ended
  lit        \* the quoted literal being read: where it began, its length
vars == <<code, char_ptr, cur_line, cur_col, tokens, comments, mode, lit>>

NUL == "\f"
Letters == {"a", "b", "c", "d", "e", "f", "g", "h", "i", "j", "k", "l", "m", "n", "o", "p", "q", "r",
            "s", "t", "u", "v", "w", "x", "y", "z", "A", "B", "C", "D", "E", "F", "G", "H", "I", "J",
            "K", "L", "M", "N", "O", "P", "Q", "R", "S", "T", "U", "V", "W", "X", "Y", "Z", "_"}
Digits == {"0", "1", "2", "3", "4", "5", "6", "7", "8", "9"}
Octal == Digits \ {"8", "9"}
Hex == Digits \cup {"a", "b", "c", "d", "e", "f", "A", "B", "C", "D", "E", "F"}
Blank == {" ", "\t", "\n"}
Modes == {"text", "comment", "char", "string", "done", "failed"}

\* The character at a position, and the GET_CHAR macro.
At(p) == IF p >= Len(code) THEN NUL ELSE SubSeq(code, p + 1, p + 1)
Ch(k) == At(char_ptr + k)
Text(from, to) == SubSeq(code, from + 1, Min({to, Len(code)}))
\* The first position from p on whose character is not in S.
Run(p, S) == Min({q \in p..Len(code) : At(q) \notin S})

\* What each symbol token is spelled like (Token::to_string): punctuation, the
\* brackets and the operators of one character; an operator and an equals sign,
\* one character twice, and the rest.
Comma == ","
Semicolon == ";"
LeftCurly == "{"
RightCurly == "}"
Punctuation == [
  SYM_AT |-> "@", SYM_DOT |-> ".", SYM_HASH |-> "#", SYM_COMMA |-> Comma, SYM_COLLON |-> ":", SYM_DOLLAR |-> "$",
  SYM_QUESTION |-> "?", SYM_SEMI_COLLON |-> Semicolon]
Brackets == [
  BRACKET_LCURLY |-> LeftCurly, BRACKET_RCURLY |-> RightCurly, BRACKET_LPARENT |-> "(", BRACKET_RPARENT |-> ")",
  BRACKET_LSQUARED |-> "[", BRACKET_RSQUARED |-> "]"]
Operators == [
  OP_GT |-> ">", OP_LT |-> "<", OP_MOD |-> "%", OP_DIV |-> "/", OP_MUL |-> "*", OP_PLUS |-> "+", OP_MINUS |-> "-",
  OP_EQ |-> "=", OP_NOT |-> "!", OP_BIT_OR |-> "|", OP_BIT_NOT |-> "~", OP_BIT_AND |-> "&", OP_BIT_XOR |-> "^"]
Assigned == [
  OP_GTEQ |-> ">", OP_EQEQ |-> "=", OP_LTEQ |-> "<", OP_NOTEQ |-> "!", OP_MULEQ |-> "*", OP_DIVEQ |-> "/",
  OP_PLUSEQ |-> "+", OP_MOD_EQ |-> "%", OP_MINUSEQ |-> "-", OP_BIT_OR_EQ |-> "|", OP_BIT_AND_EQ |-> "&",
  OP_BIT_XOR_EQ |-> "^"]
Doubled == [SYM_COLCOL |-> ":", OP_OR |-> "|", OP_AND |-> "&", OP_BIT_LSHIFT |-> "<"]
Grouped == [
  OP_ARROW |-> <<"=", ">">>, OP_BIT_RSHIFT |-> <<"|", ">", ">">>, OP_BIT_LSHIFT_EQ |-> <<"<", "<", "=">>,
  OP_BIT_RSHIFT_EQ |-> <<">", ">", "=">>]
SymbolTypes == UNION {DOMAIN Punctuation, DOMAIN Brackets, DOMAIN Operators,
                      DOMAIN Assigned, DOMAIN Doubled, DOMAIN Grouped}
Symbols == [t \in SymbolTypes |->
              CASE t \in DOMAIN Punctuation -> <<Punctuation[t]>>
                [] t \in DOMAIN Brackets    -> <<Brackets[t]>>
                [] t \in DOMAIN Operators   -> <<Operators[t]>>
                [] t \in DOMAIN Assigned    -> <<Assigned[t], "=">>
                [] t \in DOMAIN Doubled     -> <<Doubled[t], Doubled[t]>>
                [] t \in DOMAIN Grouped     -> Grouped[t]]

\* The keywords and the type of token each one becomes.
Keywords == [
  if |-> "KWORD_IF", else |-> "KWORD_ELSE", case |-> "KWORD_CASE", new |-> "KWORD_NEW", throw |-> "KWORD_THROW", let |-> "KWORD_VAR", for |-> "KWORD_FOR", enum |-> "KWORD_ENUM",
  decltype |-> "KWORD_DECLTYPE", func |-> "KWORD_FUNC", macro |-> "KWORD_MACRO", operator |-> "KWORD_OPERATOR",
  class |-> "KWORD_CLASS", as |-> "KWORD_AS", const |-> "KWORD_CONST",
  while |-> "KWORD_WHILE", break |-> "KWORD_BREAK", external |-> "KWORD_EXTERN", super |-> "KWORD_SUPER",
  switch |-> "KWORD_SWITCH", static |-> "KWORD_STATIC", import |-> "KWORD_IMPORT", unsafe |-> "KWORD_UNSAFE",
  constexpr |-> "KWORD_CONSTEXPR", namespace |-> "KWORD_NAMESPACE", struct |-> "KWORD_STRUCT", type |-> "KWORD_TYPEDEF",
  mut |-> "KWORD_MUTABLE", do |-> "KWORD_DO", private |-> "KWORD_PRIVATE", public |-> "KWORD_PUBLIC",
  virtual |-> "KWORD_VIRTUAL", override |-> "KWORD_OVERRIDE", return |-> "KWORD_RETURN", default |-> "KWORD_DEFAULT",
  continue |-> "KWORD_CONTINUE", try |-> "KWORD_TRY", catch |-> "KWORD_CATCH", interface |-> "KWORD_INTER",
  extends |-> "KWORD_EXTENDS", implements |-> "KWORD_IMPLEMENTS", true |-> "VALUE_BOOL", false |-> "VALUE_BOOL"]
WordType(word) == IF word \in DOMAIN Keywords THEN Keywords[word] ELSE "IDENTIFIER"

\* The tokens that take the pending comment, and those that leave it pending.
Declares == {"KWORD_FUNC", "KWORD_MACRO", "KWORD_CLASS", "KWORD_STRUCT", "KWORD_ENUM", "KWORD_NAMESPACE", "KWORD_INTER",
             "KWORD_VAR", "KWORD_CONST", "KWORD_TYPEDEF", "KWORD_OPERATOR"}
Modifies == {"KWORD_PUBLIC", "KWORD_PRIVATE", "KWORD_VIRTUAL", "KWORD_STATIC", "KWORD_EXTERN", "KWORD_UNSAFE",
             "KWORD_MUTABLE", "IDENTIFIER"}

NoComment == {}
NoLiteral == [at |-> 0, line |-> 0, col |-> 0, size |-> 0]

\* A token, with the source interval it was read from.  The value of a quoted
\* literal stands undecoded: the text between from and to.
Token(type, line, col, value, comment, from, to) ==
  [type |-> type, line |-> line, col |-> col, value |-> value, comment |-> comment, from |-> from, to |-> to]
Plain(type, from, to) == Token(type, cur_line, cur_col, "", NoComment, from, to)

EatChar(n) == char_ptr' = char_ptr + n /\ cur_col' = cur_col + n /\ cur_line' = cur_line
\* Mutants of EatLine: the column, or the pointer, stays where it was.
EatLineKeepsColumn(n) == char_ptr' = char_ptr + n /\ cur_col' = cur_col + n /\ cur_line' = cur_line + 1
EatLineInPlace(n) == char_ptr' = char_ptr /\ cur_col' = 1 /\ cur_line' = cur_line + 1
EatLine(n) == char_ptr' = char_ptr + n /\ cur_col' = 1 /\ cur_line' = cur_line + 1
Emit(t) == tokens' = Append(tokens, t)
lexer_error == mode' = "failed" /\ UNCHANGED <<code, char_ptr, cur_line, cur_col, tokens, comments, lit>>

Init ==
  /\ code \in Sources
  /\ char_ptr = 0 /\ cur_line = 1 /\ cur_col = 1
  /\ tokens = <<>> /\ comments = NoComment
  /\ mode = "text" /\ lit = NoLiteral

Reading == mode = "text" /\ char_ptr < Len(code)

\* handle_eof on a character 0 inside the text.
EatNul ==
  /\ Reading /\ Ch(0) = NUL
  /\ Emit(Plain("_EOF", char_ptr, char_ptr + 1)) /\ EatChar(1)
  /\ UNCHANGED <<code, comments, mode, lit>>

EatBlank ==
  /\ Reading /\ Ch(0) \in Blank
  /\ IF Ch(0) = "\n" THEN EatLine(1) ELSE EatChar(1)
  /\ UNCHANGED <<code, tokens, comments, mode, lit>>

\* A comment up to the end of the line; at the end of the text, handle_eof.
LineComment ==
  /\ Reading /\ Ch(0) = "/" /\ Ch(1) = "/"
  /\ LET end == Min({q \in char_ptr..Len(code) : At(q) \in {"\n", NUL}})
         n == end - char_ptr
     IN IF At(end) = "\n" THEN EatLine(n + 1) /\ UNCHANGED tokens
        ELSE /\ Emit(Token("_EOF", cur_line, cur_col + n, "", NoComment, end, end + 1))
             /\ EatChar(n + 1)
  /\ comments' = {char_ptr}
  /\ UNCHANGED <<code, mode, lit>>

BeginComment ==
  /\ Reading /\ Ch(0) = "/" /\ Ch(1) = "*"
  /\ mode' = "comment" /\ lit' = [NoLiteral EXCEPT !.at = char_ptr] /\ EatChar(2)
  /\ UNCHANGED <<code, tokens, comments>>
InComment ==
  /\ mode = "comment"
  /\ \/ /\ Ch(0) = "*" /\ Ch(1) = "/"
        /\ EatChar(2) /\ mode' = "text" /\ comments' = {lit.at} /\ lit' = NoLiteral
        /\ UNCHANGED <<code, tokens>>
     \/ Ch(0) = NUL /\ lexer_error
     \/ /\ Ch(0) # NUL /\ ~(Ch(0) = "*" /\ Ch(1) = "/")
        /\ IF Ch(0) = "\n" THEN EatLine(1) ELSE EatChar(1)
        /\ UNCHANGED <<code, tokens, comments, mode, lit>>

\* ">>" is no token, so that lists of generics can end on it: two are read at
\* once, whatever follows, and only ">>=" as a whole comes before.
Shift == Reading /\ Ch(0) = ">" /\ Ch(1) = ">" /\ Ch(2) # "="
TwoGreater ==
  /\ Shift
  /\ tokens' = tokens \o << Plain("OP_GT", char_ptr, char_ptr + 1),
                            Token("OP_GT", cur_line, cur_col + 1, "", NoComment, char_ptr + 1, char_ptr + 2) >>
  /\ EatChar(2)
  /\ UNCHANGED <<code, comments, mode, lit>>

\* The symbols that can be read here; the other nested tests of the switch
\* prefer the longest.  A dot before a digit begins a float instead.
Candidates == {t \in DOMAIN Symbols : \A k \in 1..Len(Symbols[t]) : Ch(k - 1) = Symbols[t][k]}
Longest(S) == CHOOSE t \in S : \A u \in S : Len(Symbols[u]) <= Len(Symbols[t])
Symbol ==
  /\ Reading /\ Candidates # {} /\ ~Shift
  /\ ~(Ch(0) = "/" /\ Ch(1) \in {"/", "*"}) /\ ~(Ch(0) = "." /\ Ch(1) \in Digits)
  /\ LET t == Longest(Candidates)
     IN Emit(Plain(t, char_ptr, char_ptr + Len(Symbols[t]))) /\ EatChar(Len(Symbols[t]))
  /\ UNCHANGED <<code, comments, mode, lit>>

\* An opening quote: the literal's place is remembered past it.
Quotes == [char |-> "'", string |-> "\""]
BeginLiteral ==
  /\ Reading
  /\ \E m \in DOMAIN Quotes :
       /\ Ch(0) = Quotes[m] /\ mode' = m
       /\ lit' = [at |-> char_ptr, line |-> cur_line, col |-> cur_col + 1, size |-> 0]
  /\ EatChar(1)
  /\ UNCHANGED <<code, tokens, comments>>

InLiteral == mode \in DOMAIN Quotes
Escapes(m) == {"\\", "'", "\"", "t", "n", "r"} \cup (IF m = "char" THEN {"0"} ELSE {"e"})
Grow == lit' = [lit EXCEPT !.size = @ + 1] /\ UNCHANGED <<code, tokens, comments, mode>>

\* One character of a literal, or one escape sequence.
LiteralChar ==
  /\ InLiteral /\ Ch(0) \notin {Quotes[mode], "\\", NUL}
  /\ IF Ch(0) # "\n" THEN EatChar(1) /\ Grow
     ELSE IF mode = "string" THEN EatLine(1) /\ Grow
     ELSE lexer_error
\* Hexadecimal digits std::stoi throws out_of_range for: 2^31 or more.
Overflows(from, to) ==
  LET first == Run(from, {"0"})
  IN to - first > 8 \/ (to - first = 8 /\ At(first) \notin Octal)
LiteralEscape ==
  /\ InLiteral /\ Ch(0) = "\\"
  /\ \/ Ch(1) \in Escapes(mode) /\ EatChar(2) /\ Grow
     \/ Ch(1) = "\n" /\ EatLine(2) /\ UNCHANGED <<code, tokens, comments, mode, lit>>
     \/ /\ Ch(1) = "x"
        /\ LET end == Run(char_ptr + 2, Hex)
           IN IF end = char_ptr + 2 \/ Overflows(char_ptr + 2, end) THEN lexer_error ELSE EatChar(end - char_ptr) /\ Grow
     \/ Ch(1) \notin Escapes(mode) \cup {"\n", "x"} /\ lexer_error
LiteralEof == InLiteral /\ Ch(0) = NUL /\ lexer_error

\* The closing quote.  A character's column is computed back from here.
EndChar ==
  /\ mode = "char" /\ Ch(0) = Quotes[mode]
  /\ IF lit.size # 1 THEN lexer_error
     ELSE /\ Emit(Token("VALUE_CHAR", cur_line, cur_col + 1 - (lit.size + 2), Text(lit.at, char_ptr + 1),
                        NoComment, lit.at, char_ptr + 1))
          /\ EatChar(1) /\ mode' = "text" /\ lit' = NoLiteral
          /\ UNCHANGED <<code, comments>>
EndString ==
  /\ mode = "string" /\ Ch(0) = Quotes[mode]
  /\ Emit(Token("VALUE_STRING", lit.line, lit.col - 1, Text(lit.at, char_ptr + 1), NoComment, lit.at, char_ptr + 1))
  /\ EatChar(1) /\ mode' = "text" /\ lit' = NoLiteral
  /\ UNCHANGED <<code, comments>>

\* A float that begins with its dot: tk.value = float_val stores a double in a
\* string, which keeps one character, the one with the code of its integer part.
LeadingDot ==
  /\ Reading /\ Ch(0) = "." /\ Ch(1) \in Digits
  /\ LET n == Run(char_ptr + 1, Digits) - char_ptr
     IN /\ Emit(Token("VALUE_FLOAT", cur_line, cur_col, NUL, NoComment, char_ptr, char_ptr + n))
        /\ EatChar(n)
  /\ UNCHANGED <<code, comments, mode, lit>>

\* A number in base 2, 8 or 16: the digits its prefix allows, or none.
Based(p) ==
  CASE At(p) # "0" -> {}
    [] At(p + 1) \in {"b", "B"} -> {"0", "1"}
    [] At(p + 1) \in {"o", "O"} -> Octal
    [] At(p + 1) \in {"x", "X"} -> Hex
    [] OTHER -> {}
\* Mutant of Decimal: a second dot erases nothing.
DecimalKeepsDot(p) ==
  LET whole == Run(p + 1, Digits)
      stop == IF At(whole) = "." THEN Run(whole + 1, Digits) ELSE whole
      appendDot == At(whole) = "." /\ At(stop - 1) = "."
  IN [stop |-> stop, isRange |-> At(whole) = "." /\ At(stop) = ".", appendDot |-> appendDot,
      to |-> IF appendDot THEN stop - 1 ELSE stop, float |-> At(whole) = "." /\ At(stop) # "." /\ ~appendDot]
\* The decimal loop from p: where it stops, where the text it keeps ends, and
\* what follows.  A second dot is taken for the range 1..5 and erases the last
\* character kept; a dot in last place is erased and becomes a token.
Decimal(p) ==
  LET whole == Run(p + 1, Digits)
      stop == IF At(whole) = "." THEN Run(whole + 1, Digits) ELSE whole
      isRange == At(whole) = "." /\ At(stop) = "."
      kept == IF isRange THEN stop - 1 ELSE stop
      appendDot == At(whole) = "." /\ At(kept - 1) = "."
  IN [stop |-> stop, isRange |-> isRange, appendDot |-> appendDot,
      to |-> IF appendDot THEN kept - 1 ELSE kept,
      float |-> At(whole) = "." /\ ~isRange /\ ~appendDot]
\* The suffixes u, i and l, which become a prefix of the value.
Sign(q) == IF At(q) \in {"u", "U"} THEN "u" ELSE IF At(q) \in {"i", "I"} THEN "i" ELSE ""
Long(q) == IF At(q) \in {"l", "L"} THEN "l" ELSE ""

Width(suffix) == IF suffix = "" THEN 0 ELSE 1
With(suffix, value) == IF suffix = "" THEN value ELSE suffix \o value

\* The dots consume() is called for.  char_ptr goes back one step after each
\* group, cur_col does not.
Dots(n, col, from) == [k \in 1..n |-> Token("SYM_DOT", cur_line, col + k - 1, "", NoComment, from + k - 1, from + k)]

Number ==
  /\ Reading /\ Ch(0) \in Digits
  /\ LET base == Based(char_ptr)
         d == IF base = {} THEN Decimal(char_ptr)
              ELSE LET end == Run(char_ptr + 2, base)
                   IN [stop |-> end, isRange |-> FALSE, appendDot |-> FALSE, to |-> end, float |-> FALSE]
         sign == Sign(d.stop)
         long == Long(d.stop + Width(sign))
         next == d.stop + Width(sign) + Width(long)  \* char_ptr when the token is pushed
         col == cur_col + (next - char_ptr)          \* and cur_col
         range == IF d.isRange THEN Dots(2, col, d.to) ELSE <<>>
         dot == IF d.appendDot THEN Dots(1, col + Len(range), d.to + Len(range)) ELSE <<>>
     IN /\ tokens' = tokens
                     \o << Token(IF d.float THEN "VALUE_FLOAT" ELSE "VALUE_NUMBER", cur_line,
                                 cur_col + (d.stop - char_ptr) - (d.to - char_ptr),
                                 With(sign, With(long, Text(char_ptr, d.to))), NoComment, char_ptr, d.to) >>
                     \o range \o dot
        /\ char_ptr' = next + (IF d.isRange THEN 1 ELSE 0)
        /\ cur_col' = col + Len(range) + Len(dot) /\ cur_line' = cur_line
  /\ UNCHANGED <<code, comments, mode, lit>>

Word ==
  /\ Reading /\ Ch(0) \in Letters
  /\ LET end == Run(char_ptr + 1, Letters \cup Digits)
         type == WordType(Text(char_ptr, end))
     IN /\ Emit(Token(type, cur_line, cur_col, Text(char_ptr, end),
                      IF type \in Declares THEN comments ELSE NoComment, char_ptr, end))
        /\ comments' = IF type \in Modifies THEN comments ELSE NoComment
        /\ EatChar(end - char_ptr)
  /\ UNCHANGED <<code, mode, lit>>

\* Any other character, the backslash among them.
Unknown ==
  /\ Reading /\ Candidates = {}
  /\ Ch(0) \notin Letters \cup Digits \cup Blank \cup {NUL, "'", "\""}
  /\ lexer_error

\* The end of the text: handle_eof(false) unless an _EOF is already last.
Finish ==
  /\ mode = "text" /\ char_ptr >= Len(code)
  /\ IF tokens # <<>> /\ Last(tokens).type = "_EOF" THEN UNCHANGED tokens
     ELSE Emit(Plain("_EOF", char_ptr, char_ptr))
  /\ mode' = "done"
  /\ UNCHANGED <<code, char_ptr, cur_line, cur_col, comments, lit>>

\* tokenize has returned or thrown.
Ended == mode \in {"done", "failed"} /\ UNCHANGED vars

Next ==
  \/ EatNul \/ EatBlank \/ LineComment \/ BeginComment \/ InComment
  \/ TwoGreater \/ Symbol \/ BeginLiteral \/ LiteralChar \/ LiteralEscape \/ LiteralEof \/ EndChar \/ EndString
  \/ LeadingDot \/ Number \/ Word \/ Unknown \/ Finish \/ Ended

Spec == Init /\ [][Next]_vars
-----------------------------------------------------------------------------
\* The place a position of the text really has.
Newlines(p) == {q \in 0..(p - 1) : At(q) = "\n"}
TrueLine(p) == 1 + Cardinality(Newlines(p))
TrueCol(p) == IF Newlines(p) = {} THEN p + 1 ELSE p - Max(Newlines(p))

\* A number the decimal loop took a dot back from, and one with which it gave up
\* something else: a digit between two dots, or a letter after the dot.
Suffix == {"u", "U", "i", "I", "l", "L"}
Dotted(i) ==
  /\ tokens[i].type = "VALUE_NUMBER" /\ i < Len(tokens)
  /\ tokens[i + 1].type = "SYM_DOT" /\ tokens[i + 1].from = tokens[i].to
Overread(i) ==
  Dotted(i) /\ (At(tokens[i].to) # "." \/ At(tokens[i].to + 1) \in Digits \cup Suffix)

\* Every token carries the line and column its text has in the source, so that
\* errors point at it (Token::get_pos).  Two things the code does are left out:
\* char_ptr -= 1 after a dotted number leaves cur_col ahead for the rest of the
\* line, and a character literal's column and line are computed back from its
\* end as if it had no escape.
TruePositions ==
  \A i \in DOMAIN tokens : LET t == tokens[i] IN
    /\ t.line = TrueLine(t.from) \/ (t.type = "VALUE_CHAR" /\ t.to # t.from + 3)
    /\ \/ t.col = TrueCol(t.from)
       \/ t.type = "VALUE_CHAR" /\ t.to # t.from + 3
       \/ \E j \in 1..i : Dotted(j) /\ tokens[j].line = t.line

\* A token stands for the text it was read from.
Spells(t) ==
  IF t.type \in DOMAIN Symbols
  THEN LET symbol == Symbols[t.type]
       IN  t.to = t.from + Len(symbol) /\ \A k \in 1..Len(symbol) : At(t.from + k - 1) = symbol[k]
  ELSE t.value = Text(t.from, t.to)
IsNumber(t) == t.type \in {"VALUE_NUMBER", "VALUE_FLOAT"}
\* The positions a token accounts for: its text and, of a number, its suffix.
Covered(t) == t.from..(t.to - 1) \cup (IF IsNumber(t) THEN {p \in t.to..(t.to + 1) : At(p) \in Suffix} ELSE {})

\* Nothing of the source is lost or invented: each token spells the text it was
\* read from, tokens follow each other, and in a text without comments every
\* character read is blank or in a token.  Left out: floats that begin with a
\* dot, and what the decimal loop gives up around a dot (1.2.3 loses its 2 and
\* 1.len its l).
Faithful ==
  LET lossless == \A i \in DOMAIN tokens : ~Overread(i)
      commented == \E p \in 0..(Len(code) - 1) : At(p) = "/"
  IN lossless =>
       /\ \A i \in DOMAIN tokens : LET t == tokens[i] IN
            /\ \/ t.type = "_EOF" \/ Spells(t)
               \/ IsNumber(t) /\ (At(t.from) = "." \/ At(t.to) \in Suffix)
            /\ i > 1 => tokens[i - 1].to <= t.from
       /\ mode = "text" /\ ~commented =>
            \A p \in 0..(Min({char_ptr, Len(code)}) - 1) :
              At(p) \in Blank \/ \E i \in DOMAIN tokens : p \in Covered(tokens[i])

\* Every round of tokenize's loop and of the loops inside it that cross lines
\* moves on in the text or ends the work, whatever the text, closed or not; as
\* some step is always possible, tokenize returns.  The loops over the digits,
\* letters and hexadecimal digits of one token and over a line comment are one
\* step here each: they stop at the first character that is none.
Progress == [][char_ptr' > char_ptr \/ mode' \in {"done", "failed"}]_vars
=============================================================================
