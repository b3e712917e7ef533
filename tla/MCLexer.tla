------------------------------ MODULE MCLexer ------------------------------
(* Every text of up to three fragments: words, numbers with and without dots *)
(* and suffixes, literals, comments, symbols of one to three characters,     *)
(* blanks, and characters the tokenizer does not know.                       *)
EXTENDS Lexer

Fragments == {
  "f", "func", "public", "true", "1", "1.", "1..", "1.2", "12.34.", "0x1F", "0b1", "0o7", "2u", "2il", ".5", ".", "..",
  "'a'", "'\\n'", "'", "\"s\"", "\"", "\\", "\\x41", "\\x80000000", "n", "//c", "/*c*/", "/*", "*", "/", " ", "\n", "\f",
  ">", ">>", "|>>", "<<=", "=>", "::", ";", "{", "Q" }

MCSources == {a \o b \o c : a, b, c \in Fragments}
=============================================================================
