------------------------------ MODULE Statements ------------------------------
(***************************************************************************)
(* What the statements of Snowball mean. What a function has still to do   *)
(* is a sequence of statements and of marks, which say where a loop or a   *)
(* try ends; the first of them says what may happen next.                  *)
(***************************************************************************)
EXTENDS Ir, SequencesExt

CONSTANT Value      \* the numbers a switch may meet (see ValueAssumption of ControlFlow)

Mark(m) == [k |-> m]

\* The calls of for x : n, as the comment over its transformation lists them.
NextOf(n) == Call(n \o ".next")
IsValid(n) == Test(n \o ".is_valid")
ValueOf(n) == Call(n \o ".value")
ResetOf(n) == Call(n \o ".reset")

\* All after the innermost marker m, the marker included or not.
RECURSIVE From(_, _)
From(m, frames) ==
    IF frames = <<>> \/ Head(frames).k = m THEN frames ELSE From(m, Tail(frames))

Beyond(m, frames) == LET f == From(m, frames) IN IF f = <<>> THEN f ELSE Tail(f)

\* An exception goes to the handler of the innermost try; if only a caller has a handler that
\* names it, the run goes on after that try; or it leaves the function, or ends the program.
Thrown(n, frames) ==
    {<<"left", n>>} \cup (IF From("tried", frames) = <<>> THEN {} ELSE {<<"threw", n>>, <<"passed", n>>})

Unwind(frames) == LET f == From("tried", frames) IN Head(f).handler \o Tail(f)

Chosen(s, v) ==
    LET hit == SelectSeq(s.cases, LAMBDA c : c.label = v)
    IN  IF hit # <<>> THEN hit[1].body ELSE IF s.other # <<>> THEN s.other[1] ELSE <<>>

Silent == {"if", "while", "for", "try", "tried", "looped", "break", "continue"}

\* One silent step of the first statement.
Unfold(frames) ==
    LET s == Head(frames)  next == Tail(frames)
    IN  CASE s.k = "if" ->
               (CASE s.c.k = "and" -> <<Conditional(s.c.l, <<Conditional(s.c.r, s.yes, s.no)>>, s.no)>> \o next
                  [] s.c.k = "or" -> <<Conditional(s.c.l, s.yes, <<Conditional(s.c.r, s.yes, s.no)>>)>> \o next
                  [] s.c.k = "not" -> <<Conditional(s.c.c, s.no, s.yes)>> \o next
                  [] s.c.k = "test" -> <<[k |-> "choice", n |-> s.c.n, yes |-> s.yes, no |-> s.no]>> \o next)
          [] s.k = "while" ->
               LET round == s.body \o <<[k |-> "looped", s |-> s]>>
               IN  IF s.post THEN round \o next ELSE <<Conditional(s.c, round, <<>>)>> \o next
          [] s.k = "looped" ->
               IF s.s.post THEN <<Conditional(s.s.c, <<s.s>>, <<>>)>> \o next ELSE s.s.step \o <<s.s>> \o next
          [] s.k = "for" ->
               <<Call(s.n), NextOf(s.n), WhileLoop(IsValid(s.n), <<ValueOf(s.n)>> \o s.body, <<NextOf(s.n)>>, FALSE), ResetOf(s.n)>> \o next
          [] s.k = "try" -> s.body \o <<[k |-> "tried", handler |-> s.handler]>> \o next
          [] s.k = "tried" -> next
          [] s.k = "break" -> Beyond("looped", next)
          [] s.k = "continue" -> From("looped", next)

\* F(x), with x evaluated once.
Of(F(_), x) == CHOOSE y \in {F(z) : z \in {x}} : TRUE

RECURSIVE Settle(_)
Settle(frames) == IF Head(frames).k \in Silent THEN Of(Settle, Unfold(frames)) ELSE frames

\* A constructor first calls its super constructor, then installs its virtual table.
Start(f) ==
    Of(Settle, (IF f.super THEN <<Call("super")>> ELSE <<>>)
           \o (IF f.vtable THEN <<Mark("vtable")>> ELSE <<>>) \o f.body \o <<Mark("end")>>)

\* What may happen next.
Offers(frames) ==
    IF frames = <<>> THEN {}
    ELSE LET s == Head(frames)
         IN  CASE s.k = "call" -> {<<"call", s.n>>} \cup Thrown(s.n, frames)
               [] s.k = "throw" -> Thrown("throw", frames)
               [] s.k = "choice" -> {<<"test", s.n, v>> : v \in BOOLEAN}
               [] s.k = "switch" -> {<<"load", s.n, v>> : v \in IF s.fields = 0 THEN Value ELSE {u \in Value : u < s.fields}}
               [] s.k \in {"return", "end", "vtable"} -> {<<s.k>>}

\* What is left after the event e, if it is one that may happen.
After(frames, e) ==
    LET s == Head(frames)
    IN  CASE e \notin Offers(frames) -> frames
          [] e[1] \in {"call", "vtable"} -> Of(Settle, Tail(frames))
          [] e[1] = "threw" -> Of(Settle, Unwind(Tail(frames)))
          [] e[1] = "passed" -> Of(Settle, Beyond("tried", Tail(frames)))
          [] e[1] = "test" -> Of(Settle, (IF e[3] THEN s.yes ELSE s.no) \o Tail(frames))
          [] e[1] = "load" -> Of(Settle, Chosen(s, e[3]) \o Tail(frames))
          [] OTHER -> <<>>
=============================================================================
