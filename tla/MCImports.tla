----------------------------- MODULE MCImports -----------------------------
(* Every choice of texts for three files, two of the project and one of a    *)
(* package it depends on, from a few imports and functions.                  *)
EXTENDS Imports

Import(package, path, name) == [op |-> "import", package |-> package, path |-> path, name |-> name]
Fn(name, body) == [op |-> "fn", name |-> name, generic |-> FALSE, test |-> FALSE, body |-> body]
C(via, fn) == [via |-> via, fn |-> fn]

A == <<"app", "a">>
Lib == <<"dep", "lib">>

Texts(items, n) == {t \in SeqOf(items, n) : \A i, j \in DOMAIN t : t[i] = t[j] => i = j}

MainTexts == Texts({ Import("pkg", "a", "a"), Import("dep", "lib", "lib"), Import("dep", "lib", "a"),
                     Fn("f", <<C("a", "g")>>), Fn("h", <<C(Local, "f")>>) }, 3) \ {<<>>}
ATexts == Texts({ Import("dep", "lib", "lib"), Import("pkg", "main", "m"), Fn("g", <<C("lib", "k"), C("lib", "k")>>),
                  [Fn("s", <<C(Local, "g")>>) EXCEPT !.test = TRUE] }, 2)
LibTexts == Texts({ Import("pkg", "a", "a"), [Fn("k", <<C(Local, "j")>>) EXCEPT !.generic = TRUE],
                    Fn("j", <<>>), [Fn("u", <<C(Local, "j")>>) EXCEPT !.test = TRUE] }, 2)

MCPrograms ==
  {(MainFile :> m) @@ (A :> a) @@ (Lib :> l) : m \in MainTexts, a \in ATexts, l \in LibTexts}
  \cup {(MainFile :> m) @@ (A :> a) : m \in MainTexts, a \in ATexts}
=============================================================================
