------------------------------ MODULE MCLines ------------------------------
(* An instance of Lines for TLC: single lines that are long enough for a     *)
(* quoted blank or an escaped quote, and files of a few short lines.         *)
EXTENDS Lines

Texts(chars, length) == UNION {[1..n -> chars] : n \in 0..length}

SmallInputs ==
  {<<text>> : text \in Texts(Chars \ {Return}, 5)}
    \union [1..2 -> Texts(Chars \ {Return}, 2)]
    \union [1..3 -> Texts({Backslash, Quote, Comment, "w"}, 2)]
    \union [1..2 -> Texts({Backslash, Blank, Return, "w"}, 3)]

=============================================================================
