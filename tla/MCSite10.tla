------------------------------- MODULE MCSite10 -------------------------------
(***************************************************************************)
(* Site10 for TLC: texts with an element of each kind, with one that       *)
(* changes on its way, with one that is glued to the comma after it, once  *)
(* as typed and once as reloaded, with a path, and with a file's name.     *)
(***************************************************************************)
EXTENDS Site10

Five == [sign |-> "", whole |-> "plain", frac |-> "none", tail |-> ""]
PlusFive == [Five EXCEPT !.sign = "+"]
MinusZero == [Five EXCEPT !.sign = "-", !.whole = "zero"]
Real == [Five EXCEPT !.frac = "comma"]
MinusReal == [Real EXCEPT !.sign = "-"]
Padded == [Five EXCEPT !.whole = "padded"]
Dotted == [Five EXCEPT !.frac = "dot"]
Dots == [Empty EXCEPT !.frac = "path"]
FiveEnd == [Five EXCEPT !.tail = ",+"] \* "5,+"

MCTexts == {<<Real, PlusFive, Five, MinusReal>>, \* "1,5, +5, 5, -1,5"
            <<MinusZero, Empty, Padded, FiveEnd>>, \* "-0, , 05, 5,+"
            <<Five, Empty>>, \* "5, "
            <<Dots>>, <<Dotted>>}

Symmetry == Permutations(Slots)
=============================================================================
