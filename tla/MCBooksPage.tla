----------------------------- MODULE MCBooksPage -----------------------------
(***************************************************************************)
(* BooksPage for TLC: neither browsers nor their requests have an order.   *)
(***************************************************************************)
EXTENDS BooksPage, TLC

Symmetry == Permutations(Browsers) \union Permutations(Slots)
=============================================================================
