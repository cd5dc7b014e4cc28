----------------------------- MODULE MCRubySexp -----------------------------
(***************************************************************************)
(* Model-checking instance of RubySexp: two objects and strings of one or *)
(* two atoms, one nested list, and the empty string.                       *)
(***************************************************************************)
EXTENDS RubySexp

A(s) == NewAtom(s, "BASIC")

(* Atoms every reading agrees on: decimals, a negative, a word. *)
PlainInputs ==
  {NULL, A(<<"1", "2">>),
   NewList(<<A(<<"a", "b">>), A(<<"-", "3">>)>>),
   NewList(<<A(<<"7">>), NewList(<<A(<<"x">>)>>)>>)}

(* Atoms infer_sval_type is unsure of: hex literals and a lone '-'. *)
EdgeInputs ==
  {A(<<"0", "x", "1", "2">>), A(<<"0", "x", "1", "f">>), A(<<"-">>)}

=============================================================================
