------------------------------ MODULE MCPySexp ------------------------------
(***************************************************************************)
(* Model-checking instance of PySexp: every expression of up to three    *)
(* elements over the atoms a and b, whose elements are atoms or lists of  *)
(* up to two atoms.                                                        *)
(***************************************************************************)
EXTENDS PySexp

Atoms == {NewAtom(<<"a">>, "BASIC"), NewAtom(<<"b">>, "BASIC")}
Inner == {NewList(s) : s \in UNION {[1..n -> Atoms] : n \in 0..2}}
Exprs == Atoms \cup {NewList(s) : s \in UNION {[1..n -> Atoms \cup Inner] : n \in 0..3}}

=============================================================================
