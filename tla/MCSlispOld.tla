------------------------------ MODULE MCSlispOld ------------------------------
(***************************************************************************)
(* Model-checking instance of SlispOld: test_expressions holding one or   *)
(* two expressions over numerals, arithmetic, comparisons, if, car and    *)
(* lambda applied to one or two arguments.                                *)
(***************************************************************************)
EXTENDS SlispOld

T(s) == NewAtom(s, "BASIC")
L(s) == NewList(s)
Lam(ps) == L(<<T(<<"l", "a", "m", "b", "d", "a">>)>> \o ps)

X == T(<<"x">>)
Y == T(<<"y">>)
Num == {T(<<"1">>), T(<<"2">>)}

(* Expressions without lambda: the store stays empty. *)
Plain ==
  {L(<<T(w), a, b>>) : w \in {<<"+">>, <<"/">>, <<"<">>}, a, b \in Num}
  \cup {L(<<T(<<"i", "f">>), T(<<"t">>), T(<<"1">>), T(<<"2">>)>>),
        L(<<T(<<"c", "a", "r">>), L(<<T(<<"1">>), T(<<"2">>)>>)>>)}

(* ((lambda x body) a) and ((lambda x y body) a b). *)
OneArg == {L(<<Lam(<<X, L(<<T(<<"+">>), X, T(<<"1">>)>>)>>), a>>) : a \in Num}
TwoArg == {L(<<Lam(<<X, Y, L(<<T(<<"*">>), X, Y>>)>>), a, b>>) : a, b \in Num}

(* Two applications binding the same name in one expression. *)
Rebind == {L(<<T(<<"+">>), L(<<Lam(<<X, X>>), T(<<"1">>)>>),
                            L(<<Lam(<<X, X>>), T(<<"2">>)>>)>>)}

(* One expression, or a lambda application followed by another. *)
OneOf(S) == {<<e>> : e \in S}
OldInputs == OneOf(Plain \cup OneArg \cup TwoArg \cup Rebind)
             \cup {<<e1, e2>> : e1 \in OneArg \cup TwoArg, e2 \in Plain}

MCParse(text) == NULL

=============================================================================
