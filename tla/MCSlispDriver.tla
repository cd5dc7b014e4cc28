---------------------------- MODULE MCSlispDriver ----------------------------
(***************************************************************************)
(* Model-checking instance of SlispDriver: small expressions over the     *)
(* numerals 0, 1, 2, the symbols a, b and the booleans t, f, and the      *)
(* meaning the evaluator is meant to give them.                           *)
(***************************************************************************)
EXTENDS SlispDriver

T(s) == NewAtom(s, "BASIC")
L(s) == NewList(s)

Num == {T(<<"0">>), T(<<"1">>), T(<<"2">>)}
Sym == {T(<<"a">>), T(<<"b">>)}
Truth == {T(<<"t">>), T(<<"f">>)}

Op(s) == T(s)
ArithWords == {<<"+">>, <<"-">>, <<"*">>}
CmpWords == {<<"=">>, <<"<">>, <<"<", ">">>}

(* Arithmetic and comparisons of two literals, with / and ^ on numerals. *)
Arith1 == {L(<<Op(w), x, y>>) : w \in ArithWords, x, y \in Num}
          \cup {L(<<Op(<<"/">>), x, y>>) : x \in Num, y \in Num \ {T(<<"0">>)}}
          \cup {L(<<Op(<<"^">>), x, y>>) : x, y \in Num}
Cmp1 == {L(<<Op(w), x, y>>) : w \in CmpWords, x, y \in Num \cup Sym}
Not1 == {L(<<Op(<<"n", "o", "t">>), x>>) : x \in Truth}
If1 == {L(<<Op(<<"i", "f">>), c, x, y>>) : c \in Truth, x \in Num, y \in Num}
       \cup {L(<<Op(<<"i", "f">>), c, x>>) : c \in Truth, x \in Num}

(* One compound argument, in either place. *)
NumInner == {L(<<Op(w), x, T(<<"1">>)>>) : w \in ArithWords, x \in Num}
TestInner == {L(<<Op(<<"<">>), x, T(<<"1">>)>>) : x \in Num}
Arith2 == {L(<<Op(w), e, x>>) : w \in ArithWords \cup CmpWords, e \in NumInner, x \in Num}
          \cup {L(<<Op(w), x, e>>) : w \in ArithWords \cup CmpWords, e \in NumInner, x \in Num}
Not2 == {L(<<Op(<<"n", "o", "t">>), e>>) : e \in TestInner}
If2 == {L(<<Op(<<"i", "f">>), e, x, y>>) : e \in TestInner, x \in Num, y \in {T(<<"2">>)}}
       \cup {L(<<Op(<<"i", "f">>), c, e, x>>) : c \in Truth, e \in NumInner \cup TestInner,
                                                x \in {T(<<"2">>)}}

(* Well-typed expressions with at most one compound argument per call.  *)
SafeExprs == Num \cup Sym \cup Arith1 \cup Cmp1 \cup Not1 \cup If1
             \cup Arith2 \cup Not2 \cup If2

(* Two compound arguments in one call. *)
TwoCompound ==
  {L(<<Op(w), e1, e2>>) : w \in {<<"+">>, <<"=">>},
                          e1 \in {L(<<Op(<<"+">>), T(<<"1">>), T(<<"1">>)>>)},
                          e2 \in {L(<<Op(<<"*">>), T(<<"2">>), T(<<"1">>)>>)}}

(* test_expressions: one expression, or two of the literal ones.        *)
OneOf(S) == {<<e>> : e \in S}
SafeInputs == OneOf(SafeExprs) \cup {<<e1, e2>> : e1 \in Arith1, e2 \in Not1}
TwoCompoundInputs == OneOf(TwoCompound)

MCParse(text) == NULL

-----------------------------------------------------------------------------
(* The meaning of an expression, written directly: integer arithmetic,   *)
(* numbers and symbols compared within their kind (across kinds always   *)
(* false, as the evaluator's warning says), not and if on t and f, and an *)
(* if without else giving nil.                                             *)
IsNumber(sx) ==
  LET v == IF sx.val # <<>> /\ Head(sx.val) = "-" THEN Tail(sx.val) ELSE sx.val
  IN sx.ty = "VALUE" /\ v # <<>> /\ \A i \in DOMAIN v : v[i] \in Digits

SymLess(x, y) == x.val[1] = "a" /\ y.val[1] = "b"

NumVal(sx) ==
  LET RECURSIVE V(_, _)
      V(s, acc) == IF s = <<>> THEN acc ELSE V(Tail(s), 10 * acc + DigitVal[Head(s)])
  IN IF Head(sx.val) = "-" THEN -V(Tail(sx.val), 0) ELSE V(sx.val, 0)

Calc(w, a, b) ==
  CASE w = <<"+">> -> a + b [] w = <<"-">> -> a - b [] w = <<"*">> -> a * b
    [] w = <<"/">> -> a \div b [] w = <<"^">> -> IF b = 0 THEN 1 ELSE a ^ b

RECURSIVE Meaning(_)
Meaning(e) ==
  IF e.ty = "VALUE" THEN e
  ELSE LET w == e.list[1].val
           args == [i \in 1..(Len(e.list) - 1) |-> Meaning(e.list[i + 1])]
       IN CASE w = <<"n", "o", "t">> -> Bool(args[1].val = <<"f">>)
            [] w = <<"i", "f">> ->
                 IF args[1].val = <<"t">> THEN args[2]
                 ELSE IF Len(args) = 3 THEN args[3] ELSE NIL
            [] w \in ArithWords \cup {<<"/">>, <<"^">>} ->
                 T(IntText(Calc(w, NumVal(args[1]), NumVal(args[2]))))
            [] IsNumber(args[1]) # IsNumber(args[2]) -> Bool(FALSE)
            [] w = <<"=">> -> Bool(args[1] = args[2])
            [] w = <<"<", ">">> -> Bool(args[1] # args[2])
            [] IsNumber(args[1]) -> Bool(NumVal(args[1]) < NumVal(args[2]))
            [] OTHER -> Bool(SymLess(args[1], args[2]))

(* slisp_eval gives every expression of the contract its meaning. *)
ResultCorrect == phase = "Free" => out # NULL /\ out.sx = Meaning(in)

=============================================================================
