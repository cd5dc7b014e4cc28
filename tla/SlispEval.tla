------------------------------ MODULE SlispEval ------------------------------
(***************************************************************************)
(* slisp_eval.c and slisp_util.c: the evaluator of the example Lisp, as    *)
(* mutually recursive operators.  An evaluation threads a state           *)
(* st = [mm, fresh, uninit] through the calls: mm is the checkpoint list  *)
(* of SlispMemman, which MEM_CHECKPOINT and FREE_CHECKPOINT change where   *)
(* the code calls them, fresh is the next address malloc returns for a    *)
(* sexp_t, and uninit records a destroy_sexp of a node whose next was     *)
(* never written.  Each call returns [res, st] where res is NULL (the code's *)
(* error return), "Crash" (a NULL dereference, a failed assert or a       *)
(* division by zero), or the result [sx, addr]: its tree and address.     *)
(*                                                                         *)
(* Atom text is a sequence of one-character strings.  Atoms with '.' and  *)
(* the sqrt operator need floating point and are not modelled: derive_type *)
(* still sees '.', but no modelled input contains one.                    *)
(***************************************************************************)
EXTENDS SlispMemman, CLib, Integers

CONSTANT ParseSexp(_)   \* parse_sexp of a quoted atom's text

(* Character codes, for strcmp. *)
Code(c) == CASE c = "-" -> 45 [] c = "." -> 46 [] c \in Digits -> 48 + DigitVal[c]
             [] c = "a" -> 97 [] c = "b" -> 98 [] c = "f" -> 102 [] c = "i" -> 105
             [] c = "l" -> 108 [] c = "n" -> 110 [] c = "t" -> 116 [] OTHER -> 0

(* strcmp, reduced to its sign. *)
RECURSIVE Strcmp(_, _)
Strcmp(s, u) ==
  CASE s = <<>> /\ u = <<>> -> 0
    [] s = <<>> -> -1
    [] u = <<>> -> 1
    [] Code(Head(s)) # Code(Head(u)) -> IF Code(Head(s)) < Code(Head(u)) THEN -1 ELSE 1
    [] OTHER -> Strcmp(Tail(s), Tail(u))

(* slisp_util.c lines 116-139: tokenize. *)
OpTable ==
  {<<<<"+">>, "PLUS">>, <<<<"-">>, "MINUS">>, <<<<"*">>, "MULT">>,
   <<<<"/">>, "DIVIDE">>, <<<<"^">>, "EXP">>, <<<<"=">>, "EQ">>,
   <<<<">">>, "GT">>, <<<<"<">>, "LT">>, <<<<"<", "=">>, "LEQ">>,
   <<<<">", "=">>, "GEQ">>, <<<<"<", ">">>, "NE">>, <<<<"i", "f">>, "IF">>,
   <<<<"n", "o", "t">>, "NOT">>, <<<<"c", "d", "r">>, "CDR">>,
   <<<<"c", "a", "r">>, "CAR">>, <<<<"m", "a", "p">>, "MAP">>,
   <<<<"c", "o", "n", "s">>, "CONS">>, <<<<"f", "o", "l", "d">>, "FOLD">>,
   <<<<"s", "o", "r", "t">>, "SORT">>,
   <<<<"l", "a", "m", "b", "d", "a">>, "LAMBDA">>}

Tokenize(sx) ==
  IF sx.ty # "VALUE" \/ ~\E p \in OpTable : p[1] = sx.val THEN "UNKNOWN"
  ELSE (CHOOSE p \in OpTable : p[1] = sx.val)[2]

(* slisp_util.c lines 141-167: derive_type. *)
DeriveType(sx) ==
  LET RECURSIVE Scan(_, _)
      Scan(p, ty) == IF p = <<>> \/ ty = "STRING" THEN ty
                     ELSE Scan(Tail(p),
                               CASE Head(p) = "." -> IF ty = "INT" THEN "FLOAT" ELSE "STRING"
                                 [] Head(p) \in Digits -> ty
                                 [] OTHER -> "STRING")
  IN IF sx.ty = "LIST" THEN "SEXP"
     ELSE Scan(IF sx.val # <<>> /\ Head(sx.val) = "-" THEN Tail(sx.val) ELSE sx.val, "INT")

Bool(b) == NewAtom(IF b THEN <<"t">> ELSE <<"f">>, "BASIC")

(* val_allocated > 1 && val[1] == '\0': an atom of one character. *)
OneChar(sx) == sx.ty = "VALUE" /\ Len(sx.val) = 1

(* C's int division truncates toward zero; pow of ints through double,    *)
(* converted back to int (a zero base with a negative exponent gives an   *)
(* infinity, which the x86-64 conversion turns into INT_MIN).             *)
AbsInt(a) == IF a < 0 THEN -a ELSE a
CDiv(a, b) == IF (a >= 0) = (b >= 0) THEN AbsInt(a) \div AbsInt(b)
              ELSE -(AbsInt(a) \div AbsInt(b))
IntMin == -2147483647 - 1
Pow(a, b) ==
  IF b = 0 THEN 1 ELSE IF b > 0 THEN a ^ b
  ELSE CASE a = 1 -> 1
         [] a = -1 -> IF b % 2 = 0 THEN 1 ELSE -1
         [] a = 0 -> IntMin
         [] OTHER -> 0

(* Mutant: subtraction with its operands swapped. *)
ArithSwapped(op, a, b) ==
  CASE op = "PLUS" -> a + b [] op = "MINUS" -> b - a [] op = "MULT" -> a * b
    [] op = "DIVIDE" -> CDiv(a, b) [] op = "EXP" -> Pow(a, b)

(* ARITH_OPERATOR and COMPARE_OPERATOR. *)
Arith(op, a, b) ==
  CASE op = "PLUS" -> a + b [] op = "MINUS" -> a - b [] op = "MULT" -> a * b
    [] op = "DIVIDE" -> CDiv(a, b) [] op = "EXP" -> Pow(a, b)

Compare(op, a, b) ==
  CASE op = "EQ" -> a = b [] op = "NE" -> a # b [] op = "GT" -> a > b
    [] op = "LT" -> a < b [] op = "GEQ" -> a >= b [] op = "LEQ" -> a <= b

-----------------------------------------------------------------------------
(* Results and the state threaded through an evaluation.  nx says that  *)
(* the result's next pointer was written; a node of the input has one.   *)
Res(sx, a) == [kind |-> "ok", sx |-> sx, addr |-> a, nx |-> TRUE]
NullRes == [kind |-> "null", sx |-> NULL, addr |-> NULL, nx |-> TRUE]
CrashRes == [kind |-> "crash", sx |-> NULL, addr |-> NULL, nx |-> TRUE]

Ret(r, st) == [res |-> r, st |-> st]
Fail(st) == Ret(NullRes, st)
Crash(st) == Ret(CrashRes, st)

(* malloc of a sexp_t followed by MEM_CHECKPOINT; nx as the constructor *)
(* leaves the node's next.                                                 *)
Alloc(tree, nx, st) ==
  Ret([Res(tree, st.fresh) EXCEPT !.nx = nx],
      [st EXCEPT !.mm = AddCP(@, st.fresh), !.fresh = @ + 1])

(* new_sexp_atom (the library's, which links nothing) with MEM_CHECKPOINT, *)
(* and SX_NIL without it.                                                 *)
Checked(tree, st) == Alloc(tree, TRUE, st)
Unchecked(tree, st) == Ret(Res(tree, st.fresh), [st EXCEPT !.fresh = @ + 1])

(* new_sexp_bool: malloc, MEM_CHECKPOINT, ty, aty and val; next and list *)
(* are never written.                                                      *)
NewBool(b, st) == Alloc(Bool(b), FALSE, st)

(* deep_copy_sexp with MEM_CHECKPOINT: an atom's copy gets ty, aty and    *)
(* its text but no next; a list's copy gets copies of its list and next.  *)
DeepCopy(tree, st) == Alloc(tree, tree.ty = "LIST", st)

(* destroy_sexp(x); FREE_CHECKPOINT(x); when the flag is set.  destroy_sexp *)
(* follows x->next, so a result whose next was never written is read.      *)
ReleaseIf(b, r, st) ==
  IF b THEN [st EXCEPT !.mm = FreeCP(@, r.addr), !.uninit = @ \/ ~r.nx] ELSE st

NIL == NewAtom(<<"n", "i", "l">>, "BASIC")

CompareOps == {"EQ", "GT", "LT", "NE", "GEQ", "LEQ"}
ArithOps == {"PLUS", "MINUS", "MULT", "DIVIDE", "EXP"}

-----------------------------------------------------------------------------
RECURSIVE EvalX(_, _), EvalPair(_, _), EvalBinop(_, _, _),
          EvalBinarith(_, _, _), EvalNot(_, _), EvalConditional(_, _),
          EvalListop(_, _, _)

(* _slisp_eval, lines 393-538. *)
EvalX(sx, st) ==
  IF sx.ty = "VALUE" THEN DeepCopy(sx, st)
  ELSE IF sx.list = <<>> THEN Crash(st)
  ELSE LET op == Tokenize(sx.list[1])
       IN CASE op \in CompareOps -> EvalBinop(sx, op, st)
            [] op = "NOT" -> EvalNot(sx, st)
            [] op \in ArithOps -> EvalBinarith(sx, op, st)
            [] op \in {"CONS", "CDR", "CAR"} -> EvalListop(sx, op, st)
            [] op = "IF" -> EvalConditional(sx, st)
            [] OTHER -> Fail(st)

(* The argument handling shared by eval_binop and eval_binarith: the     *)
(* types are derived first, a list argument is evaluated in place, and a *)
(* NULL result crashes in derive_type.                                    *)
EvalPair(sx, st) ==
  LET a1 == sx.list[2]
      a2 == sx.list[3]
      re1 == DeriveType(a1) = "SEXP"
      re2 == DeriveType(a2) = "SEXP"
      e1 == IF re1 THEN EvalX(a1, st) ELSE Ret(Res(a1, NULL), st)
  IN IF e1.res.kind # "ok" THEN [ok |-> FALSE, st |-> e1.st]
     ELSE LET e2 == IF re2 THEN EvalX(a2, e1.st) ELSE Ret(Res(a2, NULL), e1.st)
          IN IF e2.res.kind # "ok" THEN [ok |-> FALSE, st |-> e2.st]
             ELSE [ok |-> TRUE, r1 |-> e1.res, r2 |-> e2.res,
                   re1 |-> re1, re2 |-> re2, st |-> e2.st]

(* eval_binop, lines 153-258. *)
EvalBinop(sx, op, st) ==
  IF Len(sx.list) < 3 THEN Fail(st)
  ELSE LET e == EvalPair(sx, st)
       IN IF ~e.ok THEN Crash(e.st)
          ELSE LET t1 == DeriveType(e.r1.sx)
                   t2 == DeriveType(e.r2.sx)
                   freed == ReleaseIf(e.re2, e.r2, ReleaseIf(e.re1, e.r1, e.st))
               IN CASE t1 # t2 -> NewBool(FALSE, e.st)
                    [] t1 = "INT" ->
                         NewBool(Compare(op, Atoi(e.r1.sx.val), Atoi(e.r2.sx.val)), freed)
                    [] t1 = "STRING" ->
                         NewBool(Compare(op, Strcmp(e.r1.sx.val, e.r2.sx.val), 0), freed)
                    [] t1 = "SEXP" -> NewBool(FALSE, e.st)

(* eval_binarith, lines 261-350. *)
EvalBinarith(sx, op, st) ==
  IF Len(sx.list) < 3 THEN Fail(st)
  ELSE LET e == EvalPair(sx, st)
       IN IF ~e.ok THEN Crash(e.st)
          ELSE LET t1 == DeriveType(e.r1.sx)
                   t2 == DeriveType(e.r2.sx)
                   freed == ReleaseIf(e.re2, e.r2, ReleaseIf(e.re1, e.r1, e.st))
                   i1 == Atoi(e.r1.sx.val)
                   i2 == Atoi(e.r2.sx.val)
               IN CASE "STRING" \in {t1, t2} -> Fail(e.st)
                    [] "SEXP" \in {t1, t2} -> Fail(e.st)
                    [] t1 = "INT" /\ t2 = "INT" ->
                         IF op = "DIVIDE" /\ i2 = 0 THEN Crash(freed)
                         ELSE Checked(NewAtom(IntText(Arith(op, i1, i2)), "BASIC"), freed)

(* The not operator, lines 381-425. *)
EvalNot(sx, st) ==
  IF Len(sx.list) < 2 THEN Fail(st)
  ELSE LET a == sx.list[2]
           re == a.ty = "LIST"
           e == IF re THEN EvalX(a, st) ELSE Ret(Res(a, NULL), st)
       IN IF e.res.kind = "crash" THEN e
          ELSE IF e.res.kind = "null" THEN Crash(e.st)
          ELSE IF e.res.sx.ty = "LIST" THEN Fail(e.st)
          ELSE IF ~OneChar(e.res.sx) THEN Fail(e.st)
          ELSE CASE e.res.sx.val[1] = "t" -> NewBool(FALSE, ReleaseIf(re, e.res, e.st))
                 [] e.res.sx.val[1] = "f" -> NewBool(TRUE, ReleaseIf(re, e.res, e.st))
                 [] OTHER -> Fail(ReleaseIf(re, e.res, e.st))

(* eval_conditional, lines 98-150.  aty is compared with SEXP_VALUE,     *)
(* which has the value of SEXP_BASIC.                                    *)
EvalConditional(sx, st) ==
  IF Len(sx.list) < 3 THEN Fail(st)
  ELSE LET e == EvalX(sx.list[2], st)
           r == e.res.sx
       IN IF e.res.kind = "crash" THEN e
          ELSE IF e.res.kind = "null" THEN Fail(e.st)
          ELSE IF r.ty = "LIST" \/ r.aty # "BASIC" \/ ~OneChar(r) THEN Fail(e.st)
          ELSE CASE r.val[1] = "t" -> EvalX(sx.list[3], ReleaseIf(TRUE, e.res, e.st))
                 [] r.val[1] = "f" ->
                      IF Len(sx.list) < 4 THEN Unchecked(NIL, ReleaseIf(TRUE, e.res, e.st))
                      ELSE EvalX(sx.list[4], ReleaseIf(TRUE, e.res, e.st))
                 [] OTHER -> Fail(e.st)

(* eval_listop, lines 352-391: car and cdr of a list, or of a quoted     *)
(* atom parsed again; the evaluated argument is never freed, and cdr of  *)
(* a one-element list checkpoints the NULL pointer.                      *)
EvalListop(sx, op, st) ==
  IF op = "CONS" \/ Len(sx.list) < 2 THEN Fail(st)
  ELSE LET e == EvalX(sx.list[2], st)
           r == e.res.sx
           isq == r.ty = "VALUE" /\ r.aty = "SQUOTE"
           l == IF isq THEN ParseSexp(r.val) ELSE r
       IN IF e.res.kind = "crash" THEN e
          ELSE IF e.res.kind = "null" THEN Crash(e.st)
          ELSE IF ~(r.ty = "LIST" \/ isq) THEN Fail(e.st)
          ELSE IF l.ty # "LIST" THEN Fail(e.st)
          ELSE IF l.list = <<>> THEN Crash(e.st)
          ELSE IF op = "CAR" THEN DeepCopy(l.list[1], e.st)
          ELSE IF Len(l.list) < 2 THEN Ret(NullRes, [e.st EXCEPT !.mm = AddCP(@, 0)])
          ELSE DeepCopy(l.list[2], e.st)

(* slisp_eval *)
SlispEval(sx, mm) == EvalX(sx, [mm |-> mm, fresh |-> 1, uninit |-> FALSE])

=============================================================================
