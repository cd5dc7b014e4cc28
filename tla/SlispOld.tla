------------------------------ MODULE SlispOld ------------------------------
(***************************************************************************)
(* src/examples/slisp/OLD: the first slisp, with a store of variables      *)
(* (slisp_store.c), an evaluator with lambda (slisp_eval.c) and a driver   *)
(* (driver.c).  slisp_eval evaluates a copy of the expression against a   *)
(* new store and destroys the store afterwards.                            *)
(*                                                                         *)
(* The copy is the tree root; a node of it is named by its path (the list *)
(* indices from the root), so a free of a node can be told from a second  *)
(* free of the same node.  Only nodes of the copy are followed: every      *)
(* result is a fresh copy or a new node, so no other node is freed twice. *)
(* destroy_sexp frees a node, its list and its next siblings, as the      *)
(* code's own sx->next = NULL before destroy_sexp(sx) (line 625) assumes. *)
(*                                                                         *)
(* The store's get_variable reads tv->entered_depth and tv->shadowed and   *)
(* the evaluator store->scope_depth, fields slisp_store.h does not        *)
(* declare; set_variable never makes a shadowed entry, so a lookup is the *)
(* first entry with the name.  Reals are printed with %f from exact       *)
(* rationals; every real an input produces has a short decimal expansion. *)
(***************************************************************************)
EXTENDS SlispEval

-----------------------------------------------------------------------------
(* Nodes of the copy. *)

RECURSIVE At(_, _)
At(t, p) == IF p = <<>> THEN t ELSE At(t.list[Head(p)], Tail(p))

RECURSIVE Paths(_)
Paths(t) == {<<>>} \cup IF t.ty = "VALUE" THEN {}
                        ELSE UNION {{<<i>> \o q : q \in Paths(t.list[i])} : i \in DOMAIN t.list}

(* The nodes destroy_sexp frees from p: p's subtree, and with keepNext the *)
(* subtrees of the siblings after it.                                      *)
Destroyed(root, p, keepNext) ==
  LET Under(q) == {q \o r : r \in Paths(At(root, q))}
  IN IF p = <<>> \/ ~keepNext THEN Under(p)
     ELSE LET par == Front(p)
          IN UNION {Under(par \o <<j>>) : j \in Last(p)..Len(At(root, par).list)}

(* st = [root, vmap, freed, df]: the copy, the varmap list of the store,   *)
(* the nodes freed so far, and whether one was freed twice.                *)
FreeNodes(st, S) == [st EXCEPT !.freed = @ \cup S, !.df = @ \/ (S \cap st.freed # {})]

-----------------------------------------------------------------------------
(* strtod of the text of an INT or FLOAT atom, as an exact rational. *)
Strtod(text) ==
  LET neg  == text # <<>> /\ Head(text) = "-"
      u    == IF neg THEN Tail(text) ELSE text
      dot  == {i \in DOMAIN u : u[i] = "."}
      ip   == IF dot = {} THEN u ELSE SubSeq(u, 1, Min(dot) - 1)
      fp   == IF dot = {} THEN <<>> ELSE SubSeq(u, Min(dot) + 1, Len(u))
      mag  == Atoi(ip) * 10 ^ Len(fp) + Atoi(fp)
  IN [n |-> IF neg THEN -mag ELSE mag, d |-> 10 ^ Len(fp)]

(* sprintf("%f") of n/d (d > 0), rounded to six places; negz prints the *)
(* sign of a negative zero.                                               *)
FixedText(n, d, negz) ==
  LET m    == (2 * AbsInt(n) * 1000000 + d) \div (2 * d)
      frac == Tail(IntText(1000000 + (m % 1000000)))
  IN (IF n < 0 \/ negz THEN <<"-">> ELSE <<>>)
       \o IntText(m \div 1000000) \o <<".">> \o frac

-----------------------------------------------------------------------------
(* slisp_store.c *)

(* Lines 68-92: get_variable; the first entry with the name, or NULL. *)
GetVariable(name, st) ==
  LET hits == {i \in DOMAIN st.vmap : st.vmap[i].name = name}
  IN IF hits = {} THEN NULL ELSE st.vmap[Min(hits)].at

(* Lines 14-60: set_variable.  A new name is appended.  On a match the    *)
(* loop destroys the old value and stores sx, but neither advances v nor  *)
(* breaks: the next pass matches again and destroys sx, and so on, so the *)
(* call never returns and sx is freed again on every pass.  The caller    *)
(* has cut sx->next for the call; the old value's next is restored.       *)
SetVariable(name, p, st) ==
  LET hits == {i \in DOMAIN st.vmap : st.vmap[i].name = name}
  IN IF hits = {}
       THEN [hang |-> FALSE, st |-> [st EXCEPT !.vmap = Append(@, [name |-> name, at |-> p])]]
       ELSE LET s1 == FreeNodes(st, Destroyed(st.root, st.vmap[Min(hits)].at, TRUE))
                s2 == FreeNodes(s1, Destroyed(st.root, p, FALSE))
            IN [hang |-> TRUE, st |-> FreeNodes(s2, Destroyed(st.root, p, FALSE))]

(* Lines 143-151: init_store, for the copy root. *)
InitStore(root) == [root |-> root, vmap |-> <<>>, freed |-> {}, df |-> FALSE]

(* Lines 188-211: destroy_store; destroy_varmap frees the rest of the list *)
(* first and then the entry's value, with the value's next siblings.       *)
DestroyStore(st) ==
  LET DestroyVarmap(e, s) == FreeNodes(s, Destroyed(s.root, e.at, TRUE))
  IN [FoldRight(DestroyVarmap, st.vmap, st) EXCEPT !.vmap = <<>>]

-----------------------------------------------------------------------------
(* slisp_eval.c: the token and type of an atom are those of slisp_util.c  *)
(* (lines 96-152 are the same code).                                      *)
OldTokenize(sx) == Tokenize(sx)
OldDeriveType(sx) == DeriveType(sx)

(* Results: a tree, NULL, a crash (a NULL dereference or a failed assert) *)
(* or a call that never returns.                                           *)
OK(sx, st) == [kind |-> "ok", sx |-> sx, st |-> st]
Null(st) == [kind |-> "null", sx |-> NULL, st |-> st]
Crashed(st) == [kind |-> "crash", sx |-> NULL, st |-> st]
Hung(st) == [kind |-> "hang", sx |-> NULL, st |-> st]
Stops(r) == r.kind \in {"crash", "hang"}

(* CHECK_NUMERIC_TYPE lets a list through. *)
Rejected(t) == t \in {"INVALID", "STRING"}

(* new_sexp: a value node with list and next NULL; it never sets aty,    *)
(* which the library's sexp_t_allocate is taken to leave SEXP_BASIC.       *)
OldNewSexp(text) == NewAtom(text, "BASIC")

(* new_sexp_list: a list node over the given elements, next NULL. *)
OldNewList(elems) == NewList(elems)

(* sprintf(numbuf, "t" or "f") then new_sexp. *)
OldBool(b) == OldNewSexp(IF b THEN <<"t">> ELSE <<"f">>)

(* strtod values compared, as strcmp's sign. *)
RatCmp(a, b) == IF a.n * b.d < b.n * a.d THEN -1 ELSE IF a.n * b.d = b.n * a.d THEN 0 ELSE 1
NumText(q, negz) == OldNewSexp(FixedText(q.n, q.d, negz))
IntAtom(k) == OldNewSexp(IntText(k))
NegZero(a, b, n) == n = 0 /\ ((a.n < 0) # (b.n < 0))

(* pow of a rational and an integer exponent; a zero base with a negative *)
(* exponent is an infinity, printed "inf".                                 *)
RatPow(q, k) ==
  CASE k = 0 -> [n |-> 1, d |-> 1]
    [] k > 0 -> [n |-> q.n ^ k, d |-> q.d ^ k]
    [] OTHER -> [n |-> (IF q.n < 0 /\ k % 2 = 1 THEN -1 ELSE 1) * q.d ^ (-k),
                 d |-> AbsInt(q.n) ^ (-k)]

(* SQUOTE_EVAL: a quoted atom is parsed into the tree it quotes. *)
Unquote(sx) == IF sx.ty = "VALUE" /\ sx.aty = "SQUOTE" THEN ParseSexp(sx.val) ELSE sx

(* The siblings after node p, which lambda takes as its arguments. *)
After(root, p) == IF p = <<>> THEN {} ELSE Last(p) + 1..Len(At(root, Front(p)).list)

RECURSIVE OldEval(_, _), OldPair(_, _), OldCompare(_, _, _), OldAddSub(_, _, _),
          OldMulDiv(_, _, _), OldExp(_, _), OldSqrt(_, _), OldNot(_, _),
          OldCarCdr(_, _, _), OldCons(_, _), OldIf(_, _), OldLambda(_, _), Bind(_, _, _, _)

(* Lines 215-288 and 632-641: an atom is looked up in the store, twice:   *)
(* the text of its value is looked up again.  A list headed by a list      *)
(* evaluates its head.                                                     *)
OldEval(p, st) ==
  LET n == At(st.root, p)
  IN IF n.ty = "VALUE"
       THEN IF st.vmap = <<>> THEN OK(n, st)
            ELSE LET a == GetVariable(n.val, st)
                 IN IF a = NULL THEN OK(n, st)
                    ELSE IF At(st.root, a).ty = "LIST" THEN Crashed(st)
                    ELSE LET b == GetVariable(At(st.root, a).val, st)
                         IN OK(At(st.root, IF b = NULL THEN a ELSE b), st)
     ELSE IF n.list = <<>> THEN Crashed(st)
     ELSE IF n.list[1].ty = "LIST" THEN OldEval(p \o <<1>>, st)
     ELSE LET op == OldTokenize(n.list[1])
          IN CASE op \in CompareOps -> OldCompare(p, op, st)
               [] op \in {"PLUS", "MINUS"} -> OldAddSub(p, op, st)
               [] op \in {"MULT", "DIVIDE"} -> OldMulDiv(p, op, st)
               [] op = "EXP" -> OldExp(p, st)
               [] op = "SQRT" -> OldSqrt(p, st)
               [] op = "NOT" -> OldNot(p, st)
               [] op \in {"CAR", "CDR"} -> OldCarCdr(p, op, st)
               [] op = "CONS" -> OldCons(p, st)
               [] op = "IF" -> OldIf(p, st)
               [] op = "LAMBDA" -> OldLambda(p, st)
               [] OTHER -> Null(st)

(* Both arguments are evaluated before either is looked at. *)
OldPair(p, st) ==
  LET a == OldEval(p \o <<2>>, st)
  IN IF Stops(a) THEN [stop |-> a]
     ELSE LET b == OldEval(p \o <<3>>, a.st)
          IN IF Stops(b) THEN [stop |-> b]
             ELSE [a |-> a.sx, b |-> b.sx, st |-> b.st]

(* Lines 305-409: a NULL argument crashes derive_type; a list argument    *)
(* gives NULL; arguments of two types are unequal; = and <> compare text, *)
(* the orderings compare text for strings and values for numbers.         *)
OldCompare(p, op, st) ==
  IF Len(At(st.root, p).list) # 3 THEN Null(st)
  ELSE LET e == OldPair(p, st)
       IN IF "stop" \in DOMAIN e THEN e.stop
          ELSE IF e.a = NULL \/ e.b = NULL THEN Crashed(e.st)
          ELSE LET ta == OldDeriveType(e.a)
                   tb == OldDeriveType(e.b)
                   qa == Strtod(e.a.val)
                   qb == Strtod(e.b.val)
                   c  == IF op \in {"EQ", "NE"} \/ ta = "STRING" THEN Strcmp(e.a.val, e.b.val)
                         ELSE RatCmp(qa, qb)
               IN IF ta = "SEXP" \/ tb = "SEXP" THEN Null(e.st)
                  ELSE IF ta # tb THEN OK(OldBool(FALSE), e.st)
                  ELSE OK(OldBool(Compare(op, c, 0)), e.st)

(* Lines 411-437: minus is plus with mult = -1; %f when either argument   *)
(* is real, else %d of atoi.  A list passes CHECK_NUMERIC_TYPE and its     *)
(* NULL text crashes strtod or atoi.                                       *)
OldAddSub(p, op, st) ==
  IF Len(At(st.root, p).list) # 3 THEN Null(st)
  ELSE LET e == OldPair(p, st)
       IN IF "stop" \in DOMAIN e THEN e.stop
          ELSE IF e.a = NULL \/ e.b = NULL THEN Crashed(e.st)
          ELSE LET ta == OldDeriveType(e.a)
                   tb == OldDeriveType(e.b)
                   mult == IF op = "MINUS" THEN -1 ELSE 1
               IN IF Rejected(ta) \/ Rejected(tb) THEN Null(e.st)
                  ELSE IF ta = "SEXP" \/ tb = "SEXP" THEN Crashed(e.st)
                  ELSE IF ta = "FLOAT" \/ tb = "FLOAT"
                    THEN LET qa == Strtod(e.a.val)
                             qb == Strtod(e.b.val)
                         IN OK(NumText([n |-> qa.n * qb.d + mult * qb.n * qa.d, d |-> qa.d * qb.d],
                                       FALSE), e.st)
                  ELSE OK(IntAtom(Atoi(e.a.val) + mult * Atoi(e.b.val)), e.st)

(* Lines 439-476: a NULL argument fails the assert (after dump_store);    *)
(* division by a zero value gives NULL; a quotient is always printed %f,  *)
(* a product of two integers %d.                                           *)
OldMulDiv(p, op, st) ==
  IF Len(At(st.root, p).list) # 3 THEN Null(st)
  ELSE LET e == OldPair(p, st)
       IN IF "stop" \in DOMAIN e THEN e.stop
          ELSE IF e.a = NULL \/ e.b = NULL THEN Crashed(e.st)
          ELSE LET ta == OldDeriveType(e.a)
                   tb == OldDeriveType(e.b)
               IN IF Rejected(ta) \/ Rejected(tb) THEN Null(e.st)
                  ELSE IF ta = "SEXP" \/ tb = "SEXP" THEN Crashed(e.st)
                  ELSE LET qa == Strtod(e.a.val)
                           qb == Strtod(e.b.val)
                           qt == IF qb.n < 0 THEN [n |-> -(qa.n * qb.d), d |-> -(qa.d * qb.n)]
                                 ELSE [n |-> qa.n * qb.d, d |-> qa.d * qb.n]
                           qm == [n |-> qa.n * qb.n, d |-> qa.d * qb.d]
                       IN IF op = "DIVIDE" /\ qb.n = 0 THEN Null(e.st)
                          ELSE IF op = "DIVIDE" THEN OK(NumText(qt, NegZero(qa, qb, qt.n)), e.st)
                          ELSE IF ta = "INT" /\ tb = "INT"
                            THEN OK(IntAtom(Atoi(e.a.val) * Atoi(e.b.val)), e.st)
                          ELSE OK(NumText(qm, NegZero(qa, qb, qm.n)), e.st)

(* Lines 478-505: pow, printed %d of its int conversion when both are     *)
(* integers and the exponent is not negative, else %f.  Every exponent an *)
(* input produces is an integer.                                           *)
OldExp(p, st) ==
  IF Len(At(st.root, p).list) # 3 THEN Null(st)
  ELSE LET e == OldPair(p, st)
       IN IF "stop" \in DOMAIN e THEN e.stop
          ELSE IF e.a = NULL \/ e.b = NULL THEN Crashed(e.st)
          ELSE LET ta == OldDeriveType(e.a)
                   tb == OldDeriveType(e.b)
               IN IF Rejected(ta) \/ Rejected(tb) THEN Null(e.st)
                  ELSE IF ta = "SEXP" \/ tb = "SEXP" THEN Crashed(e.st)
                  ELSE LET qa == Strtod(e.a.val)
                           k  == Strtod(e.b.val).n \div Strtod(e.b.val).d
                           r  == RatPow(qa, k)
                       IN IF k < 0 /\ qa.n = 0 THEN OK(OldNewSexp(<<"i", "n", "f">>), e.st)
                          ELSE IF k >= 0 /\ ta = "INT" /\ tb = "INT" THEN OK(IntAtom(r.n), e.st)
                          ELSE OK(NumText(r, FALSE), e.st)

(* Lines 507-521: sqrt of a non-negative number, printed %f; only perfect *)
(* squares arise from the inputs.                                          *)
OldSqrt(p, st) ==
  IF Len(At(st.root, p).list) # 2 THEN Null(st)
  ELSE LET a == OldEval(p \o <<2>>, st)
       IN IF Stops(a) THEN a
          ELSE IF a.sx = NULL THEN Crashed(a.st)
          ELSE LET ta == OldDeriveType(a.sx)
                   q  == Strtod(a.sx.val)
                   Root(x) == CHOOSE r \in 0..x : r * r = x
               IN IF Rejected(ta) THEN Null(a.st)
                  ELSE IF ta = "SEXP" THEN Crashed(a.st)
                  ELSE IF q.n < 0 THEN Null(a.st)
                  ELSE OK(NumText([n |-> Root(q.n * q.d), d |-> q.d], FALSE), a.st)

(* Lines 289-303: not of a NULL result dereferences it. *)
OldNot(p, st) ==
  IF Len(At(st.root, p).list) # 2 THEN Null(st)
  ELSE LET a == OldEval(p \o <<2>>, st)
       IN IF Stops(a) THEN a
          ELSE IF a.sx = NULL THEN Crashed(a.st)
          ELSE OK(OldBool(~(a.sx.ty = "VALUE" /\ a.sx.val = <<"t">>)), a.st)

(* Lines 523-549: car copies the first element; cdr makes a list of the   *)
(* rest.  Either dereferences the first element of an empty list.          *)
OldCarCdr(p, op, st) ==
  IF Len(At(st.root, p).list) # 2 THEN Null(st)
  ELSE LET a == OldEval(p \o <<2>>, st)
       IN IF Stops(a) THEN a
          ELSE IF a.sx = NULL \/ Unquote(a.sx) = NULL THEN Crashed(a.st)
          ELSE LET l == Unquote(a.sx)
               IN IF l.ty # "LIST" THEN Null(a.st)
                  ELSE IF l.list = <<>> THEN Crashed(a.st)
                  ELSE IF op = "CAR" THEN OK(l.list[1], a.st)
                  ELSE OK(OldNewList(Tail(l.list)), a.st)

(* Lines 551-567: a list whose first element is the first argument and    *)
(* whose rest is the second argument's elements, or the second argument.  *)
OldCons(p, st) ==
  IF Len(At(st.root, p).list) # 3 THEN Null(st)
  ELSE LET e == OldPair(p, st)
       IN IF "stop" \in DOMAIN e THEN e.stop
          ELSE IF e.a = NULL \/ Unquote(e.a) = NULL \/ e.b = NULL \/ Unquote(e.b) = NULL
            THEN Crashed(e.st)
          ELSE LET a == Unquote(e.a)
                   b == Unquote(e.b)
               IN OK(OldNewList(<<a>> \o (IF b.ty = "LIST" THEN b.list ELSE <<b>>)), e.st)

(* Lines 569-587: if with a test and two branches. *)
OldIf(p, st) ==
  IF Len(At(st.root, p).list) # 4 THEN Null(st)
  ELSE LET c == OldEval(p \o <<2>>, st)
       IN IF Stops(c) THEN c
          ELSE IF c.sx = NULL THEN Crashed(c.st)
          ELSE IF c.sx.ty # "VALUE" THEN Null(c.st)
          ELSE OldEval(p \o <<IF c.sx.val = <<"t">> THEN 3 ELSE 4>>, c.st)

(* Lines 605-621: bind the names from element i of the lambda list to the *)
(* arguments from sibling j, until the last element, the body.  A missing *)
(* argument gives NULL; a list as a name fails set_variable's assert.     *)
Bind(p, i, j, st) ==
  LET lam == At(st.root, p)
      arg == Front(p) \o <<j>>
  IN IF i = Len(lam.list) THEN [done |-> TRUE, st |-> st]
     ELSE IF j \notin After(st.root, p) THEN [done |-> FALSE, r |-> Null(st)]
     ELSE IF lam.list[i].ty = "LIST" THEN [done |-> FALSE, r |-> Crashed(st)]
     ELSE LET s == SetVariable(lam.list[i].val, arg, st)
          IN IF s.hang THEN [done |-> FALSE, r |-> Hung(s.st)]
             ELSE Bind(p, i + 1, j + 1, s.st)

(* Lines 589-630: ((lambda x1 .. xn body) a1 .. an).  The arguments are   *)
(* the lambda list's next siblings, bound unevaluated; the body is        *)
(* evaluated, then the lambda list is destroyed with its next cut.         *)
OldLambda(p, st) ==
  IF Len(At(st.root, p).list) < 2 THEN Null(st)
  ELSE LET b == Bind(p, 2, IF p = <<>> THEN 1 ELSE Last(p) + 1, st)
       IN IF ~b.done THEN b.r
          ELSE LET r == OldEval(p \o <<Len(At(st.root, p).list)>>, b.st)
               IN IF Stops(r) THEN r
                  ELSE [r EXCEPT !.st = FreeNodes(@, Destroyed(@.root, p, FALSE))]

(* Lines 644-656: slisp_eval evaluates a copy against a new store, then   *)
(* destroys the store.                                                     *)
OldSlispEval(sx) ==
  LET r == OldEval(<<>>, InitStore(sx))
  IN IF Stops(r) THEN r ELSE [r EXCEPT !.st = DestroyStore(@)]

-----------------------------------------------------------------------------
(* driver.c: read each expression of test_expressions, evaluate it, print *)
(* the result or ERROR, destroy both.  Printing is left out; destroying   *)
(* the expression read and the result frees no node of the copy.          *)

CONSTANT Inputs          \* possible contents of test_expressions

VARIABLES
  input,     \* expressions not read yet
  in,        \* the expression being evaluated
  out,       \* slisp_eval's result, or NULL
  phase,     \* "Eval", "Done", "Crashed" or "Hung"
  df         \* a node of some evaluation was freed twice

vars == <<input, in, out, phase, df>>

(* Line 28: the first read_one_sexp. *)
Init ==
  \E i \in Inputs :
    /\ in = IF i = <<>> THEN NULL ELSE Head(i)
    /\ input = IF i = <<>> THEN <<>> ELSE Tail(i)
    /\ phase = IF i = <<>> THEN "Done" ELSE "Eval"
    /\ out = NULL /\ df = FALSE

(* Lines 29-48: one pass of the loop: slisp_eval, print, destroy, read.   *)
Eval ==
  /\ phase = "Eval"
  /\ LET r == OldSlispEval(in)
     IN /\ df' = (df \/ r.st.df)
        /\ out' = r.sx
        /\ IF r.kind = "crash" THEN phase' = "Crashed" /\ UNCHANGED <<input, in>>
           ELSE IF r.kind = "hang" THEN phase' = "Hung" /\ UNCHANGED <<input, in>>
           ELSE IF input = <<>> THEN phase' = "Done" /\ in' = NULL /\ UNCHANGED input
           ELSE in' = Head(input) /\ input' = Tail(input) /\ UNCHANGED phase

Next == Eval

Spec == Init /\ [][Next]_vars

-----------------------------------------------------------------------------

(* slisp_eval copies the expression and owns the copy and the store: no   *)
(* node of the copy is freed twice, neither by lambda destroying its list  *)
(* nor by set_variable or destroy_store destroying bound arguments.       *)
NoDoubleFree == ~df

=============================================================================
