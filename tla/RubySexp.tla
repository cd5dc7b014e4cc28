------------------------------ MODULE RubySexp ------------------------------
(***************************************************************************)
(* src/ruby/Sexp.c: the Ruby class Sexp.  An object holds @str, @ary and  *)
(* the sexp_t it was made from (DATA_PTR).  Ruby arrays are shared by     *)
(* reference, so they live on a heap (a sequence indexed by array id) and *)
(* an element is an integer, a string, a float or a reference to another *)
(* array.  sexp_new converts a parsed tree with sexp_to_array and         *)
(* infer_sval_type; unparse converts @ary back with sexp_unparse_array,   *)
(* which pops every element off the arrays it walks.                       *)
(*                                                                         *)
(* parse_sexp and print_sexp_cstr belong to the library, which is not in  *)
(* this repository: an input is given as its tree, and printing writes a  *)
(* list in parentheses with its elements separated by one space.          *)
(***************************************************************************)
EXTENDS SexpTree, CLib, Integers, Sequences

CONSTANTS
  Objs,        \* the Ruby objects of class Sexp a program makes
  Inputs       \* trees of the strings passed to Sexp.new; NULL for ""

VARIABLES
  heap,        \* heap[id]: the elements of Ruby array id
  obj,         \* obj[o]: NULL before Sexp.new, else [str, ary, sx]
  synced       \* history: @ary was set by new or unparse, not by setAry

vars == <<heap, obj, synced>>

HexDigits == Digits \cup {"a", "b", "c", "d", "e", "f", "A", "B", "C", "D", "E", "F"}

(* Lines 55-128: infer_sval_type of an atom's text.  ishex is set to 2   *)
(* and tested against 1.                                                   *)
InferSvalType(text) ==
  LET RECURSIVE Scan(_, _, _)
      Scan(c, ishex, sawdecimal) ==
        IF c = <<>>
          THEN IF ishex = 1 THEN "INTEGER"
               ELSE IF sawdecimal = 1 THEN "REAL" ELSE "INTEGER"
        ELSE IF ishex = 1
          THEN IF Head(c) \in HexDigits THEN Scan(Tail(c), ishex, sawdecimal) ELSE "STRING"
        ELSE IF Head(c) = "."
          THEN IF sawdecimal = 0 THEN Scan(Tail(c), ishex, 1) ELSE "STRING"
        ELSE IF Head(c) \in Digits THEN Scan(Tail(c), ishex, sawdecimal) ELSE "STRING"
      isneg == text # <<>> /\ Head(text) = "-"
      c1    == IF isneg THEN Tail(text) ELSE text
      c2    == Tail(c1)
  IN IF c1 # <<>> /\ Head(c1) = "0"
       THEN IF c2 # <<>> /\ Head(c2) \in {"x", "X"}
              THEN IF isneg THEN "STRING"
                   ELSE IF Tail(c2) # <<>> /\ Head(Tail(c2)) \in HexDigits
                          THEN Scan(Tail(c2), 2, 0)
                          ELSE "STRING"
              ELSE Scan(c2, 0, 0)
       ELSE Scan(c1, 0, 0)

(* Lines 156-175: the Ruby value pushed for an atom (aggressive typing). *)
(* strtod's value is kept as the text: no input contains '.'.           *)
Element(text) ==
  CASE InferSvalType(text) = "INTEGER" -> [t |-> "int", v |-> Atoi(text)]
    [] InferSvalType(text) = "REAL"    -> [t |-> "real", txt |-> text]
    [] OTHER                           -> [t |-> "str", txt |-> text]

(* Lines 145-181: sexp_to_array of a chain of siblings; the array is    *)
(* made first and each nested list's array is pushed when it is done.   *)
RECURSIVE ToArray(_, _), Fill(_, _, _)
ToArray(chain, h) == Fill(chain, Len(h) + 1, Append(h, <<>>))
Fill(chain, id, h) ==
  IF chain = <<>> THEN [id |-> id, heap |-> h]
  ELSE LET s == Head(chain)
       IN IF s.ty = "LIST"
            THEN LET r == ToArray(s.list, h)
                 IN Fill(Tail(chain), id,
                         [r.heap EXCEPT ![id] = Append(@, [t |-> "ary", id |-> r.id])])
            ELSE Fill(Tail(chain), id, [h EXCEPT ![id] = Append(@, Element(s.val))])

(* Lines 244-352: shift every element off the array, building a list;   *)
(* nested arrays are emptied by the recursive call.  A float element    *)
(* cannot arise from the inputs.                                         *)
RECURSIVE UnparseArray(_, _), Shift(_, _, _)
UnparseArray(id, h) == Shift(id, h, <<>>)
Shift(id, h, kids) ==
  IF h[id] = <<>> THEN [tree |-> NewList(kids), heap |-> h]
  ELSE LET v  == Head(h[id])
           h1 == [h EXCEPT ![id] = Tail(@)]
       IN CASE v.t = "ary" ->
                 LET r == UnparseArray(v.id, h1)
                 IN Shift(id, r.heap, Append(kids, r.tree))
            [] v.t = "int" -> Shift(id, h1, Append(kids, NewAtom(IntText(v.v), "BASIC")))
            [] v.t = "str" -> Shift(id, h1, Append(kids, NewAtom(v.txt, "BASIC")))

(* print_sexp_cstr, as assumed above. *)
RECURSIVE PrintSexpCstr(_)
PrintSexpCstr(sx) ==
  IF sx.ty = "VALUE" THEN sx.val
  ELSE LET RECURSIVE Join(_)
           Join(k) == IF k = <<>> THEN <<>>
                      ELSE PrintSexpCstr(Head(k)) \o (IF Tail(k) = <<>> THEN <<>> ELSE <<" ">>)
                             \o Join(Tail(k))
       IN <<"(">> \o Join(sx.list) \o <<")">>

Init ==
  /\ heap = <<>>
  /\ obj = [o \in Objs |-> NULL]
  /\ synced = [o \in Objs |-> FALSE]

(* Lines 186-237: sexp_new and sexp_init.  A top-level list gives the    *)
(* array of its elements, an atom a one-element array, "" an empty one. *)
New(o, sx) ==
  /\ obj[o] = NULL
  /\ LET r == CASE sx = NULL       -> [id |-> Len(heap) + 1, heap |-> Append(heap, <<>>)]
                [] sx.ty = "LIST"  -> ToArray(sx.list, heap)
                [] OTHER           -> ToArray(<<sx>>, heap)
     IN /\ heap' = r.heap
        /\ obj' = [obj EXCEPT ![o] = [str |-> IF sx = NULL THEN <<>> ELSE PrintSexpCstr(sx),
                                       ary |-> r.id, sx |-> sx]]
  /\ synced' = [synced EXCEPT ![o] = TRUE]

(* Lines 360-399: unparse @ary into a new sexp_t, print it into @str and *)
(* replace the object's sexp_t; @ary itself is left as the shifts left it. *)
Unparse(o) ==
  /\ obj[o] # NULL
  /\ LET r == UnparseArray(obj[o].ary, heap)
     IN /\ heap' = r.heap
        /\ obj' = [obj EXCEPT ![o].str = PrintSexpCstr(r.tree), ![o].sx = r.tree]
  /\ synced' = [synced EXCEPT ![o] = TRUE]

(* Lines 403-412: o.setAry(p.getAry): o's @ary becomes p's array.        *)
SetAry(o, p) ==
  /\ obj[o] # NULL /\ obj[p] # NULL /\ o # p
  /\ obj' = [obj EXCEPT ![o].ary = obj[p].ary]
  /\ synced' = [synced EXCEPT ![o] = FALSE]
  /\ UNCHANGED heap

Next ==
  \/ \E o \in Objs, sx \in Inputs : New(o, sx)
  \/ \E o \in Objs : Unparse(o)
  \/ \E o, p \in Objs : SetAry(o, p)

Spec == Init /\ [][Next]_vars

-----------------------------------------------------------------------------

(* What the atoms mean: decimal integers with an optional '-', hex       *)
(* integers 0x.. with no sign (the comments of infer_sval_type), and any *)
(* other text a string.                                                   *)
HexVal(c) == IF c \in Digits THEN DigitVal[c]
             ELSE CASE c \in {"a", "A"} -> 10 [] c \in {"b", "B"} -> 11
                    [] c \in {"c", "C"} -> 12 [] c \in {"d", "D"} -> 13
                    [] c \in {"e", "E"} -> 14 [] c \in {"f", "F"} -> 15

RECURSIVE HexNum(_, _)
HexNum(s, acc) == IF s = <<>> THEN acc ELSE HexNum(Tail(s), 16 * acc + HexVal(Head(s)))

AllIn(s, S) == s # <<>> /\ \A i \in DOMAIN s : s[i] \in S

Meaning(text) ==
  LET u == IF text # <<>> /\ Head(text) = "-" THEN Tail(text) ELSE text
  IN CASE AllIn(u, Digits) -> [t |-> "int", v |-> Atoi(text)]
       [] Len(text) > 2 /\ text[1] = "0" /\ text[2] \in {"x", "X"}
            /\ AllIn(Tail(Tail(text)), HexDigits) -> [t |-> "int", v |-> HexNum(Tail(Tail(text)), 0)]
       [] OTHER -> [t |-> "str", txt |-> text]

RECURSIVE Deep(_), Described(_)
Deep(id) == [i \in DOMAIN heap[id] |->
               IF heap[id][i].t = "ary" THEN Deep(heap[id][i].id) ELSE heap[id][i]]
Described(chain) == [i \in DOMAIN chain |->
                       IF chain[i].ty = "LIST" THEN Described(chain[i].list)
                       ELSE Meaning(chain[i].val)]

(* sexp_new's comment: @ary is "the array representing" the s-expression *)
(* in ruby space.  Whenever new or unparse last set an object's @ary, its *)
(* elements, nested arrays followed, are the meanings of the atoms of the *)
(* object's sexp_t, in order.                                             *)
AryRepresentsSx ==
  \A o \in Objs :
    obj[o] # NULL /\ synced[o] =>
      Deep(obj[o].ary) = CASE obj[o].sx = NULL       -> <<>>
                           [] obj[o].sx.ty = "LIST"  -> Described(obj[o].sx.list)
                           [] OTHER                  -> Described(<<obj[o].sx>>)

=============================================================================
