------------------------------- MODULE PySexp -------------------------------
(***************************************************************************)
(* src/python/pysexp.c: pysexp.parse turns a parsed s-expression into      *)
(* Python strings, lists and dicts with iter, iter_list and iter_real_list. *)
(* A Python value is a record: [py |-> "str", s], [py |-> "list", items],  *)
(* [py |-> "dict", d] with d a function from keys to values, or           *)
(* [py |-> "error"]: PyDict_Merge of something that is not a mapping      *)
(* fails, the code ignores the failure, and the call raises; any value    *)
(* built around an error is that error.  parse_sexp belongs to the        *)
(* library: the input is given as its tree, NULL for a failed parse.      *)
(***************************************************************************)
EXTENDS SexpTree, Sequences, SequencesExt

CONSTANT Inputs        \* trees of the strings passed to pysexp.parse

VARIABLES
  in,          \* the tree parse_sexp returned
  result       \* what pysexp.parse returned; NULL before the call

vars == <<in, result>>

PyStr(text) == [py |-> "str", s |-> text]
PyList(items) == IF \E i \in DOMAIN items : items[i].py = "error"
                   THEN [py |-> "error"] ELSE [py |-> "list", items |-> items]
PyError == [py |-> "error"]
IsDict(v) == v.py = "dict"

(* PyDict_SetItemString on a new dict. *)
DictOf(key, v) == IF v.py = "error" THEN PyError ELSE [py |-> "dict", d |-> (key :> v)]

(* PyDict_Merge(dict, sub, 0): keys already in dict keep their value.   *)
Merge(dict, sub) ==
  IF dict.py = "error" \/ ~IsDict(sub) THEN PyError
  ELSE [py |-> "dict",
        d  |-> [k \in DOMAIN dict.d \cup DOMAIN sub.d |->
                  IF k \in DOMAIN dict.d THEN dict.d[k] ELSE sub.d[k]]]

(* Lines 99-108 and 154-163: merge every element into a new dict. *)
MergeAll(vs) == FoldLeft(Merge, [py |-> "dict", d |-> <<>>], vs)

RECURSIVE Iter(_), IterList(_), IterRealList(_)

(* Lines 168-180. *)
Iter(s) == IF s.ty = "LIST" THEN IterList(s.list) ELSE PyStr(s.val)

(* Lines 114-166: alldict starts at 1 and nothing clears it. *)
IterList(chain) ==
  CASE chain = <<>>            -> PyList(<<>>)
    [] Len(chain) = 1          -> Iter(chain[1])
    [] chain[1].ty = "VALUE"   -> DictOf(chain[1].val, IterRealList(Tail(chain)))
    [] OTHER                   -> MergeAll([i \in DOMAIN chain |-> Iter(chain[i])])

(* Lines 72-112: merge only when every element is a dict. *)
IterRealList(chain) ==
  IF Len(chain) = 1 THEN Iter(chain[1])
  ELSE LET vs == [i \in DOMAIN chain |-> Iter(chain[i])]
       IN IF \A i \in DOMAIN vs : IsDict(vs[i]) THEN MergeAll(vs) ELSE PyList(vs)

(* Lines 185-209: Py_None when parse_sexp fails. *)
PysexpParse(sx) == IF sx = NULL THEN [py |-> "none"] ELSE Iter(sx)

Init == in = NULL /\ result = NULL

Parse ==
  /\ result = NULL
  /\ \E sx \in Inputs : in' = sx /\ result' = PysexpParse(sx)

Spec == Init /\ [][Parse]_vars

-----------------------------------------------------------------------------

(* The conventions of the comment at lines 43-63, written directly: a    *)
(* one-element list is its element, a list headed by an atom is a dict   *)
(* from the atom to the rest, and a list whose elements are all dicts is *)
(* their merge; any other list is a Python list.                          *)
RECURSIVE Convention(_), ConventionOfList(_)
ConventionOfList(l) ==
  LET vs == [i \in DOMAIN l |-> Convention(l[i])]
  IN CASE Len(l) = 1 -> vs[1]
       [] Len(l) > 0 /\ \A i \in DOMAIN vs : IsDict(vs[i]) -> MergeAll(vs)
       [] OTHER -> PyList(vs)
Convention(s) ==
  CASE s.ty = "VALUE" -> PyStr(s.val)
    [] s.list # <<>> /\ s.list[1].ty = "VALUE" /\ Len(s.list) > 1 ->
         DictOf(s.list[1].val, ConventionOfList(Tail(s.list)))
    [] OTHER -> ConventionOfList(s.list)

(* pysexp.parse follows the conventions its comment states for every    *)
(* expression it is given.                                                 *)
FollowsConventions == result # NULL /\ in # NULL => result = Convention(in)

=============================================================================
