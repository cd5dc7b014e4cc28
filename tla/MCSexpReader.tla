---------------------------- MODULE MCSexpReader ----------------------------
(***************************************************************************)
(* Model-checking instance of SexpReader: the documents the caller         *)
(* streams, each with the trees the spec says it denotes and the chunk     *)
(* boundaries a caller may use.                                            *)
(*                                                                         *)
(* GeneratedDocs builds documents from a small grammar of items -- plain   *)
(* atoms, a quoted atom 'a, double-quoted strings (one holding ')' and a  *)
(* space) and raw captures '() and '(()) -- in lists of up to two items   *)
(* items nested two deep, optionally followed by a second expression      *)
(* (b), up to MaxDocLen characters.                                        *)
(***************************************************************************)
EXTENDS SexpReader

CONSTANTS
  MaxDocLen,           \* longest generated document
  QuotedAtomSubtype    \* the atom type the spec gives to 'a

(* An item: its text and the tree node it denotes. *)
Item(text, node) == [text |-> text, node |-> node]

Leaves ==
  { Item(<<"a">>, NewAtom(<<"a">>, "BASIC")),
    Item(<<"a", "b">>, NewAtom(<<"a", "b">>, "BASIC")),
    Item(<<SQ, "a">>, NewAtom(<<"a">>, QuotedAtomSubtype)),
    Item(<<DQ, DQ>>, NewAtom(<<>>, "DQUOTE")),
    Item(<<DQ, ")", " ", DQ>>, NewAtom(<<")", " ">>, "DQUOTE")),
    Item(<<SQ, "(", ")">>, NewAtom(<<"(", ")">>, "SQUOTE")),
    Item(<<SQ, "(", "(", ")", ")">>, NewAtom(<<"(", "(", ")", ")">>, "SQUOTE")) }

UpToTwo(S) == {<<>>} \cup {<<x>> : x \in S} \cup {<<x, y>> : x, y \in S}

(* "(" item " " item ")" *)
ListOf(items) ==
  LET RECURSIVE Spaced(_)
      Spaced(s) == IF Len(s) = 1 THEN s[1].text
                   ELSE s[1].text \o <<" ">> \o Spaced(Tail(s))
  IN Item(<<"(">> \o (IF items = <<>> THEN <<>> ELSE Spaced(items)) \o <<")">>,
          NewList([i \in DOMAIN items |-> items[i].node]))

InnerLists == {ListOf(s) : s \in UpToTwo(Leaves)}

TopLists ==
  {l \in {ListOf(s) : s \in UpToTwo(Leaves \cup InnerLists)} :
     Len(l.text) <= MaxDocLen}

Second == ListOf(<<Item(<<"b">>, NewAtom(<<"b">>, "BASIC"))>>)

(* Boundaries after character p of an expression starting at offset o:    *)
(* after its '(' and the next character, before its last ')'.            *)
Inside(o, e) == (o + 2)..(o + Len(e.text) - 1)

GeneratedDocs ==
  { [text |-> l.text, trees |-> <<l.node>>,
     cuts |-> Inside(0, l) \cup {Len(l.text)}] : l \in TopLists }
  \cup
  { [text |-> l.text \o Second.text, trees |-> <<l.node, Second.node>>,
     cuts |-> Inside(0, l) \cup Inside(Len(l.text), Second)
              \cup {Len(l.text) + Len(Second.text)}] :
      l \in {m \in TopLists : Len(m.text) + 3 <= MaxDocLen} }

(* "(a))": one expression followed by a stray ')'. *)
StrayCloseDocs ==
  { [text |-> <<"(", "a", ")", ")">>,
     trees |-> <<NewList(<<NewAtom(<<"a">>, "BASIC")>>)>>, cuts |-> {4}] }

(* "(-)": an atom starting with a character that is neither a letter, a   *)
(* digit nor '!'; the spec's Start row consumes it into the atom.          *)
DashDocs ==
  { [text |-> <<"(", "-", ")">>,
     trees |-> <<NewList(<<NewAtom(<<"-">>, "BASIC")>>)>>, cuts |-> {3}] }

(* "('"a")": a double-quoted string right after a single quote, which the *)
(* spec's AfterSingleQuote row starts as a string: the atom "a", DQUOTE.  *)
QuotedStringDocs ==
  { [text |-> <<"(", SQ, DQ, "a", DQ, ")">>,
     trees |-> <<NewList(<<NewAtom(<<"a">>, "DQUOTE")>>)>>, cuts |-> {6}] }

=============================================================================
