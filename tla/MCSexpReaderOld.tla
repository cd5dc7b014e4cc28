--------------------------- MODULE MCSexpReaderOld ---------------------------
(***************************************************************************)
(* Model-checking instance of SexpReaderOld: documents of the older       *)
(* parser's grammar (atoms and lists; quotes are atom characters there)   *)
(* with the trees the spec gives them, and the chunk boundaries a caller  *)
(* may use.                                                                *)
(***************************************************************************)
EXTENDS SexpReaderOld

CONSTANT MaxDocLen     \* longest generated document

Item(text, node) == [text |-> text, node |-> node]

Leaves ==
  { Item(<<"a">>, NewAtom(<<"a">>, "BASIC")),
    Item(<<"a", "b">>, NewAtom(<<"a", "b">>, "BASIC")) }

UpToTwo(S) == {<<>>} \cup {<<x>> : x \in S} \cup {<<x, y>> : x, y \in S}

(* "(" item " " item ")" *)
ListOf(items) ==
  LET RECURSIVE Spaced(_)
      Spaced(s) == IF Len(s) = 1 THEN s[1].text
                   ELSE s[1].text \o <<" ">> \o Spaced(Tail(s))
  IN Item(<<"(">> \o (IF items = <<>> THEN <<>> ELSE Spaced(items)) \o <<")">>,
          NewList([i \in DOMAIN items |-> items[i].node]))

InnerLists == {ListOf(s) : s \in UpToTwo(Leaves)}

TopLists ==
  {l \in {ListOf(s) : s \in UpToTwo(Leaves \cup InnerLists)} :
     Len(l.text) <= MaxDocLen}

AtomChar == {"a", "b"}

(* Boundaries after character p where the older parser resumes correctly: *)
(* inside an atom, between an atom and whitespace, and between two ')'.  *)
OldSafeCuts(text) ==
  {p \in 1..(Len(text) - 1) :
     \/ text[p] \in AtomChar /\ text[p + 1] \in AtomChar \cup Whitespace
     \/ text[p] = ")" /\ text[p + 1] = ")"}
  \cup {Len(text)}

Doc(l) == [text |-> l.text, trees |-> <<l.node>>, cuts |-> OldSafeCuts(l.text)]

Second == ListOf(<<Item(<<"b">>, NewAtom(<<"b">>, "BASIC"))>>)

(* One expression, or one followed by (b) with boundaries in the first.  *)
GeneratedDocs ==
  {Doc(l) : l \in TopLists}
  \cup
  { [text |-> l.text \o Second.text, trees |-> <<l.node, Second.node>>,
     cuts |-> OldSafeCuts(l.text)  \cup {Len(l.text) + Len(Second.text)}] :
      l \in {m \in TopLists : Len(m.text) + 3 <= MaxDocLen} }

(* A document with the given text, trees and boundaries. *)
D(text, trees, cuts) == [text |-> text, trees |-> trees, cuts |-> cuts]

A == NewAtom(<<"a">>, "BASIC")
B == NewAtom(<<"b">>, "BASIC")

(* "(a" | ")": a chunk ends inside an atom and the next starts with ')'. *)
CloseAfterCutDocs == { D(<<"(", "a", ")">>, <<NewList(<<A>>)>>, {2, 3}) }

(* "((a)" | "b)": a chunk ends after a ')' and the next starts an atom.  *)
AtomAfterCloseDocs ==
  { D(<<"(", "(", "a", ")", "b", ")">>, <<NewList(<<NewList(<<A>>), B>>)>>, {4, 6}) }

(* "(" | "(a))": a chunk ends right after the first '(' of a stream.      *)
OpenCutDocs ==
  { D(<<"(", "(", "a", ")", ")">>, <<NewList(<<NewList(<<A>>)>>)>>, {1, 5}) }

(* "(a)(b)": two expressions through one continuation. *)
TwoExprDocs ==
  { D(<<"(", "a", ")", "(", "b", ")">>, <<NewList(<<A>>), NewList(<<B>>)>>, {6}) }

(* "(a\()": an escaped paren inside an atom, which the spec decodes to    *)
(* the atom "a(".                                                          *)
EscapeDocs ==
  { D(<<"(", "a", BSL, "(", ")">>, <<NewList(<<NewAtom(<<"a", "(">>, "BASIC")>>)>>, {5}) }

(* "(a) ": an expression followed by whitespace in the same buffer. *)
TrailingSpaceDocs == { D(<<"(", "a", ")", " ">>, <<NewList(<<A>>)>>, {4}) }

=============================================================================
