------------------------------ MODULE SexpTree ------------------------------
(***************************************************************************)
(* The tree both parsers build (sexpr_t of sexpr.h, constructed by newatom *)
(* and newlist in src/src/backup/parser_new.c and inline in parser_old.c): *)
(* a linked chain of sibling cells is modelled as the sequence of its      *)
(* nodes, and a frame of the parse stack (parse_data_t, fst .. lst) as the *)
(* sequence of the nodes appended to it so far.                            *)
(***************************************************************************)
EXTENDS Naturals, Sequences

CONSTANTS
  NULL,       \* the null pointer
  Garbage     \* the value of an uninitialized pointer (undefined behaviour)

(* Atom types of the tree (aty); the old parser only makes untyped atoms, *)
(* which the model gives the type "BASIC".                                 *)
AtomTypes == {"BASIC", "DQUOTE", "SQUOTE"}

NewAtom(text, aty) == [ty |-> "VALUE", aty |-> aty, val |-> text]

NewList(children) == [ty |-> "LIST", list |-> children]

(* data->fst of a frame: its first node, or NULL when it is empty. *)
Fst(frame) == IF frame = <<>> THEN NULL ELSE frame[1]

(* A well-formed tree over the characters Chars. *)
RECURSIVE IsNode(_, _)
IsNode(n, Chars) ==
  \/ /\ DOMAIN n = {"ty", "aty", "val"}
     /\ n.ty = "VALUE" /\ n.aty \in AtomTypes /\ n.val \in Seq(Chars)
  \/ /\ DOMAIN n = {"ty", "list"}
     /\ n.ty = "LIST" /\ \A i \in DOMAIN n.list : IsNode(n.list[i], Chars)

=============================================================================
