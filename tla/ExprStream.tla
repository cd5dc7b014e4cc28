----------------------------- MODULE ExprStream -----------------------------
(***************************************************************************)
(* What the continuation parser promises its caller (spec sections 6 and  *)
(* 8): a document is a sequence of top-level expressions, and the caller  *)
(* receives them one at a time, in order, each exactly once, and then     *)
(* learns that the stream is over.  How the text was cut into chunks is   *)
(* invisible at this level.                                                *)
(***************************************************************************)
EXTENDS Naturals, Sequences

CONSTANT Docs          \* documents: records with a field trees

VARIABLES
  doc,         \* the document being streamed
  delivered,   \* the expressions handed to the caller so far
  done         \* the caller has seen the end of the stream

streamVars == <<doc, delivered, done>>

StreamInit == doc \in Docs /\ delivered = <<>> /\ done = FALSE

(* The next top-level expression is complete and handed over. *)
Deliver ==
  /\ ~done /\ Len(delivered) < Len(doc.trees)
  /\ delivered' = Append(delivered, doc.trees[Len(delivered) + 1])
  /\ UNCHANGED <<doc, done>>

(* All expressions have been handed over: the stream ends. *)
EndStream ==
  /\ ~done /\ delivered = doc.trees
  /\ done' = TRUE
  /\ UNCHANGED <<doc, delivered>>

(* A new stream on a fresh continuation. *)
NewStream ==
  /\ done
  /\ doc' \in Docs /\ delivered' = <<>> /\ done' = FALSE

StreamNext == Deliver \/ EndStream \/ NewStream

StreamSpec ==
  StreamInit /\ [][StreamNext]_streamVars
  /\ WF_streamVars(Deliver) /\ WF_streamVars(EndStream)

=============================================================================
