----------------------------- MODULE SexpReader -----------------------------
(***************************************************************************)
(* A caller of the parser: the buffered-reader collaborator of spec 6,     *)
(* which is not part of this repository.  It delivers a document to one   *)
(* continuation in chunks, in order, and after every call takes the        *)
(* completed expression out with last_sexp.  It is a careful caller: when *)
(* cc->lastPos points at unread text of the previous buffer it calls again *)
(* on that buffer before it delivers a new chunk, as the continuation      *)
(* contract requires (several expressions in one buffer are returned one   *)
(* per call).  When the document is exhausted it destroys the continuation *)
(* and starts a new stream.                                                *)
(*                                                                         *)
(* Two choices of the caller are constants, so that a run can state under *)
(* which use of the API a property holds:                                  *)
(*   SafeSplitsOnly: chunk boundaries only where doc.cuts allows them;     *)
(*   ExtractOnlyAtDepth0: last_sexp only after a call that returned with   *)
(*     cc->depth = 0, the caller's test for "an expression is complete".  *)
(***************************************************************************)
EXTENDS SexpParser

CONSTANTS
  Docs,                \* documents: [text, trees, cuts]
  SafeSplitsOnly,
  ExtractOnlyAtDepth0

VARIABLES
  doc,     \* the document of the current stream
  sent,    \* number of its characters delivered so far
  got,     \* the expressions taken out with last_sexp, in order
  phase    \* "Call": next call; "Check": call made; "Done": stream over

vars == <<parserVars, doc, sent, got, phase>>
clientVars == <<doc, sent, got, phase>>

(* cc->lastPos points at text of the previous buffer not yet parsed. *)
HasPending == cc /\ lastPos # NULL /\ lastPos.pos <= Len(lastPos.buf)

Init ==
  /\ ParserInit
  /\ doc \in Docs /\ sent = 0 /\ got = <<>> /\ phase = "Call"

(* Deliver the next k characters as a new buffer. *)
Feed(k) ==
  /\ phase = "Call" /\ ~HasPending
  /\ sent + k <= Len(doc.text)
  /\ SafeSplitsOnly => sent + k \in doc.cuts
  /\ LET str == SubSeq(doc.text, sent + 1, sent + k)
     IN IF cc THEN CParseSexpResume(str) ELSE CParseSexpFresh(str)
  /\ sent' = sent + k /\ phase' = "Check"
  /\ UNCHANGED <<doc, got>>

(* Parse the rest of the previous buffer. *)
Continue ==
  /\ phase = "Call" /\ HasPending
  /\ CParseSexpResume(lastPos.buf)
  /\ phase' = "Check"
  /\ UNCHANGED <<doc, sent, got>>

(* After the call returned: take the completed expression, if any. *)
Check ==
  /\ phase = "Check" /\ pc = "Idle"
  /\ IF ~ExtractOnlyAtDepth0 \/ ContDepth = 0
       THEN /\ LastSexp
            /\ got' = IF last_sexpr # NULL THEN Append(got, last_sexpr) ELSE got
       ELSE UNCHANGED <<parserVars, got>>
  /\ phase' = "Call"
  /\ UNCHANGED <<doc, sent>>

(* End of the stream: nothing left to deliver or to parse. *)
Finish ==
  /\ phase = "Call" /\ ~HasPending /\ sent = Len(doc.text)
  /\ phase' = "Done"
  /\ UNCHANGED <<parserVars, doc, sent, got>>

(* Discard the continuation and start the next stream. *)
Restart ==
  /\ phase = "Done"
  /\ DestroyCont
  /\ doc' \in Docs /\ sent' = 0 /\ got' = <<>> /\ phase' = "Call"

ClientStep ==
  \/ \E k \in 1..Len(doc.text) : Feed(k)
  \/ Continue \/ Check \/ Finish \/ Restart

(* A step of the running call; the caller waits for it to return. *)
ParserMove == ParserStep /\ UNCHANGED clientVars

Next == ClientStep \/ ParserMove

(* The loop of cparse_sexp runs until it returns; the caller keeps calling *)
(* until its stream ends.                                                  *)
Spec == Init /\ [][Next]_vars /\ WF_vars(ParserMove) /\ WF_vars(ClientStep)

-----------------------------------------------------------------------------

(* Chunk-boundary invariance and single delivery (spec 8): the expressions *)
(* the caller takes out of the continuation are the document's top-level   *)
(* expressions, in order, each once, however the document was cut into    *)
(* chunks; when the stream ends, all of them have been taken out.          *)
ExtractedInOrder ==
  /\ IsPrefix(got, doc.trees)
  /\ phase = "Done" => got = doc.trees

(* The caller of the parser implements the abstract expression stream:   *)
(* every step of cparse_sexp, last_sexp and destroy_cont either leaves the *)
(* expressions received unchanged or adds the next one of the document,   *)
(* the stream ends only when all have been received, and -- every call of *)
(* cparse_sexp returning -- each expression and the end are eventually    *)
(* received.                                                               *)
Stream == INSTANCE ExprStream WITH delivered <- got, done <- (phase = "Done")

StreamRefined == Stream!StreamSpec

=============================================================================
