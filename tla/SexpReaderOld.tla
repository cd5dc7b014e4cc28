---------------------------- MODULE SexpReaderOld ----------------------------
(***************************************************************************)
(* The caller of SexpReader (the buffered reader of spec 6) over the older *)
(* parser of parser_old.c, which has the same entry points.  Besides the  *)
(* careful use of SexpReader it may use a continuation for one expression *)
(* only, as parse_sexp does (ContPerExpr): once it has taken an expression *)
(* out it destroys the continuation and parses the rest of that buffer,  *)
(* read from cc->lastPos, on a fresh one.                                 *)
(***************************************************************************)
EXTENDS SexpParserOld

CONSTANTS
  Docs,                \* documents: [text, trees, cuts]
  SafeSplitsOnly,
  ExtractOnlyAtDepth0,
  ContPerExpr

VARIABLES
  doc, sent, got, phase,
  rest     \* text of the last buffer still to parse on a fresh continuation

vars == <<parserVars, doc, sent, got, phase, rest>>
clientVars == <<doc, sent, got, phase, rest>>

(* cc->lastPos points at text of the previous buffer not yet parsed. *)
PendingInCont == cc /\ lastPos # NULL /\ lastPos.pos <= Len(lastPos.buf)

HasPending == PendingInCont \/ rest # <<>>

Init ==
  /\ ParserInit
  /\ doc \in Docs /\ sent = 0 /\ got = <<>> /\ phase = "Call" /\ rest = <<>>

Feed(k) ==
  /\ phase = "Call" /\ ~HasPending
  /\ sent + k <= Len(doc.text)
  /\ SafeSplitsOnly => sent + k \in doc.cuts
  /\ LET str == SubSeq(doc.text, sent + 1, sent + k)
     IN IF cc THEN CParseSexpResume(str) ELSE CParseSexpFresh(str)
  /\ sent' = sent + k /\ phase' = "Check"
  /\ UNCHANGED <<doc, got, rest>>

(* Parse the rest of the previous buffer, on the same continuation or on  *)
(* a fresh one.                                                            *)
Continue ==
  /\ phase = "Call" /\ HasPending
  /\ IF rest # <<>>
       THEN CParseSexpFresh(rest) /\ rest' = <<>>
       ELSE CParseSexpResume(lastPos.buf) /\ UNCHANGED rest
  /\ phase' = "Check"
  /\ UNCHANGED <<doc, sent, got>>

(* After the call returned: take the completed expression, if any; with  *)
(* ContPerExpr a continuation that produced one is then destroyed.         *)
Check ==
  /\ phase = "Check" /\ pc = "Idle"
  /\ IF ~ExtractOnlyAtDepth0 \/ ContDepth = 0
       THEN /\ got' = IF last_sexpr # NULL THEN Append(got, last_sexpr) ELSE got
            /\ IF ContPerExpr /\ last_sexpr # NULL
                 THEN /\ DestroyCont
                      /\ rest' = IF PendingInCont
                                   THEN SubSeq(lastPos.buf, lastPos.pos, Len(lastPos.buf))
                                   ELSE <<>>
                 ELSE LastSexp /\ UNCHANGED rest
       ELSE UNCHANGED <<parserVars, got, rest>>
  /\ phase' = "Call"
  /\ UNCHANGED <<doc, sent>>

Finish ==
  /\ phase = "Call" /\ ~HasPending /\ sent = Len(doc.text)
  /\ phase' = "Done"
  /\ UNCHANGED <<parserVars, doc, sent, got, rest>>

Restart ==
  /\ phase = "Done"
  /\ IF cc THEN DestroyCont ELSE UNCHANGED parserVars
  /\ doc' \in Docs /\ sent' = 0 /\ got' = <<>> /\ phase' = "Call"
  /\ UNCHANGED rest

ClientStep ==
  \/ \E k \in 1..Len(doc.text) : Feed(k)
  \/ Continue \/ Check \/ Finish \/ Restart

ParserMove == ParserStep /\ UNCHANGED clientVars

Next == ClientStep \/ ParserMove

Spec == Init /\ [][Next]_vars /\ WF_vars(ParserMove) /\ WF_vars(ClientStep)

-----------------------------------------------------------------------------

(* Chunk-boundary invariance and single delivery (spec 8), as for the    *)
(* newer parser: the caller takes out the document's expressions, in     *)
(* order, each once, and all of them by the end of the stream.            *)
ExtractedInOrder ==
  /\ IsPrefix(got, doc.trees)
  /\ phase = "Done" => got = doc.trees

(* The caller with the older parser implements the expression stream.    *)
Stream == INSTANCE ExprStream WITH delivered <- got, done <- (phase = "Done")

StreamRefined == Stream!StreamSpec

=============================================================================
