---------------------------- MODULE SexpParserOld ----------------------------
(***************************************************************************)
(* The older, greedy parser of src/src/backup/parser_old.c.  It has no FSM *)
(* state: cparse_sexp restores depth, the stack and the atom cursor from   *)
(* the continuation, finishes a partial atom if the chunk starts with      *)
(* whitespace, and then loops on t[0]: '(' opens a list, ')' closes one,  *)
(* anything else starts (or continues) an atom that is scanned up to the  *)
(* next delimiter.  Quotes are ordinary atom characters; a backslash      *)
(* escape is copied with its backslash.                                    *)
(*                                                                         *)
(* One step of the model is one block of the function: the entry         *)
(* (CParseSexpFresh/Resume), the leading-whitespace block (Lead), one     *)
(* iteration of the main loop's switch (OpenParen, CloseParen, AtomStart), *)
(* one iteration of the atom-scanning loop or its end (Scan...), and the  *)
(* code after the loop (Exit).  pc names the block that runs next.        *)
(*                                                                         *)
(* The atom buffer is kept whole (vbuf) with the cursors as indexes into  *)
(* it, because this parser reuses a buffer across atoms and its cursor    *)
(* across calls: an atom is vbuf[1 .. vcur].                              *)
(***************************************************************************)
EXTENDS SexpTree, SequencesExt

(* " " stands for ' ', '\t', '\n', '\r'; "a", "b" for other characters.   *)
Whitespace == {" "}
BSL == "\\"
CharClasses == {"(", ")", "a", "b", BSL} \cup Whitespace

(* The characters that end an atom besides '\0'. *)
Delims == {"(", ")"} \cup Whitespace

(* The characters accepted after a backslash (lines 243-248). *)
EscapeChars == {")", "(", "'", "\"", BSL, "n", "t", "r", "v", "f", "b", "a"}

VARIABLES
  pc,          \* "Idle", "Lead", "Top", "Scan", "Exit" or "Crashed"
  cc,          \* the caller holds a continuation
  valAlloc,    \* cc->val != NULL: an atom buffer is allocated
  vbuf,        \* the contents of that buffer
  vcur,        \* local vcur: an index into vbuf, NULL or Garbage
  ccvcur,      \* cc->vcur: an index into vbuf, NULL or Garbage
  depth,       \* local depth (unsigned)
  ccdepth,     \* cc->depth
  stack,       \* cc->stack: the frames, bottom first
  stackFreed,  \* destroy_stack(cc->stack) has run
  uaf,         \* history: a call used cc->stack after it was freed
  sx,          \* local sx_a: the last node made or popped
  buf, t,      \* the string of the running call and the index t into it
  lastPos,     \* cc->lastPos: NULL or a pointer [buf, pos]
  last_sexpr   \* cc->last_sexpr

parserVars == <<pc, cc, valAlloc, vbuf, vcur, ccvcur, depth, ccdepth, stack,
                stackFreed, uaf, sx, buf, t, lastPos, last_sexpr>>

(* The depth the caller reads from the continuation. *)
ContDepth == ccdepth

Cur == buf[t]
AtEnd == t > Len(buf)

(* while (t[0] is whitespace && t[0] != 0) t++ *)
RECURSIVE SkipWs(_, _)
SkipWs(b, i) == IF i <= Len(b) /\ b[i] \in Whitespace THEN SkipWs(b, i + 1) ELSE i

(* vcur[0] = c at index i of the buffer. *)
WriteAt(v, i, c) == IF i < Len(v) THEN [v EXCEPT ![i + 1] = c] ELSE Append(v, c)

(* Any use of `stack` after destroy_stack touches freed memory. *)
TouchStack == uaf' = (uaf \/ stackFreed)

(* Allocation and attachment of a new VALUE atom vbuf[1..vcur] to the top *)
(* frame (lines 180-205 and 272-297), then on to block `next`.  With an   *)
(* empty stack `data` is not set and data->fst dereferences it: the model *)
(* stops.  A write through an uninitialized vcur stops it as well.         *)
AttachAtom(next) ==
  LET a == NewAtom(SubSeq(vbuf, 1, vcur), "BASIC")
  IN IF stack = <<>>
       THEN pc' = "Crashed" /\ UNCHANGED <<stack, sx>>
       ELSE /\ stack' = [stack EXCEPT ![Len(stack)] = Append(@, a)]
            /\ sx' = a /\ pc' = next

(* The locals cease to exist when cparse_sexp returns. *)
Return == pc' = "Idle" /\ buf' = <<>> /\ t' = 1 /\ vcur' = NULL /\ sx' = NULL
          /\ depth' = 0

-----------------------------------------------------------------------------
(* Entry: restore state from the continuation (lines 139-164).             *)

(* The atom buffer: reuse cc->val and cc->vcur, or malloc a new buffer,   *)
(* leaving the local vcur uninitialized.                                   *)
RestoreVal ==
  IF valAlloc
    THEN vcur' = ccvcur /\ UNCHANGED <<valAlloc, vbuf, ccvcur>>
    ELSE /\ valAlloc' = TRUE /\ vbuf' = <<>> /\ ccvcur' = NULL
         /\ vcur' \in {NULL, Garbage}

(* cparse_sexp(s, len, NULL): new_cont() sets last_sexpr, lastPos, vcur   *)
(* and depth to NULL/0 and makes an empty stack.                          *)
CParseSexpFresh(str) ==
  /\ pc = "Idle" /\ ~cc
  /\ pc' = "Lead" /\ cc' = TRUE
  /\ valAlloc' = TRUE /\ vbuf' = <<>> /\ ccvcur' = NULL /\ vcur' \in {NULL, Garbage}
  /\ depth' = 0 /\ ccdepth' = 0 /\ stack' = <<>> /\ stackFreed' = FALSE
  /\ lastPos' = NULL /\ last_sexpr' = NULL
  /\ buf' = str /\ t' = 1 /\ sx' \in {NULL, Garbage}
  /\ UNCHANGED uaf

(* cparse_sexp(s, len, pc): t starts at cc->lastPos when that is set.      *)
CParseSexpResume(str) ==
  /\ pc = "Idle" /\ cc
  /\ pc' = "Lead"
  /\ IF lastPos # NULL
       THEN buf' = lastPos.buf /\ t' = lastPos.pos
       ELSE buf' = str /\ t' = 1
  /\ depth' = ccdepth
  /\ RestoreVal
  /\ sx' \in {NULL, Garbage}
  /\ UNCHANGED <<cc, ccdepth, stack, stackFreed, uaf, lastPos, last_sexpr>>

(* last_sexp(pc): return cc->last_sexpr and clear it. *)
LastSexp ==
  /\ pc = "Idle" /\ cc
  /\ last_sexpr' = NULL
  /\ UNCHANGED <<pc, cc, valAlloc, vbuf, vcur, ccvcur, depth, ccdepth, stack,
                 stackFreed, uaf, sx, buf, t, lastPos>>

(* destroy_cont(pc): free the record; the model gives its fields back     *)
(* their initial values.                                                   *)
DestroyCont ==
  /\ pc = "Idle" /\ cc
  /\ cc' = FALSE /\ valAlloc' = FALSE /\ vbuf' = <<>> /\ ccvcur' = NULL
  /\ ccdepth' = 0 /\ stack' = <<>> /\ stackFreed' = FALSE
  /\ lastPos' = NULL /\ last_sexpr' = NULL
  /\ UNCHANGED <<pc, vcur, depth, uaf, sx, buf, t>>

-----------------------------------------------------------------------------
(* The body of cparse_sexp.                                                *)

(* Lines 174-212: a chunk starting with whitespace first finishes the     *)
(* atom a previous call left open (cc->vcur != NULL), if it is nonempty,  *)
(* and skips the whitespace.                                               *)
Lead ==
  /\ pc = "Lead"
  /\ IF ~AtEnd /\ Cur \in Whitespace
       THEN /\ CASE ccvcur = NULL   -> pc' = "Top" /\ UNCHANGED <<stack, sx>>
                 [] vcur = Garbage -> pc' = "Crashed" /\ UNCHANGED <<stack, sx>>
                 [] vcur = 0       -> pc' = "Top" /\ UNCHANGED <<stack, sx>>
                 [] OTHER          -> AttachAtom("Top")
            /\ TouchStack
            /\ ccvcur' = NULL /\ vcur' = NULL /\ t' = SkipWs(buf, t)
       ELSE pc' = "Top" /\ UNCHANGED <<stack, sx, ccvcur, vcur, t, uaf>>
  /\ UNCHANGED <<cc, valAlloc, vbuf, depth, ccdepth, stackFreed, buf, lastPos,
                 last_sexpr>>

(* The loop ends at '\0' (line 215). *)
LoopEnd ==
  /\ pc = "Top" /\ AtEnd
  /\ pc' = "Exit"
  /\ UNCHANGED <<cc, valAlloc, vbuf, vcur, ccvcur, depth, ccdepth, stack,
                 stackFreed, uaf, sx, buf, t, lastPos, last_sexpr>>

(* case '(' (lines 302-347): a new LIST node is attached to the top frame *)
(* (or becomes the bottom frame) and an empty frame is pushed.            *)
OpenParen ==
  /\ pc = "Top" /\ ~AtEnd /\ Cur = "("
  /\ depth' = depth + 1
  /\ stack' = IF Len(stack) < 1
                THEN <<<<NewList(<<>>)>>, <<>>>>
                ELSE Append([stack EXCEPT ![Len(stack)] = Append(@, NewList(<<>>))],
                            <<>>)
  /\ sx' = NewList(<<>>)
  /\ t' = t + 1
  /\ TouchStack
  /\ UNCHANGED <<pc, cc, valAlloc, vbuf, vcur, ccvcur, ccdepth, stackFreed,
                 buf, lastPos, last_sexpr>>

(* Mutant of CloseParen: the ')' is not consumed after linking. *)
CloseParenNoAdvance ==
  /\ pc = "Top" /\ ~AtEnd /\ Cur = ")"
  /\ ccvcur' = NULL
  /\ TouchStack
  /\ IF stack = <<>>
       THEN pc' = "Crashed" /\ UNCHANGED <<depth, stack, sx, t>>
       ELSE LET top  == Last(stack)
                rest == Front(stack)
            IN /\ depth' = depth - 1
               /\ sx' = Fst(top)
               /\ stack' = IF rest # <<>>
                             THEN [rest EXCEPT ![Len(rest)][Len(rest[Len(rest)])]
                                     = NewList(top)]
                             ELSE rest
               /\ UNCHANGED t
               /\ pc' = IF depth - 1 = 0 THEN "Exit" ELSE "Top"
  /\ UNCHANGED <<cc, valAlloc, vbuf, vcur, ccdepth, stackFreed, buf, lastPos,
                 last_sexpr>>

(* case ')' (lines 348-372): a partial atom is forgotten (cc->vcur =      *)
(* NULL), the top frame is popped and its chain becomes the list of the  *)
(* parent's last node; when no frame is left the switch is left without  *)
(* consuming the ')'.  Then "if (depth == 0) break".  Popping an empty   *)
(* stack returns NULL and lvl->data dereferences it.                       *)
CloseParen ==
  /\ pc = "Top" /\ ~AtEnd /\ Cur = ")"
  /\ ccvcur' = NULL
  /\ TouchStack
  /\ IF stack = <<>>
       THEN pc' = "Crashed" /\ UNCHANGED <<depth, stack, sx, t>>
       ELSE LET top  == Last(stack)
                rest == Front(stack)
            IN /\ depth' = depth - 1
               /\ sx' = Fst(top)
               /\ IF rest # <<>>
                    THEN /\ stack' = [rest EXCEPT ![Len(rest)][Len(rest[Len(rest)])]
                                                    = NewList(top)]
                         /\ t' = t + 1
                    ELSE stack' = rest /\ UNCHANGED t
               /\ pc' = IF depth - 1 = 0 THEN "Exit" ELSE "Top"
  /\ UNCHANGED <<cc, valAlloc, vbuf, vcur, ccdepth, stackFreed, buf, lastPos,
                 last_sexpr>>

(* default (lines 220-228): skip whitespace, then continue the atom of   *)
(* cc->vcur or start one at the beginning of the buffer.                  *)
AtomStart ==
  /\ pc = "Top" /\ ~AtEnd /\ Cur \notin {"(", ")"}
  /\ t' = SkipWs(buf, t)
  /\ vcur' = IF ccvcur # NULL THEN ccvcur ELSE 0
  /\ pc' = "Scan"
  /\ UNCHANGED <<cc, valAlloc, vbuf, ccvcur, depth, ccdepth, stack, stackFreed,
                 uaf, sx, buf, lastPos, last_sexpr>>

(* Mutant of ScanChar: t is advanced twice for a plain character. *)
ScanCharDoubleAdvance ==
  /\ pc = "Scan" /\ ~AtEnd /\ Cur \notin Delims
  /\ IF vcur = Garbage
       THEN pc' = "Crashed" /\ UNCHANGED <<vbuf, vcur, t>>
       ELSE /\ vbuf' = WriteAt(vbuf, vcur, Cur) /\ vcur' = vcur + 1
            /\ t' = t + 2 /\ UNCHANGED pc
  /\ UNCHANGED <<cc, valAlloc, ccvcur, depth, ccdepth, stack, stackFreed, uaf,
                 sx, buf, lastPos, last_sexpr>>

(* One iteration of the scanning loop (lines 229-259): copy t[0]; after a *)
(* backslash also copy an accepted escape character, otherwise only warn. *)
ScanChar ==
  /\ pc = "Scan" /\ ~AtEnd /\ Cur \notin Delims
  /\ IF vcur = Garbage
       THEN pc' = "Crashed" /\ UNCHANGED <<vbuf, vcur, t>>
       ELSE LET v1 == WriteAt(vbuf, vcur, Cur)
                esc == Cur = BSL /\ t + 1 <= Len(buf) /\ buf[t + 1] \in EscapeChars
            IN /\ vbuf' = IF esc THEN WriteAt(v1, vcur + 1, buf[t + 1]) ELSE v1
               /\ vcur' = IF esc THEN vcur + 2 ELSE vcur + 1
               /\ t' = IF esc THEN t + 2 ELSE t + 1
               /\ UNCHANGED pc
  /\ UNCHANGED <<cc, valAlloc, ccvcur, depth, ccdepth, stack, stackFreed, uaf,
                 sx, buf, lastPos, last_sexpr>>

(* Mutant of ScanSuspend: the cursor is not saved in cc->vcur. *)
ScanSuspendLosesCursor ==
  /\ pc = "Scan" /\ AtEnd
  /\ ccdepth' = depth
  /\ Return
  /\ UNCHANGED <<cc, valAlloc, vbuf, ccvcur, stack, stackFreed, uaf, lastPos,
                 last_sexpr>>

(* Lines 262-266: the chunk ended inside the atom; the cursor and depth   *)
(* are saved and the call returns (cc->lastPos is left as it was).        *)
ScanSuspend ==
  /\ pc = "Scan" /\ AtEnd
  /\ ccvcur' = vcur /\ ccdepth' = depth
  /\ Return
  /\ UNCHANGED <<cc, valAlloc, vbuf, stack, stackFreed, uaf, lastPos, last_sexpr>>

(* Lines 268-300 and 375: a delimiter ends the atom, which is attached if *)
(* nonempty; cc->vcur = NULL; at depth 0 the main loop is left.            *)
ScanDone ==
  /\ pc = "Scan" /\ ~AtEnd /\ Cur \in Delims
  /\ LET next == IF depth = 0 THEN "Exit" ELSE "Top"
     IN CASE vcur = Garbage -> pc' = "Crashed" /\ UNCHANGED <<stack, sx, uaf>>
          [] vcur = 0       -> pc' = next /\ UNCHANGED <<stack, sx, uaf>>
          [] OTHER          -> AttachAtom(next) /\ TouchStack
  /\ ccvcur' = NULL
  /\ UNCHANGED <<cc, valAlloc, vbuf, vcur, depth, ccdepth, stackFreed, buf, t,
                 lastPos, last_sexpr>>

(* Mutant of Exit: the parsed expression is not stored in the            *)
(* continuation.                                                           *)
ExitNoStore ==
  /\ pc = "Exit"
  /\ TouchStack
  /\ IF depth > 0
       THEN /\ ccvcur' = vcur /\ ccdepth' = depth /\ lastPos' = NULL
            /\ UNCHANGED <<valAlloc, stack, stackFreed, last_sexpr>>
       ELSE /\ stack' = <<>>
            /\ lastPos' = IF AtEnd THEN NULL ELSE [buf |-> buf, pos |-> t]
            /\ valAlloc' = FALSE
            /\ stackFreed' = TRUE
            /\ UNCHANGED <<ccvcur, ccdepth, last_sexpr>>
  /\ Return
  /\ UNCHANGED <<cc, vbuf>>

(* Mutant of Exit: the stack is destroyed on every return, including a    *)
(* suspension at depth > 0.                                                *)
ExitFreesOnSuspend ==
  /\ pc = "Exit"
  /\ TouchStack
  /\ IF depth > 0
       THEN /\ ccvcur' = vcur /\ ccdepth' = depth /\ lastPos' = NULL
            /\ stackFreed' = TRUE
            /\ UNCHANGED <<valAlloc, stack, last_sexpr>>
       ELSE LET drained == IF stack = <<>> THEN sx ELSE Fst(stack[1])
            IN /\ stack' = <<>>
               /\ lastPos' = IF AtEnd THEN NULL ELSE [buf |-> buf, pos |-> t]
               /\ valAlloc' = FALSE
               /\ last_sexpr' = drained
               /\ stackFreed' = TRUE
               /\ UNCHANGED <<ccvcur, ccdepth>>
  /\ Return
  /\ UNCHANGED <<cc, vbuf>>

(* Lines 378-431.  At depth > 0 the cursor and depth are saved and        *)
(* lastPos cleared.  At depth 0 the stack is drained into sx, lastPos is  *)
(* t unless t[0] == '\0', the atom buffer is freed, the expression is     *)
(* stored, and the stack itself is destroyed -- cc->stack keeps pointing  *)
(* to it, and cc->depth is not written.                                    *)
Exit ==
  /\ pc = "Exit"
  /\ TouchStack
  /\ IF depth > 0
       THEN /\ ccvcur' = vcur /\ ccdepth' = depth /\ lastPos' = NULL
            /\ UNCHANGED <<valAlloc, stack, stackFreed, last_sexpr>>
       ELSE LET drained == IF stack = <<>> THEN sx ELSE Fst(stack[1])
            IN /\ stack' = <<>>
               /\ lastPos' = IF AtEnd THEN NULL ELSE [buf |-> buf, pos |-> t]
               /\ valAlloc' = FALSE
               /\ last_sexpr' = drained
               /\ stackFreed' = TRUE
               /\ UNCHANGED <<ccvcur, ccdepth>>
  /\ Return
  /\ UNCHANGED <<cc, vbuf>>

ParserStep ==
  \/ Lead \/ LoopEnd \/ OpenParen \/ CloseParen \/ AtomStart
  \/ ScanChar \/ ScanSuspend \/ ScanDone \/ Exit

(* No continuation yet. *)
ParserInit ==
  /\ pc = "Idle" /\ cc = FALSE /\ valAlloc = FALSE /\ vbuf = <<>>
  /\ vcur = NULL /\ ccvcur = NULL /\ depth = 0 /\ ccdepth = 0
  /\ stack = <<>> /\ stackFreed = FALSE /\ uaf = FALSE /\ sx = NULL
  /\ buf = <<>> /\ t = 1 /\ lastPos = NULL /\ last_sexpr = NULL

-----------------------------------------------------------------------------

Pointer == Nat \cup {NULL, Garbage}

TypeOK ==
  /\ pc \in {"Idle", "Lead", "Top", "Scan", "Exit", "Crashed"}
  /\ cc \in BOOLEAN /\ valAlloc \in BOOLEAN /\ stackFreed \in BOOLEAN
  /\ uaf \in BOOLEAN
  /\ vbuf \in Seq(CharClasses \cup EscapeChars)
  /\ vcur \in Pointer /\ ccvcur \in Pointer
  /\ depth \in Nat /\ ccdepth \in Nat
  /\ buf \in Seq(CharClasses) /\ t \in 1..(Len(buf) + 1)
  /\ lastPos = NULL \/ lastPos.pos \in 1..(Len(lastPos.buf) + 1)
  /\ \A i \in DOMAIN stack : \A j \in DOMAIN stack[i] :
       IsNode(stack[i][j], CharClasses \cup EscapeChars)
  /\ last_sexpr \in {NULL, Garbage} \/ IsNode(last_sexpr, CharClasses \cup EscapeChars)

(* Between calls cc->depth is the number of lists left open, as the     *)
(* frame stack records them (a bottom frame plus one per open list): the  *)
(* caller tests cc->depth == 0 to learn that an expression is complete,   *)
(* and the next call resumes from it.                                      *)
DepthMatchesStack ==
  pc = "Idle" /\ cc =>
    Len(stack) = IF ccdepth = 0 THEN 0 ELSE ccdepth + 1

(* Reaching undefined behaviour that crashes: a pop of the empty stack,   *)
(* a write through an uninitialized vcur, an atom with no frame.           *)
NoCrash == pc # "Crashed"

(* No call of cparse_sexp on a continuation uses the stack that an       *)
(* earlier call destroyed at line 428.                                     *)
NoUseAfterFree == ~uaf

=============================================================================
