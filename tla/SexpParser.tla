----------------------------- MODULE SexpParser -----------------------------
(***************************************************************************)
(* The resumable S-expression parser of src/src/backup/parser_new.c:       *)
(* cparse_sexp, its continuation (pcont_t), the explicit frame stack of    *)
(* parse_data_t records and the node constructors.                         *)
(*                                                                         *)
(* One step of the model is one iteration of the main parser loop (one    *)
(* case of the switch on the FSM state), so a call of cparse_sexp is the   *)
(* entry step CParseSexp, a run of loop steps, and a return (the depth-0   *)
(* return inside case 3, or EndOfInput when the loop sees '\0').          *)
(*                                                                         *)
(* Data is abstracted: a character is one of a few classes (CharClasses),  *)
(* the atom buffer val[0..vcur-1] is the sequence `val` (vcur = Len(val)), *)
(* and a tree is a record value instead of linked sexpr_t cells: a frame   *)
(* (fst .. lst chain) is the sequence of the nodes appended to it.         *)
(***************************************************************************)
EXTENDS SexpTree, SequencesExt

CONSTANT MaxAtom     \* MAX_SEXPR_ATOM_SIZE: the capacity of the atom buffer

ASSUME MaxAtom \in Nat \ {0}

(* Character classes of the input.  " " stands for all of ' ', '\t',       *)
(* '\n', '\r'; "a" and "b" for characters accepted inside an atom          *)
(* (letters, digits, '!'); "-" for any other character ('-', '.', '\\').   *)
DQ == "\""
SQ == "'"
Whitespace == {" "}
AtomChars == {"a", "b"}
CharClasses == {"(", ")", DQ, SQ, "-"} \cup Whitespace \cup AtomChars

VARIABLES
  pc,          \* "Idle" between calls, "Running" inside cparse_sexp, "Crashed"
  cc,          \* TRUE when the caller holds an allocated continuation
  state,       \* FSM state 1..9 (local `state`, saved in cc->state)
  depth,       \* list nesting depth (unsigned)
  qdepth,      \* paren depth inside a raw '( ... ) capture (unsigned)
  val,         \* contents of the atom buffer val[0 .. vcur-1]
  stack,       \* the faststack of frames, bottom first
  buf,         \* the character array the running call reads through t
  t,           \* index into buf; t > Len(buf) means t[0] = '\0'
  lastPos,     \* cc->lastPos: NULL or a pointer [buf, pos]
  last_sexpr,  \* cc->last_sexpr: NULL, Garbage or a tree
  oob,         \* history: some write to val went past MaxAtom
  spin         \* history: loop configurations seen since t last moved

parserVars == <<pc, cc, state, depth, qdepth, val, stack, buf, t, lastPos,
                last_sexpr, oob, spin>>

-----------------------------------------------------------------------------
(* Helpers of the loop body.                                               *)

Cur == buf[t]                       \* t[0]
AtEnd == t > Len(buf)               \* t[0] == '\0'

(* vcur[0] = c; vcur++ : a write at index vcur of the MaxAtom-byte buffer. *)
PutChar(c) ==
  /\ val' = Append(val, c)
  /\ oob' = (oob \/ Len(val) >= MaxAtom)

(* vcur[0] = '\0' : the terminator is written at index vcur as well. *)
Terminate == oob' = (oob \/ Len(val) >= MaxAtom)

(* addatom: append a new atom to the top frame's fst..lst chain; with an   *)
(* empty stack the atom is reported on stderr and dropped.                 *)
AddAtom(text, aty) ==
  stack' = IF stack # <<>>
             THEN [stack EXCEPT ![Len(stack)] = Append(@, NewAtom(text, aty))]
             ELSE stack

(* The value of sx after the "while (stack->top != NULL) pop" drain: the   *)
(* fst of the bottom frame.  When nothing is popped sx is the local that   *)
(* no path of this call has assigned (see EndOfInput): reading it is       *)
(* undefined, modelled as either NULL or a dangling pointer.               *)
Drained(stk) == IF stk = <<>> THEN {NULL, Garbage} ELSE {Fst(stk[1])}

(* The configuration that determines the next loop iteration besides t;   *)
(* seeing one twice with t unmoved means the loop never ends.              *)
Config == <<state, depth, qdepth>>

(* The depth the caller reads from the continuation: cc->depth, which   *)
(* every return of this parser writes from the local.                      *)
ContDepth == depth

(* The guard of the loop: while (t[0] != '\0'). *)
Loop == pc = "Running" /\ ~AtEnd

(* Every loop iteration that stays in the call records the configuration *)
(* it left while t stayed.                                                 *)
RecordSpin ==
  spin' = IF pc' = "Running" /\ t' = t THEN spin \cup {Config} ELSE {}

-----------------------------------------------------------------------------
(* Operations called by the user of the library.                           *)

(* cparse_sexp(str, len, lc) entry with lc == NULL: a new continuation is *)
(* malloc'ed; cc->last_sexpr is not initialized (the static new_cont(),    *)
(* which sets it to NULL, is not used here), the atom buffer and an empty  *)
(* stack are allocated and the locals start at state 1, depth 0.           *)
CParseSexpFresh(str) ==
  /\ pc = "Idle" /\ ~cc
  /\ pc' = "Running" /\ cc' = TRUE
  /\ state' = 1 /\ depth' = 0 /\ qdepth' = 0
  /\ val' = <<>> /\ stack' = <<>>
  /\ buf' = str /\ t' = 1
  /\ last_sexpr' \in {NULL, Garbage}
  /\ spin' = {}
  /\ UNCHANGED <<lastPos, oob>>

(* Mutant of CParseSexpResume: qdepth is not restored from the           *)
(* continuation but starts afresh as in a new call.                       *)
CParseSexpResumeResetsQDepth(str) ==
  /\ pc = "Idle" /\ cc
  /\ pc' = "Running"
  /\ IF lastPos # NULL
       THEN buf' = lastPos.buf /\ t' = lastPos.pos
       ELSE buf' = str /\ t' = 1
  /\ spin' = {} /\ qdepth' = 0
  /\ UNCHANGED <<cc, state, depth, val, stack, lastPos, last_sexpr, oob>>

(* cparse_sexp(str, len, lc) entry with a continuation: state, depth,      *)
(* qdepth, val/vcur and the stack are restored from it; reading resumes at *)
(* cc->lastPos when that is set (str is then not read at all), otherwise  *)
(* at the start of str.                                                    *)
CParseSexpResume(str) ==
  /\ pc = "Idle" /\ cc
  /\ pc' = "Running"
  /\ IF lastPos # NULL
       THEN buf' = lastPos.buf /\ t' = lastPos.pos
       ELSE buf' = str /\ t' = 1
  /\ spin' = {}
  /\ UNCHANGED <<cc, state, depth, qdepth, val, stack, lastPos, last_sexpr,
                 oob>>

(* last_sexp(pc): return cc->last_sexpr and clear it. *)
LastSexp ==
  /\ pc = "Idle" /\ cc
  /\ last_sexpr' = NULL
  /\ UNCHANGED <<pc, cc, state, depth, qdepth, val, stack, buf, t, lastPos,
                 oob, spin>>

(* destroy_cont(pc): free the continuation record.  Its fields no longer *)
(* exist; the model gives them back their values of ParserInit.  (The     *)
(* atom buffer and the frames it pointed to are not freed.)                *)
DestroyCont ==
  /\ pc = "Idle" /\ cc
  /\ cc' = FALSE
  /\ state' = 1 /\ depth' = 0 /\ qdepth' = 0 /\ val' = <<>> /\ stack' = <<>>
  /\ lastPos' = NULL /\ last_sexpr' = NULL
  /\ UNCHANGED <<pc, buf, t, oob, spin>>

-----------------------------------------------------------------------------
(* One iteration of the main loop per FSM state.                           *)

(* case 1: whitespace is skipped; '(' -> 2 and ')' -> 3; '"' resets the    *)
(* buffer -> 5; '\'' -> 7; anything else resets the buffer -> 4 without    *)
(* consuming the character.                                                *)
StateStart ==
  /\ Loop /\ state = 1
  /\ \/ Cur \in Whitespace /\ t' = t + 1 /\ UNCHANGED <<state, val>>
     \/ Cur = "(" /\ state' = 2 /\ t' = t + 1 /\ UNCHANGED val
     \/ Cur = ")" /\ state' = 3 /\ UNCHANGED <<t, val>>
     \/ Cur = DQ /\ state' = 5 /\ val' = <<>> /\ t' = t + 1
     \/ Cur = SQ /\ state' = 7 /\ t' = t + 1 /\ UNCHANGED val
     \/ Cur \notin Whitespace \cup {"(", ")", DQ, SQ}
        /\ state' = 4 /\ val' = <<>> /\ UNCHANGED t
  /\ UNCHANGED <<pc, cc, depth, qdepth, stack, buf, lastPos, last_sexpr, oob>>

(* case 2: open paren.  With an empty stack a bottom frame holding the new *)
(* list is pushed first; otherwise the list is linked after the top        *)
(* frame's lst.  Then an empty frame for the list's children is pushed.   *)
StateOpenParen ==
  /\ Loop /\ state = 2
  /\ depth' = depth + 1
  /\ stack' = IF Len(stack) < 1
                THEN <<<<NewList(<<>>)>>, <<>>>>
                ELSE Append([stack EXCEPT ![Len(stack)] =
                               Append(@, NewList(<<>>))], <<>>)
  /\ state' = 1
  /\ UNCHANGED <<pc, cc, qdepth, val, buf, t, lastPos, last_sexpr, oob>>

(* Mutant of StateCloseParen: the depth-0 return leaves the bottom frame  *)
(* on the stack (the drain loop is missing).                               *)
StateCloseParenNoDrain ==
  /\ Loop /\ state = 3
  /\ IF stack = <<>>
       THEN /\ pc' = "Crashed" /\ t' = t + 1
            /\ UNCHANGED <<depth, state, stack, lastPos, last_sexpr, buf>>
       ELSE LET top  == Last(stack)
                rest == Front(stack)
                linked == IF rest # <<>>
                            THEN [rest EXCEPT ![Len(rest)][Len(rest[Len(rest)])]
                                                = NewList(top)]
                            ELSE rest
            IN /\ depth' = depth - 1
               /\ state' = 1
               /\ IF depth - 1 = 0
                    THEN /\ pc' = "Idle"
                         /\ lastPos' = [buf |-> buf, pos |-> t + 1]
                         /\ buf' = <<>> /\ t' = 1
                         /\ stack' = linked
                         /\ last_sexpr' = IF linked = <<>> THEN Fst(top)
                                          ELSE Fst(linked[1])
                    ELSE /\ stack' = linked /\ t' = t + 1
                         /\ UNCHANGED <<pc, lastPos, last_sexpr, buf>>
  /\ UNCHANGED <<cc, qdepth, val, oob>>

(* Mutant of StateCloseParen: the depth-0 return hands back the first     *)
(* node of the popped frame, not of the bottom frame.                      *)
StateCloseParenReturnsTop ==
  /\ Loop /\ state = 3
  /\ IF stack = <<>>
       THEN /\ pc' = "Crashed" /\ t' = t + 1
            /\ UNCHANGED <<depth, state, stack, lastPos, last_sexpr, buf>>
       ELSE LET top  == Last(stack)
                rest == Front(stack)
                linked == IF rest # <<>>
                            THEN [rest EXCEPT ![Len(rest)][Len(rest[Len(rest)])]
                                                = NewList(top)]
                            ELSE rest
            IN /\ depth' = depth - 1
               /\ state' = 1
               /\ IF depth - 1 = 0
                    THEN /\ pc' = "Idle"
                         /\ lastPos' = [buf |-> buf, pos |-> t + 1]
                         /\ buf' = <<>> /\ t' = 1
                         /\ stack' = <<>>
                         /\ last_sexpr' = Fst(top)
                    ELSE /\ stack' = linked /\ t' = t + 1
                         /\ UNCHANGED <<pc, lastPos, last_sexpr, buf>>
  /\ UNCHANGED <<cc, qdepth, val, oob>>

(* case 3: close paren.  The top frame is popped and its chain becomes the *)
(* list of the lst node of the frame below.  pop() of an empty stack       *)
(* returns no level and lvl->data dereferences it.  When depth reaches 0   *)
(* the continuation is saved with lastPos just after the ')', the stack is *)
(* drained and the tree is left in cc->last_sexpr: the call returns.       *)
StateCloseParen ==
  /\ Loop /\ state = 3
  /\ IF stack = <<>>
       THEN /\ pc' = "Crashed" /\ t' = t + 1
            /\ UNCHANGED <<depth, state, stack, lastPos, last_sexpr, buf>>
       ELSE LET top  == Last(stack)
                rest == Front(stack)
                linked == IF rest # <<>>
                            THEN [rest EXCEPT ![Len(rest)][Len(rest[Len(rest)])]
                                                = NewList(top)]
                            ELSE rest
            IN /\ depth' = depth - 1
               /\ state' = 1
               /\ IF depth - 1 = 0
                    THEN /\ pc' = "Idle"
                         /\ lastPos' = [buf |-> buf, pos |-> t + 1]
                         /\ buf' = <<>> /\ t' = 1
                         /\ stack' = <<>>
                         /\ last_sexpr' = IF linked = <<>> THEN Fst(top)
                                          ELSE Fst(linked[1])
                    ELSE /\ stack' = linked /\ t' = t + 1
                         /\ UNCHANGED <<pc, lastPos, last_sexpr, buf>>
  /\ UNCHANGED <<cc, qdepth, val, oob>>

(* case 4: inside an atom.  A letter, digit or '!' is stored and consumed; *)
(* anything else ends the atom, which is added as BASIC, and is looked at  *)
(* again in state 1.                                                       *)
StateAtom ==
  /\ Loop /\ state = 4
  /\ IF Cur \in AtomChars
       THEN PutChar(Cur) /\ t' = t + 1 /\ UNCHANGED <<state, stack>>
       ELSE Terminate /\ AddAtom(val, "BASIC") /\ state' = 1
            /\ UNCHANGED <<val, t>>
  /\ UNCHANGED <<pc, cc, depth, qdepth, buf, lastPos, last_sexpr>>

(* Mutant of StateDQuote: the closing quote advances t twice. *)
StateDQuoteDoubleAdvance ==
  /\ Loop /\ state = 5
  /\ IF Cur = DQ
       THEN Terminate /\ AddAtom(val, "DQUOTE") /\ state' = 6 /\ UNCHANGED val
            /\ t' = t + 2
       ELSE PutChar(Cur) /\ UNCHANGED <<state, stack>> /\ t' = t + 1
  /\ UNCHANGED <<pc, cc, depth, qdepth, buf, lastPos, last_sexpr>>

(* case 5: inside a double-quoted string; every character is consumed.     *)
StateDQuote ==
  /\ Loop /\ state = 5
  /\ IF Cur = DQ
       THEN Terminate /\ AddAtom(val, "DQUOTE") /\ state' = 6 /\ UNCHANGED val
       ELSE PutChar(Cur) /\ UNCHANGED <<state, stack>>
  /\ t' = t + 1
  /\ UNCHANGED <<pc, cc, depth, qdepth, buf, lastPos, last_sexpr>>

(* Mutant of StateAfterDQuote: `state = 1` is forgotten. *)
StateAfterDQuoteStuck ==
  /\ Loop /\ state = 6
  /\ val' = <<>>
  /\ UNCHANGED <<pc, cc, state, depth, qdepth, stack, buf, t, lastPos,
                 last_sexpr, oob>>

(* case 6: after a string: reset the buffer, back to state 1. *)
StateAfterDQuote ==
  /\ Loop /\ state = 6
  /\ val' = <<>> /\ state' = 1
  /\ UNCHANGED <<pc, cc, depth, qdepth, stack, buf, t, lastPos, last_sexpr,
                 oob>>

(* Mutant of StateSQuote: the '(' branch forgets vcur = val, so a capture  *)
(* is appended to whatever the buffer held.                                *)
StateSQuoteNoReset ==
  /\ Loop /\ state = 7
  /\ state' = IF Cur = DQ THEN 5 ELSE IF Cur = "(" THEN 8 ELSE 4
  /\ val' = IF Cur = "(" THEN val ELSE <<>>
  /\ UNCHANGED <<pc, cc, depth, qdepth, stack, buf, t, lastPos, last_sexpr,
                 oob>>

(* case 7: after a single quote, without consuming: '"' -> 5, '(' -> 8,    *)
(* anything else -> 4; the buffer is reset in every branch.                *)
StateSQuote ==
  /\ Loop /\ state = 7
  /\ state' = IF Cur = DQ THEN 5 ELSE IF Cur = "(" THEN 8 ELSE 4
  /\ val' = <<>>
  /\ UNCHANGED <<pc, cc, depth, qdepth, stack, buf, t, lastPos, last_sexpr,
                 oob>>

(* case 8: raw capture: every character is stored verbatim and consumed;  *)
(* '(' increments qdepth, ')' decrements it and moves to state 9.          *)
StateRaw ==
  /\ Loop /\ state = 8
  /\ qdepth' = CASE Cur = "(" -> qdepth + 1
                 [] Cur = ")" -> qdepth - 1
                 [] OTHER     -> qdepth
  /\ state' = IF Cur = ")" THEN 9 ELSE 8
  /\ PutChar(Cur) /\ t' = t + 1
  /\ UNCHANGED <<pc, cc, depth, stack, buf, lastPos, last_sexpr>>

(* case 9: after a ')' of a capture: at qdepth 0 the capture is added as   *)
(* an SQUOTE atom and the FSM returns to 1, otherwise it goes back to 8.   *)
StateRawClose ==
  /\ Loop /\ state = 9
  /\ IF qdepth = 0
       THEN Terminate /\ AddAtom(val, "SQUOTE") /\ state' = 1
       ELSE state' = 8 /\ UNCHANGED <<oob, stack>>
  /\ UNCHANGED <<pc, cc, depth, qdepth, val, buf, t, lastPos, last_sexpr>>

(* The loop sees '\0'.  At depth 0 the continuation keeps lastPos = t (the *)
(* '\0' itself), the stack is drained and last_sexpr is set to sx, a local *)
(* that no path reaching here at depth 0 has assigned.  At depth > 0      *)
(* lastPos is NULL so that the next call reads its own str.                *)
EndOfInput ==
  /\ pc = "Running" /\ AtEnd
  /\ pc' = "Idle" /\ buf' = <<>> /\ t' = 1
  /\ IF depth = 0
       THEN /\ lastPos' = [buf |-> buf, pos |-> t]
            /\ stack' = <<>>
            /\ last_sexpr' \in Drained(stack)
       ELSE /\ lastPos' = NULL
            /\ UNCHANGED <<stack, last_sexpr>>
  /\ UNCHANGED <<cc, state, depth, qdepth, val, oob, spin>>

LoopIteration ==
  \/ StateStart \/ StateOpenParen \/ StateCloseParen \/ StateAtom
  \/ StateDQuote \/ StateAfterDQuote \/ StateSQuote \/ StateRaw
  \/ StateRawClose

ParserStep == (LoopIteration /\ RecordSpin) \/ EndOfInput

(* Lines 115-128: before the first call the caller holds no continuation; *)
(* cparse_sexp's locals start at state 1, depth 0 and qdepth 0.            *)
ParserInit ==
  /\ pc = "Idle" /\ cc = FALSE
  /\ state = 1 /\ depth = 0 /\ qdepth = 0 /\ val = <<>> /\ stack = <<>>
  /\ buf = <<>> /\ t = 1 /\ lastPos = NULL /\ last_sexpr = NULL
  /\ oob = FALSE /\ spin = {}

-----------------------------------------------------------------------------
(* Properties of the parser alone.                                         *)

TypeOK ==
  /\ pc \in {"Idle", "Running", "Crashed"}
  /\ cc \in BOOLEAN
  /\ state \in 1..9
  /\ depth \in Nat /\ qdepth \in Nat
  /\ val \in Seq(CharClasses)
  /\ \A i \in DOMAIN stack : \A j \in DOMAIN stack[i] : IsNode(stack[i][j], CharClasses)
  /\ buf \in Seq(CharClasses) /\ t \in 1..Len(buf) + 1
  /\ lastPos = NULL \/ (lastPos.buf \in Seq(CharClasses)
                        /\ lastPos.pos \in 1..Len(lastPos.buf) + 1)
  /\ last_sexpr \in {NULL, Garbage} \/ IsNode(last_sexpr, CharClasses)
  /\ oob \in BOOLEAN

(* The frame stack mirrors the open lists (spec 4.2): below the frames of *)
(* the depth open lists lies the frame holding the root, so the height is *)
(* depth + 1 while a list is open and the stack is empty at depth 0; this *)
(* must survive the saves and restores of the continuation and the drain. *)
StackHeightMatchesDepth ==
  pc # "Crashed" => Len(stack) = IF depth = 0 THEN 0 ELSE depth + 1

(* Inside a raw '( ... ) capture (states 8 and 9) qdepth is the number of  *)
(* '(' minus the number of ')' captured so far, also across a suspension  *)
(* and resumption of the capture in the middle of the text.                *)
QDepthMatchesCapture ==
  state \in {8, 9} =>
    qdepth = Len(SelectSeq(val, LAMBDA c : c = "("))
             - Len(SelectSeq(val, LAMBDA c : c = ")"))

(* Every iteration of the main loop makes progress: the loop never comes  *)
(* back to the same FSM state, depth and qdepth without consuming input,  *)
(* which for this deterministic loop would mean it never terminates.       *)
NoSpin == pc = "Running" => Config \notin spin

(* No write to the atom buffer goes past its MAX_SEXPR_ATOM_SIZE bytes    *)
(* (spec 3: cursor <= capacity; the buffer must grow, not overflow).      *)
AtomWithinBuffer == ~oob

(* A ')' that has no open frame is reported (UnmatchedCloseParen, spec 7) *)
(* and never dereferences the result of popping an empty stack.           *)
NoCrash == pc # "Crashed"

=============================================================================
