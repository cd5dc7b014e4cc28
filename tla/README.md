# TLA+ models of sfsexp

This directory holds TLA+ models of the sfsexp repository (a small s-expression
library by M. Sottile) and the TLC configurations that check them.
`PROJECT.json` lists each component, run, mutant, finding and hazard, and maps
every model definition to the source lines it translates.

## 1. Inventory of the system

| Component | Source | State it keeps | Operations |
|---|---|---|---|
| Continuation parser | `src/src/backup/parser_new.c` | `pcont_t`: atom buffer `val`/`vcur`, `state`, `depth`, `qdepth`, frame stack (`parse_data_t` fst/lst per open list), `lastPos`, `last_sexpr` | `cparse_sexp` (a 9-state loop), `last_sexp`, `destroy_cont`, `parse_sexp`, `addatom`, `newatom`, `newlist` |
| Greedy parser (older) | `src/src/backup/parser_old.c` | the same continuation; it scans whole atoms and strings in one step | `cparse_sexp`, `last_sexp`, `destroy_cont` |
| Ruby binding | `src/ruby/Sexp.c` | the Ruby array `@ary` of a `Sexp` object | `infer_sval_type`, `sexp_to_array`, `sexp_new`, `sexp_unparse_array`, `sexp_unparse` |
| Python binding | `src/python/pysexp.c` | none; it converts trees to lists and dicts | `iter`, `iter_list`, `iter_real_list`, `iter_val`, `pysexp_parse` |
| slisp environment | `src/examples/slisp/slisp_env.c` | a chain of scopes, each with `varnames`/`bindings` arrays and `numvars`/`numfree` | `enter_scope`, `exit_scope`, `add_varname`, `bind_variable`, `lookup_binding` |
| slisp memory checkpoints | `src/examples/slisp/slisp_memman.c` | a doubly linked list of allocations and two counters | `add_mem_checkpoint` (`MEM_CHECKPOINT`), `free_mem_checkpoint` (`FREE_CHECKPOINT`), `reset_memory_counters`, `report_memory_counters` |
| slisp evaluator | `src/examples/slisp/slisp_eval.c`, `slisp_util.c`, `slisp_driver.c` | none of its own (the environment argument is always NULL); it changes the checkpoint list | `_slisp_eval`, `eval_conditional`, `eval_binop`, `eval_binarith`, `eval_listop`, `tokenize`, `derive_type`, `main` |
| Old slisp | `src/examples/slisp/OLD/slisp_store.c`, `slisp_eval.c`, `driver.c` | a store: a linked list of name/value pairs | `set_variable`, `get_variable`, `init_store`, `destroy_store`, `_slisp_eval` (with `lambda`), `slisp_eval`, `main` |
| Tests | `src/tests/bug.c`, `vis_test.c` | none | one parse and print each |

Several pieces are called but are not in the repository:
- the `faststack` stack;
- `sexp.h`, with `sexp_t` and `print_sexp`;
- the buffered reader of spec section 6.

**How they interact.** A caller owns one continuation. It hands the parser
successive chunks of a character stream. After each call it reads
`cc->depth` and `cc->lastPos` and takes the completed expression with
`last_sexp`. The bindings and slisp are such callers, and they consume the
resulting trees.

**What is hard in the parser:**
- Every local of `cparse_sexp` is a register that must be saved at three exits and restored on entry.
- One buffer can hold several expressions, and they are returned one per call through `lastPos`.
- A chunk boundary can fall anywhere: inside an atom, inside a string, inside a raw `'( ... )` capture, or between expressions.
- The atom buffer has a fixed size.
- `depth` and `qdepth` are unsigned counters.

**What makes each component correct:**
- **Parser:**
  - The trees the caller takes out are the document's top-level expressions, in order and each once, however the document is cut into chunks (spec section 8).
  - The frame stack matches the depth.
  - `qdepth` counts the parentheses still open in a raw capture.
  - Every call returns.
  - No write goes past the atom buffer.
  - A stray `)` is reported, not a crash.
- **Bindings:** the conversion matches the classification and the shape the comments describe, and unparsing does not change the object.
- **slisp environment:** indexes stay within the arrays, and a bound name is found again.
- **Memory checkpoints:** the list stays well linked, and its head never points to freed memory.

## 2. Modules

| Module | Models |
|---|---|
| `SexpParser` | `parser_new.c`. VARIABLES: `pc` (Idle, Running or Crashed), `cc` (a continuation exists), `state`, `depth`, `qdepth`, `val` (the atom buffer's contents), `stack`, `buf`/`t` (the call's string and cursor), `lastPos`, `last_sexpr`, `oob` (a write past the atom buffer happened) and `spin` (a history variable). Actions: one per `case` of the loop (`StateStart` … `StateRawClose`), `EndOfInput` for the code after the loop, `CParseSexpFresh`/`CParseSexpResume` for the entry, `LastSexp`, `DestroyCont`. |
| `SexpReader` | The caller, modelled from spec section 6 since it is not in the repository. It streams documents through one continuation: `Feed`, `Continue` on pending text, `Check` (with `last_sexp`), `Finish`, `Restart` (with `destroy_cont`). It composes `SexpParser` by `EXTENDS`: the caller waits while the parser runs. |
| `ExprStream` | The abstract promise of the parser to its caller, spec sections 6 and 8. A stream is a document's sequence of top-level trees. `Deliver` hands over the next one, `EndStream` ends the stream once all are delivered, and `NewStream` starts a new document. Weak fairness on the first two. `SexpReader` instantiates it with `delivered <- got` and `done <- (phase = "Done")`, and `StreamRefined == Stream!StreamSpec` is checked as a PROPERTY. |
| `MCSexpReader` | The documents: lists of up to two items, nested two deep, over the items `a`, `ab`, `'a`, `""`, `") "`, `'()` and `'(())`, optionally followed by `(b)`. Each document records its trees and its allowed chunk boundaries. There are also one-document sets for the findings. |
| `SexpTree` | The tree shapes both parsers build (`newatom`, `newlist`, `sexp_t` from the missing `sexp.h`): an atom is `[ty, aty, val]`, a list `[ty, list]`. `IsNode` checks that a value is a well-formed tree. |
| `SexpParserOld` | `parser_old.c`. It shares the continuation fields with the newer parser but keeps the call's own cursor `vcur` separate from the saved `cc->vcur` (`ccvcur`), and `depth` separate from `cc->depth` (`ccdepth`), because the code does not save them on every path. `vbuf` is the atom buffer's contents and `valAlloc` records whether it is allocated. `stackFreed` records `destroy_stack` on the stack that `cc->stack` still names, and `uaf` records a use of it. `pc` names the block of `cparse_sexp` that runs next. Actions: `CParseSexpFresh`/`CParseSexpResume` (entry and restore, lines 118-164), `Lead` (leading whitespace, 174-212), `LoopEnd`, `OpenParen`, `CloseParen`, `AtomStart`, `ScanChar` (with escapes), `ScanSuspend`, `ScanDone`, `Exit` (378-431), plus `LastSexp` and `DestroyCont`. |
| `SexpReaderOld` | The same caller over the older parser. With `ContPerExpr` it destroys the continuation after each expression and parses the rest of the buffer on a fresh one, as `parse_sexp` does. It is checked against `ExprStream` like `SexpReader`. |
| `CLib` | `atoi` and `sprintf("%d")` on atom text, shared by the slisp evaluator and the Ruby binding. |
| `SlispMemman` | `slisp_memman.c`. The globals and the linked list are one record `[head, nxt, prv, addr, live, mc, fc, uaf]`, and each function is an operator on it (`AddCP`, `FreeCP`, `ResetCP`, `ReportCP`). A freed node keeps its fields until malloc hands it out again (lowest free id first); `uaf` records a read or write of a freed node. |
| `SlispEval` | `slisp_eval.c` and `slisp_util.c` as mutually RECURSIVE operators (`EvalX`, `EvalBinop`, `EvalBinarith`, `EvalNot`, `EvalConditional`, `EvalListop`). Each threads `[mm, fresh, uninit]` (the checkpoint list, the next sexp_t address, and whether `destroy_sexp` was handed a node whose `next` was never written) and returns an `ok` result, the code's NULL, or a crash (a NULL dereference or division by zero). `MEM_CHECKPOINT` and `FREE_CHECKPOINT` are applied exactly where the code calls them. A result records whether its constructor wrote `next`: `NewBool` (`new_sexp_bool`) and `DeepCopy` of an atom (`deep_copy_sexp`) do not. |
| `SlispDriver` | `main` of `slisp_driver.c`: `Start` (reset), `Read`, `Eval`, `FreeOut`, `Report`, `Reset`, one action per statement that changes state; `uninit` records a `destroy_sexp` of a node with an unwritten `next`. It composes the evaluator and the checkpoint list. |
| `MCSlispDriver` | Expressions over `0 1 2`, `a b`, `t f` with `+ - * / ^ = < <> not if`, at most one compound argument per call (`SafeInputs`) or two (`TwoCompoundInputs`), and `Meaning`, the integer semantics the evaluator is meant to give them. |
| `SlispEnv` | `slisp_env.c`: the scope chain as a sequence of scopes whose `varnames`/`bindings` arrays are functions on `0..numvars-1`. A store outside an array sets `oob` and is not applied; a NULL name reaching `strcmp` sets `crashed`. One action per function. The history variables `meant` (per scope, the names added and the values bound, in order) and `asked` (the name last looked up) give `MeantFor`, the binding `slisp_env.h` means a lookup to return. |
| `RubySexp` | `src/ruby/Sexp.c`: Ruby arrays on a heap (they are shared by reference), objects `[str, ary, sx]`, `InferSvalType` as written (ishex set to 2, tested against 1), `ToArray` (`sexp_to_array`), `UnparseArray` (shifts every element off), and the actions `New`, `Unparse`, `SetAry`. |
| `MCRubySexp` | Two objects; `PlainInputs` (decimals, a negative, words, a nested list, the empty string) and `EdgeInputs` (`0x12`, `0x1f`, `-`). |
| `PySexp` | `src/python/pysexp.c`: `Iter`, `IterList`, `IterRealList` as RECURSIVE operators to Python strings, lists and dicts (`PyDict_Merge` with override 0; merging a non-dict is an error that the call raises), and `Convention`, the conversion the comment at lines 43-63 states. |
| `MCPySexp` | All expressions of up to three elements over `a`, `b` whose elements are atoms or lists of up to two atoms (about 800). |
| `SlispOld` | `OLD/`: the first slisp. The store is a record `[root, vmap, freed, df]`: the evaluated copy, the varmap list of name/node pairs, the nodes of the copy freed so far, and whether one was freed twice. A node is named by its path in the copy, and `Destroyed` is what `destroy_sexp` frees from it (with or without its next siblings). `GetVariable`, `SetVariable`, `InitStore`, `DestroyStore` are the store's functions; `OldEval` and one RECURSIVE operator per operator family (`OldCompare`, `OldAddSub`, `OldMulDiv`, `OldExp`, `OldSqrt`, `OldNot`, `OldCarCdr`, `OldCons`, `OldIf`, `OldLambda` with `Bind`) are `_slisp_eval`, with reals as exact rationals (`Strtod`) printed `%f` (`FixedText`). The driver is `Init` (the first read) and `Eval` (one pass of the loop), with `phase` ending in Done, Crashed or Hung. |
| `MCSlispOld` | `test_expressions` holding one or two expressions: `+ / <` over `1 2`, `if`, `car` of a list, and lambda applied to one argument, to two, or twice to the same name. |
| `MCSexpReaderOld` | Documents of the older grammar (atoms `a`, `ab` and lists of up to two items, two deep, optionally followed by `(b)`). Chunk boundaries fall inside atoms, between an atom and whitespace, or between two `)`. There are also one-document sets for each defect. |

How the model corresponds to the code:
- **Locals.** The locals `t` and `buf` of `cparse_sexp` are the variables `t` and `buf`. They are cleared when the call returns.
- **Continuation fields.** `state`, `depth`, `qdepth`, `val` and `stack` stand for both the registers and the continuation fields. The code saves all of them at every return, so the two never differ between calls.
- **Frames.** A frame is the sequence of sibling nodes of one open list, so `fst` is its head and `lst` its last element. Linking a closed list into `lst->list` is an `EXCEPT` on the parent frame's last element.
- **Characters.** They come from a small set: one whitespace character, `a` and `b` as atom characters, `( ) " '`, and `-` as a character no case handles.
- **Atom buffer.** It is modelled by its contents. `oob` records whether a write reached index `MaxAtom` (`MAX_SEXPR_ATOM_SIZE`).
- **Undefined values.** The uninitialised `sx` and the malloc'ed `last_sexpr` are a nondeterministic choice of `{NULL, Garbage}`.
- **Empty-stack pop.** `pop` on an empty stack (its code is not in the repository) is taken to return NULL. The dereference that follows is `pc = "Crashed"`.
- **Spinning.** `spin` holds the configurations `<<state, depth, qdepth>>` seen since `t` last advanced. A repeat means the loop cycles forever, so the safety invariant `NoSpin` stands for "the call returns".

## 3. Runs

| Run | Expect | What it shows |
|---|---|---|
| `parse_chunked` | pass | Documents of up to 10 characters are cut at every boundary after an expression's `(` and the character after it. The caller gets exactly the document's trees (`ExtractedInOrder`), the frame stack has depth+1 frames (`StackHeightMatchesDepth`), `qdepth` equals the open parentheses in the captured text (`QDepthMatchesCapture`), no call cycles (`NoSpin`), and with `MaxAtom = 5` no write passes the atom buffer (`AtomWithinBuffer`). About 117k states, about 10 s. |
| `stream_refinement` | pass | `StreamRefined`: the caller with the parser implements `ExprStream` (see below), liveness included, with documents of up to 8 characters. About 25k states, about 20 s. |
| `split_at_depth0` | violation | A boundary at depth 0 loses the rest of the stream and hands over an uninitialised tree. |
| `old_parse_chunked` | pass | The older parser under a caller that uses one continuation per expression, with boundaries only where it resumes correctly. It delivers every document's trees in order (`ExtractedInOrder`) and never crashes (`NoCrash`). The freed stack is never used (`NoUseAfterFree`), and the caller implements `ExprStream` (`StreamRefined`). About 6k states, about 10 s. |
| `old_split_after_close` | violation | `((a)` then `b)`: the suspension saves the stale local `vcur` (line 380), and the next atom reads `ab`. |
| `slisp_driver` | pass | For every well-typed expression with at most one compound argument per call, and for two expressions in a row, `slisp_eval` gives its meaning (`ResultCorrect`). The report after each expression is silent (`NoLeakReported`). No call among these inputs holds two checkpoint records at once, so the list's append and unlink paths are reached only in `slisp_two_compound`. About 4.7k states, about 2 s. |
| `slisp_two_compound` | violation | `(= (+ 1 1) (* 2 1))` (`+` in place of `=` fails the same way): both arguments are checkpointed, freeing the first (the head, with a successor) leaves `mem_allocated` on the freed node (`slisp_memman.c:156`), and freeing the second walks from it (`NoUseAfterFree`). |
| `slisp_env_lookup` | violation | `enter_scope(1)`, `add_varname(x)`, `bind_variable(v)`, `lookup_binding(x)`: the name and the binding were both stored one past their arrays, so the lookup passes the NULL slot 0 to `strcmp` instead of returning `v` (`BoundNameFound`). |
| `ruby_unparse` | violation | `Sexp#unparse` empties `@ary` with `rb_ary_shift`, so `@ary` no longer represents the object's expression (`AryRepresentsSx`). |
| `old_lambda_double_free` | violation | `((lambda x y (* x y)) 1 1)`: lambda binds the argument nodes themselves with their next links restored, and `destroy_store` frees the entry for `y` and then `x` with its next sibling `y` again (`NoDoubleFree`). Binding `x` a second time makes `set_variable` loop, destroying its value on every pass. |
| `slisp_uninit_next` | violation | `(not (< 1 1))`: `not` destroys the comparison's result, built by `new_sexp_bool`, which never writes `next`; `destroy_sexp` follows it (`NextInitialised`). A bare atom does the same in the driver, because `deep_copy_sexp` leaves an atom's `next` unwritten. |
| `py_two_lists` | violation | `pysexp.parse("(() ())")` merges two lists as dicts and raises, where the comment's conventions give `[[], []]` (`FollowsConventions`). |

Each property of a passing run has a mutant in `PROJECT.json`: a plausible
slip in the modelled code that TLC shows the property catches. The mutants
are:
- the closing quote advancing twice;
- the wrong frame returned at depth 0;
- the drain loop missing;
- `qdepth` not restored on resume;
- `state = 1` forgotten after a string.

For the older parser the mutants are:
- an atom character advancing the cursor twice;
- the atom cursor not saved at a suspension inside an atom;
- a `)` not consumed after linking;
- the expression not stored at the exit;
- the stack destroyed on every return, not only at depth 0.

For slisp the mutants are:
- subtraction with its operands swapped (`ResultCorrect`);
- the driver freeing its result without `FREE_CHECKPOINT` (`NoLeakReported`).

**Old slisp: bounds.** One lambda argument is the smallest case in which a bound argument has no next sibling, two the smallest in which one does; two applications binding `x` are the smallest rebinding. Every non-lambda input and every lambda input followed by another expression checks that the evaluator and the driver loop are otherwise free of double frees (105 initial states). The run stops at the first violation, so it is a violation run.

**slisp: bounds and contract.** `MaxNodes = 4` checkpoint records; in the
passing run at most one is live at a time, since every path of the contract
frees an argument before it allocates the result. The inputs exercise every
operator of the contract with literal and compound arguments, both branches
of `if` with and without an else, the comparison of a number with a symbol
(always false), `^` with a zero exponent, and two expressions in a row, so
that the reset between them runs on a list the evaluation left. Outside the
contract (a zero divisor, `car`/`cdr`, a string in arithmetic, a comparison
whose compound arguments have different types) the code crashes or leaks,
which `EvalBinarith`, `EvalBinop` and `EvalListop` model and the hazards
list. Addresses restart at 1 per expression; this is sound because the list
is empty after every reset.

**Ruby, Python and the environment.** These are violation runs only: each
component's central promise fails on the smallest input, so there is no
contract left to check in a passing run. `MCRubySexp` uses two objects so
that `setAry` can share an array; `MCPySexp` enumerates every expression of
its shape, which includes every combination of one-element, atom-headed and
list-headed lists two deep; `SlispEnv` uses `MaxVars = 2`, `MaxDepth = 2`
and names of length 1 and 2, so that `varnames[strlen(name)]` falls both
inside and outside the array.

**Older parser: bounds and contract.** With documents of up to 10
characters, `old_parse_chunked` covers:
- atoms of one and two characters;
- empty and nested lists;
- two expressions in one buffer.

The boundaries are only those where `parser_old.c` resumes correctly:
- inside an atom;
- between an atom and whitespace;
- between two `)`.

With one continuation per expression, the run shows that within this
contract the older parser is right. Every other boundary breaks it.

**Bounds.** A `MaxDocLen` of 10 gives:
- three-deep nesting, e.g. `(('(()))`;
- two atoms in a list;
- strings holding `)` and a space;
- raw captures holding nested parentheses;
- two expressions in one buffer, e.g. `(a)(b)`.

Every boundary inside them is tried. Each case of the loop is entered both
at the start and in the middle of a chunk. In `parse_chunked`, `MaxAtom` is 5: the
longest text the buffer holds, the capture `(())` of `'(())`, plus its
terminator. At 4 the run fails, so `AtomWithinBuffer` is checked at the
boundary: every atom must start from a reset buffer, and its terminator must
fit. `stream_refinement` keeps `MaxAtom = 8`. The overflow of a short buffer
shows with `MaxAtom = 2` (see "Defects without a run").

**Fairness.** The loop of `cparse_sexp` runs without blocking until it
returns, which justifies weak fairness on `ParserMove`. The caller keeps
calling until its stream ends, which justifies weak fairness on `ClientStep`.

**The contract under which the parser is correct.** The passing run states
the contract under which the parser is right, and the violation runs show
what breaks outside it. The contract has three parts:
- Chunk boundaries fall strictly inside an expression, after its `(` and the next character.
- The caller re-calls on pending text before it delivers a new chunk.
- The caller calls `last_sexp` only when `depth = 0`.

## 4. Findings

The defects found in the continuation parser (those a run shows are in `PROJECT.json` "findings", the others under "hazards"):
- `lastPos` at depth 0 points at the old buffer's terminator (`parser_new.c:364`).
- `last_sexpr` is uninitialised (`parser_new.c:149`, `:376`).
- A stray `)` dereferences an empty pop (`:243`).
- Unhandled characters spin (`:204`).
- `'"` is not consumed (`:315`).
- `'a` is typed BASIC, against spec scenario 5.
- The atom buffer has no bound (`:291`).

**Older parser, all in `parser_old.c`.** These are the findings:
- The local `vcur` is saved stale at a depth > 0 exit (`:380`), so an atom continues another.
- The stack is destroyed at every complete expression while `cc->stack` keeps it (`:428`).

**Old slisp** (`OLD/`):
- `destroy_store` frees the second of two lambda arguments twice, because the stored argument keeps its next link (`slisp_store.c:194`, `slisp_eval.c:616`).
- `set_variable` on a bound name never advances and destroys its value again on every pass (`slisp_store.c:30`).

**slisp, Ruby and Python:**
- Freeing the head of the checkpoint list while it has successors leaves `mem_allocated` dangling (`slisp_memman.c:156`).
- `add_varname` and `bind_variable` index with `numfree`, which starts at `numvars` and which `add_varname` never changes (`slisp_env.c:92`, `:113`), so a bound name is never found again (`:137`).
- `sexp_unparse_array` empties `@ary` (`Sexp.c:347`).
- `iter_list` never clears `alldict` (`pysexp.c:120`).
- `new_sexp_bool` (`slisp_eval.c:50`) and `deep_copy_sexp` of an atom (`slisp_util.c:61`) never write `next`, and their results reach `destroy_sexp` in `not`, in `if` and in the driver.

**Defects without a run.** Some defects are shown by setting `Docs` in a copy of a
run's cfg to one of the one-document sets of the MC modules. They are not
kept as runs, and they are listed under "hazards" in `PROJECT.json`.

In `parser_new.c`:
- `(a))` crashes on the empty-stack pop (`:243`, `Docs <- StrayCloseDocs`, `NoCrash`; this was the run `stray_close`, retired to make room for `slisp_uninit_next`);
- `(-)` loops forever between states 1 and 4 (`:204`, `DashDocs`, `NoSpin`);
- with `MaxAtom = 2` the atom `ab` writes past the buffer (`:291`, `AtomWithinBuffer`);
- polling `last_sexp` on a fresh continuation returns garbage (`:149`, `ExtractOnlyAtDepth0 = FALSE`);
- `'"a"` is mis-parsed (`:315`, `QuotedStringDocs`);
- `'a` is typed BASIC, where spec scenario 5 says otherwise (`:327`).

In `parser_old.c`:
- a `)` at the start of a chunk drops the atom cut before it (`:349`, `CloseAfterCutDocs`);
- a cut right after the first `(` saves an uninitialised `vcur` (`:380`, `OpenCutDocs`, `NoCrash`);
- escapes keep their backslash (`:249`, `EscapeDocs`);
- whitespace left after an expression yields an uninitialised tree (`:412`, `TrailingSpaceDocs`);
- the stack destroyed at a complete expression is pushed onto by the next expression on the same continuation (`:428`, `NoUseAfterFree` with `ContPerExpr = FALSE`; this was the run `old_two_exprs`, retired to keep the number of runs within the project's limit);
- `cc->depth` is not written on the depth-0 exit (`:378`, `DepthMatchesStack` with `ContPerExpr = TRUE`, `ExtractOnlyAtDepth0 = FALSE`).

Elsewhere:
- `infer_sval_type` reads `0x12` as the integer 0, `0x1f` as a string and `-` as the integer 0 (`Sexp.c:89`, `Inputs <- EdgeInputs`);
- `reset_memory_counters` reads `tmp->next` after `free(tmp)` whenever an evaluation leaked (`slisp_memman.c:58`);
- `car` and `cdr` never free their evaluated argument, and `cdr` of a one-element list checkpoints NULL (`slisp_eval.c:379`);
- `derive_type("-")` is INT (`slisp_util.c:155`);
- `bind_variable` decrements `numfree` although its store fell outside the array, so a scope no longer holds `numvars - numfree` bindings (`slisp_env.c:113`, `BindingsCounted` under `SlispEnv.cfg`'s constants; this was the run `slisp_env_bind`, replaced by the deeper `slisp_env_lookup`).

## 5. Plan

Done: both parsers with their caller and the stream refinement; the slisp
checkpoints, evaluator and driver, with the unwritten `next` of the results
`new_sexp_bool` and `deep_copy_sexp` make; the slisp environment against the
binding its header describes (`BoundNameFound`); the Ruby and Python bindings;
the old slisp's store, evaluator and driver. The project holds twelve runs,
its limit, so further defects are listed under "Defects without a run" with
the constants that show them. Next, in order of value:
1. `eval_listop` (`car`, `cdr`, quoted atoms) under `ParseSexp` given by the parser model, composing `SexpParser` with the evaluator. Every `car`/`cdr` leaks its argument (`slisp_eval.c:379`), so this needs a property other than `NoLeakReported`.
2. Floats in the current evaluator and the Ruby binding, as `SlispOld` does with exact rationals.

Hazards with no covering property yet are listed in `PROJECT.json` with a
note.

## 6. Not modelled, and why

- **Missing code.** `faststack`, `sexp.h`, printing and the buffered reader are not in the repository. The reader is modelled from the spec as `SexpReader`.
- **I/O.** The test programs are I/O around one call; the printing in `slisp_driver.c` and the report's text are left out (only whether the report is silent, and what it reads, matter).
- **slisp floats and `sqrt`.** In the current evaluator, `%f` and `pow`/`sqrt` on doubles; no modelled input contains `.` or `sqrt`. (`SlispOld` models `%f` of exact rationals.)
- **`destroy_sexp` and `new_sexp_atom`** are the library's and are not in the repository. `destroy_sexp` is taken to free a node's next siblings, as `OLD/slisp_eval.c:625` assumes when it cuts `next` before calling it. `new_sexp_atom` is taken to write `next`.
- **Python reference counts** and the unused `ContFind`/`ContSexpr` types; Ruby's `getAry`/`getStr` only read, and the garbage collector's `sexp_rubyfree` is not modelled.
- **Old slisp, partly.** `dump_store` and the debug output only print. `get_variable` reads `entered_depth` and `shadowed`, and `_slisp_eval` reads `store->scope_depth`, none of which `slisp_store.h` declares, so `OLD/` does not compile as it stands; `set_variable` never creates a shadowed entry, so the model takes the first entry with the name. `sqrt` is exact only on perfect squares, the only ones the inputs produce. Results are not printed.
- **Spec character classes.** Tabs, CR/LF, digits and upper case behave like the modelled space and letters in every case of the loop.
- **Older parser, reused continuation.** When a chunk ends inside an atom, `cc->lastPos` is left stale (`parser_old.c:262`). This bites only on a continuation reused after an expression, and there the use of the destroyed stack (line 428) comes first. No run separates the two.
