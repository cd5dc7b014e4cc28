----------------------------- MODULE SlispDriver -----------------------------
(***************************************************************************)
(* slisp_driver.c: main reads expressions one at a time, evaluates each,  *)
(* frees the result through FREE_CHECKPOINT, reports the checkpoints that *)
(* are still open and resets them.  It composes the evaluator (SlispEval) *)
(* with the checkpoint list (SlispMemman): the list is the state both     *)
(* change.  Printing and destroy_sexp do not touch the list and are left  *)
(* out.  Addresses restart at 1 for each expression: the list is empty   *)
(* after every reset, so no older address can be compared with a new one. *)
(***************************************************************************)
EXTENDS SlispEval

CONSTANT Inputs          \* possible contents of test_expressions

VARIABLES
  input,     \* expressions not read yet
  in,        \* the expression being evaluated
  out,       \* slisp_eval's result: NULL or [kind, sx, addr]
  mm,        \* the checkpoint list
  phase,     \* the statement of main that runs next
  silent,    \* report_memory_counters printed nothing
  uninit     \* destroy_sexp read a next pointer that was never written

vars == <<input, in, out, mm, phase, silent, uninit>>

Init ==
  /\ input \in Inputs
  /\ in = NULL /\ out = NULL /\ mm = EmptyMem
  /\ phase = "Start" /\ silent = TRUE /\ uninit = FALSE

(* Line 61. *)
Start ==
  /\ phase = "Start"
  /\ mm' = ResetCP(mm) /\ phase' = "Read"
  /\ UNCHANGED <<input, in, out, silent, uninit>>

(* Lines 64 and 91: read_one_sexp; NULL at the end of the file ends main. *)
Read ==
  /\ phase = "Read"
  /\ IF input = <<>>
       THEN phase' = "Done" /\ UNCHANGED <<input, in>>
       ELSE in' = Head(input) /\ input' = Tail(input) /\ phase' = "Eval"
  /\ UNCHANGED <<out, mm, silent, uninit>>

(* Lines 66-68: slisp_eval(in). *)
Eval ==
  /\ phase = "Eval"
  /\ LET r == SlispEval(in, mm)
     IN /\ uninit' = (uninit \/ r.st.uninit)
        /\ IF r.res.kind = "crash"
             THEN phase' = "Crashed" /\ UNCHANGED <<out, mm>>
             ELSE /\ out' = IF r.res.kind = "ok" THEN r.res ELSE NULL
                  /\ mm' = r.st.mm
                  /\ phase' = "Free"
  /\ UNCHANGED <<input, in, silent>>

(* Mutant: the result is destroyed without FREE_CHECKPOINT. *)
FreeOutUnchecked ==
  /\ phase = "Free"
  /\ phase' = "Report"
  /\ uninit' = (uninit \/ (out # NULL /\ ~out.nx))
  /\ UNCHANGED <<input, in, out, mm, silent>>

(* Lines 77-82: destroy_sexp(in); if out: destroy_sexp(out), FREE_CHECKPOINT(out). *)
FreeOut ==
  /\ phase = "Free"
  /\ mm' = IF out # NULL THEN FreeCP(mm, out.addr) ELSE mm
  /\ uninit' = (uninit \/ (out # NULL /\ ~out.nx))
  /\ phase' = "Report"
  /\ UNCHANGED <<input, in, out, silent>>

(* Line 84. *)
Report ==
  /\ phase = "Report"
  /\ silent' = ReportSilent(mm) /\ mm' = ReportCP(mm)
  /\ phase' = "Reset"
  /\ UNCHANGED <<input, in, out, uninit>>

(* Line 85. *)
Reset ==
  /\ phase = "Reset"
  /\ mm' = ResetCP(mm) /\ phase' = "Read"
  /\ UNCHANGED <<input, in, out, silent, uninit>>

Next == Start \/ Read \/ Eval \/ FreeOut \/ Report \/ Reset

Spec == Init /\ [][Next]_vars

-----------------------------------------------------------------------------

(* No checkpoint function reads or writes a record after it was freed:   *)
(* neither free_mem_checkpoint, walking from mem_allocated, nor            *)
(* add_mem_checkpoint, report or reset.                                    *)
NoUseAfterFree == ~mm.uaf

(* Every allocation the evaluator checkpointed for an expression has been *)
(* freed by the time the driver reports: the report is silent.            *)
NoLeakReported == phase = "Reset" => silent

(* destroy_sexp follows a node's next pointer, so every result handed to  *)
(* it, by the driver (line 80) or by an operator freeing an evaluated     *)
(* argument, has a next that some constructor wrote: new_sexp_bool and    *)
(* deep_copy_sexp of an atom leave it as malloc returned it.             *)
NextInitialised == ~uninit

=============================================================================
