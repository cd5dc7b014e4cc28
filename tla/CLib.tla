-------------------------------- MODULE CLib --------------------------------
(***************************************************************************)
(* The C library conversions the evaluator and the bindings call on atom  *)
(* text: atoi and sprintf with %d.  Text is a sequence of one-character   *)
(* strings.                                                                *)
(***************************************************************************)
EXTENDS Integers, Sequences, TLC

Digits == {"0", "1", "2", "3", "4", "5", "6", "7", "8", "9"}
DigitVal == [d \in Digits |-> CHOOSE k \in 0..9 :
                 d = <<"0", "1", "2", "3", "4", "5", "6", "7", "8", "9">>[k + 1]]

(* atoi: an optional '-' and the digits that follow it. *)
Atoi(s) ==
  LET RECURSIVE Num(_, _)
      Num(r, acc) == IF r # <<>> /\ Head(r) \in Digits
                       THEN Num(Tail(r), 10 * acc + DigitVal[Head(r)]) ELSE acc
  IN IF s # <<>> /\ Head(s) = "-" THEN -Num(Tail(s), 0) ELSE Num(s, 0)

(* sprintf(cbuf, "%d", n) *)
IntText(n) ==
  LET RECURSIVE Ds(_)
      Ds(k) == IF k < 10 THEN <<ToString(k)>> ELSE Ds(k \div 10) \o <<ToString(k % 10)>>
  IN IF n < 0 THEN <<"-">> \o Ds(-n) ELSE Ds(n)

=============================================================================
