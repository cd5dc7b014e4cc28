------------------------------ MODULE SlispEnv ------------------------------
(***************************************************************************)
(* slisp_env.c: the chain of scopes meant for lambda.  A caller holds the *)
(* current scope and passes it to each function; the chain from it to the *)
(* outermost scope is the sequence scopes, innermost last.  A scope's     *)
(* varnames and bindings arrays are functions on 0..numvars-1 (calloc     *)
(* leaves every slot NULL); a store outside them, or through the arrays a *)
(* scope with no variables never allocated, sets oob and is not applied.  *)
(***************************************************************************)
EXTENDS Integers, Sequences, SequencesExt, FiniteSets

CONSTANTS
  NULL,        \* the null pointer
  Names,       \* variable names, as strings
  Vals,        \* expressions that can be bound
  MaxVars,     \* largest numvars passed to enter_scope
  MaxDepth     \* deepest chain of scopes

VARIABLES
  scopes,      \* the scope chain, outermost first; <<>> is cur == NULL
  oob,         \* a store fell outside an array
  crashed,     \* a NULL name was passed to strcmp
  looked,      \* what the last lookup_binding returned
  asked,       \* the name the last lookup_binding was given, or NULL
  meant        \* per scope, the names added and the values bound, in order

vars == <<scopes, oob, crashed, looked, asked, meant>>

Slots(n) == 0..(n - 1)

(* The struct slisp_env_struct of slisp_env.h; numvars = 0 allocates no arrays. *)
NewScope(d, n) ==
  [depth |-> d, numvars |-> n, numfree |-> n,
   varnames |-> [i \in Slots(n) |-> NULL],
   bindings |-> [i \in Slots(n) |-> NULL],
   body |-> NULL]

Top == scopes[Len(scopes)]

(* arr[i] = v on one of the scope's arrays, or a stray store. *)
Store(s, arr, i, v) ==
  IF i \in Slots(s.numvars) THEN [s EXCEPT ![arr][i] = v] ELSE s
Strays(s, i) == i \notin Slots(s.numvars)

SetTop(s) == scopes' = [scopes EXCEPT ![Len(scopes)] = s]

Init ==
  /\ scopes = <<>> /\ oob = FALSE /\ crashed = FALSE /\ looked = NULL
  /\ asked = NULL /\ meant = <<>>

(* Lines 41-70. *)
EnterScope(n) ==
  /\ Len(scopes) < MaxDepth
  /\ scopes' = Append(scopes, NewScope(IF scopes = <<>> THEN 0 ELSE Top.depth + 1, n))
  /\ meant' = Append(meant, [names |-> <<>>, vals |-> <<>>])
  /\ UNCHANGED <<oob, crashed, looked, asked>>

(* Lines 72-83: free(cur), return cur->parent. *)
ExitScope ==
  /\ scopes # <<>>
  /\ scopes' = Front(scopes) /\ meant' = Front(meant)
  /\ UNCHANGED <<oob, crashed, looked, asked>>

(* Lines 85-100: the name goes to slot numfree, which is never changed   *)
(* here; then varnames[strlen(name)] is set to NULL.                      *)
AddVarname(name) ==
  /\ scopes # <<>>
  /\ LET idx  == Top.numvars - (Top.numvars - Top.numfree)
         slen == Len(name)
         s1   == Store(Top, "varnames", idx, name)
     IN /\ SetTop(Store(s1, "varnames", slen, NULL))
        /\ oob' = (oob \/ Strays(Top, idx) \/ Strays(Top, slen))
  /\ meant' = IF Len(meant[Len(meant)].names) < Top.numvars
                 THEN [meant EXCEPT ![Len(meant)].names = Append(@, name)]
                 ELSE meant
  /\ UNCHANGED <<crashed, looked, asked>>

(* Lines 102-119: a scope with no free variables only prints an error.    *)
BindVariable(v) ==
  /\ scopes # <<>>
  /\ IF Top.numfree = 0
       THEN UNCHANGED <<scopes, oob, meant>>
       ELSE LET idx == Top.numvars - (Top.numvars - Top.numfree)
            IN /\ SetTop([Store(Top, "bindings", idx, v) EXCEPT !.numfree = @ - 1])
               /\ oob' = (oob \/ Strays(Top, idx))
               /\ meant' = [meant EXCEPT ![Len(meant)].vals = Append(@, v)]
  /\ UNCHANGED <<crashed, looked, asked>>

(* Lines 121-128. *)
SetBody(b) ==
  /\ scopes # <<>>
  /\ SetTop([Top EXCEPT !.body = b])
  /\ UNCHANGED <<oob, crashed, looked, asked, meant>>

(* Lines 130-145: scan varnames from slot 0, then the parent.  The       *)
(* result is bindings[i] of the first scope, innermost first, with the   *)
(* name; a NULL slot met before it crashes strcmp.                         *)
RECURSIVE Lookup(_, _)
Lookup(name, k) ==
  IF k = 0 THEN [crash |-> FALSE, val |-> NULL]
  ELSE LET s    == scopes[k]
           hits == {i \in Slots(s.numvars) : s.varnames[i] = name}
           nul  == {i \in Slots(s.numvars) : s.varnames[i] = NULL}
           stop == hits \cup nul
       IN IF stop = {} THEN Lookup(name, k - 1)
          ELSE LET i == Min(stop)
               IN IF i \in nul THEN [crash |-> TRUE, val |-> NULL]
                  ELSE [crash |-> FALSE, val |-> s.bindings[i]]

LookupBinding(name) ==
  /\ scopes # <<>>
  /\ LET r == Lookup(name, Len(scopes))
     IN crashed' = r.crash /\ looked' = r.val
  /\ asked' = name
  /\ UNCHANGED <<scopes, oob, meant>>

(* A crash in strcmp ends the program. *)
Next ==
  /\ ~crashed
  /\ \/ \E n \in 0..MaxVars : EnterScope(n)
     \/ ExitScope
     \/ \E name \in Names : AddVarname(name) \/ LookupBinding(name)
     \/ \E v \in Vals : BindVariable(v) \/ SetBody(v)

Spec == Init /\ [][Next]_vars

-----------------------------------------------------------------------------

(* slisp_env.h: numfree is the "number of free variables" and each      *)
(* binding "matches the name in position": after any sequence of calls,  *)
(* every scope holds exactly numvars - numfree bindings in its array.     *)
BindingsCounted ==
  \A k \in DOMAIN scopes :
    Cardinality({i \in Slots(scopes[k].numvars) : scopes[k].bindings[i] # NULL})
      = scopes[k].numvars - scopes[k].numfree

(* The binding a caller meant for a name: in the innermost scope that    *)
(* was given the name, the value of the bind with the name's position.    *)
(* slisp_env.h says each binding "matches the name in position", and      *)
(* add_varname and bind_variable both take the position from numfree, so *)
(* the k-th bind of a scope is meant for its k-th name.                   *)
MeantFor(name) ==
  LET Pos(k) == {i \in DOMAIN meant[k].names : meant[k].names[i] = name}
      ks == {k \in DOMAIN meant : Pos(k) # {}}
  IN IF ks = {} THEN NULL
     ELSE LET k == Max(ks)
              i == Min(Pos(k))
          IN IF i <= Len(meant[k].vals) THEN meant[k].vals[i] ELSE NULL

(* lookup_binding finds what a caller bound: after add_varname and        *)
(* bind_variable on a scope, a lookup of the name from the innermost      *)
(* scope returns that binding, and does not crash on the way.             *)
BoundNameFound ==
  asked # NULL /\ MeantFor(asked) # NULL => ~crashed /\ looked = MeantFor(asked)

(* No call stores outside the varnames or bindings array of its scope.   *)
NoOutOfBounds == ~oob

=============================================================================
