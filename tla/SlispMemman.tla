----------------------------- MODULE SlispMemman -----------------------------
(***************************************************************************)
(* slisp_memman.c: the debugging checkpoints of slisp.  The globals        *)
(* mem_allocated, malloc_count and free_count and the doubly linked list   *)
(* of struct allocated_memory nodes are one record; each function of the  *)
(* file is an operator from that record to its successor, so that the      *)
(* evaluator and the driver apply them exactly where the code calls them. *)
(*                                                                         *)
(* Nodes are the ids 1..MaxNodes.  live is the set of nodes malloc'ed and *)
(* not yet freed; a freed node keeps its fields (free does not clear      *)
(* them) until malloc hands it out again, lowest id first.  uaf records   *)
(* that a field of a freed node was read or written.                      *)
(***************************************************************************)
EXTENDS SexpTree, SequencesExt, FiniteSets

CONSTANT MaxNodes      \* nodes the allocator can hand out

Node == 1..MaxNodes

(* The static globals, zero at program start. *)
EmptyMem ==
  [head |-> NULL,
   nxt  |-> [n \in Node |-> NULL],
   prv  |-> [n \in Node |-> NULL],
   addr |-> [n \in Node |-> NULL],
   live |-> {},
   mc   |-> 0,
   fc   |-> 0,
   uaf  |-> FALSE]

(* The nodes visited by for (tmp = p; tmp != NULL; tmp = tmp->next),     *)
(* cut after k of them so that a cycle still gives a finite value.       *)
RECURSIVE Walk(_, _, _)
Walk(m, p, k) ==
  IF p = NULL \/ k = 0 THEN <<>> ELSE <<p>> \o Walk(m, m.nxt[p], k - 1)

ListOf(m) == Walk(m, m.head, MaxNodes + 1)

(* Reading or writing the nodes S: a use after free unless all are live. *)
Touch(m, S) == [m EXCEPT !.uaf = @ \/ ~(S \subseteq m.live)]

(* malloc(sizeof(struct allocated_memory)) *)
NewNode(m) == CHOOSE n \in Node \ m.live : \A k \in Node \ m.live : n <= k

(* Lines 96-127: append a node for addr at the end of the list. *)
AddCP(m, a) ==
  LET n == NewNode(m)
  IN IF m.head = NULL
       THEN [m EXCEPT !.head = n, !.nxt[n] = NULL, !.prv[n] = NULL,
                      !.addr[n] = a, !.live = @ \cup {n}, !.mc = @ + 1]
       ELSE LET path == ListOf(m)
                last == path[Len(path)]
                m1   == Touch(m, ToSet(path))
            IN [m1 EXCEPT !.nxt[last] = n, !.prv[n] = last, !.nxt[n] = NULL,
                          !.addr[n] = a, !.live = @ \cup {n}, !.mc = @ + 1]

(* Lines 133-161: unlink and free the first node recorded for addr; an     *)
(* address not found only prints a warning.  The head is cleared only     *)
(* when it is the last node.                                               *)
FreeCP(m, a) ==
  LET path  == ListOf(m)
      hits  == {i \in DOMAIN path : m.addr[path[i]] = a}
  IN IF hits = {}
       THEN Touch(m, ToSet(path))
       ELSE LET i  == CHOOSE j \in hits : \A k \in hits : j <= k
                t  == path[i]
                p  == m.prv[t]
                q  == m.nxt[t]
                m1 == Touch(m, ToSet(SubSeq(path, 1, i))
                                 \cup ({p, q} \ {NULL}))
                m2 == IF p # NULL THEN [m1 EXCEPT !.nxt[p] = q] ELSE m1
                m3 == IF q # NULL THEN [m2 EXCEPT !.prv[q] = p] ELSE m2
            IN [m3 EXCEPT !.head = IF t = m.head /\ m3.nxt[t] = NULL
                                     THEN NULL ELSE @,
                          !.live = @ \ {t}, !.fc = @ + 1]

(* Lines 51-62: free every node; the loop reads tmp->next after           *)
(* free(tmp), so a non-empty list is always a use after free.             *)
ResetCP(m) ==
  LET path == ListOf(m)
  IN [m EXCEPT !.mc = 0, !.fc = 0, !.head = NULL,
               !.live = @ \ ToSet(path),
               !.uaf = @ \/ ~(ToSet(path) \subseteq m.live) \/ path # <<>>]

(* Lines 68-90: silent when the counts agree and the list is empty;      *)
(* otherwise it walks the list to print every record.                    *)
ReportSilent(m) == m.mc = m.fc /\ m.head = NULL

ReportCP(m) == IF ReportSilent(m) THEN m ELSE Touch(m, ToSet(ListOf(m)))

=============================================================================
