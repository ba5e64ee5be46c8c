------------------------------ MODULE FinalLog ------------------------------
(***************************************************************************)
(* What k-deep finality promises: each node has a log of finalized blocks  *)
(* to which blocks are only ever appended, and a snapshot that holds a     *)
(* prefix of it.  A crash takes the node back to its snapshot and no       *)
(* further.                                                                *)
(***************************************************************************)
EXTENDS Integers, Sequences

CONSTANT Nodes

VARIABLES
  log,    \* the finalized blocks of each node
  saved   \* those of them that its snapshot holds

Init ==
  /\ log = [n \in Nodes |-> <<>>]
  /\ saved = [n \in Nodes |-> <<>>]

extends(s, t) == Len(t) <= Len(s) /\ SubSeq(s, 1, Len(t)) = t

others(f, g, n) == \A m \in Nodes \ {n} : f[m] = g[m]

\* More blocks become final, and the snapshot may be taken.
Advance(n) ==
  /\ extends(log'[n], log[n])
  /\ saved'[n] \in {saved[n], log'[n]}

Crash(n) ==
  /\ log'[n] = saved[n]
  /\ saved'[n] = saved[n]

Next ==
  \E n \in Nodes :
    /\ others(log', log, n)
    /\ others(saved', saved, n)
    /\ Advance(n) \/ Crash(n)

Spec == Init /\ [][Next]_<<log, saved>>

=============================================================================
