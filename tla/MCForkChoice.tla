---------------------------- MODULE MCForkChoice ----------------------------
(* ForkChoice with two validators and a concrete order of hashes.         *)
EXTENDS ForkChoice

CONSTANTS n1, n2

TwoValidators == <<n1, n2>>

AllFull == [n \in {n1, n2} |-> {"full"}]

SomeFail == [n \in {n1, n2} |-> IF n = n1 THEN {"full"} ELSE {"full", "drop", "late"}]

Rank(k) == CASE k = "empty" -> 1 [] k = "full" -> 2 [] k = "drop" -> 3 [] k = "late" -> 4

\* Hashes are compared by length, then at the last entry where two blocks differ.
ByEntry(a, b) ==
  \/ Len(a) < Len(b)
  \/ /\ Len(a) = Len(b)
     /\ \E k \in 1..Len(a) :
          /\ \A j \in (k + 1)..Len(a) : a[j] = b[j]
          /\ \/ a[k].hash < b[k].hash
             \/ a[k].hash = b[k].hash /\ a[k].view < b[k].view
             \/ a[k].hash = b[k].hash /\ a[k].view = b[k].view
                  /\ Rank(a[k].kind) < Rank(b[k].kind)

\* What the theorems about ForkChoice suppose of the order, on blocks of up to two entries.
ASSUME ByEntryOrders == HashesOrdered(UNION {[1..k -> Entries] : k \in 0..2})

=============================================================================
