------------------------------- MODULE Totals -------------------------------
(***************************************************************************)
(* The total of a function from a finite set to the naturals, and three    *)
(* arithmetic helpers that stand for Rust's integer methods.               *)
(*                                                                         *)
(* A total is defined by counting: f[x] is a stack of f[x] coins on x, and *)
(* Total(f) is the number of coins on the table.  LedgerProofs derives     *)
(* from it, with the library's theorems on cardinality and with no         *)
(* induction, how a total changes when the function does.                  *)
(***************************************************************************)
EXTENDS Integers, FiniteSets

Larger(a, b) == IF a >= b THEN a ELSE b     \* a.max(b)

Smaller(a, b) == IF a <= b THEN a ELSE b    \* a.min(b)

Monus(a, b) == IF a >= b THEN a - b ELSE 0  \* a.saturating_sub(b)

Stack(x, n) == {x} \X (1..n)

Coins(f) == UNION {Stack(x, f[x]) : x \in DOMAIN f}

Total(f) == Cardinality(Coins(f))

=============================================================================
