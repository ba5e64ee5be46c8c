----------------------------- MODULE MCMempool ------------------------------
(***************************************************************************)
(* A small instance of Mempool: a sender who signs two transactions with   *)
(* one nonce and one with the next, two submission threads, a mempool of   *)
(* one, and blocks by others with one of her transactions.                 *)
(***************************************************************************)
EXTENDS Mempool, TLC

CONSTANTS alice, t1, t2

signed(a, n, op) == [from |-> a, nonce |-> n, op |-> op]

ThreeOfAlice == {signed(alice, 0, "pay"), signed(alice, 0, "cancel"), signed(alice, 1, "pay")}
TwoOfAlice == {signed(alice, 0, "pay"), signed(alice, 1, "pay")}

NoBlocks == {}
AliceBlocks == {<<signed(alice, 0, "pay")>>, <<signed(alice, 1, "pay")>>}

ThreadSymmetry == Permutations({t1, t2})

=============================================================================
