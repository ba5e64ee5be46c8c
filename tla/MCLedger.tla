------------------------------ MODULE MCLedger ------------------------------
(***************************************************************************)
(* A small instance of Ledger: two signers and the treasury, emission of   *)
(* 3 base units every 2 seconds (so that settling drops remainders), a     *)
(* stream whose last second pays less than its rate.                       *)
(***************************************************************************)
EXTENDS Ledger, Sequences

CONSTANTS alice, bob, treasury, Funds, Fee

MCAddr == {alice, bob, treasury}
MCFeeOf == [k \in Kinds |-> IF k = "onboard" THEN 0 ELSE Fee]
MCGenesis == [a \in MCAddr |-> IF a = alice THEN Funds ELSE 0]

\* settle_incoming as the source writes it: settle_stream over the recipient's
\* incoming index in ascending order.
RECURSIVE SettleLoop(_, _, _, _)
SettleLoop(m, a, t, id) ==
  IF id >= m.next_id THEN m
  ELSE SettleLoop(IF m.streams[id].to = a THEN settle_stream(m, id, t) ELSE m,
                  a, t, id + 1)

\* The closed form of settle_incoming is the loop of settle_stream in
\* crates/runtime/src/lib.rs, and after it the settled balance is the balance
\* State::balance reports (issue #35: reported funds are spendable).
SettleIncomingIsTheLoop ==
  \A a \in Addr :
    /\ settle_incoming(mem, a, now) = SettleLoop(mem, a, now, 0)
    /\ settle(settle_incoming(mem, a, now), a, now).settled_balance[a]
         = balance(mem, a, now)

=============================================================================
