------------------------------- MODULE Ledger -------------------------------
(***************************************************************************)
(* Accounts, streaming emission, the gas fee and payment streams:          *)
(* crates/runtime/src/lib.rs, driven by crates/exec/src/apply.rs.          *)
(*                                                                         *)
(* One action is one transaction of a block (apply_tx: fee, operation and  *)
(* the post-state of a failed operation), or the start of the next block   *)
(* (a later timestamp), or the one write the humanity lifecycle makes to   *)
(* accounts (sync_account_verified).                                       *)
(*                                                                         *)
(* Operators that stand for a Rust function keep its name, take the state  *)
(* m and return the state after it; those that may fail return             *)
(* [ok, m], and m then holds whatever was written before the error.        *)
(*                                                                         *)
(* The nonce is not kept here: nonceOk says whether tx.nonce was the       *)
(* sender's nonce (Mempool models the counter).  An absent account is the  *)
(* default account.                                                        *)
(***************************************************************************)
EXTENDS Totals

CONSTANTS
  Addr,                  \* account addresses, TREASURY among them
  TREASURY,              \* the reserved fee account, which signs nothing
  UBI,                   \* base units emitted per human and period
  EMISSION_PERIOD_SECS,  \* length of the emission period
  MAX_RATE,              \* bound on a stream's rate
  FeeOf,                 \* fee_for_gas of each kind of transaction
  Genesis,               \* settled balances the chain is seeded with
  Founders,              \* humans verified at genesis
  Values, Rates, Deposits,  \* amounts that transactions name
  Subjects,              \* signers whose humanity status changes
  MaxStreams,            \* bound: streams ever opened
  MaxTime                \* bound: last block timestamp

Kinds == {"transfer", "stream", "onboard", "hub"}

Signers == Addr \ {TREASURY}

ASSUME LedgerConstants ==
  /\ IsFiniteSet(Addr)
  /\ TREASURY \in Addr
  /\ UBI \in Nat
  /\ EMISSION_PERIOD_SECS \in Nat \ {0}
  /\ MAX_RATE \in Nat
  /\ FeeOf \in [Kinds -> Nat]
  /\ FeeOf["onboard"] = 0
  /\ Genesis \in [Addr -> Nat]
  /\ Founders \subseteq Signers
  /\ Subjects \subseteq Signers
  /\ Values \subseteq Nat
  /\ Rates \subseteq Nat
  /\ Deposits \subseteq Nat
  /\ MaxStreams \in Nat
  /\ MaxTime \in Nat

VARIABLES
  mem,          \* MemState: accounts and streams, with the ghost field emitted
  now,          \* timestamp of the block being executed
  verifiedSecs  \* ghost: seconds each account has spent verified

vars == <<mem, now, verifiedSecs>>

(***************************************************************************)
(* Emission and settlement of one account.                                 *)
(***************************************************************************)
since(m, a) == Larger(m.last_settled_at[a], m.verified_at[a])

pending_emission(m, a, t) ==
  IF m.verified[a]
    THEN (UBI * Monus(t, since(m, a))) \div EMISSION_PERIOD_SECS
    ELSE 0

\* Mutant: the emission is paid, the clock is not advanced.
settle_Unclocked(m, a, t) ==
  [m EXCEPT !.settled_balance[a] = @ + pending_emission(m, a, t),
            !.emitted[a]         = @ + pending_emission(m, a, t)]

\* Mutant: the clock is advanced, the emission is not paid.
settle_Unpaid(m, a, t) == [m EXCEPT !.last_settled_at[a] = Larger(@, t)]

settle(m, a, t) ==
  [m EXCEPT !.settled_balance[a] = @ + pending_emission(m, a, t),
            !.last_settled_at[a] = Larger(@, t),
            !.emitted[a]         = @ + pending_emission(m, a, t)]

(***************************************************************************)
(* Streams.                                                                *)
(***************************************************************************)
t_end(s) ==
  s.started_at + (s.deposit \div s.rate)
               + (IF s.deposit % s.rate > 0 THEN 1 ELSE 0)

end_or_stop(s) ==
  IF s.status = "Stopped" THEN Smaller(s.stopped_at, t_end(s)) ELSE t_end(s)

\* Mutant: the partial last second counts in full.
accrued_Uncapped(s, t) ==
  s.rate * Monus(Smaller(t, end_or_stop(s)), s.started_at)

accrued(s, t) ==
  Smaller(s.rate * Monus(Smaller(t, end_or_stop(s)), s.started_at), s.deposit)

owed(s, t) == Monus(accrued(s, t), s.drawn)

\* What settle_stream writes back for the stream itself.
paid(s, t) ==
  [s EXCEPT !.drawn  = @ + owed(s, t),
            !.status = IF s.drawn + owed(s, t) >= s.deposit /\ @ = "Active"
                         THEN "Completed" ELSE @]

settle_stream(m, id, t) ==
  LET s == m.streams[id] IN
  [settle(m, s.to, t) EXCEPT !.settled_balance[s.to] = @ + owed(s, t),
                             !.streams[id]           = paid(s, t)]

incoming(m, a) == {id \in DOMAIN m.streams : m.streams[id].to = a}

\* Mutant: the inflow is paid and the streams are not written back.
settle_incoming_Undrawn(m, a, t) ==
  IF incoming(m, a) = {} THEN m
  ELSE [settle(m, a, t) EXCEPT
          !.settled_balance[a] =
              @ + Total([id \in incoming(m, a) |-> owed(m.streams[id], t)])]

\* The loop of settle_stream over incoming(m, a), in closed form: settling an
\* account twice at one instant is settling it once, so only the first of the
\* streams moves the emission clock (MCLedger compares it with the loop).
settle_incoming(m, a, t) ==
  IF incoming(m, a) = {} THEN m
  ELSE [settle(m, a, t) EXCEPT
          !.settled_balance[a] =
              @ + Total([id \in incoming(m, a) |-> owed(m.streams[id], t)]),
          !.streams =
              [id \in DOMAIN m.streams |->
                 IF m.streams[id].to = a THEN paid(m.streams[id], t)
                                         ELSE m.streams[id]]]

\* State::balance: what the RPC reports, pending emission and inflow included.
balance(m, a, t) ==
  m.settled_balance[a] + pending_emission(m, a, t)
    + Total([id \in incoming(m, a) |-> owed(m.streams[id], t)])

(***************************************************************************)
(* The operations of a transaction.                                        *)
(***************************************************************************)
Ok(m)  == [ok |-> TRUE,  m |-> m]
Err(m) == [ok |-> FALSE, m |-> m]

\* Move v from one settled balance to another.
move(m, a, b, v) ==
  [m EXCEPT !.settled_balance =
     [x \in Addr |-> @[x] - (IF x = a THEN v ELSE 0)
                          + (IF x = b THEN v ELSE 0)]]

\* Mutant: the treasury is paid, the sender is not debited.
charge_fee_Undebited(m, from, fee, t) ==
  LET m1 == settle_incoming(m, from, t)
      m2 == settle(m1, from, t)
  IN IF m2.settled_balance[from] < fee THEN Err(m1)
     ELSE IF fee = 0 THEN Ok(m2)
     ELSE Ok([settle(m2, TREASURY, t) EXCEPT !.settled_balance[TREASURY] = @ + fee])

charge_fee(m, from, fee, t) ==
  LET m1 == settle_incoming(m, from, t)
      m2 == settle(m1, from, t)
  IN IF m2.settled_balance[from] < fee THEN Err(m1)
     ELSE IF fee = 0 THEN Ok(m2)
     ELSE Ok(move(settle(m2, TREASURY, t), from, TREASURY, fee))

\* Mutant: the balance check is dropped.
apply_transfer_Overdraws(m, from, to, value, nonceOk, t) ==
  LET m2 == settle(settle_incoming(m, from, t), from, t)
  IN IF ~nonceOk \/ from = to THEN Ok(m2)
     ELSE Ok(move(settle(m2, to, t), from, to, value))

apply_transfer(m, from, to, value, nonceOk, t) ==
  LET m1 == settle_incoming(m, from, t)
      m2 == settle(m1, from, t)
  IN IF ~nonceOk \/ m2.settled_balance[from] < value THEN Err(m1)
     ELSE IF from = to THEN Ok(m2)
     ELSE Ok(move(settle(m2, to, t), from, to, value))

consume_nonce(m, from, nonceOk, t) ==
  IF nonceOk THEN Ok(settle(m, from, t)) ELSE Err(m)

new_stream(from, to, rate, deposit, t) ==
  [from |-> from, to |-> to, rate |-> rate, deposit |-> deposit, drawn |-> 0,
   started_at |-> t, status |-> "Active", stopped_at |-> 0]

put_new_stream(m, s) ==
  [m EXCEPT !.next_id = @ + 1,
            !.streams = [id \in DOMAIN m.streams \cup {m.next_id} |->
                           IF id = m.next_id THEN s ELSE m.streams[id]]]

open_stream(m, from, to, rate, deposit, t) ==
  LET m1 == settle(m, from, t)
  IN IF \/ from = to \/ rate = 0 \/ deposit = 0 \/ rate > MAX_RATE
        \/ m1.settled_balance[from] < deposit
       THEN Err(m)
       ELSE Ok(put_new_stream(
                 [m1 EXCEPT !.settled_balance[from] = @ - deposit],
                 new_stream(from, to, rate, deposit, t)))

\* Mutant: the refund is computed from the stream as it was before its payout.
stop_stream_StaleRefund(m, id, caller, t) ==
  IF \/ id \notin DOMAIN m.streams
     \/ m.streams[id].from # caller
     \/ m.streams[id].status # "Active"
    THEN Err(m)
    ELSE LET m1 == settle_stream(m, id, t)
             s  == m.streams[id]
         IN Ok([settle(m1, s.from, t) EXCEPT
                  !.settled_balance[s.from] = @ + Monus(s.deposit, s.drawn),
                  !.streams[id] = [m1.streams[id] EXCEPT !.status     = "Stopped",
                                                         !.stopped_at = t]])

\* Mutant: a stream that is no longer Active can be stopped again.
stop_stream_Twice(m, id, caller, t) ==
  IF id \notin DOMAIN m.streams \/ m.streams[id].from # caller THEN Err(m)
  ELSE LET m1 == settle_stream(m, id, t)
           s  == m1.streams[id]
       IN Ok([settle(m1, s.from, t) EXCEPT
                !.settled_balance[s.from] = @ + Monus(s.deposit, s.drawn),
                !.streams[id] = [s EXCEPT !.status     = "Stopped",
                                          !.stopped_at = t]])

stop_stream(m, id, caller, t) ==
  IF \/ id \notin DOMAIN m.streams
     \/ m.streams[id].from # caller
     \/ m.streams[id].status # "Active"
    THEN Err(m)
    ELSE LET m1 == settle_stream(m, id, t)
             s  == m1.streams[id]
         IN Ok([settle(m1, s.from, t) EXCEPT
                  !.settled_balance[s.from] = @ + Monus(s.deposit, s.drawn),
                  !.streams[id] = [s EXCEPT !.status     = "Stopped",
                                            !.stopped_at = t]])

\* The failed-transaction post-state of apply_tx: the fee is kept, the sender is
\* settled and its nonce set.
after_op(r, from, t) == IF r.ok THEN r.m ELSE settle(r.m, from, t)

(***************************************************************************)
(* The state machine.                                                      *)
(***************************************************************************)
Init ==
  /\ mem = [settled_balance |-> Genesis,
            last_settled_at |-> [a \in Addr |-> 0],
            verified        |-> [a \in Addr |-> a \in Founders],
            verified_at     |-> [a \in Addr |-> 0],
            streams         |-> [id \in {} |-> 0],
            next_id         |-> 0,
            emitted         |-> [a \in Addr |-> 0]]
  /\ now = 0
  /\ verifiedSecs = [a \in Addr |-> 0]

\* A later block: followers refuse a timestamp that does not advance.
NewBlock ==
  /\ now' \in (now + 1)..MaxTime
  /\ verifiedSecs' = [a \in Addr |-> verifiedSecs[a] +
                        (IF mem.verified[a] THEN now' - now ELSE 0)]
  /\ UNCHANGED mem

Transfer(from, to, value, nonceOk) ==
  LET c == charge_fee(mem, from, FeeOf["transfer"], now)
  IN /\ mem' = IF c.ok
                 THEN after_op(apply_transfer(c.m, from, to, value, nonceOk, now),
                               from, now)
                 ELSE c.m
     /\ UNCHANGED <<now, verifiedSecs>>

OpenStream(from, to, rate, deposit, nonceOk) ==
  LET c == charge_fee(mem, from, FeeOf["stream"], now)
      n == consume_nonce(c.m, from, nonceOk, now)
  IN /\ mem.next_id < MaxStreams
     /\ mem' = IF ~c.ok THEN c.m
               ELSE IF ~n.ok THEN after_op(n, from, now)
               ELSE after_op(open_stream(n.m, from, to, rate, deposit, now),
                             from, now)
     /\ UNCHANGED <<now, verifiedSecs>>

StopStream(caller, id, nonceOk) ==
  LET c == charge_fee(mem, caller, FeeOf["stream"], now)
      n == consume_nonce(c.m, caller, nonceOk, now)
  IN /\ mem' = IF ~c.ok THEN c.m
               ELSE IF ~n.ok THEN after_op(n, caller, now)
               ELSE after_op(stop_stream(n.m, id, caller, now), caller, now)
     /\ UNCHANGED <<now, verifiedSecs>>

\* A transaction of another hub, as the ledger sees it: the fee, and the
\* sender settled by consume_nonce or by the failed-transaction post-state.
HubOp(from, kind) ==
  LET c == charge_fee(mem, from, FeeOf[kind], now)
  IN /\ mem' = IF c.ok THEN settle(c.m, from, now) ELSE c.m
     /\ UNCHANGED <<now, verifiedSecs>>

\* The humanity lifecycle verifies a (at the block's timestamp) or revokes it.
\* The account is not settled here.  A verified account is stamped again only by
\* a passport proof of a Challenged human, whose own transaction settled it.
sync_account_verified(a, v) ==
  /\ IF v THEN ~mem.verified[a] \/ mem.last_settled_at[a] = now
          ELSE mem.verified[a]
  /\ mem' = [mem EXCEPT !.verified[a]    = v,
                        !.verified_at[a] = IF v THEN now ELSE 0]
  /\ UNCHANGED <<now, verifiedSecs>>

StreamIds == 0..(MaxStreams - 1)

Next ==
  \/ NewBlock
  \/ \E from \in Signers, to \in Addr, value \in Values, nonceOk \in BOOLEAN :
       Transfer(from, to, value, nonceOk)
  \/ \E from \in Signers, to \in Addr, rate \in Rates, deposit \in Deposits,
        nonceOk \in BOOLEAN :
       OpenStream(from, to, rate, deposit, nonceOk)
  \/ \E caller \in Signers, id \in StreamIds, nonceOk \in BOOLEAN :
       StopStream(caller, id, nonceOk)
  \/ \E from \in Signers, kind \in {"onboard", "hub"} : HubOp(from, kind)
  \/ \E a \in Subjects, v \in BOOLEAN : sync_account_verified(a, v)

Spec == Init /\ [][Next]_vars

(***************************************************************************)
(* Properties.                                                             *)
(***************************************************************************)
Streams == [from : Addr, to : Addr, rate : Nat, deposit : Nat, drawn : Nat,
            started_at : Nat, status : {"Active", "Stopped", "Completed"},
            stopped_at : Nat]

MemOK(m) ==
  /\ DOMAIN m = {"settled_balance", "last_settled_at", "verified",
                 "verified_at", "streams", "next_id", "emitted"}
  /\ m.settled_balance \in [Addr -> Nat]
  /\ m.last_settled_at \in [Addr -> Nat]
  /\ m.verified \in [Addr -> BOOLEAN]
  /\ m.verified_at \in [Addr -> Nat]
  /\ m.next_id \in Nat
  /\ m.streams \in [0..(m.next_id - 1) -> Streams]
  /\ m.emitted \in [Addr -> Nat]

\* The type of the state.  Settled balances are naturals: no operation debits
\* more than the account holds (MemState's u128 fields would wrap or panic).
TypeOK ==
  /\ MemOK(mem)
  /\ now \in Nat
  /\ verifiedSecs \in [Addr -> Nat]

\* The collateral a stream still holds: none once it was stopped (the rest was
\* refunded) or completed.
locked(s) == IF s.status = "Active" THEN s.deposit - s.drawn ELSE 0

Conserved(m) ==
  Total(m.settled_balance)
      + Total([id \in DOMAIN m.streams |-> locked(m.streams[id])])
    = Total(Genesis) + Total(m.emitted)

\* Invariant I2, conservation to the base unit: fees, transfers, opening,
\* draining, stopping and refunding streams only move value; settled balances
\* and locked collateral add up to the genesis supply and the emission folded
\* in by settle.
Conservation == Conserved(mem)

Solvent(s, t) ==
  /\ s.drawn <= accrued(s, t)
  /\ accrued(s, t) <= s.deposit
  /\ s.status # "Active" => owed(s, t) = 0
  /\ s.status = "Completed" => s.drawn = s.deposit

\* Solvency of every stream (accrued and settle_stream): the recipient has never
\* drawn more than has accrued, nor accrued more than was deposited; a stream
\* that has been drained or stopped owes nothing any more, whatever the clock
\* says, so the refund paid at the stop was final.
StreamsSolvent == \A id \in DOMAIN mem.streams : Solvent(mem.streams[id], now)

\* No emission is counted twice (Account::settle): what an account was paid and
\* what is pending never exceed the rate times the time it spent verified, in
\* any interleaving of settlements, revocations and re-verifications.
EmissionBounded ==
  \A a \in Addr :
    (mem.emitted[a] + pending_emission(mem, a, now)) * EMISSION_PERIOD_SECS
      <= UBI * verifiedSecs[a]

Evolves(m, n) ==
  \A id \in DOMAIN m.streams :
    LET s == m.streams[id]
        r == n.streams[id]
    IN /\ id \in DOMAIN n.streams
       /\ <<r.from, r.to, r.rate, r.deposit, r.started_at>>
            = <<s.from, s.to, s.rate, s.deposit, s.started_at>>
       /\ r.drawn >= s.drawn
       /\ s.status # "Active" => r = s

\* A stream's terms never change, what was drawn stays drawn, and a stream that
\* left Active is frozen: settle_incoming meets it again on every spend.
StreamHistory == [][Evolves(mem, mem')]_vars

OwnTx(a) ==
  \/ \E to \in Addr, value \in Values, nonceOk \in BOOLEAN :
       Transfer(a, to, value, nonceOk)
  \/ \E to \in Addr, rate \in Rates, deposit \in Deposits, nonceOk \in BOOLEAN :
       OpenStream(a, to, rate, deposit, nonceOk)
  \/ \E id \in StreamIds, nonceOk \in BOOLEAN : StopStream(a, id, nonceOk)
  \/ \E kind \in {"onboard", "hub"} : HubOp(a, kind)

\* The balance the RPC reports (State::balance) drops only by a transaction of
\* its owner or a status change of the human: no payment, stream settlement or
\* stop by someone else, and no passing of time, takes reported funds away.
ReportedBalanceProtected ==
  [][\A a \in Addr :
       balance(mem', a, now') < balance(mem, a, now)
         => \/ <<mem.verified[a], mem.verified_at[a]>>
                 # <<mem'.verified[a], mem'.verified_at[a]>>
            \/ a \in Signers /\ OwnTx(a)]_vars

(***************************************************************************)
(* What the documentation says and the code does not do.                   *)
(***************************************************************************)
\* "Stop emission to the base unit: settle accrued, then clear the verified
\* cache": the balance an account reports is the same before and after its
\* humanity status changes.
EmissionKeptAtTransition ==
  [][\A a \in Addr :
       mem'.verified[a] # mem.verified[a] => balance(mem', a, now) = balance(mem, a, now)]_vars

\* "on insufficient balance nothing is written": a transaction that is dropped
\* because its sender cannot pay the fee moves no balance and no stream.
DroppedTxWritesNothing ==
  [][\A a \in Signers, kind \in {"onboard", "hub"} :
       HubOp(a, kind) /\ ~charge_fee(mem, a, FeeOf[kind], now).ok
         => /\ mem'.settled_balance = mem.settled_balance
            /\ mem'.streams = mem.streams]_vars

=============================================================================
