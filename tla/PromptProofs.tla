---------------------------- MODULE PromptProofs ----------------------------
(***************************************************************************)
(* Proofs about PromptContracts, for any accounts, contracts, jurors and   *)
(* replies of the models: an effect of any length keeps the ledger safe    *)
(* and the escrow it spends from backed, and every invocation is decided.  *)
(*                                                                         *)
(* The escrow argument is about settled balances: every operation of the   *)
(* ledger leaves everyone's but the spender's at least as large, and the   *)
(* spender's less what it names.  An effect is a fold of such operations:  *)
(* EffectRun gives its states one by one, and the least state that breaks  *)
(* the claim gives the contradiction.  Along the same run the reported     *)
(* balances of everyone but the escrow account never drop, and that of the *)
(* escrow account by no more than the draws so far.                        *)
(***************************************************************************)
EXTENDS PromptContracts, LedgerProofs, SequenceTheorems, WellFoundedInduction, NaturalsInduction

(***************************************************************************)
(* Whose settled balance an operation may lower.                           *)
(***************************************************************************)
\* Nobody's but a's, and a's by at most v.
Costs(m, n, a, v) ==
  /\ \A b \in Addr \ {a} : n.settled_balance[b] >= m.settled_balance[b]
  /\ n.settled_balance[a] + v >= m.settled_balance[a]

Balanced(m) == m.settled_balance \in [Addr -> Nat]

LEMMA SafeBalanced ==
  ASSUME NEW m, NEW t, NEW vs, Safe(m, t, vs)
  PROVE  Balanced(m)
BY DEF Safe, MemOK, Balanced

LEMMA CostsNothing ==
  ASSUME NEW m, Balanced(m), NEW a \in Addr
  PROVE  Costs(m, m, a, 0)
BY DEF Costs, Balanced

LEMMA CostsTrans ==
  ASSUME NEW k, NEW m, NEW n, Balanced(k), Balanced(m), Balanced(n), NEW a \in Addr,
         NEW v \in Nat, NEW w \in Nat, Costs(k, m, a, v), Costs(m, n, a, w)
  PROVE  Costs(k, n, a, v + w)
<1>1. ASSUME NEW b \in Addr \ {a} PROVE n.settled_balance[b] >= k.settled_balance[b]
  <2>1. /\ k.settled_balance[b] \in Nat /\ m.settled_balance[b] \in Nat
        /\ n.settled_balance[b] \in Nat
    BY DEF Balanced
  <2>2. QED
    BY <2>1 DEF Costs
<1>2. n.settled_balance[a] + (v + w) >= k.settled_balance[a]
  <2>1. /\ k.settled_balance[a] \in Nat /\ m.settled_balance[a] \in Nat
        /\ n.settled_balance[a] \in Nat
    BY DEF Balanced
  <2>2. QED
    BY <2>1 DEF Costs
<1>3. QED
  BY <1>1, <1>2 DEF Costs

\* Costing nothing is so whoever is named.
LEMMA CostsNobody ==
  ASSUME NEW m, NEW n, Balanced(m), Balanced(n), NEW a \in Addr, NEW b \in Addr,
         Costs(m, n, a, 0)
  PROVE  Costs(m, n, b, 0)
<1>1. ASSUME NEW c \in Addr PROVE n.settled_balance[c] >= m.settled_balance[c]
  <2>1. n.settled_balance[c] \in Nat /\ m.settled_balance[c] \in Nat
    BY DEF Balanced
  <2>2. QED
    BY <2>1 DEF Costs
<1>2. \A c \in Addr : n.settled_balance[c] \in Nat
  BY DEF Balanced
<1>3. QED
  BY <1>1, <1>2 DEF Costs

LEMMA SettleCosts ==
  ASSUME NEW m, MemOK(m), NEW a \in Addr, NEW t \in Nat, NEW b \in Addr
  PROVE  Costs(m, settle(m, a, t), b, 0) /\ Balanced(settle(m, a, t))
<1>1. PICK n, p : n = settle(m, a, t) /\ p = pending_emission(m, a, t)
  OBVIOUS
<1>2. p \in Nat /\ SettledFrom(m, n, a, p, t)
  BY <1>1, PendingFacts, SettleFields
<1>3. /\ n.settled_balance = [m.settled_balance EXCEPT ![a] = m.settled_balance[a] + p]
      /\ Balanced(n)
  BY <1>2 DEF SettledFrom, MemOK, Balanced
<1>4. m.settled_balance \in [Addr -> Nat]
  BY DEF MemOK
<1>5. Costs(m, n, b, 0)
  BY <1>2, <1>3, <1>4 DEF Costs
<1>6. QED
  BY <1>1, <1>3, <1>5

LEMMA IncomingCosts ==
  ASSUME NEW m, NEW a \in Addr, NEW t \in Nat, NEW vs \in [Addr -> Nat], Safe(m, t, vs),
         NEW b \in Addr
  PROVE  Costs(m, settle_incoming(m, a, t), b, 0)
<1>1. Balanced(m) /\ MemOK(m) /\ AllWellFormed(m, t)
  BY SafeBalanced DEF Safe
<1>2. CASE incoming(m, a) = {}
  BY <1>1, <1>2, CostsNothing DEF settle_incoming
<1>3. CASE incoming(m, a) # {}
  <2>1. PICK k, T, w, x, q :
          /\ k = settle(m, a, t) /\ T = incoming(m, a)
          /\ w = [id \in T |-> owed(m.streams[id], t)] /\ x = Total(w)
          /\ q = [id \in DOMAIN m.streams |->
                   IF m.streams[id].to = a THEN paid(m.streams[id], t)
                                           ELSE m.streams[id]]
    OBVIOUS
  <2>2. Costs(m, k, b, 0) /\ Balanced(k) /\ MemOK(k)
    BY <1>1, <2>1, SettleCosts, SettleFields DEF SettledFrom
  <2>3. x \in Nat
    <3>1. T \in SUBSET DOMAIN m.streams
      BY <2>1 DEF incoming
    <3>2. IsFiniteSet(T)
      BY <1>1, <3>1, TotalsOfMem, FS_Subset
    <3>3. w \in [T -> Nat]
      BY <1>1, <2>1, <3>1, PaidFacts DEF AllWellFormed
    <3>4. QED
      BY <2>1, <3>2, <3>3, TotalType
  <2>4. PICK n : n = [k EXCEPT !.settled_balance[a] = @ + x, !.streams = q]
    OBVIOUS
  <2>5. settle_incoming(m, a, t) = n
    BY <1>3, <2>1, <2>4 DEF settle_incoming
  <2>6. n.settled_balance = [k.settled_balance EXCEPT ![a] = k.settled_balance[a] + x]
    BY <2>2, <2>4 DEF MemOK
  <2>7. Costs(k, n, b, 0) /\ Balanced(n)
    BY <2>2, <2>3, <2>6 DEF Costs, Balanced
  <2>8. Costs(m, n, b, 0 + 0)
    BY <1>1, <2>2, <2>7, CostsTrans
  <2>9. QED
    BY <2>5, <2>8
<1>4. QED
  BY <1>2, <1>3

\* m1 and m2 of charge_fee and apply_transfer.
LEMMA SettledSenderCosts ==
  ASSUME NEW m, NEW a \in Addr, NEW t \in Nat, NEW vs \in [Addr -> Nat], Safe(m, t, vs),
         NEW b \in Addr
  PROVE  LET m1 == settle_incoming(m, a, t)
             m2 == settle(m1, a, t)
         IN /\ Safe(m1, t, vs) /\ Safe(m2, t, vs)
            /\ Costs(m, m1, b, 0) /\ Costs(m, m2, b, 0)
<1>1. PICK m1, m2 : m1 = settle_incoming(m, a, t) /\ m2 = settle(m1, a, t)
  OBVIOUS
<1>2. Safe(m1, t, vs) /\ Safe(m2, t, vs)
  BY <1>1, SettledSenderTakes DEF Takes
<1>3. Costs(m, m1, b, 0)
  BY <1>1, IncomingCosts
<1>4. Costs(m1, m2, b, 0)
  BY <1>1, <1>2, SettleCosts DEF Safe
<1>5. Balanced(m) /\ Balanced(m1) /\ Balanced(m2)
  BY <1>2, SafeBalanced
<1>6. Costs(m, m2, b, 0 + 0)
  BY <1>3, <1>4, <1>5, CostsTrans
<1>7. QED
  BY <1>1, <1>2, <1>3, <1>6

\* What a pays, another gets.
LEMMA PayCosts ==
  ASSUME NEW m, NEW a \in Addr, NEW b \in Addr, a # b, NEW v \in Nat, NEW t \in Nat,
         MemOK(m), v <= m.settled_balance[a]
  PROVE  LET n == move(settle(m, b, t), a, b, v)
         IN /\ Costs(m, n, a, v)
            /\ n.settled_balance[b] >= m.settled_balance[b] + v
<1>1. PICK k, n : k = settle(m, b, t) /\ n = move(k, a, b, v)
  OBVIOUS
<1>2. Costs(m, k, a, 0) /\ Balanced(k) /\ MemOK(k)
  BY <1>1, SettleCosts, SettleFields DEF SettledFrom
<1>3. n.settled_balance = [x \in Addr |-> k.settled_balance[x] - (IF x = a THEN v ELSE 0)
                                             + (IF x = b THEN v ELSE 0)]
  BY <1>1, <1>2 DEF move, MemOK
<1>4. m.settled_balance \in [Addr -> Nat] /\ k.settled_balance \in [Addr -> Nat]
  BY <1>2 DEF MemOK
<1>5. \A x \in Addr : k.settled_balance[x] >= m.settled_balance[x]
  BY <1>2, <1>4 DEF Costs
<1>6. Costs(m, n, a, v) /\ n.settled_balance[b] >= m.settled_balance[b] + v
  BY <1>3, <1>4, <1>5 DEF Costs
<1>7. QED
  BY <1>1, <1>6

LEMMA FeeCosts ==
  ASSUME NEW m, NEW from \in Signers, NEW fee \in Nat, NEW t \in Nat,
         NEW vs \in [Addr -> Nat], Safe(m, t, vs)
  PROVE  Costs(m, charge_fee(m, from, fee, t).m, from, fee)
<1>1. from \in Addr /\ TREASURY \in Addr /\ from # TREASURY
  BY LedgerConstants DEF Signers
<1>2. PICK m1, m2, m3, r : /\ m1 = settle_incoming(m, from, t) /\ m2 = settle(m1, from, t)
                           /\ m3 = move(settle(m2, TREASURY, t), from, TREASURY, fee)
                           /\ r = charge_fee(m, from, fee, t)
  OBVIOUS
<1>3. r.m = IF m2.settled_balance[from] < fee THEN m1
            ELSE IF fee = 0 THEN m2 ELSE m3
  BY <1>2 DEF charge_fee, Ok, Err
<1>4. Safe(m1, t, vs) /\ Safe(m2, t, vs) /\ Costs(m, m1, from, 0) /\ Costs(m, m2, from, 0)
  BY <1>1, <1>2, SettledSenderCosts
<1>5. Safe(r.m, t, vs)
  BY <1>2, ChargeFeeTakes DEF Takes
<1>6. Balanced(m) /\ Balanced(m1) /\ Balanced(m2) /\ Balanced(r.m)
  BY <1>4, <1>5, SafeBalanced
<1>7. CASE m2.settled_balance[from] < fee \/ fee = 0
  <2>1. Costs(m, r.m, from, 0)
    BY <1>3, <1>4, <1>7
  <2>2. QED
    BY <1>1, <1>2, <1>6, <2>1 DEF Costs, Balanced
<1>8. CASE ~(m2.settled_balance[from] < fee) /\ fee # 0
  <2>1. m2.settled_balance[from] \in Nat
    BY <1>1, <1>6 DEF Balanced
  <2>2. Costs(m2, m3, from, fee)
    BY <1>1, <1>2, <1>4, <1>8, <2>1, PayCosts DEF Safe
  <2>3. r.m = m3
    BY <1>3, <1>8
  <2>4. Costs(m, r.m, from, 0 + fee)
    BY <1>1, <1>4, <1>6, <2>2, <2>3, CostsTrans
  <2>5. QED
    BY <1>2, <2>4
<1>9. QED
  BY <1>7, <1>8

LEMMA TransferCosts ==
  ASSUME NEW m, NEW from \in Addr, NEW to \in Addr, NEW value \in Nat,
         NEW nonceOk \in BOOLEAN, NEW t \in Nat, NEW vs \in [Addr -> Nat], Safe(m, t, vs)
  PROVE  LET r == apply_transfer(m, from, to, value, nonceOk, t)
         IN /\ Costs(m, r.m, from, value)
            /\ r.ok /\ from # to
                 => r.m.settled_balance[to] >= m.settled_balance[to] + value
<1>1. PICK m1, m2, m3, r : /\ m1 = settle_incoming(m, from, t) /\ m2 = settle(m1, from, t)
                           /\ m3 = move(settle(m2, to, t), from, to, value)
                           /\ r = apply_transfer(m, from, to, value, nonceOk, t)
  OBVIOUS
<1>2. /\ r.m = IF ~nonceOk \/ m2.settled_balance[from] < value THEN m1
               ELSE IF from = to THEN m2 ELSE m3
      /\ r.ok => ~(~nonceOk \/ m2.settled_balance[from] < value)
  BY <1>1 DEF apply_transfer, Ok, Err
<1>3. Safe(m1, t, vs) /\ Safe(m2, t, vs) /\ Costs(m, m1, from, 0) /\ Costs(m, m2, from, 0)
  BY <1>1, SettledSenderCosts
<1>4. Safe(r.m, t, vs)
  BY <1>1, TransferTakes DEF Takes
<1>5. Balanced(m) /\ Balanced(m1) /\ Balanced(m2) /\ Balanced(r.m)
  BY <1>3, <1>4, SafeBalanced
<1>6. CASE ~nonceOk \/ m2.settled_balance[from] < value \/ from = to
  <2>1. Costs(m, r.m, from, 0)
    BY <1>2, <1>3, <1>6
  <2>2. Costs(m, r.m, from, value)
    BY <1>5, <2>1 DEF Costs, Balanced
  <2>3. ~(r.ok /\ from # to)
    BY <1>2, <1>6
  <2>4. QED
    BY <1>1, <2>2, <2>3
<1>7. CASE ~(~nonceOk \/ m2.settled_balance[from] < value \/ from = to)
  <2>1. m2.settled_balance[from] \in Nat
    BY <1>5 DEF Balanced
  <2>2. Costs(m2, m3, from, value) /\ m3.settled_balance[to] >= m2.settled_balance[to] + value
    BY <1>1, <1>3, <1>7, <2>1, PayCosts DEF Safe
  <2>3. r.m = m3
    BY <1>2, <1>7
  <2>4. Costs(m, r.m, from, 0 + value)
    BY <1>3, <1>5, <2>2, <2>3, CostsTrans
  <2>5. m2.settled_balance[to] >= m.settled_balance[to]
    BY <1>3, <1>7 DEF Costs
  <2>6. /\ m2.settled_balance[to] \in Nat /\ m.settled_balance[to] \in Nat
        /\ r.m.settled_balance[to] \in Nat
    BY <1>5 DEF Balanced
  <2>7. r.m.settled_balance[to] >= m.settled_balance[to] + value
    BY <2>2, <2>3, <2>5, <2>6
  <2>8. QED
    BY <1>1, <2>4, <2>7
<1>8. QED
  BY <1>6, <1>7

LEMMA OpenCosts ==
  ASSUME NEW m, NEW from \in Addr, NEW to \in Addr, NEW rate \in Nat,
         NEW deposit \in Nat, NEW t \in Nat, NEW vs \in [Addr -> Nat], Safe(m, t, vs)
  PROVE  Costs(m, open_stream(m, from, to, rate, deposit, t).m, from, deposit)
<1>1. PICK m1, s, n, r : /\ m1 = settle(m, from, t)
                         /\ s = new_stream(from, to, rate, deposit, t)
                         /\ n = lock(m1, from, deposit, s)
                         /\ r = open_stream(m, from, to, rate, deposit, t)
  OBVIOUS
<1>2. r.m = m \/ r.m = n
  BY <1>1 DEF open_stream, lock, Ok, Err
<1>3. MemOK(m) /\ Balanced(m)
  BY SafeBalanced DEF Safe
<1>4. Costs(m, m1, from, 0) /\ Balanced(m1) /\ MemOK(m1)
  BY <1>1, <1>3, SettleCosts, SettleFields DEF SettledFrom
<1>5. CASE r.m = m
  BY <1>1, <1>3, <1>5 DEF Costs, Balanced
<1>6. CASE r.m = n
  <2>1. n.settled_balance = [m1.settled_balance EXCEPT ![from] = m1.settled_balance[from] - deposit]
    BY <1>1, <1>4 DEF lock, put_new_stream, MemOK
  <2>2. Costs(m, n, from, deposit)
    BY <1>3, <1>4, <2>1 DEF Costs, Balanced
  <2>3. QED
    BY <1>1, <1>6, <2>2
<1>7. QED
  BY <1>2, <1>5, <1>6

\* A stop costs nobody; the one who stops gets what its stream still held.
LEMMA StopCosts ==
  ASSUME NEW m, NEW id, NEW caller \in Addr, NEW t \in Nat, NEW vs \in [Addr -> Nat],
         Safe(m, t, vs)
  PROVE  LET r == stop_stream(m, id, caller, t)
             left == refund_of(r.m.streams[id])
         IN /\ Costs(m, r.m, caller, 0)
            /\ r.ok => /\ left \in Nat
                       /\ r.m.settled_balance[caller] >= m.settled_balance[caller] + left
<1>1. PICK r : r = stop_stream(m, id, caller, t)
  OBVIOUS
<1>2. Balanced(m) /\ MemOK(m) /\ AllWellFormed(m, t)
  BY SafeBalanced DEF Safe
<1>3. CASE id \notin DOMAIN m.streams \/ m.streams[id].from # caller
           \/ m.streams[id].status # "Active"
  <2>1. r.m = m /\ ~r.ok
    BY <1>1, <1>3 DEF stop_stream, Err
  <2>2. QED
    BY <1>1, <1>2, <2>1, CostsNothing
<1>4. CASE ~(id \notin DOMAIN m.streams \/ m.streams[id].from # caller
             \/ m.streams[id].status # "Active")
  <2>1. PICK o, m0, m1, s, k, z, v :
          /\ o = m.streams[id] /\ m0 = settle(m, o.to, t) /\ m1 = settle_stream(m, id, t)
          /\ s = m1.streams[id] /\ k = settle(m1, caller, t) /\ z = stopped(s, t)
          /\ v = Monus(s.deposit, s.drawn)
    OBVIOUS
  <2>2. id \in DOMAIN m.streams /\ o.from = caller /\ WellFormed(o, t)
    BY <1>2, <1>4, <2>1 DEF AllWellFormed
  <2>3. o.to \in Addr /\ o.to # caller
    BY <2>2 DEF WellFormed, Streams
  <2>4. Safe(m1, t, vs) /\ m1.streams = [m.streams EXCEPT ![id] = paid(o, t)]
    BY ZenonT(30), <2>1, <2>2, SettleStreamTakes DEF Takes
  <2>5. s = paid(o, t)
    BY <1>2, <2>1, <2>2, <2>4 DEF MemOK
  <2>6. /\ WellFormed(s, t) /\ s.from = caller /\ owed(o, t) \in Nat
    BY <2>2, <2>5, PaidFacts
  <2>7. /\ s.deposit \in Nat /\ s.drawn \in Nat /\ s.drawn <= s.deposit
    <3>1. s.deposit \in Nat /\ s.drawn \in Nat /\ s.drawn <= accrued(s, t)
          /\ accrued(s, t) <= s.deposit
      BY <2>6 DEF WellFormed, Streams, Solvent
    <3>2. accrued(s, t) \in Nat
      <4>1. s \in Streams /\ s.rate > 0 /\ t <= t
        BY <2>6 DEF WellFormed
      <4>2. QED
        BY <4>1, AccruedFacts
    <3>3. QED
      BY <3>1, <3>2
  <2>8. v \in Nat /\ v = s.deposit - s.drawn
    BY <2>1, <2>7 DEF Monus
  <2>9. Costs(m, m0, caller, 0) /\ Balanced(m0) /\ MemOK(m0)
    BY <1>2, <2>1, <2>3, SettleCosts, SettleFields DEF SettledFrom
  <2>10. m1.settled_balance = [m0.settled_balance EXCEPT ![o.to] = m0.settled_balance[o.to] + owed(o, t)]
    BY <2>1, <2>9 DEF settle_stream, MemOK
  <2>11. Costs(m0, m1, caller, 0) /\ Balanced(m1) /\ MemOK(m1)
    <3>1. Balanced(m1) /\ MemOK(m1)
      BY <2>4, SafeBalanced DEF Safe
    <3>2. PICK w, b : w = owed(o, t) /\ b = o.to
      OBVIOUS
    <3>3. w \in Nat /\ b \in Addr /\ b # caller
          /\ m1.settled_balance = [m0.settled_balance EXCEPT ![b] = m0.settled_balance[b] + w]
      BY <2>3, <2>6, <2>10, <3>2
    <3>4. QED
      BY <2>9, <3>1, <3>3 DEF Costs, Balanced
  <2>12. Costs(m, m1, caller, 0 + 0)
    BY <1>2, <2>9, <2>11, CostsTrans
  <2>13. Costs(m1, k, caller, 0) /\ Balanced(k) /\ MemOK(k) /\ k.streams = m1.streams
    BY <2>1, <2>11, SettleCosts, SettleFields DEF SettledFrom
  <2>14. Costs(m, k, caller, 0 + 0)
    BY <1>2, <2>11, <2>12, <2>13, CostsTrans
  <2>15. r.ok /\ r.m = pay_out(k, id, z, caller, v)
    <3>1. s.from = caller
      BY <2>6
    <3>2. r = Ok([settle(m1, s.from, t) EXCEPT
                    !.settled_balance[s.from] = @ + Monus(s.deposit, s.drawn),
                    !.streams[id] = [s EXCEPT !.status = "Stopped", !.stopped_at = t]])
      BY <1>1, <1>4, <2>1 DEF stop_stream
    <3>3. QED
      BY <2>1, <3>1, <3>2 DEF pay_out, stopped, Ok
  <2>16. /\ r.m.settled_balance
              = [k.settled_balance EXCEPT ![caller] = k.settled_balance[caller] + v]
         /\ r.m.streams[id] = z
    <3>1. id \in DOMAIN k.streams
      BY <1>2, <2>2, <2>4, <2>13 DEF MemOK
    <3>2. QED
      BY <2>13, <2>15, <3>1 DEF pay_out, MemOK
  <2>17. refund_of(z) = v
    <3>1. z.deposit = s.deposit /\ z.drawn = s.drawn
      BY <2>1, <2>6 DEF stopped, WellFormed, Streams
    <3>2. QED
      BY <2>8, <3>1 DEF refund_of
  <2>18. /\ Costs(m, r.m, caller, 0)
         /\ r.m.settled_balance[caller] >= m.settled_balance[caller] + v
    BY <1>2, <2>8, <2>13, <2>14, <2>16 DEF Costs, Balanced
  <2>19. QED
    BY <1>1, <2>8, <2>16, <2>17, <2>18
<1>5. QED
  BY <1>3, <1>4

(***************************************************************************)
(* Whose streams an operation may stop.                                    *)
(***************************************************************************)
\* The streams stay, with their senders, and none but a's is newly stopped.
Stops(m, n, a) ==
  \A id \in DOMAIN m.streams :
    /\ id \in DOMAIN n.streams /\ n.streams[id].from = m.streams[id].from
    /\ n.streams[id].status = "Stopped"
         => m.streams[id].status = "Stopped" \/ m.streams[id].from = a

LEMMA StopsTrans ==
  ASSUME NEW k, NEW m, NEW n, NEW a, Stops(k, m, a), Stops(m, n, a)
  PROVE  Stops(k, n, a)
BY DEF Stops

LEMMA StopsSame ==
  ASSUME NEW m, NEW n, NEW a, n.streams = m.streams
  PROVE  Stops(m, n, a)
BY DEF Stops

LEMMA SettleStops ==
  ASSUME NEW m, NEW b \in Addr, NEW t \in Nat, NEW vs, Safe(m, t, vs), NEW a
  PROVE  Stops(m, settle(m, b, t), a)
<1>1. PICK k : k = settle(m, b, t)
  OBVIOUS
<1>2. k.streams = m.streams
  BY <1>1, SettleFields DEF SettledFrom, Safe
<1>3. QED
  BY <1>1, <1>2, StopsSame

\* paid() completes a stream, it never stops one.
LEMMA PaidStops ==
  ASSUME NEW s, NEW t \in Nat, WellFormed(s, t)
  PROVE  /\ paid(s, t).from = s.from
         /\ paid(s, t).status = "Stopped" => s.status = "Stopped"
<1>1. s \in Streams
  BY DEF WellFormed
<1>2. QED
  BY <1>1 DEF paid, Streams

LEMMA IncomingStops ==
  ASSUME NEW m, NEW b \in Addr, NEW t \in Nat, NEW vs \in [Addr -> Nat],
         Safe(m, t, vs), NEW a
  PROVE  Stops(m, settle_incoming(m, b, t), a)
<1>1. CASE incoming(m, b) = {}
  BY <1>1, StopsSame DEF settle_incoming
<1>2. CASE incoming(m, b) # {}
  <2>1. PICK k, q, w :
          /\ k = settle(m, b, t)
          /\ w = Total([id \in incoming(m, b) |-> owed(m.streams[id], t)])
          /\ q = [id \in DOMAIN m.streams |->
                    IF m.streams[id].to = b THEN paid(m.streams[id], t)
                                            ELSE m.streams[id]]
    OBVIOUS
  <2>2. PICK n : n = settle_incoming(m, b, t)
    OBVIOUS
  <2>3. n = [k EXCEPT !.settled_balance[b] = @ + w, !.streams = q]
    BY <1>2, <2>1, <2>2 DEF settle_incoming
  <2>4. MemOK(m) /\ MemOK(k) /\ AllWellFormed(m, t)
    BY <2>1, SettleFields DEF SettledFrom, Safe
  <2>5. n.streams = q
    BY <2>3, <2>4 DEF MemOK
  <2>6. ASSUME NEW id \in DOMAIN m.streams
        PROVE  /\ id \in DOMAIN q /\ q[id].from = m.streams[id].from
               /\ q[id].status = "Stopped" => m.streams[id].status = "Stopped"
    <3>1. PICK s : s = m.streams[id]
      OBVIOUS
    <3>2. WellFormed(s, t)
      BY <2>4, <3>1 DEF AllWellFormed
    <3>3. q[id] \in {s, paid(s, t)} /\ id \in DOMAIN q
      BY <2>1, <3>1
    <3>4. QED
      BY <3>1, <3>2, <3>3, PaidStops
  <2>7. QED
    BY <2>2, <2>5, <2>6 DEF Stops
<1>3. QED
  BY <1>1, <1>2

\* Settling the sender of an operation.
LEMMA SenderStops ==
  ASSUME NEW m, NEW b \in Addr, NEW t \in Nat, NEW vs \in [Addr -> Nat],
         Safe(m, t, vs), NEW a
  PROVE  /\ Stops(m, settle_incoming(m, b, t), a)
         /\ Stops(m, settle(settle_incoming(m, b, t), b, t), a)
<1>1. PICK k : k = settle_incoming(m, b, t)
  OBVIOUS
<1>2. Stops(m, k, a) /\ Safe(k, t, vs)
  BY <1>1, IncomingStops, SettledSenderTakes DEF Takes
<1>3. Stops(m, settle(k, b, t), a)
  BY <1>2, SettleStops, StopsTrans
<1>4. QED
  BY <1>1, <1>2, <1>3

\* Paying another account.
LEMMA PayStops ==
  ASSUME NEW m, NEW b \in Addr, NEW c \in Addr, NEW v, NEW t \in Nat, NEW vs,
         Safe(m, t, vs), NEW a
  PROVE  Stops(m, move(settle(m, c, t), b, c, v), a)
<1>1. PICK k, n : k = settle(m, c, t) /\ n = move(k, b, c, v)
  OBVIOUS
<1>2. MemOK(k) /\ k.streams = m.streams
  BY <1>1, SettleFields DEF SettledFrom, Safe
<1>3. n.streams = k.streams
  BY <1>1, <1>2 DEF move, MemOK
<1>4. QED
  BY <1>1, <1>2, <1>3, StopsSame

LEMMA TransferStops ==
  ASSUME NEW m, NEW from \in Addr, NEW to \in Addr, NEW value, NEW nonceOk,
         NEW t \in Nat, NEW vs \in [Addr -> Nat], Safe(m, t, vs), NEW a
  PROVE  Stops(m, apply_transfer(m, from, to, value, nonceOk, t).m, a)
<1>1. PICK k, n, z, r : /\ k = settle_incoming(m, from, t) /\ n = settle(k, from, t)
                        /\ z = move(settle(n, to, t), from, to, value)
                        /\ r = apply_transfer(m, from, to, value, nonceOk, t)
  OBVIOUS
<1>2. Stops(m, k, a) /\ Stops(m, n, a) /\ Safe(n, t, vs)
  BY <1>1, SenderStops, SettledSenderTakes DEF Takes
<1>3. Stops(m, z, a)
  BY <1>1, <1>2, PayStops, StopsTrans
<1>4. r.m \in {k, n, z}
  BY <1>1 DEF apply_transfer, Ok, Err
<1>5. QED
  BY <1>1, <1>2, <1>3, <1>4

LEMMA FeeStops ==
  ASSUME NEW m, NEW from \in Addr, NEW fee, NEW t \in Nat, NEW vs \in [Addr -> Nat],
         Safe(m, t, vs), NEW a
  PROVE  Stops(m, charge_fee(m, from, fee, t).m, a)
<1>1. PICK k, n, z, r : /\ k = settle_incoming(m, from, t) /\ n = settle(k, from, t)
                        /\ z = move(settle(n, TREASURY, t), from, TREASURY, fee)
                        /\ r = charge_fee(m, from, fee, t)
  OBVIOUS
<1>2. Stops(m, k, a) /\ Stops(m, n, a) /\ Safe(n, t, vs) /\ TREASURY \in Addr
  BY <1>1, SenderStops, SettledSenderTakes, LedgerConstants DEF Takes
<1>3. Stops(m, z, a)
  BY <1>1, <1>2, PayStops, StopsTrans
<1>4. r.m \in {k, n, z}
  BY <1>1 DEF charge_fee, Ok, Err
<1>5. QED
  BY <1>1, <1>2, <1>3, <1>4

LEMMA OpenStops ==
  ASSUME NEW m, NEW from \in Addr, NEW to, NEW rate, NEW deposit,
         NEW t \in Nat, NEW vs, Safe(m, t, vs), NEW a
  PROVE  Stops(m, open_stream(m, from, to, rate, deposit, t).m, a)
<1>1. PICK k, l, s, n, r :
        /\ k = settle(m, from, t) /\ s = new_stream(from, to, rate, deposit, t)
        /\ l = [k EXCEPT !.settled_balance[from] = @ - deposit]
        /\ n = put_new_stream(l, s)
        /\ r = open_stream(m, from, to, rate, deposit, t)
  OBVIOUS
<1>2. MemOK(k) /\ k.streams = m.streams
  BY <1>1, SettleFields DEF SettledFrom, Safe
<1>3. l.streams = k.streams /\ l.next_id = k.next_id /\ DOMAIN l = DOMAIN k
  BY <1>1, <1>2 DEF MemOK
<1>4. /\ l.next_id \in Nat /\ DOMAIN l.streams = 0..(l.next_id - 1)
      /\ {"streams", "next_id"} \subseteq DOMAIN l
  BY <1>2, <1>3 DEF MemOK
<1>5. \A id \in DOMAIN l.streams : id \in DOMAIN n.streams /\ n.streams[id] = l.streams[id]
  BY <1>1, <1>4 DEF put_new_stream
<1>6. Stops(m, n, a)
  BY <1>2, <1>3, <1>5 DEF Stops
<1>7. r.m \in {m, n}
  BY <1>1 DEF open_stream, Ok, Err
<1>8. QED
  BY <1>1, <1>6, <1>7, StopsSame

\* stop_stream checks that the stream is its caller's.
LEMMA StopStops ==
  ASSUME NEW m, NEW id, NEW caller, NEW t \in Nat, NEW vs \in [Addr -> Nat],
         Safe(m, t, vs)
  PROVE  Stops(m, stop_stream(m, id, caller, t).m, caller)
<1>1. PICK r : r = stop_stream(m, id, caller, t)
  OBVIOUS
<1>2. CASE \/ id \notin DOMAIN m.streams \/ m.streams[id].from # caller
           \/ m.streams[id].status # "Active"
  <2>1. r.m = m
    BY <1>1, <1>2 DEF stop_stream, Err
  <2>2. QED
    BY <1>1, <2>1, StopsSame
<1>3. CASE ~(\/ id \notin DOMAIN m.streams \/ m.streams[id].from # caller
             \/ m.streams[id].status # "Active")
  <2>1. Takes(m, r.m, t, vs)
    BY <1>1, StopStreamTakes
  <2>2. PICK k, s, z, p :
          /\ k = settle_stream(m, id, t) /\ s = k.streams[id] /\ p = Monus(s.deposit, s.drawn)
          /\ z = settle(k, s.from, t)
    OBVIOUS
  <2>3. Safe(k, t, vs) /\ k.streams = [m.streams EXCEPT ![id] = paid(m.streams[id], t)]
    BY <1>3, <2>2, SettleStreamTakes DEF Takes
  <2>4. s.from = caller /\ s.from \in Addr
    <3>1. WellFormed(m.streams[id], t) /\ m.streams[id].from = caller
      BY <1>3 DEF Safe, AllWellFormed
    <3>2. s = paid(m.streams[id], t)
      BY <1>3, <2>2, <2>3
    <3>3. s.from = m.streams[id].from
      BY <3>1, <3>2, PaidStops
    <3>4. QED
      BY <3>1, <3>3 DEF WellFormed, Streams
  <2>5. MemOK(z) /\ z.streams = k.streams
    <3>1. PICK b \in Addr : b = s.from
      BY <2>4
    <3>2. SettledFrom(k, z, b, pending_emission(k, b, t), t)
      BY <2>2, <2>3, <3>1, SettleFields DEF Safe
    <3>3. QED
      BY <3>2 DEF SettledFrom
  <2>6. r.m = [z EXCEPT !.settled_balance[s.from] = @ + p,
                        !.streams[id] = [s EXCEPT !.status = "Stopped", !.stopped_at = t]]
    BY <1>1, <1>3, <2>2 DEF stop_stream, Ok
  <2>7. \A x \in DOMAIN m.streams \ {id} : r.m.streams[x] = m.streams[x]
    BY <1>3, <2>3, <2>5, <2>6 DEF MemOK
  <2>8. \A x \in DOMAIN m.streams : x \in DOMAIN r.m.streams /\ r.m.streams[x].from = m.streams[x].from
    BY <2>1 DEF Takes, Evolves
  <2>9. QED
    BY <1>1, <1>3, <2>7, <2>8 DEF Stops
<1>4. QED
  BY <1>2, <1>3

(***************************************************************************)
(* The states of an effect.                                                *)
(***************************************************************************)
\* A nonempty set of naturals has a least element.
LEMMA LeastNat ==
  ASSUME NEW T, T \subseteq Nat, T # {}
  PROVE  \E x \in T : \A y \in T : x <= y
<1> DEFINE R == OpToRel(<, Nat)
<1>1. PICK x \in T : \A y \in T : ~(<<y, x>> \in R)
  <2>1. IsWellFoundedOn(R, Nat)
    BY NatLessThanWellFounded
  <2> HIDE DEF R
  <2>2. QED
    BY <2>1, WFMin
<1>2. ASSUME NEW y \in T, y < x PROVE FALSE
  <2>1. <<y, x>> \in Nat \X Nat /\ <<y, x>>[1] = y /\ <<y, x>>[2] = x
    OBVIOUS
  <2>2. <<y, x>>[1] < <<y, x>>[2]
    BY <1>2, <2>1
  <2>3. <<y, x>> \in R
    BY <2>1, <2>2, Zenon DEF OpToRel
  <2> HIDE DEF R
  <2>4. QED
    BY <1>1, <2>3
<1> HIDE DEF R
<1>3. \A y \in T : y \in Nat /\ x \in Nat /\ ~(y < x)
  BY <1>2
<1>4. \A y \in T : x <= y
  BY <1>3
<1>5. QED
  BY <1>4

LEMMA MaxOfUpTo ==
  ASSUME NEW k \in Nat, NEW s \in SUBSET (1..k), k \in s
  PROVE  Max(s) = k
<1>1. \A y \in s : y \in Nat /\ k >= y
  OBVIOUS
<1>2. \A x \in s : (\A y \in s : x >= y) => x = k
  BY <1>1
<1>3. \E x \in s : \A y \in s : x >= y
  BY <1>1
<1>4. Max(s) \in s /\ \A y \in s : Max(s) >= y
  BY <1>3, Zenon DEF Max
<1>5. QED
  BY <1>2, <1>4

\* Phase 2 as a run: its states before the first operation and after each.
IsRun(run, m, c, effect, n, t) ==
  /\ run[0] = [m |-> settle(m, EscrowOf[c], t), contract |-> contracts[c], ok |-> TRUE]
  /\ \A k \in 1..n : run[k] = apply_op(run[k - 1], effect[k], EscrowOf[c], t)
  /\ apply_effect(m, c, effect, t) = run[n]

LEMMA EffectRun ==
  ASSUME NEW m, NEW c, NEW t, NEW n \in Nat, NEW effect, DOMAIN effect = 1..n
  PROVE  \E run : IsRun(run, m, c, effect, n, t)
<1> DEFINE base == [m |-> settle(m, EscrowOf[c], t), contract |-> contracts[c], ok |-> TRUE]
           Step(st, k) == apply_op(st, effect[k], EscrowOf[c], t)
           Fix(g, k) == g = [s \in SUBSET (1..k) |->
                               IF s = {} THEN base ELSE Step(g[s \ {Max(s)}], Max(s))]
           Some(k) == \E g : Fix(g, k)
           G == CHOOSE g : Fix(g, n)
<1>1. apply_effect(m, c, effect, t) = G[1..n]
  BY Zenon DEF apply_effect, FoldLeft, MapThenFoldSet
<1> HIDE DEF base, Step, G
<1>2. Some(0)
  <2>1. PICK g : g = [s \in SUBSET (1..0) |-> base]
    OBVIOUS
  <2>2. \A s \in SUBSET (1..0) : s = {}
    OBVIOUS
  <2>3. Fix(g, 0)
    BY <2>1, <2>2
  <2>4. QED
    BY <2>3
<1>3. ASSUME NEW k \in Nat \ {0}, Some(k - 1) PROVE Some(k)
  <2>1. PICK g : Fix(g, k - 1)
    BY <1>3
  <2>2. PICK h : h = [s \in SUBSET (1..k) |->
                        IF k \in s THEN Step(g[s \ {k}], k) ELSE g[s]]
    OBVIOUS
  <2>3. \A s \in SUBSET (1..k) : k \notin s => s \in SUBSET (1..(k - 1))
    OBVIOUS
  <2>4. \A s \in SUBSET (1..(k - 1)) : s \in SUBSET (1..k) /\ k \notin s
    OBVIOUS
  <2>5. \A s \in SUBSET (1..(k - 1)) : h[s] = g[s]
    BY <2>2, <2>4
  <2>6. ASSUME NEW s \in SUBSET (1..k)
        PROVE  h[s] = IF s = {} THEN base ELSE Step(h[s \ {Max(s)}], Max(s))
    <3>1. CASE k \in s
      <4>1. Max(s) = k
        BY <3>1, MaxOfUpTo
      <4>2. s \ {k} \in SUBSET (1..(k - 1))
        BY <2>3
      <4>3. h[s \ {k}] = g[s \ {k}]
        BY <2>5, <4>2
      <4>4. QED
        BY <2>2, <3>1, <4>1, <4>3
    <3>2. CASE k \notin s
      <4>1. s \in SUBSET (1..(k - 1)) /\ s \ {Max(s)} \in SUBSET (1..(k - 1))
        BY <2>3, <3>2
      <4>2. h[s] = g[s] /\ h[s \ {Max(s)}] = g[s \ {Max(s)}]
        BY <2>5, <4>1
      <4>3. g[s] = IF s = {} THEN base ELSE Step(g[s \ {Max(s)}], Max(s))
        BY <2>1, <4>1
      <4>4. QED
        BY <4>2, <4>3
    <3>3. QED
      BY <3>1, <3>2
  <2>7. Fix(h, k)
    BY <2>2, <2>6
  <2>8. QED
    BY <2>7
<1>4. Some(n)
  <2> DEFINE bad == {k \in Nat : ~Some(k)}
  <2>1. SUFFICES ASSUME bad # {} PROVE FALSE
    OBVIOUS
  <2>2. PICK k \in bad : \A y \in bad : k <= y
    BY <2>1, LeastNat
  <2>3. k \in Nat \ {0}
    BY <1>2, <2>2
  <2>4. k - 1 \in Nat /\ ~(k <= k - 1)
    BY <2>3
  <2>5. Some(k - 1)
    BY <2>2, <2>4
  <2>6. QED
    BY <1>3, <2>2, <2>3, <2>5
<1>5. Fix(G, n)
  BY <1>4, Zenon DEF G
<1>6. PICK run : run = [k \in 0..n |-> G[1..k]]
  OBVIOUS
<1>7. run[0] = base
  <2>1. 1..0 = {} /\ {} \in SUBSET (1..n)
    OBVIOUS
  <2>2. G[{}] = base
    BY <1>5, <2>1
  <2>3. QED
    BY <1>6, <2>1, <2>2
<1>8. ASSUME NEW k \in 1..n PROVE run[k] = Step(run[k - 1], k)
  <2>1. 1..k \in SUBSET (1..n) /\ 1..k # {} /\ k \in Nat /\ k \in 1..k
    OBVIOUS
  <2>2. Max(1..k) = k
    BY <2>1, MaxOfUpTo
  <2>3. (1..k) \ {k} = 1..(k - 1)
    BY <2>1
  <2>4. G[1..k] = Step(G[1..(k - 1)], k)
    BY <1>5, <2>1, <2>2, <2>3
  <2>5. QED
    BY <1>6, <2>4
<1>9. run[n] = G[1..n]
  BY <1>6
<1>10. QED
  BY <1>1, <1>7, <1>8, <1>9 DEF base, Step, IsRun

(***************************************************************************)
(* An effect keeps the escrow backed.                                      *)
(***************************************************************************)
IsContract(x) == DOMAIN x = {"escrow", "parties", "vars", "status"} /\ x.escrow \in Nat

\* A state of phase 2 that started from ledger m0.
Holds(st, m0, self, t, vs) ==
  /\ DOMAIN st = {"m", "ok", "contract"} /\ st.ok \in BOOLEAN
  /\ Safe(st.m, t, vs) /\ IsContract(st.contract)
  /\ st.ok => st.contract.escrow <= st.m.settled_balance[self]
  /\ \A b \in Addr \ {self} : st.m.settled_balance[b] >= m0.settled_balance[b]

\* A ledger operation of phase 2 that costs the escrow account v, and the escrow e left.
LEMMA TookHolds ==
  ASSUME NEW m0, Balanced(m0), NEW self \in Addr, NEW t \in Nat, NEW vs \in [Addr -> Nat],
         NEW st, Holds(st, m0, self, t, vs), NEW r, r.ok \in BOOLEAN, Safe(r.m, t, vs),
         NEW v \in Nat, Costs(st.m, r.m, self, v), NEW e,
         r.ok => e \in Nat /\ e <= r.m.settled_balance[self]
  PROVE  Holds(took(st, r, e), m0, self, t, vs)
<1>1. PICK n : n = took(st, r, e)
  OBVIOUS
<1>2. /\ DOMAIN n = {"m", "ok", "contract"} /\ n.m = r.m /\ n.ok = r.ok
      /\ n.contract = IF r.ok THEN [st.contract EXCEPT !.escrow = e] ELSE st.contract
  BY <1>1 DEF took
<1>3. IsContract(n.contract) /\ (n.ok => n.contract.escrow = e)
  BY <1>2 DEF Holds, IsContract
<1>4. ASSUME NEW b \in Addr \ {self} PROVE n.m.settled_balance[b] >= m0.settled_balance[b]
  <2>1. Balanced(st.m) /\ Balanced(r.m)
    BY SafeBalanced DEF Holds
  <2>2. /\ n.m.settled_balance[b] >= st.m.settled_balance[b]
        /\ st.m.settled_balance[b] >= m0.settled_balance[b]
    BY <1>2 DEF Costs, Holds
  <2>3. /\ n.m.settled_balance[b] \in Nat /\ st.m.settled_balance[b] \in Nat
        /\ m0.settled_balance[b] \in Nat
    BY <1>2, <2>1 DEF Balanced
  <2>4. QED
    BY <2>2, <2>3
<1>5. QED
  BY <1>1, <1>2, <1>3, <1>4 DEF Holds

LEMMA OpHolds ==
  ASSUME NEW m0, Balanced(m0), NEW self \in Addr, NEW t \in Nat, NEW vs \in [Addr -> Nat],
         NEW st, Holds(st, m0, self, t, vs), NEW op, EffectOp(op), op.op # "Abort"
  PROVE  Holds(apply_op(st, op, self, t), m0, self, t, vs)
<1>1. Safe(st.m, t, vs) /\ Balanced(st.m) /\ st.contract.escrow \in Nat
  BY SafeBalanced DEF Holds, IsContract
<1>2. PICK x, esc : x = st.m /\ esc = st.contract.escrow
  OBVIOUS
<1>3. Safe(x, t, vs) /\ x.settled_balance[self] \in Nat /\ esc \in Nat
  BY <1>1, <1>2 DEF Balanced
<1>4. CASE ~st.ok
  BY <1>4 DEF apply_op
<1>5. CASE st.ok /\ op.op = "SetVar"
  <2>1. PICK k, n : k = [st.contract EXCEPT !.vars = @ \cup {op.key}]
                    /\ n = [st EXCEPT !.contract = k]
    OBVIOUS
  <2>2. apply_op(st, op, self, t) = n
    BY <1>5, <2>1 DEF apply_op, Holds
  <2>3. IsContract(k) /\ k.escrow = st.contract.escrow
    BY <2>1 DEF Holds, IsContract
  <2>4. /\ n.m = st.m /\ n.ok = st.ok /\ n.contract = k
        /\ DOMAIN n = {"m", "ok", "contract"}
    BY <2>1 DEF Holds
  <2>5. QED
    BY <2>2, <2>3, <2>4 DEF Holds
<1>6. CASE st.ok /\ op.op \in {"Transfer", "Refund"}
  <2>1. PICK v, to : v = op.amount /\ to = op.to
    OBVIOUS
  <2>2. v \in Nat /\ to \in Addr
    BY <1>6, <2>1 DEF EffectOp
  <2>3. PICK r, e : r = apply_transfer(x, self, to, v, TRUE, t) /\ e = Monus(esc, v)
    OBVIOUS
  <2>4. r.ok \in BOOLEAN
    BY <2>3 DEF apply_transfer, Ok, Err
  <2>5. Safe(r.m, t, vs)
    BY <1>3, <2>2, <2>3, TransferTakes DEF Takes
  <2>6. Costs(x, r.m, self, v)
    BY <1>3, <2>2, <2>3, TransferCosts
  <2>7. e \in Nat /\ e <= r.m.settled_balance[self]
    <3>1. r.m.settled_balance[self] \in Nat /\ esc <= x.settled_balance[self]
      BY <1>2, <1>6, <2>5, SafeBalanced DEF Balanced, Holds
    <3>2. r.m.settled_balance[self] + v >= x.settled_balance[self]
      BY <2>6 DEF Costs
    <3>3. e = IF v > esc THEN 0 ELSE esc - v
      BY <1>3, <2>2, <2>3 DEF Monus
    <3>4. QED
      BY <1>3, <2>2, <3>1, <3>2, <3>3
  <2>8. Holds(took(st, r, e), m0, self, t, vs)
    BY <1>2, <2>2, <2>4, <2>5, <2>6, <2>7, TookHolds
  <2>9. apply_op(st, op, self, t) = took(st, r, e)
    BY <1>2, <1>6, <2>1, <2>3 DEF apply_op
  <2>10. QED
    BY <2>8, <2>9
<1>7. CASE st.ok /\ op.op = "OpenStream"
  <2>1. PICK v, rate, to : v = op.deposit /\ rate = op.rate /\ to = op.to
    OBVIOUS
  <2>2. v \in Nat /\ rate \in Nat /\ to \in Addr
    BY <1>7, <2>1 DEF EffectOp
  <2>3. PICK r, e : r = open_stream(x, self, to, rate, v, t) /\ e = Monus(esc, v)
    OBVIOUS
  <2>4. r.ok \in BOOLEAN
    BY <2>3 DEF open_stream, Ok, Err
  <2>5. Safe(r.m, t, vs)
    BY <1>3, <2>2, <2>3, OpenStreamTakes DEF Takes
  <2>6. Costs(x, r.m, self, v)
    BY <1>3, <2>2, <2>3, OpenCosts
  <2>7. e \in Nat /\ e <= r.m.settled_balance[self]
    <3>1. r.m.settled_balance[self] \in Nat /\ esc <= x.settled_balance[self]
      BY <1>2, <1>7, <2>5, SafeBalanced DEF Balanced, Holds
    <3>2. QED
      BY <1>3, <2>2, <2>3, <2>6, <3>1 DEF Monus, Costs
  <2>8. Holds(took(st, r, e), m0, self, t, vs)
    BY <1>2, <2>2, <2>4, <2>5, <2>6, <2>7, TookHolds
  <2>9. apply_op(st, op, self, t) = took(st, r, e)
    BY <1>2, <1>7, <2>1, <2>3 DEF apply_op
  <2>10. QED
    BY <2>8, <2>9
<1>8. CASE st.ok /\ op.op = "StopStream"
  <2>1. PICK id, r, e : /\ id = op.id /\ r = stop_stream(x, id, self, t)
                        /\ e = esc + refund_of(r.m.streams[id])
    OBVIOUS
  <2>2. r.ok \in BOOLEAN
    BY <2>1 DEF stop_stream, Ok, Err
  <2>3. Safe(r.m, t, vs)
    BY <1>3, <2>1, StopStreamTakes DEF Takes
  <2>4. PICK left : left = refund_of(r.m.streams[id])
    OBVIOUS
  <2>5. /\ Costs(x, r.m, self, 0)
        /\ r.ok => left \in Nat /\ r.m.settled_balance[self] >= x.settled_balance[self] + left
    BY <1>3, <2>1, <2>4, StopCosts
  <2>6. r.ok => e \in Nat /\ e <= r.m.settled_balance[self]
    <3>1. r.m.settled_balance[self] \in Nat /\ esc <= x.settled_balance[self]
      BY <1>2, <1>8, <2>3, SafeBalanced DEF Balanced, Holds
    <3>2. QED
      BY <1>3, <2>1, <2>4, <2>5, <3>1
  <2>7. Holds(took(st, r, e), m0, self, t, vs)
    BY <1>2, <2>2, <2>3, <2>5, <2>6, TookHolds
  <2>8. apply_op(st, op, self, t) = took(st, r, e)
    BY <1>2, <1>8, <2>1 DEF apply_op
  <2>9. QED
    BY <2>7, <2>8
<1>9. QED
  BY <1>4, <1>5, <1>6, <1>7, <1>8 DEF EffectOp, Holds

(***************************************************************************)
(* What an effect takes, of whom.                                          *)
(***************************************************************************)
\* Phase 2 reached m from m0 at the expense of self alone, by at most v.
Spared(m, m0, self, t, v) == Debits(m0, m, self, v, t) /\ Stops(m0, m, self)

LEMMA DrawType ==
  ASSUME NEW op, EffectOp(op)
  PROVE  draw(op) \in Nat
BY DEF draw, EffectOp

LEMMA SparedStep ==
  ASSUME NEW m0, NEW self \in Addr, NEW t \in Nat, NEW vs \in [Addr -> Nat],
         NEW k, NEW n, Safe(m0, t, vs), Safe(k, t, vs), Safe(n, t, vs),
         NEW v \in Nat, NEW w \in Nat, Spared(k, m0, self, t, v),
         Debits(k, n, self, w, t), Stops(k, n, self)
  PROVE  Spared(n, m0, self, t, v + w)
BY DebitsTrans, StopsTrans DEF Spared

LEMMA OpSpares ==
  ASSUME NEW m0, NEW self \in Addr, NEW t \in Nat, NEW vs \in [Addr -> Nat],
         Safe(m0, t, vs), NEW st, Holds(st, m0, self, t, vs),
         NEW v \in Nat, Spared(st.m, m0, self, t, v),
         NEW op, EffectOp(op), op.op # "Abort"
  PROVE  Spared(apply_op(st, op, self, t).m, m0, self, t, v + draw(op))
<1>1. PICK x : x = st.m
  OBVIOUS
<1>2. Safe(x, t, vs) /\ Spared(x, m0, self, t, v) /\ draw(op) \in Nat
  BY <1>1, DrawType DEF Holds
<1>3. PICK n : n = apply_op(st, op, self, t).m
  OBVIOUS
<1>4. Safe(n, t, vs)
  BY <1>3, SafeBalanced, OpHolds DEF Holds
<1>5. PICK w : w = draw(op)
  OBVIOUS
<1>6. CASE n = x
  <2>1. Debits(x, x, self, w, t)
    BY <1>2, <1>5, SameDebits DEF Same
  <2>2. Stops(x, x, self)
    BY StopsSame
  <2>3. QED
    BY <1>2, <1>3, <1>4, <1>5, <1>6, <2>1, <2>2, SparedStep
<1>7. CASE ~st.ok
  BY <1>1, <1>3, <1>6, <1>7 DEF apply_op
<1>8. CASE st.ok /\ op.op = "SetVar"
  <2>1. n = x
    BY <1>1, <1>3, <1>8 DEF apply_op, Holds
  <2>2. QED
    BY <1>6, <2>1
<1>9. CASE st.ok /\ op.op \in {"Transfer", "Refund"}
  <2>1. PICK to, r : to = op.to /\ r = apply_transfer(x, self, to, w, TRUE, t)
    OBVIOUS
  <2>2. w = op.amount /\ w \in Nat /\ to \in Addr
    BY <1>5, <1>9, <2>1 DEF EffectOp, draw
  <2>3. n = r.m
    BY <1>1, <1>3, <1>9, <2>1, <2>2 DEF apply_op, took
  <2>4. Debits(x, n, self, w, t)
    BY <1>2, <2>1, <2>2, <2>3, TransferReports
  <2>5. Stops(x, n, self)
    BY <1>2, <2>1, <2>2, <2>3, TransferStops
  <2>6. QED
    BY <1>2, <1>3, <1>4, <1>5, <2>4, <2>5, SparedStep
<1>10. CASE st.ok /\ op.op = "OpenStream"
  <2>1. PICK to, rate, r : /\ to = op.to /\ rate = op.rate
                           /\ r = open_stream(x, self, to, rate, w, t)
    OBVIOUS
  <2>2. w = op.deposit /\ w \in Nat /\ to \in Addr /\ rate \in Nat
    BY <1>5, <1>10, <2>1 DEF EffectOp, draw
  <2>3. n = r.m
    BY <1>1, <1>3, <1>10, <2>1, <2>2 DEF apply_op, took
  <2>4. Debits(x, n, self, w, t)
    BY <1>2, <2>1, <2>2, <2>3, OpenReports
  <2>5. Stops(x, n, self)
    BY <1>2, <2>1, <2>2, <2>3, OpenStops
  <2>6. QED
    BY <1>2, <1>3, <1>4, <1>5, <2>4, <2>5, SparedStep
<1>11. CASE st.ok /\ op.op = "StopStream"
  <2>1. PICK id, r : id = op.id /\ r = stop_stream(x, id, self, t)
    OBVIOUS
  <2>2. n = r.m
    BY <1>1, <1>3, <1>11, <2>1 DEF apply_op, took
  <2>3. Debits(x, n, self, w, t)
    <3>1. \A y \in Addr : balance(n, y, t) >= balance(x, y, t)
      BY <1>2, <2>1, <2>2, StopReports
    <3>2. \A y \in Addr : balance(n, y, t) \in Nat /\ balance(x, y, t) \in Nat
      BY <1>2, <1>4, SafeReports
    <3>3. QED
      BY <1>2, <1>5, <3>1, <3>2 DEF Debits
  <2>4. Stops(x, n, self)
    BY <1>2, <2>1, <2>2, StopStops
  <2>5. QED
    BY <1>2, <1>3, <1>4, <1>5, <2>3, <2>4, SparedStep
<1>12. QED
  BY <1>7, <1>8, <1>9, <1>10, <1>11 DEF EffectOp, Holds

\* A list of operations without an Abort.
Applicable(effect) ==
  /\ effect \in Seq(ToSet(effect))
  /\ \A i \in DOMAIN effect : EffectOp(effect[i]) /\ effect[i].op # "Abort"

\* The draws of an effect, summed up to each of its operations.
LEMMA DrawSums ==
  ASSUME NEW n \in Nat, NEW effect, \A i \in 1..n : draw(effect[i]) \in Nat
  PROVE  \E spent \in [0..n -> Nat] :
           /\ \A k \in 1..n : spent[k] = spent[k - 1] + draw(effect[k])
           /\ spent[n] = Total([i \in 1..n |-> draw(effect[i])])
<1> DEFINE draws(k) == [i \in 1..k |-> draw(effect[i])]
<1>1. ASSUME NEW k \in 0..n
      PROVE  draws(k) \in [1..k -> Nat] /\ IsFiniteSet(1..k) /\ Total(draws(k)) \in Nat
  <2>1. PICK f : f = draws(k)
    OBVIOUS
  <2>2. k \in Nat /\ \A i \in 1..k : i \in 1..n
    OBVIOUS
  <2>3. f \in [1..k -> Nat]
    BY <2>1, <2>2
  <2>4. IsFiniteSet(1..k)
    BY <2>2, FS_Interval
  <2>5. Total(f) \in Nat
    BY <2>3, <2>4, TotalType
  <2>6. QED
    BY <2>1, <2>3, <2>4, <2>5
<1>2. ASSUME NEW k \in 1..n PROVE Total(draws(k)) = Total(draws(k - 1)) + draw(effect[k])
  <2>1. PICK S, f, g : S = 1..(k - 1) /\ f = draws(k - 1) /\ g = draws(k)
    OBVIOUS
  <2>2. k - 1 \in 0..n /\ k \in 0..n /\ 1..k = S \cup {k} /\ k \notin S
    BY <2>1
  <2>3. IsFiniteSet(S) /\ f \in [S -> Nat] /\ g \in [S \cup {k} -> Nat]
    BY <1>1, <2>1, <2>2
  <2>4. (\A y \in S : g[y] = f[y]) /\ g[k] = draw(effect[k])
    BY <2>1, <2>2
  <2>5. Total(g) = Total(f) + g[k]
    BY <2>2, <2>3, <2>4, TotalExtend
  <2>6. QED
    BY <2>1, <2>4, <2>5
<1>3. PICK spent : spent = [k \in 0..n |-> Total(draws(k))]
  OBVIOUS
<1> HIDE DEF draws
<1>4. spent \in [0..n -> Nat] /\ spent[n] = Total(draws(n))
  BY <1>1, <1>3
<1>5. \A k \in 1..n : spent[k] = spent[k - 1] + draw(effect[k])
  BY <1>2, <1>3
<1>6. QED
  BY <1>4, <1>5 DEF draws

\* A whole effect keeps the escrow backed and takes no more than its draws.
LEMMA EffectHolds ==
  ASSUME NEW m, NEW c, EscrowOf[c] \in Addr, NEW t \in Nat, NEW vs \in [Addr -> Nat],
         Safe(m, t, vs), IsContract(contracts[c]),
         contracts[c].escrow <= m.settled_balance[EscrowOf[c]],
         NEW effect, Applicable(effect)
  PROVE  LET after == apply_effect(m, c, effect, t)
             drawn == Total([i \in DOMAIN effect |-> draw(effect[i])])
         IN /\ Holds(after, m, EscrowOf[c], t, vs)
            /\ drawn \in Nat /\ Spared(after.m, m, EscrowOf[c], t, drawn)
<1>1. PICK n, self : n = Len(effect) /\ self = EscrowOf[c]
  OBVIOUS
<1>2. n \in Nat /\ DOMAIN effect = 1..n /\ self \in Addr
  <2>1. \A T : \A z \in Seq(T) : Len(z) \in Nat /\ DOMAIN z = 1..Len(z)
    OBVIOUS
  <2>2. QED
    BY <1>1, <2>1 DEF Applicable
<1>3. PICK run : /\ run[0] = [m |-> settle(m, self, t), contract |-> contracts[c], ok |-> TRUE]
                 /\ \A k \in 1..n : run[k] = apply_op(run[k - 1], effect[k], self, t)
                 /\ apply_effect(m, c, effect, t) = run[n]
  <2>1. PICK run : IsRun(run, m, c, effect, n, t)
    BY <1>2, EffectRun
  <2>2. QED
    BY <1>1, <2>1 DEF IsRun
<1>4. Balanced(m) /\ MemOK(m) /\ AllWellFormed(m, t)
  BY SafeBalanced DEF Safe
<1>5. \A k \in 1..n : EffectOp(effect[k]) /\ effect[k].op # "Abort" /\ draw(effect[k]) \in Nat
  BY <1>2, DrawType DEF Applicable
<1>6. PICK spent \in [0..n -> Nat] :
        /\ \A k \in 1..n : spent[k] = spent[k - 1] + draw(effect[k])
        /\ spent[n] = Total([i \in 1..n |-> draw(effect[i])])
  BY <1>2, <1>5, DrawSums
<1> DEFINE Good(k) == /\ Holds(run[k], m, self, t, vs)
                      /\ Spared(run[k].m, m, self, t, spent[k])
<1>7. Good(0)
  <2>1. PICK k, st, v : k = settle(m, self, t) /\ st = run[0] /\ v = spent[0]
    OBVIOUS
  <2>2. /\ DOMAIN st = {"m", "ok", "contract"} /\ st.m = k /\ st.ok = TRUE
        /\ st.contract = contracts[c]
    BY <1>3, <2>1
  <2>3. Safe(k, t, vs) /\ Costs(m, k, self, 0) /\ Balanced(k)
    BY <1>2, <1>4, <2>1, SettleSafe, SettleCosts
  <2>4. contracts[c].escrow <= k.settled_balance[self]
    <3>1. /\ m.settled_balance[self] \in Nat /\ k.settled_balance[self] \in Nat
          /\ contracts[c].escrow \in Nat
      BY <1>2, <1>4, <2>3 DEF Balanced, IsContract
    <3>2. QED
      BY <1>1, <2>3, <3>1 DEF Costs
  <2>5. \A b \in Addr \ {self} : k.settled_balance[b] >= m.settled_balance[b]
    BY <2>3 DEF Costs
  <2>6. Holds(st, m, self, t, vs)
    BY <2>2, <2>3, <2>4, <2>5 DEF Holds
  <2>7. v \in Nat
    BY <1>2, <1>6, <2>1
  <2>8. Same(m, k, t)
    BY <1>2, <1>4, <2>1, SettleReports
  <2>9. Debits(m, k, self, v, t)
    BY <1>2, <2>7, <2>8, SameDebits
  <2>10. Stops(m, k, self)
    BY <1>2, <2>1, SettleStops
  <2>11. QED
    BY <2>1, <2>2, <2>6, <2>9, <2>10 DEF Spared
<1>8. ASSUME NEW k \in 1..n, Good(k - 1) PROVE Good(k)
  <2>1. PICK st, op, v : st = run[k - 1] /\ op = effect[k] /\ v = spent[k - 1]
    OBVIOUS
  <2>2. v \in Nat /\ EffectOp(op) /\ op.op # "Abort"
    BY <1>2, <1>5, <1>6, <2>1
  <2>3. Holds(st, m, self, t, vs) /\ Spared(st.m, m, self, t, v)
    BY <1>8, <2>1
  <2>4. PICK z : z = apply_op(st, op, self, t)
    OBVIOUS
  <2>5. Holds(z, m, self, t, vs)
    BY <1>2, <1>4, <2>2, <2>3, <2>4, OpHolds
  <2>6. Spared(z.m, m, self, t, v + draw(op))
    BY <1>2, <2>2, <2>3, <2>4, OpSpares
  <2>7. run[k] = z /\ spent[k] = v + draw(op)
    BY <1>3, <1>6, <2>1, <2>4
  <2>8. QED
    BY <2>5, <2>6, <2>7
<1> HIDE DEF Good
<1>9. Good(n)
  <2> DEFINE bad == {k \in 0..n : ~Good(k)}
  <2>1. SUFFICES ASSUME bad # {} PROVE FALSE
    BY <1>2
  <2>2. PICK k \in bad : \A y \in bad : k <= y
    <3>1. bad \subseteq Nat
      OBVIOUS
    <3> HIDE DEF bad
    <3>2. QED
      BY <2>1, <3>1, LeastNat
  <2>3. k \in 1..n
    BY <1>2, <1>7, <2>2
  <2>4. k - 1 \in 0..n /\ ~(k <= k - 1)
    BY <1>2, <2>3
  <2>5. Good(k - 1)
    BY <2>2, <2>4
  <2>6. QED
    BY <1>8, <2>2, <2>3, <2>5
<1>10. PICK after, drawn : /\ after = apply_effect(m, c, effect, t)
                           /\ drawn = Total([i \in DOMAIN effect |-> draw(effect[i])])
  OBVIOUS
<1>11. after = run[n] /\ drawn = spent[n] /\ drawn \in Nat
  <2>1. after = run[n]
    BY <1>3, <1>10
  <2>2. drawn = spent[n]
    BY <1>2, <1>6, <1>10
  <2>3. spent[n] \in Nat
    BY <1>2, <1>6
  <2>4. QED
    BY <2>1, <2>2, <2>3
<1>12. Holds(after, m, self, t, vs) /\ Spared(after.m, m, self, t, drawn)
  BY <1>9, <1>11 DEF Good
<1>13. QED
  BY <1>1, <1>10, <1>11, <1>12

(***************************************************************************)
(* The tally and the decision.                                             *)
(***************************************************************************)
LEMMA SupportersFinite ==
  ASSUME NEW subs, IsFiniteSet(DOMAIN subs), NEW e
  PROVE  /\ Cardinality(Supporters(subs, e)) \in Nat
         /\ Cardinality(Supporters(subs, e)) <= Cardinality(DOMAIN subs)
<1>1. Supporters(subs, e) \subseteq DOMAIN subs
  BY DEF Supporters
<1>2. QED
  BY <1>1, FS_Subset, FS_CardinalityType

\* When nothing has a quorum, the best answer has none.
LEMMA BestIsShort ==
  ASSUME NEW subs, IsFiniteSet(DOMAIN subs),
         \A j \in DOMAIN subs : Cardinality(Supporters(subs, subs[j])) < QUORUM
  PROVE  BestCount(subs) \in Nat /\ BestCount(subs) < QUORUM
<1>1. CASE DOMAIN subs = {}
  <2>1. QUORUM \in Nat \ {0}
    BY ContractConstants
  <2>2. QED
    BY <1>1, <2>1 DEF BestCount
<1>2. CASE DOMAIN subs # {}
  <2> DEFINE Count(e) == Cardinality(Supporters(subs, e))
             D == DOMAIN subs
             Best(e) == \A j \in D : Count(subs[j]) <= Count(e)
             best == CHOOSE e \in {subs[j] : j \in D} : Best(e)
             N == Cardinality(D)
             short == {N - Count(subs[j]) : j \in D}
  <2>1. \A j \in D : Count(subs[j]) \in Nat /\ Count(subs[j]) <= N
    BY SupportersFinite
  <2>2. N \in Nat
    BY FS_CardinalityType
  <2>3. BestCount(subs) = Count(best)
    BY <1>2 DEF BestCount
  <2>4. \A j \in D : Count(subs[j]) < QUORUM
    OBVIOUS
  <2>5. D # {}
    BY <1>2
  <2> HIDE DEF Count, D, N
  <2>6. short \subseteq Nat /\ short # {}
    BY <2>1, <2>2, <2>5
  <2>7. PICK x \in short : \A y \in short : x <= y
    <3> HIDE DEF short
    <3>1. QED
      BY <2>6, LeastNat
  <2>8. PICK k \in D : x = N - Count(subs[k])
    BY <2>7
  <2>9. ASSUME NEW j \in D PROVE Count(subs[j]) <= Count(subs[k])
    <3>1. N - Count(subs[j]) \in short
      OBVIOUS
    <3>2. x <= N - Count(subs[j])
      BY <2>7, <3>1
    <3>3. QED
      BY <2>1, <2>2, <2>8, <3>2
  <2>10. \E e \in {subs[j] : j \in D} : Best(e)
    BY <2>9
  <2>11. best \in {subs[j] : j \in D}
    <3> HIDE DEF Best
    <3>1. QED
      BY <2>10, Zenon
  <2> HIDE DEF best
  <2>12. PICK j \in D : best = subs[j]
    BY <2>11
  <2>13. QED
    BY <2>1, <2>3, <2>4, <2>12
<1>3. QED
  BY <1>1, <1>2

\* A case whose whole jury has answered is decided, and decided for an effect
\* only if a quorum gave it.
LEMMA Tallied ==
  ASSUME NEW subs, NEW jury, IsFiniteSet(jury), DOMAIN subs = jury
  PROVE  LET r == tally_effects(subs, seats(jury))
         IN /\ r.is \in {"Committed", "NoQuorum"}
            /\ r.is = "Committed" =>
                 \E j \in jury : /\ r.effect = subs[j]
                                 /\ Cardinality(Supporters(subs, subs[j])) >= QUORUM
<1> DEFINE won == {subs[j] : j \in {k \in DOMAIN subs :
                     at_quorum(Cardinality(Supporters(subs, subs[k])))}}
           unused == Monus(Cardinality(jury), Cardinality(DOMAIN subs))
           pick == CHOOSE e \in won : TRUE
<1>1. PICK r : r = tally_effects(subs, seats(jury))
  OBVIOUS
<1>2. r = IF won # {} THEN [is |-> "Committed", effect |-> pick]
          ELSE IF BestCount(subs) + unused < QUORUM THEN [is |-> "NoQuorum"]
          ELSE [is |-> "Pending"]
  BY <1>1 DEF tally_effects, seats
<1>3. unused = 0
  BY FS_CardinalityType DEF Monus
<1>4. CASE won # {}
  <2>1. pick \in won
    BY <1>4
  <2> HIDE DEF pick
  <2>2. PICK j \in jury : /\ pick = subs[j]
                          /\ at_quorum(Cardinality(Supporters(subs, subs[j])))
    BY <2>1
  <2>3. r.is = "Committed" /\ r.effect = pick
    BY <1>2, <1>4
  <2>4. QED
    BY <1>1, <2>2, <2>3 DEF at_quorum
<1>5. CASE won = {}
  <2>1. ASSUME NEW j \in DOMAIN subs PROVE Cardinality(Supporters(subs, subs[j])) < QUORUM
    <3>1. ~at_quorum(Cardinality(Supporters(subs, subs[j])))
      BY <1>5
    <3>2. QUORUM \in Nat /\ Cardinality(Supporters(subs, subs[j])) \in Nat
      BY ContractConstants, SupportersFinite
    <3>3. QED
      BY <3>1, <3>2 DEF at_quorum
  <2>2. BestCount(subs) \in Nat /\ BestCount(subs) < QUORUM
    BY <2>1, BestIsShort
  <2>3. BestCount(subs) + 0 < QUORUM
    BY <2>2
  <2> HIDE DEF unused, won, pick
  <2>4. r = [is |-> "NoQuorum"]
    BY <1>2, <1>3, <1>5, <2>3
  <2>5. QED
    BY <1>1, <2>4
<1>6. QED
  BY <1>4, <1>5

(***************************************************************************)
(* Resolving a case.                                                       *)
(***************************************************************************)
Effectual(effect) ==
  /\ effect \in Seq(ToSet(effect))
  /\ \A i \in DOMAIN effect : EffectOp(effect[i])

\* Every record's escrow, in the contracts cs over the ledger m.
Backed(cs, m) == \A d \in DOMAIN cs : cs[d].escrow <= m.settled_balance[EscrowOf[d]]

Contracts(cs) ==
  /\ \E n \in Nat : DOMAIN cs = 0..(n - 1)
  /\ DOMAIN cs \subseteq ContractIds
  /\ \A d \in DOMAIN cs : IsContract(cs[d])

LEMMA EscrowAccounts ==
  /\ \A c \in ContractIds : EscrowOf[c] \in Addr /\ EscrowOf[c] \notin Users
  /\ \A c, d \in ContractIds : c # d => EscrowOf[c] # EscrowOf[d]
  /\ Users \subseteq Signers /\ Users \subseteq Addr
BY ContractConstants DEF Signers

\* Phase 1 lets no Abort through.
LEMMA ValidApplicable ==
  ASSUME NEW m, NEW c, NEW contract, NEW effect, Effectual(effect),
         effect_valid(m, c, contract, effect)
  PROVE  Applicable(effect)
<1>1. ASSUME NEW i \in DOMAIN effect PROVE EffectOp(effect[i]) /\ effect[i].op # "Abort"
  <2>1. EffectOp(effect[i]) /\ op_valid(m, c, contract, effect[i])
    BY DEF Effectual, effect_valid
  <2>2. PICK op : op = effect[i]
    OBVIOUS
  <2>3. op_valid(m, c, contract, op)
    BY <2>1, <2>2
  <2>4. op.op # "Abort"
    BY <2>3 DEF op_valid
  <2>5. QED
    BY <2>1, <2>2, <2>4
<1>2. QED
  BY <1>1 DEF Applicable, Effectual

\* An effect that passed phase 1, applied to contract c.
LEMMA AppliedBacked ==
  ASSUME NEW m, NEW c \in DOMAIN contracts, Contracts(contracts), NEW t \in Nat,
         NEW vs \in [Addr -> Nat], Safe(m, t, vs), Backed(contracts, m),
         NEW effect, Applicable(effect)
  PROVE  LET after == apply_effect(m, c, effect, t)
             cs == [contracts EXCEPT ![c] = after.contract]
         IN /\ Safe(after.m, t, vs) /\ after.ok \in BOOLEAN
            /\ DOMAIN cs = DOMAIN contracts /\ Contracts(cs)
            /\ after.ok => Backed(cs, after.m)
<1>1. PICK after, cs, self : /\ after = apply_effect(m, c, effect, t)
                             /\ cs = [contracts EXCEPT ![c] = after.contract]
                             /\ self = EscrowOf[c]
  OBVIOUS
<1>2. /\ self \in Addr /\ IsContract(contracts[c])
      /\ contracts[c].escrow <= m.settled_balance[self]
  BY <1>1, EscrowAccounts DEF Contracts, Backed
<1>3. Holds(after, m, self, t, vs)
  BY <1>1, <1>2, EffectHolds
<1>4. /\ DOMAIN cs = DOMAIN contracts
      /\ cs[c] = after.contract
      /\ \A d \in DOMAIN contracts \ {c} : cs[d] = contracts[d]
  BY <1>1
<1>5. Contracts(cs)
  <2>1. \A d \in DOMAIN cs : IsContract(cs[d])
    BY <1>3, <1>4 DEF Contracts, Holds
  <2>2. QED
    BY <1>4, <2>1 DEF Contracts
<1>6. ASSUME after.ok, NEW d \in DOMAIN cs
      PROVE  cs[d].escrow <= after.m.settled_balance[EscrowOf[d]]
  <2>1. CASE d = c
    BY <1>1, <1>3, <1>4, <1>6, <2>1 DEF Holds
  <2>2. CASE d # c
    <3>1. PICK b, e : b = EscrowOf[d] /\ e = contracts[d].escrow
      OBVIOUS
    <3>2. b \in Addr \ {self} /\ e \in Nat /\ e <= m.settled_balance[b]
      BY <1>1, <1>4, <2>2, <3>1, EscrowAccounts DEF Contracts, Backed, IsContract
    <3>3. after.m.settled_balance[b] >= m.settled_balance[b]
      BY <1>3, <3>2 DEF Holds
    <3>4. after.m.settled_balance[b] \in Nat /\ m.settled_balance[b] \in Nat
      BY <1>3, <3>2, SafeBalanced DEF Holds, Balanced
    <3>5. QED
      BY <1>4, <2>2, <3>1, <3>2, <3>3, <3>4
  <2>3. QED
    BY <2>1, <2>2
<1>7. QED
  BY <1>1, <1>3, <1>4, <1>5, <1>6 DEF Holds, Backed

\* What resolving a case with a whole jury's answers leaves.
LEMMA Resolved ==
  ASSUME NEW m, NEW c \in DOMAIN contracts, Contracts(contracts), NEW t \in Nat,
         NEW vs \in [Addr -> Nat], Safe(m, t, vs), Backed(contracts, m),
         NEW jury, IsFiniteSet(jury), NEW subs, DOMAIN subs = jury,
         \A j \in jury : Effectual(subs[j])
  PROVE  LET r == resolve_case(m, c, subs, jury, t)
         IN /\ Safe(r.m, t, vs) /\ r.panicked \in BOOLEAN
            /\ Contracts(r.contracts)
            /\ ~r.panicked => Backed(r.contracts, r.m)
            /\ r.status \in {"Aborted", "Committed"}
            /\ r.status = "Committed" =>
                 \E j \in jury : /\ ~is_abort(subs[j])
                                 /\ Cardinality(Supporters(subs, subs[j])) >= QUORUM
<1>1. PICK tally, after, r, done :
        /\ tally = tally_effects(subs, seats(jury))
        /\ after = apply_effect(m, c, tally.effect, t)
        /\ r = resolve_case(m, c, subs, jury, t)
        /\ done = [m |-> after.m, status |-> "Committed",
                   contracts |-> IF after.ok
                                   THEN [contracts EXCEPT ![c] = after.contract]
                                   ELSE contracts,
                   panicked |-> ~after.ok]
  OBVIOUS
<1>2. /\ tally.is \in {"Committed", "NoQuorum"}
      /\ tally.is = "Committed" =>
           \E j \in jury : /\ tally.effect = subs[j]
                           /\ Cardinality(Supporters(subs, subs[j])) >= QUORUM
  BY <1>1, Tallied
<1>3. r = CASE tally.is = "Pending"  -> Unresolved(m, "Open")
            [] tally.is = "NoQuorum" -> Unresolved(m, "Aborted")
            [] tally.is = "Committed" ->
                 IF \/ is_abort(tally.effect)
                    \/ ~effect_valid(m, c, contracts[c], tally.effect)
                   THEN Unresolved(m, "Aborted") ELSE done
  BY <1>1 DEF resolve_case
<1>4. CASE r = Unresolved(m, "Aborted")
  <2>1. r.m = m /\ r.contracts = contracts /\ r.status = "Aborted" /\ r.panicked = FALSE
    BY <1>4 DEF Unresolved
  <2>2. QED
    BY <1>1, <2>1
<1>5. CASE tally.is = "Committed" /\ ~is_abort(tally.effect)
           /\ effect_valid(m, c, contracts[c], tally.effect)
  <2>1. r = done
    BY <1>3, <1>5
  <2>2. PICK j \in jury : /\ tally.effect = subs[j]
                          /\ Cardinality(Supporters(subs, subs[j])) >= QUORUM
    BY <1>2, <1>5
  <2>3. PICK cs : cs = [contracts EXCEPT ![c] = after.contract]
    OBVIOUS
  <2>4. Applicable(tally.effect)
    BY <1>5, <2>2, ValidApplicable
  <2>5. /\ Safe(after.m, t, vs) /\ after.ok \in BOOLEAN /\ Contracts(cs)
        /\ after.ok => Backed(cs, after.m)
    BY <1>1, <2>3, <2>4, AppliedBacked
  <2>6. /\ r.m = after.m /\ r.status = "Committed" /\ r.panicked = ~after.ok
        /\ r.contracts = IF after.ok THEN cs ELSE contracts
    BY <1>1, <2>1, <2>3
  <2>7. /\ Safe(r.m, t, vs) /\ r.panicked \in BOOLEAN
        /\ Contracts(r.contracts)
        /\ ~r.panicked => Backed(r.contracts, r.m)
    BY <2>5, <2>6
  <2>8. QED
    BY <1>1, <1>5, <2>2, <2>6, <2>7
<1>6. QED
  BY <1>2, <1>3, <1>4, <1>5

(***************************************************************************)
(* What a jury answers.                                                    *)
(***************************************************************************)
\* The answers are effects, one of each juror, and one that is no abort came
\* from a reply that could be read.
LEMMA Interpreted ==
  ASSUME NEW jury \in select_jury, NEW i \in Interpretations[jury]
  PROVE  /\ IsFiniteSet(jury) /\ DOMAIN i.effects = jury
         /\ \A j \in jury : Effectual(i.effects[j])
         /\ i.answered \in Nat
         /\ \A T \in SUBSET jury : (\A j \in T : ~is_abort(i.effects[j]))
              => Cardinality(T) <= i.answered
<1>1. jury \subseteq Jurors /\ IsFiniteSet(jury)
  BY ContractConstants, FS_Subset DEF select_jury
<1>2. PICK replies \in RepliesOf(jury) :
        i = [effects  |-> [j \in jury |-> Interpreter!interpret(replies[j])],
             answered |-> Cardinality({j \in jury : Interpreter!decoded(replies[j]).ok})]
  BY DEF Interpretations
<1>3. PICK read : read = {j \in jury : Interpreter!decoded(replies[j]).ok}
  OBVIOUS
<1>4. /\ DOMAIN i.effects = jury /\ i.answered = Cardinality(read)
      /\ \A j \in jury : i.effects[j] = Interpreter!interpret(replies[j])
  BY <1>2, <1>3
<1>5. \A j \in jury : replies[j] \in Replies \cup {Dissent(k) : k \in Jurors}
  BY <1>1 DEF RepliesOf
<1>6. ASSUME NEW j \in jury PROVE Effectual(i.effects[j])
  <2>1. PICK r \in Replies \cup {Dissent(k) : k \in Jurors} : r = replies[j]
    BY <1>5
  <2>2. PICK effect : effect = Interpreter!interpret(r)
    OBVIOUS
  <2>3. effect \in Seq(ToSet(effect)) /\ \A k \in DOMAIN effect : EffectOp(effect[k])
    BY <2>2, EffectsTyped
  <2>4. QED
    BY <1>4, <2>1, <2>2, <2>3 DEF Effectual
<1>7. IsFiniteSet(read) /\ read \subseteq jury
  BY <1>1, <1>3, FS_Subset
<1>8. ASSUME NEW T \in SUBSET jury, \A j \in T : ~is_abort(i.effects[j])
      PROVE  Cardinality(T) <= i.answered
  <2>1. ASSUME NEW j \in T, ~Interpreter!decoded(replies[j]).ok PROVE FALSE
    <3>1. i.effects[j] = <<[op |-> "Abort"]>>
      BY <1>4, <2>1 DEF Interpreter!interpret, Interpreter!abort_effect
    <3>2. is_abort(i.effects[j])
      BY <3>1 DEF is_abort
    <3>3. QED
      BY <1>8, <3>2
  <2>2. T \subseteq read
    BY <1>3, <2>1
  <2>3. QED
    BY <1>4, <1>7, <2>2, FS_Subset
<1>9. i.answered \in Nat
  BY <1>4, <1>7, FS_CardinalityType
<1>10. QED
  BY <1>1, <1>4, <1>6, <1>8, <1>9

(***************************************************************************)
(* The invariant.                                                          *)
(***************************************************************************)
CaseOK(x) ==
  /\ x.status # "Open"
  /\ x.answered < QUORUM => x.status = "Aborted"
  /\ x.status = "Committed" =>
       \E e \in {x.effects[j] : j \in x.jury} :
         Cardinality({j \in x.jury : x.effects[j] = e}) >= QUORUM

CasesOK ==
  /\ \E T : cases \in Seq(T)
  /\ \A i \in DOMAIN cases : CaseOK(cases[i])

CInv ==
  /\ Inv
  /\ panicked \in BOOLEAN
  /\ Contracts(contracts)
  /\ ~panicked => Backed(contracts, mem)
  /\ CasesOK

LEMMA CInitInv ==
  ASSUME CInit
  PROVE  CInv
<1>1. Inv
  BY InitInv DEF CInit
<1>2. contracts = <<>> /\ cases = <<>> /\ panicked = FALSE
  BY DEF CInit
<1>3. DOMAIN contracts = {} /\ {} = 0..(0 - 1)
  BY <1>2
<1>4. Contracts(contracts) /\ Backed(contracts, mem)
  BY <1>3 DEF Contracts, Backed
<1>5. cases \in Seq({}) /\ DOMAIN cases = {}
  BY <1>2
<1>6. CasesOK
  BY <1>5 DEF CasesOK
<1>7. QED
  BY <1>1, <1>2, <1>4, <1>6 DEF CInv

\* An operation of a user: a safe ledger, and nobody else's balance lowered.
Spends(m, n, a) ==
  /\ Safe(n, now, verifiedSecs)
  /\ \A b \in Addr \ {a} : n.settled_balance[b] >= m.settled_balance[b]

LEMMA SpendsByCost ==
  ASSUME NEW m, NEW n, NEW a, NEW v, Safe(n, now, verifiedSecs), Costs(m, n, a, v)
  PROVE  Spends(m, n, a)
BY DEF Spends, Costs

LEMMA SpendsTrans ==
  ASSUME NEW k, NEW m, NEW n, NEW a, Balanced(k), Spends(k, m, a), Spends(m, n, a)
  PROVE  Spends(k, n, a)
<1>1. ASSUME NEW b \in Addr \ {a} PROVE n.settled_balance[b] >= k.settled_balance[b]
  <2>1. Balanced(m) /\ Balanced(n)
    BY SafeBalanced DEF Spends
  <2>2. /\ k.settled_balance[b] \in Nat /\ m.settled_balance[b] \in Nat
        /\ n.settled_balance[b] \in Nat
    BY <2>1 DEF Balanced
  <2>3. QED
    BY <2>2 DEF Spends
<1>2. QED
  BY <1>1 DEF Spends

\* The records stay backed, whatever a user spends.
LEMMA SpendsBacked ==
  ASSUME NEW m, Balanced(m), Contracts(contracts), Backed(contracts, m),
         NEW a \in Users, NEW n, Spends(m, n, a)
  PROVE  Backed(contracts, n)
<1>1. ASSUME NEW d \in DOMAIN contracts
      PROVE  contracts[d].escrow <= n.settled_balance[EscrowOf[d]]
  <2>1. PICK b, e : b = EscrowOf[d] /\ e = contracts[d].escrow
    OBVIOUS
  <2>2. b \in Addr \ {a} /\ e \in Nat /\ e <= m.settled_balance[b]
    BY <2>1, EscrowAccounts DEF Contracts, Backed, IsContract
  <2>3. Balanced(n) /\ n.settled_balance[b] >= m.settled_balance[b]
    BY <2>2, SafeBalanced DEF Spends
  <2>4. n.settled_balance[b] \in Nat /\ m.settled_balance[b] \in Nat
    BY <2>2, <2>3 DEF Balanced
  <2>5. QED
    BY <2>1, <2>2, <2>3, <2>4
<1>2. QED
  BY <1>1 DEF Backed

\* A settlement of any account spends nothing.
LEMMA SettleSpends ==
  ASSUME NEW m, NEW a \in Addr, NEW b \in Addr, Inv, Safe(m, now, verifiedSecs)
  PROVE  Spends(m, settle(m, a, now), b)
<1>1. now \in Nat /\ verifiedSecs \in [Addr -> Nat] /\ MemOK(m)
  BY DEF Inv, Safe
<1>2. Safe(settle(m, a, now), now, verifiedSecs) /\ Costs(m, settle(m, a, now), b, 0)
  BY <1>1, SettleSafe, SettleCosts
<1>3. QED
  BY <1>2, SpendsByCost

\* Fee and nonce.
LEMMA FeeSpends ==
  ASSUME Inv, NEW from \in Users, NEW kind \in Kinds, NEW nonceOk \in BOOLEAN
  PROVE  LET c == charge_fee(mem, from, FeeOf[kind], now)
             n == consume_nonce(c.m, from, nonceOk, now)
         IN /\ Spends(mem, c.m, from) /\ Spends(mem, n.m, from)
            /\ Spends(mem, settle(n.m, from, now), from)
<1>1. /\ from \in Signers /\ from \in Addr /\ FeeOf[kind] \in Nat /\ now \in Nat
      /\ verifiedSecs \in [Addr -> Nat] /\ Safe(mem, now, verifiedSecs)
  BY EscrowAccounts, LedgerConstants DEF Inv
<1>2. PICK fee, c, n : /\ fee = FeeOf[kind] /\ c = charge_fee(mem, from, fee, now)
                       /\ n = consume_nonce(c.m, from, nonceOk, now)
  OBVIOUS
<1>3. Safe(c.m, now, verifiedSecs) /\ Costs(mem, c.m, from, fee)
  BY <1>1, <1>2, ChargeFeeTakes, FeeCosts DEF Takes
<1>4. Spends(mem, c.m, from)
  BY <1>3, SpendsByCost
<1>5. n.m = IF nonceOk THEN settle(c.m, from, now) ELSE c.m
  BY <1>2 DEF consume_nonce, Ok, Err
<1>6. Balanced(mem)
  BY <1>1, SafeBalanced
<1>7. Spends(mem, n.m, from)
  <2>1. Spends(c.m, settle(c.m, from, now), from)
    BY <1>1, <1>3, SettleSpends
  <2>2. Spends(mem, settle(c.m, from, now), from)
    BY <1>4, <1>6, <2>1, SpendsTrans
  <2>3. QED
    BY <1>4, <1>5, <2>2
<1>8. Spends(mem, settle(n.m, from, now), from)
  <2>1. Spends(n.m, settle(n.m, from, now), from)
    BY <1>1, <1>7, SettleSpends DEF Spends
  <2>2. QED
    BY <1>6, <1>7, <2>1, SpendsTrans
<1>9. QED
  BY <1>2, <1>4, <1>7, <1>8

(***************************************************************************)
(* The steps.                                                              *)
(***************************************************************************)
LEMMA CasesKept ==
  ASSUME CasesOK, cases' = cases
  PROVE  CasesOK'
<1>1. PICK T : cases \in Seq(T)
  BY DEF CasesOK
<1>2. cases' \in Seq(T)
  BY <1>1
<1>3. ASSUME NEW i \in DOMAIN cases' PROVE CaseOK(cases'[i])
  <2>1. i \in DOMAIN cases /\ cases'[i] = cases[i]
    OBVIOUS
  <2>2. CaseOK(cases[i])
    BY <2>1 DEF CasesOK
  <2>3. QED
    BY <2>1, <2>2
<1>4. QED
  BY <1>2, <1>3 DEF CasesOK

\* A step of a user that leaves the contracts alone.
LEMMA UserStep ==
  ASSUME CInv, ~panicked, NEW from \in Users, Spends(mem, mem', from),
         UNCHANGED <<now, verifiedSecs>>, UNCHANGED cvars
  PROVE  CInv'
<1>1. Inv'
  BY DEF CInv, Inv, Spends
<1>2. Backed(contracts, mem')
  <2>1. Balanced(mem)
    BY SafeBalanced DEF CInv, Inv
  <2>2. PICK n : n = mem'
    OBVIOUS
  <2>3. Backed(contracts, n)
    BY <2>1, <2>2, SpendsBacked DEF CInv
  <2>4. QED
    BY <2>2, <2>3
<1>3. contracts' = contracts /\ cases' = cases /\ panicked' = panicked
  BY DEF cvars
<1>4. Contracts(contracts)' /\ Backed(contracts, mem)' /\ panicked' \in BOOLEAN
  BY <1>2, <1>3 DEF CInv, Contracts, Backed, IsContract
<1>5. CasesOK'
  BY <1>3, CasesKept DEF CInv
<1>6. QED
  BY <1>1, <1>4, <1>5 DEF CInv

LEMMA FailsStep ==
  ASSUME CInv, ~panicked, NEW from \in Users, NEW nonceOk \in BOOLEAN, NEW reason,
         Fails(from, nonceOk, reason)
  PROVE  CInv'
<1>1. PICK kind \in Kinds : kind = "hub"
  BY DEF Kinds
<1>2. PICK c, n : /\ c = charge_fee(mem, from, FeeOf[kind], now)
                  /\ n = consume_nonce(c.m, from, nonceOk, now)
  OBVIOUS
<1>3. /\ mem' = IF c.ok THEN settle(n.m, from, now) ELSE c.m
      /\ UNCHANGED <<now, verifiedSecs>> /\ UNCHANGED cvars
  BY <1>1, <1>2 DEF Fails, Ledgered, after_op, Err
<1>4. Spends(mem, c.m, from) /\ Spends(mem, settle(n.m, from, now), from)
  BY <1>2, FeeSpends DEF CInv
<1>5. Spends(mem, mem', from)
  BY <1>3, <1>4
<1>6. QED
  BY <1>3, <1>5, UserStep

LEMMA PaidSpends ==
  ASSUME CInv, NEW from \in Users, NEW nonceOk \in BOOLEAN
  PROVE  Spends(mem, Paid(from, nonceOk).m, from)
<1>1. PICK kind \in Kinds : kind = "hub"
  BY DEF Kinds
<1>2. QED
  BY <1>1, FeeSpends DEF CInv, Paid

LEMMA LedgerTransfer ==
  ASSUME CInv, NEW from \in Users, NEW to \in Addr, NEW v \in Values,
         Transfer(from, to, v, TRUE)
  PROVE  Spends(mem, mem', from) /\ UNCHANGED <<now, verifiedSecs>>
<1>1. PICK kind \in Kinds : kind = "transfer"
  BY DEF Kinds
<1>2. PICK c, r : /\ c = charge_fee(mem, from, FeeOf[kind], now)
                  /\ r = apply_transfer(c.m, from, to, v, TRUE, now)
  OBVIOUS
<1>3. /\ now \in Nat /\ verifiedSecs \in [Addr -> Nat] /\ v \in Nat /\ from \in Addr
      /\ Inv /\ Safe(mem, now, verifiedSecs)
  BY EscrowAccounts, LedgerConstants DEF CInv, Inv
<1>4. Spends(mem, c.m, from)
  <2>1. PICK ok \in BOOLEAN : ok = TRUE
    OBVIOUS
  <2>2. QED
    BY <1>2, <1>3, <2>1, FeeSpends
<1>5. Spends(c.m, r.m, from)
  <2>1. Safe(c.m, now, verifiedSecs)
    BY <1>4 DEF Spends
  <2>2. Safe(r.m, now, verifiedSecs) /\ Costs(c.m, r.m, from, v)
    BY <1>2, <1>3, <2>1, TransferTakes, TransferCosts DEF Takes
  <2>3. QED
    BY <2>2, SpendsByCost
<1>6. Balanced(mem)
  BY <1>3, SafeBalanced
<1>7. Spends(mem, r.m, from)
  BY <1>4, <1>5, <1>6, SpendsTrans
<1>8. Spends(mem, settle(r.m, from, now), from)
  <2>1. Spends(r.m, settle(r.m, from, now), from)
    BY <1>3, <1>7, SettleSpends DEF Spends
  <2>2. QED
    BY <1>6, <1>7, <2>1, SpendsTrans
<1>9. /\ mem' = IF c.ok THEN (IF r.ok THEN r.m ELSE settle(r.m, from, now)) ELSE c.m
      /\ UNCHANGED <<now, verifiedSecs>>
  BY <1>1, <1>2 DEF Transfer, after_op
<1>10. QED
  BY <1>4, <1>7, <1>8, <1>9

LEMMA LedgerOpen ==
  ASSUME CInv, NEW from \in Users, NEW to \in Addr, NEW rate \in Rates,
         NEW d \in Deposits, OpenStream(from, to, rate, d, TRUE)
  PROVE  Spends(mem, mem', from) /\ UNCHANGED <<now, verifiedSecs>>
<1>1. PICK kind \in Kinds, ok \in BOOLEAN : kind = "stream" /\ ok = TRUE
  BY DEF Kinds
<1>2. PICK c, n, r : /\ c = charge_fee(mem, from, FeeOf[kind], now)
                     /\ n = consume_nonce(c.m, from, ok, now)
                     /\ r = open_stream(n.m, from, to, rate, d, now)
  OBVIOUS
<1>3. /\ now \in Nat /\ verifiedSecs \in [Addr -> Nat] /\ rate \in Nat /\ d \in Nat
      /\ from \in Addr /\ Inv /\ Safe(mem, now, verifiedSecs)
  BY EscrowAccounts, LedgerConstants DEF CInv, Inv
<1>4. Spends(mem, c.m, from) /\ Spends(mem, n.m, from)
      /\ Spends(mem, settle(n.m, from, now), from)
  BY <1>2, <1>3, FeeSpends
<1>5. Spends(n.m, r.m, from)
  <2>1. Safe(n.m, now, verifiedSecs)
    BY <1>4 DEF Spends
  <2>2. Safe(r.m, now, verifiedSecs) /\ Costs(n.m, r.m, from, d)
    BY <1>2, <1>3, <2>1, OpenStreamTakes, OpenCosts DEF Takes
  <2>3. QED
    BY <2>2, SpendsByCost
<1>6. Balanced(mem)
  BY <1>3, SafeBalanced
<1>7. Spends(mem, r.m, from)
  BY <1>4, <1>5, <1>6, SpendsTrans
<1>8. Spends(mem, settle(r.m, from, now), from)
  <2>1. Spends(r.m, settle(r.m, from, now), from)
    BY <1>3, <1>7, SettleSpends DEF Spends
  <2>2. QED
    BY <1>6, <1>7, <2>1, SpendsTrans
<1>9. /\ mem' = IF ~c.ok THEN c.m
                ELSE IF ~n.ok THEN after_op(n, from, now)
                ELSE IF r.ok THEN r.m ELSE settle(r.m, from, now)
      /\ UNCHANGED <<now, verifiedSecs>>
  BY <1>1, <1>2 DEF OpenStream, after_op
<1>10. n.ok
  BY <1>1, <1>2 DEF consume_nonce, Ok
<1>11. QED
  BY <1>4, <1>7, <1>8, <1>9, <1>10

LEMMA LedgerStepKeeps ==
  ASSUME CInv, ~panicked, LedgerStep
  PROVE  CInv'
<1>1. UNCHANGED cvars
  BY DEF LedgerStep
<1>2. CASE NewBlock
  <2>1. Inv' /\ mem' = mem
    BY <1>2, NewBlockStep DEF CInv, NewBlock
  <2>2. contracts' = contracts /\ cases' = cases /\ panicked' = panicked
    BY <1>1 DEF cvars
  <2>3. Contracts(contracts)' /\ Backed(contracts, mem)' /\ panicked' \in BOOLEAN
    BY <2>1, <2>2 DEF CInv, Contracts, Backed, IsContract
  <2>4. CasesOK'
    BY <2>2, CasesKept DEF CInv
  <2>5. QED
    BY <2>1, <2>3, <2>4 DEF CInv
<1>3. ASSUME NEW from \in Users, NEW to \in Addr, NEW v \in Values,
             Transfer(from, to, v, TRUE)
      PROVE  CInv'
  BY <1>1, <1>3, LedgerTransfer, UserStep
<1>4. ASSUME NEW from \in Users, NEW to \in Addr, NEW rate \in Rates,
             NEW d \in Deposits, OpenStream(from, to, rate, d, TRUE)
      PROVE  CInv'
  BY <1>1, <1>4, LedgerOpen, UserStep
<1>5. QED
  BY <1>2, <1>3, <1>4 DEF LedgerStep

LEMMA DeployStep ==
  ASSUME CInv, ~panicked, NEW from \in Users, NEW ps, NEW text_ok \in BOOLEAN,
         NEW nonceOk \in BOOLEAN, deploy_contract(from, ps, text_ok, nonceOk)
  PROVE  CInv'
<1> DEFINE id == Cardinality(DOMAIN contracts)
           accepted == /\ ps # {} /\ text_ok
                       /\ Cardinality(ps) <= MAX_CONTRACT_PARTIES
           new == [escrow |-> 0, parties |-> ps, vars |-> {}, status |-> "Active"]
<1>1. id \in ContractIds
  BY DEF deploy_contract
<1>2. CASE Fails(from, nonceOk, ~accepted)
  BY <1>2, FailsStep
<1>3. CASE /\ Ledgered(Paid(from, nonceOk).m)
           /\ contracts' = [c \in 0..id |-> IF c = id THEN new ELSE contracts[c]]
           /\ UNCHANGED <<cases, panicked>>
  <2>1. PICK n \in Nat : DOMAIN contracts = 0..(n - 1)
    BY DEF CInv, Contracts
  <2>2. id = n
    BY <2>1, FS_Interval
  <2>3. PICK x : x = new
    OBVIOUS
  <2>4. IsContract(x) /\ x.escrow = 0
    BY <2>3 DEF IsContract
  <2>5. PICK cs : cs = [c \in 0..n |-> IF c = n THEN x ELSE contracts[c]]
    OBVIOUS
  <2>6. contracts' = cs
    BY <1>3, <2>2, <2>3, <2>5
  <2>7. /\ DOMAIN cs = 0..((n + 1) - 1) /\ n + 1 \in Nat
        /\ n \in DOMAIN cs /\ cs[n] = x
        /\ \A d \in DOMAIN cs \ {n} : d \in DOMAIN contracts /\ cs[d] = contracts[d]
    BY <2>1, <2>5
  <2>8. Contracts(cs)
    <3>1. DOMAIN cs \subseteq ContractIds
      BY <1>1, <2>2, <2>7 DEF CInv, Contracts
    <3>2. \A d \in DOMAIN cs : IsContract(cs[d])
      BY <2>4, <2>7 DEF CInv, Contracts
    <3>3. QED
      BY <2>7, <3>1, <3>2 DEF Contracts
  <2>9. PICK k : k = Paid(from, nonceOk).m
    OBVIOUS
  <2>10. Spends(mem, k, from) /\ mem' = k /\ UNCHANGED <<now, verifiedSecs>>
    BY <1>3, <2>9, PaidSpends DEF Ledgered
  <2>11. Backed(contracts, k)
    <3>1. Balanced(mem)
      BY SafeBalanced DEF CInv, Inv
    <3>2. QED
      BY <2>10, <3>1, SpendsBacked DEF CInv
  <2>12. Backed(cs, k)
    <3>1. EscrowOf[n] \in Addr
      BY <1>1, <2>2, EscrowAccounts
    <3>2. k.settled_balance[EscrowOf[n]] \in Nat
      BY <2>10, <3>1, SafeBalanced DEF Spends, Balanced
    <3>3. QED
      BY <2>4, <2>7, <2>11, <3>2 DEF Backed
  <2>13. Inv'
    BY <2>10 DEF CInv, Inv, Spends
  <2>14. CasesOK' /\ panicked' \in BOOLEAN
    BY <1>3, CasesKept DEF CInv
  <2>15. QED
    BY <2>6, <2>8, <2>10, <2>12, <2>13, <2>14 DEF CInv
<1>4. QED
  BY <1>2, <1>3 DEF deploy_contract

\* Funding adds to the record what the account has got.
LEMMA FundStep ==
  ASSUME CInv, ~panicked, NEW from \in Users, NEW c \in ContractIds, NEW v \in Values,
         NEW nonceOk \in BOOLEAN, fund_contract(from, c, v, nonceOk)
  PROVE  CInv'
<1>1. PICK kind \in Kinds : kind = "hub"
  BY DEF Kinds
<1>2. PICK f, r, self : /\ f = charge_fee(mem, from, FeeOf[kind], now)
                        /\ r = apply_transfer(f.m, from, self, v, nonceOk, now)
                        /\ self = EscrowOf[c]
  OBVIOUS
<1>3. /\ now \in Nat /\ verifiedSecs \in [Addr -> Nat] /\ v \in Nat /\ from \in Addr
      /\ self \in Addr /\ self # from /\ Inv /\ Safe(mem, now, verifiedSecs)
  BY <1>2, EscrowAccounts, LedgerConstants DEF CInv, Inv
<1>4. /\ mem' = IF ~f.ok THEN f.m
                ELSE IF Known(c) THEN after_op(r, from, now)
                ELSE settle(f.m, from, now)
      /\ contracts' = IF f.ok /\ Known(c) /\ r.ok
                        THEN [contracts EXCEPT ![c].escrow = @ + v] ELSE contracts
      /\ UNCHANGED <<now, verifiedSecs>> /\ UNCHANGED <<cases, panicked>>
  BY <1>1, <1>2 DEF fund_contract, Ledgered, after_op, Err
<1>5. Spends(mem, f.m, from) /\ Balanced(mem)
  BY <1>2, <1>3, FeeSpends, SafeBalanced
<1>6. Safe(f.m, now, verifiedSecs) /\ Balanced(f.m)
  BY <1>5, SafeBalanced DEF Spends
<1>7. /\ Safe(r.m, now, verifiedSecs) /\ Costs(f.m, r.m, from, v)
      /\ r.ok => r.m.settled_balance[self] >= f.m.settled_balance[self] + v
  BY <1>2, <1>3, <1>6, TransferTakes, TransferCosts DEF Takes
<1>8. Spends(f.m, r.m, from) /\ Spends(mem, r.m, from)
  BY <1>5, <1>7, SpendsByCost, SpendsTrans
<1>9. CASE ~(f.ok /\ Known(c) /\ r.ok)
  <2>1. Spends(f.m, settle(f.m, from, now), from)
        /\ Spends(r.m, settle(r.m, from, now), from)
    BY <1>3, <1>6, <1>7, SettleSpends
  <2>2. Spends(mem, settle(f.m, from, now), from)
        /\ Spends(mem, settle(r.m, from, now), from)
    BY <1>5, <1>8, <2>1, SpendsTrans
  <2>3. mem' = f.m \/ mem' = settle(f.m, from, now) \/ mem' = settle(r.m, from, now)
    BY <1>4, <1>9 DEF after_op
  <2>4. Spends(mem, mem', from)
    BY <1>5, <2>2, <2>3
  <2>5. UNCHANGED cvars
    BY <1>4, <1>9 DEF cvars
  <2>6. QED
    BY <1>4, <2>4, <2>5, UserStep
<1>10. CASE f.ok /\ Known(c) /\ r.ok
  <2>1. PICK x, cs : /\ x = [contracts[c] EXCEPT !.escrow = contracts[c].escrow + v]
                     /\ cs = [contracts EXCEPT ![c] = x]
    OBVIOUS
  <2>2. c \in DOMAIN contracts /\ IsContract(contracts[c])
    BY <1>10 DEF Known, CInv, Contracts
  <2>3. contracts' = cs
    BY <1>4, <1>10, <2>1, <2>2
  <2>4. IsContract(x) /\ x.escrow = contracts[c].escrow + v
    BY <1>3, <2>1, <2>2 DEF IsContract
  <2>5. /\ DOMAIN cs = DOMAIN contracts /\ cs[c] = x
        /\ \A d \in DOMAIN contracts \ {c} : cs[d] = contracts[d]
    BY <2>1, <2>2
  <2>6. Contracts(cs)
    BY <2>4, <2>5 DEF CInv, Contracts
  <2>7. mem' = r.m
    BY <1>4, <1>10 DEF after_op
  <2>8. Backed(contracts, f.m) /\ Backed(contracts, r.m)
    BY <1>5, <1>8, SpendsBacked DEF CInv
  <2>9. x.escrow <= r.m.settled_balance[self]
    <3>1. /\ contracts[c].escrow \in Nat /\ contracts[c].escrow <= f.m.settled_balance[self]
          /\ f.m.settled_balance[self] \in Nat /\ r.m.settled_balance[self] \in Nat
      BY <1>2, <1>3, <1>6, <1>7, <2>2, <2>8, SafeBalanced DEF Backed, Balanced, IsContract
    <3>2. QED
      BY <1>3, <1>7, <1>10, <2>4, <3>1
  <2>10. Backed(cs, r.m)
    BY <1>2, <2>5, <2>8, <2>9 DEF Backed
  <2>11. Inv'
    BY <1>3, <1>4, <1>7, <2>7 DEF Inv
  <2>12. CasesOK' /\ panicked' \in BOOLEAN
    BY <1>4, CasesKept DEF CInv
  <2>13. QED
    BY <2>3, <2>6, <2>7, <2>10, <2>11, <2>12 DEF CInv
<1>11. QED
  BY <1>9, <1>10

\* The case an invocation records is decided.
LEMMA CaseDecided ==
  ASSUME NEW c, NEW jury \in select_jury, NEW i \in Interpretations[jury],
         NEW status \in {"Aborted", "Committed"},
         status = "Committed" =>
           \E j \in jury : /\ ~is_abort(i.effects[j])
                           /\ Cardinality(Supporters(i.effects, i.effects[j])) >= QUORUM
  PROVE  CaseOK(exec_case(c, jury, i, status))
<1>1. PICK x : x = exec_case(c, jury, i, status)
  OBVIOUS
<1>2. /\ x.jury = jury /\ x.effects = i.effects /\ x.answered = i.answered
      /\ x.status = status
  BY <1>1 DEF exec_case
<1>3. /\ IsFiniteSet(jury) /\ DOMAIN i.effects = jury /\ i.answered \in Nat
      /\ \A T \in SUBSET jury : (\A j \in T : ~is_abort(i.effects[j]))
           => Cardinality(T) <= i.answered
  BY Interpreted
<1>4. CASE status = "Aborted"
  BY <1>1, <1>2, <1>4 DEF CaseOK
<1>5. CASE status = "Committed"
  <2>1. PICK j \in jury : /\ ~is_abort(i.effects[j])
                          /\ Cardinality(Supporters(i.effects, i.effects[j])) >= QUORUM
    BY <1>5
  <2>2. PICK T : T = Supporters(i.effects, i.effects[j])
    OBVIOUS
  <2>3. /\ T \in SUBSET jury /\ \A k \in T : i.effects[k] = i.effects[j]
        /\ T = {k \in x.jury : x.effects[k] = i.effects[j]}
    BY <1>2, <1>3, <2>2 DEF Supporters
  <2>4. Cardinality(T) <= i.answered
    <3>1. \A k \in T : ~is_abort(i.effects[k])
      BY <2>1, <2>3
    <3>2. QED
      BY <1>3, <2>3, <3>1
  <2>5. Cardinality(T) \in Nat /\ QUORUM \in Nat /\ Cardinality(T) >= QUORUM
    BY <1>3, <2>1, <2>2, <2>3, FS_Subset, FS_CardinalityType, ContractConstants
  <2>6. ~(x.answered < QUORUM)
    BY <1>2, <1>3, <2>4, <2>5
  <2>7. \E e \in {x.effects[k] : k \in x.jury} :
          Cardinality({k \in x.jury : x.effects[k] = e}) >= QUORUM
    <3>1. i.effects[j] \in {x.effects[k] : k \in x.jury}
      BY <1>2
    <3>2. QED
      BY <2>3, <2>5, <3>1
  <2>8. x.status # "Open"
    BY <1>2, <1>5
  <2>9. CaseOK(x)
    BY <2>6, <2>7, <2>8, Zenon DEF CaseOK
  <2>10. QED
    BY <1>1, <2>9
<1>6. QED
  BY <1>4, <1>5

LEMMA CasesAppended ==
  ASSUME CasesOK, NEW x, CaseOK(x), cases' = Append(cases, x)
  PROVE  CasesOK'
<1>1. PICK T : cases \in Seq(T)
  BY DEF CasesOK
<1>2. PICK U : U = T \cup {x}
  OBVIOUS
<1>3. cases \in Seq(U) /\ x \in U
  BY <1>1, <1>2
<1>4. /\ cases' \in Seq(U) /\ DOMAIN cases' = 1..(Len(cases) + 1)
      /\ DOMAIN cases = 1..Len(cases) /\ Len(cases) \in Nat
      /\ cases'[Len(cases) + 1] = x
      /\ \A i \in 1..Len(cases) : cases'[i] = cases[i]
  BY <1>3
<1>5. ASSUME NEW i \in DOMAIN cases' PROVE CaseOK(cases'[i])
  <2>1. CASE i = Len(cases) + 1
    BY <1>4, <2>1
  <2>2. CASE i # Len(cases) + 1
    <3>1. i \in DOMAIN cases /\ cases'[i] = cases[i]
      BY <1>4, <2>2
    <3>2. CaseOK(cases[i])
      BY <3>1 DEF CasesOK
    <3>3. QED
      BY <3>1, <3>2
  <2>3. QED
    BY <2>1, <2>2
<1>6. QED
  BY <1>4, <1>5 DEF CasesOK

LEMMA InvokeStep ==
  ASSUME CInv, ~panicked, NEW from \in Users, NEW c \in ContractIds,
         NEW nonceOk \in BOOLEAN, invoke_contract(from, c, nonceOk)
  PROVE  CInv'
<1>1. CASE Fails(from, nonceOk, ~(Known(c) /\ Jurors # {}))
  BY <1>1, FailsStep
<1>2. ASSUME Known(c), NEW jury \in select_jury, NEW i \in Interpretations[jury],
             NEW r, r = resolve_case(Paid(from, nonceOk).m, c, i.effects, jury, now),
             Ledgered(r.m), contracts' = r.contracts, panicked' = r.panicked,
             cases' = Append(cases, exec_case(c, jury, i, r.status))
      PROVE  CInv'
  <2>1. PICK m : m = Paid(from, nonceOk).m
    OBVIOUS
  <2>2. Balanced(mem) /\ now \in Nat /\ verifiedSecs \in [Addr -> Nat]
    BY SafeBalanced DEF CInv, Inv
  <2>3. Spends(mem, m, from) /\ Safe(m, now, verifiedSecs)
    BY <2>1, PaidSpends DEF Spends
  <2>4. Contracts(contracts) /\ Backed(contracts, m) /\ c \in DOMAIN contracts
    BY <1>2, <2>2, <2>3, SpendsBacked DEF CInv, Known
  <2>5. IsFiniteSet(jury) /\ DOMAIN i.effects = jury /\ \A j \in jury : Effectual(i.effects[j])
    BY <1>2, Interpreted
  <2>6. PICK subs : subs = i.effects
    OBVIOUS
  <2>7. /\ Safe(r.m, now, verifiedSecs) /\ r.panicked \in BOOLEAN
        /\ Contracts(r.contracts)
        /\ ~r.panicked => Backed(r.contracts, r.m)
        /\ r.status \in {"Aborted", "Committed"}
        /\ r.status = "Committed" =>
             \E j \in jury : /\ ~is_abort(subs[j])
                             /\ Cardinality(Supporters(subs, subs[j])) >= QUORUM
    BY <1>2, <2>1, <2>2, <2>3, <2>4, <2>5, <2>6, Resolved
  <2>8. PICK status : status = r.status
    OBVIOUS
  <2>9. CaseOK(exec_case(c, jury, i, status))
    BY <1>2, <2>6, <2>7, <2>8, CaseDecided
  <2>10. CasesOK'
    BY <1>2, <2>8, <2>9, CasesAppended DEF CInv
  <2>11. mem' = r.m /\ UNCHANGED <<now, verifiedSecs>>
    BY <1>2 DEF Ledgered
  <2>12. Inv'
    BY <2>2, <2>7, <2>11 DEF Inv
  <2>13. QED
    BY <1>2, <2>7, <2>10, <2>11, <2>12 DEF CInv
<1>3. QED
  BY <1>1, <1>2 DEF invoke_contract

\* No case is open, so a submission only ever pays its fee.
LEMMA SubmitStep ==
  ASSUME CInv, ~panicked, NEW from \in Users, NEW i, NEW nonceOk \in BOOLEAN,
         submit_effect(from, i, nonceOk)
  PROVE  CInv'
<1>1. ~(i \in DOMAIN cases /\ cases[i].status = "Open")
  BY DEF CInv, CasesOK, CaseOK
<1>2. PICK reason : Fails(from, nonceOk, reason)
  BY <1>1 DEF submit_effect
<1>3. QED
  BY <1>2, FailsStep

LEMMA CNextInv ==
  ASSUME CInv, [CNext]_allvars
  PROVE  CInv'
<1>1. CASE UNCHANGED allvars
  <2>1. /\ mem' = mem /\ now' = now /\ verifiedSecs' = verifiedSecs
        /\ contracts' = contracts /\ cases' = cases /\ panicked' = panicked
    BY <1>1 DEF allvars
  <2>2. CasesOK'
    BY <2>1, CasesKept DEF CInv
  <2>3. Inv' /\ Contracts(contracts)' /\ panicked' \in BOOLEAN
    BY <2>1 DEF CInv, Inv, Contracts
  <2>4. ~panicked' => Backed(contracts, mem)'
    BY <2>1 DEF CInv, Backed
  <2>5. QED
    BY <2>2, <2>3, <2>4 DEF CInv
<1>2. CASE CNext
  <2>1. ~panicked
    BY <1>2 DEF CNext
  <2>2. CASE LedgerStep
    BY <2>1, <2>2, LedgerStepKeeps
  <2>3. ASSUME NEW from \in Users, NEW ps \in SUBSET Parties, NEW ok \in BOOLEAN,
               NEW n \in BOOLEAN, deploy_contract(from, ps, ok, n)
        PROVE  CInv'
    BY <2>1, <2>3, DeployStep
  <2>4. ASSUME NEW from \in Users, NEW c \in ContractIds, NEW v \in Values,
               NEW n \in BOOLEAN, fund_contract(from, c, v, n)
        PROVE  CInv'
    BY <2>1, <2>4, FundStep
  <2>5. ASSUME NEW from \in Users, NEW c \in ContractIds, NEW n \in BOOLEAN,
               invoke_contract(from, c, n)
        PROVE  CInv'
    BY <2>1, <2>5, InvokeStep
  <2>6. ASSUME NEW from \in Users, NEW i \in 1..MaxCases, NEW n \in BOOLEAN,
               submit_effect(from, i, n)
        PROVE  CInv'
    BY <2>1, <2>6, SubmitStep
  <2>7. QED
    BY <1>2, <2>2, <2>3, <2>4, <2>5, <2>6 DEF CNext
<1>3. QED
  BY <1>1, <1>2

LEMMA CInvIsInvariant == CSpec => []CInv
<1>1. CInit => CInv
  BY CInitInv
<1>2. CInv /\ [CNext]_allvars => CInv'
  BY CNextInv
<1>3. QED
  BY <1>1, <1>2, PTL DEF CSpec

(***************************************************************************)
(* What an invocation may change.                                          *)
(***************************************************************************)
\* Fee and nonce: the sender's loss and the treasury's gain.
LEMMA PaidReports ==
  ASSUME CInv, NEW from \in Users, NEW nonceOk \in BOOLEAN
  PROVE  LET m == Paid(from, nonceOk).m IN
         /\ Safe(m, now, verifiedSecs) /\ m.next_id = mem.next_id
         /\ \A a \in Addr \ {from, TREASURY} : balance(m, a, now) = balance(mem, a, now)
         /\ \A a \in Addr \ {from} : balance(m, a, now) >= balance(mem, a, now)
         /\ \A a : Stops(mem, m, a)
<1>1. PICK fee : fee = FeeOf["hub"]
  OBVIOUS
<1>2. /\ from \in Signers /\ from \in Addr /\ fee \in Nat /\ now \in Nat
      /\ verifiedSecs \in [Addr -> Nat] /\ Safe(mem, now, verifiedSecs)
  BY <1>1, EscrowAccounts, LedgerConstants DEF CInv, Inv, Kinds
<1>3. PICK k, n : k = charge_fee(mem, from, fee, now).m /\ n = consume_nonce(k, from, nonceOk, now).m
  OBVIOUS
<1>4. Safe(k, now, verifiedSecs)
  BY <1>2, <1>3, ChargeFeeTakes DEF Takes
<1>5. /\ \A a \in Addr \ {from, TREASURY} : balance(k, a, now) = balance(mem, a, now)
      /\ Debits(mem, k, from, fee, now)
      /\ k.next_id = mem.next_id
  <2>1. PICK t \in Nat, vs \in [Addr -> Nat] : t = now /\ vs = verifiedSecs
    BY <1>2
  <2>2. PICK m : m = mem
    OBVIOUS
  <2>3. Safe(m, t, vs) /\ k = charge_fee(m, from, fee, t).m
    BY <1>2, <1>3, <2>1, <2>2
  <2>4. /\ \A a \in Addr \ {from, TREASURY} : balance(k, a, t) = balance(m, a, t)
        /\ Debits(m, k, from, fee, t)
        /\ k.next_id = m.next_id
    BY <1>2, <2>3, FeeReports
  <2>5. QED
    BY <2>1, <2>2, <2>4
<1>6. /\ Safe(n, now, verifiedSecs) /\ Debits(mem, n, from, fee, now) /\ Same(k, n, now)
  BY <1>2, <1>3, <1>4, <1>5, NonceReports
<1>7. n \in {k, settle(k, from, now)}
  BY <1>3 DEF consume_nonce, Ok, Err
<1>8. n.next_id = mem.next_id
  BY <1>5, <1>7, SettleKeepsIds
<1>9. ASSUME NEW a PROVE Stops(mem, n, a)
  <2>1. Stops(mem, k, a)
    BY <1>2, <1>3, FeeStops
  <2>2. Stops(k, k, a) /\ Stops(k, settle(k, from, now), a)
    BY <1>2, <1>4, StopsSame, SettleStops
  <2>3. QED
    BY <1>7, <2>1, <2>2, StopsTrans
<1>10. n = Paid(from, nonceOk).m
  BY <1>1, <1>3 DEF Paid
<1>11. /\ \A a \in Addr \ {from, TREASURY} : balance(n, a, now) = balance(mem, a, now)
       /\ \A a \in Addr \ {from} : balance(n, a, now) >= balance(mem, a, now)
  BY <1>5, <1>6 DEF Same, Debits
<1>12. QED
  BY <1>6, <1>8, <1>9, <1>10, <1>11

\* r is what comes of applying an effect that phase 1 let through.
Commits(r, m, c, effect, t) ==
  LET after == apply_effect(m, c, effect, t)
  IN /\ Applicable(effect) /\ effect_valid(m, c, contracts[c], effect)
     /\ r.m = after.m
     /\ r.contracts \in {contracts, [contracts EXCEPT ![c] = after.contract]}

\* How a case is resolved: not at all, or by an effect that phase 1 let through.
LEMMA ResolvedHow ==
  ASSUME NEW m, NEW c, NEW t, NEW jury, IsFiniteSet(jury), NEW subs, DOMAIN subs = jury,
         \A j \in jury : Effectual(subs[j])
  PROVE  LET r == resolve_case(m, c, subs, jury, t)
         IN \/ r.status = "Aborted" /\ r.m = m /\ r.contracts = contracts
            \/ r.status = "Committed" /\ \E effect : Commits(r, m, c, effect, t)
<1>1. PICK tally, effect, after, r, done :
        /\ tally = tally_effects(subs, seats(jury)) /\ effect = tally.effect
        /\ after = apply_effect(m, c, effect, t)
        /\ r = resolve_case(m, c, subs, jury, t)
        /\ done = [m |-> after.m, status |-> "Committed",
                   contracts |-> IF after.ok
                                   THEN [contracts EXCEPT ![c] = after.contract]
                                   ELSE contracts,
                   panicked |-> ~after.ok]
  OBVIOUS
<1>2. /\ tally.is \in {"Committed", "NoQuorum"}
      /\ tally.is = "Committed" => \E j \in jury : effect = subs[j]
  BY <1>1, Tallied
<1>3. r = CASE tally.is = "Pending"  -> Unresolved(m, "Open")
            [] tally.is = "NoQuorum" -> Unresolved(m, "Aborted")
            [] tally.is = "Committed" ->
                 IF is_abort(effect) \/ ~effect_valid(m, c, contracts[c], effect)
                   THEN Unresolved(m, "Aborted") ELSE done
  BY <1>1 DEF resolve_case
<1>4. CASE r = Unresolved(m, "Aborted")
  <2>1. r.m = m /\ r.contracts = contracts /\ r.status = "Aborted"
    BY <1>4 DEF Unresolved
  <2>2. QED
    BY <1>1, <2>1
<1>5. CASE tally.is = "Committed" /\ effect_valid(m, c, contracts[c], effect) /\ r = done
  <2>1. Effectual(effect)
    BY <1>2, <1>5
  <2>2. Applicable(effect)
    BY <1>5, <2>1, ValidApplicable
  <2>3. /\ r.status = "Committed" /\ r.m = after.m
        /\ r.contracts \in {contracts, [contracts EXCEPT ![c] = after.contract]}
    BY <1>1, <1>5
  <2>4. Commits(r, m, c, effect, t)
    BY <1>1, <1>5, <2>2, <2>3 DEF Commits
  <2>5. QED
    BY <1>1, <2>3, <2>4
<1>6. QED
  BY <1>2, <1>3, <1>4, <1>5

\* An invocation that reached its jury.
Invoked(from, c, nonceOk, jury, i, r) ==
  /\ ~panicked /\ Known(c)
  /\ r = resolve_case(Paid(from, nonceOk).m, c, i.effects, jury, now)
  /\ mem' = r.m /\ now' = now /\ contracts' = r.contracts
  /\ cases' = Append(cases, exec_case(c, jury, i, r.status))

\* No other step records or decides a case.
LEMMA OnlyInvocationsDecide ==
  ASSUME CInv, [CNext]_allvars
  PROVE  \/ cases' = cases
         \/ \E from \in Users, c \in ContractIds, nonceOk \in BOOLEAN :
              \E jury \in select_jury : \E i \in Interpretations[jury] : \E r :
                Invoked(from, c, nonceOk, jury, i, r)
<1>1. CASE UNCHANGED allvars
  BY <1>1 DEF allvars
<1>2. ASSUME NEW from, NEW nonceOk, NEW reason, Fails(from, nonceOk, reason)
      PROVE  cases' = cases
  BY <1>2 DEF Fails, cvars
<1>3. CASE LedgerStep
  BY <1>3 DEF LedgerStep, cvars
<1>4. ASSUME NEW from, NEW ps, NEW ok, NEW n, deploy_contract(from, ps, ok, n)
      PROVE  cases' = cases
  BY <1>2, <1>4 DEF deploy_contract
<1>5. ASSUME NEW from, NEW c, NEW v, NEW n, fund_contract(from, c, v, n)
      PROVE  cases' = cases
  BY <1>5 DEF fund_contract
<1>6. ASSUME NEW from, NEW i, NEW n, submit_effect(from, i, n)
      PROVE  cases' = cases
  <2>1. ~(i \in DOMAIN cases /\ cases[i].status = "Open")
    BY DEF CInv, CasesOK, CaseOK
  <2>2. PICK reason : Fails(from, n, reason)
    BY <1>6, <2>1 DEF submit_effect
  <2>3. QED
    BY <1>2, <2>2
<1>7. ASSUME ~panicked, NEW from \in Users, NEW c \in ContractIds, NEW n \in BOOLEAN,
             invoke_contract(from, c, n)
      PROVE  \/ cases' = cases
             \/ \E jury \in select_jury : \E i \in Interpretations[jury] : \E r :
                  Invoked(from, c, n, jury, i, r)
  <2>1. CASE Fails(from, n, ~(Known(c) /\ Jurors # {}))
    BY <1>2, <2>1
  <2>2. CASE ~Fails(from, n, ~(Known(c) /\ Jurors # {}))
    BY <1>7, <2>2 DEF invoke_contract, Invoked, Ledgered
  <2>3. QED
    BY <2>1, <2>2
<1>8. QED
  BY <1>1, <1>3, <1>4, <1>5, <1>6, <1>7 DEF CNext

\* What a step decides is the invoked contract's case, as it was resolved.
LEMMA DecidedBy ==
  ASSUME CInv, NEW from, NEW c, NEW nonceOk, NEW jury, NEW i, NEW r,
         Invoked(from, c, nonceOk, jury, i, r), NEW status, NEW d \in Decided(status)
  PROVE  d = c /\ r.status = status
<1>1. PICK T : cases \in Seq(T)
  BY DEF CInv, CasesOK
<1>2. PICK x, U : x = exec_case(c, jury, i, r.status) /\ U = T \cup {x}
  OBVIOUS
<1>3. cases' = Append(cases, x) /\ cases \in Seq(U) /\ x \in U
  BY <1>1, <1>2 DEF Invoked
<1>4. /\ DOMAIN cases' = 1..(Len(cases) + 1)
      /\ DOMAIN cases = 1..Len(cases) /\ Len(cases) \in Nat
      /\ cases'[Len(cases) + 1] = x
      /\ \A k \in 1..Len(cases) : cases'[k] = cases[k]
  BY <1>3
<1>5. PICK k \in DOMAIN cases' : /\ cases'[k].status = status /\ d = cases'[k].contract
                                 /\ k \in DOMAIN cases => cases[k].status # status
  BY DEF Decided
<1>6. k = Len(cases) + 1
  BY <1>4, <1>5
<1>7. x.contract = c /\ x.status = r.status
  BY <1>2 DEF exec_case
<1>8. QED
  BY <1>4, <1>5, <1>6, <1>7

LEMMA NothingDecided ==
  ASSUME cases' = cases, NEW status
  PROVE  Decided(status) = {}
BY DEF Decided

LEMMA AtMostOne ==
  ASSUME NEW S, NEW x, S \subseteq {x}
  PROVE  Cardinality(S) <= 1
<1>1. S = {} \/ S = {x}
  OBVIOUS
<1>2. Cardinality({}) = 0 /\ Cardinality({x}) = 1
  BY FS_EmptySet, FS_Singleton
<1>3. QED
  BY <1>1, <1>2

LEMMA AbortStep ==
  ASSUME CInv, [CNext]_allvars, Decided("Aborted") # {}
  PROVE  /\ contracts' = contracts
         /\ mem'.next_id = mem.next_id
         /\ Cardinality({a \in Addr \ {TREASURY} :
                           balance(mem', a, now) # balance(mem, a, now)}) <= 1
<1>1. PICK from \in Users, c \in ContractIds, nonceOk \in BOOLEAN, jury \in select_jury :
        \E i \in Interpretations[jury] : \E r : Invoked(from, c, nonceOk, jury, i, r)
  BY OnlyInvocationsDecide, NothingDecided
<1>2. PICK i \in Interpretations[jury] : \E r : Invoked(from, c, nonceOk, jury, i, r)
  BY <1>1
<1>3. PICK r : Invoked(from, c, nonceOk, jury, i, r)
  BY <1>2
<1>4. PICK m, subs : m = Paid(from, nonceOk).m /\ subs = i.effects
  OBVIOUS
<1>5. r.status = "Aborted"
  BY <1>3, DecidedBy
<1>6. IsFiniteSet(jury) /\ DOMAIN subs = jury /\ \A j \in jury : Effectual(subs[j])
  BY <1>4, Interpreted
<1>7. r = resolve_case(m, c, subs, jury, now) /\ mem' = r.m /\ contracts' = r.contracts
  BY <1>3, <1>4 DEF Invoked
<1>8. r.m = m /\ r.contracts = contracts
  BY <1>5, <1>6, <1>7, ResolvedHow
<1>9. /\ m.next_id = mem.next_id
      /\ \A a \in Addr \ {from, TREASURY} : balance(m, a, now) = balance(mem, a, now)
  BY <1>4, PaidReports
<1>10. PICK S : S = {a \in Addr \ {TREASURY} : balance(m, a, now) # balance(mem, a, now)}
  OBVIOUS
<1>11. Cardinality(S) <= 1
  <2>1. S \subseteq {from}
    BY <1>9, <1>10
  <2>2. QED
    BY <2>1, AtMostOne
<1>12. QED
  BY <1>7, <1>8, <1>9, <1>10, <1>11

LEMMA CommitStep ==
  ASSUME CInv, [CNext]_allvars, NEW c \in Decided("Committed")
  PROVE  /\ balance(mem', EscrowOf[c], now) + contracts[c].escrow
              >= balance(mem, EscrowOf[c], now)
         /\ Cardinality({a \in Addr \ {EscrowOf[c]} :
                           balance(mem', a, now) < balance(mem, a, now)}) <= 1
         /\ \A id \in DOMAIN mem.streams :
              mem'.streams[id].status = "Stopped" /\ mem.streams[id].status # "Stopped"
                => mem.streams[id].from = EscrowOf[c]
         /\ \A d \in DOMAIN contracts \ {c} : contracts'[d] = contracts[d]
<1>1. PICK from \in Users, d \in ContractIds, nonceOk \in BOOLEAN, jury \in select_jury :
        \E i \in Interpretations[jury] : \E r : Invoked(from, d, nonceOk, jury, i, r)
  BY OnlyInvocationsDecide, NothingDecided
<1>2. PICK i \in Interpretations[jury] : \E r : Invoked(from, d, nonceOk, jury, i, r)
  BY <1>1
<1>3. PICK r : Invoked(from, d, nonceOk, jury, i, r)
  BY <1>2
<1>4. PICK m, subs, self : m = Paid(from, nonceOk).m /\ subs = i.effects /\ self = EscrowOf[c]
  OBVIOUS
<1>5. d = c /\ r.status = "Committed"
  BY <1>3, DecidedBy
<1>6. IsFiniteSet(jury) /\ DOMAIN subs = jury /\ \A j \in jury : Effectual(subs[j])
  BY <1>4, Interpreted
<1>7. /\ r = resolve_case(m, c, subs, jury, now) /\ mem' = r.m /\ contracts' = r.contracts
      /\ c \in DOMAIN contracts
  BY <1>3, <1>4, <1>5 DEF Invoked, Known
<1>8. PICK effect : Commits(r, m, c, effect, now)
  BY <1>5, <1>6, <1>7, ResolvedHow
<1>9. PICK after, drawn : /\ after = apply_effect(m, c, effect, now)
                          /\ drawn = Total([k \in DOMAIN effect |-> draw(effect[k])])
  OBVIOUS
<1>10. /\ Applicable(effect) /\ drawn <= contracts[c].escrow /\ mem' = after.m
       /\ contracts' \in {contracts, [contracts EXCEPT ![c] = after.contract]}
  BY <1>7, <1>8, <1>9 DEF Commits, effect_valid
<1>11. /\ Safe(m, now, verifiedSecs)
       /\ \A a \in Addr \ {from} : balance(m, a, now) >= balance(mem, a, now)
       /\ Stops(mem, m, self)
  BY <1>4, PaidReports
<1>12. /\ Safe(mem, now, verifiedSecs) /\ now \in Nat /\ verifiedSecs \in [Addr -> Nat]
       /\ self \in Addr \ {from} /\ contracts[c].escrow \in Nat /\ IsContract(contracts[c])
  BY <1>4, <1>7, EscrowAccounts DEF CInv, Inv, Contracts, IsContract
<1>13. contracts[c].escrow <= m.settled_balance[self]
  <2>1. Balanced(mem)
    BY <1>12, SafeBalanced
  <2>2. Spends(mem, m, from)
    BY <1>4, PaidSpends
  <2>3. Backed(contracts, m)
    BY <1>3, <2>1, <2>2, SpendsBacked DEF CInv, Invoked
  <2>4. QED
    BY <1>4, <1>7, <2>3 DEF Backed
<1>14. /\ Safe(after.m, now, verifiedSecs) /\ drawn \in Nat
       /\ Spared(after.m, m, self, now, drawn)
  BY <1>4, <1>9, <1>10, <1>11, <1>12, <1>13, EffectHolds DEF Holds
<1>15. PICK n : n = after.m
  OBVIOUS
<1>16. \A a \in Addr : /\ balance(mem, a, now) \in Nat /\ balance(m, a, now) \in Nat
                       /\ balance(n, a, now) \in Nat
  BY <1>11, <1>12, <1>14, <1>15, SafeReports
<1>17. /\ \A a \in Addr \ {self} : balance(n, a, now) >= balance(m, a, now)
       /\ balance(n, self, now) + drawn >= balance(m, self, now)
  BY <1>14, <1>15 DEF Spared, Debits
<1>18. balance(n, self, now) + contracts[c].escrow >= balance(mem, self, now)
  <2>1. balance(m, self, now) >= balance(mem, self, now)
    BY <1>11, <1>12
  <2>2. QED
    BY <1>10, <1>12, <1>14, <1>16, <1>17, <2>1
<1>19. PICK S : S = {a \in Addr \ {self} : balance(n, a, now) < balance(mem, a, now)}
  OBVIOUS
<1>20. Cardinality(S) <= 1
  <2>1. ASSUME NEW a \in S, a # from PROVE FALSE
    <3>1. a \in Addr /\ a # self /\ balance(n, a, now) < balance(mem, a, now)
      BY <1>19
    <3>2. /\ balance(m, a, now) >= balance(mem, a, now)
          /\ balance(n, a, now) >= balance(m, a, now)
      BY <1>11, <1>17, <2>1, <3>1
    <3>3. QED
      BY <1>16, <3>1, <3>2
  <2>2. S \subseteq {from}
    BY <2>1
  <2>3. QED
    BY <2>2, AtMostOne
<1>21. Stops(mem, n, self)
  BY <1>11, <1>14, <1>15, StopsTrans DEF Spared
<1>22. \A e \in DOMAIN contracts \ {c} : contracts'[e] = contracts[e]
  BY <1>7, <1>10
<1>23. mem' = n
  BY <1>10, <1>15
<1>24. QED
  BY <1>4, <1>18, <1>19, <1>20, <1>21, <1>22, <1>23 DEF Stops

(***************************************************************************)
(* The theorems.                                                           *)
(***************************************************************************)
\* The escrow a contract's record claims is in its account, for any number of
\* users, contracts and streams and effects of any length: each draw of
\* apply_effect is covered by the record, each stop of a stream refunds what it
\* adds to the record, and only the contract's own effects spend from its
\* account.
THEOREM EscrowAlwaysBacked == CSpec => []EscrowBacked
<1>1. CInv => EscrowBacked
  BY DEF CInv, Backed, EscrowBacked
<1>2. QED
  BY <1>1, CInvIsInvariant, PTL

\* Every invocation is decided by the block that makes it, and decided against
\* the effect unless a quorum of its jury gave a readable answer, for any number
\* of jurors, any JURY_SIZE and any QUORUM.
THEOREM InvocationsDecided == CSpec => []CasesDecided
<1>1. CInv => CasesDecided
  BY DEF CInv, CasesOK, CaseOK, CasesDecided
<1>2. QED
  BY <1>1, CInvIsInvariant, PTL

\* A committed effect is one that a quorum of the case's jury gave
\* (tally_effects, whatever the jury's size is).
THEOREM QuorumDecides == CSpec => []QuorumStands
<1>1. CInv => QuorumStands
  BY DEF CInv, CasesOK, CaseOK, QuorumStands
<1>2. QED
  BY <1>1, CInvIsInvariant, PTL

\* Contracts neither make nor lose money: deploying, funding, invoking and
\* every operation of an effect, a stream opened or stopped by one included and
\* an effect that panics half way too, keep the supply as the ledger does.
THEOREM ContractsConserve == CSpec => []Conservation
<1>1. CInv => Conservation
  BY DEF CInv, Inv, Safe, Conservation
<1>2. QED
  BY <1>1, CInvIsInvariant, PTL
\* Fail closed, for any contract, jury and answers: an invocation that is
\* aborted (no quorum, an Abort, or an effect that fails validation) leaves
\* every contract as it was, opens no stream and changes no reported balance
\* but that of the one who invoked and of the treasury its fee goes to.
THEOREM AbortsAreInert == CSpec => AbortsChangeNothing
<1>1. CInv /\ [CNext]_allvars => [Decided("Aborted") # {} =>
       /\ contracts' = contracts
       /\ mem'.next_id = mem.next_id
       /\ Cardinality({a \in Addr \ {TREASURY} :
                         balance(mem', a, now) # balance(mem, a, now)}) <= 1]_allvars
  BY AbortStep
<1>2. QED
  BY <1>1, CInvIsInvariant, PTL DEF CSpec, AbortsChangeNothing

\* Least authority (I6), for effects of any length, one that panics half way
\* included: an invocation takes from the escrow account no more than its
\* record held, from nobody else but the fee of the one who invoked, stops no
\* stream but the escrow's own and writes to no other contract.
THEOREM InvocationsConfined == CSpec => LeastAuthority
<1>1. CInv /\ [CNext]_allvars => [\A c \in Decided("Committed") :
       /\ balance(mem', EscrowOf[c], now) + contracts[c].escrow
            >= balance(mem, EscrowOf[c], now)
       /\ Cardinality({a \in Addr \ {EscrowOf[c]} :
                         balance(mem', a, now) < balance(mem, a, now)}) <= 1
       /\ \A id \in DOMAIN mem.streams :
            mem'.streams[id].status = "Stopped" /\ mem.streams[id].status # "Stopped"
              => mem.streams[id].from = EscrowOf[c]
       /\ \A d \in DOMAIN contracts \ {c} : contracts'[d] = contracts[d]]_allvars
  BY CommitStep
<1>2. QED
  BY <1>1, CInvIsInvariant, PTL DEF CSpec, LeastAuthority

=============================================================================
