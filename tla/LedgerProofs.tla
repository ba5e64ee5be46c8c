---------------------------- MODULE LedgerProofs ----------------------------
(***************************************************************************)
(* Safety of the ledger for every instance: any set of accounts, fees,     *)
(* rates, amounts and any number of streams.                               *)
(*                                                                         *)
(* The inductive invariant Safe speaks of a state m and an instant t, not  *)
(* of the variables, so that each operation of the runtime has one lemma   *)
(* (it preserves Safe) and a transaction is a chain of them.               *)
(***************************************************************************)
EXTENDS Ledger, FiniteSetTheorems, TLAPS

(***************************************************************************)
(* How a total changes with its function.  The proofs count coins with the *)
(* library's theorems on finite sets.                                      *)
(***************************************************************************)
\* A stack has as many coins as its height says.
LEMMA StackSize ==
  ASSUME NEW x, NEW n \in Nat
  PROVE  /\ IsFiniteSet(Stack(x, n))
         /\ Cardinality(Stack(x, n)) = n
<1>1. IsFiniteSet({x}) /\ Cardinality({x}) = 1
  BY FS_Singleton
<1>2. IsFiniteSet(1..n) /\ Cardinality(1..n) = n
  BY FS_Interval
<1>3. /\ IsFiniteSet({x} \X (1..n))
      /\ Cardinality({x} \X (1..n)) = Cardinality({x}) * Cardinality(1..n)
  BY <1>1, <1>2, FS_Product, Zenon
<1>4. 1 * n = n
  OBVIOUS
<1>5. QED
  BY <1>1, <1>2, <1>3, <1>4 DEF Stack

\* Finitely many stacks are finitely many coins.
LEMMA CoinsFinite ==
  ASSUME NEW S, IsFiniteSet(S), NEW f \in [S -> Nat]
  PROVE  IsFiniteSet(Coins(f))
<1> DEFINE stackOf == [x \in S |-> Stack(x, f[x])]
           T == {Stack(x, f[x]) : x \in S}
<1>1. stackOf \in Surjection(S, T)
  BY DEF Surjection
<1>2. IsFiniteSet(T)
  BY <1>1, FS_Surjection
<1>3. \A C \in T : IsFiniteSet(C)
  BY StackSize
<1>4. IsFiniteSet(UNION T)
  BY <1>2, <1>3, FS_UNION
<1>5. QED
  BY <1>4 DEF Coins

\* A total is a natural number.
LEMMA TotalType ==
  ASSUME NEW S, IsFiniteSet(S), NEW f \in [S -> Nat]
  PROVE  Total(f) \in Nat
BY CoinsFinite, FS_CardinalityType DEF Total

\* The total is one stack and the total of the others.
LEMMA TotalSplit ==
  ASSUME NEW S, IsFiniteSet(S), NEW f \in [S -> Nat], NEW x \in S
  PROVE  Total(f) = f[x] + Total([y \in S \ {x} |-> f[y]])
<1> DEFINE g == [y \in S \ {x} |-> f[y]]
<1>1. IsFiniteSet(S \ {x}) /\ g \in [S \ {x} -> Nat]
  BY FS_RemoveElement
<1>2. IsFiniteSet(Coins(g))
  BY <1>1, CoinsFinite
<1>3. IsFiniteSet(Stack(x, f[x])) /\ Cardinality(Stack(x, f[x])) = f[x]
  BY StackSize
<1>4. Coins(f) = Stack(x, f[x]) \cup Coins(g)
  BY DEF Coins
<1>5. Stack(x, f[x]) \cap Coins(g) = {}
  BY DEF Coins, Stack
<1>6. Cardinality({}) = 0
  BY FS_EmptySet
<1>7. Cardinality(Coins(f)) = f[x] + Cardinality(Coins(g)) - 0
  BY ZenonT(30), <1>2, <1>3, <1>4, <1>5, <1>6, FS_Union
<1>8. Cardinality(Coins(g)) \in Nat
  BY <1>2, FS_CardinalityType
<1>9. QED
  BY <1>7, <1>8 DEF Total

\* Changing one value changes the total by as much.
LEMMA TotalUpdate ==
  ASSUME NEW S, IsFiniteSet(S), NEW f \in [S -> Nat], NEW x \in S,
         NEW g \in [S -> Nat], \A y \in S \ {x} : g[y] = f[y]
  PROVE  Total(g) = Total(f) - f[x] + g[x]
<1> DEFINE r == [y \in S \ {x} |-> f[y]]
<1>1. [y \in S \ {x} |-> g[y]] = r
  OBVIOUS
<1>2. Total(f) = f[x] + Total(r)
  BY TotalSplit
<1>3. Total(g) = g[x] + Total(r)
  BY TotalSplit, <1>1
<1>4. Total(r) \in Nat
  BY FS_RemoveElement, TotalType
<1>5. QED
  BY <1>2, <1>3, <1>4

\* A value for a new argument adds itself to the total.
LEMMA TotalExtend ==
  ASSUME NEW S, IsFiniteSet(S), NEW f \in [S -> Nat], NEW x, x \notin S,
         NEW g \in [S \cup {x} -> Nat], \A y \in S : g[y] = f[y]
  PROVE  Total(g) = Total(f) + g[x]
<1>1. IsFiniteSet(S \cup {x})
  BY FS_AddElement
<1>2. [y \in (S \cup {x}) \ {x} |-> g[y]] = f
  OBVIOUS
<1>3. Total(g) = g[x] + Total([y \in (S \cup {x}) \ {x} |-> g[y]])
  <2> DEFINE U == S \cup {x}
  <2>1. IsFiniteSet(U) /\ g \in [U -> Nat] /\ x \in U
    BY <1>1
  <2> HIDE DEF U
  <2>2. Total(g) = g[x] + Total([y \in U \ {x} |-> g[y]])
    BY <2>1, TotalSplit
  <2>3. QED
    BY <2>2 DEF U
<1>4. QED
  BY <1>2, <1>3, TotalType

\* Totals add up pointwise, also when one function is defined on a part of the
\* other's domain only and counts as 0 elsewhere.
LEMMA TotalSum ==
  ASSUME NEW S, IsFiniteSet(S), NEW T \in SUBSET S,
         NEW f \in [S -> Nat], NEW g \in [T -> Nat], NEW h \in [S -> Nat],
         \A x \in S : h[x] = f[x] + (IF x \in T THEN g[x] ELSE 0)
  PROVE  Total(h) = Total(f) + Total(g)
<1> DEFINE Upper == {c \in Coins(h) : c[2] > f[c[1]]}
           lift == [c \in Coins(g) |-> <<c[1], f[c[1]] + c[2]>>]
<1>1. IsFiniteSet(T)
  BY FS_Subset
<1>2. /\ IsFiniteSet(Coins(f)) /\ IsFiniteSet(Coins(g)) /\ IsFiniteSet(Coins(h))
  BY <1>1, CoinsFinite
<1>c. /\ \A c : c \in Coins(f) <=> \E x \in S : \E k \in 1..f[x] : c = <<x, k>>
      /\ \A c : c \in Coins(h) <=> \E x \in S : \E k \in 1..h[x] : c = <<x, k>>
      /\ \A c : c \in Coins(g) <=> \E x \in T : \E k \in 1..g[x] : c = <<x, k>>
  BY DEF Coins, Stack
<1>3. Coins(h) = Coins(f) \cup Upper
  <2>1. Coins(f) \subseteq Coins(h)
    BY <1>c
  <2>2. ASSUME NEW c \in Coins(h), c \notin Upper
        PROVE  c \in Coins(f)
    BY <1>c, <2>2
  <2>3. QED
    BY <2>1, <2>2
<1>4. Coins(f) \cap Upper = {}
  BY <1>c
<1>5. IsFiniteSet(Upper)
  BY <1>2, FS_Subset
<1>6. lift \in Bijection(Coins(g), Upper)
  <2>1. ASSUME NEW c \in Coins(g)
        PROVE  lift[c] \in Upper
    <3>1. PICK x \in T, k \in Nat : k \in 1..g[x] /\ c = <<x, k>>
      BY <1>c
    <3>2. x \in S /\ f[x] + k \in 1..h[x] /\ f[x] + k > f[x]
      BY <3>1
    <3>3. QED
      BY <1>c, <3>1, <3>2
  <2>2. ASSUME NEW c \in Coins(g), NEW d \in Coins(g), lift[c] = lift[d]
        PROVE  c = d
    <3>1. PICK x \in T, k \in Nat : k \in 1..g[x] /\ c = <<x, k>>
      BY <1>c
    <3>2. PICK y \in T, j \in Nat : j \in 1..g[y] /\ d = <<y, j>>
      BY <1>c
    <3>3. x = y /\ f[x] + k = f[y] + j
      BY <2>2, <3>1, <3>2
    <3>4. QED
      BY <3>1, <3>2, <3>3
  <2>3. ASSUME NEW c \in Upper
        PROVE  \E d \in Coins(g) : lift[d] = c
    <3>1. PICK x \in S, k \in Nat : k \in 1..h[x] /\ c = <<x, k>>
      BY <1>c
    <3>2. k > f[x] /\ x \in T /\ k - f[x] \in 1..g[x]
      BY <3>1
    <3>3. <<x, k - f[x]>> \in Coins(g)
      BY <1>c, <3>2
    <3>4. lift[<<x, k - f[x]>>] = c
      BY <3>1, <3>2, <3>3
    <3>5. QED
      BY <3>3, <3>4
  <2>4. QED
    BY <2>1, <2>2, <2>3 DEF Bijection, Injection, Surjection, IsInjective
<1>7. Cardinality(Upper) = Cardinality(Coins(g))
  BY <1>2, <1>6, FS_Bijection DEF ExistsBijection
<1>8. Cardinality({}) = 0
  BY FS_EmptySet
<1>9. Cardinality(Coins(h)) = Cardinality(Coins(f)) + Cardinality(Coins(g)) - 0
  BY <1>2, <1>3, <1>4, <1>5, <1>7, <1>8, FS_Union
<1>10. QED
  BY <1>2, <1>9, FS_CardinalityType DEF Total

(***************************************************************************)
(* Arithmetic.                                                             *)
(***************************************************************************)
\* Truncating division, as in pending_emission and t_end.
LEMMA DivFacts ==
  ASSUME NEW x \in Nat, NEW p \in Nat \ {0}
  PROVE  x \div p \in Nat /\ (x \div p) * p <= x
OBVIOUS

\* A longer time at one rate gives no less.
LEMMA MulMonotone ==
  ASSUME NEW r \in Nat, NEW a \in Nat, NEW b \in Nat, a <= b
  PROVE  r * a \in Nat /\ r * b \in Nat /\ r * a <= r * b
<1>1. PICK d \in Nat : b = a + d
  <2>1. b - a \in Nat /\ b = a + (b - a)
    OBVIOUS
  <2>2. QED
    BY <2>1
<1>2. r * b = r * a + r * d
  BY <1>1
<1>3. r * a \in Nat /\ r * d \in Nat
  OBVIOUS
<1>4. QED
  BY <1>2, <1>3

(***************************************************************************)
(* One stream.                                                             *)
(***************************************************************************)
WellFormed(s, t) ==
  /\ s \in Streams
  /\ s.rate > 0
  /\ s.from # s.to
  /\ s.status = "Stopped" => s.stopped_at <= t
  /\ Solvent(s, t)

\* The seconds a stream has been flowing by t, and what flows in n seconds.
elapsed(s, t) == Monus(Smaller(t, end_or_stop(s)), s.started_at)
flow(s, n) == Smaller(s.rate * n, s.deposit)

\* accrued is what flows in the elapsed seconds.
LEMMA AccruedIsFlow ==
  ASSUME NEW s, NEW t
  PROVE  accrued(s, t) = flow(s, elapsed(s, t))
BY DEF accrued, flow, elapsed

\* The end of a stream is an instant (t_end and end_or_stop are naturals).
LEMMA EndType ==
  ASSUME NEW s \in Streams, s.rate > 0
  PROVE  t_end(s) \in Nat /\ end_or_stop(s) \in Nat
<1>1. s.deposit \div s.rate \in Nat
  BY DivFacts DEF Streams
<1>2. t_end(s) \in Nat
  BY <1>1 DEF Streams, t_end
<1>3. QED
  BY <1>2 DEF Streams, end_or_stop, Smaller

\* The flowing time of a stream grows with the clock.
LEMMA ElapsedFacts ==
  ASSUME NEW s \in Streams, s.rate > 0, NEW t \in Nat, NEW u \in Nat, t <= u
  PROVE  /\ elapsed(s, t) \in Nat
         /\ elapsed(s, u) \in Nat
         /\ elapsed(s, t) <= elapsed(s, u)
BY EndType DEF elapsed, Monus, Smaller, Streams

\* What flows is capped by the deposit and grows with time.
LEMMA FlowFacts ==
  ASSUME NEW s \in Streams, NEW a \in Nat, NEW b \in Nat, a <= b
  PROVE  /\ flow(s, a) \in Nat
         /\ flow(s, a) <= s.deposit
         /\ flow(s, a) <= flow(s, b)
<1>1. s.rate \in Nat /\ s.deposit \in Nat
  BY DEF Streams
<1>2. s.rate * a \in Nat /\ s.rate * b \in Nat /\ s.rate * a <= s.rate * b
  BY <1>1, MulMonotone
<1>3. QED
  BY <1>1, <1>2 DEF flow, Smaller

\* accrued grows with the clock and never exceeds the deposit (Stream::accrued).
LEMMA AccruedFacts ==
  ASSUME NEW s \in Streams, s.rate > 0, NEW t \in Nat, NEW u \in Nat, t <= u
  PROVE  /\ accrued(s, t) \in Nat
         /\ accrued(s, t) <= s.deposit
         /\ accrued(s, t) <= accrued(s, u)
         /\ owed(s, t) \in Nat
<1>1. /\ accrued(s, t) \in Nat
      /\ accrued(s, t) <= s.deposit
      /\ accrued(s, t) <= accrued(s, u)
  BY ElapsedFacts, FlowFacts, AccruedIsFlow
<1>2. owed(s, t) \in Nat
  BY <1>1 DEF owed, Monus, Streams
<1>3. QED
  BY <1>1, <1>2

\* A stream that was sound stays sound as time passes.
LEMMA StreamAges ==
  ASSUME NEW s, NEW t \in Nat, WellFormed(s, t), NEW u \in Nat, t <= u
  PROVE  WellFormed(s, u)
<1>1. s \in Streams /\ s.rate > 0
  BY DEF WellFormed
<1>2. /\ accrued(s, t) <= accrued(s, u) /\ accrued(s, u) <= s.deposit
      /\ accrued(s, t) \in Nat /\ accrued(s, u) \in Nat
  BY <1>1, AccruedFacts
<1>3. s.drawn \in Nat /\ s.deposit \in Nat /\ s.drawn <= accrued(s, t)
  BY <1>1 DEF WellFormed, Solvent, Streams
<1>4. ASSUME s.status = "Stopped" PROVE owed(s, u) = 0
  <2>1. s.stopped_at <= t /\ s.stopped_at \in Nat /\ owed(s, t) = 0
    BY <1>1, <1>4 DEF WellFormed, Solvent, Streams
  <2>2. Smaller(t, end_or_stop(s)) = Smaller(u, end_or_stop(s))
    BY <1>1, <1>4, <2>1, EndType DEF end_or_stop, Smaller
  <2>3. accrued(s, t) = accrued(s, u)
    BY <2>2 DEF accrued
  <2>4. QED
    BY <2>1, <2>3 DEF owed
<1>5. ASSUME s.status = "Completed" PROVE owed(s, u) = 0
  <2>1. s.drawn = s.deposit
    BY <1>5 DEF WellFormed, Solvent
  <2>2. accrued(s, u) = s.drawn
    BY <1>2, <1>3, <2>1
  <2>3. QED
    BY <1>3, <2>2 DEF owed, Monus
<1>6. s.status \in {"Active", "Stopped", "Completed"}
  BY <1>1 DEF Streams
<1>7. Solvent(s, u)
  BY <1>2, <1>3, <1>4, <1>5, <1>6 DEF Solvent, WellFormed
<1>8. s.status = "Stopped" => s.stopped_at <= u
  BY <1>1 DEF WellFormed, Streams
<1>9. QED
  BY <1>1, <1>7, <1>8 DEF WellFormed

\* What settle_stream does to the stream: it pays all that is owed out of the
\* collateral, never more, and leaves a stream that is no longer Active alone.
LEMMA PaidFacts ==
  ASSUME NEW s, NEW t \in Nat, WellFormed(s, t)
  PROVE  /\ WellFormed(paid(s, t), t)
         /\ owed(s, t) \in Nat
         /\ locked(s) \in Nat
         /\ locked(paid(s, t)) \in Nat
         /\ locked(s) = locked(paid(s, t)) + owed(s, t)
         /\ paid(s, t).drawn = accrued(s, t)
         /\ paid(s, t).drawn >= s.drawn
         /\ s.status # "Active" => paid(s, t) = s
         /\ <<paid(s, t).from, paid(s, t).to, paid(s, t).rate,
              paid(s, t).deposit, paid(s, t).started_at>>
             = <<s.from, s.to, s.rate, s.deposit, s.started_at>>
<1> DEFINE p == paid(s, t)
<1>1. s \in Streams /\ s.rate > 0
  BY DEF WellFormed
<1>2. /\ accrued(s, t) \in Nat /\ accrued(s, t) <= s.deposit /\ owed(s, t) \in Nat
      /\ s.drawn \in Nat /\ s.deposit \in Nat /\ s.drawn <= accrued(s, t)
  BY <1>1, AccruedFacts DEF WellFormed, Solvent, Streams
<1>3. s.drawn + owed(s, t) = accrued(s, t)
  BY <1>2 DEF owed, Monus
<1>4. p = [s EXCEPT !.drawn = accrued(s, t),
                    !.status = IF accrued(s, t) >= s.deposit /\ @ = "Active"
                                 THEN "Completed" ELSE @]
  BY <1>3 DEF paid
<1> HIDE DEF p
<1>5. /\ p \in Streams /\ p.drawn = accrued(s, t) /\ p.from = s.from /\ p.to = s.to
      /\ p.rate = s.rate /\ p.deposit = s.deposit /\ p.started_at = s.started_at
      /\ p.stopped_at = s.stopped_at
      /\ p.status = IF accrued(s, t) >= s.deposit /\ s.status = "Active"
                      THEN "Completed" ELSE s.status
  BY <1>1, <1>2, <1>4 DEF Streams
<1>6. accrued(p, t) = accrued(s, t)
  <2>1. t_end(p) = t_end(s)
    BY <1>5 DEF t_end
  <2>2. end_or_stop(p) = end_or_stop(s)
    BY <1>5, <2>1 DEF end_or_stop
  <2>3. QED
    BY <1>5, <2>2 DEF accrued
<1>7. owed(p, t) = 0
  BY <1>2, <1>5, <1>6 DEF owed, Monus
<1>8. p.status = "Completed" => p.drawn = p.deposit
  <2>1. CASE s.status = "Active"
    BY <1>2, <1>5, <2>1
  <2>2. CASE s.status # "Active"
    <3>1. owed(s, t) = 0
      BY <2>2 DEF WellFormed, Solvent
    <3>2. QED
      BY <1>2, <1>3, <1>5, <2>2, <3>1 DEF WellFormed, Solvent
  <2>3. QED
    BY <2>1, <2>2
<1>9. WellFormed(p, t)
  BY <1>1, <1>2, <1>5, <1>6, <1>7, <1>8 DEF WellFormed, Solvent
<1>10. /\ locked(s) \in Nat /\ locked(p) \in Nat
       /\ locked(s) = locked(p) + owed(s, t)
  <2>1. CASE s.status = "Active"
    BY <1>2, <1>3, <1>5, <2>1 DEF locked
  <2>2. CASE s.status # "Active"
    <3>1. owed(s, t) = 0
      BY <2>2 DEF WellFormed, Solvent
    <3>2. QED
      BY <1>5, <2>2, <3>1 DEF locked
  <2>3. QED
    BY <2>1, <2>2
<1>11. ASSUME s.status # "Active" PROVE p = s
  <2>1. owed(s, t) = 0
    BY <1>11 DEF WellFormed, Solvent
  <2>2. accrued(s, t) = s.drawn
    BY <1>2, <1>3, <2>1
  <2>3. QED
    BY <1>1, <1>4, <1>11, <2>2 DEF Streams
<1>12. p.drawn >= s.drawn
  BY <1>2, <1>5
<1>13. QED
  BY <1>2, <1>5, <1>9, <1>10, <1>11, <1>12 DEF p

\* Stopping a stream that was just settled at t owes nothing more and frees its
\* collateral.
stopped(s, t) == [s EXCEPT !.status = "Stopped", !.stopped_at = t]

\* Stopping a stream that has just been paid keeps it well formed, frees its
\* collateral and keeps its terms (stop_stream).
LEMMA StoppedFacts ==
  ASSUME NEW s, NEW t \in Nat, WellFormed(s, t), s.drawn = accrued(s, t),
         s.status # "Stopped"
  PROVE  /\ WellFormed(stopped(s, t), t)
         /\ locked(stopped(s, t)) = 0
         /\ locked(s) = Monus(s.deposit, s.drawn)
         /\ stopped(s, t).drawn = s.drawn
         /\ <<stopped(s, t).from, stopped(s, t).to, stopped(s, t).rate,
              stopped(s, t).deposit, stopped(s, t).started_at>>
             = <<s.from, s.to, s.rate, s.deposit, s.started_at>>
<1> DEFINE r == stopped(s, t)
<1>1. s \in Streams /\ s.rate > 0
  BY DEF WellFormed
<1>2. /\ accrued(s, t) \in Nat /\ accrued(s, t) <= s.deposit
      /\ s.drawn \in Nat /\ s.deposit \in Nat
  BY <1>1, AccruedFacts DEF Streams
<1>3. /\ r \in Streams /\ r.drawn = s.drawn /\ r.from = s.from /\ r.to = s.to
      /\ r.rate = s.rate /\ r.deposit = s.deposit /\ r.started_at = s.started_at
      /\ r.stopped_at = t /\ r.status = "Stopped"
  BY <1>1 DEF Streams, stopped
<1> HIDE DEF r
<1>4. accrued(r, t) = accrued(s, t)
  <2>1. t_end(r) = t_end(s) /\ t_end(s) \in Nat
    BY <1>1, <1>3, EndType DEF t_end
  <2>2. end_or_stop(r) = Smaller(t, t_end(s)) /\ end_or_stop(s) = t_end(s)
    BY <1>3, <2>1 DEF end_or_stop
  <2>3. Smaller(t, end_or_stop(r)) = Smaller(t, end_or_stop(s))
    BY <2>1, <2>2 DEF Smaller
  <2>4. QED
    BY <1>3, <2>3 DEF accrued
<1>5. owed(r, t) = 0
  BY <1>2, <1>3, <1>4 DEF owed, Monus
<1>6. WellFormed(r, t)
  BY <1>1, <1>2, <1>3, <1>4, <1>5 DEF WellFormed, Solvent
<1>7. locked(r) = 0
  BY <1>3 DEF locked
<1>8. locked(s) = Monus(s.deposit, s.drawn)
  <2>1. s.status \in {"Active", "Completed"}
    BY <1>1 DEF Streams
  <2>2. s.status = "Completed" => s.drawn = s.deposit
    BY DEF WellFormed, Solvent
  <2>3. QED
    BY <1>2, <2>1, <2>2 DEF locked, Monus
<1>9. QED
  BY <1>3, <1>6, <1>7, <1>8 DEF r

(***************************************************************************)
(* The inductive invariant.                                                *)
(***************************************************************************)
lockedOf(m) == [id \in DOMAIN m.streams |-> locked(m.streams[id])]

AllWellFormed(m, t) == \A id \in DOMAIN m.streams : WellFormed(m.streams[id], t)

unsettledSecs(m, a, t) == IF m.verified[a] THEN Monus(t, since(m, a)) ELSE 0

\* EmissionBounded before the division: the seconds not yet settled are counted
\* whole, so settling (which rounds down) preserves it.
EmissionOK(m, t, vs) ==
  \A a \in Addr : m.emitted[a] * EMISSION_PERIOD_SECS + UBI * unsettledSecs(m, a, t)
                   <= UBI * vs[a]

Safe(m, t, vs) ==
  /\ MemOK(m)
  /\ AllWellFormed(m, t)
  /\ Conserved(m)
  /\ EmissionOK(m, t, vs)

SameClocks(m, n) ==
  /\ n.last_settled_at = m.last_settled_at
  /\ n.verified = m.verified
  /\ n.verified_at = m.verified_at
  /\ n.emitted = m.emitted

\* The functions that Conservation adds up are finite, so their totals are naturals.
LEMMA TotalsOfMem ==
  ASSUME NEW m, NEW t \in Nat, MemOK(m), AllWellFormed(m, t)
  PROVE  /\ IsFiniteSet(Addr)
         /\ IsFiniteSet(DOMAIN m.streams)
         /\ DOMAIN m.streams = 0..(m.next_id - 1)
         /\ lockedOf(m) \in [DOMAIN m.streams -> Nat]
         /\ Total(m.settled_balance) \in Nat
         /\ Total(m.emitted) \in Nat
         /\ Total(lockedOf(m)) \in Nat
<1>1. IsFiniteSet(Addr)
  BY LedgerConstants
<1>2. DOMAIN m.streams = 0..(m.next_id - 1) /\ m.next_id \in Nat
  BY DEF MemOK
<1>3. IsFiniteSet(DOMAIN m.streams)
  BY SMTT(30), <1>2, FS_Interval
<1>4. lockedOf(m) \in [DOMAIN m.streams -> Nat]
  <2>1. \A id \in DOMAIN m.streams : locked(m.streams[id]) \in Nat
    BY PaidFacts DEF AllWellFormed
  <2>2. QED
    BY <2>1 DEF lockedOf
<1>5. Total(m.settled_balance) \in Nat /\ Total(m.emitted) \in Nat
  BY <1>1, TotalType DEF MemOK
<1>6. Total(lockedOf(m)) \in Nat
  BY <1>3, <1>4, TotalType
<1>7. QED
  BY <1>1, <1>2, <1>3, <1>4, <1>5, <1>6

\* A step that moves value between balances and collateral, and nothing else,
\* is safe.
LEMMA MovingIsSafe ==
  ASSUME NEW m, NEW n, NEW t \in Nat, NEW vs, Safe(m, t, vs), MemOK(n),
         SameClocks(m, n), AllWellFormed(n, t),
         Total(n.settled_balance) + Total(lockedOf(n))
           = Total(m.settled_balance) + Total(lockedOf(m))
  PROVE  Safe(n, t, vs)
<1>1. Conserved(n)
  BY DEF Safe, Conserved, lockedOf, SameClocks
<1>2. EmissionOK(n, t, vs)
  BY DEF Safe, EmissionOK, SameClocks, unsettledSecs, since
<1>3. QED
  BY <1>1, <1>2 DEF Safe

(***************************************************************************)
(* Operations.                                                             *)
(***************************************************************************)
LEMMA PendingFacts ==
  ASSUME NEW m, MemOK(m), NEW a \in Addr, NEW t \in Nat
  PROVE  /\ unsettledSecs(m, a, t) \in Nat
         /\ pending_emission(m, a, t) \in Nat
         /\ pending_emission(m, a, t) * EMISSION_PERIOD_SECS
              <= UBI * unsettledSecs(m, a, t)
<1>1. since(m, a) \in Nat
  BY DEF MemOK, since, Larger
<1>2. Monus(t, since(m, a)) \in Nat
  BY <1>1 DEF Monus
<1>3. unsettledSecs(m, a, t) \in Nat
  BY <1>2 DEF unsettledSecs
<1>4. UBI * Monus(t, since(m, a)) \in Nat
  BY <1>2, LedgerConstants
<1>5. CASE m.verified[a]
  BY <1>3, <1>4, <1>5, DivFacts, LedgerConstants DEF pending_emission, unsettledSecs
<1>6. CASE ~m.verified[a]
  BY <1>6, LedgerConstants DEF pending_emission, unsettledSecs
<1>7. QED
  BY <1>3, <1>5, <1>6

\* n is m with a settled.
SettledFrom(m, n, a, p, t) ==
  /\ MemOK(n)
  /\ n.settled_balance = [m.settled_balance EXCEPT ![a] = @ + p]
  /\ n.last_settled_at = [m.last_settled_at EXCEPT ![a] = Larger(@, t)]
  /\ n.emitted = [m.emitted EXCEPT ![a] = @ + p]
  /\ n.verified = m.verified
  /\ n.verified_at = m.verified_at
  /\ n.streams = m.streams
  /\ n.next_id = m.next_id

\* The fields Account::settle writes, and those it leaves alone.
LEMMA SettleFields ==
  ASSUME NEW m, MemOK(m), NEW a \in Addr, NEW t \in Nat
  PROVE  SettledFrom(m, settle(m, a, t), a, pending_emission(m, a, t), t)
<1> DEFINE p == pending_emission(m, a, t)
           n == settle(m, a, t)
<1>1. p \in Nat
  BY PendingFacts
<1>2. /\ n.settled_balance = [m.settled_balance EXCEPT ![a] = @ + p]
      /\ n.last_settled_at = [m.last_settled_at EXCEPT ![a] = Larger(@, t)]
      /\ n.emitted = [m.emitted EXCEPT ![a] = @ + p]
      /\ n.verified = m.verified
      /\ n.verified_at = m.verified_at
      /\ n.streams = m.streams
      /\ n.next_id = m.next_id
      /\ DOMAIN n = DOMAIN m
  BY DEF settle, MemOK
<1> HIDE DEF p, n
<1>3. MemOK(n)
  BY <1>1, <1>2 DEF MemOK, Larger
<1>4. SettledFrom(m, n, a, p, t)
  BY <1>2, <1>3 DEF SettledFrom
<1>5. QED
  BY <1>4 DEF n, p

\* Account::settle preserves Safe: what it pays is bounded by the verified seconds.
LEMMA SettleSafe ==
  ASSUME NEW m, NEW a \in Addr, NEW t \in Nat, NEW vs \in [Addr -> Nat],
         Safe(m, t, vs)
  PROVE  Safe(settle(m, a, t), t, vs)
<1> DEFINE p == pending_emission(m, a, t)
           n == settle(m, a, t)
<1>1. MemOK(m) /\ AllWellFormed(m, t) /\ Conserved(m) /\ EmissionOK(m, t, vs)
  BY DEF Safe
<1>2. p \in Nat
  BY <1>1, PendingFacts
<1>s. SettledFrom(m, n, a, p, t)
  BY <1>1, SettleFields
<1> HIDE DEF p, n
<1>3. /\ MemOK(n)
      /\ n.settled_balance = [m.settled_balance EXCEPT ![a] = @ + p]
      /\ n.last_settled_at = [m.last_settled_at EXCEPT ![a] = Larger(@, t)]
      /\ n.emitted = [m.emitted EXCEPT ![a] = @ + p]
      /\ n.verified = m.verified
      /\ n.verified_at = m.verified_at
      /\ n.streams = m.streams
  BY <1>s DEF SettledFrom
<1>4. AllWellFormed(n, t)
  BY <1>1, <1>3 DEF AllWellFormed
<1>5. Conserved(n)
  <2>0. /\ Total(m.settled_balance) \in Nat /\ Total(m.emitted) \in Nat
        /\ Total(lockedOf(m)) \in Nat
    BY <1>1, TotalsOfMem
  <2>1. Total(n.settled_balance) = Total(m.settled_balance) + p
    <3>1. n.settled_balance[a] = m.settled_balance[a] + p
      BY <1>1, <1>3 DEF MemOK
    <3>2. \A b \in Addr \ {a} : n.settled_balance[b] = m.settled_balance[b]
      BY <1>1, <1>3 DEF MemOK
    <3>3. /\ m.settled_balance \in [Addr -> Nat] /\ n.settled_balance \in [Addr -> Nat]
          /\ IsFiniteSet(Addr)
      BY <1>1, <1>3, LedgerConstants DEF MemOK
    <3>4. Total(n.settled_balance)
            = Total(m.settled_balance) - m.settled_balance[a] + n.settled_balance[a]
      BY <3>2, <3>3, TotalUpdate
    <3>5. QED
      BY <1>2, <2>0, <3>1, <3>3, <3>4
  <2>2. Total(n.emitted) = Total(m.emitted) + p
    <3>1. n.emitted[a] = m.emitted[a] + p
      BY <1>1, <1>3 DEF MemOK
    <3>2. \A b \in Addr \ {a} : n.emitted[b] = m.emitted[b]
      BY <1>1, <1>3 DEF MemOK
    <3>3. /\ m.emitted \in [Addr -> Nat] /\ n.emitted \in [Addr -> Nat]
          /\ IsFiniteSet(Addr)
      BY <1>1, <1>3, LedgerConstants DEF MemOK
    <3>4. Total(n.emitted) = Total(m.emitted) - m.emitted[a] + n.emitted[a]
      BY <3>2, <3>3, TotalUpdate
    <3>5. QED
      BY <1>2, <2>0, <3>1, <3>3, <3>4
  <2>3. Total(Genesis) \in Nat
    BY TotalType, LedgerConstants
  <2>4. lockedOf(n) = lockedOf(m)
    BY <1>3 DEF lockedOf
  <2>5. Total(m.settled_balance) + Total(lockedOf(m)) = Total(Genesis) + Total(m.emitted)
    BY <1>1 DEF Conserved, lockedOf
  <2>6. Total(n.settled_balance) + Total(lockedOf(n)) = Total(Genesis) + Total(n.emitted)
    BY <1>2, <2>0, <2>1, <2>2, <2>3, <2>4, <2>5
  <2>7. QED
    BY <2>6 DEF Conserved, lockedOf
<1>6. EmissionOK(n, t, vs)
  <2> SUFFICES ASSUME NEW b \in Addr
               PROVE  n.emitted[b] * EMISSION_PERIOD_SECS + UBI * unsettledSecs(n, b, t)
                        <= UBI * vs[b]
    BY DEF EmissionOK
  <2>1. m.emitted[b] * EMISSION_PERIOD_SECS + UBI * unsettledSecs(m, b, t) <= UBI * vs[b]
    BY <1>1 DEF EmissionOK
  <2>2. CASE b # a
    <3>1. n.emitted[b] = m.emitted[b] /\ n.last_settled_at[b] = m.last_settled_at[b]
      BY <1>1, <1>3, <2>2 DEF MemOK
    <3>2. unsettledSecs(n, b, t) = unsettledSecs(m, b, t)
      BY <1>3, <3>1 DEF unsettledSecs, since
    <3>3. QED
      BY <2>1, <3>1, <3>2
  <2>3. CASE b = a
    <3>1. n.emitted[a] = m.emitted[a] + p
      BY <1>1, <1>3 DEF MemOK
    <3>2. n.last_settled_at[a] >= t /\ n.last_settled_at[a] \in Nat
      BY <1>1, <1>3 DEF MemOK, Larger
    <3>3. unsettledSecs(n, a, t) = 0
      BY <1>3, <3>2 DEF unsettledSecs, since, Larger, Monus, MemOK
    <3>4. p * EMISSION_PERIOD_SECS <= UBI * unsettledSecs(m, a, t)
      BY <1>1, PendingFacts DEF p
    <3>5. /\ m.emitted[a] \in Nat /\ vs[a] \in Nat /\ unsettledSecs(m, a, t) \in Nat
          /\ UBI \in Nat /\ EMISSION_PERIOD_SECS \in Nat
      BY <1>1, PendingFacts, LedgerConstants DEF MemOK
    <3>6. (m.emitted[a] + p) * EMISSION_PERIOD_SECS
            = m.emitted[a] * EMISSION_PERIOD_SECS + p * EMISSION_PERIOD_SECS
      BY <1>2, <3>5
    <3> DEFINE e == m.emitted[a] * EMISSION_PERIOD_SECS
               q == p * EMISSION_PERIOD_SECS
               u == UBI * unsettledSecs(m, a, t)
               v == UBI * vs[a]
    <3>7. e \in Int /\ q \in Int /\ u \in Int /\ v \in Int
      BY <1>2, <3>5
    <3>8. e + u <= v /\ q <= u
      BY <2>1, <2>3, <3>4
    <3> HIDE DEF e, q, u, v
    <3>9. e + q <= v
      BY <3>7, <3>8
    <3>10. n.emitted[a] * EMISSION_PERIOD_SECS + UBI * unsettledSecs(n, a, t) = e + q
      BY <3>1, <3>3, <3>5, <3>6, <3>7 DEF e, q
    <3>11. QED
      BY <2>3, <3>9, <3>10 DEF v
  <2>4. QED
    BY <2>2, <2>3
<1>7. QED
  BY <1>3, <1>4, <1>5, <1>6 DEF Safe, n

\* What every operation does: it keeps the invariant and the streams' history.
Takes(m, n, t, vs) == Safe(n, t, vs) /\ Evolves(m, n)

\* A step that leaves the streams alone keeps their history.
LEMMA EvolvesSame ==
  ASSUME NEW m, NEW t \in Nat, AllWellFormed(m, t), NEW n, n.streams = m.streams
  PROVE  Evolves(m, n)
BY DEF Evolves, AllWellFormed, WellFormed, Streams

\* Two steps that each keep the stream history keep it together.
LEMMA EvolvesTrans ==
  ASSUME NEW k, NEW m, NEW n, NEW t \in Nat,
         AllWellFormed(k, t), AllWellFormed(m, t), AllWellFormed(n, t),
         Evolves(k, m), Evolves(m, n)
  PROVE  Evolves(k, n)
<1> SUFFICES ASSUME NEW id \in DOMAIN k.streams
             PROVE  /\ id \in DOMAIN n.streams
                    /\ <<n.streams[id].from, n.streams[id].to, n.streams[id].rate,
                         n.streams[id].deposit, n.streams[id].started_at>>
                       = <<k.streams[id].from, k.streams[id].to, k.streams[id].rate,
                           k.streams[id].deposit, k.streams[id].started_at>>
                    /\ n.streams[id].drawn >= k.streams[id].drawn
                    /\ k.streams[id].status # "Active" => n.streams[id] = k.streams[id]
  BY DEF Evolves
<1>1. id \in DOMAIN m.streams /\ id \in DOMAIN n.streams
  BY DEF Evolves
<1>2. /\ k.streams[id].drawn \in Nat /\ m.streams[id].drawn \in Nat
      /\ n.streams[id].drawn \in Nat
  BY <1>1 DEF AllWellFormed, WellFormed, Streams
<1>3. QED
  BY <1>1, <1>2 DEF Evolves

\* Operations of one transaction compose.
LEMMA TakesTrans ==
  ASSUME NEW k, NEW m, NEW n, NEW t \in Nat, NEW vs, Safe(k, t, vs),
         Takes(k, m, t, vs), Takes(m, n, t, vs)
  PROVE  Takes(k, n, t, vs)
BY EvolvesTrans DEF Takes, Safe

\* Doing nothing is a safe operation.
LEMMA TakesNothing ==
  ASSUME NEW m, NEW t \in Nat, NEW vs, Safe(m, t, vs)
  PROVE  Takes(m, m, t, vs)
BY EvolvesSame DEF Takes, Safe

\* Account::settle is a safe operation.
LEMMA SettleTakes ==
  ASSUME NEW m, NEW a \in Addr, NEW t \in Nat, NEW vs \in [Addr -> Nat],
         Safe(m, t, vs)
  PROVE  Takes(m, settle(m, a, t), t, vs)
<1>1. MemOK(m) /\ AllWellFormed(m, t)
  BY DEF Safe
<1>2. settle(m, a, t).streams = m.streams
  BY <1>1, SettleFields DEF SettledFrom
<1>3. QED
  BY <1>1, <1>2, SettleSafe, EvolvesSame DEF Takes

\* Moving an affordable amount between two accounts is a safe operation
\* (apply_transfer, charge_fee).
LEMMA MoveTakes ==
  ASSUME NEW m, NEW a \in Addr, NEW b \in Addr, a # b, NEW v \in Nat,
         NEW t \in Nat, NEW vs, Safe(m, t, vs), v <= m.settled_balance[a]
  PROVE  Takes(m, move(m, a, b, v), t, vs)
<1> DEFINE n == move(m, a, b, v)
           f == m.settled_balance
           g == [f EXCEPT ![a] = @ - v]
           h == [x \in Addr |-> f[x] - (IF x = a THEN v ELSE 0)
                                     + (IF x = b THEN v ELSE 0)]
<1>1. MemOK(m) /\ AllWellFormed(m, t)
  BY DEF Safe
<1>2. f \in [Addr -> Nat] /\ IsFiniteSet(Addr)
  BY <1>1, LedgerConstants DEF MemOK
<1>3. g \in [Addr -> Nat] /\ h \in [Addr -> Nat]
  BY <1>2
<1>4. Total(g) = Total(f) - f[a] + g[a]
  <2>1. \A y \in Addr \ {a} : g[y] = f[y]
    BY <1>2
  <2> HIDE DEF g, f
  <2>2. QED
    BY <1>2, <1>3, <2>1, TotalUpdate
<1>5. Total(h) = Total(g) - g[b] + h[b]
  <2>1. \A y \in Addr \ {b} : h[y] = g[y]
    BY <1>2
  <2> HIDE DEF g, h, f
  <2>2. QED
    BY <1>2, <1>3, <2>1, TotalUpdate
<1>6. g[a] = f[a] - v /\ h[b] = f[b] + v /\ g[b] = f[b]
  BY <1>2
<1>7. Total(f) \in Nat /\ Total(g) \in Nat
  <2> HIDE DEF f, g
  <2>1. QED
    BY <1>2, <1>3, TotalType
<1>8. Total(h) = Total(f)
  <2>1. f[a] \in Nat /\ f[b] \in Nat
    BY <1>2
  <2> HIDE DEF f, g, h
  <2>2. QED
    BY <1>4, <1>5, <1>6, <1>7, <2>1
<1>9. /\ n.settled_balance = h
      /\ SameClocks(m, n)
      /\ n.streams = m.streams
      /\ n.next_id = m.next_id
      /\ DOMAIN n = DOMAIN m
  BY <1>1 DEF move, MemOK, SameClocks
<1> HIDE DEF n, h, f, g
<1>10. MemOK(n)
  BY <1>1, <1>3, <1>9 DEF MemOK, SameClocks
<1>11. AllWellFormed(n, t) /\ lockedOf(n) = lockedOf(m)
  BY <1>1, <1>9 DEF AllWellFormed, lockedOf
<1>12. Total(n.settled_balance) + Total(lockedOf(n))
         = Total(m.settled_balance) + Total(lockedOf(m))
  BY <1>8, <1>9, <1>11 DEF f
<1>13. Safe(n, t, vs)
  BY <1>9, <1>10, <1>11, <1>12, MovingIsSafe
<1>14. Evolves(m, n)
  BY <1>1, <1>9, EvolvesSame
<1>15. QED
  BY <1>13, <1>14 DEF Takes, n

\* Paying v out of the collateral of stream id, which becomes r, to account b.
pay_out(m, id, r, b, v) ==
  [m EXCEPT !.settled_balance[b] = @ + v, !.streams[id] = r]

\* Paying out of a stream exactly the collateral it gives up preserves Safe.
LEMMA PayOutSafe ==
  ASSUME NEW m, NEW t \in Nat, NEW vs, Safe(m, t, vs),
         NEW id \in DOMAIN m.streams, NEW r, WellFormed(r, t),
         NEW b \in Addr, NEW v \in Nat, locked(m.streams[id]) = locked(r) + v
  PROVE  /\ Safe(pay_out(m, id, r, b, v), t, vs)
         /\ pay_out(m, id, r, b, v).streams = [m.streams EXCEPT ![id] = r]
<1> DEFINE n == pay_out(m, id, r, b, v)
           f == m.settled_balance
           g == [f EXCEPT ![b] = @ + v]
<1>1. MemOK(m) /\ AllWellFormed(m, t)
  BY DEF Safe
<1>2. /\ f \in [Addr -> Nat] /\ IsFiniteSet(Addr) /\ g \in [Addr -> Nat]
      /\ r \in Streams
  <2>1. f \in [Addr -> Nat]
    BY <1>1 DEF MemOK
  <2>2. r \in Streams
    BY DEF WellFormed
  <2> HIDE DEF f
  <2>3. g \in [Addr -> Nat]
    BY <2>1
  <2>4. QED
    BY <2>1, <2>2, <2>3, LedgerConstants
<1>3. /\ n.settled_balance = g
      /\ SameClocks(m, n)
      /\ n.streams = [m.streams EXCEPT ![id] = r]
      /\ n.next_id = m.next_id
      /\ DOMAIN n = DOMAIN m
  BY <1>1 DEF pay_out, MemOK, SameClocks
<1>4. Total(g) = Total(f) - f[b] + g[b]
  <2>1. \A y \in Addr \ {b} : g[y] = f[y]
    BY <1>2
  <2> HIDE DEF g, f
  <2>2. QED
    BY <1>2, <2>1, TotalUpdate
<1>5. g[b] = f[b] + v /\ f[b] \in Nat
  BY <1>2
<1> HIDE DEF n, f, g
<1>6. MemOK(n)
  BY <1>1, <1>2, <1>3 DEF MemOK, SameClocks
<1>7. DOMAIN n.streams = DOMAIN m.streams /\ n.streams[id] = r
      /\ \A j \in DOMAIN m.streams : j # id => n.streams[j] = m.streams[j]
  BY <1>1, <1>3 DEF MemOK
<1>8. AllWellFormed(n, t)
  BY <1>1, <1>7 DEF AllWellFormed
<1>9. Total(lockedOf(n)) = Total(lockedOf(m)) - locked(m.streams[id]) + locked(r)
  <2>1. /\ IsFiniteSet(DOMAIN m.streams)
        /\ lockedOf(m) \in [DOMAIN m.streams -> Nat]
        /\ lockedOf(n) \in [DOMAIN n.streams -> Nat]
    BY <1>1, <1>6, <1>8, TotalsOfMem
  <2>2. lockedOf(n) \in [DOMAIN m.streams -> Nat]
    BY <1>7, <2>1
  <2>3. /\ lockedOf(m)[id] = locked(m.streams[id]) /\ lockedOf(n)[id] = locked(r)
        /\ \A j \in DOMAIN m.streams \ {id} : lockedOf(n)[j] = lockedOf(m)[j]
    BY <1>7 DEF lockedOf
  <2>4. Total(lockedOf(n)) = Total(lockedOf(m)) - lockedOf(m)[id] + lockedOf(n)[id]
    BY <2>1, <2>2, <2>3, TotalUpdate
  <2>5. QED
    BY <2>3, <2>4
<1>10. locked(r) \in Nat /\ Total(f) \in Nat /\ Total(lockedOf(m)) \in Nat
  BY <1>1, TotalsOfMem, PaidFacts DEF f
<1>11. Total(n.settled_balance) + Total(lockedOf(n))
         = Total(m.settled_balance) + Total(lockedOf(m))
  BY <1>3, <1>4, <1>5, <1>9, <1>10 DEF f
<1>12. Safe(n, t, vs)
  BY <1>3, <1>6, <1>8, <1>11, MovingIsSafe
<1>13. QED
  BY <1>3, <1>12 DEF n

\* settle_stream is a safe operation.
LEMMA SettleStreamTakes ==
  ASSUME NEW m, NEW t \in Nat, NEW vs \in [Addr -> Nat], Safe(m, t, vs),
         NEW id \in DOMAIN m.streams
  PROVE  /\ Takes(m, settle_stream(m, id, t), t, vs)
         /\ settle_stream(m, id, t).streams
              = [m.streams EXCEPT ![id] = paid(m.streams[id], t)]
<1> DEFINE s == m.streams[id]
           k == settle(m, s.to, t)
           n == settle_stream(m, id, t)
<1>1. MemOK(m) /\ AllWellFormed(m, t)
  BY DEF Safe
<1>2. WellFormed(s, t) /\ s.to \in Addr
  BY <1>1 DEF AllWellFormed, WellFormed, Streams
<1>3. Safe(k, t, vs) /\ k.streams = m.streams
  BY ZenonT(30), <1>1, <1>2, SettleSafe, SettleFields DEF SettledFrom
<1>4. /\ WellFormed(paid(s, t), t) /\ owed(s, t) \in Nat
      /\ locked(s) = locked(paid(s, t)) + owed(s, t)
  BY <1>2, PaidFacts
<1>5. n = pay_out(k, id, paid(s, t), s.to, owed(s, t))
  BY DEF settle_stream, pay_out
<1>j. id \in DOMAIN k.streams /\ locked(k.streams[id]) = locked(paid(s, t)) + owed(s, t)
  BY <1>3, <1>4
<1> DEFINE r == paid(s, t)
           v == owed(s, t)
           b == s.to
<1>6. Safe(n, t, vs) /\ n.streams = [k.streams EXCEPT ![id] = r]
  <2>1. /\ WellFormed(r, t) /\ v \in Nat /\ b \in Addr
        /\ locked(k.streams[id]) = locked(r) + v /\ n = pay_out(k, id, r, b, v)
    BY <1>2, <1>4, <1>5, <1>j
  <2> HIDE DEF n, k, r, v, b
  <2>2. Safe(k, t, vs) /\ id \in DOMAIN k.streams
    BY <1>3, <1>j
  <2>3. /\ Safe(pay_out(k, id, r, b, v), t, vs)
        /\ pay_out(k, id, r, b, v).streams = [k.streams EXCEPT ![id] = r]
    BY <2>1, <2>2, PayOutSafe
  <2>4. QED
    BY <2>1, <2>3
<1> HIDE DEF n, k
<1>7. Evolves(m, n)
  <2> SUFFICES ASSUME NEW j \in DOMAIN m.streams
               PROVE  /\ j \in DOMAIN n.streams
                      /\ <<n.streams[j].from, n.streams[j].to, n.streams[j].rate,
                           n.streams[j].deposit, n.streams[j].started_at>>
                         = <<m.streams[j].from, m.streams[j].to, m.streams[j].rate,
                             m.streams[j].deposit, m.streams[j].started_at>>
                      /\ n.streams[j].drawn >= m.streams[j].drawn
                      /\ m.streams[j].status # "Active" => n.streams[j] = m.streams[j]
    BY DEF Evolves
  <2>1. j \in DOMAIN n.streams
    BY <1>1, <1>3, <1>6 DEF MemOK
  <2>2. n.streams[j] = IF j = id THEN paid(s, t) ELSE m.streams[j]
    BY <1>1, <1>3, <1>6 DEF MemOK
  <2>3. m.streams[j].drawn \in Nat
    BY <1>1 DEF AllWellFormed, WellFormed, Streams
  <2>4. CASE j = id
    BY <1>2, <2>1, <2>2, <2>4, PaidFacts
  <2>5. CASE j # id
    BY <2>1, <2>2, <2>3, <2>5
  <2>6. QED
    BY <2>4, <2>5
<1>8. QED
  BY <1>3, <1>6, <1>7 DEF Takes, n

\* settle_incoming is a safe operation, whatever the number of incoming streams.
LEMMA SettleIncomingTakes ==
  ASSUME NEW m, NEW a \in Addr, NEW t \in Nat, NEW vs \in [Addr -> Nat],
         Safe(m, t, vs)
  PROVE  Takes(m, settle_incoming(m, a, t), t, vs)
<1>1. CASE incoming(m, a) = {}
  BY <1>1, TakesNothing DEF settle_incoming
<1>2. CASE incoming(m, a) # {}
  <2> DEFINE k == settle(m, a, t)
             T == incoming(m, a)
             w == [id \in T |-> owed(m.streams[id], t)]
             f == k.settled_balance
             g == [f EXCEPT ![a] = @ + Total(w)]
             q == [id \in DOMAIN m.streams |->
                     IF m.streams[id].to = a THEN paid(m.streams[id], t)
                                             ELSE m.streams[id]]
             n == [k EXCEPT !.settled_balance[a] = @ + Total(w), !.streams = q]
  <2>1. MemOK(m) /\ AllWellFormed(m, t)
    BY DEF Safe
  <2>2. Safe(k, t, vs) /\ MemOK(k) /\ AllWellFormed(k, t) /\ k.streams = m.streams
    BY <2>1, SettleSafe, SettleFields DEF SettledFrom, Safe
  <2>3. settle_incoming(m, a, t) = n
    BY <1>2 DEF settle_incoming
  <2>4. T \in SUBSET DOMAIN m.streams
    BY DEF incoming
  <2>5. IsFiniteSet(DOMAIN m.streams) /\ IsFiniteSet(T)
    BY <2>1, <2>4, TotalsOfMem, FS_Subset
  <2>6. w \in [T -> Nat]
    BY <2>1, <2>4, PaidFacts DEF AllWellFormed
  <2>7. Total(w) \in Nat
    <3> HIDE DEF w, T
    <3>1. QED
      BY <2>5, <2>6, TotalType
  <2>8. f \in [Addr -> Nat] /\ g \in [Addr -> Nat] /\ IsFiniteSet(Addr)
    <3>1. f \in [Addr -> Nat]
      BY <2>2 DEF MemOK
    <3> HIDE DEF f, w
    <3>2. g \in [Addr -> Nat]
      BY <2>7, <3>1
    <3>3. QED
      BY <3>1, <3>2, LedgerConstants
  <2>9. Total(g) = Total(f) + Total(w)
    <3>1. (\A y \in Addr \ {a} : g[y] = f[y]) /\ g[a] = f[a] + Total(w) /\ f[a] \in Nat
      BY <2>8
    <3> HIDE DEF f, g, w
    <3>2. Total(g) = Total(f) - f[a] + g[a]
      BY <2>8, <3>1, TotalUpdate
    <3>3. Total(f) \in Nat
      BY <2>8, TotalType
    <3>4. QED
      BY <2>7, <3>1, <3>2, <3>3
  <2>10. /\ n.settled_balance = g
         /\ SameClocks(k, n)
         /\ n.streams = q
         /\ n.next_id = k.next_id
         /\ DOMAIN n = DOMAIN k
    <3> HIDE DEF w, q, k
    <3>1. QED
      BY <2>2 DEF MemOK, SameClocks
  <2>11. \A id \in DOMAIN m.streams : WellFormed(q[id], t)
    BY <2>1, PaidFacts DEF AllWellFormed
  <2>12. /\ q \in [DOMAIN m.streams -> Streams]
         /\ DOMAIN q = DOMAIN m.streams
    BY <2>11 DEF WellFormed
  <2>q. \A id \in DOMAIN m.streams :
          q[id] = IF id \in T THEN paid(m.streams[id], t) ELSE m.streams[id]
    BY DEF incoming
  <2>w. \A id \in T : w[id] = owed(m.streams[id], t)
    OBVIOUS
  <2> HIDE DEF n, g, q, k, w, T
  <2>13. MemOK(n)
    BY <2>2, <2>8, <2>10, <2>12 DEF MemOK, SameClocks
  <2>14. AllWellFormed(n, t)
    BY <2>10, <2>11, <2>12 DEF AllWellFormed
  <2>15. Total(lockedOf(m)) = Total(lockedOf(n)) + Total(w)
    <3>1. /\ lockedOf(m) \in [DOMAIN m.streams -> Nat]
          /\ lockedOf(n) \in [DOMAIN m.streams -> Nat]
      BY <2>1, <2>10, <2>12, <2>13, <2>14, TotalsOfMem
    <3>2. ASSUME NEW id \in DOMAIN m.streams
          PROVE  lockedOf(m)[id] = lockedOf(n)[id] + (IF id \in T THEN w[id] ELSE 0)
      <4>1. lockedOf(m)[id] = locked(m.streams[id]) /\ lockedOf(n)[id] = locked(q[id])
        BY <2>10, <2>12 DEF lockedOf
      <4>2. WellFormed(m.streams[id], t)
        BY <2>1 DEF AllWellFormed
      <4>3. CASE id \in T
        BY <2>q, <2>w, <4>1, <4>2, <4>3, PaidFacts
      <4>4. CASE id \notin T
        BY <2>q, <3>1, <4>1, <4>4
      <4>5. QED
        BY <4>3, <4>4
    <3>3. QED
      BY <2>4, <2>5, <2>6, <3>1, <3>2, TotalSum
  <2>16. Total(n.settled_balance) + Total(lockedOf(n))
           = Total(k.settled_balance) + Total(lockedOf(k))
    <3>1. lockedOf(k) = lockedOf(m)
      BY <2>2 DEF lockedOf
    <3>2. Total(k.settled_balance) \in Nat /\ Total(lockedOf(n)) \in Nat
      BY <2>2, <2>13, <2>14, TotalsOfMem
    <3>3. QED
      BY <2>7, <2>9, <2>10, <2>15, <3>1, <3>2
  <2>17. Safe(n, t, vs)
    BY <2>2, <2>10, <2>13, <2>14, <2>16, MovingIsSafe
  <2>18. Evolves(m, n)
    <3> SUFFICES ASSUME NEW j \in DOMAIN m.streams
                 PROVE  /\ j \in DOMAIN n.streams
                        /\ <<n.streams[j].from, n.streams[j].to, n.streams[j].rate,
                             n.streams[j].deposit, n.streams[j].started_at>>
                           = <<m.streams[j].from, m.streams[j].to, m.streams[j].rate,
                               m.streams[j].deposit, m.streams[j].started_at>>
                        /\ n.streams[j].drawn >= m.streams[j].drawn
                        /\ m.streams[j].status # "Active" => n.streams[j] = m.streams[j]
      BY DEF Evolves
    <3>1. j \in DOMAIN n.streams /\ n.streams[j] = q[j]
      BY <2>10, <2>12
    <3>2. m.streams[j].drawn \in Nat /\ WellFormed(m.streams[j], t)
      BY <2>1 DEF AllWellFormed, WellFormed, Streams
    <3>3. CASE j \in T
      BY <2>q, <3>1, <3>2, <3>3, PaidFacts
    <3>4. CASE j \notin T
      BY <2>q, <3>1, <3>2, <3>4
    <3>5. QED
      BY <3>3, <3>4
  <2>19. QED
    BY <2>3, <2>17, <2>18 DEF Takes
<1>3. QED
  BY <1>1, <1>2

\* m1 and m2 of charge_fee and apply_transfer: the inflow, then the emission, of
\* the sender.
LEMMA SettledSenderTakes ==
  ASSUME NEW m, NEW a \in Addr, NEW t \in Nat, NEW vs \in [Addr -> Nat],
         Safe(m, t, vs)
  PROVE  /\ Takes(m, settle_incoming(m, a, t), t, vs)
         /\ Takes(m, settle(settle_incoming(m, a, t), a, t), t, vs)
<1> DEFINE k == settle_incoming(m, a, t)
<1>1. Takes(m, k, t, vs)
  BY SettleIncomingTakes
<1>2. Safe(k, t, vs)
  BY <1>1 DEF Takes
<1> HIDE DEF k
<1>3. Takes(k, settle(k, a, t), t, vs)
  BY <1>2, SettleTakes
<1>4. QED
  BY <1>1, <1>3, TakesTrans DEF k

\* Settling the receiver b and moving v to it from a, which was settled at t
\* and holds v.
LEMMA PayTakes ==
  ASSUME NEW m, NEW a \in Addr, NEW b \in Addr, a # b, NEW v \in Nat,
         NEW t \in Nat, NEW vs \in [Addr -> Nat], Safe(m, t, vs),
         v <= m.settled_balance[a]
  PROVE  Takes(m, move(settle(m, b, t), a, b, v), t, vs)
<1> DEFINE k == settle(m, b, t)
<1>1. Takes(m, k, t, vs)
  BY SettleTakes
<1>2. Safe(k, t, vs)
  BY <1>1 DEF Takes
<1>3. k.settled_balance[a] = m.settled_balance[a]
  <2>1. MemOK(m)
    BY DEF Safe
  <2> DEFINE p == pending_emission(m, b, t)
  <2>2. SettledFrom(m, k, b, p, t)
    BY <2>1, SettleFields
  <2> HIDE DEF k, p
  <2>3. k.settled_balance = [m.settled_balance EXCEPT ![b] = @ + p]
    BY <2>2 DEF SettledFrom
  <2>4. QED
    BY <2>1, <2>3 DEF MemOK
<1> HIDE DEF k
<1>4. Takes(k, move(k, a, b, v), t, vs)
  BY <1>2, <1>3, MoveTakes
<1>5. QED
  BY <1>1, <1>4, TakesTrans DEF k

\* charge_fee is a safe operation, also when it fails.
LEMMA ChargeFeeTakes ==
  ASSUME NEW m, NEW from \in Signers, NEW fee \in Nat, NEW t \in Nat,
         NEW vs \in [Addr -> Nat], Safe(m, t, vs)
  PROVE  Takes(m, charge_fee(m, from, fee, t).m, t, vs)
<1> DEFINE m1 == settle_incoming(m, from, t)
           m2 == settle(m1, from, t)
           m3 == move(settle(m2, TREASURY, t), from, TREASURY, fee)
           r  == charge_fee(m, from, fee, t)
<1>1. from \in Addr /\ TREASURY \in Addr /\ from # TREASURY
  BY LedgerConstants DEF Signers
<1>2. Takes(m, m1, t, vs) /\ Takes(m, m2, t, vs) /\ Safe(m2, t, vs)
  BY <1>1, SettledSenderTakes DEF Takes
<1>3. r.m = IF m2.settled_balance[from] < fee THEN m1
            ELSE IF fee = 0 THEN m2 ELSE m3
  BY DEF charge_fee, Ok, Err
<1> HIDE DEF m1, m2, r
<1>4. m2.settled_balance[from] \in Nat
  BY <1>1, <1>2 DEF Safe, MemOK
<1>5. CASE m2.settled_balance[from] < fee \/ fee = 0
  BY <1>2, <1>3, <1>5 DEF r
<1>6. CASE ~(m2.settled_balance[from] < fee) /\ fee # 0
  <2>1. Takes(m2, m3, t, vs)
    BY SMTT(30), <1>1, <1>2, <1>4, <1>6, PayTakes
  <2>2. Takes(m, m3, t, vs)
    <3> HIDE DEF m3
    <3>1. QED
      BY <1>2, <2>1, TakesTrans
  <2>3. QED
    BY <1>3, <1>6, <2>2 DEF r
<1>7. QED
  BY <1>5, <1>6

\* apply_transfer is a safe operation, also when it fails.
LEMMA TransferTakes ==
  ASSUME NEW m, NEW from \in Addr, NEW to \in Addr, NEW value \in Nat,
         NEW nonceOk \in BOOLEAN, NEW t \in Nat, NEW vs \in [Addr -> Nat],
         Safe(m, t, vs)
  PROVE  Takes(m, apply_transfer(m, from, to, value, nonceOk, t).m, t, vs)
<1> DEFINE m1 == settle_incoming(m, from, t)
           m2 == settle(m1, from, t)
           m3 == move(settle(m2, to, t), from, to, value)
           r  == apply_transfer(m, from, to, value, nonceOk, t)
<1>1. Takes(m, m1, t, vs) /\ Takes(m, m2, t, vs) /\ Safe(m2, t, vs)
  BY SettledSenderTakes DEF Takes
<1>2. r.m = IF ~nonceOk \/ m2.settled_balance[from] < value THEN m1
            ELSE IF from = to THEN m2 ELSE m3
  BY DEF apply_transfer, Ok, Err
<1> HIDE DEF m1, m2, r
<1>3. m2.settled_balance[from] \in Nat
  BY <1>1 DEF Safe, MemOK
<1>4. CASE ~nonceOk \/ m2.settled_balance[from] < value \/ from = to
  BY <1>1, <1>2, <1>4 DEF r
<1>5. CASE ~(~nonceOk \/ m2.settled_balance[from] < value \/ from = to)
  <2>1. Takes(m2, m3, t, vs)
    BY <1>1, <1>3, <1>5, PayTakes
  <2>2. Takes(m, m3, t, vs)
    <3> HIDE DEF m3
    <3>1. QED
      BY <1>1, <2>1, TakesTrans
  <2>3. QED
    BY <1>2, <1>5, <2>2 DEF r
<1>6. QED
  BY <1>4, <1>5

\* consume_nonce is a safe operation.
LEMMA ConsumeNonceTakes ==
  ASSUME NEW m, NEW from \in Addr, NEW nonceOk \in BOOLEAN, NEW t \in Nat,
         NEW vs \in [Addr -> Nat], Safe(m, t, vs)
  PROVE  Takes(m, consume_nonce(m, from, nonceOk, t).m, t, vs)
BY SettleTakes, TakesNothing DEF consume_nonce, Ok, Err

\* The failed-transaction post-state of apply_tx is a safe operation.
LEMMA AfterOpTakes ==
  ASSUME NEW m, NEW r, NEW from \in Addr, NEW t \in Nat,
         NEW vs \in [Addr -> Nat], Safe(m, t, vs), Takes(m, r.m, t, vs)
  PROVE  Takes(m, after_op(r, from, t), t, vs)
<1>1. Safe(r.m, t, vs)
  BY DEF Takes
<1>2. Takes(r.m, settle(r.m, from, t), t, vs)
  BY <1>1, SettleTakes
<1>3. Takes(m, settle(r.m, from, t), t, vs)
  BY <1>2, TakesTrans
<1>4. QED
  BY <1>3 DEF after_op

\* A stream opened at t owes nothing yet and locks its whole deposit.
LEMMA NewStreamFacts ==
  ASSUME NEW from \in Addr, NEW to \in Addr, from # to, NEW rate \in Nat \ {0},
         NEW deposit \in Nat, NEW t \in Nat
  PROVE  /\ WellFormed(new_stream(from, to, rate, deposit, t), t)
         /\ locked(new_stream(from, to, rate, deposit, t)) = deposit
<1> DEFINE s == new_stream(from, to, rate, deposit, t)
<1>1. /\ s \in Streams /\ s.from = from /\ s.to = to /\ s.rate = rate
      /\ s.deposit = deposit /\ s.drawn = 0 /\ s.started_at = t
      /\ s.status = "Active"
  BY DEF new_stream, Streams
<1> HIDE DEF s
<1>2. t_end(s) \in Nat /\ t_end(s) >= t
  <2>1. deposit \div rate \in Nat
    BY DivFacts
  <2>2. QED
    BY <1>1, <2>1 DEF t_end
<1>3. elapsed(s, t) = 0
  BY <1>1, <1>2 DEF elapsed, end_or_stop, Smaller, Monus
<1>4. accrued(s, t) = 0
  BY <1>1, <1>3, AccruedIsFlow DEF flow, Smaller
<1>5. WellFormed(s, t)
  BY <1>1, <1>4 DEF WellFormed, Solvent
<1>6. locked(s) = deposit
  BY <1>1 DEF locked
<1>7. QED
  BY <1>5, <1>6 DEF s

\* Locking deposit v of account a in a new stream s.
lock(m, a, v, s) ==
  put_new_stream([m EXCEPT !.settled_balance[a] = @ - v], s)

\* Locking an affordable deposit in a new stream is a safe operation.
LEMMA LockTakes ==
  ASSUME NEW m, NEW t \in Nat, NEW vs, Safe(m, t, vs), NEW a \in Addr,
         NEW v \in Nat, v <= m.settled_balance[a],
         NEW s, WellFormed(s, t), locked(s) = v
  PROVE  Takes(m, lock(m, a, v, s), t, vs)
<1> DEFINE n == lock(m, a, v, s)
           f == m.settled_balance
           g == [f EXCEPT ![a] = @ - v]
           D == DOMAIN m.streams
           i == m.next_id
           q == [id \in D \cup {i} |-> IF id = i THEN s ELSE m.streams[id]]
<1>1. MemOK(m) /\ AllWellFormed(m, t)
  BY DEF Safe
<1>2. f \in [Addr -> Nat] /\ IsFiniteSet(Addr) /\ i \in Nat /\ D = 0..(i - 1)
  BY <1>1, LedgerConstants DEF MemOK
<1>3. g \in [Addr -> Nat] /\ g[a] = f[a] - v /\ f[a] \in Nat
      /\ \A y \in Addr \ {a} : g[y] = f[y]
  BY <1>2
<1>4. Total(g) = Total(f) - v /\ Total(f) \in Nat
  <2> HIDE DEF f, g
  <2>1. Total(g) = Total(f) - f[a] + g[a]
    BY <1>2, <1>3, TotalUpdate
  <2>2. Total(f) \in Nat
    BY <1>2, TotalType
  <2>3. QED
    BY <1>3, <2>1, <2>2
<1>5. /\ n.settled_balance = g
      /\ SameClocks(m, n)
      /\ n.streams = q
      /\ n.next_id = i + 1
      /\ DOMAIN n = DOMAIN m
  BY <1>1 DEF lock, put_new_stream, MemOK, SameClocks
<1>6. i \notin D /\ D \cup {i} = 0..((i + 1) - 1)
  BY <1>2
<1>7. /\ DOMAIN q = D \cup {i} /\ q[i] = s
      /\ \A id \in D : q[id] = m.streams[id]
  BY <1>6
<1> HIDE DEF n, f, g, q, i
<1>8. \A id \in D \cup {i} : WellFormed(q[id], t)
  BY <1>1, <1>7 DEF AllWellFormed
<1>9. q \in [0..((i + 1) - 1) -> Streams]
  <2>1. \A id \in D \cup {i} : q[id] \in Streams
    BY <1>8 DEF WellFormed
  <2>2. q = [id \in D \cup {i} |-> q[id]]
    BY DEF q
  <2>3. q \in [D \cup {i} -> Streams]
    BY <2>1, <2>2
  <2>4. QED
    BY <1>6, <2>3
<1>10. MemOK(n)
  <2>1. DOMAIN n = {"settled_balance", "last_settled_at", "verified",
                    "verified_at", "streams", "next_id", "emitted"}
    BY <1>1, <1>5 DEF MemOK
  <2>2. /\ n.last_settled_at \in [Addr -> Nat] /\ n.verified \in [Addr -> BOOLEAN]
        /\ n.verified_at \in [Addr -> Nat] /\ n.emitted \in [Addr -> Nat]
    BY <1>1, <1>5 DEF MemOK, SameClocks
  <2>3. n.settled_balance \in [Addr -> Nat]
    BY <1>3, <1>5
  <2>4. n.next_id \in Nat /\ n.streams \in [0..(n.next_id - 1) -> Streams]
    BY <1>2, <1>5, <1>9
  <2>5. QED
    BY <2>1, <2>2, <2>3, <2>4 DEF MemOK
<1>11. AllWellFormed(n, t)
  BY <1>5, <1>7, <1>8 DEF AllWellFormed
<1>12. Total(lockedOf(n)) = Total(lockedOf(m)) + v
  <2>1. /\ IsFiniteSet(D) /\ lockedOf(m) \in [D -> Nat]
        /\ lockedOf(n) \in [D \cup {i} -> Nat]
    BY <1>1, <1>5, <1>7, <1>10, <1>11, TotalsOfMem
  <2>2. lockedOf(n)[i] = v /\ \A id \in D : lockedOf(n)[id] = lockedOf(m)[id]
    BY <1>5, <1>7 DEF lockedOf
  <2>3. QED
    BY <1>6, <2>1, <2>2, TotalExtend
<1>13. Total(n.settled_balance) + Total(lockedOf(n))
         = Total(m.settled_balance) + Total(lockedOf(m))
  <2>1. Total(lockedOf(m)) \in Nat
    BY <1>1, TotalsOfMem
  <2>2. QED
    BY <1>4, <1>5, <1>12, <2>1 DEF f
<1>14. Safe(n, t, vs)
  BY <1>5, <1>10, <1>11, <1>13, MovingIsSafe
<1>15. Evolves(m, n)
  <2>1. \A id \in D : /\ id \in DOMAIN n.streams
                      /\ n.streams[id] = m.streams[id]
                      /\ m.streams[id].drawn \in Nat
    BY <1>1, <1>5, <1>7 DEF AllWellFormed, WellFormed, Streams
  <2>2. QED
    BY <2>1 DEF Evolves
<1>16. QED
  BY <1>14, <1>15 DEF Takes, n

\* open_stream is a safe operation, also when it fails.
LEMMA OpenStreamTakes ==
  ASSUME NEW m, NEW from \in Addr, NEW to \in Addr, NEW rate \in Nat,
         NEW deposit \in Nat, NEW t \in Nat, NEW vs \in [Addr -> Nat],
         Safe(m, t, vs)
  PROVE  Takes(m, open_stream(m, from, to, rate, deposit, t).m, t, vs)
<1> DEFINE m1 == settle(m, from, t)
           s  == new_stream(from, to, rate, deposit, t)
           n  == lock(m1, from, deposit, s)
           r  == open_stream(m, from, to, rate, deposit, t)
           bad == \/ from = to \/ rate = 0 \/ deposit = 0 \/ rate > MAX_RATE
                  \/ m1.settled_balance[from] < deposit
<1>1. Takes(m, m1, t, vs) /\ Safe(m1, t, vs) /\ m1.settled_balance[from] \in Nat
  <2>1. Takes(m, m1, t, vs)
    BY SettleTakes
  <2> HIDE DEF m1
  <2>2. Safe(m1, t, vs)
    BY <2>1 DEF Takes
  <2>3. m1.settled_balance \in [Addr -> Nat]
    BY <2>2 DEF Safe, MemOK
  <2>4. QED
    BY <2>1, <2>2, <2>3
<1>2. r.m = IF bad THEN m ELSE n
  BY DEF open_stream, lock, Ok, Err
<1>3. CASE bad
  BY <1>2, <1>3, TakesNothing
<1>4. CASE ~bad
  <2>1. WellFormed(s, t) /\ locked(s) = deposit
    BY <1>4, NewStreamFacts
  <2>2. deposit <= m1.settled_balance[from]
    BY <1>1, <1>4
  <2> HIDE DEF m1, s
  <2>3. Takes(m1, n, t, vs)
    BY <1>1, <2>1, <2>2, LockTakes
  <2> HIDE DEF n
  <2>4. Takes(m, n, t, vs)
    BY <1>1, <2>3, TakesTrans
  <2> HIDE DEF r, bad
  <2>5. QED
    BY <1>2, <1>4, <2>4 DEF r
<1>5. QED
  BY <1>3, <1>4

\* Stopping settles the stream, settles the sender and refunds what is left.
LEMMA StopStreamTakes ==
  ASSUME NEW m, NEW id, NEW caller, NEW t \in Nat, NEW vs \in [Addr -> Nat],
         Safe(m, t, vs)
  PROVE  Takes(m, stop_stream(m, id, caller, t).m, t, vs)
<1> DEFINE bad == \/ id \notin DOMAIN m.streams
                  \/ m.streams[id].from # caller
                  \/ m.streams[id].status # "Active"
<1>1. CASE bad
  BY <1>1, TakesNothing DEF stop_stream, Err
<1>2. CASE ~bad
  <2> DEFINE o  == m.streams[id]
             m1 == settle_stream(m, id, t)
             s  == m1.streams[id]
             a  == s.from
             k  == settle(m1, a, t)
             z  == stopped(s, t)
             v  == Monus(s.deposit, s.drawn)
             n  == pay_out(k, id, z, a, v)
  <2>1. id \in DOMAIN m.streams /\ o.status = "Active"
    BY <1>2
  <2>2. stop_stream(m, id, caller, t).m = n
    BY <1>2 DEF stop_stream, pay_out, stopped, Ok
  <2>3. MemOK(m) /\ AllWellFormed(m, t) /\ WellFormed(o, t)
    BY <2>1 DEF Safe, AllWellFormed
  <2>4. Takes(m, m1, t, vs) /\ m1.streams = [m.streams EXCEPT ![id] = paid(o, t)]
    BY ZenonT(30), <2>1, SettleStreamTakes
  <2> HIDE DEF m1
  <2>5. Safe(m1, t, vs) /\ MemOK(m1) /\ s = paid(o, t) /\ id \in DOMAIN m1.streams
    BY <2>1, <2>4 DEF Takes, Safe
  <2>6. /\ WellFormed(s, t) /\ s.drawn = accrued(o, t) /\ s.drawn >= o.drawn
        /\ <<s.from, s.to, s.rate, s.deposit, s.started_at>>
            = <<o.from, o.to, o.rate, o.deposit, o.started_at>>
    BY <2>3, <2>5, PaidFacts
  <2>7. s.drawn = accrued(s, t) /\ s.status # "Stopped"
    <3>1. s.status # "Stopped"
      BY <2>1, <2>3, <2>5 DEF paid, WellFormed, Streams
    <3>2. end_or_stop(s) = end_or_stop(o)
      BY <2>1, <2>6, <3>1 DEF end_or_stop, t_end
    <3>3. QED
      BY <2>6, <3>1, <3>2 DEF accrued
  <2>8. /\ WellFormed(z, t) /\ locked(z) = 0 /\ locked(s) = v /\ z.drawn = s.drawn
        /\ <<z.from, z.to, z.rate, z.deposit, z.started_at>>
            = <<s.from, s.to, s.rate, s.deposit, s.started_at>>
    BY <2>6, <2>7, StoppedFacts
  <2>9. a \in Addr /\ locked(s) \in Nat
    <3>1. a \in Addr
      BY <2>6 DEF WellFormed, Streams
    <3>2. QED
      BY <2>6, <3>1, PaidFacts
  <2>10. Safe(k, t, vs) /\ k.streams = m1.streams
    <3>1. Safe(k, t, vs)
      <4> HIDE DEF a
      <4>1. QED
        BY <2>5, <2>9, SettleSafe
    <3>2. SettledFrom(m1, k, a, pending_emission(m1, a, t), t)
      <4> HIDE DEF a
      <4>1. QED
        BY <2>5, <2>9, SettleFields
    <3>3. QED
      BY <3>1, <3>2 DEF SettledFrom
  <2>11. Safe(n, t, vs) /\ n.streams = [k.streams EXCEPT ![id] = z]
    <3>1. id \in DOMAIN k.streams /\ locked(k.streams[id]) = locked(z) + v
      BY <2>5, <2>8, <2>9, <2>10
    <3>2. v \in Nat
      BY <2>8, <2>9
    <3>w. Safe(k, t, vs) /\ WellFormed(z, t) /\ a \in Addr
      BY <2>8, <2>9, <2>10
    <3> HIDE DEF k, z, v, a, n
    <3>3. /\ Safe(pay_out(k, id, z, a, v), t, vs)
          /\ pay_out(k, id, z, a, v).streams = [k.streams EXCEPT ![id] = z]
      BY SMTT(30), <3>w, <3>1, <3>2, PayOutSafe
    <3>4. QED
      BY <3>3 DEF n
  <2>12. Evolves(m, n)
    <3> HIDE DEF n, z, s, k, o
    <3> SUFFICES ASSUME NEW j \in DOMAIN m.streams
                 PROVE  /\ j \in DOMAIN n.streams
                        /\ <<n.streams[j].from, n.streams[j].to, n.streams[j].rate,
                             n.streams[j].deposit, n.streams[j].started_at>>
                           = <<m.streams[j].from, m.streams[j].to, m.streams[j].rate,
                               m.streams[j].deposit, m.streams[j].started_at>>
                        /\ n.streams[j].drawn >= m.streams[j].drawn
                        /\ m.streams[j].status # "Active" => n.streams[j] = m.streams[j]
      BY DEF Evolves
    <3>1. j \in DOMAIN n.streams /\ n.streams[j] = IF j = id THEN z ELSE m.streams[j]
      BY <2>3, <2>4, <2>10, <2>11 DEF MemOK
    <3>2. m.streams[j].drawn \in Nat
      BY <2>3 DEF AllWellFormed, WellFormed, Streams
    <3>3. CASE j = id
      BY <2>1, <2>6, <2>8, <3>1, <3>3 DEF o
    <3>4. CASE j # id
      BY <3>1, <3>2, <3>4
    <3>5. QED
      BY <3>3, <3>4
  <2>13. QED
    BY <2>2, <2>11, <2>12 DEF Takes
<1>3. QED
  BY <1>1, <1>2

(***************************************************************************)
(* The state machine.                                                      *)
(***************************************************************************)
LEMMA TimePasses ==
  ASSUME NEW m, NEW t \in Nat, NEW u \in Nat, t <= u, NEW vs \in [Addr -> Nat],
         Safe(m, t, vs)
  PROVE  Safe(m, u, [a \in Addr |-> vs[a] + (IF m.verified[a] THEN u - t ELSE 0)])
<1> DEFINE ws == [a \in Addr |-> vs[a] + (IF m.verified[a] THEN u - t ELSE 0)]
<1>1. MemOK(m) /\ AllWellFormed(m, t) /\ Conserved(m) /\ EmissionOK(m, t, vs)
  BY DEF Safe
<1>2. AllWellFormed(m, u)
  BY <1>1, StreamAges DEF AllWellFormed
<1>3. ASSUME NEW a \in Addr
      PROVE  m.emitted[a] * EMISSION_PERIOD_SECS + UBI * unsettledSecs(m, a, u)
               <= UBI * ws[a]
  <2> DEFINE x == unsettledSecs(m, a, t)
             y == unsettledSecs(m, a, u)
             d == IF m.verified[a] THEN u - t ELSE 0
             e == m.emitted[a] * EMISSION_PERIOD_SECS
  <2>1. e + UBI * x <= UBI * vs[a]
    BY <1>1 DEF EmissionOK
  <2>2. x \in Nat /\ y \in Nat /\ d \in Nat /\ UBI \in Nat /\ vs[a] \in Nat
    BY <1>1, PendingFacts, LedgerConstants
  <2>3. e \in Int
    BY SMTT(30), <1>1, LedgerConstants DEF MemOK
  <2>4. y <= x + d
    <3>1. since(m, a) \in Nat
      BY <1>1 DEF MemOK, since, Larger
    <3>2. QED
      BY <3>1 DEF unsettledSecs, Monus
  <2>5. ws[a] = vs[a] + d
    OBVIOUS
  <2> HIDE DEF x, y, d, e, ws
  <2>6. UBI * y <= UBI * (x + d) /\ UBI * y \in Nat
    BY <2>2, <2>4, MulMonotone
  <2>7. UBI * (x + d) = UBI * x + UBI * d /\ UBI * ws[a] = UBI * vs[a] + UBI * d
    BY <2>2, <2>5
  <2>8. UBI * x \in Int /\ UBI * d \in Int /\ UBI * vs[a] \in Int
    BY <2>2
  <2>9. e + UBI * y <= UBI * ws[a]
    BY <2>1, <2>3, <2>6, <2>7, <2>8
  <2>10. QED
    BY <2>9 DEF e, y
<1>4. EmissionOK(m, u, ws)
  BY <1>3 DEF EmissionOK
<1>5. QED
  BY <1>1, <1>2, <1>4 DEF Safe

\* The write of the humanity lifecycle: the unsettled seconds are forfeited, so
\* the emission bound keeps holding.
LEMMA SyncTakes ==
  ASSUME NEW m, NEW a \in Addr, NEW v \in BOOLEAN, NEW t \in Nat,
         NEW vs \in [Addr -> Nat], Safe(m, t, vs)
  PROVE  Takes(m, [m EXCEPT !.verified[a] = v,
                            !.verified_at[a] = IF v THEN t ELSE 0], t, vs)
<1> DEFINE n == [m EXCEPT !.verified[a] = v,
                          !.verified_at[a] = IF v THEN t ELSE 0]
<1>1. MemOK(m) /\ AllWellFormed(m, t) /\ Conserved(m) /\ EmissionOK(m, t, vs)
  BY DEF Safe
<1>2. /\ n.settled_balance = m.settled_balance
      /\ n.last_settled_at = m.last_settled_at
      /\ n.emitted = m.emitted
      /\ n.verified = [m.verified EXCEPT ![a] = v]
      /\ n.verified_at = [m.verified_at EXCEPT ![a] = IF v THEN t ELSE 0]
      /\ n.streams = m.streams
      /\ n.next_id = m.next_id
      /\ DOMAIN n = DOMAIN m
  BY <1>1 DEF MemOK
<1> HIDE DEF n
<1>3. MemOK(n)
  BY <1>1, <1>2 DEF MemOK
<1>4. AllWellFormed(n, t) /\ Conserved(n)
  BY <1>1, <1>2 DEF AllWellFormed, Conserved
<1>5. ASSUME NEW b \in Addr
      PROVE  n.emitted[b] * EMISSION_PERIOD_SECS + UBI * unsettledSecs(n, b, t)
               <= UBI * vs[b]
  <2>1. m.emitted[b] * EMISSION_PERIOD_SECS + UBI * unsettledSecs(m, b, t)
          <= UBI * vs[b]
    BY <1>1 DEF EmissionOK
  <2>2. CASE b # a
    <3>1. unsettledSecs(n, b, t) = unsettledSecs(m, b, t)
      BY <1>1, <1>2, <2>2 DEF unsettledSecs, since, MemOK
    <3>2. QED
      BY <1>2, <2>1, <3>1
  <2>3. CASE b = a
    <3>1. unsettledSecs(n, b, t) = 0
      <4>1. CASE v
        <5>1. n.verified_at[b] = t /\ n.last_settled_at[b] \in Nat
          BY <1>1, <1>2, <2>3, <4>1 DEF MemOK
        <5>2. QED
          BY <5>1 DEF unsettledSecs, since, Larger, Monus
      <4>2. CASE ~v
        BY <1>1, <1>2, <2>3, <4>2 DEF unsettledSecs, MemOK
      <4>3. QED
        BY <4>1, <4>2
    <3>2. /\ m.emitted[b] * EMISSION_PERIOD_SECS \in Int
          /\ UBI * unsettledSecs(m, b, t) \in Nat
          /\ UBI * vs[b] \in Int
      <4>1. m.emitted[b] \in Nat /\ unsettledSecs(m, b, t) \in Nat /\ vs[b] \in Nat
        BY <1>1, PendingFacts DEF MemOK
      <4>2. QED
        BY <4>1, LedgerConstants
    <3>3. UBI * 0 = 0
      BY LedgerConstants
    <3>4. QED
      BY <1>2, <2>1, <3>1, <3>2, <3>3
  <2>4. QED
    BY <2>2, <2>3
<1>6. EmissionOK(n, t, vs)
  BY <1>5 DEF EmissionOK
<1>7. Evolves(m, n)
  BY <1>1, <1>2, EvolvesSame
<1>8. QED
  BY <1>3, <1>4, <1>6, <1>7 DEF Takes, Safe, n

\* The inductive invariant of the specification.
Inv ==
  /\ now \in Nat
  /\ verifiedSecs \in [Addr -> Nat]
  /\ Safe(mem, now, verifiedSecs)

\* The invariant holds at genesis.
LEMMA InitInv == Init => Inv
<1> SUFFICES ASSUME Init PROVE Inv
  OBVIOUS
<1>1. now = 0 /\ verifiedSecs = [a \in Addr |-> 0]
  BY DEF Init
<1>2. /\ mem.settled_balance = Genesis
      /\ mem.last_settled_at = [a \in Addr |-> 0]
      /\ mem.verified = [a \in Addr |-> a \in Founders]
      /\ mem.verified_at = [a \in Addr |-> 0]
      /\ mem.streams = [id \in {} |-> 0]
      /\ mem.next_id = 0
      /\ mem.emitted = [a \in Addr |-> 0]
      /\ DOMAIN mem = {"settled_balance", "last_settled_at", "verified",
                       "verified_at", "streams", "next_id", "emitted"}
  BY DEF Init
<1>3. DOMAIN mem.streams = {} /\ 0..(0 - 1) = {}
  BY <1>2
<1>4. MemOK(mem)
  <2>1. mem.streams \in [0..(mem.next_id - 1) -> Streams]
    BY <1>2, <1>3
  <2>2. QED
    BY <1>2, <2>1, LedgerConstants DEF MemOK
<1>5. AllWellFormed(mem, now)
  BY <1>3 DEF AllWellFormed
<1>6. Conserved(mem)
  <2>1. Total(lockedOf(mem)) = 0
    <3>1. DOMAIN lockedOf(mem) = {}
      BY <1>3 DEF lockedOf
    <3>2. Coins(lockedOf(mem)) = {}
      BY <3>1 DEF Coins
    <3>3. QED
      BY <3>2, FS_EmptySet DEF Total
  <2>2. Total(mem.emitted) = 0
    <3>1. Coins(mem.emitted) = {}
      BY <1>2 DEF Coins, Stack
    <3>2. QED
      BY <3>1, FS_EmptySet DEF Total
  <2>3. Total(Genesis) \in Nat
    BY LedgerConstants, TotalType
  <2>4. QED
    BY <1>2, <2>1, <2>2, <2>3 DEF Conserved, lockedOf
<1>7. EmissionOK(mem, now, verifiedSecs)
  <2> SUFFICES ASSUME NEW a \in Addr
               PROVE  mem.emitted[a] * EMISSION_PERIOD_SECS
                        + UBI * unsettledSecs(mem, a, now) <= UBI * verifiedSecs[a]
    BY DEF EmissionOK
  <2>1. unsettledSecs(mem, a, now) = 0
    BY <1>1, <1>2 DEF unsettledSecs, since, Larger, Monus
  <2>2. mem.emitted[a] = 0 /\ verifiedSecs[a] = 0
    BY <1>1, <1>2
  <2>3. 0 * EMISSION_PERIOD_SECS = 0 /\ UBI * 0 = 0
    BY LedgerConstants
  <2>4. QED
    BY <2>1, <2>2, <2>3
<1>8. QED
  BY <1>1, <1>4, <1>5, <1>6, <1>7 DEF Inv, Safe

\* A transfer transaction is a chain of safe operations.
LEMMA TransferStep ==
  ASSUME Inv, NEW from \in Signers, NEW to \in Addr, NEW value \in Values,
         NEW nonceOk \in BOOLEAN, Transfer(from, to, value, nonceOk)
  PROVE  Takes(mem, mem', now, verifiedSecs)
<1> DEFINE c == charge_fee(mem, from, FeeOf["transfer"], now)
           r == apply_transfer(c.m, from, to, value, nonceOk, now)
<1>1. /\ from \in Addr /\ value \in Nat /\ FeeOf["transfer"] \in Nat
      /\ now \in Nat /\ verifiedSecs \in [Addr -> Nat]
      /\ Safe(mem, now, verifiedSecs)
  BY LedgerConstants DEF Signers, Kinds, Inv
<1>2. Takes(mem, c.m, now, verifiedSecs) /\ Safe(c.m, now, verifiedSecs)
  BY <1>1, ChargeFeeTakes DEF Takes
<1>3. mem' = IF c.ok THEN after_op(r, from, now) ELSE c.m
  BY DEF Transfer
<1> HIDE DEF c
<1>4. Takes(c.m, r.m, now, verifiedSecs)
  BY <1>1, <1>2, TransferTakes
<1> HIDE DEF r
<1>5. Takes(c.m, after_op(r, from, now), now, verifiedSecs)
  BY <1>1, <1>2, <1>4, AfterOpTakes
<1>6. Takes(mem, after_op(r, from, now), now, verifiedSecs)
  BY <1>1, <1>2, <1>5, TakesTrans
<1>7. QED
  BY <1>2, <1>3, <1>6

\* So is the opening of a stream.
LEMMA OpenStreamStep ==
  ASSUME Inv, NEW from \in Signers, NEW to \in Addr, NEW rate \in Rates,
         NEW deposit \in Deposits, NEW nonceOk \in BOOLEAN,
         OpenStream(from, to, rate, deposit, nonceOk)
  PROVE  Takes(mem, mem', now, verifiedSecs)
<1> DEFINE c == charge_fee(mem, from, FeeOf["stream"], now)
           n == consume_nonce(c.m, from, nonceOk, now)
           r == open_stream(n.m, from, to, rate, deposit, now)
<1>1. /\ from \in Addr /\ rate \in Nat /\ deposit \in Nat
      /\ FeeOf["stream"] \in Nat /\ now \in Nat
      /\ verifiedSecs \in [Addr -> Nat] /\ Safe(mem, now, verifiedSecs)
  BY LedgerConstants DEF Signers, Kinds, Inv
<1>2. Takes(mem, c.m, now, verifiedSecs) /\ Safe(c.m, now, verifiedSecs)
  BY <1>1, ChargeFeeTakes DEF Takes
<1>3. mem' = IF ~c.ok THEN c.m
             ELSE IF ~n.ok THEN after_op(n, from, now) ELSE after_op(r, from, now)
  BY DEF OpenStream
<1> HIDE DEF c
<1>4. Takes(c.m, n.m, now, verifiedSecs)
  BY <1>1, <1>2, ConsumeNonceTakes
<1>5. Takes(mem, n.m, now, verifiedSecs) /\ Safe(n.m, now, verifiedSecs)
  <2> HIDE DEF n
  <2>1. QED
    BY <1>1, <1>2, <1>4, TakesTrans DEF Takes
<1> HIDE DEF n
<1>6. Takes(mem, after_op(n, from, now), now, verifiedSecs)
  BY <1>1, <1>5, AfterOpTakes
<1>7. Takes(n.m, r.m, now, verifiedSecs)
  BY <1>1, <1>5, OpenStreamTakes
<1> HIDE DEF r
<1>8. Takes(mem, r.m, now, verifiedSecs)
  BY <1>1, <1>5, <1>7, TakesTrans
<1>9. Takes(mem, after_op(r, from, now), now, verifiedSecs)
  BY <1>1, <1>8, AfterOpTakes
<1>10. QED
  BY <1>2, <1>3, <1>6, <1>9

\* So is the stopping of a stream.
LEMMA StopStreamStep ==
  ASSUME Inv, NEW caller \in Signers, NEW id \in StreamIds,
         NEW nonceOk \in BOOLEAN, StopStream(caller, id, nonceOk)
  PROVE  Takes(mem, mem', now, verifiedSecs)
<1> DEFINE c == charge_fee(mem, caller, FeeOf["stream"], now)
           n == consume_nonce(c.m, caller, nonceOk, now)
           r == stop_stream(n.m, id, caller, now)
<1>1. /\ caller \in Addr /\ FeeOf["stream"] \in Nat /\ now \in Nat
      /\ verifiedSecs \in [Addr -> Nat] /\ Safe(mem, now, verifiedSecs)
  BY LedgerConstants DEF Signers, Kinds, Inv
<1>2. Takes(mem, c.m, now, verifiedSecs) /\ Safe(c.m, now, verifiedSecs)
  BY <1>1, ChargeFeeTakes DEF Takes
<1>3. mem' = IF ~c.ok THEN c.m
             ELSE IF ~n.ok THEN after_op(n, caller, now)
             ELSE after_op(r, caller, now)
  BY DEF StopStream
<1> HIDE DEF c
<1>4. Takes(c.m, n.m, now, verifiedSecs)
  BY <1>1, <1>2, ConsumeNonceTakes
<1>5. Takes(mem, n.m, now, verifiedSecs) /\ Safe(n.m, now, verifiedSecs)
  <2> HIDE DEF n
  <2>1. QED
    BY <1>1, <1>2, <1>4, TakesTrans DEF Takes
<1> HIDE DEF n
<1>6. Takes(mem, after_op(n, caller, now), now, verifiedSecs)
  BY <1>1, <1>5, AfterOpTakes
<1>7. Takes(n.m, r.m, now, verifiedSecs)
  BY <1>1, <1>5, StopStreamTakes
<1> HIDE DEF r
<1>8. Takes(mem, r.m, now, verifiedSecs)
  BY <1>1, <1>5, <1>7, TakesTrans
<1>9. Takes(mem, after_op(r, caller, now), now, verifiedSecs)
  BY <1>1, <1>8, AfterOpTakes
<1>10. QED
  BY <1>2, <1>3, <1>6, <1>9

\* So is a transaction of another hub.
LEMMA HubOpStep ==
  ASSUME Inv, NEW from \in Signers, NEW kind \in {"onboard", "hub"},
         HubOp(from, kind)
  PROVE  Takes(mem, mem', now, verifiedSecs)
<1> DEFINE c == charge_fee(mem, from, FeeOf[kind], now)
<1>1. /\ from \in Addr /\ FeeOf[kind] \in Nat /\ now \in Nat
      /\ verifiedSecs \in [Addr -> Nat] /\ Safe(mem, now, verifiedSecs)
  BY LedgerConstants DEF Signers, Kinds, Inv
<1>2. Takes(mem, c.m, now, verifiedSecs) /\ Safe(c.m, now, verifiedSecs)
  BY <1>1, ChargeFeeTakes DEF Takes
<1>3. mem' = IF c.ok THEN settle(c.m, from, now) ELSE c.m
  BY DEF HubOp
<1> HIDE DEF c
<1>4. Takes(c.m, settle(c.m, from, now), now, verifiedSecs)
  BY <1>1, <1>2, SettleTakes
<1>5. Takes(mem, settle(c.m, from, now), now, verifiedSecs)
  BY <1>1, <1>2, <1>4, TakesTrans
<1>6. QED
  BY <1>2, <1>3, <1>5

\* A later block preserves the invariant: pending emission grows no faster than
\* the verified seconds, and no ended stream starts to owe.
LEMMA NewBlockStep ==
  ASSUME Inv, NewBlock
  PROVE  Inv' /\ Evolves(mem, mem')
<1>1. now \in Nat /\ verifiedSecs \in [Addr -> Nat] /\ Safe(mem, now, verifiedSecs)
  BY DEF Inv
<1>2. now' \in Nat /\ now <= now' /\ mem' = mem
  BY <1>1, LedgerConstants DEF NewBlock
<1>3. verifiedSecs' = [a \in Addr |-> verifiedSecs[a] +
                         (IF mem.verified[a] THEN now' - now ELSE 0)]
  BY DEF NewBlock
<1>4. Safe(mem, now', verifiedSecs')
  BY <1>1, <1>2, <1>3, TimePasses
<1>5. verifiedSecs' \in [Addr -> Nat]
  BY <1>1, <1>2, <1>3
<1>6. Evolves(mem, mem')
  <2>1. AllWellFormed(mem, now)
    BY <1>1 DEF Safe
  <2>2. mem'.streams = mem.streams
    BY <1>2
  <2>3. QED
    BY <1>1, <2>1, <2>2, EvolvesSame
<1>7. QED
  BY <1>2, <1>4, <1>5, <1>6 DEF Inv

\* Every step preserves the invariant and the stream history.
LEMMA NextStep ==
  ASSUME Inv, [Next]_vars
  PROVE  Inv' /\ Evolves(mem, mem')
<1>1. now \in Nat /\ verifiedSecs \in [Addr -> Nat] /\ Safe(mem, now, verifiedSecs)
  BY DEF Inv
<1>2. ASSUME Takes(mem, mem', now, verifiedSecs), UNCHANGED <<now, verifiedSecs>>
      PROVE  Inv' /\ Evolves(mem, mem')
  BY <1>1, <1>2 DEF Inv, Takes
<1>3. CASE NewBlock
  BY <1>3, NewBlockStep
<1>4. ASSUME NEW from \in Signers, NEW to \in Addr, NEW value \in Values,
             NEW nonceOk \in BOOLEAN, Transfer(from, to, value, nonceOk)
      PROVE  Inv' /\ Evolves(mem, mem')
  <2>1. UNCHANGED <<now, verifiedSecs>>
    BY <1>4 DEF Transfer
  <2>2. QED
    BY <1>2, <1>4, <2>1, TransferStep
<1>5. ASSUME NEW from \in Signers, NEW to \in Addr, NEW rate \in Rates,
             NEW deposit \in Deposits, NEW nonceOk \in BOOLEAN,
             OpenStream(from, to, rate, deposit, nonceOk)
      PROVE  Inv' /\ Evolves(mem, mem')
  <2>1. UNCHANGED <<now, verifiedSecs>>
    BY <1>5 DEF OpenStream
  <2>2. QED
    BY <1>2, <1>5, <2>1, OpenStreamStep
<1>6. ASSUME NEW caller \in Signers, NEW id \in StreamIds,
             NEW nonceOk \in BOOLEAN, StopStream(caller, id, nonceOk)
      PROVE  Inv' /\ Evolves(mem, mem')
  <2>1. UNCHANGED <<now, verifiedSecs>>
    BY <1>6 DEF StopStream
  <2>2. QED
    BY <1>2, <1>6, <2>1, StopStreamStep
<1>7. ASSUME NEW from \in Signers, NEW kind \in {"onboard", "hub"},
             HubOp(from, kind)
      PROVE  Inv' /\ Evolves(mem, mem')
  <2>1. UNCHANGED <<now, verifiedSecs>>
    BY <1>7 DEF HubOp
  <2>2. QED
    BY <1>2, <1>7, <2>1, HubOpStep
<1>8. ASSUME NEW a \in Subjects, NEW v \in BOOLEAN, sync_account_verified(a, v)
      PROVE  Inv' /\ Evolves(mem, mem')
  <2>1. a \in Addr
    BY LedgerConstants DEF Signers
  <2>2. /\ UNCHANGED <<now, verifiedSecs>>
        /\ mem' = [mem EXCEPT !.verified[a] = v,
                              !.verified_at[a] = IF v THEN now ELSE 0]
    BY <1>8 DEF sync_account_verified
  <2>3. Takes(mem, mem', now, verifiedSecs)
    BY <1>1, <2>1, <2>2, SyncTakes
  <2>4. QED
    BY <1>2, <2>2, <2>3
<1>9. CASE UNCHANGED vars
  <2>1. Takes(mem, mem', now, verifiedSecs) /\ UNCHANGED <<now, verifiedSecs>>
    BY <1>1, <1>9, TakesNothing DEF vars
  <2>2. QED
    BY <1>2, <2>1
<1>10. QED
  BY <1>3, <1>4, <1>5, <1>6, <1>7, <1>8, <1>9 DEF Next

\* Hence the invariant always holds.
LEMMA InvIsInvariant == Spec => []Inv
<1>1. Inv /\ [Next]_vars => Inv'
  BY NextStep
<1>2. QED
  BY <1>1, InitInv, PTL DEF Spec

\* Every reachable ledger is well typed: no sequence of transactions, for any
\* amounts, drives a settled balance, a draw or a clock below zero
\* (charge_fee, apply_transfer, open_stream and stop_stream never debit more
\* than is there).
THEOREM TypeCorrect == Spec => []TypeOK
<1>1. Inv => TypeOK
  BY DEF Inv, Safe, TypeOK
<1>2. QED
  BY <1>1, InvIsInvariant, PTL

\* Conservation to the base unit (I2) holds for any number of accounts, streams
\* and transactions: value is created by emission only and destroyed by nothing.
THEOREM ValueConserved == Spec => []Conservation
<1>1. Inv => Conservation
  BY DEF Inv, Safe, Conservation
<1>2. QED
  BY <1>1, InvIsInvariant, PTL

\* Every stream is solvent at every instant, in any interleaving of draws by
\* settle_incoming, stops and the passing of time.
THEOREM StreamsAlwaysSolvent == Spec => []StreamsSolvent
<1>1. Inv => StreamsSolvent
  BY DEF Inv, Safe, AllWellFormed, WellFormed, StreamsSolvent
<1>2. QED
  BY <1>1, InvIsInvariant, PTL

\* No account is ever paid, or owed, more emission than the rate times the
\* seconds it spent verified.
THEOREM EmissionAlwaysBounded == Spec => []EmissionBounded
<1>1. ASSUME Inv PROVE EmissionBounded
  <2> SUFFICES ASSUME NEW a \in Addr
               PROVE  (mem.emitted[a] + pending_emission(mem, a, now))
                        * EMISSION_PERIOD_SECS <= UBI * verifiedSecs[a]
    BY DEF EmissionBounded
  <2> DEFINE e == mem.emitted[a]
             p == pending_emission(mem, a, now)
             u == UBI * unsettledSecs(mem, a, now)
             v == UBI * verifiedSecs[a]
  <2>1. MemOK(mem) /\ EmissionOK(mem, now, verifiedSecs)
    BY <1>1 DEF Inv, Safe
  <2>2. /\ p \in Nat /\ unsettledSecs(mem, a, now) \in Nat
        /\ p * EMISSION_PERIOD_SECS <= u
    BY <1>1, <2>1, PendingFacts DEF Inv
  <2>3. e \in Nat /\ verifiedSecs[a] \in Nat
    BY <1>1, <2>1 DEF Inv, MemOK
  <2>4. e * EMISSION_PERIOD_SECS + u <= v
    BY <2>1 DEF EmissionOK
  <2>5. u \in Nat /\ v \in Nat
    BY <2>2, <2>3, LedgerConstants
  <2> HIDE DEF e, p, u, v
  <2>6. /\ (e + p) * EMISSION_PERIOD_SECS
            = e * EMISSION_PERIOD_SECS + p * EMISSION_PERIOD_SECS
        /\ e * EMISSION_PERIOD_SECS \in Nat /\ p * EMISSION_PERIOD_SECS \in Nat
    BY <2>2, <2>3, LedgerConstants
  <2>7. (e + p) * EMISSION_PERIOD_SECS <= v
    BY <2>2, <2>4, <2>5, <2>6
  <2>8. QED
    BY <2>7 DEF e, p, v
<1>2. QED
  BY <1>1, InvIsInvariant, PTL

\* The history of streams: terms are fixed, draws are final, and a stream that
\* was stopped or completed is never written again.
THEOREM StreamHistoryKept == Spec => StreamHistory
<1>1. Inv /\ [Next]_vars => [Evolves(mem, mem')]_vars
  BY NextStep
<1>2. QED
  BY <1>1, InvIsInvariant, PTL DEF Spec, StreamHistory

(***************************************************************************)
(* Reported balances.  Every function of the runtime either reports the    *)
(* same balances as before (Same) or takes from its sender alone (Debits), *)
(* and a balance only grows as time passes.                                *)
(***************************************************************************)
\* A total of zeros is zero.
LEMMA TotalZero ==
  ASSUME NEW S, IsFiniteSet(S), NEW f \in [S -> Nat], \A x \in S : f[x] = 0
  PROVE  Total(f) = 0
<1> DEFINE g == [x \in S |-> 0]
<1>1. g \in [S -> Nat] /\ f = g
  OBVIOUS
<1>2. \A x \in S : f[x] = f[x] + (IF x \in S THEN g[x] ELSE 0)
  OBVIOUS
<1> HIDE DEF g
<1>3. Total(f) = Total(f) + Total(g)
  BY <1>1, <1>2, TotalSum
<1>4. QED
  BY <1>1, <1>3, TotalType

\* A function that is nowhere smaller has no smaller total.
LEMMA TotalMonotone ==
  ASSUME NEW S, IsFiniteSet(S), NEW f \in [S -> Nat], NEW h \in [S -> Nat],
         \A x \in S : f[x] <= h[x]
  PROVE  Total(f) <= Total(h)
<1> DEFINE g == [x \in S |-> h[x] - f[x]]
<1>1. g \in [S -> Nat]
  OBVIOUS
<1>2. \A x \in S : h[x] = f[x] + (IF x \in S THEN g[x] ELSE 0)
  OBVIOUS
<1> HIDE DEF g
<1>3. Total(h) = Total(f) + Total(g)
  BY <1>1, <1>2, TotalSum
<1>4. Total(f) \in Nat /\ Total(g) \in Nat
  BY <1>1, TotalType
<1>5. QED
  BY <1>3, <1>4

inflows(m, a, t) == [id \in incoming(m, a) |-> owed(m.streams[id], t)]

\* State::balance in its three parts.
LEMMA BalanceParts ==
  ASSUME NEW m, NEW t \in Nat, MemOK(m), AllWellFormed(m, t), NEW a \in Addr
  PROVE  /\ balance(m, a, t) = m.settled_balance[a] + pending_emission(m, a, t)
                                 + Total(inflows(m, a, t))
         /\ m.settled_balance[a] \in Nat
         /\ pending_emission(m, a, t) \in Nat
         /\ IsFiniteSet(incoming(m, a))
         /\ inflows(m, a, t) \in [incoming(m, a) -> Nat]
         /\ Total(inflows(m, a, t)) \in Nat
         /\ balance(m, a, t) \in Nat
<1>1. incoming(m, a) \subseteq DOMAIN m.streams
  BY DEF incoming
<1>2. IsFiniteSet(incoming(m, a))
  BY <1>1, TotalsOfMem, FS_Subset
<1>3. inflows(m, a, t) \in [incoming(m, a) -> Nat]
  BY <1>1, PaidFacts DEF AllWellFormed, inflows
<1>4. Total(inflows(m, a, t)) \in Nat
  BY <1>2, <1>3, TotalType
<1>5. m.settled_balance[a] \in Nat /\ pending_emission(m, a, t) \in Nat
  BY PendingFacts DEF MemOK
<1>6. balance(m, a, t) = m.settled_balance[a] + pending_emission(m, a, t)
                           + Total(inflows(m, a, t))
  BY DEF balance, inflows
<1>7. QED
  BY <1>2, <1>3, <1>4, <1>5, <1>6

\* Nothing is pending for an account settled at t.
LEMMA SettledPending ==
  ASSUME NEW m, MemOK(m), NEW a \in Addr, NEW t \in Nat, m.last_settled_at[a] >= t
  PROVE  pending_emission(m, a, t) = 0
<1>1. m.last_settled_at[a] \in Nat /\ m.verified_at[a] \in Nat
  BY DEF MemOK
<1>2. Monus(t, since(m, a)) = 0
  BY <1>1 DEF since, Larger, Monus
<1>3. UBI * 0 = 0 /\ 0 \div EMISSION_PERIOD_SECS = 0
  BY LedgerConstants
<1>4. QED
  BY <1>2, <1>3 DEF pending_emission

\* A stream that was just paid owes nothing.
LEMMA PaidOwes ==
  ASSUME NEW s, NEW t \in Nat, WellFormed(s, t)
  PROVE  owed(paid(s, t), t) = 0 /\ paid(s, t).to = s.to /\ paid(s, t).from = s.from
<1> DEFINE p == paid(s, t)
<1>1. WellFormed(p, t) /\ p.drawn = accrued(s, t) /\ p.to = s.to /\ p.from = s.from
      /\ p.rate = s.rate /\ p.deposit = s.deposit /\ p.started_at = s.started_at
  BY PaidFacts
<1>2. s \in Streams /\ s.rate > 0
  BY DEF WellFormed
<1>3. p.stopped_at = s.stopped_at /\ (p.status = "Stopped" <=> s.status = "Stopped")
  BY <1>2 DEF paid, Streams
<1> HIDE DEF p
<1>4. accrued(p, t) = accrued(s, t)
  BY <1>1, <1>3 DEF accrued, end_or_stop, t_end
<1>5. accrued(s, t) \in Nat
  BY <1>2, AccruedFacts
<1>6. QED
  BY <1>1, <1>4, <1>5 DEF owed, Monus, p

Same(m, n, t) == \A a \in Addr : balance(n, a, t) = balance(m, a, t)

\* Account::settle folds in what State::balance already reported.
LEMMA SettleReports ==
  ASSUME NEW m, NEW a \in Addr, NEW t \in Nat, MemOK(m), AllWellFormed(m, t)
  PROVE  Same(m, settle(m, a, t), t)
<1> DEFINE p == pending_emission(m, a, t)
           n == settle(m, a, t)
<1>1. SettledFrom(m, n, a, p, t)
  BY SettleFields
<1> HIDE DEF n
<1>2. MemOK(n) /\ n.streams = m.streams /\ AllWellFormed(n, t)
  BY <1>1 DEF SettledFrom, AllWellFormed
<1> SUFFICES ASSUME NEW b \in Addr PROVE balance(n, b, t) = balance(m, b, t)
  BY DEF n, Same
<1>3. inflows(n, b, t) = inflows(m, b, t)
  BY <1>2 DEF inflows, incoming
<1>4. n.settled_balance[b] + pending_emission(n, b, t)
        = m.settled_balance[b] + pending_emission(m, b, t)
  <2>0. /\ m.settled_balance \in [Addr -> Nat] /\ m.last_settled_at \in [Addr -> Nat]
        /\ p \in Nat
    BY PendingFacts DEF MemOK
  <2>1. CASE b = a
    <3>1. n.settled_balance[b] = m.settled_balance[b] + p
      BY <1>1, <2>0, <2>1 DEF SettledFrom
    <3>2. n.last_settled_at[b] >= t
      BY <1>1, <2>0, <2>1 DEF SettledFrom, Larger
    <3>3. pending_emission(n, b, t) = 0
      BY <1>2, <3>2, SettledPending
    <3>4. QED
      BY <2>0, <2>1, <3>1, <3>3
  <2>2. CASE b # a
    <3>1. n.settled_balance[b] = m.settled_balance[b] /\ n.last_settled_at[b] = m.last_settled_at[b]
          /\ n.verified = m.verified /\ n.verified_at = m.verified_at
      BY <1>1, <2>0, <2>2 DEF SettledFrom
    <3>2. pending_emission(n, b, t) = pending_emission(m, b, t)
      BY <3>1 DEF pending_emission, since
    <3>3. QED
      BY <3>1, <3>2
  <2>3. QED
    BY <2>1, <2>2
<1>5. QED
  BY <1>2, <1>3, <1>4, BalanceParts

\* settle_incoming pays out what State::balance already reported.
LEMMA IncomingReports ==
  ASSUME NEW m, NEW a \in Addr, NEW t \in Nat, NEW vs \in [Addr -> Nat], Safe(m, t, vs)
  PROVE  Same(m, settle_incoming(m, a, t), t)
<1>1. CASE incoming(m, a) = {}
  BY <1>1 DEF settle_incoming, Same
<1>2. CASE incoming(m, a) # {}
  <2> DEFINE k == settle(m, a, t)
             w == inflows(m, a, t)
             q == [id \in DOMAIN m.streams |->
                     IF m.streams[id].to = a THEN paid(m.streams[id], t)
                                             ELSE m.streams[id]]
             n == [k EXCEPT !.settled_balance[a] = @ + Total(w), !.streams = q]
  <2>1. MemOK(m) /\ AllWellFormed(m, t)
    BY DEF Safe
  <2>2. MemOK(k) /\ k.streams = m.streams /\ AllWellFormed(k, t)
    <3>1. SettledFrom(m, k, a, pending_emission(m, a, t), t)
      BY <2>1, SettleFields
    <3> HIDE DEF k
    <3>2. QED
      BY <2>1, <3>1 DEF SettledFrom, AllWellFormed
  <2>3. settle_incoming(m, a, t) = n
    BY <1>2 DEF settle_incoming, inflows
  <2>4. Same(m, k, t)
    BY <2>1, SettleReports
  <2>5. Safe(n, t, vs)
    BY <2>3, SettleIncomingTakes DEF Takes
  <2>6. Total(w) \in Nat
    BY <2>1, BalanceParts
  <2>7. \A id \in DOMAIN m.streams : WellFormed(m.streams[id], t)
    BY <2>1 DEF AllWellFormed
  <2>q. /\ DOMAIN q = DOMAIN m.streams
        /\ \A id \in DOMAIN m.streams :
             /\ q[id].to = m.streams[id].to
             /\ m.streams[id].to # a => q[id] = m.streams[id]
             /\ m.streams[id].to = a => owed(q[id], t) = 0
    BY <2>7, PaidOwes
  <2>8. /\ n.settled_balance = [k.settled_balance EXCEPT ![a] = @ + Total(w)]
        /\ SameClocks(k, n) /\ n.streams = q
    <3> HIDE DEF w, q, k
    <3>1. QED
      BY <2>2 DEF MemOK, SameClocks
  <2> HIDE DEF n, q, k, w
  <2>9. MemOK(n) /\ AllWellFormed(n, t)
    BY <2>5 DEF Safe
  <2> SUFFICES ASSUME NEW b \in Addr PROVE balance(n, b, t) = balance(k, b, t)
    BY <2>3, <2>4 DEF Same
  <2>10. pending_emission(n, b, t) = pending_emission(k, b, t)
    BY <2>8 DEF SameClocks, pending_emission, since
  <2>11. incoming(n, b) = incoming(m, b) /\ incoming(k, b) = incoming(m, b)
    BY <2>2, <2>8, <2>q DEF incoming
  <2>12. k.settled_balance \in [Addr -> Nat]
    BY <2>2 DEF MemOK
  <2>13. CASE b = a
    <3>1. n.settled_balance[b] = k.settled_balance[b] + Total(w)
      BY <2>8, <2>12, <2>13
    <3>2. \A id \in incoming(n, b) : inflows(n, b, t)[id] = 0
      BY <2>8, <2>q, <2>13 DEF inflows, incoming
    <3>3. Total(inflows(n, b, t)) = 0
      BY <2>9, <3>2, BalanceParts, TotalZero
    <3>4. inflows(k, b, t) = w
      BY <2>2, <2>11, <2>13 DEF inflows, w
    <3>5. QED
      BY <2>2, <2>6, <2>9, <2>10, <3>1, <3>3, <3>4, BalanceParts
  <2>14. CASE b # a
    <3>1. n.settled_balance[b] = k.settled_balance[b]
      BY <2>8, <2>12, <2>14
    <3>2. inflows(n, b, t) = inflows(k, b, t)
      BY <2>2, <2>8, <2>11, <2>14, <2>q DEF inflows, incoming
    <3>3. QED
      BY <2>2, <2>9, <2>10, <3>1, <3>2, BalanceParts
  <2>15. QED
    BY <2>13, <2>14
<1>3. QED
  BY <1>1, <1>2

\* The sender's inflow and emission are settled, nobody's reported balance moves.
LEMMA SenderReports ==
  ASSUME NEW m, NEW a \in Addr, NEW t \in Nat, NEW vs \in [Addr -> Nat], Safe(m, t, vs)
  PROVE  /\ Same(m, settle_incoming(m, a, t), t)
         /\ Same(m, settle(settle_incoming(m, a, t), a, t), t)
<1> DEFINE k == settle_incoming(m, a, t)
<1>1. Same(m, k, t)
  BY IncomingReports
<1>2. MemOK(k) /\ AllWellFormed(k, t)
  BY SettleIncomingTakes DEF Takes, Safe
<1> HIDE DEF k
<1>3. Same(k, settle(k, a, t), t)
  BY <1>2, SettleReports
<1>4. QED
  BY <1>1, <1>3 DEF k, Same

\* What move takes from one reported balance it adds to the other.
LEMMA MoveReports ==
  ASSUME NEW m, NEW a \in Addr, NEW b \in Addr, a # b, NEW v \in Nat,
         NEW t \in Nat, NEW vs, Safe(m, t, vs), v <= m.settled_balance[a]
  PROVE  LET n == move(m, a, b, v) IN
         /\ \A x \in Addr \ {a, b} : balance(n, x, t) = balance(m, x, t)
         /\ balance(n, a, t) + v = balance(m, a, t)
         /\ balance(n, b, t) = balance(m, b, t) + v
<1> DEFINE n == move(m, a, b, v)
<1>1. MemOK(m) /\ AllWellFormed(m, t) /\ m.settled_balance \in [Addr -> Nat]
  BY DEF Safe, MemOK
<1>2. MemOK(n) /\ AllWellFormed(n, t)
  BY MoveTakes DEF Takes, Safe
<1>3. /\ n.settled_balance = [x \in Addr |-> m.settled_balance[x] - (IF x = a THEN v ELSE 0)
                                                + (IF x = b THEN v ELSE 0)]
      /\ n.streams = m.streams /\ SameClocks(m, n)
  BY <1>1 DEF move, MemOK, SameClocks
<1> HIDE DEF n
<1>4. ASSUME NEW x \in Addr
      PROVE  /\ pending_emission(n, x, t) = pending_emission(m, x, t)
             /\ inflows(n, x, t) = inflows(m, x, t)
  BY <1>3 DEF SameClocks, pending_emission, since, inflows, incoming
<1>5. /\ \A x \in Addr \ {a, b} : n.settled_balance[x] = m.settled_balance[x]
      /\ n.settled_balance[a] + v = m.settled_balance[a]
      /\ n.settled_balance[b] = m.settled_balance[b] + v
  BY <1>1, <1>3
<1>6. ASSUME NEW x \in Addr \ {a, b} PROVE balance(n, x, t) = balance(m, x, t)
  BY <1>1, <1>2, <1>4, <1>5, BalanceParts
<1>7. balance(n, a, t) + v = balance(m, a, t)
  BY <1>1, <1>2, <1>4, <1>5, BalanceParts
<1>8. balance(n, b, t) = balance(m, b, t) + v
  BY <1>1, <1>2, <1>4, <1>5, BalanceParts
<1>9. QED
  BY <1>6, <1>7, <1>8 DEF n

\* Doing what settle_stream and stop_stream do with a stream and one account: what the
\* stream owed is no longer reported to its recipient, v is reported to b.
LEMMA PayOutReports ==
  ASSUME NEW m, NEW t \in Nat, NEW vs, Safe(m, t, vs),
         NEW id \in DOMAIN m.streams, NEW r, WellFormed(r, t), r.to = m.streams[id].to,
         owed(r, t) = 0,
         NEW b \in Addr, NEW v \in Nat, locked(m.streams[id]) = locked(r) + v
  PROVE  LET n == pay_out(m, id, r, b, v)
             s == m.streams[id]
         IN \A x \in Addr :
              balance(n, x, t) + (IF x = s.to THEN owed(s, t) ELSE 0)
                = balance(m, x, t) + (IF x = b THEN v ELSE 0)
<1> DEFINE n == pay_out(m, id, r, b, v)
           s == m.streams[id]
<1>1. MemOK(m) /\ AllWellFormed(m, t) /\ m.settled_balance \in [Addr -> Nat]
  BY DEF Safe, MemOK
<1>2. MemOK(n) /\ AllWellFormed(n, t) /\ n.streams = [m.streams EXCEPT ![id] = r]
  BY PayOutSafe DEF Safe
<1>3. n.settled_balance = [m.settled_balance EXCEPT ![b] = @ + v] /\ SameClocks(m, n)
  BY <1>1 DEF pay_out, MemOK, SameClocks
<1>o. owed(s, t) \in Nat
  BY <1>1, PaidFacts DEF AllWellFormed
<1> HIDE DEF n
<1> SUFFICES ASSUME NEW x \in Addr
             PROVE  balance(n, x, t) + (IF x = s.to THEN owed(s, t) ELSE 0)
                      = balance(m, x, t) + (IF x = b THEN v ELSE 0)
  BY DEF n
<1>4. pending_emission(n, x, t) = pending_emission(m, x, t)
  BY <1>3 DEF SameClocks, pending_emission, since
<1>5. n.settled_balance[x] = m.settled_balance[x] + (IF x = b THEN v ELSE 0)
  BY <1>1, <1>3
<1>6. incoming(n, x) = incoming(m, x)
  BY <1>2 DEF incoming
<1>7. Total(inflows(n, x, t)) + (IF x = s.to THEN owed(s, t) ELSE 0) = Total(inflows(m, x, t))
  <2> DEFINE f == inflows(m, x, t)
             g == inflows(n, x, t)
             T == incoming(m, x)
  <2>1. /\ IsFiniteSet(T) /\ f \in [T -> Nat] /\ g \in [T -> Nat]
        /\ Total(f) \in Nat /\ Total(g) \in Nat
    BY <1>1, <1>2, <1>6, BalanceParts
  <2>2. CASE x = s.to
    <3>1. id \in T
      BY <2>2 DEF incoming
    <3>2. f[id] = owed(s, t) /\ g[id] = 0
      BY <1>2, <1>6, <3>1 DEF inflows
    <3>3. \A y \in T \ {id} : g[y] = f[y]
      BY <1>2, <1>6 DEF inflows, incoming
    <3> HIDE DEF f, g, T, s
    <3>4. Total(g) = Total(f) - f[id] + g[id]
      BY <2>1, <3>1, <3>3, TotalUpdate
    <3>5. QED
      BY <1>o, <2>1, <2>2, <3>2, <3>4 DEF f, g
  <2>3. CASE x # s.to
    <3>1. g = f
      BY <1>2, <1>6, <2>3 DEF inflows, incoming
    <3>2. QED
      BY <2>1, <2>3, <3>1
  <2>4. QED
    BY <2>2, <2>3
<1>8. QED
  <2> DEFINE A == IF x = s.to THEN owed(s, t) ELSE 0
             B == IF x = b THEN v ELSE 0
  <2>1. A \in Nat /\ B \in Nat
    BY <1>o
  <2> HIDE DEF A, B
  <2>2. /\ Total(inflows(n, x, t)) + A = Total(inflows(m, x, t))
        /\ n.settled_balance[x] = m.settled_balance[x] + B
    BY <1>5, <1>7 DEF A, B
  <2>3. balance(n, x, t) + A = balance(m, x, t) + B
    BY <1>1, <1>2, <1>4, <2>1, <2>2, BalanceParts
  <2>4. QED
    BY <2>3 DEF A, B

\* Locking v in a new stream takes it from the sender's reported balance only.
LEMMA LockReports ==
  ASSUME NEW m, NEW t \in Nat, NEW vs, Safe(m, t, vs), NEW a \in Addr,
         NEW v \in Nat, v <= m.settled_balance[a],
         NEW s, WellFormed(s, t), locked(s) = v, owed(s, t) = 0
  PROVE  \A x \in Addr :
           balance(lock(m, a, v, s), x, t) + (IF x = a THEN v ELSE 0) = balance(m, x, t)
<1> DEFINE n == lock(m, a, v, s)
           i == m.next_id
           D == DOMAIN m.streams
<1>1. MemOK(m) /\ AllWellFormed(m, t) /\ m.settled_balance \in [Addr -> Nat]
  BY DEF Safe, MemOK
<1>2. MemOK(n) /\ AllWellFormed(n, t)
  BY LockTakes DEF Takes, Safe
<1>3. /\ n.settled_balance = [m.settled_balance EXCEPT ![a] = @ - v] /\ SameClocks(m, n)
      /\ n.streams = [id \in D \cup {i} |-> IF id = i THEN s ELSE m.streams[id]]
      /\ i \notin D
  <2>1. D = 0..(i - 1) /\ i \in Nat
    BY <1>1 DEF MemOK
  <2>2. i \notin D
    BY <2>1
  <2>3. QED
    BY <1>1, <2>2 DEF lock, put_new_stream, MemOK, SameClocks
<1> HIDE DEF n
<1> SUFFICES ASSUME NEW x \in Addr
             PROVE  balance(n, x, t) + (IF x = a THEN v ELSE 0) = balance(m, x, t)
  BY DEF n
<1>4. pending_emission(n, x, t) = pending_emission(m, x, t)
  BY <1>3 DEF SameClocks, pending_emission, since
<1>5. n.settled_balance[x] + (IF x = a THEN v ELSE 0) = m.settled_balance[x]
  BY <1>1, <1>3
<1>6. Total(inflows(n, x, t)) = Total(inflows(m, x, t))
  <2> DEFINE f == inflows(m, x, t)
             g == inflows(n, x, t)
             T == incoming(m, x)
  <2>1. IsFiniteSet(T) /\ f \in [T -> Nat] /\ g \in [incoming(n, x) -> Nat] /\ i \notin T
    <3>1. IsFiniteSet(T) /\ f \in [T -> Nat]
      BY <1>1, BalanceParts
    <3>2. g \in [incoming(n, x) -> Nat]
      BY <1>2, BalanceParts
    <3>3. i \notin T
      BY <1>3 DEF incoming
    <3>4. QED
      BY <3>1, <3>2, <3>3
  <2>2. CASE s.to = x
    <3>1. incoming(n, x) = T \cup {i}
      BY <1>3, <2>2 DEF incoming
    <3>2. g[i] = 0 /\ \A y \in T : g[y] = f[y]
      BY <1>3, <3>1 DEF inflows, incoming
    <3> HIDE DEF f, g, T, i
    <3>3. Total(g) = Total(f) + g[i] /\ Total(f) \in Nat
      BY <2>1, <3>1, <3>2, TotalExtend, TotalType
    <3>4. QED
      BY <3>2, <3>3 DEF f, g
  <2>3. CASE s.to # x
    <3>1. incoming(n, x) = T
      BY <1>3, <2>3 DEF incoming
    <3>2. g = f
      BY <1>3, <3>1 DEF inflows, incoming
    <3>3. QED
      BY <3>2
  <2>4. QED
    BY <2>2, <2>3
<1>7. QED
  <2> DEFINE B == IF x = a THEN v ELSE 0
  <2>1. B \in Nat
    OBVIOUS
  <2> HIDE DEF B
  <2>2. n.settled_balance[x] + B = m.settled_balance[x]
    BY <1>5 DEF B
  <2>3. balance(n, x, t) + B = balance(m, x, t)
    BY <1>1, <1>2, <1>4, <1>6, <2>1, <2>2, BalanceParts
  <2>4. QED
    BY <2>3 DEF B

(***************************************************************************)
(* Whose reported balance an operation may lower.                          *)
(***************************************************************************)
\* Nobody's but a's, and a's by at most v.
Debits(m, n, a, v, t) ==
  /\ \A b \in Addr \ {a} : balance(n, b, t) >= balance(m, b, t)
  /\ balance(n, a, t) + v >= balance(m, a, t)

LEMMA SafeReports ==
  ASSUME NEW m, NEW t \in Nat, NEW vs, Safe(m, t, vs), NEW a \in Addr
  PROVE  balance(m, a, t) \in Nat
BY BalanceParts DEF Safe

LEMMA SameDebits ==
  ASSUME NEW m, NEW n, NEW t \in Nat, NEW vs, Safe(m, t, vs), Same(m, n, t), NEW a \in Addr,
         NEW v \in Nat
  PROVE  Debits(m, n, a, v, t)
BY SafeReports DEF Same, Debits

LEMMA DebitsTrans ==
  ASSUME NEW k, NEW m, NEW n, NEW t \in Nat, NEW vs,
         Safe(k, t, vs), Safe(m, t, vs), Safe(n, t, vs), NEW a \in Addr,
         NEW v \in Nat, NEW w \in Nat, Debits(k, m, a, v, t), Debits(m, n, a, w, t)
  PROVE  Debits(k, n, a, v + w, t)
<1>1. \A b \in Addr : balance(k, b, t) \in Nat /\ balance(m, b, t) \in Nat /\ balance(n, b, t) \in Nat
  BY SafeReports
<1>2. QED
  BY <1>1 DEF Debits

\* move after a settlement of the recipient, as charge_fee and apply_transfer do it.
LEMMA PayReports ==
  ASSUME NEW m, NEW a \in Addr, NEW b \in Addr, a # b, NEW v \in Nat,
         NEW t \in Nat, NEW vs \in [Addr -> Nat], Safe(m, t, vs),
         v <= m.settled_balance[a]
  PROVE  LET n == move(settle(m, b, t), a, b, v) IN
         /\ \A x \in Addr \ {a, b} : balance(n, x, t) = balance(m, x, t)
         /\ Debits(m, n, a, v, t)
<1> DEFINE k == settle(m, b, t)
           n == move(k, a, b, v)
<1>1. MemOK(m) /\ AllWellFormed(m, t)
  BY DEF Safe
<1>2. Same(m, k, t)
  BY <1>1, SettleReports
<1>3. Safe(k, t, vs)
  BY SettleSafe
<1>4. k.settled_balance[a] = m.settled_balance[a]
  <2>1. SettledFrom(m, k, b, pending_emission(m, b, t), t)
    BY <1>1, SettleFields
  <2> HIDE DEF k
  <2>2. QED
    BY <1>1, <2>1 DEF SettledFrom, MemOK
<1> HIDE DEF k
<1>5. /\ \A x \in Addr \ {a, b} : balance(n, x, t) = balance(k, x, t)
      /\ balance(n, a, t) + v = balance(k, a, t)
      /\ balance(n, b, t) = balance(k, b, t) + v
  BY <1>3, <1>4, MoveReports
<1> HIDE DEF n
<1>6. \A x \in Addr : balance(k, x, t) = balance(m, x, t) /\ balance(m, x, t) \in Nat
  BY <1>2, SafeReports DEF Same
<1>7. \A x \in Addr \ {a, b} : balance(n, x, t) = balance(m, x, t)
  BY <1>5, <1>6
<1>8. Debits(m, n, a, v, t)
  BY <1>5, <1>6 DEF Debits
<1>9. QED
  BY <1>7, <1>8 DEF n, k

\* Settling opens no stream.
LEMMA SettleKeepsIds ==
  ASSUME NEW m, NEW a, NEW t
  PROVE  settle(m, a, t).next_id = m.next_id /\ settle_incoming(m, a, t).next_id = m.next_id
<1> DEFINE k == settle(m, a, t)
<1>1. k.next_id = m.next_id
  BY DEF settle
<1>2. settle_incoming(m, a, t).next_id \in {m.next_id, k.next_id}
  <2> HIDE DEF k
  <2>1. CASE incoming(m, a) = {}
    BY <2>1 DEF settle_incoming
  <2>2. CASE incoming(m, a) # {}
    BY <2>2 DEF settle_incoming, k
  <2>3. QED
    BY <2>1, <2>2
<1>3. QED
  BY <1>1, <1>2

\* The fee is the sender's loss and the treasury's gain.
LEMMA FeeReports ==
  ASSUME NEW m, NEW from \in Signers, NEW fee \in Nat, NEW t \in Nat,
         NEW vs \in [Addr -> Nat], Safe(m, t, vs)
  PROVE  LET r == charge_fee(m, from, fee, t) IN
         /\ \A x \in Addr \ {from, TREASURY} : balance(r.m, x, t) = balance(m, x, t)
         /\ Debits(m, r.m, from, fee, t)
         /\ r.m.next_id = m.next_id
<1> DEFINE m1 == settle_incoming(m, from, t)
           m2 == settle(m1, from, t)
           m3 == move(settle(m2, TREASURY, t), from, TREASURY, fee)
           r  == charge_fee(m, from, fee, t)
<1>1. from \in Addr /\ TREASURY \in Addr /\ from # TREASURY
  BY LedgerConstants DEF Signers
<1>2. Safe(m1, t, vs) /\ Safe(m2, t, vs)
  BY <1>1, SettledSenderTakes DEF Takes
<1>3. Same(m, m1, t) /\ Same(m, m2, t)
  BY <1>1, SenderReports
<1>4. r.m = IF m2.settled_balance[from] < fee THEN m1
            ELSE IF fee = 0 THEN m2 ELSE m3
  BY DEF charge_fee, Ok, Err
<1>5. Debits(m, m1, from, fee, t) /\ Debits(m, m2, from, 0, t) /\ Debits(m, m2, from, fee, t)
  BY <1>1, <1>3, SameDebits
<1>n. m1.next_id = m.next_id /\ m2.next_id = m.next_id /\ m3.next_id = m.next_id
  <2>1. m1.next_id = m.next_id
    BY SettleKeepsIds
  <2>2. m2.next_id = m1.next_id /\ m3.next_id = m2.next_id
    <3> HIDE DEF m1
    <3>1. QED
      BY SettleKeepsIds DEF move
  <2>3. QED
    BY <2>1, <2>2
<1> HIDE DEF m1, m2, r
<1>6. CASE m2.settled_balance[from] < fee
  BY <1>3, <1>4, <1>5, <1>6, <1>n DEF r, Same
<1>7. CASE ~(m2.settled_balance[from] < fee) /\ fee = 0
  BY <1>3, <1>4, <1>5, <1>7, <1>n DEF r, Same
<1>8. CASE ~(m2.settled_balance[from] < fee) /\ fee # 0
  <2>1. m2.settled_balance[from] \in Nat
    BY <1>1, <1>2 DEF Safe, MemOK
  <2>2. /\ \A x \in Addr \ {from, TREASURY} : balance(m3, x, t) = balance(m2, x, t)
        /\ Debits(m2, m3, from, fee, t)
    BY <1>1, <1>2, <1>8, <2>1, PayReports
  <2>3. Safe(m3, t, vs)
    BY <1>1, <1>2, <1>8, <2>1, PayTakes DEF Takes
  <2> HIDE DEF m3
  <2>4. Debits(m, m3, from, 0 + fee, t)
    BY <1>1, <1>2, <1>5, <2>2, <2>3, DebitsTrans
  <2>5. r.m = m3
    BY <1>4, <1>8
  <2>6. QED
    BY <1>3, <1>n, <2>2, <2>4, <2>5 DEF r, Same
<1>9. QED
  BY <1>6, <1>7, <1>8

\* A transfer costs its sender what it names, and nobody else anything.
LEMMA TransferReports ==
  ASSUME NEW m, NEW from \in Addr, NEW to \in Addr, NEW value \in Nat,
         NEW nonceOk \in BOOLEAN, NEW t \in Nat, NEW vs \in [Addr -> Nat],
         Safe(m, t, vs)
  PROVE  Debits(m, apply_transfer(m, from, to, value, nonceOk, t).m, from, value, t)
<1> DEFINE m1 == settle_incoming(m, from, t)
           m2 == settle(m1, from, t)
           m3 == move(settle(m2, to, t), from, to, value)
           r  == apply_transfer(m, from, to, value, nonceOk, t)
<1>1. Safe(m1, t, vs) /\ Safe(m2, t, vs)
  BY SettledSenderTakes DEF Takes
<1>2. Same(m, m1, t) /\ Same(m, m2, t)
  BY SenderReports
<1>3. r.m = IF ~nonceOk \/ m2.settled_balance[from] < value THEN m1
            ELSE IF from = to THEN m2 ELSE m3
  BY DEF apply_transfer, Ok, Err
<1>4. /\ Debits(m, m1, from, value, t) /\ Debits(m, m2, from, 0, t)
      /\ Debits(m, m2, from, value, t)
  BY <1>2, SameDebits
<1> HIDE DEF m1, m2, r
<1>5. CASE ~(m2.settled_balance[from] < value) /\ from # to
  <2>1. m2.settled_balance[from] \in Nat
    BY <1>1 DEF Safe, MemOK
  <2>2. Debits(m2, m3, from, value, t)
    BY <1>1, <1>5, <2>1, PayReports
  <2>3. Safe(m3, t, vs)
    BY <1>1, <1>5, <2>1, PayTakes DEF Takes
  <2> HIDE DEF m3
  <2>4. Debits(m, m3, from, 0 + value, t)
    BY <1>1, <1>4, <2>2, <2>3, DebitsTrans
  <2>5. QED
    BY <1>3, <1>4, <2>4 DEF r
<1>6. CASE m2.settled_balance[from] < value \/ from = to
  BY <1>3, <1>4, <1>6 DEF r
<1>7. QED
  BY <1>5, <1>6

\* Opening a stream costs its sender the deposit, and nobody else anything.
LEMMA OpenReports ==
  ASSUME NEW m, NEW from \in Addr, NEW to \in Addr, NEW rate \in Nat,
         NEW deposit \in Nat, NEW t \in Nat, NEW vs \in [Addr -> Nat],
         Safe(m, t, vs)
  PROVE  Debits(m, open_stream(m, from, to, rate, deposit, t).m, from, deposit, t)
<1> DEFINE m1 == settle(m, from, t)
           s  == new_stream(from, to, rate, deposit, t)
           n  == lock(m1, from, deposit, s)
           r  == open_stream(m, from, to, rate, deposit, t)
           bad == \/ from = to \/ rate = 0 \/ deposit = 0 \/ rate > MAX_RATE
                  \/ m1.settled_balance[from] < deposit
<1>1. Safe(m1, t, vs) /\ m1.settled_balance[from] \in Nat
  <2>1. Safe(m1, t, vs)
    BY SettleSafe
  <2> HIDE DEF m1
  <2>2. QED
    BY <2>1 DEF Safe, MemOK
<1>2. r.m = IF bad THEN m ELSE n
  BY DEF open_stream, lock, Ok, Err
<1>3. Same(m, m1, t)
  BY SettleReports DEF Safe
<1>4. CASE bad
  <2>1. Same(m, m, t)
    BY DEF Same
  <2>2. Debits(m, m, from, deposit, t)
    BY <2>1, SameDebits
  <2>3. QED
    BY <1>2, <1>4, <2>2
<1>5. CASE ~bad
  <2>1. /\ from # to /\ rate \in Nat \ {0} /\ deposit <= m1.settled_balance[from]
    BY <1>1, <1>5
  <2>2. WellFormed(s, t) /\ locked(s) = deposit
    BY <2>1, NewStreamFacts
  <2>3. owed(s, t) = 0
    <3>1. s.drawn = 0 /\ s.started_at = t /\ s.rate \in Nat /\ s.deposit \in Nat
      BY DEF new_stream
    <3> HIDE DEF s
    <3>2. end_or_stop(s) \in Nat
      BY <2>2, EndType DEF WellFormed
    <3>3. elapsed(s, t) = 0
      BY <3>1, <3>2 DEF elapsed, Monus, Smaller
    <3>4. s.rate * 0 = 0
      BY <3>1
    <3>5. accrued(s, t) = 0
      BY <3>1, <3>3, <3>4, AccruedIsFlow DEF flow, Smaller
    <3>6. QED
      BY <3>1, <3>5 DEF owed, Monus
  <2> HIDE DEF s, m1
  <2>4. \A x \in Addr : balance(n, x, t) + (IF x = from THEN deposit ELSE 0) = balance(m1, x, t)
    BY <1>1, <2>1, <2>2, <2>3, LockReports
  <2>5. Safe(n, t, vs)
    BY <1>1, <2>1, <2>2, LockTakes DEF Takes
  <2> HIDE DEF n
  <2>6. \A x \in Addr : balance(n, x, t) \in Nat /\ balance(m1, x, t) = balance(m, x, t)
    BY <1>3, <2>5, SafeReports DEF Same
  <2>7. Debits(m, n, from, deposit, t)
    BY <2>4, <2>6 DEF Debits
  <2>8. QED
    BY <1>2, <1>5, <2>7
<1>6. QED
  BY <1>4, <1>5

\* settle_stream pays out what State::balance already reported.
LEMMA SettleStreamReports ==
  ASSUME NEW m, NEW t \in Nat, NEW vs \in [Addr -> Nat], Safe(m, t, vs),
         NEW id \in DOMAIN m.streams
  PROVE  Same(m, settle_stream(m, id, t), t)
<1> DEFINE s == m.streams[id]
           k == settle(m, s.to, t)
           n == pay_out(k, id, paid(s, t), s.to, owed(s, t))
<1>1. MemOK(m) /\ AllWellFormed(m, t)
  BY DEF Safe
<1>2. WellFormed(s, t) /\ s.to \in Addr
  BY <1>1 DEF AllWellFormed, WellFormed, Streams
<1>3. Safe(k, t, vs) /\ k.streams = m.streams
  BY ZenonT(30), <1>1, <1>2, SettleSafe, SettleFields DEF SettledFrom
<1>4. Same(m, k, t)
  BY ZenonT(30), <1>1, <1>2, SettleReports
<1>5. settle_stream(m, id, t) = n /\ Safe(settle_stream(m, id, t), t, vs)
  <2>1. settle_stream(m, id, t) = n
    BY DEF settle_stream, pay_out
  <2>2. Takes(m, settle_stream(m, id, t), t, vs)
    BY SettleStreamTakes
  <2>3. QED
    BY <2>1, <2>2 DEF Takes
<1>6. /\ WellFormed(paid(s, t), t) /\ owed(s, t) \in Nat
      /\ locked(s) = locked(paid(s, t)) + owed(s, t)
      /\ paid(s, t).to = s.to /\ owed(paid(s, t), t) = 0
  BY <1>2, PaidFacts, PaidOwes
<1>7. k.streams[id] = s /\ id \in DOMAIN k.streams
  BY <1>3
<1> DEFINE p == paid(s, t)
           o == owed(s, t)
<1> HIDE DEF k, s, p, o
<1>8. \A x \in Addr : balance(n, x, t) + (IF x = s.to THEN o ELSE 0)
                        = balance(k, x, t) + (IF x = s.to THEN o ELSE 0)
  <2>1. /\ WellFormed(p, t) /\ o \in Nat /\ locked(k.streams[id]) = locked(p) + o
        /\ p.to = k.streams[id].to /\ owed(p, t) = 0 /\ s.to \in Addr
    BY <1>2, <1>6, <1>7 DEF p, o
  <2>2. \A x \in Addr :
          balance(pay_out(k, id, p, s.to, o), x, t)
              + (IF x = k.streams[id].to THEN owed(k.streams[id], t) ELSE 0)
            = balance(k, x, t) + (IF x = s.to THEN o ELSE 0)
    BY <1>3, <1>7, <2>1, PayOutReports
  <2>3. QED
    BY <1>7, <2>2 DEF p, o
<1> HIDE DEF n
<1>9. Safe(n, t, vs)
  BY <1>5
<1>10. \A x \in Addr : balance(n, x, t) \in Nat /\ balance(k, x, t) \in Nat
  BY <1>3, <1>9, SafeReports
<1>11. \A x \in Addr : balance(n, x, t) = balance(k, x, t)
  BY <1>6, <1>8, <1>10 DEF o
<1>12. QED
  BY <1>4, <1>5, <1>11 DEF Same

\* Stopping a stream lowers nobody's reported balance: the recipient keeps what was owed,
\* the sender gets the rest back.
LEMMA StopReports ==
  ASSUME NEW m, NEW id, NEW caller, NEW t \in Nat, NEW vs \in [Addr -> Nat],
         Safe(m, t, vs), NEW x \in Addr
  PROVE  balance(stop_stream(m, id, caller, t).m, x, t) >= balance(m, x, t)
<1> DEFINE bad == \/ id \notin DOMAIN m.streams
                  \/ m.streams[id].from # caller
                  \/ m.streams[id].status # "Active"
<1>1. CASE bad
  BY <1>1, SafeReports DEF stop_stream, Err
<1>2. CASE ~bad
  <2> DEFINE o  == m.streams[id]
             m1 == settle_stream(m, id, t)
             s  == m1.streams[id]
             a  == s.from
             k  == settle(m1, a, t)
             z  == stopped(s, t)
             v  == Monus(s.deposit, s.drawn)
             n  == pay_out(k, id, z, a, v)
  <2>1. id \in DOMAIN m.streams /\ o.status = "Active"
    BY <1>2
  <2>2. stop_stream(m, id, caller, t).m = n
    BY <1>2 DEF stop_stream, pay_out, stopped, Ok
  <2>3. MemOK(m) /\ AllWellFormed(m, t) /\ WellFormed(o, t)
    BY <2>1 DEF Safe, AllWellFormed
  <2>4. /\ Takes(m, m1, t, vs) /\ m1.streams = [m.streams EXCEPT ![id] = paid(o, t)]
        /\ Same(m, m1, t)
    BY ZenonT(30), <2>1, SettleStreamTakes, SettleStreamReports
  <2> HIDE DEF m1
  <2>5. Safe(m1, t, vs) /\ MemOK(m1) /\ s = paid(o, t) /\ id \in DOMAIN m1.streams
    BY <2>1, <2>4 DEF Takes, Safe
  <2>6. /\ WellFormed(s, t) /\ s.drawn = accrued(o, t) /\ owed(s, t) = 0
        /\ <<s.from, s.to, s.rate, s.deposit, s.started_at>>
            = <<o.from, o.to, o.rate, o.deposit, o.started_at>>
    BY <2>3, <2>5, PaidFacts, PaidOwes
  <2>7. s.drawn = accrued(s, t) /\ s.status # "Stopped"
    <3>1. s.status # "Stopped"
      BY <2>1, <2>3, <2>5 DEF paid, WellFormed, Streams
    <3>2. end_or_stop(s) = end_or_stop(o)
      BY <2>1, <2>6, <3>1 DEF end_or_stop, t_end
    <3>3. QED
      BY <2>6, <3>1, <3>2 DEF accrued
  <2>8. /\ WellFormed(z, t) /\ locked(z) = 0 /\ locked(s) = v /\ z.to = s.to
        /\ owed(z, t) = 0
    <3>1. WellFormed(z, t) /\ locked(z) = 0 /\ locked(s) = v /\ z.to = s.to
      BY <2>6, <2>7, StoppedFacts
    <3>2. z.status = "Stopped"
      BY <2>6 DEF stopped, WellFormed, Streams
    <3> HIDE DEF z
    <3>3. owed(z, t) = 0
      BY <3>1, <3>2 DEF WellFormed, Solvent
    <3>4. QED
      BY <3>1, <3>3
  <2>9. a \in Addr /\ v \in Nat
    BY <2>6, <2>8, PaidFacts DEF WellFormed, Streams
  <2>10. Safe(k, t, vs) /\ k.streams = m1.streams /\ Same(m1, k, t)
    <3> HIDE DEF a
    <3>1. Safe(k, t, vs)
      BY <2>5, <2>9, SettleSafe
    <3>2. SettledFrom(m1, k, a, pending_emission(m1, a, t), t)
      BY <2>5, <2>9, SettleFields
    <3>3. Same(m1, k, t)
      BY <2>5, <2>9, SettleReports DEF Safe
    <3>4. QED
      BY <3>1, <3>2, <3>3 DEF SettledFrom
  <2>11. balance(n, x, t) >= balance(k, x, t)
    <3>1. /\ id \in DOMAIN k.streams /\ locked(k.streams[id]) = locked(z) + v
          /\ z.to = k.streams[id].to /\ owed(k.streams[id], t) = 0
      BY <2>5, <2>6, <2>8, <2>9, <2>10
    <3>2. Safe(k, t, vs) /\ WellFormed(z, t) /\ a \in Addr /\ v \in Nat /\ owed(z, t) = 0
      BY <2>8, <2>9, <2>10
    <3> HIDE DEF k, z, v, a
    <3>3. balance(n, x, t) + (IF x = k.streams[id].to THEN owed(k.streams[id], t) ELSE 0)
            = balance(k, x, t) + (IF x = a THEN v ELSE 0)
      BY SMTT(30), <3>1, <3>2, PayOutReports
    <3>4. Safe(n, t, vs)
      BY <2>2, StopStreamTakes DEF Takes
    <3> HIDE DEF n
    <3>5. balance(n, x, t) \in Nat /\ balance(k, x, t) \in Nat
      BY <3>2, <3>4, SafeReports
    <3>6. QED
      BY <3>1, <3>2, <3>3, <3>5
  <2>12. QED
    BY <2>2, <2>4, <2>10, <2>11 DEF Same
<1>3. QED
  BY <1>1, <1>2

\* Truncating division is monotone.
LEMMA DivMonotone ==
  ASSUME NEW x \in Nat, NEW y \in Nat, x <= y, NEW p \in Nat \ {0}
  PROVE  x \div p <= y \div p
<1> DEFINE q == x \div p
           r == y \div p
<1>1. q \in Nat /\ q * p <= x
  BY DivFacts
<1>2. r \in Nat /\ y < (r + 1) * p
  <2>1. r \in Nat
    BY DivFacts
  <2>2. y = p * r + (y % p) /\ y % p \in 0..(p - 1)
    OBVIOUS
  <2>3. (r + 1) * p = p * r + p
    BY <2>1
  <2>4. p * r \in Nat
    BY <2>1
  <2> HIDE DEF r
  <2>5. QED
    BY <2>1, <2>2, <2>3, <2>4
<1> HIDE DEF q, r
<1>3. ASSUME q > r PROVE FALSE
  <2>1. p * (r + 1) <= p * q
    BY <1>1, <1>2, <1>3, MulMonotone
  <2>2. p * (r + 1) = (r + 1) * p /\ p * q = q * p /\ (r + 1) * p \in Nat /\ q * p \in Nat
    BY <1>1, <1>2
  <2>3. QED
    BY <1>1, <1>2, <2>1, <2>2
<1>4. QED
  BY <1>1, <1>2, <1>3 DEF q, r

\* The clock lowers nobody's reported balance.
LEMMA TimeReports ==
  ASSUME NEW m, NEW t \in Nat, NEW u \in Nat, t <= u, MemOK(m), AllWellFormed(m, t),
         NEW a \in Addr
  PROVE  balance(m, a, t) <= balance(m, a, u)
<1>1. AllWellFormed(m, u)
  BY StreamAges DEF AllWellFormed
<1>2. pending_emission(m, a, t) <= pending_emission(m, a, u)
  <2>1. since(m, a) \in Nat
    BY DEF MemOK, since, Larger
  <2>2. Monus(t, since(m, a)) \in Nat /\ Monus(u, since(m, a)) \in Nat
        /\ Monus(t, since(m, a)) <= Monus(u, since(m, a))
    BY <2>1 DEF Monus
  <2>3. PICK x, y : x = UBI * Monus(t, since(m, a)) /\ y = UBI * Monus(u, since(m, a))
    OBVIOUS
  <2>4. x \in Nat /\ y \in Nat /\ x <= y
    BY <2>2, <2>3, MulMonotone, LedgerConstants
  <2>5. x \div EMISSION_PERIOD_SECS <= y \div EMISSION_PERIOD_SECS
    BY <2>4, DivMonotone, LedgerConstants
  <2>6. QED
    BY <2>3, <2>5 DEF pending_emission
<1>3. Total(inflows(m, a, t)) <= Total(inflows(m, a, u))
  <2> DEFINE f == inflows(m, a, t)
             h == inflows(m, a, u)
             T == incoming(m, a)
  <2>1. IsFiniteSet(T) /\ f \in [T -> Nat] /\ h \in [T -> Nat]
    BY <1>1, BalanceParts
  <2>2. ASSUME NEW id \in T PROVE f[id] <= h[id]
    <3>1. m.streams[id] \in Streams /\ m.streams[id].rate > 0
      BY DEF incoming, AllWellFormed, WellFormed
    <3>2. PICK s : s = m.streams[id]
      OBVIOUS
    <3>3. /\ accrued(s, t) \in Nat /\ accrued(s, u) \in Nat /\ s.drawn \in Nat
          /\ accrued(s, t) <= accrued(s, u)
      BY <3>1, <3>2, AccruedFacts DEF Streams
    <3>4. owed(s, t) <= owed(s, u)
      BY <3>3 DEF owed, Monus
    <3>5. QED
      BY <3>2, <3>4 DEF inflows
  <2> HIDE DEF f, h, T
  <2>3. Total(f) <= Total(h)
    BY <2>1, <2>2, TotalMonotone
  <2>4. QED
    BY <2>3 DEF f, h
<1>4. QED
  BY <1>1, <1>2, <1>3, BalanceParts

\* Doing what apply_tx does after a failed operation reports what was reported before.
LEMMA AfterOpReports ==
  ASSUME NEW m, NEW r, NEW from \in Addr, NEW v \in Nat, NEW t \in Nat,
         NEW vs \in [Addr -> Nat], Safe(m, t, vs), Safe(r.m, t, vs), Debits(m, r.m, from, v, t)
  PROVE  Debits(m, after_op(r, from, t), from, v, t) /\ Safe(after_op(r, from, t), t, vs)
<1> DEFINE n == settle(r.m, from, t)
<1>1. Same(r.m, n, t) /\ Safe(n, t, vs)
  BY SettleReports, SettleSafe DEF Safe
<1> HIDE DEF n
<1>2. Debits(r.m, n, from, 0, t)
  BY <1>1, SameDebits
<1>3. Debits(m, n, from, v + 0, t)
  BY <1>1, <1>2, DebitsTrans
<1>4. QED
  BY <1>1, <1>3 DEF after_op, n

\* A transaction's reported cost is its sender's alone.
Own(from) ==
  \A a \in Addr \ {from} : balance(mem', a, now) >= balance(mem, a, now)

LEMMA FeeStep ==
  ASSUME Inv, NEW from \in Signers, NEW kind \in Kinds
  PROVE  LET c == charge_fee(mem, from, FeeOf[kind], now) IN
         /\ Safe(c.m, now, verifiedSecs) /\ Debits(mem, c.m, from, FeeOf[kind], now)
         /\ FeeOf[kind] \in Nat /\ from \in Addr /\ now \in Nat
         /\ verifiedSecs \in [Addr -> Nat] /\ Safe(mem, now, verifiedSecs)
<1>1. /\ from \in Addr /\ FeeOf[kind] \in Nat /\ now \in Nat
      /\ verifiedSecs \in [Addr -> Nat] /\ Safe(mem, now, verifiedSecs)
  BY LedgerConstants DEF Signers, Inv
<1>2. QED
  BY <1>1, ChargeFeeTakes, FeeReports DEF Takes

LEMMA TransferOwn ==
  ASSUME Inv, NEW from \in Signers, NEW to \in Addr, NEW value \in Values,
         NEW nonceOk \in BOOLEAN, Transfer(from, to, value, nonceOk)
  PROVE  Own(from)
<1> DEFINE fee == FeeOf["transfer"]
           c == charge_fee(mem, from, fee, now)
           r == apply_transfer(c.m, from, to, value, nonceOk, now)
<1>1. /\ Safe(c.m, now, verifiedSecs) /\ Debits(mem, c.m, from, fee, now)
      /\ fee \in Nat /\ from \in Addr /\ now \in Nat
      /\ verifiedSecs \in [Addr -> Nat] /\ Safe(mem, now, verifiedSecs)
  BY FeeStep DEF Kinds
<1>2. mem' = IF c.ok THEN after_op(r, from, now) ELSE c.m
  BY DEF Transfer
<1>3. value \in Nat
  BY LedgerConstants
<1> HIDE DEF c, fee
<1>4. Debits(c.m, r.m, from, value, now) /\ Safe(r.m, now, verifiedSecs)
  BY <1>1, <1>3, TransferReports, TransferTakes DEF Takes
<1> HIDE DEF r
<1>5. Debits(c.m, after_op(r, from, now), from, value, now)
      /\ Safe(after_op(r, from, now), now, verifiedSecs)
  BY <1>1, <1>3, <1>4, AfterOpReports
<1>6. Debits(mem, after_op(r, from, now), from, fee + value, now)
  BY <1>1, <1>3, <1>5, DebitsTrans
<1>7. QED
  BY <1>1, <1>2, <1>6 DEF Debits, Own

\* The nonce is consumed after the fee: the sender is settled, or nothing happens.
LEMMA NonceReports ==
  ASSUME NEW k, NEW m, NEW from \in Addr, NEW nonceOk \in BOOLEAN, NEW v \in Nat,
         NEW t \in Nat, NEW vs \in [Addr -> Nat], Safe(k, t, vs), Safe(m, t, vs),
         Debits(k, m, from, v, t)
  PROVE  LET n == consume_nonce(m, from, nonceOk, t) IN
         Safe(n.m, t, vs) /\ Debits(k, n.m, from, v, t) /\ Same(m, n.m, t)
<1> DEFINE n == consume_nonce(m, from, nonceOk, t)
<1>1. Safe(n.m, t, vs)
  BY ConsumeNonceTakes DEF Takes
<1>2. Same(m, n.m, t)
  <2>1. Same(m, settle(m, from, t), t) /\ Same(m, m, t)
    BY SettleReports DEF Safe, Same
  <2>2. QED
    BY <2>1 DEF consume_nonce, Ok, Err
<1> HIDE DEF n
<1>3. Debits(m, n.m, from, 0, t)
  BY <1>2, SameDebits
<1>4. Debits(k, n.m, from, v + 0, t)
  BY <1>1, <1>3, DebitsTrans
<1>5. QED
  BY <1>1, <1>2, <1>4 DEF n

LEMMA OpenStreamOwn ==
  ASSUME Inv, NEW from \in Signers, NEW to \in Addr, NEW rate \in Rates,
         NEW deposit \in Deposits, NEW nonceOk \in BOOLEAN,
         OpenStream(from, to, rate, deposit, nonceOk)
  PROVE  Own(from)
<1> DEFINE fee == FeeOf["stream"]
           c == charge_fee(mem, from, fee, now)
           n == consume_nonce(c.m, from, nonceOk, now)
           r == open_stream(n.m, from, to, rate, deposit, now)
<1>1. /\ Safe(c.m, now, verifiedSecs) /\ Debits(mem, c.m, from, fee, now)
      /\ fee \in Nat /\ from \in Addr /\ now \in Nat
      /\ verifiedSecs \in [Addr -> Nat] /\ Safe(mem, now, verifiedSecs)
  BY FeeStep DEF Kinds
<1>2. mem' = IF ~c.ok THEN c.m
             ELSE IF ~n.ok THEN after_op(n, from, now)
             ELSE after_op(r, from, now)
  BY DEF OpenStream
<1>3. deposit \in Nat /\ rate \in Nat
  BY LedgerConstants
<1> HIDE DEF c, fee
<1>4. Debits(mem, n.m, from, fee, now) /\ Safe(n.m, now, verifiedSecs)
  BY <1>1, NonceReports
<1> HIDE DEF n
<1>5. Debits(n.m, r.m, from, deposit, now) /\ Safe(r.m, now, verifiedSecs)
  BY <1>1, <1>3, <1>4, OpenReports, OpenStreamTakes DEF Takes
<1> HIDE DEF r
<1>6. Debits(mem, r.m, from, fee + deposit, now) /\ fee + deposit \in Nat
  BY <1>1, <1>3, <1>4, <1>5, DebitsTrans
<1>7. Debits(mem, after_op(r, from, now), from, fee + deposit, now)
  BY <1>1, <1>5, <1>6, AfterOpReports
<1>8. Debits(mem, after_op(n, from, now), from, fee, now)
  BY <1>1, <1>4, AfterOpReports
<1>9. QED
  BY <1>1, <1>2, <1>7, <1>8 DEF Debits, Own

LEMMA StopStreamOwn ==
  ASSUME Inv, NEW caller \in Signers, NEW id, NEW nonceOk \in BOOLEAN,
         StopStream(caller, id, nonceOk)
  PROVE  Own(caller)
<1> DEFINE fee == FeeOf["stream"]
           c == charge_fee(mem, caller, fee, now)
           n == consume_nonce(c.m, caller, nonceOk, now)
           r == stop_stream(n.m, id, caller, now)
<1>1. /\ Safe(c.m, now, verifiedSecs) /\ Debits(mem, c.m, caller, fee, now)
      /\ fee \in Nat /\ caller \in Addr /\ now \in Nat
      /\ verifiedSecs \in [Addr -> Nat] /\ Safe(mem, now, verifiedSecs)
  BY FeeStep DEF Kinds
<1>2. mem' = IF ~c.ok THEN c.m
             ELSE IF ~n.ok THEN after_op(n, caller, now)
             ELSE after_op(r, caller, now)
  BY DEF StopStream
<1> HIDE DEF c, fee
<1>4. Debits(mem, n.m, caller, fee, now) /\ Safe(n.m, now, verifiedSecs)
  BY <1>1, NonceReports
<1> HIDE DEF n
<1>5. Debits(n.m, r.m, caller, 0, now) /\ Safe(r.m, now, verifiedSecs)
  <2>1. Safe(r.m, now, verifiedSecs)
    BY <1>1, <1>4, StopStreamTakes DEF Takes
  <2>2. \A x \in Addr : balance(r.m, x, now) >= balance(n.m, x, now)
    BY <1>1, <1>4, StopReports
  <2> HIDE DEF r
  <2>3. \A x \in Addr : balance(r.m, x, now) \in Nat
    BY <1>1, <2>1, SafeReports
  <2>4. QED
    BY <1>1, <2>1, <2>2, <2>3 DEF Debits
<1> HIDE DEF r
<1>6. Debits(mem, r.m, caller, fee + 0, now) /\ fee + 0 = fee
  BY <1>1, <1>4, <1>5, DebitsTrans
<1>7. Debits(mem, after_op(r, caller, now), caller, fee, now)
  BY <1>1, <1>5, <1>6, AfterOpReports
<1>8. Debits(mem, after_op(n, caller, now), caller, fee, now)
  BY <1>1, <1>4, AfterOpReports
<1>9. QED
  BY <1>1, <1>2, <1>7, <1>8 DEF Debits, Own

LEMMA HubOpOwn ==
  ASSUME Inv, NEW from \in Signers, NEW kind \in {"onboard", "hub"}, HubOp(from, kind)
  PROVE  Own(from)
<1> DEFINE c == charge_fee(mem, from, FeeOf[kind], now)
           n == settle(c.m, from, now)
<1>1. /\ Safe(c.m, now, verifiedSecs) /\ Debits(mem, c.m, from, FeeOf[kind], now)
      /\ from \in Addr /\ now \in Nat
  BY FeeStep DEF Kinds
<1>2. mem' = IF c.ok THEN n ELSE c.m
  BY DEF HubOp
<1> HIDE DEF c
<1>3. Same(c.m, n, now)
  BY <1>1, SettleReports DEF Safe
<1> HIDE DEF n
<1>4. QED
  BY <1>1, <1>2, <1>3 DEF Debits, Same, Own

\* The registry's write moves at most the balance of the account it is about, and that
\* only if it changes its status or the start of its emission.
LEMMA SyncReports ==
  ASSUME Inv, NEW a \in Addr, NEW v \in BOOLEAN, sync_account_verified(a, v), NEW b \in Addr,
         <<mem.verified[b], mem.verified_at[b]>> = <<mem'.verified[b], mem'.verified_at[b]>>
  PROVE  balance(mem', b, now) = balance(mem, b, now)
<1>1. MemOK(mem)
  BY DEF Inv, Safe
<1>2. /\ mem'.settled_balance = mem.settled_balance /\ mem'.streams = mem.streams
      /\ mem'.last_settled_at = mem.last_settled_at
  BY <1>1 DEF sync_account_verified, MemOK
<1>3. pending_emission(mem', b, now) = pending_emission(mem, b, now)
  BY <1>2 DEF pending_emission, since
<1>4. QED
  BY <1>2, <1>3 DEF balance, incoming

\* A reported balance is lowered by a transaction of its owner or by a change of the
\* human's status, and by nothing else (State::balance, apply_tx).
THEOREM ReportedProtected == Spec => ReportedBalanceProtected
<1> DEFINE Moved(a) == <<mem.verified[a], mem.verified_at[a]>>
                         # <<mem'.verified[a], mem'.verified_at[a]>>
           Allowed(a) == balance(mem', a, now') < balance(mem, a, now)
                           => Moved(a) \/ (a \in Signers /\ OwnTx(a))
<1>1. ASSUME Inv, [Next]_vars PROVE \A a \in Addr : Allowed(a)
  <2>1. /\ now \in Nat /\ Safe(mem, now, verifiedSecs)
        /\ \A a \in Addr : balance(mem, a, now) \in Nat
    BY <1>1, SafeReports DEF Inv
  <2>2. Inv' /\ now' \in Nat /\ \A a \in Addr : balance(mem', a, now') \in Nat
    <3>1. Inv'
      BY <1>1, NextStep
    <3>2. now' \in Nat /\ Safe(mem', now', verifiedSecs')
      BY <3>1 DEF Inv
    <3>3. QED
      BY <3>1, <3>2, SafeReports
  <2>3. ASSUME NEW from \in Signers, Own(from), now' = now, OwnTx(from)
        PROVE  \A a \in Addr : Allowed(a)
    <3>1. ASSUME NEW a \in Addr, a # from PROVE ~(balance(mem', a, now') < balance(mem, a, now))
      BY <2>1, <2>2, <2>3, <3>1 DEF Own
    <3>2. QED
      BY <2>3, <3>1
  <2>4. CASE NewBlock
    <3>1. now <= now' /\ mem' = mem
      BY <2>1, <2>4, LedgerConstants DEF NewBlock
    <3>2. \A a \in Addr : balance(mem, a, now) <= balance(mem, a, now')
      BY <2>1, <2>2, <3>1, TimeReports DEF Safe
    <3>3. QED
      BY <2>1, <2>2, <3>1, <3>2
  <2>5. ASSUME NEW from \in Signers, NEW to \in Addr, NEW value \in Values,
               NEW nonceOk \in BOOLEAN, Transfer(from, to, value, nonceOk)
        PROVE  \A a \in Addr : Allowed(a)
    <3>1. Own(from)
      BY <1>1, <2>5, TransferOwn
    <3>2. OwnTx(from) /\ now' = now
      BY <2>5 DEF OwnTx, Transfer
    <3>3. QED
      BY <2>3, <3>1, <3>2
  <2>6. ASSUME NEW from \in Signers, NEW to \in Addr, NEW rate \in Rates,
               NEW deposit \in Deposits, NEW nonceOk \in BOOLEAN,
               OpenStream(from, to, rate, deposit, nonceOk)
        PROVE  \A a \in Addr : Allowed(a)
    <3>1. Own(from)
      BY <1>1, <2>6, OpenStreamOwn
    <3>2. OwnTx(from) /\ now' = now
      BY <2>6 DEF OwnTx, OpenStream
    <3>3. QED
      BY <2>3, <3>1, <3>2
  <2>7. ASSUME NEW caller \in Signers, NEW id \in StreamIds, NEW nonceOk \in BOOLEAN,
               StopStream(caller, id, nonceOk)
        PROVE  \A a \in Addr : Allowed(a)
    <3>1. Own(caller)
      BY <1>1, <2>7, StopStreamOwn
    <3>2. OwnTx(caller) /\ now' = now
      BY <2>7 DEF OwnTx, StopStream
    <3>3. QED
      BY <2>3, <3>1, <3>2
  <2>8. ASSUME NEW from \in Signers, NEW kind \in {"onboard", "hub"}, HubOp(from, kind)
        PROVE  \A a \in Addr : Allowed(a)
    <3>1. Own(from)
      BY <1>1, <2>8, HubOpOwn
    <3>2. OwnTx(from) /\ now' = now
      BY <2>8 DEF OwnTx, HubOp
    <3>3. QED
      BY <2>3, <3>1, <3>2
  <2>9. ASSUME NEW a \in Subjects, NEW v \in BOOLEAN, sync_account_verified(a, v)
        PROVE  \A b \in Addr : Allowed(b)
    <3>1. a \in Addr /\ now' = now
      BY <2>9, LedgerConstants DEF Signers, sync_account_verified
    <3>2. \A b \in Addr : ~Moved(b) => balance(mem', b, now) = balance(mem, b, now)
      BY <1>1, <2>9, <3>1, SyncReports
    <3>3. QED
      BY <2>1, <2>2, <3>1, <3>2
  <2>10. CASE UNCHANGED vars
    BY <2>1, <2>10 DEF vars
  <2>11. QED
    BY <1>1, <2>4, <2>5, <2>6, <2>7, <2>8, <2>9, <2>10 DEF Next
<1>2. Inv /\ [Next]_vars =>
        [\A a \in Addr :
           balance(mem', a, now') < balance(mem, a, now)
             => \/ <<mem.verified[a], mem.verified_at[a]>>
                     # <<mem'.verified[a], mem'.verified_at[a]>>
                \/ a \in Signers /\ OwnTx(a)]_vars
  BY <1>1
<1>3. QED
  BY <1>2, InvIsInvariant, PTL DEF Spec, ReportedBalanceProtected

=============================================================================
