-------------------------- MODULE TransactionProofs --------------------------
(***************************************************************************)
(* Proofs about the way of a transaction through a node: how far the       *)
(* two-step submission can overshoot the caps of the mempool, whatever the *)
(* blocks that arrive; that the rollback of a rejected block brings        *)
(* nothing back that had left; and that the lookups of mined transactions  *)
(* answer exactly from the canonical chain, priced as they were charged.   *)
(*                                                                         *)
(* The bound speaks of the mempool and of the handlers between gate and    *)
(* push.  It is not inductive because of the rollback: the copy has to be  *)
(* no larger than the mempool it replaces, for which it has to be a prefix *)
(* of it.  The lookups need that no chain repeats a hash, or a reorg would *)
(* drop what the kept blocks still hold.                                   *)
(***************************************************************************)
EXTENDS Mempool, TxIndex, FiniteSetTheorems, SequenceTheorems, NaturalsInduction, TLAPS

\* A nonempty set of naturals has a least element.
LEMMA LeastNat ==
  ASSUME NEW T, T \subseteq Nat, T # {}
  PROVE  \E x \in T : \A y \in T : x <= y
<1> DEFINE R == OpToRel(<, Nat)
<1>1. PICK x \in T : \A y \in T : ~(<<y, x>> \in R)
  <2>1. IsWellFoundedOn(R, Nat)
    BY NatLessThanWellFounded
  <2> HIDE DEF R
  <2>2. QED
    BY <2>1, WFMin
<1>2. ASSUME NEW y \in T, y < x PROVE FALSE
  <2>1. <<y, x>> \in Nat \X Nat /\ <<y, x>>[1] = y /\ <<y, x>>[2] = x
    OBVIOUS
  <2>2. <<y, x>>[1] < <<y, x>>[2]
    BY <1>2, <2>1
  <2>3. <<y, x>> \in R
    BY <2>1, <2>2, Zenon DEF OpToRel
  <2> HIDE DEF R
  <2>4. QED
    BY <1>1, <2>3
<1> HIDE DEF R
<1>3. \A y \in T : x <= y
  <2>1. \A y \in T : y \in Nat /\ x \in Nat /\ ~(y < x)
    BY <1>2
  <2>2. QED
    BY <2>1
<1>4. QED
  BY <1>3

(***************************************************************************)
(* Keeping some of the positions of a sequence.                            *)
(***************************************************************************)
\* The set of a sequence's positions is finite.
LEMMA Positions ==
  ASSUME NEW S, NEW s \in Seq(S)
  PROVE  /\ DOMAIN s = 1..Len(s) /\ Len(s) \in Nat
         /\ IsFiniteSet(DOMAIN s) /\ Cardinality(DOMAIN s) = Len(s)
<1>1. DOMAIN s = 1..Len(s) /\ Len(s) \in Nat
  OBVIOUS
<1>2. IsFiniteSet(1..Len(s)) /\ Cardinality(1..Len(s)) = Len(s)
  BY <1>1, FS_Interval
<1>3. QED
  BY <1>1, <1>2

\* For each k up to the number of kept positions, one of them is the k-th.
LEMMA KthExists ==
  ASSUME NEW n \in Nat, NEW K, K \subseteq 1..n, NEW k \in 1..Cardinality(K)
  PROVE  \E i \in K : Cardinality({j \in K : j <= i}) = k
<1> DEFINE upTo(i) == {j \in K : j <= i}
           T == {i \in Nat : Cardinality(upTo(i)) >= k}
<1>1. IsFiniteSet(K) /\ Cardinality(K) \in Nat /\ k \in Nat
  <2>1. IsFiniteSet(1..n)
    BY FS_Interval
  <2>2. IsFiniteSet(K)
    BY <2>1, FS_Subset
  <2>3. Cardinality(K) \in Nat
    BY <2>2, FS_CardinalityType
  <2>4. QED
    BY <2>2, <2>3
<1>0. \A j \in K : j \in Nat /\ 1 <= j /\ j <= n
  OBVIOUS
<1>2. \A i \in Nat : IsFiniteSet(upTo(i)) /\ Cardinality(upTo(i)) \in Nat
  <2>1. \A i \in Nat : upTo(i) \subseteq K
    OBVIOUS
  <2>2. QED
    BY <1>1, <2>1, FS_Subset, FS_CardinalityType
<1>3. n \in T
  <2>1. upTo(n) = K
    BY <1>0
  <2>2. QED
    BY <1>1, <2>1
<1>4. PICK m \in T : \A i \in T : m <= i
  <2>1. T \subseteq Nat /\ T # {}
    BY <1>3
  <2> HIDE DEF T
  <2>2. QED
    BY <2>1, LeastNat
<1>5. m \in Nat /\ Cardinality(upTo(m)) >= k /\ m # 0
  <2>1. upTo(0) = {}
    <3>1. \A j \in K : ~(j <= 0)
      BY <1>0
    <3>2. QED
      BY <3>1
  <2>2. Cardinality(upTo(0)) = 0
    BY <2>1, FS_EmptySet
  <2>3. QED
    BY <1>1, <1>4, <2>2
<1>6. Cardinality(upTo(m - 1)) < k /\ m - 1 \in Nat
  <2>1. m - 1 \in Nat /\ ~(m <= m - 1)
    BY <1>5
  <2>2. m - 1 \notin T
    BY <1>4, <2>1
  <2>3. ~(Cardinality(upTo(m - 1)) >= k) /\ Cardinality(upTo(m - 1)) \in Nat
    BY <1>2, <2>1, <2>2
  <2>4. QED
    BY <1>1, <2>1, <2>3
<1>7. m \in K
  <2>1. ASSUME m \notin K PROVE FALSE
    <3>1. upTo(m) = upTo(m - 1)
      <4>1. \A j \in K : j <= m <=> j <= m - 1
        BY <1>0, <1>5, <2>1
      <4>2. QED
        BY <4>1
    <3>2. QED
      BY <1>1, <1>2, <1>5, <1>6, <3>1
  <2>2. QED
    BY <2>1
<1>8. upTo(m) = upTo(m - 1) \cup {m} /\ m \notin upTo(m - 1)
  <2>1. \A j \in K : j <= m <=> j <= m - 1 \/ j = m
    BY <1>0, <1>5
  <2>2. m <= m /\ ~(m <= m - 1)
    BY <1>5
  <2>3. QED
    BY <1>7, <2>1, <2>2
<1>9. Cardinality(upTo(m)) = Cardinality(upTo(m - 1)) + 1
  <2>1. PICK A : A = upTo(m - 1)
    OBVIOUS
  <2>2. IsFiniteSet(A) /\ m \notin A
    BY <1>2, <1>6, <1>8, <2>1
  <2>3. Cardinality(A \cup {m}) = Cardinality(A) + 1
    BY <2>2, FS_AddElement
  <2>4. QED
    BY <1>8, <2>1, <2>3
<1>10. Cardinality(upTo(m)) = k
  <2>1. PICK x, y : x = Cardinality(upTo(m)) /\ y = Cardinality(upTo(m - 1))
    OBVIOUS
  <2>2. x \in Nat /\ y \in Nat /\ x = y + 1 /\ x >= k /\ y < k
    BY <1>2, <1>5, <1>6, <1>9, <2>1
  <2>3. x = k
    BY <1>1, <2>2
  <2>4. QED
    BY <2>1, <2>3
<1>11. QED
  BY <1>7, <1>10

\* What is retained is a sequence of the same things, no longer than before, and has no
\* more transactions of any sender.
LEMMA Retained ==
  ASSUME NEW s \in Seq(Txs), NEW K, K \subseteq DOMAIN s
  PROVE  /\ retain(s, K) \in Seq(Txs)
         /\ Len(retain(s, K)) <= Len(s)
         /\ \A a : /\ IsFiniteSet(of(s, a))
                   /\ Cardinality(of(retain(s, K), a)) <= Cardinality(of(s, a))
<1> DEFINE at(k) == CHOOSE i \in K : Cardinality({j \in K : j <= i}) = k
           n == Cardinality(K)
           r == retain(s, K)
<1>1. /\ DOMAIN s = 1..Len(s) /\ Len(s) \in Nat /\ IsFiniteSet(DOMAIN s)
      /\ Cardinality(DOMAIN s) = Len(s) /\ K \subseteq 1..Len(s)
  BY Positions
<1>2. IsFiniteSet(K) /\ n \in Nat /\ n <= Len(s)
  BY <1>1, FS_Subset, FS_CardinalityType
<1>3. \A k \in 1..n : at(k) \in K /\ Cardinality({j \in K : j <= at(k)}) = k
  <2>1. \A k \in 1..n : \E i \in K : Cardinality({j \in K : j <= i}) = k
    BY <1>1, KthExists
  <2>2. QED
    BY <2>1
<1> HIDE DEF at, n
<1>4. r = [k \in 1..n |-> s[at(k)]]
  BY DEF retain, at, n
<1>5. \A k \in 1..n : s[at(k)] \in Txs
  <2>1. \A i \in DOMAIN s : s[i] \in Txs
    OBVIOUS
  <2>2. \A k \in 1..n : at(k) \in DOMAIN s
    BY <1>3
  <2>3. QED
    BY <2>1, <2>2
<1>6. r \in Seq(Txs) /\ Len(r) = n /\ DOMAIN r = 1..n
  <2>1. r \in [1..n -> Txs]
    BY <1>4, <1>5
  <2> HIDE DEF r
  <2>2. QED
    BY <1>2, <2>1, SeqDef, LenProperties
<1>7. ASSUME NEW a
      PROVE  IsFiniteSet(of(s, a)) /\ Cardinality(of(r, a)) <= Cardinality(of(s, a))
  <2> DEFINE S == of(r, a)
             T == of(s, a)
             f == [k \in S |-> at(k)]
  <2>1. IsFiniteSet(T)
    <3>1. T \subseteq DOMAIN s
      BY DEF of
    <3>2. QED
      BY <1>1, <3>1, FS_Subset
  <2>2. \A k \in S : k \in 1..n /\ at(k) \in T
    <3>1. \A k \in S : k \in 1..n /\ r[k].from = a /\ r[k] = s[at(k)]
      BY <1>4, <1>6 DEF of
    <3>2. QED
      BY <1>1, <1>3, <3>1 DEF of
  <2>3. \A k, l \in S : at(k) = at(l) => k = l
    BY <1>3, <2>2
  <2> HIDE DEF S, T, r
  <2>4. f \in Injection(S, T)
    <3>1. f \in [S -> T]
      BY <2>2
    <3>2. \A k, l \in S : f[k] = f[l] => k = l
      BY <2>3
    <3> HIDE DEF f
    <3>3. QED
      BY <3>1, <3>2 DEF Injection, IsInjective
  <2> HIDE DEF f
  <2>5. Cardinality(S) <= Cardinality(T)
    BY <2>1, <2>4, FS_Injection
  <2>6. QED
    BY <2>1, <2>5 DEF S, T
<1>8. QED
  BY <1>2, <1>6, <1>7

(***************************************************************************)
(* Counting the mempool and the handlers.                                  *)
(***************************************************************************)
\* A prefix has no more transactions of a sender than the whole.
LEMMA PrefixOf ==
  ASSUME NEW s \in Seq(Txs), NEW t \in Seq(Txs), Len(t) <= Len(s), t = SubSeq(s, 1, Len(t)),
         NEW a
  PROVE  Cardinality(of(t, a)) <= Cardinality(of(s, a))
<1>1. /\ DOMAIN s = 1..Len(s) /\ DOMAIN t = 1..Len(t) /\ Len(s) \in Nat /\ Len(t) \in Nat
      /\ IsFiniteSet(DOMAIN s)
  BY Positions
<1>2. \A i \in DOMAIN t : i \in DOMAIN s /\ t[i] = s[i]
  BY <1>1
<1>3. of(t, a) \subseteq of(s, a) /\ of(s, a) \subseteq DOMAIN s
  BY <1>2 DEF of
<1>4. QED
  BY <1>1, <1>3, FS_Subset

\* A push adds one transaction of its sender.
LEMMA AppendedOf ==
  ASSUME NEW s \in Seq(Txs), NEW tx \in Txs, NEW a
  PROVE  /\ IsFiniteSet(of(s, a)) /\ Cardinality(of(s, a)) \in Nat
         /\ Cardinality(of(Append(s, tx), a))
              = Cardinality(of(s, a)) + (IF tx.from = a THEN 1 ELSE 0)
<1> DEFINE t == Append(s, tx)
           n == Len(s) + 1
<1>1. /\ DOMAIN s = 1..Len(s) /\ Len(s) \in Nat /\ IsFiniteSet(DOMAIN s)
      /\ DOMAIN t = 1..n /\ t[n] = tx /\ \A i \in DOMAIN s : t[i] = s[i]
  BY Positions
<1>2. IsFiniteSet(of(s, a)) /\ Cardinality(of(s, a)) \in Nat /\ n \notin of(s, a)
  <2>1. of(s, a) \subseteq DOMAIN s /\ n \notin DOMAIN s
    BY <1>1 DEF of
  <2>2. QED
    BY <1>1, <2>1, FS_Subset, FS_CardinalityType
<1>3. of(t, a) = IF tx.from = a THEN of(s, a) \cup {n} ELSE of(s, a)
  <2>1. DOMAIN t = DOMAIN s \cup {n} /\ n \notin DOMAIN s
    BY <1>1
  <2> HIDE DEF t, n
  <2>2. QED
    BY <1>1, <2>1 DEF of
<1>4. Cardinality(of(s, a) \cup {n}) = Cardinality(of(s, a)) + 1
  <2> HIDE DEF n
  <2>1. QED
    BY <1>2, FS_AddElement
<1>5. QED
  <2> HIDE DEF n, t
  <2>1. CASE tx.from = a
    BY <1>2, <1>3, <1>4, <2>1 DEF t
  <2>2. CASE tx.from # a
    BY <1>2, <1>3, <2>2 DEF t
  <2>3. QED
    BY <2>1, <2>2

\* The handlers between gate and push: one more, one fewer.
LEMMA Handlers ==
  ASSUME checked \in [Threads -> Txs \cup {NoTx}], NEW F, F \subseteq InFlight
  PROVE  /\ IsFiniteSet(Threads) /\ Cardinality(Threads) \in Nat
         /\ IsFiniteSet(F) /\ Cardinality(F) \in Nat /\ Cardinality(F) <= Cardinality(Threads)
         /\ (\E th \in Threads : th \notin F) => Cardinality(F) < Cardinality(Threads)
         /\ \A th : Cardinality(F \ {th}) = IF th \in F THEN Cardinality(F) - 1 ELSE Cardinality(F)
<1>1. IsFiniteSet(Threads)
  BY MempoolConstants
<1>2. F \subseteq Threads
  BY DEF InFlight
<1>3. /\ IsFiniteSet(F) /\ Cardinality(F) <= Cardinality(Threads)
      /\ Cardinality(Threads) = Cardinality(F) => Threads = F
  BY <1>1, <1>2, FS_Subset
<1>4. Cardinality(F) \in Nat /\ Cardinality(Threads) \in Nat
  BY <1>1, <1>3, FS_CardinalityType
<1>5. (\E th \in Threads : th \notin F) => Cardinality(F) < Cardinality(Threads)
  BY <1>3, <1>4
<1>6. \A th : Cardinality(F \ {th}) = IF th \in F THEN Cardinality(F) - 1 ELSE Cardinality(F)
  BY <1>3, FS_RemoveElement
<1>7. QED
  BY <1>1, <1>3, <1>4, <1>5, <1>6

(***************************************************************************)
(* The inductive invariant.                                                *)
(***************************************************************************)
\* The part of the type that the bound is about.
QueueTypes ==
  /\ mempool \in Seq(Txs)
  /\ checked \in [Threads -> Txs \cup {NoTx}]
  /\ backup.mempool \in Seq(Txs)

Inv ==
  /\ QueueTypes
  /\ MempoolBounded
  /\ BackupIsPrefix

LEMMA InitInv == Init => Inv
<1> SUFFICES ASSUME Init PROVE Inv
  OBVIOUS
<1>1. mempool = <<>> /\ checked = [th \in Threads |-> NoTx] /\ backup.mempool = <<>>
      /\ driver = "Idle"
  BY DEF Init, noBackup
<1>2. QueueTypes
  BY <1>1 DEF QueueTypes
<1>3. InFlight = {} /\ \A a : InFlightOf(a) = {} /\ of(mempool, a) = {}
  BY <1>1 DEF InFlight, InFlightOf, of
<1>4. Cardinality({}) = 0 /\ Len(mempool) = 0
  BY <1>1, FS_EmptySet
<1>5. Cardinality(Threads) \in Nat
  BY MempoolConstants, FS_CardinalityType
<1>6. MempoolBounded
  <2>1. PICK t : t = Cardinality(Threads)
    OBVIOUS
  <2>2. 0 + 0 < MEMPOOL_MAX_TXS + t /\ 0 + 0 < MEMPOOL_MAX_PER_SENDER + t
    BY <1>5, <2>1, MempoolConstants
  <2>3. QED
    BY <1>3, <1>4, <2>1, <2>2 DEF MempoolBounded
<1>7. QED
  BY <1>1, <1>2, <1>6 DEF Inv, BackupIsPrefix

\* A mempool that is no larger than one within the bound is within it.
LEMMA Smaller ==
  ASSUME Inv, NEW q \in Seq(Txs), Len(q) <= Len(mempool),
         \A a : Cardinality(of(q, a)) <= Cardinality(of(mempool, a)),
         mempool' = q, UNCHANGED checked
  PROVE  MempoolBounded'
<1>1. InFlight' = InFlight /\ \A a : InFlightOf(a)' = InFlightOf(a)
  BY DEF InFlight, InFlightOf
<1>2. \A a : of(q, a) \subseteq DOMAIN q /\ of(mempool, a) \subseteq DOMAIN mempool
  BY DEF of
<1>3. /\ IsFiniteSet(DOMAIN q) /\ IsFiniteSet(DOMAIN mempool)
      /\ Len(q) \in Nat /\ Len(mempool) \in Nat
  BY Positions DEF Inv, QueueTypes
<1>4. \A a : Cardinality(of(q, a)) \in Nat /\ Cardinality(of(mempool, a)) \in Nat
  BY <1>2, <1>3, FS_Subset, FS_CardinalityType
<1>5. /\ Cardinality(InFlight) \in Nat /\ Cardinality(Threads) \in Nat
      /\ \A a : Cardinality(InFlightOf(a)) \in Nat
  BY Handlers DEF Inv, QueueTypes, InFlightOf
<1>6. Len(q) + Cardinality(InFlight) < MEMPOOL_MAX_TXS + Cardinality(Threads)
  <2>1. Len(mempool) + Cardinality(InFlight) < MEMPOOL_MAX_TXS + Cardinality(Threads)
    BY DEF Inv, MempoolBounded
  <2>2. QED
    BY <1>3, <1>5, <2>1, MempoolConstants
<1>7. ASSUME NEW a \in Senders
      PROVE  Cardinality(of(q, a)) + Cardinality(InFlightOf(a))
               < MEMPOOL_MAX_PER_SENDER + Cardinality(Threads)
  <2>1. Cardinality(of(mempool, a)) + Cardinality(InFlightOf(a))
          < MEMPOOL_MAX_PER_SENDER + Cardinality(Threads)
    BY DEF Inv, MempoolBounded
  <2>2. PICK x, y, z, t : /\ x = Cardinality(of(q, a)) /\ y = Cardinality(of(mempool, a))
                          /\ z = Cardinality(InFlightOf(a)) /\ t = Cardinality(Threads)
    OBVIOUS
  <2>3. x \in Nat /\ y \in Nat /\ z \in Nat /\ t \in Nat /\ x <= y
        /\ y + z < MEMPOOL_MAX_PER_SENDER + t
    BY <1>4, <1>5, <2>1, <2>2
  <2>4. x + z < MEMPOOL_MAX_PER_SENDER + t
    BY <2>3, MempoolConstants
  <2>5. QED
    BY <2>2, <2>4
<1>8. QED
  BY <1>1, <1>6, <1>7 DEF MempoolBounded

\* The gate has compared the mempool with both caps, and this handler was not counted.
LEMMA CheckKeeps ==
  ASSUME Inv, NEW th \in Threads, NEW tx \in Txs, Check(th, tx)
  PROVE  Inv'
<1>1. QueueTypes'
  BY DEF Inv, QueueTypes, Check
<1>2. checked' = [checked EXCEPT ![th] = tx] /\ mempool' = mempool /\ checked[th] = NoTx
  BY DEF Check
<1>3. BackupIsPrefix'
  BY DEF Inv, BackupIsPrefix, Check
<1>4. tx.from \in Senders /\ tx # NoTx
  BY MempoolConstants
<1>5. InFlight' = InFlight \cup {th} /\ th \notin InFlight
  BY <1>2, <1>4 DEF InFlight, Inv, QueueTypes
<1>6. /\ th \notin InFlightOf(tx.from)
      /\ InFlightOf(tx.from)' = InFlightOf(tx.from) \cup {th}
      /\ \A a : a # tx.from => InFlightOf(a)' = InFlightOf(a)
  BY <1>2, <1>5 DEF InFlightOf, InFlight, Inv, QueueTypes
<1>7. /\ IsFiniteSet(InFlight) /\ Cardinality(Threads) \in Nat
      /\ Cardinality(InFlight) \in Nat /\ Cardinality(InFlight) < Cardinality(Threads)
  BY <1>5, Handlers DEF Inv, QueueTypes
<1>8. /\ IsFiniteSet(InFlightOf(tx.from)) /\ Cardinality(InFlightOf(tx.from)) \in Nat
      /\ Cardinality(InFlightOf(tx.from)) < Cardinality(Threads)
  <2>1. InFlightOf(tx.from) \subseteq InFlight
    BY DEF InFlightOf
  <2>2. QED
    BY <1>6, <2>1, Handlers DEF Inv, QueueTypes
<1>9. /\ Cardinality(InFlight \cup {th}) = Cardinality(InFlight) + 1
      /\ Cardinality(InFlightOf(tx.from) \cup {th}) = Cardinality(InFlightOf(tx.from)) + 1
  BY <1>5, <1>6, <1>7, <1>8, FS_AddElement
<1>10. Len(mempool) \in Nat /\ Cardinality(of(mempool, tx.from)) \in Nat
  <2>1. of(mempool, tx.from) \subseteq DOMAIN mempool
    BY DEF of
  <2>2. QED
    BY <2>1, Positions, FS_Subset, FS_CardinalityType DEF Inv, QueueTypes
<1>11. Len(mempool) < MEMPOOL_MAX_TXS
       /\ Cardinality(of(mempool, tx.from)) < MEMPOOL_MAX_PER_SENDER
  BY DEF Check
<1>12. Len(mempool') + Cardinality(InFlight') < MEMPOOL_MAX_TXS + Cardinality(Threads)
  BY <1>2, <1>5, <1>7, <1>9, <1>10, <1>11, MempoolConstants
<1>13. Cardinality(of(mempool', tx.from)) + Cardinality(InFlightOf(tx.from)')
         < MEMPOOL_MAX_PER_SENDER + Cardinality(Threads)
  BY <1>2, <1>6, <1>7, <1>8, <1>9, <1>10, <1>11, MempoolConstants
<1>14. \A a \in Senders :
         Cardinality(of(mempool', a)) + Cardinality(InFlightOf(a)')
           < MEMPOOL_MAX_PER_SENDER + Cardinality(Threads)
  BY <1>2, <1>6, <1>13 DEF Inv, MempoolBounded
<1>15. QED
  BY <1>1, <1>3, <1>12, <1>14 DEF Inv, MempoolBounded

\* A push moves one transaction from the handlers to the mempool.
LEMMA PushKeeps ==
  ASSUME Inv, NEW th \in Threads, Push(th)
  PROVE  Inv'
<1>1. /\ checked[th] \in Txs /\ mempool' = Append(mempool, checked[th])
      /\ checked' = [checked EXCEPT ![th] = NoTx]
      /\ mempool \in Seq(Txs) /\ checked[th] # NoTx
      /\ checked \in [Threads -> Txs \cup {NoTx}]
  BY DEF Inv, QueueTypes, Push
<1>2. QueueTypes'
  <2>1. Append(mempool, checked[th]) \in Seq(Txs)
    BY <1>1
  <2>2. QED
    BY <1>1, <2>1 DEF Inv, QueueTypes, Push
<1>3. BackupIsPrefix'
  <2>1. PICK s, x : s = mempool /\ x = checked[th]
    OBVIOUS
  <2>2. \A n \in 0..Len(s) : SubSeq(Append(s, x), 1, n) = SubSeq(s, 1, n)
    BY <1>1, <2>1
  <2>3. Len(Append(s, x)) = Len(s) + 1 /\ Len(s) \in Nat
    BY <1>1, <2>1
  <2>4. driver' = driver /\ backup' = backup /\ backup.mempool \in Seq(Txs)
    BY DEF Push, Inv, QueueTypes
  <2>5. Len(backup.mempool) \in Nat
    BY <2>4
  <2>6. QED
    BY <1>1, <2>1, <2>2, <2>3, <2>4, <2>5 DEF Inv, BackupIsPrefix
<1>4. InFlight' = InFlight \ {th} /\ th \in InFlight
  BY <1>1 DEF InFlight
<1>5. \A a : /\ InFlightOf(a)' = InFlightOf(a) \ {th}
             /\ th \in InFlightOf(a) <=> checked[th].from = a
             /\ InFlightOf(a) \subseteq InFlight
  BY <1>1, <1>4 DEF InFlightOf, InFlight
<1>6. /\ Cardinality(InFlight') = Cardinality(InFlight) - 1
      /\ Cardinality(InFlight) \in Nat /\ Cardinality(Threads) \in Nat
  BY <1>1, <1>4, Handlers
<1>7. Len(mempool') = Len(mempool) + 1 /\ Len(mempool) \in Nat
  BY <1>1
<1>8. Len(mempool') + Cardinality(InFlight') < MEMPOOL_MAX_TXS + Cardinality(Threads)
  BY <1>6, <1>7, MempoolConstants DEF Inv, MempoolBounded
<1>9. ASSUME NEW a \in Senders
      PROVE  Cardinality(of(mempool', a)) + Cardinality(InFlightOf(a)')
               < MEMPOOL_MAX_PER_SENDER + Cardinality(Threads)
  <2>1. PICK d : d = IF checked[th].from = a THEN 1 ELSE 0
    OBVIOUS
  <2>2. /\ Cardinality(of(mempool', a)) = Cardinality(of(mempool, a)) + d
        /\ Cardinality(of(mempool, a)) \in Nat
    BY <1>1, <2>1, AppendedOf
  <2>3. /\ Cardinality(InFlightOf(a)') = Cardinality(InFlightOf(a)) - d
        /\ Cardinality(InFlightOf(a)) \in Nat
    <3>1. PICK F : F = InFlightOf(a)
      OBVIOUS
    <3>2. F \subseteq InFlight
      BY <1>5, <3>1
    <3>3. /\ Cardinality(F \ {th}) = IF th \in F THEN Cardinality(F) - 1 ELSE Cardinality(F)
          /\ Cardinality(F) \in Nat
      BY <1>1, <3>2, Handlers
    <3>4. th \in F <=> checked[th].from = a
      BY <1>5, <3>1
    <3>5. InFlightOf(a)' = F \ {th}
      BY <1>5, <3>1
    <3>6. Cardinality(F \ {th}) = Cardinality(F) - d
      <4>1. PICK x : x = Cardinality(F)
        OBVIOUS
      <4>2. x \in Nat /\ x - 0 = x
        BY <3>3, <4>1
      <4>3. QED
        BY <2>1, <3>3, <3>4, <4>1, <4>2
    <3>7. QED
      BY <3>1, <3>3, <3>5, <3>6
  <2>4. Cardinality(of(mempool, a)) + Cardinality(InFlightOf(a))
          < MEMPOOL_MAX_PER_SENDER + Cardinality(Threads)
    BY DEF Inv, MempoolBounded
  <2>5. d \in Nat
    BY <2>1
  <2>6. QED
    BY <2>2, <2>3, <2>4, <2>5
<1>10. QED
  BY <1>2, <1>3, <1>8, <1>9 DEF Inv, MempoolBounded

\* The proposer takes everything.
LEMMA TakeKeeps ==
  ASSUME Inv, Take
  PROVE  Inv'
<1>1. mempool' = <<>> /\ UNCHANGED <<checked, backup>> /\ driver' = "Took"
  BY DEF Take
<1>2. QueueTypes'
  BY <1>1 DEF Inv, QueueTypes
<1>3. \A a : of(<<>>, a) = {}
  BY DEF of
<1>4. MempoolBounded'
  <2>1. <<>> \in Seq(Txs) /\ Len(<<>>) = 0 /\ mempool \in Seq(Txs) /\ Cardinality({}) = 0
    BY FS_EmptySet DEF Inv, QueueTypes
  <2>2. \A a : of(mempool, a) \subseteq DOMAIN mempool
    BY DEF of
  <2>3. \A a : Cardinality(of(mempool, a)) \in Nat
    BY <2>1, <2>2, Positions, FS_Subset, FS_CardinalityType
  <2>4. ASSUME NEW a PROVE Cardinality(of(<<>>, a)) <= Cardinality(of(mempool, a))
    <3>1. PICK x : x = Cardinality(of(mempool, a))
      OBVIOUS
    <3>2. x \in Nat
      BY <2>3, <3>1
    <3>3. Cardinality(of(<<>>, a)) = 0
      BY <1>3, <2>1
    <3>4. 0 <= x
      BY <3>2
    <3>5. QED
      BY <3>1, <3>3, <3>4
  <2>5. Len(<<>>) <= Len(mempool)
    BY <2>1
  <2>6. QED
    BY <1>1, <2>1, <2>4, <2>5, Smaller
<1>5. QED
  BY <1>1, <1>2, <1>4 DEF Inv, BackupIsPrefix

\* The rollback puts the copy back, which is a prefix of what it replaces.
LEMMA RejectKeeps ==
  ASSUME Inv, Reject
  PROVE  Inv'
<1>1. /\ mempool' = backup.mempool /\ UNCHANGED checked /\ driver = "Tried"
      /\ driver' = "Idle" /\ backup' = noBackup
  BY DEF Reject
<1>2. /\ mempool \in Seq(Txs) /\ backup.mempool \in Seq(Txs)
      /\ Len(backup.mempool) <= Len(mempool)
      /\ backup.mempool = SubSeq(mempool, 1, Len(backup.mempool))
  BY <1>1 DEF Inv, QueueTypes, BackupIsPrefix
<1>3. \A a : Cardinality(of(backup.mempool, a)) <= Cardinality(of(mempool, a))
  BY <1>2, PrefixOf
<1>4. MempoolBounded'
  BY <1>1, <1>2, <1>3, Smaller
<1>5. QueueTypes'
  BY <1>1, <1>2 DEF Inv, QueueTypes, noBackup
<1>6. QED
  BY <1>1, <1>4, <1>5 DEF Inv, BackupIsPrefix

\* Pruning keeps a part of the mempool.
LEMMA AcceptKeeps ==
  ASSUME Inv, Accept
  PROVE  Inv'
<1>1. PICK K : /\ K \subseteq DOMAIN mempool
               /\ mempool' = retain(mempool, K)
  BY DEF Accept
<1>2. UNCHANGED checked /\ driver' = "Idle" /\ backup' = noBackup
  BY DEF Accept
<1>3. mempool \in Seq(Txs)
  BY DEF Inv, QueueTypes
<1>4. PICK q : q = retain(mempool, K)
  OBVIOUS
<1>5. /\ q \in Seq(Txs) /\ Len(q) <= Len(mempool)
      /\ \A a : Cardinality(of(q, a)) <= Cardinality(of(mempool, a))
  BY <1>1, <1>3, <1>4, Retained
<1>6. MempoolBounded'
  BY <1>1, <1>2, <1>4, <1>5, Smaller
<1>7. QueueTypes'
  BY <1>1, <1>2, <1>4, <1>5 DEF Inv, QueueTypes, noBackup
<1>8. QED
  BY <1>2, <1>6, <1>7 DEF Inv, BackupIsPrefix

LEMMA NextKeeps ==
  ASSUME Inv, [Next]_vars
  PROVE  Inv'
<1>1. ASSUME UNCHANGED <<mempool, checked, backup>>, driver' = driver
             \/ (driver = "Took" /\ driver' = "Idle")
             \/ (driver = "Backed" /\ driver' = "Tried")
      PROVE  Inv'
  BY <1>1 DEF Inv, QueueTypes, MempoolBounded, InFlight, InFlightOf, BackupIsPrefix
<1>2. ASSUME NEW th \in Threads, NEW tx \in Txs, Check(th, tx) PROVE Inv'
  BY <1>2, CheckKeeps
<1>3. ASSUME NEW th \in Threads, Push(th) PROVE Inv'
  BY <1>3, PushKeeps
<1>4. CASE Take
  BY <1>4, TakeKeeps
<1>5. CASE Produce
  BY <1>1, <1>5 DEF Produce
<1>6. ASSUME NEW list \in WireBlocks, BackUp(list) PROVE Inv'
  <2>1. /\ UNCHANGED <<mempool, checked>> /\ backup'.mempool = mempool
        /\ mempool \in Seq(Txs)
    BY <1>6 DEF BackUp, Inv, QueueTypes
  <2>2. QueueTypes' /\ MempoolBounded'
    BY <2>1 DEF Inv, QueueTypes, MempoolBounded, InFlight, InFlightOf
  <2>3. Len(mempool) <= Len(mempool) /\ mempool = SubSeq(mempool, 1, Len(mempool))
    BY <2>1
  <2>4. QED
    BY <2>1, <2>2, <2>3 DEF Inv, BackupIsPrefix
<1>7. CASE TryBlock
  BY <1>1, <1>7 DEF TryBlock
<1>8. CASE Reject
  BY <1>8, RejectKeeps
<1>9. CASE Accept
  BY <1>9, AcceptKeeps
<1>10. CASE UNCHANGED vars
  BY <1>1, <1>10 DEF vars
<1>11. QED
  BY <1>2, <1>3, <1>4, <1>5, <1>6, <1>7, <1>8, <1>9, <1>10 DEF Next

LEMMA SpecInv == Spec => []Inv
<1>1. Init => Inv
  BY InitInv
<1>2. Inv /\ [Next]_vars => Inv'
  BY NextKeeps
<1>3. QED
  BY <1>1, <1>2, PTL DEF Spec

\* SEC-M5A-3: however handlers interleave with the driver, and whatever blocks are tried,
\* kept or rolled back, the mempool outgrows the global cap and the cap of a sender by
\* fewer transactions than there are handlers: for any caps, senders and number of
\* handlers.
THEOREM OvershootIsBounded == Spec => []MempoolBounded
<1>1. Inv => MempoolBounded
  BY DEF Inv
<1>2. QED
  BY <1>1, SpecInv, PTL

\* validate_and_apply_block: between the copy and the decision nothing leaves the mempool,
\* so a rollback can lose what was submitted meanwhile but resurrects nothing.
THEOREM RollbackResurrectsNothing == Spec => []BackupIsPrefix
<1>1. Inv => BackupIsPrefix
  BY DEF Inv
<1>2. QED
  BY <1>1, SpecInv, PTL

(***************************************************************************)
(* The lookups (TxIndex).  Chains, their prefixes and what they hold.      *)
(***************************************************************************)
\* The hashes the k-th block of a chain is recorded under.
HashesAt(c, k) == hashes_of(SubSeq(c, 1, k - 1), c[k])

\* A prefix of a chain is a chain.
LEMMA ChainPrefix ==
  ASSUME NEW c \in Seq(Contents), NEW n \in 0..Len(c)
  PROVE  /\ SubSeq(c, 1, n) \in Seq(Contents) /\ Len(SubSeq(c, 1, n)) = n
         /\ DOMAIN SubSeq(c, 1, n) = 1..n
         /\ \A i \in 1..n : SubSeq(c, 1, n)[i] = c[i]
<1>1. n \in Nat /\ n \in Int /\ 1 \in Int /\ \A i \in 1..n : c[i] \in Contents
  OBVIOUS
<1>2. /\ SubSeq(c, 1, n) \in Seq(Contents)
      /\ Len(SubSeq(c, 1, n)) = IF 1 <= n THEN n - 1 + 1 ELSE 0
      /\ \A i \in 1 .. n - 1 + 1 : SubSeq(c, 1, n)[i] = c[1 + i - 1]
  BY <1>1, SubSeqProperties
<1>3. PICK p : p = SubSeq(c, 1, n)
  OBVIOUS
<1>4. p \in Seq(Contents) /\ Len(p) = n /\ DOMAIN p = 1..n
  BY <1>1, <1>2, <1>3
<1>5. \A i \in 1..n : p[i] = c[i]
  <2>1. \A i \in 1..n : i \in 1 .. n - 1 + 1 /\ 1 + i - 1 = i
    BY <1>1
  <2>2. QED
    BY <1>2, <1>3, <2>1
<1>6. QED
  BY <1>3, <1>4, <1>5

\* Chains that agree up to n have the same prefixes up to n.
LEMMA SamePrefix ==
  ASSUME NEW c \in Seq(Contents), NEW d \in Seq(Contents), NEW n \in 0..Len(c), n <= Len(d),
         \A i \in 1..n : c[i] = d[i]
  PROVE  /\ \A k \in 0..n : SubSeq(c, 1, k) = SubSeq(d, 1, k)
         /\ \A k \in 1..n : HashesAt(c, k) = HashesAt(d, k)
<1>1. ASSUME NEW k \in 0..n PROVE SubSeq(c, 1, k) = SubSeq(d, 1, k)
  <2>1. k \in 0..Len(c) /\ k \in 0..Len(d) /\ \A i \in 1..k : i \in 1..n
    OBVIOUS
  <2>2. PICK p, q : p = SubSeq(c, 1, k) /\ q = SubSeq(d, 1, k)
    OBVIOUS
  <2>3. /\ p \in Seq(Contents) /\ Len(p) = k /\ \A i \in 1..k : p[i] = c[i]
        /\ q \in Seq(Contents) /\ Len(q) = k /\ \A i \in 1..k : q[i] = d[i]
    BY <2>1, <2>2, ChainPrefix
  <2>4. \A i \in 1..Len(p) : p[i] = q[i]
    BY <2>1, <2>3
  <2>5. p = q
    BY <2>3, <2>4, SeqEqual
  <2>6. QED
    BY <2>2, <2>5
<1>2. ASSUME NEW k \in 1..n PROVE HashesAt(c, k) = HashesAt(d, k)
  <2>1. k - 1 \in 0..n
    OBVIOUS
  <2>2. SubSeq(c, 1, k - 1) = SubSeq(d, 1, k - 1) /\ c[k] = d[k]
    BY <1>1, <2>1
  <2>3. QED
    BY <2>2 DEF HashesAt
<1>3. QED
  BY <1>1, <1>2

\* What a chain holds, block by block.
LEMMA MinedIs ==
  ASSUME NEW c
  PROVE  \A h : h \in mined(c) <=> \E k \in DOMAIN c : h \in HashesAt(c, k)
BY DEF mined, HashesAt

\* What a prefix holds.
LEMMA MinedOfPrefix ==
  ASSUME NEW c \in Seq(Contents), NEW n \in 0..Len(c)
  PROVE  /\ \A h : h \in mined(SubSeq(c, 1, n)) <=> \E k \in 1..n : h \in HashesAt(c, k)
         /\ \A k \in 0..n : SubSeq(SubSeq(c, 1, n), 1, k) = SubSeq(c, 1, k)
         /\ \A k \in 1..n : HashesAt(SubSeq(c, 1, n), k) = HashesAt(c, k)
<1>1. PICK p : p = SubSeq(c, 1, n)
  OBVIOUS
<1>2. p \in Seq(Contents) /\ Len(p) = n /\ DOMAIN p = 1..n /\ \A i \in 1..n : p[i] = c[i]
  BY <1>1, ChainPrefix
<1>3. n \in 0..Len(p) /\ n <= Len(c)
  BY <1>2
<1>4. /\ \A k \in 0..n : SubSeq(p, 1, k) = SubSeq(c, 1, k)
      /\ \A k \in 1..n : HashesAt(p, k) = HashesAt(c, k)
  BY <1>2, <1>3, SamePrefix
<1>5. \A h : h \in mined(p) <=> \E k \in 1..n : h \in HashesAt(c, k)
  BY <1>2, <1>4, MinedIs
<1>6. QED
  BY <1>1, <1>4, <1>5

\* A chain one block longer.
LEMMA OneMore ==
  ASSUME NEW c \in Seq(Contents), NEW b \in Contents
  PROVE  /\ Append(c, b) \in Seq(Contents) /\ Len(Append(c, b)) = Len(c) + 1
         /\ DOMAIN Append(c, b) = 1..(Len(c) + 1)
         /\ \A k \in 0..Len(c) : SubSeq(Append(c, b), 1, k) = SubSeq(c, 1, k)
         /\ SubSeq(Append(c, b), 1, Len(c) + 1) = Append(c, b)
         /\ \A k \in 1..Len(c) : HashesAt(Append(c, b), k) = HashesAt(c, k)
         /\ HashesAt(Append(c, b), Len(c) + 1) = hashes_of(c, b)
<1>1. PICK d, n : d = Append(c, b) /\ n = Len(c)
  OBVIOUS
<1>2. /\ d \in Seq(Contents) /\ Len(d) = n + 1 /\ n \in Nat /\ DOMAIN d = 1..(n + 1)
      /\ d[n + 1] = b /\ \A i \in 1..n : d[i] = c[i]
  BY <1>1
<1>3. n \in 0..Len(d) /\ n <= Len(c)
  BY <1>1, <1>2
<1>4. /\ \A k \in 0..n : SubSeq(d, 1, k) = SubSeq(c, 1, k)
      /\ \A k \in 1..n : HashesAt(d, k) = HashesAt(c, k)
  BY <1>1, <1>2, <1>3, SamePrefix
<1>5. SubSeq(d, 1, n + 1) = d /\ SubSeq(c, 1, n) = c
  BY <1>1, <1>2, SubSeqFull
<1>6. HashesAt(d, n + 1) = hashes_of(c, b)
  <2>1. n + 1 - 1 = n /\ n \in 0..n
    BY <1>2
  <2>2. PICK k : k = n + 1
    OBVIOUS
  <2>3. SubSeq(d, 1, k - 1) = c /\ d[k] = b
    BY <1>2, <1>4, <1>5, <2>1, <2>2
  <2>4. HashesAt(d, k) = hashes_of(c, b)
    BY <2>3, Zenon DEF HashesAt
  <2>5. QED
    BY <2>2, <2>4
<1>7. QED
  BY <1>1, <1>2, <1>4, <1>5, <1>6

(***************************************************************************)
(* Storing a block, cutting a chain.                                       *)
(***************************************************************************)
\* Block k is the last of the chain with the hash.
LastAt(c, k, h) ==
  /\ h \in HashesAt(c, k)
  /\ \A j \in DOMAIN c : j > k => h \notin HashesAt(c, j)

\* The two maps answer from the chain, and miss nothing but hashes of rep.
Canonical(g, rep) ==
  /\ \A h \in DOMAIN g.txs :
       \E k \in DOMAIN g.blocks : LastAt(g.blocks, k, h) /\ g.txs[h] = SubSeq(g.blocks, 1, k)
  /\ \A h \in mined(g.blocks) : h \in DOMAIN g.txs \/ h \in rep
  /\ DOMAIN g.by_hash = {SubSeq(g.blocks, 1, k) : k \in DOMAIN g.blocks}
  /\ \A k \in DOMAIN g.blocks : g.by_hash[SubSeq(g.blocks, 1, k)] = k

\* Storing a block moves its hashes to it.
LEMMA StoreKeeps ==
  ASSUME NEW g, NEW rep, Canonical(g, rep), g.blocks \in Seq(Contents), NEW b \in Contents,
         NEW fresh
  PROVE  /\ Canonical(store_block(g, b, fresh), rep)
         /\ store_block(g, b, fresh).blocks = Append(g.blocks, b)
<1> DEFINE c == g.blocks
           d == Append(c, b)
           new == hashes_of(c, b)
           r == store_block(g, b, fresh)
           n == Len(c)
<1>1. /\ r.blocks = d
      /\ r.txs = [h \in DOMAIN g.txs \cup new |-> IF h \in new THEN d ELSE g.txs[h]]
      /\ r.by_hash = [p \in DOMAIN g.by_hash \cup {d} |-> IF p = d THEN Len(d) ELSE g.by_hash[p]]
  BY DEF store_block
<1>2. /\ d \in Seq(Contents) /\ Len(d) = n + 1 /\ DOMAIN d = 1..(n + 1)
      /\ \A k \in 0..n : SubSeq(d, 1, k) = SubSeq(c, 1, k)
      /\ SubSeq(d, 1, n + 1) = d
      /\ \A k \in 1..n : HashesAt(d, k) = HashesAt(c, k)
      /\ HashesAt(d, n + 1) = new
  BY OneMore
<1>3. n \in Nat /\ DOMAIN c = 1..n /\ \A k \in 1..(n + 1) : k \in 1..n \/ k = n + 1
  OBVIOUS
<1>4. \A h : h \in mined(c) <=> \E k \in 1..n : h \in HashesAt(c, k)
  BY <1>3, MinedIs
<1>5. \A h : h \in mined(d) <=> h \in mined(c) \/ h \in new
  <2>1. \A h : h \in mined(d) <=> \E k \in 1..(n + 1) : h \in HashesAt(d, k)
    BY <1>2, MinedIs
  <2>2. 1..n \subseteq 1..(n + 1) /\ n + 1 \in 1..(n + 1)
    BY <1>3
  <2> HIDE DEF c, d, new, r, n
  <2>3. QED
    BY <1>2, <1>3, <1>4, <2>1, <2>2
<1>6. /\ \A h \in DOMAIN g.txs : \E k \in 1..n : LastAt(c, k, h) /\ g.txs[h] = SubSeq(c, 1, k)
      /\ \A h \in mined(c) : h \in DOMAIN g.txs \/ h \in rep
      /\ DOMAIN g.by_hash = {SubSeq(c, 1, k) : k \in 1..n}
      /\ \A k \in 1..n : g.by_hash[SubSeq(c, 1, k)] = k
  BY <1>3 DEF Canonical
<1>7. DOMAIN r.txs = DOMAIN g.txs \cup new
  BY <1>1
<1>8. \A k \in 1..n : SubSeq(c, 1, k) # d
  BY <1>2, <1>3, ChainPrefix
<1>9. \A k \in 1..n : SubSeq(d, 1, k) = SubSeq(c, 1, k)
  BY <1>2, <1>3
<1> HIDE DEF c, d, new, r, n
<1>10. \A h \in mined(d) : h \in DOMAIN r.txs \/ h \in rep
  BY <1>5, <1>6, <1>7
<1>11. ASSUME NEW h \in DOMAIN r.txs
       PROVE  \E k \in 1..(n + 1) : LastAt(d, k, h) /\ r.txs[h] = SubSeq(d, 1, k)
  <2>1. CASE h \in new
    <3>1. r.txs[h] = d
      BY <1>1, <2>1
    <3>2. PICK k : k = n + 1
      OBVIOUS
    <3>3. k \in 1..(n + 1) /\ SubSeq(d, 1, k) = d /\ h \in HashesAt(d, k)
      BY <1>2, <1>3, <2>1, <3>2
    <3>4. \A j \in DOMAIN d : ~(j > k)
      BY <1>2, <1>3, <3>2
    <3>5. LastAt(d, k, h)
      BY <3>3, <3>4 DEF LastAt
    <3>6. QED
      BY <3>1, <3>3, <3>5
  <2>2. CASE h \notin new
    <3>1. h \in DOMAIN g.txs /\ r.txs[h] = g.txs[h]
      BY <1>1, <1>7, <2>2
    <3>2. PICK k \in 1..n : LastAt(c, k, h) /\ g.txs[h] = SubSeq(c, 1, k)
      BY <1>6, <3>1
    <3>3. k \in 1..(n + 1) /\ SubSeq(d, 1, k) = SubSeq(c, 1, k)
      BY <1>3, <1>9
    <3>4. h \in HashesAt(d, k)
      BY <1>2, <3>2 DEF LastAt
    <3>5. ASSUME NEW j \in DOMAIN d, j > k PROVE h \notin HashesAt(d, j)
      <4>1. j \in 1..n \/ j = n + 1
        BY <1>2, <1>3
      <4>2. CASE j \in 1..n
        BY <1>2, <1>3, <3>2, <3>5, <4>2 DEF LastAt
      <4>3. CASE j = n + 1
        BY <1>2, <2>2, <4>3
      <4>4. QED
        BY <4>1, <4>2, <4>3
    <3>6. LastAt(d, k, h)
      BY <3>4, <3>5 DEF LastAt
    <3>7. QED
      BY <3>1, <3>2, <3>3, <3>6
  <2>3. QED
    BY <2>1, <2>2
<1>12. DOMAIN r.by_hash = {SubSeq(d, 1, k) : k \in 1..(n + 1)}
  <2>1. 1..n \subseteq 1..(n + 1) /\ n + 1 \in 1..(n + 1)
    BY <1>3
  <2>2. DOMAIN r.by_hash = {SubSeq(c, 1, k) : k \in 1..n} \cup {d}
    BY <1>1, <1>6
  <2>3. QED
    BY <1>2, <1>3, <1>9, <2>1, <2>2
<1>13. ASSUME NEW k \in 1..(n + 1) PROVE r.by_hash[SubSeq(d, 1, k)] = k
  <2>1. CASE k \in 1..n
    <3>1. SubSeq(d, 1, k) # d /\ SubSeq(d, 1, k) \in DOMAIN g.by_hash
      BY <1>6, <1>8, <1>9, <2>1
    <3>2. r.by_hash[SubSeq(d, 1, k)] = g.by_hash[SubSeq(c, 1, k)]
      BY <1>1, <1>9, <2>1, <3>1
    <3>3. QED
      BY <1>6, <2>1, <3>2
  <2>2. CASE k = n + 1
    BY <1>1, <1>2, <2>2
  <2>3. QED
    BY <1>3, <2>1, <2>2
<1>14. Canonical(r, rep)
  <2>1. r.blocks = d /\ DOMAIN d = 1..(n + 1)
    BY <1>1, <1>2
  <2>2. \A h \in mined(r.blocks) : h \in DOMAIN r.txs \/ h \in rep
    BY <1>10, <2>1
  <2>3. \A h \in DOMAIN r.txs :
          \E k \in DOMAIN r.blocks : LastAt(r.blocks, k, h) /\ r.txs[h] = SubSeq(r.blocks, 1, k)
    BY <1>11, <2>1
  <2>4. DOMAIN r.by_hash = {SubSeq(r.blocks, 1, k) : k \in DOMAIN r.blocks}
    BY <1>12, <2>1
  <2>5. \A k \in DOMAIN r.blocks : r.by_hash[SubSeq(r.blocks, 1, k)] = k
    BY <1>13, <2>1
  <2>6. QED
    BY <2>2, <2>3, <2>4, <2>5, Zenon DEF Canonical
<1>15. QED
  BY <1>1, <1>14 DEF c, d, r

\* What two blocks of a chain hold.
LEMMA RepeatsIs ==
  ASSUME NEW c \in Seq(Contents), NEW j \in DOMAIN c, NEW k \in DOMAIN c, j < k,
         NEW h, h \in HashesAt(c, j), h \in HashesAt(c, k)
  PROVE  h \in repeats(c)
<1>1. k - 1 \in 0..Len(c) /\ j \in 1..(k - 1)
  OBVIOUS
<1>2. h \in mined(SubSeq(c, 1, k - 1))
  BY <1>1, MinedOfPrefix
<1>3. QED
  BY <1>2 DEF repeats, HashesAt

\* Cutting a chain drops, of what the kept blocks hold, only what a displaced one held too.
LEMMA CutKeeps ==
  ASSUME NEW g, NEW rep, Canonical(g, rep), g.blocks \in Seq(Contents),
         repeats(g.blocks) \subseteq rep, NEW ca \in 0..Len(g.blocks)
  PROVE  Canonical(cut(g, ca), rep) /\ cut(g, ca).blocks = SubSeq(g.blocks, 1, ca)
<1> DEFINE c == g.blocks
           p == SubSeq(c, 1, ca)
           gone == UNION {HashesAt(c, k) : k \in (ca + 1)..Len(c)}
           r == cut(g, ca)
<1>1. /\ r.blocks = p
      /\ r.txs = [h \in DOMAIN g.txs \ gone |-> g.txs[h]]
      /\ r.by_hash = [q \in {x \in DOMAIN g.by_hash : Len(x) <= ca} |-> g.by_hash[q]]
  BY DEF cut, HashesAt
<1>2. /\ DOMAIN p = 1..ca
      /\ \A h : h \in mined(p) <=> \E k \in 1..ca : h \in HashesAt(c, k)
      /\ \A k \in 1..ca : SubSeq(p, 1, k) = SubSeq(c, 1, k)
      /\ \A k \in 1..ca : HashesAt(p, k) = HashesAt(c, k)
  <2>1. DOMAIN p = 1..ca
    BY ChainPrefix
  <2>2. /\ \A h : h \in mined(p) <=> \E k \in 1..ca : h \in HashesAt(c, k)
        /\ \A k \in 0..ca : SubSeq(p, 1, k) = SubSeq(c, 1, k)
        /\ \A k \in 1..ca : HashesAt(p, k) = HashesAt(c, k)
    BY MinedOfPrefix
  <2>3. 1..ca \subseteq 0..ca
    OBVIOUS
  <2> HIDE DEF p
  <2>4. QED
    BY <2>1, <2>2, <2>3
<1>3. DOMAIN c = 1..Len(c) /\ Len(c) \in Nat /\ ca \in Nat /\ ca <= Len(c)
  OBVIOUS
<1>4. /\ \A h \in DOMAIN g.txs :
           \E k \in 1..Len(c) : LastAt(c, k, h) /\ g.txs[h] = SubSeq(c, 1, k)
      /\ \A h \in mined(c) : h \in DOMAIN g.txs \/ h \in rep
      /\ DOMAIN g.by_hash = {SubSeq(c, 1, k) : k \in 1..Len(c)}
      /\ \A k \in 1..Len(c) : g.by_hash[SubSeq(c, 1, k)] = k
  BY <1>3 DEF Canonical
<1>5. \A h : h \in mined(c) <=> \E k \in 1..Len(c) : h \in HashesAt(c, k)
  BY <1>3, MinedIs
<1>6. ASSUME NEW j \in 1..ca, NEW k \in (ca + 1)..Len(c), NEW h,
             h \in HashesAt(c, j), h \in HashesAt(c, k)
      PROVE  h \in rep
  <2>1. j \in DOMAIN c /\ k \in DOMAIN c /\ j < k
    BY <1>3
  <2>2. h \in repeats(c)
    BY <1>6, <2>1, RepeatsIs
  <2>3. QED
    BY <2>2
<1>7. \A k \in 1..Len(c) : Len(SubSeq(c, 1, k)) = k
  BY <1>3, ChainPrefix
<1>8. 1..ca \subseteq 1..Len(c) /\ \A k \in 1..Len(c) : k \in 1..ca <=> k <= ca
  BY <1>3
<1>9. \A k \in 1..Len(c) : k \in 1..ca \/ k \in (ca + 1)..Len(c)
  BY <1>3
<1>10. (ca + 1)..Len(c) \subseteq 1..Len(c)
  BY <1>3
<1> HIDE DEF c, p, r
<1>11. \A h : h \in gone <=> \E k \in (ca + 1)..Len(c) : h \in HashesAt(c, k)
  BY DEF gone
<1> HIDE DEF gone
<1>12. ASSUME NEW h \in mined(p) PROVE h \in DOMAIN r.txs \/ h \in rep
  <2>1. PICK j \in 1..ca : h \in HashesAt(c, j)
    BY <1>2
  <2>2. h \in DOMAIN g.txs \/ h \in rep
    BY <1>4, <1>5, <1>8, <2>1
  <2>3. h \in gone => h \in rep
    BY <1>6, <1>11, <2>1
  <2>4. QED
    BY <1>1, <2>2, <2>3
<1>13. ASSUME NEW h \in DOMAIN r.txs
       PROVE  \E k \in 1..ca : LastAt(p, k, h) /\ r.txs[h] = SubSeq(p, 1, k)
  <2>1. h \in DOMAIN g.txs /\ h \notin gone /\ r.txs[h] = g.txs[h]
    BY <1>1
  <2>2. PICK k \in 1..Len(c) : LastAt(c, k, h) /\ g.txs[h] = SubSeq(c, 1, k)
    BY <1>4, <2>1
  <2>3. k \in 1..ca
    BY <1>9, <1>11, <2>1, <2>2 DEF LastAt
  <2>4. h \in HashesAt(p, k) /\ SubSeq(p, 1, k) = SubSeq(c, 1, k)
    BY <1>2, <2>2, <2>3 DEF LastAt
  <2>5. ASSUME NEW j \in DOMAIN p, j > k PROVE h \notin HashesAt(p, j)
    BY <1>2, <1>3, <1>8, <2>2, <2>5 DEF LastAt
  <2>6. LastAt(p, k, h)
    BY <2>4, <2>5 DEF LastAt
  <2>7. QED
    BY <2>1, <2>2, <2>3, <2>4, <2>6
<1>14. DOMAIN r.by_hash = {SubSeq(p, 1, k) : k \in 1..ca}
  <2>1. \A q : q \in DOMAIN r.by_hash <=> q \in DOMAIN g.by_hash /\ Len(q) <= ca
    BY <1>1
  <2>2. \A q : q \in DOMAIN g.by_hash <=> \E k \in 1..Len(c) : q = SubSeq(c, 1, k)
    BY <1>4
  <2>3. ASSUME NEW q, q \in DOMAIN r.by_hash PROVE \E k \in 1..ca : q = SubSeq(p, 1, k)
    <3>1. PICK k \in 1..Len(c) : q = SubSeq(c, 1, k)
      BY <2>1, <2>2, <2>3
    <3>2. k \in 1..ca
      BY <1>7, <1>8, <2>1, <2>3, <3>1
    <3>3. QED
      BY <1>2, <3>1, <3>2
  <2>4. ASSUME NEW k \in 1..ca PROVE SubSeq(p, 1, k) \in DOMAIN r.by_hash
    <3>1. SubSeq(p, 1, k) = SubSeq(c, 1, k) /\ k \in 1..Len(c) /\ k <= ca
      BY <1>2, <1>8
    <3>2. QED
      BY <1>7, <2>1, <2>2, <3>1
  <2>5. QED
    BY <2>3, <2>4
<1>15. ASSUME NEW k \in 1..ca PROVE r.by_hash[SubSeq(p, 1, k)] = k
  <2>1. SubSeq(p, 1, k) = SubSeq(c, 1, k) /\ k \in 1..Len(c) /\ k <= ca
    BY <1>2, <1>8
  <2>2. r.by_hash[SubSeq(c, 1, k)] = g.by_hash[SubSeq(c, 1, k)]
    BY <1>1, <1>4, <1>7, <2>1
  <2>3. QED
    BY <1>4, <2>1, <2>2
<1>16. Canonical(r, rep)
  <2>1. r.blocks = p /\ DOMAIN p = 1..ca
    BY <1>1, <1>2
  <2>2. \A h \in mined(r.blocks) : h \in DOMAIN r.txs \/ h \in rep
    BY <1>12, <2>1
  <2>3. \A h \in DOMAIN r.txs :
          \E k \in DOMAIN r.blocks : LastAt(r.blocks, k, h) /\ r.txs[h] = SubSeq(r.blocks, 1, k)
    BY <1>13, <2>1
  <2>4. DOMAIN r.by_hash = {SubSeq(r.blocks, 1, k) : k \in DOMAIN r.blocks}
    BY <1>14, <2>1
  <2>5. \A k \in DOMAIN r.blocks : r.by_hash[SubSeq(r.blocks, 1, k)] = k
    BY <1>15, <2>1
  <2>6. QED
    BY <2>2, <2>3, <2>4, <2>5, Zenon DEF Canonical
<1>17. QED
  BY <1>1, <1>16 DEF c, p, r
(***************************************************************************)
(* Storing a list of blocks, one after the other: the fold is unfolded     *)
(* into the run of states it goes through.                                 *)
(***************************************************************************)
LEMMA MaxOfUpTo ==
  ASSUME NEW k \in Nat, NEW s \in SUBSET (1..k), k \in s
  PROVE  Max(s) = k
<1>1. \A y \in s : y \in Nat /\ k >= y
  OBVIOUS
<1>2. \A x \in s : (\A y \in s : x >= y) => x = k
  BY <1>1
<1>3. \E x \in s : \A y \in s : x >= y
  BY <1>1
<1>4. Max(s) \in s /\ \A y \in s : Max(s) >= y
  BY <1>3, Zenon DEF Max
<1>5. QED
  BY <1>2, <1>4

IsStoreRun(run, g, list, n, fresh) ==
  /\ run[0] = g
  /\ \A k \in 1..n : run[k] = store_block(run[k - 1], list[k], fresh)
  /\ store_blocks(g, list, fresh) = run[n]

LEMMA StoreRun ==
  ASSUME NEW g, NEW fresh, NEW n \in Nat, NEW list, DOMAIN list = 1..n
  PROVE  \E run : IsStoreRun(run, g, list, n, fresh)
<1> DEFINE Step(st, k) == store_block(st, list[k], fresh)
           Fix(f, k) == f = [s \in SUBSET (1..k) |->
                               IF s = {} THEN g ELSE Step(f[s \ {Max(s)}], Max(s))]
           Some(k) == \E f : Fix(f, k)
           G == CHOOSE f : Fix(f, n)
<1>1. store_blocks(g, list, fresh) = G[1..n]
  BY Zenon DEF store_blocks, FoldLeft, MapThenFoldSet
<1> HIDE DEF Step, G
<1>2. Some(0)
  <2>1. PICK f : f = [s \in SUBSET (1..0) |-> g]
    OBVIOUS
  <2>2. \A s \in SUBSET (1..0) : s = {}
    OBVIOUS
  <2>3. Fix(f, 0)
    BY <2>1, <2>2
  <2>4. QED
    BY <2>3
<1>3. ASSUME NEW k \in Nat \ {0}, Some(k - 1) PROVE Some(k)
  <2>1. PICK f : Fix(f, k - 1)
    BY <1>3
  <2>2. PICK h : h = [s \in SUBSET (1..k) |->
                        IF k \in s THEN Step(f[s \ {k}], k) ELSE f[s]]
    OBVIOUS
  <2>3. \A s \in SUBSET (1..k) : k \notin s => s \in SUBSET (1..(k - 1))
    OBVIOUS
  <2>4. \A s \in SUBSET (1..(k - 1)) : s \in SUBSET (1..k) /\ k \notin s
    OBVIOUS
  <2>5. \A s \in SUBSET (1..(k - 1)) : h[s] = f[s]
    BY <2>2, <2>4
  <2>6. ASSUME NEW s \in SUBSET (1..k)
        PROVE  h[s] = IF s = {} THEN g ELSE Step(h[s \ {Max(s)}], Max(s))
    <3>1. CASE k \in s
      <4>1. Max(s) = k
        BY <3>1, MaxOfUpTo
      <4>2. s \ {k} \in SUBSET (1..(k - 1))
        BY <2>3
      <4>3. h[s \ {k}] = f[s \ {k}]
        BY <2>5, <4>2
      <4>4. QED
        BY <2>2, <3>1, <4>1, <4>3
    <3>2. CASE k \notin s
      <4>1. s \in SUBSET (1..(k - 1)) /\ s \ {Max(s)} \in SUBSET (1..(k - 1))
        BY <2>3, <3>2
      <4>2. h[s] = f[s] /\ h[s \ {Max(s)}] = f[s \ {Max(s)}]
        BY <2>5, <4>1
      <4>3. f[s] = IF s = {} THEN g ELSE Step(f[s \ {Max(s)}], Max(s))
        BY <2>1, <4>1
      <4>4. QED
        BY <4>2, <4>3
    <3>3. QED
      BY <3>1, <3>2
  <2>7. Fix(h, k)
    BY <2>2, <2>6
  <2>8. QED
    BY <2>7
<1>4. Some(n)
  <2> DEFINE bad == {k \in Nat : ~Some(k)}
  <2>1. SUFFICES ASSUME bad # {} PROVE FALSE
    OBVIOUS
  <2>2. PICK k \in bad : \A y \in bad : k <= y
    BY <2>1, LeastNat
  <2>3. k \in Nat \ {0}
    BY <1>2, <2>2
  <2>4. k - 1 \in Nat /\ ~(k <= k - 1)
    BY <2>3
  <2>5. Some(k - 1)
    BY <2>2, <2>4
  <2>6. QED
    BY <1>3, <2>2, <2>3, <2>5
<1>5. Fix(G, n)
  BY <1>4, Zenon DEF G
<1>6. PICK run : run = [k \in 0..n |-> G[1..k]]
  OBVIOUS
<1>7. run[0] = g
  <2>1. 1..0 = {} /\ {} \in SUBSET (1..n)
    OBVIOUS
  <2>2. G[{}] = g
    BY <1>5, <2>1
  <2>3. QED
    BY <1>6, <2>1, <2>2
<1>8. ASSUME NEW k \in 1..n PROVE run[k] = Step(run[k - 1], k)
  <2>1. 1..k \in SUBSET (1..n) /\ 1..k # {} /\ k \in Nat /\ k \in 1..k
    OBVIOUS
  <2>2. Max(1..k) = k
    BY <2>1, MaxOfUpTo
  <2>3. (1..k) \ {k} = 1..(k - 1)
    BY <2>1
  <2>4. G[1..k] = Step(G[1..(k - 1)], k)
    BY <1>5, <2>1, <2>2, <2>3
  <2>5. QED
    BY <1>6, <2>4
<1>9. run[n] = G[1..n]
  BY <1>6
<1>10. QED
  BY <1>1, <1>7, <1>8, <1>9 DEF Step, IsStoreRun

LEMMA StoreBlocksKeep ==
  ASSUME NEW g, NEW rep, Canonical(g, rep), g.blocks \in Seq(Contents),
         NEW list \in Seq(Contents), NEW fresh
  PROVE  LET r == store_blocks(g, list, fresh)
         IN Canonical(r, rep) /\ r.blocks = g.blocks \o list
<1> DEFINE n == Len(list)
           past(k) == g.blocks \o SubSeq(list, 1, k)
<1>1. n \in Nat /\ DOMAIN list = 1..n
  OBVIOUS
<1>2. PICK run : IsStoreRun(run, g, list, n, fresh)
  BY <1>1, StoreRun
<1> DEFINE Fine(k) == Canonical(run[k], rep) /\ run[k].blocks = past(k)
<1>3. past(0) = g.blocks /\ past(n) = g.blocks \o list
  <2>1. SubSeq(list, 1, 0) = <<>> /\ SubSeq(list, 1, n) = list
    BY SubSeqEmpty, SubSeqFull
  <2>2. g.blocks \o <<>> = g.blocks
    BY ConcatEmptySeq
  <2>3. QED
    BY <2>1, <2>2
<1>4. \A k \in 1..n : past(k - 1) \in Seq(Contents) /\ past(k) = Append(past(k - 1), list[k])
  <2>1. SUFFICES ASSUME NEW k \in 1..n
                 PROVE  past(k - 1) \in Seq(Contents) /\ past(k) = Append(past(k - 1), list[k])
    OBVIOUS
  <2>2. PICK p, q, c : p = SubSeq(list, 1, k - 1) /\ q = SubSeq(list, 1, k) /\ c = g.blocks
    OBVIOUS
  <2>3. /\ p \in Seq(Contents) /\ Len(p) = k - 1 /\ \A i \in 1..(k - 1) : p[i] = list[i]
        /\ q \in Seq(Contents) /\ Len(q) = k /\ \A i \in 1..k : q[i] = list[i]
    <3>1. k - 1 \in 0..Len(list) /\ k \in 0..Len(list)
      BY <1>1
    <3>2. QED
      BY <2>2, <3>1, ChainPrefix
  <2>4. c \in Seq(Contents) /\ list[k] \in Contents /\ k \in Nat \ {0}
    BY <1>1, <2>2
  <2>5. PICK d, e, x : d = c \o p /\ e = c \o q /\ x = list[k]
    OBVIOUS
  <2>6. /\ d \in Seq(Contents) /\ Len(d) = Len(c) + (k - 1)
        /\ \A i \in 1..(Len(c) + (k - 1)) : d[i] = IF i <= Len(c) THEN c[i] ELSE p[i - Len(c)]
    <3>1. c \in Seq(Contents) /\ p \in Seq(Contents) /\ Len(p) = k - 1
      BY <2>3, <2>4
    <3>2. /\ c \o p \in Seq(Contents) /\ Len(c \o p) = Len(c) + Len(p)
          /\ \A i \in 1..(Len(c) + Len(p)) :
               (c \o p)[i] = IF i <= Len(c) THEN c[i] ELSE p[i - Len(c)]
      BY <3>1, ConcatProperties
    <3>3. QED
      BY <2>5, <3>1, <3>2
  <2>7. /\ e \in Seq(Contents) /\ Len(e) = Len(c) + k
        /\ \A i \in 1..(Len(c) + k) : e[i] = IF i <= Len(c) THEN c[i] ELSE q[i - Len(c)]
    BY <2>3, <2>4, <2>5, ConcatProperties
  <2>8. PICK f : f = Append(d, x)
    OBVIOUS
  <2>9. /\ f \in Seq(Contents) /\ Len(f) = Len(c) + k /\ f[Len(c) + k] = x
        /\ \A i \in 1..(Len(c) + (k - 1)) : f[i] = d[i]
    <3>1. Len(c) \in Nat /\ x \in Contents
      BY <2>4, <2>5
    <3>2. /\ f \in Seq(Contents) /\ Len(f) = Len(d) + 1 /\ f[Len(d) + 1] = x
          /\ \A i \in 1..Len(d) : f[i] = d[i]
      BY <2>6, <2>8, <3>1
    <3>3. QED
      BY <2>4, <2>6, <3>1, <3>2
  <2>10. ASSUME NEW i \in 1..(Len(c) + k) PROVE e[i] = f[i]
    <3>1. Len(c) \in Nat
      BY <2>4
    <3>2. CASE i <= Len(c)
      <4>1. i \in 1..(Len(c) + (k - 1))
        BY <2>4, <3>1, <3>2
      <4>2. d[i] = c[i] /\ e[i] = c[i] /\ f[i] = d[i]
        BY <2>6, <2>7, <2>9, <3>2, <4>1
      <4>3. QED
        BY <4>2
    <3>3. CASE i > Len(c) /\ i < Len(c) + k
      <4>1. i - Len(c) \in 1..(k - 1) /\ i - Len(c) \in 1..k /\ i \in 1..(Len(c) + (k - 1))
            /\ ~(i <= Len(c))
        BY <2>4, <3>1, <3>3
      <4>2. p[i - Len(c)] = q[i - Len(c)]
        BY <2>3, <4>1
      <4>3. QED
        BY <2>6, <2>7, <2>9, <4>1, <4>2
    <3>4. CASE i = Len(c) + k
      <4>1. i - Len(c) = k /\ ~(i <= Len(c)) /\ k \in 1..k
        BY <2>4, <3>1, <3>4
      <4>2. QED
        BY <2>3, <2>5, <2>7, <2>9, <3>4, <4>1
    <3>5. QED
      BY <2>4, <3>1, <3>2, <3>3, <3>4
  <2>11. e = f
    BY <2>7, <2>9, <2>10, SeqEqual
  <2>12. QED
    BY <2>2, <2>5, <2>6, <2>8, <2>11
<1>6. \A k \in 1..n : list[k] \in Contents
  BY <1>1
<1> HIDE DEF past
<1>7. Fine(0)
  BY <1>2, <1>3 DEF IsStoreRun
<1>8. ASSUME NEW k \in 1..n, Fine(k - 1) PROVE Fine(k)
  <2>1. run[k] = store_block(run[k - 1], list[k], fresh)
    BY <1>2 DEF IsStoreRun
  <2>2. Canonical(run[k], rep) /\ run[k].blocks = Append(past(k - 1), list[k])
    BY <1>4, <1>6, <1>8, <2>1, StoreKeeps
  <2>3. QED
    BY <1>4, <2>2
<1> HIDE DEF Fine
<1>9. Fine(n)
  <2> DEFINE bad == {k \in 0..n : ~Fine(k)}
  <2>1. SUFFICES ASSUME bad # {} PROVE FALSE
    BY <1>1
  <2>2. bad \subseteq Nat
    BY <1>1
  <2>3. PICK k \in bad : \A y \in bad : k <= y
    BY <2>1, <2>2, LeastNat
  <2>4. k \in 1..n
    BY <1>1, <1>7, <2>3
  <2>5. k - 1 \in 0..n /\ ~(k <= k - 1)
    BY <1>1, <2>4
  <2>6. Fine(k - 1)
    BY <2>3, <2>5
  <2>7. QED
    BY <1>8, <2>3, <2>4, <2>6
<1>10. store_blocks(g, list, fresh) = run[n]
  BY <1>2 DEF IsStoreRun
<1>11. QED
  BY <1>3, <1>9, <1>10 DEF Fine

(***************************************************************************)
(* What execution accepts.                                                 *)
(***************************************************************************)
\* Every mined transaction decodes.
AllDecode(c) == \A k \in DOMAIN c : \A j \in DOMAIN c[k].txs : decodes(call[c[k].txs[j].hash])

\* So do those of a branch that is accepted.
LEMMA ValidDecodes ==
  ASSUME NEW c \in Seq(Contents), AllDecode(c), NEW branch \in Seq(Contents),
         valid_branch(c, branch)
  PROVE  AllDecode(c \o branch)
<1>1. PICK d : d = c \o branch
  OBVIOUS
<1>2. /\ d \in Seq(Contents) /\ Len(d) = Len(c) + Len(branch)
      /\ \A i \in 1..(Len(c) + Len(branch)) :
           d[i] = IF i <= Len(c) THEN c[i] ELSE branch[i - Len(c)]
  BY <1>1, ConcatProperties
<1>3. Len(c) \in Nat /\ Len(branch) \in Nat
  OBVIOUS
<1>4. ASSUME NEW k \in DOMAIN d, NEW j \in DOMAIN d[k].txs
      PROVE  decodes(call[d[k].txs[j].hash])
  <2>1. k \in 1..(Len(c) + Len(branch))
    BY <1>2
  <2>2. CASE k <= Len(c)
    <3>1. d[k] = c[k] /\ k \in DOMAIN c
      BY <1>2, <1>3, <2>1, <2>2
    <3>2. QED
      BY <1>4, <3>1 DEF AllDecode
  <2>3. CASE ~(k <= Len(c))
    <3>1. PICK i : i = k - Len(c)
      OBVIOUS
    <3>2. i \in DOMAIN branch /\ d[k] = branch[i]
      BY <1>2, <1>3, <2>1, <2>3, <3>1
    <3>3. valid(c \o SubSeq(branch, 1, i - 1), branch[i])
      BY <3>2 DEF valid_branch
    <3>4. QED
      BY <1>4, <3>2, <3>3 DEF valid
  <2>4. QED
    BY <2>2, <2>3
<1>5. QED
  BY <1>1, <1>4 DEF AllDecode

(***************************************************************************)
(* The invariant.                                                          *)
(***************************************************************************)
LookupInv ==
  /\ blocks \in Seq(Contents) /\ Len(blocks) <= MaxHeight
  /\ Canonical(Inner, repeated) /\ repeats(blocks) \subseteq repeated
  /\ AllDecode(blocks)

LEMMA InnerBlocks == Inner.blocks = blocks
BY DEF Inner

\* A state whose parts are those of g is as canonical as g, whatever more it excuses.
LEMMA BecomesCanonical ==
  ASSUME NEW g, NEW rep, Canonical(g, rep), Becomes(g),
         rep \cup repeats(g.blocks) \subseteq repeated'
  PROVE  /\ Canonical(Inner, repeated)' /\ (repeats(blocks) \subseteq repeated)'
         /\ blocks' = g.blocks /\ call' = call
<1>1. /\ Inner'.blocks = g.blocks /\ Inner'.txs = g.txs /\ Inner'.by_hash = g.by_hash
      /\ blocks' = g.blocks /\ call' = call
  BY DEF Becomes, Inner
<1>2. PICK i, more : i = Inner' /\ more = repeated'
  OBVIOUS
<1>3. \A h \in rep : h \in more
  BY <1>2
<1>4. Canonical(i, more)
  BY <1>1, <1>2, <1>3 DEF Canonical
<1>5. Canonical(Inner, repeated)' <=> Canonical(Inner', repeated')
  BY DEF Canonical
<1>6. (repeats(blocks) \subseteq repeated)' <=> repeats(blocks') \subseteq repeated'
  BY DEF repeats
<1>7. QED
  BY <1>1, <1>2, <1>4, <1>5, <1>6

LEMMA ExtendLooks ==
  ASSUME LookupInv, NEW b \in Contents, Extend(b)
  PROVE  LookupInv'
<1>1. PICK r : r = store_block(Inner, b, TRUE)
  OBVIOUS
<1>2. /\ Len(blocks) < MaxHeight /\ valid(blocks, b) /\ Becomes(r)
      /\ blocks \in Seq(Contents) /\ Len(blocks) <= MaxHeight
      /\ repeated' = repeated \cup repeats(blocks')
  BY <1>1 DEF Extend, LookupInv
<1>3. Canonical(r, repeated) /\ r.blocks = Append(blocks, b)
  BY <1>1, <1>2, InnerBlocks, StoreKeeps DEF LookupInv
<1>4. r.blocks = blocks'
  BY <1>2 DEF Becomes
<1>5. /\ Canonical(Inner, repeated)' /\ (repeats(blocks) \subseteq repeated)'
      /\ blocks' = Append(blocks, b) /\ call' = call
  BY <1>2, <1>3, <1>4, BecomesCanonical
<1>6. blocks' \in Seq(Contents) /\ Len(blocks') <= MaxHeight
  BY <1>2, <1>5, IndexConstants
<1>7. AllDecode(blocks)'
  <2>1. ASSUME NEW k \in DOMAIN blocks', NEW j \in DOMAIN blocks'[k].txs
        PROVE  decodes(call'[blocks'[k].txs[j].hash])
    <3>1. CASE k \in DOMAIN blocks
      <4>1. blocks'[k] = blocks[k]
        BY <1>2, <1>5, <3>1
      <4>2. QED
        BY <1>5, <2>1, <3>1, <4>1 DEF LookupInv, AllDecode
    <3>2. CASE k \notin DOMAIN blocks
      <4>1. blocks'[k] = b
        BY <1>2, <1>5, <3>2
      <4>2. QED
        BY <1>2, <1>5, <2>1, <4>1 DEF valid
    <3>3. QED
      BY <3>1, <3>2
  <2>2. QED
    BY <2>1 DEF AllDecode
<1>8. QED
  BY <1>5, <1>6, <1>7 DEF LookupInv

LEMMA BranchesAreChains == Branches \subseteq Seq(Contents)
BY IndexConstants DEF Branches

LEMMA ReorgLooks ==
  ASSUME LookupInv, NEW ca \in 0..MaxHeight, NEW branch \in Branches,
         NEW failing \in 0..Len(branch), Reorg(ca, branch, failing)
  PROVE  LookupInv'
<1>1. PICK k, r : k = cut(Inner, ca) /\ r = execute_reorg(Inner, ca, branch, failing)
  OBVIOUS
<1>2. /\ blocks \in Seq(Contents) /\ Len(blocks) <= MaxHeight /\ branch \in Seq(Contents)
      /\ ca < Len(blocks) /\ ca + Len(branch) <= MaxHeight /\ ca \in 0..Len(blocks)
      /\ valid_branch(SubSeq(blocks, 1, ca), branch) /\ Becomes(r)
      /\ repeated' = repeated \cup repeats(r.blocks)
  <2>1. /\ blocks \in Seq(Contents) /\ Len(blocks) <= MaxHeight /\ branch \in Seq(Contents)
        /\ ca < Len(blocks) /\ ca + Len(branch) <= MaxHeight
        /\ valid_branch(SubSeq(blocks, 1, ca), branch) /\ Becomes(r)
    BY <1>1, BranchesAreChains DEF Reorg, LookupInv
  <2>2. ca \in 0..Len(blocks)
    BY <2>1, IndexConstants
  <2>3. repeated' = repeated \cup repeats(r.blocks)
    BY <2>1 DEF Reorg, Becomes
  <2>4. QED
    BY <2>1, <2>2, <2>3
<1>3. CASE failing \in DOMAIN branch
  <2>1. r = Inner
    BY <1>1, <1>3 DEF execute_reorg
  <2>2. /\ Canonical(Inner, repeated)' /\ (repeats(blocks) \subseteq repeated)'
        /\ blocks' = blocks /\ call' = call
    BY <1>2, <2>1, BecomesCanonical, InnerBlocks DEF LookupInv
  <2>3. QED
    BY <2>2 DEF LookupInv, AllDecode
<1>4. CASE failing \notin DOMAIN branch
  <2>1. PICK kept : kept = SubSeq(blocks, 1, ca)
    OBVIOUS
  <2>2. r = store_blocks(k, branch, TRUE)
    BY <1>1, <1>4 DEF execute_reorg
  <2>3. Canonical(k, repeated) /\ k.blocks = kept
    BY <1>1, <1>2, <2>1, CutKeeps, InnerBlocks DEF LookupInv
  <2>4. kept \in Seq(Contents) /\ Len(kept) = ca /\ \A i \in 1..ca : kept[i] = blocks[i]
    BY <1>2, <2>1, ChainPrefix
  <2>5. Canonical(r, repeated) /\ r.blocks = kept \o branch
    BY <1>2, <2>2, <2>3, <2>4, StoreBlocksKeep
  <2>6. /\ Canonical(Inner, repeated)' /\ (repeats(blocks) \subseteq repeated)'
        /\ blocks' = kept \o branch /\ call' = call
    BY <1>2, <2>5, BecomesCanonical
  <2>7. AllDecode(kept)
    <3>1. \A i \in 1..ca : i \in DOMAIN blocks
      BY <1>2
    <3>2. QED
      BY <2>4, <3>1 DEF AllDecode, LookupInv
  <2>8. AllDecode(kept \o branch)
    BY <1>2, <2>1, <2>4, <2>7, ValidDecodes
  <2>9. blocks' \in Seq(Contents) /\ Len(blocks') = ca + Len(branch)
    BY <1>2, <2>4, <2>6, ConcatProperties
  <2>10. AllDecode(blocks)'
    <3>1. AllDecode(blocks')
      BY <2>6, <2>8
    <3>2. QED
      BY <2>6, <3>1 DEF AllDecode
  <2>11. QED
    BY <1>2, <2>6, <2>9, <2>10 DEF LookupInv
<1>5. QED
  BY <1>3, <1>4

LEMMA RestartLooks ==
  ASSUME LookupInv, Restart
  PROVE  LookupInv'
<1>1. PICK g, r : /\ g = [blocks |-> <<>>, txs |-> <<>>, by_hash |-> <<>>,
                         index |-> [a \in Addr |-> <<>>]]
                  /\ r = store_blocks(g, blocks, FALSE)
  OBVIOUS
<1>2. Becomes(r) /\ repeated' = repeats(blocks)
  BY <1>1 DEF Restart, load_into
<1>3. blocks \in Seq(Contents) /\ g.blocks = <<>>
  BY <1>1 DEF LookupInv
<1>4. DOMAIN g.blocks = {} /\ DOMAIN g.txs = {} /\ DOMAIN g.by_hash = {}
  BY <1>1
<1>5. mined(g.blocks) = {}
  BY <1>4, MinedIs
<1>6. Canonical(g, {})
  BY <1>4, <1>5 DEF Canonical
<1>7. g.blocks \in Seq(Contents)
  BY <1>3
<1>8. Canonical(r, {}) /\ r.blocks = g.blocks \o blocks
  BY <1>1, <1>3, <1>6, <1>7, StoreBlocksKeep
<1>9. r.blocks = blocks
  BY <1>3, <1>8, ConcatEmptySeq
<1>10. {} \cup repeats(r.blocks) \subseteq repeated'
  BY <1>2, <1>9
<1>11. /\ Canonical(Inner, repeated)' /\ (repeats(blocks) \subseteq repeated)'
       /\ blocks' = blocks /\ call' = call
  BY <1>2, <1>8, <1>9, <1>10, BecomesCanonical
<1>12. QED
  BY <1>11 DEF LookupInv, AllDecode

LEMMA LookupInvIsInvariant == IndexSpec => []LookupInv
<1>1. IndexInit => LookupInv
  <2>1. SUFFICES ASSUME IndexInit PROVE LookupInv
    OBVIOUS
  <2>2. /\ blocks = <<>> /\ DOMAIN blocks = {} /\ DOMAIN txs = {} /\ DOMAIN by_hash = {}
        /\ Len(blocks) = 0
    BY <2>1 DEF IndexInit
  <2>3. mined(blocks) = {}
    BY <2>2, MinedIs
  <2>4. Inner.blocks = blocks /\ Inner.txs = txs /\ Inner.by_hash = by_hash
    BY DEF Inner
  <2>5. Canonical(Inner, repeated)
    BY <2>2, <2>3, <2>4 DEF Canonical
  <2>6. repeats(blocks) \subseteq repeated /\ AllDecode(blocks)
    BY <2>2 DEF repeats, AllDecode
  <2>7. QED
    BY <2>2, <2>5, <2>6, IndexConstants DEF LookupInv
<1>2. LookupInv /\ [IndexNext]_index_vars => LookupInv'
  <2>1. SUFFICES ASSUME LookupInv, [IndexNext]_index_vars PROVE LookupInv'
    OBVIOUS
  <2>2. CASE \E b \in Contents : Extend(b)
    BY <2>1, <2>2, ExtendLooks
  <2>3. CASE \E ca \in 0..MaxHeight, branch \in Branches :
               \E failing \in 0..Len(branch) : Reorg(ca, branch, failing)
    BY <2>1, <2>3, ReorgLooks
  <2>4. CASE Restart
    BY <2>1, <2>4, RestartLooks
  <2>5. CASE UNCHANGED index_vars
    BY <2>1, <2>5 DEF index_vars, LookupInv, Canonical, Inner, repeats, AllDecode
  <2>6. QED
    BY <2>1, <2>2, <2>3, <2>4, <2>5 DEF IndexNext
<1>3. QED
  BY <1>1, <1>2, PTL DEF IndexSpec

\* eth_getTransactionByHash and the block map answer from the canonical chain alone, after
\* any blocks (with transactions the chain holds already, or not), reorgs (that went through
\* or failed half way) and restarts; only what two blocks of one chain held can be missing.
THEOREM LookupsAreCanonical == IndexSpec => []LookupIsCanonical
<1>1. LookupInv => LookupIsCanonical
  <2>1. SUFFICES ASSUME LookupInv PROVE LookupIsCanonical
    OBVIOUS
  <2>2. Inner.blocks = blocks /\ Inner.txs = txs /\ Inner.by_hash = by_hash
    BY DEF Inner
  <2>3. \A h, k : LastAt(blocks, k, h) <=> holds_last(blocks, k, h)
    BY DEF LastAt, holds_last, HashesAt
  <2>4. QED
    BY <2>1, <2>2, <2>3 DEF LookupInv, Canonical, LookupIsCanonical
<1>2. QED
  BY <1>1, LookupInvIsInvariant, PTL

(***************************************************************************)
(* The three price lists.                                                  *)
(***************************************************************************)
\* A call that decodes is priced, charged and labelled as the operation it decodes to.
LEMMA TablesAgree ==
  ASSUME NEW c, decodes(c)
  PROVE  LET k == decode_tx(c).kind
         IN /\ gas_for_call_obj(c) = gas(k, c.len)
            /\ gas_for_kind(k, c.len) = gas(k, c.len)
            /\ tx_kind_str(c) = k
<1>1. PICK k : k = decode_tx(c).kind
  OBVIOUS
<1>2. k # "error"
  BY <1>1 DEF decodes
<1>3. CASE c.to = STREAM_HUB
  <2>1. k = parse_stream(c).kind
    BY <1>1, <1>2, <1>3, HubAddresses DEF decode_tx, Err
  <2>2. c.sel \in DOMAIN KernelStream /\ c.fault = "none" /\ k = KernelStream[c.sel]
    BY <1>2, <2>1 DEF parse_stream, call_of, Err, Kind
  <2>3. KernelStream = StreamOps
    BY DEF KernelStream, StreamOps
  <2>4. parse_calldata(c) = k
    BY <2>2, <2>3 DEF parse_calldata, op_of
  <2>5. k \in {"OpenStream", "StopStream"}
    BY <2>2 DEF KernelStream
  <2>6. tx_kind_str(c) = k
    BY <1>2, <1>3, <2>4, HubAddresses DEF tx_kind_str
  <2>7. gas_for_call_obj(c) = gas(k, c.len) /\ gas_for_kind(k, c.len) = gas(k, c.len)
    BY <1>3, <2>5, HubAddresses DEF gas_for_call_obj, gas, gas_for_kind, Governance
  <2>8. QED
    BY <1>1, <2>6, <2>7
<1>4. CASE c.to = HUMANITY_HUB
  <2>1. k = parse_humanity(c).kind
    BY <1>1, <1>2, <1>4, HubAddresses DEF decode_tx, Err
  <2>2. c.sel \in DOMAIN KernelHumanity /\ c.fault = "none" /\ k = KernelHumanity[c.sel]
    BY <1>2, <2>1 DEF parse_humanity, call_of, Err, Kind
  <2>3. KernelHumanity = HumanityOps
    BY DEF KernelHumanity, HumanityOps
  <2>4. parse_humanity_calldata(c) = k
    BY <2>2, <2>3 DEF parse_humanity_calldata, op_of
  <2>5. k \in {"RequestVerification", "Vouch", "Challenge", "SubmitVerdict",
               "SubmitZkPassportProof"} \cup Governance
    BY <2>2 DEF KernelHumanity, Governance
  <2>6. tx_kind_str(c) = k
    BY <1>2, <1>4, <2>4, HubAddresses DEF tx_kind_str
  <2>7. gas_for_call_obj(c) = gas(k, c.len) /\ gas_for_kind(k, c.len) = gas(k, c.len)
    BY <1>4, <2>4, <2>5, HubAddresses DEF gas_for_call_obj, gas, gas_for_kind, Governance
  <2>8. QED
    BY <1>1, <2>6, <2>7
<1>5. CASE c.to = CONTRACT_HUB
  <2>1. k = parse_contract(c).kind
    BY <1>1, <1>2, <1>5, HubAddresses DEF decode_tx, Err
  <2>2. c.sel \in DOMAIN KernelContract /\ c.fault = "none" /\ k = KernelContract[c.sel]
    BY <1>2, <2>1 DEF parse_contract, call_of, Err, Kind
  <2>3. KernelContract = ContractOps
    BY DEF KernelContract, ContractOps
  <2>4. parse_contract_calldata(c) = k
    BY <2>2, <2>3 DEF parse_contract_calldata, op_of
  <2>5. k \in {"DeployContract", "FundContract", "InvokeContract", "SubmitEffect"}
    BY <2>2 DEF KernelContract
  <2>6. tx_kind_str(c) = k
    BY <1>2, <1>5, <2>4, HubAddresses DEF tx_kind_str
  <2>7. gas_for_call_obj(c) = gas(k, c.len) /\ gas_for_kind(k, c.len) = gas(k, c.len)
    BY <1>5, <2>4, <2>5, HubAddresses DEF gas_for_call_obj, gas, gas_for_kind, Governance
  <2>8. QED
    BY <1>1, <2>6, <2>7
<1>6. CASE c.to \notin Hubs
  <2>1. k = "Transfer" /\ c.sel = None
    BY <1>1, <1>2, <1>6 DEF decode_tx, Err, Kind, Hubs
  <2>2. gas_for_call_obj(c) = GAS_TRANSFER /\ tx_kind_str(c) = k
    BY <1>6, <2>1 DEF gas_for_call_obj, tx_kind_str, Hubs
  <2>3. gas(k, c.len) = GAS_TRANSFER /\ gas_for_kind(k, c.len) = GAS_TRANSFER
    BY <2>1 DEF gas, gas_for_kind, Governance
  <2>4. QED
    BY <1>1, <2>2, <2>3
<1>7. QED
  BY <1>3, <1>4, <1>5, <1>6 DEF Hubs

\* What a wallet was told, what the receipt says and what the kernel charged for a mined
\* transaction are the same, and the explorer labels it as what was executed.
THEOREM PreflightsAreCharged == IndexSpec => []PreflightIsCharged
<1>1. LookupInv => PreflightIsCharged
  <2>1. SUFFICES ASSUME LookupInv, NEW i \in DOMAIN blocks, NEW j \in DOMAIN blocks[i].txs
                 PROVE  LET c == call[blocks[i].txs[j].hash]  k == decode_tx(c).kind
                        IN /\ gas_for_call_obj(c) = gas(k, c.len)
                           /\ gas_for_kind(k, c.len) = gas(k, c.len)
                           /\ tx_kind_str(c) = k
    BY DEF PreflightIsCharged
  <2>2. decodes(call[blocks[i].txs[j].hash])
    BY <2>1 DEF LookupInv, AllDecode
  <2>3. QED
    BY <2>2, TablesAgree
<1>2. QED
  BY <1>1, LookupInvIsInvariant, PTL

=============================================================================
