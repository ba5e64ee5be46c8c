--------------------------- MODULE ForkChoiceProofs ---------------------------
(***************************************************************************)
(* Fork choice, reorganisation, sync and restart for any number of nodes,  *)
(* any validator schedule, finality depth, store size, batch size and      *)
(* number of views, crashes and lost answers.  The only hypothesis is    *)
(* that block hashes are strictly and totally ordered, which byte strings  *)
(* are.                                                                    *)
(***************************************************************************)
EXTENDS PromptDelivery, SequenceTheorems, FiniteSetTheorems, TLAPS

HashOrder == HashesOrdered(Blocks)

----------------------------------------------------------------------------
(* Least and greatest elements, without induction over data *)

LEMMA LeastNat ==
  ASSUME NEW T, T \subseteq Nat, T # {}
  PROVE  \E x \in T : \A y \in T : x <= y
<1> DEFINE R == OpToRel(<, Nat)
<1>1. PICK x \in T : \A y \in T : ~(<<y, x>> \in R)
  <2>1. IsWellFoundedOn(R, Nat)
    BY NatLessThanWellFounded
  <2> HIDE DEF R
  <2>2. QED
    BY <2>1, WFMin
<1>2. ASSUME NEW y \in T, y < x PROVE FALSE
  <2>1. <<y, x>> \in Nat \X Nat /\ <<y, x>>[1] = y /\ <<y, x>>[2] = x
    OBVIOUS
  <2>2. <<y, x>>[1] < <<y, x>>[2]
    BY <1>2, <2>1
  <2>3. <<y, x>> \in R
    BY <2>1, <2>2, Zenon DEF OpToRel
  <2> HIDE DEF R
  <2>4. QED
    BY <1>1, <2>3
<1> HIDE DEF R
<1>3. \A y \in T : x <= y
  <2>1. \A y \in T : y \in Nat /\ x \in Nat /\ ~(y < x)
    BY <1>2
  <2>2. QED
    BY <2>1
<1>4. QED
  BY <1>3

LEMMA GreatestUpTo ==
  ASSUME NEW n \in Nat, NEW T, T \subseteq 0..n, T # {}
  PROVE  \E x \in T : \A y \in T : y <= x
<1> DEFINE U == {n - k : k \in T}
<1>1. U \subseteq Nat /\ U # {}
  <2>1. \A k \in T : k \in 0..n /\ n - k \in Nat
    OBVIOUS
  <2>2. QED
    BY <2>1
<1>2. PICK u \in U : \A y \in U : u <= y
  BY <1>1, LeastNat
<1>3. PICK x \in T : u = n - x
  OBVIOUS
<1>4. ASSUME NEW y \in T PROVE y <= x
  <2>1. n - y \in U
    BY <1>4
  <2>2. y \in 0..n /\ x \in 0..n
    BY <1>4
  <2> HIDE DEF U
  <2>3. u <= n - y
    BY <1>2, <2>1
  <2>4. QED
    BY <1>3, <2>2, <2>3
<1>5. QED
  BY <1>4

----------------------------------------------------------------------------
(* Blocks and their prefixes *)

LEMMA Prefix ==
  ASSUME NEW b \in Blocks, NEW k \in 0..Len(b)
  PROVE  /\ upto(b, k) \in Blocks /\ Len(upto(b, k)) = k
         /\ \A i \in 1..k : upto(b, k)[i] = b[i]
<1>1. Len(b) \in Nat /\ \A i \in 1..k : b[i] \in Entries
  BY ElementOfSeq DEF Blocks
<1>2. QED
  BY <1>1, SubSeqProperties DEF upto, Blocks

LEMMA SameBlock ==
  ASSUME NEW a \in Blocks, NEW b \in Blocks, Len(a) = Len(b),
         \A i \in 1..Len(a) : a[i] = b[i]
  PROVE  a = b
BY SeqEqual DEF Blocks

LEMMA PrefixOfPrefix ==
  ASSUME NEW b \in Blocks, NEW k \in 0..Len(b), NEW j \in 0..k
  PROVE  upto(upto(b, k), j) = upto(b, j)
<1>1. Len(b) \in Nat
  BY DEF Blocks
<1>2. /\ upto(b, k) \in Blocks /\ Len(upto(b, k)) = k
      /\ \A i \in 1..k : upto(b, k)[i] = b[i]
  BY Prefix
<1>3. PICK a : a = upto(b, k)
  OBVIOUS
<1>4. /\ upto(a, j) \in Blocks /\ Len(upto(a, j)) = j
      /\ \A i \in 1..j : upto(a, j)[i] = a[i]
  BY <1>2, <1>3, Prefix
<1>5. /\ upto(b, j) \in Blocks /\ Len(upto(b, j)) = j
      /\ \A i \in 1..j : upto(b, j)[i] = b[i]
  BY <1>1, Prefix
<1>6. \A i \in 1..j : upto(a, j)[i] = upto(b, j)[i]
  BY <1>1, <1>2, <1>3, <1>4, <1>5
<1>7. upto(a, j) = upto(b, j)
  BY <1>4, <1>5, <1>6, SameBlock
<1>8. QED
  BY <1>3, <1>7

LEMMA WholePrefix ==
  ASSUME NEW b \in Blocks
  PROVE  upto(b, Len(b)) = b
BY SubSeqFull DEF upto, Blocks

\* A block and the canonical chain share every prefix below one they share.
LEMMA KnownPrefix ==
  ASSUME NEW c, c.blocks \in Blocks, NEW b \in Blocks, NEW k \in 0..Len(b),
         knows_block(c, upto(b, k))
  PROVE  /\ k <= Len(c.blocks) /\ upto(c.blocks, k) = upto(b, k)
         /\ \A j \in 0..k : upto(c.blocks, j) = upto(b, j)
<1>1. Len(upto(b, k)) = k /\ Len(b) \in Nat /\ Len(c.blocks) \in Nat
  BY Prefix DEF Blocks
<1>2. k <= Len(c.blocks) /\ upto(c.blocks, k) = upto(b, k)
  BY <1>1 DEF knows_block
<1>3. ASSUME NEW j \in 0..k PROVE upto(c.blocks, j) = upto(b, j)
  <2>1. k \in 0..Len(c.blocks)
    BY <1>1, <1>2
  <2>2. upto(upto(c.blocks, k), j) = upto(c.blocks, j)
    BY <2>1, PrefixOfPrefix
  <2>3. upto(upto(b, k), j) = upto(b, j)
    BY PrefixOfPrefix
  <2>4. QED
    BY <1>2, <2>2, <2>3
<1>4. QED
  BY <1>2, <1>3

\* The ancestor search always ends: the genesis block is canonical.
LEMMA AncestorExists ==
  ASSUME NEW c, c.blocks \in Blocks, NEW b \in Blocks, b # <<>>
  PROVE  /\ ca_height(c, b) \in 0..(Len(b) - 1)
         /\ knows_block(c, upto(b, ca_height(c, b)))
         /\ ca_height(c, b) <= Len(c.blocks)
         /\ \A j \in 0..ca_height(c, b) : upto(c.blocks, j) = upto(b, j)
<1>1. Len(b) \in Nat /\ Len(b) > 0 /\ Len(c.blocks) \in Nat
  BY EmptySeq DEF Blocks
<1> DEFINE T == {k \in 0..(Len(b) - 1) : knows_block(c, upto(b, k))}
<1>2. 0 \in T
  <2>1. Len(upto(b, 0)) = 0 /\ upto(b, 0) \in Blocks
    BY <1>1, Prefix
  <2>2. Len(upto(c.blocks, 0)) = 0 /\ upto(c.blocks, 0) \in Blocks
    BY <1>1, Prefix
  <2>3. upto(b, 0) = upto(c.blocks, 0)
    BY <2>1, <2>2, SameBlock
  <2>4. QED
    BY <1>1, <2>1, <2>3 DEF knows_block
<1>3. PICK x \in T : \A y \in T : y <= x
  <2>1. T \subseteq 0..(Len(b) - 1) /\ T # {} /\ Len(b) - 1 \in Nat
    BY <1>1, <1>2
  <2> HIDE DEF T
  <2>2. QED
    BY <2>1, GreatestUpTo
<1>4. /\ x \in 0..(Len(b) - 1) /\ knows_block(c, upto(b, x))
      /\ \A j \in (x + 1)..(Len(b) - 1) : ~knows_block(c, upto(b, j))
  <2>1. ASSUME NEW j \in (x + 1)..(Len(b) - 1), knows_block(c, upto(b, j)) PROVE FALSE
    <3>1. j \in T /\ x \in Nat /\ j > x
      BY <1>1, <2>1
    <3>2. QED
      BY <1>3, <3>1
  <2>2. QED
    BY <2>1
<1>5. /\ ca_height(c, b) \in 0..(Len(b) - 1)
      /\ knows_block(c, upto(b, ca_height(c, b)))
  BY <1>4 DEF ca_height
<1>6. ca_height(c, b) \in 0..Len(b)
  BY <1>1, <1>5
<1>7. QED
  BY <1>5, <1>6, KnownPrefix

----------------------------------------------------------------------------
(* The order of tips *)

LEMMA Views ==
  ASSUME NEW b \in Blocks
  PROVE  view_of(b) \in Nat /\ Len(b) \in Nat
<1>1. Len(b) \in Nat /\ (b # <<>> => Len(b) > 0)
  BY EmptySeq DEF Blocks
<1>2. CASE b = <<>>
  BY <1>1, <1>2 DEF view_of
<1>3. CASE b # <<>>
  <2>1. b[Len(b)] \in Entries
    BY <1>1, <1>3, ElementOfSeq DEF Blocks
  <2>2. b[Len(b)].view \in Nat
    BY <2>1, ForkChoiceConstants DEF Entries
  <2>3. QED
    BY <1>1, <1>3, <2>2 DEF view_of
<1>4. QED
  BY <1>2, <1>3

\* Fork choice is a strict total order of blocks, whatever the order of their arrival.
LEMMA PrefersIsOrder ==
  ASSUME HashOrder
  PROVE  /\ \A a \in Blocks : ~fork_choice_prefers(a, a)
         /\ \A a, b \in Blocks : a = b \/ fork_choice_prefers(a, b) \/ fork_choice_prefers(b, a)
         /\ \A a, b, c \in Blocks :
              fork_choice_prefers(a, b) /\ fork_choice_prefers(b, c) => fork_choice_prefers(a, c)
<1>1. \A a \in Blocks : view_of(a) \in Nat /\ Len(a) \in Nat
  BY Views
<1>2. \A a \in Blocks : ~fork_choice_prefers(a, a)
  BY <1>1 DEF HashOrder, HashesOrdered, fork_choice_prefers
<1>3. \A a, b \in Blocks : a = b \/ fork_choice_prefers(a, b) \/ fork_choice_prefers(b, a)
  BY <1>1 DEF HashOrder, HashesOrdered, fork_choice_prefers
<1>4. ASSUME NEW a \in Blocks, NEW b \in Blocks, NEW c \in Blocks,
             fork_choice_prefers(a, b), fork_choice_prefers(b, c)
      PROVE  fork_choice_prefers(a, c)
  <2>1. HashLess(a, b) /\ HashLess(b, c) => HashLess(a, c)
    BY DEF HashOrder, HashesOrdered
  <2>2. QED
    BY <1>1, <1>4, <2>1 DEF fork_choice_prefers
<1>5. QED
  BY <1>2, <1>3, <1>4

\* Among finitely many blocks one is preferred to all others: the one with the fewest above it.
LEMMA SomeBest ==
  ASSUME HashOrder, NEW P, P \subseteq Blocks, IsFiniteSet(P), P # {}
  PROVE  \E b \in P : \A x \in P \ {b} : fork_choice_prefers(b, x)
<1> DEFINE above(b) == {x \in P : fork_choice_prefers(x, b)}
           rank(b) == Cardinality(above(b))
           R == {rank(b) : b \in P}
<1>1. \A b \in P : IsFiniteSet(above(b)) /\ rank(b) \in Nat
  BY FS_Subset, FS_CardinalityType
<1>2. R \subseteq Nat /\ R # {}
  BY <1>1
<1>3. PICK r \in R : \A y \in R : r <= y
  <2> HIDE DEF R
  <2>1. QED
    BY <1>2, LeastNat
<1>4. PICK b \in P : r = rank(b)
  OBVIOUS
<1>5. ASSUME NEW x \in P, fork_choice_prefers(x, b)
      PROVE  FALSE
  <2>1. above(x) \subseteq above(b)
    BY <1>5, PrefersIsOrder
  <2>2. x \in above(b) /\ x \notin above(x)
    BY <1>5, PrefersIsOrder
  <2>3. above(x) # above(b)
    BY <2>2
  <2>4. rank(x) < rank(b)
    <3>1. PICK A, B : A = above(x) /\ B = above(b)
      OBVIOUS
    <3>2. IsFiniteSet(B) /\ A \subseteq B /\ A # B
      BY <1>1, <2>1, <2>3, <3>1
    <3>3. Cardinality(A) < Cardinality(B)
      <4>1. /\ Cardinality(A) <= Cardinality(B)
            /\ Cardinality(A) = Cardinality(B) => A = B
        BY <3>2, FS_Subset
      <4>2. Cardinality(A) \in Nat /\ Cardinality(B) \in Nat
        BY <3>2, FS_Subset, FS_CardinalityType
      <4>3. QED
        BY <3>2, <4>1, <4>2
    <3>4. QED
      BY <3>1, <3>3
  <2>5. rank(x) \in R /\ rank(x) \in Nat /\ rank(b) \in Nat
    BY <1>1
  <2> HIDE DEF rank, R
  <2>6. rank(b) <= rank(x)
    BY <1>3, <1>4, <2>5
  <2>7. QED
    BY <2>4, <2>5, <2>6
<1>6. \A x \in P \ {b} : fork_choice_prefers(b, x)
  BY <1>5, PrefersIsOrder
<1>7. QED
  BY <1>6

LEMMA BestIsCandidate ==
  ASSUME HashOrder, NEW c, c.fork_store \subseteq Blocks, IsFiniteSet(c.fork_store),
         candidates(c) # {}
  PROVE  best(c) \in candidates(c)
<1>1. candidates(c) \subseteq Blocks /\ IsFiniteSet(candidates(c))
  BY FS_Subset DEF candidates
<1>2. \E b \in candidates(c) : \A x \in candidates(c) \ {b} : fork_choice_prefers(b, x)
  BY <1>1, SomeBest
<1>3. QED
  BY <1>2 DEF best

----------------------------------------------------------------------------
(***************************************************************************)
(* One node's chain.  Good is what every operation on a chain keeps, and   *)
(* Onward is how its tip may move: along fork choice, and never across the *)
(* finalized frontier.                                                     *)
(***************************************************************************)
Recents == UNION {[D -> Blocks] : D \in SUBSET Nat}

Chains == [blocks : Blocks, state : Blocks, recent_states : Recents,
           fork_store : SUBSET (Blocks \ {<<>>}), restored : Nat]

Follows(c) ==
  /\ c.state = c.blocks
  /\ \A h \in DOMAIN c.recent_states :
       h < Len(c.blocks) => c.recent_states[h] = upto(c.blocks, h)

Capped(store) == IsFiniteSet(store) /\ Cardinality(store) <= MAX_FORK_STORE

Good(c) == c \in Chains /\ Capped(c.fork_store) /\ Follows(c)

Onward(a, b) ==
  \/ a = b
  \/ /\ fork_choice_prefers(b, a)
     /\ upto(b, finalized(a)) = upto(a, finalized(a))
     /\ Len(b) >= Len(a)

LEMMA Finalized ==
  ASSUME NEW b \in Blocks
  PROVE  finalized(b) \in 0..Len(b)
BY ForkChoiceConstants, Views DEF finalized, Monus

LEMMA Remembered ==
  ASSUME NEW recent \in Recents, NEW h \in Nat, NEW s \in Blocks, NEW m \in Nat
  PROVE  /\ remember(recent, h, s, m) \in Recents
         /\ DOMAIN remember(recent, h, s, m) \subseteq DOMAIN recent \cup {h}
         /\ \A k \in DOMAIN remember(recent, h, s, m) :
              remember(recent, h, s, m)[k] = IF k = h THEN s ELSE recent[k]
<1>1. PICK D \in SUBSET Nat : recent \in [D -> Blocks]
  BY DEF Recents
<1> DEFINE E == {k \in D \cup {h} : k + FINALITY_DEPTH + 1 >= m}
<1>2. remember(recent, h, s, m) = [k \in E |-> IF k = h THEN s ELSE recent[k]]
  BY <1>1 DEF remember
<1>3. E \subseteq Nat /\ E \subseteq D \cup {h}
  BY <1>1
<1>4. remember(recent, h, s, m) \in [E -> Blocks]
  BY <1>1, <1>2, <1>3
<1>5. QED
  BY <1>1, <1>2, <1>3, <1>4 DEF Recents

\* Executing a block that extends the tip.
LEMMA ExecuteGood ==
  ASSUME NEW c, Good(c), NEW b \in Blocks,
         Len(b) = Len(c.blocks) + 1, upto(b, Len(b) - 1) = c.blocks
  PROVE  Good(execute_block(c, b)) /\ Onward(c.blocks, execute_block(c, b).blocks)
<1> DEFINE n == Len(c.blocks)
           recent == remember(c.recent_states, n, c.state, n + 1)
<1>1. /\ c \in Chains /\ c.blocks \in Blocks /\ c.state = c.blocks /\ n \in Nat
      /\ c.recent_states \in Recents /\ c.state \in Blocks /\ n + 1 \in Nat
  BY Views DEF Good, Chains, Follows
<1>2. /\ recent \in Recents /\ DOMAIN recent \subseteq DOMAIN c.recent_states \cup {n}
      /\ \A k \in DOMAIN recent : recent[k] = IF k = n THEN c.state ELSE c.recent_states[k]
  BY <1>1, Remembered
<1>3. \A k \in 0..n : upto(b, k) = upto(c.blocks, k)
  <2>1. n = Len(b) - 1 /\ n \in 0..Len(b)
    BY <1>1
  <2>2. upto(b, n) = c.blocks
    BY <2>1
  <2>3. ASSUME NEW k \in 0..n PROVE upto(b, k) = upto(c.blocks, k)
    <3>1. upto(upto(b, n), k) = upto(b, k)
      BY <2>1, PrefixOfPrefix
    <3>2. QED
      BY <2>2, <3>1
  <2>4. QED
    BY <2>3
<1>4. PICK d : d = execute_block(c, b)
  OBVIOUS
<1> HIDE DEF recent
<1>5. d = [c EXCEPT !.recent_states = recent, !.blocks = b, !.state = b]
  BY <1>4 DEF execute_block, recent
<1>6. d \in Chains /\ d.recent_states = recent /\ d.blocks = b /\ d.state = b
      /\ d.fork_store = c.fork_store
  BY <1>1, <1>2, <1>5 DEF Chains
<1>7. Follows(d)
  <2>1. ASSUME NEW h \in DOMAIN recent, h < Len(b) PROVE recent[h] = upto(b, h)
    <3>1. h \in Nat
      BY <1>2, <1>1 DEF Recents
    <3>2. CASE h = n
      <4>1. upto(c.blocks, n) = c.blocks
        BY <1>1, WholePrefix
      <4>2. QED
        BY <1>1, <1>2, <1>3, <2>1, <3>2, <4>1
    <3>3. CASE h # n
      <4>1. h < n /\ h \in 0..n /\ h \in DOMAIN c.recent_states
        BY <1>1, <1>2, <2>1, <3>1, <3>3
      <4>2. c.recent_states[h] = upto(c.blocks, h)
        BY <4>1 DEF Good, Follows
      <4>3. QED
        BY <1>2, <1>3, <2>1, <3>3, <4>1, <4>2
    <3>4. QED
      BY <3>2, <3>3
  <2>2. QED
    BY <1>6, <2>1 DEF Follows
<1>8. Onward(c.blocks, b)
  <2>1. finalized(c.blocks) \in 0..n
    BY <1>1, Finalized
  <2>2. upto(b, finalized(c.blocks)) = upto(c.blocks, finalized(c.blocks))
    BY <1>3, <2>1
  <2>3. QED
    BY <1>1, <2>2 DEF Onward, fork_choice_prefers
<1>9. QED
  BY <1>4, <1>6, <1>7, <1>8 DEF Good

LEMMA RejectedGood ==
  ASSUME NEW c, Good(c)
  PROVE  Good(rejected(c)) /\ rejected(c).blocks = c.blocks
<1> DEFINE n == Len(c.blocks)
           recent == remember(c.recent_states, n, c.state, n + 1)
<1>1. /\ c \in Chains /\ c.blocks \in Blocks /\ c.state = c.blocks /\ n \in Nat
      /\ c.recent_states \in Recents /\ c.state \in Blocks /\ n + 1 \in Nat
  BY Views DEF Good, Chains, Follows
<1>2. /\ recent \in Recents /\ DOMAIN recent \subseteq DOMAIN c.recent_states \cup {n}
      /\ \A k \in DOMAIN recent : recent[k] = IF k = n THEN c.state ELSE c.recent_states[k]
  BY <1>1, Remembered
<1>3. PICK d : d = rejected(c)
  OBVIOUS
<1> HIDE DEF recent
<1>4. d = [c EXCEPT !.recent_states = recent]
  <2>1. PICK e : e = execute_block(c, c.blocks)
    OBVIOUS
  <2>2. e.recent_states = recent
    BY <1>1, <2>1 DEF execute_block, recent, Chains
  <2>3. QED
    BY <1>3, <2>1, <2>2 DEF rejected
<1>5. d \in Chains /\ d.recent_states = recent /\ d.blocks = c.blocks /\ d.state = c.state
      /\ d.fork_store = c.fork_store
  BY <1>1, <1>2, <1>4 DEF Chains
<1>6. \A h \in DOMAIN recent : h < n => h # n /\ h \in DOMAIN c.recent_states
  BY <1>1, <1>2
<1>7. Follows(d)
  BY <1>1, <1>2, <1>5, <1>6 DEF Follows, Good
<1>8. QED
  BY <1>3, <1>5, <1>7 DEF Good

\* Keeping the blocks with fewer than MAX_FORK_STORE above them keeps at most that many:
\* no two have the same number above them.
LEMMA CapHolds ==
  ASSUME HashOrder, NEW P, P \subseteq Blocks, IsFiniteSet(P)
  PROVE  Capped({x \in P : Cardinality({z \in P : lower(x, z)}) < MAX_FORK_STORE})
<1> DEFINE above(x) == {z \in P : lower(x, z)}
           rank(x) == Cardinality(above(x))
           S == {x \in P : rank(x) < MAX_FORK_STORE}
           T == 0..(MAX_FORK_STORE - 1)
           f == [x \in S |-> rank(x)]
<1>1. \A x \in P : IsFiniteSet(above(x)) /\ rank(x) \in Nat
  BY FS_Subset, FS_CardinalityType
<1>2. \A x \in Blocks : Len(x) \in Nat /\ ~lower(x, x)
  BY Views DEF lower, HashOrder, HashesOrdered
<1>3. ASSUME NEW x \in P, NEW y \in P, lower(x, y)
      PROVE  rank(y) < rank(x)
  <2>1. above(y) \subseteq above(x)
    <3>1. ASSUME NEW z \in P, lower(y, z) PROVE lower(x, z)
      <4>1. HashLess(x, y) /\ HashLess(y, z) => HashLess(x, z)
        BY DEF HashOrder, HashesOrdered
      <4>2. QED
        BY <1>2, <1>3, <3>1, <4>1 DEF lower
    <3>2. QED
      BY <3>1
  <2>2. y \in above(x) /\ y \notin above(y)
    BY <1>2, <1>3
  <2>3. PICK A, B : A = above(y) /\ B = above(x)
    OBVIOUS
  <2>4. IsFiniteSet(B) /\ A \subseteq B /\ A # B
    BY <1>1, <2>1, <2>2, <2>3
  <2>5. /\ Cardinality(A) <= Cardinality(B)
        /\ Cardinality(A) = Cardinality(B) => A = B
        /\ Cardinality(A) \in Nat /\ Cardinality(B) \in Nat
    BY <2>4, FS_Subset, FS_CardinalityType
  <2>6. Cardinality(A) < Cardinality(B)
    BY <2>4, <2>5
  <2>7. QED
    BY <2>3, <2>6
<1>4. \A x, y \in P : x = y \/ lower(x, y) \/ lower(y, x)
  BY <1>2 DEF lower, HashOrder, HashesOrdered
<1>5. \A x, y \in P : rank(x) = rank(y) => x = y
  <2> HIDE DEF rank
  <2>1. SUFFICES ASSUME NEW x \in P, NEW y \in P, rank(x) = rank(y) PROVE x = y
    OBVIOUS
  <2>2. rank(x) \in Nat /\ rank(y) \in Nat
    BY <1>1
  <2>3. lower(x, y) => rank(y) < rank(x)
    BY <1>3
  <2>4. lower(y, x) => rank(x) < rank(y)
    BY <1>3
  <2>5. QED
    BY <1>4, <2>1, <2>2, <2>3, <2>4
<1>6. f \in Injection(S, T)
  <2>1. \A x \in S : x \in P /\ rank(x) \in T
    <3>1. SUFFICES ASSUME NEW x \in S PROVE x \in P /\ rank(x) \in T
      OBVIOUS
    <3>2. PICK r : r = rank(x)
      OBVIOUS
    <3>3. x \in P /\ r \in Nat /\ r < MAX_FORK_STORE
      BY <1>1, <3>2
    <3>4. MAX_FORK_STORE \in Nat
      BY ForkChoiceConstants
    <3>5. r \in T
      BY <3>3, <3>4
    <3>6. QED
      BY <3>2, <3>3, <3>5
  <2>2. \A x, y \in S : f[x] = f[y] => x = y
    <3> HIDE DEF rank
    <3>1. QED
      BY <1>5
  <2>3. f \in [S -> T]
    <3> HIDE DEF rank, S, T
    <3>1. QED
      BY <2>1
  <2> HIDE DEF f, S, T
  <2>4. QED
    BY <2>2, <2>3 DEF Injection, IsInjective
<1>7. IsFiniteSet(T) /\ Cardinality(T) = MAX_FORK_STORE
  BY FS_Interval, ForkChoiceConstants
<1>8. Capped(S)
  <2> HIDE DEF f, S, T
  <2>1. QED
    BY <1>6, <1>7, FS_Injection DEF Capped
<1>9. QED
  BY <1>8

LEMMA StoreGood ==
  ASSUME HashOrder, NEW c, Good(c), NEW b \in Blocks, b # <<>>
  PROVE  Good(store_fork_block(c, b)) /\ store_fork_block(c, b).blocks = c.blocks
<1>1. PICK d : d = store_fork_block(c, b)
  OBVIOUS
<1>2. PICK P, F : /\ d = [c EXCEPT !.fork_store = F]
                  /\ P = {x \in c.fork_store \cup {b} : Len(x) > finalized(c.blocks)}
                  /\ F = {x \in P : Cardinality({z \in P : lower(x, z)}) < MAX_FORK_STORE}
  BY <1>1 DEF store_fork_block
<1>3. c \in Chains /\ IsFiniteSet(c.fork_store) /\ Follows(c)
  BY DEF Good, Capped
<1>4. /\ d \in Chains /\ d.fork_store = F /\ d.blocks = c.blocks /\ d.state = c.state
      /\ d.recent_states = c.recent_states
  BY <1>2, <1>3 DEF Chains
<1>5. Capped(F)
  <2>1. IsFiniteSet(P) /\ P \subseteq Blocks
    <3>1. PICK g : g = c.fork_store
      OBVIOUS
    <3>2. IsFiniteSet(g) /\ g \subseteq Blocks
      BY <1>3, <3>1 DEF Chains
    <3>3. IsFiniteSet(g \cup {b})
      BY <3>2, FS_AddElement
    <3>4. P \subseteq g \cup {b}
      BY <1>2, <3>1
    <3>5. IsFiniteSet(P)
      BY <3>3, <3>4, FS_Subset
    <3>6. QED
      BY <3>2, <3>4, <3>5
  <2>2. QED
    BY <1>2, <2>1, CapHolds
<1>6. Follows(d)
  BY <1>3, <1>4 DEF Follows
<1>7. QED
  BY <1>1, <1>4, <1>5, <1>6 DEF Good

\* The blocks of a chain above height i: one for each height.
LEMMA CountedPrefixes ==
  ASSUME NEW b \in Blocks, NEW i \in Nat, i <= Len(b)
  PROVE  /\ IsFiniteSet({upto(b, k) : k \in (i + 1)..Len(b)})
         /\ Cardinality({upto(b, k) : k \in (i + 1)..Len(b)}) = Len(b) - i
<1> DEFINE S == (i + 1)..Len(b)
           T == {upto(b, k) : k \in S}
           f == [k \in S |-> upto(b, k)]
<1>1. IsFiniteSet(S) /\ Cardinality(S) = Len(b) - i
  <2>1. PICK l, m : l = i + 1 /\ m = Len(b)
    OBVIOUS
  <2>2. l \in Int /\ m \in Int /\ l <= m + 1
    BY <2>1, Views
  <2>3. IsFiniteSet(l..m) /\ Cardinality(l..m) = IF l > m THEN 0 ELSE m - l + 1
    BY <2>2, FS_Interval
  <2>4. Cardinality(l..m) = m - i
    BY <2>1, <2>2, <2>3
  <2>5. QED
    BY <2>1, <2>3, <2>4
<1>2. f \in Surjection(S, T)
  BY DEF Surjection
<1>3. f \in Injection(S, T)
  <2>1. ASSUME NEW j \in S, NEW k \in S, f[j] = f[k] PROVE j = k
    <3>1. j \in 0..Len(b) /\ k \in 0..Len(b)
      BY Views
    <3>2. Len(upto(b, j)) = j /\ Len(upto(b, k)) = k
      BY <3>1, Prefix
    <3>3. QED
      BY <2>1, <3>2
  <2>2. f \in [S -> T]
    OBVIOUS
  <2> HIDE DEF f, S, T
  <2>3. QED
    BY <2>1, <2>2 DEF Injection, IsInjective
<1>4. QED
  <2> HIDE DEF f
  <2>1. IsFiniteSet(T) /\ Cardinality(T) = Cardinality(S)
    BY <1>1, <1>2, <1>3, FS_Surjection
  <2>2. QED
    BY <1>1, <2>1

\* Replacing the part of the chain above a common ancestor that is not below the frontier.
LEMMA ReorgGood ==
  ASSUME NEW c, Good(c), NEW b \in Blocks, b # <<>>,
         fork_choice_prefers(b, c.blocks), ca_height(c, b) >= finalized(c.blocks),
         \A k \in (ca_height(c, b) + 1)..Len(b) : upto(b, k) \in c.fork_store
  PROVE  Good(reorged(c, b)) /\ Onward(c.blocks, reorged(c, b).blocks)
<1> DEFINE ca == ca_height(c, b)
           n == Len(b)
           gone == {upto(c.blocks, k) : k \in (ca + 1)..Len(c.blocks)}
           mine == {upto(b, k) : k \in (ca + 1)..n}
           F == {x \in (c.fork_store \ mine) \cup gone : Len(x) > finalized(b)}
           kept == {h \in DOMAIN c.recent_states \cup ca..(n - 1) :
                      h + FINALITY_DEPTH + 1 >= n}
           recent == [h \in kept |-> IF h \in ca..(n - 1) THEN upto(b, h)
                                     ELSE c.recent_states[h]]
<1>1. /\ c \in Chains /\ c.blocks \in Blocks /\ c.state = c.blocks
      /\ c.recent_states \in Recents /\ IsFiniteSet(c.fork_store)
      /\ c.fork_store \subseteq Blocks \ {<<>>}
      /\ n \in Nat /\ Len(c.blocks) \in Nat /\ Follows(c)
  BY Views DEF Good, Chains, Follows, Capped
<1>2. /\ ca \in 0..(n - 1) /\ ca <= Len(c.blocks)
      /\ \A j \in 0..ca : upto(c.blocks, j) = upto(b, j)
  BY <1>1, AncestorExists
<1>3. PICK d : d = reorged(c, b)
  OBVIOUS
<1>4. d = [c EXCEPT !.blocks = b, !.state = b, !.fork_store = F, !.recent_states = recent]
  BY <1>1, <1>3 DEF reorged, Chains
<1>5. F \subseteq Blocks \ {<<>>} /\ Capped(F)
  <2>1. gone \subseteq Blocks \ {<<>>}
    <3>1. ASSUME NEW k \in (ca + 1)..Len(c.blocks)
          PROVE  upto(c.blocks, k) \in Blocks /\ upto(c.blocks, k) # <<>>
      <4>1. k \in 0..Len(c.blocks) /\ k > 0
        BY <1>1, <1>2
      <4>2. upto(c.blocks, k) \in Blocks /\ Len(upto(c.blocks, k)) = k
        BY <1>1, <4>1, Prefix
      <4>3. Len(<<>>) = 0
        OBVIOUS
      <4>4. QED
        BY <4>1, <4>2, <4>3
    <3>2. QED
      BY <3>1
  <2> HIDE DEF ca
  <2>2. ca \in Nat /\ ca <= n
    BY <1>1, <1>2
  <2>3. IsFiniteSet(gone) /\ Cardinality(gone) = Len(c.blocks) - ca
    <3>1. c.blocks \in Blocks /\ ca <= Len(c.blocks)
      BY <1>1, <1>2
    <3>2. QED
      BY <2>2, <3>1, CountedPrefixes
  <2>4. IsFiniteSet(mine) /\ Cardinality(mine) = n - ca /\ mine \subseteq c.fork_store
    <3>1. IsFiniteSet(mine) /\ Cardinality(mine) = n - ca
      BY <2>2, CountedPrefixes
    <3>2. mine \subseteq c.fork_store
      BY DEF ca
    <3>3. QED
      BY <3>1, <3>2
  <2>5. n >= Len(c.blocks)
    BY <1>1 DEF fork_choice_prefers
  <2> HIDE DEF gone, mine
  <2>6. F \subseteq (c.fork_store \ mine) \cup gone
    BY DEF F
  <2>7. Capped(F)
    <3>1. Cardinality(c.fork_store) <= MAX_FORK_STORE /\ Cardinality(c.fork_store) \in Nat
      BY <1>1, FS_CardinalityType DEF Good, Capped
    <3>2. PICK A : A = c.fork_store \ mine
      OBVIOUS
    <3>3. IsFiniteSet(A) /\ Cardinality(A) = Cardinality(c.fork_store) - (n - ca)
      <4>1. c.fork_store \cap mine = mine
        BY <2>4
      <4>2. PICK K : K = c.fork_store
        OBVIOUS
      <4>3. IsFiniteSet(K \ mine)
            /\ Cardinality(K \ mine) = Cardinality(K) - Cardinality(K \cap mine)
        BY <1>1, <4>2, FS_Difference
      <4>4. QED
        BY <2>4, <3>2, <4>1, <4>2, <4>3
    <3>4. IsFiniteSet(A \cup gone)
          /\ Cardinality(A \cup gone) = Cardinality(A) + Cardinality(gone) - Cardinality(A \cap gone)
      BY <2>3, <3>3, FS_Union
    <3>5. Cardinality(A \cap gone) \in Nat /\ Cardinality(gone) \in Nat /\ Cardinality(A) \in Nat
      BY <2>3, <3>3, FS_CardinalityType, FS_Subset
    <3>6. Cardinality(A \cup gone) <= MAX_FORK_STORE /\ Cardinality(A \cup gone) \in Nat
      <4>1. PICK u, a, g, m, w, k :
              /\ u = Cardinality(A \cup gone) /\ a = Cardinality(A) /\ g = Cardinality(gone)
              /\ m = Cardinality(A \cap gone) /\ w = Len(c.blocks)
              /\ k = Cardinality(c.fork_store)
        OBVIOUS
      <4>2. u \in Nat
        BY <3>4, <4>1, FS_CardinalityType
      <4>3. /\ a = k - (n - ca) /\ g = w - ca /\ u = a + g - m /\ n >= w
            /\ k <= MAX_FORK_STORE
        BY <2>3, <2>5, <3>1, <3>3, <3>4, <4>1
      <4>4. /\ n \in Nat /\ w \in Nat /\ ca \in Nat /\ MAX_FORK_STORE \in Nat
            /\ a \in Nat /\ g \in Nat /\ m \in Nat /\ k \in Nat
        BY <1>1, <2>2, <3>1, <3>5, <4>1, ForkChoiceConstants
      <4>5. u <= MAX_FORK_STORE
        <5> HIDE DEF n
        <5>1. QED
          BY <4>2, <4>3, <4>4
      <4>6. QED
        BY <4>1, <4>2, <4>5
    <3>7. /\ IsFiniteSet(F) /\ Cardinality(F) <= Cardinality(A \cup gone)
          /\ Cardinality(F) \in Nat
      BY <2>6, <3>2, <3>4, FS_Subset, FS_CardinalityType
    <3> HIDE DEF F
    <3>8. QED
      BY <3>6, <3>7, ForkChoiceConstants DEF Capped
  <2>8. QED
    BY <1>1, <2>1, <2>6, <2>7
<1>6. recent \in Recents
  <2>1. PICK D \in SUBSET Nat : c.recent_states \in [D -> Blocks]
    BY <1>1 DEF Recents
  <2>2. kept \subseteq Nat /\ kept \subseteq D \cup ca..(n - 1)
    <3>1. ca..(n - 1) \subseteq Nat /\ DOMAIN c.recent_states = D
      BY <1>1, <1>2, <2>1
    <3>2. kept \subseteq D \cup ca..(n - 1)
      BY <3>1
    <3> HIDE DEF kept
    <3>3. QED
      BY <3>1, <3>2
  <2>3. \A h \in ca..(n - 1) : upto(b, h) \in Blocks
    BY <1>1, <1>2, Prefix
  <2> HIDE DEF kept
  <2>4. recent \in [kept -> Blocks]
    BY <2>1, <2>2, <2>3
  <2>5. QED
    BY <2>2, <2>4 DEF Recents
<1> HIDE DEF F, recent
<1>7. /\ d \in Chains /\ d.blocks = b /\ d.state = b /\ d.fork_store = F
      /\ d.recent_states = recent
  BY <1>1, <1>4, <1>5, <1>6 DEF Chains
<1>8. Follows(d)
  <2>1. ASSUME NEW h \in DOMAIN recent, h < n PROVE recent[h] = upto(b, h)
    <3>1. h \in kept /\ recent[h] = IF h \in ca..(n - 1) THEN upto(b, h)
                                    ELSE c.recent_states[h]
      BY DEF recent
    <3>2. h \in Nat
      BY <1>6 DEF Recents
    <3>3. CASE h \in ca..(n - 1)
      BY <3>1, <3>3
    <3>4. CASE h \notin ca..(n - 1)
      <4>1. h < ca /\ h \in 0..ca /\ h \in DOMAIN c.recent_states
        BY <1>1, <1>2, <2>1, <3>1, <3>2, <3>4
      <4>2. h < Len(c.blocks)
        BY <1>1, <1>2, <3>2, <4>1
      <4>3. c.recent_states[h] = upto(c.blocks, h)
        BY <1>1, <4>1, <4>2 DEF Follows
      <4>4. QED
        BY <1>2, <3>1, <3>4, <4>1, <4>3
    <3>5. QED
      BY <3>3, <3>4
  <2>2. QED
    BY <1>7, <2>1 DEF Follows
<1>9. Onward(c.blocks, b)
  <2>1. finalized(c.blocks) \in 0..ca
    BY <1>1, <1>2, Finalized
  <2>2. Len(b) >= Len(c.blocks)
    BY <1>1 DEF fork_choice_prefers
  <2>3. QED
    BY <1>2, <2>1, <2>2 DEF Onward
<1>10. QED
  BY <1>3, <1>5, <1>7, <1>8, <1>9 DEF Good

LEMMA MaybeReorgGood ==
  ASSUME HashOrder, NEW c, Good(c)
  PROVE  /\ Good(maybe_reorg_to_best_branch(c))
         /\ Onward(c.blocks, maybe_reorg_to_best_branch(c).blocks)
<1>1. CASE candidates(c) = {}
  BY <1>1 DEF maybe_reorg_to_best_branch, Onward
<1>2. CASE candidates(c) # {}
  <2>1. PICK b : b = best(c)
    OBVIOUS
  <2>2. c.fork_store \subseteq Blocks \ {<<>>} /\ IsFiniteSet(c.fork_store)
    BY DEF Good, Chains, Capped
  <2>3. b \in candidates(c)
    BY <1>2, <2>1, <2>2, BestIsCandidate
  <2>4. /\ b \in Blocks /\ b # <<>> /\ fork_choice_prefers(b, c.blocks)
        /\ ca_height(c, b) >= finalized(c.blocks)
        /\ \A k \in (ca_height(c, b) + 1)..Len(b) : upto(b, k) \in c.fork_store
    BY <2>2, <2>3 DEF candidates, assemble_fork_branch
  <2>5. Good(reorged(c, b)) /\ Onward(c.blocks, reorged(c, b).blocks)
    BY <2>4, ReorgGood
  <2>6. maybe_reorg_to_best_branch(c) \in {c, reorged(c, b)}
    BY <1>2, <2>1 DEF maybe_reorg_to_best_branch, execute_reorg
  <2>7. QED
    BY <2>5, <2>6 DEF Onward
<1>3. QED
  BY <1>1, <1>2

LEMMA ConsiderGood ==
  ASSUME HashOrder, NEW c, Good(c), NEW b \in Blocks, b # <<>>
  PROVE  /\ Good(consider_competing_block(c, b))
         /\ Onward(c.blocks, consider_competing_block(c, b).blocks)
<1>1. PICK d : d = store_fork_block(c, b)
  OBVIOUS
<1>2. Good(d) /\ d.blocks = c.blocks
  BY <1>1, StoreGood
<1>3. Good(maybe_reorg_to_best_branch(d)) /\ Onward(d.blocks, maybe_reorg_to_best_branch(d).blocks)
  BY <1>2, MaybeReorgGood
<1>4. consider_competing_block(c, b) \in {c, maybe_reorg_to_best_branch(d)}
  BY <1>1 DEF consider_competing_block
<1>5. QED
  BY <1>2, <1>3, <1>4 DEF Onward

\* What a block from the network does to a chain, by gossip or in a sync response.
LEMMA OnBlockGood ==
  ASSUME HashOrder, NEW c, Good(c), NEW b \in Blocks, b # <<>>
  PROVE  Good(on_block(c, b)) /\ Onward(c.blocks, on_block(c, b).blocks)
<1>1. ASSUME ~misfit(c, b)
      PROVE  Good(execute_block(c, b)) /\ Onward(c.blocks, execute_block(c, b).blocks)
  BY <1>1, ExecuteGood DEF misfit
<1>2. Good(rejected(c)) /\ rejected(c).blocks = c.blocks
  BY RejectedGood
<1>3. QED
  BY <1>1, <1>2, ConsiderGood DEF on_block, Onward

LEMMA SyncBlockGood ==
  ASSUME HashOrder, NEW c, Good(c), NEW b \in Blocks, b # <<>>, NEW raw, NEW forks
  PROVE  /\ Good(sync_block(c, b, raw, forks).c)
         /\ Onward(c.blocks, sync_block(c, b, raw, forks).c.blocks)
<1>1. ASSUME ~misfit(c, b)
      PROVE  Good(execute_block(c, b)) /\ Onward(c.blocks, execute_block(c, b).blocks)
  BY <1>1, ExecuteGood DEF misfit
<1>2. Good(rejected(c)) /\ rejected(c).blocks = c.blocks
  BY RejectedGood
<1>3. \/ sync_block(c, b, raw, forks).c \in {c, consider_competing_block(c, b), rejected(c)}
      \/ ~misfit(c, b) /\ sync_block(c, b, raw, forks).c = execute_block(c, b)
  BY DEF sync_block
<1>4. QED
  BY <1>1, <1>2, <1>3, ConsiderGood DEF Onward

----------------------------------------------------------------------------
(***************************************************************************)
(* All nodes.  Every block on the way to a node is a block of somebody's   *)
(* chain, never the genesis block.                                         *)
(***************************************************************************)
Received == [block : Blocks \ {<<>>}, raw : BOOLEAN]

Answers == [phase : {"idle", "response", "batch"}, todo : Seq(Received),
            fork_seen : BOOLEAN, head : Nat]

Pulls == [peer : SUBSET Nodes, tip : Nat, first : Nat \ {0}, last : Nat]

Inv ==
  /\ DOMAIN chain = Nodes /\ \A n \in Nodes : Good(chain[n])
  /\ disk \in [Nodes -> Blocks]
  /\ gossip \subseteq Blocks \ {<<>>}
  /\ sync \in [Nodes -> Answers]
  /\ pull \in [Nodes -> Pulls]
  /\ faults \in [crashes : Nat, lost : Nat]

LEMMA LoadGood ==
  ASSUME NEW b \in Blocks
  PROVE  Good(load_into(b)) /\ load_into(b).blocks = b
<1>1. [h \in {} |-> b] \in Recents
  <2>1. [h \in {} |-> b] \in [{} -> Blocks]
    OBVIOUS
  <2>2. QED
    BY <2>1 DEF Recents
<1>2. Len(b) \in Nat
  BY Views
<1>3. PICK r : r = [h \in {} |-> b]
  OBVIOUS
<1>4. load_into(b) = [blocks |-> b, state |-> b, recent_states |-> r, fork_store |-> {},
                     restored |-> Len(b)]
  BY <1>3 DEF load_into
<1>5. DOMAIN r = {} /\ r \in Recents
  BY <1>1, <1>3
<1>6. load_into(b) \in Chains
  BY <1>2, <1>4, <1>5 DEF Chains
<1>7. QED
  BY <1>4, <1>5, <1>6, FS_EmptySet, ForkChoiceConstants DEF Good, Follows, Capped

LEMMA InitInv == Init => Inv
<1> SUFFICES ASSUME Init PROVE Inv
  OBVIOUS
<1>1. <<>> \in Blocks
  BY EmptySeq DEF Blocks
<1>2. \A n \in Nodes : Good(chain[n])
  BY <1>1, LoadGood DEF Init
<1>3. idle \in Answers /\ no_pull \in Pulls
  BY EmptySeq DEF idle, Answers, no_pull, Pulls
<1>4. QED
  BY <1>1, <1>2, <1>3 DEF Init, Inv

\* What a proposer makes extends its tip.
LEMMA MadeBlock ==
  ASSUME Inv, NEW n \in Nodes, NEW view, NEW b \in makes(n, view)
  PROVE  /\ b \in Blocks /\ b # <<>>
         /\ Len(b) = Len(chain[n].blocks) + 1 /\ upto(b, Len(b) - 1) = chain[n].blocks
<1>1. chain[n].blocks \in Blocks
  BY DEF Inv, Good, Chains
<1>2. PICK e \in Entries : b = Append(chain[n].blocks, e)
  BY DEF makes
<1>3. PICK t : t = chain[n].blocks
  OBVIOUS
<1>4. /\ b \in Blocks /\ b # <<>> /\ Len(b) = Len(t) + 1 /\ Len(t) \in Nat
      /\ \A i \in 1..Len(t) : b[i] = t[i]
  BY <1>1, <1>2, <1>3, AppendProperties DEF Blocks
<1>5. Len(b) - 1 = Len(t) /\ Len(t) \in 0..Len(b)
  BY <1>4
<1>6. upto(b, Len(t)) = t
  <2>1. /\ upto(b, Len(t)) \in Blocks /\ Len(upto(b, Len(t))) = Len(t)
        /\ \A i \in 1..Len(t) : upto(b, Len(t))[i] = b[i]
    BY <1>4, <1>5, Prefix
  <2>2. QED
    BY <1>1, <1>3, <1>4, <2>1, SameBlock
<1>7. QED
  BY <1>3, <1>4, <1>5, <1>6

\* What a node asks for.
LEMMA MaybeSyncTyped ==
  ASSUME NEW c, c.blocks \in Blocks, NEW m \in Nodes, NEW tip \in Nat
  PROVE  maybe_sync(c, m, tip) \in Pulls
<1>1. Len(c.blocks) \in Nat /\ SYNC_MAX_BATCH \in Nat
  BY Views, ForkChoiceConstants
<1>2. no_pull \in Pulls
  BY DEF no_pull, Pulls
<1>3. asks(m, tip, Len(c.blocks) + 1, Smaller(tip, Len(c.blocks) + SYNC_MAX_BATCH)) \in Pulls
  BY <1>1 DEF asks, Pulls, Smaller
<1>4. QED
  BY <1>2, <1>3 DEF maybe_sync

LEMMA BackfillTyped ==
  ASSUME NEW c, c.blocks \in Blocks, NEW m \in Nodes, NEW tip \in Nat
  PROVE  request_fork_backfill(c, m, tip) \in Pulls
<1>1. Len(c.blocks) \in Nat /\ finalized(c.blocks) \in Nat /\ SYNC_MAX_BATCH \in Nat \ {0}
  BY Views, Finalized, ForkChoiceConstants
<1>2. PICK first \in Nat \ {0} : first = finalized(c.blocks) + 1
  BY <1>1
<1>3. no_pull \in Pulls
  BY DEF no_pull, Pulls
<1>4. asks(m, tip, first, Smaller(Len(c.blocks), first + SYNC_MAX_BATCH - 1)) \in Pulls
  BY <1>1, <1>2 DEF asks, Pulls, Smaller
<1>5. QED
  BY <1>2, <1>3, <1>4 DEF request_fork_backfill

LEMMA AsksTyped ==
  ASSUME NEW m \in Nodes, NEW tip \in Nat, NEW p \in Pulls
  PROVE  /\ asks(m, tip, p.first, p.last) \in Pulls /\ asks(m, tip, 1, 0) \in Pulls
         /\ asks(m, tip, 1, 0).tip = tip
BY DEF asks, Pulls

\* An answer worked off leaves the node idle, or asking for more.
LEMMA ResolvedTyped ==
  ASSUME Inv, NEW n \in Nodes, NEW m \in Nodes, NEW c, c.blocks \in Blocks, NEW p \in Pulls,
         NEW forks, NEW progressed, resolved(n, m, c, p, forks, progressed)
  PROVE  /\ sync' = [sync EXCEPT ![n] = idle] /\ sync' \in [Nodes -> Answers]
         /\ pull' \in [Nodes -> Pulls]
<1>1. idle \in Answers /\ no_pull \in Pulls
  BY EmptySeq DEF idle, Answers, no_pull, Pulls
<1>2. p.tip \in Nat
  BY DEF Pulls
<1>3. \A count : asks_on(c, p, m, forks, progressed, count) \in Pulls
  BY <1>1, <1>2, MaybeSyncTyped, BackfillTyped DEF asks_on
<1>4. QED
  BY <1>1, <1>3 DEF resolved, Inv

\* What a peer answers are blocks of its chain.
LEMMA Responds ==
  ASSUME Inv, NEW m \in Nodes, NEW first \in Nat \ {0}, NEW to \in Nat,
         first <= to, to <= Len(chain[m].blocks)
  PROVE  response(m, first, to) \in Answers
<1> DEFINE a == chain[m].blocks
           answer == [i \in 1..(to - first + 1) |->
                LET b == upto(a, first + i - 1) IN
                [block |-> b, raw |-> Len(b) > chain[m].restored]]
<1>1. a \in Blocks /\ Len(a) \in Nat
  BY Views DEF Inv, Good, Chains
<1>3. ASSUME NEW i \in 1..(to - first + 1)
      PROVE  [block |-> upto(a, first + i - 1), raw |-> Len(upto(a, first + i - 1)) > chain[m].restored]
               \in Received
  <2>1. first + i - 1 \in 0..Len(a) /\ first + i - 1 > 0
    BY <1>1
  <2>2. PICK b : b = upto(a, first + i - 1)
    OBVIOUS
  <2>3. b \in Blocks /\ Len(b) > 0
    BY <1>1, <2>1, <2>2, Prefix
  <2>4. b # <<>>
    BY <2>3
  <2>5. (Len(b) > chain[m].restored) \in BOOLEAN
    OBVIOUS
  <2>6. [block |-> b, raw |-> Len(b) > chain[m].restored] \in Received
    BY <2>3, <2>4, <2>5 DEF Received
  <2>7. QED
    BY <2>2, <2>6
<1>4. answer \in [1..(to - first + 1) -> Received]
  BY <1>3
<1>5. answer \in Seq(Received)
  <2>1. to - first + 1 \in Nat
    OBVIOUS
  <2> HIDE DEF answer
  <2>2. QED
    BY <1>4, <2>1, SeqDef
<1>6. response(m, first, to) =
        [phase |-> "response", fork_seen |-> FALSE, head |-> 0, todo |-> answer]
  BY DEF response
<1> HIDE DEF answer
<1>7. QED
  BY <1>5, <1>6 DEF Answers

LEMMA Serves ==
  ASSUME Inv, NEW n \in Nodes, NEW m \in Nodes,
         NEW first, first = pull[n].first, NEW to, to = served(m, first, pull[n].last)
  PROVE  /\ first \in Nat \ {0} /\ to \in Int /\ to <= Len(chain[m].blocks)
         /\ first <= to => to \in Nat
<1>1. pull[n] \in Pulls /\ chain[m].blocks \in Blocks
  BY DEF Inv, Good, Chains
<1>2. first \in Nat \ {0} /\ pull[n].last \in Nat /\ Len(chain[m].blocks) \in Nat
  BY <1>1, Views DEF Pulls
<1>3. PICK k \in Nat, l \in Nat : l = pull[n].last /\ k = Len(chain[m].blocks)
  BY <1>2
<1>4. to = Smaller(l, Smaller(k, first + SYNC_MAX_BATCH - 1))
  BY <1>3, Zenon DEF served
<1>5. SYNC_MAX_BATCH \in Nat
  BY ForkChoiceConstants
<1>6. first \in Nat \ {0} /\ to \in Int /\ to <= k /\ (first <= to => to \in Nat)
  BY <1>2, <1>4, <1>5 DEF Smaller
<1>7. QED
  BY <1>3, <1>6

\* How a step may change the chains: one node's tip moves onward, or it restarts.
Moves ==
  \/ UNCHANGED <<chain, disk>>
  \/ \E n \in Nodes :
       /\ DOMAIN chain' = Nodes /\ \A m \in Nodes \ {n} : chain'[m] = chain[m]
       /\ Good(chain'[n]) /\ Onward(chain[n].blocks, chain'[n].blocks)
       /\ \/ disk' = disk
          \/ disk' = [disk EXCEPT ![n] = chain'[n].blocks]
  \/ \E n \in Nodes :
       /\ chain' = [chain EXCEPT ![n] = load_into(disk[n])]
       /\ disk' = disk /\ faults'.crashes # faults.crashes

LEMMA TickStep ==
  ASSUME Inv, NEW n \in Nodes, Tick(n)
  PROVE  Moves /\ gossip' \subseteq Blocks \ {<<>>}
<1>1. Good(chain[n]) /\ DOMAIN chain = Nodes /\ gossip \subseteq Blocks \ {<<>>}
  BY DEF Inv
<1>2. PICK view : \/ UNCHANGED <<chain, gossip>>
                  \/ \E b \in makes(n, view) :
                       /\ chain' = [chain EXCEPT ![n] = execute_block(@, b)]
                       /\ gossip' = gossip \cup {b}
  BY DEF Tick
<1>3. disk' = [disk EXCEPT ![n] = chain'[n].blocks]
  BY DEF Tick
<1>4. CASE UNCHANGED <<chain, gossip>>
  BY <1>1, <1>3, <1>4 DEF Moves, Onward
<1>5. ASSUME NEW b \in makes(n, view), chain' = [chain EXCEPT ![n] = execute_block(@, b)],
             gossip' = gossip \cup {b}
      PROVE  Moves /\ gossip' \subseteq Blocks \ {<<>>}
  <2>1. /\ b \in Blocks /\ b # <<>>
        /\ Len(b) = Len(chain[n].blocks) + 1 /\ upto(b, Len(b) - 1) = chain[n].blocks
    BY MadeBlock
  <2>2. chain'[n] = execute_block(chain[n], b) /\ DOMAIN chain' = Nodes
        /\ \A m \in Nodes \ {n} : chain'[m] = chain[m]
    BY <1>1, <1>5
  <2>3. Good(chain'[n]) /\ Onward(chain[n].blocks, chain'[n].blocks)
    BY <1>1, <2>1, <2>2, ExecuteGood
  <2>4. QED
    BY <1>1, <1>3, <1>5, <2>1, <2>2, <2>3 DEF Moves
<1>6. QED
  BY <1>2, <1>4, <1>5

LEMMA OnBlockStep ==
  ASSUME HashOrder, Inv, NEW n \in Nodes, NEW m \in Nodes, NEW b \in gossip, OnBlock(n, m, b)
  PROVE  Moves /\ pull' \in [Nodes -> Pulls]
<1>1. Good(chain[n]) /\ DOMAIN chain = Nodes /\ b \in Blocks /\ b # <<>>
  BY DEF Inv
<1>2. chain' = [chain EXCEPT ![n] = on_block(chain[n], b)] /\ disk' = disk
  BY DEF OnBlock
<1>3. Moves
  BY <1>1, <1>2, OnBlockGood DEF Moves
<1>4. PICK d : d = on_block(chain[n], b)
  OBVIOUS
<1>5. d.blocks \in Blocks /\ Len(b) \in Nat /\ pull \in [Nodes -> Pulls]
  BY <1>1, <1>4, OnBlockGood, Views DEF Good, Chains, Inv
<1>6. asks(m, Len(b), pull[n].first, pull[n].last) \in Pulls
  BY <1>5, AsksTyped
<1>7. hears(d, pull[n], m, Len(b)) \in Pulls
  BY <1>5, <1>6, MaybeSyncTyped DEF hears
<1>8. pull' \in [Nodes -> Pulls]
  BY <1>4, <1>5, <1>6, <1>7 DEF OnBlock
<1>9. QED
  BY <1>3, <1>8

\* What working off a block does to the answer and to what is asked for.
LEMMA SyncBlockPulls ==
  ASSUME HashOrder, Inv, NEW n \in Nodes, NEW m \in Nodes, SyncBlock(n, m)
  PROVE  /\ sync' \in [Nodes -> Answers] /\ pull' \in [Nodes -> Pulls]
         /\ \A k \in Nodes \ {n} : sync'[k] = sync[k]
         /\ sync'[n].todo = Tail(sync[n].todo) \/ sync'[n] = idle
<1> DEFINE s == sync[n]
           b == Head(s.todo).block
           r == sync_block(chain[n], b, Head(s.todo).raw, s.fork_seen)
           head == IF s.phase = "response" THEN Len(chain[n].blocks) ELSE s.head
           p == IF r.turned THEN asks(m, Len(b), 1, 0) ELSE asks(m, pull[n].tip, 1, 0)
           rest == [phase |-> "batch", todo |-> Tail(s.todo),
                    fork_seen |-> r.fork_seen, head |-> head]
<1>1. /\ Good(chain[n]) /\ sync \in [Nodes -> Answers] /\ s \in Answers
      /\ pull \in [Nodes -> Pulls] /\ pull[n].tip \in Nat
  BY DEF Inv, Pulls
<1>2. s.todo \in Seq(Received) /\ s.todo # <<>>
  BY <1>1 DEF SyncBlock, Answers
<1>3. Head(s.todo) \in Received /\ Tail(s.todo) \in Seq(Received)
  BY <1>2, HeadTailProperties
<1>4. b \in Blocks /\ b # <<>> /\ Len(b) \in Nat
  BY <1>3, Views DEF Received
<1>5. r.c.blocks \in Blocks
  BY <1>1, <1>4, SyncBlockGood DEF Good, Chains
<1>6. r.fork_seen \in BOOLEAN
  <2>1. s.fork_seen \in BOOLEAN
    BY <1>1 DEF Answers
  <2>2. QED
    BY <2>1 DEF sync_block
<1>7. head \in Nat
  BY <1>1, Views DEF Answers, Good, Chains
<1>8. \/ /\ sync' = [sync EXCEPT ![n] = rest] /\ pull' = [pull EXCEPT ![n] = p]
      \/ resolved(n, m, r.c, p, r.fork_seen, Len(r.c.blocks) > head)
  BY DEF SyncBlock
<1> HIDE DEF r, head
<1>9. p \in Pulls
  <2>1. pull[n] \in Pulls
    BY <1>1
  <2>2. asks(m, Len(b), 1, 0) \in Pulls /\ asks(m, pull[n].tip, 1, 0) \in Pulls
    BY <1>1, <1>4, <2>1, AsksTyped
  <2>3. QED
    BY <2>2
<1>10. rest \in Answers
  BY <1>3, <1>6, <1>7 DEF Answers
<1>11. rest.todo = Tail(s.todo)
  OBVIOUS
<1> HIDE DEF p, rest
<1>12. CASE sync' = [sync EXCEPT ![n] = rest] /\ pull' = [pull EXCEPT ![n] = p]
  BY <1>1, <1>9, <1>10, <1>11, <1>12
<1>13. CASE resolved(n, m, r.c, p, r.fork_seen, Len(r.c.blocks) > head)
  <2>1. /\ sync' = [sync EXCEPT ![n] = idle] /\ sync' \in [Nodes -> Answers]
        /\ pull' \in [Nodes -> Pulls]
    BY <1>5, <1>9, <1>13, ResolvedTyped
  <2>2. QED
    BY <1>1, <2>1
<1>14. QED
  BY <1>8, <1>12, <1>13

LEMMA SyncBlockStep ==
  ASSUME HashOrder, Inv, NEW n \in Nodes, NEW m \in Nodes, SyncBlock(n, m)
  PROVE  Moves
<1> DEFINE s == sync[n]
           r == sync_block(chain[n], Head(s.todo).block, Head(s.todo).raw, s.fork_seen)
<1>1. Good(chain[n]) /\ DOMAIN chain = Nodes /\ s \in Answers
  BY DEF Inv
<1>2. s.todo \in Seq(Received) /\ s.todo # <<>>
  BY <1>1 DEF SyncBlock, Answers
<1>3. Head(s.todo) \in Received
  BY <1>2, HeadTailProperties
<1>4. Head(s.todo).block \in Blocks /\ Head(s.todo).block # <<>>
  BY <1>3 DEF Received
<1>5. Good(r.c) /\ Onward(chain[n].blocks, r.c.blocks)
  BY <1>1, <1>4, SyncBlockGood
<1>6. chain' = [chain EXCEPT ![n] = r.c] /\ disk' = disk
  BY DEF SyncBlock
<1> HIDE DEF r
<1>7. QED
  BY <1>1, <1>5, <1>6 DEF Moves

LEMMA HelloStep ==
  ASSUME Inv, NEW n \in Nodes, NEW m \in Nodes, Hello(n, m)
  PROVE  pull' \in [Nodes -> Pulls]
<1>1. Len(chain[m].blocks) \in Nat /\ chain[n].blocks \in Blocks /\ pull \in [Nodes -> Pulls]
  BY Views DEF Inv, Good, Chains
<1>2. PICK tip \in 0..Len(chain[m].blocks) :
        pull' = [pull EXCEPT ![n] = maybe_sync(chain[n], m, tip)]
  BY DEF Hello
<1>3. tip \in Nat
  BY <1>1, <1>2
<1>4. QED
  BY <1>1, <1>2, <1>3, MaybeSyncTyped

\* A request that is answered, or lost.
LEMMA PullStep ==
  ASSUME Inv, NEW n \in Nodes, NEW m \in Nodes, Answer(n, m) \/ Lose(n, m)
  PROVE  sync' \in [Nodes -> Answers] /\ pull' \in [Nodes -> Pulls]
<1>1. chain[n].blocks \in Blocks /\ pull[n] \in Pulls /\ sync \in [Nodes -> Answers]
      /\ pull \in [Nodes -> Pulls]
  BY DEF Inv, Good, Chains
<1>2. CASE resolved(n, m, chain[n], pull[n], FALSE, FALSE)
  BY <1>1, <1>2, ResolvedTyped
<1>3. ASSUME NEW first, first = pull[n].first, NEW to, to = served(m, first, pull[n].last),
             first <= to, sync' = [sync EXCEPT ![n] = response(m, first, to)], pull' = pull
      PROVE  sync' \in [Nodes -> Answers] /\ pull' \in [Nodes -> Pulls]
  <2>1. response(m, first, to) \in Answers
    BY <1>3, Serves, Responds
  <2>2. QED
    BY <1>1, <1>3, <2>1
<1>4. QED
  BY <1>2, <1>3 DEF Answer, Lose

LEMMA RestartStep ==
  ASSUME Inv, NEW n \in Nodes, Restart(n)
  PROVE  Moves /\ gossip' \subseteq Blocks \ {<<>>} /\ sync' \in [Nodes -> Answers]
         /\ pull' \in [Nodes -> Pulls] /\ faults' \in [crashes : Nat, lost : Nat]
<1>1. gossip' \subseteq Blocks \ {<<>>}
  BY MadeBlock DEF Restart, Inv
<1>2. idle \in Answers /\ no_pull \in Pulls
  BY EmptySeq DEF idle, Answers, no_pull, Pulls
<1>3. faults' \in [crashes : Nat, lost : Nat] /\ faults'.crashes # faults.crashes
  BY DEF Restart, Inv
<1>4. sync' \in [Nodes -> Answers] /\ pull' \in [Nodes -> Pulls]
  BY <1>2 DEF Restart, Inv
<1>5. Moves
  BY <1>3 DEF Restart, Moves
<1>6. QED
  BY <1>1, <1>3, <1>4, <1>5

LEMMA NextMoves ==
  ASSUME HashOrder, Inv, [Next]_vars
  PROVE  Moves /\ gossip' \subseteq Blocks \ {<<>>} /\ sync' \in [Nodes -> Answers]
         /\ pull' \in [Nodes -> Pulls] /\ faults' \in [crashes : Nat, lost : Nat]
<1>1. CASE UNCHANGED vars
  BY <1>1 DEF vars, Inv, Moves
<1>2. ASSUME NEW n \in Nodes, Tick(n)
      PROVE  Moves /\ gossip' \subseteq Blocks \ {<<>>} /\ UNCHANGED <<pull, sync, faults>>
  BY <1>2, TickStep DEF Tick
<1>3. ASSUME NEW n \in Nodes, NEW m \in Nodes, NEW b \in gossip, OnBlock(n, m, b)
      PROVE  Moves /\ pull' \in [Nodes -> Pulls] /\ UNCHANGED <<gossip, sync, faults>>
  BY <1>3, OnBlockStep DEF OnBlock
<1>4. ASSUME NEW n \in Nodes, NEW m \in Nodes, Lose(n, m)
      PROVE  Moves /\ gossip' = gossip /\ sync' \in [Nodes -> Answers]
             /\ pull' \in [Nodes -> Pulls] /\ faults' \in [crashes : Nat, lost : Nat]
  <2>1. faults' = [faults EXCEPT !.lost = @ + 1] /\ UNCHANGED <<chain, disk, gossip>>
    BY <1>4 DEF Lose
  <2>2. faults' \in [crashes : Nat, lost : Nat]
    BY <2>1 DEF Inv
  <2>3. QED
    BY <1>4, <2>1, <2>2, PullStep DEF Moves
<1>5. ASSUME NEW n \in Nodes, NEW m \in Nodes, Answer(n, m)
      PROVE  Moves /\ UNCHANGED <<gossip, faults>> /\ sync' \in [Nodes -> Answers]
             /\ pull' \in [Nodes -> Pulls]
  BY <1>5, PullStep DEF Answer, Moves
<1>6. ASSUME NEW n \in Nodes, NEW m \in Nodes, SyncBlock(n, m)
      PROVE  Moves /\ UNCHANGED <<gossip, faults>> /\ sync' \in [Nodes -> Answers]
             /\ pull' \in [Nodes -> Pulls]
  BY <1>6, SyncBlockStep, SyncBlockPulls DEF SyncBlock
<1>7. ASSUME NEW n \in Nodes, NEW m \in Nodes, Hello(n, m)
      PROVE  Moves /\ UNCHANGED <<gossip, sync, faults>> /\ pull' \in [Nodes -> Pulls]
  BY <1>7, HelloStep DEF Hello, Moves
<1>8. QED
  BY <1>1, <1>2, <1>3, <1>4, <1>5, <1>6, <1>7, RestartStep DEF Next, Inv

LEMMA NextKeepsInv ==
  ASSUME HashOrder, Inv, [Next]_vars
  PROVE  Inv'
<1>1. Moves /\ gossip' \subseteq Blocks \ {<<>>} /\ sync' \in [Nodes -> Answers]
      /\ pull' \in [Nodes -> Pulls] /\ faults' \in [crashes : Nat, lost : Nat]
  BY NextMoves
<1>2. DOMAIN chain' = Nodes /\ (\A n \in Nodes : Good(chain'[n])) /\ disk' \in [Nodes -> Blocks]
  <2>1. /\ DOMAIN chain = Nodes /\ disk \in [Nodes -> Blocks]
        /\ \A n \in Nodes : Good(chain[n]) /\ chain[n].blocks \in Blocks
    BY DEF Inv, Good, Chains
  <2>2. CASE UNCHANGED <<chain, disk>>
    BY <2>1, <2>2
  <2>3. ASSUME NEW n \in Nodes, DOMAIN chain' = Nodes,
               \A m \in Nodes \ {n} : chain'[m] = chain[m], Good(chain'[n]),
               disk' = disk \/ disk' = [disk EXCEPT ![n] = chain'[n].blocks]
        PROVE  (\A m \in Nodes : Good(chain'[m])) /\ disk' \in [Nodes -> Blocks]
    <3>1. chain'[n].blocks \in Blocks
      BY <2>3 DEF Good, Chains
    <3>2. QED
      BY <2>1, <2>3, <3>1
  <2>4. ASSUME NEW n \in Nodes, chain' = [chain EXCEPT ![n] = load_into(disk[n])], disk' = disk
        PROVE  /\ DOMAIN chain' = Nodes /\ disk' \in [Nodes -> Blocks]
               /\ \A m \in Nodes : Good(chain'[m])
    BY <2>1, <2>4, LoadGood
  <2>5. QED
    BY <1>1, <2>2, <2>3, <2>4 DEF Moves
<1>3. QED
  BY <1>1, <1>2 DEF Inv

LEMMA SpecInv ==
  ASSUME HashOrder
  PROVE  Spec => []Inv
<1>1. Inv /\ [Next]_vars => Inv'
  BY NextKeepsInv
<1>2. QED
  BY <1>1, InitInv, PTL DEF Spec

\* Through gossip out of order, batches cut short, reorganisations, rejected blocks and
\* restarts, a node's state stays the one after its tip, and a remembered state the one
\* after the canonical block of its height (Chain: execute_block, execute_reorg).
THEOREM StateFollows ==
  ASSUME HashOrder
  PROVE  Spec => []StateFollowsBlocks
<1>1. Inv => StateFollowsBlocks
  BY DEF Inv, Good, Follows, StateFollowsBlocks
<1>2. QED
  BY <1>1, SpecInv, PTL

\* MAX_FORK_STORE is a hard bound on every node's side store, also across a reorganisation,
\* which puts the blocks it displaces into the store without looking at the cap: the
\* branch it takes out of the store is at least as long (store_fork_block, execute_reorg).
THEOREM ForkStoreStaysBounded ==
  ASSUME HashOrder
  PROVE  Spec => []ForkStoreBounded
<1>1. Inv => ForkStoreBounded
  BY DEF Inv, Good, Capped, ForkStoreBounded
<1>2. QED
  BY <1>1, SpecInv, PTL

\* A running node leaves its tip only for one that fork choice prefers, whatever order
\* blocks and responses arrive in (fork_choice_prefers, maybe_reorg_to_best_branch).
THEOREM TipsOnlyImprove ==
  ASSUME HashOrder
  PROVE  Spec => TipsImprove
<1>1. ASSUME Inv, [Next]_vars, faults'.crashes = faults.crashes
      PROVE  \A n \in Nodes : \/ chain'[n].blocks = chain[n].blocks
                              \/ fork_choice_prefers(chain'[n].blocks, chain[n].blocks)
  <2>1. Moves
    BY <1>1, NextMoves
  <2>2. QED
    BY <1>1, <2>1 DEF Moves, Onward
<1>2. QED
  BY <1>1, SpecInv, PTL DEF Spec, TipsImprove

----------------------------------------------------------------------------
(***************************************************************************)
(* The refinement of the append-only log.  The log of a node is its chain  *)
(* up to the finalized frontier.                                           *)
(***************************************************************************)
FinalOf(b) == upto(b, k_deep(b))

LEMMA FinalLen ==
  ASSUME NEW b \in Blocks
  PROVE  /\ k_deep(b) = finalized(b) /\ k_deep(b) \in 0..Len(b)
         /\ FinalOf(b) \in Blocks /\ Len(FinalOf(b)) = k_deep(b)
<1>1. k_deep(b) = finalized(b) /\ k_deep(b) \in 0..Len(b)
  BY Finalized DEF k_deep, finalized
<1>2. QED
  BY <1>1, Prefix DEF FinalOf

\* A tip that moves onward keeps every finalized block.
LEMMA OnwardExtends ==
  ASSUME NEW a \in Blocks, NEW b \in Blocks, Onward(a, b)
  PROVE  Log!extends(FinalOf(b), FinalOf(a))
<1>1. /\ k_deep(a) \in 0..Len(a) /\ k_deep(b) \in 0..Len(b)
      /\ k_deep(a) = finalized(a)
      /\ Len(FinalOf(a)) = k_deep(a) /\ Len(FinalOf(b)) = k_deep(b)
      /\ Len(a) \in Nat /\ Len(b) \in Nat
  BY FinalLen, Views
<1>2. Len(a) <= Len(b) /\ upto(b, k_deep(a)) = upto(a, k_deep(a))
  BY <1>1 DEF Onward
<1>3. k_deep(a) <= k_deep(b)
  BY <1>1, <1>2, ForkChoiceConstants DEF k_deep, Monus
<1>4. upto(upto(b, k_deep(b)), k_deep(a)) = upto(b, k_deep(a))
  <2>1. k_deep(a) \in 0..k_deep(b)
    BY <1>1, <1>3
  <2>2. QED
    BY <1>1, <2>1, PrefixOfPrefix
<1>5. upto(FinalOf(b), Len(FinalOf(a))) = FinalOf(a)
  BY <1>1, <1>2, <1>4 DEF FinalOf
<1>6. QED
  BY <1>1, <1>3, <1>5 DEF Log!extends, upto

logs == [n \in Nodes |-> upto(chain[n].blocks, k_deep(chain[n].blocks))]
saves == [n \in Nodes |-> upto(disk[n], k_deep(disk[n]))]

LEMMA InitLog ==
  ASSUME Init
  PROVE  Log!Init
<1>1. <<>> \in Blocks
  BY EmptySeq DEF Blocks
<1>2. upto(<<>>, k_deep(<<>>)) = <<>>
  <2>1. k_deep(<<>>) = 0
    BY <1>1, FinalLen
  <2>2. QED
    BY <1>1, <2>1, WholePrefix
<1>3. \A n \in Nodes : chain[n].blocks = <<>> /\ disk[n] = <<>>
  BY <1>1, LoadGood DEF Init
<1>4. QED
  BY <1>2, <1>3 DEF Log!Init

LEMMA StepLog ==
  ASSUME Inv, Moves
  PROVE  [Log!Next]_<<logs, saves>>
<1>1. \A n \in Nodes : chain[n].blocks \in Blocks /\ disk[n] \in Blocks
  BY DEF Inv, Good, Chains
<1>2. CASE UNCHANGED <<chain, disk>>
  BY <1>2 DEF logs, saves
<1>3. ASSUME NEW n \in Nodes, \A m \in Nodes \ {n} : chain'[m] = chain[m],
             Good(chain'[n]), Onward(chain[n].blocks, chain'[n].blocks),
             disk' = disk \/ disk' = [disk EXCEPT ![n] = chain'[n].blocks]
      PROVE  Log!Next
  <2>1. chain'[n].blocks \in Blocks
    BY <1>3 DEF Good, Chains
  <2>2. Log!extends(FinalOf(chain'[n].blocks), FinalOf(chain[n].blocks))
    BY <1>1, <1>3, <2>1, OnwardExtends
  <2>3. Log!extends(logs'[n], logs[n])
    BY <2>2 DEF logs, FinalOf
  <2>4. \A m \in Nodes \ {n} : logs'[m] = logs[m] /\ saves'[m] = saves[m]
    BY <1>3 DEF logs, saves, Inv
  <2>5. saves'[n] \in {saves[n], logs'[n]}
    BY <1>3 DEF logs, saves, Inv
  <2>6. QED
    BY <2>3, <2>4, <2>5 DEF Log!Next, Log!others, Log!Advance, logs, saves
<1>4. ASSUME NEW n \in Nodes, chain' = [chain EXCEPT ![n] = load_into(disk[n])], disk' = disk
      PROVE  Log!Next
  <2>1. chain'[n].blocks = disk[n] /\ \A m \in Nodes \ {n} : chain'[m] = chain[m]
    BY <1>1, <1>4, LoadGood DEF Inv
  <2>2. \A m \in Nodes \ {n} : logs'[m] = logs[m] /\ saves'[m] = saves[m]
    BY <1>4, <2>1 DEF logs, saves
  <2>3. logs'[n] = saves[n] /\ saves'[n] = saves[n]
    BY <1>4, <2>1 DEF logs, saves
  <2>4. QED
    BY <2>2, <2>3 DEF Log!Next, Log!others, Log!Crash, logs, saves
<1>5. QED
  BY <1>2, <1>3, <1>4 DEF Moves

\* No reorganisation crosses a finalized block, and a restart goes back no further than
\* the snapshot: gossip, sync, reorganisation and restart implement the append-only log
\* (FINALITY_DEPTH; assemble_fork_branch's check of the ancestor; tick and load_into).
THEOREM FinalizedIsLog ==
  ASSUME HashOrder
  PROVE  Spec => FinalizedIsAppendOnly
<1>1. Inv /\ [Next]_vars => [Log!Next]_<<logs, saves>>
  BY NextMoves, StepLog
<1>2. Spec => Log!Init /\ [][Log!Next]_<<logs, saves>>
  BY <1>1, InitLog, SpecInv, PTL DEF Spec
<1>3. QED
  BY <1>2, PTL DEF FinalizedIsAppendOnly, Log!Spec, logs, saves

----------------------------------------------------------------------------
(***************************************************************************)
(* Whatever a node holds was published, and so was every block it is built *)
(* on: the blocks of its chain, of its side store, of its snapshot and of  *)
(* the answer it works off.                                                *)
(***************************************************************************)
Ancestry(b, G) == \A k \in 1..Len(b) : upto(b, k) \in G

Sourced(c, G) == Ancestry(c.blocks, G) /\ \A x \in c.fork_store : Ancestry(x, G)

Answered(s, G) == \A i \in 1..Len(s.todo) : Ancestry(s.todo[i].block, G)

Published ==
  /\ \A n \in Nodes : /\ Sourced(chain[n], gossip)
                      /\ Ancestry(disk[n], gossip)
                      /\ Answered(sync[n], gossip)
  /\ \A b \in gossip : Ancestry(b, gossip)

LEMMA AncestryGrows ==
  ASSUME NEW G, NEW H, G \subseteq H
  PROVE  /\ \A b : Ancestry(b, G) => Ancestry(b, H)
         /\ \A c : Sourced(c, G) => Sourced(c, H)
         /\ \A s : Answered(s, G) => Answered(s, H)
BY DEF Ancestry, Sourced, Answered

LEMMA AncestryOfPrefix ==
  ASSUME NEW G, NEW b \in Blocks, Ancestry(b, G), NEW k \in 0..Len(b)
  PROVE  Ancestry(upto(b, k), G)
<1>1. PICK p : p = upto(b, k)
  OBVIOUS
<1>2. Len(p) = k /\ Len(b) \in Nat
  BY <1>1, Prefix, Views
<1>3. ASSUME NEW j \in 1..k PROVE upto(p, j) \in G
  <2>1. upto(p, j) = upto(b, j)
    BY <1>1, <1>2, PrefixOfPrefix
  <2>2. j \in 1..Len(b)
    BY <1>2
  <2>3. QED
    BY <2>1, <2>2 DEF Ancestry
<1>4. QED
  BY <1>1, <1>2, <1>3 DEF Ancestry

\* A block that is published after its parent.
LEMMA AncestryMade ==
  ASSUME NEW G, NEW b \in Blocks, Len(b) > 0, Ancestry(upto(b, Len(b) - 1), G)
  PROVE  Ancestry(b, G \cup {b})
<1>1. Len(b) \in Nat
  BY Views
<1>2. PICK p : p = upto(b, Len(b) - 1)
  OBVIOUS
<1>3. Len(p) = Len(b) - 1
  <2>1. Len(b) - 1 \in 0..Len(b)
    BY <1>1
  <2>2. QED
    BY <1>2, <2>1, Prefix
<1>4. ASSUME NEW j \in 1..Len(b) PROVE upto(b, j) \in G \cup {b}
  <2>1. CASE j = Len(b)
    BY <2>1, WholePrefix
  <2>2. CASE j # Len(b)
    <3>1. j \in 1..(Len(b) - 1) /\ j \in 0..(Len(b) - 1) /\ Len(b) - 1 \in 0..Len(b)
      BY <1>1, <2>2
    <3>2. upto(p, j) = upto(b, j)
      BY <1>2, <3>1, PrefixOfPrefix
    <3>3. upto(p, j) \in G
      BY <1>2, <1>3, <3>1 DEF Ancestry
    <3>4. QED
      BY <3>2, <3>3
  <2>3. QED
    BY <2>1, <2>2
<1>5. QED
  BY <1>4 DEF Ancestry

LEMMA Genesis ==
  /\ <<>> \in Blocks /\ Len(<<>>) = 0
  /\ \A G : Ancestry(<<>>, G)
<1>1. <<>> \in Blocks /\ Len(<<>>) = 0
  BY EmptySeq DEF Blocks
<1>2. QED
  BY <1>1 DEF Ancestry

\* Executing, rejecting, storing and reorganising make no block of their own.
LEMMA ExecuteSourced ==
  ASSUME NEW c, Good(c), NEW b, NEW G, Sourced(c, G), Ancestry(b, G)
  PROVE  Sourced(execute_block(c, b), G)
<1>1. c \in Chains
  BY DEF Good
<1>2. execute_block(c, b).blocks = b /\ execute_block(c, b).fork_store = c.fork_store
  BY <1>1 DEF execute_block, Chains
<1>3. QED
  BY <1>2 DEF Sourced

LEMMA RejectedSourced ==
  ASSUME NEW c, Good(c), NEW G, Sourced(c, G)
  PROVE  Sourced(rejected(c), G)
<1>1. c \in Chains
  BY DEF Good
<1>2. rejected(c).blocks = c.blocks /\ rejected(c).fork_store = c.fork_store
  BY <1>1 DEF rejected, Chains
<1>3. QED
  BY <1>2 DEF Sourced

LEMMA StoreSourced ==
  ASSUME NEW c, Good(c), NEW b, NEW G, Sourced(c, G), Ancestry(b, G)
  PROVE  Sourced(store_fork_block(c, b), G)
<1>1. c \in Chains
  BY DEF Good
<1>2. /\ store_fork_block(c, b).blocks = c.blocks
      /\ store_fork_block(c, b).fork_store \subseteq c.fork_store \cup {b}
  BY <1>1 DEF store_fork_block, Chains
<1>3. QED
  BY <1>2 DEF Sourced

LEMMA ReorgSourced ==
  ASSUME NEW c, Good(c), NEW b \in Blocks, b # <<>>, NEW G, Sourced(c, G), Ancestry(b, G)
  PROVE  Sourced(reorged(c, b), G)
<1> DEFINE ca == ca_height(c, b)
           gone == {upto(c.blocks, k) : k \in (ca + 1)..Len(c.blocks)}
<1>1. c \in Chains /\ c.blocks \in Blocks /\ Len(c.blocks) \in Nat
  BY Views DEF Good, Chains
<1>2. reorged(c, b).blocks = b /\ reorged(c, b).fork_store \subseteq c.fork_store \cup gone
  BY <1>1 DEF reorged, Chains
<1>3. ca \in Nat
  BY <1>1, AncestorExists
<1>4. \A x \in gone : Ancestry(x, G)
  <2>1. ASSUME NEW k \in (ca + 1)..Len(c.blocks) PROVE Ancestry(upto(c.blocks, k), G)
    <3>1. k \in 0..Len(c.blocks)
      BY <1>1, <1>3
    <3>2. QED
      BY <1>1, <3>1, AncestryOfPrefix DEF Sourced
  <2>2. QED
    BY <2>1
<1> HIDE DEF gone
<1>5. QED
  BY <1>2, <1>4 DEF Sourced

LEMMA MaybeReorgSourced ==
  ASSUME HashOrder, NEW c, Good(c), NEW G, Sourced(c, G)
  PROVE  Sourced(maybe_reorg_to_best_branch(c), G)
<1>1. CASE candidates(c) = {}
  BY <1>1 DEF maybe_reorg_to_best_branch
<1>2. CASE candidates(c) # {}
  <2>1. PICK b : b = best(c)
    OBVIOUS
  <2>2. c.fork_store \subseteq Blocks \ {<<>>} /\ IsFiniteSet(c.fork_store)
    BY DEF Good, Chains, Capped
  <2>3. b \in candidates(c)
    BY <1>2, <2>1, <2>2, BestIsCandidate
  <2>4. b \in Blocks /\ b # <<>> /\ Ancestry(b, G)
    BY <2>2, <2>3 DEF candidates, Sourced
  <2>5. Sourced(reorged(c, b), G)
    BY <2>4, ReorgSourced
  <2>6. maybe_reorg_to_best_branch(c) \in {c, reorged(c, b)}
    BY <1>2, <2>1 DEF maybe_reorg_to_best_branch, execute_reorg
  <2>7. QED
    BY <2>5, <2>6
<1>3. QED
  BY <1>1, <1>2

LEMMA ConsiderSourced ==
  ASSUME HashOrder, NEW c, Good(c), NEW b \in Blocks, b # <<>>, NEW G, Sourced(c, G),
         Ancestry(b, G)
  PROVE  Sourced(consider_competing_block(c, b), G)
<1>1. PICK d : d = store_fork_block(c, b)
  OBVIOUS
<1>2. Good(d) /\ Sourced(d, G)
  BY <1>1, StoreGood, StoreSourced
<1>3. Sourced(maybe_reorg_to_best_branch(d), G)
  BY <1>2, MaybeReorgSourced
<1>4. consider_competing_block(c, b) \in {c, maybe_reorg_to_best_branch(d)}
  BY <1>1 DEF consider_competing_block
<1>5. QED
  BY <1>3, <1>4

LEMMA BlockSourced ==
  ASSUME HashOrder, NEW c, Good(c), NEW b \in Blocks, b # <<>>, NEW G, Sourced(c, G),
         Ancestry(b, G)
  PROVE  /\ Sourced(on_block(c, b), G)
         /\ \A raw, forks : Sourced(sync_block(c, b, raw, forks).c, G)
<1>1. /\ Sourced(execute_block(c, b), G) /\ Sourced(rejected(c), G)
      /\ Sourced(consider_competing_block(c, b), G)
  BY ExecuteSourced, RejectedSourced, ConsiderSourced
<1>2. on_block(c, b) \in {c, execute_block(c, b), rejected(c), consider_competing_block(c, b)}
  BY DEF on_block
<1>3. \A raw, forks : sync_block(c, b, raw, forks).c
        \in {c, execute_block(c, b), rejected(c), consider_competing_block(c, b)}
  BY DEF sync_block
<1>4. QED
  BY <1>1, <1>2, <1>3

LEMMA LoadSourced ==
  ASSUME NEW b \in Blocks, NEW G, Ancestry(b, G)
  PROVE  Sourced(load_into(b), G)
BY DEF load_into, Sourced

\* What a peer answers was published, as its chain was.
LEMMA ResponseAnswered ==
  ASSUME Inv, Published, NEW m \in Nodes, NEW first \in Nat \ {0}, NEW to \in Nat,
         first <= to, to <= Len(chain[m].blocks)
  PROVE  Answered(response(m, first, to), gossip)
<1> DEFINE a == chain[m].blocks
           answer == [i \in 1..(to - first + 1) |->
                LET b == upto(a, first + i - 1) IN
                [block |-> b, raw |-> Len(b) > chain[m].restored]]
<1>1. a \in Blocks /\ Len(a) \in Nat /\ Ancestry(a, gossip)
  BY Views DEF Inv, Good, Chains, Published, Sourced
<1>3. response(m, first, to) =
        [phase |-> "response", fork_seen |-> FALSE, head |-> 0, todo |-> answer]
  BY DEF response
<1>4. Len(answer) = to - first + 1
  <2>1. DOMAIN answer = 1..(to - first + 1) /\ to - first + 1 \in Nat
    OBVIOUS
  <2>2. PICK f : f = answer
    OBVIOUS
  <2>3. f \in Seq(Received)
    <3>1. response(m, first, to) \in Answers
      BY Responds
    <3> HIDE DEF answer
    <3>2. response(m, first, to).todo = f
      BY <1>3, <2>2
    <3>3. QED
      BY <3>1, <3>2 DEF Answers
  <2>4. DOMAIN f = 1..Len(f) /\ Len(f) \in Nat
    BY <2>3
  <2> HIDE DEF answer
  <2>5. QED
    BY <2>1, <2>2, <2>4
<1>5. ASSUME NEW i \in 1..(to - first + 1) PROVE Ancestry(answer[i].block, gossip)
  <2>1. first + i - 1 \in 0..Len(a)
    BY <1>1
  <2>2. Ancestry(upto(a, first + i - 1), gossip)
    BY <1>1, <2>1, AncestryOfPrefix
  <2>3. answer[i].block = upto(a, first + i - 1)
    OBVIOUS
  <2>4. QED
    BY <2>2, <2>3
<1> HIDE DEF answer
<1>6. response(m, first, to).todo = answer
  BY <1>3
<1>7. QED
  BY <1>4, <1>5, <1>6 DEF Answered

LEMMA IdleAnswered ==
  ASSUME NEW G
  PROVE  Answered(idle, G)
BY DEF idle, Answered

LEMMA TailAnswered ==
  ASSUME NEW G, NEW s \in Answers, s.todo # <<>>, Answered(s, G)
  PROVE  /\ Head(s.todo).block \in Blocks \ {<<>>} /\ Ancestry(Head(s.todo).block, G)
         /\ \A t : t.todo = Tail(s.todo) => Answered(t, G)
<1>1. s.todo \in Seq(Received) /\ Len(s.todo) \in Nat /\ Len(s.todo) > 0
  BY EmptySeq DEF Answers
<1>2. Head(s.todo) = s.todo[1] /\ Head(s.todo) \in Received
  BY <1>1, HeadTailProperties
<1>3. /\ Tail(s.todo) \in Seq(Received) /\ Len(Tail(s.todo)) = Len(s.todo) - 1
      /\ \A i \in 1..(Len(s.todo) - 1) : Tail(s.todo)[i] = s.todo[i + 1]
  BY <1>1, HeadTailProperties
<1>5. \A i \in 1..(Len(s.todo) - 1) : i + 1 \in 1..Len(s.todo)
  BY <1>1
<1>6. \A i \in 1..Len(Tail(s.todo)) : Ancestry(Tail(s.todo)[i].block, G)
  BY <1>1, <1>3, <1>5 DEF Answered
<1>7. Ancestry(Head(s.todo).block, G)
  BY <1>1, <1>2 DEF Answered
<1>8. QED
  BY <1>2, <1>6, <1>7 DEF Received, Answered

\* A made block is published on top of its maker's tip.
LEMMA MadeAncestry ==
  ASSUME Inv, Published, NEW n \in Nodes, NEW view, NEW b \in makes(n, view)
  PROVE  Ancestry(b, gossip \cup {b})
<1>1. /\ b \in Blocks /\ b # <<>>
      /\ Len(b) = Len(chain[n].blocks) + 1 /\ upto(b, Len(b) - 1) = chain[n].blocks
  BY MadeBlock
<1>2. Ancestry(chain[n].blocks, gossip) /\ Len(chain[n].blocks) \in Nat
  BY Views DEF Published, Sourced, Inv, Good, Chains
<1>3. Len(b) > 0
  BY <1>1, <1>2
<1>4. Ancestry(upto(b, Len(b) - 1), gossip)
  BY <1>1, <1>2
<1>5. QED
  BY <1>1, <1>3, <1>4, AncestryMade

\* The three parts of a node, and the blocks published so far, after a step.
LEMMA TickPublished ==
  ASSUME HashOrder, Inv, Published, NEW n \in Nodes, Tick(n)
  PROVE  Published'
<1>1. /\ \A m \in Nodes : /\ Good(chain[m]) /\ Sourced(chain[m], gossip)
                          /\ Ancestry(disk[m], gossip) /\ Answered(sync[m], gossip)
      /\ DOMAIN chain = Nodes /\ disk \in [Nodes -> Blocks]
  BY DEF Inv, Published
<1>2. PICK view : \/ UNCHANGED <<chain, gossip>>
                  \/ \E b \in makes(n, view) :
                       /\ chain' = [chain EXCEPT ![n] = execute_block(@, b)]
                       /\ gossip' = gossip \cup {b}
  BY DEF Tick
<1>3. disk' = [disk EXCEPT ![n] = chain'[n].blocks] /\ sync' = sync
  BY DEF Tick
<1>4. SUFFICES (\A m \in Nodes : Sourced(chain'[m], gossip')) /\ gossip \subseteq gossip'
               /\ \A b \in gossip' : Ancestry(b, gossip')
  <2> SUFFICES ASSUME \A m \in Nodes : Sourced(chain'[m], gossip'), gossip \subseteq gossip',
                      \A b \in gossip' : Ancestry(b, gossip')
               PROVE  Published'
    OBVIOUS
  <2>1. \A m \in Nodes : Ancestry(disk[m], gossip') /\ Answered(sync'[m], gossip')
    BY <1>1, <1>3, AncestryGrows
  <2>2. Ancestry(chain'[n].blocks, gossip')
    BY DEF Sourced
  <2>3. \A m \in Nodes : Ancestry(disk'[m], gossip')
    BY <1>1, <1>3, <2>1, <2>2
  <2>4. QED
    BY <2>1, <2>3 DEF Published
<1>5. CASE UNCHANGED <<chain, gossip>>
  BY <1>1, <1>5 DEF Published
<1>6. ASSUME NEW b \in makes(n, view), chain' = [chain EXCEPT ![n] = execute_block(@, b)],
             gossip' = gossip \cup {b}
      PROVE  (\A m \in Nodes : Sourced(chain'[m], gossip')) /\ gossip \subseteq gossip'
               /\ \A x \in gossip' : Ancestry(x, gossip')
  <2>1. Ancestry(b, gossip')
    BY <1>6, MadeAncestry
  <2>2. \A m \in Nodes : Sourced(chain[m], gossip')
    BY <1>1, <1>6, AncestryGrows
  <2>3. Sourced(execute_block(chain[n], b), gossip')
    BY <1>1, <2>1, <2>2, ExecuteSourced
  <2>4. \A m \in Nodes : Sourced(chain'[m], gossip')
    BY <1>1, <1>6, <2>2, <2>3
  <2>5. \A x \in gossip : Ancestry(x, gossip')
    BY <1>6, AncestryGrows DEF Published
  <2>6. QED
    BY <1>6, <2>1, <2>4, <2>5
<1>7. QED
  BY <1>2, <1>5, <1>6

LEMMA RestartPublished ==
  ASSUME HashOrder, Inv, Published, NEW n \in Nodes, Restart(n)
  PROVE  Published'
<1>1. /\ \A m \in Nodes : /\ Good(chain[m]) /\ Sourced(chain[m], gossip)
                          /\ Ancestry(disk[m], gossip) /\ Answered(sync[m], gossip)
      /\ DOMAIN chain = Nodes /\ disk \in [Nodes -> Blocks] /\ sync \in [Nodes -> Answers]
      /\ \A b \in gossip : Ancestry(b, gossip)
  BY DEF Inv, Published
<1>2. /\ chain' = [chain EXCEPT ![n] = load_into(disk[n])]
      /\ sync' = [sync EXCEPT ![n] = idle] /\ disk' = disk
  BY DEF Restart
<1>3. gossip \subseteq gossip' /\ \A b \in gossip' : Ancestry(b, gossip')
  <2>1. CASE gossip' = gossip
    BY <1>1, <2>1
  <2>2. ASSUME NEW view, NEW b \in makes(n, view), gossip' = gossip \cup {b}
        PROVE  gossip \subseteq gossip' /\ \A x \in gossip' : Ancestry(x, gossip')
    <3>1. Ancestry(b, gossip')
      BY <2>2, MadeAncestry
    <3>2. \A x \in gossip : Ancestry(x, gossip')
      BY <1>1, <2>2, AncestryGrows
    <3>3. QED
      BY <2>2, <3>1, <3>2
  <2>3. QED
    BY <2>1, <2>2 DEF Restart
<1>4. \A m \in Nodes : /\ Sourced(chain[m], gossip') /\ Ancestry(disk[m], gossip')
                       /\ Answered(sync[m], gossip')
  BY <1>1, <1>3, AncestryGrows
<1>5. \A m \in Nodes : Sourced(chain'[m], gossip')
  BY <1>1, <1>2, <1>4, LoadSourced
<1>6. \A m \in Nodes : Answered(sync'[m], gossip')
  BY <1>1, <1>2, <1>4, IdleAnswered
<1>7. QED
  BY <1>2, <1>3, <1>4, <1>5, <1>6 DEF Published

LEMMA SyncBlockPublished ==
  ASSUME HashOrder, Inv, Published, NEW n \in Nodes, NEW m \in Nodes, SyncBlock(n, m)
  PROVE  Published'
<1> DEFINE s == sync[n]
           r == sync_block(chain[n], Head(s.todo).block, Head(s.todo).raw, s.fork_seen)
<1>1. /\ \A k \in Nodes : /\ Good(chain[k]) /\ Sourced(chain[k], gossip)
                          /\ Ancestry(disk[k], gossip) /\ Answered(sync[k], gossip)
      /\ DOMAIN chain = Nodes /\ s \in Answers
      /\ \A b \in gossip : Ancestry(b, gossip)
  BY DEF Inv, Published
<1>2. s.todo # <<>> /\ chain' = [chain EXCEPT ![n] = r.c] /\ disk' = disk /\ gossip' = gossip
  BY DEF SyncBlock
<1>3. /\ Head(s.todo).block \in Blocks \ {<<>>} /\ Ancestry(Head(s.todo).block, gossip)
      /\ \A t : t.todo = Tail(s.todo) => Answered(t, gossip)
  BY <1>1, <1>2, TailAnswered
<1>4. Sourced(r.c, gossip)
  BY <1>1, <1>3, BlockSourced
<1>5. Answered(sync'[n], gossip) /\ \A k \in Nodes \ {n} : sync'[k] = sync[k]
  BY <1>3, SyncBlockPulls, IdleAnswered
<1> HIDE DEF r
<1>8. QED
  BY <1>1, <1>2, <1>4, <1>5 DEF Published

LEMMA PullPublished ==
  ASSUME Inv, Published, NEW n \in Nodes, NEW m \in Nodes, Answer(n, m) \/ Lose(n, m)
  PROVE  Published'
<1>1. UNCHANGED <<chain, disk, gossip>> /\ sync \in [Nodes -> Answers]
  BY DEF Answer, Lose, Inv
<1>2. SUFFICES Answered(sync'[n], gossip) /\ \A k \in Nodes \ {n} : sync'[k] = sync[k]
  BY <1>1 DEF Published
<1>3. CASE resolved(n, m, chain[n], pull[n], FALSE, FALSE)
  BY <1>1, <1>3, IdleAnswered DEF resolved
<1>4. ASSUME NEW first, first = pull[n].first, NEW to, to = served(m, first, pull[n].last),
             first <= to, sync' = [sync EXCEPT ![n] = response(m, first, to)]
      PROVE  Answered(sync'[n], gossip) /\ \A k \in Nodes \ {n} : sync'[k] = sync[k]
  <2>1. Answered(response(m, first, to), gossip)
    BY <1>4, Serves, ResponseAnswered
  <2>2. QED
    BY <1>1, <1>4, <2>1
<1>5. QED
  BY <1>3, <1>4 DEF Answer, Lose

LEMMA NextKeepsPublished ==
  ASSUME HashOrder, Inv, Published, [Next]_vars
  PROVE  Published'
<1>1. CASE UNCHANGED vars
  BY <1>1 DEF vars, Published
<1>2. ASSUME NEW n \in Nodes, NEW m \in Nodes, NEW b \in gossip, OnBlock(n, m, b)
      PROVE  Published'
  <2>1. Good(chain[n]) /\ DOMAIN chain = Nodes /\ b \in Blocks /\ b # <<>>
        /\ Sourced(chain[n], gossip) /\ Ancestry(b, gossip)
    BY DEF Inv, Published
  <2>2. chain' = [chain EXCEPT ![n] = on_block(chain[n], b)] /\ UNCHANGED <<disk, gossip, sync>>
    BY <1>2 DEF OnBlock
  <2>3. Sourced(on_block(chain[n], b), gossip)
    BY <2>1, BlockSourced
  <2>4. QED
    BY <2>1, <2>2, <2>3 DEF Published
<1>3. ASSUME NEW n \in Nodes, NEW m \in Nodes, Hello(n, m)
      PROVE  Published'
  BY <1>3 DEF Hello, Published
<1>4. QED
  BY <1>1, <1>2, <1>3, TickPublished, PullPublished, SyncBlockPublished, RestartPublished
     DEF Next

LEMMA InitPublished ==
  ASSUME Init PROVE Published
BY Genesis, LoadSourced, IdleAnswered DEF Init, Published

----------------------------------------------------------------------------
(***************************************************************************)
(* Agreement of the finalized blocks.  While every block is made by a node *)
(* in touch, a published block is, up to every lower height, the best that *)
(* was published there: the prefixes of published blocks form one chain,   *)
(* and two tips differ in their last blocks only.  What keeps this         *)
(* inductive is a keeper, a node whose tip no published block beats, which *)
(* the maker of the next block has heard of.                               *)
(***************************************************************************)
BestBelow(G) ==
  \A x, y \in G : Len(y) < Len(x) => ~fork_choice_prefers(y, upto(x, Len(y)))

Best(b, G) == \A x \in G : ~fork_choice_prefers(x, b)

Kept ==
  faults.crashes = 0 /\ prompt =>
    BestBelow(gossip) /\ \E k \in Nodes : Best(chain[k].blocks, gossip)

\* Two blocks of which neither is preferred are one.
LEMMA NeitherPreferred ==
  ASSUME HashOrder, NEW a \in Blocks, NEW b \in Blocks,
         ~fork_choice_prefers(a, b), ~fork_choice_prefers(b, a)
  PROVE  a = b
BY PrefersIsOrder

\* The block made next, on the tip P of a node that has heard of the keeper's tip K.
LEMMA ExtendsBest ==
  ASSUME HashOrder, NEW G, G \subseteq Blocks, \A x \in G : Ancestry(x, G), BestBelow(G),
         NEW P \in Blocks, Ancestry(P, G), NEW K \in Blocks, Ancestry(K, G), Best(K, G),
         NEW b \in Blocks, Len(b) = Len(P) + 1, upto(b, Len(b) - 1) = P,
         Len(K) <= Len(P) + 1,
         ~fork_choice_prefers(upto(K, Smaller(Len(P), Len(K))), P)
  PROVE  /\ BestBelow(G \cup {b})
         /\ \/ Best(b, G \cup {b})
            \/ Len(K) = Len(P) + 1 /\ Best(K, G \cup {b})
<1>1. /\ Len(P) \in Nat /\ Len(K) \in Nat /\ Len(b) \in Nat
      /\ \A x \in G : Len(x) \in Nat /\ x \in Blocks
  BY Views
<1>2. \A x \in Blocks : x # <<>> => Len(x) > 0 /\ Len(x) \in Nat
  BY EmptySeq DEF Blocks
<1>3. \A x \in Blocks : Len(x) > 0 /\ Ancestry(x, G) => x \in G
  <2>1. ASSUME NEW x \in Blocks, Len(x) > 0, Ancestry(x, G) PROVE x \in G
    <3>1. Len(x) \in 1..Len(x) /\ upto(x, Len(x)) = x
      BY <2>1, Views, WholePrefix
    <3>2. QED
      BY <2>1, <3>1 DEF Ancestry
  <2>2. QED
    BY <2>1
<1>4. Len(K) >= Len(P)
  <2>1. CASE Len(P) = 0
    BY <1>1, <2>1
  <2>2. CASE Len(P) > 0
    <3>1. ~fork_choice_prefers(P, K)
      BY <1>3, <2>2 DEF Best
    <3>2. QED
      BY <1>1, <3>1 DEF fork_choice_prefers
  <2>3. QED
    BY <1>1, <2>1, <2>2
<1>5. upto(K, Len(P)) = P
  <2>1. Len(P) \in 0..Len(K) /\ Smaller(Len(P), Len(K)) = Len(P)
    BY <1>1, <1>4 DEF Smaller
  <2>2. upto(K, Len(P)) \in Blocks /\ Len(upto(K, Len(P))) = Len(P)
    BY <2>1, Prefix
  <2>3. ~fork_choice_prefers(upto(K, Len(P)), P)
    BY <2>1
  <2>4. ~fork_choice_prefers(P, upto(K, Len(P)))
    <3>1. CASE Len(P) = 0
      <4>1. P = <<>> /\ upto(K, Len(P)) = <<>>
        BY <1>1, <1>2, <2>2, <3>1
      <4>2. QED
        BY <4>1, PrefersIsOrder
    <3>2. CASE Len(P) > 0 /\ Len(K) = Len(P)
      <4>1. upto(K, Len(P)) = K
        BY <3>2, WholePrefix
      <4>2. QED
        BY <1>3, <3>2, <4>1 DEF Best
    <3>3. CASE Len(P) > 0 /\ Len(K) # Len(P)
      <4>1. P \in G /\ K \in G /\ Len(P) < Len(K)
        BY <1>1, <1>3, <1>4, <3>3
      <4>2. QED
        BY <4>1 DEF BestBelow
    <3>4. QED
      BY <1>1, <3>1, <3>2, <3>3
  <2>5. QED
    BY <2>2, <2>3, <2>4, NeitherPreferred
<1>6. \A x \in G : Len(x) <= Len(K)
  BY <1>1 DEF Best, fork_choice_prefers
<1>7. \A y \in G : Len(y) <= Len(P) => ~fork_choice_prefers(y, upto(b, Len(y)))
  <2>1. ASSUME NEW y \in G, Len(y) <= Len(P) PROVE ~fork_choice_prefers(y, upto(b, Len(y)))
    <3>1. PICK l \in Nat : l = Len(y) /\ l \in 0..Len(P)
      BY <1>1, <2>1
    <3>2. upto(b, l) = upto(P, l)
      <4>1. Len(b) - 1 \in 0..Len(b) /\ l \in 0..(Len(b) - 1)
        BY <1>1, <3>1
      <4>2. upto(upto(b, Len(b) - 1), l) = upto(b, l)
        BY <4>1, PrefixOfPrefix
      <4>3. QED
        BY <4>2
    <3>3. upto(P, l) = upto(K, l)
      <4>1. Len(P) \in 0..Len(K)
        BY <1>1, <1>4
      <4>2. upto(upto(K, Len(P)), l) = upto(K, l)
        BY <3>1, <4>1, PrefixOfPrefix
      <4>3. QED
        BY <1>5, <4>2
    <3>4. CASE l = Len(K)
      <4>1. upto(K, l) = K
        BY <3>4, WholePrefix
      <4>2. QED
        BY <2>1, <3>1, <3>2, <3>3, <4>1 DEF Best
    <3>5. CASE l < Len(K)
      <4>1. K \in G
        BY <1>1, <1>3, <3>1, <3>5
      <4>2. ~fork_choice_prefers(y, upto(K, Len(y)))
        BY <3>1, <3>5, <4>1 DEF BestBelow
      <4>3. QED
        BY <3>1, <3>2, <3>3, <4>2
    <3>6. QED
      BY <1>1, <1>4, <3>1, <3>4, <3>5
  <2>2. QED
    BY <2>1
<1>8. BestBelow(G \cup {b})
  <2> SUFFICES ASSUME NEW x \in G \cup {b}, NEW y \in G \cup {b}, Len(y) < Len(x)
               PROVE  ~fork_choice_prefers(y, upto(x, Len(y)))
    BY DEF BestBelow
  <2>1. CASE x \in G /\ y \in G
    BY <2>1 DEF BestBelow
  <2>2. CASE x \in G /\ y = b
    BY <1>1, <1>6, <2>2
  <2>3. CASE x = b /\ y \in G
    <3>1. Len(y) <= Len(P)
      BY <1>1, <2>3
    <3>2. QED
      BY <1>7, <2>3, <3>1
  <2>4. CASE x = b /\ y = b
    BY <1>1, <2>4
  <2>5. QED
    BY <2>1, <2>2, <2>3, <2>4
<1>9. CASE fork_choice_prefers(b, K)
  <2>1. ASSUME NEW x \in G, fork_choice_prefers(x, b) PROVE FALSE
    <3>1. x \in Blocks /\ fork_choice_prefers(x, K)
      BY <1>9, <2>1, PrefersIsOrder
    <3>2. QED
      BY <3>1 DEF Best
  <2>2. ~fork_choice_prefers(b, b)
    BY PrefersIsOrder
  <2>3. QED
    BY <1>8, <2>1, <2>2 DEF Best
<1>10. CASE ~fork_choice_prefers(b, K)
  <2>1. Len(K) >= Len(b)
    BY <1>1, <1>10 DEF fork_choice_prefers
  <2>2. Len(K) = Len(P) + 1
    BY <1>1, <2>1
  <2>3. Best(K, G \cup {b})
    BY <1>10 DEF Best
  <2>4. QED
    BY <1>8, <2>2, <2>3
<1>11. QED
  BY <1>9, <1>10

\* Only a Tick and a Restart publish anything or count a crash.
LEMMA OtherSteps ==
  ASSUME [Next]_vars
  PROVE  \/ UNCHANGED <<gossip, faults>>
         \/ gossip' = gossip /\ faults' = [faults EXCEPT !.lost = @ + 1]
         \/ \E n \in Nodes : (Tick(n) /\ faults' = faults) \/ Restart(n)
<1>1. CASE UNCHANGED vars
  BY <1>1 DEF vars
<1>2. ASSUME NEW n \in Nodes, Tick(n) PROVE faults' = faults
  BY <1>2 DEF Tick
<1>3. ASSUME NEW n \in Nodes, NEW m \in Nodes, Lose(n, m)
      PROVE  gossip' = gossip /\ faults' = [faults EXCEPT !.lost = @ + 1]
  BY <1>3 DEF Lose
<1>4. ASSUME NEW n \in Nodes, NEW m \in Nodes,
             Hello(n, m) \/ Answer(n, m) \/ SyncBlock(n, m) \/ \E b \in gossip : OnBlock(n, m, b)
      PROVE  UNCHANGED <<gossip, faults>>
  <2>1. CASE Hello(n, m)
    BY <2>1 DEF Hello
  <2>2. CASE Answer(n, m)
    BY <2>2 DEF Answer
  <2>3. CASE SyncBlock(n, m)
    BY <2>3 DEF SyncBlock
  <2>4. ASSUME NEW b \in gossip, OnBlock(n, m, b) PROVE UNCHANGED <<gossip, faults>>
    BY <2>4 DEF OnBlock
  <2>5. QED
    BY <1>4, <2>1, <2>2, <2>3, <2>4
<1>5. QED
  BY <1>1, <1>2, <1>3, <1>4 DEF Next

\* A step of a running network: tips improve, or one node makes a block on its own.
LEMMA RunningStep ==
  ASSUME HashOrder, Inv, [Next]_vars, faults'.crashes = faults.crashes
  PROVE  \/ /\ gossip' = gossip
            /\ \A m \in Nodes : \/ chain'[m].blocks = chain[m].blocks
                                \/ fork_choice_prefers(chain'[m].blocks, chain[m].blocks)
         \/ \E n \in Nodes : \E b \in Blocks :
              /\ Len(b) = Len(chain[n].blocks) + 1 /\ upto(b, Len(b) - 1) = chain[n].blocks
              /\ V[proposer_index(Len(b), view_of(b))] = n
              /\ gossip' = gossip \cup {b} /\ chain'[n].blocks = b
              /\ \A m \in Nodes \ {n} : chain'[m] = chain[m]
<1>1. Moves
  BY NextMoves
<1>2. \A m \in Nodes : \/ chain'[m].blocks = chain[m].blocks
                       \/ fork_choice_prefers(chain'[m].blocks, chain[m].blocks)
  BY <1>1 DEF Moves, Onward
<1>3. CASE gossip' = gossip
  BY <1>2, <1>3
<1>4. CASE gossip' # gossip
  <2>1. PICK n \in Nodes : Tick(n) \/ Restart(n)
    BY <1>4, OtherSteps
  <2>2. ~Restart(n)
    BY DEF Restart, Inv
  <2>3. PICK view \in view_timer(n) : \E b \in makes(n, view) :
          chain' = [chain EXCEPT ![n] = execute_block(@, b)] /\ gossip' = gossip \cup {b}
    BY <1>4, <2>1, <2>2 DEF Tick
  <2>b. PICK b \in makes(n, view) :
          chain' = [chain EXCEPT ![n] = execute_block(@, b)] /\ gossip' = gossip \cup {b}
    BY <2>3
  <2>4. /\ b \in Blocks /\ b # <<>>
        /\ Len(b) = Len(chain[n].blocks) + 1 /\ upto(b, Len(b) - 1) = chain[n].blocks
    BY MadeBlock
  <2>5. V[proposer_index(Len(b), view_of(b))] = n
    <3>1. PICK t : t = chain[n].blocks
      OBVIOUS
    <3>2. t \in Blocks /\ Len(t) \in Nat
      BY <3>1, Views DEF Inv, Good, Chains
    <3>3. PICK e \in Entries : /\ b = Append(t, e) /\ e.view = view
                               /\ V[proposer_index(Len(t) + 1, view)] = n
      BY <3>1 DEF makes
    <3>4. b[Len(t) + 1] = e
      BY <3>2, <3>3, AppendProperties DEF Blocks
    <3>5. view_of(b) = view
      BY <2>4, <3>1, <3>3, <3>4 DEF view_of
    <3>6. QED
      BY <2>4, <3>1, <3>3, <3>5
  <2>6. DOMAIN chain = Nodes /\ chain[n] \in Chains
    BY DEF Inv, Good
  <2>7. chain'[n].blocks = b /\ \A m \in Nodes \ {n} : chain'[m] = chain[m]
    <3>1. execute_block(chain[n], b).blocks = b
      BY <2>6 DEF execute_block, Chains
    <3>2. QED
      BY <2>b, <2>6, <3>1
  <2>8. QED
    BY <2>b, <2>4, <2>5, <2>7
<1>5. QED
  BY <1>3, <1>4

LEMMA NextKeepsKept ==
  ASSUME HashOrder, Inv, Published, Kept, [PromptNext]_allvars
  PROVE  Kept'
<1> SUFFICES ASSUME faults'.crashes = 0, prompt'
             PROVE  BestBelow(gossip') /\ \E k \in Nodes : Best(chain'[k].blocks, gossip')
  BY DEF Kept
<1>1. [Next]_vars
  BY DEF PromptNext, allvars
<1>2. /\ gossip \subseteq Blocks \ {<<>>}
      /\ \A n \in Nodes : chain[n].blocks \in Blocks /\ Ancestry(chain[n].blocks, gossip)
      /\ \A x \in gossip : Ancestry(x, gossip)
      /\ \A n \in Nodes : chain'[n].blocks \in Blocks
  <2>1. Inv'
    BY <1>1, NextKeepsInv
  <2>2. QED
    BY <2>1 DEF Inv, Good, Chains, Published, Sourced
<1>3. faults.crashes = 0 /\ faults'.crashes = faults.crashes
  <2>1. faults \in [crashes : Nat, lost : Nat]
    BY DEF Inv
  <2>2. faults' = faults \/ faults'.crashes = faults.crashes
          \/ faults'.crashes = faults.crashes + 1
    <3>1. ASSUME NEW n \in Nodes, Restart(n) PROVE faults'.crashes = faults.crashes + 1
      BY <2>1, <3>1 DEF Restart
    <3>2. faults' = [faults EXCEPT !.lost = @ + 1] => faults'.crashes = faults.crashes
      BY <2>1
    <3>3. QED
      BY <1>1, <3>1, <3>2, OtherSteps
  <2>3. QED
    BY <2>1, <2>2
<1>4. prompt /\ \A n \in Nodes : \A b \in gossip' \ gossip :
                  V[proposer_index(Len(b), view_of(b))] = n => in_touch(n)
  BY DEF PromptNext, allvars, vars
<1>5. PICK k \in Nodes : BestBelow(gossip) /\ Best(chain[k].blocks, gossip)
  BY <1>3, <1>4 DEF Kept
<1>6. CASE gossip' = gossip
           /\ \A m \in Nodes : \/ chain'[m].blocks = chain[m].blocks
                               \/ fork_choice_prefers(chain'[m].blocks, chain[m].blocks)
  <2>1. ASSUME NEW x \in gossip, fork_choice_prefers(x, chain'[k].blocks) PROVE FALSE
    <3>1. x \in Blocks /\ chain[k].blocks \in Blocks /\ chain'[k].blocks \in Blocks
      BY <1>2
    <3>2. fork_choice_prefers(x, chain[k].blocks)
      BY <1>6, <2>1, <3>1, PrefersIsOrder
    <3>3. QED
      BY <1>5, <3>2 DEF Best
  <2>2. QED
    BY <1>5, <1>6, <2>1 DEF Best
<1>7. ASSUME NEW n \in Nodes, NEW b \in Blocks,
             Len(b) = Len(chain[n].blocks) + 1, upto(b, Len(b) - 1) = chain[n].blocks,
             V[proposer_index(Len(b), view_of(b))] = n,
             gossip' = gossip \cup {b}, chain'[n].blocks = b,
             \A m \in Nodes \ {n} : chain'[m] = chain[m]
      PROVE  BestBelow(gossip') /\ \E m \in Nodes : Best(chain'[m].blocks, gossip')
  <2>1. PICK P \in Blocks : P = chain[n].blocks
    BY <1>2
  <2>2. PICK K \in Blocks : K = chain[k].blocks
    BY <1>2
  <2>3. CASE b \in gossip
    <3>1. gossip' = gossip
      BY <1>7, <2>3
    <3>2. fork_choice_prefers(b, P)
      BY <1>7, <2>1, Views DEF fork_choice_prefers
    <3>3. \A m \in Nodes : \/ chain'[m].blocks = chain[m].blocks
                           \/ fork_choice_prefers(chain'[m].blocks, chain[m].blocks)
      BY <1>7, <2>1, <3>2
    <3>4. QED
      BY <1>6, <3>1, <3>3
  <2>4. CASE b \notin gossip
    <3>1. in_touch(n)
      BY <1>4, <1>7, <2>4
    <3>2. /\ Len(K) <= Len(P) + 1
          /\ ~fork_choice_prefers(upto(K, Smaller(Len(P), Len(K))), P)
      BY <2>1, <2>2, <3>1 DEF in_touch
    <3>3. /\ BestBelow(gossip \cup {b})
          /\ \/ Best(b, gossip \cup {b})
             \/ Len(K) = Len(P) + 1 /\ Best(K, gossip \cup {b})
      <4>1. /\ gossip \subseteq Blocks /\ \A x \in gossip : Ancestry(x, gossip)
            /\ Ancestry(P, gossip) /\ Ancestry(K, gossip)
        BY <1>2, <2>1, <2>2
      <4>2. BestBelow(gossip) /\ Best(K, gossip)
        BY <1>5, <2>2
      <4>3. Len(b) = Len(P) + 1 /\ upto(b, Len(b) - 1) = P
        BY <1>7, <2>1
      <4>4. QED
        BY <3>2, <4>1, <4>2, <4>3, ExtendsBest
    <3>4. CASE Best(b, gossip \cup {b})
      BY <1>7, <3>3, <3>4
    <3>5. CASE Len(K) = Len(P) + 1 /\ Best(K, gossip \cup {b})
      <4>1. k # n
        BY <2>1, <2>2, <3>5, Views
      <4>2. chain'[k].blocks = K
        BY <1>7, <2>2, <4>1
      <4>3. QED
        BY <1>7, <3>3, <3>5, <4>2
    <3>6. QED
      BY <3>3, <3>4, <3>5
  <2>5. QED
    BY <2>3, <2>4
<1>8. QED
  BY <1>1, <1>3, <1>6, <1>7, RunningStep

LEMMA InitKept ==
  ASSUME PromptInit PROVE Kept
<1>1. gossip = {}
  BY DEF PromptInit, Init
<1>2. \E k \in Nodes : TRUE
  <2>1. V \in Seq(Nodes) /\ V # <<>>
    BY ForkChoiceConstants
  <2>2. Head(V) \in Nodes
    BY <2>1, HeadTailProperties
  <2>3. QED
    BY <2>2
<1>3. QED
  BY <1>1, <1>2 DEF Kept, BestBelow, Best

\* With blocks that are never final at the tip, what is best below is agreed.
LEMMA KeptAgrees ==
  ASSUME HashOrder, FINALITY_DEPTH # 0, Inv, Published, Kept, faults.crashes = 0
  PROVE  PromptAgreement
<1> SUFFICES ASSUME prompt, NEW n \in Nodes, NEW m \in Nodes,
                    NEW a, a = chain[n].blocks, NEW b, b = chain[m].blocks,
                    NEW k, k = Smaller(k_deep(a), k_deep(b))
             PROVE  upto(a, k) = upto(b, k)
  BY DEF PromptAgreement, FinalizedAgree
<1>1. /\ a \in Blocks /\ b \in Blocks /\ Len(a) \in Nat /\ Len(b) \in Nat
      /\ Ancestry(a, gossip) /\ Ancestry(b, gossip) /\ BestBelow(gossip)
  BY Views DEF Inv, Good, Chains, Published, Sourced, Kept
<1>2. FINALITY_DEPTH \in Nat /\ FINALITY_DEPTH >= 1
  BY ForkChoiceConstants
<1>3. k \in Nat /\ k <= k_deep(a) /\ k <= k_deep(b)
      /\ (k_deep(a) = 0 \/ k_deep(a) < Len(a)) /\ (k_deep(b) = 0 \/ k_deep(b) < Len(b))
      /\ k_deep(a) \in Nat /\ k_deep(b) \in Nat
  BY <1>1, <1>2 DEF Smaller, k_deep, Monus
<1>4. CASE k = 0
  <2>1. /\ upto(a, 0) \in Blocks /\ Len(upto(a, 0)) = 0
        /\ upto(b, 0) \in Blocks /\ Len(upto(b, 0)) = 0
    BY <1>1, Prefix
  <2>2. QED
    BY <1>4, <2>1, SameBlock
<1>5. CASE k > 0
  <2>1. k \in 1..Len(a) /\ k \in 1..Len(b) /\ k + 1 \in 1..Len(a) /\ k + 1 \in 1..Len(b)
    BY <1>1, <1>3, <1>5
  <2>2. ASSUME NEW x \in Blocks, NEW y \in Blocks, Ancestry(x, gossip), Ancestry(y, gossip),
               k + 1 \in 1..Len(x), k \in 1..Len(y), Len(x) \in Nat, Len(y) \in Nat
        PROVE  ~fork_choice_prefers(upto(y, k), upto(x, k))
    <3>1. upto(x, k + 1) \in gossip /\ upto(y, k) \in gossip
      BY <2>2 DEF Ancestry
    <3>2. Len(upto(x, k + 1)) = k + 1 /\ Len(upto(y, k)) = k
      BY <1>3, <2>2, Prefix
    <3>3. upto(upto(x, k + 1), k) = upto(x, k)
      <4>1. k + 1 \in 0..Len(x) /\ k \in 0..(k + 1)
        BY <1>3, <2>2
      <4>2. QED
        BY <4>1, PrefixOfPrefix
    <3>4. k < k + 1
      BY <1>3
    <3>5. QED
      BY <1>1, <3>1, <3>2, <3>3, <3>4 DEF BestBelow
  <2>3. upto(a, k) \in Blocks /\ upto(b, k) \in Blocks
    BY <1>1, <2>1, Prefix
  <2>4. QED
    BY <1>1, <2>1, <2>2, <2>3, NeitherPreferred
<1>6. QED
  BY <1>3, <1>4, <1>5

\* The three invariants together.
LEMMA PromptInvariants ==
  ASSUME HashOrder
  PROVE  PromptSpec => [](Inv /\ Published /\ Kept)
<1> DEFINE I == Inv /\ Published /\ Kept
<1>1. PromptInit => I
  BY InitInv, InitPublished, InitKept DEF PromptInit
<1>2. I /\ [PromptNext]_allvars => I'
  <2>1. [PromptNext]_allvars => [Next]_vars
    BY DEF PromptNext, allvars
  <2>2. QED
    BY <2>1, NextKeepsInv, NextKeepsPublished, NextKeepsKept
<1> HIDE DEF I
<1>3. PromptSpec => []I
  BY <1>1, <1>2, PTL DEF PromptSpec
<1>4. QED
  BY <1>3 DEF I

\* As long as no node has crashed and every block was made by a node in touch, no two
\* nodes finalize different blocks, for every number of nodes, schedule of proposers and
\* views, order of delivery, and FINALITY_DEPTH of at least one (production_guard_ok,
\* fork_choice_prefers, FINALITY_DEPTH).
THEOREM AgreementUntilCrash ==
  ASSUME HashOrder, FINALITY_DEPTH # 0
  PROVE  PromptSpec => [](faults.crashes = 0 => PromptAgreement)
<1>1. Inv /\ Published /\ Kept => (faults.crashes = 0 => PromptAgreement)
  BY KeptAgrees
<1>2. QED
  BY <1>1, PromptInvariants, PTL

LEMMA NoCrash ==
  ASSUME HashOrder, MaxCrashes = 0
  PROVE  PromptSpec => [](faults.crashes = 0)
<1> DEFINE U == faults.crashes = 0
<1>1. PromptInit => U
  BY DEF PromptInit, Init
<1>2. (Inv /\ Published /\ Kept) /\ U /\ [PromptNext]_allvars => U'
  <2> SUFFICES ASSUME Inv, U, [PromptNext]_allvars PROVE faults'.crashes = 0
    OBVIOUS
  <2>1. faults \in [crashes : Nat, lost : Nat] /\ faults.crashes = 0
    BY DEF Inv
  <2>2. [Next]_vars
    BY DEF PromptNext, allvars
  <2>3. ASSUME NEW n \in Nodes, Restart(n) PROVE FALSE
    BY <2>1, <2>3 DEF Restart
  <2>4. faults' = faults \/ faults' = [faults EXCEPT !.lost = @ + 1]
    BY <2>2, <2>3, OtherSteps
  <2>5. QED
    BY <2>1, <2>4
<1> HIDE DEF U
<1>3. PromptSpec => []U
  BY <1>1, <1>2, PromptInvariants, PTL DEF PromptSpec
<1>4. QED
  BY <1>3 DEF U

\* Nodes that do not crash agree on what is final while blocks are delivered in time.
THEOREM FinalizedAgreement ==
  ASSUME HashOrder, FINALITY_DEPTH # 0, MaxCrashes = 0
  PROVE  PromptSpec => []PromptAgreement
<1>1. QED
  BY AgreementUntilCrash, NoCrash, PTL

=============================================================================
