----------------------------- MODULE ForkChoice -----------------------------
(***************************************************************************)
(* Round-robin block production with view timeouts, fork choice, bounded   *)
(* reorganisation, block sync and restart: the consensus part of           *)
(* crates/rpc/src/lib.rs (Chain) and of crates/node/src/net.rs and lib.rs  *)
(* (NetDriver and the node's loop).                                        *)
(*                                                                         *)
(* A block is the path of header entries from genesis to it, which is what *)
(* its hash commits to: the genesis block is <<>>, the parent of b is b    *)
(* without its last entry and b's number is its length.  The state after b *)
(* is written b too, so "re-executing to a byte-identical state_root" is   *)
(* an equality of paths.                                                   *)
(*                                                                         *)
(* Validators crash and restart but do not forge: every block was made by  *)
(* the scheduled proposer of its height and view.  A proposer can still    *)
(* make a block that nobody else accepts (kind), because of the clock it   *)
(* reads or of a transaction it dropped.  A node asks for blocks when it   *)
(* hears of a higher tip and while an answer leaves more to ask for, and   *)
(* has one pull under way; overlapping pulls, penalties and the links are  *)
(* in PeerSync, the mempool is in Mempool.                                 *)
(***************************************************************************)
EXTENDS Totals, Sequences

CONSTANTS
  Nodes,
  V,               \* the epoch's validator set, as the sequence the schedule indexes
  HashLess(_, _),  \* the order of block hashes
  FINALITY_DEPTH,
  MAX_FORK_STORE,
  VIEW_MAX,
  SYNC_MAX_BATCH,
  SYNC_MAX_LOOKAHEAD,
  SYNC_MAX_NO_PROGRESS_ROUNDS,
  Hashes,          \* tell apart blocks made twice at one height and view
  Kinds,           \* of each node: the kinds of blocks it makes
  MaxHeight,       \* bound: last height that is produced
  MaxView,         \* bound: views a node escalates to
  Asking,          \* bound: the nodes that hear of a tip more than one block ahead
  Crashing,        \* bound: the nodes that crash
  MaxCrashes,      \* bound: crashes of all nodes together
  MaxLost          \* bound: sync responses that never arrive

\* empty: no user transaction; full: user transactions, which only their raw bytes
\* let another node replay; drop: the proposer dropped a transaction after
\* charge_fee had written state; late: the clock gave no later second than the parent's.
AllKinds == {"empty", "full", "drop", "late"}

Entries == [view : 0..(VIEW_MAX - 1), hash : Hashes, kind : AllKinds]

Blocks == Seq(Entries)

\* Block hashes are byte strings, which are strictly and totally ordered.
HashesOrdered(S) ==
  /\ \A a \in S : ~HashLess(a, a)
  /\ \A a, b \in S : a = b \/ HashLess(a, b) \/ HashLess(b, a)
  /\ \A a, b, c \in S : HashLess(a, b) /\ HashLess(b, c) => HashLess(a, c)

ASSUME ForkChoiceConstants ==
  /\ V \in Seq(Nodes) /\ V # <<>>
  /\ FINALITY_DEPTH \in Nat
  /\ MAX_FORK_STORE \in Nat \ {0}
  /\ VIEW_MAX \in Nat \ {0}
  /\ SYNC_MAX_BATCH \in Nat \ {0} /\ SYNC_MAX_LOOKAHEAD \in Nat
  /\ SYNC_MAX_NO_PROGRESS_ROUNDS \in Nat \ {0}
  /\ Kinds \in [Nodes -> SUBSET AllKinds]
  /\ MaxHeight \in Nat /\ MaxView \in Nat /\ MaxCrashes \in Nat /\ MaxLost \in Nat

VARIABLES
  chain,     \* of each node: blocks (its tip), state, recent_states, fork_store, and
             \* restored: the blocks whose raw transactions it does not have
  disk,      \* the tip of the snapshot each node saved last
  timer,     \* the view each node is in, or UNARMED when its head moved since
  gossip,    \* the blocks published so far
  pull,      \* of each node: whom it asks for which blocks, and that peer's tip as noted
  rounds,    \* of each node and peer: sync_no_progress
  sync,      \* the answer each node works off: what is left of it
  faults     \* crashes and lost responses so far

vars == <<chain, disk, timer, gossip, pull, rounds, sync, faults>>

upto(b, k) == SubSeq(b, 1, k)

view_of(b) == IF b = <<>> THEN 0 ELSE b[Len(b)].view

knows_block(c, b) == Len(b) <= Len(c.blocks) /\ upto(c.blocks, Len(b)) = b

\* Mutant: the frontier is one block too low.
finalized_Low(blocks) == Monus(Len(blocks), FINALITY_DEPTH + 1)

finalized(blocks) == Monus(Len(blocks), FINALITY_DEPTH)

proposer_index(height, view) == ((height + view) % Len(V)) + 1

(***************************************************************************)
(* The order of tips.                                                      *)
(***************************************************************************)
\* Mutant: of two blocks at one height the one seen first stays.
fork_choice_prefers_Height(a, b) == Len(a) > Len(b)

fork_choice_prefers(a, b) ==
  \/ Len(a) > Len(b)
  \/ Len(a) = Len(b) /\ view_of(a) < view_of(b)
  \/ Len(a) = Len(b) /\ view_of(a) = view_of(b) /\ HashLess(a, b)

(***************************************************************************)
(* Executing a block on the tip.  The state before it is remembered first, *)
(* and stays remembered when the block is then rejected.                   *)
(***************************************************************************)
remember(recent, height, state, next) ==
  [h \in {k \in DOMAIN recent \cup {height} : k + FINALITY_DEPTH + 1 >= next} |->
     IF h = height THEN state ELSE recent[h]]

execute_block(c, b) ==
  [c EXCEPT !.recent_states = remember(@, Len(c.blocks), c.state, Len(c.blocks) + 1),
            !.blocks = b,
            !.state  = b]

\* A header that does not fit the tip, and a block that does not replay.
misfit(c, b) ==
  \/ Len(b) # Len(c.blocks) + 1
  \/ upto(b, Len(b) - 1) # c.blocks
  \/ b[Len(b)].kind = "late"

diverges(c, b) ==
  \/ c.state # upto(b, Len(b) - 1)
  \/ b[Len(b)].kind = "drop"

\* The chain after a trial that failed keeps what the trial remembered.
rejected(c) == [c EXCEPT !.recent_states = execute_block(c, c.blocks).recent_states]

(***************************************************************************)
(* Fork choice over the side store.                                        *)
(***************************************************************************)
lower(a, b) == Len(a) < Len(b) \/ (Len(a) = Len(b) /\ HashLess(a, b))

\* Mutant: the side store is not capped.
store_fork_block_Uncapped(c, b) ==
  [c EXCEPT !.fork_store = {x \in @ \cup {b} : Len(x) > finalized(c.blocks)}]

\* Blocks at or below the frontier leave the store, then the lowest beyond the cap.
store_fork_block(c, b) ==
  LET kept == {x \in c.fork_store \cup {b} : Len(x) > finalized(c.blocks)} IN
  [c EXCEPT !.fork_store =
     {x \in kept : Cardinality({z \in kept : lower(x, z)}) < MAX_FORK_STORE}]

\* The height of the last block of b's ancestry that is canonical in c.
ca_height(c, b) ==
  CHOOSE k \in 0..(Len(b) - 1) :
    /\ knows_block(c, upto(b, k))
    /\ \A j \in (k + 1)..(Len(b) - 1) : ~knows_block(c, upto(b, j))

assemble_fork_branch(c, b) ==
  /\ \A k \in (ca_height(c, b) + 1)..Len(b) : upto(b, k) \in c.fork_store
  /\ ca_height(c, b) >= finalized(c.blocks)
  /\ Len(b) - ca_height(c, b) <= (FINALITY_DEPTH + 2) * 8

\* Mutant: a complete branch is taken whether or not it is better.
candidates_Any(c) == {b \in c.fork_store : assemble_fork_branch(c, b)}

candidates(c) ==
  {b \in c.fork_store :
     fork_choice_prefers(b, c.blocks) /\ assemble_fork_branch(c, b)}

best(c) ==
  CHOOSE b \in candidates(c) :
    \A x \in candidates(c) \ {b} : fork_choice_prefers(b, x)

\* The branch replays block by block on the state remembered for its ancestor.
replays(c, b) ==
  LET ca == ca_height(c, b) IN
  /\ c.recent_states[ca] = upto(b, ca)
  /\ \A k \in (ca + 1)..Len(b) :
       b[k].kind \notin {"late", "drop"}

\* Mutant: the states of the branch that was left stay in recent_states.
reorged_StaleRing(c, b) ==
  LET ca   == ca_height(c, b)
      gone == {upto(c.blocks, k) : k \in (ca + 1)..Len(c.blocks)}
      mine == {upto(b, k) : k \in (ca + 1)..Len(b)}
  IN [c EXCEPT !.blocks = b,
               !.state  = b,
               !.fork_store = {x \in (@ \ mine) \cup gone : Len(x) > finalized(b)}]

\* The branch blocks leave the store and the displaced ones enter it.  Those are above
\* the ancestor, whose state was remembered, so the node has their raw transactions.
reorged(c, b) ==
  LET ca   == ca_height(c, b)
      gone == {upto(c.blocks, k) : k \in (ca + 1)..Len(c.blocks)}
      mine == {upto(b, k) : k \in (ca + 1)..Len(b)}
      kept == {h \in DOMAIN c.recent_states \cup ca..(Len(b) - 1) :
                 h + FINALITY_DEPTH + 1 >= Len(b)}
  IN [c EXCEPT !.blocks = b,
               !.state  = b,
               !.fork_store = {x \in (@ \ mine) \cup gone : Len(x) > finalized(b)},
               !.recent_states = [h \in kept |-> IF h \in ca..(Len(b) - 1) THEN upto(b, h) ELSE @[h]]]

\* Ok(None) without the ancestor's state; a branch that does not replay is rolled back.
execute_reorg(c, b) ==
  IF ca_height(c, b) \in DOMAIN c.recent_states /\ replays(c, b) THEN reorged(c, b) ELSE c

maybe_reorg_to_best_branch(c) ==
  IF candidates(c) = {} THEN c ELSE execute_reorg(c, best(c))

consider_competing_block(c, b) ==
  IF knows_block(c, b) \/ Len(b) <= finalized(c.blocks) THEN c
  ELSE maybe_reorg_to_best_branch(store_fork_block(c, b))

(***************************************************************************)
(* A block from the network: one by gossip, or one of a sync response.     *)
(***************************************************************************)
on_block(c, b) ==
  IF knows_block(c, b) THEN c
  ELSE IF misfit(c, b) THEN consider_competing_block(c, b)
  ELSE IF diverges(c, b) THEN rejected(c)
  ELSE execute_block(c, b)


\* One block of a batch.  A block whose transactions are missing, or that diverges,
\* ends the batch; the first that does not fit the tip turns on fork mode.  turned: fork
\* choice took a branch (consider_fork), which notes the block as the peer's tip.
sync_block(c, b, raw, fork_seen) ==
  LET direct == ~fork_seen /\ Len(b) = Len(c.blocks) + 1
      next(d, forks, ends) ==
        [c |-> d, fork_seen |-> forks, ended |-> ends,
         turned |-> (~direct \/ misfit(c, b)) /\ d.blocks # c.blocks]
  IN IF knows_block(c, b) THEN next(c, fork_seen, FALSE)
     ELSE IF b[Len(b)].kind = "full" /\ ~raw THEN next(c, fork_seen, TRUE)
     ELSE IF ~direct \/ misfit(c, b)
       THEN next(consider_competing_block(c, b), fork_seen \/ direct, FALSE)
     ELSE IF diverges(c, b) THEN next(rejected(c), fork_seen, TRUE)
     ELSE next(execute_block(c, b), fork_seen, FALSE)

(***************************************************************************)
(* What a node asks its peers for.                                         *)
(***************************************************************************)
no_pull == [peer |-> {}, tip |-> 0, first |-> 1, last |-> 0]

asks(m, tip, first, last) == [peer |-> {m}, tip |-> tip, first |-> first, last |-> last]

\* A tip that is no higher, or too far ahead, is not asked for.
maybe_sync(c, m, tip) ==
  LET head == Len(c.blocks) IN
  IF head < tip /\ tip <= head + SYNC_MAX_LOOKAHEAD
    THEN asks(m, tip, head + 1, Smaller(tip, head + SYNC_MAX_BATCH)) ELSE no_pull

\* A node with a pull under way only notes the tip, and only of the peer it asks.
hears(c, p, m, tip) ==
  IF p.peer = {} THEN maybe_sync(c, m, tip)
  ELSE IF p.peer = {m} THEN asks(m, tip, p.first, p.last) ELSE p

\* From the finalized frontier up to the head.
request_fork_backfill(c, m, tip) ==
  LET first == finalized(c.blocks) + 1 IN
  IF first > Len(c.blocks) THEN no_pull
  ELSE asks(m, tip, first, Smaller(Len(c.blocks), first + SYNC_MAX_BATCH - 1))

\* The end of on_sync_response: the node goes on asking after progress, and without it
\* until the rounds are used up.
asks_on(c, p, m, forks, progressed, count) ==
  IF progressed THEN maybe_sync(c, m, p.tip)
  ELSE IF count >= SYNC_MAX_NO_PROGRESS_ROUNDS THEN no_pull
  ELSE IF forks THEN request_fork_backfill(c, m, p.tip)
  ELSE maybe_sync(c, m, p.tip)

(***************************************************************************)
(* The node's loop.  A node works through a sync response without a break, *)
(* but it can crash in the middle of one.                                  *)
(***************************************************************************)
idle == [phase |-> "idle", todo |-> <<>>, fork_seen |-> FALSE, head |-> 0]

ready(n) == sync[n].phase # "batch"

\* A chain loaded from a snapshot, or the genesis chain.
load_into(b) ==
  [blocks        |-> b,
   state         |-> b,
   recent_states |-> [h \in {} |-> b],
   fork_store    |-> {},
   restored      |-> Len(b)]

UNARMED == -1

\* The view timer is armed for a new head; else it may expire.
view_timer(n) ==
  IF timer[n] = UNARMED THEN {0} ELSE {timer[n], Smaller(timer[n] + 1, MaxView)}

moved(n) == Len(chain'[n].blocks) # Len(chain[n].blocks)

rearm(n, view) == timer' = [timer EXCEPT ![n] = IF moved(n) THEN UNARMED ELSE view]

\* What the scheduled proposer makes; whether a majority of V looks reachable to it
\* (production_guard_ok) is left open.
makes(n, view) ==
  LET b == chain[n].blocks IN
  {Append(b, e) : e \in {x \in Entries : /\ V[proposer_index(Len(b) + 1, view)] = n
                                         /\ x.view = view /\ x.kind \in Kinds[n]
                                         /\ Len(b) < MaxHeight}}

\* tick_proposer, then the snapshot of the tip.
Tick(n) ==
  /\ ready(n)
  /\ \E view \in view_timer(n) :
       /\ \/ UNCHANGED <<chain, gossip>>
          \/ \E b \in makes(n, view) :
               /\ chain' = [chain EXCEPT ![n] = execute_block(@, b)]
               /\ gossip' = gossip \cup {b}
       /\ rearm(n, view)
  /\ disk' = [disk EXCEPT ![n] = chain'[n].blocks]
  /\ UNCHANGED <<pull, rounds, sync, faults>>

\* A published block reaches a node late, out of order, more than once or never.  One
\* that is ahead is asked for; one that moves the chain is noted as its sender's tip.
OnBlock(n, m, b) ==
  LET c == on_block(chain[n], b)
      ahead == Len(b) > Len(chain[n].blocks) + 1
  IN /\ ready(n)
     /\ b \in gossip
     /\ ahead => n \in Asking
     /\ chain' = [chain EXCEPT ![n] = c]
     /\ pull' = [pull EXCEPT ![n] =
          IF ~knows_block(chain[n], b) /\ ahead THEN hears(c, @, m, Len(b))
          ELSE IF c.blocks # chain[n].blocks /\ @.peer = {m}
            THEN asks(m, Len(b), @.first, @.last)
          ELSE @]
     /\ rearm(n, timer[n])
     /\ UNCHANGED <<disk, gossip, rounds, sync, faults>>

\* on_hello, on a new connection to m, which PeerDisconnected had removed from the table:
\* its tip when it sent the Hello.  Nothing makes a node say Hello again on an old one.
Hello(n, m) ==
  /\ ready(n)
  /\ n \in Asking /\ pull[n] = no_pull
  /\ \E tip \in 0..Len(chain[m].blocks) :
       pull' = [pull EXCEPT ![n] = maybe_sync(chain[n], m, tip)]
  /\ rounds' = [rounds EXCEPT ![n][m] = 0]
  /\ UNCHANGED <<chain, disk, timer, gossip, sync, faults>>

waiting(n, m) == m \in pull[n].peer /\ sync[n].phase = "idle"

\* The answer is worked off: c is the chain then, tip the peer's as noted.
resolved(n, m, c, p, forks, progressed) ==
  LET count == IF progressed THEN 0 ELSE Smaller(rounds[n][m] + 1, SYNC_MAX_NO_PROGRESS_ROUNDS)
  IN /\ rounds' = [rounds EXCEPT ![n][m] = count]
     /\ pull' = [pull EXCEPT ![n] = asks_on(c, p, m, forks, progressed, count)]
     /\ sync' = [sync EXCEPT ![n] = idle]

\* A request or an answer that is lost: an outbound failure, which counts as an empty answer.
Lose(n, m) ==
  /\ faults.lost < MaxLost
  /\ waiting(n, m)
  /\ resolved(n, m, chain[n], pull[n], FALSE, FALSE)
  /\ faults' = [faults EXCEPT !.lost = @ + 1]
  /\ UNCHANGED <<chain, disk, timer, gossip>>

\* The last block of first..last that node m serves.
served(m, first, last) ==
  Smaller(last, Smaller(Len(chain[m].blocks), first + SYNC_MAX_BATCH - 1))

\* Node m's blocks, as it has them now: with their raw transactions only if it still has
\* those.
response(m, first, to) ==
  [phase |-> "response", fork_seen |-> FALSE, head |-> 0,
   todo  |-> [i \in 1..(to - first + 1) |->
                LET b == upto(chain[m].blocks, first + i - 1) IN
                [block |-> b, raw |-> Len(b) > chain[m].restored]]]

\* on_sync_request at the peer.
Answer(n, m) ==
  LET first == pull[n].first
      to    == served(m, first, pull[n].last)
  IN /\ waiting(n, m)
     /\ \/ /\ first <= to
           /\ sync' = [sync EXCEPT ![n] = response(m, first, to)]
           /\ UNCHANGED <<pull, rounds>>
        \/ /\ first > to
           /\ resolved(n, m, chain[n], pull[n], FALSE, FALSE)
     /\ UNCHANGED <<chain, disk, timer, gossip, faults>>

\* on_sync_response, block by block.
SyncBlock(n, m) ==
  LET s == sync[n]
      b == Head(s.todo).block
      r == sync_block(chain[n], b, Head(s.todo).raw, s.fork_seen)
      head == IF s.phase = "response" THEN Len(chain[n].blocks) ELSE s.head
      p == IF r.turned THEN asks(m, Len(b), 1, 0) ELSE asks(m, pull[n].tip, 1, 0)
  IN /\ s.todo # <<>> /\ m \in pull[n].peer
     /\ chain' = [chain EXCEPT ![n] = r.c]
     /\ \/ /\ ~r.ended /\ Len(s.todo) > 1
           /\ sync' = [sync EXCEPT ![n] = [phase |-> "batch", todo |-> Tail(s.todo),
                                           fork_seen |-> r.fork_seen, head |-> head]]
           /\ pull' = [pull EXCEPT ![n] = p]
           /\ UNCHANGED rounds
        \/ /\ r.ended \/ Len(s.todo) = 1
           /\ resolved(n, m, r.c, p, r.fork_seen, Len(r.c.blocks) > head)
     /\ rearm(n, timer[n])
     /\ UNCHANGED <<disk, gossip, faults>>

\* The process dies, perhaps after it published a block and before it saved it, and
\* comes up again from its last snapshot.
Restart(n) ==
  /\ n \in Crashing
  /\ faults.crashes < MaxCrashes
  /\ faults' = [faults EXCEPT !.crashes = @ + 1]
  /\ \/ UNCHANGED gossip
     \/ ready(n) /\ \E view \in view_timer(n) : \E b \in makes(n, view) : gossip' = gossip \cup {b}
  /\ chain' = [chain EXCEPT ![n] = load_into(disk[n])]
  /\ pull' = [pull EXCEPT ![n] = no_pull]
  /\ rounds' = [rounds EXCEPT ![n] = [m \in Nodes |-> 0]]
  /\ sync' = [sync EXCEPT ![n] = idle]
  /\ timer' = [timer EXCEPT ![n] = UNARMED]
  /\ UNCHANGED disk

Init ==
  /\ chain = [n \in Nodes |-> load_into(<<>>)]
  /\ disk = [n \in Nodes |-> <<>>]
  /\ timer = [n \in Nodes |-> UNARMED]
  /\ gossip = {}
  /\ pull = [n \in Nodes |-> no_pull]
  /\ rounds = [n \in Nodes |-> [m \in Nodes |-> 0]]
  /\ sync = [n \in Nodes |-> idle]
  /\ faults = [crashes |-> 0, lost |-> 0]

Next ==
  \E n \in Nodes :
    \/ Tick(n)
    \/ Restart(n)
    \/ \E m \in Nodes \ {n} :
         \/ \E b \in gossip : OnBlock(n, m, b)
         \/ Hello(n, m)
         \/ Lose(n, m)
         \/ Answer(n, m)
         \/ SyncBlock(n, m)

Spec == Init /\ [][Next]_vars

(***************************************************************************)
(* Properties.                                                             *)
(***************************************************************************)
\* execute_reorg and the trial of a foreign block restore or replace the blocks, the
\* state and the remembered states together: the state is the one after the tip, and a
\* remembered state is the one after the canonical block of its height.
StateFollowsBlocks ==
  \A n \in Nodes : LET c == chain[n] IN
    /\ c.state = c.blocks
    /\ \A h \in DOMAIN c.recent_states :
         h < Len(c.blocks) => c.recent_states[h] = upto(c.blocks, h)

\* MAX_FORK_STORE is a hard bound: also a reorg, which puts the blocks it displaces into
\* the store without looking at the cap, keeps it.
ForkStoreBounded ==
  \A n \in Nodes : Cardinality(chain[n].fork_store) <= MAX_FORK_STORE

\* A running node only ever leaves its tip for one that fork choice prefers, whatever
\* the order in which blocks, responses and timeouts meet.
TipsImprove ==
  [][faults'.crashes = faults.crashes =>
       \A n \in Nodes :
         \/ chain'[n].blocks = chain[n].blocks
         \/ fork_choice_prefers(chain'[n].blocks, chain[n].blocks)]_vars

k_deep(blocks) == Monus(Len(blocks), FINALITY_DEPTH)

\* Each node keeps an append-only log of finalized blocks, and its snapshot a prefix of it.
Log == INSTANCE FinalLog WITH
         log   <- [n \in Nodes |-> upto(chain[n].blocks, k_deep(chain[n].blocks))],
         saved <- [n \in Nodes |-> upto(disk[n], k_deep(disk[n]))]

\* "no reorg may cross a finalized block" (FINALITY_DEPTH), over gossip, sync, reorgs
\* and restarts: the chain implements the append-only log.
FinalizedIsAppendOnly == Log!Spec

\* "Must still be retained (guaranteed above the finalized frontier)" (execute_reorg):
\* the state after every block that a reorg may go back to is remembered.
AncestorStateRetained ==
  \A n \in Nodes : LET b == chain[n].blocks IN
    k_deep(b)..(Len(b) - 1) \subseteq DOMAIN chain[n].recent_states

\* No two nodes finalize different blocks.
FinalizedAgree ==
  \A n, m \in Nodes : LET a == chain[n].blocks
                          b == chain[m].blocks
                          k == Smaller(k_deep(a), k_deep(b))
                      IN upto(a, k) = upto(b, k)

=============================================================================
