------------------------------ MODULE Mempool -------------------------------
(***************************************************************************)
(* The mempool of a node and the account nonces, from submission to block: *)
(* ingest_raw_tx, produce_block_at_view, validate_and_apply_block of       *)
(* crates/rpc/src/lib.rs and apply_tx of crates/exec/src/apply.rs.         *)
(*                                                                         *)
(* RPC handlers run in Threads; blocks are made and applied by the node's  *)
(* single driver task.  They share Chain.inner behind a mutex, and every   *)
(* action is one critical section.  A transaction refused at submission    *)
(* changes nothing.                                                        *)
(*                                                                         *)
(* A transaction is its sender, its nonce and its operation: a sender may  *)
(* sign several with one nonce.  Whether its sender can pay for it when it *)
(* executes, and whether its operation then fails, is left to              *)
(* nondeterminism (Ledger and Humanity decide), and so are the blocks that *)
(* arrive, whether their roots match, and when this node's turn to propose *)
(* comes (a follower's never does).                                        *)
(***************************************************************************)
EXTENDS Integers, Sequences, FiniteSets, Functions

CONSTANTS
  Senders,
  Threads,                 \* concurrent eth_sendRawTransaction handlers
  MEMPOOL_MAX_TXS,
  MEMPOOL_MAX_PER_SENDER,
  NoTx,                    \* not a transaction
  WireBlocks,              \* blocks other proposers may send, as tx sequences
  Ops,                     \* what a transaction may do
  Txs                      \* bound: the transactions that are ever signed

ASSUME MempoolConstants ==
  /\ Txs \subseteq [from : Senders, nonce : Nat, op : Ops]
  /\ IsFiniteSet(Threads)
  /\ NoTx \notin Txs
  /\ MEMPOOL_MAX_TXS \in Nat \ {0}
  /\ MEMPOOL_MAX_PER_SENDER \in Nat \ {0}
  /\ WireBlocks \subseteq Seq(Txs)

VARIABLES
  chain,    \* account nonces, with a ghost: what became of each tx
  mempool,  \* FIFO
  checked,  \* the tx a thread has passed the submit gate with, and not pushed
  driver,   \* where the driver is: Idle, Took (a batch), Backed or Tried (a block)
  batch,    \* the txs of the block the driver is making or applying
  backup    \* the copy of inner that a rejected block restores

vars == <<chain, mempool, checked, driver, batch, backup>>

genesis == [nonce |-> [a \in Senders |-> 0], fate |-> [tx \in Txs |-> "none"]]

noBackup == [chain |-> genesis, mempool |-> <<>>]

of(txs, a) == {i \in DOMAIN txs : txs[i].from = a}

(***************************************************************************)
(* Execution.                                                              *)
(***************************************************************************)
\* Mutant: the nonce of a failed tx is advanced twice.
apply_tx_Twice(c, tx, outcome) ==
  IF outcome = "dropped" THEN c
  ELSE [c EXCEPT !.nonce[tx.from] = tx.nonce + (IF outcome = "failed" THEN 2 ELSE 1)]

\* Never executed.  "gone": out of the mempool for another reason, which is that a
\* rejected block put back a mempool without it, or that it was pruned because another
\* transaction used up its nonce.
unsettled == {"none", "gone"}

\* A tx is dropped (its fee is unaffordable), fails or succeeds; one with another
\* nonce than the account's fails.  Failed or not, the nonce is set after it.
apply_tx(c, tx, outcome) ==
  IF outcome = "dropped"
    THEN [c EXCEPT !.fate[tx] = IF @ \in unsettled THEN "failed" ELSE @]
    ELSE [c EXCEPT
            !.nonce[tx.from] = tx.nonce + 1,
            !.fate[tx] = IF outcome = "ok" /\ c.nonce[tx.from] = tx.nonce
                           THEN IF @ \in {"executed", "replayed"} THEN "replayed"
                                                                  ELSE "executed"
                           ELSE IF @ \in unsettled THEN "failed" ELSE @]

execute_block(c, txs, outcome) ==
  LET after[i \in 0..Len(txs)] ==
        IF i = 0 THEN c ELSE apply_tx(after[i - 1], txs[i], outcome[i])
  IN after[Len(txs)]

Outcomes(txs) == [DOMAIN txs -> {"ok", "failed", "dropped"}]

\* The txs at some of their positions, in their order.
retain(txs, kept) ==
  [k \in 1..Cardinality(kept) |->
     txs[CHOOSE i \in kept : Cardinality({j \in kept : j <= i}) = k]]

\* The txs of the block that was produced: the dropped ones are not in it.
included(txs, outcome) == retain(txs, {i \in DOMAIN txs : outcome[i] # "dropped"})

(***************************************************************************)
(* Submission: the gate and the push lock the chain separately.            *)
(***************************************************************************)
\* Mutant: a full mempool, or a sender at the cap, passes the gate once more.
Check_AtCap(th, tx) ==
  /\ checked[th] = NoTx
  /\ Len(mempool) <= MEMPOOL_MAX_TXS
  /\ Cardinality(of(mempool, tx.from)) <= MEMPOOL_MAX_PER_SENDER
  /\ tx.nonce = chain.nonce[tx.from] + Cardinality(of(mempool, tx.from))
  /\ checked' = [checked EXCEPT ![th] = tx]
  /\ UNCHANGED <<chain, mempool, driver, batch, backup>>

Check(th, tx) ==
  /\ checked[th] = NoTx
  /\ Len(mempool) < MEMPOOL_MAX_TXS
  /\ Cardinality(of(mempool, tx.from)) < MEMPOOL_MAX_PER_SENDER
  /\ tx.nonce = chain.nonce[tx.from] + Cardinality(of(mempool, tx.from))
  /\ checked' = [checked EXCEPT ![th] = tx]
  /\ UNCHANGED <<chain, mempool, driver, batch, backup>>

Push(th) ==
  /\ checked[th] # NoTx
  /\ mempool' = Append(mempool, checked[th])
  /\ checked' = [checked EXCEPT ![th] = NoTx]
  /\ UNCHANGED <<chain, driver, batch, backup>>

(***************************************************************************)
(* The proposer: take the mempool, then execute it.                        *)
(***************************************************************************)
Take ==
  /\ driver = "Idle"
  /\ driver' = "Took"
  /\ batch' = mempool
  /\ mempool' = <<>>
  /\ UNCHANGED <<chain, checked, backup>>

\* Mutant: one transaction per block, the rest of the batch is forgotten.
Produce_First ==
  /\ driver = "Took"
  /\ driver' = "Idle"
  /\ batch' = <<>>
  /\ \E outcome \in Outcomes(batch) :
       chain' = execute_block(chain, SubSeq(batch, 1, IF batch = <<>> THEN 0 ELSE 1),
                              outcome)
  /\ UNCHANGED <<mempool, checked, backup>>

Produce ==
  /\ driver = "Took"
  /\ driver' = "Idle"
  /\ batch' = <<>>
  /\ \E outcome \in Outcomes(batch) : chain' = execute_block(chain, batch, outcome)
  /\ UNCHANGED <<mempool, checked, backup>>

(***************************************************************************)
(* The follower: copy inner, execute the block in place, then keep it and  *)
(* prune the mempool, or put the copy back.                                *)
(***************************************************************************)
\* Mutant: the mempool is taken as if this node were the proposer.
BackUp_Takes(txs) ==
  /\ driver = "Idle"
  /\ driver' = "Backed"
  /\ batch' = txs
  /\ backup' = [chain |-> chain, mempool |-> mempool]
  /\ mempool' = <<>>
  /\ UNCHANGED <<chain, checked>>

BackUp(txs) ==
  /\ driver = "Idle"
  /\ driver' = "Backed"
  /\ batch' = txs
  /\ backup' = [chain |-> chain, mempool |-> mempool]
  /\ UNCHANGED <<chain, mempool, checked>>

TryBlock ==
  /\ driver = "Backed"
  /\ driver' = "Tried"
  /\ \E outcome \in Outcomes(batch) :
       /\ chain' = execute_block(chain, batch, outcome)
       /\ batch' = included(batch, outcome)
  /\ UNCHANGED <<mempool, checked, backup>>

Reject ==
  /\ driver = "Tried"
  /\ driver' = "Idle"
  /\ batch' = <<>>
  /\ chain' = [backup.chain EXCEPT !.fate = [tx \in Txs |->
                 IF @[tx] = "none" /\ tx \in Range(mempool) \ Range(backup.mempool)
                   THEN "gone" ELSE @[tx]]]
  /\ mempool' = backup.mempool
  /\ backup' = noBackup
  /\ UNCHANGED checked

stale(tx) ==
  \/ tx \in Range(batch)
  \/ tx.nonce < chain.nonce[tx.from]

Accept ==
  /\ driver = "Tried"
  /\ driver' = "Idle"
  /\ batch' = <<>>
  /\ mempool' = retain(mempool, {i \in DOMAIN mempool : ~stale(mempool[i])})
  /\ chain' = [chain EXCEPT !.fate = [tx \in Txs |->
                 IF @[tx] = "none" /\ tx \in Range(mempool) /\ stale(tx)
                   THEN "gone" ELSE @[tx]]]
  /\ backup' = noBackup
  /\ UNCHANGED checked

Init ==
  /\ chain = genesis
  /\ mempool = <<>>
  /\ checked = [th \in Threads |-> NoTx]
  /\ driver = "Idle"
  /\ batch = <<>>
  /\ backup = noBackup

Next ==
  \/ \E th \in Threads, tx \in Txs : Check(th, tx)
  \/ \E th \in Threads : Push(th)
  \/ Take
  \/ Produce
  \/ \E txs \in WireBlocks : BackUp(txs)
  \/ TryBlock
  \/ Reject
  \/ Accept

\* A handler that passed the gate goes on to push, and execution is sequential code.
\* Nothing says that this node's turn to propose comes, or that blocks arrive.
Fairness ==
  /\ \A th \in Threads : WF_vars(Push(th))
  /\ WF_vars(Produce \/ TryBlock \/ Accept \/ Reject)

Spec == Init /\ [][Next]_vars

FairSpec == Spec /\ Fairness

(***************************************************************************)
(* Properties.                                                             *)
(***************************************************************************)
Chains == [nonce : [Senders -> Nat],
           fate  : [Txs -> unsettled \cup {"failed", "executed", "replayed"}]]

\* The type of the state.
TypeOK ==
  /\ chain \in Chains
  /\ mempool \in Seq(Txs)
  /\ checked \in [Threads -> Txs \cup {NoTx}]
  /\ driver \in {"Idle", "Took", "Backed", "Tried"}
  /\ batch \in Seq(Txs)
  /\ backup \in [chain : Chains, mempool : Seq(Txs)]

InFlight == {th \in Threads : checked[th] # NoTx}

InFlightOf(a) == {th \in InFlight : checked[th].from = a}

\* SEC-M5A-3 (ingest_raw_tx): the gate and the push are two critical sections, so
\* the caps can be overshot, but only by the handlers between the two: the mempool
\* never outgrows a cap by more than one transaction per other thread, also when
\* a rejected block puts an old mempool back.
MempoolBounded ==
  /\ Len(mempool) + Cardinality(InFlight)
       < MEMPOOL_MAX_TXS + Cardinality(Threads)
  /\ \A a \in Senders :
       Cardinality(of(mempool, a)) + Cardinality(InFlightOf(a))
         < MEMPOOL_MAX_PER_SENDER + Cardinality(Threads)

\* While a foreign block is being tried nothing leaves the mempool, so putting the
\* copy back can lose transactions but never resurrect one (validate_and_apply_block).
BackupIsPrefix ==
  driver \in {"Backed", "Tried"} =>
    /\ Len(backup.mempool) <= Len(mempool)
    /\ backup.mempool = SubSeq(mempool, 1, Len(backup.mempool))

\* This node proposes, or takes a block after which tx's nonce is used up.
TurnOf(tx) == Take \/ (Accept /\ tx.nonce < chain.nonce[tx.from])

\* An accepted transaction is not left pending: as long as the node's turn to propose
\* comes round, or blocks by others that use up its nonce keep coming (a follower never
\* proposes), what passed the submit gate is in the end in a block or dropped, or pruned
\* because its nonce was used by another, or gone with the mempool that a rejected block
\* puts back (the finding NeverSilentlyLost): produce_block_at_view,
\* validate_and_apply_block.
AdmittedIsSettled ==
  \A tx \in Txs :
    []<><<TurnOf(tx)>>_vars =>
      ((\E th \in Threads : checked[th] = tx) ~> (chain.fate[tx] # "none"))

(***************************************************************************)
(* What the documentation says and the code does not do.                   *)
(***************************************************************************)
\* "EIP-155 replay protection" by "the FIFO mempool + submit gate": no signed
\* transaction takes effect twice.
ReplayProtected == \A tx \in Txs : chain.fate[tx] # "replayed"

\* A submission that was accepted is not "silently dropped": a transaction leaves
\* the mempool only into a block being made, or because it is mined or stale.
NeverSilentlyLost ==
  [][\A tx \in Range(mempool) \ Range(mempool') :
       \/ tx \in Range(batch')
       \/ tx \in Range(batch)
       \/ tx.nonce < chain'.nonce[tx.from]]_vars

=============================================================================
