------------------------------ MODULE TxIndex -------------------------------
(***************************************************************************)
(* The lookups a node answers wallets and explorers from                   *)
(* (crates/rpc/src/lib.rs): the transaction map (by hash), the block map   *)
(* and the per-address activity index.  None is committed by a root; all   *)
(* three are rewritten when a block executes, when a branch is replaced    *)
(* (execute_reorg) and when a snapshot is loaded (load_into).              *)
(*                                                                         *)
(* A block is its content; its hash is the list of contents from block 1   *)
(* to it, which the header hash commits.  A transaction is its hash.       *)
(***************************************************************************)
EXTENDS TxCodec, Sequences, SequencesExt, FiniteSets

CONSTANTS
  Addr,          \* accounts, the hubs included
  Hashes,        \* hashes of signed transactions
  Calls,         \* what the hashes may be the hashes of: functions on Hashes
  ESCROW,        \* the escrow account of the contract that is invoked
  Contents,      \* contents of blocks
  MaxHeight, MaxReorgs   \* bounds

VARIABLES
  call,      \* what each hash is the hash of: fixed, but any
  blocks,    \* canonical chain: sequence of contents (genesis left out)
  txs,       \* hash -> where it is stored
  by_hash,   \* blocks_by_hash: block hash -> height
  index,     \* addr_index: address -> hashes, oldest first
  repeated,  \* ghost: the hashes two blocks of one chain held, since the maps were built
  reorgs     \* reorgs so far (a bound, not state)

index_vars == <<call, blocks, txs, by_hash, index, repeated, reorgs>>

Inner == [blocks |-> blocks, txs |-> txs, by_hash |-> by_hash, index |-> index]

(***************************************************************************)
(* The addresses a transaction is recorded under.                          *)
(***************************************************************************)
\* The accounts in the topics of each log (identifiers, roots and the zero address of a
\* mint are none).
stream_open_logs(from, to)        == {from, to}
stream_stop_logs(caller)          == {caller}
case_opened_log(subject)          == {subject}
verdict_submitted_log(juror)      == {juror}
status_changed_log(subject)       == {subject}
zk_verified_log(subject)          == {subject}
contract_deployed_log(deployer)   == {deployer}
contract_case_opened_log(invoker) == {invoker}
exec_case_outcome_log             == {}

\* The receipt of a transaction that succeeded.  Vouch and FundContract log nothing, and
\* a verdict names its subject when it changed its status.
build_op_logs(h, out) ==
  LET c == call[h]  k == decode_tx(c).kind
  IN CASE out = "failed"              -> {}
       [] k = "OpenStream"            -> stream_open_logs(c.from, c.who)
       [] k = "StopStream"            -> stream_stop_logs(c.from)
       [] k = "RequestVerification"   -> case_opened_log(c.from) \cup status_changed_log(c.from)
       [] k = "Challenge"             -> case_opened_log(c.who)
       [] k = "SubmitVerdict"         ->
            verdict_submitted_log(c.from)
              \cup (IF out = "resolved" THEN status_changed_log(c.who) ELSE {})
       [] k = "SubmitZkPassportProof" -> zk_verified_log(c.from)
       [] k = "DeployContract"        -> contract_deployed_log(c.from)
       [] k = "InvokeContract"        ->
            contract_case_opened_log(c.from) \cup exec_case_outcome_log
       [] k = "SubmitEffect"          -> exec_case_outcome_log
       [] OTHER                       -> {}

affected_addresses(h, out) == {call[h].from, call[h].to} \cup build_op_logs(h, out)

\* The escrow and the payee of an invocation or submission whose effect committed.
contract_effect_addresses(h, out) ==
  IF out = "resolved" /\ decode_tx(call[h]).kind \in {"InvokeContract", "SubmitEffect"}
    THEN {ESCROW, call[h].who} ELSE {}

\* A hash is appended unless it is the last one already.
record(idx, addrs, h) ==
  [a \in Addr |-> IF a \in addrs /\ (idx[a] = <<>> \/ Last(idx[a]) # h)
                    THEN Append(idx[a], h) ELSE idx[a]]

(***************************************************************************)
(* execute_block: each transaction is indexed and stored, then the sweep's *)
(* synthetic transaction, whose hash comes from the entropy of the block:  *)
(* parent and view, not the transactions.  The targets of an effect are    *)
(* indexed only by the block's execution (fresh), where the effect is at   *)
(* hand.                                                                   *)
(***************************************************************************)
sys_hash(parent, b) == <<"sweep", parent, b.view>>

hashes_of(parent, b) ==
  {b.txs[i].hash : i \in DOMAIN b.txs} \cup (IF b.swept = {} THEN {} ELSE {sys_hash(parent, b)})

Branches == UNION {[1..n -> Contents] : n \in 1..MaxHeight}

ASSUME IndexConstants ==
  /\ MaxHeight \in Nat
  /\ \A b \in Contents : \A i \in DOMAIN b.txs : b.txs[i].hash \in Hashes

index_block(idx, parent, b, fresh) ==
  LET one(i, t) ==
        record(record(i, affected_addresses(t.hash, t.out), t.hash),
               IF fresh THEN contract_effect_addresses(t.hash, t.out) ELSE {}, t.hash)
      user == FoldLeft(one, idx, b.txs)
  IN IF b.swept = {} THEN user
     ELSE record(user, {HUMANITY_HUB} \cup b.swept, sys_hash(parent, b))

\* The back-fill: every transaction carries the committed hash of its block.
store_block(g, b, fresh) ==
  LET parent == g.blocks  chain == Append(g.blocks, b)
      new == hashes_of(parent, b)
  IN [blocks  |-> chain,
      txs     |-> [h \in DOMAIN g.txs \cup new |-> IF h \in new THEN chain ELSE g.txs[h]],
      by_hash |-> [p \in DOMAIN g.by_hash \cup {chain} |->
                     IF p = chain THEN Len(chain) ELSE g.by_hash[p]],
      index   |-> index_block(g.index, parent, b, fresh)]

store_blocks(g, list, fresh) ==
  FoldLeft(LAMBDA st, b : store_block(st, b, fresh), g, list)

(***************************************************************************)
(* execute_reorg: cut at the common ancestor, drop the displaced blocks    *)
(* and their transactions from the maps, replay the branch.  A block that  *)
(* fails restores the clone of everything.  The index is not cut.          *)
(***************************************************************************)
\* Mutant: displaced transactions stay in the map.
cut_KeepsTxs(g, ca) ==
  LET kept == SubSeq(g.blocks, 1, ca)
  IN [blocks  |-> kept,
      txs     |-> g.txs,
      by_hash |-> [p \in {q \in DOMAIN g.by_hash : Len(q) <= ca} |-> g.by_hash[p]],
      index   |-> g.index]

cut(g, ca) ==
  LET kept == SubSeq(g.blocks, 1, ca)
      gone == UNION {hashes_of(SubSeq(g.blocks, 1, i - 1), g.blocks[i]) :
                       i \in (ca + 1)..Len(g.blocks)}
  IN [blocks  |-> kept,
      txs     |-> [h \in DOMAIN g.txs \ gone |-> g.txs[h]],
      by_hash |-> [p \in {q \in DOMAIN g.by_hash : Len(q) <= ca} |-> g.by_hash[p]],
      index   |-> g.index]

execute_reorg(g, ca, branch, failing) ==
  IF failing \in DOMAIN branch THEN g ELSE store_blocks(cut(g, ca), branch, TRUE)

(***************************************************************************)
(* load_into: the maps and the index are rebuilt from the saved blocks;    *)
(* the state they executed on is not at hand, so effects' targets are not. *)
(***************************************************************************)
load_into(chain) ==
  store_blocks([blocks |-> <<>>, txs |-> <<>>, by_hash |-> <<>>,
                index |-> [a \in Addr |-> <<>>]], chain, FALSE)

\* The newest limit entries, without those that are in no block any more.
address_activity(a, limit) ==
  LET n == Len(index[a])
      newest == Reverse(SubSeq(index[a], IF n > limit THEN n - limit + 1 ELSE 1, n))
  IN SelectSeq(newest, LAMBDA h : h \in DOMAIN txs)

-----------------------------------------------------------------------------
\* What a chain holds, and what two blocks of it hold.
mined(chain) == UNION {hashes_of(SubSeq(chain, 1, i - 1), chain[i]) : i \in DOMAIN chain}

repeats(chain) ==
  UNION {hashes_of(SubSeq(chain, 1, i - 1), chain[i]) \cap mined(SubSeq(chain, 1, i - 1)) :
           i \in DOMAIN chain}

Becomes(g) ==
  /\ blocks' = g.blocks /\ txs' = g.txs /\ by_hash' = g.by_hash /\ index' = g.index
  /\ UNCHANGED call

\* A block is refused when a transaction does not decode.  Nothing looks whether the chain
\* holds one already: the submit gate's nonces do not exclude it (Mempool).
valid(chain, b) == \A i \in DOMAIN b.txs : decodes(call[b.txs[i].hash])

valid_branch(chain, branch) ==
  \A i \in DOMAIN branch : valid(chain \o SubSeq(branch, 1, i - 1), branch[i])

\* A block this node makes, or takes from a peer.
Extend(b) ==
  /\ Len(blocks) < MaxHeight
  /\ valid(blocks, b)
  /\ Becomes(store_block(Inner, b, TRUE))
  /\ repeated' = repeated \cup repeats(blocks')
  /\ UNCHANGED reorgs

\* Another branch wins; its block number `failing` does not survive validation (0: all do).
Reorg(ca, branch, failing) ==
  /\ reorgs < MaxReorgs
  /\ Len(blocks) <= ca + Len(branch) /\ ca < Len(blocks) /\ ca + Len(branch) <= MaxHeight
  /\ branch[1] # blocks[ca + 1]
  /\ valid_branch(SubSeq(blocks, 1, ca), branch)
  /\ Becomes(execute_reorg(Inner, ca, branch, failing))
  /\ repeated' = repeated \cup repeats(blocks')
  /\ reorgs' = reorgs + 1

Restart ==
  /\ Becomes(load_into(blocks))
  /\ repeated' = repeats(blocks)
  /\ UNCHANGED reorgs

IndexInit ==
  /\ call \in Calls
  /\ blocks = <<>> /\ txs = <<>> /\ by_hash = <<>>
  /\ index = [a \in Addr |-> <<>>]
  /\ repeated = {} /\ reorgs = 0

IndexNext ==
  \/ \E b \in Contents : Extend(b)
  \/ \E ca \in 0..MaxHeight, branch \in Branches :
       \E failing \in 0..Len(branch) : Reorg(ca, branch, failing)
  \/ Restart

IndexSpec == IndexInit /\ [][IndexNext]_index_vars

-----------------------------------------------------------------------------
\* Block i is the last of the chain that holds the hash.
holds_last(chain, i, h) ==
  /\ h \in hashes_of(SubSeq(chain, 1, i - 1), chain[i])
  /\ \A j \in DOMAIN chain :
       j > i => h \notin hashes_of(SubSeq(chain, 1, j - 1), chain[j])

\* eth_getTransactionByHash and eth_getTransactionReceipt answer from the map: after any
\* succession of blocks, reorgs that went through or failed half way, and restarts, every
\* answer names the last block of the canonical chain that holds the transaction, never a
\* displaced one; a canonical transaction goes unanswered only if two blocks of one chain
\* held it since the maps were last built (the finding EveryMinedIsFound); and the block
\* map has exactly the canonical blocks, at their heights.
LookupIsCanonical ==
  /\ \A h \in DOMAIN txs :
       \E i \in DOMAIN blocks : holds_last(blocks, i, h) /\ txs[h] = SubSeq(blocks, 1, i)
  /\ mined(blocks) \subseteq DOMAIN txs \cup repeated
  /\ DOMAIN by_hash = {SubSeq(blocks, 1, i) : i \in DOMAIN blocks}
  /\ \A i \in DOMAIN blocks : by_hash[SubSeq(blocks, 1, i)] = i

\* Whose history a mined transaction belongs in, read off the transaction itself: sender
\* and recipient, the payee of a stream, the human challenged, the human a verdict moved.
Parties(t) ==
  LET c == call[t.hash]  k == decode_tx(c).kind
  IN {c.from, c.to}
       \cup (IF (k \in {"OpenStream", "Challenge"} /\ t.out # "failed")
                  \/ (k = "SubmitVerdict" /\ t.out = "resolved") THEN {c.who} ELSE {})

\* ubi_getAddressActivity without a limit shows every party every canonical transaction
\* of theirs, a sweep to the humans it verified, and nothing that is in no block: stale
\* index entries of displaced blocks are filtered, none is lost by a reorg or a restart.
ActivityCovers ==
  \A a \in Addr :
    LET shown == ToSet(address_activity(a, Len(index[a])))
    IN /\ shown \subseteq mined(blocks)
       /\ \A i \in DOMAIN blocks :
            /\ \A j \in DOMAIN blocks[i].txs :
                 a \in Parties(blocks[i].txs[j]) => blocks[i].txs[j].hash \in shown
            /\ a \in blocks[i].swept => sys_hash(SubSeq(blocks, 1, i - 1), blocks[i]) \in shown

\* The comment on gas_for_call_obj: the preflight estimate is in lock-step with the fee
\* the apply path charges.  For every mined transaction three separate tables agree: what
\* the wallet was told, what the receipt says, what the kernel charged; and the explorer
\* labels it as the operation that was executed, though it parses the calldata again.
PreflightIsCharged ==
  \A i \in DOMAIN blocks : \A j \in DOMAIN blocks[i].txs :
    LET c == call[blocks[i].txs[j].hash]  k == decode_tx(c).kind
    IN /\ gas_for_call_obj(c) = gas(k, c.len)
       /\ gas_for_kind(k, c.len) = gas(k, c.len)
       /\ tx_kind_str(c) = k

(***************************************************************************)
(* What comments say and the code does not do.                             *)
(***************************************************************************)
\* execute_reorg truncates "the losing suffix": what the kept blocks hold is still found.
\* When a displaced block held it too, its removal drops the one entry both share.
EveryMinedIsFound == mined(blocks) \subseteq DOMAIN txs

\* address_activity: "The most-recent `limit` tx hashes that touched `addr` (newest first)":
\* with a limit of one, an address that is in some canonical transaction is shown one.
NewestIsShown ==
  \A a \in Addr : address_activity(a, Len(index[a])) # <<>> => address_activity(a, 1) # <<>>

=============================================================================
