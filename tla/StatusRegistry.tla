--------------------------- MODULE StatusRegistry ---------------------------
(***************************************************************************)
(* The active-credential registry and the holders' witness refresh of      *)
(* tools/v2-crypto-bench/src/status_registry.rs.  The registry publishes   *)
(* one delta per change to everybody; a holder that was offline applies    *)
(* the deltas since its witness and compares the result with a checkpoint  *)
(* it accepted independently.  The transport is not trusted: it may lose,  *)
(* reorder, repeat or change deltas.                                       *)
(***************************************************************************)
EXTENDS Integers, Sequences, FiniteSets, SequencesExt

CONSTANTS
  StatusIds,       \* canonical, nonzero status ids
  Commitments,     \* credential commitments
  IndexOf,         \* the leaf index of each status id; two may collide
  REGISTRY_DEPTH,
  MAX_EPOCH,       \* the last epoch (u32::MAX)
  MaxBatch,        \* bound: deltas of a batch that were not sent so
  None

VARIABLES
  registry,   \* nodes, records, history, epoch
  wallet,     \* of each status id: its holder's witness, or None
  past        \* history: the nodes of every epoch

registry_vars == <<registry, wallet, past>>

Zero == <<"zero">>

Tree == INSTANCE SparseTree WITH Depth <- REGISTRY_DEPTH, DefaultLeaf <- Zero

\* An index has no more bits than the tree has levels.
ASSUME RegistryConstants ==
  /\ REGISTRY_DEPTH \in Nat /\ MaxBatch \in Nat
  /\ IndexOf \in [StatusIds -> Nat]
  /\ \A id \in StatusIds : Tree!shifted(IndexOf[id])[REGISTRY_DEPTH] = 0

active_status_leaf(id, c) == <<"active", id, c>>

checkpoint(epoch, nodes) == [epoch |-> epoch, root |-> Tree!root(nodes)]

StatusRecord(id, c, active) == [status_id |-> id, credential_commitment |-> c, active |-> active]

known(r, id) == IndexOf[id] \in DOMAIN r.records /\ r.records[IndexOf[id]].status_id = id

next_epoch(r) == r.epoch < MAX_EPOCH

StatusRegistryDelta(from, to, i, old, new, path) ==
  [from |-> from, to |-> to, changed_index |-> i, old_leaf |-> old, new_leaf |-> new,
   siblings |-> path]

\* The leaf and its path are written, the epoch advances and the delta enters the feed.
commit_leaf(r, i, leaf) ==
  LET nodes == Tree!set_leaf(r.nodes, i, leaf)
      delta == StatusRegistryDelta(checkpoint(r.epoch, r.nodes), checkpoint(r.epoch + 1, nodes), i,
                                   Tree!node(r.nodes, 0, i), leaf, Tree!siblings(r.nodes, i))
  IN [r EXCEPT !.nodes = nodes, !.epoch = @ + 1, !.history = Append(@, delta)]

StatusWitness(epoch, nodes, i, leaf) ==
  [epoch |-> epoch, root |-> Tree!root(nodes), leaf_index |-> i, active_leaf |-> leaf,
   siblings |-> Tree!siblings(nodes, i)]

witness(r, id, c) ==
  LET i == IndexOf[id] IN
  IF known(r, id) /\ r.records[i].active /\ r.records[i].credential_commitment = c
    THEN StatusWitness(r.epoch, r.nodes, i, active_status_leaf(id, c)) ELSE None

deltas_since(r, epoch) == SubSeq(r.history, epoch + 1, Len(r.history))

(***************************************************************************)
(* refresh_status_witness.                                                 *)
(***************************************************************************)
root_from_witness(w) == Tree!root_from_path(w.active_leaf, w.leaf_index, w.siblings)

delta_fits(w, d) ==
  /\ d.from.epoch < MAX_EPOCH
  /\ d.from.epoch = w.epoch /\ d.to.epoch = d.from.epoch + 1
  /\ d.from.root = w.root
  /\ Tree!root_from_path(d.old_leaf, d.changed_index, d.siblings) = d.from.root
  /\ Tree!root_from_path(d.new_leaf, d.changed_index, d.siblings) = d.to.root
  /\ d.changed_index # w.leaf_index

\* Mutant: the leading bit of the index instead of the highest differing bit.
divergence_Leading(i, j) == CHOOSE k \in 0..(REGISTRY_DEPTH - 1) : i < 2^(k + 1) /\ (k = 0 \/ i >= 2^k)

\* The highest bit in which two indices differ.
divergence(i, j) ==
  CHOOSE k \in 0..(REGISTRY_DEPTH - 1) :
    Tree!shifted(i)[k] # Tree!shifted(j)[k] /\ Tree!shifted(i)[k + 1] = Tree!shifted(j)[k + 1]

refresh_step(w, d) ==
  IF w = None \/ ~delta_fits(w, d) THEN None
  ELSE LET k == divergence(d.changed_index, w.leaf_index)
           moved == [w EXCEPT !.siblings[k + 1] =
                       Tree!subtree_from_path(d.new_leaf, d.changed_index, d.siblings, k)]
           next == [moved EXCEPT !.root = root_from_witness(moved), !.epoch = d.to.epoch]
       IN IF next.root = d.to.root THEN next ELSE None

\* Mutant: the result is not compared with the accepted checkpoint.
refresh_status_witness_Unpinned(w, deltas, accepted) ==
  FoldLeft(refresh_step, IF root_from_witness(w) = w.root THEN w ELSE None, deltas)

refresh_status_witness(w, deltas, accepted) ==
  LET last == FoldLeft(refresh_step, IF root_from_witness(w) = w.root THEN w ELSE None, deltas)
  IN IF last # None /\ [epoch |-> last.epoch, root |-> last.root] = accepted THEN last ELSE None

(***************************************************************************)
(* The registry's operations and the holders.                              *)
(***************************************************************************)
New == [nodes |-> [x \in {} |-> Zero], records |-> [i \in {} |-> Zero], history |-> <<>>, epoch |-> 0]

Activate(id, c) ==
  LET i == IndexOf[id]
      r == commit_leaf(registry, i, active_status_leaf(id, c))
      s == [r EXCEPT !.records = [k \in DOMAIN @ \cup {i} |->
                                    IF k = i THEN StatusRecord(id, c, TRUE) ELSE @[k]]]
  IN /\ i \notin DOMAIN registry.records
     /\ next_epoch(registry)
     /\ registry' = s
     /\ wallet' = [wallet EXCEPT ![id] = witness(s, id, c)]
     /\ past' = Append(past, s.nodes)

\* The record stays: neither the id nor its index is ever used again.
Revoke(id) ==
  LET i == IndexOf[id]
      r == commit_leaf(registry, i, Zero)
  IN /\ known(registry, id) /\ registry.records[i].active
     /\ next_epoch(registry)
     /\ registry' = [r EXCEPT !.records[i].active = FALSE]
     /\ past' = Append(past, r.nodes)
     /\ UNCHANGED wallet

\* What reaches a holder: the feed as sent, or anything the transport made of it.
Tampered ==
  UNION {{d, [d EXCEPT !.new_leaf = Zero], [d EXCEPT !.to.epoch = @ + 1],
          [d EXCEPT !.changed_index = Tree!sibling(@)],
          [d EXCEPT !.new_leaf = active_status_leaf(id, c),
                    !.to.root = Tree!root_from_path(active_status_leaf(id, c), d.changed_index, d.siblings)]} :
           d \in ToSet(registry.history), id \in StatusIds, c \in Commitments}

Batches(epoch) ==
  {deltas_since(registry, epoch)} \cup UNION {[1..n -> Tampered] : n \in 0..MaxBatch}

\* The checkpoint is accepted independently, current or not.
Refresh(id) ==
  /\ wallet[id] # None
  /\ \E batch \in Batches(wallet[id].epoch), e \in 0..registry.epoch :
       LET w == refresh_status_witness(wallet[id], batch, checkpoint(e, past[e + 1])) IN
       /\ w # None
       /\ wallet' = [wallet EXCEPT ![id] = w]
  /\ UNCHANGED <<registry, past>>

RegistryInit ==
  /\ registry = New
  /\ wallet = [id \in StatusIds |-> None]
  /\ past = <<New.nodes>>

RegistryNext ==
  \E id \in StatusIds :
    \/ \E c \in Commitments : Activate(id, c)
    \/ Revoke(id)
    \/ Refresh(id)

RegistrySpec == RegistryInit /\ [][RegistryNext]_registry_vars

(***************************************************************************)
(* Properties.                                                             *)
(***************************************************************************)
\* Whatever the transport made of the feed, the witness a holder ends up with is one the
\* registry itself would have issued at that epoch: its leaf is in that epoch's tree, so a
\* credential revoked by then has none.
WitnessesGenuine ==
  \A id \in StatusIds : wallet[id] # None =>
    LET w == wallet[id]
        nodes == past[w.epoch + 1]
    IN /\ w = StatusWitness(w.epoch, nodes, w.leaf_index, w.active_leaf)
       /\ Tree!node(nodes, 0, w.leaf_index) = w.active_leaf

\* The feed is enough: a holder offline for any number of activations and revocations gets,
\* from the deltas alone, the witness the registry would issue now, and gets none if it was
\* revoked meanwhile.
FeedSuffices ==
  \A id \in StatusIds : wallet[id] # None =>
    refresh_status_witness(wallet[id], deltas_since(registry, wallet[id].epoch),
                           checkpoint(registry.epoch, registry.nodes))
      = witness(registry, id, wallet[id].active_leaf[3])

\* The nodes kept after any sequence of updates along paths are those of the tree built
\* from the records: none is stale, none is missing, no default is stored.
NodesAreTheTree ==
  registry.nodes = Tree!TreeOf([i \in Tree!Indices |->
    IF i \in DOMAIN registry.records /\ registry.records[i].active
      THEN active_status_leaf(registry.records[i].status_id, registry.records[i].credential_commitment)
      ELSE Zero])

=============================================================================
