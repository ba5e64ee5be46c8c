---------------------------- MODULE PackedStatus ----------------------------
(***************************************************************************)
(* The packed status snapshot of tools/v2-crypto-bench: a builder that     *)
(* follows the finalized blocks of the issuance registry, rewinds, writes  *)
(* checkpoints and resumes from them; and the holder's own reconstruction  *)
(* of a status path in tools/v2-holder-refresh-engine.  One bit per status *)
(* id, set while the id is revoked or not yet allocated.  A block's hash   *)
(* is the list of the event lists that lead to it.                         *)
(***************************************************************************)
EXTENDS Integers, Sequences, FiniteSets, SequencesExt

CONSTANTS
  LIMB,                  \* bits of a limb (128); a chunk has two
  PACKED_STATUS_DEPTH,   \* levels above the chunks
  MaxHeight,             \* bound: blocks above the first anchor
  Bulk,                  \* bound: allocations of one large block
  None

VARIABLE builder

BITS == 2 * LIMB
LastId == 2^PACKED_STATUS_DEPTH * BITS - 1      \* u32::MAX

(***************************************************************************)
(* Chunks: the sets of fail-closed bits of the low and of the high limb.   *)
(***************************************************************************)
Limb == 0..(LIMB - 1)
FAIL_CLOSED == [low |-> Limb, high |-> Limb]

is_revoked_or_unallocated(chunk, bit) ==
  IF bit < LIMB THEN bit \in chunk.low ELSE bit - LIMB \in chunk.high

with_fail_closed_bit(chunk, bit, fail_closed) ==
  LET set(limb, k) == IF fail_closed THEN limb \cup {k} ELSE limb \ {k} IN
  IF bit < LIMB THEN [chunk EXCEPT !.low = set(@, bit)]
                ELSE [chunk EXCEPT !.high = set(@, bit - LIMB)]

packed_status_leaf_native(chunk) == <<"leaf", chunk>>

Tree == INSTANCE SparseTree WITH Depth <- PACKED_STATUS_DEPTH,
                                 DefaultLeaf <- packed_status_leaf_native(FAIL_CLOSED)

chunk_of(chunks, index) == IF index \in DOMAIN chunks THEN chunks[index] ELSE FAIL_CLOSED

set_chunk(b, index, chunk) ==
  LET held == IF chunk = FAIL_CLOSED THEN DOMAIN b.chunks \ {index} ELSE DOMAIN b.chunks \cup {index}
  IN [b EXCEPT !.chunks = [i \in held |-> IF i = index THEN chunk ELSE @[i]],
               !.nodes = Tree!set_leaf(@, index, packed_status_leaf_native(chunk))]

(***************************************************************************)
(* The builder.                                                            *)
(***************************************************************************)
SourceBlockRef(number, hash, parent_hash) ==
  [number |-> number, hash |-> hash, parent_hash |-> parent_hash]

new(anchor) ==
  [anchor |-> anchor, tip |-> anchor, next_status_id |-> 1, history |-> <<>>,
   chunks |-> [i \in {} |-> FAIL_CLOSED], nodes |-> [x \in {} |-> FAIL_CLOSED]]

\* Does the event apply to the builder's state?
event_ok(b, e) ==
  /\ e.issuer = "this"
  /\ IF e.kind = "allocated"
       THEN b.next_status_id <= LastId /\ e.status_id = b.next_status_id
       ELSE e.authorized /\ e.status_id # 0 /\ e.status_id < b.next_status_id
  /\ is_revoked_or_unallocated(chunk_of(b.chunks, e.status_id \div BITS), e.status_id % BITS)
       = (e.kind = "allocated")

apply_event(b, e) ==
  LET index == e.status_id \div BITS
      chunk == with_fail_closed_bit(chunk_of(b.chunks, index), e.status_id % BITS, e.kind = "revoked")
  IN [set_chunk(b, index, chunk) EXCEPT !.next_status_id = @ + IF e.kind = "allocated" THEN 1 ELSE 0]

\* Mutant: the undo entries are taken in the order they were made.
rollback_events_Forward(b, undo, next) ==
  [FoldLeft(LAMBDA c, u : set_chunk(c, u.status_id \div BITS, u.previous_chunk), b, undo)
     EXCEPT !.next_status_id = next]

rollback_events(b, undo, next) ==
  [FoldRight(LAMBDA u, c : set_chunk(c, u.status_id \div BITS, u.previous_chunk), undo, b)
     EXCEPT !.next_status_id = next]

\* The events up to the first that does not apply, with their undo entries.
apply_events(b, events) ==
  LET step(acc, e) ==
        IF ~acc.ok \/ e.log_index <= acc.log \/ ~event_ok(acc.b, e) THEN [acc EXCEPT !.ok = FALSE]
        ELSE [ok |-> TRUE, log |-> e.log_index, b |-> apply_event(acc.b, e),
              undo |-> Append(acc.undo, [status_id |-> e.status_id,
                         previous_chunk |-> chunk_of(acc.b.chunks, e.status_id \div BITS)])]
  IN FoldLeft(step, [ok |-> TRUE, log |-> -1, b |-> b, undo |-> <<>>], events)

links(b, source) ==
  /\ source.number = b.tip.number + 1
  /\ source.parent_hash = b.tip.hash /\ source.hash # <<>>
  /\ source.hash # b.anchor.hash
  /\ \A i \in DOMAIN b.history : b.history[i].source.hash # source.hash

\* A block that fails half way leaves the builder as it was, through the undo entries.
apply_finalized_block(b, block) ==
  LET run == apply_events(b, block.events) IN
  IF ~links(b, block.source) THEN [ok |-> FALSE, b |-> b]
  ELSE IF ~run.ok THEN [ok |-> FALSE, b |-> rollback_events(run.b, run.undo, b.next_status_id)]
  ELSE [ok |-> TRUE,
        b |-> [run.b EXCEPT !.tip = block.source,
                 !.history = Append(@, [source |-> block.source, previous_tip |-> b.tip,
                                        previous_next_status_id |-> b.next_status_id,
                                        events |-> run.undo])]]

known(b, hash) ==
  \/ hash \in {b.tip.hash, b.anchor.hash}
  \/ \E i \in DOMAIN b.history : b.history[i].source.hash = hash

\* The blocks above the ancestor are undone, the last one first.
rewind_to(b, hash) ==
  LET undone == SelectSeq(b.history, LAMBDA entry : Len(entry.source.hash) > Len(hash))
      back(entry, c) ==
        [rollback_events(c, entry.events, entry.previous_next_status_id) EXCEPT
           !.tip = entry.previous_tip, !.history = Front(@)]
  IN IF known(b, hash) THEN FoldRight(back, undone, b) ELSE b

(***************************************************************************)
(* Checkpoints.                                                            *)
(***************************************************************************)
snapshot(b) ==
  [source |-> b.tip, next_status_id |-> b.next_status_id,
   activated_through_status_id |-> b.next_status_id - 1,
   root |-> Tree!root(b.nodes), chunks |-> b.chunks]

low_bits_mask(count) == 0..(count - 1)

\* Mutant: the mask of the allocated bits is one bit short.
unallocated_tail_is_fail_closed_Short(chunk, last) ==
  IF last < LIMB THEN Limb \ low_bits_mask(last) \subseteq chunk.low /\ chunk.high = Limb
                 ELSE Limb \ low_bits_mask(last - LIMB) \subseteq chunk.high

unallocated_tail_is_fail_closed(chunk, last) ==
  IF last < LIMB THEN Limb \ low_bits_mask(last + 1) \subseteq chunk.low /\ chunk.high = Limb
                 ELSE Limb \ low_bits_mask(last + 1 - LIMB) \subseteq chunk.high

validate_snapshot(s) ==
  LET last == s.next_status_id - 1 IN
  /\ s.source.hash # <<>>
  /\ s.next_status_id \in 1..(LastId + 1)
  /\ s.next_status_id = 1 => DOMAIN s.chunks = {}
  /\ \A i \in DOMAIN s.chunks :
       /\ i \in Tree!Indices /\ i <= last \div BITS
       /\ s.chunks[i] # FAIL_CLOSED
       /\ i = 0 => is_revoked_or_unallocated(s.chunks[i], 0)
       /\ i = last \div BITS => unallocated_tail_is_fail_closed(s.chunks[i], last % BITS)

from_json(s) == validate_snapshot(s) /\ s.activated_through_status_id = s.next_status_id - 1

\* Every node is rebuilt from the chunks; the checkpoint becomes the anchor.
restore(s) ==
  IF ~from_json(s) THEN None
  ELSE LET b == FoldLeft(LAMBDA c, i : set_chunk(c, i, s.chunks[i]),
                         [new(s.source) EXCEPT !.next_status_id = s.next_status_id],
                         SetToSeq(DOMAIN s.chunks))
       IN IF Tree!root(b.nodes) = s.root THEN b ELSE None

\* advance_packed_status_snapshot_from_json: the next checkpoint, or None.
advance(s, source) ==
  LET b == restore(s)
      step(acc, block) ==
        IF acc.ok THEN apply_finalized_block(acc.b, block) ELSE acc
      last == FoldLeft(step, [ok |-> TRUE, b |-> b], source.blocks)
  IN IF source.anchor # s.source \/ b = None \/ ~last.ok THEN None ELSE snapshot(last.b)

(***************************************************************************)
(* Witnesses, and the holder's path from a public snapshot.                *)
(***************************************************************************)
witness(b, id) ==
  [status_id |-> id, root |-> Tree!root(b.nodes), chunk |-> chunk_of(b.chunks, id \div BITS),
   siblings |-> Tree!siblings(b.nodes, id \div BITS)]

\* One sparse layer at a time, each dropped when the next is complete.
next_layer(layer, level) ==
  LET at(i) == IF i \in DOMAIN layer THEN layer[i] ELSE Tree!defaults[level]
      value(p) == Tree!registry_node(at(2 * p), at(2 * p + 1))
      parents == {i \div 2 : i \in DOMAIN layer}
  IN [p \in {q \in parents : value(q) # Tree!defaults[level + 1]} |-> value(p)]

reconstruct_snapshot(s, selected) ==
  LET step(acc, level) ==
        LET beside == Tree!sibling(Tree!shifted(selected)[level]) IN
        [layer |-> next_layer(acc.layer, level),
         siblings |-> Append(acc.siblings, IF beside \in DOMAIN acc.layer THEN acc.layer[beside]
                                           ELSE Tree!defaults[level])]
      leaves == [i \in DOMAIN s.chunks |-> packed_status_leaf_native(s.chunks[i])]
      top == FoldLeft(step, [layer |-> leaves, siblings |-> <<>>], Tree!levels(PACKED_STATUS_DEPTH))
  IN [root |-> IF 0 \in DOMAIN top.layer THEN top.layer[0] ELSE Tree!defaults[PACKED_STATUS_DEPTH],
      siblings |-> top.siblings]

\* Mutant: a revoked id is refused only if its whole chunk is fail-closed.
build_packed_status_path_Revoked(s, id) ==
  LET rebuilt == reconstruct_snapshot(s, id \div BITS) IN
  IF id = 0 \/ id >= s.next_status_id \/ id \div BITS \notin DOMAIN s.chunks \/ rebuilt.root # s.root
    THEN None
    ELSE [chunk |-> s.chunks[id \div BITS], siblings |-> rebuilt.siblings]

build_packed_status_path(s, id) ==
  LET chunk == chunk_of(s.chunks, id \div BITS)
      rebuilt == reconstruct_snapshot(s, id \div BITS)
  IN IF \/ ~from_json(s) \/ id = 0 \/ id >= s.next_status_id
        \/ is_revoked_or_unallocated(chunk, id % BITS)
        \/ rebuilt.root # s.root
       THEN None
       ELSE [chunk |-> chunk, siblings |-> rebuilt.siblings]

verify_stored_status_path(s, id, path) ==
  /\ s.activated_through_status_id >= id
  /\ ~is_revoked_or_unallocated(path.chunk, id % BITS)
  /\ Tree!root_from_path(packed_status_leaf_native(path.chunk), id \div BITS, path.siblings) = s.root

(***************************************************************************)
(* What the source and the disk may hand to the builder.                   *)
(***************************************************************************)
Event(kind, log, id) ==
  [kind |-> kind, log_index |-> log, issuer |-> "this", status_id |-> id, authorized |-> TRUE]

\* Lists of at most two events of any kind, a large block, and lists with one bad event.
EventLists(b) ==
  LET n == b.next_status_id
      at(log) == {Event("allocated", log, id) : id \in {n, n + 1}}
                   \cup {Event("revoked", log, id) : id \in 0..n}
      first == Event("allocated", 1, n)
  IN {<<>>} \cup {<<e>> : e \in at(1)} \cup {<<e, f>> : e \in at(1), f \in at(2)}
       \cup {[k \in 1..Bulk |-> Event("allocated", k, n + k - 1)]}
       \cup {<<first, Event("allocated", 1, n + 1)>>,
             <<first, [Event("allocated", 2, n + 1) EXCEPT !.issuer = "other"]>>,
             <<first, [Event("revoked", 2, n) EXCEPT !.authorized = FALSE]>>}

\* A block on the tip, one above a gap, one with another parent, one with a hash in use.
Blocks(b, events) ==
  LET next == SourceBlockRef(b.tip.number + 1, Append(b.tip.hash, events), b.tip.hash)
  IN {[source |-> r, events |-> events] :
        r \in {next, [next EXCEPT !.number = @ + 1], [next EXCEPT !.parent_hash = b.anchor.hash],
               [next EXCEPT !.hash = b.tip.hash]}}

\* The checkpoint as written, or one whose chunks were changed in one bit.
Stored(b) ==
  LET s == snapshot(b)
      flip(i, k) == LET c == chunk_of(s.chunks, i)
                    IN with_fail_closed_bit(c, k, ~is_revoked_or_unallocated(c, k))
      put(i, c) == [j \in {m \in DOMAIN s.chunks \cup {i} : m # i \/ c # FAIL_CLOSED} |->
                      IF j = i THEN c ELSE s.chunks[j]]
  IN {s} \cup {[s EXCEPT !.chunks = put(i, flip(i, k))] : i \in Tree!Indices, k \in 0..(BITS - 1)}

(***************************************************************************)
(* Actions.                                                                *)
(***************************************************************************)
Genesis == SourceBlockRef(0, <<"anchor">>, <<>>)

Apply ==
  /\ builder.tip.number < MaxHeight
  /\ \E events \in EventLists(builder) : \E block \in Blocks(builder, events) :
       builder' = apply_finalized_block(builder, block).b

Rewind ==
  \E n \in 1..Len(builder.tip.hash) :
    builder' = rewind_to(builder, SubSeq(builder.tip.hash, 1, n))

Restart ==
  \E s \in Stored(builder) : restore(s) # None /\ builder' = restore(s)

Advance ==
  /\ builder.tip.number < MaxHeight
  /\ \E events \in EventLists(builder), anchor \in {builder.tip, builder.anchor} :
       LET s == snapshot(builder)
           block == [source |-> SourceBlockRef(anchor.number + 1, Append(anchor.hash, events), anchor.hash),
                     events |-> events]
           t == advance(s, [anchor |-> anchor, blocks |-> <<block>>])
       IN t # None /\ builder' = restore(t)

Init == builder = new(Genesis)

Next == Apply \/ Rewind \/ Restart \/ Advance

Spec == Init /\ [][Next]_builder

(***************************************************************************)
(* Properties.                                                             *)
(***************************************************************************)
\* What the events of a chain of blocks say, read once from its start.
EventsOf(b) == FlattenSeq(Tail(b.tip.hash))
AllocatedBy(events) == Cardinality({i \in DOMAIN events : events[i].kind = "allocated"})
Active(events, id) ==
  /\ id \in 1..AllocatedBy(events)
  /\ \A i \in DOMAIN events : ~(events[i].kind = "revoked" /\ events[i].status_id = id)

\* However the builder got here, through blocks refused half way, rewinds, checkpoints and
\* restarts, its bits, its next id and every Merkle node are those that the events of the
\* finalized chain below its tip define; a changed checkpoint is never resumed from.
BuilderIsReplay ==
  LET events == EventsOf(builder)
      bits(i) == {k \in 0..(BITS - 1) : ~Active(events, i * BITS + k)}
      chunk(i) == [low |-> bits(i) \cap Limb, high |-> {k - LIMB : k \in bits(i) \ Limb}]
      held == {i \in Tree!Indices : chunk(i) # FAIL_CLOSED}
  IN /\ builder.next_status_id = AllocatedBy(events) + 1
     /\ builder.chunks = [i \in held |-> chunk(i)]
     /\ builder.nodes = Tree!TreeOf([i \in Tree!Indices |-> packed_status_leaf_native(chunk(i))])

\* A holder with nothing but the public snapshot derives a path for exactly the ids that are
\* allocated and not revoked; it is the builder's own witness, and the vault accepts it.
HolderPathsAreWitnesses ==
  \A id \in 0..LastId :
    LET s == snapshot(builder)
        path == build_packed_status_path(s, id)
        w == witness(builder, id)
    IN /\ (path # None) = Active(EventsOf(builder), id)
       /\ path # None => /\ path = [chunk |-> w.chunk, siblings |-> w.siblings]
                         /\ verify_stored_status_path(s, id, path)

\* No checkpoint is a dead end: the one written now is accepted by the next start, at the
\* first id, at a limb's and a chunk's last bit, and when the ids are used up.
CheckpointResumes == restore(snapshot(builder)) # None

=============================================================================
