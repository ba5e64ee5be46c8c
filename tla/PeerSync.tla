------------------------------ MODULE PeerSync ------------------------------
(***************************************************************************)
(* How a node keeps its peers and pulls missing blocks: the peer table and *)
(* the sync client of crates/node/src/net.rs (NetDriver), the swarm loop   *)
(* of crates/network/src/lib.rs with its request table and its reconnect   *)
(* sweep, and the penalties of ratelimit.rs.                               *)
(*                                                                         *)
(* One node is modelled in full; a peer is the chain it serves.  Blocks of *)
(* the node's own chain are heights.  Peers do not lie about signatures,   *)
(* but one may advertise a tip it cannot serve, be on a branch that left   *)
(* this chain below the finalized frontier, or have lost the raw           *)
(* transactions of old blocks in a restart.  The driver and the loop are   *)
(* two tasks joined by unbounded queues; events wait in the queue, while   *)
(* a command counts as carried out when it is queued, because nothing the  *)
(* driver reads depends on when the loop takes it.                         *)
(***************************************************************************)
EXTENDS Totals, Sequences

CONSTANTS
  Peers,
  Boasts,         \* of each peer: how far beyond its chain its Hello tip is
  Forked,         \* the peers on a branch this node cannot adopt
  Bare,           \* of each peer: the last height it serves without transactions
  SYNC_MAX_BATCH, SYNC_MAX_LOOKAHEAD, SYNC_MAX_NO_PROGRESS_ROUNDS,
  GREYLIST_THRESHOLD, FINALITY_DEPTH,
  RECONNECT_TICK, RECONNECT_BACKOFF_MIN, RECONNECT_BACKOFF_MAX,
  Tip,            \* bound: the height of the peers' chain
  Starts,         \* bound: the heads of a node that starts, or has lost all its peers
  MaxBusy,        \* bound: requests and events under way when a block is gossiped
  Flaky,          \* bound: the peers whose requests time out and links close
  MaxFaults       \* bound: requests that time out and connections the network closes

ASSUME PeerSyncConstants ==
  /\ Boasts \in [Peers -> Nat] /\ Bare \in [Peers -> Nat] /\ Forked \subseteq Peers
  /\ SYNC_MAX_BATCH \in Nat \ {0}
  /\ SYNC_MAX_NO_PROGRESS_ROUNDS \in Nat \ {0}
  /\ GREYLIST_THRESHOLD \in Nat \ {0}
  /\ SYNC_MAX_LOOKAHEAD \in Nat /\ FINALITY_DEPTH \in Nat
  /\ RECONNECT_TICK \in Nat \ {0}
  /\ RECONNECT_BACKOFF_MIN \in Nat /\ RECONNECT_BACKOFF_MAX \in Nat
  /\ Tip \in Nat /\ Starts \subseteq 0..Tip /\ MaxBusy \in Nat
  /\ MaxFaults \in Nat

VARIABLES
  driver,   \* head, sync_in_flight_to, the peer table and the penalties not yet counted
  events,   \* NetEvents the driver has not taken
  pending,  \* outbound requests without an answer
  rate,     \* invalid_count of each peer
  boot,     \* of each peer, as a bootstrap target: link, backoff and next_dial_at
  faults    \* requests that timed out and connections closed so far

vars == <<driver, events, pending, rate, boot, faults>>

(***************************************************************************)
(* The driver.  A tip of 0 is no tip: height 0 is never ahead.             *)
(***************************************************************************)
NoEntry == [tip |-> 0, sync_no_progress |-> 0]

\* peers.entry(p).or_default() and peers.remove(p): a missing entry acts as an empty one.
with(d, p, f, v) == [d EXCEPT !.peers[p][f] = v]

forget_peer(d, p) == [d EXCEPT !.peers[p] = NoEntry]

\* Only ever the peer of the event at hand.
penalize_peer(d) == [d EXCEPT !.penalties = @ + 1]

request_blocks(d, p, first, last) ==
  [d EXCEPT !.requests = Append(@, [peer |-> p, kind |-> "blocks", first |-> first, last |-> last])]

maybe_sync(d, p, tip) ==
  IF \/ tip <= d.head
     \/ tip > d.head + SYNC_MAX_LOOKAHEAD
     \/ tip <= d.sync_in_flight_to
  THEN d
  ELSE LET last == Smaller(tip, d.head + SYNC_MAX_BATCH) IN
       request_blocks([d EXCEPT !.sync_in_flight_to = last], p, d.head + 1, last)

\* A pull of the peer's blocks from the finalized frontier up to the head; not gated.
request_fork_backfill(d, p) ==
  LET first == Monus(d.head, FINALITY_DEPTH) + 1 IN
  IF first > d.head THEN d
  ELSE request_blocks(d, p, first, Smaller(d.head, first + SYNC_MAX_BATCH - 1))

on_hello(d, p, tip) == maybe_sync(with(d, p, "tip", tip), p, tip)

\* Mutant: a block ahead of the head is noted and no more.
on_block_NotesOnly(d, p, number) ==
  IF number <= d.head THEN d
  ELSE IF number > d.head + 1 THEN with(d, p, "tip", number)
  ELSE IF p \in Forked THEN d
  ELSE [with(d, p, "tip", number) EXCEPT !.head = number]

\* A gossiped block: known, a clean extension, ahead of the head, or of another branch.
on_block(d, p, number) ==
  IF number <= d.head THEN d
  ELSE IF number > d.head + 1
    THEN maybe_sync(with(d, p, "tip", number), p, number)
  ELSE IF p \in Forked THEN d
  ELSE [with(d, p, "tip", number) EXCEPT !.head = number]

\* The blocks first..last of peer p: where the head is after them, whether they showed a
\* fork, and whether one of them failed shallow_verify.
apply_batch(d, p, first, last) ==
  LET bare == \E h \in first..last : (h > d.head \/ p \in Forked) /\ h <= Bare[p]
      head == IF p \in Forked \/ first > last \/ bare THEN d.head ELSE Larger(d.head, last)
  IN [head |-> head, bare |-> bare,
      fork_seen |-> p \in Forked /\ ~bare /\ d.head + 1 \in first..last]

\* Mutant: a peer that makes no progress is asked again for ever.
no_progress_Endless(d, p, fork_seen) ==
  LET rounds == Smaller(d.peers[p].sync_no_progress + 1, SYNC_MAX_NO_PROGRESS_ROUNDS)
      counted == with(d, p, "sync_no_progress", rounds)
  IN IF fork_seen THEN request_fork_backfill(counted, p)
     ELSE maybe_sync(counted, p, counted.peers[p].tip)

\* The counter is only compared with SYNC_MAX_NO_PROGRESS_ROUNDS, where it stops here.
no_progress(d, p, fork_seen) ==
  LET rounds == Smaller(d.peers[p].sync_no_progress + 1, SYNC_MAX_NO_PROGRESS_ROUNDS)
      counted == with(d, p, "sync_no_progress", rounds)
  IN IF rounds >= SYNC_MAX_NO_PROGRESS_ROUNDS
       THEN with(penalize_peer(counted), p, "tip", 0)
     ELSE IF fork_seen THEN request_fork_backfill(counted, p)
     ELSE maybe_sync(counted, p, counted.peers[p].tip)

\* Any answer opens the gate, also one to another pull.
on_sync_response(d, p, first, last) ==
  LET r     == apply_batch(d, p, first, last)
      after == [(IF r.bare THEN penalize_peer(d) ELSE d)
                  EXCEPT !.head = r.head, !.sync_in_flight_to = 0]
  IN IF r.head > d.head
       THEN maybe_sync(with(after, p, "sync_no_progress", 0), p, after.peers[p].tip)
       ELSE no_progress(after, p, r.fork_seen)

on_event(d, e) ==
  CASE e.type \in {"disconnected", "greylisted"} -> forget_peer(d, e.peer)
    [] e.type = "hello"    -> on_hello(d, e.peer, e.last)
    [] e.type = "block"    -> on_block(d, e.peer, e.last)
    [] e.type = "response" -> on_sync_response(d, e.peer, e.first, e.last)

event(type, p, first, last) == [type |-> type, peer |-> p, first |-> first, last |-> last]

emit(e) == events' = Append(events, e)

connected(p) == boot[p].link = "up"

\* Mutant: a failed pull is only logged.
failed_Silent(rs) == <<>>

\* OutboundFailure: a failed pull reaches the driver as an empty response.
failed(rs) ==
  LET pulls == SelectSeq(rs, LAMBDA r : r.kind = "blocks") IN
  [i \in DOMAIN pulls |-> event("response", pulls[i].peer, pulls[i].first, pulls[i].first - 1)]

\* A link closes: the limiter forgets the peer and what was asked of it fails.
cut(p, queue, asked) ==
  /\ boot' = [boot EXCEPT ![p].link = "down"]
  /\ rate' = [rate EXCEPT ![p] = 0]
  /\ events' = Append(queue, event("disconnected", p, 1, 0))
                 \o failed(SelectSeq(asked, LAMBDA r : r.peer = p))
  /\ pending' = SelectSeq(asked, LAMBDA r : r.peer # p)

\* The driver takes an event and the loop carries out its commands: requests enter the
\* table, penalties are counted, and a connected peer at the threshold is cut off.
OnEvent ==
  LET e == Head(events)
      d == on_event(driver, e)
      count == rate[e.peer] + d.penalties
      greylist == d.penalties > 0 /\ count >= GREYLIST_THRESHOLD
  IN /\ events # <<>>
     /\ driver' = [d EXCEPT !.requests = <<>>, !.penalties = 0]
     /\ \/ /\ ~greylist
           /\ pending' = pending \o d.requests
           /\ events' = Tail(events)
           /\ rate' = [rate EXCEPT ![e.peer] = count]
           /\ UNCHANGED boot
        \/ /\ greylist /\ connected(e.peer)
           /\ cut(e.peer, Append(Tail(events), event("greylisted", e.peer, 1, 0)),
                  pending \o d.requests)
        \/ /\ greylist /\ ~connected(e.peer)
           /\ pending' = pending \o d.requests
           /\ events' = Append(Tail(events), event("greylisted", e.peer, 1, 0))
           /\ rate' = [rate EXCEPT ![e.peer] = count]
           /\ UNCHANGED boot
     /\ UNCHANGED faults

(***************************************************************************)
(* The swarm loop.                                                         *)
(***************************************************************************)
without(i) == SubSeq(pending, 1, i - 1) \o SubSeq(pending, i + 1, Len(pending))

\* The peer answers: its Hello, or on_sync_request with what it has of the range.
Answer(i) ==
  LET r == pending[i] IN
  /\ connected(r.peer)
  /\ pending' = without(i)
  /\ emit(IF r.kind = "hello" THEN event("hello", r.peer, 1, Tip + Boasts[r.peer])
          ELSE event("response", r.peer, r.first,
                     Smaller(Smaller(r.last, Tip), r.first + SYNC_MAX_BATCH - 1)))
  /\ UNCHANGED <<driver, rate, boot, faults>>

\* A request to a closed link fails; one to a peer that is up may time out.
Fail(i) ==
  LET r == pending[i] IN
  /\ pending' = without(i)
  /\ events' = events \o failed(<<r>>)
  /\ \/ ~connected(r.peer) /\ UNCHANGED faults
     \/ /\ connected(r.peer) /\ r.peer \in Flaky /\ faults < MaxFaults
        /\ faults' = faults + 1
  /\ UNCHANGED <<driver, rate, boot>>

on_connected(b) == [b EXCEPT !.backoff = RECONNECT_BACKOFF_MIN, !.next_dial_at = 0]

\* next_dial_at is the time left at the next tick, the only time it is looked at.
arm_backoff(b) ==
  [b EXCEPT !.next_dial_at = Monus(b.backoff, RECONNECT_TICK),
            !.backoff = Smaller(2 * @, RECONNECT_BACKOFF_MAX)]

\* A tick of the sweep for one target.
reconnect(b) ==
  IF b.link = "up" THEN on_connected(b)
  ELSE IF b.next_dial_at > 0 THEN [b EXCEPT !.next_dial_at = Monus(@, RECONNECT_TICK)]
  ELSE IF b.link # "down" THEN b
  ELSE [arm_backoff(b) EXCEPT !.link = "dialing"]

reconnect_sweep ==
  /\ boot' = [p \in Peers |-> reconnect(boot[p])]
  /\ UNCHANGED <<driver, events, pending, rate, faults>>

\* ConnectionEstablished at the dialer, which says Hello first.  (PeerConnected only
\* enters the peer's address and freshness.)
ConnectionEstablished(p) ==
  /\ boot[p].link = "dialing"
  /\ boot' = [boot EXCEPT ![p] = [on_connected(@) EXCEPT !.link = "up"]]
  /\ pending' = Append(pending, [peer |-> p, kind |-> "hello", first |-> 1, last |-> 0])
  /\ UNCHANGED <<driver, events, rate, faults>>

\* Mutant: a dial that fails is final.
OutgoingConnectionError_GivesUp(p) ==
  /\ boot[p].link = "dialing"
  /\ boot' = [boot EXCEPT ![p].link = "gone"]
  /\ UNCHANGED <<driver, events, pending, rate, faults>>

\* A dial that fails takes the backoff back to the floor.
OutgoingConnectionError(p) ==
  /\ boot[p].link = "dialing"
  /\ boot' = [boot EXCEPT ![p] = [on_connected(@) EXCEPT !.link = "down"]]
  /\ UNCHANGED <<driver, events, pending, rate, faults>>

ConnectionClosed(p) ==
  /\ connected(p)
  /\ p \in Flaky /\ faults < MaxFaults
  /\ faults' = faults + 1
  /\ cut(p, events, pending)
  /\ UNCHANGED driver

\* A peer gossips the block at its tip, also in place of those made later.
Gossip(p) ==
  /\ connected(p)
  /\ Len(pending) + Len(events) < MaxBusy
  /\ emit(event("block", p, 1, Tip))
  /\ UNCHANGED <<driver, pending, rate, boot, faults>>

Init ==
  /\ driver \in [head : Starts, sync_in_flight_to : {0}, peers : {[p \in Peers |-> NoEntry]},
                 requests : {<<>>}, penalties : {0}]
  /\ events = <<>>
  /\ pending = <<>>
  /\ rate = [p \in Peers |-> 0]
  /\ boot = [p \in Peers |-> [link |-> "down", backoff |-> RECONNECT_BACKOFF_MIN, next_dial_at |-> 0]]
  /\ faults = 0

Resolve == \E i \in DOMAIN pending : Answer(i) \/ Fail(i)

Next ==
  \/ OnEvent
  \/ Resolve
  \/ reconnect_sweep
  \/ \E p \in Peers :
       \/ ConnectionEstablished(p)
       \/ OutgoingConnectionError(p)
       \/ ConnectionClosed(p)
       \/ Gossip(p)

(***************************************************************************)
(* Both tasks run, requests end (libp2p answers or times each out), a peer *)
(* that is dialled again and again is reached in the end, and blocks go on *)
(* being made.                                                             *)
(***************************************************************************)
Fairness ==
  /\ WF_vars(OnEvent)
  /\ WF_vars(Resolve)
  /\ WF_vars(reconnect_sweep)
  /\ \A p \in Peers : SF_vars(ConnectionEstablished(p)) /\ SF_vars(Gossip(p))

Spec == Init /\ [][Next]_vars /\ Fairness

(***************************************************************************)
(* Properties.                                                             *)
(***************************************************************************)
in_flight(r) ==
  \/ \E i \in DOMAIN pending : pending[i].kind = "blocks" /\ pending[i].last = r
  \/ \E i \in DOMAIN events : events[i].type = "response"

\* The gate is never left closed: while sync_in_flight_to holds requests back, a pull is
\* under way or an answer is waiting for the driver (EC-4), whichever of disconnects,
\* greylisting and timeouts came between.
GateHeld == driver.sync_in_flight_to > 0 => in_flight(driver.sync_in_flight_to)

\* A peer that cannot serve what it advertises, or that is on a dead branch, does not
\* keep the node asking: the requests for blocks come to an end (SEC-M5A-1).
RequestsEnd == <>[](\A i \in DOMAIN pending : pending[i].kind # "blocks")

\* The mesh forms and comes back: every bootstrap peer ends up connected, also one that
\* was not listening at first, dropped, or was cut off.
MeshForms == \A p \in Peers : []<>connected(p)

\* A node that can reach a peer which serves this chain gets to its tip, whatever the
\* other peers advertise, as long as blocks go on being gossiped: once it is within
\* SYNC_MAX_LOOKAHEAD of that tip, for maybe_sync ignores what is further ahead.
CatchUp == driver.head + SYNC_MAX_LOOKAHEAD >= Tip ~> driver.head = Tip

\* "A genuinely far-behind node still catches up" (on_hello, maybe_sync, consts.rs).  Not
\* so: no tip beyond SYNC_MAX_LOOKAHEAD is ever chased, so no batch comes that would
\* bring the head closer.
FarBehindCatchesUp == <>(driver.head = Tip)

\* "Only a GENUINELY-invalid block or a stuck no-progress peer is penalized"
\* (on_sync_response): a peer that answers every request with this chain's blocks is not.
ServingPeersKept ==
  \A p \in Peers : p \notin Forked /\ Boasts[p] = 0 /\ Bare[p] = 0 => rate[p] = 0

=============================================================================
