----------------------------- MODULE LightClient -----------------------------
(***************************************************************************)
(* The light client: the node's WebSocket sync gateway                      *)
(* (crates/rpc/src/sync_gateway.rs), the client that follows it             *)
(* (packages/light-client/src/client.ts) and the wasm kernel that re-checks *)
(* every block (crates/runtime-wasm/src).                                   *)
(*                                                                          *)
(* Hashes are injective: a header stands for its hash, a state for its      *)
(* root.  A state is the Self scope of the genesis and the transactions     *)
(* executed since.  Every node seals a genesis that pins a scope, which no  *)
(* snapshot carries; a chain built from the library, as the tests of the    *)
(* gateway do, may pin none: a behaviour is of one or of the other.  The    *)
(* client's event loop runs one handler to its next wait, so a step of the  *)
(* client is one such stretch.                                              *)
(***************************************************************************)
EXTENDS Integers, Sequences, FiniteSets, SequencesExt

CONSTANTS
    Validators,               \* the pinned validator set
    Expected,                 \* the proposer the client expects
    Stranger,                 \* a proposer outside the pinned set
    Scopes,                   \* the Self scopes a genesis may pin, None for none
    SYNC_MAX_BATCH,           \* blocks of one GetBlocks answer
    HANDSHAKE_CATCHUP_ROUNDS, \* tip re-queries before going live
    HEADS,                    \* capacity of the head broadcast channel
    MaxHeight,                \* bound on block numbers
    MaxFaults,                \* bound on the faults of a behaviour
    None                      \* the absent value

ASSUME LightAssumption ==
    /\ Expected \in Validators /\ Stranger \notin Validators
    /\ {SYNC_MAX_BATCH, HANDSHAKE_CATCHUP_ROUNDS, HEADS} \subseteq Nat \ {0}
    /\ {MaxHeight, MaxFaults} \subseteq Nat

VARIABLES
    genesis_state, \* the sealed state of the node's block 0
    chain,    \* the node's blocks above genesis
    session,  \* the gateway's session: stage, head queue, frames both ways
    client,   \* the client
    faults,   \* history: the faults so far
    made      \* history: every block the node's chain ever held

vars == <<genesis_state, chain, session, client, faults, made>>

----------------------------------------------------------------------------
(* Blocks and states *)

export_state(s) == s.log
import_state(d) == [scope |-> None, log |-> d]
state_root(s) == s
apply_ops(s, b) == [s EXCEPT !.log = Append(@, b.txs)]

GENESIS == "genesis"
compute_txs_root(txs) == txs
header(b) == [number |-> b.number, parent_hash |-> b.parent_hash,
              timestamp |-> b.timestamp, txs_root |-> b.txs_root,
              state_root |-> b.state_root, proposer |-> b.proposer]
Sign(who, h) == [signer |-> who, digest |-> h]
recover_proposer(b) ==
    IF b.proposer_sig.digest = header(b) THEN b.proposer_sig.signer ELSE None
shallow_verify(b) == /\ compute_txs_root(b.txs) = b.txs_root
                     /\ recover_proposer(b) = b.proposer

MakeBlock(n, parent, time, root, who, txs) ==
    LET h == [number |-> n, parent_hash |-> parent, timestamp |-> time,
              txs_root |-> compute_txs_root(txs), state_root |-> root,
              proposer |-> who]
    IN  [number |-> n, parent_hash |-> parent, timestamp |-> time,
         txs_root |-> compute_txs_root(txs), state_root |-> root,
         proposer |-> who, proposer_sig |-> Sign(who, h), txs |-> txs]

Tip == Len(chain)
StateAt(g, c) == IF c = <<>> THEN g ELSE Last(c).state_root
HashAt(c) == IF c = <<>> THEN GENESIS ELSE header(Last(c))

\* A proper next block, on the genesis state g and the blocks c, with transactions
\* txs by who, dated t.
Child(g, c, who, txs, t) ==
    MakeBlock(Len(c) + 1, HashAt(c), t,
              state_root(apply_ops(StateAt(g, c), [txs |-> txs])), who, txs)
\* One whose state root is not what its transactions give.
BadChild(g, c, who, txs) ==
    MakeBlock(Len(c) + 1, HashAt(c), 2 * (Len(c) + 1), StateAt(g, c), who, txs)

----------------------------------------------------------------------------
(* The wasm kernel *)

LightCore(state, number, hash, root, time) ==
    [state |-> state, tip_number |-> number, tip_hash |-> hash,
     tip_state_root |-> root, tip_timestamp |-> time]

\* The served snapshot is imported and its root compared with the pinned one.
genesis_import(pinned, snapshot) ==
    LET s == import_state(snapshot)
    IN  IF state_root(s) = pinned
        THEN LightCore(s, 0, GENESIS, state_root(s), 0) ELSE None

header_fits_AnyParent(core, b) ==
    /\ b.number = core.tip_number + 1
    /\ b.timestamp > core.tip_timestamp
    /\ b.proposer = Expected
header_fits(core, b) ==
    /\ b.number = core.tip_number + 1
    /\ b.parent_hash = core.tip_hash
    /\ b.timestamp > core.tip_timestamp
    /\ b.proposer = Expected
    /\ b.proposer \in Validators
verifies(core, b) ==
    /\ shallow_verify(b)
    /\ header_fits(core, b)
    /\ state_root(apply_ops(core.state, b)) = b.state_root

apply_block(core, b) ==
    IF verifies(core, b)
    THEN LightCore(apply_ops(core.state, b), b.number, header(b),
                   b.state_root, b.timestamp)
    ELSE None

----------------------------------------------------------------------------
(* The client *)

NoRequest == [id |-> 0, kind |-> "none"]
\* The root the app pins is that of the genesis the node seals.
NewClient(root) ==
    [genesisStateRoot |-> root,
     phase |-> "hello", core |-> None, verified |-> <<>>, target |-> 0,
     round |-> 0, req |-> NoRequest, nextReqId |-> 1, buffer |-> {},
     draining |-> "no", queued |-> FALSE, badge |-> "unverified",
     stored |-> None]

\* Request ids are reused once no answer to the old one can be on its way.
Ids == MaxFaults + 2
Asks(c, kind, from, to) ==
    [c EXCEPT !.req = [id |-> c.nextReqId, kind |-> kind],
              !.nextReqId = (@ % Ids) + 1]
Ask(c, kind, from, to) == [id |-> c.nextReqId, kind |-> kind, from |-> from, to |-> to]

\* What a stretch of the client leaves: its new state and the frames it sent.
Result(c, sent) == [c |-> c, sent |-> sent]
request(c, kind, from, to) ==
    Result(Asks(c, kind, from, to), <<Ask(c, kind, from, to)>>)

\* The applied tip: 0 until the core exists.
localTip(c) == IF c.core = None THEN 0 ELSE c.core.tip_number

\* The first block of a height stays; the tip and below are ignored.
enqueueBlocks(c, bs) ==
    [c EXCEPT !.buffer = @ \cup {b \in ToSet(bs) :
        b.number > localTip(c) /\ \A x \in c.buffer : x.number # b.number}]

nextOf(c) == {b \in c.buffer : b.number = localTip(c) + 1}
higher_None(c) == {}
higher(c) == {b.number : b \in {x \in c.buffer : x.number > localTip(c) + 1}}

\* drain: one applier at a time; it clears the wish for another pass and runs.
drain(c) == Result([c EXCEPT !.draining = "run", !.queued = FALSE], <<>>)

gap_end(c) == LET cap == localTip(c) + SYNC_MAX_BATCH
                  low == (CHOOSE n \in higher(c) : \A m \in higher(c) : n <= m) - 1
              IN  IF cap < low THEN cap ELSE low

\* The rest of sync(): catchUpTo, the bounded tip re-queries, then live.
goLive(c) == drain([c EXCEPT !.phase = "live"])
nextRound(c) ==
    IF c.round < HANDSHAKE_CATCHUP_ROUNDS
    THEN request([c EXCEPT !.phase = "tip", !.round = @ + 1], "tip", 0, 0)
    ELSE goLive(c)
catchUpTo(c) ==
    LET tip == c.core.tip_number
        to == IF tip + SYNC_MAX_BATCH <= c.target THEN tip + SYNC_MAX_BATCH
              ELSE c.target
    IN  IF tip < c.target
        THEN request([c EXCEPT !.phase = "catchup"], "blocks", tip + 1, to)
        ELSE nextRound(c)

\* Where a finished drain returns to: the catch-up loop, or the event loop.
returned(c) == IF c.phase = "catchup" THEN catchUpTo(c) ELSE Result(c, <<>>)

\* A rejected request ends sync(); once live it only ends the running drain.
rejected(c) == [c EXCEPT !.req = NoRequest, !.draining = "no",
                         !.phase = IF @ = "live" THEN @ ELSE "failed"]

\* A reply of the wrong kind makes the waiting call throw.
Answers(kind) == CASE kind \in {"hello", "tip"} -> "Hello"
                   [] kind = "genesis" -> "Genesis"
                   [] kind \in {"blocks", "gap"} -> "Blocks"

onHello(c, f) ==
    IF f.network # "ours" THEN Result(rejected(c), <<>>)
    ELSE request([c EXCEPT !.phase = "genesis", !.target = f.tip], "genesis", 0, 0)
onGenesis(c, f) ==
    LET core == genesis_import(c.genesisStateRoot, f.snapshot)
    IN  IF f.state_root # c.genesisStateRoot \/ core = None
        THEN Result(rejected(c), <<>>)
        ELSE catchUpTo([c EXCEPT !.core = core])
onTip(c, f) == IF f.tip <= c.core.tip_number THEN goLive(c)
               ELSE catchUpTo([c EXCEPT !.target = f.tip])
onBlocks(c, f) == IF f.blocks = <<>> THEN nextRound(c)
                  ELSE drain(enqueueBlocks(c, f.blocks))
onGap(c, f) ==
    IF f.blocks # <<>> THEN drain(enqueueBlocks(c, f.blocks))
    ELSE IF c.queued THEN drain(c)
    ELSE Result([c EXCEPT !.draining = "save"], <<>>)

resolve(c, f) ==
    LET kind == c.req.kind
        d == [c EXCEPT !.req = NoRequest]
    IN  IF f.tag # Answers(kind) THEN Result(rejected(d), <<>>)
        ELSE CASE kind = "hello" -> onHello(d, f)
               [] kind = "genesis" -> onGenesis(d, f)
               [] kind = "tip" -> onTip(d, f)
               [] kind = "blocks" -> onBlocks(d, f)
               [] kind = "gap" -> onGap(d, f)

\* onMessage: a numbered frame answers the request of that number, if it still
\* waits; frame 0 is a push.
onPush(c, f) ==
    LET d == enqueueBlocks(c, f.blocks)
    IN  IF c.phase # "live" THEN Result(d, <<>>)
        ELSE IF c.draining # "no" THEN Result([d EXCEPT !.queued = TRUE], <<>>)
        ELSE drain(d)
onMessage_AnyFrame(c, f) ==
    IF c.req # NoRequest THEN resolve(c, f)
    ELSE IF f.id = 0 THEN onPush(c, f) ELSE Result(c, <<>>)
onMessage(c, f) ==
    IF f.id = 0 THEN onPush(c, f)
    ELSE IF c.req # NoRequest /\ c.req.id = f.id THEN resolve(c, f)
    ELSE Result(c, <<>>)

----------------------------------------------------------------------------
(* The gateway *)

CanFail == Len(faults) < MaxFaults

Frame(id, tag) == [id |-> id, tag |-> tag, network |-> "ours", tip |-> 0,
                   blocks |-> <<>>, state_root |-> None, snapshot |-> <<>>]
NewSession == [stage |-> "new", heads |-> <<>>,
               inbox |-> <<[id |-> 1, kind |-> "hello", from |-> 0, to |-> 0]>>,
               outbox |-> <<>>]

\* Broadcast a head: a receiver that lags loses its oldest ones.
announced(s, bs) ==
    IF s.stage \notin {"greeting", "serving"} THEN s
    ELSE LET all == s.heads \o bs
         IN  [s EXCEPT !.heads = IF Len(all) <= HEADS THEN all
                                 ELSE SubSeq(all, Len(all) - HEADS + 1, Len(all))]

reply(q) ==
    CASE q.kind \in {"hello", "tip"} -> [Frame(q.id, "Hello") EXCEPT !.tip = Tip]
      [] q.kind = "genesis" -> [Frame(q.id, "Genesis") EXCEPT
                                   !.state_root = state_root(genesis_state),
                                   !.snapshot = export_state(genesis_state)]
      [] q.kind \in {"blocks", "gap"} ->
            LET to == CHOOSE n \in {q.to, q.from + SYNC_MAX_BATCH - 1, Tip} :
                          n <= q.to /\ n <= q.from + SYNC_MAX_BATCH - 1 /\ n <= Tip
            IN  [Frame(q.id, "Blocks") EXCEPT !.blocks = SubSeq(chain, q.from, to)]

\* The first frame is a Hello: subscribe to heads, then read the tip.
Subscribe ==
    /\ session.stage = "new" /\ session.inbox # <<>>
    /\ session' = [session EXCEPT !.stage = "greeting"]
    /\ UNCHANGED <<genesis_state, chain, client, faults, made>>

Greet ==
    /\ session.stage = "greeting"
    /\ session' = [session EXCEPT !.stage = "serving", !.inbox = Tail(@),
                                  !.outbox = Append(@, reply(Head(session.inbox)))]
    /\ UNCHANGED <<genesis_state, chain, client, faults, made>>

HandleRequest ==
    /\ session.stage = "serving" /\ session.inbox # <<>>
    /\ session' = [session EXCEPT !.inbox = Tail(@),
                                  !.outbox = Append(@, reply(Head(session.inbox)))]
    /\ UNCHANGED <<genesis_state, chain, client, faults, made>>

push(b) == [Frame(0, "Blocks") EXCEPT !.blocks = <<b>>]

Push ==
    /\ session.stage = "serving" /\ session.heads # <<>>
    /\ session' = [session EXCEPT !.heads = Tail(@),
                                  !.outbox = Append(@, push(Head(session.heads)))]
    /\ UNCHANGED <<genesis_state, chain, client, faults, made>>

----------------------------------------------------------------------------
(* The client's handlers *)

\* A stretch of the client ends in r: its new state and what it sends.
Becomes(r, outbox) ==
    /\ client' = r.c
    /\ session' = [session EXCEPT !.outbox = outbox, !.inbox = @ \o r.sent]
    /\ UNCHANGED <<genesis_state, chain, faults, made>>

\* No message is handled while the applier runs between two of its waits.
Deliver ==
    /\ client.draining # "run" /\ session.outbox # <<>>
    /\ Becomes(onMessage(client, Head(session.outbox)), Tail(session.outbox))

\* applyWireBlock: a block that fails is gone, the tip stays, the badge turns
\* and the drain is over.
ApplyNext ==
    /\ client.draining = "run"
    /\ \E b \in nextOf(client) :
          LET core == apply_block(client.core, b)
              rest == [client EXCEPT !.buffer = @ \ {b}]
          IN  Becomes(IF core = None
                      THEN returned([rest EXCEPT !.badge = "error", !.draining = "no"])
                      ELSE Result([rest EXCEPT !.core = core, !.badge = "verified",
                                               !.verified = Append(@, b)], <<>>),
                      session.outbox)

\* A block above a missing height is buffered: ask for the heights below it.
FetchGap ==
    /\ client.draining = "run" /\ nextOf(client) = {} /\ higher(client) # {}
    /\ Becomes(request([client EXCEPT !.draining = "fetch"], "gap",
                       localTip(client) + 1, gap_end(client)),
               session.outbox)

\* Nothing is left to apply: the state is saved.
Persist ==
    /\ client.draining = "run" /\ nextOf(client) = {} /\ higher(client) = {}
    /\ Becomes(Result([client EXCEPT !.draining = "save"], <<>>), session.outbox)

\* The save is over.
Saved ==
    /\ client.draining = "save"
    /\ Becomes(returned([client EXCEPT !.draining = "no",
                             !.stored = export_state(client.core.state)]),
               session.outbox)

Timeout ==
    /\ client.req # NoRequest /\ CanFail
    /\ client' = rejected(client)
    /\ faults' = Append(faults, "timeouts")
    /\ UNCHANGED <<genesis_state, chain, session, made>>

\* The connection is lost; the page is loaded again and a new session starts.
Close ==
    /\ session.stage # "closed" /\ CanFail
    /\ session' = [session EXCEPT !.stage = "closed", !.heads = <<>>,
                                  !.inbox = <<>>, !.outbox = <<>>]
    /\ client' = IF client.req # NoRequest THEN rejected(client) ELSE client
    /\ faults' = Append(faults, "closes")
    /\ UNCHANGED <<genesis_state, chain, made>>

Reload ==
    /\ session.stage = "closed"
    /\ session' = NewSession
    /\ client' = [NewClient(client.genesisStateRoot) EXCEPT
                      !.stored = client.stored,
                      !.req = [id |-> 1, kind |-> "hello"], !.nextReqId = 2]
    /\ UNCHANGED <<genesis_state, chain, faults, made>>

----------------------------------------------------------------------------
(* The node behind the gateway *)

Produce ==
    /\ Tip < MaxHeight
    /\ \E v \in Validators :
          LET b == Child(genesis_state, chain, v, <<"tx">>, 2 * (Tip + 1))
          IN  /\ chain' = Append(chain, b)
              /\ made' = made \cup {b}
              /\ session' = announced(session, <<b>>)
    /\ UNCHANGED <<genesis_state, client, faults>>

\* The tip gives way to a longer branch, whose first block carries the same
\* transactions at a later time; every replayed block is announced.
Reorg ==
    /\ Tip > 0 /\ Tip < MaxHeight /\ CanFail
    /\ \E v \in Validators :
          LET base == Front(chain)
              b == Child(genesis_state, base, v, Last(chain).txs, 2 * Tip + 1)
              d == Child(genesis_state, Append(base, b), v, <<>>, 2 * (Tip + 1))
          IN  /\ chain' = base \o <<b, d>>
              /\ made' = made \cup {b, d}
              /\ session' = announced(session, <<b, d>>)
    /\ faults' = Append(faults, "reorgs")
    /\ UNCHANGED <<genesis_state, client>>

\* execute_block announces a peer's block before its roots are compared.
Trial ==
    /\ Tip < MaxHeight /\ CanFail
    /\ \E v \in Validators :
          session' = announced(session, <<BadChild(genesis_state, chain, v, <<"tx">>)>>)
    /\ faults' = Append(faults, "trials")
    /\ UNCHANGED <<genesis_state, chain, client, made>>

\* A gateway that is not to be trusted: a block of its own, or a changed one.
Forged == {Child(genesis_state, chain, Stranger, <<"tx">>, 2 * (Tip + 1))}
          \cup {[b EXCEPT !.txs = IF @ = <<>> THEN <<"tx">> ELSE <<>>] :
                    b \in ToSet(chain)}
Forge ==
    /\ session.stage = "serving" /\ CanFail
    /\ \E b \in Forged :
          session' = [session EXCEPT !.outbox = Append(@, push(b))]
    /\ faults' = Append(faults, "forged")
    /\ UNCHANGED <<genesis_state, chain, client, made>>

----------------------------------------------------------------------------
Init ==
    /\ genesis_state \in {[scope |-> s, log |-> <<>>] : s \in Scopes}
    /\ chain = <<>> /\ made = {}
    /\ session = NewSession
    /\ client = [NewClient(state_root(genesis_state)) EXCEPT
                      !.req = [id |-> 1, kind |-> "hello"], !.nextReqId = 2]
    /\ faults = <<>>

Gateway == Subscribe \/ Greet \/ HandleRequest \/ Push
Node == Produce \/ Reorg \/ Trial \/ Forge
Next == Gateway \/ Deliver \/ ApplyNext \/ FetchGap \/ Persist \/ Saved \/ Timeout \/ Close \/ Reload \/ Node

Spec == /\ Init /\ [][Next]_vars
        /\ WF_vars(Subscribe) /\ WF_vars(Greet) /\ WF_vars(HandleRequest)
        /\ WF_vars(Push) /\ WF_vars(Deliver) /\ WF_vars(Saved)
        /\ WF_vars(ApplyNext) /\ WF_vars(FetchGap) /\ WF_vars(Persist)

----------------------------------------------------------------------------
(* Properties *)

\* Whatever the gateway sends, a balance the client shows comes from blocks the
\* node's chain once held, re-executed one after the other from the pinned
\* genesis: each applied block is the child of the one before it.
VerifiedIsReplay ==
    client.core # None =>
        /\ ToSet(client.verified) \subseteq made
        /\ client.core.tip_number = Len(client.verified)
        /\ client.core.state = StateAt(genesis_state, client.verified)
        /\ \A i \in 1..Len(client.verified) :
               client.verified[i].parent_hash
                   = HashAt(SubSeq(client.verified, 1, i - 1))

\* "serve a browser light client the verifiable genesis" (node/lib.rs), "what make a
\* seeded genesis snapshot ... re-derive to the SAME root" (snapshot.rs): the snapshot
\* of the sealed genesis passes the client's own import.  Not so with a pinned scope.
GenesisServed ==
    genesis_import(state_root(genesis_state), export_state(genesis_state)) # None

\* A push is never taken for the answer to a request (issue #37): as long as no
\* request timed out and the connection held, sync() fails only on a genesis that
\* does not pass its import, with nothing shown.
PushIsNoReply ==
    {"timeouts", "closes"} \cap ToSet(faults) = {} /\ client.phase = "failed" =>
        ~GenesisServed /\ client.core = None

AtTip == client.core # None /\ client.core.tip_number = Tip

\* How sync() ends with a node that does not reorg, on a connection that holds.  If
\* the genesis pins no scope the client ends at the node's tip however heads, answers
\* and its own saves interleave, and however many heads the broadcast channel dropped,
\* unless its last push came while a save was running (see NoLostWakeup).  If it pins
\* one, as every node's does, sync() has failed and the client shows nothing.
CaughtUp ==
    <>[](faults = <<>> =>
            IF GenesisServed THEN AtTip \/ client.queued
            ELSE client.phase = "failed" /\ client.core = None)

\* "ask it to re-scan the buffer after its current pass (no lost wakeup)":
\* a push that arrives while the applier runs is applied by it.
NoLostWakeup == <>[](faults = <<>> => AtTip)
=============================================================================
