-------------------------- MODULE LightClientProofs --------------------------
(***************************************************************************)
(* Proofs about LightClient: whatever the gateway sends, the client's      *)
(* state is the replay of blocks the node's chain held; and as long as no  *)
(* request times out and the connection holds, sync() fails on nothing but *)
(* a genesis that does not pass its import, however pushes and answers     *)
(* interleave.                                                             *)
(*                                                                         *)
(* The first rests on what can be on its way to the client: every block in *)
(* the session and in the buffer was on the node's chain, or fails one of  *)
(* the checks of apply_block for good (Junk).  The second rests on the     *)
(* request that waits: it is on its way to the gateway or its answer is on *)
(* the way back, and nothing else that has a number is (Flow).             *)
(***************************************************************************)
EXTENDS LightClient, SequenceTheorems, WellFoundedInduction, NaturalsInduction, TLAPS

(***************************************************************************)
(* Types.  B: the blocks that are anywhere; C: the values of the core.     *)
(***************************************************************************)
Kinds == {"hello", "genesis", "tip", "blocks", "gap"}
Phases == {"hello", "genesis", "catchup", "tip", "live", "failed"}
Logs == Seq(Seq({"tx"}))
States == [scope : Scopes, log : Logs]

Reqs == {NoRequest} \cup [id : Nat \ {0}, kind : Kinds]

Requests ==
  {q \in [id : Nat \ {0}, kind : Kinds, from : Nat, to : Int] :
     q.kind \in {"blocks", "gap"} => q.from # 0}

Frames(B) == [id : Nat, tag : {"Hello", "Genesis", "Blocks"}, network : {"ours"}, tip : Nat,
              blocks : Seq(B), state_root : States \cup {None}, snapshot : Logs]

Sessions(B) == [stage : {"new", "greeting", "serving", "closed"}, heads : Seq(B),
                inbox : Seq(Requests), outbox : Seq(Frames(B))]

Clients(g, B, C, M) ==
  [genesisStateRoot : {g},
   phase : Phases, core : C, verified : Seq(M), target : Nat, round : Nat, req : Reqs,
   nextReqId : Nat \ {0}, buffer : SUBSET B, draining : {"no", "run", "fetch", "save"},
   queued : BOOLEAN, badge : {"unverified", "verified", "error"}, stored : Logs \cup {None}]

\* A block some node made: signed as it is.
Genuine(b) ==
  /\ b = MakeBlock(b.number, b.parent_hash, b.timestamp, b.state_root, b.proposer, b.txs)
  /\ b.number \in Nat \ {0} /\ b.txs \in Seq({"tx"}) /\ b.state_root \in States

\* A block no client ever accepts: its transactions are not those of its root, its
\* proposer is not the expected one, or its state root is that of the block before.
Junk(g, b) ==
  \/ b.txs # b.txs_root
  \/ b.proposer # Expected
  \/ b.state_root = IF b.number = 1 THEN g ELSE b.parent_hash.state_root

Faults == {"timeouts", "closes", "reorgs", "trials", "forged"}

Typed(B, C) ==
  /\ genesis_state \in States
  /\ made \subseteq B
  /\ \A b \in made : Genuine(b)
  /\ \A b \in B : b.number \in Nat /\ (b \in made \/ Junk(genesis_state, b))
  /\ chain \in Seq(made)
  /\ session \in Sessions(B)
  /\ client \in Clients(genesis_state, B, C, made)
  /\ faults \in Seq(Faults)

(***************************************************************************)
(* The client's own state.                                                 *)
(***************************************************************************)
\* Its core is what the verified blocks lead to, one after the other.
Replays(g, c) ==
  /\ c.core.tip_number = Len(c.verified)
  /\ c.core.state = StateAt(g, c.verified)
  /\ c.core.tip_hash = HashAt(c.verified)
  /\ \A i \in 1..Len(c.verified) :
       c.verified[i].parent_hash = HashAt(SubSeq(c.verified, 1, i - 1))

\* There is a core from the answer to the genesis request on.
Cored(c) ==
  /\ c.core = None => c.verified = <<>>
  /\ c.core = None => /\ c.req.kind \notin {"tip", "blocks", "gap"}
                      /\ c.phase \notin {"catchup", "tip", "live"}
                      /\ c.draining = "no"
  /\ c.core # None => c.req.kind \notin {"hello", "genesis"}

\* Which request waits while the applier is where it is: at most one, and only a gap's
\* while the applier is at work.
OneWaits(c) ==
  /\ c.req.kind \in {"hello", "genesis", "tip", "blocks"}
       => c.draining = "no" /\ c.phase # "live"
  /\ c.req.kind = "gap" <=> c.draining = "fetch"

Good(g, c) ==
  /\ c.core # None => Replays(g, c)
  /\ Cored(c)
  /\ OneWaits(c)

Inv ==
  /\ \E B, C : Typed(B, C)
  /\ session.stage = "greeting" => session.inbox # <<>>
  /\ Good(genesis_state, client)

(***************************************************************************)
(* The way of a request and of its answer.                                 *)
(***************************************************************************)
Calm == {"timeouts", "closes"} \cap ToSet(faults) = {}

Numbered(out) == {i \in DOMAIN out : out[i].id # 0}

\* An answer the waiting call can use.
Suits(g, f, kind) ==
  /\ f.tag = Answers(kind)
  /\ f.tag = "Genesis" => f.state_root = g /\ f.snapshot = export_state(g)

Nothing == session.inbox = <<>> /\ Numbered(session.outbox) = {}

Asked(req) ==
  /\ Numbered(session.outbox) = {}
  /\ Len(session.inbox) = 1
  /\ session.inbox[1].id = req.id /\ session.inbox[1].kind = req.kind

Answered(req) ==
  /\ session.inbox = <<>>
  /\ \E i \in DOMAIN session.outbox :
       /\ Numbered(session.outbox) = {i}
       /\ session.outbox[i].id = req.id
       /\ Suits(genesis_state, session.outbox[i], req.kind)

Flow ==
  IF client.req = NoRequest THEN Nothing ELSE Asked(client.req) \/ Answered(client.req)

\* sync() fails on a genesis that does not pass its import, and on nothing else.
Stopped(g, c) ==
  c.phase = "failed" => genesis_import(g, export_state(g)) = None /\ c.core = None

CalmInv == Calm => session.stage # "closed" /\ Stopped(genesis_state, client) /\ Flow

(***************************************************************************)
(* Stretches of the client that neither apply a block nor make a core.     *)
(***************************************************************************)
\* What the stretch sent is the request that waits after it.
Sent(r) ==
  \/ r.c.req = NoRequest /\ r.sent = <<>>
  \/ /\ r.c.req # NoRequest /\ Len(r.sent) = 1
     /\ r.sent[1].id = r.c.req.id /\ r.sent[1].kind = r.c.req.kind

Leaves(r, c, B, C, M) ==
  /\ r.c \in Clients(genesis_state, B, C, M) /\ r.sent \in Seq(Requests)
  /\ r.c.core = c.core /\ r.c.verified = c.verified
  /\ Cored(r.c) /\ OneWaits(r.c)
  /\ Sent(r)
  /\ c.phase # "failed" => r.c.phase # "failed"

\* A client with a core that waits for nothing.
Ready(g, c, B, C, M) ==
  /\ c \in Clients(g, B, C, M) /\ c.core # None /\ c.core.tip_number \in Nat
  /\ c.req = NoRequest

LEMMA Requested ==
  ASSUME NEW B, NEW C, NEW M, NEW c \in Clients(genesis_state, B, C, M), NEW kind \in Kinds,
         NEW from \in Nat, NEW to \in Int, kind \in {"blocks", "gap"} => from # 0
  PROVE  LET r == request(c, kind, from, to) IN
         /\ r.c \in Clients(genesis_state, B, C, M) /\ r.sent \in Seq(Requests) /\ Sent(r)
         /\ r.c.core = c.core /\ r.c.verified = c.verified /\ r.c.phase = c.phase
         /\ r.c.draining = c.draining /\ r.c.req.kind = kind
<1>1. PICK d, q, r : /\ d = Asks(c, kind, from, to) /\ q = Ask(c, kind, from, to)
                     /\ r = request(c, kind, from, to)
  OBVIOUS
<1>2. r.c = d /\ r.sent = <<q>>
  BY <1>1 DEF request, Result
<1>3. Ids \in Nat /\ Ids > 0
  BY LightAssumption DEF Ids
<1>4. c.nextReqId \in Nat \ {0}
  BY DEF Clients
<1>5. (c.nextReqId % Ids) + 1 \in Nat \ {0}
  BY <1>3, <1>4
<1>6. [id |-> c.nextReqId, kind |-> kind] \in Reqs
  BY <1>4 DEF Reqs
<1>7. /\ d \in Clients(genesis_state, B, C, M) /\ d.core = c.core /\ d.verified = c.verified
      /\ d.phase = c.phase /\ d.draining = c.draining
      /\ d.req = [id |-> c.nextReqId, kind |-> kind]
  BY <1>1, <1>5, <1>6 DEF Asks, Clients
<1>8. q \in Requests /\ q.id = c.nextReqId /\ q.kind = kind
  BY <1>1, <1>4 DEF Ask, Requests
<1>9. d.req # NoRequest
  BY <1>4, <1>7 DEF NoRequest
<1>10. <<q>> \in Seq(Requests) /\ Len(<<q>>) = 1 /\ <<q>>[1] = q
  BY <1>8
<1>11. QED
  BY <1>1, <1>2, <1>7, <1>8, <1>9, <1>10 DEF Sent

LEMMA Drained ==
  ASSUME NEW B, NEW C, NEW M, NEW c, Ready(genesis_state, c, B, C, M)
  PROVE  Leaves(drain(c), c, B, C, M)
<1>1. PICK d : d = [c EXCEPT !.draining = "run", !.queued = FALSE]
  OBVIOUS
<1>2. /\ d \in Clients(genesis_state, B, C, M) /\ d.core = c.core /\ d.verified = c.verified
      /\ d.phase = c.phase /\ d.draining = "run" /\ d.req = NoRequest
  BY <1>1 DEF Clients, Ready
<1>3. drain(c).c = d /\ drain(c).sent = <<>>
  BY <1>1 DEF drain, Result
<1>4. <<>> \in Seq(Requests)
  OBVIOUS
<1>5. QED
  BY <1>2, <1>3, <1>4 DEF Leaves, Cored, OneWaits, Sent, Ready, NoRequest

LEMMA WentLive ==
  ASSUME NEW B, NEW C, NEW M, NEW c, Ready(genesis_state, c, B, C, M)
  PROVE  Leaves(goLive(c), c, B, C, M)
<1>1. PICK d : d = [c EXCEPT !.phase = "live"]
  OBVIOUS
<1>2. /\ Ready(genesis_state, d, B, C, M) /\ d.core = c.core
      /\ d.verified = c.verified /\ d.phase = "live"
  BY <1>1 DEF Ready, Clients, Phases
<1>3. Leaves(drain(d), d, B, C, M)
  BY <1>2, Drained
<1>4. QED
  BY <1>1, <1>2, <1>3 DEF goLive, Leaves

LEMMA NextRounded ==
  ASSUME NEW B, NEW C, NEW M, NEW c, Ready(genesis_state, c, B, C, M), c.draining = "no"
  PROVE  Leaves(nextRound(c), c, B, C, M)
<1>1. CASE c.round < HANDSHAKE_CATCHUP_ROUNDS
  <2>1. PICK d : d = [c EXCEPT !.phase = "tip", !.round = @ + 1]
    OBVIOUS
  <2>2. /\ d \in Clients(genesis_state, B, C, M) /\ d.core = c.core /\ d.verified = c.verified
        /\ d.phase = "tip" /\ d.draining = "no"
    <3>1. c \in Clients(genesis_state, B, C, M)
      BY DEF Ready
    <3>2. PICK n : n = c.round + 1
      OBVIOUS
    <3>3. n \in Nat
      BY <3>1, <3>2 DEF Clients
    <3>4. d = [c EXCEPT !.phase = "tip", !.round = n]
      BY <2>1, <3>1, <3>2 DEF Clients
    <3>5. QED
      BY <3>1, <3>3, <3>4 DEF Clients, Phases
  <2>3. PICK r : r = request(d, "tip", 0, 0)
    OBVIOUS
  <2>4. /\ r.c \in Clients(genesis_state, B, C, M) /\ r.sent \in Seq(Requests) /\ Sent(r)
        /\ r.c.core = d.core /\ r.c.verified = d.verified /\ r.c.phase = d.phase
        /\ r.c.draining = d.draining /\ r.c.req.kind = "tip"
    <3>1. "tip" \in Kinds /\ "tip" \notin {"blocks", "gap"}
      BY DEF Kinds
    <3>2. QED
      BY <2>2, <2>3, <3>1, Requested
  <2>5. nextRound(c) = r
    BY <1>1, <2>1, <2>3 DEF nextRound
  <2>6. QED
    BY <2>2, <2>4, <2>5 DEF Leaves, Cored, OneWaits, Ready
<1>2. CASE ~(c.round < HANDSHAKE_CATCHUP_ROUNDS)
  BY <1>2, WentLive DEF nextRound
<1>3. QED
  BY <1>1, <1>2

LEMMA CaughtUpTo ==
  ASSUME NEW B, NEW C, NEW M, NEW c, Ready(genesis_state, c, B, C, M), c.draining = "no"
  PROVE  Leaves(catchUpTo(c), c, B, C, M)
<1> DEFINE tip == c.core.tip_number
           to == IF tip + SYNC_MAX_BATCH <= c.target THEN tip + SYNC_MAX_BATCH ELSE c.target
<1>1. tip \in Nat /\ c.target \in Nat /\ SYNC_MAX_BATCH \in Nat /\ to \in Int
  BY LightAssumption DEF Ready, Clients
<1>2. CASE tip < c.target
  <2>1. PICK d : d = [c EXCEPT !.phase = "catchup"]
    OBVIOUS
  <2>2. /\ d \in Clients(genesis_state, B, C, M) /\ d.core = c.core /\ d.verified = c.verified
        /\ d.phase = "catchup" /\ d.draining = "no"
    BY <2>1 DEF Ready, Clients, Phases
  <2>3. PICK r : r = request(d, "blocks", tip + 1, to)
    OBVIOUS
  <2>4. /\ r.c \in Clients(genesis_state, B, C, M) /\ r.sent \in Seq(Requests) /\ Sent(r)
        /\ r.c.core = d.core /\ r.c.verified = d.verified /\ r.c.phase = d.phase
        /\ r.c.draining = d.draining /\ r.c.req.kind = "blocks"
    <3>1. "blocks" \in Kinds
      BY DEF Kinds
    <3>2. tip + 1 \in Nat /\ tip + 1 # 0
      BY <1>1
    <3> HIDE DEF tip, to
    <3>3. QED
      BY <1>1, <2>2, <2>3, <3>1, <3>2, Requested
  <2>5. catchUpTo(c) = r
    BY <1>2, <2>1, <2>3 DEF catchUpTo
  <2>6. QED
    BY <2>2, <2>4, <2>5 DEF Leaves, Cored, OneWaits, Ready
<1>3. CASE ~(tip < c.target)
  <2>1. catchUpTo(c) = nextRound(c)
    BY <1>3 DEF catchUpTo
  <2>2. QED
    BY <2>1, NextRounded
<1>4. QED
  BY <1>2, <1>3

LEMMA HasReturned ==
  ASSUME NEW B, NEW C, NEW M, NEW c, Ready(genesis_state, c, B, C, M), c.draining = "no"
  PROVE  Leaves(returned(c), c, B, C, M)
<1>1. CASE c.phase = "catchup"
  BY <1>1, CaughtUpTo DEF returned
<1>2. CASE c.phase # "catchup"
  <2>1. returned(c).c = c /\ returned(c).sent = <<>> /\ <<>> \in Seq(Requests)
    BY <1>2 DEF returned, Result
  <2>2. QED
    BY <2>1 DEF Leaves, Cored, OneWaits, Sent, Ready, NoRequest
<1>3. QED
  BY <1>1, <1>2

\* Blocks enter the buffer.
LEMMA Enqueued ==
  ASSUME NEW B, NEW C, NEW M, NEW c \in Clients(genesis_state, B, C, M), NEW bs \in Seq(B)
  PROVE  LET d == enqueueBlocks(c, bs) IN
         /\ d \in Clients(genesis_state, B, C, M) /\ d.core = c.core /\ d.verified = c.verified
         /\ d.phase = c.phase /\ d.draining = c.draining /\ d.req = c.req
         /\ d.queued = c.queued
<1>1. PICK X : /\ X = c.buffer \cup {b \in ToSet(bs) :
                        b.number > localTip(c) /\ \A x \in c.buffer : x.number # b.number}
               /\ enqueueBlocks(c, bs) = [c EXCEPT !.buffer = X]
  BY DEF enqueueBlocks
<1>2. ToSet(bs) \subseteq B
  BY DEF ToSet
<1>3. X \in SUBSET B
  BY <1>1, <1>2 DEF Clients
<1>4. PICK d : d = [c EXCEPT !.buffer = X]
  OBVIOUS
<1>5. /\ d \in Clients(genesis_state, B, C, M) /\ d.core = c.core /\ d.verified = c.verified
      /\ d.phase = c.phase /\ d.draining = c.draining /\ d.req = c.req
      /\ d.queued = c.queued
  BY <1>3, <1>4 DEF Clients
<1>6. QED
  BY <1>1, <1>4, <1>5

(***************************************************************************)
(* A message.                                                              *)
(***************************************************************************)
\* The state depends on the core and the blocks only.
LEMMA SameReplay ==
  ASSUME NEW c,
         NEW d, d.core = c.core, d.verified = c.verified,
         c.core # None => Replays(genesis_state, c)
  PROVE  d.core # None => Replays(genesis_state, d)
BY DEF Replays

LEMMA Rejected ==
  ASSUME NEW B, NEW C, NEW M,
         NEW c \in Clients(genesis_state, B, C, M), c.core = None => c.verified = <<>>,
         c.core = None => c.phase \notin {"catchup", "tip", "live"}
  PROVE  LET d == rejected(c) IN
         /\ d \in Clients(genesis_state, B, C, M) /\ d.core = c.core /\ d.verified = c.verified
         /\ d.req = NoRequest /\ Cored(d) /\ OneWaits(d)
<1>1. PICK d : d = rejected(c)
  OBVIOUS
<1>2. /\ d \in Clients(genesis_state, B, C, M) /\ d.core = c.core /\ d.verified = c.verified
      /\ d.req = NoRequest /\ d.draining = "no"
      /\ d.phase = IF c.phase = "live" THEN "live" ELSE "failed"
  BY <1>1 DEF rejected, Clients, Reqs, Phases
<1>3. Cored(d) /\ OneWaits(d)
  BY <1>2 DEF Cored, OneWaits, NoRequest
<1>4. QED
  BY <1>1, <1>2, <1>3

\* The imported snapshot is the genesis state, or there is no core.
LEMMA Imported ==
  ASSUME NEW g, NEW s, genesis_import(g, s) # None
  PROVE  /\ genesis_import(g, s).tip_number = 0 /\ genesis_import(g, s).state = g
         /\ genesis_import(g, s).tip_hash = GENESIS
BY DEF genesis_import, LightCore, state_root

\* The values of the core, with the one a client may import.
Cores(g, C) == C \cup {genesis_import(g, s) : s \in Logs}

LEMMA WiderCores ==
  ASSUME NEW B, NEW C, NEW M, NEW c \in Clients(genesis_state, B, C, M)
  PROVE  c \in Clients(genesis_state, B, Cores(genesis_state, C), M)
<1>1. c.core \in Cores(genesis_state, C)
  BY DEF Clients, Cores
<1>2. QED
  BY <1>1 DEF Clients

\* The stretch after an answer keeps the state good; when the answer suits, the client
\* goes on.
LEMMA Resolved ==
  ASSUME NEW B, NEW C, NEW M,
         NEW c \in Clients(genesis_state, B, C, M), Good(genesis_state, c), NEW f \in Frames(B),
         c.req # NoRequest
  PROVE  LET r == resolve(c, f) IN
         /\ r.c \in Clients(genesis_state, B, Cores(genesis_state, C), M)
         /\ Good(genesis_state, r.c) /\ r.sent \in Seq(Requests)
         /\ Sent(r)
         /\ Suits(genesis_state, f, c.req.kind) /\ Stopped(genesis_state, c)
              => Stopped(genesis_state, r.c)
<1> DEFINE D == Cores(genesis_state, C)
<1>1. PICK d, r : d = [c EXCEPT !.req = NoRequest] /\ r = resolve(c, f)
  OBVIOUS
<1>2. c \in Clients(genesis_state, B, D, M) /\ c.req.kind \in Kinds
  BY WiderCores DEF Clients, Reqs
<1>3. /\ d \in Clients(genesis_state, B, D, M) /\ d.core = c.core /\ d.verified = c.verified
      /\ d.phase = c.phase /\ d.draining = c.draining /\ d.req = NoRequest
      /\ d.queued = c.queued
  BY <1>1, <1>2 DEF Clients, Reqs
<1>4. /\ d.core = None => d.verified = <<>> /\ d.phase \notin {"catchup", "tip", "live"}
      /\ d.core # None => Replays(genesis_state, d)
  BY <1>3, SameReplay DEF Good, Cored
<1>5. d.core # None => Ready(genesis_state, d, B, D, M)
  <2>1. Len(d.verified) \in Nat
    BY <1>3 DEF Clients
  <2>2. QED
    BY <1>3, <1>4, <2>1 DEF Ready, Replays
<1>6. <<>> \in Seq(Requests) /\ f.blocks \in Seq(B) /\ f.tip \in Nat /\ f.snapshot \in Logs
  BY DEF Frames
<1>7. ASSUME r = Result(rejected(d), <<>>)
      PROVE  /\ r.c \in Clients(genesis_state, B, D, M) /\ Good(genesis_state, r.c)
             /\ r.sent \in Seq(Requests) /\ Sent(r)
  <2>1. PICK e : e = rejected(d)
    OBVIOUS
  <2>2. /\ e \in Clients(genesis_state, B, D, M) /\ e.core = d.core /\ e.verified = d.verified
        /\ e.req = NoRequest /\ Cored(e) /\ OneWaits(e)
    BY <1>3, <1>4, <2>1, Rejected
  <2>3. e.core # None => Replays(genesis_state, e)
    BY <1>4, <2>2, SameReplay
  <2>4. r.c = e /\ r.sent = <<>>
    BY <1>7, <2>1 DEF Result
  <2>5. QED
    BY <1>6, <2>2, <2>3, <2>4 DEF Good, Sent
<1>8. ASSUME NEW e, e.core = d.core, e.verified = d.verified, Leaves(r, e, B, D, M)
      PROVE  /\ r.c \in Clients(genesis_state, B, D, M) /\ Good(genesis_state, r.c)
             /\ r.sent \in Seq(Requests) /\ Sent(r)
             /\ e.phase = c.phase /\ Stopped(genesis_state, c)
                  => Stopped(genesis_state, r.c)
  <2>1. r.c.core = d.core /\ r.c.verified = d.verified
    BY <1>8 DEF Leaves
  <2>2. r.c.core # None => Replays(genesis_state, r.c)
    BY <1>4, <2>1, SameReplay
  <2>3. QED
    BY <1>3, <1>8, <2>1, <2>2 DEF Good, Leaves, Stopped
<1>9. CASE f.tag # Answers(c.req.kind)
  <2>1. r = Result(rejected(d), <<>>)
    BY <1>1, <1>9 DEF resolve
  <2>2. QED
    BY <1>1, <1>7, <1>9, <2>1 DEF Suits
<1>10. CASE f.tag = Answers(c.req.kind) /\ c.req.kind = "hello"
  <2>1. r = onHello(d, f) /\ f.network = "ours"
    BY <1>1, <1>10 DEF resolve, Frames
  <2>2. PICK e : e = [d EXCEPT !.phase = "genesis", !.target = f.tip]
    OBVIOUS
  <2>3. r = request(e, "genesis", 0, 0)
    BY <2>1, <2>2 DEF onHello
  <2>4. /\ e \in Clients(genesis_state, B, D, M) /\ e.core = d.core /\ e.verified = d.verified
        /\ e.phase = "genesis" /\ e.draining = d.draining
    BY <1>3, <1>6, <2>2 DEF Clients, Phases
  <2>5. "genesis" \in Kinds
    BY DEF Kinds
  <2>6. /\ r.c \in Clients(genesis_state, B, D, M) /\ r.sent \in Seq(Requests) /\ Sent(r)
        /\ r.c.core = e.core /\ r.c.verified = e.verified /\ r.c.phase = e.phase
        /\ r.c.draining = e.draining /\ r.c.req.kind = "genesis"
    BY <2>3, <2>4, <2>5, Requested
  <2>7. c.core = None /\ c.draining = "no" /\ c.verified = <<>>
    BY <1>10 DEF Good, Cored, OneWaits
  <2>8. Good(genesis_state, r.c)
    BY <1>3, <2>4, <2>6, <2>7 DEF Good, Cored, OneWaits
  <2>9. QED
    BY <1>1, <2>4, <2>6, <2>8 DEF Stopped
<1>11. CASE f.tag = Answers(c.req.kind) /\ c.req.kind = "genesis"
  <2>1. r = onGenesis(d, f) /\ f.tag = "Genesis"
    BY <1>1, <1>11 DEF resolve, Answers
  <2>2. PICK k : k = genesis_import(genesis_state, f.snapshot)
    OBVIOUS
  <2>6. d.genesisStateRoot = genesis_state
    BY <1>3 DEF Clients
  <2>3. CASE f.state_root # genesis_state \/ k = None
    <3>1. r = Result(rejected(d), <<>>)
      BY <2>1, <2>2, <2>3, <2>6 DEF onGenesis
    <3>2. Suits(genesis_state, f, c.req.kind)
            => genesis_import(genesis_state, export_state(genesis_state)) = None
      BY <2>1, <2>2, <2>3 DEF Suits
    <3>3. c.core = None
      BY <1>11 DEF Good, Cored
    <3>4. r.c.core = None
      <4>1. rejected(d).core = d.core
        BY <1>3 DEF rejected, Clients
      <4>2. QED
        BY <1>3, <3>1, <3>3, <4>1 DEF Result
    <3>5. QED
      BY <1>1, <1>7, <3>1, <3>2, <3>4 DEF Stopped
  <2>4. CASE ~(f.state_root # genesis_state \/ k = None)
    <3>1. PICK e : e = [d EXCEPT !.core = k]
      OBVIOUS
    <3>2. r = catchUpTo(e)
      BY <2>1, <2>2, <2>4, <2>6, <3>1 DEF onGenesis
    <3>3. c.core = None /\ c.draining = "no" /\ c.verified = <<>>
      BY <1>11 DEF Good, Cored, OneWaits
    <3>4. k \in D /\ k # None
      BY <1>6, <2>2, <2>4 DEF Cores
    <3>5. /\ e \in Clients(genesis_state, B, D, M) /\ e.core = k /\ e.verified = <<>>
          /\ e.phase = c.phase /\ e.draining = "no" /\ e.req = NoRequest
      BY <1>3, <3>1, <3>3, <3>4 DEF Clients
    <3>6. k.tip_number = 0 /\ k.state = genesis_state /\ k.tip_hash = GENESIS
      BY <2>2, <3>4, Imported
    <3>7. Ready(genesis_state, e, B, D, M)
      BY <3>4, <3>5, <3>6 DEF Ready
    <3>8. Leaves(r, e, B, D, M)
      BY <3>2, <3>5, <3>7, CaughtUpTo
    <3>9. Replays(genesis_state, r.c)
      <4>1. r.c.core = k /\ r.c.verified = <<>>
        BY <3>5, <3>8 DEF Leaves
      <4>2. Len(<<>>) = 0 /\ 1..0 = {}
        OBVIOUS
      <4>3. QED
        BY <3>6, <4>1, <4>2 DEF Replays, StateAt, HashAt
    <3>10. QED
      BY <1>1, <2>1, <2>2, <3>4, <3>5, <3>8, <3>9 DEF Leaves, Good, Stopped, Suits
  <2>5. QED
    BY <2>3, <2>4
<1>12. CASE f.tag = Answers(c.req.kind) /\ c.req.kind = "tip"
  <2>1. r = onTip(d, f)
    BY <1>1, <1>12 DEF resolve
  <2>2. d.core # None /\ d.draining = "no" /\ Ready(genesis_state, d, B, D, M)
    BY <1>3, <1>5, <1>12 DEF Good, Cored, OneWaits
  <2>3. CASE f.tip <= d.core.tip_number
    <3>1. r = goLive(d)
      BY <2>1, <2>3 DEF onTip
    <3>2. Leaves(r, d, B, D, M)
      BY <2>2, <3>1, WentLive
    <3>3. QED
      BY <1>1, <1>3, <1>8, <3>2
  <2>4. CASE ~(f.tip <= d.core.tip_number)
    <3>1. PICK e : e = [d EXCEPT !.target = f.tip]
      OBVIOUS
    <3>2. r = catchUpTo(e)
      BY <2>1, <2>4, <3>1 DEF onTip
    <3>3. /\ Ready(genesis_state, e, B, D, M) /\ e.core = d.core /\ e.verified = d.verified
          /\ e.draining = "no" /\ e.phase = d.phase
      BY <1>3, <1>6, <2>2, <3>1 DEF Ready, Clients
    <3>4. Leaves(r, e, B, D, M)
      BY <3>2, <3>3, CaughtUpTo
    <3>5. QED
      BY <1>1, <1>3, <1>8, <3>3, <3>4
  <2>5. QED
    BY <2>3, <2>4
<1>13. ASSUME NEW e, r = drain(e), Ready(genesis_state, e, B, D, M), e.core = d.core,
              e.verified = d.verified,
              e.phase = d.phase
       PROVE  /\ r.c \in Clients(genesis_state, B, D, M) /\ Good(genesis_state, r.c)
              /\ r.sent \in Seq(Requests) /\ Sent(r)
              /\ Stopped(genesis_state, c) => Stopped(genesis_state, r.c)
  <2>1. Leaves(r, e, B, D, M)
    BY <1>13, Drained
  <2>2. QED
    BY <1>3, <1>8, <1>13, <2>1
<1>14. CASE f.tag = Answers(c.req.kind) /\ c.req.kind = "blocks"
  <2>1. r = onBlocks(d, f)
    BY <1>1, <1>14 DEF resolve
  <2>2. d.core # None /\ d.draining = "no" /\ Ready(genesis_state, d, B, D, M)
    BY <1>3, <1>5, <1>14 DEF Good, Cored, OneWaits
  <2>3. CASE f.blocks = <<>>
    <3>1. r = nextRound(d)
      BY <2>1, <2>3 DEF onBlocks
    <3>2. Leaves(r, d, B, D, M)
      BY <2>2, <3>1, NextRounded
    <3>3. QED
      BY <1>1, <1>3, <1>8, <3>2
  <2>4. CASE f.blocks # <<>>
    <3>1. PICK e : e = enqueueBlocks(d, f.blocks)
      OBVIOUS
    <3>2. /\ e \in Clients(genesis_state, B, D, M) /\ e.core = d.core /\ e.verified = d.verified
          /\ e.phase = d.phase /\ e.req = d.req
      BY <1>3, <1>6, <3>1, Enqueued
    <3>3. Ready(genesis_state, e, B, D, M)
      BY <1>3, <2>2, <3>2 DEF Ready
    <3>4. r = drain(e)
      BY <2>1, <2>4, <3>1 DEF onBlocks
    <3>5. QED
      BY <1>1, <1>13, <3>2, <3>3, <3>4
  <2>5. QED
    BY <2>3, <2>4
<1>15. CASE f.tag = Answers(c.req.kind) /\ c.req.kind = "gap"
  <2>1. r = onGap(d, f)
    BY <1>1, <1>15 DEF resolve
  <2>2. d.core # None /\ Ready(genesis_state, d, B, D, M)
    BY <1>3, <1>5, <1>15 DEF Good, Cored
  <2>3. CASE f.blocks # <<>>
    <3>1. PICK e : e = enqueueBlocks(d, f.blocks)
      OBVIOUS
    <3>2. /\ e \in Clients(genesis_state, B, D, M) /\ e.core = d.core /\ e.verified = d.verified
          /\ e.phase = d.phase /\ e.req = d.req
      BY <1>3, <1>6, <3>1, Enqueued
    <3>3. Ready(genesis_state, e, B, D, M)
      BY <1>3, <2>2, <3>2 DEF Ready
    <3>4. r = drain(e)
      BY <2>1, <2>3, <3>1 DEF onGap
    <3>5. QED
      BY <1>1, <1>13, <3>2, <3>3, <3>4
  <2>4. CASE f.blocks = <<>> /\ d.queued
    <3>1. r = drain(d)
      BY <2>1, <2>4 DEF onGap
    <3>2. QED
      BY <1>1, <1>13, <2>2, <3>1
  <2>5. CASE f.blocks = <<>> /\ ~d.queued
    <3>1. PICK e : e = [d EXCEPT !.draining = "save"]
      OBVIOUS
    <3>2. r.c = e /\ r.sent = <<>>
      BY <2>1, <2>5, <3>1 DEF onGap, Result
    <3>3. /\ e \in Clients(genesis_state, B, D, M) /\ e.core = d.core /\ e.verified = d.verified
          /\ e.phase = d.phase /\ e.draining = "save" /\ e.req = NoRequest
      BY <1>3, <3>1 DEF Clients
    <3>4. e.core # None => Replays(genesis_state, e)
      BY <1>4, <3>3, SameReplay
    <3>5. Good(genesis_state, e)
      BY <2>2, <3>3, <3>4 DEF Good, Cored, OneWaits, NoRequest
    <3>6. QED
      BY <1>1, <1>3, <1>6, <3>2, <3>3, <3>5 DEF Sent, Stopped
  <2>6. QED
    BY <2>3, <2>4, <2>5
<1>16. QED
  BY <1>2, <1>9, <1>10, <1>11, <1>12, <1>14, <1>15 DEF Kinds

\* A push fills the buffer and may start the applier; no request is touched.
LEMMA Pushed ==
  ASSUME NEW B, NEW C, NEW M,
         NEW c \in Clients(genesis_state, B, C, M), Good(genesis_state, c), NEW f \in Frames(B)
  PROVE  LET r == onPush(c, f) IN
         /\ r.c \in Clients(genesis_state, B, C, M) /\ Good(genesis_state, r.c) /\ r.sent = <<>>
         /\ r.c.req = c.req /\ r.c.phase = c.phase /\ r.c.core = c.core
<1>1. PICK d, r : d = enqueueBlocks(c, f.blocks) /\ r = onPush(c, f)
  OBVIOUS
<1>2. f.blocks \in Seq(B)
  BY DEF Frames
<1>3. /\ d \in Clients(genesis_state, B, C, M) /\ d.core = c.core /\ d.verified = c.verified
      /\ d.phase = c.phase /\ d.draining = c.draining /\ d.req = c.req
  BY <1>1, <1>2, Enqueued
<1>4. d.core # None => Replays(genesis_state, d)
  BY <1>3, SameReplay DEF Good
<1>5. CASE c.phase # "live"
  <2>1. r.c = d /\ r.sent = <<>>
    BY <1>1, <1>5 DEF onPush, Result
  <2>2. Good(genesis_state, d)
    BY <1>3, <1>4 DEF Good, Cored, OneWaits
  <2>3. QED
    BY <1>1, <1>3, <2>1, <2>2
<1>6. CASE c.phase = "live" /\ c.draining # "no"
  <2>1. PICK e : e = [d EXCEPT !.queued = TRUE]
    OBVIOUS
  <2>2. r.c = e /\ r.sent = <<>>
    BY <1>1, <1>6, <2>1 DEF onPush, Result
  <2>3. /\ e \in Clients(genesis_state, B, C, M) /\ e.core = c.core /\ e.verified = c.verified
        /\ e.phase = c.phase /\ e.draining = c.draining /\ e.req = c.req
    BY <1>3, <2>1 DEF Clients
  <2>4. e.core # None => Replays(genesis_state, e)
    BY <1>3, <1>4, <2>3, SameReplay
  <2>5. Good(genesis_state, e)
    BY <2>3, <2>4 DEF Good, Cored, OneWaits
  <2>6. QED
    BY <1>1, <2>2, <2>3, <2>5
<1>7. CASE c.phase = "live" /\ c.draining = "no"
  <2>1. PICK e : e = [d EXCEPT !.draining = "run", !.queued = FALSE]
    OBVIOUS
  <2>2. r.c = e /\ r.sent = <<>>
    BY <1>1, <1>7, <2>1 DEF onPush, drain, Result
  <2>3. /\ e \in Clients(genesis_state, B, C, M) /\ e.core = c.core /\ e.verified = c.verified
        /\ e.phase = c.phase /\ e.draining = "run" /\ e.req = c.req
    BY <1>3, <2>1 DEF Clients
  <2>4. e.core # None => Replays(genesis_state, e)
    BY <1>3, <1>4, <2>3, SameReplay
  <2>5. c.core # None /\ c.req.kind \notin Kinds
    BY <1>7 DEF Good, Cored, OneWaits, Kinds
  <2>6. Good(genesis_state, e)
    BY <2>3, <2>4, <2>5 DEF Good, Cored, OneWaits, Kinds
  <2>7. QED
    BY <1>1, <2>2, <2>3, <2>6
<1>8. QED
  BY <1>5, <1>6, <1>7

LEMMA Messaged ==
  ASSUME NEW B, NEW C, NEW M,
         NEW c \in Clients(genesis_state, B, C, M), Good(genesis_state, c), NEW f \in Frames(B)
  PROVE  LET r == onMessage(c, f) IN
         /\ r.c \in Clients(genesis_state, B, Cores(genesis_state, C), M)
         /\ Good(genesis_state, r.c) /\ r.sent \in Seq(Requests)
         /\ f.id = 0 => /\ r.c.req = c.req /\ r.c.phase = c.phase /\ r.c.core = c.core
                       /\ r.sent = <<>>
         /\ (/\ f.id # 0 /\ c.req # NoRequest /\ c.req.id = f.id)
              => /\ Sent(r)
                 /\ Suits(genesis_state, f, c.req.kind) /\ Stopped(genesis_state, c)
                      => Stopped(genesis_state, r.c)
<1>1. PICK r : r = onMessage(c, f)
  OBVIOUS
<1>2. <<>> \in Seq(Requests)
  OBVIOUS
<1>3. CASE f.id = 0
  <2>1. r = onPush(c, f)
    BY <1>1, <1>3 DEF onMessage
  <2>2. /\ r.c \in Clients(genesis_state, B, C, M) /\ Good(genesis_state, r.c) /\ r.sent = <<>>
        /\ r.c.req = c.req /\ r.c.phase = c.phase /\ r.c.core = c.core
    BY <2>1, Pushed
  <2>3. r.c \in Clients(genesis_state, B, Cores(genesis_state, C), M)
    BY <2>2, WiderCores
  <2>4. QED
    BY <1>1, <1>2, <1>3, <2>2, <2>3
<1>4. CASE f.id # 0 /\ c.req # NoRequest /\ c.req.id = f.id
  <2>1. r = resolve(c, f)
    BY <1>1, <1>4 DEF onMessage
  <2>2. QED
    BY <1>1, <1>4, <2>1, Resolved
<1>5. CASE f.id # 0 /\ ~(c.req # NoRequest /\ c.req.id = f.id)
  <2>1. r.c = c /\ r.sent = <<>>
    BY <1>1, <1>5 DEF onMessage, Result
  <2>2. QED
    BY <1>1, <1>2, <1>5, <2>1, WiderCores
<1>6. QED
  BY <1>3, <1>4, <1>5

(***************************************************************************)
(* The gateway's answers.                                                  *)
(***************************************************************************)
LEMMA GenesisType ==
  ASSUME NEW g \in States
  PROVE  export_state(g) \in Logs
BY DEF States, Logs, export_state

LEMMA Served ==
  ASSUME NEW B, NEW C, Typed(B, C), NEW q \in Requests
  PROVE  /\ reply(q) \in Frames(B) /\ reply(q).id = q.id
         /\ Suits(genesis_state, reply(q), q.kind)
<1>1. PICK g : g = reply(q)
  OBVIOUS
<1>2. /\ q.id \in Nat \ {0} /\ q.kind \in Kinds /\ q.from \in Nat /\ q.to \in Int
      /\ q.kind \in {"blocks", "gap"} => q.from # 0
  BY DEF Requests
<1>3. chain \in Seq(B) /\ Tip \in Nat /\ Tip = Len(chain)
  BY DEF Typed, Tip
<1>4. <<>> \in Seq(B) /\ <<>> \in Logs
  BY DEF Logs
<1>5. CASE q.kind \in {"hello", "tip"}
  <2>1. g = [Frame(q.id, "Hello") EXCEPT !.tip = Tip]
    BY <1>1, <1>5 DEF reply
  <2>2. g \in Frames(B) /\ g.id = q.id /\ g.tag = "Hello"
    BY <1>2, <1>3, <1>4, <2>1 DEF Frame, Frames
  <2>3. QED
    BY <1>1, <1>5, <2>2 DEF Suits, Answers
<1>6. CASE q.kind = "genesis"
  <2>1. g = [Frame(q.id, "Genesis") EXCEPT !.state_root = genesis_state,
                                           !.snapshot = export_state(genesis_state)]
    BY <1>1, <1>6 DEF reply, state_root
  <2>2. PICK x, y : x = genesis_state /\ y = export_state(genesis_state)
    OBVIOUS
  <2>3. x \in States /\ y \in Logs
    BY <2>2, GenesisType DEF Typed
  <2>4. /\ g \in Frames(B) /\ g.id = q.id /\ g.tag = "Genesis"
        /\ g.state_root = x /\ g.snapshot = y
    BY <1>2, <1>4, <2>1, <2>2, <2>3 DEF Frame, Frames
  <2>5. QED
    BY <1>1, <1>6, <2>2, <2>4 DEF Suits, Answers
<1>7. CASE q.kind \in {"blocks", "gap"}
  <2>1. PICK to, x : /\ x = q.from + SYNC_MAX_BATCH - 1
                     /\ to = CHOOSE n \in {q.to, x, Tip} : n <= q.to /\ n <= x /\ n <= Tip
    OBVIOUS
  <2>2. g = [Frame(q.id, "Blocks") EXCEPT !.blocks = SubSeq(chain, q.from, to)]
    BY <1>1, <1>7, <2>1 DEF reply
  <2>3. x \in Int
    BY <1>2, <2>1, LightAssumption
  <2>4. \E n \in {q.to, x, Tip} : n <= q.to /\ n <= x /\ n <= Tip
    BY <1>2, <1>3, <2>3
  <2>5. to \in {q.to, x, Tip} /\ to <= Tip
    BY <2>1, <2>4
  <2>6. to \in Int
    BY <1>2, <1>3, <2>3, <2>5
  <2>7. \A i \in q.from..to : i \in 1..Len(chain)
    BY <1>2, <1>3, <1>7, <2>5, <2>6
  <2>8. \A i \in 1..Len(chain) : chain[i] \in B
    BY <1>3
  <2>9. SubSeq(chain, q.from, to) \in Seq(B)
    BY <1>2, <1>3, <2>6, <2>7, <2>8
  <2>10. PICK z : z = SubSeq(chain, q.from, to)
    OBVIOUS
  <2>11. g \in Frames(B) /\ g.id = q.id /\ g.tag = "Blocks"
    BY <1>2, <1>4, <2>2, <2>9, <2>10 DEF Frame, Frames
  <2>12. QED
    BY <1>1, <1>7, <2>11 DEF Suits, Answers
<1>8. QED
  BY <1>2, <1>5, <1>6, <1>7 DEF Kinds

LEMMA PushFrame ==
  ASSUME NEW B, NEW b \in B
  PROVE  push(b) \in Frames(B) /\ push(b).id = 0
<1>1. <<b>> \in Seq(B) /\ <<>> \in Logs /\ 0 \in Nat
  BY DEF Logs
<1>2. QED
  BY <1>1 DEF push, Frame, Frames

\* What a longer or a shorter outbox has in it.
LEMMA NumberedAppend ==
  ASSUME NEW F, NEW out \in Seq(F), NEW f \in F
  PROVE  /\ \A i \in DOMAIN out : Append(out, f)[i] = out[i]
         /\ Append(out, f)[Len(out) + 1] = f
         /\ DOMAIN Append(out, f) = DOMAIN out \cup {Len(out) + 1}
         /\ Len(out) + 1 \notin DOMAIN out
         /\ Numbered(Append(out, f))
              = IF f.id = 0 THEN Numbered(out) ELSE Numbered(out) \cup {Len(out) + 1}
<1>1. PICK o, n : o = Append(out, f) /\ n = Len(out) + 1
  OBVIOUS
<1>2. /\ \A i \in DOMAIN out : o[i] = out[i] 
      /\ o[n] = f /\ DOMAIN o = DOMAIN out \cup {n} /\ n \notin DOMAIN out
  BY <1>1
<1>3. Numbered(o) = IF f.id = 0 THEN Numbered(out) ELSE Numbered(out) \cup {n}
  BY <1>2 DEF Numbered
<1>4. QED
  BY <1>1, <1>2, <1>3

LEMMA NumberedTail ==
  ASSUME NEW F, NEW out \in Seq(F), out # <<>>
  PROVE  /\ Head(out) \in F /\ Tail(out) \in Seq(F)
         /\ Head(out).id # 0 <=> 1 \in Numbered(out)
         /\ \A i \in DOMAIN Tail(out) : i + 1 \in DOMAIN out /\ Tail(out)[i] = out[i + 1]
         /\ \A i \in DOMAIN out : i # 1 => i - 1 \in DOMAIN Tail(out)
         /\ \A i \in DOMAIN Tail(out) : i \in Numbered(Tail(out)) <=> i + 1 \in Numbered(out)
         /\ Numbered(Tail(out)) \subseteq DOMAIN Tail(out)
<1>1. PICK t : t = Tail(out)
  OBVIOUS
<1>2. /\ Head(out) \in F /\ t \in Seq(F) /\ Head(out) = out[1] /\ 1 \in DOMAIN out
      /\ \A i \in DOMAIN t : i + 1 \in DOMAIN out /\ t[i] = out[i + 1]
      /\ \A i \in DOMAIN out : i # 1 => i - 1 \in DOMAIN t
  BY <1>1
<1>3. QED
  BY <1>1, <1>2 DEF Numbered

(***************************************************************************)
(* One lemma per action, for both invariants.                              *)
(***************************************************************************)
Keeps == Inv' /\ (CalmInv => CalmInv')

LEMMA InitInv == Init => Inv /\ CalmInv
<1> SUFFICES ASSUME Init PROVE Inv /\ CalmInv
  OBVIOUS
<1>1. PICK q : q = [id |-> 1, kind |-> "hello", from |-> 0, to |-> 0]
  OBVIOUS
<1>2. q \in Requests /\ <<q>> \in Seq(Requests)
  BY <1>1 DEF Requests, Kinds
<1>3. session = [stage |-> "new", heads |-> <<>>, inbox |-> <<q>>, outbox |-> <<>>]
  BY <1>1 DEF Init, NewSession
<1>4. session \in Sessions({})
  BY <1>2, <1>3 DEF Sessions
<1>5. PICK r : r = [id |-> 1, kind |-> "hello"]
  OBVIOUS
<1>6. r \in Reqs /\ r # NoRequest /\ r.kind = "hello" /\ r.id = 1
  BY <1>5 DEF Reqs, Kinds, NoRequest
<1>7. /\ client \in Clients(genesis_state, {}, {None}, {}) /\ client.core = None
      /\ client.verified = <<>>
      /\ client.req = r /\ client.phase = "hello" /\ client.draining = "no"
  <2>1. client = [genesisStateRoot |-> genesis_state,
                  phase |-> "hello", core |-> None, verified |-> <<>>, target |-> 0,
                  round |-> 0, req |-> r, nextReqId |-> 2, buffer |-> {},
                  draining |-> "no", queued |-> FALSE, badge |-> "unverified",
                  stored |-> None]
    BY <1>5 DEF Init, NewClient, state_root
  <2>2. <<>> \in Seq({})
    OBVIOUS
  <2>3. QED
    BY <1>6, <2>1, <2>2 DEF Clients, Phases
<1>8. Typed({}, {None})
  <2>1. genesis_state \in States
    <3>1. PICK s \in Scopes : genesis_state = [scope |-> s, log |-> <<>>]
      BY DEF Init
    <3>2. <<>> \in Logs
      BY DEF Logs
    <3>3. QED
      BY <3>1, <3>2 DEF States
  <2>2. QED
    BY <1>4, <1>7, <2>1 DEF Init, Typed
<1>9. Good(genesis_state, client)
  BY <1>6, <1>7 DEF Good, Cored, OneWaits
<1>10. Flow
  BY <1>1, <1>3, <1>6, <1>7 DEF Flow, Asked, Numbered
<1>11. QED
  BY <1>3, <1>7, <1>8, <1>9, <1>10 DEF Inv, CalmInv, Stopped

\* The gateway works on the session only.
LEMMA SubscribeKeeps ==
  ASSUME Inv, Subscribe
  PROVE  Keeps
<1>1. PICK B, C : Typed(B, C)
  BY DEF Inv
<1>2. session \in Sessions(B)
  BY <1>1 DEF Typed
<1>3. /\ session' = [session EXCEPT !.stage = "greeting"] /\ session.inbox # <<>>
      /\ UNCHANGED <<genesis_state, chain, client, faults, made>>
  BY DEF Subscribe
<1>4. /\ session' \in Sessions(B) /\ session'.inbox = session.inbox
      /\ session'.outbox = session.outbox /\ session'.stage = "greeting"
  BY <1>2, <1>3 DEF Sessions
<1>5. Typed(B, C)'
  BY <1>1, <1>3, <1>4 DEF Typed
<1>6. Inv'
  BY <1>3, <1>4, <1>5 DEF Inv
<1>7. CalmInv => CalmInv'
  BY <1>3, <1>4 DEF CalmInv, Calm, Flow, Asked, Answered, Nothing
<1>8. QED
  BY <1>6, <1>7 DEF Keeps

\* Greet and HandleRequest: the first request is answered.
LEMMA AnswerKeeps ==
  ASSUME Inv, Greet \/ HandleRequest
  PROVE  Keeps
<1>1. PICK B, C : Typed(B, C)
  BY DEF Inv
<1>2. session \in Sessions(B) /\ session.inbox # <<>>
  BY <1>1 DEF Typed, Inv, Greet, HandleRequest
<1>3. PICK q, g : q = Head(session.inbox) /\ g = reply(q)
  OBVIOUS
<1>4. session.inbox \in Seq(Requests) /\ session.outbox \in Seq(Frames(B))
  BY <1>2 DEF Sessions
<1>5. q \in Requests /\ q = session.inbox[1] /\ Tail(session.inbox) \in Seq(Requests)
  BY <1>2, <1>3, <1>4
<1>6. g \in Frames(B) /\ g.id = q.id /\ Suits(genesis_state, g, q.kind) /\ q.id # 0
  <2>1. q.id # 0
    BY <1>5 DEF Requests
  <2>2. QED
    BY <1>1, <1>3, <1>5, <2>1, Served
<1>7. PICK o : o = Append(session.outbox, g)
  OBVIOUS
<1>8. o \in Seq(Frames(B))
  BY <1>4, <1>6, <1>7
<1>9. /\ session' \in Sessions(B) /\ session'.inbox = Tail(session.inbox)
      /\ session'.outbox = o /\ session'.stage = "serving"
      /\ UNCHANGED <<genesis_state, chain, client, faults, made>>
  <2>1. CASE Greet
    <3>1. session' = [session EXCEPT !.stage = "serving", !.inbox = Tail(session.inbox),
                                     !.outbox = o]
      BY <1>2, <1>3, <1>7, <2>1 DEF Greet, Sessions
    <3>2. QED
      BY <1>2, <1>5, <1>8, <2>1, <3>1 DEF Sessions, Greet
  <2>2. CASE HandleRequest
    <3>1. session' = [session EXCEPT !.inbox = Tail(session.inbox), !.outbox = o]
          /\ session.stage = "serving"
      BY <1>2, <1>3, <1>7, <2>2 DEF HandleRequest, Sessions
    <3>2. QED
      BY <1>2, <1>5, <1>8, <2>2, <3>1 DEF Sessions, HandleRequest
  <2>3. QED
    BY <2>1, <2>2
<1>10. Inv'
  <2>1. Typed(B, C)'
    BY <1>1, <1>9 DEF Typed
  <2>2. QED
    BY <1>9, <2>1 DEF Inv
<1>11. ASSUME CalmInv, Calm' 
      PROVE  session'.stage # "closed" /\ Stopped(genesis_state, client)' /\ Flow'
  <2>1. Calm /\ Stopped(genesis_state, client) /\ Flow
    BY <1>9, <1>11 DEF Calm, CalmInv
  <2>2. client.req # NoRequest /\ Asked(client.req)
    BY <1>2, <2>1 DEF Flow, Nothing, Answered
  <2>3. Tail(session.inbox) = <<>>
    <3>1. ASSUME NEW z \in Seq(Requests), Len(z) = 1 PROVE Tail(z) = <<>>
      <4>1. z # <<>>
        BY <3>1
      <4>2. Tail(z) \in Seq(Requests) /\ Len(Tail(z)) = 0
        BY <3>1, <4>1
      <4>3. QED
        BY <4>2, EmptySeq
    <3>2. QED
      BY <1>4, <2>2, <3>1 DEF Asked
  <2>4. PICK n : n = Len(session.outbox) + 1
    OBVIOUS
  <2>5. o[n] = g /\ n \in DOMAIN o /\ Numbered(o) = {} \cup {n}
    BY <1>4, <1>6, <1>7, <2>2, <2>4, NumberedAppend DEF Asked
  <2>6. Answered(client.req)'
    <3>1. g.id = client.req.id /\ Suits(genesis_state, g, client.req.kind)
      BY <1>5, <1>6, <2>2 DEF Asked
    <3>2. QED
      BY <1>9, <2>3, <2>5, <3>1 DEF Answered
  <2>7. QED
    BY <1>9, <2>1, <2>2, <2>6 DEF Flow
<1>12. QED
  BY <1>10, <1>11 DEF Keeps, CalmInv

\* A frame without a number joins the outbox.
LEMMA PushesKeepFlow ==
  ASSUME NEW B, session \in Sessions(B), NEW f \in Frames(B), f.id = 0,
         session'.outbox = Append(session.outbox, f), session'.inbox = session.inbox,
         session'.stage = session.stage, client' = client,
         genesis_state' = genesis_state, Calm' => Calm, CalmInv
  PROVE  CalmInv'
<1>1. session.outbox \in Seq(Frames(B))
  BY DEF Sessions
<1>2. PICK o, n : o = Append(session.outbox, f) /\ n = Len(session.outbox) + 1
  OBVIOUS
<1>3. /\ \A i \in DOMAIN session.outbox : o[i] = session.outbox[i] /\ i \in DOMAIN o
      /\ Numbered(o) = Numbered(session.outbox)
  BY <1>1, <1>2, NumberedAppend
<1>4. ASSUME Nothing PROVE Nothing'
  BY <1>2, <1>3, <1>4 DEF Nothing
<1>5. ASSUME Asked(client.req) PROVE Asked(client.req)'
  BY <1>2, <1>3, <1>5 DEF Asked
<1>6. ASSUME Answered(client.req) PROVE Answered(client.req)'
  BY <1>2, <1>3, <1>6 DEF Answered
<1>7. QED
  BY <1>4, <1>5, <1>6 DEF CalmInv, Flow

LEMMA PushKeeps ==
  ASSUME Inv, Push
  PROVE  Keeps
<1>1. PICK B, C : Typed(B, C)
  BY DEF Inv
<1>2. session \in Sessions(B)
  BY <1>1 DEF Typed
<1>3. session.heads \in Seq(B) /\ session.outbox \in Seq(Frames(B)) /\ session.heads # <<>>
  BY <1>2 DEF Sessions, Push
<1>4. PICK f : f = push(Head(session.heads))
  OBVIOUS
<1>5. f \in Frames(B) /\ f.id = 0 /\ Tail(session.heads) \in Seq(B)
  <2>1. Head(session.heads) \in B /\ Tail(session.heads) \in Seq(B)
    BY <1>3
  <2>2. QED
    BY <1>4, <2>1, PushFrame
<1>6. Append(session.outbox, f) \in Seq(Frames(B))
  BY <1>3, <1>5
<1>7. /\ session' \in Sessions(B) /\ session'.inbox = session.inbox
      /\ session'.outbox = Append(session.outbox, f) /\ session'.stage = session.stage
      /\ UNCHANGED <<genesis_state, chain, client, faults, made>>
  <2>1. session' = [session EXCEPT !.heads = Tail(session.heads),
                                   !.outbox = Append(session.outbox, f)]
    BY <1>2, <1>4 DEF Push, Sessions
  <2>2. QED
    BY <1>2, <1>5, <1>6, <2>1 DEF Sessions, Push
<1>8. Inv'
  <2>1. Typed(B, C)'
    BY <1>1, <1>7 DEF Typed
  <2>2. QED
    BY <1>7, <2>1 DEF Inv
<1>9. CalmInv => CalmInv'
  <2>1. Calm' => Calm
    BY <1>7 DEF Calm
  <2>2. QED
    BY <1>2, <1>5, <1>7, <2>1, PushesKeepFlow
<1>10. QED
  BY <1>8, <1>9 DEF Keeps

(***************************************************************************)
(* The client.                                                             *)
(***************************************************************************)
\* A stretch of the client that ends in a good state.
LEMMA StretchKeeps ==
  ASSUME NEW B, NEW C, Typed(B, C), Inv, NEW D, NEW r, NEW out \in Seq(Frames(B)),
         Becomes(r, out), r.c \in Clients(genesis_state, B, D, made), Good(genesis_state, r.c),
         r.sent \in Seq(Requests)
  PROVE  /\ Inv' /\ session' \in Sessions(B) /\ session'.stage = session.stage
         /\ session'.outbox = out /\ session'.inbox = session.inbox \o r.sent
         /\ client' = r.c /\ genesis_state' = genesis_state /\ (Calm' <=> Calm)
<1>1. session \in Sessions(B)
  BY DEF Typed
<1>2. session.inbox \in Seq(Requests)
  BY <1>1 DEF Sessions
<1>3. PICK x : x = session.inbox \o r.sent
  OBVIOUS
<1>4. x \in Seq(Requests) /\ (session.inbox # <<>> => x # <<>>)
  BY <1>2, <1>3
<1>5. session' = [session EXCEPT !.outbox = out, !.inbox = x] /\ client' = r.c
      /\ UNCHANGED <<genesis_state, chain, faults, made>>
  BY <1>1, <1>3 DEF Becomes, Sessions
<1>6. /\ session' \in Sessions(B) /\ session'.stage = session.stage
      /\ session'.outbox = out /\ session'.inbox = x
  BY <1>1, <1>4, <1>5 DEF Sessions
<1>7. Typed(B, D)'
  BY <1>5, <1>6 DEF Typed
<1>8. Inv'
  BY <1>4, <1>5, <1>6, <1>7 DEF Inv
<1>9. QED
  BY <1>3, <1>5, <1>6, <1>8 DEF Calm

\* One that starts while nothing waits and ends with what it sent.
LEMMA SentFlow ==
  ASSUME NEW r, r.sent \in Seq(Requests), Sent(r), Nothing,
         client' = r.c, session'.inbox = session.inbox \o r.sent,
         session'.outbox = session.outbox
  PROVE  Flow'
<1>1. session'.inbox = r.sent /\ Numbered(session'.outbox) = {}
  BY DEF Nothing
<1>2. CASE r.c.req = NoRequest /\ r.sent = <<>>
  BY <1>1, <1>2 DEF Flow, Nothing
<1>3. CASE /\ r.c.req # NoRequest /\ Len(r.sent) = 1
           /\ r.sent[1].id = r.c.req.id /\ r.sent[1].kind = r.c.req.kind
  BY <1>1, <1>3 DEF Flow, Asked
<1>4. QED
  BY <1>2, <1>3 DEF Sent

LEMMA DeliverKeeps ==
  ASSUME Inv, Deliver
  PROVE  Keeps
<1>1. PICK B, C : Typed(B, C)
  BY DEF Inv
<1>2. /\ session \in Sessions(B) /\ client \in Clients(genesis_state, B, C, made)
      /\ Good(genesis_state, client)
  BY <1>1 DEF Typed, Inv
<1>3. PICK out, f, r : /\ out = session.outbox /\ f = Head(out)
                       /\ r = onMessage(client, f)
  OBVIOUS
<1>4. out \in Seq(Frames(B)) /\ out # <<>> /\ Becomes(r, Tail(out))
  BY <1>2, <1>3 DEF Deliver, Sessions
<1>5. /\ f \in Frames(B) /\ Tail(out) \in Seq(Frames(B))
      /\ f.id # 0 <=> 1 \in Numbered(out)
      /\ \A i \in DOMAIN Tail(out) : i + 1 \in DOMAIN out /\ Tail(out)[i] = out[i + 1]
      /\ \A i \in DOMAIN out : i # 1 => i - 1 \in DOMAIN Tail(out)
      /\ \A i \in DOMAIN Tail(out) : i \in Numbered(Tail(out)) <=> i + 1 \in Numbered(out)
      /\ Numbered(Tail(out)) \subseteq DOMAIN Tail(out)
  BY <1>3, <1>4, NumberedTail
<1>6. /\ r.c \in Clients(genesis_state, B, Cores(genesis_state, C), made)
      /\ Good(genesis_state, r.c) /\ r.sent \in Seq(Requests)
      /\ f.id = 0 => /\ r.c.req = client.req /\ r.c.phase = client.phase
                    /\ r.c.core = client.core /\ r.sent = <<>>
      /\ (/\ f.id # 0 /\ client.req # NoRequest /\ client.req.id = f.id)
           => /\ Sent(r)
              /\ Suits(genesis_state, f, client.req.kind) /\ Stopped(genesis_state, client)
                   => Stopped(genesis_state, r.c)
  BY <1>2, <1>3, <1>5, Messaged
<1>7. /\ Inv' /\ session'.stage = session.stage
      /\ session'.outbox = Tail(out) /\ session'.inbox = session.inbox \o r.sent
      /\ client' = r.c /\ genesis_state' = genesis_state /\ (Calm' <=> Calm)
  BY <1>1, <1>4, <1>5, <1>6, StretchKeeps
<1>8. \A i \in DOMAIN out : i \in Int
  BY <1>4
<1>9. ASSUME CalmInv, Calm
      PROVE  session'.stage # "closed" /\ Stopped(genesis_state, client)' /\ Flow'
  <2>1. session.stage # "closed" /\ Stopped(genesis_state, client) /\ Flow
    BY <1>9 DEF CalmInv
  <2>2. session.inbox \in Seq(Requests)
    BY <1>2 DEF Sessions
  <2>3. CASE f.id = 0
    <3>1. session'.inbox = session.inbox /\ client'.req = client.req
          /\ client'.phase = client.phase /\ client'.core = client.core
          /\ 1 \notin Numbered(out)
      <4>1. \A z \in Seq(Requests) : z \o <<>> = z
        OBVIOUS
      <4>2. QED
        BY <1>5, <1>6, <1>7, <2>2, <2>3, <4>1
    <3>2. ASSUME Numbered(out) = {} PROVE Numbered(Tail(out)) = {}
      BY <1>5, <3>2
    <3>3. ASSUME Nothing PROVE Nothing'
      BY <1>3, <1>7, <3>1, <3>2, <3>3 DEF Nothing
    <3>4. ASSUME Asked(client.req) PROVE Asked(client.req)'
      BY <1>3, <1>7, <3>1, <3>2, <3>4 DEF Asked
    <3>5. ASSUME Answered(client.req) PROVE Answered(client.req)'
      <4>1. PICK i \in DOMAIN out : /\ Numbered(out) = {i} /\ out[i].id = client.req.id
                                    /\ Suits(genesis_state, out[i], client.req.kind)
        BY <1>3, <3>5 DEF Answered
      <4>2. i # 1 /\ i \in Int
        BY <1>8, <3>1, <4>1
      <4>3. i - 1 \in DOMAIN Tail(out) /\ (i - 1) + 1 = i
        BY <1>5, <4>2
      <4>4. Tail(out)[i - 1] = out[i] /\ i - 1 \in Numbered(Tail(out))
        BY <1>5, <4>1, <4>3
      <4>5. \A j \in Numbered(Tail(out)) : j = i - 1
        <5>1. \A j \in DOMAIN Tail(out) : j \in Int
          BY <1>5
        <5>2. \A j \in Numbered(Tail(out)) : j \in Int /\ j + 1 = i
          BY <1>5, <4>1, <5>1
        <5>3. QED
          BY <4>2, <5>2
      <4>6. Numbered(Tail(out)) = {i - 1}
        BY <4>4, <4>5
      <4>7. session.inbox = <<>>
        BY <3>5 DEF Answered
      <4>8. QED
        BY <1>7, <3>1, <4>1, <4>3, <4>4, <4>6, <4>7 DEF Answered
    <3>6. QED
      BY <1>7, <2>1, <3>1, <3>3, <3>4, <3>5 DEF Flow, Stopped
  <2>4. CASE f.id # 0
    <3>1. 1 \in Numbered(out)
      BY <1>5, <2>4
    <3>2. client.req # NoRequest /\ Answered(client.req)
      BY <1>3, <2>1, <3>1 DEF Flow, Nothing, Asked
    <3>3. PICK i \in DOMAIN out : /\ Numbered(out) = {i} /\ out[i].id = client.req.id
                                  /\ Suits(genesis_state, out[i], client.req.kind)
      BY <1>3, <3>2 DEF Answered
    <3>4. f = out[1] /\ i = 1
      BY <1>3, <1>4, <3>1, <3>3
    <3>5. Sent(r) /\ Stopped(genesis_state, r.c)
      BY <1>6, <1>9, <2>1, <2>4, <3>2, <3>3, <3>4
    <3>6. Numbered(Tail(out)) = {}
      <4>1. \A j \in DOMAIN Tail(out) : j + 1 # 1
        BY <1>5
      <4>2. QED
        BY <1>5, <3>3, <3>4, <4>1
    <3>7. session'.inbox = r.sent
      BY <1>6, <1>7, <3>2 DEF Answered
    <3>8. Flow'
      BY <1>7, <3>5, <3>6, <3>7 DEF Flow, Sent, Nothing, Asked
    <3>9. QED
      BY <1>7, <2>1, <3>5, <3>8
  <2>5. QED
    BY <2>3, <2>4
<1>10. QED
  BY <1>7, <1>9 DEF Keeps, CalmInv

LEMMA StatesOf ==
  ASSUME genesis_state \in States, NEW M, \A b \in M : Genuine(b), NEW v \in Seq(M)
  PROVE  /\ StateAt(genesis_state, v) \in States
         /\ v # <<>> => Last(v) \in M
<1>1. CASE v = <<>>
  BY <1>1 DEF StateAt
<1>2. CASE v # <<>>
  <2>1. Last(v) \in M
    BY <1>2 DEF Last
  <2>2. QED
    BY <1>2, <2>1 DEF StateAt, Genuine
<1>3. QED
  BY <1>1, <1>2

\* The state root of the block before, as a header tells it.
LEMMA BeforeIs ==
  ASSUME NEW M, NEW v \in Seq(M)
  PROVE  (IF Len(v) + 1 = 1 THEN genesis_state ELSE HashAt(v).state_root)
           = StateAt(genesis_state, v)
<1>1. CASE v = <<>>
  BY <1>1 DEF StateAt
<1>2. CASE v # <<>>
  <2>1. Len(v) + 1 # 1
    BY <1>2
  <2>2. HashAt(v) = header(Last(v)) /\ StateAt(genesis_state, v) = Last(v).state_root
    BY <1>2 DEF HashAt, StateAt
  <2>3. header(Last(v)).state_root = Last(v).state_root
    BY DEF header
  <2>4. QED
    BY <2>1, <2>2, <2>3
<1>3. QED
  BY <1>1, <1>2

\* Junk is never accepted.
LEMMA JunkFails ==
  ASSUME genesis_state \in States, NEW M, \A b \in M : Genuine(b),
         NEW c, c.verified \in Seq(M), Replays(genesis_state, c),
         NEW b, verifies(c.core, b)
  PROVE  ~Junk(genesis_state, b)
<1>1. b.txs = b.txs_root /\ b.proposer = Expected
  BY DEF verifies, shallow_verify, compute_txs_root, header_fits
<1>2. PICK v, st : v = c.verified /\ st = c.core.state
  OBVIOUS
<1>3. /\ b.number = Len(v) + 1 /\ b.parent_hash = HashAt(v) /\ st = StateAt(genesis_state, v)
      /\ v \in Seq(M)
  BY <1>2 DEF verifies, header_fits, Replays
<1>4. st \in States
  BY <1>3, StatesOf
<1>5. b.state_root = [st EXCEPT !.log = Append(st.log, b.txs)]
  BY <1>2, <1>4 DEF verifies, state_root, apply_ops, States
<1>6. b.state_root # st
  <2>1. st.log \in Logs
    BY <1>4 DEF States
  <2>2. Len(Append(st.log, b.txs)) = Len(st.log) + 1 /\ Len(st.log) \in Nat
    <3>1. PICK x, l : x = b.txs /\ l = st.log
      OBVIOUS
    <3>2. l \in Seq(Seq({"tx"}) \cup {x}) /\ x \in Seq({"tx"}) \cup {x}
      BY <2>1, <3>1 DEF Logs
    <3>3. Len(Append(l, x)) = Len(l) + 1 /\ Len(l) \in Nat
      BY <3>2
    <3>4. QED
      BY <3>1, <3>3
  <2>3. Append(st.log, b.txs) # st.log
    BY <2>2
  <2>4. b.state_root.log = Append(st.log, b.txs)
    BY <1>4, <1>5 DEF States
  <2>5. QED
    BY <2>3, <2>4
<1>7. (IF b.number = 1 THEN genesis_state ELSE b.parent_hash.state_root) = st
  BY <1>3, BeforeIs
<1>8. QED
  BY <1>1, <1>6, <1>7 DEF Junk

\* A block that verifies extends the replay by itself.
LEMMA Replayed ==
  ASSUME NEW M, NEW c, c.verified \in Seq(M), Replays(genesis_state, c),
         NEW b \in M, verifies(c.core, b),
         NEW d, d.core = apply_block(c.core, b), d.verified = Append(c.verified, b)
  PROVE  Replays(genesis_state, d)
<1>1. PICK v, w, n : v = c.verified /\ w = Append(v, b) /\ n = Len(v)
  OBVIOUS
<1>2. /\ d.core = LightCore(apply_ops(c.core.state, b), b.number, header(b),
                            b.state_root, b.timestamp)
  BY DEF apply_block
<1>3. /\ w \in Seq(M) /\ w # <<>> /\ Len(w) = n + 1 /\ n \in Nat /\ w[n + 1] = b
      /\ v \in Seq(M) /\ \A i \in 1..n : w[i] = v[i]
  BY <1>1
<1>4. Last(w) = b
  BY <1>3 DEF Last
<1>5. StateAt(genesis_state, w) = b.state_root /\ HashAt(w) = header(b)
  BY <1>3, <1>4 DEF StateAt, HashAt
<1>6. /\ d.core.tip_number = b.number /\ d.core.state = apply_ops(c.core.state, b)
      /\ d.core.tip_hash = header(b)
  BY <1>2 DEF LightCore
<1>7. /\ b.number = n + 1 /\ b.parent_hash = HashAt(v)
      /\ apply_ops(c.core.state, b) = b.state_root
  BY <1>1 DEF verifies, header_fits, state_root, Replays
<1>8. \A k \in 0..n : SubSeq(w, 1, k) = SubSeq(v, 1, k)
  BY <1>1, <1>3
<1>9. SubSeq(v, 1, n) = v
  BY <1>1, <1>3
<1>10. ASSUME NEW i \in 1..(n + 1) PROVE w[i].parent_hash = HashAt(SubSeq(w, 1, i - 1))
  <2>1. i - 1 \in 0..n
    BY <1>3
  <2>2. SubSeq(w, 1, i - 1) = SubSeq(v, 1, i - 1)
    BY <1>8, <2>1
  <2>3. CASE i = n + 1
    <3>1. i - 1 = n
      BY <1>3, <2>3
    <3>2. QED
      BY <1>3, <1>7, <1>9, <2>2, <2>3, <3>1
  <2>4. CASE i # n + 1
    <3>1. i \in 1..n
      BY <1>3, <2>4
    <3>2. QED
      BY <1>1, <1>3, <2>2, <3>1 DEF Replays
  <2>5. QED
    BY <2>3, <2>4
<1>11. QED
  BY <1>1, <1>3, <1>5, <1>6, <1>7, <1>10 DEF Replays

\* While the applier runs there is a core and nothing waits.
LEMMA Running ==
  ASSUME NEW B, NEW C,
         NEW c \in Clients(genesis_state, B, C, made), Good(genesis_state, c),
         c.draining \in {"run", "save"}
  PROVE  /\ c.core # None /\ Replays(genesis_state, c) /\ c.req = NoRequest
         /\ Ready(genesis_state, c, B, C, made)
<1>1. c.core # None /\ Replays(genesis_state, c)
  BY DEF Good, Cored
<1>2. c.req.kind \notin Kinds
  BY DEF Good, OneWaits, Kinds
<1>3. c.req = NoRequest
  BY <1>2 DEF Clients, Reqs
<1>4. Len(c.verified) \in Nat
  BY DEF Clients
<1>5. QED
  BY <1>1, <1>3, <1>4 DEF Ready, Replays

\* A stretch that started while nothing waited.
LEMMA QuietKeeps ==
  ASSUME NEW B, NEW C, Typed(B, C), Inv, NEW D, NEW r, Becomes(r, session.outbox),
         r.c \in Clients(genesis_state, B, D, made), Good(genesis_state, r.c),
         r.sent \in Seq(Requests), Sent(r),
         client.req = NoRequest, client.core # None,
         client.phase # "failed" => r.c.phase # "failed"
  PROVE  Keeps
<1>1. session.outbox \in Seq(Frames(B))
  BY DEF Typed, Sessions
<1>2. /\ Inv' /\ session'.stage = session.stage
      /\ session'.outbox = session.outbox /\ session'.inbox = session.inbox \o r.sent
      /\ client' = r.c /\ genesis_state' = genesis_state /\ (Calm' <=> Calm)
  BY <1>1, StretchKeeps
<1>3. ASSUME CalmInv, Calm
      PROVE  session'.stage # "closed" /\ Stopped(genesis_state, client)' /\ Flow'
  <2>1. Nothing
    BY <1>3 DEF CalmInv, Flow
  <2>2. Flow'
    BY <1>2, <2>1, SentFlow
  <2>3. QED
    BY <1>2, <1>3, <2>2 DEF CalmInv, Stopped
<1>4. QED
  BY <1>2, <1>3 DEF Keeps, CalmInv

LEMMA ApplyNextKeeps ==
  ASSUME Inv, ApplyNext
  PROVE  Keeps
<1>1. PICK B, C : Typed(B, C)
  BY DEF Inv
<1>2. /\ client \in Clients(genesis_state, B, C, made) /\ Good(genesis_state, client)
      /\ client.draining = "run"
      /\ genesis_state \in States /\ \A b \in made : Genuine(b)
  BY <1>1 DEF Typed, Inv, ApplyNext
<1>3. /\ client.core # None /\ Replays(genesis_state, client) /\ client.req = NoRequest
      /\ Ready(genesis_state, client, B, C, made)
  BY <1>2, Running
<1> DEFINE After(k, rest, b) ==
             IF k = None
             THEN returned([rest EXCEPT !.badge = "error", !.draining = "no"])
             ELSE Result([rest EXCEPT !.core = k, !.badge = "verified",
                                      !.verified = Append(@, b)], <<>>)
<1>10. PICK b \in nextOf(client) :
         Becomes(After(apply_block(client.core, b), [client EXCEPT !.buffer = @ \ {b}], b),
                 session.outbox)
  BY DEF ApplyNext
<1>11. PICK k, rest : /\ k = apply_block(client.core, b)
                      /\ rest = [client EXCEPT !.buffer = @ \ {b}]
  OBVIOUS
<1>12. PICK r : r = After(k, rest, b)
  OBVIOUS
<1> HIDE DEF After
<1>4. /\ b \in nextOf(client) /\ k = apply_block(client.core, b)
      /\ rest = [client EXCEPT !.buffer = @ \ {b}]
      /\ r = After(k, rest, b) /\ Becomes(r, session.outbox)
  BY <1>10, <1>11, <1>12
<1>5. b \in client.buffer /\ b \in B
  BY <1>2, <1>4 DEF nextOf, Clients
<1>6. /\ rest \in Clients(genesis_state, B, C, made) /\ rest.core = client.core
      /\ rest.verified = client.verified /\ rest.req = NoRequest
      /\ rest.phase = client.phase /\ rest.draining = "run"
  <2>1. PICK X : X = client.buffer \ {b}
    OBVIOUS
  <2>2. X \in SUBSET B
    BY <1>2, <2>1 DEF Clients
  <2>3. rest = [client EXCEPT !.buffer = X]
    BY <1>2, <1>4, <2>1 DEF Clients
  <2>4. QED
    BY <1>2, <1>3, <2>2, <2>3 DEF Clients
<1>7. CASE k = None
  <2>1. PICK d : d = [rest EXCEPT !.badge = "error", !.draining = "no"]
    OBVIOUS
  <2>2. /\ d \in Clients(genesis_state, B, C, made) /\ d.core = client.core
        /\ d.verified = client.verified
        /\ d.req = NoRequest /\ d.phase = client.phase /\ d.draining = "no"
    BY <1>6, <2>1 DEF Clients
  <2>3. Ready(genesis_state, d, B, C, made)
    BY <1>3, <2>2 DEF Ready
  <2>4. r = returned(d)
    BY <1>4, <1>7, <2>1 DEF After
  <2>5. Leaves(r, d, B, C, made)
    BY <2>2, <2>3, <2>4, HasReturned
  <2>6. Good(genesis_state, r.c)
    <3>1. r.c.core = client.core /\ r.c.verified = client.verified
      BY <2>2, <2>5 DEF Leaves
    <3>2. r.c.core # None => Replays(genesis_state, r.c)
      BY <1>3, <3>1, SameReplay
    <3>3. QED
      BY <2>5, <3>2 DEF Good, Leaves
  <2>7. QED
    BY <1>1, <1>3, <1>4, <2>2, <2>5, <2>6, QuietKeeps DEF Leaves
<1>8. CASE k # None
  <2>1. verifies(client.core, b)
    BY <1>4, <1>8 DEF apply_block
  <2>2. client.verified \in Seq(made)
    BY <1>2 DEF Clients
  <2>3. ~Junk(genesis_state, b)
    BY <1>2, <1>3, <2>1, <2>2, JunkFails
  <2>4. b \in made
    BY <1>1, <1>5, <2>3 DEF Typed
  <2>5. PICK w : w = Append(client.verified, b)
    OBVIOUS
  <2>6. w \in Seq(made)
    BY <2>2, <2>4, <2>5
  <2>7. PICK d : d = [rest EXCEPT !.core = k, !.badge = "verified", !.verified = w]
    OBVIOUS
  <2>8. r.c = d /\ r.sent = <<>>
    <3>1. r = Result([rest EXCEPT !.core = k, !.badge = "verified",
                                  !.verified = Append(@, b)], <<>>)
      BY <1>4, <1>8 DEF After
    <3>2. [rest EXCEPT !.core = k, !.badge = "verified", !.verified = Append(@, b)] = d
      BY <1>6, <2>5, <2>7 DEF Clients
    <3>3. QED
      BY <3>1, <3>2 DEF Result
  <2>9. /\ d \in Clients(genesis_state, B, C \cup {k}, made) /\ d.core = k /\ d.verified = w
        /\ d.req = NoRequest /\ d.phase = client.phase /\ d.draining = "run"
    BY <1>6, <2>6, <2>7 DEF Clients
  <2>10. Replays(genesis_state, d)
    BY <1>3, <1>4, <2>1, <2>2, <2>4, <2>5, <2>9, Replayed
  <2>11. Good(genesis_state, d) /\ Sent(r)
    BY <1>8, <2>8, <2>9, <2>10 DEF Good, Cored, OneWaits, Sent, NoRequest
  <2>12. <<>> \in Seq(Requests)
    OBVIOUS
  <2>13. QED
    BY <1>1, <1>3, <1>4, <2>8, <2>9, <2>11, <2>12, QuietKeeps
<1>9. QED
  BY <1>7, <1>8

LEMMA PersistKeeps ==
  ASSUME Inv, Persist
  PROVE  Keeps
<1>1. PICK B, C : Typed(B, C)
  BY DEF Inv
<1>2. /\ client \in Clients(genesis_state, B, C, made) /\ Good(genesis_state, client)
      /\ client.draining = "run"
  BY <1>1 DEF Typed, Inv, Persist
<1>3. /\ client.core # None /\ Replays(genesis_state, client) /\ client.req = NoRequest
  BY <1>2, Running
<1>4. PICK d, r : /\ d = [client EXCEPT !.draining = "save"] /\ r = Result(d, <<>>)
                  /\ Becomes(r, session.outbox)
  BY DEF Persist
<1>5. /\ d \in Clients(genesis_state, B, C, made) /\ d.core = client.core
      /\ d.verified = client.verified
      /\ d.req = NoRequest /\ d.phase = client.phase /\ d.draining = "save"
  BY <1>2, <1>3, <1>4 DEF Clients
<1>6. r.c = d /\ r.sent = <<>> /\ <<>> \in Seq(Requests)
  BY <1>4 DEF Result
<1>7. d.core # None => Replays(genesis_state, d)
  BY <1>3, <1>5, SameReplay
<1>8. Good(genesis_state, d) /\ Sent(r)
  BY <1>3, <1>5, <1>6, <1>7 DEF Good, Cored, OneWaits, Sent, NoRequest
<1>9. QED
  BY <1>1, <1>3, <1>4, <1>5, <1>6, <1>8, QuietKeeps

LEMMA SavedKeeps ==
  ASSUME Inv, Saved
  PROVE  Keeps
<1>1. PICK B, C : Typed(B, C)
  BY DEF Inv
<1>2. /\ client \in Clients(genesis_state, B, C, made) /\ Good(genesis_state, client)
      /\ client.draining = "save"
      /\ genesis_state \in States /\ \A b \in made : Genuine(b)
  BY <1>1 DEF Typed, Inv, Saved
<1>3. /\ client.core # None /\ Replays(genesis_state, client) /\ client.req = NoRequest
      /\ Ready(genesis_state, client, B, C, made)
  BY <1>2, Running
<1>4. PICK x, d, r : /\ x = export_state(client.core.state)
                     /\ d = [client EXCEPT !.draining = "no", !.stored = x]
                     /\ r = returned(d) /\ Becomes(r, session.outbox)
  BY DEF Saved
<1>5. x \in Logs
  <2>1. client.core.state \in States
    BY <1>2, <1>3, StatesOf DEF Clients, Replays
  <2>2. QED
    BY <1>4, <2>1 DEF States, export_state
<1>6. /\ d \in Clients(genesis_state, B, C, made) /\ d.core = client.core
      /\ d.verified = client.verified
      /\ d.req = NoRequest /\ d.phase = client.phase /\ d.draining = "no"
  BY <1>2, <1>3, <1>4, <1>5 DEF Clients
<1>7. Ready(genesis_state, d, B, C, made)
  BY <1>3, <1>6 DEF Ready
<1>8. Leaves(r, d, B, C, made)
  BY <1>4, <1>6, <1>7, HasReturned
<1>9. Good(genesis_state, r.c)
  <2>1. r.c.core = client.core /\ r.c.verified = client.verified
    BY <1>6, <1>8 DEF Leaves
  <2>2. r.c.core # None => Replays(genesis_state, r.c)
    BY <1>3, <2>1, SameReplay
  <2>3. QED
    BY <1>8, <2>2 DEF Good, Leaves
<1>10. QED
  BY <1>1, <1>3, <1>4, <1>6, <1>8, <1>9, QuietKeeps DEF Leaves

\* A nonempty set of naturals has a least element.
LEMMA LeastNat ==
  ASSUME NEW T, T \subseteq Nat, T # {}
  PROVE  \E x \in T : \A y \in T : x <= y
<1> DEFINE R == OpToRel(<, Nat)
<1>1. PICK x \in T : \A y \in T : ~(<<y, x>> \in R)
  <2>1. IsWellFoundedOn(R, Nat)
    BY NatLessThanWellFounded
  <2> HIDE DEF R
  <2>2. QED
    BY <2>1, WFMin
<1>2. ASSUME NEW y \in T, y < x PROVE FALSE
  <2>1. <<y, x>> \in Nat \X Nat /\ <<y, x>>[1] = y /\ <<y, x>>[2] = x
    OBVIOUS
  <2>2. <<y, x>>[1] < <<y, x>>[2]
    BY <1>2, <2>1
  <2>3. <<y, x>> \in R
    BY <2>1, <2>2, Zenon DEF OpToRel
  <2> HIDE DEF R
  <2>4. QED
    BY <1>1, <2>3
<1> HIDE DEF R
<1>3. \A y \in T : y \in Nat /\ x \in Nat /\ ~(y < x)
  BY <1>2
<1>4. \A y \in T : x <= y
  BY <1>3
<1>5. QED
  BY <1>4

LEMMA FetchGapKeeps ==
  ASSUME Inv, FetchGap
  PROVE  Keeps
<1>1. PICK B, C : Typed(B, C)
  BY DEF Inv
<1>2. /\ client \in Clients(genesis_state, B, C, made) /\ Good(genesis_state, client)
      /\ client.draining = "run"
  BY <1>1 DEF Typed, Inv, FetchGap
<1>3. /\ client.core # None /\ Replays(genesis_state, client) /\ client.req = NoRequest
      /\ Ready(genesis_state, client, B, C, made)
  BY <1>2, Running
<1>4. PICK H, low, to, tip :
        /\ H = higher(client) /\ low = CHOOSE n \in H : \A m \in H : n <= m
        /\ to = gap_end(client) /\ tip = localTip(client)
  OBVIOUS
<1>5. tip \in Nat /\ SYNC_MAX_BATCH \in Nat
  BY <1>3, <1>4, LightAssumption DEF Ready, localTip
<1>6. H \subseteq Nat /\ H # {}
  BY <1>1, <1>2, <1>4 DEF FetchGap, higher, Typed, Clients
<1>7. low \in Nat
  BY <1>4, <1>6, LeastNat
<1>8. to \in Int
  <2>1. to = IF tip + SYNC_MAX_BATCH < low - 1 THEN tip + SYNC_MAX_BATCH ELSE low - 1
    BY <1>4 DEF gap_end
  <2>2. QED
    BY <1>5, <1>7, <2>1
<1>9. PICK d, r : /\ d = [client EXCEPT !.draining = "fetch"]
                  /\ r = request(d, "gap", tip + 1, to) /\ Becomes(r, session.outbox)
  BY <1>4 DEF FetchGap
<1>10. /\ d \in Clients(genesis_state, B, C, made) /\ d.core = client.core
       /\ d.verified = client.verified
       /\ d.phase = client.phase /\ d.draining = "fetch"
  BY <1>2, <1>9 DEF Clients
<1>11. "gap" \in Kinds /\ tip + 1 \in Nat /\ tip + 1 # 0
  BY <1>5 DEF Kinds
<1>12. /\ r.c \in Clients(genesis_state, B, C, made) /\ r.sent \in Seq(Requests) /\ Sent(r)
       /\ r.c.core = d.core /\ r.c.verified = d.verified /\ r.c.phase = d.phase
       /\ r.c.draining = d.draining /\ r.c.req.kind = "gap"
  <2>1. PICK from, kind : from = tip + 1 /\ kind = "gap"
    OBVIOUS
  <2>2. from \in Nat /\ from # 0 /\ kind \in Kinds /\ r = request(d, kind, from, to)
    BY <1>9, <1>11, <2>1
  <2>3. /\ r.c \in Clients(genesis_state, B, C, made) /\ r.sent \in Seq(Requests) /\ Sent(r)
        /\ r.c.core = d.core /\ r.c.verified = d.verified /\ r.c.phase = d.phase
        /\ r.c.draining = d.draining /\ r.c.req.kind = kind
    BY <1>8, <1>10, <2>2, Requested
  <2>4. QED
    BY <2>1, <2>3
<1>13. r.c.core # None => Replays(genesis_state, r.c)
  BY <1>3, <1>10, <1>12, SameReplay
<1>14. Good(genesis_state, r.c)
  BY <1>3, <1>10, <1>12, <1>13 DEF Good, Cored, OneWaits
<1>15. QED
  BY <1>1, <1>3, <1>9, <1>10, <1>12, <1>14, QuietKeeps

\* A fault that ends the calm, and one that does not bring it back.
LEMMA FaultAdds ==
  ASSUME faults \in Seq(Faults), NEW x \in Faults, faults' = Append(faults, x)
  PROVE  /\ faults' \in Seq(Faults) /\ (Calm' => Calm)
         /\ x \in {"timeouts", "closes"} => ~Calm'
<1>1. faults' \in Seq(Faults) /\ Len(faults') = Len(faults) + 1
  OBVIOUS
<1>2. \A i \in DOMAIN faults : i \in DOMAIN faults' /\ faults'[i] = faults[i]
  OBVIOUS
<1>3. PICK n : n = Len(faults) + 1
  OBVIOUS
<1>4. n \in DOMAIN faults' /\ faults'[n] = x
  BY <1>3
<1>5. ToSet(faults) \subseteq ToSet(faults') /\ x \in ToSet(faults')
  BY <1>2, <1>4 DEF ToSet
<1>6. QED
  BY <1>1, <1>5 DEF Calm

LEMMA TimeoutKeeps ==
  ASSUME Inv, Timeout
  PROVE  Keeps
<1>1. PICK B, C : Typed(B, C)
  BY DEF Inv
<1>2. /\ client \in Clients(genesis_state, B, C, made) /\ Good(genesis_state, client)
      /\ faults \in Seq(Faults)
  BY <1>1 DEF Typed, Inv
<1>3. /\ client' = rejected(client) /\ faults' = Append(faults, "timeouts")
      /\ UNCHANGED <<genesis_state, chain, session, made>>
  BY DEF Timeout
<1>4. PICK d : d = client'
  OBVIOUS
<1>5. /\ d \in Clients(genesis_state, B, C, made) /\ d.core = client.core
      /\ d.verified = client.verified
      /\ Cored(d) /\ OneWaits(d)
  BY <1>2, <1>3, <1>4, Rejected DEF Good, Cored
<1>6. Good(genesis_state, d)
  BY <1>2, <1>5, SameReplay DEF Good
<1>7. faults' \in Seq(Faults) /\ ~Calm'
  <2>1. PICK x : x = "timeouts"
    OBVIOUS
  <2>2. x \in Faults /\ x \in {"timeouts", "closes"} /\ faults' = Append(faults, x)
    BY <1>3, <2>1 DEF Faults
  <2>3. QED
    BY <1>2, <2>2, FaultAdds
<1>8. Typed(B, C)'
  BY <1>1, <1>3, <1>4, <1>5, <1>7 DEF Typed
<1>9. Inv'
  BY <1>3, <1>4, <1>6, <1>8 DEF Inv
<1>10. QED
  BY <1>7, <1>9 DEF Keeps, CalmInv

LEMMA CloseKeeps ==
  ASSUME Inv, Close
  PROVE  Keeps
<1>1. PICK B, C : Typed(B, C)
  BY DEF Inv
<1>2. /\ client \in Clients(genesis_state, B, C, made) /\ Good(genesis_state, client)
      /\ faults \in Seq(Faults)
      /\ session \in Sessions(B)
  BY <1>1 DEF Typed, Inv
<1>3. /\ client' = IF client.req # NoRequest THEN rejected(client) ELSE client
      /\ faults' = Append(faults, "closes") /\ UNCHANGED <<genesis_state, chain, made>>
      /\ session' = [session EXCEPT !.stage = "closed", !.heads = <<>>,
                                    !.inbox = <<>>, !.outbox = <<>>]
  BY DEF Close
<1>4. PICK d : d = client'
  OBVIOUS
<1>5. d \in Clients(genesis_state, B, C, made) /\ Good(genesis_state, d)
  <2>1. CASE client.req = NoRequest
    BY <1>2, <1>3, <1>4, <2>1
  <2>2. CASE client.req # NoRequest
    <3>1. d = rejected(client)
      BY <1>3, <1>4, <2>2
    <3>2. /\ d \in Clients(genesis_state, B, C, made) /\ d.core = client.core
          /\ d.verified = client.verified /\ Cored(d) /\ OneWaits(d)
      BY <1>2, <3>1, Rejected DEF Good, Cored
    <3>3. QED
      BY <1>2, <3>2, SameReplay DEF Good
  <2>3. QED
    BY <2>1, <2>2
<1>6. <<>> \in Seq(B) /\ <<>> \in Seq(Requests) /\ <<>> \in Seq(Frames(B))
  OBVIOUS
<1>7. session' \in Sessions(B) /\ session'.stage = "closed"
  BY <1>2, <1>3, <1>6 DEF Sessions
<1>8. faults' \in Seq(Faults) /\ ~Calm'
  <2>1. PICK x : x = "closes"
    OBVIOUS
  <2>2. x \in Faults /\ x \in {"timeouts", "closes"} /\ faults' = Append(faults, x)
    BY <1>3, <2>1 DEF Faults
  <2>3. QED
    BY <1>2, <2>2, FaultAdds
<1>9. Typed(B, C)'
  BY <1>1, <1>3, <1>4, <1>5, <1>7, <1>8 DEF Typed
<1>10. Inv'
  BY <1>3, <1>4, <1>5, <1>7, <1>9 DEF Inv
<1>11. QED
  BY <1>8, <1>10 DEF Keeps, CalmInv

\* The page is loaded again: a client without a core that says hello.
LEMMA ReloadKeeps ==
  ASSUME Inv, Reload
  PROVE  Keeps
<1>1. PICK B, C : Typed(B, C)
  BY DEF Inv
<1>2. client.stored \in Logs \cup {None} /\ client.genesisStateRoot = genesis_state
  BY <1>1 DEF Typed, Clients
<1>3. PICK q, r : /\ q = [id |-> 1, kind |-> "hello", from |-> 0, to |-> 0]
                  /\ r = [id |-> 1, kind |-> "hello"]
  OBVIOUS
<1>4. <<q>> \in Seq(Requests) /\ <<>> \in Seq(B) /\ <<>> \in Seq(Frames(B))
  BY <1>3 DEF Requests, Kinds
<1>5. session' = [stage |-> "new", heads |-> <<>>, inbox |-> <<q>>, outbox |-> <<>>]
  BY <1>3 DEF Reload, NewSession
<1>6. session' \in Sessions(B) /\ session'.stage = "new"
  BY <1>4, <1>5 DEF Sessions
<1>7. r \in Reqs /\ r.kind = "hello"
  BY <1>3 DEF Reqs, Kinds
<1>8. PICK d : d = client'
  OBVIOUS
<1>9. /\ d \in Clients(genesis_state, B, C \cup {None}, made) /\ d.core = None
      /\ d.verified = <<>>
      /\ d.req = r /\ d.phase = "hello" /\ d.draining = "no"
  <2>1. d = [genesisStateRoot |-> genesis_state,
             phase |-> "hello", core |-> None, verified |-> <<>>, target |-> 0,
             round |-> 0, req |-> r, nextReqId |-> 2, buffer |-> {},
             draining |-> "no", queued |-> FALSE, badge |-> "unverified",
             stored |-> client.stored]
    BY <1>2, <1>3, <1>8 DEF Reload, NewClient
  <2>2. <<>> \in Seq(made)
    OBVIOUS
  <2>3. QED
    BY <1>2, <1>7, <2>1, <2>2 DEF Clients, Phases
<1>10. UNCHANGED <<genesis_state, chain, faults, made>> /\ session.stage = "closed"
  BY DEF Reload
<1>11. Typed(B, C \cup {None})'
  BY <1>1, <1>6, <1>8, <1>9, <1>10 DEF Typed
<1>12. Good(genesis_state, d)
  BY <1>7, <1>9 DEF Good, Cored, OneWaits
<1>13. Inv'
  BY <1>6, <1>8, <1>10, <1>11, <1>12 DEF Inv
<1>14. CalmInv => CalmInv'
  BY <1>10 DEF CalmInv, Calm
<1>15. QED
  BY <1>13, <1>14 DEF Keeps

(***************************************************************************)
(* The node.                                                               *)
(***************************************************************************)
LEMMA Wider ==
  ASSUME NEW B, NEW B2, B \subseteq B2
  PROVE  Sessions(B) \subseteq Sessions(B2)
<1>1. \A z \in Seq(B) : z \in Seq(B2)
  OBVIOUS
<1>2. ASSUME NEW f \in Frames(B) PROVE f \in Frames(B2)
  <2>1. f.blocks \in Seq(B2)
    BY <1>1 DEF Frames
  <2>2. QED
    BY <2>1 DEF Frames
<1>3. ASSUME NEW s \in Sessions(B) PROVE s \in Sessions(B2)
  <2>1. PICK F, F2 : F = Frames(B) /\ F2 = Frames(B2)
    OBVIOUS
  <2>2. F \subseteq F2 /\ s.outbox \in Seq(F)
    BY <1>2, <2>1 DEF Sessions
  <2>3. s.outbox \in Seq(F2)
    BY <2>2
  <2>4. s.heads \in Seq(B2)
    BY <1>1 DEF Sessions
  <2>5. QED
    BY <2>1, <2>3, <2>4 DEF Sessions
<1>4. QED
  BY <1>3

LEMMA WiderClients ==
  ASSUME NEW B, NEW B2, B \subseteq B2, NEW C, NEW M, NEW M2, M \subseteq M2,
         NEW c \in Clients(genesis_state, B, C, M)
  PROVE  c \in Clients(genesis_state, B2, C, M2)
<1>1. c.verified \in Seq(M) /\ c.buffer \in SUBSET B
  BY DEF Clients
<1>2. c.verified \in Seq(M2) /\ c.buffer \in SUBSET B2
  BY <1>1
<1>3. QED
  BY <1>2 DEF Clients

\* The node works on its chain and on the session's heads.
LEMMA NodeKeeps ==
  ASSUME NEW B, NEW C, Typed(B, C), Inv, NEW B2, B \subseteq B2,
         made \subseteq made', made' \subseteq B2, \A b \in made' : Genuine(b),
         \A b \in B2 \ B : b.number \in Nat /\ (b \in made' \/ Junk(genesis_state, b)),
         chain' \in Seq(made'), session' \in Sessions(B2),
         session'.stage = session.stage, session'.inbox = session.inbox,
         client' = client, genesis_state' = genesis_state, faults' \in Seq(Faults)
  PROVE  Inv'
<1>1. client \in Clients(genesis_state, B, C, made)
  BY DEF Typed
<1>2. client \in Clients(genesis_state, B2, C, made')
  BY <1>1, WiderClients
<1>3. \A b \in B2 : b.number \in Nat /\ (b \in made' \/ Junk(genesis_state, b))
  BY DEF Typed
<1>4. Typed(B2, C)'
  BY <1>2, <1>3 DEF Typed
<1>5. QED
  BY <1>4 DEF Inv

LEMMA Announced ==
  ASSUME NEW B, NEW s \in Sessions(B), NEW bs \in Seq(B)
  PROVE  /\ announced(s, bs) \in Sessions(B) /\ announced(s, bs).stage = s.stage
         /\ announced(s, bs).inbox = s.inbox /\ announced(s, bs).outbox = s.outbox
<1>1. CASE s.stage \notin {"greeting", "serving"}
  BY <1>1 DEF announced
<1>2. CASE s.stage \in {"greeting", "serving"}
  <2>1. PICK all : all = s.heads \o bs
    OBVIOUS
  <2>2. all \in Seq(B) /\ HEADS \in Nat \ {0}
    BY <2>1, LightAssumption DEF Sessions
  <2>3. PICK h : h = IF Len(all) <= HEADS THEN all
                     ELSE SubSeq(all, Len(all) - HEADS + 1, Len(all))
    OBVIOUS
  <2>4. h \in Seq(B)
    <3>1. CASE Len(all) <= HEADS
      BY <2>2, <2>3, <3>1
    <3>2. CASE ~(Len(all) <= HEADS)
      <4>1. PICK m, n : m = Len(all) - HEADS + 1 /\ n = Len(all)
        OBVIOUS
      <4>2. m \in 1..n /\ n \in Nat /\ \A i \in m..n : all[i] \in B
        BY <2>2, <3>2, <4>1
      <4>3. SubSeq(all, m, n) \in Seq(B)
        BY <2>2, <4>1, <4>2
      <4>4. QED
        BY <2>3, <3>2, <4>1, <4>3
    <3>3. QED
      BY <3>1, <3>2
  <2>5. announced(s, bs) = [s EXCEPT !.heads = h]
    BY <1>2, <2>1, <2>3 DEF announced
  <2>6. QED
    BY <2>4, <2>5 DEF Sessions
<1>3. QED
  BY <1>1, <1>2

\* What is announced is neither a request nor an answer.
LEMMA AnnouncedFlow ==
  ASSUME session'.stage = session.stage, session'.inbox = session.inbox,
         session'.outbox = session.outbox, client' = client,
         genesis_state' = genesis_state, Calm' => Calm, CalmInv
  PROVE  CalmInv'
BY DEF CalmInv, Flow, Nothing, Asked, Answered

LEMMA ChildGenuine ==
  ASSUME genesis_state \in States, NEW M, \A b \in M : Genuine(b), NEW c \in Seq(M), NEW who,
         NEW txs \in Seq({"tx"}), NEW t
  PROVE  LET b == Child(genesis_state, c, who, txs, t) IN
         Genuine(b) /\ b.proposer = who /\ b.number \in Nat
<1>1. PICK n, p, st : n = Len(c) + 1 /\ p = HashAt(c) /\ st = StateAt(genesis_state, c)
  OBVIOUS
<1>2. n \in Nat \ {0} /\ st \in States
  BY <1>1, StatesOf
<1>3. PICK x : x = state_root(apply_ops(st, [txs |-> txs]))
  OBVIOUS
<1>4. x \in States
  <2>1. x = [st EXCEPT !.log = Append(st.log, txs)]
    BY <1>2, <1>3 DEF state_root, apply_ops, States
  <2>2. st.log \in Logs
    BY <1>2 DEF States
  <2>3. Append(st.log, txs) \in Logs
    BY <2>2 DEF Logs
  <2>4. QED
    BY <1>2, <2>1, <2>3 DEF States
<1>5. PICK b : b = Child(genesis_state, c, who, txs, t)
  OBVIOUS
<1>6. b = MakeBlock(n, p, t, x, who, txs)
  BY <1>1, <1>3, <1>5 DEF Child
<1>7. /\ b.number = n /\ b.parent_hash = p /\ b.timestamp = t /\ b.state_root = x
      /\ b.proposer = who /\ b.txs = txs
  BY <1>6 DEF MakeBlock
<1>8. QED
  BY <1>2, <1>4, <1>5, <1>6, <1>7 DEF Genuine

LEMMA ProduceKeeps ==
  ASSUME Inv, Produce
  PROVE  Keeps
<1>1. PICK B, C : Typed(B, C)
  BY DEF Inv
<1>2. PICK v, b :
        /\ v \in Validators /\ b = Child(genesis_state, chain, v, <<"tx">>, 2 * (Tip + 1))
        /\ chain' = Append(chain, b) /\ made' = made \cup {b}
        /\ session' = announced(session, <<b>>)
  BY DEF Produce
<1>3. client' = client /\ faults' = faults /\ genesis_state' = genesis_state
  BY DEF Produce
<1>4. /\ chain \in Seq(made) /\ \A x \in made : Genuine(x)
      /\ genesis_state \in States /\ made \subseteq B /\ session \in Sessions(B)
      /\ faults \in Seq(Faults)
  BY <1>1 DEF Typed
<1>5. Genuine(b) /\ b.number \in Nat
  <2>1. PICK t, x : t = 2 * (Tip + 1) /\ x = <<"tx">>
    OBVIOUS
  <2>2. x \in Seq({"tx"}) /\ b = Child(genesis_state, chain, v, x, t)
    BY <1>2, <2>1
  <2>3. QED
    BY <1>4, <2>2, ChildGenuine
<1>6. PICK B2 : B2 = B \cup {b}
  OBVIOUS
<1>7. session \in Sessions(B2) /\ <<b>> \in Seq(B2)
  BY <1>4, <1>6, Wider
<1>8. /\ session' \in Sessions(B2) /\ session'.stage = session.stage
      /\ session'.inbox = session.inbox /\ session'.outbox = session.outbox
  BY <1>2, <1>7, Announced
<1>9. chain' \in Seq(made')
  <2>1. chain \in Seq(made') /\ b \in made'
    BY <1>2, <1>4
  <2>2. QED
    BY <1>2, <2>1
<1>10. Inv'
  <2>1. /\ made \subseteq made' /\ made' \subseteq B2 /\ \A x \in made' : Genuine(x)
        /\ B \subseteq B2
        /\ \A x \in B2 \ B : x.number \in Nat /\ (x \in made' \/ Junk(genesis_state, x))
    BY <1>2, <1>4, <1>5, <1>6
  <2>2. QED
    BY <1>1, <1>3, <1>4, <1>8, <1>9, <2>1, NodeKeeps
<1>11. CalmInv => CalmInv'
  BY <1>3, <1>8, AnnouncedFlow DEF Calm
<1>12. QED
  BY <1>10, <1>11 DEF Keeps

LEMMA ReorgKeeps ==
  ASSUME Inv, Reorg
  PROVE  Keeps
<1>1. PICK B, C : Typed(B, C)
  BY DEF Inv
<1>2. PICK v, base, b, d :
        /\ v \in Validators /\ base = Front(chain)
        /\ b = Child(genesis_state, base, v, Last(chain).txs, 2 * Tip + 1)
        /\ d = Child(genesis_state, Append(base, b), v, <<>>, 2 * (Tip + 1))
        /\ chain' = base \o <<b, d>> /\ made' = made \cup {b, d}
        /\ session' = announced(session, <<b, d>>)
  BY DEF Reorg
<1>3. /\ client' = client /\ faults' = Append(faults, "reorgs") /\ Tip > 0
      /\ genesis_state' = genesis_state
  BY DEF Reorg
<1>4. /\ chain \in Seq(made) /\ \A x \in made : Genuine(x)
      /\ genesis_state \in States /\ made \subseteq B /\ session \in Sessions(B)
      /\ faults \in Seq(Faults)
  BY <1>1 DEF Typed
<1>5. base \in Seq(made) /\ Last(chain).txs \in Seq({"tx"})
  <2>1. Len(chain) \in Nat \ {0}
    BY <1>3, <1>4 DEF Tip
  <2>2. chain[Len(chain)] \in made
    BY <1>4, <2>1
  <2>3. base = SubSeq(chain, 1, Len(chain) - 1)
    BY <1>2 DEF Front
  <2>4. base \in Seq(made)
    BY <1>4, <2>1, <2>3
  <2>5. QED
    BY <1>4, <2>2, <2>4 DEF Last, Genuine
<1>6. Genuine(b) /\ b.number \in Nat
  <2>1. PICK t, x : t = 2 * Tip + 1 /\ x = Last(chain).txs
    OBVIOUS
  <2>2. x \in Seq({"tx"}) /\ b = Child(genesis_state, base, v, x, t)
    BY <1>2, <1>5, <2>1
  <2>3. QED
    BY <1>4, <1>5, <2>2, ChildGenuine
<1>7. PICK N : N = made \cup {b}
  OBVIOUS
<1>8. Genuine(d) /\ d.number \in Nat
  <2>1. PICK t, x, c : t = 2 * (Tip + 1) /\ x = <<>> /\ c = Append(base, b)
    OBVIOUS
  <2>2. base \in Seq(N) /\ b \in N /\ \A y \in N : Genuine(y)
    BY <1>4, <1>5, <1>6, <1>7
  <2>3. c \in Seq(N) /\ x \in Seq({"tx"}) /\ d = Child(genesis_state, c, v, x, t)
    BY <1>2, <2>1, <2>2
  <2>4. QED
    BY <1>4, <2>2, <2>3, ChildGenuine
<1>9. PICK B2 : B2 = B \cup {b, d}
  OBVIOUS
<1>10. session \in Sessions(B2) /\ <<b, d>> \in Seq(B2)
  BY <1>4, <1>9, Wider
<1>11. /\ session' \in Sessions(B2) /\ session'.stage = session.stage
       /\ session'.inbox = session.inbox /\ session'.outbox = session.outbox
  <2>1. PICK bs : bs = <<b, d>>
    OBVIOUS
  <2>2. bs \in Seq(B2) /\ session' = announced(session, bs)
    BY <1>2, <1>10, <2>1
  <2>3. QED
    BY <1>10, <2>2, Announced
<1>12. chain' \in Seq(made')
  <2>1. base \in Seq(made') /\ b \in made' /\ d \in made'
    BY <1>2, <1>5
  <2>2. <<b, d>> \in Seq(made')
    BY <2>1
  <2>3. QED
    BY <1>2, <2>1, <2>2
<1>13. faults' \in Seq(Faults) /\ (Calm' => Calm)
  <2>1. PICK x : x = "reorgs"
    OBVIOUS
  <2>2. x \in Faults /\ faults' = Append(faults, x)
    BY <1>3, <2>1 DEF Faults
  <2>3. QED
    BY <1>4, <2>2, FaultAdds
<1>14. Inv'
  <2>1. /\ made \subseteq made' /\ made' \subseteq B2 /\ \A x \in made' : Genuine(x)
        /\ B \subseteq B2
        /\ \A x \in B2 \ B : x.number \in Nat /\ (x \in made' \/ Junk(genesis_state, x))
    BY <1>2, <1>4, <1>6, <1>8, <1>9
  <2>2. QED
    BY <1>1, <1>3, <1>11, <1>12, <1>13, <2>1, NodeKeeps
<1>15. CalmInv => CalmInv'
  BY <1>3, <1>11, <1>13, AnnouncedFlow
<1>16. QED
  BY <1>14, <1>15 DEF Keeps

\* A block under trial is announced before its state root is compared.
LEMMA TrialKeeps ==
  ASSUME Inv, Trial
  PROVE  Keeps
<1>1. PICK B, C : Typed(B, C)
  BY DEF Inv
<1>2. PICK v, b : /\ v \in Validators /\ b = BadChild(genesis_state, chain, v, <<"tx">>)
                  /\ session' = announced(session, <<b>>)
  BY DEF Trial
<1>3. /\ UNCHANGED <<genesis_state, chain, client, made>> /\ faults' = Append(faults, "trials")
  BY DEF Trial
<1>4. /\ chain \in Seq(made) /\ \A x \in made : Genuine(x)
      /\ genesis_state \in States /\ made \subseteq B /\ session \in Sessions(B)
      /\ faults \in Seq(Faults)
  BY <1>1 DEF Typed
<1>5. b.number \in Nat /\ Junk(genesis_state, b)
  <2>1. PICK n, p, st, t : /\ n = Len(chain) + 1 /\ p = HashAt(chain)
                           /\ st = StateAt(genesis_state, chain)
                           /\ t = 2 * (Len(chain) + 1)
    OBVIOUS
  <2>2. b = MakeBlock(n, p, t, st, v, <<"tx">>)
    BY <1>2, <2>1 DEF BadChild
  <2>3. b.number = n /\ b.parent_hash = p /\ b.state_root = st
    BY <2>2 DEF MakeBlock
  <2>4. (IF n = 1 THEN genesis_state ELSE p.state_root) = st
    BY <1>4, <2>1, BeforeIs
  <2>5. n \in Nat
    BY <1>4, <2>1
  <2>6. QED
    BY <2>3, <2>4, <2>5 DEF Junk
<1>6. PICK B2 : B2 = B \cup {b}
  OBVIOUS
<1>7. session \in Sessions(B2) /\ <<b>> \in Seq(B2)
  BY <1>4, <1>6, Wider
<1>8. /\ session' \in Sessions(B2) /\ session'.stage = session.stage
      /\ session'.inbox = session.inbox /\ session'.outbox = session.outbox
  BY <1>2, <1>7, Announced
<1>9. faults' \in Seq(Faults) /\ (Calm' => Calm)
  <2>1. PICK x : x = "trials"
    OBVIOUS
  <2>2. x \in Faults /\ faults' = Append(faults, x)
    BY <1>3, <2>1 DEF Faults
  <2>3. QED
    BY <1>4, <2>2, FaultAdds
<1>10. Inv'
  <2>1. /\ made \subseteq made' /\ made' \subseteq B2 /\ \A x \in made' : Genuine(x)
        /\ B \subseteq B2
        /\ \A x \in B2 \ B : x.number \in Nat /\ (x \in made' \/ Junk(genesis_state, x))
        /\ chain' \in Seq(made')
    BY <1>3, <1>4, <1>5, <1>6
  <2>2. QED
    BY <1>1, <1>3, <1>8, <1>9, <2>1, NodeKeeps
<1>11. CalmInv => CalmInv'
  BY <1>3, <1>8, <1>9, AnnouncedFlow
<1>12. QED
  BY <1>10, <1>11 DEF Keeps

\* What a gateway makes up fails a check: nobody else signs for the expected proposer.
LEMMA ForgedIsJunk ==
  ASSUME genesis_state \in States, chain \in Seq(made), \A x \in made : Genuine(x),
         NEW b \in Forged
  PROVE  b.number \in Nat /\ Junk(genesis_state, b)
<1>1. CASE b = Child(genesis_state, chain, Stranger, <<"tx">>, 2 * (Tip + 1))
  <2>1. PICK t, x : t = 2 * (Tip + 1) /\ x = <<"tx">>
    OBVIOUS
  <2>2. x \in Seq({"tx"}) /\ b = Child(genesis_state, chain, Stranger, x, t)
    BY <1>1, <2>1
  <2>3. b.proposer = Stranger /\ b.number \in Nat
    BY <2>2, ChildGenuine
  <2>4. Stranger # Expected
    BY LightAssumption
  <2>5. QED
    BY <2>3, <2>4 DEF Junk
<1>2. ASSUME NEW a \in ToSet(chain),
             b = [a EXCEPT !.txs = IF @ = <<>> THEN <<"tx">> ELSE <<>>]
      PROVE  b.number \in Nat /\ Junk(genesis_state, b)
  <2>1. a \in made
    BY <1>2 DEF ToSet
  <2>2. /\ a = MakeBlock(a.number, a.parent_hash, a.timestamp, a.state_root, a.proposer, a.txs)
        /\ a.number \in Nat
    BY <2>1 DEF Genuine
  <2>3. PICK n, p, t, st, w, x : a = MakeBlock(n, p, t, st, w, x) /\ n = a.number
    BY <2>2
  <2>4. a.txs = x /\ a.txs_root = x
    BY <2>3 DEF MakeBlock, compute_txs_root
  <2>5. PICK y : y = IF x = <<>> THEN <<"tx">> ELSE <<>>
    OBVIOUS
  <2>6. y # x
    <3>1. <<"tx">> # <<>>
      OBVIOUS
    <3>2. QED
      BY <2>5, <3>1
  <2>7. b.txs = y /\ b.txs_root = x /\ b.number = n
    <3>1. b = [a EXCEPT !.txs = y]
      BY <1>2, <2>3, <2>4, <2>5 DEF MakeBlock
    <3>2. QED
      BY <2>3, <2>4, <3>1 DEF MakeBlock
  <2>8. QED
    BY <2>2, <2>3, <2>6, <2>7 DEF Junk
<1>3. QED
  BY <1>1, <1>2 DEF Forged

LEMMA ForgeKeeps ==
  ASSUME Inv, Forge
  PROVE  Keeps
<1>1. PICK B, C : Typed(B, C)
  BY DEF Inv
<1>2. PICK b \in Forged : session' = [session EXCEPT !.outbox = Append(@, push(b))]
  BY DEF Forge
<1>3. /\ UNCHANGED <<genesis_state, chain, client, made>> /\ faults' = Append(faults, "forged")
  BY DEF Forge
<1>4. /\ chain \in Seq(made) /\ \A x \in made : Genuine(x)
      /\ genesis_state \in States /\ made \subseteq B /\ session \in Sessions(B)
      /\ faults \in Seq(Faults)
  BY <1>1 DEF Typed
<1>5. b.number \in Nat /\ Junk(genesis_state, b)
  BY <1>4, ForgedIsJunk
<1>6. PICK B2, f : B2 = B \cup {b} /\ f = push(b)
  OBVIOUS
<1>7. session \in Sessions(B2) /\ f \in Frames(B2) /\ f.id = 0
  BY <1>4, <1>6, Wider, PushFrame
<1>8. session.outbox \in Seq(Frames(B2))
  BY <1>7 DEF Sessions
<1>9. PICK o : o = Append(session.outbox, f)
  OBVIOUS
<1>10. o \in Seq(Frames(B2))
  BY <1>7, <1>8, <1>9
<1>11. /\ session' \in Sessions(B2) /\ session'.stage = session.stage
       /\ session'.inbox = session.inbox /\ session'.outbox = o
  <2>1. session' = [session EXCEPT !.outbox = o]
    BY <1>2, <1>6, <1>7, <1>9 DEF Sessions
  <2>2. QED
    BY <1>7, <1>10, <2>1 DEF Sessions
<1>12. faults' \in Seq(Faults) /\ (Calm' => Calm)
  <2>1. PICK x : x = "forged"
    OBVIOUS
  <2>2. x \in Faults /\ faults' = Append(faults, x)
    BY <1>3, <2>1 DEF Faults
  <2>3. QED
    BY <1>4, <2>2, FaultAdds
<1>13. Inv'
  <2>1. /\ made \subseteq made' /\ made' \subseteq B2 /\ \A x \in made' : Genuine(x)
        /\ B \subseteq B2
        /\ \A x \in B2 \ B : x.number \in Nat /\ (x \in made' \/ Junk(genesis_state, x))
        /\ chain' \in Seq(made')
    BY <1>3, <1>4, <1>5, <1>6
  <2>2. QED
    BY <1>1, <1>3, <1>11, <1>12, <2>1, NodeKeeps
<1>14. CalmInv => CalmInv'
  BY <1>3, <1>7, <1>9, <1>11, <1>12, PushesKeepFlow
<1>15. QED
  BY <1>13, <1>14 DEF Keeps

(***************************************************************************)
(* The theorems.                                                           *)
(***************************************************************************)
LEMMA NextKeeps ==
  ASSUME Inv, [Next]_vars
  PROVE  Keeps
<1>1. CASE Subscribe
  BY <1>1, SubscribeKeeps
<1>2. CASE Greet \/ HandleRequest
  BY <1>2, AnswerKeeps
<1>3. CASE Push
  BY <1>3, PushKeeps
<1>4. CASE Deliver
  BY <1>4, DeliverKeeps
<1>5. CASE ApplyNext
  BY <1>5, ApplyNextKeeps
<1>6. CASE FetchGap
  BY <1>6, FetchGapKeeps
<1>7. CASE Persist
  BY <1>7, PersistKeeps
<1>8. CASE Saved
  BY <1>8, SavedKeeps
<1>9. CASE Timeout
  BY <1>9, TimeoutKeeps
<1>10. CASE Close
  BY <1>10, CloseKeeps
<1>11. CASE Reload
  BY <1>11, ReloadKeeps
<1>12. CASE Produce
  BY <1>12, ProduceKeeps
<1>13. CASE Reorg
  BY <1>13, ReorgKeeps
<1>14. CASE Trial
  BY <1>14, TrialKeeps
<1>15. CASE Forge
  BY <1>15, ForgeKeeps
<1>16. CASE UNCHANGED vars
  <2>1. UNCHANGED <<genesis_state, chain, session, client, faults, made>>
    BY <1>16 DEF vars
  <2>2. Inv'
    <3>1. PICK B, C : Typed(B, C)
      BY DEF Inv
    <3>2. Typed(B, C)'
      BY <2>1, <3>1 DEF Typed
    <3>3. QED
      BY <2>1, <3>2 DEF Inv
  <2>3. CalmInv => CalmInv'
    BY <2>1 DEF CalmInv, Calm, Flow, Nothing, Asked, Answered
  <2>4. QED
    BY <2>2, <2>3 DEF Keeps
<1>17. QED
  BY <1>1, <1>2, <1>3, <1>4, <1>5, <1>6, <1>7, <1>8, <1>9, <1>10, <1>11, <1>12, <1>13,
     <1>14, <1>15, <1>16 DEF Next, Gateway, Node

LEMMA SpecInv == Spec => []Inv
<1>1. Init => Inv
  BY InitInv
<1>2. Inv /\ [Next]_vars => Inv'
  BY NextKeeps DEF Keeps
<1>3. QED
  BY <1>1, <1>2, PTL DEF Spec

\* Whatever the gateway sends (lost heads, reorganised, trial and forged blocks, answers
\* of the wrong kind), the state the client shows is the replay, from the pinned genesis,
\* of blocks the node's chain held, each the child of the one before it
\* (client.ts applyWireBlock, runtime-wasm apply_block).
THEOREM VerifiedIsReplayed == Spec => []VerifiedIsReplay
<1>1. Inv => VerifiedIsReplay
  <2> SUFFICES ASSUME Inv, client.core # None PROVE VerifiedIsReplay
    BY DEF VerifiedIsReplay
  <2>1. PICK B, C : Typed(B, C)
    BY DEF Inv
  <2>2. client.verified \in Seq(made) /\ Replays(genesis_state, client)
    BY <2>1 DEF Typed, Clients, Inv, Good
  <2>3. ToSet(client.verified) \subseteq made
    BY <2>2 DEF ToSet
  <2>4. QED
    BY <2>2, <2>3 DEF VerifiedIsReplay, Replays
<1>2. QED
  BY <1>1, SpecInv, PTL

\* A push is never taken for the answer to a request (issue #37): without a timeout or a
\* lost connection sync() fails on nothing but a genesis whose snapshot does not pass the
\* client's import, with nothing shown, however pushes and answers interleave, whatever
\* Self scope the genesis pins (client.ts onMessage, request, sync).
THEOREM PushesAreNoReplies == Spec => []PushIsNoReply
<1>1. Init => Inv /\ CalmInv
  BY InitInv
<1>2. Inv /\ CalmInv /\ [Next]_vars => Inv' /\ CalmInv'
  BY NextKeeps DEF Keeps
<1>3. Inv /\ CalmInv => PushIsNoReply
  BY DEF CalmInv, Calm, PushIsNoReply, Stopped, GenesisServed, state_root
<1>4. QED
  BY <1>1, <1>2, <1>3, PTL DEF Spec

=============================================================================
