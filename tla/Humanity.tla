------------------------------ MODULE Humanity ------------------------------
(***************************************************************************)
(* The proof-of-humanity registry: crates/runtime/src/lifecycle.rs and     *)
(* humanity.rs over MemState, driven by crates/exec/src/apply.rs.          *)
(*                                                                         *)
(* One action is one accepted transaction of a block; EndBlock is the end  *)
(* of a block: the two sweeps, then the next height.  A rejected           *)
(* transaction writes nothing to the registry.  The block timestamp that   *)
(* verified_at records is represented by the height, with which it grows.  *)
(*                                                                         *)
(* Left to nondeterminism: what a juror or the oracle answers, which jury  *)
(* the seeded shuffle picks, whether the verifier accepts a proof.         *)
(***************************************************************************)
EXTENDS Integers, FiniteSets, Functions

CONSTANTS
  Addr,                  \* addresses of people
  Founders,              \* the humans verified at genesis
  Jurors,                \* active jurors (register-only, fixed at genesis)
  HUB,                   \* HUMANITY_HUB, the opener of system challenges
  Confidences,           \* confidence buckets
  Nullifiers,            \* one per passport
  MIN_VOUCHES, VOUCH_CAPACITY, JURY_SIZE, QUORUM, CHALLENGE_WINDOW,
  SYBIL_SLASH, FALSE_CHALLENGE_SLASH,
  Applicants, Challengers, Targets,  \* who registers, challenges, is challenged
  Suspects,              \* those the oracle's sybil scan may flag
  Grades, Ballots,       \* verdicts on liveness evidence, verdicts of jurors
  MaxCases,              \* bound: cases ever opened
  MaxHeight              \* bound: last block

CanonicalVerdict == [verdict    : {"Human", "Sybil", "Uncertain"},
                     confidence : Confidences]

ASSUME HumanityConstants ==
  /\ IsFiniteSet(Addr)
  /\ Founders \subseteq Addr
  /\ IsFiniteSet(Jurors)
  /\ Jurors # {}
  /\ HUB \notin Addr
  /\ IsFiniteSet(Nullifiers)
  /\ Applicants \cup Challengers \cup Targets \cup Suspects \subseteq Addr
  /\ Grades \cup Ballots \subseteq CanonicalVerdict
  /\ {MIN_VOUCHES, VOUCH_CAPACITY, CHALLENGE_WINDOW, SYBIL_SLASH,
      FALSE_CHALLENGE_SLASH, MaxCases, MaxHeight} \subseteq Nat
  /\ JURY_SIZE \in Nat \ {0}
  /\ QUORUM \in Nat \ {0}
  /\ 2 * QUORUM > JURY_SIZE

VARIABLES
  humans,      \* the Human records; an absent one is unregistered
  cases,       \* the cases by id
  next_case_id,
  edges,       \* vouch edges: MemState's vouches_out and vouchers_of
  cleared,     \* cleared_challenges: <<challenger, subject>>
  nullifiers,  \* spent passport nullifiers
  account,     \* Account.verified and verified_at, the cache balance() reads
  height       \* number of the block being executed

vars == <<humans, cases, next_case_id, edges, cleared, nullifiers, account, height>>

unregistered == [status |-> "Unverified", verified_at |-> 0, vouches_in |-> {},
                 reputation |-> 0, assurance |-> "Std"]

pending == [unregistered EXCEPT !.status = "Pending"]

(***************************************************************************)
(* Juries and tallies.                                                     *)
(***************************************************************************)
Juries ==
  {J \in SUBSET Jurors :
     IF Cardinality(Jurors) <= JURY_SIZE THEN J = Jurors
                                         ELSE Cardinality(J) = JURY_SIZE}

support(votes, v) == Cardinality({j \in DOMAIN votes : votes[j] = v})

\* Mutant: one vote less than a quorum commits.
tally_Early(votes, jury) ==
  LET agreed == {v \in Range(votes) : support(votes, v) >= QUORUM - 1}
  IN IF agreed = {} THEN "Open"
     ELSE LET v == CHOOSE v \in agreed : TRUE
          IN IF v.verdict = "Uncertain" THEN "Escalated" ELSE v.verdict

\* A case's status after its votes: Committed(v) is written v.verdict.
tally(votes, jury) ==
  LET agreed == {v \in Range(votes) : support(votes, v) >= QUORUM}
      unused == Cardinality(jury) - Cardinality(DOMAIN votes)
      best   == {0} \cup {support(votes, v) : v \in Range(votes)}
  IN IF agreed # {}
       THEN LET v == CHOOSE v \in agreed : TRUE
            IN IF v.verdict = "Uncertain" THEN "Escalated" ELSE v.verdict
       ELSE IF \A n \in best : n + unused < QUORUM THEN "Escalated" ELSE "Open"

new_case(subject, challenger, kind, jury) ==
  [subject |-> subject, challenger |-> challenger, kind |-> kind, jury |-> jury,
   votes |-> [j \in {} |-> 0], status |-> "Open", opened_at |-> height]

apply_tally(c, votes) ==
  [c EXCEPT !.votes = votes, !.status = tally(votes, c.jury)]

\* The cases after opening new, a function on the ids that follow.
open_cases(new) ==
  [id \in DOMAIN cases \cup DOMAIN new |->
     IF id \in DOMAIN cases THEN cases[id] ELSE new[id]]

open_case(c) == open_cases([id \in {next_case_id} |-> c])

(***************************************************************************)
(* Queries over the cases cs.                                              *)
(***************************************************************************)
casesOf(cs, a, kind) ==
  {id \in DOMAIN cs : cs[id].subject = a /\ cs[id].kind = kind}

\* The most recent registration of a, as a set of at most one id.
registration(cs, a) ==
  {id \in casesOf(cs, a, "Registration") :
     \A other \in casesOf(cs, a, "Registration") : other <= id}

liveness_passed(cs, a) == \E id \in registration(cs, a) : cs[id].status = "Human"

has_open_challenge(cs, a) ==
  \E id \in casesOf(cs, a, "Challenge") : cs[id].status = "Open"

has_pending_or_upheld_challenge(cs, a) ==
  \E id \in casesOf(cs, a, "Challenge") : cs[id].status \in {"Open", "Sybil"}

vouches_out(a) == {b \in Addr : <<a, b>> \in edges}

clear_vouch_edges(a) == {e \in edges : e[1] # a /\ e[2] # a}

\* No case by which to measure the window means it opened only now.
window_over(cs, a) ==
  IF registration(cs, a) = {} THEN CHALLENGE_WINDOW = 0
  ELSE \A id \in registration(cs, a) : height >= cs[id].opened_at + CHALLENGE_WINDOW

\* Mutant: a challenge that was upheld is forgotten once it is closed.
finalizable_Forgets(cs, a) ==
  /\ humans[a].status = "Pending"
  /\ liveness_passed(cs, a)
  /\ Cardinality(humans[a].vouches_in) >= MIN_VOUCHES
  /\ window_over(cs, a)
  /\ ~has_open_challenge(cs, a)

\* The gate of finalize_registration.
finalizable(cs, a) ==
  /\ humans[a].status = "Pending"
  /\ liveness_passed(cs, a)
  /\ Cardinality(humans[a].vouches_in) >= MIN_VOUCHES
  /\ window_over(cs, a)
  /\ ~has_pending_or_upheld_challenge(cs, a)

\* sync_account_verified: the cache entry, written without settling.
synced(verified, at) == [verified |-> verified, verified_at |-> at]

(***************************************************************************)
(* Transactions.                                                           *)
(***************************************************************************)
\* Mutant: next_case_id is not advanced.
request_verification_SameId(a, jury, grade) ==
  /\ humans[a].status \in {"Unverified", "Revoked"}
  /\ edges' = clear_vouch_edges(a)
  /\ cases' = open_case(apply_tally(new_case(a, a, "Registration", jury),
                                    [j \in jury |-> grade]))
  /\ humans' = [humans EXCEPT ![a] = pending]
  /\ UNCHANGED <<next_case_id, cleared, nullifiers, account, height>>

\* grade is the oracle's verdict on the liveness evidence: every juror of the
\* jury votes it, in the same transaction.
request_verification(a, jury, grade) ==
  /\ humans[a].status \in {"Unverified", "Revoked"}
  /\ edges' = clear_vouch_edges(a)
  /\ cases' = open_case(apply_tally(new_case(a, a, "Registration", jury),
                                    [j \in jury |-> grade]))
  /\ next_case_id' = next_case_id + 1
  /\ humans' = [humans EXCEPT ![a] = pending]
  /\ UNCHANGED <<cleared, nullifiers, account, height>>

vouch(voucher, vouchee) ==
  /\ voucher # vouchee
  /\ humans[voucher].status = "Verified"
  /\ humans[vouchee].status = "Pending"
  /\ <<voucher, vouchee>> \notin edges
  /\ Cardinality(vouches_out(voucher)) < VOUCH_CAPACITY
  /\ edges' = edges \cup {<<voucher, vouchee>>}
  /\ humans' = [humans EXCEPT ![vouchee].vouches_in = @ \cup {voucher}]
  /\ UNCHANGED <<cases, next_case_id, cleared, nullifiers, account, height>>

\* Mutant: a second challenge may be opened beside an open one.
challengeable_Twice(challenger, subject) ==
  /\ humans[subject].status \in {"Pending", "Verified", "Challenged"}
  /\ <<challenger, subject>> \notin cleared

\* Mutant: no cooldown after a false challenge.
challengeable_Again(challenger, subject) ==
  /\ humans[subject].status \in {"Pending", "Verified", "Challenged"}
  /\ ~has_open_challenge(cases, subject)

\* The checks of challenge_inner that system challenges share.
challengeable(challenger, subject) ==
  /\ humans[subject].status \in {"Pending", "Verified", "Challenged"}
  /\ ~has_open_challenge(cases, subject)
  /\ <<challenger, subject>> \notin cleared

challenge(challenger, subject, jury) ==
  /\ humans[challenger].status = "Verified"
  /\ challengeable(challenger, subject)
  /\ cases' = open_case(new_case(subject, challenger, "Challenge", jury))
  /\ next_case_id' = next_case_id + 1
  /\ humans' = [humans EXCEPT ![subject].status =
                  IF @ = "Verified" THEN "Challenged" ELSE @]
  /\ UNCHANGED <<edges, cleared, nullifiers, account, height>>

\* Mutant: the record is cleared, the vouch edges are not.
revoke_KeepsEdges(a) ==
  /\ humans' = [humans EXCEPT ![a].status = "Revoked", ![a].verified_at = 0,
                              ![a].vouches_in = {}]
  /\ account' = [account EXCEPT ![a] = synced(FALSE, 0)]
  /\ UNCHANGED <<edges, cleared>>

\* Mutant: the account cache is left as it was.
revoke_KeepsCache(a) ==
  /\ humans' = [humans EXCEPT ![a].status = "Revoked", ![a].verified_at = 0,
                              ![a].vouches_in = {}]
  /\ edges' = clear_vouch_edges(a)
  /\ UNCHANGED <<account, cleared>>

\* revoke: slash the vouchers, clear the record, the edges and the cache.
revoke(a) ==
  /\ humans' = [b \in Addr |->
       IF b = a
         THEN [humans[a] EXCEPT !.status = "Revoked", !.verified_at = 0,
                                !.vouches_in = {}]
       ELSE IF b \in humans[a].vouches_in
         THEN [humans[b] EXCEPT !.reputation = @ - SYBIL_SLASH]
       ELSE humans[b]]
  /\ edges' = clear_vouch_edges(a)
  /\ account' = [account EXCEPT ![a] = synced(FALSE, 0)]
  /\ UNCHANGED cleared

\* A Challenged human is Verified again; slashed, if any, pays for a false
\* challenge.
uphold(a, slashed) ==
  /\ humans' = [b \in Addr |->
       [humans[b] EXCEPT
          !.status     = IF b = a /\ @ = "Challenged" THEN "Verified" ELSE @,
          !.reputation = IF b \in slashed THEN @ - FALSE_CHALLENGE_SLASH ELSE @]]
  /\ account' = IF humans[a].status = "Challenged"
                  THEN [account EXCEPT ![a] = synced(TRUE, humans[a].verified_at)]
                  ELSE account
  /\ UNCHANGED edges

\* Mutant: a juror may vote again, on a closed case too.
submit_verdict_Again(id, juror, v) ==
  LET c == cases[id]
      d == apply_tally(c, [j \in DOMAIN c.votes \cup {juror} |->
                             IF j = juror THEN v ELSE c.votes[j]])
  IN /\ juror \in c.jury
     /\ cases' = [cases EXCEPT ![id] = d]
     /\ UNCHANGED <<next_case_id, nullifiers, height, humans, account, edges, cleared>>

submit_verdict(id, juror, v) ==
  LET c == cases[id]
      d == apply_tally(c, [j \in DOMAIN c.votes \cup {juror} |->
                             IF j = juror THEN v ELSE c.votes[j]])
  IN /\ c.status = "Open"
     /\ juror \in c.jury \ DOMAIN c.votes
     /\ cases' = [cases EXCEPT ![id] = d]
     /\ UNCHANGED <<next_case_id, nullifiers, height>>
     /\ \/ /\ d.status = "Sybil"
           /\ revoke(c.subject)
        \/ /\ d.status = "Human" /\ c.kind = "Challenge"
           /\ uphold(c.subject, {c.challenger})
           /\ cleared' = cleared \cup {<<c.challenger, c.subject>>}
        \/ /\ d.status = "Escalated" /\ c.kind = "Challenge"
           /\ uphold(c.subject, {})
           /\ UNCHANGED cleared
        \/ /\ d.status # "Sybil"
           /\ ~(d.status \in {"Human", "Escalated"} /\ c.kind = "Challenge")
           /\ UNCHANGED <<humans, account, edges, cleared>>

\* Mutant: a spent nullifier is accepted.
submit_zk_passport_proof_Reused(a, nullifier) ==
  /\ humans[a].status # "Revoked"
  /\ humans[a].assurance = "Std"
  /\ nullifiers' = nullifiers \cup {nullifier}
  /\ humans' = [humans EXCEPT ![a].status = "Verified",
                              ![a].verified_at = height,
                              ![a].assurance = "Enh"]
  /\ account' = [account EXCEPT ![a] = synced(TRUE, height)]
  /\ UNCHANGED <<cases, next_case_id, edges, cleared, height>>

\* A proof that the verifier, the trust anchors and the submitter binding accept.
submit_zk_passport_proof(a, nullifier) ==
  /\ humans[a].status # "Revoked"
  /\ humans[a].assurance = "Std"
  /\ nullifier \notin nullifiers
  /\ nullifiers' = nullifiers \cup {nullifier}
  /\ IF humans[a].status = "Verified"
       THEN /\ humans' = [humans EXCEPT ![a].assurance = "Dual"]
            /\ UNCHANGED account
       ELSE /\ humans' = [humans EXCEPT ![a].status = "Verified",
                                        ![a].verified_at = height,
                                        ![a].assurance = "Enh"]
            /\ account' = [account EXCEPT ![a] = synced(TRUE, height)]
  /\ UNCHANGED <<cases, next_case_id, edges, cleared, height>>

(***************************************************************************)
(* The end of a block.                                                     *)
(***************************************************************************)
Pending == {a \in Addr : humans[a].status = "Pending"}

\* sweep_sybil_scan: a challenge by the hub against each Pending subject the
\* oracle flags, unless challenge_inner refuses.
scanned(flagged) == {a \in flagged : challengeable(HUB, a)}

\* sweep_finalize on the cases cs that the scan left.
finalized(cs) == {a \in Pending : finalizable(cs, a)}

EndBlock(flagged, juries) ==
  LET filed == scanned(flagged)
      ids   == next_case_id..(next_case_id + Cardinality(filed) - 1)
  IN \E order \in Bijection(ids, filed) :
       LET cs   == open_cases([id \in ids |->
                     new_case(order[id], HUB, "Challenge", juries[order[id]])])
           done == finalized(cs)
       IN /\ next_case_id + Cardinality(filed) <= MaxCases
          /\ height < MaxHeight
          /\ cases' = cs
          /\ next_case_id' = next_case_id + Cardinality(filed)
          /\ humans' = [a \in Addr |->
               IF a \in done THEN [humans[a] EXCEPT !.status = "Verified",
                                                    !.verified_at = height]
                             ELSE humans[a]]
          /\ account' = [a \in Addr |->
               IF a \in done THEN synced(TRUE, height) ELSE account[a]]
          /\ height' = height + 1
          /\ UNCHANGED <<edges, cleared, nullifiers>>

(***************************************************************************)
(* The state machine.                                                      *)
(***************************************************************************)
Init ==
  /\ humans = [a \in Addr |-> IF a \in Founders
                                THEN [unregistered EXCEPT !.status = "Verified"]
                                ELSE unregistered]
  /\ cases = [id \in {} |-> 0]
  /\ next_case_id = 0
  /\ edges = {}
  /\ cleared = {}
  /\ nullifiers = {}
  /\ account = [a \in Addr |-> synced(a \in Founders, 0)]
  /\ height = 1

Next ==
  \/ /\ next_case_id < MaxCases
     /\ \E a \in Applicants, jury \in Juries, grade \in Grades :
          request_verification(a, jury, grade)
  \/ \E voucher, vouchee \in Addr : vouch(voucher, vouchee)
  \/ /\ next_case_id < MaxCases
     /\ \E challenger \in Challengers, subject \in Targets, jury \in Juries :
          challenge(challenger, subject, jury)
  \/ \E id \in DOMAIN cases, juror \in Jurors, v \in Ballots :
       submit_verdict(id, juror, v)
  \/ \E a \in Addr, n \in Nullifiers : submit_zk_passport_proof(a, n)
  \/ \E flagged \in SUBSET (Pending \cap Suspects) : \E juries \in [flagged -> Juries] :
       EndBlock(flagged, juries)

Spec == Init /\ [][Next]_vars

(***************************************************************************)
(* Properties.                                                             *)
(***************************************************************************)
HumanStatus == {"Unverified", "Pending", "Verified", "Challenged", "Revoked"}

Human == [status      : HumanStatus,
          verified_at : Nat,
          vouches_in  : SUBSET Addr,
          reputation  : Int,
          assurance   : {"Std", "Enh", "Dual"}]

Votes(jury) == UNION {[J -> CanonicalVerdict] : J \in SUBSET jury}

CaseOK(c) ==
  /\ DOMAIN c = {"subject", "challenger", "kind", "jury", "votes", "status",
                 "opened_at"}
  /\ c.subject \in Addr
  /\ c.challenger \in Addr \cup {HUB}
  /\ c.kind \in {"Registration", "Challenge"}
  /\ c.jury \in SUBSET Jurors
  /\ c.votes \in Votes(c.jury)
  /\ c.status \in {"Open", "Escalated", "Human", "Sybil"}
  /\ c.opened_at \in Nat

\* The type of the state: case ids are dense, and only jurors of a case's jury
\* have a vote on it.
TypeOK ==
  /\ humans \in [Addr -> Human]
  /\ next_case_id \in Nat
  /\ DOMAIN cases = 0..(next_case_id - 1)
  /\ \A id \in DOMAIN cases : CaseOK(cases[id])
  /\ edges \in SUBSET (Addr \X Addr)
  /\ cleared \in SUBSET ((Addr \cup {HUB}) \X Addr)
  /\ nullifiers \in SUBSET Nullifiers
  /\ account \in [Addr -> [verified : BOOLEAN, verified_at : Nat]]
  /\ height \in Nat

Emitting(a) == humans[a].status \in {"Verified", "Challenged"}

\* Emission gating (I2): the cache that balance() reads says verified exactly of
\* the humans who are Verified or Challenged, with their emission epoch, along
\* every path into and out of those states (finalize, verdict, revoke, ZK).
CacheInSync ==
  \A a \in Addr :
    /\ account[a].verified <=> Emitting(a)
    /\ account[a].verified_at = humans[a].verified_at
    /\ ~Emitting(a) => humans[a].verified_at = 0

\* Adjudication (challenge_inner, submit_verdict): a subject never has two open
\* challenges, an open challenge is always against someone it can still affect,
\* and nobody stays Challenged without a challenge that can end it.
ChallengesSound ==
  \A a \in Addr :
    /\ \A i, j \in casesOf(cases, a, "Challenge") :
         cases[i].status = "Open" /\ cases[j].status = "Open" => i = j
    /\ has_open_challenge(cases, a)
         => humans[a].status \in {"Pending", "Verified", "Challenged"}
    /\ humans[a].status = "Challenged" => has_open_challenge(cases, a)

\* A quorum of the jury of case id agreed on verdict w, confidence included.
QuorumFor(id, w) ==
  \E v \in CanonicalVerdict :
    v.verdict = w /\ support(cases[id].votes, v) >= QUORUM

\* Presumption of innocence (revoke): whoever is Revoked lost a challenge, and a
\* case counts as Sybil or Human only by QUORUM equal votes of its own jury.
RevokedByQuorum ==
  /\ \A id \in DOMAIN cases : \A w \in {"Sybil", "Human"} :
       cases[id].status = w => QuorumFor(id, w)
  /\ \A a \in Addr :
       humans[a].status = "Revoked"
         => \E id \in casesOf(cases, a, "Challenge") : cases[id].status = "Sybil"

\* I4, never auto-grant (finalize_registration): a human without a passport proof
\* is a founder that never re-registered, or passed liveness in its latest
\* registration, collected MIN_VOUCHES vouchers and outlived the challenge
\* window, and in no case lost a challenge in any of its lifecycles.
VerifiedOnMerit ==
  \A a \in Addr :
    Emitting(a) /\ humans[a].assurance = "Std" =>
      /\ \A id \in casesOf(cases, a, "Challenge") : cases[id].status # "Sybil"
      /\ \/ a \in Founders /\ casesOf(cases, a, "Registration") = {}
         \/ /\ liveness_passed(cases, a)
            /\ Cardinality(humans[a].vouches_in) >= MIN_VOUCHES
            /\ window_over(cases, a)

\* Vouching (vouch, revoke, clear_vouch_edges): every live vouch edge is also on
\* the vouchee's record, where revoke looks for the vouchers to slash, and no
\* voucher has more than VOUCH_CAPACITY edges, across revocations and
\* re-registrations of either end.
VouchersAccountable ==
  /\ \A e \in edges : e[1] \in humans[e[2]].vouches_in
  /\ \A a \in Addr : Cardinality(vouches_out(a)) <= VOUCH_CAPACITY

\* One passport, one human (submit_zk_passport_proof): there are never more
\* ZK-enhanced humans than spent nullifiers.
OnePassportOneHuman ==
  Cardinality({a \in Addr : humans[a].assurance # "Std"}) <= Cardinality(nullifiers)

\* Cooldown (challenge_inner): a challenger, the hub included, gets one shot at a
\* subject: at most one of its challenges ever clears in the subject's favour.
OneFalseChallenge ==
  \A c \in Addr \cup {HUB}, a \in Addr :
    \A i, j \in casesOf(cases, a, "Challenge") :
      /\ cases[i].challenger = c /\ cases[j].challenger = c
      /\ cases[i].status = "Human" /\ cases[j].status = "Human"
      => i = j

\* A closed case is final, votes are never withdrawn or changed, and the jury and
\* parties of a case are fixed when it opens (submit_verdict, put_case).
CasesFinal ==
  [][\A id \in DOMAIN cases :
       /\ id \in DOMAIN cases'
       /\ cases[id].status # "Open" => cases'[id] = cases[id]
       /\ \A f \in {"subject", "challenger", "kind", "jury", "opened_at"} :
            cases'[id][f] = cases[id][f]
       /\ \A j \in DOMAIN cases[id].votes :
            j \in DOMAIN cases'[id].votes /\ cases'[id].votes[j] = cases[id].votes[j]
    ]_vars

(***************************************************************************)
(* What the documentation says and the code does not do.                   *)
(***************************************************************************)
\* "a revoked human cannot re-bootstrap via ZK": whoever lost a challenge never
\* emits again with a passport proof.
RevokedStaysOut ==
  \A a \in Addr :
    Emitting(a) /\ humans[a].assurance # "Std" =>
      \A id \in casesOf(cases, a, "Challenge") : cases[id].status # "Sybil"

=============================================================================
