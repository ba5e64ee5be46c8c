--------------------------- MODULE HumanityProofs ---------------------------
(***************************************************************************)
(* Safety of the humanity registry for every instance: any number of       *)
(* people, jurors and passports, any quorum and window, no bound on cases. *)
(***************************************************************************)
EXTENDS Receipts, FiniteSetTheorems, TLAPS

(***************************************************************************)
(* Votes and tallies.                                                      *)
(***************************************************************************)
\* What tally returns: it commits a verdict only on a quorum of equal votes.
LEMMA TallyFacts ==
  ASSUME NEW jury \in SUBSET Jurors, NEW votes \in Votes(jury)
  PROVE  /\ tally(votes, jury) \in {"Open", "Escalated", "Human", "Sybil"}
         /\ \A w \in {"Sybil", "Human"} :
              tally(votes, jury) = w =>
                \E v \in CanonicalVerdict :
                  v.verdict = w /\ support(votes, v) >= QUORUM
<1> DEFINE agreed == {v \in Range(votes) : support(votes, v) >= QUORUM}
           unused == Cardinality(jury) - Cardinality(DOMAIN votes)
           best   == {0} \cup {support(votes, v) : v \in Range(votes)}
           u      == CHOOSE v \in agreed : TRUE
<1>1. Range(votes) \subseteq CanonicalVerdict
  BY DEF Votes, Range
<1>2. tally(votes, jury) =
        IF agreed # {} THEN IF u.verdict = "Uncertain" THEN "Escalated" ELSE u.verdict
        ELSE IF \A n \in best : n + unused < QUORUM THEN "Escalated" ELSE "Open"
  BY DEF tally
<1>3. CASE agreed # {}
  <2>1. u \in agreed
    BY <1>3
  <2>2. u \in CanonicalVerdict /\ support(votes, u) >= QUORUM
    BY <1>1, <2>1
  <2>3. u.verdict \in {"Human", "Sybil", "Uncertain"}
    BY <2>2 DEF CanonicalVerdict
  <2> HIDE DEF u, agreed
  <2>4. QED
    BY <1>2, <1>3, <2>2, <2>3
<1>4. CASE agreed = {}
  <2> HIDE DEF agreed, best, unused
  <2>1. QED
    BY <1>2, <1>4
<1>5. QED
  BY <1>3, <1>4

\* All jurors of a registration vote at once, so its case never stays open.
LEMMA RegistrationTally ==
  ASSUME NEW jury \in SUBSET Jurors, NEW grade \in CanonicalVerdict
  PROVE  /\ [j \in jury |-> grade] \in Votes(jury)
         /\ tally([j \in jury |-> grade], jury) # "Open"
<1> DEFINE votes  == [j \in jury |-> grade]
           agreed == {v \in Range(votes) : support(votes, v) >= QUORUM}
           unused == Cardinality(jury) - Cardinality(DOMAIN votes)
           best   == {0} \cup {support(votes, v) : v \in Range(votes)}
           u      == CHOOSE v \in agreed : TRUE
<1>1. votes \in Votes(jury)
  BY DEF Votes
<1>2. IsFiniteSet(jury)
  BY HumanityConstants, FS_Subset
<1>3. DOMAIN votes = jury /\ Cardinality(jury) \in Nat
  BY <1>2, FS_CardinalityType
<1>4. unused = 0
  BY <1>3
<1>5. tally(votes, jury) =
        IF agreed # {} THEN IF u.verdict = "Uncertain" THEN "Escalated" ELSE u.verdict
        ELSE IF \A n \in best : n + unused < QUORUM THEN "Escalated" ELSE "Open"
  BY DEF tally
<1>6. CASE agreed # {}
  <2>1. u \in agreed
    BY <1>6
  <2>2. u = grade
    BY <2>1 DEF Range
  <2>3. u.verdict # "Open"
    BY <2>2 DEF CanonicalVerdict
  <2> HIDE DEF u, agreed
  <2>4. QED
    BY <1>1, <1>5, <1>6, <2>3
<1>7. CASE agreed = {}
  <2>1. \A v \in Range(votes) : support(votes, v) \in Nat
    <3> SUFFICES ASSUME NEW v PROVE support(votes, v) \in Nat
      OBVIOUS
    <3>1. {j \in DOMAIN votes : votes[j] = v} \subseteq jury
      BY <1>3
    <3>2. QED
      BY <1>2, <3>1, FS_Subset, FS_CardinalityType DEF support
  <2>2. \A v \in Range(votes) : support(votes, v) < QUORUM
    BY <1>7, <2>1, HumanityConstants
  <2>3. \A n \in best : n + unused < QUORUM
    BY <1>4, <2>1, <2>2, HumanityConstants
  <2> HIDE DEF agreed, best, unused
  <2>4. QED
    BY <1>1, <1>5, <1>7, <2>3
<1>8. QED
  BY <1>6, <1>7

(***************************************************************************)
(* Opening cases.                                                          *)
(***************************************************************************)
LEMMA NewCaseFacts ==
  ASSUME NEW s \in Addr, NEW c \in Addr \cup {HUB},
         NEW k \in {"Registration", "Challenge"}, NEW jury \in SUBSET Jurors,
         height \in Nat
  PROVE  /\ CaseOK(new_case(s, c, k, jury))
         /\ new_case(s, c, k, jury).subject = s
         /\ new_case(s, c, k, jury).challenger = c
         /\ new_case(s, c, k, jury).kind = k
         /\ new_case(s, c, k, jury).status = "Open"
         /\ new_case(s, c, k, jury).jury = jury
         /\ new_case(s, c, k, jury).opened_at = height
<1>1. [j \in {} |-> 0] \in Votes(jury)
  <2>1. [j \in {} |-> 0] \in [{} -> CanonicalVerdict]
    OBVIOUS
  <2>2. QED
    BY <2>1 DEF Votes
<1>2. QED
  BY <1>1 DEF new_case, CaseOK

\* A case with a new ballot box.
LEMMA ApplyTallyFacts ==
  ASSUME NEW c, CaseOK(c), NEW votes \in Votes(c.jury)
  PROVE  /\ CaseOK(apply_tally(c, votes))
         /\ apply_tally(c, votes).votes = votes
         /\ apply_tally(c, votes).status = tally(votes, c.jury)
         /\ apply_tally(c, votes).subject = c.subject
         /\ apply_tally(c, votes).challenger = c.challenger
         /\ apply_tally(c, votes).kind = c.kind
         /\ apply_tally(c, votes).jury = c.jury
         /\ apply_tally(c, votes).opened_at = c.opened_at
<1>1. tally(votes, c.jury) \in {"Open", "Escalated", "Human", "Sybil"}
  BY TallyFacts DEF CaseOK
<1>2. QED
  BY <1>1 DEF apply_tally, CaseOK

\* Opening cases adds the new ids and keeps the old cases.
LEMMA OpenCasesFacts ==
  ASSUME TypeOK, NEW n \in Nat, NEW new,
         DOMAIN new = next_case_id..(next_case_id + n - 1)
  PROVE  /\ DOMAIN open_cases(new) = 0..(next_case_id + n - 1)
         /\ DOMAIN cases \subseteq DOMAIN open_cases(new)
         /\ \A id \in DOMAIN cases : open_cases(new)[id] = cases[id]
         /\ \A id \in DOMAIN new : id \notin DOMAIN cases /\ open_cases(new)[id] = new[id]
         /\ \A id \in DOMAIN open_cases(new) : id \in DOMAIN cases \/ id \in DOMAIN new
BY DEF TypeOK, open_cases

\* This step keeps the cases so far and opens those with an id in new.
Appended(new) ==
  /\ next_case_id' \in Nat
  /\ DOMAIN cases' = 0..(next_case_id' - 1)
  /\ \A id \in DOMAIN cases : id \in DOMAIN cases' /\ cases'[id] = cases[id]
  /\ \A id \in new : id \in DOMAIN cases' /\ id \notin DOMAIN cases
  /\ \A id \in DOMAIN cases' : id \in DOMAIN cases \/ id \in new

\* select_jury picks jurors.
LEMMA JuriesType == Juries \subseteq SUBSET Jurors
BY DEF Juries

\* Opening cases one after the other.
LEMMA OpensCases ==
  ASSUME TypeOK, NEW n \in Nat, NEW new,
         DOMAIN new = next_case_id..(next_case_id + n - 1),
         cases' = open_cases(new), next_case_id' = next_case_id + n
  PROVE  Appended(DOMAIN new) /\ \A id \in DOMAIN new : cases'[id] = new[id]
<1>1. next_case_id \in Nat
  BY DEF TypeOK
<1>2. next_case_id' \in Nat /\ next_case_id' - 1 = next_case_id + n - 1
  BY <1>1
<1>3. DOMAIN cases' = 0..(next_case_id + n - 1)
  BY OpenCasesFacts
<1>4. DOMAIN cases' = 0..(next_case_id' - 1)
  BY <1>2, <1>3
<1>5. /\ \A id \in DOMAIN cases : id \in DOMAIN cases' /\ cases'[id] = cases[id]
      /\ \A id \in DOMAIN cases' : id \in DOMAIN cases \/ id \in DOMAIN new
      /\ \A id \in DOMAIN new : id \notin DOMAIN cases /\ cases'[id] = new[id]
  BY OpenCasesFacts
<1>6. \A id \in DOMAIN new : id \in DOMAIN cases'
  BY <1>1, <1>3
<1>7. QED
  BY <1>2, <1>4, <1>5, <1>6 DEF Appended

\* The cases after request_verification: one more, a closed registration.
LEMMA RequestCases ==
  ASSUME TypeOK, NEW a \in Applicants, NEW jury \in Juries, NEW grade \in Grades,
         request_verification(a, jury, grade)
  PROVE  /\ a \in Addr
         /\ Appended({next_case_id})
         /\ CaseOK(cases'[next_case_id])
         /\ cases'[next_case_id].subject = a
         /\ cases'[next_case_id].kind = "Registration"
         /\ cases'[next_case_id].status # "Open"
         /\ cases'[next_case_id].opened_at = height
         /\ \A w \in {"Sybil", "Human"} :
              cases'[next_case_id].status = w =>
                \E v \in CanonicalVerdict :
                  v.verdict = w /\ support(cases'[next_case_id].votes, v) >= QUORUM
<1> DEFINE c == new_case(a, a, "Registration", jury)
           votes == [j \in jury |-> grade]
           d == apply_tally(c, votes)
           new == [id \in {next_case_id} |-> d]
<1>1. /\ a \in Addr /\ jury \in SUBSET Jurors /\ grade \in CanonicalVerdict
      /\ height \in Nat /\ next_case_id \in Nat
  BY HumanityConstants, JuriesType DEF TypeOK
<1>2. CaseOK(c) /\ c.jury = jury /\ c.subject = a /\ c.kind = "Registration"
      /\ c.opened_at = height
  BY <1>1, NewCaseFacts
<1>3. votes \in Votes(jury) /\ tally(votes, jury) # "Open"
  BY <1>1, RegistrationTally
<1>4. \A w \in {"Sybil", "Human"} : tally(votes, jury) = w =>
         \E v \in CanonicalVerdict : v.verdict = w /\ support(votes, v) >= QUORUM
  <2> HIDE DEF votes
  <2>1. QED
    BY <1>1, <1>3, TallyFacts
<1>5. cases' = open_cases(new) /\ next_case_id' = next_case_id + 1
  BY DEF request_verification, open_case
<1>6. DOMAIN new = next_case_id..(next_case_id + 1 - 1)
  BY <1>1
<1> HIDE DEF c, votes
<1>7. /\ CaseOK(d) /\ d.votes = votes /\ d.status = tally(votes, jury)
      /\ d.subject = a /\ d.kind = "Registration" /\ d.opened_at = height
  BY <1>2, <1>3, ApplyTallyFacts
<1>8. new[next_case_id] = d /\ DOMAIN new = {next_case_id}
  OBVIOUS
<1> HIDE DEF d, new
<1>9. Appended(DOMAIN new) /\ \A id \in DOMAIN new : cases'[id] = new[id]
  BY <1>5, <1>6, OpensCases
<1>10. Appended({next_case_id}) /\ cases'[next_case_id] = d
  BY <1>8, <1>9
<1>11. QED
  BY <1>1, <1>3, <1>4, <1>7, <1>10

\* The cases after challenge: one more, an open challenge.
LEMMA ChallengeCases ==
  ASSUME TypeOK, NEW ch \in Challengers, NEW a \in Targets, NEW jury \in Juries,
         challenge(ch, a, jury)
  PROVE  /\ a \in Addr /\ ch \in Addr
         /\ Appended({next_case_id})
         /\ CaseOK(cases'[next_case_id])
         /\ cases'[next_case_id].subject = a
         /\ cases'[next_case_id].challenger = ch
         /\ cases'[next_case_id].kind = "Challenge"
         /\ cases'[next_case_id].status = "Open"
<1> DEFINE c == new_case(a, ch, "Challenge", jury)
           new == [id \in {next_case_id} |-> c]
<1>1. /\ a \in Addr /\ ch \in Addr /\ jury \in SUBSET Jurors
      /\ height \in Nat /\ next_case_id \in Nat
  BY HumanityConstants, JuriesType DEF TypeOK
<1>2. /\ CaseOK(c) /\ c.subject = a /\ c.kind = "Challenge" /\ c.challenger = ch
      /\ c.status = "Open"
  BY <1>1, NewCaseFacts
<1>3. cases' = open_cases(new) /\ next_case_id' = next_case_id + 1
  BY DEF challenge, open_case
<1>4. DOMAIN new = next_case_id..(next_case_id + 1 - 1)
  BY <1>1
<1>5. new[next_case_id] = c /\ DOMAIN new = {next_case_id}
  OBVIOUS
<1> HIDE DEF c, new
<1>x. Appended(DOMAIN new) /\ \A id \in DOMAIN new : cases'[id] = new[id]
  BY <1>3, <1>4, OpensCases
<1>6. Appended({next_case_id}) /\ cases'[next_case_id] = c
  BY <1>5, <1>x
<1>7. QED
  BY <1>1, <1>2, <1>6

\* The case a juror votes on: the ballot is added and tallied, nothing else.
LEMMA VerdictCases ==
  ASSUME TypeOK, NEW id \in DOMAIN cases, NEW juror \in Jurors, NEW v \in Ballots,
         submit_verdict(id, juror, v)
  PROVE  /\ cases[id].status = "Open"
         /\ DOMAIN cases' = DOMAIN cases
         /\ \A i \in DOMAIN cases : i # id => cases'[i] = cases[i]
         /\ CaseOK(cases'[id])
         /\ cases'[id].subject = cases[id].subject
         /\ cases'[id].challenger = cases[id].challenger
         /\ cases'[id].kind = cases[id].kind
         /\ cases'[id].jury = cases[id].jury
         /\ cases'[id].opened_at = cases[id].opened_at
         /\ \A j \in DOMAIN cases[id].votes :
              j \in DOMAIN cases'[id].votes /\ cases'[id].votes[j] = cases[id].votes[j]
         /\ \A w \in {"Sybil", "Human"} :
              cases'[id].status = w =>
                \E u \in CanonicalVerdict :
                  u.verdict = w /\ support(cases'[id].votes, u) >= QUORUM
<1> DEFINE c == cases[id]
           votes == [j \in DOMAIN c.votes \cup {juror} |->
                       IF j = juror THEN v ELSE c.votes[j]]
           d == apply_tally(c, votes)
<1>1. CaseOK(c) /\ v \in CanonicalVerdict
  BY HumanityConstants DEF TypeOK
<1>2. c.status = "Open" /\ juror \in c.jury \ DOMAIN c.votes
      /\ cases' = [cases EXCEPT ![id] = d]
  BY DEF submit_verdict
<1>3. votes \in Votes(c.jury)
  <2>1. PICK J \in SUBSET c.jury : c.votes \in [J -> CanonicalVerdict]
    BY <1>1 DEF CaseOK, Votes
  <2>2. J \cup {juror} \in SUBSET c.jury
    BY <1>2, <2>1
  <2>3. votes \in [J \cup {juror} -> CanonicalVerdict]
    BY <1>1, <2>1
  <2>4. QED
    BY <2>2, <2>3 DEF Votes
<1>4. \A j \in DOMAIN c.votes : j \in DOMAIN votes /\ votes[j] = c.votes[j]
  BY <1>2
<1> HIDE DEF votes
<1>5. /\ CaseOK(d) /\ d.votes = votes /\ d.status = tally(votes, c.jury)
      /\ d.subject = c.subject /\ d.challenger = c.challenger /\ d.kind = c.kind
      /\ d.jury = c.jury /\ d.opened_at = c.opened_at
  BY <1>1, <1>3, ApplyTallyFacts
<1>6. c.jury \in SUBSET Jurors
  BY <1>1 DEF CaseOK
<1>7. \A w \in {"Sybil", "Human"} : tally(votes, c.jury) = w =>
         \E u \in CanonicalVerdict : u.verdict = w /\ support(votes, u) >= QUORUM
  BY <1>3, <1>6, TallyFacts
<1> HIDE DEF d
<1>8. cases'[id] = d /\ DOMAIN cases' = DOMAIN cases
      /\ \A i \in DOMAIN cases : i # id => cases'[i] = cases[i]
  BY <1>2
<1>9. QED
  BY <1>2, <1>4, <1>5, <1>7, <1>8

\* The sybil scan files at most one challenge against each Pending subject, and
\* only against one without an open challenge.
LEMMA EndBlockCases ==
  ASSUME TypeOK, NEW flagged \in SUBSET (Pending \cap Suspects),
         NEW juries \in [flagged -> Juries], EndBlock(flagged, juries)
  PROVE  \E new :
         /\ Appended(new)
         /\ \A id \in new :
              /\ CaseOK(cases'[id])
              /\ cases'[id].subject \in scanned(flagged)
              /\ cases'[id].challenger = HUB
              /\ cases'[id].kind = "Challenge"
              /\ cases'[id].status = "Open"
         /\ \A i, j \in new : cases'[i].subject = cases'[j].subject => i = j
<1> DEFINE filed == scanned(flagged)
           k     == Cardinality(filed)
           ids   == next_case_id..(next_case_id + k - 1)
<1>1. PICK order \in Bijection(ids, filed) :
        /\ cases' = open_cases([id \in ids |->
             new_case(order[id], HUB, "Challenge", juries[order[id]])])
        /\ next_case_id' = next_case_id + k
  BY DEF EndBlock
<1> DEFINE new == [id \in ids |->
             new_case(order[id], HUB, "Challenge", juries[order[id]])]
<1>2. filed \subseteq flagged /\ flagged \subseteq Addr /\ filed \subseteq Addr
  BY DEF scanned, Pending
<1>3. IsFiniteSet(filed) /\ k \in Nat
  BY <1>2, HumanityConstants, FS_Subset, FS_CardinalityType
<1>4. next_case_id \in Nat /\ height \in Nat
  BY DEF TypeOK
<1>5. DOMAIN new = next_case_id..(next_case_id + k - 1)
  OBVIOUS
<1>6. order \in [ids -> filed] /\ \A i, j \in ids : order[i] = order[j] => i = j
  BY <1>1 DEF Bijection, Injection, IsInjective
<1>7. ASSUME NEW id \in ids
      PROVE  /\ CaseOK(new[id]) /\ new[id].subject = order[id]
             /\ new[id].challenger = HUB /\ new[id].kind = "Challenge"
             /\ new[id].status = "Open"
  <2>1. order[id] \in Addr /\ juries[order[id]] \in SUBSET Jurors
    BY <1>2, <1>6, JuriesType
  <2>2. new[id] = new_case(order[id], HUB, "Challenge", juries[order[id]])
    OBVIOUS
  <2>3. HUB \in Addr \cup {HUB} /\ "Challenge" \in {"Registration", "Challenge"}
    OBVIOUS
  <2> HIDE DEF new, ids, filed
  <2>4. QED
    BY <1>4, <2>1, <2>2, <2>3, NewCaseFacts
<1>8. cases' = open_cases(new)
  BY <1>1
<1> HIDE DEF new, k
<1>9. next_case_id' = next_case_id + k
  BY <1>1 DEF k
<1>10. Appended(ids) /\ \A id \in ids : cases'[id] = new[id]
  <2>1. Appended(DOMAIN new) /\ \A id \in DOMAIN new : cases'[id] = new[id]
    BY <1>3, <1>5, <1>8, <1>9, OpensCases
  <2>2. QED
    BY <1>5, <2>1
<1>11. \A i, j \in ids : cases'[i].subject = cases'[j].subject => i = j
  BY <1>6, <1>7, <1>10
<1>12. \A id \in ids : /\ CaseOK(cases'[id])
                       /\ cases'[id].subject \in scanned(flagged)
                       /\ cases'[id].challenger = HUB
                       /\ cases'[id].kind = "Challenge"
                       /\ cases'[id].status = "Open"
  BY <1>6, <1>7, <1>10
<1>13. QED
  BY <1>10, <1>11, <1>12

(***************************************************************************)
(* The inductive invariant.  CaseInv is about the cases and the cooldown   *)
(* alone: registrations close in the transaction that opens them, a        *)
(* committed verdict has its quorum, and the cooldown set records exactly  *)
(* the pairs a further challenge must be refused to.  It is what makes the *)
(* properties of the people, in Inv, inductive: when a verdict closes a    *)
(* challenge, no other open challenge against the same subject is left.    *)
(***************************************************************************)
CasesTyped ==
  /\ next_case_id \in Nat
  /\ DOMAIN cases = 0..(next_case_id - 1)
  /\ \A id \in DOMAIN cases : CaseOK(cases[id])

RegistrationsClosed ==
  \A id \in DOMAIN cases :
    cases[id].kind = "Registration" => cases[id].status # "Open"

VerdictsByQuorum ==
  \A id \in DOMAIN cases : \A w \in {"Sybil", "Human"} :
    cases[id].status = w => QuorumFor(id, w)

OpenChallenge(id) == cases[id].kind = "Challenge" /\ cases[id].status = "Open"

OneOpen ==
  \A i, j \in DOMAIN cases :
    OpenChallenge(i) /\ OpenChallenge(j) /\ cases[i].subject = cases[j].subject => i = j

Cooldown ==
  \A id \in DOMAIN cases : cases[id].kind = "Challenge" =>
    /\ cases[id].status = "Human" => <<cases[id].challenger, cases[id].subject>> \in cleared
    /\ cases[id].status = "Open"  => <<cases[id].challenger, cases[id].subject>> \notin cleared

ClearedOnce ==
  \A i, j \in DOMAIN cases :
    /\ cases[i].kind = "Challenge" /\ cases[j].kind = "Challenge"
    /\ cases[i].subject = cases[j].subject /\ cases[i].challenger = cases[j].challenger
    /\ cases[i].status = "Human" /\ cases[j].status = "Human"
    => i = j

CaseInv ==
  /\ CasesTyped
  /\ RegistrationsClosed
  /\ VerdictsByQuorum
  /\ OneOpen
  /\ Cooldown
  /\ ClearedOnce

OpenAffects ==
  \A id \in DOMAIN cases : OpenChallenge(id) =>
    humans[cases[id].subject].status \in {"Pending", "Verified", "Challenged"}

ChallengedHasCase ==
  \A a \in Addr : humans[a].status = "Challenged" =>
    \E id \in DOMAIN cases : OpenChallenge(id) /\ cases[id].subject = a

RevokedHasCase ==
  \A a \in Addr : humans[a].status = "Revoked" =>
    \E id \in DOMAIN cases : /\ cases[id].kind = "Challenge"
                             /\ cases[id].status = "Sybil"
                             /\ cases[id].subject = a

StateTyped ==
  /\ humans \in [Addr -> Human]
  /\ edges \in SUBSET (Addr \X Addr)
  /\ cleared \in SUBSET ((Addr \cup {HUB}) \X Addr)
  /\ nullifiers \in SUBSET Nullifiers
  /\ account \in [Addr -> [verified : BOOLEAN, verified_at : Nat]]
  /\ height \in Nat

People ==
  /\ StateTyped
  /\ CacheInSync
  /\ OpenAffects
  /\ ChallengedHasCase
  /\ RevokedHasCase

Inv == CaseInv /\ People

\* The invariant gives the types.
LEMMA InvTypeOK == Inv => TypeOK
BY DEF Inv, CaseInv, CasesTyped, People, StateTyped, TypeOK

\* A case this step may open: a registration already closed by its votes, or an
\* open challenge against a subject that is not under one, past no cooldown.
Opened(id) ==
  /\ CaseOK(cases'[id])
  /\ \/ /\ cases'[id].kind = "Registration"
        /\ cases'[id].status # "Open"
     \/ /\ OpenChallenge(id)'
        /\ ~has_open_challenge(cases, cases'[id].subject)
        /\ <<cases'[id].challenger, cases'[id].subject>> \notin cleared
  /\ \A w \in {"Sybil", "Human"} : cases'[id].status = w => QuorumFor(id, w)'

\* Opening such cases keeps the invariant of the cases.
LEMMA OpeningKeepsCaseInv ==
  ASSUME CaseInv, NEW new, Appended(new), \A id \in new : Opened(id),
         \A i, j \in new : cases'[i].subject = cases'[j].subject => i = j,
         cleared' = cleared
  PROVE  CaseInv'
<1>1. /\ \A id \in DOMAIN cases : id \in DOMAIN cases' /\ cases'[id] = cases[id]
      /\ \A id \in new : id \in DOMAIN cases' /\ id \notin DOMAIN cases
      /\ \A id \in DOMAIN cases' : id \in DOMAIN cases \/ id \in new
      /\ next_case_id' \in Nat /\ DOMAIN cases' = 0..(next_case_id' - 1)
  BY DEF Appended
<1>2. CasesTyped'
  BY <1>1 DEF CaseInv, CasesTyped, Opened
<1>3. RegistrationsClosed'
  <2> SUFFICES ASSUME NEW id \in DOMAIN cases', cases'[id].kind = "Registration"
               PROVE  cases'[id].status # "Open"
    BY DEF RegistrationsClosed
  <2>1. QED
    BY <1>1 DEF CaseInv, RegistrationsClosed, Opened, OpenChallenge
<1>4. VerdictsByQuorum'
  <2> SUFFICES ASSUME NEW id \in DOMAIN cases', NEW w \in {"Sybil", "Human"},
                      cases'[id].status = w
               PROVE  QuorumFor(id, w)'
    BY DEF VerdictsByQuorum
  <2>1. CASE id \in DOMAIN cases
    BY <1>1, <2>1 DEF CaseInv, VerdictsByQuorum, QuorumFor
  <2>2. CASE id \in new
    BY <2>2 DEF Opened
  <2>3. QED
    BY <1>1, <2>1, <2>2
<1>5. OneOpen'
  <2> SUFFICES ASSUME NEW i \in DOMAIN cases', NEW j \in DOMAIN cases',
                      OpenChallenge(i)', OpenChallenge(j)',
                      cases'[i].subject = cases'[j].subject
               PROVE  i = j
    BY DEF OneOpen
  <2>1. ASSUME NEW k \in DOMAIN cases, NEW l \in new,
               OpenChallenge(k)', OpenChallenge(l)',
               cases'[k].subject = cases'[l].subject
        PROVE  FALSE
    <3>1. ~has_open_challenge(cases, cases'[l].subject)
      BY <2>1 DEF Opened, OpenChallenge
    <3>2. cases'[k] = cases[k]
      BY <1>1, <2>1
    <3>3. QED
      BY <2>1, <3>1, <3>2 DEF has_open_challenge, casesOf, OpenChallenge
  <2>2. CASE i \in DOMAIN cases /\ j \in DOMAIN cases
    BY <1>1, <2>2 DEF CaseInv, OneOpen, OpenChallenge
  <2>3. CASE i \in new /\ j \in new
    BY <2>3
  <2>4. QED
    BY <1>1, <2>1, <2>2, <2>3
<1>6. Cooldown'
  <2> SUFFICES ASSUME NEW id \in DOMAIN cases', cases'[id].kind = "Challenge"
               PROVE  /\ cases'[id].status = "Human" =>
                           <<cases'[id].challenger, cases'[id].subject>> \in cleared
                      /\ cases'[id].status = "Open" =>
                           <<cases'[id].challenger, cases'[id].subject>> \notin cleared
    BY DEF Cooldown
  <2>1. CASE id \in DOMAIN cases
    BY <1>1, <2>1 DEF CaseInv, Cooldown
  <2>2. CASE id \in new
    BY <2>2 DEF Opened, OpenChallenge
  <2>3. QED
    BY <1>1, <2>1, <2>2
<1>7. ClearedOnce'
  <2>1. \A id \in DOMAIN cases' :
          cases'[id].kind = "Challenge" /\ cases'[id].status = "Human" =>
            id \in DOMAIN cases
    BY <1>1 DEF Opened, OpenChallenge
  <2>2. QED
    BY <1>1, <2>1 DEF CaseInv, ClearedOnce
<1>8. QED
  BY <1>2, <1>3, <1>4, <1>5, <1>6, <1>7 DEF CaseInv

\* A verdict keeps the invariant of the cases: the pair that a Human verdict adds
\* to the cooldown belongs to no other open challenge and to no other cleared one.
LEMMA VerdictKeepsCaseInv ==
  ASSUME Inv, NEW id \in DOMAIN cases, NEW juror \in Jurors, NEW v \in Ballots,
         submit_verdict(id, juror, v)
  PROVE  /\ CaseInv'
         /\ cases[id].kind = "Challenge"
<1> DEFINE c == cases[id]
           pair == <<c.challenger, c.subject>>
<1>0. TypeOK
  BY InvTypeOK
<1>1. /\ c.status = "Open"
      /\ DOMAIN cases' = DOMAIN cases
      /\ \A i \in DOMAIN cases : i # id => cases'[i] = cases[i]
      /\ CaseOK(cases'[id])
      /\ cases'[id].subject = c.subject
      /\ cases'[id].challenger = c.challenger
      /\ cases'[id].kind = c.kind
  BY <1>0, VerdictCases
<1>2. \A w \in {"Sybil", "Human"} : cases'[id].status = w => QuorumFor(id, w)'
  <2>1. \A w \in {"Sybil", "Human"} :
          cases'[id].status = w =>
            \E u \in CanonicalVerdict :
              u.verdict = w /\ support(cases'[id].votes, u) >= QUORUM
    BY <1>0, VerdictCases
  <2>2. QED
    BY <2>1 DEF QuorumFor
<1>3. c.kind = "Challenge"
  BY <1>0, <1>1 DEF Inv, CaseInv, RegistrationsClosed, TypeOK, CaseOK
<1>4. /\ cases'[id].status = "Human" => cleared' = cleared \cup {pair}
      /\ cases'[id].status # "Human" => cleared' = cleared
      /\ next_case_id' = next_case_id
  <2> DEFINE d == apply_tally(c, [j \in DOMAIN c.votes \cup {juror} |->
                             IF j = juror THEN v ELSE c.votes[j]])
  <2>1. cases' = [cases EXCEPT ![id] = d] /\ next_case_id' = next_case_id
    BY DEF submit_verdict
  <2>2. \/ d.status = "Sybil" /\ revoke(c.subject)
        \/ d.status = "Human" /\ cleared' = cleared \cup {pair}
        \/ d.status = "Escalated" /\ cleared' = cleared
        \/ ~(d.status \in {"Human", "Escalated"} /\ c.kind = "Challenge")
           /\ cleared' = cleared
    BY DEF submit_verdict
  <2>3. revoke(c.subject) => cleared' = cleared
    BY DEF revoke
  <2> HIDE DEF d
  <2>4. QED
    BY <1>3, <2>1, <2>2, <2>3
<1>5. CasesTyped'
  BY <1>1, <1>4 DEF Inv, CaseInv, CasesTyped
<1>6. RegistrationsClosed'
  BY <1>1, <1>3 DEF Inv, CaseInv, RegistrationsClosed
<1>7. VerdictsByQuorum'
  <2> SUFFICES ASSUME NEW i \in DOMAIN cases, NEW w \in {"Sybil", "Human"},
                      cases'[i].status = w
               PROVE  QuorumFor(i, w)'
    BY <1>1 DEF VerdictsByQuorum
  <2>1. CASE i = id
    BY <1>2, <2>1
  <2>2. CASE i # id
    BY <1>1, <2>2 DEF Inv, CaseInv, VerdictsByQuorum, QuorumFor
  <2>3. QED
    BY <2>1, <2>2
<1>8. OpenChallenge(id)
  BY <1>1, <1>3 DEF OpenChallenge
<1>9. \A i \in DOMAIN cases : OpenChallenge(i)' => OpenChallenge(i)
  BY <1>1, <1>8 DEF OpenChallenge
<1>10. \A i \in DOMAIN cases : /\ cases'[i].subject = cases[i].subject
                              /\ cases'[i].challenger = cases[i].challenger
                              /\ cases'[i].kind = cases[i].kind
  BY <1>1
<1>11. OneOpen'
  BY <1>1, <1>9, <1>10 DEF Inv, CaseInv, OneOpen
<1>12. pair \notin cleared
  BY <1>1, <1>3 DEF Inv, CaseInv, Cooldown
<1>13. Cooldown'
  <2> SUFFICES ASSUME NEW i \in DOMAIN cases, cases'[i].kind = "Challenge"
               PROVE  /\ cases'[i].status = "Human" =>
                           <<cases'[i].challenger, cases'[i].subject>> \in cleared'
                      /\ cases'[i].status = "Open" =>
                           <<cases'[i].challenger, cases'[i].subject>> \notin cleared'
    BY <1>1 DEF Cooldown
  <2>1. CASE i = id
    BY <1>1, <1>4, <1>12, <2>1
  <2>2. CASE i # id
    <3>1. cases'[i] = cases[i]
      BY <1>1, <2>2
    <3>2. cases[i].status = "Human" => <<cases[i].challenger, cases[i].subject>> \in cleared
      BY <3>1 DEF Inv, CaseInv, Cooldown
    <3>3. cases[i].status = "Open" => <<cases[i].challenger, cases[i].subject>> \notin cleared
      BY <3>1 DEF Inv, CaseInv, Cooldown
    <3>4. cases[i].status = "Open" => cases[i].subject # c.subject
      BY <1>8, <2>2, <3>1 DEF Inv, CaseInv, OneOpen, OpenChallenge
    <3>5. QED
      BY <1>4, <3>1, <3>2, <3>3, <3>4
  <2>3. QED
    BY <2>1, <2>2
<1>14. ClearedOnce'
  <2> SUFFICES ASSUME NEW i \in DOMAIN cases, NEW j \in DOMAIN cases, i # j,
                      cases[i].kind = "Challenge", cases[j].kind = "Challenge",
                      cases[i].subject = cases[j].subject,
                      cases[i].challenger = cases[j].challenger,
                      cases'[i].status = "Human", cases'[j].status = "Human"
               PROVE  FALSE
    BY <1>1, <1>10 DEF ClearedOnce
  <2>1. CASE i # id /\ j # id
    BY <1>1, <2>1 DEF Inv, CaseInv, ClearedOnce
  <2>2. ASSUME NEW k \in DOMAIN cases, k # id, cases[k].kind = "Challenge",
               cases'[k].status = "Human", cases[k].subject = c.subject,
               cases[k].challenger = c.challenger
        PROVE  FALSE
    <3>1. cases'[k] = cases[k]
      BY <1>1, <2>2
    <3>2. <<cases[k].challenger, cases[k].subject>> \in cleared
      BY <2>2, <3>1 DEF Inv, CaseInv, Cooldown
    <3>3. QED
      BY <1>12, <2>2, <3>2
  <2>3. QED
    BY <2>1, <2>2
<1>15. QED
  BY <1>3, <1>5, <1>6, <1>7, <1>11, <1>13, <1>14 DEF CaseInv

(***************************************************************************)
(* Every step keeps the invariant.                                         *)
(***************************************************************************)
LEMMA InitInv == Init => Inv
<1> SUFFICES ASSUME Init PROVE Inv
  OBVIOUS
<1>1. DOMAIN cases = {} /\ next_case_id = 0 /\ 0..(0 - 1) = {}
  BY DEF Init
<1>2. CaseInv
  BY <1>1 DEF CaseInv, CasesTyped, RegistrationsClosed, VerdictsByQuorum, OneOpen,
              Cooldown, ClearedOnce
<1>3. /\ unregistered \in Human
      /\ [unregistered EXCEPT !.status = "Verified"] \in Human
      /\ unregistered.status = "Unverified" /\ unregistered.verified_at = 0
      /\ [unregistered EXCEPT !.status = "Verified"].status = "Verified"
      /\ [unregistered EXCEPT !.status = "Verified"].verified_at = 0
  BY DEF unregistered, Human, HumanStatus
<1>4. \A a \in Addr :
        /\ humans[a] \in Human /\ humans[a].verified_at = 0
        /\ humans[a].status = IF a \in Founders THEN "Verified" ELSE "Unverified"
        /\ account[a] = [verified |-> a \in Founders, verified_at |-> 0]
  BY <1>3 DEF Init, synced
<1>5. StateTyped
  BY <1>3, <1>4 DEF Init, StateTyped, synced
<1>6. CacheInSync
  <2> SUFFICES ASSUME NEW a \in Addr
               PROVE  /\ account[a].verified <=> Emitting(a)
                      /\ account[a].verified_at = 0
    BY <1>4 DEF CacheInSync
  <2>1. account[a] = [verified |-> a \in Founders, verified_at |-> 0]
    BY <1>4
  <2>x. (account[a].verified <=> a \in Founders) /\ account[a].verified_at = 0
    <3>1. CASE a \in Founders
      <4>1. account[a] = [verified |-> TRUE, verified_at |-> 0]
        BY <2>1, <3>1, Zenon
      <4>2. QED
        BY <3>1, <4>1
    <3>2. CASE a \notin Founders
      <4>1. account[a] = [verified |-> FALSE, verified_at |-> 0]
        <5>1. (a \in Founders) = FALSE
          BY <3>2
        <5>2. QED
          BY <2>1, <5>1, Zenon
      <4>2. QED
        BY <3>2, <4>1
    <3>3. QED
      BY <3>1, <3>2
  <2>2. Emitting(a) <=> a \in Founders
    BY <1>4 DEF Emitting
  <2>3. QED
    BY <2>x, <2>2
<1>7. OpenAffects /\ ChallengedHasCase /\ RevokedHasCase
  BY <1>1, <1>4 DEF OpenAffects, ChallengedHasCase, RevokedHasCase
<1>8. QED
  BY <1>2, <1>5, <1>6, <1>7 DEF Inv, People

\* Each field of a Human record can be assigned on its own.
LEMMA HumanRecord ==
  ASSUME NEW h \in Human
  PROVE  /\ \A x \in HumanStatus : [h EXCEPT !.status = x] \in Human
         /\ \A x \in SUBSET Addr : [h EXCEPT !.vouches_in = x] \in Human
         /\ \A x \in Int : [h EXCEPT !.reputation = x] \in Human
         /\ h.status \in HumanStatus /\ h.vouches_in \in SUBSET Addr
         /\ h.reputation \in Int /\ h.verified_at \in Nat
BY DEF Human

\* request_verification preserves the invariant.
LEMMA RequestKeepsInv ==
  ASSUME Inv, NEW a \in Applicants, NEW jury \in Juries, NEW grade \in Grades,
         request_verification(a, jury, grade)
  PROVE  Inv'
<1>0. TypeOK
  BY InvTypeOK
<1>k. PICK k : k = next_case_id
  OBVIOUS
<1>1. /\ a \in Addr
      /\ Appended({k})
      /\ CaseOK(cases'[k])
      /\ cases'[k].subject = a
      /\ cases'[k].kind = "Registration"
      /\ cases'[k].status # "Open"
  BY <1>0, <1>k, RequestCases
<1>2. \A w \in {"Sybil", "Human"} :
        cases'[k].status = w => QuorumFor(k, w)'
  BY <1>0, <1>k, RequestCases DEF QuorumFor
<1>3. /\ humans[a].status \in {"Unverified", "Revoked"}
      /\ edges' = clear_vouch_edges(a)
      /\ humans' = [humans EXCEPT ![a] = pending]
      /\ cleared' = cleared /\ nullifiers' = nullifiers
      /\ account' = account /\ height' = height
  BY DEF request_verification
<1>4. CaseInv'
  <2>1. Opened(k)
    BY <1>1, <1>2 DEF Opened
  <2>2. CaseInv
    BY DEF Inv
  <2>3. QED
    BY <1>1, <1>3, <2>1, <2>2, OpeningKeepsCaseInv
<1>5. pending \in Human /\ pending.status = "Pending" /\ pending.verified_at = 0
  BY DEF pending, unregistered, Human, HumanStatus
<1>6. StateTyped'
  BY <1>1, <1>3, <1>5 DEF Inv, People, StateTyped, clear_vouch_edges
<1>7. /\ \A b \in Addr : b # a => humans'[b] = humans[b]
      /\ humans'[a] = pending
  BY <1>1, <1>3 DEF Inv, People, StateTyped
<1>8. CacheInSync'
  BY <1>1, <1>3, <1>5, <1>7 DEF Inv, People, CacheInSync, Emitting
<1>9. \A id \in DOMAIN cases' : OpenChallenge(id)' => id \in DOMAIN cases /\ OpenChallenge(id)
  BY <1>1 DEF Appended, OpenChallenge
<1>10. \A id \in DOMAIN cases : id \in DOMAIN cases' /\ cases'[id] = cases[id]
  BY <1>1 DEF Appended
<1>11. OpenAffects'
  <2> SUFFICES ASSUME NEW id \in DOMAIN cases', OpenChallenge(id)'
               PROVE  humans'[cases'[id].subject].status
                        \in {"Pending", "Verified", "Challenged"}
    BY DEF OpenAffects
  <2>1. /\ id \in DOMAIN cases /\ OpenChallenge(id) /\ cases'[id] = cases[id]
        /\ cases[id].subject \in Addr
    BY <1>0, <1>9, <1>10 DEF TypeOK, CaseOK
  <2>2. QED
    BY <1>5, <1>7, <2>1 DEF Inv, People, OpenAffects
<1>12. ChallengedHasCase'
  BY <1>5, <1>7, <1>10 DEF Inv, People, ChallengedHasCase, OpenChallenge
<1>13. RevokedHasCase'
  BY <1>5, <1>7, <1>10 DEF Inv, People, RevokedHasCase
<1>14. QED
  BY <1>4, <1>6, <1>8, <1>11, <1>12, <1>13 DEF Inv, People

\* vouch preserves the invariant.
LEMMA VouchKeepsInv ==
  ASSUME Inv, NEW voucher \in Addr, NEW vouchee \in Addr, vouch(voucher, vouchee)
  PROVE  Inv'
<1>1. /\ edges' = edges \cup {<<voucher, vouchee>>}
      /\ humans' = [humans EXCEPT ![vouchee].vouches_in = @ \cup {voucher}]
      /\ cases' = cases /\ next_case_id' = next_case_id
      /\ cleared' = cleared /\ nullifiers' = nullifiers
      /\ account' = account /\ height' = height
  BY DEF vouch
<1>2. CaseInv'
  BY <1>1 DEF Inv, CaseInv, CasesTyped, RegistrationsClosed, VerdictsByQuorum,
              OneOpen, Cooldown, ClearedOnce, OpenChallenge, QuorumFor
<1>3. StateTyped'
  <2>1. [humans[vouchee] EXCEPT !.vouches_in = @ \cup {voucher}] \in Human
    <3>1. humans[vouchee] \in Human
      BY DEF Inv, People, StateTyped
    <3>2. QED
      BY <3>1, HumanRecord
  <2>3. humans' \in [Addr -> Human]
    BY <1>1, <2>1 DEF Inv, People, StateTyped
  <2>2. QED
    BY <1>1, <2>3 DEF Inv, People, StateTyped
<1>4. \A b \in Addr : /\ humans'[b].status = humans[b].status
                     /\ humans'[b].verified_at = humans[b].verified_at
  BY <1>1 DEF Inv, People, StateTyped, Human
<1>5. CacheInSync'
  BY <1>1, <1>4 DEF Inv, People, CacheInSync, Emitting
<1>6. \A id \in DOMAIN cases : cases[id].subject \in Addr
  BY InvTypeOK DEF TypeOK, CaseOK
<1>7. OpenAffects' /\ ChallengedHasCase' /\ RevokedHasCase'
  BY <1>1, <1>4, <1>6 DEF Inv, People, OpenAffects, ChallengedHasCase, RevokedHasCase,
                          OpenChallenge
<1>8. QED
  BY <1>2, <1>3, <1>5, <1>7 DEF Inv, People

\* challenge preserves the invariant.
LEMMA ChallengeKeepsInv ==
  ASSUME Inv, NEW ch \in Challengers, NEW a \in Targets, NEW jury \in Juries,
         challenge(ch, a, jury)
  PROVE  Inv'
<1>0. TypeOK
  BY InvTypeOK
<1>k. PICK k : k = next_case_id
  OBVIOUS
<1>1. /\ a \in Addr
      /\ Appended({k})
      /\ CaseOK(cases'[k])
      /\ cases'[k].subject = a
      /\ cases'[k].challenger = ch
      /\ cases'[k].kind = "Challenge"
      /\ cases'[k].status = "Open"
  BY <1>0, <1>k, ChallengeCases
<1>2. /\ humans[a].status \in {"Pending", "Verified", "Challenged"}
      /\ ~has_open_challenge(cases, a)
      /\ <<ch, a>> \notin cleared
  BY DEF challenge, challengeable
<1>3. /\ humans' = [humans EXCEPT ![a].status = IF @ = "Verified" THEN "Challenged" ELSE @]
      /\ edges' = edges /\ cleared' = cleared /\ nullifiers' = nullifiers
      /\ account' = account /\ height' = height
  BY DEF challenge
<1>4. CaseInv'
  <2>1. Opened(k)
    BY <1>1, <1>2 DEF Opened, OpenChallenge
  <2>2. CaseInv
    BY DEF Inv
  <2>3. QED
    BY <1>1, <1>3, <2>1, <2>2, OpeningKeepsCaseInv
<1>5. StateTyped'
  <2>1. [humans[a] EXCEPT !.status = IF @ = "Verified" THEN "Challenged" ELSE @] \in Human
    <3>1. humans[a] \in Human
      BY <1>1 DEF Inv, People, StateTyped
    <3>2. QED
      BY <1>2, <3>1, HumanRecord DEF HumanStatus
  <2>3. humans' \in [Addr -> Human]
    BY <1>1, <1>3, <2>1 DEF Inv, People, StateTyped
  <2>2. QED
    BY <1>3, <2>3 DEF Inv, People, StateTyped
<1>6. /\ \A b \in Addr : b # a => humans'[b] = humans[b]
      /\ humans'[a].verified_at = humans[a].verified_at
      /\ humans'[a].status = IF humans[a].status = "Verified" THEN "Challenged"
                                                            ELSE humans[a].status
  BY <1>1, <1>3 DEF Inv, People, StateTyped, Human
<1>7. CacheInSync'
  BY <1>1, <1>3, <1>6 DEF Inv, People, CacheInSync, Emitting
<1>8. /\ \A id \in DOMAIN cases : id \in DOMAIN cases' /\ cases'[id] = cases[id]
      /\ \A id \in DOMAIN cases' : id \in DOMAIN cases \/ id = k
      /\ k \in DOMAIN cases'
  BY <1>1 DEF Appended
<1>9. OpenAffects'
  <2> SUFFICES ASSUME NEW id \in DOMAIN cases', OpenChallenge(id)'
               PROVE  humans'[cases'[id].subject].status
                        \in {"Pending", "Verified", "Challenged"}
    BY DEF OpenAffects
  <2>1. CASE id \in DOMAIN cases
    <3>1. cases'[id] = cases[id] /\ cases[id].subject \in Addr
      BY <1>0, <1>8, <2>1 DEF TypeOK, CaseOK
    <3>2. OpenChallenge(id)
      BY <3>1 DEF OpenChallenge
    <3>3. QED
      BY <1>2, <1>6, <2>1, <3>1, <3>2 DEF Inv, People, OpenAffects
  <2>2. CASE id = k
    BY <1>1, <1>2, <1>6, <2>2
  <2>3. QED
    BY <1>8, <2>1, <2>2
<1>10. ChallengedHasCase'
  <2>1. OpenChallenge(k)'
    BY <1>1 DEF OpenChallenge
  <2>2. QED
    BY <1>1, <1>6, <1>8, <2>1 DEF Inv, People, ChallengedHasCase, OpenChallenge
<1>11. RevokedHasCase'
  BY <1>2, <1>6, <1>8 DEF Inv, People, RevokedHasCase
<1>12. QED
  BY <1>4, <1>5, <1>7, <1>9, <1>10, <1>11 DEF Inv, People

\* revoke closes the case it executes: nobody else is affected but in reputation.
LEMMA RevokeFacts ==
  ASSUME StateTyped, NEW a \in Addr, revoke(a)
  PROVE  /\ humans' \in [Addr -> Human]
         /\ humans'[a].status = "Revoked" /\ humans'[a].verified_at = 0
         /\ humans'[a].assurance = humans[a].assurance
         /\ \A b \in Addr : b # a =>
              /\ humans'[b].status = humans[b].status
              /\ humans'[b].verified_at = humans[b].verified_at
              /\ humans'[b].vouches_in = humans[b].vouches_in
              /\ humans'[b].assurance = humans[b].assurance
         /\ edges' = clear_vouch_edges(a)
         /\ edges' \in SUBSET (Addr \X Addr)
         /\ account' \in [Addr -> [verified : BOOLEAN, verified_at : Nat]]
         /\ account'[a].verified = FALSE /\ account'[a].verified_at = 0
         /\ \A b \in Addr : b # a => account'[b] = account[b]
<1> DEFINE r == [humans[a] EXCEPT !.status = "Revoked", !.verified_at = 0,
                                  !.vouches_in = {}]
           s(b) == [humans[b] EXCEPT !.reputation = @ - SYBIL_SLASH]
<1>1. /\ humans' = [b \in Addr |-> IF b = a THEN r
                     ELSE IF b \in humans[a].vouches_in THEN s(b) ELSE humans[b]]
      /\ edges' = clear_vouch_edges(a)
      /\ account' = [account EXCEPT ![a] = [verified |-> FALSE, verified_at |-> 0]]
  BY DEF revoke, synced
<1>2. /\ r \in Human /\ r.status = "Revoked" /\ r.verified_at = 0
      /\ r.assurance = humans[a].assurance
  <2>1. humans[a] \in Human
    BY DEF StateTyped
  <2>2. QED
    BY <2>1 DEF Human, HumanStatus
<1>3. ASSUME NEW b \in Addr
      PROVE  /\ s(b) \in Human
             /\ s(b).status = humans[b].status
             /\ s(b).verified_at = humans[b].verified_at
             /\ s(b).vouches_in = humans[b].vouches_in
             /\ s(b).assurance = humans[b].assurance
  <2>1. humans[b] \in Human /\ SYBIL_SLASH \in Int
    BY HumanityConstants DEF StateTyped
  <2>2. humans[b].reputation - SYBIL_SLASH \in Int
    BY <2>1, HumanRecord
  <2>3. s(b) \in Human
    BY <2>1, <2>2, HumanRecord
  <2>4. QED
    BY <2>1, <2>3 DEF Human
<1> HIDE DEF r, s
<1>4. humans' \in [Addr -> Human]
  BY <1>1, <1>2, <1>3 DEF StateTyped
<1>5. humans'[a] = r
  BY <1>1
<1>6. \A b \in Addr : b # a =>
        /\ humans'[b].status = humans[b].status
        /\ humans'[b].verified_at = humans[b].verified_at
        /\ humans'[b].vouches_in = humans[b].vouches_in
        /\ humans'[b].assurance = humans[b].assurance
  BY <1>1, <1>3
<1>7. /\ account' \in [Addr -> [verified : BOOLEAN, verified_at : Nat]]
      /\ account'[a] = [verified |-> FALSE, verified_at |-> 0]
      /\ \A b \in Addr : b # a => account'[b] = account[b]
  BY <1>1 DEF StateTyped
<1>8. edges' \in SUBSET (Addr \X Addr)
  BY <1>1 DEF clear_vouch_edges, StateTyped
<1>9. account'[a].verified = FALSE /\ account'[a].verified_at = 0
  BY <1>7
<1>10. QED
  BY <1>1, <1>2, <1>4, <1>5, <1>6, <1>7, <1>8, <1>9

\* A challenge that fails or escalates gives a Challenged subject its status back.
LEMMA UpholdFacts ==
  ASSUME StateTyped, CacheInSync, NEW a \in Addr, NEW slashed, uphold(a, slashed)
  PROVE  /\ humans' \in [Addr -> Human]
         /\ \A b \in Addr :
              /\ humans'[b].verified_at = humans[b].verified_at
              /\ humans'[b].vouches_in = humans[b].vouches_in
              /\ humans'[b].assurance = humans[b].assurance
              /\ humans'[b].status =
                   IF b = a /\ humans[a].status = "Challenged" THEN "Verified"
                                                              ELSE humans[b].status
         /\ edges' = edges
         /\ account' = account
<1> DEFINE st(b)  == IF b = a /\ humans[b].status = "Challenged" THEN "Verified"
                                                               ELSE humans[b].status
           rep(b) == IF b \in slashed THEN humans[b].reputation - FALSE_CHALLENGE_SLASH
                                      ELSE humans[b].reputation
           h(b)   == [humans[b] EXCEPT !.status = st(b), !.reputation = rep(b)]
<1>1. /\ humans' = [b \in Addr |-> h(b)]
      /\ edges' = edges
      /\ account' = IF humans[a].status = "Challenged"
                      THEN [account EXCEPT ![a] =
                              [verified |-> TRUE, verified_at |-> humans[a].verified_at]]
                      ELSE account
  BY DEF uphold, synced
<1>2. ASSUME NEW b \in Addr
      PROVE  /\ h(b) \in Human
             /\ h(b).status = st(b)
             /\ h(b).verified_at = humans[b].verified_at
             /\ h(b).vouches_in = humans[b].vouches_in
             /\ h(b).assurance = humans[b].assurance
  <2>1. humans[b] \in Human /\ FALSE_CHALLENGE_SLASH \in Int
    BY HumanityConstants DEF StateTyped
  <2>x. humans[b].reputation \in Int /\ humans[b].status \in HumanStatus
    BY <2>1, HumanRecord
  <2>2. rep(b) \in Int /\ st(b) \in HumanStatus
    BY <2>1, <2>x DEF HumanStatus
  <2> HIDE DEF rep, st
  <2>3. QED
    BY <2>1, <2>2 DEF Human
<1> HIDE DEF h
<1>3. humans' \in [Addr -> Human]
  BY <1>1, <1>2
<1>4. account' = account
  <2>1. CASE humans[a].status = "Challenged"
    <3>1. /\ account \in [Addr -> [verified : BOOLEAN, verified_at : Nat]]
          /\ account[a].verified /\ account[a].verified_at = humans[a].verified_at
      BY <2>1 DEF StateTyped, CacheInSync, Emitting
    <3>2. account[a].verified = TRUE
      BY <3>1
    <3>3. account[a] = [verified |-> TRUE, verified_at |-> humans[a].verified_at]
      BY <3>1, <3>2
    <3>4. QED
      BY <1>1, <2>1, <3>1, <3>3
  <2>2. QED
    BY <1>1, <2>1
<1>5. QED
  BY <1>1, <1>2, <1>3, <1>4

\* What a verdict does to the people: revoke on Sybil, uphold when the challenge
\* fails or escalates, nothing while the case stays open.
LEMMA VerdictOutcome ==
  ASSUME Inv, NEW id \in DOMAIN cases, NEW juror \in Jurors, NEW v \in Ballots,
         submit_verdict(id, juror, v)
  PROVE  /\ nullifiers' = nullifiers /\ height' = height
         /\ cleared' \in SUBSET ((Addr \cup {HUB}) \X Addr)
         /\ cases[id].subject \in Addr
         /\ \/ cases'[id].status = "Sybil" /\ revoke(cases[id].subject)
            \/ /\ cases'[id].status \in {"Human", "Escalated"}
               /\ \E slashed : uphold(cases[id].subject, slashed)
            \/ /\ cases'[id].status \notin {"Sybil", "Human", "Escalated"}
               /\ humans' = humans /\ account' = account /\ edges' = edges
<1> DEFINE c == cases[id]
           a == c.subject
           d == apply_tally(c, [j \in DOMAIN c.votes \cup {juror} |->
                           IF j = juror THEN v ELSE c.votes[j]])
<1>0. TypeOK /\ StateTyped /\ c.kind = "Challenge"
  BY InvTypeOK, VerdictKeepsCaseInv DEF Inv, People
<1>1. a \in Addr /\ c.challenger \in Addr \cup {HUB}
  BY <1>0 DEF TypeOK, CaseOK
<1>2. cases' = [cases EXCEPT ![id] = d] /\ nullifiers' = nullifiers /\ height' = height
  BY DEF submit_verdict
<1>3. \/ d.status = "Sybil" /\ revoke(a)
      \/ d.status = "Human" /\ uphold(a, {c.challenger})
         /\ cleared' = cleared \cup {<<c.challenger, a>>}
      \/ d.status = "Escalated" /\ uphold(a, {}) /\ cleared' = cleared
      \/ /\ d.status # "Sybil"
         /\ ~(d.status \in {"Human", "Escalated"} /\ c.kind = "Challenge")
         /\ humans' = humans /\ account' = account /\ edges' = edges
         /\ cleared' = cleared
  BY DEF submit_verdict
<1>4. cases'[id] = d
  BY <1>2
<1>5. revoke(a) => cleared' = cleared
  BY DEF revoke
<1> HIDE DEF d
<1>6. cleared' \in SUBSET ((Addr \cup {HUB}) \X Addr)
  BY <1>0, <1>1, <1>3, <1>5 DEF StateTyped
<1>7. \/ cases'[id].status = "Sybil" /\ revoke(a)
      \/ cases'[id].status \in {"Human", "Escalated"} /\ \E slashed : uphold(a, slashed)
      \/ /\ cases'[id].status \notin {"Sybil", "Human", "Escalated"}
         /\ humans' = humans /\ account' = account /\ edges' = edges
  <2> HIDE DEF a, c
  <2>1. QED
    BY <1>0, <1>3, <1>4
<1>8. QED
  BY <1>1, <1>2, <1>6, <1>7

\* submit_verdict preserves the invariant, along each of its four outcomes.
LEMMA VerdictKeepsInv ==
  ASSUME Inv, NEW id \in DOMAIN cases, NEW juror \in Jurors, NEW v \in Ballots,
         submit_verdict(id, juror, v)
  PROVE  Inv'
<1> DEFINE a == cases[id].subject
<1>0. TypeOK /\ StateTyped /\ CacheInSync
  BY InvTypeOK DEF Inv, People
<1>1. /\ cases[id].status = "Open"
      /\ DOMAIN cases' = DOMAIN cases
      /\ \A i \in DOMAIN cases : i # id => cases'[i] = cases[i]
      /\ cases'[id].subject = a
      /\ cases'[id].kind = cases[id].kind
  BY <1>0, VerdictCases
<1>2. CaseInv' /\ cases[id].kind = "Challenge"
  BY VerdictKeepsCaseInv
<1>3. a \in Addr /\ cases[id].challenger \in Addr \cup {HUB}
  BY <1>0 DEF TypeOK, CaseOK
<1>4. /\ nullifiers' = nullifiers /\ height' = height
      /\ cleared' \in SUBSET ((Addr \cup {HUB}) \X Addr)
      /\ \/ cases'[id].status = "Sybil" /\ revoke(a)
         \/ /\ cases'[id].status \in {"Human", "Escalated"}
            /\ \E slashed : uphold(a, slashed)
         \/ /\ cases'[id].status \notin {"Sybil", "Human", "Escalated"}
            /\ humans' = humans /\ account' = account /\ edges' = edges
  BY VerdictOutcome
<1>5. OpenChallenge(id) /\ \A i \in DOMAIN cases : i # id /\ OpenChallenge(i) =>
                               cases[i].subject # a
  BY <1>1, <1>2 DEF OpenChallenge, Inv, CaseInv, OneOpen
<1>6. \A i \in DOMAIN cases : i # id => (OpenChallenge(i)' <=> OpenChallenge(i))
  BY <1>1 DEF OpenChallenge
<1>s. \A i \in DOMAIN cases : cases'[i].subject = cases[i].subject /\ cases[i].subject \in Addr
  BY <1>0, <1>1 DEF TypeOK, CaseOK
<1>r. \A i \in DOMAIN cases :
        cases[i].status = "Sybil" => cases'[i] = cases[i]
  BY <1>1
<1> HIDE DEF a
<1>7. CASE cases'[id].status = "Sybil" /\ revoke(a)
  <2>1. /\ humans' \in [Addr -> Human]
        /\ humans'[a].status = "Revoked" /\ humans'[a].verified_at = 0
        /\ \A b \in Addr : b # a =>
              /\ humans'[b].status = humans[b].status
              /\ humans'[b].verified_at = humans[b].verified_at
        /\ edges' \in SUBSET (Addr \X Addr)
        /\ account' \in [Addr -> [verified : BOOLEAN, verified_at : Nat]]
        /\ account'[a].verified = FALSE /\ account'[a].verified_at = 0
        /\ \A b \in Addr : b # a => account'[b] = account[b]
    BY <1>0, <1>3, <1>7, RevokeFacts
  <2>2. StateTyped'
    BY <1>0, <1>4, <2>1 DEF StateTyped
  <2>3. CacheInSync'
    <3> SUFFICES ASSUME NEW b \in Addr
                 PROVE  /\ account'[b].verified <=> Emitting(b)'
                        /\ account'[b].verified_at = humans'[b].verified_at
                        /\ ~Emitting(b)' => humans'[b].verified_at = 0
      BY DEF CacheInSync
    <3>1. CASE b = a
      BY <2>1, <3>1 DEF Emitting
    <3>2. CASE b # a
      BY <1>0, <2>1, <3>2 DEF CacheInSync, Emitting
    <3>3. QED
      BY <3>1, <3>2
  <2>4. ~OpenChallenge(id)'
    BY <1>7 DEF OpenChallenge
  <2>5. OpenAffects'
    <3> SUFFICES ASSUME NEW i \in DOMAIN cases, OpenChallenge(i)'
                 PROVE  humans'[cases[i].subject].status
                          \in {"Pending", "Verified", "Challenged"}
      BY <1>1, <1>s DEF OpenAffects
    <3>1. i # id /\ OpenChallenge(i) /\ cases[i].subject # a
      BY <1>5, <1>6, <2>4
    <3>2. QED
      BY <1>s, <2>1, <3>1 DEF Inv, People, OpenAffects
  <2>6. ChallengedHasCase'
    <3> SUFFICES ASSUME NEW b \in Addr, humans'[b].status = "Challenged"
                 PROVE  \E i \in DOMAIN cases : OpenChallenge(i)' /\ cases'[i].subject = b
      BY <1>1 DEF ChallengedHasCase
    <3>1. b # a /\ humans[b].status = "Challenged"
      BY <2>1
    <3>2. PICK i \in DOMAIN cases : OpenChallenge(i) /\ cases[i].subject = b
      BY <3>1 DEF Inv, People, ChallengedHasCase
    <3>3. i # id
      BY <3>1, <3>2 DEF a
    <3>4. QED
      BY <1>6, <1>s, <3>2, <3>3
  <2>7. RevokedHasCase'
    <3> SUFFICES ASSUME NEW b \in Addr, humans'[b].status = "Revoked"
                 PROVE  \E i \in DOMAIN cases : /\ cases'[i].kind = "Challenge"
                                                /\ cases'[i].status = "Sybil"
                                                /\ cases'[i].subject = b
      BY <1>1 DEF RevokedHasCase
    <3>1. CASE b = a
      BY <1>1, <1>2, <1>7, <3>1
    <3>2. CASE b # a
      BY <1>r, <2>1, <3>2 DEF Inv, People, RevokedHasCase
    <3>3. QED
      BY <3>1, <3>2
  <2>8. QED
    BY <1>2, <2>2, <2>3, <2>5, <2>6, <2>7 DEF Inv, People
<1>8. CASE cases'[id].status \in {"Human", "Escalated"} /\ \E slashed : uphold(a, slashed)
  <2>0. PICK slashed : uphold(a, slashed)
    BY <1>8
  <2>1. /\ humans' \in [Addr -> Human]
        /\ \A b \in Addr :
              /\ humans'[b].verified_at = humans[b].verified_at
              /\ humans'[b].status =
                   IF b = a /\ humans[a].status = "Challenged" THEN "Verified"
                                                              ELSE humans[b].status
        /\ edges' = edges
        /\ account' = account
    BY <1>0, <1>3, <2>0, UpholdFacts
  <2>2. StateTyped'
    BY <1>0, <1>4, <2>1 DEF StateTyped
  <2>3. CacheInSync'
    BY <1>0, <2>1 DEF CacheInSync, Emitting
  <2>4. ~OpenChallenge(id)'
    BY <1>8 DEF OpenChallenge
  <2>5. OpenAffects'
    <3> SUFFICES ASSUME NEW i \in DOMAIN cases, OpenChallenge(i)'
                 PROVE  humans'[cases[i].subject].status
                          \in {"Pending", "Verified", "Challenged"}
      BY <1>1, <1>s DEF OpenAffects
    <3>1. i # id /\ OpenChallenge(i) /\ cases[i].subject # a
      BY <1>5, <1>6, <2>4
    <3>2. QED
      BY <1>s, <2>1, <3>1 DEF Inv, People, OpenAffects
  <2>6. ChallengedHasCase'
    <3> SUFFICES ASSUME NEW b \in Addr, humans'[b].status = "Challenged"
                 PROVE  \E i \in DOMAIN cases : OpenChallenge(i)' /\ cases'[i].subject = b
      BY <1>1 DEF ChallengedHasCase
    <3>1. b # a /\ humans[b].status = "Challenged"
      BY <2>1
    <3>2. PICK i \in DOMAIN cases : OpenChallenge(i) /\ cases[i].subject = b
      BY <3>1 DEF Inv, People, ChallengedHasCase
    <3>3. i # id
      BY <3>1, <3>2 DEF a
    <3>4. QED
      BY <1>6, <1>s, <3>2, <3>3
  <2>7. RevokedHasCase'
    <3>1. \A b \in Addr : humans'[b].status = "Revoked" => humans[b].status = "Revoked"
      BY <2>1
    <3>2. QED
      BY <1>1, <1>r, <3>1 DEF Inv, People, RevokedHasCase
  <2>8. QED
    BY <1>2, <2>2, <2>3, <2>5, <2>6, <2>7 DEF Inv, People
<1>9. CASE /\ cases'[id].status \notin {"Sybil", "Human", "Escalated"}
           /\ humans' = humans /\ account' = account /\ edges' = edges
  <2>1. StateTyped' /\ CacheInSync'
    BY <1>0, <1>4, <1>9 DEF StateTyped, CacheInSync, Emitting
  <2>2. OpenChallenge(id)'
    <3>1. cases'[id].status \in {"Open", "Escalated", "Human", "Sybil"}
      BY <1>1, <1>2 DEF CaseInv, CasesTyped, CaseOK
    <3>2. QED
      BY <1>1, <1>2, <1>9, <3>1 DEF OpenChallenge
  <2>3. \A i \in DOMAIN cases : OpenChallenge(i)' <=> OpenChallenge(i)
    BY <1>5, <1>6, <2>2
  <2>4. OpenAffects' /\ ChallengedHasCase'
    BY <1>1, <1>9, <1>s, <2>3 DEF Inv, People, OpenAffects, ChallengedHasCase
  <2>5. RevokedHasCase'
    BY <1>1, <1>9, <1>r DEF Inv, People, RevokedHasCase
  <2>6. QED
    BY <1>2, <2>1, <2>4, <2>5 DEF Inv, People
<1>10. QED
  BY <1>4, <1>7, <1>8, <1>9

\* Steps that leave the cases and the cooldown alone.
LEMMA SameCases ==
  ASSUME CaseInv, UNCHANGED <<cases, next_case_id, cleared>>
  PROVE  CaseInv'
BY DEF CaseInv, CasesTyped, RegistrationsClosed, VerdictsByQuorum, OneOpen, Cooldown,
       ClearedOnce, OpenChallenge, QuorumFor

\* submit_zk_passport_proof preserves the invariant.
LEMMA PassportKeepsInv ==
  ASSUME Inv, NEW a \in Addr, NEW n \in Nullifiers, submit_zk_passport_proof(a, n)
  PROVE  Inv'
<1>0. TypeOK /\ StateTyped /\ CacheInSync
  BY InvTypeOK DEF Inv, People
<1>1. /\ humans[a].status # "Revoked"
      /\ nullifiers' = nullifiers \cup {n}
      /\ cases' = cases /\ next_case_id' = next_case_id /\ edges' = edges
      /\ cleared' = cleared /\ height' = height
  BY DEF submit_zk_passport_proof
<1>2. CaseInv'
  BY <1>1, SameCases DEF Inv
<1>3. \A id \in DOMAIN cases : cases[id].subject \in Addr
  BY <1>0 DEF TypeOK, CaseOK
<1>4. humans[a] \in Human
  BY <1>0 DEF StateTyped
<1>5. CASE humans[a].status = "Verified"
  <2> DEFINE h == [humans[a] EXCEPT !.assurance = "Dual"]
  <2>1. humans' = [humans EXCEPT ![a] = h] /\ account' = account
    BY <1>5 DEF submit_zk_passport_proof
  <2>2. /\ h \in Human /\ h.status = humans[a].status
        /\ h.verified_at = humans[a].verified_at
    BY <1>4 DEF Human
  <2> HIDE DEF h
  <2>3. \A b \in Addr : /\ humans'[b].status = humans[b].status
                       /\ humans'[b].verified_at = humans[b].verified_at
    BY <1>0, <2>1, <2>2 DEF StateTyped
  <2>4. StateTyped'
    BY <1>0, <1>1, <2>1, <2>2 DEF StateTyped
  <2>5. CacheInSync'
    BY <1>0, <2>1, <2>3 DEF CacheInSync, Emitting
  <2>6. OpenAffects' /\ ChallengedHasCase' /\ RevokedHasCase'
    BY <1>1, <1>3, <2>3 DEF Inv, People, OpenAffects, ChallengedHasCase, RevokedHasCase,
                            OpenChallenge
  <2>7. QED
    BY <1>2, <2>4, <2>5, <2>6 DEF Inv, People
<1>6. CASE humans[a].status # "Verified"
  <2> DEFINE h == [humans[a] EXCEPT !.status = "Verified", !.verified_at = height,
                                    !.assurance = "Enh"]
             e == [verified |-> TRUE, verified_at |-> height]
  <2>1. humans' = [humans EXCEPT ![a] = h] /\ account' = [account EXCEPT ![a] = e]
    BY <1>6 DEF submit_zk_passport_proof, synced
  <2>2. /\ h \in Human /\ h.status = "Verified" /\ h.verified_at = height
    BY <1>0, <1>4 DEF Human, HumanStatus, StateTyped
  <2>3. e \in [verified : BOOLEAN, verified_at : Nat]
        /\ e.verified = TRUE /\ e.verified_at = height
    BY <1>0 DEF StateTyped
  <2> HIDE DEF h, e
  <2>4. /\ humans'[a] = h /\ account'[a] = e
        /\ \A b \in Addr : b # a => humans'[b] = humans[b] /\ account'[b] = account[b]
    BY <1>0, <2>1 DEF StateTyped
  <2>5. StateTyped'
    BY <1>0, <1>1, <2>1, <2>2, <2>3 DEF StateTyped
  <2>6. CacheInSync'
    <3> SUFFICES ASSUME NEW b \in Addr
                 PROVE  /\ account'[b].verified <=> Emitting(b)'
                        /\ account'[b].verified_at = humans'[b].verified_at
                        /\ ~Emitting(b)' => humans'[b].verified_at = 0
      BY DEF CacheInSync
    <3>1. CASE b = a
      BY <2>2, <2>3, <2>4, <3>1 DEF Emitting
    <3>2. CASE b # a
      BY <1>0, <2>4, <3>2 DEF CacheInSync, Emitting
    <3>3. QED
      BY <3>1, <3>2
  <2>7. OpenAffects' /\ ChallengedHasCase' /\ RevokedHasCase'
    BY <1>1, <1>3, <2>2, <2>4 DEF Inv, People, OpenAffects, ChallengedHasCase,
                                  RevokedHasCase, OpenChallenge
  <2>8. QED
    BY <1>2, <2>5, <2>6, <2>7 DEF Inv, People
<1>7. QED
  BY <1>5, <1>6

\* What an accepted passport proof does to the people: its subject is Verified, with
\* an assurance above Std, and keeps its vouches.
LEMMA PassportPeople ==
  ASSUME StateTyped, NEW a \in Addr, NEW n \in Nullifiers,
         submit_zk_passport_proof(a, n)
  PROVE  /\ humans'[a].status = "Verified"
         /\ humans'[a].assurance # "Std"
         /\ humans'[a].vouches_in = humans[a].vouches_in
         /\ \A b \in Addr : b # a => humans'[b] = humans[b]
         /\ UNCHANGED <<cases, edges, height>>
<1>1. humans \in [Addr -> Human] /\ humans[a] \in Human
  BY DEF StateTyped
<1>2. /\ UNCHANGED <<cases, edges, height>>
      /\ \/ /\ humans[a].status = "Verified"
            /\ humans' = [humans EXCEPT ![a].assurance = "Dual"]
         \/ humans' = [humans EXCEPT ![a].status = "Verified",
                                     ![a].verified_at = height,
                                     ![a].assurance = "Enh"]
  BY DEF submit_zk_passport_proof
<1>3. \A b \in Addr : b # a => humans'[b] = humans[b]
  BY <1>1, <1>2
<1>4. CASE /\ humans[a].status = "Verified"
           /\ humans' = [humans EXCEPT ![a].assurance = "Dual"]
  <2>1. humans'[a] = [humans[a] EXCEPT !.assurance = "Dual"]
    BY <1>1, <1>4
  <2>2. QED
    BY <1>1, <1>2, <1>3, <1>4, <2>1 DEF Human
<1>5. CASE humans' = [humans EXCEPT ![a].status = "Verified",
                                    ![a].verified_at = height,
                                    ![a].assurance = "Enh"]
  <2>1. humans'[a] = [humans[a] EXCEPT !.status = "Verified", !.verified_at = height,
                                       !.assurance = "Enh"]
    BY <1>1, <1>5
  <2>2. QED
    BY <1>1, <1>2, <1>3, <2>1 DEF Human
<1>6. QED
  BY <1>2, <1>4, <1>5

\* What a block's end does to the people: some Pending ones become Verified.
LEMMA EndBlockPeople ==
  ASSUME StateTyped, NEW flagged \in SUBSET (Pending \cap Suspects),
         NEW juries \in [flagged -> Juries], EndBlock(flagged, juries)
  PROVE  \E done \in SUBSET Pending :
         /\ done = finalized(cases')
         /\ humans' = [a \in Addr |->
               IF a \in done THEN [humans[a] EXCEPT !.status = "Verified",
                                                    !.verified_at = height]
                             ELSE humans[a]]
         /\ account' = [a \in Addr |->
               IF a \in done THEN [verified |-> TRUE, verified_at |-> height]
                             ELSE account[a]]
         /\ height' = height + 1
         /\ UNCHANGED <<edges, cleared, nullifiers>>
<1>1. \A cs : finalized(cs) \subseteq Pending
  BY DEF finalized
<1> DEFINE done == finalized(cases')
<1>2. /\ humans' = [a \in Addr |->
               IF a \in done THEN [humans[a] EXCEPT !.status = "Verified",
                                                    !.verified_at = height]
                             ELSE humans[a]]
      /\ account' = [a \in Addr |->
               IF a \in done THEN [verified |-> TRUE, verified_at |-> height]
                             ELSE account[a]]
      /\ height' = height + 1
      /\ UNCHANGED <<edges, cleared, nullifiers>>
  BY DEF EndBlock, synced
<1>3. QED
  BY <1>1, <1>2

\* The sweeps at the end of a block preserve the invariant.
LEMMA EndBlockKeepsInv ==
  ASSUME Inv, NEW flagged \in SUBSET (Pending \cap Suspects),
         NEW juries \in [flagged -> Juries], EndBlock(flagged, juries)
  PROVE  Inv'
<1>0. TypeOK /\ StateTyped /\ CacheInSync
  BY InvTypeOK DEF Inv, People
<1>1. PICK done \in SUBSET Pending :
         /\ humans' = [a \in Addr |->
               IF a \in done THEN [humans[a] EXCEPT !.status = "Verified",
                                                    !.verified_at = height]
                             ELSE humans[a]]
         /\ account' = [a \in Addr |->
               IF a \in done THEN [verified |-> TRUE, verified_at |-> height]
                             ELSE account[a]]
         /\ height' = height + 1
         /\ UNCHANGED <<edges, cleared, nullifiers>>
  BY <1>0, EndBlockPeople
<1>2. PICK new :
         /\ Appended(new)
         /\ \A id \in new :
              /\ CaseOK(cases'[id])
              /\ cases'[id].subject \in scanned(flagged)
              /\ cases'[id].challenger = HUB
              /\ cases'[id].kind = "Challenge"
              /\ cases'[id].status = "Open"
         /\ \A i, j \in new : cases'[i].subject = cases'[j].subject => i = j
  BY <1>0, EndBlockCases
<1>3. \A a \in scanned(flagged) :
        a \in Pending /\ ~has_open_challenge(cases, a) /\ <<HUB, a>> \notin cleared
  BY DEF scanned, challengeable
<1>4. CaseInv'
  <2>1. \A id \in new : Opened(id)
    BY <1>2, <1>3 DEF Opened, OpenChallenge
  <2>2. CaseInv
    BY DEF Inv
  <2>3. QED
    BY <1>1, <1>2, <2>1, <2>2, OpeningKeepsCaseInv
<1>5. ASSUME NEW a \in Addr
      PROVE  /\ [humans[a] EXCEPT !.status = "Verified", !.verified_at = height] \in Human
             /\ [humans[a] EXCEPT !.status = "Verified",
                                  !.verified_at = height].status = "Verified"
             /\ [humans[a] EXCEPT !.status = "Verified",
                                  !.verified_at = height].verified_at = height
  <2>1. humans[a] \in Human /\ height \in Nat
    BY <1>0 DEF StateTyped
  <2>2. QED
    BY <2>1 DEF Human, HumanStatus
<1>6. \A a \in done : a \in Addr /\ humans[a].status = "Pending"
  BY DEF Pending
<1>7. StateTyped'
  <2>1. humans' \in [Addr -> Human]
    BY <1>0, <1>1, <1>5 DEF StateTyped
  <2>2. account' \in [Addr -> [verified : BOOLEAN, verified_at : Nat]]
    BY <1>0, <1>1 DEF StateTyped
  <2>3. /\ edges' = edges /\ cleared' = cleared /\ nullifiers' = nullifiers
        /\ height' \in Nat
    <3>1. height \in Nat
      BY <1>0 DEF StateTyped
    <3>2. height' = height + 1 /\ UNCHANGED <<edges, cleared, nullifiers>>
      BY <1>1
    <3>3. QED
      BY <3>1, <3>2
  <2>4. QED
    BY <1>0, <2>1, <2>2, <2>3 DEF StateTyped
<1>8. \A a \in done : /\ humans'[a].status = "Verified"
                     /\ humans'[a].verified_at = height
                     /\ account'[a].verified = TRUE /\ account'[a].verified_at = height
  BY <1>1, <1>5, <1>6
<1>9. \A a \in Addr : a \notin done => humans'[a] = humans[a] /\ account'[a] = account[a]
  BY <1>1
<1>10. CacheInSync'
  <2> SUFFICES ASSUME NEW b \in Addr
               PROVE  /\ account'[b].verified <=> Emitting(b)'
                      /\ account'[b].verified_at = humans'[b].verified_at
                      /\ ~Emitting(b)' => humans'[b].verified_at = 0
    BY DEF CacheInSync
  <2>1. CASE b \in done
    BY <1>8, <2>1 DEF Emitting
  <2>2. CASE b \notin done
    BY <1>0, <1>9, <2>2 DEF CacheInSync, Emitting
  <2>3. QED
    BY <2>1, <2>2
<1>11. /\ \A id \in DOMAIN cases : id \in DOMAIN cases' /\ cases'[id] = cases[id]
       /\ \A id \in DOMAIN cases' : id \in DOMAIN cases \/ id \in new
  BY <1>2 DEF Appended
<1>12. OpenAffects'
  <2> SUFFICES ASSUME NEW id \in DOMAIN cases', OpenChallenge(id)'
               PROVE  humans'[cases'[id].subject].status
                        \in {"Pending", "Verified", "Challenged"}
    BY DEF OpenAffects
  <2>1. cases'[id].subject \in Addr
    BY <1>4 DEF CaseInv, CasesTyped, CaseOK
  <2>2. humans[cases'[id].subject].status \in {"Pending", "Verified", "Challenged"}
    <3>1. CASE id \in DOMAIN cases
      BY <1>11, <3>1 DEF Inv, People, OpenAffects, OpenChallenge
    <3>2. CASE id \in new
      BY <1>2, <1>3, <3>2 DEF Pending
    <3>3. QED
      BY <1>11, <3>1, <3>2
  <2>3. QED
    BY <1>8, <1>9, <2>1, <2>2
<1>13. ChallengedHasCase'
  BY <1>8, <1>9, <1>11 DEF Inv, People, ChallengedHasCase, OpenChallenge
<1>14. RevokedHasCase'
  BY <1>8, <1>9, <1>11 DEF Inv, People, RevokedHasCase
<1>15. QED
  BY <1>4, <1>7, <1>10, <1>12, <1>13, <1>14 DEF Inv, People

\* Every step preserves the invariant.
LEMMA NextKeepsInv == Inv /\ [Next]_vars => Inv'
<1> SUFFICES ASSUME Inv, [Next]_vars PROVE Inv'
  OBVIOUS
<1>1. ASSUME NEW a \in Applicants, NEW jury \in Juries, NEW grade \in Grades,
             request_verification(a, jury, grade)
      PROVE  Inv'
  BY <1>1, RequestKeepsInv
<1>2. ASSUME NEW a \in Addr, NEW b \in Addr, vouch(a, b)
      PROVE  Inv'
  BY <1>2, VouchKeepsInv
<1>3. ASSUME NEW c \in Challengers, NEW a \in Targets, NEW jury \in Juries,
             challenge(c, a, jury)
      PROVE  Inv'
  BY <1>3, ChallengeKeepsInv
<1>4. ASSUME NEW id \in DOMAIN cases, NEW juror \in Jurors, NEW v \in Ballots,
             submit_verdict(id, juror, v)
      PROVE  Inv'
  BY <1>4, VerdictKeepsInv
<1>5. ASSUME NEW a \in Addr, NEW n \in Nullifiers, submit_zk_passport_proof(a, n)
      PROVE  Inv'
  BY <1>5, PassportKeepsInv
<1>6. ASSUME NEW flagged \in SUBSET (Pending \cap Suspects),
             NEW juries \in [flagged -> Juries], EndBlock(flagged, juries)
      PROVE  Inv'
  BY <1>6, EndBlockKeepsInv
<1>7. CASE UNCHANGED vars
  <2>1. CaseInv'
    BY <1>7, SameCases DEF vars, Inv
  <2>2. People'
    BY <1>7 DEF vars, Inv, People, StateTyped, CacheInSync, Emitting, OpenAffects,
                ChallengedHasCase, RevokedHasCase, OpenChallenge
  <2>3. QED
    BY <2>1, <2>2 DEF Inv
<1>8. QED
  BY <1>1, <1>2, <1>3, <1>4, <1>5, <1>6, <1>7 DEF Next

(***************************************************************************)
(* Vouching.  VouchersAccountable is inductive beside Inv.                 *)
(***************************************************************************)
\* Steps that add no edge and keep the records of those still vouched for.
LEMMA FewerEdges ==
  ASSUME StateTyped, VouchersAccountable, edges' \subseteq edges,
         \A e \in edges' : humans'[e[2]].vouches_in = humans[e[2]].vouches_in
  PROVE  VouchersAccountable'
<1>1. \A e \in edges' : e[1] \in humans'[e[2]].vouches_in
  BY DEF VouchersAccountable
<1>2. ASSUME NEW a \in Addr
      PROVE  Cardinality(vouches_out(a)') <= VOUCH_CAPACITY
  <2>1. vouches_out(a)' \subseteq vouches_out(a) /\ vouches_out(a) \subseteq Addr
    BY DEF vouches_out
  <2>2. /\ IsFiniteSet(vouches_out(a))
        /\ Cardinality(vouches_out(a)') <= Cardinality(vouches_out(a))
    BY <2>1, HumanityConstants, FS_Subset
  <2>3. IsFiniteSet(vouches_out(a)')
    BY <2>1, <2>2, FS_Subset
  <2>4. /\ Cardinality(vouches_out(a)) \in Nat /\ Cardinality(vouches_out(a)') \in Nat
        /\ VOUCH_CAPACITY \in Nat /\ Cardinality(vouches_out(a)) <= VOUCH_CAPACITY
    BY <2>2, <2>3, HumanityConstants, FS_CardinalityType DEF VouchersAccountable
  <2>5. QED
    BY <2>2, <2>4
<1>3. QED
  BY <1>1, <1>2 DEF VouchersAccountable

\* A vouch spends one unit of the voucher's capacity.
LEMMA VouchKeepsVouchers ==
  ASSUME StateTyped, VouchersAccountable,
         NEW a \in Addr, NEW b \in Addr, vouch(a, b)
  PROVE  VouchersAccountable'
<1>1. /\ edges' = edges \cup {<<a, b>>} /\ <<a, b>> \notin edges
      /\ Cardinality(vouches_out(a)) < VOUCH_CAPACITY
      /\ humans' = [humans EXCEPT ![b].vouches_in = @ \cup {a}]
  BY DEF vouch
<1>2. /\ humans'[b].vouches_in = humans[b].vouches_in \cup {a}
      /\ \A c \in Addr : c # b => humans'[c] = humans[c]
  BY <1>1 DEF StateTyped, Human
<1>3. \A e \in edges' : e[1] \in humans'[e[2]].vouches_in
  <2> SUFFICES ASSUME NEW e \in edges' PROVE e[1] \in humans'[e[2]].vouches_in
    OBVIOUS
  <2>1. CASE e = <<a, b>>
    BY <1>2, <2>1
  <2>2. CASE e # <<a, b>>
    <3>1. e \in edges /\ e[2] \in Addr /\ e[1] \in humans[e[2]].vouches_in
      BY <1>1, <2>2 DEF StateTyped, VouchersAccountable
    <3>2. QED
      BY <1>2, <3>1
  <2>3. QED
    BY <2>1, <2>2
<1>4. ASSUME NEW c \in Addr
      PROVE  Cardinality(vouches_out(c)') <= VOUCH_CAPACITY
  <2>1. CASE c = a
    <3>1. vouches_out(a)' = vouches_out(a) \cup {b} /\ b \notin vouches_out(a)
      BY <1>1 DEF vouches_out
    <3>2. IsFiniteSet(vouches_out(a))
      <4>1. vouches_out(a) \subseteq Addr
        BY DEF vouches_out
      <4>2. QED
        BY <4>1, HumanityConstants, FS_Subset
    <3>3. Cardinality(vouches_out(a)') = Cardinality(vouches_out(a)) + 1
      BY <3>1, <3>2, FS_AddElement
    <3>4. Cardinality(vouches_out(a)) \in Nat /\ VOUCH_CAPACITY \in Nat
      BY <3>2, FS_CardinalityType, HumanityConstants
    <3>5. QED
      BY <1>1, <2>1, <3>3, <3>4
  <2>2. CASE c # a
    <3>1. vouches_out(c)' = vouches_out(c)
      BY <1>1, <2>2 DEF vouches_out
    <3>2. QED
      BY <3>1 DEF VouchersAccountable
  <2>3. QED
    BY <2>1, <2>2
<1>5. QED
  BY <1>3, <1>4 DEF VouchersAccountable

\* Clearing the edges of a leaves only edges between others.
LEMMA ClearedEdges ==
  ASSUME StateTyped, NEW a \in Addr, edges' = clear_vouch_edges(a)
  PROVE  /\ edges' \subseteq edges
         /\ \A e \in edges' : e[2] \in Addr /\ e[2] # a
BY DEF clear_vouch_edges, StateTyped

\* The steps that neither revoke nor re-register keep vouches and edges.
LEMMA NextKeepsVouchers ==
  Inv /\ VouchersAccountable /\ [Next]_vars => VouchersAccountable'
<1> SUFFICES ASSUME Inv, VouchersAccountable, [Next]_vars
             PROVE  VouchersAccountable'
  OBVIOUS
<1>0. StateTyped /\ CacheInSync /\ humans \in [Addr -> Human]
  BY DEF Inv, People, StateTyped
<1>e. \A e \in edges : e[2] \in Addr
  BY <1>0 DEF StateTyped
<1>1. ASSUME NEW a \in Applicants, NEW jury \in Juries, NEW grade \in Grades,
             request_verification(a, jury, grade)
      PROVE  VouchersAccountable'
  <2>1. edges' = clear_vouch_edges(a) /\ humans' = [humans EXCEPT ![a] = pending]
        /\ a \in Addr
    BY <1>1, HumanityConstants DEF request_verification
  <2>2. edges' \subseteq edges /\ \A e \in edges' : e[2] \in Addr /\ e[2] # a
    BY <1>0, <2>1, ClearedEdges
  <2>3. \A e \in edges' : humans'[e[2]] = humans[e[2]]
    BY <1>0, <2>1, <2>2
  <2>4. QED
    BY <1>0, <2>2, <2>3, FewerEdges
<1>2. ASSUME NEW a \in Addr, NEW b \in Addr, vouch(a, b)
      PROVE  VouchersAccountable'
  BY <1>0, <1>2, VouchKeepsVouchers
<1>3. ASSUME NEW c \in Challengers, NEW a \in Targets, NEW jury \in Juries,
             challenge(c, a, jury)
      PROVE  VouchersAccountable'
  <2>1. /\ humans' = [humans EXCEPT ![a].status =
                        IF @ = "Verified" THEN "Challenged" ELSE @]
        /\ edges' = edges
    BY <1>3 DEF challenge
  <2>2. \A b \in Addr : humans'[b].vouches_in = humans[b].vouches_in
    BY <1>0, <2>1 DEF Human
  <2>3. QED
    BY <1>0, <1>e, <2>1, <2>2, FewerEdges
<1>4. ASSUME NEW id \in DOMAIN cases, NEW juror \in Jurors, NEW v \in Ballots,
             submit_verdict(id, juror, v)
      PROVE  VouchersAccountable'
  <2>0. PICK a \in Addr : a = cases[id].subject
    BY <1>4, VerdictOutcome
  <2>1. \/ revoke(a)
        \/ \E slashed : uphold(a, slashed)
        \/ humans' = humans /\ edges' = edges
    BY <1>4, <2>0, VerdictOutcome
  <2>2. CASE revoke(a)
    <3>1. /\ \A b \in Addr : b # a => humans'[b].vouches_in = humans[b].vouches_in
          /\ edges' = clear_vouch_edges(a)
      BY <1>0, <2>2, RevokeFacts
    <3>2. edges' \subseteq edges /\ \A e \in edges' : e[2] \in Addr /\ e[2] # a
      BY <1>0, <3>1, ClearedEdges
    <3>3. QED
      BY <1>0, <3>1, <3>2, FewerEdges
  <2>3. CASE \E slashed : uphold(a, slashed)
    <3>1. PICK slashed : uphold(a, slashed)
      BY <2>3
    <3>2. /\ \A b \in Addr : humans'[b].vouches_in = humans[b].vouches_in
          /\ edges' = edges
      BY <1>0, <3>1, UpholdFacts
    <3>3. QED
      BY <1>0, <1>e, <3>2, FewerEdges
  <2>4. CASE humans' = humans /\ edges' = edges
    BY <1>0, <2>4, FewerEdges
  <2>5. QED
    BY <2>1, <2>2, <2>3, <2>4
<1>5. ASSUME NEW a \in Addr, NEW n \in Nullifiers, submit_zk_passport_proof(a, n)
      PROVE  VouchersAccountable'
  <2>1. \A b \in Addr : humans'[b].vouches_in = humans[b].vouches_in
    BY <1>0, <1>5, PassportPeople
  <2>2. edges' = edges
    BY <1>0, <1>5, PassportPeople
  <2>3. QED
    BY <1>0, <1>e, <2>1, <2>2, FewerEdges
<1>6. ASSUME NEW flagged \in SUBSET (Pending \cap Suspects),
             NEW juries \in [flagged -> Juries], EndBlock(flagged, juries)
      PROVE  VouchersAccountable'
  <2>1. PICK done \in SUBSET Pending :
         /\ humans' = [a \in Addr |->
               IF a \in done THEN [humans[a] EXCEPT !.status = "Verified",
                                                    !.verified_at = height]
                             ELSE humans[a]]
         /\ UNCHANGED edges
    BY <1>0, <1>6, EndBlockPeople
  <2>2. ASSUME NEW b \in Addr PROVE humans'[b].vouches_in = humans[b].vouches_in
    <3>1. CASE b \in done
      <4>1. PICK h : h = humans[b] /\ h \in Human
        BY <1>0 DEF StateTyped
      <4>2. humans'[b] = [h EXCEPT !.status = "Verified", !.verified_at = height]
        BY <2>1, <3>1, <4>1
      <4>3. humans'[b].vouches_in = h.vouches_in
        BY <4>1, <4>2 DEF Human
      <4>4. QED
        BY <4>1, <4>3
    <3>2. CASE b \notin done
      BY <2>1, <3>2
    <3>3. QED
      BY <3>1, <3>2
  <2>3. QED
    BY <1>0, <1>e, <2>1, <2>2, FewerEdges
<1>7. CASE UNCHANGED vars
  BY <1>0, <1>7, FewerEdges DEF vars
<1>8. QED
  BY <1>1, <1>2, <1>3, <1>4, <1>5, <1>6, <1>7 DEF Next

(***************************************************************************)
(* Merit.  VerifiedOnMerit is inductive beside Inv: what finalize_          *)
(* registration looked at stays as it was until the next registration,     *)
(* because a registration case is closed from the start, and a challenge   *)
(* that is upheld takes the status away in the same step.                  *)
(***************************************************************************)
Merit(a) ==
  /\ \A id \in casesOf(cases, a, "Challenge") : cases[id].status # "Sybil"
  /\ \/ a \in Founders /\ casesOf(cases, a, "Registration") = {}
     \/ /\ liveness_passed(cases, a)
        /\ Cardinality(humans[a].vouches_in) >= MIN_VOUCHES
        /\ window_over(cases, a)

\* This step leaves a's registrations as they are and upholds no challenge of a.
RecordKept(a) ==
  /\ casesOf(cases', a, "Registration") = casesOf(cases, a, "Registration")
  /\ \A id \in casesOf(cases, a, "Registration") : cases'[id] = cases[id]
  /\ \A id \in casesOf(cases', a, "Challenge") : cases'[id].status = "Sybil" =>
       id \in casesOf(cases, a, "Challenge") /\ cases[id].status = "Sybil"

\* The window, once over, stays over: heights only grow.
LEMMA WindowStaysOver ==
  ASSUME NEW cs, NEW a, window_over(cs, a), height \in Nat, height' \in Nat,
         height <= height', \A id \in registration(cs, a) : cs[id].opened_at \in Nat
  PROVE  IF registration(cs, a) = {} THEN CHALLENGE_WINDOW = 0
         ELSE \A id \in registration(cs, a) : height' >= cs[id].opened_at + CHALLENGE_WINDOW
BY HumanityConstants DEF window_over

\* Merit survives every step that keeps the record and the vouches.
LEMMA MeritKept ==
  ASSUME CaseInv, NEW a \in Addr, Merit(a), RecordKept(a),
         humans'[a].vouches_in = humans[a].vouches_in,
         height \in Nat, height' \in Nat, height <= height'
  PROVE  Merit(a)'
<1>1. registration(cases', a) = registration(cases, a)
  BY DEF RecordKept, registration
<1>2. /\ registration(cases, a) \subseteq casesOf(cases, a, "Registration")
      /\ casesOf(cases, a, "Registration") \subseteq DOMAIN cases
  BY DEF registration, casesOf
<1>3. \A id \in registration(cases, a) :
        cases'[id] = cases[id] /\ cases[id].opened_at \in Nat
  BY <1>2 DEF RecordKept, CaseInv, CasesTyped, CaseOK
<1>4. \A id \in casesOf(cases', a, "Challenge") : cases'[id].status # "Sybil"
  BY DEF Merit, RecordKept
<1>5. CASE a \in Founders /\ casesOf(cases, a, "Registration") = {}
  BY <1>4, <1>5 DEF Merit, RecordKept
<1>6. CASE /\ liveness_passed(cases, a)
           /\ Cardinality(humans[a].vouches_in) >= MIN_VOUCHES
           /\ window_over(cases, a)
  <2>1. liveness_passed(cases, a)'
    BY <1>1, <1>3, <1>6 DEF liveness_passed
  <2>2. window_over(cases, a)'
    <3>1. IF registration(cases, a) = {} THEN CHALLENGE_WINDOW = 0
          ELSE \A id \in registration(cases, a) :
                 height' >= cases[id].opened_at + CHALLENGE_WINDOW
      BY <1>3, <1>6, WindowStaysOver
    <3>2. QED
      BY <1>1, <1>3, <3>1 DEF window_over
  <2>3. Cardinality(humans'[a].vouches_in) >= MIN_VOUCHES
    BY <1>6
  <2>4. QED
    BY <1>4, <2>1, <2>2, <2>3 DEF Merit
<1>7. QED
  BY <1>5, <1>6 DEF Merit

\* Opening a challenge, or a case against someone else, keeps a's record.
LEMMA AppendedKeepsRecord ==
  ASSUME NEW a \in Addr, NEW new, Appended(new),
         \A id \in new : \/ cases'[id].subject # a
                         \/ cases'[id].kind = "Challenge" /\ cases'[id].status = "Open"
  PROVE  RecordKept(a)
<1>1. /\ \A id \in DOMAIN cases : id \in DOMAIN cases' /\ cases'[id] = cases[id]
      /\ \A id \in DOMAIN cases' : id \in DOMAIN cases \/ id \in new
  BY DEF Appended
<1>2. QED
  BY <1>1 DEF RecordKept, casesOf

\* A verdict changes one open challenge; only its subject may lose.
LEMMA VerdictKeepsRecord ==
  ASSUME Inv, NEW id \in DOMAIN cases, NEW juror \in Jurors, NEW v \in Ballots,
         submit_verdict(id, juror, v), NEW a \in Addr,
         cases'[id].status # "Sybil" \/ cases[id].subject # a
  PROVE  RecordKept(a)
<1>1. TypeOK
  BY InvTypeOK
<1>2. /\ DOMAIN cases' = DOMAIN cases
      /\ \A i \in DOMAIN cases : i # id => cases'[i] = cases[i]
      /\ cases'[id].subject = cases[id].subject
      /\ cases'[id].kind = cases[id].kind
  BY <1>1, VerdictCases
<1>3. cases[id].kind = "Challenge"
  BY VerdictKeepsCaseInv
<1>4. casesOf(cases', a, "Registration") = casesOf(cases, a, "Registration")
  BY <1>2 DEF casesOf
<1>5. \A i \in casesOf(cases, a, "Registration") : cases'[i] = cases[i]
  BY <1>2, <1>3 DEF casesOf
<1>6. \A i \in casesOf(cases', a, "Challenge") : cases'[i].status = "Sybil" =>
        i \in casesOf(cases, a, "Challenge") /\ cases[i].status = "Sybil"
  BY <1>2 DEF casesOf
<1>7. QED
  BY <1>4, <1>5, <1>6 DEF RecordKept

\* Every step keeps the merit of those who still emit, and the sweep at the end of a
\* block establishes it.
LEMMA NextKeepsMerit ==
  Inv /\ VerifiedOnMerit /\ [Next]_vars => VerifiedOnMerit'
<1> DEFINE Needs(h) == h.status \in {"Verified", "Challenged"} /\ h.assurance = "Std"
<1>m. VerifiedOnMerit <=> \A a \in Addr : Needs(humans[a]) => Merit(a)
  BY DEF VerifiedOnMerit, Emitting, Merit
<1>n. VerifiedOnMerit' <=> \A a \in Addr : Needs(humans'[a]) => Merit(a)'
  BY DEF VerifiedOnMerit, Emitting, Merit
<1> SUFFICES ASSUME Inv, VerifiedOnMerit, [Next]_vars,
                    NEW a \in Addr, Needs(humans'[a])
             PROVE  Merit(a)'
  BY <1>n
<1>0. StateTyped /\ CacheInSync /\ humans \in [Addr -> Human] /\ height \in Nat
      /\ TypeOK /\ CaseInv
  BY InvTypeOK DEF Inv, People, StateTyped
<1>k. ASSUME Needs(humans[a]), RecordKept(a),
             humans'[a].vouches_in = humans[a].vouches_in, height' = height
      PROVE  Merit(a)'
  <2>1. Merit(a)
    BY <1>m, <1>k
  <2>2. height' \in Nat /\ height <= height'
    BY <1>0, <1>k
  <2>3. QED
    BY <1>0, <1>k, <2>1, <2>2, MeritKept
<1>s. cases' = cases => RecordKept(a)
  BY DEF RecordKept, casesOf
<1>1. ASSUME NEW b \in Applicants, NEW jury \in Juries, NEW grade \in Grades,
             request_verification(b, jury, grade)
      PROVE  Merit(a)'
  <2>1. /\ humans' = [humans EXCEPT ![b] = pending] /\ height' = height
    BY <1>1 DEF request_verification
  <2>2. pending.status = "Pending"
    BY DEF pending, unregistered
  <2>3. b # a /\ humans'[a] = humans[a]
    BY <1>0, <2>1, <2>2
  <2>4. RecordKept(a)
    <3>1. PICK k : k = next_case_id
      OBVIOUS
    <3>2. Appended({k}) /\ cases'[k].subject = b
      BY <1>0, <1>1, <3>1, RequestCases
    <3>3. QED
      BY <2>3, <3>2, AppendedKeepsRecord
  <2>5. QED
    BY <1>k, <2>1, <2>3, <2>4
<1>2. ASSUME NEW b \in Addr, NEW c \in Addr, vouch(b, c)
      PROVE  Merit(a)'
  <2>1. /\ humans[c].status = "Pending" /\ cases' = cases /\ height' = height
        /\ humans' = [humans EXCEPT ![c].vouches_in = @ \cup {b}]
    BY <1>2 DEF vouch
  <2>2. humans'[c].status = humans[c].status
    BY <1>0, <2>1 DEF Human
  <2>3. c # a
    BY <2>1, <2>2
  <2>4. humans'[a] = humans[a]
    BY <1>0, <2>1, <2>3
  <2>5. QED
    BY <1>k, <1>s, <2>1, <2>4
<1>3. ASSUME NEW c \in Challengers, NEW b \in Targets, NEW jury \in Juries,
             challenge(c, b, jury)
      PROVE  Merit(a)'
  <2>1. /\ height' = height
        /\ humans' = [humans EXCEPT ![b].status =
                        IF @ = "Verified" THEN "Challenged" ELSE @]
    BY <1>3 DEF challenge
  <2>2. /\ humans'[a].vouches_in = humans[a].vouches_in
        /\ humans'[a].assurance = humans[a].assurance
        /\ humans'[a].status = humans[a].status \/ humans[a].status = "Verified"
    BY <1>0, <2>1 DEF Human
  <2>3. RecordKept(a)
    <3>1. PICK k : k = next_case_id
      OBVIOUS
    <3>2. Appended({k}) /\ cases'[k].kind = "Challenge" /\ cases'[k].status = "Open"
      BY <1>0, <1>3, <3>1, ChallengeCases
    <3>3. QED
      BY <3>2, AppendedKeepsRecord
  <2>4. QED
    BY <1>k, <2>1, <2>2, <2>3
<1>4. ASSUME NEW id \in DOMAIN cases, NEW juror \in Jurors, NEW v \in Ballots,
             submit_verdict(id, juror, v)
      PROVE  Merit(a)'
  <2>0. PICK b \in Addr : b = cases[id].subject
    BY <1>4, VerdictOutcome
  <2>1. /\ height' = height
        /\ \/ cases'[id].status = "Sybil" /\ revoke(b)
           \/ cases'[id].status # "Sybil" /\ \E slashed : uphold(b, slashed)
           \/ cases'[id].status # "Sybil" /\ humans' = humans
    BY <1>4, <2>0, VerdictOutcome
  <2>2. CASE cases'[id].status = "Sybil" /\ revoke(b)
    <3>1. humans'[b].status = "Revoked"
      BY <1>0, <2>2, RevokeFacts
    <3>2. b # a
      BY <3>1
    <3>3. /\ humans'[a].status = humans[a].status
          /\ humans'[a].vouches_in = humans[a].vouches_in
          /\ humans'[a].assurance = humans[a].assurance
      BY <1>0, <2>2, <3>2, RevokeFacts
    <3>4. RecordKept(a)
      BY <1>4, <2>0, <3>2, VerdictKeepsRecord
    <3>5. QED
      BY <1>k, <2>1, <3>3, <3>4
  <2>3. CASE cases'[id].status # "Sybil" /\ \E slashed : uphold(b, slashed)
    <3>1. PICK slashed : uphold(b, slashed)
      BY <2>3
    <3>2. /\ humans'[a].vouches_in = humans[a].vouches_in
          /\ humans'[a].assurance = humans[a].assurance
          /\ humans'[a].status = humans[a].status \/ humans[a].status = "Challenged"
      BY <1>0, <3>1, UpholdFacts
    <3>3. RecordKept(a)
      BY <1>4, <2>3, VerdictKeepsRecord
    <3>4. QED
      BY <1>k, <2>1, <3>2, <3>3
  <2>4. CASE cases'[id].status # "Sybil" /\ humans' = humans
    <3>1. RecordKept(a)
      BY <1>4, <2>4, VerdictKeepsRecord
    <3>2. QED
      BY <1>k, <2>1, <2>4, <3>1
  <2>5. QED
    BY <2>1, <2>2, <2>3, <2>4
<1>5. ASSUME NEW b \in Addr, NEW n \in Nullifiers, submit_zk_passport_proof(b, n)
      PROVE  Merit(a)'
  <2>1. /\ humans'[b].assurance # "Std"
        /\ \A c \in Addr : c # b => humans'[c] = humans[c]
        /\ UNCHANGED <<cases, edges, height>>
    BY <1>0, <1>5, PassportPeople
  <2>2. humans'[a] = humans[a]
    BY <2>1
  <2>3. QED
    BY <1>k, <1>s, <2>1, <2>2
<1>6. ASSUME NEW flagged \in SUBSET (Pending \cap Suspects),
             NEW juries \in [flagged -> Juries], EndBlock(flagged, juries)
      PROVE  Merit(a)'
  <2>1. PICK done \in SUBSET Pending :
         /\ done = finalized(cases')
         /\ humans' = [b \in Addr |->
               IF b \in done THEN [humans[b] EXCEPT !.status = "Verified",
                                                    !.verified_at = height]
                             ELSE humans[b]]
         /\ height' = height + 1
    BY <1>0, <1>6, EndBlockPeople
  <2>2. height' \in Nat /\ height <= height'
    <3>1. height' = height + 1 /\ height \in Nat
      BY <1>0, <2>1
    <3>2. QED
      BY <3>1
  <2>3. PICK new :
         /\ Appended(new)
         /\ \A id \in new : cases'[id].kind = "Challenge" /\ cases'[id].status = "Open"
    BY <1>0, <1>6, EndBlockCases
  <2>4. RecordKept(a)
    BY <2>3, AppendedKeepsRecord
  <2>5. CASE a \notin done
    <3>1. humans'[a] = humans[a]
      BY <2>1, <2>5
    <3>2. Merit(a)
      BY <1>m, <3>1
    <3>3. QED
      BY <1>0, <2>2, <2>4, <3>1, <3>2, MeritKept
  <2>6. CASE a \in done
    <3>1. /\ liveness_passed(cases', a)
          /\ Cardinality(humans[a].vouches_in) >= MIN_VOUCHES
          /\ window_over(cases', a)
          /\ ~has_pending_or_upheld_challenge(cases', a)
      <4>1. a \in finalized(cases')
        BY <2>1, <2>6
      <4>2. finalizable(cases', a)
        BY <4>1 DEF finalized
      <4>3. QED
        BY <4>2 DEF finalizable
    <3>2. humans'[a].vouches_in = humans[a].vouches_in
      <4>1. humans'[a] = [humans[a] EXCEPT !.status = "Verified", !.verified_at = height]
        BY <2>1, <2>6
      <4>2. humans[a] \in Human
        BY <1>0
      <4>3. QED
        BY <4>1, <4>2 DEF Human
    <3>3. \A id \in registration(cases', a) : cases'[id].opened_at \in Nat
      <4>1. Inv'
        BY <1>6, EndBlockKeepsInv
      <4>2. QED
        BY <4>1 DEF Inv, CaseInv, CasesTyped, CaseOK, registration, casesOf
    <3>4. window_over(cases, a)'
      <4>1. PICK cs : cs = cases'
        OBVIOUS
      <4>2. window_over(cs, a) /\ \A id \in registration(cs, a) : cs[id].opened_at \in Nat
        BY <3>1, <3>3, <4>1
      <4>3. IF registration(cs, a) = {} THEN CHALLENGE_WINDOW = 0
            ELSE \A id \in registration(cs, a) :
                   height' >= cs[id].opened_at + CHALLENGE_WINDOW
        BY <1>0, <2>2, <4>2, WindowStaysOver
      <4>4. QED
        BY <4>1, <4>3 DEF window_over
    <3>5. QED
      BY <3>1, <3>2, <3>4 DEF Merit, has_pending_or_upheld_challenge
  <2>7. QED
    BY <2>5, <2>6
<1>7. CASE UNCHANGED vars
  BY <1>k, <1>s, <1>7 DEF vars
<1>8. QED
  BY <1>1, <1>2, <1>3, <1>4, <1>5, <1>6, <1>7 DEF Next

(***************************************************************************)
(* Passports.  OnePassportOneHuman is inductive beside Inv.                *)
(***************************************************************************)
Enhanced == {a \in Addr : humans[a].assurance # "Std"}

\* Steps that spend no passport raise nobody's assurance.
LEMMA NoneEnhanced ==
  ASSUME StateTyped, OnePassportOneHuman, nullifiers' = nullifiers,
         \A a \in Addr : humans'[a].assurance # "Std" => humans[a].assurance # "Std"
  PROVE  OnePassportOneHuman'
<1>1. Enhanced' \subseteq Enhanced /\ Enhanced \subseteq Addr
  BY DEF Enhanced
<1>2. /\ IsFiniteSet(Enhanced) /\ IsFiniteSet(Enhanced')
      /\ Cardinality(Enhanced') <= Cardinality(Enhanced)
  BY <1>1, HumanityConstants, FS_Subset
<1>3. IsFiniteSet(nullifiers)
  BY HumanityConstants, FS_Subset DEF StateTyped
<1>4. /\ Cardinality(Enhanced) \in Nat /\ Cardinality(Enhanced') \in Nat
      /\ Cardinality(nullifiers) \in Nat
  BY <1>2, <1>3, FS_CardinalityType
<1>5. Cardinality(Enhanced) <= Cardinality(nullifiers)
  BY DEF OnePassportOneHuman, Enhanced
<1>6. Cardinality(Enhanced') <= Cardinality(nullifiers')
  BY <1>2, <1>4, <1>5
<1>7. QED
  BY <1>6 DEF OnePassportOneHuman, Enhanced

\* A proof enhances one human and spends one passport.
LEMMA PassportEnhances ==
  ASSUME StateTyped, OnePassportOneHuman, NEW a \in Addr, NEW n \in Nullifiers,
         submit_zk_passport_proof(a, n)
  PROVE  OnePassportOneHuman'
<1>1. /\ humans[a].assurance = "Std"
      /\ n \notin nullifiers /\ nullifiers' = nullifiers \cup {n}
  BY DEF submit_zk_passport_proof
<1>2. /\ humans'[a].assurance # "Std"
      /\ \A b \in Addr : b # a => humans'[b] = humans[b]
  BY PassportPeople
<1>3. Enhanced' = Enhanced \cup {a} /\ a \notin Enhanced
  BY <1>1, <1>2 DEF Enhanced
<1>4. IsFiniteSet(Enhanced) /\ IsFiniteSet(nullifiers)
  <2>1. Enhanced \subseteq Addr /\ nullifiers \subseteq Nullifiers
    BY DEF Enhanced, StateTyped
  <2>2. QED
    BY <2>1, HumanityConstants, FS_Subset
<1>5. /\ Cardinality(Enhanced') = Cardinality(Enhanced) + 1
      /\ Cardinality(nullifiers') = Cardinality(nullifiers) + 1
  BY <1>1, <1>3, <1>4, FS_AddElement
<1>6. /\ Cardinality(Enhanced) \in Nat /\ Cardinality(nullifiers) \in Nat
      /\ Cardinality(Enhanced) <= Cardinality(nullifiers)
  BY <1>4, FS_CardinalityType DEF OnePassportOneHuman, Enhanced
<1>7. Cardinality(Enhanced') <= Cardinality(nullifiers')
  BY <1>5, <1>6
<1>8. QED
  BY <1>7 DEF OnePassportOneHuman, Enhanced

LEMMA NextKeepsPassports ==
  Inv /\ OnePassportOneHuman /\ [Next]_vars => OnePassportOneHuman'
<1> SUFFICES ASSUME Inv, OnePassportOneHuman, [Next]_vars
             PROVE  OnePassportOneHuman'
  OBVIOUS
<1>0. StateTyped /\ CacheInSync /\ humans \in [Addr -> Human]
  BY DEF Inv, People, StateTyped
<1>1. ASSUME NEW a \in Applicants, NEW jury \in Juries, NEW grade \in Grades,
             request_verification(a, jury, grade)
      PROVE  OnePassportOneHuman'
  <2>1. humans' = [humans EXCEPT ![a] = pending] /\ nullifiers' = nullifiers
    BY <1>1 DEF request_verification
  <2>2. pending.assurance = "Std"
    BY DEF pending, unregistered
  <2>3. QED
    BY <1>0, <2>1, <2>2, NoneEnhanced
<1>2. ASSUME NEW a \in Addr, NEW b \in Addr, vouch(a, b)
      PROVE  OnePassportOneHuman'
  <2>1. /\ humans' = [humans EXCEPT ![b].vouches_in = @ \cup {a}]
        /\ nullifiers' = nullifiers
    BY <1>2 DEF vouch
  <2>2. \A c \in Addr : humans'[c].assurance = humans[c].assurance
    BY <1>0, <2>1 DEF Human
  <2>3. QED
    BY <1>0, <2>1, <2>2, NoneEnhanced
<1>3. ASSUME NEW c \in Challengers, NEW a \in Targets, NEW jury \in Juries,
             challenge(c, a, jury)
      PROVE  OnePassportOneHuman'
  <2>1. /\ humans' = [humans EXCEPT ![a].status =
                        IF @ = "Verified" THEN "Challenged" ELSE @]
        /\ nullifiers' = nullifiers
    BY <1>3 DEF challenge
  <2>2. \A b \in Addr : humans'[b].assurance = humans[b].assurance
    BY <1>0, <2>1 DEF Human
  <2>3. QED
    BY <1>0, <2>1, <2>2, NoneEnhanced
<1>4. ASSUME NEW id \in DOMAIN cases, NEW juror \in Jurors, NEW v \in Ballots,
             submit_verdict(id, juror, v)
      PROVE  OnePassportOneHuman'
  <2>0. PICK a \in Addr : a = cases[id].subject
    BY <1>4, VerdictOutcome
  <2>1. /\ nullifiers' = nullifiers
        /\ revoke(a) \/ (\E slashed : uphold(a, slashed)) \/ humans' = humans
    BY <1>4, <2>0, VerdictOutcome
  <2>2. \A b \in Addr : humans'[b].assurance = humans[b].assurance
    <3>1. CASE revoke(a)
      BY <1>0, <3>1, RevokeFacts
    <3>2. CASE \E slashed : uphold(a, slashed)
      BY <1>0, <3>2, UpholdFacts
    <3>3. QED
      BY <2>1, <3>1, <3>2
  <2>3. QED
    BY <1>0, <2>1, <2>2, NoneEnhanced
<1>5. ASSUME NEW a \in Addr, NEW n \in Nullifiers, submit_zk_passport_proof(a, n)
      PROVE  OnePassportOneHuman'
  BY <1>0, <1>5, PassportEnhances
<1>6. ASSUME NEW flagged \in SUBSET (Pending \cap Suspects),
             NEW juries \in [flagged -> Juries], EndBlock(flagged, juries)
      PROVE  OnePassportOneHuman'
  <2>1. PICK done \in SUBSET Pending :
         /\ humans' = [a \in Addr |->
               IF a \in done THEN [humans[a] EXCEPT !.status = "Verified",
                                                    !.verified_at = height]
                             ELSE humans[a]]
         /\ UNCHANGED nullifiers
    BY <1>0, <1>6, EndBlockPeople
  <2>2. \A b \in Addr : humans'[b].assurance = humans[b].assurance
    BY <1>0, <2>1 DEF Human
  <2>3. QED
    BY <1>0, <2>1, <2>2, NoneEnhanced
<1>7. CASE UNCHANGED vars
  BY <1>0, <1>7, NoneEnhanced DEF vars
<1>8. QED
  BY <1>1, <1>2, <1>3, <1>4, <1>5, <1>6, <1>7 DEF Next

(***************************************************************************)
(* The theorems.                                                           *)
(***************************************************************************)
LEMMA AlwaysInv == Spec => []Inv
BY InitInv, NextKeepsInv, PTL DEF Spec

\* The state is well typed: case ids stay dense and only jurors of a case's own
\* jury ever have a vote on it (open_case, submit_verdict).
THEOREM TypeCorrect == Spec => []TypeOK
BY AlwaysInv, InvTypeOK, PTL

\* Emission gating: along every path (finalize_registration, submit_verdict,
\* revoke, submit_zk_passport_proof) the account cache agrees with the registry.
THEOREM EmissionGated == Spec => []CacheInSync
<1>1. Inv => CacheInSync
  BY DEF Inv, People
<1>2. QED
  BY <1>1, AlwaysInv, PTL

\* At most one open challenge per subject, and a Challenged human always has one
\* (challenge_inner, submit_verdict).
THEOREM ChallengesAlwaysSound == Spec => []ChallengesSound
<1>1. Inv => ChallengesSound
  <2> SUFFICES ASSUME Inv, NEW a \in Addr
               PROVE  /\ \A i, j \in casesOf(cases, a, "Challenge") :
                           cases[i].status = "Open" /\ cases[j].status = "Open" => i = j
                      /\ has_open_challenge(cases, a)
                           => humans[a].status \in {"Pending", "Verified", "Challenged"}
                      /\ humans[a].status = "Challenged" => has_open_challenge(cases, a)
    BY DEF ChallengesSound
  <2>1. \A id : id \in casesOf(cases, a, "Challenge") <=>
          id \in DOMAIN cases /\ cases[id].subject = a /\ cases[id].kind = "Challenge"
    BY DEF casesOf
  <2>2. \A i, j \in casesOf(cases, a, "Challenge") :
          cases[i].status = "Open" /\ cases[j].status = "Open" => i = j
    BY <2>1 DEF Inv, CaseInv, OneOpen, OpenChallenge
  <2>3. has_open_challenge(cases, a)
          => humans[a].status \in {"Pending", "Verified", "Challenged"}
    BY <2>1 DEF has_open_challenge, Inv, People, OpenAffects, OpenChallenge
  <2>4. humans[a].status = "Challenged" => has_open_challenge(cases, a)
    BY <2>1 DEF has_open_challenge, Inv, People, ChallengedHasCase, OpenChallenge
  <2>5. QED
    BY <2>2, <2>3, <2>4
<1>2. QED
  BY <1>1, AlwaysInv, PTL

\* Nobody is Revoked but by QUORUM equal Sybil votes of a challenge's jury
\* (quorum_tally, revoke).
THEOREM RevocationNeedsQuorum == Spec => []RevokedByQuorum
<1>1. Inv => RevokedByQuorum
  BY DEF Inv, CaseInv, People, VerdictsByQuorum, RevokedHasCase, RevokedByQuorum, casesOf
<1>2. QED
  BY <1>1, AlwaysInv, PTL

\* The cooldown of challenge_inner gives each challenger one false challenge
\* against a subject, over all of the subject's lifecycles.
THEOREM OneFalseChallengeEach == Spec => []OneFalseChallenge
<1>1. Inv => OneFalseChallenge
  BY DEF Inv, CaseInv, ClearedOnce, OneFalseChallenge, casesOf
<1>2. QED
  BY <1>1, AlwaysInv, PTL

\* Vouchers stay accountable: over every revocation and re-registration, revoke
\* finds each live edge on the vouchee's record, and nobody exceeds the capacity.
THEOREM VouchersStayAccountable == Spec => []VouchersAccountable
<1>1. Init => VouchersAccountable
  <2> SUFFICES ASSUME Init PROVE VouchersAccountable
    OBVIOUS
  <2>1. edges = {} /\ \A a \in Addr : vouches_out(a) = {}
    BY DEF Init, vouches_out
  <2>2. Cardinality({}) = 0 /\ VOUCH_CAPACITY \in Nat
    BY FS_EmptySet, HumanityConstants
  <2>3. QED
    BY <2>1, <2>2 DEF VouchersAccountable
<1>2. QED
  BY <1>1, AlwaysInv, NextKeepsVouchers, PTL DEF Spec

\* I4, never auto-grant: without a passport proof nobody emits but a founder that
\* never re-registered, or one whose latest registration passed every gate of
\* finalize_registration, and nobody who ever lost a challenge.
THEOREM NeverAutoGranted == Spec => []VerifiedOnMerit
<1>1. Init => VerifiedOnMerit
  <2> SUFFICES ASSUME Init, NEW a \in Addr, Emitting(a)
               PROVE  a \in Founders /\ \A k : casesOf(cases, a, k) = {}
    BY DEF VerifiedOnMerit
  <2>1. DOMAIN cases = {}
    BY DEF Init
  <2>2. a \in Founders
    BY DEF Init, Emitting, unregistered
  <2>3. QED
    BY <2>1, <2>2 DEF casesOf
<1>2. QED
  BY <1>1, AlwaysInv, NextKeepsMerit, PTL DEF Spec

\* One passport, one human: never more humans of enhanced assurance than spent
\* nullifiers, over revocations and re-registrations (submit_zk_passport_proof).
THEOREM OneHumanPerPassport == Spec => []OnePassportOneHuman
<1>1. Init => OnePassportOneHuman
  <2> SUFFICES ASSUME Init PROVE OnePassportOneHuman
    OBVIOUS
  <2>1. \A a \in Addr : humans[a].assurance = "Std"
    BY DEF Init, unregistered
  <2>2. {a \in Addr : humans[a].assurance # "Std"} = {} /\ nullifiers = {}
    BY <2>1 DEF Init
  <2>3. Cardinality({}) <= Cardinality({})
    BY FS_EmptySet
  <2>4. QED
    BY <2>2, <2>3 DEF OnePassportOneHuman
<1>2. QED
  BY <1>1, AlwaysInv, NextKeepsPassports, PTL DEF Spec

\* A closed case never changes, and no vote on any case is ever withdrawn
\* (submit_verdict's AlreadyFinalized and DuplicateVote).
THEOREM CasesAreFinal == Spec => CasesFinal
<1> DEFINE Kept ==
       \A id \in DOMAIN cases :
         /\ id \in DOMAIN cases'
         /\ cases[id].status # "Open" => cases'[id] = cases[id]
         /\ \A f \in {"subject", "challenger", "kind", "jury", "opened_at"} :
              cases'[id][f] = cases[id][f]
         /\ \A j \in DOMAIN cases[id].votes :
              j \in DOMAIN cases'[id].votes /\ cases'[id].votes[j] = cases[id].votes[j]
<1>1. ASSUME Inv, [Next]_vars PROVE [Kept]_vars
  <2>0. TypeOK
    BY <1>1, InvTypeOK
  <2>a. ASSUME NEW new, Appended(new) PROVE Kept
    BY <2>a DEF Appended
  <2>1. ASSUME NEW a \in Applicants, NEW jury \in Juries, NEW grade \in Grades,
               request_verification(a, jury, grade)
        PROVE  Kept
    BY <2>0, <2>a, <2>1, RequestCases
  <2>2. ASSUME NEW a \in Addr, NEW b \in Addr, vouch(a, b)
        PROVE  Kept
    BY <2>2 DEF vouch
  <2>3. ASSUME NEW c \in Challengers, NEW a \in Targets, NEW jury \in Juries,
               challenge(c, a, jury)
        PROVE  Kept
    BY <2>0, <2>a, <2>3, ChallengeCases
  <2>4. ASSUME NEW id \in DOMAIN cases, NEW juror \in Jurors, NEW v \in Ballots,
               submit_verdict(id, juror, v)
        PROVE  Kept
    <3>1. /\ cases[id].status = "Open"
          /\ DOMAIN cases' = DOMAIN cases
          /\ \A i \in DOMAIN cases : i # id => cases'[i] = cases[i]
          /\ cases'[id].subject = cases[id].subject
          /\ cases'[id].challenger = cases[id].challenger
          /\ cases'[id].kind = cases[id].kind
          /\ cases'[id].jury = cases[id].jury
          /\ cases'[id].opened_at = cases[id].opened_at
          /\ \A j \in DOMAIN cases[id].votes :
               j \in DOMAIN cases'[id].votes /\ cases'[id].votes[j] = cases[id].votes[j]
      BY <2>0, <2>4, VerdictCases
    <3>2. \A f \in {"subject", "challenger", "kind", "jury", "opened_at"} :
            cases'[id][f] = cases[id][f]
      BY <3>1
    <3>3. QED
      BY <3>1, <3>2
  <2>5. ASSUME NEW a \in Addr, NEW n \in Nullifiers, submit_zk_passport_proof(a, n)
        PROVE  Kept
    BY <2>5 DEF submit_zk_passport_proof
  <2>6. ASSUME NEW flagged \in SUBSET (Pending \cap Suspects),
               NEW juries \in [flagged -> Juries], EndBlock(flagged, juries)
        PROVE  Kept
    BY <2>0, <2>a, <2>6, EndBlockCases
  <2> HIDE DEF Kept
  <2>7. QED
    BY <1>1, <2>1, <2>2, <2>3, <2>4, <2>5, <2>6 DEF Next
<1>2. Spec => [][Kept]_vars
  <2> HIDE DEF Kept
  <2>1. QED
    BY <1>1, AlwaysInv, PTL DEF Spec
<1>3. QED
  BY <1>2 DEF CasesFinal

(***************************************************************************)
(* Receipts.  Beside Inv, the logs of every receipt add up to the change   *)
(* of what balanceOf answers; Inv is what makes a challenge's burn, which  *)
(* does not look at the status before, burn a token that exists.           *)
(***************************************************************************)
Balanced == \A a \in Addr : tokens[a] = balanceOf(a) - unlogged(a)

\* Steps with receipts are steps of the registry.
LEMMA ReceiptsStep == [NextReceipts]_rvars => [Next]_vars
BY DEF NextReceipts, Next, rvars

\* The logs of a receipt that say what changed.
LEMMA Emitted ==
  ASSUME Balanced, NEW logs, emit(logs),
         \A b \in Addr : logs[b] = balanceOf(b)' - balanceOf(b)
  PROVE  Balanced'
<1> SUFFICES ASSUME NEW a \in Addr PROVE tokens'[a] = balanceOf(a)' - unlogged(a)
  BY DEF Balanced, unlogged
<1>1. balanceOf(a) \in Int /\ balanceOf(a)' \in Int /\ unlogged(a) \in Int
  BY DEF balanceOf, unlogged
<1>2. tokens'[a] = tokens[a] + logs[a] /\ tokens[a] = balanceOf(a) - unlogged(a)
  BY DEF emit, Balanced
<1>3. QED
  BY <1>1, <1>2

\* humanity_status_logs mints and burns for its subject what balanceOf gains and loses.
LEMMA StatusLogs ==
  ASSUME NEW a \in Addr, NEW prev, NEW status
  PROVE  /\ \A b \in Addr : b # a => humanity_status_logs(a, prev, status)[b] = 0
         /\ humanity_status_logs(a, prev, status)[a] =
              (IF status = "Verified" THEN 1 ELSE 0) - (IF prev = "Verified" THEN 1 ELSE 0)
BY DEF humanity_status_logs

\* No step changes the balance of an address whose status stays.
LEMMA SameStatus ==
  ASSUME NEW a, humans'[a].status = humans[a].status
  PROVE  balanceOf(a)' = balanceOf(a) /\ balanceOf(a)' - balanceOf(a) = 0
BY DEF balanceOf

\* A challenge burns exactly when it takes Verified away.
LEMMA ChallengeEmits ==
  ASSUME Inv, Balanced, NEW c \in Challengers, NEW a \in Targets, NEW jury \in Juries,
         challenge(c, a, jury), emit(challenge_logs(a))
  PROVE  Balanced'
<1>1. /\ a \in Addr /\ ~has_open_challenge(cases, a)
      /\ humans[a].status \in {"Pending", "Verified", "Challenged"}
      /\ humans' = [humans EXCEPT ![a].status =
                        IF @ = "Verified" THEN "Challenged" ELSE @]
  BY HumanityConstants DEF challenge, challengeable
<1>2. humans \in [Addr -> Human]
  BY DEF Inv, People, StateTyped
<1>3. /\ \A b \in Addr : b # a => humans'[b].status = humans[b].status
      /\ humans'[a].status = IF humans[a].status = "Verified" THEN "Challenged"
                                                            ELSE humans[a].status
  BY <1>1, <1>2 DEF Human
<1>4. humans[a].status # "Challenged"
  <2> SUFFICES ASSUME humans[a].status = "Challenged" PROVE FALSE
    OBVIOUS
  <2>1. PICK id \in DOMAIN cases : OpenChallenge(id) /\ cases[id].subject = a
    BY <1>1 DEF Inv, People, ChallengedHasCase
  <2>2. QED
    BY <1>1, <2>1 DEF OpenChallenge, has_open_challenge, casesOf
<1>5. \A b \in Addr : challenge_logs(a)[b] = balanceOf(b)' - balanceOf(b)
  <2> SUFFICES ASSUME NEW b \in Addr
               PROVE  challenge_logs(a)[b] = balanceOf(b)' - balanceOf(b)
    OBVIOUS
  <2>1. CASE humans[a].status = "Verified"
    <3>1. challenge_logs(a) = humanity_status_logs(a, "Verified", "Challenged")
      BY <1>3, <2>1 DEF challenge_logs
    <3>2. CASE b = a
      BY <1>1, <1>3, <2>1, <3>1, <3>2, StatusLogs DEF balanceOf
    <3>3. CASE b # a
      BY <1>1, <1>3, <3>1, <3>3, StatusLogs, SameStatus
    <3>4. QED
      BY <3>2, <3>3
  <2>2. CASE humans[a].status # "Verified"
    <3>1. challenge_logs(a) = no_logs /\ humans'[b].status = humans[b].status
      BY <1>3, <1>4, <2>2 DEF challenge_logs
    <3>2. QED
      BY <3>1, SameStatus DEF no_logs
  <2>3. QED
    BY <2>1, <2>2
<1>6. QED
  BY <1>5, Emitted

\* A verdict changes the status of the case's subject alone, which its logs look at.
LEMMA VerdictEmits ==
  ASSUME Inv, Balanced, NEW id \in DOMAIN cases, NEW juror \in Jurors, NEW v \in Ballots,
         submit_verdict(id, juror, v), emit(verdict_logs(id))
  PROVE  Balanced'
<1>0. StateTyped /\ CacheInSync
  BY DEF Inv, People
<1>1. PICK a \in Addr : a = cases[id].subject
  BY VerdictOutcome
<1>2. \/ revoke(a)
      \/ \E slashed : uphold(a, slashed)
      \/ humans' = humans
  BY <1>1, VerdictOutcome
<1>3. \A b \in Addr : b # a => humans'[b].status = humans[b].status
  <2>1. CASE revoke(a)
    BY <1>0, <2>1, RevokeFacts
  <2>2. CASE \E slashed : uphold(a, slashed)
    BY <1>0, <2>2, UpholdFacts
  <2>3. QED
    BY <1>2, <2>1, <2>2
<1>4. verdict_logs(id) = humanity_status_logs(a, humans[a].status, humans'[a].status)
  BY <1>1 DEF verdict_logs
<1>5. ASSUME NEW b \in Addr
      PROVE  verdict_logs(id)[b] = balanceOf(b)' - balanceOf(b)
  <2>1. CASE b = a
    BY <1>4, <2>1, StatusLogs DEF balanceOf
  <2>2. CASE b # a
    BY <1>3, <1>4, <2>2, StatusLogs, SameStatus
  <2>3. QED
    BY <2>1, <2>2
<1>6. QED
  BY <1>5, Emitted

\* An accepted passport proof mints unless the subject was Verified.
LEMMA PassportEmits ==
  ASSUME Inv, Balanced, NEW a \in Addr, NEW n \in Nullifiers,
         submit_zk_passport_proof(a, n), emit(zk_logs(a))
  PROVE  Balanced'
<1>0. StateTyped
  BY DEF Inv, People
<1>1. /\ humans'[a].status = "Verified"
      /\ \A b \in Addr : b # a => humans'[b] = humans[b]
  BY <1>0, PassportPeople
<1>2. ASSUME NEW b \in Addr
      PROVE  zk_logs(a)[b] = balanceOf(b)' - balanceOf(b)
  <2>1. CASE humans[a].status = "Verified"
    <3>1. zk_logs(a) = no_logs /\ humans'[b].status = humans[b].status
      BY <1>1, <2>1 DEF zk_logs
    <3>2. QED
      BY <3>1, SameStatus DEF no_logs
  <2>2. CASE humans[a].status # "Verified"
    <3>1. zk_logs(a) = humanity_status_logs(a, humans[a].status, "Verified")
      BY <2>2 DEF zk_logs
    <3>2. CASE b = a
      BY <1>1, <2>2, <3>1, <3>2, StatusLogs DEF balanceOf
    <3>3. CASE b # a
      BY <1>1, <3>1, <3>3, StatusLogs, SameStatus
    <3>4. QED
      BY <3>2, <3>3
  <2>3. QED
    BY <2>1, <2>2
<1>3. QED
  BY <1>2, Emitted

\* The sweep mints for those it finalizes.
LEMMA SweepEmits ==
  ASSUME Inv, Balanced, NEW flagged \in SUBSET (Pending \cap Suspects),
         NEW juries \in [flagged -> Juries], EndBlock(flagged, juries), emit(sweep_logs)
  PROVE  Balanced'
<1>0. StateTyped /\ humans \in [Addr -> Human]
  BY DEF Inv, People, StateTyped
<1>1. PICK done \in SUBSET Pending :
        humans' = [a \in Addr |->
               IF a \in done THEN [humans[a] EXCEPT !.status = "Verified",
                                                    !.verified_at = height]
                             ELSE humans[a]]
  BY <1>0, EndBlockPeople
<1>2. ASSUME NEW b \in Addr
      PROVE  sweep_logs[b] = balanceOf(b)' - balanceOf(b)
  <2>0. sweep_logs[b] = IF b \in Pending /\ humans'[b].status = "Verified" THEN 1 ELSE 0
    BY <1>2 DEF sweep_logs, humanity_status_logs
  <2>1. CASE b \in done
    <3>1. humans'[b] = [humans[b] EXCEPT !.status = "Verified", !.verified_at = height]
      BY <1>1, <2>1
    <3>2. humans[b].status = "Pending" /\ b \in Pending
      BY <2>1 DEF Pending
    <3>3. humans'[b].status = "Verified"
      BY <1>0, <3>1 DEF Human
    <3>4. QED
      BY <2>0, <3>2, <3>3 DEF balanceOf
  <2>2. CASE b \notin done
    <3>1. humans'[b] = humans[b]
      BY <1>1, <2>2
    <3>2. sweep_logs[b] = 0
      BY <2>0, <3>1 DEF Pending
    <3>3. QED
      BY <3>1, <3>2, SameStatus
  <2>3. QED
    BY <2>1, <2>2
<1>3. QED
  BY <1>2, Emitted

LEMMA ReceiptsKeepBalance == Inv /\ Balanced /\ [NextReceipts]_rvars => Balanced'
<1> SUFFICES ASSUME Inv, Balanced, [NextReceipts]_rvars PROVE Balanced'
  OBVIOUS
<1>0. humans \in [Addr -> Human]
  BY DEF Inv, People, StateTyped
<1>s. ASSUME tokens' = tokens, \A a \in Addr : balanceOf(a)' = balanceOf(a)
      PROVE  Balanced'
  BY <1>s DEF Balanced
<1>1. ASSUME NEW a \in Applicants, NEW jury \in Juries, NEW grade \in Grades,
             request_verification(a, jury, grade), tokens' = tokens
      PROVE  Balanced'
  <2>1. /\ humans[a].status \in {"Unverified", "Revoked"} /\ a \in Addr
        /\ humans' = [humans EXCEPT ![a] = pending]
    BY <1>1, HumanityConstants DEF request_verification
  <2>2. pending.status = "Pending"
    BY DEF pending, unregistered
  <2>3. \A b \in Addr : balanceOf(b)' = balanceOf(b)
    BY <1>0, <2>1, <2>2 DEF balanceOf
  <2>4. QED
    BY <1>1, <1>s, <2>3
<1>2. ASSUME NEW a \in Addr, NEW b \in Addr, vouch(a, b), tokens' = tokens
      PROVE  Balanced'
  <2>1. humans' = [humans EXCEPT ![b].vouches_in = @ \cup {a}]
    BY <1>2 DEF vouch
  <2>2. \A c \in Addr : humans'[c].status = humans[c].status
    BY <1>0, <2>1 DEF Human
  <2>3. \A c \in Addr : balanceOf(c)' = balanceOf(c)
    BY <2>2, SameStatus
  <2>4. QED
    BY <1>2, <1>s, <2>3
<1>3. ASSUME NEW c \in Challengers, NEW a \in Targets, NEW jury \in Juries,
             challenge(c, a, jury), emit(challenge_logs(a))
      PROVE  Balanced'
  BY <1>3, ChallengeEmits
<1>4. ASSUME NEW id \in DOMAIN cases, NEW juror \in Jurors, NEW v \in Ballots,
             submit_verdict(id, juror, v), emit(verdict_logs(id))
      PROVE  Balanced'
  BY <1>4, VerdictEmits
<1>5. ASSUME NEW a \in Addr, NEW n \in Nullifiers, submit_zk_passport_proof(a, n),
             emit(zk_logs(a))
      PROVE  Balanced'
  BY <1>5, PassportEmits
<1>6. ASSUME NEW flagged \in SUBSET (Pending \cap Suspects),
             NEW juries \in [flagged -> Juries], EndBlock(flagged, juries),
             emit(sweep_logs)
      PROVE  Balanced'
  BY <1>6, SweepEmits
<1>7. CASE UNCHANGED rvars
  BY <1>7, <1>s DEF rvars, vars, balanceOf
<1>8. QED
  BY <1>1, <1>2, <1>3, <1>4, <1>5, <1>6, <1>7 DEF NextReceipts

\* Whoever adds up the mints and burns of all receipts, and knows which humans were
\* seeded at genesis, knows what ownerOf and balanceOf answer (build_op_logs,
\* humanity_status_logs, sweep_finalize).
THEOREM TransfersTellOwnership == SpecReceipts => []TransfersFollowOwnership
<1>1. InitReceipts => Inv /\ Balanced
  <2>1. InitReceipts => Inv
    BY InitInv DEF InitReceipts
  <2>2. InitReceipts => Balanced
    BY HumanityConstants DEF InitReceipts, Init, Balanced, balanceOf, unlogged, unregistered
  <2>3. QED
    BY <2>1, <2>2
<1>2. Inv /\ Balanced /\ [NextReceipts]_rvars => Inv' /\ Balanced'
  BY ReceiptsStep, NextKeepsInv, ReceiptsKeepBalance
<1>3. Balanced => TransfersFollowOwnership
  <2> SUFFICES ASSUME Balanced, NEW a \in Addr
               PROVE  /\ unlogged(a) + tokens[a] = balanceOf(a)
                      /\ unlogged(a) + tokens[a] = 1 <=> ownerOf(a) = {a}
    BY DEF TransfersFollowOwnership
  <2>1. unlogged(a) + tokens[a] = balanceOf(a)
    BY DEF Balanced, balanceOf, unlogged
  <2>2. {} # {a}
    OBVIOUS
  <2>3. QED
    BY <2>1, <2>2 DEF balanceOf, ownerOf
<1>4. QED
  BY <1>1, <1>2, <1>3, PTL DEF SpecReceipts

=============================================================================
