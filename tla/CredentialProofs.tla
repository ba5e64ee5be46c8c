-------------------------- MODULE CredentialProofs --------------------------
(***************************************************************************)
(* The passport gate for every field order, window, set of proofs and      *)
(* sequence of governance operations, heights and days unbounded but for   *)
(* the constants; then the status registry for every depth, number of      *)
(* credentials and epochs, whatever deltas reach a holder.  The theorems   *)
(* assume GateConstants, CalendarConstants or RegistryConstants, which TLC *)
(* evaluates for the instance it checks.                                   *)
(***************************************************************************)
EXTENDS ZkPassport, StatusRegistry, SequenceTheorems, WellFoundedInduction, NaturalsInduction,
        TLAPS

(***************************************************************************)
(* The inductive invariants.  Spent is what makes OnePassportOneAddress    *)
(* inductive: every accepted proof is under the chain's own scope and left *)
(* its passport's nullifier behind, in the one encoding that               *)
(* is_canonical_scalar admits.  Pinned ties the record of what governance  *)
(* said to the two maps the gate looks into.                               *)
(***************************************************************************)
Spent ==
  \A x \in accepted :
    x[2].scope = SCOPE /\ Nullifier(x[2].passport, SCOPE) \in nullifiers

Pinned ==
  /\ height \in Nat
  /\ DOMAIN standing = ({"identity"} \cup Kinds) \X Roots
  /\ \A r \in DOMAIN identity :
       r \in Roots /\ identity[r] \in Nat /\ standing[<<"identity", r>>] = identity[r]
  /\ \A e \in DOMAIN ofac :
       e \in Kinds \X Roots /\ ofac[e] \in Nat /\ standing[e] = ofac[e]

\* The verifier and the chain read the same number: below R, reduction is the identity.
LEMMA CanonicalIsReduced ==
  ASSUME NEW n \in Nat, NEW r \in Nat \ {0}, n < r
  PROVE  n % r = n
OBVIOUS

\* What an accepted submission is known to be.
LEMMA Submitted ==
  ASSUME GateConstants, NEW p \in Proofs, NEW signals \in Signals(p),
         NEW subject, NEW u,
         submit_zk_passport_proof(subject, p, signals, [userId |-> u])
  PROVE  /\ p.scope = SCOPE
         /\ signals.nullifier = Nullifier(p.passport, SCOPE)
         /\ signals.nullifier \notin nullifiers
         /\ subject = p.holder
         /\ nullifiers' = nullifiers \cup {signals.nullifier}
         /\ accepted' = accepted \cup {<<subject, p>>}
         /\ UNCHANGED <<anchors, height>>
<1>1. /\ signals.scope = SCOPE /\ signals.scope = p.scope
      /\ signals.nullifier < R /\ signals.nullifier \notin nullifiers
      /\ signals.nullifier % R = Nullifier(p.passport, p.scope)
      /\ u = subject
      /\ <<"hash160", [userId |-> u]>> = signals.user_identifier
      /\ signals.user_identifier = <<"hash160", [userId |-> p.holder]>>
  BY DEF submit_zk_passport_proof, verify_passport, reduce, is_canonical_scalar, bound,
         user_identifier_hash
<1>2. signals.nullifier \in Nat
  <2>1. PICK w \in Widths : signals.nullifier = Nullifier(p.passport, p.scope) + w * R
    <3>1. PICK w \in Widths, v \in Addr : signals = encoded(p, w, v)
      BY DEF Signals
    <3>2. QED
      BY <3>1 DEF encoded
  <2>2. Nullifier(p.passport, p.scope) \in Nat /\ w \in Nat /\ R \in Nat
    <3>1. R \in Nat /\ Widths \subseteq Nat
      BY DEF GateConstants
    <3>2. Nullifier(p.passport, p.scope) \in 0..(R - 1)
      BY Zenon DEF GateConstants
    <3>3. QED
      BY <3>1, <3>2
  <2>3. w * R \in Nat
    BY <2>2
  <2>4. QED
    BY <2>1, <2>2, <2>3
<1>3. signals.nullifier = Nullifier(p.passport, SCOPE)
  <2>1. signals.nullifier % R = signals.nullifier
    BY <1>1, <1>2, CanonicalIsReduced DEF GateConstants
  <2>2. QED
    BY <1>1, <2>1
<1>4. subject = p.holder
  <2>1. [userId |-> u] = [userId |-> p.holder]
    BY <1>1
  <2>2. [userId |-> u].userId = [userId |-> p.holder].userId
    BY <2>1
  <2>3. QED
    BY <1>1, <2>2
<1>5. /\ nullifiers' = nullifiers \cup {signals.nullifier}
      /\ accepted' = accepted \cup {<<subject, p>>}
      /\ UNCHANGED <<anchors, height>>
  BY DEF submit_zk_passport_proof, clock
<1>6. QED
  BY <1>1, <1>3, <1>4, <1>5

\* No other step accepts anybody or frees a nullifier.
LEMMA OnlySubmissionsAccept ==
  ASSUME [Next]_vars
  PROVE  \/ accepted' = accepted /\ nullifiers' = nullifiers
         \/ \E p \in Proofs : \E signals \in Signals(p), subject, u \in Addr :
              submit_zk_passport_proof(subject, p, signals, [userId |-> u])
BY DEF Next, vars, people, register_csca, revoke_csca, pin_self_identity_root,
       pin_self_ofac_root, retire_self_root, Governs, Lifecycle, Tick

LEMMA NextKeepsAccepted ==
  ASSUME GateConstants, Spent, OnePassportOneAddress, BoundToProver, [Next]_vars
  PROVE  Spent' /\ OnePassportOneAddress' /\ BoundToProver'
<1>1. CASE accepted' = accepted /\ nullifiers' = nullifiers
  BY <1>1 DEF Spent, OnePassportOneAddress, BoundToProver
<1>2. ASSUME NEW p \in Proofs, NEW signals \in Signals(p), NEW subject, NEW u,
             submit_zk_passport_proof(subject, p, signals, [userId |-> u])
      PROVE  Spent' /\ OnePassportOneAddress' /\ BoundToProver'
  <2>1. /\ p.scope = SCOPE
        /\ signals.nullifier = Nullifier(p.passport, SCOPE)
        /\ signals.nullifier \notin nullifiers
        /\ subject = p.holder
        /\ nullifiers' = nullifiers \cup {signals.nullifier}
        /\ accepted' = accepted \cup {<<subject, p>>}
    BY <1>2, Submitted
  <2>2. Spent'
    BY <2>1 DEF Spent
  <2>3. \A x \in accepted : x[2].passport # p.passport
    BY <2>1 DEF Spent
  <2>4. OnePassportOneAddress'
    BY <2>1, <2>3 DEF OnePassportOneAddress
  <2>5. BoundToProver'
    BY <2>1 DEF BoundToProver
  <2>6. QED
    BY <2>2, <2>4, <2>5
<1>3. QED
  BY <1>1, <1>2, OnlySubmissionsAccept

\* Pins and retirements change what governance says and what the gate reads alike.
LEMMA NextKeepsPinned ==
  ASSUME GateConstants, Pinned, [Next]_vars
  PROVE  Pinned'
<1>s. ASSUME UNCHANGED anchors, height' \in Nat
      PROVE  Pinned'
  BY <1>s DEF anchors, Pinned
<1>1. ASSUME NEW p \in Proofs, NEW signals \in Signals(p), NEW subject, NEW u,
             submit_zk_passport_proof(subject, p, signals, [userId |-> u])
      PROVE  Pinned'
  <2>1. UNCHANGED <<anchors, height>>
    BY <1>1, Submitted
  <2>2. QED
    BY <1>s, <2>1 DEF Pinned
<1>2. ASSUME NEW caller, NEW key, register_csca(caller, key) \/ revoke_csca(caller, key)
      PROVE  Pinned'
  <2>1. UNCHANGED <<identity, ofac, standing, height>>
    BY <1>2 DEF register_csca, revoke_csca, Governs, clock
  <2>2. QED
    BY <2>1 DEF Pinned
<1>3. ASSUME NEW caller, NEW root \in Roots, pin_self_identity_root(caller, root)
      PROVE  Pinned'
  <2>1. /\ identity' = set(identity, root, height)
        /\ standing' = [standing EXCEPT ![<<"identity", root>>] = height]
        /\ ofac' = ofac /\ height' = height
    BY <1>3 DEF pin_self_identity_root, Governs, clock
  <2>2. /\ DOMAIN identity' = DOMAIN identity \cup {root}
        /\ identity'[root] = height
        /\ \A r \in DOMAIN identity : r # root => identity'[r] = identity[r]
    BY <2>1 DEF set
  <2>3. <<"identity", root>> \in DOMAIN standing
    BY DEF Pinned
  <2>4. /\ DOMAIN standing' = DOMAIN standing
        /\ standing'[<<"identity", root>>] = height
        /\ \A s \in DOMAIN standing : s # <<"identity", root>> => standing'[s] = standing[s]
    BY <2>1, <2>3
  <2>5. \A r \in DOMAIN identity' :
          r \in Roots /\ identity'[r] \in Nat /\ standing'[<<"identity", r>>] = identity'[r]
    BY <2>2, <2>4 DEF Pinned
  <2>6. \A e \in DOMAIN ofac :
          e \in Kinds \X Roots /\ ofac[e] \in Nat /\ standing'[e] = ofac[e]
    BY <2>4 DEF Pinned, GateConstants
  <2>7. QED
    BY <2>1, <2>4, <2>5, <2>6 DEF Pinned
<1>4. ASSUME NEW caller, NEW kind \in Kinds, NEW root \in Roots,
             pin_self_ofac_root(caller, kind, root)
      PROVE  Pinned'
  <2>1. /\ ofac' = set(ofac, <<kind, root>>, height)
        /\ standing' = [standing EXCEPT ![<<kind, root>>] = height]
        /\ identity' = identity /\ height' = height
    BY <1>4 DEF pin_self_ofac_root, Governs, clock
  <2>2. /\ DOMAIN ofac' = DOMAIN ofac \cup {<<kind, root>>}
        /\ ofac'[<<kind, root>>] = height
        /\ \A e \in DOMAIN ofac : e # <<kind, root>> => ofac'[e] = ofac[e]
    BY <2>1 DEF set
  <2>3. <<kind, root>> \in DOMAIN standing
    BY DEF Pinned
  <2>4. /\ DOMAIN standing' = DOMAIN standing
        /\ standing'[<<kind, root>>] = height
        /\ \A s \in DOMAIN standing : s # <<kind, root>> => standing'[s] = standing[s]
    BY <2>1, <2>3
  <2>5. \A e \in DOMAIN ofac' :
          e \in Kinds \X Roots /\ ofac'[e] \in Nat /\ standing'[e] = ofac'[e]
    BY <2>2, <2>4 DEF Pinned
  <2>6. \A r \in DOMAIN identity :
          r \in Roots /\ identity[r] \in Nat /\ standing'[<<"identity", r>>] = identity[r]
    BY <2>4 DEF Pinned, GateConstants
  <2>7. QED
    BY <2>1, <2>4, <2>5, <2>6 DEF Pinned
<1>5. ASSUME NEW caller, NEW root \in Roots, retire_self_root(caller, root)
      PROVE  Pinned'
  <2>1. /\ identity' = [r \in DOMAIN identity \ {root} |-> identity[r]]
        /\ ofac' = [e \in {o \in DOMAIN ofac : o[2] # root} |-> ofac[e]]
        /\ standing' = [s \in DOMAIN standing |-> IF s[2] = root THEN -1 ELSE standing[s]]
        /\ height' = height
    BY <1>5 DEF retire_self_root, without, Governs, clock
  <2>2. /\ DOMAIN identity' = DOMAIN identity \ {root}
        /\ \A r \in DOMAIN identity' : identity'[r] = identity[r] /\ r # root
    BY <2>1
  <2>3. /\ DOMAIN ofac' = {o \in DOMAIN ofac : o[2] # root}
        /\ \A e \in DOMAIN ofac' : ofac'[e] = ofac[e] /\ e[2] # root
    BY <2>1
  <2>4. /\ DOMAIN standing' = DOMAIN standing
        /\ \A s \in DOMAIN standing : s[2] # root => standing'[s] = standing[s]
    BY <2>1
  <2>5. \A r \in DOMAIN identity' :
          r \in Roots /\ identity'[r] \in Nat /\ standing'[<<"identity", r>>] = identity'[r]
    BY <2>2, <2>4 DEF Pinned
  <2>6. \A e \in DOMAIN ofac' :
          e \in Kinds \X Roots /\ ofac'[e] \in Nat /\ standing'[e] = ofac'[e]
    BY <2>3, <2>4 DEF Pinned
  <2>7. QED
    BY <2>1, <2>4, <2>5, <2>6 DEF Pinned
<1>6. ASSUME NEW a, NEW s, Lifecycle(a, s)
      PROVE  Pinned'
  BY <1>s, <1>6 DEF Lifecycle, clock, Pinned
<1>7. CASE Tick
  BY <1>s, <1>7 DEF Tick, Pinned
<1>8. CASE UNCHANGED vars
  BY <1>s, <1>8 DEF vars, clock, Pinned
<1>9. QED
  BY <1>1, <1>2, <1>3, <1>4, <1>5, <1>6, <1>7, <1>8 DEF Next

LEMMA InitPinned ==
  ASSUME GateConstants, Init PROVE Pinned
<1>1. /\ identity = [r \in GenesisRoots |-> 0] /\ ofac = [o \in GenesisOfac |-> 0]
      /\ height = 0
      /\ standing = [s \in ({"identity"} \cup Kinds) \X Roots |->
                   IF s \in GenesisOfac \/ (s[1] = "identity" /\ s[2] \in GenesisRoots)
                     THEN 0 ELSE -1]
  BY DEF Init
<1>2. \A r \in GenesisRoots : r \in Roots /\ standing[<<"identity", r>>] = 0
  BY <1>1 DEF GateConstants
<1>3. \A e \in GenesisOfac : e \in Kinds \X Roots /\ standing[e] = 0
  BY <1>1 DEF GateConstants
<1>4. QED
  BY <1>1, <1>2, <1>3 DEF Pinned

\* An accepted submission used roots pinned in their roles, within the window.
LEMMA AdmittedByPins ==
  ASSUME GateConstants, Pinned, [Next]_vars, NEW x \in accepted' \ accepted,
         NEW role \in {<<"identity", x[2].root>>} \cup {<<k, x[2].ofac[k]>> : k \in Kinds}
  PROVE  standing[role] >= 0 /\ height - standing[role] <= SELF_ROOT_WINDOW_BLOCKS
<1>1. accepted' # accepted
  OBVIOUS
<1>2. PICK p \in Proofs : \E signals \in Signals(p), subject, u \in Addr :
        submit_zk_passport_proof(subject, p, signals, [userId |-> u])
  BY <1>1, OnlySubmissionsAccept
<1>3. PICK signals \in Signals(p), subject \in Addr, u \in Addr :
        submit_zk_passport_proof(subject, p, signals, [userId |-> u])
  BY <1>2
<1>4. x = <<subject, p>>
  BY <1>3, Submitted
<1>5. /\ signals.root = p.root /\ signals.ofac = p.ofac
      /\ self_identity_root_accepted(p.root)
      /\ \A k \in Kinds : self_ofac_root_accepted(k, p.ofac[k])
  BY <1>3 DEF submit_zk_passport_proof, verify_passport
<1>6. CASE role = <<"identity", p.root>>
  BY <1>5, <1>6 DEF self_identity_root_accepted, within, Pinned
<1>7. ASSUME NEW k \in Kinds, role = <<k, p.ofac[k]>>
      PROVE  standing[role] >= 0 /\ height - standing[role] <= SELF_ROOT_WINDOW_BLOCKS
  BY <1>5, <1>7 DEF self_ofac_root_accepted, within, Pinned
<1>8. QED
  BY <1>4, <1>6, <1>7

(***************************************************************************)
(* The theorems.                                                           *)
(***************************************************************************)
LEMMA InitAccepted == Init => Spent /\ OnePassportOneAddress /\ BoundToProver
BY DEF Init, Spent, OnePassportOneAddress, BoundToProver

\* One passport, one human, whatever the sender does to the nullifier's encoding and
\* whatever became of the first human (submit_zk_passport_proof, is_canonical_scalar).
THEOREM OnePassport ==
  ASSUME GateConstants PROVE Spec => []OnePassportOneAddress
<1> DEFINE I == Spent /\ OnePassportOneAddress /\ BoundToProver
<1>1. Init => I
  BY InitAccepted
<1>2. I /\ [Next]_vars => I'
  BY NextKeepsAccepted
<1>3. I => OnePassportOneAddress
  OBVIOUS
<1> HIDE DEF I
<1>4. QED
  BY <1>1, <1>2, <1>3, PTL DEF Spec

\* A relayed proof is worth nothing: only the address its holder committed to is ever
\* accepted with it (bound, user_identifier_hash).
THEOREM ProverBound ==
  ASSUME GateConstants PROVE Spec => []BoundToProver
<1> DEFINE I == Spent /\ OnePassportOneAddress /\ BoundToProver
<1>1. Init => I
  BY InitAccepted
<1>2. I /\ [Next]_vars => I'
  BY NextKeepsAccepted
<1>3. I => BoundToProver
  OBVIOUS
<1> HIDE DEF I
<1>4. QED
  BY <1>1, <1>2, <1>3, PTL DEF Spec

\* Forward invalidation: a root that was retired, or whose pin left the window, admits
\* nobody in any role (retire_self_root, self_identity_root_accepted, self_ofac_root_
\* accepted), for every order of pins, retirements and submissions.
THEOREM RetiredRootsAdmitNobody ==
  ASSUME GateConstants PROVE Spec => RetiredAdmitsNobody
<1> DEFINE A ==
      \A x \in accepted' \ accepted :
        \A role \in {<<"identity", x[2].root>>} \cup {<<k, x[2].ofac[k]>> : k \in Kinds} :
          standing[role] >= 0 /\ height - standing[role] <= SELF_ROOT_WINDOW_BLOCKS
<1>1. Init => Pinned
  BY InitPinned
<1>2. Pinned /\ [Next]_vars => Pinned'
  BY NextKeepsPinned
<1>3. Pinned /\ [Next]_vars => [A]_vars
  BY AdmittedByPins
<1>4. Spec => [][A]_vars
  <2> HIDE DEF A
  <2>1. QED
    BY <1>1, <1>2, <1>3, PTL DEF Spec
<1>5. QED
  BY <1>4, PTL DEF RetiredAdmitsNobody

-----------------------------------------------------------------------------
(***************************************************************************)
(* The civil date.  days_from_civil counts the days in one closed form,    *)
(* from the first of March of a 400-year era; day_number adds up years,    *)
(* leap days and months.  They agree on every day from 2000 on, and        *)
(* day_number itself grows by one from each day to the next.               *)
(***************************************************************************)

\* The days of the years before y, counted in eras or at once.
years(y) == 365 * y + y \div 4 - y \div 100 + y \div 400

LEMMA EraIsYears ==
  ASSUME NEW y \in Nat
  PROVE  (y \div 400) * 146097 + (y - (y \div 400) * 400) * 365
           + (y - (y \div 400) * 400) \div 4 - (y - (y \div 400) * 400) \div 100 = years(y)
<1> DEFINE era == y \div 400
           yoe == y - era * 400
<1>1. era \in Nat /\ yoe \in 0..399 /\ y = 400 * era + yoe
  OBVIOUS
<1>2. y \div 4 = 100 * era + yoe \div 4
  BY <1>1
<1>3. y \div 100 = 4 * era + yoe \div 100
  BY <1>1
<1>4. yoe \div 4 \in Nat /\ yoe \div 100 \in Nat
  BY <1>1
<1> HIDE DEF yoe
<1>5. era * 146097 + yoe * 365 + yoe \div 4 - yoe \div 100 = years(y)
  BY <1>1, <1>2, <1>3, <1>4 DEF years
<1>6. QED
  BY <1>5 DEF yoe

\* A year is longer by its leap day.
LEMMA YearsStep ==
  ASSUME NEW y \in Nat \ {0}
  PROVE  /\ years(y) = years(y - 1) + 365 + (IF leap(y) THEN 1 ELSE 0)
         /\ years(y) \in Int /\ years(y - 1) \in Int
<1>1. y \div 4 = (y - 1) \div 4 + (IF y % 4 = 0 THEN 1 ELSE 0)
  OBVIOUS
<1>2. y \div 100 = (y - 1) \div 100 + (IF y % 100 = 0 THEN 1 ELSE 0)
  OBVIOUS
<1>3. y \div 400 = (y - 1) \div 400 + (IF y % 400 = 0 THEN 1 ELSE 0)
  OBVIOUS
<1>4. (y % 400 = 0 => y % 100 = 0) /\ (y % 100 = 0 => y % 4 = 0)
  OBVIOUS
<1>5. /\ y \div 4 \in Int /\ y \div 100 \in Int /\ y \div 400 \in Int
      /\ (y - 1) \div 4 \in Int /\ (y - 1) \div 100 \in Int /\ (y - 1) \div 400 \in Int
  OBVIOUS
<1>6. QED
  BY <1>1, <1>2, <1>3, <1>4, <1>5 DEF years, leap

\* The days before a month of a year that begins in March.
LEMMA MonthsFromMarch ==
  ASSUME NEW m \in 1..12
  PROVE  (153 * (IF m > 2 THEN m - 3 ELSE m + 9) + 2) \div 5
           = <<306, 337, 0, 31, 61, 92, 122, 153, 184, 214, 245, 275>>[m]
<1>1. m \in {1, 2, 3, 4, 5, 6, 7, 8, 9, 10, 11, 12}
  OBVIOUS
<1>2. QED
  BY <1>1

\* Hinnant's closed form, and the count by years and months, give a day the same number.
LEMMA ClosedFormCounts ==
  ASSUME NEW d, IsDay(d)
  PROVE  /\ days_from_civil(2000 + d.year, d.month, d.day) = day_number(d)
         /\ day_number(d) \in Nat
<1> DEFINE y == 2000 + d.year
           y1 == IF d.month <= 2 THEN y - 1 ELSE y
           march == (153 * (IF d.month > 2 THEN d.month - 3 ELSE d.month + 9) + 2) \div 5
<1>1. d.year \in Nat /\ d.month \in 1..12 /\ d.day \in 1..31
  BY DEF IsDay
<1>2. y \in Nat \ {0} /\ y1 \in Nat /\ y >= 2000 /\ y - 1 \in Nat
  BY <1>1
<1>3. march = <<306, 337, 0, 31, 61, 92, 122, 153, 184, 214, 245, 275>>[d.month]
  BY <1>1, MonthsFromMarch
<1>4. days_from_civil(y, d.month, d.day) = years(y1) + march + d.day - 1 - 719468
  <2>1. (y1 \div 400) * 146097 + (y1 - (y1 \div 400) * 400) * 365
          + (y1 - (y1 \div 400) * 400) \div 4 - (y1 - (y1 \div 400) * 400) \div 100 = years(y1)
    <3>1. y1 \in Nat
      BY <1>2
    <3> HIDE DEF y1
    <3>2. QED
      BY <3>1, EraIsYears
  <2>2. /\ y1 \div 400 \in Int /\ (y1 - (y1 \div 400) * 400) \div 4 \in Int
        /\ (y1 - (y1 \div 400) * 400) \div 100 \in Int /\ y1 \in Int
    BY <1>2
  <2>3. march \in Int
    BY <1>1
  <2>4. days_from_civil(y, d.month, d.day)
          = (y1 \div 400) * 146097
              + ((y1 - (y1 \div 400) * 400) * 365 + (y1 - (y1 \div 400) * 400) \div 4
                   - (y1 - (y1 \div 400) * 400) \div 100 + (march + d.day - 1)) - 719468
    BY DEF days_from_civil
  <2> HIDE DEF y1, march
  <2>5. QED
    BY <1>1, <2>1, <2>2, <2>3, <2>4
<1>5. years(y) = years(y - 1) + 365 + (IF leap(y) THEN 1 ELSE 0)
      /\ years(y) \in Int /\ years(y - 1) \in Int
  BY <1>2, YearsStep
<1>6. leap_years(y) = years(y - 1) - 365 * (y - 1) - 477
  <2>1. (y - 1) \div 4 \in Int /\ (y - 1) \div 100 \in Int /\ (y - 1) \div 400 \in Int
    BY <1>2
  <2>2. QED
    BY <1>2, <2>1 DEF leap_years, years
<1>7. day_number(d) = 365 * (y - 1970) + leap_years(y) + days_before_month(y, d.month)
                        + d.day - 1
  BY DEF day_number
<1>8. days_before_month(y, d.month)
        = <<0, 31, 59, 90, 120, 151, 181, 212, 243, 273, 304, 334>>[d.month]
            + (IF d.month > 2 /\ leap(y) THEN 1 ELSE 0)
  BY DEF days_before_month
<1>9. years(y - 1) >= 365 * 1999 + 484
  <2>1. (y - 1) \div 4 - (y - 1) \div 100 \in Nat /\ (y - 1) \div 400 \in Nat
        /\ (y - 1) \div 4 - (y - 1) \div 100 >= 480 /\ (y - 1) \div 400 >= 4
    BY <1>2
  <2>2. QED
    BY <1>2, <2>1 DEF years
<1>10. d.month \in {1, 2, 3, 4, 5, 6, 7, 8, 9, 10, 11, 12}
  BY <1>1
<1> HIDE DEF march
<1>11. days_from_civil(y, d.month, d.day) = day_number(d)
  <2>1. y1 = IF d.month <= 2 THEN y - 1 ELSE y
    OBVIOUS
  <2> HIDE DEF y, y1
  <2>2. QED
    BY <1>1, <1>2, <1>3, <1>4, <1>5, <1>6, <1>7, <1>8, <1>10, <2>1
<1>12. day_number(d) \in Nat
  <2>1. PICK before, s : before = days_before_month(y, d.month) /\ s = years(y - 1)
    OBVIOUS
  <2> HIDE DEF y, y1
  <2>2. before \in Nat
    BY <1>8, <1>10, <2>1
  <2>3. s \in Int /\ s >= 365 * 1999 + 484 /\ leap_years(y) = s - 365 * (y - 1) - 477
    BY <1>5, <1>6, <1>9, <2>1
  <2>4. y \in Int /\ d.day \in Nat /\ d.day >= 1
    BY <1>1, <1>2
  <2>5. day_number(d) = 365 * (y - 1970) + leap_years(y) + before + d.day - 1
    BY <1>7, <2>1
  <2>6. QED
    BY <2>2, <2>3, <2>4, <2>5
<1>13. QED
  BY <1>11, <1>12

\* The count goes up by one from a day to the next, and the next is a day again.
LEMMA NextDayIsNext ==
  ASSUME NEW d, IsDay(d)
  PROVE  IsDay(next_day(d)) /\ day_number(next_day(d)) = day_number(d) + 1
<1> DEFINE y == 2000 + d.year
<1>1. /\ d \in [year : Nat, month : 1..12, day : 1..31]
      /\ d.year \in Nat /\ d.month \in 1..12 /\ d.day \in 1..31 /\ y \in Nat \ {0}
      /\ d.day <= month_length(y, d.month)
  BY DEF IsDay
<1>2. d.month \in {1, 2, 3, 4, 5, 6, 7, 8, 9, 10, 11, 12}
  BY <1>1
<1>3. \A yy \in Nat, m \in 1..12 : month_length(yy, m) \in {28, 29, 30, 31}
  BY DEF month_length
<1>4. leap_years(y) \in Int /\ leap_years(y + 1) \in Int
      /\ leap_years(y + 1) = leap_years(y) + (IF leap(y) THEN 1 ELSE 0)
  <2>1. leap_years(y) = years(y - 1) - 365 * (y - 1) - 477
    <3>1. (y - 1) \div 4 \in Int /\ (y - 1) \div 100 \in Int /\ (y - 1) \div 400 \in Int
      BY <1>1
    <3>2. QED
      BY <1>1, <3>1 DEF leap_years, years
  <2>2. leap_years(y + 1) = years(y) - 365 * y - 477
    <3>1. y \div 4 \in Int /\ y \div 100 \in Int /\ y \div 400 \in Int /\ (y + 1) - 1 = y
      BY <1>1
    <3>2. QED
      BY <1>1, <3>1 DEF leap_years, years
  <2>3. years(y) = years(y - 1) + 365 + (IF leap(y) THEN 1 ELSE 0)
        /\ years(y) \in Int /\ years(y - 1) \in Int
    BY <1>1, YearsStep
  <2> HIDE DEF y
  <2>4. QED
    BY <1>1, <2>1, <2>2, <2>3
<1>5. day_number(d) = 365 * (y - 1970) + leap_years(y) + days_before_month(y, d.month)
                        + d.day - 1
  BY DEF day_number
<1>6. CASE d.day < month_length(y, d.month)
  <2>1. next_day(d) = [year |-> d.year, month |-> d.month, day |-> d.day + 1]
    BY <1>1, <1>6 DEF next_day
  <2>2. d.day + 1 \in 1..31 /\ d.day + 1 <= month_length(y, d.month)
    <3>1. month_length(y, d.month) \in {28, 29, 30, 31}
      BY <1>1, <1>3
    <3>2. QED
      BY <1>1, <1>6, <3>1
  <2>3. IsDay(next_day(d))
    BY <1>1, <2>1, <2>2 DEF IsDay
  <2>4. day_number(next_day(d))
          = 365 * (y - 1970) + leap_years(y) + days_before_month(y, d.month) + (d.day + 1) - 1
    BY <2>1 DEF day_number
  <2>5. days_before_month(y, d.month) \in Int
    BY <1>2 DEF days_before_month
  <2> HIDE DEF y
  <2>6. QED
    BY <1>1, <1>4, <1>5, <2>3, <2>4, <2>5
<1>7. CASE ~(d.day < month_length(y, d.month)) /\ d.month < 12
  <2>1. next_day(d) = [year |-> d.year, month |-> d.month + 1, day |-> 1]
    BY <1>1, <1>7 DEF next_day
  <2>2. d.month + 1 \in 1..12 /\ month_length(y, d.month + 1) \in {28, 29, 30, 31}
    BY <1>1, <1>3, <1>7
  <2>3. IsDay(next_day(d))
    BY <1>1, <2>1, <2>2 DEF IsDay
  <2>4. day_number(next_day(d))
          = 365 * (y - 1970) + leap_years(y) + days_before_month(y, d.month + 1) + 1 - 1
    BY <2>1 DEF day_number
  <2>5. d.day = month_length(y, d.month)
    BY <1>1, <1>3, <1>7
  <2>6. d.month \in {1, 2, 3, 4, 5, 6, 7, 8, 9, 10, 11}
    BY <1>2, <1>7
  <2>7. /\ days_before_month(y, d.month) \in Int
        /\ days_before_month(y, d.month + 1)
             = days_before_month(y, d.month) + month_length(y, d.month)
    <3> HIDE DEF y
    <3>1. QED
      BY <2>6 DEF days_before_month, month_length
  <2> HIDE DEF y
  <2>8. QED
    BY <1>1, <1>4, <1>5, <2>3, <2>4, <2>5, <2>7
<1>8. CASE ~(d.day < month_length(y, d.month)) /\ ~(d.month < 12)
  <2>1. d.month = 12 /\ month_length(y, 12) = 31 /\ d.day = 31
    BY <1>1, <1>8 DEF month_length
  <2>2. next_day(d) = [year |-> d.year + 1, month |-> 1, day |-> 1]
    BY <1>1, <1>8 DEF next_day
  <2>3. IsDay(next_day(d))
    <3>1. /\ [year |-> d.year + 1, month |-> 1, day |-> 1]
                \in [year : Nat, month : 1..12, day : 1..31]
          /\ month_length(2000 + (d.year + 1), 1) = 31
      BY <1>1 DEF month_length
    <3>2. QED
      BY <2>2, <3>1 DEF IsDay
  <2>4. day_number(next_day(d))
          = 365 * ((y + 1) - 1970) + leap_years(y + 1) + days_before_month(y + 1, 1) + 1 - 1
    <3>1. 2000 + (d.year + 1) = y + 1
      BY <1>1
    <3>2. QED
      BY <2>2, <3>1 DEF day_number
  <2>5. /\ days_before_month(y + 1, 1) = 0
        /\ days_before_month(y, 12) = 334 + (IF leap(y) THEN 1 ELSE 0)
    BY DEF days_before_month
  <2> HIDE DEF y
  <2>6. QED
    BY <1>1, <1>4, <1>5, <2>1, <2>3, <2>4, <2>5
<1>9. QED
  BY <1>6, <1>7, <1>8

\* The block's time is a quarter of a day of the calendar.
Dated == IsDay(today) /\ tod \in 0..(DAY - 1)

LEMMA InitDated ==
  ASSUME CalendarConstants, Init PROVE Dated
BY DEF CalendarConstants, Init, Dated, DAY

\* Only Tick moves the clock.
LEMMA NextKeepsDated ==
  ASSUME Dated, [Next]_vars PROVE Dated'
<1>1. CASE UNCHANGED clock
  BY <1>1 DEF clock, Dated
<1>2. CASE Tick
  <2>1. IsDay(next_day(today))
    BY NextDayIsNext DEF Dated
  <2>2. (tod + 3) % DAY \in 0..(DAY - 1)
    BY DEF Dated, DAY
  <2>3. QED
    BY <1>2, <2>1, <2>2 DEF Tick, Dated
<1>3. QED
  BY <1>1, <1>2 DEF Next, vars, submit_zk_passport_proof, register_csca, revoke_csca,
                    pin_self_identity_root, pin_self_ofac_root, retire_self_root, Governs,
                    Lifecycle

LEMMA DatedIsCivil ==
  ASSUME CalendarConstants, Dated PROVE FreshnessIsCivil
<1> SUFFICES ASSUME NEW d, IsDay(d)
             PROVE  fresh(d) <=> DAY * day_number(d) - now
                                   \in (-SELF_DATE_WINDOW)..SELF_DATE_WINDOW
  BY DEF FreshnessIsCivil
<1>1. /\ days_from_civil(2000 + d.year, d.month, d.day) = day_number(d)
      /\ day_number(d) \in Nat
  BY ClosedFormCounts
<1>2. current_date_to_epoch(d) = DAY * day_number(d)
  <2>1. d.month \in 1..12 /\ d.day \in 1..31
    BY DEF IsDay
  <2>2. QED
    BY <1>1, <2>1 DEF current_date_to_epoch
<1>3. day_number(today) \in Nat
  BY ClosedFormCounts DEF Dated
<1>4. now \in Int
  BY <1>3 DEF now, Dated, DAY
<1>5. QED
  BY <1>1, <1>2, <1>4 DEF fresh, SELF_DATE_WINDOW, DAY

\* Whatever the day the chain starts on and however many blocks it makes, a proof's date
\* is taken as fresh exactly when its midnight is within two days of the block's time by
\* the calendar, ends of months and years and leap days of every century included
\* (current_date_to_epoch, check of signals 10 to 15).
THEOREM FreshByTheCalendar ==
  ASSUME CalendarConstants PROVE Spec => []FreshnessIsCivil
<1>1. Init => Dated
  BY InitDated
<1>2. Dated /\ [Next]_vars => Dated'
  BY NextKeepsDated
<1>3. Dated => FreshnessIsCivil
  BY DatedIsCivil
<1>4. QED
  BY <1>1, <1>2, <1>3, PTL DEF Spec

\* A step that changes the day goes to the next one.
DayByDay == today' # today => day_number(today') = day_number(today) + 1

\* The calendar the date is held against counts days: from a day to the next, by one.
THEOREM TheCalendarCountsDays ==
  ASSUME CalendarConstants
  PROVE  Spec => [][DayByDay]_vars
<1>1. Init => Dated
  BY InitDated
<1>2. Dated /\ [Next]_vars => Dated'
  BY NextKeepsDated
<1>3. Dated /\ [Next]_vars => [DayByDay]_vars
  <2> SUFFICES ASSUME Dated, [Next]_vars, today' # today
               PROVE  day_number(today') = day_number(today) + 1
    BY DEF DayByDay
  <2>1. today' = next_day(today)
    BY DEF Next, vars, clock, submit_zk_passport_proof, register_csca, revoke_csca, Tick,
           pin_self_identity_root, pin_self_ofac_root, retire_self_root, Governs, Lifecycle
  <2>2. QED
    BY <2>1, NextDayIsNext DEF Dated
<1>4. QED
  BY <1>1, <1>2, <1>3, PTL DEF Spec

-----------------------------------------------------------------------------
\* A nonempty set of naturals has a least element.
LEMMA LeastNat ==
  ASSUME NEW T, T \subseteq Nat, T # {}
  PROVE  \E x \in T : \A y \in T : x <= y
<1> DEFINE less == OpToRel(<, Nat)
<1>1. PICK x \in T : \A y \in T : ~(<<y, x>> \in less)
  <2>1. IsWellFoundedOn(less, Nat)
    BY NatLessThanWellFounded
  <2> HIDE DEF less
  <2>2. QED
    BY <2>1, WFMin
<1>2. ASSUME NEW y \in T, y < x PROVE FALSE
  <2>1. <<y, x>> \in Nat \X Nat /\ <<y, x>>[1] = y /\ <<y, x>>[2] = x
    OBVIOUS
  <2>2. <<y, x>>[1] < <<y, x>>[2]
    BY <1>2, <2>1
  <2>3. <<y, x>> \in less
    BY <2>1, <2>2, Zenon DEF OpToRel
  <2> HIDE DEF less
  <2>4. QED
    BY <1>1, <2>3
<1> HIDE DEF less
<1>3. \A y \in T : x <= y
  <2>1. \A y \in T : y \in Nat /\ x \in Nat /\ ~(y < x)
    BY <1>2
  <2>2. QED
    BY <2>1
<1>4. QED
  BY <1>3

(***************************************************************************)
(* The recursive functions and folds of the tree, as the runs they go      *)
(* through.                                                                *)
(***************************************************************************)
\* The indices above a leaf are obtained by halving.
LEMMA ShiftedIs ==
  ASSUME REGISTRY_DEPTH \in Nat, NEW i \in Nat
  PROVE  LET s == Tree!shifted(i)
         IN /\ s[0] = i
            /\ \A k \in 0..REGISTRY_DEPTH : s[k] \in Nat
            /\ \A k \in 0..(REGISTRY_DEPTH - 1) : s[k + 1] = s[k] \div 2
<1> DEFINE n == REGISTRY_DEPTH
           Fix(f, m) == f = [k \in 0..m |-> IF k = 0 THEN i ELSE f[k - 1] \div 2]
           Some(m) == \E f : Fix(f, m)
           S == CHOOSE f : Fix(f, n)
<1>1. Tree!shifted(i) = S
  BY Zenon DEF Tree!shifted
<1> HIDE DEF S
<1>2. Some(0)
  <2>1. PICK f : f = [k \in 0..0 |-> i]
    OBVIOUS
  <2>2. \A k \in 0..0 : k = 0
    OBVIOUS
  <2>3. Fix(f, 0)
    BY <2>1, <2>2
  <2>4. QED
    BY <2>3
<1>3. ASSUME NEW m \in Nat \ {0}, Some(m - 1) PROVE Some(m)
  <2>1. PICK f : Fix(f, m - 1)
    BY <1>3
  <2>2. PICK g : g = [k \in 0..m |-> IF k = m THEN f[m - 1] \div 2 ELSE f[k]]
    OBVIOUS
  <2>3. ASSUME NEW k \in 0..m PROVE g[k] = IF k = 0 THEN i ELSE g[k - 1] \div 2
    <3>1. CASE k = m
      <4>1. k # 0 /\ k - 1 \in 0..m /\ k - 1 # m
        BY <3>1
      <4>2. g[k - 1] = f[m - 1]
        BY <2>2, <3>1, <4>1
      <4>3. QED
        BY <2>2, <3>1, <4>1, <4>2
    <3>2. CASE k # m
      <4>1. k \in 0..(m - 1) /\ (k # 0 => k - 1 \in 0..m /\ k - 1 # m)
        BY <3>2
      <4>2. g[k] = f[k] /\ (k # 0 => g[k - 1] = f[k - 1])
        BY <2>2, <3>2, <4>1
      <4>3. f[k] = IF k = 0 THEN i ELSE f[k - 1] \div 2
        BY <2>1, <4>1
      <4>4. QED
        BY <4>2, <4>3
    <3>3. QED
      BY <3>1, <3>2
  <2>4. Fix(g, m)
    BY <2>2, <2>3
  <2>5. QED
    BY <2>4
<1>4. Some(n)
  <2> DEFINE bad == {m \in Nat : ~Some(m)}
  <2>1. SUFFICES ASSUME bad # {} PROVE FALSE
    OBVIOUS
  <2>2. PICK m \in bad : \A y \in bad : m <= y
    BY <2>1, LeastNat
  <2>3. m \in Nat \ {0}
    BY <1>2, <2>2
  <2>4. m - 1 \in Nat /\ ~(m <= m - 1)
    BY <2>3
  <2>5. Some(m - 1)
    BY <2>2, <2>4
  <2>6. QED
    BY <1>3, <2>2, <2>3, <2>5
<1>5. Fix(S, n)
  BY <1>4, Zenon DEF S
<1>6. S[0] = i
  <2>1. 0 \in 0..n
    OBVIOUS
  <2>2. QED
    BY <1>5, <2>1
<1>7. ASSUME NEW k \in 0..(n - 1) PROVE S[k + 1] = S[k] \div 2
  <2>1. k + 1 \in 0..n /\ k + 1 # 0 /\ (k + 1) - 1 = k
    OBVIOUS
  <2>2. QED
    BY <1>5, <2>1
<1> HIDE DEF Fix, Some
<1>8. \A k \in 0..n : S[k] \in Nat
  <2> DEFINE bad == {k \in 0..n : S[k] \notin Nat}
  <2>1. SUFFICES ASSUME bad # {} PROVE FALSE
    OBVIOUS
  <2>2. bad \subseteq Nat
    OBVIOUS
  <2>3. PICK k \in bad : \A y \in bad : k <= y
    BY <2>1, <2>2, LeastNat
  <2>4. k # 0 /\ k \in 1..n /\ k - 1 \in 0..(n - 1) /\ k - 1 \in 0..n /\ ~(k <= k - 1)
    BY <1>6, <2>3
  <2>5. S[k - 1] \in Nat /\ S[(k - 1) + 1] = S[k - 1] \div 2
    BY <1>7, <2>3, <2>4
  <2>6. S[k - 1] \div 2 \in Nat /\ (k - 1) + 1 = k
    BY <2>4, <2>5
  <2>7. QED
    BY <2>3, <2>5, <2>6
<1>9. QED
  BY <1>1, <1>6, <1>7, <1>8

\* A default node is the pair of the default nodes below it.
LEMMA DefaultsIs ==
  ASSUME REGISTRY_DEPTH \in Nat
  PROVE  /\ Tree!defaults[0] = Zero
         /\ \A k \in 0..(REGISTRY_DEPTH - 1) :
              Tree!defaults[k + 1] = <<Tree!defaults[k], Tree!defaults[k]>>
<1> DEFINE n == REGISTRY_DEPTH
           Fix(f, m) == f = [k \in 0..m |-> IF k = 0 THEN Zero ELSE <<f[k - 1], f[k - 1]>>]
           Some(m) == \E f : Fix(f, m)
           S == CHOOSE f : Fix(f, n)
<1>1. Tree!defaults = S
  BY Zenon DEF Tree!defaults, Tree!registry_node
<1> HIDE DEF S
<1>2. Some(0)
  <2>1. PICK f : f = [k \in 0..0 |-> Zero]
    OBVIOUS
  <2>2. \A k \in 0..0 : k = 0
    OBVIOUS
  <2>3. Fix(f, 0)
    BY <2>1, <2>2
  <2>4. QED
    BY <2>3
<1>3. ASSUME NEW m \in Nat \ {0}, Some(m - 1) PROVE Some(m)
  <2>1. PICK f : Fix(f, m - 1)
    BY <1>3
  <2>2. PICK g : g = [k \in 0..m |-> IF k = m THEN <<f[m - 1], f[m - 1]>> ELSE f[k]]
    OBVIOUS
  <2>3. ASSUME NEW k \in 0..m PROVE g[k] = IF k = 0 THEN Zero ELSE <<g[k - 1], g[k - 1]>>
    <3>1. CASE k = m
      <4>1. k # 0 /\ k - 1 \in 0..m /\ k - 1 # m
        BY <3>1
      <4>2. g[k - 1] = f[m - 1]
        BY <2>2, <3>1, <4>1
      <4>3. QED
        BY <2>2, <3>1, <4>1, <4>2
    <3>2. CASE k # m
      <4>1. k \in 0..(m - 1) /\ (k # 0 => k - 1 \in 0..m /\ k - 1 # m)
        BY <3>2
      <4>2. g[k] = f[k] /\ (k # 0 => g[k - 1] = f[k - 1])
        BY <2>2, <3>2, <4>1
      <4>3. f[k] = IF k = 0 THEN Zero ELSE <<f[k - 1], f[k - 1]>>
        BY <2>1, <4>1
      <4>4. QED
        BY <4>2, <4>3
    <3>3. QED
      BY <3>1, <3>2
  <2>4. Fix(g, m)
    BY <2>2, <2>3
  <2>5. QED
    BY <2>4
<1>4. Some(n)
  <2> DEFINE bad == {m \in Nat : ~Some(m)}
  <2>1. SUFFICES ASSUME bad # {} PROVE FALSE
    OBVIOUS
  <2>2. PICK m \in bad : \A y \in bad : m <= y
    BY <2>1, LeastNat
  <2>3. m \in Nat \ {0}
    BY <1>2, <2>2
  <2>4. m - 1 \in Nat /\ ~(m <= m - 1)
    BY <2>3
  <2>5. Some(m - 1)
    BY <2>2, <2>4
  <2>6. QED
    BY <1>3, <2>2, <2>3, <2>5
<1>5. Fix(S, n)
  BY <1>4, Zenon DEF S
<1>6. S[0] = Zero
  <2>1. 0 \in 0..n
    OBVIOUS
  <2>2. QED
    BY <1>5, <2>1
<1>7. ASSUME NEW k \in 0..(n - 1) PROVE S[k + 1] = <<S[k], S[k]>>
  <2>1. k + 1 \in 0..n /\ k + 1 # 0 /\ (k + 1) - 1 = k
    OBVIOUS
  <2>2. QED
    BY <1>5, <2>1
<1>8. QED
  BY <1>1, <1>6, <1>7

(***************************************************************************)
(* A fold, as the run of values it goes through.                           *)
(***************************************************************************)
LEMMA MaxOfUpTo ==
  ASSUME NEW k \in Nat, NEW s \in SUBSET (1..k), k \in s
  PROVE  Max(s) = k
<1>1. \A y \in s : y \in Nat /\ k >= y
  OBVIOUS
<1>2. \A x \in s : (\A y \in s : x >= y) => x = k
  BY <1>1
<1>3. \E x \in s : \A y \in s : x >= y
  BY <1>1
<1>4. Max(s) \in s /\ \A y \in s : Max(s) >= y
  BY <1>3, Zenon DEF Max
<1>5. QED
  BY <1>2, <1>4


\* The nodes above a leaf, from the siblings along its path.
IsSubtreeRun(run, leaf, i, path, n) ==
  /\ run[0] = leaf
  /\ \A k \in 1..n : run[k] = Tree!parent(run[k - 1], Tree!shifted(i)[k - 1], path[k])
  /\ Tree!subtree_from_path(leaf, i, path, n) = run[n]

LEMMA SubtreeRun ==
  ASSUME NEW leaf, NEW i, NEW path, NEW n \in Nat
  PROVE  \E run : IsSubtreeRun(run, leaf, i, path, n)
<1> DEFINE list == [k \in 1..n |-> k - 1]
           Step(st, k) == Tree!parent(st, Tree!shifted(i)[list[k]], path[list[k] + 1])
           Fix(f, k) == f = [s \in SUBSET (1..k) |->
                               IF s = {} THEN leaf ELSE Step(f[s \ {Max(s)}], Max(s))]
           Some(k) == \E f : Fix(f, k)
           G == CHOOSE f : Fix(f, n)
<1>1. Tree!subtree_from_path(leaf, i, path, n) = G[1..n]
  <2>1. DOMAIN list = 1..n
    OBVIOUS
  <2> HIDE DEF list
  <2>2. Tree!levels(n) = list
    BY Zenon DEF Tree!levels, list
  <2>3. QED
    BY <2>1, <2>2, ZenonT(90)
       DEF Tree!subtree_from_path, Tree!FoldLeft, Tree!MapThenFoldSet, Tree!Max, Max
<1> HIDE DEF Step, G, list
<1>2. Some(0)
  <2>1. PICK f : f = [s \in SUBSET (1..0) |-> leaf]
    OBVIOUS
  <2>2. \A s \in SUBSET (1..0) : s = {}
    OBVIOUS
  <2>3. Fix(f, 0)
    BY <2>1, <2>2
  <2>4. QED
    BY <2>3
<1>3. ASSUME NEW k \in Nat \ {0}, Some(k - 1) PROVE Some(k)
  <2>1. PICK f : Fix(f, k - 1)
    BY <1>3
  <2>2. PICK h : h = [s \in SUBSET (1..k) |->
                        IF k \in s THEN Step(f[s \ {k}], k) ELSE f[s]]
    OBVIOUS
  <2>3. \A s \in SUBSET (1..k) : k \notin s => s \in SUBSET (1..(k - 1))
    OBVIOUS
  <2>4. \A s \in SUBSET (1..(k - 1)) : s \in SUBSET (1..k) /\ k \notin s
    OBVIOUS
  <2>5. \A s \in SUBSET (1..(k - 1)) : h[s] = f[s]
    BY <2>2, <2>4
  <2>6. ASSUME NEW s \in SUBSET (1..k)
        PROVE  h[s] = IF s = {} THEN leaf ELSE Step(h[s \ {Max(s)}], Max(s))
    <3>1. CASE k \in s
      <4>1. Max(s) = k
        BY <3>1, MaxOfUpTo
      <4>2. s \ {k} \in SUBSET (1..(k - 1))
        BY <2>3
      <4>3. h[s \ {k}] = f[s \ {k}]
        BY <2>5, <4>2
      <4>4. QED
        BY <2>2, <3>1, <4>1, <4>3
    <3>2. CASE k \notin s
      <4>1. s \in SUBSET (1..(k - 1)) /\ s \ {Max(s)} \in SUBSET (1..(k - 1))
        BY <2>3, <3>2
      <4>2. h[s] = f[s] /\ h[s \ {Max(s)}] = f[s \ {Max(s)}]
        BY <2>5, <4>1
      <4>3. f[s] = IF s = {} THEN leaf ELSE Step(f[s \ {Max(s)}], Max(s))
        BY <2>1, <4>1
      <4>4. QED
        BY <4>2, <4>3
    <3>3. QED
      BY <3>1, <3>2
  <2>7. Fix(h, k)
    BY <2>2, <2>6
  <2>8. QED
    BY <2>7
<1>4. Some(n)
  <2> DEFINE bad == {k \in Nat : ~Some(k)}
  <2>1. SUFFICES ASSUME bad # {} PROVE FALSE
    OBVIOUS
  <2>2. PICK k \in bad : \A y \in bad : k <= y
    BY <2>1, LeastNat
  <2>3. k \in Nat \ {0}
    BY <1>2, <2>2
  <2>4. k - 1 \in Nat /\ ~(k <= k - 1)
    BY <2>3
  <2>5. Some(k - 1)
    BY <2>2, <2>4
  <2>6. QED
    BY <1>3, <2>2, <2>3, <2>5
<1>5. Fix(G, n)
  BY <1>4, Zenon DEF G
<1>6. PICK run : run = [k \in 0..n |-> G[1..k]]
  OBVIOUS
<1>7. run[0] = leaf
  <2>1. 1..0 = {} /\ {} \in SUBSET (1..n)
    OBVIOUS
  <2>2. G[{}] = leaf
    BY <1>5, <2>1
  <2>3. QED
    BY <1>6, <2>1, <2>2
<1>8. ASSUME NEW k \in 1..n PROVE run[k] = Step(run[k - 1], k)
  <2>1. 1..k \in SUBSET (1..n) /\ 1..k # {} /\ k \in Nat /\ k \in 1..k
    OBVIOUS
  <2>2. Max(1..k) = k
    BY <2>1, MaxOfUpTo
  <2>3. (1..k) \ {k} = 1..(k - 1)
    BY <2>1
  <2>4. G[1..k] = Step(G[1..(k - 1)], k)
    BY <1>5, <2>1, <2>2, <2>3
  <2>5. QED
    BY <1>6, <2>4
<1>9. run[n] = G[1..n]
  BY <1>6
<1>10. \A k \in 1..n : list[k] = k - 1 /\ list[k] + 1 = k
  BY DEF list
<1>11. QED
  BY <1>1, <1>7, <1>8, <1>9, <1>10 DEF Step, IsSubtreeRun

\* The nodes above a leaf that set_leaf writes, and the store as they are written.
IsSetRun(run, nodes, i, leaf) ==
  /\ run[0] = [current |-> leaf, index |-> i, nodes |-> Tree!set_node(nodes, 0, i, leaf)]
  /\ \A k \in 1..REGISTRY_DEPTH : run[k] = Tree!climb(run[k - 1], k - 1)
  /\ Tree!set_leaf(nodes, i, leaf) = run[REGISTRY_DEPTH].nodes

LEMMA SetRun ==
  ASSUME REGISTRY_DEPTH \in Nat, NEW nodes, NEW i, NEW leaf
  PROVE  \E run : IsSetRun(run, nodes, i, leaf)
<1> DEFINE n == REGISTRY_DEPTH
           first == [current |-> leaf, index |-> i, nodes |-> Tree!set_node(nodes, 0, i, leaf)]
           list == [k \in 1..n |-> k - 1]
<1>0. n \in Nat
  OBVIOUS
<1> HIDE DEF first
<1> DEFINE Step(st, k) == Tree!climb(st, list[k])
           Fix(f, k) == f = [s \in SUBSET (1..k) |->
                               IF s = {} THEN first ELSE Step(f[s \ {Max(s)}], Max(s))]
           Some(k) == \E f : Fix(f, k)
           G == CHOOSE f : Fix(f, n)
<1>1. Tree!set_leaf(nodes, i, leaf) = G[1..n].nodes
  <2>1. DOMAIN list = 1..n
    OBVIOUS
  <2> HIDE DEF list
  <2>2. Tree!levels(n) = list
    BY Zenon DEF Tree!levels, list
  <2>3. Tree!set_leaf(nodes, i, leaf) = Tree!FoldLeft(Tree!climb, first, list).nodes
    BY <2>2, Zenon DEF Tree!set_leaf, first
  <2>4. Tree!FoldLeft(Tree!climb, first, list) = G[1..n]
    BY <2>1, Zenon DEF Tree!FoldLeft, Tree!MapThenFoldSet, Tree!Max, Max
  <2>5. QED
    BY <2>3, <2>4, Zenon
<1> HIDE DEF Step, G, list
<1>2. Some(0)
  <2>1. PICK f : f = [s \in SUBSET (1..0) |-> first]
    OBVIOUS
  <2>2. \A s \in SUBSET (1..0) : s = {}
    OBVIOUS
  <2>3. Fix(f, 0)
    BY <2>1, <2>2
  <2>4. QED
    BY <2>3
<1>3. ASSUME NEW k \in Nat \ {0}, Some(k - 1) PROVE Some(k)
  <2>1. PICK f : Fix(f, k - 1)
    BY <1>3
  <2>2. PICK h : h = [s \in SUBSET (1..k) |->
                        IF k \in s THEN Step(f[s \ {k}], k) ELSE f[s]]
    OBVIOUS
  <2>3. \A s \in SUBSET (1..k) : k \notin s => s \in SUBSET (1..(k - 1))
    OBVIOUS
  <2>4. \A s \in SUBSET (1..(k - 1)) : s \in SUBSET (1..k) /\ k \notin s
    OBVIOUS
  <2>5. \A s \in SUBSET (1..(k - 1)) : h[s] = f[s]
    BY <2>2, <2>4
  <2>6. ASSUME NEW s \in SUBSET (1..k)
        PROVE  h[s] = IF s = {} THEN first ELSE Step(h[s \ {Max(s)}], Max(s))
    <3>1. CASE k \in s
      <4>1. Max(s) = k
        BY <3>1, MaxOfUpTo
      <4>2. s \ {k} \in SUBSET (1..(k - 1))
        BY <2>3
      <4>3. h[s \ {k}] = f[s \ {k}]
        BY <2>5, <4>2
      <4>4. QED
        BY <2>2, <3>1, <4>1, <4>3
    <3>2. CASE k \notin s
      <4>1. s \in SUBSET (1..(k - 1)) /\ s \ {Max(s)} \in SUBSET (1..(k - 1))
        BY <2>3, <3>2
      <4>2. h[s] = f[s] /\ h[s \ {Max(s)}] = f[s \ {Max(s)}]
        BY <2>5, <4>1
      <4>3. f[s] = IF s = {} THEN first ELSE Step(f[s \ {Max(s)}], Max(s))
        BY <2>1, <4>1
      <4>4. QED
        BY <4>2, <4>3
    <3>3. QED
      BY <3>1, <3>2
  <2>7. Fix(h, k)
    BY <2>2, <2>6
  <2>8. QED
    BY <2>7
<1>4. Some(n)
  <2> DEFINE bad == {k \in Nat : ~Some(k)}
  <2>1. SUFFICES ASSUME bad # {} PROVE FALSE
    OBVIOUS
  <2>2. PICK k \in bad : \A y \in bad : k <= y
    BY <2>1, LeastNat
  <2>3. k \in Nat \ {0}
    BY <1>2, <2>2
  <2>4. k - 1 \in Nat /\ ~(k <= k - 1)
    BY <2>3
  <2>5. Some(k - 1)
    BY <2>2, <2>4
  <2>6. QED
    BY <1>3, <2>2, <2>3, <2>5
<1>5. Fix(G, n)
  BY <1>4, Zenon DEF G
<1>6. PICK run : run = [k \in 0..n |-> G[1..k]]
  OBVIOUS
<1>7. run[0] = first
  <2>1. 1..0 = {} /\ {} \in SUBSET (1..n)
    OBVIOUS
  <2>2. G[{}] = first
    BY <1>5, <2>1
  <2>3. QED
    BY <1>6, <2>1, <2>2
<1>8. ASSUME NEW k \in 1..n PROVE run[k] = Step(run[k - 1], k)
  <2>1. 1..k \in SUBSET (1..n) /\ 1..k # {} /\ k \in Nat /\ k \in 1..k
    OBVIOUS
  <2>2. Max(1..k) = k
    BY <2>1, MaxOfUpTo
  <2>3. (1..k) \ {k} = 1..(k - 1)
    BY <2>1
  <2>4. G[1..k] = Step(G[1..(k - 1)], k)
    BY <1>5, <2>1, <2>2, <2>3
  <2>5. QED
    BY <1>6, <2>4
<1>9. run[n] = G[1..n]
  BY <1>6
<1>10. \A k \in 1..n : list[k] = k - 1
  BY DEF list
<1>11. \A k \in 1..n : run[k] = Tree!climb(run[k - 1], k - 1)
  BY <1>8, <1>10, Zenon DEF Step
<1>12. QED
  BY <1>1, <1>7, <1>9, <1>11, Zenon DEF first, IsSetRun

\* A holder's witness, delta by delta.
IsRefreshRun(run, w, deltas, n) ==
  /\ run[0] = IF root_from_witness(w) = w.root THEN w ELSE None
  /\ \A k \in 1..n : run[k] = refresh_step(run[k - 1], deltas[k])
  /\ FoldLeft(refresh_step, IF root_from_witness(w) = w.root THEN w ELSE None, deltas) = run[n]

LEMMA RefreshRun ==
  ASSUME NEW w, NEW deltas, NEW n \in Nat, DOMAIN deltas = 1..n
  PROVE  \E run : IsRefreshRun(run, w, deltas, n)
<1> DEFINE first == IF root_from_witness(w) = w.root THEN w ELSE None
           Step(st, k) == refresh_step(st, deltas[k])
           Fix(f, k) == f = [s \in SUBSET (1..k) |->
                               IF s = {} THEN first ELSE Step(f[s \ {Max(s)}], Max(s))]
           Some(k) == \E f : Fix(f, k)
           G == CHOOSE f : Fix(f, n)
<1> HIDE DEF first
<1>1. FoldLeft(refresh_step, first, deltas) = G[1..n]
  BY Zenon DEF FoldLeft, MapThenFoldSet
<1> HIDE DEF Step, G
<1>2. Some(0)
  <2>1. PICK f : f = [s \in SUBSET (1..0) |-> first]
    OBVIOUS
  <2>2. \A s \in SUBSET (1..0) : s = {}
    OBVIOUS
  <2>3. Fix(f, 0)
    BY <2>1, <2>2
  <2>4. QED
    BY <2>3
<1>3. ASSUME NEW k \in Nat \ {0}, Some(k - 1) PROVE Some(k)
  <2>1. PICK f : Fix(f, k - 1)
    BY <1>3
  <2>2. PICK h : h = [s \in SUBSET (1..k) |->
                        IF k \in s THEN Step(f[s \ {k}], k) ELSE f[s]]
    OBVIOUS
  <2>3. \A s \in SUBSET (1..k) : k \notin s => s \in SUBSET (1..(k - 1))
    OBVIOUS
  <2>4. \A s \in SUBSET (1..(k - 1)) : s \in SUBSET (1..k) /\ k \notin s
    OBVIOUS
  <2>5. \A s \in SUBSET (1..(k - 1)) : h[s] = f[s]
    BY <2>2, <2>4
  <2>6. ASSUME NEW s \in SUBSET (1..k)
        PROVE  h[s] = IF s = {} THEN first ELSE Step(h[s \ {Max(s)}], Max(s))
    <3>1. CASE k \in s
      <4>1. Max(s) = k
        BY <3>1, MaxOfUpTo
      <4>2. s \ {k} \in SUBSET (1..(k - 1))
        BY <2>3
      <4>3. h[s \ {k}] = f[s \ {k}]
        BY <2>5, <4>2
      <4>4. QED
        BY <2>2, <3>1, <4>1, <4>3
    <3>2. CASE k \notin s
      <4>1. s \in SUBSET (1..(k - 1)) /\ s \ {Max(s)} \in SUBSET (1..(k - 1))
        BY <2>3, <3>2
      <4>2. h[s] = f[s] /\ h[s \ {Max(s)}] = f[s \ {Max(s)}]
        BY <2>5, <4>1
      <4>3. f[s] = IF s = {} THEN first ELSE Step(f[s \ {Max(s)}], Max(s))
        BY <2>1, <4>1
      <4>4. QED
        BY <4>2, <4>3
    <3>3. QED
      BY <3>1, <3>2
  <2>7. Fix(h, k)
    BY <2>2, <2>6
  <2>8. QED
    BY <2>7
<1>4. Some(n)
  <2> DEFINE bad == {k \in Nat : ~Some(k)}
  <2>1. SUFFICES ASSUME bad # {} PROVE FALSE
    OBVIOUS
  <2>2. PICK k \in bad : \A y \in bad : k <= y
    BY <2>1, LeastNat
  <2>3. k \in Nat \ {0}
    BY <1>2, <2>2
  <2>4. k - 1 \in Nat /\ ~(k <= k - 1)
    BY <2>3
  <2>5. Some(k - 1)
    BY <2>2, <2>4
  <2>6. QED
    BY <1>3, <2>2, <2>3, <2>5
<1>5. Fix(G, n)
  BY <1>4, Zenon DEF G
<1>6. PICK run : run = [k \in 0..n |-> G[1..k]]
  OBVIOUS
<1>7. run[0] = first
  <2>1. 1..0 = {} /\ {} \in SUBSET (1..n)
    OBVIOUS
  <2>2. G[{}] = first
    BY <1>5, <2>1
  <2>3. QED
    BY <1>6, <2>1, <2>2
<1>8. ASSUME NEW k \in 1..n PROVE run[k] = Step(run[k - 1], k)
  <2>1. 1..k \in SUBSET (1..n) /\ 1..k # {} /\ k \in Nat /\ k \in 1..k
    OBVIOUS
  <2>2. Max(1..k) = k
    BY <2>1, MaxOfUpTo
  <2>3. (1..k) \ {k} = 1..(k - 1)
    BY <2>1
  <2>4. G[1..k] = Step(G[1..(k - 1)], k)
    BY <1>5, <2>1, <2>2, <2>3
  <2>5. QED
    BY <1>6, <2>4
<1>9. run[n] = G[1..n]
  BY <1>6
<1>10. QED
  BY <1>1, <1>7, <1>8, <1>9 DEF Step, first, IsRefreshRun

(***************************************************************************)
(* Consistent: every node is the parent of the two below it.  This is what *)
(* updates along a path keep and what makes a path to the root binding.    *)
(***************************************************************************)
Consistent(N) ==
  \A k \in 0..(REGISTRY_DEPTH - 1) : \A a \in Nat :
    Tree!node(N, k + 1, a \div 2) =
      Tree!parent(Tree!node(N, k, a), a, Tree!node(N, k, Tree!sibling(a)))

LEMMA SiblingIs ==
  ASSUME NEW a \in Nat
  PROVE  LET b == Tree!sibling(a)
         IN /\ b \in Nat /\ b # a /\ b \div 2 = a \div 2 /\ Tree!sibling(b) = a
            /\ \A c \in Nat : c \div 2 = a \div 2 => c = a \/ c = b
            /\ \A x, y : Tree!parent(x, b, y) = Tree!parent(y, a, x)
<1>1. CASE a % 2 = 0
  <2>1. PICK b : b = a + 1
    OBVIOUS
  <2>2. Tree!sibling(a) = b
    BY <1>1, <2>1 DEF Tree!sibling
  <2>3. /\ b \in Nat /\ b # a /\ b % 2 = 1 /\ b - 1 = a /\ b \div 2 = a \div 2
        /\ \A c \in Nat : c \div 2 = a \div 2 => c = a \/ c = b
    BY <1>1, <2>1
  <2>4. Tree!sibling(b) = a
    BY <2>3 DEF Tree!sibling
  <2>5. \A x, y : Tree!parent(x, b, y) = Tree!parent(y, a, x)
    BY <1>1, <2>3 DEF Tree!parent
  <2>6. QED
    BY <2>2, <2>3, <2>4, <2>5
<1>2. CASE a % 2 # 0
  <2>1. PICK b : b = a - 1
    OBVIOUS
  <2>2. Tree!sibling(a) = b
    BY <1>2, <2>1 DEF Tree!sibling
  <2>3. /\ b \in Nat /\ b # a /\ b % 2 = 0 /\ b + 1 = a /\ b \div 2 = a \div 2
        /\ \A c \in Nat : c \div 2 = a \div 2 => c = a \/ c = b
    BY <1>2, <2>1
  <2>4. Tree!sibling(b) = a
    BY <2>3 DEF Tree!sibling
  <2>5. \A x, y : Tree!parent(x, b, y) = Tree!parent(y, a, x)
    BY <1>2, <2>3 DEF Tree!parent
  <2>6. QED
    BY <2>2, <2>3, <2>4, <2>5
<1>3. QED
  BY <1>1, <1>2

LEMMA ParentIsInjective ==
  ASSUME NEW a, NEW x, NEW y, NEW u, NEW v, Tree!parent(x, a, y) = Tree!parent(u, a, v)
  PROVE  x = u /\ y = v
<1>1. CASE a % 2 = 0
  <2>1. <<x, y>> = <<u, v>>
    BY <1>1 DEF Tree!parent, Tree!registry_node
  <2>2. QED
    BY <2>1
<1>2. CASE ~(a % 2 = 0)
  <2>1. <<y, x>> = <<v, u>>
    BY <1>2 DEF Tree!parent, Tree!registry_node
  <2>2. QED
    BY <2>1
<1>3. QED
  BY <1>1, <1>2

\* Writing a node changes that node only, stored or not.
LEMMA SetNodeIs ==
  ASSUME NEW N, NEW l, NEW i, NEW v, NEW m, NEW j
  PROVE  Tree!node(Tree!set_node(N, l, i, v), m, j) =
           IF m = l /\ j = i THEN v ELSE Tree!node(N, m, j)
<1>1. <<m, j>> = <<l, i>> <=> m = l /\ j = i
  OBVIOUS
<1>2. CASE v = Tree!defaults[l]
  <2>1. PICK M : M = [k \in DOMAIN N \ {<<l, i>>} |-> N[k]]
    OBVIOUS
  <2>2. Tree!set_node(N, l, i, v) = M
    BY <1>2, <2>1 DEF Tree!set_node
  <2>3. DOMAIN M = DOMAIN N \ {<<l, i>>} /\ \A k \in DOMAIN M : M[k] = N[k]
    BY <2>1
  <2>4. QED
    BY <1>1, <1>2, <2>2, <2>3 DEF Tree!node
<1>3. CASE v # Tree!defaults[l]
  <2>1. PICK M : M = [k \in DOMAIN N \cup {<<l, i>>} |-> IF k = <<l, i>> THEN v ELSE N[k]]
    OBVIOUS
  <2>2. Tree!set_node(N, l, i, v) = M
    BY <1>3, <2>1 DEF Tree!set_node
  <2>3. /\ DOMAIN M = DOMAIN N \cup {<<l, i>>}
        /\ \A k \in DOMAIN M : M[k] = IF k = <<l, i>> THEN v ELSE N[k]
    BY <2>1
  <2>4. QED
    BY <1>1, <2>2, <2>3 DEF Tree!node
<1>4. QED
  BY <1>2, <1>3

\* The empty store is consistent: its nodes are the defaults.
LEMMA EmptyConsistent ==
  ASSUME REGISTRY_DEPTH \in Nat, NEW N, DOMAIN N = {}
  PROVE  Consistent(N) /\ \A i : Tree!node(N, 0, i) = Zero
<1>1. \A k, a : Tree!node(N, k, a) = Tree!defaults[k]
  BY DEF Tree!node
<1>2. ASSUME NEW k \in 0..(REGISTRY_DEPTH - 1), NEW a \in Nat
      PROVE  Tree!node(N, k + 1, a \div 2) =
               Tree!parent(Tree!node(N, k, a), a, Tree!node(N, k, Tree!sibling(a)))
  <2>1. Tree!defaults[k + 1] = <<Tree!defaults[k], Tree!defaults[k]>>
    BY DefaultsIs
  <2>2. QED
    BY <1>1, <2>1 DEF Tree!parent, Tree!registry_node
<1>3. QED
  BY <1>1, <1>2, DefaultsIs DEF Consistent

(***************************************************************************)
(* set_leaf: the nodes on the leaf's path are the parents of those below   *)
(* them again, and no other node is touched.                               *)
(***************************************************************************)
LEMMA SetLeafIs ==
  ASSUME REGISTRY_DEPTH \in Nat, NEW N, Consistent(N), NEW i \in Nat, NEW leaf
  PROVE  LET M == Tree!set_leaf(N, i, leaf)
             s == Tree!shifted(i)
         IN /\ Consistent(M)
            /\ Tree!node(M, 0, i) = leaf
            /\ \A m \in 0..REGISTRY_DEPTH : \A j \in Nat :
                 j # s[m] => Tree!node(M, m, j) = Tree!node(N, m, j)
<1> DEFINE D == REGISTRY_DEPTH
           s == Tree!shifted(i)
<1>1. PICK run : IsSetRun(run, N, i, leaf)
  BY SetRun
<1> DEFINE At(k, m, j) == Tree!node(run[k].nodes, m, j)
           Above(k) == \A m \in 0..D : \A j \in Nat :
                         m > k \/ j # s[m] => At(k, m, j) = Tree!node(N, m, j)
           Below(k) == \A m \in 0..(k - 1) : \A a \in Nat :
                         At(k, m + 1, a \div 2) =
                           Tree!parent(At(k, m, a), a, At(k, m, Tree!sibling(a)))
           Good(k) == /\ run[k].index = s[k] /\ run[k].current = At(k, k, s[k])
                      /\ At(k, 0, i) = leaf /\ Above(k) /\ Below(k)
<1>2. /\ s[0] = i /\ \A k \in 0..D : s[k] \in Nat
      /\ \A k \in 0..(D - 1) : s[k + 1] = s[k] \div 2
  BY ShiftedIs
<1> HIDE DEF s
<1>3. Good(0)
  <2>1. run[0] = [current |-> leaf, index |-> i, nodes |-> Tree!set_node(N, 0, i, leaf)]
    BY <1>1, Zenon DEF IsSetRun
  <2>2. \A m, j : At(0, m, j) = IF m = 0 /\ j = i THEN leaf ELSE Tree!node(N, m, j)
    BY <2>1, SetNodeIs
  <2>3. run[0].index = i /\ run[0].current = leaf
    BY <2>1
  <2> HIDE DEF At
  <2>4. Above(0)
    BY <1>2, <2>2
  <2>5. Below(0)
    OBVIOUS
  <2>6. QED
    BY <1>2, <2>2, <2>3, <2>4, <2>5
<1>4. ASSUME NEW k \in 0..(D - 1), Good(k) PROVE Good(k + 1)
  <2> DEFINE value == Tree!parent(At(k, k, s[k]), s[k], At(k, k, Tree!sibling(s[k])))
  <2>1. k + 1 \in 1..D /\ (k + 1) - 1 = k /\ k \in 0..D /\ k + 1 \in 0..D
    OBVIOUS
  <2>2. run[k + 1] = Tree!climb(run[k], k)
    BY <1>1, <2>1 DEF IsSetRun
  <2>3. run[k + 1] = [current |-> value, index |-> s[k] \div 2,
                      nodes |-> Tree!set_node(run[k].nodes, k + 1, s[k] \div 2, value)]
    BY <1>4, <2>2, Zenon DEF Tree!climb
  <2>4. s[k + 1] = s[k] \div 2 /\ s[k] \in Nat /\ s[k + 1] \in Nat
    BY <1>2, <2>1
  <2>5. \A m, j : At(k + 1, m, j) = IF m = k + 1 /\ j = s[k + 1] THEN value ELSE At(k, m, j)
    BY <2>3, <2>4, SetNodeIs
  <2>6. run[k + 1].index = s[k + 1] /\ run[k + 1].current = value
    BY <2>3, <2>4
  <2>7. /\ At(k, 0, i) = leaf
        /\ \A m \in 0..D : \A j \in Nat : m > k \/ j # s[m] => At(k, m, j) = Tree!node(N, m, j)
        /\ \A m \in 0..(k - 1) : \A a \in Nat :
             At(k, m + 1, a \div 2) = Tree!parent(At(k, m, a), a, At(k, m, Tree!sibling(a)))
    BY <1>4
  <2> HIDE DEF At, value
  <2>8. At(k + 1, k + 1, s[k + 1]) = value
    BY <2>5
  <2>9. At(k + 1, 0, i) = leaf
    BY <2>1, <2>5, <2>7
  <2>10. Above(k + 1)
    <3>1. SUFFICES ASSUME NEW m \in 0..D, NEW j \in Nat, m > k + 1 \/ j # s[m]
                   PROVE  At(k + 1, m, j) = Tree!node(N, m, j)
      OBVIOUS
    <3>2. ~(m = k + 1 /\ j = s[k + 1]) /\ (m > k \/ j # s[m])
      BY <3>1
    <3>3. QED
      BY <2>5, <2>7, <3>2
  <2>11. Below(k + 1)
    <3>1. SUFFICES ASSUME NEW m \in 0..k, NEW a \in Nat
                   PROVE  At(k + 1, m + 1, a \div 2) =
                            Tree!parent(At(k + 1, m, a), a, At(k + 1, m, Tree!sibling(a)))
      BY <2>1
    <3>2. m # k + 1 /\ At(k + 1, m, a) = At(k, m, a)
          /\ At(k + 1, m, Tree!sibling(a)) = At(k, m, Tree!sibling(a))
      BY <2>5
    <3>3. CASE m < k
      <4>1. m \in 0..(k - 1) /\ m + 1 # k + 1
        BY <3>3
      <4>2. At(k + 1, m + 1, a \div 2) = At(k, m + 1, a \div 2)
        BY <2>5, <4>1
      <4>3. QED
        BY <2>7, <3>2, <4>1, <4>2
    <3>4. CASE m = k /\ a \div 2 = s[k + 1]
      <4>1. At(k + 1, m + 1, a \div 2) = value
        BY <2>8, <3>4
      <4>2. a = s[k] \/ a = Tree!sibling(s[k])
        BY <2>4, <3>4, SiblingIs
      <4>3. value = Tree!parent(At(k, k, s[k]), s[k], At(k, k, Tree!sibling(s[k])))
        BY DEF value
      <4>4. CASE a = s[k]
        BY <3>2, <3>4, <4>1, <4>3, <4>4
      <4>5. CASE a = Tree!sibling(s[k])
        <5>1. /\ Tree!sibling(a) = s[k]
              /\ \A x, y : Tree!parent(x, a, y) = Tree!parent(y, s[k], x)
          BY <2>4, <4>5, SiblingIs
        <5>2. QED
          BY <3>2, <3>4, <4>1, <4>3, <4>5, <5>1
      <4>6. QED
        BY <4>2, <4>4, <4>5
    <3>5. CASE m = k /\ a \div 2 # s[k + 1]
      <4>1. a # s[k] /\ Tree!sibling(a) # s[k] /\ Tree!sibling(a) \in Nat /\ a \div 2 \in Nat
        BY <2>4, <3>5, SiblingIs
      <4>2. At(k + 1, m + 1, a \div 2) = At(k, k + 1, a \div 2)
        BY <2>5, <3>5
      <4>3. At(k, k + 1, a \div 2) = Tree!node(N, k + 1, a \div 2)
        BY <2>1, <2>7, <4>1
      <4>4. /\ At(k, k, a) = Tree!node(N, k, a)
            /\ At(k, k, Tree!sibling(a)) = Tree!node(N, k, Tree!sibling(a))
        BY <2>1, <2>7, <4>1
      <4>5. Tree!node(N, k + 1, a \div 2) =
              Tree!parent(Tree!node(N, k, a), a, Tree!node(N, k, Tree!sibling(a)))
        BY DEF Consistent
      <4>6. QED
        BY <3>2, <3>5, <4>2, <4>3, <4>4, <4>5
    <3>6. QED
      BY <3>3, <3>4, <3>5
  <2> HIDE DEF Above, Below
  <2>12. QED
    BY <2>6, <2>8, <2>9, <2>10, <2>11
<1>5. Good(D)
  <2> HIDE DEF Good
  <2> DEFINE bad == {k \in 0..D : ~Good(k)}
  <2>1. SUFFICES ASSUME bad # {} PROVE FALSE
    OBVIOUS
  <2>2. bad \subseteq Nat
    OBVIOUS
  <2>3. PICK k \in bad : \A y \in bad : k <= y
    BY <2>1, <2>2, LeastNat
  <2>4. k # 0 /\ k - 1 \in 0..(D - 1) /\ k - 1 \in 0..D /\ ~(k <= k - 1) /\ (k - 1) + 1 = k
    BY <1>3, <2>3
  <2>5. Good(k - 1)
    BY <2>3, <2>4
  <2>6. Good((k - 1) + 1)
    BY <1>4, <2>4, <2>5
  <2>7. QED
    BY <2>3, <2>4, <2>6
<1>6. Tree!set_leaf(N, i, leaf) = run[D].nodes
  BY <1>1 DEF IsSetRun
<1>7. /\ Tree!node(run[D].nodes, 0, i) = leaf
      /\ \A m \in 0..D : \A j \in Nat :
           j # s[m] => Tree!node(run[D].nodes, m, j) = Tree!node(N, m, j)
  BY <1>5
<1>8. Consistent(run[D].nodes)
  BY <1>5, Zenon DEF Consistent
<1>9. QED
  BY <1>6, <1>7, <1>8 DEF s

(***************************************************************************)
(* Paths to the root.  In a consistent tree the siblings of a leaf lead    *)
(* from it to the root, and, the hash being injective, nothing else does.  *)
(***************************************************************************)
\* From a leaf of the tree and its siblings, the nodes of the tree.
LEMMA PathLeadsUp ==
  ASSUME REGISTRY_DEPTH \in Nat, NEW N, Consistent(N), NEW i \in Nat,
         NEW n \in 0..REGISTRY_DEPTH
  PROVE  Tree!subtree_from_path(Tree!node(N, 0, i), i, Tree!siblings(N, i), n) =
           Tree!node(N, n, Tree!shifted(i)[n])
<1> DEFINE s == Tree!shifted(i)
           path == Tree!siblings(N, i)
           leaf == Tree!node(N, 0, i)
<1>0. n \in Nat
  OBVIOUS
<1>1. PICK run : IsSubtreeRun(run, leaf, i, path, n)
  BY <1>0, SubtreeRun
<1>2. /\ s[0] = i /\ \A k \in 0..REGISTRY_DEPTH : s[k] \in Nat
      /\ \A k \in 0..(REGISTRY_DEPTH - 1) : s[k + 1] = s[k] \div 2
  BY ShiftedIs
<1>3. \A k \in 0..(n - 1) : path[k + 1] = Tree!node(N, k, Tree!sibling(s[k]))
  <2>1. SUFFICES ASSUME NEW k \in 0..(n - 1)
                 PROVE  path[k + 1] = Tree!node(N, k, Tree!sibling(s[k]))
    OBVIOUS
  <2>2. k + 1 \in 1..REGISTRY_DEPTH /\ (k + 1) - 1 = k
    OBVIOUS
  <2>3. path = [m \in 1..REGISTRY_DEPTH |-> Tree!node(N, m - 1, Tree!sibling(s[m - 1]))]
    BY Zenon DEF Tree!siblings
  <2> HIDE DEF path, s
  <2>4. QED
    BY <2>2, <2>3
<1>4. run[0] = leaf /\ Tree!subtree_from_path(leaf, i, path, n) = run[n]
  BY <1>1, Zenon DEF IsSubtreeRun
<1>5. \A k \in 0..(n - 1) : run[k + 1] = Tree!parent(run[k], s[k], path[k + 1])
  <2>1. \A k \in 0..(n - 1) : k + 1 \in 1..n /\ (k + 1) - 1 = k
    OBVIOUS
  <2>2. \A k \in 1..n : run[k] = Tree!parent(run[k - 1], s[k - 1], path[k])
    BY <1>1, Zenon DEF IsSubtreeRun
  <2> HIDE DEF path, s
  <2>3. QED
    BY <2>1, <2>2
<1> HIDE DEF s, path
<1> DEFINE Fine(k) == run[k] = Tree!node(N, k, s[k])
<1>6. Fine(0)
  BY <1>2, <1>4
<1>7. ASSUME NEW k \in 0..(n - 1), Fine(k) PROVE Fine(k + 1)
  <2>1. k \in 0..(REGISTRY_DEPTH - 1) /\ s[k] \in Nat /\ s[k + 1] = s[k] \div 2
    BY <1>2
  <2>2. Tree!node(N, k + 1, s[k] \div 2) =
          Tree!parent(Tree!node(N, k, s[k]), s[k], Tree!node(N, k, Tree!sibling(s[k])))
    BY <2>1 DEF Consistent
  <2>3. QED
    BY <1>3, <1>5, <1>7, <2>1, <2>2
<1>8. Fine(n)
  <2> HIDE DEF Fine
  <2> DEFINE bad == {k \in 0..n : ~Fine(k)}
  <2>1. SUFFICES ASSUME bad # {} PROVE FALSE
    BY <1>0
  <2>2. bad \subseteq Nat
    OBVIOUS
  <2>3. PICK k \in bad : \A y \in bad : k <= y
    BY <2>1, <2>2, LeastNat
  <2>4. k # 0 /\ k - 1 \in 0..(n - 1) /\ k - 1 \in 0..n /\ ~(k <= k - 1) /\ (k - 1) + 1 = k
    BY <1>6, <2>3
  <2>5. Fine(k - 1)
    BY <2>3, <2>4
  <2>6. Fine((k - 1) + 1)
    BY <1>7, <2>4, <2>5
  <2>7. QED
    BY <2>3, <2>4, <2>6
<1>9. QED
  BY <1>4, <1>8 DEF s, path

\* A leaf and a path that reach the root of a tree are that tree's leaf and siblings.
LEMMA PathBinds ==
  ASSUME REGISTRY_DEPTH \in Nat, NEW N, Consistent(N), NEW i \in Nat,
         Tree!shifted(i)[REGISTRY_DEPTH] = 0, NEW leaf, NEW path,
         Tree!root_from_path(leaf, i, path) = Tree!root(N)
  PROVE  /\ leaf = Tree!node(N, 0, i)
         /\ \A k \in 1..REGISTRY_DEPTH : path[k] = Tree!siblings(N, i)[k]
<1> DEFINE n == REGISTRY_DEPTH
           s == Tree!shifted(i)
<1>1. PICK run : IsSubtreeRun(run, leaf, i, path, n)
  BY SubtreeRun
<1>2. /\ s[0] = i /\ \A k \in 0..n : s[k] \in Nat
      /\ \A k \in 0..(n - 1) : s[k + 1] = s[k] \div 2
  BY ShiftedIs
<1>3. \A k \in 0..(n - 1) : Tree!siblings(N, i)[k + 1] = Tree!node(N, k, Tree!sibling(s[k]))
  <2>1. SUFFICES ASSUME NEW k \in 0..(n - 1)
                 PROVE  Tree!siblings(N, i)[k + 1] = Tree!node(N, k, Tree!sibling(s[k]))
    OBVIOUS
  <2>2. k + 1 \in 1..n /\ (k + 1) - 1 = k
    OBVIOUS
  <2>3. Tree!siblings(N, i) = [m \in 1..n |-> Tree!node(N, m - 1, Tree!sibling(s[m - 1]))]
    BY Zenon DEF Tree!siblings
  <2> HIDE DEF s
  <2>4. QED
    BY <2>2, <2>3
<1>4. run[0] = leaf /\ run[n] = Tree!root_from_path(leaf, i, path)
  BY <1>1, Zenon DEF IsSubtreeRun, Tree!root_from_path
<1>5. \A k \in 0..(n - 1) : run[k + 1] = Tree!parent(run[k], s[k], path[k + 1])
  <2>1. \A k \in 0..(n - 1) : k + 1 \in 1..n /\ (k + 1) - 1 = k
    OBVIOUS
  <2>2. \A k \in 1..n : run[k] = Tree!parent(run[k - 1], s[k - 1], path[k])
    BY <1>1, Zenon DEF IsSubtreeRun
  <2> HIDE DEF s
  <2>3. QED
    BY <2>1, <2>2
<1>6. run[n] = Tree!node(N, n, s[n])
  BY <1>4 DEF Tree!root
<1> HIDE DEF s
<1> DEFINE Fine(k) == run[n - k] = Tree!node(N, n - k, s[n - k])
<1>7. ASSUME NEW k \in 0..(n - 1), run[k + 1] = Tree!node(N, k + 1, s[k + 1])
      PROVE  /\ run[k] = Tree!node(N, k, s[k])
             /\ path[k + 1] = Tree!node(N, k, Tree!sibling(s[k]))
  <2>1. s[k] \in Nat /\ s[k + 1] = s[k] \div 2
    BY <1>2
  <2>2. Tree!node(N, k + 1, s[k] \div 2) =
          Tree!parent(Tree!node(N, k, s[k]), s[k], Tree!node(N, k, Tree!sibling(s[k])))
    BY <2>1 DEF Consistent
  <2>3. Tree!parent(run[k], s[k], path[k + 1]) =
          Tree!parent(Tree!node(N, k, s[k]), s[k], Tree!node(N, k, Tree!sibling(s[k])))
    BY <1>5, <1>7, <2>1, <2>2
  <2>4. QED
    BY <2>3, ParentIsInjective
<1>8. ASSUME NEW k \in 0..n PROVE Fine(k)
  <2>1. Fine(0)
    BY <1>6
  <2>2. ASSUME NEW m \in 1..n, Fine(m - 1) PROVE Fine(m)
    <3>1. n - m \in 0..(n - 1) /\ n - (m - 1) = (n - m) + 1
      OBVIOUS
    <3>2. run[(n - m) + 1] = Tree!node(N, (n - m) + 1, s[(n - m) + 1])
      BY <2>2, <3>1
    <3>3. QED
      BY <1>7, <3>1, <3>2
  <2> HIDE DEF Fine
  <2> DEFINE bad == {m \in 0..n : ~Fine(m)}
  <2>3. SUFFICES ASSUME bad # {} PROVE FALSE
    OBVIOUS
  <2>4. bad \subseteq Nat
    OBVIOUS
  <2>5. PICK m \in bad : \A y \in bad : m <= y
    BY <2>3, <2>4, LeastNat
  <2>6. m \in 1..n /\ m - 1 \in 0..n /\ ~(m <= m - 1)
    BY <2>1, <2>5
  <2>7. Fine(m - 1)
    BY <2>5, <2>6
  <2>8. QED
    BY <2>2, <2>5, <2>6, <2>7
<1>9. \A k \in 0..n : run[k] = Tree!node(N, k, s[k])
  <2>1. SUFFICES ASSUME NEW k \in 0..n PROVE run[k] = Tree!node(N, k, s[k])
    OBVIOUS
  <2>2. n - k \in 0..n /\ n - (n - k) = k
    OBVIOUS
  <2>3. QED
    BY <1>8, <2>2
<1>10. leaf = Tree!node(N, 0, i)
  BY <1>2, <1>4, <1>9
<1>11. ASSUME NEW k \in 1..n PROVE path[k] = Tree!siblings(N, i)[k]
  <2>1. k - 1 \in 0..(n - 1) /\ (k - 1) + 1 = k /\ k \in 0..n
    OBVIOUS
  <2>2. run[k] = Tree!node(N, k, s[k])
    BY <1>9, <2>1
  <2>3. path[(k - 1) + 1] = Tree!node(N, k - 1, Tree!sibling(s[k - 1]))
    BY <1>7, <2>1, <2>2
  <2>4. QED
    BY <1>3, <2>1, <2>3
<1>12. QED
  BY <1>10, <1>11

(***************************************************************************)
(* A witness through the deltas a holder applies, whatever they are.       *)
(***************************************************************************)
IsWitness(w) ==
  w = [epoch |-> w.epoch, root |-> w.root, leaf_index |-> w.leaf_index,
       active_leaf |-> w.active_leaf,
       siblings |-> [k \in 1..REGISTRY_DEPTH |-> w.siblings[k]]]

\* w and v are witnesses of one leaf, and v's path leads to v's root.
SameLeaf(v, w) ==
  /\ IsWitness(v) /\ root_from_witness(v) = v.root
  /\ v.leaf_index = w.leaf_index /\ v.active_leaf = w.active_leaf

LEMMA MovedIs ==
  ASSUME NEW w, IsWitness(w), NEW k, NEW x
  PROVE  [w EXCEPT !.siblings[k] = x] =
           [epoch |-> w.epoch, root |-> w.root, leaf_index |-> w.leaf_index,
            active_leaf |-> w.active_leaf,
            siblings |-> [m \in 1..REGISTRY_DEPTH |-> IF m = k THEN x ELSE w.siblings[m]]]
<1>1. PICK a, b, c, d, p :
        /\ a = w.epoch /\ b = w.root /\ c = w.leaf_index /\ d = w.active_leaf
        /\ p = [m \in 1..REGISTRY_DEPTH |-> w.siblings[m]]
  OBVIOUS
<1>2. w = [epoch |-> a, root |-> b, leaf_index |-> c, active_leaf |-> d, siblings |-> p]
  BY <1>1, Zenon DEF IsWitness
<1>3. w.siblings = p
  BY <1>2
<1>4. PICK q : q = [m \in 1..REGISTRY_DEPTH |-> IF m = k THEN x ELSE w.siblings[m]]
  OBVIOUS
<1>5. [p EXCEPT ![k] = x] = q
  <2>1. DOMAIN p = 1..REGISTRY_DEPTH /\ \A m \in 1..REGISTRY_DEPTH : p[m] = w.siblings[m]
    BY <1>1
  <2>2. PICK o : o = [p EXCEPT ![k] = x]
    OBVIOUS
  <2>3. /\ DOMAIN o = 1..REGISTRY_DEPTH
        /\ \A m \in 1..REGISTRY_DEPTH : o[m] = IF m = k THEN x ELSE p[m]
    BY <2>1, <2>2
  <2>4. o = [m \in 1..REGISTRY_DEPTH |-> o[m]] /\ q = [m \in 1..REGISTRY_DEPTH |-> q[m]]
    BY <1>4, <2>1, <2>2, <2>3
  <2>5. \A m \in 1..REGISTRY_DEPTH : o[m] = q[m]
    BY <1>4, <2>1, <2>3
  <2>6. QED
    BY <2>2, <2>4, <2>5
<1>6. [w EXCEPT !.siblings[k] = x] =
        [epoch |-> a, root |-> b, leaf_index |-> c, active_leaf |-> d,
         siblings |-> [p EXCEPT ![k] = x]]
  BY <1>2, <1>3
<1>7. QED
  BY <1>1, <1>4, <1>5, <1>6

\* A delta that fits moves one sibling, and the root and the epoch with it.
MovedBy(w, d) ==
  LET k == divergence(d.changed_index, w.leaf_index) IN
  [w EXCEPT !.siblings[k + 1] =
     Tree!subtree_from_path(d.new_leaf, d.changed_index, d.siblings, k)]

LEMMA StepIs ==
  ASSUME NEW w, IsWitness(w), w # None, NEW d, delta_fits(w, d)
  PROVE  LET v == [epoch |-> d.to.epoch, root |-> root_from_witness(MovedBy(w, d)),
                   leaf_index |-> w.leaf_index, active_leaf |-> w.active_leaf,
                   siblings |-> MovedBy(w, d).siblings]
         IN refresh_step(w, d) = IF v.root = d.to.root THEN v ELSE None
<1> DEFINE M == MovedBy(w, d)
           v == [epoch |-> d.to.epoch, root |-> root_from_witness(M),
                 leaf_index |-> w.leaf_index, active_leaf |-> w.active_leaf,
                 siblings |-> M.siblings]
           next == [M EXCEPT !.root = root_from_witness(M), !.epoch = d.to.epoch]
<1>1. refresh_step(w, d) = IF next.root = d.to.root THEN next ELSE None
  BY Zenon DEF refresh_step, MovedBy
<1>2. PICK p : M = [epoch |-> w.epoch, root |-> w.root, leaf_index |-> w.leaf_index,
                    active_leaf |-> w.active_leaf, siblings |-> p]
  <2>1. PICK k, y : M = [w EXCEPT !.siblings[k] = y]
    BY Zenon DEF MovedBy
  <2> HIDE DEF M
  <2>2. [w EXCEPT !.siblings[k] = y] =
          [epoch |-> w.epoch, root |-> w.root, leaf_index |-> w.leaf_index,
           active_leaf |-> w.active_leaf,
           siblings |-> [m \in 1..REGISTRY_DEPTH |-> IF m = k THEN y ELSE w.siblings[m]]]
    BY MovedIs
  <2>3. QED
    BY <2>1, <2>2
<1>3. PICK x, y : x = root_from_witness(M) /\ y = d.to.epoch
  OBVIOUS
<1> HIDE DEF M
<1>4. next = [M EXCEPT !.root = x, !.epoch = y]
  BY <1>3, Zenon
<1>5. M.siblings = p
  BY <1>2
<1>6. [M EXCEPT !.root = x, !.epoch = y] =
        [epoch |-> y, root |-> x, leaf_index |-> w.leaf_index,
         active_leaf |-> w.active_leaf, siblings |-> p]
  <2>1. PICK a, b, c, e : a = w.epoch /\ b = w.root /\ c = w.leaf_index /\ e = w.active_leaf
    OBVIOUS
  <2>2. M = [epoch |-> a, root |-> b, leaf_index |-> c, active_leaf |-> e, siblings |-> p]
    BY <1>2, <2>1
  <2>3. PICK N : N = [M EXCEPT !.root = x]
    OBVIOUS
  <2>4. N = [epoch |-> a, root |-> x, leaf_index |-> c, active_leaf |-> e, siblings |-> p]
    BY <2>2, <2>3
  <2>5. [N EXCEPT !.epoch = y] =
          [epoch |-> y, root |-> x, leaf_index |-> c, active_leaf |-> e, siblings |-> p]
    BY <2>4
  <2>6. [M EXCEPT !.root = x, !.epoch = y] = [N EXCEPT !.epoch = y]
    BY <2>3
  <2>7. QED
    BY <2>1, <2>5, <2>6
<1>7. next = v
  BY <1>3, <1>4, <1>5, <1>6, Zenon
<1>8. QED
  BY <1>1, <1>7, Zenon DEF M

LEMMA StepKeeps ==
  ASSUME NEW w, NEW x, SameLeaf(x, w), x # None, NEW d, refresh_step(x, d) # None
  PROVE  SameLeaf(refresh_step(x, d), w)
<1> DEFINE M == MovedBy(x, d)
           v == [epoch |-> d.to.epoch, root |-> root_from_witness(M),
                 leaf_index |-> x.leaf_index, active_leaf |-> x.active_leaf,
                 siblings |-> M.siblings]
<1>1. delta_fits(x, d) /\ IsWitness(x)
  BY DEF refresh_step, SameLeaf
<1>2. refresh_step(x, d) = v
  BY <1>1, StepIs, Zenon
<1>3. PICK k, y : M = [x EXCEPT !.siblings[k] = y]
  BY Zenon DEF MovedBy
<1>4. PICK p, q : /\ q = [m \in 1..REGISTRY_DEPTH |-> IF m = k THEN y ELSE x.siblings[m]]
                  /\ p = [m \in 1..REGISTRY_DEPTH |-> q[m]]
  OBVIOUS
<1>5. M = [epoch |-> x.epoch, root |-> x.root, leaf_index |-> x.leaf_index,
           active_leaf |-> x.active_leaf, siblings |-> q]
  <2> HIDE DEF M
  <2>1. [x EXCEPT !.siblings[k] = y] =
          [epoch |-> x.epoch, root |-> x.root, leaf_index |-> x.leaf_index,
           active_leaf |-> x.active_leaf,
           siblings |-> [m \in 1..REGISTRY_DEPTH |-> IF m = k THEN y ELSE x.siblings[m]]]
    BY <1>1, MovedIs
  <2>2. QED
    BY <1>3, <1>4, <2>1
<1> HIDE DEF M
<1>6. p = q
  BY <1>4
<1>7. M.siblings = q /\ M.leaf_index = x.leaf_index /\ M.active_leaf = x.active_leaf
  BY <1>5
<1>8. PICK r : r = root_from_witness(M)
  OBVIOUS
<1>9. PICK e : e = d.to.epoch
  OBVIOUS
<1>10. v = [epoch |-> e, root |-> r, leaf_index |-> x.leaf_index,
            active_leaf |-> x.active_leaf, siblings |-> q]
  BY <1>7, <1>8, <1>9
<1> HIDE DEF v
<1>11. /\ v.epoch = e /\ v.root = r /\ v.leaf_index = x.leaf_index
       /\ v.active_leaf = x.active_leaf /\ v.siblings = q
  BY <1>10
<1>12. IsWitness(v)
  BY <1>4, <1>6, <1>10, <1>11, Zenon DEF IsWitness
<1>13. root_from_witness(v) = r
  BY <1>7, <1>8, <1>11, Zenon DEF root_from_witness
<1>14. QED
  BY <1>2, <1>11, <1>12, <1>13, Zenon DEF SameLeaf

\* Whatever the deltas are, a witness that is accepted at the end is for the same leaf and
\* its path leads to the accepted root.
LEMMA RefreshKeeps ==
  ASSUME NEW w, IsWitness(w), NEW n \in Nat, NEW deltas, DOMAIN deltas = 1..n, NEW pinned,
         refresh_status_witness(w, deltas, pinned) # None
  PROVE  LET v == refresh_status_witness(w, deltas, pinned)
         IN SameLeaf(v, w) /\ [epoch |-> v.epoch, root |-> v.root] = pinned
<1>1. PICK run : IsRefreshRun(run, w, deltas, n)
  BY RefreshRun
<1> DEFINE Fine(k) == run[k] # None => SameLeaf(run[k], w)
<1>2. Fine(0)
  BY <1>1, Zenon DEF IsRefreshRun, SameLeaf
<1>3. ASSUME NEW k \in 1..n, Fine(k - 1) PROVE Fine(k)
  <2>1. SUFFICES ASSUME run[k] # None PROVE SameLeaf(run[k], w)
    OBVIOUS
  <2>2. run[k] = refresh_step(run[k - 1], deltas[k])
    BY <1>1, Zenon DEF IsRefreshRun
  <2>3. run[k - 1] # None
    BY <2>1, <2>2, Zenon DEF refresh_step
  <2>4. QED
    BY <1>3, <2>1, <2>2, <2>3, StepKeeps, Zenon
<1> HIDE DEF Fine
<1>4. Fine(n)
  <2> DEFINE bad == {k \in 0..n : ~Fine(k)}
  <2>1. SUFFICES ASSUME bad # {} PROVE FALSE
    OBVIOUS
  <2>2. bad \subseteq Nat
    OBVIOUS
  <2>3. PICK k \in bad : \A y \in bad : k <= y
    BY <2>1, <2>2, LeastNat
  <2>4. k \in 1..n /\ k - 1 \in 0..n /\ ~(k <= k - 1)
    BY <1>2, <2>3
  <2>5. Fine(k - 1)
    BY <2>3, <2>4
  <2>6. QED
    BY <1>3, <2>3, <2>4, <2>5
<1>5. /\ refresh_status_witness(w, deltas, pinned) = run[n] /\ run[n] # None
      /\ [epoch |-> run[n].epoch, root |-> run[n].root] = pinned
  BY <1>1, Zenon DEF refresh_status_witness, IsRefreshRun
<1>6. QED
  BY <1>4, <1>5, Zenon DEF Fine

(***************************************************************************)
(* Sequences of anything.                                                  *)
(***************************************************************************)
IsList(s, n) == n \in Nat /\ s = [k \in 1..n |-> s[k]]

LEMMA ListIsSeq ==
  ASSUME NEW s, NEW n, IsList(s, n)
  PROVE  \E S : s \in Seq(S) /\ Len(s) = n /\ DOMAIN s = 1..n /\ \A x : s \in Seq(S \cup {x})
<1>1. PICK S : S = {s[k] : k \in 1..n}
  OBVIOUS
<1>2. n \in Nat /\ s = [k \in 1..n |-> s[k]]
  BY DEF IsList
<1>3. ASSUME NEW x PROVE s \in Seq(S \cup {x})
  <2>1. \A k \in 1..n : s[k] \in S \cup {x}
    BY <1>1
  <2>2. s \in [1..n -> S \cup {x}]
    BY <1>2, <2>1
  <2>3. QED
    BY <1>2, <2>2, SeqDef
<1>4. s \in Seq(S)
  <2>1. \A k \in 1..n : s[k] \in S
    BY <1>1
  <2>2. s \in [1..n -> S]
    BY <1>2, <2>1
  <2>3. QED
    BY <1>2, <2>2, SeqDef
<1>5. DOMAIN s = 1..n
  BY <1>2
<1>6. Len(s) = n
  BY <1>2, <1>4, <1>5, LenProperties
<1>7. QED
  BY <1>3, <1>4, <1>5, <1>6

LEMMA ListAndMore ==
  ASSUME NEW s, NEW n, IsList(s, n), NEW x
  PROVE  \E T : s \in Seq(T) /\ x \in T /\ Len(s) = n
<1>1. PICK S : s \in Seq(S) /\ Len(s) = n /\ DOMAIN s = 1..n /\ \A y : s \in Seq(S \cup {y})
  BY ListIsSeq
<1>2. PICK T : T = S \cup {x}
  OBVIOUS
<1>3. s \in Seq(T) /\ x \in T
  BY <1>1, <1>2
<1>4. QED
  BY <1>1, <1>3


\* The deltas of a feed from one of them on.
LEMMA SinceIs ==
  ASSUME NEW s, NEW n, IsList(s, n), NEW m \in 0..n
  PROVE  LET t == SubSeq(s, m + 1, Len(s))
         IN DOMAIN t = 1..(n - m) /\ \A k \in 1..(n - m) : t[k] = s[m + k]
<1>1. PICK S : s \in Seq(S) /\ Len(s) = n
  BY ListIsSeq
<1>2. n \in Nat
  BY DEF IsList
<1>3. PICK t : t = SubSeq(s, m + 1, Len(s))
  OBVIOUS
<1>4. /\ t \in Seq(S) /\ Len(t) = n - m
      /\ \A k \in 1..(n - m) : t[k] = s[m + k]
  <2>1. m + 1 \in Int /\ n \in Int /\ \A k \in (m + 1)..n : s[k] \in S
    <3>1. DOMAIN s = 1..n
      BY <1>1, <1>2, LenProperties
    <3>2. \A k \in 1..n : s[k] \in S
      BY <1>1, <3>1, ElementOfSeq
    <3>3. QED
      BY <1>2, <3>2
  <2>2. t = SubSeq(s, m + 1, n)
    BY <1>1, <1>3
  <2>3. /\ t \in Seq(S)
        /\ Len(t) = IF m + 1 <= n THEN n - (m + 1) + 1 ELSE 0
        /\ \A k \in 1..(n - (m + 1) + 1) : t[k] = s[(m + 1) + k - 1]
    BY <2>1, <2>2, SubSeqProperties
  <2>4. Len(t) = n - m
    BY <1>2, <2>3
  <2>5. \A k \in 1..(n - m) : t[k] = s[m + k]
    <3>1. n - (m + 1) + 1 = n - m /\ \A k \in 1..(n - m) : (m + 1) + k - 1 = m + k
      BY <1>2
    <3>2. QED
      BY <2>3, <3>1
  <2>6. QED
    BY <2>3, <2>4, <2>5
<1>5. DOMAIN t = 1..(n - m)
  BY <1>4, LenProperties
<1>6. QED
  BY <1>3, <1>4, <1>5

(***************************************************************************)
(* What the operations do to the registry.                                 *)
(***************************************************************************)
IsRegistry(r) ==
  r = [nodes |-> r.nodes, records |-> r.records, history |-> r.history, epoch |-> r.epoch]

DeltaOf(r, i, leaf) ==
  StatusRegistryDelta(checkpoint(r.epoch, r.nodes),
                      checkpoint(r.epoch + 1, Tree!set_leaf(r.nodes, i, leaf)), i,
                      Tree!node(r.nodes, 0, i), leaf, Tree!siblings(r.nodes, i))

LEMMA CommitIs ==
  ASSUME NEW r, IsRegistry(r), NEW i, NEW leaf
  PROVE  commit_leaf(r, i, leaf) =
           [nodes |-> Tree!set_leaf(r.nodes, i, leaf), records |-> r.records,
            history |-> Append(r.history, DeltaOf(r, i, leaf)), epoch |-> r.epoch + 1]
<1>1. PICK a, b, c, d, x, y, z :
        /\ a = r.nodes /\ b = r.records /\ c = r.history /\ d = r.epoch
        /\ x = Tree!set_leaf(r.nodes, i, leaf) /\ y = DeltaOf(r, i, leaf) /\ z = Append(c, y)
  OBVIOUS
<1>2. r = [nodes |-> a, records |-> b, history |-> c, epoch |-> d]
  BY <1>1, Zenon DEF IsRegistry
<1>3. PICK p : p = [r EXCEPT !.nodes = x]
  OBVIOUS
<1>4. p = [nodes |-> x, records |-> b, history |-> c, epoch |-> d]
  BY <1>2, <1>3
<1>5. PICK q : q = [p EXCEPT !.epoch = d + 1]
  OBVIOUS
<1>6. q = [nodes |-> x, records |-> b, history |-> c, epoch |-> d + 1]
  BY <1>4, <1>5
<1>7. [q EXCEPT !.history = z] = [nodes |-> x, records |-> b, history |-> z, epoch |-> d + 1]
  BY <1>6
<1>8. [r EXCEPT !.nodes = x, !.epoch = @ + 1, !.history = Append(@, y)] = [q EXCEPT !.history = z]
  <2>1. [p EXCEPT !.epoch = @ + 1] = q
    BY <1>4, <1>5
  <2>2. [q EXCEPT !.history = Append(@, y)] = [q EXCEPT !.history = z]
    BY <1>1, <1>6
  <2>3. QED
    BY <1>3, <2>1, <2>2
<1>9. commit_leaf(r, i, leaf) = [r EXCEPT !.nodes = x, !.epoch = @ + 1, !.history = Append(@, y)]
  BY <1>1, Zenon DEF commit_leaf, DeltaOf
<1>10. QED
  BY <1>1, <1>7, <1>8, <1>9

LEMMA ActivateIs ==
  ASSUME IsRegistry(registry), NEW id, NEW c, Activate(id, c)
  PROVE  LET i == IndexOf[id]
             leaf == active_status_leaf(id, c)
         IN /\ i \notin DOMAIN registry.records /\ next_epoch(registry)
            /\ registry' =
                 [nodes |-> Tree!set_leaf(registry.nodes, i, leaf),
                  records |-> [k \in DOMAIN registry.records \cup {i} |->
                                 IF k = i THEN StatusRecord(id, c, TRUE) ELSE registry.records[k]],
                  history |-> Append(registry.history, DeltaOf(registry, i, leaf)),
                  epoch |-> registry.epoch + 1]
            /\ wallet' = [wallet EXCEPT ![id] = witness(registry', id, c)]
            /\ past' = Append(past, registry'.nodes)
<1> DEFINE i == IndexOf[id]
           leaf == active_status_leaf(id, c)
           r == commit_leaf(registry, i, leaf)
           s == [r EXCEPT !.records = [k \in DOMAIN @ \cup {i} |->
                                         IF k = i THEN StatusRecord(id, c, TRUE) ELSE @[k]]]
<1>1. /\ i \notin DOMAIN registry.records /\ next_epoch(registry)
      /\ registry' = s /\ wallet' = [wallet EXCEPT ![id] = witness(s, id, c)]
      /\ past' = Append(past, s.nodes)
  BY Zenon DEF Activate
<1>2. PICK x, y, z, e : /\ x = Tree!set_leaf(registry.nodes, i, leaf) /\ y = registry.records
                        /\ z = Append(registry.history, DeltaOf(registry, i, leaf))
                        /\ e = registry.epoch + 1
  OBVIOUS
<1>3. r = [nodes |-> x, records |-> y, history |-> z, epoch |-> e]
  BY <1>2, CommitIs, Zenon
<1>4. PICK t : t = StatusRecord(id, c, TRUE)
  OBVIOUS
<1> HIDE DEF i, r
<1>5. PICK q : q = [k \in DOMAIN y \cup {i} |-> IF k = i THEN t ELSE y[k]]
  OBVIOUS
<1>6. s = [r EXCEPT !.records = q]
  BY <1>3, <1>4, <1>5
<1>7. [r EXCEPT !.records = q] = [nodes |-> x, records |-> q, history |-> z, epoch |-> e]
  BY <1>3
<1> HIDE DEF s
<1>8. s = [nodes |-> x, records |-> q, history |-> z, epoch |-> e]
  BY <1>6, <1>7, Zenon
<1>9. q = [k \in DOMAIN registry.records \cup {i} |->
             IF k = i THEN StatusRecord(id, c, TRUE) ELSE registry.records[k]]
  BY <1>2, <1>4, <1>5, Zenon
<1>10. QED
  BY <1>1, <1>2, <1>8, <1>9, Zenon DEF i

LEMMA RevokeIs ==
  ASSUME IsRegistry(registry), NEW id, Revoke(id)
  PROVE  LET i == IndexOf[id]
         IN /\ known(registry, id) /\ registry.records[i].active /\ next_epoch(registry)
            /\ registry' =
                 [nodes |-> Tree!set_leaf(registry.nodes, i, Zero),
                  records |-> [registry.records EXCEPT ![i].active = FALSE],
                  history |-> Append(registry.history, DeltaOf(registry, i, Zero)),
                  epoch |-> registry.epoch + 1]
            /\ wallet' = wallet
            /\ past' = Append(past, registry'.nodes)
<1> DEFINE i == IndexOf[id]
           r == commit_leaf(registry, i, Zero)
           s == [r EXCEPT !.records[i].active = FALSE]
<1>1. /\ known(registry, id) /\ registry.records[i].active /\ next_epoch(registry)
      /\ registry' = s /\ wallet' = wallet /\ past' = Append(past, r.nodes)
  BY Zenon DEF Revoke
<1>2. PICK x, y, z, e : /\ x = Tree!set_leaf(registry.nodes, i, Zero) /\ y = registry.records
                        /\ z = Append(registry.history, DeltaOf(registry, i, Zero))
                        /\ e = registry.epoch + 1
  OBVIOUS
<1>3. r = [nodes |-> x, records |-> y, history |-> z, epoch |-> e]
  BY <1>2, CommitIs, Zenon
<1> HIDE DEF i, r
<1>4. PICK q : q = [y EXCEPT ![i].active = FALSE]
  OBVIOUS
<1>5. s = [nodes |-> x, records |-> q, history |-> z, epoch |-> e]
  <2>1. r.records = y
    BY <1>3
  <2>2. [r EXCEPT !.records[i].active = FALSE] = [r EXCEPT !.records = q]
    BY <1>4, <2>1
  <2>3. [r EXCEPT !.records = q] = [nodes |-> x, records |-> q, history |-> z, epoch |-> e]
    BY <1>3
  <2>4. QED
    BY <2>2, <2>3
<1> HIDE DEF s
<1>6. r.nodes = x /\ s.nodes = x
  BY <1>3, <1>5
<1>7. QED
  BY <1>1, <1>2, <1>4, <1>5, <1>6, Zenon DEF i

(***************************************************************************)
(* The trees of every epoch are consistent, the last one is the            *)
(* registry's, and the feed has one delta per epoch.                       *)
(***************************************************************************)
Trees ==
  /\ IsRegistry(registry) /\ registry.epoch \in Nat
  /\ IsList(registry.history, registry.epoch)
  /\ IsList(past, registry.epoch + 1)
  /\ past[registry.epoch + 1] = registry.nodes
  /\ \A e \in 0..registry.epoch : Consistent(past[e + 1])

LEMMA InitTrees ==
  ASSUME REGISTRY_DEPTH \in Nat, RegistryInit
  PROVE  Trees
<1>1. PICK N : N = [x \in {} |-> Zero]
  OBVIOUS
<1>2. registry = [nodes |-> N, records |-> [j \in {} |-> Zero], history |-> <<>>, epoch |-> 0]
  BY <1>1, Zenon DEF RegistryInit, New
<1>3. registry.nodes = N /\ registry.history = <<>> /\ registry.epoch = 0 /\ IsRegistry(registry)
  BY <1>2 DEF IsRegistry
<1>4. past = <<N>>
  BY <1>1, Zenon DEF RegistryInit, New
<1>5. IsList(registry.history, registry.epoch) /\ IsList(past, registry.epoch + 1)
  BY <1>3, <1>4 DEF IsList
<1>6. Consistent(N)
  BY <1>1, EmptyConsistent
<1>7. \A e \in 0..registry.epoch : e = 0
  BY <1>3
<1>8. QED
  BY <1>3, <1>4, <1>5, <1>6, <1>7 DEF Trees

\* One more epoch, from a leaf that was written.
LEMMA TreesGrow ==
  ASSUME RegistryConstants, Trees, NEW i \in Nat, NEW leaf, NEW recs,
         registry' = [nodes |-> Tree!set_leaf(registry.nodes, i, leaf), records |-> recs,
                      history |-> Append(registry.history, DeltaOf(registry, i, leaf)),
                      epoch |-> registry.epoch + 1],
         past' = Append(past, registry'.nodes)
  PROVE  /\ Trees'
         /\ registry'.epoch = registry.epoch + 1 /\ registry'.records = recs
         /\ past'[registry.epoch + 2] = Tree!set_leaf(registry.nodes, i, leaf)
         /\ \A e \in 0..registry.epoch : past'[e + 1] = past[e + 1]
         /\ registry'.history[registry.epoch + 1] = DeltaOf(registry, i, leaf)
         /\ \A e \in 1..registry.epoch : registry'.history[e] = registry.history[e]
<1>1. PICK x, z, h, d, n : /\ x = Tree!set_leaf(registry.nodes, i, leaf)
                           /\ h = registry.history /\ d = DeltaOf(registry, i, leaf)
                           /\ z = Append(h, d) /\ n = registry.epoch
  OBVIOUS
<1>2. registry' = [nodes |-> x, records |-> recs, history |-> z, epoch |-> n + 1]
  BY <1>1, Zenon
<1>3. /\ registry'.nodes = x /\ registry'.records = recs /\ registry'.history = z
      /\ registry'.epoch = n + 1
  BY <1>2
<1>4. /\ n \in Nat /\ IsList(h, n) /\ IsList(past, n + 1)
      /\ past[n + 1] = registry.nodes
      /\ \A e \in 0..n : Consistent(past[e + 1])
  BY <1>1, Zenon DEF Trees
<1>5. IsList(z, n + 1) /\ z[n + 1] = d /\ \A e \in 1..n : z[e] = h[e]
  <2>1. PICK T : h \in Seq(T) /\ d \in T /\ Len(h) = n
    BY <1>4, ListAndMore
  <2>2. z \in Seq(T) /\ Len(z) = n + 1 /\ z[n + 1] = d /\ \A e \in 1..n : z[e] = h[e]
    BY <1>1, <2>1, AppendProperties
  <2>3. z = [e \in 1..(n + 1) |-> z[e]]
    BY <1>4, <2>2, LenProperties
  <2>4. QED
    BY <1>4, <2>2, <2>3 DEF IsList
<1>6. past' = Append(past, x)
  BY <1>3
<1>7. /\ IsList(past', (n + 1) + 1) /\ past'[(n + 1) + 1] = x
      /\ \A e \in 1..(n + 1) : past'[e] = past[e]
  <2>1. PICK m, p, q : m = n + 1 /\ p = past /\ q = past'
    OBVIOUS
  <2>2. IsList(p, m) /\ q = Append(p, x) /\ m \in Nat
    BY <1>4, <1>6, <2>1
  <2>3. PICK T : p \in Seq(T) /\ x \in T /\ Len(p) = m
    BY <2>2, ListAndMore
  <2>4. q \in Seq(T) /\ Len(q) = m + 1 /\ q[m + 1] = x /\ \A e \in 1..m : q[e] = p[e]
    BY <2>2, <2>3, AppendProperties
  <2>5. q = [e \in 1..(m + 1) |-> q[e]]
    BY <2>2, <2>4, LenProperties
  <2>6. IsList(q, m + 1)
    BY <2>2, <2>5 DEF IsList
  <2>7. QED
    BY <2>1, <2>4, <2>6
<1>8. \A e \in 0..n : e + 1 \in 1..(n + 1) /\ past'[e + 1] = past[e + 1]
  <2>1. \A e \in 0..n : e + 1 \in 1..(n + 1)
    BY <1>4
  <2>2. QED
    BY <1>7, <2>1
<1>9. Consistent(x)
  <2>1. n \in 0..n /\ REGISTRY_DEPTH \in Nat
    BY <1>4 DEF RegistryConstants
  <2>2. Consistent(registry.nodes)
    BY <1>4, <2>1
  <2>3. QED
    BY <1>1, <2>1, <2>2, SetLeafIs
<1>10. ASSUME NEW e \in 0..(n + 1) PROVE Consistent(past'[e + 1])
  <2>1. e \in 0..n \/ e = n + 1
    BY <1>4
  <2>2. QED
    BY <1>4, <1>7, <1>8, <1>9, <2>1
<1>11. Trees'
  <2>1. IsRegistry(registry')
    BY <1>2, <1>3 DEF IsRegistry
  <2>2. n + 1 \in Nat
    BY <1>4
  <2>3. \A e \in 0..registry'.epoch : Consistent(past'[e + 1])
    BY <1>3, <1>10
  <2>4. QED
    BY <1>3, <1>5, <1>7, <2>1, <2>2, <2>3 DEF Trees
<1>12. (n + 1) + 1 = n + 2
  BY <1>4
<1>13. QED
  BY <1>1, <1>3, <1>5, <1>7, <1>8, <1>11, <1>12

(***************************************************************************)
(* A genuine witness is the registry's own for some epoch so far.          *)
(***************************************************************************)
Genuine(id, w, trees, last) ==
  LET nodes == trees[w.epoch + 1] IN
  /\ w.epoch \in 0..last
  /\ w = StatusWitness(w.epoch, nodes, IndexOf[id], w.active_leaf)
  /\ w.active_leaf = active_status_leaf(id, w.active_leaf[3])
  /\ Tree!node(nodes, 0, IndexOf[id]) = w.active_leaf

Held ==
  /\ wallet = [id \in StatusIds |-> wallet[id]]
  /\ \A id \in StatusIds : wallet[id] # None => Genuine(id, wallet[id], past, registry.epoch)

LEMMA WitnessFields ==
  ASSUME NEW e, NEW N, NEW i, NEW leaf, NEW w, w = StatusWitness(e, N, i, leaf)
  PROVE  /\ IsWitness(w) /\ w.epoch = e /\ w.root = Tree!root(N) /\ w.leaf_index = i
         /\ w.active_leaf = leaf /\ w.siblings = Tree!siblings(N, i)
<1>1. PICK r, p : r = Tree!root(N) /\ p = Tree!siblings(N, i)
  OBVIOUS
<1>2. p = [k \in 1..REGISTRY_DEPTH |-> Tree!node(N, k - 1, Tree!sibling(Tree!shifted(i)[k - 1]))]
  BY <1>1, Zenon DEF Tree!siblings
<1>3. p = [k \in 1..REGISTRY_DEPTH |-> p[k]]
  BY <1>2
<1>4. w = [epoch |-> e, root |-> r, leaf_index |-> i, active_leaf |-> leaf, siblings |-> p]
  BY <1>1, Zenon DEF StatusWitness
<1>5. w.epoch = e /\ w.root = r /\ w.leaf_index = i /\ w.active_leaf = leaf /\ w.siblings = p
  BY <1>4
<1>6. IsWitness(w)
  BY <1>3, <1>4, <1>5, Zenon DEF IsWitness
<1>7. QED
  BY <1>1, <1>5, <1>6

LEMMA GenuineFields ==
  ASSUME NEW id, NEW w, NEW P, NEW n, Genuine(id, w, P, n)
  PROVE  /\ IsWitness(w) /\ w.leaf_index = IndexOf[id]
         /\ w.root = Tree!root(P[w.epoch + 1])
         /\ w.siblings = Tree!siblings(P[w.epoch + 1], IndexOf[id])
<1>1. PICK e, N, i, leaf : /\ e = w.epoch /\ N = P[w.epoch + 1] /\ i = IndexOf[id]
                           /\ leaf = w.active_leaf
  OBVIOUS
<1>2. w = StatusWitness(e, N, i, leaf)
  BY <1>1, Zenon DEF Genuine
<1>3. QED
  BY <1>1, <1>2, WitnessFields

\* A genuine witness stays one: nothing of a past epoch changes.
LEMMA GenuineStays ==
  ASSUME NEW id, NEW w, NEW n \in Nat, NEW P, Genuine(id, w, P, n), NEW Q,
         \A e \in 0..n : Q[e + 1] = P[e + 1]
  PROVE  Genuine(id, w, Q, n + 1)
<1>1. w.epoch \in 0..n
  BY Zenon DEF Genuine
<1>2. Q[w.epoch + 1] = P[w.epoch + 1] /\ w.epoch \in 0..(n + 1)
  BY <1>1
<1>3. QED
  BY <1>2, Zenon DEF Genuine

\* A leaf and a path that lead to the root of an epoch are what the registry issues for it.
LEMMA RootedIsGenuine ==
  ASSUME RegistryConstants, Trees, NEW id \in StatusIds, NEW w,
         Genuine(id, w, past, registry.epoch), NEW v,
         SameLeaf(v, w), NEW e \in 0..registry.epoch,
         [epoch |-> v.epoch, root |-> v.root] = checkpoint(e, past[e + 1])
  PROVE  Genuine(id, v, past, registry.epoch)
<1> DEFINE N == past[e + 1]
           i == IndexOf[id]
<1>1. v.epoch = e /\ v.root = Tree!root(N)
  <2>1. PICK a, b, c, d : a = v.epoch /\ b = v.root /\ c = e /\ d = Tree!root(N)
    OBVIOUS
  <2>2. [epoch |-> a, root |-> b] = [epoch |-> c, root |-> d]
    BY <2>1, Zenon DEF checkpoint
  <2>3. a = c /\ b = d
    BY <2>2
  <2>4. QED
    BY <2>1, <2>3
<1>2. /\ v.leaf_index = i /\ v.active_leaf = w.active_leaf /\ IsWitness(v)
      /\ root_from_witness(v) = v.root
  BY GenuineFields, Zenon DEF SameLeaf
<1>3. Tree!root_from_path(v.active_leaf, i, v.siblings) = Tree!root(N)
  BY <1>1, <1>2, Zenon DEF root_from_witness
<1>4. Consistent(N) /\ REGISTRY_DEPTH \in Nat /\ i \in Nat /\ Tree!shifted(i)[REGISTRY_DEPTH] = 0
  <2>1. IndexOf \in [StatusIds -> Nat] /\ Tree!shifted(IndexOf[id])[REGISTRY_DEPTH] = 0
        /\ REGISTRY_DEPTH \in Nat
    BY Zenon DEF RegistryConstants
  <2>2. Consistent(N)
    BY Zenon DEF Trees
  <2>3. QED
    BY <2>1, <2>2
<1>5. /\ v.active_leaf = Tree!node(N, 0, i)
      /\ \A k \in 1..REGISTRY_DEPTH : v.siblings[k] = Tree!siblings(N, i)[k]
  BY <1>3, <1>4, PathBinds
<1>6. PICK p : p = [k \in 1..REGISTRY_DEPTH |-> v.siblings[k]]
  OBVIOUS
<1>7. Tree!siblings(N, i) = p
  <2>1. PICK q : q = Tree!siblings(N, i)
    OBVIOUS
  <2>2. q = [k \in 1..REGISTRY_DEPTH |-> Tree!node(N, k - 1, Tree!sibling(Tree!shifted(i)[k - 1]))]
    BY <2>1, Zenon DEF Tree!siblings
  <2>3. q = [k \in 1..REGISTRY_DEPTH |-> q[k]]
    BY <2>2
  <2>4. \A k \in 1..REGISTRY_DEPTH : v.siblings[k] = q[k]
    BY <1>5, <2>1
  <2>5. QED
    BY <1>6, <2>1, <2>3, <2>4
<1>8. v = [epoch |-> v.epoch, root |-> v.root, leaf_index |-> v.leaf_index,
           active_leaf |-> v.active_leaf, siblings |-> p]
  BY <1>2, <1>6, Zenon DEF IsWitness
<1>9. v = StatusWitness(v.epoch, N, i, v.active_leaf)
  BY <1>1, <1>2, <1>7, <1>8, Zenon DEF StatusWitness
<1>10. w.active_leaf = active_status_leaf(id, w.active_leaf[3])
  BY Zenon DEF Genuine
<1>11. QED
  BY <1>1, <1>2, <1>5, <1>9, <1>10, Zenon DEF Genuine

\* What the registry issues now.
LEMMA IssuedIsGenuine ==
  ASSUME NEW r, NEW P, NEW n \in Nat, r.epoch = n, P[n + 1] = r.nodes,
         NEW id, NEW c, witness(r, id, c) # None,
         Tree!node(r.nodes, 0, IndexOf[id]) = active_status_leaf(id, c)
  PROVE  Genuine(id, witness(r, id, c), P, n)
<1>1. PICK N, i, leaf : /\ N = r.nodes /\ i = IndexOf[id] /\ leaf = active_status_leaf(id, c)
  OBVIOUS
<1>2. witness(r, id, c) = StatusWitness(n, N, i, leaf)
  BY <1>1, Zenon DEF witness
<1>3. PICK w : w = StatusWitness(n, N, i, leaf)
  OBVIOUS
<1>4. w.epoch = n /\ w.active_leaf = leaf
  BY <1>3, WitnessFields
<1>5. P[n + 1] = N /\ n \in 0..n
  BY <1>1
<1>6. leaf = active_status_leaf(id, leaf[3])
  BY <1>1 DEF active_status_leaf
<1>7. Genuine(id, w, P, n)
  BY <1>1, <1>3, <1>4, <1>5, <1>6, Zenon DEF Genuine
<1>8. QED
  BY <1>2, <1>3, <1>7

LEMMA ActivateKeeps ==
  ASSUME RegistryConstants, Trees, Held, NEW id \in StatusIds, NEW c, Activate(id, c)
  PROVE  Trees' /\ Held'
<1> DEFINE i == IndexOf[id]
           leaf == active_status_leaf(id, c)
           recs == [k \in DOMAIN registry.records \cup {i} |->
                   IF k = i THEN StatusRecord(id, c, TRUE) ELSE registry.records[k]]
<1>1. IsRegistry(registry) /\ registry.epoch \in Nat
  BY DEF Trees
<1>2. /\ registry' = [nodes |-> Tree!set_leaf(registry.nodes, i, leaf), records |-> recs,
                      history |-> Append(registry.history, DeltaOf(registry, i, leaf)),
                      epoch |-> registry.epoch + 1]
      /\ wallet' = [wallet EXCEPT ![id] = witness(registry', id, c)]
      /\ past' = Append(past, registry'.nodes)
  BY <1>1, ActivateIs, Zenon
<1>3. i \in Nat /\ REGISTRY_DEPTH \in Nat
  BY DEF RegistryConstants
<1> HIDE DEF recs
<1>4. /\ Trees' /\ registry'.epoch = registry.epoch + 1
      /\ \A e \in 0..registry.epoch : past'[e + 1] = past[e + 1]
      /\ past'[registry.epoch + 2] = Tree!set_leaf(registry.nodes, i, leaf)
  BY <1>2, <1>3, TreesGrow, Zenon
<1>5. Tree!node(registry'.nodes, 0, i) = leaf
  <2>1. registry'.nodes = Tree!set_leaf(registry.nodes, i, leaf)
    <3>1. PICK x, z : x = Tree!set_leaf(registry.nodes, i, leaf)
                      /\ z = Append(registry.history, DeltaOf(registry, i, leaf))
      OBVIOUS
    <3>2. registry' = [nodes |-> x, records |-> recs, history |-> z, epoch |-> registry.epoch + 1]
      BY <1>2, <3>1, Zenon
    <3>3. QED
      BY <3>1, <3>2
  <2>2. Consistent(registry.nodes)
    <3>1. registry.epoch \in 0..registry.epoch
      BY <1>1
    <3>2. QED
      BY <3>1 DEF Trees
  <2>3. QED
    BY <1>3, <2>1, <2>2, SetLeafIs
<1>6. witness(registry', id, c) # None =>
        Genuine(id, witness(registry', id, c), past', registry'.epoch)
  <2>1. PICK r, P, n : r = registry' /\ P = past' /\ n = registry'.epoch
    OBVIOUS
  <2>2. n \in Nat /\ r.epoch = n /\ P[n + 1] = r.nodes
    BY <1>4, <2>1 DEF Trees
  <2>3. Tree!node(r.nodes, 0, IndexOf[id]) = active_status_leaf(id, c)
    BY <1>5, <2>1
  <2>4. witness(r, id, c) # None => Genuine(id, witness(r, id, c), P, n)
    BY <2>2, <2>3, IssuedIsGenuine
  <2>5. QED
    BY <2>1, <2>4, Zenon
<1>7. wallet' = [j \in StatusIds |-> IF j = id THEN witness(registry', id, c) ELSE wallet[j]]
  BY <1>2 DEF Held
<1>8. ASSUME NEW j \in StatusIds, wallet'[j] # None
      PROVE  Genuine(j, wallet'[j], past', registry'.epoch)
  <2>1. CASE j = id
    BY <1>6, <1>7, <1>8, <2>1
  <2>2. CASE j # id
    <3>1. wallet'[j] = wallet[j]
      BY <1>7, <2>2
    <3>2. Genuine(j, wallet[j], past, registry.epoch)
      BY <1>8, <3>1 DEF Held
    <3>3. Genuine(j, wallet[j], past', registry.epoch + 1)
      BY <1>1, <1>4, <3>2, GenuineStays
    <3>4. QED
      BY <1>4, <3>1, <3>3
  <2>3. QED
    BY <2>1, <2>2
<1>9. wallet' = [j \in StatusIds |-> wallet'[j]]
  BY <1>7
<1>10. QED
  BY <1>4, <1>8, <1>9 DEF Held

LEMMA RevokeKeeps ==
  ASSUME RegistryConstants, Trees, Held, NEW id \in StatusIds, Revoke(id)
  PROVE  Trees' /\ Held'
<1> DEFINE i == IndexOf[id]
           recs == [registry.records EXCEPT ![i].active = FALSE]
<1>1. IsRegistry(registry) /\ registry.epoch \in Nat
  BY DEF Trees
<1>2. /\ registry' = [nodes |-> Tree!set_leaf(registry.nodes, i, Zero), records |-> recs,
                      history |-> Append(registry.history, DeltaOf(registry, i, Zero)),
                      epoch |-> registry.epoch + 1]
      /\ wallet' = wallet
      /\ past' = Append(past, registry'.nodes)
  BY <1>1, RevokeIs, Zenon
<1>3. i \in Nat
  BY DEF RegistryConstants
<1> HIDE DEF recs
<1>4. /\ Trees' /\ registry'.epoch = registry.epoch + 1
      /\ \A e \in 0..registry.epoch : past'[e + 1] = past[e + 1]
  BY <1>2, <1>3, TreesGrow, Zenon
<1>5. ASSUME NEW j \in StatusIds, wallet'[j] # None
      PROVE  Genuine(j, wallet'[j], past', registry'.epoch)
  <2>1. Genuine(j, wallet[j], past, registry.epoch)
    BY <1>2, <1>5 DEF Held
  <2>2. Genuine(j, wallet[j], past', registry.epoch + 1)
    BY <1>1, <1>4, <2>1, GenuineStays
  <2>3. QED
    BY <1>2, <1>4, <2>2
<1>6. wallet' = [j \in StatusIds |-> wallet'[j]]
  BY <1>2 DEF Held
<1>7. QED
  BY <1>4, <1>5, <1>6 DEF Held

\* Whatever the batch is, it is a list of deltas.
LEMMA BatchIsList ==
  ASSUME RegistryConstants, Trees, NEW n \in 0..registry.epoch, NEW batch \in Batches(n)
  PROVE  \E m \in Nat : DOMAIN batch = 1..m
<1>1. CASE batch = deltas_since(registry, n)
  <2>1. PICK h, l : h = registry.history /\ l = registry.epoch
    OBVIOUS
  <2>2. IsList(h, l) /\ n \in 0..l /\ l \in Nat
    BY <2>1 DEF Trees
  <2>3. batch = SubSeq(h, n + 1, Len(h))
    BY <1>1, <2>1 DEF deltas_since
  <2>4. DOMAIN batch = 1..(l - n) /\ l - n \in Nat
    BY <2>2, <2>3, SinceIs
  <2>5. QED
    BY <2>4
<1>2. CASE batch \in UNION {[1..m -> Tampered] : m \in 0..MaxBatch}
  <2>1. PICK m \in 0..MaxBatch : batch \in [1..m -> Tampered]
    BY <1>2
  <2>2. m \in Nat /\ DOMAIN batch = 1..m
    BY <2>1 DEF RegistryConstants
  <2>3. QED
    BY <2>2
<1>3. QED
  BY <1>1, <1>2 DEF Batches

LEMMA RefreshKeepsHeld ==
  ASSUME RegistryConstants, Trees, Held, NEW id \in StatusIds, Refresh(id)
  PROVE  Trees' /\ Held'
<1>1. /\ wallet[id] # None /\ registry' = registry /\ past' = past
      /\ \E batch \in Batches(wallet[id].epoch), e \in 0..registry.epoch :
           LET w == refresh_status_witness(wallet[id], batch, checkpoint(e, past[e + 1])) IN
           w # None /\ wallet' = [wallet EXCEPT ![id] = w]
  BY Zenon DEF Refresh
<1>2. PICK batch, e, v :
        /\ batch \in Batches(wallet[id].epoch) /\ e \in 0..registry.epoch
        /\ v = refresh_status_witness(wallet[id], batch, checkpoint(e, past[e + 1]))
        /\ v # None /\ wallet' = [wallet EXCEPT ![id] = v]
  BY <1>1
<1>3. Genuine(id, wallet[id], past, registry.epoch)
  BY <1>1 DEF Held
<1>4. IsWitness(wallet[id]) /\ wallet[id].epoch \in 0..registry.epoch
  BY <1>3, GenuineFields, Zenon DEF Genuine
<1>5. PICK m \in Nat : DOMAIN batch = 1..m
  BY <1>2, <1>4, BatchIsList
<1>6. SameLeaf(v, wallet[id]) /\ [epoch |-> v.epoch, root |-> v.root] = checkpoint(e, past[e + 1])
  BY <1>2, <1>4, <1>5, RefreshKeeps
<1>7. Genuine(id, v, past, registry.epoch)
  BY <1>2, <1>3, <1>6, RootedIsGenuine
<1>8. wallet' = [j \in StatusIds |-> IF j = id THEN v ELSE wallet[j]]
  BY <1>2 DEF Held
<1>9. \A j \in StatusIds : wallet'[j] # None => Genuine(j, wallet'[j], past, registry.epoch)
  BY <1>7, <1>8 DEF Held
<1>10. wallet' = [j \in StatusIds |-> wallet'[j]]
  BY <1>8
<1>11. Held'
  BY <1>1, <1>9, <1>10, Zenon DEF Held
<1>12. Trees'
  BY <1>1 DEF Trees
<1>13. QED
  BY <1>11, <1>12

\* A holder that trusts nothing but a checkpoint it accepted independently never ends up
\* with a witness the registry would not have issued: refresh_status_witness pins the
\* result, and a path to the root binds the leaf and its siblings.
THEOREM WitnessesAreGenuine ==
  ASSUME RegistryConstants
  PROVE  RegistrySpec => []WitnessesGenuine
<1>1. RegistryInit => Trees /\ Held
  <2>1. RegistryInit => wallet = [id \in StatusIds |-> None]
    BY DEF RegistryInit
  <2>2. QED
    BY <2>1, InitTrees DEF Held, RegistryConstants
<1>2. Trees /\ Held /\ [RegistryNext]_registry_vars => (Trees /\ Held)'
  <2>1. SUFFICES ASSUME Trees, Held, [RegistryNext]_registry_vars PROVE Trees' /\ Held'
    OBVIOUS
  <2>2. ASSUME NEW id \in StatusIds, NEW c \in Commitments, Activate(id, c)
        PROVE  Trees' /\ Held'
    BY <2>1, <2>2, ActivateKeeps
  <2>3. ASSUME NEW id \in StatusIds, Revoke(id) PROVE Trees' /\ Held'
    BY <2>1, <2>3, RevokeKeeps
  <2>4. ASSUME NEW id \in StatusIds, Refresh(id) PROVE Trees' /\ Held'
    BY <2>1, <2>4, RefreshKeepsHeld
  <2>5. CASE UNCHANGED registry_vars
    BY <2>1, <2>5 DEF Trees, Held, registry_vars
  <2>6. QED
    BY <2>1, <2>2, <2>3, <2>4, <2>5 DEF RegistryNext
<1>3. Held => WitnessesGenuine
  <2>1. ASSUME Held, NEW id \in StatusIds, wallet[id] # None
        PROVE  LET w == wallet[id] IN
               /\ w = StatusWitness(w.epoch, past[w.epoch + 1], w.leaf_index, w.active_leaf)
               /\ Tree!node(past[w.epoch + 1], 0, w.leaf_index) = w.active_leaf
    <3>1. PICK w : w = wallet[id]
      OBVIOUS
    <3>2. Genuine(id, w, past, registry.epoch)
      BY <2>1, <3>1 DEF Held
    <3>3. w.leaf_index = IndexOf[id]
      BY <3>2, GenuineFields
    <3>4. QED
      BY <3>1, <3>2, <3>3, Zenon DEF Genuine
  <2>2. QED
    BY <2>1, Zenon DEF WitnessesGenuine
<1>4. QED
  BY <1>1, <1>2, <1>3, PTL DEF RegistrySpec

(***************************************************************************)
(* One delta, applied to the registry's own witness.                       *)
(***************************************************************************)
LEMMA EqualOnwards ==
  ASSUME REGISTRY_DEPTH \in Nat, NEW i \in Nat, NEW j \in Nat,
         NEW m \in 0..REGISTRY_DEPTH, Tree!shifted(i)[m] = Tree!shifted(j)[m],
         NEW n \in m..REGISTRY_DEPTH
  PROVE  Tree!shifted(i)[n] = Tree!shifted(j)[n]
<1>1. PICK s, t : s = Tree!shifted(i) /\ t = Tree!shifted(j)
  OBVIOUS
<1>2. \A k \in 0..(REGISTRY_DEPTH - 1) : s[k + 1] = s[k] \div 2 /\ t[k + 1] = t[k] \div 2
  BY <1>1, ShiftedIs
<1> DEFINE bad == {k \in m..REGISTRY_DEPTH : s[k] # t[k]}
<1>3. SUFFICES ASSUME bad # {} PROVE FALSE
  BY <1>1
<1>4. bad \subseteq Nat
  OBVIOUS
<1>5. PICK k \in bad : \A y \in bad : k <= y
  BY <1>3, <1>4, LeastNat
<1>6. k # m /\ k - 1 \in m..REGISTRY_DEPTH /\ ~(k <= k - 1)
      /\ k - 1 \in 0..(REGISTRY_DEPTH - 1) /\ (k - 1) + 1 = k
  BY <1>1, <1>5
<1>7. s[k - 1] = t[k - 1]
  BY <1>5, <1>6
<1>8. s[k] = t[k]
  BY <1>2, <1>6, <1>7
<1>9. QED
  BY <1>5, <1>8

\* The highest level at which the paths of two leaves differ: there, and only there, each
\* path runs through the other's sibling.
LEMMA DivergenceIs ==
  ASSUME REGISTRY_DEPTH \in Nat, NEW i \in Nat, NEW j \in Nat, i # j,
         Tree!shifted(i)[REGISTRY_DEPTH] = 0, Tree!shifted(j)[REGISTRY_DEPTH] = 0
  PROVE  LET k == divergence(j, i)
             s == Tree!shifted(i)
             t == Tree!shifted(j)
         IN /\ k \in 0..(REGISTRY_DEPTH - 1)
            /\ Tree!sibling(s[k]) = t[k]
            /\ \A m \in 0..(REGISTRY_DEPTH - 1) : m # k => Tree!sibling(s[m]) # t[m]
<1>1. PICK s, t, D : s = Tree!shifted(i) /\ t = Tree!shifted(j) /\ D = REGISTRY_DEPTH
  OBVIOUS
<1>2. /\ D \in Nat /\ s[0] = i /\ t[0] = j /\ s[D] = t[D]
      /\ \A k \in 0..D : s[k] \in Nat /\ t[k] \in Nat
      /\ \A k \in 0..(D - 1) : s[k + 1] = s[k] \div 2 /\ t[k + 1] = t[k] \div 2
  BY <1>1, ShiftedIs
<1>3. \E k \in 0..(D - 1) : t[k] # s[k] /\ t[k + 1] = s[k + 1]
  <2> DEFINE same == {k \in 0..D : s[k] = t[k]}
  <2>1. same \subseteq Nat /\ same # {}
    BY <1>2
  <2>2. PICK m \in same : \A y \in same : m <= y
    BY <2>1, LeastNat
  <2>3. m \in 1..D
    BY <1>2, <2>2
  <2>4. m - 1 \in 0..D /\ ~(m <= m - 1) /\ m - 1 \in 0..(D - 1) /\ (m - 1) + 1 = m
    BY <1>2, <2>3
  <2>5. s[m - 1] # t[m - 1] /\ s[m] = t[m]
    BY <2>2, <2>4
  <2>6. QED
    BY <2>4, <2>5
<1>4. PICK k : k = divergence(j, i)
  OBVIOUS
<1>5. k \in 0..(D - 1) /\ t[k] # s[k] /\ t[k + 1] = s[k + 1]
  <2>1. k = CHOOSE x \in 0..(D - 1) : t[x] # s[x] /\ t[x + 1] = s[x + 1]
    BY <1>1, <1>4, Zenon DEF divergence
  <2>2. QED
    BY <1>3, <2>1, Zenon
<1>6. k \in 0..D /\ k + 1 \in 0..D
  BY <1>2, <1>5
<1>7. Tree!sibling(s[k]) = t[k]
  <2>1. s[k] \in Nat /\ t[k] \in Nat /\ t[k] \div 2 = s[k] \div 2
    BY <1>2, <1>5, <1>6
  <2>2. t[k] = s[k] \/ t[k] = Tree!sibling(s[k])
    BY <2>1, SiblingIs
  <2>3. QED
    BY <1>5, <2>2
<1>8. ASSUME NEW m \in 0..(D - 1), m # k PROVE Tree!sibling(s[m]) # t[m]
  <2>1. m \in 0..D /\ m + 1 \in 0..D /\ s[m] \in Nat
    BY <1>2
  <2>2. CASE m < k
    <3>1. SUFFICES ASSUME Tree!sibling(s[m]) = t[m] PROVE FALSE
      OBVIOUS
    <3>2. t[m] \div 2 = s[m] \div 2
      BY <2>1, <3>1, SiblingIs
    <3>3. s[m + 1] = t[m + 1]
      BY <1>2, <3>2
    <3>4. k \in (m + 1)..D
      BY <1>2, <1>5, <2>2
    <3>5. s[k] = t[k]
      BY <1>1, <2>1, <3>3, <3>4, EqualOnwards
    <3>6. QED
      BY <1>5, <3>5
  <2>3. CASE m > k
    <3>1. m \in (k + 1)..D
      BY <1>2, <1>5, <2>3
    <3>2. s[m] = t[m]
      BY <1>1, <1>5, <1>6, <3>1, EqualOnwards
    <3>3. QED
      BY <2>1, <3>2, SiblingIs
  <2>4. m < k \/ m > k
    BY <1>5, <1>8
  <2>5. QED
    BY <2>2, <2>3, <2>4
<1>9. QED
  BY <1>1, <1>4, <1>5, <1>7, <1>8

\* The siblings of another leaf after a leaf was written: those on its path, and one more.
LEMMA SiblingsMove ==
  ASSUME REGISTRY_DEPTH \in Nat, NEW N, Consistent(N), NEW i \in Nat, NEW j \in Nat, i # j,
         Tree!shifted(i)[REGISTRY_DEPTH] = 0, Tree!shifted(j)[REGISTRY_DEPTH] = 0, NEW leaf
  PROVE  LET M == Tree!set_leaf(N, j, leaf)
             k == divergence(j, i)
         IN Tree!siblings(M, i) =
              [m \in 1..REGISTRY_DEPTH |->
                 IF m = k + 1 THEN Tree!subtree_from_path(leaf, j, Tree!siblings(N, j), k)
                 ELSE Tree!siblings(N, i)[m]]
<1>1. PICK s, t, D, M, k :
        /\ s = Tree!shifted(i) /\ t = Tree!shifted(j) /\ D = REGISTRY_DEPTH
        /\ M = Tree!set_leaf(N, j, leaf) /\ k = divergence(j, i)
  OBVIOUS
<1>2. /\ k \in 0..(D - 1) /\ Tree!sibling(s[k]) = t[k]
      /\ \A m \in 0..(D - 1) : m # k => Tree!sibling(s[m]) # t[m]
  BY <1>1, DivergenceIs
<1>3. /\ Consistent(M) /\ Tree!node(M, 0, j) = leaf
      /\ \A m \in 0..D : \A a \in Nat : a # t[m] => Tree!node(M, m, a) = Tree!node(N, m, a)
  BY <1>1, SetLeafIs
<1>4. \A m \in 0..D : s[m] \in Nat /\ t[m] \in Nat
  BY <1>1, ShiftedIs
<1>5. D \in Nat
  BY <1>1
<1>6. Tree!siblings(M, j) = Tree!siblings(N, j)
  <2>1. \A m \in 1..D : Tree!node(M, m - 1, Tree!sibling(t[m - 1]))
                          = Tree!node(N, m - 1, Tree!sibling(t[m - 1]))
    <3>1. SUFFICES ASSUME NEW m \in 1..D
                   PROVE  Tree!node(M, m - 1, Tree!sibling(t[m - 1]))
                            = Tree!node(N, m - 1, Tree!sibling(t[m - 1]))
      OBVIOUS
    <3>2. m - 1 \in 0..D
      BY <1>5
    <3>3. t[m - 1] \in Nat
      BY <1>4, <3>2
    <3>4. Tree!sibling(t[m - 1]) \in Nat /\ Tree!sibling(t[m - 1]) # t[m - 1]
      BY <3>3, SiblingIs
    <3>5. QED
      BY <1>3, <3>2, <3>4
  <2>2. /\ Tree!siblings(M, j) = [m \in 1..D |-> Tree!node(M, m - 1, Tree!sibling(t[m - 1]))]
        /\ Tree!siblings(N, j) = [m \in 1..D |-> Tree!node(N, m - 1, Tree!sibling(t[m - 1]))]
    BY <1>1, Zenon DEF Tree!siblings
  <2>3. QED
    BY <2>1, <2>2
<1>7. Tree!subtree_from_path(leaf, j, Tree!siblings(N, j), k) = Tree!node(M, k, t[k])
  <2>1. k \in 0..REGISTRY_DEPTH
    BY <1>1, <1>2
  <2>2. Tree!subtree_from_path(Tree!node(M, 0, j), j, Tree!siblings(M, j), k) =
          Tree!node(M, k, Tree!shifted(j)[k])
    BY <1>3, <2>1, PathLeadsUp
  <2>3. QED
    BY <1>1, <1>3, <1>6, <2>2
<1>8. PICK x : x = Tree!subtree_from_path(leaf, j, Tree!siblings(N, j), k)
  OBVIOUS
<1>9. PICK p : p = Tree!siblings(N, i)
  OBVIOUS
<1>10. p = [m \in 1..D |-> Tree!node(N, m - 1, Tree!sibling(s[m - 1]))]
  BY <1>1, <1>9, Zenon DEF Tree!siblings
<1>11. ASSUME NEW m \in 1..D
       PROVE  Tree!node(M, m - 1, Tree!sibling(s[m - 1])) = IF m = k + 1 THEN x ELSE p[m]
  <2>1. m - 1 \in 0..(D - 1) /\ m - 1 \in 0..D /\ (m = k + 1 <=> m - 1 = k)
    BY <1>2, <1>5
  <2>2. CASE m = k + 1
    BY <1>2, <1>7, <1>8, <2>1, <2>2
  <2>3. CASE m # k + 1
    <3>1. Tree!sibling(s[m - 1]) # t[m - 1]
      BY <1>2, <2>1, <2>3
    <3>2. s[m - 1] \in Nat
      BY <1>4, <2>1
    <3>3. Tree!sibling(s[m - 1]) \in Nat
      BY <3>2, SiblingIs
    <3>4. Tree!node(M, m - 1, Tree!sibling(s[m - 1])) = Tree!node(N, m - 1, Tree!sibling(s[m - 1]))
      BY <1>3, <2>1, <3>1, <3>3
    <3>5. p[m] = Tree!node(N, m - 1, Tree!sibling(s[m - 1]))
      BY <1>10
    <3>6. QED
      BY <2>3, <3>4, <3>5
  <2>4. QED
    BY <2>2, <2>3
<1>12. Tree!siblings(M, i) = [m \in 1..D |-> Tree!node(M, m - 1, Tree!sibling(s[m - 1]))]
  BY <1>1, Zenon DEF Tree!siblings
<1>13. Tree!siblings(M, i) = [m \in 1..D |-> IF m = k + 1 THEN x ELSE p[m]]
  BY <1>11, <1>12
<1>14. QED
  BY <1>1, <1>8, <1>9, <1>13

\* d is what the registry publishes when it goes from one tree to the next.
IsDelta(d, e, A, B) ==
  \E id \in StatusIds : \E leaf :
    LET i == IndexOf[id] IN
    /\ e \in Nat /\ e < MAX_EPOCH
    /\ d = StatusRegistryDelta(checkpoint(e, A), checkpoint(e + 1, B), i,
                               Tree!node(A, 0, i), leaf, Tree!siblings(A, i))
    /\ B = Tree!set_leaf(A, i, leaf)

\* None, which stands for a refused refresh, is not a witness.
NoneIsNoWitness == \A e, N, i, leaf : None # StatusWitness(e, N, i, leaf)

LEMMA MovedByIs ==
  ASSUME NEW w, IsWitness(w), NEW d
  PROVE  LET k == divergence(d.changed_index, w.leaf_index) IN
         MovedBy(w, d) =
           [epoch |-> w.epoch, root |-> w.root, leaf_index |-> w.leaf_index,
            active_leaf |-> w.active_leaf,
            siblings |-> [m \in 1..REGISTRY_DEPTH |->
              IF m = k + 1
                THEN Tree!subtree_from_path(d.new_leaf, d.changed_index, d.siblings, k)
                ELSE w.siblings[m]]]
<1>1. PICK k, l, x :
        /\ k = divergence(d.changed_index, w.leaf_index) /\ l = k + 1
        /\ x = Tree!subtree_from_path(d.new_leaf, d.changed_index, d.siblings, k)
  OBVIOUS
<1>2. MovedBy(w, d) = [w EXCEPT !.siblings[l] = x]
  BY <1>1, Zenon DEF MovedBy
<1>3. [w EXCEPT !.siblings[l] = x] =
        [epoch |-> w.epoch, root |-> w.root, leaf_index |-> w.leaf_index,
         active_leaf |-> w.active_leaf,
         siblings |-> [m \in 1..REGISTRY_DEPTH |-> IF m = l THEN x ELSE w.siblings[m]]]
  BY MovedIs
<1>4. QED
  BY <1>1, <1>2, <1>3, Zenon

\* A published delta takes a witness of the tree before it to the one of the tree after it,
\* unless it writes the holder's own leaf.
LEMMA ApplyIs ==
  ASSUME RegistryConstants, NoneIsNoWitness, NEW A, NEW B, Consistent(A), NEW d, NEW e,
         IsDelta(d, e, A, B), NEW id \in StatusIds, NEW leaf,
         leaf = Tree!node(A, 0, IndexOf[id])
  PROVE  /\ d.changed_index = IndexOf[id] =>
              refresh_step(StatusWitness(e, A, IndexOf[id], leaf), d) = None
         /\ d.changed_index # IndexOf[id] =>
              /\ refresh_step(StatusWitness(e, A, IndexOf[id], leaf), d) =
                   StatusWitness(e + 1, B, IndexOf[id], leaf)
              /\ Tree!node(B, 0, IndexOf[id]) = leaf
<1> DEFINE i == IndexOf[id]
<1>1. PICK other, new : other \in StatusIds /\
        LET j == IndexOf[other] IN
        /\ e \in Nat /\ e < MAX_EPOCH
        /\ d = StatusRegistryDelta(checkpoint(e, A), checkpoint(e + 1, B), j,
                                   Tree!node(A, 0, j), new, Tree!siblings(A, j))
        /\ B = Tree!set_leaf(A, j, new)
  BY Zenon DEF IsDelta
<1>2. PICK j, old, path, from, to :
        /\ j = IndexOf[other] /\ old = Tree!node(A, 0, j) /\ path = Tree!siblings(A, j)
        /\ from = [epoch |-> e, root |-> Tree!root(A)]
        /\ to = [epoch |-> e + 1, root |-> Tree!root(B)]
  OBVIOUS
<1>3. d = [from |-> from, to |-> to, changed_index |-> j, old_leaf |-> old, new_leaf |-> new,
           siblings |-> path]
  BY <1>1, <1>2, Zenon DEF StatusRegistryDelta, checkpoint
<1>4. /\ d.from = from /\ d.to = to /\ d.changed_index = j /\ d.old_leaf = old
      /\ d.new_leaf = new /\ d.siblings = path
  BY <1>3
<1>5. /\ d.from.epoch = e /\ d.from.root = Tree!root(A)
      /\ d.to.epoch = e + 1 /\ d.to.root = Tree!root(B)
  BY <1>2, <1>4
<1>6. /\ REGISTRY_DEPTH \in Nat /\ REGISTRY_DEPTH \in 0..REGISTRY_DEPTH
      /\ i \in Nat /\ j \in Nat
      /\ Tree!shifted(i)[REGISTRY_DEPTH] = 0 /\ Tree!shifted(j)[REGISTRY_DEPTH] = 0
  <2>1. IndexOf \in [StatusIds -> Nat] /\ REGISTRY_DEPTH \in Nat
        /\ \A x \in StatusIds : Tree!shifted(IndexOf[x])[REGISTRY_DEPTH] = 0
    BY Zenon DEF RegistryConstants
  <2>2. QED
    BY <1>1, <1>2, <2>1
<1>7. PICK w : w = StatusWitness(e, A, i, leaf)
  OBVIOUS
<1>8. /\ IsWitness(w) /\ w.epoch = e /\ w.root = Tree!root(A) /\ w.leaf_index = i
      /\ w.active_leaf = leaf /\ w.siblings = Tree!siblings(A, i)
  BY <1>7, WitnessFields
<1>9. w # None
  BY <1>7, Zenon DEF NoneIsNoWitness
<1>10. j = i => refresh_step(w, d) = None
  BY <1>4, <1>8, Zenon DEF refresh_step, delta_fits
<1>11. ASSUME j # i
       PROVE  /\ refresh_step(w, d) = StatusWitness(e + 1, B, i, leaf)
              /\ Tree!node(B, 0, i) = leaf
  <2>1. /\ Consistent(B) /\ Tree!node(B, 0, j) = new
        /\ \A m \in 0..REGISTRY_DEPTH : \A a \in Nat :
             a # Tree!shifted(j)[m] => Tree!node(B, m, a) = Tree!node(A, m, a)
    BY <1>1, <1>2, <1>6, SetLeafIs
  <2>2. Tree!node(B, 0, i) = leaf
    <3>1. Tree!shifted(j)[0] = j /\ 0 \in 0..REGISTRY_DEPTH
      BY <1>6, ShiftedIs
    <3>2. QED
      BY <1>6, <1>11, <2>1, <3>1
  <2>3. Tree!siblings(B, j) = path
    <3>1. PICK t, D : t = Tree!shifted(j) /\ D = REGISTRY_DEPTH
      OBVIOUS
    <3>2. ASSUME NEW m \in 1..D
          PROVE  Tree!node(B, m - 1, Tree!sibling(t[m - 1]))
                   = Tree!node(A, m - 1, Tree!sibling(t[m - 1]))
      <4>1. m - 1 \in 0..D
        BY <1>6, <3>1
      <4>2. t[m - 1] \in Nat
        BY <1>6, <3>1, <4>1, ShiftedIs
      <4>3. Tree!sibling(t[m - 1]) \in Nat /\ Tree!sibling(t[m - 1]) # t[m - 1]
        BY <4>2, SiblingIs
      <4>4. QED
        BY <2>1, <3>1, <4>1, <4>3
    <3>3. /\ Tree!siblings(B, j) = [m \in 1..D |-> Tree!node(B, m - 1, Tree!sibling(t[m - 1]))]
          /\ Tree!siblings(A, j) = [m \in 1..D |-> Tree!node(A, m - 1, Tree!sibling(t[m - 1]))]
      BY <3>1, Zenon DEF Tree!siblings
    <3>4. QED
      BY <1>2, <3>2, <3>3
  <2>4. Tree!root_from_path(old, j, path) = Tree!root(A)
    <3>1. Tree!subtree_from_path(Tree!node(A, 0, j), j, Tree!siblings(A, j), REGISTRY_DEPTH) =
            Tree!node(A, REGISTRY_DEPTH, Tree!shifted(j)[REGISTRY_DEPTH])
      BY <1>6, PathLeadsUp
    <3>2. QED
      BY <1>2, <1>6, <3>1, Zenon DEF Tree!root_from_path, Tree!root
  <2>5. Tree!root_from_path(new, j, path) = Tree!root(B)
    <3>1. Tree!subtree_from_path(Tree!node(B, 0, j), j, Tree!siblings(B, j), REGISTRY_DEPTH) =
            Tree!node(B, REGISTRY_DEPTH, Tree!shifted(j)[REGISTRY_DEPTH])
      BY <1>6, <2>1, PathLeadsUp
    <3>2. QED
      BY <1>6, <2>1, <2>3, <3>1, Zenon DEF Tree!root_from_path, Tree!root
  <2>6. delta_fits(w, d)
    BY <1>1, <1>4, <1>5, <1>8, <1>11, <2>4, <2>5, Zenon DEF delta_fits
  <2>7. PICK k, x, M : /\ k = divergence(j, i) /\ x = Tree!subtree_from_path(new, j, path, k)
                       /\ M = MovedBy(w, d)
    OBVIOUS
  <2>8. MovedBy(w, d) =
          [epoch |-> w.epoch, root |-> w.root, leaf_index |-> w.leaf_index,
           active_leaf |-> w.active_leaf,
           siblings |-> [m \in 1..REGISTRY_DEPTH |->
             IF m = divergence(d.changed_index, w.leaf_index) + 1
               THEN Tree!subtree_from_path(d.new_leaf, d.changed_index, d.siblings,
                                           divergence(d.changed_index, w.leaf_index))
               ELSE w.siblings[m]]]
    BY <1>8, MovedByIs
  <2>9. PICK q : q = [m \in 1..REGISTRY_DEPTH |-> IF m = k + 1 THEN x ELSE w.siblings[m]]
    OBVIOUS
  <2>10. M = [epoch |-> w.epoch, root |-> w.root, leaf_index |-> w.leaf_index,
              active_leaf |-> w.active_leaf, siblings |-> q]
    BY <1>4, <1>8, <2>7, <2>8, <2>9, Zenon
  <2>11. M.siblings = q /\ M.leaf_index = i /\ M.active_leaf = leaf
    BY <1>8, <2>10
  <2>12. Tree!siblings(B, i) = q
    <3>1. Tree!siblings(Tree!set_leaf(A, j, new), i) =
            [m \in 1..REGISTRY_DEPTH |->
               IF m = divergence(j, i) + 1
                 THEN Tree!subtree_from_path(new, j, Tree!siblings(A, j), divergence(j, i))
                 ELSE Tree!siblings(A, i)[m]]
      BY <1>6, <1>11, SiblingsMove
    <3>2. QED
      BY <1>1, <1>2, <1>8, <2>7, <2>9, <3>1, Zenon
  <2>13. root_from_witness(M) = Tree!root(B)
    <3>1. Tree!subtree_from_path(Tree!node(B, 0, i), i, Tree!siblings(B, i), REGISTRY_DEPTH) =
            Tree!node(B, REGISTRY_DEPTH, Tree!shifted(i)[REGISTRY_DEPTH])
      BY <1>6, <2>1, PathLeadsUp
    <3>2. QED
      BY <1>6, <2>2, <2>11, <2>12, <3>1, Zenon
      DEF root_from_witness, Tree!root_from_path, Tree!root
  <2>14. PICK v : v = [epoch |-> d.to.epoch, root |-> root_from_witness(M),
                       leaf_index |-> w.leaf_index, active_leaf |-> w.active_leaf,
                       siblings |-> M.siblings]
    OBVIOUS
  <2>15. refresh_step(w, d) = IF v.root = d.to.root THEN v ELSE None
    BY <1>8, <1>9, <2>6, <2>7, <2>14, StepIs, Zenon
  <2>16. v.root = d.to.root
    BY <1>5, <2>13, <2>14
  <2>17. v = StatusWitness(e + 1, B, i, leaf)
    BY <1>5, <1>8, <2>11, <2>12, <2>13, <2>14, Zenon DEF StatusWitness
  <2>18. QED
    BY <2>2, <2>15, <2>16, <2>17
<1>12. QED
  BY <1>4, <1>7, <1>10, <1>11, Zenon

(***************************************************************************)
(* Feed: every delta of the history is the one between two epochs' trees.  *)
(* Lives: a leaf that was some credential's at an epoch is so now just if  *)
(* no later delta writes it, and then its record is active; the record of  *)
(* a revoked one stays, so that its index is never written again.          *)
(***************************************************************************)
Feed(r, trees) ==
  \A e \in 0..(r.epoch - 1) : IsDelta(r.history[e + 1], e, trees[e + 1], trees[e + 2])

Untouched(i, e, r) == \A t \in (e + 1)..r.epoch : r.history[t].changed_index # i

Recorded(r) ==
  \A i \in DOMAIN r.records :
    LET x == r.records[i] IN x = StatusRecord(x.status_id, x.credential_commitment, x.active)

Lives(r, trees) ==
  \A id \in StatusIds, e \in 0..r.epoch : \A c :
    Tree!node(trees[e + 1], 0, IndexOf[id]) = active_status_leaf(id, c) =>
      /\ known(r, id) /\ r.records[IndexOf[id]].credential_commitment = c
      /\ Untouched(IndexOf[id], e, r) => r.records[IndexOf[id]].active = TRUE
      /\ ~Untouched(IndexOf[id], e, r) => r.records[IndexOf[id]].active = FALSE

LEMMA LeavesDiffer ==
  ASSUME NEW id, NEW c
  PROVE  /\ active_status_leaf(id, c) # Zero
         /\ \A x, y : active_status_leaf(id, c) = active_status_leaf(x, y) => id = x /\ c = y
<1>1. /\ active_status_leaf(id, c)[1] = "active" /\ Zero[1] = "zero"
      /\ \A x, y : active_status_leaf(x, y)[2] = x /\ active_status_leaf(x, y)[3] = y
  BY DEF active_status_leaf, Zero
<1>2. QED
  BY <1>1

LEMMA InitLives ==
  ASSUME REGISTRY_DEPTH \in Nat, RegistryInit
  PROVE  Feed(registry, past) /\ Recorded(registry) /\ Lives(registry, past)
<1>1. PICK N, recs : N = [x \in {} |-> Zero] /\ recs = [j \in {} |-> Zero]
  OBVIOUS
<1>2. registry = [nodes |-> N, records |-> recs, history |-> <<>>, epoch |-> 0]
  BY <1>1, Zenon DEF RegistryInit, New
<1>3. registry.epoch = 0 /\ registry.records = recs /\ DOMAIN recs = {}
  BY <1>1, <1>2
<1>4. past = <<N>>
  BY <1>1, Zenon DEF RegistryInit, New
<1>5. Feed(registry, past) /\ Recorded(registry)
  BY <1>3 DEF Feed, Recorded
<1>6. \A e \in 0..registry.epoch : \A i : Tree!node(past[e + 1], 0, i) = Zero
  <2>1. \A i : Tree!node(N, 0, i) = Zero
    BY <1>1, EmptyConsistent
  <2>2. \A e \in 0..registry.epoch : past[e + 1] = N
    BY <1>3, <1>4
  <2>3. QED
    BY <2>1, <2>2
<1>7. Lives(registry, past)
  BY <1>6, LeavesDiffer DEF Lives
<1>8. QED
  BY <1>5, <1>7

\* What one more epoch does to the feed and to the leaves, whatever its record is.
LEMMA FeedGrows ==
  ASSUME RegistryConstants, Trees, Feed(registry, past), NEW id \in StatusIds, NEW leaf, NEW recs,
         next_epoch(registry),
         registry' = [nodes |-> Tree!set_leaf(registry.nodes, IndexOf[id], leaf), records |-> recs,
                      history |-> Append(registry.history, DeltaOf(registry, IndexOf[id], leaf)),
                      epoch |-> registry.epoch + 1],
         past' = Append(past, registry'.nodes)
  PROVE  /\ Feed(registry', past')
         /\ \A j, e : e \in 0..registry.epoch =>
              (Untouched(j, e, registry') <=> Untouched(j, e, registry) /\ IndexOf[id] # j)
         /\ \A j : /\ Untouched(j, registry.epoch + 1, registry')
                   /\ Untouched(j, registry.epoch, registry)
         /\ Tree!node(past'[registry.epoch + 2], 0, IndexOf[id]) = leaf
         /\ \A j \in Nat : j # IndexOf[id] =>
              Tree!node(past'[registry.epoch + 2], 0, j) = Tree!node(past[registry.epoch + 1], 0, j)
<1> DEFINE i == IndexOf[id]
           n == registry.epoch
<1>1. i \in Nat /\ REGISTRY_DEPTH \in Nat
  BY DEF RegistryConstants
<1>2. /\ n \in Nat /\ registry'.epoch = n + 1
      /\ past'[n + 2] = Tree!set_leaf(registry.nodes, i, leaf)
      /\ \A e \in 0..n : past'[e + 1] = past[e + 1]
      /\ registry'.history[n + 1] = DeltaOf(registry, i, leaf)
      /\ \A e \in 1..n : registry'.history[e] = registry.history[e]
  BY <1>1, TreesGrow, Zenon DEF Trees
<1>3. past[n + 1] = registry.nodes /\ Consistent(registry.nodes)
  <2>1. n \in 0..n
    BY <1>2
  <2>2. QED
    BY <2>1 DEF Trees
<1>4. DeltaOf(registry, i, leaf).changed_index = i
  BY DEF DeltaOf, StatusRegistryDelta
<1>5. IsDelta(registry'.history[n + 1], n, past[n + 1], past'[n + 2])
  <2>1. n < MAX_EPOCH
    BY DEF next_epoch
  <2>2. DeltaOf(registry, i, leaf) =
          StatusRegistryDelta(checkpoint(n, registry.nodes), checkpoint(n + 1, past'[n + 2]), i,
                              Tree!node(registry.nodes, 0, i), leaf, Tree!siblings(registry.nodes, i))
    BY <1>2, Zenon DEF DeltaOf
  <2>3. QED
    BY <1>2, <1>3, <2>1, <2>2, Zenon DEF IsDelta
<1>6. ASSUME NEW e \in 0..n
      PROVE  IsDelta(registry'.history[e + 1], e, past'[e + 1], past'[e + 2])
  <2>1. CASE e = n
    BY <1>2, <1>5, <2>1
  <2>2. CASE e # n
    <3>1. e \in 0..(n - 1) /\ e + 1 \in 1..n /\ e + 1 \in 0..n /\ (e + 1) + 1 = e + 2
      BY <1>2, <2>2
    <3>2. IsDelta(registry.history[e + 1], e, past[e + 1], past[e + 2])
      BY <3>1 DEF Feed
    <3>3. past'[e + 1] = past[e + 1] /\ past'[e + 2] = past[e + 2]
      BY <1>2, <3>1
    <3>4. QED
      BY <1>2, <3>1, <3>2, <3>3
  <2>3. QED
    BY <2>1, <2>2
<1>7. Feed(registry', past')
  <2>1. registry'.epoch - 1 = n
    BY <1>2
  <2>2. QED
    BY <1>6, <2>1 DEF Feed
<1>8. /\ \A j, e : e \in 0..n =>
           (Untouched(j, e, registry') <=> Untouched(j, e, registry) /\ i # j)
      /\ \A j : Untouched(j, n + 1, registry') /\ Untouched(j, n, registry)
  <2>1. PICK q, r, m, l : q = registry' /\ r = registry /\ m = registry.epoch /\ l = m + 1
    OBVIOUS
  <2>2. /\ m \in Nat /\ l = m + 1 /\ r.epoch = m /\ q.epoch = l
        /\ \A e \in 1..m : q.history[e] = r.history[e]
        /\ q.history[l].changed_index = i
    BY <1>2, <1>4, <2>1
  <2>3. ASSUME NEW j
        PROVE  /\ \A e \in 0..m : Untouched(j, e, q) <=> Untouched(j, e, r) /\ i # j
               /\ Untouched(j, l, q) /\ Untouched(j, m, r)
    <3>1. ASSUME NEW e \in 0..m PROVE Untouched(j, e, q) <=> Untouched(j, e, r) /\ i # j
      <4>1. /\ \A t \in (e + 1)..m : t \in (e + 1)..l /\ t \in 1..m
            /\ l \in (e + 1)..l
            /\ \A t \in (e + 1)..l : t = l \/ t \in (e + 1)..m
        <5>1. m \in Int /\ l \in Int /\ e \in Int /\ l = m + 1 /\ 0 <= e /\ e <= m
          BY <2>2
        <5>2. QED
          BY <5>1
      <4>2. Untouched(j, e, q) => Untouched(j, e, r) /\ i # j
        BY <2>2, <4>1 DEF Untouched
      <4>3. Untouched(j, e, r) /\ i # j => Untouched(j, e, q)
        BY <2>2, <4>1 DEF Untouched
      <4>4. QED
        BY <4>2, <4>3
    <3>2. Untouched(j, l, q) /\ Untouched(j, m, r)
      BY <2>2 DEF Untouched
    <3>3. QED
      BY <3>1, <3>2
  <2>4. QED
    BY <2>1, <2>3, Zenon
<1>9. /\ Tree!node(past'[n + 2], 0, i) = leaf
      /\ \A j \in Nat : j # i => Tree!node(past'[n + 2], 0, j) = Tree!node(past[n + 1], 0, j)
  <2>1. 0 \in 0..REGISTRY_DEPTH /\ Tree!shifted(i)[0] = i
    BY <1>1, ShiftedIs
  <2>2. PICK M, N : M = Tree!set_leaf(registry.nodes, i, leaf) /\ N = registry.nodes
    OBVIOUS
  <2>3. /\ Tree!node(M, 0, i) = leaf
        /\ \A m \in 0..REGISTRY_DEPTH : \A j \in Nat :
             j # Tree!shifted(i)[m] => Tree!node(M, m, j) = Tree!node(N, m, j)
    BY <1>1, <1>3, <2>2, SetLeafIs
  <2>4. \A j \in Nat : j # i => Tree!node(M, 0, j) = Tree!node(N, 0, j)
    BY <2>1, <2>3
  <2>5. QED
    BY <1>2, <1>3, <2>2, <2>3, <2>4
<1>10. QED
  BY <1>7, <1>8, <1>9

LEMMA RecordIs ==
  ASSUME NEW id, NEW x, NEW b, NEW f, NEW z, z = StatusRecord(id, x, b)
  PROVE  [z EXCEPT !.active = f] = StatusRecord(id, x, f)
<1>1. z = [status_id |-> id, credential_commitment |-> x, active |-> b]
  BY DEF StatusRecord
<1>2. [z EXCEPT !.active = f] = [status_id |-> id, credential_commitment |-> x, active |-> f]
  BY <1>1
<1>3. QED
  BY <1>2, Zenon DEF StatusRecord

LEMMA ActivateLives ==
  ASSUME RegistryConstants, Trees, Feed(registry, past), Recorded(registry),
         Lives(registry, past), NEW id \in StatusIds, NEW c, Activate(id, c)
  PROVE  Feed(registry', past') /\ Recorded(registry') /\ Lives(registry', past')
<1> DEFINE i == IndexOf[id]
           leaf == active_status_leaf(id, c)
           n == registry.epoch
           recs == [k \in DOMAIN registry.records \cup {i} |->
                   IF k = i THEN StatusRecord(id, c, TRUE) ELSE registry.records[k]]
<1>1. IsRegistry(registry) /\ n \in Nat /\ IndexOf \in [StatusIds -> Nat]
  BY DEF Trees, RegistryConstants
<1>2. /\ i \notin DOMAIN registry.records /\ next_epoch(registry)
      /\ registry' = [nodes |-> Tree!set_leaf(registry.nodes, i, leaf), records |-> recs,
                      history |-> Append(registry.history, DeltaOf(registry, i, leaf)),
                      epoch |-> n + 1]
      /\ past' = Append(past, registry'.nodes)
  BY <1>1, ActivateIs, Zenon
<1>3. /\ DOMAIN recs = DOMAIN registry.records \cup {i} /\ recs[i] = StatusRecord(id, c, TRUE)
      /\ \A k \in DOMAIN registry.records : k # i /\ recs[k] = registry.records[k]
  BY <1>2
<1> HIDE DEF recs
<1>4. /\ registry'.epoch = n + 1 /\ registry'.records = recs
      /\ \A e \in 0..n : past'[e + 1] = past[e + 1]
  BY <1>1, <1>2, TreesGrow, Zenon
<1>5. /\ Feed(registry', past')
      /\ \A j, e : e \in 0..n =>
           (Untouched(j, e, registry') <=> Untouched(j, e, registry) /\ i # j)
      /\ \A j : Untouched(j, n + 1, registry') /\ Untouched(j, n, registry)
      /\ Tree!node(past'[n + 2], 0, i) = leaf
      /\ \A j \in Nat : j # i => Tree!node(past'[n + 2], 0, j) = Tree!node(past[n + 1], 0, j)
  BY <1>2, FeedGrows, Zenon
<1>6. /\ recs[i].status_id = id /\ recs[i].credential_commitment = c /\ recs[i].active = TRUE
  BY <1>3 DEF StatusRecord
<1>7. Recorded(registry')
  <2>1. \A k \in DOMAIN recs :
        recs[k] = StatusRecord(recs[k].status_id, recs[k].credential_commitment, recs[k].active)
    BY <1>3, <1>6 DEF Recorded
  <2>2. QED
    BY <1>4, <2>1 DEF Recorded
<1>8. ASSUME NEW other \in StatusIds, NEW e \in 0..(n + 1), NEW d,
             Tree!node(past'[e + 1], 0, IndexOf[other]) = active_status_leaf(other, d)
      PROVE  /\ known(registry', other) /\ recs[IndexOf[other]].credential_commitment = d
             /\ Untouched(IndexOf[other], e, registry') => recs[IndexOf[other]].active = TRUE
             /\ ~Untouched(IndexOf[other], e, registry') => recs[IndexOf[other]].active = FALSE
  <2> DEFINE j == IndexOf[other]
  <2>1. j \in Nat
    BY <1>1
  <2>2. CASE e = n + 1 /\ j = i
    <3>1. past'[e + 1] = past'[n + 2]
      BY <1>1, <2>2
    <3>2. leaf = active_status_leaf(other, d)
      BY <1>5, <1>8, <2>2, <3>1
    <3>3. other = id /\ d = c
      BY <3>2, LeavesDiffer
    <3>4. Untouched(j, e, registry')
      BY <1>5, <2>2
    <3>5. known(registry', other)
      BY <1>3, <1>4, <1>6, <3>3 DEF known
    <3>6. QED
      BY <1>6, <2>2, <3>3, <3>4, <3>5
  <2>3. ASSUME NEW m \in 0..n, j # i,
               Tree!node(past[m + 1], 0, j) = active_status_leaf(other, d),
               Untouched(j, e, registry') <=> Untouched(j, m, registry)
        PROVE  /\ known(registry', other) /\ recs[j].credential_commitment = d
               /\ Untouched(j, e, registry') => recs[j].active = TRUE
               /\ ~Untouched(j, e, registry') => recs[j].active = FALSE
    <3>1. /\ known(registry, other) /\ registry.records[j].credential_commitment = d
          /\ Untouched(j, m, registry) => registry.records[j].active = TRUE
          /\ ~Untouched(j, m, registry) => registry.records[j].active = FALSE
      BY <2>3 DEF Lives
    <3>2. j \in DOMAIN registry.records /\ registry.records[j].status_id = other
      BY <3>1 DEF known
    <3>3. recs[j] = registry.records[j] /\ j \in DOMAIN recs
      BY <1>3, <3>2
    <3>4. known(registry', other)
      BY <1>4, <3>2, <3>3 DEF known
    <3>5. QED
      BY <2>3, <3>1, <3>3, <3>4
  <2>4. CASE e = n + 1 /\ j # i
    <3>1. n \in 0..n /\ e + 1 = n + 2
      BY <1>1, <2>4
    <3>2. Tree!node(past[n + 1], 0, j) = active_status_leaf(other, d)
      BY <1>5, <1>8, <2>1, <2>4, <3>1
    <3>3. Untouched(j, e, registry') <=> Untouched(j, n, registry)
      BY <1>5, <2>4
    <3>4. QED
      BY <2>3, <2>4, <3>1, <3>2, <3>3
  <2>5. CASE e \in 0..n
    <3>1. Tree!node(past[e + 1], 0, j) = active_status_leaf(other, d)
      BY <1>4, <1>8, <2>5
    <3>2. known(registry, other)
      BY <2>5, <3>1 DEF Lives
    <3>3. j # i
      BY <1>2, <3>2 DEF known
    <3>4. Untouched(j, e, registry') <=> Untouched(j, e, registry)
      BY <1>5, <2>5, <3>3
    <3>5. QED
      BY <2>3, <2>5, <3>1, <3>3, <3>4
  <2>6. e \in 0..n \/ e = n + 1
    BY <1>1
  <2>7. QED
    BY <2>2, <2>4, <2>5, <2>6
<1>9. Lives(registry', past')
  <2>1. SUFFICES ASSUME NEW other \in StatusIds, NEW e \in 0..registry'.epoch, NEW d,
                        Tree!node(past'[e + 1], 0, IndexOf[other]) = active_status_leaf(other, d)
                 PROVE  /\ known(registry', other)
                        /\ registry'.records[IndexOf[other]].credential_commitment = d
                        /\ Untouched(IndexOf[other], e, registry') =>
                             registry'.records[IndexOf[other]].active = TRUE
                        /\ ~Untouched(IndexOf[other], e, registry') =>
                             registry'.records[IndexOf[other]].active = FALSE
    BY DEF Lives
  <2>2. e \in 0..(n + 1)
    BY <1>4
  <2>3. /\ known(registry', other) /\ recs[IndexOf[other]].credential_commitment = d
        /\ Untouched(IndexOf[other], e, registry') => recs[IndexOf[other]].active = TRUE
        /\ ~Untouched(IndexOf[other], e, registry') => recs[IndexOf[other]].active = FALSE
    BY <2>1, <2>2, <1>8, Zenon
  <2>4. QED
    BY <2>3, <1>4, Zenon
<1>10. QED
  BY <1>5, <1>7, <1>9

LEMMA RevokeLives ==
  ASSUME RegistryConstants, Trees, Feed(registry, past), Recorded(registry),
         Lives(registry, past), NEW id \in StatusIds, Revoke(id)
  PROVE  Feed(registry', past') /\ Recorded(registry') /\ Lives(registry', past')
<1> DEFINE i == IndexOf[id]
           n == registry.epoch
           recs == [registry.records EXCEPT ![i].active = FALSE]
<1>1. IsRegistry(registry) /\ n \in Nat /\ IndexOf \in [StatusIds -> Nat]
  BY DEF Trees, RegistryConstants
<1>2. /\ known(registry, id) /\ next_epoch(registry)
      /\ registry' = [nodes |-> Tree!set_leaf(registry.nodes, i, Zero), records |-> recs,
                      history |-> Append(registry.history, DeltaOf(registry, i, Zero)),
                      epoch |-> n + 1]
      /\ past' = Append(past, registry'.nodes)
  BY <1>1, RevokeIs, Zenon
<1>3. i \in DOMAIN registry.records /\ registry.records[i].status_id = id
  BY <1>2 DEF known
<1>4. PICK Q, x, b : /\ Q = registry.records /\ x = Q[i].credential_commitment /\ b = Q[i].active
  OBVIOUS
<1>5. Q[i] = StatusRecord(id, x, b)
  BY <1>3, <1>4, Zenon DEF Recorded
<1>6. /\ DOMAIN recs = DOMAIN Q /\ \A k \in DOMAIN Q : k # i => recs[k] = Q[k]
      /\ recs[i] = StatusRecord(id, x, FALSE)
  <2>1. recs = [Q EXCEPT ![i].active = FALSE]
    BY <1>4
  <2>2. PICK f, z, y : f = FALSE /\ z = Q[i] /\ y = [z EXCEPT !.active = f]
    OBVIOUS
  <2>3. y = StatusRecord(id, x, FALSE)
    <3>1. z = StatusRecord(id, x, b)
      BY <1>5, <2>2, Zenon
    <3>2. [z EXCEPT !.active = f] = StatusRecord(id, x, f)
      BY <3>1, RecordIs
    <3>3. QED
      BY <2>2, <3>2, Zenon
  <2>4. [Q EXCEPT ![i].active = FALSE] = [Q EXCEPT ![i] = y]
    BY <2>2
  <2> HIDE DEF recs
  <2>5. recs = [Q EXCEPT ![i] = y]
    BY <2>1, <2>4
  <2>6. i \in DOMAIN Q
    BY <1>3, <1>4
  <2>7. QED
    BY <2>3, <2>5, <2>6
<1> HIDE DEF recs
<1>7. /\ registry'.epoch = n + 1 /\ registry'.records = recs
      /\ \A e \in 0..n : past'[e + 1] = past[e + 1]
  BY <1>1, <1>2, TreesGrow, Zenon
<1>8. /\ Feed(registry', past')
      /\ \A j, e : e \in 0..n =>
           (Untouched(j, e, registry') <=> Untouched(j, e, registry) /\ i # j)
      /\ \A j : Untouched(j, n + 1, registry') /\ Untouched(j, n, registry)
      /\ Tree!node(past'[n + 2], 0, i) = Zero
      /\ \A j \in Nat : j # i => Tree!node(past'[n + 2], 0, j) = Tree!node(past[n + 1], 0, j)
  BY <1>2, FeedGrows, Zenon
<1>9. recs[i].status_id = id /\ recs[i].credential_commitment = x /\ recs[i].active = FALSE
  BY <1>6 DEF StatusRecord
<1>10. Recorded(registry')
  <2>1. \A k \in DOMAIN recs :
        recs[k] = StatusRecord(recs[k].status_id, recs[k].credential_commitment, recs[k].active)
    BY <1>4, <1>6, <1>9 DEF Recorded
  <2>2. QED
    BY <1>7, <2>1 DEF Recorded
<1>11. ASSUME NEW other \in StatusIds, NEW e \in 0..(n + 1), NEW d,
              Tree!node(past'[e + 1], 0, IndexOf[other]) = active_status_leaf(other, d)
       PROVE  /\ known(registry', other) /\ recs[IndexOf[other]].credential_commitment = d
              /\ Untouched(IndexOf[other], e, registry') => recs[IndexOf[other]].active = TRUE
              /\ ~Untouched(IndexOf[other], e, registry') => recs[IndexOf[other]].active = FALSE
  <2> DEFINE j == IndexOf[other]
  <2>1. j \in Nat
    BY <1>1
  <2>2. CASE e = n + 1 /\ j = i
    <3>1. past'[e + 1] = past'[n + 2]
      BY <1>1, <2>2
    <3>2. Zero = active_status_leaf(other, d)
      BY <1>8, <1>11, <2>2, <3>1
    <3>3. QED
      BY <3>2, LeavesDiffer
  <2>3. ASSUME NEW m \in 0..n, Tree!node(past[m + 1], 0, j) = active_status_leaf(other, d)
        PROVE  /\ known(registry', other) /\ recs[j].credential_commitment = d
               /\ j # i /\ Untouched(j, m, registry) => recs[j].active = TRUE
               /\ j = i \/ ~Untouched(j, m, registry) => recs[j].active = FALSE
    <3>1. /\ known(registry, other) /\ Q[j].credential_commitment = d
          /\ Untouched(j, m, registry) => Q[j].active = TRUE
          /\ ~Untouched(j, m, registry) => Q[j].active = FALSE
      BY <1>4, <2>3 DEF Lives
    <3>2. j \in DOMAIN Q /\ Q[j].status_id = other
      BY <1>4, <3>1 DEF known
    <3>3. CASE j = i
      <4>1. other = id /\ d = x
        BY <1>3, <1>4, <3>1, <3>2, <3>3
      <4>2. known(registry', other)
        BY <1>6, <1>7, <1>9, <3>2, <3>3, <4>1 DEF known
      <4>3. QED
        BY <1>9, <3>3, <4>1, <4>2
    <3>4. CASE j # i
      <4>1. recs[j] = Q[j] /\ j \in DOMAIN recs
        BY <1>6, <3>2, <3>4
      <4>2. known(registry', other)
        BY <1>7, <3>2, <4>1 DEF known
      <4>3. QED
        BY <3>1, <3>4, <4>1, <4>2
    <3>5. QED
      BY <3>3, <3>4
  <2>4. CASE e = n + 1 /\ j # i
    <3>1. n \in 0..n /\ e + 1 = n + 2
      BY <1>1, <2>4
    <3>2. Tree!node(past[n + 1], 0, j) = active_status_leaf(other, d)
      BY <1>8, <1>11, <2>1, <2>4, <3>1
    <3>3. Untouched(j, e, registry') /\ Untouched(j, n, registry)
      BY <1>8, <2>4
    <3>4. QED
      BY <2>3, <2>4, <3>1, <3>2, <3>3
  <2>5. CASE e \in 0..n
    <3>1. Tree!node(past[e + 1], 0, j) = active_status_leaf(other, d)
      BY <1>7, <1>11, <2>5
    <3>2. Untouched(j, e, registry') <=> Untouched(j, e, registry) /\ i # j
      BY <1>8, <2>5
    <3>3. QED
      BY <2>3, <2>5, <3>1, <3>2
  <2>6. e \in 0..n \/ e = n + 1
    BY <1>1
  <2>7. QED
    BY <2>2, <2>4, <2>5, <2>6
<1>12. Lives(registry', past')
  <2>1. SUFFICES ASSUME NEW other \in StatusIds, NEW e \in 0..registry'.epoch, NEW d,
                        Tree!node(past'[e + 1], 0, IndexOf[other]) = active_status_leaf(other, d)
                 PROVE  /\ known(registry', other)
                        /\ registry'.records[IndexOf[other]].credential_commitment = d
                        /\ Untouched(IndexOf[other], e, registry') =>
                             registry'.records[IndexOf[other]].active = TRUE
                        /\ ~Untouched(IndexOf[other], e, registry') =>
                             registry'.records[IndexOf[other]].active = FALSE
    BY DEF Lives
  <2>2. e \in 0..(n + 1)
    BY <1>7
  <2>3. /\ known(registry', other) /\ recs[IndexOf[other]].credential_commitment = d
        /\ Untouched(IndexOf[other], e, registry') => recs[IndexOf[other]].active = TRUE
        /\ ~Untouched(IndexOf[other], e, registry') => recs[IndexOf[other]].active = FALSE
    BY <2>1, <2>2, <1>11, Zenon
  <2>4. QED
    BY <2>3, <1>7, Zenon
<1>13. QED
  BY <1>8, <1>10, <1>12

(***************************************************************************)
(* The whole feed since a witness, applied to it: the witness of the last  *)
(* epoch, or nothing from the first delta that writes its leaf.            *)
(***************************************************************************)
\* The trees and the deltas between them up to epoch n; the deltas since one of them; none
\* of them writes leaf i.
Whole(P, H, n) ==
  /\ \A e \in 0..n : Consistent(P[e + 1])
  /\ \A e \in 0..(n - 1) : IsDelta(H[e + 1], e, P[e + 1], P[e + 2])

Since(D, H, first, n) ==
  DOMAIN D = 1..(n - first) /\ \A k \in 1..(n - first) : D[k] = H[first + k]

Spared(i, H, first, n) == \A t \in (first + 1)..n : H[t].changed_index # i

LEMMA IssuedHasItsRoot ==
  ASSUME RegistryConstants, NEW N, Consistent(N), NEW id \in StatusIds, NEW e, NEW leaf,
         leaf = Tree!node(N, 0, IndexOf[id]), NEW w, w = StatusWitness(e, N, IndexOf[id], leaf)
  PROVE  root_from_witness(w) = w.root
<1>1. /\ REGISTRY_DEPTH \in Nat /\ IndexOf[id] \in Nat
      /\ Tree!shifted(IndexOf[id])[REGISTRY_DEPTH] = 0
  BY DEF RegistryConstants
<1>2. /\ w.root = Tree!root(N) /\ w.leaf_index = IndexOf[id] /\ w.active_leaf = leaf
      /\ w.siblings = Tree!siblings(N, IndexOf[id])
  BY WitnessFields
<1>3. REGISTRY_DEPTH \in 0..REGISTRY_DEPTH
  BY <1>1
<1>4. Tree!subtree_from_path(leaf, IndexOf[id], Tree!siblings(N, IndexOf[id]), REGISTRY_DEPTH) =
        Tree!node(N, REGISTRY_DEPTH, 0)
  BY <1>1, <1>3, PathLeadsUp
<1>5. QED
  BY <1>2, <1>4, Zenon DEF root_from_witness, Tree!root_from_path, Tree!root

LEMMA FeedRun ==
  ASSUME RegistryConstants, NoneIsNoWitness, NEW n \in Nat, NEW first \in 0..n, NEW P, NEW H,
         Whole(P, H, n), NEW id \in StatusIds, NEW leaf,
         Tree!node(P[first + 1], 0, IndexOf[id]) = leaf,
         NEW w, w = StatusWitness(first, P[first + 1], IndexOf[id], leaf),
         NEW D, Since(D, H, first, n),
         NEW run, IsRefreshRun(run, w, D, n - first), NEW last, last = run[n - first]
  PROVE  \/ /\ Spared(IndexOf[id], H, first, n)
            /\ last = StatusWitness(n, P[n + 1], IndexOf[id], leaf)
         \/ ~Spared(IndexOf[id], H, first, n) /\ last = None
<1> DEFINE i == IndexOf[id]
           Clear(e) == \A t \in (first + 1)..e : H[t].changed_index # i
<1>0. Clear(n) <=> Spared(i, H, first, n)
  BY DEF Spared
<1>1. PICK m : m = n - first /\ m \in Nat
  OBVIOUS
<1>2. DOMAIN D = 1..m /\ \A k \in 1..m : D[k] = H[first + k]
  BY <1>1 DEF Since
<1>3. IsRefreshRun(run, w, D, m)
  BY <1>1
<1> DEFINE Right(k) ==
      \A e : e = first + k =>
        \/ /\ Clear(e) /\ run[k] = StatusWitness(e, P[e + 1], i, leaf)
           /\ Tree!node(P[e + 1], 0, i) = leaf
        \/ ~Clear(e) /\ run[k] = None
<1>4. Right(0)
  <2>1. Clear(first)
    OBVIOUS
  <2>2. first \in 0..n /\ Consistent(P[first + 1])
    BY DEF Whole
  <2>3. root_from_witness(w) = w.root
    BY <2>2, IssuedHasItsRoot
  <2>4. run[0] = w
    BY <1>3, <2>3, Zenon DEF IsRefreshRun
  <2>5. first = first + 0
    OBVIOUS
  <2> HIDE DEF Clear
  <2>6. QED
    BY <2>1, <2>4, <2>5
<1>5. ASSUME NEW k \in 1..m, Right(k - 1) PROVE Right(k)
  <2>1. PICK e, f : e = first + k /\ f = first + (k - 1)
    OBVIOUS
  <2>2. /\ e \in 1..n /\ f \in 0..(n - 1) /\ f \in 0..n /\ f + 1 = e /\ f + 2 = e + 1
    BY <1>1, <2>1
  <2>3. PICK d, A, B : d = H[e] /\ A = P[f + 1] /\ B = P[e + 1]
    OBVIOUS
  <2>4. IsDelta(d, f, A, B) /\ Consistent(A)
    BY <2>2, <2>3 DEF Whole
  <2>5. run[k] = refresh_step(run[k - 1], d)
    <3>1. D[k] = d
      BY <1>2, <2>1, <2>3
    <3>2. QED
      BY <1>3, <3>1, Zenon DEF IsRefreshRun
  <2>6. Clear(e) <=> Clear(f) /\ d.changed_index # i
    <3>1. /\ \A t \in (first + 1)..f : t \in (first + 1)..e
          /\ e \in (first + 1)..e
          /\ \A t \in (first + 1)..e : t = e \/ t \in (first + 1)..f
      <4>1. e \in Int /\ f \in Int /\ first \in Int /\ e = f + 1 /\ first + 1 <= e
        BY <1>1, <2>1
      <4>2. QED
        BY <4>1
    <3>2. QED
      BY <2>3, <3>1
  <2>7. \/ Clear(f) /\ run[k - 1] = StatusWitness(f, A, i, leaf) /\ Tree!node(A, 0, i) = leaf
        \/ ~Clear(f) /\ run[k - 1] = None
    <3> HIDE DEF Clear
    <3>1. QED
      BY <1>5, <2>1, <2>3, Zenon
  <2> HIDE DEF Clear
  <2>8. CASE ~Clear(f) /\ run[k - 1] = None
    <3>1. run[k] = None /\ ~Clear(e)
      BY <2>5, <2>6, <2>8 DEF refresh_step
    <3>2. QED
      BY <2>1, <3>1
  <2>9. CASE Clear(f) /\ run[k - 1] = StatusWitness(f, A, i, leaf) /\ Tree!node(A, 0, i) = leaf
    <3>1. leaf = Tree!node(A, 0, i)
      BY <2>9
    <3>2. CASE d.changed_index = i
      <4>1. refresh_step(StatusWitness(f, A, i, leaf), d) = None
        BY <2>4, <3>1, <3>2, ApplyIs
      <4>2. run[k] = None /\ ~Clear(e)
        BY <2>5, <2>6, <2>9, <3>2, <4>1, Zenon
      <4>3. QED
        BY <2>1, <4>2
    <3>3. CASE d.changed_index # i
      <4>1. /\ refresh_step(StatusWitness(f, A, i, leaf), d) = StatusWitness(f + 1, B, i, leaf)
            /\ Tree!node(B, 0, i) = leaf
        <5>1. d.changed_index # IndexOf[id] =>
                /\ refresh_step(StatusWitness(f, A, IndexOf[id], leaf), d) =
                     StatusWitness(f + 1, B, IndexOf[id], leaf)
                /\ Tree!node(B, 0, IndexOf[id]) = leaf
          BY <2>4, <3>1, ApplyIs
        <5>2. QED
          BY <3>3, <5>1
      <4>2. run[k] = StatusWitness(e, P[e + 1], i, leaf) /\ Clear(e)
              /\ Tree!node(P[e + 1], 0, i) = leaf
        BY <2>2, <2>3, <2>5, <2>6, <2>9, <3>3, <4>1
      <4>3. QED
        BY <2>1, <4>2
    <3>4. QED
      BY <3>2, <3>3
  <2>10. QED
    BY <2>7, <2>8, <2>9
<1> HIDE DEF Right
<1>6. Right(m)
  <2> DEFINE bad == {k \in 0..m : ~Right(k)}
  <2>0. m \in 0..m
    BY <1>1
  <2>1. SUFFICES ASSUME bad # {} PROVE FALSE
    BY <2>0, Zenon
  <2>2. bad \subseteq Nat
    OBVIOUS
  <2>3. PICK k \in bad : \A y \in bad : k <= y
    BY <2>1, <2>2, LeastNat
  <2>4. k \in 1..m /\ k - 1 \in 0..m /\ ~(k <= k - 1)
    BY <1>1, <1>4, <2>3
  <2>5. Right(k - 1)
    BY <2>3, <2>4
  <2>6. QED
    BY <1>5, <2>3, <2>4, <2>5
<1>7. n = first + m
  BY <1>1
<1>8. last = run[m]
  BY <1>1
<1> HIDE DEF Clear
<1>9. \/ Clear(n) /\ run[m] = StatusWitness(n, P[n + 1], i, leaf)
      \/ ~Clear(n) /\ run[m] = None
  BY <1>6, <1>7 DEF Right
<1>10. QED
  BY <1>0, <1>8, <1>9, Zenon

\* The theorem's state predicate follows from the invariant.
LEMMA FeedIsEnough ==
  ASSUME RegistryConstants, NoneIsNoWitness, Trees, Held, Feed(registry, past),
         Lives(registry, past), NEW id \in StatusIds, wallet[id] # None
  PROVE  refresh_status_witness(wallet[id], deltas_since(registry, wallet[id].epoch),
                                checkpoint(registry.epoch, registry.nodes))
           = witness(registry, id, wallet[id].active_leaf[3])
<1>1. PICK w, first, leaf, c, n, N, H, i :
        /\ w = wallet[id] /\ first = w.epoch /\ leaf = w.active_leaf /\ c = leaf[3]
        /\ n = registry.epoch /\ N = registry.nodes /\ H = registry.history /\ i = IndexOf[id]
  OBVIOUS
<1>2. /\ n \in Nat /\ IsList(H, n) /\ past[n + 1] = N
      /\ Whole(past, H, n)
  BY <1>1, Zenon DEF Trees, Feed, Whole
<1>3. /\ first \in 0..n /\ w = StatusWitness(first, past[first + 1], i, leaf)
      /\ leaf = active_status_leaf(id, c) /\ Tree!node(past[first + 1], 0, i) = leaf
  <2>1. Genuine(id, w, past, n)
    BY <1>1, Zenon DEF Held
  <2>2. QED
    BY <1>1, <2>1, Zenon DEF Genuine
<1>4. PICK D : D = deltas_since(registry, first)
  OBVIOUS
<1>5. Since(D, H, first, n)
  <2>1. D = SubSeq(H, first + 1, Len(H))
    BY <1>1, <1>4, Zenon DEF deltas_since
  <2>2. QED
    BY <1>2, <1>3, <2>1, SinceIs DEF Since
<1>6. PICK run, last, P : /\ IsRefreshRun(run, w, D, n - first) /\ last = run[n - first]
                          /\ P = past
  <2>1. n - first \in Nat
    BY <1>2, <1>3
  <2>2. PICK run : IsRefreshRun(run, w, D, n - first)
    BY <1>5, <2>1, RefreshRun DEF Since
  <2>3. QED
    BY <2>2
<1>7. /\ Untouched(i, first, registry) => last = StatusWitness(n, N, i, leaf)
      /\ ~Untouched(i, first, registry) => last = None
  <2>1. Untouched(i, first, registry) <=> Spared(IndexOf[id], H, first, n)
    BY <1>1, Zenon DEF Untouched, Spared
  <2>2. /\ Tree!node(P[first + 1], 0, IndexOf[id]) = leaf
        /\ w = StatusWitness(first, P[first + 1], IndexOf[id], leaf)
        /\ Whole(P, H, n) /\ n \in Nat /\ first \in 0..n
    BY <1>1, <1>2, <1>3, <1>6, Zenon
  <2>3. \/ /\ Spared(IndexOf[id], H, first, n)
           /\ last = StatusWitness(n, P[n + 1], IndexOf[id], leaf)
        \/ ~Spared(IndexOf[id], H, first, n) /\ last = None
    BY <1>5, <1>6, <2>2, FeedRun
  <2>4. QED
    BY <1>1, <1>2, <1>6, <2>1, <2>3, Zenon
<1>8. /\ known(registry, id) /\ registry.records[i].credential_commitment = c
      /\ Untouched(i, first, registry) => registry.records[i].active = TRUE
      /\ ~Untouched(i, first, registry) => registry.records[i].active = FALSE
  BY <1>1, <1>3, Zenon DEF Lives
<1>9. refresh_status_witness(w, D, checkpoint(n, N)) =
        IF last # None /\ [epoch |-> last.epoch, root |-> last.root] = checkpoint(n, N)
          THEN last ELSE None
  BY <1>6, Zenon DEF refresh_status_witness, IsRefreshRun
<1>10. CASE Untouched(i, first, registry)
  <2>1. last = StatusWitness(n, N, i, leaf)
    BY <1>7, <1>10
  <2>2. last # None
    BY <2>1, Zenon DEF NoneIsNoWitness
  <2>3. last.epoch = n /\ last.root = Tree!root(N)
    BY <2>1, WitnessFields
  <2>4. [epoch |-> last.epoch, root |-> last.root] = checkpoint(n, N)
    BY <2>3, Zenon DEF checkpoint
  <2>5. refresh_status_witness(w, D, checkpoint(n, N)) = last
    BY <1>9, <2>2, <2>4, Zenon
  <2>6. witness(registry, id, c) = StatusWitness(n, N, i, active_status_leaf(id, c))
    BY <1>1, <1>8, <1>10, Zenon DEF witness
  <2>7. QED
    BY <1>1, <1>3, <1>4, <2>1, <2>5, <2>6, Zenon
<1>11. CASE ~Untouched(i, first, registry)
  <2>1. refresh_status_witness(w, D, checkpoint(n, N)) = None
    BY <1>7, <1>9, <1>11, Zenon
  <2>2. witness(registry, id, c) = None
    BY <1>1, <1>8, <1>11, Zenon DEF witness
  <2>3. QED
    BY <1>1, <1>4, <2>1, <2>2, Zenon
<1>12. QED
  BY <1>10, <1>11

(***************************************************************************)
(* The deltas alone bring a holder's witness up to date, however long it   *)
(* was offline: what refresh_status_witness returns is what the registry's *)
(* witness would, the current witness or, of a credential revoked          *)
(* meanwhile, none.                                                        *)
(***************************************************************************)
THEOREM TheFeedSuffices ==
  ASSUME RegistryConstants, NoneIsNoWitness
  PROVE  RegistrySpec => []FeedSuffices
<1> DEFINE Inv == /\ Trees /\ Held
                  /\ Feed(registry, past) /\ Recorded(registry) /\ Lives(registry, past)
<1>1. RegistryInit => Inv
  <2>1. RegistryInit => wallet = [id \in StatusIds |-> None]
    BY DEF RegistryInit
  <2>2. RegistryInit => Trees /\ Held
    BY <2>1, InitTrees DEF Held, RegistryConstants
  <2>3. RegistryInit => Feed(registry, past) /\ Recorded(registry) /\ Lives(registry, past)
    BY InitLives DEF RegistryConstants
  <2>4. QED
    BY <2>2, <2>3
<1>2. Inv /\ [RegistryNext]_registry_vars => Inv'
  <2>1. SUFFICES ASSUME Inv, [RegistryNext]_registry_vars PROVE Inv'
    OBVIOUS
  <2>2. ASSUME NEW id \in StatusIds, NEW c \in Commitments, Activate(id, c) PROVE Inv'
    <3>1. Trees' /\ Held'
      BY <2>1, <2>2, ActivateKeeps
    <3>2. Feed(registry', past') /\ Recorded(registry') /\ Lives(registry', past')
      BY <2>1, <2>2, ActivateLives
    <3>3. QED
      BY <3>1, <3>2
  <2>3. ASSUME NEW id \in StatusIds, Revoke(id) PROVE Inv'
    <3>1. Trees' /\ Held'
      BY <2>1, <2>3, RevokeKeeps
    <3>2. Feed(registry', past') /\ Recorded(registry') /\ Lives(registry', past')
      BY <2>1, <2>3, RevokeLives
    <3>3. QED
      BY <3>1, <3>2
  <2>4. ASSUME NEW id \in StatusIds, Refresh(id) PROVE Inv'
    <3>1. Trees' /\ Held'
      BY <2>1, <2>4, RefreshKeepsHeld
    <3>2. registry' = registry /\ past' = past
      BY <2>4 DEF Refresh
    <3>3. QED
      BY <2>1, <3>1, <3>2
  <2>5. CASE UNCHANGED registry_vars
    <3>1. Trees' /\ Held'
      BY <2>1, <2>5 DEF Trees, Held, registry_vars
    <3>2. registry' = registry /\ past' = past
      BY <2>5 DEF registry_vars
    <3>3. QED
      BY <2>1, <3>1, <3>2
  <2>6. QED
    BY <2>1, <2>2, <2>3, <2>4, <2>5 DEF RegistryNext
<1>3. Inv => FeedSuffices
  BY FeedIsEnough DEF FeedSuffices
<1>4. QED
  BY <1>1, <1>2, <1>3, PTL DEF RegistrySpec

=============================================================================
