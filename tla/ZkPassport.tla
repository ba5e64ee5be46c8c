----------------------------- MODULE ZkPassport -----------------------------
(***************************************************************************)
(* The passport gate (crates/runtime/src/lifecycle.rs, zkpoh.rs): which    *)
(* Groth16 disclosure proofs make their sender an enhanced human, and the  *)
(* trust anchors governance pins and retires.  The chain compares the raw  *)
(* 32-byte public signals, the verifier sees them modulo the order R of    *)
(* the scalar field.  Whoever sees a proof can send it again, with the     *)
(* signals and the context buffer it likes.                                *)
(*                                                                         *)
(* What the rest of the registry does to a human (Humanity) is an action   *)
(* of the environment here.                                                *)
(***************************************************************************)
EXTENDS Integers, FiniteSets

CONSTANTS
  Addr, Governance,
  Proofs,          \* genuine proofs: passport, holder, root, ofac, date, scope, attestation
  Nullifier(_, _), \* of a passport under a scope: a scalar below R
  Roots, Keys,     \* Self's tree roots; CSCA keys
  Kinds,           \* the OFAC lists
  R,               \* order of the scalar field
  Widths,          \* multiples of R that still fit in 32 bytes
  SCOPE,           \* seeded at genesis
  SELF_ROOT_WINDOW_BLOCKS,
  GenesisRoots, GenesisOfac,
  Starts,          \* civil days the chain may start on
  MaxHeight, MaxPins

(***************************************************************************)
(* The calendar blocks are stamped by, independent of the above.           *)
(***************************************************************************)
leap(y) == y % 4 = 0 /\ (y % 100 # 0 \/ y % 400 = 0)

month_length(y, m) ==
  IF m = 2 THEN IF leap(y) THEN 29 ELSE 28
  ELSE IF m \in {4, 6, 9, 11} THEN 30 ELSE 31

days_before_month(y, m) ==
  <<0, 31, 59, 90, 120, 151, 181, 212, 243, 273, 304, 334>>[m]
    + (IF m > 2 /\ leap(y) THEN 1 ELSE 0)

\* Leap years from 1970 up to y - 1.
leap_years(y) == (y - 1) \div 4 - (y - 1) \div 100 + (y - 1) \div 400 - 477

day_number(d) ==
  LET y == 2000 + d.year
  IN 365 * (y - 1970) + leap_years(y) + days_before_month(y, d.month) + d.day - 1

next_day(d) ==
  IF d.day < month_length(2000 + d.year, d.month) THEN [d EXCEPT !.day = @ + 1]
  ELSE IF d.month < 12 THEN [year |-> d.year, month |-> d.month + 1, day |-> 1]
  ELSE [year |-> d.year + 1, month |-> 1, day |-> 1]

\* A day of the calendar.
IsDay(d) ==
  /\ d \in [year : Nat, month : 1..12, day : 1..31]
  /\ d.day <= month_length(2000 + d.year, d.month)

\* What the code relies on: the circuit's nullifier is a scalar, and the encodings that
\* the field does not tell apart differ by multiples of its order.
GateConstants ==
  /\ R \in Nat \ {0}
  /\ Widths \subseteq Nat
  /\ \A p \in Proofs : /\ Nullifier(p.passport, p.scope) \in 0..(R - 1)
                       /\ p.root \in Roots /\ p.ofac \in [Kinds -> Roots]
  /\ "identity" \notin Kinds
  /\ GenesisRoots \subseteq Roots /\ GenesisOfac \subseteq Kinds \X Roots

\* The chain starts on some day of the calendar, and a proof's date is what its six
\* digits say, a day or not.
CalendarConstants ==
  /\ \A d \in Starts : IsDay(d)
  /\ \A p \in Proofs : p.date \in [year : 0..99, month : 0..99, day : 0..99]

VARIABLES
  identity,    \* self_identity_roots: root -> block it was pinned at
  ofac,        \* self_ofac_roots: <<kind, root>> -> block
  csca,        \* key -> "Active" or "Revoked"
  nullifiers,  \* spent, as raw scalars
  status, assurance,   \* of each human
  height, today, tod,  \* block, civil day, quarter of the day
  accepted,    \* (history) <<address, proof>> of every accepted submission
  standing,    \* (history) what governance last said of a root in a role: block, or -1
  pins         \* governance operations so far (a bound)

anchors == <<identity, ofac, csca, standing>>
people  == <<nullifiers, status, assurance, accepted>>
clock   == <<height, today, tod>>
vars    == <<anchors, people, clock, pins>>

(***************************************************************************)
(* The civil date in signals 10 to 15, in quarters of a day since 1970.    *)
(***************************************************************************)
DAY == 4
SELF_DATE_WINDOW == 2 * DAY

\* Mutant: a leap day counts from the January before it.
days_from_civil_LeapEarly(year, mm, dd) ==
  LET y   == IF mm <= 2 THEN year - 1 ELSE year
      era == y \div 400
      yoe == y - era * 400
      doy == (153 * (IF mm > 2 THEN mm - 3 ELSE mm + 9) + 2) \div 5 + dd - 1
      doe == yoe * 365 + (yoe + 1) \div 4 - yoe \div 100 + doy
  IN era * 146097 + doe - 719468

days_from_civil(year, mm, dd) ==
  LET y   == IF mm <= 2 THEN year - 1 ELSE year
      era == y \div 400
      yoe == y - era * 400
      doy == (153 * (IF mm > 2 THEN mm - 3 ELSE mm + 9) + 2) \div 5 + dd - 1
      doe == yoe * 365 + yoe \div 4 - yoe \div 100 + doy
  IN era * 146097 + doe - 719468

\* -1: not six digits of a date.  A day of a month is 1 to 31 whatever the month.
current_date_to_epoch(d) ==
  IF d.month \in 1..12 /\ d.day \in 1..31
    THEN DAY * days_from_civil(2000 + d.year, d.month, d.day) ELSE -1

now == DAY * day_number(today) + tod

fresh(d) ==
  LET e == current_date_to_epoch(d)
  IN e >= 0 /\ now - SELF_DATE_WINDOW <= e /\ e <= now + SELF_DATE_WINDOW

(***************************************************************************)
(* Signals, the verifier, the checks of submit_zk_passport_proof.          *)
(***************************************************************************)
reduce(x) == x % R

\* Mutant: any 32 bytes are a nullifier.
is_canonical_scalar_Any(x) == TRUE

is_canonical_scalar(x) == x < R

\* RIPEMD160(SHA256(userContextData)), a collision-free function of the buffer.
user_identifier_hash(ucd) == <<"hash160", ucd>>

\* Mutant: the address in the buffer is trusted as it stands.
bound_Unhashed(subject, ucd, user_identifier) == ucd.userId = subject

bound(subject, ucd, user_identifier) ==
  /\ ucd.userId = subject
  /\ user_identifier_hash(ucd) = user_identifier

within(pinned_at) == height - pinned_at <= SELF_ROOT_WINDOW_BLOCKS

self_identity_root_accepted(root) ==
  root \in DOMAIN identity /\ within(identity[root])

self_ofac_root_accepted(kind, root) ==
  <<kind, root>> \in DOMAIN ofac /\ within(ofac[<<kind, root>>])

\* verify_passport: the proof is genuine for the signals as the field sees them.  Every
\* signal but the nullifier is small here, hence its own reduction.
verify_passport(p, signals) ==
  /\ reduce(signals.nullifier) = Nullifier(p.passport, p.scope)
  /\ signals.user_identifier = user_identifier_hash([userId |-> p.holder])
  /\ signals.root = p.root /\ signals.ofac = p.ofac
  /\ signals.date = p.date /\ signals.scope = p.scope /\ signals.attestation = p.attestation

submit_zk_passport_proof(subject, p, signals, ucd) ==
  /\ signals.attestation = 1
  /\ signals.scope = SCOPE
  /\ bound(subject, ucd, signals.user_identifier)
  /\ fresh(signals.date)
  /\ self_identity_root_accepted(signals.root)
  /\ \A k \in Kinds : self_ofac_root_accepted(k, signals.ofac[k])
  /\ status[subject] # "Revoked" /\ assurance[subject] = "Std"
  /\ is_canonical_scalar(signals.nullifier)
  /\ signals.nullifier \notin nullifiers
  /\ verify_passport(p, signals)
  /\ nullifiers' = nullifiers \cup {signals.nullifier}
  /\ assurance' = [assurance EXCEPT ![subject] =
                     IF status[subject] = "Verified" THEN "Dual" ELSE "Enh"]
  /\ status' = [status EXCEPT ![subject] = "Verified"]
  /\ accepted' = accepted \cup {<<subject, p>>}
  /\ UNCHANGED <<anchors, clock, pins>>

\* What a sender can put around a proof: a nullifier the field does not tell from the
\* proof's, and the holder's buffer or one with another address.
encoded(p, w, u) ==
  [nullifier |-> Nullifier(p.passport, p.scope) + w * R,
   user_identifier |-> user_identifier_hash([userId |-> u]),
   root |-> p.root, ofac |-> p.ofac, date |-> p.date, scope |-> p.scope,
   attestation |-> p.attestation]

Signals(p) == {encoded(p, w, u) : w \in Widths, u \in Addr}

(***************************************************************************)
(* Governance.                                                             *)
(***************************************************************************)
is_csca_governance(caller) == caller = Governance

set(f, k, v) == [x \in DOMAIN f \cup {k} |-> IF x = k THEN v ELSE f[x]]

Governs(caller) ==
  /\ pins < MaxPins /\ pins' = pins + 1
  /\ is_csca_governance(caller)
  /\ UNCHANGED <<people, clock>>

register_csca(caller, key) ==
  /\ Governs(caller)
  /\ csca' = set(csca, key, "Active")
  /\ UNCHANGED <<identity, ofac, standing>>

revoke_csca(caller, key) ==
  /\ Governs(caller)
  /\ key \in DOMAIN csca
  /\ csca' = set(csca, key, "Revoked")
  /\ UNCHANGED <<identity, ofac, standing>>

pin_self_identity_root(caller, root) ==
  /\ Governs(caller)
  /\ identity' = set(identity, root, height)
  /\ standing' = [standing EXCEPT ![<<"identity", root>>] = height]
  /\ UNCHANGED <<ofac, csca>>

pin_self_ofac_root(caller, kind, root) ==
  /\ Governs(caller)
  /\ ofac' = set(ofac, <<kind, root>>, height)
  /\ standing' = [standing EXCEPT ![<<kind, root>>] = height]
  /\ UNCHANGED <<identity, csca>>

\* Mutant: the root leaves the identity set only.
without_IdentityOnly(root) ==
  /\ identity' = [r \in DOMAIN identity \ {root} |-> identity[r]]
  /\ UNCHANGED ofac

without(root) ==
  /\ identity' = [r \in DOMAIN identity \ {root} |-> identity[r]]
  /\ ofac' = [e \in {o \in DOMAIN ofac : o[2] # root} |-> ofac[e]]

retire_self_root(caller, root) ==
  /\ Governs(caller)
  /\ without(root)
  /\ standing' = [s \in DOMAIN standing |-> IF s[2] = root THEN -1 ELSE standing[s]]
  /\ UNCHANGED csca

-----------------------------------------------------------------------------
\* What registering, the sweep and the jury do to a human; registering (again) starts a
\* new record, whose assurance is the lowest.
Lifecycle(a, s) ==
  /\ <<status[a], s>> \in
       {<<"Unverified", "Pending">>, <<"Revoked", "Pending">>, <<"Pending", "Verified">>,
        <<"Verified", "Challenged">>, <<"Challenged", "Verified">>,
        <<"Challenged", "Revoked">>, <<"Pending", "Revoked">>}
  /\ status' = [status EXCEPT ![a] = s]
  /\ assurance' = [assurance EXCEPT ![a] = IF s = "Pending" THEN "Std" ELSE @]
  /\ UNCHANGED <<anchors, nullifiers, accepted, clock, pins>>

\* The next block, on the same or the next day.
Tick ==
  /\ height < MaxHeight
  /\ height' = height + 1
  /\ tod' = (tod + 3) % DAY
  /\ today' = IF tod + 3 >= DAY THEN next_day(today) ELSE today
  /\ UNCHANGED <<anchors, people, pins>>

Init ==
  /\ identity = [r \in GenesisRoots |-> 0]
  /\ ofac = [o \in GenesisOfac |-> 0]
  /\ csca = [k \in {} |-> "Active"]
  /\ nullifiers = {} /\ accepted = {}
  /\ status = [a \in Addr |-> "Unverified"]
  /\ assurance = [a \in Addr |-> "Std"]
  /\ height = 0 /\ today \in Starts /\ tod = 0
  /\ standing = [s \in ({"identity"} \cup Kinds) \X Roots |->
                   IF s \in GenesisOfac \/ (s[1] = "identity" /\ s[2] \in GenesisRoots)
                     THEN 0 ELSE -1]
  /\ pins = 0

Next ==
  \/ \E p \in Proofs : \E signals \in Signals(p), subject, u \in Addr :
       submit_zk_passport_proof(subject, p, signals, [userId |-> u])
  \/ \E caller \in Addr, key \in Keys : register_csca(caller, key)
  \/ \E caller \in Addr, key \in Keys : revoke_csca(caller, key)
  \/ \E caller \in Addr, root \in Roots : pin_self_identity_root(caller, root)
  \/ \E caller \in Addr, kind \in Kinds, root \in Roots : pin_self_ofac_root(caller, kind, root)
  \/ \E caller \in Addr, root \in Roots : retire_self_root(caller, root)
  \/ \E a \in Addr, s \in {"Pending", "Verified", "Challenged", "Revoked"} :
       Lifecycle(a, s)
  \/ Tick

Spec == Init /\ [][Next]_vars

-----------------------------------------------------------------------------
\* One passport, one human: of all the submissions ever accepted, no two are of the same
\* passport, however the nullifier is encoded and whatever became of the first human.
OnePassportOneAddress ==
  \A x, y \in accepted : x[2].passport = y[2].passport => x = y

\* A copied or relayed proof is worth nothing: whoever was accepted is the one the holder
\* put into the context buffer when the proof was made.
BoundToProver == \A x \in accepted : x[1] = x[2].holder

\* Forward invalidation: a submission is accepted only while each of its roots is, in the
\* very role it is used in, pinned by governance and not retired since, and the latest
\* pin is within the window of blocks.
RetiredAdmitsNobody ==
  [][\A x \in accepted' \ accepted :
       \A role \in {<<"identity", x[2].root>>} \cup {<<k, x[2].ofac[k]>> : k \in Kinds} :
         standing[role] >= 0 /\ height - standing[role] <= SELF_ROOT_WINDOW_BLOCKS]_vars

\* The date of a proof is taken as fresh exactly when its midnight is within two days of
\* the block's time by the calendar, across ends of months and years and leap days: the
\* closed-form day count agrees with counting days.
FreshnessIsCivil ==
  \A date \in {p.date : p \in Proofs} :
    IsDay(date) =>
      (fresh(date) <=> LET e == DAY * day_number(date)
                       IN e - now \in (-SELF_DATE_WINDOW)..SELF_DATE_WINDOW)

\* revoke_csca: "proofs chaining to it stop verifying (forward-invalidation)".
RevokedCscaAdmitsNobody ==
  [][\A x \in accepted' \ accepted :
       x[2].csca \in DOMAIN csca => csca[x[2].csca] = "Active"]_vars

=============================================================================
