--------------------------- MODULE PromptContracts ---------------------------
(***************************************************************************)
(* Prompt contracts: crates/runtime/src/contracts.rs, driven by the        *)
(* contract arms of crates/exec/src/apply.rs, composed with the ledger     *)
(* whose accounts and streams hold the escrow.                             *)
(*                                                                         *)
(* What a juror's model makes of a text and a trigger is any reply of a    *)
(* small set, which the oracle crate turns into an effect (module Oracle). *)
(* A text is kept as whether it exceeds its cap; the quorum key of an      *)
(* effect is its list of operations (effect_hash is injective here).  The  *)
(* nonce is as in Ledger.                                                  *)
(***************************************************************************)
EXTENDS Ledger, SequencesExt

CONSTANTS
  Users,                \* accounts that sign transactions
  Parties,              \* accounts a contract may declare as parties
  EscrowOf,             \* contract_address: contract ids to their accounts
  Jurors,               \* the active jurors
  JURY_SIZE, QUORUM,    \* as in the humanity lifecycle
  MAX_CONTRACT_PARTIES, \* cap on declared parties
  Replies,              \* what the interpreters' models may answer
  MaxCases              \* bound: invocations

ContractIds == DOMAIN EscrowOf

Interpreter == INSTANCE Oracle

Effects == {Interpreter!interpret(r) : r \in Replies}

\* The fields an operation carries.
EffectOp(op) ==
  /\ op.op \in {"SetVar", "Transfer", "Refund", "OpenStream", "StopStream", "Abort"}
  /\ op.op \in {"Transfer", "Refund"} => op.to \in Addr /\ op.amount \in Nat
  /\ op.op = "OpenStream" => op.to \in Addr /\ {op.rate, op.deposit} \subseteq Nat

ASSUME ContractConstants ==
  /\ Users \subseteq Signers /\ Parties \subseteq Signers
  /\ EscrowOf \in [ContractIds -> Signers \ Users]
  /\ \A c, d \in ContractIds : EscrowOf[c] = EscrowOf[d] => c = d
  /\ ContractIds = 0..(Cardinality(ContractIds) - 1)
  /\ IsFiniteSet(Jurors)
  /\ {JURY_SIZE, QUORUM} \subseteq Nat \ {0}
  /\ {MAX_CONTRACT_PARTIES, MaxCases} \subseteq Nat

VARIABLES
  contracts,  \* the deployed contracts, by id
  cases,      \* the exec cases, in the order of their ids
  panicked    \* an expect() failed inside block execution

cvars == <<contracts, cases, panicked>>
allvars == <<mem, now, verifiedSecs, contracts, cases, panicked>>

(***************************************************************************)
(* The tally of an exec case.                                              *)
(***************************************************************************)
Supporters(subs, e) == {j \in DOMAIN subs : subs[j] = e}

BestCount(subs) ==
  IF DOMAIN subs = {} THEN 0
  ELSE Cardinality(Supporters(subs,
         CHOOSE e \in {subs[j] : j \in DOMAIN subs} :
           \A j \in DOMAIN subs :
             Cardinality(Supporters(subs, subs[j])) <= Cardinality(Supporters(subs, e))))

\* Mutant: one answer too few suffices.
at_quorum_Short(n) == n + 1 >= QUORUM

at_quorum(n) == n >= QUORUM

tally_effects(subs, jury_size) ==
  LET won == {subs[j] : j \in {k \in DOMAIN subs :
                at_quorum(Cardinality(Supporters(subs, subs[k])))}}
      unused == Monus(jury_size, Cardinality(DOMAIN subs))
  IN IF won # {} THEN [is |-> "Committed", effect |-> CHOOSE e \in won : TRUE]
     ELSE IF BestCount(subs) + unused < QUORUM THEN [is |-> "NoQuorum"]
     ELSE [is |-> "Pending"]

(***************************************************************************)
(* Applying an effect: phase 1 validates the whole of it, phase 2 applies  *)
(* it operation by operation with expect().                                *)
(***************************************************************************)
outgoing(m, a) == {id \in DOMAIN m.streams : m.streams[id].from = a}

draw(op) == CASE op.op \in {"Transfer", "Refund"} -> op.amount
              [] op.op = "OpenStream"             -> op.deposit
              [] OTHER                            -> 0

stoppable(m, c, id) == id \in outgoing(m, EscrowOf[c])

op_valid(m, c, contract, op) ==
  CASE op.op = "Refund"     -> op.to \in contract.parties
    [] op.op = "OpenStream" -> op.rate > 0 /\ op.deposit > 0 /\ op.rate <= MAX_RATE
    [] op.op = "StopStream" -> stoppable(m, c, op.id)
    [] op.op = "Abort"      -> FALSE
    [] OTHER                -> TRUE

\* Mutant: each draw is compared with the escrow on its own.
effect_valid_EachDraw(m, c, contract, effect) ==
  \A i \in DOMAIN effect : /\ op_valid(m, c, contract, effect[i])
                           /\ draw(effect[i]) <= contract.escrow

effect_valid(m, c, contract, effect) ==
  /\ \A i \in DOMAIN effect : op_valid(m, c, contract, effect[i])
  /\ Total([i \in DOMAIN effect |-> draw(effect[i])]) <= contract.escrow

\* One operation of phase 2 on st = [m, contract, ok]; r is what the ledger
\* returns, and an error of it is a panic.
took(st, r, escrow) ==
  [m |-> r.m, ok |-> r.ok,
   contract |-> IF r.ok THEN [st.contract EXCEPT !.escrow = escrow]
                        ELSE st.contract]

\* Mutant: a stop folds the whole deposit back into the escrow field.
refund_of_Deposit(s) == s.deposit

refund_of(s) == s.deposit - s.drawn

apply_op(st, op, self, t) ==
  IF ~st.ok THEN st
  ELSE CASE op.op = "SetVar" ->
              [st EXCEPT !.contract.vars = @ \cup {op.key}]
         [] op.op \in {"Transfer", "Refund"} ->
              took(st, apply_transfer(st.m, self, op.to, op.amount, TRUE, t),
                   Monus(st.contract.escrow, op.amount))
         [] op.op = "OpenStream" ->
              took(st, open_stream(st.m, self, op.to, op.rate, op.deposit, t),
                   Monus(st.contract.escrow, op.deposit))
         [] op.op = "StopStream" ->
              LET r == stop_stream(st.m, op.id, self, t)
              IN took(st, r, st.contract.escrow + refund_of(r.m.streams[op.id]))

\* Phase 2, on the contract as read in phase 1; it is written back at the end,
\* so a panic half way leaves the ledger changed and the contract not.
apply_effect(m, c, effect, t) ==
  FoldLeft(LAMBDA st, op : apply_op(st, op, EscrowOf[c], t),
           [m |-> settle(m, EscrowOf[c], t), contract |-> contracts[c], ok |-> TRUE],
           effect)

is_abort(effect) == Len(effect) = 1 /\ effect[1].op = "Abort"

Unresolved(m, status) ==
  [m |-> m, contracts |-> contracts, status |-> status, panicked |-> FALSE]

\* Mutant: the tally is taken against the nominal jury size.
seats_Nominal(jury) == JURY_SIZE

seats(jury) == Cardinality(jury)

\* Mutant: the effect is applied first and refused afterwards.
resolve_case_LateCheck(m, c, subs, jury, t) ==
  LET tally == tally_effects(subs, seats(jury))
      after == apply_effect(m, c, tally.effect, t)
  IN CASE tally.is # "Committed" -> Unresolved(m, "Aborted")
       [] OTHER -> IF is_abort(tally.effect) THEN Unresolved(m, "Aborted")
                   ELSE IF ~after.ok THEN Unresolved(m, "Aborted")
                   ELSE [m |-> after.m, panicked |-> FALSE,
                         contracts |-> [contracts EXCEPT ![c] = after.contract],
                         status |-> IF effect_valid(m, c, contracts[c], tally.effect)
                                      THEN "Committed" ELSE "Aborted"]

\* What a case's submissions lead to.
resolve_case(m, c, subs, jury, t) ==
  LET tally == tally_effects(subs, seats(jury))
      after == apply_effect(m, c, tally.effect, t)
  IN CASE tally.is = "Pending"  -> Unresolved(m, "Open")
       [] tally.is = "NoQuorum" -> Unresolved(m, "Aborted")
       [] tally.is = "Committed" ->
            IF \/ is_abort(tally.effect)
               \/ ~effect_valid(m, c, contracts[c], tally.effect)
              THEN Unresolved(m, "Aborted")
            ELSE [m |-> after.m, status |-> "Committed",
                  contracts |-> IF after.ok
                                  THEN [contracts EXCEPT ![c] = after.contract]
                                  ELSE contracts,
                  panicked |-> ~after.ok]

(***************************************************************************)
(* The transactions: fee, nonce, operation, as in Ledger.                  *)
(***************************************************************************)
CInit == Init /\ contracts = <<>> /\ cases = <<>> /\ panicked = FALSE

Ledgered(m) == mem' = m /\ UNCHANGED <<now, verifiedSecs>>

\* The sender cannot pay the fee, its nonce is wrong, or the operation failed.
Fails(from, nonceOk, reason) ==
  LET c == charge_fee(mem, from, FeeOf["hub"], now)
      n == consume_nonce(c.m, from, nonceOk, now)
  IN /\ c.ok /\ nonceOk => reason
     /\ Ledgered(IF c.ok THEN after_op(Err(n.m), from, now) ELSE c.m)
     /\ UNCHANGED cvars

\* The ledger a hub operation starts from, once fee and nonce are taken.
Paid(from, nonceOk) ==
  consume_nonce(charge_fee(mem, from, FeeOf["hub"], now).m, from, nonceOk, now)
Pays(from, nonceOk) ==
  charge_fee(mem, from, FeeOf["hub"], now).ok /\ Paid(from, nonceOk).ok

deploy_contract(from, parties, text_ok, nonceOk) ==
  LET id == Cardinality(DOMAIN contracts)
      accepted == /\ parties # {} /\ text_ok
                  /\ Cardinality(parties) <= MAX_CONTRACT_PARTIES
  IN /\ id \in ContractIds
     /\ \/ Fails(from, nonceOk, ~accepted)
        \/ /\ accepted /\ Pays(from, nonceOk)
           /\ Ledgered(Paid(from, nonceOk).m)
           /\ contracts' = [c \in 0..id |->
                IF c = id THEN [escrow |-> 0, parties |-> parties, vars |-> {},
                                status |-> "Active"]
                ELSE contracts[c]]
           /\ UNCHANGED <<cases, panicked>>

Known(c) == c \in DOMAIN contracts /\ contracts[c].status = "Active"

\* The nonce is checked by the transfer itself.
fund_contract(from, c, amount, nonceOk) ==
  LET f == charge_fee(mem, from, FeeOf["hub"], now)
      r == apply_transfer(f.m, from, EscrowOf[c], amount, nonceOk, now)
      ok == f.ok /\ Known(c) /\ r.ok
  IN /\ Ledgered(IF ~f.ok THEN f.m
                 ELSE after_op(IF Known(c) THEN r ELSE Err(f.m), from, now))
     /\ contracts' = IF ok THEN [contracts EXCEPT ![c].escrow = @ + amount]
                     ELSE contracts
     /\ UNCHANGED <<cases, panicked>>

select_jury == {j \in SUBSET Jurors :
                  Cardinality(j) = Smaller(JURY_SIZE, Cardinality(Jurors))}

\* What the jury's models answer: one reply, from which some of them may depart,
\* each with an effect of its own.
Dissent(j) == [provider |-> "Ollama", status |-> "success", body |->
  Interpreter!StructuredEffect(<<Interpreter!StructuredOp([op |-> "SetVar", key |-> j], {})>>)]
RepliesOf(jury) ==
  {[j \in jury |-> IF j \in odd THEN Dissent(j) ELSE r] : r \in Replies, odd \in SUBSET jury}

\* Every effect is a list of operations (Vec<EffectOp>).
ASSUME EffectsTyped ==
  \A r \in Replies \cup {Dissent(j) : j \in Jurors} :
    LET effect == Interpreter!interpret(r)
    IN /\ effect \in Seq(ToSet(effect))
       /\ \A i \in DOMAIN effect : EffectOp(effect[i])

\* Of each juror its effect, and how many came from an answer that could be read.
Interpretations ==
  [jury \in select_jury |->
     {[effects  |-> [j \in jury |-> Interpreter!interpret(replies[j])],
       answered |-> Cardinality({j \in jury : Interpreter!decoded(replies[j]).ok})] :
         replies \in RepliesOf(jury)}]

exec_case(c, jury, i, status) ==
  [contract |-> c, jury |-> jury, effects |-> i.effects, answered |-> i.answered,
   status |-> status]

invoke_contract(from, c, nonceOk) ==
  \/ Fails(from, nonceOk, ~(Known(c) /\ Jurors # {}))
  \/ /\ Known(c) /\ Jurors # {} /\ Pays(from, nonceOk)
     /\ Len(cases) < MaxCases
     /\ \E jury \in select_jury : \E i \in Interpretations[jury] :
          LET r == resolve_case(Paid(from, nonceOk).m, c, i.effects, jury, now)
          IN /\ Ledgered(r.m)
             /\ contracts' = r.contracts /\ panicked' = r.panicked
             /\ cases' = Append(cases, exec_case(c, jury, i, r.status))

submit_effect(from, i, nonceOk) ==
  LET case == cases[i]
      open == /\ i \in DOMAIN cases /\ case.status = "Open"
              /\ from \in case.jury /\ from \notin DOMAIN case.effects
  IN \/ Fails(from, nonceOk, ~open)
     \/ /\ open /\ Pays(from, nonceOk)
        /\ \E effect \in Effects :
             LET subs == [j \in DOMAIN case.effects \cup {from} |->
                            IF j = from THEN effect ELSE case.effects[j]]
                 r == resolve_case(Paid(from, nonceOk).m, case.contract, subs, case.jury, now)
             IN /\ Ledgered(r.m)
                /\ contracts' = r.contracts /\ panicked' = r.panicked
                /\ cases' = [cases EXCEPT ![i].effects = subs, ![i].status = r.status]

\* The accounts' own transactions, and the clock.
LedgerStep ==
  /\ \/ NewBlock
     \/ \E from \in Users, to \in Addr, v \in Values : Transfer(from, to, v, TRUE)
     \/ \E from \in Users, to \in Addr, r \in Rates, d \in Deposits :
          OpenStream(from, to, r, d, TRUE)
  /\ UNCHANGED cvars

CNext ==
  /\ ~panicked
  /\ \/ LedgerStep
     \/ \E from \in Users, ps \in SUBSET Parties, ok \in BOOLEAN, n \in BOOLEAN :
          deploy_contract(from, ps, ok, n)
     \/ \E from \in Users, c \in ContractIds, v \in Values, n \in BOOLEAN :
          fund_contract(from, c, v, n)
     \/ \E from \in Users, c \in ContractIds, n \in BOOLEAN :
          invoke_contract(from, c, n)
     \/ \E from \in Users, i \in 1..MaxCases, n \in BOOLEAN :
          submit_effect(from, i, n)

CSpec == CInit /\ [][CNext]_allvars

(***************************************************************************)
(* Properties.                                                             *)
(***************************************************************************)
\* The escrow a contract's record claims is really in its account: funding,
\* effects, streams opened and stopped by effects and payments from outside
\* never leave the record above the settled balance it is spent from.
EscrowBacked ==
  ~panicked => \A c \in DOMAIN contracts :
    contracts[c].escrow <= mem.settled_balance[EscrowOf[c]]

\* An invocation is decided in the block that makes it, whatever its
\* interpreters answered and however few jurors there are (issue #35): no case
\* is left Open waiting for submissions.  And it is decided against the effect
\* when fewer than a quorum of the jury gave an answer that could be read: an
\* outage of the model commits nothing, not even an empty effect.
CasesDecided ==
  panicked \/ \A i \in DOMAIN cases :
    /\ cases[i].status # "Open"
    /\ cases[i].answered < QUORUM => cases[i].status = "Aborted"

\* A committed effect was the answer of a quorum of the case's own jury.
QuorumStands ==
  \A i \in DOMAIN cases : cases[i].status = "Committed" =>
    \E e \in {cases[i].effects[j] : j \in cases[i].jury} :
      Cardinality({j \in cases[i].jury : cases[i].effects[j] = e}) >= QUORUM

\* The contracts whose case was decided by this step.
Decided(status) == {cases'[i].contract : i \in
  {k \in DOMAIN cases' : /\ cases'[k].status = status
                         /\ k \in DOMAIN cases => cases[k].status # status}}

\* Fail closed: an aborted invocation leaves every contract, every stream's
\* terms and every account as it was, but for the fee of the one who invoked.
AbortsChangeNothing ==
  [][Decided("Aborted") # {} =>
       /\ contracts' = contracts
       /\ mem'.next_id = mem.next_id
       /\ Cardinality({a \in Addr \ {TREASURY} :
                         balance(mem', a, now) # balance(mem, a, now)}) <= 1]_allvars

\* Least authority (I6): an invocation of one contract takes no more out of the
\* escrow account than the contract's record held (money that reached the
\* account by other ways stays), nothing from any other account but the fee of
\* the one who invoked, stops no stream but the escrow's own and touches no
\* other contract.
LeastAuthority ==
  [][\A c \in Decided("Committed") :
       /\ balance(mem', EscrowOf[c], now) + contracts[c].escrow
            >= balance(mem, EscrowOf[c], now)
       /\ Cardinality({a \in Addr \ {EscrowOf[c]} :
                         balance(mem', a, now) < balance(mem, a, now)}) <= 1
       /\ \A id \in DOMAIN mem.streams :
            mem'.streams[id].status = "Stopped" /\ mem.streams[id].status # "Stopped"
              => mem.streams[id].from = EscrowOf[c]
       /\ \A d \in DOMAIN contracts \ {c} : contracts'[d] = contracts[d]]_allvars

(***************************************************************************)
(* What an assertion of the code says and the code does not keep.          *)
(***************************************************************************)
\* "validated stop must succeed (ownership checked)", "validated stream open
\* must succeed (escrow >= draw, params checked)": an effect that passed
\* validation applies without failing.
ValidatedEffectsApply == ~panicked

=============================================================================
