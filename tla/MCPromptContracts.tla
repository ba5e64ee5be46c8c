------------------------- MODULE MCPromptContracts -------------------------
(* A user, a payee, the treasury and the escrow account of one contract;          *)
(* effects of one or two operations that meet every check of apply_effect.  *)
EXTENDS PromptContracts

CONSTANTS j1, j2, alice, bob, treasury, escrow0, Funds

MCJurors == {j1, j2}
JurorSymmetry == Permutations(MCJurors)

MCUsers == {alice}
MCParties == {alice, bob}
MCAddr == {alice, bob, treasury, escrow0}
MCEscrowOf == [c \in {0} |-> escrow0]
MCFeeOf == [k \in Kinds |-> IF k = "hub" THEN 1 ELSE 0]
MCGenesis == [a \in MCAddr |-> IF a = alice THEN Funds ELSE 0]

Pay(to, n) == [op |-> "Transfer", to |-> to, amount |-> n]
Refund(to, n) == [op |-> "Refund", to |-> to, amount |-> n]
Open(to, n) == [op |-> "OpenStream", to |-> to, rate |-> 1, deposit |-> n]
Stop(id) == [op |-> "StopStream", id |-> id]

\* Replies of the provider: a list of operations, all of them legible.
Says(ops) == [provider |-> "Anthropic", status |-> "success", body |->
  Interpreter!from_text(Interpreter!StructuredEffect(
    [i \in DOMAIN ops |-> Interpreter!StructuredOp(ops[i], {})]))]

\* An operation with an amount that does not parse; a preamble before the answer.
Garbled == [provider |-> "Ollama", status |-> "success", body |->
  Interpreter!StructuredEffect(<<Interpreter!StructuredOp(Pay(bob, 1), {}),
                                 Interpreter!StructuredOp(Pay(bob, 1), {"amount"})>>)]
Prefaced(ops) == [Says(ops) EXCEPT !.body =
  Interpreter!from_text(Interpreter!Unknown) \o @]
Silent == [provider |-> "Openai", status |-> "success", body |-> Interpreter!Absent]
Down   == [provider |-> "Openai", status |-> "timeout"]

MCReplies ==
  { Down, Silent, Garbled,
    Prefaced(<<>>),                          \* no operation
    Says(<<Pay(bob, 1), Refund(bob, 1)>>),   \* over-escrow only together
    Says(<<Pay(escrow0, 1)>>),               \* to a contract's own account
    Says(<<Open(bob, 1)>>),
    Says(<<Stop(0)>>),                       \* the contract's stream, or alice's
    Says(<<Stop(0), Pay(alice, 1)>>) }

\* A contract that opens a stream and, when asked, stops it.
OpenThenStop == {Says(<<Open(bob, 1)>>), Says(<<Stop(0)>>)}
=============================================================================
