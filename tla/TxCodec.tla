------------------------------ MODULE TxCodec -------------------------------
(***************************************************************************)
(* What a signed transaction means.  It is decoded twice: by the kernel    *)
(* both followers share (crates/exec/src/op.rs), whose answer is executed  *)
(* and charged, and by the parsers of the JSON-RPC side                    *)
(* (crates/rpc/src/{streams,humanity,contracts}.rs), whose answer prices   *)
(* the wallet's preflight and labels the explorer's rows.  The two are     *)
(* separate code.  Calldata is a selector and the one way, if any, in      *)
(* which its arguments are unacceptable.                                   *)
(***************************************************************************)
EXTENDS Naturals

CONSTANTS STREAM_HUB, HUMANITY_HUB, CONTRACT_HUB, None

Hubs == {STREAM_HUB, HUMANITY_HUB, CONTRACT_HUB}

\* Three different addresses.
ASSUME HubAddresses ==
  /\ STREAM_HUB # HUMANITY_HUB /\ STREAM_HUB # CONTRACT_HUB /\ HUMANITY_HUB # CONTRACT_HUB
  /\ None \notin Hubs

\* The arguments a selector takes and what can be wrong with them.
Overflowing == {"openStream", "stopStream", "submitVerdict", "fundContract",
                "invokeContract", "submitEffect"}
Sized       == {"submitZkPassportProof", "deployContract"}
Enumerated  == {"submitVerdict"}
Blobs       == {"submitEffect"}

Faults(sel) ==
  {"none", "malformed"}
    \cup (IF sel \in Overflowing THEN {"overflow"} ELSE {})
    \cup (IF sel \in Sized THEN {"oversized"} ELSE {})
    \cup (IF sel \in Enumerated THEN {"outOfRange"} ELSE {})
    \cup (IF sel \in Blobs THEN {"badOps"} ELSE {})

(***************************************************************************)
(* The kernel: a kind, or the class of a DecodeError.                      *)
(***************************************************************************)
Err(e) == [kind |-> "error", why |-> e]
Kind(k) == [kind |-> k, why |-> "none"]

Soulbound == {"transferFrom", "safeTransferFrom", "approve", "setApprovalForAll"}

KernelStream   == [openStream |-> "OpenStream", stopStream |-> "StopStream"]
KernelHumanity == [requestVerification |-> "RequestVerification", vouch |-> "Vouch",
                   challenge |-> "Challenge", submitVerdict |-> "SubmitVerdict",
                   submitZkPassportProof |-> "SubmitZkPassportProof",
                   registerCsca |-> "RegisterCsca", revokeCsca |-> "RevokeCsca",
                   pinSelfIdentityRoot |-> "PinSelfIdentityRoot",
                   pinSelfOfacRoot |-> "PinSelfOfacRoot",
                   retireSelfRoot |-> "RetireSelfRoot"]
KernelContract == [deployContract |-> "DeployContract", fundContract |-> "FundContract",
                   invokeContract |-> "InvokeContract", submitEffect |-> "SubmitEffect"]

call_of(table, c) ==
  IF c.fault = "none" THEN Kind(table[c.sel])
  ELSE Err(IF c.fault = "overflow" THEN "ValueOverflow" ELSE "BadCalldata")

parse_stream(c) ==
  CASE c.sel \in DOMAIN KernelStream -> call_of(KernelStream, c)
    [] c.sel \in Soulbound           -> Err("Soulbound")
    [] OTHER                         -> Err("BadCalldata")

parse_humanity(c) ==
  IF c.sel \in DOMAIN KernelHumanity THEN call_of(KernelHumanity, c) ELSE Err("BadCalldata")

parse_contract(c) ==
  IF c.sel \in DOMAIN KernelContract THEN call_of(KernelContract, c) ELSE Err("BadCalldata")

\* The checks in their order; `value` too large for u128 concerns only the two kinds
\* that move it, every other hub call ignores the value it carries.
decode_tx(t) ==
  LET k == CASE t.to = STREAM_HUB   -> parse_stream(t)
             [] t.to = HUMANITY_HUB -> parse_humanity(t)
             [] t.to = CONTRACT_HUB -> parse_contract(t)
             [] OTHER               -> IF t.sel # None THEN Err("UnexpectedCalldata")
                                                       ELSE Kind("Transfer")
  IN CASE t.chain # "ours"  -> Err("WrongChain")
       [] t.from = None     -> Err("BadSignature")
       [] t.to = None       -> Err("ContractCreation")
       [] k.kind \in {"Transfer", "FundContract"} /\ t.value = "huge" -> Err("ValueOverflow")
       [] OTHER             -> k

decodes(t) == decode_tx(t).kind # "error"

(***************************************************************************)
(* Gas, in thousands.  A deployment pays for its text.                     *)
(***************************************************************************)
GAS_TRANSFER == 21
GAS_STREAM   == 60
GAS_HUMANITY == 80
GAS_ZKPOH    == 250
GAS_CSCA_GOV == 80
GAS_ONBOARD  == 0
GAS_CONTRACT == 120

gas_for_deploy(len) == GAS_CONTRACT + 16 * len

Governance == {"RegisterCsca", "RevokeCsca", "PinSelfIdentityRoot", "PinSelfOfacRoot",
               "RetireSelfRoot"}

\* KernelKind::gas: what charge_fee is called with.
gas(k, len) ==
  CASE k = "Transfer"                                     -> GAS_TRANSFER
    [] k \in {"OpenStream", "StopStream"}                 -> GAS_STREAM
    [] k = "RequestVerification"                          -> GAS_ONBOARD
    [] k \in {"Vouch", "Challenge", "SubmitVerdict"}      -> GAS_HUMANITY
    [] k = "SubmitZkPassportProof"                        -> GAS_ZKPOH
    [] k \in Governance                                   -> GAS_CSCA_GOV
    [] k = "DeployContract"                               -> gas_for_deploy(len)
    [] k \in {"FundContract", "InvokeContract", "SubmitEffect"} -> GAS_CONTRACT

\* The receipt's gas_used comes from a table of its own.
gas_for_kind(k, len) ==
  CASE k = "Transfer"                                     -> GAS_TRANSFER
    [] k \in {"OpenStream", "StopStream"}                 -> GAS_STREAM
    [] k = "RequestVerification"                          -> GAS_ONBOARD
    [] k \in {"Vouch", "Challenge", "SubmitVerdict"}      -> GAS_HUMANITY
    [] k = "SubmitZkPassportProof"                        -> GAS_ZKPOH
    [] k \in Governance                                   -> GAS_CSCA_GOV
    [] k = "DeployContract"                               -> gas_for_deploy(len)
    [] k \in {"FundContract", "InvokeContract", "SubmitEffect"} -> GAS_CONTRACT

(***************************************************************************)
(* The JSON-RPC side: parse_calldata of each hub, or "error".              *)
(***************************************************************************)
StreamOps   == [openStream |-> "OpenStream", stopStream |-> "StopStream"]
HumanityOps == [requestVerification |-> "RequestVerification", vouch |-> "Vouch",
                challenge |-> "Challenge", submitVerdict |-> "SubmitVerdict",
                submitZkPassportProof |-> "SubmitZkPassportProof",
                registerCsca |-> "RegisterCsca", revokeCsca |-> "RevokeCsca",
                pinSelfIdentityRoot |-> "PinSelfIdentityRoot",
                pinSelfOfacRoot |-> "PinSelfOfacRoot", retireSelfRoot |-> "RetireSelfRoot"]
ContractOps == [deployContract |-> "DeployContract", fundContract |-> "FundContract",
                invokeContract |-> "InvokeContract", submitEffect |-> "SubmitEffect"]

op_of(table, c) ==
  IF c.sel \in DOMAIN table /\ c.fault = "none" THEN table[c.sel] ELSE "error"

parse_calldata(c)          == op_of(StreamOps, c)
parse_humanity_calldata(c) == op_of(HumanityOps, c)
parse_contract_calldata(c) == op_of(ContractOps, c)

\* Mutant: every humanity call is priced at the humanity tier.
gas_for_call_obj_Flat(c) ==
  CASE c.to = STREAM_HUB   -> GAS_STREAM
    [] c.to = HUMANITY_HUB -> GAS_HUMANITY
    [] c.to = CONTRACT_HUB -> IF parse_contract_calldata(c) = "DeployContract"
                                THEN gas_for_deploy(c.len) ELSE GAS_CONTRACT
    [] OTHER               -> GAS_TRANSFER

\* eth_estimateGas: by address, and by operation where the tiers of a hub differ.
gas_for_call_obj(c) ==
  CASE c.to = STREAM_HUB   -> GAS_STREAM
    [] c.to = HUMANITY_HUB ->
         LET op == parse_humanity_calldata(c)
         IN CASE op = "RequestVerification"   -> GAS_ONBOARD
              [] op = "SubmitZkPassportProof" -> GAS_ZKPOH
              [] op \in Governance            -> GAS_CSCA_GOV
              [] OTHER                        -> GAS_HUMANITY
    [] c.to = CONTRACT_HUB -> IF parse_contract_calldata(c) = "DeployContract"
                                THEN gas_for_deploy(c.len) ELSE GAS_CONTRACT
    [] OTHER               -> GAS_TRANSFER

\* The label of a row of the explorer.
tx_kind_str(c) ==
  LET or(op, default) == IF op # "error" THEN op ELSE default
  IN CASE c.to = STREAM_HUB   -> or(parse_calldata(c), "StreamHub")
       [] c.to = HUMANITY_HUB -> or(parse_humanity_calldata(c), "HumanitySystem")
       [] c.to = CONTRACT_HUB -> or(parse_contract_calldata(c), "ContractHub")
       [] OTHER               -> IF c.sel = None THEN "Transfer" ELSE "Call"

=============================================================================
