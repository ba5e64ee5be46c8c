------------------------------ MODULE Receipts ------------------------------
(***************************************************************************)
(* The receipts of the registry's transactions: which soulbound Proof of   *)
(* Humanity tokens their ERC-721 Transfer logs mint and burn (build_op_    *)
(* logs and sweep_finalize in crates/rpc/src/lib.rs).  Logs are not part   *)
(* of the state root: nothing but this module relates the two.  Every step *)
(* is a step of Humanity together with the logs of its receipt.            *)
(***************************************************************************)
EXTENDS Humanity

VARIABLE tokens   \* of each address: mints less burns, as an indexer counts them

rvars == <<vars, tokens>>

\* Mutant: only a revocation burns.
humanity_status_logs_RevokedOnly(subject, prev, status) ==
  [b \in Addr |-> IF b # subject THEN 0
                  ELSE IF status = "Verified" /\ prev # "Verified" THEN 1
                  ELSE IF status = "Revoked" /\ prev = "Verified" THEN -1 ELSE 0]

\* The change of each balance by the logs of one transition.
humanity_status_logs(subject, prev, status) ==
  [b \in Addr |-> IF b # subject THEN 0
                  ELSE IF status = "Verified" /\ prev # "Verified" THEN 1
                  ELSE IF status # "Verified" /\ prev = "Verified" THEN -1 ELSE 0]

emit(logs) == tokens' = [b \in Addr |-> tokens[b] + logs[b]]

no_logs == [b \in Addr |-> 0]

\* The status before the challenge is not looked at: Challenged afterwards means a burn.
challenge_logs(subject) ==
  IF humans'[subject].status = "Challenged"
    THEN humanity_status_logs(subject, "Verified", "Challenged") ELSE no_logs

\* The status is read before and after the verdict; only the case's subject is looked at.
verdict_logs(id) ==
  LET subject == cases[id].subject IN
  humanity_status_logs(subject, humans[subject].status, humans'[subject].status)

\* The new status is not read: a proof that was accepted means Verified.
zk_logs(a) ==
  IF humans[a].status # "Verified"
    THEN humanity_status_logs(a, humans[a].status, "Verified") ELSE no_logs

\* The mints of sweep_finalize, in the receipt of the block's synthetic transaction.
sweep_logs ==
  [b \in Addr |-> IF b \in Pending /\ humans'[b].status = "Verified"
                    THEN humanity_status_logs(b, "Pending", "Verified")[b] ELSE 0]

\* The view calls of the collection (poh_nft_call): the token of an address exists iff
\* the address is Verified now; ownerOf of any other reverts.
balanceOf(a) == IF humans[a].status = "Verified" THEN 1 ELSE 0
ownerOf(a)   == IF humans[a].status = "Verified" THEN {a} ELSE {}

\* The genesis block has no transactions, and seed_verified_human logs nothing.
InitReceipts == Init /\ tokens = [a \in Addr |-> 0]

NextReceipts ==
  \/ /\ next_case_id < MaxCases
     /\ \E a \in Applicants, jury \in Juries, grade \in Grades :
          request_verification(a, jury, grade)
     /\ UNCHANGED tokens
  \/ /\ \E voucher, vouchee \in Addr : vouch(voucher, vouchee)
     /\ UNCHANGED tokens
  \/ /\ next_case_id < MaxCases
     /\ \E challenger \in Challengers, subject \in Targets, jury \in Juries :
          challenge(challenger, subject, jury) /\ emit(challenge_logs(subject))
  \/ \E id \in DOMAIN cases, juror \in Jurors, v \in Ballots :
       submit_verdict(id, juror, v) /\ emit(verdict_logs(id))
  \/ \E a \in Addr, n \in Nullifiers :
       submit_zk_passport_proof(a, n) /\ emit(zk_logs(a))
  \/ \E flagged \in SUBSET (Pending \cap Suspects) : \E juries \in [flagged -> Juries] :
       EndBlock(flagged, juries) /\ emit(sweep_logs)

SpecReceipts == InitReceipts /\ [][NextReceipts]_rvars

\* Who was Verified at genesis holds a token that no log minted.
unlogged(a) == IF a \in Founders THEN 1 ELSE 0

\* humanity_status_logs keeps mint and burn aligned with the ownerOf / balanceOf
\* predicate: along every path into and out of Verified, an indexer that adds up mints
\* and burns from genesis, and knows who was seeded there, holds one token for every
\* Verified human and none for anyone else, which is what ownerOf and balanceOf answer.
TransfersFollowOwnership ==
  \A a \in Addr :
    LET held == unlogged(a) + tokens[a] IN
    held = balanceOf(a) /\ (held = 1 <=> ownerOf(a) = {a})

(***************************************************************************)
(* What a comment says and the code does not do.                           *)
(***************************************************************************)
\* "an indexer can reconstruct ownership from Transfer logs alone": false at genesis,
\* and a founder's count falls to -1 with the first burn.
OwnershipFromLogsAlone == \A a \in Addr : tokens[a] = balanceOf(a)

=============================================================================
