--------------------------- MODULE PromptDelivery ---------------------------
(***************************************************************************)
(* ForkChoice with a history variable: did every block that was made find  *)
(* its maker in touch?  FINALITY_DEPTH is the code's only protection       *)
(* against two finalized histories, and it takes a network that delivers a *)
(* block within the time of about one more.                                *)
(***************************************************************************)
EXTENDS ForkChoice

VARIABLE prompt

\* Up to its own height n has the best block there is, and nobody is more than one
\* block ahead.
in_touch(n) ==
  LET a == chain[n].blocks IN
  \A m \in Nodes : LET b == chain[m].blocks IN
    /\ Len(b) <= Len(a) + 1
    /\ ~fork_choice_prefers(upto(b, Smaller(Len(a), Len(b))), a)

allvars == <<vars, prompt>>

PromptInit == Init /\ prompt = TRUE

PromptNext ==
  /\ Next
  /\ prompt' = (prompt /\ \A n \in Nodes : \A b \in gossip' \ gossip :
                  V[proposer_index(Len(b), view_of(b))] = n => in_touch(n))

PromptSpec == PromptInit /\ [][PromptNext]_allvars

\* While blocks are delivered in time nobody finalizes a block that another node replaces:
\* what production_guard_ok and FINALITY_DEPTH are for.
PromptAgreement == prompt => FinalizedAgree


=============================================================================
