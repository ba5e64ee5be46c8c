------------------------------ MODULE MCPrompt ------------------------------
(* PromptDelivery with the validators and the order of hashes of MCForkChoice. *)
EXTENDS MCForkChoice, PromptDelivery

=============================================================================
