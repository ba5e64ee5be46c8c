--------------------------- MODULE MCLightClient ---------------------------
(* Small instances of LightClient.                                          *)
EXTENDS LightClient

OneValidator == {"v1"}

\* The scope of the canonical genesis, and none.
BothScopes == {None, "DEVNET_SELF_SCOPE"}
NoScope == {None}
=============================================================================
