----------------------------- MODULE MCPeerSync -----------------------------
(* PeerSync with a peer that serves this chain and one that does not.      *)
EXTENDS PeerSync

CONSTANTS p1, p2

NoBoast == [p \in Peers |-> 0]

OneBoasts == [p \in Peers |-> IF p = p2 THEN 2 ELSE 0]

NoneBare == [p \in Peers |-> 0]

OneBare == [p \in Peers |-> IF p = p2 THEN 1 ELSE 0]

=============================================================================
