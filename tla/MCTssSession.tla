---------------------------- MODULE MCTssSession ----------------------------
(* Instances of TssSession for TLC.                                        *)
EXTENDS TssSession, TLC

CONSTANTS n1, n2, n3

MCPeers == {n1, n2, n3}

(* All three hold shares of the current key.                               *)
MCKeyPeers == [p \in MCPeers |-> MCPeers]

(* n2 missed the last resharing and still holds a share of the old key.    *)
MCOldKeyPeers == [MCKeyPeers EXCEPT ![n2] = {n1, n2}]

MCThreshold == [p \in MCPeers |-> 1]

MCRank == (n1 :> 1) @@ (n2 :> 3) @@ (n3 :> 2)

=============================================================================
