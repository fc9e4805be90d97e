------------------------------- MODULE MCP2P --------------------------------
(* Instances of P2P for TLC.                                               *)
EXTENDS P2P, TLC

CONSTANTS c1, c2, g1, g2, g3

MCChannels == {c1, c2}
MCSenders == {g1, g2, g3}

(* "signatures" is a session of its own; a tss session is chain-deposit.   *)
MCSessions == {"signatures", "8453-1"}
MCDashed == {"8453-1"}

(* Any channel may be subscribed to any topic; g1 has the long message.    *)
Symmetry == Permutations(MCChannels) \cup Permutations(MCSenders \ {g1})

=============================================================================
