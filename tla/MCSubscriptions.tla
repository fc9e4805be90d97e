--------------------------- MODULE MCSubscriptions ---------------------------
(* Instances of Subscriptions for TLC.                                     *)
EXTENDS Subscriptions, TLC

CONSTANTS c1, c2, c3

MCChannels == {c1, c2, c3}

(* "signatures" is a session of its own; a tss session is chain-deposit.   *)
MCSessions == {"signatures", "8453-1"}
MCDashed == {"8453-1"}

(* Any channel may be subscribed to any topic.                             *)
Symmetry == Permutations(MCChannels)

=============================================================================
