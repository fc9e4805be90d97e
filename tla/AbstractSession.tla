--------------------------- MODULE AbstractSession ---------------------------
(***************************************************************************)
(* What a signing session promises, without messages, goroutines, attempts *)
(* or timeouts: relayers join a session under a coordinator, a coordinator *)
(* announces threshold+1 of those that joined under it, and only members   *)
(* of an announced subset ever sign.                                       *)
(*                                                                         *)
(* TssSession, the handshake of tss/coordinator.go, implements this        *)
(* specification, and so does SigningRequests, which has no handshake of   *)
(* its own: the two agree on what a session may do.                        *)
(***************************************************************************)
EXTENDS Integers, FiniteSets

CONSTANTS
    Peers,
    KeyPeers,   \* KeyPeers[c]: the holders of the key that c knows of
    Threshold   \* Threshold[c]: the threshold of that key

VARIABLES
    joined,     \* << p, c >>: p has executed the session under c
    announced,  \* << c, S >>: c has announced the subset S
    signed      \* << p, S >>: p has made a signature with S

vars == << joined, announced, signed >>

Init == joined = {} /\ announced = {} /\ signed = {}

(* Execute.                                                                *)
Join(p, c) ==
    /\ joined' = joined \cup {<< p, c >>}
    /\ UNCHANGED << announced, signed >>

(* initiate, once enough peers are ready.                                  *)
Announce(c, S) ==
    /\ c \in S
    /\ S \subseteq KeyPeers[c]
    /\ \A p \in S : << p, c >> \in joined
    /\ Cardinality(S) = Threshold[c] + 1
    /\ announced' = announced \cup {<< c, S >>}
    /\ UNCHANGED << joined, signed >>

(* processEndMessage.                                                      *)
Sign(p, c, S) ==
    /\ << c, S >> \in announced
    /\ p \in S
    /\ signed' = signed \cup {<< p, S >>}
    /\ UNCHANGED << joined, announced >>

(* Doing any of this again changes nothing and is no step.                 *)
Next ==
    /\ vars' # vars
    /\ \E p, c \in Peers :
         \/ Join(p, c)
         \/ \E S \in SUBSET KeyPeers[c] : Announce(c, S) \/ Sign(p, c, S)

Spec == Init /\ [][Next]_vars

=============================================================================
