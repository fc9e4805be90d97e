--------------------------- MODULE MCRequestChecks ---------------------------
(* Instances of RequestChecks for TLC.                                     *)
EXTENDS RequestChecks

(* The token has one decimal on the handler's chain, none on "coarse" and  *)
(* two on "fine"; the second token is known on the handler's chain only.   *)
MCChains == {"home", "coarse", "fine", "lighter"}
MCTokenStore == [home   |-> [usdc |-> 1, weth |-> 1],
                 coarse |-> [usdc |-> 0],
                 fine   |-> [usdc |-> 2],
                 lighter |-> << >>]
MCSymbols == {"usdc", "weth", "other"}

(* "coarse" has LiFi orders and no liquidators, "fine" only liquidators.   *)
MCLiquidators == [c \in MCChains |-> IF c \in {"home", "fine"} THEN {"usdc"} ELSE {}]

Asked(protocols, chains, bodies, borrows, repayments) ==
    [protocol : protocols, chain : chains, posted : BOOLEAN, body : bodies,
     id : {1}, borrow : borrows, repayment : repayments, token : {"usdc", "weth"}]

(* 1 and 2 are what 19 is around on "coarse", 190 what it is on "fine".    *)
MCRequests ==
    Asked({"across", "lifi"}, {"home"}, {"complete"}, {1, 2, 190, 191}, {"home", "coarse"})
      \cup Asked({"lighter"}, {"lighter"}, {"complete"}, {1}, {"home"})
      \cup Asked(Protocols, MCChains, {"complete"}, {1}, {"home"})
      \cup Asked(Protocols, {"home"}, {"missing"}, {1}, {"home"})
      \cup Asked({"across"}, {"home"}, {"nonnumeric"}, {1}, {"home"})

Deposited(token, amount, dest) ==
    [removed |-> FALSE, emitter |-> "configured", id |-> 1, token |-> token,
     amount |-> amount, output |-> "zero", dest |-> dest, inputs |-> 1,
     outputs |-> 1, valid |-> TRUE, memo |-> TRUE]

Good == [dest \in {"home", "coarse", "fine"} |-> Deposited("usdc", 19, dest)]

MCLogs == { Good[dest] : dest \in DOMAIN Good }
            \cup { Deposited("usdc", 20, "coarse"), Deposited("weth", 19, "coarse"),
                   Deposited("other", 19, "coarse"),
                   [Deposited("other", 19, "coarse") EXCEPT !.output = "usdc"],
                   [Good["coarse"] EXCEPT !.output = "weth"],
                   [Good["coarse"] EXCEPT !.inputs = 2],
                   [Good["coarse"] EXCEPT !.outputs = 2],
                   [Good["coarse"] EXCEPT !.valid = FALSE],
                   [Good["coarse"] EXCEPT !.memo = FALSE],
                   [Good["coarse"] EXCEPT !.emitter = "other"] }

(* A deposit may come after a log that was removed, has another id or is   *)
(* of another contract.                                                    *)
Noise == { [Good["fine"] EXCEPT !.removed = TRUE], [Good["fine"] EXCEPT !.id = 2],
           [Good["fine"] EXCEPT !.emitter = "other"] }

MCReceipts == {<< >>} \cup { << log >> : log \in MCLogs \cup Noise }
                \cup { << noise, log >> : noise \in Noise, log \in MCLogs }

(* A reorganisation takes the transaction away or makes it a smaller deposit. *)
MCRewrites == {<< >>, << Deposited("usdc", 1, "coarse") >>}

(* Steps that call out of the relayer, and the packing of calldata and hash. *)
External == {"deposit", "order", "tx", "validate", "price", "confirmations",
             "calldata", "hash"}

=============================================================================
