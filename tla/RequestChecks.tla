---------------------------- MODULE RequestChecks ----------------------------
(***************************************************************************)
(* The way of one request through one relayer: the HTTP call that posts it *)
(* (HandleSigning, HandleUnlock), the handlers that app.go registers for   *)
(* each chain, HandleMessage of each protocol (chains/evm/message,         *)
(* chains/lighter/message) up to coordinator.Execute, and the channel      *)
(* through which it answers.  A request that another relayer broadcast is  *)
(* handed to HandleMessage by Listen.                                      *)
(*                                                                         *)
(* A handler is a sequence of steps, its program; every protocol has its   *)
(* own.  A token's address is its symbol, a hash is what it commits to.    *)
(***************************************************************************)
EXTENDS Integers, Sequences, FiniteSetsExt

CONSTANTS
    Requests,       \* the requests, of Request
    Receipts,       \* what the deposit transaction may hold, sequences of Log
    Rewrites,       \* what it may hold once it is mined again
    Chains,
    Lighter,        \* LIGHTER_DOMAIN_ID
    Symbols,
    TokenStore,     \* TokenStore[c]: decimals of the tokens known on chain c
    AcrossPools,    \* chains configured with an Across pool
    LifiSettlers,   \* chains configured with a LiFi output settler
    Repayers,       \* chains with a repayment address
    Liquidators,    \* Liquidators[c]: tokens with a liquidator on chain c
    Buckets,        \* Lighter: the bounds of the confirmation buckets
    UsdcDecimals,   \* 6 in the code
    Retries,        \* TX_NOT_FOUND_RETRIES, 3 in the code
    MayFail         \* bound: steps that may fail for reasons of their own

Protocols == {"across", "lifi", "lighter", "sprinter", "unlock"}

(* posted: from an HTTP call; else broadcast by another relayer.           *)
(* body: whether the fields that validate asks for are there, and the      *)
(* deposit id of an Across request is a number (SetString gives nil for    *)
(* one that is not, and a broadcast carries it on).                        *)
Request == [protocol : Protocols, chain : Chains, posted : BOOLEAN,
            body : {"complete", "missing", "nonnumeric"}, id : Nat, borrow : Nat,
            repayment : Chains, token : Symbols]

(* emitter: the contract of the log, the one the chain is configured with  *)
(* (the spoke pool of Across, the input settler of LiFi) or any other; any *)
(* contract can emit a log with the topics of a deposit, only those of the *)
(* configured one come with money.  id: the topic; logs of other events    *)
(* are skipped and left out.  valid: what the LiFi validator, or the type, *)
(* account and asset checks of a Lighter transfer, say of it.  memo: a     *)
(* Lighter transfer's has the 20 bytes of an address.                      *)
(* output: the token an Across deposit asks for on the destination, "zero" *)
(* for the counterpart of its own.                                         *)
Log == [removed : BOOLEAN, emitter : {"configured", "other"}, id : Nat,
        token : Symbols, amount : Nat, output : Symbols \cup {"zero"},
        dest : Chains, inputs : Nat, outputs : Nat \ {0}, valid : BOOLEAN,
        memo : BOOLEAN]

ASSUME ChecksAssumption ==
    /\ Lighter \in Chains \ (AcrossPools \cup LifiSettlers)
    /\ AcrossPools \cup LifiSettlers \subseteq Chains
    /\ \A r \in Requests : r \in Request
    /\ \A logs \in Receipts \cup Rewrites : logs \in Seq(Log)
    /\ \A c \in Chains : /\ DOMAIN TokenStore[c] \subseteq Symbols
                         /\ \A t \in DOMAIN TokenStore[c] : TokenStore[c][t] \in Nat
    /\ Repayers \subseteq Chains
    /\ \A c \in Chains : Liquidators[c] \subseteq Symbols
    /\ UsdcDecimals \in Nat
    /\ Retries \in Nat \ {0}

(* There is a largest bucket, if there is any.                             *)
ASSUME BucketsAssumption ==
    /\ Buckets \subseteq Nat
    /\ Buckets # {} => \E b \in Buckets : \A a \in Buckets : b >= a

(* The decimals that occur, and what arithmetic says of their powers of    *)
(* ten; the provers do not know exponentiation.                            *)
Decimals ==
    {UsdcDecimals} \cup
    UNION { { TokenStore[c][t] : t \in DOMAIN TokenStore[c] } : c \in Chains }

ASSUME PowersAssumption ==
    \A m, n \in Decimals : m >= n =>
        /\ 10 ^ n \in Nat \ {0}
        /\ 10 ^ (m - n) \in Nat \ {0}
        /\ 10 ^ m = 10 ^ (m - n) * 10 ^ n

VARIABLES
    request,
    receipt,    \* the transaction the request points at
    deposit,    \* the log of it that the handler has read, << >> before
    moved,      \* the transaction was mined again after that
    step,       \* the number of steps of the program that are done
    attempt,    \* the calls of the Lighter API made so far
    state,      \* "posted", "queued", "running", "blocked", and one of Final
    errChn,     \* the buffer of ErrChn
    http        \* the HTTP call: "none", "waiting", or how it was answered

vars == << request, receipt, deposit, moved, step, attempt, state, errChn, http >>

(* refused: by validate; unrouted: the chain has no handler for it;        *)
(* panicked: the relayer's process is gone.                                *)
Final == {"refused", "unrouted", "panicked", "failed", "executed"}

(* The handlers NewMessageHandler is given for a chain of type evm, and    *)
(* the one of the Lighter chain.                                           *)
Registered(chain) ==
    IF chain = Lighter
      THEN {"lighter"}
      ELSE {"unlock"}
             \cup (IF chain \in AcrossPools THEN {"across"} ELSE {})
             \cup (IF chain \in LifiSettlers THEN {"lifi"} ELSE {})
             \cup (IF Liquidators[chain] # {} THEN {"sprinter"} ELSE {})

(* supportedChains: liquidators alone do not make a chain supported.       *)
Supported == AcrossPools \cup LifiSettlers \cup {Lighter}

(* A broadcast finds no subscriber where the handler does not exist.       *)
Init ==
    /\ request \in Requests
    /\ receipt \in Receipts
    /\ deposit = << >>
    /\ moved = FALSE
    /\ step = 0
    /\ attempt = 0
    /\ errChn = << >>
    /\ IF request.posted
         THEN state = "posted" /\ http = "waiting"
         ELSE /\ request.protocol \in Registered(request.chain)
              /\ state = "running"
              /\ http = "none"

-----------------------------------------------------------------------------
(* The programs.                                                           *)

(* Mutant: the caller is answered before the amount is known to cover the  *)
(* loan.                                                                   *)
AcrossStepsEarlyAnswer ==
    << "repayment", "notify", "deposit", "answer", "sourceToken", "destToken",
       "amount", "confirmations", "calldata", "hash" >>

AcrossSteps == << "repayment", "notify", "deposit", "sourceToken", "destToken",
                  "amount", "confirmations", "answer", "calldata", "hash" >>

LifiSteps == << "notify", "order", "shape", "sourceToken", "destToken", "amount",
                "validate", "price", "borrowToken", "confirmations", "answer",
                "calldata", "hash" >>

LighterSteps == << "notify", "tx", "validate", "size", "answer", "calldata", "hash" >>

SprinterSteps == << "notify", "calldata", "liquidator", "hash", "answer" >>

UnlockSteps == << "notify", "repayer", "hash" >>

Program ==
    CASE request.protocol = "across"   -> AcrossSteps
      [] request.protocol = "lifi"     -> LifiSteps
      [] request.protocol = "lighter"  -> LighterSteps
      [] request.protocol = "sprinter" -> SprinterSteps
      [] request.protocol = "unlock"   -> UnlockSteps

-----------------------------------------------------------------------------
(* The checks.                                                             *)

(* Mutant: fetchOpenEvent takes the log of any contract, too.              *)
MatchesAnyEmitter(log) == ~log.removed /\ log.id = request.id

(* fetchDepositByHash and fetchOpenEvent: the log is not removed and has   *)
(* the id asked for.  Only fetchOpenEvent looks at the contract that       *)
(* emitted it.                                                             *)
Matches(log) ==
    /\ ~log.removed
    /\ request.protocol = "lifi" => log.emitter = "configured"
    /\ log.id = request.id

Matching == { i \in DOMAIN receipt : Matches(receipt[i]) }

(* parseDeposit: the counterpart of an unknown token cannot be looked up.  *)
parseDeposit(log) == log.output = "zero" => log.token \in DOMAIN TokenStore[request.chain]

(* GetTx: the Lighter API has the transaction.                             *)
GetTx == receipt # << >>

(* What is read: the first log that matches; the Lighter API returns the   *)
(* transaction itself.                                                     *)
Fetched == IF request.protocol = "lighter" THEN receipt[1]
                                           ELSE receipt[Min(Matching)]

(* ConfigByAddress and ConfigBySymbol.                                     *)
ConfigByAddress(chain, token) == token \in DOMAIN TokenStore[chain]

ConfigBySymbol(chain, symbol) == symbol \in DOMAIN TokenStore[chain]

(* ScaleTokenAmount: rounds down.                                          *)
ScaleTokenAmount(amount, src, dst) ==
    IF src > dst THEN amount \div (10 ^ (src - dst))
                 ELSE amount * (10 ^ (dst - src))

(* The borrow amount is at most what was put in, in the decimals of the    *)
(* destination's token.                                                    *)
amountCovered ==
    request.borrow <= ScaleTokenAmount(deposit.amount,
                                       TokenStore[request.chain][deposit.token],
                                       TokenStore[deposit.dest][deposit.token])

(* verifyOrder, first: one input, and at most one output.                  *)
orderShape == deposit.inputs = 1 /\ deposit.outputs <= 1

(* borrowToken: the destination knows the token.                           *)
borrowToken == ConfigBySymbol(deposit.dest, deposit.token)

(* verifyOrderSize: some bucket is larger than the whole dollars.          *)
verifyOrderSize(amount) == \E b \in Buckets : amount \div (10 ^ UsdcDecimals) < b

(* lifiUnlockHash: the repayment address of the handler's own chain.       *)
lifiUnlockRepayer == request.chain \in Repayers

(* Whether the step the program has come to lets the request pass.         *)
Passes(check) ==
    CASE check = "repayment"            -> request.repayment \in Repayers
      [] check = "repayer"              -> lifiUnlockRepayer
      [] check = "order"                -> Matching # {}
      [] check = "deposit"              -> Matching # {} /\ parseDeposit(Fetched)
      [] check = "tx"                   -> GetTx
      [] check = "shape"                -> orderShape
      [] check = "sourceToken"          -> ConfigByAddress(request.chain, deposit.token)
      [] check \in {"destToken", "borrowToken"} -> borrowToken
      [] check = "amount"               -> amountCovered
      [] check = "validate"             -> deposit.valid
      [] check = "size"                 -> verifyOrderSize(deposit.amount)
      [] check = "liquidator"           -> request.token \in Liquidators[request.chain]
      [] OTHER                          -> TRUE

(* Where the code panics: fetchDepositByHash compares the id of the first  *)
(* log that is not removed with one that is nil; calldata of Lighter takes *)
(* 20 bytes of a shorter memo.                                             *)
Panics(check) ==
    \/ /\ check = "deposit"
       /\ request.body = "nonnumeric"
       /\ \E i \in DOMAIN receipt : ~receipt[i].removed
    \/ check = "calldata" /\ request.protocol = "lighter" /\ ~deposit.memo

-----------------------------------------------------------------------------
(* What is signed.                                                         *)

(* BorrowUnlockHash: typed data for the liquidity pool of a chain.         *)
BorrowUnlockHash(token, amount, chain, target) ==
    [type |-> "Borrow", token |-> token, amount |-> amount, chain |-> chain,
     target |-> target]

(* lifiUnlockHash: the repayer of the handler's own chain.                 *)
lifiUnlockHash ==
    [type |-> "AllowOpen", id |-> request.id, chain |-> request.chain,
     destination |-> request.chain]

(* A chain that is not in the map of targets gets the zero address.        *)
TargetOn(configured) == IF deposit.dest \in configured THEN deposit.dest ELSE "zero"

(* Across lends the token the deposit asks for, LiFi the counterpart of    *)
(* the order's input, Lighter USDC on Arbitrum in the amount transferred.  *)
UnlockHash ==
    CASE request.protocol = "across" ->
            BorrowUnlockHash(IF deposit.output = "zero" THEN deposit.token
                                                        ELSE deposit.output,
                             request.borrow, deposit.dest, TargetOn(AcrossPools))
      [] request.protocol = "lifi" ->
            BorrowUnlockHash(deposit.token, request.borrow, deposit.dest,
                             TargetOn(LifiSettlers))
      [] request.protocol = "lighter" ->
            BorrowUnlockHash("usdc", deposit.amount, "arbitrum", Lighter)
      [] request.protocol = "sprinter" ->
            BorrowUnlockHash(request.token, request.borrow, request.chain, request.token)
      [] request.protocol = "unlock" -> lifiUnlockHash

-----------------------------------------------------------------------------
(* The HTTP call.                                                          *)

(* validate of HandleSigning and of HandleUnlock, which asks for no field. *)
validate ==
    /\ request.body # "missing" \/ request.protocol = "unlock"
    /\ request.chain \in Supported

(* HandleSigning and HandleUnlock: 400, or the message is put on msgChan.  *)
HandleSigning ==
    /\ state = "posted"
    /\ IF validate
         THEN state' = "queued" /\ UNCHANGED http
         ELSE state' = "refused" /\ http' = "refused"
    /\ UNCHANGED << request, receipt, deposit, moved, step, attempt, errChn >>

(* The relayer core looks up the handler of the chain for the type of the  *)
(* message and only logs that there is none.  The Lighter chain hands      *)
(* everything to its only handler, which asserts the type of the data.     *)
ReceiveMessage ==
    /\ state = "queued"
    /\ state' = CASE request.protocol \in Registered(request.chain) -> "running"
                  [] request.chain = Lighter                       -> "panicked"
                  [] OTHER                                         -> "unrouted"
    /\ http' = IF state' = "panicked" /\ http = "waiting" THEN "dropped" ELSE http
    /\ UNCHANGED << request, receipt, deposit, moved, step, attempt, errChn >>

-----------------------------------------------------------------------------
(* HandleMessage.                                                          *)

Current == Program[step + 1]

Running == state = "running" /\ step < Len(Program)

(* A step without an answer: notify, whose errors are only logged, and     *)
(* every check that is passed.                                             *)
Pass ==
    /\ Running
    /\ Current # "answer"
    /\ Passes(Current)
    /\ ~Panics(Current)
    /\ step' = step + 1
    /\ deposit' = IF Current \in {"deposit", "order", "tx"} THEN Fetched ELSE deposit
    /\ UNCHANGED << request, receipt, moved, attempt, state, errChn, http >>

(* External: until the handler has waited for confirmations the chain may  *)
(* reorganise, and the transaction be mined again with other logs.         *)
Reorg ==
    /\ Running
    /\ deposit # << >>
    /\ ~moved
    /\ \E k \in step + 1 .. Len(Program) : Program[k] = "confirmations"
    /\ receipt' \in Rewrites
    /\ moved' = TRUE
    /\ UNCHANGED << request, deposit, step, attempt, state, errChn, http >>

(* LighterCheckRetry: the API does not know the transaction yet, or not    *)
(* its info; the client asks again, Retries times in all.                  *)
RetryGetTx ==
    /\ Running
    /\ Current = "tx"
    /\ attempt + 1 < Retries
    /\ attempt' = attempt + 1
    /\ UNCHANGED << request, receipt, deposit, moved, step, state, errChn, http >>

(* Mutant: ErrChn has no buffer.                                           *)
NoBuffer == 0

(* The buffer of ErrChn.                                                   *)
Buffer == 1

(* A send on ErrChn blocks while the buffer is full.                       *)
CanSend == Len(errChn) < Buffer

(* data.ErrChn <- nil.                                                     *)
Answer ==
    /\ Running
    /\ Current = "answer"
    /\ IF CanSend
         THEN /\ errChn' = Append(errChn, "accepted")
              /\ step' = step + 1
              /\ UNCHANGED state
         ELSE /\ state' = "blocked"
              /\ UNCHANGED << errChn, step >>
    /\ UNCHANGED << request, receipt, deposit, moved, attempt, http >>

(* Mutant: a check that fails before the relayers are notified only        *)
(* returns its error.                                                      *)
ReportsOnceNotified ==
    /\ request.protocol # "unlock"
    /\ \E k \in 1 .. step : Program[k] = "notify"
    /\ \E k \in step + 1 .. Len(Program) : Program[k] = "answer"

(* Who reports an error: nobody for an unlock, every step before the       *)
(* answer, and for Lighter the hash after it too.                          *)
Reports ==
    /\ request.protocol # "unlock"
    /\ \/ \E k \in step + 1 .. Len(Program) : Program[k] = "answer"
       \/ request.protocol = "lighter" /\ Current = "hash"

(* A check is not passed, or an external call fails: HandleMessage sends   *)
(* the error and returns.                                                  *)
Fail ==
    /\ Running
    /\ Current \notin {"notify", "answer"}
    /\ (~Passes(Current) /\ ~Panics(Current)) \/ Current \in MayFail
    /\ state' = IF Reports /\ ~CanSend THEN "blocked" ELSE "failed"
    /\ errChn' = IF Reports /\ CanSend THEN Append(errChn, "rejected") ELSE errChn
    /\ UNCHANGED << request, receipt, deposit, moved, step, attempt, http >>

(* Nothing recovers: the relayer's process ends, and with it the call.     *)
Panic ==
    /\ Running
    /\ Panics(Current)
    /\ state' = "panicked"
    /\ http' = IF http = "waiting" THEN "dropped" ELSE http
    /\ UNCHANGED << request, receipt, deposit, moved, step, attempt, errChn >>

(* The hash is handed to NewSigning and Execute.                           *)
Execute ==
    /\ state = "running"
    /\ step = Len(Program)
    /\ state' = "executed"
    /\ UNCHANGED << request, receipt, deposit, moved, step, attempt, errChn, http >>

(* HandleSigning takes one answer from ErrChn; a send that waited for it,  *)
(* and only an error is sent with the buffer full, goes through.           *)
TakeAnswer ==
    /\ http = "waiting"
    /\ errChn # << >>
    /\ http' = Head(errChn)
    /\ errChn' = Tail(errChn) \o (IF state = "blocked" THEN << "rejected" >> ELSE << >>)
    /\ state' = IF state = "blocked" THEN "failed" ELSE state
    /\ UNCHANGED << request, receipt, deposit, moved, step, attempt >>

(* HandleUnlock waits for the signature, which an executed process may     *)
(* produce, or for SIGNATURE_TIMEOUT.                                      *)
UnlockReply ==
    /\ http = "waiting"
    /\ request.protocol = "unlock"
    /\ state # "posted"
    /\ http' \in {"timeout"} \cup (IF state = "executed" THEN {"accepted"} ELSE {})
    /\ UNCHANGED << request, receipt, deposit, moved, step, attempt, state, errChn >>

Handler == Pass \/ RetryGetTx \/ Answer \/ Fail \/ Panic \/ Execute

Call == HandleSigning \/ TakeAnswer \/ UnlockReply

Next == Call \/ ReceiveMessage \/ Handler \/ Reorg

Spec == Init /\ [][Next]_vars

(* The HTTP goroutine, the relayer core's and the handler's are scheduled, *)
(* and external calls return.  Receipts and prices are asked for with a    *)
(* timeout; that the Lighter client, the hub pool and LatestBlock answer   *)
(* is assumed, for the code sets them none.                                *)
Fairness == WF_vars(Call) /\ WF_vars(ReceiveMessage) /\ WF_vars(Handler)

FairSpec == Spec /\ Fairness

-----------------------------------------------------------------------------
(* Properties.                                                             *)

TypeOK ==
    /\ request \in Requests
    /\ receipt \in Receipts \cup Rewrites
    /\ deposit \in Log \cup {<< >>}
    /\ moved \in BOOLEAN
    /\ step \in 0 .. Len(Program)
    /\ attempt \in 0 .. Retries - 1
    /\ state \in {"posted", "queued", "running", "blocked"} \cup Final
    /\ errChn \in {<< >>} \cup { << a >> : a \in {"accepted", "rejected"} }
    /\ http \in {"none", "waiting", "refused", "dropped", "timeout", "accepted",
                  "rejected"}

(* What was read covers what the hash commits to: Across and LiFi lend, on *)
(* the chain and in a token the deposit asked for names, no more than the  *)
(* log says was put in, in exact and not in rounded units; Lighter lends   *)
(* exactly what a transfer within the buckets repays; a liquidation is of  *)
(* a token that has a liquidator.  The log is one of the transaction,      *)
(* unless that moved after it was read: it is not read again.              *)
Covered ==
    LET hash == UnlockHash
        here == TokenStore[request.chain]
        there == TokenStore[deposit.dest]
    IN  /\ request.protocol \in {"across", "lifi"} =>
            /\ moved \/ \E i \in DOMAIN receipt : receipt[i] = deposit
            /\ ~deposit.removed /\ deposit.id = request.id
            /\ hash.chain = deposit.dest
            /\ \/ hash.token = deposit.token
               \/ request.protocol = "across" /\ hash.token = deposit.output
            /\ deposit.token \in DOMAIN here \cap DOMAIN there
            /\ hash.amount * 10 ^ here[deposit.token]
                 <= deposit.amount * 10 ^ there[deposit.token]
        /\ request.protocol = "lighter" =>
            /\ deposit.valid
            /\ hash.amount = deposit.amount
            /\ hash.amount < Max(Buckets) * 10 ^ UsdcDecimals
        /\ request.protocol = "sprinter" => hash.token \in Liquidators[request.chain]

(* The money is there: what was read covers the hash, and the contract     *)
(* that holds the money has said so.                                       *)
PaidFor ==
    /\ Covered
    /\ request.protocol \in {"across", "lifi"} => deposit.emitter = "configured"

(* The exception: fetchDepositByHash does not look at the contract that    *)
(* emitted the log, so that an Across deposit may be none of the pool's.   *)
EmitterUnchecked == request.protocol = "across" /\ deposit.emitter # "configured"

(* Whatever is handed to Execute is paid for, whichever of the checks are  *)
(* made in which order and however the amount is rounded; but for Across,  *)
(* where the log read covers it and may be of any contract                 *)
(* (HandleMessage, ScaleTokenAmount, fetchDepositByHash, fetchOpenEvent,   *)
(* verifyOrder, verifyWithdrawal).                                         *)
SignedIsPaidFor ==
    state = "executed" => PaidFor \/ (Covered /\ EmitterUnchecked)

(* The HTTP status tells what became of the request, whichever step of the *)
(* handler failed and whenever the answer is read: 202 only for a request  *)
(* that is paid for, with the same exception, and an error only when       *)
(* nothing is executed (HandleSigning, HandleMessage).                     *)
StatusIsTrue ==
    /\ http = "accepted" => PaidFor \/ (Covered /\ EmitterUnchecked)
    /\ http = "rejected" => state = "failed"

(* Lighter reports an error of the hash after it has answered.             *)
SecondAnswer ==
    state = "blocked" /\ request.protocol = "lighter" /\ Current = "hash"

(* HandleMessage returns or gets to Execute, also if nobody reads ErrChn,  *)
(* as for a request that came from another relayer; the one send that may  *)
(* wait for ever is Lighter's second (Listen, HandleMessage).              *)
HandlerReturns == <>(state \in Final \/ SecondAnswer)

(* Every HTTP call is answered, whichever check fails at whichever step    *)
(* and however often the Lighter API is asked; the one call that waits for *)
(* ever asks to sign for a protocol that its supported chain has no        *)
(* handler for (HandleSigning, HandleUnlock, HandleMessage).               *)
CallAnswered ==
    <>[](http = "waiting" => state = "unrouted" /\ request.protocol # "unlock")

=============================================================================
