---------------------------- MODULE Confirmations ----------------------------
(***************************************************************************)
(* The confirmation watcher (chains/evm/message/confirmations.go): one     *)
(* call of WaitForTokenConfirmations or WaitForOrderConfirmations against  *)
(* a chain that grows and reorganises, read through RPC nodes that fail    *)
(* and lag.                                                                *)
(***************************************************************************)
EXTENDS Integers, FiniteSetsExt

CONSTANTS
    Buckets,        \* the bounds of the buckets, in dollars
    BucketDepth,    \* the confirmations each bucket requires
    Values,         \* order values, in cents
    Cent,           \* cents in a dollar
    Blocktime,      \* of the chain, in units of time
    TIMEOUT,        \* of the wait, in units of time
    Word,           \* 2^64 in the code: uint64 and time.Duration wrap at it
    MaxLag,         \* bound: blocks an RPC node may be behind
    MaxReorg,       \* bound: blocks a reorganisation may replace
    MaxHead         \* bound: the length of the chain

ASSUME BucketsAssumption ==
    /\ Buckets \subseteq Nat
    /\ BucketDepth \in [Buckets -> Nat]
    /\ Values \subseteq Nat
    /\ Cent \in Nat \ {0}

ASSUME TimeAssumption ==
    /\ Blocktime \in Nat \ {0}
    /\ TIMEOUT \in Nat
    /\ Word \in Nat \ {0}

ASSUME ChainAssumption ==
    /\ MaxLag \in Nat
    /\ MaxReorg \in Nat
    /\ MaxHead \in Nat \ {0}

(* No node is behind by more than a time.Duration can hold, 292 years.     *)
ASSUME LagAssumption == 2 * (Blocktime * MaxLag) <= Word

VARIABLES
    head,       \* the latest block of the chain
    mined,      \* the block of the deposit transaction, 0 if there is none
    elapsed,    \* time since the context was made, up to TIMEOUT
    pc,         \* where the call is
    value,      \* the value of the order, in cents
    required,   \* requiredConfirmations
    receipt,    \* txReceipt.BlockNumber
    sleep       \* what is left of time.Sleep

vars == << head, mined, elapsed, pc, value, required, receipt, sleep >>

Returned == {"confirmed", "timedOut", "failed"}

TypeOK ==
    /\ head \in Nat
    /\ mined \in Nat
    /\ elapsed \in Nat
    /\ pc \in {"start", "loop", "block", "sleep"} \cup Returned
    /\ value \in Nat
    /\ required \in Nat
    /\ receipt \in Nat
    /\ sleep \in Nat

Init ==
    /\ head \in 1 .. MaxHead
    /\ mined \in 0 .. head
    /\ elapsed = 0
    /\ pc = "start"
    /\ value \in Values
    /\ required = 0
    /\ receipt = 0
    /\ sleep = 0

-----------------------------------------------------------------------------
(* The price of the order is truncated to whole dollars.                   *)
orderValue(cents) == cents \div Cent

(* Mutant: a bucket also takes the orders worth its bound.                 *)
bucketUpTo(dollars) ==
    LET larger == { b \in Buckets : dollars <= b }
    IN  IF larger = {} THEN {} ELSE { BucketDepth[Min(larger)] }

(* minimalConfirmations: of the first bucket, in order, whose bound is     *)
(* larger than the value; {} stands for the error that there is none.      *)
minimalConfirmations(dollars) ==
    LET larger == { b \in Buckets : dollars < b }
    IN  IF larger = {} THEN {} ELSE { BucketDepth[Min(larger)] }

(* The value is known unless the token or its price is not.                *)
WaitForConfirmations ==
    /\ pc = "start"
    /\ LET needed == minimalConfirmations(orderValue(value))
       IN  \/ /\ pc' = "failed"
              /\ UNCHANGED required
           \/ /\ needed # {}
              /\ pc' = "loop"
              /\ required' \in needed
    /\ UNCHANGED << head, mined, elapsed, value, receipt, sleep >>

-----------------------------------------------------------------------------
(* wait.                                                                   *)

Sleep(duration) ==
    /\ pc' = "sleep"
    /\ sleep' = duration

(* Mutant: the wait is not given the context with the timeout.             *)
ctxIgnored == FALSE

ctxDone == elapsed >= TIMEOUT

TimedOut ==
    /\ pc = "loop"
    /\ ctxDone
    /\ pc' = "timedOut"
    /\ UNCHANGED << head, mined, elapsed, value, required, receipt, sleep >>

(* No receipt, or an error: try again a block later.                       *)
TransactionReceipt ==
    /\ pc = "loop"
    /\ ~ctxDone
    /\ \/ /\ Sleep(Blocktime)
          /\ UNCHANGED receipt
       \/ /\ mined > 0
          /\ pc' = "block"
          /\ receipt' = mined
          /\ UNCHANGED sleep
    /\ UNCHANGED << head, mined, elapsed, value, required >>

(* big.Int.Uint64 drops the sign.                                          *)
Uint64(n) == (IF n < 0 THEN -n ELSE n) % Word

(* Mutant: the product is not read as a signed time.Duration.              *)
unsignedDuration(confirmations) ==
    (Blocktime * ((required - Uint64(confirmations)) % Word)) % Word

(* time.Duration is signed, and time.Sleep of a negative one returns.      *)
duration(confirmations) ==
    LET product == (Blocktime * ((required - Uint64(confirmations)) % Word)) % Word
    IN  IF 2 * product >= Word THEN 0 ELSE product

(* The node asked need not be the one that had the receipt.                *)
LatestBlock ==
    /\ pc = "block"
    /\ \/ Sleep(Blocktime)
       \/ \E lag \in 0 .. MaxLag :
            /\ lag <= head
            /\ LET confirmations == (head - lag) - receipt
               IN  IF confirmations >= required
                     THEN pc' = "confirmed" /\ UNCHANGED sleep
                     ELSE Sleep(duration(confirmations))
    /\ UNCHANGED << head, mined, elapsed, value, required, receipt >>

Wake ==
    /\ pc = "sleep"
    /\ sleep = 0
    /\ pc' = "loop"
    /\ UNCHANGED << head, mined, elapsed, value, required, receipt, sleep >>

-----------------------------------------------------------------------------
(* The chain and time, until the call returns.                             *)

(* External: a block is added, perhaps the one with the transaction.       *)
NewBlock ==
    /\ pc \notin Returned
    /\ head < MaxHead
    /\ head' = head + 1
    /\ mined' \in {mined} \cup (IF mined = 0 THEN {head + 1} ELSE {})
    /\ UNCHANGED << elapsed, pc, value, required, receipt, sleep >>

(* External: a longer chain replaces the last blocks; the transaction is   *)
(* in another of its blocks, or not yet in any.                            *)
Reorg ==
    /\ pc \notin Returned
    /\ head < MaxHead
    /\ \E depth \in 1 .. MaxReorg :
         /\ depth <= head
         /\ mined > head - depth
         /\ mined' \in {0} \cup (head - depth + 1 .. head + 1)
    /\ head' = head + 1
    /\ UNCHANGED << elapsed, pc, value, required, receipt, sleep >>

(* External: time passes.                                                  *)
Tick ==
    /\ pc \notin Returned
    /\ elapsed < TIMEOUT \/ sleep > 0
    /\ elapsed' = IF elapsed < TIMEOUT THEN elapsed + 1 ELSE elapsed
    /\ sleep' = IF sleep > 0 THEN sleep - 1 ELSE 0
    /\ UNCHANGED << head, mined, pc, value, required, receipt >>

Watcher ==
    WaitForConfirmations \/ TimedOut \/ TransactionReceipt \/ LatestBlock \/ Wake

Next == Watcher \/ NewBlock \/ Reorg \/ Tick

Spec == Init /\ [][Next]_vars

(* The goroutine is scheduled, RPC calls return and time passes; the chain *)
(* need not grow.                                                          *)
Fairness == WF_vars(Watcher) /\ WF_vars(Tick)

FairSpec == Spec /\ Fairness

-----------------------------------------------------------------------------
(* Properties.                                                             *)

(* The smallest bucket an order of this value is under, in cents: no       *)
(* truncation.                                                             *)
BucketOf(cents) ==
    { b \in Buckets : cents < b * Cent /\
                      \A a \in Buckets : cents < a * Cent => b <= a }

(* A wait that succeeds does so when the transaction is in the chain under *)
(* at least as many blocks as the bucket of the order's value asks for,    *)
(* whatever nodes lagged or failed on the way and whatever blocks were     *)
(* replaced; only a transaction moved to another block after its last      *)
(* receipt was read escapes (wait, minimalConfirmations, orderValue).      *)
ConfirmedIsDeep ==
    pc = "confirmed" /\ mined = receipt =>
        /\ mined > 0
        /\ \E b \in BucketOf(value) : head - mined >= BucketDepth[b]

(* No single sleep is longer than the required confirmations take, or one  *)
(* block if none are, also when the answers of two nodes make the number   *)
(* of confirmations negative and the unsigned difference wraps (wait).     *)
SleepIsBounded ==
    sleep <= Blocktime * (IF required = 0 THEN 1 ELSE required)

(* The wait returns, also if the transaction never gets deep enough, for   *)
(* the caller keeps the HTTP call waiting for it (wait).                   *)
WaitReturns == <>(pc \in Returned)

=============================================================================
