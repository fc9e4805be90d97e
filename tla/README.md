# A TLA+ development of sprinter-signing

sprinter-signing is a network of relayers that hold shares of one ECDSA key.
A solver posts a request to any relayer; that relayer broadcasts it, every
relayer checks the deposit behind it on chain, and threshold+1 of them sign.
These modules model the relayer's own logic: the session handshake, the
keyshare and its lock, the key's life through refreshes and crashes, streams and
message dispatch, the way of a request through the network, the checks each
protocol makes, and the wait for confirmations.
The threshold signature protocol (tss-lib), libp2p, the chains and the HTTP
services are external and modelled by what the code relies on.

## Inventory

| Component | State it keeps | Operations | Hard because |
|---|---|---|---|
| TSS coordinator `tss/coordinator.go` | `pendingProcesses`; per Execute: ready peers, context, channels | Execute, initiate, waitForStart, watchExecution, startProcess | several relayers, lost, late and repeated messages, timeouts, goroutines that outlive their Execute, a non-blocking send |
| Signing process `tss/ecdsa/signing` | key, subset, Started flag, party | NewSigning, Ready, StartParams, Run, Stop, processEndMessage, distributeSignature | outdated keys, repeated starts |
| Keygen, resharing `tss/ecdsa/{keygen,resharing}` | the lock they take, the key they read | constructors, Ready, ValidCoordinators, StartParams, validateStartParams, Run, Stop, processEndMessage | lock in one goroutine, unlock in another, Stop called twice; relayers whose keyshares differ |
| Keyshare store `keyshare/ecdsa.go` | mutex, file | Lock, Unlock, Store, Get | truncation before writing, crashes |
| Event listener `chains/evm/listener/tss.go` | none | HandleEvents of keygen and refresh | long jobs, one at a time; topology, gate, peerstore and key change one after the other, with failures in between |
| Topology, gate, peerstore `topology`, `comm/p2p/{gater,host}.go` | topology file, gate, peerstore | NetworkTopology, StoreTopology, SetTopology, LoadPeers | every relayer changes its own, and reads it again after a crash |
| Election `comm/elector` | none | Coordinator | every relayer elects from the keyshare it holds |
| Subscriptions `comm/p2p/subscription.go`, `comm/subID.go` | session -> type -> key -> channel | Subscribe, UnSubscribe, GetSubscribers | identifiers that are taken apart at dashes, goroutines that send later |
| P2P `comm/p2p/libp2p.go`, `manager.go` | streams by peer | Broadcast, sendMessage, Stream, CloseStream, ProcessMessagesFromStream | goroutines that share a stream, write to it without a lock and close each other's; losses |
| Message handlers `chains/evm/message`, `chains/lighter/message` | none; an error channel per request | HandleMessage, Listen, notify | many calls that fail, one answer on every path |
| Confirmation watcher `confirmations.go` | none | WaitFor...Confirmations | lagging nodes, reorganisations, unsigned arithmetic |
| HTTP API `api/handlers` | none | HandleSigning, HandleUnlock, HandleRequest | waits without a timeout |
| Signature cache `cache/signature.go` | one signature per session id, with a time to live | Watch, Subscribe | one id for several requests |
| Prices, configuration, metrics, CLI | a price cache | - | not modelled, see the end |

How they interact: an HTTP handler puts a message on a channel that the relayer
core hands to the protocol's HandleMessage; that broadcasts the request
(`notify`), checks it, answers the HTTP call through `ErrChn`, builds a signing
process (which reads the keyshare under the lock) and runs it through
`Coordinator.Execute`. The coordinators talk through `Communication`, whose
reader looks up subscribers and starts a goroutine for each. The signature goes
to the cache of the signer by a channel and to all others by broadcast; status
streams poll the cache. Keygen and refresh events run the other two processes
through the same coordinator, without naming its leader; a refresh also replaces
the topology, which decides whom a relayer connects to and waits for.

What makes each correct is the list of properties below; what is hard to test
is listed, line by line, under `hazards` in PROJECT.json.

## Modules

Each module has its state as variables, one action per operation or step of a
handler, and its properties at the end. Definitions named "Mutant" are the
plausible bugs with which each property is tested; nothing else uses them.

**TssSession** - one session (one session id) on all relayers. `loop[p]` says
where the goroutine of `start` is: `select` is its select statement, `busy` a
Broadcast or the end of a case during which a send on `errChn` is lost,
`starting` the broadcast of the start message (the ready peers are already
counted, the goroutine is not yet started), `idle` no Execute. `attempt[p]`
counts Executes (a retried request); `coord[p][a]` is the coordinator each was
given. `spawned` are the `go startProcess` calls that have not run; they survive
their Execute. `party[p][a]` is the process of attempt `a`, with the subset it
runs with. Messages are a set: a message that stays is a late one or, with
`Duplicating`, a repeated one; a lost message is one never delivered. tss-lib is
`ProtocolCanEnd`: a party can end only if all members of its subset have started
a party for that subset. Signing's own `Ready` (exactly threshold+1 of the ready
peers that hold the key), `StartParams` (the first threshold+1 by session hash,
whose order is `Rank`) and `readyParticipants` are operators.

**AbstractSession** - what a session promises: relayers join under a coordinator,
it announces threshold+1 of those that did, members of an announced subset sign.
TssSession implements it (ImplementsSession; the refinement mapping reads the
joins off the attempts, the announcements off `announced` and the signatures off
the parties), and so does SigningRequests, which leaves the handshake out. Both
runs check the same specification, and thus the short session of SigningRequests
allows nothing that the promise does not.

**KeyshareLock** - one relayer's mutex and keyshare file. A Go mutex has no
owner: `mu` remembers the last locker so that properties can speak of it, but
`UnlockKeyshare` ignores it, and unlocking an unlocked mutex sets `fatal`. A job
is one keygen or refresh event, with the Execute of the listener (`exec`) and the
goroutine of its process (`run`). `Faults` selects what may go wrong: timeouts,
outcomes dropped by `startProcess`, failing processes and writes. A crash keeps
only the file.

**KeyRefresh** - the key and the topology of the whole network. Event 1 is the
keygen, event e > 1 a refresh under topology e, and a keyshare is named after the
event that made it. The admin uploads a topology and then emits the event; each
relayer goes through block ranges on its own (`seen`), fetches and stores the
topology (`file`), sets gate and peerstore (`peerstore`) and executes a resharing
with the keyshare it has (`held`). It elects a coordinator from the peers of that
keyshare, so that relayers which missed a refresh elect another one, and a new
relayer follows anybody. `Ready` wants all peers of the peerstore, and
`validateStartParams` compares the old peers with the relayer's own. A start
message and the Run it leads to are one step, the end of a party and the return of
Execute another; what happens between is TssSession's and KeyshareLock's subject.
Faults: a topology that cannot be fetched or stored, a torn keyshare file, a
crash, a timeout. A restart reads the topology file, or fetches whatever topology
is served by then, and starts at the head block: events in between are missed.

**Subscriptions** - the map of subscribers with a clock instead of
`time.Now().UnixNano()`. A session id with a dash makes the identifier
unreadable: it is filed under the empty key (0), and UnSubscribe returns early.

**P2P** - extends Subscriptions by the way of the messages: sendMessage of several
goroutines to one peer, the stream manager, the stream and its reader. `Stream`
and the map access of `CloseStream` are each one step under the lock; write and
close are steps outside it. A long message goes out in two frames; `Intact` says
whether the reader gets a message or two that were cut into each other, in which
case it returns and never reads that stream again (`deaf`).

**SigningRequests** - requests of one session id on all relayers: HTTP call,
handler of every relayer and coordinator, pending process, session, distribution,
cache and status streams. The session is abstracted to what TssSession shows: a
coordinator announces threshold+1 relayers, itself among them, that executed the
session under it - not necessarily for the same request, for ready messages do
not name it; a signature only comes about if they did.

**RequestChecks** - one request on one relayer, from the HTTP call (validate, the
supported chains) or the broadcast over the handlers that `app.go` registers to
HandleMessage: each protocol is a sequence of steps, with the checks in the order
of the code, the answer on `ErrChn` where the code sends it, and the buffer of that
channel. The deposit is read once (`deposit`); until the handler has waited for
confirmations the transaction may be mined again with other logs (`Reorg`). A log
has an emitter: the contract the chain is configured with, or any other. LiFi's
fetcher looks at it, Across's does not (`Matches`). A step may panic instead of
failing (`Panics`), which ends the relayer. What is signed is a record of what the
hash commits to (`UnlockHash`). `Covered` says that the log that was read covers
that record, `PaidFor` that the configured contract emitted it besides, so that the
money is there. SignedIsPaidFor and StatusIsTrue demand PaidFor, and only Covered of
an Across log of another contract, an exception with a name (`EmitterUnchecked`).

**Confirmations** - one wait against a chain. `Word` is 2^64; the arithmetic of
`wait` is done modulo it, with the sign lost by `big.Int.Uint64` and read again
by `time.Duration`.

The modules `MC...` give the constants their values for TLC. The modules
`...Proofs` hold the theorems.

## Runs

| Run | Checks | Bounds |
|---|---|---|
| SessionRivals | SubsetSound, OneSubsetPerAttempt, PartyFollowsCoordinator, SignatureHasQuorum, SessionInv, PartyStartsOnce, ImplementsSession | 3 relayers, threshold 1, two coordinators, one with an outdated key; one relayer executes twice and may time out, one party may fail; messages repeated at will |
| SessionReturns | ExecuteReturns (fair) | 3 relayers, one attempt, all may time out |
| SessionReliable | SubsetStarts (fair, nothing lost) | 3 relayers, one coordinator |
| KeyshareFaults | LockHeld, NoTornRead, KeyshareInv, JobsReturn, LockReleased (fair) | 3 events, 2 signings, 1 crash, every fault |
| KeyshareTimeout | NoFatalUnlock: violated | 1 event |
| KeyRefresh | RefreshInv, OneCoordinator, PartiesAgree, TopologyNotBehindKey, KeyKept, RefreshRuns (fair) | a keygen and two refreshes, 3 relayers and a fourth that joins, threshold 1; one fault on one relayer, one timeout on another, two orders of the last election |
| P2PDelivery | SubscriptionsInv, ExactDelivery, LatestDelivery, StreamsInv, NoStreamLeaks, SentIsNotLost, ErrorsNeedFaults | 3 senders (one long message), 1 reset or failing dial, 2 channels (symmetric), 2 sessions |
| SubscriptionsUnsubscribe | UnsubscribedIsGone: violated | 3 channels, 3 messages |
| RequestsRivals | AcceptedIsPursued, RequestsInv, ImplementsSession | 3 relayers, a borrow and an unlock of one order posted to one relayer, whose checks and processes may fail; another times out, one cache expires |
| RequestsCalls | SignedIsValidated, SignatureSpreads (fair) | a genuine, a forged and an unpayable request on two relayers, one with failing checks; one status stream |
| Confirmations | ConfirmedIsDeep, SleepIsBounded, WaitReturns (fair) | chains up to 6 blocks, reorganisations of 2, lag up to 5, buckets at 1, 2 and 4 dollars, values on both sides of each, words of 8 bits |
| RequestChecks | SignedIsPaidFor, StatusIsTrue, HandlerReturns, CallAnswered (fair) | all protocols, posted and broadcast, on chains with and without a handler; receipts of up to two logs, of the configured and of another contract, and one rewriting; tokens with 0, 1 and 2 decimals |

Why the bounds are enough for what they are to show: three relayers with
threshold 1 are the smallest network in which a subset leaves somebody out and two
coordinators can choose different subsets; two attempts are needed for a late
goroutine or message to meet a newer Execute. Three jobs let a leftover of the
first meet the third while a signing waits. Two refreshes let a relayer come to the
second with the keyshare of the first, of the keygen, or none; the orders of the
last election are those in which the relayers then disagree and in which the one
everybody elects may be without a keyshare. Three senders are needed for one to
close the stream a second opened after a reset while a third writes to it. Two
channels let one overwrite the other. Words of 8 bits wrap within the chain's length.
Only one request of RequestsCalls can be executed: that the requests of one id are
not mixed up in a signature is checked by RequestsInv in RequestsRivals, which has
SignedIsValidated as a part. RequestsCalls has no unlocks, so the exception of
SignatureSpreads, the signer of an unlock, does not come up in it.
All safety properties are also proved without these bounds (see Proofs).
Deadlock is not checked: all models have behaviours that end (requests, attempts
and blocks are bounded, and a session is over at some point).

### What the violated properties say

* NoFatalUnlock: `watchExecution` stops a process that times out and Execute's
  deferred function stops it again. Stop of keygen and resharing unlocks the
  mutex every time, and so a timeout ends the program or, if a signing has
  locked it in between, takes the lock from it.
* UnsubscribedIsGone: every tss session id has a dash, and its subscriptions are
  never removed, only overwritten by the next one to the same topic.

### Observations without a run of their own

* The comment of LockKeyshare speaks of preventing other tss processes in
  parallel; Signing holds the lock only in its constructor, and so a resharing may
  run beside a signing session. The keyshare file is still never read half-written
  (NoTornRead).
* A request may be answered with 202 and then be refused because a process with
  its session id is pending. AcceptedIsPursued says what the 202 still promises: the
  pending process is another request's, which this relayer does execute.
* Across takes a FundsDeposited log with the right id from any contract
  (`protocol/across/deposit.go:66-88`), where LiFi compares the emitter with its input
  settler (`protocol/lifi/event.go:65`). A log of a contract that holds no money is
  signed for, and that is the exception EmitterUnchecked of SignedIsPaidFor and
  StatusIsTrue. No comment or document of the repository says that the emitter is
  checked.
* A deposit id of an Across request that is no number becomes nil
  (`api/handlers/signing.go:77`), and the relayer panics at the first log of a deposit
  (`protocol/across/deposit.go:79`), as do those it was broadcast to. A memo of a
  Lighter transfer that is shorter than an address panics, too
  (`chains/lighter/message/lighter.go:182`), after the call was answered.
* ConfirmedIsDeep excepts a transaction that moved to another block between the
  receipt and the latest block of one turn of the loop.
* A borrow and an unlock of a LiFi order share the session id
  (`unlock.go:70`, `lifiEscrow.go:179`), and distributeSignature broadcasts either
  signature under that id: a status stream, which waits for "the signing
  signature", may return the unlock's. SignedIsValidated only says that it is a
  signature of a request that was validated.
* A supported chain without a handler for the request's protocol: the relayer core
  logs it, and the HTTP call waits for ever (the exception in CallAnswered). A
  request of another protocol for the Lighter chain reaches Lighter's handler,
  whose type assertion panics. A chain that only has liquidators is refused as not
  supported.
* Across signs for the token the deposit asks for and compares the amount with the
  counterpart of the deposited token (SignedIsPaidFor allows either token). A
  destination that is in the token store but not among the configured pools or
  settlers is signed for with the zero address as target.
* The deposit's log is not read again after the wait: SignedIsPaidFor excepts a
  transaction that was mined again in between.
* KeyKept needs the members common to two topologies to outnumber both thresholds
  together. With fewer, relayers that stop before they have stored their new
  keyshare may leave neither the old nor the new key with enough shares.
* A relayer that is elected but has lost its keyshare, or missed the keygen, takes
  no part as coordinator, and the refresh of everybody times out; RefreshRuns is
  about events before which nothing has gone wrong. A refresh event is missed for
  good by a relayer that is down, that finds another topology served by then, or
  that meets it as the second in one range of blocks.
* validateStartParams compares sets of peers: keyshares of two refreshes with the
  same members pass for each other, and only tss-lib finds out. It also lets as
  many old peers as the threshold pass, where one more is needed; tss-lib refuses
  (ProtocolCanEnd), and the keyshares stay as they are.
* After one reset the sender that fails closes the stream another has opened since,
  so that one fault may fail several messages (ErrorsNeedFaults only says that
  there was one). Long messages written to one stream at once may be cut into each
  other; the receiver then stops reading it, and later messages are lost without an
  error (the last case of SentIsNotLost).
* After a timeout a keygen's goroutine may lock the keyshare when nobody is left
  to unlock it; all claims about the lock stop at the first timeout.

## Fairness

TssSession: timers fire, goroutines and broadcasts get on (weak fairness), and
select does not overlook a ready case for ever, for Go picks among the ready
cases at random (strong fairness of Return, since the loop leaves its select
statement again and again). Nothing forces a delivery, a party's progress or an
Execute. SessionReliable in addition assumes what its name says: messages to a
subscribed relayer are handled, every relayer executes, tickers fire.
KeyshareLock: handshakes succeed and Go's mutex does not starve a waiter (strong
fairness of the lock operations; it hands over after a millisecond); no fairness
of events, faults or crashes. The liveness properties are claimed for behaviours
without a timeout. KeyRefresh: handlers go on and what is sent to a relayer that
executes the session arrives, for initiate repeats its message until all have
answered; parties need not end, and no event need come. SigningRequests: signatures
in flight arrive and are cached, and nothing else: requests may be lost, checks and
sessions need not end. Confirmations: the goroutine runs and time
passes; the chain need not grow. RequestChecks: handler, relayer core and HTTP
goroutine run, and external calls return. For receipts and prices the code sees to
that with a timeout; the Lighter client (`protocol/lighter/api.go:80-91`), the hub
pool and LatestBlock are given none, and that they answer is an assumption of
HandlerReturns and CallAnswered. P2P has safety properties only.

## Proofs

Every safety invariant, action property and refinement that a passing run checks
is also a theorem: it holds for every value of the constants under the ASSUMEs of
the modules. The inductive invariants are checked by TLC too (those that a run
lists, and ChecksInv, whose parts say how far a handler has come).

* **TssSessionProofs**: `SessionInvariant` (SessionInv is inductive) and from it
  SubsetSound, OneSubsetPerAttempt, PartyFollowsCoordinator, SignatureHasQuorum;
  `PartiesStartOnce` is the action property. SubsetSound alone is not inductive: that the
  members of a subset joined must be traced back over `ready` to the ready
  messages in flight (ReadyInv), that a party's subset was announced over the
  goroutines and start messages (StartInv), and that nothing of a later attempt
  exists yet (LoopInv). OneSubsetPerAttempt rests on an argument about sets: the
  ready peers only grow, `Ready` demands exactly threshold+1 of them, so whenever
  it holds again the participants are the same set.
  `SessionRefinement` shows that the session implements AbstractSession: under the
  mapping, Execute is a join, the broadcast of the start message an announcement
  (or a stutter, when the same subset is announced again), the end of a party a
  signature, and all else a stutter. That what is announced joined and what is
  signed was announced comes from SessionInv.
* **KeyshareLockProofs**: `KeyshareInvariant`; LockHeld needs that the listener has one job
  at a time and that, until a timeout, no goroutine survives its Execute
  (JobsInv). NoTornRead follows: a writer owns the lock, and the listener is busy.
* **KeyRefreshProofs**: `RefreshInvariant` for any network, any sequence of
  topologies, any orders of election and any faults, and from it
  `SingleCoordinator`, `PartiesRunTogether`, `TopologyIsCurrent`. The invariant has
  three parts with a proof each. A relayer's own variables are consistent, one relayer at a
  time (HandlerInv, SeenInv, TopologyNotBehindKey). Messages are justified: a start
  message by a ready message of every other member, a ready message by what its
  sender elected. Two coordinators of one session would each have answered the
  other, but a relayer that elects itself answers nobody; a keyshare is read once for an event, so
  neither justification is lost later. And KeysInv says where a keyshare comes from.
  `KeyIsKept` is the action property that enough relayers always hold keyshares of one
  refresh: the common members of the latest key and of the one it was made from
  hold one of the two, and by Overlap they are too many for both to fall short.
  Overlap is a hypothesis of this theorem alone; the code does not check it.
* **SubscriptionsProofs**: `SubscriptionsInvariant`; the clock gives every subscription
  another key (ClockInv), and the map files each one under its own key, or under
  the empty one the last (MapInv).
* **P2PProofs**: `StreamsInvariant` for any number of senders, long messages and
  faults, and from it `StreamsAreKept`, `MessagesAreKept`, `ErrorsAreFaults`.
  PipeInv and SenderInv follow the pieces of every message: no piece is in a pipe
  twice, the last one of a long message comes after its first, and the first one
  waits in the pipe until the rest is written. So a frame that is not one message
  holds the first piece of one that another cut into, which is the witness for the last case
  of SentIsNotLost. OpenedInv counts: a sender opens at most one stream, so that
  there is always one left in the finite set of Streams and the bound of the model
  excludes no behaviour. `StreamsFeedSubscriptions` is the composition: every
  behaviour of streams and receiver is one of Subscriptions, and so
  `DeliveryOverStreams` follows from the theorems about Subscriptions.
* **SigningRequestsProofs**: `RequestsInvariant`; a signature is traced back to the
  parties (SignaturesInv), these to Execute and so to Validate (ValidatedInv); a
  relayer gets a request of a coordinator once (OriginInv), without which its
  handler could be reset under a running session. `AcceptedArePursued` uses the same
  fact: the handler of an accepted call is not started anew, only "validated" comes
  with an answer, and a request is refused for one that is executing, which it is not
  itself, and what was executed stays so. `RequestsRefinement` shows that
  this shorter session implements AbstractSession, too.
* **RequestChecksProofs**: `ChecksInvariant`, `ExecutedIsPaidFor`, `AnswersAreTrue`
  for any chains, tokens, decimals, buckets, receipts and requests. Each program
  reads the deposit before it judges it and judges it before it answers or
  executes (one lemma per protocol). EstablishedInv says that every step the handler
  has passed holds of the deposit it read, also if the transaction has moved since;
  AnswerInv that the buffer holds an answer only when everything before it is established.
  What is established at the end is that the signed hash is paid for, for Across only
  that it is covered by the log that was read: nothing in its program establishes the
  emitter. For this
  the scaled comparison must be exact: `ScaleTokenAmount` rounds down, and an amount
  within the rounded deposit is within the deposit in exact units (ScaledIsExact).
* **ConfirmationsProofs**: ConfirmedIsDeep, over the bucket chosen at the start and
  the fact that a block that stays in the chain only gets deeper. It rests on an arithmetic
  lemma: the truncated value is under a bound in dollars exactly if the value is
  in cents. `SleepsAreShort`: while confirmations are missing the product of unsigned
  words is the time they take, or its remainder, which is no larger; when the node
  that answers is behind the receipt by more blocks than are required the difference
  wraps, and the Duration it becomes is negative, so that the watcher asks again at
  once. The lemmas about
  remainders are there because the prover's arithmetic is linear.

The assumptions. Most are types: finite sets of relayers and senders, natural
thresholds and depths, ranks that tell relayers apart, subsets where the code has
subsets. Five say more. A topology has a threshold of at least 1, which
ProcessRawTopology enforces (TopologyAssumption). The Lighter chain has no pool and no settler, and
those are configured for known chains only (ChecksAssumption). The table of buckets has a largest one, as every
finite table has (BucketsAssumption of RequestChecks). 10^m = 10^(m-n) * 10^n for the decimals that
occur (PowersAssumption): no installed prover knows what `^` is, so the law is an assumption, which TLC evaluates. And no
node is behind by more blocks than a Duration holds, 292 years (LagAssumption): a
difference beyond that would be read as a positive sleep again.
Where an argument would be an induction (the least bucket, the latest keyshare, the
first log, a stream nobody has opened), the proofs use that a non-empty set of numbers has a least element
(WellFoundedInduction's WFMin), which has no operator to instantiate.

Only model-checked: the liveness properties (ExecuteReturns, SubsetStarts,
JobsReturn, LockReleased, RefreshRuns, SignatureSpreads,
WaitReturns, HandlerReturns, CallAnswered), for fairness is out of the prover's
reach, and the two violated properties, for which the counterexample is the proof.

## Not modelled

* The rounds of tss-lib, signatures and hash functions: external, modelled by when
  a party can end and by what a hash commits to.
* JSON, ABI and EIP-712 encoding, the raw topology and its decryption, request
  bodies: a message, a topology or a request has been decoded, or is garbage
  (P2P, RequestChecks.validate).
* Prices: the client's answer is any value or an error in Confirmations. Its cache
  extends an entry's life on every hit, and a symbol the service does not know has
  price 0 (`price/coinmarketcap.go:52`, `:92`); how old a price may be is a matter
  of real time that no property of the wait depends on.
* Parsing of configuration, metrics, health checks and the CLI have no state that
  another part reads. A changed configuration ends the process (Crash).
* Connections that are already open when the gate gets a new topology: whoever is
  not a member of the new topology is not part of a session in KeyRefresh.
* The TssFailMsg branch of watchExecution, for no relayer sends that message, and
  CloseSession, which does nothing.
* Assumptions of RequestChecks: an order has at least one output (verifyOrder looks
  at the first without checking that there is one), and a request has a borrow
  amount (validate does not ask for it).

## Plan

Done: all modules above with their runs, and proofs of every safety property,
action property and refinement they check. What may be worth adding:

1. That a wait cannot confirm a value the price client has misread, should the
   price cache be modelled.
2. A session that keeps TssSession's handshake and KeyRefresh's keyshares in one
   module, for a refresh that falls between two attempts of one request.
