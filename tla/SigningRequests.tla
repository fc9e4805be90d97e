--------------------------- MODULE SigningRequests ---------------------------
(***************************************************************************)
(* The way of signing requests through the network: the HTTP handlers      *)
(* (api/handlers), the message handlers of each protocol                   *)
(* (chains/evm/message, chains/lighter/message), the distribution of the   *)
(* signature (tss/ecdsa/signing) and the signature cache (cache).          *)
(*                                                                         *)
(* All requests here are for one session id, "chain-deposit": different    *)
(* requests for one deposit (another nonce, deadline or caller), and a     *)
(* borrow and an unlock of one LiFi order, share it.  The tss session      *)
(* itself is abstracted to what TssSession shows of it: the coordinator    *)
(* announces one subset of threshold+1 relayers, itself among them, that   *)
(* have executed the session under it.  They need not have done so for the *)
(* same request, which the handshake does not mention; a signature is only *)
(* made if they have, for the parties sign the hash of their request.      *)
(***************************************************************************)
EXTENDS Integers, FiniteSets

CONSTANTS
    Relayers,
    Threshold,      \* of the key; a topology's threshold is at least 1
    Requests,       \* requests for the session id
    Lighter,        \* requests of the Lighter protocol
    Unlocks,        \* unlock requests of the LiFi protocol
    BadRepayment,   \* Across requests with an unknown repayment chain
    Genuine,        \* requests whose deposit exists and is confirmed
    Posts,          \* bound: << p, d >> if d may be posted to p
    Failing,        \* bound: relayers whose checks may fail (RPC, keyshare)
    TimingOut,      \* bound: relayers on which a session may time out
    Expiring,       \* bound: relayers whose cached signature may expire
    Watching        \* bound: relayers on which status streams are opened

ASSUME RelayersAssumption ==
    /\ IsFiniteSet(Relayers)
    /\ Failing \subseteq Relayers
    /\ TimingOut \subseteq Relayers
    /\ Expiring \subseteq Relayers
    /\ Watching \subseteq Relayers

ASSUME ThresholdAssumption == Threshold \in Nat \ {0}

ASSUME RequestsAssumption ==
    /\ Lighter \subseteq Requests
    /\ Unlocks \subseteq Requests
    /\ BadRepayment \subseteq Requests
    /\ Genuine \subseteq Requests
    /\ Posts \subseteq Relayers \X Requests

VARIABLES
    api,        \* api[p][d]: the HTTP call that posted d to p
    handler,    \* handler[p][d][c]: HandleMessage of p for d, coordinator c
    notices,    \* broadcast requests in flight
    signatures, \* broadcast signatures in flight
    cache,      \* cache[p]: the cached signature of the session, or {}
    answers,    \* answers[p]: signatures the status streams of p returned
    subset      \* subset[d][c]: the signers c announced for d, or {}

vars == << api, handler, notices, signatures, cache, answers, subset >>

ApiStates == {"none", "waiting", "accepted", "rejected"}

HandlerStates == {"none", "received", "checking", "failed", "validated",
                  "refused", "executing", "timedOut", "excluded", "signed"}

Notice == [data : Requests, coordinator : Relayers, to : Relayers]

(* A signature stands for the request whose hash was signed.               *)
SignatureMsg == [data : Requests, to : Relayers]

TypeOK ==
    /\ api \in [Relayers -> [Requests -> ApiStates]]
    /\ handler \in [Relayers -> [Requests -> [Relayers -> HandlerStates]]]
    /\ notices \subseteq Notice
    /\ signatures \subseteq SignatureMsg
    /\ cache \in [Relayers -> SUBSET Requests]
    /\ answers \in [Relayers -> SUBSET Requests]
    /\ subset \in [Requests -> [Relayers -> SUBSET Relayers]]

Init ==
    /\ api = [p \in Relayers |-> [d \in Requests |-> "none"]]
    /\ handler = [p \in Relayers |->
                    [d \in Requests |-> [c \in Relayers |-> "none"]]]
    /\ notices = {}
    /\ signatures = {}
    /\ cache = [p \in Relayers |-> {}]
    /\ answers = [p \in Relayers |-> {}]
    /\ subset = [d \in Requests |-> [c \in Relayers |-> {}]]

-----------------------------------------------------------------------------
(* The HTTP call is answered through ErrChn; requests that came from       *)
(* another relayer have a channel nobody reads, unlocks have none.         *)
Reply(p, d, c, answer) ==
    api' = IF p = c /\ d \notin Unlocks
             THEN [api EXCEPT ![p][d] = answer]
             ELSE api

Move(p, d, c, state) == handler' = [handler EXCEPT ![p][d][c] = state]

(* HandleSigning and HandleUnlock: the message handler of this relayer     *)
(* gets the request without a coordinator, and the call waits.             *)
HandleSigning(p, d) ==
    /\ << p, d >> \in Posts
    /\ api[p][d] = "none"
    /\ api' = [api EXCEPT ![p][d] = "waiting"]
    /\ Move(p, d, p, "received")
    /\ UNCHANGED << notices, signatures, cache, answers, subset >>

(* Listen: a goroutine for each request, but for Lighter, where the next   *)
(* message is only taken when HandleMessage has returned.                  *)
InProgress(p, d, c) ==
    handler[p][d][c] \in {"received", "checking", "validated", "executing"}

Listen(q, n) ==
    LET d == n.data
        c == n.coordinator
    IN  /\ n.to = q
        /\ d \in Lighter => \A e \in Lighter, b \in Relayers :
             InProgress(q, e, b) => b = q
        /\ notices' = notices \ {n}
        /\ Move(q, d, c, "received")
        /\ UNCHANGED << api, signatures, cache, answers, subset >>

(* Mutant: the coordinator already in the request is overwritten.          *)
NotifyAlways(p, d, c) ==
    /\ handler[p][d][c] = "received"
    /\ d \notin BadRepayment
    /\ Move(p, d, c, "checking")
    /\ notices' = notices \cup { [data |-> d, coordinator |-> p, to |-> q] :
                                    q \in Relayers \ {p} }
    /\ UNCHANGED << api, signatures, cache, answers, subset >>

(* notify: the relayer the request was posted to makes itself coordinator  *)
(* and broadcasts the request; any other leaves it at that.                *)
Notify(p, d, c) ==
    /\ handler[p][d][c] = "received"
    /\ d \notin BadRepayment
    /\ Move(p, d, c, "checking")
    /\ notices' = IF p = c
                    THEN notices \cup { [data |-> d, coordinator |-> p, to |-> q] :
                                          q \in Relayers \ {p} }
                    ELSE notices
    /\ UNCHANGED << api, signatures, cache, answers, subset >>

(* Across: an unknown repayment chain is refused before notify.            *)
RejectRepayment(p, d, c) ==
    /\ handler[p][d][c] = "received"
    /\ d \in BadRepayment
    /\ Move(p, d, c, "failed")
    /\ Reply(p, d, c, "rejected")
    /\ UNCHANGED << notices, signatures, cache, answers, subset >>

(* Mutant: the borrow amount is not compared with the deposit.             *)
ValidateUnchecked(p, d, c) ==
    /\ handler[p][d][c] = "checking"
    /\ Move(p, d, c, "validated")
    /\ Reply(p, d, c, "accepted")
    /\ UNCHANGED << notices, signatures, cache, answers, subset >>

(* The relayer has fetched the deposit itself, has checked it and has      *)
(* waited for its confirmations: the call is answered before the session   *)
(* is executed.  An unlock is not checked.                                 *)
Validate(p, d, c) ==
    /\ handler[p][d][c] = "checking"
    /\ d \in Genuine \cup Unlocks
    /\ Move(p, d, c, "validated")
    /\ Reply(p, d, c, "accepted")
    /\ UNCHANGED << notices, signatures, cache, answers, subset >>

(* A check fails or cannot be made.                                        *)
CheckFails(p, d, c) ==
    /\ handler[p][d][c] = "checking"
    /\ d \notin Genuine \cup Unlocks \/ p \in Failing
    /\ Move(p, d, c, "failed")
    /\ Reply(p, d, c, "rejected")
    /\ UNCHANGED << notices, signatures, cache, answers, subset >>

(* Mutant: a process is entered as pending before Execute has looked       *)
(* whether there is one.                                                   *)
PendingItself(p) ==
    \E d \in Requests, c \in Relayers : handler[p][d][c] \in {"validated", "executing"}

(* pendingProcesses of the coordinator: one process for each session id.   *)
Pending(p) == \E d \in Requests, c \in Relayers : handler[p][d][c] = "executing"

(* NewSigning and Execute: refused while the session is pending.           *)
Execute(p, d, c) ==
    /\ handler[p][d][c] = "validated"
    /\ Move(p, d, c, IF Pending(p) THEN "refused" ELSE "executing")
    /\ UNCHANGED << api, notices, signatures, cache, answers, subset >>

(* NewSigning fails without a keyshare; calldata or hash may fail before.  *)
NewSigningFails(p, d, c) ==
    /\ handler[p][d][c] = "validated"
    /\ p \in Failing
    /\ Move(p, d, c, "failed")
    /\ UNCHANGED << api, notices, signatures, cache, answers, subset >>

Executed(p, d, c) ==
    handler[p][d][c] \in {"executing", "timedOut", "excluded", "signed"}

(* threshold+1 relayers run a party for d under c.                         *)
Quorum(d, c, S) ==
    /\ S \subseteq Relayers
    /\ Cardinality(S) = Threshold + 1
    /\ c \in S
    /\ \A q \in S : Executed(q, d, c)

(* q has answered c that it is ready, for whichever request.               *)
Joined(q, c) == \E e \in Requests : Executed(q, e, c)

(* Mutant: a relayer that was sent the request counts as ready.            *)
SubsetOfNotified(c, S) ==
    /\ S \subseteq Relayers
    /\ Cardinality(S) = Threshold + 1
    /\ c \in S
    /\ \A q \in S : \E e \in Requests : handler[q][e][c] # "none"

(* A subset that c may announce.                                           *)
Subset(c, S) ==
    /\ S \subseteq Relayers
    /\ Cardinality(S) = Threshold + 1
    /\ c \in S
    /\ \A q \in S : Joined(q, c)

(* initiate, StartParams: enough relayers are ready and the coordinator    *)
(* announces who signs.                                                    *)
StartParams(d, c) ==
    /\ handler[c][d][c] = "executing"
    /\ subset[d][c] = {}
    /\ \E S \in SUBSET Relayers :
         /\ Subset(c, S)
         /\ subset' = [subset EXCEPT ![d][c] = S]
    /\ UNCHANGED << api, handler, notices, signatures, cache, answers >>

(* Run returns a SubsetError to who does not sign, Execute returns nil.    *)
Exclude(p, d, c) ==
    /\ handler[p][d][c] = "executing"
    /\ \E e \in Requests : subset[e][c] # {} /\ p \notin subset[e][c]
    /\ Move(p, d, c, "excluded")
    /\ UNCHANGED << api, notices, signatures, cache, answers, subset >>

(* Mutant: the signature is sent back to the coordinator only.             *)
distributeToCoordinator(p, d, c) ==
    IF p = c THEN signatures ELSE signatures \cup { [data |-> d, to |-> c] }

(* distributeSignature: to every peer, by all parties but the coordinator. *)
distributeSignature(p, d, c) ==
    IF p = c THEN signatures
             ELSE signatures \cup { [data |-> d, to |-> q] : q \in Relayers \ {p} }

(* processEndMessage, when all of the subset sign the same hash: the       *)
(* result goes to the cache, or for an unlock to the HTTP call.            *)
Sign(p, d, c) ==
    /\ handler[p][d][c] = "executing"
    /\ p \in subset[d][c]
    /\ Quorum(d, c, subset[d][c])
    /\ Move(p, d, c, "signed")
    /\ signatures' = distributeSignature(p, d, c)
    /\ IF d \in Unlocks
         THEN /\ api' = IF p = c /\ api[p][d] = "waiting"
                          THEN [api EXCEPT ![p][d] = "accepted"]
                          ELSE api
              /\ UNCHANGED cache
         ELSE /\ cache' = [cache EXCEPT ![p] = {d}]
              /\ UNCHANGED api
    /\ UNCHANGED << notices, answers, subset >>

(* Execute returns without a signature.                                    *)
SessionTimesOut(p, d, c) ==
    /\ handler[p][d][c] = "executing"
    /\ p \in TimingOut
    /\ Move(p, d, c, "timedOut")
    /\ UNCHANGED << api, notices, signatures, cache, answers, subset >>

(* HandleUnlock gives up waiting for the signature.                        *)
UnlockTimesOut(p, d) ==
    /\ d \in Unlocks
    /\ api[p][d] = "waiting"
    /\ api' = [api EXCEPT ![p][d] = "rejected"]
    /\ UNCHANGED << handler, notices, signatures, cache, answers, subset >>

-----------------------------------------------------------------------------
(* The signature cache.                                                    *)

(* Watch: a broadcast signature replaces whatever is cached for its id.    *)
Watch(q, m) ==
    /\ m.to = q
    /\ signatures' = signatures \ {m}
    /\ cache' = [cache EXCEPT ![q] = {m.data}]
    /\ UNCHANGED << api, handler, notices, answers, subset >>

(* The time to live of the entry has passed.                               *)
Expire(p) ==
    /\ p \in Expiring
    /\ cache[p] # {}
    /\ cache' = [cache EXCEPT ![p] = {}]
    /\ UNCHANGED << api, handler, notices, signatures, answers, subset >>

(* Subscribe, for a status stream: returns the cached signature.           *)
Subscribe(p) ==
    /\ p \in Watching
    /\ cache[p] # {}
    /\ answers' = [answers EXCEPT ![p] = @ \cup cache[p]]
    /\ UNCHANGED << api, handler, notices, signatures, cache, subset >>

-----------------------------------------------------------------------------
(* One step of HandleMessage.                                              *)
HandleMessage(p, d, c) ==
    \/ Notify(p, d, c)
    \/ RejectRepayment(p, d, c)
    \/ Validate(p, d, c)
    \/ CheckFails(p, d, c)
    \/ Execute(p, d, c)
    \/ NewSigningFails(p, d, c)
    \/ Exclude(p, d, c)
    \/ Sign(p, d, c)
    \/ SessionTimesOut(p, d, c)

(* A request or signature that is lost is one that is never delivered.     *)
Next ==
    \/ \E p \in Relayers, d \in Requests :
         HandleSigning(p, d) \/ UnlockTimesOut(p, d)
    \/ \E p, c \in Relayers, d \in Requests : HandleMessage(p, d, c)
    \/ \E d \in Requests, c \in Relayers : StartParams(d, c)
    \/ \E n \in notices : Listen(n.to, n)
    \/ \E m \in signatures : Watch(m.to, m)
    \/ \E p \in Relayers : Expire(p) \/ Subscribe(p)

Spec == Init /\ [][Next]_vars

(* Signatures are not lost; requests may be, checks need not end (the      *)
(* Lighter client has no timeout), and neither need sessions.              *)
Fairness == \A p \in Relayers : WF_vars(\E m \in signatures : Watch(p, m))

FairSpec == Spec /\ Fairness

-----------------------------------------------------------------------------
(* Properties.                                                             *)

(* threshold+1 relayers have each checked d themselves and have executed   *)
(* it under one coordinator.                                               *)
HasQuorum(d) ==
    \E c \in Relayers : \E S \in SUBSET Relayers :
        /\ Quorum(d, c, S)
        /\ d \in Genuine \cup Unlocks

(* Whatever requests for one deposit are mixed, and whichever relayers     *)
(* they were posted to: a signature that is cached, distributed or         *)
(* returned by a status stream is for a request that threshold+1 relayers  *)
(* validated themselves before they executed it (HandleMessage,            *)
(* distributeSignature, Watch).                                            *)
SignedIsValidated ==
    \A p \in Relayers : \A d \in cache[p] \cup answers[p] : HasQuorum(d)

(* What the 202 of HandleSigning promises, which is given before Execute   *)
(* is called: the relayer goes on to execute the request, unless making    *)
(* the process fails, or it refuses it for another request of the same id  *)
(* that it executes or has executed; it never refuses all of them          *)
(* (HandleMessage, Execute, Listen).                                       *)
AcceptedIsPursued ==
    \A p \in Relayers, d \in Requests \ Unlocks :
        api[p][d] = "accepted" =>
            \/ handler[p][d][p] = "validated"
            \/ Executed(p, d, p)
            \/ handler[p][d][p] = "failed" /\ p \in Failing
            \/ handler[p][d][p] = "refused" /\ \E e \in Requests, b \in Relayers :
                 Executed(p, e, b) /\ << e, b >> # << d, p >>

-----------------------------------------------------------------------------
(* What makes them inductive.                                              *)

(* A relayer executes at most one request of a session id at a time.       *)
OneProcessPerSession ==
    \A p, c, b \in Relayers, d, e \in Requests :
        handler[p][d][c] = "executing" /\ handler[p][e][b] = "executing" =>
            d = e /\ c = b

(* A request is known elsewhere only after its coordinator's notify, and   *)
(* reaches each relayer once.                                              *)
OriginInv ==
    /\ \A p \in Relayers, d \in Requests :
         api[p][d] = "none" => handler[p][d][p] = "none"
    /\ \A n \in notices :
         /\ n.to # n.coordinator
         /\ handler[n.to][n.data][n.coordinator] = "none"
         /\ handler[n.coordinator][n.data][n.coordinator] \notin
              {"none", "received"}
    /\ \A p, c \in Relayers, d \in Requests :
         p # c /\ handler[p][d][c] # "none" =>
             handler[c][d][c] \notin {"none", "received"}

(* Only validated requests get as far as Execute.                          *)
ValidatedInv ==
    \A p, c \in Relayers, d \in Requests :
        handler[p][d][c] = "validated" \/ Executed(p, d, c) =>
            d \in Genuine \cup Unlocks

(* The announced signers have all executed the session.                    *)
SubsetInv ==
    \A d \in Requests, c \in Relayers :
        subset[d][c] # {} => Subset(c, subset[d][c])

(* Every signature on its way has its quorum.                              *)
SignaturesInv == \A m \in signatures : HasQuorum(m.data)

(* Who has a signature is one of the announced signers.  RequestsInv does  *)
(* not need it, the refinement of AbstractSession does: subsets are never  *)
(* announced anew under a signature.                                       *)
SignersInv ==
    \A p, c \in Relayers, d \in Requests :
        handler[p][d][c] = "signed" => p \in subset[d][c]

(* The inductive invariant (HandleMessage, distributeSignature, Watch).    *)
RequestsInv ==
    /\ TypeOK
    /\ OriginInv
    /\ ValidatedInv
    /\ SubsetInv
    /\ SignaturesInv
    /\ SignedIsValidated
    /\ OneProcessPerSession

-----------------------------------------------------------------------------
(* Once a signer that distributes has ended, every relayer gets to know a  *)
(* signature of the session, also those outside the subset and those that  *)
(* never heard of the request.  The signer of an unlock is excepted: its   *)
(* own signature goes to its channel, not to its cache (processEndMessage, *)
(* distributeSignature).                                                   *)
SignatureSpreads ==
    \A q \in Relayers :
        (\E p, c \in Relayers, d \in Requests :
            handler[p][d][c] = "signed" /\ p # c /\ (d \in Unlocks => q # p))
                ~> cache[q] # {}

(* The sessions of the requests, without the requests.                     *)
JoinedPairs == { x \in Relayers \X Relayers : Joined(x[1], x[2]) }

AnnouncedPairs ==
    UNION { { << c, subset[d][c] >> : c \in { b \in Relayers : subset[d][b] # {} } } :
              d \in Requests }

SignedPairs ==
    UNION { UNION { { << p, subset[d][c] >> :
                        c \in { b \in Relayers : handler[p][d][b] = "signed" } } :
                      d \in Requests } :
              p \in Relayers }

Session == INSTANCE AbstractSession WITH
    Peers     <- Relayers,
    KeyPeers  <- [c \in Relayers |-> Relayers],
    Threshold <- [c \in Relayers |-> Threshold],
    joined    <- JoinedPairs,
    announced <- AnnouncedPairs,
    signed    <- SignedPairs

(* However requests are mixed, refused and retried, the sessions they lead *)
(* to do what a signing session does and no more: joining under a          *)
(* coordinator is for ever, whatever request it was for, and nobody signs  *)
(* outside an announced subset (HandleMessage, Execute, Listen).           *)
ImplementsSession == Session!Spec

=============================================================================
