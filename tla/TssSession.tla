----------------------------- MODULE TssSession -----------------------------
(***************************************************************************)
(* One signing session of the MPC network: tss/coordinator.go drives a     *)
(* tss/ecdsa/signing process on every relayer.                             *)
(*                                                                         *)
(* A coordinator collects ready messages, picks a subset of the key's      *)
(* peers, announces it in a start message and runs its own party; every    *)
(* other relayer answers initiate messages and runs a party when a start   *)
(* message arrives.  Each relayer may Execute the session several times    *)
(* (a retried request) and two relayers may each believe to be the         *)
(* coordinator (the same request sent to both).  The network loses and     *)
(* reorders messages, and messages of an earlier attempt may arrive late.  *)
(*                                                                         *)
(* The threshold signature itself (tss-lib) is external: a party can only  *)
(* finish when every member of its subset has started a party for exactly  *)
(* that subset.                                                            *)
(***************************************************************************)
EXTENDS Integers, FiniteSets

CONSTANTS
    Peers,          \* relayers in the host's peerstore
    KeyPeers,       \* KeyPeers[p]: key.Peers of p's keyshare, {} without one
    Threshold,      \* Threshold[p]: key.Threshold of p's keyshare
    Coordinators,   \* relayers that may receive the signing request
    Rank,           \* order of the keccak(peer, session) hashes
    MaxAttempts,    \* bound: Executes of the session on one relayer
    TimingOut,      \* bound: relayers on which an Execute may time out
    Failing,        \* bound: relayers on which a party may fail to start
    Retrying,       \* bound: relayers that Execute it more than once
    Duplicating     \* whether a delivered message may be delivered again

ASSUME PeersAssumption ==
    /\ IsFiniteSet(Peers)
    /\ KeyPeers \in [Peers -> SUBSET Peers]
    /\ Coordinators \subseteq Peers

ASSUME ThresholdAssumption == Threshold \in [Peers -> Nat]

ASSUME RankAssumption ==
    /\ Rank \in [Peers -> Nat]
    /\ \A p, q \in Peers : Rank[p] = Rank[q] => p = q

ASSUME MaxAttemptsAssumption == MaxAttempts \in Nat \ {0}

ASSUME BoundsAssumption ==
    /\ TimingOut \subseteq Peers
    /\ Failing \subseteq Peers
    /\ Retrying \subseteq Peers

ASSUME DuplicatingAssumption == Duplicating \in BOOLEAN

VARIABLES
    msgs,       \* messages in flight
    attempt,    \* attempt[p]: Executes of the session so far on p
    coord,      \* coord[p][a]: coordinator given to attempt a of p
    loop,       \* loop[p]: where the goroutine of start() is
    cancelled,  \* relayers on which the context of the last Execute is done
    ready,      \* ready[p]: readyPeers of initiate
    announced,  \* announced[p][a]: subsets attempt a of p has broadcast
    spawned,    \* pending "go startProcess" calls
    party,      \* party[p][a]: the signing process of attempt a
    subset      \* subset[p][a]: peers that process runs its party with

vars == << msgs, attempt, coord, loop, cancelled, ready, announced,
           spawned, party, subset >>

Attempts == 1 .. MaxAttempts

(* A member of no subset, for messages that carry none.                    *)
NoSubset == {}

Message == [type   : {"initiate", "ready", "start"},
            from   : Peers,
            to     : Peers,
            subset : SUBSET Peers]

Goroutine == [peer : Peers, attempt : Attempts, subset : SUBSET Peers]

TypeOK ==
    /\ msgs \subseteq Message
    /\ attempt \in [Peers -> 0 .. MaxAttempts]
    /\ coord \in [Peers -> [Attempts -> Peers]]
    /\ loop \in [Peers -> {"idle", "select", "busy", "starting"}]
    /\ cancelled \subseteq Peers
    /\ ready \in [Peers -> SUBSET Peers]
    /\ announced \in [Peers -> [Attempts -> SUBSET SUBSET Peers]]
    /\ spawned \subseteq Goroutine
    /\ party \in [Peers -> [Attempts ->
                   {"new", "failed", "running", "signed", "stopped"}]]
    /\ subset \in [Peers -> [Attempts -> SUBSET Peers]]

Init ==
    /\ msgs = {}
    /\ attempt = [p \in Peers |-> 0]
    /\ coord = [p \in Peers |-> [a \in Attempts |-> p]]
    /\ loop = [p \in Peers |-> "idle"]
    /\ cancelled = Peers
    /\ ready = [p \in Peers |-> {}]
    /\ announced = [p \in Peers |-> [a \in Attempts |-> {}]]
    /\ spawned = {}
    /\ party = [p \in Peers |-> [a \in Attempts |-> "new"]]
    /\ subset = [p \in Peers |-> [a \in Attempts |-> NoSubset]]

-----------------------------------------------------------------------------
(* The coordinator the Execute that is under way on p was given.           *)
CurrentCoord(p) == coord[p][attempt[p]]

(* start: the host runs initiate if it is the coordinator itself, else     *)
(* waitForStart.                                                           *)
Coordinating(p) == CurrentCoord(p) = p

(* Messages.                                                               *)

(* Libp2pCommunication.Broadcast: one message to each peer but the host.   *)
Broadcast(p, type, to, S) ==
    { [type |-> type, from |-> p, to |-> q, subset |-> S] : q \in to \ {p} }

(* The messages left once m is delivered.  The tickers and the answers to  *)
(* them repeat messages anyway; Duplicating takes every repetition in.     *)
Delivered(m) == IF Duplicating THEN msgs ELSE msgs \ {m}

(* A message finds a subscriber only while the relayer's Execute listens   *)
(* for its type.                                                           *)
Subscribed(m) ==
    /\ loop[m.to] # "idle"
    /\ m.type = "ready" <=> Coordinating(m.to)

-----------------------------------------------------------------------------
(* The signing process's answers to the coordinator.                       *)

(* Mutant: every ready peer counts, with a valid keyshare or not.          *)
readyParticipantsUnfiltered(p, R) == R

(* Ready peers whose keyshare the coordinator knows to be valid.           *)
readyParticipants(p, R) == R \cap KeyPeers[p]

(* Mutant: the comparison accepts more than threshold+1 peers.             *)
ReadyAtLeast(p, R) == Cardinality(readyParticipants(p, R)) >= Threshold[p] + 1

(* Signing.Ready: exactly threshold+1 of them.                             *)
Ready(p, R) == Cardinality(readyParticipants(p, R)) = Threshold[p] + 1

(* Mutant: threshold instead of threshold+1 peers.                         *)
StartParamsOneShort(p, R) ==
    LET candidates == readyParticipants(p, R)
    IN  { q \in candidates :
            Cardinality({ r \in candidates : Rank[r] > Rank[q] })
              < Threshold[p] }

(* Signing.StartParams: the first threshold+1 by descending session hash.  *)
StartParams(p, R) ==
    LET candidates == readyParticipants(p, R)
    IN  { q \in candidates :
            Cardinality({ r \in candidates : Rank[r] > Rank[q] })
              <= Threshold[p] }

-----------------------------------------------------------------------------
(* The coordinator's loops.                                                *)

(* Execute, up to the select loop of start(): the coordinator (the host    *)
(* itself) enters initiate and broadcasts the first initiate message, any  *)
(* other relayer enters waitForStart.  NewSigning fails without a          *)
(* keyshare, and a session that is still pending is refused.               *)
Execute(p, c) ==
    /\ p \in KeyPeers[p]
    /\ loop[p] = "idle"
    /\ attempt[p] < IF p \in Retrying THEN MaxAttempts ELSE 1
    /\ attempt' = [attempt EXCEPT ![p] = @ + 1]
    /\ coord' = [coord EXCEPT ![p][attempt[p] + 1] = c]
    /\ cancelled' = cancelled \ {p}
    /\ IF p = c
         THEN /\ ready' = [ready EXCEPT ![p] = {p}]
              /\ loop' = [loop EXCEPT ![p] = "busy"]
              /\ msgs' = msgs \cup Broadcast(p, "initiate", Peers, NoSubset)
         ELSE /\ loop' = [loop EXCEPT ![p] = "select"]
              /\ UNCHANGED << ready, msgs >>
    /\ UNCHANGED << announced, spawned, party, subset >>

(* The loop is back in its select statement after a Broadcast or a handler *)
Resume(p) ==
    /\ loop[p] = "busy"
    /\ loop' = [loop EXCEPT ![p] = "select"]
    /\ UNCHANGED << msgs, attempt, coord, cancelled, ready, announced,
                    spawned, party, subset >>

(* Mutant: the ticker fires but nothing is broadcast.                      *)
TickSilent(p) ==
    /\ loop[p] = "select"
    /\ Coordinating(p)
    /\ announced[p][attempt[p]] = {}
    /\ loop' = [loop EXCEPT ![p] = "busy"]
    /\ UNCHANGED << msgs, attempt, coord, cancelled, ready, announced, spawned,
                    party, subset >>

(* initiate, ticker: broadcast again until the start message is out, when  *)
(* the ticker is stopped.                                                  *)
Tick(p) ==
    /\ loop[p] = "select"
    /\ Coordinating(p)
    /\ announced[p][attempt[p]] = {}
    /\ loop' = [loop EXCEPT ![p] = "busy"]
    /\ msgs' = msgs \cup Broadcast(p, "initiate", Peers, NoSubset)
    /\ UNCHANGED << attempt, coord, cancelled, ready, announced, spawned,
                    party, subset >>

(* initiate, readyChan: record the peer and, when the process is ready,    *)
(* broadcast the start message.                                            *)
ReceiveReady(p, m) ==
    /\ loop[p] = "select"
    /\ Coordinating(p)
    /\ m.type = "ready" /\ m.to = p
    /\ LET readyPeers == ready[p] \cup {m.from}
           S == StartParams(p, readyPeers)
       IN  /\ ready' = [ready EXCEPT ![p] = readyPeers]
           /\ IF Ready(p, readyPeers)
                THEN /\ announced' = [announced EXCEPT
                                        ![p][attempt[p]] = @ \cup {S}]
                     /\ msgs' = Delivered(m) \cup
                                  Broadcast(p, "start", Peers, S)
                     /\ loop' = [loop EXCEPT ![p] = "starting"]
                ELSE /\ msgs' = Delivered(m)
                     /\ UNCHANGED << announced, loop >>
    /\ UNCHANGED << attempt, coord, cancelled, spawned, party, subset >>

(* The start broadcast has returned: the coordinator starts its own        *)
(* process in a goroutine.                                                 *)
StartSent(p) ==
    /\ loop[p] = "starting"
    /\ spawned' = spawned \cup { [peer |-> p, attempt |-> attempt[p],
                                  subset |-> StartParams(p, ready[p])] }
    /\ loop' = [loop EXCEPT ![p] = "busy"]
    /\ UNCHANGED << msgs, attempt, coord, cancelled, ready, announced,
                    party, subset >>

(* Mutant: initiate messages of anybody are answered.                      *)
ReceiveInitiateAnySender(p, m) ==
    /\ loop[p] = "select"
    /\ ~Coordinating(p)
    /\ m.type = "initiate" /\ m.to = p
    /\ msgs' = Delivered(m) \cup Broadcast(p, "ready", {m.from}, NoSubset)
    /\ loop' = [loop EXCEPT ![p] = "busy"]
    /\ UNCHANGED << attempt, coord, cancelled, ready, announced, spawned,
                    party, subset >>

(* waitForStart, msgChan: answer the coordinator, ignore anybody else.     *)
ReceiveInitiate(p, m) ==
    /\ loop[p] = "select"
    /\ ~Coordinating(p)
    /\ m.type = "initiate" /\ m.to = p
    /\ IF m.from = CurrentCoord(p)
         THEN /\ msgs' = Delivered(m) \cup
                           Broadcast(p, "ready", {m.from}, NoSubset)
              /\ loop' = [loop EXCEPT ![p] = "busy"]
         ELSE /\ msgs' = Delivered(m)
              /\ UNCHANGED loop
    /\ UNCHANGED << attempt, coord, cancelled, ready, announced, spawned,
                    party, subset >>

(* Mutant: start messages of anybody are followed.                         *)
ReceiveStartAnySender(p, m) ==
    /\ loop[p] = "select"
    /\ ~Coordinating(p)
    /\ m.type = "start" /\ m.to = p
    /\ msgs' = Delivered(m)
    /\ spawned' = spawned \cup { [peer |-> p, attempt |-> attempt[p],
                                  subset |-> m.subset] }
    /\ loop' = [loop EXCEPT ![p] = "busy"]
    /\ UNCHANGED << attempt, coord, cancelled, ready, announced, party,
                    subset >>

(* waitForStart, startMsgChn: start the process in a goroutine, unless the *)
(* message is not from the coordinator.                                    *)
ReceiveStart(p, m) ==
    /\ loop[p] = "select"
    /\ ~Coordinating(p)
    /\ m.type = "start" /\ m.to = p
    /\ msgs' = Delivered(m)
    /\ IF m.from = CurrentCoord(p)
         THEN /\ spawned' = spawned \cup { [peer |-> p, attempt |-> attempt[p],
                                            subset |-> m.subset] }
              /\ loop' = [loop EXCEPT ![p] = "busy"]
         ELSE UNCHANGED << spawned, loop >>
    /\ UNCHANGED << attempt, coord, cancelled, ready, announced, party,
                    subset >>

(* Mutant: the process is stopped but the context is not cancelled.        *)
TimeoutWithoutCancel(p) ==
    /\ p \in TimingOut
    /\ loop[p] # "idle"
    /\ p \notin cancelled
    /\ UNCHANGED vars

(* watchExecution, ticker: the process timed out, its context is cancelled *)
Timeout(p) ==
    /\ p \in TimingOut
    /\ loop[p] # "idle"
    /\ p \notin cancelled
    /\ cancelled' = cancelled \cup {p}
    /\ UNCHANGED << msgs, attempt, coord, loop, ready, announced, spawned,
                    party, subset >>

(* The select loop sees the cancelled context and Execute returns.  The    *)
(* goroutines it spawned are not waited for.                               *)
Return(p) ==
    /\ loop[p] = "select"
    /\ p \in cancelled
    /\ loop' = [loop EXCEPT ![p] = "idle"]
    /\ UNCHANGED << msgs, attempt, coord, cancelled, ready, announced,
                    spawned, party, subset >>

-----------------------------------------------------------------------------
(* The signing process, run by the goroutines.                             *)

(* startProcess, tail: the outcome is sent on errChn only if the select    *)
(* loop of the same Execute is waiting for it, else it is dropped.         *)
Report(p, a) ==
    IF a = attempt[p] /\ loop[p] = "select"
      THEN /\ loop' = [loop EXCEPT ![p] = "idle"]
           /\ cancelled' = cancelled \cup {p}
      ELSE UNCHANGED << loop, cancelled >>

(* The context of attempt a of p is done.                                  *)
ContextDone(p, a) == a # attempt[p] \/ p \in cancelled

(* Mutant: the Started flag is not looked at.                              *)
RunAgain(g) ==
    LET p == g.peer
        a == g.attempt
    IN  /\ g \in spawned
        /\ spawned' = spawned \ {g}
        /\ IF p \notin g.subset
             THEN /\ party' = [party EXCEPT ![p][a] = "failed"]
                  /\ Report(p, a)
                  /\ UNCHANGED subset
             ELSE /\ party' = [party EXCEPT ![p][a] = "running"]
                  /\ subset' = [subset EXCEPT ![p][a] = g.subset]
                  /\ UNCHANGED << loop, cancelled >>
        /\ UNCHANGED << msgs, attempt, coord, ready, announced >>

(* Signing.Run, up to Party.Start: a process that was started already is   *)
(* left alone; a host outside the subset fails with a SubsetError.         *)
Run(g) ==
    LET p == g.peer
        a == g.attempt
    IN  /\ g \in spawned
        /\ spawned' = spawned \ {g}
        /\ IF party[p][a] # "new"
             THEN UNCHANGED << party, subset, loop, cancelled >>
             ELSE IF p \notin g.subset
             THEN /\ party' = [party EXCEPT ![p][a] = "failed"]
                  /\ Report(p, a)
                  /\ UNCHANGED subset
             ELSE /\ party' = [party EXCEPT ![p][a] = "running"]
                  /\ subset' = [subset EXCEPT ![p][a] = g.subset]
                  /\ UNCHANGED << loop, cancelled >>
        /\ UNCHANGED << msgs, attempt, coord, ready, announced >>

(* Signing.Run, error returns: the party cannot be built or started.       *)
RunFails(g) ==
    LET p == g.peer
        a == g.attempt
    IN  /\ g \in spawned
        /\ p \in Failing
        /\ party[p][a] = "new"
        /\ spawned' = spawned \ {g}
        /\ party' = [party EXCEPT ![p][a] = "failed"]
        /\ Report(p, a)
        /\ UNCHANGED << msgs, attempt, coord, ready, announced, subset >>

(* tss-lib, external: the protocol ends only if every member has started a *)
(* party for this very subset.                                             *)
ProtocolCanEnd(S) ==
    \A q \in S : \E b \in Attempts :
        /\ subset[q][b] = S
        /\ party[q][b] \in {"running", "signed", "stopped"}

(* processEndMessage: the signature goes to the host's cache through       *)
(* resultChn and, from all but the coordinator, to every peer.             *)
Sign(p, a) ==
    /\ party[p][a] = "running"
    /\ ProtocolCanEnd(subset[p][a])
    /\ party' = [party EXCEPT ![p][a] = "signed"]
    /\ Report(p, a)
    /\ UNCHANGED << msgs, attempt, coord, ready, announced, spawned, subset >>

(* The pool of Run ends because its context is done (monitorSigning could  *)
(* end it too, but not before the timeout of 8 seconds).                   *)
PartyStops(p, a) ==
    /\ party[p][a] = "running"
    /\ ContextDone(p, a)
    /\ party' = [party EXCEPT ![p][a] = "stopped"]
    /\ Report(p, a)
    /\ UNCHANGED << msgs, attempt, coord, ready, announced, spawned, subset >>

(* Nobody is subscribed to the message's session and type.                 *)
Drop(m) ==
    /\ ~Subscribed(m)
    /\ msgs' = msgs \ {m}
    /\ UNCHANGED << attempt, coord, loop, cancelled, ready, announced,
                    spawned, party, subset >>

-----------------------------------------------------------------------------
(* Steps of relayer p's own goroutines.                                    *)
LocalStep(p) ==
    \/ Resume(p)
    \/ Tick(p)
    \/ StartSent(p)
    \/ Return(p)
    \/ \E g \in spawned : g.peer = p /\ Run(g)
    \/ \E a \in Attempts : Sign(p, a) \/ PartyStops(p, a)

(* A message reaches a subscriber, or finds none.                          *)
Deliver(m) ==
    \/ ReceiveInitiate(m.to, m)
    \/ ReceiveReady(m.to, m)
    \/ ReceiveStart(m.to, m)

(* A message that is lost is one that is never delivered: nothing here     *)
(* forces a delivery, so losses need no action of their own.               *)
Next ==
    \/ \E p \in Peers, c \in Coordinators : Execute(p, c)
    \/ \E p \in Peers : LocalStep(p) \/ Timeout(p)
    \/ \E g \in spawned : RunFails(g)
    \/ \E m \in msgs : Deliver(m)

Spec == Init /\ [][Next]_vars

(* Timers fire, goroutines are scheduled, Broadcast returns, and Go's      *)
(* select does not overlook a ready case for ever: it picks among the      *)
(* ready cases at random.                                                  *)
Fairness ==
    \A p \in Peers :
        /\ WF_vars(Timeout(p))
        /\ WF_vars(Resume(p) \/ StartSent(p))
        /\ SF_vars(Return(p))

FairSpec == Spec /\ Fairness

-----------------------------------------------------------------------------
(* The session when nothing goes wrong: no loss, no timeout, no failing    *)
(* party.  A message is still dropped where nobody has subscribed yet.     *)
ReliableNext ==
    \/ \E p \in Peers, c \in Coordinators : Execute(p, c)
    \/ \E p \in Peers : LocalStep(p)
    \/ \E m \in msgs : Deliver(m) \/ Drop(m)

(* Every relayer with a keyshare takes part, tickers fire, messages arrive *)
(* and select is fair.                                                     *)
ReliableFairness ==
    /\ \A p \in Peers :
        /\ WF_vars(\E c \in Coordinators : Execute(p, c))
        /\ WF_vars(Resume(p) \/ StartSent(p))
        /\ WF_vars(\E g \in spawned : g.peer = p /\ Run(g))
    /\ \A p \in Peers \ Coordinators :
        /\ SF_vars(\E m \in msgs : ReceiveInitiate(p, m))
        /\ SF_vars(\E m \in msgs : ReceiveStart(p, m))
    /\ \A c \in Coordinators :
        /\ SF_vars(Tick(c))
        /\ \A p \in Peers :
             SF_vars(\E m \in msgs : m.from = p /\ ReceiveReady(c, m))

ReliableSpec == Init /\ [][ReliableNext]_vars /\ ReliableFairness

-----------------------------------------------------------------------------
(* Properties.                                                             *)

(* The process of attempt a of p has started a party.                      *)
Started(p, a) == party[p][a] \in {"running", "signed", "stopped"}

(* p has joined the session under coordinator c.                           *)
Joined(p, c) == \E b \in Attempts : b <= attempt[p] /\ coord[p][b] = c

(* S was announced by c.                                                   *)
Announced(c, S) == \E b \in Attempts : S \in announced[c][b]

(* Every subset a coordinator announces has exactly threshold+1 peers of   *)
(* its key, the coordinator among them (its own Run would fail with a      *)
(* SubsetError), and each of them has joined the session under that        *)
(* coordinator: initiate, Signing.Ready and Signing.StartParams.           *)
SubsetSound ==
    \A c \in Peers, a \in Attempts : \A S \in announced[c][a] :
        /\ c \in S
        /\ S \subseteq KeyPeers[c]
        /\ Cardinality(S) = Threshold[c] + 1
        /\ \A q \in S : Joined(q, c)

(* However many ready messages arrive after the first start message, one   *)
(* attempt never announces two different subsets (initiate keeps counting  *)
(* ready peers after it has started the process).                          *)
OneSubsetPerAttempt ==
    \A c \in Peers, a \in Attempts :
        \A S, T \in announced[c][a] : S = T

(* A party only ever runs with a subset that contains its host and that    *)
(* the coordinator of its own attempt has announced, whoever else sends    *)
(* start messages for the session (waitForStart, Signing.Run).             *)
PartyFollowsCoordinator ==
    \A p \in Peers, a \in Attempts : Started(p, a) =>
        /\ p \in subset[p][a]
        /\ Announced(coord[p][a], subset[p][a])

(* A signature is only ever made by threshold+1 holders of the             *)
(* coordinator's key, every one of which ran a party for that very subset, *)
(* also when rival coordinators and stale messages mix several attempts    *)
(* (waitForStart, Signing.Run, processEndMessage).                         *)
SignatureHasQuorum ==
    \A p \in Peers, a \in Attempts : party[p][a] = "signed" =>
        LET S == subset[p][a]
            c == coord[p][a]
        IN  /\ Cardinality(S) = Threshold[c] + 1
            /\ S \subseteq KeyPeers[c]
            /\ \A q \in S : \E b \in Attempts :
                  subset[q][b] = S /\ Started(q, b)

-----------------------------------------------------------------------------
(* The facts about messages, goroutines and local variables that make the  *)
(* safety properties inductive.                                            *)

LoopInv ==
    \A p \in Peers :
        /\ loop[p] # "idle" => attempt[p] \in Attempts
        /\ attempt[p] > 0 => p \in KeyPeers[p]
        /\ \A a \in Attempts : a > attempt[p] =>
             announced[p][a] = {} /\ party[p][a] = "new"

ReadyInv ==
    /\ \A m \in msgs : m.type = "ready" => Joined(m.from, m.to)
    /\ \A c \in Peers : \A q \in ready[c] : Joined(q, c)
    /\ \A c \in Peers : loop[c] # "idle" /\ Coordinating(c) =>
         /\ c \in ready[c]
         /\ \A S \in announced[c][attempt[c]] : S \subseteq ready[c]

StartInv ==
    /\ \A m \in msgs : m.type = "start" => Announced(m.from, m.subset)
    /\ \A p \in Peers : loop[p] = "starting" =>
         /\ Coordinating(p)
         /\ StartParams(p, ready[p]) \in announced[p][attempt[p]]
    /\ \A g \in spawned :
         /\ g.attempt <= attempt[g.peer]
         /\ Announced(coord[g.peer][g.attempt], g.subset)

EndInv ==
    \A p \in Peers, a \in Attempts :
        party[p][a] = "signed" => ProtocolCanEnd(subset[p][a])

(* The inductive invariant: with it every announced subset, every start    *)
(* message and every goroutine can be traced back to ready messages of     *)
(* peers that joined (initiate, waitForStart, startProcess).               *)
SessionInv ==
    /\ TypeOK
    /\ LoopInv
    /\ ReadyInv
    /\ StartInv
    /\ SubsetSound
    /\ OneSubsetPerAttempt
    /\ PartyFollowsCoordinator
    /\ EndInv

-----------------------------------------------------------------------------
(* A process runs at most one party: repeated start messages and late      *)
(* goroutines never replace or revive it (the Started flag of Run).        *)
PartyStartsOnce ==
    [][\A p \in Peers, a \in Attempts : party[p][a] # "new" =>
         /\ party'[p][a] # "new"
         /\ subset'[p][a] = subset[p][a]
         /\ party[p][a] # "running" => party'[p][a] = party[p][a]]_vars

(* Every Execute returns, even if its party's outcome was dropped by       *)
(* startProcess or a start message never came: the timeout ends it.        *)
ExecuteReturns == \A p \in Peers : loop[p] # "idle" ~> loop[p] = "idle"

(* When nothing is lost, peers that join late are still reached by the     *)
(* repeated initiate message and every member of the announced subset      *)
(* starts its party (initiate's ticker).                                   *)
SubsetStarts ==
    <>(\E c \in Coordinators, a \in Attempts : \E S \in announced[c][a] :
         \A q \in S : \E b \in Attempts : subset[q][b] = S /\ Started(q, b))

-----------------------------------------------------------------------------
(* The session without its handshake: attempts, goroutines and messages    *)
(* are forgotten.                                                          *)
JoinedPairs ==
    UNION { { << p, coord[p][b] >> : b \in 1 .. attempt[p] } : p \in Peers }

AnnouncedPairs ==
    UNION { { << c, S >> : S \in UNION { announced[c][a] : a \in Attempts } } :
            c \in Peers }

SignedPairs ==
    UNION { { << p, subset[p][a] >> : a \in { b \in Attempts : party[p][b] = "signed" } } :
            p \in Peers }

Session == INSTANCE AbstractSession WITH
    joined <- JoinedPairs, announced <- AnnouncedPairs, signed <- SignedPairs

(* With any loss, repetition and delay of messages, any timeout and any    *)
(* number of rival coordinators, the handshake only ever does what the     *)
(* abstract session allows (initiate, waitForStart, startProcess).         *)
ImplementsSession == Session!Spec

=============================================================================
