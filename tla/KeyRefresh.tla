----------------------------- MODULE KeyRefresh -----------------------------
(***************************************************************************)
(* The life of the network's key: the keygen event, the key refresh events *)
(* that follow, and what each relayer keeps of them on disk.               *)
(*                                                                         *)
(* Relayers poll the admin contract independently (chains/evm/listener).   *)
(* For a refresh event a relayer fetches the topology, stores it, lets it  *)
(* into its gate and peerstore and executes a resharing session            *)
(* (tss/ecdsa/resharing) without being told a coordinator: each one elects *)
(* its own, from the peers of the keyshare it holds.  Relayers time out,   *)
(* crash and restart independently, miss events while they are down, and   *)
(* may fail to write either file, so they hold keyshares of different      *)
(* refreshes.                                                              *)
(*                                                                         *)
(* Event 1 is the keygen, under the topology that is served from the       *)
(* start; event e > 1 refreshes the key under topology e.  A keyshare is   *)
(* named after the event that made it.  The goroutines inside a session    *)
(* are TssSession's subject: here a start message and the Run it leads to  *)
(* are one step, and so are the end of a party and the return of Execute.  *)
(* tss-lib is external.                                                    *)
(***************************************************************************)
EXTENDS Integers, FiniteSets

CONSTANTS
    Peers,      \* all relayers that are ever part of the network
    MaxEvents,  \* bound: keygen and refresh events
    Members,    \* Members[e]: the peers of topology e
    Threshold,  \* Threshold[e]: its threshold
    Orders,     \* Orders[e]: possible orders of keccak(peer, session e)
    MaxFaults,  \* bound: crashes and failed reads and writes
    Faulty,     \* bound: relayers on which they happen
    TimingOut   \* bound: << p, e >>: session e may time out on p

Events == 1 .. MaxEvents

ASSUME EventsAssumption == MaxEvents \in Nat \ {0}

(* ProcessRawTopology refuses a threshold below 1.                         *)
ASSUME TopologyAssumption ==
    /\ IsFiniteSet(Peers)
    /\ Members \in [Events -> SUBSET Peers]
    /\ Threshold \in [Events -> Nat \ {0}]

ASSUME OrdersAssumption ==
    \A e \in Events : \A r \in Orders[e] :
        /\ r \in [Peers -> Nat]
        /\ \A p, q \in Peers : r[p] = r[q] => p = q

ASSUME BoundsAssumption ==
    /\ MaxFaults \in Nat
    /\ Faulty \subseteq Peers
    /\ TimingOut \subseteq Peers \X Events

(* No keyshare, no topology file, no session: below every event.           *)
None == 0

VARIABLES
    served,     \* the topology at the topology provider's URL
    emitted,    \* the last event of the admin contract
    order,      \* order[e]: rank of each peer in session e, once emitted
    stage,      \* stage[p]: where p's event handler is
    seen,       \* seen[p]: the last event in the blocks p has gone through
    session,    \* session[p]: the event p is handling, if any
    file,       \* file[p]: the topology in p's topology file
    peerstore,  \* peerstore[p]: the topology in p's gate and peerstore
    share,      \* share[p]: the keyshare in p's keyshare file
    held,       \* held[p][e]: the keyshare p had read for session e
    ready,      \* ready[p]: readyPeers of initiate
    msgs,       \* messages sent; a delivered one may be delivered again
    ran,        \* ran[p][e]: how p's party of session e was started
    faults,     \* << kind, p >>: what has failed on p so far
    disturbed   \* whether an event was missed, timed out or met a fault

network == << served, emitted, order >>
disk == << file, share >>
vars == << network, stage, seen, session, disk, peerstore, held, ready, msgs,
           ran, faults, disturbed >>

Versions == Events \cup {None}

(* Values of held and ran besides events.                                  *)
Unread == -1
NotRun == -1
Failed == -2

Message == [type    : {"initiate", "ready", "start"},
            from    : Peers,
            to      : SUBSET Peers,
            session : Events,
            old     : Versions]    \* the keyshare of start's parameters

TypeOK ==
    /\ served \in Events /\ emitted \in Versions
    /\ order \in [Events -> [Peers -> Nat]]
    /\ stage \in [Peers -> {"down", "idle", "stored", "executing"}]
    /\ seen \in [Peers -> Versions]
    /\ session \in [Peers -> Versions]
    /\ file \in [Peers -> Versions]
    /\ peerstore \in [Peers -> Versions]
    /\ share \in [Peers -> Versions]
    /\ held \in [Peers -> [Events -> Versions \cup {Unread}]]
    /\ ready \in [Peers -> SUBSET Peers]
    /\ msgs \subseteq Message
    /\ ran \in [Peers -> [Events -> Versions \cup {NotRun, Failed}]]
    /\ faults \subseteq {"topology", "keyshare", "crash"} \X Peers
    /\ disturbed \in BOOLEAN

(* The first members are up with the first topology, and nobody has a key. *)
Init ==
    /\ served = 1 /\ emitted = None
    /\ order = [e \in Events |-> [p \in Peers |-> 0]]
    /\ stage = [p \in Peers |-> IF p \in Members[1] THEN "idle" ELSE "down"]
    /\ seen = [p \in Peers |-> None]
    /\ session = [p \in Peers |-> None]
    /\ file = [p \in Peers |-> IF p \in Members[1] THEN 1 ELSE None]
    /\ peerstore = file
    /\ share = [p \in Peers |-> None]
    /\ held = [p \in Peers |-> [e \in Events |-> Unread]]
    /\ ready = [p \in Peers |-> {}]
    /\ msgs = {}
    /\ ran = [p \in Peers |-> [e \in Events |-> NotRun]]
    /\ faults = {}
    /\ disturbed = FALSE

Up(p) == stage[p] # "down"

(* Something fails on p.                                                   *)
Fault(kind, p) ==
    /\ p \in Faulty /\ Cardinality(faults) < MaxFaults
    /\ faults' = faults \cup {<< kind, p >>}
    /\ disturbed' = TRUE

(* Execute returns on p, or p crashes: the session's variables are gone.   *)
Leave(p, where) ==
    /\ stage' = [stage EXCEPT ![p] = where]
    /\ session' = [session EXCEPT ![p] = None]
    /\ ready' = [ready EXCEPT ![p] = {}]

-----------------------------------------------------------------------------
(* The processes' answers to the coordinator.                              *)

(* key.Peers of a keyshare; the empty key has none.                        *)
KeyPeers(k) == IF k \in Events THEN Members[k] ELSE {}

(* Keygen.ValidCoordinators: the peerstore.  Resharing.ValidCoordinators:  *)
(* those of them that have a keyshare as far as this relayer's own says.   *)
ValidCoordinators(e, k) ==
    IF e = 1 THEN Members[e] ELSE KeyPeers(k) \cap Members[e]

(* staticCoordinatorElector.Coordinator: the first by session hash of the  *)
(* valid coordinators, or nobody.                                          *)
Elected(e, k, c) ==
    /\ c \in ValidCoordinators(e, k)
    /\ \A q \in ValidCoordinators(e, k) : order[e][q] <= order[e][c]

(* waitForStart ignores everybody but the coordinator, if it has one.      *)
Follows(p, e, c) ==
    \/ ValidCoordinators(e, held[p][e]) = {}
    \/ Elected(e, held[p][e], c)

(* Mutant: threshold+1 ready peers are enough, as for a signature.         *)
ReadyQuorum(p, R) == Cardinality(R) > Threshold[peerstore[p]]

(* Keygen.Ready and Resharing.Ready: as many peers as the peerstore has.   *)
Ready(p, R) == Cardinality(R) = Cardinality(Members[peerstore[p]])

(* Resharing.StartParams, OldSubset.                                       *)
OldSubset(e, k) == KeyPeers(k) \cap Members[e]

(* validateStartParams; Keygen.Run has no parameters to validate.          *)
validateStartParams(p, e, k) ==
    \/ e = 1
    \/ /\ k # None
       /\ Cardinality(OldSubset(e, k)) >= Threshold[k]
       /\ \/ held[p][e] = None
          \/ OldSubset(e, k) = OldSubset(e, held[p][e])

-----------------------------------------------------------------------------
(* The admin.                                                              *)

(* A new topology is uploaded.                                             *)
Publish ==
    /\ served = emitted /\ served < MaxEvents
    /\ served' = served + 1
    /\ UNCHANGED << emitted, order, stage, seen, session, disk, peerstore, held,
                    ready, msgs, ran, faults, disturbed >>

(* The contract emits StartKeygen, or KeyRefresh with the hash of the      *)
(* topology that was uploaded.                                             *)
Emit ==
    /\ emitted < served
    /\ emitted' = served
    /\ \E r \in Orders[served] : order' = [order EXCEPT ![served] = r]
    /\ disturbed' = (disturbed \/ \E p \in Members[served] : ~Up(p))
    /\ UNCHANGED << served, stage, seen, session, disk, peerstore, held,
                    ready, msgs, ran, faults >>

-----------------------------------------------------------------------------
(* The event handlers.                                                     *)

(* Coordinator.Execute up to its loops: the relayer that elects itself     *)
(* enters initiate and broadcasts, any other one enters waitForStart.      *)
Execute(p, e) ==
    /\ stage' = [stage EXCEPT ![p] = "executing"]
    /\ held' = [held EXCEPT ![p][e] = share[p]]
    /\ IF Elected(e, share[p], p)
         THEN /\ ready' = [ready EXCEPT ![p] = {p}]
              /\ msgs' = msgs \cup
                   { [type |-> "initiate", from |-> p, to |-> Members[e] \ {p},
                      session |-> e, old |-> None] }
         ELSE UNCHANGED << ready, msgs >>

(* KeygenEventHandler.HandleEvents, for a relayer without a keyshare.      *)
HandleKeygen(p) ==
    /\ stage[p] = "idle" /\ seen[p] = None /\ emitted >= 1
    /\ share[p] = None
    /\ seen' = [seen EXCEPT ![p] = 1]
    /\ session' = [session EXCEPT ![p] = 1]
    /\ Execute(p, 1)
    /\ UNCHANGED << network, disk, peerstore, ran, faults, disturbed >>

(* The block range p looks at next ends with event `last'; only the first  *)
(* refresh event of a range is returned by FetchRefreshEvents.             *)
NextRange(p, last) ==
    /\ stage[p] = "idle"
    /\ seen[p] >= 1 /\ last \in seen[p] + 1 .. emitted
    /\ seen' = [seen EXCEPT ![p] = last]

(* Mutant: the topology is used without being stored.                      *)
HandleRefreshUnstored(p) == \E last \in Events :
    /\ NextRange(p, last)
    /\ IF served = seen[p] + 1
         THEN /\ session' = [session EXCEPT ![p] = seen[p] + 1]
              /\ stage' = [stage EXCEPT ![p] = "stored"]
         ELSE UNCHANGED << session, stage >>
    /\ disturbed' = (disturbed \/ served # seen[p] + 1 \/ last # seen[p] + 1)
    /\ UNCHANGED << network, disk, peerstore, held, ready, msgs, ran, faults >>

(* RefreshEventHandler.HandleEvents, up to StoreTopology: an event whose   *)
(* hash is not the one of the topology served by now is passed over.       *)
HandleRefresh(p) == \E last \in Events :
    /\ NextRange(p, last)
    /\ IF served = seen[p] + 1
         THEN /\ session' = [session EXCEPT ![p] = seen[p] + 1]
              /\ file' = [file EXCEPT ![p] = seen[p] + 1]
              /\ stage' = [stage EXCEPT ![p] = "stored"]
         ELSE UNCHANGED << session, file, stage >>
    /\ disturbed' = (disturbed \/ served # seen[p] + 1 \/ last # seen[p] + 1)
    /\ UNCHANGED << network, share, peerstore, held, ready, msgs, ran, faults >>

(* HandleEvents, error returns: the topology cannot be fetched, or its     *)
(* file is truncated and not written.  The event is not looked at again.   *)
HandleRefreshFails(p) == \E last \in Events :
    /\ Fault("topology", p)
    /\ NextRange(p, last)
    /\ \E f \in {file[p], None} : file' = [file EXCEPT ![p] = f]
    /\ UNCHANGED << network, stage, session, share, peerstore, held, ready,
                    msgs, ran >>

(* Mutant: the keyshare file is emptied before there is a new keyshare.    *)
ReshareErasing(p) ==
    /\ stage[p] = "stored"
    /\ peerstore' = [peerstore EXCEPT ![p] = session[p]]
    /\ Execute(p, session[p])
    /\ share' = [share EXCEPT ![p] = None]
    /\ UNCHANGED << network, seen, session, file, ran, faults, disturbed >>

(* HandleEvents, the rest: SetTopology, LoadPeers, NewResharing, Execute.  *)
Reshare(p) ==
    /\ stage[p] = "stored"
    /\ peerstore' = [peerstore EXCEPT ![p] = session[p]]
    /\ Execute(p, session[p])
    /\ UNCHANGED << network, seen, session, disk, ran, faults, disturbed >>

-----------------------------------------------------------------------------
(* The session.                                                            *)

(* p is in the initiate loop of its session.                               *)
Coordinating(p) ==
    stage[p] = "executing" /\ Elected(session[p], held[p][session[p]], p)

(* A relayer that executes the session has subscribed to ready messages in *)
(* initiate, to initiate and start messages in waitForStart.  The start    *)
(* message a coordinator addresses to itself stands for its own            *)
(* `go startProcess'.                                                      *)
Receives(p, type, m) ==
    /\ stage[p] = "executing"
    /\ m \in msgs /\ m.type = type /\ p \in m.to /\ m.session = session[p]
    /\ Coordinating(p) <=> (type = "ready" \/ m.from = p)

(* Mutant: a relayer that knows no coordinator does not answer.            *)
ReceiveInitiateKnown(p, m) ==
    /\ Receives(p, "initiate", m)
    /\ Elected(m.session, held[p][m.session], m.from)
    /\ msgs' = msgs \cup { [type |-> "ready", from |-> p, to |-> {m.from},
                            session |-> m.session, old |-> None] }
    /\ UNCHANGED << network, stage, seen, session, disk, peerstore, held,
                    ready, ran, faults, disturbed >>

(* Mutant: initiate messages of anybody are answered, at any time.         *)
ReceiveInitiateAnybody(p, m) ==
    /\ stage[p] = "executing"
    /\ m.type = "initiate" /\ p \in m.to /\ m.session = session[p]
    /\ msgs' = msgs \cup { [type |-> "ready", from |-> p, to |-> {m.from},
                            session |-> m.session, old |-> None] }
    /\ UNCHANGED << network, stage, seen, session, disk, peerstore, held,
                    ready, ran, faults, disturbed >>

(* waitForStart, msgChan.                                                  *)
ReceiveInitiate(p, m) ==
    /\ Receives(p, "initiate", m)
    /\ Follows(p, m.session, m.from)
    /\ msgs' = msgs \cup { [type |-> "ready", from |-> p, to |-> {m.from},
                            session |-> m.session, old |-> None] }
    /\ UNCHANGED << network, stage, seen, session, disk, peerstore, held,
                    ready, ran, faults, disturbed >>

(* initiate, readyChan.                                                    *)
ReceiveReady(p, m) ==
    /\ Receives(p, "ready", m)
    /\ LET readyPeers == ready[p] \cup {m.from}
       IN  /\ ready' = [ready EXCEPT ![p] = readyPeers]
           /\ msgs' = IF Ready(p, readyPeers)
                THEN msgs \cup
                       { [type |-> "start", from |-> p,
                          to |-> Members[m.session], session |-> m.session,
                          old |-> held[p][m.session]] }
                ELSE msgs
    /\ UNCHANGED << network, stage, seen, session, disk, peerstore, held, ran,
                    faults, disturbed >>

(* waitForStart, startMsgChn, and Run up to Party.Start: a second start    *)
(* message finds the process started, and one with parameters that are not *)
(* valid ends the session.                                                 *)
Run(p, m) ==
    /\ Receives(p, "start", m)
    /\ Follows(p, m.session, m.from)
    /\ ran[p][m.session] = NotRun
    /\ IF validateStartParams(p, m.session, m.old)
         THEN /\ ran' = [ran EXCEPT ![p][m.session] = m.old]
              /\ UNCHANGED << stage, session, ready >>
         ELSE /\ ran' = [ran EXCEPT ![p][m.session] = Failed]
              /\ Leave(p, "idle")
    /\ UNCHANGED << network, seen, disk, peerstore, held, msgs, faults,
                    disturbed >>

(* tss-lib, external: the protocol ends only if every member of the new    *)
(* topology has started a party with the same parameters; a resharing      *)
(* needs more than threshold old parties, each with a share of that key.   *)
ProtocolCanEnd(e, k) ==
    /\ \A q \in Members[e] : ran[q][e] = k
    /\ e > 1 =>
         /\ Cardinality(OldSubset(e, k)) > Threshold[k]
         /\ \A q \in OldSubset(e, k) : held[q][e] = k

(* p's party of session e has ended.                                       *)
Ends(p) ==
    /\ stage[p] = "executing"
    /\ ran[p][session[p]] >= None
    /\ ProtocolCanEnd(session[p], ran[p][session[p]])

(* processEndMessage and StoreKeyshare; Execute returns.                   *)
End(p) ==
    /\ Ends(p)
    /\ share' = [share EXCEPT ![p] = session[p]]
    /\ Leave(p, "idle")
    /\ UNCHANGED << network, seen, file, peerstore, held, msgs, ran, faults,
                    disturbed >>

(* The same, when the keyshare file is truncated and not written.          *)
EndFails(p) ==
    /\ Fault("keyshare", p)
    /\ Ends(p)
    /\ share' = [share EXCEPT ![p] = None]
    /\ Leave(p, "idle")
    /\ UNCHANGED << network, seen, file, peerstore, held, msgs, ran >>

(* watchExecution: after ten minutes the process is stopped.               *)
Timeout(p) ==
    /\ << p, session[p] >> \in TimingOut
    /\ stage[p] = "executing"
    /\ Leave(p, "idle")
    /\ disturbed' = TRUE
    /\ UNCHANGED << network, seen, disk, peerstore, held, msgs, ran, faults >>

-----------------------------------------------------------------------------
(* p fails, or ends its loop in Run on a signal or a changed configuration. *)
Crash(p) ==
    /\ Fault("crash", p)
    /\ Up(p)
    /\ Leave(p, "down")
    /\ peerstore' = [peerstore EXCEPT ![p] = None]
    /\ seen' = [seen EXCEPT ![p] = None]
    /\ UNCHANGED << network, disk, held, msgs, ran >>

(* Run of app.go: the topology comes from the file or, without one, from   *)
(* the provider, whatever its hash; the listener starts at the head block. *)
Restart(p) ==
    /\ ~Up(p)
    /\ stage' = [stage EXCEPT ![p] = "idle"]
    /\ LET topology == IF file[p] # None THEN file[p] ELSE served
       IN  /\ file' = [file EXCEPT ![p] = topology]
           /\ peerstore' = [peerstore EXCEPT ![p] = topology]
    /\ seen' = [seen EXCEPT ![p] = emitted]
    /\ UNCHANGED << network, session, share, held, ready, msgs, ran, faults,
                    disturbed >>

-----------------------------------------------------------------------------
Next ==
    \/ Publish
    \/ Emit
    \/ \E p \in Peers :
         \/ HandleKeygen(p) \/ HandleRefresh(p) \/ HandleRefreshFails(p)
         \/ Reshare(p)
         \/ End(p) \/ EndFails(p) \/ Timeout(p)
         \/ Crash(p) \/ Restart(p)
    \/ \E m \in msgs : \E p \in m.to :
         ReceiveInitiate(p, m) \/ ReceiveReady(p, m) \/ Run(p, m)

Spec == Init /\ [][Next]_vars

(* A step that takes the handshake of p's session further.                 *)
Advance(p) ==
    \/ Reshare(p)
    \/ \E m \in msgs :
         /\ ReceiveInitiate(p, m) \/ ReceiveReady(p, m) \/ Run(p, m)
         /\ << msgs, ready, ran >>' # << msgs, ready, ran >>

(* Handlers are scheduled, and what is sent to a relayer that listens      *)
(* arrives: initiate messages are repeated until everybody has answered.   *)
Fairness == \A p \in Peers : WF_vars(Advance(p))

FairSpec == Spec /\ Fairness

-----------------------------------------------------------------------------
(* Properties.                                                             *)

Sent(type, p, q, e) ==
    \E m \in msgs : m.type = type /\ m.from = p /\ q \in m.to /\ m.session = e

(* What the local variables of a handler say.                              *)
HandlerInv ==
    \A p \in Peers :
        /\ Up(p) => peerstore[p] \in Events /\ peerstore[p] <= served
        /\ Up(p) /\ seen[p] = None => peerstore[p] = 1
        /\ file[p] <= served
        /\ stage[p] = "stored" => session[p] \in Events
        /\ stage[p] = "executing" =>
             /\ session[p] \in Events
             /\ peerstore[p] = session[p]
             /\ held[p][session[p]] # Unread
             /\ held[p][session[p]] = share[p]

(* Events are handled once and in order, also across crashes: a relayer    *)
(* reads its keyshare for a session at most once.                          *)
SeenInv ==
    /\ emitted <= served /\ served <= emitted + 1
    /\ \A p \in Peers :
         /\ seen[p] <= emitted /\ share[p] <= emitted
         /\ Up(p) => share[p] <= seen[p]
         /\ \A e \in Events : held[p][e] < e /\
              (held[p][e] # Unread => e <= emitted /\ (Up(p) => e <= seen[p]))
         /\ stage[p] \in {"stored", "executing"} =>
              /\ share[p] < session[p] /\ session[p] <= seen[p]
              /\ \A e \in Events : held[p][e] # Unread => e <= session[p]
              /\ file[p] # None => file[p] >= session[p]
         /\ stage[p] = "stored" => held[p][session[p]] = Unread

(* What was sent tells what its sender has read and elected.               *)
Justified(m) ==
    /\ m.to \cup {m.from} \subseteq Members[m.session]
    /\ held[m.from][m.session] # Unread
    /\ m.type \in {"initiate", "start"} =>
         Elected(m.session, held[m.from][m.session], m.from)
    /\ m.type = "initiate" => m.from \notin m.to
    /\ m.type = "ready" =>
         /\ \A c \in m.to : c # m.from /\ Follows(m.from, m.session, c)
         /\ ~Elected(m.session, held[m.from][m.session], m.from)
    /\ m.type = "start" =>
         /\ m.old = held[m.from][m.session]
         /\ \A q \in Members[m.session] \ {m.from} :
              Sent("ready", q, m.from, m.session)

MessageInv == \A m \in msgs : Justified(m)

ReadyInv ==
    \A p \in Peers : Coordinating(p) =>
        \A q \in ready[p] \ {p} : Sent("ready", q, p, session[p])

(* A party runs with the parameters of a start message.                    *)
RanInv ==
    \A p \in Peers, e \in Events : ran[p][e] >= None =>
        \E m \in msgs : m.type = "start" /\ m.session = e /\ m.old = ran[p][e]

(* Each relayer elects its own coordinator from the keyshare it happens to *)
(* hold, and one without a keyshare follows anybody.  Still at most one    *)
(* relayer ever announces the start of a session, because the others of    *)
(* the topology must all have answered it (Execute, waitForStart,          *)
(* Resharing.Ready).                                                       *)
OneCoordinator ==
    \A m, n \in msgs :
        m.type = "start" /\ n.type = "start" /\ m.session = n.session =>
            m.from = n.from

(* All parties of a session run with the parameters of one and the same    *)
(* keyshare, although the relayers may hold keyshares of different         *)
(* refreshes (StartParams, waitForStart, Run).                             *)
PartiesAgree ==
    \A p, q \in Peers, e \in Events :
        ran[p][e] >= None /\ ran[q][e] >= None => ran[p][e] = ran[q][e]

(* The topology a relayer uses, and the one it will use after a crash, is  *)
(* never older than its keyshare: otherwise it could not reach the peers   *)
(* it shares the key with (StoreTopology before the resharing; app.go).    *)
TopologyNotBehindKey ==
    \A p \in Peers :
        /\ Up(p) => peerstore[p] >= share[p]
        /\ file[p] # None => file[p] >= share[p]
        /\ served >= share[p]

(* Where keyshares come from: a refreshed one from a session in which all  *)
(* common members held one and the same older keyshare, and none of them   *)
(* has lost or replaced that since but by the new one or a later one,      *)
(* unless a keyshare file is torn.                                         *)
KeysInv ==
    \A p \in Peers, e \in Events :
        /\ share[p] = e /\ e > 1 =>
             \E k \in Events : k < e /\ \A q \in OldSubset(e, k) : held[q][e] = k
        /\ held[p][e] # Unread =>
             \/ share[p] = held[p][e] \/ share[p] >= e
             \/ \E q \in Peers : << "keyshare", q >> \in faults

(* The invariant that makes OneCoordinator inductive: a start message can  *)
(* be traced back to the ready message of every other member, and a ready  *)
(* message to what its sender elected (initiate, waitForStart).            *)
RefreshInv ==
    /\ TypeOK
    /\ HandlerInv
    /\ SeenInv
    /\ MessageInv
    /\ ReadyInv
    /\ RanInv
    /\ OneCoordinator
    /\ TopologyNotBehindKey
    /\ KeysInv

(* More than threshold relayers hold keyshares of one refresh.             *)
KeyUsable ==
    \E k \in Events : Cardinality({ p \in Peers : share[p] = k }) > Threshold[k]

(* Nobody's keyshare file has been torn.                                   *)
Untorn == \A p \in Peers : << "keyshare", p >> \notin faults

(* Any two topologies have more members in common than both thresholds     *)
(* together.  The code does not ask for it.                                *)
Overlap ==
    \A k, e \in Events : k < e =>
        Cardinality(OldSubset(e, k)) > Threshold[k] + Threshold[e]

(* A refresh replaces keyshares one relayer at a time and any of them may  *)
(* stop before it has stored its own; at every moment enough relayers hold *)
(* keyshares of one refresh to sign, as long as no keyshare file is torn   *)
(* (processEndMessage, Stop).  Needs Overlap.                              *)
KeyKept == [][ KeyUsable /\ Untorn' => KeyUsable' ]_vars

(* Once all members of the topology execute an event's session, all of     *)
(* them, also new ones that cannot know a coordinator, start their party,  *)
(* unless something has gone wrong before (initiate, waitForStart).        *)
RefreshRuns ==
    []<>(\/ disturbed
         \/ \A e \in Events :
              (\A p \in Members[e] : held[p][e] # Unread)
                => \A p \in Members[e] : ran[p][e] >= None)

=============================================================================
