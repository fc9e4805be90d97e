-------------------------- MODULE KeyRefreshProofs --------------------------
(* Proofs about KeyRefresh, for every network, every sequence of           *)
(* topologies and every choice of what crashes, times out or fails.        *)
EXTENDS KeyRefresh, FiniteSetTheorems, WellFoundedInduction, TLAPS

(* Events and keyshares are ordered numbers.                               *)
LEMMA EventFacts ==
    /\ 1 \in Events /\ None \in Versions /\ None \notin Events
    /\ Events \subseteq Versions /\ Versions \subseteq Int
    /\ \A v \in Versions : v >= None /\ (v # None => v \in Events /\ v >= 1)
    /\ Unread \notin Versions /\ NotRun \notin Versions /\ Failed \notin Versions
    /\ \A i \in Int, v \in Versions : 1 <= i /\ i <= v => i \in Events
BY EventsAssumption DEF Events, Versions, None, Unread, NotRun, Failed

(* What p's own variables say: p's part of HandlerInv, SeenInv and         *)
(* TopologyNotBehindKey.                                                   *)
Own(p) ==
    /\ Up(p) => /\ peerstore[p] \in Events /\ peerstore[p] <= served
                /\ seen[p] = None => peerstore[p] = 1
                /\ share[p] <= seen[p] /\ peerstore[p] >= share[p]
    /\ file[p] <= served /\ seen[p] <= emitted
    /\ share[p] <= emitted /\ served >= share[p]
    /\ file[p] # None => file[p] >= share[p]
    /\ \A e \in Events : held[p][e] < e /\
         (held[p][e] # Unread => e <= emitted /\ (Up(p) => e <= seen[p]))
    /\ stage[p] \in {"stored", "executing"} =>
         /\ session[p] \in Events /\ session[p] <= seen[p]
         /\ share[p] < session[p]
         /\ \A e \in Events : held[p][e] # Unread => e <= session[p]
         /\ file[p] # None => file[p] >= session[p]
    /\ stage[p] = "stored" => held[p][session[p]] = Unread
    /\ stage[p] = "executing" =>
         /\ peerstore[p] = session[p]
         /\ held[p][session[p]] # Unread
         /\ held[p][session[p]] = share[p]

(* The admin publishes a topology, then emits its event.                   *)
Clock == emitted <= served /\ served <= emitted + 1

(* The half of RefreshInv that is about the relayers' own variables.       *)
LocalInv == TypeOK /\ HandlerInv /\ SeenInv /\ TopologyNotBehindKey

(* The relayers' variables, one relayer at a time.                         *)
LEMMA OwnIsLocal ==
    LocalInv <=> TypeOK /\ Clock /\ \A p \in Peers : Own(p)
<1>1. HandlerInv /\ SeenInv /\ TopologyNotBehindKey <=>
        Clock /\ \A p \in Peers : Own(p)
  BY DEF HandlerInv, SeenInv, TopologyNotBehindKey, Clock, Own
<1> QED
  BY <1>1 DEF LocalInv

(* The same after a step.                                                  *)
LEMMA OwnIsLocalNext ==
    LocalInv' <=> TypeOK' /\ Clock' /\ \A p \in Peers : Own(p)'
<1>1. (HandlerInv /\ SeenInv /\ TopologyNotBehindKey)' <=>
        Clock' /\ \A p \in Peers : Own(p)'
  BY DEF HandlerInv, SeenInv, TopologyNotBehindKey, Clock, Own
<1> QED
  BY <1>1 DEF LocalInv

(* A step of p leaves the variables of the others alone.                   *)
LEMMA StepOf ==
    ASSUME LocalInv, TypeOK', NEW p \in Peers, Own(p)',
           UNCHANGED << served, emitted >>,
           \A q \in Peers \ {p} :
             /\ stage'[q] = stage[q] /\ seen'[q] = seen[q]
             /\ session'[q] = session[q] /\ file'[q] = file[q]
             /\ peerstore'[q] = peerstore[q] /\ share'[q] = share[q]
             /\ held'[q] = held[q]
    PROVE  LocalInv'
<1>1. Clock'
  BY OwnIsLocal DEF Clock
<1>2. ASSUME NEW q \in Peers, q # p
      PROVE  Own(q)'
  <2>1. Own(q)
    BY OwnIsLocal
  <2>2. QED
    BY <1>2, <2>1 DEF Own, Up
<1> QED
  BY <1>1, <1>2, OwnIsLocalNext

(* A topology is served or an event emitted: nobody has handled it yet.    *)
LEMMA AdminLocal ==
    ASSUME LocalInv, Publish \/ Emit
    PROVE  LocalInv'
<1>1. TypeOK /\ Clock /\ \A p \in Peers : Own(p)
  BY OwnIsLocal
<1>2. CASE Publish
  <2>1. /\ served' = served + 1 /\ served = emitted /\ served < MaxEvents
        /\ UNCHANGED << emitted, order, stage, seen, session, file, share,
                        peerstore, held, ready, msgs, ran, faults, disturbed >>
    BY <1>2 DEF Publish, disk
  <2>2. TypeOK'
    BY <1>1, <2>1, EventsAssumption DEF TypeOK, Events
  <2>3. Clock'
    BY <1>1, <2>1, EventFacts DEF Clock, TypeOK
  <2>4. ASSUME NEW p \in Peers PROVE Own(p)'
    <3>1. /\ Own(p) /\ served \in Int /\ file[p] \in Int /\ share[p] \in Int
          /\ peerstore[p] \in Int
      BY <1>1, EventFacts DEF TypeOK
    <3>2. QED
      BY <2>1, <3>1 DEF Own, Up
  <2>5. QED
    BY <2>2, <2>3, <2>4, OwnIsLocalNext
<1>3. CASE Emit
  <2>1. /\ emitted' = served /\ emitted < served
        /\ \E r \in Orders[served] : order' = [order EXCEPT ![served] = r]
        /\ disturbed' \in BOOLEAN
        /\ UNCHANGED << served, stage, seen, session, file, share, peerstore,
                        held, ready, msgs, ran, faults >>
    BY <1>1, <1>3 DEF Emit, disk, TypeOK
  <2>2. TypeOK'
    <3>1. served \in Events /\ served \in Versions
      BY <1>1, EventFacts DEF TypeOK
    <3>2. order' \in [Events -> [Peers -> Nat]]
      BY <1>1, <2>1, <3>1, OrdersAssumption DEF TypeOK
    <3>3. QED
      BY <1>1, <2>1, <3>1, <3>2 DEF TypeOK
  <2>3. Clock'
    BY <1>1, <2>1, EventFacts DEF Clock, TypeOK
  <2>4. ASSUME NEW p \in Peers PROVE Own(p)'
    <3>1. /\ Own(p) /\ served \in Int /\ emitted \in Int /\ seen[p] \in Int
          /\ share[p] \in Int
          /\ \A e \in Events : e \in Int
      BY <1>1, EventFacts DEF TypeOK
    <3>2. QED
      BY <2>1, <3>1 DEF Own, Up
  <2>5. QED
    BY <2>2, <2>3, <2>4, OwnIsLocalNext
<1>4. QED
  BY <1>2, <1>3

(* p reads its keyshare for an event it has not read it for.               *)
LEMMA ExecuteLocal ==
    ASSUME LocalInv, NEW p \in Peers, NEW e \in Events, Execute(p, e),
           held[p][e] = Unread, e <= seen'[p], Up(p),
           seen' \in [Peers -> Versions], session' \in [Peers -> Versions],
           peerstore' \in [Peers -> Versions],
           seen[p] <= seen'[p], seen'[p] <= emitted, session'[p] = e, peerstore'[p] = e,
           file[p] # None => file[p] >= e,
           share[p] < e, \A d \in Events : held[p][d] # Unread => d <= e,
           \A q \in Peers \ {p} :
             /\ seen'[q] = seen[q] /\ session'[q] = session[q]
             /\ peerstore'[q] = peerstore[q],
           UNCHANGED << network, disk, ran, faults, disturbed >>
    PROVE  LocalInv'
<1>1. TypeOK /\ Clock /\ Own(p)
  BY OwnIsLocal
<1>2. /\ stage' = [stage EXCEPT ![p] = "executing"]
      /\ held' = [held EXCEPT ![p][e] = share[p]]
      /\ UNCHANGED << served, emitted, order, file, share, ran, faults, disturbed >>
  BY DEF Execute, network, disk
<1>3. /\ stage' \in [Peers -> {"down", "idle", "stored", "executing"}]
      /\ stage'[p] = "executing"
      /\ \A q \in Peers \ {p} : stage'[q] = stage[q]
  BY <1>1, <1>2 DEF TypeOK
<1>4. /\ held' \in [Peers -> [Events -> Versions \cup {Unread}]]
      /\ held'[p][e] = share[p]
      /\ \A d \in Events \ {e} : held'[p][d] = held[p][d]
      /\ \A q \in Peers \ {p} : held'[q] = held[q]
  BY <1>1, <1>2 DEF TypeOK
<1>5. ready' \in [Peers -> SUBSET Peers] /\ msgs' \subseteq Message
  <2>1. Members[e] \subseteq Peers /\ None \in Versions
    BY TopologyAssumption, EventFacts
  <2>2. ready' = ready \/ ready' = [ready EXCEPT ![p] = {p}]
    BY DEF Execute
  <2>3. ready' \in [Peers -> SUBSET Peers]
    <3>1. ready \in [Peers -> SUBSET Peers] /\ {p} \in SUBSET Peers
      BY <1>1 DEF TypeOK
    <3>2. CASE ready' = ready
      BY <3>1, <3>2
    <3>3. CASE ready' = [ready EXCEPT ![p] = {p}]
      BY <3>1, <3>3
    <3>4. QED
      BY <2>2, <3>2, <3>3
  <2>4. \/ msgs' = msgs
        \/ msgs' = msgs \cup
             { [type |-> "initiate", from |-> p, to |-> Members[e] \ {p},
                session |-> e, old |-> None] }
    BY DEF Execute
  <2>5. msgs' \subseteq Message
    BY <1>1, <2>1, <2>4 DEF TypeOK, Message
  <2>6. QED
    BY <2>3, <2>5
<1>6. TypeOK'
  BY <1>1, <1>2, <1>3, <1>4, <1>5 DEF TypeOK
<1>7. Own(p)'
  <2>1. /\ seen[p] \in Int /\ seen'[p] \in Int /\ emitted \in Int
        /\ served \in Int /\ share[p] \in Versions /\ share[p] \in Int
        /\ share[p] # Unread /\ file[p] \in Int /\ e >= 1 /\ e \in Int
        /\ \A d \in Events : d \in Int
        /\ None = 0
    <3>1. None = 0 /\ e >= 1
      BY DEF None, Events
    <3>2. QED
      BY <1>1, <3>1, EventFacts DEF TypeOK
  <2>2. Clock
    BY <1>1
  <2>3. QED
    BY <1>1, <1>2, <1>3, <1>4, <2>1 DEF Own, Up, Clock
<1>8. QED
  BY <1>2, <1>3, <1>4, <1>6, <1>7, StepOf

(* p handles the keygen event.                                             *)
LEMMA HandleKeygenLocal ==
    ASSUME LocalInv, NEW p \in Peers, HandleKeygen(p)
    PROVE  LocalInv'
<1>1. TypeOK /\ Own(p)
  BY OwnIsLocal
<1>2. /\ stage[p] = "idle" /\ seen[p] = None /\ emitted >= 1 /\ share[p] = None
      /\ seen' = [seen EXCEPT ![p] = 1] /\ session' = [session EXCEPT ![p] = 1]
      /\ Execute(p, 1) /\ peerstore' = peerstore
      /\ UNCHANGED << network, disk, ran, faults, disturbed >>
  BY DEF HandleKeygen
<1>3. 1 \in Events /\ 1 \in Versions /\ file[p] \in Versions /\ Up(p)
  BY <1>1, <1>2, EventFacts DEF TypeOK, Up
<1>4. /\ seen' \in [Peers -> Versions] /\ seen'[p] = 1
      /\ session' \in [Peers -> Versions] /\ session'[p] = 1
      /\ \A q \in Peers \ {p} : seen'[q] = seen[q] /\ session'[q] = session[q]
      /\ peerstore' \in [Peers -> Versions]
  BY <1>1, <1>2, <1>3 DEF TypeOK
<1>5. held[p][1] = Unread
  BY <1>1, <1>2, <1>3 DEF Own, None
<1>6. peerstore'[p] = 1 /\ (file[p] # None => file[p] >= 1)
  BY <1>1, <1>2, <1>3, EventFacts DEF Own
<1>7. /\ seen[p] <= 1 /\ share[p] < 1
      /\ \A d \in Events : held[p][d] # Unread => d <= 1
  <2>1. \A d \in Events : d >= 1 /\ d \in Int
    BY DEF Events
  <2>2. QED
    BY <1>1, <1>2, <1>3, <2>1 DEF Own, None
<1>8. QED
  BY <1>2, <1>3, <1>4, <1>5, <1>6, <1>7, ExecuteLocal

(* p goes on to execute the resharing it has stored the topology of.       *)
LEMMA ReshareLocal ==
    ASSUME LocalInv, NEW p \in Peers, Reshare(p)
    PROVE  LocalInv'
<1>1. TypeOK /\ Own(p)
  BY OwnIsLocal
<1>2. /\ stage[p] = "stored"
      /\ peerstore' = [peerstore EXCEPT ![p] = session[p]]
      /\ Execute(p, session[p])
      /\ UNCHANGED << network, seen, session, disk, ran, faults, disturbed >>
  BY DEF Reshare
<1>3. /\ session[p] \in Events /\ session[p] <= seen[p]
      /\ held[p][session[p]] = Unread
      /\ Up(p) /\ (file[p] # None => file[p] >= session[p])
  BY <1>1, <1>2 DEF Own, Up
<1>4. /\ share[p] < session[p] /\ seen[p] <= emitted /\ seen[p] <= seen[p]
      /\ \A d \in Events : held[p][d] # Unread => d <= session[p]
  <2>1. seen[p] \in Int
    BY <1>1, EventFacts DEF TypeOK
  <2>2. QED
    BY <1>1, <1>2, <2>1 DEF Own
<1>5. session[p] \in Versions
  BY <1>1 DEF TypeOK
<1>6. /\ peerstore' \in [Peers -> Versions] /\ peerstore'[p] = session[p]
      /\ \A q \in Peers \ {p} : peerstore'[q] = peerstore[q]
      /\ seen' \in [Peers -> Versions] /\ session' \in [Peers -> Versions]
  BY <1>1, <1>2, <1>5 DEF TypeOK
<1>7. QED
  BY <1>2, <1>3, <1>4, <1>6, ExecuteLocal

(* What a fault records.                                                   *)
LEMMA FaultTyped ==
    ASSUME TypeOK, NEW p \in Peers,
           NEW kind \in {"topology", "keyshare", "crash"}, Fault(kind, p)
    PROVE  /\ faults' \subseteq {"topology", "keyshare", "crash"} \X Peers
           /\ disturbed' \in BOOLEAN
BY DEF TypeOK, Fault

(* p goes on to the next block range, with or without a refresh event that *)
(* it stores the topology of.                                              *)
LEMMA HandleRefreshLocal ==
    ASSUME LocalInv, NEW p \in Peers, HandleRefresh(p) \/ HandleRefreshFails(p)
    PROVE  LocalInv'
<1>1. TypeOK /\ Own(p) /\ Clock
  BY OwnIsLocal
<1>2. PICK last \in Events :
        /\ stage[p] = "idle" /\ seen[p] >= 1 /\ last \in seen[p] + 1 .. emitted
        /\ seen' = [seen EXCEPT ![p] = last]
        /\ \/ /\ served = seen[p] + 1
              /\ session' = [session EXCEPT ![p] = seen[p] + 1]
              /\ file' = [file EXCEPT ![p] = seen[p] + 1]
              /\ stage' = [stage EXCEPT ![p] = "stored"]
           \/ UNCHANGED << session, stage, file >>
           \/ /\ UNCHANGED << session, stage >>
              /\ \E f \in {file[p], None} : file' = [file EXCEPT ![p] = f]
  <2>1. CASE HandleRefresh(p)
    BY <2>1 DEF HandleRefresh, NextRange
  <2>2. CASE HandleRefreshFails(p)
    BY <2>2 DEF HandleRefreshFails, NextRange
  <2>3. QED
    BY <2>1, <2>2
<1>3. /\ UNCHANGED << served, emitted, order, share, peerstore, held, ready, msgs, ran >>
      /\ faults' \subseteq {"topology", "keyshare", "crash"} \X Peers
      /\ disturbed' \in BOOLEAN
  <2>1. CASE HandleRefresh(p)
    <3>1. /\ UNCHANGED << network, share, peerstore, held, ready, msgs, ran, faults >>
          /\ disturbed' \in BOOLEAN
      BY <2>1 DEF HandleRefresh
    <3>2. QED
      BY <1>1, <3>1 DEF network, TypeOK
  <2>2. CASE HandleRefreshFails(p)
    <3>1. /\ UNCHANGED << network, share, peerstore, held, ready, msgs, ran >>
          /\ Fault("topology", p)
      BY <2>2 DEF HandleRefreshFails
    <3>2. QED
      BY <1>1, <3>1, FaultTyped DEF network
  <2>3. QED
    BY <2>1, <2>2
<1>4. /\ seen[p] \in Int /\ emitted \in Versions /\ emitted \in Int
      /\ served \in Int /\ last \in Int /\ last \in Versions
      /\ file[p] \in Versions /\ file[p] \in Int /\ share[p] \in Int
      /\ None \in Versions /\ None = 0
      /\ \A e \in Events : e \in Int
      /\ \A d \in Events : held[p][d] # Unread => d <= seen[p]
  BY <1>1, <1>2, EventFacts DEF TypeOK, None, Own, Up
<1>5. seen[p] + 1 \in Events /\ seen[p] + 1 \in Versions
  BY <1>2, <1>4, EventFacts
<1>6. TypeOK'
  <2>0. /\ seen \in [Peers -> Versions] /\ session \in [Peers -> Versions]
        /\ file \in [Peers -> Versions]
    BY <1>1 DEF TypeOK
  <2>1. seen' \in [Peers -> Versions]
    BY <1>2, <1>4, <2>0
  <2>2. session' \in [Peers -> Versions] /\ file' \in [Peers -> Versions]
    <3>1. CASE /\ session' = [session EXCEPT ![p] = seen[p] + 1]
               /\ file' = [file EXCEPT ![p] = seen[p] + 1]
      <4> DEFINE e == seen[p] + 1
      <4>1. e \in Versions
        BY <1>5
      <4> HIDE DEF e
      <4>2. session' = [session EXCEPT ![p] = e] /\ file' = [file EXCEPT ![p] = e]
        BY <3>1 DEF e
      <4>3. QED
        BY <2>0, <4>1, <4>2
    <3>2. CASE session' = session /\ file' = file
      BY <2>0, <3>2
    <3>3. CASE /\ session' = session
               /\ \E f \in {file[p], None} : file' = [file EXCEPT ![p] = f]
      BY <1>4, <2>0, <3>3
    <3>4. QED
      BY <1>2, <3>1, <3>2, <3>3
  <2>3. stage' \in [Peers -> {"down", "idle", "stored", "executing"}]
    BY <1>1, <1>2 DEF TypeOK
  <2>4. QED
    BY <1>1, <1>3, <2>1, <2>2, <2>3 DEF TypeOK
<1>7. /\ seen'[p] = last
      /\ \/ /\ served = seen[p] + 1 /\ session'[p] = seen[p] + 1
            /\ file'[p] = seen[p] + 1 /\ stage'[p] = "stored"
         \/ /\ session'[p] = session[p] /\ stage'[p] = "idle"
            /\ file'[p] \in {file[p], None}
  BY <1>1, <1>2 DEF TypeOK
<1>8. \A q \in Peers \ {p} :
        /\ stage'[q] = stage[q] /\ seen'[q] = seen[q]
        /\ session'[q] = session[q] /\ file'[q] = file[q]
  BY <1>1, <1>2 DEF TypeOK
<1>9. Own(p)'
  <2>1. CASE /\ session'[p] = session[p] /\ stage'[p] = "idle"
             /\ file'[p] \in {file[p], None}
    BY <1>1, <1>2, <1>3, <1>4, <1>5, <1>7, <2>1 DEF Own, Up, Clock
  <2>2. CASE /\ served = seen[p] + 1 /\ session'[p] = seen[p] + 1
             /\ file'[p] = seen[p] + 1 /\ stage'[p] = "stored"
    <3>1. held[p][seen[p] + 1] = Unread
      BY <1>4, <1>5
    <3>2. QED
      BY <1>1, <1>2, <1>3, <1>4, <1>5, <1>7, <2>2, <3>1 DEF Own, Up, Clock
  <2>3. QED
    BY <1>7, <2>1, <2>2
<1>10. QED
  BY <1>3, <1>6, <1>8, <1>9, StepOf

(* Execute returns on p, with a keyshare or without, or p crashes.         *)
LEMMA LeaveLocal ==
    ASSUME LocalInv, NEW p \in Peers,
           End(p) \/ EndFails(p) \/ Timeout(p) \/ Crash(p)
    PROVE  LocalInv'
<1>1. TypeOK /\ Own(p) /\ Clock
  BY OwnIsLocal
<1>2. \E where \in {"idle", "down"} : Leave(p, where)
  BY DEF End, EndFails, Timeout, Crash
<1>3. /\ stage' \in [Peers -> {"down", "idle", "stored", "executing"}]
      /\ stage'[p] \in {"idle", "down"}
      /\ session' \in [Peers -> Versions] /\ ready' \in [Peers -> SUBSET Peers]
      /\ \A q \in Peers \ {p} : stage'[q] = stage[q] /\ session'[q] = session[q]
  BY <1>1, <1>2, EventFacts DEF Leave, TypeOK
<1>4. /\ UNCHANGED << served, emitted, order, file, held, msgs, ran >>
      /\ faults' \subseteq {"topology", "keyshare", "crash"} \X Peers
      /\ disturbed' \in BOOLEAN
  <2>1. UNCHANGED << served, emitted, order, file, held, msgs, ran >>
    BY DEF End, EndFails, Timeout, Crash, network, disk
  <2>2. CASE End(p) \/ Timeout(p)
    BY <1>1, <2>1, <2>2 DEF End, Timeout, TypeOK
  <2>3. CASE EndFails(p) \/ Crash(p)
    <3>1. Fault("keyshare", p) \/ Fault("crash", p)
      BY <2>3 DEF EndFails, Crash
    <3>2. QED
      BY <1>1, <2>1, <3>1, FaultTyped
  <2>4. QED
    BY <2>2, <2>3
<1>5. /\ Up(p)
      /\ \/ share' = share
         \/ stage[p] = "executing" /\ share' = [share EXCEPT ![p] = session[p]]
         \/ share' = [share EXCEPT ![p] = None]
  BY DEF End, EndFails, Ends, Timeout, Crash, Up, disk
<1>6. \/ UNCHANGED << seen, peerstore >>
      \/ /\ stage'[p] = "down"
         /\ peerstore' = [peerstore EXCEPT ![p] = None]
         /\ seen' = [seen EXCEPT ![p] = None]
  <2>1. CASE Crash(p)
    BY <1>1, <2>1 DEF Crash, Leave, TypeOK
  <2>2. CASE End(p) \/ EndFails(p) \/ Timeout(p)
    BY <2>2 DEF End, EndFails, Timeout
  <2>3. QED
    BY <2>1, <2>2
<1>7. /\ share' \in [Peers -> Versions] /\ seen' \in [Peers -> Versions]
      /\ peerstore' \in [Peers -> Versions]
      /\ \A q \in Peers \ {p} :
           share'[q] = share[q] /\ seen'[q] = seen[q] /\ peerstore'[q] = peerstore[q]
      /\ \/ share'[p] \in {share[p], None}
         \/ stage[p] = "executing" /\ share'[p] = session[p]
      /\ \/ seen'[p] = seen[p] /\ peerstore'[p] = peerstore[p]
         \/ stage'[p] = "down" /\ seen'[p] = None
  <2>1. /\ share \in [Peers -> Versions] /\ seen \in [Peers -> Versions]
        /\ peerstore \in [Peers -> Versions] /\ session[p] \in Versions
        /\ None \in Versions
    BY <1>1, EventFacts DEF TypeOK
  <2>2. /\ share' \in [Peers -> Versions]
        /\ \A q \in Peers \ {p} : share'[q] = share[q]
        /\ \/ share'[p] \in {share[p], None}
           \/ stage[p] = "executing" /\ share'[p] = session[p]
    BY <1>5, <2>1
  <2>3. /\ seen' \in [Peers -> Versions] /\ peerstore' \in [Peers -> Versions]
        /\ \A q \in Peers \ {p} : seen'[q] = seen[q] /\ peerstore'[q] = peerstore[q]
        /\ \/ seen'[p] = seen[p] /\ peerstore'[p] = peerstore[p]
           \/ stage'[p] = "down" /\ seen'[p] = None
    BY <1>6, <2>1
  <2>4. QED
    BY <2>2, <2>3
<1>8. TypeOK'
  BY <1>1, <1>3, <1>4, <1>7 DEF TypeOK
<1>9. Own(p)'
  <2>1. /\ seen[p] \in Int /\ seen[p] >= 0 /\ emitted \in Int /\ emitted >= 0
        /\ served \in Int /\ served >= 0 /\ peerstore[p] \in Int
        /\ file[p] \in Int /\ file[p] >= 0 /\ share[p] \in Int
        /\ session[p] \in Int /\ peerstore[p] >= 0
        /\ None = 0
        /\ \A e \in Events : e \in Int
    BY <1>1, EventFacts DEF TypeOK, None
  <2>2. QED
    BY <1>1, <1>3, <1>4, <1>5, <1>7, <2>1 DEF Own, Up, Clock
<1>10. QED
  BY <1>3, <1>4, <1>7, <1>8, <1>9, StepOf

(* p starts again: it has seen what was emitted, and it has handled        *)
(* nothing that was not.                                                   *)
LEMMA RestartLocal ==
    ASSUME LocalInv, NEW p \in Peers, Restart(p)
    PROVE  LocalInv'
<1>1. TypeOK /\ Own(p) /\ Clock
  BY OwnIsLocal
<1>2. PICK topology \in Versions :
        /\ topology = IF file[p] # None THEN file[p] ELSE served
        /\ file' = [file EXCEPT ![p] = topology]
        /\ peerstore' = [peerstore EXCEPT ![p] = topology]
  BY <1>1, EventFacts DEF Restart, TypeOK
<1>3. /\ stage' = [stage EXCEPT ![p] = "idle"]
      /\ seen' = [seen EXCEPT ![p] = emitted]
      /\ UNCHANGED << served, emitted, order, session, share, held, ready, msgs, ran,
                      faults, disturbed >>
  BY DEF Restart, network
<1>4. TypeOK'
  BY <1>1, <1>2, <1>3 DEF TypeOK
<1>5. /\ stage'[p] = "idle" /\ seen'[p] = emitted
      /\ file'[p] = topology /\ peerstore'[p] = topology
      /\ \A q \in Peers \ {p} :
           /\ stage'[q] = stage[q] /\ seen'[q] = seen[q]
           /\ file'[q] = file[q] /\ peerstore'[q] = peerstore[q]
  BY <1>1, <1>2, <1>3 DEF TypeOK
<1>6. /\ topology \in Events /\ topology <= served /\ topology >= share[p]
      /\ emitted = None => topology = 1
  <2>1. /\ emitted \in Int /\ served \in Int /\ served \in Events
        /\ file[p] \in Int /\ (file[p] # None => file[p] \in Events /\ file[p] >= 1)
        /\ None = 0 /\ served >= 1
    BY <1>1, EventFacts DEF TypeOK, None
  <2>2. QED
    BY <1>1, <1>2, <2>1 DEF Own, Clock
<1>7. Own(p)'
  <2>1. /\ emitted \in Int /\ served \in Int /\ topology \in Int
        /\ \A e \in Events : e \in Int
    BY <1>1, EventFacts DEF TypeOK
  <2>2. QED
    BY <1>1, <1>3, <1>5, <1>6, <2>1 DEF Own, Up, Clock
<1>8. QED
  BY <1>3, <1>4, <1>5, <1>7, StepOf

(* A message is received; a party is started or refuses to.                *)
LEMMA ReceiveLocal ==
    ASSUME LocalInv, NEW m \in msgs, NEW p \in m.to,
           ReceiveInitiate(p, m) \/ ReceiveReady(p, m) \/ Run(p, m)
    PROVE  LocalInv'
<1>1. TypeOK /\ Clock
  BY OwnIsLocal
<1>2. /\ p \in Peers /\ m.from \in Peers /\ m.session \in Events
      /\ m.old \in Versions /\ Own(p)
  BY <1>1, OwnIsLocal DEF TypeOK, Message
<1>3. UNCHANGED << served, emitted, order, seen, file, share, peerstore, held,
                   faults, disturbed >>
  BY DEF ReceiveInitiate, ReceiveReady, Run, network, disk
<1>4. \/ UNCHANGED << stage, session >>
      \/ /\ stage' = [stage EXCEPT ![p] = "idle"]
         /\ session' = [session EXCEPT ![p] = None]
  BY DEF ReceiveInitiate, ReceiveReady, Run, Leave
<1>5. msgs' \subseteq Message
  <2>1. /\ m.session = session[p] /\ stage[p] = "executing" => session[p] \in Events
        /\ Members[m.session] \subseteq Peers /\ None \in Versions
    BY <1>2, TopologyAssumption, EventFacts DEF ReceiveInitiate, ReceiveReady, Run,
       Receives
  <2>2. CASE ReceiveInitiate(p, m)
    BY <1>1, <1>2, <2>1, <2>2 DEF ReceiveInitiate, TypeOK, Message
  <2>3. CASE ReceiveReady(p, m)
    <3>1. m.session = session[p] /\ stage[p] = "executing"
      BY <2>3 DEF ReceiveReady, Receives
    <3>2. held[p][m.session] \in Versions
      BY <1>1, <1>2, <3>1 DEF Own, TypeOK
    <3>3. QED
      BY <1>1, <1>2, <2>1, <2>3, <3>2 DEF ReceiveReady, TypeOK, Message
  <2>4. CASE Run(p, m)
    BY <1>1, <2>4 DEF Run, TypeOK
  <2>5. QED
    BY <2>2, <2>3, <2>4
<1>6. ready' \in [Peers -> SUBSET Peers]
  BY <1>1, <1>2 DEF ReceiveInitiate, ReceiveReady, Run, Leave, TypeOK
<1>7. ran' \in [Peers -> [Events -> Versions \cup {NotRun, Failed}]]
  <2>1. \/ ran' = ran
        \/ \E v \in {m.old, Failed} : ran' = [ran EXCEPT ![p][m.session] = v]
    BY DEF ReceiveInitiate, ReceiveReady, Run
  <2>2. ASSUME NEW v \in {m.old, Failed}, ran' = [ran EXCEPT ![p][m.session] = v]
        PROVE  ran' \in [Peers -> [Events -> Versions \cup {NotRun, Failed}]]
    <3>1. v \in Versions \cup {NotRun, Failed}
      BY <1>2
    <3>2. QED
      BY <1>1, <1>2, <2>2, <3>1 DEF TypeOK
  <2>3. QED
    BY <1>1, <2>1, <2>2 DEF TypeOK
<1>8. /\ stage' \in [Peers -> {"down", "idle", "stored", "executing"}]
      /\ session' \in [Peers -> Versions]
      /\ \A q \in Peers \ {p} : stage'[q] = stage[q] /\ session'[q] = session[q]
      /\ \/ stage'[p] = stage[p] /\ session'[p] = session[p]
         \/ stage'[p] = "idle"
  <2>1. /\ stage \in [Peers -> {"down", "idle", "stored", "executing"}]
        /\ session \in [Peers -> Versions] /\ None \in Versions
    BY <1>1, EventFacts DEF TypeOK
  <2>2. CASE UNCHANGED << stage, session >>
    BY <2>1, <2>2
  <2>3. CASE /\ stage' = [stage EXCEPT ![p] = "idle"]
             /\ session' = [session EXCEPT ![p] = None]
    BY <1>2, <2>1, <2>3
  <2>4. QED
    BY <1>4, <2>2, <2>3
<1>9. TypeOK'
  BY <1>1, <1>3, <1>5, <1>6, <1>7, <1>8 DEF TypeOK
<1>10. Up(p)
  BY DEF ReceiveInitiate, ReceiveReady, Run, Receives, Up
<1>11. Own(p)'
  BY <1>2, <1>3, <1>8, <1>10 DEF Own, Up
<1>12. QED
  BY <1>2, <1>3, <1>8, <1>9, <1>11, StepOf

(* A relayer's own variables stay consistent, whatever happens.            *)
LEMMA LocalPreserved ==
    ASSUME LocalInv, [Next]_vars
    PROVE  LocalInv'
<1>1. CASE UNCHANGED vars
  BY <1>1 DEF vars, network, disk, LocalInv, TypeOK, HandlerInv, SeenInv, Up,
     TopologyNotBehindKey
<1>2. CASE Next
  BY <1>2, AdminLocal, HandleKeygenLocal, HandleRefreshLocal, ReshareLocal,
     LeaveLocal, RestartLocal, ReceiveLocal DEF Next
<1>3. QED
  BY <1>1, <1>2

-----------------------------------------------------------------------------
(* The messages of a session.                                              *)

(* What was read for a session, and the order of the peers in it, is for   *)
(* ever.                                                                   *)
Kept ==
    \A q \in Peers, e \in Events : held[q][e] # Unread =>
        held'[q][e] = held[q][e] /\ order'[e] = order[e]

(* Events are handled once, so a keyshare is read once for each of them.   *)
LEMMA HeldIsKept ==
    ASSUME LocalInv, [Next]_vars
    PROVE  Kept
<1>1. TypeOK /\ Clock /\ \A q \in Peers : Own(q)
  BY OwnIsLocal
<1>2. CASE UNCHANGED << held, order >>
  BY <1>2 DEF Kept
<1>3. ASSUME NEW p \in Peers, NEW e \in Events, Execute(p, e), held[p][e] = Unread,
             order' = order
      PROVE  Kept
  <2>1. held' = [held EXCEPT ![p][e] = share[p]]
    BY <1>3 DEF Execute
  <2>2. QED
    BY <1>1, <1>3, <2>1 DEF Kept, TypeOK
<1>4. ASSUME NEW p \in Peers, HandleKeygen(p)
      PROVE  Kept
  <2>1. Execute(p, 1) /\ order' = order /\ stage[p] = "idle" /\ seen[p] = 0
    BY <1>4 DEF HandleKeygen, network, None
  <2>2. 1 \in Events /\ held[p][1] = Unread
    BY <1>1, <2>1, EventFacts DEF Own, Up
  <2>3. QED
    BY <1>3, <2>1, <2>2
<1>5. ASSUME NEW p \in Peers, Reshare(p)
      PROVE  Kept
  <2>1. Execute(p, session[p]) /\ order' = order /\ stage[p] = "stored"
    BY <1>5 DEF Reshare, network
  <2>2. session[p] \in Events /\ held[p][session[p]] = Unread
    BY <1>1, <2>1 DEF Own
  <2>3. QED
    BY <1>3, <2>1, <2>2
<1>6. CASE Emit
  <2>1. /\ held' = held /\ emitted < served
        /\ \E r \in Orders[served] : order' = [order EXCEPT ![served] = r]
    BY <1>6 DEF Emit
  <2>2. ASSUME NEW q \in Peers, NEW e \in Events, held[q][e] # Unread
        PROVE  order'[e] = order[e]
    <3>1. e <= emitted /\ e \in Int /\ emitted \in Int /\ served \in Int
      BY <1>1, <2>2, EventFacts DEF Own, TypeOK
    <3>2. e # served
      BY <2>1, <3>1
    <3>3. QED
      BY <1>1, <2>1, <3>2 DEF TypeOK
  <2>3. QED
    BY <2>1, <2>2 DEF Kept
<1>7. \/ UNCHANGED << held, order >>
      \/ Emit
      \/ \E p \in Peers : HandleKeygen(p) \/ Reshare(p)
  BY DEF Next, vars, network, Publish, HandleRefresh, HandleRefreshFails, End, EndFails,
     Timeout, Crash, Restart, ReceiveInitiate, ReceiveReady, Run
<1>8. QED
  BY <1>2, <1>4, <1>5, <1>6, <1>7

(* So is whom a relayer elects and follows.                                *)
LEMMA ElectionIsKept ==
    ASSUME Kept, NEW q \in Peers, NEW e \in Events, held[q][e] # Unread, NEW c
    PROVE  /\ Elected(e, held[q][e], c)' <=> Elected(e, held[q][e], c)
           /\ Follows(q, e, c)' <=> Follows(q, e, c)
<1>1. held'[q][e] = held[q][e] /\ order'[e] = order[e]
  BY DEF Kept
<1>2. Elected(e, held[q][e], c)' <=> Elected(e, held[q][e], c)
  BY <1>1 DEF Elected, ValidCoordinators, KeyPeers
<1>3. QED
  BY <1>1, <1>2 DEF Follows, ValidCoordinators, KeyPeers

(* Messages are never taken back, so what justified one goes on to.        *)
LEMMA JustifiedIsKept ==
    ASSUME TypeOK, Kept, msgs \subseteq msgs', NEW m \in msgs, Justified(m)
    PROVE  Justified(m)'
<1>1. m.from \in Peers /\ m.session \in Events
  BY DEF TypeOK, Message
<1>2. held[m.from][m.session] # Unread /\ held'[m.from][m.session] = held[m.from][m.session]
  BY <1>1 DEF Justified, Kept
<1>3. held'[m.from][m.session] # Unread
  BY <1>2
<1>4. \A q, c, e : Sent("ready", q, c, e) => Sent("ready", q, c, e)'
  BY DEF Sent
<1>5. \A c : /\ Elected(m.session, held[m.from][m.session], c)' <=>
                Elected(m.session, held[m.from][m.session], c)
             /\ Follows(m.from, m.session, c)' <=> Follows(m.from, m.session, c)
  BY <1>1, <1>2, ElectionIsKept
<1>6. QED
  BY <1>2, <1>3, <1>4, <1>5 DEF Justified

(* What the messages of the sessions say, beside the relayers' variables.  *)
SessionsInv == MessageInv /\ ReadyInv /\ RanInv /\ OneCoordinator

(* A step that sends nothing and takes nobody into a session.              *)
LEMMA SilentStep ==
    ASSUME LocalInv, SessionsInv, Kept, RanInv', msgs' = msgs,
           \A q \in Peers : stage'[q] = "executing" =>
             /\ stage[q] = "executing" /\ session'[q] = session[q]
             /\ ready'[q] = ready[q]
    PROVE  SessionsInv'
<1>1. TypeOK /\ \A q \in Peers : Own(q)
  BY OwnIsLocal
<1>2. MessageInv /\ ReadyInv /\ OneCoordinator
  BY DEF SessionsInv
<1>3. MessageInv'
  <2>1. \A m \in msgs : Justified(m)'
    BY <1>1, <1>2, JustifiedIsKept DEF MessageInv
  <2>2. QED
    BY <2>1 DEF MessageInv
<1>4. ReadyInv'
  <2>1. ASSUME NEW q \in Peers, Coordinating(q)', NEW r \in ready'[q] \ {q}
        PROVE  Sent("ready", r, q, session[q])' /\ session'[q] = session[q]
    <3>1. /\ stage[q] = "executing" /\ session'[q] = session[q]
          /\ ready'[q] = ready[q]
      BY <2>1 DEF Coordinating
    <3>2. PICK e \in Events : e = session[q] /\ held[q][e] # Unread
      BY <1>1, <3>1 DEF Own
    <3>3. Elected(e, held[q][e], q)'
      BY <2>1, <3>1, <3>2 DEF Coordinating, Elected, ValidCoordinators, KeyPeers
    <3>4. Elected(e, held[q][e], q)
      BY <3>2, <3>3, ElectionIsKept
    <3>5. Sent("ready", r, q, session[q])
      BY <1>2, <2>1, <3>1, <3>2, <3>4 DEF ReadyInv, Coordinating
    <3>6. QED
      BY <3>1, <3>5 DEF Sent
  <2>2. QED
    BY <2>1 DEF ReadyInv, Sent
<1>5. OneCoordinator'
  BY <1>2 DEF OneCoordinator
<1>6. QED
  BY <1>3, <1>4, <1>5 DEF SessionsInv

(* A coordinator enters initiate and broadcasts, or p enters waitForStart. *)
LEMMA ExecuteStep ==
    ASSUME LocalInv, LocalInv', SessionsInv, Kept,
           NEW p \in Peers, NEW e \in Events, Execute(p, e),
           session'[p] = e, order' = order, ran' = ran,
           \A q \in Peers \ {p} : session'[q] = session[q]
    PROVE  SessionsInv'
<1>1. TypeOK /\ TypeOK' /\ \A q \in Peers : Own(q)
  BY OwnIsLocal DEF LocalInv
<1>2. MessageInv /\ ReadyInv /\ OneCoordinator /\ RanInv
  BY DEF SessionsInv
<1>3. /\ stage' = [stage EXCEPT ![p] = "executing"]
      /\ held' = [held EXCEPT ![p][e] = share[p]]
  BY DEF Execute
<1>4. held'[p][e] = share[p] /\ share[p] # Unread
  BY <1>1, <1>3, EventFacts DEF TypeOK
<1>5. PICK m : /\ m = [type |-> "initiate", from |-> p, to |-> Members[e] \ {p},
                        session |-> e, old |-> None]
               /\ \/ Elected(e, share[p], p) /\ msgs' = msgs \cup {m}
                     /\ ready' = [ready EXCEPT ![p] = {p}]
                  \/ ~Elected(e, share[p], p) /\ msgs' = msgs /\ ready' = ready
  BY DEF Execute
<1>6. msgs \subseteq msgs' /\ \A n \in msgs' \ msgs : n = m /\ Elected(e, share[p], p)
  BY <1>5
<1>7. Elected(e, share[p], p) <=> Elected(e, held[p][e], p)'
  BY <1>4 DEF Elected, ValidCoordinators, KeyPeers
<1>8. MessageInv'
  <2>1. \A n \in msgs : Justified(n)'
    BY <1>1, <1>2, <1>6, JustifiedIsKept DEF MessageInv
  <2>2. ASSUME Elected(e, share[p], p)
        PROVE  Justified(m)'
    <3>1. p \in Members[e]
      BY <2>2 DEF Elected, ValidCoordinators
    <3>2. /\ m.type = "initiate" /\ m.from = p /\ m.session = e
          /\ m.to = Members[e] \ {p}
      BY <1>5
    <3>3. QED
      BY <1>4, <1>7, <2>2, <3>1, <3>2 DEF Justified
  <2>3. QED
    BY <1>6, <2>1, <2>2 DEF MessageInv
<1>9. ReadyInv'
  <2>1. ASSUME NEW q \in Peers, Coordinating(q)', NEW r \in ready'[q] \ {q}
        PROVE  Sent("ready", r, q, session[q])'
    <3>1. q # p
      <4>1. SUFFICES ASSUME q = p PROVE FALSE
        OBVIOUS
      <4>2. Elected(e, held[p][e], p)'
        BY <2>1, <4>1 DEF Coordinating, Elected, ValidCoordinators, KeyPeers
      <4>3. ready'[p] = {p}
        BY <1>1, <1>5, <1>7, <4>2 DEF TypeOK
      <4>4. QED
        BY <2>1, <4>1, <4>3
    <3>2. /\ stage[q] = "executing" /\ session'[q] = session[q]
          /\ ready'[q] = ready[q]
      BY <1>1, <1>3, <1>5, <2>1, <3>1 DEF Coordinating, TypeOK
    <3>3. PICK d \in Events : d = session[q] /\ held[q][d] # Unread
      BY <1>1, <3>2 DEF Own
    <3>4. Elected(d, held[q][d], q)'
      BY <2>1, <3>2, <3>3 DEF Coordinating, Elected, ValidCoordinators, KeyPeers
    <3>5. Elected(d, held[q][d], q)
      BY <3>3, <3>4, ElectionIsKept
    <3>6. Sent("ready", r, q, d)
      BY <1>2, <2>1, <3>2, <3>3, <3>5 DEF ReadyInv, Coordinating
    <3>7. QED
      BY <1>6, <3>2, <3>3, <3>6 DEF Sent
  <2>2. QED
    BY <2>1 DEF ReadyInv
<1>10. OneCoordinator' /\ RanInv'
  <2>1. m.type = "initiate"
    BY <1>5
  <2>2. OneCoordinator'
    BY <1>2, <1>6, <2>1 DEF OneCoordinator
  <2>3. RanInv'
    BY <1>2, <1>6 DEF RanInv
  <2>4. QED
    BY <2>2, <2>3
<1>11. QED
  BY <1>8, <1>9, <1>10 DEF SessionsInv

(* A relayer answers the coordinator it follows.                           *)
LEMMA InitiateStep ==
    ASSUME LocalInv, SessionsInv, Kept, NEW m \in msgs, NEW p \in m.to,
           ReceiveInitiate(p, m)
    PROVE  SessionsInv'
<1>1. TypeOK /\ \A q \in Peers : Own(q)
  BY OwnIsLocal
<1>2. MessageInv /\ ReadyInv /\ OneCoordinator /\ RanInv
  BY DEF SessionsInv
<1>3. /\ p \in Peers /\ m.from \in Peers /\ m.session \in Events
  BY <1>1 DEF TypeOK, Message
<1>4. PICK a : /\ a = [type |-> "ready", from |-> p, to |-> {m.from},
                        session |-> m.session, old |-> None]
               /\ msgs' = msgs \cup {a}
  BY DEF ReceiveInitiate
<1>5. UNCHANGED << order, stage, session, held, ready, ran >>
  BY DEF ReceiveInitiate, network
<1>6. /\ stage[p] = "executing" /\ m.session = session[p] /\ m.type = "initiate"
      /\ Coordinating(p) <=> m.from = p
      /\ Follows(p, m.session, m.from)
  BY DEF ReceiveInitiate, Receives
<1>7. Justified(m)
  BY <1>2 DEF MessageInv
<1>8. m.from # p /\ ~Coordinating(p)
  BY <1>6, <1>7 DEF Justified
<1>9. MessageInv'
  <2>1. \A n \in msgs : Justified(n)'
    BY <1>1, <1>2, <1>4, JustifiedIsKept DEF MessageInv
  <2>2. Justified(a)'
    <3>1. a.type = "ready" /\ a.from = p /\ a.session = m.session /\ a.to = {m.from}
      BY <1>4
    <3>2. held[p][m.session] # Unread
      BY <1>1, <1>3, <1>6 DEF Own
    <3>3. /\ ~Elected(m.session, held[p][m.session], p)
          /\ m.from \in Members[m.session] /\ p \in Members[m.session]
      BY <1>6, <1>7, <1>8 DEF Coordinating, Justified
    <3>4. /\ ~Elected(m.session, held[p][m.session], p)'
          /\ Follows(p, m.session, m.from)'
      BY <1>5, <1>6, <3>3 DEF Elected, Follows, ValidCoordinators, KeyPeers
    <3>5. QED
      BY <1>5, <1>8, <3>1, <3>2, <3>3, <3>4 DEF Justified
  <2>3. QED
    BY <1>4, <2>1, <2>2 DEF MessageInv
<1>10. ReadyInv'
  <2>1. \A q \in Peers : Coordinating(q)' <=> Coordinating(q)
    BY <1>5 DEF Coordinating, Elected, ValidCoordinators, KeyPeers
  <2>2. QED
    BY <1>2, <1>4, <1>5, <2>1 DEF ReadyInv, Sent
<1>11. OneCoordinator' /\ RanInv'
  <2>1. a.type = "ready"
    BY <1>4
  <2>2. OneCoordinator'
    BY <1>2, <1>4, <2>1 DEF OneCoordinator
  <2>3. RanInv'
    BY <1>2, <1>4, <1>5 DEF RanInv
  <2>4. QED
    BY <2>2, <2>3
<1>12. QED
  BY <1>9, <1>10, <1>11 DEF SessionsInv

(* A coordinator counts a ready peer; when all members have answered it    *)
(* announces the start, and none of them can have been a coordinator.      *)
LEMMA ReadyStep ==
    ASSUME LocalInv, SessionsInv, Kept, NEW m \in msgs, NEW p \in m.to,
           ReceiveReady(p, m)
    PROVE  SessionsInv'
<1> DEFINE R == ready[p] \cup {m.from}
<1>1. TypeOK /\ \A q \in Peers : Own(q)
  BY OwnIsLocal
<1>2. MessageInv /\ ReadyInv /\ OneCoordinator /\ RanInv
  BY DEF SessionsInv
<1>3. PICK e \in Events : e = m.session /\ e = session[p]
  BY <1>1 DEF TypeOK, Message, ReceiveReady, Receives
<1>4. p \in Peers /\ m.from \in Peers
  BY <1>1 DEF TypeOK, Message
<1>5. PICK a : /\ a = [type |-> "start", from |-> p, to |-> Members[e],
                        session |-> e, old |-> held[p][e]]
               /\ \/ msgs' = msgs
                  \/ Ready(p, R) /\ msgs' = msgs \cup {a}
  <2>1. msgs' = IF Ready(p, R)
          THEN msgs \cup { [type |-> "start", from |-> p, to |-> Members[m.session],
                            session |-> m.session, old |-> held[p][m.session]] }
          ELSE msgs
    BY DEF ReceiveReady
  <2>2. QED
    BY <1>3, <2>1
<1>6. /\ ready' = [ready EXCEPT ![p] = R]
      /\ UNCHANGED << order, stage, session, held, ran >>
  BY DEF ReceiveReady, network
<1>7. /\ stage[p] = "executing" /\ m.type = "ready" /\ Coordinating(p)
      /\ m \in msgs /\ p \in m.to
  BY DEF ReceiveReady, Receives
<1>8. Elected(e, held[p][e], p) /\ peerstore[p] = e /\ held[p][e] # Unread
  BY <1>1, <1>3, <1>4, <1>7 DEF Coordinating, Own
<1>9. \A q \in R \ {p} : Sent("ready", q, p, e)
  <2>1. Sent("ready", m.from, p, e)
    BY <1>3, <1>7 DEF Sent
  <2>2. \A q \in ready[p] \ {p} : Sent("ready", q, p, e)
    BY <1>2, <1>3, <1>4, <1>7 DEF ReadyInv
  <2>3. QED
    BY <2>1, <2>2
<1>10. msgs \subseteq msgs'
  BY <1>5
<1>11. p \in Members[e]
  BY <1>8 DEF Elected, ValidCoordinators
<1>12. R \subseteq Members[e]
  <2>1. ASSUME NEW q \in R, q # p PROVE q \in Members[e]
    <3>1. PICK n \in msgs : n.type = "ready" /\ n.from = q /\ p \in n.to /\ n.session = e
      BY <1>9, <2>1 DEF Sent
    <3>2. QED
      BY <1>2, <3>1 DEF MessageInv, Justified
  <2>2. QED
    BY <1>11, <2>1
<1>13. Ready(p, R) => R = Members[e]
  <2>1. IsFiniteSet(Members[e])
    BY TopologyAssumption, FS_Subset
  <2>2. Cardinality(R) = Cardinality(Members[e]) => R = Members[e]
    BY <1>12, <2>1, FS_Subset
  <2>3. QED
    BY <1>8, <2>2 DEF Ready
<1> HIDE DEF R
<1>14. MessageInv'
  <2>1. \A n \in msgs : Justified(n)'
    BY <1>1, <1>2, <1>10, JustifiedIsKept DEF MessageInv
  <2>2. ASSUME R = Members[e] PROVE Justified(a)'
    <3>1. a.type = "start" /\ a.from = p /\ a.session = e /\ a.to = Members[e]
          /\ a.old = held[p][e]
      BY <1>5
    <3>2. Elected(e, held[p][e], p)'
      BY <1>6, <1>8 DEF Elected, ValidCoordinators, KeyPeers
    <3>3. \A q \in Members[e] \ {p} : Sent("ready", q, p, e)'
      BY <1>9, <1>10, <2>2 DEF Sent
    <3>4. QED
      BY <1>6, <1>8, <1>11, <3>1, <3>2, <3>3 DEF Justified
  <2>3. QED
    BY <1>5, <1>13, <2>1, <2>2 DEF MessageInv
<1>15. ReadyInv'
  <2>1. \A q \in Peers : Coordinating(q)' <=> Coordinating(q)
    BY <1>6 DEF Coordinating, Elected, ValidCoordinators, KeyPeers
  <2>2. \A q \in Peers : q # p => ready'[q] = ready[q]
    BY <1>1, <1>6 DEF TypeOK
  <2>3. ready'[p] = R
    BY <1>1, <1>4, <1>6 DEF TypeOK
  <2>4. \A q, r, d : Sent("ready", q, r, d) => Sent("ready", q, r, d)'
    BY <1>10 DEF Sent
  <2>5. ASSUME NEW q \in Peers, Coordinating(q), NEW r \in ready'[q] \ {q}
        PROVE  Sent("ready", r, q, session[q])
    BY <1>2, <1>3, <1>9, <2>2, <2>3, <2>5 DEF ReadyInv
  <2>6. QED
    BY <1>6, <2>1, <2>4, <2>5 DEF ReadyInv
<1>16. OneCoordinator'
  <2>1. ASSUME NEW n \in msgs, n.type = "start", n.session = e PROVE n.from = p
    <3>1. SUFFICES ASSUME n.from # p PROVE FALSE
      OBVIOUS
    <3>2. Sent("ready", p, n.from, e)
      BY <1>2, <1>11, <2>1, <3>1 DEF MessageInv, Justified
    <3>3. PICK r \in msgs : r.type = "ready" /\ r.from = p /\ r.session = e
      BY <3>2 DEF Sent
    <3>4. ~Elected(e, held[p][e], p)
      BY <1>2, <3>3 DEF MessageInv, Justified
    <3>5. QED
      BY <1>8, <3>4
  <2>2. a.from = p /\ a.session = e
    BY <1>5
  <2>3. QED
    BY <1>2, <1>5, <2>1, <2>2 DEF OneCoordinator
<1>17. RanInv'
  BY <1>2, <1>6, <1>10 DEF RanInv
<1>18. QED
  BY <1>14, <1>15, <1>16, <1>17 DEF SessionsInv

(* A party is started with the parameters of a start message, or fails.    *)
LEMMA RunStep ==
    ASSUME LocalInv, SessionsInv, Kept, NEW m \in msgs, NEW p \in m.to, Run(p, m)
    PROVE  SessionsInv'
<1>1. TypeOK /\ RanInv
  BY DEF LocalInv, SessionsInv
<1>2. p \in Peers /\ m.session \in Events /\ m.type = "start" /\ msgs' = msgs
  BY <1>1 DEF TypeOK, Message, Run, Receives
<1>3. \E v \in {m.old, Failed} : ran' = [ran EXCEPT ![p][m.session] = v]
  BY DEF Run
<1>4. RanInv'
  <2>1. ASSUME NEW q \in Peers, NEW e \in Events, ran'[q][e] >= None
        PROVE  \E n \in msgs : n.type = "start" /\ n.session = e /\ n.old = ran'[q][e]
    <3>1. \/ ran'[q][e] = ran[q][e]
          \/ q = p /\ e = m.session /\ ran'[q][e] \in {m.old, Failed}
      BY <1>1, <1>2, <1>3 DEF TypeOK
    <3>2. ran'[q][e] # Failed
      BY <2>1 DEF Failed, None
    <3>3. QED
      BY <1>1, <1>2, <2>1, <3>1, <3>2 DEF RanInv
  <2>2. QED
    BY <1>2, <2>1 DEF RanInv
<1>5. ASSUME NEW q \in Peers, stage'[q] = "executing"
      PROVE  /\ stage[q] = "executing" /\ session'[q] = session[q]
             /\ ready'[q] = ready[q]
  <2>1. CASE UNCHANGED << stage, session, ready >>
    BY <1>5, <2>1
  <2>2. CASE Leave(p, "idle")
    BY <1>1, <1>2, <1>5, <2>2 DEF Leave, TypeOK
  <2>3. QED
    BY <2>1, <2>2 DEF Run
<1>6. QED
  BY <1>2, <1>4, <1>5, SilentStep

(* All the other steps send nothing and start nothing.                     *)
LEMMA QuietSteps ==
    ASSUME LocalInv, SessionsInv, Kept,
           \/ UNCHANGED vars \/ Publish \/ Emit
           \/ \E p \in Peers :
                \/ HandleRefresh(p) \/ HandleRefreshFails(p)
                \/ End(p) \/ EndFails(p) \/ Timeout(p) \/ Crash(p) \/ Restart(p)
    PROVE  SessionsInv'
<1>1. TypeOK /\ RanInv
  BY DEF LocalInv, SessionsInv
<1>2. UNCHANGED << msgs, ran >>
  BY DEF vars, Publish, Emit, HandleRefresh, HandleRefreshFails, End, EndFails,
     Timeout, Crash, Restart
<1>3. RanInv'
  BY <1>1, <1>2 DEF RanInv
<1>4. \/ UNCHANGED << stage, session, ready >>
      \/ \E p \in Peers :
           \/ Leave(p, "idle") \/ Leave(p, "down")
           \/ /\ \E s \in {"idle", "stored"} : stage' = [stage EXCEPT ![p] = s]
              /\ ready' = ready
              /\ \A q \in Peers \ {p} : session'[q] = session[q]
  <2>1. CASE UNCHANGED vars \/ Publish \/ Emit
    BY <2>1 DEF vars, Publish, Emit
  <2>2. ASSUME NEW p \in Peers, HandleRefresh(p)
        PROVE  \/ UNCHANGED << stage, session, ready >>
               \/ /\ \E s \in {"idle", "stored"} : stage' = [stage EXCEPT ![p] = s]
                  /\ ready' = ready
                  /\ \A q \in Peers \ {p} : session'[q] = session[q]
    <3>1. /\ ready' = ready
          /\ \/ UNCHANGED << stage, session >>
             \/ /\ stage' = [stage EXCEPT ![p] = "stored"]
                /\ session' = [session EXCEPT ![p] = seen[p] + 1]
      BY <2>2 DEF HandleRefresh
    <3>2. QED
      BY <1>1, <3>1 DEF TypeOK
  <2>3. ASSUME NEW p \in Peers, HandleRefreshFails(p)
        PROVE  UNCHANGED << stage, session, ready >>
    BY <2>3 DEF HandleRefreshFails
  <2>4. ASSUME NEW p \in Peers, End(p) \/ EndFails(p) \/ Timeout(p) \/ Crash(p)
        PROVE  Leave(p, "idle") \/ Leave(p, "down")
    BY <2>4 DEF End, EndFails, Timeout, Crash
  <2>5. ASSUME NEW p \in Peers, Restart(p)
        PROVE  stage' = [stage EXCEPT ![p] = "idle"] /\ UNCHANGED << session, ready >>
    BY <2>5 DEF Restart
  <2>6. QED
    BY <2>1, <2>2, <2>3, <2>4, <2>5
<1>5. ASSUME NEW q \in Peers, stage'[q] = "executing"
      PROVE  /\ stage[q] = "executing" /\ session'[q] = session[q]
             /\ ready'[q] = ready[q]
  <2>1. CASE UNCHANGED << stage, session, ready >>
    BY <1>5, <2>1
  <2>2. ASSUME NEW p \in Peers, NEW where \in {"idle", "down"}, Leave(p, where)
        PROVE  /\ stage[q] = "executing" /\ session'[q] = session[q]
               /\ ready'[q] = ready[q]
    BY <1>1, <1>5, <2>2 DEF Leave, TypeOK
  <2>3. ASSUME NEW p \in Peers, NEW s \in {"idle", "stored"},
               stage' = [stage EXCEPT ![p] = s], ready' = ready,
               \A r \in Peers \ {p} : session'[r] = session[r]
        PROVE  /\ stage[q] = "executing" /\ session'[q] = session[q]
               /\ ready'[q] = ready[q]
    BY <1>1, <1>5, <2>3 DEF TypeOK
  <2>4. QED
    BY <1>4, <2>1, <2>2, <2>3
<1>6. QED
  BY <1>2, <1>3, <1>5, SilentStep

(* A relayer that ends a refresh has its keyshare from the common members  *)
(* of one older key (StartParams, processEndMessage).                      *)
LEMMA EndsWithOldKey ==
    ASSUME LocalInv, SessionsInv, NEW p \in Peers, Ends(p), session[p] > 1
    PROVE  \E k \in Events :
             k < session[p] /\ \A q \in OldSubset(session[p], k) : held[q][session[p]] = k
<1>1. TypeOK /\ \A q \in Peers : Own(q)
  BY OwnIsLocal
<1>2. MessageInv /\ RanInv
  BY DEF SessionsInv
<1>3. PICK e \in Events : e = session[p]
  BY <1>1 DEF Ends, Own
<1>4. PICK k : k = ran[p][e] /\ k >= None /\ ProtocolCanEnd(e, k)
  BY <1>3 DEF Ends
<1>5. PICK m \in msgs : m.type = "start" /\ m.session = e /\ m.old = k
  BY <1>2, <1>3, <1>4 DEF RanInv
<1>6. m.from \in Peers /\ k \in Versions
  BY <1>1, <1>5 DEF TypeOK, Message
<1>7. k = held[m.from][e] /\ Elected(e, k, m.from)
  BY <1>2, <1>5 DEF MessageInv, Justified
<1>8. e # 1
  BY <1>3
<1>9. k \in Events
  BY <1>7, <1>8 DEF Elected, ValidCoordinators, KeyPeers
<1>10. k < e
  BY <1>1, <1>6, <1>7 DEF Own
<1>11. \A q \in OldSubset(e, k) : held[q][e] = k
  <2>1. e > 1
    BY <1>3
  <2>2. QED
    BY <1>4, <2>1 DEF ProtocolCanEnd
<1>12. QED
  BY <1>3, <1>9, <1>10, <1>11

(* The history of the keyshares is kept by every step.                     *)
LEMMA KeysStep ==
    ASSUME LocalInv, SessionsInv, KeysInv, Kept, [Next]_vars
    PROVE  KeysInv'
<1>1. TypeOK /\ \A q \in Peers : Own(q)
  BY OwnIsLocal
<1>2. ASSUME NEW e \in Events, NEW k \in Events,
             \A q \in OldSubset(e, k) : held[q][e] = k
      PROVE  \A q \in OldSubset(e, k) : held'[q][e] = k
  <2>1. k # Unread
    BY EventFacts
  <2>2. OldSubset(e, k) \subseteq Peers
    BY TopologyAssumption DEF OldSubset, KeyPeers
  <2>3. QED
    BY <1>2, <2>1, <2>2 DEF Kept
<1>3. ASSUME NEW p \in Peers, NEW e \in Events, share'[p] = share[p], share[p] = e, e > 1
      PROVE  \E k \in Events : k < e /\ \A q \in OldSubset(e, k) : held'[q][e] = k
  <2>1. PICK k \in Events : k < e /\ \A q \in OldSubset(e, k) : held[q][e] = k
    BY <1>3 DEF KeysInv
  <2>2. QED
    BY <1>2, <2>1
<1>4. faults \subseteq faults'
  BY DEF Next, vars, Publish, Emit, HandleKeygen, HandleRefresh, HandleRefreshFails,
     Reshare, End, EndFails, Timeout, Crash, Restart, ReceiveInitiate, ReceiveReady,
     Run, Fault
<1>5. CASE \E p \in Peers : End(p) \/ EndFails(p)
  <2>1. PICK p \in Peers : End(p) \/ EndFails(p)
    BY <1>5
  <2>2. /\ Ends(p) /\ held' = held
        /\ \/ share' = [share EXCEPT ![p] = session[p]]
           \/ share' = [share EXCEPT ![p] = None] /\ << "keyshare", p >> \in faults'
    BY <2>1 DEF End, EndFails, Fault
  <2>3. PICK d \in Events : d = session[p] /\ \A e \in Events : held[p][e] # Unread => e <= d
    BY <1>1, <2>2 DEF Ends, Own
  <2>4. /\ \A q \in Peers \ {p} : share'[q] = share[q]
        /\ \/ share'[p] = d
           \/ share'[p] = None /\ << "keyshare", p >> \in faults'
    BY <1>1, <2>2, <2>3 DEF TypeOK
  <2>5. ASSUME NEW e \in Events, share'[p] = e, e > 1
        PROVE  \E k \in Events : k < e /\ \A q \in OldSubset(e, k) : held'[q][e] = k
    <3>1. e = d
      BY <2>4, <2>5, EventFacts
    <3>2. QED
      BY <1>2, <2>2, <2>3, <2>5, <3>1, EndsWithOldKey
  <2>6. ASSUME NEW q \in Peers, NEW e \in Events, held'[q][e] # Unread
        PROVE  \/ share'[q] = held'[q][e] \/ share'[q] >= e
               \/ \E r \in Peers : << "keyshare", r >> \in faults'
    <3>1. CASE q = p
      <4>1. e <= d /\ e \in Int /\ d \in Int
        BY <2>2, <2>3, <2>6, <3>1, EventFacts
      <4>2. QED
        BY <2>4, <3>1, <4>1
    <3>2. CASE q # p
      BY <1>4, <2>2, <2>4, <2>6, <3>2 DEF KeysInv
    <3>3. QED
      BY <3>1, <3>2
  <2>7. QED
    BY <1>3, <2>4, <2>5, <2>6 DEF KeysInv, OldSubset, KeyPeers
<1>6. CASE share' = share
  <2>1. ASSUME NEW q \in Peers, NEW e \in Events, held'[q][e] # Unread
        PROVE  \/ share[q] = held'[q][e] \/ share[q] >= e
               \/ \E r \in Peers : << "keyshare", r >> \in faults'
    <3>1. \/ held'[q][e] = held[q][e]
          \/ held'[q][e] = share[q]
      <4>1. CASE held' = held
        BY <4>1
      <4>2. ASSUME NEW p \in Peers, NEW d \in Events, Execute(p, d)
            PROVE  held'[q][e] = held[q][e] \/ held'[q][e] = share[q]
        <5>1. held' = [held EXCEPT ![p][d] = share[p]]
          BY <4>2 DEF Execute
        <5>2. QED
          BY <1>1, <5>1 DEF TypeOK
      <4>3. \/ held' = held
            \/ \E p \in Peers : \E d \in Events : Execute(p, d)
        <5>1. ASSUME NEW p \in Peers, Reshare(p)
              PROVE  \E d \in Events : Execute(p, d)
          BY <1>1, <5>1 DEF Reshare, Own
        <5>2. ASSUME NEW p \in Peers, HandleKeygen(p)
              PROVE  \E d \in Events : Execute(p, d)
          BY <5>2, EventFacts DEF HandleKeygen
        <5>3. QED
          BY <5>1, <5>2 DEF Next, vars, Publish, Emit, HandleRefresh,
             HandleRefreshFails, End, EndFails, Timeout, Crash, Restart,
             ReceiveInitiate, ReceiveReady, Run
      <4>4. QED
        BY <4>1, <4>2, <4>3
    <3>2. QED
      BY <1>4, <2>1, <3>1 DEF KeysInv
  <2>2. QED
    BY <1>3, <1>6, <2>1 DEF KeysInv, OldSubset, KeyPeers
<1>7. share' = share \/ \E p \in Peers : End(p) \/ EndFails(p)
  BY DEF Next, vars, disk, Publish, Emit, HandleKeygen, HandleRefresh,
     HandleRefreshFails, Reshare, Timeout, Crash, Restart, ReceiveInitiate,
     ReceiveReady, Run
<1>8. QED
  BY <1>5, <1>6, <1>7

-----------------------------------------------------------------------------
(* The theorems.                                                           *)

(* The parts of the invariant.                                             *)
LEMMA InvParts == RefreshInv <=> LocalInv /\ SessionsInv /\ KeysInv
BY DEF RefreshInv, LocalInv, SessionsInv

(* The same after a step.                                                  *)
LEMMA InvPartsNext == RefreshInv' <=> LocalInv' /\ SessionsInv' /\ KeysInv'
BY DEF RefreshInv, LocalInv, SessionsInv

(* It holds when the first members start, without a key.                   *)
LEMMA InitInv == Init => RefreshInv
<1> SUFFICES ASSUME Init PROVE RefreshInv
  OBVIOUS
<1>1. TypeOK
  <2>1. 1 \in Events /\ 1 \in Versions /\ None \in Versions
    BY EventFacts
  <2>2. QED
    BY <2>1 DEF Init, TypeOK
<1>2. HandlerInv /\ SeenInv /\ TopologyNotBehindKey
  <2>1. 1 \in Events /\ None = 0 /\ \A e \in Events : Unread < e
    BY EventFacts DEF None, Unread, Events
  <2>2. QED
    BY <2>1 DEF Init, HandlerInv, SeenInv, TopologyNotBehindKey, Up
<1>3. MessageInv /\ ReadyInv /\ OneCoordinator
  BY DEF Init, MessageInv, ReadyInv, OneCoordinator
<1>4. RanInv
  BY DEF Init, RanInv, NotRun, None
<1>5. KeysInv
  BY EventFacts DEF Init, KeysInv
<1>6. QED
  BY <1>1, <1>2, <1>3, <1>4, <1>5 DEF RefreshInv

(* And every step keeps it.                                                *)
LEMMA NextInv ==
    ASSUME RefreshInv, [Next]_vars
    PROVE  RefreshInv'
<1>1. LocalInv /\ SessionsInv /\ KeysInv /\ LocalInv' /\ Kept
  BY InvParts, LocalPreserved, HeldIsKept
<1>2. ASSUME NEW p \in Peers, HandleKeygen(p)
      PROVE  SessionsInv'
  <2>1. TypeOK /\ 1 \in Events
    BY <1>1, EventFacts DEF LocalInv
  <2>2. /\ Execute(p, 1) /\ order' = order /\ ran' = ran
        /\ session' = [session EXCEPT ![p] = 1]
    BY <1>2 DEF HandleKeygen, network
  <2>3. session'[p] = 1 /\ \A q \in Peers \ {p} : session'[q] = session[q]
    BY <2>1, <2>2 DEF TypeOK
  <2>4. QED
    BY <1>1, <2>1, <2>2, <2>3, ExecuteStep
<1>3. ASSUME NEW p \in Peers, Reshare(p)
      PROVE  SessionsInv'
  <2>1. PICK e \in Events : e = session[p]
    BY <1>1, <1>3, OwnIsLocal DEF Reshare, Own
  <2>2. /\ Execute(p, session[p]) /\ order' = order /\ ran' = ran
        /\ session' = session
    BY <1>3 DEF Reshare, network
  <2>3. QED
    BY <1>1, <2>1, <2>2, ExecuteStep
<1>4. ASSUME NEW m \in msgs, NEW p \in m.to,
             ReceiveInitiate(p, m) \/ ReceiveReady(p, m) \/ Run(p, m)
      PROVE  SessionsInv'
  BY <1>1, <1>4, InitiateStep, ReadyStep, RunStep
<1>5. SessionsInv'
  BY <1>1, <1>2, <1>3, <1>4, QuietSteps DEF Next
<1>6. KeysInv'
  BY <1>1, KeysStep
<1>7. QED
  BY <1>1, <1>5, <1>6, InvPartsNext

(* The inductive invariant of the network: for any number of relayers and  *)
(* events, any topologies, and any crashes, timeouts and failed writes, a  *)
(* start message can be traced back to the ready message of every other    *)
(* member, and a ready message to what its sender elected (initiate,       *)
(* waitForStart, Resharing.Ready).                                         *)
THEOREM RefreshInvariant == Spec => []RefreshInv
<1>1. Init => RefreshInv
  BY InitInv
<1>2. RefreshInv /\ [Next]_vars => RefreshInv'
  BY NextInv
<1>3. QED
  BY <1>1, <1>2, PTL DEF Spec

(* At most one relayer ever announces the start of a session, although     *)
(* each elects its coordinator from its own keyshare and those without one *)
(* follow anybody (Execute, waitForStart, Resharing.Ready).                *)
THEOREM SingleCoordinator == Spec => []OneCoordinator
<1>1. RefreshInv => OneCoordinator
  BY DEF RefreshInv
<1>2. QED
  BY <1>1, RefreshInvariant, PTL

(* The topology a relayer uses, and the one it will find after a crash, is *)
(* never older than its keyshare (StoreTopology before the resharing,      *)
(* app.go).                                                                *)
THEOREM TopologyIsCurrent == Spec => []TopologyNotBehindKey
<1>1. RefreshInv => TopologyNotBehindKey
  BY DEF RefreshInv
<1>2. QED
  BY <1>1, RefreshInvariant, PTL

(* All parties of a session run with the parameters of one keyshare: they  *)
(* come from start messages, all of one coordinator, which reads its       *)
(* keyshare once (StartParams, waitForStart, Run).                         *)
THEOREM PartiesRunTogether == Spec => []PartiesAgree
<1>1. RefreshInv => PartiesAgree
  <2> SUFFICES ASSUME RefreshInv, NEW p \in Peers, NEW q \in Peers, NEW e \in Events,
                      ran[p][e] >= None, ran[q][e] >= None
               PROVE  ran[p][e] = ran[q][e]
    BY DEF PartiesAgree
  <2>1. RanInv /\ MessageInv /\ OneCoordinator
    BY DEF RefreshInv
  <2>2. PICK m \in msgs : m.type = "start" /\ m.session = e /\ m.old = ran[p][e]
    BY <2>1 DEF RanInv
  <2>3. PICK n \in msgs : n.type = "start" /\ n.session = e /\ n.old = ran[q][e]
    BY <2>1 DEF RanInv
  <2>4. m.from = n.from
    BY <2>1, <2>2, <2>3 DEF OneCoordinator
  <2>5. m.old = held[m.from][e] /\ n.old = held[n.from][e]
    BY <2>1, <2>2, <2>3 DEF MessageInv, Justified
  <2>6. QED
    BY <2>2, <2>3, <2>4, <2>5
<1>2. QED
  BY <1>1, RefreshInvariant, PTL

-----------------------------------------------------------------------------
(* The key is kept.                                                        *)

(* Some keyshare is the latest.                                            *)
LEMMA LatestShare ==
    ASSUME TypeOK, Peers # {}
    PROVE  \E p \in Peers : \A q \in Peers : share[q] <= share[p]
<1> DEFINE R == OpToRel(<, Nat)
           S == { MaxEvents - share[p] : p \in Peers }
<1>1. \A p \in Peers : share[p] \in Int /\ MaxEvents - share[p] \in Nat
  BY EventsAssumption DEF TypeOK, Versions, Events, None
<1>2. S \subseteq Nat /\ S # {}
  BY <1>1
<1>3. IsWellFoundedOn(R, Nat)
  BY NatLessThanWellFounded
<1>4. \A x, y \in Nat : y < x => << y, x >> \in R
  BY DEF OpToRel
<1> HIDE DEF R
<1>5. PICK x \in S : \A y \in S : << y, x >> \notin R
  <2> HIDE DEF S
  <2>1. QED
    BY <1>2, <1>3, WFMin
<1>6. PICK p \in Peers : x = MaxEvents - share[p]
  BY <1>5
<1>7. ASSUME NEW q \in Peers PROVE share[q] <= share[p]
  <2>1. << MaxEvents - share[q], MaxEvents - share[p] >> \notin R
    BY <1>5, <1>6
  <2>2. ~(MaxEvents - share[q] < MaxEvents - share[p])
    BY <1>1, <1>4, <2>1
  <2>3. QED
    BY <1>1, <2>2, EventsAssumption
<1>8. QED
  BY <1>7

(* Once a refresh has been completed by anybody, the key is usable.        *)
RefreshedIsUsable == Untorn /\ (\E p \in Peers : share[p] > 1) => KeyUsable

(* The common members of the latest key and the one it was made from hold  *)
(* one of the two, so one of the two has enough holders.                   *)
LEMMA LatestIsUsable ==
    ASSUME Overlap, RefreshInv
    PROVE  RefreshedIsUsable
<1> SUFFICES ASSUME Untorn, NEW r \in Peers, share[r] > 1
             PROVE  KeyUsable
  BY DEF RefreshedIsUsable
<1>1. TypeOK /\ KeysInv
  BY DEF RefreshInv
<1>2. PICK p \in Peers : \A q \in Peers : share[q] <= share[p]
  BY <1>1, LatestShare
<1>3. PICK f : f = share[p]
  OBVIOUS
<1>4. f \in Events /\ f > 1
  <2>1. share[r] \in Int /\ f \in Versions /\ f \in Int
    BY <1>1, <1>3, EventFacts DEF TypeOK
  <2>2. f > 1
    BY <1>2, <1>3, <2>1
  <2>3. QED
    BY <2>1, <2>2, EventFacts DEF None
<1>5. PICK k \in Events : k < f /\ \A q \in OldSubset(f, k) : held[q][f] = k
  BY <1>1, <1>3, <1>4 DEF KeysInv
<1> DEFINE O == OldSubset(f, k)
           A == { q \in Peers : share[q] = k }
           B == { q \in Peers : share[q] = f }
<1>6. O \subseteq A \cup B
  <2>1. O \subseteq Peers
    BY <1>4, TopologyAssumption DEF OldSubset
  <2>2. ASSUME NEW q \in O PROVE share[q] \in {k, f}
    <3>1. q \in Peers /\ held[q][f] = k /\ k # Unread
      BY <1>5, <2>1, EventFacts
    <3>2. share[q] = k \/ share[q] >= f
      BY <1>1, <1>4, <3>1 DEF KeysInv, Untorn
    <3>3. share[q] \in Int /\ f \in Int /\ share[q] <= f
      BY <1>1, <1>2, <1>3, <3>1, EventFacts DEF TypeOK
    <3>4. QED
      BY <3>2, <3>3
  <2>3. QED
    BY <2>1, <2>2
<1>7. IsFiniteSet(A) /\ IsFiniteSet(B) /\ IsFiniteSet(A \cup B) /\ IsFiniteSet(A \cap B)
  BY TopologyAssumption, FS_Subset
<1>8. IsFiniteSet(O) /\ Cardinality(O) <= Cardinality(A \cup B)
  BY <1>6, <1>7, FS_Subset
<1>9. Cardinality(A \cup B) = Cardinality(A) + Cardinality(B) - Cardinality(A \cap B)
  BY <1>7, FS_Union
<1>10. Cardinality(O) > Threshold[k] + Threshold[f]
  BY <1>4, <1>5 DEF Overlap
<1>11. /\ Cardinality(O) \in Nat /\ Cardinality(A) \in Nat /\ Cardinality(B) \in Nat
       /\ Cardinality(A \cap B) \in Nat /\ Cardinality(A \cup B) \in Nat
       /\ Threshold[k] \in Nat /\ Threshold[f] \in Nat
  BY <1>4, <1>7, <1>8, FS_CardinalityType, TopologyAssumption
<1>12. Cardinality(A) > Threshold[k] \/ Cardinality(B) > Threshold[f]
  <2> HIDE DEF O, A, B
  <2>1. QED
    BY <1>8, <1>9, <1>10, <1>11
<1>13. QED
  BY <1>4, <1>12 DEF KeyUsable

(* A keyshare is only ever replaced by a later one.                        *)
LEMMA SharesGrow ==
    ASSUME RefreshInv, [Next]_vars, Untorn', NEW q \in Peers
    PROVE  share'[q] >= share[q]
<1>1. TypeOK /\ \A p \in Peers : Own(p)
  BY InvParts, OwnIsLocal
<1>2. share[q] \in Int
  BY <1>1, EventFacts DEF TypeOK
<1>3. CASE share' = share
  BY <1>2, <1>3
<1>4. ASSUME NEW p \in Peers, End(p) PROVE share'[q] >= share[q]
  <2>1. share' = [share EXCEPT ![p] = session[p]] /\ stage[p] = "executing"
    BY <1>4 DEF End, Ends
  <2>2. share[p] < session[p] /\ share[p] \in Int /\ session[p] \in Int
    <3>1. Own(p) /\ share[p] \in Int /\ session[p] \in Int
      BY <1>1, EventFacts DEF TypeOK
    <3>2. QED
      BY <2>1, <3>1 DEF Own
  <2>3. share'[q] = share[q] \/ (q = p /\ share'[q] = session[p])
    BY <1>1, <2>1 DEF TypeOK
  <2>4. QED
    BY <1>2, <2>2, <2>3
<1>5. ASSUME NEW p \in Peers, EndFails(p) PROVE FALSE
  BY <1>5 DEF EndFails, Fault, Untorn
<1>6. share' = share \/ \E p \in Peers : End(p) \/ EndFails(p)
  BY DEF Next, vars, disk, Publish, Emit, HandleKeygen, HandleRefresh,
     HandleRefreshFails, Reshare, Timeout, Crash, Restart, ReceiveInitiate,
     ReceiveReady, Run
<1>7. QED
  BY <1>3, <1>4, <1>5, <1>6

(* Before the first refresh is completed, holders of the first keyshare    *)
(* only become more.                                                       *)
LEMMA KeyKeptStep ==
    ASSUME RefreshInv, RefreshInv', RefreshedIsUsable', [Next]_vars,
           KeyUsable, Untorn'
    PROVE  KeyUsable'
<1>1. TypeOK /\ TypeOK'
  BY DEF RefreshInv
<1>2. CASE \E p \in Peers : share'[p] > 1
  BY <1>2 DEF RefreshedIsUsable
<1>3. CASE \A p \in Peers : ~(share'[p] > 1)
  <2>1. PICK k \in Events : Cardinality({ p \in Peers : share[p] = k }) > Threshold[k]
    BY DEF KeyUsable
  <2> DEFINE A == { p \in Peers : share[p] = k }
             B == { p \in Peers : share'[p] = k }
  <2>2. A \subseteq B
    <3>1. ASSUME NEW p \in A PROVE share'[p] = k
      <4>1. p \in Peers /\ share[p] = k /\ k \in Int /\ k >= 1
        BY DEF Events
      <4>2. share'[p] \in Int /\ share'[p] >= k /\ ~(share'[p] > 1)
        BY <1>1, <1>3, <4>1, SharesGrow, EventFacts DEF TypeOK
      <4>3. QED
        BY <4>1, <4>2
    <3>2. QED
      BY <3>1
  <2>3. IsFiniteSet(B) /\ IsFiniteSet(A) /\ Cardinality(A) <= Cardinality(B)
    BY <2>2, TopologyAssumption, FS_Subset
  <2>4. /\ Cardinality(A) \in Nat /\ Cardinality(B) \in Nat /\ Threshold[k] \in Nat
        /\ Cardinality(A) > Threshold[k]
    BY <2>1, <2>3, FS_CardinalityType, TopologyAssumption
  <2>5. Cardinality(B) > Threshold[k]
    <3> HIDE DEF A, B
    <3>1. QED
      BY <2>3, <2>4
  <2>6. QED
    BY <2>5 DEF KeyUsable
<1>4. QED
  BY <1>2, <1>3

(* While a refresh replaces keyshares one relayer at a time, and relayers  *)
(* stop, crash and time out in the middle of it, enough relayers always    *)
(* hold keyshares of one refresh to sign with, if the topologies overlap   *)
(* and no keyshare file is torn (processEndMessage, StoreKeyshare, Stop).  *)
THEOREM KeyIsKept == Overlap => (Spec => KeyKept)
<1> SUFFICES ASSUME Overlap PROVE Spec => KeyKept
  OBVIOUS
<1>1. RefreshInv => RefreshedIsUsable
  BY LatestIsUsable
<1>2. RefreshInv /\ RefreshInv' /\ RefreshedIsUsable' /\ [Next]_vars
        => [KeyUsable /\ Untorn' => KeyUsable']_vars
  BY KeyKeptStep
<1>3. QED
  BY <1>1, <1>2, RefreshInvariant, PTL DEF Spec, KeyKept

=============================================================================
