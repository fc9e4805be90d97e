-------------------------- MODULE TssSessionProofs --------------------------
(***************************************************************************)
(* Proofs about TssSession, for every set of relayers, every keyshare,     *)
(* every threshold and every number of attempts.                           *)
(***************************************************************************)
EXTENDS TssSession, FiniteSetTheorems, TLAPS

(* With exactly threshold+1 ready participants nobody is cut off by the    *)
(* sorting of Signing.StartParams: the subset is all of them.              *)
LEMMA StartParamsAll ==
    ASSUME NEW p \in Peers, NEW R \in SUBSET Peers, Ready(p, R)
    PROVE  /\ StartParams(p, R) = R \cap KeyPeers[p]
           /\ Cardinality(R \cap KeyPeers[p]) = Threshold[p] + 1
           /\ IsFiniteSet(R \cap KeyPeers[p])
<1> DEFINE C == R \cap KeyPeers[p]
<1>1. IsFiniteSet(C) /\ C \subseteq Peers
  <2>1. C \in SUBSET Peers
    OBVIOUS
  <2>2. QED
    BY <2>1, FS_Subset, PeersAssumption
<1>2. Cardinality(C) = Threshold[p] + 1
  BY DEF Ready, readyParticipants
<1>3. ASSUME NEW q \in C
      PROVE  Cardinality({ r \in C : Rank[r] > Rank[q] }) <= Threshold[p]
  <2> DEFINE Above == { r \in C : Rank[r] > Rank[q] }
  <2>1. Above \in SUBSET (C \ {q})
    BY <1>1, RankAssumption
  <2>2. IsFiniteSet(C \ {q}) /\ Cardinality(C \ {q}) = Cardinality(C) - 1
    BY <1>1, <1>3, FS_RemoveElement
  <2>3. Cardinality(Above) <= Cardinality(C \ {q})
    BY <2>1, <2>2, FS_Subset
  <2>4. Cardinality(Above) \in Nat
    BY <2>1, <2>2, FS_Subset, FS_CardinalityType
  <2>5. QED
    BY <1>2, <2>2, <2>3, <2>4, ThresholdAssumption
<1>4. StartParams(p, R) = C
  BY <1>3 DEF StartParams, readyParticipants
<1>5. QED
  BY <1>1, <1>2, <1>4

(* Messages a Broadcast adds are messages.                                 *)
LEMMA BroadcastType ==
    ASSUME NEW p \in Peers, NEW type \in {"initiate", "ready", "start"},
           NEW to \in SUBSET Peers, NEW S \in SUBSET Peers
    PROVE  Broadcast(p, type, to, S) \subseteq Message
BY DEF Broadcast, Message

(* A subset consists of peers.                                             *)
LEMMA StartParamsType ==
    ASSUME NEW p \in Peers, NEW R \in SUBSET Peers
    PROVE  StartParams(p, R) \in SUBSET Peers
BY DEF StartParams, readyParticipants

(* Execute stays within the bound on attempts.                             *)
LEMMA AttemptBound ==
    ASSUME TypeOK, NEW p \in Peers, NEW c \in Coordinators, Execute(p, c)
    PROVE  /\ attempt[p] \in Nat
           /\ attempt[p] + 1 \in Attempts
           /\ attempt[p] + 1 \in 0 .. MaxAttempts
<1>1. attempt[p] \in 0 .. MaxAttempts
  BY DEF TypeOK
<1>2. attempt[p] < MaxAttempts
  <2>1. CASE p \in Retrying
    BY <2>1 DEF Execute
  <2>2. CASE p \notin Retrying
    BY <1>1, <2>2, MaxAttemptsAssumption DEF Execute
  <2>3. QED
    BY <2>1, <2>2
<1>3. QED
  BY <1>1, <1>2, MaxAttemptsAssumption DEF Attempts

(* Report only moves the loop to idle and cancels the context.             *)
LEMMA ReportType ==
    ASSUME TypeOK, NEW p \in Peers, NEW a, Report(p, a)
    PROVE  /\ loop' \in [Peers -> {"idle", "select", "busy", "starting"}]
           /\ cancelled' \subseteq Peers
           /\ \A q \in Peers : loop'[q] = loop[q] \/ loop'[q] = "idle"
BY DEF Report, TypeOK

(* The states of a process.                                                *)
PartyStates == {"new", "failed", "running", "signed", "stopped"}

(* The type invariant is preserved by every step.                          *)
LEMMA TypeStep == TypeOK /\ LoopInv /\ [Next]_vars => TypeOK'
<1> SUFFICES ASSUME TypeOK, LoopInv, [Next]_vars PROVE TypeOK'
  OBVIOUS
<1>0. Coordinators \subseteq Peers
  BY PeersAssumption
<1>1. ASSUME NEW p \in Peers, NEW c \in Coordinators, Execute(p, c)
      PROVE  TypeOK'
  <2>1. msgs' \subseteq Message
    BY <1>1, BroadcastType DEF Execute, TypeOK, NoSubset
  <2>2. attempt[p] + 1 \in Attempts /\ attempt' \in [Peers -> 0 .. MaxAttempts]
    BY <1>1, AttemptBound DEF Execute, TypeOK
  <2>3. coord' \in [Peers -> [Attempts -> Peers]]
    BY <1>0, <1>1, <2>2 DEF Execute, TypeOK
  <2>4. loop' \in [Peers -> {"idle", "select", "busy", "starting"}]
    BY <1>1 DEF Execute, TypeOK
  <2>5. ready' \in [Peers -> SUBSET Peers]
    <3>1. {p} \in SUBSET Peers /\ ready \in [Peers -> SUBSET Peers]
      BY DEF TypeOK
    <3>2. CASE p = c
      BY <1>1, <3>1, <3>2 DEF Execute
    <3>3. CASE p # c
      BY <1>1, <3>1, <3>3 DEF Execute
    <3>4. QED
      BY <3>2, <3>3
  <2>6. cancelled' \subseteq Peers
    BY <1>1 DEF Execute, TypeOK
  <2>7. announced' = announced /\ spawned' = spawned /\ party' = party /\ subset' = subset
    BY <1>1 DEF Execute
  <2>8. QED
    BY <2>1, <2>2, <2>3, <2>4, <2>5, <2>6, <2>7 DEF TypeOK
<1>2. ASSUME NEW p \in Peers, LocalStep(p)
      PROVE  TypeOK'
  <2>1. CASE Resume(p)
    BY <2>1 DEF Resume, TypeOK
  <2>2. CASE Tick(p)
    BY <2>2, BroadcastType DEF Tick, TypeOK, NoSubset
  <2>3. CASE StartSent(p)
    <3>1. attempt[p] \in Attempts
      BY <2>3 DEF StartSent, LoopInv
    <3>2. StartParams(p, ready[p]) \in SUBSET Peers
      BY StartParamsType DEF TypeOK
    <3>3. QED
      BY <2>3, <3>1, <3>2 DEF StartSent, TypeOK, Goroutine
  <2>4. CASE Return(p)
    BY <2>4 DEF Return, TypeOK
  <2>5. ASSUME NEW g \in spawned, Run(g)
        PROVE  TypeOK'
    <3>1. g.peer \in Peers /\ g.attempt \in Attempts /\ g.subset \in SUBSET Peers
      BY DEF TypeOK, Goroutine
    <3>2. /\ loop' \in [Peers -> {"idle", "select", "busy", "starting"}]
          /\ cancelled' \subseteq Peers
      BY <2>5, <3>1, ReportType DEF Run, TypeOK
    <3>3. party' \in [Peers -> [Attempts -> PartyStates]]
      <4>1. party \in [Peers -> [Attempts -> PartyStates]]
        BY DEF TypeOK, PartyStates
      <4>2. "failed" \in PartyStates /\ "running" \in PartyStates
        BY DEF PartyStates
      <4>3. \/ party' = party
            \/ party' = [party EXCEPT ![g.peer][g.attempt] = "failed"]
            \/ party' = [party EXCEPT ![g.peer][g.attempt] = "running"]
        BY <2>5 DEF Run
      <4>4. QED
        BY <3>1, <4>1, <4>2, <4>3
    <3>4. subset' \in [Peers -> [Attempts -> SUBSET Peers]]
      <4> DEFINE V == SUBSET Peers
      <4>1. subset \in [Peers -> [Attempts -> V]] /\ g.subset \in V
        BY <3>1 DEF TypeOK
      <4>2. \/ subset' = subset
            \/ subset' = [subset EXCEPT ![g.peer][g.attempt] = g.subset]
        BY <2>5 DEF Run
      <4> HIDE DEF V
      <4>3. subset' \in [Peers -> [Attempts -> V]]
        BY <3>1, <4>1, <4>2
      <4>4. QED
        BY <4>3 DEF V
    <3>5. spawned' \subseteq Goroutine
      BY <2>5 DEF Run, TypeOK
    <3>6. UNCHANGED << msgs, attempt, coord, ready, announced >>
      BY <2>5 DEF Run
    <3>7. QED
      BY <3>2, <3>3, <3>4, <3>5, <3>6 DEF TypeOK, PartyStates
  <2>6. ASSUME NEW a \in Attempts, Sign(p, a) \/ PartyStops(p, a)
        PROVE  TypeOK'
    <3>1. /\ loop' \in [Peers -> {"idle", "select", "busy", "starting"}]
          /\ cancelled' \subseteq Peers
      BY <2>6, ReportType DEF Sign, PartyStops
    <3>2. party' \in [Peers -> [Attempts -> PartyStates]]
      <4>1. party \in [Peers -> [Attempts -> PartyStates]]
        BY DEF TypeOK, PartyStates
      <4>2. "signed" \in PartyStates /\ "stopped" \in PartyStates
        BY DEF PartyStates
      <4>3. \/ party' = [party EXCEPT ![p][a] = "signed"]
            \/ party' = [party EXCEPT ![p][a] = "stopped"]
        BY <2>6 DEF Sign, PartyStops
      <4>4. QED
        BY <4>1, <4>2, <4>3
    <3>3. UNCHANGED << msgs, attempt, coord, ready, announced, spawned, subset >>
      BY <2>6 DEF Sign, PartyStops
    <3>4. QED
      BY <3>1, <3>2, <3>3 DEF TypeOK, PartyStates
  <2>7. QED
    BY <1>2, <2>1, <2>2, <2>3, <2>4, <2>5, <2>6 DEF LocalStep
<1>3. ASSUME NEW p \in Peers, Timeout(p)
      PROVE  TypeOK'
  BY <1>3 DEF Timeout, TypeOK
<1>4. ASSUME NEW g \in spawned, RunFails(g)
      PROVE  TypeOK'
  <2>1. g.peer \in Peers /\ g.attempt \in Attempts
    BY DEF TypeOK, Goroutine
  <2>2. /\ loop' \in [Peers -> {"idle", "select", "busy", "starting"}]
        /\ cancelled' \subseteq Peers
    BY <1>4, <2>1, ReportType DEF RunFails
  <2>3. party' \in [Peers -> [Attempts -> PartyStates]]
    <3>1. party \in [Peers -> [Attempts -> PartyStates]]
      BY DEF TypeOK, PartyStates
    <3>2. "failed" \in PartyStates
      BY DEF PartyStates
    <3>3. party' = [party EXCEPT ![g.peer][g.attempt] = "failed"]
      BY <1>4 DEF RunFails
    <3>4. QED
      BY <2>1, <3>1, <3>2, <3>3
  <2>4. spawned' \subseteq Goroutine
    BY <1>4 DEF RunFails, TypeOK
  <2>5. UNCHANGED << msgs, attempt, coord, ready, announced, subset >>
    BY <1>4 DEF RunFails
  <2>6. QED
    BY <2>2, <2>3, <2>4, <2>5 DEF TypeOK, PartyStates
<1>5. ASSUME NEW m \in msgs, Deliver(m)
      PROVE  TypeOK'
  <2>1. m.to \in Peers /\ m.from \in Peers /\ m.subset \in SUBSET Peers
    BY DEF TypeOK, Message
  <2>2. Delivered(m) \subseteq Message
    BY DEF Delivered, TypeOK
  <2>3. loop[m.to] = "select" => attempt[m.to] \in Attempts
    BY <2>1 DEF LoopInv
  <2>4. CASE ReceiveInitiate(m.to, m)
    <3>1. Broadcast(m.to, "ready", {m.from}, NoSubset) \subseteq Message
      BY <2>1, BroadcastType DEF NoSubset
    <3>2. msgs' \subseteq Message
      BY <2>2, <2>4, <3>1 DEF ReceiveInitiate
    <3>3. loop' \in [Peers -> {"idle", "select", "busy", "starting"}]
      <4>1. loop \in [Peers -> {"idle", "select", "busy", "starting"}]
        BY DEF TypeOK
      <4>2. loop' = loop \/ loop' = [loop EXCEPT ![m.to] = "busy"]
        BY <2>4 DEF ReceiveInitiate
      <4>3. QED
        BY <2>1, <4>1, <4>2
    <3>4. QED
      BY <2>4, <3>2, <3>3 DEF ReceiveInitiate, TypeOK
  <2>5. CASE ReceiveReady(m.to, m)
    <3> DEFINE R == ready[m.to] \cup {m.from}
               S == StartParams(m.to, R)
    <3>1. R \in SUBSET Peers
      BY <2>1 DEF TypeOK
    <3>2. S \in SUBSET Peers
      BY <2>1, <3>1, StartParamsType
    <3>3. Broadcast(m.to, "start", Peers, S) \subseteq Message
      BY <2>1, <3>2, BroadcastType
    <3> HIDE DEF S
    <3>4. msgs' \subseteq Message
      BY <2>2, <2>5, <3>3 DEF ReceiveReady, S
    <3>5. loop' \in [Peers -> {"idle", "select", "busy", "starting"}]
      <4>1. loop \in [Peers -> {"idle", "select", "busy", "starting"}]
        BY DEF TypeOK
      <4>2. loop' = loop \/ loop' = [loop EXCEPT ![m.to] = "starting"]
        BY <2>5 DEF ReceiveReady
      <4>3. QED
        BY <2>1, <4>1, <4>2
    <3>6. ready' \in [Peers -> SUBSET Peers]
      <4>1. ready \in [Peers -> SUBSET Peers]
        BY DEF TypeOK
      <4>2. QED
        BY <2>1, <2>5, <3>1, <4>1 DEF ReceiveReady
    <3>7. announced' \in [Peers -> [Attempts -> SUBSET SUBSET Peers]]
      <4> DEFINE V == SUBSET SUBSET Peers
                 T == announced[m.to][attempt[m.to]] \cup {S}
      <4>1. announced \in [Peers -> [Attempts -> V]]
        BY DEF TypeOK
      <4>2. attempt[m.to] \in Attempts
        BY <2>3, <2>5 DEF ReceiveReady
      <4>3. T \in V
        BY <2>1, <3>2, <4>1, <4>2
      <4>4. \/ announced' = announced
            \/ announced' = [announced EXCEPT ![m.to][attempt[m.to]] = T]
        BY <2>5 DEF ReceiveReady, S
      <4> HIDE DEF V, T
      <4>5. announced' \in [Peers -> [Attempts -> V]]
        BY <2>1, <4>1, <4>2, <4>3, <4>4
      <4>6. QED
        BY <4>5 DEF V
    <3>8. UNCHANGED << attempt, coord, cancelled, spawned, party, subset >>
      BY <2>5 DEF ReceiveReady
    <3>9. QED
      BY <3>4, <3>5, <3>6, <3>7, <3>8 DEF TypeOK
  <2>6. CASE ReceiveStart(m.to, m)
    <3>1. loop' \in [Peers -> {"idle", "select", "busy", "starting"}]
      <4>1. loop \in [Peers -> {"idle", "select", "busy", "starting"}]
        BY DEF TypeOK
      <4>2. loop' = loop \/ loop' = [loop EXCEPT ![m.to] = "busy"]
        BY <2>6 DEF ReceiveStart
      <4>3. QED
        BY <2>1, <4>1, <4>2
    <3>2. spawned' \subseteq Goroutine
      <4>1. attempt[m.to] \in Attempts
        BY <2>3, <2>6 DEF ReceiveStart
      <4>2. [peer |-> m.to, attempt |-> attempt[m.to], subset |-> m.subset]
              \in Goroutine
        BY <2>1, <4>1 DEF Goroutine
      <4>3. QED
        BY <2>6, <4>2 DEF ReceiveStart, TypeOK
    <3>3. msgs' \subseteq Message
      BY <2>2, <2>6 DEF ReceiveStart
    <3>4. UNCHANGED << attempt, coord, cancelled, ready, announced, party, subset >>
      BY <2>6 DEF ReceiveStart
    <3>5. QED
      BY <3>1, <3>2, <3>3, <3>4 DEF TypeOK
  <2>7. QED
    BY <1>5, <2>4, <2>5, <2>6 DEF Deliver
<1>6. CASE UNCHANGED vars
  BY <1>6 DEF vars, TypeOK
<1>7. QED
  BY <1>1, <1>2, <1>3, <1>4, <1>5, <1>6 DEF Next

(* Which actions change which variable.                                    *)
LEMMA Frames ==
    ASSUME [Next]_vars
    PROVE  /\ \/ UNCHANGED << attempt, coord >>
              \/ \E p \in Peers, c \in Coordinators : Execute(p, c)
           /\ \/ UNCHANGED announced
              \/ \E m \in msgs : ReceiveReady(m.to, m)
           /\ \/ UNCHANGED ready
              \/ \E p \in Peers, c \in Coordinators : Execute(p, c)
              \/ \E m \in msgs : ReceiveReady(m.to, m)
           /\ \/ UNCHANGED spawned
              \/ \E p \in Peers : StartSent(p)
              \/ \E m \in msgs : ReceiveStart(m.to, m)
              \/ spawned' \subseteq spawned
           /\ \/ UNCHANGED << party, subset >>
              \/ \E g \in spawned : Run(g) \/ RunFails(g)
              \/ \E p \in Peers, a \in Attempts : Sign(p, a) \/ PartyStops(p, a)
<1>1. ASSUME NEW p \in Peers, NEW c \in Coordinators, Execute(p, c)
      PROVE  UNCHANGED << announced, spawned, party, subset >>
  BY <1>1 DEF Execute
<1>2. ASSUME NEW p \in Peers, Resume(p) \/ Tick(p) \/ Return(p) \/ Timeout(p)
      PROVE  UNCHANGED << attempt, coord, ready, announced, spawned, party, subset >>
  BY <1>2 DEF Resume, Tick, Return, Timeout
<1>3. ASSUME NEW p \in Peers, StartSent(p)
      PROVE  UNCHANGED << attempt, coord, ready, announced, party, subset >>
  BY <1>3 DEF StartSent
<1>4. ASSUME NEW g \in spawned, Run(g) \/ RunFails(g)
      PROVE  /\ UNCHANGED << attempt, coord, ready, announced >>
             /\ spawned' \subseteq spawned
  BY <1>4 DEF Run, RunFails
<1>5. ASSUME NEW p \in Peers, NEW a \in Attempts, Sign(p, a) \/ PartyStops(p, a)
      PROVE  UNCHANGED << attempt, coord, ready, announced, spawned >>
  BY <1>5 DEF Sign, PartyStops
<1>6. ASSUME NEW m \in msgs, ReceiveInitiate(m.to, m)
      PROVE  UNCHANGED << attempt, coord, ready, announced, spawned, party, subset >>
  BY <1>6 DEF ReceiveInitiate
<1>7. ASSUME NEW m \in msgs, ReceiveReady(m.to, m)
      PROVE  UNCHANGED << attempt, coord, spawned, party, subset >>
  BY <1>7 DEF ReceiveReady
<1>8. ASSUME NEW m \in msgs, ReceiveStart(m.to, m)
      PROVE  UNCHANGED << attempt, coord, ready, announced, party, subset >>
  BY <1>8 DEF ReceiveStart
<1>9. ASSUME UNCHANGED vars
      PROVE  UNCHANGED << attempt, coord, ready, announced, spawned, party, subset >>
  BY <1>9 DEF vars
<1>10. QED
  BY <1>1, <1>2, <1>3, <1>4, <1>5, <1>6, <1>7, <1>8, <1>9
     DEF Next, LocalStep, Deliver

(* What an Execute does to the attempts and the coordinators.              *)
LEMMA ExecuteEffect ==
    ASSUME TypeOK, NEW p \in Peers, NEW c \in Coordinators, Execute(p, c)
    PROVE  /\ attempt[p] + 1 \in Attempts
           /\ attempt'[p] = attempt[p] + 1
           /\ coord'[p][attempt[p] + 1] = c
           /\ \A q \in Peers : attempt[q] \in Nat /\ attempt'[q] \in Nat
           /\ \A q \in Peers : attempt[q] <= attempt'[q]
           /\ \A q \in Peers : q # p => attempt'[q] = attempt[q]
           /\ \A q \in Peers, b \in Attempts :
                q # p \/ b <= attempt[q] => coord'[q][b] = coord[q][b]
<1>1. attempt[p] \in Nat /\ attempt[p] + 1 \in Attempts
  BY AttemptBound
<1>2. attempt \in [Peers -> 0 .. MaxAttempts]
  BY DEF TypeOK
<1>3. attempt' = [attempt EXCEPT ![p] = attempt[p] + 1]
  BY DEF Execute
<1>4. /\ attempt'[p] = attempt[p] + 1
      /\ \A q \in Peers : q # p => attempt'[q] = attempt[q]
  BY <1>2, <1>3
<1>5. \A q \in Peers : attempt[q] \in Nat
  BY <1>2, MaxAttemptsAssumption
<1>6. coord \in [Peers -> [Attempts -> Peers]]
  BY DEF TypeOK
<1>7. coord' = [coord EXCEPT ![p][attempt[p] + 1] = c]
  BY DEF Execute
<1>8. /\ coord'[p][attempt[p] + 1] = c
      /\ \A q \in Peers, b \in Attempts :
           ~(q = p /\ b = attempt[p] + 1) => coord'[q][b] = coord[q][b]
  BY <1>1, <1>6, <1>7
<1>9. \A q \in Peers : attempt'[q] \in Nat /\ attempt[q] <= attempt'[q]
  BY <1>1, <1>4, <1>5
<1>10. \A q \in Peers, b \in Attempts :
         q # p \/ b <= attempt[q] => coord'[q][b] = coord[q][b]
  BY <1>1, <1>8 DEF Attempts
<1>11. QED
  BY <1>1, <1>4, <1>5, <1>8, <1>9, <1>10

(* What a ready message that completes the quorum, or does not, changes.   *)
LEMMA ReadyEffect ==
    ASSUME TypeOK, LoopInv, NEW m \in msgs, ReceiveReady(m.to, m)
    PROVE  LET c == m.to
               R == ready[c] \cup {m.from}
               S == StartParams(c, R)
           IN  /\ c \in Peers /\ m.from \in Peers /\ R \in SUBSET Peers
               /\ S \in SUBSET Peers
               /\ attempt[c] \in Attempts
               /\ m.type = "ready" /\ loop[c] # "idle" /\ Coordinating(c)
               /\ ready'[c] = R
               /\ \A q \in Peers : q # c => ready'[q] = ready[q]
               /\ \/ /\ announced' = announced
                     /\ loop' = loop
                     /\ msgs' \subseteq msgs
                  \/ /\ Ready(c, R)
                     /\ announced'[c][attempt[c]] = announced[c][attempt[c]] \cup {S}
                     /\ \A q \in Peers, b \in Attempts :
                          ~(q = c /\ b = attempt[c]) =>
                             announced'[q][b] = announced[q][b]
                     /\ loop'[c] = "starting"
                     /\ \A q \in Peers : q # c => loop'[q] = loop[q]
                     /\ msgs' \subseteq msgs \cup Broadcast(c, "start", Peers, S)
<1> DEFINE c == m.to
           R == ready[c] \cup {m.from}
           S == StartParams(c, R)
           T == announced[c][attempt[c]] \cup {S}
<1>1. c \in Peers /\ m.from \in Peers
  BY DEF TypeOK, Message
<1>2. R \in SUBSET Peers
  BY <1>1 DEF TypeOK
<1>3. S \in SUBSET Peers
  BY <1>1, <1>2, StartParamsType
<1>4. /\ loop[c] = "select" /\ Coordinating(c) /\ m.type = "ready"
      /\ ready' = [ready EXCEPT ![c] = R]
      /\ \/ announced' = announced /\ loop' = loop /\ msgs' = Delivered(m)
         \/ /\ Ready(c, R)
            /\ announced' = [announced EXCEPT ![c][attempt[c]] = T]
            /\ loop' = [loop EXCEPT ![c] = "starting"]
            /\ msgs' = Delivered(m) \cup Broadcast(c, "start", Peers, S)
  BY DEF ReceiveReady
<1>5. attempt[c] \in Attempts
  BY <1>1, <1>4 DEF LoopInv
<1>6. Delivered(m) \subseteq msgs
  BY DEF Delivered
<1>7. /\ ready \in [Peers -> SUBSET Peers]
      /\ announced \in [Peers -> [Attempts -> SUBSET SUBSET Peers]]
      /\ loop \in [Peers -> {"idle", "select", "busy", "starting"}]
  BY DEF TypeOK
<1> HIDE DEF T, S, R
<1>8. ready'[c] = R /\ \A q \in Peers : q # c => ready'[q] = ready[q]
  BY <1>1, <1>4, <1>7
<1>9. ASSUME announced' = [announced EXCEPT ![c][attempt[c]] = T]
      PROVE  /\ announced'[c][attempt[c]] = T
             /\ \A q \in Peers, b \in Attempts :
                  ~(q = c /\ b = attempt[c]) => announced'[q][b] = announced[q][b]
  BY <1>1, <1>5, <1>7, <1>9
<1>10. ASSUME loop' = [loop EXCEPT ![c] = "starting"]
       PROVE  /\ loop'[c] = "starting"
              /\ \A q \in Peers : q # c => loop'[q] = loop[q]
  BY <1>1, <1>7, <1>10
<1>11. QED
  BY <1>1, <1>2, <1>3, <1>4, <1>5, <1>6, <1>8, <1>9, <1>10 DEF T, S, R

(* Who has joined, and what has been announced, is never forgotten.        *)
LEMMA JoinedMonotone ==
    ASSUME TypeOK, [Next]_vars, NEW q \in Peers, NEW c \in Peers, Joined(q, c)
    PROVE  Joined(q, c)'
<1>1. CASE UNCHANGED << attempt, coord >>
  BY <1>1 DEF Joined
<1>2. ASSUME NEW p \in Peers, NEW d \in Coordinators, Execute(p, d)
      PROVE  Joined(q, c)'
  <2>1. PICK b \in Attempts : b <= attempt[q] /\ coord[q][b] = c
    BY DEF Joined
  <2>2. b <= attempt'[q] /\ coord'[q][b] = c
    BY <1>2, <2>1, ExecuteEffect DEF Attempts
  <2>3. QED
    BY <2>2 DEF Joined, Attempts
<1>3. QED
  BY <1>1, <1>2, Frames

(* An announced subset stays announced.                                    *)
LEMMA AnnouncedMonotone ==
    ASSUME TypeOK, LoopInv, [Next]_vars
    PROVE  /\ \A c \in Peers, b \in Attempts : announced[c][b] \subseteq announced'[c][b]
           /\ \A c \in Peers : \A S : Announced(c, S) => Announced(c, S)'
<1>1. \A c \in Peers, b \in Attempts : announced[c][b] \subseteq announced'[c][b]
  <2>1. CASE UNCHANGED announced
    BY <2>1
  <2>2. ASSUME NEW m \in msgs, ReceiveReady(m.to, m)
        PROVE  \A c \in Peers, b \in Attempts : announced[c][b] \subseteq announced'[c][b]
    BY <2>2, ReadyEffect
  <2>3. QED
    BY <2>1, <2>2, Frames
<1>2. QED
  BY <1>1 DEF Announced, Attempts

(* What a step may do to a process: the Started flag of Signing.Run makes  *)
(* its party and its subset final.                                         *)
LEMMA PartyEffect ==
    ASSUME TypeOK, [Next]_vars, NEW p \in Peers, NEW a \in Attempts
    PROVE  /\ party[p][a] # "new" =>
                /\ party'[p][a] # "new"
                /\ subset'[p][a] = subset[p][a]
                /\ party[p][a] # "running" => party'[p][a] = party[p][a]
                /\ party[p][a] = "running" =>
                     party'[p][a] \in {"running", "signed", "stopped"}
           /\ \/ party'[p][a] = party[p][a] /\ subset'[p][a] = subset[p][a]
              \/ \E g \in spawned :
                   /\ g.peer = p /\ g.attempt = a
                   /\ party[p][a] = "new"
                   /\ \/ party'[p][a] = "failed" /\ subset'[p][a] = subset[p][a]
                      \/ /\ party'[p][a] = "running"
                         /\ p \in g.subset
                         /\ subset'[p][a] = g.subset
              \/ /\ party[p][a] = "running"
                 /\ subset'[p][a] = subset[p][a]
                 /\ \/ party'[p][a] = "stopped"
                    \/ party'[p][a] = "signed" /\ ProtocolCanEnd(subset[p][a])
<1>0. /\ party \in [Peers -> [Attempts -> PartyStates]]
      /\ subset \in [Peers -> [Attempts -> SUBSET Peers]]
  BY DEF TypeOK, PartyStates
<1>1. CASE UNCHANGED << party, subset >>
  BY <1>1
<1>2. ASSUME NEW g \in spawned, Run(g) \/ RunFails(g)
      PROVE  \/ party'[p][a] = party[p][a] /\ subset'[p][a] = subset[p][a]
             \/ /\ g.peer = p /\ g.attempt = a
                /\ party[p][a] = "new"
                /\ \/ party'[p][a] = "failed" /\ subset'[p][a] = subset[p][a]
                   \/ /\ party'[p][a] = "running"
                      /\ p \in g.subset
                      /\ subset'[p][a] = g.subset
  <2>1. g.peer \in Peers /\ g.attempt \in Attempts
    BY DEF TypeOK, Goroutine
  <2>2. \/ party' = party /\ subset' = subset
        \/ /\ party[g.peer][g.attempt] = "new"
           /\ \/ /\ party' = [party EXCEPT ![g.peer][g.attempt] = "failed"]
                 /\ subset' = subset
              \/ /\ party' = [party EXCEPT ![g.peer][g.attempt] = "running"]
                 /\ subset' = [subset EXCEPT ![g.peer][g.attempt] = g.subset]
                 /\ g.peer \in g.subset
    BY <1>2 DEF Run, RunFails
  <2>3. CASE g.peer = p /\ g.attempt = a
    BY <1>0, <2>1, <2>2, <2>3
  <2>4. CASE ~(g.peer = p /\ g.attempt = a)
    BY <1>0, <2>1, <2>2, <2>4
  <2>5. QED
    BY <2>3, <2>4
<1>3. ASSUME NEW q \in Peers, NEW b \in Attempts, Sign(q, b) \/ PartyStops(q, b)
      PROVE  /\ subset'[p][a] = subset[p][a]
             /\ \/ party'[p][a] = party[p][a]
                \/ /\ party[p][a] = "running"
                   /\ \/ party'[p][a] = "stopped"
                      \/ party'[p][a] = "signed" /\ ProtocolCanEnd(subset[p][a])
  <2>1. /\ party[q][b] = "running" /\ subset' = subset
        /\ \/ party' = [party EXCEPT ![q][b] = "stopped"]
           \/ /\ party' = [party EXCEPT ![q][b] = "signed"]
              /\ ProtocolCanEnd(subset[q][b])
    BY <1>3 DEF Sign, PartyStops
  <2>2. CASE q = p /\ b = a
    BY <1>0, <2>1, <2>2
  <2>3. CASE ~(q = p /\ b = a)
    BY <1>0, <2>1, <2>3
  <2>4. QED
    BY <2>2, <2>3
<1>4. \/ party'[p][a] = party[p][a] /\ subset'[p][a] = subset[p][a]
      \/ \E g \in spawned :
           /\ g.peer = p /\ g.attempt = a
           /\ party[p][a] = "new"
           /\ \/ party'[p][a] = "failed" /\ subset'[p][a] = subset[p][a]
              \/ /\ party'[p][a] = "running"
                 /\ p \in g.subset
                 /\ subset'[p][a] = g.subset
      \/ /\ party[p][a] = "running"
         /\ subset'[p][a] = subset[p][a]
         /\ \/ party'[p][a] = "stopped"
            \/ party'[p][a] = "signed" /\ ProtocolCanEnd(subset[p][a])
  BY <1>1, <1>2, <1>3, Frames
<1>5. QED
  BY <1>4

(* The loop of a relayer leaves idle only by an Execute, and reaches the   *)
(* start broadcast only by a ready message.                                *)
LEMMA LoopEffect ==
    ASSUME TypeOK, [Next]_vars, NEW q \in Peers
    PROVE  /\ \/ loop'[q] = loop[q]
              \/ loop'[q] \in {"idle", "busy"} /\ loop[q] # "idle"
              \/ loop'[q] = "select" /\ loop[q] = "busy"
              \/ \E c \in Coordinators : Execute(q, c)
              \/ \E m \in msgs : m.to = q /\ ReceiveReady(q, m)
<1>0. loop \in [Peers -> {"idle", "select", "busy", "starting"}]
  BY DEF TypeOK
<1>1. ASSUME NEW p \in Peers, NEW c \in Coordinators, Execute(p, c)
      PROVE  p = q \/ loop'[q] = loop[q]
  <2>1. loop' = [loop EXCEPT ![p] = "busy"] \/ loop' = [loop EXCEPT ![p] = "select"]
    BY <1>1 DEF Execute
  <2>2. QED
    BY <1>0, <2>1
<1>2. ASSUME NEW p \in Peers,
             Resume(p) \/ Tick(p) \/ Return(p) \/ Timeout(p) \/ StartSent(p)
      PROVE  \/ loop'[q] = loop[q]
             \/ loop'[q] \in {"idle", "busy"} /\ loop[q] # "idle"
             \/ loop'[q] = "select" /\ loop[q] = "busy"
  <2>1. \/ loop' = [loop EXCEPT ![p] = "select"] /\ loop[p] = "busy"
        \/ loop' = [loop EXCEPT ![p] = "busy"] /\ loop[p] # "idle"
        \/ loop' = [loop EXCEPT ![p] = "idle"] /\ loop[p] # "idle"
        \/ loop' = loop
    BY <1>2 DEF Resume, Tick, Return, Timeout, StartSent
  <2>2. QED
    BY <1>0, <2>1
<1>3. ASSUME NEW p \in Peers, NEW a, Report(p, a)
      PROVE  loop'[q] = loop[q] \/ (loop'[q] = "idle" /\ loop[q] # "idle")
  <2>1. \/ loop' = [loop EXCEPT ![p] = "idle"] /\ loop[p] = "select"
        \/ loop' = loop
    BY <1>3 DEF Report
  <2>2. QED
    BY <1>0, <2>1
<1>4. ASSUME NEW g \in spawned, Run(g) \/ RunFails(g)
      PROVE  loop'[q] = loop[q] \/ (loop'[q] = "idle" /\ loop[q] # "idle")
  <2>1. g.peer \in Peers
    BY DEF TypeOK, Goroutine
  <2>2. loop' = loop \/ Report(g.peer, g.attempt)
    BY <1>4 DEF Run, RunFails
  <2>3. QED
    BY <1>3, <2>1, <2>2
<1>5. ASSUME NEW p \in Peers, NEW a \in Attempts, Sign(p, a) \/ PartyStops(p, a)
      PROVE  loop'[q] = loop[q] \/ (loop'[q] = "idle" /\ loop[q] # "idle")
  <2>1. Report(p, a)
    BY <1>5 DEF Sign, PartyStops
  <2>2. QED
    BY <1>3, <2>1
<1>6. ASSUME NEW m \in msgs, ReceiveInitiate(m.to, m) \/ ReceiveStart(m.to, m)
      PROVE  loop'[q] = loop[q] \/ (loop'[q] = "busy" /\ loop[q] # "idle")
  <2>1. \/ loop' = [loop EXCEPT ![m.to] = "busy"] /\ loop[m.to] = "select"
        \/ loop' = loop
    BY <1>6 DEF ReceiveInitiate, ReceiveStart
  <2>2. QED
    BY <1>0, <2>1
<1>7. ASSUME NEW m \in msgs, ReceiveReady(m.to, m)
      PROVE  loop'[q] = loop[q] \/ m.to = q
  <2>1. loop' = [loop EXCEPT ![m.to] = "starting"] \/ loop' = loop
    BY <1>7 DEF ReceiveReady
  <2>2. QED
    BY <1>0, <2>1
<1>8. CASE UNCHANGED vars
  BY <1>8 DEF vars
<1>9. QED
  BY <1>1, <1>2, <1>4, <1>5, <1>6, <1>7, <1>8 DEF Next, LocalStep, Deliver

(* A relayer that is in an Execute has been counted, and nothing is known  *)
(* of attempts it has not made yet.                                        *)
LEMMA LoopStep ==
    ASSUME TypeOK, LoopInv, StartInv, [Next]_vars
    PROVE  LoopInv'
<1> SUFFICES ASSUME NEW p \in Peers
             PROVE  /\ loop'[p] # "idle" => attempt'[p] \in Attempts
                    /\ attempt'[p] > 0 => p \in KeyPeers[p]
                    /\ \A a \in Attempts : a > attempt'[p] =>
                         announced'[p][a] = {} /\ party'[p][a] = "new"
  BY DEF LoopInv, Attempts
<1>1. /\ loop[p] # "idle" => attempt[p] \in Attempts
      /\ attempt[p] > 0 => p \in KeyPeers[p]
      /\ \A a \in Attempts : a > attempt[p] =>
           announced[p][a] = {} /\ party[p][a] = "new"
  BY DEF LoopInv
<1>2. attempt[p] \in Nat
  BY MaxAttemptsAssumption DEF TypeOK
<1>3. /\ attempt'[p] \in Nat /\ attempt[p] <= attempt'[p]
      /\ \/ attempt'[p] = attempt[p]
         \/ attempt'[p] \in Attempts /\ p \in KeyPeers[p]
  <2>1. CASE UNCHANGED << attempt, coord >>
    BY <1>2, <2>1
  <2>2. ASSUME NEW q \in Peers, NEW c \in Coordinators, Execute(q, c)
        PROVE  /\ attempt'[p] \in Nat /\ attempt[p] <= attempt'[p]
               /\ \/ attempt'[p] = attempt[p]
                  \/ attempt'[p] \in Attempts /\ p \in KeyPeers[p]
    <3>1. p = q => p \in KeyPeers[p]
      BY <2>2 DEF Execute
    <3>2. QED
      BY <2>2, <3>1, ExecuteEffect
  <2>3. QED
    BY <2>1, <2>2, Frames
<1>4. loop'[p] # "idle" => attempt'[p] \in Attempts
  <2>1. ASSUME NEW c \in Coordinators, Execute(p, c)
        PROVE  attempt'[p] \in Attempts
    BY <2>1, ExecuteEffect
  <2>2. ASSUME NEW m \in msgs, m.to = p, ReceiveReady(p, m)
        PROVE  loop[p] # "idle"
    BY <2>2 DEF ReceiveReady
  <2>3. QED
    BY <1>1, <1>3, <2>1, <2>2, LoopEffect
<1>5. ASSUME NEW a \in Attempts, a > attempt'[p]
      PROVE  announced'[p][a] = {} /\ party'[p][a] = "new"
  <2>1. a \in Nat /\ a > attempt[p]
    BY <1>2, <1>3, <1>5, MaxAttemptsAssumption DEF Attempts
  <2>2. announced'[p][a] = {}
    <3>1. ASSUME NEW m \in msgs, ReceiveReady(m.to, m)
          PROVE  announced'[p][a] = announced[p][a]
      <4>1. ~(p = m.to /\ a = attempt[m.to])
        BY <1>2, <2>1
      <4>2. QED
        BY <3>1, <4>1, ReadyEffect
    <3>2. QED
      BY <1>1, <2>1, <3>1, Frames
  <2>3. party'[p][a] = "new"
    <3>1. party[p][a] = "new"
      BY <1>1, <2>1
    <3>2. ASSUME NEW g \in spawned, g.peer = p, g.attempt = a
          PROVE  FALSE
      BY <1>2, <2>1, <3>2 DEF StartInv
    <3>3. QED
      BY <3>1, <3>2, PartyEffect
  <2>4. QED
    BY <2>2, <2>3
<1>6. QED
  BY <1>1, <1>3, <1>4, <1>5

(* Which messages a step may add.                                          *)
LEMMA MessageEffect ==
    ASSUME [Next]_vars, NEW n \in msgs', n \notin msgs
    PROVE  \/ n.type = "initiate"
           \/ \E m \in msgs : /\ ReceiveInitiate(m.to, m)
                              /\ m.from = CurrentCoord(m.to)
                              /\ n.type = "ready"
                              /\ n.from = m.to /\ n.to = m.from
           \/ \E m \in msgs : /\ ReceiveReady(m.to, m)
                              /\ n.type = "start"
                              /\ n \in Broadcast(m.to, "start", Peers,
                                     StartParams(m.to, ready[m.to] \cup {m.from}))
                              /\ Ready(m.to, ready[m.to] \cup {m.from})
<1>1. ASSUME NEW p \in Peers, NEW c \in Coordinators, Execute(p, c)
      PROVE  n.type = "initiate"
  BY <1>1 DEF Execute, Broadcast
<1>2. ASSUME NEW p \in Peers, Tick(p)
      PROVE  n.type = "initiate"
  BY <1>2 DEF Tick, Broadcast
<1>3. ASSUME NEW p \in Peers, Resume(p) \/ Return(p) \/ Timeout(p) \/ StartSent(p)
      PROVE  FALSE
  BY <1>3 DEF Resume, Return, Timeout, StartSent
<1>4. ASSUME NEW g \in spawned, Run(g) \/ RunFails(g)
      PROVE  FALSE
  BY <1>4 DEF Run, RunFails
<1>5. ASSUME NEW p \in Peers, NEW a \in Attempts, Sign(p, a) \/ PartyStops(p, a)
      PROVE  FALSE
  BY <1>5 DEF Sign, PartyStops
<1>6. ASSUME NEW m \in msgs, ReceiveInitiate(m.to, m)
      PROVE  /\ m.from = CurrentCoord(m.to)
             /\ n.type = "ready"
             /\ n.from = m.to /\ n.to = m.from
  BY <1>6 DEF ReceiveInitiate, Broadcast, Delivered
<1>7. ASSUME NEW m \in msgs, ReceiveReady(m.to, m)
      PROVE  /\ n.type = "start"
             /\ n \in Broadcast(m.to, "start", Peers,
                      StartParams(m.to, ready[m.to] \cup {m.from}))
             /\ Ready(m.to, ready[m.to] \cup {m.from})
  <2>1. /\ n \in Broadcast(m.to, "start", Peers,
                 StartParams(m.to, ready[m.to] \cup {m.from}))
        /\ Ready(m.to, ready[m.to] \cup {m.from})
    BY <1>7 DEF ReceiveReady, Delivered
  <2>2. QED
    BY <2>1 DEF Broadcast
<1>8. ASSUME NEW m \in msgs, ReceiveStart(m.to, m)
      PROVE  FALSE
  BY <1>8 DEF ReceiveStart, Delivered
<1>9. CASE UNCHANGED vars
  BY <1>9 DEF vars
<1>10. QED
  BY <1>1, <1>2, <1>3, <1>4, <1>5, <1>6, <1>7, <1>8, <1>9
     DEF Next, LocalStep, Deliver

(* The coordinator of an Execute that goes on is the one it was given.     *)
LEMMA CoordinatingKept ==
    ASSUME TypeOK, LoopInv, [Next]_vars, NEW q \in Peers, loop[q] # "idle",
           ~\E c \in Coordinators : Execute(q, c)
    PROVE  /\ attempt'[q] = attempt[q] /\ attempt[q] \in Attempts
           /\ CurrentCoord(q)' = CurrentCoord(q)
           /\ Coordinating(q)' <=> Coordinating(q)
<1>1. attempt[q] \in Attempts
  BY DEF LoopInv
<1>2. attempt'[q] = attempt[q] /\ coord'[q][attempt[q]] = coord[q][attempt[q]]
  <2>1. CASE UNCHANGED << attempt, coord >>
    BY <2>1
  <2>2. ASSUME NEW p \in Peers, NEW c \in Coordinators, Execute(p, c)
        PROVE  attempt'[q] = attempt[q] /\ coord'[q][attempt[q]] = coord[q][attempt[q]]
    <3>1. p # q
      BY <2>2
    <3>2. QED
      BY <1>1, <2>2, <3>1, ExecuteEffect
  <2>3. QED
    BY <2>1, <2>2, Frames
<1>3. QED
  BY <1>1, <1>2 DEF CurrentCoord, Coordinating

(* Ready messages and ready peers come from relayers that joined.          *)
LEMMA ReadyStep ==
    ASSUME TypeOK, TypeOK', LoopInv, ReadyInv, [Next]_vars
    PROVE  ReadyInv'
<1>1. ASSUME NEW n \in msgs', n.type = "ready"
      PROVE  Joined(n.from, n.to)'
  <2>0. n.from \in Peers /\ n.to \in Peers
    BY DEF TypeOK, Message
  <2>1. CASE n \in msgs
    <3>1. Joined(n.from, n.to)
      BY <1>1, <2>1 DEF ReadyInv
    <3>2. QED
      BY <2>0, <3>1, JoinedMonotone
  <2>2. CASE n \notin msgs
    <3>1. PICK m \in msgs : /\ ReceiveInitiate(m.to, m)
                            /\ m.from = CurrentCoord(m.to)
                            /\ n.from = m.to /\ n.to = m.from
      BY <1>1, <2>2, MessageEffect
    <3>2. m.to \in Peers /\ loop[m.to] # "idle"
      BY <3>1 DEF TypeOK, Message, ReceiveInitiate
    <3>3. attempt[m.to] \in Attempts /\ attempt[m.to] <= attempt[m.to]
      BY <3>2, MaxAttemptsAssumption DEF LoopInv, Attempts
    <3>4. Joined(n.from, n.to)
      BY <3>1, <3>3 DEF Joined, CurrentCoord
    <3>5. QED
      BY <2>0, <3>4, JoinedMonotone
  <2>3. QED
    BY <2>1, <2>2
<1>2. ASSUME NEW c \in Peers, NEW q \in ready'[c]
      PROVE  Joined(q, c)'
  <2>0. q \in Peers
    BY DEF TypeOK
  <2>1. CASE q \in ready[c]
    <3>1. Joined(q, c)
      BY <2>1 DEF ReadyInv
    <3>2. QED
      BY <2>0, <3>1, JoinedMonotone
  <2>2. CASE q \notin ready[c]
    <3>1. ASSUME NEW p \in Peers, NEW d \in Coordinators, Execute(p, d)
          PROVE  Joined(q, c)'
      <4>1. p = d /\ q = p /\ c = p
        <5>1. \/ ready' = ready
              \/ p = d /\ ready' = [ready EXCEPT ![p] = {p}]
          BY <3>1 DEF Execute
        <5>2. ready \in [Peers -> SUBSET Peers]
          BY DEF TypeOK
        <5>3. QED
          BY <1>2, <2>2, <5>1, <5>2
      <4>2. attempt[p] + 1 \in Attempts /\ attempt'[p] = attempt[p] + 1
            /\ coord'[p][attempt[p] + 1] = p /\ attempt[p] + 1 <= attempt'[p]
        BY <3>1, <4>1, ExecuteEffect
      <4>3. QED
        BY <4>1, <4>2 DEF Joined, Attempts
    <3>2. ASSUME NEW m \in msgs, ReceiveReady(m.to, m)
          PROVE  Joined(q, c)'
      <4>1. m.type = "ready" /\ c = m.to /\ q = m.from
        <5>1. /\ m.type = "ready"
              /\ ready'[m.to] = ready[m.to] \cup {m.from}
              /\ c # m.to => ready'[c] = ready[c]
          BY <3>2, ReadyEffect
        <5>2. c = m.to
          BY <1>2, <2>2, <5>1
        <5>3. QED
          BY <1>2, <2>2, <5>1, <5>2
      <4>2. Joined(q, c)
        BY <4>1 DEF ReadyInv
      <4>3. QED
        BY <2>0, <4>2, JoinedMonotone
    <3>3. QED
      BY <1>2, <2>2, <3>1, <3>2, Frames
  <2>3. QED
    BY <2>1, <2>2
<1>3. ASSUME NEW c \in Peers, loop'[c] # "idle", Coordinating(c)'
      PROVE  /\ c \in ready'[c]
             /\ \A S \in announced'[c][attempt'[c]] : S \subseteq ready'[c]
  <2>1. ASSUME NEW d \in Coordinators, Execute(c, d)
        PROVE  /\ c \in ready'[c]
               /\ \A S \in announced'[c][attempt'[c]] : S \subseteq ready'[c]
    <3>1. /\ attempt[c] + 1 \in Attempts /\ attempt'[c] = attempt[c] + 1
          /\ coord'[c][attempt[c] + 1] = d /\ attempt[c] \in Nat
      BY <2>1, ExecuteEffect
    <3>2. c = d
      BY <1>3, <3>1 DEF Coordinating, CurrentCoord
    <3>3. ready'[c] = {c} /\ announced' = announced
      <4>1. ready \in [Peers -> SUBSET Peers]
        BY DEF TypeOK
      <4>2. ready' = [ready EXCEPT ![c] = {c}] /\ announced' = announced
        BY <2>1, <3>2 DEF Execute
      <4>3. QED
        BY <4>1, <4>2
    <3>4. announced[c][attempt[c] + 1] = {}
      BY <3>1 DEF LoopInv
    <3>5. QED
      BY <3>1, <3>3, <3>4
  <2>2. CASE ~\E d \in Coordinators : Execute(c, d)
    <3>1. loop[c] # "idle"
      <4>1. ASSUME NEW m \in msgs, m.to = c, ReceiveReady(c, m)
            PROVE  loop[c] # "idle"
        BY <4>1 DEF ReceiveReady
      <4>2. QED
        BY <1>3, <2>2, <4>1, LoopEffect
    <3>2. /\ attempt'[c] = attempt[c] /\ attempt[c] \in Attempts
          /\ Coordinating(c)
      BY <1>3, <2>2, <3>1, CoordinatingKept
    <3>3. /\ c \in ready[c]
          /\ \A S \in announced[c][attempt[c]] : S \subseteq ready[c]
      BY <3>1, <3>2 DEF ReadyInv
    <3>4. ASSUME NEW m \in msgs, ReceiveReady(m.to, m)
          PROVE  /\ c \in ready'[c]
                 /\ \A S \in announced'[c][attempt'[c]] : S \subseteq ready'[c]
      <4>1. CASE m.to = c
        <5> DEFINE R == ready[c] \cup {m.from}
        <5>1. /\ R \in SUBSET Peers /\ ready'[c] = R
              /\ \/ announced' = announced
                 \/ /\ Ready(c, R)
                    /\ announced'[c][attempt[c]] =
                         announced[c][attempt[c]] \cup {StartParams(c, R)}
          BY <3>4, <4>1, ReadyEffect
        <5>2. StartParams(c, R) \subseteq R
          BY DEF StartParams, readyParticipants
        <5>3. QED
          BY <3>2, <3>3, <5>1, <5>2
      <4>2. CASE m.to # c
        <5>1. /\ ready'[c] = ready[c]
              /\ announced'[c][attempt[c]] = announced[c][attempt[c]]
          BY <3>2, <3>4, <4>2, ReadyEffect
        <5>2. QED
          BY <3>2, <3>3, <5>1
      <4>3. QED
        BY <4>1, <4>2
    <3>5. ASSUME NEW p \in Peers, NEW d \in Coordinators, Execute(p, d)
          PROVE  ready'[c] = ready[c]
      <4>1. p # c
        BY <2>2, <3>5
      <4>2. ready \in [Peers -> SUBSET Peers]
        BY DEF TypeOK
      <4>3. ready' = ready \/ ready' = [ready EXCEPT ![p] = {p}]
        BY <3>5 DEF Execute
      <4>4. QED
        BY <4>1, <4>2, <4>3
    <3>6. QED
      BY <3>2, <3>3, <3>4, <3>5, Frames
  <2>3. QED
    BY <2>1, <2>2
<1>4. QED
  BY <1>1, <1>2, <1>3 DEF ReadyInv

(* Start messages and goroutines carry announced subsets.                  *)
LEMMA StartStep ==
    ASSUME TypeOK, TypeOK', LoopInv, ReadyInv, StartInv, [Next]_vars
    PROVE  StartInv'
<1>1. ASSUME NEW n \in msgs', n.type = "start"
      PROVE  Announced(n.from, n.subset)'
  <2>0. n.from \in Peers
    BY DEF TypeOK, Message
  <2>1. CASE n \in msgs
    <3>1. Announced(n.from, n.subset)
      BY <1>1, <2>1 DEF StartInv
    <3>2. QED
      BY <2>0, <3>1, AnnouncedMonotone
  <2>2. CASE n \notin msgs
    <3>1. PICK m \in msgs :
             /\ ReceiveReady(m.to, m)
             /\ n \in Broadcast(m.to, "start", Peers,
                      StartParams(m.to, ready[m.to] \cup {m.from}))
             /\ Ready(m.to, ready[m.to] \cup {m.from})
      BY <1>1, <2>2, MessageEffect
    <3>2. n.from = m.to /\ n.subset = StartParams(m.to, ready[m.to] \cup {m.from})
      BY <3>1 DEF Broadcast
    <3>3. /\ attempt[m.to] \in Attempts
          /\ n.subset \in announced'[m.to][attempt[m.to]]
      <4>1. n \notin msgs /\ n \in msgs'
        BY <2>2
      <4>2. ~(msgs' \subseteq msgs)
        BY <4>1
      <4>3. QED
        BY <3>1, <3>2, <4>2, ReadyEffect
    <3>4. QED
      BY <3>2, <3>3 DEF Announced, Attempts
  <2>3. QED
    BY <2>1, <2>2
<1>2. ASSUME NEW p \in Peers, loop'[p] = "starting"
      PROVE  /\ Coordinating(p)'
             /\ StartParams(p, ready'[p]) \in announced'[p][attempt'[p]]
  <2>1. ~\E c \in Coordinators : Execute(p, c)
    <3>1. ASSUME NEW c \in Coordinators, Execute(p, c)
          PROVE  FALSE
      <4>1. loop' = [loop EXCEPT ![p] = "busy"] \/ loop' = [loop EXCEPT ![p] = "select"]
        BY <3>1 DEF Execute
      <4>2. loop \in [Peers -> {"idle", "select", "busy", "starting"}]
        BY DEF TypeOK
      <4>3. QED
        BY <1>2, <4>1, <4>2
    <3>2. QED
      BY <3>1
  <2>2. ASSUME NEW m \in msgs, m.to = p, ReceiveReady(p, m)
        PROVE  /\ Coordinating(p)'
               /\ StartParams(p, ready'[p]) \in announced'[p][attempt'[p]]
    <3>1. loop[p] = "select"
      BY <2>2 DEF ReceiveReady
    <3>2. /\ attempt'[p] = attempt[p]
          /\ Coordinating(p)' <=> Coordinating(p)
      BY <2>1, <3>1, CoordinatingKept
    <3>3. loop' # loop
      BY <1>2, <3>1
    <3>4. /\ Coordinating(p)
          /\ ready'[p] = ready[p] \cup {m.from}
          /\ announced'[p][attempt[p]] = announced[p][attempt[p]] \cup
                {StartParams(p, ready[p] \cup {m.from})}
      BY <2>2, <3>3, ReadyEffect
    <3>5. QED
      BY <3>2, <3>4
  <2>3. CASE ~\E m \in msgs : m.to = p /\ ReceiveReady(p, m)
    <3>1. loop[p] = "starting"
      BY <1>2, <2>1, <2>3, LoopEffect
    <3>2. /\ Coordinating(p)
          /\ StartParams(p, ready[p]) \in announced[p][attempt[p]]
      BY <3>1 DEF StartInv
    <3>3. /\ attempt'[p] = attempt[p] /\ attempt[p] \in Attempts
          /\ Coordinating(p)' <=> Coordinating(p)
      BY <2>1, <3>1, CoordinatingKept
    <3>4. ready'[p] = ready[p]
      <4>1. ASSUME NEW q \in Peers, NEW c \in Coordinators, Execute(q, c)
            PROVE  ready'[p] = ready[p]
        <5>1. q # p
          BY <2>1, <4>1
        <5>2. ready \in [Peers -> SUBSET Peers]
          BY DEF TypeOK
        <5>3. ready' = ready \/ ready' = [ready EXCEPT ![q] = {q}]
          BY <4>1 DEF Execute
        <5>4. QED
          BY <5>1, <5>2, <5>3
      <4>2. ASSUME NEW m \in msgs, ReceiveReady(m.to, m)
            PROVE  ready'[p] = ready[p]
        <5>1. m.to # p
          BY <2>3, <4>2
        <5>2. QED
          BY <4>2, <5>1, ReadyEffect
      <4>3. QED
        BY <4>1, <4>2, Frames
    <3>5. StartParams(p, ready[p]) \in announced'[p][attempt[p]]
      BY <3>2, <3>3, AnnouncedMonotone
    <3>6. QED
      BY <3>2, <3>3, <3>4, <3>5
  <2>4. QED
    BY <2>2, <2>3
<1>3. ASSUME NEW g \in spawned'
      PROVE  /\ g.attempt <= attempt'[g.peer]
             /\ Announced(coord[g.peer][g.attempt], g.subset)'
  <2>0. g.peer \in Peers /\ g.attempt \in Attempts
    BY DEF TypeOK, Goroutine
  <2>1. /\ g.attempt <= attempt[g.peer]
        /\ coord[g.peer][g.attempt] \in Peers
        /\ Announced(coord[g.peer][g.attempt], g.subset)
    <3>0. coord[g.peer][g.attempt] \in Peers
      BY <2>0 DEF TypeOK
    <3>1. CASE g \in spawned
      BY <3>0, <3>1 DEF StartInv
    <3>2. ASSUME NEW p \in Peers, StartSent(p), g \notin spawned
          PROVE  /\ g.attempt <= attempt[g.peer]
                 /\ Announced(coord[g.peer][g.attempt], g.subset)
      <4>1. /\ loop[p] = "starting"
            /\ g = [peer |-> p, attempt |-> attempt[p],
                    subset |-> StartParams(p, ready[p])]
        BY <3>2 DEF StartSent
      <4>2. /\ g.peer = p /\ g.attempt = attempt[p]
            /\ g.subset = StartParams(p, ready[p])
        BY <4>1
      <4>3. /\ coord[p][attempt[p]] = p
            /\ StartParams(p, ready[p]) \in announced[p][attempt[p]]
        BY <4>1 DEF StartInv, Coordinating, CurrentCoord
      <4>4. attempt[p] \in Attempts /\ attempt[p] <= attempt[p]
        BY <4>1, MaxAttemptsAssumption DEF LoopInv, Attempts
      <4>5. QED
        BY <4>2, <4>3, <4>4 DEF Announced
    <3>3. ASSUME NEW m \in msgs, ReceiveStart(m.to, m), g \notin spawned
          PROVE  /\ g.attempt <= attempt[g.peer]
                 /\ Announced(coord[g.peer][g.attempt], g.subset)
      <4>1. /\ loop[m.to] = "select" /\ m.type = "start"
            /\ m.from = CurrentCoord(m.to)
            /\ g = [peer |-> m.to, attempt |-> attempt[m.to], subset |-> m.subset]
        BY <3>3 DEF ReceiveStart
      <4>2. g.peer = m.to /\ g.attempt = attempt[m.to] /\ g.subset = m.subset
        BY <4>1
      <4>3. m.to \in Peers /\ Announced(m.from, m.subset)
        BY <2>0, <4>1, <4>2 DEF StartInv
      <4>4. attempt[m.to] \in Attempts /\ attempt[m.to] <= attempt[m.to]
        BY <4>1, <4>3, MaxAttemptsAssumption DEF LoopInv, Attempts
      <4>5. QED
        BY <4>1, <4>2, <4>3, <4>4 DEF CurrentCoord
    <3>4. QED
      BY <3>0, <3>1, <3>2, <3>3, Frames
  <2>2. /\ g.attempt <= attempt'[g.peer]
        /\ coord'[g.peer][g.attempt] = coord[g.peer][g.attempt]
    <3>1. CASE UNCHANGED << attempt, coord >>
      BY <2>1, <3>1
    <3>2. ASSUME NEW p \in Peers, NEW c \in Coordinators, Execute(p, c)
          PROVE  /\ g.attempt <= attempt'[g.peer]
                 /\ coord'[g.peer][g.attempt] = coord[g.peer][g.attempt]
      BY <2>0, <2>1, <3>2, ExecuteEffect DEF Attempts
    <3>3. QED
      BY <3>1, <3>2, Frames
  <2>3. Announced(coord[g.peer][g.attempt], g.subset)'
    <3> DEFINE d == coord[g.peer][g.attempt]
    <3>1. \E b \in Attempts : g.subset \in announced[d][b]
      BY <2>1 DEF Announced
    <3>2. \E b \in Attempts : g.subset \in announced'[d][b]
      BY <2>1, <3>1, AnnouncedMonotone
    <3>3. QED
      BY <2>2, <3>2 DEF Announced, Attempts
  <2>4. QED
    BY <2>2, <2>3
<1>4. QED
  BY <1>1, <1>2, <1>3 DEF StartInv, StartParams, readyParticipants

(* A new announcement is sound, and old ones stay so.                      *)
LEMMA SubsetStep ==
    ASSUME TypeOK, TypeOK', LoopInv, ReadyInv, ReadyInv', SubsetSound, [Next]_vars
    PROVE  SubsetSound'
<1> SUFFICES ASSUME NEW c \in Peers, NEW a \in Attempts, NEW S \in announced'[c][a]
             PROVE  /\ c \in S
                    /\ S \subseteq KeyPeers[c]
                    /\ Cardinality(S) = Threshold[c] + 1
                    /\ \A q \in S : Joined(q, c)'
  BY DEF SubsetSound, Attempts
<1>1. CASE S \in announced[c][a]
  <2>1. /\ c \in S
        /\ S \subseteq KeyPeers[c]
        /\ Cardinality(S) = Threshold[c] + 1
        /\ \A q \in S : Joined(q, c)
    BY <1>1 DEF SubsetSound
  <2>2. S \subseteq Peers
    BY <2>1, PeersAssumption
  <2>3. QED
    BY <2>1, <2>2, JoinedMonotone
<1>2. CASE S \notin announced[c][a]
  <2>1. PICK m \in msgs : ReceiveReady(m.to, m)
    BY <1>2, Frames
  <2> DEFINE R == ready[c] \cup {m.from}
  <2> DEFINE d == m.to
             T == StartParams(d, ready[d] \cup {m.from})
  <2>0. /\ Ready(d, ready[d] \cup {m.from})
        /\ announced'[d][attempt[d]] = announced[d][attempt[d]] \cup {T}
        /\ ~(c = d /\ a = attempt[d]) => announced'[c][a] = announced[c][a]
    <3>1. announced' # announced
      BY <1>2
    <3>2. QED
      BY <2>1, <3>1, ReadyEffect
  <2>2. m.to = c /\ S = StartParams(c, R) /\ Ready(c, R)
    <3> HIDE DEF T
    <3>1. c = d /\ a = attempt[d] /\ S = T
      BY <1>2, <2>0
    <3>2. QED
      BY <2>0, <3>1 DEF T
  <2>3. /\ R \in SUBSET Peers /\ ready'[c] = R
        /\ loop[c] # "idle" /\ Coordinating(c)
        /\ attempt[c] \in Attempts
    BY <2>1, <2>2, ReadyEffect
  <2>4. S = R \cap KeyPeers[c] /\ Cardinality(S) = Threshold[c] + 1
    BY <2>2, <2>3, StartParamsAll
  <2>5. c \in ready[c] /\ c \in KeyPeers[c]
    BY <2>3, MaxAttemptsAssumption DEF ReadyInv, LoopInv, Attempts
  <2>6. \A q \in R : Joined(q, c)'
    BY <2>3 DEF ReadyInv
  <2>7. QED
    BY <2>4, <2>5, <2>6
<1>3. QED
  BY <1>1, <1>2

(* A second announcement of an attempt repeats the first: the ready peers  *)
(* only grow and still are exactly threshold+1 participants.               *)
LEMMA OneSubsetStep ==
    ASSUME TypeOK, LoopInv, ReadyInv, SubsetSound, OneSubsetPerAttempt, [Next]_vars
    PROVE  OneSubsetPerAttempt'
<1>1. CASE UNCHANGED announced
  BY <1>1 DEF OneSubsetPerAttempt, Attempts
<1>2. ASSUME NEW m \in msgs, ReceiveReady(m.to, m)
      PROVE  OneSubsetPerAttempt'
  <2> DEFINE c == m.to
             R == ready[c] \cup {m.from}
             S == StartParams(c, R)
  <2>1. CASE announced' = announced
    BY <2>1 DEF OneSubsetPerAttempt, Attempts
  <2>2. CASE announced' # announced
    <3>1. /\ c \in Peers /\ R \in SUBSET Peers /\ attempt[c] \in Attempts
          /\ loop[c] # "idle" /\ Coordinating(c) /\ Ready(c, R)
          /\ announced'[c][attempt[c]] = announced[c][attempt[c]] \cup {S}
          /\ \A q \in Peers, b \in Attempts :
               ~(q = c /\ b = attempt[c]) => announced'[q][b] = announced[q][b]
      BY <1>2, <2>2, ReadyEffect
    <3>2. /\ S = R \cap KeyPeers[c] /\ IsFiniteSet(S)
          /\ Cardinality(S) = Threshold[c] + 1
      <4> HIDE DEF c, R
      <4>1. /\ StartParams(c, R) = R \cap KeyPeers[c]
            /\ Cardinality(R \cap KeyPeers[c]) = Threshold[c] + 1
            /\ IsFiniteSet(R \cap KeyPeers[c])
        BY <3>1, StartParamsAll
      <4>2. QED
        BY <4>1
    <3>3. ASSUME NEW S0 \in announced[c][attempt[c]]
          PROVE  S0 = S
      <4>1. S0 \subseteq ready[c]
        BY <3>1, <3>3 DEF ReadyInv
      <4>2. S0 \subseteq KeyPeers[c] /\ Cardinality(S0) = Threshold[c] + 1
        BY <3>1, <3>3 DEF SubsetSound
      <4>3. S0 \in SUBSET S
        BY <3>2, <4>1, <4>2
      <4>4. QED
        BY <3>2, <4>2, <4>3, FS_Subset
    <3>4. \A T \in announced'[c][attempt[c]] : T = S
      BY <3>1, <3>3
    <3>5. ASSUME NEW d \in Peers, NEW b \in Attempts,
                 NEW T \in announced'[d][b], NEW U \in announced'[d][b]
          PROVE  T = U
      <4>1. CASE d = c /\ b = attempt[c]
        BY <3>4, <3>5, <4>1
      <4>2. CASE ~(d = c /\ b = attempt[c])
        BY <3>1, <3>5, <4>2 DEF OneSubsetPerAttempt
      <4>3. QED
        BY <4>1, <4>2
    <3>6. QED
      BY <3>5 DEF OneSubsetPerAttempt, Attempts
  <2>3. QED
    BY <2>1, <2>2
<1>3. QED
  BY <1>1, <1>2, Frames

(* A party that starts takes the subset of its goroutine.                  *)
LEMMA PartyStep ==
    ASSUME TypeOK, TypeOK', LoopInv, StartInv, PartyFollowsCoordinator, [Next]_vars
    PROVE  PartyFollowsCoordinator'
<1> SUFFICES ASSUME NEW p \in Peers, NEW a \in Attempts, Started(p, a)'
             PROVE  /\ p \in subset'[p][a]
                    /\ Announced(coord[p][a], subset[p][a])'
  BY DEF PartyFollowsCoordinator, Attempts
<1>1. coord[p][a] \in Peers
  BY DEF TypeOK
<1>2. /\ p \in subset'[p][a]
      /\ Announced(coord[p][a], subset'[p][a])
      /\ a <= attempt[p]
  <2>1. CASE party[p][a] # "new"
    <3>1. Started(p, a) /\ subset'[p][a] = subset[p][a]
      BY <2>1, PartyEffect DEF Started
    <3>2. a <= attempt[p]
      <4>1. a \in Nat /\ attempt[p] \in Nat
        BY MaxAttemptsAssumption DEF Attempts, TypeOK
      <4>2. ~(a > attempt[p])
        BY <2>1 DEF LoopInv
      <4>3. QED
        BY <4>1, <4>2
    <3>3. QED
      BY <3>1, <3>2 DEF PartyFollowsCoordinator
  <2>2. CASE party[p][a] = "new"
    <3>1. PICK g \in spawned : /\ g.peer = p /\ g.attempt = a
                               /\ p \in g.subset
                               /\ subset'[p][a] = g.subset
      BY <2>2, PartyEffect DEF Started
    <3>2. QED
      BY <3>1 DEF StartInv
  <2>3. QED
    BY <2>1, <2>2
<1>3. coord'[p][a] = coord[p][a]
  <2>1. ASSUME NEW q \in Peers, NEW c \in Coordinators, Execute(q, c)
        PROVE  coord'[p][a] = coord[p][a]
    BY <1>2, <2>1, ExecuteEffect
  <2>2. QED
    BY <2>1, Frames
<1>4. \E b \in Attempts : subset'[p][a] \in announced'[coord[p][a]][b]
  <2>1. \E b \in Attempts : subset'[p][a] \in announced[coord[p][a]][b]
    BY <1>2 DEF Announced
  <2>2. QED
    BY <1>1, <2>1, AnnouncedMonotone
<1>5. QED
  BY <1>2, <1>3, <1>4 DEF Announced, Attempts

(* Parties that have started keep the protocol able to end.                *)
LEMMA EndStep ==
    ASSUME TypeOK, TypeOK', EndInv, [Next]_vars
    PROVE  EndInv'
<1>1. ASSUME NEW S \in SUBSET Peers, ProtocolCanEnd(S)
      PROVE  \A q \in S : \E b \in Attempts :
               /\ subset'[q][b] = S
               /\ party'[q][b] \in {"running", "signed", "stopped"}
  <2> SUFFICES ASSUME NEW q \in S
               PROVE  \E b \in Attempts :
                        /\ subset'[q][b] = S
                        /\ party'[q][b] \in {"running", "signed", "stopped"}
    OBVIOUS
  <2>1. PICK b \in Attempts : /\ subset[q][b] = S
                              /\ party[q][b] \in {"running", "signed", "stopped"}
    BY <1>1 DEF ProtocolCanEnd
  <2>2. /\ subset'[q][b] = subset[q][b]
        /\ party'[q][b] \in {"running", "signed", "stopped"}
    BY <2>1, PartyEffect
  <2>3. QED
    BY <2>1, <2>2
<1>2. ASSUME NEW p \in Peers, NEW a \in Attempts, party'[p][a] = "signed"
      PROVE  ProtocolCanEnd(subset[p][a])'
  <2>1. ProtocolCanEnd(subset[p][a]) /\ subset'[p][a] = subset[p][a]
    <3>1. CASE party[p][a] = "signed"
      BY <3>1, PartyEffect DEF EndInv
    <3>2. CASE party[p][a] # "signed"
      BY <1>2, <3>2, PartyEffect
    <3>3. QED
      BY <3>1, <3>2
  <2>2. subset[p][a] \in SUBSET Peers
    BY DEF TypeOK
  <2>3. \A q \in subset[p][a] : \E b \in Attempts :
          /\ subset'[q][b] = subset[p][a]
          /\ party'[q][b] \in {"running", "signed", "stopped"}
    BY <1>1, <2>1, <2>2
  <2>4. QED
    BY <2>1, <2>3 DEF ProtocolCanEnd, Attempts
<1>3. QED
  BY <1>2 DEF EndInv, Attempts

-----------------------------------------------------------------------------

(* Every state of the session satisfies the inductive invariant, hence the *)
(* type invariant.                                                         *)
THEOREM SessionInvariant == Spec => []SessionInv
<1>1. Init => SessionInv
  <2> SUFFICES ASSUME Init PROVE SessionInv
    OBVIOUS
  <2>1. TypeOK
    BY MaxAttemptsAssumption DEF Init, TypeOK, NoSubset
  <2>2. LoopInv
    BY MaxAttemptsAssumption DEF Init, LoopInv, Attempts
  <2>3. ReadyInv /\ StartInv
    BY DEF Init, ReadyInv, StartInv
  <2>4. SubsetSound /\ OneSubsetPerAttempt
    BY DEF Init, SubsetSound, OneSubsetPerAttempt
  <2>5. PartyFollowsCoordinator /\ EndInv
    BY DEF Init, PartyFollowsCoordinator, Started, EndInv
  <2>6. QED
    BY <2>1, <2>2, <2>3, <2>4, <2>5 DEF SessionInv
<1>2. SessionInv /\ [Next]_vars => SessionInv'
  <2> SUFFICES ASSUME SessionInv, [Next]_vars PROVE SessionInv'
    OBVIOUS
  <2>1. /\ TypeOK /\ LoopInv /\ ReadyInv /\ StartInv /\ SubsetSound
        /\ OneSubsetPerAttempt /\ PartyFollowsCoordinator /\ EndInv
    BY DEF SessionInv
  <2>2. TypeOK'
    BY <2>1, TypeStep
  <2>3. LoopInv'
    BY <2>1, LoopStep
  <2>4. ReadyInv'
    BY <2>1, <2>2, ReadyStep
  <2>5. StartInv'
    BY <2>1, <2>2, StartStep
  <2>6. SubsetSound'
    BY <2>1, <2>2, <2>4, SubsetStep
  <2>7. OneSubsetPerAttempt'
    BY <2>1, OneSubsetStep
  <2>8. PartyFollowsCoordinator' /\ EndInv'
    BY <2>1, <2>2, PartyStep, EndStep
  <2>9. QED
    BY <2>2, <2>3, <2>4, <2>5, <2>6, <2>7, <2>8 DEF SessionInv
<1>3. QED
  BY <1>1, <1>2, PTL DEF Spec

(* Type correctness of the session.                                        *)
THEOREM TypeCorrect == Spec => []TypeOK
<1>1. SessionInv => TypeOK
  BY DEF SessionInv
<1>2. QED
  BY <1>1, SessionInvariant, PTL

(* A coordinator only announces subsets of exactly threshold+1 key peers   *)
(* that joined under it, itself included (initiate, Signing.Ready).        *)
THEOREM AnnouncedSubsetsAreSound == Spec => []SubsetSound
<1>1. SessionInv => SubsetSound
  BY DEF SessionInv
<1>2. QED
  BY <1>1, SessionInvariant, PTL

(* No attempt announces two different subsets, however many ready messages *)
(* arrive and in whatever order (initiate, Signing.StartParams).           *)
THEOREM AttemptsAnnounceOneSubset == Spec => []OneSubsetPerAttempt
<1>1. SessionInv => OneSubsetPerAttempt
  BY DEF SessionInv
<1>2. QED
  BY <1>1, SessionInvariant, PTL

(* Parties run only with subsets announced by the coordinator of their own *)
(* attempt (waitForStart, startProcess, Signing.Run).                      *)
THEOREM PartiesFollowTheirCoordinator == Spec => []PartyFollowsCoordinator
<1>1. SessionInv => PartyFollowsCoordinator
  BY DEF SessionInv
<1>2. QED
  BY <1>1, SessionInvariant, PTL

(* Every signature was made by threshold+1 key peers that all ran for the  *)
(* same subset (processEndMessage).                                        *)
THEOREM SignaturesHaveQuorum == Spec => []SignatureHasQuorum
<1>1. SessionInv => SignatureHasQuorum
  <2> SUFFICES ASSUME SessionInv, NEW p \in Peers, NEW a \in Attempts,
                      party[p][a] = "signed"
               PROVE  /\ Cardinality(subset[p][a]) = Threshold[coord[p][a]] + 1
                      /\ subset[p][a] \subseteq KeyPeers[coord[p][a]]
                      /\ \A q \in subset[p][a] : \E b \in Attempts :
                           subset[q][b] = subset[p][a] /\ Started(q, b)
    BY DEF SignatureHasQuorum
  <2>1. ProtocolCanEnd(subset[p][a])
    BY DEF SessionInv, EndInv
  <2>2. coord[p][a] \in Peers /\ Started(p, a)
    BY DEF SessionInv, TypeOK, Started
  <2>3. Announced(coord[p][a], subset[p][a])
    BY <2>2 DEF SessionInv, PartyFollowsCoordinator
  <2>4. /\ Cardinality(subset[p][a]) = Threshold[coord[p][a]] + 1
        /\ subset[p][a] \subseteq KeyPeers[coord[p][a]]
    BY <2>2, <2>3 DEF SessionInv, SubsetSound, Announced
  <2>5. QED
    BY <2>1, <2>4 DEF ProtocolCanEnd, Started
<1>2. QED
  BY <1>1, SessionInvariant, PTL

(* A process runs at most one party (the Started flag of Signing.Run).     *)
THEOREM PartiesStartOnce == Spec => PartyStartsOnce
<1>1. TypeOK /\ [Next]_vars =>
        [\A p \in Peers, a \in Attempts : party[p][a] # "new" =>
           /\ party'[p][a] # "new"
           /\ subset'[p][a] = subset[p][a]
           /\ party[p][a] # "running" => party'[p][a] = party[p][a]]_vars
  BY PartyEffect
<1>2. QED
  BY <1>1, TypeCorrect, PTL DEF Spec, PartyStartsOnce

-----------------------------------------------------------------------------
(* The refinement of AbstractSession.                                      *)

(* What the refinement mapping collects.                                   *)
LEMMA MappedPairs ==
    /\ \A x : x \in JoinedPairs <=>
         \E p \in Peers : \E b \in 1 .. attempt[p] : x = << p, coord[p][b] >>
    /\ \A x : x \in AnnouncedPairs <=>
         \E c \in Peers, a \in Attempts : \E S \in announced[c][a] : x = << c, S >>
    /\ \A x : x \in SignedPairs <=>
         \E p \in Peers, a \in Attempts :
           party[p][a] = "signed" /\ x = << p, subset[p][a] >>
<1>1. \A x : x \in JoinedPairs <=>
        \E p \in Peers : \E b \in 1 .. attempt[p] : x = << p, coord[p][b] >>
  BY DEF JoinedPairs
<1>2. \A x : x \in AnnouncedPairs <=>
        \E c \in Peers, a \in Attempts : \E S \in announced[c][a] : x = << c, S >>
  BY DEF AnnouncedPairs
<1>3. \A x : x \in SignedPairs <=>
        \E p \in Peers, a \in Attempts :
          party[p][a] = "signed" /\ x = << p, subset[p][a] >>
  BY DEF SignedPairs
<1>4. QED
  BY <1>1, <1>2, <1>3

(* Execute is Join.                                                        *)
LEMMA ExecuteJoins ==
    ASSUME SessionInv, NEW p \in Peers, NEW c \in Coordinators, Execute(p, c)
    PROVE  /\ JoinedPairs' = JoinedPairs \cup {<< p, c >>}
           /\ AnnouncedPairs' = AnnouncedPairs
           /\ SignedPairs' = SignedPairs
<1>1. TypeOK
  BY DEF SessionInv
<1>2. UNCHANGED << announced, party, subset >>
  BY DEF Execute
<1>3. AnnouncedPairs' = AnnouncedPairs /\ SignedPairs' = SignedPairs
  BY <1>2 DEF AnnouncedPairs, SignedPairs
<1>4. ASSUME NEW x
      PROVE  x \in JoinedPairs' <=> x \in JoinedPairs \cup {<< p, c >>}
  <2>1. ASSUME NEW q \in Peers, NEW b \in 1 .. attempt[q]
        PROVE  b \in 1 .. attempt'[q] /\ coord'[q][b] = coord[q][b]
    <3>1. attempt[q] \in 0 .. MaxAttempts /\ b \in Attempts /\ b <= attempt[q]
      BY <1>1, <2>1, MaxAttemptsAssumption DEF Attempts, TypeOK
    <3>2. attempt'[q] \in Nat /\ attempt[q] <= attempt'[q] /\ coord'[q][b] = coord[q][b]
      BY <1>1, <3>1, ExecuteEffect
    <3>3. QED
      BY <3>1, <3>2 DEF Attempts
  <2>2. attempt[p] + 1 \in 1 .. attempt'[p] /\ coord'[p][attempt[p] + 1] = c
    BY <1>1, ExecuteEffect DEF Attempts
  <2>3. ASSUME NEW q \in Peers, NEW b \in 1 .. attempt'[q]
        PROVE  \/ b \in 1 .. attempt[q] /\ coord'[q][b] = coord[q][b]
               \/ q = p /\ b = attempt[p] + 1
    BY <1>1, <2>1, <2>3, ExecuteEffect DEF Attempts
  <2>4. x \in JoinedPairs <=>
          \E q \in Peers : \E b \in 1 .. attempt[q] : x = << q, coord[q][b] >>
    BY MappedPairs
  <2>5. x \in JoinedPairs' <=>
          \E q \in Peers : \E b \in 1 .. attempt'[q] : x = << q, coord'[q][b] >>
    BY DEF JoinedPairs
  <2>6. QED
    BY <2>1, <2>2, <2>3, <2>4, <2>5
<1>5. QED
  BY <1>3, <1>4

(* Counting a ready peer is Announce, or nothing.                          *)
LEMMA ReceiveReadyAnnounces ==
    ASSUME SessionInv, SessionInv', NEW m \in msgs, ReceiveReady(m.to, m)
    PROVE  /\ JoinedPairs' = JoinedPairs
           /\ SignedPairs' = SignedPairs
           /\ \/ AnnouncedPairs' = AnnouncedPairs
              \/ \E c \in Peers, S \in SUBSET Peers :
                   /\ c \in S
                   /\ S \subseteq KeyPeers[c]
                   /\ \A q \in S : << q, c >> \in JoinedPairs
                   /\ Cardinality(S) = Threshold[c] + 1
                   /\ AnnouncedPairs' = AnnouncedPairs \cup {<< c, S >>}
<1> DEFINE c == m.to
           S == StartParams(c, ready[c] \cup {m.from})
<1>1. TypeOK /\ TypeOK' /\ LoopInv /\ SubsetSound'
  BY DEF SessionInv
<1>2. UNCHANGED << attempt, coord, party, subset >>
  BY DEF ReceiveReady
<1>3. JoinedPairs' = JoinedPairs /\ SignedPairs' = SignedPairs
  BY <1>2 DEF JoinedPairs, SignedPairs
<1>4. /\ c \in Peers /\ S \in SUBSET Peers /\ attempt[c] \in Attempts
      /\ \/ announced' = announced
         \/ announced' = [announced EXCEPT
               ![c][attempt[c]] = announced[c][attempt[c]] \cup {S}]
  BY <1>1, ReadyEffect DEF ReceiveReady
<1>5. CASE announced' = announced
  BY <1>3, <1>5 DEF AnnouncedPairs
<1>6. CASE announced' = [announced EXCEPT
             ![c][attempt[c]] = announced[c][attempt[c]] \cup {S}]
  <2> HIDE DEF c, S
  <2>1. announced \in [Peers -> [Attempts -> SUBSET SUBSET Peers]]
    BY <1>1 DEF TypeOK
  <2>2. S \in announced'[c][attempt[c]]
    BY <1>4, <1>6, <2>1
  <2>3. /\ c \in S
        /\ S \subseteq KeyPeers[c]
        /\ Cardinality(S) = Threshold[c] + 1
        /\ \A q \in S : Joined(q, c)'
    BY <1>1, <1>4, <2>2 DEF SubsetSound, Attempts
  <2>4. ASSUME NEW q \in S
        PROVE  << q, c >> \in JoinedPairs
    <3>1. Joined(q, c) /\ q \in Peers
      BY <1>2, <1>4, <2>3 DEF Joined, Attempts
    <3>2. PICK b \in Attempts : b <= attempt[q] /\ coord[q][b] = c
      BY <3>1 DEF Joined
    <3>3. b \in 1 .. attempt[q]
      BY <1>1, <3>1, <3>2 DEF Attempts, TypeOK
    <3>4. QED
      BY <3>1, <3>2, <3>3, MappedPairs
  <2>5. ASSUME NEW x
        PROVE  x \in AnnouncedPairs' <=> x \in AnnouncedPairs \cup {<< c, S >>}
    <3>1. \A d \in Peers, a \in Attempts : \A T :
            T \in announced'[d][a] <=>
              T \in announced[d][a] \/ (d = c /\ a = attempt[c] /\ T = S)
      BY <1>4, <1>6, <2>1
    <3>2. x \in AnnouncedPairs <=>
            \E d \in Peers, a \in Attempts : \E T \in announced[d][a] : x = << d, T >>
      BY MappedPairs
    <3>3. x \in AnnouncedPairs' <=>
            \E d \in Peers, a \in Attempts : \E T \in announced'[d][a] : x = << d, T >>
      BY DEF AnnouncedPairs, Attempts
    <3>4. QED
      BY <1>4, <3>1, <3>2, <3>3
  <2>6. QED
    BY <1>3, <1>4, <2>3, <2>4, <2>5
<1>7. QED
  BY <1>4, <1>5, <1>6

(* The end of a party is Sign.                                             *)
LEMMA SignSigns ==
    ASSUME SessionInv, NEW p \in Peers, NEW a \in Attempts, Sign(p, a)
    PROVE  /\ JoinedPairs' = JoinedPairs
           /\ AnnouncedPairs' = AnnouncedPairs
           /\ coord[p][a] \in Peers
           /\ << coord[p][a], subset[p][a] >> \in AnnouncedPairs
           /\ subset[p][a] \subseteq KeyPeers[coord[p][a]]
           /\ p \in subset[p][a]
           /\ SignedPairs' = SignedPairs \cup {<< p, subset[p][a] >>}
<1>1. TypeOK /\ PartyFollowsCoordinator /\ SubsetSound
  BY DEF SessionInv
<1>2. UNCHANGED << attempt, coord, announced, subset >>
  BY DEF Sign
<1>3. JoinedPairs' = JoinedPairs /\ AnnouncedPairs' = AnnouncedPairs
  BY <1>2 DEF JoinedPairs, AnnouncedPairs
<1>4. coord[p][a] \in Peers /\ Started(p, a)
  BY <1>1 DEF Sign, Started, TypeOK
<1>5. Announced(coord[p][a], subset[p][a]) /\ p \in subset[p][a]
  BY <1>1, <1>4 DEF PartyFollowsCoordinator
<1>6. << coord[p][a], subset[p][a] >> \in AnnouncedPairs
  BY <1>4, <1>5, MappedPairs DEF Announced
<1>7. subset[p][a] \subseteq KeyPeers[coord[p][a]]
  BY <1>1, <1>4, <1>5 DEF SubsetSound, Announced
<1>8. ASSUME NEW x
      PROVE  x \in SignedPairs' <=> x \in SignedPairs \cup {<< p, subset[p][a] >>}
  <2>1. party' = [party EXCEPT ![p][a] = "signed"]
    BY DEF Sign
  <2>2. \A q \in Peers, b \in Attempts :
          party'[q][b] = "signed" <=> party[q][b] = "signed" \/ (q = p /\ b = a)
    BY <1>1, <2>1 DEF TypeOK
  <2>3. x \in SignedPairs <=>
          \E q \in Peers, b \in Attempts :
            party[q][b] = "signed" /\ x = << q, subset[q][b] >>
    BY MappedPairs
  <2>4. x \in SignedPairs' <=>
          \E q \in Peers, b \in Attempts :
            party'[q][b] = "signed" /\ x = << q, subset'[q][b] >>
    BY DEF SignedPairs, Attempts
  <2>5. QED
    BY <1>2, <2>2, <2>3, <2>4
<1>9. QED
  BY <1>3, <1>4, <1>5, <1>6, <1>7, <1>8

(* A step of a process that makes no signature leaves the signatures.      *)
LEMMA SignedUnchanged ==
    ASSUME TypeOK, [Next]_vars,
           ~\E p \in Peers, a \in Attempts : Sign(p, a)
    PROVE  SignedPairs' = SignedPairs
<1>1. ASSUME NEW p \in Peers, NEW a \in Attempts
      PROVE  /\ party'[p][a] = "signed" <=> party[p][a] = "signed"
             /\ party[p][a] = "signed" => subset'[p][a] = subset[p][a]
  <2>0. party \in [Peers -> [Attempts -> PartyStates]]
    BY DEF TypeOK, PartyStates
  <2>1. CASE UNCHANGED << party, subset >>
    BY <2>1
  <2>2. ASSUME NEW g \in spawned, Run(g) \/ RunFails(g)
        PROVE  party'[p][a] = "signed" => party[p][a] = "signed"
    <3>1. g.peer \in Peers /\ g.attempt \in Attempts
      BY DEF TypeOK, Goroutine
    <3>2. \/ party' = party
          \/ party' = [party EXCEPT ![g.peer][g.attempt] = "failed"]
          \/ party' = [party EXCEPT ![g.peer][g.attempt] = "running"]
      BY <2>2 DEF Run, RunFails
    <3>3. QED
      BY <2>0, <3>1, <3>2
  <2>3. ASSUME NEW q \in Peers, NEW b \in Attempts, PartyStops(q, b)
        PROVE  party'[p][a] = "signed" => party[p][a] = "signed"
    BY <2>0, <2>3 DEF PartyStops
  <2>4. party'[p][a] = "signed" => party[p][a] = "signed"
    BY <2>1, <2>2, <2>3, Frames
  <2>5. QED
    BY <2>4, PartyEffect
<1>2. ASSUME NEW x
      PROVE  x \in SignedPairs' <=> x \in SignedPairs
  <2>1. x \in SignedPairs <=>
          \E q \in Peers, b \in Attempts :
            party[q][b] = "signed" /\ x = << q, subset[q][b] >>
    BY MappedPairs
  <2>2. x \in SignedPairs' <=>
          \E q \in Peers, b \in Attempts :
            party'[q][b] = "signed" /\ x = << q, subset'[q][b] >>
    BY DEF SignedPairs, Attempts
  <2>3. QED
    BY <1>1, <2>1, <2>2
<1>3. QED
  BY <1>2

(* Every step of the handshake is a step of the abstract session, or none. *)
LEMMA SessionStep ==
    ASSUME SessionInv, SessionInv', [Next]_vars
    PROVE  [Session!Next]_(Session!vars)
<1>0. TypeOK /\ Coordinators \subseteq Peers
  BY PeersAssumption DEF SessionInv
<1>1. ASSUME NEW p \in Peers, NEW c \in Coordinators, Execute(p, c)
      PROVE  [Session!Next]_(Session!vars)
  <2>1. Session!Join(p, c)
    BY <1>1, ExecuteJoins DEF Session!Join
  <2>2. QED
    BY <1>0, <2>1 DEF Session!Next
<1>2. ASSUME NEW m \in msgs, ReceiveReady(m.to, m)
      PROVE  [Session!Next]_(Session!vars)
  <2>0. JoinedPairs' = JoinedPairs /\ SignedPairs' = SignedPairs
    BY <1>2, ReceiveReadyAnnounces
  <2>1. CASE AnnouncedPairs' = AnnouncedPairs
    BY <2>0, <2>1 DEF Session!vars
  <2>2. ASSUME NEW c \in Peers, NEW S \in SUBSET Peers,
               c \in S, S \subseteq KeyPeers[c],
               \A q \in S : << q, c >> \in JoinedPairs,
               Cardinality(S) = Threshold[c] + 1,
               AnnouncedPairs' = AnnouncedPairs \cup {<< c, S >>}
        PROVE  [Session!Next]_(Session!vars)
    <3>1. Session!Announce(c, S)
      BY <2>0, <2>2 DEF Session!Announce, Cardinality, Session!Cardinality
    <3>2. QED
      BY <2>2, <3>1 DEF Session!Next
  <2>3. QED
    BY <1>2, <2>1, <2>2, ReceiveReadyAnnounces
<1>3. ASSUME NEW p \in Peers, NEW a \in Attempts, Sign(p, a)
      PROVE  [Session!Next]_(Session!vars)
  <2>1. Session!Sign(p, coord[p][a], subset[p][a])
    BY <1>3, SignSigns DEF Session!Sign
  <2>2. subset[p][a] \in SUBSET KeyPeers[coord[p][a]] /\ coord[p][a] \in Peers
    BY <1>3, SignSigns
  <2>3. QED
    BY <2>1, <2>2 DEF Session!Next
<1>4. CASE /\ ~\E p \in Peers, c \in Coordinators : Execute(p, c)
           /\ ~\E m \in msgs : ReceiveReady(m.to, m)
           /\ ~\E p \in Peers, a \in Attempts : Sign(p, a)
  <2>1. UNCHANGED << attempt, coord, announced >>
    BY <1>4, Frames
  <2>2. JoinedPairs' = JoinedPairs /\ AnnouncedPairs' = AnnouncedPairs
    BY <2>1 DEF JoinedPairs, AnnouncedPairs, Attempts
  <2>3. SignedPairs' = SignedPairs
    BY <1>0, <1>4, SignedUnchanged
  <2>4. QED
    BY <2>2, <2>3 DEF Session!vars
<1>5. QED
  BY <1>1, <1>2, <1>3, <1>4

(* The handshake of tss/coordinator.go implements the abstract session: in *)
(* any network, with any keys and coordinators, whatever is lost, repeated *)
(* or late, it joins, announces and signs only as AbstractSession allows.  *)
THEOREM SessionRefinement == Spec => ImplementsSession
<1>1. Init => Session!Init
  <2> SUFFICES ASSUME Init PROVE Session!Init
    OBVIOUS
  <2>1. \A x : x \notin JoinedPairs
    BY MappedPairs DEF Init
  <2>2. \A x : x \notin AnnouncedPairs /\ x \notin SignedPairs
    BY MappedPairs DEF Init
  <2>3. QED
    BY <2>1, <2>2 DEF Session!Init
<1>2. SessionInv /\ SessionInv' /\ [Next]_vars => [Session!Next]_(Session!vars)
  BY SessionStep
<1>3. QED
  BY <1>1, <1>2, SessionInvariant, PTL DEF Spec, ImplementsSession, Session!Spec

=============================================================================
