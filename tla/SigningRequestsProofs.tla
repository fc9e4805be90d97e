------------------------ MODULE SigningRequestsProofs ------------------------
(***************************************************************************)
(* No signature without threshold+1 validations, for every set of          *)
(* relayers, every threshold and every set of requests.                    *)
(***************************************************************************)
EXTENDS SigningRequests, TLAPS

(* Initially no request has been posted.                                   *)
LEMMA InitInv == Init => RequestsInv
<1> SUFFICES ASSUME Init PROVE RequestsInv
  OBVIOUS
<1>1. TypeOK
  BY DEF Init, TypeOK, ApiStates, HandlerStates
<1>2. OriginInv
  BY DEF Init, OriginInv
<1>3. ValidatedInv /\ OneProcessPerSession
  BY DEF Init, ValidatedInv, Executed, OneProcessPerSession
<1>4. SubsetInv /\ SignaturesInv /\ SignedIsValidated
  BY DEF Init, SubsetInv, SignaturesInv, SignedIsValidated
<1> QED
  BY <1>1, <1>2, <1>3, <1>4 DEF RequestsInv

(* A step of a handler changes the state of that handler only.             *)
LEMMA MoveChanges ==
    ASSUME TypeOK, NEW p \in Relayers, NEW d \in Requests, NEW c \in Relayers,
           NEW state \in HandlerStates, Move(p, d, c, state)
    PROVE  /\ handler' \in [Relayers -> [Requests -> [Relayers -> HandlerStates]]]
           /\ handler'[p][d][c] = state
           /\ \A q, b \in Relayers, e \in Requests :
                q # p \/ e # d \/ b # c => handler'[q][e][b] = handler[q][e][b]
BY DEF TypeOK, Move

(* What was executed stays executed, so a quorum stays one.                *)
LEMMA QuorumStable ==
    ASSUME \A q, b \in Relayers, e \in Requests :
             Executed(q, e, b) => Executed(q, e, b)',
           NEW d \in Requests
    PROVE  HasQuorum(d) => HasQuorum(d)'
BY DEF HasQuorum, Quorum

(* A step that moves one handler: it does not forget that the handler had  *)
(* executed the session, it notifies only relayers that do not know of the *)
(* request yet, and it sends and caches only signatures with a quorum.     *)
LEMMA MovePreserves ==
    ASSUME RequestsInv,
           NEW p \in Relayers, NEW d \in Requests, NEW c \in Relayers,
           NEW state \in HandlerStates \ {"none"},
           Move(p, d, c, state),
           api' \in [Relayers -> [Requests -> ApiStates]],
           \A q \in Relayers, e \in Requests :
             api'[q][e] = "none" => api[q][e] = "none" /\ (q # p \/ e # d \/ q # c),
           notices' \subseteq Notice,
           \A n \in notices' \ notices :
             /\ n.to # p /\ n.data = d /\ n.coordinator = p /\ c = p
             /\ handler[n.to][d][p] = "none"
             /\ state # "received",
           \A n \in notices' : n.to # p \/ n.data # d \/ n.coordinator # c,
           handler[p][d][c] \notin {"none", "received"} => state # "received",
           p # c => handler[c][d][c] \notin {"none", "received"},
           Executed(p, d, c) => state \in {"executing", "timedOut", "excluded", "signed"},
           state \in {"validated", "executing", "timedOut", "excluded", "signed"} =>
             d \in Genuine \cup Unlocks,
           state = "executing" => ~Pending(p),
           signatures' \subseteq SignatureMsg,
           \A m \in signatures' \ signatures : HasQuorum(m.data),
           cache' \in [Relayers -> SUBSET Requests],
           \A q \in Relayers : \A e \in cache'[q] \ cache[q] : HasQuorum(e),
           UNCHANGED << answers, subset >>
    PROVE  RequestsInv'
<1>1. /\ TypeOK /\ OriginInv /\ ValidatedInv /\ SubsetInv /\ SignaturesInv
      /\ SignedIsValidated /\ OneProcessPerSession
  BY DEF RequestsInv
<1>2. /\ handler' \in [Relayers -> [Requests -> [Relayers -> HandlerStates]]]
      /\ handler'[p][d][c] = state
      /\ \A q, b \in Relayers, e \in Requests :
           q # p \/ e # d \/ b # c => handler'[q][e][b] = handler[q][e][b]
  BY <1>1, MoveChanges
<1>3. TypeOK'
  BY <1>1, <1>2 DEF TypeOK
<1>4. \A q, b \in Relayers, e \in Requests :
        Executed(q, e, b) => Executed(q, e, b)'
  <2> SUFFICES ASSUME NEW q \in Relayers, NEW b \in Relayers, NEW e \in Requests,
                      Executed(q, e, b)
               PROVE  handler'[q][e][b] \in {"executing", "timedOut", "excluded", "signed"}
    BY DEF Executed
  <2>1. CASE q = p /\ e = d /\ b = c
    BY <1>2, <2>1
  <2>2. CASE q # p \/ e # d \/ b # c
    BY <1>2, <2>2 DEF Executed
  <2> QED
    BY <2>1, <2>2
<1>5. OriginInv'
  <2>1. \A q \in Relayers, e \in Requests :
          api'[q][e] = "none" => handler'[q][e][q] = "none"
    <3> SUFFICES ASSUME NEW q \in Relayers, NEW e \in Requests,
                        api'[q][e] = "none"
                 PROVE  handler'[q][e][q] = "none"
      OBVIOUS
    <3>1. q # p \/ e # d \/ q # c
      OBVIOUS
    <3>2. handler'[q][e][q] = handler[q][e][q]
      BY <1>2, <3>1
    <3>3. handler[q][e][q] = "none"
      BY <1>1 DEF OriginInv
    <3> QED
      BY <3>2, <3>3
  <2>2. \A q \in Relayers, e \in Requests :
          handler[q][e][q] \notin {"none", "received"} =>
            handler'[q][e][q] \notin {"none", "received"}
    <3> SUFFICES ASSUME NEW q \in Relayers, NEW e \in Requests,
                        handler[q][e][q] \notin {"none", "received"}
                 PROVE  handler'[q][e][q] \notin {"none", "received"}
      OBVIOUS
    <3>1. CASE q = p /\ e = d /\ q = c
      BY <1>2, <3>1
    <3>2. CASE q # p \/ e # d \/ q # c
      BY <1>2, <3>2
    <3> QED
      BY <3>1, <3>2
  <2>3. ASSUME NEW n \in notices'
        PROVE  /\ n.to # n.coordinator
               /\ handler'[n.to][n.data][n.coordinator] = "none"
               /\ handler'[n.coordinator][n.data][n.coordinator] \notin
                    {"none", "received"}
    <3>1. /\ n.to \in Relayers /\ n.coordinator \in Relayers
          /\ n.data \in Requests
      BY DEF Notice
    <3>2. n.to # p \/ n.data # d \/ n.coordinator # c
      OBVIOUS
    <3>3. CASE n \in notices
      <4>1. /\ n.to # n.coordinator
            /\ handler[n.to][n.data][n.coordinator] = "none"
            /\ handler[n.coordinator][n.data][n.coordinator] \notin
                 {"none", "received"}
        BY <1>1, <3>3 DEF OriginInv
      <4>2. handler'[n.to][n.data][n.coordinator] = "none"
        BY <1>2, <3>1, <3>2, <4>1
      <4> QED
        BY <2>2, <3>1, <4>1, <4>2
    <3>4. CASE n \notin notices
      <4>1. /\ n.to # p /\ n.data = d /\ n.coordinator = p /\ c = p
            /\ handler[n.to][d][p] = "none"
            /\ state # "received"
        BY <3>4
      <4>2. handler'[n.to][d][p] = "none"
        BY <1>2, <3>1, <4>1
      <4> QED
        BY <1>2, <4>1, <4>2
    <3> QED
      BY <3>3, <3>4
  <2>4. ASSUME NEW q \in Relayers, NEW b \in Relayers, NEW e \in Requests,
               q # b, handler'[q][e][b] # "none"
        PROVE  handler'[b][e][b] \notin {"none", "received"}
    <3>1. handler[b][e][b] \notin {"none", "received"}
      <4>1. CASE q = p /\ e = d /\ b = c
        BY <2>4, <4>1
      <4>2. CASE q # p \/ e # d \/ b # c
        <5>1. handler[q][e][b] # "none"
          BY <1>2, <2>4, <4>2
        <5> QED
          BY <1>1, <2>4, <5>1 DEF OriginInv
      <4> QED
        BY <4>1, <4>2
    <3> QED
      BY <2>2, <3>1
  <2> QED
    BY <2>1, <2>3, <2>4 DEF OriginInv
<1>6. ValidatedInv'
  <2> DEFINE Late == {"validated", "executing", "timedOut", "excluded", "signed"}
  <2> SUFFICES ASSUME NEW q \in Relayers, NEW b \in Relayers, NEW e \in Requests,
                      handler'[q][e][b] \in Late
               PROVE  e \in Genuine \cup Unlocks
    BY DEF ValidatedInv, Executed
  <2>1. CASE q = p /\ e = d /\ b = c
    BY <1>2, <2>1
  <2>2. CASE q # p \/ e # d \/ b # c
    <3>1. handler[q][e][b] \in Late
      BY <1>2, <2>2
    <3> QED
      BY <1>1, <3>1 DEF ValidatedInv, Executed
  <2> QED
    BY <2>1, <2>2
<1>7. SignaturesInv'
  <2>1. ASSUME NEW m \in signatures' PROVE HasQuorum(m.data)'
    <3>1. m.data \in Requests /\ HasQuorum(m.data)
      BY <1>1 DEF SignatureMsg, SignaturesInv
    <3> QED
      BY <1>4, <3>1, QuorumStable
  <2> QED
    BY <2>1 DEF SignaturesInv
<1>8. SignedIsValidated'
  <2>1. ASSUME NEW q \in Relayers, NEW e \in (cache[q] \cup answers[q])'
        PROVE  HasQuorum(e)'
    <3>1. e \in Requests /\ HasQuorum(e)
      BY <1>1 DEF TypeOK, SignedIsValidated
    <3> QED
      BY <1>4, <3>1, QuorumStable
  <2> QED
    BY <2>1 DEF SignedIsValidated
<1>9. OneProcessPerSession'
  <2> SUFFICES ASSUME NEW q \in Relayers, NEW b1 \in Relayers, NEW b2 \in Relayers,
                      NEW e1 \in Requests, NEW e2 \in Requests,
                      handler'[q][e1][b1] = "executing",
                      handler'[q][e2][b2] = "executing"
               PROVE  e1 = e2 /\ b1 = b2
    BY DEF OneProcessPerSession
  <2>1. ASSUME NEW b \in Relayers, NEW e \in Requests,
               handler'[q][e][b] = "executing"
        PROVE  \/ q = p /\ e = d /\ b = c /\ ~Pending(q)
               \/ handler[q][e][b] = "executing" /\ Pending(q)
    <3>1. CASE q = p /\ e = d /\ b = c
      BY <1>2, <2>1, <3>1
    <3>2. CASE q # p \/ e # d \/ b # c
      <4>1. handler[q][e][b] = "executing"
        BY <1>2, <2>1, <3>2
      <4> QED
        BY <4>1 DEF Pending
    <3> QED
      BY <3>1, <3>2
  <2> QED
    BY <1>1, <2>1 DEF OneProcessPerSession
<1>10. SubsetInv'
  <2> SUFFICES ASSUME NEW e \in Requests, NEW b \in Relayers, subset[e][b] # {}
               PROVE  Subset(b, subset[e][b])'
    BY DEF SubsetInv
  <2>1. subset[e][b] \in SUBSET Relayers /\ Subset(b, subset[e][b])
    BY <1>1 DEF TypeOK, SubsetInv
  <2>2. subset'[e][b] = subset[e][b]
    OBVIOUS
  <2>3. \A q \in subset[e][b] : Joined(q, b)'
    BY <1>4, <2>1 DEF Subset, Joined
  <2> QED
    BY <2>1, <2>2, <2>3 DEF Subset
<1> QED
  BY <1>3, <1>5, <1>6, <1>7, <1>8, <1>9, <1>10 DEF RequestsInv

(* A posted request is new to the relayer.                                 *)
LEMMA PostPreserves ==
    ASSUME RequestsInv, NEW p \in Relayers, NEW d \in Requests,
           HandleSigning(p, d)
    PROVE  RequestsInv'
<1>1. TypeOK /\ OriginInv
  BY DEF RequestsInv
<1>2. /\ api[p][d] = "none"
      /\ api' = [api EXCEPT ![p][d] = "waiting"]
      /\ Move(p, d, p, "received")
      /\ UNCHANGED << notices, signatures, cache, answers, subset >>
  BY DEF HandleSigning
<1>3. handler[p][d][p] = "none"
  BY <1>1, <1>2 DEF OriginInv
<1>4. "received" \in HandlerStates \ {"none"}
  BY DEF HandlerStates
<1>5. api' \in [Relayers -> [Requests -> ApiStates]]
  BY <1>1, <1>2 DEF TypeOK, ApiStates
<1>6. \A q \in Relayers, e \in Requests :
        api'[q][e] = "none" => api[q][e] = "none" /\ (q # p \/ e # d \/ q # p)
  BY <1>1, <1>2 DEF TypeOK
<1>7. \A n \in notices' : n.to # p \/ n.data # d \/ n.coordinator # p
  BY <1>1, <1>2 DEF OriginInv
<1>8. ~Executed(p, d, p)
  BY <1>3 DEF Executed
<1>9. /\ notices' \subseteq Notice /\ notices' = notices
      /\ signatures' \subseteq SignatureMsg /\ signatures' = signatures
      /\ cache' \in [Relayers -> SUBSET Requests] /\ cache' = cache
      /\ UNCHANGED << answers, subset >>
  BY <1>1, <1>2 DEF TypeOK
<1>10. /\ \A n \in notices' \ notices : FALSE
       /\ \A m \in signatures' \ signatures : FALSE
       /\ \A q \in Relayers : \A e \in cache'[q] \ cache[q] : FALSE
  BY <1>9
<1> QED
  BY <1>2, <1>3, <1>4, <1>5, <1>6, <1>7, <1>8, <1>9, <1>10, MovePreserves

(* A request that another relayer broadcast is new to this one.            *)
LEMMA ListenPreserves ==
    ASSUME RequestsInv, NEW n \in notices, Listen(n.to, n)
    PROVE  RequestsInv'
<1> DEFINE p == n.to
           d == n.data
           c == n.coordinator
<1>1. TypeOK /\ OriginInv
  BY DEF RequestsInv
<1>2. p \in Relayers /\ d \in Requests /\ c \in Relayers
  BY <1>1 DEF TypeOK, Notice
<1>3. /\ p # c
      /\ handler[p][d][c] = "none"
      /\ handler[c][d][c] \notin {"none", "received"}
  BY <1>1 DEF OriginInv
<1>4. /\ Move(p, d, c, "received")
      /\ notices' = notices \ {n}
      /\ UNCHANGED << api, signatures, cache, answers, subset >>
  BY DEF Listen
<1>5. \A k \in notices' : k.to # p \/ k.data # d \/ k.coordinator # c
  <2> SUFFICES ASSUME NEW k \in notices', k.to = p, k.data = d, k.coordinator = c
               PROVE  FALSE
    OBVIOUS
  <2>1. k \in Notice /\ n \in Notice /\ k # n
    BY <1>1, <1>4 DEF TypeOK
  <2>2. k = [data |-> d, coordinator |-> c, to |-> p]
    BY <2>1 DEF Notice
  <2>3. n = [data |-> d, coordinator |-> c, to |-> p]
    BY <2>1 DEF Notice
  <2> QED
    BY <2>1, <2>2, <2>3
<1>6. "received" \in HandlerStates \ {"none"}
  BY DEF HandlerStates
<1>7. \A q \in Relayers, e \in Requests :
        api'[q][e] = "none" => api[q][e] = "none" /\ (q # p \/ e # d \/ q # c)
  BY <1>3, <1>4
<1>8. ~Executed(p, d, c)
  BY <1>3 DEF Executed
<1>9. /\ notices' \subseteq Notice
      /\ api' \in [Relayers -> [Requests -> ApiStates]]
      /\ signatures' \subseteq SignatureMsg /\ signatures' = signatures
      /\ cache' \in [Relayers -> SUBSET Requests] /\ cache' = cache
      /\ UNCHANGED << answers, subset >>
  BY <1>1, <1>4 DEF TypeOK
<1>10. /\ \A k \in notices' \ notices : FALSE
       /\ \A m \in signatures' \ signatures : FALSE
       /\ \A q \in Relayers : \A e \in cache'[q] \ cache[q] : FALSE
  BY <1>4, <1>9
<1> HIDE DEF p, d, c
<1> QED
  BY <1>2, <1>3, <1>4, <1>5, <1>6, <1>7, <1>8, <1>9, <1>10, MovePreserves

(* What is known of a handler that has a request: the HTTP call that       *)
(* posted it exists, no notice of it is in flight, and if it came from     *)
(* another relayer, that one has notified.                                 *)
LEMMA HandlerKnows ==
    ASSUME RequestsInv, NEW p \in Relayers, NEW d \in Requests, NEW c \in Relayers,
           handler[p][d][c] # "none"
    PROVE  /\ p = c => api[p][d] # "none"
           /\ \A n \in notices : n.to # p \/ n.data # d \/ n.coordinator # c
           /\ p # c => handler[c][d][c] \notin {"none", "received"}
<1>1. OriginInv
  BY DEF RequestsInv
<1> QED
  BY <1>1 DEF OriginInv

(* A step of a handler that has a request and that does not broadcast it.  *)
LEMMA StepPreserves ==
    ASSUME RequestsInv, NEW p \in Relayers, NEW d \in Requests, NEW c \in Relayers,
           NEW state \in HandlerStates \ {"none", "received"},
           Move(p, d, c, state),
           handler[p][d][c] # "none",
           api' \in [Relayers -> [Requests -> ApiStates]],
           \A q \in Relayers, e \in Requests :
             api'[q][e] = "none" => api[q][e] = "none",
           Executed(p, d, c) => state \in {"executing", "timedOut", "excluded", "signed"},
           state \in {"validated", "executing", "timedOut", "excluded", "signed"} =>
             d \in Genuine \cup Unlocks,
           state = "executing" => ~Pending(p),
           signatures' \subseteq SignatureMsg,
           \A m \in signatures' \ signatures : HasQuorum(m.data),
           cache' \in [Relayers -> SUBSET Requests],
           \A q \in Relayers : \A e \in cache'[q] \ cache[q] : HasQuorum(e),
           UNCHANGED << notices, answers, subset >>
    PROVE  RequestsInv'
<1>1. /\ p = c => api[p][d] # "none"
      /\ \A n \in notices : n.to # p \/ n.data # d \/ n.coordinator # c
      /\ p # c => handler[c][d][c] \notin {"none", "received"}
  BY HandlerKnows
<1>2. \A q \in Relayers, e \in Requests :
        api'[q][e] = "none" => api[q][e] = "none" /\ (q # p \/ e # d \/ q # c)
  BY <1>1
<1>3. /\ notices' \subseteq Notice
      /\ \A n \in notices' \ notices : FALSE
      /\ \A n \in notices' : n.to # p \/ n.data # d \/ n.coordinator # c
  BY <1>1 DEF RequestsInv, TypeOK
<1>4. state \in HandlerStates \ {"none"} /\ state # "received"
  OBVIOUS
<1> QED
  BY <1>1, <1>2, <1>3, <1>4, MovePreserves

(* An answer to an HTTP call does not make it one that never came.         *)
LEMMA ReplyTyped ==
    ASSUME TypeOK, NEW p \in Relayers, NEW d \in Requests, NEW c \in Relayers,
           NEW answer \in ApiStates \ {"none"}, Reply(p, d, c, answer)
    PROVE  /\ api' \in [Relayers -> [Requests -> ApiStates]]
           /\ \A q \in Relayers, e \in Requests :
                api'[q][e] = "none" => api[q][e] = "none"
<1>1. CASE p = c /\ d \notin Unlocks
  BY <1>1 DEF TypeOK, Reply
<1>2. CASE ~(p = c /\ d \notin Unlocks)
  BY <1>2 DEF TypeOK, Reply
<1> QED
  BY <1>1, <1>2

(* A step that sends and caches no signature.                              *)
LEMMA QuietStepPreserves ==
    ASSUME RequestsInv, NEW p \in Relayers, NEW d \in Requests, NEW c \in Relayers,
           NEW state \in HandlerStates \ {"none", "received"},
           Move(p, d, c, state),
           handler[p][d][c] # "none",
           api' \in [Relayers -> [Requests -> ApiStates]],
           \A q \in Relayers, e \in Requests :
             api'[q][e] = "none" => api[q][e] = "none",
           Executed(p, d, c) => state \in {"executing", "timedOut", "excluded", "signed"},
           state \in {"validated", "executing", "timedOut", "excluded", "signed"} =>
             d \in Genuine \cup Unlocks,
           state = "executing" => ~Pending(p),
           UNCHANGED << notices, signatures, cache, answers, subset >>
    PROVE  RequestsInv'
<1>1. /\ signatures' \subseteq SignatureMsg
      /\ \A m \in signatures' \ signatures : FALSE
      /\ cache' \in [Relayers -> SUBSET Requests]
      /\ \A q \in Relayers : \A e \in cache'[q] \ cache[q] : FALSE
  BY DEF RequestsInv, TypeOK
<1> QED
  BY <1>1, StepPreserves

(* notify: no relayer knows of a request its coordinator has only received.*)
LEMMA NotifyPreserves ==
    ASSUME RequestsInv, NEW p \in Relayers, NEW d \in Requests, NEW c \in Relayers,
           Notify(p, d, c)
    PROVE  RequestsInv'
<1>1. TypeOK /\ OriginInv
  BY DEF RequestsInv
<1>2. /\ handler[p][d][c] = "received"
      /\ Move(p, d, c, "checking")
      /\ notices' = IF p = c
                      THEN notices \cup { [data |-> d, coordinator |-> p, to |-> q] :
                                            q \in Relayers \ {p} }
                      ELSE notices
      /\ UNCHANGED << api, signatures, cache, answers, subset >>
  BY DEF Notify
<1>3. /\ p = c => api[p][d] # "none"
      /\ \A n \in notices : n.to # p \/ n.data # d \/ n.coordinator # c
      /\ p # c => handler[c][d][c] \notin {"none", "received"}
  BY <1>2, HandlerKnows
<1>4. \A n \in notices' \ notices :
        /\ n.to \in Relayers /\ n.to # p /\ n.data = d /\ n.coordinator = p /\ c = p
        /\ n \in Notice
  BY <1>2 DEF Notice
<1>5. ASSUME NEW q \in Relayers, q # p, c = p
      PROVE  handler[q][d][p] = "none"
  BY <1>1, <1>2, <1>5 DEF OriginInv
<1>6. "checking" \in HandlerStates \ {"none"}
  BY DEF HandlerStates
<1>7. \A q \in Relayers, e \in Requests :
        api'[q][e] = "none" => api[q][e] = "none" /\ (q # p \/ e # d \/ q # c)
  BY <1>2, <1>3
<1>8. ~Executed(p, d, c)
  BY <1>2 DEF Executed
<1>9. /\ api' \in [Relayers -> [Requests -> ApiStates]]
      /\ signatures' \subseteq SignatureMsg /\ signatures' = signatures
      /\ cache' \in [Relayers -> SUBSET Requests] /\ cache' = cache
      /\ UNCHANGED << answers, subset >>
  BY <1>1, <1>2 DEF TypeOK
<1>10. /\ notices' \subseteq Notice
       /\ \A n \in notices' : n.to # p \/ n.data # d \/ n.coordinator # c
  BY <1>1, <1>3, <1>4 DEF TypeOK
<1>11. \A n \in notices' \ notices :
         /\ n.to # p /\ n.data = d /\ n.coordinator = p /\ c = p
         /\ handler[n.to][d][p] = "none"
         /\ "checking" # "received"
  BY <1>4, <1>5
<1>12. /\ \A m \in signatures' \ signatures : FALSE
       /\ \A q \in Relayers : \A e \in cache'[q] \ cache[q] : FALSE
  BY <1>9
<1>13. /\ Move(p, d, c, "checking")
       /\ ~("checking" \in {"validated", "executing", "timedOut", "excluded", "signed"})
       /\ "checking" # "executing" /\ "checking" # "received"
       /\ p # c => handler[c][d][c] \notin {"none", "received"}
  BY <1>2, <1>3
<1> QED
  BY <1>6, <1>7, <1>8, <1>9, <1>10, <1>11, <1>12, <1>13, MovePreserves

(* The checks, up to the answer of the HTTP call.                          *)
LEMMA ChecksPreserve ==
    ASSUME RequestsInv, NEW p \in Relayers, NEW d \in Requests, NEW c \in Relayers,
           \/ RejectRepayment(p, d, c)
           \/ Validate(p, d, c)
           \/ CheckFails(p, d, c)
    PROVE  RequestsInv'
<1>1. TypeOK
  BY DEF RequestsInv
<1>2. "failed" \in HandlerStates \ {"none", "received"}
  BY DEF HandlerStates
<1>3. "validated" \in HandlerStates \ {"none", "received"}
  BY DEF HandlerStates
<1>4. handler[p][d][c] \in {"received", "checking"}
  BY DEF RejectRepayment, Validate, CheckFails
<1>5. ~Executed(p, d, c) /\ handler[p][d][c] # "none"
  BY <1>4 DEF Executed
<1>6. UNCHANGED << notices, signatures, cache, answers, subset >>
  BY DEF RejectRepayment, Validate, CheckFails
<1>7. /\ api' \in [Relayers -> [Requests -> ApiStates]]
      /\ \A q \in Relayers, e \in Requests :
           api'[q][e] = "none" => api[q][e] = "none"
  <2>1. "accepted" \in ApiStates \ {"none"} /\ "rejected" \in ApiStates \ {"none"}
    BY DEF ApiStates
  <2>2. Reply(p, d, c, "accepted") \/ Reply(p, d, c, "rejected")
    BY DEF RejectRepayment, Validate, CheckFails
  <2>3. CASE Reply(p, d, c, "accepted")
    BY <1>1, <2>1, <2>3, ReplyTyped
  <2>4. CASE Reply(p, d, c, "rejected")
    BY <1>1, <2>1, <2>4, ReplyTyped
  <2> QED
    BY <2>2, <2>3, <2>4
<1>8. CASE Validate(p, d, c)
  <2>1. Move(p, d, c, "validated") /\ d \in Genuine \cup Unlocks
    BY <1>8 DEF Validate
  <2> QED
    BY <1>3, <1>5, <1>6, <1>7, <2>1, QuietStepPreserves
<1>9. CASE RejectRepayment(p, d, c) \/ CheckFails(p, d, c)
  <2>1. Move(p, d, c, "failed")
    BY <1>9 DEF RejectRepayment, CheckFails
  <2> QED
    BY <1>2, <1>5, <1>6, <1>7, <2>1, QuietStepPreserves
<1> QED
  BY <1>8, <1>9

(* NewSigning and Execute up to the end of the process without a result.   *)
LEMMA ExecutionPreserves ==
    ASSUME RequestsInv, NEW p \in Relayers, NEW d \in Requests, NEW c \in Relayers,
           \/ Execute(p, d, c)
           \/ NewSigningFails(p, d, c)
           \/ Exclude(p, d, c)
           \/ SessionTimesOut(p, d, c)
    PROVE  RequestsInv'
<1>1. TypeOK /\ ValidatedInv
  BY DEF RequestsInv
<1>2. handler[p][d][c] \in {"validated", "executing"}
  BY DEF Execute, NewSigningFails, Exclude, SessionTimesOut
<1>3. d \in Genuine \cup Unlocks
  BY <1>1, <1>2 DEF ValidatedInv, Executed
<1>4. UNCHANGED << api, notices, signatures, cache, answers, subset >>
  BY DEF Execute, NewSigningFails, Exclude, SessionTimesOut
<1>5. api' \in [Relayers -> [Requests -> ApiStates]]
  BY <1>1, <1>4 DEF TypeOK
<1>6. \A q \in Relayers, e \in Requests :
        api'[q][e] = "none" => api[q][e] = "none"
  BY <1>4
<1>7. {"failed", "refused", "executing", "timedOut", "excluded"} \subseteq
        HandlerStates \ {"none", "received"}
  BY DEF HandlerStates
<1>8. PICK state \in {"failed", "refused", "executing", "timedOut", "excluded"} :
        /\ Move(p, d, c, state)
        /\ state = "executing" => ~Pending(p)
        /\ Executed(p, d, c) => state \in {"timedOut", "excluded"}
  BY DEF Execute, NewSigningFails, Exclude, SessionTimesOut, Executed
<1>9. UNCHANGED << notices, signatures, cache, answers, subset >>
  BY <1>4
<1> QED
  BY <1>2, <1>3, <1>5, <1>6, <1>7, <1>8, <1>9, QuietStepPreserves

(* A signature that a party computes has the quorum of its session.        *)
LEMMA SignPreserves ==
    ASSUME RequestsInv, NEW p \in Relayers, NEW d \in Requests, NEW c \in Relayers,
           Sign(p, d, c)
    PROVE  RequestsInv'
<1>1. TypeOK /\ ValidatedInv
  BY DEF RequestsInv
<1>2. /\ handler[p][d][c] = "executing"
      /\ Move(p, d, c, "signed")
      /\ signatures' = distributeSignature(p, d, c)
      /\ UNCHANGED << notices, answers, subset >>
  BY DEF Sign
<1>3. d \in Genuine \cup Unlocks
  BY <1>1, <1>2 DEF ValidatedInv, Executed
<1>4. HasQuorum(d)
  <2>1. subset[d][c] \in SUBSET Relayers /\ subset[d][c] # {}
    BY <1>1 DEF TypeOK, Sign
  <2>2. Quorum(d, c, subset[d][c])
    BY DEF Sign
  <2> QED
    BY <1>3, <2>1, <2>2 DEF HasQuorum
<1>5. /\ signatures' \subseteq SignatureMsg
      /\ \A m \in signatures' \ signatures : m.data = d
  BY <1>1, <1>2 DEF distributeSignature, TypeOK, SignatureMsg
<1>6. \A m \in signatures' \ signatures : HasQuorum(m.data)
  BY <1>4, <1>5
<1>7. cache' = cache \/ cache' = [cache EXCEPT ![p] = {d}]
  BY DEF Sign
<1>8. /\ cache' \in [Relayers -> SUBSET Requests]
      /\ \A q \in Relayers : \A e \in cache'[q] \ cache[q] : e = d
  <2>1. CASE cache' = cache
    BY <1>1, <2>1 DEF TypeOK
  <2>2. CASE cache' = [cache EXCEPT ![p] = {d}]
    BY <1>1, <2>2 DEF TypeOK
  <2> QED
    BY <1>7, <2>1, <2>2
<1>9. \A q \in Relayers : \A e \in cache'[q] \ cache[q] : HasQuorum(e)
  BY <1>4, <1>8
<1>10. api' = api \/ api' = [api EXCEPT ![p][d] = "accepted"]
  BY DEF Sign
<1>11. /\ api' \in [Relayers -> [Requests -> ApiStates]]
       /\ \A q \in Relayers, e \in Requests :
            api'[q][e] = "none" => api[q][e] = "none"
  <2>1. CASE api' = api
    BY <1>1, <2>1 DEF TypeOK
  <2>2. CASE api' = [api EXCEPT ![p][d] = "accepted"]
    BY <1>1, <2>2 DEF TypeOK, ApiStates
  <2> QED
    BY <1>10, <2>1, <2>2
<1>12. "signed" \in HandlerStates \ {"none", "received"}
  BY DEF HandlerStates
<1> QED
  BY <1>2, <1>3, <1>5, <1>6, <1>8, <1>9, <1>11, <1>12, StepPreserves

(* Steps that leave every handler as it is.                                *)
LEMMA CachePreserves ==
    ASSUME RequestsInv, UNCHANGED << handler, notices >>,
           subset' \in [Requests -> [Relayers -> SUBSET Relayers]],
           \A d \in Requests, c \in Relayers :
             subset'[d][c] # subset[d][c] => Subset(c, subset'[d][c]),
           api' \in [Relayers -> [Requests -> ApiStates]],
           \A q \in Relayers, e \in Requests :
             api'[q][e] = "none" => api[q][e] = "none",
           signatures' \subseteq signatures,
           cache' \in [Relayers -> SUBSET Requests],
           answers' \in [Relayers -> SUBSET Requests],
           \A q \in Relayers : \A e \in (cache[q] \cup answers[q])' : HasQuorum(e)
    PROVE  RequestsInv'
<1>1. /\ TypeOK /\ OriginInv /\ ValidatedInv /\ SubsetInv /\ SignaturesInv
      /\ SignedIsValidated /\ OneProcessPerSession
  BY DEF RequestsInv
<1>2. TypeOK'
  BY <1>1 DEF TypeOK
<1>3. OriginInv'
  BY <1>1 DEF OriginInv
<1>4. ValidatedInv' /\ OneProcessPerSession'
  BY <1>1 DEF ValidatedInv, Executed, OneProcessPerSession
<1>5. /\ \A e \in Requests : HasQuorum(e) => HasQuorum(e)'
      /\ \A e \in Requests, c \in Relayers :
           Subset(c, subset'[e][c]) => Subset(c, subset[e][c])'
  BY DEF HasQuorum, Quorum, Subset, Joined, Executed
<1>6. SignaturesInv'
  <2> SUFFICES ASSUME NEW m \in signatures' PROVE HasQuorum(m.data)'
    BY DEF SignaturesInv
  <2>1. m.data \in Requests /\ HasQuorum(m.data)
    BY <1>1 DEF TypeOK, SignatureMsg, SignaturesInv
  <2> QED
    BY <1>5, <2>1
<1>7. SignedIsValidated'
  <2> SUFFICES ASSUME NEW q \in Relayers, NEW e \in (cache[q] \cup answers[q])'
               PROVE  HasQuorum(e)'
    BY DEF SignedIsValidated
  <2>1. e \in Requests /\ HasQuorum(e)
    OBVIOUS
  <2> QED
    BY <1>5, <2>1
<1>8. SubsetInv'
  <2> SUFFICES ASSUME NEW e \in Requests, NEW c \in Relayers, subset'[e][c] # {}
               PROVE  Subset(c, subset'[e][c])
    BY <1>5 DEF SubsetInv
  <2>1. CASE subset'[e][c] = subset[e][c]
    BY <1>1, <2>1 DEF SubsetInv
  <2>2. CASE subset'[e][c] # subset[e][c]
    BY <2>2
  <2> QED
    BY <2>1, <2>2
<1> QED
  BY <1>2, <1>3, <1>4, <1>6, <1>7, <1>8 DEF RequestsInv

(* The signature cache passes on what has a quorum.                        *)
LEMMA CacheStepsPreserve ==
    ASSUME RequestsInv,
           \/ \E m \in signatures : Watch(m.to, m)
           \/ \E p \in Relayers : Expire(p) \/ Subscribe(p)
           \/ \E p \in Relayers, d \in Requests : UnlockTimesOut(p, d)
    PROVE  RequestsInv'
<1>1. TypeOK /\ SignaturesInv /\ SignedIsValidated
  BY DEF RequestsInv
<1>2. /\ UNCHANGED << handler, notices >>
      /\ signatures' \subseteq signatures
      /\ subset' = subset
      /\ subset' \in [Requests -> [Relayers -> SUBSET Relayers]]
  BY <1>1 DEF TypeOK, Watch, Expire, Subscribe, UnlockTimesOut
<1>3. CASE \E m \in signatures : Watch(m.to, m)
  <2>1. PICK m \in signatures : Watch(m.to, m)
    BY <1>3
  <2>2. m.to \in Relayers /\ m.data \in Requests /\ HasQuorum(m.data)
    BY <1>1 DEF TypeOK, SignatureMsg, SignaturesInv
  <2>3. /\ cache' = [cache EXCEPT ![m.to] = {m.data}]
        /\ UNCHANGED << api, answers, subset >>
    BY <2>1 DEF Watch
  <2>4. cache' \in [Relayers -> SUBSET Requests]
    BY <1>1, <2>2, <2>3 DEF TypeOK
  <2>5. \A q \in Relayers : \A e \in (cache[q] \cup answers[q])' :
          e = m.data \/ e \in cache[q] \cup answers[q]
    BY <1>1, <2>2, <2>3 DEF TypeOK
  <2>6. \A q \in Relayers : \A e \in (cache[q] \cup answers[q])' : HasQuorum(e)
    BY <1>1, <2>2, <2>5 DEF SignedIsValidated
  <2>7. /\ api' \in [Relayers -> [Requests -> ApiStates]]
        /\ answers' \in [Relayers -> SUBSET Requests]
        /\ \A q \in Relayers, e \in Requests :
             api'[q][e] = "none" => api[q][e] = "none"
    BY <1>1, <2>3 DEF TypeOK
  <2> QED
    BY <1>2, <2>4, <2>6, <2>7, CachePreserves
<1>4. CASE \E p \in Relayers : Expire(p) \/ Subscribe(p)
  <2>1. PICK p \in Relayers : Expire(p) \/ Subscribe(p)
    BY <1>4
  <2>2. /\ api' \in [Relayers -> [Requests -> ApiStates]]
        /\ cache' \in [Relayers -> SUBSET Requests]
        /\ answers' \in [Relayers -> SUBSET Requests]
        /\ \A q \in Relayers, e \in Requests :
             api'[q][e] = "none" => api[q][e] = "none"
    BY <1>1, <2>1 DEF TypeOK, Expire, Subscribe
  <2>3. \A q \in Relayers : \A e \in (cache[q] \cup answers[q])' :
          e \in cache[q] \cup answers[q]
    BY <1>1, <2>1 DEF TypeOK, Expire, Subscribe
  <2>4. \A q \in Relayers : \A e \in (cache[q] \cup answers[q])' : HasQuorum(e)
    BY <1>1, <2>3 DEF SignedIsValidated
  <2> QED
    BY <1>2, <2>2, <2>4, CachePreserves
<1>5. CASE \E p \in Relayers, d \in Requests : UnlockTimesOut(p, d)
  <2>1. PICK p \in Relayers, d \in Requests : UnlockTimesOut(p, d)
    BY <1>5
  <2>2. /\ api' = [api EXCEPT ![p][d] = "rejected"]
        /\ UNCHANGED << cache, answers, subset >>
    BY <2>1 DEF UnlockTimesOut
  <2>3. /\ api' \in [Relayers -> [Requests -> ApiStates]]
        /\ \A q \in Relayers, e \in Requests :
             api'[q][e] = "none" => api[q][e] = "none"
    BY <1>1, <2>2 DEF TypeOK, ApiStates
  <2>4. /\ cache' \in [Relayers -> SUBSET Requests]
        /\ answers' \in [Relayers -> SUBSET Requests]
        /\ \A q \in Relayers : \A e \in (cache[q] \cup answers[q])' : HasQuorum(e)
    BY <1>1, <2>2 DEF TypeOK, SignedIsValidated
  <2> QED
    BY <1>2, <2>3, <2>4, CachePreserves
<1> QED
  BY <1>3, <1>4, <1>5

(* The announced signers are a quorum.                                     *)
LEMMA StartPreserves ==
    ASSUME RequestsInv, NEW d \in Requests, NEW c \in Relayers, StartParams(d, c)
    PROVE  RequestsInv'
<1>1. TypeOK /\ SignedIsValidated
  BY DEF RequestsInv
<1>2. UNCHANGED << api, handler, notices, signatures, cache, answers >>
  BY DEF StartParams
<1>3. PICK S \in SUBSET Relayers :
        Subset(c, S) /\ subset' = [subset EXCEPT ![d][c] = S]
  BY DEF StartParams
<1>4. subset' \in [Requests -> [Relayers -> SUBSET Relayers]]
  BY <1>1, <1>3 DEF TypeOK
<1>5. ASSUME NEW e \in Requests, NEW b \in Relayers, subset'[e][b] # subset[e][b]
      PROVE  Subset(b, subset'[e][b])
  <2>1. e = d /\ b = c /\ subset'[e][b] = S
    BY <1>1, <1>3, <1>5 DEF TypeOK
  <2> QED
    BY <1>3, <2>1
<1>6. \A q \in Relayers : \A e \in (cache[q] \cup answers[q])' : HasQuorum(e)
  BY <1>1, <1>2 DEF SignedIsValidated
<1> QED
  BY <1>1, <1>2, <1>4, <1>5, <1>6, CachePreserves DEF TypeOK

(* Every step keeps the invariant.                                         *)
LEMMA NextPreserves ==
    ASSUME RequestsInv, [Next]_vars
    PROVE  RequestsInv'
<1>1. CASE UNCHANGED vars
  <2>1. TypeOK /\ SignedIsValidated
    BY DEF RequestsInv
  <2>2. UNCHANGED << api, handler, notices, signatures, cache, answers, subset >>
    BY <1>1 DEF vars
  <2>3. \A q \in Relayers : \A e \in (cache[q] \cup answers[q])' : HasQuorum(e)
    BY <2>1, <2>2 DEF SignedIsValidated
  <2> QED
    BY <2>1, <2>2, <2>3, CachePreserves DEF TypeOK
<1>2. ASSUME NEW p \in Relayers, NEW d \in Requests, HandleSigning(p, d)
      PROVE  RequestsInv'
  BY <1>2, PostPreserves
<1>3. ASSUME NEW p \in Relayers, NEW c \in Relayers, NEW d \in Requests,
             HandleMessage(p, d, c)
      PROVE  RequestsInv'
  BY <1>3, NotifyPreserves, ChecksPreserve, ExecutionPreserves, SignPreserves
     DEF HandleMessage
<1>4. ASSUME NEW n \in notices, Listen(n.to, n)
      PROVE  RequestsInv'
  BY <1>4, ListenPreserves
<1>5. ASSUME NEW d \in Requests, NEW c \in Relayers, StartParams(d, c)
      PROVE  RequestsInv'
  BY <1>5, StartPreserves
<1> QED
  BY <1>1, <1>2, <1>3, <1>4, <1>5, CacheStepsPreserve DEF Next

(* RequestsInv holds in every state (HandleMessage, Execute,               *)
(* distributeSignature, Watch).                                            *)
THEOREM RequestsInvariant == Spec => []RequestsInv
<1>1. Init => RequestsInv
  BY InitInv
<1>2. RequestsInv /\ [Next]_vars => RequestsInv'
  BY NextPreserves
<1> QED
  BY <1>1, <1>2, PTL DEF Spec

(* No relayer caches, and no status stream returns, a signature for a      *)
(* request that fewer than threshold+1 relayers have validated themselves  *)
(* (HandleMessage, distributeSignature, Watch, Subscribe).                 *)
THEOREM SignaturesAreValidated == Spec => []SignedIsValidated
<1>1. RequestsInv => SignedIsValidated
  BY DEF RequestsInv
<1> QED
  BY <1>1, RequestsInvariant, PTL

(* A step that moves one handler keeps the promise of every accepted call: *)
(* it does not take back that a request was executed, it accepts a call    *)
(* only together with "validated", and it leaves the handler of an         *)
(* accepted call where the promise wants it.                               *)
LEMMA MovePursues ==
    ASSUME TypeOK, AcceptedIsPursued,
           NEW p \in Relayers, NEW d \in Requests, NEW c \in Relayers,
           NEW state \in HandlerStates,
           Move(p, d, c, state),
           \A q \in Relayers, e \in Requests \ Unlocks :
             api'[q][e] = "accepted" =>
               api[q][e] = "accepted" \/ (q = p /\ e = d /\ q = c),
           Executed(p, d, c) => state \in {"executing", "timedOut", "excluded", "signed"},
           p = c /\ d \notin Unlocks /\ api'[p][d] = "accepted" =>
             \/ state \in {"validated", "executing", "timedOut", "excluded", "signed"}
             \/ state = "failed" /\ p \in Failing
             \/ state = "refused" /\ \E e \in Requests, b \in Relayers :
                  Executed(p, e, b) /\ << e, b >> # << d, p >>
    PROVE  AcceptedIsPursued'
<1>1. /\ handler'[p][d][c] = state
      /\ \A q, b \in Relayers, e \in Requests :
           q # p \/ e # d \/ b # c => handler'[q][e][b] = handler[q][e][b]
  BY MoveChanges
<1>2. \A q, b \in Relayers, e \in Requests :
        Executed(q, e, b) => Executed(q, e, b)'
  <2> SUFFICES ASSUME NEW q \in Relayers, NEW b \in Relayers, NEW e \in Requests,
                      Executed(q, e, b)
               PROVE  handler'[q][e][b] \in {"executing", "timedOut", "excluded", "signed"}
    BY DEF Executed
  <2>1. CASE q = p /\ e = d /\ b = c
    BY <1>1, <2>1
  <2>2. CASE q # p \/ e # d \/ b # c
    BY <1>1, <2>2 DEF Executed
  <2> QED
    BY <2>1, <2>2
<1> SUFFICES ASSUME NEW q \in Relayers, NEW e \in Requests \ Unlocks,
                    api'[q][e] = "accepted"
             PROVE  \/ handler'[q][e][q] = "validated"
                    \/ Executed(q, e, q)'
                    \/ handler'[q][e][q] = "failed" /\ q \in Failing
                    \/ handler'[q][e][q] = "refused" /\ \E f \in Requests, b \in Relayers :
                         Executed(q, f, b)' /\ << f, b >> # << e, q >>
  BY DEF AcceptedIsPursued
<1>3. CASE q = p /\ e = d /\ q = c
  <2>1. CASE state \in {"validated", "executing", "timedOut", "excluded", "signed"}
    BY <1>1, <1>3, <2>1 DEF Executed
  <2>2. CASE state = "failed" /\ p \in Failing
    BY <1>1, <1>3, <2>2
  <2>3. CASE state = "refused" /\ \E f \in Requests, b \in Relayers :
               Executed(p, f, b) /\ << f, b >> # << d, p >>
    BY <1>1, <1>2, <1>3, <2>3
  <2> QED
    BY <1>3, <2>1, <2>2, <2>3
<1>4. CASE q # p \/ e # d \/ q # c
  <2>1. api[q][e] = "accepted" /\ handler'[q][e][q] = handler[q][e][q]
    BY <1>1, <1>4
  <2>2. \/ handler[q][e][q] = "validated"
        \/ Executed(q, e, q)
        \/ handler[q][e][q] = "failed" /\ q \in Failing
        \/ handler[q][e][q] = "refused" /\ \E f \in Requests, b \in Relayers :
             Executed(q, f, b) /\ << f, b >> # << e, q >>
    BY <2>1 DEF AcceptedIsPursued
  <2> QED
    BY <1>2, <2>1, <2>2
<1> QED
  BY <1>3, <1>4

(* A handler that has not validated its own request has no accepted call.  *)
LEMMA NotYetAccepted ==
    ASSUME AcceptedIsPursued, NEW p \in Relayers, NEW d \in Requests \ Unlocks,
           handler[p][d][p] \in {"none", "received", "checking"}
    PROVE  api[p][d] # "accepted"
BY DEF AcceptedIsPursued, Executed

(* No step breaks the promise.                                             *)
LEMMA PursuedStays ==
    ASSUME RequestsInv, AcceptedIsPursued, [Next]_vars
    PROVE  AcceptedIsPursued'
<1>1. TypeOK /\ OriginInv
  BY DEF RequestsInv
<1>2. ASSUME NEW p \in Relayers, NEW d \in Requests, HandleSigning(p, d)
      PROVE  AcceptedIsPursued'
  <2>1. /\ api[p][d] = "none"
        /\ api' = [api EXCEPT ![p][d] = "waiting"]
        /\ Move(p, d, p, "received")
    BY <1>2 DEF HandleSigning
  <2>2. ~Executed(p, d, p)
    BY <1>1, <2>1 DEF OriginInv, Executed
  <2>3. \A q \in Relayers, e \in Requests \ Unlocks :
          api'[q][e] = "accepted" => api[q][e] = "accepted"
    BY <1>1, <2>1 DEF TypeOK
  <2>4. api'[p][d] # "accepted" /\ "received" \in HandlerStates
    BY <1>1, <2>1 DEF TypeOK, HandlerStates
  <2> QED
    BY <1>1, <2>1, <2>2, <2>3, <2>4, MovePursues
<1>3. ASSUME NEW p \in Relayers, NEW d \in Requests, UnlockTimesOut(p, d)
      PROVE  AcceptedIsPursued'
  <2>1. \A q \in Relayers, e \in Requests \ Unlocks : api'[q][e] = api[q][e]
    BY <1>1, <1>3 DEF UnlockTimesOut, TypeOK
  <2>2. handler' = handler
    BY <1>3 DEF UnlockTimesOut
  <2> QED
    BY <2>1, <2>2 DEF AcceptedIsPursued, Executed
<1>4. ASSUME NEW n \in notices, Listen(n.to, n)
      PROVE  AcceptedIsPursued'
  <2>1. n.to \in Relayers /\ n.data \in Requests /\ n.coordinator \in Relayers
    BY <1>1 DEF TypeOK, Notice
  <2>2. n.to # n.coordinator /\ ~Executed(n.to, n.data, n.coordinator)
    BY <1>1 DEF OriginInv, Executed
  <2>3. Move(n.to, n.data, n.coordinator, "received") /\ api' = api
    BY <1>4 DEF Listen
  <2>4. "received" \in HandlerStates
    BY DEF HandlerStates
  <2> QED
    BY <1>1, <2>1, <2>2, <2>3, <2>4, MovePursues
<1>5. ASSUME NEW p \in Relayers, NEW c \in Relayers, NEW d \in Requests,
             HandleMessage(p, d, c)
      PROVE  AcceptedIsPursued'
  <2>1. p = c /\ d \notin Unlocks /\ handler[p][d][c] \in {"received", "checking"} =>
          api[p][d] # "accepted"
    BY NotYetAccepted
  <2>2. CASE Notify(p, d, c)
    <3>1. /\ handler[p][d][c] = "received" /\ api' = api
          /\ Move(p, d, c, "checking") /\ "checking" \in HandlerStates
          /\ ~Executed(p, d, c)
      BY <2>2 DEF Notify, HandlerStates, Executed
    <3> QED
      BY <1>1, <2>1, <3>1, MovePursues
  <2>3. CASE RejectRepayment(p, d, c) \/ CheckFails(p, d, c)
    <3>1. /\ handler[p][d][c] \in {"received", "checking"}
          /\ Move(p, d, c, "failed") /\ "failed" \in HandlerStates
          /\ Reply(p, d, c, "rejected")
          /\ ~Executed(p, d, c)
      BY <2>3 DEF RejectRepayment, CheckFails, HandlerStates, Executed
    <3>2. /\ \A q \in Relayers, e \in Requests \ Unlocks :
               api'[q][e] = "accepted" => api[q][e] = "accepted"
          /\ p = c /\ d \notin Unlocks => api'[p][d] # "accepted"
      BY <1>1, <3>1 DEF Reply, TypeOK
    <3> QED
      BY <1>1, <3>1, <3>2, MovePursues
  <2>4. CASE Validate(p, d, c)
    <3>1. /\ Move(p, d, c, "validated") /\ "validated" \in HandlerStates
          /\ Reply(p, d, c, "accepted")
          /\ ~Executed(p, d, c)
      BY <2>4 DEF Validate, HandlerStates, Executed
    <3>2. \A q \in Relayers, e \in Requests \ Unlocks :
            api'[q][e] = "accepted" =>
              api[q][e] = "accepted" \/ (q = p /\ e = d /\ q = c)
      BY <1>1, <3>1 DEF Reply, TypeOK
    <3> QED
      BY <1>1, <3>1, <3>2, MovePursues
  <2>5. CASE Execute(p, d, c)
    <3>1. handler[p][d][c] = "validated" /\ api' = api /\ ~Executed(p, d, c)
      BY <2>5 DEF Execute, Executed
    <3>2. CASE Pending(p)
      <4>1. Move(p, d, c, "refused") /\ "refused" \in HandlerStates
        BY <2>5, <3>2 DEF Execute, HandlerStates
      <4>2. PICK e \in Requests, b \in Relayers : handler[p][e][b] = "executing"
        BY <3>2 DEF Pending
      <4>3. Executed(p, e, b) /\ (p = c => << e, b >> # << d, p >>)
        BY <3>1, <4>2 DEF Executed
      <4> QED
        BY <1>1, <3>1, <4>1, <4>3, MovePursues
    <3>3. CASE ~Pending(p)
      <4>1. Move(p, d, c, "executing") /\ "executing" \in HandlerStates
        BY <2>5, <3>3 DEF Execute, HandlerStates
      <4> QED
        BY <1>1, <3>1, <4>1, MovePursues
    <3> QED
      BY <3>2, <3>3
  <2>6. CASE NewSigningFails(p, d, c)
    <3>1. /\ api' = api /\ p \in Failing /\ ~Executed(p, d, c)
          /\ Move(p, d, c, "failed") /\ "failed" \in HandlerStates
      BY <2>6 DEF NewSigningFails, HandlerStates, Executed
    <3> QED
      BY <1>1, <3>1, MovePursues
  <2>7. CASE Exclude(p, d, c)
    <3>1. api' = api /\ Move(p, d, c, "excluded") /\ "excluded" \in HandlerStates
      BY <2>7 DEF Exclude, HandlerStates
    <3> QED
      BY <1>1, <3>1, MovePursues
  <2>8. CASE SessionTimesOut(p, d, c)
    <3>1. api' = api /\ Move(p, d, c, "timedOut") /\ "timedOut" \in HandlerStates
      BY <2>8 DEF SessionTimesOut, HandlerStates
    <3> QED
      BY <1>1, <3>1, MovePursues
  <2>9. CASE Sign(p, d, c)
    <3>1. Move(p, d, c, "signed") /\ "signed" \in HandlerStates
      BY <2>9 DEF Sign, HandlerStates
    <3>2. CASE d \in Unlocks
      <4>1. api' = api \/ api' = [api EXCEPT ![p][d] = "accepted"]
        BY <2>9, <3>2 DEF Sign
      <4>2. \A q \in Relayers, e \in Requests \ Unlocks : api'[q][e] = api[q][e]
        <5> SUFFICES ASSUME NEW q \in Relayers, NEW e \in Requests \ Unlocks
                     PROVE  api'[q][e] = api[q][e]
          OBVIOUS
        <5>1. e # d
          BY <3>2
        <5>2. CASE api' = [api EXCEPT ![p][d] = "accepted"]
          <6>1. api \in [Relayers -> [Requests -> ApiStates]]
            BY <1>1 DEF TypeOK
          <6> QED
            BY <5>1, <5>2, <6>1
        <5> QED
          BY <4>1, <5>2
      <4> QED
        BY <1>1, <3>1, <3>2, <4>2, MovePursues
    <3>3. CASE d \notin Unlocks
      <4>1. api' = api
        BY <2>9, <3>3 DEF Sign
      <4> QED
        BY <1>1, <3>1, <4>1, MovePursues
    <3> QED
      BY <3>2, <3>3
  <2> QED
    BY <1>5, <2>2, <2>3, <2>4, <2>5, <2>6, <2>7, <2>8, <2>9 DEF HandleMessage
<1>6. ASSUME UNCHANGED << api, handler >>
      PROVE  AcceptedIsPursued'
  BY <1>6 DEF AcceptedIsPursued, Executed
<1>7. CASE \/ \E d \in Requests, c \in Relayers : StartParams(d, c)
           \/ \E m \in signatures : Watch(m.to, m)
           \/ \E p \in Relayers : Expire(p) \/ Subscribe(p)
           \/ UNCHANGED vars
  BY <1>6, <1>7 DEF StartParams, Watch, Expire, Subscribe, vars
<1> QED
  BY <1>2, <1>3, <1>4, <1>5, <1>7 DEF Next

(* A call answered with 202 leads to the execution of its request on that  *)
(* relayer, unless making the process fails, or the request is refused for *)
(* a rival of the same id that the relayer does execute (HandleSigning,    *)
(* HandleMessage, Execute).                                                *)
THEOREM AcceptedArePursued == Spec => []AcceptedIsPursued
<1>1. Init => AcceptedIsPursued
  BY DEF Init, AcceptedIsPursued
<1>2. RequestsInv /\ AcceptedIsPursued /\ [Next]_vars => AcceptedIsPursued'
  BY PursuedStays
<1> QED
  BY <1>1, <1>2, RequestsInvariant, PTL DEF Spec

-----------------------------------------------------------------------------
(* The refinement of AbstractSession.                                      *)

(* What the refinement mapping collects.                                   *)
LEMMA MappedPairs ==
    /\ \A x : x \in JoinedPairs <=>
         \E q, c \in Relayers : Joined(q, c) /\ x = << q, c >>
    /\ \A x : x \in AnnouncedPairs <=>
         \E d \in Requests, c \in Relayers :
           subset[d][c] # {} /\ x = << c, subset[d][c] >>
    /\ \A x : x \in SignedPairs <=>
         \E p, c \in Relayers, d \in Requests :
           handler[p][d][c] = "signed" /\ x = << p, subset[d][c] >>
<1>1. \A x : x \in JoinedPairs <=>
        \E q, c \in Relayers : Joined(q, c) /\ x = << q, c >>
  BY DEF JoinedPairs
<1>2. \A x : x \in AnnouncedPairs <=>
        \E d \in Requests, c \in Relayers :
          subset[d][c] # {} /\ x = << c, subset[d][c] >>
  BY DEF AnnouncedPairs
<1>3. \A x : x \in SignedPairs <=>
        \E p, c \in Relayers, d \in Requests :
          handler[p][d][c] = "signed" /\ x = << p, subset[d][c] >>
  BY DEF SignedPairs
<1>4. QED
  BY <1>1, <1>2, <1>3

(* The same of the state after a step.                                     *)
LEMMA MappedPairsNext ==
    /\ \A x : x \in JoinedPairs' <=>
         \E q, c \in Relayers : Joined(q, c)' /\ x = << q, c >>
    /\ \A x : x \in AnnouncedPairs' <=>
         \E d \in Requests, c \in Relayers :
           subset'[d][c] # {} /\ x = << c, subset'[d][c] >>
    /\ \A x : x \in SignedPairs' <=>
         \E p, c \in Relayers, d \in Requests :
           handler'[p][d][c] = "signed" /\ x = << p, subset'[d][c] >>
<1>1. \A x : x \in JoinedPairs' <=>
        \E q, c \in Relayers : Joined(q, c)' /\ x = << q, c >>
  BY DEF JoinedPairs
<1>2. \A x : x \in AnnouncedPairs' <=>
        \E d \in Requests, c \in Relayers :
          subset'[d][c] # {} /\ x = << c, subset'[d][c] >>
  BY DEF AnnouncedPairs
<1>3. \A x : x \in SignedPairs' <=>
        \E p, c \in Relayers, d \in Requests :
          handler'[p][d][c] = "signed" /\ x = << p, subset'[d][c] >>
  BY DEF SignedPairs
<1>4. QED
  BY <1>1, <1>2, <1>3

(* A step of a handler joins the session under c when it gets to Execute,  *)
(* and signs when it gets its signature.                                   *)
LEMMA MoveMaps ==
    ASSUME TypeOK, NEW p \in Relayers, NEW d \in Requests, NEW c \in Relayers,
           NEW state \in HandlerStates, Move(p, d, c, state),
           handler[p][d][c] # "signed",
           Executed(p, d, c) => state \in {"executing", "timedOut", "excluded", "signed"},
           subset' = subset
    PROVE  /\ AnnouncedPairs' = AnnouncedPairs
           /\ state # "signed" => SignedPairs' = SignedPairs
           /\ state = "signed" => SignedPairs' = SignedPairs \cup {<< p, subset[d][c] >>}
           /\ Executed(p, d, c) => JoinedPairs' = JoinedPairs
           /\ state \notin {"executing", "timedOut", "excluded", "signed"} =>
                JoinedPairs' = JoinedPairs
           /\ state = "executing" => JoinedPairs' = JoinedPairs \cup {<< p, c >>}
<1> DEFINE In == {"executing", "timedOut", "excluded", "signed"}
<1>1. /\ handler'[p][d][c] = state
      /\ \A q, b \in Relayers, e \in Requests :
           q # p \/ e # d \/ b # c => handler'[q][e][b] = handler[q][e][b]
  BY MoveChanges
<1>2. AnnouncedPairs' = AnnouncedPairs
  BY DEF AnnouncedPairs
<1>3. \A q, b \in Relayers, e \in Requests :
        handler'[q][e][b] = "signed" <=>
          \/ handler[q][e][b] = "signed"
          \/ q = p /\ e = d /\ b = c /\ state = "signed"
  BY <1>1
<1>4. ASSUME NEW x
      PROVE  x \in SignedPairs' <=>
               x \in SignedPairs \/ (state = "signed" /\ x = << p, subset[d][c] >>)
  <2>1. x \in SignedPairs <=>
          \E q, b \in Relayers, e \in Requests :
            handler[q][e][b] = "signed" /\ x = << q, subset[e][b] >>
    BY MappedPairs
  <2>2. x \in SignedPairs' <=>
          \E q, b \in Relayers, e \in Requests :
            handler'[q][e][b] = "signed" /\ x = << q, subset[e][b] >>
    BY MappedPairsNext
  <2>3. QED
    BY <1>3, <2>1, <2>2
<1>5. \A q, b \in Relayers, e \in Requests :
        Executed(q, e, b)' <=>
          Executed(q, e, b) \/ (q = p /\ e = d /\ b = c /\ state \in In)
  BY <1>1 DEF Executed
<1>6. \A q, b \in Relayers :
        Joined(q, b)' <=> Joined(q, b) \/ (q = p /\ b = c /\ state \in In)
  BY <1>5 DEF Joined
<1>7. ASSUME NEW x
      PROVE  x \in JoinedPairs' <=>
               x \in JoinedPairs \/ (state \in In /\ x = << p, c >>)
  <2> HIDE DEF In
  <2>1. x \in JoinedPairs <=>
          \E q, b \in Relayers : Joined(q, b) /\ x = << q, b >>
    BY MappedPairs
  <2>2. x \in JoinedPairs' <=>
          \E q, b \in Relayers : Joined(q, b)' /\ x = << q, b >>
    BY MappedPairsNext
  <2>3. QED
    BY <1>6, <2>1, <2>2
<1>8. Executed(p, d, c) => << p, c >> \in JoinedPairs
  BY MappedPairs DEF Joined
<1>9. QED
  BY <1>2, <1>4, <1>7, <1>8

(* A signer stays an announced one (Sign, StartParams).                    *)
LEMMA SignersStay ==
    ASSUME RequestsInv, SignersInv, [Next]_vars
    PROVE  SignersInv'
<1>0. TypeOK /\ OriginInv
  BY DEF RequestsInv
<1>1. CASE UNCHANGED << handler, subset >>
  BY <1>1 DEF SignersInv
<1>2. ASSUME NEW p \in Relayers, NEW d \in Requests, NEW c \in Relayers,
             NEW state \in HandlerStates, Move(p, d, c, state), subset' = subset,
             state = "signed" => p \in subset[d][c]
      PROVE  SignersInv'
  <2>1. /\ handler'[p][d][c] = state
        /\ \A q, b \in Relayers, e \in Requests :
             q # p \/ e # d \/ b # c => handler'[q][e][b] = handler[q][e][b]
    BY <1>0, <1>2, MoveChanges
  <2>2. QED
    BY <1>2, <2>1 DEF SignersInv
<1>3. ASSUME NEW p \in Relayers, NEW d \in Requests, HandleSigning(p, d)
      PROVE  SignersInv'
  <2>1. "received" \in HandlerStates
    BY DEF HandlerStates
  <2>2. QED
    BY <1>2, <1>3, <2>1 DEF HandleSigning
<1>4. ASSUME NEW n \in notices, Listen(n.to, n)
      PROVE  SignersInv'
  <2>1. n.to \in Relayers /\ n.data \in Requests /\ n.coordinator \in Relayers
    BY <1>0 DEF TypeOK, Notice
  <2>2. "received" \in HandlerStates
    BY DEF HandlerStates
  <2>3. Move(n.to, n.data, n.coordinator, "received") /\ subset' = subset
    BY <1>4 DEF Listen
  <2>4. QED
    BY <1>2, <2>1, <2>2, <2>3
<1>5. ASSUME NEW p \in Relayers, NEW c \in Relayers, NEW d \in Requests,
             HandleMessage(p, d, c)
      PROVE  SignersInv'
  <2>1. subset' = subset
    BY <1>5 DEF HandleMessage, Notify, RejectRepayment, Validate, CheckFails,
             Execute, NewSigningFails, Exclude, Sign, SessionTimesOut
  <2>2. \E state \in HandlerStates :
          Move(p, d, c, state) /\ (state = "signed" => p \in subset[d][c])
    BY <1>5 DEF HandleMessage, Notify, RejectRepayment, Validate, CheckFails,
             Execute, NewSigningFails, Exclude, Sign, SessionTimesOut, HandlerStates
  <2>3. QED
    BY <1>2, <2>1, <2>2
<1>6. ASSUME NEW d \in Requests, NEW c \in Relayers, StartParams(d, c)
      PROVE  SignersInv'
  <2>1. /\ handler' = handler /\ subset[d][c] = {}
        /\ subset \in [Requests -> [Relayers -> SUBSET Relayers]]
        /\ \E S \in SUBSET Relayers : subset' = [subset EXCEPT ![d][c] = S]
    BY <1>0, <1>6 DEF StartParams, TypeOK
  <2>2. QED
    BY <2>1 DEF SignersInv
<1>7. ASSUME \/ UNCHANGED vars
             \/ \E p \in Relayers, d \in Requests : UnlockTimesOut(p, d)
             \/ \E m \in signatures : Watch(m.to, m)
             \/ \E p \in Relayers : Expire(p) \/ Subscribe(p)
      PROVE  UNCHANGED << handler, subset >>
  BY <1>7 DEF vars, UnlockTimesOut, Watch, Expire, Subscribe
<1>8. QED
  BY <1>1, <1>3, <1>4, <1>5, <1>6, <1>7 DEF Next

(* Every step of the handlers is a step of the abstract session, or none.  *)
LEMMA RequestStep ==
    ASSUME RequestsInv, SignersInv, [Next]_vars
    PROVE  [Session!Next]_(Session!vars)
<1>0. TypeOK /\ OriginInv /\ SubsetInv
  BY DEF RequestsInv
<1>1. CASE UNCHANGED << handler, subset >>
  <2>1. JoinedPairs' = JoinedPairs /\ AnnouncedPairs' = AnnouncedPairs
    BY <1>1 DEF JoinedPairs, Joined, Executed, AnnouncedPairs
  <2>2. SignedPairs' = SignedPairs
    BY <1>1 DEF SignedPairs
  <2>3. QED
    BY <2>1, <2>2 DEF Session!vars
<1>2. ASSUME NEW p \in Relayers, NEW d \in Requests, NEW c \in Relayers,
             NEW state \in {"received", "checking", "failed", "validated", "refused"},
             Move(p, d, c, state), ~Executed(p, d, c), subset' = subset
      PROVE  [Session!Next]_(Session!vars)
  <2>1. state \in HandlerStates /\ handler[p][d][c] # "signed"
    BY <1>2 DEF HandlerStates, Executed
  <2>2. /\ AnnouncedPairs' = AnnouncedPairs
        /\ SignedPairs' = SignedPairs
        /\ JoinedPairs' = JoinedPairs
    BY <1>0, <1>2, <2>1, MoveMaps
  <2>3. QED
    BY <2>2 DEF Session!vars
<1>3. ASSUME NEW p \in Relayers, NEW d \in Requests, HandleSigning(p, d)
      PROVE  [Session!Next]_(Session!vars)
  <2>1. ~Executed(p, d, p)
    BY <1>0, <1>3 DEF HandleSigning, OriginInv, Executed
  <2>2. QED
    BY <1>2, <1>3, <2>1 DEF HandleSigning
<1>4. ASSUME NEW n \in notices, Listen(n.to, n)
      PROVE  [Session!Next]_(Session!vars)
  <2>1. n.to \in Relayers /\ n.data \in Requests /\ n.coordinator \in Relayers
    BY <1>0 DEF TypeOK, Notice
  <2>2. ~Executed(n.to, n.data, n.coordinator)
    BY <1>0 DEF OriginInv, Executed
  <2>3. Move(n.to, n.data, n.coordinator, "received") /\ subset' = subset
    BY <1>4 DEF Listen
  <2>4. QED
    BY <1>2, <2>1, <2>2, <2>3
<1>5. ASSUME NEW p \in Relayers, NEW c \in Relayers, NEW d \in Requests,
             \/ Notify(p, d, c) \/ RejectRepayment(p, d, c) \/ Validate(p, d, c)
             \/ CheckFails(p, d, c) \/ NewSigningFails(p, d, c)
      PROVE  [Session!Next]_(Session!vars)
  <2>1. ~Executed(p, d, c) /\ subset' = subset
    BY <1>5 DEF Notify, RejectRepayment, Validate, CheckFails, NewSigningFails, Executed
  <2>2. \E state \in {"received", "checking", "failed", "validated", "refused"} :
          Move(p, d, c, state)
    BY <1>5 DEF Notify, RejectRepayment, Validate, CheckFails, NewSigningFails
  <2>3. QED
    BY <1>2, <2>1, <2>2
<1>6. ASSUME NEW p \in Relayers, NEW c \in Relayers, NEW d \in Requests, Execute(p, d, c)
      PROVE  [Session!Next]_(Session!vars)
  <2>1. ~Executed(p, d, c) /\ handler[p][d][c] # "signed" /\ subset' = subset
    BY <1>6 DEF Execute, Executed
  <2>2. CASE Move(p, d, c, "refused")
    BY <1>2, <2>1, <2>2
  <2>3. CASE Move(p, d, c, "executing")
    <3>1. "executing" \in HandlerStates
      BY DEF HandlerStates
    <3>2. Session!Join(p, c)
      BY <1>0, <2>1, <2>3, <3>1, MoveMaps DEF Session!Join
    <3>3. QED
      BY <3>2 DEF Session!Next
  <2>4. QED
    BY <1>6, <2>2, <2>3 DEF Execute
<1>7. ASSUME NEW p \in Relayers, NEW c \in Relayers, NEW d \in Requests,
             Exclude(p, d, c) \/ SessionTimesOut(p, d, c)
      PROVE  [Session!Next]_(Session!vars)
  <2>1. /\ handler[p][d][c] = "executing" /\ subset' = subset
        /\ \E state \in {"excluded", "timedOut"} : Move(p, d, c, state)
    BY <1>7 DEF Exclude, SessionTimesOut
  <2>2. PICK state \in {"excluded", "timedOut"} : Move(p, d, c, state)
    BY <2>1
  <2>3. state \in HandlerStates /\ Executed(p, d, c)
    BY <2>1 DEF HandlerStates, Executed
  <2>4. /\ AnnouncedPairs' = AnnouncedPairs
        /\ SignedPairs' = SignedPairs
        /\ JoinedPairs' = JoinedPairs
    BY <1>0, <2>1, <2>2, <2>3, MoveMaps
  <2>5. QED
    BY <2>4 DEF Session!vars
<1>8. ASSUME NEW p \in Relayers, NEW c \in Relayers, NEW d \in Requests, Sign(p, d, c)
      PROVE  [Session!Next]_(Session!vars)
  <2>1. /\ handler[p][d][c] = "executing" /\ subset' = subset
        /\ Move(p, d, c, "signed") /\ p \in subset[d][c]
    BY <1>8 DEF Sign
  <2>2. "signed" \in HandlerStates /\ Executed(p, d, c)
    BY <2>1 DEF HandlerStates, Executed
  <2>3. /\ AnnouncedPairs' = AnnouncedPairs
        /\ SignedPairs' = SignedPairs \cup {<< p, subset[d][c] >>}
        /\ JoinedPairs' = JoinedPairs
    BY <1>0, <2>1, <2>2, MoveMaps
  <2>4. << c, subset[d][c] >> \in AnnouncedPairs
    BY <2>1, MappedPairs
  <2>5. subset[d][c] \subseteq Relayers
    BY <1>0 DEF TypeOK
  <2>6. Session!Sign(p, c, subset[d][c])
    BY <2>1, <2>3, <2>4 DEF Session!Sign
  <2>7. QED
    BY <2>5, <2>6 DEF Session!Next
<1>9. ASSUME NEW d \in Requests, NEW c \in Relayers, StartParams(d, c)
      PROVE  [Session!Next]_(Session!vars)
  <2>1. PICK S \in SUBSET Relayers :
          Subset(c, S) /\ subset' = [subset EXCEPT ![d][c] = S]
    BY <1>9 DEF StartParams
  <2>2. /\ handler' = handler /\ subset[d][c] = {}
        /\ subset \in [Requests -> [Relayers -> SUBSET Relayers]]
    BY <1>0, <1>9 DEF StartParams, TypeOK
  <2>3. JoinedPairs' = JoinedPairs
    BY <2>2 DEF JoinedPairs, Joined, Executed
  <2>4. /\ S # {} /\ subset'[d][c] = S
        /\ \A e \in Requests, b \in Relayers :
             e # d \/ b # c => subset'[e][b] = subset[e][b]
    BY <2>1, <2>2 DEF Subset
  <2>5. ASSUME NEW x
        PROVE  x \in AnnouncedPairs' <=> x \in AnnouncedPairs \cup {<< c, S >>}
    <3>1. x \in AnnouncedPairs <=>
            \E e \in Requests, b \in Relayers :
              subset[e][b] # {} /\ x = << b, subset[e][b] >>
      BY MappedPairs
    <3>2. x \in AnnouncedPairs' <=>
            \E e \in Requests, b \in Relayers :
              subset'[e][b] # {} /\ x = << b, subset'[e][b] >>
      BY MappedPairsNext
    <3>3. QED
      BY <2>2, <2>4, <3>1, <3>2
  <2>6. ASSUME NEW x
        PROVE  x \in SignedPairs' <=> x \in SignedPairs
    <3>1. \A q, b \in Relayers, e \in Requests :
            handler[q][e][b] = "signed" => subset'[e][b] = subset[e][b]
      BY <2>2, <2>4 DEF SignersInv
    <3>2. x \in SignedPairs <=>
            \E q, b \in Relayers, e \in Requests :
              handler[q][e][b] = "signed" /\ x = << q, subset[e][b] >>
      BY MappedPairs
    <3>3. x \in SignedPairs' <=>
            \E q, b \in Relayers, e \in Requests :
              handler'[q][e][b] = "signed" /\ x = << q, subset'[e][b] >>
      BY MappedPairsNext
    <3>4. QED
      BY <2>2, <3>1, <3>2, <3>3
  <2>7. \A q \in S : << q, c >> \in JoinedPairs
    BY <2>1, MappedPairs DEF Subset
  <2>8. Session!Announce(c, S)
    BY <2>1, <2>3, <2>5, <2>6, <2>7
       DEF Session!Announce, Subset, Cardinality, Session!Cardinality
  <2>9. QED
    BY <2>1, <2>8 DEF Session!Next
<1>10. QED
  BY <1>1, <1>3, <1>4, <1>5, <1>6, <1>7, <1>8, <1>9
     DEF Next, HandleMessage, vars, UnlockTimesOut, Watch, Expire, Subscribe

(* The requests' way through the network implements the abstract session:  *)
(* however many requests share a session id, wherever they are posted and  *)
(* whichever are refused or time out, relayers join, announce and sign     *)
(* only as AbstractSession allows (HandleMessage, Execute, Listen).        *)
THEOREM RequestsRefinement == Spec => ImplementsSession
<1>1. Init => Session!Init /\ SignersInv
  <2> SUFFICES ASSUME Init PROVE Session!Init /\ SignersInv
    OBVIOUS
  <2>1. \A x : x \notin JoinedPairs
    BY MappedPairs DEF Init, Joined, Executed
  <2>2. \A x : x \notin AnnouncedPairs /\ x \notin SignedPairs
    BY MappedPairs DEF Init
  <2>3. SignersInv
    BY DEF Init, SignersInv
  <2>4. QED
    BY <2>1, <2>2, <2>3 DEF Session!Init
<1>2. RequestsInv /\ SignersInv /\ [Next]_vars => SignersInv'
  BY SignersStay
<1>3. RequestsInv /\ SignersInv /\ [Next]_vars => [Session!Next]_(Session!vars)
  BY RequestStep
<1>4. QED
  BY <1>1, <1>2, <1>3, RequestsInvariant, PTL
     DEF Spec, ImplementsSession, Session!Spec

==============================================================================
