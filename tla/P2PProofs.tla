------------------------------- MODULE P2PProofs -------------------------------
(***************************************************************************)
(* Messages from one relayer to another, for any number of goroutines that *)
(* send, any mix of long and short messages and any number of faults.      *)
(***************************************************************************)
EXTENDS P2P, SubscriptionsProofs, FiniteSetTheorems, WellFoundedInduction, TLAPS

USE SendersAssumption, MaxFaultsAssumption

-----------------------------------------------------------------------------
(* Pieces and pipes.                                                       *)

(* A piece is the first or the last one of exactly one sender.             *)
LEMMA Pieces ==
    /\ \A g \in Senders : First(g) \in Piece /\ Last(g) \in Piece
    /\ \A g \in Senders : First(g).from = g /\ First(g).last = FALSE
    /\ \A g \in Senders : Last(g).from = g /\ Last(g).last = TRUE
    /\ \A g, h \in Senders : First(g) # Last(h)
    /\ \A g, h \in Senders : First(g) = First(h) => g = h
    /\ \A g, h \in Senders : Last(g) = Last(h) => g = h
    /\ \A e \in Piece : /\ e.from \in Senders
                        /\ e.last => e = Last(e.from)
                        /\ ~e.last => e = First(e.from)
BY DEF Piece, First, Last

(* What is written comes after what is in the pipe.                        *)
LEMMA Appended ==
    ASSUME NEW q \in Seq(Piece), NEW e \in Piece
    PROVE  /\ Append(q, e) \in Seq(Piece)
           /\ Len(q) \in Nat /\ DOMAIN q = 1 .. Len(q)
           /\ DOMAIN Append(q, e) = 1 .. Len(q) + 1
           /\ \A i \in 1 .. Len(q) : Append(q, e)[i] = q[i]
           /\ Append(q, e)[Len(q) + 1] = e
OBVIOUS

(* A frame is read off the front of the pipe, and the rest stays.          *)
LEMMA Cut ==
    ASSUME NEW q \in Seq(Piece), NEW n \in DOMAIN q
    PROVE  /\ n \in Nat /\ n >= 1 /\ n <= Len(q)
           /\ Len(q) \in Nat /\ DOMAIN q = 1 .. Len(q)
           /\ SubSeq(q, 1, n) \in Seq(Piece)
           /\ DOMAIN SubSeq(q, 1, n) = 1 .. n
           /\ Len(SubSeq(q, 1, n)) = n
           /\ \A i \in 1 .. n : SubSeq(q, 1, n)[i] = q[i]
           /\ SubSeq(q, n + 1, Len(q)) \in Seq(Piece)
           /\ DOMAIN SubSeq(q, n + 1, Len(q)) = 1 .. Len(q) - n
           /\ \A i \in 1 .. Len(q) - n :
                SubSeq(q, n + 1, Len(q))[i] = q[n + i]
<1>1. n \in Nat /\ n >= 1 /\ n <= Len(q) /\ Len(q) \in Nat
  OBVIOUS
<1> QED
  BY <1>1

-----------------------------------------------------------------------------
(* Counting streams.                                                       *)

Opened == { s \in Streams : stream[s] # "none" }
Started == { g \in Senders : pc[g] # "start" }

(* There are as many streams as senders.                                   *)
LEMMA StreamsAreFinite ==
    /\ Cardinality(Senders) \in Nat
    /\ IsFiniteSet(Streams)
    /\ Cardinality(Streams) = Cardinality(Senders)
    /\ Streams \subseteq Nat
    /\ 0 \notin Streams
<1>1. Cardinality(Senders) \in Nat
  BY FS_CardinalityType
<1>2. IsFiniteSet(Streams) /\ Cardinality(Streams) = Cardinality(Senders)
  BY <1>1, FS_Interval DEF Streams
<1> QED
  BY <1>1, <1>2 DEF Streams

(* A sender that has not asked for a stream yet finds one to open: nobody  *)
(* has opened more than one, and it has opened none.                       *)
LEMMA Unopened ==
    ASSUME OpenedInv, NEW g \in Senders, pc[g] = "start"
    PROVE  \E n \in Streams :
             stream[n] = "none" /\ \A m \in 1 .. n - 1 : stream[m] # "none"
<1> DEFINE S == { n \in Streams : stream[n] = "none" }
           R == OpToRel(<, Nat)
<1>1. IsFiniteSet(Started) /\ Cardinality(Started) < Cardinality(Senders)
  <2>1. Started \in SUBSET Senders /\ Started # Senders
    BY DEF Started
  <2>2. /\ IsFiniteSet(Started)
        /\ Cardinality(Started) <= Cardinality(Senders)
        /\ Cardinality(Started) # Cardinality(Senders)
    BY <2>1, FS_Subset
  <2>3. Cardinality(Started) \in Nat /\ Cardinality(Senders) \in Nat
    BY <2>2, FS_CardinalityType
  <2> QED
    BY <2>2, <2>3
<1>2. Opened # Streams
  <2>1. Cardinality(Opened) <= Cardinality(Started)
    BY DEF OpenedInv, Opened, Started
  <2>2. Cardinality(Started) \in Nat
    BY <1>1, FS_CardinalityType
  <2> QED
    BY <1>1, <2>1, <2>2, StreamsAreFinite
<1>3. S \subseteq Nat /\ S # {}
  BY <1>2, StreamsAreFinite DEF Opened
<1>4. IsWellFoundedOn(R, Nat)
  BY NatLessThanWellFounded
<1>5. \A x, y \in Nat : y < x => << y, x >> \in R
  BY DEF OpToRel
<1> HIDE DEF R
<1>6. PICK n \in S : \A m \in S : << m, n >> \notin R
  <2> HIDE DEF S
  <2>1. QED
    BY <1>3, <1>4, WFMin
<1>7. ASSUME NEW m \in 1 .. n - 1 PROVE stream[m] # "none"
  <2>1. n \in Nat /\ n \in 1 .. Cardinality(Senders)
    BY <1>3, <1>6 DEF Streams
  <2>2. m \in Nat /\ m < n /\ m \in Streams
    BY <2>1, StreamsAreFinite DEF Streams
  <2>3. << m, n >> \in R
    BY <1>5, <2>1, <2>2
  <2> QED
    BY <1>6, <2>2, <2>3
<1> QED
  BY <1>6, <1>7

(* A step that opens no stream keeps the count, as senders do not return   *)
(* to the start.                                                           *)
LEMMA CountStays ==
    ASSUME OpenedInv,
           \A s \in Streams : stream[s] = "none" => stream'[s] = "none",
           \A g \in Senders : pc[g] # "start" => pc'[g] # "start"
    PROVE  OpenedInv'
<1>1. Opened' \in SUBSET Opened /\ Opened \in SUBSET Streams
  BY DEF Opened
<1>2. Started \in SUBSET Started' /\ Started' \in SUBSET Senders
  BY DEF Started
<1>3. /\ IsFiniteSet(Opened) /\ IsFiniteSet(Opened')
      /\ Cardinality(Opened') <= Cardinality(Opened)
  BY <1>1, StreamsAreFinite, FS_Subset
<1>4. /\ IsFiniteSet(Started) /\ IsFiniteSet(Started')
      /\ Cardinality(Started) <= Cardinality(Started')
  BY <1>2, FS_Subset
<1>5. /\ Cardinality(Opened) \in Nat /\ Cardinality(Opened') \in Nat
      /\ Cardinality(Started) \in Nat /\ Cardinality(Started') \in Nat
  BY <1>3, <1>4, FS_CardinalityType
<1>6. Cardinality(Opened) <= Cardinality(Started)
  BY DEF OpenedInv, Opened, Started
<1>7. Cardinality(Opened') <= Cardinality(Started')
  BY <1>3, <1>4, <1>5, <1>6
<1> QED
  BY <1>7 DEF OpenedInv, Opened, Started

(* The sender that opens a stream has not been counted before.             *)
LEMMA CountGrows ==
    ASSUME OpenedInv, NEW g \in Senders, NEW s \in Streams,
           pc[g] = "start", pc'[g] # "start",
           \A h \in Senders : h # g => pc'[h] = pc[h],
           \A t \in Streams : t # s => stream'[t] = stream[t]
    PROVE  OpenedInv'
<1>1. Opened' \in SUBSET (Opened \cup {s}) /\ Opened \in SUBSET Streams
  BY DEF Opened
<1>2. Started' = Started \cup {g} /\ g \notin Started /\ Started \in SUBSET Senders
  BY DEF Started
<1>3. IsFiniteSet(Opened) /\ IsFiniteSet(Started)
  BY <1>1, <1>2, StreamsAreFinite, FS_Subset
<1>4. /\ Cardinality(Opened) \in Nat /\ Cardinality(Started) \in Nat
      /\ Cardinality(Started') = Cardinality(Started) + 1
      /\ IsFiniteSet(Opened \cup {s})
      /\ Cardinality(Opened \cup {s}) \in Nat
      /\ Cardinality(Opened \cup {s}) <= Cardinality(Opened) + 1
  <2>1. Cardinality(Opened) \in Nat /\ Cardinality(Started) \in Nat
    BY <1>3, FS_CardinalityType
  <2>2. Cardinality(Started \cup {g}) = Cardinality(Started) + 1
    BY <1>2, <1>3, FS_AddElement
  <2>3. /\ IsFiniteSet(Opened \cup {s})
        /\ \/ Cardinality(Opened \cup {s}) = Cardinality(Opened)
           \/ Cardinality(Opened \cup {s}) = Cardinality(Opened) + 1
    BY <1>3, FS_AddElement
  <2> QED
    BY <1>2, <2>1, <2>2, <2>3
<1>5. IsFiniteSet(Opened') /\ Cardinality(Opened') <= Cardinality(Opened \cup {s})
  BY <1>1, <1>4, FS_Subset
<1>6. Cardinality(Opened') \in Nat
  BY <1>5, FS_CardinalityType
<1>7. Cardinality(Opened) <= Cardinality(Started)
  BY DEF OpenedInv, Opened, Started
<1>8. Cardinality(Opened') <= Cardinality(Started')
  BY <1>4, <1>5, <1>6, <1>7
<1> QED
  BY <1>8 DEF OpenedInv, Opened, Started

-----------------------------------------------------------------------------
(* Steps of one sender.                                                    *)

(* What the invariant says about one sender ...                            *)
OwnInv(g) ==
    /\ pc[g] \in {"write", "rest", "failed", "closing", "sent"} =>
         has[g] # 0 /\ stream[has[g]] # "none"
    /\ pc[g] = "closing" => has[g] # streamsByPeer
    /\ pc[g] = "rest" => g \in Long
    /\ pc[g] = "rest" /\ stream[has[g]] = "open" /\ has[g] \notin deaf =>
         \E i \in DOMAIN pipe[has[g]] : pipe[has[g]][i] = First(g)
    /\ pc[g] = "sent" =>
         \/ g \in read
         \/ \E i \in DOMAIN pipe[has[g]] : pipe[has[g]][i].from = g
         \/ stream[has[g]] = "reset"
         \/ has[g] \in deaf
    /\ pc[g] \in {"failed", "closing", "error"} => faults > 0
    /\ g \in read => pc[g] = "sent"

(* ... and about the receiver, if it has stopped reading.                  *)
DeafInv ==
    deaf # {} => \E g \in Long :
      /\ g \notin read /\ pc[g] \notin {"start", "write"}
      /\ pc[g] \in {"rest", "sent"} => has[g] \in deaf

FaultsInv == (\E s \in Streams : stream[s] \in {"closed", "reset"}) => faults > 0

(* The parts of the invariant, one by one.                                 *)
LEMMA StreamsInvParts ==
    StreamsInv <=> /\ StreamTypeOK /\ PipeInv /\ OpenedInv /\ NoStreamLeaks
                   /\ DeafInv /\ FaultsInv
                   /\ \A g \in Senders : OwnInv(g)
<1>1. ASSUME StreamTypeOK, DeafInv
      PROVE  deaf # {} => \E g \in Long : g \notin read /\ pc[g] # "start"
  BY <1>1 DEF DeafInv
<1>2. StreamTypeOK => read \subseteq Senders
  BY DEF StreamTypeOK
<1>3. StreamTypeOK =>
        (SenderInv /\ SentIsNotLost /\ ErrorsNeedFaults <=>
           DeafInv /\ FaultsInv /\ \A g \in Senders : OwnInv(g))
  BY <1>1, <1>2 DEF SenderInv, SentIsNotLost, ErrorsNeedFaults, OwnInv, DeafInv,
     FaultsInv
<1> QED
  BY <1>3 DEF StreamsInv

(* The same in the next state.                                             *)
LEMMA StreamsInvPartsNext ==
    ASSUME StreamTypeOK', PipeInv', OpenedInv', NoStreamLeaks', DeafInv',
           FaultsInv', \A g \in Senders : OwnInv(g)'
    PROVE  StreamsInv'
<1>1. deaf' # {} => \E g \in Long : g \notin read' /\ pc'[g] # "start"
  BY DEF DeafInv
<1>2. read' \subseteq Senders
  BY DEF StreamTypeOK
<1>3. SenderInv' /\ SentIsNotLost' /\ ErrorsNeedFaults'
  BY <1>1, <1>2 DEF SenderInv, SentIsNotLost, ErrorsNeedFaults, OwnInv, DeafInv,
     FaultsInv, First
<1> QED
  BY <1>3 DEF StreamsInv

(* A sender that touches neither pipe nor receiver: it takes a stream, or  *)
(* gives up.                                                               *)
LEMMA Moves ==
    ASSUME StreamsInv, NEW g \in Senders,
           NEW x \in {"write", "failed", "closing", "error"},
           pc' = [pc EXCEPT ![g] = x],
           pc[g] \in {"start", "write", "rest", "failed", "closing"},
           x = "write" => pc[g] = "start",
           \A h \in Senders : h # g => has'[h] = has[h],
           UNCHANGED << pipe, deaf, read >>
    PROVE  PipeInv' /\ DeafInv' /\ g \notin read'
<1>1. pc \in [Senders -> {"start", "write", "rest", "failed", "closing", "sent",
                         "error"}]
  BY DEF StreamsInv, StreamTypeOK
<1>2. /\ PipeInv /\ DeafInv /\ OwnInv(g)
      /\ pc'[g] = x /\ \A h \in Senders : h # g => pc'[h] = pc[h]
  BY <1>1, StreamsInvParts
<1>3. g \notin read /\ pc[g] # "sent"
  BY <1>2 DEF OwnInv
<1>4. PipeInv'
  <2> SUFFICES ASSUME NEW s \in Streams, NEW i \in DOMAIN pipe[s],
                      NEW h \in Senders
               PROVE  /\ pipe[s][i] = Last(h) => pc'[h] = "sent" /\ has'[h] = s
                      /\ pipe[s][i] = First(h) =>
                           /\ pc'[h] \notin {"start", "write"}
                           /\ pc'[h] \in {"rest", "sent"} => has'[h] = s
    BY <1>2 DEF PipeInv, First, Last
  <2>1. /\ pipe[s][i] = Last(h) => pc[h] = "sent" /\ has[h] = s
        /\ pipe[s][i] = First(h) =>
             /\ pc[h] \notin {"start", "write"}
             /\ pc[h] \in {"rest", "sent"} => has[h] = s
    BY <1>2 DEF PipeInv
  <2>2. CASE h # g
    BY <1>2, <2>1, <2>2
  <2>3. CASE h = g
    BY <1>2, <1>3, <2>1, <2>3
  <2> QED
    BY <2>2, <2>3
<1>5. DeafInv'
  <2> SUFFICES ASSUME deaf # {}
               PROVE  \E h \in Long :
                        /\ h \notin read /\ pc'[h] \notin {"start", "write"}
                        /\ pc'[h] \in {"rest", "sent"} => has'[h] \in deaf
    BY DEF DeafInv
  <2>1. PICK h \in Long : /\ h \notin read /\ pc[h] \notin {"start", "write"}
                          /\ pc[h] \in {"rest", "sent"} => has[h] \in deaf
    BY <1>2 DEF DeafInv
  <2>2. CASE h # g
    BY <1>2, <2>1, <2>2
  <2>3. CASE h = g
    BY <1>2, <2>1, <2>3
  <2> QED
    BY <2>2, <2>3
<1> QED
  BY <1>3, <1>4, <1>5

(* A sender has its stream in Streams once it uses one.                    *)
LEMMA HasStream ==
    ASSUME StreamTypeOK, NEW g \in Senders, OwnInv(g),
           pc[g] \in {"write", "rest", "failed", "closing", "sent"}
    PROVE  has[g] \in Streams /\ stream[has[g]] # "none"
BY DEF StreamTypeOK, OwnInv

(* The others do not notice when one takes or closes a stream, unless the  *)
(* one they are about to close came back into the map.                     *)
LEMMA OthersStay ==
    ASSUME StreamTypeOK, NEW h \in Senders, OwnInv(h), faults' >= faults,
           faults' \in Nat,
           pc'[h] = pc[h], has'[h] = has[h],
           \A s \in Streams : stream[s] # "none" =>
             /\ stream'[s] # "none"
             /\ stream'[s] = "open" => stream[s] = "open"
             /\ stream[s] = "reset" => stream'[s] = "reset",
           pc[h] = "closing" => has[h] # streamsByPeer',
           UNCHANGED << pipe, deaf, read >>
    PROVE  OwnInv(h)'
<1>1. faults \in Nat
  BY DEF StreamTypeOK
<1>2. CASE pc[h] \in {"write", "rest", "failed", "closing", "sent"}
  <2>1. has[h] \in Streams /\ stream[has[h]] # "none"
    BY <1>2, HasStream
  <2>2. /\ stream'[has[h]] # "none"
        /\ stream'[has[h]] = "open" => stream[has[h]] = "open"
        /\ stream[has[h]] = "reset" => stream'[has[h]] = "reset"
    BY <2>1
  <2>3. First(h)' = First(h)
    BY DEF First
  <2> QED
    BY <1>1, <1>2, <2>1, <2>2, <2>3 DEF OwnInv
<1>3. CASE pc[h] \notin {"write", "rest", "failed", "closing", "sent"}
  BY <1>1, <1>3 DEF OwnInv
<1> QED
  BY <1>2, <1>3

(* Stream hands out the stream in the map, or a new one.                   *)
LEMMA StreamPreserves ==
    ASSUME StreamsInv, NEW g \in Senders, Stream(g)
    PROVE  StreamsInv'
<1> DEFINE new == CHOOSE n \in Streams :
             stream[n] = "none" /\ \A m \in 1 .. n - 1 : stream[m] # "none"
<1>1. /\ StreamTypeOK /\ PipeInv /\ OpenedInv /\ NoStreamLeaks
      /\ DeafInv /\ FaultsInv /\ \A h \in Senders : OwnInv(h)
  BY StreamsInvParts
<1>2. /\ pc[g] = "start"
      /\ streamsByPeer' = IF streamsByPeer # 0 THEN streamsByPeer ELSE new
      /\ stream' = IF streamsByPeer # 0 THEN stream
                   ELSE [stream EXCEPT ![new] = "open"]
      /\ has' = [has EXCEPT ![g] = streamsByPeer']
      /\ pc' = [pc EXCEPT ![g] = "write"]
      /\ UNCHANGED << text, pipe, deaf, read, faults >>
  <2>1. CASE streamsByPeer # 0
    BY <2>1 DEF Stream
  <2>2. CASE streamsByPeer = 0
    BY <2>2 DEF Stream
  <2> QED
    BY <2>1, <2>2
<1>3. new \in Streams /\ stream[new] = "none"
  BY <1>1, <1>2, Unopened
<1> HIDE DEF new
<1>4. PICK s \in Streams : s = streamsByPeer'
  BY <1>1, <1>2, <1>3 DEF StreamTypeOK
<1>5. StreamTypeOK'
  BY <1>1, <1>2, <1>3, <1>4 DEF StreamTypeOK
<1>6. /\ \A h \in Senders : h # g => pc'[h] = pc[h] /\ has'[h] = has[h]
      /\ pc'[g] = "write" /\ has'[g] = s
      /\ stream'[s] # "none"
      /\ \A t \in Streams : stream[t] # "none" => stream'[t] = stream[t]
      /\ \A t \in Streams : t # s => stream'[t] = stream[t]
      /\ stream'[s] \in {"open", "reset"}
  <2>1. /\ pc \in [Senders -> {"start", "write", "rest", "failed", "closing",
                               "sent", "error"}]
        /\ has \in [Senders -> Streams \cup {0}]
        /\ stream \in [Streams -> {"none", "open", "closed", "reset"}]
    BY <1>1 DEF StreamTypeOK
  <2>2. CASE streamsByPeer # 0
    BY <1>1, <1>2, <1>4, <2>1, <2>2 DEF NoStreamLeaks
  <2>3. CASE streamsByPeer = 0
    BY <1>2, <1>3, <1>4, <2>1, <2>3
  <2> QED
    BY <2>2, <2>3
<1>7. PipeInv' /\ DeafInv' /\ g \notin read'
  BY <1>2, <1>6, Moves
<1>8. OpenedInv'
  BY <1>1, <1>2, <1>6, CountGrows
<1>9. NoStreamLeaks'
  <2>1. s # 0
    BY StreamsAreFinite
  <2>2. ASSUME NEW t \in Streams, stream'[t] = "open", t # s
        PROVE  \E h \in Senders : pc'[h] = "closing" /\ has'[h] = t
    <3>1. stream[t] = "open"
      BY <1>6, <2>2
    <3>2. t # streamsByPeer
      BY <1>2, <1>4, <2>1, <2>2, StreamsAreFinite
    <3>3. PICK h \in Senders : pc[h] = "closing" /\ has[h] = t
      BY <1>1, <3>1, <3>2 DEF NoStreamLeaks
    <3> QED
      BY <1>2, <1>6, <3>3
  <2> QED
    BY <1>4, <1>6, <2>2 DEF NoStreamLeaks
<1>10. FaultsInv'
  BY <1>1, <1>2, <1>3, <1>4 DEF FaultsInv, StreamTypeOK
<1>11. ASSUME NEW h \in Senders PROVE OwnInv(h)'
  <2>1. CASE h = g
    BY <1>4, <1>6, <1>7, <2>1, StreamsAreFinite DEF OwnInv
  <2>2. CASE h # g
    <3>1. pc[h] = "closing" => has[h] # streamsByPeer'
      BY <1>1, <1>2, <1>3 DEF OwnInv
    <3>2. faults' >= faults /\ faults' \in Nat
      BY <1>1, <1>2 DEF StreamTypeOK
    <3> QED
      BY <1>1, <1>2, <1>6, <2>2, <3>1, <3>2, OthersStay
  <2> QED
    BY <2>1, <2>2
<1> QED
  BY <1>5, <1>7, <1>8, <1>9, <1>10, <1>11, StreamsInvPartsNext

(* A dial that fails is a fault.                                           *)
LEMMA StreamFailsPreserves ==
    ASSUME StreamsInv, NEW g \in Senders, StreamFails(g)
    PROVE  StreamsInv'
<1>1. /\ StreamTypeOK /\ PipeInv /\ OpenedInv /\ NoStreamLeaks
      /\ DeafInv /\ FaultsInv /\ \A h \in Senders : OwnInv(h)
  BY StreamsInvParts
<1>2. /\ pc[g] = "start" /\ faults < MaxFaults /\ faults' = faults + 1
      /\ pc' = [pc EXCEPT ![g] = "error"]
      /\ UNCHANGED << has, text, streamsByPeer, stream, pipe, deaf, read >>
  BY DEF StreamFails
<1>3. /\ StreamTypeOK' /\ faults' >= faults /\ faults' \in Nat /\ faults' > 0
  BY <1>1, <1>2 DEF StreamTypeOK
<1>4. \A h \in Senders : pc'[h] = IF h = g THEN "error" ELSE pc[h]
  BY <1>1, <1>2 DEF StreamTypeOK
<1>5. PipeInv' /\ DeafInv' /\ g \notin read'
  BY <1>2, Moves
<1>6. OpenedInv'
  BY <1>1, <1>2, <1>4, CountStays
<1>7. NoStreamLeaks' /\ FaultsInv'
  BY <1>1, <1>2, <1>3, <1>4 DEF NoStreamLeaks, FaultsInv
<1>8. ASSUME NEW h \in Senders PROVE OwnInv(h)'
  <2>1. CASE h = g
    BY <1>3, <1>4, <1>5, <2>1 DEF OwnInv
  <2>2. CASE h # g
    <3>1. pc[h] = "closing" => has[h] # streamsByPeer'
      BY <1>1, <1>2 DEF OwnInv
    <3> QED
      BY <1>1, <1>2, <1>3, <1>4, <2>2, <3>1, OthersStay
  <2> QED
    BY <2>1, <2>2
<1> QED
  BY <1>3, <1>5, <1>6, <1>7, <1>8, StreamsInvPartsNext

(* CloseStream takes whatever stream is in the map out of it.              *)
LEMMA CloseStreamPreserves ==
    ASSUME StreamsInv, NEW g \in Senders, CloseStream(g)
    PROVE  StreamsInv'
<1>1. /\ StreamTypeOK /\ PipeInv /\ OpenedInv /\ NoStreamLeaks
      /\ DeafInv /\ FaultsInv /\ \A h \in Senders : OwnInv(h)
  BY StreamsInvParts
<1>2. /\ pc[g] = "failed" /\ streamsByPeer' = 0
      /\ UNCHANGED << text, stream, pipe, deaf, read, faults >>
  BY DEF CloseStream
<1>3. PICK x \in {"closing", "error"}, y \in Streams \cup {0} :
        /\ pc' = [pc EXCEPT ![g] = x] /\ has' = [has EXCEPT ![g] = y]
        /\ x = "closing" => y = streamsByPeer /\ y # 0
        /\ x = "error" => streamsByPeer = 0
  <2>1. has = [has EXCEPT ![g] = has[g]] /\ has[g] \in Streams \cup {0}
    BY <1>1 DEF StreamTypeOK
  <2> QED
    BY <1>1, <2>1 DEF CloseStream, StreamTypeOK
<1>4. StreamTypeOK' /\ faults' >= faults /\ faults' \in Nat
  BY <1>1, <1>2, <1>3 DEF StreamTypeOK
<1>5. /\ \A h \in Senders : pc'[h] = IF h = g THEN x ELSE pc[h]
      /\ \A h \in Senders : has'[h] = IF h = g THEN y ELSE has[h]
  BY <1>1, <1>3 DEF StreamTypeOK
<1>6. PipeInv' /\ DeafInv' /\ g \notin read'
  BY <1>2, <1>3, <1>5, Moves
<1>7. OpenedInv'
  BY <1>1, <1>2, <1>5, CountStays
<1>8. NoStreamLeaks'
  <2>1. ASSUME NEW t \in Streams, stream'[t] = "open"
        PROVE  \E h \in Senders : pc'[h] = "closing" /\ has'[h] = t
    <3>1. CASE t = streamsByPeer
      BY <1>3, <1>5, <3>1, StreamsAreFinite
    <3>2. CASE t # streamsByPeer
      <4>1. PICK h \in Senders : pc[h] = "closing" /\ has[h] = t
        BY <1>1, <1>2, <2>1, <3>2 DEF NoStreamLeaks
      <4> QED
        BY <1>2, <1>5, <4>1
    <3> QED
      BY <3>1, <3>2
  <2> QED
    BY <1>2, <2>1 DEF NoStreamLeaks
<1>9. FaultsInv'
  BY <1>1, <1>2 DEF FaultsInv
<1>10. ASSUME NEW h \in Senders PROVE OwnInv(h)'
  <2>1. CASE h = g
    <3>1. faults' > 0
      BY <1>1, <1>2 DEF OwnInv
    <3>2. x = "closing" => stream'[y] # "none"
      BY <1>1, <1>2, <1>3 DEF NoStreamLeaks
    <3> QED
      BY <1>2, <1>3, <1>5, <1>6, <2>1, <3>1, <3>2 DEF OwnInv
  <2>2. CASE h # g
    <3>1. pc[h] = "closing" => has[h] # streamsByPeer'
      BY <1>1, <1>2 DEF OwnInv
    <3> QED
      BY <1>1, <1>2, <1>4, <1>5, <2>2, <3>1, OthersStay
  <2> QED
    BY <2>1, <2>2
<1> QED
  BY <1>4, <1>6, <1>7, <1>8, <1>9, <1>10, StreamsInvPartsNext

(* Close ends a stream that is no longer in the map, and a working one is  *)
(* not ended before there was a fault.                                     *)
LEMMA ClosePreserves ==
    ASSUME StreamsInv, NEW g \in Senders, Close(g)
    PROVE  StreamsInv'
<1>1. /\ StreamTypeOK /\ PipeInv /\ OpenedInv /\ NoStreamLeaks
      /\ DeafInv /\ FaultsInv /\ \A h \in Senders : OwnInv(h)
  BY StreamsInvParts
<1>2. /\ pc[g] = "closing"
      /\ stream' = [stream EXCEPT ![has[g]] = IF @ = "open" THEN "closed" ELSE @]
      /\ pc' = [pc EXCEPT ![g] = "error"]
      /\ UNCHANGED << has, text, streamsByPeer, pipe, deaf, read, faults >>
  BY DEF Close
<1>3. PICK s \in Streams : s = has[g] /\ stream[s] # "none" /\ s # streamsByPeer
  BY <1>1, <1>2, HasStream DEF OwnInv
<1>4. StreamTypeOK' /\ faults' >= faults /\ faults' \in Nat /\ faults' > 0
  BY <1>1, <1>2, <1>3 DEF StreamTypeOK, OwnInv
<1>5. /\ \A h \in Senders : pc'[h] = IF h = g THEN "error" ELSE pc[h]
      /\ \A t \in Streams : t # s => stream'[t] = stream[t]
      /\ stream'[s] = IF stream[s] = "open" THEN "closed" ELSE stream[s]
  BY <1>1, <1>2, <1>3 DEF StreamTypeOK
<1>6. PipeInv' /\ DeafInv' /\ g \notin read'
  BY <1>2, Moves
<1>7. OpenedInv'
  BY <1>1, <1>3, <1>5, CountStays
<1>8. NoStreamLeaks'
  <2>1. ASSUME NEW t \in Streams, stream'[t] = "open", t # streamsByPeer
        PROVE  \E h \in Senders : pc'[h] = "closing" /\ has'[h] = t
    <3>1. stream[t] = "open" /\ t # s
      BY <1>5, <2>1
    <3>2. PICK h \in Senders : pc[h] = "closing" /\ has[h] = t
      BY <1>1, <2>1, <3>1 DEF NoStreamLeaks
    <3> QED
      BY <1>2, <1>3, <1>5, <3>1, <3>2
  <2>2. streamsByPeer # 0 => stream'[streamsByPeer] \in {"open", "reset"}
    BY <1>1, <1>3, <1>5 DEF NoStreamLeaks, StreamTypeOK
  <2> QED
    BY <1>2, <2>1, <2>2 DEF NoStreamLeaks
<1>9. FaultsInv'
  BY <1>4 DEF FaultsInv
<1>10. ASSUME NEW h \in Senders PROVE OwnInv(h)'
  <2>1. CASE h = g
    BY <1>4, <1>5, <1>6, <2>1 DEF OwnInv
  <2>2. CASE h # g
    <3>1. pc[h] = "closing" => has[h] # streamsByPeer'
      BY <1>1, <1>2 DEF OwnInv
    <3>2. \A t \in Streams : stream[t] # "none" =>
             /\ stream'[t] # "none"
             /\ stream'[t] = "open" => stream[t] = "open"
             /\ stream[t] = "reset" => stream'[t] = "reset"
      BY <1>5
    <3> QED
      BY <1>1, <1>2, <1>4, <1>5, <2>2, <3>1, <3>2, OthersStay
  <2> QED
    BY <2>1, <2>2
<1> QED
  BY <1>4, <1>6, <1>7, <1>8, <1>9, <1>10, StreamsInvPartsNext

(* What PipeInv says about the piece e at position i of pipe q of stream s *)
(* and about a sender g.                                                   *)
PieceInv(s, q, i, g) ==
    /\ q[i] = Last(g) =>
         /\ pc[g] = "sent" /\ has[g] = s
         /\ g \in Long /\ s \notin deaf => \E j \in 1 .. i - 1 : q[j] = First(g)
    /\ q[i] = First(g) =>
         /\ g \in Long /\ g \notin read /\ pc[g] \notin {"start", "write"}
         /\ pc[g] \in {"rest", "sent"} => has[g] = s

(* No piece is in pipe q twice.                                            *)
Distinct(q) == \A i, j \in DOMAIN q : q[i] = q[j] => i = j

(* The invariant of the pipes, pipe by pipe.                               *)
LEMMA PipeInvParts ==
    /\ PipeInv <=> \A s \in Streams :
         /\ Distinct(pipe[s])
         /\ \A i \in DOMAIN pipe[s], g \in Senders : PieceInv(s, pipe[s], i, g)
    /\ PipeInv' <=> \A s \in Streams :
         /\ Distinct(pipe'[s])
         /\ \A i \in DOMAIN pipe'[s], g \in Senders : PieceInv(s, pipe[s], i, g)'
BY Zenon DEF PipeInv, Distinct, PieceInv, First, Last

(* A piece that is written is none of those on their way, and the last     *)
(* piece of a long message comes after the first.                          *)
LEMMA WrittenPiece ==
    ASSUME StreamsInv, NEW g \in Senders, NEW x \in {"rest", "sent"},
           NEW e \in {First(g), Last(g)}, NEW s \in Streams,
           s = has[g], stream[s] = "open",
           \/ e = First(g) /\ pc[g] = "write" /\ g \in Long /\ x = "rest"
           \/ e = Last(g) /\ pc[g] = "write" /\ g \notin Long /\ x = "sent"
           \/ e = Last(g) /\ pc[g] = "rest" /\ x = "sent",
           pipe'[s] = Append(pipe[s], e),
           \A t \in Streams : t # s => pipe'[t] = pipe[t],
           \A h \in Senders : pc'[h] = IF h = g THEN x ELSE pc[h],
           UNCHANGED << has, deaf, read >>
    PROVE  /\ PipeInv'
           /\ \A i \in DOMAIN pipe[s] : i \in DOMAIN pipe'[s]
                                        /\ pipe'[s][i] = pipe[s][i]
           /\ \E i \in DOMAIN pipe'[s] : pipe'[s][i] = e
<1> DEFINE n == Len(pipe[s])
<1>1. /\ StreamTypeOK /\ PipeInv /\ OwnInv(g) /\ pipe[s] \in Seq(Piece)
      /\ e \in Piece /\ g \notin read
  <2>1. StreamTypeOK /\ PipeInv /\ OwnInv(g)
    BY StreamsInvParts
  <2>2. g \notin read
    BY <2>1 DEF OwnInv
  <2> QED
    BY <2>1, <2>2, Pieces DEF StreamTypeOK
<1>2. /\ n \in Nat /\ DOMAIN pipe[s] = 1 .. n
      /\ DOMAIN pipe'[s] = 1 .. n + 1
      /\ \A i \in 1 .. n : pipe'[s][i] = pipe[s][i]
      /\ pipe'[s][n + 1] = e
      /\ \A t \in Streams : t # s => pipe'[t] = pipe[t]
  BY <1>1, Appended
<1>3. \A h \in Senders : pc'[h] = IF h = g THEN x ELSE pc[h]
  OBVIOUS
<1>4. \A t \in Streams :
        /\ Distinct(pipe[t])
        /\ \A i \in DOMAIN pipe[t], h \in Senders : PieceInv(t, pipe[t], i, h)
  BY <1>1, PipeInvParts
<1>5. ASSUME NEW t \in Streams, NEW i \in DOMAIN pipe[t], NEW h \in Senders
      PROVE  /\ pipe[t][i] # e
             /\ pipe[t][i] = Last(h) => pc'[h] = "sent" /\ has[h] = t
             /\ pipe[t][i] = First(h) =>
                  /\ h \in Long /\ h \notin read /\ pc'[h] \notin {"start", "write"}
                  /\ pc'[h] \in {"rest", "sent"} => has[h] = t
  <2>1. PieceInv(t, pipe[t], i, h) /\ PieceInv(t, pipe[t], i, g)
    BY <1>4
  <2>2. pipe[t][i] # e /\ pipe[t][i] # Last(g)
    BY <2>1 DEF PieceInv
  <2>3. CASE h = g
    BY <1>3, <2>1, <2>2, <2>3 DEF PieceInv
  <2>4. CASE h # g
    BY <1>3, <2>1, <2>2, <2>4 DEF PieceInv
  <2> QED
    BY <2>2, <2>3, <2>4
<1>6. ASSUME NEW h \in Senders, NEW i \in 1 .. n + 1
      PROVE  PieceInv(s, pipe[s], i, h)'
  <2>0. First(h)' = First(h) /\ Last(h)' = Last(h)
    BY DEF First, Last
  <2>1. CASE i \in 1 .. n
    <3>1. /\ PieceInv(s, pipe[s], i, h) /\ pipe'[s][i] = pipe[s][i]
          /\ \A j \in 1 .. i - 1 : pipe'[s][j] = pipe[s][j]
      BY <1>2, <1>4, <2>1
    <3>2. pipe'[s][i] = Last(h) =>
            /\ pc'[h] = "sent" /\ has'[h] = s
            /\ h \in Long /\ s \notin deaf' =>
                 \E j \in 1 .. i - 1 : pipe'[s][j] = First(h)
      BY <1>2, <1>5, <2>1, <3>1 DEF PieceInv
    <3> QED
      BY <1>2, <1>5, <2>0, <2>1, <3>1, <3>2 DEF PieceInv
  <2>2. CASE i = n + 1
    <3>1. pipe'[s][i] = e
      BY <1>2, <2>2
    <3>2. CASE e = First(g) /\ pc[g] = "write" /\ g \in Long /\ x = "rest"
      <4>1. First(g) # Last(h) /\ (First(g) = First(h) => g = h)
        BY Pieces
      <4> QED
        BY <1>1, <1>3, <2>0, <3>1, <3>2, <4>1 DEF PieceInv
    <3>3. CASE e = Last(g) /\ pc[g] = "write" /\ g \notin Long /\ x = "sent"
      <4>1. First(h) # Last(g) /\ (Last(g) = Last(h) => g = h)
        BY Pieces
      <4> QED
        BY <1>1, <1>3, <2>0, <3>1, <3>3, <4>1 DEF PieceInv
    <3>4. CASE e = Last(g) /\ pc[g] = "rest" /\ x = "sent"
      <4>1. First(h) # Last(g) /\ (Last(g) = Last(h) => g = h)
        BY Pieces
      <4>2. s \notin deaf => \E j \in 1 .. n : pipe'[s][j] = First(g)
        BY <1>1, <1>2, <3>4 DEF OwnInv
      <4>3. i - 1 = n
        BY <1>2, <2>2
      <4> QED
        BY <1>1, <1>3, <2>0, <3>1, <3>4, <4>1, <4>2, <4>3 DEF PieceInv
    <3> QED
      BY <3>2, <3>3, <3>4
  <2> QED
    BY <1>2, <2>1, <2>2
<1>7. ASSUME NEW i \in 1 .. n + 1, NEW j \in 1 .. n + 1,
             pipe'[s][i] = pipe'[s][j]
      PROVE  i = j
  <2>1. \A k \in 1 .. n : pipe'[s][k] # e
    BY <1>2, <1>5
  <2>2. i \in 1 .. n <=> j \in 1 .. n
    BY <1>2, <1>7, <2>1
  <2>3. CASE i \in 1 .. n /\ j \in 1 .. n
    BY <1>2, <1>4, <1>7, <2>3 DEF Distinct
  <2>4. CASE i = n + 1 /\ j = n + 1
    BY <2>4
  <2> QED
    BY <1>2, <2>2, <2>3, <2>4
<1>8. ASSUME NEW t \in Streams
      PROVE  /\ Distinct(pipe'[t])
             /\ \A i \in DOMAIN pipe'[t], h \in Senders :
                  PieceInv(t, pipe[t], i, h)'
  <2>1. CASE t = s
    <3>1. Distinct(pipe'[s])
      <4> HIDE DEF n
      <4> QED
        BY <1>2, <1>7 DEF Distinct
    <3>2. \A i \in DOMAIN pipe'[s], h \in Senders : PieceInv(s, pipe[s], i, h)'
      BY <1>2, <1>6
    <3> QED
      BY <2>1, <3>1, <3>2
  <2>2. CASE t # s
    <3>1. pipe'[t] = pipe[t]
      BY <1>2, <2>2
    <3>2. ASSUME NEW i \in DOMAIN pipe[t], NEW h \in Senders
          PROVE  PieceInv(t, pipe[t], i, h)'
      <4>1. PieceInv(t, pipe[t], i, h)
        BY <1>4
      <4>2. First(h)' = First(h) /\ Last(h)' = Last(h)
        BY DEF First, Last
      <4>3. pipe[t][i] = Last(h) /\ h \in Long /\ t \notin deaf =>
              \E j \in 1 .. i - 1 : pipe[t][j] = First(h)
        BY <4>1 DEF PieceInv
      <4> QED
        BY <1>5, <3>1, <4>2, <4>3 DEF PieceInv
    <3> QED
      BY <1>4, <3>1, <3>2
  <2> QED
    BY <2>1, <2>2
<1>9. PipeInv'
  BY <1>8, PipeInvParts
<1> QED
  BY <1>2, <1>9

(* A piece goes out on an open stream.                                     *)
LEMMA PieceOut ==
    ASSUME StreamsInv, NEW g \in Senders, NEW x \in {"rest", "sent"},
           NEW e \in {First(g), Last(g)}, stream[has[g]] = "open",
           \/ e = First(g) /\ pc[g] = "write" /\ g \in Long /\ x = "rest"
           \/ e = Last(g) /\ pc[g] = "write" /\ g \notin Long /\ x = "sent"
           \/ e = Last(g) /\ pc[g] = "rest" /\ x = "sent",
           pipe' = [pipe EXCEPT ![has[g]] = Append(@, e)],
           pc' = [pc EXCEPT ![g] = x],
           UNCHANGED << has, text, streamsByPeer, stream, deaf, read, faults >>
    PROVE  StreamsInv'
<1>1. /\ StreamTypeOK /\ PipeInv /\ OpenedInv /\ NoStreamLeaks
      /\ DeafInv /\ FaultsInv /\ \A h \in Senders : OwnInv(h)
  BY StreamsInvParts
<1>2. PICK s \in Streams : s = has[g]
  BY <1>1, HasStream
<1>3. /\ \A h \in Senders : pc'[h] = IF h = g THEN x ELSE pc[h]
      /\ \A t \in Streams : t # s => pipe'[t] = pipe[t]
      /\ pipe'[s] = Append(pipe[s], e)
  BY <1>1, <1>2 DEF StreamTypeOK
<1>4. /\ PipeInv'
      /\ \A i \in DOMAIN pipe[s] : i \in DOMAIN pipe'[s]
                                   /\ pipe'[s][i] = pipe[s][i]
      /\ \E i \in DOMAIN pipe'[s] : pipe'[s][i] = e
  BY <1>2, <1>3, WrittenPiece
<1>5. StreamTypeOK'
  <2>1. pipe[s] \in Seq(Piece) /\ e \in Piece
    BY <1>1, Pieces DEF StreamTypeOK
  <2>2. Append(pipe[s], e) \in Seq(Piece)
    BY <2>1, Appended
  <2>3. pipe' \in [Streams -> Seq(Piece)]
    BY <1>1, <1>2, <2>2 DEF StreamTypeOK
  <2> QED
    BY <1>1, <2>3 DEF StreamTypeOK
<1>6. OpenedInv'
  BY <1>1, <1>3, CountStays
<1>7. NoStreamLeaks'
  BY <1>1, <1>3 DEF NoStreamLeaks
<1>8. FaultsInv'
  BY <1>1 DEF FaultsInv
<1>9. DeafInv'
  <2> SUFFICES ASSUME deaf # {}
               PROVE  \E h \in Long :
                        /\ h \notin read /\ pc'[h] \notin {"start", "write"}
                        /\ pc'[h] \in {"rest", "sent"} => has[h] \in deaf
    BY DEF DeafInv
  <2>1. PICK h \in Long : /\ h \notin read /\ pc[h] \notin {"start", "write"}
                          /\ pc[h] \in {"rest", "sent"} => has[h] \in deaf
    BY <1>1 DEF DeafInv
  <2>2. CASE h # g
    BY <1>3, <2>1, <2>2
  <2>3. CASE h = g
    BY <1>3, <2>1, <2>3
  <2> QED
    BY <2>2, <2>3
<1>10. ASSUME NEW h \in Senders PROVE OwnInv(h)'
  <2>0. First(h)' = First(h)
    BY DEF First
  <2>1. CASE h = g
    <3>1. g \notin read /\ has[g] # 0 /\ (pc[g] = "rest" => g \in Long)
      BY <1>1, HasStream, StreamsAreFinite DEF OwnInv
    <3>2. e.from = g
      BY Pieces
    <3>3. \E i \in DOMAIN pipe'[s] : pipe'[s][i].from = g
      BY <1>4, <3>2
    <3>4. x = "rest" => g \in Long /\ e = First(g)
      <4>1. First(g) # Last(g)
        BY Pieces
      <4> QED
        BY <4>1
    <3> QED
      BY <1>2, <1>3, <1>4, <2>0, <2>1, <3>1, <3>3, <3>4 DEF OwnInv
  <2>2. CASE h # g /\ has[h] = s
    <3>1. ASSUME NEW i \in DOMAIN pipe[s]
          PROVE  i \in DOMAIN pipe'[s] /\ pipe'[s][i] = pipe[s][i]
      BY <1>4
    <3>2. OwnInv(h) /\ pc'[h] = pc[h]
      BY <1>1, <1>3, <2>2
    <3> QED
      BY <2>0, <2>2, <3>1, <3>2 DEF OwnInv
  <2>3. CASE h # g /\ has[h] # s
    <3>1. OwnInv(h) /\ pc'[h] = pc[h]
      BY <1>1, <1>3, <2>3
    <3>2. CASE pc[h] \in {"write", "rest", "failed", "closing", "sent"}
      <4>1. pipe'[has[h]] = pipe[has[h]]
        BY <1>1, <1>3, <2>3, <3>2, HasStream
      <4> QED
        BY <2>0, <3>1, <4>1 DEF OwnInv
    <3>3. CASE pc[h] \notin {"write", "rest", "failed", "closing", "sent"}
      BY <3>1, <3>3 DEF OwnInv
    <3> QED
      BY <3>2, <3>3
  <2> QED
    BY <2>1, <2>2, <2>3
<1> QED
  BY <1>4, <1>5, <1>6, <1>7, <1>8, <1>9, <1>10, StreamsInvPartsNext

(* A write on a stream that was closed or reset fails, so there was a      *)
(* fault before.                                                           *)
LEMMA WriteFails ==
    ASSUME StreamsInv, NEW g \in Senders, pc[g] \in {"write", "rest"},
           stream[has[g]] # "open", pc' = [pc EXCEPT ![g] = "failed"],
           UNCHANGED << pipe, has, text, streamsByPeer, stream, deaf, read,
                        faults >>
    PROVE  StreamsInv'
<1>1. /\ StreamTypeOK /\ PipeInv /\ OpenedInv /\ NoStreamLeaks
      /\ DeafInv /\ FaultsInv /\ \A h \in Senders : OwnInv(h)
  BY StreamsInvParts
<1>2. has[g] \in Streams /\ stream[has[g]] # "none"
  BY <1>1, HasStream
<1>3. faults > 0 /\ faults' >= faults /\ faults' \in Nat
  <2>1. stream[has[g]] \in {"closed", "reset"} /\ faults \in Nat
    BY <1>1, <1>2 DEF StreamTypeOK
  <2> QED
    BY <1>1, <1>2, <2>1 DEF FaultsInv
<1>4. \A h \in Senders : pc'[h] = IF h = g THEN "failed" ELSE pc[h]
  BY <1>1 DEF StreamTypeOK
<1>5. StreamTypeOK'
  BY <1>1 DEF StreamTypeOK
<1>6. PipeInv' /\ DeafInv' /\ g \notin read'
  BY Moves
<1>7. OpenedInv'
  BY <1>1, <1>4, CountStays
<1>8. NoStreamLeaks' /\ FaultsInv'
  BY <1>1, <1>4 DEF NoStreamLeaks, FaultsInv
<1>9. ASSUME NEW h \in Senders PROVE OwnInv(h)'
  <2>1. CASE h = g
    BY <1>2, <1>3, <1>4, <1>6, <2>1, StreamsAreFinite DEF OwnInv
  <2>2. CASE h # g
    <3>1. pc[h] = "closing" => has[h] # streamsByPeer'
      BY <1>1 DEF OwnInv
    <3> QED
      BY <1>1, <1>3, <1>4, <2>2, <3>1, OthersStay
  <2> QED
    BY <2>1, <2>2
<1> QED
  BY <1>5, <1>6, <1>7, <1>8, <1>9, StreamsInvPartsNext

(* WriteStream sends the first piece, the last piece, or fails.            *)
LEMMA WriteStreamPreserves ==
    ASSUME StreamsInv, NEW g \in Senders, WriteStream(g)
    PROVE  StreamsInv'
<1>1. UNCHANGED << has, text, streamsByPeer, stream, deaf, read, faults >>
  BY DEF WriteStream, Write
<1>2. CASE stream[has[g]] # "open"
  BY <1>1, <1>2, WriteFails DEF WriteStream, Write
<1>3. CASE stream[has[g]] = "open" /\ pc[g] = "write" /\ g \in Long
  <2>1. /\ pipe' = [pipe EXCEPT ![has[g]] = Append(@, First(g))]
        /\ pc' = [pc EXCEPT ![g] = "rest"]
    BY <1>3 DEF WriteStream, Write, First
  <2> QED
    BY <1>1, <1>3, <2>1, PieceOut
<1>4. CASE stream[has[g]] = "open" /\ pc[g] = "write" /\ g \notin Long
  <2>1. /\ pipe' = [pipe EXCEPT ![has[g]] = Append(@, Last(g))]
        /\ pc' = [pc EXCEPT ![g] = "sent"]
    BY <1>4 DEF WriteStream, Write, Last
  <2> QED
    BY <1>1, <1>4, <2>1, PieceOut
<1>5. CASE stream[has[g]] = "open" /\ pc[g] = "rest"
  <2>1. /\ pipe' = [pipe EXCEPT ![has[g]] = Append(@, Last(g))]
        /\ pc' = [pc EXCEPT ![g] = "sent"]
    BY <1>5 DEF WriteStream, Write, Last
  <2> QED
    BY <1>1, <1>5, <2>1, PieceOut
<1> QED
  BY <1>2, <1>3, <1>4, <1>5 DEF WriteStream

-----------------------------------------------------------------------------
(* Steps of the network and of the receiver.                               *)

(* A reset empties the pipe, and every sender on the stream can see it.    *)
LEMMA ResetPreserves ==
    ASSUME StreamsInv, NEW s \in Streams, Reset(s)
    PROVE  StreamsInv'
<1>1. /\ StreamTypeOK /\ PipeInv /\ OpenedInv /\ NoStreamLeaks
      /\ DeafInv /\ FaultsInv /\ \A h \in Senders : OwnInv(h)
  BY StreamsInvParts
<1>2. /\ stream[s] \in {"open", "closed"} /\ faults < MaxFaults
      /\ faults' = faults + 1
      /\ stream' = [stream EXCEPT ![s] = "reset"]
      /\ pipe' = [pipe EXCEPT ![s] = << >>]
      /\ UNCHANGED << pc, has, text, streamsByPeer, deaf, read >>
  BY DEF Reset
<1>3. StreamTypeOK' /\ faults' > 0
  <2>1. << >> \in Seq(Piece)
    OBVIOUS
  <2> QED
    BY <1>1, <1>2, <2>1 DEF StreamTypeOK
<1>4. /\ \A t \in Streams : t # s => stream'[t] = stream[t] /\ pipe'[t] = pipe[t]
      /\ stream'[s] = "reset" /\ pipe'[s] = << >>
  BY <1>1, <1>2 DEF StreamTypeOK
<1>5. PipeInv'
  <2>1. ASSUME NEW t \in Streams
        PROVE  /\ Distinct(pipe'[t])
               /\ \A i \in DOMAIN pipe'[t], h \in Senders :
                    PieceInv(t, pipe[t], i, h)'
    <3>1. CASE t = s
      <4>1. DOMAIN pipe'[t] = {}
        BY <1>4, <3>1
      <4> QED
        BY <4>1 DEF Distinct
    <3>2. CASE t # s
      <4>1. pipe'[t] = pipe[t]
        BY <1>4, <3>2
      <4>2. /\ Distinct(pipe[t])
            /\ \A i \in DOMAIN pipe[t], h \in Senders : PieceInv(t, pipe[t], i, h)
        BY <1>1, PipeInvParts
      <4>3. ASSUME NEW i \in DOMAIN pipe[t], NEW h \in Senders
            PROVE  PieceInv(t, pipe[t], i, h)'
        BY <1>2, <4>1, <4>2 DEF PieceInv, First, Last
      <4> QED
        BY <4>1, <4>2, <4>3
    <3> QED
      BY <3>1, <3>2
  <2> QED
    BY <2>1, PipeInvParts
<1>6. OpenedInv'
  BY <1>1, <1>2, <1>4, CountStays
<1>7. NoStreamLeaks'
  BY <1>1, <1>2, <1>4 DEF NoStreamLeaks, StreamTypeOK
<1>8. DeafInv' /\ FaultsInv'
  BY <1>1, <1>2, <1>3 DEF DeafInv, FaultsInv
<1>9. ASSUME NEW h \in Senders PROVE OwnInv(h)'
  <2>0. First(h)' = First(h)
    BY DEF First
  <2>1. OwnInv(h)
    BY <1>1
  <2>2. CASE has[h] = s
    BY <1>2, <1>3, <1>4, <2>1, <2>2 DEF OwnInv
  <2>3. CASE has[h] # s /\ has[h] \in Streams
    BY <1>2, <1>3, <1>4, <2>0, <2>1, <2>3 DEF OwnInv
  <2>4. CASE has[h] \notin Streams
    <3>1. pc[h] \notin {"write", "rest", "failed", "closing", "sent"}
      BY <1>1, <2>4, HasStream
    <3> QED
      BY <1>2, <1>3, <2>1, <3>1 DEF OwnInv
  <2> QED
    BY <2>2, <2>3, <2>4
<1> QED
  BY <1>3, <1>5, <1>6, <1>7, <1>8, <1>9, StreamsInvPartsNext

(* The frame of n pieces at the front of pipe s, which the sender g has    *)
(* finished: first pieces up to its own last one.                          *)
Frame(s, n, g) ==
    /\ pipe[s][n] = Last(g) /\ pc[g] = "sent" /\ has[g] = s
    /\ \A i \in 1 .. n - 1 :
         pipe[s][i].from \in Senders /\ pipe[s][i] = First(pipe[s][i].from)

(* Whole(s, n, g): it is g's message, as Intact finds.                     *)
Whole(s, n, g) ==
    /\ \A i \in 1 .. n : pipe[s][i].from = g
    /\ n = IF g \in Long THEN 2 ELSE 1

(* What ReadStream takes from the pipe is a frame.                         *)
LEMMA FrameRead ==
    ASSUME StreamTypeOK, PipeInv, NEW s \in Streams, NEW n \in DOMAIN pipe[s],
           \A i \in 1 .. n : SubSeq(pipe[s], 1, n)[i].last <=> i = n
    PROVE  \E g \in Senders :
             /\ g = SubSeq(pipe[s], 1, n)[n].from
             /\ Frame(s, n, g)
             /\ Intact(SubSeq(pipe[s], 1, n)) <=> Whole(s, n, g)
<1> DEFINE q == pipe[s]
           frame == SubSeq(q, 1, n)
           g == q[n].from
<1>1. q \in Seq(Piece)
  BY DEF StreamTypeOK
<1>2. /\ n \in Nat /\ n >= 1 /\ DOMAIN q = 1 .. Len(q) /\ n <= Len(q)
      /\ Len(q) \in Nat
      /\ DOMAIN frame = 1 .. n /\ Len(frame) = n
      /\ \A i \in 1 .. n : frame[i] = q[i]
  BY <1>1, Cut
<1>3. \A i \in 1 .. n : q[i] \in Piece
  BY <1>1, <1>2
<1>4. \A i \in 1 .. n : q[i].last <=> i = n
  BY <1>2
<1>5. g \in Senders /\ q[n] = Last(g)
  BY <1>2, <1>3, <1>4, Pieces
<1>6. \A i \in 1 .. n - 1 : q[i].from \in Senders /\ q[i] = First(q[i].from)
  <2> TAKE i \in 1 .. n - 1
  <2>1. i \in 1 .. n /\ i # n
    BY <1>2
  <2>2. q[i] \in Piece /\ ~q[i].last
    BY <1>3, <1>4, <2>1
  <2> QED
    BY <2>2, Pieces
<1>7. pc[g] = "sent" /\ has[g] = s
  <2>1. \A i \in DOMAIN q, h \in Senders : PieceInv(s, q, i, h)
    BY PipeInvParts
  <2>2. PieceInv(s, q, n, g)
    BY <1>5, <2>1
  <2> QED
    BY <1>5, <2>2 DEF PieceInv
<1>8. g = frame[n].from
  BY <1>2
<1>9. Intact(frame) <=> Whole(s, n, g)
  <2>1. frame[Len(frame)].from = g
    BY <1>2, <1>8
  <2>2. ASSUME NEW i \in 1 .. n PROVE frame[i].from = q[i].from
    BY <1>2
  <2> HIDE DEF frame, g
  <2> QED
    BY <1>2, <2>1, <2>2 DEF Intact, Whole
<1> QED
  BY <1>5, <1>6, <1>7, <1>8, <1>9 DEF Frame

(* A frame that is not one message holds the first piece of a long message *)
(* that another one cut into.                                              *)
LEMMA CutFrame ==
    ASSUME StreamTypeOK, PipeInv, NEW s \in Streams, NEW n \in DOMAIN pipe[s],
           NEW g \in Senders, s \notin deaf, Frame(s, n, g), ~Whole(s, n, g)
    PROVE  \E h \in Long : /\ h \notin read /\ pc[h] \notin {"start", "write"}
                           /\ pc[h] \in {"rest", "sent"} => has[h] = s
<1> DEFINE q == pipe[s]
<1>1. n \in Nat /\ n >= 1 /\ 1 .. n \subseteq DOMAIN q
  <2>1. q \in Seq(Piece)
    BY DEF StreamTypeOK
  <2> QED
    BY <2>1, Cut
<1>2. /\ Distinct(q)
      /\ \A i \in DOMAIN q, h \in Senders : PieceInv(s, q, i, h)
  BY PipeInvParts
<1>3. CASE \E i \in 1 .. n : q[i].from # g
  <2>1. PICK i \in 1 .. n : q[i].from # g
    BY <1>3
  <2>2. i \in 1 .. n - 1
    <3>1. i # n
      BY <2>1, Pieces DEF Frame
    <3> QED
      BY <1>1, <3>1
  <2>3. PICK h \in Senders : q[i] = First(h)
    BY <2>2 DEF Frame
  <2>4. PieceInv(s, q, i, h)
    BY <1>1, <1>2
  <2> QED
    BY <2>3, <2>4 DEF PieceInv
<1>4. CASE \A i \in 1 .. n : q[i].from = g
  <2>1. \A i \in 1 .. n - 1 : q[i] = First(g)
    BY <1>1, <1>4 DEF Frame
  <2>2. n <= 2
    <3>1. ASSUME n > 2 PROVE FALSE
      <4>1. 1 \in 1 .. n - 1 /\ 2 \in 1 .. n - 1 /\ 1 \in 1 .. n /\ 2 \in 1 .. n
        BY <1>1, <3>1
      <4>2. q[1] = q[2]
        BY <2>1, <4>1
      <4> QED
        BY <1>1, <1>2, <4>1, <4>2 DEF Distinct
    <3> QED
      BY <1>1, <3>1
  <2>3. ASSUME n = 1, g \in Long PROVE FALSE
    <3>1. PieceInv(s, q, 1, g) /\ q[1] = Last(g)
      BY <1>1, <1>2, <2>3 DEF Frame
    <3>2. \E j \in 1 .. 1 - 1 : q[j] = First(g)
      BY <2>3, <3>1 DEF PieceInv
    <3> QED
      BY <3>2
  <2>4. ASSUME n = 2, g \notin Long PROVE FALSE
    <3>1. 1 \in DOMAIN q /\ q[1] = First(g)
      BY <1>1, <2>1, <2>4
    <3> QED
      BY <1>2, <2>4, <3>1 DEF PieceInv
  <2> QED
    BY <1>1, <1>4, <2>2, <2>3, <2>4 DEF Whole
<1> QED
  BY <1>3, <1>4

(* What stays in the pipes when a frame is read.                           *)
LEMMA RestOfPipe ==
    ASSUME StreamTypeOK, PipeInv, NEW s \in Streams, NEW n \in DOMAIN pipe[s],
           NEW g \in Senders, s \notin deaf, Frame(s, n, g),
           pipe' = [pipe EXCEPT ![s] = SubSeq(@, n + 1, Len(@))],
           \/ Whole(s, n, g) /\ read' = read \cup {g} /\ deaf' = deaf
           \/ deaf' = deaf \cup {s} /\ read' = read,
           UNCHANGED << pc, has >>
    PROVE  /\ PipeInv'
           /\ pipe' \in [Streams -> Seq(Piece)]
           /\ \A t \in Streams : t # s => pipe'[t] = pipe[t]
           /\ \A i \in DOMAIN pipe[s] : i > n =>
                \E j \in DOMAIN pipe'[s] : pipe'[s][j] = pipe[s][i]
<1> DEFINE q == pipe[s]
           m == Len(pipe[s])
           r == SubSeq(q, n + 1, m)
<1>1. q \in Seq(Piece)
  BY DEF StreamTypeOK
<1>2. /\ n \in Nat /\ n >= 1 /\ n <= m /\ m \in Nat /\ DOMAIN q = 1 .. m
      /\ r \in Seq(Piece) /\ DOMAIN r = 1 .. m - n
      /\ \A i \in 1 .. m - n : r[i] = q[n + i]
  BY <1>1, Cut
<1>3. /\ pipe' \in [Streams -> Seq(Piece)] /\ pipe'[s] = r
      /\ \A t \in Streams : t # s => pipe'[t] = pipe[t]
  BY <1>2 DEF StreamTypeOK
<1> HIDE DEF r, m
<1>4. \A t \in Streams :
        /\ Distinct(pipe[t])
        /\ \A i \in DOMAIN pipe[t], h \in Senders : PieceInv(t, pipe[t], i, h)
  BY PipeInvParts
<1>5. pc[g] = "sent" /\ has[g] = s /\ q[n] = Last(g)
  BY DEF Frame
<1>6. ASSUME NEW t \in Streams, NEW h \in Senders, NEW i \in DOMAIN pipe[t],
             pipe[t][i] = First(h), t = s => i > n
      PROVE  h \notin read'
  <2>1. PieceInv(t, pipe[t], i, h)
    BY <1>4
  <2>2. h \notin read
    BY <1>6, <2>1 DEF PieceInv
  <2>3. ASSUME Whole(s, n, g), h = g PROVE FALSE
    <3>1. t = s /\ g \in Long
      BY <1>5, <1>6, <2>1, <2>3 DEF PieceInv
    <3>2. n = 2
      BY <2>3, <3>1 DEF Whole
    <3>3. q[1] = First(g)
      <4>1. 1 \in 1 .. n - 1 /\ 1 \in 1 .. n
        BY <3>2
      <4> QED
        BY <2>3, <4>1 DEF Whole, Frame
    <3>4. 1 \in DOMAIN q /\ i \in DOMAIN q /\ q[i] = q[1]
      BY <1>2, <1>6, <2>3, <3>1, <3>3
    <3>5. i = 1
      BY <1>4, <3>4 DEF Distinct
    <3> QED
      BY <1>6, <3>1, <3>2, <3>5
  <2> QED
    BY <2>2, <2>3
<1>7. ASSUME NEW h \in Senders, NEW i \in 1 .. m - n
      PROVE  PieceInv(s, pipe[s], i, h)'
  <2>0. First(h)' = First(h) /\ Last(h)' = Last(h)
    BY DEF First, Last
  <2>1. n + i \in DOMAIN q /\ n + i > n /\ r[i] = q[n + i]
    BY <1>2
  <2>2. PieceInv(s, q, n + i, h)
    BY <1>4, <2>1
  <2>3. ASSUME r[i] = First(h)
        PROVE  /\ h \in Long /\ h \notin read' /\ pc[h] \notin {"start", "write"}
               /\ pc[h] \in {"rest", "sent"} => has[h] = s
    <3>1. h \notin read'
      BY <1>6, <2>1, <2>3
    <3> QED
      BY <2>1, <2>2, <2>3, <3>1 DEF PieceInv
  <2>4. ASSUME r[i] = Last(h)
        PROVE  pc[h] = "sent" /\ has[h] = s
    BY <2>1, <2>2, <2>4 DEF PieceInv
  <2>5. ASSUME r[i] = Last(h), h \in Long, s \notin deaf'
        PROVE  \E j \in 1 .. i - 1 : r[j] = First(h)
    <3>1. Whole(s, n, g)
      BY <2>5
    <3>2. PICK j \in 1 .. (n + i) - 1 : q[j] = First(h)
      BY <2>1, <2>2, <2>5 DEF PieceInv
    <3>3. h # g
      <4>1. ASSUME h = g PROVE FALSE
        <5>1. q[n + i] = q[n]
          BY <1>5, <2>1, <2>5, <4>1
        <5>2. n + i = n
          BY <1>4, <2>1, <5>1 DEF Distinct
        <5> QED
          BY <2>1, <5>2
      <4> QED
        BY <4>1
    <3>4. ~(j \in 1 .. n)
      <4>1. First(h).from = h
        BY Pieces
      <4> QED
        BY <3>1, <3>2, <3>3, <4>1 DEF Whole
    <3>5. j - n \in 1 .. i - 1 /\ j - n \in 1 .. m - n /\ n + (j - n) = j
      BY <1>2, <2>1, <3>4
    <3>6. r[j - n] = q[j]
      BY <1>2, <3>5
    <3> QED
      BY <3>2, <3>5, <3>6
  <2> QED
    BY <1>3, <2>0, <2>3, <2>4, <2>5 DEF PieceInv
<1>8. Distinct(r)
  <2> SUFFICES ASSUME NEW i \in 1 .. m - n, NEW j \in 1 .. m - n, r[i] = r[j]
               PROVE  i = j
    BY <1>2 DEF Distinct
  <2>1. /\ n + i \in DOMAIN q /\ n + j \in DOMAIN q
        /\ q[n + i] = q[n + j]
    BY <1>2
  <2>2. n + i = n + j
    BY <1>4, <2>1 DEF Distinct
  <2> QED
    BY <1>2, <2>2
<1>9. ASSUME NEW t \in Streams
      PROVE  /\ Distinct(pipe'[t])
             /\ \A i \in DOMAIN pipe'[t], h \in Senders :
                  PieceInv(t, pipe[t], i, h)'
  <2>1. CASE t = s
    <3>1. \A i \in DOMAIN pipe'[s], h \in Senders : PieceInv(s, pipe[s], i, h)'
      BY <1>2, <1>3, <1>7
    <3> QED
      BY <1>3, <1>8, <2>1, <3>1
  <2>2. CASE t # s
    <3>1. pipe'[t] = pipe[t]
      BY <1>3, <2>2
    <3>2. ASSUME NEW i \in DOMAIN pipe[t], NEW h \in Senders
          PROVE  PieceInv(t, pipe[t], i, h)'
      <4>1. PieceInv(t, pipe[t], i, h)
        BY <1>4
      <4>2. First(h)' = First(h) /\ Last(h)' = Last(h)
        BY DEF First, Last
      <4>3. t \in deaf => t \in deaf'
        OBVIOUS
      <4>4. pipe[t][i] = First(h) => h \notin read'
        BY <1>6, <2>2
      <4> QED
        BY <3>1, <4>1, <4>2, <4>3, <4>4 DEF PieceInv
    <3> QED
      BY <1>4, <3>1, <3>2
  <2> QED
    BY <2>1, <2>2
<1>10. ASSUME NEW i \in DOMAIN q, i > n
       PROVE  \E j \in DOMAIN r : r[j] = q[i]
  <2>1. i - n \in 1 .. m - n /\ n + (i - n) = i
    BY <1>2, <1>10
  <2> QED
    BY <1>2, <2>1
<1> QED
  BY <1>3, <1>9, <1>10, PipeInvParts

(* ReadStream either processes a message as it was sent, or stops for good *)
(* at one that was cut into.                                               *)
LEMMA ReadStreamPreserves ==
    ASSUME StreamsInv, NEW s \in Streams, ReadStream(s)
    PROVE  /\ StreamsInv'
           /\ UNCHANGED vars \/ \E t \in Topic : ProcessMessage(t)
<1>1. /\ StreamTypeOK /\ PipeInv /\ OpenedInv /\ NoStreamLeaks
      /\ DeafInv /\ FaultsInv /\ \A h \in Senders : OwnInv(h)
  BY StreamsInvParts
<1>2. /\ s \notin deaf
      /\ UNCHANGED << pc, has, text, streamsByPeer, stream, faults >>
  BY DEF ReadStream
<1>3. PICK n \in DOMAIN pipe[s] :
        LET frame == SubSeq(pipe[s], 1, n)
            g == frame[n].from
        IN  /\ \A i \in 1 .. n : frame[i].last <=> i = n
            /\ pipe' = [pipe EXCEPT ![s] = SubSeq(@, n + 1, Len(@))]
            /\ \/ /\ Intact(frame)
                  /\ ProcessMessage(text[g])
                  /\ read' = read \cup {g}
                  /\ UNCHANGED deaf
               \/ /\ ~Intact(frame)
                  /\ deaf' = deaf \cup {s}
                  /\ UNCHANGED << vars, read >>
  BY Zenon DEF ReadStream
<1>4. PICK g \in Senders :
        /\ g = SubSeq(pipe[s], 1, n)[n].from
        /\ Frame(s, n, g)
        /\ Intact(SubSeq(pipe[s], 1, n)) <=> Whole(s, n, g)
  BY <1>1, <1>3, FrameRead
<1>5. \/ /\ Whole(s, n, g) /\ ProcessMessage(text[g])
         /\ read' = read \cup {g} /\ deaf' = deaf
      \/ /\ ~Whole(s, n, g) /\ UNCHANGED vars
         /\ deaf' = deaf \cup {s} /\ read' = read
  BY <1>3, <1>4
<1>6. /\ PipeInv'
      /\ pipe' \in [Streams -> Seq(Piece)]
      /\ \A t \in Streams : t # s => pipe'[t] = pipe[t]
      /\ \A i \in DOMAIN pipe[s] : i > n =>
           \E j \in DOMAIN pipe'[s] : pipe'[s][j] = pipe[s][i]
  <2>1. pipe' = [pipe EXCEPT ![s] = SubSeq(@, n + 1, Len(@))]
    BY <1>3
  <2>2. \/ Whole(s, n, g) /\ read' = read \cup {g} /\ deaf' = deaf
        \/ deaf' = deaf \cup {s} /\ read' = read
    BY <1>5
  <2>3. UNCHANGED << pc, has >> /\ Frame(s, n, g) /\ s \notin deaf
    BY <1>2, <1>4
  <2> QED
    BY <1>1, <2>1, <2>2, <2>3, RestOfPipe
<1>7. UNCHANGED vars \/ \E t \in Topic : ProcessMessage(t)
  <2>1. text[g] \in Topic
    BY <1>1 DEF StreamTypeOK
  <2> QED
    BY <1>5, <2>1
<1>8. StreamTypeOK'
  BY <1>1, <1>2, <1>5, <1>6 DEF StreamTypeOK
<1>9. OpenedInv'
  BY <1>1, <1>2, CountStays
<1>10. NoStreamLeaks' /\ FaultsInv'
  BY <1>1, <1>2 DEF NoStreamLeaks, FaultsInv
<1>11. pc[g] = "sent" /\ has[g] = s
  BY <1>4 DEF Frame
<1>12. DeafInv'
  <2>1. CASE Whole(s, n, g) /\ read' = read \cup {g} /\ deaf' = deaf
    BY <1>1, <1>2, <1>11, <2>1 DEF DeafInv
  <2>2. CASE ~Whole(s, n, g) /\ deaf' = deaf \cup {s} /\ read' = read
    <3>1. PICK h \in Long : /\ h \notin read /\ pc[h] \notin {"start", "write"}
                            /\ pc[h] \in {"rest", "sent"} => has[h] = s
      BY <1>1, <1>2, <1>4, <2>2, CutFrame
    <3> QED
      BY <1>2, <2>2, <3>1 DEF DeafInv
  <2> QED
    BY <1>5, <2>1, <2>2
<1>13. ASSUME NEW h \in Senders PROVE OwnInv(h)'
  <2>0. First(h)' = First(h) /\ First(h).from = h
    BY Pieces DEF First
  <2>1. OwnInv(h)
    BY <1>1
  <2>2. /\ has[h] \notin deaf' => has[h] \notin deaf
        /\ has[h] \in deaf => has[h] \in deaf'
        /\ h \in read => h \in read'
        /\ h \in read' => pc[h] = "sent"
    BY <1>5, <1>11, <2>1 DEF OwnInv
  <2>3. CASE has[h] # s
    <3>1. CASE pc[h] \in {"write", "rest", "failed", "closing", "sent"}
      <4>1. pipe'[has[h]] = pipe[has[h]]
        BY <1>1, <1>6, <2>3, <3>1, HasStream
      <4> QED
        BY <1>2, <2>0, <2>1, <2>2, <4>1 DEF OwnInv
    <3>2. CASE pc[h] \notin {"write", "rest", "failed", "closing", "sent"}
      BY <1>2, <2>1, <2>2, <3>2 DEF OwnInv
    <3> QED
      BY <3>1, <3>2
  <2>4. CASE has[h] = s /\ deaf' = deaf \cup {s}
    BY <1>2, <2>1, <2>2, <2>4 DEF OwnInv
  <2>5. CASE has[h] = s /\ Whole(s, n, g) /\ read' = read \cup {g}
    <3>0. /\ n \in Nat /\ DOMAIN pipe[s] \subseteq Nat
          /\ DOMAIN pipe[s] = 1 .. Len(pipe[s])
      BY <1>1, Cut DEF StreamTypeOK
    <3>1. ASSUME NEW i \in DOMAIN pipe[s], pipe[s][i].from = h, h # g
          PROVE  \E j \in DOMAIN pipe'[s] : pipe'[s][j] = pipe[s][i]
      <4>1. ~(i \in 1 .. n)
        BY <2>5, <3>1 DEF Whole
      <4>2. i > n
        BY <3>0, <4>1
      <4> QED
        BY <1>6, <4>2
    <3>2. pc[h] = "rest" => h # g
      BY <1>11
    <3>3. ASSUME pc[h] = "rest", stream[s] = "open", s \notin deaf'
          PROVE  \E j \in DOMAIN pipe'[s] : pipe'[s][j] = First(h)
      <4>1. PICK i \in DOMAIN pipe[s] : pipe[s][i] = First(h)
        BY <2>1, <2>2, <2>5, <3>3 DEF OwnInv
      <4> QED
        BY <2>0, <3>1, <3>2, <3>3, <4>1
    <3>4. ASSUME pc[h] = "sent", h \notin read', stream[s] # "reset",
                 s \notin deaf'
          PROVE  \E j \in DOMAIN pipe'[s] : pipe'[s][j].from = h
      <4>1. PICK i \in DOMAIN pipe[s] : pipe[s][i].from = h
        BY <2>1, <2>2, <2>5, <3>4 DEF OwnInv
      <4>2. h # g
        BY <2>5, <3>4
      <4> QED
        BY <3>1, <4>1, <4>2
    <3> QED
      BY <1>2, <2>0, <2>1, <2>2, <2>5, <3>3, <3>4 DEF OwnInv
  <2> QED
    BY <1>5, <2>3, <2>4, <2>5
<1> QED
  BY <1>6, <1>7, <1>8, <1>9, <1>10, <1>12, <1>13, StreamsInvPartsNext

-----------------------------------------------------------------------------
(* The theorems.                                                           *)

(* Nothing but a step of the streams changes what their invariant is about. *)
LEMMA StreamsStay ==
    ASSUME StreamsInv, UNCHANGED streamVars
    PROVE  StreamsInv'
BY DEF StreamsInv, StreamTypeOK, PipeInv, SenderInv, OpenedInv, NoStreamLeaks,
   SentIsNotLost, ErrorsNeedFaults, streamVars, First, Last

(* Initially there is no stream, and nobody has sent anything.             *)
LEMMA CommInitInv == CommInit => StreamsInv
<1> SUFFICES ASSUME CommInit PROVE StreamsInv
  OBVIOUS
<1>1. StreamTypeOK
  <2>1. << >> \in Seq(Piece)
    OBVIOUS
  <2> QED
    BY <2>1 DEF CommInit, StreamTypeOK
<1>2. PipeInv
  BY DEF CommInit, PipeInv
<1>3. OpenedInv
  <2>1. Opened = {} /\ Started = {}
    BY DEF CommInit, Opened, Started
  <2>2. Cardinality({}) = 0
    BY FS_EmptySet
  <2> QED
    BY <2>1, <2>2 DEF OpenedInv, Opened, Started
<1>4. NoStreamLeaks /\ DeafInv /\ FaultsInv
  BY DEF CommInit, NoStreamLeaks, DeafInv, FaultsInv
<1>5. \A g \in Senders : OwnInv(g)
  BY DEF CommInit, OwnInv
<1> QED
  BY <1>1, <1>2, <1>3, <1>4, <1>5, StreamsInvParts

(* Every step keeps the invariant of the streams, and is a step of the     *)
(* receiver's subscriptions or one they do not notice.                     *)
LEMMA CommStep ==
    ASSUME StreamsInv, [CommNext]_commVars
    PROVE  StreamsInv' /\ [Next]_vars
<1>1. ASSUME NEW g \in Senders,
             \/ Stream(g) \/ StreamFails(g) \/ WriteStream(g)
             \/ CloseStream(g) \/ Close(g)
      PROVE  StreamsInv' /\ UNCHANGED vars
  <2>1. UNCHANGED vars
    BY <1>1 DEF Stream, StreamFails, WriteStream, Write, CloseStream, Close
  <2>2. StreamsInv'
    BY <1>1, StreamPreserves, StreamFailsPreserves, WriteStreamPreserves,
       CloseStreamPreserves, ClosePreserves
  <2> QED
    BY <2>1, <2>2
<1>2. ASSUME NEW s \in Streams, ReadStream(s)
      PROVE  StreamsInv' /\ [Next]_vars
  BY <1>2, ReadStreamPreserves DEF Next
<1>3. ASSUME NEW s \in Streams, Reset(s)
      PROVE  StreamsInv' /\ UNCHANGED vars
  <2>1. UNCHANGED vars
    BY <1>3 DEF Reset
  <2> QED
    BY <1>3, <2>1, ResetPreserves
<1>4. CASE Subscriber
  <2>1. UNCHANGED streamVars /\ Next
    BY <1>4 DEF Subscriber, Next
  <2> QED
    BY <2>1, StreamsStay
<1>5. CASE UNCHANGED commVars
  BY <1>5, StreamsStay DEF commVars
<1> QED
  BY <1>1, <1>2, <1>3, <1>4, <1>5 DEF CommNext

(* The invariant of the streams holds, whatever the goroutines, the        *)
(* network and the receiver do in between (Stream, CloseStream,            *)
(* sendMessage, ProcessMessagesFromStream).                                *)
THEOREM StreamsInvariant == CommSpec => []StreamsInv
<1>1. StreamsInv /\ [CommNext]_commVars => StreamsInv'
  BY CommStep
<1> QED
  BY CommInitInv, <1>1, PTL DEF CommSpec

(* No stream is forgotten and none is handed out after it was closed       *)
(* (Stream, CloseStream).                                                  *)
THEOREM StreamsAreKept == CommSpec => []NoStreamLeaks
BY StreamsInvariant, PTL DEF StreamsInv

(* A message whose sendMessage returned no error is processed or on its    *)
(* way, unless its stream broke or a long message was cut into.            *)
THEOREM MessagesAreKept == CommSpec => []SentIsNotLost
BY StreamsInvariant, PTL DEF StreamsInv

(* sendMessage returns an error only after a connection has failed.        *)
THEOREM ErrorsAreFaults == CommSpec => []ErrorsNeedFaults
BY StreamsInvariant, PTL DEF StreamsInv

(* Whatever the streams do, the receiver's subscriptions behave as in      *)
(* Subscriptions: the composition refines the component                    *)
(* (ProcessMessagesFromStream, SubscribeTo, UnSubscribeFrom).              *)
THEOREM StreamsFeedSubscriptions == CommSpec => Spec
<1>1. CommInit => Init
  BY DEF CommInit
<1>2. StreamsInv /\ [CommNext]_commVars => [Next]_vars
  BY CommStep
<1> QED
  BY StreamsInvariant, <1>1, <1>2, PTL DEF CommSpec, Spec

(* So over these streams, too, the last subscriber of a session with a     *)
(* dash is handed every message and nobody else any, and in a session      *)
(* without one everybody is handed what arrives while subscribed.          *)
THEOREM DeliveryOverStreams == CommSpec => [](ExactDelivery /\ LatestDelivery)
BY StreamsFeedSubscriptions, DeliveryIsExact, DeliveryIsToTheLatest, PTL

================================================================================
