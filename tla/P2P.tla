-------------------------------- MODULE P2P ---------------------------------
(***************************************************************************)
(* Messages from one relayer to another: comm/p2p/libp2p.go on top of      *)
(* comm/p2p/manager.go, into the subscriptions of the receiver.            *)
(*                                                                         *)
(* Every Broadcast runs a goroutine per peer that takes the peer's stream  *)
(* from the stream manager, writes its message without holding a lock, and *)
(* closes "the peer's stream" when the write fails: the one that is in the *)
(* map by then, which another goroutine may have opened since.  The        *)
(* receiver reads the frames of a stream, up to a newline each, in order.  *)
(*                                                                         *)
(* libp2p is external: a write fails on a stream that was closed here or   *)
(* reset, and a reset loses what was written and not yet read, while a     *)
(* close does not.  A write longer than one frame of the multiplexer goes  *)
(* out in pieces, and those of another goroutine's write may come between. *)
(* Nobody tells the sender that the receiver has stopped reading.          *)
(***************************************************************************)
EXTENDS Subscriptions, Sequences

CONSTANTS
    Senders,    \* goroutines in sendMessage, one message each
    Long,       \* those whose message is longer than a multiplexer frame
    MaxFaults   \* bound: resets and failing dials

ASSUME SendersAssumption == IsFiniteSet(Senders) /\ Long \subseteq Senders

ASSUME MaxFaultsAssumption == MaxFaults \in Nat

VARIABLES
    pc,             \* pc[g]: where sendMessage is
    has,            \* has[g]: the stream it uses, 0 if none yet
    text,           \* text[g]: session and type of its message
    streamsByPeer,  \* the stream in the map, 0 if there is none
    stream,         \* stream[s]: state of the stream opened s-th
    pipe,           \* pipe[s]: what is written and yet to be read
    deaf,           \* streams whose StreamHandlerFunc has returned
    read,           \* senders whose messages the receiver has processed
    faults          \* resets and failed dials so far

streamVars == << pc, has, text, streamsByPeer, stream, pipe, deaf, read, faults >>
commVars == << vars, streamVars >>

(* A piece of a sender's message; the last one ends with the newline.      *)
Piece == [from : Senders, last : BOOLEAN]

(* Each sender opens at most one stream.                                   *)
Streams == 1 .. Cardinality(Senders)

StreamTypeOK ==
    /\ pc \in [Senders -> {"start", "write", "rest", "failed", "closing", "sent",
                         "error"}]
    /\ has \in [Senders -> Streams \cup {0}]
    /\ text \in [Senders -> Topic]
    /\ streamsByPeer \in Streams \cup {0}
    /\ stream \in [Streams -> {"none", "open", "closed", "reset"}]
    /\ pipe \in [Streams -> Seq(Piece)]
    /\ deaf \subseteq Streams
    /\ read \subseteq Senders
    /\ faults \in 0 .. MaxFaults

CommInit ==
    /\ Init
    /\ pc = [g \in Senders |-> "start"]
    /\ has = [g \in Senders |-> 0]
    /\ text \in [Senders -> Topic]
    /\ streamsByPeer = 0
    /\ stream = [s \in Streams |-> "none"]
    /\ pipe = [s \in Streams |-> << >>]
    /\ deaf = {}
    /\ read = {}
    /\ faults = 0

-----------------------------------------------------------------------------
(* Mutant: the map is not looked at.                                       *)
StreamAnew(g) ==
    LET s == CHOOSE n \in Streams :
               stream[n] = "none" /\ \A m \in 1 .. n - 1 : stream[m] # "none"
    IN  /\ pc[g] = "start"
        /\ stream' = [stream EXCEPT ![s] = "open"]
        /\ streamsByPeer' = s
        /\ has' = [has EXCEPT ![g] = s]
        /\ pc' = [pc EXCEPT ![g] = "write"]
        /\ UNCHANGED << vars, text, pipe, deaf, read, faults >>

(* StreamManager.Stream: the peer's stream, opened if there is none, all   *)
(* under the lock.                                                         *)
Stream(g) ==
    LET s == IF streamsByPeer # 0 THEN streamsByPeer ELSE
               CHOOSE n \in Streams :
                 stream[n] = "none" /\ \A m \in 1 .. n - 1 : stream[m] # "none"
    IN  /\ pc[g] = "start"
        /\ stream' = IF streamsByPeer # 0 THEN stream
                     ELSE [stream EXCEPT ![s] = "open"]
        /\ streamsByPeer' = s
        /\ has' = [has EXCEPT ![g] = s]
        /\ pc' = [pc EXCEPT ![g] = "write"]
        /\ UNCHANGED << vars, text, pipe, deaf, read, faults >>

(* resolveDNS or NewStream fails: sendMessage returns the error.           *)
StreamFails(g) ==
    /\ pc[g] = "start" /\ faults < MaxFaults
    /\ faults' = faults + 1
    /\ pc' = [pc EXCEPT ![g] = "error"]
    /\ UNCHANGED << vars, has, text, streamsByPeer, stream, pipe, deaf, read >>

(* The next piece of g's message goes out, or the write fails.             *)
Write(g, last, next) ==
    /\ IF stream[has[g]] = "open"
         THEN /\ pipe' = [pipe EXCEPT ![has[g]] =
                            Append(@, [from |-> g, last |-> last])]
              /\ pc' = [pc EXCEPT ![g] = next]
         ELSE /\ pc' = [pc EXCEPT ![g] = "failed"]
              /\ UNCHANGED pipe
    /\ UNCHANGED << vars, has, text, streamsByPeer, stream, deaf, read, faults >>

(* Mutant: the stream is closed after every message.                       *)
WriteStreamOnce(g) ==
    \/ pc[g] = "write" /\ g \in Long /\ Write(g, FALSE, "rest")
    \/ pc[g] = "write" /\ g \notin Long /\ Write(g, TRUE, "failed")
    \/ pc[g] = "rest" /\ Write(g, TRUE, "failed")

(* WriteStream, without the lock.                                          *)
WriteStream(g) ==
    \/ pc[g] = "write" /\ g \in Long /\ Write(g, FALSE, "rest")
    \/ pc[g] = "write" /\ g \notin Long /\ Write(g, TRUE, "sent")
    \/ pc[g] = "rest" /\ Write(g, TRUE, "sent")

(* StreamManager.CloseStream, under the lock: whatever stream is in the    *)
(* map leaves it.                                                          *)
CloseStream(g) ==
    /\ pc[g] = "failed"
    /\ streamsByPeer' = 0
    /\ IF streamsByPeer = 0
         THEN pc' = [pc EXCEPT ![g] = "error"] /\ UNCHANGED has
         ELSE /\ pc' = [pc EXCEPT ![g] = "closing"]
              /\ has' = [has EXCEPT ![g] = streamsByPeer]
    /\ UNCHANGED << vars, text, stream, pipe, deaf, read, faults >>

(* Mutant: the stream is reset, not closed.                                *)
CloseByReset(g) ==
    /\ pc[g] = "closing"
    /\ stream' = [stream EXCEPT ![has[g]] = "closed"]
    /\ pipe' = [pipe EXCEPT ![has[g]] = << >>]
    /\ pc' = [pc EXCEPT ![g] = "error"]
    /\ UNCHANGED << vars, has, text, streamsByPeer, deaf, read, faults >>

(* stream.Close, once the lock is released.                                *)
Close(g) ==
    /\ pc[g] = "closing"
    /\ stream' = [stream EXCEPT ![has[g]] = IF @ = "open" THEN "closed" ELSE @]
    /\ pc' = [pc EXCEPT ![g] = "error"]
    /\ UNCHANGED << vars, has, text, streamsByPeer, pipe, deaf, read, faults >>

(* The pieces up to the next newline are those of one message.             *)
Intact(frame) ==
    LET g == frame[Len(frame)].from
    IN  /\ \A i \in DOMAIN frame : frame[i].from = g
        /\ Len(frame) = IF g \in Long THEN 2 ELSE 1

(* ProcessMessagesFromStream, for the next frame of the stream; one that   *)
(* cannot be unmarshalled ends it.                                         *)
ReadStream(s) ==
    /\ s \notin deaf
    /\ \E n \in DOMAIN pipe[s] :
         LET frame == SubSeq(pipe[s], 1, n)
             g == frame[n].from
         IN  /\ \A i \in 1 .. n : frame[i].last <=> i = n
             /\ pipe' = [pipe EXCEPT ![s] = SubSeq(@, n + 1, Len(@))]
             /\ \/ /\ Intact(frame)
                   /\ ProcessMessage(text[g])
                   /\ read' = read \cup {g}
                   /\ UNCHANGED deaf
                \/ /\ ~Intact(frame)
                   /\ deaf' = deaf \cup {s}
                   /\ UNCHANGED << vars, read >>
    /\ UNCHANGED << pc, has, text, streamsByPeer, stream, faults >>

(* The connection breaks, or the receiver restarts.                        *)
Reset(s) ==
    /\ stream[s] \in {"open", "closed"} /\ faults < MaxFaults
    /\ faults' = faults + 1
    /\ stream' = [stream EXCEPT ![s] = "reset"]
    /\ pipe' = [pipe EXCEPT ![s] = << >>]
    /\ UNCHANGED << vars, pc, has, text, streamsByPeer, deaf, read >>

(* The receiver's subscribers.                                             *)
Subscriber ==
    /\ \/ \E c \in Channels : SubscribeTo(c) \/ UnSubscribeFrom(c)
       \/ \E g \in sending : Receive(g[1], g[2])
    /\ UNCHANGED streamVars

CommNext ==
    \/ \E g \in Senders :
         \/ Stream(g) \/ StreamFails(g) \/ WriteStream(g)
         \/ CloseStream(g) \/ Close(g)
    \/ \E s \in Streams : ReadStream(s) \/ Reset(s)
    \/ Subscriber

CommSpec == CommInit /\ [][CommNext]_commVars

-----------------------------------------------------------------------------
(* Properties.                                                             *)

(* No stream is forgotten: one that is open is in the map or about to be   *)
(* closed, and one that was closed is never handed out again, although a   *)
(* goroutine may close a stream it has not used (Stream, CloseStream).     *)
NoStreamLeaks ==
    /\ \A s \in Streams : stream[s] = "open" =>
         s = streamsByPeer \/ \E g \in Senders : pc[g] = "closing" /\ has[g] = s
    /\ streamsByPeer # 0 => stream[streamsByPeer] \in {"open", "reset"}

(* A message is lost only with its stream: when sendMessage returned no    *)
(* error, the message is processed by the receiver or still on its way,    *)
(* also if another goroutine has closed the stream since; the receiver     *)
(* only stops reading after a long message that another one cut into, and  *)
(* processes none that was not sent (WriteStream, CloseStream, ReadStream). *)
SentIsNotLost ==
    /\ \A g \in Senders : pc[g] = "sent" =>
         \/ g \in read
         \/ \E i \in DOMAIN pipe[has[g]] : pipe[has[g]][i].from = g
         \/ stream[has[g]] = "reset"
         \/ has[g] \in deaf
    /\ deaf # {} => \E g \in Long : g \notin read /\ pc[g] # "start"
    /\ \A g \in read : pc[g] = "sent"

(* sendMessage reports an error only after a connection has failed: the    *)
(* goroutines do not close a working stream under each other's hands       *)
(* before one has (CloseStream closes what is in the map).                 *)
ErrorsNeedFaults ==
    \A g \in Senders : pc[g] \in {"failed", "closing", "error"} => faults > 0

(* The pieces of a sender's message that may be on their way.              *)
First(g) == [from |-> g, last |-> FALSE]
Last(g) == [from |-> g, last |-> TRUE]

(* No piece is in a pipe twice.  Last pieces come from senders that are    *)
(* done, over the stream they had, after their first ones; first pieces    *)
(* of messages that nobody can have read yet.                              *)
PipeInv ==
    \A s \in Streams :
        /\ \A i, j \in DOMAIN pipe[s] : pipe[s][i] = pipe[s][j] => i = j
        /\ \A i \in DOMAIN pipe[s], g \in Senders :
             /\ pipe[s][i] = Last(g) =>
                  /\ pc[g] = "sent" /\ has[g] = s
                  /\ g \in Long /\ s \notin deaf =>
                       \E j \in 1 .. i - 1 : pipe[s][j] = First(g)
             /\ pipe[s][i] = First(g) =>
                  /\ g \in Long /\ g \notin read /\ pc[g] \notin {"start", "write"}
                  /\ pc[g] \in {"rest", "sent"} => has[g] = s

(* A sender has a stream that was opened, and the first piece of a long    *)
(* message waits there for the rest.                                       *)
SenderInv ==
    /\ \A g \in Senders :
         /\ pc[g] \in {"write", "rest", "failed", "closing", "sent"} =>
              has[g] # 0 /\ stream[has[g]] # "none"
         /\ pc[g] = "closing" => has[g] # streamsByPeer
         /\ pc[g] = "rest" => g \in Long
         /\ pc[g] = "rest" /\ stream[has[g]] = "open" /\ has[g] \notin deaf =>
              \E i \in DOMAIN pipe[has[g]] : pipe[has[g]][i] = First(g)
    /\ (\E s \in Streams : stream[s] \in {"closed", "reset"}) => faults > 0
    /\ deaf # {} => \E g \in Long :
         /\ g \notin read /\ pc[g] \notin {"start", "write"}
         /\ pc[g] \in {"rest", "sent"} => has[g] \in deaf

(* Each sender has opened at most one stream.                              *)
OpenedInv ==
    Cardinality({ s \in Streams : stream[s] # "none" })
      <= Cardinality({ g \in Senders : pc[g] # "start" })

(* The inductive invariant of the streams between two relayers (Stream,    *)
(* CloseStream, sendMessage, ProcessMessagesFromStream).                   *)
StreamsInv ==
    /\ StreamTypeOK
    /\ PipeInv
    /\ SenderInv
    /\ OpenedInv
    /\ NoStreamLeaks
    /\ SentIsNotLost
    /\ ErrorsNeedFaults

=============================================================================
