---------------------------- MODULE Subscriptions ----------------------------
(***************************************************************************)
(* How a relayer hands incoming messages to its subscribers:               *)
(* comm/p2p/subscription.go, comm/subID.go and the reader of               *)
(* comm/p2p/libp2p.go.                                                     *)
(*                                                                         *)
(* A subscription's identifier is a string, session-type-time, that is     *)
(* taken apart again at its dashes.  A session id that contains a dash     *)
(* itself (chain-deposit, keygen-block, chain-across) cannot be recovered: *)
(* every such subscription is filed under the empty key, and its           *)
(* UnSubscribe does nothing.                                               *)
(***************************************************************************)
EXTENDS Integers, FiniteSets

CONSTANTS
    Sessions,   \* session ids
    Dashed,     \* session ids with a dash in them
    Types,      \* message types
    Channels,   \* one channel for each subscription
    MaxMessages \* bound: incoming messages

ASSUME DashedAssumption == Dashed \subseteq Sessions

ASSUME MaxMessagesAssumption == MaxMessages \in Nat

VARIABLES
    now,            \* the clock behind time.Now().UnixNano()
    subscribersMap, \* session -> type -> key -> channel, as a set of entries
    topic,          \* topic[c]: session and type c was subscribed to
    opened,         \* opened[c]: when c was subscribed, 0 if never
    closed,         \* closed[c]: when c was unsubscribed, 0 if it was not
    arrived,        \* messages read from the streams so far
    sending,        \* goroutines blocked in "sub <- &wrappedMsg"
    received        \* received[c]: what the owner of c has taken from it

vars == << now, subscribersMap, topic, opened, closed, arrived, sending,
           received >>

Topic == Sessions \X Types

(* The key under which a subscription is filed; "" is written 0.           *)
Entry == [topic : Topic, key : Nat, chan : Channels]

Message == [topic : Topic, at : Nat]

TypeOK ==
    /\ now \in Nat
    /\ subscribersMap \subseteq Entry
    /\ topic \in [Channels -> Topic]
    /\ opened \in [Channels -> Nat]
    /\ closed \in [Channels -> Nat]
    /\ arrived \subseteq Message
    /\ sending \subseteq Channels \X Message
    /\ received \in [Channels -> SUBSET Message]

Init ==
    /\ now = 0
    /\ subscribersMap = {}
    /\ topic \in [Channels -> Topic]
    /\ opened = [c \in Channels |-> 0]
    /\ closed = [c \in Channels |-> 0]
    /\ arrived = {}
    /\ sending = {}
    /\ received = [c \in Channels |-> {}]

-----------------------------------------------------------------------------
(* SubscriptionID.Unwrap wants exactly three parts between the dashes.     *)
Unwraps(t) == t[1] \notin Dashed

(* Mutant: the identifier is the same for every subscription.              *)
SubscriptionIdentifierConstant(t, time) == 0

(* SubscriptionIdentifier: the third part, or "" if there are not three.   *)
SubscriptionIdentifier(t, time) == IF Unwraps(t) THEN time ELSE 0

GetSubscribers(t) == { e.chan : e \in { f \in subscribersMap : f.topic = t } }

(* SubscribeTo: the entry with the same key, if any, is overwritten.       *)
SubscribeTo(c) ==
    LET t   == topic[c]
        key == SubscriptionIdentifier(t, now + 1)
    IN  /\ opened[c] = 0
        /\ now' = now + 1
        /\ opened' = [opened EXCEPT ![c] = now + 1]
        /\ subscribersMap' =
             { e \in subscribersMap : e.topic # t \/ e.key # key }
               \cup { [topic |-> t, key |-> key, chan |-> c] }
        /\ UNCHANGED << topic, closed, arrived, sending, received >>

(* Mutant: the identifier's parse error is ignored.                        *)
UnSubscribeFromIgnoringError(c) ==
    /\ opened[c] > 0 /\ closed[c] = 0
    /\ now' = now + 1
    /\ closed' = [closed EXCEPT ![c] = now + 1]
    /\ subscribersMap' =
         { e \in subscribersMap :
             \/ e.topic # topic[c]
             \/ e.key # SubscriptionIdentifier(topic[c], opened[c]) }
    /\ UNCHANGED << topic, opened, arrived, sending, received >>

(* Mutant: the entry stays in the map.                                     *)
UnSubscribeFromKeeping(c) ==
    /\ opened[c] > 0 /\ closed[c] = 0
    /\ now' = now + 1
    /\ closed' = [closed EXCEPT ![c] = now + 1]
    /\ UNCHANGED << subscribersMap, topic, opened, arrived, sending, received >>

(* UnSubscribeFrom: returns early if the identifier cannot be taken apart. *)
UnSubscribeFrom(c) ==
    /\ opened[c] > 0 /\ closed[c] = 0
    /\ now' = now + 1
    /\ closed' = [closed EXCEPT ![c] = now + 1]
    /\ subscribersMap' =
         IF Unwraps(topic[c])
           THEN { e \in subscribersMap :
                    e.topic # topic[c] \/ e.key # opened[c] }
           ELSE subscribersMap
    /\ UNCHANGED << topic, opened, arrived, sending, received >>

(* ProcessMessagesFromStream: one goroutine for each subscriber.           *)
ProcessMessage(t) ==
    LET m == [topic |-> t, at |-> now + 1]
    IN  /\ Cardinality(arrived) < MaxMessages
        /\ now' = now + 1
        /\ arrived' = arrived \cup {m}
        /\ sending' = sending \cup (GetSubscribers(t) \X {m})
        /\ UNCHANGED << subscribersMap, topic, opened, closed, received >>

(* The owner of c is in its select loop and takes a message.  When the     *)
(* owner has left its loop nobody does, and the goroutine stays blocked.   *)
Receive(c, m) ==
    /\ << c, m >> \in sending
    /\ sending' = sending \ {<< c, m >>}
    /\ received' = [received EXCEPT ![c] = @ \cup {m}]
    /\ UNCHANGED << now, subscribersMap, topic, opened, closed, arrived >>

Next ==
    \/ \E c \in Channels : SubscribeTo(c) \/ UnSubscribeFrom(c)
    \/ \E t \in Topic : ProcessMessage(t)
    \/ \E g \in sending : Receive(g[1], g[2])

Spec == Init /\ [][Next]_vars

-----------------------------------------------------------------------------
(* Properties.                                                             *)

(* What c has been handed so far.                                          *)
Handed(c) == received[c] \cup { m \in arrived : << c, m >> \in sending }

(* c was subscribed when m arrived.                                        *)
Listening(c, m) ==
    /\ 0 < opened[c] /\ opened[c] < m.at
    /\ closed[c] = 0 \/ m.at < closed[c]

(* c was the last channel subscribed to its topic before m arrived.        *)
Latest(c, m) ==
    /\ 0 < opened[c] /\ opened[c] < m.at
    /\ \A d \in Channels :
         topic[d] = topic[c] /\ opened[d] < m.at => opened[d] <= opened[c]

(* In a session without a dash a subscriber is handed exactly the messages *)
(* that arrive between its Subscribe and its UnSubscribe, whoever else     *)
(* subscribes to or unsubscribes from the same topic in between            *)
(* (SubscribeTo, UnSubscribeFrom, ProcessMessagesFromStream).              *)
ExactDelivery ==
    \A c \in Channels, m \in arrived :
        topic[c] = m.topic /\ Unwraps(m.topic) =>
            (m \in Handed(c) <=> Listening(c, m))

(* In a session with a dash, which every tss session is, a message goes to *)
(* the channel that was subscribed last and to no other, whether its owner *)
(* has unsubscribed since or not (SubscriptionIdentifier, SubscribeTo).    *)
LatestDelivery ==
    \A c \in Channels, m \in arrived :
        topic[c] = m.topic /\ ~Unwraps(m.topic) =>
            (m \in Handed(c) <=> Latest(c, m))

(* The documentation of UnSubscribe: it ends the subscription that the     *)
(* identifier stands for.                                                  *)
UnsubscribedIsGone ==
    \A c \in Channels : closed[c] > 0 => c \notin GetSubscribers(topic[c])

-----------------------------------------------------------------------------
(* What makes them inductive: the clock is ahead of everything, and the    *)
(* map files each subscription under the key of its channel.               *)

ClockInv ==
    /\ \A c \in Channels : opened[c] <= now /\ closed[c] <= now
    /\ \A c, d \in Channels : opened[c] > 0 /\ opened[c] = opened[d] => c = d
    /\ \A m \in arrived : m.at <= now
    /\ \A c \in Channels : closed[c] > 0 => opened[c] > 0

MapInv ==
    /\ \A e \in subscribersMap :
        /\ opened[e.chan] > 0
        /\ e.topic = topic[e.chan]
        /\ e.key = SubscriptionIdentifier(e.topic, opened[e.chan])
        /\ Unwraps(e.topic) => closed[e.chan] = 0
        /\ ~Unwraps(e.topic) => \A d \in Channels :
             topic[d] = e.topic => opened[d] <= opened[e.chan]
    /\ \A c \in Channels : opened[c] > 0 =>
        /\ Unwraps(topic[c]) /\ closed[c] = 0 => c \in GetSubscribers(topic[c])
        /\ ~Unwraps(topic[c]) => GetSubscribers(topic[c]) # {}

HandedInv ==
    /\ \A c \in Channels : received[c] \subseteq arrived
    /\ sending \subseteq Channels \X arrived

(* The inductive invariant of the subscription manager (SubscribeTo,       *)
(* UnSubscribeFrom, GetSubscribers).                                       *)
SubscriptionsInv ==
    /\ TypeOK
    /\ ClockInv
    /\ MapInv
    /\ HandedInv
    /\ ExactDelivery
    /\ LatestDelivery

=============================================================================
