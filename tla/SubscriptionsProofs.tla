-------------------------- MODULE SubscriptionsProofs --------------------------
(***************************************************************************)
(* Who is handed which message, for any number of sessions, message types, *)
(* subscriptions and messages.                                             *)
(***************************************************************************)
EXTENDS Subscriptions, TLAPS

USE DashedAssumption, MaxMessagesAssumption

(* Initially nobody has subscribed and nothing has arrived.                *)
LEMMA InitInv == Init => SubscriptionsInv
BY DEF Init, SubscriptionsInv, TypeOK, ClockInv, MapInv, HandedInv,
   ExactDelivery, LatestDelivery, Handed

(* Under the invariant GetSubscribers is what the delivery properties say  *)
(* it should be.                                                           *)
LEMMA WhoIsSubscribed ==
    ASSUME SubscriptionsInv, NEW c \in Channels
    PROVE  /\ Unwraps(topic[c]) =>
                (c \in GetSubscribers(topic[c]) <=>
                   opened[c] > 0 /\ closed[c] = 0)
           /\ ~Unwraps(topic[c]) =>
                (c \in GetSubscribers(topic[c]) <=>
                   /\ opened[c] > 0
                   /\ \A d \in Channels :
                        topic[d] = topic[c] => opened[d] <= opened[c])
<1>1. ASSUME c \in GetSubscribers(topic[c])
      PROVE  \E e \in subscribersMap : e.topic = topic[c] /\ e.chan = c
  BY <1>1 DEF GetSubscribers
<1>2. c \in GetSubscribers(topic[c]) =>
        /\ opened[c] > 0
        /\ Unwraps(topic[c]) => closed[c] = 0
        /\ ~Unwraps(topic[c]) => \A d \in Channels :
             topic[d] = topic[c] => opened[d] <= opened[c]
  BY <1>1 DEF SubscriptionsInv, MapInv
<1>3. ASSUME opened[c] > 0, Unwraps(topic[c]), closed[c] = 0
      PROVE  c \in GetSubscribers(topic[c])
  BY <1>3 DEF SubscriptionsInv, MapInv
<1>4. ASSUME opened[c] > 0, ~Unwraps(topic[c]),
             \A d \in Channels : topic[d] = topic[c] => opened[d] <= opened[c]
      PROVE  c \in GetSubscribers(topic[c])
  <2>1. PICK e \in subscribersMap : e.topic = topic[c]
    BY <1>4 DEF SubscriptionsInv, MapInv, GetSubscribers
  <2>2. /\ e.chan \in Channels
        /\ topic[e.chan] = topic[c]
        /\ opened[e.chan] = opened[c]
    BY <1>4, <2>1 DEF SubscriptionsInv, MapInv, TypeOK, Entry
  <2>3. e.chan = c
    BY <1>4, <2>2 DEF SubscriptionsInv, ClockInv
  <2> QED
    BY <2>1, <2>3 DEF GetSubscribers
<1> QED
  BY <1>2, <1>3, <1>4

(* SubscribeTo keeps the map: the new entry replaces at most the one of    *)
(* another channel under the empty key.                                    *)
LEMMA SubscribePreserves ==
    ASSUME SubscriptionsInv, NEW c \in Channels, SubscribeTo(c)
    PROVE  SubscriptionsInv'
<1> DEFINE t == topic[c]
           key == SubscriptionIdentifier(t, now + 1)
           new == [topic |-> t, key |-> key, chan |-> c]
<1>1. /\ opened[c] = 0
      /\ now' = now + 1
      /\ opened' = [opened EXCEPT ![c] = now + 1]
      /\ subscribersMap' =
           { e \in subscribersMap : e.topic # t \/ e.key # key } \cup {new}
      /\ UNCHANGED << topic, closed, arrived, sending, received >>
  BY DEF SubscribeTo
<1>2. /\ TypeOK /\ ClockInv /\ MapInv /\ HandedInv
      /\ ExactDelivery /\ LatestDelivery
  BY DEF SubscriptionsInv
<1>3. new \in Entry /\ key \in Nat
  BY <1>2 DEF TypeOK, Entry, SubscriptionIdentifier
<1>4. TypeOK'
  BY <1>1, <1>2, <1>3 DEF TypeOK
<1>5. ClockInv'
  BY <1>1, <1>2 DEF TypeOK, ClockInv, Message
<1>6. HandedInv'
  BY <1>1, <1>2 DEF HandedInv
<1>7. ASSUME NEW e \in subscribersMap'
      PROVE  /\ opened'[e.chan] > 0
             /\ e.topic = topic'[e.chan]
             /\ e.key = SubscriptionIdentifier(e.topic, opened'[e.chan])
             /\ Unwraps(e.topic) => closed'[e.chan] = 0
             /\ ~Unwraps(e.topic) => \A d \in Channels :
                  topic'[d] = e.topic => opened'[d] <= opened'[e.chan]
  <2>1. CASE e = new
    BY <1>1, <1>2, <2>1 DEF TypeOK, ClockInv
  <2>2. CASE e \in subscribersMap /\ (e.topic # t \/ e.key # key)
    <3>1. e.chan \in Channels /\ e.chan # c
      BY <1>1, <1>2, <2>2 DEF TypeOK, Entry, MapInv
    <3>2. ~Unwraps(e.topic) => e.topic # t
      BY <1>2, <2>2 DEF MapInv, SubscriptionIdentifier
    <3> QED
      BY <1>1, <1>2, <2>2, <3>1, <3>2 DEF TypeOK, MapInv
  <2> QED
    BY <1>1, <2>1, <2>2
<1>8. ASSUME NEW d \in Channels, opened'[d] > 0
      PROVE  /\ Unwraps(topic'[d]) /\ closed'[d] = 0 =>
                  d \in GetSubscribers(topic[d])'
             /\ ~Unwraps(topic'[d]) => GetSubscribers(topic[d])' # {}
  <2>0. c \in GetSubscribers(t)'
    <3>1. new \in subscribersMap' /\ new.topic = t' /\ new.chan = c
      BY <1>1
    <3> HIDE DEF new, t
    <3> QED
      BY <3>1 DEF GetSubscribers
  <2>1. CASE d = c
    BY <2>0, <2>1
  <2>2. CASE topic[d] = t /\ ~Unwraps(t)
    <3>1. topic'[d] = t' /\ t' = t
      BY <1>1, <2>2
    <3> HIDE DEF t
    <3> QED
      BY <2>0, <2>2, <3>1 DEF Unwraps
  <2>3. CASE d # c /\ (topic[d] # t \/ Unwraps(t))
    <3>1. opened[d] > 0 /\ opened[d] <= now
      BY <1>1, <1>2, <1>8, <2>3 DEF TypeOK, ClockInv
    <3>2. \A e \in subscribersMap : e.topic = topic[d] => e \in subscribersMap'
      BY <1>1, <1>2, <2>3 DEF TypeOK, Entry, ClockInv, MapInv,
         SubscriptionIdentifier
    <3> QED
      BY <1>1, <1>2, <2>3, <3>1, <3>2 DEF MapInv, GetSubscribers
  <2> QED
    BY <2>1, <2>2, <2>3
<1>9. MapInv'
  BY <1>7, <1>8 DEF MapInv, SubscriptionIdentifier, Unwraps
<1>10. ExactDelivery'
  BY <1>1, <1>2 DEF TypeOK, Message, ClockInv, HandedInv, ExactDelivery, Handed,
     Listening
<1>11. LatestDelivery'
  BY <1>1, <1>2 DEF TypeOK, Message, ClockInv, HandedInv, LatestDelivery, Handed,
     Latest
<1> QED
  BY <1>4, <1>5, <1>6, <1>9, <1>10, <1>11 DEF SubscriptionsInv

(* UnSubscribeFrom removes the entry of its own channel, or none at all.   *)
LEMMA UnsubscribePreserves ==
    ASSUME SubscriptionsInv, NEW c \in Channels, UnSubscribeFrom(c)
    PROVE  SubscriptionsInv'
<1>1. /\ opened[c] > 0 /\ closed[c] = 0
      /\ now' = now + 1
      /\ closed' = [closed EXCEPT ![c] = now + 1]
      /\ subscribersMap' \subseteq subscribersMap
      /\ \A e \in subscribersMap :
           e \in subscribersMap' <=>
             ~(Unwraps(topic[c]) /\ e.topic = topic[c] /\ e.key = opened[c])
      /\ UNCHANGED << topic, opened, arrived, sending, received >>
  BY DEF UnSubscribeFrom
<1>2. /\ TypeOK /\ ClockInv /\ MapInv /\ HandedInv
      /\ ExactDelivery /\ LatestDelivery
  BY DEF SubscriptionsInv
<1>3. TypeOK'
  BY <1>1, <1>2 DEF TypeOK
<1>4. ClockInv'
  BY <1>1, <1>2 DEF TypeOK, ClockInv, Message
<1>5. HandedInv'
  BY <1>1, <1>2 DEF HandedInv
<1>6. ASSUME NEW e \in subscribersMap
      PROVE  e \in subscribersMap' <=> ~(Unwraps(topic[c]) /\ e.chan = c)
  BY <1>1, <1>2 DEF TypeOK, Entry, MapInv, ClockInv, SubscriptionIdentifier
<1>7. MapInv'
  BY <1>1, <1>2, <1>6 DEF TypeOK, Entry, MapInv, GetSubscribers, Unwraps,
     SubscriptionIdentifier
<1>8. ExactDelivery'
  BY <1>1, <1>2 DEF TypeOK, Message, ClockInv, HandedInv, ExactDelivery, Handed,
     Listening
<1>9. LatestDelivery'
  BY <1>1, <1>2 DEF TypeOK, Message, ClockInv, HandedInv, LatestDelivery, Handed,
     Latest
<1> QED
  BY <1>3, <1>4, <1>5, <1>7, <1>8, <1>9 DEF SubscriptionsInv

(* A message that arrives is handed to the channels of GetSubscribers.     *)
LEMMA ProcessPreserves ==
    ASSUME SubscriptionsInv, NEW t \in Topic, ProcessMessage(t)
    PROVE  SubscriptionsInv'
<1> DEFINE new == [topic |-> t, at |-> now + 1]
<1>1. /\ now' = now + 1
      /\ arrived' = arrived \cup {new}
      /\ sending' = sending \cup (GetSubscribers(t) \X {new})
      /\ UNCHANGED << subscribersMap, topic, opened, closed, received >>
  BY DEF ProcessMessage
<1>2. /\ TypeOK /\ ClockInv /\ MapInv /\ HandedInv
      /\ ExactDelivery /\ LatestDelivery
  BY DEF SubscriptionsInv
<1>3. new \in Message /\ new.topic = t /\ new.at = now + 1 /\ new \notin arrived
  BY <1>2 DEF TypeOK, Message, ClockInv
<1> HIDE DEF new
<1>4. GetSubscribers(t) \subseteq Channels
  BY <1>2 DEF GetSubscribers, TypeOK, Entry
<1>5. TypeOK'
  BY <1>1, <1>2, <1>3, <1>4 DEF TypeOK
<1>6. ClockInv'
  BY <1>1, <1>2, <1>3 DEF TypeOK, ClockInv, Message
<1>7. HandedInv'
  BY <1>1, <1>2, <1>4 DEF HandedInv
<1>8. MapInv'
  BY <1>1, <1>2 DEF MapInv, GetSubscribers, Unwraps, SubscriptionIdentifier
<1>9. ASSUME NEW c \in Channels, topic[c] = t
      PROVE  new \in Handed(c)' <=> c \in GetSubscribers(t)
  BY <1>1, <1>2, <1>3, <1>4 DEF HandedInv, Handed
<1>10. ASSUME NEW c \in Channels, NEW m \in arrived
       PROVE  m \in Handed(c)' <=> m \in Handed(c)
  BY <1>1, <1>3, <1>10 DEF Handed
<1>11. ExactDelivery'
  <2> SUFFICES ASSUME NEW c \in Channels, NEW m \in arrived',
                      topic[c] = m.topic, Unwraps(m.topic)
               PROVE  m \in Handed(c)' <=> Listening(c, m)
    BY <1>1 DEF ExactDelivery, Unwraps, Listening
  <2>1. CASE m \in arrived
    BY <1>2, <1>10, <2>1 DEF ExactDelivery
  <2>2. CASE m = new
    BY <1>2, <1>3, <1>9, <2>2, WhoIsSubscribed DEF TypeOK, ClockInv, Listening
  <2> QED
    BY <1>1, <2>1, <2>2
<1>12. LatestDelivery'
  <2> SUFFICES ASSUME NEW c \in Channels, NEW m \in arrived',
                      topic[c] = m.topic, ~Unwraps(m.topic)
               PROVE  m \in Handed(c)' <=> Latest(c, m)
    BY <1>1 DEF LatestDelivery, Unwraps, Latest
  <2>1. CASE m \in arrived
    BY <1>2, <1>10, <2>1 DEF LatestDelivery
  <2>2. CASE m = new
    BY <1>2, <1>3, <1>9, <2>2, WhoIsSubscribed DEF TypeOK, ClockInv, Latest
  <2> QED
    BY <1>1, <2>1, <2>2
<1> QED
  BY <1>5, <1>6, <1>7, <1>8, <1>11, <1>12 DEF SubscriptionsInv

(* Taking a message from the channel does not change what was handed over. *)
LEMMA ReceivePreserves ==
    ASSUME SubscriptionsInv, NEW g \in sending, Receive(g[1], g[2])
    PROVE  SubscriptionsInv'
<1>1. PICK c \in Channels, m \in arrived : g = << c, m >>
  BY DEF SubscriptionsInv, HandedInv
<1>2. /\ sending' = sending \ {<< c, m >>}
      /\ received' = [received EXCEPT ![c] = @ \cup {m}]
      /\ << c, m >> \in sending
      /\ UNCHANGED << now, subscribersMap, topic, opened, closed, arrived >>
  BY <1>1 DEF Receive
<1>3. /\ TypeOK /\ ClockInv /\ MapInv /\ HandedInv
      /\ ExactDelivery /\ LatestDelivery
  BY DEF SubscriptionsInv
<1>4. TypeOK'
  BY <1>2, <1>3 DEF TypeOK
<1>5. ClockInv' /\ MapInv'
  BY <1>2, <1>3 DEF ClockInv, MapInv, GetSubscribers, Unwraps,
     SubscriptionIdentifier
<1>6. HandedInv'
  BY <1>2, <1>3 DEF TypeOK, HandedInv
<1>7. \A d \in Channels : Handed(d)' = Handed(d)
  BY <1>2, <1>3 DEF TypeOK, Handed
<1>8. ExactDelivery' /\ LatestDelivery'
  BY <1>2, <1>3, <1>7 DEF ExactDelivery, LatestDelivery, Listening, Latest,
     Unwraps
<1> QED
  BY <1>4, <1>5, <1>6, <1>8 DEF SubscriptionsInv

(* The invariant holds in every reachable state of the manager.            *)
THEOREM SubscriptionsInvariant == Spec => []SubscriptionsInv
<1>1. ASSUME SubscriptionsInv, UNCHANGED vars PROVE SubscriptionsInv'
  BY <1>1 DEF vars, SubscriptionsInv, TypeOK, ClockInv, MapInv, HandedInv,
     ExactDelivery, LatestDelivery, Handed, Listening, Latest, GetSubscribers,
     Unwraps, SubscriptionIdentifier
<1>2. ASSUME SubscriptionsInv, [Next]_vars PROVE SubscriptionsInv'
  BY <1>1, <1>2, SubscribePreserves, UnsubscribePreserves, ProcessPreserves,
     ReceivePreserves DEF Next
<1> QED
  BY InitInv, <1>2, PTL DEF Spec

(* In a session without a dash everybody is handed exactly the messages    *)
(* that arrive while subscribed.                                           *)
THEOREM DeliveryIsExact == Spec => []ExactDelivery
BY SubscriptionsInvariant, PTL DEF SubscriptionsInv

(* In a session with a dash the last subscriber is handed every message,   *)
(* and nobody else any.                                                    *)
THEOREM DeliveryIsToTheLatest == Spec => []LatestDelivery
BY SubscriptionsInvariant, PTL DEF SubscriptionsInv

================================================================================
