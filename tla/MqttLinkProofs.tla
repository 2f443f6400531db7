---------------------------- MODULE MqttLinkProofs ---------------------------
(* Proofs about MqttLink, for every set of topics and every number of        *)
(* events and broken connections.                                            *)
EXTENDS MqttLink, SequenceTheorems, TLAPS

Messages ==
    [type : {"connect"}, will : BOOLEAN, clean : BOOLEAN]
        \cup [type : {"rt"}, topic : RtTopics, cmd : {"rt-start", "rt-stop"}]
        \cup [type : {"subscribe", "unsubscribe", "sub-start", "sub-stop"}, topic : Topics]
        \cup [type : {"ping"}]

(* Every variable holds a value of its kind; an announcement that waits is   *)
(* one of a subscription or its end.                                         *)
TypeOK ==
    /\ sock \in {"none", "opening", "asked", "open"}
    /\ todo = <<>> \/ \E t \in Topics, w \in {"sub-start", "sub-stop"} :
                          todo = <<[type |-> w, topic |-> t]>>
    /\ wire \in Seq(Messages)
    /\ connack \in {"none", "accepted", "refused"}
    /\ cut \in BOOLEAN
    /\ client \in {"none", "this", "old"}

(* What the bridge sends: it asks for a will and for its old session, says   *)
(* that the runtime starts, and gives a topic up for good.                   *)
WireOK ==
    \A i \in DOMAIN wire :
        /\ wire[i].type = "connect" => wire[i] = Handshake
        /\ wire[i].type = "rt" => wire[i] = StartMsg
        /\ wire[i].type = "unsubscribe" => wire[i].topic \in unsubbed

(* The broker has the subscription, or gets it before the k-th message, or   *)
(* with all there is on the wire.                                            *)
IsSubscription(m, t) == m.type = "subscribe" /\ m.topic = t
IsShowing(m, t)      == m.type = "sub-start" /\ m.topic = t

Covered(t, k) ==
    t \in session \cup unsubbed \/ \E j \in DOMAIN wire : j < k /\ IsSubscription(wire[j], t)
CoveredByAll(t) ==
    t \in session \cup unsubbed \/ \E j \in DOMAIN wire : IsSubscription(wire[j], t)

SubscribedFirst ==
    \A t \in Topics :
        /\ \A i \in DOMAIN wire : IsShowing(wire[i], t) => Covered(t, i)
        /\ \A i \in DOMAIN todo : IsShowing(todo[i], t) => CoveredByAll(t)

(* On a connection that is whole, the handshake is sent once and first, and  *)
(* the runtime is announced when the broker knows the client.                *)
Connection ==
    ~cut =>
       /\ \A i, j \in DOMAIN wire : wire[i].type = "connect" /\ wire[j].type = "connect" => i = j
       /\ (\E i \in DOMAIN wire : wire[i].type = "connect") => sock = "asked" /\ connack = "none"
       /\ sock = "opening" => connack = "none"
       /\ connack # "none" \/ sock = "open" => client = "this"
       /\ sock = "open" => rt[RtTopics] = "rt-start" \/ \E i \in DOMAIN wire : wire[i].type = "rt"

(* The broker shows the end of the runtime whose connection it lost. *)
LostShown == client = "none" => rt[RtTopics] # "rt-start"

(* The runtime's own topic has no start message. *)
OwnTopic == rt[{s_rt_topic}] # "rt-start"

IInv == TypeOK /\ WireOK /\ SubscribedFirst /\ Connection /\ LostShown /\ OwnTopic
           /\ ShownIsSubscribed

-----------------------------------------------------------------------------
(* What the bridge sends is a message ... *)
LEMMA SentMessages ==
    /\ Opening \in Messages
    /\ StartMsg \in Messages
    /\ [type |-> "ping"] \in Messages
    /\ \A t \in Topics, w \in {"subscribe", "unsubscribe", "sub-start", "sub-stop"} :
          [type |-> w, topic |-> t] \in Messages
  BY DEF Opening, Handshake, Messages, StartMsg, RtTopics

(* Telling reaches those who follow the topic. *)
LEMMA ToldWhom ==
    /\ RtTopics \in Observers /\ {s_rt_topic} \in Observers
    /\ \A topic \in RtTopics : \A cmd : Told(topic, cmd)[RtTopics] = cmd
    /\ \A cmd : Told(rt_topic_prefix, cmd)[{s_rt_topic}] = rt[{s_rt_topic}]
    /\ \A cmd : Told(s_rt_topic, cmd)[{s_rt_topic}] = cmd
    /\ s_rt_topic \in RtTopics /\ rt_topic_prefix \in RtTopics
  BY DEF Told, Observers, RtTopics, rt_topic_prefix, s_rt_topic

(* ... that goes to the end of what is on the wire, or nowhere. *)
LEMMA SentLast ==
    ASSUME TypeOK, NEW m \in Messages, wire' = Sent(m)
    PROVE  /\ wire' \in Seq(Messages)
           /\ \/ wire' = wire /\ sock = "none"
              \/ /\ sock # "none"
                 /\ Len(wire') = Len(wire) + 1 /\ wire'[Len(wire) + 1] = m
                 /\ DOMAIN wire' = DOMAIN wire \cup {Len(wire) + 1}
                 /\ \A i \in DOMAIN wire : wire'[i] = wire[i] /\ i < Len(wire) + 1
  BY DEF TypeOK, Sent

(* What the broker takes off the wire is the first message. *)
LEMMA TakenFirst ==
    ASSUME TypeOK, Incoming.type # "none", wire' = Tail(wire)
    PROVE  /\ wire' \in Seq(Messages) /\ 1 \in DOMAIN wire /\ Incoming = wire[1] /\ ~cut
           /\ Len(wire') = Len(wire) - 1
           /\ \A i \in DOMAIN wire' : i + 1 \in DOMAIN wire /\ wire'[i] = wire[i + 1]
           /\ \A i \in DOMAIN wire : i = 1 \/ (i - 1 \in DOMAIN wire' /\ wire'[i - 1] = wire[i])
  <1>1. wire # <<>> /\ ~cut /\ Incoming = Head(wire)
    BY DEF Incoming
  <1>2. wire \in Seq(Messages)
    BY DEF TypeOK
  <1>. QED
    BY <1>1, <1>2

(* A new connection starts with an empty wire. *)
LEMMA EmptyWire == <<>> \in Seq(Messages)
  OBVIOUS

(* Every step keeps every variable in its type. *)
LEMMA TypeStep ==
    ASSUME TypeOK, [Next]_vars
    PROVE  TypeOK'
  <1> USE DEF TypeOK, brokerVars, bridgeVars, counters
  <1>1. CASE Connect
    <2>1. wire' \in Seq(Messages)
      BY <1>1, EmptyWire DEF Connect
    <2>. QED
      BY <1>1, <2>1 DEF Connect
  <1>2. CASE Established \/ Connacked
    <2>1. wire' \in Seq(Messages)
      BY <1>2, SentMessages, SentLast DEF Established, Connacked
    <2>. QED
      BY <1>2, <2>1 DEF Established, Connacked
  <1>3. CASE Closed \/ Break \/ Refuse \/ ProtocolError
    BY <1>3 DEF Closed, Break, Refuse, ProtocolError
  <1>4. ASSUME NEW t \in Topics, Subscribe(t) \/ Unsubscribe(t) PROVE TypeOK'
    <2>1. PICK w \in {"subscribe", "unsubscribe"}, v \in {"sub-start", "sub-stop"} :
             /\ wire' = Sent([type |-> w, topic |-> t])
             /\ todo' = <<[type |-> v, topic |-> t]>>
      BY <1>4 DEF Subscribe, Unsubscribe, HandleEvent, SubscribeOrder, UnsubscribeOrder
    <2>2. wire' \in Seq(Messages)
      BY <2>1, SentMessages, SentLast
    <2>. QED
      BY <1>4, <2>1, <2>2 DEF Subscribe, Unsubscribe, HandleEvent
  <1>5. CASE Announce
    <2>1. PICK t \in Topics, w \in {"sub-start", "sub-stop"} : todo = <<[type |-> w, topic |-> t]>>
      BY <1>5 DEF Announce
    <2>3. todo[1] \in Messages
      BY <2>1, SentMessages
    <2>2. wire' \in Seq(Messages)
      BY <1>5, <2>3, SentLast DEF Announce
    <2>. QED
      BY <1>5, <2>2 DEF Announce
  <1>6. CASE Ping
    <2>1. wire' \in Seq(Messages)
      BY <1>6, SentMessages, SentLast DEF Ping
    <2>. QED
      BY <1>6, <2>1 DEF Ping
  <1>7. CASE Accept \/ Serve
    <2>1. wire' \in Seq(Messages)
      BY <1>7, TakenFirst DEF Accept, Serve
    <2>. QED
      BY <1>7, <2>1 DEF Accept, Serve
  <1>8. CASE Lost
    BY <1>8 DEF Lost
  <1>9. CASE UNCHANGED vars
    BY <1>9 DEF vars
  <1>. QED
    BY <1>1, <1>2, <1>3, <1>4, <1>5, <1>6, <1>7, <1>8, <1>9 DEF Next

(* The bridge sends nothing else. *)
LEMMA WireStep ==
    ASSUME IInv, [Next]_vars
    PROVE  WireOK'
  <1> USE DEF IInv
  <1>1. TypeOK /\ WireOK
    OBVIOUS
  <1>2. ASSUME NEW m \in Messages, wire' = Sent(m), unsubbed \subseteq unsubbed',
               m.type = "connect" => m = Handshake,
               m.type = "rt" => m = StartMsg,
               m.type = "unsubscribe" => m.topic \in unsubbed'
        PROVE  WireOK'
    BY <1>1, <1>2, SentLast DEF WireOK
  <1>3. CASE Connect
    BY <1>3 DEF Connect, WireOK
  <1>4. CASE Established
    BY <1>2, <1>4, SentMessages DEF Established, counters, Opening, Handshake
  <1>5. CASE Connacked
    BY <1>2, <1>5, SentMessages DEF Connacked, counters, StartMsg
  <1>6. CASE Closed \/ Break \/ Refuse \/ ProtocolError \/ Lost
    BY <1>1, <1>6 DEF Closed, Break, Refuse, ProtocolError, Lost, counters, WireOK
  <1>7. ASSUME NEW t \in Topics, Subscribe(t) PROVE WireOK'
    BY <1>2, <1>7, SentMessages DEF Subscribe, HandleEvent, SubscribeOrder
  <1>8. ASSUME NEW t \in Topics, Unsubscribe(t) PROVE WireOK'
    BY <1>2, <1>8, SentMessages DEF Unsubscribe, HandleEvent, UnsubscribeOrder
  <1>9. CASE Announce
    <2>1. PICK t \in Topics, w \in {"sub-start", "sub-stop"} : todo = <<[type |-> w, topic |-> t]>>
      BY <1>1, <1>9 DEF TypeOK, Announce
    <2>2. CASE wire' = wire
      BY <1>1, <1>9, <2>2 DEF Announce, counters, WireOK
    <2>3. CASE wire' = Sent([type |-> w, topic |-> t])
      BY <1>2, <1>9, <2>3, SentMessages DEF Announce, counters
    <2>. QED
      BY <1>9, <2>1, <2>2, <2>3 DEF Announce
  <1>10. CASE Ping
    BY <1>2, <1>10, SentMessages DEF Ping, counters
  <1>11. CASE Accept \/ Serve
    <2>1. unsubbed' = unsubbed
      BY <1>11 DEF Accept, Serve, counters
    <2>. QED
      BY <1>1, <1>11, <2>1, TakenFirst DEF Accept, Serve, WireOK
  <1>12. CASE UNCHANGED vars
    BY <1>1, <1>12 DEF vars, counters, WireOK
  <1>. QED
    BY <1>3, <1>4, <1>5, <1>6, <1>7, <1>8, <1>9, <1>10, <1>11, <1>12 DEF Next

-----------------------------------------------------------------------------
(* A subscription made or under way is not lost when the bridge sends more   *)
(* or unsubscribes from other topics, or from this one ...                   *)
LEMMA CoveredStays ==
    ASSUME session' = session, unsubbed \subseteq unsubbed',
           \A i \in DOMAIN wire : i \in DOMAIN wire' /\ wire'[i] = wire[i],
           NEW t
    PROVE  /\ CoveredByAll(t) => CoveredByAll(t)'
           /\ \A k : Covered(t, k) => Covered(t, k)'
  BY DEF Covered, CoveredByAll

(* ... nor when the broker takes a message. *)
LEMMA CoveredServed ==
    ASSUME IInv, Accept \/ Serve, NEW t
    PROVE  /\ CoveredByAll(t) => CoveredByAll(t)'
           /\ \A k \in Nat : Covered(t, k + 1) => Covered(t, k)'
  <1>1. TypeOK /\ WireOK /\ Incoming.type # "none" /\ wire' = Tail(wire) /\ unsubbed' = unsubbed
    BY DEF IInv, Accept, Serve, counters
  <1>2. 1 \in DOMAIN wire /\ Incoming = wire[1] /\ DOMAIN wire \subseteq Nat
    BY <1>1, TakenFirst DEF TypeOK
  <1>3. session \subseteq session' \cup unsubbed'
    <2>1. CASE Accept
      <3>1. ~Incoming.clean
        BY <1>1, <1>2, <2>1 DEF Accept, WireOK, Handshake
      <3>. QED
        BY <2>1, <3>1 DEF Accept
    <2>2. CASE Serve
      <3>1. Incoming.type = "unsubscribe" => Incoming.topic \in unsubbed
        BY <1>1, <1>2 DEF WireOK
      <3>. QED
        BY <1>1, <2>2, <3>1 DEF Serve
    <2>. QED
      BY <2>1, <2>2
  <1>4. CASE t \in session \cup unsubbed
    BY <1>1, <1>3, <1>4 DEF Covered, CoveredByAll
  <1>5. ASSUME NEW j \in DOMAIN wire, IsSubscription(wire[j], t)
        PROVE  \/ t \in session'
               \/ j - 1 \in DOMAIN wire' /\ IsSubscription(wire'[j - 1], t)
    <2>1. CASE j = 1
      BY <1>2, <1>5, <2>1 DEF Accept, Serve, IsSubscription
    <2>2. CASE j # 1
      BY <1>1, <1>5, <2>2, TakenFirst
    <2>. QED
      BY <2>1, <2>2
  <1>6. CoveredByAll(t) => CoveredByAll(t)'
    BY <1>4, <1>5 DEF CoveredByAll
  <1>7. ASSUME NEW k \in Nat, Covered(t, k + 1) PROVE Covered(t, k)'
    <2>1. ASSUME NEW j \in DOMAIN wire, j < k + 1, IsSubscription(wire[j], t) PROVE Covered(t, k)'
      <3>1. j - 1 < k
        BY <1>2, <2>1
      <3>. QED
        BY <1>5, <2>1, <3>1 DEF Covered
    <2>. QED
      BY <1>4, <1>7, <2>1 DEF Covered
  <1>. QED
    BY <1>6, <1>7

(* The subscription goes out before its announcement, always. *)
LEMMA SubscribedFirstStep ==
    ASSUME IInv, [Next]_vars
    PROVE  SubscribedFirst'
  <1>1. TypeOK /\ SubscribedFirst /\ wire \in Seq(Messages) /\ Len(wire) \in Nat
    BY DEF IInv, TypeOK
  (* A message more that is no announcement of a subscription, or one that is covered. *)
  <1>2. ASSUME NEW m \in Messages, wire' = Sent(m), session' = session, unsubbed \subseteq unsubbed',
               NEW t \in Topics, IsShowing(m, t) => CoveredByAll(t)
        PROVE  /\ \A i \in DOMAIN wire' : IsShowing(wire'[i], t) => Covered(t, i)'
               /\ CoveredByAll(t) => CoveredByAll(t)'
               /\ sock # "none" /\ IsSubscription(m, t) => CoveredByAll(t)'
    <2>1. \A i \in DOMAIN wire : i \in DOMAIN wire' /\ wire'[i] = wire[i] /\ i < Len(wire) + 1
      BY <1>1, <1>2, SentLast
    <2>2. /\ CoveredByAll(t) => CoveredByAll(t)'
          /\ \A k : Covered(t, k) => Covered(t, k)'
      BY <1>2, <2>1, CoveredStays
    <2>3. CoveredByAll(t) => Covered(t, Len(wire) + 1)
      BY <2>1 DEF CoveredByAll, Covered
    <2>4. ASSUME NEW i \in DOMAIN wire', IsShowing(wire'[i], t) PROVE Covered(t, i)'
      <3>1. CASE i \in DOMAIN wire
        BY <1>1, <2>1, <2>2, <2>4, <3>1 DEF SubscribedFirst
      <3>2. CASE i \notin DOMAIN wire
        <4>1. i = Len(wire) + 1 /\ wire'[i] = m
          BY <1>1, <1>2, <2>4, <3>2, SentLast
        <4>2. Covered(t, i)
          BY <1>2, <2>3, <2>4, <4>1
        <4>. QED
          BY <2>2, <4>2
      <3>. QED
        BY <3>1, <3>2
    <2>5. sock # "none" /\ IsSubscription(m, t) => CoveredByAll(t)'
      BY <1>1, <1>2, SentLast DEF CoveredByAll
    <2>. QED
      BY <2>2, <2>4, <2>5
  <1>3. CASE Connect
    BY <1>3 DEF Connect, SubscribedFirst
  <1>4. CASE Established \/ Connacked \/ Ping
    <2>1. PICK m \in Messages : wire' = Sent(m) /\ m.type \in {"connect", "rt", "ping"}
      <3>1. Opening.type = "connect" /\ StartMsg.type = "rt"
        BY DEF Opening, Handshake, StartMsg
      <3>. QED
        BY <1>4, <3>1, SentMessages DEF Established, Connacked, Ping
    <2>2. UNCHANGED <<session, unsubbed, todo>>
      BY <1>4 DEF Established, Connacked, Ping, brokerVars, counters, bridgeVars
    <2>. QED
      BY <1>1, <1>2, <2>1, <2>2 DEF SubscribedFirst, IsShowing
  <1>5. CASE Closed \/ Break \/ Refuse \/ ProtocolError \/ Lost \/ UNCHANGED vars
    <2>1. UNCHANGED <<session, unsubbed, todo, wire>>
      BY <1>5 DEF Closed, Break, Refuse, ProtocolError, Lost, vars, brokerVars, counters, bridgeVars
    <2>. QED
      BY <1>1, <2>1 DEF SubscribedFirst, Covered, CoveredByAll
  <1>6. ASSUME NEW u \in Topics, Subscribe(u) PROVE SubscribedFirst'
    <2> DEFINE m == [type |-> "subscribe", topic |-> u]
    <2>1. /\ wire' = Sent(m) /\ m \in Messages /\ sock # "none"
          /\ todo' = <<[type |-> "sub-start", topic |-> u]>>
          /\ UNCHANGED <<session, unsubbed>>
      BY <1>6, SentMessages DEF Subscribe, HandleEvent, SubscribeOrder, brokerVars
    <2>2. \A i \in DOMAIN todo', t \in Topics : IsShowing(todo'[i], t) => t = u
      BY <2>1 DEF IsShowing
    <2>3. ~IsShowing(m, u) /\ \A t \in Topics : ~IsShowing(m, t)
      BY DEF IsShowing
    <2>4. IsSubscription(m, u)
      BY DEF IsSubscription
    <2>. HIDE DEF m
    <2>. QED
      BY <1>2, <2>1, <2>2, <2>3, <2>4 DEF SubscribedFirst
  <1>7. ASSUME NEW u \in Topics, Unsubscribe(u) PROVE SubscribedFirst'
    <2> DEFINE m == [type |-> "unsubscribe", topic |-> u]
    <2>1. /\ wire' = Sent(m) /\ m \in Messages /\ unsubbed \subseteq unsubbed'
          /\ todo' = <<[type |-> "sub-stop", topic |-> u]>>
          /\ UNCHANGED session
      BY <1>7, SentMessages DEF Unsubscribe, HandleEvent, UnsubscribeOrder, brokerVars
    <2>2. \A i \in DOMAIN todo', t \in Topics : ~IsShowing(todo'[i], t)
      BY <2>1 DEF IsShowing
    <2>3. \A t \in Topics : ~IsShowing(m, t)
      BY DEF IsShowing
    <2>. HIDE DEF m
    <2>. QED
      BY <1>2, <2>1, <2>2, <2>3 DEF SubscribedFirst
  <1>8. CASE Announce
    <2>1. PICK u \in Topics, w \in {"sub-start", "sub-stop"} : todo = <<[type |-> w, topic |-> u]>>
      BY <1>1, <1>8 DEF TypeOK, Announce
    <2> DEFINE m == [type |-> w, topic |-> u]
    <2>2. m \in Messages /\ todo[1] = m /\ 1 \in DOMAIN todo
      <3>1. m \in Messages
        BY SentMessages
      <3>2. todo = <<m>>
        BY <2>1
      <3>. HIDE DEF m
      <3>. QED
        BY <3>1, <3>2
    <2>. HIDE DEF m
    <2>3. wire' \in {wire, Sent(m)} /\ todo' = <<>> /\ UNCHANGED <<session, unsubbed>>
      BY <1>8, <2>2 DEF Announce, brokerVars, counters
    <2>4. \A t \in Topics : IsShowing(m, t) => CoveredByAll(t)
      BY <1>1, <2>2 DEF SubscribedFirst
    <2>5. CASE wire' = wire
      BY <1>1, <2>3, <2>5 DEF SubscribedFirst, Covered
    <2>6. CASE wire' = Sent(m)
      BY <1>2, <2>2, <2>3, <2>4, <2>6 DEF SubscribedFirst
    <2>. QED
      BY <2>3, <2>5, <2>6
  <1>9. CASE Accept \/ Serve
    <2>1. Incoming.type # "none" /\ wire' = Tail(wire) /\ todo' = todo
      BY <1>9 DEF Accept, Serve, bridgeVars
    <2>2. ASSUME NEW t \in Topics, NEW i \in DOMAIN wire', IsShowing(wire'[i], t) PROVE Covered(t, i)'
      <3>1. i + 1 \in DOMAIN wire /\ wire'[i] = wire[i + 1] /\ i \in Nat
        BY <1>1, <2>1, <2>2, TakenFirst
      <3>2. Covered(t, i + 1)
        BY <1>1, <2>2, <3>1 DEF SubscribedFirst
      <3>. QED
        BY <1>9, <3>1, <3>2, CoveredServed
    <2>3. \A t \in Topics : CoveredByAll(t) => CoveredByAll(t)'
      BY <1>9, CoveredServed
    <2>. QED
      BY <1>1, <2>1, <2>2, <2>3 DEF SubscribedFirst
  <1>. QED
    BY <1>3, <1>4, <1>5, <1>6, <1>7, <1>8, <1>9 DEF Next

(* One handshake, one announcement, both of them on the way or done. *)
LEMMA ConnectionStep ==
    ASSUME IInv, [Next]_vars
    PROVE  Connection'
  <1>1. TypeOK /\ Connection /\ WireOK /\ wire \in Seq(Messages) /\ Len(wire) \in Nat
    BY DEF IInv, TypeOK
  <1>2. CASE Connect
    BY <1>2 DEF Connect, Connection
  <1>3. CASE cut' = TRUE
    BY <1>3 DEF Connection
  <1>4. CASE Established
    <2>1. /\ wire' = Sent(Opening) /\ Opening \in Messages /\ Opening.type = "connect"
          /\ sock = "opening" /\ sock' = "asked" /\ UNCHANGED <<connack, client, cut, rt>>
      BY <1>4, SentMessages DEF Established, brokerVars, Opening, Handshake
    <2>. QED
      BY <1>1, <2>1, SentLast DEF Connection
  <1>5. CASE Connacked
    <2> DEFINE m == StartMsg
    <2>1. /\ wire' = Sent(m) /\ m \in Messages /\ m.type = "rt"
          /\ sock = "asked" /\ sock' = "open" /\ connack # "none" /\ connack' = "none"
          /\ UNCHANGED <<client, cut, rt>>
      BY <1>5, SentMessages DEF Connacked, brokerVars, StartMsg
    <2>. HIDE DEF m
    <2>. QED
      BY <1>1, <2>1, SentLast DEF Connection
  <1>6. ASSUME NEW m \in Messages, wire' = Sent(m), m.type \notin {"connect", "rt"},
               UNCHANGED <<sock, connack, client, cut, rt>>
        PROVE  Connection'
    <2>1. \A i \in DOMAIN wire : i \in DOMAIN wire' /\ wire'[i] = wire[i]
      BY <1>1, <1>6, SentLast
    <2>2. \A i \in DOMAIN wire' : wire'[i].type = "connect" => i \in DOMAIN wire
      BY <1>1, <1>6, SentLast
    <2>. QED
      BY <1>1, <1>6, <2>1, <2>2 DEF Connection
  <1>7. ASSUME NEW t \in Topics, Subscribe(t) \/ Unsubscribe(t) PROVE Connection'
    <2>1. PICK w \in {"subscribe", "unsubscribe"} : wire' = Sent([type |-> w, topic |-> t])
      BY <1>7 DEF Subscribe, Unsubscribe, HandleEvent, SubscribeOrder, UnsubscribeOrder
    <2>2. UNCHANGED <<sock, connack, client, cut, rt>>
      BY <1>7 DEF Subscribe, Unsubscribe, HandleEvent, brokerVars
    <2>. QED
      BY <1>6, <2>1, <2>2, SentMessages
  <1>8. CASE Announce
    <2>1. PICK u \in Topics, w \in {"sub-start", "sub-stop"} : todo = <<[type |-> w, topic |-> u]>>
      BY <1>1, <1>8 DEF TypeOK, Announce
    <2>2. UNCHANGED <<sock, connack, client, cut, rt>>
             /\ wire' \in {wire, Sent([type |-> w, topic |-> u])}
      BY <1>8, <2>1 DEF Announce, brokerVars
    <2>3. CASE wire' = wire
      BY <1>1, <2>2, <2>3 DEF Connection
    <2>4. CASE wire' = Sent([type |-> w, topic |-> u])
      BY <1>6, <2>2, <2>4, SentMessages
    <2>. QED
      BY <2>2, <2>3, <2>4
  <1>9. CASE Ping
    BY <1>6, <1>9, SentMessages DEF Ping, bridgeVars, brokerVars
  <1>10. CASE Accept
    <2>1. /\ Incoming.type = "connect" /\ wire' = Tail(wire) /\ client' = "this"
          /\ UNCHANGED <<sock, cut>>
      BY <1>10 DEF Accept, bridgeVars
    <2>2. ~cut /\ 1 \in DOMAIN wire /\ wire[1].type = "connect"
      BY <1>1, <2>1, TakenFirst
    <2>3. sock = "asked"
      BY <1>1, <2>2 DEF Connection
    <2>4. \A i \in DOMAIN wire' : wire'[i].type # "connect"
      <3>1. SUFFICES ASSUME NEW i \in DOMAIN wire', wire'[i].type = "connect" PROVE FALSE
        OBVIOUS
      <3>2. i + 1 \in DOMAIN wire /\ wire[i + 1].type = "connect" /\ i + 1 # 1
        BY <1>1, <2>1, <3>1, TakenFirst
      <3>. QED
        BY <1>1, <2>2, <3>2 DEF Connection
    <2>. QED
      BY <2>1, <2>3, <2>4 DEF Connection
  <1>11. CASE Serve
    <2>1. /\ Incoming.type \notin {"none", "connect"} /\ wire' = Tail(wire)
          /\ UNCHANGED <<sock, cut, client, connack>>
          /\ rt' = IF Incoming.type = "rt" THEN Told(Incoming.topic, Incoming.cmd) ELSE rt
      BY <1>11 DEF Serve, bridgeVars
    <2>2. /\ \A i \in DOMAIN wire' : i + 1 \in DOMAIN wire /\ wire'[i] = wire[i + 1] /\ i \in Nat
          /\ \A i \in DOMAIN wire : i = 1 \/ (i - 1 \in DOMAIN wire' /\ wire'[i - 1] = wire[i])
          /\ 1 \in DOMAIN wire /\ Incoming = wire[1]
      BY <1>1, <2>1, TakenFirst
    <2>3. Incoming.type = "rt" => rt'[RtTopics] = "rt-start"
      BY <1>1, <2>1, <2>2, ToldWhom DEF WireOK, StartMsg
    <2>4. \A i, j \in DOMAIN wire' : wire'[i].type = "connect" /\ wire'[j].type = "connect" /\ ~cut
                                        => i = j
      <3>1. SUFFICES ASSUME NEW i \in DOMAIN wire', NEW j \in DOMAIN wire', ~cut,
                            wire'[i].type = "connect", wire'[j].type = "connect"
                     PROVE  i = j
        OBVIOUS
      <3>2. i + 1 = j + 1 /\ i \in Nat /\ j \in Nat
        BY <1>1, <2>2, <3>1 DEF Connection
      <3>. QED
        BY <3>2
    <2>5. (\E i \in DOMAIN wire' : wire'[i].type = "connect")
             => \E i \in DOMAIN wire : wire[i].type = "connect"
      BY <2>2
    <2>6. (\E i \in DOMAIN wire : wire[i].type = "rt")
             => rt'[RtTopics] = "rt-start" \/ \E i \in DOMAIN wire' : wire'[i].type = "rt"
      BY <2>2, <2>3
    <2>7. rt[RtTopics] = "rt-start" => rt'[RtTopics] = "rt-start"
      BY <2>1, <2>3
    <2>. QED
      BY <1>1, <2>1, <2>4, <2>5, <2>6, <2>7 DEF Connection
  <1>12. CASE Lost
    BY <1>1, <1>12 DEF Lost, Connection, bridgeVars
  <1>13. CASE UNCHANGED vars
    BY <1>1, <1>13 DEF vars, bridgeVars, brokerVars, Connection
  <1>14. CASE Closed \/ Break \/ Refuse \/ ProtocolError
    <2>1. cut' = TRUE
      BY <1>1, <1>14 DEF Closed, Break, Refuse, ProtocolError, TypeOK
    <2>. QED
      BY <1>3, <2>1
  <1>. QED
    BY <1>2, <1>4, <1>5, <1>7, <1>8, <1>9, <1>10, <1>11, <1>12, <1>13, <1>14 DEF Next

(* The last will. *)
LEMMA LostShownStep ==
    ASSUME IInv, [Next]_vars
    PROVE  LostShown'
  <1>1. LostShown
    BY DEF IInv
  <1>2. CASE Connect
    BY <1>1, <1>2 DEF Connect, LostShown
  <1>3. CASE \/ Established \/ Connacked \/ Closed \/ Announce \/ Ping
             \/ (\E t \in Topics : Subscribe(t) \/ Unsubscribe(t))
             \/ Break \/ Refuse \/ ProtocolError \/ UNCHANGED vars
    BY <1>1, <1>3 DEF Established, Connacked, Closed, Announce, Ping, Subscribe, Unsubscribe,
                      HandleEvent, Break, Refuse, ProtocolError, vars, brokerVars, LostShown
  <1>4. CASE Accept \/ Serve
    BY <1>4 DEF Accept, Serve, LostShown
  <1>5. CASE Lost
    BY <1>5, ToldWhom DEF Lost, LostShown, Opening, Handshake
  <1>. QED
    BY <1>2, <1>3, <1>4, <1>5 DEF Next

(* The start message goes elsewhere. *)
LEMMA OwnTopicStep ==
    ASSUME IInv, [Next]_vars
    PROVE  OwnTopic'
  <1>1. TypeOK /\ WireOK /\ OwnTopic
    BY DEF IInv
  <1>2. CASE UNCHANGED rt
    BY <1>1, <1>2 DEF OwnTopic
  <1>3. CASE rt' = Told(s_rt_topic, "rt-stop")
    BY <1>3, ToldWhom DEF OwnTopic
  <1>4. CASE Serve
    <2>1. Incoming.type = "rt" => Incoming = StartMsg
      <3>1. Incoming.type # "none" /\ wire' = Tail(wire)
        BY <1>4 DEF Serve
      <3>. QED
        BY <1>1, <3>1, TakenFirst DEF WireOK
    <2>2. rt' = IF Incoming.type = "rt" THEN Told(Incoming.topic, Incoming.cmd) ELSE rt
      BY <1>4 DEF Serve
    <2>3. CASE Incoming.type = "rt"
      <3>1. Incoming.topic = rt_topic_prefix /\ Incoming.cmd = "rt-start"
        BY <2>1, <2>3 DEF StartMsg
      <3>2. rt' = Told(rt_topic_prefix, "rt-start")
        BY <2>2, <2>3, <3>1
      <3>. QED
        BY <1>1, <3>2, ToldWhom DEF OwnTopic
    <2>4. CASE Incoming.type # "rt"
      BY <1>2, <2>2, <2>4
    <2>. QED
      BY <2>3, <2>4
  <1>5. CASE Accept \/ Lost
    <2>1. rt' = rt \/ rt' = Told(s_rt_topic, "rt-stop")
      BY <1>5 DEF Accept, Lost, Opening, Handshake
    <2>. QED
      BY <1>2, <1>3, <2>1
  <1>6. CASE \/ Connect \/ Established \/ Connacked \/ Closed \/ Announce \/ Ping
             \/ (\E t \in Topics : Subscribe(t) \/ Unsubscribe(t))
             \/ Break \/ Refuse \/ ProtocolError \/ UNCHANGED vars
    BY <1>2, <1>6 DEF Connect, Established, Connacked, Closed, Announce, Ping, Subscribe,
                      Unsubscribe, HandleEvent, Break, Refuse, ProtocolError, vars, brokerVars
  <1>. QED
    BY <1>4, <1>5, <1>6 DEF Next

(* What is shown was subscribed. *)
LEMMA ShownStep ==
    ASSUME IInv, [Next]_vars
    PROVE  ShownIsSubscribed'
  <1>1. TypeOK /\ WireOK /\ SubscribedFirst /\ ShownIsSubscribed
    BY DEF IInv
  <1>2. CASE \/ Connect \/ Established \/ Connacked \/ Closed \/ Announce \/ Ping
             \/ (\E t \in Topics : Subscribe(t) \/ Unsubscribe(t))
             \/ Break \/ Refuse \/ ProtocolError \/ Lost \/ UNCHANGED vars
    <2>1. UNCHANGED <<session, shown>> /\ unsubbed \subseteq unsubbed'
      BY <1>2 DEF Connect, Established, Connacked, Closed, Announce, Ping, Subscribe, Unsubscribe,
                  HandleEvent, Break, Refuse, ProtocolError, Lost, vars, brokerVars, counters
    <2>. QED
      BY <1>1, <2>1 DEF ShownIsSubscribed
  <1>3. CASE Accept \/ Serve
    <2>1. /\ Incoming.type # "none" /\ wire' = Tail(wire) /\ unsubbed' = unsubbed
      BY <1>3 DEF Accept, Serve, counters
    <2>2. 1 \in DOMAIN wire /\ Incoming = wire[1] /\ wire[1] \in Messages
             /\ \A j \in DOMAIN wire : ~(j < 1)
      BY <1>1, <2>1, TakenFirst DEF TypeOK
    <2>3. CASE Accept
      <3>1. ~Incoming.clean
        BY <1>1, <2>2, <2>3 DEF Accept, WireOK, Handshake
      <3>. QED
        BY <1>1, <2>1, <2>3, <3>1 DEF Accept, ShownIsSubscribed
    <2>4. CASE Serve /\ Incoming.type = "sub-start"
      <3>1. Incoming.topic \in Topics
        BY <2>2, <2>4 DEF Messages
      <3>2. Covered(Incoming.topic, 1)
        BY <1>1, <2>2, <2>4, <3>1 DEF SubscribedFirst, IsShowing
      <3>3. Incoming.topic \in session \cup unsubbed
        BY <2>2, <3>2 DEF Covered
      <3>. QED
        BY <1>1, <2>1, <2>4, <3>3 DEF Serve, ShownIsSubscribed
    <2>5. CASE Serve /\ Incoming.type = "unsubscribe"
      <3>1. Incoming.topic \in unsubbed
        BY <1>1, <2>2, <2>5 DEF WireOK
      <3>. QED
        BY <1>1, <2>1, <2>5, <3>1 DEF Serve, ShownIsSubscribed
    <2>6. CASE Serve /\ Incoming.type \notin {"sub-start", "unsubscribe"}
      BY <1>1, <2>1, <2>6 DEF Serve, ShownIsSubscribed
    <2>. QED
      BY <1>3, <2>3, <2>4, <2>5, <2>6
  <1>. QED
    BY <1>2, <1>3 DEF Next

-----------------------------------------------------------------------------
(* The inductive invariant. *)
LEMMA InductiveInvariant == Spec => []IInv
  <1>1. Init => IInv
    <2>1. SUFFICES ASSUME Init PROVE IInv
      OBVIOUS
    <2>2. TypeOK
      BY <2>1, EmptyWire DEF Init, TypeOK
    <2>3. rt[RtTopics] = "none" /\ rt[{s_rt_topic}] = "none"
      BY <2>1, ToldWhom DEF Init
    <2>. QED
      BY <2>1, <2>2, <2>3 DEF Init, IInv, WireOK, SubscribedFirst, Connection, LostShown, OwnTopic,
                              ShownIsSubscribed
  <1>2. IInv /\ [Next]_vars => IInv'
    BY TypeStep, WireStep, SubscribedFirstStep, ConnectionStep, LostShownStep, OwnTopicStep,
       ShownStep DEF IInv
  <1>. QED
    BY <1>1, <1>2, PTL DEF Spec

(* No subscription is shown that the broker does not have, whatever was lost *)
(* with however many connections (mqtt.c), but for topics ever unsubscribed. *)
THEOREM ShownIsAlwaysSubscribed == Spec => []ShownIsSubscribed
  <1>1. IInv => ShownIsSubscribed
    BY DEF IInv
  <1>. QED
    BY <1>1, InductiveInvariant, PTL

(* To observers of both topics the runtime is shown as running when the      *)
(* announcement of the connection has been served, and never while the       *)
(* broker has no client; those of its own topic are told of no start.        *)
THEOREM RuntimeAlwaysShown == Spec => []RuntimeShown
  <1>1. IInv => RuntimeShown
    BY DEF IInv, Connection, LostShown, OwnTopic, RuntimeShown
  <1>. QED
    BY <1>1, InductiveInvariant, PTL

=============================================================================
