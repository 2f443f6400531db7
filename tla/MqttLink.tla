------------------------------ MODULE MqttLink ------------------------------
(* The connection of the bridge to the MQTT broker: opening it (mqtt_init),  *)
(* the handshake and the announcement of the runtime (mqtt_ev_handler),      *)
(* losing it and opening it anew (main), and the subscriptions modules make  *)
(* meanwhile.  The broker, the network and the library (mongoose) are        *)
(* external: the broker keeps the session of a client that does not ask for  *)
(* a clean one, and publishes the last will of a client it loses.            *)
EXTENDS Naturals, Sequences

CONSTANTS
    Topics,               \* what modules subscribe to
    MaxEvent, MaxBreak    \* bounds: events of modules and pings; broken connections

ASSUME MqttLinkAssumption == MaxEvent \in Nat /\ MaxBreak \in Nat

VARIABLES
    sock,      \* the bridge's side: "none" (sock is -1), "opening", "asked", "open"
    todo,      \* the announcement an event handler still has to publish, <<>> for none
    wire,      \* what the bridge sent over this connection
    connack,   \* the broker's answer to the handshake on its way, "none" for none
    cut,       \* the connection is broken, noticed or not
    client,    \* the broker's side: "none", "this" connection, or an "old" one
    session,   \* the topics the broker has subscriptions of
    shown,     \* the topics observers were told that a module subscribes to
    rt,        \* what observers were told last of the runtime, by what they follow
    unsubbed,  \* history: the topics the bridge ever unsubscribed from
    events, breaks

bridgeVars == <<sock, todo>>
brokerVars == <<client, session, shown, rt>>
counters   == <<unsubbed, events, breaks>>
vars == <<bridgeVars, brokerVars, wire, connack, cut, counters>>

(* What the bridge tells of the runtime goes to two topics: the start to the *)
(* prefix all runtimes share, the last will, like the events of modules, to  *)
(* the runtime's own below it.  An observer follows one of them or both; the *)
(* service and the page follow the prefix from the beginning and the other   *)
(* from the first start they are told of.                                    *)
rt_topic_prefix == "prefix"
s_rt_topic      == "prefix/uuid"
RtTopics  == {rt_topic_prefix, s_rt_topic}
Observers == SUBSET RtTopics

Told(topic, cmd) == [o \in Observers |-> IF topic \in o THEN cmd ELSE rt[o]]

-----------------------------------------------------------------------------
Init ==
    /\ sock = "none" /\ todo = <<>>
    /\ wire = <<>> /\ connack = "none" /\ cut = FALSE
    /\ client = "none" /\ session = {} /\ shown = {}
    /\ rt = [o \in Observers |-> "none"]
    /\ unsubbed = {} /\ events = 0 /\ breaks = 0

(* What is sent over a connection that is closed goes nowhere. *)
Sent(m) == IF sock = "none" THEN wire ELSE Append(wire, m)

-----------------------------------------------------------------------------
(* The bridge, all on its main thread.                                       *)

(* Seeded fault: only the first connection is looked at. *)
FaultConnectOnce == sock = "none" /\ client = "none" /\ rt[RtTopics] = "none"

(* mqtt_mg_conn->sock == -1, and at the start. *)
MustConnect == sock = "none"

(* mqtt_init.  It returns when nothing happened for 100 ms, which says       *)
(* nothing of how far the connection has come.                               *)
Connect ==
    /\ MustConnect /\ todo = <<>>
    /\ sock' = "opening" /\ wire' = <<>> /\ connack' = "none" /\ cut' = FALSE
    /\ client' = IF client = "this" THEN "old" ELSE client
    /\ UNCHANGED <<todo, session, shown, rt, counters>>

(* The handshake names the will or not, and a clean session or not. *)
Handshake == [type |-> "connect", will |-> TRUE, clean |-> FALSE]

(* Seeded faults: without the last will; with a clean session. *)
FaultNoWill == [Handshake EXCEPT !.will = FALSE]
FaultClean  == [Handshake EXCEPT !.clean = TRUE]

Opening == Handshake

(* MG_EV_CONNECT *)
Established ==
    /\ sock = "opening"
    /\ sock' = "asked" /\ wire' = Sent(Opening)
    /\ UNCHANGED <<todo, brokerVars, connack, cut, counters>>

(* The start message.  It goes to the prefix: the runtime's own topic, which *)
(* the code puts together next to it, is not used.                           *)
StartMsg == [type |-> "rt", topic |-> rt_topic_prefix, cmd |-> "rt-start"]

(* MG_EV_MQTT_CONNACK: an answer other than "accepted" is printed, and the   *)
(* runtime announced all the same.                                           *)
Connacked ==
    /\ sock = "asked" /\ connack # "none"
    /\ sock' = "open" /\ connack' = "none"
    /\ wire' = Sent(StartMsg)
    /\ UNCHANGED <<todo, brokerVars, cut, counters>>

(* MG_EV_CLOSE, in any poll. *)
Closed ==
    /\ cut /\ sock # "none"
    /\ sock' = "none"
    /\ UNCHANGED <<todo, brokerVars, wire, connack, cut, counters>>

(* What is sent for a subscription, before and after a poll. *)
SubscribeOrder(t) ==
    <<[type |-> "subscribe", topic |-> t], [type |-> "sub-start", topic |-> t]>>

UnsubscribeOrder(t) ==
    <<[type |-> "unsubscribe", topic |-> t], [type |-> "sub-stop", topic |-> t]>>

(* mqtt_process_runtime_event up to the poll between the two messages.       *)
HandleEvent(order) ==
    /\ sock # "none" /\ todo = <<>> /\ events < MaxEvent
    /\ events' = events + 1
    /\ wire' = Sent(order[1]) /\ todo' = <<order[2]>>
    /\ UNCHANGED <<sock, brokerVars, connack, cut, breaks>>

Subscribe(t)   == HandleEvent(SubscribeOrder(t)) /\ UNCHANGED unsubbed
Unsubscribe(t) == HandleEvent(UnsubscribeOrder(t)) /\ unsubbed' = unsubbed \cup {t}

(* mqtt_notify_pubsub_event; nothing is sent for a module that is unknown. *)
Announce ==
    /\ todo # <<>>
    /\ wire' \in {wire, Sent(todo[1])} /\ todo' = <<>>
    /\ UNCHANGED <<sock, brokerVars, connack, cut, counters>>

(* The keep-alive of main, which does not look at the connection. *)
Ping ==
    /\ todo = <<>> /\ events < MaxEvent
    /\ events' = events + 1
    /\ wire' = Sent([type |-> "ping"])
    /\ UNCHANGED <<bridgeVars, brokerVars, connack, cut, unsubbed, breaks>>

-----------------------------------------------------------------------------
(* The broker and the network (external).                                    *)

Break ==
    /\ sock # "none" /\ ~cut /\ breaks < MaxBreak
    /\ cut' = TRUE /\ breaks' = breaks + 1
    /\ UNCHANGED <<bridgeVars, brokerVars, wire, connack, unsubbed, events>>

Incoming == IF wire = <<>> \/ cut THEN [type |-> "none"] ELSE Head(wire)

(* A client of the same name takes over from the old connection. *)
Accept ==
    /\ Incoming.type = "connect"
    /\ client' = "this" /\ connack' = "accepted"
    /\ rt' = IF client = "old" /\ Incoming.will THEN Told(s_rt_topic, "rt-stop") ELSE rt
    /\ session' = IF Incoming.clean THEN {} ELSE session
    /\ wire' = Tail(wire)
    /\ UNCHANGED <<bridgeVars, shown, cut, counters>>

Refuse ==
    /\ Incoming.type = "connect" /\ breaks < MaxBreak
    /\ breaks' = breaks + 1
    /\ connack' = "refused" /\ cut' = TRUE
    /\ UNCHANGED <<bridgeVars, brokerVars, wire, unsubbed, events>>

(* The first message of a connection must be the handshake. *)
ProtocolError ==
    /\ Incoming.type \notin {"none", "connect"} /\ client # "this"
    /\ cut' = TRUE
    /\ UNCHANGED <<bridgeVars, brokerVars, wire, connack, counters>>

Serve ==
    /\ Incoming.type \notin {"none", "connect"} /\ client = "this"
    /\ LET m == Incoming
       IN  /\ session' = CASE m.type = "subscribe"   -> session \cup {m.topic}
                           [] m.type = "unsubscribe" -> session \ {m.topic}
                           [] OTHER                  -> session
           /\ shown' = CASE m.type = "sub-start" -> shown \cup {m.topic}
                         [] m.type = "sub-stop"  -> shown \ {m.topic}
                         [] OTHER                -> shown
           /\ rt' = IF m.type = "rt" THEN Told(m.topic, m.cmd) ELSE rt
    /\ wire' = Tail(wire)
    /\ UNCHANGED <<bridgeVars, client, connack, cut, counters>>

(* The broker notices that it lost its client and publishes the will. *)
Lost ==
    /\ client = "old" \/ (client = "this" /\ cut)
    /\ client' = "none"
    /\ rt' = IF Opening.will THEN Told(s_rt_topic, "rt-stop") ELSE rt
    /\ UNCHANGED <<bridgeVars, session, shown, wire, connack, cut, counters>>

Next ==
    \/ Connect \/ Established \/ Connacked \/ Closed \/ Announce \/ Ping
    \/ \E t \in Topics : Subscribe(t) \/ Unsubscribe(t)
    \/ Break \/ Accept \/ Refuse \/ ProtocolError \/ Serve \/ Lost

(* main goes round its loop and polls, broken connections are noticed, and   *)
(* the broker answers.                                                       *)
Fairness ==
    /\ WF_vars(Connect) /\ WF_vars(Established) /\ WF_vars(Connacked) /\ WF_vars(Closed)
    /\ WF_vars(Announce)
    /\ WF_vars(Accept) /\ WF_vars(ProtocolError) /\ WF_vars(Serve) /\ WF_vars(Lost)

Spec     == Init /\ [][Next]_vars
FairSpec == Spec /\ Fairness

-----------------------------------------------------------------------------
(* Whatever is lost with broken connections, observers are shown no          *)
(* subscription the broker does not have: the subscription goes out before   *)
(* its announcement, and the session outlives the connection.  Only after    *)
(* the topic was unsubscribed may the news of that have been lost.           *)
ShownIsSubscribed == shown \subseteq session \cup unsubbed

(* Observers of both topics are shown the runtime as running once the broker *)
(* has done what the bridge sent after the handshake, however many           *)
(* connections there were, and never while the broker knows of no            *)
(* connection.  Those of the runtime's own topic alone, on which             *)
(* src/README.md:72 has the start message as well, are never told a start.   *)
RuntimeShown ==
    /\ sock = "open" /\ ~cut /\ wire = <<>> => rt[RtTopics] = "rt-start"
    /\ client = "none" => rt[RtTopics] # "rt-start"
    /\ rt[{s_rt_topic}] # "rt-start"

(* When connections no longer break, the bridge comes to have one, and the   *)
(* runtime is shown as running for good, to observers of both topics.        *)
ComesBack == <>[](sock = "open" /\ rt[RtTopics] = "rt-start")

=============================================================================
