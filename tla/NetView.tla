------------------------------ MODULE NetView -------------------------------
(* The graph of runtimes, modules and topics as an observer sees it.  The    *)
(* bridge publishes events (mqtt.c); the state service keeps what they add   *)
(* up to (net-state.py); a page fetches that state once and follows the      *)
(* events from then on (code.js).  Both learn from rt-start which topic to   *)
(* subscribe to, and no message is retained, so what they miss is missed.    *)
(* One runtime; the broker delivers in order to those that are subscribed.   *)
EXTENDS Naturals, Sequences, FiniteSets, SequencesExt

CONSTANTS
    Modules, Topics,
    MaxEvent,   \* events published
    MaxPage     \* times the page connects or the state is deleted

ASSUME NetAssumption ==
    MaxEvent \in Nat /\ MaxPage \in Nat

VARIABLES
    connected,  \* whether the bridge is connected to the broker
    listed,     \* entries of the bridge's module list with each name
    published,  \* ids of the topics pub-start has come for since
    asking,     \* subscriptions on their way to the broker: <<client, topic>>
    subscribed, \* subscriptions of each client
    queue,      \* messages on their way to each client
    node_dict,  \* the service's nodes, in the order they came
    page,       \* the page: [cy, edges, pubs, subs]
    get,        \* the page's fetch: << >>, <<"asked">> or <<"reply", nodes>>
    loaded,     \* whether the page has ever connected
    raced,      \* history: ids of events that service and page took differently
    dropped,    \* history: ids the page removed
    left        \* what is left of the bounds

world == <<connected, listed, published>>
vars == <<world, asking, subscribed, queue, node_dict, page, get, loaded, raced,
          dropped, left>>

Clients  == {"service", "page"}
Spend(b) == left[b] > 0 /\ left' = [left EXCEPT ![b] = @ - 1]

(* An id names its path, as "%s.%s" does: the runtime, then the module, then *)
(* the topic.  A publisher and a subscriber of one module have one id.  "no" *)
(* tells an event from another that says the same.                           *)
Runtime    == <<>>
Unknown    == "unknown"
ModuleIds  == {<<m>> : m \in Modules \cup {Unknown}}
TopicIds   == {<<m, t>> : m \in Modules, t \in Topics}
Ids        == {Runtime} \cup ModuleIds \cup TopicIds
Node(kind, id)       == [kind |-> kind, id |-> id]
Event(cmd, kind, id) == [cmd |-> cmd, kind |-> kind, id |-> id, no |-> left.event]
IdsOf(s)             == {s[i].id : i \in DOMAIN s}

Init ==
    /\ connected = FALSE /\ listed = [m \in Modules |-> 0] /\ published = {}
    /\ asking = {}
    /\ subscribed = [c \in Clients |-> IF c = "service" THEN {"realm"} ELSE {}]
    /\ queue = [c \in Clients |-> <<>>]
    /\ node_dict = <<>>
    /\ page = [cy |-> {}, edges |-> {}, pubs |-> {}, subs |-> {}]
    /\ get = <<>> /\ loaded = FALSE
    /\ raced = {} /\ dropped = {}
    /\ left = [event |-> MaxEvent, page |-> MaxPage]

-----------------------------------------------------------------------------
(* The broker (external): a message goes to those subscribed at that moment. *)
(* Of what only the service gets, a page has the new nodes from the reply it *)
(* waits for, unless an older event of its queue undoes them; a reply never  *)
(* removes a node.                                                           *)
InReply(e) == get = <<"asked">> /\ e.cmd = "start" /\ e.id \notin IdsOf(queue["page"])

Publish(topic, e) ==
    /\ Spend("event")
    /\ queue' = [c \in Clients |-> IF topic \in subscribed[c] THEN Append(queue[c], e)
                                   ELSE queue[c]]
    /\ LET s == topic \in subscribed["service"]
           p == topic \in subscribed["page"]
       IN  raced' = IF s = p \/ ~loaded \/ (s /\ InReply(e)) THEN raced
                    ELSE raced \cup {e.id}

Subscribe(c, topic) ==
    /\ <<c, topic>> \in asking
    /\ asking' = asking \ {<<c, topic>>}
    /\ subscribed' = [subscribed EXCEPT ![c] = @ \cup {topic}]
    /\ UNCHANGED <<world, queue, node_dict, page, get, loaded, raced, dropped, left>>

observers == <<asking, subscribed, node_dict, page, get, loaded, dropped>>

(* MG_EV_MQTT_CONNACK. *)
RtStart ==
    /\ ~connected /\ connected' = TRUE
    /\ Publish("realm", Event("start", "runtime", Runtime))
    /\ UNCHANGED <<listed, published, observers>>

(* The last will, when the connection of the bridge dies, or the bridge with *)
(* its lists.                                                                *)
LastWill ==
    /\ connected /\ connected' = FALSE
    /\ \/ UNCHANGED <<listed, published>>
       \/ listed' = [m \in Modules |-> 0] /\ published' = {}
    /\ Publish("rt", Event("stop", "runtime", Runtime))
    /\ UNCHANGED observers

OfOthers(m) == {id \in published : id[1] # m}

(* Again for a name that is listed, when the runtime was started again; the  *)
(* new entry has no topics yet.                                              *)
ModuleInst(m) ==
    /\ connected
    /\ listed' = [listed EXCEPT ![m] = @ + 1]
    /\ published' = OfOthers(m)
    /\ Publish("rt", Event("start", "module", <<m>>))
    /\ UNCHANGED <<connected, observers>>

(* An older entry of the name may remain.  The name in the event need not be *)
(* the module's (ModuleTracker).                                             *)
ModuleUninst(m) ==
    /\ connected /\ listed[m] > 0
    /\ listed' = [listed EXCEPT ![m] = @ - 1]
    /\ published' = OfOthers(m)
    /\ \E id \in ModuleIds : Publish("rt", Event("stop", "module", id))
    /\ UNCHANGED <<connected, observers>>

(* pub-start is for the first time only; sub-start is repeated. *)
TopicStart(m, t, kind) ==
    /\ connected /\ listed[m] > 0
    /\ IF kind = "pub" THEN <<m, t>> \notin published /\ published' = published \cup {<<m, t>>}
       ELSE UNCHANGED published
    /\ Publish("rt", Event("start", kind, <<m, t>>))
    /\ UNCHANGED <<connected, listed, observers>>

(* Under a name no sub-start came with, when that came before the install    *)
(* was answered (ModuleTracker).                                             *)
SubStop(m, t) ==
    /\ connected /\ listed[m] > 0
    /\ Publish("rt", Event("stop", "sub", <<m, t>>))
    /\ UNCHANGED <<world, observers>>

(* deleteRuntime of a page, for the runtime that is selected there. *)
DeleteRuntime ==
    /\ \E n \in page.cy : n.id = Runtime
    /\ Publish("rt", Event("stop", "runtime", Runtime))
    /\ UNCHANGED <<world, observers>>

-----------------------------------------------------------------------------
(* net-state.py: handle_mqtt_message. *)

Place(dict, id) == CHOOSE i \in DOMAIN dict : dict[i].id = id
Without(dict, id) ==
    IF id \in IdsOf(dict) THEN RemoveAt(dict, Place(dict, id)) ELSE dict
With(dict, n) == IF n.id \in IdsOf(dict) THEN dict ELSE Append(dict, n)

(* Seeded fault: a node is added again. *)
FaultAddsAgain(dict, e) ==
    IF e.cmd = "stop" THEN Without(dict, e.id) ELSE Append(dict, Node(e.kind, e.id))

(* Seeded fault: sub-stop removes nothing. *)
FaultSubsStay(dict, e) ==
    IF e.cmd # "stop" THEN With(dict, Node(e.kind, e.id))
    ELSE IF e.kind = "sub" THEN dict ELSE Without(dict, e.id)

handle_mqtt_message(dict, e) ==
    IF e.cmd = "stop" THEN Without(dict, e.id) ELSE With(dict, Node(e.kind, e.id))

AskFor(c, es) == asking \cup {<<c, "rt">> : e \in {f \in es : f.id = Runtime}}

ServiceMessage ==
    /\ queue["service"] # <<>>
    /\ LET e == Head(queue["service"])
       IN  /\ node_dict' = handle_mqtt_message(node_dict, e)
           /\ asking' = IF e.cmd = "start" THEN AskFor("service", {e}) ELSE asking
    /\ queue' = [queue EXCEPT !["service"] = Tail(@)]
    /\ UNCHANGED <<world, subscribed, page, get, loaded, raced, dropped, left>>

(* GET: what is still in the service's queue is not in the reply, and the    *)
(* page has it only if it is still in the page's queue too.                  *)
NetState ==
    /\ get = <<"asked">>
    /\ get' = <<"reply", node_dict>>
    /\ raced' = raced \cup {e.id : e \in ToSet(queue["service"]) \ ToSet(queue["page"])}
    /\ UNCHANGED <<world, asking, subscribed, queue, node_dict, page, loaded, dropped, left>>

NetDelete ==
    /\ Spend("page")
    /\ node_dict' = <<>>
    /\ raced' = raced \cup IdsOf(node_dict)
    /\ UNCHANGED <<world, asking, subscribed, queue, page, get, loaded, dropped>>

-----------------------------------------------------------------------------
(* code.js.  cy.add (external) ignores an id it has, and a parent it has not;*)
(* cy.remove takes the children and the edges of a node with it.             *)
Has(cy, id) == \E n \in cy : n.id = id

Added(cy, e) ==
    IF Has(cy, e.id) THEN cy
    ELSE cy \cup {[kind |-> e.kind, id |-> e.id,
                   child |-> e.id # Runtime /\ Has(cy, Front(e.id))]}

ChildrenOf(cy, S) == {n \in cy : n.child /\ \E m \in S : m.id = Front(n.id)}
Removed(cy, id) ==
    LET top == {n \in cy : n.id = id}
        kids == ChildrenOf(cy, top)
    IN  top \cup kids \cup ChildrenOf(cy, kids)

(* Seeded fault: the edges are not looked at again for a subscriber. *)
FaultPubsOnly(kind) == kind = "pub"

ConnChange(kind) == kind \in {"pub", "sub"}

(* An edge from each publisher to each subscriber of the same topic. *)
Edges(cy, pubs, subs) ==
    {x \in pubs \X subs : x[1][2] = x[2][2] /\ Has(cy, x[1]) /\ Has(cy, x[2])}

loadNode(pg, e) ==
    LET cy    == IF e.cmd = "start" THEN Added(pg.cy, e) ELSE pg.cy \ Removed(pg.cy, e.id)
        pubs  == IF e.kind # "pub" THEN pg.pubs
                 ELSE IF e.cmd = "start" THEN pg.pubs \cup {e.id} ELSE pg.pubs \ {e.id}
        subs  == IF e.kind # "sub" THEN pg.subs
                 ELSE IF e.cmd = "start" THEN pg.subs \cup {e.id} ELSE pg.subs \ {e.id}
        kept  == {x \in pg.edges : Has(cy, x[1]) /\ Has(cy, x[2])}
    IN  [cy |-> cy, pubs |-> pubs, subs |-> subs,
         edges |-> IF ConnChange(e.kind) THEN kept \cup Edges(cy, pubs, subs) ELSE kept]

(* startConnect and onConnect, or reConnect: a new client, the same page.    *)
(* What was on its way to the old client is lost.  One fetch at a time.      *)
PageConnect ==
    /\ get = <<>> /\ Spend("page")
    /\ subscribed' = [subscribed EXCEPT !["page"] = {}]
    /\ asking' = {a \in asking : a[1] # "page"} \cup {<<"page", "realm">>}
    /\ queue' = [queue EXCEPT !["page"] = <<>>]
    /\ raced' = raced \cup IdsOf(queue["page"])
    /\ get' = <<"asked">> /\ loaded' = TRUE
    /\ UNCHANGED <<world, node_dict, page, dropped>>

(* onMessageArrived. *)
PageMessage ==
    /\ queue["page"] # <<>>
    /\ LET e == Head(queue["page"])
       IN  /\ page' = loadNode(page, e)
           /\ asking' = IF e.cmd = "start" THEN AskFor("page", {e}) ELSE asking
           /\ dropped' = IF e.cmd = "stop" THEN dropped \cup {e.id} ELSE dropped
           (* A stop that overtakes the reply which still has the node. *)
           /\ raced' = IF /\ e.cmd = "stop" /\ get # <<>> /\ get # <<"asked">>
                          /\ e.id \in IdsOf(get[2])
                       THEN raced \cup {e.id} ELSE raced
    /\ queue' = [queue EXCEPT !["page"] = Tail(@)]
    /\ UNCHANGED <<world, subscribed, node_dict, get, loaded, left>>

(* All nodes of the reply, one after the other, without interruption. *)
loadNodesFromDataArray(pg, nodes) ==
    LET after[i \in 0 .. Len(nodes)] ==
            IF i = 0 THEN pg
            ELSE loadNode(after[i - 1],
                          [cmd |-> "start", kind |-> nodes[i].kind, id |-> nodes[i].id])
    IN  after[Len(nodes)]

PageReply ==
    /\ get # <<>> /\ get # <<"asked">>
    /\ page' = loadNodesFromDataArray(page, get[2])
    /\ asking' = AskFor("page", ToSet(get[2]))
    /\ get' = <<>>
    /\ UNCHANGED <<world, subscribed, queue, node_dict, loaded, raced, dropped, left>>

-----------------------------------------------------------------------------
Bridge == \/ RtStart \/ LastWill
          \/ \E m \in Modules :
                \/ ModuleInst(m) \/ ModuleUninst(m)
                \/ \E t \in Topics :
                      \/ \E kind \in {"pub", "sub"} : TopicStart(m, t, kind)
                      \/ SubStop(m, t)
Service == ServiceMessage \/ NetState \/ NetDelete
Page == PageConnect \/ PageMessage \/ PageReply \/ DeleteRuntime

Next == \/ Bridge \/ Service \/ Page
        \/ \E c \in Clients, topic \in {"realm", "rt"} : Subscribe(c, topic)

Spec == Init /\ [][Next]_vars

-----------------------------------------------------------------------------
Kinds == {"runtime", "module", "pub", "sub"}

(* Every variable holds a value of its kind, and the service has one node    *)
(* for an id.                                                                *)
TypeOK ==
    /\ connected \in BOOLEAN /\ listed \in [Modules -> Nat]
    /\ published \subseteq TopicIds
    /\ asking \subseteq Clients \X {"realm", "rt"}
    /\ subscribed \in [Clients -> SUBSET {"realm", "rt"}]
    /\ \A c \in Clients : \A i \in DOMAIN queue[c] :
          queue[c][i] \in [cmd : {"start", "stop"}, kind : Kinds, id : Ids, no : 1 .. MaxEvent]
    /\ ToSet(node_dict) \subseteq [kind : Kinds, id : Ids]
    /\ Cardinality(IdsOf(node_dict)) = Len(node_dict)
    /\ page.cy \subseteq [kind : Kinds, id : Ids, child : BOOLEAN]
    /\ page.edges \subseteq TopicIds \X TopicIds
    /\ page.pubs \subseteq TopicIds /\ page.subs \subseteq TopicIds
    /\ Len(get) <= 2 /\ loaded \in BOOLEAN
    /\ raced \subseteq Ids /\ dropped \subseteq Ids

(* When everything has arrived, service and page have the same nodes, except *)
(* those of events that one of them missed or took before an older snapshot; *)
(* and except that a page drops with a node what is below it, which the      *)
(* service keeps.                                                            *)
SameGraph ==
    loaded /\ get = <<>> /\ (\A c \in Clients : queue[c] = <<>>) =>
        \A id \in Ids \ raced :
            /\ Has(page.cy, id) => id \in IdsOf(node_dict)
            /\ id \in IdsOf(node_dict) =>
                  Has(page.cy, id) \/ \E i \in 0 .. Len(id) - 1 : SubSeq(id, 1, i) \in dropped

(* A page has an edge for each publisher and subscriber of one topic that it *)
(* shows, in whatever order they came.                                       *)
EdgesComplete ==
    \A p, s \in page.cy :
        p.kind = "pub" /\ s.kind = "sub" /\ p.id[2] = s.id[2] => <<p.id, s.id>> \in page.edges

=============================================================================
