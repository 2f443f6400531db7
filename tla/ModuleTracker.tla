---------------------------- MODULE ModuleTracker ---------------------------
(* What the bridge knows of the modules in the runtime, and what it tells    *)
(* MQTT of them: the module list with its topic lists (module_list.c), the   *)
(* MQTT subscriptions made for the modules, and the events published on the  *)
(* runtime's topic (mqtt.c).  All of it is touched by the main thread only,  *)
(* so one message from the runtime is one step; what is hard is the order in *)
(* which the messages come, that some never do, and that ids come again.     *)
EXTENDS Naturals, Sequences, SequencesExt

CONSTANTS
    Names, Topics,
    MaxInstall,    \* modules installed over the REST interface
    MaxEvent,      \* publishes, subscribes and unsubscribes of the modules
    MaxRestart,    \* restarts of the runtime while the bridge runs on
    Burst,         \* messages one read of the link may return
    EarlyEvents    \* whether a module runs before its install is answered

ASSUME TrackerAssumption ==
    /\ MaxInstall \in Nat /\ MaxEvent \in Nat /\ MaxRestart \in Nat
    /\ Burst \in Nat \ {0}
    /\ EarlyEvents \in BOOLEAN

VARIABLES
    live,       \* the modules in the runtime: [inc, id], inc is never reused
    names,      \* history: names[inc] is the module's name
    nextId,     \* the id the runtime gives next
    rsubs,      \* the subscriptions the modules hold: [inc, topic]
    request,    \* the install or uninstall the bridge waits for
    toBridge,   \* messages of the runtime on their way
    modules,    \* the module list: head first, [inc, id, name, topics]
    subs,       \* topics the bridge is subscribed to at the MQTT broker
    log,        \* what the bridge published on the runtime's topic
    crashed,    \* whether the bridge has died
    swallowed,  \* history: whether a read dropped a message
    shared,     \* history: the topics two modules were subscribed to at once
    left        \* what is left of the bounds on events and restarts

vars == <<live, names, nextId, rsubs, request, toBridge, modules, subs, log,
          crashed, swallowed, shared, left>>

runtime == <<live, names, nextId, rsubs, shared>>
bridge  == <<modules, subs, log, crashed, swallowed>>

NoRequest == [op |-> "NONE", inc |-> 0, answered |-> FALSE]
Unknown   == "unknown"        \* bytes that are no module's name

Spend(b)  == left[b] > 0 /\ left' = [left EXCEPT ![b] = @ - 1]
IdOf(inc) == (CHOOSE m \in live : m.inc = inc).id

(* A message of the runtime; inc is the module it is about, for the          *)
(* properties: the bridge sees the id only.                                  *)
Message(kind, m, arg) == [kind |-> kind, inc |-> m.inc, id |-> m.id, arg |-> arg]

(* An event the bridge publishes; inc as above. *)
Entry(cmd, inc, name, topic) == [cmd |-> cmd, inc |-> inc, name |-> name, topic |-> topic]

-----------------------------------------------------------------------------
(* module_list.c.  Lookups find the first entry with the id.                 *)
Indices(id) == {i \in DOMAIN modules : modules[i].id = id}
Known(id)   == Indices(id) # {}
First(id)   == CHOOSE i \in Indices(id) : \A j \in Indices(id) : i <= j

(* Seeded fault: a new module goes to the end of the list. *)
FaultAddAtTail(m, name) == Append(modules, [inc |-> m.inc, id |-> m.id, name |-> name, topics |-> {}])

module_list_add(m, name) ==
    <<[inc |-> m.inc, id |-> m.id, name |-> name, topics |-> {}]>> \o modules

(* Seeded fault: the entry of an uninstalled module stays. *)
FaultNotDeleted(id) == modules

module_list_del_by_id(id) == IF Known(id) THEN RemoveAt(modules, First(id)) ELSE modules

(* Seeded fault: the topic is reported as new each time. *)
FaultTopicAlwaysNew(id, topic) == Known(id)

TopicIsNew(id, topic) == Known(id) /\ topic \notin modules[First(id)].topics

topic_list_check_and_add(id, topic) ==
    IF TopicIsNew(id, topic)
    THEN [modules EXCEPT ![First(id)].topics = @ \cup {topic}]
    ELSE modules

(* Seeded fault: the event of an unknown module is published all the same. *)
FaultNotifyUnknown(cmd, m) ==
    Append(log, Entry(cmd, m.inc, IF Known(m.id) THEN modules[First(m.id)].name ELSE Unknown,
                      m.arg))

(* mqtt_notify_pubsub_event: silently nothing when the id is unknown. *)
mqtt_notify_pubsub_event(cmd, m) ==
    IF Known(m.id) THEN Append(log, Entry(cmd, m.inc, modules[First(m.id)].name, m.arg))
    ELSE log

-----------------------------------------------------------------------------
Init ==
    /\ live = {} /\ names = <<>> /\ nextId = 1 /\ rsubs = {}
    /\ request = NoRequest
    /\ toBridge = <<>>
    /\ modules = <<>> /\ subs = {} /\ log = <<>> /\ crashed = FALSE
    /\ swallowed = FALSE /\ shared = {}
    /\ left = [event |-> MaxEvent, restart |-> MaxRestart]

(* The runtime (external): it takes one request at a time, since the HTTP    *)
(* thread waits for each, refuses a name in use, and numbers its modules.    *)
Install(name) ==
    /\ request = NoRequest /\ Len(names) < MaxInstall
    /\ \A m \in live : names[m.inc] # name
    /\ LET inc == Len(names) + 1
       IN  /\ live' = live \cup {[inc |-> inc, id |-> nextId]}
           /\ request' = [op |-> "INSTALL", inc |-> inc, answered |-> FALSE]
    /\ names' = Append(names, name)
    /\ nextId' = nextId + 1
    /\ UNCHANGED <<rsubs, shared, toBridge, bridge, left>>

InstallAnswer ==
    /\ request.op = "INSTALL" /\ ~request.answered
    /\ request' = [request EXCEPT !.answered = TRUE]
    /\ \E m \in live :
          m.inc = request.inc /\ toBridge' = Append(toBridge, Message("installed", m, names[m.inc]))
    /\ UNCHANGED <<runtime, bridge, left>>

(* The module and its subscriptions are gone before the answer is sent. *)
Uninstall(m) ==
    /\ request = NoRequest
    /\ live' = live \ {m}
    /\ rsubs' = {s \in rsubs : s.inc # m.inc}
    /\ request' = [op |-> "UNINSTALL", inc |-> m.inc, answered |-> TRUE]
    /\ toBridge' = Append(toBridge, Message("uninstalled", m, names[m.inc]))
    /\ UNCHANGED <<names, nextId, shared, bridge, left>>

(* A module runs while its install is being answered only with EarlyEvents. *)
Runs(m) == EarlyEvents \/ request.inc # m.inc \/ request.answered

ModulePublish(m, topic) ==
    /\ Runs(m) /\ Spend("event")
    /\ toBridge' = Append(toBridge, Message("pub", m, topic))
    /\ UNCHANGED <<runtime, request, bridge>>

ModuleSubscribe(m, topic) ==
    /\ Runs(m) /\ Spend("event")
    /\ rsubs' = rsubs \cup {[inc |-> m.inc, topic |-> topic]}
    /\ shared' = IF \E s \in rsubs : s.topic = topic /\ s.inc # m.inc
                 THEN shared \cup {topic} ELSE shared
    /\ toBridge' = Append(toBridge, Message("sub", m, topic))
    /\ UNCHANGED <<live, names, nextId, request, bridge>>

ModuleUnsubscribe(m, topic) ==
    /\ Runs(m) /\ Spend("event")
    /\ [inc |-> m.inc, topic |-> topic] \in rsubs
    /\ rsubs' = rsubs \ {[inc |-> m.inc, topic |-> topic]}
    /\ toBridge' = Append(toBridge, Message("unsub", m, topic))
    /\ UNCHANGED <<live, names, nextId, shared, request, bridge>>

(* The runtime dies and starts again without modules; the bridge reconnects  *)
(* and keeps what it knows.  What was on its way may arrive or not.  A       *)
(* request whose answer is lost stays open, unless the response to a         *)
(* forwarded publish releases the HTTP thread (BridgeRequests).              *)
RuntimeRestart ==
    /\ Spend("restart")
    /\ live' = {} /\ rsubs' = {} /\ nextId' = 1
    /\ \E k \in 0 .. Len(toBridge) :
          /\ toBridge' = SubSeq(toBridge, 1, k)
          /\ request' = request
             \/ /\ \A i \in 1 .. k : toBridge[i].kind \notin {"installed", "uninstalled"}
                /\ request' = NoRequest
    /\ UNCHANGED <<names, shared, bridge>>

-----------------------------------------------------------------------------
(* The main thread handles the first message of what one read returned; the  *)
(* others in the buffer are lost.                                            *)
Take(kind) ==
    /\ toBridge # <<>> /\ Head(toBridge).kind = kind
    /\ \E k \in 1 .. Burst :
          /\ k <= Len(toBridge)
          /\ toBridge' = SubSeq(toBridge, k + 1, Len(toBridge))
          /\ swallowed' = (swallowed \/ k > 1)

(* The names install_response_get_module_id_and_name may leave in the local  *)
(* buffer it was given, of length 50 or 0: that of the module, or whatever   *)
(* was there, an earlier name or anything else.                              *)
NameRead(m, length) == IF length > 0 THEN {m.arg} ELSE Names \cup {Unknown}

HandleInstalled ==
    /\ Take("installed")
    /\ LET m == Head(toBridge)
       IN  /\ modules' = module_list_add(m, m.arg)
           /\ \E name \in NameRead(m, 50) :
                 log' = Append(log, Entry("module-inst", m.inc, name, "none"))
    /\ request' = NoRequest
    /\ UNCHANGED <<runtime, subs, crashed, left>>

(* topic_list_del_all goes on from the list node it has just freed, which    *)
(* ends the loop, or the process.                                            *)
ReadsFreedTopic(id) == Known(id) /\ modules[First(id)].topics # {}

HandleUninstalled ==
    /\ Take("uninstalled")
    /\ LET m == Head(toBridge)
       IN  \/ /\ modules' = module_list_del_by_id(m.id)
              /\ \E name \in NameRead(m, 0) :
                    log' = Append(log, Entry("module-uninst", m.inc, name, "none"))
              /\ UNCHANGED crashed
           \/ /\ ReadsFreedTopic(m.id)
              /\ crashed' = TRUE
              /\ UNCHANGED <<modules, log>>
    /\ request' = NoRequest
    /\ UNCHANGED <<runtime, subs, left>>

(* Seeded fault: only the subscriptions of known modules are passed on. *)
FaultSubscribeKnown(m) == IF Known(m.id) THEN subs \cup {m.arg} ELSE subs

(* mg_mqtt_subscribe, whoever the module is. *)
Subscribed(m) == subs \cup {m.arg}

(* mqtt_process_runtime_event. *)
HandleSub ==
    /\ Take("sub")
    /\ subs' = Subscribed(Head(toBridge))
    /\ log' = mqtt_notify_pubsub_event("sub-start", Head(toBridge))
    /\ UNCHANGED <<runtime, request, modules, crashed, left>>

HandleUnsub ==
    /\ Take("unsub")
    /\ subs' = subs \ {Head(toBridge).arg}
    /\ log' = mqtt_notify_pubsub_event("sub-stop", Head(toBridge))
    /\ UNCHANGED <<runtime, request, modules, crashed, left>>

HandlePub ==
    /\ Take("pub")
    /\ LET m == Head(toBridge)
       IN  /\ modules' = topic_list_check_and_add(m.id, m.arg)
           /\ log' = IF TopicIsNew(m.id, m.arg) THEN mqtt_notify_pubsub_event("pub-start", m)
                     ELSE log
    /\ UNCHANGED <<runtime, request, subs, crashed, left>>

-----------------------------------------------------------------------------
Runtime ==
    \/ \E name \in Names : Install(name)
    \/ InstallAnswer
    \/ \E m \in live :
          \/ Uninstall(m)
          \/ \E topic \in Topics :
                \/ ModulePublish(m, topic)
                \/ ModuleSubscribe(m, topic)
                \/ ModuleUnsubscribe(m, topic)
    \/ RuntimeRestart

Bridge == HandleInstalled \/ HandleUninstalled \/ HandleSub \/ HandleUnsub \/ HandlePub

Next == ~crashed /\ (Runtime \/ Bridge)

Spec == Init /\ [][Next]_vars

-----------------------------------------------------------------------------
Commands == {"module-inst", "module-uninst", "pub-start", "sub-start", "sub-stop"}

(* Every variable holds a value of its kind. *)
TypeOK ==
    /\ live \subseteq [inc : DOMAIN names, id : 1 .. MaxInstall]
    /\ names \in Seq(Names)
    /\ nextId \in Nat \ {0}
    /\ rsubs \subseteq [inc : DOMAIN names, topic : Topics]
    /\ request \in [op : {"NONE", "INSTALL", "UNINSTALL"}, inc : Nat, answered : BOOLEAN]
    /\ \A i \in DOMAIN modules :
          /\ modules[i].inc \in DOMAIN names /\ modules[i].name \in Names
          /\ modules[i].topics \subseteq Topics
    /\ subs \subseteq Topics
    /\ \A i \in DOMAIN log :
          /\ log[i].cmd \in Commands /\ log[i].inc \in DOMAIN names
          /\ log[i].name \in (IF log[i].cmd = "module-uninst" THEN Names \cup {Unknown}
                              ELSE Names)
    /\ crashed \in BOOLEAN /\ swallowed \in BOOLEAN /\ shared \subseteq Topics

IsChild(e) == e.cmd \in {"pub-start", "sub-start", "sub-stop"}

Restarted == left.restart < MaxRestart

(* An event about a module's topic is published under a name that some       *)
(* module was announced under which has not been uninstalled since.          *)
ParentAnnounced ==
    \A i \in DOMAIN log : IsChild(log[i]) =>
        \E j \in 1 .. i :
            /\ log[j].cmd = "module-inst" /\ log[j].name = log[i].name
            /\ ~ \E k \in j .. i : log[k].cmd = "module-uninst" /\ log[k].inc = log[j].inc

(* To an observer, who has the names only, the parent of an event is there   *)
(* when the last module event under its name was module-inst.                *)
ParentThere(i) ==
    \E j \in 1 .. i :
        /\ log[j].cmd = "module-inst" /\ log[j].name = log[i].name
        /\ ~ \E k \in j .. i : log[k].cmd = "module-uninst" /\ log[k].name = log[i].name

(* A module-uninst under a name that was not its module's. *)
Misnamed(name) ==
    \E k \in DOMAIN log :
        log[k].cmd = "module-uninst" /\ log[k].name = name /\ names[log[k].inc] # name

ParentSeen ==
    \A i \in DOMAIN log :
        IsChild(log[i]) /\ ~Restarted /\ ~Misnamed(log[i].name) => ParentThere(i)

(* However early modules run and whatever the reads lose, an event about a   *)
(* topic comes under the name of a module that was announced and not         *)
(* uninstalled.  An observer sees it below its parent, then, unless the name *)
(* was taken back for another module: by a module-uninst with a name that is *)
(* not its module's, or after a restart by that of a namesake, whose older   *)
(* entry is still in the list.                                               *)
ChildrenWithinParent == ParentAnnounced /\ ParentSeen

(* Once a module is announced, an event about a topic of it carries its name,*)
(* not that of another module which had the same id before a restart of the  *)
(* runtime and is still in the list.                                         *)
AttributedRight ==
    \A i, j \in DOMAIN log :
        j < i /\ log[j].cmd = "module-inst" /\ log[j].inc = log[i].inc /\ IsChild(log[i])
            => log[i].name = names[log[i].inc]

(* pub-start is published at most once for a module and topic: "when a       *)
(* module publishes for the first time".  After a restart of the runtime an  *)
(* early publish is taken for the old module's with the same id.             *)
PubStartOnce ==
    ~Restarted => \A i, j \in DOMAIN log :
        log[i].cmd = "pub-start" /\ log[i] = log[j] => i = j

CaughtUp == ~crashed /\ ~swallowed /\ toBridge = <<>>

(* When no message is on its way and no read has dropped one, every topic a  *)
(* module is subscribed to is subscribed to at the broker, whatever module   *)
(* or topic it is and even over a restart of the runtime; unless two modules *)
(* shared the topic, when the first to unsubscribe takes it from both.       *)
SubscriptionsCovered ==
    CaughtUp => \A s \in rsubs : s.topic \in subs \cup shared

(* When no message is on its way, no read has dropped one and no request is  *)
(* open, the list holds the modules that are in the runtime, under their     *)
(* ids, and no others; unless the runtime was started again, which the list  *)
(* does not notice.                                                          *)
ListMatchesRuntime ==
    CaughtUp /\ request = NoRequest /\ ~Restarted =>
        {[inc |-> modules[i].inc, id |-> modules[i].id] : i \in DOMAIN modules} = live

-----------------------------------------------------------------------------
(* What the README says of the events. *)

(* README.md, "Module install/uninstall events": module-uninst carries       *)
(* "<module name>".                                                          *)
UninstallNamed ==
    \A i \in DOMAIN log : log[i].cmd = "module-uninst" => log[i].name = names[log[i].inc]

=============================================================================
