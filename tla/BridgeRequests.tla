--------------------------- MODULE BridgeRequests ---------------------------
(* The request/response core of the bridge: the HTTP thread and the main     *)
(* thread of bridge-tool share one runtime link and one record of "the"      *)
(* pending request (g_mid, g_req_op_type), guarded by a mutex and a          *)
(* condition variable.  The HTTP thread sends one REST request and sleeps    *)
(* until the main thread has handled a response; the main thread reads the   *)
(* link and forwards MQTT publishes as requests of its own.                  *)
(*                                                                           *)
(* One action is one step between two points where the other thread, the     *)
(* runtime or the network can come in between: each unlocked access to a     *)
(* shared variable and each write to the socket is a step.                   *)
EXTENDS Naturals, Sequences, FiniteSets

CONSTANTS
    MaxHttp,     \* REST requests the clients send
    MaxPublish,  \* MQTT publishes on topics the bridge is subscribed to
    MaxEvent,    \* events (publish/subscribe requests) the runtime sends
    MaxBreak     \* losses of the runtime connection

ASSUME BoundsAssumption ==
    /\ MaxHttp \in Nat
    /\ MaxPublish \in Nat
    /\ MaxEvent \in Nat
    /\ MaxBreak \in Nat

VARIABLES
    pc,          \* where each thread is
    mid,         \* the message id of the request each thread is sending
    ret,         \* where main goes on when mqtt_pool_requests returns
    reqs,        \* history: reqs[m] is the operation of the request with id m
    g_mid, g_op, \* the pending request: g_mid and g_req_op_type
    mutex,       \* mutex_request: the thread that holds it, or "free"
    resp,        \* main's local: the response being handled
    rmid, rop,   \* main's locals: what get_pending_request_info read
    last_status, \* last_response_status: whose status it is, and whether a success
    last_str,    \* last_response_str: whose text it holds, and whether a mixture
    toRt,        \* bytes on the way to the runtime, in chunks
    fromRt,      \* messages on the way to the bridge
    recv_ctx,    \* what recv_ctx holds the beginning of
    torn,        \* history: whether the bridge was sent a part of a message without
                 \* its rest, or the rest of one read in part was taken for a frame
    linkUp,      \* whether the runtime connection is alive
    working,     \* requests the runtime has received and not yet answered
    inbox,       \* MQTT publishes that wait in the bridge's MQTT socket
    replies,     \* history: what the HTTP clients were sent
    modEvents,   \* history: the module events published, with the id of their request
    left         \* how much of each bound is left

vars == <<pc, mid, ret, reqs, g_mid, g_op, mutex, resp, rmid, rop, last_status,
          last_str, toRt, fromRt, recv_ctx, torn, linkUp, working, inbox, replies,
          modEvents, left>>

shared  == <<g_mid, g_op, mutex>>
handled == <<resp, rmid, rop>>
result  == <<last_status, last_str>>
inward  == <<fromRt, recv_ctx, torn>>
wires   == <<toRt, inward, linkUp, working>>
history == <<reqs, replies, modEvents>>

Threads == {"http", "main"}
RestOps == {"INSTALL", "UNINSTALL", "QUERY"}
Ops     == RestOps \cup {"REQUEST"}
NONE    == "NONE"

HttpPCs == {"idle", "register", "setOp", "head", "payload", "wait", "asleep",
            "reply", "free", "crashed"}
MainPCs == {"select", "pool", "register", "setOp", "head", "payload", "getMid",
            "getOp", "check", "status", "str", "received", "returned", "gaveUp"}

(* A message of the runtime.  The body is the text its payload is printed    *)
(* as: its own, a mixture with bytes that followed, or none.  Of one that is *)
(* cut only the beginning was sent.                                          *)
Message(kind, m, ok, body) ==
    [kind |-> kind, mid |-> m, ok |-> ok, body |-> body, cut |-> FALSE]
Response(m, ok, body) == Message("response", m, ok, body)
Event    == Message("event", 0, FALSE, "none")
Nothing  == Message("nothing", 0, FALSE, "none")

(* Bytes that are taken for a response and parse for nobody's, or not at     *)
(* all: main ignores the NULL of parse_response_from_imrtlink, and goes on   *)
(* with a response of zeroes.                                                *)
Stray    == Response(0, FALSE, "none")

Messages == [kind : {"response", "event", "nothing"}, mid : Nat, ok : BOOLEAN,
             body : {"own", "mixed", "none"}, cut : BOOLEAN]
Chunks   == [mid : Nat, part : {"head", "payload"}]
Statuses == [mid : Nat, ok : BOOLEAN]
Texts    == [mid : Nat, mixed : BOOLEAN]
Replies  == [to : Nat, code : {"400", "405", "500", "runtime"}, status : Statuses,
             body : Texts]
NoStatus == [mid |-> 0, ok |-> FALSE]
NULL     == [mid |-> 0, mixed |-> FALSE]

(* exit, a return from main and a crash end both threads. *)
Running == pc["main"] \notin {"returned", "gaveUp"} /\ pc["http"] # "crashed"

Goto(t, l) == pc' = [pc EXCEPT ![t] = l]
Spend(b)   == left[b] > 0 /\ left' = [left EXCEPT ![b] = @ - 1]

(* An answer put together by the HTTP handler itself. *)
Refuse(to, code) ==
    replies' = Append(replies, [to |-> to, code |-> code, status |-> NoStatus, body |-> NULL])

-----------------------------------------------------------------------------
Init ==
    /\ pc = [t \in Threads |-> IF t = "http" THEN "idle" ELSE "select"]
    /\ mid = [t \in Threads |-> 0]
    /\ ret = "select"
    /\ reqs = <<>>
    /\ g_mid = 0 /\ g_op = NONE /\ mutex = "free"
    /\ resp = Event /\ rmid = 0 /\ rop = NONE
    /\ last_status = NoStatus /\ last_str = NULL
    /\ toRt = <<>> /\ fromRt = <<>> /\ recv_ctx = Nothing /\ torn = FALSE
    /\ linkUp = TRUE /\ working = {}
    /\ inbox = 0
    /\ replies = <<>> /\ modEvents = {}
    /\ left = [http |-> MaxHttp, publish |-> MaxPublish,
               event |-> MaxEvent, break |-> MaxBreak]

-----------------------------------------------------------------------------
(* Sending a request, by either thread: rt_req_*, then send_request.         *)

(* A random number, taken to be a fresh one. *)
gen_random_id == Len(reqs) + 1

(* The request gets its id.                                                  *)
NewRequest(t, op) ==
    /\ reqs' = Append(reqs, op)
    /\ mid' = [mid EXCEPT ![t] = gen_random_id]
    /\ Goto(t, "register")

(* Seeded fault: rt_conn_request_sent forgets the mutex. *)
FaultRequestSentUnlocked(t) ==
    /\ pc[t] = "register"
    /\ g_mid' = mid[t]
    /\ Goto(t, "setOp")
    /\ UNCHANGED <<mid, ret, g_op, mutex, handled, result, wires, inbox, history, left>>

(* rt_conn_request_sent: two assignments under the mutex. *)
RequestSentMid(t) ==
    /\ pc[t] = "register" /\ mutex = "free"
    /\ mutex' = t
    /\ g_mid' = mid[t]
    /\ Goto(t, "setOp")
    /\ UNCHANGED <<mid, ret, g_op, handled, result, wires, inbox, history, left>>

RequestSentOp(t) ==
    /\ pc[t] = "setOp"
    /\ g_op' = reqs[mid[t]]
    /\ mutex' = "free"
    /\ Goto(t, "head")
    /\ UNCHANGED <<mid, ret, g_mid, handled, result, wires, inbox, history, left>>

(* Seeded fault: the main thread, too, waits for the response it asked for. *)
FaultEverySenderWaits(t) == "wait"

(* What a thread does when rt_req_* has returned, whatever its result. *)
AfterSend(t) == IF t = "http" THEN "wait" ELSE "pool"

(* A successful host_tool_send_data.  The writes of the leading bytes, the   *)
(* type and the length count as one chunk, the payload's as another.  What   *)
(* is written to a dead connection before TCP notices is gone.               *)
SendChunk(t) ==
    /\ pc[t] \in {"head", "payload"}
    /\ toRt' = IF linkUp THEN Append(toRt, [mid |-> mid[t], part |-> pc[t]]) ELSE toRt
    /\ Goto(t, IF pc[t] = "head" THEN "payload" ELSE AfterSend(t))
    /\ UNCHANGED <<mid, ret, shared, handled, result, inward, linkUp, working,
                   inbox, history, left>>

(* Seeded fault: a failed send withdraws the request, and the wait ends at once. *)
FaultSendFailsWithdraws(t) ==
    /\ pc[t] \in {"head", "payload"} /\ ~linkUp
    /\ Refuse(mid[t], "400")
    /\ g_op' = NONE
    /\ Goto(t, AfterSend(t))
    /\ UNCHANGED <<mid, ret, g_mid, mutex, handled, result, wires, inbox, reqs,
                   modEvents, left>>

(* host_tool_send_data fails and send_request gives up.  The install and     *)
(* uninstall handlers answer 400, the query handler does not look, and all   *)
(* three then wait: http_handle_modules ignores their results.               *)
SendFails(t) ==
    /\ pc[t] \in {"head", "payload"} /\ ~linkUp
    /\ IF t = "http" /\ reqs[mid[t]] \in {"INSTALL", "UNINSTALL"}
       THEN Refuse(mid[t], "400")
       ELSE UNCHANGED replies
    /\ Goto(t, AfterSend(t))
    /\ UNCHANGED <<mid, ret, shared, handled, result, wires, inbox, reqs,
                   modEvents, left>>

-----------------------------------------------------------------------------
(* The HTTP thread: http_handle_modules.                                     *)

(* A request the handler accepts. *)
HttpStart(op) ==
    /\ pc["http"] = "idle" /\ Spend("http")
    /\ NewRequest("http", op)
    /\ UNCHANGED <<ret, shared, handled, result, wires, inbox, replies, modEvents>>

(* A POST or DELETE the handler refuses before a request exists (bad body,   *)
(* wrong content type, unreadable file): 400 or 415, and then the wait.      *)
HttpReject ==
    /\ pc["http"] = "idle" /\ Spend("http")
    /\ mid' = [mid EXCEPT !["http"] = 0]
    /\ Refuse(0, "400")
    /\ Goto("http", "wait")
    /\ UNCHANGED <<ret, shared, handled, result, wires, inbox, reqs, modEvents>>

(* A POST or DELETE without a content type: the handlers compare the header  *)
(* they did not find, which is a null pointer.                               *)
HttpCrash ==
    /\ pc["http"] = "idle" /\ Spend("http")
    /\ Goto("http", "crashed")
    /\ UNCHANGED <<mid, ret, shared, handled, result, wires, inbox, history>>

(* Any other method: 405, and no wait. *)
HttpBadMethod ==
    /\ pc["http"] = "idle" /\ Spend("http")
    /\ Refuse(0, "405")
    /\ UNCHANGED <<pc, mid, ret, shared, handled, result, wires, inbox, reqs, modEvents>>

(* rt_conn_wait_pending_response: the test of the while loop, under the      *)
(* mutex; pthread_cond_wait releases the mutex and falls asleep in one step. *)
WaitTest ==
    /\ pc["http"] = "wait" /\ mutex = "free"
    /\ Goto("http", IF g_op = NONE THEN "reply" ELSE "asleep")
    /\ UNCHANGED <<mid, ret, shared, handled, result, wires, inbox, history, left>>

(* Seeded fault: the loop of rt_conn_wait_pending_response written as an if. *)
FaultWaitOnce ==
    /\ pc["http"] = "asleep"
    /\ Goto("http", "reply")
    /\ UNCHANGED <<mid, ret, shared, handled, result, wires, inbox, history, left>>

(* pthread_cond_wait may return without a signal. *)
SpuriousWakeup ==
    /\ pc["http"] = "asleep"
    /\ Goto("http", "wait")
    /\ UNCHANGED <<mid, ret, shared, handled, result, wires, inbox, history, left>>

(* The test of last_response_str and what is sent on its outcome. *)
Reply ==
    /\ pc["http"] = "reply"
    /\ IF last_str # NULL
       THEN /\ replies' = Append(replies, [to |-> mid["http"], code |-> "runtime",
                                           status |-> last_status, body |-> last_str])
            /\ Goto("http", "free")
       ELSE /\ Refuse(mid["http"], "500")
            /\ Goto("http", "idle")
    /\ UNCHANGED <<mid, ret, shared, handled, result, wires, inbox, reqs, modEvents, left>>

(* Seeded fault: last_response_str keeps pointing at what was freed. *)
FaultFreeKeepsPointer ==
    /\ pc["http"] = "free"
    /\ Goto("http", "idle")
    /\ UNCHANGED <<mid, ret, shared, handled, result, wires, inbox, history, left>>

(* The text that was sent is freed and the pointer reset. *)
Free ==
    /\ pc["http"] = "free"
    /\ last_str' = NULL
    /\ Goto("http", "idle")
    /\ UNCHANGED <<mid, ret, shared, handled, last_status, wires, inbox, history, left>>

-----------------------------------------------------------------------------
(* The main thread.                                                          *)

(* The MQTT socket is readable, which main looks at first. *)
PollMqtt ==
    /\ pc["main"] = "select" /\ inbox > 0
    /\ ret' = "select"
    /\ Goto("main", "pool")
    /\ UNCHANGED <<mid, reqs, shared, handled, result, wires, inbox, replies, modEvents, left>>

(* mqtt_ev_handler on a publish: forwarded as a REQUEST ... *)
ForwardPublish ==
    /\ pc["main"] = "pool" /\ inbox > 0
    /\ inbox' = inbox - 1
    /\ NewRequest("main", "REQUEST")
    /\ UNCHANGED <<ret, shared, handled, result, wires, replies, modEvents, left>>

(* ... or not: the bridge's own topic, or a body json2attr cannot convert. *)
IgnorePublish ==
    /\ pc["main"] = "pool" /\ inbox > 0
    /\ inbox' = inbox - 1
    /\ UNCHANGED <<pc, mid, ret, shared, handled, result, wires, history, left>>

PoolDone ==
    /\ pc["main"] = "pool"
    /\ Goto("main", ret)
    /\ UNCHANGED <<mid, ret, shared, handled, result, wires, inbox, history, left>>

(* process_rcvd_data has returned m: a response is handled, an event polls   *)
(* MQTT on its way.                                                          *)
Handle(m) ==
    IF m.kind = "response"
    THEN resp' = m /\ Goto("main", "getMid") /\ UNCHANGED ret
    ELSE ret' = "select" /\ Goto("main", "pool") /\ UNCHANGED resp

afterRead == <<mid, shared, rmid, rop, result, toRt, linkUp, working, inbox, history, left>>

(* The runtime socket is readable, and one read returns the next k messages, *)
(* the last of them perhaps in part only.                                    *)
Take(k) ==
    /\ pc["main"] = "select" /\ inbox = 0
    /\ fromRt' = SubSeq(fromRt, k + 1, Len(fromRt))

(* The same where a message was read in part: its rest is skipped, unless it *)
(* holds the bytes a frame begins with.                                      *)
TakeInPart(k) ==
    \/ Take(k) /\ UNCHANGED torn
    \/ /\ pc["main"] = "select" /\ inbox = 0
       /\ fromRt' = <<Stray>> \o SubSeq(fromRt, k + 1, Len(fromRt))
       /\ torn' = TRUE

(* The first message is handled; the others are never parsed. *)
ReadLink ==
    /\ recv_ctx = Nothing /\ fromRt # <<>> /\ ~Head(fromRt).cut
    /\ \/ Take(1) /\ UNCHANGED torn
       \/ \E k \in 2 .. Len(fromRt) : TakeInPart(k)
    /\ Handle(Head(fromRt))
    /\ UNCHANGED <<recv_ctx, afterRead>>

(* What came of a message before the connection was lost stays in recv_ctx.  *)
ReadCut ==
    /\ recv_ctx = Nothing /\ fromRt # <<>> /\ Head(fromRt).cut
    /\ Take(1)
    /\ recv_ctx' = [Head(fromRt) EXCEPT !.cut = FALSE]
    /\ UNCHANGED <<pc, ret, resp, torn, afterRead>>

(* What comes out when the beginning of m is completed with the bytes of     *)
(* other frames: if the id had come, a response with that id and its status, *)
(* and a text that is a mixture or cannot be printed.                        *)
Garbled(m) ==
    IF m.kind = "response" THEN {Stray} \cup {[m EXCEPT !.body = b] : b \in {"mixed", "none"}}
    ELSE {m}

(* The bytes of the next connection complete the message begun on the last.  *)
ReadGarbled ==
    /\ recv_ctx # Nothing
    /\ \E k \in 1 .. Len(fromRt) : TakeInPart(k)
    /\ \E m \in Garbled(recv_ctx) : Handle(m)
    /\ recv_ctx' = Nothing
    /\ UNCHANGED afterRead

(* Or they are taken for a part of it and do not complete it, or complete    *)
(* one of a type or length that is ignored.                                  *)
ReadSwallowed ==
    /\ recv_ctx # Nothing
    /\ \E k \in 1 .. Len(fromRt) :
          \/ Take(k) /\ UNCHANGED <<recv_ctx, torn>>
          \/ TakeInPart(k) /\ recv_ctx' = Nothing
    /\ UNCHANGED <<pc, ret, resp, afterRead>>

(* get_pending_request_info: two reads, no lock. *)
GetMid ==
    /\ pc["main"] = "getMid"
    /\ rmid' = g_mid
    /\ Goto("main", "getOp")
    /\ UNCHANGED <<mid, ret, shared, resp, rop, result, wires, inbox, history, left>>

GetOp ==
    /\ pc["main"] = "getOp"
    /\ rop' = g_op
    /\ Goto("main", "check")
    /\ UNCHANGED <<mid, ret, shared, resp, rmid, result, wires, inbox, history, left>>

(* The response of another request ends the process. *)
Mismatch ==
    /\ pc["main"] = "check" /\ resp.mid # rmid
    /\ Goto("main", "returned")
    /\ UNCHANGED <<mid, ret, shared, handled, result, wires, inbox, history, left>>

(* Seeded fault: the branch for uninstalls is missing. *)
FaultInstallsOnly == resp.ok /\ rop = "INSTALL"

(* A successful install or uninstall is announced, which polls MQTT. *)
ToAnnounce == resp.ok /\ rop \in {"INSTALL", "UNINSTALL"}

Announce ==
    /\ pc["main"] = "check" /\ resp.mid = rmid
    /\ ToAnnounce
    /\ modEvents' = modEvents \cup {[event |-> rop, mid |-> resp.mid]}
    /\ ret' = "status"
    /\ Goto("main", "pool")
    /\ UNCHANGED <<mid, reqs, shared, handled, result, wires, inbox, replies, left>>

NothingToAnnounce ==
    /\ pc["main"] = "check" /\ resp.mid = rmid
    /\ ~ToAnnounce
    /\ Goto("main", "status")
    /\ UNCHANGED <<mid, ret, shared, handled, result, wires, inbox, history, left>>

(* http_output_runtime_response: two assignments, no lock.  The text is NULL *)
(* when the payload of the response cannot be printed.                       *)
OutputStatus ==
    /\ pc["main"] = "status"
    /\ last_status' = [mid |-> resp.mid, ok |-> resp.ok]
    /\ Goto("main", "str")
    /\ UNCHANGED <<mid, ret, shared, handled, last_str, wires, inbox, history, left>>

OutputStr ==
    /\ pc["main"] = "str"
    /\ last_str' = IF resp.body = "none" THEN NULL
                   ELSE [mid |-> resp.mid, mixed |-> resp.body = "mixed"]
    /\ Goto("main", "received")
    /\ UNCHANGED <<mid, ret, shared, handled, last_status, wires, inbox, history, left>>

(* Seeded fault: rt_conn_response_received does not signal. *)
FaultNoSignal(p) == p

(* pthread_cond_signal: a thread asleep goes back to its test. *)
Signalled(p) == IF p = "asleep" THEN "wait" ELSE p

(* rt_conn_response_received, in one step: it holds the mutex throughout.    *)
Received ==
    /\ pc["main"] = "received" /\ mutex = "free"
    /\ g_op' = NONE
    /\ pc' = [pc EXCEPT !["main"] = "select",
                        !["http"] = Signalled(@)]
    /\ UNCHANGED <<mid, ret, g_mid, mutex, handled, result, wires, inbox, history, left>>

(* Main has read all that arrived and then read 0: it opens a new            *)
(* connection, or exits after too many attempts.                             *)
Reconnect ==
    /\ pc["main"] = "select" /\ inbox = 0 /\ ~linkUp /\ fromRt = <<>>
    /\ linkUp' = TRUE
    /\ UNCHANGED <<pc, mid, ret, shared, handled, result, toRt, inward, working,
                   inbox, history, left>>

GiveUp ==
    /\ pc["main"] = "select" /\ inbox = 0 /\ ~linkUp /\ fromRt = <<>>
    /\ Goto("main", "gaveUp")
    /\ UNCHANGED <<mid, ret, shared, handled, result, wires, inbox, history, left>>

-----------------------------------------------------------------------------
(* The runtime, the network and the MQTT broker, as the bridge sees them.    *)
bridge == <<pc, mid, ret, reqs, shared, handled, result, replies, modEvents>>

FrameAtFront ==
    /\ Len(toRt) >= 2
    /\ toRt[1].part = "head" /\ toRt[2].part = "payload" /\ toRt[1].mid = toRt[2].mid

RtReceive ==
    /\ FrameAtFront
    /\ toRt' = SubSeq(toRt, 3, Len(toRt))
    /\ working' = working \cup {toRt[1].mid}
    /\ UNCHANGED <<bridge, inward, linkUp, inbox, left>>

(* The writes of two threads interleaved, or half a frame sent on each of    *)
(* two connections: the runtime's parser loses some of what follows.         *)
RtGarbage ==
    /\ toRt # <<>> /\ ~FrameAtFront
    /\ Len(toRt) >= 2 \/ toRt[1].part = "payload"
    /\ \E k \in 1 .. Len(toRt) : toRt' = SubSeq(toRt, k + 1, Len(toRt))
    /\ UNCHANGED <<bridge, inward, linkUp, working, inbox, left>>

(* Answers come in any order; one sent while the link is down is lost. *)
RtRespond ==
    \E m \in working, ok \in BOOLEAN, body \in {"own", "none"} :
        /\ working' = working \ {m}
        /\ fromRt' = IF linkUp THEN Append(fromRt, Response(m, ok, body)) ELSE fromRt
        /\ UNCHANGED <<bridge, toRt, recv_ctx, torn, linkUp, inbox, left>>

(* A module may leave a request unanswered. *)
RtNoAnswer ==
    \E m \in working :
        /\ reqs[m] = "REQUEST"
        /\ working' = working \ {m}
        /\ UNCHANGED <<bridge, toRt, inward, linkUp, inbox, left>>

RtEvent ==
    /\ linkUp /\ Spend("event")
    /\ fromRt' = Append(fromRt, Event)
    /\ UNCHANGED <<bridge, toRt, recv_ctx, torn, linkUp, working, inbox>>

Publish ==
    /\ Spend("publish")
    /\ inbox' = inbox + 1
    /\ UNCHANGED <<bridge, wires>>

(* The connection is lost, and what had not arrived with it; of the message  *)
(* that was arriving a beginning may be left.                                *)
LinkBreak ==
    /\ linkUp /\ Spend("break")
    /\ linkUp' = FALSE
    /\ toRt' = <<>>
    /\ \E k \in 0 .. Len(fromRt) :
          \/ fromRt' = SubSeq(fromRt, 1, k) /\ UNCHANGED torn
          \/ /\ k > 0 /\ torn' = TRUE
             /\ fromRt' = [SubSeq(fromRt, 1, k) EXCEPT ![k].cut = TRUE]
    /\ UNCHANGED <<bridge, recv_ctx, working, inbox>>

-----------------------------------------------------------------------------
Sending(t) == RequestSentMid(t) \/ RequestSentOp(t) \/ SendChunk(t) \/ SendFails(t)

HttpClient ==
    /\ Running
    /\ (\E op \in RestOps : HttpStart(op)) \/ HttpReject \/ HttpCrash \/ HttpBadMethod

HttpThread == Running /\ (Sending("http") \/ WaitTest \/ Reply \/ Free)

MainThread ==
    /\ Running
    /\ \/ Sending("main")
       \/ PollMqtt \/ ForwardPublish \/ IgnorePublish \/ PoolDone
       \/ ReadLink \/ ReadCut \/ ReadGarbled \/ ReadSwallowed
       \/ GetMid \/ GetOp \/ Mismatch \/ Announce \/ NothingToAnnounce
       \/ OutputStatus \/ OutputStr \/ Received

Runtime == Running /\ (RtReceive \/ RtGarbage \/ RtRespond \/ RtNoAnswer)

Environment ==
    Running /\ (SpuriousWakeup \/ RtEvent \/ Publish \/ LinkBreak \/ Reconnect \/ GiveUp)

Next == HttpClient \/ HttpThread \/ MainThread \/ Runtime \/ Environment

Spec == Init /\ [][Next]_vars

(* Both threads get to run and the runtime goes on reading and answering;    *)
(* nobody is obliged to send a REST request, and a connection need not come  *)
(* back.                                                                     *)
Fairness == WF_vars(HttpThread) /\ WF_vars(MainThread) /\ WF_vars(Runtime)

FairSpec == Spec /\ Fairness

-----------------------------------------------------------------------------
PcOK ==
    /\ pc \in [Threads -> HttpPCs \cup MainPCs]
    /\ pc["http"] \in HttpPCs /\ pc["main"] \in MainPCs

(* Every variable holds a value of its kind. *)
TypeOK ==
    /\ PcOK
    /\ mid \in [Threads -> Nat]
    /\ ret \in {"select", "status"}
    /\ reqs \in Seq(Ops)
    /\ g_mid \in Nat /\ g_op \in Ops \cup {NONE} /\ mutex \in Threads \cup {"free"}
    /\ resp \in Messages /\ rmid \in Nat /\ rop \in Ops \cup {NONE}
    /\ last_status \in Statuses /\ last_str \in Texts
    /\ toRt \in Seq(Chunks) /\ fromRt \in Seq(Messages)
    /\ recv_ctx \in Messages /\ torn \in BOOLEAN
    /\ linkUp \in BOOLEAN /\ working \in SUBSET Nat
    /\ inbox \in Nat
    /\ replies \in Seq(Replies)
    /\ modEvents \in SUBSET [event : {"INSTALL", "UNINSTALL"}, mid : Nat]
    /\ left \in [{"http", "publish", "event", "break"} -> Nat]

(* The HTTP thread sleeps on the condition variable only while a request is  *)
(* pending: rt_conn_response_received never resets g_req_op_type without     *)
(* waking it, and no request is registered between its test and its sleep.   *)
NoLostWakeup == pc["http"] = "asleep" => g_op # NONE

(* What the mutex is for: outside the critical sections, g_req_op_type is    *)
(* the operation of the request g_mid names, whichever of the two threads    *)
(* registered it and whatever was pending before.                            *)
PendingPairCoherent ==
    mutex = "free" /\ g_op # NONE => g_mid \in DOMAIN reqs /\ g_op = reqs[g_mid]

(* What makes the two above inductive: the mutex is held exactly inside the  *)
(* critical section of rt_conn_request_sent, whose first half has been done. *)
LockInv ==
    /\ \A t \in Threads : mutex = t <=> pc[t] = "setOp"
    /\ \A t \in Threads :
          pc[t] \in {"register", "setOp", "head", "payload"} => mid[t] \in DOMAIN reqs
    /\ \A t \in Threads : mutex = t => g_mid = mid[t]

(* The promises to the REST clients below hold until a message of the        *)
(* runtime is torn apart: a loss of the link between two messages breaks     *)
(* none of them, but after one inside a message main may take any bytes for  *)
(* a response.                                                               *)

(* A REST client gets the runtime's status and text for its own request, not *)
(* those of an earlier request or of a forwarded publish; a request the      *)
(* bridge refused gets neither.                                              *)
ReplyIsOwn ==
    ~torn =>
        \A i \in DOMAIN replies :
            LET r == replies[i]
            IN  r.code = "runtime" =>
                    /\ r.to # 0 /\ r.status.mid = r.to
                    /\ r.body = [mid |-> r.to, mixed |-> FALSE]

(* When the HTTP thread is ready for the next request, each request it sent  *)
(* to the runtime has had one answer, neither none nor two.                  *)
OneAnswer ==
    ~torn /\ pc["http"] = "idle" =>
        \A m \in DOMAIN reqs :
            reqs[m] \in RestOps =>
                Cardinality({i \in DOMAIN replies : replies[i].to = m}) = 1

(* main never takes the "Unexpected response!" exit, which ends the process: *)
(* the comment there (bridge-tool.c:138) says "ignore invalid response".     *)
NeverReturns == pc["main"] # "returned"

(* Where only REST clients send, it takes that exit only after a message was *)
(* torn apart: not because of a loss between two messages, of a request that *)
(* was never sent, or of the unlocked reads of the pending pair.             *)
ReturnsWhenTorn == ~torn => NeverReturns

(* mod-inst is published only for an install and mod-uninst only for an      *)
(* uninstall, although the operation is read apart from the message id.      *)
ModuleEventsRight ==
    ~torn => \A e \in modEvents : e.mid \in DOMAIN reqs /\ e.event = reqs[e.mid]

(* A client that is told its install or uninstall succeeded is told so after *)
(* the module event was published: whoever asks then for the list of modules *)
(* finds the observers informed.                                             *)
AnnouncedBeforeReply ==
    ~torn =>
        \A i \in DOMAIN replies :
            LET r == replies[i]
            IN  r.code = "runtime" /\ r.to # 0 /\ r.status.ok /\ reqs[r.to] # "QUERY"
                    => [event |-> reqs[r.to], mid |-> r.to] \in modEvents

(* No loss of the link and no event, which one read may return together with *)
(* a response: nothing the HTTP thread waits for has been dropped.           *)
Undisturbed == left.break = MaxBreak /\ left.event = MaxEvent /\ ~torn

(* While the HTTP thread sleeps, undisturbed, its request, or the answer to  *)
(* it, is on its way somewhere: on the wire, in the runtime, on the wire     *)
(* back or in main's hands.                                                  *)
NoOrphanSleeper ==
    pc["http"] = "asleep" /\ Undisturbed =>
        LET m == mid["http"]
        IN  \/ \E i \in DOMAIN toRt : toRt[i] = [mid |-> m, part |-> "payload"]
            \/ m \in working
            \/ \E i \in DOMAIN fromRt : fromRt[i].mid = m
            \/ /\ resp.mid = m
               /\ \/ pc["main"] \in {"getMid", "getOp", "check", "status", "str", "received"}
                  \/ pc["main"] = "pool" /\ ret = "status"

(* Under FairSpec, every REST request the HTTP thread waits for is answered  *)
(* and the thread is ready for the next one, unless it is disturbed.         *)
EveryRequestAnswered == pc["http"] = "wait" ~> pc["http"] = "idle" \/ ~Undisturbed

=============================================================================
