# A verification development for wamr-demo

wamr-demo runs WebAssembly modules on a device (the *runtime*, built on WAMR)
and connects them to the world through *bridge-tool*: a REST interface to
install, uninstall and list modules, and an MQTT client that carries what the
modules publish and subscribe to and announces what happens in the runtime.
A small Python service and a web page keep and show the resulting graph.

This directory holds TLA+ models of that system, TLC configurations that check
them on small instances, and TLAPS proofs of the properties that matter most.
`PROJECT.json` maps every definition to the source lines it stands for.
Paths below are relative to the repository; `bt/` is `bridge-tool/src/`.

## 1. Inventory

| component | source | state | operations |
|---|---|---|---|
| request core | `bt/bridge-tool.c`, `bt/runtime_conn.c`, `bt/runtime_request.c` | `g_mid`, `g_req_op_type`, `mutex_request`, `cond_pending`, main's locals | `rt_req_*`, `send_request`, `rt_conn_request_sent`, `rt_conn_wait_pending_response`, `rt_conn_response_received`, `get_pending_request_info`, the loop of `main` |
| REST handlers | `bt/http.c` | `last_response_status`, `last_response_str` | `http_handle_modules` and its handlers, `http_output_runtime_response` |
| link framing | `bt/runtime_conn.c` | `recv_ctx` | `on_imrt_link_byte_arrive`, `process_rcvd_data` |
| link life cycle | `bt/bridge-tool.c`, `bt/runtime_conn.c` | `g_runtime_conn_fd`, main's copy of it, `rconn` | `tcp_init`, `uart_init`, `runtime_conn_init`, `host_tool_send_data`, reconnection in `main` |
| module tracker | `bt/module_list.c` | `modules`, each with its `topics` | add, delete, look up, check and add a topic |
| MQTT client | `bt/mqtt.c` | `s_mqtt_mg_conn`, broker subscriptions, last will | `mqtt_ev_handler`, `mqtt_process_runtime_event`, `mqtt_notify_*` |
| runtime host | `runtime/iwasm_main.c` | `sockfd`, `listenfd`, `sock_lock` | `func_server_mode`, `host_send`, `host_destroy` |
| module library | `runtime/demo-libs/mqtt_pubsub.c` | none | `mqtt_publish`, `mqtt_subscribe` |
| conversion | `bt/bridge_tool_utils.c` | none | `attr2json`, `json2attr`, `gen_random_id`, `read_file_to_buffer` |
| state service | `net-viz/net-state.py` | `node_dict`, its subscriptions | REST get and delete, `handle_mqtt_message` |
| visualisation | `net-viz/www/code.js` | graph, `pubs`, `subs` | connect, fetch state, `loadNode` |
| upload utility | `http_upload/http_upload.c` | the file of each upload | `file_upload` |
| configuration | `bt/config.c`, `config.ini` | `g_bt_config` | read once |

How they interact. bridge-tool has two threads. The HTTP thread
(`http_pool_requests`) runs the REST handlers: a handler registers its request
(`g_mid`, `g_req_op_type`), writes it to the runtime's socket and sleeps on
`cond_pending`. The main thread selects on the runtime's socket and the MQTT
socket. It parses what it reads, matches responses with the registered request,
updates the module list, publishes events, leaves the response in
`last_response_*` and wakes the HTTP thread; and it forwards MQTT publishes to
the runtime as requests of its own, through the same pair `g_mid`,
`g_req_op_type` and the same socket. What modules publish is converted from an
attribute container to JSON on its way out and back on its way in. An install
reads the WebAssembly file from a folder the upload utility, a process of its
own, writes to. The runtime answers requests and sends
events of its modules. What the bridge publishes reaches the state service and
the web page.

What is hard:

* the two threads share the pending pair under a mutex, but read it, and the
  two `last_response_*` globals, without it;
* the wait is on "nothing is pending", whoever's request that was;
* `mqtt_pool_requests` is called from inside the handling of a response, and
  may start another request there;
* `read()` cuts the byte stream anywhere, and what follows the first complete
  message of a read is dropped;
* the receive context, the module list and a pending request survive the loss
  of a connection and a restart of the runtime;
* a module runs before its install has been answered;
* a request is registered before it is sent, and stays so if that fails;
* main and the senders have a copy each of one descriptor; a sender closes it
  after a reset without telling main, main drops it without closing it, and the
  numbers are given out again;
* the runtime waits for a connection with the mutex of its senders held;
* the connection to the broker is taken for open after 100 ms of silence, may be
  lost in the middle of an event, and what was subscribed is never subscribed
  again;
* an upload empties and writes a file in parts while an install may be opening,
  measuring and reading it, and no call's result is looked at;
* the conversions change types, cut numbers, and read bytes with the sign the
  build gives to `char`;
* the observers of the graph subscribe late, fetch a snapshot while events
  arrive, and get no message twice.

`PROJECT.json` lists these hazards with their lines and the properties that
cover each.

What makes each component correct:

* request core and REST handlers: one answer to each request, the client's own;
  no lost wakeup; a pending pair that belongs together; the process stays up;
* link framing: messages come out whole, in order, once, and the parser finds
  the frame boundaries again after a loss;
* tracker and events: the list catches up with the runtime; events come
  within their module's, carry its name and are not repeated; subscriptions cover those of the
  modules;
* link life cycle: a lost link is reopened or the process exits, not too early,
  and frames go to the runtime;
* runtime host: what is written goes to a connection that is open;
* MQTT client: observers of both of the runtime's topics see it as running while it
  is connected, and no subscription the broker does not have; a lost connection
  comes back;
* conversion: attributes keep their keys and values, and a message that is
  passed on does not change further;
* upload utility: an upload that was answered is saved as it was sent, and an
  install gets one program, not parts of two;
* state service and page: both end up with the same graph.

## 2. Modules

| module | what it is |
|---|---|
| `BridgeRequests` | the request core and the REST handlers: state, steps, properties |
| `RestService` | abstract: what the REST interface promises its clients |
| `BridgeRequestsMC` | `BridgeRequests` for TLC and its refinement of `RestService` |
| `BridgeRequestsProofs` | theorems about `BridgeRequests`, in three parts: types, mutex, pending pair, wakeup; what holds as long as nothing is forwarded; the refinement of `RestService` |
| `ImrtLink` | the parser, byte by byte, over a link that may be lost |
| `MessageLink` | abstract: what a message link promises |
| `ImrtLinkMC` | `ImrtLink` for TLC: payload bytes |
| `ImrtLinkProofs` | theorems about `ImrtLink`; it implements the safety part of `MessageLink` |
| `ModuleTracker` | module list, broker subscriptions and published events |
| `ModuleTrackerMC` | `ModuleTracker` for TLC: symmetry of names and topics |
| `ModuleTrackerProofs` | theorems about `ModuleTracker` |
| `RuntimeLink` | the connection to the runtime: descriptors, reconnection, both processes |
| `RuntimeLinkProofs` | theorems about `RuntimeLink` |
| `NetView` | events through the broker to the state service and to a page |
| `NetViewMC` | `NetView` for TLC: symmetry of the modules |
| `NetViewProofs` | theorems about `NetView` |
| `MqttLink` | the connection to the broker: handshake, subscriptions, loss, reconnection |
| `MqttLinkProofs` | theorems about `MqttLink` |
| `Payload` | what becomes of the contents of a message from module to module |
| `PayloadMC` | `Payload` for TLC: containers and JSON objects |
| `PayloadProofs` | theorems about `Payload` |
| `Upload` | the folder of WebAssembly files, between uploads and installs |
| `UploadMC` | `Upload` for TLC: bodies of uploads |
| `UploadProofs` | theorems about `Upload` |

Definitions named `Fault...` are deliberate errors, one per kind of mistake the
properties are meant to catch. No specification uses them: each takes the place
of the definition after it to see that a property fails.

### BridgeRequests

One step is one stretch of code between two points where something else can
come in between. So `rt_conn_request_sent` is two steps under the mutex
(`RequestSentMid`, `RequestSentOp`), `rt_conn_response_received` one
(`Received`: it holds the mutex throughout, and its first assignment is not
read without it by any thread but main itself), `get_pending_request_info` two
unlocked reads (`GetMid`, `GetOp`), `http_output_runtime_response` two unlocked
writes (`OutputStatus`, `OutputStr`), and a frame two writes to the socket
(`SendChunk`: the leading bytes, type and length, which belong together, then
the payload). `pc["http"]` follows `http_handle_modules`: `register`, `setOp`,
`head`, `payload`, `wait`, `asleep`, `reply`, `free`. `pc["main"]` follows the
loop of `main`; `pool` is `mqtt_pool_requests`, which returns to `ret`.

Data is abstracted to what the properties tell apart: a request is its number
in the history `reqs`; `last_response_status` and `last_response_str` hold the
number of the request they belong to (0 is `NULL`) and whether the text is a
mixture. `HttpReject` is every early return of the two handlers before a request
exists; `HttpCrash` a post or delete without a content type, whose missing header
the handlers hand on (`http.c:106-107`, `150-151`), which ends both threads.
Messages carry whether the status is a success and whether the payload can be
printed. `gen_random_id` is taken to return a fresh id (`rand()` may repeat one).

A loss of the link may fall inside a message. `LinkBreak` then leaves its
beginning (`cut`), `ReadCut` puts that into `recv_ctx`, which outlives the
connection (`bridge-tool.c:55`), and the bytes of the next connection complete it:
`ReadGarbled` lets come out what may (`Garbled`), `ReadSwallowed` is the case that
nothing does. `ImrtLink` has the parser behind this byte by byte, and says that it
happens once for each loss. If the id had come before the loss, what comes out is a
response with that id and a text of two halves, or none; otherwise it is a `Stray`,
one value for every response that carries no request's id: main ignores the `NULL`
of `parse_response_from_imrtlink` and goes on with a response of zeroes
(`bridge-tool.c:126-129`), so a `Stray` has the id 0, which is also what `g_mid`
holds before the first request. Even without a loss a read may begin behind a
message that was dropped in part, and take the rest of it for a frame
(`TakeInPart`). `torn` records that any of this happened.

The environment: the runtime answers in any order, a module may leave a
forwarded request unanswered, frames that mix on the wire are lost with some
of what follows, a read returns any number of the messages that wait and only
the first is handled, a broken link drops what is on its way, from any byte on, and
`pthread_cond_wait` may wake up by itself. Not in the model: the keepalive
ping and the reconnection of MQTT (`MqttLink`), static files, and the descriptors behind
`Reconnect` (`host_tool_send_data` closes the socket on `ECONNRESET`, which
main does not learn: `RuntimeLink`). The condition variable is never
initialised in TCP mode (`runtime_conn_init` returns before it); a zeroed one
is valid where the bridge is built, and that is what the model assumes.

`RestService` is the promise to the clients: requests are named in order, one is
served at a time, and each gets one answer, an error or the runtime's text about
it. `TurnAway` is the answer to a client whose request was refused before it had a
name, which comes only while no other request is being served. `promise` says how
much of this still holds: all of it, all but the time once an answer may have been
lost (`Weaken`), or nothing once a message was torn apart (`Void`).

### ImrtLink

`ctx` is `imrt_link_recv_context_t`; a field under construction is kept as its
value so far. `on_imrt_link_byte_arrive` is a function from a context and a
byte to a context and "complete or not", a CASE on the phase with one operator
per phase; `process_rcvd_data` folds it over what one `read()` returned and
stops at the first message of a handled type. The context is not reset when
the connection is lost. `window` says how many messages the runtime sends ahead
of what came out: with 1 nothing is ever dropped, and `MessageLink` is then an
exact link; a loss, or more messages in one read, make it lossy, and what comes
out after a loss is no longer promised (`clean`), but for `GarbledOncePerBreak`.
Both speak of frames that do not hold the two leading bytes a second time
(`NoPairSent`), anywhere after their beginning: a payload may look like a frame,
and so may a length, 0x1234, or a type and the length after it.
A length is four bytes, as in the 32-bit build the
CMake files ask for.

### ModuleTracker

All of this state is main's, so the handling of one message is one action. The
runtime is the environment: it numbers modules from 1 after each start, takes
one install or uninstall at a time (the HTTP thread waits for each), and lets a
module run before its install is answered if `EarlyEvents`. `inc` identifies a
module for the properties; the bridge sees `id` only. Two pieces of undefined
behaviour are choices: the name in `module-uninst` (`mod_name` is not set) and
whether `topic_list_del_all`, which goes on from a freed node, ends the process
(`crashed`). Two histories say what the properties have to leave out:
`swallowed`, whether a read dropped a message, and `shared`, the topics two
modules were subscribed to at once. A publish without a payload, which the bridge drops, and failures
of `malloc` are left out.

### RuntimeLink

`tab` is the bridge's table of descriptors: each number is free, a connection
to the runtime, the socket of an HTTP client, or one that `tcp_init` left open
after a failed `connect`. The kernel gives out the lowest free number. `fd` is
main's `runtime_conn_fd`, `gfd` is `g_runtime_conn_fd`, which the senders use;
0 stands for -1. `main` follows the loop of `main` and `http` a handler: a send
is one step, and after a reset the `close` of `g_runtime_conn_fd` is another,
because the other thread may have reconnected in between. `links` holds the
state of each connection as its two ends see it: waiting to be accepted,
accepted, ended (`fin`, or `rst` when the runtime died with data unread), or
ended and met by the bridge. On the runtime's side `server` follows
`func_server_mode`, `lock` is `sock_lock`, and `sending` holds the threads
between `pthread_mutex_trylock` and the unlock in `host_send`; one that finds
the mutex taken gives up and changes nothing. Both processes may die at any
step and start again.

The contents of messages are left out, except whether something waits to be
read. A frame is one write here (its chunks are `BridgeRequests`'). mongoose
ignores `SIGPIPE`, so a write to a dead connection is an error and no more.
The retry on `EAGAIN` is left out: the sockets are blocking and never report it.
The bridge exits as well when `runtime_conn_init` fails at its start, so
`BridgeStarts` needs a runtime that listens.

`refused`, `target` and `shut` are history, for the properties only.

### NetView

One runtime, its modules and their topics are the nodes of the graph; an id is
the path to a node, as `"%s.%s"` makes it. `Publish` is the broker: it appends a
message to the queue of every client that is subscribed at that moment, and a
subscription (`asking`) reaches the broker in a step of its own. `node_dict` is
the service's dictionary in insertion order; `page` has the nodes (with whether
cytoscape found the parent), the edges, `pubs` and `subs`. A fetch is three
steps: asked (`PageConnect`), answered (`NetState`), loaded (`PageReply`), and
events are handled in between. `listed` counts the entries a name has in the
bridge's module list, which takes a name again after a restart of the runtime, so
`ModuleInst` may repeat; `sub-stop` may come under a name that no `sub-start` came
under. A name in `module-uninst` may be any (`ModuleTracker`), and `rt-stop` may be
the last will or a page's own.

The properties need to say who missed what: `raced` collects the ids of events
that only one of the two got, that a snapshot was too old or too young for, or
that a disconnection or `DELETE` threw away, and `dropped` what the page
removed, for with a node cytoscape removes what is below it. A fetch that fails, two fetches at
once and a restart of the service are left out.

### MqttLink

`sock` is the bridge's view of the connection, `client` the broker's, and the two
differ for a while whenever a connection breaks (`cut`): either side notices in
its own time (`Closed`, `Lost`), and the bridge may have a new connection before
the broker has given up the old one. `wire` is what the bridge sent over this
connection; the broker takes it in order and closes a connection that does not
begin with the handshake, which happens because `mqtt_init` returns after 100 ms
of silence however far the connection has come. `Connect` is `mqtt_init` called
by main; `Established`, `Connacked` and `Closed` are the cases of
`mqtt_ev_handler`; a subscription is two steps, since MQTT is polled between it
and its announcement (`todo`).

What is told of the runtime goes to two topics: the start message to
`rt_topic_prefix` (`mqtt.c:111`), the last will and the events of the modules to
`s_rt_topic` below it (`mqtt.c:87-92`). `README.md:72` describes one topic,
`<realm>/r/<UUID>`, for both, and `mqtt.c:107-108` put it together without using it.
So `rt` holds what was told last to each kind of observer, by the topics it follows.
`RuntimeShown` and `ComesBack` are about those who follow both, as the state service
and the page do after the first start they see; the last part of `RuntimeShown` is
the divergence: who follows the documented topic is told of the end of the runtime
and never of a start. `shown` is what the runtime's own topic says of
subscriptions.

The broker is external, and the model holds what the protocol asks of it: the
session of a client that does not ask for a clean one is kept (the options of
the handshake are zeroed, so the flag is not set), the will is published when a
client is lost or replaced. `sock` is taken to be -1 after the library has closed the
connection and freed its structure, and the broker to be given by its address.

### Payload

A container is a sequence of attributes, a value a record whose one field names
its kind. What `attr2json` reads is memory, so `Memory` lays the container out
byte by byte (a field is its value and the bytes it fills), and `Attr2Json`
walks through it with the pointer `p` as the code does: a wrong step reads bytes
that mean nothing. `Json2Attr` goes over the members of an object. `Publish` and
`Forward` carry a message from a module over the broker to the next; the bridge of
each hop may be of another build (`signed`).

`Doubles` are the integers a double holds: all of them up to 2^53, then every
second, every fourth and so on, so that an `int64_t` may be half of 1024 away from
the nearest. A number becomes the double nearest to it (`Rounded`). Numbers JSON
cannot express (`NotFinite`) are printed as `null`, which makes no attribute; a
client can still write one that is too large for a double, and is an infinity. In an
array, where the cast of it is undefined, it is left out.

Texts are told apart by what the JSON parser makes of them. A text that is no JSON
goes between quotes as it is (`Wrapped`, `mqtt.c:133-138`), so what is in it counts:
an escape is decoded and leaves any text, which the next hop may decode again; a
backslash that is no escape, or the last character, makes the second parse fail
too; a quote ends the string, and what follows may be members of the object
(`Injected`) or no JSON. Only `Plain` text comes out as it went in.

The state `stuck` is the loop over an array of more than 65535 bytes, which goes on
as long as there is memory. When `attr2json` or `cJSON_Print` get none, the bridge
publishes the bytes of the container as they are, up to the first zero
(`mqtt.c:191-193`, `200-202`): any text, and `starved` records it.

### Upload

The upload utility handles one post at a time: `StartUpload` up to `fopen`, which
empties the file, `WritePart` for each `write` that `fwrite` and `fclose` make,
`FinishUpload` for the answer. The HTTP thread of the bridge reads one file at a
time: `OpenFile`, `StatFile`, `ReadFile`, with `read_file_to_buffer` and the tests
of `rt_req_install`. A body is the name field and the program, byte by byte, and
a byte is named for its post and its place, so that every mixture shows. Where
the length wraps round, memory behind the body is written, or the process ends
(`DieReading`): either is possible. `DiskMayFail` lets `fopen` fail, which ends
the process, and writes fall short, which nobody looks at. `overlap` and `latest`
are history, for the properties only.

## 3. Runs

Each run takes between a few seconds and about two and a half minutes on two cores.
`CHECK_DEADLOCK FALSE` is set everywhere: the environment is bounded, and the
bridge may exit.

| run | shows | bounds |
|---|---|---|
| `BridgeRequestsFull` | types, the mutex, coherence of the pending pair, no lost wakeup | 2 REST requests, 1 publish, 1 loss |
| `BridgeRequestsRest` | each client gets its own answer, once, after the event was published; until a message is torn apart, main does not exit; until something may be lost, every request is answered; `RestService` is refined | 2 REST requests, 2 events, 2 losses, no publish |
| `ImrtLink` | refinement of `MessageLink`, exact or lossy; one garbled message per loss | 3 messages, one at a time or 2 ahead, 1 message of another type, 1 loss, any cut, payloads that look like frames |
| `ModuleTracker` | events within their module's and under the right name, `pub-start` once; list and subscriptions catch up | 2 names, 2 topics, 2 installs, 3 events, 1 restart, reads of 2 messages, early events |
| `RuntimeLink` | types, writes to an open connection, frames stay away from HTTP clients, no early exit, the link comes back | 2 senders, 5 connections, 6 descriptors, 2 deaths of the runtime, 1 of the bridge, 1 attempt |
| `NetView` | service and page agree, edges are complete | 2 modules, 1 topic, 5 events, 2 page connections or deletions |
| `Payload` | attributes arrive, what is passed on stays the same (plain text, numbers, bytes), and messages are lost for known reasons | 1 or 2 attributes of 20 values, 1 or 2 members of 14, 6 texts, 5 objects that quotes inject, doubles in steps of 1, 2, 4 and 8, 3 hops |
| `Upload` | uploads are saved as sent, installs get one program | 3 posts of 8 kinds, 1 install, disk may fail |
| `MqttLink` | no subscription shown that is not there (topics ever unsubscribed excepted), the runtime shown as running to who follows both topics, and for good in the end | 2 topics, 3 events or pings, 2 losses or refusals |
| `InvalidResponse` | violation: a foreign response ends the process | 1 REST request, 1 publish |
| `UninstallName` | violation: `module-uninst` with a wrong name | 1 module |
| `StrayFrames` | violation: a frame goes to an HTTP client | 1 death, 3 descriptors |

Why the bounds are enough. Two REST requests and a publish are the least that
lets each thread overwrite what the other registered, before and after the
other's response. A loss falls between any two steps and inside any message; with
two, what the first left in `recv_ctx` meets the second, and with two events there
are messages to complete it that are not the response. In `ImrtLink` the third message shows whether the
parser found the boundary after an accident in the second. In `ModuleTracker`
a second install after a restart is what makes an id repeat, and three events
let two modules share a topic that one of them gives up. In `MqttLink` two losses
let a connection be replaced while the broker still holds the one before, and
three events put a subscription, its opposite and a ping around them. In
`Payload` the third container shows that what the second module was handed is
handed on unchanged; two attributes make a wrong step of the pointer reach another
one, and integers lie between doubles that are two, four and eight apart, the limit
of the loop over bytes being 3. In `Upload` the
second post meets the file of the first and the third that of a failed one.
In `RuntimeLink`
two deaths of the runtime and one of the bridge let a connection die before it
was accepted, while it is served and while the server waits for the next; five
connections are one more than these deaths can make necessary (with three,
`LinkComesBack` would fail for want of a connection), six descriptors let the
table fill up with those nobody closes, and one attempt exercises the counter
and its reset. In `NetView` two modules with one topic give a publisher and a subscriber, on
one module or on two, and five events suffice for a runtime, a module, a topic
and a stop with one event left to race.

What holds where. The first run says what the mutex achieves in all
circumstances. The properties of `BridgeRequestsRest` hold until a message is torn
apart (`torn`). After that the code keeps none of them: a response whose id had come
before the loss answers its client with a text of two halves, and one that cannot be
parsed ends the process (`bridge-tool.c:137-142`). What the properties say is that
nothing less does: losses between two messages, failed sends, responses dropped with
a read, the unlocked globals. `BridgeRequestsRest` sets `MaxPublish = 0` because its
properties are false otherwise: `InvalidResponse` shows how. With a forwarded
publish, `g_mid` names the publish while the response to the REST request
arrives, and main leaves its loop. `NoOrphanSleeper`, `EveryRequestAnswered` and the fairness of `RestService` speak
of behaviours without a loss and without an event: a request lost with its connection is
waited for without end, and an event and a response in one read lose the
response. So they do not cover that hazard (`runtime_conn.c:339`), which
`ImrtLink` describes; they cover wakeups, failed tests and interleavings. `ListMatchesRuntime` and `SubscriptionsCovered` speak of behaviours in
which no read dropped a message; the second leaves out topics that two modules
shared, from which the first to unsubscribe takes the only broker subscription,
the first runs with a restart, after which the list keeps the old modules.
`PubStartOnce`, too, holds until a restart: an early publish after it is taken
for one of the old module with the same id. `AttributedRight` speaks of modules
whose install has been announced. `ChildrenWithinParent` says two things. By
modules: the name an event about a topic carries is that of a module that was
announced and not uninstalled. By names, which is all an observer has: the last
module event under that name was `module-inst`. The second excepts a name under
which a `module-uninst` came that was not its module's, for `UninstallName` shows
that an observer then does see a live module taken away and events under it
follow (`bridge-tool.c:151`), and stops at a restart of the runtime, after which
the list may hold two modules of one name and the end of one is taken for that
of both. `SavedAsSent` and `InstallsTheUpload` speak of
names given as they are and of posts that lost no bytes: a name with `%XX`
escapes shifts what is saved, since the offset is computed from the decoded
name, although `http_upload/http_upload.c:4` says the utility "Saves files sent
to the /upload endpoid". An install that overlaps an upload may send the
beginning of a program. `AttributesArrive` allows a number to be off by as much as
the nearest double is, and `RelayedUnchanged` excepts text with an escape or a quote
in it, which may lose one level of escapes on every hop; both speak of behaviours in
which memory did not run out. `LostForAReason` names the messages that are lost:
those with an empty array, text that begins with a JSON value that is no object, and
text that is no JSON and has a quote or a backslash in it;
`wasm-apps/mqtt_subscriber.c` promises a `raw_str` for the last two. One with a
backslash and no quote, such as `C:\path`, arrives as an event without a payload.
`FramesToRuntime` and `LinkComesBack` speak of behaviours
in which no sender closed the descriptor: `StrayFrames` shows what happens
after that, and main, whose copy of the number it is, then never learns that
the link is gone.

`PROJECT.json` has a mutant for each property of each passing run.

## 4. Fairness

`FairSpec` of `BridgeRequests` has weak fairness of the HTTP thread, of the main
thread and of the runtime. Both threads are scheduled by the kernel and never
spin: weak fairness of a whole thread says no more than that it takes its next
step if it can; while it waits for the mutex the holder can go on. The
runtime's part says that it goes on reading and answering. A client need not
send, a connection need not come back, and `pthread_cond_wait` need not wake up
by itself. `FairSpec` of `ImrtLink` says that main goes on reading what has
arrived, which its `select` loop does.

`FairSpec` of `RuntimeLink` has weak fairness of main, whose loop never waits
for the HTTP thread, and of the write in `host_send`. The server's thread has
strong fairness: `pthread_mutex_lock` in it competes with `host_send`, which
holds the mutex for one write only and uses `trylock`, so the mutex is free
again and again and a waiting thread gets it. Nothing need die, and what has
died need not start again: `LinkComesBack` then says the bridge exits.
`FairSpec` of `MqttLink` has weak fairness of each step of main, which goes round
its loop and polls, of the broker's answers, and of the noticing of broken
connections; connections need not break, and no event need happen.
`ModuleTracker`, `NetView`, `Payload` and `Upload` have safety properties only.

## 5. Proofs

`BridgeRequestsProofs` proves for `BridgeRequests`, for every value of the
bounds and from `BoundsAssumption` (they are naturals) alone:

| theorem | states |
|---|---|
| `TypeCorrect` | `Spec => []TypeOK` |
| `LockHeld` | `Spec => []LockInv` |
| `PairCoherent` | `Spec => []PendingPairCoherent` |
| `WakeupNotLost` | `Spec => []NoLostWakeup` |

The argument is one inductive invariant, `IInv`, the conjunction of the four.
`NoLostWakeup` alone is not inductive: a thread that is inside
`rt_conn_request_sent` sets `g_req_op_type` to the operation of its request, and
that this is not `NONE` needs `LockInv` (a thread that is sending has a request
in the history) and `TypeOK` (an element of the history is an operation).
`PendingPairCoherent` needs to know that the holder of the mutex has already
written its own id, which is the last part of `LockInv`. `NextSteps` takes
`Next` apart; `TypeStep`, `LockStep`, `PairStep` and `WakeupStep` treat one
action after the other.

`RuntimeLinkProofs` proves for `RuntimeLink`, for every set of senders and every
value of the bounds, from `LinkAssumption` alone:

| theorem | states |
|---|---|
| `TypeCorrect` | `Spec => []TypeOK` |
| `WritesOnAccepted` | `Spec => []WritesAccepted` |
| `FramesStayApart` | `Spec => []FramesToRuntime` |
| `ExitsLate` | `Spec => GivesUpLate` |

Here `IInv` is `TypeOK` with three parts. `LockInv` says who has the mutex:
the server exactly while it waits in `accept`, a sender exactly while it
writes. It also says that the server has a connection, an accepted one, exactly
while it serves or is about to close; `WritesAccepted` follows, because
`HostTry` tests `sockfd` under the mutex and `ServerClose` needs it. `UseInv`
says that, until a sender has closed a descriptor, the number the senders use
is never free and never a client's: main gives up `fd` without closing it, and
`HttpAccept` takes free numbers only. The fault `FaultDropCloses`, an obvious
repair of the leak in main, breaks exactly this. The last part of `UseInv`, that
`rconn` counts the failures since the last success, gives `GivesUpLate`. `Inside` says
that a descriptor which is a connection is one of those made so far, so that
`links` may be applied to it.

The second part of the module proves for `BridgeRequests`, again from
`BoundsAssumption` alone, what `BridgeRequestsRest` checks with `MaxPublish = 0`. The theorems do not
assume that: they say `Spec => [](NothingForwarded => P)`, where
`NothingForwarded` is "no request registered so far is a forwarded publish". So
they hold with MQTT traffic, up to the moment a publish is forwarded. The
properties themselves speak of the time until a message is torn apart.
`NoPublishes` shows that with `MaxPublish = 0` that moment never comes.

| theorem | P |
|---|---|
| `RestReplyIsOwn` | `ReplyIsOwn` |
| `RestReturnsWhenTorn` | `ReturnsWhenTorn` |
| `RestModuleEventsRight` | `ModuleEventsRight` |
| `RestAnnouncedBeforeReply` | `AnnouncedBeforeReply` |
| `RestOneAnswer` | `OneAnswer` |
| `RestNoOrphanSleeper` | `NoOrphanSleeper` |

The mutex has no part in this argument: nothing stops main from writing
`last_response_*` while the HTTP thread reads them. What keeps them apart is that
a request exists once. `Copies` says that the request of the HTTP thread is on
the wire, in the runtime, on the wire back or in main's hands, in one of these
places at most, and only while it is pending; `Wire` and `Current` tie the wire
and the pending pair to the step the handler is at. Hence main finds no other
response (`MainSilent`), the unlocked reads of the pair give that request
(`Locals`), and the text left behind is its own until the handler has freed it
(`Result`). `Announced` carries the announcement along with the response,
`Answered` counts the answers, and `UnderWay` says where the request is as long
as nothing was lost. `Plain` is `NothingForwarded` and not `torn`, and `WholeReads`
that until then what is read is what was sent (`Whole`): `recv_ctx` is empty and no
message is cut. `Flow` is all of these; `Histories` are the properties
about what was published and answered. Neither is inductive without the other
nor without the `IInv` of the first part, which is known to hold already.

The third part uses the same invariant for the refinement:

| theorem | states |
|---|---|
| `BridgeImplementsRestService` | `Spec => Rest!SInit /\ [][NothingForwarded' => Rest!SNext]_(Rest!svars)` |
| `RestOnlyImplementsService` | with `MaxPublish = 0`, `Spec => Rest!SInit /\ [][Rest!SNext]_(Rest!svars)` |

Action by action: registering is `Submit`, an answer is `Answer` or `TurnAway`, a
loss or an event is `Weaken`, as is the step that tears a message apart, after which
every step is `Void`; everything else changes nothing a client sees. The fairness
of `Service` stays with TLC.

`ModuleTrackerProofs` proves for `ModuleTracker`, for every set of names and
topics, every bound and every length of a read, from `TrackerAssumption` alone:

| theorem | states |
|---|---|
| `TypeCorrect` | `Spec => []TypeOK` |
| `NoChildWithoutParent` | `Spec => []ChildrenWithinParent` |
| `NeverMisattributed` | `Spec => []AttributedRight` |
| `PubStartPublishedOnce` | `Spec => []PubStartOnce` |
| `ListIsTheRuntimes` | `Spec => []ListMatchesRuntime` |
| `EverySubscriptionPassed` | `Spec => []SubscriptionsCovered` |

`IInv` has five parts. `Identity` holds over restarts, when ids come again. The
list has the later modules first (`InList`), so the first entry with an id is the
latest with it (`FirstIsLatest`), and `Heard` says that no entry is of a later
module than the one a live id or a message on its way means: the entry found is
then the module's own, or, before its install is announced, an older one that
was announced and not taken back. That is all `ParentAnnounced`, the first half
of `ChildrenWithinParent`, and `AttributedRight` need, but to keep it through an uninstall one must know that no
message about the id is behind the answer (`InOrder`), for which there must be
one answer on its way at most, that of the open request (`Requested`). A read that
drops messages only shortens what is on its way (`Later`, `WireKept`).
`Histories` is what was published. `OneRun` holds until a restart: ids are unique
(`IdsUnique`), published topics are in the list (`PubsListed`), and as long as
nothing was dropped the list and the open request together tell what is live
(`ListTellsLive`). `Seen` is about names: no two modules in the runtime have one
(`NamesDistinct`), what is listed is in the runtime but for the module being
uninstalled (`ListWithin`), and each name in the list is shown by the log unless it
was misused (`ListShowing`): an uninstall that takes the name of another listed
module takes one that is not its module's. `SubsPassed` follows each topic: the last message about it on
its way is a subscription, or there is none and the broker has it.

`MqttLinkProofs` proves for `MqttLink`, for every set of topics and every bound:

| theorem | states |
|---|---|
| `ShownIsAlwaysSubscribed` | `Spec => []ShownIsSubscribed` |
| `RuntimeAlwaysShown` | `Spec => []RuntimeShown` |

`SubscribedFirst` says that whatever announces a subscription, sent or still
waiting while MQTT is polled, has the subscription before it on the wire or at
the broker. It needs `WireOK`: every handshake on the wire asks for the old
session, since one that did not would empty the session with the announcement
already behind it. `Connection` and `LostShown` do the same for the runtime: on a
connection that is whole, the start message is on the wire or was shown. `OwnTopic`
says that no start message goes to the runtime's own topic.

`UploadProofs` proves for `Upload`, for every set of posts, from
`UploadAssumption`, which describes the posts, says that `_` is a character that
is kept (`ok_chars` in `http_upload/http_upload.c`), and bounds the uploads:

| theorem | states |
|---|---|
| `TypeCorrect` | `Spec => []TypeOK` |
| `UploadsAreSaved` | `Spec => []SavedAsSent` |
| `InstallsOneProgram` | `Spec => []OneProgram` |
| `InstallsWhatWasUploaded` | `Spec => []InstallsTheUpload` |

`OnePost` says that a file holds the first bytes of one post: opening empties it,
and `AtWork` says that what is still to be written is the rest. A buffer filled
from such a file is a part of one program, whichever of the steps of
the upload the read falls between, because a read that falls short of the size
taken before is refused and one that would go beyond it stops there. `Saved`
and `Undisturbed` give the other two.

`NetViewProofs` proves for `NetView`, for every set of modules and topics and any
number of events, page connections and deletions, without an assumption on the
constants:

| theorem | states |
|---|---|
| `NetTyped` | `Spec => []TypeOK` |
| `ServiceAndPageAgree` | `Spec => []SameGraph` |
| `PageConnects` | `Spec => []EdgesComplete` |

`SameGraph` speaks of moments when nothing is on its way, so the invariant has to
say at every moment what will be when it has arrived. `ServiceWill(id)` and
`PageWill(id)` do: the last message of the queue about an id decides, and where
there is none it stays as it is. `AgreeOn(id)`, for every id no race was recorded
for, says that the two come to the same, or that the page will get the node by the
snapshot that was asked for or is on its way, or that it dropped it with one
above. `Blank` is the page before its first connection. `Typed` carries
`Connected`, from which `PageConnects` follows: whatever publishers and
subscribers a page shows it also keeps in `pubs` and `subs`, with their edges, and
loading a snapshot, a fold over its nodes, keeps that from one node to the next.
That `node_dict` has one node for each id is part of `Typed` too.

`PayloadProofs` proves for `Payload`, for containers and objects of any length,
any keys and any number of hops:

| theorem | states |
|---|---|
| `TypeCorrect` | `Spec => []TypeOK` |
| `Walk` | `attr2json` makes a member of each attribute, in order, from what it reads in memory |
| `AlwaysAttributesArrive` | `Spec => []AttributesArrive` |
| `AlwaysRelayedUnchanged` | `Spec => []RelayedUnchanged` |
| `AlwaysMembersArrive` | `Spec => []MembersArrive` |
| `AlwaysLostForAReason` | `Spec => []LostForAReason` |

They rest on `PayloadAssumption`: the containers modules publish have attributes of
the kinds the library makes and no key twice, a double holds every integer from
-128 to 255 at least, and what is not finite is no integer. Which other integers a
double holds is open: `RoundedNear` says that there is always one nearest to a number.

`MemoryLayout` says which cell of memory each part of an attribute is in, for a
container of any length; `Walk` follows the pointer through it. `Kept` is what
`json2attr` makes of an object: the last member of each key of which it makes
anything. With these two the rest is about single values: what a value becomes on
its way out and back, `ValueOver`, and that a second time changes nothing. `Parsing` says
what each kind of text may make. The inductive invariant is `Typed`, `Waits` (what is
at the broker is what was made of the last container, unless memory ran out),
`Linked` (each container was made of the one before, likewise) and `Lost`.

`ImrtLinkProofs` proves for `ImrtLink`, for every set of types and payloads, every
bound and every way `read()` cuts the stream up:

| theorem | states |
|---|---|
| `GarbledAtMostOncePerBreak` | `Spec => []GarbledOncePerBreak` |
| `ImplementsLink` | `Spec => Promised!Link`, `MessageLink` without its fairness |

From `LinkAssumption` they use that no type has the leading bytes for its value,
and that a message is smaller than what the bridge refuses: the runtime allocates
from 512 KB in all (`runtime/iwasm_main.c:346`), the bridge accepts 1 MB. The
types are members of an enumeration in `host_link.h`, which is external.

The bytes on the wire say little, so the invariant gives each its *mark*: the
message it is of, its place in the frame and the number of the message.
`Stream(last, marks)` says that there are such marks for what is on the wire and for
the byte read last, each following the one before, so that frames come whole but
for the last, which a loss of the connection may have cut. `InStep` relates the
parser's context to the byte read last. `OnTrack`: it is in the middle of that
frame, the field it has begun holds what has come of it. `OnSeam`: it is between
two frames. `Looks`: it looks for a beginning and has seen none, at worst the first
of the two bytes. The parser that has lost nothing stays on track or on the seam
whatever the payloads hold (`strictly`); one that has lost bytes looks for a
beginning, finds the next one and no other, provided no frame holds the leading
bytes again, and is on track from there. What a context left over from a lost
connection will do cannot be said, so `Resynchronised` counts: the messages
garbled so far, one if the link is down and one if the parser may be out of step
(`Owed`) are not more than the losses. Whatever message it completes, right or
wrong, leaves the parser at `Non_Start`, so the debt is paid once. `Exact` and
`Ordered` give the refinement: with one message at a time there is never more than
one on the wire, and the numbers on the wire grow and are larger than those of what
came out in order. `ReadsAll` is the parser: over any number of bytes it stays in
step, and the message that comes out is that of the frame that ended.

Recursion over data. The library's induction theorems cannot be used, because they
take the induction hypothesis as an operator. The proofs about folds and recursive
functions use a set in its place, the set of the numbers for which it holds:
`Induction` follows from the least element of what is left (`LeastNumber`), that from
`WFMin` of the library, and `Iterate` from both: the values of a definition that goes
from one element to the next exist and are what the steps make them. They are stated
in each module that needs them.

Only model-checked, and why: liveness (`EveryRequestAnswered`, `LinkComesBack`,
`ComesBack`), and the fairness in `RestService` and `MessageLink`, that is, that each
request is answered and that an exact link delivers what was sent. The prover has
neither `ENABLED` nor fairness. Every invariant and every safety property of the
passing runs has a theorem.

## 6. Not modelled

Configuration, the WebAssembly examples, build scripts, containers and static
pages have no behaviour of their own worth a model. The external libraries
(mongoose, cJSON, inih, the WAMR application manager) are not in the
repository; the models hold as much of them as the repository's use shows. The
UART variants, the resolution of the broker's name, failures of `malloc` (but where
the code publishes the bytes of a container instead, `starved`), the layout of the
stack and the formatting of messages are below the level of the models.

Some hazards have no model, because nothing in the code could make a property
of them hold or fail in a way worth checking: `EVENT_PUB_STOP`
(`http_mqtt_req.h:28`) is never published; a module name of 50 characters gets
its terminating zero behind `mod_name` (`runtime_conn.c:400`), and a response
without a string id leaves it unset (`runtime_conn.c:388`); main looks at MQTT
before the runtime, without a bound on how long (`bridge-tool.c:115`); `sock` is
read from a connection the library may have freed (`bridge-tool.c:89`); the
text of a response is cut at 256 bytes (`http.c:271`). The loop over a byte
array of more than 65535 items, the node that
`topic_list_del_all` uses after freeing it, and a post without a content type
(`HttpCrash`) are modelled as outcomes, but no property excludes them.

## 7. Plan

1. An abstract specification of the graph of what runs, which `NetView` and the
   events of `ModuleTracker` implement as long as nothing races.
2. The frames of the two threads that mix on the wire, byte by byte: what the
   runtime's parser, which is WAMR's, makes of them.
3. A restart of the state service, and two fetches of a page at once.
