----------------------------- MODULE RuntimeLink ----------------------------
(* The life of the connection between the bridge and the runtime: main, which*)
(* reconnects, and the HTTP thread, which sends, over one table of           *)
(* descriptors (bridge-tool.c, runtime_conn.c); the accept loop of the       *)
(* runtime and the threads that send from it, under sock_lock                *)
(* (iwasm_main.c).  Either side may die and start again.  What is said on    *)
(* the connection is left out, except whether something waits to be read.    *)
EXTENDS Naturals, Sequences

CONSTANTS
    Senders,      \* threads of the runtime that call host_send
    Attempts,     \* g_bt_config.rt_reconnect_attempts
    MaxFd,        \* descriptors the bridge may have
    MaxLink,      \* connections made in a behaviour
    MaxDeath,     \* deaths of the runtime
    MaxRestart,   \* deaths of the bridge
    MaxPublish    \* MQTT messages main forwards

ASSUME LinkAssumption ==
    /\ Attempts \in Nat /\ MaxFd \in Nat \ {0} /\ MaxLink \in Nat \ {0}
    /\ MaxDeath \in Nat /\ MaxRestart \in Nat /\ MaxPublish \in Nat
    /\ Senders \cap {"free", "server"} = {}

VARIABLES
    tab,      \* the bridge's descriptors
    fd,       \* runtime_conn_fd, a local of main; 0 is -1
    gfd,      \* g_runtime_conn_fd, which the senders use
    rconn,    \* attempts to reconnect
    main,     \* where main is
    http,     \* where the HTTP thread is
    links,    \* the connections, in the order they were made
    unread,   \* connections with data for the bridge
    server,   \* where func_server_mode is
    sockfd,   \* the connection behind the runtime's sockfd; 0 is -1
    lock,     \* who holds sock_lock
    sending,  \* threads inside the write of host_send
    target,   \* history: where the last frame of the bridge went
    shut,     \* history: whether host_tool_send_data closed a descriptor
    refused,  \* history: attempts that failed since the last that did not
    left      \* what is left of the bounds

bridge  == <<tab, fd, gfd, rconn, main, http>>
runtime == <<server, sockfd, lock, sending>>
vars == <<bridge, links, unread, runtime, target, shut, refused, left>>

Fds == 1 .. MaxFd
Cs  == 1 .. MaxLink

(* What a descriptor is, when it is not one of the connections Cs: nothing,  *)
(* the socket of an HTTP client, or one that tcp_init did not close.         *)
Free   == 0
Client == MaxLink + 1
Lost   == MaxLink + 2

Spend(b) == left[b] > 0 /\ left' = [left EXCEPT ![b] = @ - 1]

(* States of a connection.  "fin", "rst": the far end is gone, and the bridge *)
(* has not met the error yet; "dead": it has.                                *)
Ended    == {"fin", "rst", "dead"}
IsLink(f)  == f # 0 /\ tab[f] \in Cs
Near(c)    == \E f \in Fds : tab[f] = c
Lowest(f)  == tab[f] = Free /\ \A g \in Fds : g < f => tab[g] # Free
Idle(e)    == IF e \in Ended THEN "dead" ELSE e

Init ==
    /\ tab = [f \in Fds |-> IF f = 1 THEN 1 ELSE Free]
    /\ fd = 1 /\ gfd = 1 /\ rconn = 0 /\ main = "loop" /\ http = "idle"
    /\ links = <<"backlog">> /\ unread = {}
    /\ server = "idle" /\ sockfd = 0 /\ lock = "free" /\ sending = {}
    /\ target = "none" /\ shut = FALSE /\ refused = 0
    /\ left = [bridge |-> MaxRestart, runtime |-> MaxDeath, publish |-> MaxPublish]

-----------------------------------------------------------------------------
(* main: the top of the loop.                                                *)

(* exit: the kernel closes every descriptor. *)
Exited ==
    /\ main' = "exited" /\ http' = "idle"
    /\ tab' = [f \in Fds |-> Free]
    /\ fd' = 0 /\ gfd' = 0 /\ rconn' = 0

(* Seeded fault: one attempt too many. *)
FaultOneMore == rconn > Attempts + 1

TooMany == rconn > Attempts

GiveUp ==
    /\ main = "loop" /\ TooMany
    /\ Exited
    /\ UNCHANGED <<links, unread, runtime, target, shut, refused, left>>

(* tcp_init finds the runtime listening; the connection waits to be accepted.*)
TcpConnected(f) ==
    /\ Lowest(f) /\ server # "down" /\ Len(links) < MaxLink
    /\ links' = Append(links, "backlog")
    /\ tab' = [tab EXCEPT ![f] = Len(links')]
    /\ fd' = f /\ gfd' = f

(* Seeded fault: the attempts are counted and never forgotten. *)
FaultNoReset(n) == n + 1

AfterSuccess(n) == 0

ReconnectSucceeds ==
    /\ main = "loop" /\ ~TooMany /\ fd = 0
    /\ \E f \in Fds : TcpConnected(f)
    /\ rconn' = AfterSuccess(rconn) /\ refused' = 0 /\ main' = "select"
    /\ UNCHANGED <<http, unread, runtime, target, shut, left>>

(* No descriptor, or nobody listens: the new socket is not closed.           *)
ReconnectFails ==
    /\ main = "loop" /\ ~TooMany /\ fd = 0
    /\ \/ /\ \A f \in Fds : tab[f] # Free
          /\ UNCHANGED tab
       \/ /\ server = "down"
          /\ \E f \in Fds : Lowest(f) /\ tab' = [tab EXCEPT ![f] = Lost]
    /\ rconn' = rconn + 1 /\ refused' = refused + 1
    /\ UNCHANGED <<fd, gfd, main, http, links, unread, runtime, target, shut, left>>

GoOn ==
    /\ main = "loop" /\ ~TooMany /\ fd # 0
    /\ main' = "select"
    /\ UNCHANGED <<tab, fd, gfd, rconn, http, links, unread, runtime, target, shut, refused, left>>

-----------------------------------------------------------------------------
(* select looks at MQTT first.  A timeout changes nothing and is left out.   *)
SelectMqtt ==
    /\ main = "select" /\ tab[fd] # Free /\ Spend("publish")
    /\ main' = "send"
    /\ UNCHANGED <<tab, fd, gfd, rconn, http, links, unread, runtime, target, shut, refused>>

Readable(f) == \/ tab[f] = Client
               \/ IsLink(f) /\ (tab[f] \in unread \/ links[tab[f]] \in Ended)

SelectRuntime ==
    /\ main = "select" /\ Readable(fd)
    /\ main' = "read"
    /\ UNCHANGED <<tab, fd, gfd, rconn, http, links, unread, runtime, target, shut, refused, left>>

(* EBADF: "Error in select", and once more. *)
SelectFails ==
    /\ main = "select" /\ tab[fd] = Free
    /\ main' = "loop"
    /\ UNCHANGED <<tab, fd, gfd, rconn, http, links, unread, runtime, target, shut, refused, left>>

(* A response releases the HTTP thread, an event does not. *)
ReadData ==
    /\ main = "read"
    /\ \/ tab[fd] = Client /\ UNCHANGED <<unread, http>>
       \/ /\ IsLink(fd) /\ tab[fd] \in unread
          /\ unread' = unread \ {tab[fd]}
          /\ http' \in {http, IF http = "wait" THEN "idle" ELSE http}
    /\ main' = "loop"
    /\ UNCHANGED <<tab, fd, gfd, rconn, links, runtime, target, shut, refused, left>>

(* Seeded fault: main closes the descriptor it gives up, which the senders   *)
(* still use.                                                                *)
FaultDropCloses(t, f) == [t EXCEPT ![f] = Free]

Drop(t, f) == t

(* read returns 0 or fails, also on a descriptor closed or taken meanwhile.  *)
ReadEnds ==
    /\ main = "read"
    /\ \/ ~IsLink(fd) /\ UNCHANGED links
       \/ /\ IsLink(fd) /\ tab[fd] \notin unread /\ links[tab[fd]] \in Ended
          /\ links' = [links EXCEPT ![tab[fd]] = "dead"]
    /\ tab' = Drop(tab, fd) /\ fd' = 0 /\ main' = "loop"
    /\ UNCHANGED <<gfd, rconn, http, unread, runtime, target, shut, refused, left>>

-----------------------------------------------------------------------------
(* host_tool_send_data: the write.  A descriptor that is not open is EBADF,  *)
(* a connection whose end was met before EPIPE: the call fails, no more.     *)
Write ==
    /\ target' = IF IsLink(gfd) THEN "runtime"
                 ELSE IF tab[gfd] = Client THEN "client" ELSE "none"
    /\ links' = IF IsLink(gfd) THEN [links EXCEPT ![tab[gfd]] = Idle(@)] ELSE links

IsReset == IsLink(gfd) /\ links[tab[gfd]] = "rst"

(* ... and the close after ECONNRESET, of what gfd is by then. *)
CloseLink == tab' = [tab EXCEPT ![gfd] = Free] /\ shut' = TRUE

MainSend ==
    /\ main = "send" /\ Write
    /\ main' = IF IsReset THEN "close" ELSE "loop"
    /\ UNCHANGED <<tab, fd, gfd, rconn, http, unread, runtime, shut, refused, left>>

MainClose ==
    /\ main = "close" /\ CloseLink
    /\ main' = "loop"
    /\ UNCHANGED <<fd, gfd, rconn, http, links, unread, runtime, target, refused, left>>

(* The HTTP thread, with one client at a time; a handler that has sent waits *)
(* for a response.                                                           *)
HttpAccept ==
    /\ main # "exited" /\ http = "idle"
    /\ \A f \in Fds : tab[f] # Client
    /\ \E f \in Fds : Lowest(f) /\ tab' = [tab EXCEPT ![f] = Client]
    /\ UNCHANGED <<fd, gfd, rconn, main, http, links, unread, runtime, target, shut, refused, left>>

HttpDone ==
    /\ http = "idle"
    /\ \E f \in Fds : tab[f] = Client /\ tab' = [tab EXCEPT ![f] = Free]
    /\ UNCHANGED <<fd, gfd, rconn, main, http, links, unread, runtime, target, shut, refused, left>>

HttpSend ==
    /\ http = "idle" /\ \E f \in Fds : tab[f] = Client
    /\ Write
    /\ http' = IF IsReset THEN "close" ELSE "wait"
    /\ UNCHANGED <<tab, fd, gfd, rconn, main, unread, runtime, shut, refused, left>>

HttpClose ==
    /\ http = "close" /\ CloseLink
    /\ http' = "wait"
    /\ UNCHANGED <<fd, gfd, rconn, main, links, unread, runtime, target, refused, left>>

(* The bridge dies and is started anew; main returns if it cannot connect.   *)
BridgeDies ==
    /\ main # "exited" /\ Spend("bridge") /\ Exited
    /\ UNCHANGED <<links, unread, runtime, target, shut, refused>>

BridgeStarts ==
    /\ main = "exited" /\ \E f \in Fds : TcpConnected(f)
    /\ main' = "loop" /\ refused' = 0
    /\ UNCHANGED <<rconn, http, unread, runtime, target, shut, left>>

-----------------------------------------------------------------------------
(* func_server_mode.  accept is called with the lock held.                   *)
ServerLock ==
    /\ server = "idle" /\ lock = "free"
    /\ server' = "accept" /\ lock' = "server"
    /\ UNCHANGED <<bridge, links, unread, sockfd, sending, target, shut, refused, left>>

ServerAccept ==
    /\ server = "accept"
    /\ \E c \in DOMAIN links :
          /\ links[c] = "backlog" /\ \A d \in 1 .. c - 1 : links[d] # "backlog"
          /\ links' = [links EXCEPT ![c] = "accepted"]
          /\ sockfd' = c
    /\ server' = "serve" /\ lock' = "free"
    /\ UNCHANGED <<bridge, unread, sending, target, shut, refused, left>>

(* Seeded fault: a read of 0 bytes is not taken for the end. *)
FaultEndIgnored == FALSE

(* read returns 0: the other end has been closed. *)
EndOfLink == ~Near(sockfd)

ServerReadEnds ==
    /\ server = "serve" /\ EndOfLink
    /\ server' = "close"
    /\ UNCHANGED <<bridge, links, unread, sockfd, lock, sending, target, shut, refused, left>>

(* Seeded fault: the server does not take the lock to close. *)
FaultCloseUnlocked == server = "close"

MayClose == server = "close" /\ lock = "free"

ServerClose ==
    /\ MayClose
    /\ links' = [links EXCEPT ![sockfd] = "dead"]
    /\ sockfd' = 0 /\ server' = "idle"
    /\ UNCHANGED <<bridge, unread, lock, sending, target, shut, refused, left>>

(* host_send: pthread_mutex_trylock, else -1; without a connection 0. *)
HostTry(s) ==
    /\ server # "down" /\ lock = "free" /\ sockfd # 0
    /\ lock' = s /\ sending' = sending \cup {s}
    /\ UNCHANGED <<bridge, links, unread, server, sockfd, target, shut, refused, left>>

HostWrite(s) ==
    /\ s \in sending
    /\ unread' = unread \cup {c \in {sockfd} : Near(c)}
    /\ sending' = sending \ {s} /\ lock' = "free"
    /\ UNCHANGED <<bridge, links, server, sockfd, target, shut, refused, left>>

(* The process is gone; connections nobody accepted go with it.  If it left  *)
(* data unread, the connection is reset.                                     *)
RuntimeDies ==
    /\ server # "down" /\ Spend("runtime")
    /\ server' = "down" /\ sockfd' = 0 /\ lock' = "free" /\ sending' = {}
    /\ \E end \in {"fin", "rst"} :
          links' = [c \in DOMAIN links |-> IF links[c] \in {"backlog", "accepted"} THEN end
                                           ELSE links[c]]
    /\ UNCHANGED <<bridge, unread, target, shut, refused>>

RuntimeStarts ==
    /\ server = "down" /\ server' = "idle"
    /\ UNCHANGED <<bridge, links, unread, sockfd, lock, sending, target, shut, refused, left>>

-----------------------------------------------------------------------------
Main == \/ GiveUp \/ ReconnectSucceeds \/ ReconnectFails \/ GoOn
        \/ SelectMqtt \/ SelectRuntime \/ SelectFails \/ ReadData \/ ReadEnds
        \/ MainSend \/ MainClose
Http == HttpAccept \/ HttpDone \/ HttpSend \/ HttpClose
Server == ServerLock \/ ServerAccept \/ ServerReadEnds \/ ServerClose

Next == \/ Main \/ Http \/ Server
        \/ \E s \in Senders : HostTry(s) \/ HostWrite(s)
        \/ BridgeDies \/ BridgeStarts \/ RuntimeDies \/ RuntimeStarts

Spec == Init /\ [][Next]_vars

(* Threads are scheduled.  The server's mutex is free again and again, since *)
(* host_send holds it for one write only, and a thread that waits for it     *)
(* gets it then.  Nothing need die, and what is dead need not start again.   *)
FairSpec == Spec /\ WF_vars(Main) /\ SF_vars(Server)
                 /\ \A s \in Senders : WF_vars(HostWrite(s))

-----------------------------------------------------------------------------
(* Every variable holds a value of its kind. *)
TypeOK ==
    /\ tab \in [Fds -> Cs \cup {Free, Client, Lost}]
    /\ fd \in 0 .. MaxFd /\ gfd \in 0 .. MaxFd /\ rconn \in 0 .. Attempts + 1
    /\ main \in {"loop", "select", "send", "close", "read", "exited"}
    /\ http \in {"idle", "close", "wait"}
    /\ links \in Seq({"backlog", "accepted"} \cup Ended) /\ Len(links) \in Cs
    /\ unread \subseteq Cs
    /\ server \in {"idle", "accept", "serve", "close", "down"}
    /\ sockfd \in 0 .. Len(links) /\ lock \in Senders \cup {"free", "server"}
    /\ sending \subseteq Senders
    /\ target \in {"none", "runtime", "client"} /\ shut \in BOOLEAN /\ refused \in Nat
    /\ left \in [{"bridge", "runtime", "publish"} -> Nat]

(* A thread of the runtime that writes has the lock, and writes to the       *)
(* connection that func_server_mode accepted last and has not closed.        *)
WritesAccepted ==
    \A s \in sending : lock = s /\ sockfd # 0 /\ links[sockfd] = "accepted"

(* A frame never goes to a client of the HTTP server that has got the same   *)
(* descriptor, as long as host_tool_send_data has not closed one: that main  *)
(* and tcp_init leave theirs open is what keeps the numbers apart.           *)
FramesToRuntime == ~shut => target # "client"

(* The bridge gives up only after Attempts failures in a row, however often  *)
(* it lost the runtime before.                                               *)
GivesUpLate == [][GiveUp => refused > Attempts]_vars

(* Whoever died and when: in the end the two have one connection, which both *)
(* use, or the bridge has exited; unless host_tool_send_data has closed a    *)
(* descriptor, which main does not learn.                                    *)
Paired == IsLink(fd) /\ gfd = fd /\ sockfd = tab[fd] /\ links[sockfd] = "accepted"
LinkComesBack == <>[](Paired \/ main = "exited" \/ shut)

-----------------------------------------------------------------------------
(* runtime_conn.h, host_tool_send_data: "Send data to WAMR."                 *)
FramesToWamr == target # "client"

=============================================================================
