-------------------------- MODULE RuntimeLinkProofs -------------------------
(* Proofs about RuntimeLink, for every number of descriptors, connections,   *)
(* attempts, senders and deaths of either side.                              *)
EXTENDS RuntimeLink, TLAPS

(* A descriptor that is a connection is one that has been made. *)
Inside == \A f \in Fds : tab[f] \in Cs => tab[f] \in DOMAIN links

(* sock_lock is held by the server exactly while it accepts, and by whoever  *)
(* writes; the runtime has a socket exactly while the server serves it.      *)
LockInv ==
    /\ server = "accept" <=> lock = "server"
    /\ server \in {"serve", "close"} <=> sockfd # 0
    /\ sockfd # 0 => links[sockfd] = "accepted"
    /\ \A s \in sending : lock = s /\ sockfd # 0

(* While the bridge runs, the senders' descriptor is a connection, unless    *)
(* host_tool_send_data has closed it, and rconn counts the failures.         *)
UseInv ==
    /\ main = "exited" => fd = 0 /\ gfd = 0 /\ http = "idle" /\ \A f \in Fds : tab[f] = Free
    /\ main # "exited" => gfd # 0
    /\ main # "exited" /\ ~shut => tab[gfd] \in Cs
    /\ target = "client" => shut
    /\ rconn = (IF main = "exited" THEN 0 ELSE refused)

(* The inductive invariant. *)
IInv == TypeOK /\ Inside /\ LockInv /\ UseInv

(* It holds at the start. *)
LEMMA InitIInv == Init => IInv
  <1>. SUFFICES ASSUME Init PROVE IInv
    OBVIOUS
  <1>. USE LinkAssumption DEF Init, Fds, Cs
  <1>1. links \in Seq({"backlog", "accepted"} \cup Ended) /\ Len(links) = 1
    OBVIOUS
  <1>2. left \in [{"bridge", "runtime", "publish"} -> Nat]
    OBVIOUS
  <1>3. tab \in [Fds -> Cs \cup {Free, Client, Lost}] /\ fd \in 0 .. MaxFd /\ gfd \in 0 .. MaxFd
    BY DEF Free
  <1>4. /\ rconn \in 0 .. Attempts + 1 /\ Len(links) \in Cs /\ sockfd \in 0 .. Len(links)
        /\ refused \in Nat
    BY <1>1
  <1>5. shut \in BOOLEAN /\ unread \subseteq Cs /\ sending \subseteq Senders
    OBVIOUS
  <1>6. TypeOK
    BY <1>1, <1>2, <1>3, <1>4, <1>5, Zenon DEF TypeOK
  <1>7. Inside
    BY <1>1 DEF Inside, Free
  <1>8. LockInv /\ UseInv
    BY DEF LockInv, UseInv
  <1>. QED
    BY <1>6, <1>7, <1>8 DEF IInv

(* What a write of the bridge does to the connections: their number stays,   *)
(* and an accepted one stays accepted.                                       *)
LEMMA WriteType ==
    ASSUME IInv, Write
    PROVE  /\ links' \in Seq({"backlog", "accepted"} \cup Ended) /\ Len(links') = Len(links)
           /\ target' \in {"none", "runtime", "client"}
           /\ \A c \in DOMAIN links : links[c] = "accepted" => links'[c] = "accepted"
  <1>. USE DEF IInv, TypeOK, Write
  <1>1. CASE IsLink(gfd)
    <2>1. gfd \in Fds /\ tab[gfd] \in DOMAIN links
      BY <1>1 DEF IsLink, Inside, Fds
    <2>. QED
      BY <1>1, <2>1 DEF Idle, Ended
  <1>2. CASE ~IsLink(gfd)
    BY <1>2
  <1>. QED
    BY <1>1, <1>2

(* The connections after a death of the runtime are as many as before. *)
LEMMA EndsType ==
    ASSUME NEW S, NEW s \in Seq(S), NEW e \in S, NEW T
    PROVE  LET t == [c \in DOMAIN s |-> IF s[c] \in T THEN e ELSE s[c]]
           IN  t \in Seq(S) /\ Len(t) = Len(s)
  OBVIOUS

(* Every step keeps the types. *)
LEMMA TypeStep ==
    ASSUME IInv, [Next]_vars
    PROVE  TypeOK'
  <1>. USE DEF IInv, TypeOK, Fds, Cs
  <1>1. CASE GiveUp
    BY <1>1, LinkAssumption
       DEF GiveUp, Exited, Free, TooMany, runtime
  <1>2. CASE ReconnectSucceeds
    BY <1>2, LinkAssumption
       DEF ReconnectSucceeds, TooMany, TcpConnected, Lowest, Free,
           AfterSuccess, runtime
  <1>3. CASE ReconnectFails
    BY <1>3, LinkAssumption
       DEF ReconnectFails, TooMany, Lowest, Free, Lost, runtime
  <1>4. CASE GoOn
    BY <1>4, LinkAssumption
       DEF GoOn, TooMany, runtime
  <1>5. CASE SelectMqtt
    BY <1>5, LinkAssumption
       DEF SelectMqtt, Spend, Free, runtime
  <1>6. CASE SelectRuntime
    BY <1>6, LinkAssumption
       DEF SelectRuntime, Readable, IsLink, Client, runtime
  <1>7. CASE SelectFails
    BY <1>7, LinkAssumption
       DEF SelectFails, Free, runtime
  <1>8. CASE ReadData
    BY <1>8, LinkAssumption
       DEF ReadData, IsLink, Client, runtime
  <1>9. CASE ReadEnds
    <2>1. links' \in Seq({"backlog", "accepted"} \cup Ended) /\ Len(links') = Len(links)
      BY <1>9 DEF ReadEnds, IsLink, Inside, Ended
    <2>. QED
      BY <1>9, <2>1, LinkAssumption DEF ReadEnds, Drop, runtime
  <1>10. CASE MainSend
    BY <1>10, LinkAssumption, WriteType
       DEF MainSend, runtime
  <1>11. CASE MainClose
    BY <1>11, LinkAssumption
       DEF MainClose, CloseLink, Free, runtime
  <1>12. CASE HttpAccept
    BY <1>12, LinkAssumption
       DEF HttpAccept, Lowest, Free, Client, runtime
  <1>13. CASE HttpDone
    BY <1>13, LinkAssumption
       DEF HttpDone, Free, Client, runtime
  <1>14. CASE HttpSend
    BY <1>14, LinkAssumption, WriteType
       DEF HttpSend, runtime
  <1>15. CASE HttpClose
    BY <1>15, LinkAssumption
       DEF HttpClose, CloseLink, Free, runtime
  <1>16. CASE BridgeDies
    BY <1>16, LinkAssumption
       DEF BridgeDies, Exited, Free, Spend, runtime
  <1>17. CASE BridgeStarts
    BY <1>17, LinkAssumption
       DEF BridgeStarts, TcpConnected, Lowest, Free, runtime
  <1>18. CASE ServerLock
    BY <1>18, LinkAssumption
       DEF ServerLock, bridge
  <1>19. CASE ServerAccept
    <2>1. PICK c \in DOMAIN links :
             links' = [links EXCEPT ![c] = "accepted"] /\ sockfd' = c
      BY <1>19 DEF ServerAccept
    <2>2. links' \in Seq({"backlog", "accepted"} \cup Ended) /\ Len(links') = Len(links)
      BY <2>1 DEF Ended
    <2>3. sockfd' \in 0 .. Len(links')
      BY <2>1, <2>2
    <2>. QED
      BY <1>19, <2>2, <2>3 DEF ServerAccept, bridge
  <1>20. CASE ServerReadEnds
    BY <1>20, LinkAssumption
       DEF ServerReadEnds, EndOfLink, Near, bridge
  <1>21. CASE ServerClose
    <2>1. sockfd \in DOMAIN links
      BY <1>21 DEF ServerClose, MayClose, LockInv
    <2>. QED
      BY <1>21, <2>1 DEF ServerClose, Ended, bridge
  <1>22. CASE \E s \in Senders : HostTry(s)
    BY <1>22, LinkAssumption
       DEF HostTry, bridge
  <1>23. CASE \E s \in Senders : HostWrite(s)
    <2>1. sockfd \in Cs
      BY <1>23, LinkAssumption DEF HostWrite, LockInv
    <2>. QED
      BY <1>23, <2>1 DEF HostWrite, bridge
  <1>24. CASE RuntimeDies
    <2>1. links' \in Seq({"backlog", "accepted"} \cup Ended) /\ Len(links') = Len(links)
      <3>1. PICK end \in {"fin", "rst"} :
               links' = [c \in DOMAIN links |-> IF links[c] \in {"backlog", "accepted"} THEN end
                                               ELSE links[c]]
        BY <1>24 DEF RuntimeDies
      <3>2. end \in {"backlog", "accepted"} \cup Ended
        BY DEF Ended
      <3>. QED
        BY <3>1, <3>2, EndsType
    <2>. QED
      BY <1>24, <2>1 DEF RuntimeDies, Spend, bridge
  <1>25. CASE RuntimeStarts
    BY <1>25, LinkAssumption
       DEF RuntimeStarts, bridge
  <1>26. CASE UNCHANGED vars
    BY <1>26 DEF vars, bridge, runtime
  <1>. QED
    BY <1>1, <1>2, <1>3, <1>4, <1>5, <1>6, <1>7, <1>8, <1>9, <1>10, <1>11, <1>12, <1>13, <1>14, <1>15, <1>16, <1>17, <1>18, <1>19, <1>20, <1>21, <1>22, <1>23, <1>24, <1>25, <1>26
       DEF Next, Main, Http, Server, vars, bridge, runtime

(* Every step keeps descriptors within the connections made. *)
LEMMA InsideStep ==
    ASSUME IInv, [Next]_vars
    PROVE  Inside'
  <1>. USE DEF IInv, Inside, TypeOK, Fds, Cs
  <1>1. CASE GiveUp
    BY <1>1, LinkAssumption
       DEF GiveUp, Exited, Free, TooMany, runtime
  <1>2. CASE ReconnectSucceeds
    BY <1>2, LinkAssumption
       DEF ReconnectSucceeds, TooMany, TcpConnected, Lowest, Free,
           AfterSuccess, runtime
  <1>3. CASE ReconnectFails
    BY <1>3, LinkAssumption
       DEF ReconnectFails, TooMany, Lowest, Free, Lost, runtime
  <1>4. CASE ReadEnds
    BY <1>4, LinkAssumption
       DEF ReadEnds, IsLink, Drop, runtime
  <1>5. CASE MainSend
    BY <1>5, LinkAssumption, WriteType
       DEF MainSend, runtime
  <1>6. CASE MainClose
    BY <1>6, LinkAssumption
       DEF MainClose, CloseLink, Free, runtime
  <1>7. CASE HttpAccept
    BY <1>7, LinkAssumption
       DEF HttpAccept, Lowest, Free, Client, runtime
  <1>8. CASE HttpDone
    BY <1>8, LinkAssumption
       DEF HttpDone, Free, Client, runtime
  <1>9. CASE HttpSend
    BY <1>9, LinkAssumption, WriteType
       DEF HttpSend, Client, runtime
  <1>10. CASE HttpClose
    BY <1>10, LinkAssumption
       DEF HttpClose, CloseLink, Free, runtime
  <1>11. CASE BridgeDies
    BY <1>11, LinkAssumption
       DEF BridgeDies, Exited, Free, Spend, runtime
  <1>12. CASE BridgeStarts
    BY <1>12, LinkAssumption
       DEF BridgeStarts, TcpConnected, Lowest, Free, runtime
  <1>13. CASE ServerAccept
    BY <1>13, LinkAssumption
       DEF ServerAccept, bridge
  <1>14. CASE ServerClose
    BY <1>14, LinkAssumption
       DEF ServerClose, MayClose, bridge
  <1>15. CASE RuntimeDies
    BY <1>15, LinkAssumption
       DEF RuntimeDies, Spend, bridge
  <1>16. CASE UNCHANGED <<tab, links>>
    BY <1>16
  <1>. QED
    BY <1>1, <1>2, <1>3, <1>4, <1>5, <1>6, <1>7, <1>8, <1>9, <1>10, <1>11, <1>12, <1>13, <1>14, <1>15, <1>16
       DEF Next, Main, Http, Server, vars, bridge, runtime, GoOn, SelectMqtt, SelectRuntime, SelectFails, ReadData,
            ServerLock, ServerReadEnds, HostTry, HostWrite, RuntimeStarts

(* Every step keeps the discipline of sock_lock. *)
LEMMA LockStep ==
    ASSUME IInv, [Next]_vars
    PROVE  LockInv'
  <1>. USE DEF IInv, LockInv, TypeOK, runtime
  <1>1. CASE ReconnectSucceeds
    BY <1>1, LinkAssumption
       DEF ReconnectSucceeds, TooMany, TcpConnected, Lowest, Free,
           AfterSuccess
  <1>2. CASE ReadEnds
    BY <1>2 DEF ReadEnds, IsLink, Inside, Ended, Fds
  <1>3. CASE MainSend
    BY <1>3, LinkAssumption, WriteType
       DEF MainSend
  <1>4. CASE HttpSend
    BY <1>4, LinkAssumption, WriteType
       DEF HttpSend, Client
  <1>5. CASE BridgeStarts
    BY <1>5, LinkAssumption
       DEF BridgeStarts, TcpConnected, Lowest, Free
  <1>6. CASE ServerLock
    BY <1>6, LinkAssumption
       DEF ServerLock, bridge
  <1>7. CASE ServerAccept
    BY <1>7, LinkAssumption
       DEF ServerAccept, bridge
  <1>8. CASE ServerReadEnds
    BY <1>8, LinkAssumption
       DEF ServerReadEnds, EndOfLink, Near, bridge
  <1>9. CASE ServerClose
    BY <1>9, LinkAssumption
       DEF ServerClose, MayClose, bridge
  <1>10. CASE \E s \in Senders : HostTry(s)
    BY <1>10, LinkAssumption
       DEF HostTry, bridge
  <1>11. CASE \E s \in Senders : HostWrite(s)
    BY <1>11, LinkAssumption
       DEF HostWrite, Near, bridge
  <1>12. CASE RuntimeDies
    BY <1>12, LinkAssumption
       DEF RuntimeDies, Spend, bridge
  <1>13. CASE RuntimeStarts
    BY <1>13, LinkAssumption
       DEF RuntimeStarts, bridge
  <1>14. CASE UNCHANGED <<runtime, links>>
    BY <1>14
  <1>. QED
    BY <1>1, <1>2, <1>3, <1>4, <1>5, <1>6, <1>7, <1>8, <1>9, <1>10, <1>11, <1>12, <1>13, <1>14
       DEF Next, Main, Http, Server, vars, bridge, runtime, GiveUp, ReconnectFails, GoOn, SelectMqtt, SelectRuntime,
            SelectFails, ReadData, MainClose, HttpAccept, HttpDone,
            HttpClose, BridgeDies

(* Every step keeps the senders' descriptor a connection. *)
LEMMA UseStep ==
    ASSUME IInv, [Next]_vars
    PROVE  UseInv'
  <1>. USE DEF IInv, UseInv, TypeOK, Fds, Cs, Free, Client, Lost, bridge
  <1>1. CASE GiveUp
    BY <1>1, LinkAssumption
       DEF GiveUp, Exited, TooMany, runtime
  <1>2. CASE ReconnectSucceeds
    BY <1>2, LinkAssumption
       DEF ReconnectSucceeds, TooMany, TcpConnected, Lowest,
           AfterSuccess, runtime
  <1>3. CASE ReconnectFails
    BY <1>3, LinkAssumption
       DEF ReconnectFails, TooMany, Lowest, runtime
  <1>4. CASE GoOn
    BY <1>4, LinkAssumption
       DEF GoOn, TooMany, runtime
  <1>5. CASE SelectMqtt
    BY <1>5, LinkAssumption
       DEF SelectMqtt, Spend, runtime
  <1>6. CASE SelectRuntime
    BY <1>6, LinkAssumption
       DEF SelectRuntime, Readable, IsLink, runtime
  <1>7. CASE SelectFails
    BY <1>7, LinkAssumption
       DEF SelectFails, runtime
  <1>8. CASE ReadData
    BY <1>8, LinkAssumption
       DEF ReadData, IsLink, runtime
  <1>9. CASE ReadEnds
    BY <1>9, LinkAssumption
       DEF ReadEnds, IsLink, Drop, runtime
  <1>10. CASE MainSend
    BY <1>10, LinkAssumption
       DEF MainSend, Write, IsLink, IsReset, runtime
  <1>11. CASE MainClose
    BY <1>11, LinkAssumption
       DEF MainClose, CloseLink, runtime
  <1>12. CASE HttpAccept
    BY <1>12, LinkAssumption
       DEF HttpAccept, Lowest, runtime
  <1>13. CASE HttpDone
    BY <1>13, LinkAssumption
       DEF HttpDone, runtime
  <1>14. CASE HttpSend
    BY <1>14, LinkAssumption
       DEF HttpSend, Write, IsLink, IsReset, runtime
  <1>15. CASE HttpClose
    BY <1>15, LinkAssumption
       DEF HttpClose, CloseLink, runtime
  <1>16. CASE BridgeDies
    BY <1>16, LinkAssumption
       DEF BridgeDies, Exited, Spend, runtime
  <1>17. CASE BridgeStarts
    BY <1>17, LinkAssumption
       DEF BridgeStarts, TcpConnected, Lowest, runtime
  <1>18. CASE UNCHANGED <<bridge, target, shut, refused>>
    BY <1>18
  <1>. QED
    BY <1>1, <1>2, <1>3, <1>4, <1>5, <1>6, <1>7, <1>8, <1>9, <1>10, <1>11, <1>12, <1>13, <1>14, <1>15, <1>16, <1>17, <1>18
       DEF Next, Main, Http, Server, vars, bridge, runtime, ServerLock, ServerAccept, ServerReadEnds, ServerClose,
            HostTry, HostWrite, RuntimeDies, RuntimeStarts

(* The invariant is inductive ... *)
LEMMA NextIInv == IInv /\ [Next]_vars => IInv'
  BY TypeStep, InsideStep, LockStep, UseStep DEF IInv

(* ... and holds in every state.  FairSpec implies Spec. *)
LEMMA SpecIInv == Spec => []IInv
  BY InitIInv, NextIInv, PTL DEF Spec

(* Every variable of the link holds a value of its kind; in particular rconn *)
(* never passes Attempts + 1.                                                *)
THEOREM TypeCorrect == Spec => []TypeOK
  BY SpecIInv, PTL DEF IInv

(* A thread of the runtime that writes in host_send has sock_lock and writes *)
(* to the connection that is accepted and not closed.                        *)
THEOREM WritesOnAccepted == Spec => []WritesAccepted
  <1>1. IInv => WritesAccepted
    BY DEF IInv, LockInv, WritesAccepted
  <1>. QED
    BY <1>1, SpecIInv, PTL

(* No frame of the bridge goes to an HTTP client before host_tool_send_data  *)
(* has closed a descriptor.                                                  *)
THEOREM FramesStayApart == Spec => []FramesToRuntime
  <1>1. IInv => FramesToRuntime
    BY DEF IInv, UseInv, FramesToRuntime
  <1>. QED
    BY <1>1, SpecIInv, PTL

(* main exits for lack of a runtime only after more than Attempts failures   *)
(* in a row.                                                                 *)
THEOREM ExitsLate == Spec => GivesUpLate
  <1>1. IInv /\ [Next]_vars => [GiveUp => refused > Attempts]_vars
    BY LinkAssumption DEF IInv, TypeOK, UseInv, GiveUp, TooMany
  <1>. QED
    BY <1>1, SpecIInv, PTL DEF Spec, GivesUpLate

=============================================================================
