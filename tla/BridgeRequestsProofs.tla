------------------------- MODULE BridgeRequestsProofs -----------------------
(* Proofs about BridgeRequests, for every number of requests, publishes,     *)
(* events and connection losses, in three parts: what holds always; what     *)
(* holds as long as no MQTT publish is forwarded and no message of the       *)
(* runtime torn apart; and that every step, as long as no publish is         *)
(* forwarded, is a step of the service RestService, or none.                 *)
EXTENDS BridgeRequestsMC, SequenceTheorems, FiniteSetTheorems, TLAPS

(* PART 1. At all times.                                                     *)

(* The steps of Next, one disjunct each, so that a proof can take them apart. *)
LEMMA NextSteps ==
    ASSUME Next
    PROVE  /\ Running
           /\ \/ \E op \in RestOps : HttpStart(op)
              \/ HttpReject \/ HttpCrash \/ HttpBadMethod
              \/ \E t \in Threads : \/ RequestSentMid(t) \/ RequestSentOp(t)
                                    \/ SendChunk(t) \/ SendFails(t)
              \/ WaitTest \/ SpuriousWakeup \/ Reply \/ Free
              \/ PollMqtt \/ ForwardPublish \/ IgnorePublish \/ PoolDone
              \/ ReadLink \/ ReadCut \/ ReadGarbled \/ ReadSwallowed
              \/ GetMid \/ GetOp \/ Mismatch \/ Announce \/ NothingToAnnounce
              \/ OutputStatus \/ OutputStr \/ Received \/ Reconnect \/ GiveUp
              \/ RtReceive \/ RtGarbage \/ RtRespond \/ RtNoAnswer
              \/ RtEvent \/ Publish \/ LinkBreak
  BY DEF Next, HttpClient, HttpThread, MainThread, Runtime, Environment, Sending, Threads

(* The part of a sequence that is left when its first k elements are taken.  *)
LEMMA SuffixType ==
    ASSUME NEW S, NEW s \in Seq(S), NEW k \in 0 .. Len(s)
    PROVE  SubSeq(s, k + 1, Len(s)) \in Seq(S) /\ SubSeq(s, 1, k) \in Seq(S)
  OBVIOUS

(* The empty sequence is a sequence over any set. *)
LEMMA EmptyType ==
    ASSUME NEW S PROVE <<>> \in Seq(S)
  OBVIOUS

(* A sequence with one more element of the set is a sequence over it. *)
LEMMA AppendType ==
    ASSUME NEW S, NEW s \in Seq(S), NEW e \in S
    PROVE  Append(s, e) \in Seq(S)
  OBVIOUS

(* A thread moves within its own program. *)
LEMMA GotoType ==
    ASSUME PcOK, NEW t \in Threads, NEW l, Goto(t, l),
           IF t = "http" THEN l \in HttpPCs ELSE l \in MainPCs
    PROVE  PcOK'
  BY DEF PcOK, Goto, Threads, HttpPCs, MainPCs

(* GotoType for the HTTP thread ... *)
LEMMA HttpGoto ==
    ASSUME PcOK, NEW l \in HttpPCs, Goto("http", l)
    PROVE  PcOK'
  BY GotoType DEF Threads

(* ... and for the main thread. *)
LEMMA MainGoto ==
    ASSUME PcOK, NEW l \in MainPCs, Goto("main", l)
    PROVE  PcOK'
  BY GotoType DEF Threads

(* An answer of the handler's own is an answer. *)
LEMMA RefuseType ==
    ASSUME replies \in Seq(Replies), NEW to \in Nat,
           NEW code \in {"400", "405", "500"}, Refuse(to, code)
    PROVE  replies' \in Seq(Replies)
<1>1. [to |-> to, code |-> code, status |-> NoStatus, body |-> NULL] \in Replies
  BY DEF Replies, Statuses, NoStatus, Texts, NULL
<1>2. QED
  BY <1>1 DEF Refuse

(* The two messages that were never sent are messages. *)
LEMMA StrayType == Stray \in Messages /\ Nothing \in Messages /\ Event \in Messages
  BY DEF Stray, Nothing, Event, Response, Message, Messages

(* What comes of a message that was completed with other bytes. *)
LEMMA GarbledType ==
    ASSUME NEW c \in Messages, NEW m \in Garbled(c)
    PROVE  m \in Messages
  BY StrayType DEF Garbled, Messages

(* Where main goes on with a message. *)
LEMMA HandleType ==
    ASSUME TypeOK, NEW m \in Messages, Handle(m)
    PROVE  PcOK' /\ resp' \in Messages /\ ret' \in {"select", "status"}
<1>1. CASE m.kind = "response"
  BY <1>1, MainGoto DEF Handle, TypeOK, MainPCs
<1>2. CASE m.kind # "response"
  BY <1>2, MainGoto DEF Handle, TypeOK, MainPCs
<1>. QED
  BY <1>1, <1>2

(* What a read leaves of the messages that had arrived. *)
LEMMA TakeType ==
    ASSUME TypeOK, NEW k \in 0 .. Len(fromRt),
           (Take(k) /\ UNCHANGED torn) \/ TakeInPart(k)
    PROVE  fromRt' \in Seq(Messages) /\ torn' \in BOOLEAN
<1> DEFINE rest == SubSeq(fromRt, k + 1, Len(fromRt))
<1>1. rest \in Seq(Messages)
  BY SuffixType DEF TypeOK
<1>2. <<Stray>> \in Seq(Messages)
  BY StrayType
<1> HIDE DEF rest
<1>3. <<Stray>> \o rest \in Seq(Messages)
  BY <1>1, <1>2
<1>4. \/ fromRt' = rest /\ torn' = torn
      \/ fromRt' = <<Stray>> \o rest /\ torn' = TRUE
  BY DEF Take, TakeInPart, rest
<1>. QED
  BY <1>1, <1>3, <1>4 DEF TypeOK

(* The beginning of a message, kept for the next connection. *)
LEMMA CutType ==
    ASSUME TypeOK, ReadCut
    PROVE  TypeOK'
<1>1. fromRt # <<>> /\ Take(1) /\ recv_ctx' = [Head(fromRt) EXCEPT !.cut = FALSE]
         /\ UNCHANGED <<pc, ret, resp, torn, afterRead>>
  BY DEF ReadCut
<1>2. Head(fromRt) \in Messages /\ 1 \in 0 .. Len(fromRt)
  BY <1>1 DEF TypeOK
<1>3. recv_ctx' \in Messages
  BY <1>1, <1>2 DEF Messages
<1>4. fromRt' \in Seq(Messages)
  BY <1>1, <1>2, TakeType
<1>. QED
  BY <1>1, <1>3, <1>4 DEF TypeOK, PcOK, afterRead, shared, result, history

(* Bytes that were taken for a part of it. *)
LEMMA SwallowedType ==
    ASSUME TypeOK, ReadSwallowed
    PROVE  TypeOK'
<1>1. UNCHANGED <<pc, ret, resp, afterRead>>
  BY DEF ReadSwallowed
<1>2. PICK k \in 1 .. Len(fromRt) : (Take(k) /\ UNCHANGED <<recv_ctx, torn>>)
                                     \/ (TakeInPart(k) /\ recv_ctx' = Nothing)
  BY ZenonT(30) DEF ReadSwallowed
<1>3. k \in 0 .. Len(fromRt)
  BY <1>2
<1>4. (Take(k) /\ UNCHANGED torn) \/ TakeInPart(k)
  BY <1>2
<1>5. fromRt' \in Seq(Messages) /\ torn' \in BOOLEAN
  BY <1>3, <1>4, TakeType
<1>6. recv_ctx' \in Messages
  BY <1>2, StrayType DEF TypeOK
<1>. QED
  BY <1>1, <1>5, <1>6 DEF TypeOK, PcOK, afterRead, shared, result, history

(* What a loss of the link leaves of them. *)
LEMMA LossType ==
    ASSUME TypeOK, LinkBreak
    PROVE  fromRt' \in Seq(Messages) /\ torn' \in BOOLEAN
<1>1. PICK k \in 0 .. Len(fromRt) :
         \/ fromRt' = SubSeq(fromRt, 1, k) /\ UNCHANGED torn
         \/ /\ k > 0 /\ torn' = TRUE
            /\ fromRt' = [SubSeq(fromRt, 1, k) EXCEPT ![k].cut = TRUE]
  BY DEF LinkBreak
<1> DEFINE some == SubSeq(fromRt, 1, k)
<1>2. some \in Seq(Messages) /\ Len(some) = k
  BY SuffixType DEF TypeOK
<1> HIDE DEF some
<1>3. k > 0 => [some EXCEPT ![k].cut = TRUE] \in Seq(Messages)
  <2>1. SUFFICES ASSUME k > 0 PROVE [some EXCEPT ![k].cut = TRUE] \in Seq(Messages)
    OBVIOUS
  <2>2. k \in 1 .. Len(some) /\ some[k] \in Messages
    BY <1>2, <2>1
  <2>3. [some[k] EXCEPT !.cut = TRUE] \in Messages
    BY <2>2 DEF Messages
  <2>4. [some EXCEPT ![k] = [some[k] EXCEPT !.cut = TRUE]] \in Seq(Messages)
    BY <1>2, <2>2, <2>3
  <2>. QED
    BY <2>4
<1>. QED
  BY <1>1, <1>2, <1>3 DEF some, TypeOK

(* Each step keeps every variable in its type.  LockInv is needed for one    *)
(* thing: a thread in the critical section has a request to register.        *)
LEMMA TypeStep ==
    ASSUME TypeOK, LockInv, [Next]_vars
    PROVE  TypeOK'
<1> USE DEF TypeOK, shared, handled, result, inward, wires, history, bridge
<1>1. ASSUME NEW op \in RestOps, HttpStart(op) PROVE TypeOK'
  <2>1. PcOK'
    BY <1>1, HttpGoto DEF HttpStart, NewRequest, gen_random_id, HttpPCs
  <2>2. reqs' \in Seq(Ops) /\ mid' \in [Threads -> Nat]
    <3>1. op \in Ops /\ Len(reqs) + 1 \in Nat
      BY DEF Ops
    <3>2. reqs' = Append(reqs, op) /\ mid' = [mid EXCEPT !["http"] = Len(reqs) + 1]
      BY <1>1 DEF HttpStart, NewRequest, gen_random_id
    <3>3. reqs' \in Seq(Ops)
      BY <3>1, <3>2, AppendType
    <3>4. mid' \in [Threads -> Nat]
      BY <3>1, <3>2 DEF Threads
    <3>5. QED
      BY <3>3, <3>4
  <2>3. left' \in [{"http", "publish", "event", "break"} -> Nat]
    BY <1>1 DEF HttpStart, Spend
  <2>4. QED
    BY <1>1, <2>1, <2>2, <2>3 DEF HttpStart
<1>2. CASE HttpReject
  <2>1. PcOK'
    BY <1>2, HttpGoto DEF HttpReject, HttpPCs
  <2>2. QED
    BY <1>2, <2>1, RefuseType DEF HttpReject, Spend, Threads
<1>3. CASE HttpBadMethod
  <2>1. PcOK'
    BY <1>3 DEF HttpBadMethod, PcOK
  <2>2. QED
    BY <1>3, <2>1, RefuseType DEF HttpBadMethod, Spend
<1>4. ASSUME NEW t \in Threads, RequestSentMid(t) PROVE TypeOK'
  <2>1. PcOK'
    BY <1>4, GotoType DEF RequestSentMid, HttpPCs, MainPCs
  <2>2. QED
    BY <1>4, <2>1 DEF RequestSentMid
<1>5. ASSUME NEW t \in Threads, RequestSentOp(t) PROVE TypeOK'
  <2>1. PcOK'
    BY <1>5, GotoType DEF RequestSentOp, HttpPCs, MainPCs
  <2>2. reqs[mid[t]] \in Ops
    BY <1>5 DEF RequestSentOp, LockInv
  <2>3. QED
    BY <1>5, <2>1, <2>2 DEF RequestSentOp
<1>6. ASSUME NEW t \in Threads, SendChunk(t) PROVE TypeOK'
  <2>1. PcOK'
    BY <1>6, GotoType DEF SendChunk, AfterSend, HttpPCs, MainPCs
  <2>2. [mid |-> mid[t], part |-> pc[t]] \in Chunks
    BY <1>6 DEF SendChunk, Chunks
  <2>3. QED
    BY <1>6, <2>1, <2>2 DEF SendChunk
<1>7. ASSUME NEW t \in Threads, SendFails(t) PROVE TypeOK'
  <2>1. PcOK'
    BY <1>7, GotoType DEF SendFails, AfterSend, HttpPCs, MainPCs
  <2>2. replies' \in Seq(Replies)
    BY <1>7, RefuseType DEF SendFails
  <2>3. QED
    BY <1>7, <2>1, <2>2 DEF SendFails
<1>8. CASE WaitTest
  <2>1. PcOK'
    BY <1>8, HttpGoto DEF WaitTest, HttpPCs
  <2>2. QED
    BY <1>8, <2>1 DEF WaitTest
<1>9. CASE SpuriousWakeup
  <2>1. PcOK'
    BY <1>9, HttpGoto DEF SpuriousWakeup, HttpPCs
  <2>2. QED
    BY <1>9, <2>1 DEF SpuriousWakeup
<1>10. CASE Reply
  <2>1. PcOK'
    BY <1>10, HttpGoto DEF Reply, HttpPCs
  <2>2. [to |-> mid["http"], code |-> "runtime", status |-> last_status,
         body |-> last_str] \in Replies
    BY DEF Replies, Threads
  <2>3. replies' \in Seq(Replies)
    <3>1. CASE last_str # NULL
      <4> DEFINE r == [to |-> mid["http"], code |-> "runtime", status |-> last_status,
                       body |-> last_str]
      <4>1. replies' = Append(replies, r)
        BY <1>10, <3>1 DEF Reply
      <4>2. r \in Replies
        BY <2>2
      <4> HIDE DEF r
      <4>3. QED
        BY <4>1, <4>2, AppendType
    <3>2. CASE last_str = NULL
      <4>1. mid["http"] \in Nat /\ Refuse(mid["http"], "500")
        BY <1>10, <3>2 DEF Reply, Threads
      <4>2. QED
        BY <4>1, RefuseType
    <3>3. QED
      BY <3>1, <3>2
  <2>4. QED
    BY <1>10, <2>1, <2>3 DEF Reply
<1>11. CASE Free
  <2>1. PcOK'
    BY <1>11, HttpGoto DEF Free, HttpPCs
  <2>2. QED
    BY <1>11, <2>1 DEF Free, Texts, NULL
<1>12. CASE PollMqtt
  <2>1. PcOK'
    BY <1>12, MainGoto DEF PollMqtt, MainPCs
  <2>2. QED
    BY <1>12, <2>1 DEF PollMqtt
<1>13. CASE ForwardPublish
  <2>1. PcOK'
    BY <1>13, MainGoto DEF ForwardPublish, NewRequest, gen_random_id, MainPCs
  <2>2. QED
    BY <1>13, <2>1 DEF ForwardPublish, NewRequest, gen_random_id, Ops, Threads
<1>14. CASE IgnorePublish
  <2>1. PcOK'
    BY <1>14 DEF IgnorePublish, PcOK
  <2>2. QED
    BY <1>14, <2>1 DEF IgnorePublish
<1>15. CASE PoolDone
  <2>1. PcOK'
    BY <1>15, MainGoto DEF PoolDone, MainPCs
  <2>2. QED
    BY <1>15, <2>1 DEF PoolDone
<1>16. CASE ReadLink
  <2>1. fromRt # <<>> /\ Handle(Head(fromRt)) /\ UNCHANGED <<recv_ctx, afterRead>>
    BY <1>16 DEF ReadLink
  <2>2. Head(fromRt) \in Messages
    BY <2>1
  <2>3. PcOK' /\ resp' \in Messages /\ ret' \in {"select", "status"}
    BY <2>1, <2>2, HandleType
  <2>4. PICK k \in 1 .. Len(fromRt) : TakeInPart(k)
    <3>1. CASE Take(1) /\ UNCHANGED torn
      <4>1. 1 \in 1 .. Len(fromRt)
        BY <2>1
      <4>. QED
        BY <3>1, <4>1 DEF TakeInPart
    <3>2. CASE \E k \in 2 .. Len(fromRt) : TakeInPart(k)
      BY <3>2
    <3>. QED
      BY <1>16, <3>1, <3>2 DEF ReadLink
  <2>5. fromRt' \in Seq(Messages) /\ torn' \in BOOLEAN
    BY <2>4, TakeType
  <2>. QED
    BY <2>1, <2>3, <2>5 DEF afterRead
<1>36. CASE ReadCut
  BY <1>36, CutType DEF ReadCut
<1>37. CASE ReadGarbled
  <2>1. PICK k \in 1 .. Len(fromRt) : TakeInPart(k)
    BY <1>37 DEF ReadGarbled
  <2>2. PICK m \in Garbled(recv_ctx) : Handle(m)
    BY <1>37 DEF ReadGarbled
  <2>3. m \in Messages
    BY GarbledType
  <2>4. PcOK' /\ resp' \in Messages /\ ret' \in {"select", "status"}
    BY <2>2, <2>3, HandleType
  <2>7. k \in 0 .. Len(fromRt)
    OBVIOUS
  <2>5. fromRt' \in Seq(Messages) /\ torn' \in BOOLEAN
    BY <2>1, <2>7, TakeType
  <2>6. recv_ctx' \in Messages
    BY <1>37, StrayType DEF ReadGarbled
  <2>. QED
    BY <1>37, <2>4, <2>5, <2>6 DEF ReadGarbled, afterRead
<1>38. CASE ReadSwallowed
  BY <1>38, SwallowedType
<1>39. CASE HttpCrash
  <2>1. PcOK'
    BY <1>39, HttpGoto DEF HttpCrash, HttpPCs
  <2>2. QED
    BY <1>39, <2>1 DEF HttpCrash, Spend
<1>17. CASE GetMid
  <2>1. PcOK'
    BY <1>17, MainGoto DEF GetMid, MainPCs
  <2>2. QED
    BY <1>17, <2>1 DEF GetMid
<1>18. CASE GetOp
  <2>1. PcOK'
    BY <1>18, MainGoto DEF GetOp, MainPCs
  <2>2. QED
    BY <1>18, <2>1 DEF GetOp
<1>19. CASE Mismatch
  <2>1. PcOK'
    BY <1>19, MainGoto DEF Mismatch, MainPCs
  <2>2. QED
    BY <1>19, <2>1 DEF Mismatch
<1>20. CASE Announce
  <2>1. PcOK'
    BY <1>20, MainGoto DEF Announce, MainPCs
  <2>2. QED
    BY <1>20, <2>1 DEF Announce, ToAnnounce, Messages
<1>21. CASE NothingToAnnounce
  <2>1. PcOK'
    BY <1>21, MainGoto DEF NothingToAnnounce, MainPCs
  <2>2. QED
    BY <1>21, <2>1 DEF NothingToAnnounce
<1>22. CASE OutputStatus
  <2>1. PcOK'
    BY <1>22, MainGoto DEF OutputStatus, MainPCs
  <2>2. QED
    BY <1>22, <2>1 DEF OutputStatus, Messages, Statuses
<1>23. CASE OutputStr
  <2>1. PcOK'
    BY <1>23, MainGoto DEF OutputStr, MainPCs
  <2>2. QED
    BY <1>23, <2>1 DEF OutputStr, Messages, Texts, NULL
<1>24. CASE Received
  <2>1. PcOK'
    BY <1>24 DEF Received, Signalled, PcOK, Threads, HttpPCs, MainPCs
  <2>2. QED
    BY <1>24, <2>1 DEF Received
<1>25. CASE Reconnect
  <2>1. PcOK'
    BY <1>25 DEF Reconnect, PcOK
  <2>2. QED
    BY <1>25, <2>1 DEF Reconnect
<1>26. CASE GiveUp
  <2>1. PcOK'
    BY <1>26, MainGoto DEF GiveUp, MainPCs
  <2>2. QED
    BY <1>26, <2>1 DEF GiveUp
<1>27. CASE RtReceive
  <2>1. PcOK'
    BY <1>27 DEF RtReceive, PcOK
  <2>2. toRt' \in Seq(Chunks)
    BY <1>27 DEF RtReceive, FrameAtFront
  <2>3. toRt[1].mid \in Nat
    <3>1. toRt[1] \in Chunks
      BY <1>27 DEF RtReceive, FrameAtFront
    <3>2. QED
      BY <3>1 DEF Chunks
  <2>4. QED
    BY <1>27, <2>1, <2>2, <2>3 DEF RtReceive
<1>28. CASE RtGarbage
  <2>1. PcOK'
    BY <1>28 DEF RtGarbage, PcOK
  <2>2. toRt' \in Seq(Chunks)
    <3>1. PICK k \in 1 .. Len(toRt) : toRt' = SubSeq(toRt, k + 1, Len(toRt))
      BY <1>28 DEF RtGarbage
    <3>. QED
      BY <3>1, SuffixType
  <2>3. UNCHANGED <<bridge, inward, linkUp, working, inbox, left>>
    BY <1>28 DEF RtGarbage
  <2>. QED
    BY <2>1, <2>2, <2>3
<1>29. CASE RtRespond
  <2>1. PcOK'
    BY <1>29 DEF RtRespond, PcOK
  <2>2. PICK m \in working, ok \in BOOLEAN, body \in {"own", "none"} :
           /\ working' = working \ {m}
           /\ fromRt' = IF linkUp THEN Append(fromRt, Response(m, ok, body)) ELSE fromRt
    BY <1>29 DEF RtRespond
  <2>3. Response(m, ok, body) \in Messages
    BY DEF Response, Message, Messages
  <2>4. QED
    BY <1>29, <2>1, <2>2, <2>3 DEF RtRespond
<1>30. CASE RtNoAnswer
  <2>1. PcOK'
    BY <1>30 DEF RtNoAnswer, PcOK
  <2>2. QED
    BY <1>30, <2>1 DEF RtNoAnswer
<1>31. CASE RtEvent
  <2>1. PcOK'
    BY <1>31 DEF RtEvent, PcOK
  <2>2. QED
    BY <1>31, <2>1, StrayType DEF RtEvent, Spend
<1>32. CASE Publish
  <2>1. PcOK'
    BY <1>32 DEF Publish, PcOK
  <2>2. QED
    BY <1>32, <2>1 DEF Publish, Spend
<1>33. CASE LinkBreak
  <2>1. PcOK'
    BY <1>33 DEF LinkBreak, PcOK
  <2>2. fromRt' \in Seq(Messages) /\ torn' \in BOOLEAN
    BY <1>33, LossType
  <2>3. left' \in [{"http", "publish", "event", "break"} -> Nat]
    BY <1>33 DEF LinkBreak, Spend
  <2>4. QED
    <3>1. toRt' \in Seq(Chunks) /\ linkUp' \in BOOLEAN
      <4>1. toRt' = <<>> /\ linkUp' = FALSE
        BY <1>33 DEF LinkBreak
      <4>2. QED
        BY <4>1, EmptyType
    <3>2. UNCHANGED <<bridge, recv_ctx, working, inbox>>
      BY <1>33 DEF LinkBreak
    <3>3. QED
      BY <2>1, <2>2, <2>3, <3>1, <3>2
<1>34. CASE UNCHANGED vars
  <2>1. PcOK'
    BY <1>34 DEF vars, PcOK
  <2>2. QED
    BY <1>34, <2>1 DEF vars
<1>35. QED
  BY <1>1, <1>2, <1>3, <1>4, <1>5, <1>6, <1>7, <1>8, <1>9, <1>10, <1>11, <1>12, <1>13, <1>14, <1>15, <1>16, <1>17, <1>18, <1>19, <1>20, <1>21, <1>22, <1>23, <1>24, <1>25, <1>26, <1>27, <1>28, <1>29, <1>30, <1>31, <1>32, <1>33, <1>34, <1>36, <1>37, <1>38, <1>39, NextSteps

(* The initial values have their types; the bounds are naturals. *)
LEMMA TypeInit == Init => TypeOK
<1>. SUFFICES ASSUME Init PROVE TypeOK
  OBVIOUS
<1>1. PcOK /\ mid \in [Threads -> Nat]
  BY DEF Init, PcOK, Threads, HttpPCs, MainPCs
<1>2. /\ resp \in Messages /\ recv_ctx \in Messages
      /\ last_status \in Statuses /\ last_str \in Texts
  BY StrayType DEF Init, Statuses, NoStatus, Texts, NULL
<1>3. /\ reqs \in Seq(Ops) /\ toRt \in Seq(Chunks) /\ fromRt \in Seq(Messages)
      /\ replies \in Seq(Replies)
  BY EmptyType DEF Init
<1>4. left \in [{"http", "publish", "event", "break"} -> Nat]
  BY BoundsAssumption DEF Init
<1>. QED
  BY <1>1, <1>2, <1>3, <1>4 DEF Init, TypeOK, Threads, Ops, RestOps, NONE

(* The critical section of rt_conn_request_sent.                             *)
LEMMA LockInit == Init => LockInv
  BY DEF Init, LockInv, Threads

(* A step of one thread outside rt_conn_request_sent and send_request.       *)
LEMMA LockGoto ==
    ASSUME PcOK, LockInv, NEW t \in Threads, NEW l, Goto(t, l), pc[t] # "setOp",
           l \notin {"register", "setOp", "head", "payload"},
           UNCHANGED <<mid, reqs, mutex, g_mid>>
    PROVE  LockInv'
  BY DEF PcOK, LockInv, Goto, Threads

(* A request gets its id: the ids in use stay in the history. *)
LEMMA LockNewRequest ==
    ASSUME TypeOK, LockInv, NEW t \in Threads, NEW op, NewRequest(t, op),
           pc[t] # "setOp", UNCHANGED <<g_mid, mutex>>
    PROVE  LockInv'
<1>1. DOMAIN reqs' = 1 .. Len(reqs) + 1 /\ DOMAIN reqs = 1 .. Len(reqs) /\ Len(reqs) \in Nat
  BY DEF NewRequest, gen_random_id, TypeOK
<1>2. mutex # t /\ mid \in [Threads -> Nat] /\ mid' = [mid EXCEPT ![t] = Len(reqs) + 1]
  BY DEF TypeOK, LockInv, NewRequest, gen_random_id
<1>3. pc \in [Threads -> HttpPCs \cup MainPCs] /\ pc' = [pc EXCEPT ![t] = "register"]
  BY DEF TypeOK, PcOK, NewRequest, gen_random_id, Goto
<1>4. QED
  BY <1>1, <1>2, <1>3 DEF LockInv

(* A read of the link, whatever comes of it, moves main alone. *)
LEMMA ReadStep ==
    ASSUME TypeOK, ReadLink \/ ReadCut \/ ReadGarbled \/ ReadSwallowed
    PROVE  /\ pc["main"] = "select" /\ pc'["http"] = pc["http"]
           /\ UNCHANGED pc \/ \E l \in {"getMid", "pool"} : Goto("main", l)
           /\ UNCHANGED <<mid, reqs, g_mid, g_op, mutex, rmid, rop, last_status, last_str,
                          toRt, linkUp, working, inbox, replies, modEvents, left>>
           /\ torn' = torn \/ torn' = TRUE
<1> USE DEF afterRead, shared, result, history
<1>1. ASSUME NEW m, Handle(m)
      PROVE  \E l \in {"getMid", "pool"} : Goto("main", l)
  BY <1>1 DEF Handle
<1>2. (\E l \in {"getMid", "pool"} : Goto("main", l)) => pc'["http"] = pc["http"]
  BY DEF TypeOK, PcOK, Goto, Threads
<1>3. CASE ReadLink
  <2>1. \E l \in {"getMid", "pool"} : Goto("main", l)
    BY <1>1, <1>3 DEF ReadLink
  <2>. QED
    BY <1>2, <1>3, <2>1 DEF ReadLink, Take, TakeInPart
<1>4. CASE ReadCut
  BY <1>4 DEF ReadCut, Take
<1>5. CASE ReadGarbled
  <2>1. \E l \in {"getMid", "pool"} : Goto("main", l)
    BY <1>1, <1>5 DEF ReadGarbled
  <2>. QED
    BY <1>2, <1>5, <2>1 DEF ReadGarbled, Take, TakeInPart
<1>6. CASE ReadSwallowed
  BY <1>6 DEF ReadSwallowed, Take, TakeInPart
<1>. QED
  BY <1>3, <1>4, <1>5, <1>6

(* Each step keeps the mutex with the thread inside rt_conn_request_sent,    *)
(* whose request is then the one in g_mid.                                   *)
LEMMA LockStep ==
    ASSUME TypeOK, LockInv, [Next]_vars
    PROVE  LockInv'
<1> USE DEF shared, handled, result, inward, wires, history, bridge, afterRead
<1>1. PcOK
  BY DEF TypeOK
<1>2. ASSUME NEW t \in Threads, RequestSentMid(t) PROVE LockInv'
  BY <1>1, <1>2 DEF RequestSentMid, LockInv, PcOK, Goto, Threads
<1>3. ASSUME NEW t \in Threads, RequestSentOp(t) PROVE LockInv'
  BY <1>1, <1>3 DEF RequestSentOp, LockInv, PcOK, Goto, Threads
<1>4. ASSUME NEW t \in Threads, SendChunk(t) PROVE LockInv'
  BY <1>1, <1>4 DEF SendChunk, AfterSend, LockInv, PcOK, Goto, Threads
<1>5. ASSUME NEW t \in Threads, SendFails(t) PROVE LockInv'
  BY <1>1, <1>5, LockGoto DEF SendFails, AfterSend
<1>6. CASE \E op \in RestOps : HttpStart(op)
  BY <1>6, LockNewRequest DEF HttpStart, Threads
<1>7. CASE HttpReject
  BY <1>1, <1>7 DEF HttpReject, LockInv, PcOK, Goto, Threads, TypeOK
<1>20. CASE HttpCrash
  BY <1>1, <1>20, LockGoto DEF HttpCrash, Threads
<1>8. CASE WaitTest \/ SpuriousWakeup \/ Reply \/ Free
  BY <1>1, <1>8, LockGoto DEF WaitTest, SpuriousWakeup, Reply, Free, Threads
<1>9. CASE ForwardPublish
  BY <1>9, LockNewRequest DEF ForwardPublish, Threads
<1>10. CASE PollMqtt
  BY <1>1, <1>10, LockGoto DEF PollMqtt, Threads
<1>11. CASE PoolDone
  BY <1>1, <1>11, LockGoto DEF PoolDone, Threads, TypeOK
<1>12. CASE GetMid \/ GetOp \/ Mismatch
  BY <1>1, <1>12, LockGoto DEF GetMid, GetOp, Mismatch, Threads
<1>21. CASE ReadLink \/ ReadCut \/ ReadGarbled \/ ReadSwallowed
  <2>1. pc["main"] # "setOp" /\ UNCHANGED <<mid, reqs, mutex, g_mid>>
           /\ (UNCHANGED pc \/ \E l \in {"getMid", "pool"} : Goto("main", l))
    BY <1>21, ReadStep
  <2>2. CASE UNCHANGED pc
    BY <2>1, <2>2 DEF LockInv
  <2>3. ASSUME NEW l \in {"getMid", "pool"}, Goto("main", l) PROVE LockInv'
    BY <1>1, <2>1, <2>3, LockGoto DEF Threads
  <2>. QED
    BY <2>1, <2>2, <2>3
<1>13. CASE Announce \/ NothingToAnnounce \/ OutputStatus \/ OutputStr \/ GiveUp
  BY <1>1, <1>13, LockGoto
     DEF Announce, NothingToAnnounce, OutputStatus, OutputStr, GiveUp, Threads
<1>14. CASE Received
  BY <1>1, <1>14 DEF Received, Signalled, LockInv, PcOK, Threads
<1>15. CASE HttpBadMethod \/ IgnorePublish \/ Reconnect
  BY <1>15 DEF HttpBadMethod, IgnorePublish, Reconnect, LockInv
<1>16. CASE RtReceive \/ RtGarbage \/ RtRespond \/ RtNoAnswer
  BY <1>16 DEF RtReceive, RtGarbage, RtRespond, RtNoAnswer, LockInv
<1>17. CASE RtEvent \/ Publish \/ LinkBreak
  BY <1>17 DEF RtEvent, Publish, LinkBreak, LockInv
<1>18. CASE UNCHANGED vars
  BY <1>18 DEF vars, LockInv
<1>19. QED
  BY <1>2, <1>3, <1>4, <1>5, <1>6, <1>7, <1>8, <1>9, <1>10, <1>11, <1>12, <1>13,
     <1>14, <1>15, <1>16, <1>17, <1>18, <1>20, <1>21, NextSteps

(* The pair stays coherent: it is only changed inside the critical section,  *)
(* whose end makes both halves those of one request, and by the reset.       *)
LEMMA PairStep ==
    ASSUME TypeOK, LockInv, PendingPairCoherent, [Next]_vars
    PROVE  PendingPairCoherent'
<1> USE DEF shared, handled, result, inward, wires, history, bridge, afterRead
<1>1. ASSUME NEW t \in Threads, NEW op, NewRequest(t, op), UNCHANGED <<g_mid, g_op, mutex>>
      PROVE  PendingPairCoherent'
  <2>1. reqs \in Seq(Ops) /\ reqs' = Append(reqs, op)
    BY <1>1 DEF NewRequest, gen_random_id, TypeOK
  <2>2. \A m \in DOMAIN reqs : m \in DOMAIN reqs' /\ reqs'[m] = reqs[m]
    BY <2>1
  <2>3. QED
    BY <1>1, <2>2 DEF PendingPairCoherent
<1>2. ASSUME NEW t \in Threads, RequestSentMid(t) PROVE PendingPairCoherent'
  BY <1>2 DEF RequestSentMid, PendingPairCoherent, Threads
<1>3. ASSUME NEW t \in Threads, RequestSentOp(t) PROVE PendingPairCoherent'
  <2>1. mutex = t /\ g_mid = mid[t] /\ mid[t] \in DOMAIN reqs
    BY <1>3 DEF RequestSentOp, LockInv
  <2>2. QED
    BY <1>3, <2>1 DEF RequestSentOp, PendingPairCoherent
<1>4. ASSUME NEW t \in Threads, SendChunk(t) \/ SendFails(t) PROVE PendingPairCoherent'
  BY <1>4 DEF SendChunk, SendFails, PendingPairCoherent
<1>5. CASE \E op \in RestOps : HttpStart(op)
  BY <1>1, <1>5 DEF HttpStart, Threads
<1>6. CASE ForwardPublish
  BY <1>1, <1>6 DEF ForwardPublish, Threads
<1>7. CASE HttpReject \/ HttpCrash \/ HttpBadMethod \/ WaitTest \/ SpuriousWakeup \/ Reply \/ Free
  BY <1>7 DEF HttpReject, HttpCrash, HttpBadMethod, WaitTest, SpuriousWakeup, Reply, Free,
     PendingPairCoherent
<1>8. CASE PollMqtt \/ IgnorePublish \/ PoolDone \/ GetMid \/ GetOp \/ Mismatch
  BY <1>8 DEF PollMqtt, IgnorePublish, PoolDone, GetMid, GetOp, Mismatch,
     PendingPairCoherent
<1>15. CASE ReadLink \/ ReadCut \/ ReadGarbled \/ ReadSwallowed
  BY <1>15, ReadStep DEF PendingPairCoherent
<1>9. CASE Announce \/ NothingToAnnounce \/ OutputStatus \/ OutputStr \/ Reconnect \/ GiveUp
  BY <1>9 DEF Announce, NothingToAnnounce, OutputStatus, OutputStr, Reconnect, GiveUp,
     PendingPairCoherent
<1>10. CASE Received
  BY <1>10 DEF Received, PendingPairCoherent
<1>11. CASE RtReceive \/ RtGarbage \/ RtRespond \/ RtNoAnswer
  BY <1>11 DEF RtReceive, RtGarbage, RtRespond, RtNoAnswer, PendingPairCoherent
<1>12. CASE RtEvent \/ Publish \/ LinkBreak
  BY <1>12 DEF RtEvent, Publish, LinkBreak, PendingPairCoherent
<1>13. CASE UNCHANGED vars
  BY <1>13 DEF vars, PendingPairCoherent
<1>14. QED
  BY <1>2, <1>3, <1>4, <1>5, <1>6, <1>7, <1>8, <1>9, <1>10, <1>11, <1>12, <1>13,
     <1>15, NextSteps

(* A sleeper stays covered: registering another request only replaces what   *)
(* is pending, and the one step that resets it wakes the sleeper.            *)
LEMMA WakeupStep ==
    ASSUME TypeOK, LockInv, NoLostWakeup, [Next]_vars
    PROVE  NoLostWakeup'
<1> USE DEF shared, handled, result, inward, wires, history, bridge, afterRead
<1>1. pc \in [Threads -> HttpPCs \cup MainPCs]
  BY DEF TypeOK, PcOK
<1>2. ASSUME NEW t \in Threads, NEW l, Goto(t, l), l # "asleep", UNCHANGED g_op
      PROVE  NoLostWakeup'
  BY <1>1, <1>2 DEF NoLostWakeup, Goto, Threads
<1>3. ASSUME NEW t \in Threads, RequestSentMid(t) PROVE NoLostWakeup'
  BY <1>2, <1>3 DEF RequestSentMid
<1>4. ASSUME NEW t \in Threads, RequestSentOp(t) PROVE NoLostWakeup'
  <2>1. reqs \in Seq(Ops) /\ mid[t] \in DOMAIN reqs
    BY <1>4 DEF RequestSentOp, LockInv, TypeOK
  <2>2. reqs[mid[t]] \in Ops
    BY <2>1
  <2>3. g_op' # NONE
    BY <1>4, <2>2 DEF RequestSentOp, Ops, RestOps, NONE
  <2>4. QED
    BY <2>3 DEF NoLostWakeup
<1>5. ASSUME NEW t \in Threads, SendChunk(t) \/ SendFails(t) PROVE NoLostWakeup'
  BY <1>2, <1>5 DEF SendChunk, SendFails, AfterSend
<1>6. CASE (\E op \in RestOps : HttpStart(op)) \/ HttpReject \/ HttpCrash \/ ForwardPublish
  BY <1>2, <1>6 DEF HttpStart, HttpReject, HttpCrash, ForwardPublish, NewRequest, gen_random_id, Threads
<1>7. CASE WaitTest
  BY <1>1, <1>7 DEF WaitTest, NoLostWakeup, Goto, Threads
<1>8. CASE SpuriousWakeup \/ Reply \/ Free
  BY <1>2, <1>8 DEF SpuriousWakeup, Reply, Free, Threads
<1>9. CASE PollMqtt \/ GetMid \/ GetOp \/ Mismatch
  BY <1>2, <1>9 DEF PollMqtt, GetMid, GetOp, Mismatch, Threads
<1>18. CASE ReadLink \/ ReadCut \/ ReadGarbled \/ ReadSwallowed
  BY <1>18, ReadStep DEF NoLostWakeup
<1>10. CASE PoolDone
  BY <1>2, <1>10 DEF PoolDone, TypeOK, Threads
<1>11. CASE Announce \/ NothingToAnnounce \/ OutputStatus \/ OutputStr \/ GiveUp
  BY <1>2, <1>11 DEF Announce, NothingToAnnounce, OutputStatus, OutputStr, GiveUp, Threads
<1>12. CASE Received
  BY <1>1, <1>12 DEF Received, Signalled, NoLostWakeup, Threads
<1>13. CASE HttpBadMethod \/ IgnorePublish \/ Reconnect
  BY <1>13 DEF HttpBadMethod, IgnorePublish, Reconnect, NoLostWakeup
<1>14. CASE RtReceive \/ RtGarbage \/ RtRespond \/ RtNoAnswer
  BY <1>14 DEF RtReceive, RtGarbage, RtRespond, RtNoAnswer, NoLostWakeup
<1>15. CASE RtEvent \/ Publish \/ LinkBreak
  BY <1>15 DEF RtEvent, Publish, LinkBreak, NoLostWakeup
<1>16. CASE UNCHANGED vars
  BY <1>16 DEF vars, NoLostWakeup
<1>17. QED
  BY <1>3, <1>4, <1>5, <1>6, <1>7, <1>8, <1>9, <1>10, <1>11, <1>12, <1>13, <1>14,
     <1>15, <1>16, <1>18, NextSteps

(* Until a message is torn apart nothing is read in part, kept in recv_ctx   *)
(* over a loss or mixed with other bytes.                                    *)
Intact(m) == ~m.cut /\ m.body # "mixed"

Whole ==
    ~torn => recv_ctx = Nothing /\ Intact(resp) /\ \A i \in DOMAIN fromRt : Intact(fromRt[i])

(* A read of whole messages: the first is handled. *)
ReadWhole ==
    /\ pc["main"] = "select" /\ inbox = 0 /\ fromRt # <<>>
    /\ \E k \in 1 .. Len(fromRt) : fromRt' = SubSeq(fromRt, k + 1, Len(fromRt))
    /\ Handle(Head(fromRt))
    /\ UNCHANGED <<recv_ctx, torn, afterRead>>

(* A loss of the link between two messages. *)
BreakBetween ==
    /\ linkUp /\ Spend("break")
    /\ linkUp' = FALSE
    /\ toRt' = <<>>
    /\ \E k \in 0 .. Len(fromRt) : fromRt' = SubSeq(fromRt, 1, k)
    /\ UNCHANGED <<bridge, recv_ctx, torn, working, inbox>>

(* While nothing is torn apart, these are all the reads and losses there are. *)
LEMMA WholeReads ==
    ASSUME TypeOK, Whole, ~torn, ~torn'
    PROVE  /\ ReadLink => ReadWhole
           /\ ~ReadCut /\ ~ReadGarbled /\ ~ReadSwallowed
           /\ LinkBreak => BreakBetween
<1>1. ASSUME ReadLink PROVE ReadWhole
  <2>1. PICK k \in 1 .. Len(fromRt) : Take(k) /\ UNCHANGED torn
    <3>1. 1 \in 1 .. Len(fromRt)
      BY <1>1 DEF ReadLink, TypeOK
    <3>2. \A k \in 2 .. Len(fromRt) : k \in 1 .. Len(fromRt)
      OBVIOUS
    <3>. QED
      BY <1>1, <3>1, <3>2 DEF ReadLink, TakeInPart
  <2>. QED
    BY <1>1, <2>1 DEF ReadLink, ReadWhole, Take
<1>2. ASSUME ReadCut PROVE FALSE
  <2>1. 1 \in DOMAIN fromRt /\ Head(fromRt) = fromRt[1]
    BY <1>2 DEF ReadCut, TypeOK
  <2>. QED
    BY <1>2, <2>1 DEF ReadCut, Whole, Intact
<1>3. ~ReadGarbled /\ ~ReadSwallowed
  BY DEF ReadGarbled, ReadSwallowed, Whole
<1>4. LinkBreak => BreakBetween
  BY DEF LinkBreak, BreakBetween
<1>. QED
  BY <1>1, <1>2, <1>3, <1>4

(* What a read of whole messages leaves, and what a loss between two leaves. *)
LEMMA SuffixElements ==
    ASSUME NEW S, NEW s \in Seq(S), NEW k \in 0 .. Len(s), NEW t, t = SubSeq(s, k + 1, Len(s))
    PROVE  \A i \in DOMAIN t : i + k \in DOMAIN s /\ t[i] = s[i + k]
  OBVIOUS

(* The elements of the part of a sequence that was taken. *)
LEMMA PrefixElements ==
    ASSUME NEW S, NEW s \in Seq(S), NEW k \in 0 .. Len(s), NEW t, t = SubSeq(s, 1, k)
    PROVE  \A i \in DOMAIN t : i \in DOMAIN s /\ t[i] = s[i]
  OBVIOUS

(* A message was torn apart once and for all, and only a read or a loss of   *)
(* the link does it.                                                         *)
LEMMA TornStep ==
    ASSUME TypeOK, [Next]_vars
    PROVE  \/ torn' = torn
           \/ /\ torn' = TRUE /\ UNCHANGED <<mid, reqs, replies>>
              /\ pc'["http"] = pc["http"]
<1> USE DEF inward, wires
<1>1. CASE (\E op \in RestOps : HttpStart(op)) \/ HttpReject \/ HttpCrash \/ HttpBadMethod
  BY <1>1 DEF HttpStart, HttpReject, HttpCrash, HttpBadMethod
<1>2. CASE \E t \in Threads : RequestSentMid(t) \/ RequestSentOp(t) \/ SendChunk(t) \/ SendFails(t)
  BY <1>2 DEF RequestSentMid, RequestSentOp, SendChunk, SendFails
<1>3. CASE \/ WaitTest \/ SpuriousWakeup \/ Reply \/ Free \/ PollMqtt \/ ForwardPublish
           \/ IgnorePublish \/ PoolDone \/ GetMid \/ GetOp \/ Mismatch
  BY <1>3 DEF WaitTest, SpuriousWakeup, Reply, Free, PollMqtt, ForwardPublish, IgnorePublish,
              PoolDone, GetMid, GetOp, Mismatch
<1>4. CASE ReadLink \/ ReadCut \/ ReadGarbled \/ ReadSwallowed
  BY <1>4, ReadStep
<1>5. CASE \/ Announce \/ NothingToAnnounce \/ OutputStatus \/ OutputStr \/ Received
           \/ Reconnect \/ GiveUp
  BY <1>5 DEF Announce, NothingToAnnounce, OutputStatus, OutputStr, Received, Reconnect, GiveUp
<1>6. CASE RtReceive \/ RtGarbage \/ RtRespond \/ RtNoAnswer \/ RtEvent \/ Publish \/ UNCHANGED vars
  BY <1>6 DEF RtReceive, RtGarbage, RtRespond, RtNoAnswer, RtEvent, Publish, vars
<1>7. CASE LinkBreak
  BY <1>7 DEF LinkBreak, bridge
<1>. QED
  BY <1>1, <1>2, <1>3, <1>4, <1>5, <1>6, <1>7, NextSteps

(* Each step that tears nothing apart keeps everything whole. *)
LEMMA WholeStep ==
    ASSUME TypeOK, Whole, [Next]_vars
    PROVE  Whole'
<1>. SUFFICES ASSUME ~torn' PROVE Whole'
  BY DEF Whole
<1>. USE DEF inward, wires, handled, bridge
<1>1. ~torn /\ recv_ctx = Nothing /\ Intact(resp) /\ \A i \in DOMAIN fromRt : Intact(fromRt[i])
  BY TornStep DEF Whole, TypeOK
<1>2. ASSUME UNCHANGED <<fromRt, recv_ctx, resp>> PROVE Whole'
  BY <1>1, <1>2 DEF Whole, Intact
<1>3. CASE (\E op \in RestOps : HttpStart(op)) \/ HttpReject \/ HttpCrash \/ HttpBadMethod
  BY <1>2, <1>3 DEF HttpStart, HttpReject, HttpCrash, HttpBadMethod
<1>4. CASE \E t \in Threads : RequestSentMid(t) \/ RequestSentOp(t) \/ SendChunk(t) \/ SendFails(t)
  BY <1>2, <1>4 DEF RequestSentMid, RequestSentOp, SendChunk, SendFails
<1>5. CASE \/ WaitTest \/ SpuriousWakeup \/ Reply \/ Free \/ PollMqtt \/ ForwardPublish
           \/ IgnorePublish \/ PoolDone \/ GetMid \/ GetOp \/ Mismatch
  BY <1>2, <1>5 DEF WaitTest, SpuriousWakeup, Reply, Free, PollMqtt, ForwardPublish, IgnorePublish,
              PoolDone, GetMid, GetOp, Mismatch
<1>6. CASE \/ Announce \/ NothingToAnnounce \/ OutputStatus \/ OutputStr \/ Received
           \/ Reconnect \/ GiveUp \/ UNCHANGED vars
  BY <1>2, <1>6 DEF Announce, NothingToAnnounce, OutputStatus, OutputStr, Received, Reconnect,
                    GiveUp, vars
<1>7. CASE RtReceive \/ RtGarbage \/ RtNoAnswer \/ Publish
  BY <1>2, <1>7 DEF RtReceive, RtGarbage, RtNoAnswer, Publish
<1>8. ASSUME NEW m, Intact(m), fromRt' = Append(fromRt, m), UNCHANGED <<recv_ctx, resp>>
      PROVE  Whole'
  <2>1. \A i \in DOMAIN fromRt' : fromRt'[i] = m \/ (i \in DOMAIN fromRt /\ fromRt'[i] = fromRt[i])
    BY <1>8 DEF TypeOK
  <2>. QED
    BY <1>1, <1>8, <2>1 DEF Whole, Intact
<1>9. CASE RtRespond
  <2>1. PICK m \in working, ok \in BOOLEAN, body \in {"own", "none"} :
           fromRt' = IF linkUp THEN Append(fromRt, Response(m, ok, body)) ELSE fromRt
    BY <1>9 DEF RtRespond
  <2>2. Intact(Response(m, ok, body)) /\ UNCHANGED <<recv_ctx, resp>>
    BY <1>9 DEF RtRespond, Intact, Response, Message
  <2>. QED
    BY <1>2, <1>8, <2>1, <2>2
<1>10. CASE RtEvent
  <2>1. Intact(Event)
    BY DEF Intact, Event, Message
  <2>. QED
    BY <1>8, <1>10, <2>1 DEF RtEvent
<1>11. CASE LinkBreak
  <2>1. BreakBetween
    BY <1>1, <1>11, WholeReads
  <2>2. PICK k \in 0 .. Len(fromRt) : fromRt' = SubSeq(fromRt, 1, k)
    BY <2>1 DEF BreakBetween
  <2>3. \A i \in DOMAIN fromRt' : i \in DOMAIN fromRt /\ fromRt'[i] = fromRt[i]
    BY <2>2, PrefixElements DEF TypeOK
  <2>. QED
    BY <1>1, <2>1, <2>3 DEF BreakBetween, Whole, Intact
<1>12. CASE ReadLink \/ ReadCut \/ ReadGarbled \/ ReadSwallowed
  <2>1. ReadWhole
    BY <1>1, <1>12, WholeReads
  <2>2. PICK k \in 1 .. Len(fromRt) : fromRt' = SubSeq(fromRt, k + 1, Len(fromRt))
    BY <2>1 DEF ReadWhole
  <2>3. \A i \in DOMAIN fromRt' : i + k \in DOMAIN fromRt /\ fromRt'[i] = fromRt[i + k]
    BY <2>2, SuffixElements DEF TypeOK
  <2>4. Intact(Head(fromRt))
    BY <1>1, <2>1 DEF ReadWhole, TypeOK
  <2>5. Intact(resp')
    BY <1>1, <2>1, <2>4 DEF ReadWhole, Handle
  <2>. QED
    BY <1>1, <2>1, <2>3, <2>5 DEF ReadWhole, Whole, Intact
<1>. QED
  BY <1>3, <1>4, <1>5, <1>6, <1>7, <1>9, <1>10, <1>11, <1>12, NextSteps

-----------------------------------------------------------------------------
(* The inductive invariant: each part needs those before it.                 *)
IInv == TypeOK /\ LockInv /\ PendingPairCoherent /\ NoLostWakeup /\ Whole

(* The five parts hold together in every reachable state. *)
LEMMA InductiveInvariant == Spec => []IInv
<1>1. Init => IInv
  <2>1. Init => Whole
    BY DEF Init, Whole, Intact, Event, Message
  <2>. QED
    BY <2>1, TypeInit, LockInit DEF Init, IInv, PendingPairCoherent, NoLostWakeup, Threads
<1>2. IInv /\ [Next]_vars => IInv'
  BY TypeStep, LockStep, PairStep, WakeupStep, WholeStep DEF IInv
<1>3. QED
  BY <1>1, <1>2, PTL DEF Spec

(* Every variable holds a value of its kind in every reachable state.        *)
THEOREM TypeCorrect == Spec => []TypeOK
<1>1. IInv => TypeOK
  BY DEF IInv
<1>2. QED
  BY <1>1, InductiveInvariant, PTL

(* mutex_request is held exactly inside the critical section of              *)
(* rt_conn_request_sent, and there g_mid is already the holder's request.    *)
THEOREM LockHeld == Spec => []LockInv
<1>1. IInv => LockInv
  BY DEF IInv
<1>2. QED
  BY <1>1, InductiveInvariant, PTL

(* Whatever the two threads, the runtime and the network do, outside the     *)
(* critical sections g_mid and g_req_op_type belong to one request.          *)
THEOREM PairCoherent == Spec => []PendingPairCoherent
<1>1. IInv => PendingPairCoherent
  BY DEF IInv
<1>2. QED
  BY <1>1, InductiveInvariant, PTL

(* The HTTP thread never sleeps while no request is pending: no wakeup by    *)
(* rt_conn_response_received is lost.                                        *)
THEOREM WakeupNotLost == Spec => []NoLostWakeup
<1>1. IInv => NoLostWakeup
  BY DEF IInv
<1>2. QED
  BY <1>1, InductiveInvariant, PTL

-----------------------------------------------------------------------------
(* PART 2. As long as no MQTT publish is forwarded and no message torn apart. *)

(* No publish was made a request of its own so far: everything that is sent  *)
(* to the runtime and comes back belongs to a REST request.                  *)
NothingForwarded == \A k \in DOMAIN reqs : reqs[k] # "REQUEST"

(* ... and no message of the runtime was torn apart by a loss of the link or *)
(* by a read that ended within it.                                           *)
Plain == NothingForwarded /\ ~torn

(* The request of the HTTP thread, the one it sends or sent last; 0 for one  *)
(* that was refused before it had an id.                                     *)
own == mid["http"]

OwnHead    == [mid |-> own, part |-> "head"]
OwnPayload == [mid |-> own, part |-> "payload"]

(* The text of its response, unmixed. *)
OwnText == [mid |-> own, mixed |-> FALSE]

(* main has a response in its hands. *)
Handling ==
    \/ pc["main"] \in {"getMid", "getOp", "check", "status", "str", "received"}
    \/ pc["main"] = "pool" /\ ret = "status"

(* The responses on the way to the bridge, as places in fromRt. *)
Arriving == {i \in DOMAIN fromRt : fromRt[i].kind = "response"}

-----------------------------------------------------------------------------
(* The inductive invariant, part by part.                                    *)

(* main sends nothing, and finds no unexpected response. *)
MainSilent == pc["main"] \notin {"register", "setOp", "head", "payload", "returned"}

(* On the wire to the runtime is at most the one frame of the request.       *)
Wire ==
    /\ toRt \in {<<>>, <<OwnHead>>, <<OwnPayload>>, <<OwnHead, OwnPayload>>}
    /\ pc["http"] = "payload" => toRt \in {<<>>, <<OwnHead>>}
    /\ toRt = <<OwnHead>> => pc["http"] = "payload"
    /\ toRt # <<>> => pc["http"] \in {"payload", "wait", "asleep"} /\ linkUp

(* The request and its response exist once: on the wire, in the runtime, on  *)
(* the wire back or in main's hands; and only while it is pending.           *)
Copies ==
    /\ working \subseteq {own}
    /\ \A i \in Arriving : fromRt[i].mid = own
    /\ \A i, j \in Arriving : i = j
    /\ Handling => resp.mid = own
    /\ working # {} => toRt = <<>> /\ Arriving = {} /\ ~Handling
    /\ Arriving # {} => toRt = <<>> /\ ~Handling
    /\ Handling => toRt = <<>>
    /\ working # {} \/ Arriving # {} \/ Handling => pc["http"] \in {"wait", "asleep"}
    /\ toRt # <<>> \/ working # {} \/ Arriving # {} \/ Handling => g_op # NONE

(* What is pending is the request of the HTTP thread, from its registration  *)
(* to the end of the wait.                                                   *)
Current ==
    /\ g_op # NONE =>
          /\ pc["http"] \in {"head", "payload", "wait", "asleep"}
          /\ g_mid = own /\ own \in DOMAIN reqs /\ g_op = reqs[own]
    /\ pc["http"] \in {"head", "payload"} => g_op # NONE

(* What main has read of the pending pair, and made of the response so far.  *)
Locals ==
    /\ pc["main"] \in {"getOp", "check"} => rmid = own
    /\ pc["main"] = "check" => rop = reqs[own]
    /\ pc["main"] \in {"str", "received"} => last_status = [mid |-> own, ok |-> resp.ok]

(* A text that is kept is that of the request, with its status, and only     *)
(* between the end of its handling and the end of the reply.                 *)
Result ==
    /\ last_str \in {NULL, OwnText}
    /\ last_str # NULL =>
          /\ last_status.mid = own /\ own \in DOMAIN reqs
          /\ pc["http"] \in {"wait", "asleep", "reply", "free"}
    /\ pc["http"] = "free" => last_str # NULL
    /\ last_str # NULL /\ g_op # NONE => pc["main"] = "received"

IsAnnounced(k) == reqs[k] # "QUERY" => [event |-> reqs[k], mid |-> k] \in modEvents

(* A success is announced before its response gets into the two globals. *)
Announced ==
    /\ Handling /\ pc["main"] \notin {"getMid", "getOp", "check"} /\ resp.ok => IsAnnounced(own)
    /\ last_str # NULL /\ last_status.ok => IsAnnounced(own)

NoAnswer(k) == \A i \in DOMAIN replies : replies[i].to # k
AnsweredOnce(k) ==
    \E i \in DOMAIN replies : \A j \in DOMAIN replies : replies[j].to = k <=> j = i

(* The handler gave up on a send and answered 400: no response will come. *)
Refused ==
    /\ AnsweredOnce(own) /\ g_op # NONE
    /\ toRt = <<>> /\ working = {} /\ Arriving = {} /\ ~Handling

(* Every request but the one in the works has had one answer. *)
Answered ==
    /\ own \in {0} \cup DOMAIN reqs
    /\ \A i \in DOMAIN replies : replies[i].to \in {0} \cup DOMAIN reqs
    /\ \A k \in DOMAIN reqs : k # own \/ pc["http"] = "idle" => AnsweredOnce(k)
    /\ pc["http"] \in {"register", "setOp", "head", "payload"} => NoAnswer(own)
    /\ pc["http"] \in {"wait", "asleep"} /\ own # 0 => NoAnswer(own) \/ Refused
    /\ pc["http"] = "reply" /\ own # 0 => NoAnswer(own)
    /\ pc["http"] = "free" => AnsweredOnce(own)

(* As long as nothing is lost, a pending request that was sent is under way. *)
UnderWay ==
    /\ left["break"] <= MaxBreak /\ left["event"] <= MaxEvent
    /\ left["break"] = MaxBreak => linkUp
    /\ left["event"] = MaxEvent => \A i \in DOMAIN fromRt : i \in Arriving
    /\ Undisturbed /\ pc["http"] \in {"wait", "asleep"} /\ g_op # NONE =>
          toRt = <<OwnHead, OwnPayload>> \/ working # {} \/ Arriving # {} \/ Handling
    /\ Undisturbed /\ pc["http"] = "payload" => toRt = <<OwnHead>>

Flow == MainSilent /\ Wire /\ Copies /\ Current /\ Locals /\ Result /\ Announced
           /\ Answered /\ UnderWay

-----------------------------------------------------------------------------
(* The steps there are while nothing is forwarded: main sends nothing, and   *)
(* no response is that of another request.                                   *)
LEMMA RestSteps ==
    ASSUME IInv, Flow, Plain, Plain', Next
    PROVE  \/ \E op \in RestOps : HttpStart(op)
           \/ HttpReject \/ HttpCrash \/ HttpBadMethod
           \/ RequestSentMid("http") \/ RequestSentOp("http")
           \/ SendChunk("http") \/ SendFails("http")
           \/ WaitTest \/ SpuriousWakeup \/ Reply \/ Free
           \/ PollMqtt \/ IgnorePublish \/ PoolDone
           \/ ReadWhole \/ GetMid \/ GetOp \/ Announce \/ NothingToAnnounce
           \/ OutputStatus \/ OutputStr \/ Received \/ Reconnect \/ GiveUp
           \/ RtReceive \/ RtGarbage \/ RtRespond
           \/ RtEvent \/ Publish \/ BreakBetween
  <1>1. ~ForwardPublish
    <2>1. SUFFICES ASSUME ForwardPublish PROVE FALSE
      OBVIOUS
    <2>2. reqs \in Seq(Ops) /\ reqs' = Append(reqs, "REQUEST")
      BY <2>1 DEF ForwardPublish, NewRequest, IInv, TypeOK
    <2>3. Len(reqs) + 1 \in DOMAIN reqs' /\ reqs'[Len(reqs) + 1] = "REQUEST"
      BY <2>2
    <2>. QED
      BY <2>3 DEF Plain, NothingForwarded
  <1>2. ~Mismatch
    BY DEF Mismatch, Flow, Copies, Locals, Handling
  <1>3. ~RtNoAnswer
    BY DEF RtNoAnswer, Flow, Copies, Current, Plain, NothingForwarded
  <1>4. /\ ~RequestSentMid("main") /\ ~RequestSentOp("main")
        /\ ~SendChunk("main") /\ ~SendFails("main")
    BY DEF RequestSentMid, RequestSentOp, SendChunk, SendFails, Flow, MainSilent
  <1>5. /\ ReadLink => ReadWhole
        /\ ~ReadCut /\ ~ReadGarbled /\ ~ReadSwallowed
        /\ LinkBreak => BreakBetween
    BY WholeReads DEF IInv, Plain
  <1>. QED
    BY <1>1, <1>2, <1>3, <1>4, <1>5, NextSteps DEF Threads

(* Where the threads are after a step of the HTTP thread ... *)
LEMMA HttpMoves ==
    ASSUME TypeOK, NEW l, Goto("http", l)
    PROVE  pc'["http"] = l /\ pc'["main"] = pc["main"]
  BY DEF TypeOK, PcOK, Goto, Threads

(* ... and of main. *)
LEMMA MainMoves ==
    ASSUME TypeOK, NEW l, Goto("main", l)
    PROVE  pc'["main"] = l /\ pc'["http"] = pc["http"]
  BY DEF TypeOK, PcOK, Goto, Threads

(* One more element after none, and after one. *)
LEMMA AppendToShort ==
    ASSUME NEW a, NEW b
    PROVE  Append(<<>>, b) = <<b>> /\ Append(<<a>>, b) = <<a, b>>
  <1>1. <<a>> \in Seq({a, b}) /\ <<a, b>> \in Seq({a, b}) /\ b \in {a, b}
    OBVIOUS
  <1>2. Append(<<a>>, b) \in Seq({a, b}) /\ Len(Append(<<a>>, b)) = 2
    BY <1>1
  <1>3. \A i \in 1 .. 2 : Append(<<a>>, b)[i] = <<a, b>>[i]
    BY <1>1
  <1>4. Append(<<a>>, b) = <<a, b>>
    BY <1>1, <1>2, <1>3, SeqEqual
  <1>. QED
    BY <1>4

(* main never comes to send or to return. *)
LEMMA MainSilentStep ==
    ASSUME IInv, Flow, Plain, Plain', [Next]_vars
    PROVE  MainSilent'
  <1> USE DEF MainSilent, IInv, Flow
  <1>1. TypeOK
    OBVIOUS
  <1>2. ASSUME NEW l, Goto("http", l) PROVE MainSilent'
    BY <1>1, <1>2, HttpMoves
  <1>3. ASSUME NEW l \in MainPCs, Goto("main", l), l \notin {"register", "setOp", "head", "payload", "returned"}
        PROVE  MainSilent'
    BY <1>1, <1>3, MainMoves
  <1>4. CASE (\E op \in RestOps : HttpStart(op)) \/ HttpReject \/ HttpCrash
    BY <1>2, <1>4 DEF HttpStart, NewRequest, HttpReject, HttpCrash
  <1>5. CASE RequestSentMid("http") \/ RequestSentOp("http") \/ SendChunk("http") \/ SendFails("http")
    BY <1>2, <1>5 DEF RequestSentMid, RequestSentOp, SendChunk, SendFails
  <1>6. CASE WaitTest \/ SpuriousWakeup \/ Reply \/ Free
    BY <1>2, <1>6 DEF WaitTest, SpuriousWakeup, Reply, Free
  <1>7. CASE PollMqtt \/ PoolDone \/ ReadWhole \/ GetMid \/ GetOp
    BY <1>1, <1>3, <1>7 DEF PollMqtt, PoolDone, ReadWhole, Handle, afterRead, GetMid, GetOp, TypeOK, MainPCs
  <1>8. CASE Announce \/ NothingToAnnounce \/ OutputStatus \/ OutputStr \/ GiveUp
    BY <1>3, <1>8 DEF Announce, NothingToAnnounce, OutputStatus, OutputStr, GiveUp, MainPCs
  <1>9. CASE Received
    BY <1>9 DEF Received, TypeOK, PcOK, Threads
  <1>10. CASE HttpBadMethod \/ IgnorePublish \/ Reconnect
    BY <1>10 DEF HttpBadMethod, IgnorePublish, Reconnect
  <1>11. CASE RtReceive \/ RtGarbage \/ RtRespond \/ RtEvent \/ Publish \/ BreakBetween
    BY <1>11 DEF RtReceive, RtGarbage, RtRespond, RtEvent, Publish, BreakBetween, bridge
  <1>12. CASE UNCHANGED vars
    BY <1>12 DEF vars
  <1>. QED
    BY <1>4, <1>5, <1>6, <1>7, <1>8, <1>9, <1>10, <1>11, <1>12, RestSteps

(* The frame goes out in order, is read as a whole, or is lost. *)
LEMMA WireStep ==
    ASSUME IInv, Flow, Plain, Plain', [Next]_vars
    PROVE  Wire'
  <1> USE DEF Flow, own, inward, OwnHead, OwnPayload
  <1>1. TypeOK /\ pc \in [Threads -> HttpPCs \cup MainPCs] /\ mid \in [Threads -> Nat]
    BY DEF IInv, TypeOK, PcOK
  <1>2. Wire
    OBVIOUS
  <1>3. CASE (\E op \in RestOps : HttpStart(op)) \/ HttpReject \/ HttpCrash
    <2>1. pc["http"] = "idle" /\ pc'["http"] \in {"register", "wait", "crashed"}
             /\ toRt' = toRt
      BY <1>1, <1>3, HttpMoves DEF HttpStart, NewRequest, HttpReject, HttpCrash, wires
    <2>2. toRt = <<>>
      BY <1>2, <2>1 DEF Wire
    <2>. QED
      BY <2>1, <2>2 DEF Wire
  <1>4. CASE RequestSentMid("http") \/ RequestSentOp("http")
    BY <1>1, <1>2, <1>4, HttpMoves DEF RequestSentMid, RequestSentOp, wires, Wire
  <1>5. CASE SendChunk("http")
    <2>1. CASE pc["http"] = "head"
      <3>1. pc'["http"] = "payload" /\ toRt = <<>>
        BY <1>1, <1>2, <1>5, <2>1, HttpMoves DEF SendChunk, Wire
      <3>2. toRt' = IF linkUp THEN <<OwnHead>> ELSE <<>>
        BY <1>5, <2>1, <3>1 DEF SendChunk
      <3>. QED
        BY <1>5, <3>1, <3>2 DEF SendChunk, Wire
    <2>2. CASE pc["http"] = "payload"
      <3>1. pc'["http"] = "wait" /\ toRt \in {<<>>, <<OwnHead>>}
        BY <1>1, <1>2, <1>5, <2>2, HttpMoves DEF SendChunk, AfterSend, Wire
      <3>2. toRt' = IF linkUp THEN Append(toRt, OwnPayload) ELSE toRt
        BY <1>5, <2>2 DEF SendChunk
      <3>3. linkUp => toRt' \in {<<OwnPayload>>, <<OwnHead, OwnPayload>>}
        BY <3>1, <3>2, AppendToShort
      <3>4. ~linkUp => toRt' = <<>>
        BY <1>2, <3>1, <3>2 DEF Wire
      <3>5. OwnHead # OwnPayload
        OBVIOUS
      <3>6. UNCHANGED <<mid, linkUp>>
        BY <1>5 DEF SendChunk
      <3>. QED
        BY <3>1, <3>3, <3>4, <3>5, <3>6 DEF Wire
    <2>. QED
      BY <1>5, <2>1, <2>2 DEF SendChunk
  <1>6. CASE SendFails("http")
    <2>1. pc'["http"] = "wait" /\ UNCHANGED <<mid, toRt, linkUp>> /\ ~linkUp
      BY <1>1, <1>6, HttpMoves DEF SendFails, AfterSend, wires
    <2>. QED
      BY <1>2, <2>1 DEF Wire
  <1>7. CASE WaitTest \/ SpuriousWakeup
    <2>1. UNCHANGED <<mid, toRt, linkUp>> /\ pc["http"] \in {"wait", "asleep"}
      BY <1>7 DEF WaitTest, SpuriousWakeup, wires
    <2>2. pc'["http"] \in {"wait", "asleep"} \/ (pc'["http"] = "reply" /\ g_op = NONE)
      BY <1>1, <1>7, HttpMoves DEF WaitTest, SpuriousWakeup
    <2>. QED
      BY <1>2, <2>1, <2>2 DEF Wire, Copies
  <1>8. CASE Reply \/ Free
    BY <1>1, <1>2, <1>8, HttpMoves DEF Reply, Free, Wire, wires
  <1>9. CASE PollMqtt \/ PoolDone \/ ReadWhole \/ GetMid \/ GetOp
    BY <1>1, <1>2, <1>9, MainMoves DEF PollMqtt, PoolDone, ReadWhole, Handle, afterRead, GetMid, GetOp, Wire, wires
  <1>10. CASE Announce \/ NothingToAnnounce \/ OutputStatus \/ OutputStr \/ GiveUp
    BY <1>1, <1>2, <1>10, MainMoves
       DEF Announce, NothingToAnnounce, OutputStatus, OutputStr, GiveUp, Wire, wires
  <1>11. CASE Received
    BY <1>1, <1>2, <1>11 DEF Received, Signalled, Wire, wires, Threads
  <1>12. CASE HttpBadMethod \/ IgnorePublish \/ Reconnect
    BY <1>2, <1>12 DEF HttpBadMethod, IgnorePublish, Reconnect, Wire, wires
  <1>13. CASE RtReceive
    <2>1. toRt = <<OwnHead, OwnPayload>>
      BY <1>2, <1>13 DEF RtReceive, FrameAtFront, Wire
    <2>2. toRt' = <<>>
      BY <1>13, <2>1 DEF RtReceive
    <2>. QED
      BY <1>2, <1>13, <2>1, <2>2 DEF RtReceive, Wire, bridge
  <1>14. CASE RtGarbage
    <2>1. toRt = <<OwnPayload>>
      BY <1>2, <1>14 DEF RtGarbage, FrameAtFront, Wire
    <2>2. toRt' = <<>>
      BY <1>14, <2>1 DEF RtGarbage
    <2>. QED
      BY <1>2, <1>14, <2>1, <2>2 DEF RtGarbage, Wire, bridge
  <1>15. CASE BreakBetween
    BY <1>2, <1>15 DEF BreakBetween, Wire, bridge
  <1>16. CASE RtRespond \/ RtEvent \/ Publish
    BY <1>2, <1>16 DEF RtRespond, RtEvent, Publish, Wire, bridge, wires
  <1>17. CASE UNCHANGED vars
    BY <1>2, <1>17 DEF vars, Wire, wires
  <1>. QED
    BY <1>3, <1>4, <1>5, <1>6, <1>7, <1>8, <1>9, <1>10, <1>11, <1>12, <1>13, <1>14,
       <1>15, <1>16, <1>17, RestSteps

(* Outside the wait nothing of the request is in the runtime, on the way     *)
(* back or in the hands of main.                                             *)
LEMMA NothingAround ==
    ASSUME Copies, pc["http"] \notin {"wait", "asleep"}
    PROVE  working = {} /\ Arriving = {} /\ ~Handling
  BY DEF Copies

(* The request moves on and is never doubled. *)
LEMMA CopiesStep ==
    ASSUME IInv, Flow, Plain, Plain', [Next]_vars
    PROVE  Copies'
  <1> USE DEF Flow, own, inward
  <1>1. TypeOK /\ pc \in [Threads -> HttpPCs \cup MainPCs] /\ mid \in [Threads -> Nat]
    BY DEF IInv, TypeOK, PcOK
  <1>2. Copies /\ Wire /\ Current
    OBVIOUS
  <1>3. CASE (\E op \in RestOps : HttpStart(op)) \/ HttpReject \/ HttpCrash
    <2>1. pc["http"] = "idle" /\ pc'["main"] = pc["main"]
             /\ UNCHANGED <<ret, resp, g_op, toRt, working, fromRt>>
      BY <1>1, <1>3, HttpMoves DEF HttpStart, NewRequest, HttpReject, HttpCrash, wires, handled, shared
    <2>2. toRt = <<>> /\ working = {} /\ Arriving = {} /\ ~Handling
      BY <1>2, <2>1, NothingAround DEF Wire
    <2>. QED
      BY <2>1, <2>2 DEF Copies, Arriving, Handling
  <1>4. CASE RequestSentMid("http") \/ RequestSentOp("http")
    <2>1. pc["http"] \in {"register", "setOp"} /\ pc'["main"] = pc["main"]
             /\ UNCHANGED <<ret, resp, toRt, working, fromRt>>
      BY <1>1, <1>4, HttpMoves DEF RequestSentMid, RequestSentOp, wires, handled
    <2>2. toRt = <<>> /\ working = {} /\ Arriving = {} /\ ~Handling
      BY <1>2, <2>1, NothingAround DEF Wire
    <2>. QED
      BY <2>1, <2>2 DEF Copies, Arriving, Handling
  <1>5. CASE SendChunk("http")
    <2>1. pc["http"] \in {"head", "payload"} /\ pc'["main"] = pc["main"]
             /\ UNCHANGED <<ret, resp, g_op, working, fromRt>>
      BY <1>1, <1>5, HttpMoves DEF SendChunk, shared, handled
    <2>2. working = {} /\ Arriving = {} /\ ~Handling /\ g_op # NONE
      BY <1>2, <2>1, NothingAround DEF Current
    <2>. QED
      BY <2>1, <2>2 DEF Copies, Arriving, Handling
  <1>6. CASE SendFails("http")
    <2>1. pc["http"] \in {"head", "payload"} /\ pc'["main"] = pc["main"] /\ ~linkUp
             /\ UNCHANGED <<ret, resp, g_op, toRt, working, fromRt>>
      BY <1>1, <1>6, HttpMoves DEF SendFails, shared, handled, wires
    <2>2. toRt = <<>> /\ working = {} /\ Arriving = {} /\ ~Handling
      BY <1>2, <2>1, NothingAround DEF Wire
    <2>. QED
      BY <2>1, <2>2 DEF Copies, Arriving, Handling
  <1>7. CASE WaitTest \/ SpuriousWakeup
    <2>1. pc'["main"] = pc["main"] /\ UNCHANGED <<mid, ret, resp, g_op, toRt, working, fromRt>>
      BY <1>1, <1>7, HttpMoves DEF WaitTest, SpuriousWakeup, wires, handled, shared
    <2>2. pc'["http"] \in {"wait", "asleep"} \/ g_op = NONE
      BY <1>1, <1>7, HttpMoves DEF WaitTest, SpuriousWakeup
    <2>. QED
      BY <1>2, <2>1, <2>2 DEF Copies, Arriving, Handling
  <1>8. CASE Reply \/ Free
    <2>1. pc["http"] \in {"reply", "free"} /\ pc'["main"] = pc["main"]
             /\ UNCHANGED <<ret, resp, g_op, toRt, working, fromRt>>
      BY <1>1, <1>8, HttpMoves DEF Reply, Free, wires, handled, shared
    <2>2. toRt = <<>> /\ working = {} /\ Arriving = {} /\ ~Handling
      BY <1>2, <2>1, NothingAround DEF Wire
    <2>. QED
      BY <2>1, <2>2 DEF Copies, Arriving, Handling
  <1>9. CASE \/ PollMqtt \/ PoolDone \/ GetMid \/ GetOp \/ Announce \/ NothingToAnnounce
             \/ OutputStatus \/ OutputStr \/ GiveUp
    <2>1. UNCHANGED <<mid, resp, g_op, toRt, working, fromRt>> /\ pc'["http"] = pc["http"]
      BY <1>1, <1>9, MainMoves
         DEF PollMqtt, PoolDone, GetMid, GetOp, Announce, NothingToAnnounce,
             OutputStatus, OutputStr, GiveUp, wires, handled, shared
    <2>2. Handling' = Handling
      <3>1. CASE PollMqtt \/ PoolDone \/ GiveUp
        BY <1>1, <3>1, MainMoves DEF PollMqtt, PoolDone, GiveUp, Handling, TypeOK
      <3>2. CASE GetMid \/ GetOp \/ OutputStatus \/ OutputStr
        BY <1>1, <3>2, MainMoves DEF GetMid, GetOp, OutputStatus, OutputStr, Handling
      <3>3. CASE Announce \/ NothingToAnnounce
        BY <1>1, <3>3, MainMoves DEF Announce, NothingToAnnounce, Handling
      <3>. QED
        BY <1>9, <3>1, <3>2, <3>3
    <2>. QED
      BY <1>2, <2>1, <2>2 DEF Copies, Arriving
  <1>10. CASE ReadWhole
    <2>1. PICK k \in 1 .. Len(fromRt) : fromRt' = SubSeq(fromRt, k + 1, Len(fromRt))
      BY <1>10 DEF ReadWhole, Handle, afterRead
    <2>2. fromRt \in Seq(Messages) /\ k \in 0 .. Len(fromRt) /\ k > 0
      BY <1>1 DEF TypeOK
    <2>3. \A i \in DOMAIN fromRt' : i + k \in DOMAIN fromRt /\ fromRt'[i] = fromRt[i + k]
      BY <2>1, <2>2, SuffixElements
    <2>4. 1 \in DOMAIN fromRt /\ Head(fromRt) = fromRt[1] /\ \A i \in DOMAIN fromRt' : i + k # 1
      BY <2>1, <2>2
    <2>5. UNCHANGED <<mid, g_op, toRt, working>> /\ pc["main"] = "select" /\ ~Handling
      BY <1>10 DEF ReadWhole, Handle, afterRead, shared, Handling
    <2>6. CASE fromRt[1].kind = "response"
      <3>1. resp' = fromRt[1] /\ pc'["main"] = "getMid" /\ pc'["http"] = pc["http"]
        BY <1>1, <1>10, <2>4, <2>6, MainMoves DEF ReadWhole, Handle, afterRead
      <3>2. 1 \in Arriving
        BY <2>4, <2>6 DEF Arriving
      <3>3. resp'.mid = own /\ working = {} /\ toRt = <<>> /\ pc["http"] \in {"wait", "asleep"}
               /\ g_op # NONE
        BY <1>2, <3>1, <3>2 DEF Copies, Arriving
      <3>4. Arriving' = {}
        <4>1. SUFFICES ASSUME NEW i \in Arriving' PROVE FALSE
          OBVIOUS
        <4>2. i + k \in Arriving /\ i + k # 1
          BY <2>3, <2>4, <4>1 DEF Arriving
        <4>. QED
          BY <1>2, <3>2, <4>2 DEF Copies
      <3>. QED
        BY <2>5, <3>1, <3>3, <3>4 DEF Copies
    <2>7. CASE fromRt[1].kind # "response"
      <3>1. pc'["main"] = "pool" /\ ret' = "select" /\ pc'["http"] = pc["http"]
        BY <1>1, <1>10, <2>4, <2>7, MainMoves DEF ReadWhole, Handle, afterRead
      <3>2. ~Handling'
        BY <3>1 DEF Handling
      <3>3. \A i \in Arriving' : i + k \in Arriving /\ fromRt'[i] = fromRt[i + k] /\ i \in Nat
        BY <2>1, <2>2, <2>3 DEF Arriving
      <3>4. Arriving' # {} => Arriving # {}
        BY <3>3
      <3>5. \A i, j \in Arriving' : i = j
        <4>1. SUFFICES ASSUME NEW i \in Arriving', NEW j \in Arriving' PROVE i = j
          OBVIOUS
        <4>2. i + k = j + k /\ i \in Nat /\ j \in Nat
          BY <1>2, <3>3 DEF Copies
        <4>. QED
          BY <2>2, <4>2
      <3>6. \A i \in Arriving' : fromRt'[i].mid = own
        BY <1>2, <3>3 DEF Copies
      <3>. QED
        BY <1>2, <2>5, <3>1, <3>2, <3>4, <3>5, <3>6 DEF Copies
    <2>. QED
      BY <2>6, <2>7
  <1>11. CASE Received
    <2>1. pc["main"] = "received" /\ pc'["main"] = "select" /\ UNCHANGED <<mid, toRt, working, fromRt>>
      BY <1>1, <1>11 DEF Received, wires, Threads
    <2>2. toRt = <<>> /\ working = {} /\ Arriving = {}
      BY <1>2, <2>1 DEF Copies, Handling
    <2>. QED
      BY <2>1, <2>2 DEF Copies, Arriving, Handling
  <1>12. CASE HttpBadMethod \/ IgnorePublish \/ Reconnect \/ Publish
    BY <1>2, <1>12 DEF HttpBadMethod, IgnorePublish, Reconnect, Publish, Copies, Arriving,
                       Handling, wires, handled, shared, bridge
  <1>13. CASE RtReceive
    <2>1. toRt = <<OwnHead, OwnPayload>>
      BY <1>2, <1>13 DEF RtReceive, FrameAtFront, Wire, OwnHead, OwnPayload
    <2>2. toRt' = <<>> /\ working' = working \cup {own} /\ toRt # <<>>
      BY <1>13, <2>1 DEF RtReceive, OwnHead
    <2>3. Arriving = {} /\ ~Handling /\ g_op # NONE /\ pc["http"] \in {"wait", "asleep"}
             /\ working = {}
      BY <1>2, <2>1, <2>2 DEF Copies, Wire
    <2>4. UNCHANGED <<pc, ret, resp, mid, g_op, fromRt>>
      BY <1>13 DEF RtReceive, bridge, shared, handled
    <2>. QED
      BY <2>2, <2>3, <2>4 DEF Copies, Arriving, Handling
  <1>14. CASE RtGarbage
    <2>1. toRt = <<OwnPayload>>
      BY <1>2, <1>14 DEF RtGarbage, FrameAtFront, Wire, OwnHead, OwnPayload
    <2>2. toRt' = <<>>
      BY <1>14, <2>1 DEF RtGarbage
    <2>3. UNCHANGED <<pc, ret, resp, mid, g_op, working, fromRt>>
      BY <1>14 DEF RtGarbage, bridge, shared, handled
    <2>. QED
      BY <1>2, <2>2, <2>3 DEF Copies, Arriving, Handling
  <1>15. CASE BreakBetween
    <2>1. PICK k \in 0 .. Len(fromRt) : fromRt' = SubSeq(fromRt, 1, k)
      BY <1>15 DEF BreakBetween
    <2>2. \A i \in DOMAIN fromRt' : i \in DOMAIN fromRt /\ fromRt'[i] = fromRt[i]
      BY <1>1, <2>1, PrefixElements DEF TypeOK
    <2>3. \A i \in Arriving' : i \in Arriving /\ fromRt'[i] = fromRt[i]
      BY <2>2 DEF Arriving
    <2>4. toRt' = <<>> /\ UNCHANGED <<pc, ret, resp, mid, g_op, working>>
      BY <1>15 DEF BreakBetween, bridge, shared, handled
    <2>5. Handling' = Handling
      BY <2>4 DEF Handling
    <2>. QED
      BY <1>2, <2>3, <2>4, <2>5 DEF Copies
  <1>16. CASE RtRespond
    <2>1. PICK m \in working, ok \in BOOLEAN, body \in {"own", "none"} :
             /\ working' = working \ {m}
             /\ fromRt' = IF linkUp THEN Append(fromRt, Response(m, ok, body)) ELSE fromRt
      BY <1>16 DEF RtRespond
    <2>2. UNCHANGED <<pc, ret, resp, mid, g_op, toRt>>
      BY <1>16 DEF RtRespond, bridge, shared, handled
    <2>3. m = own /\ working' = {} /\ toRt = <<>> /\ Arriving = {} /\ ~Handling
             /\ pc["http"] \in {"wait", "asleep"} /\ g_op # NONE
      BY <1>2, <2>1 DEF Copies
    <2>4. \A i \in Arriving' : i = Len(fromRt) + 1 /\ fromRt'[i].mid = own
      BY <1>1, <2>1, <2>3 DEF Arriving, TypeOK, Response, Message
    <2>5. ~Handling'
      BY <2>2, <2>3 DEF Handling
    <2>. QED
      BY <2>2, <2>3, <2>4, <2>5 DEF Copies
  <1>17. CASE RtEvent
    <2>1. fromRt' = Append(fromRt, Event) /\ UNCHANGED <<pc, ret, resp, mid, g_op, toRt, working>>
      BY <1>17 DEF RtEvent, bridge, shared, handled
    <2>2. \A i \in Arriving' : i \in Arriving /\ fromRt'[i] = fromRt[i]
      BY <1>1, <2>1 DEF Arriving, TypeOK, Event, Message
    <2>3. Handling' = Handling
      BY <2>1 DEF Handling
    <2>. QED
      BY <1>2, <2>1, <2>2, <2>3 DEF Copies
  <1>18. CASE UNCHANGED vars
    BY <1>2, <1>18 DEF vars, Copies, Arriving, Handling, wires, handled, shared
  <1>. QED
    BY <1>3, <1>4, <1>5, <1>6, <1>7, <1>8, <1>9, <1>10, <1>11, <1>12, <1>13, <1>14,
       <1>15, <1>16, <1>17, <1>18, RestSteps

(* The pending request is that of the HTTP thread. *)
LEMMA CurrentStep ==
    ASSUME IInv, Flow, Plain, Plain', [Next]_vars
    PROVE  Current'
  <1> USE DEF Flow, own, inward
  <1>1. TypeOK /\ pc \in [Threads -> HttpPCs \cup MainPCs] /\ mid \in [Threads -> Nat]
    BY DEF IInv, TypeOK, PcOK
  <1>2. Current /\ Copies
    OBVIOUS
  <1>3. CASE (\E op \in RestOps : HttpStart(op)) \/ HttpReject \/ HttpCrash
    BY <1>1, <1>2, <1>3, HttpMoves DEF HttpStart, NewRequest, HttpReject, HttpCrash, shared, Current
  <1>4. CASE RequestSentMid("http")
    BY <1>1, <1>2, <1>4, HttpMoves DEF RequestSentMid, Current
  <1>5. CASE RequestSentOp("http")
    <2>1. own \in DOMAIN reqs /\ g_mid = own
      BY <1>5 DEF RequestSentOp, IInv, LockInv, Threads
    <2>2. reqs[own] \in Ops
      BY <1>1, <2>1 DEF TypeOK
    <2>3. g_op' = reqs[own] /\ g_op' # NONE /\ pc'["http"] = "head" /\ UNCHANGED <<mid, g_mid, reqs>>
      BY <1>1, <1>5, <2>2, HttpMoves DEF RequestSentOp, Ops, RestOps, NONE, history
    <2>. QED
      BY <2>1, <2>3 DEF Current
  <1>6. CASE SendChunk("http") \/ SendFails("http")
    <2>1. pc["http"] \in {"head", "payload"} /\ pc'["http"] \in {"payload", "wait"}
             /\ UNCHANGED <<mid, g_mid, g_op, reqs>>
      BY <1>1, <1>6, HttpMoves DEF SendChunk, SendFails, AfterSend, shared, history
    <2>. QED
      BY <1>2, <2>1 DEF Current
  <1>7. CASE WaitTest \/ SpuriousWakeup
    <2>1. pc'["http"] \in {"wait", "asleep"} \/ (pc'["http"] = "reply" /\ g_op = NONE)
      BY <1>1, <1>7, HttpMoves DEF WaitTest, SpuriousWakeup
    <2>2. UNCHANGED <<mid, g_mid, g_op, reqs>>
      BY <1>7 DEF WaitTest, SpuriousWakeup, shared, history
    <2>. QED
      BY <1>2, <2>1, <2>2 DEF Current
  <1>8. CASE Reply \/ Free
    BY <1>1, <1>2, <1>8, HttpMoves DEF Reply, Free, shared, Current, history
  <1>9. CASE \/ PollMqtt \/ PoolDone \/ GetMid \/ GetOp \/ Announce \/ NothingToAnnounce
             \/ OutputStatus \/ OutputStr \/ GiveUp
    <2>1. UNCHANGED <<mid, g_mid, g_op, reqs>> /\ pc'["http"] = pc["http"]
      BY <1>1, <1>9, MainMoves
         DEF PollMqtt, PoolDone, GetMid, GetOp, Announce, NothingToAnnounce,
             OutputStatus, OutputStr, GiveUp, shared, history
    <2>. QED
      BY <1>2, <2>1 DEF Current
  <1>10. CASE ReadWhole
    <2>1. UNCHANGED <<mid, g_mid, g_op, reqs>> /\ pc'["http"] = pc["http"]
      BY <1>1, <1>10, MainMoves DEF ReadWhole, Handle, afterRead, shared, history
    <2>. QED
      BY <1>2, <2>1 DEF Current
  <1>11. CASE Received
    <2>1. pc["http"] \in {"wait", "asleep"}
      BY <1>2, <1>11 DEF Received, Copies, Handling
    <2>2. g_op' = NONE /\ pc'["http"] = "wait"
      BY <1>1, <1>11, <2>1 DEF Received, Signalled, Threads
    <2>. QED
      BY <2>2 DEF Current
  <1>12. CASE HttpBadMethod \/ IgnorePublish \/ Reconnect
    BY <1>2, <1>12 DEF HttpBadMethod, IgnorePublish, Reconnect, Current, shared, history
  <1>13. CASE RtReceive \/ RtGarbage \/ RtRespond \/ RtEvent \/ Publish \/ BreakBetween
    BY <1>2, <1>13 DEF RtReceive, RtGarbage, RtRespond, RtEvent, Publish, BreakBetween,
                       bridge, shared, Current
  <1>14. CASE UNCHANGED vars
    BY <1>2, <1>14 DEF vars, shared, history, Current
  <1>. QED
    BY <1>3, <1>4, <1>5, <1>6, <1>7, <1>8, <1>9, <1>10, <1>11, <1>12, <1>13, <1>14, RestSteps

(* While main has a response in its hands, the request it answers is the     *)
(* pending one, the HTTP thread waits for it, and no text is kept before the *)
(* end of its handling.                                                      *)
LEMMA InHands ==
    ASSUME Flow, Handling
    PROVE  /\ pc["http"] \in {"wait", "asleep"}
           /\ resp.mid = own /\ g_mid = own /\ own \in DOMAIN reqs /\ g_op = reqs[own]
           /\ g_op # NONE
           /\ pc["main"] # "received" => last_str = NULL
  BY DEF Flow, Copies, Current, Result

(* A step of the HTTP thread leaves main's locals alone, and so does one of  *)
(* the runtime, the network or the broker.                                   *)
LEMMA LocalsStay ==
    ASSUME IInv, Flow, Plain, Plain',
           \/ (\E op \in RestOps : HttpStart(op)) \/ HttpReject \/ HttpCrash \/ HttpBadMethod
           \/ RequestSentMid("http") \/ RequestSentOp("http")
           \/ SendChunk("http") \/ SendFails("http")
           \/ WaitTest \/ SpuriousWakeup \/ Reply \/ Free
           \/ IgnorePublish \/ Reconnect \/ RtReceive \/ RtGarbage \/ RtRespond
           \/ RtEvent \/ Publish \/ BreakBetween \/ UNCHANGED vars
    PROVE  /\ pc'["main"] = pc["main"] /\ UNCHANGED <<ret, resp, rmid, rop, last_status, modEvents>>
           /\ UNCHANGED <<mid, reqs>> \/ (pc["http"] = "idle" /\ last_str = NULL /\ last_str' = NULL)
           /\ last_str' \in {NULL, last_str}
  <1>1. TypeOK
    BY DEF IInv
  <1>2. CASE (\E op \in RestOps : HttpStart(op)) \/ HttpReject \/ HttpCrash \/ HttpBadMethod
    <2>1. pc["http"] = "idle" /\ last_str = NULL
      BY <1>2 DEF HttpStart, HttpReject, HttpCrash, HttpBadMethod, Flow, Result
    <2>2. pc'["main"] = pc["main"]
      BY <1>1, <1>2, HttpMoves DEF HttpStart, HttpReject, HttpCrash, HttpBadMethod, NewRequest
    <2>. QED
      BY <1>2, <2>1, <2>2 DEF HttpStart, HttpReject, HttpCrash, HttpBadMethod, handled, result, history
  <1>3. CASE RequestSentMid("http") \/ RequestSentOp("http")
    BY <1>1, <1>3, HttpMoves DEF RequestSentMid, RequestSentOp, handled, result, history
  <1>4. CASE SendChunk("http") \/ SendFails("http")
    BY <1>1, <1>4, HttpMoves DEF SendChunk, SendFails, handled, result, history
  <1>5. CASE WaitTest \/ SpuriousWakeup \/ Reply
    BY <1>1, <1>5, HttpMoves DEF WaitTest, SpuriousWakeup, Reply, handled, result, history
  <1>6. CASE Free
    BY <1>1, <1>6, HttpMoves DEF Free, handled, history
  <1>7. CASE IgnorePublish \/ Reconnect \/ UNCHANGED vars
    BY <1>7 DEF IgnorePublish, Reconnect, vars, handled, result, history
  <1>8. CASE RtReceive \/ RtGarbage \/ RtRespond \/ RtEvent \/ Publish \/ BreakBetween
    BY <1>8 DEF RtReceive, RtGarbage, RtRespond, RtEvent, Publish, BreakBetween, bridge,
                handled, result
  <1>. QED
    BY <1>2, <1>3, <1>4, <1>5, <1>6, <1>7, <1>8

(* What main read apart belongs together. *)
LEMMA LocalsStep ==
    ASSUME IInv, Flow, Plain, Plain', [Next]_vars
    PROVE  Locals'
  <1> USE DEF own, inward
  <1>1. TypeOK
    BY DEF IInv
  <1>2. Locals
    BY DEF Flow
  <1>3. CASE \/ (\E op \in RestOps : HttpStart(op)) \/ HttpReject \/ HttpCrash \/ HttpBadMethod
             \/ RequestSentMid("http") \/ RequestSentOp("http")
             \/ SendChunk("http") \/ SendFails("http")
             \/ WaitTest \/ SpuriousWakeup \/ Reply \/ Free
             \/ IgnorePublish \/ Reconnect \/ RtReceive \/ RtGarbage \/ RtRespond
             \/ RtEvent \/ Publish \/ BreakBetween \/ UNCHANGED vars
    <2>1. /\ pc'["main"] = pc["main"] /\ UNCHANGED <<resp, rmid, rop, last_status>>
          /\ UNCHANGED <<mid, reqs>> \/ pc["http"] = "idle"
      BY <1>3, LocalsStay
    <2>2. pc["http"] = "idle" => ~Handling
      BY InHands
    <2>. QED
      BY <1>2, <2>1, <2>2 DEF Locals, Handling
  <1>4. CASE PollMqtt \/ PoolDone \/ ReadWhole \/ GiveUp
    BY <1>1, <1>4, MainMoves DEF PollMqtt, PoolDone, ReadWhole, Handle, afterRead, GiveUp, Locals, TypeOK
  <1>5. CASE GetMid
    <2>1. g_mid = own
      BY <1>5, InHands DEF GetMid, Handling
    <2>. QED
      BY <1>1, <1>5, <2>1, MainMoves DEF GetMid, Locals
  <1>6. CASE GetOp
    <2>1. rmid = own /\ g_op = reqs[own]
      BY <1>2, <1>6, InHands DEF GetOp, Locals, Handling
    <2>. QED
      BY <1>1, <1>6, <2>1, MainMoves DEF GetOp, Locals, history
  <1>7. CASE Announce \/ NothingToAnnounce
    BY <1>1, <1>7, MainMoves DEF Announce, NothingToAnnounce, Locals
  <1>8. CASE OutputStatus
    <2>1. resp.mid = own
      BY <1>8, InHands DEF OutputStatus, Handling
    <2>. QED
      BY <1>1, <1>8, <2>1, MainMoves DEF OutputStatus, Locals, handled
  <1>9. CASE OutputStr
    BY <1>1, <1>2, <1>9, MainMoves DEF OutputStr, Locals, handled
  <1>10. CASE Received
    BY <1>1, <1>10 DEF Received, Locals, TypeOK, PcOK, Threads
  <1>. QED
    BY <1>3, <1>4, <1>5, <1>6, <1>7, <1>8, <1>9, <1>10, RestSteps

(* The two globals of the response belong together and to the request. *)
LEMMA ResultStep ==
    ASSUME IInv, Flow, Plain, Plain', [Next]_vars
    PROVE  Result'
  <1> USE DEF own, inward
  <1>1. TypeOK
    BY DEF IInv
  <1>2. Result
    BY DEF Flow
  <1>3. CASE (\E op \in RestOps : HttpStart(op)) \/ HttpReject \/ HttpCrash \/ HttpBadMethod
    <2>1. last_str = NULL /\ last_str' = NULL /\ pc'["http"] # "free"
      BY <1>1, <1>2, <1>3, HttpMoves
         DEF HttpStart, HttpReject, HttpCrash, HttpBadMethod, NewRequest, result, Result
    <2>. QED
      BY <2>1 DEF Result, OwnText
  <1>4. CASE RequestSentMid("http") \/ RequestSentOp("http")
    <2>1. last_str = NULL /\ last_str' = NULL /\ pc'["http"] # "free"
      BY <1>1, <1>2, <1>4, HttpMoves DEF RequestSentMid, RequestSentOp, result, Result
    <2>. QED
      BY <2>1 DEF Result, OwnText
  <1>5. CASE SendChunk("http") \/ SendFails("http")
    <2>1. last_str = NULL /\ last_str' = NULL /\ pc'["http"] # "free"
      BY <1>1, <1>2, <1>5, HttpMoves DEF SendChunk, SendFails, AfterSend, result, Result
    <2>. QED
      BY <2>1 DEF Result, OwnText
  <1>6. CASE WaitTest \/ SpuriousWakeup
    <2>1. pc["http"] \in {"wait", "asleep"} /\ pc'["http"] \in {"wait", "asleep", "reply"}
             /\ pc'["main"] = pc["main"]
      BY <1>1, <1>6, HttpMoves DEF WaitTest, SpuriousWakeup
    <2>2. UNCHANGED <<mid, reqs, g_op, last_str, last_status>>
      BY <1>6 DEF WaitTest, SpuriousWakeup, shared, result, history
    <2>. QED
      BY <1>2, <2>1, <2>2 DEF Result, OwnText
  <1>7. CASE Reply \/ Free
    <2>1. pc'["main"] = pc["main"] /\ UNCHANGED <<mid, reqs, g_op, last_status>>
      BY <1>1, <1>7, HttpMoves DEF Reply, Free, shared, result, history
    <2>2. \/ last_str' = last_str /\ pc'["http"] = "free" /\ last_str # NULL
          \/ last_str' = NULL /\ pc'["http"] = "idle"
      BY <1>1, <1>7, HttpMoves DEF Reply, Free, result
    <2>. QED
      BY <1>2, <2>1, <2>2 DEF Result, OwnText
  <1>8. CASE \/ PollMqtt \/ PoolDone \/ GetMid \/ GetOp \/ Announce \/ NothingToAnnounce \/ GiveUp
    <2>1. UNCHANGED <<mid, reqs, g_op, last_str, last_status>> /\ pc'["http"] = pc["http"]
             /\ pc["main"] # "received"
      BY <1>1, <1>8, MainMoves
         DEF PollMqtt, PoolDone, GetMid, GetOp, Announce, NothingToAnnounce, GiveUp,
             shared, result, history
    <2>. QED
      BY <1>2, <2>1 DEF Result, OwnText
  <1>9. CASE ReadWhole
    <2>1. UNCHANGED <<mid, reqs, g_op, last_str, last_status>> /\ pc'["http"] = pc["http"]
             /\ pc["main"] # "received"
      BY <1>1, <1>9, MainMoves DEF ReadWhole, Handle, afterRead, shared, result, history
    <2>. QED
      BY <1>2, <2>1 DEF Result, OwnText
  <1>10. CASE OutputStatus
    <2>1. last_str = NULL /\ last_str' = NULL /\ pc["http"] # "free" /\ pc'["http"] = pc["http"]
      BY <1>1, <1>10, InHands, MainMoves DEF OutputStatus, Handling
    <2>. QED
      BY <2>1 DEF Result, OwnText
  <1>11. CASE OutputStr
    <2>1. resp.mid = own /\ own \in DOMAIN reqs /\ pc["http"] \in {"wait", "asleep"}
             /\ last_status.mid = own
      BY <1>11, InHands DEF OutputStr, Handling, Flow, Locals
    <2>2. last_str' \in {NULL, OwnText} /\ pc'["http"] = pc["http"] /\ pc'["main"] = "received"
             /\ UNCHANGED <<mid, reqs, g_op, last_status>>
      BY <1>1, <1>11, <2>1, MainMoves DEF OutputStr, shared, history, IInv, Whole, Intact, Plain, OwnText
    <2>. QED
      BY <2>1, <2>2 DEF Result, OwnText
  <1>12. CASE Received
    <2>1. pc["http"] \in {"wait", "asleep"}
      BY <1>12, InHands DEF Received, Handling
    <2>2. pc'["http"] = "wait" /\ g_op' = NONE /\ UNCHANGED <<mid, reqs, last_str, last_status>>
      BY <1>1, <1>12, <2>1 DEF Received, Signalled, TypeOK, PcOK, Threads, result, history
    <2>. QED
      BY <1>2, <2>2 DEF Result, OwnText
  <1>13. CASE \/ IgnorePublish \/ Reconnect \/ RtReceive \/ RtGarbage \/ RtRespond
              \/ RtEvent \/ Publish \/ BreakBetween \/ UNCHANGED vars
    <2>1. UNCHANGED <<pc, mid, reqs, g_op, last_str, last_status>>
      BY <1>13 DEF IgnorePublish, Reconnect, RtReceive, RtGarbage, RtRespond, RtEvent,
                   Publish, BreakBetween, bridge, vars, shared, result, history
    <2>. QED
      BY <1>2, <2>1 DEF Result, OwnText
  <1>. QED
    BY <1>3, <1>4, <1>5, <1>6, <1>7, <1>8, <1>9, <1>10, <1>11, <1>12, <1>13, RestSteps

(* A success is published before its response is passed on. *)
LEMMA AnnouncedStep ==
    ASSUME IInv, Flow, Plain, Plain', [Next]_vars
    PROVE  Announced'
  <1> USE DEF own, inward, IsAnnounced
  <1>1. TypeOK
    BY DEF IInv
  <1>2. Announced
    BY DEF Flow
  <1>3. CASE \/ (\E op \in RestOps : HttpStart(op)) \/ HttpReject \/ HttpCrash \/ HttpBadMethod
             \/ RequestSentMid("http") \/ RequestSentOp("http")
             \/ SendChunk("http") \/ SendFails("http")
             \/ WaitTest \/ SpuriousWakeup \/ Reply \/ Free
             \/ IgnorePublish \/ Reconnect \/ RtReceive \/ RtGarbage \/ RtRespond
             \/ RtEvent \/ Publish \/ BreakBetween \/ UNCHANGED vars
    <2>1. /\ pc'["main"] = pc["main"] /\ UNCHANGED <<ret, resp, last_status, modEvents>>
          /\ UNCHANGED <<mid, reqs>> \/ (pc["http"] = "idle" /\ last_str' = NULL)
          /\ last_str' \in {NULL, last_str}
      BY <1>3, LocalsStay
    <2>2. pc["http"] = "idle" => ~Handling
      BY InHands
    <2>. QED
      BY <1>2, <2>1, <2>2 DEF Announced, Handling
  <1>4. CASE PollMqtt \/ PoolDone \/ GiveUp
    <2>1. UNCHANGED <<mid, reqs, resp, last_status, last_str, modEvents>>
      BY <1>4 DEF PollMqtt, PoolDone, GiveUp, handled, result, history
    <2>2. Handling' => Handling /\ pc["main"] = "pool"
      BY <1>1, <1>4, MainMoves DEF PollMqtt, PoolDone, GiveUp, Handling, TypeOK
    <2>. QED
      BY <1>2, <2>1, <2>2 DEF Announced
  <1>5. CASE ReadWhole \/ GetMid \/ GetOp
    <2>1. UNCHANGED <<mid, reqs, last_status, last_str, modEvents>>
      BY <1>5 DEF ReadWhole, Handle, afterRead, GetMid, GetOp, result, history
    <2>2. pc'["main"] \in {"getMid", "getOp", "check"} \/ ~Handling'
      BY <1>1, <1>5, MainMoves DEF ReadWhole, Handle, afterRead, GetMid, GetOp, Handling
    <2>. QED
      BY <1>2, <2>1, <2>2 DEF Announced
  <1>6. CASE Announce
    <2>1. rop = reqs[own] /\ resp.mid = own
      BY <1>6, InHands DEF Announce, Handling, Flow, Locals
    <2>2. [event |-> reqs[own], mid |-> own] \in modEvents' /\ modEvents \subseteq modEvents'
      BY <1>6, <2>1 DEF Announce
    <2>3. UNCHANGED <<mid, reqs, last_status, last_str>>
      BY <1>6 DEF Announce, result
    <2>. QED
      BY <2>2, <2>3 DEF Announced
  <1>7. CASE NothingToAnnounce
    <2>1. rop = reqs[own] /\ own \in DOMAIN reqs /\ rop \in Ops
      BY <1>1, <1>7, InHands DEF NothingToAnnounce, Handling, Flow, Locals, TypeOK
    <2>2. UNCHANGED <<mid, reqs, resp, last_status, last_str, modEvents>>
      BY <1>7 DEF NothingToAnnounce, handled, result, history
    <2>3. reqs[own] # "REQUEST"
      BY <2>1 DEF Plain, NothingForwarded
    <2>4. resp.ok => reqs[own] = "QUERY"
      BY <1>1, <1>7, <2>1, <2>3 DEF NothingToAnnounce, ToAnnounce, Ops, RestOps
    <2>. QED
      BY <1>2, <2>2, <2>4 DEF Announced
  <1>8. CASE OutputStatus
    <2>1. last_str = NULL
      BY <1>8, InHands DEF OutputStatus, Handling
    <2>2. UNCHANGED <<mid, reqs, resp, last_str, modEvents>> /\ pc["main"] = "status"
      BY <1>8 DEF OutputStatus, handled, history
    <2>. QED
      BY <1>2, <2>1, <2>2 DEF Announced, Handling
  <1>9. CASE OutputStr
    <2>1. last_status.ok = resp.ok /\ pc["main"] = "str"
      BY <1>9 DEF OutputStr, Flow, Locals
    <2>2. UNCHANGED <<mid, reqs, resp, last_status, modEvents>>
      BY <1>9 DEF OutputStr, handled, history
    <2>. QED
      BY <1>2, <2>1, <2>2 DEF Announced, Handling
  <1>10. CASE Received
    <2>1. UNCHANGED <<mid, reqs, last_status, last_str, modEvents>>
      BY <1>10 DEF Received, result, history
    <2>2. ~Handling'
      BY <1>1, <1>10 DEF Received, Handling, TypeOK, PcOK, Threads
    <2>. QED
      BY <1>2, <2>1, <2>2 DEF Announced
  <1>. QED
    BY <1>3, <1>4, <1>5, <1>6, <1>7, <1>8, <1>9, <1>10, RestSteps

(* An answer more: another request's answers stay what they were, and a      *)
(* request without an answer has one now.                                    *)
LEMMA AnswersGrow ==
    ASSUME TypeOK, NEW r, replies' = Append(replies, r), NEW k
    PROVE  /\ r.to # k /\ AnsweredOnce(k) => AnsweredOnce(k)'
           /\ r.to # k /\ NoAnswer(k) => NoAnswer(k)'
           /\ r.to = k /\ NoAnswer(k) => AnsweredOnce(k)'
  <1>1. /\ DOMAIN replies' = 1 .. Len(replies) + 1 /\ DOMAIN replies = 1 .. Len(replies)
        /\ Len(replies) \in Nat
        /\ \A i \in DOMAIN replies : replies'[i] = replies[i]
        /\ replies'[Len(replies) + 1] = r
    BY DEF TypeOK
  <1>2. ASSUME r.to # k, AnsweredOnce(k) PROVE AnsweredOnce(k)'
    <2>1. PICK i \in DOMAIN replies : \A j \in DOMAIN replies : replies[j].to = k <=> j = i
      BY <1>2 DEF AnsweredOnce
    <2>2. \A j \in DOMAIN replies' : replies'[j].to = k <=> j = i
      BY <1>1, <1>2, <2>1
    <2>. QED
      BY <1>1, <2>1, <2>2 DEF AnsweredOnce
  <1>3. ASSUME r.to # k, NoAnswer(k) PROVE NoAnswer(k)'
    BY <1>1, <1>3 DEF NoAnswer
  <1>4. ASSUME r.to = k, NoAnswer(k) PROVE AnsweredOnce(k)'
    <2>1. \A j \in DOMAIN replies' : replies'[j].to = k <=> j = Len(replies) + 1
      BY <1>1, <1>4 DEF NoAnswer
    <2>. QED
      BY <1>1, <2>1 DEF AnsweredOnce
  <1>. QED
    BY <1>2, <1>3, <1>4

(* A refused request stays refused: there is nothing that could answer it. *)
LEMMA RefusedStays ==
    ASSUME IInv, Flow, Plain, Plain', [Next]_vars, Refused,
           mid' = mid, replies' = replies, g_op' = g_op
    PROVE  Refused'
  <1> USE DEF Flow, own, inward
  <1>1. TypeOK
    BY DEF IInv
  <1>2. AnsweredOnce(own)' /\ g_op' # NONE
    BY DEF Refused, AnsweredOnce
  <1>3. pc["http"] \in {"head", "payload", "wait", "asleep"}
    BY DEF Refused, Current
  <1>4. pc["http"] \notin {"head", "payload"}
    <2>1. NoAnswer(own) => ~AnsweredOnce(own)
      BY DEF NoAnswer, AnsweredOnce
    <2>. QED
      BY <2>1 DEF Answered, Refused
  <1>5. CASE UNCHANGED vars
    BY <1>5 DEF Refused, vars, wires, handled, shared, Arriving, Handling, AnsweredOnce, history
  <1>6. CASE WaitTest \/ SpuriousWakeup
    <2>1. pc'["main"] = pc["main"] /\ UNCHANGED <<ret, toRt, working, fromRt>>
      BY <1>1, <1>6, HttpMoves DEF WaitTest, SpuriousWakeup, wires
    <2>. QED
      BY <1>2, <2>1 DEF Refused, Arriving, Handling
  <1>7. CASE PollMqtt \/ PoolDone \/ GiveUp
    <2>1. UNCHANGED <<toRt, working, fromRt>>
      BY <1>7 DEF PollMqtt, PoolDone, GiveUp, wires
    <2>2. Handling' => Handling
      BY <1>1, <1>7, MainMoves DEF PollMqtt, PoolDone, GiveUp, Handling, TypeOK
    <2>. QED
      BY <1>2, <2>1, <2>2 DEF Refused, Arriving
  <1>8. CASE ReadWhole
    <2>1. PICK k \in 1 .. Len(fromRt) : fromRt' = SubSeq(fromRt, k + 1, Len(fromRt))
      BY <1>8 DEF ReadWhole, Handle, afterRead
    <2>2. fromRt \in Seq(Messages) /\ k \in 0 .. Len(fromRt) /\ k > 0
      BY <1>1 DEF TypeOK
    <2>3. \A i \in DOMAIN fromRt' : i + k \in DOMAIN fromRt /\ fromRt'[i] = fromRt[i + k]
      BY <2>1, <2>2, SuffixElements
    <2>4. 1 \in DOMAIN fromRt /\ Head(fromRt) = fromRt[1]
      BY <2>1, <2>2
    <2>5. Head(fromRt).kind # "response"
      BY <2>4 DEF Refused, Arriving
    <2>6. pc'["main"] = "pool" /\ ret' = "select" /\ UNCHANGED <<toRt, working>>
      BY <1>1, <1>8, <2>5, MainMoves DEF ReadWhole, Handle, afterRead
    <2>7. Arriving' = {}
      BY <2>3 DEF Arriving, Refused
    <2>. QED
      BY <1>2, <2>6, <2>7 DEF Refused, Handling
  <1>9. CASE \/ GetMid \/ GetOp \/ Announce \/ NothingToAnnounce \/ OutputStatus \/ OutputStr
             \/ Received
    BY <1>9 DEF Refused, Handling, GetMid, GetOp, Announce, NothingToAnnounce, OutputStatus,
                OutputStr, Received
  <1>10. CASE IgnorePublish \/ Reconnect \/ Publish
    BY <1>2, <1>10 DEF IgnorePublish, Reconnect, Publish, Refused, wires, bridge, Arriving, Handling
  <1>11. CASE RtReceive \/ RtGarbage \/ RtRespond
    BY <1>11 DEF RtReceive, RtGarbage, RtRespond, FrameAtFront, Refused
  <1>12. CASE RtEvent \/ BreakBetween
    <2>1. toRt' \in {<<>>, toRt} /\ UNCHANGED <<pc, ret, working>>
      BY <1>12 DEF RtEvent, BreakBetween, bridge
    <2>2. Arriving' = {}
      <3>1. CASE RtEvent
        BY <1>1, <3>1 DEF RtEvent, Arriving, Refused, TypeOK, Event, Message
      <3>2. CASE BreakBetween
        <4>1. PICK k \in 0 .. Len(fromRt) : fromRt' = SubSeq(fromRt, 1, k)
          BY <3>2 DEF BreakBetween
        <4>2. \A i \in DOMAIN fromRt' : i \in DOMAIN fromRt /\ fromRt'[i] = fromRt[i]
          BY <1>1, <4>1, PrefixElements DEF TypeOK
        <4>. QED
          BY <4>2 DEF Arriving, Refused
      <3>. QED
        BY <1>12, <3>1, <3>2
    <2>. QED
      BY <1>2, <2>1, <2>2 DEF Refused, Handling
  <1>13. CASE \/ (\E op \in RestOps : HttpStart(op)) \/ HttpReject \/ HttpCrash \/ HttpBadMethod
              \/ RequestSentMid("http") \/ RequestSentOp("http")
              \/ SendChunk("http") \/ SendFails("http") \/ Reply \/ Free
    BY <1>3, <1>4, <1>13 DEF HttpStart, HttpReject, HttpCrash, HttpBadMethod, RequestSentMid,
                             RequestSentOp, SendChunk, SendFails, Reply, Free
  <1>. QED
    BY <1>5, <1>6, <1>7, <1>8, <1>9, <1>10, <1>11, <1>12, <1>13, RestSteps

(* The answers are counted right. *)
LEMMA AnsweredStep ==
    ASSUME IInv, Flow, Plain, Plain', [Next]_vars
    PROVE  Answered'
  <1> USE DEF own, inward
  <1>1. TypeOK /\ mid \in [Threads -> Nat] /\ reqs \in Seq(Ops) /\ replies \in Seq(Replies)
           /\ pc["http"] \in HttpPCs
    BY DEF IInv, TypeOK, PcOK
  <1>2. Answered
    BY DEF Flow
  <1>3. ASSUME NEW op \in RestOps, HttpStart(op) PROVE Answered'
    <2>1. /\ pc["http"] = "idle" /\ pc'["http"] = "register"
          /\ reqs' = Append(reqs, op) /\ mid' = [mid EXCEPT !["http"] = Len(reqs) + 1]
          /\ replies' = replies
      BY <1>1, <1>3, HttpMoves DEF HttpStart, NewRequest, gen_random_id
    <2>2. /\ own' = Len(reqs) + 1 /\ Len(reqs) \in Nat
          /\ DOMAIN reqs' = DOMAIN reqs \cup {own'} /\ own' \notin {0} \cup DOMAIN reqs
      BY <1>1, <2>1 DEF Threads
    <2>3. NoAnswer(own)'
      BY <1>2, <2>1, <2>2 DEF Answered, NoAnswer
    <2>4. \A k \in DOMAIN reqs' : k # own' => AnsweredOnce(k)'
      BY <1>2, <2>1, <2>2 DEF Answered, AnsweredOnce
    <2>. QED
      BY <1>2, <2>1, <2>2, <2>3, <2>4 DEF Answered
  <1>4. CASE HttpReject \/ HttpBadMethod
    <2>1. PICK code : Refuse(0, code)
      BY <1>4 DEF HttpReject, HttpBadMethod
    <2>2. /\ pc["http"] = "idle" /\ reqs' = reqs
          /\ \/ pc'["http"] = "wait" /\ own' = 0
             \/ pc'["http"] = "idle" /\ own' = own
      <3>1. CASE HttpReject
        <4>1. pc'["http"] = "wait"
          BY <1>1, <3>1, HttpMoves DEF HttpReject
        <4>2. own' = 0
          BY <1>1, <3>1 DEF HttpReject, Threads
        <4>. QED
          BY <3>1, <4>1, <4>2 DEF HttpReject
      <3>2. CASE HttpBadMethod
        BY <3>2 DEF HttpBadMethod
      <3>. QED
        BY <1>4, <3>1, <3>2
    <2> DEFINE r == [to |-> 0, code |-> code, status |-> NoStatus, body |-> NULL]
    <2>3. replies' = Append(replies, r) /\ r.to = 0
      BY <2>1 DEF Refuse
    <2>4. \A k \in DOMAIN reqs : AnsweredOnce(k)'
      <3>1. SUFFICES ASSUME NEW k \in DOMAIN reqs PROVE AnsweredOnce(k)'
        OBVIOUS
      <3>2. k # 0 /\ AnsweredOnce(k)
        BY <1>1, <1>2, <2>2 DEF Answered
      <3>. QED
        BY <1>1, <2>3, <3>2, AnswersGrow
    <2>5. \A i \in DOMAIN replies' : replies'[i].to \in {0} \cup DOMAIN reqs
      BY <1>1, <1>2, <2>3 DEF Answered
    <2>. QED
      BY <1>2, <2>2, <2>4, <2>5 DEF Answered
  <1>5. CASE RequestSentMid("http") \/ RequestSentOp("http")
    <2>1. pc["http"] \in {"register", "setOp"} /\ pc'["http"] \in {"setOp", "head"}
             /\ UNCHANGED <<mid, reqs, replies>>
      BY <1>1, <1>5, HttpMoves DEF RequestSentMid, RequestSentOp, history
    <2>. QED
      BY <1>2, <2>1 DEF Answered, AnsweredOnce, NoAnswer
  <1>6. CASE SendChunk("http")
    <2>1. pc["http"] \in {"head", "payload"} /\ pc'["http"] \in {"payload", "wait"}
             /\ UNCHANGED <<mid, reqs, replies>>
      BY <1>1, <1>6, HttpMoves DEF SendChunk, AfterSend, history
    <2>. QED
      BY <1>2, <2>1 DEF Answered, AnsweredOnce, NoAnswer
  <1>7. CASE SendFails("http")
    <2>1. pc["http"] \in {"head", "payload"} /\ pc'["http"] = "wait" /\ ~linkUp
             /\ pc'["main"] = pc["main"]
             /\ UNCHANGED <<mid, reqs, ret, g_op, toRt, working, fromRt>>
      BY <1>1, <1>7, HttpMoves DEF SendFails, AfterSend, wires, shared
    <2>2. NoAnswer(own) /\ own \in DOMAIN reqs
      BY <1>2, <2>1 DEF Answered, Flow, Current
    <2>3. CASE UNCHANGED replies
      BY <1>2, <2>1, <2>2, <2>3 DEF Answered, AnsweredOnce, NoAnswer
    <2>4. CASE Refuse(own, "400")
      <3> DEFINE r == [to |-> own, code |-> "400", status |-> NoStatus, body |-> NULL]
      <3>1. replies' = Append(replies, r) /\ r.to = own
        BY <2>4 DEF Refuse
      <3>2. AnsweredOnce(own)'
        <4>1. \A k : k = own /\ NoAnswer(k) => AnsweredOnce(k)'
          BY <1>1, <3>1, AnswersGrow
        <4>2. own' = own
          BY <2>1
        <4>. QED
          BY <2>2, <4>1, <4>2
      <3>3. \A k \in DOMAIN reqs : AnsweredOnce(k)'
        <4>1. SUFFICES ASSUME NEW k \in DOMAIN reqs, k # own PROVE AnsweredOnce(k)'
          BY <2>1, <3>2
        <4>2. AnsweredOnce(k)
          BY <1>2, <4>1 DEF Answered
        <4>. QED
          BY <1>1, <3>1, <4>1, <4>2, AnswersGrow
      <3>4. \A i \in DOMAIN replies' : replies'[i].to \in {0} \cup DOMAIN reqs
        BY <1>1, <1>2, <2>2, <3>1 DEF Answered
      <3>5. g_op # NONE /\ toRt = <<>> /\ working = {} /\ Arriving = {} /\ ~Handling
        BY <2>1, NothingAround DEF Flow, Wire, Current
      <3>6. Refused'
        BY <2>1, <3>2, <3>5 DEF Refused, Arriving, Handling
      <3>. QED
        BY <1>2, <2>1, <3>3, <3>4, <3>6 DEF Answered
    <2>. QED
      BY <1>7, <2>3, <2>4 DEF SendFails
  <1>8. CASE WaitTest
    <2>1. pc["http"] = "wait" /\ UNCHANGED <<mid, reqs, replies, g_op>>
             /\ pc'["http"] = IF g_op = NONE THEN "reply" ELSE "asleep"
      BY <1>1, <1>8, HttpMoves DEF WaitTest, shared, history
    <2>2. Refused => Refused'
      BY <2>1, RefusedStays
    <2>3. g_op = NONE /\ own # 0 => NoAnswer(own)
      BY <1>2, <2>1 DEF Answered, Refused
    <2>. QED
      BY <1>2, <2>1, <2>2, <2>3 DEF Answered, AnsweredOnce, NoAnswer
  <1>9. CASE SpuriousWakeup
    <2>1. pc["http"] = "asleep" /\ pc'["http"] = "wait" /\ UNCHANGED <<mid, reqs, replies, g_op>>
      BY <1>1, <1>9, HttpMoves DEF SpuriousWakeup, shared, history
    <2>2. Refused => Refused'
      BY <2>1, RefusedStays
    <2>. QED
      BY <1>2, <2>1, <2>2 DEF Answered, AnsweredOnce, NoAnswer
  <1>10. CASE Reply
    <2>1. pc["http"] = "reply" /\ pc'["http"] \in {"free", "idle"} /\ UNCHANGED <<mid, reqs>>
             /\ (pc'["http"] = "free" => own # 0)
      <3>1. last_str # NULL => own # 0
        BY <1>1 DEF Flow, Result
      <3>. QED
        BY <1>1, <1>10, <3>1, HttpMoves DEF Reply
    <2>2. PICK r : replies' = Append(replies, r) /\ r.to = own
      BY <1>10 DEF Reply, Refuse
    <2>3. own # 0 => NoAnswer(own)
      BY <1>2, <2>1 DEF Answered
    <2>4. own # 0 => AnsweredOnce(own)'
      <3>1. \A k : k = own /\ NoAnswer(k) => AnsweredOnce(k)'
        BY <1>1, <2>2, AnswersGrow
      <3>2. own' = own
        BY <2>1
      <3>. QED
        BY <2>3, <3>1, <3>2
    <2>5. \A k \in DOMAIN reqs : AnsweredOnce(k)'
      <3>1. SUFFICES ASSUME NEW k \in DOMAIN reqs, k # own PROVE AnsweredOnce(k)'
        BY <1>1, <2>1, <2>4
      <3>2. AnsweredOnce(k)
        BY <1>2, <3>1 DEF Answered
      <3>. QED
        BY <1>1, <2>2, <3>1, <3>2, AnswersGrow
    <2>6. \A i \in DOMAIN replies' : replies'[i].to \in {0} \cup DOMAIN reqs
      BY <1>1, <1>2, <2>2 DEF Answered
    <2>. QED
      BY <1>2, <2>1, <2>4, <2>5, <2>6 DEF Answered
  <1>11. CASE Free
    <2>1. pc["http"] = "free" /\ pc'["http"] = "idle" /\ UNCHANGED <<mid, reqs, replies>>
      BY <1>1, <1>11, HttpMoves DEF Free, history
    <2>. QED
      BY <1>2, <2>1 DEF Answered, AnsweredOnce, NoAnswer
  <1>14. CASE HttpCrash
    <2>1. pc["http"] = "idle" /\ pc'["http"] = "crashed" /\ UNCHANGED <<mid, reqs, replies>>
      BY <1>1, <1>14, HttpMoves DEF HttpCrash, history
    <2>. QED
      BY <1>2, <2>1 DEF Answered, AnsweredOnce, NoAnswer
  <1>12. CASE Received
    <2>1. pc["http"] \in {"wait", "asleep"} /\ ~Refused
      BY <1>12, InHands DEF Received, Handling, Refused
    <2>2. pc'["http"] = "wait" /\ UNCHANGED <<mid, reqs, replies>>
      BY <1>1, <1>12, <2>1 DEF Received, Signalled, TypeOK, PcOK, Threads, history
    <2>. QED
      BY <1>2, <2>1, <2>2 DEF Answered, AnsweredOnce, NoAnswer
  <1>13. CASE \/ PollMqtt \/ IgnorePublish \/ PoolDone \/ ReadWhole \/ GetMid \/ GetOp \/ Announce
              \/ NothingToAnnounce \/ OutputStatus \/ OutputStr \/ Reconnect \/ GiveUp
              \/ RtReceive \/ RtGarbage \/ RtRespond \/ RtEvent \/ Publish \/ BreakBetween
              \/ UNCHANGED vars
    <2>1. UNCHANGED <<mid, reqs, replies, g_op>> /\ pc'["http"] = pc["http"]
      <3>1. CASE \/ PollMqtt \/ PoolDone \/ GetMid \/ GetOp \/ Announce \/ NothingToAnnounce
                 \/ OutputStatus \/ OutputStr \/ GiveUp
        BY <1>1, <3>1, MainMoves
           DEF PollMqtt, PoolDone, GetMid, GetOp, Announce, NothingToAnnounce, OutputStatus,
               OutputStr, GiveUp, shared, history
      <3>2. CASE ReadWhole
        BY <1>1, <3>2, MainMoves DEF ReadWhole, Handle, afterRead, shared, history
      <3>3. CASE IgnorePublish \/ Reconnect \/ UNCHANGED vars
        BY <3>3 DEF IgnorePublish, Reconnect, vars, shared, history
      <3>4. CASE RtReceive \/ RtGarbage \/ RtRespond \/ RtEvent \/ Publish \/ BreakBetween
        BY <3>4 DEF RtReceive, RtGarbage, RtRespond, RtEvent, Publish, BreakBetween, bridge, shared
      <3>. QED
        BY <1>13, <3>1, <3>2, <3>3, <3>4
    <2>2. Refused => Refused'
      BY <2>1, RefusedStays
    <2>. QED
      BY <1>2, <2>1, <2>2 DEF Answered, AnsweredOnce, NoAnswer
  <1>. QED
    BY <1>3, <1>4, <1>5, <1>6, <1>7, <1>8, <1>9, <1>10, <1>11, <1>12, <1>13, <1>14, RestSteps

(* As long as nothing is lost, a request that was sent is somewhere. *)
LEMMA UnderWayStep ==
    ASSUME IInv, Flow, Plain, Plain', [Next]_vars
    PROVE  UnderWay'
  <1> USE DEF own, inward
  <1>1. /\ TypeOK /\ mid \in [Threads -> Nat] /\ fromRt \in Seq(Messages)
        /\ left \in [{"http", "publish", "event", "break"} -> Nat]
        /\ MaxBreak \in Nat /\ MaxEvent \in Nat
    BY BoundsAssumption DEF IInv, TypeOK
  <1>2. UnderWay /\ Wire /\ Copies /\ Current /\ Result
    BY DEF Flow
  <1>3. CASE (\E op \in RestOps : HttpStart(op)) \/ HttpReject \/ HttpCrash \/ HttpBadMethod
    <2>1. pc["http"] = "idle" /\ UNCHANGED <<toRt, fromRt, linkUp, working, g_op>>
             /\ left'["break"] = left["break"] /\ left'["event"] = left["event"]
      BY <1>1, <1>3 DEF HttpStart, HttpReject, HttpCrash, HttpBadMethod, Spend, wires, shared
    <2>2. g_op = NONE /\ pc'["http"] # "payload"
      BY <1>1, <1>2, <1>3, HttpMoves DEF HttpStart, NewRequest, HttpReject, HttpCrash, HttpBadMethod, Current
    <2>. QED
      BY <1>2, <2>1, <2>2 DEF UnderWay, Undisturbed, Plain, Arriving
  <1>4. CASE RequestSentMid("http") \/ RequestSentOp("http")
    <2>1. pc'["http"] \in {"setOp", "head"} /\ UNCHANGED <<toRt, fromRt, linkUp, left>>
      BY <1>1, <1>4, HttpMoves DEF RequestSentMid, RequestSentOp, wires
    <2>. QED
      BY <1>2, <2>1 DEF UnderWay, Arriving
  <1>5. CASE SendChunk("http")
    <2>1. UNCHANGED <<mid, fromRt, linkUp, left>>
      BY <1>5 DEF SendChunk
    <2>2. CASE pc["http"] = "head"
      <3>1. pc'["http"] = "payload" /\ toRt = <<>>
        BY <1>1, <1>2, <1>5, <2>2, HttpMoves DEF SendChunk, Wire
      <3>2. linkUp => toRt' = <<OwnHead>>
        BY <1>5, <2>2, <3>1 DEF SendChunk, OwnHead
      <3>. QED
        BY <1>2, <2>1, <3>1, <3>2 DEF UnderWay, Undisturbed, Plain, Arriving, OwnHead
    <2>3. CASE pc["http"] = "payload"
      <3>1. pc'["http"] = "wait"
        BY <1>1, <1>5, <2>3, HttpMoves DEF SendChunk, AfterSend
      <3>2. linkUp => toRt' = Append(toRt, OwnPayload)
        BY <1>5, <2>3 DEF SendChunk, OwnPayload
      <3>3. Undisturbed => linkUp /\ toRt = <<OwnHead>>
        BY <1>2, <2>3 DEF UnderWay, Undisturbed, Plain
      <3>4. Undisturbed => toRt' = <<OwnHead, OwnPayload>>
        BY <3>2, <3>3, AppendToShort
      <3>. QED
        BY <1>2, <2>1, <3>1, <3>4 DEF UnderWay, Undisturbed, Plain, Arriving, OwnHead, OwnPayload
    <2>. QED
      BY <1>5, <2>2, <2>3 DEF SendChunk
  <1>6. CASE SendFails("http")
    <2>1. ~linkUp /\ UNCHANGED <<fromRt, linkUp, left>>
      BY <1>6 DEF SendFails, wires
    <2>. QED
      BY <1>2, <2>1 DEF UnderWay, Undisturbed, Plain, Arriving
  <1>7. CASE WaitTest \/ SpuriousWakeup
    <2>1. pc["http"] \in {"wait", "asleep"} /\ pc'["http"] # "payload" /\ pc'["main"] = pc["main"]
             /\ UNCHANGED <<mid, ret, toRt, fromRt, linkUp, working, left, g_op>>
      BY <1>1, <1>7, HttpMoves DEF WaitTest, SpuriousWakeup, wires, shared
    <2>. QED
      BY <1>2, <2>1 DEF UnderWay, Undisturbed, Plain, Arriving, Handling, OwnHead, OwnPayload
  <1>8. CASE Reply \/ Free
    <2>1. pc'["http"] \in {"free", "idle"} /\ UNCHANGED <<fromRt, linkUp, left>>
      BY <1>1, <1>8, HttpMoves DEF Reply, Free, wires
    <2>. QED
      BY <1>2, <2>1 DEF UnderWay, Arriving
  <1>9. CASE \/ PollMqtt \/ PoolDone \/ GetMid \/ GetOp \/ Announce \/ NothingToAnnounce
             \/ OutputStatus \/ OutputStr \/ GiveUp
    <2>1. UNCHANGED <<mid, g_op, toRt, working, fromRt, linkUp, left>> /\ pc'["http"] = pc["http"]
      BY <1>1, <1>9, MainMoves
         DEF PollMqtt, PoolDone, GetMid, GetOp, Announce, NothingToAnnounce,
             OutputStatus, OutputStr, GiveUp, wires, shared
    <2>2. Handling' = Handling
      <3>1. CASE PollMqtt \/ PoolDone \/ GiveUp
        BY <1>1, <3>1, MainMoves DEF PollMqtt, PoolDone, GiveUp, Handling, TypeOK
      <3>2. CASE GetMid \/ GetOp \/ OutputStatus \/ OutputStr
        BY <1>1, <3>2, MainMoves DEF GetMid, GetOp, OutputStatus, OutputStr, Handling
      <3>3. CASE Announce \/ NothingToAnnounce
        BY <1>1, <3>3, MainMoves DEF Announce, NothingToAnnounce, Handling
      <3>. QED
        BY <1>9, <3>1, <3>2, <3>3
    <2>. QED
      BY <1>2, <2>1, <2>2 DEF UnderWay, Undisturbed, Plain, Arriving, OwnHead, OwnPayload
  <1>10. CASE ReadWhole
    <2>1. PICK k \in 1 .. Len(fromRt) : fromRt' = SubSeq(fromRt, k + 1, Len(fromRt))
      BY <1>10 DEF ReadWhole, Handle, afterRead
    <2>2. k \in 0 .. Len(fromRt) /\ k > 0
      BY <1>1
    <2>3. \A i \in DOMAIN fromRt' : i + k \in DOMAIN fromRt /\ fromRt'[i] = fromRt[i + k]
      BY <1>1, <2>1, <2>2, SuffixElements
    <2>4. 1 \in DOMAIN fromRt /\ Head(fromRt) = fromRt[1]
      BY <1>1, <2>1, <2>2
    <2>5. UNCHANGED <<mid, g_op, toRt, working, linkUp, left>> /\ pc'["http"] = pc["http"]
      BY <1>1, <1>10, MainMoves DEF ReadWhole, Handle, afterRead, shared
    <2>6. left["event"] = MaxEvent =>
             /\ \A i \in DOMAIN fromRt' : i \in Arriving'
             /\ Handling'
      <3>1. SUFFICES ASSUME left["event"] = MaxEvent
                     PROVE  (\A i \in DOMAIN fromRt' : i \in Arriving') /\ Handling'
        OBVIOUS
      <3>2. \A i \in DOMAIN fromRt : fromRt[i].kind = "response"
        BY <1>2, <3>1 DEF UnderWay, Arriving
      <3>3. pc'["main"] = "getMid"
        BY <1>1, <1>10, <2>4, <3>2, MainMoves DEF ReadWhole, Handle, afterRead
      <3>. QED
        BY <2>3, <3>2, <3>3 DEF Arriving, Handling
    <2>. QED
      BY <1>2, <2>5, <2>6 DEF UnderWay, Undisturbed, Plain, OwnHead, OwnPayload
  <1>11. CASE Received
    <2>1. pc["http"] \in {"wait", "asleep"}
      BY <1>11, InHands DEF Received, Handling
    <2>2. pc'["http"] = "wait" /\ g_op' = NONE /\ UNCHANGED <<fromRt, linkUp, left>>
      BY <1>1, <1>11, <2>1 DEF Received, Signalled, TypeOK, PcOK, Threads, wires
    <2>. QED
      BY <1>2, <2>2 DEF UnderWay, Arriving
  <1>12. CASE IgnorePublish \/ Publish
    <2>1. left'["break"] = left["break"] /\ left'["event"] = left["event"]
             /\ UNCHANGED <<pc, mid, ret, g_op, toRt, working, fromRt, linkUp>>
      BY <1>1, <1>12 DEF IgnorePublish, Publish, Spend, bridge, wires, shared
    <2>. QED
      BY <1>2, <2>1 DEF UnderWay, Undisturbed, Plain, Arriving, Handling, OwnHead, OwnPayload
  <1>13. CASE Reconnect
    BY <1>2, <1>13 DEF Reconnect, UnderWay, Undisturbed, Plain, Arriving, Handling, OwnHead, OwnPayload
  <1>14. CASE RtReceive
    <2>1. toRt = <<OwnHead, OwnPayload>>
      BY <1>2, <1>14 DEF RtReceive, FrameAtFront, Wire, OwnHead, OwnPayload
    <2>2. working' # {} /\ pc'["http"] # "payload"
      <3>1. toRt[1].mid \in working' /\ UNCHANGED pc
        BY <1>14 DEF RtReceive, bridge
      <3>. QED
        BY <1>2, <2>1, <3>1 DEF Wire, OwnHead, OwnPayload
    <2>3. UNCHANGED <<fromRt, linkUp, left>>
      BY <1>14 DEF RtReceive
    <2>. QED
      BY <1>2, <2>2, <2>3 DEF UnderWay, Undisturbed, Plain, Arriving
  <1>15. CASE RtGarbage
    <2>1. toRt = <<OwnPayload>>
      BY <1>2, <1>15 DEF RtGarbage, FrameAtFront, Wire, OwnHead, OwnPayload
    <2>2. pc["http"] \in {"wait", "asleep"}
      BY <1>2, <2>1 DEF Wire, OwnHead, OwnPayload
    <2>3. working = {} /\ Arriving = {} /\ ~Handling /\ g_op # NONE
      BY <1>2, <2>1 DEF Copies
    <2>4. ~Undisturbed
      BY <1>2, <2>1, <2>2, <2>3 DEF UnderWay, Undisturbed, Plain
    <2>5. UNCHANGED <<pc, fromRt, linkUp, left>>
      BY <1>15 DEF RtGarbage, bridge
    <2>. QED
      BY <1>2, <2>2, <2>4, <2>5 DEF UnderWay, Undisturbed, Plain, Arriving
  <1>16. CASE BreakBetween
    <2>1. PICK k \in 0 .. Len(fromRt) : fromRt' = SubSeq(fromRt, 1, k)
      BY <1>16 DEF BreakBetween
    <2>2. \A i \in DOMAIN fromRt' : i \in DOMAIN fromRt /\ fromRt'[i] = fromRt[i]
      BY <1>1, <2>1, PrefixElements
    <2>3. /\ left'["break"] = left["break"] - 1 /\ left["break"] \in Nat \ {0}
          /\ left'["event"] = left["event"]
      BY <1>1, <1>16 DEF BreakBetween, Spend
    <2>4. left'["break"] # MaxBreak /\ left'["break"] <= MaxBreak
      BY <1>1, <1>2, <2>3 DEF UnderWay
    <2>. QED
      BY <1>2, <2>2, <2>3, <2>4 DEF UnderWay, Undisturbed, Plain, Arriving
  <1>17. CASE RtRespond
    <2>1. PICK m \in working, ok \in BOOLEAN, body \in {"own", "none"} :
             /\ working' = working \ {m}
             /\ fromRt' = IF linkUp THEN Append(fromRt, Response(m, ok, body)) ELSE fromRt
      BY <1>17 DEF RtRespond
    <2>2. UNCHANGED <<pc, mid, toRt, linkUp, left>>
      BY <1>17 DEF RtRespond, bridge
    <2>3. pc["http"] \in {"wait", "asleep"}
      BY <1>2, <2>1 DEF Copies
    <2>4. \A i \in DOMAIN fromRt' : \/ i = Len(fromRt) + 1 /\ fromRt'[i].kind = "response"
                                    \/ i \in DOMAIN fromRt /\ fromRt'[i] = fromRt[i]
      BY <1>1, <2>1 DEF Response, Message
    <2>5. linkUp => Arriving' # {}
      BY <1>1, <2>1 DEF Arriving, Response, Message
    <2>6. left["event"] = MaxEvent => \A i \in DOMAIN fromRt' : i \in Arriving'
      BY <1>2, <2>4 DEF UnderWay, Arriving
    <2>. QED
      BY <1>2, <2>2, <2>3, <2>5, <2>6 DEF UnderWay, Undisturbed, Plain
  <1>18. CASE RtEvent
    <2>1. /\ left'["event"] = left["event"] - 1 /\ left["event"] \in Nat \ {0}
          /\ left'["break"] = left["break"] /\ UNCHANGED linkUp
      BY <1>1, <1>18 DEF RtEvent, Spend
    <2>2. left'["event"] # MaxEvent /\ left'["event"] <= MaxEvent
      BY <1>1, <1>2, <2>1 DEF UnderWay
    <2>. QED
      BY <1>2, <2>1, <2>2 DEF UnderWay, Undisturbed, Plain
  <1>19. CASE UNCHANGED vars
    BY <1>2, <1>19 DEF vars, UnderWay, Undisturbed, Plain, Arriving, Handling, OwnHead, OwnPayload,
                       wires, shared
  <1>. QED
    BY <1>3, <1>4, <1>5, <1>6, <1>7, <1>8, <1>9, <1>10, <1>11, <1>12, <1>13, <1>14,
       <1>15, <1>16, <1>17, <1>18, <1>19, RestSteps

-----------------------------------------------------------------------------
(* The histories: what was answered and what was published.                  *)
Histories == ReplyIsOwn /\ ModuleEventsRight /\ AnnouncedBeforeReply

(* How the histories grow. *)
LEMMA HistoriesGrow ==
    ASSUME IInv, Flow, Plain, Plain', [Next]_vars
    PROVE  /\ reqs' = reqs \/ \E op \in RestOps : reqs' = Append(reqs, op)
           /\ modEvents' = modEvents \/ Announce
           /\ \/ replies' = replies
              \/ \E to, code : Refuse(to, code) /\ code # "runtime"
              \/ Reply /\ last_str # NULL
  <1>1. CASE \E op \in RestOps : HttpStart(op)
    BY <1>1 DEF HttpStart, NewRequest
  <1>2. CASE HttpReject \/ HttpCrash \/ HttpBadMethod
    BY <1>2 DEF HttpReject, HttpCrash, HttpBadMethod, history
  <1>3. CASE RequestSentMid("http") \/ RequestSentOp("http") \/ SendChunk("http")
    BY <1>3 DEF RequestSentMid, RequestSentOp, SendChunk, history
  <1>4. CASE SendFails("http")
    BY <1>4 DEF SendFails
  <1>5. CASE WaitTest \/ SpuriousWakeup \/ Free \/ PollMqtt \/ IgnorePublish \/ PoolDone
    BY <1>5 DEF WaitTest, SpuriousWakeup, Free, PollMqtt, IgnorePublish, PoolDone, history
  <1>6. CASE Reply
    BY <1>6 DEF Reply
  <1>7. CASE Announce
    BY <1>7 DEF Announce
  <1>8. CASE \/ ReadWhole \/ GetMid \/ GetOp \/ NothingToAnnounce \/ OutputStatus \/ OutputStr
             \/ Received \/ Reconnect \/ GiveUp
    BY <1>8 DEF ReadWhole, Handle, afterRead, GetMid, GetOp, NothingToAnnounce, OutputStatus, OutputStr, Received,
                Reconnect, GiveUp, history
  <1>9. CASE RtReceive \/ RtGarbage \/ RtRespond \/ RtEvent \/ Publish \/ BreakBetween
    BY <1>9 DEF RtReceive, RtGarbage, RtRespond, RtEvent, Publish, BreakBetween, bridge
  <1>10. CASE UNCHANGED vars
    BY <1>10 DEF vars, history
  <1>. QED
    BY <1>1, <1>2, <1>3, <1>4, <1>5, <1>6, <1>7, <1>8, <1>9, <1>10, RestSteps

(* A request keeps its operation. *)
LEMMA RequestsKept ==
    ASSUME TypeOK, NEW op, reqs' = Append(reqs, op)
    PROVE  \A k \in DOMAIN reqs : k \in DOMAIN reqs' /\ reqs'[k] = reqs[k]
  BY DEF TypeOK

(* The last answer is the new one, the others are the old ones. *)
LEMMA RepliesKept ==
    ASSUME TypeOK, NEW r, replies' = Append(replies, r)
    PROVE  \A i \in DOMAIN replies' : \/ i \in DOMAIN replies /\ replies'[i] = replies[i]
                                      \/ replies'[i] = r
  BY DEF TypeOK

(* Right answers and right events, and the events first. *)
LEMMA HistoriesStep ==
    ASSUME IInv, Flow, Histories, Plain, Plain', [Next]_vars
    PROVE  Histories'
  <1> USE DEF own, inward
  <1>1. TypeOK
    BY DEF IInv
  <1>2. reqs' = reqs \/ \A k \in DOMAIN reqs : k \in DOMAIN reqs' /\ reqs'[k] = reqs[k]
    BY <1>1, HistoriesGrow, RequestsKept
  <1>3. modEvents \subseteq modEvents'
    BY HistoriesGrow DEF Announce
  <1>4. ASSUME Reply, last_str # NULL
        PROVE  \E r : /\ replies' = Append(replies, r)
                      /\ r.code = "runtime" /\ r.to = own /\ r.status = last_status /\ r.body = last_str
    <2>1. replies' = Append(replies, [to |-> mid["http"], code |-> "runtime",
                                      status |-> last_status, body |-> last_str])
      BY <1>4 DEF Reply
    <2>. QED
      BY <2>1
  <1>5. ASSUME NEW to, NEW code, Refuse(to, code), code # "runtime"
        PROVE  \E r : replies' = Append(replies, r) /\ r.code # "runtime"
    <2>1. replies' = Append(replies, [to |-> to, code |-> code, status |-> NoStatus, body |-> NULL])
      BY <1>5 DEF Refuse
    <2>. QED
      BY <1>5, <2>1
  <1>6. \/ replies' = replies
        \/ \E r : replies' = Append(replies, r) /\ r.code # "runtime"
        \/ \E r : /\ replies' = Append(replies, r) /\ last_str # NULL
                  /\ r.code = "runtime" /\ r.to = own /\ r.status = last_status /\ r.body = last_str
    BY <1>4, <1>5, HistoriesGrow
  <1>7. last_str # NULL => /\ last_str = OwnText /\ own \in DOMAIN reqs /\ own # 0
                           /\ last_status.mid = own
                           /\ last_status.ok => IsAnnounced(own)
    BY <1>1 DEF Flow, Result, Announced, TypeOK
  <1>8. ReplyIsOwn'
    <2>1. CASE replies' = replies
      BY <2>1 DEF Histories, ReplyIsOwn, Plain
    <2>2. ASSUME NEW r, replies' = Append(replies, r), r.code # "runtime" PROVE ReplyIsOwn'
      BY <1>1, <2>2, RepliesKept DEF Histories, ReplyIsOwn, Plain
    <2>3. ASSUME NEW r, replies' = Append(replies, r), last_str # NULL, r.code = "runtime",
                 r.to = own, r.status = last_status, r.body = last_str
          PROVE  ReplyIsOwn'
      <3>1. r.to # 0 /\ r.status.mid = r.to /\ r.body = [mid |-> r.to, mixed |-> FALSE]
        BY <1>7, <2>3 DEF OwnText
      <3>2. \A i \in DOMAIN replies' : replies'[i] = r \/ (i \in DOMAIN replies /\ replies'[i] = replies[i])
        BY <1>1, <2>3, RepliesKept
      <3>3. ~torn
        BY DEF Plain
      <3>. QED
        BY <3>1, <3>2, <3>3 DEF Histories, ReplyIsOwn
    <2>. QED
      BY <1>6, <2>1, <2>2, <2>3
  <1>9. ModuleEventsRight'
    <2>1. CASE modEvents' = modEvents
      BY <1>2, <2>1 DEF Histories, ModuleEventsRight, Plain
    <2>2. CASE Announce
      <3>1. rop = reqs[own] /\ resp.mid = own /\ own \in DOMAIN reqs
        BY <2>2, InHands DEF Announce, Handling, Flow, Locals
      <3>2. modEvents' = modEvents \cup {[event |-> rop, mid |-> resp.mid]} /\ reqs' = reqs
        BY <2>2 DEF Announce
      <3>. QED
        BY <3>1, <3>2 DEF Histories, ModuleEventsRight, Plain
    <2>. QED
      BY <2>1, <2>2, HistoriesGrow
  <1>10. AnnouncedBeforeReply'
    <2>1. \A i \in DOMAIN replies : replies[i].to # 0 => replies[i].to \in DOMAIN reqs
      BY DEF Flow, Answered
    <2>2. \A i \in DOMAIN replies :
             LET r == replies[i]
             IN  r.code = "runtime" /\ r.to # 0 /\ r.status.ok /\ reqs'[r.to] # "QUERY"
                    => [event |-> reqs'[r.to], mid |-> r.to] \in modEvents'
      BY <1>2, <1>3, <2>1 DEF Histories, AnnouncedBeforeReply, Plain
    <2>3. CASE replies' = replies
      BY <2>2, <2>3 DEF AnnouncedBeforeReply, Plain
    <2>4. ASSUME NEW r, replies' = Append(replies, r), r.code # "runtime"
          PROVE  AnnouncedBeforeReply'
      BY <1>1, <2>2, <2>4, RepliesKept DEF AnnouncedBeforeReply, Plain
    <2>5. ASSUME NEW r, replies' = Append(replies, r), last_str # NULL, r.code = "runtime",
                 r.to = own, r.status = last_status, r.body = last_str
          PROVE  AnnouncedBeforeReply'
      <3>1. last_status.ok /\ reqs'[own] # "QUERY" =>
               [event |-> reqs'[own], mid |-> own] \in modEvents'
        BY <1>2, <1>3, <1>7, <2>5 DEF IsAnnounced
      <3>. QED
        <4>1. \A i \in DOMAIN replies' : replies'[i] = r \/ (i \in DOMAIN replies /\ replies'[i] = replies[i])
          BY <1>1, <2>5, RepliesKept
        <4>. QED
          BY <2>2, <2>5, <3>1, <4>1 DEF AnnouncedBeforeReply
    <2>. QED
      BY <1>6, <2>3, <2>4, <2>5
  <1>. QED
    BY <1>8, <1>9, <1>10 DEF Histories

-----------------------------------------------------------------------------
(* Nothing has happened yet. *)
LEMMA RestInit == Init => Flow /\ Histories
  <1>. SUFFICES ASSUME Init PROVE Flow /\ Histories
    OBVIOUS
  <1> USE DEF Init, Threads
  <1>2. pc["http"] = "idle" /\ pc["main"] = "select" /\ own = 0
    BY DEF own
  <1>3. MainSilent /\ Wire /\ Current /\ Locals /\ Result
    BY <1>2 DEF MainSilent, Wire, Current, Locals, Result, OwnHead, OwnPayload, NONE
  <1>4. Copies /\ Announced
    BY <1>2 DEF Copies, Announced, Arriving, Handling
  <1>5. Answered
    BY <1>2 DEF Answered
  <1>6. UnderWay
    <2>1. MaxBreak \in Nat /\ MaxEvent \in Nat
      BY BoundsAssumption
    <2>. QED
      BY <1>2, <2>1 DEF UnderWay, Arriving
  <1>7. Histories
    BY DEF Histories, ReplyIsOwn, ModuleEventsRight, AnnouncedBeforeReply
  <1>. QED
    BY <1>3, <1>4, <1>5, <1>6, <1>7 DEF Flow

(* What was forwarded stays forwarded. *)
LEMMA ForwardedForever ==
    ASSUME IInv, [Next]_vars, NothingForwarded'
    PROVE  NothingForwarded
  <1>1. reqs' = reqs \/ \E op : reqs' = Append(reqs, op)
    <2>1. CASE (\E op \in RestOps : HttpStart(op)) \/ ForwardPublish
      BY <2>1 DEF HttpStart, ForwardPublish, NewRequest
    <2>2. CASE HttpReject \/ HttpCrash \/ HttpBadMethod
      BY <2>2 DEF HttpReject, HttpCrash, HttpBadMethod, history
    <2>3. CASE \E t \in Threads : RequestSentMid(t) \/ RequestSentOp(t) \/ SendChunk(t) \/ SendFails(t)
      BY <2>3 DEF RequestSentMid, RequestSentOp, SendChunk, SendFails, history
    <2>4. CASE WaitTest \/ SpuriousWakeup \/ Reply \/ Free \/ PollMqtt \/ IgnorePublish \/ PoolDone
      BY <2>4 DEF WaitTest, SpuriousWakeup, Reply, Free, PollMqtt, IgnorePublish, PoolDone, history
    <2>7. CASE ReadLink \/ ReadCut \/ ReadGarbled \/ ReadSwallowed
      BY <2>7, ReadStep DEF IInv
    <2>5. CASE \/ GetMid \/ GetOp \/ Mismatch \/ Announce \/ NothingToAnnounce
               \/ OutputStatus \/ OutputStr \/ Received \/ Reconnect \/ GiveUp
      BY <2>5 DEF GetMid, GetOp, Mismatch, Announce, NothingToAnnounce, OutputStatus,
                  OutputStr, Received, Reconnect, GiveUp, history
    <2>6. CASE \/ RtReceive \/ RtGarbage \/ RtRespond \/ RtNoAnswer \/ RtEvent \/ Publish
               \/ LinkBreak \/ UNCHANGED vars
      BY <2>6 DEF RtReceive, RtGarbage, RtRespond, RtNoAnswer, RtEvent, Publish, LinkBreak,
                  bridge, vars, history
    <2>. QED
      BY <2>1, <2>2, <2>3, <2>4, <2>5, <2>6, <2>7, NextSteps
  <1>2. \A k \in DOMAIN reqs : k \in DOMAIN reqs' /\ reqs'[k] = reqs[k]
    BY <1>1, RequestsKept DEF IInv
  <1>. QED
    BY <1>2 DEF NothingForwarded

(* ... and what was torn apart stays torn. *)
LEMMA PlainBefore ==
    ASSUME IInv, [Next]_vars, Plain'
    PROVE  Plain
  BY ForwardedForever, TornStep DEF Plain, IInv, TypeOK

(* The inductive invariant holds as long as nothing was forwarded or torn.   *)
LEMMA RestInvariant == Spec => [](Plain => Flow /\ Histories)
  <1> DEFINE RestInv == Plain => Flow /\ Histories
  <1>1. Init => RestInv
    BY RestInit
  <1>2. IInv /\ RestInv /\ [Next]_vars => RestInv'
    <2>1. SUFFICES ASSUME IInv, RestInv, [Next]_vars, Plain'
                   PROVE  Flow' /\ Histories'
      OBVIOUS
    <2>2. Plain /\ Flow /\ Histories
      BY <2>1, PlainBefore
    <2>3. MainSilent' /\ Wire' /\ Copies' /\ Current' /\ Locals' /\ Result' /\ Announced'
             /\ Answered' /\ UnderWay'
      BY <2>1, <2>2, MainSilentStep, WireStep, CopiesStep, CurrentStep, LocalsStep, ResultStep,
         AnnouncedStep, AnsweredStep, UnderWayStep
    <2>4. Histories'
      BY <2>1, <2>2, HistoriesStep
    <2>. QED
      BY <2>3, <2>4 DEF Flow
  <1>. HIDE DEF RestInv
  <1>3. Spec => []RestInv
    BY <1>1, <1>2, InductiveInvariant, PTL DEF Spec
  <1>. QED
    BY <1>3, PTL DEF RestInv

(* Without publishes, nothing is ever forwarded. *)
LEMMA NoPublishes ==
    ASSUME MaxPublish = 0
    PROVE  Spec => []NothingForwarded
  <1> DEFINE Quiet == inbox = 0 /\ left["publish"] = 0 /\ NothingForwarded
  <1>1. Init => Quiet
    BY DEF Init, NothingForwarded
  <1>2. ASSUME IInv, Quiet, [Next]_vars PROVE Quiet'
    <2>1. TypeOK /\ left \in [{"http", "publish", "event", "break"} -> Nat]
      BY <1>2 DEF IInv, TypeOK
    <2>2. CASE \E op \in RestOps : HttpStart(op)
      <3>1. PICK op \in RestOps : HttpStart(op)
        BY <2>2
      <3>2. inbox' = 0 /\ left'["publish"] = 0 /\ reqs' = Append(reqs, op) /\ op # "REQUEST"
        BY <1>2, <2>1, <3>1 DEF HttpStart, NewRequest, Spend, RestOps
      <3>3. \A k \in DOMAIN reqs' : reqs'[k] = op \/ (k \in DOMAIN reqs /\ reqs'[k] = reqs[k])
        BY <2>1, <3>2 DEF TypeOK
      <3>. QED
        BY <1>2, <3>2, <3>3 DEF NothingForwarded
    <2>3. CASE HttpReject \/ HttpCrash \/ HttpBadMethod \/ RtEvent \/ LinkBreak
      <3>1. inbox' = 0 /\ left'["publish"] = 0 /\ reqs' = reqs
        BY <1>2, <2>1, <2>3 DEF HttpReject, HttpCrash, HttpBadMethod, RtEvent, LinkBreak, Spend, bridge, history
      <3>. QED
        BY <1>2, <3>1 DEF NothingForwarded
    <2>4. CASE ForwardPublish \/ IgnorePublish \/ Publish
      BY <1>2, <2>4 DEF ForwardPublish, IgnorePublish, Publish, Spend
    <2>5. CASE \E t \in Threads : RequestSentMid(t) \/ RequestSentOp(t) \/ SendChunk(t) \/ SendFails(t)
      BY <1>2, <2>5 DEF RequestSentMid, RequestSentOp, SendChunk, SendFails, history, NothingForwarded
    <2>6. CASE WaitTest \/ SpuriousWakeup \/ Reply \/ Free \/ PollMqtt \/ PoolDone
      BY <1>2, <2>6 DEF WaitTest, SpuriousWakeup, Reply, Free, PollMqtt, PoolDone, history,
                        NothingForwarded
    <2>9. CASE ReadLink \/ ReadCut \/ ReadGarbled \/ ReadSwallowed
      BY <1>2, <2>1, <2>9, ReadStep DEF NothingForwarded
    <2>7. CASE \/ GetMid \/ GetOp \/ Mismatch \/ Announce \/ NothingToAnnounce
               \/ OutputStatus \/ OutputStr \/ Received \/ Reconnect \/ GiveUp
      BY <1>2, <2>7 DEF GetMid, GetOp, Mismatch, Announce, NothingToAnnounce, OutputStatus,
                        OutputStr, Received, Reconnect, GiveUp, history, NothingForwarded
    <2>8. CASE RtReceive \/ RtGarbage \/ RtRespond \/ RtNoAnswer \/ UNCHANGED vars
      BY <1>2, <2>8 DEF RtReceive, RtGarbage, RtRespond, RtNoAnswer, bridge, vars, history,
                        NothingForwarded
    <2>. QED
      BY <1>2, <2>2, <2>3, <2>4, <2>5, <2>6, <2>7, <2>8, <2>9, NextSteps
  <1>3. Quiet => NothingForwarded
    OBVIOUS
  <1>. HIDE DEF Quiet
  <1>. QED
    BY <1>1, <1>2, <1>3, InductiveInvariant, PTL DEF Spec

-----------------------------------------------------------------------------
(* A REST client gets the status and the text of its own request, however    *)
(* the two threads interleave, whatever messages are swallowed and however   *)
(* often the link is lost between two of them, until the first MQTT publish  *)
(* is forwarded or a message is torn apart (http.c, runtime_request.c).      *)
THEOREM RestReplyIsOwn == Spec => [](NothingForwarded => ReplyIsOwn)
  <1>1. (Plain => Flow /\ Histories) => (NothingForwarded => ReplyIsOwn)
    BY DEF Histories, Plain, ReplyIsOwn, ModuleEventsRight, AnnouncedBeforeReply
  <1>. QED
    BY <1>1, RestInvariant, PTL

(* ... main takes the exit for unexpected responses only after a message was *)
(* torn apart: else the message id it reads without the lock                 *)
(* (runtime_request.c) is that of the response.                              *)
THEOREM RestReturnsWhenTorn == Spec => [](NothingForwarded => ReturnsWhenTorn)
  <1>1. (Plain => Flow /\ Histories) => (NothingForwarded => ReturnsWhenTorn)
    BY DEF Flow, MainSilent, NeverReturns, ReturnsWhenTorn, Plain
  <1>. QED
    BY <1>1, RestInvariant, PTL

(* ... every module event is that of a request of its kind, and ...          *)
THEOREM RestModuleEventsRight == Spec => [](NothingForwarded => ModuleEventsRight)
  <1>1. (Plain => Flow /\ Histories) => (NothingForwarded => ModuleEventsRight)
    BY DEF Histories, Plain, ReplyIsOwn, ModuleEventsRight, AnnouncedBeforeReply
  <1>. QED
    BY <1>1, RestInvariant, PTL

(* ... a client that is told of a success is told after its module event.    *)
THEOREM RestAnnouncedBeforeReply == Spec => [](NothingForwarded => AnnouncedBeforeReply)
  <1>1. (Plain => Flow /\ Histories) => (NothingForwarded => AnnouncedBeforeReply)
    BY DEF Histories, Plain, ReplyIsOwn, ModuleEventsRight, AnnouncedBeforeReply
  <1>. QED
    BY <1>1, RestInvariant, PTL

(* ... each request has had one answer, neither none nor two, when the HTTP  *)
(* thread takes the next.                                                    *)
THEOREM RestOneAnswer == Spec => [](NothingForwarded => OneAnswer)
  <1>1. (Plain => Flow /\ Histories) => (NothingForwarded => OneAnswer)
    <2>1. SUFFICES ASSUME Flow, pc["http"] = "idle", NEW k \in DOMAIN reqs
                   PROVE  Cardinality({i \in DOMAIN replies : replies[i].to = k}) = 1
      BY DEF OneAnswer, Plain
    <2>2. PICK i \in DOMAIN replies : \A j \in DOMAIN replies : replies[j].to = k <=> j = i
      BY <2>1 DEF Flow, Answered, AnsweredOnce
    <2>3. {j \in DOMAIN replies : replies[j].to = k} = {i}
      BY <2>2
    <2>. QED
      BY <2>3, FS_Singleton
  <1>. QED
    BY <1>1, RestInvariant, PTL

(* ... and the HTTP thread never sleeps for a response nothing can bring.    *)
THEOREM RestNoOrphanSleeper == Spec => [](NothingForwarded => NoOrphanSleeper)
  <1>1. IInv /\ (Plain => Flow /\ Histories) => (NothingForwarded => NoOrphanSleeper)
    <2>1. SUFFICES ASSUME IInv, Flow, pc["http"] = "asleep", Undisturbed
                   PROVE  \/ \E i \in DOMAIN toRt : toRt[i] = OwnPayload
                          \/ own \in working
                          \/ \E i \in DOMAIN fromRt : fromRt[i].mid = own
                          \/ resp.mid = own /\ Handling
      BY DEF NoOrphanSleeper, Undisturbed, Plain, own, OwnPayload, Handling
    <2>2. g_op # NONE
      BY <2>1 DEF IInv, NoLostWakeup
    <2>3. toRt = <<OwnHead, OwnPayload>> \/ working # {} \/ Arriving # {} \/ Handling
      BY <2>1, <2>2 DEF Flow, UnderWay
    <2>4. CASE toRt = <<OwnHead, OwnPayload>>
      <3>1. 2 \in DOMAIN toRt /\ toRt[2] = OwnPayload
        BY <2>4
      <3>. QED
        BY <3>1
    <2>5. CASE working # {} \/ Arriving # {} \/ Handling
      BY <2>1, <2>5 DEF Flow, Copies, Arriving
    <2>. QED
      BY <2>3, <2>4, <2>5
  <1>. QED
    BY <1>1, InductiveInvariant, RestInvariant, PTL

-----------------------------------------------------------------------------
(* PART 3. The refinement of RestService.                                    *)

(* The abstract state is that of a few variables: a step that leaves them    *)
(* alone is none of the service.                                             *)
LEMMA Stutter ==
    ASSUME Plain, Plain', UNCHANGED <<mid, reqs, replies>>,
           pc["http"] \in {"idle", "crashed"} <=> pc'["http"] \in {"idle", "crashed"},
           left'["break"] = left["break"], left'["event"] = left["event"]
    PROVE  UNCHANGED Rest!svars
  <1>1. UNCHANGED kept
    BY DEF kept, Undisturbed, Plain
  <1>. QED
    BY <1>1 DEF Rest!svars, serving, answered, AbstractReply

(* While nothing is torn apart the promise is kept, if not promptly. *)
LEMMA KeptInPlain ==
    ASSUME Plain
    PROVE  kept # "none" /\ (Undisturbed => kept = "prompt") /\ (~Undisturbed => kept = "own")
  BY DEF Plain, kept

(* A new answer is a new abstract answer. *)
LEMMA AnswerAppended ==
    ASSUME TypeOK, NEW r, replies' = Append(replies, r)
    PROVE  answered' = Append(answered, AbstractReply(r))
  <1> DEFINE S == {AbstractReply(x) : x \in Replies \cup {r}}
  <1>1. replies \in Seq(Replies) /\ Len(replies) \in Nat /\ DOMAIN replies = 1 .. Len(replies)
    BY DEF TypeOK
  <1>2. /\ Len(replies') = Len(replies) + 1 /\ DOMAIN replies' = 1 .. Len(replies) + 1
        /\ replies'[Len(replies) + 1] = r
        /\ \A i \in DOMAIN replies : replies'[i] = replies[i]
    BY <1>1
  <1>3. answered \in Seq(S) /\ Len(answered) = Len(replies)
    <2>1. \A i \in 1 .. Len(replies) : AbstractReply(replies[i]) \in S
      BY <1>1
    <2>. QED
      BY <1>1, <2>1 DEF answered
  <1>4. answered' \in Seq(S) /\ Len(answered') = Len(replies) + 1
    <2>1. \A i \in 1 .. Len(replies) + 1 : AbstractReply(replies'[i]) \in S
      BY <1>1, <1>2
    <2>. QED
      BY <1>1, <1>2, <2>1 DEF answered
  <1>5. AbstractReply(r) \in S
    OBVIOUS
  <1> HIDE DEF S
  <1>6. /\ Append(answered, AbstractReply(r)) \in Seq(S)
        /\ Len(Append(answered, AbstractReply(r))) = Len(replies) + 1
    BY <1>1, <1>3, <1>5
  <1>7. \A i \in 1 .. Len(replies) + 1 : answered'[i] = Append(answered, AbstractReply(r))[i]
    BY <1>1, <1>2, <1>3, <1>5 DEF answered
  <1>. QED
    BY <1>4, <1>6, <1>7, SeqEqual

(* An answer to the request in the works ends its service, and one to nobody *)
(* comes between two.                                                        *)
LEMMA AnswerStep ==
    ASSUME TypeOK, Plain, Plain', NEW r, replies' = Append(replies, r), UNCHANGED <<reqs, left>>,
           pc'["http"] = "idle" \/ mid'["http"] = r.to,
           ~r.body.mixed, r.body.mixed \in BOOLEAN,
           \/ r.to # 0 /\ serving = r.to /\ r.body.mid \in {0, r.to}
           \/ r.to = 0 /\ serving = 0 /\ r.body.mid = 0
    PROVE  Rest!SNext
  <1>1. answered' = Append(answered, [to |-> r.to, body |-> r.body.mid, mixed |-> FALSE])
    BY AnswerAppended DEF AbstractReply
  <1>2. serving' = 0
    <2>1. Len(replies) + 1 \in DOMAIN replies' /\ replies'[Len(replies) + 1] = r
      BY DEF TypeOK
    <2>. QED
      BY <2>1 DEF serving
  <1>3. UNCHANGED <<Len(reqs), kept>> /\ kept # "none"
    BY KeptInPlain DEF kept, Undisturbed, Plain
  <1>4. CASE r.to # 0
    BY <1>1, <1>2, <1>3, <1>4 DEF Rest!SNext, Rest!Kept, Rest!Answer
  <1>5. CASE r.to = 0
    BY <1>1, <1>2, <1>3, <1>5 DEF Rest!SNext, Rest!Kept, Rest!TurnAway
  <1>. QED
    BY <1>4, <1>5

(* What is being served, where the HTTP thread answers. *)
LEMMA Served ==
    ASSUME NoAnswer(own), pc["http"] \notin {"idle", "crashed"}
    PROVE  serving = own
  BY DEF NoAnswer, own, serving

(* Step by step. *)
LEMMA RefinementStep ==
    ASSUME IInv, Flow, Plain, Plain', Flow', [Next]_vars
    PROVE  Rest!SNext \/ UNCHANGED Rest!svars
  <1>1. TypeOK /\ mid \in [Threads -> Nat] /\ reqs \in Seq(Ops) /\ replies \in Seq(Replies)
           /\ left \in [{"http", "publish", "event", "break"} -> Nat]
           /\ MaxBreak \in Nat /\ MaxEvent \in Nat
    BY BoundsAssumption DEF IInv, TypeOK
  <1>2. Answered /\ Answered' /\ Result /\ UnderWay
    BY DEF Flow
  <1>3. ASSUME NEW op \in RestOps, HttpStart(op) PROVE Rest!SNext
    <2>1. pc["http"] = "idle" /\ pc'["http"] = "register" /\ replies' = replies
             /\ reqs' = Append(reqs, op) /\ mid'["http"] = Len(reqs) + 1
             /\ left'["break"] = left["break"] /\ left'["event"] = left["event"]
      BY <1>1, <1>3, HttpMoves DEF HttpStart, NewRequest, gen_random_id, Spend, Threads
    <2>2. serving = 0 /\ Len(reqs') = Len(reqs) + 1
      BY <1>1, <2>1 DEF serving
    <2>3. NoAnswer(own)'
      BY <1>2, <2>1 DEF Answered
    <2>4. serving' = Len(reqs) + 1
      BY <2>1, <2>3 DEF NoAnswer, own, serving
    <2>5. UNCHANGED <<answered, kept>> /\ kept # "none"
      BY <2>1, KeptInPlain DEF answered, kept, Undisturbed, Plain
    <2>. QED
      BY <2>2, <2>4, <2>5 DEF Rest!SNext, Rest!Kept, Rest!Submit
  <1>4. CASE HttpReject \/ HttpBadMethod
    <2>1. PICK code : Refuse(0, code)
      BY <1>4 DEF HttpReject, HttpBadMethod
    <2> DEFINE r == [to |-> 0, code |-> code, status |-> NoStatus, body |-> NULL]
    <2>2. replies' = Append(replies, r) /\ r.to = 0 /\ r.body = NULL
      BY <2>1 DEF Refuse
    <2>3. serving = 0 /\ reqs' = reqs
      BY <1>4 DEF HttpReject, HttpBadMethod, serving
    <2>4. serving' = 0
      <3>1. CASE HttpReject
        <4>1. mid'["http"] = 0
          BY <1>1, <3>1 DEF HttpReject, Threads
        <4>2. Len(replies) + 1 \in DOMAIN replies' /\ replies'[Len(replies) + 1] = r
          BY <1>1, <2>2
        <4>. QED
          BY <2>2, <4>1, <4>2 DEF serving
      <3>2. CASE HttpBadMethod
        BY <3>2 DEF HttpBadMethod, serving
      <3>. QED
        BY <1>4, <3>1, <3>2
    <2>5. left'["break"] = left["break"] /\ left'["event"] = left["event"]
      BY <1>1, <1>4 DEF HttpReject, HttpBadMethod, Spend
    <2>6. answered' = Append(answered, [to |-> 0, body |-> 0, mixed |-> FALSE])
      BY <1>1, <2>2, AnswerAppended DEF AbstractReply, NULL
    <2>7. UNCHANGED kept /\ kept # "none"
      BY <2>5, KeptInPlain DEF kept, Undisturbed, Plain
    <2>. QED
      BY <2>3, <2>4, <2>6, <2>7 DEF Rest!SNext, Rest!Kept, Rest!TurnAway
  <1>5. CASE RequestSentMid("http") \/ RequestSentOp("http") \/ SendChunk("http")
    <2>1. /\ UNCHANGED <<mid, reqs, replies, left>>
          /\ pc["http"] \notin {"idle", "crashed"} /\ pc'["http"] \notin {"idle", "crashed"}
      BY <1>1, <1>5, HttpMoves DEF RequestSentMid, RequestSentOp, SendChunk, AfterSend, history
    <2>. QED
      BY <2>1, Stutter
  <1>6. CASE SendFails("http")
    <2>1. UNCHANGED <<mid, reqs, left>> /\ pc["http"] \in {"head", "payload"} /\ pc'["http"] = "wait"
      BY <1>1, <1>6, HttpMoves DEF SendFails, AfterSend
    <2>2. CASE UNCHANGED replies
      BY <2>1, <2>2, Stutter
    <2>3. CASE Refuse(own, "400")
      <3> DEFINE r == [to |-> own, code |-> "400", status |-> NoStatus, body |-> NULL]
      <3>1. replies' = Append(replies, r) /\ r.to = own /\ r.body.mid = 0 /\ r.body.mixed = FALSE
        BY <2>3 DEF Refuse, NULL
      <3>2. serving = own /\ own # 0 /\ mid'["http"] = own
        <4>1. NoAnswer(own) /\ own \in DOMAIN reqs
          BY <1>2, <2>1 DEF Answered, Flow, Current
        <4>. QED
          BY <1>1, <2>1, <4>1, Served DEF own
      <3> HIDE DEF r
      <3>. QED
        BY <1>1, <2>1, <3>1, <3>2, AnswerStep
    <2>. QED
      BY <1>6, <2>2, <2>3 DEF SendFails, own
  <1>7. CASE WaitTest \/ SpuriousWakeup
    <2>1. /\ UNCHANGED <<mid, reqs, replies, left>>
          /\ pc["http"] \notin {"idle", "crashed"} /\ pc'["http"] \notin {"idle", "crashed"}
      BY <1>1, <1>7, HttpMoves DEF WaitTest, SpuriousWakeup, history
    <2>. QED
      BY <2>1, Stutter
  <1>8. CASE Reply
    <2>1. pc["http"] = "reply" /\ UNCHANGED <<mid, reqs, left>>
      BY <1>8 DEF Reply
    <2>2. PICK r : replies' = Append(replies, r) /\ r.to = own /\ r.body = last_str
      <3>1. CASE last_str # NULL
        <4> DEFINE q == [to |-> mid["http"], code |-> "runtime", status |-> last_status,
                         body |-> last_str]
        <4>1. replies' = Append(replies, q) /\ q.to = own /\ q.body = last_str
          BY <1>8, <3>1 DEF Reply, own
        <4>. QED
          BY <4>1
      <3>2. CASE last_str = NULL
        <4> DEFINE q == [to |-> mid["http"], code |-> "500", status |-> NoStatus, body |-> NULL]
        <4>1. replies' = Append(replies, q) /\ q.to = own /\ q.body = last_str
          BY <1>8, <3>2 DEF Reply, Refuse, own
        <4>. QED
          BY <4>1
      <3>. QED
        BY <3>1, <3>2
    <2>3. last_str.mid \in {0, own} /\ last_str.mixed = FALSE /\ mid'["http"] = own
             /\ (own = 0 => last_str.mid = 0)
      BY <1>2, <2>1 DEF Result, own, OwnText, NULL
    <2>4. own # 0 => serving = own
      BY <1>2, <2>1, Served DEF Answered
    <2>5. own = 0 => serving = 0
      BY DEF serving, own
    <2>. QED
      BY <1>1, <2>1, <2>2, <2>3, <2>4, <2>5, AnswerStep
  <1>9. CASE Free
    <2>1. pc["http"] = "free" /\ pc'["http"] = "idle" /\ UNCHANGED <<mid, reqs, replies, left>>
      BY <1>1, <1>9, HttpMoves DEF Free, history
    <2>2. serving = 0
      BY <1>2, <2>1 DEF Answered, AnsweredOnce, serving, own
    <2>3. serving' = 0
      BY <2>1 DEF serving
    <2>4. UNCHANGED kept
      BY <2>1 DEF kept, Undisturbed, Plain
    <2>. QED
      BY <2>1, <2>2, <2>3, <2>4 DEF Rest!svars, answered, AbstractReply
  <1>16. CASE HttpCrash
    <2>1. pc["http"] = "idle" /\ pc'["http"] = "crashed" /\ UNCHANGED <<mid, reqs, replies>>
             /\ left'["break"] = left["break"] /\ left'["event"] = left["event"]
      BY <1>1, <1>16, HttpMoves DEF HttpCrash, Spend, history
    <2>. QED
      BY <2>1, Stutter
  <1>10. CASE Received
    <2>1. /\ UNCHANGED <<mid, reqs, replies, left>>
          /\ pc["http"] \notin {"idle", "crashed"} /\ pc'["http"] \notin {"idle", "crashed"}
      BY <1>1, <1>10, InHands DEF Received, Handling, Signalled, TypeOK, PcOK, Threads, history
    <2>. QED
      BY <2>1, Stutter
  <1>11. CASE \/ PollMqtt \/ PoolDone \/ GetMid \/ GetOp \/ Announce \/ NothingToAnnounce
              \/ OutputStatus \/ OutputStr \/ GiveUp
    <2>1. UNCHANGED <<mid, reqs, replies, left>> /\ pc'["http"] = pc["http"]
      BY <1>1, <1>11, MainMoves
         DEF PollMqtt, PoolDone, GetMid, GetOp, Announce, NothingToAnnounce, OutputStatus,
             OutputStr, GiveUp, history
    <2>. QED
      BY <2>1, Stutter
  <1>12. CASE ReadWhole
    <2>1. UNCHANGED <<mid, reqs, replies, left>> /\ pc'["http"] = pc["http"]
      BY <1>1, <1>12, MainMoves DEF ReadWhole, Handle, afterRead, history
    <2>. QED
      BY <2>1, Stutter
  <1>13. CASE IgnorePublish \/ Reconnect \/ RtReceive \/ RtGarbage \/ RtRespond \/ UNCHANGED vars
    <2>1. UNCHANGED <<mid, reqs, replies, left, pc>>
      BY <1>13 DEF IgnorePublish, Reconnect, RtReceive, RtGarbage, RtRespond, bridge, vars, history
    <2>. QED
      BY <2>1, Stutter
  <1>14. CASE Publish
    <2>1. UNCHANGED <<mid, reqs, replies, pc>> /\ left'["break"] = left["break"]
             /\ left'["event"] = left["event"]
      BY <1>1, <1>14 DEF Publish, Spend, bridge
    <2>. QED
      BY <2>1, Stutter
  <1>15. CASE RtEvent \/ BreakBetween
    <2>1. UNCHANGED <<mid, reqs, replies, pc>>
      BY <1>15 DEF RtEvent, BreakBetween, bridge
    <2>2. ~Undisturbed'
      <3>1. CASE RtEvent
        <4>1. left'["event"] = left["event"] - 1 /\ left["event"] \in Nat \ {0}
          BY <1>1, <3>1 DEF RtEvent, Spend
        <4>. QED
          BY <1>1, <1>2, <4>1 DEF UnderWay, Undisturbed, Plain
      <3>2. CASE BreakBetween
        <4>1. left'["break"] = left["break"] - 1 /\ left["break"] \in Nat \ {0}
          BY <1>1, <3>2 DEF BreakBetween, Spend
        <4>. QED
          BY <1>1, <1>2, <4>1 DEF UnderWay, Undisturbed, Plain
      <3>. QED
        BY <1>15, <3>1, <3>2
    <2>3. kept # "none" /\ kept' = "own"
      BY <2>2, KeptInPlain DEF kept, Plain
    <2>4. UNCHANGED <<Len(reqs), serving, answered>>
      BY <2>1 DEF serving, answered, AbstractReply
    <2>. QED
      BY <2>3, <2>4 DEF Rest!SNext, Rest!Kept, Rest!Weaken
  <1>. QED
    BY <1>3, <1>4, <1>5, <1>6, <1>7, <1>8, <1>9, <1>10, <1>11, <1>12, <1>13, <1>14, <1>15,
       <1>16, RestSteps

(* A step that tears a message apart, and any after it. *)
LEMMA TornRefinement ==
    ASSUME IInv, torn', [Next]_vars
    PROVE  Rest!SNext \/ UNCHANGED Rest!svars
  <1>1. TypeOK
    BY DEF IInv
  <1>2. kept' = "none"
    BY DEF kept
  <1>3. CASE torn
    BY <1>2, <1>3 DEF Rest!SNext, Rest!Void, kept
  <1>4. CASE ~torn
    <2>1. UNCHANGED <<mid, reqs, replies>> /\ pc'["http"] = pc["http"]
      BY <1>1, <1>4, TornStep
    <2>2. UNCHANGED <<Len(reqs), serving, answered>>
      BY <2>1 DEF serving, answered, AbstractReply
    <2>3. kept # "none"
      BY <1>4 DEF kept
    <2>. QED
      BY <1>2, <2>2, <2>3 DEF Rest!SNext, Rest!Kept, Rest!Weaken
  <1>. QED
    BY <1>3, <1>4

(* The two threads, the mutex, the condition variable and the unlocked       *)
(* globals implement the service the REST interface promises: the requests   *)
(* are served one at a time, and each answer is that of the one being        *)
(* served, until a message of the runtime is torn apart.                     *)
THEOREM BridgeImplementsRestService ==
    Spec => Rest!SInit /\ [][NothingForwarded' => Rest!SNext]_(Rest!svars)
  <1>1. Init => Rest!SInit
    <2>1. SUFFICES ASSUME Init PROVE Rest!SInit
      OBVIOUS
    <2>2. Len(reqs) = 0 /\ serving = 0 /\ answered = <<>>
      BY <2>1 DEF Init, serving, answered, Threads
    <2>3. kept = "prompt"
      BY <2>1 DEF Init, kept, Undisturbed
    <2>. QED
      BY <2>2, <2>3 DEF Rest!SInit
  <1>2. ASSUME IInv, Plain => Flow /\ Histories,
               (Plain => Flow /\ Histories)', [Next]_vars
        PROVE  [NothingForwarded' => Rest!SNext]_(Rest!svars)
    <2>1. CASE Plain'
      <3>1. Plain /\ Flow /\ Flow'
        BY <1>2, <2>1, PlainBefore
      <3>2. Rest!SNext \/ UNCHANGED Rest!svars
        BY <1>2, <2>1, <3>1, RefinementStep
      <3>. QED
        BY <3>2
    <2>2. CASE torn'
      BY <1>2, <2>2, TornRefinement
    <2>3. CASE ~NothingForwarded'
      BY <2>3
    <2>. QED
      BY <2>1, <2>2, <2>3 DEF Plain
  <1>. QED
    BY <1>1, <1>2, InductiveInvariant, RestInvariant, PTL DEF Spec

(* In particular the bridge implements the service where nobody publishes on *)
(* a topic it is subscribed to.                                              *)
THEOREM RestOnlyImplementsService ==
    ASSUME MaxPublish = 0
    PROVE  Spec => Rest!SInit /\ [][Rest!SNext]_(Rest!svars)
  <1>1. NothingForwarded' /\ [NothingForwarded' => Rest!SNext]_(Rest!svars)
           => [Rest!SNext]_(Rest!svars)
    OBVIOUS
  <1>. QED
    BY <1>1, NoPublishes, BridgeImplementsRestService, PTL

=============================================================================
