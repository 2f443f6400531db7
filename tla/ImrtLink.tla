------------------------------ MODULE ImrtLink ------------------------------
(* The framing of the runtime link as the bridge receives it: the byte-wise  *)
(* parser on_imrt_link_byte_arrive, the loop process_rcvd_data that feeds it *)
(* what one read() returned, and a receive context that outlives both the    *)
(* reads and the connections.  A frame is two leading bytes, a type (2), a   *)
(* length (4, unsigned long of the 32-bit build), all big-endian, and the    *)
(* payload.                                                                  *)
EXTENDS Naturals, Sequences, FiniteSets

CONSTANTS
    Types,            \* the message types the runtime uses
    ReplyTypes,       \* those the bridge handles: RESPONSE_PACKET and REQUEST_PACKET
    Payloads,         \* the payload bytes after the one that tells messages apart
    Windows,          \* how many messages the runtime may be ahead of what was delivered
    MaxSend,          \* messages of those types the runtime sends in all
    MaxOther,         \* messages of other types
    MaxBreak          \* losses of the connection

leading == <<18, 52>>                   \* 0x12 0x34
MaxPayload == 1024 * 1024

(* The types are the first few numbers (host_link.h), none of them the       *)
(* leading bytes over again, and no message is as large as what the bridge   *)
(* refuses: the runtime has a heap of 512 KB for all it allocates            *)
(* (iwasm_main.c).                                                           *)
ASSUME LinkAssumption ==
    /\ Types \subseteq Nat /\ ReplyTypes \subseteq Types
    /\ \A type \in Types : type < 256 * 256 /\ type # leading[1] * 256 + leading[2]
    /\ \A p \in Payloads : p \in Seq(0 .. 255) /\ Len(p) < MaxPayload
    /\ Windows \subseteq Nat /\ MaxSend \in Nat /\ MaxOther \in Nat /\ MaxBreak \in Nat

VARIABLES
    ctx,        \* imrt_link_recv_context_t
    wire,       \* the bytes on their way to the bridge
    linkUp,     \* whether the connection is alive
    sent,       \* history: the messages sent
    window,     \* one of Windows: 1 is a runtime that waits for each delivery
    delivered,  \* history: the messages process_rcvd_data returned, each with
                \* whether the stream was still clean
    others,     \* history: how many messages of other types were sent
    breaks      \* history: how many connections were lost

vars == <<ctx, wire, linkUp, window, sent, delivered, others, breaks>>

TypeBytes == 2
SizeBytes == 4
Phases == {"Non_Start", "Leading", "Type", "Size", "Payload"}

Message(type, payload) == [type |-> type, payload |-> payload]

(* A value as bytes, the most significant first, by the weights they have. *)
TypeWeights == <<256, 1>>
SizeWeights == <<256 * 256 * 256, 256 * 256, 256, 1>>

BigEndian(v, weights) == [i \in DOMAIN weights |-> (v \div weights[i]) % 256]

Header(m) == leading \o BigEndian(m.type, TypeWeights)
                     \o BigEndian(Len(m.payload), SizeWeights)

Frame(m) == Header(m) \o m.payload

-----------------------------------------------------------------------------
(* The parser.  A field under construction is kept as its value so far; the  *)
(* result is 0 for a completed packet and "more" for anything else, which    *)
(* the caller does not tell apart.                                           *)
Start(c, phase) == [c EXCEPT !.phase = phase, !.n = 0]       \* SET_RECV_PHASE
More(c) == [ctx |-> c, complete |-> FALSE]
Done(c) == [ctx |-> Start(c, "Non_Start"), complete |-> TRUE]

OnNonStart(c, ch) ==
    LET freed == [c EXCEPT !.payload = <<>>]
    IN  More(IF ch = leading[1] THEN [freed EXCEPT !.phase = "Leading"] ELSE freed)

OnLeading(c, ch) ==
    More(IF ch = leading[2] THEN Start(c, "Type") ELSE [c EXCEPT !.phase = "Non_Start"])

(* One more byte of a field of width bytes. *)
Field(value, c, ch) == (IF c.n = 0 THEN 0 ELSE value * 256) + ch

(* Seeded fault: size_in_phase is not reset between type and length. *)
FaultNoPhaseReset(c, ch) ==
    LET f == [c EXCEPT !.type = Field(@, c, ch), !.n = @ + 1]
    IN  More(IF f.n = TypeBytes THEN [f EXCEPT !.phase = "Size"] ELSE f)

OnType(c, ch) ==
    LET f == [c EXCEPT !.type = Field(@, c, ch), !.n = @ + 1]
    IN  More(IF f.n = TypeBytes THEN Start(f, "Size") ELSE f)

OnSize(c, ch) ==
    LET f == [c EXCEPT !.size = Field(@, c, ch), !.n = @ + 1]
        whole == [f EXCEPT !.payload = <<>>]
    IN  CASE f.n < SizeBytes     -> More(f)
          [] f.n = SizeBytes /\ f.size = 0          -> Done(whole)
          [] f.n = SizeBytes /\ f.size > MaxPayload -> More(Start(whole, "Non_Start"))
          [] OTHER                                  -> More(Start(whole, "Payload"))

(* Seeded fault: the payload is one byte too long. *)
FaultPayloadOffByOne(c, ch) ==
    LET f == [c EXCEPT !.payload = Append(@, ch), !.n = @ + 1]
    IN  IF f.n > f.size THEN Done(f) ELSE More(f)

OnPayload(c, ch) ==
    LET f == [c EXCEPT !.payload = Append(@, ch), !.n = @ + 1]
    IN  IF f.n = f.size THEN Done(f) ELSE More(f)

on_imrt_link_byte_arrive(c, ch) ==
    CASE c.phase = "Non_Start" -> OnNonStart(c, ch)
      [] c.phase = "Leading"   -> OnLeading(c, ch)
      [] c.phase = "Type"      -> OnType(c, ch)
      [] c.phase = "Size"      -> OnSize(c, ch)
      [] c.phase = "Payload"   -> OnPayload(c, ch)

(* process_rcvd_data: the bytes up to the first complete message of a type   *)
(* the bridge handles; what the buffer holds after it is never looked at.    *)
Step(acc, ch) ==
    IF acc.out # <<>> THEN acc
    ELSE LET r == on_imrt_link_byte_arrive(acc.ctx, ch)
         IN  [ctx |-> r.ctx,
              out |-> IF r.complete /\ r.ctx.type \in ReplyTypes
                      THEN <<Message(r.ctx.type, r.ctx.payload)>> ELSE <<>>]

process_rcvd_data(c, buf) ==
    LET after[n \in 0 .. Len(buf)] ==
            IF n = 0 THEN [ctx |-> c, out |-> <<>>] ELSE Step(after[n - 1], buf[n])
    IN  after[Len(buf)]

-----------------------------------------------------------------------------
Init ==
    /\ ctx = [phase |-> "Non_Start", n |-> 0, type |-> 0, size |-> 0, payload |-> <<>>]
    /\ wire = <<>> /\ linkUp = TRUE /\ window \in Windows
    /\ sent = <<>> /\ delivered = <<>> /\ others = 0 /\ breaks = 0

(* The runtime sends a message.  The first byte of its payload is a number   *)
(* of its own.                                                               *)
Send ==
    /\ linkUp /\ Len(sent) < MaxSend /\ Len(sent) < Len(delivered) + window
    /\ \E type \in ReplyTypes, p \in Payloads :
          LET m == Message(type, <<Len(sent) + 1>> \o p)
          IN  sent' = Append(sent, m) /\ wire' = wire \o Frame(m)
    /\ UNCHANGED <<ctx, linkUp, window, delivered, others, breaks>>

(* A message of a type the bridge skips. *)
SendOther ==
    /\ linkUp /\ Len(sent) = Len(delivered) /\ others < MaxOther
    /\ others' = others + 1
    /\ \E type \in Types \ ReplyTypes :
          wire' = wire \o Frame(Message(type, <<>>))
    /\ UNCHANGED <<ctx, linkUp, window, sent, delivered, breaks>>

(* Whether bytes hold those a frame begins with. *)
HoldsPair(b) == \E i \in 1 .. Len(b) - 1 : b[i] = leading[1] /\ b[i + 1] = leading[2]

(* No frame holds them again after its beginning. *)
NoPairSent == \A i \in DOMAIN sent : ~HoldsPair(Tail(Frame(sent[i])))

(* No connection was lost, and nothing that a read may drop is followed by   *)
(* bytes that look like a frame.                                             *)
Clean == breaks = 0 /\ (window = 1 \/ NoPairSent)

(* read() returns any part of what has arrived. *)
Read ==
    \E n \in 1 .. Len(wire) :
        LET r == process_rcvd_data(ctx, SubSeq(wire, 1, n))
        IN  /\ ctx' = r.ctx
            /\ delivered' = delivered \o [i \in DOMAIN r.out |->
                                             [message |-> r.out[i], clean |-> Clean]]
            /\ wire' = SubSeq(wire, n + 1, Len(wire))
            /\ UNCHANGED <<linkUp, window, sent, others, breaks>>

(* The connection is lost: what had not arrived never will. *)
Break ==
    /\ linkUp /\ breaks < MaxBreak
    /\ linkUp' = FALSE
    /\ breaks' = breaks + 1
    /\ \E n \in 0 .. Len(wire) : wire' = SubSeq(wire, 1, n)
    /\ UNCHANGED <<ctx, window, sent, delivered, others>>

(* main reads 0 and opens a new connection; recv_ctx is left as it is. *)
Reconnect ==
    /\ ~linkUp /\ wire = <<>>
    /\ linkUp' = TRUE
    /\ UNCHANGED <<ctx, wire, window, sent, delivered, others, breaks>>

Next == Send \/ SendOther \/ Read \/ Break \/ Reconnect

Spec == Init /\ [][Next]_vars

(* The bridge goes on reading what arrives. *)
FairSpec == Spec /\ WF_vars(Read)

-----------------------------------------------------------------------------
(* The place in sent of a message that came out, 0 for one never sent.       *)
Place(d) ==
    IF \E i \in DOMAIN sent : sent[i] = d.message
    THEN CHOOSE i \in DOMAIN sent : sent[i] = d.message
    ELSE 0

places == [i \in DOMAIN delivered |-> Place(delivered[i])]

(* Those delivered while the stream was clean, which are the first ones. *)
inOrder == [i \in {j \in DOMAIN delivered : delivered[j].clean} |-> Place(delivered[i])]

Promised == INSTANCE MessageLink WITH
                sent <- Len(sent), got <- inOrder, exact <- window = 1 /\ breaks = 0

(* However read() cuts the stream up, and whatever bytes the payloads hold,  *)
(* messages sent one at a time all come out, whole and in order, until a     *)
(* connection is lost.  Messages sent without waiting may be dropped, when   *)
(* one read returns more than one, but the parser finds its way back to the  *)
(* frame boundaries unless a payload looks like a frame: what comes out is   *)
(* always a message that was sent, in order, once.                           *)
ImplementsMessageLink == Promised!Promise

(* A receive context left over from a lost connection garbles what comes     *)
(* next, once: if no frame holds the leading bytes again, at most one        *)
(* message that was never sent comes out for each connection that was lost.  *)
GarbledOncePerBreak ==
    NoPairSent => Cardinality({i \in DOMAIN delivered : places[i] = 0}) <= breaks

=============================================================================
