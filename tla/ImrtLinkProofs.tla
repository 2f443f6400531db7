---------------------------- MODULE ImrtLinkProofs ---------------------------
(* Proofs about ImrtLink, for every set of types and payloads, every bound,  *)
(* and every way read() cuts the stream up.                                  *)
EXTENDS ImrtLink, FiniteSetTheorems, SequenceTheorems, WellFoundedInduction, TLAPS

(* A set of natural numbers that is not empty has a least one. *)
LEMMA LeastNumber ==
    ASSUME NEW T \in SUBSET Nat, T # {}
    PROVE  \E x \in T : \A y \in T : x <= y
  <1> DEFINE R == OpToRel(<, Nat)
  <1>1. IsWellFoundedOn(R, Nat)
    BY NatLessThanWellFounded
  <1>2. \A x, y \in Nat : x < y => <<x, y>> \in R
    BY DEF OpToRel
  <1>. HIDE DEF R
  <1>3. PICK x \in T : \A y \in T : ~(<<y, x>> \in R)
    BY <1>1, WFMin, Zenon
  <1>4. ASSUME NEW y \in T PROVE x <= y
    <2>1. x \in Nat /\ y \in Nat /\ ~(<<y, x>> \in R)
      BY <1>3
    <2>2. ~(y < x)
      BY <1>2, <2>1
    <2>. QED
      BY <2>1, <2>2
  <1>. QED
    BY <1>4

(* Induction, with a set for the predicate. *)
LEMMA Induction ==
    ASSUME NEW T, 0 \in T, \A n \in Nat : n \in T => n + 1 \in T
    PROVE  \A n \in Nat : n \in T
  <1>. SUFFICES ASSUME NEW k \in Nat, k \notin T PROVE FALSE
    OBVIOUS
  <1> DEFINE S == {n \in Nat : n \notin T}
  <1>1. PICK x \in S : \A y \in S : x <= y
    BY LeastNumber
  <1>2. x \in Nat /\ x # 0
    OBVIOUS
  <1>3. x - 1 \in Nat /\ x - 1 \in T
    <2>1. x - 1 \in Nat /\ ~(x <= x - 1)
      BY <1>2
    <2>. QED
      BY <2>1, <1>1
  <1>4. x \in T
    <2>1. (x - 1) + 1 \in T
      BY <1>3
    <2>. QED
      BY <2>1, <1>2
  <1>. QED
    BY <1>4

Iteration(f, N, V, base, step) ==
    f \in [0 .. N -> V] /\ f[0] = base /\ \A i \in 1 .. N : f[i] = step[i][f[i - 1]]

(* A sequence of values, each made from the one before, exists. *)
LEMMA Iterate ==
    ASSUME NEW N \in Nat, NEW V, NEW base \in V, NEW step \in [1 .. N -> [V -> V]]
    PROVE  \E f : Iteration(f, N, V, base, step)
  <1> DEFINE Up(n, f) == f = [i \in 0 .. n |-> IF i = 0 THEN base ELSE step[i][f[i - 1]]]
             T == {n \in Nat : n <= N => \E f \in [0 .. n -> V] : Up(n, f)}
  <1>1. 0 \in T
    <2>1. [i \in 0 .. 0 |-> base] \in [0 .. 0 -> V]
      OBVIOUS
    <2>2. Up(0, [i \in 0 .. 0 |-> base])
      OBVIOUS
    <2>. QED
      BY <2>1, <2>2
  <1>2. ASSUME NEW n \in Nat, n \in T PROVE n + 1 \in T
    <2>. SUFFICES ASSUME n + 1 <= N PROVE \E f \in [0 .. n + 1 -> V] : Up(n + 1, f)
      OBVIOUS
    <2>1. PICK f \in [0 .. n -> V] : Up(n, f)
      BY <1>2
    <2> DEFINE g == [i \in 0 .. n + 1 |-> IF i \in 0 .. n THEN f[i] ELSE step[n + 1][f[n]]]
    <2>2. step[n + 1] \in [V -> V] /\ f[n] \in V
      OBVIOUS
    <2>3. step[n + 1][f[n]] \in V
      BY <2>2
    <2>4. g \in [0 .. n + 1 -> V]
      BY <2>3
    <2>5. ASSUME NEW i \in 0 .. n + 1
          PROVE  g[i] = IF i = 0 THEN base ELSE step[i][g[i - 1]]
      <3>1. CASE i \in 1 .. n
        <4>1. i - 1 \in 0 .. n /\ i # 0
          BY <3>1
        <4>2. f[i] = step[i][f[i - 1]]
          BY <2>1, <3>1, <4>1
        <4>. QED
          BY <4>1, <4>2, <3>1
      <3>2. CASE i = n + 1
        BY <3>2
      <3>3. CASE i = 0
        BY <2>1, <3>3
      <3>. QED
        BY <3>1, <3>2, <3>3
    <2>6. Up(n + 1, g)
      BY <2>5
    <2>. QED
      BY <2>4, <2>6
  <1>3. N \in T
    <2>. HIDE DEF T
    <2>. QED BY <1>1, <1>2, Induction
  <1>. QED
    BY <1>3 DEF Iteration

-----------------------------------------------------------------------------
(* A number, byte by byte. *)
Low(v)   == v % 256
High1(v) == v \div 256
High2(v) == v \div (256 * 256)
High3(v) == v \div (256 * 256 * 256)

(* A byte on its way: the message it is of, the place it has in its frame,   *)
(* and the number of the message, 0 for one the bridge skips.                *)
Content == {m \in [type : Nat, payload : Seq(Nat)] :
                m.type < 256 * 256 /\ Len(m.payload) <= MaxPayload}
Marks   == {b \in [m : Content, pos : Nat, num : Nat] : b.pos \in 1 .. 8 + Len(b.m.payload)}
Nowhere == [m |-> Message(0, <<>>), pos |-> 0, num |-> 0]

ByteOf(b) == Frame(b.m)[b.pos]
Ends(b)   == b.pos = 0 \/ b.pos = 8 + Len(b.m.payload)

(* The byte is of a message that was sent. *)
Genuine(b) ==
    IF b.num = 0 THEN b.m.payload = <<>> /\ b.m.type \in Types \ ReplyTypes
    ELSE b.num \in DOMAIN sent /\ sent[b.num] = b.m

(* What comes after a byte: the rest of its frame, or another frame. *)
Follows(a, b) ==
    IF Ends(a) THEN b.pos = 1 ELSE b.m = a.m /\ b.num = a.num /\ b.pos = a.pos + 1

Before(last, marks, i) == IF i = 1 THEN last ELSE marks[i - 1]

(* The bytes on the wire, after the last one that was read, are those of     *)
(* frames, the last of which may be cut if the connection is lost.           *)
Stream(last, marks) ==
    /\ last = Nowhere \/ (last \in Marks /\ Genuine(last))
    /\ marks \in Seq(Marks)
    /\ \A i \in DOMAIN marks : Genuine(marks[i]) /\ Follows(Before(last, marks, i), marks[i])
    /\ wire = [i \in DOMAIN marks |-> ByteOf(marks[i])]
    /\ linkUp => Ends(Before(last, marks, Len(marks) + 1))

-----------------------------------------------------------------------------
(* The parser is in the middle of the frame of the last byte. *)
OnTrack(c, b) ==
    /\ b.pos >= 1
    /\ \/ c.phase = "Leading" /\ b.pos = 1
       \/ /\ c.phase = "Type" /\ c.n \in 0 .. 1 /\ b.pos = 2 + c.n
          /\ c.n = 1 => c.type = High1(b.m.type)
       \/ /\ c.phase = "Size" /\ c.n \in 0 .. 3 /\ b.pos = 4 + c.n /\ c.type = b.m.type
          /\ c.n = 1 => c.size = High3(Len(b.m.payload))
          /\ c.n = 2 => c.size = High2(Len(b.m.payload))
          /\ c.n = 3 => c.size = High1(Len(b.m.payload))
       \/ /\ c.phase = "Payload" /\ b.pos = 8 + c.n /\ c.n < c.size
          /\ c.type = b.m.type /\ c.size = Len(b.m.payload)
          /\ c.payload = SubSeq(b.m.payload, 1, c.n)

(* The parser is between two frames. *)
OnSeam(c, b) == c.phase = "Non_Start" /\ Ends(b)

(* The parser looks for the beginning of a frame, and what it has seen last  *)
(* is none.                                                                  *)
Looks(c, b) ==
    \/ c.phase = "Non_Start"
    \/ c.phase = "Leading" /\ (Ends(b) \/ (b.pos >= 2 /\ ByteOf(b) = leading[1]))

(* The parser is in step with the bytes: strictly if it has lost none of     *)
(* them, and otherwise as far as frames can be told from what is in them.    *)
InStep(strictly, c, b) ==
    OnTrack(c, b) \/ (IF strictly THEN OnSeam(c, b) ELSE Looks(c, b))

-----------------------------------------------------------------------------
(* Where a message was sent, and the messages that came out and never were.  *)
PlaceIn(s, o) ==
    IF \E i \in DOMAIN s : s[i] = o THEN CHOOSE i \in DOMAIN s : s[i] = o ELSE 0

GarbledIn(s, dl) == {i \in DOMAIN dl : PlaceIn(s, dl[i].message) = 0}

(* The numbers of the messages grow along the wire, and what came out of a   *)
(* clean stream was sent, in order and before what is still on the wire.     *)
Ordered(s, dl, marks, clean) ==
    /\ \A i, j \in DOMAIN marks :
          i < j /\ marks[i].num # 0 /\ marks[j].num # 0 =>
              IF Ends(marks[i]) THEN marks[i].num < marks[j].num
              ELSE marks[i].num <= marks[j].num
    /\ \A i \in DOMAIN dl : dl[i].clean => PlaceIn(s, dl[i].message) # 0
    /\ \A i, j \in DOMAIN dl : i < j /\ dl[j].clean =>
          dl[i].clean /\ PlaceIn(s, dl[i].message) < PlaceIn(s, dl[j].message)
    /\ clean =>
          \A i \in DOMAIN dl :
              /\ dl[i].clean
              /\ \A j \in DOMAIN marks :
                    marks[j].num # 0 => PlaceIn(s, dl[i].message) < marks[j].num

-----------------------------------------------------------------------------
(* The inductive invariant, part by part.                                    *)

Contexts == [phase : Phases, n : Nat, type : Nat, size : Nat, payload : Seq(Nat)]
Outputs  == [type : Nat, payload : Seq(Nat)]

Numbered(s) ==
    \A k \in DOMAIN s :
       s[k].type \in ReplyTypes /\ s[k].payload # <<>> /\ s[k].payload[1] = k

Typed ==
    /\ ctx \in Contexts /\ linkUp \in BOOLEAN /\ breaks \in Nat /\ (linkUp \/ breaks > 0)
    /\ sent \in Seq(Content) /\ Numbered(sent)
    /\ delivered \in Seq([message : Outputs, clean : BOOLEAN])

(* Of the losses one is still to show for itself if the link is down, and    *)
(* one if what the parser has in its context is no promise of a message.     *)
Garbled == GarbledIn(sent, delivered)
Owed(garbles) == (IF linkUp THEN 0 ELSE 1) + (IF garbles THEN 1 ELSE 0)

Resynchronised(last) ==
    NoPairSent =>
        \E garbles \in BOOLEAN :
            /\ garbles \/ InStep(FALSE, ctx, last)
            /\ Cardinality(Garbled) + Owed(garbles) <= breaks

Exact(last, marks) ==
    window = 1 /\ breaks = 0 =>
        /\ InStep(TRUE, ctx, last)
        /\ \A i \in DOMAIN marks : marks[i].num # 0 =>
              marks[i].num = Len(delivered) + 1 /\ (Ends(marks[i]) => i = Len(marks))
        /\ Len(delivered) <= Len(sent)
        /\ \A i \in DOMAIN delivered : delivered[i].message = sent[i]

InOrder(marks) == Ordered(sent, delivered, marks, Clean)

InvAt(last, marks) ==
    /\ Stream(last, marks)
    /\ Typed
    /\ Resynchronised(last)
    /\ Exact(last, marks)
    /\ InOrder(marks)

IInv == \E last, marks : InvAt(last, marks)


-----------------------------------------------------------------------------
(* Frames.                                                                   *)

(* Two sequences, one behind the other. *)
Join(a, b, n, k, t) ==
    /\ t \in Seq(Nat) /\ n \in Nat /\ k \in Nat /\ Len(t) = n + k
    /\ \A i \in 1 .. n : t[i] = a[i]
    /\ \A j \in 1 .. k : t[n + j] = b[j]

(* What they have where. *)
LEMMA Joined ==
    ASSUME NEW a \in Seq(Nat), NEW b \in Seq(Nat)
    PROVE  Join(a, b, Len(a), Len(b), a \o b)
  <1>1. PICK t, n, k : t = a \o b /\ n = Len(a) /\ k = Len(b)
    OBVIOUS
  <1>2. /\ t \in Seq(Nat) /\ n \in Nat /\ k \in Nat /\ Len(t) = n + k
        /\ \A i \in 1 .. n + k : t[i] = IF i <= n THEN a[i] ELSE b[i - n]
    BY <1>1, ConcatProperties
  <1>3. ASSUME NEW i \in 1 .. n PROVE t[i] = a[i]
    <2>1. i \in 1 .. n + k /\ i <= n
      BY <1>2
    <2>. QED
      BY <1>2, <2>1
  <1>4. ASSUME NEW j \in 1 .. k PROVE t[n + j] = b[j]
    <2>1. n + j \in 1 .. n + k /\ ~(n + j <= n) /\ (n + j) - n = j
      BY <1>2
    <2>. QED
      BY <1>2, <2>1
  <1>. QED
    BY <1>1, <1>2, <1>3, <1>4 DEF Join

(* What is a sequence. *)
LEMMA IsSequence ==
    ASSUME NEW n \in Nat, NEW s \in [1 .. n -> Nat]
    PROVE  s \in Seq(Nat) /\ Len(s) = n
  OBVIOUS

(* Two bytes. *)
LEMMA TwoBytes ==
    ASSUME NEW v \in Nat, NEW s, s = BigEndian(v, TypeWeights)
    PROVE  s \in Seq(Nat) /\ Len(s) = 2 /\ s[1] = Low(High1(v)) /\ s[2] = Low(v)
  <1> DEFINE w == TypeWeights
  <1>1. DOMAIN w = 1 .. 2 /\ w[1] = 256 /\ w[2] = 1
    BY DEF TypeWeights
  <1>. HIDE DEF w
  <1>2. s = [i \in 1 .. 2 |-> (v \div w[i]) % 256]
    BY <1>1 DEF BigEndian, w
  <1>3. \A i \in 1 .. 2 : w[i] \in Nat \ {0}
    BY <1>1
  <1>4. \A i \in 1 .. 2 : (v \div w[i]) % 256 \in Nat
    BY <1>3
  <1>5. s \in [1 .. 2 -> Nat]
    BY <1>2, <1>4
  <1>6. s[1] = (v \div 256) % 256 /\ s[2] = (v \div 1) % 256
    BY <1>1, <1>2
  <1>7. v \div 1 = v
    OBVIOUS
  <1>8. s[1] = Low(High1(v)) /\ s[2] = Low(v)
    BY <1>6, <1>7, Zenon DEF Low, High1
  <1>9. s \in Seq(Nat) /\ Len(s) = 2
    BY <1>5, IsSequence, Zenon
  <1>. QED
    BY <1>8, <1>9, Zenon

(* Four bytes. *)
LEMMA FourBytes ==
    ASSUME NEW v \in Nat, NEW s, s = BigEndian(v, SizeWeights)
    PROVE  /\ s \in Seq(Nat) /\ Len(s) = 4
           /\ s[1] = Low(High3(v)) /\ s[2] = Low(High2(v))
           /\ s[3] = Low(High1(v)) /\ s[4] = Low(v)
  <1> DEFINE w == SizeWeights
  <1>1. DOMAIN w = 1 .. 4 /\ w[1] = 256 * 256 * 256 /\ w[2] = 256 * 256 /\ w[3] = 256 /\ w[4] = 1
    BY DEF SizeWeights
  <1>. HIDE DEF w
  <1>2. s = [i \in 1 .. 4 |-> (v \div w[i]) % 256]
    BY <1>1 DEF BigEndian, w
  <1>3. \A i \in 1 .. 4 : w[i] \in Nat \ {0}
    BY <1>1
  <1>4. \A i \in 1 .. 4 : (v \div w[i]) % 256 \in Nat
    BY <1>3
  <1>5. s \in [1 .. 4 -> Nat]
    BY <1>2, <1>4
  <1>6. /\ s[1] = (v \div (256 * 256 * 256)) % 256 /\ s[2] = (v \div (256 * 256)) % 256
        /\ s[3] = (v \div 256) % 256 /\ s[4] = (v \div 1) % 256
    BY <1>1, <1>2
  <1>7. v \div 1 = v
    OBVIOUS
  <1>8. s[1] = Low(High3(v)) /\ s[2] = Low(High2(v)) /\ s[3] = Low(High1(v)) /\ s[4] = Low(v)
    BY <1>6, <1>7, Zenon DEF Low, High1, High2, High3
  <1>9. s \in Seq(Nat) /\ Len(s) = 4
    BY <1>5, IsSequence, Zenon
  <1>. QED
    BY <1>8, <1>9, Zenon

(* The bytes of a frame. *)
LEMMA FrameBytes ==
    ASSUME NEW m \in Content, NEW f, f = Frame(m)
    PROVE  /\ f \in Seq(Nat) /\ Len(f) = 8 + Len(m.payload) /\ Len(m.payload) \in Nat
           /\ f[1] = 18 /\ f[2] = 52
           /\ f[3] = Low(High1(m.type)) /\ f[4] = Low(m.type)
           /\ f[5] = Low(High3(Len(m.payload))) /\ f[6] = Low(High2(Len(m.payload)))
           /\ f[7] = Low(High1(Len(m.payload))) /\ f[8] = Low(Len(m.payload))
           /\ \A k \in 1 .. Len(m.payload) : f[8 + k] = m.payload[k]
  <1>1. PICK a, b : a = BigEndian(m.type, TypeWeights)
                    /\ b = BigEndian(Len(m.payload), SizeWeights)
    OBVIOUS
  <1>2. m.type \in Nat /\ m.payload \in Seq(Nat) /\ Len(m.payload) \in Nat
    BY DEF Content
  <1>3. a \in Seq(Nat) /\ Len(a) = 2 /\ a[1] = Low(High1(m.type)) /\ a[2] = Low(m.type)
    BY <1>1, <1>2, TwoBytes, Zenon
  <1>4. /\ b \in Seq(Nat) /\ Len(b) = 4
        /\ b[1] = Low(High3(Len(m.payload))) /\ b[2] = Low(High2(Len(m.payload)))
        /\ b[3] = Low(High1(Len(m.payload))) /\ b[4] = Low(Len(m.payload))
    BY <1>1, <1>2, FourBytes, Zenon
  <1>5. leading \in Seq(Nat) /\ Len(leading) = 2 /\ leading[1] = 18 /\ leading[2] = 52
    BY DEF leading
  <1>6. PICK x, y : x = leading \o a /\ y = x \o b
    OBVIOUS
  <1>7. /\ x \in Seq(Nat) /\ Len(x) = 4
        /\ x[1] = 18 /\ x[2] = 52 /\ x[3] = a[1] /\ x[4] = a[2]
    <2>1. /\ x \in Seq(Nat) /\ Len(x) = 2 + 2
          /\ \A i \in 1 .. 2 : x[i] = leading[i]
          /\ \A j \in 1 .. 2 : x[2 + j] = a[j]
      <3>1. Join(leading, a, 2, 2, x)
        BY <1>3, <1>5, <1>6, Joined, Zenon
      <3>. QED
        BY <3>1 DEF Join
    <2>2. x[2 + 1] = a[1] /\ x[2 + 2] = a[2]
      BY <2>1
    <2>. QED
      BY <1>5, <2>1, <2>2
  <1>8. /\ y \in Seq(Nat) /\ Len(y) = 8 /\ \A i \in 1 .. 4 : y[i] = x[i]
        /\ y[5] = b[1] /\ y[6] = b[2] /\ y[7] = b[3] /\ y[8] = b[4]
    <2>1. /\ y \in Seq(Nat) /\ Len(y) = 4 + 4
          /\ \A i \in 1 .. 4 : y[i] = x[i]
          /\ \A j \in 1 .. 4 : y[4 + j] = b[j]
      <3>1. Join(x, b, 4, 4, y)
        BY <1>4, <1>6, <1>7, Joined, Zenon
      <3>. QED
        BY <3>1 DEF Join
    <2>2. y[4 + 1] = b[1] /\ y[4 + 2] = b[2] /\ y[4 + 3] = b[3] /\ y[4 + 4] = b[4]
      BY <2>1
    <2>. QED
      BY <2>1, <2>2
  <1>9. f = y \o m.payload
    BY <1>1, <1>6 DEF Frame, Header
  <1>10. /\ f \in Seq(Nat) /\ Len(f) = 8 + Len(m.payload)
         /\ \A i \in 1 .. 8 : f[i] = y[i]
         /\ \A j \in 1 .. Len(m.payload) : f[8 + j] = m.payload[j]
    <2>1. Join(y, m.payload, 8, Len(m.payload), f)
      BY <1>2, <1>8, <1>9, Joined, Zenon
    <2>. QED
      BY <2>1 DEF Join
  <1>11. f[1] = y[1] /\ f[2] = y[2] /\ f[3] = y[3] /\ f[4] = y[4]
    BY <1>10
  <1>12. f[5] = y[5] /\ f[6] = y[6] /\ f[7] = y[7] /\ f[8] = y[8]
    BY <1>10
  <1>13. y[1] = 18 /\ y[2] = 52 /\ y[3] = a[1] /\ y[4] = a[2]
    BY <1>7, <1>8
  <1>14. f[1] = 18 /\ f[2] = 52 /\ f[3] = Low(High1(m.type)) /\ f[4] = Low(m.type)
    BY <1>3, <1>11, <1>13, Zenon
  <1>15. /\ f[5] = Low(High3(Len(m.payload))) /\ f[6] = Low(High2(Len(m.payload)))
         /\ f[7] = Low(High1(Len(m.payload))) /\ f[8] = Low(Len(m.payload))
    BY <1>4, <1>8, <1>12, Zenon
  <1>. QED
    BY <1>2, <1>10, <1>14, <1>15, Zenon

(* No frame byte but the second follows the first leading byte with the      *)
(* second.                                                                   *)
NoPairIn(m) == \A k \in 2 .. 7 + Len(m.payload) : ~(Frame(m)[k] = 18 /\ Frame(m)[k + 1] = 52)

(* That is what the absence of the leading bytes in the rest of a frame says. *)
LEMMA NoPairInTail ==
    ASSUME NEW m \in Content, ~HoldsPair(Tail(Frame(m)))
    PROVE  NoPairIn(m)
  <1>1. PICK f : f = Frame(m)
    OBVIOUS
  <1>2. f \in Seq(Nat) /\ Len(f) = 8 + Len(m.payload) /\ Len(m.payload) \in Nat
    BY <1>1, FrameBytes
  <1>3. PICK t : t = Tail(f)
    OBVIOUS
  <1>4. f # <<>>
    BY <1>2
  <1>5. Len(t) = 7 + Len(m.payload) /\ \A i \in 1 .. 7 + Len(m.payload) : t[i] = f[i + 1]
    BY <1>2, <1>3, <1>4
  <1>6. SUFFICES ASSUME NEW k \in 2 .. 7 + Len(m.payload), f[k] = 18, f[k + 1] = 52 PROVE FALSE
    BY <1>1 DEF NoPairIn
  <1>7. k - 1 \in 1 .. Len(t) - 1 /\ t[k - 1] = f[k] /\ t[(k - 1) + 1] = f[k + 1]
    <2>1. k - 1 \in 1 .. 7 + Len(m.payload) /\ k \in 1 .. 7 + Len(m.payload)
          /\ (k - 1) + 1 = k
      BY <1>2
    <2>2. t[k - 1] = f[(k - 1) + 1] /\ t[k] = f[k + 1]
      BY <1>5, <2>1
    <2>. QED
      BY <1>2, <1>5, <2>1, <2>2
  <1>8. leading[1] = 18 /\ leading[2] = 52
    BY DEF leading
  <1>. QED
    BY <1>1, <1>3, <1>6, <1>7, <1>8 DEF HoldsPair

(* The frames of the messages that the bridge skips are so. *)
LEMMA NoPairInOthers ==
    ASSUME NEW m \in Content, m.payload = <<>>, m.type \in Types
    PROVE  NoPairIn(m)
  <1>1. PICK f : f = Frame(m)
    OBVIOUS
  <1>2. Len(m.payload) = 0 /\ m.type \in Nat /\ m.type # 18 * 256 + 52
    <2>1. leading[1] = 18 /\ leading[2] = 52
      BY DEF leading
    <2>2. Types \subseteq Nat /\ m.type # leading[1] * 256 + leading[2]
      BY LinkAssumption
    <2>3. Len(m.payload) = 0
      OBVIOUS
    <2>4. m.type \in Nat
      BY <2>2
    <2>5. m.type # 18 * 256 + 52
      <3>1. PICK a, b : a = leading[1] /\ b = leading[2]
        OBVIOUS
      <3>2. m.type # a * 256 + b
        BY <2>2, <3>1
      <3>. QED
        BY <2>1, <3>1, <3>2
    <2>. QED
      BY <2>3, <2>4, <2>5
  <1>3. PICK t : t = m.type
    OBVIOUS
  <1>4. /\ f[2] = 52 /\ f[3] = Low(High1(t)) /\ f[4] = Low(t)
        /\ f[5] = Low(High3(0)) /\ f[6] = Low(High2(0))
        /\ f[7] = Low(High1(0)) /\ f[8] = Low(0)
    <2>1. PICK n : n = Len(m.payload)
      OBVIOUS
    <2>2. /\ f[2] = 52 /\ f[3] = Low(High1(t)) /\ f[4] = Low(t)
          /\ f[5] = Low(High3(n)) /\ f[6] = Low(High2(n)) /\ f[7] = Low(High1(n)) /\ f[8] = Low(n)
      BY <1>1, <1>3, <2>1, FrameBytes
    <2>. QED
      BY <1>2, <2>1, <2>2
  <1>5. f[5] = 0 /\ f[6] = 0 /\ f[7] = 0 /\ f[8] = 0
    BY <1>4 DEF Low, High1, High2, High3
  <1>6. ~(f[3] = 18 /\ f[4] = 52)
    <2>1. t \in Nat /\ t < 256 * 256 /\ t # 18 * 256 + 52
      BY <1>2, <1>3 DEF Content
    <2>2. High1(t) \in 0 .. 255 /\ Low(t) \in 0 .. 255 /\ t = High1(t) * 256 + Low(t)
      BY <2>1 DEF Low, High1
    <2>3. Low(High1(t)) = High1(t)
      <3>1. PICK h : h = High1(t)
        OBVIOUS
      <3>2. h \in 0 .. 255
        BY <2>2, <3>1
      <3>3. h % 256 = h
        BY <3>2
      <3>. QED
        BY <3>1, <3>3 DEF Low
    <2>. QED
      BY <1>4, <2>1, <2>2, <2>3
  <1>7. SUFFICES ASSUME NEW k \in 2 .. 7, f[k] = 18, f[k + 1] = 52 PROVE FALSE
    BY <1>1, <1>2 DEF NoPairIn
  <1>8. k = 2 \/ k = 3 \/ k = 4 \/ k = 5 \/ k = 6 \/ k = 7
    OBVIOUS
  <1>. QED
    BY <1>4, <1>5, <1>6, <1>7, <1>8

-----------------------------------------------------------------------------
(* The parser, phase by phase.                                               *)

After(c, ch)    == on_imrt_link_byte_arrive(c, ch).ctx
Complete(c, ch) == on_imrt_link_byte_arrive(c, ch).complete = TRUE

(* A context with another phase. *)
LEMMA WithPhase ==
    ASSUME NEW c \in Contexts, NEW p \in Phases, NEW d, d = [c EXCEPT !.phase = p]
    PROVE  /\ d \in Contexts /\ d.phase = p /\ d.n = c.n /\ d.type = c.type /\ d.size = c.size
           /\ d.payload = c.payload
  BY DEF Contexts

(* A context with another count. *)
LEMMA WithCount ==
    ASSUME NEW c \in Contexts, NEW p \in Nat, NEW d, d = [c EXCEPT !.n = p]
    PROVE  /\ d \in Contexts /\ d.phase = c.phase /\ d.n = p /\ d.type = c.type /\ d.size = c.size
           /\ d.payload = c.payload
  BY DEF Contexts

(* A context with another type. *)
LEMMA WithType ==
    ASSUME NEW c \in Contexts, NEW p \in Nat, NEW d, d = [c EXCEPT !.type = p]
    PROVE  /\ d \in Contexts /\ d.phase = c.phase /\ d.n = c.n /\ d.type = p /\ d.size = c.size
           /\ d.payload = c.payload
  BY DEF Contexts

(* A context with another length. *)
LEMMA WithSize ==
    ASSUME NEW c \in Contexts, NEW p \in Nat, NEW d, d = [c EXCEPT !.size = p]
    PROVE  /\ d \in Contexts /\ d.phase = c.phase /\ d.n = c.n /\ d.type = c.type /\ d.size = p
           /\ d.payload = c.payload
  BY DEF Contexts

(* A context with another payload. *)
LEMMA WithPayload ==
    ASSUME NEW c \in Contexts, NEW p \in Seq(Nat), NEW d, d = [c EXCEPT !.payload = p]
    PROVE  /\ d \in Contexts /\ d.phase = c.phase /\ d.n = c.n /\ d.type = c.type /\ d.size = c.size
           /\ d.payload = p
  BY DEF Contexts

(* A context at the beginning of a phase. *)
LEMMA Restarted ==
    ASSUME NEW c \in Contexts, NEW p \in Phases, NEW d, d = Start(c, p)
    PROVE  /\ d \in Contexts /\ d.phase = p /\ d.n = 0 /\ d.type = c.type /\ d.size = c.size
           /\ d.payload = c.payload
  <1>1. PICK x : x = [c EXCEPT !.phase = p]
    OBVIOUS
  <1>2. x \in Contexts /\ x.phase = p /\ x.type = c.type /\ x.size = c.size /\ x.payload = c.payload
    BY <1>1, WithPhase
  <1>3. d = [x EXCEPT !.n = 0]
    BY <1>1 DEF Start
  <1>4. 0 \in Nat
    OBVIOUS
  <1>. QED
    BY <1>2, <1>3, <1>4, WithCount

(* A byte before a frame. *)
LEMMA AtNonStart ==
    ASSUME NEW c \in Contexts, NEW ch \in Nat, c.phase = "Non_Start",
           NEW z, z = After(c, ch)
    PROVE  /\ z \in Contexts /\ ~Complete(c, ch)
           /\ z.phase = IF ch = 18 THEN "Leading" ELSE "Non_Start"
  <1>1. PICK r : r = OnNonStart(c, ch)
    OBVIOUS
  <1>. r = on_imrt_link_byte_arrive(c, ch)
    BY <1>1 DEF on_imrt_link_byte_arrive
  <1>. z = r.ctx /\ (Complete(c, ch) <=> r.complete = TRUE)
    BY DEF After, Complete
  <1>2. leading[1] = 18
    BY DEF leading
  <1>3. PICK s : s = <<>>
    OBVIOUS
  <1>4. s \in Seq(Nat) /\ "Leading" \in Phases
    BY <1>3 DEF Phases
  <1>5. PICK d : d = [c EXCEPT !.payload = s]
    OBVIOUS
  <1>6. d \in Contexts /\ d.phase = "Non_Start"
    BY <1>4, <1>5, WithPayload
  <1>7. PICK e : e = [d EXCEPT !.phase = "Leading"]
    OBVIOUS
  <1>8. e \in Contexts /\ e.phase = "Leading"
    BY <1>4, <1>6, <1>7, WithPhase
  <1>9. r = [ctx |-> IF ch = 18 THEN e ELSE d, complete |-> FALSE]
    BY <1>1, <1>2, <1>3, <1>5, <1>7 DEF OnNonStart, More
  <1>. QED
    BY <1>6, <1>8, <1>9

(* The second byte, or not. *)
LEMMA AtLeading ==
    ASSUME NEW c \in Contexts, NEW ch \in Nat, c.phase = "Leading",
           NEW z, z = After(c, ch)
    PROVE  /\ z \in Contexts /\ ~Complete(c, ch)
           /\ ch = 52 => z.phase = "Type" /\ z.n = 0
           /\ ch # 52 => z.phase = "Non_Start"
  <1>1. PICK r : r = OnLeading(c, ch)
    OBVIOUS
  <1>. r = on_imrt_link_byte_arrive(c, ch)
    BY <1>1 DEF on_imrt_link_byte_arrive
  <1>. z = r.ctx /\ (Complete(c, ch) <=> r.complete = TRUE)
    BY DEF After, Complete
  <1>2. leading[2] = 52
    BY DEF leading
  <1>3. PICK d, e : d = Start(c, "Type") /\ e = [c EXCEPT !.phase = "Non_Start"]
    OBVIOUS
  <1>4. "Type" \in Phases /\ "Non_Start" \in Phases
    BY DEF Phases
  <1>5. d \in Contexts /\ d.phase = "Type" /\ d.n = 0
    BY <1>3, <1>4, Restarted
  <1>6. e \in Contexts /\ e.phase = "Non_Start"
    BY <1>3, <1>4, WithPhase
  <1>7. r = [ctx |-> IF ch = 52 THEN d ELSE e, complete |-> FALSE]
    BY <1>1, <1>2, <1>3 DEF OnLeading, More
  <1>. QED
    BY <1>5, <1>6, <1>7

(* A field with one more byte. *)
LEMMA FieldType ==
    ASSUME NEW value \in Nat, NEW c \in Contexts, NEW ch \in Nat
    PROVE  /\ Field(value, c, ch) \in Nat
           /\ c.n = 0 => Field(value, c, ch) = ch
           /\ c.n # 0 => Field(value, c, ch) = value * 256 + ch
  BY DEF Field, Contexts

(* A byte of the type. *)
LEMMA AtType ==
    ASSUME NEW c \in Contexts, NEW ch \in Nat, c.phase = "Type",
           NEW v, v = Field(c.type, c, ch), NEW z, z = After(c, ch)
    PROVE  /\ z \in Contexts /\ ~Complete(c, ch)
           /\ z.type = v
           /\ c.n = 1 => z.phase = "Size" /\ z.n = 0
           /\ c.n # 1 => z.phase = "Type" /\ z.n = c.n + 1
  <1>1. PICK r : r = OnType(c, ch)
    OBVIOUS
  <1>. r = on_imrt_link_byte_arrive(c, ch)
    BY <1>1 DEF on_imrt_link_byte_arrive
  <1>. z = r.ctx /\ (Complete(c, ch) <=> r.complete = TRUE)
    BY DEF After, Complete
  <1>2. v \in Nat /\ c.n \in Nat /\ c.n + 1 \in Nat /\ "Size" \in Phases
    <2>1. c.type \in Nat /\ c.n \in Nat
      BY DEF Contexts
    <2>2. v \in Nat
      BY <2>1, FieldType, Zenon
    <2>. QED
      BY <2>1, <2>2 DEF Phases
  <1>3. PICK n : n = c.n + 1
    OBVIOUS
  <1>4. PICK x : x = [c EXCEPT !.type = v]
    OBVIOUS
  <1>5. x \in Contexts /\ x.type = v /\ x.phase = "Type"
    BY <1>2, <1>4, WithType
  <1>6. PICK d : d = [x EXCEPT !.n = n]
    OBVIOUS
  <1>7. d \in Contexts /\ d.type = v /\ d.n = n /\ d.phase = "Type"
    BY <1>2, <1>3, <1>5, <1>6, WithCount
  <1>8. PICK e : e = Start(d, "Size")
    OBVIOUS
  <1>9. e \in Contexts /\ e.type = v /\ e.n = 0 /\ e.phase = "Size"
    BY <1>2, <1>7, <1>8, Restarted
  <1>10. r = [ctx |-> IF d.n = 2 THEN e ELSE d, complete |-> FALSE]
    BY <1>1, <1>3, <1>4, <1>6, <1>8 DEF OnType, More, TypeBytes
  <1>11. d.n = 2 <=> c.n = 1
    BY <1>2, <1>3, <1>7
  <1>. QED
    BY <1>3, <1>7, <1>9, <1>10, <1>11

(* A byte of the length. *)
LEMMA AtSize ==
    ASSUME NEW c \in Contexts, NEW ch \in Nat, c.phase = "Size",
           NEW v, v = Field(c.size, c, ch), NEW z, z = After(c, ch)
    PROVE  /\ z \in Contexts /\ z.type = c.type /\ z.size = v
           /\ c.n < 3 => ~Complete(c, ch) /\ z.phase = "Size" /\ z.n = c.n + 1
           /\ c.n = 3 /\ v = 0 => Complete(c, ch) /\ z.payload = <<>>
           /\ c.n = 3 /\ v # 0 /\ v <= MaxPayload =>
                 /\ ~Complete(c, ch) /\ z.phase = "Payload" /\ z.n = 0
                 /\ z.payload = <<>>
           /\ Complete(c, ch) => z.phase = "Non_Start"
  <1>1. PICK r : r = OnSize(c, ch)
    OBVIOUS
  <1>. r = on_imrt_link_byte_arrive(c, ch)
    BY <1>1 DEF on_imrt_link_byte_arrive
  <1>. z = r.ctx /\ (Complete(c, ch) <=> r.complete = TRUE)
    BY DEF After, Complete
  <1>2. v \in Nat /\ c.n \in Nat /\ c.n + 1 \in Nat
    <2>1. c.size \in Nat /\ c.n \in Nat
      BY DEF Contexts
    <2>2. v \in Nat
      BY <2>1, FieldType, Zenon
    <2>. QED
      BY <2>1, <2>2
  <1>3. PICK n, s : n = c.n + 1 /\ s = <<>>
    OBVIOUS
  <1>4. n \in Nat /\ s \in Seq(Nat) /\ "Non_Start" \in Phases /\ "Payload" \in Phases
    BY <1>2, <1>3 DEF Phases
  <1>5. PICK x : x = [c EXCEPT !.size = v]
    OBVIOUS
  <1>6. x \in Contexts /\ x.size = v /\ x.phase = "Size" /\ x.type = c.type
    BY <1>2, <1>5, WithSize
  <1>7. PICK d : d = [x EXCEPT !.n = n]
    OBVIOUS
  <1>8. d \in Contexts /\ d.size = v /\ d.n = n /\ d.phase = "Size" /\ d.type = c.type
    BY <1>4, <1>6, <1>7, WithCount
  <1>9. PICK e : e = [d EXCEPT !.payload = s]
    OBVIOUS
  <1>10. e \in Contexts /\ e.size = v /\ e.type = c.type /\ e.payload = s
    BY <1>4, <1>8, <1>9, WithPayload
  <1>11. PICK g : g = Start(e, "Non_Start")
    OBVIOUS
  <1>12. g \in Contexts /\ g.phase = "Non_Start" /\ g.size = v /\ g.type = c.type /\ g.payload = s
    BY <1>4, <1>10, <1>11, Restarted
  <1>13. PICK h : h = Start(e, "Payload")
    OBVIOUS
  <1>14. /\ h \in Contexts /\ h.phase = "Payload" /\ h.n = 0 /\ h.size = v /\ h.type = c.type
         /\ h.payload = s
    BY <1>4, <1>10, <1>13, Restarted
  <1>15. r = CASE d.n < 4                         -> [ctx |-> d, complete |-> FALSE]
               [] d.n = 4 /\ d.size = 0          -> [ctx |-> g, complete |-> TRUE]
               [] d.n = 4 /\ d.size > MaxPayload -> [ctx |-> g, complete |-> FALSE]
               [] OTHER                          -> [ctx |-> h, complete |-> FALSE]
    BY <1>1, <1>3, <1>5, <1>7, <1>9, <1>11, <1>13 DEF OnSize, More, Done, SizeBytes
  <1>16. MaxPayload \in Nat
    BY DEF MaxPayload
  <1>17. CASE c.n < 3
    <2>1. d.n < 4
      BY <1>2, <1>3, <1>8, <1>17
    <2>2. r = [ctx |-> d, complete |-> FALSE]
      BY <1>2, <1>3, <1>8, <1>15, <2>1
    <2>. QED
      BY <1>2, <1>3, <1>8, <1>17, <2>2
  <1>18. CASE c.n = 3 /\ v = 0
    <2>1. ~(d.n < 4) /\ d.n = 4 /\ d.size = 0 /\ ~(d.size > MaxPayload)
      BY <1>2, <1>3, <1>8, <1>16, <1>18
    <2>2. r = [ctx |-> g, complete |-> TRUE]
      BY <1>15, <2>1
    <2>. QED
      BY <1>3, <1>12, <1>18, <2>2
  <1>19. CASE c.n = 3 /\ v > MaxPayload
    <2>1. ~(d.n < 4) /\ d.n = 4 /\ d.size # 0 /\ d.size > MaxPayload /\ ~(v <= MaxPayload) /\ v # 0
      BY <1>2, <1>3, <1>8, <1>16, <1>19
    <2>2. r = [ctx |-> g, complete |-> FALSE]
      BY <1>15, <2>1
    <2>. QED
      BY <1>12, <1>19, <2>1, <2>2
  <1>20. CASE c.n > 3 \/ (c.n = 3 /\ v # 0 /\ v <= MaxPayload)
    <2>1. ~(d.n < 4) /\ ~(d.n = 4 /\ d.size = 0) /\ ~(d.n = 4 /\ d.size > MaxPayload)
      BY <1>2, <1>3, <1>8, <1>16, <1>20
    <2>2. r = [ctx |-> h, complete |-> FALSE]
      BY <1>15, <2>1
    <2>3. ~(c.n < 3) /\ ~(c.n = 3 /\ v = 0)
      BY <1>2, <1>20
    <2>. QED
      BY <1>3, <1>14, <2>2, <2>3
  <1>21. \/ c.n < 3 \/ (c.n = 3 /\ v = 0) \/ (c.n = 3 /\ v > MaxPayload)
         \/ c.n > 3 \/ (c.n = 3 /\ v # 0 /\ v <= MaxPayload)
    BY <1>2, <1>16
  <1>. QED
    BY <1>17, <1>18, <1>19, <1>20, <1>21, Zenon

(* A byte of the payload. *)
LEMMA AtPayload ==
    ASSUME NEW c \in Contexts, NEW ch \in Nat, c.phase = "Payload",
           NEW z, z = After(c, ch)
    PROVE  /\ z \in Contexts
           /\ z.type = c.type /\ z.size = c.size
           /\ z.payload = Append(c.payload, ch)
           /\ c.n + 1 = c.size => Complete(c, ch) /\ z.phase = "Non_Start"
           /\ c.n + 1 # c.size =>
                 ~Complete(c, ch) /\ z.phase = "Payload" /\ z.n = c.n + 1
  <1>1. PICK r : r = OnPayload(c, ch)
    OBVIOUS
  <1>. r = on_imrt_link_byte_arrive(c, ch)
    BY <1>1 DEF on_imrt_link_byte_arrive
  <1>. z = r.ctx /\ (Complete(c, ch) <=> r.complete = TRUE)
    BY DEF After, Complete
  <1>2. c.n \in Nat /\ c.payload \in Seq(Nat) /\ c.n + 1 \in Nat /\ "Non_Start" \in Phases
    BY DEF Contexts, Phases
  <1>3. PICK n, s : n = c.n + 1 /\ s = Append(c.payload, ch)
    OBVIOUS
  <1>4. n \in Nat /\ s \in Seq(Nat)
    BY <1>2, <1>3
  <1>5. PICK x : x = [c EXCEPT !.payload = s]
    OBVIOUS
  <1>6. x \in Contexts /\ x.size = c.size /\ x.phase = "Payload" /\ x.type = c.type /\ x.payload = s
    BY <1>4, <1>5, WithPayload
  <1>7. PICK d : d = [x EXCEPT !.n = n]
    OBVIOUS
  <1>8. /\ d \in Contexts /\ d.size = c.size /\ d.n = n /\ d.phase = "Payload"
        /\ d.type = c.type /\ d.payload = s
    BY <1>4, <1>6, <1>7, WithCount
  <1>9. PICK e : e = Start(d, "Non_Start")
    OBVIOUS
  <1>10. /\ e \in Contexts /\ e.size = c.size /\ e.phase = "Non_Start"
         /\ e.type = c.type /\ e.payload = s
    BY <1>2, <1>8, <1>9, Restarted
  <1>11. r = IF d.n = d.size THEN [ctx |-> e, complete |-> TRUE]
             ELSE [ctx |-> d, complete |-> FALSE]
    BY <1>1, <1>3, <1>5, <1>7, <1>9 DEF OnPayload, More, Done
  <1>. QED
    BY <1>3, <1>8, <1>10, <1>11

(* The context stays one, and a message is complete only between frames. *)
LEMMA ParsedType ==
    ASSUME NEW c \in Contexts, NEW ch \in Nat, NEW z, z = After(c, ch)
    PROVE  z \in Contexts /\ (Complete(c, ch) => z.phase = "Non_Start")
  <1>1. c.phase \in Phases
    BY DEF Contexts
  <1>2. CASE c.phase = "Non_Start"
    BY <1>2, AtNonStart
  <1>3. CASE c.phase = "Leading"
    BY <1>3, AtLeading
  <1>4. CASE c.phase = "Type"
    BY <1>4, AtType
  <1>5. CASE c.phase = "Size"
    BY <1>5, AtSize
  <1>6. CASE c.phase = "Payload"
    BY <1>6, AtPayload
  <1>. QED
    BY <1>1, <1>2, <1>3, <1>4, <1>5, <1>6 DEF Phases

-----------------------------------------------------------------------------
(* The parser and the frames.                                                *)

(* A number is made of its bytes, from the highest on. *)
LEMMA Digits ==
    ASSUME NEW v \in Nat
    PROVE  /\ Low(v) \in Nat /\ High1(v) \in Nat /\ High2(v) \in Nat /\ High3(v) \in Nat
           /\ v = High1(v) * 256 + Low(v)
           /\ High1(v) = High2(v) * 256 + Low(High1(v))
           /\ High2(v) = High3(v) * 256 + Low(High2(v))
           /\ v < 256 * 256 => Low(High1(v)) = High1(v)
           /\ v <= MaxPayload => Low(High3(v)) = High3(v)
  <1>1. v \div 256 \in Nat /\ v % 256 \in Nat /\ v % 256 < 256 /\ v = (v \div 256) * 256 + (v % 256)
    OBVIOUS
  <1>2. PICK w : w = v \div 256
    OBVIOUS
  <1>3. /\ w \in Nat /\ w \div 256 \in Nat /\ w % 256 \in Nat /\ w % 256 < 256
        /\ w = (w \div 256) * 256 + (w % 256)
    BY <1>1, <1>2
  <1>4. PICK x : x = w \div 256
    OBVIOUS
  <1>5. /\ x \in Nat /\ x \div 256 \in Nat /\ x % 256 \in Nat /\ x % 256 < 256
        /\ x = (x \div 256) * 256 + (x % 256)
    BY <1>3, <1>4
  <1>6. x = v \div (256 * 256)
    BY <1>2, <1>4
  <1>7. PICK y : y = x \div 256
    OBVIOUS
  <1>8. y = v \div (256 * 256 * 256)
    BY <1>2, <1>4, <1>7
  <1>9. High1(v) = w /\ High2(v) = x /\ High3(v) = y
    BY <1>2, <1>6, <1>8 DEF High1, High2, High3
  <1>10. ASSUME v < 256 * 256 PROVE w % 256 = w
    <2>1. w < 256
      BY <1>1, <1>2, <1>10
    <2>. QED
      BY <1>3, <2>1
  <1>11. ASSUME v <= MaxPayload PROVE y % 256 = y
    <2>1. MaxPayload = 1024 * 1024
      BY DEF MaxPayload
    <2>2. y = 0
      BY <1>8, <1>11, <2>1
    <2>. QED
      BY <2>2
  <1>12. Low(v) = v % 256 /\ Low(w) = w % 256 /\ Low(x) = x % 256 /\ Low(y) = y % 256
    BY DEF Low
  <1>13. Low(v) \in Nat /\ v = w * 256 + Low(v)
    BY <1>1, <1>2, <1>12
  <1>14. w = x * 256 + Low(w)
    BY <1>3, <1>4, <1>12
  <1>15. x = y * 256 + Low(x) /\ y \in Nat
    BY <1>5, <1>7, <1>12
  <1>. QED
    BY <1>3, <1>5, <1>9, <1>10, <1>11, <1>12, <1>13, <1>14, <1>15

(* The part of a sequence up to an element. *)
LEMMA OneMore ==
    ASSUME NEW s \in Seq(Nat), NEW n \in Nat, n < Len(s)
    PROVE  Append(SubSeq(s, 1, n), s[n + 1]) = SubSeq(s, 1, n + 1)
  OBVIOUS

(* Nothing and all of a sequence. *)
LEMMA NoneAndAll ==
    ASSUME NEW s \in Seq(Nat)
    PROVE  SubSeq(s, 1, 0) = <<>> /\ SubSeq(s, 1, Len(s)) = s
  OBVIOUS

(* The byte at a place. *)
LEMMA ByteAt ==
    ASSUME NEW b \in Marks
    PROVE  /\ b.m \in Content /\ b.m.type \in Nat /\ b.m.payload \in Seq(Nat)
           /\ b.m.type < 256 * 256 /\ Len(b.m.payload) \in Nat /\ Len(b.m.payload) <= MaxPayload
           /\ b.pos \in Nat /\ b.pos >= 1 /\ b.pos <= 8 + Len(b.m.payload) /\ b.num \in Nat
           /\ ByteOf(b) \in Nat
           /\ b.pos = 1 => ByteOf(b) = 18
           /\ b.pos = 2 => ByteOf(b) = 52
  <1>1. /\ b.m \in Content /\ b.pos \in 1 .. 8 + Len(b.m.payload) /\ b.num \in Nat
    BY DEF Marks
  <1>2. /\ b.m.type \in Nat /\ b.m.payload \in Seq(Nat) /\ b.m.type < 256 * 256
        /\ Len(b.m.payload) <= MaxPayload
    BY <1>1 DEF Content
  <1>3. PICK f : f = Frame(b.m)
    OBVIOUS
  <1>4. f \in Seq(Nat) /\ Len(f) = 8 + Len(b.m.payload) /\ f[1] = 18 /\ f[2] = 52
    BY <1>1, <1>3, FrameBytes, Zenon
  <1>5. PICK l : l = Len(b.m.payload)
    OBVIOUS
  <1>6. l \in Nat
    BY <1>2, <1>5
  <1>7. b.pos \in Nat /\ b.pos >= 1 /\ b.pos <= 8 + l
    BY <1>1, <1>5, <1>6
  <1>8. f[b.pos] \in Nat
    BY <1>4, <1>5, <1>6, <1>7
  <1>9. ByteOf(b) = f[b.pos]
    BY <1>3 DEF ByteOf
  <1>. QED
    BY <1>1, <1>2, <1>4, <1>5, <1>6, <1>7, <1>8, <1>9

(* On the track of a frame, a byte is the next of that frame. *)
LEMMA TrackGoesOn ==
    ASSUME NEW c \in Contexts, NEW a, a = Nowhere \/ a \in Marks, NEW b \in Marks, Follows(a, b),
           OnTrack(c, a)
    PROVE  a \in Marks /\ b.m = a.m /\ b.num = a.num /\ b.pos = a.pos + 1
  <1>1. a.pos >= 1
    BY DEF OnTrack
  <1>2. a \in Marks
    BY <1>1 DEF Nowhere
  <1>3. PICK l : l = Len(a.m.payload)
    OBVIOUS
  <1>4. l \in Nat /\ a.pos \in Nat
    BY <1>2, <1>3, ByteAt
  <1>5. c.n \in Nat /\ c.size \in Nat
    BY DEF Contexts
  <1>6. a.pos # 0 /\ a.pos # 8 + l
    BY <1>1, <1>3, <1>4, <1>5 DEF OnTrack
  <1>7. ~Ends(a)
    BY <1>3, <1>6 DEF Ends
  <1>. QED
    BY <1>2, <1>7 DEF Follows

(* What the parser makes of the next byte of the frame it is in. *)
LEMMA TrackStep ==
    ASSUME NEW c \in Contexts, NEW a \in Marks, NEW b \in Marks,
           b.m = a.m, b.pos = a.pos + 1, OnTrack(c, a),
           NEW z, z = After(c, ByteOf(b))
    PROVE  /\ OnTrack(z, b) \/ OnSeam(z, b)
           /\ Complete(c, ByteOf(b)) => Ends(b) /\ z.type = b.m.type /\ z.payload = b.m.payload
  <1>1. PICK m, t, s, l, f, ch : /\ m = b.m /\ t = m.type /\ s = m.payload /\ l = Len(s)
                                 /\ f = Frame(m) /\ ch = ByteOf(b)
    OBVIOUS
  <1>2. /\ m \in Content /\ t \in Nat /\ t < 256 * 256 /\ s \in Seq(Nat) /\ l \in Nat
        /\ l <= MaxPayload /\ ch \in Nat /\ b.pos \in Nat /\ a.pos \in Nat
    BY <1>1, ByteAt
  <1>3. c.n \in Nat
    BY DEF Contexts
  <1>4. /\ f[2] = 52 /\ f[3] = Low(High1(t)) /\ f[4] = Low(t)
        /\ f[5] = Low(High3(l)) /\ f[6] = Low(High2(l)) /\ f[7] = Low(High1(l)) /\ f[8] = Low(l)
        /\ \A k \in 1 .. l : f[8 + k] = s[k]
    BY <1>1, <1>2, FrameBytes, Zenon
  <1>5. ch = f[a.pos + 1]
    BY <1>1 DEF ByteOf
  <1>6. z = After(c, ch)
    BY <1>1
  <1>. ch \in Nat /\ ch = ByteOf(b)
    BY <1>1, <1>2
  <1>12. /\ t = High1(t) * 256 + Low(t) /\ Low(High1(t)) = High1(t)
         /\ l = High1(l) * 256 + Low(l) /\ High1(l) = High2(l) * 256 + Low(High1(l))
         /\ High2(l) = High3(l) * 256 + Low(High2(l)) /\ Low(High3(l)) = High3(l)
    BY <1>2, Digits
  <1>7. CASE c.phase = "Leading"
    <2>1. a.pos = 1
      BY <1>7 DEF OnTrack
    <2>2. ch = 52 /\ b.pos = 2
      BY <1>4, <1>5, <2>1
    <2>3. ~Complete(c, ch) /\ z.phase = "Type" /\ z.n = 0
      BY <1>6, <1>7, <2>2, AtLeading
    <2>4. OnTrack(z, b)
      BY <2>2, <2>3 DEF OnTrack
    <2>. QED
      BY <2>3, <2>4
  <1>8. CASE c.phase = "Type"
    <2>1. c.n \in 0 .. 1 /\ a.pos = 2 + c.n /\ (c.n = 1 => c.type = High1(t))
      BY <1>1, <1>8 DEF OnTrack
    <2>2. PICK v : v = Field(c.type, c, ch)
      OBVIOUS
    <2>3. /\ z \in Contexts /\ ~Complete(c, ch) /\ z.type = v
          /\ c.n = 1 => z.phase = "Size" /\ z.n = 0
          /\ c.n # 1 => z.phase = "Type" /\ z.n = c.n + 1
      BY <1>6, <1>8, <2>2, AtType
    <2>4. c.n = 0 => v = ch
      BY <1>2, <2>2 DEF Field
    <2>5. c.n # 0 => v = c.type * 256 + ch
      BY <2>2 DEF Field
    <2>6. CASE c.n = 0
      <3>1. v = High1(t) /\ b.pos = 3
        <4>1. ch = Low(High1(t)) /\ b.pos = 3
          BY <1>4, <1>5, <2>1, <2>6
        <4>. QED
          BY <1>12, <2>4, <2>6, <4>1
      <3>2. OnTrack(z, b)
        BY <1>1, <2>3, <2>6, <3>1 DEF OnTrack
      <3>. QED
        BY <2>3, <3>2
    <2>7. CASE c.n = 1
      <3>1. v = t /\ b.pos = 4
        <4>1. ch = Low(t) /\ b.pos = 4 /\ c.type = High1(t)
          BY <1>4, <1>5, <2>1, <2>7
        <4>. QED
          BY <1>12, <2>5, <2>7, <4>1
      <3>2. OnTrack(z, b)
        BY <1>1, <2>3, <2>7, <3>1 DEF OnTrack
      <3>. QED
        BY <2>3, <3>2
    <2>. QED
      BY <2>1, <2>6, <2>7
  <1>9. CASE c.phase = "Size"
    <2>1. /\ c.n \in 0 .. 3 /\ a.pos = 4 + c.n /\ c.type = t
          /\ c.n = 1 => c.size = High3(l)
          /\ c.n = 2 => c.size = High2(l)
          /\ c.n = 3 => c.size = High1(l)
      BY <1>1, <1>9 DEF OnTrack
    <2>2. PICK v : v = Field(c.size, c, ch)
      OBVIOUS
    <2>3. /\ z \in Contexts /\ z.type = t /\ z.size = v
          /\ c.n < 3 => ~Complete(c, ch) /\ z.phase = "Size" /\ z.n = c.n + 1
          /\ c.n = 3 /\ v = 0 => Complete(c, ch) /\ z.payload = <<>>
          /\ c.n = 3 /\ v # 0 /\ v <= MaxPayload =>
                /\ ~Complete(c, ch) /\ z.phase = "Payload" /\ z.n = 0
                /\ z.payload = <<>>
          /\ Complete(c, ch) => z.phase = "Non_Start"
      BY <1>6, <1>9, <2>1, <2>2, AtSize
    <2>4. c.n = 0 => v = ch
      BY <1>2, <2>2 DEF Field
    <2>5. c.n # 0 => v = c.size * 256 + ch
      BY <2>2 DEF Field
    <2>6. CASE c.n = 0
      <3>1. v = High3(l) /\ b.pos = 5
        <4>1. ch = Low(High3(l)) /\ b.pos = 5
          BY <1>4, <1>5, <2>1, <2>6
        <4>. QED
          BY <1>12, <2>4, <2>6, <4>1
      <3>2. OnTrack(z, b)
        BY <1>1, <2>3, <2>6, <3>1 DEF OnTrack
      <3>. QED
        BY <2>3, <2>6, <3>2
    <2>7. CASE c.n = 1
      <3>1. v = High2(l) /\ b.pos = 6
        <4>1. ch = Low(High2(l)) /\ b.pos = 6 /\ c.size = High3(l)
          BY <1>4, <1>5, <2>1, <2>7
        <4>. QED
          BY <1>12, <2>5, <2>7, <4>1
      <3>2. OnTrack(z, b)
        BY <1>1, <2>3, <2>7, <3>1 DEF OnTrack
      <3>. QED
        BY <2>3, <2>7, <3>2
    <2>8. CASE c.n = 2
      <3>1. v = High1(l) /\ b.pos = 7
        <4>1. ch = Low(High1(l)) /\ b.pos = 7 /\ c.size = High2(l)
          BY <1>4, <1>5, <2>1, <2>8
        <4>. QED
          BY <1>12, <2>5, <2>8, <4>1
      <3>2. OnTrack(z, b)
        BY <1>1, <2>3, <2>8, <3>1 DEF OnTrack
      <3>. QED
        BY <2>3, <2>8, <3>2
    <2>9. CASE c.n = 3
      <3>1. v = l /\ b.pos = 8
        <4>1. ch = Low(l) /\ b.pos = 8 /\ c.size = High1(l)
          BY <1>4, <1>5, <2>1, <2>9
        <4>. QED
          BY <1>12, <2>5, <2>9, <4>1
      <3>2. CASE l = 0
        <4>1. Complete(c, ch) /\ z.payload = <<>> /\ z.phase = "Non_Start"
          BY <2>3, <2>9, <3>1, <3>2
        <4>2. s = <<>> /\ Ends(b)
          <5>1. s = <<>>
            BY <1>1, <1>2, <3>2, EmptySeq
          <5>2. b.pos = 8 + Len(b.m.payload)
            BY <1>1, <3>1, <3>2
          <5>. QED
            BY <5>1, <5>2 DEF Ends
        <4>. QED
          BY <1>1, <2>3, <4>1, <4>2 DEF OnSeam
      <3>3. CASE l # 0
        <4>1. /\ ~Complete(c, ch) /\ z.phase = "Payload" /\ z.n = 0
              /\ z.payload = <<>> /\ z.size = l
          BY <1>2, <2>3, <2>9, <3>1, <3>3
        <4>2. z.payload = SubSeq(s, 1, 0)
          BY <1>2, <4>1, NoneAndAll
        <4>3. OnTrack(z, b)
          BY <1>1, <1>2, <2>3, <3>1, <3>3, <4>1, <4>2 DEF OnTrack
        <4>. QED
          BY <4>1, <4>3
      <3>. QED
        BY <3>2, <3>3
    <2>. QED
      BY <2>1, <2>6, <2>7, <2>8, <2>9
  <1>10. CASE c.phase = "Payload"
    <2>1. /\ a.pos = 8 + c.n /\ c.n < c.size /\ c.type = t /\ c.size = l
          /\ c.payload = SubSeq(s, 1, c.n)
      BY <1>1, <1>10 DEF OnTrack
    <2>2. /\ z \in Contexts /\ z.type = t /\ z.size = l
          /\ z.payload = Append(c.payload, ch)
          /\ c.n + 1 = l => Complete(c, ch) /\ z.phase = "Non_Start"
          /\ c.n + 1 # l => ~Complete(c, ch) /\ z.phase = "Payload" /\ z.n = c.n + 1
      <3>1. /\ z \in Contexts /\ z.type = c.type /\ z.size = c.size
            /\ z.payload = Append(c.payload, ch)
            /\ c.n + 1 = c.size => Complete(c, ch) /\ z.phase = "Non_Start"
            /\ c.n + 1 # c.size => ~Complete(c, ch) /\ z.phase = "Payload" /\ z.n = c.n + 1
        BY <1>6, <1>10, AtPayload, Zenon
      <3>. QED
        BY <2>1, <3>1, Zenon
    <2>3. ch = s[c.n + 1] /\ b.pos = 8 + (c.n + 1)
      <3>1. c.n + 1 \in 1 .. l /\ a.pos + 1 = 8 + (c.n + 1)
        BY <1>2, <1>3, <2>1
      <3>. QED
        BY <1>4, <1>5, <3>1
    <2>4. z.payload = SubSeq(s, 1, c.n + 1)
      BY <1>1, <1>2, <1>3, <2>1, <2>2, <2>3, OneMore
    <2>5. CASE c.n + 1 = l
      <3>1. z.payload = s
        BY <1>1, <1>2, <2>4, <2>5, NoneAndAll
      <3>2. Ends(b)
        BY <1>1, <2>3, <2>5 DEF Ends
      <3>. QED
        BY <1>1, <2>2, <2>5, <3>1, <3>2 DEF OnSeam
    <2>6. CASE c.n + 1 # l
      <3>1. c.n + 1 < l /\ c.n + 1 \in Nat
        BY <1>2, <1>3, <2>1, <2>6
      <3>2. OnTrack(z, b)
        <4>1. z.n = c.n + 1 /\ z.phase = "Payload"
          BY <2>2, <2>6
        <4>2. b.pos = 8 + z.n /\ z.n < z.size /\ b.pos >= 1
          BY <2>2, <2>3, <3>1, <4>1
        <4>3. z.type = b.m.type /\ z.size = Len(b.m.payload)
          BY <1>1, <2>2
        <4>4. z.payload = SubSeq(b.m.payload, 1, z.n)
          BY <1>1, <2>4, <4>1
        <4>. QED
          BY <4>1, <4>2, <4>3, <4>4 DEF OnTrack
      <3>. QED
        BY <2>2, <2>6, <3>2
    <2>. QED
      BY <2>5, <2>6
  <1>11. c.phase \in {"Leading", "Type", "Size", "Payload"}
    BY DEF OnTrack
  <1>. QED
    BY <1>7, <1>8, <1>9, <1>10, <1>11

(* What the parser makes of a byte while it looks for a frame. *)
LEMMA LookStep ==
    ASSUME NEW c \in Contexts, NEW a, a = Nowhere \/ a \in Marks, NEW b \in Marks, Follows(a, b),
           NoPairIn(b.m), Looks(c, a), NEW z, z = After(c, ByteOf(b))
    PROVE  ~Complete(c, ByteOf(b)) /\ (OnTrack(z, b) \/ Looks(z, b))
  <1>1. PICK ch : ch = ByteOf(b)
    OBVIOUS
  <1>2. ch \in Nat /\ b.pos \in Nat /\ b.pos >= 1 /\ (b.pos = 1 => ch = 18) /\ z = After(c, ch)
    BY <1>1, ByteAt
  <1>3. leading[1] = 18
    BY DEF leading
  <1>4. CASE c.phase = "Non_Start"
    <2>1. ~Complete(c, ByteOf(b)) /\ z.phase = IF ch = 18 THEN "Leading" ELSE "Non_Start"
      BY <1>1, <1>2, <1>4, AtNonStart
    <2>2. CASE b.pos = 1
      <3>1. OnTrack(z, b)
        BY <1>2, <2>1, <2>2 DEF OnTrack
      <3>. QED
        BY <2>1, <3>1
    <2>3. CASE b.pos # 1
      <3>1. b.pos >= 2
        BY <1>2, <2>3
      <3>2. Looks(z, b)
        BY <1>1, <1>3, <2>1, <3>1 DEF Looks
      <3>. QED
        BY <2>1, <3>2
    <2>. QED
      BY <2>2, <2>3
  <1>5. CASE c.phase = "Leading"
    <2>1. ch # 52
      <3>1. CASE Ends(a)
        BY <1>2, <3>1 DEF Follows
      <3>2. CASE ~Ends(a)
        <4>1. b.m = a.m /\ b.pos = a.pos + 1
          BY <3>2 DEF Follows
        <4>2. a \in Marks
          BY <3>2 DEF Ends, Nowhere
        <4>3. a.pos >= 2 /\ ByteOf(a) = 18
          BY <1>3, <1>5, <3>2 DEF Looks
        <4>4. PICK l : l = Len(a.m.payload)
          OBVIOUS
        <4>5. l \in Nat /\ a.pos \in Nat /\ b.pos <= 8 + l
          BY <4>1, <4>2, <4>4, ByteAt
        <4>6. a.pos \in 2 .. 7 + l
          BY <1>2, <4>1, <4>3, <4>5
        <4>7. Frame(a.m)[a.pos] = 18 /\ Frame(a.m)[a.pos + 1] = ch
          BY <1>1, <4>1, <4>3 DEF ByteOf
        <4>8. NoPairIn(a.m)
          BY <4>1
        <4>. QED
          BY <4>4, <4>6, <4>7, <4>8 DEF NoPairIn
      <3>. QED
        BY <3>1, <3>2
    <2>2. ~Complete(c, ByteOf(b)) /\ z.phase = "Non_Start"
      BY <1>1, <1>2, <1>5, <2>1, AtLeading
    <2>. QED
      BY <2>2 DEF Looks
  <1>. QED
    BY <1>4, <1>5 DEF Looks

(* What the parser makes of the first byte of a frame behind a frame. *)
LEMMA SeamStep ==
    ASSUME NEW c \in Contexts, NEW a, NEW b \in Marks, Follows(a, b), OnSeam(c, a),
           NEW z, z = After(c, ByteOf(b))
    PROVE  ~Complete(c, ByteOf(b)) /\ OnTrack(z, b)
  <1>1. PICK ch : ch = ByteOf(b)
    OBVIOUS
  <1>2. b.pos = 1 /\ c.phase = "Non_Start"
    BY DEF OnSeam, Follows
  <1>3. ch \in Nat /\ ch = 18 /\ z = After(c, ch)
    BY <1>1, <1>2, ByteAt
  <1>4. ~Complete(c, ByteOf(b)) /\ z.phase = "Leading"
    BY <1>1, <1>2, <1>3, AtNonStart
  <1>. QED
    BY <1>2, <1>4 DEF OnTrack

(* It stays in step, and a message is complete at the end of its frame.      *)
LEMMA StaysInStep ==
    ASSUME NEW c \in Contexts, NEW a, a = Nowhere \/ a \in Marks, NEW b \in Marks, Follows(a, b),
           NEW strictly \in BOOLEAN, strictly \/ NoPairIn(b.m), InStep(strictly, c, a),
           NEW z, z = After(c, ByteOf(b))
    PROVE  /\ InStep(strictly, z, b)
           /\ Complete(c, ByteOf(b)) => Ends(b) /\ z.type = b.m.type /\ z.payload = b.m.payload
  <1>1. CASE OnTrack(c, a)
    <2>1. a \in Marks /\ b.m = a.m /\ b.pos = a.pos + 1
      BY <1>1, TrackGoesOn
    <2>2. /\ OnTrack(z, b) \/ OnSeam(z, b)
          /\ Complete(c, ByteOf(b)) => Ends(b) /\ z.type = b.m.type /\ z.payload = b.m.payload
      BY <1>1, <2>1, TrackStep
    <2>3. OnSeam(z, b) => Looks(z, b)
      BY DEF OnSeam, Looks
    <2>. QED
      BY <2>2, <2>3 DEF InStep
  <1>2. CASE strictly /\ OnSeam(c, a)
    <2>1. ~Complete(c, ByteOf(b)) /\ OnTrack(z, b)
      BY <1>2, SeamStep
    <2>. QED
      BY <2>1 DEF InStep
  <1>3. CASE ~strictly /\ Looks(c, a)
    <2>1. ~Complete(c, ByteOf(b)) /\ (OnTrack(z, b) \/ Looks(z, b))
      BY <1>3, LookStep
    <2>. QED
      BY <1>3, <2>1 DEF InStep
  <1>. QED
    BY <1>1, <1>2, <1>3 DEF InStep

-----------------------------------------------------------------------------
(* What one read gives.                                                      *)

(* Whether a message is complete is a truth value. *)
LEMMA CompleteType ==
    ASSUME NEW c \in Contexts, NEW ch
    PROVE  on_imrt_link_byte_arrive(c, ch).complete \in BOOLEAN
  <1>1. PICK r : r = on_imrt_link_byte_arrive(c, ch)
    OBVIOUS
  <1>2. c.phase \in Phases
    BY DEF Contexts
  <1>3. CASE c.phase = "Non_Start"
    BY <1>3 DEF on_imrt_link_byte_arrive, OnNonStart, More
  <1>4. CASE c.phase = "Leading"
    BY <1>4 DEF on_imrt_link_byte_arrive, OnLeading, More
  <1>5. CASE c.phase = "Type"
    BY <1>5 DEF on_imrt_link_byte_arrive, OnType, More
  <1>6. CASE c.phase = "Size"
    <2>1. on_imrt_link_byte_arrive(c, ch) = OnSize(c, ch)
      BY <1>6 DEF on_imrt_link_byte_arrive
    <2>2. PICK f, w : /\ f = [c EXCEPT !.size = Field(@, c, ch), !.n = @ + 1]
                      /\ w = [f EXCEPT !.payload = <<>>]
      OBVIOUS
    <2>3. OnSize(c, ch) = CASE f.n < SizeBytes     -> More(f)
                            [] f.n = SizeBytes /\ f.size = 0          -> Done(w)
                            [] f.n = SizeBytes /\ f.size > MaxPayload -> More(Start(w, "Non_Start"))
                            [] OTHER                                  -> More(Start(w, "Payload"))
      BY <2>2 DEF OnSize
    <2>4. \/ OnSize(c, ch) = More(f) \/ OnSize(c, ch) = Done(w)
          \/ OnSize(c, ch) = More(Start(w, "Non_Start")) \/ OnSize(c, ch) = More(Start(w, "Payload"))
      BY <2>3
    <2>5. ASSUME NEW x PROVE More(x).complete \in BOOLEAN /\ Done(x).complete \in BOOLEAN
      BY DEF More, Done
    <2>. QED
      BY <2>1, <2>4, <2>5, Zenon
  <1>7. CASE c.phase = "Payload"
    BY <1>7 DEF on_imrt_link_byte_arrive, OnPayload, More, Done
  <1>. QED
    BY <1>2, <1>3, <1>4, <1>5, <1>6, <1>7 DEF Phases

Accs == [ctx : Contexts, out : Seq(Outputs)]

(* A byte after a message changes nothing; one before it is the parser's. *)
LEMMA StepIs ==
    ASSUME NEW acc \in Accs, NEW ch \in Nat, NEW c, c = acc.ctx, NEW z, z = After(c, ch),
           NEW t, t = Step(acc, ch)
    PROVE  /\ t \in Accs
           /\ acc.out # <<>> => t = acc
           /\ acc.out = <<>> =>
                 /\ t.ctx = z
                 /\ t.out = IF Complete(c, ch) /\ z.type \in ReplyTypes
                            THEN <<Message(z.type, z.payload)>> ELSE <<>>
  <1>1. c \in Contexts /\ acc.out \in Seq(Outputs)
    BY DEF Accs
  <1>2. CASE acc.out # <<>>
    BY <1>2 DEF Step
  <1>3. CASE acc.out = <<>>
    <2>1. z \in Contexts
      BY <1>1, ParsedType
    <2>2. PICK r : r = on_imrt_link_byte_arrive(c, ch)
      OBVIOUS
    <2>3. r.complete \in BOOLEAN
      BY <1>1, <2>2, CompleteType
    <2>4. r.ctx = z /\ (Complete(c, ch) <=> r.complete = TRUE)
      BY <2>2 DEF After, Complete
    <2>5. PICK o : o = IF r.complete /\ z.type \in ReplyTypes
                       THEN <<Message(z.type, z.payload)>> ELSE <<>>
      OBVIOUS
    <2>6. t = [ctx |-> z, out |-> o]
      BY <1>3, <2>2, <2>4, <2>5 DEF Step
    <2>7. o \in Seq(Outputs)
      <3>1. z.type \in Nat /\ z.payload \in Seq(Nat)
        BY <2>1 DEF Contexts
      <3>2. PICK m : m = Message(z.type, z.payload)
        OBVIOUS
      <3>3. m \in Outputs
        BY <3>1, <3>2 DEF Message, Outputs
      <3>4. <<m>> \in Seq(Outputs) /\ <<>> \in Seq(Outputs)
        BY <3>3
      <3>. QED
        BY <2>5, <3>2, <3>4
    <2>8. t \in Accs
      BY <2>1, <2>6, <2>7 DEF Accs
    <2>9. r.complete <=> Complete(c, ch)
      BY <2>3, <2>4
    <2>. QED
      BY <1>3, <2>5, <2>6, <2>8, <2>9
  <1>. QED
    BY <1>2, <1>3

Fold(c, s, f) ==
    /\ f \in [0 .. Len(s) -> Accs]
    /\ f[0] = [ctx |-> c, out |-> <<>>]
    /\ \A i \in 1 .. Len(s) : f[i] = Step(f[i - 1], s[i])

(* process_rcvd_data takes the steps one after the other. *)
LEMMA Folding ==
    ASSUME NEW c \in Contexts, NEW s \in Seq(Nat), NEW r, r = process_rcvd_data(c, s)
    PROVE  \E f : Fold(c, s, f) /\ r = f[Len(s)]
  <1> DEFINE N == Len(s)
             base == [ctx |-> c, out |-> <<>>]
             step == [i \in 1 .. N |-> [acc \in Accs |-> Step(acc, s[i])]]
             Is1(f) == f = [i \in 0 .. N |-> IF i = 0 THEN base ELSE Step(f[i - 1], s[i])]
             after == CHOOSE f : Is1(f)
  <1>1. r = after[N]
    BY DEF process_rcvd_data
  <1>2. N \in Nat /\ \A i \in 1 .. N : s[i] \in Nat
    OBVIOUS
  <1>3. base \in Accs
    BY DEF Accs
  <1>. HIDE DEF base
  <1>4. ASSUME NEW i \in 1 .. N, NEW acc \in Accs PROVE Step(acc, s[i]) \in Accs
    <2>1. PICK ch, d, z : ch = s[i] /\ d = acc.ctx /\ z = After(d, ch)
      OBVIOUS
    <2>2. ch \in Nat
      BY <1>2, <2>1
    <2>. QED
      BY <2>1, <2>2, StepIs, Zenon
  <1>5. step \in [1 .. N -> [Accs -> Accs]]
    <2>. HIDE DEF N
    <2>1. \A i \in 1 .. N : [acc \in Accs |-> Step(acc, s[i])] \in [Accs -> Accs]
      BY <1>4
    <2>. QED
      BY <2>1
  <1>6. PICK f : Iteration(f, N, Accs, base, step)
    <2>. HIDE DEF step, N
    <2>. QED
      BY <1>2, <1>3, <1>5, Iterate, Zenon
  <1>7. Is1(f)
    <2>. HIDE DEF N
    <2>1. f \in [0 .. N -> Accs] /\ f[0] = base /\ \A i \in 1 .. N : f[i] = step[i][f[i - 1]]
      <3>. HIDE DEF step
      <3>. QED
        BY <1>6 DEF Iteration
    <2>2. ASSUME NEW i \in 1 .. N PROVE f[i] = Step(f[i - 1], s[i])
      <3>1. i - 1 \in 0 .. N
        BY <1>2
      <3>2. f[i - 1] \in Accs
        BY <2>1, <3>1
      <3>3. step[i][f[i - 1]] = Step(f[i - 1], s[i])
        BY <3>2
      <3>. QED
        BY <2>1, <3>3
    <2>. HIDE DEF step
    <2>3. \A i \in 0 .. N : i = 0 \/ i \in 1 .. N
      BY <1>2
    <2>. QED
      BY <2>1, <2>2, <2>3
  <1>8. Is1(after)
    <2>. HIDE DEF Is1
    <2>. QED
      BY <1>7
  <1>. HIDE DEF after
  <1>9. after[0] = base /\ \A i \in 1 .. N : after[i] = Step(after[i - 1], s[i])
    <2>. HIDE DEF N
    <2>. QED
      BY <1>2, <1>8
  <1>10. \A n \in Nat : n \in 0 .. N => after[n] \in Accs
    <2> DEFINE T == {n \in Nat : n <= N => after[n] \in Accs}
    <2>. HIDE DEF N
    <2>1. 0 \in T
      BY <1>3, <1>9
    <2>2. ASSUME NEW n \in Nat, n \in T PROVE n + 1 \in T
      <3>. SUFFICES ASSUME n + 1 <= N PROVE after[n + 1] \in Accs
        OBVIOUS
      <3>1. n + 1 \in 1 .. N /\ (n + 1) - 1 = n /\ n <= N
        BY <1>2
      <3>2. after[n] \in Accs
        BY <2>2, <3>1
      <3>. QED
        BY <1>4, <1>9, <3>1, <3>2
    <2>3. \A n \in Nat : n \in T
      <3>. HIDE DEF T
      <3>. QED
        BY <2>1, <2>2, Induction
    <2>. QED
      BY <1>2, <2>3
  <1>11. after \in [0 .. N -> Accs]
    <2>. HIDE DEF N
    <2>1. after = [i \in 0 .. N |-> IF i = 0 THEN base ELSE Step(after[i - 1], s[i])]
      BY <1>8
    <2>2. \A n \in 0 .. N : after[n] \in Accs
      BY <1>2, <1>10
    <2>. QED
      BY <2>1, <2>2
  <1>12. Fold(c, s, after)
    BY <1>9, <1>11 DEF Fold, base
  <1>. QED
    BY <1>1, <1>12

-----------------------------------------------------------------------------
(* What one read makes of the frames.                                        *)

(* A message is its type and its payload. *)
LEMMA MessageIs ==
    ASSUME NEW m \in Content
    PROVE  Message(m.type, m.payload) = m
  BY DEF Message, Content

(* A message that came out, and where its frame ended. *)
CameOut(marks, k, r) ==
    /\ r.ctx.phase = "Non_Start"
    /\ \E p \in 1 .. k : /\ Ends(marks[p]) /\ marks[p].m.type \in ReplyTypes
                         /\ r.out = <<marks[p].m>>

(* What the bytes say as long as the parser is in step: it stays so, and the *)
(* message that comes out is that of the frame that ended.                   *)
Reads(strictly, last, marks, k, r) ==
    IF r.out = <<>> THEN InStep(strictly, r.ctx, Before(last, marks, k + 1))
    ELSE CameOut(marks, k, r)

(* The place before the first is a mark or none. *)
LEMMA BeforeType ==
    ASSUME NEW last, last = Nowhere \/ last \in Marks, NEW marks \in Seq(Marks),
           NEW i \in 1 .. Len(marks) + 1
    PROVE  Before(last, marks, i) = Nowhere \/ Before(last, marks, i) \in Marks
  <1>1. CASE i = 1
    BY <1>1 DEF Before
  <1>2. CASE i # 1
    <2>1. i - 1 \in 1 .. Len(marks) /\ Before(last, marks, i) = marks[i - 1]
      BY <1>2 DEF Before
    <2>. QED
      BY <2>1
  <1>. QED
    BY <1>1, <1>2

(* One more byte. *)
LEMMA ReadsOneMore ==
    ASSUME NEW last, last = Nowhere \/ last \in Marks, NEW marks \in Seq(Marks),
           NEW k \in Nat, k < Len(marks), Follows(Before(last, marks, k + 1), marks[k + 1]),
           NEW strictly \in BOOLEAN, strictly \/ NoPairIn(marks[k + 1].m),
           NEW r \in Accs, Reads(strictly, last, marks, k, r),
           NEW t, t = Step(r, ByteOf(marks[k + 1]))
    PROVE  t \in Accs /\ Reads(strictly, last, marks, k + 1, t)
  <1>1. PICK a, b, ch, c, z : /\ a = Before(last, marks, k + 1) /\ b = marks[k + 1]
                              /\ ch = ByteOf(b) /\ c = r.ctx /\ z = After(c, ch)
    OBVIOUS
  <1>2. k + 1 \in 1 .. Len(marks) /\ k + 1 \in 1 .. Len(marks) + 1 /\ (k + 1) + 1 # 1
        /\ ((k + 1) + 1) - 1 = k + 1
    OBVIOUS
  <1>3. b \in Marks /\ (a = Nowhere \/ a \in Marks)
    <2>1. b \in Marks
      BY <1>1, <1>2
    <2>2. Before(last, marks, k + 1) = Nowhere \/ Before(last, marks, k + 1) \in Marks
      BY <1>2, BeforeType, Zenon
    <2>. QED
      BY <1>1, <2>1, <2>2, Zenon
  <1>4. ch \in Nat /\ b.m \in Content
    BY <1>1, <1>3, ByteAt
  <1>5. c \in Contexts
    BY <1>1 DEF Accs
  <1>6. t = Step(r, ch) /\ c = r.ctx /\ z = After(c, ch)
    BY <1>1
  <1>7. /\ t \in Accs
        /\ r.out # <<>> => t = r
        /\ r.out = <<>> =>
              /\ t.ctx = z
              /\ t.out = IF Complete(c, ch) /\ z.type \in ReplyTypes
                         THEN <<Message(z.type, z.payload)>> ELSE <<>>
    BY <1>4, <1>6, StepIs
  <1>8. CASE r.out # <<>>
    <2>1. t = r /\ CameOut(marks, k, r)
      BY <1>7, <1>8 DEF Reads
    <2>2. \A p \in 1 .. k : p \in 1 .. k + 1
      OBVIOUS
    <2>3. CameOut(marks, k + 1, r)
      BY <2>1, <2>2 DEF CameOut
    <2>. QED
      BY <1>7, <1>8, <2>1, <2>3 DEF Reads
  <1>9. CASE r.out = <<>>
    <2>1. InStep(strictly, c, a)
      BY <1>1, <1>9 DEF Reads
    <2>2. /\ InStep(strictly, z, b)
          /\ Complete(c, ch) => Ends(b) /\ z.type = b.m.type /\ z.payload = b.m.payload
      <3>1. Follows(a, b) /\ (strictly \/ NoPairIn(b.m)) /\ z = After(c, ByteOf(b))
            /\ (Complete(c, ch) <=> Complete(c, ByteOf(b)))
        BY <1>1
      <3>2. /\ InStep(strictly, z, b)
            /\ Complete(c, ByteOf(b)) =>
                  Ends(b) /\ z.type = b.m.type /\ z.payload = b.m.payload
        BY <1>3, <1>5, <2>1, <3>1, StaysInStep
      <3>. QED
        BY <3>1, <3>2
    <2>3. CASE Complete(c, ch) /\ z.type \in ReplyTypes
      <3>1. t.ctx = z /\ t.out = <<Message(z.type, z.payload)>>
        BY <1>7, <1>9, <2>3
      <3>2. t.out = <<b.m>> /\ b.m.type \in ReplyTypes /\ Ends(b)
        <4>1. Message(b.m.type, b.m.payload) = b.m
          BY <1>4, MessageIs
        <4>. QED
          BY <2>2, <2>3, <3>1, <4>1
      <3>3. z.phase = "Non_Start"
        BY <1>1, <1>4, <1>5, <2>3, ParsedType
      <3>4. k + 1 \in 1 .. k + 1
        OBVIOUS
      <3>5. CameOut(marks, k + 1, t)
        BY <1>1, <3>1, <3>2, <3>3, <3>4 DEF CameOut
      <3>6. t.out # <<>>
        BY <3>2
      <3>. QED
        BY <1>7, <3>5, <3>6 DEF Reads
    <2>4. CASE ~(Complete(c, ch) /\ z.type \in ReplyTypes)
      <3>1. t.ctx = z /\ t.out = <<>>
        BY <1>7, <1>9, <2>4
      <3>2. Before(last, marks, (k + 1) + 1) = b
        BY <1>1, <1>2 DEF Before
      <3>. QED
        BY <1>7, <2>2, <3>1, <3>2 DEF Reads
    <2>. QED
      BY <2>3, <2>4
  <1>. QED
    BY <1>8, <1>9

(* All that one read returned. *)
LEMMA ReadsAll ==
    ASSUME NEW last, last = Nowhere \/ last \in Marks, NEW marks \in Seq(Marks),
           \A i \in 1 .. Len(marks) : Follows(Before(last, marks, i), marks[i]),
           NEW strictly \in BOOLEAN,
           strictly \/ \A i \in 1 .. Len(marks) : NoPairIn(marks[i].m),
           NEW c \in Contexts, InStep(strictly, c, last),
           NEW s \in Seq(Nat), Len(s) <= Len(marks),
           \A i \in 1 .. Len(s) : s[i] = ByteOf(marks[i]),
           NEW r, r = process_rcvd_data(c, s)
    PROVE  Reads(strictly, last, marks, Len(s), r)
  <1>1. PICK f : Fold(c, s, f) /\ r = f[Len(s)]
    BY Folding
  <1>2. PICK N : N = Len(s)
    OBVIOUS
  <1>3. N \in Nat /\ N <= Len(marks)
    BY <1>2
  <1>4. /\ f \in [0 .. N -> Accs] /\ f[0] = [ctx |-> c, out |-> <<>>]
        /\ \A i \in 1 .. N : f[i] = Step(f[i - 1], s[i])
    BY <1>1, <1>2 DEF Fold
  <1> DEFINE T == {k \in Nat : k <= N => Reads(strictly, last, marks, k, f[k])}
  <1>5. 0 \in T
    <2>1. f[0].ctx = c /\ f[0].out = <<>>
      BY <1>4
    <2>2. Before(last, marks, 0 + 1) = last
      BY DEF Before
    <2>3. Reads(strictly, last, marks, 0, f[0])
      BY <2>1, <2>2 DEF Reads
    <2>. QED
      BY <2>3
  <1>6. ASSUME NEW k \in Nat, k \in T PROVE k + 1 \in T
    <2>. SUFFICES ASSUME k + 1 <= N PROVE Reads(strictly, last, marks, k + 1, f[k + 1])
      OBVIOUS
    <2>1. k + 1 \in 1 .. N /\ k \in 0 .. N /\ (k + 1) - 1 = k /\ k < Len(marks)
          /\ k + 1 \in 1 .. Len(marks)
      BY <1>3
    <2>2. f[k] \in Accs /\ Reads(strictly, last, marks, k, f[k])
      BY <1>4, <1>6, <2>1
    <2>3. f[k + 1] = Step(f[k], ByteOf(marks[k + 1]))
      BY <1>2, <1>4, <2>1
    <2>4. /\ Follows(Before(last, marks, k + 1), marks[k + 1])
          /\ strictly \/ NoPairIn(marks[k + 1].m)
      BY <2>1
    <2>5. PICK a, t : a = f[k] /\ t = f[k + 1]
      OBVIOUS
    <2>. QED
      BY <2>1, <2>2, <2>3, <2>4, <2>5, ReadsOneMore
  <1>7. \A k \in Nat : k \in T
    <2>. HIDE DEF T
    <2>. QED
      BY <1>5, <1>6, Induction
  <1>. QED
    BY <1>1, <1>2, <1>3, <1>7

(* Whatever the state of the parser, a read gives one message or none, and   *)
(* after one the parser is between frames.                                   *)
LEMMA ReadsOneOrNone ==
    ASSUME NEW c \in Contexts, NEW s \in Seq(Nat), NEW r, r = process_rcvd_data(c, s)
    PROVE  /\ r \in Accs
           /\ r.out = <<>> \/ (r.ctx.phase = "Non_Start" /\ \E o \in Outputs : r.out = <<o>>)
  <1> DEFINE Good(t) == \/ t.out = <<>>
                        \/ t.ctx.phase = "Non_Start" /\ \E o \in Outputs : t.out = <<o>>
  <1>1. PICK f : Fold(c, s, f) /\ r = f[Len(s)]
    BY Folding
  <1>2. PICK N : N = Len(s)
    OBVIOUS
  <1>3. N \in Nat
    BY <1>2
  <1>4. /\ f \in [0 .. N -> Accs] /\ f[0] = [ctx |-> c, out |-> <<>>]
        /\ \A i \in 1 .. N : f[i] = Step(f[i - 1], s[i])
    BY <1>1, <1>2 DEF Fold
  <1> DEFINE T == {k \in Nat : k <= N => Good(f[k])}
  <1>5. 0 \in T
    BY <1>4
  <1>6. ASSUME NEW k \in Nat, k \in T PROVE k + 1 \in T
    <2>. SUFFICES ASSUME k + 1 <= N PROVE Good(f[k + 1])
      OBVIOUS
    <2>1. k + 1 \in 1 .. N /\ k \in 0 .. N /\ (k + 1) - 1 = k
      BY <1>3
    <2>2. PICK a, t, ch, d, z : /\ a = f[k] /\ t = f[k + 1] /\ ch = s[k + 1] /\ d = a.ctx
                                /\ z = After(d, ch)
      OBVIOUS
    <2>3. a \in Accs /\ ch \in Nat /\ t = Step(a, ch) /\ d = a.ctx /\ z = After(d, ch)
      <3>1. a \in Accs /\ f[k + 1] = Step(f[k], s[k + 1])
        BY <1>4, <2>1, <2>2
      <3>2. ch \in Nat
        BY <1>2, <2>1, <2>2
      <3>. QED
        BY <2>2, <3>1, <3>2
    <2>4. Good(a)
      BY <1>6, <2>1, <2>2
    <2>5. /\ a.out # <<>> => t = a
          /\ a.out = <<>> =>
                /\ t.ctx = z
                /\ t.out = IF Complete(d, ch) /\ z.type \in ReplyTypes
                           THEN <<Message(z.type, z.payload)>> ELSE <<>>
      BY <2>3, StepIs
    <2>6. d \in Contexts
      BY <2>2, <2>3 DEF Accs
    <2>7. z \in Contexts /\ (Complete(d, ch) => z.phase = "Non_Start")
      BY <2>2, <2>3, <2>6, ParsedType, Zenon
    <2>8. Message(z.type, z.payload) \in Outputs
      BY <2>7 DEF Contexts, Outputs, Message
    <2>9. Good(t)
      <3>1. CASE a.out # <<>>
        BY <2>4, <2>5, <3>1
      <3>2. CASE a.out = <<>> /\ Complete(d, ch) /\ z.type \in ReplyTypes
        BY <2>5, <2>7, <2>8, <3>2
      <3>3. CASE a.out = <<>> /\ ~(Complete(d, ch) /\ z.type \in ReplyTypes)
        BY <2>5, <3>3
      <3>. QED
        BY <3>1, <3>2, <3>3
    <2>. QED
      BY <2>2, <2>9
  <1>7. \A k \in Nat : k \in T
    <2>. HIDE DEF T
    <2>. QED
      BY <1>5, <1>6, Induction
  <1>8. Good(r)
    BY <1>1, <1>2, <1>3, <1>7
  <1>9. r \in Accs
    <2>1. N \in 0 .. N
      BY <1>3
    <2>. QED
      BY <1>1, <1>2, <1>4, <2>1
  <1>. QED
    BY <1>8, <1>9

-----------------------------------------------------------------------------
(* Where a message was sent.                                                 *)

(* The number in its payload tells a message apart. *)
LEMMA PlaceOf ==
    ASSUME NEW s \in Seq(Content), Numbered(s), NEW k \in DOMAIN s
    PROVE  PlaceIn(s, s[k]) = k
  <1> DEFINE i == CHOOSE i \in DOMAIN s : s[i] = s[k]
  <1>1. i \in DOMAIN s /\ s[i] = s[k]
    OBVIOUS
  <1>2. PlaceIn(s, s[k]) = i
    BY DEF PlaceIn
  <1>. HIDE DEF i
  <1>3. s[i].payload[1] = i /\ s[k].payload[1] = k
    BY <1>1 DEF Numbered
  <1>. QED
    BY <1>1, <1>2, <1>3

(* A place that is not 0 is that of the message. *)
LEMMA PlaceType ==
    ASSUME NEW s \in Seq(Content), NEW o
    PROVE  /\ PlaceIn(s, o) \in Nat
           /\ PlaceIn(s, o) # 0 => PlaceIn(s, o) \in DOMAIN s /\ s[PlaceIn(s, o)] = o
  <1>1. CASE \E i \in DOMAIN s : s[i] = o
    <2> DEFINE i == CHOOSE i \in DOMAIN s : s[i] = o
    <2>1. i \in DOMAIN s /\ s[i] = o
      BY <1>1
    <2>2. PlaceIn(s, o) = i
      BY <1>1 DEF PlaceIn
    <2>. HIDE DEF i
    <2>. QED
      BY <2>1, <2>2
  <1>2. CASE ~\E i \in DOMAIN s : s[i] = o
    BY <1>2 DEF PlaceIn
  <1>. QED
    BY <1>1, <1>2

(* Fewer are not more. *)
LEMMA GarbledFinite ==
    ASSUME NEW n \in Nat, NEW A, A \subseteq 1 .. n
    PROVE  /\ IsFiniteSet(A) /\ Cardinality(A) \in Nat
           /\ \A B : B \subseteq A => Cardinality(B) <= Cardinality(A)
           /\ \A x : Cardinality(A \cup {x}) <= Cardinality(A) + 1
  <1>1. IsFiniteSet(A)
    <2>1. IsFiniteSet(1 .. n)
      BY FS_Interval
    <2>. QED
      BY <2>1, FS_Subset, Zenon
  <1>2. Cardinality(A) \in Nat
    BY <1>1, FS_CardinalityType
  <1>3. \A B : B \subseteq A => Cardinality(B) <= Cardinality(A)
    BY <1>1, FS_Subset
  <1>4. \A x : Cardinality(A \cup {x}) <= Cardinality(A) + 1
    BY <1>1, <1>2, FS_AddElement
  <1>. QED
    BY <1>1, <1>2, <1>3, <1>4

-----------------------------------------------------------------------------
(* A part of a sequence.                                                     *)

(* What is read of a sequence, and what is left. *)
LEMMA CutAt ==
    ASSUME NEW S, NEW s \in Seq(S), NEW n \in 0 .. Len(s),
           NEW a, a = SubSeq(s, 1, n), NEW b, b = SubSeq(s, n + 1, Len(s))
    PROVE  /\ Len(s) \in Nat /\ DOMAIN s = 1 .. Len(s)
           /\ a \in Seq(S) /\ Len(a) = n /\ DOMAIN a = 1 .. n /\ \A i \in 1 .. n : a[i] = s[i]
           /\ b \in Seq(S) /\ Len(b) = Len(s) - n /\ DOMAIN b = 1 .. Len(s) - n
           /\ \A i \in 1 .. Len(s) - n : b[i] = s[n + i]
  <1>1. Len(s) \in Nat /\ DOMAIN s = 1 .. Len(s) /\ n \in Nat /\ n <= Len(s)
    OBVIOUS
  <1>2. a \in Seq(S) /\ Len(a) = n /\ \A i \in 1 .. n : a[i] = s[i]
    OBVIOUS
  <1>3. b \in Seq(S) /\ Len(b) = Len(s) - n
    OBVIOUS
  <1>4. \A i \in 1 .. Len(s) - n : b[i] = s[n + i]
    OBVIOUS
  <1>5. Len(s) - n \in Nat
    BY <1>1
  <1>6. DOMAIN a = 1 .. n /\ DOMAIN b = 1 .. Len(s) - n
    <2>1. DOMAIN a = 1 .. Len(a)
      BY <1>2
    <2>2. DOMAIN b = 1 .. Len(b)
      BY <1>3
    <2>. QED
      BY <1>2, <1>3, <2>1, <2>2, Zenon
  <1>. QED
    BY <1>1, <1>2, <1>3, <1>4, <1>6, Zenon

(* The marks of a frame. *)
FrameMarks(m, num) ==
    [j \in 1 .. 8 + Len(m.payload) |-> [m |-> m, pos |-> j, num |-> num]]

Extended(marks, m, num, t) ==
    /\ t \in Seq(Marks) /\ Len(t) = Len(marks) + (8 + Len(m.payload)) /\ DOMAIN t = 1 .. Len(t)
    /\ \A i \in DOMAIN t :
          \/ i \in DOMAIN marks /\ t[i] = marks[i]
          \/ /\ i \notin DOMAIN marks /\ i - Len(marks) \in 1 .. 8 + Len(m.payload)
             /\ t[i] = [m |-> m, pos |-> i - Len(marks), num |-> num]

(* A frame more. *)
LEMMA FrameAdded ==
    ASSUME NEW marks \in Seq(Marks), NEW m \in Content, NEW num \in Nat,
           NEW t, t = marks \o FrameMarks(m, num)
    PROVE  Extended(marks, m, num, t)
  <1>1. PICK l, fm, k : l = Len(m.payload) /\ fm = FrameMarks(m, num) /\ k = Len(marks)
    OBVIOUS
  <1>2. l \in Nat /\ k \in Nat /\ DOMAIN marks = 1 .. k
    BY <1>1 DEF Content
  <1>3. fm = [j \in 1 .. 8 + l |-> [m |-> m, pos |-> j, num |-> num]]
    BY <1>1 DEF FrameMarks
  <1>4. \A j \in 1 .. 8 + l : [m |-> m, pos |-> j, num |-> num] \in Marks
    BY <1>1, <1>2 DEF Marks
  <1>5. fm \in Seq(Marks) /\ Len(fm) = 8 + l
    <2>1. fm \in [1 .. 8 + l -> Marks] /\ 8 + l \in Nat
      BY <1>2, <1>3, <1>4
    <2>. QED
      BY <2>1
  <1>6. /\ t \in Seq(Marks) /\ Len(t) = k + (8 + l)
        /\ \A i \in 1 .. k + (8 + l) : t[i] = IF i <= k THEN marks[i] ELSE fm[i - k]
    <2>1. t = marks \o fm
      BY <1>1
    <2>2. /\ t \in Seq(Marks) /\ Len(t) = Len(marks) + Len(fm)
          /\ \A i \in 1 .. Len(marks) + Len(fm) :
                t[i] = IF i <= Len(marks) THEN marks[i] ELSE fm[i - Len(marks)]
      BY <1>5, <2>1, ConcatProperties
    <2>. QED
      BY <1>1, <1>5, <2>2, Zenon
  <1>7. ASSUME NEW i \in 1 .. k + (8 + l)
        PROVE  \/ i \in 1 .. k /\ t[i] = marks[i]
               \/ /\ i \notin 1 .. k /\ i - k \in 1 .. 8 + l
                  /\ t[i] = [m |-> m, pos |-> i - k, num |-> num]
    <2>1. CASE i <= k
      BY <1>2, <1>6, <2>1
    <2>2. CASE ~(i <= k)
      <3>1. i - k \in 1 .. 8 + l /\ i \notin 1 .. k
        BY <1>2, <2>2
      <3>. QED
        BY <1>3, <1>6, <2>2, <3>1
    <2>. QED
      BY <2>1, <2>2
  <1>8. DOMAIN t = 1 .. k + (8 + l)
    BY <1>2, <1>6
  <1>. QED
    BY <1>1, <1>2, <1>6, <1>7, <1>8 DEF Extended

(* The bytes of the marks. *)
BytesOf(marks) == [i \in DOMAIN marks |-> ByteOf(marks[i])]

(* Each byte with a frame more follows the one before it. *)
LEMMA FrameFollows ==
    ASSUME NEW last, NEW marks \in Seq(Marks), NEW m \in Content, NEW num \in Nat, NEW t,
           Extended(marks, m, num, t), Ends(Before(last, marks, Len(marks) + 1)),
           \A i \in DOMAIN marks : Follows(Before(last, marks, i), marks[i])
    PROVE  /\ \A i \in DOMAIN t : Follows(Before(last, t, i), t[i])
           /\ Ends(Before(last, t, Len(t) + 1))
  <1>1. PICK l, k : l = Len(m.payload) /\ k = Len(marks)
    OBVIOUS
  <1>2. l \in Nat /\ k \in Nat /\ DOMAIN marks = 1 .. k
    BY <1>1 DEF Content
  <1>3. /\ Len(t) = k + (8 + l) /\ DOMAIN t = 1 .. k + (8 + l)
        /\ \A i \in 1 .. k + (8 + l) :
              \/ i \in 1 .. k /\ t[i] = marks[i]
              \/ /\ i \notin 1 .. k /\ i - k \in 1 .. 8 + l
                 /\ t[i] = [m |-> m, pos |-> i - k, num |-> num]
    BY <1>1, <1>2 DEF Extended
  <1>4. ASSUME NEW i \in DOMAIN t PROVE Follows(Before(last, t, i), t[i])
    <2>1. i \in Nat /\ i >= 1 /\ i <= k + (8 + l)
      BY <1>2, <1>3
    <2>2. CASE i <= k
      <3>1. i \in 1 .. k /\ t[i] = marks[i]
        BY <1>2, <1>3, <2>1, <2>2
      <3>2. Before(last, t, i) = Before(last, marks, i)
        <4>1. CASE i = 1
          BY <4>1 DEF Before
        <4>2. CASE i # 1
          <5>1. i - 1 \in 1 .. k /\ i - 1 \in 1 .. k + (8 + l)
            BY <1>2, <2>1, <2>2, <4>2
          <5>2. t[i - 1] = marks[i - 1]
            BY <1>3, <5>1
          <5>. QED
            BY <4>2, <5>2 DEF Before
        <4>. QED
          BY <4>1, <4>2
      <3>. QED
        BY <1>2, <3>1, <3>2
    <2>3. CASE i = k + 1
      <3>1. t[i].pos = 1
        <4>1. i \notin 1 .. k /\ i - k = 1 /\ i \in 1 .. k + (8 + l)
          BY <1>2, <2>1, <2>3
        <4>. QED
          BY <1>3, <4>1
      <3>2. Before(last, t, i) = Before(last, marks, k + 1)
        <4>1. CASE i = 1
          BY <2>3, <4>1 DEF Before
        <4>2. CASE i # 1
          <5>1. i - 1 \in 1 .. k /\ i - 1 \in 1 .. k + (8 + l) /\ i - 1 = (k + 1) - 1 /\ k + 1 # 1
            BY <1>2, <2>1, <2>3, <4>2
          <5>2. t[i - 1] = marks[i - 1]
            BY <1>3, <5>1
          <5>. QED
            BY <4>2, <5>1, <5>2 DEF Before
        <4>. QED
          BY <4>1, <4>2
      <3>. QED
        BY <1>1, <3>1, <3>2 DEF Follows
    <2>4. CASE i > k + 1
      <3>1. /\ i # 1 /\ i - 1 \in 1 .. k + (8 + l) /\ i - 1 \notin 1 .. k /\ i \notin 1 .. k
            /\ i \in 1 .. k + (8 + l)
        BY <1>2, <2>1, <2>4
      <3>2. PICK a, b : a = t[i - 1] /\ b = t[i]
        OBVIOUS
      <3>3. /\ a = [m |-> m, pos |-> (i - 1) - k, num |-> num]
            /\ b = [m |-> m, pos |-> i - k, num |-> num]
        BY <1>3, <3>1, <3>2
      <3>4. a.m = m /\ a.num = num /\ b.m = m /\ b.num = num /\ a.pos = (i - 1) - k /\ b.pos = i - k
        BY <3>3
      <3>5. b.pos = a.pos + 1 /\ a.pos # 0 /\ a.pos # 8 + l
        BY <1>2, <2>1, <2>4, <3>4
      <3>6. ~Ends(a)
        BY <1>1, <3>4, <3>5 DEF Ends
      <3>7. Before(last, t, i) = a
        BY <3>1, <3>2 DEF Before
      <3>. QED
        BY <3>2, <3>4, <3>5, <3>6, <3>7 DEF Follows
    <2>. QED
      BY <1>2, <2>1, <2>2, <2>3, <2>4
  <1>5. Ends(Before(last, t, Len(t) + 1))
    <2>1. PICK n : n = k + (8 + l)
      OBVIOUS
    <2>2. n \in Nat /\ n + 1 # 1 /\ (n + 1) - 1 = n /\ n \in 1 .. k + (8 + l) /\ n \notin 1 .. k
          /\ n - k = 8 + l
      BY <1>2, <2>1
    <2>3. t[n] = [m |-> m, pos |-> 8 + l, num |-> num]
      BY <1>3, <2>2
    <2>4. Before(last, t, Len(t) + 1) = t[n]
      BY <1>3, <2>1, <2>2 DEF Before
    <2>. QED
      BY <1>1, <2>3, <2>4 DEF Ends
  <1>. QED
    BY <1>4, <1>5

(* The bytes with a frame more. *)
LEMMA FrameAppended ==
    ASSUME NEW marks \in Seq(Marks), NEW m \in Content, NEW num \in Nat, NEW t,
           Extended(marks, m, num, t)
    PROVE  BytesOf(marks) \o Frame(m) = BytesOf(t)
  <1>1. PICK l, k, f, w, v : /\ l = Len(m.payload) /\ k = Len(marks) /\ f = Frame(m)
                             /\ w = BytesOf(marks) /\ v = BytesOf(t)
    OBVIOUS
  <1>2. l \in Nat /\ k \in Nat /\ DOMAIN marks = 1 .. k /\ \A i \in 1 .. k : marks[i] \in Marks
    BY <1>1 DEF Content
  <1>3. /\ t \in Seq(Marks) /\ DOMAIN t = 1 .. k + (8 + l)
        /\ \A i \in 1 .. k + (8 + l) :
              \/ i \in 1 .. k /\ t[i] = marks[i]
              \/ /\ i \notin 1 .. k /\ i - k \in 1 .. 8 + l
                 /\ t[i] = [m |-> m, pos |-> i - k, num |-> num]
    BY <1>1, <1>2 DEF Extended
  <1>4. f \in Seq(Nat) /\ Len(f) = 8 + l
    BY <1>1, FrameBytes, Zenon
  <1>5. w \in Seq(Nat) /\ Len(w) = k /\ \A i \in 1 .. k : w[i] = ByteOf(marks[i])
    <2>1. \A i \in 1 .. k : ByteOf(marks[i]) \in Nat
      BY <1>2, ByteAt
    <2>2. w = [i \in 1 .. k |-> ByteOf(marks[i])]
      BY <1>1, <1>2 DEF BytesOf
    <2>3. w \in [1 .. k -> Nat]
      BY <2>1, <2>2
    <2>. QED
      BY <1>2, <2>2, <2>3
  <1>6. PICK x : x = w \o f
    OBVIOUS
  <1>7. /\ x \in Seq(Nat) /\ Len(x) = k + (8 + l)
        /\ \A i \in 1 .. k + (8 + l) : x[i] = IF i <= k THEN w[i] ELSE f[i - k]
    <2>1. /\ x \in Seq(Nat) /\ Len(x) = Len(w) + Len(f)
          /\ \A i \in 1 .. Len(w) + Len(f) : x[i] = IF i <= Len(w) THEN w[i] ELSE f[i - Len(w)]
      BY <1>4, <1>5, <1>6, ConcatProperties
    <2>. QED
      BY <1>4, <1>5, <2>1, Zenon
  <1>8. ASSUME NEW i \in 1 .. k + (8 + l) PROVE x[i] = ByteOf(t[i])
    <2>1. CASE i \in 1 .. k
      <3>1. t[i] = marks[i] /\ i <= k
        BY <1>2, <1>3, <2>1
      <3>. QED
        BY <1>5, <1>7, <2>1, <3>1
    <2>2. CASE i \notin 1 .. k
      <3>1. ~(i <= k)
        BY <1>2, <2>2
      <3>2. t[i] = [m |-> m, pos |-> i - k, num |-> num]
        BY <1>3, <2>2
      <3>3. ByteOf(t[i]) = f[i - k]
        BY <1>1, <3>2 DEF ByteOf
      <3>. QED
        BY <1>7, <3>1, <3>3
    <2>. QED
      BY <2>1, <2>2
  <1>9. v = [i \in 1 .. k + (8 + l) |-> ByteOf(t[i])]
    BY <1>1, <1>3 DEF BytesOf
  <1>10. x = [i \in 1 .. k + (8 + l) |-> x[i]]
    BY <1>2, <1>7
  <1>11. x = v
    BY <1>8, <1>9, <1>10
  <1>. QED
    BY <1>1, <1>6, <1>11

-----------------------------------------------------------------------------
(* The runtime sends.                                                        *)

(* A message of the runtime is one of those the marks are about. *)
LEMMA ContentSent ==
    ASSUME NEW type \in Types, NEW n \in Nat,
           NEW q, q = <<>> \/ \E p \in Payloads : q = <<n>> \o p,
           NEW m, m = Message(type, q)
    PROVE  m \in Content /\ m.type = type /\ m.payload = q
  <1>1. m = [type |-> type, payload |-> q]
    BY DEF Message
  <1>2. type \in Nat /\ type < 256 * 256
    BY LinkAssumption
  <1>3. q \in Seq(Nat) /\ Len(q) <= MaxPayload
    <2>1. CASE q = <<>>
      BY <2>1 DEF MaxPayload
    <2>2. CASE \E p \in Payloads : q = <<n>> \o p
      <3>. PICK p \in Payloads : q = <<n>> \o p
        BY <2>2
      <3>1. p \in Seq(0 .. 255) /\ Len(p) < MaxPayload
        BY LinkAssumption
      <3>2. p \in Seq(Nat) /\ Len(p) \in Nat
        <4>1. Len(p) \in Nat /\ DOMAIN p = 1 .. Len(p) /\ p = [i \in 1 .. Len(p) |-> p[i]]
          BY <3>1
        <4>2. \A i \in 1 .. Len(p) : p[i] \in Nat
          <5>1. \A x \in 0 .. 255 : x \in Nat
            OBVIOUS
          <5>2. \A i \in 1 .. Len(p) : p[i] \in 0 .. 255
            BY <3>1, ElementOfSeq
          <5>. QED
            BY <5>1, <5>2, Zenon
        <4>3. PICK k : k = Len(p)
          OBVIOUS
        <4>4. p \in [1 .. k -> Nat] /\ k \in Nat
          BY <4>1, <4>2, <4>3
        <4>. QED
          BY <4>1, <4>4
      <3>3. <<n>> \in Seq(Nat) /\ Len(<<n>>) = 1
        OBVIOUS
      <3>4. q \in Seq(Nat) /\ Len(q) = Len(<<n>>) + Len(p)
        BY <3>2, <3>3, ConcatProperties
      <3>. QED
        BY <3>1, <3>2, <3>3, <3>4 DEF MaxPayload
    <2>. QED
      BY <2>1, <2>2
  <1>. QED
    BY <1>1, <1>2, <1>3 DEF Content

(* The number of a message is the first byte of its payload. *)
LEMMA NumberFirst ==
    ASSUME NEW p \in Payloads, NEW n \in Nat, NEW q, q = <<n>> \o p
    PROVE  q # <<>> /\ q[1] = n
  <1>1. p \in Seq(0 .. 255)
    BY LinkAssumption
  <1>. QED
    BY <1>1

(* One message more keeps the places of the others. *)
LEMMA SentMore ==
    ASSUME NEW s \in Seq(Content), Numbered(s), NEW m \in Content, m.type \in ReplyTypes,
           m.payload # <<>>, m.payload[1] = Len(s) + 1,
           NEW s2 \in Seq(Content), Len(s2) = Len(s) + 1, s2[Len(s) + 1] = m,
           \A i \in 1 .. Len(s) : s2[i] = s[i]
    PROVE  /\ Numbered(s2) /\ Len(s) + 1 \in DOMAIN s2
           /\ \A i \in DOMAIN s : i \in DOMAIN s2 /\ s2[i] = s[i]
           /\ \A o : PlaceIn(s, o) # 0 => PlaceIn(s2, o) = PlaceIn(s, o)
  <1>1. /\ s2 \in Seq(Content) /\ Len(s2) = Len(s) + 1 /\ Len(s) \in Nat
        /\ DOMAIN s = 1 .. Len(s) /\ DOMAIN s2 = 1 .. Len(s) + 1
        /\ \A i \in 1 .. Len(s) : s2[i] = s[i]
        /\ s2[Len(s) + 1] = m
    OBVIOUS
  <1>2. Numbered(s2)
    <2>1. SUFFICES ASSUME NEW k \in 1 .. Len(s) + 1
                   PROVE  s2[k].type \in ReplyTypes /\ s2[k].payload # <<>> /\ s2[k].payload[1] = k
      BY <1>1 DEF Numbered
    <2>2. CASE k = Len(s) + 1
      BY <1>1, <2>2
    <2>3. CASE k \in 1 .. Len(s)
      BY <1>1, <2>3 DEF Numbered
    <2>. QED
      BY <1>1, <2>2, <2>3
  <1>3. ASSUME NEW o, PlaceIn(s, o) # 0 PROVE PlaceIn(s2, o) = PlaceIn(s, o)
    <2>1. PICK k : k = PlaceIn(s, o)
      OBVIOUS
    <2>2. k \in DOMAIN s /\ s[k] = o
      BY <1>3, <2>1, PlaceType
    <2>3. k \in DOMAIN s2 /\ s2[k] = o
      BY <1>1, <2>2
    <2>4. PlaceIn(s2, s2[k]) = k
      BY <1>1, <1>2, <2>3, PlaceOf
    <2>. QED
      BY <2>1, <2>3, <2>4
  <1>4. Len(s) + 1 \in DOMAIN s2 /\ \A i \in DOMAIN s : i \in DOMAIN s2
    BY <1>1
  <1>. QED
    BY <1>1, <1>2, <1>3, <1>4

(* With a frame more the wire still holds what the marks say. *)
LEMMA StreamMore ==
    ASSUME NEW last, NEW marks, Stream(last, marks), linkUp, NEW m \in Content, NEW num \in Nat,
           NEW t, t = marks \o FrameMarks(m, num), wire' = wire \o Frame(m),
           \A b : Genuine(b) => Genuine(b)',
           \A pos : Genuine([m |-> m, pos |-> pos, num |-> num])'
    PROVE  Stream(last, t)'
  <1>1. /\ last = Nowhere \/ (last \in Marks /\ Genuine(last))
        /\ marks \in Seq(Marks)
        /\ \A i \in DOMAIN marks : Genuine(marks[i]) /\ Follows(Before(last, marks, i), marks[i])
        /\ wire = [i \in DOMAIN marks |-> ByteOf(marks[i])]
        /\ Ends(Before(last, marks, Len(marks) + 1))
    BY DEF Stream
  <1>2. Extended(marks, m, num, t)
    BY <1>1, FrameAdded
  <1>3. /\ \A i \in DOMAIN t : Follows(Before(last, t, i), t[i])
        /\ Ends(Before(last, t, Len(t) + 1))
    <2>1. \A i \in DOMAIN marks : Follows(Before(last, marks, i), marks[i])
      BY <1>1
    <2>. QED
      BY <1>1, <1>2, <2>1, FrameFollows
  <1>4. wire' = [i \in DOMAIN t |-> ByteOf(t[i])]
    <2>1. wire = BytesOf(marks)
      BY <1>1 DEF BytesOf
    <2>2. BytesOf(marks) \o Frame(m) = BytesOf(t)
      BY <1>1, <1>2, FrameAppended
    <2>. QED
      BY <2>1, <2>2 DEF BytesOf
  <1>5. ASSUME NEW i \in DOMAIN t PROVE Genuine(t[i])'
    <2>1. \/ i \in DOMAIN marks /\ t[i] = marks[i]
          \/ t[i] = [m |-> m, pos |-> i - Len(marks), num |-> num]
      BY <1>2 DEF Extended
    <2>2. CASE i \in DOMAIN marks /\ t[i] = marks[i]
      <3>1. Genuine(marks[i])'
        BY <1>1, <2>2
      <3>. QED
        BY <2>2, <3>1, Zenon
    <2>3. CASE t[i] = [m |-> m, pos |-> i - Len(marks), num |-> num]
      BY <2>3, Zenon
    <2>. QED
      BY <2>1, <2>2, <2>3
  <1>6. t \in Seq(Marks)
    BY <1>2 DEF Extended
  <1>7. last = Nowhere \/ (last \in Marks /\ Genuine(last)')
    BY <1>1
  <1>. QED
    BY <1>3, <1>4, <1>5, <1>6, <1>7 DEF Stream

(* A frame of a new message, or of none, comes after all the others. *)
LEMMA OrderedMore ==
    ASSUME NEW s \in Seq(Content), NEW s2, NEW dl, NEW marks \in Seq(Marks), NEW clean,
           Ordered(s, dl, marks, clean),
           \A i \in DOMAIN marks : marks[i].num <= Len(s),
           NEW m \in Content, NEW num \in Nat, num = 0 \/ num = Len(s) + 1,
           NEW t, Extended(marks, m, num, t),
           \A o : PlaceIn(s, o) # 0 => PlaceIn(s2, o) = PlaceIn(s, o),
           NEW clean2, clean2 => clean
    PROVE  Ordered(s2, dl, t, clean2)
  <1>1. PICK l, k, N : l = Len(m.payload) /\ k = Len(marks) /\ N = Len(s)
    OBVIOUS
  <1>2. /\ l \in Nat /\ k \in Nat /\ N \in Nat /\ DOMAIN marks = 1 .. k
        /\ \A i \in 1 .. k : marks[i].num \in Nat /\ marks[i].num <= N
    <2>1. l \in Nat /\ k \in Nat /\ N \in Nat /\ DOMAIN marks = 1 .. k
      BY <1>1 DEF Content
    <2>2. ASSUME NEW i \in 1 .. k PROVE marks[i].num \in Nat /\ marks[i].num <= N
      <3>1. marks[i] \in Marks /\ i \in DOMAIN marks
        BY <2>1
      <3>. QED
        BY <1>1, <3>1 DEF Marks
    <2>. QED
      BY <2>1, <2>2
  <1>3. /\ DOMAIN t = 1 .. k + (8 + l)
        /\ \A i \in 1 .. k + (8 + l) :
              \/ i \in 1 .. k /\ t[i] = marks[i]
              \/ /\ i \notin 1 .. k /\ i - k \in 1 .. 8 + l
                 /\ t[i] = [m |-> m, pos |-> i - k, num |-> num]
    BY <1>1, <1>2 DEF Extended
  <1>4. /\ \A i, j \in 1 .. k : i < j /\ marks[i].num # 0 /\ marks[j].num # 0 =>
              IF Ends(marks[i]) THEN marks[i].num < marks[j].num ELSE marks[i].num <= marks[j].num
        /\ \A i \in DOMAIN dl : dl[i].clean => PlaceIn(s, dl[i].message) # 0
        /\ \A i, j \in DOMAIN dl : i < j /\ dl[j].clean =>
              dl[i].clean /\ PlaceIn(s, dl[i].message) < PlaceIn(s, dl[j].message)
        /\ clean => \A i \in DOMAIN dl :
              /\ dl[i].clean
              /\ \A j \in 1 .. k : marks[j].num # 0 => PlaceIn(s, dl[i].message) < marks[j].num
    BY <1>2 DEF Ordered
  <1>5. ASSUME NEW i \in 1 .. k + (8 + l), NEW j \in 1 .. k + (8 + l),
               i < j, t[i].num # 0, t[j].num # 0
        PROVE  IF Ends(t[i]) THEN t[i].num < t[j].num ELSE t[i].num <= t[j].num
    <2>1. CASE j \in 1 .. k
      <3>1. i \in 1 .. k
        BY <1>2, <1>5, <2>1
      <3>2. t[i] = marks[i] /\ t[j] = marks[j]
        BY <1>3, <2>1, <3>1
      <3>. QED
        BY <1>4, <1>5, <2>1, <3>1, <3>2
    <2>2. CASE j \notin 1 .. k
      <3>1. t[j].num = num /\ num = N + 1
        <4>1. t[j] = [m |-> m, pos |-> j - k, num |-> num]
          BY <1>3, <2>2
        <4>. QED
          BY <1>1, <1>5, <4>1
      <3>2. CASE i \in 1 .. k
        <4>1. t[i].num \in Nat /\ t[i].num <= N
          BY <1>2, <1>3, <3>2
        <4>. QED
          BY <1>2, <3>1, <4>1
      <3>3. CASE i \notin 1 .. k
        <4>1. PICK a : a = t[i]
          OBVIOUS
        <4>2. a = [m |-> m, pos |-> i - k, num |-> num]
          BY <1>3, <3>3, <4>1
        <4>3. a.m = m /\ a.pos = i - k /\ a.num = num
          BY <4>2
        <4>4. a.pos # 0 /\ a.pos # 8 + l
          BY <1>2, <1>5, <3>3, <4>3
        <4>5. ~Ends(a)
          BY <1>1, <4>3, <4>4 DEF Ends
        <4>. QED
          BY <1>2, <3>1, <4>1, <4>3, <4>5
      <3>. QED
        BY <3>2, <3>3
    <2>. QED
      BY <2>1, <2>2
  <1>6. ASSUME NEW i \in DOMAIN dl, dl[i].clean
        PROVE  /\ PlaceIn(s2, dl[i].message) = PlaceIn(s, dl[i].message)
               /\ PlaceIn(s, dl[i].message) # 0 /\ PlaceIn(s, dl[i].message) \in 1 .. N
    <2>1. PlaceIn(s, dl[i].message) # 0
      BY <1>4, <1>6
    <2>2. PlaceIn(s, dl[i].message) \in DOMAIN s
      BY <2>1, PlaceType
    <2>. QED
      BY <1>1, <2>1, <2>2
  <1>7. \A i \in DOMAIN dl : dl[i].clean => PlaceIn(s2, dl[i].message) # 0
    BY <1>6
  <1>8. ASSUME NEW i \in DOMAIN dl, NEW j \in DOMAIN dl, i < j, dl[j].clean
        PROVE  dl[i].clean /\ PlaceIn(s2, dl[i].message) < PlaceIn(s2, dl[j].message)
    <2>1. dl[i].clean /\ PlaceIn(s, dl[i].message) < PlaceIn(s, dl[j].message)
      BY <1>4, <1>8
    <2>. QED
      BY <1>6, <1>8, <2>1
  <1>9. ASSUME clean2, NEW i \in DOMAIN dl
        PROVE  /\ dl[i].clean
               /\ \A j \in 1 .. k + (8 + l) : t[j].num # 0 => PlaceIn(s2, dl[i].message) < t[j].num
    <2>1. /\ dl[i].clean
          /\ \A j \in 1 .. k : marks[j].num # 0 => PlaceIn(s, dl[i].message) < marks[j].num
      BY <1>4, <1>9
    <2>2. PICK n : n = PlaceIn(s, dl[i].message)
      OBVIOUS
    <2>3. n \in 1 .. N /\ PlaceIn(s2, dl[i].message) = n
      BY <1>6, <2>1, <2>2
    <2>4. ASSUME NEW j \in 1 .. k + (8 + l), t[j].num # 0 PROVE n < t[j].num
      <3>1. CASE j \in 1 .. k
        BY <1>3, <2>1, <2>2, <2>4, <3>1
      <3>2. CASE j \notin 1 .. k
        <4>1. t[j] = [m |-> m, pos |-> j - k, num |-> num]
          BY <1>3, <3>2
        <4>. QED
          BY <1>1, <1>2, <2>3, <2>4, <4>1
      <3>. QED
        BY <3>1, <3>2
    <2>. QED
      BY <2>1, <2>3, <2>4
  <1>. QED
    BY <1>3, <1>5, <1>7, <1>8, <1>9 DEF Ordered

-----------------------------------------------------------------------------
(* The inductive invariant.                                                  *)

(* It holds at first, with nothing on the wire. *)
LEMMA InitHolds ==
    Init => IInv
  <1>. SUFFICES ASSUME Init PROVE InvAt(Nowhere, <<>>)
    BY DEF IInv
  <1>1. /\ ctx = [phase |-> "Non_Start", n |-> 0, type |-> 0, size |-> 0, payload |-> <<>>]
        /\ wire = <<>> /\ linkUp = TRUE /\ sent = <<>> /\ delivered = <<>> /\ breaks = 0
    BY DEF Init
  <1>2. Ends(Nowhere)
    BY DEF Ends, Nowhere
  <1>3. Stream(Nowhere, <<>>)
    <2>1. Len(<<>>) + 1 = 1 /\ DOMAIN <<>> = {} /\ <<>> \in Seq(Marks)
      OBVIOUS
    <2>2. Before(Nowhere, <<>>, Len(<<>>) + 1) = Nowhere
      BY <2>1 DEF Before
    <2>3. <<>> = [i \in DOMAIN <<>> |-> ByteOf(<<>>[i])]
      BY <2>1
    <2>. QED
      BY <1>1, <1>2, <2>1, <2>2, <2>3 DEF Stream
  <1>4. Typed
    <2>1. PICK s \in Seq(Nat) : s = <<>>
      <3>1. <<>> \in Seq(Nat)
        OBVIOUS
      <3>. QED
        BY <3>1, Zenon
    <2>2. ctx = [phase |-> "Non_Start", n |-> 0, type |-> 0, size |-> 0, payload |-> s]
      BY <1>1, <2>1
    <2>3. ctx \in Contexts
      BY <2>1, <2>2 DEF Contexts, Phases
    <2>4. sent \in Seq(Content) /\ delivered \in Seq([message : Outputs, clean : BOOLEAN])
      BY <1>1
    <2>5. Numbered(sent)
      BY <1>1 DEF Numbered
    <2>. QED
      BY <1>1, <2>3, <2>4, <2>5 DEF Typed
  <1>5. InStep(FALSE, ctx, Nowhere) /\ InStep(TRUE, ctx, Nowhere)
    BY <1>1, <1>2 DEF InStep, OnSeam, Looks
  <1>6. Resynchronised(Nowhere)
    <2>1. Garbled = {}
      BY <1>1 DEF Garbled, GarbledIn
    <2>2. Cardinality(Garbled) = 0
      BY <2>1, FS_EmptySet
    <2>3. Cardinality(Garbled) + Owed(FALSE) <= breaks
      BY <1>1, <2>2 DEF Owed
    <2>. QED
      BY <1>5, <2>3 DEF Resynchronised
  <1>7. Exact(Nowhere, <<>>)
    <2>1. DOMAIN <<>> = {}
      OBVIOUS
    <2>2. Len(delivered) <= Len(sent) /\ DOMAIN delivered = {}
      BY <1>1
    <2>. QED
      BY <1>5, <2>1, <2>2 DEF Exact
  <1>8. InOrder(<<>>)
    BY <1>1 DEF InOrder, Ordered
  <1>. QED
    BY <1>3, <1>4, <1>6, <1>7, <1>8 DEF InvAt

(* No number on the wire is larger than the last. *)
LEMMA NumbersSent ==
    ASSUME NEW last, NEW marks, Stream(last, marks), sent \in Seq(Content)
    PROVE  \A i \in DOMAIN marks : marks[i].num \in Nat /\ marks[i].num <= Len(sent)
  <1>. SUFFICES ASSUME NEW i \in DOMAIN marks
                PROVE  marks[i].num \in Nat /\ marks[i].num <= Len(sent)
    OBVIOUS
  <1>1. marks \in Seq(Marks) /\ Genuine(marks[i])
    BY DEF Stream
  <1>2. marks[i] \in Marks
    BY <1>1
  <1>3. marks[i].num \in Nat
    BY <1>2 DEF Marks
  <1>. QED
    BY <1>1, <1>3 DEF Genuine

(* The messages that came out stay what they are when one more is sent. *)
LEMMA GarbledFewer ==
    ASSUME Typed, delivered' = delivered,
           \A o : PlaceIn(sent, o) # 0 => PlaceIn(sent', o) = PlaceIn(sent, o)
    PROVE  /\ Cardinality(Garbled) \in Nat /\ Cardinality(Garbled') \in Nat
           /\ Cardinality(Garbled') <= Cardinality(Garbled)
  <1>1. PICK N : N = Len(delivered)
    OBVIOUS
  <1>2. N \in Nat /\ DOMAIN delivered = 1 .. N
    BY <1>1 DEF Typed
  <1>3. Garbled \subseteq 1 .. N /\ Garbled' \subseteq Garbled
    BY <1>2 DEF Garbled, GarbledIn
  <1>4. Garbled' \subseteq 1 .. N
    BY <1>3
  <1>. QED
    BY <1>2, <1>3, <1>4, GarbledFinite

(* How many came out that were never sent. *)
LEMMA GarbledCount ==
    ASSUME Typed
    PROVE  Cardinality(Garbled) \in Nat
  <1>1. PICK N : N = Len(delivered)
    OBVIOUS
  <1>2. N \in Nat /\ DOMAIN delivered = 1 .. N
    BY <1>1 DEF Typed
  <1>3. Garbled \subseteq 1 .. N
    BY <1>2 DEF Garbled, GarbledIn
  <1>. QED
    BY <1>2, <1>3, GarbledFinite

(* The first bytes on the wire are those of the first marks, and the rest of *)
(* the rest.                                                                 *)
LEMMA WireCut ==
    ASSUME NEW last, NEW marks, Stream(last, marks), NEW n \in 0 .. Len(wire)
    PROVE  /\ n \in 0 .. Len(marks) /\ n \in Nat /\ Len(wire) = Len(marks) /\ wire \in Seq(Nat)
           /\ SubSeq(wire, 1, n) = [i \in 1 .. n |-> ByteOf(marks[i])]
           /\ SubSeq(wire, n + 1, Len(wire))
                 = [i \in 1 .. Len(marks) - n |-> ByteOf(marks[n + i])]
  <1>1. PICK N : N = Len(marks)
    OBVIOUS
  <1>2. /\ marks \in Seq(Marks) /\ N \in Nat /\ DOMAIN marks = 1 .. N
        /\ \A i \in 1 .. N : marks[i] \in Marks
        /\ wire = [i \in 1 .. N |-> ByteOf(marks[i])]
    BY <1>1 DEF Stream
  <1>3. wire \in Seq(Nat) /\ Len(wire) = N
    <2>1. \A i \in 1 .. N : ByteOf(marks[i]) \in Nat
      BY <1>2, ByteAt
    <2>2. wire \in [1 .. N -> Nat]
      BY <1>2, <2>1
    <2>. QED
      BY <1>2, <2>2
  <1>4. n \in 0 .. N /\ n \in Nat
    BY <1>2, <1>3
  <1>5. PICK a, b : a = SubSeq(wire, 1, n) /\ b = SubSeq(wire, n + 1, Len(wire))
    OBVIOUS
  <1>6. /\ a \in Seq(Nat) /\ DOMAIN a = 1 .. n /\ \A i \in 1 .. n : a[i] = wire[i]
        /\ b \in Seq(Nat) /\ DOMAIN b = 1 .. N - n /\ \A i \in 1 .. N - n : b[i] = wire[n + i]
    BY <1>3, <1>5, CutAt
  <1>7. a = [i \in 1 .. n |-> ByteOf(marks[i])]
    <2>1. a = [i \in 1 .. n |-> a[i]]
      BY <1>6
    <2>2. \A i \in 1 .. n : a[i] = ByteOf(marks[i])
      <3>1. \A i \in 1 .. n : i \in 1 .. N
        BY <1>2, <1>4
      <3>. QED
        BY <1>2, <1>6, <3>1
    <2>. QED
      BY <2>1, <2>2
  <1>8. b = [i \in 1 .. N - n |-> ByteOf(marks[n + i])]
    <2>1. b = [i \in 1 .. N - n |-> b[i]]
      BY <1>6
    <2>2. \A i \in 1 .. N - n : n + i \in 1 .. N
      BY <1>2, <1>4
    <2>3. \A i \in 1 .. N - n : b[i] = ByteOf(marks[n + i])
      BY <1>2, <1>6, <2>2
    <2>. QED
      BY <2>1, <2>3
  <1>. QED
    BY <1>1, <1>3, <1>4, <1>5, <1>7, <1>8

(* A stream that was not clean does not become so. *)
LEMMA CleanBefore ==
    ASSUME sent \in Seq(Content), \A i \in DOMAIN sent : i \in DOMAIN sent' /\ sent'[i] = sent[i],
           UNCHANGED <<window, breaks>>
    PROVE  (NoPairSent' => NoPairSent) /\ (Clean' => Clean)
  <1>1. NoPairSent' => NoPairSent
    BY DEF NoPairSent
  <1>. QED
    BY <1>1 DEF Clean

(* A message that is sent is a new one, of the types the bridge handles.     *)
LEMMA SendAppends ==
    ASSUME Typed, Send
    PROVE  /\ UNCHANGED <<ctx, linkUp, window, delivered, others, breaks>>
           /\ sent' \in Seq(Content) /\ Numbered(sent)' /\ Len(sent') = Len(sent) + 1
           /\ \A i \in DOMAIN sent : i \in DOMAIN sent' /\ sent'[i] = sent[i]
           /\ \A o : PlaceIn(sent, o) # 0 => PlaceIn(sent', o) = PlaceIn(sent, o)
           /\ \E m \in Content : /\ Len(sent) + 1 \in DOMAIN sent' /\ sent'[Len(sent) + 1] = m
                                 /\ wire' = wire \o Frame(m)
  <1>1. /\ UNCHANGED <<ctx, linkUp, window, delivered, others, breaks>>
        /\ \E type \in ReplyTypes, p \in Payloads :
              /\ sent' = Append(sent, Message(type, <<Len(sent) + 1>> \o p))
              /\ wire' = wire \o Frame(Message(type, <<Len(sent) + 1>> \o p))
    BY DEF Send
  <1>3. sent \in Seq(Content) /\ Numbered(sent) /\ Len(sent) \in Nat
    BY DEF Typed
  <1>4. PICK num : num = Len(sent) + 1
    OBVIOUS
  <1>5. num \in Nat /\ num # 0
    BY <1>3, <1>4
  <1>6. PICK m : /\ m \in Content /\ m.type \in ReplyTypes /\ m.payload # <<>> /\ m.payload[1] = num
                 /\ sent' = Append(sent, m) /\ wire' = wire \o Frame(m)
    <2>1. PICK type \in ReplyTypes, p \in Payloads :
              /\ sent' = Append(sent, Message(type, <<num>> \o p))
              /\ wire' = wire \o Frame(Message(type, <<num>> \o p))
      BY <1>1, <1>4
    <2>2. PICK q, m : q = <<num>> \o p /\ m = Message(type, q)
      OBVIOUS
    <2>3. type \in Types
      BY LinkAssumption
    <2>4. m \in Content /\ m.type = type /\ m.payload = q
      <3>1. \E x \in Payloads : q = <<num>> \o x
        BY <2>2
      <3>. QED
        BY <1>5, <2>2, <2>3, <3>1, ContentSent
    <2>5. q # <<>> /\ q[1] = num
      BY <1>5, <2>2, NumberFirst
    <2>. QED
      BY <2>1, <2>2, <2>4, <2>5
  <1>7. /\ sent' \in Seq(Content) /\ Numbered(sent)' /\ Len(sent') = Len(sent) + 1
        /\ \A i \in DOMAIN sent : i \in DOMAIN sent' /\ sent'[i] = sent[i]
        /\ num \in DOMAIN sent' /\ sent'[num] = m
        /\ \A o : PlaceIn(sent, o) # 0 => PlaceIn(sent', o) = PlaceIn(sent, o)
    <2>1. m.payload[1] = Len(sent) + 1
      BY <1>4, <1>6
    <2>2. PICK s, s2 : s = sent /\ s2 = Append(s, m)
      OBVIOUS
    <2>3. /\ s2 \in Seq(Content) /\ Len(s2) = Len(s) + 1 /\ s2[Len(s) + 1] = m
          /\ \A i \in 1 .. Len(s) : s2[i] = s[i]
      BY <1>3, <1>6, <2>2
    <2>4. /\ Numbered(s2) /\ Len(s) + 1 \in DOMAIN s2
          /\ \A i \in DOMAIN s : i \in DOMAIN s2 /\ s2[i] = s[i]
          /\ \A o : PlaceIn(s, o) # 0 => PlaceIn(s2, o) = PlaceIn(s, o)
      <3>1. m \in Content /\ m.type \in ReplyTypes /\ m.payload # <<>>
        BY <1>6
      <3>2. s \in Seq(Content) /\ Numbered(s) /\ m.payload[1] = Len(s) + 1
        BY <1>3, <2>1, <2>2
      <3>. QED
        BY <2>3, <3>1, <3>2, SentMore, Zenon
    <2>5. sent' = s2
      BY <1>6, <2>2
    <2>6. Numbered(sent)'
      BY <2>4, <2>5 DEF Numbered
    <2>. QED
      BY <1>4, <2>2, <2>3, <2>4, <2>5, <2>6
  <1>. QED
    BY <1>1, <1>4, <1>6, <1>7

(* The runtime sends a message. *)
LEMMA SendHolds ==
    ASSUME NEW last, NEW marks, InvAt(last, marks), Send
    PROVE  IInv'
  <1>1. /\ linkUp /\ Len(sent) < Len(delivered) + window
        /\ UNCHANGED <<ctx, linkUp, window, delivered, others, breaks>>
    BY DEF Send
  <1>2. /\ Stream(last, marks) /\ Typed /\ Resynchronised(last) /\ Exact(last, marks)
        /\ InOrder(marks)
    BY DEF InvAt
  <1>3. sent \in Seq(Content) /\ Len(sent) \in Nat
    BY <1>2 DEF Typed
  <1>4. PICK num : num = Len(sent) + 1
    OBVIOUS
  <1>5. num \in Nat /\ num # 0
    BY <1>3, <1>4
  <1>6. /\ sent' \in Seq(Content) /\ Numbered(sent)' /\ Len(sent') = Len(sent) + 1
        /\ \A i \in DOMAIN sent : i \in DOMAIN sent' /\ sent'[i] = sent[i]
        /\ \A o : PlaceIn(sent, o) # 0 => PlaceIn(sent', o) = PlaceIn(sent, o)
    BY <1>2, SendAppends
  <1>7. PICK m \in Content : num \in DOMAIN sent' /\ sent'[num] = m /\ wire' = wire \o Frame(m)
    BY <1>2, <1>4, SendAppends
  <1>8. (NoPairSent' => NoPairSent) /\ (Clean' => Clean)
    BY <1>1, <1>3, <1>6, CleanBefore
  <1>9. PICK t : t = marks \o FrameMarks(m, num)
    OBVIOUS
  <1>10. marks \in Seq(Marks)
    BY <1>2 DEF Stream
  <1>11. Extended(marks, m, num, t)
    BY <1>5, <1>9, <1>10, FrameAdded
  <1>12. Stream(last, t)'
    <2>1. \A b : Genuine(b) => Genuine(b)'
      BY <1>6 DEF Genuine
    <2>2. \A pos : Genuine([m |-> m, pos |-> pos, num |-> num])'
      BY <1>5, <1>7 DEF Genuine
    <2>. QED
      BY <1>1, <1>2, <1>5, <1>7, <1>9, <2>1, <2>2, StreamMore
  <1>13. Typed'
    BY <1>1, <1>2, <1>6 DEF Typed
  <1>14. Resynchronised(last)'
    <2>1. SUFFICES ASSUME NoPairSent'
                   PROVE  \E garbles \in BOOLEAN :
                             /\ garbles \/ InStep(FALSE, ctx', last)
                             /\ Cardinality(Garbled') + Owed(garbles)' <= breaks'
      BY DEF Resynchronised
    <2>2. PICK garbles \in BOOLEAN : /\ garbles \/ InStep(FALSE, ctx, last)
                                     /\ Cardinality(Garbled) + Owed(garbles) <= breaks
      BY <1>2, <1>8, <2>1 DEF Resynchronised
    <2>3. /\ Owed(garbles)' = Owed(garbles) /\ Owed(garbles) \in Nat
          /\ breaks' = breaks /\ breaks \in Nat
      BY <1>1, <1>2 DEF Owed, Typed
    <2>4. /\ Cardinality(Garbled) \in Nat /\ Cardinality(Garbled') \in Nat
          /\ Cardinality(Garbled') <= Cardinality(Garbled)
      BY <1>1, <1>2, <1>6, GarbledFewer
    <2>5. Cardinality(Garbled') + Owed(garbles)' <= breaks'
      BY <2>2, <2>3, <2>4
    <2>6. garbles \/ InStep(FALSE, ctx', last)
      BY <1>1, <2>2
    <2>. QED
      BY <2>5, <2>6
  <1>15. Exact(last, t)'
    <2>1. SUFFICES ASSUME window = 1, breaks = 0
                   PROVE  /\ InStep(TRUE, ctx', last)
                          /\ \A i \in DOMAIN t : t[i].num # 0 =>
                                t[i].num = Len(delivered') + 1 /\ (Ends(t[i]) => i = Len(t))
                          /\ Len(delivered') <= Len(sent')
                          /\ \A i \in DOMAIN delivered' : delivered'[i].message = sent'[i]
      BY <1>1 DEF Exact
    <2>2. /\ InStep(TRUE, ctx, last)
          /\ \A i \in DOMAIN marks : marks[i].num # 0 => marks[i].num = Len(delivered) + 1
          /\ Len(delivered) <= Len(sent)
          /\ \A i \in DOMAIN delivered : delivered[i].message = sent[i]
      BY <1>2, <2>1 DEF Exact
    <2>3. PICK k, N, M : k = Len(marks) /\ N = Len(sent) /\ M = Len(delivered)
      OBVIOUS
    <2>4. /\ k \in Nat /\ N \in Nat /\ M \in Nat /\ M = N
          /\ DOMAIN marks = 1 .. k /\ DOMAIN delivered = 1 .. M /\ DOMAIN sent = 1 .. N
      <3>1. /\ k \in Nat /\ N \in Nat /\ M \in Nat
            /\ DOMAIN marks = 1 .. k /\ DOMAIN delivered = 1 .. M /\ DOMAIN sent = 1 .. N
        BY <1>2, <1>3, <1>10, <2>3 DEF Typed
      <3>. QED
        BY <1>1, <2>1, <2>2, <2>3, <3>1
    <2>5. \A i \in 1 .. k : marks[i].num = 0
      <3>1. \A i \in 1 .. k : marks[i].num \in Nat /\ marks[i].num <= N
        BY <1>2, <1>3, <2>3, <2>4, NumbersSent
      <3>. QED
        BY <2>2, <2>3, <2>4, <3>1
    <2>6. PICK l : l = Len(m.payload)
      OBVIOUS
    <2>7. l \in Nat
      BY <2>6 DEF Content
    <2>8. ASSUME NEW i \in DOMAIN t, t[i].num # 0
          PROVE  t[i].num = M + 1 /\ (Ends(t[i]) => i = Len(t))
      <3>1. Len(t) = k + (8 + l)
        BY <1>11, <2>3, <2>6 DEF Extended
      <3>2. \/ i \in 1 .. k /\ t[i] = marks[i]
            \/ i - k \in 1 .. 8 + l /\ t[i] = [m |-> m, pos |-> i - k, num |-> num]
        BY <1>11, <2>3, <2>4, <2>6 DEF Extended
      <3>3. i - k \in 1 .. 8 + l /\ t[i] = [m |-> m, pos |-> i - k, num |-> num]
        BY <2>5, <2>8, <3>2
      <3>4. PICK b : b = t[i]
        OBVIOUS
      <3>5. b.m = m /\ b.pos = i - k /\ b.num = num
        BY <3>3, <3>4
      <3>6. i \in Nat
        BY <1>11, <2>8 DEF Extended
      <3>7. Ends(b) => i - k = 8 + l
        BY <2>4, <2>6, <2>7, <3>3, <3>5, <3>6 DEF Ends
      <3>. QED
        BY <1>4, <2>3, <2>4, <2>7, <3>1, <3>4, <3>5, <3>6, <3>7
    <2>9. Len(delivered') <= Len(sent')
      BY <1>1, <1>6, <2>3, <2>4
    <2>10. \A i \in DOMAIN delivered' : delivered'[i].message = sent'[i]
      BY <1>1, <1>6, <2>2, <2>4
    <2>. QED
      BY <1>1, <2>2, <2>3, <2>8, <2>9, <2>10
  <1>16. InOrder(t)'
    <2>1. \A i \in DOMAIN marks : marks[i].num <= Len(sent)
      BY <1>2, <1>3, NumbersSent
    <2>2. Ordered(sent, delivered, marks, Clean)
      BY <1>2 DEF InOrder
    <2>3. PICK s2, clean2 : s2 = sent' /\ clean2 = Clean'
      OBVIOUS
    <2>4. Ordered(s2, delivered, t, clean2)
      <3>1. \A o : PlaceIn(sent, o) # 0 => PlaceIn(s2, o) = PlaceIn(sent, o)
        BY <1>6, <2>3
      <3>2. clean2 => Clean
        BY <1>8, <2>3
      <3>. QED
        BY <1>3, <1>4, <1>5, <1>10, <1>11, <2>1, <2>2, <3>1, <3>2, OrderedMore
    <2>5. Ordered(sent', delivered', t, Clean')
      BY <1>1, <2>3, <2>4
    <2>. QED
      BY <2>5 DEF InOrder
  <1>. QED
    BY <1>12, <1>13, <1>14, <1>15, <1>16 DEF IInv, InvAt


(* The runtime sends a message the bridge skips. *)
LEMMA SendOtherHolds ==
    ASSUME NEW last, NEW marks, InvAt(last, marks), SendOther
    PROVE  IInv'
  <1>1. /\ linkUp /\ Len(sent) = Len(delivered)
        /\ UNCHANGED <<ctx, linkUp, window, sent, delivered, breaks>>
        /\ \E type \in Types \ ReplyTypes : wire' = wire \o Frame(Message(type, <<>>))
    BY DEF SendOther
  <1>2. /\ Stream(last, marks) /\ Typed /\ Resynchronised(last) /\ Exact(last, marks)
        /\ InOrder(marks)
    BY DEF InvAt
  <1>3. sent \in Seq(Content) /\ Len(sent) \in Nat
    BY <1>2 DEF Typed
  <1>4. PICK m \in Content : /\ m.type \in Types \ ReplyTypes /\ m.payload = <<>>
                              /\ wire' = wire \o Frame(m)
    <2>1. PICK type \in Types \ ReplyTypes : wire' = wire \o Frame(Message(type, <<>>))
      BY <1>1
    <2>2. PICK m : m = Message(type, <<>>)
      OBVIOUS
    <2>3. m \in Content /\ m.type = type /\ m.payload = <<>>
      <3>1. 0 \in Nat
        OBVIOUS
      <3>. QED
        BY <2>2, <3>1, ContentSent
    <2>. QED
      BY <2>1, <2>2, <2>3
  <1>5. PICK t : t = marks \o FrameMarks(m, 0)
    OBVIOUS
  <1>6. marks \in Seq(Marks)
    BY <1>2 DEF Stream
  <1>7. Extended(marks, m, 0, t)
    BY <1>5, <1>6, FrameAdded
  <1>8. Stream(last, t)'
    <2>1. \A b : Genuine(b) => Genuine(b)'
      BY <1>1 DEF Genuine
    <2>2. \A pos : Genuine([m |-> m, pos |-> pos, num |-> 0])'
      BY <1>4 DEF Genuine
    <2>3. 0 \in Nat
      OBVIOUS
    <2>. QED
      BY <1>1, <1>2, <1>4, <1>5, <2>1, <2>2, <2>3, StreamMore
  <1>9. Typed'
    BY <1>1, <1>2 DEF Typed, Numbered
  <1>10. Resynchronised(last)'
    BY <1>1, <1>2 DEF Resynchronised, NoPairSent, Garbled, Owed
  <1>11. Exact(last, t)'
    <2>1. SUFFICES ASSUME window = 1, breaks = 0
                   PROVE  /\ InStep(TRUE, ctx, last)
                          /\ \A i \in DOMAIN t : t[i].num # 0 =>
                                t[i].num = Len(delivered) + 1 /\ (Ends(t[i]) => i = Len(t))
                          /\ Len(delivered) <= Len(sent)
                          /\ \A i \in DOMAIN delivered : delivered[i].message = sent[i]
      BY <1>1 DEF Exact
    <2>2. /\ InStep(TRUE, ctx, last)
          /\ \A i \in DOMAIN marks : marks[i].num # 0 => marks[i].num = Len(delivered) + 1
          /\ Len(delivered) <= Len(sent)
          /\ \A i \in DOMAIN delivered : delivered[i].message = sent[i]
      BY <1>2, <2>1 DEF Exact
    <2>3. \A i \in DOMAIN marks : marks[i].num = 0
      <3>1. \A i \in DOMAIN marks : marks[i].num \in Nat /\ marks[i].num <= Len(sent)
        BY <1>2, <1>3, NumbersSent
      <3>. QED
        BY <1>1, <1>3, <2>2, <3>1
    <2>4. ASSUME NEW i \in DOMAIN t PROVE t[i].num = 0
      <3>1. \/ i \in DOMAIN marks /\ t[i] = marks[i]
            \/ t[i] = [m |-> m, pos |-> i - Len(marks), num |-> 0]
        BY <1>7 DEF Extended
      <3>. QED
        BY <2>3, <3>1
    <2>. QED
      BY <2>2, <2>4
  <1>12. InOrder(t)'
    <2>1. \A i \in DOMAIN marks : marks[i].num <= Len(sent)
      BY <1>2, <1>3, NumbersSent
    <2>2. Ordered(sent, delivered, marks, Clean)
      BY <1>2 DEF InOrder
    <2>3. Ordered(sent, delivered, t, Clean)
      <3>1. \A o : PlaceIn(sent, o) # 0 => PlaceIn(sent, o) = PlaceIn(sent, o)
        OBVIOUS
      <3>2. (0 = 0 \/ 0 = Len(sent) + 1) /\ 0 \in Nat /\ (Clean => Clean)
        OBVIOUS
      <3>. QED
        BY <1>3, <1>4, <1>6, <1>7, <2>1, <2>2, <3>1, <3>2, OrderedMore
    <2>4. Clean' = Clean
      BY <1>1 DEF Clean, NoPairSent
    <2>. QED
      BY <1>1, <2>3, <2>4 DEF InOrder
  <1>. QED
    BY <1>8, <1>9, <1>10, <1>11, <1>12 DEF IInv, InvAt

(* The connection is lost. *)
LEMMA BreakHolds ==
    ASSUME NEW last, NEW marks, InvAt(last, marks), Break
    PROVE  IInv'
  <1>1. /\ linkUp /\ linkUp' = FALSE /\ breaks' = breaks + 1
        /\ UNCHANGED <<ctx, window, sent, delivered, others>>
    BY DEF Break
  <1>2. PICK n \in 0 .. Len(wire) : wire' = SubSeq(wire, 1, n)
    BY DEF Break
  <1>3. /\ Stream(last, marks) /\ Typed /\ Resynchronised(last) /\ Exact(last, marks)
        /\ InOrder(marks)
    BY DEF InvAt
  <1>4. PICK N, a, b : /\ N = Len(marks) /\ a = SubSeq(marks, 1, n)
                       /\ b = SubSeq(marks, n + 1, Len(marks))
    OBVIOUS
  <1>5. marks \in Seq(Marks) /\ N \in Nat /\ DOMAIN marks = 1 .. N
    BY <1>3, <1>4 DEF Stream
  <1>6. n \in 0 .. N /\ n \in Nat /\ wire' = [i \in 1 .. n |-> ByteOf(marks[i])]
    BY <1>2, <1>3, <1>4, <1>5, WireCut
  <1>7. a \in Seq(Marks) /\ Len(a) = n /\ DOMAIN a = 1 .. n /\ \A i \in 1 .. n : a[i] = marks[i]
    BY <1>4, <1>5, <1>6, CutAt
  <1>8. \A i \in 1 .. n : i \in 1 .. N
    BY <1>5, <1>6
  <1>9. Stream(last, a)'
    <2>1. /\ last = Nowhere \/ (last \in Marks /\ Genuine(last)')
          /\ \A i \in DOMAIN marks : Genuine(marks[i])' /\ Follows(Before(last, marks, i), marks[i])
      BY <1>1, <1>3 DEF Stream, Genuine
    <2>2. ASSUME NEW i \in 1 .. n PROVE Genuine(a[i])' /\ Follows(Before(last, a, i), a[i])
      <3>1. Before(last, a, i) = Before(last, marks, i)
        <4>1. CASE i = 1
          BY <4>1 DEF Before
        <4>2. CASE i # 1
          <5>1. i - 1 \in 1 .. n
            BY <1>6, <4>2
          <5>. QED
            BY <1>7, <4>2, <5>1 DEF Before
        <4>. QED
          BY <4>1, <4>2
      <3>2. i \in DOMAIN marks /\ a[i] = marks[i]
        BY <1>5, <1>7, <1>8
      <3>3. Genuine(marks[i])' /\ Follows(Before(last, marks, i), marks[i])
        BY <2>1, <3>2
      <3>. QED
        BY <3>1, <3>2, <3>3, Zenon
    <2>3. wire' = [i \in DOMAIN a |-> ByteOf(a[i])]
      BY <1>6, <1>7
    <2>. QED
      BY <1>1, <1>7, <2>1, <2>2, <2>3 DEF Stream
  <1>10. breaks \in Nat /\ breaks + 1 \in Nat /\ breaks + 1 > 0
    BY <1>3 DEF Typed
  <1>11. Typed'
    <2>1. Numbered(sent)'
      BY <1>1, <1>3 DEF Typed, Numbered
    <2>2. linkUp' \in BOOLEAN /\ breaks' \in Nat /\ breaks' > 0
      BY <1>1, <1>10
    <2>3. /\ ctx' \in Contexts /\ sent' \in Seq(Content)
          /\ delivered' \in Seq([message : Outputs, clean : BOOLEAN])
      BY <1>1, <1>3 DEF Typed
    <2>. QED
      BY <2>1, <2>2, <2>3 DEF Typed
  <1>12. Resynchronised(last)'
    <2>1. SUFFICES ASSUME NoPairSent
                   PROVE  \E garbles \in BOOLEAN :
                             /\ garbles \/ InStep(FALSE, ctx, last)
                             /\ Cardinality(Garbled) + Owed(garbles)' <= breaks + 1
      BY <1>1 DEF Resynchronised, NoPairSent, Garbled
    <2>2. PICK garbles \in BOOLEAN : /\ garbles \/ InStep(FALSE, ctx, last)
                                     /\ Cardinality(Garbled) + Owed(garbles) <= breaks
      BY <1>3, <2>1 DEF Resynchronised
    <2>3. Owed(garbles)' = Owed(garbles) + 1 /\ Owed(garbles) \in Nat
      BY <1>1 DEF Owed
    <2>4. Cardinality(Garbled) \in Nat
      BY <1>3, GarbledCount
    <2>. QED
      <3>1. PICK c, o, k : c = Cardinality(Garbled) /\ o = Owed(garbles) /\ k = Owed(garbles)'
        OBVIOUS
      <3>2. c \in Nat /\ o \in Nat /\ k = o + 1 /\ c + o <= breaks
        BY <2>2, <2>3, <2>4, <3>1, Zenon
      <3>3. c + k <= breaks + 1
        BY <1>10, <3>2
      <3>. QED
        BY <2>2, <3>1, <3>3, Zenon
  <1>13. Exact(last, a)'
    BY <1>1, <1>10 DEF Exact
  <1>14. InOrder(a)'
    <2>1. Ordered(sent, delivered, marks, Clean)
      BY <1>3 DEF InOrder
    <2>2. Ordered(sent, delivered, a, FALSE)
      BY <1>5, <1>7, <1>8, <2>1 DEF Ordered
    <2>3. Clean' = FALSE
      BY <1>1, <1>10 DEF Clean
    <2>. QED
      BY <1>1, <2>2, <2>3 DEF InOrder
  <1>. QED
    BY <1>9, <1>11, <1>12, <1>13, <1>14 DEF IInv, InvAt

(* The bridge opens a new connection. *)
LEMMA ReconnectHolds ==
    ASSUME NEW last, NEW marks, InvAt(last, marks), Reconnect
    PROVE  IInv'
  <1>1. /\ ~linkUp /\ wire = <<>> /\ linkUp' = TRUE
        /\ UNCHANGED <<ctx, wire, window, sent, delivered, others, breaks>>
    BY DEF Reconnect
  <1>2. /\ Stream(last, marks) /\ Typed /\ Resynchronised(last) /\ Exact(last, marks)
        /\ InOrder(marks)
    BY DEF InvAt
  <1>3. marks \in Seq(Marks) /\ DOMAIN marks = {} /\ Len(marks) = 0
    <2>1. marks \in Seq(Marks) /\ wire = [i \in DOMAIN marks |-> ByteOf(marks[i])]
      BY <1>2 DEF Stream
    <2>2. DOMAIN wire = DOMAIN marks
      BY <2>1
    <2>3. DOMAIN wire = {}
      BY <1>1
    <2>4. PICK N : N = Len(marks)
      OBVIOUS
    <2>5. N \in Nat /\ DOMAIN marks = 1 .. N /\ marks \in Seq(Marks)
      BY <2>1, <2>4
    <2>6. 1 .. N = {}
      BY <2>2, <2>3, <2>5
    <2>7. N = 0
      <3>1. 1 \notin 1 .. N
        BY <2>6
      <3>. QED
        BY <2>5, <3>1
    <2>. QED
      BY <2>2, <2>3, <2>4, <2>5, <2>7, Zenon
  <1>4. Ends(Nowhere)
    BY DEF Ends, Nowhere
  <1>5. Stream(Nowhere, marks)'
    <2>1. wire = [i \in DOMAIN marks |-> ByteOf(marks[i])]
      BY <1>2 DEF Stream
    <2>2. Ends(Before(Nowhere, marks, Len(marks) + 1))
      <3>1. Len(marks) + 1 = 1
        BY <1>3
      <3>. QED
        BY <1>4, <3>1 DEF Before
    <2>. QED
      BY <1>1, <1>3, <2>1, <2>2 DEF Stream
  <1>6. breaks \in Nat /\ breaks > 0
    BY <1>1, <1>2 DEF Typed
  <1>7. Typed'
    BY <1>1, <1>2 DEF Typed, Numbered
  <1>8. Resynchronised(Nowhere)'
    <2>1. SUFFICES ASSUME NoPairSent
                   PROVE  \E garbles \in BOOLEAN :
                             /\ garbles \/ InStep(FALSE, ctx, Nowhere)
                             /\ Cardinality(Garbled) + Owed(garbles)' <= breaks
      BY <1>1 DEF Resynchronised, NoPairSent, Garbled
    <2>2. PICK garbles \in BOOLEAN : Cardinality(Garbled) + Owed(garbles) <= breaks
      BY <1>2, <2>1 DEF Resynchronised
    <2>3. Cardinality(Garbled) \in Nat
      BY <1>2, GarbledCount
    <2>4. Owed(TRUE)' = 1 /\ Owed(garbles) \in Nat /\ Owed(garbles) >= 1
      BY <1>1 DEF Owed
    <2>5. Cardinality(Garbled) + Owed(TRUE)' <= breaks
      <3>1. PICK c, o, k : c = Cardinality(Garbled) /\ o = Owed(garbles) /\ k = Owed(TRUE)'
        OBVIOUS
      <3>2. c \in Nat /\ o \in Nat /\ o >= 1 /\ k = 1 /\ c + o <= breaks
        BY <2>2, <2>3, <2>4, <3>1, Zenon
      <3>3. c + k <= breaks
        BY <1>6, <3>2
      <3>. QED
        BY <3>1, <3>3, Zenon
    <2>. QED
      BY <2>5
  <1>9. Exact(Nowhere, marks)'
    BY <1>1, <1>6 DEF Exact
  <1>10. InOrder(marks)'
    BY <1>1, <1>2 DEF InOrder, Clean, NoPairSent
  <1>. QED
    BY <1>5, <1>7, <1>8, <1>9, <1>10 DEF IInv, InvAt


(* One more message is garbled, or it was sent. *)
LEMMA GarbledOneMore ==
    ASSUME NEW s, NEW dl, NEW N \in Nat, DOMAIN dl = 1 .. N, NEW d,
           NEW dl2, DOMAIN dl2 = 1 .. N + 1, \A i \in 1 .. N : dl2[i] = dl[i], dl2[N + 1] = d
    PROVE  /\ Cardinality(GarbledIn(s, dl)) \in Nat /\ Cardinality(GarbledIn(s, dl2)) \in Nat
           /\ Cardinality(GarbledIn(s, dl2)) <= Cardinality(GarbledIn(s, dl)) + 1
           /\ PlaceIn(s, d.message) # 0 => GarbledIn(s, dl2) = GarbledIn(s, dl)
  <1>1. PICK A, B : A = GarbledIn(s, dl) /\ B = GarbledIn(s, dl2)
    OBVIOUS
  <1>2. /\ A = {i \in 1 .. N : PlaceIn(s, dl[i].message) = 0}
        /\ B = {i \in 1 .. N + 1 : PlaceIn(s, dl2[i].message) = 0}
    BY <1>1 DEF GarbledIn
  <1>3. A \subseteq 1 .. N /\ B \subseteq 1 .. N + 1 /\ N + 1 \in Nat
    BY <1>2
  <1>4. \A i \in 1 .. N + 1 : i \in 1 .. N \/ i = N + 1
    OBVIOUS
  <1>5. \A i \in 1 .. N : i \in 1 .. N + 1 /\ i # N + 1
    OBVIOUS
  <1>6. B \subseteq A \cup {N + 1}
    BY <1>2, <1>4
  <1>7. PlaceIn(s, d.message) # 0 => B = A
    BY <1>2, <1>4, <1>5
  <1>8. PICK C : C = A \cup {N + 1}
    OBVIOUS
  <1>9. C \subseteq 1 .. N + 1
    BY <1>3, <1>5, <1>8
  <1>10. Cardinality(A) \in Nat /\ Cardinality(C) <= Cardinality(A) + 1
    BY <1>3, <1>8, GarbledFinite
  <1>11. Cardinality(B) \in Nat /\ Cardinality(C) \in Nat /\ Cardinality(B) <= Cardinality(C)
    BY <1>3, <1>6, <1>8, <1>9, GarbledFinite
  <1>12. Cardinality(B) <= Cardinality(A) + 1
    BY <1>10, <1>11
  <1>. QED
    BY <1>1, <1>7, <1>10, <1>11, <1>12

(* What is left of the marks keeps their order. *)
LEMMA OrderedLess ==
    ASSUME NEW s \in Seq(Content), NEW dl, NEW N \in Nat, DOMAIN dl = 1 .. N,
           NEW K \in Nat, NEW marks, DOMAIN marks = 1 .. K,
           NEW clean \in BOOLEAN, Ordered(s, dl, marks, clean),
           NEW n \in 0 .. K, NEW b, DOMAIN b = 1 .. K - n,
           \A i \in 1 .. K - n : b[i] = marks[n + i]
    PROVE  Ordered(s, dl, b, clean)
  <1>1. /\ \A i, j \in 1 .. K : i < j /\ marks[i].num # 0 /\ marks[j].num # 0 =>
              IF Ends(marks[i]) THEN marks[i].num < marks[j].num ELSE marks[i].num <= marks[j].num
        /\ \A i \in 1 .. N : dl[i].clean => PlaceIn(s, dl[i].message) # 0
        /\ \A i, j \in 1 .. N : i < j /\ dl[j].clean =>
              dl[i].clean /\ PlaceIn(s, dl[i].message) < PlaceIn(s, dl[j].message)
        /\ clean => \A i \in 1 .. N :
              /\ dl[i].clean
              /\ \A j \in 1 .. K : marks[j].num # 0 => PlaceIn(s, dl[i].message) < marks[j].num
    BY DEF Ordered
  <1>2. \A i \in 1 .. K - n : n + i \in 1 .. K
    OBVIOUS
  <1>3. ASSUME NEW i \in 1 .. K - n, NEW j \in 1 .. K - n, i < j, b[i].num # 0, b[j].num # 0
        PROVE  IF Ends(b[i]) THEN b[i].num < b[j].num ELSE b[i].num <= b[j].num
    <2>1. n + i < n + j
      BY <1>3
    <2>2. n + i \in 1 .. K /\ n + j \in 1 .. K /\ b[i] = marks[n + i] /\ b[j] = marks[n + j]
      BY <1>2
    <2>. QED
      BY <1>1, <1>3, <2>1, <2>2
  <1>4. ASSUME clean, NEW i \in 1 .. N
        PROVE  /\ dl[i].clean
               /\ \A j \in 1 .. K - n : b[j].num # 0 => PlaceIn(s, dl[i].message) < b[j].num
    BY <1>1, <1>2, <1>4
  <1>. QED
    BY <1>1, <1>3, <1>4 DEF Ordered

(* The number of a frame that was read comes after those of what came out    *)
(* before, and before those of what is left.                                 *)
LEMMA NumberBetween ==
    ASSUME NEW s \in Seq(Content), NEW dl, NEW N \in Nat, DOMAIN dl = 1 .. N,
           NEW K \in Nat, NEW marks, DOMAIN marks = 1 .. K, Ordered(s, dl, marks, TRUE),
           NEW n \in 0 .. K, NEW b, DOMAIN b = 1 .. K - n,
           \A i \in 1 .. K - n : b[i] = marks[n + i],
           NEW p \in 1 .. n, Ends(marks[p]), marks[p].num # 0
    PROVE  /\ \A i \in DOMAIN dl : PlaceIn(s, dl[i].message) < marks[p].num
           /\ \A j \in DOMAIN b : b[j].num # 0 => marks[p].num < b[j].num
  <1>1. /\ \A i, j \in 1 .. K : i < j /\ marks[i].num # 0 /\ marks[j].num # 0 =>
              IF Ends(marks[i]) THEN marks[i].num < marks[j].num ELSE marks[i].num <= marks[j].num
        /\ \A i \in DOMAIN dl : \A j \in 1 .. K :
              marks[j].num # 0 => PlaceIn(s, dl[i].message) < marks[j].num
    BY DEF Ordered
  <1>2. p \in 1 .. K
    OBVIOUS
  <1>3. ASSUME NEW j \in 1 .. K - n, b[j].num # 0 PROVE marks[p].num < b[j].num
    <2>1. p < n + j /\ n + j \in 1 .. K
      OBVIOUS
    <2>. QED
      BY <1>1, <1>2, <1>3, <2>1
  <1>. QED
    BY <1>1, <1>2, <1>3

(* What comes out of a clean stream is in order too. *)
LEMMA OrderedAppended ==
    ASSUME NEW s \in Seq(Content), NEW dl, NEW N \in Nat, DOMAIN dl = 1 .. N,
           NEW b, NEW clean \in BOOLEAN, Ordered(s, dl, b, clean),
           NEW d, NEW dl2, DOMAIN dl2 = 1 .. N + 1, \A i \in 1 .. N : dl2[i] = dl[i],
           dl2[N + 1] = d, d.clean = clean,
           clean => /\ PlaceIn(s, d.message) # 0
                    /\ \A i \in DOMAIN dl : PlaceIn(s, dl[i].message) < PlaceIn(s, d.message)
                    /\ \A j \in DOMAIN b : b[j].num # 0 => PlaceIn(s, d.message) < b[j].num
    PROVE  Ordered(s, dl2, b, clean)
  <1>1. /\ \A i, j \in DOMAIN b : i < j /\ b[i].num # 0 /\ b[j].num # 0 =>
              IF Ends(b[i]) THEN b[i].num < b[j].num ELSE b[i].num <= b[j].num
        /\ \A i \in 1 .. N : dl[i].clean => PlaceIn(s, dl[i].message) # 0
        /\ \A i, j \in 1 .. N : i < j /\ dl[j].clean =>
              dl[i].clean /\ PlaceIn(s, dl[i].message) < PlaceIn(s, dl[j].message)
        /\ clean => \A i \in 1 .. N :
              /\ dl[i].clean
              /\ \A j \in DOMAIN b : b[j].num # 0 => PlaceIn(s, dl[i].message) < b[j].num
    BY DEF Ordered
  <1>2. \A i \in 1 .. N + 1 : i \in 1 .. N \/ i = N + 1
    OBVIOUS
  <1>3. \A i \in 1 .. N + 1 : dl2[i].clean => PlaceIn(s, dl2[i].message) # 0
    BY <1>1, <1>2
  <1>4. ASSUME NEW i \in 1 .. N + 1, NEW j \in 1 .. N + 1, i < j, dl2[j].clean
        PROVE  dl2[i].clean /\ PlaceIn(s, dl2[i].message) < PlaceIn(s, dl2[j].message)
    <2>1. i \in 1 .. N /\ dl2[i] = dl[i]
      BY <1>4
    <2>2. CASE j \in 1 .. N
      BY <1>1, <1>4, <2>1, <2>2
    <2>3. CASE j = N + 1
      BY <1>1, <1>4, <2>1, <2>3
    <2>. QED
      BY <1>2, <2>2, <2>3
  <1>5. ASSUME clean, NEW i \in 1 .. N + 1
        PROVE  /\ dl2[i].clean
               /\ \A j \in DOMAIN b : b[j].num # 0 => PlaceIn(s, dl2[i].message) < b[j].num
    BY <1>1, <1>2, <1>5
  <1>. QED
    BY <1>1, <1>3, <1>4, <1>5 DEF Ordered


(* The mark of a frame a message came out of is that of one that was sent.   *)
LEMMA CameFromSent ==
    ASSUME sent \in Seq(Content), Numbered(sent), NEW b, b \in Marks, Genuine(b),
           b.m.type \in ReplyTypes
    PROVE  /\ b.num \in DOMAIN sent /\ b.num \in Nat \ {0}
           /\ sent[b.num] = b.m /\ PlaceIn(sent, b.m) = b.num
  <1>1. b.num # 0 /\ b.num \in DOMAIN sent /\ sent[b.num] = b.m
    BY DEF Genuine
  <1>2. PlaceIn(sent, sent[b.num]) = b.num
    BY <1>1, PlaceOf
  <1>3. b.num \in Nat
    BY DEF Marks
  <1>. QED
    BY <1>1, <1>2, <1>3

(* What a read does, in terms of the marks. *)
Taken(last, marks, n, r, a, b) ==
    /\ n \in 0 .. Len(marks) /\ n \in Nat
    /\ r \in Accs /\ ctx' = r.ctx
    /\ r.out = <<>> \/ (r.ctx.phase = "Non_Start" /\ \E o \in Outputs : r.out = <<o>>)
    /\ r.out = <<>> => delivered' = delivered
    /\ \A o : r.out = <<o>> => delivered' = Append(delivered, [message |-> o, clean |-> Clean])
    /\ a = Before(last, marks, n + 1)
    /\ b \in Seq(Marks) /\ Len(b) = Len(marks) - n /\ DOMAIN b = 1 .. Len(marks) - n
    /\ \A i \in 1 .. Len(marks) - n : b[i] = marks[n + i]
    /\ wire' = [i \in DOMAIN b |-> ByteOf(b[i])]
    /\ UNCHANGED <<linkUp, window, sent, others, breaks>>
    /\ \A strictly \in BOOLEAN :
          InStep(strictly, ctx, last) /\ (strictly \/ \A i \in DOMAIN marks : NoPairIn(marks[i].m))
          => Reads(strictly, last, marks, n, r)

(* A read is one of those. *)
LEMMA ReadTakes ==
    ASSUME NEW last, NEW marks, Stream(last, marks), Typed, Read
    PROVE  \E n, r, a, b : Taken(last, marks, n, r, a, b)
  <1>1. PICK n \in 1 .. Len(wire) :
           /\ ctx' = process_rcvd_data(ctx, SubSeq(wire, 1, n)).ctx
           /\ delivered' = delivered \o
                 [i \in DOMAIN process_rcvd_data(ctx, SubSeq(wire, 1, n)).out |->
                     [message |-> process_rcvd_data(ctx, SubSeq(wire, 1, n)).out[i],
                      clean   |-> Clean]]
           /\ wire' = SubSeq(wire, n + 1, Len(wire))
           /\ UNCHANGED <<linkUp, window, sent, others, breaks>>
    BY DEF Read
  <1>2. n \in 0 .. Len(wire)
    OBVIOUS
  <1>3. PICK s, N : s = SubSeq(wire, 1, n) /\ N = Len(marks)
    OBVIOUS
  <1>4. /\ n \in 0 .. N /\ n \in Nat /\ wire \in Seq(Nat) /\ Len(wire) = N
        /\ s = [i \in 1 .. n |-> ByteOf(marks[i])]
        /\ wire' = [i \in 1 .. N - n |-> ByteOf(marks[n + i])]
    BY <1>1, <1>2, <1>3, WireCut
  <1>5. /\ last = Nowhere \/ last \in Marks
        /\ marks \in Seq(Marks) /\ N \in Nat /\ DOMAIN marks = 1 .. N
        /\ \A i \in 1 .. N : Follows(Before(last, marks, i), marks[i])
    BY <1>3 DEF Stream
  <1>6. s \in Seq(Nat) /\ Len(s) = n /\ \A i \in 1 .. n : s[i] = ByteOf(marks[i])
    <2>1. s \in Seq(Nat) /\ Len(s) = n
      BY <1>2, <1>3, <1>4, CutAt
    <2>. QED
      BY <1>4, <2>1
  <1>7. ctx \in Contexts /\ delivered \in Seq([message : Outputs, clean : BOOLEAN])
    BY DEF Typed
  <1>8. PICK r : r = process_rcvd_data(ctx, s)
    OBVIOUS
  <1>9. /\ r \in Accs
        /\ r.out = <<>> \/ (r.ctx.phase = "Non_Start" /\ \E o \in Outputs : r.out = <<o>>)
    BY <1>6, <1>7, <1>8, ReadsOneOrNone
  <1>10. /\ ctx' = r.ctx
         /\ delivered' = delivered \o
              [i \in DOMAIN r.out |-> [message |-> r.out[i], clean |-> Clean]]
    BY <1>1, <1>3, <1>8
  <1>11. r.out = <<>> => delivered' = delivered
    <2>. SUFFICES ASSUME r.out = <<>> PROVE delivered' = delivered
      OBVIOUS
    <2>1. PICK e : e = [i \in DOMAIN r.out |-> [message |-> r.out[i], clean |-> Clean]]
      OBVIOUS
    <2>2. e = <<>>
      BY <2>1
    <2>3. delivered' = delivered \o <<>>
      BY <1>10, <2>1, <2>2
    <2>. QED
      BY <1>7, <2>3
  <1>12. ASSUME NEW o, r.out = <<o>>
         PROVE  delivered' = Append(delivered, [message |-> o, clean |-> Clean])
    <2>1. PICK d : d = [message |-> o, clean |-> Clean]
      OBVIOUS
    <2>2. PICK e : e = [i \in DOMAIN r.out |-> [message |-> r.out[i], clean |-> Clean]]
      OBVIOUS
    <2>3. e = <<d>>
      BY <1>12, <2>1, <2>2
    <2>4. delivered' = delivered \o <<d>>
      BY <1>10, <2>2, <2>3
    <2>5. delivered \o <<d>> = Append(delivered, d)
      BY <1>7
    <2>. QED
      BY <2>1, <2>4, <2>5
  <1>13. PICK a, b : a = Before(last, marks, n + 1) /\ b = SubSeq(marks, n + 1, Len(marks))
    OBVIOUS
  <1>14. /\ b \in Seq(Marks) /\ Len(b) = N - n /\ DOMAIN b = 1 .. N - n
         /\ \A i \in 1 .. N - n : b[i] = marks[n + i]
    BY <1>3, <1>4, <1>5, <1>13, CutAt
  <1>15. wire' = [i \in DOMAIN b |-> ByteOf(b[i])]
    BY <1>4, <1>14
  <1>16. ASSUME NEW strictly \in BOOLEAN, InStep(strictly, ctx, last),
                strictly \/ \A i \in DOMAIN marks : NoPairIn(marks[i].m)
         PROVE  Reads(strictly, last, marks, n, r)
    <2>1. \A i \in 1 .. Len(marks) : Follows(Before(last, marks, i), marks[i])
      BY <1>3, <1>5
    <2>2. strictly \/ \A i \in 1 .. Len(marks) : NoPairIn(marks[i].m)
      BY <1>3, <1>5, <1>16
    <2>3. Len(s) <= Len(marks) /\ \A i \in 1 .. Len(s) : s[i] = ByteOf(marks[i])
      BY <1>3, <1>4, <1>5, <1>6
    <2>4. Reads(strictly, last, marks, Len(s), r)
      BY <1>5, <1>6, <1>7, <1>8, <1>16, <2>1, <2>2, <2>3, ReadsAll
    <2>. QED
      BY <1>6, <2>4
  <1>17. Taken(last, marks, n, r, a, b)
    BY <1>1, <1>3, <1>4, <1>9, <1>10, <1>11, <1>12, <1>13, <1>14, <1>15, <1>16 DEF Taken
  <1>. QED
    BY <1>17


(* The bridge reads. *)
LEMMA ReadHolds ==
    ASSUME NEW last, NEW marks, InvAt(last, marks), Read
    PROVE  IInv'
  <1>1. /\ Stream(last, marks) /\ Typed /\ Resynchronised(last) /\ Exact(last, marks)
        /\ InOrder(marks)
    BY DEF InvAt
  <1>2. PICK n, r, a, b : Taken(last, marks, n, r, a, b)
    BY <1>1, ReadTakes
  <1>3. PICK K, M : K = Len(marks) /\ M = Len(delivered)
    OBVIOUS
  <1>4. /\ marks \in Seq(Marks) /\ K \in Nat /\ DOMAIN marks = 1 .. K
        /\ last = Nowhere \/ (last \in Marks /\ Genuine(last))
        /\ \A i \in 1 .. K : marks[i] \in Marks /\ Genuine(marks[i])
                             /\ Follows(Before(last, marks, i), marks[i])
        /\ linkUp => Ends(Before(last, marks, K + 1))
    BY <1>1, <1>3 DEF Stream
  <1>5. /\ ctx \in Contexts /\ sent \in Seq(Content) /\ Numbered(sent) /\ breaks \in Nat
        /\ delivered \in Seq([message : Outputs, clean : BOOLEAN])
        /\ M \in Nat /\ DOMAIN delivered = 1 .. M
    BY <1>1, <1>3 DEF Typed
  <1>6. /\ n \in 0 .. K /\ n \in Nat /\ r \in Accs /\ ctx' = r.ctx
        /\ r.out = <<>> \/ (r.ctx.phase = "Non_Start" /\ \E o \in Outputs : r.out = <<o>>)
        /\ r.out = <<>> => delivered' = delivered
        /\ \A o : r.out = <<o>> => delivered' = Append(delivered, [message |-> o, clean |-> Clean])
        /\ a = Before(last, marks, n + 1)
        /\ b \in Seq(Marks) /\ Len(b) = K - n /\ DOMAIN b = 1 .. K - n
        /\ \A i \in 1 .. K - n : b[i] = marks[n + i]
        /\ wire' = [i \in DOMAIN b |-> ByteOf(b[i])]
        /\ linkUp' = linkUp /\ window' = window /\ sent' = sent /\ breaks' = breaks
    BY <1>2, <1>3 DEF Taken
  <1>7. \A strictly \in BOOLEAN :
           InStep(strictly, ctx, last) /\ (strictly \/ \A i \in 1 .. K : NoPairIn(marks[i].m))
           => Reads(strictly, last, marks, n, r)
    BY <1>2, <1>4 DEF Taken
  <1>8. /\ n \in Nat /\ K \in Nat /\ n <= K /\ K - n \in Nat
        /\ \A i \in 1 .. n : i \in 1 .. K
    BY <1>4, <1>6
  <1>9. \A i \in 1 .. K - n : n + i \in 1 .. K
    BY <1>4, <1>6
  <1>10. NoPairSent' = NoPairSent /\ Clean' = Clean
    BY <1>6 DEF Clean, NoPairSent
  \* What the bytes were when they were sent.
  <1>11. ASSUME NEW p \in 1 .. K, marks[p].m.type \in ReplyTypes
         PROVE  /\ marks[p].num \in DOMAIN sent /\ marks[p].num \in Nat \ {0}
                /\ sent[marks[p].num] = marks[p].m /\ PlaceIn(sent, marks[p].m) = marks[p].num
    BY <1>4, <1>5, <1>11, CameFromSent
  <1>12. ASSUME NoPairSent, NEW i \in 1 .. K PROVE NoPairIn(marks[i].m)
    <2>1. marks[i] \in Marks /\ Genuine(marks[i])
      BY <1>4
    <2>2. marks[i].m \in Content
      BY <2>1 DEF Marks
    <2>3. CASE marks[i].num = 0
      <3>1. marks[i].m.payload = <<>> /\ marks[i].m.type \in Types
        BY <2>1, <2>3 DEF Genuine
      <3>. QED
        BY <2>2, <3>1, NoPairInOthers
    <2>4. CASE marks[i].num # 0
      <3>1. marks[i].num \in DOMAIN sent /\ sent[marks[i].num] = marks[i].m
        BY <2>1, <2>4 DEF Genuine
      <3>2. ~HoldsPair(Tail(Frame(marks[i].m)))
        BY <1>12, <3>1 DEF NoPairSent
      <3>. QED
        BY <2>2, <3>2, NoPairInTail
    <2>. QED
      BY <2>3, <2>4
  \* What comes out when the parser was in step.
  <1>13. ASSUME window = 1, breaks = 0 PROVE Reads(TRUE, last, marks, n, r)
    <2>1. InStep(TRUE, ctx, last)
      BY <1>1, <1>13 DEF Exact
    <2>. QED
      BY <1>7, <2>1
  <1>14. ASSUME NoPairSent, InStep(FALSE, ctx, last) PROVE Reads(FALSE, last, marks, n, r)
    <2>1. \A i \in 1 .. K : NoPairIn(marks[i].m)
      BY <1>12, <1>14
    <2>. QED
      BY <1>7, <1>14, <2>1
  <1>15. ASSUME NEW strictly, Reads(strictly, last, marks, n, r)
         PROVE  /\ r.out = <<>> => InStep(strictly, r.ctx, a)
                /\ r.out # <<>> =>
                     \E p \in 1 .. n : /\ Ends(marks[p]) /\ marks[p].m.type \in ReplyTypes
                                       /\ r.out = <<marks[p].m>>
    BY <1>6, <1>15 DEF Reads, CameOut
  <1>16. ASSUME Clean
         PROVE  r.out # <<>> =>
                  \E p \in 1 .. n : /\ Ends(marks[p]) /\ marks[p].m.type \in ReplyTypes
                                    /\ r.out = <<marks[p].m>>
    <2>1. CASE window = 1 /\ breaks = 0
      BY <1>13, <1>15, <2>1
    <2>2. CASE NoPairSent /\ breaks = 0
      <3>1. InStep(FALSE, ctx, last)
        <4>1. PICK garbles \in BOOLEAN : /\ garbles \/ InStep(FALSE, ctx, last)
                                         /\ Cardinality(Garbled) + Owed(garbles) <= breaks
          BY <1>1, <2>2 DEF Resynchronised
        <4>2. Cardinality(Garbled) \in Nat
          BY <1>1, GarbledCount
        <4>3. Owed(TRUE) \in Nat /\ Owed(TRUE) > 0
          BY <1>5 DEF Owed
        <4>4. garbles # TRUE
          <5>1. SUFFICES ASSUME garbles = TRUE PROVE FALSE
            OBVIOUS
          <5>2. PICK c, o : c = Cardinality(Garbled) /\ o = Owed(TRUE)
            OBVIOUS
          <5>3. c + o <= 0
            BY <2>2, <4>1, <5>1, <5>2
          <5>4. c \in Nat /\ o \in Nat /\ o > 0
            BY <4>2, <4>3, <5>2
          <5>. QED
            BY <5>3, <5>4
        <4>. QED
          BY <4>1, <4>4
      <3>. QED
        BY <1>14, <1>15, <2>2, <3>1
    <2>. QED
      BY <1>16, <2>1, <2>2 DEF Clean
  \* Part by part.
  <1>17. a = Nowhere \/ (a \in Marks /\ Genuine(a))
    <2>1. CASE n = 0
      BY <1>4, <1>6, <2>1 DEF Before
    <2>2. CASE n # 0
      <3>1. n \in 1 .. K /\ n + 1 # 1 /\ (n + 1) - 1 = n
        BY <1>8, <2>2
      <3>. QED
        BY <1>4, <1>6, <3>1 DEF Before
    <2>. QED
      BY <2>1, <2>2
  <1>18. ASSUME NEW i \in 1 .. (K - n) + 1 PROVE Before(a, b, i) = Before(last, marks, n + i)
    <2>1. CASE i = 1
      BY <1>6, <2>1 DEF Before
    <2>2. CASE i # 1
      <3>1. i - 1 \in 1 .. K - n /\ n + i # 1 /\ (n + i) - 1 = n + (i - 1)
        BY <1>6, <1>8, <2>2
      <3>2. b[i - 1] = marks[n + (i - 1)]
        BY <1>6, <3>1
      <3>. QED
        BY <2>2, <3>1, <3>2 DEF Before
    <2>. QED
      BY <2>1, <2>2
  <1>19. Stream(a, b)'
    <2>1. \A x : Genuine(x)' = Genuine(x)
      BY <1>6 DEF Genuine
    <2>2. ASSUME NEW i \in 1 .. K - n PROVE Genuine(b[i])' /\ Follows(Before(a, b, i), b[i])
      <3>1. i \in 1 .. (K - n) + 1 /\ n + i \in 1 .. K /\ b[i] = marks[n + i]
        BY <1>6, <1>8, <1>9
      <3>2. Genuine(marks[n + i]) /\ Follows(Before(last, marks, n + i), marks[n + i])
        BY <1>4, <3>1
      <3>3. Before(a, b, i) = Before(last, marks, n + i)
        BY <1>18, <3>1
      <3>4. Genuine(marks[n + i])'
        BY <2>1, <3>2
      <3>. QED
        BY <3>1, <3>2, <3>3, <3>4, Zenon
    <2>3. linkUp' => Ends(Before(a, b, Len(b) + 1))
      <3>1. (K - n) + 1 \in 1 .. (K - n) + 1 /\ n + ((K - n) + 1) = K + 1
        BY <1>4, <1>6, <1>8
      <3>2. Before(a, b, (K - n) + 1) = Before(last, marks, n + ((K - n) + 1))
        BY <1>18, <3>1
      <3>. QED
        BY <1>4, <1>6, <3>1, <3>2
    <2>4. a = Nowhere \/ (a \in Marks /\ Genuine(a)')
      BY <1>17, <2>1
    <2>5. \A i \in DOMAIN b : Genuine(b[i])' /\ Follows(Before(a, b, i), b[i])
      BY <1>6, <2>2
    <2>6. b \in Seq(Marks) /\ wire' = [i \in DOMAIN b |-> ByteOf(b[i])]
      BY <1>6
    <2>. QED
      BY <2>3, <2>4, <2>5, <2>6 DEF Stream
  <1>20. ctx' \in Contexts /\ (r.out # <<>> => ctx'.phase = "Non_Start")
    BY <1>6 DEF Accs
  <1>21. Clean \in BOOLEAN
    BY DEF Clean
  <1>22. ASSUME NEW o, r.out = <<o>>
         PROVE  /\ o \in Outputs
                /\ delivered' \in Seq([message : Outputs, clean : BOOLEAN])
                /\ Len(delivered') = M + 1 /\ DOMAIN delivered' = 1 .. M + 1
                /\ \A i \in 1 .. M : delivered'[i] = delivered[i]
                /\ delivered'[M + 1].message = o /\ delivered'[M + 1].clean = Clean
    <2>1. o \in Outputs
      BY <1>6, <1>22
    <2>2. PICK c : c = Clean
      OBVIOUS
    <2>3. PICK d, x : d = [message |-> o, clean |-> c] /\ x = Append(delivered, d)
      OBVIOUS
    <2>4. d \in [message : Outputs, clean : BOOLEAN] /\ d.message = o /\ d.clean = c
      BY <1>21, <2>1, <2>2, <2>3
    <2>5. /\ x \in Seq([message : Outputs, clean : BOOLEAN])
          /\ Len(x) = M + 1 /\ DOMAIN x = 1 .. M + 1
          /\ \A i \in 1 .. M : x[i] = delivered[i]
          /\ x[M + 1] = d
      BY <1>3, <1>5, <2>3, <2>4
    <2>6. delivered' = x
      BY <1>6, <1>22, <2>2, <2>3
    <2>. QED
      BY <2>1, <2>2, <2>4, <2>5, <2>6
  <1>23. Typed'
    <2>1. delivered' \in Seq([message : Outputs, clean : BOOLEAN])
      BY <1>5, <1>6, <1>22
    <2>2. Numbered(sent)'
      BY <1>5, <1>6 DEF Numbered
    <2>. QED
      BY <1>1, <1>6, <1>20, <2>1, <2>2 DEF Typed
  <1>24. Resynchronised(a)'
    <2>1. SUFFICES ASSUME NoPairSent
                   PROVE  \E garbles \in BOOLEAN :
                             /\ garbles \/ InStep(FALSE, ctx', a)
                             /\ Cardinality(Garbled') + Owed(garbles) <= breaks
      BY <1>6, <1>10 DEF Resynchronised, Owed
    <2>2. PICK garbles \in BOOLEAN : /\ garbles \/ InStep(FALSE, ctx, last)
                                     /\ Cardinality(Garbled) + Owed(garbles) <= breaks
      BY <1>1, <2>1 DEF Resynchronised
    <2>3. CASE r.out = <<>>
      <3>1. Garbled' = Garbled
        BY <1>6, <2>3 DEF Garbled
      <3>2. garbles \/ InStep(FALSE, ctx', a)
        <4>1. CASE garbles
          BY <4>1
        <4>2. CASE ~garbles
          <5>1. Reads(FALSE, last, marks, n, r)
            BY <1>14, <2>1, <2>2, <4>2
          <5>. QED
            BY <1>6, <1>15, <2>3, <5>1
        <4>. QED
          BY <4>1, <4>2
      <3>. QED
        BY <2>2, <3>1, <3>2
    <2>4. CASE r.out # <<>>
      <3>1. InStep(FALSE, ctx', a)
        BY <1>20, <2>4 DEF InStep, Looks
      <3>2. PICK o : r.out = <<o>>
        BY <1>6, <2>4
      <3>3. PICK A, B : A = Garbled /\ B = Garbled'
        OBVIOUS
      <3>4. /\ Cardinality(A) \in Nat /\ Cardinality(B) \in Nat
            /\ Cardinality(B) <= Cardinality(A) + 1
            /\ PlaceIn(sent, o) # 0 => B = A
        <4>1. PICK dl2, d : dl2 = delivered' /\ d = delivered'[M + 1]
          OBVIOUS
        <4>2. /\ DOMAIN dl2 = 1 .. M + 1 /\ \A i \in 1 .. M : dl2[i] = delivered[i]
              /\ dl2[M + 1] = d /\ d.message = o
          BY <1>22, <3>2, <4>1
        <4>3. A = GarbledIn(sent, delivered) /\ B = GarbledIn(sent, dl2)
          BY <1>6, <3>3, <4>1 DEF Garbled
        <4>4. /\ Cardinality(GarbledIn(sent, delivered)) \in Nat
              /\ Cardinality(GarbledIn(sent, dl2)) \in Nat
              /\ Cardinality(GarbledIn(sent, dl2)) <= Cardinality(GarbledIn(sent, delivered)) + 1
              /\ PlaceIn(sent, d.message) # 0
                    => GarbledIn(sent, dl2) = GarbledIn(sent, delivered)
          BY <1>5, <4>2, GarbledOneMore
        <4>. QED
          BY <4>2, <4>3, <4>4
      <3>5. Cardinality(B) + Owed(FALSE) <= breaks
        <4>1. PICK x, y, c, e : /\ x = Cardinality(A) /\ y = Cardinality(B)
                                /\ c = Owed(garbles) /\ e = Owed(FALSE)
          OBVIOUS
        <4>2. x \in Nat /\ y \in Nat /\ y <= x + 1 /\ x + c <= breaks
          BY <2>2, <3>3, <3>4, <4>1
        <4>3. c \in Nat /\ e \in Nat /\ c = e + (IF garbles THEN 1 ELSE 0)
          BY <4>1 DEF Owed
        <4>4. CASE garbles
          <5>1. breaks \in Nat
            BY <1>5
          <5>2. y + e <= breaks
            BY <4>2, <4>3, <4>4, <5>1
          <5>. QED
            BY <4>1, <5>2, Zenon
        <4>5. CASE ~garbles
          <5>1. Reads(FALSE, last, marks, n, r)
            BY <1>14, <2>1, <2>2, <4>5
          <5>2. PICK p \in 1 .. n : /\ marks[p].m.type \in ReplyTypes
                                    /\ r.out = <<marks[p].m>>
            BY <1>15, <2>4, <5>1
          <5>3. o = marks[p].m
            BY <3>2, <5>2
          <5>4. PlaceIn(sent, o) # 0
            BY <1>8, <1>11, <5>2, <5>3
          <5>5. y = x
            BY <3>4, <4>1, <5>4
          <5>. QED
            BY <1>5, <4>1, <4>2, <4>3, <4>5, <5>5
        <4>. QED
          BY <4>4, <4>5
      <3>. QED
        BY <3>1, <3>3, <3>5
    <2>. QED
      BY <2>3, <2>4
  <1>25. Exact(a, b)'
    <2>1. SUFFICES ASSUME window = 1, breaks = 0
                   PROVE  /\ InStep(TRUE, ctx', a)
                          /\ \A i \in 1 .. K - n : b[i].num # 0 =>
                                b[i].num = Len(delivered') + 1 /\ (Ends(b[i]) => i = K - n)
                          /\ Len(delivered') <= Len(sent)
                          /\ \A i \in DOMAIN delivered' : delivered'[i].message = sent[i]
      BY <1>6 DEF Exact
    <2>2. /\ InStep(TRUE, ctx, last)
          /\ \A i \in 1 .. K : marks[i].num # 0 =>
                marks[i].num = M + 1 /\ (Ends(marks[i]) => i = K)
          /\ M <= Len(sent)
          /\ \A i \in 1 .. M : delivered[i].message = sent[i]
      BY <1>1, <1>3, <1>4, <1>5, <2>1 DEF Exact
    <2>3. Reads(TRUE, last, marks, n, r)
      BY <1>13, <2>1
    <2>4. CASE r.out = <<>>
      <3>1. InStep(TRUE, ctx', a)
        BY <1>6, <1>15, <2>3, <2>4
      <3>2. ASSUME NEW i \in 1 .. K - n, b[i].num # 0
            PROVE  b[i].num = M + 1 /\ (Ends(b[i]) => i = K - n)
        <4>1. n + i \in 1 .. K /\ b[i] = marks[n + i]
          BY <1>6, <1>9
        <4>2. Ends(b[i]) => n + i = K
          BY <2>2, <3>2, <4>1
        <4>3. n + i = K => i = K - n
          BY <1>6
        <4>. QED
          BY <2>2, <3>2, <4>1, <4>2, <4>3
      <3>. QED
        BY <1>3, <1>5, <1>6, <2>2, <2>4, <3>1, <3>2
    <2>5. CASE r.out # <<>>
      <3>1. PICK p \in 1 .. n : /\ Ends(marks[p]) /\ marks[p].m.type \in ReplyTypes
                                /\ r.out = <<marks[p].m>>
        BY <1>15, <2>3, <2>5
      <3>2. PICK o : o = marks[p].m
        OBVIOUS
      <3>3. p \in 1 .. K
        BY <1>8
      <3>4. /\ marks[p].num \in DOMAIN sent /\ marks[p].num \in Nat \ {0}
            /\ sent[marks[p].num] = o
        BY <1>11, <3>1, <3>2, <3>3
      <3>5. marks[p].num = M + 1 /\ p = K
        BY <2>2, <3>1, <3>3, <3>4
      <3>6. n = K /\ K - n = 0 /\ n \in 1 .. K /\ n + 1 # 1 /\ (n + 1) - 1 = n
        <4>1. n = K
          <5>1. p <= n /\ p = K
            BY <3>5
          <5>. QED
            BY <1>8, <5>1
        <4>2. K >= 1
          BY <3>3, <3>5
        <4>. QED
          BY <1>8, <4>1, <4>2
      <3>7. a = marks[p]
        BY <1>6, <3>5, <3>6 DEF Before
      <3>8. InStep(TRUE, ctx', a)
        BY <1>20, <2>5, <3>1, <3>7 DEF InStep, OnSeam
      <3>9. /\ Len(delivered') = M + 1 /\ DOMAIN delivered' = 1 .. M + 1
            /\ \A i \in 1 .. M : delivered'[i] = delivered[i]
            /\ delivered'[M + 1].message = o
        BY <1>22, <3>1, <3>2
      <3>10. M + 1 \in DOMAIN sent /\ sent[M + 1] = o
        BY <3>4, <3>5
      <3>11. M + 1 <= Len(sent)
        BY <1>5, <3>10
      <3>12. \A i \in 1 .. M + 1 : delivered'[i].message = sent[i]
        <4>1. \A i \in 1 .. M + 1 : i \in 1 .. M \/ i = M + 1
          BY <1>5
        <4>. QED
          BY <2>2, <3>9, <3>10, <4>1
      <3>13. 1 .. K - n = {}
        BY <3>6
      <3>. QED
        BY <3>8, <3>9, <3>11, <3>12, <3>13
    <2>. QED
      BY <2>4, <2>5
  <1>26. InOrder(b)'
    <2>1. Ordered(sent, delivered, marks, Clean)
      BY <1>1 DEF InOrder
    <2>2. SUFFICES Ordered(sent, delivered', b, Clean)
      BY <1>6, <1>10 DEF InOrder
    <2>3. sent \in Seq(Content) /\ M \in Nat /\ DOMAIN delivered = 1 .. M
          /\ K \in Nat /\ DOMAIN marks = 1 .. K
      BY <1>4, <1>5
    <2>4. n \in 0 .. K /\ DOMAIN b = 1 .. K - n /\ \A i \in 1 .. K - n : b[i] = marks[n + i]
      BY <1>6
    <2>5. CASE r.out = <<>>
      <3>1. Ordered(sent, delivered, b, Clean)
        BY <1>21, <2>1, <2>3, <2>4, OrderedLess
      <3>. QED
        BY <1>6, <2>5, <3>1
    <2>6. CASE r.out # <<>>
      <3>1. PICK o : r.out = <<o>>
        BY <1>6, <2>6
      <3>2. PICK dl2, d : dl2 = delivered' /\ d = delivered'[M + 1]
        OBVIOUS
      <3>3. /\ DOMAIN dl2 = 1 .. M + 1 /\ \A i \in 1 .. M : dl2[i] = delivered[i]
            /\ dl2[M + 1] = d /\ d.message = o /\ d.clean = Clean
        BY <1>22, <3>1, <3>2
      <3>4. ASSUME Clean
            PROVE  /\ PlaceIn(sent, o) # 0
                   /\ \A i \in DOMAIN delivered :
                         PlaceIn(sent, delivered[i].message) < PlaceIn(sent, o)
                   /\ \A j \in DOMAIN b : b[j].num # 0 => PlaceIn(sent, o) < b[j].num
        <4>1. PICK p \in 1 .. n : /\ Ends(marks[p]) /\ marks[p].m.type \in ReplyTypes
                                  /\ r.out = <<marks[p].m>>
          BY <1>16, <2>6, <3>4
        <4>2. o = marks[p].m
          BY <3>1, <4>1
        <4>3. marks[p].num # 0 /\ PlaceIn(sent, o) = marks[p].num
          BY <1>8, <1>11, <4>1, <4>2
        <4>4. Ordered(sent, delivered, marks, TRUE)
          <5>1. Clean = TRUE
            BY <1>21, <3>4
          <5>. QED
            BY <2>1, <5>1
        <4>5. /\ \A i \in DOMAIN delivered :
                    PlaceIn(sent, delivered[i].message) < marks[p].num
              /\ \A j \in DOMAIN b : b[j].num # 0 => marks[p].num < b[j].num
          BY <2>3, <2>4, <4>1, <4>3, <4>4, NumberBetween
        <4>. QED
          BY <4>3, <4>5
      <3>5. Ordered(sent, delivered, b, Clean)
        BY <1>21, <2>1, <2>3, <2>4, OrderedLess
      <3>6. Ordered(sent, dl2, b, Clean)
        <4>1. PICK c \in BOOLEAN : c = Clean
          BY <1>21
        <4>2. d.clean = c /\ Ordered(sent, delivered, b, c)
          BY <3>3, <3>5, <4>1
        <4>3. c => /\ PlaceIn(sent, d.message) # 0
                   /\ \A i \in DOMAIN delivered :
                         PlaceIn(sent, delivered[i].message) < PlaceIn(sent, d.message)
                   /\ \A j \in DOMAIN b : b[j].num # 0 => PlaceIn(sent, d.message) < b[j].num
          BY <3>3, <3>4, <4>1
        <4>4. Ordered(sent, dl2, b, c)
          BY <2>3, <3>3, <4>2, <4>3, OrderedAppended
        <4>. QED
          BY <4>1, <4>4
      <3>. QED
        BY <3>2, <3>6
    <2>. QED
      BY <2>5, <2>6
  <1>. QED
    BY <1>19, <1>23, <1>24, <1>25, <1>26 DEF IInv, InvAt


-----------------------------------------------------------------------------
(* What the invariant is for.                                                *)

(* Every step keeps the invariant. *)
LEMMA IInvHolds ==
    Spec => []IInv
  <1>1. Init => IInv
    BY InitHolds
  <1>2. IInv /\ [Next]_vars => IInv'
    <2>. SUFFICES ASSUME IInv, [Next]_vars PROVE IInv'
      OBVIOUS
    <2>1. PICK last, marks : InvAt(last, marks)
      BY DEF IInv
    <2>2. CASE Send
      BY <2>1, <2>2, SendHolds
    <2>3. CASE SendOther
      BY <2>1, <2>3, SendOtherHolds
    <2>4. CASE Read
      BY <2>1, <2>4, ReadHolds
    <2>5. CASE Break
      BY <2>1, <2>5, BreakHolds
    <2>6. CASE Reconnect
      BY <2>1, <2>6, ReconnectHolds
    <2>7. CASE UNCHANGED vars
      <3>1. UNCHANGED <<ctx, wire, linkUp, window, sent, delivered, breaks>>
        BY <2>7 DEF vars
      <3>2. Stream(last, marks)'
        BY <2>1, <3>1 DEF InvAt, Stream, Genuine
      <3>3. Typed'
        BY <2>1, <3>1 DEF InvAt, Typed, Numbered
      <3>4. Resynchronised(last)'
        BY <2>1, <3>1 DEF InvAt, Resynchronised, NoPairSent, Garbled, Owed
      <3>5. Exact(last, marks)'
        BY <2>1, <3>1 DEF InvAt, Exact
      <3>6. InOrder(marks)'
        BY <2>1, <3>1 DEF InvAt, InOrder, Clean, NoPairSent
      <3>. QED
        BY <3>2, <3>3, <3>4, <3>5, <3>6 DEF IInv, InvAt
    <2>. QED
      BY <2>2, <2>3, <2>4, <2>5, <2>6, <2>7 DEF Next
  <1>. QED
    BY <1>1, <1>2, PTL DEF Spec

(* A receive context left over from a lost connection garbles what comes     *)
(* next, once: if no frame holds the leading bytes again, at most one        *)
(* message that was never sent comes out for each connection that was lost.  *)
THEOREM GarbledAtMostOncePerBreak ==
    Spec => []GarbledOncePerBreak
  <1>1. IInv => GarbledOncePerBreak
    <2>. SUFFICES ASSUME IInv, NoPairSent
                  PROVE  Cardinality({i \in DOMAIN delivered : places[i] = 0}) <= breaks
      BY DEF GarbledOncePerBreak
    <2>1. PICK last, marks : InvAt(last, marks)
      BY DEF IInv
    <2>2. Typed /\ Resynchronised(last)
      BY <2>1 DEF InvAt
    <2>3. PICK garbles \in BOOLEAN : Cardinality(Garbled) + Owed(garbles) <= breaks
      BY <2>2 DEF Resynchronised
    <2>4. Cardinality(Garbled) \in Nat /\ Owed(garbles) \in Nat /\ breaks \in Nat
      BY <2>2, GarbledCount DEF Owed, Typed
    <2>5. Cardinality(Garbled) <= breaks
      <3>1. PICK c, o : c = Cardinality(Garbled) /\ o = Owed(garbles)
        OBVIOUS
      <3>2. c <= breaks
        BY <2>3, <2>4, <3>1
      <3>. QED
        BY <3>1, <3>2
    <2>6. Garbled = {i \in DOMAIN delivered : places[i] = 0}
      BY DEF Garbled, GarbledIn, places, Place, PlaceIn
    <2>. QED
      BY <2>5, <2>6
  <1>. QED
    BY <1>1, IInvHolds, PTL

-----------------------------------------------------------------------------
(* What the link promises.                                                   *)

(* What came out in order, as a sequence of numbers. *)
Came(s, dl) == [i \in {j \in DOMAIN dl : dl[j].clean} |-> PlaceIn(s, dl[i].message)]

(* It is what the refinement maps the messages that came out to. *)
LEMMA CameIs ==
    inOrder = Came(sent, delivered) /\ inOrder' = Came(sent', delivered')
  <1>1. inOrder = Came(sent, delivered)
    BY DEF inOrder, Came, Place, PlaceIn
  <1>2. inOrder' = Came(sent', delivered')
    BY DEF inOrder, Came, Place, PlaceIn
  <1>. QED
    BY <1>1, <1>2


(* What is not in order is not counted. *)
LEMMA CameSame ==
    ASSUME NEW s, NEW dl, NEW N \in Nat, DOMAIN dl = 1 .. N,
           NEW dl2, DOMAIN dl2 = 1 .. N + 1, \A i \in 1 .. N : dl2[i] = dl[i],
           ~dl2[N + 1].clean
    PROVE  Came(s, dl2) = Came(s, dl)
  <1>1. PICK C, D : C = {j \in 1 .. N : dl[j].clean} /\ D = {j \in 1 .. N + 1 : dl2[j].clean}
    OBVIOUS
  <1>2. \A i \in 1 .. N + 1 : i \in 1 .. N \/ i = N + 1
    OBVIOUS
  <1>3. \A i \in 1 .. N : i \in 1 .. N + 1 /\ i # N + 1
    OBVIOUS
  <1>4. D = C
    BY <1>1, <1>2, <1>3
  <1>5. \A i \in C : dl2[i] = dl[i]
    BY <1>1
  <1>6. Came(s, dl) = [i \in C |-> PlaceIn(s, dl[i].message)]
    BY <1>1 DEF Came
  <1>7. Came(s, dl2) = [i \in D |-> PlaceIn(s, dl2[i].message)]
    BY <1>1 DEF Came
  <1>. QED
    BY <1>4, <1>5, <1>6, <1>7

(* What is in order comes after all the others. *)
LEMMA CameNext ==
    ASSUME NEW s \in Seq(Content), NEW dl, NEW N \in Nat, DOMAIN dl = 1 .. N,
           NEW dl2, DOMAIN dl2 = 1 .. N + 1, \A i \in 1 .. N : dl2[i] = dl[i],
           \A i \in 1 .. N + 1 : dl2[i].clean
    PROVE  /\ Came(s, dl) \in Seq(Nat) /\ Len(Came(s, dl)) = N
           /\ \A i \in 1 .. N : Came(s, dl)[i] = PlaceIn(s, dl[i].message)
           /\ Came(s, dl2) = Append(Came(s, dl), PlaceIn(s, dl2[N + 1].message))
  <1>1. \A i \in 1 .. N + 1 : i \in 1 .. N \/ i = N + 1
    OBVIOUS
  <1>2. \A i \in 1 .. N : i \in 1 .. N + 1 /\ i # N + 1
    OBVIOUS
  <1>3. {j \in 1 .. N : dl[j].clean} = 1 .. N /\ {j \in 1 .. N + 1 : dl2[j].clean} = 1 .. N + 1
    BY <1>2
  <1>4. PICK f, g, k : f = Came(s, dl) /\ g = Came(s, dl2) /\ k = PlaceIn(s, dl2[N + 1].message)
    OBVIOUS
  <1>5. f = [i \in 1 .. N |-> PlaceIn(s, dl[i].message)]
    BY <1>3, <1>4 DEF Came
  <1>6. g = [i \in 1 .. N + 1 |-> PlaceIn(s, dl2[i].message)]
    BY <1>3, <1>4 DEF Came
  <1>7. k \in Nat /\ \A i \in 1 .. N : PlaceIn(s, dl[i].message) \in Nat
    BY <1>4, PlaceType
  <1>8. f \in Seq(Nat) /\ Len(f) = N /\ \A i \in 1 .. N : f[i] = PlaceIn(s, dl[i].message)
    <2>1. f \in [1 .. N -> Nat]
      BY <1>5, <1>7
    <2>. QED
      BY <1>5, <2>1
  <1>9. PICK h : h = Append(f, k)
    OBVIOUS
  <1>10. /\ h = [i \in 1 .. N + 1 |-> h[i]] /\ h[N + 1] = k
         /\ \A i \in 1 .. N : h[i] = f[i]
    <2>1. h \in Seq(Nat) /\ Len(h) = N + 1 /\ h[N + 1] = k
      BY <1>7, <1>8, <1>9
    <2>2. \A i \in 1 .. N : h[i] = f[i]
      BY <1>7, <1>8, <1>9
    <2>3. h = [i \in 1 .. Len(h) |-> h[i]]
      BY <2>1
    <2>. QED
      BY <2>1, <2>2, <2>3
  <1>11. \A i \in 1 .. N + 1 : h[i] = PlaceIn(s, dl2[i].message)
    BY <1>1, <1>4, <1>8, <1>10
  <1>12. g = h
    BY <1>6, <1>10, <1>11
  <1>. QED
    BY <1>4, <1>8, <1>9, <1>12

(* What came out in order has its place whatever is sent after it. *)
LEMMA CameKept ==
    ASSUME NEW s, NEW s2, NEW dl,
           \A i \in DOMAIN dl : dl[i].clean => PlaceIn(s, dl[i].message) # 0,
           \A o : PlaceIn(s, o) # 0 => PlaceIn(s2, o) = PlaceIn(s, o)
    PROVE  Came(s2, dl) = Came(s, dl)
  <1>1. PICK C : C = {j \in DOMAIN dl : dl[j].clean}
    OBVIOUS
  <1>2. \A i \in C : PlaceIn(s2, dl[i].message) = PlaceIn(s, dl[i].message)
    BY <1>1
  <1>3. Came(s, dl) = [i \in C |-> PlaceIn(s, dl[i].message)]
    BY <1>1 DEF Came
  <1>4. Came(s2, dl) = [i \in C |-> PlaceIn(s2, dl[i].message)]
    BY <1>1 DEF Came
  <1>. QED
    BY <1>2, <1>3, <1>4

(* A step of the link is one of what it promises, or none. *)
LinkStep == [Promised!Accept \/ Promised!Deliver \/ Promised!TurnLossy]_(Promised!lvars)

(* The runtime sends: a message goes in. *)
LEMMA SendAccepts ==
    ASSUME IInv, Send
    PROVE  Promised!Accept
  <1>1. PICK last, marks : InvAt(last, marks)
    BY DEF IInv
  <1>2. Typed /\ Ordered(sent, delivered, marks, Clean)
    BY <1>1 DEF InvAt, InOrder
  <1>3. /\ UNCHANGED <<window, delivered, breaks>>
        /\ Len(sent') = Len(sent) + 1
        /\ \A o : PlaceIn(sent, o) # 0 => PlaceIn(sent', o) = PlaceIn(sent, o)
    BY <1>2, SendAppends
  <1>4. \A i \in DOMAIN delivered : delivered[i].clean => PlaceIn(sent, delivered[i].message) # 0
    BY <1>2 DEF Ordered
  <1>5. inOrder' = inOrder
    <2>1. PICK s2 : s2 = sent'
      OBVIOUS
    <2>2. Came(s2, delivered) = Came(sent, delivered)
      BY <1>3, <1>4, <2>1, CameKept
    <2>. QED
      BY <1>3, <2>1, <2>2, CameIs
  <1>. QED
    BY <1>3, <1>5 DEF Promised!Accept

(* The bridge reads: a message comes out in order, or none. *)
LEMMA ReadDelivers ==
    ASSUME IInv, IInv', Read
    PROVE  Promised!Deliver \/ UNCHANGED Promised!lvars
  <1>1. PICK last, marks : InvAt(last, marks)
    BY DEF IInv
  <1>2. PICK last2, marks2 : InvAt(last2, marks2)'
    BY DEF IInv
  <1>3. Stream(last, marks) /\ Typed /\ Exact(last, marks)
    BY <1>1 DEF InvAt
  <1>4. Exact(last2, marks2)' /\ Ordered(sent', delivered', marks2, Clean')
    BY <1>2 DEF InvAt, InOrder
  <1>5. PICK n, r, a, b : Taken(last, marks, n, r, a, b)
    BY <1>3, ReadTakes
  <1>6. /\ r.out = <<>> \/ \E o \in Outputs : r.out = <<o>>
        /\ r.out = <<>> => delivered' = delivered
        /\ \A o : r.out = <<o>> => delivered' = Append(delivered, [message |-> o, clean |-> Clean])
        /\ UNCHANGED <<linkUp, window, sent, others, breaks>>
    BY <1>5 DEF Taken
  <1>7. /\ inOrder = Came(sent, delivered) /\ inOrder' = Came(sent, delivered')
        /\ Len(sent)' = Len(sent) /\ (window = 1 /\ breaks = 0)' = (window = 1 /\ breaks = 0)
    BY <1>6, CameIs
  <1>8. CASE delivered' = delivered
    BY <1>7, <1>8 DEF Promised!lvars
  <1>9. CASE delivered' # delivered
    <2>1. PICK o : delivered' = Append(delivered, [message |-> o, clean |-> Clean])
      BY <1>6, <1>9
    <2>2. PICK s, dl, dl2, c, d, N : /\ s = sent /\ dl = delivered /\ dl2 = delivered' /\ c = Clean
                                     /\ d = [message |-> o, clean |-> c] /\ N = Len(delivered)
      OBVIOUS
    <2>3. /\ s \in Seq(Content) /\ Numbered(s) /\ N \in Nat /\ DOMAIN dl = 1 .. N
          /\ dl \in Seq([message : Outputs, clean : BOOLEAN])
      BY <1>3, <2>2 DEF Typed
    <2>4. /\ DOMAIN dl2 = 1 .. N + 1 /\ \A i \in 1 .. N : dl2[i] = dl[i]
          /\ dl2[N + 1] = d
      <3>1. dl2 = Append(dl, d)
        BY <2>1, <2>2
      <3>. QED
        BY <2>2, <2>3, <3>1
    <2>5. d.message = o /\ d.clean = c /\ c \in BOOLEAN
      BY <2>2 DEF Clean
    <2>6. CASE c = FALSE
      <3>1. Came(s, dl2) = Came(s, dl)
        BY <2>3, <2>4, <2>5, <2>6, CameSame
      <3>. QED
        BY <1>7, <2>2, <3>1 DEF Promised!lvars
    <2>7. CASE c = TRUE
      <3>1. /\ \A i \in 1 .. N + 1 : dl2[i].clean => PlaceIn(s, dl2[i].message) # 0
            /\ \A i, j \in 1 .. N + 1 : i < j /\ dl2[j].clean =>
                  dl2[i].clean /\ PlaceIn(s, dl2[i].message) < PlaceIn(s, dl2[j].message)
        BY <1>4, <1>6, <2>2, <2>4 DEF Ordered
      <3>2. N + 1 \in 1 .. N + 1 /\ \A i \in 1 .. N : i \in 1 .. N + 1 /\ i < N + 1
        BY <2>3
      <3>3. \A i \in 1 .. N + 1 : dl2[i].clean
        <4>1. \A i \in 1 .. N + 1 : i \in 1 .. N \/ i = N + 1
          BY <2>3
        <4>. QED
          BY <2>4, <2>5, <2>7, <3>1, <3>2, <4>1
      <3>4. PICK k, f : k = PlaceIn(s, o) /\ f = Came(s, dl)
        OBVIOUS
      <3>5. /\ f \in Seq(Nat) /\ Len(f) = N
            /\ \A i \in 1 .. N : f[i] = PlaceIn(s, dl[i].message)
            /\ Came(s, dl2) = Append(f, k)
        BY <2>3, <2>4, <2>5, <3>3, <3>4, CameNext
      <3>6. k \in Nat /\ k # 0 /\ k \in DOMAIN s /\ s[k] = o
        <4>1. k # 0
          BY <2>4, <2>5, <3>1, <3>2, <3>3, <3>4
        <4>. QED
          BY <2>3, <3>4, <4>1, PlaceType
      <3>7. k <= Len(s)
        BY <2>3, <3>6
      <3>8. \A i \in 1 .. N : f[i] < k
        BY <2>4, <2>5, <3>1, <3>2, <3>3, <3>4, <3>5
      <3>9. PICK z : z = Promised!Newest
        OBVIOUS
      <3>10. z = IF N = 0 THEN 0 ELSE f[N]
        <4>1. z = IF f = <<>> THEN 0 ELSE f[Len(f)]
          BY <1>7, <2>2, <3>4, <3>9 DEF Promised!Newest
        <4>2. f = <<>> <=> N = 0
          BY <3>5
        <4>. QED
          BY <3>5, <4>1, <4>2
      <3>11. z \in Nat /\ z < k
        <4>1. CASE N = 0
          BY <3>6, <3>10, <4>1
        <4>2. CASE N # 0
          <5>1. N \in 1 .. N
            BY <2>3, <4>2
          <5>. QED
            BY <3>5, <3>8, <3>10, <4>2, <5>1
        <4>. QED
          BY <4>1, <4>2
      <3>12. ASSUME window = 1, breaks = 0 PROVE k = z + 1
        <4>1. \A i \in 1 .. N : dl[i].message = s[i]
          BY <1>3, <2>2, <2>3, <3>12 DEF Exact
        <4>2. Len(delivered') <= Len(s) /\ \A i \in 1 .. N + 1 : dl2[i].message = s[i]
          BY <1>4, <1>6, <2>2, <2>4, <3>12 DEF Exact
        <4>3. Len(delivered') = N + 1
          BY <2>1, <2>2, <2>3
        <4>4. \A i \in 1 .. N + 1 : i \in DOMAIN s
          BY <2>2, <2>3, <4>2, <4>3
        <4>5. \A i \in 1 .. N + 1 : PlaceIn(s, s[i]) = i
          BY <2>3, <4>4, PlaceOf
        <4>6. k = N + 1
          BY <2>4, <2>5, <3>2, <3>4, <4>2, <4>5
        <4>7. z = N
          <5>1. CASE N = 0
            BY <3>10, <5>1
          <5>2. CASE N # 0
            <6>1. N \in 1 .. N
              BY <2>3, <5>2
            <6>2. f[N] = PlaceIn(s, s[N])
              BY <3>5, <4>1, <6>1
            <6>3. f[N] = N
              BY <3>2, <4>5, <6>1, <6>2
            <6>. QED
              BY <3>10, <5>2, <6>3
          <5>. QED
            BY <5>1, <5>2
        <4>. QED
          BY <4>6, <4>7
      <3>13. /\ k \in z + 1 .. (IF window = 1 /\ breaks = 0 THEN z + 1 ELSE Len(sent))
             /\ k <= Len(sent)
        BY <2>2, <3>6, <3>7, <3>11, <3>12
      <3>14. inOrder' = Append(inOrder, k)
        BY <1>7, <2>2, <3>4, <3>5
      <3>. QED
        BY <1>7, <3>9, <3>13, <3>14 DEF Promised!Deliver
    <2>. QED
      BY <2>5, <2>6, <2>7
  <1>. QED
    BY <1>8, <1>9

(* The framing implements what a message link promises, but that what goes   *)
(* in comes out in the end: what comes out of a stream that was never cut,   *)
(* and in which no payload looks like a frame, or messages are sent one at a *)
(* time, was sent, whole, in order and once; and messages sent one at a time *)
(* come out without any left out.                                            *)
THEOREM ImplementsLink ==
    Spec => Promised!Link
  <1>1. Init => Promised!LInit
    <2>. SUFFICES ASSUME Init PROVE Promised!LInit
      OBVIOUS
    <2>1. sent = <<>> /\ delivered = <<>>
      BY DEF Init
    <2>2. DOMAIN delivered = {}
      BY <2>1
    <2>3. {j \in DOMAIN delivered : delivered[j].clean} = {}
      BY <2>2
    <2>4. inOrder = [i \in {} |-> Place(delivered[i])]
      BY <2>3 DEF inOrder
    <2>5. inOrder = <<>>
      BY <2>4
    <2>6. Len(sent) = 0 /\ (window = 1 /\ breaks = 0) \in BOOLEAN
      BY <2>1
    <2>. QED
      BY <2>5, <2>6 DEF Promised!LInit
  <1>2. IInv /\ IInv' /\ [Next]_vars => LinkStep
    <2>. SUFFICES ASSUME IInv, IInv', [Next]_vars
                  PROVE  Promised!Accept \/ Promised!Deliver \/ Promised!TurnLossy
                         \/ UNCHANGED Promised!lvars
      BY DEF LinkStep
    <2>1. CASE Send
      BY <2>1, SendAccepts
    <2>2. CASE SendOther
      BY <2>2, CameIs DEF SendOther, Promised!lvars
    <2>3. CASE Read
      BY <2>3, ReadDelivers
    <2>4. CASE Break
      <3>1. /\ breaks' = breaks + 1 /\ breaks \in Nat /\ sent' = sent /\ inOrder' = inOrder
        BY <2>4, CameIs DEF Break, IInv, InvAt, Typed
      <3>2. ~(window = 1 /\ breaks = 0)'
        BY <3>1
      <3>. QED
        BY <3>1, <3>2 DEF Promised!TurnLossy
    <2>5. CASE Reconnect
      BY <2>5, CameIs DEF Reconnect, Promised!lvars
    <2>6. CASE UNCHANGED vars
      BY <2>6, CameIs DEF vars, Promised!lvars
    <2>. QED
      BY <2>1, <2>2, <2>3, <2>4, <2>5, <2>6 DEF Next
  <1>. QED
    BY <1>1, <1>2, IInvHolds, PTL DEF Spec, LinkStep, Promised!Link


=============================================================================
