---------------------------- MODULE NetViewProofs ---------------------------
(* Proofs about NetView, for every set of modules and topics and any number  *)
(* of events, reconnections and deletions of the state.                      *)
EXTENDS NetView, FiniteSetTheorems, SequenceTheorems, WellFoundedInduction, TLAPS

-----------------------------------------------------------------------------
(* Induction, with a set in the place of a predicate.                        *)

(* A set of natural numbers that is not empty has a least one. *)
LEMMA LeastNumber ==
    ASSUME NEW T \in SUBSET Nat, T # {}
    PROVE  \E x \in T : \A y \in T : x <= y
  <1> DEFINE R == OpToRel(<, Nat)
  <1>1. IsWellFoundedOn(R, Nat)
    BY NatLessThanWellFounded
  <1>2. \A x, y \in Nat : x < y => <<x, y>> \in R
    BY DEF OpToRel
  <1>. HIDE DEF R
  <1>3. PICK x \in T : \A y \in T : ~(<<y, x>> \in R)
    BY <1>1, WFMin, Zenon
  <1>4. ASSUME NEW y \in T PROVE x <= y
    <2>1. x \in Nat /\ y \in Nat /\ ~(<<y, x>> \in R)
      BY <1>3
    <2>2. ~(y < x)
      BY <1>2, <2>1
    <2>. QED
      BY <2>1, <2>2
  <1>. QED
    BY <1>4

(* Induction, with a set for the predicate. *)
LEMMA Induction ==
    ASSUME NEW T, 0 \in T, \A n \in Nat : n \in T => n + 1 \in T
    PROVE  \A n \in Nat : n \in T
  <1>. SUFFICES ASSUME NEW k \in Nat, k \notin T PROVE FALSE
    OBVIOUS
  <1> DEFINE S == {n \in Nat : n \notin T}
  <1>1. PICK x \in S : \A y \in S : x <= y
    BY LeastNumber
  <1>2. x \in Nat /\ x # 0
    OBVIOUS
  <1>3. x - 1 \in Nat /\ x - 1 \in T
    <2>1. x - 1 \in Nat /\ ~(x <= x - 1)
      BY <1>2
    <2>. QED
      BY <2>1, <1>1
  <1>4. x \in T
    <2>1. (x - 1) + 1 \in T
      BY <1>3
    <2>. QED
      BY <2>1, <1>2
  <1>. QED
    BY <1>4

Iteration(f, N, V, base, step) ==
    f \in [0 .. N -> V] /\ f[0] = base /\ \A i \in 1 .. N : f[i] = step[i][f[i - 1]]

(* A sequence of values, each made from the one before, exists. *)
LEMMA Iterate ==
    ASSUME NEW N \in Nat, NEW V, NEW base \in V, NEW step \in [1 .. N -> [V -> V]]
    PROVE  \E f : Iteration(f, N, V, base, step)
  <1> DEFINE Up(n, f) == f = [i \in 0 .. n |-> IF i = 0 THEN base ELSE step[i][f[i - 1]]]
             T == {n \in Nat : n <= N => \E f \in [0 .. n -> V] : Up(n, f)}
  <1>1. 0 \in T
    <2>1. [i \in 0 .. 0 |-> base] \in [0 .. 0 -> V]
      OBVIOUS
    <2>2. Up(0, [i \in 0 .. 0 |-> base])
      OBVIOUS
    <2>. QED
      BY <2>1, <2>2
  <1>2. ASSUME NEW n \in Nat, n \in T PROVE n + 1 \in T
    <2>. SUFFICES ASSUME n + 1 <= N PROVE \E f \in [0 .. n + 1 -> V] : Up(n + 1, f)
      OBVIOUS
    <2>1. PICK f \in [0 .. n -> V] : Up(n, f)
      BY <1>2
    <2> DEFINE g == [i \in 0 .. n + 1 |-> IF i \in 0 .. n THEN f[i] ELSE step[n + 1][f[n]]]
    <2>2. step[n + 1] \in [V -> V] /\ f[n] \in V
      OBVIOUS
    <2>3. step[n + 1][f[n]] \in V
      BY <2>2
    <2>4. g \in [0 .. n + 1 -> V]
      BY <2>3
    <2>5. ASSUME NEW i \in 0 .. n + 1
          PROVE  g[i] = IF i = 0 THEN base ELSE step[i][g[i - 1]]
      <3>1. CASE i \in 1 .. n
        <4>1. i - 1 \in 0 .. n /\ i # 0
          BY <3>1
        <4>2. f[i] = step[i][f[i - 1]]
          BY <2>1, <3>1, <4>1
        <4>. QED
          BY <4>1, <4>2, <3>1
      <3>2. CASE i = n + 1
        BY <3>2
      <3>3. CASE i = 0
        BY <2>1, <3>3
      <3>. QED
        BY <3>1, <3>2, <3>3
    <2>6. Up(n + 1, g)
      BY <2>5
    <2>. QED
      BY <2>4, <2>6
  <1>3. N \in T
    <2>. HIDE DEF T
    <2>. QED BY <1>1, <1>2, Induction
  <1>. QED
    BY <1>3 DEF Iteration

-----------------------------------------------------------------------------
(* Sequences.                                                                *)

(* What element a sequence without its element p has where. *)
LEMMA RemovedAt ==
    ASSUME NEW S, NEW s \in Seq(S), NEW p \in DOMAIN s, NEW t, t = RemoveAt(s, p)
    PROVE  /\ t \in Seq(S)
           /\ \A i \in DOMAIN t : i \in 1 .. Len(s) - 1
           /\ \A i \in DOMAIN t : i < p => i \in DOMAIN s /\ t[i] = s[i]
           /\ \A i \in DOMAIN t : i >= p => i + 1 \in DOMAIN s /\ t[i] = s[i + 1]
           /\ \A i \in DOMAIN s : i < p => i \in DOMAIN t
           /\ \A i \in DOMAIN s : i > p => i - 1 \in DOMAIN t
  <1> DEFINE a == SubSeq(s, 1, p - 1)
             b == SubSeq(s, p + 1, Len(s))
  <1>1. t = a \o b /\ Len(s) \in Nat /\ p \in 1 .. Len(s) /\ DOMAIN s = 1 .. Len(s)
    BY DEF RemoveAt
  <1>2. /\ a \in Seq(S) /\ Len(a) = p - 1 /\ \A i \in 1 .. p - 1 : a[i] = s[i]
    BY <1>1
  <1>3. b \in Seq(S) /\ Len(b) = Len(s) - p
    BY <1>1
  <1>4. \A i \in 1 .. Len(s) - p : b[i] = s[p + i]
    BY <1>1
  <1>. HIDE DEF a, b
  <1>5. a \o b \in Seq(S) /\ Len(a \o b) = Len(a) + Len(b)
        /\ \A i \in 1 .. Len(a) + Len(b) : (a \o b)[i] = IF i <= Len(a) THEN a[i] ELSE b[i - Len(a)]
    BY <1>2, <1>3, ConcatProperties
  <1>6. p - 1 \in Nat /\ Len(s) - p \in Nat /\ (p - 1) + (Len(s) - p) = Len(s) - 1
    BY <1>1
  <1>7. t \in Seq(S) /\ Len(t) = Len(s) - 1
    BY <1>1, <1>2, <1>3, <1>5, <1>6
  <1>8. DOMAIN t = 1 .. Len(s) - 1
    BY <1>7
  <1>9. \A i \in 1 .. Len(s) - 1 : t[i] = IF i <= p - 1 THEN a[i] ELSE b[i - (p - 1)]
    BY <1>1, <1>2, <1>3, <1>5, <1>6
  <1>10. p \in Nat /\ p >= 1 /\ p <= Len(s)
    BY <1>1
  <1>11. ASSUME NEW i \in 1 .. Len(s) - 1, i < p PROVE i \in DOMAIN s /\ t[i] = s[i]
    <2>1. i \in 1 .. p - 1 /\ i \in 1 .. Len(s) /\ i <= p - 1
      BY <1>1, <1>10, <1>11
    <2>2. t[i] = a[i] /\ a[i] = s[i]
      BY <1>2, <1>9, <2>1
    <2>. QED
      BY <1>1, <2>1, <2>2
  <1>12. ASSUME NEW i \in 1 .. Len(s) - 1, i >= p PROVE i + 1 \in DOMAIN s /\ t[i] = s[i + 1]
    <2>1. i - (p - 1) \in 1 .. Len(s) - p /\ ~(i <= p - 1) /\ i + 1 \in 1 .. Len(s)
      BY <1>1, <1>10, <1>12
    <2>2. t[i] = b[i - (p - 1)] /\ b[i - (p - 1)] = s[p + (i - (p - 1))]
      BY <1>4, <1>9, <2>1
    <2>3. p + (i - (p - 1)) = i + 1
      BY <1>10
    <2>. QED
      BY <1>1, <2>1, <2>2, <2>3
  <1>13. ASSUME NEW i \in DOMAIN s, i < p PROVE i \in DOMAIN t
    <2>1. i \in 1 .. Len(s) - 1
      BY <1>1, <1>10, <1>13
    <2>. QED
      BY <1>8, <2>1
  <1>14. ASSUME NEW i \in DOMAIN s, i > p PROVE i - 1 \in DOMAIN t
    <2>1. i - 1 \in 1 .. Len(s) - 1
      BY <1>1, <1>10, <1>14
    <2>. QED
      BY <1>8, <2>1
  <1>. QED
    BY <1>7, <1>8, <1>11, <1>12, <1>13, <1>14

Renumbering(o, s, p, t) ==
    /\ \A i \in DOMAIN t : o[i] \in DOMAIN s /\ o[i] # p /\ t[i] = s[o[i]]
    /\ \A i, j \in DOMAIN t : o[i] = o[j] => i = j
    /\ \A i \in DOMAIN s : i # p => \E j \in DOMAIN t : o[j] = i

(* A sequence without its element p has all the others. *)
LEMMA Remaining ==
    ASSUME NEW S, NEW s \in Seq(S), NEW p \in DOMAIN s, NEW t, t = RemoveAt(s, p)
    PROVE  t \in Seq(S) /\ \E o : Renumbering(o, s, p, t)
  <1>1. /\ t \in Seq(S)
        /\ \A i \in DOMAIN t : i \in 1 .. Len(s) - 1
        /\ \A i \in DOMAIN t : i < p => i \in DOMAIN s /\ t[i] = s[i]
        /\ \A i \in DOMAIN t : i >= p => i + 1 \in DOMAIN s /\ t[i] = s[i + 1]
        /\ \A i \in DOMAIN s : i < p => i \in DOMAIN t
        /\ \A i \in DOMAIN s : i > p => i - 1 \in DOMAIN t
    BY RemovedAt
  <1>2. p \in Nat /\ \A i \in DOMAIN s : i \in Nat
    OBVIOUS
  <1>3. \A i \in DOMAIN t : i \in Nat
    BY <1>1
  <1> DEFINE o == [i \in DOMAIN t |-> IF i < p THEN i ELSE i + 1]
  <1>4. \A i \in DOMAIN t : o[i] \in DOMAIN s /\ t[i] = s[o[i]] /\ o[i] # p
    BY <1>1, <1>2, <1>3
  <1>5. \A i, j \in DOMAIN t : o[i] = o[j] => i = j
    BY <1>2, <1>3
  <1>6. ASSUME NEW i \in DOMAIN s, i # p PROVE \E j \in DOMAIN t : o[j] = i
    <2>1. CASE i < p
      BY <1>1, <2>1
    <2>2. CASE i > p
      <3>1. i - 1 \in DOMAIN t /\ ~(i - 1 < p) /\ (i - 1) + 1 = i
        BY <1>1, <1>2, <2>2
      <3>. QED
        BY <3>1
    <2>. QED
      BY <1>2, <1>6, <2>1, <2>2
  <1>. HIDE DEF o
  <1>7. Renumbering(o, s, p, t)
    BY <1>4, <1>5, <1>6 DEF Renumbering
  <1>. QED
    BY <1>1, <1>7

(* A sequence with a new last element. *)
LEMMA AddedLast ==
    ASSUME NEW S, NEW s \in Seq(S), NEW e \in S, NEW t, t = Append(s, e)
    PROVE  /\ t \in Seq(S) /\ Len(s) \in Nat /\ DOMAIN s = 1 .. Len(s)
           /\ DOMAIN t = DOMAIN s \cup {Len(s) + 1} /\ Len(t) = Len(s) + 1
           /\ t[Len(s) + 1] = e /\ \A i \in DOMAIN s : t[i] = s[i]
  OBVIOUS

(* A sequence without its first element. *)
LEMMA First ==
    ASSUME NEW S, NEW s \in Seq(S), s # <<>>
    PROVE  /\ Head(s) = s[1] /\ s[1] \in S /\ 1 \in DOMAIN s /\ Tail(s) \in Seq(S)
           /\ DOMAIN s = 1 .. Len(s) /\ DOMAIN Tail(s) = 1 .. Len(s) - 1 /\ Len(s) \in Nat
           /\ \A i \in 1 .. Len(s) - 1 : Tail(s)[i] = s[i + 1]
  OBVIOUS

-----------------------------------------------------------------------------
(* What the id of a node can be. *)
Fits(n) == \/ n.kind = "runtime" /\ n.id = Runtime
           \/ n.kind = "module" /\ n.id \in ModuleIds
           \/ n.kind \in {"pub", "sub"} /\ n.id \in TopicIds

NodeSet  == {n \in [kind : Kinds, id : Ids] : Fits(n)}
EventSet == {e \in [cmd : {"start", "stop"}, kind : Kinds, id : Ids, no : 1 .. MaxEvent] : Fits(e)}
Elements == {n \in [kind : Kinds, id : Ids, child : BOOLEAN] :
                Fits(n) /\ (n.child => n.id # Runtime)}

Pages == [cy : SUBSET Elements, edges : SUBSET (TopicIds \X TopicIds),
          pubs : SUBSET TopicIds, subs : SUBSET TopicIds]

(* A page knows the publishers and subscribers it shows, and has their edges. *)
Connected(pg) ==
    /\ \A n \in pg.cy : /\ n.kind = "pub" => n.id \in pg.pubs
                        /\ n.kind = "sub" => n.id \in pg.subs
    /\ Edges(pg.cy, pg.pubs, pg.subs) \subseteq pg.edges

GoodPages == {pg \in Pages : Connected(pg)}

IsReply == get # <<>> /\ get # <<"asked">>

Distinct(s) == \A i, j \in DOMAIN s : s[i].id = s[j].id => i = j

-----------------------------------------------------------------------------
(* The inductive invariant, part by part.                                    *)

Typed ==
    /\ connected \in BOOLEAN /\ listed \in [Modules -> Nat] /\ published \subseteq TopicIds
    /\ asking \subseteq Clients \X {"realm", "rt"}
    /\ subscribed \in [Clients -> SUBSET {"realm", "rt"}]
    /\ queue \in [Clients -> Seq(EventSet)]
    /\ node_dict \in Seq(NodeSet) /\ Distinct(node_dict)
    /\ page \in GoodPages
    /\ get = <<>> \/ get = <<"asked">> \/ \E s \in Seq(NodeSet) : get = <<"reply", s>>
    /\ loaded \in BOOLEAN /\ raced \subseteq Ids /\ dropped \subseteq Ids
    /\ left \in [event : 0 .. MaxEvent, page : 0 .. MaxPage]

(* A page that has never connected has nothing and is told nothing. *)
Blank ==
    ~loaded => /\ page.cy = {} /\ queue["page"] = <<>> /\ get = <<>>
               /\ subscribed["page"] = {} /\ \A a \in asking : a[1] # "page"

(* Of an id: that no message of q is about it, that the last one which is     *)
(* says start, and what q makes of whether it is there.                       *)
None(q, id) == \A i \in DOMAIN q : q[i].id # id
Ends(q, id) == \E i \in DOMAIN q : /\ q[i].cmd = "start" /\ q[i].id = id
                                   /\ \A j \in DOMAIN q : j > i => q[j].id # id

Coming(id)      == ~None(queue["page"], id)
ServiceWill(id) == \/ id \in IdsOf(node_dict) /\ None(queue["service"], id)
                   \/ Ends(queue["service"], id)
PageWill(id)    == \/ Has(page.cy, id) /\ None(queue["page"], id)
                   \/ Ends(queue["page"], id)
Replied(id)     == IsReply /\ id \in IdsOf(get[2])

(* A page drops with a node what is below it. *)
IsUnder(x, id)  == \E i \in 0 .. Len(x) - 1 : SubSeq(x, 1, i) = id
Below(id)       == \E d \in dropped : IsUnder(id, d)

(* An id of which something is on its way to the page ends the same way on   *)
(* both sides.  Of any other the page, and the reply on its way to it, have  *)
(* nothing the service will not have; and what the service will have the     *)
(* page has or gets by the fetch, unless it dropped it with what it is below.*)
AgreeOn(id) ==
    /\ Coming(id) => (ServiceWill(id) <=> PageWill(id))
    /\ PageWill(id) => ServiceWill(id)
    /\ Replied(id) /\ ~Coming(id) => ServiceWill(id)
    /\ ServiceWill(id) => \/ PageWill(id) \/ Below(id)
                          \/ ~Coming(id) /\ (get = <<"asked">> \/ Replied(id))

Agree == loaded => \A id \in Ids \ raced : AgreeOn(id)

IInv == Typed /\ Blank /\ Agree

-----------------------------------------------------------------------------
(* What the messages of a queue come to.                                     *)

(* Where nothing is about an id, nothing ends with it, ... *)
LEMMA NoneEnds ==
    ASSUME NEW q, NEW id
    PROVE  None(q, id) => ~Ends(q, id)
  BY DEF None, Ends

(* ... as in a queue that is empty. *)
LEMMA NoneInEmpty ==
    ASSUME NEW id
    PROVE  None(<<>>, id) /\ ~Ends(<<>>, id)
  BY DEF None, Ends

(* The last message decides for its id. *)
LEMMA AfterAppend ==
    ASSUME NEW id, NEW q \in Seq(EventSet), NEW e \in EventSet, NEW t, t = Append(q, e)
    PROVE  /\ None(t, id) <=> None(q, id) /\ e.id # id
           /\ e.id = id => (Ends(t, id) <=> e.cmd = "start")
           /\ e.id # id => (Ends(t, id) <=> Ends(q, id))
  <1>1. /\ t \in Seq(EventSet) /\ Len(q) \in Nat /\ DOMAIN q = 1 .. Len(q)
        /\ DOMAIN t = DOMAIN q \cup {Len(q) + 1} /\ Len(t) = Len(q) + 1
        /\ t[Len(q) + 1] = e /\ \A i \in DOMAIN q : t[i] = q[i]
    BY AddedLast
  <1>2. \A i \in DOMAIN q : i \in Nat /\ Len(q) + 1 > i /\ i # Len(q) + 1 /\ ~(i > Len(q) + 1)
    BY <1>1
  <1>3. \A j \in DOMAIN t : ~(j > Len(q) + 1)
    BY <1>1
  <1>4. None(t, id) <=> None(q, id) /\ e.id # id
    BY <1>1, <1>2 DEF None
  <1>5. ASSUME e.id = id PROVE Ends(t, id) <=> e.cmd = "start"
    <2>1. ASSUME NEW i \in DOMAIN t, t[i].cmd = "start", \A j \in DOMAIN t : j > i => t[j].id # id
          PROVE  e.cmd = "start"
      <3>1. i = Len(q) + 1
        BY <1>1, <1>2, <1>5, <2>1
      <3>. QED
        BY <1>1, <2>1, <3>1
    <2>2. e.cmd = "start" => Ends(t, id)
      BY <1>1, <1>3, <1>5 DEF Ends
    <2>. QED
      BY <2>1, <2>2 DEF Ends
  <1>6. ASSUME e.id # id PROVE Ends(t, id) <=> Ends(q, id)
    <2>1. ASSUME NEW i \in DOMAIN q
          PROVE  (\A j \in DOMAIN t : j > i => t[j].id # id) <=>
                 (\A j \in DOMAIN q : j > i => q[j].id # id)
      BY <1>1, <1>2, <1>6
    <2>2. ASSUME NEW i \in DOMAIN t, t[i].id = id PROVE i \in DOMAIN q /\ t[i] = q[i]
      BY <1>1, <1>6, <2>2
    <2>3. \A i \in DOMAIN q : i \in DOMAIN t /\ t[i] = q[i]
      BY <1>1
    <2>. QED
      BY <2>1, <2>2, <2>3 DEF Ends
  <1>. QED
    BY <1>4, <1>5, <1>6

(* The first message decides if no other is about its id. *)
LEMMA AfterTail ==
    ASSUME NEW id, NEW q \in Seq(EventSet), q # <<>>, NEW e, e = Head(q), NEW t, t = Tail(q)
    PROVE  /\ None(q, id) <=> e.id # id /\ None(t, id)
           /\ Ends(q, id) <=> \/ e.id = id /\ e.cmd = "start" /\ None(t, id)
                              \/ Ends(t, id)
  <1>1. /\ e = q[1] /\ 1 \in DOMAIN q /\ t \in Seq(EventSet) /\ Len(q) \in Nat
        /\ DOMAIN q = 1 .. Len(q) /\ DOMAIN t = 1 .. Len(q) - 1
        /\ \A i \in 1 .. Len(q) - 1 : t[i] = q[i + 1]
    BY First
  <1>2. \A i \in DOMAIN t : i + 1 \in DOMAIN q /\ t[i] = q[i + 1] /\ i \in Nat /\ i + 1 > 1
    BY <1>1
  <1>3. ASSUME NEW i \in DOMAIN q, i # 1 PROVE i - 1 \in DOMAIN t /\ t[i - 1] = q[i] /\ i > 1
    <2>1. i - 1 \in 1 .. Len(q) - 1 /\ (i - 1) + 1 = i /\ i > 1
      BY <1>1, <1>3
    <2>. QED
      BY <1>1, <2>1
  <1> DEFINE LastIs(s, i) == /\ s[i].cmd = "start" /\ s[i].id = id
                             /\ \A j \in DOMAIN s : j > i => s[j].id # id
  <1>4. ASSUME NEW i \in DOMAIN t PROVE LastIs(q, i + 1) <=> LastIs(t, i)
    <2>1. ASSUME NEW j \in DOMAIN q, j > i + 1
          PROVE  j - 1 \in DOMAIN t /\ t[j - 1] = q[j] /\ j - 1 > i
      BY <1>1, <1>3, <2>1
    <2>2. ASSUME NEW j \in DOMAIN t, j > i
          PROVE  j + 1 \in DOMAIN q /\ t[j] = q[j + 1] /\ j + 1 > i + 1
      BY <1>1, <1>2, <2>2
    <2>. QED
      BY <1>2, <2>1, <2>2
  <1>5. (\E i \in DOMAIN q : LastIs(q, i)) <=> LastIs(q, 1) \/ \E i \in DOMAIN t : LastIs(t, i)
    <2>. HIDE DEF LastIs
    <2>1. ASSUME NEW i \in DOMAIN q, LastIs(q, i), i # 1 PROVE \E k \in DOMAIN t : LastIs(t, k)
      <3>1. i - 1 \in DOMAIN t /\ (i - 1) + 1 = i
        BY <1>1, <2>1
      <3>. QED
        BY <1>4, <2>1, <3>1
    <2>2. ASSUME NEW i \in DOMAIN t, LastIs(t, i) PROVE \E k \in DOMAIN q : LastIs(q, k)
      BY <1>2, <1>4, <2>2
    <2>. QED
      BY <1>1, <2>1, <2>2
  <1>6. LastIs(q, 1) <=> e.id = id /\ e.cmd = "start" /\ None(t, id)
    BY <1>1, <1>2, <1>3 DEF None
  <1>7. None(q, id) <=> e.id # id /\ None(t, id)
    <2>1. ASSUME None(q, id) PROVE e.id # id /\ None(t, id)
      BY <1>1, <1>2, <2>1 DEF None
    <2>2. ASSUME e.id # id, None(t, id), NEW i \in DOMAIN q PROVE q[i].id # id
      <3>1. CASE i = 1
        BY <1>1, <2>2, <3>1
      <3>2. CASE i # 1
        BY <1>3, <2>2, <3>2 DEF None
      <3>. QED
        BY <3>1, <3>2
    <2>. QED
      BY <2>1, <2>2 DEF None
  <1>8. /\ Ends(q, id) <=> \E i \in DOMAIN q : LastIs(q, i)
        /\ Ends(t, id) <=> \E i \in DOMAIN t : LastIs(t, i)
    BY DEF Ends
  <1>. HIDE DEF LastIs
  <1>. QED
    BY <1>5, <1>6, <1>7, <1>8

-----------------------------------------------------------------------------
(* The service's dictionary.                                                 *)

(* A node is added behind the others, unless its id is there. *)
LEMMA WithAdds ==
    ASSUME NEW dict \in Seq(NodeSet), Distinct(dict), NEW n \in NodeSet, NEW t, t = With(dict, n)
    PROVE  t \in Seq(NodeSet) /\ Distinct(t) /\ IdsOf(t) = IdsOf(dict) \cup {n.id}
  <1>1. CASE n.id \in IdsOf(dict)
    BY <1>1 DEF With
  <1>2. CASE n.id \notin IdsOf(dict)
    <2>1. t = Append(dict, n)
      BY <1>2 DEF With
    <2>2. /\ t \in Seq(NodeSet) /\ Len(dict) \in Nat /\ DOMAIN dict = 1 .. Len(dict)
          /\ DOMAIN t = DOMAIN dict \cup {Len(dict) + 1}
          /\ t[Len(dict) + 1] = n /\ \A i \in DOMAIN dict : t[i] = dict[i]
      BY <2>1, AddedLast
    <2>3. Len(dict) + 1 \notin DOMAIN dict
      BY <2>2
    <2>4. IdsOf(t) = IdsOf(dict) \cup {n.id}
      BY <2>2, <2>3 DEF IdsOf
    <2>5. \A i \in DOMAIN dict : dict[i].id # n.id
      BY <1>2 DEF IdsOf
    <2>6. Distinct(t)
      BY <2>2, <2>3, <2>5 DEF Distinct
    <2>. QED
      BY <2>2, <2>4, <2>6
  <1>. QED
    BY <1>1, <1>2

(* The node with an id is removed, and no other. *)
LEMMA WithoutRemoves ==
    ASSUME NEW dict \in Seq(NodeSet), Distinct(dict), NEW id, NEW t, t = Without(dict, id)
    PROVE  t \in Seq(NodeSet) /\ Distinct(t) /\ IdsOf(t) = IdsOf(dict) \ {id}
  <1>1. CASE id \notin IdsOf(dict)
    BY <1>1 DEF Without
  <1>2. CASE id \in IdsOf(dict)
    <2> DEFINE p == Place(dict, id)
    <2>1. p \in DOMAIN dict /\ dict[p].id = id
      BY <1>2 DEF Place, IdsOf
    <2>2. t = RemoveAt(dict, p)
      BY <1>2 DEF Without
    <2>. HIDE DEF p
    <2>3. t \in Seq(NodeSet) /\ \E o : Renumbering(o, dict, p, t)
      BY <2>1, <2>2, Remaining
    <2>4. PICK o : /\ \A i \in DOMAIN t : o[i] \in DOMAIN dict /\ o[i] # p /\ t[i] = dict[o[i]]
                   /\ \A i, j \in DOMAIN t : o[i] = o[j] => i = j
                   /\ \A i \in DOMAIN dict : i # p => \E j \in DOMAIN t : o[j] = i
      BY <2>3 DEF Renumbering
    <2>5. Distinct(t)
      BY <2>4 DEF Distinct
    <2>6. \A i \in DOMAIN dict : dict[i].id = id => i = p
      BY <2>1 DEF Distinct
    <2>7. ASSUME NEW x \in IdsOf(t) PROVE x \in IdsOf(dict) /\ x # id
      <3>1. PICK i \in DOMAIN t : x = t[i].id
        BY DEF IdsOf
      <3>. QED
        BY <2>4, <2>6, <3>1 DEF IdsOf
    <2>8. ASSUME NEW x \in IdsOf(dict), x # id PROVE x \in IdsOf(t)
      <3>1. PICK i \in DOMAIN dict : x = dict[i].id
        BY DEF IdsOf
      <3>2. PICK j \in DOMAIN t : o[j] = i
        BY <2>1, <2>4, <2>8, <3>1
      <3>. QED
        BY <2>4, <3>1, <3>2 DEF IdsOf
    <2>. QED
      BY <2>3, <2>5, <2>7, <2>8
  <1>. QED
    BY <1>1, <1>2

(* A message leaves one node for each id, and that of the message is there   *)
(* exactly if it says so.                                                    *)
LEMMA HandleMessage ==
    ASSUME NEW dict \in Seq(NodeSet), Distinct(dict), NEW e \in EventSet,
           NEW t, t = handle_mqtt_message(dict, e)
    PROVE  /\ t \in Seq(NodeSet) /\ Distinct(t)
           /\ e.id \in IdsOf(t) <=> e.cmd = "start"
           /\ \A id : id # e.id => (id \in IdsOf(t) <=> id \in IdsOf(dict))
  <1>1. Node(e.kind, e.id) \in NodeSet /\ Node(e.kind, e.id).id = e.id
    BY DEF Node, NodeSet, EventSet, Fits
  <1>2. CASE e.cmd = "stop"
    BY <1>2, WithoutRemoves DEF handle_mqtt_message
  <1>3. CASE e.cmd = "start"
    <2>1. t = With(dict, Node(e.kind, e.id))
      BY <1>3 DEF handle_mqtt_message
    <2>. QED
      BY <1>1, <1>3, <2>1, WithAdds
  <1>. QED
    BY <1>2, <1>3 DEF EventSet

(* With one node for each id, there are as many ids as nodes. *)
LEMMA AsManyIds ==
    ASSUME NEW dict \in Seq(NodeSet), Distinct(dict)
    PROVE  Cardinality(IdsOf(dict)) = Len(dict)
  <1> DEFINE f == [i \in 1 .. Len(dict) |-> dict[i].id]
  <1>1. f \in Bijection(1 .. Len(dict), IdsOf(dict))
    BY DEF Bijection, Injection, Surjection, IsInjective, Distinct, IdsOf
  <1>2. ExistsBijection(1 .. Len(dict), IdsOf(dict))
    BY <1>1 DEF ExistsBijection
  <1>3. IsFiniteSet(1 .. Len(dict)) /\ Cardinality(1 .. Len(dict)) = Len(dict)
    <2>1. Len(dict) \in Nat
      OBVIOUS
    <2>. QED
      BY <2>1, FS_Interval
  <1>. QED
    BY <1>2, <1>3, FS_Bijection

-----------------------------------------------------------------------------
(* The page.                                                                 *)

(* An id is a path of at most two steps, ... *)
LEMMA IdForms ==
    ASSUME NEW id \in Ids
    PROVE  \/ id = <<>>
           \/ \E a : id = <<a>>
           \/ \E a, b : id = <<a, b>>
  BY DEF Ids, Runtime, ModuleIds, TopicIds

(* ... that of a topic is neither the runtime's nor a module's, ... *)
LEMMA TopicsApart ==
    ASSUME NEW id \in TopicIds
    PROVE  id # Runtime /\ id \notin ModuleIds /\ id \in Ids
  <1>1. PICK a \in Modules, b \in Topics : id = <<a, b>>
    BY DEF TopicIds
  <1>2. Len(id) = 2
    BY <1>1
  <1>3. \A x \in ModuleIds : Len(x) = 1
    BY DEF ModuleIds
  <1>. QED
    BY <1>2, <1>3 DEF Runtime, Ids

(* ... what it is below is a prefix of it, ... *)
LEMMA FrontIsPrefix ==
    ASSUME NEW id \in Ids, id # Runtime
    PROVE  \E i \in 0 .. Len(id) - 1 : Front(id) = SubSeq(id, 1, i)
  <1>1. Len(id) \in Nat /\ Len(id) # 0
    BY IdForms DEF Runtime
  <1>. QED
    BY <1>1 DEF Front

(* ... and so is what that is below. *)
LEMMA FrontTwiceIsPrefix ==
    ASSUME NEW id \in Ids, id # Runtime, Front(id) \in Ids, Front(id) # Runtime
    PROVE  \E i \in 0 .. Len(id) - 1 : Front(Front(id)) = SubSeq(id, 1, i)
  <1>1. ASSUME NEW a, id = <<a>> PROVE FALSE
    BY <1>1 DEF Front, Runtime
  <1>2. ASSUME NEW a, NEW b, id = <<a, b>>
        PROVE  Front(Front(id)) = SubSeq(id, 1, 0) /\ 0 \in 0 .. Len(id) - 1
    <2>1. id \in Seq({a, b}) /\ Len(id) = 2 /\ id[1] = a
      BY <1>2
    <2>2. Front(id) = SubSeq(id, 1, 1)
      BY <2>1 DEF Front
    <2>3. Front(id) \in Seq({a, b}) /\ Len(Front(id)) = 1
      BY <2>1, <2>2
    <2>4. Front(Front(id)) = SubSeq(Front(id), 1, 0)
      <3>1. \A f : Len(f) = 1 => Front(f) = SubSeq(f, 1, 0)
        BY DEF Front
      <3>. QED
        BY <2>3, <3>1
    <2>5. SubSeq(Front(id), 1, 0) = <<>> /\ SubSeq(id, 1, 0) = <<>>
      BY <2>1, <2>3
    <2>6. 0 \in 0 .. Len(id) - 1
      BY <2>1
    <2>. QED
      BY <2>4, <2>5, <2>6
  <1>. QED
    BY <1>1, <1>2, IdForms DEF Runtime

(* A node that goes with another is below it. *)
LEMMA RemovedBelow ==
    ASSUME NEW cy \in SUBSET Elements, NEW id, NEW n \in Removed(cy, id)
    PROVE  n.id = id \/ IsUnder(n.id, id)
  <1> DEFINE top == {m \in cy : m.id = id}
             kids == ChildrenOf(cy, top)
  <1>1. \A m \in cy : m.id \in Ids /\ (m.child => m.id # Runtime)
    BY DEF Elements
  <1>2. CASE n \in top
    BY <1>2
  <1>3. \A m \in kids : m \in cy /\ m.child /\ Front(m.id) = id
    BY DEF ChildrenOf
  <1>4. CASE n \in kids
    BY <1>1, <1>3, <1>4, FrontIsPrefix DEF IsUnder
  <1>5. CASE n \in ChildrenOf(cy, kids)
    <2>1. n \in cy /\ n.child
      BY <1>5 DEF ChildrenOf
    <2>2. PICK m \in kids : m.id = Front(n.id)
      BY <1>5 DEF ChildrenOf
    <2>3. m \in cy /\ m.child /\ Front(m.id) = id
      BY <1>3, <2>2
    <2>. QED
      BY <1>1, <2>1, <2>2, <2>3, FrontTwiceIsPrefix DEF IsUnder
  <1>. QED
    BY <1>2, <1>4, <1>5 DEF Removed

(* What a message makes of the nodes of a page: ... *)
LEMMA StartAdds ==
    ASSUME NEW cy \in SUBSET Elements, NEW e, e.kind \in Kinds, e.id \in Ids, Fits(e),
           NEW u, u = Added(cy, e)
    PROVE  /\ u \subseteq Elements
           /\ \A id : Has(u, id) <=> Has(cy, id) \/ id = e.id
           /\ \A n \in u : n \in cy \/ (n.kind = e.kind /\ n.id = e.id)
  <1>1. CASE Has(cy, e.id)
    <2>1. u = cy
      BY <1>1 DEF Added
    <2>2. \A id : Has(u, id) <=> Has(cy, id) \/ id = e.id
      BY <1>1, <2>1, Zenon
    <2>. QED
      BY <2>1, <2>2
  <1>2. CASE ~Has(cy, e.id)
    <2> DEFINE n == [kind |-> e.kind, id |-> e.id,
                     child |-> e.id # Runtime /\ Has(cy, Front(e.id))]
    <2>1. u = cy \cup {n} /\ n.kind = e.kind /\ n.id = e.id
      BY <1>2 DEF Added
    <2>2. n \in Elements
      BY DEF Elements, Fits
    <2>. HIDE DEF n
    <2>3. ASSUME NEW id PROVE Has(u, id) <=> Has(cy, id) \/ id = e.id
      <3>1. Has(u, id) => Has(cy, id) \/ id = e.id
        BY <2>1 DEF Has
      <3>2. Has(cy, id) => Has(u, id)
        BY <2>1 DEF Has
      <3>3. Has(u, e.id)
        BY <2>1 DEF Has
      <3>. QED
        BY <3>1, <3>2, <3>3, Zenon
    <2>4. u \subseteq Elements /\ \A m \in u : m \in cy \/ (m.kind = e.kind /\ m.id = e.id)
      BY <2>1, <2>2
    <2>. QED
      BY <2>3, <2>4
  <1>. QED
    BY <1>1, <1>2

(* ... a stop takes the node away and adds none, ... *)
LEMMA StopRemoves ==
    ASSUME NEW cy \in SUBSET Elements, NEW id, NEW u, u = cy \ Removed(cy, id)
    PROVE  /\ u \subseteq cy /\ ~Has(u, id) /\ \A n \in u : n.id # id
           /\ \A x : Has(u, x) => Has(cy, x)
  <1>1. \A n \in u : n \in cy /\ n.id # id
    BY DEF Removed
  <1>. QED
    BY <1>1 DEF Has

(* ... and of other ids only those below it, ... *)
LEMMA StopLoses ==
    ASSUME NEW cy \in SUBSET Elements, NEW id, NEW u, u = cy \ Removed(cy, id),
           NEW x, Has(cy, x), ~Has(u, x), x # id
    PROVE  IsUnder(x, id)
  <1>1. PICK n \in cy : n.id = x
    BY DEF Has
  <1>2. n \in Removed(cy, id)
    BY <1>1 DEF Has
  <1>. QED
    BY <1>1, <1>2, RemovedBelow

(* ... the page stays connected, ... *)
LEMMA LoadNodeGood ==
    ASSUME NEW pg \in GoodPages, NEW e, e.cmd \in {"start", "stop"}, e.kind \in Kinds,
           e.id \in Ids, Fits(e), NEW r, r = loadNode(pg, e)
    PROVE  /\ r \in GoodPages
           /\ e.cmd = "start" => r.cy = Added(pg.cy, e)
           /\ e.cmd = "stop" => r.cy = pg.cy \ Removed(pg.cy, e.id)
  <1> DEFINE kept == {x \in pg.edges : Has(r.cy, x[1]) /\ Has(r.cy, x[2])}
  <1>1. /\ pg.cy \subseteq Elements /\ pg.edges \subseteq TopicIds \X TopicIds
        /\ pg.pubs \subseteq TopicIds /\ pg.subs \subseteq TopicIds /\ Connected(pg)
    BY DEF GoodPages, Pages
  <1>2. /\ r.cy = IF e.cmd = "start" THEN Added(pg.cy, e) ELSE pg.cy \ Removed(pg.cy, e.id)
        /\ r.pubs = IF e.kind # "pub" THEN pg.pubs
                    ELSE IF e.cmd = "start" THEN pg.pubs \cup {e.id} ELSE pg.pubs \ {e.id}
        /\ r.subs = IF e.kind # "sub" THEN pg.subs
                    ELSE IF e.cmd = "start" THEN pg.subs \cup {e.id} ELSE pg.subs \ {e.id}
    BY DEF loadNode
  <1>3. /\ r = [cy |-> r.cy, pubs |-> r.pubs, subs |-> r.subs, edges |-> r.edges]
        /\ r.edges = IF ConnChange(e.kind) THEN kept \cup Edges(r.cy, r.pubs, r.subs) ELSE kept
    BY DEF loadNode
  <1>4. /\ e.kind \in {"pub", "sub"} => e.id \in TopicIds
        /\ e.kind \notin {"pub", "sub"} => e.id \notin TopicIds
    BY TopicsApart DEF Fits, Kinds
  <1>5. r.pubs \subseteq TopicIds /\ r.subs \subseteq TopicIds
    BY <1>1, <1>2, <1>4
  <1> DEFINE Nodes == /\ r.cy \subseteq Elements
                      /\ \A n \in r.cy : /\ n.kind = "pub" => n.id \in r.pubs
                                         /\ n.kind = "sub" => n.id \in r.subs
                      /\ ~ConnChange(e.kind) =>
                            \A x \in TopicIds : Has(r.cy, x) => Has(pg.cy, x)
  <1>6. ASSUME e.cmd = "start" PROVE Nodes
    <2>1. r.cy = Added(pg.cy, e)
      BY <1>2, <1>6
    <2>2. /\ r.cy \subseteq Elements
          /\ \A id : Has(r.cy, id) <=> Has(pg.cy, id) \/ id = e.id
          /\ \A n \in r.cy : n \in pg.cy \/ (n.kind = e.kind /\ n.id = e.id)
      BY <1>1, <2>1, StartAdds
    <2>3. ASSUME NEW n \in r.cy
          PROVE  (n.kind = "pub" => n.id \in r.pubs) /\ (n.kind = "sub" => n.id \in r.subs)
      <3>1. /\ n \in pg.cy => /\ n.kind = "pub" => n.id \in pg.pubs
                              /\ n.kind = "sub" => n.id \in pg.subs
        BY <1>1 DEF Connected
      <3>2. pg.pubs \subseteq r.pubs /\ pg.subs \subseteq r.subs
        BY <1>2, <1>6
      <3>. QED
        BY <1>2, <1>6, <2>2, <3>1, <3>2
    <2>4. ASSUME NEW x \in TopicIds, ~ConnChange(e.kind) PROVE Has(r.cy, x) => Has(pg.cy, x)
      <3>1. x # e.id
        BY <1>4, <2>4 DEF ConnChange
      <3>. QED
        BY <2>2, <3>1
    <2>. QED
      BY <2>1, <2>2, <2>3, <2>4
  <1>7. ASSUME e.cmd = "stop" PROVE Nodes
    <2>1. r.cy = pg.cy \ Removed(pg.cy, e.id)
      BY <1>2, <1>7
    <2>2. /\ r.cy \subseteq pg.cy /\ \A n \in r.cy : n.id # e.id
          /\ \A x : Has(r.cy, x) => Has(pg.cy, x)
      <3>1. pg.cy \in SUBSET Elements
        BY <1>1
      <3>. QED
        BY <2>1, <3>1, StopRemoves, Zenon
    <2>3. ASSUME NEW n \in r.cy
          PROVE  (n.kind = "pub" => n.id \in r.pubs) /\ (n.kind = "sub" => n.id \in r.subs)
      <3>1. n \in pg.cy /\ n.id # e.id
        BY <2>2
      <3>2. (n.kind = "pub" => n.id \in pg.pubs) /\ (n.kind = "sub" => n.id \in pg.subs)
        BY <1>1, <3>1 DEF Connected
      <3>. QED
        BY <1>2, <1>7, <3>1, <3>2
    <2>. QED
      BY <1>1, <2>2, <2>3
  <1>8. Nodes
    BY <1>6, <1>7
  <1>9. Edges(r.cy, r.pubs, r.subs) \subseteq TopicIds \X TopicIds
    BY <1>5 DEF Edges
  <1>10. kept \subseteq TopicIds \X TopicIds
    BY <1>1
  <1>11. ASSUME ~ConnChange(e.kind), NEW x \in Edges(r.cy, r.pubs, r.subs) PROVE x \in kept
    <2>1. r.pubs = pg.pubs /\ r.subs = pg.subs
      BY <1>2, <1>11 DEF ConnChange
    <2>2. /\ x \in pg.pubs \X pg.subs /\ x[1][2] = x[2][2]
          /\ Has(r.cy, x[1]) /\ Has(r.cy, x[2])
      BY <2>1 DEF Edges
    <2>3. x[1] \in TopicIds /\ x[2] \in TopicIds
      BY <1>1, <2>2
    <2>4. Has(pg.cy, x[1]) /\ Has(pg.cy, x[2])
      BY <1>8, <1>11, <2>2, <2>3
    <2>5. x \in pg.edges
      BY <1>1, <2>2, <2>4 DEF Edges, Connected
    <2>. QED
      BY <2>2, <2>5
  <1>. HIDE DEF kept
  <1>12. r.edges \subseteq TopicIds \X TopicIds /\ Edges(r.cy, r.pubs, r.subs) \subseteq r.edges
    BY <1>3, <1>9, <1>10, <1>11
  <1>13. r \in Pages
    BY <1>3, <1>5, <1>8, <1>12 DEF Pages
  <1>14. Connected(r)
    BY <1>8, <1>12 DEF Connected
  <1>. QED
    BY <1>2, <1>13, <1>14 DEF GoodPages

(* ... and so it does when it loads the nodes of a reply, all of which it    *)
(* then has.                                                                 *)
LEMMA LoadNodes ==
    ASSUME NEW pg \in GoodPages, NEW s \in Seq(NodeSet),
           NEW r, r = loadNodesFromDataArray(pg, s)
    PROVE  /\ r \in GoodPages
           /\ \A id : Has(r.cy, id) <=> Has(pg.cy, id) \/ id \in IdsOf(s)
  <1> DEFINE N == Len(s)
             Start(n) == [cmd |-> "start", kind |-> n.kind, id |-> n.id]
             step == [i \in 1 .. N |-> [v \in GoodPages |-> loadNode(v, Start(s[i]))]]
             Is(f) == f = [i \in 0 .. N |-> IF i = 0 THEN pg ELSE loadNode(f[i - 1], Start(s[i]))]
             after == CHOOSE f : Is(f)
  <1>1. N \in Nat /\ \A i \in 1 .. N : s[i] \in NodeSet
    OBVIOUS
  <1>2. ASSUME NEW n \in NodeSet, NEW v \in GoodPages, NEW w, w = loadNode(v, Start(n))
        PROVE  /\ w \in GoodPages
               /\ \A id : Has(w.cy, id) <=> Has(v.cy, id) \/ id = n.id
    <2>1. n.kind \in Kinds /\ n.id \in Ids /\ Fits(n)
      BY DEF NodeSet
    <2> DEFINE e == Start(n)
    <2>2. e.cmd = "start" /\ e.kind = n.kind /\ e.id = n.id
      OBVIOUS
    <2>3. Fits(e)
      BY <2>1, <2>2 DEF Fits
    <2>. HIDE DEF e
    <2>4. w = loadNode(v, e)
      BY <1>2 DEF e
    <2>5. w \in GoodPages /\ w.cy = Added(v.cy, e)
      BY <2>1, <2>2, <2>3, <2>4, LoadNodeGood
    <2>6. v.cy \in SUBSET Elements
      BY DEF GoodPages, Pages
    <2>. QED
      BY <2>1, <2>2, <2>3, <2>5, <2>6, StartAdds
  <1>3. step \in [1 .. N -> [GoodPages -> GoodPages]]
    <2>. HIDE DEF Start, N
    <2>1. \A i \in 1 .. N :
             [v \in GoodPages |-> loadNode(v, Start(s[i]))] \in [GoodPages -> GoodPages]
      BY <1>1, <1>2
    <2>. QED
      BY <2>1
  <1>4. PICK f : Iteration(f, N, GoodPages, pg, step)
    <2>. HIDE DEF step, N
    <2>. QED
      BY <1>1, <1>3, Iterate, Zenon
  <1>5. Is(f)
    <2>. HIDE DEF Start, N
    <2>1. /\ f \in [0 .. N -> GoodPages] /\ f[0] = pg
          /\ \A i \in 1 .. N : f[i] = step[i][f[i - 1]]
      <3>. HIDE DEF step
      <3>. QED
        BY <1>4 DEF Iteration
    <2>2. ASSUME NEW i \in 1 .. N PROVE f[i] = loadNode(f[i - 1], Start(s[i]))
      <3>1. i - 1 \in 0 .. N
        BY <1>1
      <3>2. f[i - 1] \in GoodPages
        BY <2>1, <3>1
      <3>3. step[i][f[i - 1]] = loadNode(f[i - 1], Start(s[i]))
        BY <3>2
      <3>. QED
        BY <2>1, <3>3
    <2>. HIDE DEF step
    <2>3. \A i \in 0 .. N : i = 0 \/ i \in 1 .. N
      BY <1>1
    <2>. QED
      BY <2>1, <2>2, <2>3
  <1>6. Is(after)
    <2>. HIDE DEF Is
    <2>. QED
      BY <1>5
  <1>7. r = after[N]
    BY DEF loadNodesFromDataArray
  <1>. HIDE DEF after
  <1>8. after[0] = pg /\ \A i \in 1 .. N : after[i] = loadNode(after[i - 1], Start(s[i]))
    <2>. HIDE DEF Start, N
    <2>. QED
      BY <1>1, <1>6
  <1> DEFINE T == {n \in Nat : n <= N =>
                     /\ after[n] \in GoodPages
                     /\ \A id : Has(after[n].cy, id) <=>
                                   Has(pg.cy, id) \/ \E i \in 1 .. n : s[i].id = id}
  <1>. HIDE DEF N, Start
  <1>9. 0 \in T
    <2>1. \A i \in 1 .. 0 : FALSE
      OBVIOUS
    <2>2. \A id : Has(after[0].cy, id) <=> Has(pg.cy, id) \/ \E i \in 1 .. 0 : s[i].id = id
      BY <1>8, <2>1, Zenon
    <2>. QED
      BY <1>8, <2>2
  <1>10. ASSUME NEW n \in Nat, n \in T PROVE n + 1 \in T
    <2>. SUFFICES ASSUME n + 1 <= N
                  PROVE  /\ after[n + 1] \in GoodPages
                         /\ \A id : Has(after[n + 1].cy, id) <=>
                                       Has(pg.cy, id) \/ \E i \in 1 .. n + 1 : s[i].id = id
      OBVIOUS
    <2>1. n + 1 \in 1 .. N /\ (n + 1) - 1 = n /\ n <= N
      BY <1>1
    <2>2. after[n] \in GoodPages
          /\ \A id : Has(after[n].cy, id) <=> Has(pg.cy, id) \/ \E i \in 1 .. n : s[i].id = id
      BY <1>10, <2>1
    <2>3. after[n + 1] = loadNode(after[n], Start(s[n + 1])) /\ s[n + 1] \in NodeSet
      BY <1>1, <1>8, <2>1
    <2>4. /\ after[n + 1] \in GoodPages
          /\ \A id : Has(after[n + 1].cy, id) <=> Has(after[n].cy, id) \/ id = s[n + 1].id
      <3> DEFINE n1 == s[n + 1]
                 v  == after[n]
                 w  == after[n + 1]
      <3>1. n1 \in NodeSet /\ v \in GoodPages /\ w = loadNode(v, Start(n1))
        BY <2>2, <2>3
      <3>. HIDE DEF n1, v, w
      <3>2. w \in GoodPages /\ \A id : Has(w.cy, id) <=> Has(v.cy, id) \/ id = n1.id
        BY <1>2, <3>1
      <3>. QED
        BY <3>2 DEF n1, v, w
    <2>5. ASSUME NEW id
          PROVE  (\E i \in 1 .. n + 1 : s[i].id = id) <=>
                 (\E i \in 1 .. n : s[i].id = id) \/ id = s[n + 1].id
      <3>1. 1 .. n + 1 = (1 .. n) \cup {n + 1}
        OBVIOUS
      <3>. QED
        BY <3>1
    <2>. QED
      BY <2>2, <2>4, <2>5, Zenon
  <1>11. N \in T
    <2>. HIDE DEF T
    <2>1. \A n \in Nat : n \in T
      BY <1>9, <1>10, Induction
    <2>. QED
      BY <1>1, <2>1
  <1>12. \A id : (\E i \in 1 .. N : s[i].id = id) <=> id \in IdsOf(s)
    BY DEF IdsOf, N
  <1>13. r \in GoodPages
         /\ \A id : Has(r.cy, id) <=> Has(pg.cy, id) \/ \E i \in 1 .. N : s[i].id = id
    BY <1>1, <1>7, <1>11
  <1>. QED
    BY <1>12, <1>13, Zenon

-----------------------------------------------------------------------------
(* The steps.                                                                *)

(* The parts of the type that concern the observers and the queues. *)
LEMMA Parts ==
    ASSUME Typed
    PROVE  /\ queue["service"] \in Seq(EventSet) /\ queue["page"] \in Seq(EventSet)
           /\ DOMAIN queue = Clients /\ DOMAIN subscribed = Clients
           /\ node_dict \in Seq(NodeSet) /\ Distinct(node_dict)
           /\ page \in GoodPages /\ page.cy \in SUBSET Elements
           /\ IsReply => get[1] = "reply" /\ get[2] \in Seq(NodeSet) /\ get = <<"reply", get[2]>>
           /\ raced \subseteq Ids /\ dropped \subseteq Ids
  BY DEF Typed, Clients, IsReply, GoodPages, Pages

(* An event reaches both sides alike, or nobody needs it, or it is recorded. *)
LEMMA PublishStep ==
    ASSUME IInv, NEW cmd \in {"start", "stop"}, NEW kind \in Kinds, NEW eid \in Ids,
           Fits(Node(kind, eid)), NEW topic,
           Publish(topic, Event(cmd, kind, eid)), UNCHANGED observers
    PROVE  /\ queue' \in [Clients -> Seq(EventSet)] /\ raced' \subseteq Ids
           /\ left' \in [event : 0 .. MaxEvent, page : 0 .. MaxPage]
           /\ Blank' /\ Agree'
  <1>. SUFFICES ASSUME NEW e, e = Event(cmd, kind, eid)
                PROVE  /\ queue' \in [Clients -> Seq(EventSet)] /\ raced' \subseteq Ids
                       /\ left' \in [event : 0 .. MaxEvent, page : 0 .. MaxPage]
                       /\ Blank' /\ Agree'
    OBVIOUS
  <1> DEFINE s == topic \in subscribed["service"]
             p == topic \in subscribed["page"]
             missed == ~(s <=> p) /\ loaded /\ ~(s /\ InReply(e))
  <1>1. Typed /\ Blank /\ Agree
    BY DEF IInv
  <1>2. /\ left.event \in 1 .. MaxEvent
        /\ left' \in [event : 0 .. MaxEvent, page : 0 .. MaxPage]
    <2>1. left \in [event : 0 .. MaxEvent, page : 0 .. MaxPage] /\ MaxEvent \in Nat
      BY <1>1, NetAssumption DEF Typed
    <2>2. left["event"] > 0 /\ left' = [left EXCEPT !["event"] = @ - 1]
      BY DEF Publish, Spend
    <2>3. left.event \in 1 .. MaxEvent /\ left.event - 1 \in 0 .. MaxEvent
      BY <2>1, <2>2
    <2>. QED
      BY <2>1, <2>2, <2>3
  <1>3. e \in EventSet /\ e.id = eid /\ e.cmd = cmd
    BY <1>2 DEF Event, EventSet, Fits, Node
  <1>4. /\ queue["service"] \in Seq(EventSet) /\ queue["page"] \in Seq(EventSet)
        /\ raced \subseteq Ids
    BY <1>1, Parts
  <1>5. /\ queue' = [c \in Clients |-> IF topic \in subscribed[c] THEN Append(queue[c], e)
                                       ELSE queue[c]]
        /\ raced' = IF missed THEN raced \cup {eid} ELSE raced
    BY <1>3 DEF Publish, Event
  <1>6. /\ queue'["service"] = IF s THEN Append(queue["service"], e) ELSE queue["service"]
        /\ queue'["page"] = IF p THEN Append(queue["page"], e) ELSE queue["page"]
    BY <1>5 DEF Clients
  <1>7. /\ loaded' = loaded /\ get' = get /\ dropped' = dropped /\ page' = page
        /\ node_dict' = node_dict /\ subscribed' = subscribed /\ asking' = asking
    BY DEF observers
  <1>8. queue' \in [Clients -> Seq(EventSet)] /\ raced' \subseteq Ids
    BY <1>3, <1>4, <1>5 DEF Clients
  <1>9. Blank'
    BY <1>1, <1>6, <1>7 DEF Blank
  <1>. HIDE DEF s, p, missed
  <1>10. ASSUME loaded, NEW id \in Ids, id \notin raced' PROVE AgreeOn(id)'
    <2>1. AgreeOn(id) /\ id \notin raced /\ ~(missed /\ id = eid)
      BY <1>1, <1>5, <1>10 DEF Agree
    <2>2. /\ Replied(id)' <=> Replied(id)
          /\ Below(id)' <=> Below(id)
          /\ (get = <<"asked">>)' <=> get = <<"asked">>
      BY <1>7 DEF Replied, IsReply, Below
    <2>3. ASSUME NEW q \in Seq(EventSet), NEW t, t = Append(q, e)
          PROVE  /\ None(t, id) <=> None(q, id) /\ eid # id
                 /\ eid = id => (Ends(t, id) <=> cmd = "start")
                 /\ eid # id => (Ends(t, id) <=> Ends(q, id))
      BY <1>3, <2>3, AfterAppend
    <2>4. /\ s => /\ None(queue'["service"], id) <=> None(queue["service"], id) /\ eid # id
                  /\ eid = id => (Ends(queue'["service"], id) <=> cmd = "start")
                  /\ eid # id => (Ends(queue'["service"], id) <=> Ends(queue["service"], id))
          /\ p => /\ None(queue'["page"], id) <=> None(queue["page"], id) /\ eid # id
                  /\ eid = id => (Ends(queue'["page"], id) <=> cmd = "start")
                  /\ eid # id => (Ends(queue'["page"], id) <=> Ends(queue["page"], id))
      BY <1>4, <1>6, <2>3
    <2>5. /\ s /\ eid # id => (ServiceWill(id)' <=> ServiceWill(id))
          /\ s /\ eid = id => (ServiceWill(id)' <=> cmd = "start")
          /\ ~s => (ServiceWill(id)' <=> ServiceWill(id))
      BY <1>6, <1>7, <2>4 DEF ServiceWill
    <2>6. /\ p /\ eid # id => (PageWill(id)' <=> PageWill(id)) /\ (Coming(id)' <=> Coming(id))
          /\ p /\ eid = id => (PageWill(id)' <=> cmd = "start") /\ Coming(id)'
          /\ ~p => (PageWill(id)' <=> PageWill(id)) /\ (Coming(id)' <=> Coming(id))
      BY <1>6, <1>7, <2>4 DEF PageWill, Coming
    <2>7. eid = id /\ s /\ ~p => get = <<"asked">> /\ cmd = "start" /\ ~Coming(id)
      BY <1>3, <1>10, <2>1 DEF missed, InReply, Coming, None, IdsOf
    <2>8. eid = id /\ p => s
      BY <1>10, <2>1 DEF missed
    <2>9. get = <<"asked">> => ~Replied(id)
      BY DEF Replied, IsReply
    <2>. QED
      BY <2>1, <2>2, <2>5, <2>6, <2>7, <2>8, <2>9 DEF AgreeOn
  <1>11. Agree'
    BY <1>7, <1>10 DEF Agree
  <1>. QED
    BY <1>2, <1>8, <1>9, <1>11

(* With what the step does to the bridge, that is the invariant. *)
LEMMA Published ==
    ASSUME IInv, NEW cmd \in {"start", "stop"}, NEW kind \in Kinds, NEW eid \in Ids,
           Fits(Node(kind, eid)), NEW topic,
           Publish(topic, Event(cmd, kind, eid)), UNCHANGED observers,
           connected' \in BOOLEAN, listed' \in [Modules -> Nat], published' \subseteq TopicIds
    PROVE  IInv'
  <1>1. /\ queue' \in [Clients -> Seq(EventSet)] /\ raced' \subseteq Ids
        /\ left' \in [event : 0 .. MaxEvent, page : 0 .. MaxPage]
        /\ Blank' /\ Agree'
    BY PublishStep, Zenon
  <1>2. Typed'
    BY <1>1 DEF IInv, Typed, observers
  <1>. QED
    BY <1>1, <1>2 DEF IInv

(* The bridge and a page publish. *)
LEMMA BridgeStep ==
    ASSUME IInv, Bridge \/ DeleteRuntime
    PROVE  IInv'
  <1>1. connected \in BOOLEAN /\ listed \in [Modules -> Nat] /\ published \subseteq TopicIds
    BY DEF IInv, Typed
  <1>2. /\ Runtime \in Ids /\ ModuleIds \subseteq Ids /\ TopicIds \subseteq Ids
        /\ Fits(Node("runtime", Runtime))
        /\ \A id \in ModuleIds : Fits(Node("module", id))
        /\ \A id \in TopicIds : Fits(Node("pub", id)) /\ Fits(Node("sub", id))
    BY DEF Ids, Fits, Node
  <1>3. {"runtime", "module", "pub", "sub"} = Kinds
    BY DEF Kinds
  <1>4. CASE RtStart
    <2>1. /\ Publish("realm", Event("start", "runtime", Runtime)) /\ UNCHANGED observers
          /\ connected' \in BOOLEAN /\ listed' = listed /\ published' = published
      BY <1>4 DEF RtStart
    <2>. QED
      BY <1>1, <1>2, <1>3, <2>1, Published
  <1>5. CASE LastWill
    <2>1. /\ Publish("rt", Event("stop", "runtime", Runtime)) /\ UNCHANGED observers
          /\ connected' \in BOOLEAN /\ listed' \in {listed, [x \in Modules |-> 0]}
          /\ published' \in {published, {}}
      BY <1>5 DEF LastWill
    <2>2. listed' \in [Modules -> Nat] /\ published' \subseteq TopicIds
      BY <1>1, <2>1
    <2>. QED
      BY <1>1, <1>2, <1>3, <2>1, <2>2, Published
  <1>6. ASSUME NEW m \in Modules, ModuleInst(m) PROVE IInv'
    <2>1. /\ Publish("rt", Event("start", "module", <<m>>)) /\ UNCHANGED observers
          /\ connected' = connected /\ listed' = [listed EXCEPT ![m] = @ + 1]
          /\ published' \subseteq published
      BY <1>6 DEF ModuleInst, OfOthers
    <2>2. <<m>> \in ModuleIds
      BY DEF ModuleIds
    <2>3. listed' \in [Modules -> Nat] /\ published' \subseteq TopicIds
      BY <1>1, <2>1
    <2>. QED
      BY <1>1, <1>2, <1>3, <2>1, <2>2, <2>3, Published
  <1>7. ASSUME NEW m \in Modules, ModuleUninst(m) PROVE IInv'
    <2>1. PICK id \in ModuleIds : Publish("rt", Event("stop", "module", id))
      BY <1>7 DEF ModuleUninst
    <2>2. /\ UNCHANGED observers /\ connected' = connected
          /\ listed[m] > 0 /\ listed' = [listed EXCEPT ![m] = @ - 1]
          /\ published' \subseteq published
      BY <1>7 DEF ModuleUninst, OfOthers
    <2>3. listed' \in [Modules -> Nat] /\ published' \subseteq TopicIds
      <3>1. listed[m] \in Nat /\ listed[m] - 1 \in Nat
        BY <1>1, <2>2
      <3>. QED
        BY <1>1, <2>2, <3>1
    <2>. QED
      BY <1>1, <1>2, <1>3, <2>1, <2>2, <2>3, Published
  <1>8. ASSUME NEW m \in Modules, NEW t \in Topics, NEW kind \in {"pub", "sub"},
               TopicStart(m, t, kind)
        PROVE  IInv'
    <2>1. /\ Publish("rt", Event("start", kind, <<m, t>>)) /\ UNCHANGED observers
          /\ connected' = connected /\ listed' = listed
          /\ published' \subseteq published \cup {<<m, t>>}
      BY <1>8 DEF TopicStart
    <2>2. <<m, t>> \in TopicIds
      BY DEF TopicIds
    <2>3. published' \subseteq TopicIds
      BY <1>1, <2>1, <2>2
    <2>4. Fits(Node(kind, <<m, t>>)) /\ kind \in Kinds /\ <<m, t>> \in Ids
      BY <1>2, <1>3, <2>2
    <2>. QED
      BY <1>1, <2>1, <2>3, <2>4, Published
  <1>9. ASSUME NEW m \in Modules, NEW t \in Topics, SubStop(m, t) PROVE IInv'
    <2>1. /\ Publish("rt", Event("stop", "sub", <<m, t>>)) /\ UNCHANGED observers
          /\ connected' = connected /\ listed' = listed /\ published' = published
      BY <1>9 DEF SubStop, world
    <2>2. <<m, t>> \in TopicIds
      BY DEF TopicIds
    <2>. QED
      BY <1>1, <1>2, <1>3, <2>1, <2>2, Published
  <1>10. CASE DeleteRuntime
    <2>1. /\ Publish("rt", Event("stop", "runtime", Runtime)) /\ UNCHANGED observers
          /\ connected' = connected /\ listed' = listed /\ published' = published
      BY <1>10 DEF DeleteRuntime, world
    <2>. QED
      BY <1>1, <1>2, <1>3, <2>1, Published
  <1>. QED
    BY <1>4, <1>5, <1>6, <1>7, <1>8, <1>9, <1>10 DEF Bridge

(* A subscription takes effect. *)
LEMMA SubscribeStep ==
    ASSUME IInv, NEW c \in Clients, NEW topic \in {"realm", "rt"}, Subscribe(c, topic)
    PROVE  IInv'
  <1>1. Typed'
    BY DEF IInv, Typed, Subscribe, world
  <1>2. Blank'
    <2>1. /\ loaded' = loaded /\ page' = page /\ queue' = queue /\ get' = get
          /\ asking' \subseteq asking /\ <<c, topic>> \in asking
          /\ subscribed' = [subscribed EXCEPT ![c] = @ \cup {topic}]
      BY DEF Subscribe
    <2>2. ~loaded => c # "page" /\ c = "service"
      BY <2>1 DEF IInv, Blank, Clients
    <2>3. ~loaded => subscribed'["page"] = subscribed["page"]
      BY <2>1, <2>2 DEF IInv, Typed, Clients
    <2>. QED
      BY <2>1, <2>3 DEF IInv, Blank
  <1>3. Agree'
    BY DEF IInv, Agree, AgreeOn, Coming, ServiceWill, PageWill, Replied, IsReply, Below, Subscribe
  <1>. QED
    BY <1>1, <1>2, <1>3 DEF IInv

(* The service takes a message: what it will have stays the same. *)
LEMMA ServiceMessageStep ==
    ASSUME IInv, ServiceMessage
    PROVE  IInv'
  <1> DEFINE q == queue["service"]
             e == Head(q)
  <1>1. /\ q \in Seq(EventSet) /\ queue["page"] \in Seq(EventSet) /\ q # <<>>
        /\ node_dict \in Seq(NodeSet) /\ Distinct(node_dict)
    BY Parts DEF IInv, ServiceMessage
  <1>2. e \in EventSet /\ Tail(q) \in Seq(EventSet)
    BY <1>1, First
  <1>3. /\ node_dict' = handle_mqtt_message(node_dict, e)
        /\ asking' \subseteq asking \cup {<<"service", "rt">>}
        /\ queue' = [queue EXCEPT !["service"] = Tail(q)]
        /\ UNCHANGED <<world, subscribed, page, get, loaded, raced, dropped, left>>
    BY DEF ServiceMessage, AskFor
  <1>4. queue'["service"] = Tail(q) /\ queue'["page"] = queue["page"]
    BY <1>3 DEF IInv, Typed, Clients
  <1>5. /\ node_dict' \in Seq(NodeSet) /\ Distinct(node_dict')
        /\ e.id \in IdsOf(node_dict') <=> e.cmd = "start"
        /\ \A id : id # e.id => (id \in IdsOf(node_dict') <=> id \in IdsOf(node_dict))
    <2>. HIDE DEF e
    <2>. QED
      BY <1>1, <1>2, <1>3, HandleMessage
  <1>6. queue' \in [Clients -> Seq(EventSet)]
    BY <1>2, <1>3 DEF IInv, Typed
  <1>7. asking' \subseteq Clients \X {"realm", "rt"}
    BY <1>3 DEF IInv, Typed, Clients
  <1>8. Typed'
    BY <1>3, <1>5, <1>6, <1>7 DEF IInv, Typed, world
  <1>9. Blank'
    BY <1>3, <1>4 DEF IInv, Blank
  <1>10. ASSUME NEW id PROVE ServiceWill(id)' <=> ServiceWill(id)
    <2>1. /\ None(q, id) <=> e.id # id /\ None(Tail(q), id)
          /\ Ends(q, id) <=> \/ e.id = id /\ e.cmd = "start" /\ None(Tail(q), id)
                             \/ Ends(Tail(q), id)
      <3>1. PICK s, f, t : s = q /\ f = e /\ t = Tail(q)
        OBVIOUS
      <3>2. /\ None(s, id) <=> f.id # id /\ None(t, id)
            /\ Ends(s, id) <=> (f.id = id /\ f.cmd = "start" /\ None(t, id)) \/ Ends(t, id)
        BY <1>1, <3>1, AfterTail
      <3>. QED
        BY <3>1, <3>2
    <2>2. id \in IdsOf(node_dict') <=> IF e.id = id THEN e.cmd = "start"
                                       ELSE id \in IdsOf(node_dict)
      BY <1>5
    <2>3. None(Tail(q), id) => ~Ends(Tail(q), id)
      BY NoneEnds
    <2>. QED
      BY <1>4, <2>1, <2>2, <2>3 DEF ServiceWill
  <1>11. ASSUME NEW id
         PROVE  /\ PageWill(id)' <=> PageWill(id)
                /\ Coming(id)' <=> Coming(id)
                /\ Replied(id)' <=> Replied(id)
                /\ Below(id)' <=> Below(id)
    BY <1>3, <1>4 DEF PageWill, Coming, Replied, IsReply, Below
  <1>12. loaded' = loaded /\ raced' = raced /\ get' = get
    BY <1>3
  <1>13. Agree'
    <2>. HIDE DEF q, e
    <2>. QED
      BY <1>10, <1>11, <1>12 DEF IInv, Agree, AgreeOn
  <1>. QED
    BY <1>8, <1>9, <1>13 DEF IInv

(* The service answers: the reply has what the service will have, unless     *)
(* that changes by messages the page gets too.                               *)
LEMMA NetStateStep ==
    ASSUME IInv, NetState
    PROVE  IInv'
  <1>1. /\ get = <<"asked">> /\ get' = <<"reply", node_dict>>
        /\ raced' = raced \cup {e.id : e \in ToSet(queue["service"]) \ ToSet(queue["page"])}
        /\ UNCHANGED <<world, asking, subscribed, queue, node_dict, page, loaded, dropped, left>>
    BY DEF NetState
  <1>2. /\ queue["service"] \in Seq(EventSet) /\ node_dict \in Seq(NodeSet)
        /\ raced \subseteq Ids
    BY Parts DEF IInv
  <1>3. loaded
    BY <1>1 DEF IInv, Blank
  <1>4. raced' \subseteq Ids
    BY <1>1, <1>2 DEF ToSet, EventSet
  <1>5. Typed'
    BY <1>1, <1>2, <1>4 DEF IInv, Typed, world
  <1>6. get' # <<>> /\ get' # <<"asked">> /\ get'[2] = node_dict
    BY <1>1
  <1>7. Blank'
    BY <1>1, <1>3 DEF Blank
  <1>8. ASSUME NEW id \in Ids, id \notin raced' PROVE AgreeOn(id)'
    <2>1. AgreeOn(id)
      BY <1>1, <1>3, <1>8 DEF IInv, Agree
    <2>2. ~Coming(id) => None(queue["service"], id)
      BY <1>1, <1>8 DEF Coming, None, ToSet
    <2>3. None(queue["service"], id) => ~Ends(queue["service"], id)
      BY NoneEnds
    <2>4. ~Coming(id) => (ServiceWill(id) <=> id \in IdsOf(node_dict))
      BY <2>2, <2>3 DEF ServiceWill
    <2>5. Replied(id)' <=> id \in IdsOf(node_dict)
      BY <1>6 DEF Replied, IsReply
    <2>7. /\ PageWill(id)' <=> PageWill(id)
          /\ ServiceWill(id)' <=> ServiceWill(id)
          /\ Coming(id)' <=> Coming(id)
          /\ Below(id)' <=> Below(id)
      BY <1>1 DEF PageWill, ServiceWill, Coming, Below
    <2>. QED
      BY <2>1, <2>4, <2>5, <2>7 DEF AgreeOn
  <1>9. Agree'
    BY <1>8 DEF Agree
  <1>. QED
    BY <1>5, <1>7, <1>9 DEF IInv

(* The state of the service is deleted: only what it had is lost. *)
LEMMA NetDeleteStep ==
    ASSUME IInv, NetDelete
    PROVE  IInv'
  <1>1. /\ node_dict' = <<>> /\ raced' = raced \cup IdsOf(node_dict)
        /\ left["page"] > 0 /\ left' = [left EXCEPT !["page"] = @ - 1]
        /\ UNCHANGED <<world, asking, subscribed, queue, page, get, loaded, dropped>>
    BY DEF NetDelete, Spend
  <1>2. node_dict \in Seq(NodeSet) /\ raced \subseteq Ids
    BY Parts DEF IInv
  <1>3. raced' \subseteq Ids
    BY <1>1, <1>2 DEF IdsOf, NodeSet
  <1>4. left' \in [event : 0 .. MaxEvent, page : 0 .. MaxPage]
    <2>1. left \in [event : 0 .. MaxEvent, page : 0 .. MaxPage] /\ MaxPage \in Nat
      BY NetAssumption DEF IInv, Typed
    <2>2. left.page - 1 \in 0 .. MaxPage
      BY <1>1, <2>1
    <2>. QED
      BY <1>1, <2>1, <2>2
  <1>5. node_dict' \in Seq(NodeSet) /\ Distinct(node_dict')
    BY <1>1 DEF Distinct
  <1>6. Typed'
    BY <1>1, <1>3, <1>4, <1>5 DEF IInv, Typed, world
  <1>7. Blank'
    BY <1>1 DEF IInv, Blank
  <1>8. ASSUME loaded, NEW id \in Ids, id \notin raced' PROVE AgreeOn(id)'
    <2>1. AgreeOn(id) /\ id \notin IdsOf(node_dict)
      BY <1>1, <1>8 DEF IInv, Agree
    <2>2. id \notin IdsOf(node_dict')
      BY <1>1 DEF IdsOf
    <2>3. /\ PageWill(id)' <=> PageWill(id)
          /\ Coming(id)' <=> Coming(id)
          /\ Replied(id)' <=> Replied(id)
          /\ Below(id)' <=> Below(id)
      BY <1>1 DEF PageWill, Coming, Replied, IsReply, Below
    <2>4. ServiceWill(id)' <=> ServiceWill(id)
      BY <1>1, <2>1, <2>2 DEF ServiceWill
    <2>. QED
      BY <1>1, <2>1, <2>3, <2>4 DEF AgreeOn
  <1>9. Agree'
    BY <1>1, <1>8 DEF Agree
  <1>. QED
    BY <1>6, <1>7, <1>9 DEF IInv

(* A page connects anew: what was on its way to it is lost, and it asks. *)
LEMMA PageConnectStep ==
    ASSUME IInv, PageConnect
    PROVE  IInv'
  <1>1. /\ get = <<>> /\ get' = <<"asked">> /\ loaded' = TRUE
        /\ left["page"] > 0 /\ left' = [left EXCEPT !["page"] = @ - 1]
        /\ subscribed' = [subscribed EXCEPT !["page"] = {}]
        /\ asking' \subseteq asking \cup {<<"page", "realm">>}
        /\ queue' = [queue EXCEPT !["page"] = <<>>]
        /\ raced' = raced \cup IdsOf(queue["page"])
        /\ UNCHANGED <<world, node_dict, page, dropped>>
    BY DEF PageConnect, Spend
  <1>2. /\ queue["page"] \in Seq(EventSet) /\ raced \subseteq Ids
        /\ queue'["page"] = <<>> /\ queue'["service"] = queue["service"]
    BY <1>1, Parts DEF IInv, Typed, Clients
  <1>3. raced' \subseteq Ids
    BY <1>1, <1>2 DEF IdsOf, EventSet
  <1>4. left' \in [event : 0 .. MaxEvent, page : 0 .. MaxPage]
    <2>1. left \in [event : 0 .. MaxEvent, page : 0 .. MaxPage] /\ MaxPage \in Nat
      BY NetAssumption DEF IInv, Typed
    <2>2. left.page - 1 \in 0 .. MaxPage
      BY <1>1, <2>1
    <2>. QED
      BY <1>1, <2>1, <2>2
  <1>5. asking' \subseteq Clients \X {"realm", "rt"}
    BY <1>1 DEF IInv, Typed, Clients
  <1>6. subscribed' \in [Clients -> SUBSET {"realm", "rt"}] /\ queue' \in [Clients -> Seq(EventSet)]
    <2>1. /\ subscribed \in [Clients -> SUBSET {"realm", "rt"}]
          /\ queue \in [Clients -> Seq(EventSet)] /\ <<>> \in Seq(EventSet)
      BY DEF IInv, Typed
    <2>. QED
      BY <1>1, <2>1
  <1>7. Typed'
    BY <1>1, <1>3, <1>4, <1>5, <1>6 DEF IInv, Typed, world
  <1>8. Blank'
    BY <1>1 DEF Blank
  <1>9. ASSUME NEW id \in Ids, id \notin raced' PROVE AgreeOn(id)'
    <2>1. ~Coming(id) /\ id \notin raced
      BY <1>1, <1>9 DEF Coming, None, IdsOf
    <2>2. ~Coming(id)' /\ ~Replied(id)'
      BY <1>1, <1>2, NoneInEmpty DEF Coming, Replied, IsReply
    <2>3. ServiceWill(id)' <=> ServiceWill(id)
      BY <1>1, <1>2 DEF ServiceWill
    <2>4. PageWill(id)' <=> Has(page.cy, id)
      BY <1>1, <1>2, NoneInEmpty DEF PageWill
    <2>5. PageWill(id) <=> Has(page.cy, id)
      BY <2>1, NoneEnds DEF PageWill, Coming
    <2>6. loaded => (PageWill(id) => ServiceWill(id))
      BY <1>9, <2>1 DEF IInv, Agree, AgreeOn
    <2>7. ~loaded => ~Has(page.cy, id)
      BY DEF IInv, Blank, Has
    <2>8. loaded \in BOOLEAN /\ get' = <<"asked">>
      BY <1>1 DEF IInv, Typed
    <2>. QED
      BY <2>2, <2>3, <2>4, <2>5, <2>6, <2>7, <2>8 DEF AgreeOn
  <1>10. Agree'
    BY <1>9 DEF Agree
  <1>. QED
    BY <1>7, <1>8, <1>10 DEF IInv

(* A page takes a message: of that id it has what it was going to have, and  *)
(* of others it loses only what is below it.                                 *)
LEMMA PageMessageStep ==
    ASSUME IInv, PageMessage
    PROVE  IInv'
  <1>1. PICK q, e, t : q = queue["page"] /\ e = Head(q) /\ t = Tail(q)
    OBVIOUS
  <1>2. /\ q \in Seq(EventSet) /\ queue["service"] \in Seq(EventSet) /\ q # <<>>
        /\ page \in GoodPages /\ page.cy \in SUBSET Elements
        /\ raced \subseteq Ids /\ dropped \subseteq Ids
        /\ Typed /\ Blank /\ Agree
    BY <1>1, Parts DEF IInv, PageMessage
  <1>3. e \in EventSet /\ t \in Seq(EventSet)
    BY <1>1, <1>2, First
  <1>4. /\ page' = loadNode(page, e)
        /\ asking' \subseteq asking \cup {<<"page", "rt">>}
        /\ dropped' = IF e.cmd = "stop" THEN dropped \cup {e.id} ELSE dropped
        /\ raced' = IF e.cmd = "stop" /\ IsReply /\ e.id \in IdsOf(get[2])
                    THEN raced \cup {e.id} ELSE raced
        /\ queue' = [queue EXCEPT !["page"] = t]
        /\ UNCHANGED <<world, subscribed, node_dict, get, loaded, left>>
    BY <1>1 DEF PageMessage, AskFor, IsReply
  <1>5. queue'["page"] = t /\ queue'["service"] = queue["service"]
        /\ queue' \in [Clients -> Seq(EventSet)]
    BY <1>2, <1>3, <1>4 DEF Typed, Clients
  <1>6. e.cmd \in {"start", "stop"} /\ e.kind \in Kinds /\ e.id \in Ids /\ Fits(e)
    BY <1>3 DEF EventSet
  <1>7. /\ page' \in GoodPages
        /\ e.cmd = "start" => page'.cy = Added(page.cy, e)
        /\ e.cmd = "stop" => page'.cy = page.cy \ Removed(page.cy, e.id)
    BY <1>2, <1>4, <1>6, LoadNodeGood
  <1>8. /\ Has(page'.cy, e.id) <=> e.cmd = "start"
        /\ \A id : id # e.id => (Has(page'.cy, id) => Has(page.cy, id))
        /\ \A id : id # e.id /\ Has(page.cy, id) /\ ~Has(page'.cy, id) =>
               /\ e.cmd = "stop"
               /\ IsUnder(id, e.id)
    <2>1. CASE e.cmd = "start"
      <3>1. page'.cy = Added(page.cy, e)
        BY <1>7, <2>1
      <3>2. \A id : Has(page'.cy, id) <=> Has(page.cy, id) \/ id = e.id
        BY <1>2, <1>6, <3>1, StartAdds
      <3>. QED
        BY <2>1, <3>2
    <2>2. CASE e.cmd = "stop"
      <3>1. page'.cy = page.cy \ Removed(page.cy, e.id)
        BY <1>7, <2>2
      <3>2. PICK u, c, d : u = page'.cy /\ c = page.cy /\ d = e.id
        OBVIOUS
      <3>3. u = c \ Removed(c, d) /\ c \in SUBSET Elements
        BY <1>2, <3>1, <3>2
      <3>4. ~Has(u, d) /\ \A x : Has(u, x) => Has(c, x)
        BY <3>3, StopRemoves
      <3>5. ASSUME NEW x, Has(c, x), ~Has(u, x), x # d
            PROVE  IsUnder(x, d)
        BY <3>3, <3>5, StopLoses, Zenon
      <3>. QED
        BY <2>2, <3>2, <3>4, <3>5
    <2>. QED
      BY <1>6, <2>1, <2>2
  <1>9. raced' \subseteq Ids /\ dropped' \subseteq Ids
    BY <1>2, <1>4, <1>6
  <1>10. asking' \subseteq Clients \X {"realm", "rt"}
    BY <1>2, <1>4 DEF Typed, Clients
  <1>11. Typed'
    BY <1>2, <1>4, <1>5, <1>7, <1>9, <1>10 DEF Typed, world
  <1>12. loaded
    BY <1>1, <1>2 DEF Blank
  <1>13. Blank'
    BY <1>4, <1>12 DEF Blank
  <1>14. ASSUME NEW id \in Ids, id \notin raced' PROVE AgreeOn(id)'
    <2>1. AgreeOn(id) /\ id \notin raced
      BY <1>2, <1>4, <1>12, <1>14 DEF Agree
    <2>2. /\ ServiceWill(id)' <=> ServiceWill(id)
          /\ Replied(id)' <=> Replied(id)
          /\ get' = get
          /\ Below(id) => Below(id)'
      BY <1>4, <1>5 DEF ServiceWill, Replied, IsReply, Below
    <2>3. /\ None(q, id) <=> e.id # id /\ None(t, id)
          /\ Ends(q, id) <=> (e.id = id /\ e.cmd = "start" /\ None(t, id)) \/ Ends(t, id)
      BY <1>1, <1>2, AfterTail
    <2>4. None(t, id) => ~Ends(t, id)
      BY NoneEnds
    <2>5. CASE e.id = id
      <3>1. (PageWill(id)' <=> PageWill(id)) /\ Coming(id)
        BY <1>1, <1>5, <1>8, <2>3, <2>4, <2>5 DEF PageWill, Coming
      <3>2. Replied(id) /\ ~Coming(id)' => PageWill(id)'
        <4>1. Replied(id) => e.cmd = "start"
          BY <1>4, <1>6, <1>14, <2>5 DEF Replied
        <4>. QED
          BY <1>5, <1>8, <2>5, <4>1 DEF PageWill, Coming
      <3>. QED
        BY <2>1, <2>2, <3>1, <3>2 DEF AgreeOn
    <2>6. CASE e.id # id
      <3>1. Coming(id)' <=> Coming(id)
        BY <1>1, <1>5, <2>3, <2>6 DEF Coming
      <3>2. Coming(id) => (PageWill(id)' <=> PageWill(id))
        BY <1>1, <1>5, <2>3, <2>6 DEF Coming, PageWill
      <3>3. ~Coming(id) => /\ PageWill(id) <=> Has(page.cy, id)
                           /\ PageWill(id)' <=> Has(page'.cy, id)
        BY <1>1, <1>5, <2>3, <2>4, <2>6 DEF PageWill, Coming
      <3>4. Has(page'.cy, id) => Has(page.cy, id)
        BY <1>8, <2>6
      <3>5. Has(page.cy, id) /\ ~Has(page'.cy, id) => Below(id)'
        BY <1>4, <1>8, <2>6 DEF Below, IsUnder
      <3>. QED
        BY <2>1, <2>2, <3>1, <3>2, <3>3, <3>4, <3>5 DEF AgreeOn
    <2>. QED
      BY <2>5, <2>6
  <1>15. Agree'
    BY <1>14 DEF Agree
  <1>. QED
    BY <1>11, <1>13, <1>15 DEF IInv

(* A page loads a reply: it has what it had and what is in the reply. *)
LEMMA PageReplyStep ==
    ASSUME IInv, PageReply
    PROVE  IInv'
  <1>1. /\ IsReply /\ get' = <<>>
        /\ page' = loadNodesFromDataArray(page, get[2])
        /\ asking' \subseteq asking \cup {<<"page", "rt">>}
        /\ UNCHANGED <<world, subscribed, queue, node_dict, loaded, raced, dropped, left>>
    BY DEF PageReply, AskFor, IsReply
  <1>2. /\ queue["page"] \in Seq(EventSet) /\ page \in GoodPages /\ get[2] \in Seq(NodeSet)
        /\ Typed /\ Blank /\ Agree
    BY <1>1, Parts DEF IInv
  <1>3. /\ page' \in GoodPages
        /\ \A id : Has(page'.cy, id) <=> Has(page.cy, id) \/ id \in IdsOf(get[2])
    BY <1>1, <1>2, LoadNodes
  <1>4. asking' \subseteq Clients \X {"realm", "rt"}
    BY <1>1, <1>2 DEF Typed, Clients
  <1>5. Typed'
    BY <1>1, <1>2, <1>3, <1>4 DEF Typed, world
  <1>6. loaded
    BY <1>1, <1>2 DEF Blank, IsReply
  <1>7. Blank'
    BY <1>1, <1>6 DEF Blank
  <1>8. ASSUME NEW id \in Ids, id \notin raced' PROVE AgreeOn(id)'
    <2>1. AgreeOn(id)
      BY <1>1, <1>2, <1>6, <1>8 DEF Agree
    <2>2. /\ ServiceWill(id)' <=> ServiceWill(id)
          /\ Coming(id)' <=> Coming(id)
          /\ Below(id)' <=> Below(id)
          /\ ~Replied(id)'
      BY <1>1 DEF ServiceWill, Coming, Below, Replied, IsReply
    <2>3. get # <<"asked">>
      BY <1>1 DEF IsReply
    <2>4. Coming(id) => (PageWill(id)' <=> PageWill(id))
      BY <1>1 DEF PageWill, Coming
    <2>5. ~Coming(id) => /\ PageWill(id) <=> Has(page.cy, id)
                         /\ PageWill(id)' <=> Has(page'.cy, id)
      BY <1>1, NoneEnds DEF PageWill, Coming
    <2>6. Has(page'.cy, id) <=> Has(page.cy, id) \/ Replied(id)
      BY <1>1, <1>3 DEF Replied
    <2>. QED
      BY <2>1, <2>2, <2>3, <2>4, <2>5, <2>6 DEF AgreeOn
  <1>9. Agree'
    BY <1>8 DEF Agree
  <1>. QED
    BY <1>5, <1>7, <1>9 DEF IInv

-----------------------------------------------------------------------------

(* Nothing is there at the start. *)
LEMMA Initial ==
    ASSUME Init
    PROVE  IInv
  <1>1. Typed
    <2>1. page \in Pages /\ Connected(page)
      BY DEF Init, Pages, Connected, Edges
    <2>2. left \in [event : 0 .. MaxEvent, page : 0 .. MaxPage]
      BY NetAssumption DEF Init
    <2>3. subscribed \in [Clients -> SUBSET {"realm", "rt"}]
      BY DEF Init
    <2>4. queue \in [Clients -> Seq(EventSet)]
      <3>1. <<>> \in Seq(EventSet)
        OBVIOUS
      <3>. QED
        BY <3>1 DEF Init
    <2>5. node_dict \in Seq(NodeSet) /\ Distinct(node_dict)
      BY DEF Init, Distinct
    <2>. QED
      BY <2>1, <2>2, <2>3, <2>4, <2>5 DEF Init, Typed, GoodPages
  <1>2. Blank
    BY DEF Init, Blank, Clients
  <1>3. Agree
    BY DEF Init, Agree
  <1>. QED
    BY <1>1, <1>2, <1>3 DEF IInv

(* The invariant is inductive. *)
LEMMA Inductive ==
    ASSUME IInv, [Next]_vars
    PROVE  IInv'
  <1>1. CASE Bridge \/ DeleteRuntime
    BY <1>1, BridgeStep
  <1>2. CASE ServiceMessage
    BY <1>2, ServiceMessageStep
  <1>3. CASE NetState
    BY <1>3, NetStateStep
  <1>4. CASE NetDelete
    BY <1>4, NetDeleteStep
  <1>5. CASE PageConnect
    BY <1>5, PageConnectStep
  <1>6. CASE PageMessage
    BY <1>6, PageMessageStep
  <1>7. CASE PageReply
    BY <1>7, PageReplyStep
  <1>8. ASSUME NEW c \in Clients, NEW topic \in {"realm", "rt"}, Subscribe(c, topic)
        PROVE  IInv'
    BY <1>8, SubscribeStep
  <1>9. CASE UNCHANGED vars
    BY <1>9 DEF vars, world, IInv, Typed, Blank, Agree, AgreeOn, Coming, ServiceWill, PageWill,
                Replied, IsReply, Below
  <1>. QED
    BY <1>1, <1>2, <1>3, <1>4, <1>5, <1>6, <1>7, <1>8, <1>9 DEF Next, Service, Page

(* It holds in every state of every behaviour. *)
THEOREM AlwaysIInv == Spec => []IInv
  <1>1. Init => IInv
    BY Initial
  <1>2. IInv /\ [Next]_vars => IInv'
    BY Inductive
  <1>. QED
    BY <1>1, <1>2, PTL DEF Spec

(* Every variable holds a value of its kind, and the service never has two   *)
(* nodes for an id, whatever comes twice or out of order.                    *)
THEOREM NetTyped == Spec => []TypeOK
  <1>1. IInv => TypeOK
    <2>. SUFFICES ASSUME IInv PROVE TypeOK
      OBVIOUS
    <2>1. Typed
      BY DEF IInv
    <2>2. ASSUME NEW c \in Clients, NEW i \in DOMAIN queue[c]
          PROVE  queue[c][i] \in
                    [cmd : {"start", "stop"}, kind : Kinds, id : Ids, no : 1 .. MaxEvent]
      <3>1. queue[c] \in Seq(EventSet)
        BY <2>1 DEF Typed
      <3>2. queue[c][i] \in EventSet
        BY <3>1
      <3>. QED
        BY <3>2 DEF EventSet
    <2>3. ToSet(node_dict) \subseteq [kind : Kinds, id : Ids]
      BY <2>1 DEF Typed, ToSet, NodeSet
    <2>4. Cardinality(IdsOf(node_dict)) = Len(node_dict)
      BY <2>1, AsManyIds DEF Typed
    <2>5. /\ page.cy \subseteq [kind : Kinds, id : Ids, child : BOOLEAN]
          /\ page.edges \subseteq TopicIds \X TopicIds
          /\ page.pubs \subseteq TopicIds /\ page.subs \subseteq TopicIds
      BY <2>1 DEF Typed, GoodPages, Pages, Elements
    <2>6. Len(get) <= 2
      <3>1. get = <<>> \/ get = <<"asked">> \/ \E s \in Seq(NodeSet) : get = <<"reply", s>>
        BY <2>1 DEF Typed
      <3>2. CASE get = <<>>
        BY <3>2
      <3>3. CASE get = <<"asked">>
        BY <3>3
      <3>4. ASSUME NEW s \in Seq(NodeSet), get = <<"reply", s>> PROVE Len(get) <= 2
        BY <3>4
      <3>. QED
        BY <3>1, <3>2, <3>3, <3>4
    <2>. QED
      BY <2>1, <2>2, <2>3, <2>4, <2>5, <2>6 DEF Typed, TypeOK
  <1>. QED
    BY <1>1, AlwaysIInv, PTL

(* A page has the edge between every publisher and every subscriber of one   *)
(* topic that it shows, whether they came one by one or with a reply, and    *)
(* whatever was removed in between.                                          *)
THEOREM PageConnects == Spec => []EdgesComplete
  <1>1. IInv => EdgesComplete
    <2>. SUFFICES ASSUME IInv, NEW p \in page.cy, NEW s \in page.cy,
                         p.kind = "pub", s.kind = "sub", p.id[2] = s.id[2]
                  PROVE  <<p.id, s.id>> \in page.edges
      BY DEF EdgesComplete
    <2>1. Connected(page)
      BY DEF IInv, Typed, GoodPages
    <2>2. p.id \in page.pubs /\ s.id \in page.subs
      BY <2>1 DEF Connected
    <2>3. Has(page.cy, p.id) /\ Has(page.cy, s.id)
      BY DEF Has
    <2>4. <<p.id, s.id>> \in Edges(page.cy, page.pubs, page.subs)
      BY <2>2, <2>3 DEF Edges
    <2>. QED
      BY <2>1, <2>4 DEF Connected
  <1>. QED
    BY <1>1, AlwaysIInv, PTL

(* With nothing on its way, service and page have the same nodes, except for *)
(* the ids of the races the model records and what the page dropped with a   *)
(* node above.                                                               *)
THEOREM ServiceAndPageAgree == Spec => []SameGraph
  <1>1. IInv => SameGraph
    <2>. SUFFICES ASSUME IInv, loaded, get = <<>>, \A c \in Clients : queue[c] = <<>>,
                         NEW id \in Ids \ raced
                  PROVE  /\ Has(page.cy, id) => id \in IdsOf(node_dict)
                         /\ id \in IdsOf(node_dict) => Has(page.cy, id) \/ Below(id)
      BY DEF SameGraph, Below, IsUnder
    <2>1. AgreeOn(id)
      BY DEF IInv, Agree
    <2>2. queue["service"] = <<>> /\ queue["page"] = <<>>
      BY DEF Clients
    <2>3. /\ ServiceWill(id) <=> id \in IdsOf(node_dict)
          /\ PageWill(id) <=> Has(page.cy, id)
      BY <2>2, NoneInEmpty DEF ServiceWill, PageWill
    <2>4. ~Replied(id) /\ get # <<"asked">>
      BY DEF Replied, IsReply
    <2>. QED
      BY <2>1, <2>3, <2>4 DEF AgreeOn
  <1>. QED
    BY <1>1, AlwaysIInv, PTL

=============================================================================
