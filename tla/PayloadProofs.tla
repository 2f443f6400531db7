---------------------------- MODULE PayloadProofs ---------------------------
(* Proofs about Payload, for containers and objects of any length.           *)
EXTENDS Payload, SequenceTheorems, WellFoundedInduction, TLAPS

-----------------------------------------------------------------------------
(* Induction, with a set in the place of a predicate.                        *)

(* A set of natural numbers that is not empty has a least one. *)
LEMMA LeastNumber ==
    ASSUME NEW T \in SUBSET Nat, T # {}
    PROVE  \E x \in T : \A y \in T : x <= y
  <1> DEFINE R == OpToRel(<, Nat)
  <1>1. IsWellFoundedOn(R, Nat)
    BY NatLessThanWellFounded
  <1>2. \A x, y \in Nat : x < y => <<x, y>> \in R
    BY DEF OpToRel
  <1>. HIDE DEF R
  <1>3. PICK x \in T : \A y \in T : ~(<<y, x>> \in R)
    BY <1>1, WFMin, Zenon
  <1>4. ASSUME NEW y \in T PROVE x <= y
    <2>1. x \in Nat /\ y \in Nat /\ ~(<<y, x>> \in R)
      BY <1>3
    <2>2. ~(y < x)
      BY <1>2, <2>1
    <2>. QED
      BY <2>1, <2>2
  <1>. QED
    BY <1>4

(* Induction, with a set for the predicate. *)
LEMMA Induction ==
    ASSUME NEW T, 0 \in T, \A n \in Nat : n \in T => n + 1 \in T
    PROVE  \A n \in Nat : n \in T
  <1>. SUFFICES ASSUME NEW k \in Nat, k \notin T PROVE FALSE
    OBVIOUS
  <1> DEFINE S == {n \in Nat : n \notin T}
  <1>1. PICK x \in S : \A y \in S : x <= y
    BY LeastNumber
  <1>2. x \in Nat /\ x # 0
    OBVIOUS
  <1>3. x - 1 \in Nat /\ x - 1 \in T
    <2>1. x - 1 \in Nat /\ ~(x <= x - 1)
      BY <1>2
    <2>. QED
      BY <2>1, <1>1
  <1>4. x \in T
    <2>1. (x - 1) + 1 \in T
      BY <1>3
    <2>. QED
      BY <2>1, <1>2
  <1>. QED
    BY <1>4

Iteration(f, N, V, base, step) ==
    f \in [0 .. N -> V] /\ f[0] = base /\ \A i \in 1 .. N : f[i] = step[i][f[i - 1]]

(* A sequence of values, each made from the one before, exists. *)
LEMMA Iterate ==
    ASSUME NEW N \in Nat, NEW V, NEW base \in V, NEW step \in [1 .. N -> [V -> V]]
    PROVE  \E f : Iteration(f, N, V, base, step)
  <1> DEFINE Up(n, f) == f = [i \in 0 .. n |-> IF i = 0 THEN base ELSE step[i][f[i - 1]]]
             T == {n \in Nat : n <= N => \E f \in [0 .. n -> V] : Up(n, f)}
  <1>1. 0 \in T
    <2>1. [i \in 0 .. 0 |-> base] \in [0 .. 0 -> V]
      OBVIOUS
    <2>2. Up(0, [i \in 0 .. 0 |-> base])
      OBVIOUS
    <2>. QED
      BY <2>1, <2>2
  <1>2. ASSUME NEW n \in Nat, n \in T PROVE n + 1 \in T
    <2>. SUFFICES ASSUME n + 1 <= N PROVE \E f \in [0 .. n + 1 -> V] : Up(n + 1, f)
      OBVIOUS
    <2>1. PICK f \in [0 .. n -> V] : Up(n, f)
      BY <1>2
    <2> DEFINE g == [i \in 0 .. n + 1 |-> IF i \in 0 .. n THEN f[i] ELSE step[n + 1][f[n]]]
    <2>2. step[n + 1] \in [V -> V] /\ f[n] \in V
      OBVIOUS
    <2>3. step[n + 1][f[n]] \in V
      BY <2>2
    <2>4. g \in [0 .. n + 1 -> V]
      BY <2>3
    <2>5. ASSUME NEW i \in 0 .. n + 1
          PROVE  g[i] = IF i = 0 THEN base ELSE step[i][g[i - 1]]
      <3>1. CASE i \in 1 .. n
        <4>1. i - 1 \in 0 .. n /\ i # 0
          BY <3>1
        <4>2. f[i] = step[i][f[i - 1]]
          BY <2>1, <3>1, <4>1
        <4>. QED
          BY <4>1, <4>2, <3>1
      <3>2. CASE i = n + 1
        BY <3>2
      <3>3. CASE i = 0
        BY <2>1, <3>3
      <3>. QED
        BY <3>1, <3>2, <3>3
    <2>6. Up(n + 1, g)
      BY <2>5
    <2>. QED
      BY <2>4, <2>6
  <1>3. N \in T
    <2>. HIDE DEF T
    <2>. QED BY <1>1, <1>2, Induction
  <1>. QED
    BY <1>3 DEF Iteration

-----------------------------------------------------------------------------
(* Sequences.                                                                *)

(* What is a sequence of elements of S. *)
LEMMA MakesSequence ==
    ASSUME NEW S, NEW N \in Nat, NEW s, s = [i \in 1 .. N |-> s[i]], \A i \in 1 .. N : s[i] \in S
    PROVE  s \in Seq(S) /\ Len(s) = N
  <1>1. s \in [1 .. N -> S]
    OBVIOUS
  <1>. QED
    BY <1>1

(* What element a sequence without its element p has where. *)
LEMMA RemovedAt ==
    ASSUME NEW S, NEW s \in Seq(S), NEW p \in DOMAIN s, NEW t, t = RemoveAt(s, p)
    PROVE  /\ t \in Seq(S)
           /\ \A i \in DOMAIN t : i \in 1 .. Len(s) - 1
           /\ \A i \in DOMAIN t : i < p => i \in DOMAIN s /\ t[i] = s[i]
           /\ \A i \in DOMAIN t : i >= p => i + 1 \in DOMAIN s /\ t[i] = s[i + 1]
           /\ \A i \in DOMAIN s : i < p => i \in DOMAIN t
           /\ \A i \in DOMAIN s : i > p => i - 1 \in DOMAIN t
  <1> DEFINE a == SubSeq(s, 1, p - 1)
             b == SubSeq(s, p + 1, Len(s))
  <1>1. t = a \o b /\ Len(s) \in Nat /\ p \in 1 .. Len(s) /\ DOMAIN s = 1 .. Len(s)
    BY DEF RemoveAt
  <1>2. /\ a \in Seq(S) /\ Len(a) = p - 1 /\ \A i \in 1 .. p - 1 : a[i] = s[i]
    BY <1>1
  <1>3. b \in Seq(S) /\ Len(b) = Len(s) - p
    BY <1>1
  <1>4. \A i \in 1 .. Len(s) - p : b[i] = s[p + i]
    BY <1>1
  <1>. HIDE DEF a, b
  <1>5. a \o b \in Seq(S) /\ Len(a \o b) = Len(a) + Len(b)
        /\ \A i \in 1 .. Len(a) + Len(b) : (a \o b)[i] = IF i <= Len(a) THEN a[i] ELSE b[i - Len(a)]
    BY <1>2, <1>3, ConcatProperties
  <1>6. p - 1 \in Nat /\ Len(s) - p \in Nat /\ (p - 1) + (Len(s) - p) = Len(s) - 1
    BY <1>1
  <1>7. t \in Seq(S) /\ Len(t) = Len(s) - 1
    BY <1>1, <1>2, <1>3, <1>5, <1>6
  <1>8. DOMAIN t = 1 .. Len(s) - 1
    BY <1>7
  <1>9. \A i \in 1 .. Len(s) - 1 : t[i] = IF i <= p - 1 THEN a[i] ELSE b[i - (p - 1)]
    BY <1>1, <1>2, <1>3, <1>5, <1>6
  <1>10. p \in Nat /\ p >= 1 /\ p <= Len(s)
    BY <1>1
  <1>11. ASSUME NEW i \in 1 .. Len(s) - 1, i < p PROVE i \in DOMAIN s /\ t[i] = s[i]
    <2>1. i \in 1 .. p - 1 /\ i \in 1 .. Len(s) /\ i <= p - 1
      BY <1>1, <1>10, <1>11
    <2>2. t[i] = a[i] /\ a[i] = s[i]
      BY <1>2, <1>9, <2>1
    <2>. QED
      BY <1>1, <2>1, <2>2
  <1>12. ASSUME NEW i \in 1 .. Len(s) - 1, i >= p PROVE i + 1 \in DOMAIN s /\ t[i] = s[i + 1]
    <2>1. i - (p - 1) \in 1 .. Len(s) - p /\ ~(i <= p - 1) /\ i + 1 \in 1 .. Len(s)
      BY <1>1, <1>10, <1>12
    <2>2. t[i] = b[i - (p - 1)] /\ b[i - (p - 1)] = s[p + (i - (p - 1))]
      BY <1>4, <1>9, <2>1
    <2>3. p + (i - (p - 1)) = i + 1
      BY <1>10
    <2>. QED
      BY <1>1, <2>1, <2>2, <2>3
  <1>13. ASSUME NEW i \in DOMAIN s, i < p PROVE i \in DOMAIN t
    <2>1. i \in 1 .. Len(s) - 1
      BY <1>1, <1>10, <1>13
    <2>. QED
      BY <1>8, <2>1
  <1>14. ASSUME NEW i \in DOMAIN s, i > p PROVE i - 1 \in DOMAIN t
    <2>1. i - 1 \in 1 .. Len(s) - 1
      BY <1>1, <1>10, <1>14
    <2>. QED
      BY <1>8, <2>1
  <1>. QED
    BY <1>7, <1>8, <1>11, <1>12, <1>13, <1>14

Renumbering(o, s, p, t) ==
    /\ \A i \in DOMAIN t : o[i] \in DOMAIN s /\ o[i] # p /\ t[i] = s[o[i]]
    /\ \A i, j \in DOMAIN t : o[i] = o[j] => i = j
    /\ \A i \in DOMAIN s : i # p => \E j \in DOMAIN t : o[j] = i

(* A sequence without its element p has all the others. *)
LEMMA Remaining ==
    ASSUME NEW S, NEW s \in Seq(S), NEW p \in DOMAIN s, NEW t, t = RemoveAt(s, p)
    PROVE  t \in Seq(S) /\ \E o : Renumbering(o, s, p, t)
  <1>1. /\ t \in Seq(S)
        /\ \A i \in DOMAIN t : i \in 1 .. Len(s) - 1
        /\ \A i \in DOMAIN t : i < p => i \in DOMAIN s /\ t[i] = s[i]
        /\ \A i \in DOMAIN t : i >= p => i + 1 \in DOMAIN s /\ t[i] = s[i + 1]
        /\ \A i \in DOMAIN s : i < p => i \in DOMAIN t
        /\ \A i \in DOMAIN s : i > p => i - 1 \in DOMAIN t
    BY RemovedAt
  <1>2. p \in Nat /\ \A i \in DOMAIN s : i \in Nat
    OBVIOUS
  <1>3. \A i \in DOMAIN t : i \in Nat
    BY <1>1
  <1> DEFINE o == [i \in DOMAIN t |-> IF i < p THEN i ELSE i + 1]
  <1>4. \A i \in DOMAIN t : o[i] \in DOMAIN s /\ t[i] = s[o[i]] /\ o[i] # p
    BY <1>1, <1>2, <1>3
  <1>5. \A i, j \in DOMAIN t : o[i] = o[j] => i = j
    BY <1>2, <1>3
  <1>6. ASSUME NEW i \in DOMAIN s, i # p PROVE \E j \in DOMAIN t : o[j] = i
    <2>1. CASE i < p
      BY <1>1, <2>1
    <2>2. CASE i > p
      <3>1. i - 1 \in DOMAIN t /\ ~(i - 1 < p) /\ (i - 1) + 1 = i
        BY <1>1, <1>2, <2>2
      <3>. QED
        BY <3>1
    <2>. QED
      BY <1>2, <1>6, <2>1, <2>2
  <1>. HIDE DEF o
  <1>7. Renumbering(o, s, p, t)
    BY <1>4, <1>5, <1>6 DEF Renumbering
  <1>. QED
    BY <1>1, <1>7

(* A sequence with a new last element. *)
LEMMA AddedLast ==
    ASSUME NEW S, NEW s \in Seq(S), NEW e \in S, NEW t, t = Append(s, e)
    PROVE  /\ t \in Seq(S) /\ Len(s) \in Nat /\ DOMAIN s = 1 .. Len(s)
           /\ DOMAIN t = DOMAIN s \cup {Len(s) + 1} /\ Len(t) = Len(s) + 1
           /\ t[Len(s) + 1] = e /\ \A i \in DOMAIN s : t[i] = s[i]
  OBVIOUS

Join(S, a, b, t) ==
    /\ t \in Seq(S) /\ Len(a) \in Nat /\ Len(b) \in Nat /\ Len(t) = Len(a) + Len(b)
    /\ \A i \in 1 .. Len(a) : t[i] = a[i]
    /\ \A j \in 1 .. Len(b) : t[Len(a) + j] = b[j]

(* Two sequences, one behind the other. *)
LEMMA Joined ==
    ASSUME NEW S, NEW a \in Seq(S), NEW b \in Seq(S), NEW t, t = a \o b
    PROVE  Join(S, a, b, t)
  <1>1. /\ t \in Seq(S) /\ Len(a) \in Nat /\ Len(b) \in Nat /\ Len(t) = Len(a) + Len(b)
        /\ \A i \in 1 .. Len(a) + Len(b) : t[i] = IF i <= Len(a) THEN a[i] ELSE b[i - Len(a)]
    BY ConcatProperties
  <1>2. ASSUME NEW i \in 1 .. Len(a) PROVE t[i] = a[i]
    <2>1. i \in 1 .. Len(a) + Len(b) /\ i <= Len(a)
      BY <1>1
    <2>. QED
      BY <1>1, <2>1
  <1>3. ASSUME NEW j \in 1 .. Len(b) PROVE t[Len(a) + j] = b[j]
    <2>1. /\ Len(a) + j \in 1 .. Len(a) + Len(b) /\ ~(Len(a) + j <= Len(a))
          /\ (Len(a) + j) - Len(a) = j
      BY <1>1
    <2>. QED
      BY <1>1, <2>1
  <1>. QED
    BY <1>1, <1>2, <1>3 DEF Join

-----------------------------------------------------------------------------
(* The values a module can be handed, and the containers of what a module    *)
(* has put into them or was handed.                                          *)
HandedValue == [double : Doubles \cup {NotFinite}] \cup [boolean : BOOLEAN] \cup [string : Texts]
                  \cup {v \in [bytearray : Seq(Byte)] : v.bytearray # <<>>}
HandedAttr == [key : Keys, value : HandedValue]
Handed     == {c \in Seq(HandedAttr) : DistinctKeys(c)}

AnAttr     == [key : Keys, value : AttrValue]
Container  == {c \in Seq(AnAttr) : DistinctKeys(c)}
Root       == Seq([key : Keys, value : JsonValue])

-----------------------------------------------------------------------------
(* Values and numbers.                                                       *)

(* There is a double nearest to every number. *)
LEMMA NearestExists ==
    ASSUME NEW n \in Int
    PROVE  \E d \in Doubles : Nearest(n, d)
  <1>1. Doubles \subseteq Int /\ 0 \in Doubles
    BY PayloadAssumption
  <1> DEFINE T == {Distance(n, d) : d \in Doubles}
  <1>2. T \in SUBSET Nat /\ T # {}
    BY <1>1 DEF Distance
  <1>3. PICK x \in T : \A y \in T : x <= y
    <2>. HIDE DEF T
    <2>. QED
      BY <1>2, LeastNumber
  <1>4. PICK d \in Doubles : x = Distance(n, d)
    BY <1>3
  <1>5. \A e \in Doubles : Distance(n, e) \in T
    OBVIOUS
  <1>6. \A e \in Doubles : Distance(n, d) <= Distance(n, e)
    <2>. HIDE DEF T
    <2>. QED
      BY <1>3, <1>4, <1>5
  <1>. QED
    BY <1>6 DEF Nearest

(* Rounding gives a number a double holds: the number itself, or the one     *)
(* nearest to it.                                                            *)
LEMMA RoundedNear ==
    ASSUME NEW n \in Int
    PROVE  /\ Rounded(n) \in Doubles /\ Rounded(n) \in Int /\ n # NotFinite
           /\ Rounded(n) = n \/ Nearest(n, Rounded(n))
  <1>1. n # NotFinite /\ Doubles \subseteq Int
    BY PayloadAssumption
  <1>2. CASE n \in Doubles
    <2>1. Rounded(n) = n
      BY <1>2 DEF Rounded
    <2>. QED
      BY <1>1, <1>2, <2>1
  <1>3. CASE n \notin Doubles
    <2>1. Rounded(n) = CHOOSE d \in Doubles : Nearest(n, d)
      BY <1>1, <1>3 DEF Rounded
    <2>2. (CHOOSE d \in Doubles : Nearest(n, d)) \in Doubles
          /\ Nearest(n, CHOOSE d \in Doubles : Nearest(n, d))
      <3>. HIDE DEF Nearest
      <3>. QED
        BY NearestExists
    <2>. QED
      BY <1>1, <2>1, <2>2
  <1>. QED
    BY <1>2, <1>3

(* A byte is a number a double holds, and the casts give it back, whichever  *)
(* sign char has.                                                            *)
LEMMA ByteBack ==
    ASSUME NEW n \in Byte, NEW signed \in BOOLEAN
    PROVE  ItemRead(n, signed) \in Doubles /\ ToInt8(ItemRead(n, signed)) = n
  <1> DEFINE k == ItemRead(n, signed)
  <1>1. k \in -128 .. 255
    BY DEF ItemRead, Byte
  <1>2. k \in Doubles
    <2>. HIDE DEF k
    <2>. QED
      BY <1>1, PayloadAssumption
  <1>3. ToInt8(k) = n
    BY DEF ToInt8, ItemRead, Byte
  <1>. QED
    BY <1>2, <1>3

(* A byte is what any cast to one gives. *)
LEMMA ByteMade ==
    ASSUME NEW n \in Int
    PROVE  ToInt8(n) \in Byte
  BY DEF ToInt8, Byte

(* A value is of one kind. *)
LEMMA KindUnique ==
    ASSUME NEW v, NEW k \in Kinds, DOMAIN v = {k}
    PROVE  KindOf(v) = k /\ \A x : Is(v, x) <=> x = k
  BY DEF KindOf, Is

(* What a value of a kind holds. *)
OfKind(v, k) ==
    /\ k \in Kinds /\ DOMAIN v = {k}
    /\ k \in Scalars \ {"boolean", "float", "double"} => v[k] \in Int
    /\ k \in {"float", "double"} => v[k] \in Doubles \cup {NotFinite}
    /\ k = "boolean" => v.boolean \in BOOLEAN /\ v = [boolean |-> v.boolean]
    /\ k = "string" => v.string \in Texts /\ v = [string |-> v.string]
    /\ k = "bytearray" => v.bytearray \in Seq(Byte) /\ v = [bytearray |-> v.bytearray]

(* Every value in a container is of the kind that KindOf tells. *)
LEMMA AttrKinds ==
    ASSUME NEW v \in AttrValue
    PROVE  OfKind(v, KindOf(v)) /\ \A x : Is(v, x) <=> x = KindOf(v)
  <1>1. Scalars = {"short", "int", "int64", "byte", "uint16", "float", "double", "boolean"}
    BY DEF Scalars, IntWidth
  <1>2. ASSUME NEW k, OfKind(v, k)
        PROVE  OfKind(v, KindOf(v)) /\ \A x : Is(v, x) <=> x = KindOf(v)
    <2>1. k \in Kinds /\ DOMAIN v = {k}
      BY <1>2 DEF OfKind
    <2>2. KindOf(v) = k /\ \A x : Is(v, x) <=> x = k
      BY <2>1, KindUnique
    <2>. QED
      BY <1>2, <2>2
  <1>3. CASE v \in [short : Int]
    BY <1>1, <1>2, <1>3 DEF Kinds, OfKind
  <1>4. CASE v \in [int : Int]
    BY <1>1, <1>2, <1>4 DEF Kinds, OfKind
  <1>5. CASE v \in [int64 : Int]
    BY <1>1, <1>2, <1>5 DEF Kinds, OfKind
  <1>6. CASE v \in [byte : Int]
    BY <1>1, <1>2, <1>6 DEF Kinds, OfKind
  <1>7. CASE v \in [uint16 : Int]
    BY <1>1, <1>2, <1>7 DEF Kinds, OfKind
  <1>8. CASE v \in [float : Doubles \cup {NotFinite}]
    BY <1>1, <1>2, <1>8 DEF Kinds, OfKind
  <1>9. CASE v \in [double : Doubles \cup {NotFinite}]
    BY <1>1, <1>2, <1>9 DEF Kinds, OfKind
  <1>10. CASE v \in [boolean : BOOLEAN]
    BY <1>1, <1>2, <1>10 DEF Kinds, OfKind
  <1>11. CASE v \in [string : Texts]
    BY <1>1, <1>2, <1>11 DEF Kinds, OfKind
  <1>12. CASE v \in [bytearray : Seq(Byte)]
    BY <1>1, <1>2, <1>12 DEF Kinds, OfKind
  <1>. QED
    BY <1>3, <1>4, <1>5, <1>6, <1>7, <1>8, <1>9, <1>10, <1>11, <1>12
    DEF AttrValue, Integral, Floating

-----------------------------------------------------------------------------
(* A container in memory.                                                    *)

(* The beginnings of a sequence of sequences put one behind the other. *)
LEMMA Flattened ==
    ASSUME NEW S, NEW s \in Seq(Seq(S))
    PROVE  \E f \in [0 .. Len(s) -> Seq(S)] :
              /\ f[0] = <<>> /\ \A i \in 1 .. Len(s) : f[i] = f[i - 1] \o s[i]
              /\ FlattenSeq(s) = f[Len(s)]
  <1> DEFINE N == Len(s)
             step == [i \in 1 .. N |-> [v \in Seq(S) |-> v \o s[i]]]
             Is1(g) == g = [i \in 1 .. N |-> IF i = 1 THEN s[i] ELSE g[i - 1] \o s[i]]
             flat == CHOOSE g : Is1(g)
  <1>1. N \in Nat /\ \A i \in 1 .. N : s[i] \in Seq(S)
    OBVIOUS
  <1>2. step \in [1 .. N -> [Seq(S) -> Seq(S)]]
    BY <1>1
  <1>3. <<>> \in Seq(S)
    OBVIOUS
  <1>4. PICK f : Iteration(f, N, Seq(S), <<>>, step)
    <2>. HIDE DEF step, N
    <2>. QED
      BY <1>1, <1>2, <1>3, Iterate, Zenon
  <1>5. f \in [0 .. N -> Seq(S)] /\ f[0] = <<>> /\ \A i \in 1 .. N : f[i] = step[i][f[i - 1]]
    <2>. HIDE DEF step, N
    <2>. QED
      BY <1>4 DEF Iteration
  <1>6. ASSUME NEW i \in 1 .. N PROVE f[i] = f[i - 1] \o s[i]
    <2>1. i - 1 \in 0 .. N
      BY <1>1
    <2>2. f[i - 1] \in Seq(S)
      BY <1>5, <2>1
    <2>. QED
      BY <1>5, <2>2
  <1>7. CASE N = 0
    BY <1>5, <1>6, <1>7 DEF FlattenSeq
  <1>8. CASE N # 0
    <2>. 1 \in 1 .. N
      BY <1>1, <1>8
    <2>0. f[1] = s[1]
      <3>1. f[1] = f[0] \o s[1]
        <4>1. PICK i \in 1 .. N : i = 1
          OBVIOUS
        <4>2. f[i] = f[i - 1] \o s[i]
          BY <1>6
        <4>3. i - 1 = 0
          BY <4>1
        <4>. QED
          BY <4>1, <4>2, <4>3
      <3>2. s[1] \in Seq(S) /\ f[0] = <<>>
        BY <1>1, <1>5
      <3>. HIDE DEF N
      <3>3. <<>> \o s[1] = s[1]
        BY <3>2
      <3>. QED
        BY <3>1, <3>2, <3>3
    <2> DEFINE g == [i \in 1 .. N |-> f[i]]
    <2>1. ASSUME NEW i \in 1 .. N PROVE g[i] = IF i = 1 THEN s[i] ELSE g[i - 1] \o s[i]
      <3>1. CASE i = 1
        BY <2>0, <3>1
      <3>2. CASE i # 1
        <4>1. i - 1 \in 1 .. N
          BY <1>1, <3>2
        <4>. QED
          BY <1>6, <3>2, <4>1
      <3>. QED
        BY <3>1, <3>2
    <2>2. Is1(g)
      BY <2>1
    <2>3. Is1(flat)
      <3>. HIDE DEF Is1, g
      <3>. QED
        BY <2>2
    <2>4. FlattenSeq(s) = flat[N]
      BY <1>8 DEF FlattenSeq
    <2>. HIDE DEF flat
    <2>5. flat[1] = s[1] /\ \A i \in 1 .. N : i # 1 => flat[i] = flat[i - 1] \o s[i]
      <3>. HIDE DEF N
      <3>. QED
        BY <2>3
    <2> DEFINE T == {n \in Nat : n \in 1 .. N => flat[n] = f[n]}
    <2>6. 0 \in T
      OBVIOUS
    <2>7. ASSUME NEW n \in Nat, n \in T PROVE n + 1 \in T
      <3>. SUFFICES ASSUME n + 1 \in 1 .. N PROVE flat[n + 1] = f[n + 1]
        OBVIOUS
      <3>1. (n + 1) - 1 = n
        OBVIOUS
      <3>2. CASE n = 0
        BY <2>0, <2>5, <3>2
      <3>3. CASE n # 0
        <4>1. n \in 1 .. N /\ n + 1 # 1
          BY <1>1, <3>3
        <4>. QED
          BY <1>6, <2>5, <2>7, <3>1, <4>1
      <3>. QED
        BY <3>2, <3>3
    <2>8. N \in T
      <3>. HIDE DEF T
      <3>. QED
        BY <1>1, <2>6, <2>7, Induction
    <2>9. N \in 1 .. N
      BY <1>1, <1>8
    <2>10. FlattenSeq(s) = f[N]
      BY <2>4, <2>8, <2>9
    <2>. QED
      BY <1>5, <1>6, <2>10
  <1>. QED
    BY <1>7, <1>8

Cell == {Nothing} \cup [length : Nat] \cup [key : Keys] \cup [type : Kinds]
          \cup [item : Int] \cup AttrValue

(* The first byte of a field holds what it holds. *)
LEMMA FieldCells ==
    ASSUME NEW v \in Cell, NEW n \in Nat \ {0}
    PROVE  Field(v, n) \in Seq(Cell) /\ Len(Field(v, n)) = n /\ Field(v, n)[1] = v
  <1> DEFINE r == [i \in 1 .. n - 1 |-> Nothing]
  <1>1. r \in Seq(Cell) /\ Len(r) = n - 1
    <2>1. Nothing \in Cell /\ n - 1 \in Nat
      BY DEF Cell
    <2>. QED
      BY <2>1
  <1>2. <<v>> \in Seq(Cell) /\ Len(<<v>>) = 1 /\ <<v>>[1] = v
    OBVIOUS
  <1>3. Field(v, n) = <<v>> \o r
    BY DEF Field
  <1>. HIDE DEF r
  <1>. QED
    BY <1>1, <1>2, <1>3

(* Where the bytes of a value of a kind are. *)
Shape(v, k, vs) ==
    /\ vs \in Seq(Cell) /\ Len(vs) >= 1
    /\ k \in Scalars => Len(vs) = IntWidth[k] /\ vs[1] = v
    /\ k = "string" => /\ Len(vs) = 2 + TextLength /\ vs[1] = [length |-> TextLength]
                       /\ vs[3] = v
    /\ k = "bytearray" =>
         /\ Len(vs) = 4 + Len(v.bytearray) /\ vs[1] = [length |-> Len(v.bytearray)]
         /\ \A j \in 1 .. Len(v.bytearray) : vs[4 + j] = [item |-> v.bytearray[j]]

(* Each value in the memory is laid out like this. *)
LEMMA ValueShape ==
    ASSUME NEW v \in AttrValue, NEW k, k = KindOf(v), NEW vs, vs = ValueCells(v)
    PROVE  Shape(v, k, vs)
  <1>1. OfKind(v, k) /\ \A x : Is(v, x) <=> x = k
    BY AttrKinds
  <1>2. k \in Scalars \/ k = "string" \/ k = "bytearray"
    BY <1>1 DEF OfKind, Kinds
  <1>3. v \in Cell
    BY DEF Cell
  <1>4. "string" \notin Scalars /\ "bytearray" \notin Scalars
        /\ \A x \in Scalars : IntWidth[x] \in Nat \ {0}
    BY DEF Scalars, IntWidth
  <1>5. CASE k \in Scalars
    <2>1. vs = Field(v, IntWidth[k])
      BY <1>1, <1>4, <1>5 DEF ValueCells
    <2>2. IntWidth[k] \in Nat \ {0} /\ k # "string" /\ k # "bytearray"
      BY <1>4, <1>5
    <2>3. vs \in Seq(Cell) /\ Len(vs) = IntWidth[k] /\ vs[1] = v
      BY <1>3, <2>1, <2>2, FieldCells
    <2>. QED
      BY <1>5, <2>2, <2>3 DEF Shape
  <1>6. CASE k = "string"
    <2> DEFINE len == [length |-> TextLength]
               a == Field(len, 2)
               b == Field(v, TextLength)
    <2>1. vs = a \o b
      BY <1>1, <1>6 DEF ValueCells
    <2>2. len \in Cell /\ TextLength = 2 /\ 2 \in Nat \ {0}
      BY DEF Cell, TextLength
    <2>. HIDE DEF len
    <2>3. a \in Seq(Cell) /\ Len(a) = 2 /\ a[1] = len
      BY <2>2, FieldCells
    <2>4. b \in Seq(Cell) /\ Len(b) = 2 /\ b[1] = v
      BY <1>3, <2>2, FieldCells
    <2>. HIDE DEF a, b
    <2>5. vs \in Seq(Cell) /\ Len(vs) = 4 /\ vs[1] = len /\ vs[3] = v
      <3>1. /\ vs \in Seq(Cell) /\ Len(vs) = 2 + 2
            /\ \A i \in 1 .. 2 : vs[i] = a[i]
            /\ \A j \in 1 .. 2 : vs[2 + j] = b[j]
        <4>1. Join(Cell, a, b, vs)
          BY <2>1, <2>3, <2>4, Joined, Zenon
        <4>. QED
          BY <2>3, <2>4, <4>1 DEF Join
      <3>2. vs[1] = a[1] /\ vs[2 + 1] = b[1]
        BY <3>1
      <3>. QED
        BY <2>3, <2>4, <3>1, <3>2
    <2>. QED
      BY <1>4, <1>6, <2>2, <2>5 DEF len, Shape
  <1>7. CASE k = "bytearray"
    <2> DEFINE n == Len(v.bytearray)
               len == [length |-> n]
               a == Field(len, 4)
               b == [i \in DOMAIN v.bytearray |-> [item |-> v.bytearray[i]]]
    <2>1. vs = a \o b
      BY <1>1, <1>7 DEF ValueCells
    <2>2. n \in Nat /\ DOMAIN v.bytearray = 1 .. n
          /\ \A i \in 1 .. n : v.bytearray[i] \in Int
      <3>1. v.bytearray \in Seq(Byte)
        BY <1>1, <1>7 DEF OfKind
      <3>2. \A q \in Seq(Byte) :
               Len(q) \in Nat /\ DOMAIN q = 1 .. Len(q) /\ \A i \in 1 .. Len(q) : q[i] \in Byte
        OBVIOUS
      <3>3. Byte \subseteq Int
        BY DEF Byte
      <3>. QED
        BY <3>1, <3>2, <3>3
    <2>3. len \in Cell /\ 4 \in Nat \ {0}
      BY <2>2 DEF Cell
    <2>4. b \in Seq(Cell) /\ Len(b) = n /\ \A j \in 1 .. n : b[j] = [item |-> v.bytearray[j]]
      <3>1. \A i \in 1 .. n : [item |-> v.bytearray[i]] \in Cell
        BY <2>2 DEF Cell
      <3>. QED
        BY <2>2, <3>1
    <2>. HIDE DEF len
    <2>5. a \in Seq(Cell) /\ Len(a) = 4 /\ a[1] = len
      BY <2>3, FieldCells
    <2>. HIDE DEF a, b, n
    <2>6. /\ vs \in Seq(Cell) /\ Len(vs) = 4 + n
          /\ \A i \in 1 .. 4 : vs[i] = a[i]
          /\ \A i \in 1 .. n : vs[4 + i] = b[i]
      <3>1. Join(Cell, a, b, vs)
        BY <2>1, <2>4, <2>5, Joined, Zenon
      <3>. QED
        BY <2>4, <2>5, <3>1 DEF Join
    <2>7. vs[1] = len /\ \A j \in 1 .. n : vs[4 + j] = [item |-> v.bytearray[j]]
      BY <2>4, <2>5, <2>6
    <2>. QED
      BY <1>4, <1>7, <2>2, <2>6, <2>7 DEF len, n, Shape
  <1>. QED
    BY <1>2, <1>5, <1>6, <1>7

(* Where the bytes of an attribute are: the length of its key, the key, its  *)
(* type, and then its value.                                                 *)
LEMMA AttrShape ==
    ASSUME NEW a \in AnAttr, NEW cs, cs = Cells(a), NEW vs, vs = ValueCells(a.value)
    PROVE  /\ cs \in Seq(Cell) /\ Len(cs) = 6 + Len(vs) /\ Len(vs) \in Nat
           /\ cs[1] = [length |-> KeyLength] /\ cs[3] = [key |-> a.key]
           /\ cs[6] = [type |-> KindOf(a.value)]
           /\ \A j \in 1 .. Len(vs) : cs[6 + j] = vs[j]
  <1> DEFINE len == [length |-> KeyLength]
             key == [key |-> a.key]
             type == [type |-> KindOf(a.value)]
             x == Field(len, 2)
             y == Field(key, KeyLength)
             z == <<type>>
  <1>1. cs = x \o y \o z \o vs
    BY DEF Cells
  <1>2. a.key \in Keys /\ a.value \in AttrValue /\ KindOf(a.value) \in Kinds
    BY AttrKinds DEF AnAttr, OfKind
  <1>3. len \in Cell /\ key \in Cell /\ type \in Cell /\ KeyLength = 3
        /\ 2 \in Nat \ {0} /\ 3 \in Nat \ {0}
    BY <1>2 DEF Cell, KeyLength
  <1>4. z \in Seq(Cell) /\ Len(z) = 1 /\ z[1] = type
    BY <1>3
  <1>. HIDE DEF len, key, type, z
  <1>5. x \in Seq(Cell) /\ Len(x) = 2 /\ x[1] = len
    BY <1>3, FieldCells
  <1>6. y \in Seq(Cell) /\ Len(y) = 3 /\ y[1] = key
    BY <1>3, FieldCells
  <1>7. vs \in Seq(Cell)
    BY <1>2, ValueShape DEF Shape
  <1>. HIDE DEF x, y
  <1> DEFINE g == x \o y
             h == g \o z
  <1>8. cs = h \o vs
    BY <1>1
  <1>9. h \in Seq(Cell) /\ Len(h) = 6 /\ h[1] = len /\ h[3] = key /\ h[6] = type
    <2>. HIDE DEF h, g
    <2>1. /\ g \in Seq(Cell) /\ Len(g) = 2 + 3
          /\ \A i \in 1 .. 2 : g[i] = x[i]
          /\ \A i \in 1 .. 3 : g[2 + i] = y[i]
      <3>1. Join(Cell, x, y, g)
        BY <1>5, <1>6, Joined, Zenon DEF g
      <3>. QED
        BY <1>5, <1>6, <3>1 DEF Join
    <2>2. /\ h \in Seq(Cell) /\ Len(h) = 5 + 1
          /\ \A i \in 1 .. 5 : h[i] = g[i]
          /\ \A i \in 1 .. 1 : h[5 + i] = z[i]
      <3>1. Join(Cell, g, z, h)
        BY <1>4, <2>1, Joined, Zenon DEF h
      <3>. QED
        BY <1>4, <2>1, <3>1 DEF Join
    <2>3. h[1] = g[1] /\ h[3] = g[3] /\ h[5 + 1] = z[1] /\ g[1] = x[1] /\ g[2 + 1] = y[1]
      BY <2>1, <2>2
    <2>. QED
      BY <1>4, <1>5, <1>6, <2>2, <2>3
  <1>. HIDE DEF h
  <1>10. /\ cs \in Seq(Cell) /\ Len(vs) \in Nat /\ Len(cs) = 6 + Len(vs)
         /\ \A i \in 1 .. 6 : cs[i] = h[i]
         /\ \A j \in 1 .. Len(vs) : cs[6 + j] = vs[j]
    <2>1. Join(Cell, h, vs, cs)
      BY <1>7, <1>8, <1>9, Joined, Zenon
    <2>. QED
      BY <1>9, <2>1 DEF Join
  <1>11. cs[1] = h[1] /\ cs[3] = h[3] /\ cs[6] = h[6]
    BY <1>10
  <1>. QED
    BY <1>9, <1>10, <1>11 DEF len, key, type

(* b tells after how many bytes of the memory each attribute ends. *)
Layout(c, b) ==
    /\ b \in [0 .. Len(c) -> Nat] /\ b[0] = 0
    /\ \A i \in 1 .. Len(c) :
          /\ b[i] = b[i - 1] + Len(Cells(c[i]))
          /\ \A k \in 1 .. Len(Cells(c[i])) : /\ b[i - 1] + k \in DOMAIN Memory(c)
                                            /\ Memory(c)[b[i - 1] + k] = Cells(c[i])[k]

Begins(x, y) == Len(x) <= Len(y) /\ \A k \in 1 .. Len(x) : y[k] = x[k]

(* What was put behind stays behind. *)
LEMMA BeginsJoined ==
    ASSUME NEW S, NEW x \in Seq(S), NEW y \in Seq(S), NEW a \in Seq(S), NEW z, z = y \o a,
           Begins(x, y)
    PROVE  Begins(x, z)
  <1>1. Join(S, y, a, z)
    BY Joined, Zenon
  <1>2. Len(x) \in Nat
    OBVIOUS
  <1>3. Len(x) <= Len(z) /\ \A k \in 1 .. Len(x) : k \in 1 .. Len(y)
    BY <1>1, <1>2 DEF Join, Begins
  <1>. QED
    BY <1>1, <1>3 DEF Join, Begins

(* The attributes of a container lie one behind the other. *)
LEMMA MemoryLayout ==
    ASSUME NEW c \in Seq(AnAttr)
    PROVE  \E b : Layout(c, b)
  <1> DEFINE N == Len(c)
             s == [i \in DOMAIN c |-> Cells(c[i])]
  <1>1. N \in Nat /\ DOMAIN c = 1 .. N /\ \A i \in 1 .. N : c[i] \in AnAttr
    OBVIOUS
  <1>2. \A i \in 1 .. N : s[i] = Cells(c[i]) /\ s[i] \in Seq(Cell)
    BY <1>1, AttrShape
  <1>3. s \in Seq(Seq(Cell)) /\ Len(s) = N
    <2>. HIDE DEF N
    <2>. QED
      BY <1>1, <1>2
  <1>4. Memory(c) = FlattenSeq(s)
    BY DEF Memory
  <1>. HIDE DEF s
  <1>5. PICK f \in [0 .. Len(s) -> Seq(Cell)] :
               /\ f[0] = <<>> /\ \A i \in 1 .. Len(s) : f[i] = f[i - 1] \o s[i]
               /\ FlattenSeq(s) = f[Len(s)]
    BY <1>3, Flattened
  <1>. HIDE DEF N
  <1>6. /\ f \in [0 .. N -> Seq(Cell)] /\ f[0] = <<>> /\ Memory(c) = f[N]
        /\ \A i \in 1 .. N : f[i] = f[i - 1] \o s[i]
    BY <1>3, <1>4, <1>5
  <1>7. \A i \in 1 .. N : i \in 0 .. N /\ i - 1 \in 0 .. N
    BY <1>1
  <1>8. ASSUME NEW i \in 1 .. N PROVE Join(Cell, f[i - 1], s[i], f[i])
    <2>1. f[i - 1] \in Seq(Cell) /\ s[i] \in Seq(Cell) /\ f[i] = f[i - 1] \o s[i]
      BY <1>2, <1>6, <1>7
    <2>. QED
      BY <2>1, Joined, Zenon
  <1>9. ASSUME NEW i \in 0 .. N PROVE Begins(f[i], f[N])
    <2> DEFINE T == {d \in Nat : i + d <= N => Begins(f[i], f[i + d])}
    <2>0. f[i] \in Seq(Cell) /\ i \in Nat
      BY <1>1, <1>6
    <2>1. 0 \in T
      <3>1. i + 0 = i /\ Len(f[i]) \in Nat
        BY <2>0
      <3>2. Begins(f[i], f[i])
        BY <3>1 DEF Begins
      <3>. QED
        BY <3>1, <3>2
    <2>2. ASSUME NEW d \in Nat, d \in T PROVE d + 1 \in T
      <3>. SUFFICES ASSUME i + (d + 1) <= N PROVE Begins(f[i], f[i + (d + 1)])
        OBVIOUS
      <3>1. PICK j, k : j = i + (d + 1) /\ k = i + d
        OBVIOUS
      <3>2. j \in 1 .. N /\ j - 1 = k /\ k \in 0 .. N /\ k <= N
        BY <1>1, <2>0, <3>1
      <3>3. Begins(f[i], f[k])
        BY <2>2, <3>1, <3>2
      <3>4. f[j] = f[k] \o s[j] /\ f[k] \in Seq(Cell) /\ s[j] \in Seq(Cell)
        BY <1>2, <1>6, <3>2
      <3>5. Begins(f[i], f[j])
        BY <2>0, <3>3, <3>4, BeginsJoined
      <3>. QED
        BY <3>1, <3>5
    <2>3. N - i \in Nat /\ i + (N - i) = N /\ N <= N
      BY <1>1
    <2>4. N - i \in T
      <3>. HIDE DEF T
      <3>1. \A n \in Nat : n \in T
        BY <2>1, <2>2, Induction
      <3>. QED
        BY <2>3, <3>1
    <2>. QED
      BY <2>3, <2>4
  <1> DEFINE b == [i \in 0 .. N |-> Len(f[i])]
  <1>10. b \in [0 .. N -> Nat] /\ b[0] = 0
    <2>1. \A x \in Seq(Cell) : Len(x) \in Nat
      OBVIOUS
    <2>2. 0 \in 0 .. N /\ Len(<<>>) = 0
      BY <1>1
    <2>. QED
      BY <1>6, <2>1, <2>2
  <1>11. ASSUME NEW i \in 1 .. N
         PROVE  /\ b[i] = b[i - 1] + Len(Cells(c[i]))
                /\ \A k \in 1 .. Len(Cells(c[i])) : /\ b[i - 1] + k \in DOMAIN Memory(c)
                                                  /\ Memory(c)[b[i - 1] + k] = Cells(c[i])[k]
    <2>1. PICK m, l, x, y : m = Len(f[i - 1]) /\ l = Len(s[i]) /\ x = f[i] /\ y = f[N]
      OBVIOUS
    <2>2. b[i] = Len(x) /\ b[i - 1] = m /\ s[i] = Cells(c[i])
      BY <1>2, <1>7, <2>1
    <2>3. /\ m \in Nat /\ l \in Nat /\ Len(x) = m + l
          /\ \A k \in 1 .. l : x[m + k] = s[i][k]
      BY <1>8, <2>1 DEF Join
    <2>4. Begins(x, y) /\ y \in Seq(Cell)
      <3>1. N \in 0 .. N
        BY <1>1
      <3>. QED
        BY <1>6, <1>7, <1>9, <2>1, <3>1
    <2>5. Len(y) \in Nat /\ DOMAIN y = 1 .. Len(y)
      BY <2>4
    <2>6. ASSUME NEW k \in 1 .. l PROVE m + k \in DOMAIN y /\ y[m + k] = s[i][k]
      <3>1. m + k \in 1 .. Len(x) /\ Len(x) <= Len(y)
        BY <2>3, <2>4 DEF Begins
      <3>2. m + k \in 1 .. Len(y)
        BY <2>3, <2>5, <3>1
      <3>. QED
        BY <2>3, <2>4, <2>5, <3>1, <3>2 DEF Begins
    <2>. HIDE DEF b
    <2>. QED
      BY <1>6, <2>1, <2>2, <2>3, <2>6
  <1>. QED
    <2>. HIDE DEF b
    <2>. QED
      BY <1>10, <1>11 DEF Layout, N

-----------------------------------------------------------------------------
(* attr2json.                                                                *)

(* What a value is in JSON. *)
JsonOf(v, signed) ==
    CASE Is(v, "boolean")   -> [bool |-> v.boolean]
      [] Is(v, "string")    -> [string |-> v.string]
      [] Is(v, "bytearray") ->
            [array |-> [j \in 1 .. Len(v.bytearray) |->
                           [number |-> ItemRead(v.bytearray[j], signed)]]]
      [] OTHER              -> [number |-> Rounded(v[KindOf(v)])]

(* The bytes of a value lie in the memory from q on. *)
LiesAt(mem, q, vs) ==
    \A j \in 1 .. Len(vs) : q + (j - 1) \in DOMAIN mem /\ mem[q + (j - 1)] = vs[j]

Found(value, v, signed, vs) == value = [json |-> JsonOf(v, signed), size |-> Len(vs)]

(* Where a value begins, its JSON value is found, and its length. *)
LEMMA ReadValue ==
    ASSUME NEW mem, NEW q \in Nat, NEW v \in AttrValue, NEW signed \in BOOLEAN,
           NEW vs, vs = ValueCells(v), LiesAt(mem, q, vs), NEW k, k = KindOf(v),
           NEW value, value = ValueAt(mem, q, k, signed)
    PROVE  Found(value, v, signed, vs)
  <1>1. OfKind(v, k) /\ \A x : Is(v, x) <=> x = k
    BY AttrKinds
  <1>2. /\ vs \in Seq(Cell) /\ Len(vs) >= 1
        /\ k \in Scalars => Len(vs) = IntWidth[k] /\ vs[1] = v
        /\ k = "string" => /\ Len(vs) = 2 + TextLength /\ vs[1] = [length |-> TextLength]
                           /\ vs[3] = v
        /\ k = "bytearray" =>
             /\ Len(vs) = 4 + Len(v.bytearray) /\ vs[1] = [length |-> Len(v.bytearray)]
             /\ \A j \in 1 .. Len(v.bytearray) : vs[4 + j] = [item |-> v.bytearray[j]]
    <2>1. Shape(v, k, vs)
      BY ValueShape, Zenon
    <2>. QED
      BY <2>1 DEF Shape
  <1>3. Len(vs) \in Nat /\ Len(vs) >= 1
    BY <1>2
  <1>4. k \in Scalars \/ k = "string" \/ k = "bytearray"
    BY <1>1 DEF OfKind, Kinds
  <1>5. "string" \notin Scalars /\ "bytearray" \notin Scalars /\ "boolean" \in Scalars
        /\ IntWidth["boolean"] = 1
    BY DEF Scalars, IntWidth
  <1>6. q \in DOMAIN mem /\ mem[q] = vs[1]
    <2>1. 1 \in 1 .. Len(vs) /\ q + (1 - 1) = q
      BY <1>3
    <2>2. q + (1 - 1) \in DOMAIN mem /\ mem[q + (1 - 1)] = vs[1]
      BY <2>1 DEF LiesAt
    <2>. QED
      BY <2>1, <2>2
  <1>7. CASE k \in Scalars \ {"boolean"}
    <2>1. k # "string" /\ k # "bytearray" /\ k # "boolean" /\ k \in Scalars
      BY <1>5, <1>7
    <2>2. mem[q] = v /\ Len(vs) = IntWidth[k]
      BY <1>2, <1>6, <2>1
    <2>3. Read(mem, q, k) = v[k]
      BY <1>1, <1>6, <2>2 DEF Read
    <2>4. value = [json |-> [number |-> Rounded(Read(mem, q, k))], size |-> IntWidth[k]]
      BY <2>1 DEF ValueAt
    <2>5. JsonOf(v, signed) = [number |-> Rounded(v[k])]
      BY <1>1, <2>1 DEF JsonOf
    <2>. QED
      BY <2>2, <2>3, <2>4, <2>5 DEF Found
  <1>8. CASE k = "boolean"
    <2>1. mem[q] = v /\ Len(vs) = 1
      BY <1>2, <1>5, <1>6, <1>8
    <2>2. Read(mem, q, "boolean") = v.boolean
      BY <1>1, <1>6, <1>8, <2>1 DEF Read
    <2>3. value = [json |-> [bool |-> Read(mem, q, "boolean")], size |-> 1]
      BY <1>8 DEF ValueAt
    <2>4. JsonOf(v, signed) = [bool |-> v.boolean]
      BY <1>1, <1>8 DEF JsonOf
    <2>. QED
      BY <2>1, <2>2, <2>3, <2>4 DEF Found
  <1>9. CASE k = "string"
    <2>0. /\ Len(vs) = 2 + TextLength /\ vs[1] = [length |-> TextLength] /\ vs[3] = v
          /\ TextLength = 2
      BY <1>2, <1>9 DEF TextLength
    <2>1. Read(mem, q, "length") = TextLength
      BY <1>6, <2>0 DEF Read, Is
    <2>2. q + 2 \in DOMAIN mem /\ mem[q + 2] = v
      <3>1. 3 \in 1 .. Len(vs) /\ q + (3 - 1) = q + 2
        BY <1>3, <2>0
      <3>2. q + (3 - 1) \in DOMAIN mem /\ mem[q + (3 - 1)] = vs[3]
        BY <3>1 DEF LiesAt
      <3>. QED
        BY <2>0, <3>1, <3>2
    <2>3. Read(mem, q + 2, "string") = v.string
      BY <1>1, <1>9, <2>2 DEF Read
    <2>4. value = [json |-> [string |-> Read(mem, q + 2, "string")],
               size |-> 2 + Read(mem, q, "length")]
      BY <1>5, <1>9 DEF ValueAt
    <2>5. JsonOf(v, signed) = [string |-> v.string]
      BY <1>1, <1>9 DEF JsonOf
    <2>. QED
      BY <2>0, <2>1, <2>3, <2>4, <2>5 DEF Found
  <1>10. CASE k = "bytearray"
    <2> DEFINE n == Len(v.bytearray)
               a == [j \in 1 .. n |-> [number |-> ItemRead(v.bytearray[j], signed)]]
               w == [j \in 1 .. n |->
                        [number |-> ItemRead(Read(mem, q + 3 + j, "item"), signed)]]
    <2>0. /\ Len(vs) = 4 + n /\ vs[1] = [length |-> n]
          /\ \A j \in 1 .. n : vs[4 + j] = [item |-> v.bytearray[j]]
      BY <1>2, <1>10
    <2>1. Read(mem, q, "length") = n
      BY <1>6, <2>0 DEF Read, Is
    <2>2. n \in Nat
      <3>1. v.bytearray \in Seq(Byte)
        BY <1>1, <1>10 DEF OfKind
      <3>. QED
        BY <3>1
    <2>3. ASSUME NEW j \in 1 .. n PROVE Read(mem, q + 3 + j, "item") = v.bytearray[j]
      <3>. HIDE DEF n
      <3>1. 4 + j \in 1 .. Len(vs) /\ q + ((4 + j) - 1) = q + 3 + j
        BY <2>0, <2>2
      <3>2. q + ((4 + j) - 1) \in DOMAIN mem /\ mem[q + ((4 + j) - 1)] = vs[4 + j]
        BY <3>1 DEF LiesAt
      <3>3. vs[4 + j] = [item |-> v.bytearray[j]]
        BY <2>0
      <3>. QED
        BY <3>1, <3>2, <3>3 DEF Read, Is
    <2>4. value = [json |-> [array |-> [j \in 1 .. Read(mem, q, "length") |->
                            [number |-> ItemRead(Read(mem, q + 3 + j, "item"), signed)]]],
               size |-> 4 + Read(mem, q, "length")]
      BY <1>5, <1>10 DEF ValueAt
    <2>5. w = a
      BY <2>3
    <2>6. JsonOf(v, signed) = [array |-> a]
      BY <1>1, <1>10 DEF JsonOf
    <2>7. value = [json |-> [array |-> w], size |-> 4 + n]
      BY <2>1, <2>4
    <2>. QED
      BY <2>0, <2>5, <2>6, <2>7 DEF Found
  <1>. QED
    BY <1>4, <1>7, <1>8, <1>9, <1>10

(* From the beginning of an attribute the loop finds its key and its value,  *)
(* and gets to the beginning of the next one.                                *)
LEMMA ReadAttr ==
    ASSUME NEW c \in Seq(AnAttr), NEW b, Layout(c, b), NEW i \in 1 .. Len(c),
           NEW signed \in BOOLEAN, NEW mem, mem = Memory(c), NEW p, p = b[i - 1] + 1,
           NEW type, type = SkipKey(mem, p),
           NEW value, value = ValueAt(mem, type + 1, Read(mem, type, "type"), signed)
    PROVE  /\ Read(mem, p + 2, "key") = c[i].key
           /\ value.json = JsonOf(c[i].value, signed)
           /\ type + 1 + value.size = b[i] + 1
  <1>1. PICK a, cs, vs, m, l : /\ a = c[i] /\ cs = Cells(a) /\ vs = ValueCells(a.value)
                               /\ m = b[i - 1] /\ l = Len(vs)
    OBVIOUS
  <1>2. m \in Nat /\ p = m + 1
    <2>1. Len(c) \in Nat
      OBVIOUS
    <2>2. i - 1 \in 0 .. Len(c)
      BY <2>1
    <2>. QED
      BY <1>1, <2>2 DEF Layout
  <1>3. a \in AnAttr
    BY <1>1
  <1>4. a.value \in AttrValue
    BY <1>3 DEF AnAttr
  <1>5. /\ cs \in Seq(Cell) /\ Len(cs) = 6 + Len(vs) /\ Len(vs) \in Nat
        /\ cs[1] = [length |-> KeyLength] /\ cs[3] = [key |-> a.key]
        /\ cs[6] = [type |-> KindOf(a.value)]
        /\ \A j \in 1 .. Len(vs) : cs[6 + j] = vs[j]
    BY <1>1, <1>3, AttrShape
  <1>6. b[i] = m + (6 + l) /\ \A k \in 1 .. 6 + l : m + k \in DOMAIN mem /\ mem[m + k] = cs[k]
    BY <1>1, <1>5 DEF Layout
  <1>7. l \in Nat /\ 1 \in 1 .. 6 + l /\ 3 \in 1 .. 6 + l /\ 6 \in 1 .. 6 + l
    BY <1>1, <1>5
  <1>8. /\ m + 1 \in DOMAIN mem /\ mem[m + 1] = [length |-> KeyLength]
        /\ m + 3 \in DOMAIN mem /\ mem[m + 3] = [key |-> a.key]
        /\ m + 6 \in DOMAIN mem /\ mem[m + 6] = [type |-> KindOf(a.value)]
    BY <1>5, <1>6, <1>7
  <1>9. type = m + 6
    <2>1. Read(mem, p, "length") = 3
      BY <1>2, <1>8 DEF Read, Is, KeyLength
    <2>. QED
      BY <1>2, <2>1 DEF SkipKey
  <1>10. Read(mem, p + 2, "key") = c[i].key
    <2>1. p + 2 = m + 3
      BY <1>2
    <2>. QED
      BY <1>1, <1>8, <2>1 DEF Read, Is
  <1>11. Read(mem, type, "type") = KindOf(a.value)
    BY <1>8, <1>9 DEF Read, Is
  <1>12. value = [json |-> JsonOf(a.value, signed), size |-> l]
    <2>1. PICK q, v, k : q = type + 1 /\ v = a.value /\ k = KindOf(a.value)
      OBVIOUS
    <2>2. q = m + 7
      BY <1>2, <1>9, <2>1
    <2>3. LiesAt(mem, q, vs)
      <3>1. ASSUME NEW j \in 1 .. l
            PROVE  q + (j - 1) \in DOMAIN mem /\ mem[q + (j - 1)] = vs[j]
        <4>1. q + (j - 1) = m + (6 + j) /\ 6 + j \in 1 .. 6 + l
          BY <1>2, <1>7, <2>2
        <4>. QED
          BY <1>1, <1>5, <1>6, <4>1
      <3>. QED
        BY <1>1, <3>1 DEF LiesAt
    <2>4. /\ v \in AttrValue /\ vs = ValueCells(v) /\ k = KindOf(v)
          /\ value = ValueAt(mem, q, k, signed)
      BY <1>1, <1>4, <1>11, <2>1
    <2>5. q \in Nat
      BY <1>2, <2>2
    <2>6. Found(value, v, signed, vs)
      BY <2>3, <2>4, <2>5, ReadValue, Zenon
    <2>. QED
      BY <1>1, <2>1, <2>6 DEF Found
  <1>13. type + 1 + l = b[i] + 1
    <2>1. PICK e : e = b[i]
      OBVIOUS
    <2>2. e = m + (6 + l) /\ m \in Nat /\ l \in Nat
      BY <1>2, <1>6, <1>7, <2>1
    <2>3. m + 6 + 1 + l = e + 1
      BY <2>2
    <2>. QED
      BY <1>9, <2>1, <2>3
  <1>. QED
    BY <1>1, <1>10, <1>12, <1>13

(* What the container becomes: a member for each attribute, in their order.  *)
JsonRoot(c, n, signed) == [i \in 1 .. n |-> Member(c[i].key, JsonOf(c[i].value, signed))]

(* The walk of attr2json over the bytes finds every attribute of the         *)
(* container where it stands, and makes one member of each.                  *)
LEMMA Walk ==
    ASSUME NEW c \in Seq(AnAttr), NEW signed \in BOOLEAN
    PROVE  Attr2Json(c, signed) = JsonRoot(c, Len(c), signed)
  <1> DEFINE N == Len(c)
             mem == Memory(c)
             Next1(x) ==
                 LET p     == x.p
                     type  == SkipKey(mem, p)
                     value == ValueAt(mem, type + 1, Read(mem, type, "type"), signed)
                 IN  [p |-> type + 1 + value.size,
                      root |-> Append(x.root, Member(Read(mem, p + 2, "key"), value.json))]
             Is1(g) == g = [i \in 0 .. N |-> IF i = 0 THEN [p |-> 1, root |-> <<>>]
                                             ELSE Next1(g[i - 1])]
             after == CHOOSE g : Is1(g)
  <1>1. Attr2Json(c, signed) = after[N].root
    BY DEF Attr2Json
  <1>2. N \in Nat
    OBVIOUS
  <1>3. PICK b : Layout(c, b)
    BY MemoryLayout
  <1> DEFINE At(i) == [p |-> b[i] + 1, root |-> JsonRoot(c, i, signed)]
             f == [i \in 0 .. N |-> At(i)]
  <1>4. ASSUME NEW i \in 1 .. N PROVE Next1(At(i - 1)) = At(i)
    <2>1. PICK p, type, value, x : /\ p = b[i - 1] + 1 /\ type = SkipKey(mem, p)
                                   /\ value = ValueAt(mem, type + 1, Read(mem, type, "type"), signed)
                                   /\ x = JsonRoot(c, i - 1, signed)
      OBVIOUS
    <2>2. /\ Read(mem, p + 2, "key") = c[i].key
          /\ value.json = JsonOf(c[i].value, signed)
          /\ type + 1 + value.size = b[i] + 1
      <3>1. PICK m : m = mem
        OBVIOUS
      <3>. HIDE DEF mem
      <3>2. /\ m = Memory(c) /\ type = SkipKey(m, p)
            /\ value = ValueAt(m, type + 1, Read(m, type, "type"), signed)
        BY <2>1, <3>1 DEF mem
      <3>. QED
        BY <1>3, <2>1, <3>1, <3>2, ReadAttr
    <2>3. Append(x, Member(c[i].key, JsonOf(c[i].value, signed))) = JsonRoot(c, i, signed)
      <3> DEFINE M(j) == Member(c[j].key, JsonOf(c[j].value, signed))
                 S == {M(j) : j \in 1 .. N}
      <3>1. x = [j \in 1 .. i - 1 |-> M(j)] /\ JsonRoot(c, i, signed) = [j \in 1 .. i |-> M(j)]
        BY <2>1 DEF JsonRoot
      <3>. HIDE DEF M
      <3>2. i - 1 \in Nat /\ \A j \in 1 .. i : j \in 1 .. N
        BY <1>2
      <3>3. x \in Seq(S) /\ Len(x) = i - 1 /\ M(i) \in S
        BY <3>1, <3>2
      <3>4. Append(x, M(i)) = [j \in 1 .. i |-> M(j)]
        <4>1. PICK t : t = Append(x, M(i))
          OBVIOUS
        <4>2. /\ t \in Seq(S) /\ Len(t) = (i - 1) + 1 /\ t[(i - 1) + 1] = M(i)
              /\ \A j \in DOMAIN x : t[j] = x[j]
          BY <3>3, <4>1, AddedLast
        <4>3. (i - 1) + 1 = i /\ DOMAIN x = 1 .. i - 1 /\ \A j \in 1 .. i : j = i \/ j \in 1 .. i - 1
          BY <1>2, <3>1
        <4>4. \A j \in 1 .. i : t[j] = M(j)
          BY <3>1, <4>2, <4>3
        <4>5. t = [j \in 1 .. Len(t) |-> t[j]]
          BY <4>2
        <4>. QED
          BY <4>1, <4>2, <4>3, <4>4, <4>5
      <3>. QED
        BY <3>1, <3>4 DEF M
    <2>4. At(i - 1).p = p /\ At(i - 1).root = x
      BY <2>1
    <2>. HIDE DEF mem, At
    <2>5. Next1(At(i - 1)) = [p |-> b[i] + 1, root |-> JsonRoot(c, i, signed)]
      BY <2>1, <2>2, <2>3, <2>4
    <2>. QED
      BY <2>5 DEF At
  <1>5. At(0) = [p |-> 1, root |-> <<>>]
    BY <1>3 DEF Layout, JsonRoot
  <1>6. Is1(f)
    <2>. HIDE DEF Next1, At, N
    <2>1. ASSUME NEW i \in 0 .. N
          PROVE  f[i] = IF i = 0 THEN [p |-> 1, root |-> <<>>] ELSE Next1(f[i - 1])
      <3>1. CASE i = 0
        BY <1>5, <3>1
      <3>2. CASE i # 0
        <4>1. i \in 1 .. N /\ i - 1 \in 0 .. N
          BY <1>2, <3>2
        <4>. QED
          BY <1>4, <3>2, <4>1
      <3>. QED
        BY <3>1, <3>2
    <2>. QED
      BY <2>1
  <1>7. Is1(after)
    <2>. HIDE DEF Is1
    <2>. QED
      BY <1>6
  <1>. HIDE DEF after
  <1>8. after[0] = At(0) /\ \A i \in 1 .. N : after[i] = Next1(after[i - 1])
    <2>. HIDE DEF Next1, N, At
    <2>. QED
      BY <1>2, <1>5, <1>7
  <1>. HIDE DEF Next1, At, N
  <1> DEFINE T == {n \in Nat : n <= N => after[n] = At(n)}
  <1>9. 0 \in T
    BY <1>8
  <1>10. ASSUME NEW n \in Nat, n \in T PROVE n + 1 \in T
    <2>. SUFFICES ASSUME n + 1 <= N PROVE after[n + 1] = At(n + 1)
      OBVIOUS
    <2>1. PICK m : m = n + 1
      OBVIOUS
    <2>2. m \in 1 .. N /\ m - 1 = n /\ n <= N
      BY <1>2, <2>1
    <2>3. after[m] = Next1(after[m - 1]) /\ Next1(At(m - 1)) = At(m)
      BY <1>4, <1>8, <2>2
    <2>4. after[n] = At(n)
      BY <1>10, <2>2
    <2>. QED
      BY <2>1, <2>2, <2>3, <2>4
  <1>11. N \in T
    <2>. HIDE DEF T
    <2>1. \A n \in Nat : n \in T
      BY <1>9, <1>10, Induction
    <2>. QED
      BY <1>2, <2>1
  <1>12. after[N] = At(N)
    BY <1>2, <1>11
  <1>. QED
    BY <1>1, <1>12 DEF At, N

-----------------------------------------------------------------------------
(* json2attr.                                                                *)

JsonItem == JsonPlain \cup [array : {<<>>}]

(* What a JSON value of a kind holds. *)
OfJson(v, k) ==
    /\ k \in {"number", "bool", "string", "array", "object", "null"} /\ DOMAIN v = {k}
    /\ k = "number" => v.number \in Doubles \cup {NotFinite}
    /\ k = "bool" => v.bool \in BOOLEAN
    /\ k = "string" => v.string \in Texts /\ v = [string |-> v.string]
    /\ k = "array" => v.array \in Seq(JsonItem) /\ v = [array |-> v.array]

(* Every JSON value is of one of the kinds. *)
LEMMA JsonKinds ==
    ASSUME NEW v \in JsonValue
    PROVE  \E k : OfJson(v, k)
  <1>1. CASE v \in [number : Doubles]
    <2>1. DOMAIN v = {"number"} /\ v.number \in Doubles
      BY <1>1
    <2>. QED
      BY <2>1 DEF OfJson
  <1>7. CASE v \in [number : {NotFinite}]
    <2>1. DOMAIN v = {"number"} /\ v.number = NotFinite
      BY <1>7
    <2>. QED
      BY <2>1 DEF OfJson
  <1>2. CASE v \in [bool : BOOLEAN]
    BY <1>2 DEF OfJson
  <1>3. CASE v \in [string : Texts]
    BY <1>3 DEF OfJson
  <1>4. CASE v \in [object : {<<>>}]
    BY <1>4 DEF OfJson
  <1>5. CASE v = null
    BY <1>5 DEF OfJson, null
  <1>6. CASE v \in [array : Seq(JsonItem)]
    BY <1>6 DEF OfJson
  <1>. QED
    BY <1>1, <1>2, <1>3, <1>4, <1>5, <1>6, <1>7 DEF JsonValue, JsonPlain, JsonItem

(* The items before the first that is no number. *)
LEMMA Leading ==
    ASSUME NEW S, NEW items \in Seq(S), NEW b, b = LeadingNumbers(items)
    PROVE  \E n \in 0 .. Len(items) :
              /\ b \in Seq(S) /\ Len(b) = n
              /\ \A i \in 1 .. n : b[i] = items[i] /\ IsNumber(b[i])
              /\ n = Len(items) \/ ~IsNumber(items[n + 1])
  <1> DEFINE N == Len(items)
             Stops(n) == /\ \A i \in 1 .. n : IsNumber(items[i])
                         /\ n = N \/ ~IsNumber(items[n + 1])
             T == {n \in Nat : n = N \/ (n < N /\ ~IsNumber(items[n + 1]))}
             n == CHOOSE m \in 0 .. N : Stops(m)
  <1>1. N \in Nat
    OBVIOUS
  <1>. HIDE DEF N
  <1>2. \E m \in 0 .. N : Stops(m)
    <2>1. N \in T
      BY <1>1
    <2>2. PICK x \in T : \A y \in T : x <= y
      <3>. HIDE DEF T
      <3>1. T \in SUBSET Nat
        BY DEF T
      <3>. QED
        BY <2>1, <3>1, LeastNumber
    <2>3. x \in Nat /\ x <= N
      BY <1>1, <2>1, <2>2
    <2>4. ASSUME NEW i \in 1 .. x PROVE IsNumber(items[i])
      <3>1. i - 1 \in Nat /\ i - 1 < N /\ ~(x <= i - 1) /\ (i - 1) + 1 = i
        BY <1>1, <2>3
      <3>2. i - 1 \notin T
        BY <2>2, <3>1
      <3>. QED
        BY <3>1, <3>2
    <2>. QED
      BY <1>1, <2>2, <2>3, <2>4
  <1>3. n \in 0 .. N /\ Stops(n)
    <2>. HIDE DEF Stops
    <2>. QED
      BY <1>2
  <1>4. b = SubSeq(items, 1, n)
    BY DEF LeadingNumbers, N
  <1>. HIDE DEF n
  <1>5. b \in Seq(S) /\ Len(b) = n /\ \A i \in 1 .. n : b[i] = items[i]
    <2>1. n \in Nat /\ n <= Len(items)
      BY <1>1, <1>3 DEF N
    <2>. QED
      BY <1>4, <2>1
  <1>. QED
    BY <1>3, <1>5 DEF N

(* What json2attr makes of a value is a value a module can be handed, or     *)
(* nothing at all.                                                           *)
LEMMA AttrMade ==
    ASSUME NEW v \in JsonValue
    PROVE  /\ AttrOf(v) \in HandedValue \/ AttrOf(v) = Nothing
           /\ IsNumber(v) => AttrOf(v) = [double |-> v.number] /\ v.number \in Doubles \cup {NotFinite}
           /\ Is(v, "bool") => AttrOf(v) = [boolean |-> v.bool] /\ v.bool \in BOOLEAN
           /\ Is(v, "string") => AttrOf(v) = v /\ v = [string |-> v.string] /\ v.string \in Texts
           /\ Is(v, "array") => v.array \in Seq(JsonItem)
  <1>1. PICK k : OfJson(v, k)
    BY JsonKinds
  <1>2. DOMAIN v = {k} /\ \A x : Is(v, x) <=> x = k
    BY <1>1 DEF OfJson, Is
  <1>3. CASE k = "number"
    <2>1. AttrOf(v) = [double |-> v.number]
      BY <1>2, <1>3 DEF AttrOf, IsNumber
    <2>. QED
      BY <1>1, <1>2, <1>3, <2>1 DEF OfJson, IsNumber, HandedValue
  <1>4. CASE k = "bool"
    <2>1. AttrOf(v) = [boolean |-> v.bool]
      BY <1>2, <1>4 DEF AttrOf, IsNumber
    <2>. QED
      BY <1>1, <1>2, <1>4, <2>1 DEF OfJson, IsNumber, HandedValue
  <1>5. CASE k = "string"
    <2>1. AttrOf(v) = v
      BY <1>2, <1>5 DEF AttrOf, IsNumber
    <2>. QED
      BY <1>1, <1>2, <1>5, <2>1 DEF OfJson, IsNumber, HandedValue
  <1>6. CASE k = "array"
    <2> DEFINE bytes == LeadingNumbers(v.array)
               ints  == [i \in DOMAIN bytes |-> ToInt8(bytes[i].number)]
    <2>1. AttrOf(v) = IF bytes = <<>> THEN Nothing ELSE [bytearray |-> ints]
      BY <1>2, <1>6 DEF AttrOf, IsNumber
    <2>2. v.array \in Seq(JsonItem)
      BY <1>1, <1>6 DEF OfJson
    <2>3. ASSUME bytes # <<>> PROVE [bytearray |-> ints] \in HandedValue
      <3>1. PICK n \in 0 .. Len(v.array) :
                    /\ bytes \in Seq(JsonItem) /\ Len(bytes) = n
                    /\ \A i \in 1 .. n : bytes[i] = v.array[i] /\ IsNumber(bytes[i])
        BY <2>2, Leading
      <3>. HIDE DEF bytes
      <3>2. n # 0 /\ DOMAIN bytes = 1 .. n /\ n \in Nat
        BY <2>3, <3>1
      <3>3. ASSUME NEW i \in 1 .. n PROVE ints[i] \in Byte
        <4>1. bytes[i] \in JsonItem /\ "number" \in DOMAIN bytes[i]
          BY <3>1, <3>2 DEF IsNumber, Is
        <4>2. bytes[i].number \in Int
          <5>1. Doubles \subseteq Int
            BY PayloadAssumption
          <5>2. bytes[i] \in [number : Doubles]
            BY <4>1 DEF JsonItem, JsonPlain, null
          <5>. QED
            BY <5>1, <5>2
        <4>. QED
          BY <3>2, <4>2, ByteMade
      <3>4. ints \in Seq(Byte) /\ ints # <<>>
        <4>1. ints = [i \in 1 .. n |-> ints[i]]
          BY <3>2
        <4>2. \A i \in 1 .. n : ints[i] \in Byte
          BY <3>3
        <4>. HIDE DEF ints
        <4>3. ints \in [1 .. n -> Byte]
          BY <4>1, <4>2
        <4>4. ints \in Seq(Byte) /\ Len(ints) = n
          BY <3>2, <4>3
        <4>. QED
          BY <3>2, <4>4
      <3>. HIDE DEF ints
      <3>. QED
        BY <3>4 DEF HandedValue
    <2>. HIDE DEF bytes, ints
    <2>4. AttrOf(v) \in HandedValue \/ AttrOf(v) = Nothing
      BY <2>1, <2>3
    <2>. QED
      BY <1>2, <1>6, <2>2, <2>4 DEF IsNumber
  <1>7. CASE k = "object" \/ k = "null"
    <2>1. AttrOf(v) = Nothing
      BY <1>2, <1>7 DEF AttrOf, IsNumber
    <2>. QED
      BY <1>2, <1>7, <2>1 DEF IsNumber
  <1>. QED
    BY <1>1, <1>3, <1>4, <1>5, <1>6, <1>7 DEF OfJson

(* Nothing is no value. *)
LEMMA NothingApart ==
    /\ Nothing \notin HandedValue /\ HandedValue \subseteq AttrValue
    /\ Nothing \notin AttrValue
  BY DEF Nothing, HandedValue, AttrValue, Integral, Floating

(* A container without an attribute of a key keeps its others. *)
LEMMA WithoutKey ==
    ASSUME NEW c \in Handed, NEW key, NEW t, t = Without(c, key)
    PROVE  t \in Handed /\ Attrs(t) = {a \in Attrs(c) : a.key # key}
  <1>0. c \in Seq(HandedAttr) /\ DistinctKeys(c)
    BY DEF Handed
  <1>1. CASE ~\E i \in DOMAIN c : c[i].key = key
    BY <1>1 DEF Without, Attrs
  <1>2. CASE \E i \in DOMAIN c : c[i].key = key
    <2> DEFINE p == CHOOSE i \in DOMAIN c : c[i].key = key
    <2>1. p \in DOMAIN c /\ c[p].key = key
      BY <1>2
    <2>2. t = RemoveAt(c, p)
      BY <1>2 DEF Without
    <2>. HIDE DEF p
    <2>3. t \in Seq(HandedAttr) /\ \E o : Renumbering(o, c, p, t)
      BY <1>0, <2>1, <2>2, Remaining
    <2>4. PICK o : /\ \A i \in DOMAIN t : o[i] \in DOMAIN c /\ o[i] # p /\ t[i] = c[o[i]]
                   /\ \A i, j \in DOMAIN t : o[i] = o[j] => i = j
                   /\ \A i \in DOMAIN c : i # p => \E j \in DOMAIN t : o[j] = i
      BY <2>3 DEF Renumbering
    <2>5. DistinctKeys(t)
      BY <1>0, <2>4 DEF DistinctKeys
    <2>6. \A i \in DOMAIN c : c[i].key = key => i = p
      BY <1>0, <2>1 DEF DistinctKeys
    <2>7. ASSUME NEW a \in Attrs(t) PROVE a \in Attrs(c) /\ a.key # key
      <3>1. PICK i \in DOMAIN t : a = t[i]
        BY DEF Attrs
      <3>. QED
        BY <2>4, <2>6, <3>1 DEF Attrs
    <2>8. ASSUME NEW a \in Attrs(c), a.key # key PROVE a \in Attrs(t)
      <3>1. PICK i \in DOMAIN c : a = c[i]
        BY DEF Attrs
      <3>2. PICK j \in DOMAIN t : o[j] = i
        BY <2>1, <2>4, <2>8, <3>1
      <3>. QED
        BY <2>4, <3>1, <3>2 DEF Attrs
    <2>. QED
      BY <2>3, <2>5, <2>7, <2>8 DEF Handed
  <1>. QED
    BY <1>1, <1>2

(* Setting an attribute replaces the one of its key; there is nothing to set *)
(* where nothing was made of a value.                                        *)
LEMMA SetsAttr ==
    ASSUME NEW c \in Handed, NEW a, a.key \in Keys, a = Member(a.key, a.value),
           a.value \in HandedValue \/ a.value = Nothing, NEW t, t = SetAttr(c, a)
    PROVE  /\ t \in Handed
           /\ a.value = Nothing => Attrs(t) = Attrs(c)
           /\ a.value # Nothing => Attrs(t) = {b \in Attrs(c) : b.key # a.key} \cup {a}
  <1>1. CASE a.value = Nothing
    BY <1>1 DEF SetAttr
  <1>2. CASE a.value # Nothing
    <2>1. PICK u : u = Without(c, a.key)
      OBVIOUS
    <2>2. u \in Handed /\ Attrs(u) = {b \in Attrs(c) : b.key # a.key}
      BY <2>1, WithoutKey
    <2>3. a \in HandedAttr /\ t = Append(u, a)
      BY <1>2, <2>1 DEF SetAttr, Member, HandedAttr
    <2>4. u \in Seq(HandedAttr) /\ DistinctKeys(u)
      BY <2>2 DEF Handed
    <2>5. /\ t \in Seq(HandedAttr) /\ Len(u) \in Nat /\ DOMAIN u = 1 .. Len(u)
          /\ DOMAIN t = DOMAIN u \cup {Len(u) + 1}
          /\ t[Len(u) + 1] = a /\ \A i \in DOMAIN u : t[i] = u[i]
      BY <2>3, <2>4, AddedLast
    <2>6. \A i \in DOMAIN u : u[i].key # a.key
      BY <2>2 DEF Attrs
    <2>7. DistinctKeys(t)
      BY <2>4, <2>5, <2>6 DEF DistinctKeys
    <2>8. Attrs(t) = Attrs(u) \cup {a}
      BY <2>5 DEF Attrs
    <2>. QED
      BY <1>2, <2>2, <2>5, <2>7, <2>8 DEF Handed
  <1>. QED
    BY <1>1, <1>2

(* The attribute json2attr makes of a member, the members that are not       *)
(* replaced by a later one, and what is in the container after n members.    *)
Made(m)        == Member(m.key, AttrOf(m.value))
Lasts(root, n) == {i \in 1 .. n :
                     /\ Made(root[i]).value # Nothing
                     /\ \A j \in 1 .. n : j > i /\ root[j].key = root[i].key =>
                                             Made(root[j]).value = Nothing}
Kept(root, n)  == {Made(root[i]) : i \in Lasts(root, n)}

(* Of one more member nothing is made, ... *)
LEMMA KeptAsIs ==
    ASSUME NEW root \in Root, NEW n \in Nat, Made(root[n + 1]).value = Nothing
    PROVE  Kept(root, n + 1) = Kept(root, n)
  <1>1. 1 .. n + 1 = (1 .. n) \cup {n + 1}
    OBVIOUS
  <1>2. \A i : i \in Lasts(root, n + 1) <=> i \in Lasts(root, n)
    BY <1>1 DEF Lasts
  <1>. QED
    BY <1>2 DEF Kept

(* ... or it replaces the one of its key. *)
LEMMA KeptReplaced ==
    ASSUME NEW root \in Root, NEW n \in Nat, NEW a, a = Made(root[n + 1]), a.value # Nothing
    PROVE  Kept(root, n + 1) = {b \in Kept(root, n) : b.key # a.key} \cup {a}
  <1>1. 1 .. n + 1 = (1 .. n) \cup {n + 1} /\ n + 1 \notin 1 .. n
    OBVIOUS
  <1>2. a.key = root[n + 1].key /\ \A i : Made(root[i]).key = root[i].key
    BY DEF Made, Member
  <1>3. n + 1 \in Lasts(root, n + 1)
    BY <1>1 DEF Lasts
  <1>4. ASSUME NEW i \in 1 .. n
        PROVE  i \in Lasts(root, n + 1) <=> i \in Lasts(root, n) /\ root[i].key # a.key
    <2>1. i \in Nat /\ n + 1 > i
      OBVIOUS
    <2>. QED
      BY <1>1, <1>2, <2>1 DEF Lasts
  <1>5. ASSUME NEW b \in Kept(root, n + 1), b # a
        PROVE  b \in Kept(root, n) /\ b.key # a.key
    <2>1. PICK i \in Lasts(root, n + 1) : b = Made(root[i])
      BY DEF Kept
    <2>2. i \in 1 .. n
      BY <1>1, <1>5, <2>1 DEF Lasts
    <2>3. i \in Lasts(root, n) /\ root[i].key # a.key
      BY <1>4, <2>1, <2>2
    <2>. QED
      BY <1>2, <2>1, <2>3 DEF Kept
  <1>6. ASSUME NEW b \in Kept(root, n), b.key # a.key
        PROVE  b \in Kept(root, n + 1)
    <2>1. PICK i \in Lasts(root, n) : b = Made(root[i])
      BY DEF Kept
    <2>2. i \in 1 .. n /\ root[i].key # a.key
      BY <1>2, <1>6, <2>1 DEF Lasts
    <2>3. i \in Lasts(root, n + 1)
      BY <1>4, <2>1, <2>2
    <2>. QED
      BY <2>1, <2>3 DEF Kept
  <1>7. a \in Kept(root, n + 1)
    BY <1>3 DEF Kept
  <1>. QED
    BY <1>5, <1>6, <1>7

(* json2attr makes a container of the members that are not replaced. *)
LEMMA Json2AttrIs ==
    ASSUME NEW root \in Root, NEW d, d = Json2Attr(root)
    PROVE  d \in Handed /\ Attrs(d) = Kept(root, Len(root))
  <1> DEFINE N == Len(root)
             step == [i \in 1 .. N |-> [c \in Handed |-> SetAttr(c, Made(root[i]))]]
             Is1(f) == f = [i \in 0 .. N |->
                              IF i = 0 THEN <<>>
                              ELSE SetAttr(f[i - 1], Member(root[i].key, AttrOf(root[i].value)))]
             after == CHOOSE f : Is1(f)
  <1>1. d = after[N]
    BY DEF Json2Attr
  <1>2. N \in Nat
    BY DEF Root
  <1>3. ASSUME NEW i \in 1 .. N
        PROVE  /\ Made(root[i]).key \in Keys
               /\ Made(root[i]) = Member(Made(root[i]).key, Made(root[i]).value)
               /\ Made(root[i]).value \in HandedValue \/ Made(root[i]).value = Nothing
    <2>0. PICK M : M = [key : Keys, value : JsonValue]
      OBVIOUS
    <2>1. root[i] \in M
      <3>1. root \in Seq(M)
        BY <2>0 DEF Root
      <3>. QED
        BY <3>1
    <2>2. root[i].key \in Keys /\ root[i].value \in JsonValue
      BY <2>0, <2>1
    <2>. QED
      BY <2>2, AttrMade DEF Made, Member
  <1>4. ASSUME NEW i \in 1 .. N, NEW c \in Handed PROVE SetAttr(c, Made(root[i])) \in Handed
    <2>1. PICK a : a = Made(root[i])
      OBVIOUS
    <2>. QED
      BY <1>3, <2>1, SetsAttr
  <1>5. step \in [1 .. N -> [Handed -> Handed]]
    <2>. HIDE DEF N
    <2>1. \A i \in 1 .. N :
             [c \in Handed |-> SetAttr(c, Made(root[i]))] \in [Handed -> Handed]
      BY <1>4
    <2>. QED
      BY <2>1
  <1>6. <<>> \in Handed
    BY DEF Handed, DistinctKeys
  <1>7. PICK f : Iteration(f, N, Handed, <<>>, step)
    <2>. HIDE DEF step, N
    <2>. QED
      BY <1>2, <1>5, <1>6, Iterate, Zenon
  <1>8. Is1(f)
    <2>. HIDE DEF N
    <2>1. /\ f \in [0 .. N -> Handed] /\ f[0] = <<>>
          /\ \A i \in 1 .. N : f[i] = step[i][f[i - 1]]
      <3>. HIDE DEF step
      <3>. QED
        BY <1>7 DEF Iteration
    <2>2. ASSUME NEW i \in 1 .. N
          PROVE  f[i] = SetAttr(f[i - 1], Member(root[i].key, AttrOf(root[i].value)))
      <3>1. i - 1 \in 0 .. N
        BY <1>2
      <3>2. f[i - 1] \in Handed
        BY <2>1, <3>1
      <3>3. step[i][f[i - 1]] = SetAttr(f[i - 1], Made(root[i]))
        BY <3>2
      <3>. QED
        BY <2>1, <3>3 DEF Made
    <2>. HIDE DEF step
    <2>3. \A i \in 0 .. N : i = 0 \/ i \in 1 .. N
      BY <1>2
    <2>. QED
      BY <2>1, <2>2, <2>3
  <1>9. Is1(after)
    <2>. HIDE DEF Is1
    <2>. QED
      BY <1>8
  <1>. HIDE DEF after
  <1>10. after[0] = <<>> /\ \A i \in 1 .. N : after[i] = SetAttr(after[i - 1], Made(root[i]))
    <2>. HIDE DEF N
    <2>. QED
      BY <1>2, <1>9 DEF Made
  <1>. HIDE DEF N
  <1> DEFINE T == {n \in Nat : n <= N => after[n] \in Handed /\ Attrs(after[n]) = Kept(root, n)}
  <1>11. 0 \in T
    <2>1. Attrs(<<>>) = {} /\ Kept(root, 0) = {}
      BY DEF Attrs, Kept, Lasts
    <2>. QED
      BY <1>6, <1>10, <2>1
  <1>12. ASSUME NEW n \in Nat, n \in T PROVE n + 1 \in T
    <2>. SUFFICES ASSUME n + 1 <= N
                  PROVE  after[n + 1] \in Handed /\ Attrs(after[n + 1]) = Kept(root, n + 1)
      OBVIOUS
    <2>1. n + 1 \in 1 .. N /\ (n + 1) - 1 = n /\ n <= N
      BY <1>2
    <2>2. PICK a, c, t : a = Made(root[n + 1]) /\ c = after[n] /\ t = after[n + 1]
      OBVIOUS
    <2>3. c \in Handed /\ Attrs(c) = Kept(root, n)
      BY <1>12, <2>1, <2>2
    <2>4. t = SetAttr(c, a)
      BY <1>10, <2>1, <2>2
    <2>5. a.key \in Keys /\ a = Member(a.key, a.value)
          /\ (a.value \in HandedValue \/ a.value = Nothing)
      BY <1>3, <2>1, <2>2
    <2>6. /\ t \in Handed
          /\ a.value = Nothing => Attrs(t) = Attrs(c)
          /\ a.value # Nothing => Attrs(t) = {b \in Attrs(c) : b.key # a.key} \cup {a}
      BY <2>3, <2>4, <2>5, SetsAttr
    <2>7. /\ a.value = Nothing => Kept(root, n + 1) = Kept(root, n)
          /\ a.value # Nothing =>
                Kept(root, n + 1) = {b \in Kept(root, n) : b.key # a.key} \cup {a}
      BY <2>2, KeptAsIs, KeptReplaced
    <2>. QED
      BY <2>2, <2>3, <2>6, <2>7
  <1>13. N \in T
    <2>. HIDE DEF T
    <2>1. \A n \in Nat : n \in T
      BY <1>11, <1>12, Induction
    <2>. QED
      BY <1>2, <2>1
  <1>. QED
    BY <1>1, <1>2, <1>13 DEF N

(* Where no two members have one key, there is an attribute for each member  *)
(* of which one is made.                                                     *)
LEMMA KeptDistinct ==
    ASSUME NEW root \in Root, DistinctKeys(root)
    PROVE  Kept(root, Len(root)) =
              {Made(root[i]) : i \in {j \in DOMAIN root : Made(root[j]).value # Nothing}}
  <1>1. DOMAIN root = 1 .. Len(root) /\ \A i \in 1 .. Len(root) : i \in Nat
    BY DEF Root
  <1>2. Lasts(root, Len(root)) = {j \in DOMAIN root : Made(root[j]).value # Nothing}
    BY <1>1 DEF Lasts, DistinctKeys
  <1>. QED
    BY <1>2 DEF Kept

-----------------------------------------------------------------------------
(* From module to module.                                                    *)

(* What a value is in the text that is published. *)
HandOver(v, signed) ==
    LET json == JsonOf(v, signed)
    IN  IF json = [number |-> NotFinite] THEN null ELSE json

(* What the text of a value is parsed and made of, where json2attr does not  *)
(* give up on it.                                                            *)
HandsOver(v, w) ==
    /\ w \in JsonValue
    /\ Is(w, "string") <=> Is(v, "string")
    /\ Is(v, "string") => w = v
    /\ ~Fails(w) => /\ IsFinite(v) => AttrOf(w) # Nothing /\ Same(v, AttrOf(w))
                    /\ ~IsFinite(v) => AttrOf(w) = Nothing
                    /\ v \in HandedValue /\ IsFinite(v) => AttrOf(w) = v

(* A number that is not finite becomes null, every other one the double next *)
(* to it; ...                                                                *)
LEMMA NumberOver ==
    ASSUME NEW v \in AttrValue, NEW signed \in BOOLEAN, NEW k, k = KindOf(v),
           k \in Scalars \ {"boolean"}
    PROVE  HandsOver(v, HandOver(v, signed))
  <1>1. OfKind(v, k) /\ \A x : Is(v, x) <=> x = k
    BY AttrKinds
  <1>2. "string" \notin Scalars /\ "bytearray" \notin Scalars
    BY DEF Scalars, IntWidth
  <1>3. k # "string" /\ k # "bytearray" /\ k # "boolean" /\ DOMAIN v = {k}
    BY <1>1, <1>2 DEF OfKind
  <1>4. JsonOf(v, signed) = [number |-> Rounded(v[k])]
    BY <1>1, <1>3 DEF JsonOf
  <1>5. v[k] \in Int \/ (v[k] = NotFinite /\ k \in {"float", "double"})
    BY <1>1, <1>3, PayloadAssumption DEF OfKind
  <1>6. CASE v[k] \in Int
    <2>1. PICK n : n = Rounded(v[k])
      OBVIOUS
    <2>2. n \in Doubles /\ n \in Int /\ v[k] # NotFinite /\ n # NotFinite
      BY <1>6, <2>1, RoundedNear, PayloadAssumption
    <2>3. HandOver(v, signed) = [number |-> n]
      BY <1>4, <2>1, <2>2 DEF HandOver
    <2>4. [number |-> n] \in JsonValue
      BY <2>2 DEF JsonValue, JsonPlain
    <2>5. PICK w : w = [number |-> n]
      OBVIOUS
    <2>6. Is(w, "number") /\ ~Is(w, "string") /\ AttrOf(w) = [double |-> n]
      BY <2>5 DEF Is, IsNumber, AttrOf
    <2>7. Same(v, [double |-> n])
      <3>1. n = v[k] \/ Nearest(v[k], n)
        BY <1>6, <2>1, RoundedNear
      <3>2. Content(v) = v[k] /\ KindOf(v) \in Scalars \ {"boolean"}
        BY DEF Content
      <3>3. Is([double |-> n], "double") /\ [double |-> n].double = n
        BY DEF Is
      <3>. QED
        BY <3>1, <3>2, <3>3 DEF Same
    <2>8. [double |-> n] # Nothing
      BY DEF Nothing
    <2>9. v \in HandedValue => v = [double |-> n]
      <3>. SUFFICES ASSUME v \in HandedValue PROVE v = [double |-> n]
        OBVIOUS
      <3>1. v \in [double : Doubles \cup {NotFinite}]
        BY <1>3 DEF HandedValue
      <3>2. k = "double" /\ v = [double |-> v.double] /\ v.double \in Doubles \cup {NotFinite}
        BY <1>3, <3>1
      <3>. QED
        BY <2>1, <3>2 DEF Rounded
    <2>10. HandsOver(v, w)
      BY <1>1, <1>3, <2>2, <2>4, <2>5, <2>6, <2>7, <2>8, <2>9 DEF HandsOver, IsFinite, Content
    <2>. QED
      BY <2>3, <2>5, <2>10
  <1>7. CASE v[k] = NotFinite /\ k \in {"float", "double"}
    <2>1. Rounded(v[k]) = NotFinite
      BY <1>7 DEF Rounded
    <2>2. HandOver(v, signed) = null
      BY <1>4, <2>1 DEF HandOver
    <2>3. null \in JsonValue
      BY DEF JsonValue, JsonPlain
    <2>4. ~Is(null, "string") /\ AttrOf(null) = Nothing
      BY DEF Is, IsNumber, AttrOf, null
    <2>5. ~IsFinite(v)
      BY <1>7 DEF IsFinite, Content
    <2>6. HandsOver(v, null)
      BY <1>1, <1>3, <2>3, <2>4, <2>5 DEF HandsOver
    <2>. QED
      BY <2>2, <2>6
  <1>. QED
    BY <1>5, <1>6, <1>7

(* ... bytes come back whatever the sign of char; ... *)
LEMMA BytesOver ==
    ASSUME NEW v \in AttrValue, NEW signed \in BOOLEAN, KindOf(v) = "bytearray"
    PROVE  HandsOver(v, HandOver(v, signed))
  <1> DEFINE a == v.bytearray
             N == Len(a)
             items == [j \in 1 .. N |-> [number |-> ItemRead(a[j], signed)]]
             w == [array |-> items]
  <1>1. OfKind(v, "bytearray") /\ \A x : Is(v, x) <=> x = "bytearray"
    BY AttrKinds
  <1>2. a \in Seq(Byte) /\ v = [bytearray |-> a]
    BY <1>1 DEF OfKind
  <1>3. N \in Nat /\ a = [j \in 1 .. N |-> a[j]] /\ \A j \in 1 .. N : a[j] \in Byte
    BY <1>2
  <1>4. JsonOf(v, signed) = w
    BY <1>1 DEF JsonOf
  <1>5. HandOver(v, signed) = w
    <2>1. w # [number |-> NotFinite]
      OBVIOUS
    <2>. HIDE DEF w
    <2>. QED
      BY <1>4, <2>1 DEF HandOver
  <1>. HIDE DEF N, a
  <1>6. \A j \in 1 .. N : [number |-> ItemRead(a[j], signed)] \in JsonItem
    BY <1>3, ByteBack DEF JsonItem, JsonPlain
  <1>7. items \in Seq(JsonItem) /\ Len(items) = N
    BY <1>3, <1>6
  <1>8. \A j \in 1 .. N : items[j].number = ItemRead(a[j], signed) /\ IsNumber(items[j])
    BY DEF IsNumber, Is
  <1>. HIDE DEF items
  <1>9. w \in JsonValue
    BY <1>7 DEF JsonValue, JsonItem
  <1>10. PICK b : b = LeadingNumbers(items)
    OBVIOUS
  <1>11. b \in Seq(JsonItem) /\ Len(b) = N /\ \A i \in 1 .. N : b[i] = items[i]
    <2>1. PICK n \in 0 .. Len(items) :
                  /\ b \in Seq(JsonItem) /\ Len(b) = n
                  /\ \A i \in 1 .. n : b[i] = items[i] /\ IsNumber(b[i])
                  /\ n = Len(items) \/ ~IsNumber(items[n + 1])
      BY <1>7, <1>10, Leading
    <2>2. n = N
      <3>1. n # N => n + 1 \in 1 .. N
        BY <1>3, <1>7, <2>1
      <3>. QED
        BY <1>7, <1>8, <2>1, <3>1
    <2>. QED
      BY <2>1, <2>2
  <1>12. AttrOf(w) = IF b = <<>> THEN Nothing
                     ELSE [bytearray |-> [i \in DOMAIN b |-> ToInt8(b[i].number)]]
    BY <1>10 DEF AttrOf, IsNumber, Is
  <1>13. [i \in DOMAIN b |-> ToInt8(b[i].number)] = a
    <2>1. DOMAIN b = 1 .. N
      BY <1>11
    <2>2. \A i \in 1 .. N : ToInt8(b[i].number) = a[i]
      BY <1>3, <1>8, <1>11, ByteBack
    <2>. QED
      BY <1>3, <2>1, <2>2
  <1>14. ~Is(w, "string") /\ (Fails(w) <=> items = <<>>)
    BY DEF Is, Fails
  <1>15. N = 0 => items = <<>>
    BY <1>7
  <1>16. N # 0 => b # <<>>
    BY <1>11
  <1>17. Same(v, v) /\ IsFinite(v)
    <2>1. "bytearray" \notin Scalars
      BY DEF Scalars, IntWidth
    <2>. QED
      BY <2>1 DEF Same, IsFinite
  <1>18. v # Nothing
    BY NothingApart
  <1>19. ~Fails(w) => AttrOf(w) = v
    BY <1>2, <1>12, <1>13, <1>14, <1>15, <1>16
  <1>. HIDE DEF w
  <1>20. HandsOver(v, w)
    BY <1>1, <1>9, <1>14, <1>17, <1>18, <1>19 DEF HandsOver
  <1>. QED
    BY <1>5, <1>20

(* ... and so does every other value. *)
LEMMA ValueOver ==
    ASSUME NEW v \in AttrValue, NEW signed \in BOOLEAN
    PROVE  HandsOver(v, HandOver(v, signed))
  <1>1. PICK k : k = KindOf(v)
    OBVIOUS
  <1>2. OfKind(v, k) /\ \A x : Is(v, x) <=> x = k
    BY <1>1, AttrKinds
  <1>3. k \in Scalars \/ k = "string" \/ k = "bytearray"
    BY <1>2 DEF OfKind, Kinds
  <1>4. "string" \notin Scalars
    BY DEF Scalars, IntWidth
  <1>5. v # Nothing
    BY NothingApart
  <1>6. CASE k = "boolean"
    <2>1. HandOver(v, signed) = [bool |-> v.boolean] /\ v.boolean \in BOOLEAN
          /\ v = [boolean |-> v.boolean]
      BY <1>2, <1>6 DEF HandOver, JsonOf, OfKind
    <2>2. PICK w : w = [bool |-> v.boolean]
      OBVIOUS
    <2>3. w \in JsonValue
      BY <2>1, <2>2 DEF JsonValue, JsonPlain
    <2>4. ~Is(w, "string") /\ AttrOf(w) = v
      BY <2>1, <2>2 DEF Is, IsNumber, AttrOf
    <2>5. Same(v, v) /\ IsFinite(v)
      BY <1>1, <1>6 DEF Same, IsFinite
    <2>. QED
      BY <1>2, <1>5, <1>6, <2>1, <2>2, <2>3, <2>4, <2>5 DEF HandsOver
  <1>7. CASE k = "string"
    <2>1. HandOver(v, signed) = v /\ v.string \in Texts /\ v = [string |-> v.string]
      BY <1>2, <1>7 DEF HandOver, JsonOf, OfKind
    <2>2. v \in JsonValue
      BY <2>1 DEF JsonValue, JsonPlain
    <2>3. AttrOf(v) = v
      BY <1>2, <1>7 DEF IsNumber, AttrOf
    <2>4. Same(v, v) /\ IsFinite(v)
      BY <1>1, <1>4, <1>7 DEF Same, IsFinite
    <2>. QED
      BY <1>2, <1>5, <1>7, <2>1, <2>2, <2>3, <2>4 DEF HandsOver
  <1>8. CASE k \in Scalars \ {"boolean"}
    BY <1>1, <1>8, NumberOver
  <1>9. CASE k = "bytearray"
    BY <1>1, <1>9, BytesOver
  <1>. QED
    BY <1>3, <1>6, <1>7, <1>8, <1>9

(* The first string raw_str is the one that is published. *)
IsFirstRaw(c, i) == i \in DOMAIN c /\ IsRaw(c[i]) /\ \A j \in 1 .. i - 1 : ~IsRaw(c[j])

(* RawText is the string of that attribute. *)
LEMMA FirstRaw ==
    ASSUME NEW S, NEW c \in Seq(S)
    PROVE  /\ HasRaw(c) => \E i : IsFirstRaw(c, i)
           /\ \A i : IsFirstRaw(c, i) => HasRaw(c) /\ RawText(c) = c[i].value.string
  <1>1. DOMAIN c \subseteq Nat \ {0} /\ Len(c) \in Nat /\ DOMAIN c = 1 .. Len(c)
    OBVIOUS
  <1>2. ASSUME HasRaw(c) PROVE \E i : IsFirstRaw(c, i)
    <2> DEFINE T == {i \in DOMAIN c : IsRaw(c[i])}
    <2>1. T # {} /\ T \in SUBSET Nat
      BY <1>1, <1>2 DEF HasRaw
    <2>2. PICK i \in T : \A j \in T : i <= j
      <3>. HIDE DEF T
      <3>. QED
        BY <2>1, LeastNumber
    <2>3. ASSUME NEW j \in 1 .. i - 1 PROVE ~IsRaw(c[j])
      <3>1. j \in DOMAIN c /\ ~(i <= j)
        BY <1>1, <2>2
      <3>. QED
        BY <2>2, <3>1
    <2>. QED
      BY <2>2, <2>3 DEF IsFirstRaw
  <1>3. ASSUME NEW i, IsFirstRaw(c, i) PROVE HasRaw(c) /\ RawText(c) = c[i].value.string
    <2> DEFINE k == CHOOSE m \in DOMAIN c : IsRaw(c[m]) /\ \A j \in 1 .. m - 1 : ~IsRaw(c[j])
    <2>1. k \in DOMAIN c /\ IsRaw(c[k]) /\ \A j \in 1 .. k - 1 : ~IsRaw(c[j])
      BY <1>3 DEF IsFirstRaw
    <2>2. RawText(c) = c[k].value.string
      BY DEF RawText
    <2>. HIDE DEF k
    <2>3. k \in Nat \ {0} /\ i \in Nat \ {0}
      BY <1>1, <1>3, <2>1 DEF IsFirstRaw
    <2>4. ~(k < i) /\ ~(i < k)
      <3>1. k < i => k \in 1 .. i - 1
        BY <2>3
      <3>2. i < k => i \in 1 .. k - 1
        BY <2>3
      <3>. QED
        BY <1>3, <2>1, <3>1, <3>2 DEF IsFirstRaw
    <2>5. k = i
      BY <2>3, <2>4
    <2>. QED
      BY <1>3, <2>2, <2>5 DEF IsFirstRaw, HasRaw
  <1>. QED
    BY <1>2, <1>3

(* Where attributes become members of the same keys, and strings stay what   *)
(* they are, the raw_str stays what it is.                                   *)
LEMMA SameRaw ==
    ASSUME NEW S, NEW c \in Seq(S), NEW R, NEW root \in Seq(R), DOMAIN root = DOMAIN c,
           \A i \in DOMAIN c : (IsRaw(root[i]) <=> IsRaw(c[i]))
                               /\ (IsRaw(c[i]) => root[i].value = c[i].value)
    PROVE  (HasRaw(root) <=> HasRaw(c)) /\ (HasRaw(c) => RawText(root) = RawText(c))
  <1>1. HasRaw(root) <=> HasRaw(c)
    BY DEF HasRaw
  <1>2. ASSUME HasRaw(c) PROVE RawText(root) = RawText(c)
    <2>1. PICK i : IsFirstRaw(c, i)
      BY <1>2, FirstRaw
    <2>2. RawText(c) = c[i].value.string
      BY <2>1, FirstRaw
    <2>3. IsFirstRaw(root, i)
      <3>1. \A j \in 1 .. i - 1 : j \in DOMAIN c
        <4>1. DOMAIN c = 1 .. Len(c) /\ Len(c) \in Nat /\ i \in DOMAIN c
          BY <2>1 DEF IsFirstRaw
        <4>. QED
          BY <4>1
      <3>. QED
        BY <2>1, <3>1 DEF IsFirstRaw
    <2>4. RawText(root) = root[i].value.string
      BY <2>3, FirstRaw
    <2>5. root[i].value = c[i].value
      BY <2>1 DEF IsFirstRaw
    <2>. QED
      BY <2>2, <2>4, <2>5
  <1>. QED
    BY <1>1, <1>2

(* What a container is printed as: a member for each attribute, under its    *)
(* key.                                                                      *)
Prints(c, signed, r) ==
    /\ r \in Root /\ DOMAIN r = DOMAIN c
    /\ \A i \in DOMAIN c : r[i].key = c[i].key /\ r[i].value = HandOver(c[i].value, signed)

(* What a module publishes: the string raw_str, or the printed container. *)
MessageOf(c, signed) ==
    IF HasRaw(c) THEN [text |-> RawText(c)] ELSE [object |-> Printed(Attr2Json(c, signed))]

(* What is printed and published of a container: its attributes one by one,  *)
(* or its first string raw_str, whichever sign char has.                     *)
LEMMA PrintedIs ==
    ASSUME NEW c \in Seq(AnAttr), NEW signed \in BOOLEAN, NEW root, root = Attr2Json(c, signed)
    PROVE  /\ Prints(c, signed, Printed(root))
           /\ HasRaw(root) <=> HasRaw(c)
           /\ HasRaw(c) => RawText(root) = RawText(c)
  <1>1. root = JsonRoot(c, Len(c), signed)
    BY Walk
  <1>2. PICK N : N = Len(c)
    OBVIOUS
  <1>3. N \in Nat /\ DOMAIN c = 1 .. N /\ \A i \in 1 .. N : c[i] \in AnAttr
    BY <1>2
  <1>4. \A i \in 1 .. N : c[i].key \in Keys /\ c[i].value \in AttrValue
    BY <1>3 DEF AnAttr
  <1>5. /\ DOMAIN root = 1 .. N
        /\ \A i \in 1 .. N : root[i] = Member(c[i].key, JsonOf(c[i].value, signed))
    BY <1>1, <1>2 DEF JsonRoot
  <1>6. \A i \in 1 .. N : /\ HandsOver(c[i].value, HandOver(c[i].value, signed))
                          /\ HandOver(c[i].value, signed) \in JsonValue
    BY <1>4, ValueOver DEF HandsOver
  <1> DEFINE r == Printed(root)
  <1>7. /\ DOMAIN r = 1 .. N
        /\ \A i \in 1 .. N : r[i] = Member(c[i].key, HandOver(c[i].value, signed))
    BY <1>5 DEF Printed, Member, HandOver
  <1>. HIDE DEF r
  <1>8. r \in Root
    <2>1. r = [i \in 1 .. N |-> r[i]]
      <3>1. r = [i \in DOMAIN root |-> r[i]]
        BY DEF r, Printed
      <3>. QED
        BY <1>5, <3>1
    <2>2. \A i \in 1 .. N : r[i] \in [key : Keys, value : JsonValue]
      BY <1>4, <1>6, <1>7 DEF Member
    <2>3. PICK M : M = [key : Keys, value : JsonValue]
      OBVIOUS
    <2>4. r \in Seq(M)
      BY <1>3, <2>1, <2>2, <2>3, MakesSequence
    <2>. QED
      BY <2>3, <2>4 DEF Root
  <1>9. Prints(c, signed, r)
    BY <1>3, <1>7, <1>8 DEF Prints, Member
  <1>10. ASSUME NEW i \in 1 .. N
         PROVE  (IsRaw(root[i]) <=> IsRaw(c[i])) /\ (IsRaw(c[i]) => root[i].value = c[i].value)
    <2>1. PICK v, w, j : v = c[i].value /\ w = HandOver(v, signed) /\ j = JsonOf(v, signed)
      OBVIOUS
    <2>2. HandsOver(v, w)
      BY <1>6, <2>1
    <2>3. root[i].key = c[i].key /\ root[i].value = j
      BY <1>5, <2>1 DEF Member
    <2>4. Is(j, "string") <=> Is(w, "string")
      BY <2>1 DEF HandOver, Is, null
    <2>5. Is(j, "string") => w = j
      BY <2>1 DEF HandOver, Is
    <2>. QED
      BY <2>1, <2>2, <2>3, <2>4, <2>5 DEF HandsOver, IsRaw
  <1>11. PICK M : M = [key : Keys, value : {root[i].value : i \in 1 .. N}]
    OBVIOUS
  <1>12. root \in Seq(M)
    <2>1. \A i \in 1 .. N : root[i] \in M
      BY <1>4, <1>5, <1>11 DEF Member
    <2>2. root = [i \in 1 .. N |-> root[i]]
      BY <1>1, <1>2 DEF JsonRoot
    <2>. QED
      BY <1>3, <2>1, <2>2, MakesSequence
  <1>13. (HasRaw(root) <=> HasRaw(c)) /\ (HasRaw(c) => RawText(root) = RawText(c))
    BY <1>3, <1>5, <1>10, <1>12, SameRaw
  <1>. QED
    BY <1>9, <1>13 DEF r

(* What is made of a printed container has an attribute for each that JSON   *)
(* can express; what is made of one a module was handed has the same again.  *)
LEMMA HandedOn ==
    ASSUME NEW c \in Container, NEW signed \in BOOLEAN, NEW r, Prints(c, signed, r),
           \A i \in DOMAIN r : ~Fails(r[i].value), NEW d, d = Json2Attr(r)
    PROVE  /\ d \in Handed
           /\ \A a \in Attrs(c) : IsFinite(a.value) =>
                 \E b \in Attrs(d) : b.key = a.key
           /\ \A b \in Attrs(d) : \E a \in Attrs(c) :
                 b.key = a.key /\ IsFinite(a.value) /\ Same(a.value, b.value)
           /\ c \in Handed => Attrs(d) = {a \in Attrs(c) : IsFinite(a.value)}
  <1>1. c \in Seq(AnAttr) /\ DistinctKeys(c)
    BY DEF Container
  <1>2. ASSUME NEW i \in DOMAIN c
        PROVE  /\ c[i] = Member(c[i].key, c[i].value)
               /\ IsFinite(c[i].value) <=> Made(r[i]).value # Nothing
               /\ IsFinite(c[i].value) => Same(c[i].value, Made(r[i]).value)
               /\ Made(r[i]).key = c[i].key
               /\ c \in Handed /\ IsFinite(c[i].value) => Made(r[i]) = c[i]
    <2>1. PICK a, v, w : a = c[i] /\ v = a.value /\ w = HandOver(v, signed)
      OBVIOUS
    <2>2. a \in AnAttr
      BY <1>1, <2>1
    <2>3. v \in AttrValue /\ a = Member(a.key, v)
      BY <2>1, <2>2 DEF AnAttr, Member
    <2>4. HandsOver(v, w)
      BY <2>1, <2>3, ValueOver
    <2>5. r[i].key = a.key /\ r[i].value = w /\ ~Fails(w)
      BY <2>1 DEF Prints
    <2>6. Made(r[i]) = Member(a.key, AttrOf(w))
      BY <2>5 DEF Made
    <2>7. c \in Handed => v \in HandedValue
      <3>1. ASSUME c \in Seq(HandedAttr) PROVE a \in HandedAttr
        BY <2>1, <3>1
      <3>. QED
        BY <2>1, <3>1 DEF Handed, HandedAttr
    <2>8. /\ IsFinite(v) => AttrOf(w) # Nothing /\ Same(v, AttrOf(w))
          /\ ~IsFinite(v) => AttrOf(w) = Nothing
          /\ v \in HandedValue /\ IsFinite(v) => AttrOf(w) = v
      BY <2>4, <2>5 DEF HandsOver
    <2>9. Made(r[i]).key = a.key /\ Made(r[i]).value = AttrOf(w)
      BY <2>6 DEF Member
    <2>. QED
      BY <2>1, <2>3, <2>6, <2>7, <2>8, <2>9
  <1>3. r \in Root /\ DOMAIN r = DOMAIN c /\ \A i \in DOMAIN c : r[i].key = c[i].key
    BY DEF Prints
  <1>4. DistinctKeys(r)
    BY <1>1, <1>3 DEF DistinctKeys
  <1>5. /\ d \in Handed
        /\ Attrs(d) = {Made(r[i]) : i \in {j \in DOMAIN r : Made(r[j]).value # Nothing}}
    BY <1>3, <1>4, Json2AttrIs, KeptDistinct
  <1>6. \A b : b \in Attrs(d) <=> \E i \in DOMAIN c : IsFinite(c[i].value) /\ b = Made(r[i])
    BY <1>2, <1>3, <1>5
  <1>7. \A a : a \in Attrs(c) <=> \E i \in DOMAIN c : a = c[i]
    BY DEF Attrs
  <1>8. ASSUME NEW a \in Attrs(c), IsFinite(a.value) PROVE \E b \in Attrs(d) : b.key = a.key
    <2>1. PICK i \in DOMAIN c : a = c[i]
      BY <1>7
    <2>2. Made(r[i]) \in Attrs(d)
      BY <1>6, <1>8, <2>1
    <2>. QED
      BY <1>2, <2>1, <2>2
  <1>9. ASSUME NEW b \in Attrs(d)
        PROVE  \E a \in Attrs(c) : b.key = a.key /\ IsFinite(a.value) /\ Same(a.value, b.value)
    <2>1. PICK i \in DOMAIN c : IsFinite(c[i].value) /\ b = Made(r[i])
      BY <1>6
    <2>2. c[i] \in Attrs(c)
      BY <1>7
    <2>. QED
      BY <1>2, <2>1, <2>2
  <1>10. ASSUME c \in Handed PROVE Attrs(d) = {a \in Attrs(c) : IsFinite(a.value)}
    <2>1. \A i \in DOMAIN c : IsFinite(c[i].value) => Made(r[i]) = c[i]
      BY <1>2, <1>10
    <2>2. \A b : b \in Attrs(d) <=> b \in Attrs(c) /\ IsFinite(b.value)
      <3>. HIDE DEF IsFinite, Made
      <3>. QED
        BY <1>6, <1>7, <2>1
    <2>. QED
      BY <2>2
  <1>. QED
    BY <1>5, <1>8, <1>9, <1>10

-----------------------------------------------------------------------------
(* The messages.                                                             *)

Message == [text : Texts] \cup [object : Root]

(* What the parser makes of a message, where it is put between quotes.       *)
ParsedText(t, json) ==
    \/ t = "number" /\ json = [number |-> 5]
    \/ t = "object" /\ json = [object |-> <<Member("x", [number |-> 5])>>]
    \/ t \in {"quote", "escape"} /\ json = Nothing
    \/ t = "quote" /\ \E o \in Injected : json = [object |-> o]
    \/ t = "escape" /\ \E u \in Texts : json = [object |-> RawObject(u)]
    \/ t \in Plain /\ json = [object |-> RawObject(t)]

(* An object is parsed again as it is; what a text becomes depends on it. *)
LEMMA Parsing ==
    ASSUME NEW m \in Message
    PROVE  \/ /\ Is(m, "object") /\ ~Is(m, "text") /\ m.object \in Root
              /\ ParseOrWrap(m) = {m} /\ m # Nothing
           \/ /\ Is(m, "text") /\ ~Is(m, "object") /\ m.text \in Texts
              /\ \A json \in ParseOrWrap(m) : ParsedText(m.text, json)
  <1>1. CASE m \in [text : Texts]
    <2>1. Is(m, "text") /\ ~Is(m, "object") /\ m.text \in Texts
      BY <1>1 DEF Is
    <2>2. PICK t : t = m.text
      OBVIOUS
    <2>3. t \in {"plain", "other", "quote", "escape", "number", "object"}
      BY <2>1, <2>2 DEF Texts, Plain
    <2>4. CASE t \in {"number", "object"}
      <3>1. ParseOrWrap(m) = {Parse(m)}
        BY <2>1, <2>2, <2>4 DEF ParseOrWrap, Parse, Nothing
      <3>2. ParsedText(t, Parse(m))
        BY <2>1, <2>2, <2>4 DEF Parse, ParsedText
      <3>. QED
        BY <2>1, <2>2, <3>1, <3>2
    <2>5. CASE t \notin {"number", "object"}
      <3>1. ParseOrWrap(m) = Wrapped(t)
        BY <2>1, <2>2, <2>5 DEF ParseOrWrap, Parse
      <3>2. ASSUME NEW json \in Wrapped(t) PROVE ParsedText(t, json)
        <4>1. CASE t = "quote"
          BY <3>2, <4>1 DEF Wrapped, ParsedText
        <4>2. CASE t = "escape"
          BY <3>2, <4>2 DEF Wrapped, ParsedText
        <4>3. CASE t \in Plain
          <5>1. t # "quote" /\ t # "escape"
            BY <4>3 DEF Plain
          <5>2. json = [object |-> RawObject(t)]
            BY <3>2, <5>1 DEF Wrapped
          <5>. QED
            BY <4>3, <5>2 DEF ParsedText
        <4>. QED
          BY <2>3, <2>5, <4>1, <4>2, <4>3 DEF Plain
      <3>. QED
        BY <2>1, <2>2, <3>1, <3>2
    <2>. QED
      BY <2>4, <2>5
  <1>2. CASE m \in [object : Root]
    <2>1. Is(m, "object") /\ ~Is(m, "text") /\ m.object \in Root
      BY <1>2 DEF Is
    <2>2. m # Nothing
      BY <1>2 DEF Nothing
    <2>3. Parse(m) = m
      BY <2>1 DEF Parse
    <2>4. ParseOrWrap(m) = {m}
      BY <2>2, <2>3 DEF ParseOrWrap
    <2>. QED
      BY <2>1, <2>2, <2>4
  <1>. QED
    BY <1>1, <1>2 DEF Message

(* An object with one member that is no array can be converted. *)
LEMMA OneMember ==
    ASSUME NEW v, v = [number |-> 5] \/ \E t \in Texts : v = [string |-> t],
           NEW key \in Keys, NEW root, root = <<Member(key, v)>>
    PROVE  /\ root \in Root /\ \A i \in DOMAIN root : ~Fails(root[i].value)
           /\ Is(v, "string") => Attrs(Json2Attr(root)) = {Member(key, v)}
  <1>1. v \in JsonValue /\ ~Is(v, "array")
    <2>1. CASE v = [number |-> 5]
      <3>1. 5 \in Doubles
        <4>1. 5 \in -128 .. 255
          OBVIOUS
        <4>. QED
          BY <4>1, PayloadAssumption
      <3>. QED
        BY <2>1, <3>1 DEF JsonValue, JsonPlain, Is
    <2>2. CASE \E t \in Texts : v = [string |-> t]
      BY <2>2 DEF JsonValue, JsonPlain, Is
    <2>. QED
      BY <2>1, <2>2
  <1>2. Member(key, v) \in [key : Keys, value : JsonValue]
    BY <1>1 DEF Member
  <1>3. root \in Root /\ DOMAIN root = {1} /\ Len(root) = 1 /\ root[1] = Member(key, v)
    BY <1>2 DEF Root
  <1>4. \A i \in DOMAIN root : ~Fails(root[i].value)
    BY <1>1, <1>3 DEF Member, Fails
  <1>5. ASSUME Is(v, "string") PROVE Attrs(Json2Attr(root)) = {Member(key, v)}
    <2>1. DistinctKeys(root)
      BY <1>3 DEF DistinctKeys
    <2>2. Attrs(Json2Attr(root)) =
             {Made(root[i]) : i \in {j \in DOMAIN root : Made(root[j]).value # Nothing}}
      BY <1>3, <2>1, Json2AttrIs, KeptDistinct
    <2>3. AttrOf(v) = v /\ v # Nothing
      BY <1>1, <1>5, AttrMade DEF Nothing, Is
    <2>4. Made(root[1]) = Member(key, v) /\ Made(root[1]).value # Nothing
      BY <1>3, <2>3 DEF Made, Member
    <2>. QED
      BY <1>3, <2>2, <2>4
  <1>. QED
    BY <1>3, <1>4, <1>5

(* What a module publishes is a message. *)
LEMMA IsMessage ==
    ASSUME NEW c \in Container, NEW signed \in BOOLEAN
    PROVE  MessageOf(c, signed) \in Message
  <1>1. c \in Seq(AnAttr)
    BY DEF Container
  <1>2. CASE HasRaw(c)
    <2>1. PICK i : IsFirstRaw(c, i)
      BY <1>1, <1>2, FirstRaw
    <2>2. RawText(c) = c[i].value.string
      BY <1>1, <2>1, FirstRaw
    <2>3. c[i] \in AnAttr /\ Is(c[i].value, "string")
      BY <1>1, <2>1 DEF IsFirstRaw, IsRaw
    <2>4. c[i].value \in AttrValue
      BY <2>3 DEF AnAttr
    <2>5. PICK v : v = c[i].value
      OBVIOUS
    <2>6. KindOf(v) = "string" /\ OfKind(v, KindOf(v))
      BY <2>3, <2>4, <2>5, AttrKinds
    <2>7. RawText(c) \in Texts
      BY <2>2, <2>5, <2>6 DEF OfKind
    <2>. QED
      BY <1>2, <2>7 DEF MessageOf, Message
  <1>3. CASE ~HasRaw(c)
    <2>1. Printed(Attr2Json(c, signed)) \in Root
      BY <1>1, PrintedIs DEF Prints
    <2>. QED
      BY <1>3, <2>1 DEF MessageOf, Message
  <1>. QED
    BY <1>2, <1>3

(* What one text makes, if it is an object, has members of the kinds known,   *)
(* and can be converted unless there was a quote in the text.                *)
LEMMA ParsedObject ==
    ASSUME NEW t \in Texts, NEW json, ParsedText(t, json), Is(json, "object")
    PROVE  json.object \in Root /\ (t # "quote" => Convertible(json.object))
  <1>1. json # Nothing /\ json # [number |-> 5]
    BY DEF Nothing, Is
  <1>2. \/ t = "quote" /\ \E o \in Injected : json = [object |-> o]
        \/ json = [object |-> <<Member("x", [number |-> 5])>>]
        \/ \E u \in Texts : json = [object |-> RawObject(u)]
    BY <1>1 DEF ParsedText
  <1>3. CASE t = "quote" /\ \E o \in Injected : json = [object |-> o]
    <2>1. PICK o \in Injected : json = [object |-> o]
      BY <1>3
    <2>2. Injected \subseteq Root
      BY PayloadAssumption DEF Root
    <2>3. json.object = o
      BY <2>1
    <2>. QED
      BY <1>3, <2>2, <2>3
  <1>4. ASSUME NEW key \in Keys, NEW v, json = [object |-> <<Member(key, v)>>],
               v = [number |-> 5] \/ \E u \in Texts : v = [string |-> u]
        PROVE  json.object \in Root /\ Convertible(json.object)
    <2>1. PICK root : root = <<Member(key, v)>>
      OBVIOUS
    <2>2. root \in Root /\ \A i \in DOMAIN root : ~Fails(root[i].value)
      BY <1>4, <2>1, OneMember
    <2>3. json.object = root
      BY <1>4, <2>1
    <2>. QED
      BY <2>2, <2>3 DEF Convertible
  <1>5. CASE json = [object |-> <<Member("x", [number |-> 5])>>]
    <2>1. PICK key, v : key = "x" /\ v = [number |-> 5]
      OBVIOUS
    <2>2. key \in Keys /\ json = [object |-> <<Member(key, v)>>]
      BY <1>5, <2>1, PayloadAssumption
    <2>. QED
      BY <1>4, <2>1, <2>2
  <1>6. CASE \E u \in Texts : json = [object |-> RawObject(u)]
    <2>1. PICK u \in Texts : json = [object |-> RawObject(u)]
      BY <1>6
    <2>2. PICK key, v : key = "raw_str" /\ v = [string |-> u]
      OBVIOUS
    <2>3. key \in Keys /\ json = [object |-> <<Member(key, v)>>]
      BY <2>1, <2>2, PayloadAssumption DEF RawObject
    <2>. QED
      BY <1>4, <2>2, <2>3
  <1>. QED
    BY <1>2, <1>3, <1>5, <1>6

(* An object that can be converted, and a container made of a message. *)
Good(json)    == Is(json, "object") /\ Convertible(json.object)
Arrives(m, d) == \E json \in ParseOrWrap(m) : Good(json) /\ d = Json2Attr(json.object)

(* Whatever arrives is a container a module can be handed. *)
LEMMA ArrivesHanded ==
    ASSUME NEW m \in Message, NEW d, Arrives(m, d)
    PROVE  d \in Handed
  <1>1. PICK json \in ParseOrWrap(m) : Good(json) /\ d = Json2Attr(json.object)
    BY DEF Arrives
  <1>2. PICK root : root = json.object
    OBVIOUS
  <1>3. root \in Root
    <2>1. CASE Is(m, "object")
      BY <1>1, <1>2, <2>1, Parsing
    <2>2. CASE ~Is(m, "object")
      <3>1. m.text \in Texts /\ ParsedText(m.text, json)
        BY <1>1, <2>2, Parsing
      <3>. QED
        BY <1>1, <1>2, <3>1, ParsedObject DEF Good
    <2>. QED
      BY <2>1, <2>2
  <1>. QED
    BY <1>1, <1>2, <1>3, Json2AttrIs

(* Where a published container arrives, it was printed, or a string of it    *)
(* was published alone.                                                      *)
LEMMA ArrivesPrinted ==
    ASSUME NEW c \in Container, NEW signed \in BOOLEAN, NEW m, m = MessageOf(c, signed),
           NEW d, Arrives(m, d), ~HasRaw(c)
    PROVE  \E r : Prints(c, signed, r) /\ (\A i \in DOMAIN r : ~Fails(r[i].value))
                  /\ d = Json2Attr(r)
  <1>1. c \in Seq(AnAttr)
    BY DEF Container
  <1>2. PICK r : r = Printed(Attr2Json(c, signed))
    OBVIOUS
  <1>3. Prints(c, signed, r)
    BY <1>1, <1>2, PrintedIs
  <1>4. m = [object |-> r] /\ m \in Message
    BY <1>2, <1>3 DEF MessageOf, Message, Prints
  <1>5. ParseOrWrap(m) = {m}
    <2>1. Is(m, "object")
      BY <1>4 DEF Is
    <2>. QED
      BY <1>4, <2>1, Parsing
  <1>6. Good(m) /\ d = Json2Attr(r)
    BY <1>4, <1>5 DEF Arrives
  <1>. QED
    BY <1>3, <1>4, <1>6 DEF Good, Convertible

(* A raw_str that is plain text arrives as it is. *)
LEMMA ArrivesRaw ==
    ASSUME NEW c \in Container, NEW signed \in BOOLEAN, NEW m, m = MessageOf(c, signed),
           NEW d, Arrives(m, d), HasRaw(c), RawText(c) \in Plain
    PROVE  Attrs(d) = {a \in Attrs(c) : IsRaw(a)}
  <1>1. PICK t : t = RawText(c)
    OBVIOUS
  <1>2. t \in Texts /\ m = [text |-> t] /\ m \in Message
    BY <1>1 DEF MessageOf, Texts, Message
  <1>3. PICK a, v : v = [string |-> t] /\ a = Member("raw_str", v)
    OBVIOUS
  <1>4. \A json \in ParseOrWrap(m) : json = [object |-> <<a>>]
    <2>1. Is(m, "text") /\ m.text = t /\ t \in Plain
      BY <1>1, <1>2 DEF Is
    <2>2. t \notin {"number", "object", "quote", "escape"}
      BY <2>1 DEF Plain
    <2>3. ASSUME NEW json \in ParseOrWrap(m) PROVE json = [object |-> RawObject(t)]
      <3>1. ParsedText(t, json)
        BY <1>2, <2>1, <2>3, Parsing
      <3>. QED
        BY <2>2, <3>1 DEF ParsedText
    <2>. QED
      BY <1>3, <2>3 DEF RawObject
  <1>5. Attrs(d) = {a}
    <2>1. d = Json2Attr(<<a>>)
      BY <1>4 DEF Arrives
    <2>2. Is(v, "string")
      BY <1>3 DEF Is
    <2>3. PICK root, key : root = <<a>> /\ key = "raw_str"
      OBVIOUS
    <2>4. key \in Keys /\ root = <<Member(key, v)>>
      BY <1>3, <2>3, PayloadAssumption
    <2>5. v = [number |-> 5] \/ \E x \in Texts : v = [string |-> x]
      BY <1>2, <1>3
    <2>6. Attrs(Json2Attr(root)) = {Member(key, v)}
      BY <2>2, <2>4, <2>5, OneMember
    <2>. QED
      BY <1>3, <2>1, <2>3, <2>6
  <1>6. c \in Seq(AnAttr) /\ DistinctKeys(c)
    BY DEF Container
  <1>7. PICK i : IsFirstRaw(c, i)
    BY <1>6, FirstRaw
  <1>8. t = c[i].value.string
    BY <1>1, <1>6, <1>7, FirstRaw
  <1>9. i \in DOMAIN c /\ IsRaw(c[i])
    BY <1>7 DEF IsFirstRaw
  <1>10. c[i] = a
    <2>1. PICK b, w : b = c[i] /\ w = b.value
      OBVIOUS
    <2>2. b \in AnAttr /\ Is(w, "string") /\ b.key = "raw_str"
      BY <1>6, <1>9, <2>1 DEF IsRaw
    <2>3. w \in AttrValue /\ b = Member(b.key, w)
      BY <2>1, <2>2 DEF AnAttr, Member
    <2>4. w = [string |-> w.string]
      <3>1. KindOf(w) = "string" /\ OfKind(w, KindOf(w))
        BY <2>2, <2>3, AttrKinds
      <3>. QED
        BY <3>1 DEF OfKind
    <2>. QED
      BY <1>3, <1>8, <2>1, <2>2, <2>3, <2>4
  <1>11. \A j \in DOMAIN c : IsRaw(c[j]) => j = i
    BY <1>6, <1>9 DEF DistinctKeys, IsRaw
  <1>12. {b \in Attrs(c) : IsRaw(b)} = {c[i]}
    BY <1>9, <1>11 DEF Attrs
  <1>. QED
    BY <1>5, <1>10, <1>12

-----------------------------------------------------------------------------
(* The inductive invariant.                                                  *)

(* What a module is handed where one has published c. *)
Relayed(c, d) == \E signed \in BOOLEAN : Arrives(MessageOf(c, signed), d)

Typed ==
    /\ at \in {"nowhere", "module", "broker", "stuck", "empty", "dropped"}
    /\ starved \in BOOLEAN
    /\ msg \in Message \/ msg = Nothing
    /\ origin \in Message \/ origin = Nothing
    /\ trail \in Seq(Container)
    /\ \A n \in DOMAIN trail : n > 1 \/ origin # Nothing => trail[n] \in Handed

(* At the broker is what the client or the last module published. *)
Waits ==
    /\ at = "nowhere" => trail = <<>> /\ origin = Nothing
    /\ at = "module" => trail # <<>>
    /\ at \in {"broker", "empty", "dropped"} =>
          /\ msg \in Message
          /\ trail = <<>> => msg = origin
          /\ trail # <<>> /\ ~starved =>
                \E signed \in BOOLEAN : msg = MessageOf(trail[Len(trail)], signed)

(* Each container is made of what was published of the one before. *)
Linked ==
    /\ ~starved => \A n \in 1 .. Len(trail) - 1 : Relayed(trail[n], trail[n + 1])
    /\ trail # <<>> /\ origin # Nothing => Arrives(origin, trail[1])

Lost ==
    /\ at = "dropped" => \E json \in ParseOrWrap(msg) : json # Nothing /\ ~Good(json)
    /\ at = "empty" => Nothing \in ParseOrWrap(msg)

IInv == Typed /\ Waits /\ Linked /\ Lost

(* A container a module is handed is one a module can publish. *)
LEMMA HandedContainer == Handed \subseteq Container
  <1>1. HandedAttr \subseteq AnAttr
    BY NothingApart DEF HandedAttr, AnAttr
  <1>2. ASSUME NEW c \in Seq(HandedAttr) PROVE c \in Seq(AnAttr)
    BY <1>1
  <1>. QED
    BY <1>2 DEF Handed, Container

(* Nothing is no message. *)
LEMMA NoMessage == Nothing \notin Message
  BY DEF Nothing, Message

(* At first there are no messages. *)
LEMMA InitIInv ==
    ASSUME Init
    PROVE  IInv
  <1>1. Typed
    <2>1. trail = <<>> /\ origin = Nothing /\ msg = Nothing /\ at = "nowhere"
      BY DEF Init
    <2>2. starved \in BOOLEAN
      BY DEF Init
    <2>3. trail \in Seq(Container) /\ DOMAIN trail = {}
      BY <2>1
    <2>. QED
      BY <2>1, <2>2, <2>3 DEF Typed
  <1>. QED
    BY <1>1 DEF Init, IInv, Waits, Linked, Lost

(* A module publishes a container of its own. *)
LEMMA StartIInv ==
    ASSUME IInv, NEW c \in Containers, ModuleStarts(c)
    PROVE  IInv'
  <1>1. /\ at = "nowhere" /\ at' = "module" /\ trail' = <<c>>
        /\ msg' = msg /\ origin' = origin /\ starved' = starved
    BY DEF ModuleStarts
  <1>2. origin = Nothing /\ (msg \in Message \/ msg = Nothing) /\ starved \in BOOLEAN
    BY <1>1 DEF IInv, Typed, Waits
  <1>3. c \in Container
    BY PayloadAssumption DEF Container, AnAttr
  <1>4. /\ trail' \in Seq(Container) /\ Len(trail') = 1 /\ DOMAIN trail' = {1}
    BY <1>1, <1>3
  <1>5. Typed'
    BY <1>1, <1>2, <1>4 DEF Typed
  <1>6. Waits' /\ Lost'
    BY <1>1 DEF Waits, Lost
  <1>7. Linked'
    BY <1>1, <1>2, <1>4 DEF Linked
  <1>. QED
    BY <1>5, <1>6, <1>7 DEF IInv

(* A client publishes an object or another text. *)
LEMMA ClientIInv ==
    ASSUME IInv, NEW m \in Messages, ClientPublishes(m)
    PROVE  IInv'
  <1>1. /\ at = "nowhere" /\ at' = "broker" /\ msg' = m /\ origin' = m
        /\ trail' = trail /\ starved' = starved
    BY DEF ClientPublishes
  <1>2. trail = <<>> /\ starved \in BOOLEAN
    BY <1>1 DEF IInv, Waits, Typed
  <1>3. m \in Message
    <2>1. Objects \subseteq Root
      BY PayloadAssumption DEF Root
    <2>. QED
      BY <2>1 DEF Messages, Message
  <1>4. Typed'
    BY <1>1, <1>2, <1>3 DEF Typed
  <1>5. Waits' /\ Lost' /\ Linked'
    BY <1>1, <1>2, <1>3 DEF Waits, Lost, Linked
  <1>. QED
    BY <1>4, <1>5 DEF IInv

(* What is published of a container is at the broker, unless the loop over   *)
(* the bytes of one never ends; or it is any text, where memory ran out.     *)
LEMMA PublishIInv ==
    ASSUME IInv, Publish
    PROVE  IInv'
  <1>1. PICK c : c = trail[Len(trail)]
    OBVIOUS
  <1>2. at = "module" /\ trail' = trail /\ origin' = origin
    BY DEF Publish
  <1>3. trail \in Seq(Container) /\ trail # <<>>
    BY <1>2 DEF IInv, Typed, Waits
  <1>4. c \in Container /\ c \in Seq(AnAttr)
    <2>1. c \in Container
      BY <1>1, <1>3
    <2>. QED
      BY <2>1 DEF Container
  <1> DEFINE Converted(signed) ==
                LET root == Attr2Json(c, signed)
                IN  msg' = IF HasRaw(root) THEN [text |-> RawText(root)]
                           ELSE [object |-> Printed(root)]
  <1>5. \/ at' = "broker" /\ starved' = starved /\ \E signed \in BOOLEAN : Converted(signed)
        \/ at' = "stuck" /\ msg' = msg /\ starved' = starved
        \/ at' = "broker" /\ starved' = TRUE /\ \E t \in Texts : msg' = [text |-> t]
    BY <1>1 DEF Publish
  <1>6. CASE at' = "stuck" /\ msg' = msg /\ starved' = starved
    BY <1>2, <1>6 DEF IInv, Typed, Waits, Linked, Lost
  <1>7. CASE at' = "broker" /\ starved' = starved /\ \E signed \in BOOLEAN : Converted(signed)
    <2>1. at' = "broker" /\ starved' = starved
      BY <1>7
    <2>2. PICK signed \in BOOLEAN : Converted(signed)
      BY <1>7
    <2>3. msg' = MessageOf(c, signed)
      BY <1>4, <2>2, PrintedIs DEF MessageOf
    <2>4. msg' \in Message
      BY <1>4, <2>3, IsMessage
    <2>5. Typed'
      BY <1>2, <2>1, <2>4 DEF IInv, Typed
    <2>6. Waits'
      BY <1>1, <1>2, <1>3, <2>1, <2>3, <2>4 DEF Waits
    <2>7. Lost' /\ Linked'
      BY <1>2, <2>1 DEF IInv, Lost, Linked
    <2>. QED
      BY <2>5, <2>6, <2>7 DEF IInv
  <1>8. CASE at' = "broker" /\ starved' = TRUE /\ \E t \in Texts : msg' = [text |-> t]
    <2>1. msg' \in Message
      BY <1>8 DEF Message
    <2>2. Typed'
      BY <1>2, <1>8, <2>1 DEF IInv, Typed
    <2>3. Waits' /\ Lost' /\ Linked'
      BY <1>2, <1>3, <1>8, <2>1 DEF IInv, Waits, Lost, Linked
    <2>. QED
      BY <2>2, <2>3 DEF IInv
  <1>. QED
    BY <1>5, <1>6, <1>7, <1>8

(* A message is handed to a module, or lost. *)
LEMMA ForwardIInv ==
    ASSUME IInv, Forward
    PROVE  IInv'
  <1>1. PICK json \in ParseOrWrap(msg) :
                LET good == Is(json, "object") /\ Convertible(json.object)
                IN  CASE json = Nothing -> at' = "empty" /\ UNCHANGED trail
                      [] good -> at' = "module" /\ trail' = Append(trail, Json2Attr(json.object))
                      [] OTHER -> at' = "dropped" /\ UNCHANGED trail
    BY DEF Forward
  <1>2. at = "broker" /\ msg' = msg /\ origin' = origin /\ starved' = starved
    BY DEF Forward
  <1>3. /\ msg \in Message /\ trail \in Seq(Container)
        /\ trail = <<>> => msg = origin
        /\ trail # <<>> /\ ~starved =>
              \E signed \in BOOLEAN : msg = MessageOf(trail[Len(trail)], signed)
    BY <1>2 DEF IInv, Typed, Waits
  <1>4. CASE json = Nothing
    <2>1. at' = "empty" /\ trail' = trail
      BY <1>1, <1>4 DEF Nothing, Is
    <2>. QED
      BY <1>1, <1>2, <1>4, <2>1 DEF IInv, Typed, Waits, Linked, Lost
  <1>5. CASE json # Nothing /\ ~Good(json)
    <2>1. at' = "dropped" /\ trail' = trail
      BY <1>1, <1>5 DEF Good
    <2>. QED
      BY <1>1, <1>2, <1>5, <2>1 DEF IInv, Typed, Waits, Linked, Lost
  <1>6. CASE json # Nothing /\ Good(json)
    <2>1. PICK d : d = Json2Attr(json.object)
      OBVIOUS
    <2>2. at' = "module" /\ trail' = Append(trail, d)
      BY <1>1, <1>6, <2>1 DEF Good
    <2>3. Arrives(msg, d)
      BY <1>1, <1>6, <2>1 DEF Arrives
    <2>4. d \in Handed /\ d \in Container
      BY <1>3, <2>3, ArrivesHanded, HandedContainer
    <2>5. PICK t, l : t = trail' /\ l = Len(trail)
      OBVIOUS
    <2>6. /\ t \in Seq(Container) /\ l \in Nat /\ DOMAIN trail = 1 .. l
          /\ DOMAIN t = DOMAIN trail \cup {l + 1} /\ Len(t) = l + 1
          /\ t[l + 1] = d /\ \A i \in DOMAIN trail : t[i] = trail[i]
      BY <1>3, <2>2, <2>4, <2>5, AddedLast
    <2>7. Typed'
      BY <1>2, <1>3, <2>2, <2>4, <2>5, <2>6 DEF IInv, Typed
    <2>8. t # <<>>
      BY <2>6
    <2>9. Waits' /\ Lost'
      BY <2>2, <2>5, <2>8 DEF Waits, Lost
    <2>10. ASSUME NEW n \in 1 .. Len(t) - 1, ~starved PROVE Relayed(t[n], t[n + 1])
      <3>1. n \in 1 .. l
        BY <2>6
      <3>2. CASE n = l
        <4>1. trail # <<>> /\ t[n] = trail[l] /\ t[n + 1] = d
          BY <1>3, <2>6, <3>1, <3>2
        <4>. QED
          BY <1>3, <2>3, <2>5, <2>10, <4>1 DEF Relayed
      <3>3. CASE n # l
        <4>1. n \in 1 .. l - 1 /\ n + 1 \in 1 .. l
          BY <2>6, <3>1, <3>3
        <4>. QED
          BY <2>5, <2>6, <2>10, <3>1, <4>1 DEF IInv, Linked
      <3>. QED
        BY <3>2, <3>3
    <2>11. ASSUME origin # Nothing PROVE Arrives(origin, t[1])
      <3>1. CASE trail = <<>>
        <4>1. l = 0 /\ t[1] = d
          <5>1. l = 0
            BY <2>5, <3>1
          <5>2. PICK k : k = l + 1
            OBVIOUS
          <5>3. t[k] = d /\ k = 1
            BY <2>6, <5>1, <5>2
          <5>. QED
            BY <5>1, <5>3
        <4>. QED
          BY <1>3, <2>3, <3>1, <4>1
      <3>2. CASE trail # <<>>
        <4>1. 1 \in DOMAIN trail
          BY <1>3, <3>2
        <4>. QED
          BY <2>6, <2>11, <3>2, <4>1 DEF IInv, Linked
      <3>. QED
        BY <3>1, <3>2
    <2>12. Linked'
      BY <1>2, <2>5, <2>10, <2>11 DEF Linked
    <2>. QED
      BY <2>7, <2>9, <2>12 DEF IInv
  <1>. QED
    BY <1>4, <1>5, <1>6

(* Every step keeps the invariant. *)
LEMMA NextIInv ==
    ASSUME IInv, [Next]_vars
    PROVE  IInv'
  <1>1. CASE UNCHANGED vars
    BY <1>1 DEF vars, IInv, Typed, Waits, Linked, Lost
  <1>2. CASE Next
    BY <1>2, StartIInv, ClientIInv, PublishIInv, ForwardIInv DEF Next
  <1>. QED
    BY <1>1, <1>2

(* The invariant always holds. *)
LEMMA AlwaysIInv == Spec => []IInv
  <1>1. Init => IInv
    BY InitIInv
  <1>2. IInv /\ [Next]_vars => IInv'
    BY NextIInv
  <1>. QED
    BY <1>1, <1>2, PTL DEF Spec

-----------------------------------------------------------------------------
(* The theorems.                                                             *)

(* The kinds of the values a module can be handed. *)
LEMMA HandedKinds ==
    ASSUME NEW v \in HandedValue
    PROVE  KindOf(v) \in {"double", "boolean", "string", "bytearray"}
  <1>1. v \in AttrValue
    BY NothingApart
  <1>2. OfKind(v, KindOf(v))
    BY <1>1, AttrKinds
  <1>3. DOMAIN v = {KindOf(v)}
    BY <1>2 DEF OfKind
  <1>. HIDE DEF KindOf
  <1>. QED
    BY <1>3 DEF HandedValue

(* The attributes of a container. *)
LEMMA OfContainer ==
    ASSUME NEW c \in Container, NEW i \in DOMAIN c
    PROVE  /\ c[i].value \in AttrValue /\ c[i].key \in Keys
           /\ c \in Handed => c[i].value \in HandedValue
  <1>1. c[i] \in AnAttr
    BY DEF Container
  <1>2. ASSUME c \in Handed PROVE c[i] \in HandedAttr
    BY <1>2 DEF Handed
  <1>. QED
    BY <1>1, <1>2 DEF AnAttr, HandedAttr

(* The first part of the inductive invariant says what TypeOK says. *)
LEMMA TypeFollows ==
    ASSUME Typed
    PROVE  TypeOK
  <1>1. msg \in {Nothing} \/ Is(msg, "text") \/ Is(msg, "object")
    BY DEF Typed, Message, Is
  <1>2. ASSUME NEW n \in DOMAIN trail
        PROVE  /\ DistinctKeys(trail[n])
               /\ \A i \in DOMAIN trail[n] :
                     LET v == trail[n][i].value
                     IN  /\ KindOf(v) \in (IF n = 1 /\ origin = Nothing THEN Kinds
                                           ELSE {"double", "boolean", "string", "bytearray"})
                         /\ Is(v, "bytearray") =>
                               \A k \in DOMAIN v.bytearray : v.bytearray[k] \in Byte
    <2>1. PICK c : c = trail[n]
      OBVIOUS
    <2>2. c \in Container /\ n \in Nat \ {0}
      BY <2>1 DEF Typed
    <2>3. ASSUME NEW i \in DOMAIN c, NEW v, v = c[i].value
          PROVE  /\ KindOf(v) \in (IF n = 1 /\ origin = Nothing THEN Kinds
                                   ELSE {"double", "boolean", "string", "bytearray"})
                 /\ Is(v, "bytearray") =>
                       \A k \in DOMAIN v.bytearray : v.bytearray[k] \in Byte
      <3>1. v \in AttrValue
        BY <2>2, <2>3, OfContainer
      <3>2. OfKind(v, KindOf(v)) /\ (Is(v, "bytearray") <=> KindOf(v) = "bytearray")
        BY <3>1, AttrKinds
      <3>3. KindOf(v) \in Kinds
        BY <3>2 DEF OfKind
      <3>4. ASSUME ~(n = 1 /\ origin = Nothing)
            PROVE  KindOf(v) \in {"double", "boolean", "string", "bytearray"}
        <4>1. c \in Handed
          BY <2>1, <2>2, <3>4 DEF Typed
        <4>. QED
          BY <2>2, <2>3, <4>1, OfContainer, HandedKinds
      <3>5. Is(v, "bytearray") => v.bytearray \in Seq(Byte)
        BY <3>2 DEF OfKind
      <3>6. \A q \in Seq(Byte) : \A k \in DOMAIN q : q[k] \in Byte
        OBVIOUS
      <3>. QED
        BY <3>3, <3>4, <3>5, <3>6
    <2>. QED
      BY <2>1, <2>2, <2>3 DEF Container
  <1>. QED
    BY <1>1, <1>2 DEF Typed, TypeOK

(* Every variable holds a value of its kind; no container has two attributes *)
(* of one key, and what a module is handed holds no numbers but doubles.     *)
THEOREM TypeCorrect == Spec => []TypeOK
  <1>1. IInv => TypeOK
    BY TypeFollows DEF IInv
  <1>. QED
    BY <1>1, AlwaysIInv, PTL

(* A message that is lost was one of these kinds. *)
LEMMA LostFollows ==
    ASSUME IInv
    PROVE  LostForAReason
  <1>1. ASSUME at = "dropped"
        PROVE  \/ Is(msg, "text") /\ msg.text \in {"number", "quote"}
               \/ /\ Is(msg, "object")
                  /\ \E i \in DOMAIN msg.object : msg.object[i].value = [array |-> <<>>]
    <2>1. msg \in Message
      BY <1>1 DEF IInv, Waits
    <2>2. PICK json \in ParseOrWrap(msg) : json # Nothing /\ ~Good(json)
      BY <1>1 DEF IInv, Lost
    <2>3. CASE Is(msg, "object")
      <3>1. json = msg /\ msg.object \in Root
        BY <2>1, <2>2, <2>3, Parsing
      <3>2. PICK i \in DOMAIN msg.object : Fails(msg.object[i].value)
        BY <2>2, <2>3, <3>1 DEF Good, Convertible
      <3>3. PICK v : v = msg.object[i].value
        OBVIOUS
      <3>4. v \in JsonValue
        <4>1. PICK M, o : M = [key : Keys, value : JsonValue] /\ o = msg.object
          OBVIOUS
        <4>2. o \in Seq(M) /\ i \in DOMAIN o
          BY <3>1, <4>1 DEF Root
        <4>3. o[i] \in M
          BY <4>2
        <4>. QED
          BY <3>3, <4>1, <4>3
      <3>5. PICK k : OfJson(v, k)
        BY <3>4, JsonKinds
      <3>6. v = [array |-> <<>>]
        BY <3>2, <3>3, <3>5 DEF OfJson, Fails, Is
      <3>. QED
        BY <2>3, <3>3, <3>6
    <2>4. CASE ~Is(msg, "object")
      <3>1. Is(msg, "text") /\ msg.text \in Texts /\ ParsedText(msg.text, json)
        BY <2>1, <2>2, <2>4, Parsing
      <3>2. ASSUME msg.text \notin {"number", "quote"} PROVE FALSE
        <4>1. Is(json, "object")
          BY <2>2, <3>1, <3>2 DEF ParsedText, Is
        <4>. QED
          BY <2>2, <3>1, <3>2, <4>1, ParsedObject DEF Good
      <3>. QED
        BY <3>1, <3>2
    <2>. QED
      BY <2>3, <2>4
  <1>2. ASSUME at = "empty" PROVE Is(msg, "text") /\ msg.text \in {"quote", "escape"}
    <2>1. msg \in Message /\ Nothing \in ParseOrWrap(msg)
      BY <1>2 DEF IInv, Waits, Lost
    <2>2. Is(msg, "text") /\ ParsedText(msg.text, Nothing)
      BY <2>1, Parsing
    <2>3. \A o : Nothing # [object |-> o]
      BY DEF Nothing
    <2>4. Nothing # [number |-> 5]
      BY DEF Nothing
    <2>. QED
      BY <2>2, <2>3, <2>4 DEF ParsedText
  <1>. QED
    BY <1>1, <1>2 DEF LostForAReason

(* No message is lost on its way but one with an empty array, one whose text *)
(* begins with a JSON value that is no object, and one that is no JSON and   *)
(* has a quote or a backslash in it.                                         *)
THEOREM AlwaysLostForAReason == Spec => []LostForAReason
  BY LostFollows, AlwaysIInv, PTL

(* What is relayed of a container a module was handed. *)
LEMMA RelayedSame ==
    ASSUME NEW c \in Handed, NEW d, Relayed(c, d)
    PROVE  IF HasRaw(c)
           THEN RawText(c) \in Plain => Attrs(d) = {a \in Attrs(c) : IsRaw(a)}
           ELSE Attrs(d) = {a \in Attrs(c) : IsFinite(a.value)}
  <1>1. c \in Container
    BY HandedContainer
  <1>2. PICK signed \in BOOLEAN : Arrives(MessageOf(c, signed), d)
    BY DEF Relayed
  <1>3. PICK m : m = MessageOf(c, signed) /\ Arrives(m, d)
    BY <1>2
  <1>4. CASE HasRaw(c)
    BY <1>1, <1>3, <1>4, ArrivesRaw
  <1>5. CASE ~HasRaw(c)
    <2>1. PICK r : Prints(c, signed, r) /\ (\A i \in DOMAIN r : ~Fails(r[i].value))
                   /\ d = Json2Attr(r)
      BY <1>1, <1>3, <1>5, ArrivesPrinted
    <2>2. Attrs(d) = {a \in Attrs(c) : IsFinite(a.value)}
      BY <1>1, <2>1, HandedOn
    <2>. QED
      BY <1>5, <2>2
  <1>. QED
    BY <1>4, <1>5

(* What is relayed of any container. *)
LEMMA RelayedAttrs ==
    ASSUME NEW c \in Container, NEW d, Relayed(c, d), ~HasRaw(c),
           NEW sent, sent = {a \in Attrs(c) : IsFinite(a.value)}
    PROVE  /\ {a.key : a \in sent} = {a.key : a \in Attrs(d)}
           /\ \A a \in sent, b \in Attrs(d) : a.key = b.key => Same(a.value, b.value)
  <1>1. PICK signed \in BOOLEAN : Arrives(MessageOf(c, signed), d)
    BY DEF Relayed
  <1>2. PICK m : m = MessageOf(c, signed) /\ Arrives(m, d)
    BY <1>1
  <1>3. PICK r : Prints(c, signed, r) /\ (\A i \in DOMAIN r : ~Fails(r[i].value))
                 /\ d = Json2Attr(r)
    BY <1>2, ArrivesPrinted
  <1>4. /\ \A a \in Attrs(c) : IsFinite(a.value) => \E b \in Attrs(d) : b.key = a.key
        /\ \A b \in Attrs(d) : \E a \in Attrs(c) :
              b.key = a.key /\ IsFinite(a.value) /\ Same(a.value, b.value)
    BY <1>3, HandedOn
  <1>5. \A a, b \in Attrs(c) : a.key = b.key => a = b
    BY DEF Container, DistinctKeys, Attrs
  <1>6. ASSUME NEW a \in sent, NEW b \in Attrs(d), a.key = b.key PROVE Same(a.value, b.value)
    <2>1. PICK e \in Attrs(c) : b.key = e.key /\ IsFinite(e.value) /\ Same(e.value, b.value)
      BY <1>4
    <2>2. e = a
      BY <1>5, <1>6, <2>1
    <2>. QED
      BY <2>1, <2>2
  <1>. QED
    BY <1>4, <1>6

(* Each attribute that JSON can express reaches the other module under its   *)
(* key and with its value, a number as the double nearest to it, and no      *)
(* other does, unless memory ran out.                                        *)
THEOREM AlwaysAttributesArrive == Spec => []AttributesArrive
  <1>1. ASSUME IInv, origin = Nothing, Len(trail) > 1, ~HasRaw(trail[1]), ~starved,
               NEW sent, sent = {a \in Attrs(trail[1]) : IsFinite(a.value)}
        PROVE  /\ {a.key : a \in sent} = {a.key : a \in Attrs(trail[2])}
               /\ \A a \in sent, b \in Attrs(trail[2]) : a.key = b.key => Same(a.value, b.value)
    <2>1. PICK c, d, n : c = trail[1] /\ d = trail[2] /\ n = 1
      OBVIOUS
    <2>2. trail \in Seq(Container)
      BY <1>1 DEF IInv, Typed
    <2>3. n \in 1 .. Len(trail) - 1 /\ n + 1 = 2 /\ 1 \in DOMAIN trail
      BY <1>1, <2>1, <2>2
    <2>4. c \in Container
      BY <2>1, <2>2, <2>3
    <2>5. Relayed(c, d)
      BY <1>1, <2>1, <2>3 DEF IInv, Linked
    <2>. QED
      BY <1>1, <2>1, <2>4, <2>5, RelayedAttrs
  <1>2. IInv => AttributesArrive
    BY <1>1 DEF AttributesArrive
  <1>. QED
    BY <1>2, AlwaysIInv, PTL

(* As long as there is memory: a module that passes on what it was handed    *)
(* hands on the same but infinities, and of a raw_str that is plain text     *)
(* exactly that.                                                             *)
THEOREM AlwaysRelayedUnchanged == Spec => []RelayedUnchanged
  <1>1. ASSUME IInv, NEW n \in DOMAIN trail, n > 1 \/ origin # Nothing, n < Len(trail), ~starved
        PROVE  IF HasRaw(trail[n])
               THEN RawText(trail[n]) \in Plain =>
                       Attrs(trail[n + 1]) = {a \in Attrs(trail[n]) : IsRaw(a)}
               ELSE Attrs(trail[n + 1]) = {a \in Attrs(trail[n]) : IsFinite(a.value)}
    <2>1. PICK c, d : c = trail[n] /\ d = trail[n + 1]
      OBVIOUS
    <2>2. c \in Handed
      BY <1>1, <2>1 DEF IInv, Typed
    <2>3. n \in 1 .. Len(trail) - 1
      <3>1. trail \in Seq(Container)
        BY <1>1 DEF IInv, Typed
      <3>. QED
        BY <1>1, <3>1
    <2>4. Relayed(c, d)
      BY <1>1, <2>1, <2>3 DEF IInv, Linked
    <2>. QED
      BY <2>1, <2>2, <2>4, RelayedSame
  <1>2. IInv => RelayedUnchanged
    BY <1>1 DEF RelayedUnchanged
  <1>. QED
    BY <1>2, AlwaysIInv, PTL

(* What is made of an array: its leading numbers, as bytes. *)
LEMMA ArrayMade ==
    ASSUME NEW v \in JsonValue
    PROVE  /\ Is(AttrOf(v), "bytearray") =>
                 /\ Is(v, "array") /\ Len(AttrOf(v).bytearray) <= Len(v.array)
                 /\ \A k \in DOMAIN AttrOf(v).bytearray : IsNumber(v.array[k])
           /\ (/\ Is(v, "array") /\ v.array # <<>>
               /\ \A k \in DOMAIN v.array : IsNumber(v.array[k]) /\ v.array[k].number \in Byte) =>
                 AttrOf(v) = [bytearray |-> [k \in DOMAIN v.array |-> v.array[k].number]]
  <1>1. PICK k : OfJson(v, k)
    BY JsonKinds
  <1>2. DOMAIN v = {k} /\ \A x : Is(v, x) <=> x = k
    BY <1>1 DEF OfJson, Is
  <1>3. CASE ~Is(v, "array")
    <2>1. k \in {"number", "bool", "string", "object", "null"}
      BY <1>1, <1>2, <1>3 DEF OfJson
    <2>2. ~Is(AttrOf(v), "bytearray")
      <3>1. CASE k = "number"
        BY <1>2, <3>1, AttrMade DEF IsNumber, Is
      <3>2. CASE k = "bool"
        BY <1>2, <3>2, AttrMade DEF Is
      <3>3. CASE k = "string"
        BY <1>2, <3>3, AttrMade DEF Is
      <3>4. CASE k = "object" \/ k = "null"
        <4>1. AttrOf(v) = Nothing
          BY <1>2, <3>4 DEF AttrOf, IsNumber
        <4>. QED
          BY <4>1 DEF Is, Nothing
      <3>. QED
        BY <2>1, <3>1, <3>2, <3>3, <3>4
    <2>. QED
      BY <1>3, <2>2
  <1>4. CASE Is(v, "array")
    <2>1. PICK items, bytes : items = v.array /\ bytes = LeadingNumbers(items)
      OBVIOUS
    <2>2. items \in Seq(JsonItem) /\ k = "array"
      BY <1>1, <1>2, <1>4, <2>1 DEF OfJson
    <2>3. AttrOf(v) = IF bytes = <<>> THEN Nothing
                      ELSE [bytearray |-> [i \in DOMAIN bytes |-> ToInt8(bytes[i].number)]]
      BY <1>2, <2>1, <2>2 DEF AttrOf, IsNumber
    <2>4. PICK n \in 0 .. Len(items) :
                  /\ bytes \in Seq(JsonItem) /\ Len(bytes) = n
                  /\ \A i \in 1 .. n : bytes[i] = items[i] /\ IsNumber(bytes[i])
                  /\ n = Len(items) \/ ~IsNumber(items[n + 1])
      BY <2>1, <2>2, Leading
    <2>5. PICK b : b = [i \in DOMAIN bytes |-> ToInt8(bytes[i].number)]
      OBVIOUS
    <2>6. DOMAIN bytes = 1 .. n /\ DOMAIN b = 1 .. n /\ n \in Nat /\ n <= Len(items)
      BY <2>2, <2>4, <2>5
    <2>7. Is(AttrOf(v), "bytearray") => bytes # <<>> /\ AttrOf(v).bytearray = b
      BY <2>3, <2>5 DEF Is, Nothing
    <2>8. Len(b) = n
      BY <2>6
    <2>9. \A i \in 1 .. n : IsNumber(items[i])
      BY <2>4
    <2>10. ASSUME items # <<>>,
                  \A i \in DOMAIN items : IsNumber(items[i]) /\ items[i].number \in Byte
           PROVE  AttrOf(v) = [bytearray |-> [i \in DOMAIN items |-> items[i].number]]
      <3>1. DOMAIN items = 1 .. Len(items) /\ Len(items) \in Nat /\ Len(items) # 0
        BY <2>2, <2>10
      <3>2. n = Len(items)
        <4>1. n # Len(items) => n + 1 \in 1 .. Len(items)
          BY <2>4, <3>1
        <4>. QED
          BY <2>4, <2>10, <3>1, <4>1
      <3>3. ASSUME NEW i \in 1 .. n PROVE ToInt8(bytes[i].number) = items[i].number
        <4>1. items[i].number \in Byte /\ bytes[i] = items[i]
          BY <2>4, <2>10, <3>1, <3>2
        <4>2. \A x \in Byte : ToInt8(x) = x
          BY DEF ToInt8, Byte
        <4>. QED
          BY <4>1, <4>2
      <3>4. b = [i \in DOMAIN items |-> items[i].number]
        BY <2>5, <2>6, <3>1, <3>2, <3>3
      <3>5. bytes # <<>>
        BY <2>4, <3>1, <3>2
      <3>. QED
        BY <2>3, <2>5, <3>4, <3>5
    <2>11. Is(AttrOf(v), "bytearray") =>
              /\ Is(v, "array") /\ Len(AttrOf(v).bytearray) <= Len(v.array)
              /\ \A i \in DOMAIN AttrOf(v).bytearray : IsNumber(v.array[i])
      BY <1>4, <2>1, <2>6, <2>7, <2>8, <2>9
    <2>. QED
      BY <2>1, <2>10, <2>11
  <1>. QED
    BY <1>3, <1>4

(* The last member of a key arrives, if json2attr makes something of it. *)
LEMMA LastArrives ==
    ASSUME NEW o \in Root, NEW i \in DOMAIN o, Final(o, i), NEW w, w = AttrOf(o[i].value), w # Nothing
    PROVE  Member(o[i].key, w) \in Kept(o, Len(o))
  <1>1. DOMAIN o = 1 .. Len(o) /\ Len(o) \in Nat /\ i \in 1 .. Len(o)
    BY DEF Root
  <1>2. \A j \in 1 .. Len(o) : j > i => j \in i + 1 .. Len(o)
    BY <1>1
  <1>3. Made(o[i]) = Member(o[i].key, w) /\ Made(o[i]).value = w
    BY DEF Made, Member
  <1>4. i \in Lasts(o, Len(o))
    BY <1>1, <1>2, <1>3 DEF Lasts, Final
  <1>. QED
    BY <1>3, <1>4 DEF Kept

(* The value of a member. *)
LEMMA OfRoot ==
    ASSUME NEW o \in Root, NEW i \in DOMAIN o
    PROVE  o[i].value \in JsonValue /\ o[i].key \in Keys /\ o[i] = Member(o[i].key, o[i].value)
  <1>1. PICK M : M = [key : Keys, value : JsonValue]
    OBVIOUS
  <1>2. o[i] \in M
    <2>1. o \in Seq(M)
      BY <1>1 DEF Root
    <2>. QED
      BY <2>1
  <1>. QED
    BY <1>1, <1>2 DEF Member

(* The last member of each key that is a number, a Boolean, a string or an   *)
(* array of bytes arrives, and no bytes the client did not send.             *)
THEOREM AlwaysMembersArrive == Spec => []MembersArrive
  <1>1. ASSUME IInv, Is(origin, "object"), trail # <<>>, NEW o, o = origin.object,
               NEW d, d = trail[1]
        PROVE  /\ o \in Root /\ Attrs(d) = Kept(o, Len(o))
               /\ \A i \in DOMAIN o : ~Fails(o[i].value)
    <2>1. origin # Nothing /\ origin \in Message
      BY <1>1 DEF IInv, Typed, Is, Nothing
    <2>2. Arrives(origin, d)
      BY <1>1, <2>1 DEF IInv, Linked
    <2>3. ParseOrWrap(origin) = {origin} /\ o \in Root
      BY <1>1, <2>1, Parsing
    <2>4. d = Json2Attr(o) /\ \A i \in DOMAIN o : ~Fails(o[i].value)
      BY <1>1, <2>2, <2>3 DEF Arrives, Good, Convertible
    <2>. QED
      BY <2>3, <2>4, Json2AttrIs
  <1>2. ASSUME NEW o \in Root, NEW i \in DOMAIN o, ~Fails(o[i].value), Final(o, i),
               NEW d, Attrs(d) = Kept(o, Len(o))
        PROVE  ArrivedIn(o[i], d)
    <2>0. PICK v : v = o[i].value
      OBVIOUS
    <2>1. v \in JsonValue /\ o[i] = Member(o[i].key, v)
      BY <1>2, <2>0, OfRoot
    <2>2. ASSUME NEW w, w = AttrOf(v), w # Nothing
          PROVE  Member(o[i].key, w) \in Kept(o, Len(o))
      BY <1>2, <2>0, <2>2, LastArrives
    <2>3. ASSUME IsNumber(v) PROVE Member(o[i].key, [double |-> v.number]) \in Kept(o, Len(o))
      <3>1. AttrOf(v) = [double |-> v.number] /\ AttrOf(v) # Nothing
        BY <2>1, <2>3, AttrMade DEF Nothing
      <3>. QED
        BY <2>2, <3>1
    <2>4. ASSUME Is(v, "bool")
          PROVE  Member(o[i].key, [boolean |-> v.bool]) \in Kept(o, Len(o))
      <3>1. AttrOf(v) = [boolean |-> v.bool] /\ AttrOf(v) # Nothing
        BY <2>1, <2>4, AttrMade DEF Nothing
      <3>. QED
        BY <2>2, <3>1
    <2>5. ASSUME Is(v, "string") PROVE o[i] \in Kept(o, Len(o))
      <3>1. AttrOf(v) = v /\ v # Nothing
        BY <2>1, <2>5, AttrMade DEF Nothing
      <3>. QED
        BY <2>1, <2>2, <3>1
    <2>6. ASSUME Is(v, "array"),
                 \A k \in DOMAIN v.array : IsNumber(v.array[k]) /\ v.array[k].number \in Byte,
                 NEW w, w = [bytearray |-> [k \in DOMAIN v.array |-> v.array[k].number]]
          PROVE  Member(o[i].key, w) \in Kept(o, Len(o))
      <3>1. v.array # <<>>
        BY <1>2, <2>0, <2>6 DEF Fails
      <3>2. AttrOf(v) = w /\ w # Nothing
        BY <2>1, <2>6, <3>1, ArrayMade DEF Nothing
      <3>. QED
        BY <2>2, <3>2
    <2>. QED
      BY <1>2, <2>0, <2>1, <2>3, <2>4, <2>5, <2>6 DEF ArrivedIn
  <1>3. ASSUME NEW o \in Root, NEW a \in Kept(o, Len(o)), Is(a.value, "bytearray")
        PROVE  WereSent(a, o)
    <2>1. PICK i \in Lasts(o, Len(o)) : a = Made(o[i])
      BY DEF Kept
    <2>2. i \in DOMAIN o
      BY <2>1 DEF Lasts, Root
    <2>3. a.key = o[i].key /\ a.value = AttrOf(o[i].value)
      BY <2>1 DEF Made, Member
    <2>4. PICK v : v = o[i].value
      OBVIOUS
    <2>5. v \in JsonValue
      BY <2>2, <2>4, OfRoot
    <2>6. /\ Is(v, "array") /\ Len(AttrOf(v).bytearray) <= Len(v.array)
          /\ \A k \in DOMAIN AttrOf(v).bytearray : IsNumber(v.array[k])
      BY <1>3, <2>3, <2>4, <2>5, ArrayMade
    <2>. QED
      BY <2>2, <2>3, <2>4, <2>6 DEF WereSent
  <1>4. IInv => MembersArrive
    <2>1. ASSUME IInv, Is(origin, "object"), trail # <<>>, NEW o, o = origin.object,
                 NEW d, d = trail[1]
          PROVE  /\ \A i \in DOMAIN o : Final(o, i) => ArrivedIn(o[i], d)
                 /\ \A a \in Attrs(d) : Is(a.value, "bytearray") => WereSent(a, o)
      <3>1. /\ o \in Root /\ Attrs(d) = Kept(o, Len(o))
            /\ \A i \in DOMAIN o : ~Fails(o[i].value)
        BY <1>1, <2>1
      <3>. QED
        BY <1>2, <1>3, <3>1
    <2>. QED
      BY <2>1 DEF MembersArrive
  <1>. QED
    BY <1>4, AlwaysIInv, PTL

=============================================================================
