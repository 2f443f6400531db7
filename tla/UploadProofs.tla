---------------------------- MODULE UploadProofs -----------------------------
(* Proofs about Upload, for every set of posts and every number of uploads   *)
(* and installs.                                                             *)
EXTENDS Upload, SequenceTheorems, FiniteSetTheorems, TLAPS

Files   == {FileOf(r) : r \in Posts}
Bytes   == Nat \X Nat
Entries == [post : Posts, lost : BOOLEAN, answers : Seq({200, 400})]
Results == [file : Files, bytes : Seq(Bytes), overlap : BOOLEAN, latest : Nat]

(* bytes are the first ones of what post u, r, writes. *)
PartOf(bytes, u, r) ==
    /\ Len(bytes) <= Len(FileBytes(u, r))
    /\ bytes = SubSeq(FileBytes(u, r), 1, Len(bytes))

(* left is what post u, r, still has to write when it wrote as many bytes. *)
RestOf(left, bytes, u, r) ==
    left = SubSeq(FileBytes(u, r), Len(bytes) + 1, Len(FileBytes(u, r)))

-----------------------------------------------------------------------------
(* The inductive invariant, part by part.                                    *)

(* Every variable holds a value of its kind. *)
Kinds ==
    /\ posted \in Seq(Entries)
    /\ DOMAIN disk \subseteq Files /\ disk \in [DOMAIN disk -> Seq(Bytes)]
    /\ up \in [pc : {"poll", "write", "dead"}, u : Nat, left : Seq(Bytes)]
    /\ inst \in [pc : {"idle", "opened", "measured"}, file : Files \cup {<<>>}, size : Nat]
    /\ inst.pc # "idle" => inst.file \in DOMAIN disk
    /\ installed \in Seq(Results)
    /\ overlap \in BOOLEAN
    /\ up.u \in 0 .. Len(posted)

(* The answers are those that are due. *)
AnswersDue ==
    \A u \in DOMAIN posted :
       posted[u].answers = (IF Found(posted[u].post) THEN <<>> ELSE <<400>>)
                             \o (IF u = up.u /\ up.pc # "poll" THEN <<>> ELSE <<200>>)

(* A file that is there was posted, and holds a part of one post. *)
OnePost ==
    \A f \in DOMAIN disk :
        /\ LatestOf(f) # 0
        /\ \E u \in DOMAIN posted :
              FileOf(posted[u].post) = f /\ PartOf(disk[f], u, posted[u].post)

(* The last post of a file is one of that file. *)
Latest ==
    \A f \in Files : LatestOf(f) # 0 =>
        LatestOf(f) \in DOMAIN posted /\ FileOf(posted[LatestOf(f)].post) = f

(* The post in the works: its file holds what was written of it, and what is *)
(* left is the rest, or was lost.                                            *)
AtWork ==
    up.pc = "write" =>
        LET r == posted[up.u].post
            f == FileOf(r)
        IN  /\ up.u \in DOMAIN posted /\ LatestOf(f) = up.u
            /\ f \in DOMAIN disk /\ PartOf(disk[f], up.u, r)
            /\ \/ RestOf(up.left, disk[f], up.u, r)
               \/ up.left = <<>> /\ posted[up.u].lost

(* The other posts are in their files until the next one. *)
Saved ==
    \A u \in DOMAIN posted :
        LET f == FileOf(posted[u].post)
        IN  LatestOf(f) = u /\ ~posted[u].lost /\ ~(u = up.u /\ up.pc # "poll") =>
               f \in DOMAIN disk /\ disk[f] = FileBytes(u, posted[u].post)

(* An install nothing overlaps: nobody writes the file, and its size is      *)
(* still what fstat told.                                                    *)
Undisturbed ==
    inst.pc # "idle" /\ ~overlap =>
        /\ ~Writing(inst.file)
        /\ inst.pc = "measured" => inst.size = Len(disk[inst.file])

(* What an install nothing overlapped has read was not being written. *)
NotAtWork ==
    \A n \in DOMAIN installed :
        LET i == installed[n]
        IN  i.latest # 0 => /\ i.latest \in DOMAIN posted
                            /\ ~i.overlap => ~(up.pc = "write" /\ up.u = i.latest)

IInv == /\ Kinds /\ AnswersDue /\ OnePost /\ Latest /\ AtWork /\ Saved /\ Undisturbed
        /\ NotAtWork /\ OneProgram /\ InstallsTheUpload

-----------------------------------------------------------------------------
(* What the operators of Upload return.                                      *)

(* What a post is, from the assumption.                                      *)
LEMMA PostType ==
    ASSUME NEW r \in Posts
    PROVE  /\ r.form \in {"named", "bare", "unnamed"}
           /\ r.name \in Seq(STRING) /\ Len(r.name) \in Nat /\ DOMAIN r.name = 1 .. Len(r.name)
           /\ r.escaped \in BOOLEAN /\ r.size \in Nat
  <1>1. r.name \in Seq(STRING)
    BY UploadAssumption
  <1>2. Len(r.name) \in Nat /\ DOMAIN r.name = 1 .. Len(r.name)
    BY <1>1
  <1>. QED
    BY <1>1, <1>2, UploadAssumption

(* The first elements of a sequence, and the rest. *)
LEMMA Pieces ==
    ASSUME NEW S, NEW s \in Seq(S), NEW k \in 0 .. Len(s)
    PROVE  /\ SubSeq(s, 1, k) \in Seq(S) /\ Len(SubSeq(s, 1, k)) = k
           /\ \A i \in 1 .. k : SubSeq(s, 1, k)[i] = s[i]
           /\ SubSeq(s, k + 1, Len(s)) \in Seq(S) /\ Len(SubSeq(s, k + 1, Len(s))) = Len(s) - k
           /\ \A i \in 1 .. Len(s) - k : SubSeq(s, k + 1, Len(s))[i] = s[k + i]
  <1>1. Len(s) \in Nat /\ k \in Nat /\ k <= Len(s) /\ \A i \in 1 .. Len(s) : s[i] \in S
    OBVIOUS
  <1>2. SubSeq(s, 1, k) \in Seq(S) /\ Len(SubSeq(s, 1, k)) = k
    BY <1>1
  <1>3. \A i \in 1 .. k : SubSeq(s, 1, k)[i] = s[i]
    BY <1>1
  <1>4. SubSeq(s, k + 1, Len(s)) \in Seq(S) /\ Len(SubSeq(s, k + 1, Len(s))) = Len(s) - k
    BY <1>1
  <1>5. \A i \in 1 .. Len(s) - k : SubSeq(s, k + 1, Len(s))[i] = s[k + i]
    BY <1>1
  <1>. QED
    BY <1>2, <1>3, <1>4, <1>5

(* All of a sequence is the sequence. *)
LEMMA WholeSequence ==
    ASSUME NEW S, NEW s \in Seq(S)
    PROVE  SubSeq(s, 1, Len(s)) = s
  <1>1. Len(s) \in 0 .. Len(s)
    OBVIOUS
  <1>2. /\ SubSeq(s, 1, Len(s)) \in Seq(S) /\ Len(SubSeq(s, 1, Len(s))) = Len(s)
        /\ \A i \in 1 .. Len(s) : SubSeq(s, 1, Len(s))[i] = s[i]
    BY <1>1, Pieces
  <1>. QED
    BY <1>2, SeqEqual

(* The field before the program has a length ...                             *)
LEMMA FieldLengthType ==
    ASSUME NEW r \in Posts
    PROVE  Escapes(r) \in Nat /\ FieldLength(r) \in Nat
  <1> DEFINE S == {i \in DOMAIN r.name : r.name[i] \notin OkChars}
  <1>1. S \subseteq 1 .. Len(r.name) /\ Len(r.name) \in Nat
    BY PostType
  <1>. HIDE DEF S
  <1>2. IsFiniteSet(1 .. Len(r.name))
    BY <1>1, FS_Interval
  <1>3. IsFiniteSet(S)
    BY <1>1, <1>2, FS_Subset
  <1>4. Cardinality(S) \in Nat
    BY <1>3, FS_CardinalityType
  <1>5. Escapes(r) \in Nat
    BY <1>4 DEF Escapes, S
  <1>6. r.form \in {"named", "bare", "unnamed"}
    BY PostType
  <1>. QED
    BY <1>1, <1>5, <1>6 DEF FieldLength

(* ... and the name, found or not, is a sequence; found, it is as given.     *)
LEMMA ArgNameType ==
    ASSUME NEW r \in Posts
    PROVE  /\ ArgName(r) \in Seq(STRING) /\ ParamLen(r) \in Nat
           /\ Found(r) => ArgName(r) = r.name
  <1>1. r.name \in Seq(STRING) /\ Len(r.name) \in Nat /\ MaxName \in Nat
    BY PostType, UploadAssumption
  <1>2. Least(Len(r.name), MaxName) \in 0 .. Len(r.name)
    BY <1>1 DEF Least
  <1>3. SubSeq(r.name, 1, Least(Len(r.name), MaxName)) \in Seq(STRING)
    BY <1>1, <1>2, Pieces
  <1>4. <<>> \in Seq(STRING)
    OBVIOUS
  <1>5. ArgName(r) \in Seq(STRING)
    BY <1>3, <1>4 DEF ArgName
  <1>6. ASSUME Found(r) PROVE ArgName(r) = r.name
    <2>1. Least(Len(r.name), MaxName) = Len(r.name)
      BY <1>1, <1>6 DEF Least, Found
    <2>. QED
      BY <1>1, <1>6, <2>1, WholeSequence DEF ArgName, Found
  <1>7. Len(ArgName(r)) \in Nat
    BY <1>5
  <1>. QED
    BY <1>5, <1>6, <1>7 DEF ParamLen

(* A body is its field and then its program.                                 *)
LEMMA BodyType ==
    ASSUME NEW r \in Posts, NEW u \in Nat
    PROVE  /\ Program(u, r) \in Seq(Bytes)
           /\ Body(u, r) \in Seq(Bytes)
           /\ Len(Body(u, r)) = FieldLength(r) + Len(Program(u, r))
           /\ \A i \in 1 .. Len(Program(u, r)) : Body(u, r)[FieldLength(r) + i] = Program(u, r)[i]
  <1>1. FieldLength(r) \in Nat /\ r.size \in Nat
    BY FieldLengthType, UploadAssumption
  <1>2. Program(u, r) \in Seq(Bytes)
    <2>1. CASE r.form = "bare"
      BY <2>1 DEF Program
    <2>2. CASE r.form # "bare"
      BY <1>1, <2>2 DEF Program, Bytes
    <2>. QED
      BY <2>1, <2>2
  <1> DEFINE head == [i \in 1 .. FieldLength(r) |-> <<0, 0>>]
  <1>3. head \in Seq(Bytes) /\ Len(head) = FieldLength(r)
    BY <1>1 DEF Bytes
  <1>4. Body(u, r) = head \o Program(u, r)
    BY DEF Body
  <1> DEFINE p == Program(u, r)
  <1>. HIDE DEF head, p
  <1>5. p \in Seq(Bytes) /\ Body(u, r) = head \o p /\ Len(p) \in Nat
    BY <1>2, <1>4 DEF p
  <1>6. head \o p \in Seq(Bytes) /\ Len(head \o p) = Len(head) + Len(p)
    BY <1>3, <1>5, ConcatProperties
  <1>7. \A i \in 1 .. Len(p) : (head \o p)[Len(head) + i] = p[i]
    BY <1>1, <1>3, <1>5
  <1>. QED
    BY <1>3, <1>5, <1>6, <1>7 DEF p

(* What goes to the file is bytes.                                           *)
LEMMA FileBytesType ==
    ASSUME NEW r \in Posts, NEW u \in Nat
    PROVE  FileBytes(u, r) \in Seq(Bytes)
  <1>1. Body(u, r) \in Seq(Bytes) /\ ParamLen(r) \in Nat
    BY BodyType, ArgNameType
  <1>2. <<<<0, 1>>>> \in Seq(Bytes)
    BY DEF Bytes
  <1>3. ASSUME ~(Len(Body(u, r)) < ParamLen(r))
        PROVE  SubSeq(Body(u, r), ParamLen(r) + 1, Len(Body(u, r))) \in Seq(Bytes)
    BY <1>1, <1>3
  <1>. QED
    BY <1>2, <1>3 DEF FileBytes

(* The name of a file has ok_chars only. *)
LEMMA FileOfType ==
    ASSUME NEW r \in Posts
    PROVE  FileOf(r) \in Seq(OkChars) /\ FileOf(r) \in Files
  <1>1. ArgName(r) \in Seq(STRING)
    BY ArgNameType
  <1> DEFINE a == ArgName(r)
  <1>. HIDE DEF a
  <1>2. Len(a) \in Nat /\ DOMAIN a = 1 .. Len(a)
    BY <1>1 DEF a
  <1>3. \A i \in 1 .. Len(a) : (IF a[i] \in OkChars THEN a[i] ELSE "_") \in OkChars
    BY UploadAssumption
  <1>4. Sanitized(a) = [i \in 1 .. Len(a) |-> IF a[i] \in OkChars THEN a[i] ELSE "_"]
    BY <1>2 DEF Sanitized
  <1>5. Sanitized(a) \in [1 .. Len(a) -> OkChars]
    BY <1>3, <1>4
  <1>6. Sanitized(a) \in Seq(OkChars)
    BY <1>2, <1>5
  <1>. QED
    BY <1>6 DEF FileOf, Files, a

(* Of a plain post, exactly the program is written. *)
LEMMA PlainBytes ==
    ASSUME NEW r \in Posts, NEW u \in Nat, Plain(r)
    PROVE  FileBytes(u, r) = Program(u, r)
  <1>1. ArgName(r) = r.name /\ Len(r.name) \in Nat
    BY ArgNameType, PostType DEF Plain
  <1>2. FieldLength(r) = ParamLen(r) /\ ParamLen(r) \in Nat
    <2>1. r.form = "named" /\ Escapes(r) = 0
      BY DEF Plain
    <2>. QED
      BY <1>1, <2>1 DEF FieldLength, ParamLen
  <1> DEFINE b == Body(u, r)
             p == Program(u, r)
             n == ParamLen(r)
  <1>3. /\ p \in Seq(Bytes) /\ b \in Seq(Bytes) /\ Len(b) = n + Len(p)
        /\ \A i \in 1 .. Len(p) : b[n + i] = p[i]
    BY <1>2, BodyType
  <1>4. FileBytes(u, r) = SubSeq(b, n + 1, Len(b))
    BY <1>2, <1>3 DEF FileBytes
  <1>. HIDE DEF b, p, n
  <1>5. n \in Nat
    BY <1>2 DEF n
  <1>6. /\ SubSeq(b, n + 1, Len(b)) \in Seq(Bytes) /\ Len(SubSeq(b, n + 1, Len(b))) = Len(p)
        /\ \A i \in 1 .. Len(p) : SubSeq(b, n + 1, Len(b))[i] = p[i]
    <2>1. n \in 0 .. Len(b) /\ Len(b) - n = Len(p)
      BY <1>3, <1>5
    <2>2. /\ SubSeq(b, n + 1, Len(b)) \in Seq(Bytes) /\ Len(SubSeq(b, n + 1, Len(b))) = Len(p)
          /\ \A i \in 1 .. Len(p) : SubSeq(b, n + 1, Len(b))[i] = b[n + i]
      BY <1>3, <2>1, Pieces
    <2>. QED
      BY <1>3, <2>2
  <1>7. SubSeq(b, n + 1, Len(b)) = p
    BY <1>3, <1>6, SeqEqual
  <1>. QED
    BY <1>4, <1>7 DEF p

(* A part of a part, and what a write makes of a part. *)
LEMMA PartOfPart ==
    ASSUME NEW r \in Posts, NEW u \in Nat, NEW d \in Seq(Bytes), PartOf(d, u, r),
           NEW n \in 0 .. Len(d)
    PROVE  PartOf(SubSeq(d, 1, n), u, r) /\ SubSeq(d, 1, n) \in Seq(Bytes)
  <1> DEFINE b == FileBytes(u, r)
  <1>1. b \in Seq(Bytes)
    BY FileBytesType
  <1>2. Len(d) <= Len(b) /\ d = SubSeq(b, 1, Len(d))
    BY DEF PartOf
  <1>. HIDE DEF b
  <1>3. /\ SubSeq(d, 1, n) \in Seq(Bytes) /\ Len(SubSeq(d, 1, n)) = n
        /\ SubSeq(b, 1, n) \in Seq(Bytes) /\ Len(SubSeq(b, 1, n)) = n
    BY <1>1, <1>2
  <1>4. \A i \in 1 .. n : SubSeq(d, 1, n)[i] = SubSeq(b, 1, n)[i]
    <2>1. \A i \in 1 .. n : SubSeq(d, 1, n)[i] = d[i] /\ SubSeq(b, 1, n)[i] = b[i]
      BY <1>1, <1>2
    <2>2. \A i \in 1 .. Len(d) : SubSeq(b, 1, Len(d))[i] = b[i]
      BY <1>1, <1>2
    <2>. QED
      BY <1>2, <2>1, <2>2
  <1>5. SubSeq(d, 1, n) = SubSeq(b, 1, n)
    BY <1>3, <1>4, SeqEqual
  <1>6. n <= Len(b)
    BY <1>1, <1>2
  <1>. QED
    BY <1>3, <1>5, <1>6 DEF PartOf, b

(* Writing a part of the rest makes a longer part and a shorter rest.        *)
LEMMA PartWritten ==
    ASSUME NEW r \in Posts, NEW u \in Nat, NEW d \in Seq(Bytes), PartOf(d, u, r),
           NEW l \in Seq(Bytes), RestOf(l, d, u, r), NEW n \in 1 .. Len(l)
    PROVE  /\ SubSeq(l, n + 1, Len(l)) \in Seq(Bytes) /\ d \o SubSeq(l, 1, n) \in Seq(Bytes)
           /\ PartOf(d \o SubSeq(l, 1, n), u, r)
           /\ RestOf(SubSeq(l, n + 1, Len(l)), d \o SubSeq(l, 1, n), u, r)
  <1> DEFINE b == FileBytes(u, r)
             e == d \o SubSeq(l, 1, n)
  <1>0. e = d \o SubSeq(l, 1, n)
    OBVIOUS
  <1>1. b \in Seq(Bytes)
    BY FileBytesType
  <1>2. Len(d) <= Len(b) /\ d = SubSeq(b, 1, Len(d)) /\ l = SubSeq(b, Len(d) + 1, Len(b))
    BY DEF PartOf, RestOf
  <1>. HIDE DEF b, e
  <1>3. l \in Seq(Bytes) /\ Len(l) = Len(b) - Len(d) /\ Len(d) \in Nat /\ Len(b) \in Nat
    BY <1>1, <1>2
  <1>4. \A i \in 1 .. Len(l) : l[i] = b[Len(d) + i]
    <2>1. Len(d) \in 0 .. Len(b)
      BY <1>2, <1>3
    <2>2. \A i \in 1 .. Len(b) - Len(d) : SubSeq(b, Len(d) + 1, Len(b))[i] = b[Len(d) + i]
      BY <1>1, <2>1, Pieces
    <2>. QED
      BY <1>2, <1>3, <2>2
  <1>5. \A i \in 1 .. Len(d) : d[i] = b[i]
    BY <1>1, <1>2
  <1>6. e \in Seq(Bytes) /\ Len(e) = Len(d) + n
    <2>1. n \in 0 .. Len(l)
      BY <1>3
    <2>2. SubSeq(l, 1, n) \in Seq(Bytes) /\ Len(SubSeq(l, 1, n)) = n
      BY <1>3, <2>1, Pieces
    <2>. QED
      BY <1>0, <2>2, ConcatProperties
  <1>7. \A i \in 1 .. Len(e) : e[i] = b[i]
    <2>0. n \in 0 .. Len(l)
      BY <1>3
    <2>1. SubSeq(l, 1, n) \in Seq(Bytes) /\ Len(SubSeq(l, 1, n)) = n
             /\ \A i \in 1 .. n : SubSeq(l, 1, n)[i] = l[i]
      BY <1>3, <2>0, Pieces
    <2>2. SUFFICES ASSUME NEW i \in 1 .. Len(e) PROVE e[i] = b[i]
      OBVIOUS
    <2>3. CASE i \in 1 .. Len(d)
      BY <1>0, <1>5, <2>1, <2>3
    <2>4. CASE i \notin 1 .. Len(d)
      <3>1. i - Len(d) \in 1 .. n
        BY <1>3, <1>6, <2>4
      <3>2. e[i] = SubSeq(l, 1, n)[i - Len(d)]
        BY <1>0, <1>3, <1>6, <2>1, <2>4, <3>1
      <3>3. SubSeq(l, 1, n)[i - Len(d)] = l[i - Len(d)]
        BY <2>1, <3>1
      <3>4. i - Len(d) \in 1 .. Len(l)
        BY <1>3, <3>1
      <3>5. l[i - Len(d)] = b[Len(d) + (i - Len(d))]
        BY <1>4, <3>4
      <3>6. Len(d) + (i - Len(d)) = i
        BY <1>3, <1>6
      <3>. QED
        BY <3>2, <3>3, <3>5, <3>6
    <2>. QED
      BY <2>3, <2>4
  <1>8. Len(e) <= Len(b)
    BY <1>3, <1>6
  <1>9. e = SubSeq(b, 1, Len(e))
    <2>1. SubSeq(b, 1, Len(e)) \in Seq(Bytes) /\ Len(SubSeq(b, 1, Len(e))) = Len(e)
             /\ \A i \in 1 .. Len(e) : SubSeq(b, 1, Len(e))[i] = b[i]
      BY <1>1, <1>6, <1>8
    <2>. QED
      BY <1>6, <1>7, <2>1, SeqEqual
  <1>10. SubSeq(l, n + 1, Len(l)) = SubSeq(b, Len(e) + 1, Len(b))
    <2>0. n \in 0 .. Len(l)
      BY <1>3
    <2>1. /\ SubSeq(l, n + 1, Len(l)) \in Seq(Bytes) /\ Len(SubSeq(l, n + 1, Len(l))) = Len(l) - n
          /\ \A i \in 1 .. Len(l) - n : SubSeq(l, n + 1, Len(l))[i] = l[n + i]
      BY <1>3, <2>0, Pieces
    <2>2. /\ SubSeq(b, Len(e) + 1, Len(b)) \in Seq(Bytes)
          /\ Len(SubSeq(b, Len(e) + 1, Len(b))) = Len(l) - n
          /\ \A i \in 1 .. Len(l) - n : SubSeq(b, Len(e) + 1, Len(b))[i] = b[Len(e) + i]
      <3>1. Len(e) \in 0 .. Len(b) /\ Len(b) - Len(e) = Len(l) - n
        BY <1>3, <1>6, <1>8
      <3>2. /\ SubSeq(b, Len(e) + 1, Len(b)) \in Seq(Bytes)
            /\ Len(SubSeq(b, Len(e) + 1, Len(b))) = Len(b) - Len(e)
            /\ \A i \in 1 .. Len(b) - Len(e) : SubSeq(b, Len(e) + 1, Len(b))[i] = b[Len(e) + i]
        BY <1>1, <3>1, Pieces
      <3>. QED
        BY <3>1, <3>2
    <2>3. \A i \in 1 .. Len(l) - n : l[n + i] = b[Len(e) + i]
      <3>1. SUFFICES ASSUME NEW i \in 1 .. Len(l) - n PROVE l[n + i] = b[Len(e) + i]
        OBVIOUS
      <3>2. n + i \in 1 .. Len(l) /\ Len(d) + (n + i) = Len(e) + i
        BY <1>3, <1>6
      <3>. QED
        BY <1>4, <3>2
    <2>4. \A i \in 1 .. Len(l) - n :
             SubSeq(l, n + 1, Len(l))[i] = SubSeq(b, Len(e) + 1, Len(b))[i]
      BY <2>1, <2>2, <2>3
    <2>. QED
      BY <2>1, <2>2, <2>4, SeqEqual
  <1>11. SubSeq(l, n + 1, Len(l)) \in Seq(Bytes)
    <2>1. n \in 0 .. Len(l)
      BY <1>3
    <2>. QED
      BY <1>3, <2>1, Pieces
  <1>12. PartOf(e, u, r) /\ RestOf(SubSeq(l, n + 1, Len(l)), e, u, r)
    BY <1>8, <1>9, <1>10 DEF PartOf, RestOf, b
  <1>. QED
    BY <1>0, <1>6, <1>11, <1>12

(* The empty file is a part of every post, which is then left as a whole. *)
LEMMA NothingWritten ==
    ASSUME NEW r \in Posts, NEW u \in Nat
    PROVE  /\ <<>> \in Seq(Bytes) /\ PartOf(<<>>, u, r)
           /\ RestOf(FileBytes(u, r), <<>>, u, r)
  <1> DEFINE b == FileBytes(u, r)
  <1>1. b \in Seq(Bytes) /\ Len(b) \in Nat
    BY FileBytesType
  <1>. HIDE DEF b
  <1>2. 0 \in 0 .. Len(b) /\ Len(<<>>) = 0
    BY <1>1
  <1>3. SubSeq(b, 1, 0) \in Seq(Bytes) /\ Len(SubSeq(b, 1, 0)) = 0
    BY <1>1, <1>2, Pieces
  <1>4. SubSeq(b, 1, 0) = <<>>
    BY <1>3
  <1>5. b = SubSeq(b, 0 + 1, Len(b))
    BY <1>1, WholeSequence
  <1>. QED
    BY <1>1, <1>2, <1>4, <1>5 DEF PartOf, RestOf, b

(* Nothing left: all is written. *)
LEMMA AllWritten ==
    ASSUME NEW r \in Posts, NEW u \in Nat, NEW d \in Seq(Bytes), PartOf(d, u, r),
           RestOf(<<>>, d, u, r)
    PROVE  d = FileBytes(u, r)
  <1> DEFINE b == FileBytes(u, r)
  <1>1. b \in Seq(Bytes)
    BY FileBytesType
  <1>2. Len(d) <= Len(b) /\ d = SubSeq(b, 1, Len(d)) /\ SubSeq(b, Len(d) + 1, Len(b)) = <<>>
    BY DEF PartOf, RestOf
  <1>. HIDE DEF b
  <1>3. Len(d) \in 0 .. Len(b)
    BY <1>1, <1>2
  <1>4. Len(SubSeq(b, Len(d) + 1, Len(b))) = Len(b) - Len(d)
    BY <1>1, <1>3, Pieces
  <1>5. Len(d) = Len(b)
    <2>1. Len(SubSeq(b, Len(d) + 1, Len(b))) = Len(<<>>)
      BY <1>2
    <2>2. Len(<<>>) = 0 /\ Len(b) \in Nat
      BY <1>1
    <2>. QED
      BY <1>3, <1>4, <2>1, <2>2
  <1>. QED
    BY <1>1, <1>2, <1>5, WholeSequence DEF b

-----------------------------------------------------------------------------
(* How the steps change what was posted last.                                *)
LEMMA LatestAfter ==
    ASSUME posted \in Seq(Entries), NEW e \in Entries, posted' = Append(posted, e), NEW f
    PROVE  LatestOf(f)' = IF FileOf(e.post) = f THEN Len(posted) + 1 ELSE LatestOf(f)
  <1> DEFINE W == {u \in DOMAIN posted : FileOf(posted[u].post) = f}
             V == {u \in DOMAIN posted' : FileOf(posted'[u].post) = f}
  <1>1. /\ Len(posted) \in Nat /\ DOMAIN posted = 1 .. Len(posted)
        /\ DOMAIN posted' = 1 .. Len(posted) + 1 /\ posted'[Len(posted) + 1] = e
        /\ \A u \in DOMAIN posted : posted'[u] = posted[u]
    OBVIOUS
  <1>2. LatestOf(f)' = IF V = {} THEN 0 ELSE CHOOSE u \in V : \A v \in V : v <= u
    BY DEF LatestOf
  <1>3. LatestOf(f) = IF W = {} THEN 0 ELSE CHOOSE u \in W : \A v \in W : v <= u
    BY DEF LatestOf
  <1>4. CASE FileOf(e.post) = f
    <2>1. Len(posted) + 1 \in V /\ V \subseteq 1 .. Len(posted) + 1
      BY <1>1, <1>4
    <2>. HIDE DEF V
    <2>2. \A v \in V : v <= Len(posted) + 1
      BY <1>1, <2>1
    <2>3. \A u \in V : (\A v \in V : v <= u) => u = Len(posted) + 1
      BY <1>1, <2>1, <2>2
    <2>. QED
      BY <1>2, <1>4, <2>1, <2>2, <2>3
  <1>5. CASE FileOf(e.post) # f
    <2>1. V = W
      BY <1>1, <1>5
    <2>. QED
      BY <1>2, <1>3, <1>5, <2>1
  <1>. QED
    BY <1>4, <1>5

(* No new post: the last ones stay.                                          *)
LEMMA LatestKept ==
    ASSUME DOMAIN posted' = DOMAIN posted,
           \A u \in DOMAIN posted : posted'[u].post = posted[u].post, NEW f
    PROVE  LatestOf(f)' = LatestOf(f)
  <1> DEFINE W == {u \in DOMAIN posted : FileOf(posted[u].post) = f}
             V == {u \in DOMAIN posted' : FileOf(posted'[u].post) = f}
  <1>1. LatestOf(f)' = IF V = {} THEN 0 ELSE CHOOSE u \in V : \A v \in V : v <= u
    BY DEF LatestOf
  <1>2. LatestOf(f) = IF W = {} THEN 0 ELSE CHOOSE u \in W : \A v \in W : v <= u
    BY DEF LatestOf
  <1>3. V = W
    OBVIOUS
  <1>. QED
    BY <1>1, <1>2, <1>3

(* Posts are numbers and have their types. *)
LEMMA EntryType ==
    ASSUME Kinds, NEW u \in DOMAIN posted
    PROVE  /\ u \in Nat /\ posted[u] \in Entries /\ posted[u].post \in Posts
           /\ FileOf(posted[u].post) \in Files
  <1>1. u \in Nat /\ posted[u] \in Entries
    BY DEF Kinds
  <1>2. posted[u].post \in Posts
    BY <1>1 DEF Entries
  <1>. QED
    BY <1>1, <1>2, FileOfType

(* What installs got stays right while posts stay what they are; only the    *)
(* post in the works can become sound.                                       *)
LEMMA InstallsKept ==
    ASSUME Kinds, NotAtWork, OneProgram, InstallsTheUpload, installed' = installed,
           DOMAIN posted \subseteq DOMAIN posted',
           \A u \in DOMAIN posted :
              /\ posted'[u].post = posted[u].post
              /\ \/ posted'[u] = posted[u]
                 \/ posted'[u].lost
                 \/ up.pc = "write" /\ u = up.u
    PROVE  OneProgram' /\ InstallsTheUpload'
  <1>1. OneProgram'
    BY DEF OneProgram
  <1>2. InstallsTheUpload'
    <2>1. SUFFICES ASSUME NEW n \in DOMAIN installed, NEW i, i = installed[n], ~i.overlap
                   PROVE  /\ i.latest = 0 => i.bytes = <<>>
                          /\ /\ i.latest # 0
                             /\ Plain(posted'[i.latest].post) /\ ~posted'[i.latest].lost
                             /\ posted'[i.latest].answers = <<200>>
                             => i.bytes = Program(i.latest, posted'[i.latest].post)
      BY DEF InstallsTheUpload, Sound, ProgramOf
    <2>2. /\ i.latest = 0 => i.bytes = <<>>
          /\ /\ i.latest # 0
             /\ Plain(posted[i.latest].post) /\ ~posted[i.latest].lost
             /\ posted[i.latest].answers = <<200>>
             => i.bytes = Program(i.latest, posted[i.latest].post)
      BY <2>1 DEF InstallsTheUpload, Sound, ProgramOf
    <2>3. i.latest # 0 => i.latest \in DOMAIN posted /\ ~(up.pc = "write" /\ up.u = i.latest)
      BY <2>1 DEF NotAtWork
    <2>. QED
      BY <2>2, <2>3
  <1>. QED
    BY <1>1, <1>2

-----------------------------------------------------------------------------
(* Each step keeps the invariant.  A post becomes the last of its file,      *)
(* which is emptied, or not there when fopen fails.                          *)
LEMMA StartStep ==
    ASSUME IInv, NEW r \in Posts, StartUpload(r)
    PROVE  IInv'
  <1> DEFINE u == Len(posted) + 1
             f == FileOf(r)
             e == [post |-> r, lost |-> FALSE, answers |-> IF Found(r) THEN <<>> ELSE <<400>>]
  <1>1. Kinds /\ up.pc = "poll" /\ posted' = Append(posted, e) /\ UNCHANGED <<inst, installed>>
    BY DEF IInv, StartUpload
  <1>2. e \in Entries /\ f \in Files
    <2>1. <<>> \in Seq({200, 400}) /\ <<400>> \in Seq({200, 400})
      OBVIOUS
    <2>. QED
      BY <2>1, FileOfType DEF Entries
  <1>3. /\ posted \in Seq(Entries) /\ posted' \in Seq(Entries)
        /\ u \in Nat \ {0} /\ Len(posted') = u /\ u \notin DOMAIN posted
        /\ DOMAIN posted' = DOMAIN posted \cup {u}
        /\ posted'[u] = e /\ \A v \in DOMAIN posted : posted'[v] = posted[v]
    BY <1>1, <1>2 DEF Kinds
  <1>. HIDE DEF e
  <1>4. e.post = r /\ e.lost = FALSE /\ e.answers = IF Found(r) THEN <<>> ELSE <<400>>
    BY DEF e
  <1>5. \A g : LatestOf(g)' = IF f = g THEN u ELSE LatestOf(g)
    BY <1>1, <1>2, <1>3, <1>4, LatestAfter
  <1>6. \/ up' = [up EXCEPT !.pc = "dead", !.u = u] /\ disk' = disk /\ overlap' = overlap
        \/ /\ up' = [pc |-> "write", u |-> u, left |-> FileBytes(u, r)]
           /\ disk' = [g \in DOMAIN disk \cup {f} |-> IF g = f THEN <<>> ELSE disk[g]]
           /\ overlap' = (overlap \/ Reading(f))
    BY DEF StartUpload, WithFile, Opened
  <1>. HIDE DEF u, f
  <1>7. /\ up'.u = u /\ up'.pc # "poll"
        /\ up' \in [pc : {"poll", "write", "dead"}, u : Nat, left : Seq(Bytes)]
        /\ up'.pc = "write" => /\ up'.left = FileBytes(u, r)
                               /\ disk' = [g \in DOMAIN disk \cup {f} |->
                                             IF g = f THEN <<>> ELSE disk[g]]
                               /\ overlap' = (overlap \/ Reading(f))
    <2>1. up \in [pc : {"poll", "write", "dead"}, u : Nat, left : Seq(Bytes)]
      BY <1>1 DEF Kinds
    <2>2. FileBytes(u, r) \in Seq(Bytes)
      BY <1>3, FileBytesType
    <2>3. CASE up' = [up EXCEPT !.pc = "dead", !.u = u]
      BY <1>3, <2>1, <2>3
    <2>4. CASE up' = [pc |-> "write", u |-> u, left |-> FileBytes(u, r)]
      <3>1. up'.pc = "write"
        BY <2>4
      <3>. QED
        BY <1>3, <1>6, <2>1, <2>2, <2>4, <3>1
    <2>. QED
      BY <1>6, <2>3, <2>4
  <1>8. Kinds'
    <2>2. DOMAIN disk' \subseteq Files /\ DOMAIN disk \subseteq DOMAIN disk'
      BY <1>1, <1>2, <1>6 DEF Kinds
    <2>3. disk' \in [DOMAIN disk' -> Seq(Bytes)]
      <3>1. disk \in [DOMAIN disk -> Seq(Bytes)] /\ <<>> \in Seq(Bytes)
        BY <1>1 DEF Kinds
      <3>. QED
        BY <1>6, <3>1
    <2>4. overlap' \in BOOLEAN
      BY <1>1, <1>6 DEF Kinds, Reading
    <2>. QED
      BY <1>1, <1>3, <1>7, <2>2, <2>3, <2>4 DEF Kinds
  <1>9. AnswersDue'
    <2>1. SUFFICES ASSUME NEW v \in DOMAIN posted'
                   PROVE  posted'[v].answers
                            = (IF Found(posted'[v].post) THEN <<>> ELSE <<400>>)
                                 \o (IF v = up'.u /\ up'.pc # "poll" THEN <<>> ELSE <<200>>)
      BY DEF AnswersDue
    <2>2. CASE v = u
      <3>1. <<>> \o <<>> = <<>> /\ <<400>> \o <<>> = <<400>>
        BY ConcatEmptySeq
      <3>. QED
        BY <1>3, <1>4, <1>7, <2>2, <3>1
    <2>3. CASE v # u
      <3>1. v \in DOMAIN posted /\ posted'[v] = posted[v]
        BY <1>3, <2>3
      <3>. QED
        BY <1>1, <1>7, <2>3, <3>1 DEF IInv, AnswersDue
    <2>. QED
      BY <2>2, <2>3
  <1>10. OnePost'
    <2>1. SUFFICES ASSUME NEW g \in DOMAIN disk'
                   PROVE  /\ LatestOf(g)' # 0
                          /\ \E v \in DOMAIN posted' :
                                FileOf(posted'[v].post) = g /\ PartOf(disk'[g], v, posted'[v].post)
      BY DEF OnePost
    <2>2. CASE g \in DOMAIN disk /\ disk'[g] = disk[g]
      <3>1. /\ LatestOf(g) # 0
            /\ \E v \in DOMAIN posted :
                  FileOf(posted[v].post) = g /\ PartOf(disk[g], v, posted[v].post)
        BY <2>2 DEF IInv, OnePost
      <3>. QED
        BY <1>3, <1>5, <2>2, <3>1
    <2>3. CASE g = f /\ disk'[g] = <<>>
      BY <1>3, <1>4, <1>5, <2>3, NothingWritten DEF f
    <2>. QED
      BY <1>6, <2>1, <2>2, <2>3
  <1>11. Latest'
    <2>1. SUFFICES ASSUME NEW g \in Files, LatestOf(g)' # 0
                   PROVE  /\ LatestOf(g)' \in DOMAIN posted'
                          /\ FileOf(posted'[LatestOf(g)'].post) = g
      BY DEF Latest
    <2>2. CASE f = g
      BY <1>3, <1>4, <1>5, <2>2 DEF f
    <2>3. CASE f # g
      <3>1. LatestOf(g) # 0 /\ LatestOf(g)' = LatestOf(g)
        BY <1>5, <2>1, <2>3
      <3>2. LatestOf(g) \in DOMAIN posted /\ FileOf(posted[LatestOf(g)].post) = g
        BY <3>1 DEF IInv, Latest
      <3>. QED
        BY <1>3, <3>1, <3>2
    <2>. QED
      BY <2>2, <2>3
  <1>12. AtWork'
    <2>1. SUFFICES ASSUME up'.pc = "write"
                   PROVE  /\ u \in DOMAIN posted' /\ LatestOf(f)' = u
                          /\ f \in DOMAIN disk' /\ PartOf(disk'[f], u, r)
                          /\ RestOf(up'.left, disk'[f], u, r)
      BY <1>3, <1>4, <1>7, <2>1 DEF AtWork, f
    <2>2. /\ up'.left = FileBytes(u, r) /\ f \in DOMAIN disk' /\ disk'[f] = <<>>
      BY <1>7, <2>1
    <2>. QED
      BY <1>3, <1>5, <2>2, NothingWritten
  <1>13. Saved'
    <2>1. SUFFICES ASSUME NEW v \in DOMAIN posted', NEW g, g = FileOf(posted'[v].post),
                          LatestOf(g)' = v, ~posted'[v].lost, v # u
                   PROVE  g \in DOMAIN disk' /\ disk'[g] = FileBytes(v, posted'[v].post)
      BY <1>7 DEF Saved
    <2>2. v \in DOMAIN posted /\ posted'[v] = posted[v] /\ g # f /\ LatestOf(g) = v
      BY <1>3, <1>5, <2>1
    <2>3. g \in DOMAIN disk /\ disk[g] = FileBytes(v, posted[v].post)
      BY <1>1, <2>1, <2>2 DEF IInv, Saved
    <2>. QED
      BY <1>6, <2>2, <2>3
  <1>14. Undisturbed'
    <2>1. SUFFICES ASSUME inst.pc # "idle", ~overlap'
                   PROVE  /\ ~(up'.pc = "write" /\ FileOf(posted'[up'.u].post) = inst.file)
                          /\ inst.pc = "measured" => inst.size = Len(disk'[inst.file])
      BY <1>1 DEF Undisturbed, Writing
    <2>2. inst.pc = "measured" => inst.size = Len(disk[inst.file])
      BY <1>6, <2>1 DEF IInv, Undisturbed
    <2>3. inst.file \in DOMAIN disk
      BY <1>1, <2>1 DEF Kinds
    <2>4. CASE up'.pc = "write"
      <3>1. inst.file # f
        BY <1>7, <2>1, <2>4 DEF Reading
      <3>2. FileOf(posted'[up'.u].post) = f
        BY <1>3, <1>4, <1>7 DEF f
      <3>. QED
        BY <1>7, <2>2, <2>3, <2>4, <3>1, <3>2
    <2>5. CASE up'.pc # "write"
      <3>1. disk' = disk
        BY <1>6, <2>5
      <3>. QED
        BY <2>2, <2>5, <3>1
    <2>. QED
      BY <2>4, <2>5
  <1>15. NotAtWork'
    BY <1>1, <1>3, <1>7 DEF IInv, NotAtWork
  <1>16. OneProgram' /\ InstallsTheUpload'
    BY <1>1, <1>3, InstallsKept DEF IInv
  <1>. QED
    BY <1>8, <1>9, <1>10, <1>11, <1>12, <1>13, <1>14, <1>15, <1>16 DEF IInv

(* What WritePart does to the post u, r in the works and its file f, whether *)
(* the bytes arrive or are lost.                                             *)
Wrote(u, r, f) ==
    /\ up' \in [pc : {"poll", "write", "dead"}, u : Nat, left : Seq(Bytes)]
    /\ up'.pc = "write" /\ up'.u = u
    /\ DOMAIN disk' = DOMAIN disk /\ disk' \in [DOMAIN disk -> Seq(Bytes)]
    /\ \A g \in DOMAIN disk : g # f => disk'[g] = disk[g]
    /\ posted' \in Seq(Entries) /\ Len(posted') = Len(posted) /\ DOMAIN posted' = DOMAIN posted
    /\ \A v \in DOMAIN posted : /\ posted'[v].post = posted[v].post
                                /\ posted'[v].answers = posted[v].answers
                                /\ posted'[v] = posted[v] \/ (v = u /\ posted'[v].lost)
    /\ PartOf(disk'[f], u, r)
    /\ \/ RestOf(up'.left, disk'[f], u, r)
       \/ up'.left = <<>> /\ posted'[u].lost

(* A part goes out, or is lost with the rest.                                *)
LEMMA WriteStep ==
    ASSUME IInv, WritePart
    PROVE  IInv'
  <1>0. SUFFICES ASSUME NEW u, u = up.u, NEW r, r = posted[u].post, NEW f, f = FileOf(r)
                 PROVE  IInv'
    OBVIOUS
  <1>1. Kinds /\ up.pc = "write" /\ UNCHANGED <<inst, installed>>
    BY DEF IInv, WritePart
  <1>2. /\ u \in DOMAIN posted /\ LatestOf(f) = u
        /\ f \in DOMAIN disk /\ PartOf(disk[f], u, r)
        /\ RestOf(up.left, disk[f], u, r)
    BY <1>0, <1>1 DEF IInv, AtWork, WritePart
  <1>3. u \in Nat /\ r \in Posts /\ f \in Files
    BY <1>0, <1>1, <1>2, EntryType
  <1>4. /\ up \in [pc : {"poll", "write", "dead"}, u : Nat, left : Seq(Bytes)]
        /\ posted \in Seq(Entries) /\ disk \in [DOMAIN disk -> Seq(Bytes)]
        /\ DOMAIN disk \subseteq Files /\ disk[f] \in Seq(Bytes)
    BY <1>1, <1>2 DEF Kinds
  <1>5. /\ overlap' = (overlap \/ Reading(f))
        /\ \/ \E n \in 1 .. Len(up.left) :
                 /\ disk' = [g \in DOMAIN disk \cup {f} |->
                               IF g = f THEN disk[f] \o SubSeq(up.left, 1, n) ELSE disk[g]]
                 /\ up' = [up EXCEPT !.left = SubSeq(up.left, n + 1, Len(up.left))]
                 /\ posted' = posted
           \/ /\ up' = [up EXCEPT !.left = <<>>] /\ disk' = disk
              /\ posted' = [posted EXCEPT ![u].lost = TRUE]
    BY <1>0 DEF WritePart, WithFile
  <1>6. Wrote(u, r, f)
    <2>1. ASSUME NEW n \in 1 .. Len(up.left),
                 disk' = [g \in DOMAIN disk \cup {f} |->
                            IF g = f THEN disk[f] \o SubSeq(up.left, 1, n) ELSE disk[g]],
                 up' = [up EXCEPT !.left = SubSeq(up.left, n + 1, Len(up.left))],
                 posted' = posted
          PROVE  Wrote(u, r, f)
      <3> DEFINE d == disk[f]
                 l == up.left
                 e == d \o SubSeq(l, 1, n)
      <3>1. /\ d \in Seq(Bytes) /\ PartOf(d, u, r) /\ n \in 1 .. Len(l)
            /\ l \in Seq(Bytes) /\ RestOf(l, d, u, r)
        BY <1>2, <1>4
      <3>. HIDE DEF d, l
      <3>2. /\ SubSeq(l, n + 1, Len(l)) \in Seq(Bytes) /\ e \in Seq(Bytes)
            /\ PartOf(e, u, r) /\ RestOf(SubSeq(l, n + 1, Len(l)), e, u, r)
        BY <1>3, <3>1, PartWritten
      <3>3. /\ up' \in [pc : {"poll", "write", "dead"}, u : Nat, left : Seq(Bytes)]
            /\ up'.pc = "write" /\ up'.u = u /\ up'.left = SubSeq(l, n + 1, Len(l))
        BY <1>0, <1>1, <1>4, <2>1, <3>2 DEF l
      <3>. HIDE DEF e
      <3>4. disk' = [g \in DOMAIN disk \cup {f} |-> IF g = f THEN e ELSE disk[g]]
        BY <2>1 DEF e, d, l
      <3>5. /\ DOMAIN disk' = DOMAIN disk /\ disk' \in [DOMAIN disk -> Seq(Bytes)]
            /\ \A g \in DOMAIN disk : g # f => disk'[g] = disk[g]
            /\ disk'[f] = e
        BY <1>2, <1>4, <3>2, <3>4
      <3>. QED
        BY <1>4, <2>1, <3>2, <3>3, <3>5 DEF Wrote
    <2>2. ASSUME up' = [up EXCEPT !.left = <<>>], disk' = disk,
                 posted' = [posted EXCEPT ![u].lost = TRUE]
          PROVE  Wrote(u, r, f)
      <3>1. /\ up' \in [pc : {"poll", "write", "dead"}, u : Nat, left : Seq(Bytes)]
            /\ up'.pc = "write" /\ up'.u = u /\ up'.left = <<>>
        <4>1. <<>> \in Seq(Bytes)
          OBVIOUS
        <4>. QED
          BY <1>0, <1>1, <1>4, <2>2, <4>1
      <3>2. [posted[u] EXCEPT !.lost = TRUE] \in Entries
        <4>1. posted[u] \in Entries
          BY <1>2, <1>4
        <4>. QED
          BY <4>1 DEF Entries
      <3>3. /\ posted' \in Seq(Entries) /\ Len(posted') = Len(posted)
            /\ DOMAIN posted' = DOMAIN posted
            /\ \A v \in DOMAIN posted : v # u => posted'[v] = posted[v]
            /\ posted'[u] = [posted[u] EXCEPT !.lost = TRUE]
        BY <1>2, <1>4, <2>2, <3>2
      <3>4. /\ posted'[u].post = posted[u].post /\ posted'[u].answers = posted[u].answers
            /\ posted'[u].lost
        BY <1>2, <1>4, <3>3 DEF Entries
      <3>. QED
        BY <1>2, <1>4, <2>2, <3>1, <3>3, <3>4 DEF Wrote
    <2>. QED
      BY <1>5, <2>1, <2>2
  <1>7. \A g : LatestOf(g)' = LatestOf(g)
    BY <1>6, LatestKept DEF Wrote
  <1>8. Kinds'
    BY <1>1, <1>4, <1>5, <1>6 DEF Kinds, Wrote, Reading
  <1>9. AnswersDue'
    <2>1. SUFFICES ASSUME NEW v \in DOMAIN posted
                   PROVE  posted'[v].answers
                            = (IF Found(posted'[v].post) THEN <<>> ELSE <<400>>)
                                 \o (IF v = up'.u /\ up'.pc # "poll" THEN <<>> ELSE <<200>>)
      BY <1>6 DEF AnswersDue, Wrote
    <2>2. /\ posted'[v].answers = posted[v].answers /\ posted'[v].post = posted[v].post
          /\ up'.u = up.u /\ up'.pc = up.pc
      BY <1>0, <1>1, <1>6 DEF Wrote
    <2>3. posted[v].answers
            = (IF Found(posted[v].post) THEN <<>> ELSE <<400>>)
                 \o (IF v = up.u /\ up.pc # "poll" THEN <<>> ELSE <<200>>)
      BY DEF IInv, AnswersDue
    <2>. QED
      BY <2>2, <2>3
  <1>10. OnePost'
    <2>1. SUFFICES ASSUME NEW g \in DOMAIN disk
                   PROVE  /\ LatestOf(g)' # 0
                          /\ \E v \in DOMAIN posted :
                                FileOf(posted[v].post) = g /\ PartOf(disk'[g], v, posted[v].post)
      BY <1>6 DEF OnePost, Wrote
    <2>2. CASE g = f
      BY <1>0, <1>2, <1>3, <1>6, <1>7, <2>2 DEF Wrote, IInv, OnePost
    <2>3. CASE g # f
      BY <1>6, <1>7, <2>1, <2>3 DEF IInv, OnePost, Wrote
    <2>. QED
      BY <2>2, <2>3
  <1>11. Latest'
    BY <1>6, <1>7 DEF IInv, Latest, Wrote
  <1>12. AtWork'
    <2>1. posted'[up'.u].post = r /\ up'.u = u
      BY <1>0, <1>2, <1>6 DEF Wrote
    <2>2. SUFFICES /\ u \in DOMAIN posted' /\ LatestOf(f)' = u
                   /\ f \in DOMAIN disk' /\ PartOf(disk'[f], u, r)
                   /\ \/ RestOf(up'.left, disk'[f], u, r)
                      \/ up'.left = <<>> /\ posted'[u].lost
      BY <1>0, <2>1 DEF AtWork
    <2>. QED
      BY <1>2, <1>6, <1>7 DEF Wrote
  <1>13. Saved'
    <2>1. SUFFICES ASSUME NEW v \in DOMAIN posted, NEW g, g = FileOf(posted[v].post),
                          LatestOf(g) = v, ~posted'[v].lost, v # u
                   PROVE  g \in DOMAIN disk /\ disk'[g] = FileBytes(v, posted[v].post)
      BY <1>6, <1>7 DEF Saved, Wrote
    <2>2. g # f /\ posted'[v] = posted[v]
      BY <1>2, <1>6, <1>7, <2>1 DEF Wrote
    <2>3. g \in DOMAIN disk /\ disk[g] = FileBytes(v, posted[v].post)
      BY <1>0, <2>1, <2>2 DEF IInv, Saved
    <2>. QED
      BY <1>6, <2>2, <2>3 DEF Wrote
  <1>14. Undisturbed'
    <2>1. SUFFICES ASSUME inst.pc # "idle", ~overlap'
                   PROVE  /\ FileOf(posted'[up'.u].post) # inst.file
                          /\ inst.pc = "measured" => inst.size = Len(disk'[inst.file])
      BY <1>1 DEF Undisturbed, Writing
    <2>2. inst.file # f /\ ~overlap
      BY <1>5, <2>1 DEF Reading
    <2>3. inst.pc = "measured" => inst.size = Len(disk[inst.file])
      BY <2>1, <2>2 DEF IInv, Undisturbed
    <2>4. inst.file \in DOMAIN disk
      BY <1>1, <2>1 DEF Kinds
    <2>. QED
      BY <1>0, <1>2, <1>6, <2>2, <2>3, <2>4 DEF Wrote
  <1>15. NotAtWork'
    BY <1>0, <1>1, <1>6 DEF IInv, NotAtWork, Wrote
  <1>16. OneProgram' /\ InstallsTheUpload'
    BY <1>1, <1>6, InstallsKept DEF IInv, Wrote
  <1>. QED
    BY <1>8, <1>9, <1>10, <1>11, <1>12, <1>13, <1>14, <1>15, <1>16 DEF IInv

(* The process ends; the post in the works stays so.                         *)
LEMMA DieStep ==
    ASSUME IInv, DieReading
    PROVE  IInv'
  <1>1. /\ up.pc = "write" /\ up' = [up EXCEPT !.pc = "dead"]
        /\ UNCHANGED <<disk, posted, inst, overlap, installed>>
    BY DEF DieReading
  <1>2. up \in [pc : {"poll", "write", "dead"}, u : Nat, left : Seq(Bytes)]
    BY DEF IInv, Kinds
  <1>3. /\ up'.pc = "dead" /\ up'.u = up.u
        /\ up' \in [pc : {"poll", "write", "dead"}, u : Nat, left : Seq(Bytes)]
    BY <1>1, <1>2
  <1>4. \A g : LatestOf(g)' = LatestOf(g)
    BY <1>1, LatestKept
  <1>5. Kinds'
    BY <1>1, <1>3 DEF IInv, Kinds
  <1>6. AnswersDue'
    <2>1. SUFFICES ASSUME NEW v \in DOMAIN posted
                   PROVE  posted[v].answers
                            = (IF Found(posted[v].post) THEN <<>> ELSE <<400>>)
                                 \o (IF v = up.u /\ up.pc # "poll" THEN <<>> ELSE <<200>>)
      BY <1>1, <1>3 DEF AnswersDue
    <2>. QED
      BY DEF IInv, AnswersDue
  <1>7. OnePost' /\ Latest'
    BY <1>1, <1>4 DEF IInv, OnePost, Latest
  <1>8. AtWork' /\ Undisturbed' /\ NotAtWork'
    BY <1>1, <1>3 DEF IInv, AtWork, Undisturbed, Writing, NotAtWork
  <1>9. Saved'
    BY <1>1, <1>3, <1>4 DEF IInv, Saved
  <1>10. OneProgram' /\ InstallsTheUpload'
    BY <1>1, InstallsKept DEF IInv
  <1>. QED
    BY <1>5, <1>6, <1>7, <1>8, <1>9, <1>10 DEF IInv

(* The post in the works is answered 200, and is in its file if not lost.    *)
LEMMA FinishStep ==
    ASSUME IInv, FinishUpload
    PROVE  IInv'
  <1>0. SUFFICES ASSUME NEW u, u = up.u
                 PROVE  IInv'
    OBVIOUS
  <1>1. /\ up.pc = "write" /\ up.left = <<>> /\ up' = [up EXCEPT !.pc = "poll"]
        /\ posted' = [posted EXCEPT ![u].answers = Append(posted[u].answers, 200)]
        /\ UNCHANGED <<disk, inst, overlap, installed>>
    BY <1>0 DEF FinishUpload
  <1>2. /\ up \in [pc : {"poll", "write", "dead"}, u : Nat, left : Seq(Bytes)]
        /\ posted \in Seq(Entries)
    BY DEF IInv, Kinds
  <1>3. /\ up'.pc = "poll" /\ up'.u = u
        /\ up' \in [pc : {"poll", "write", "dead"}, u : Nat, left : Seq(Bytes)]
    BY <1>0, <1>1, <1>2
  <1>4. /\ u \in DOMAIN posted /\ u \in Nat
    BY <1>0, <1>1, <1>2 DEF IInv, AtWork
  <1>5. /\ posted[u] \in Entries /\ Append(posted[u].answers, 200) \in Seq({200, 400})
        /\ [posted[u] EXCEPT !.answers = Append(posted[u].answers, 200)] \in Entries
    <2>1. posted[u] \in Entries
      BY <1>2, <1>4
    <2>2. posted[u].answers \in Seq({200, 400})
      BY <2>1 DEF Entries
    <2>3. Append(posted[u].answers, 200) \in Seq({200, 400})
      BY <2>2
    <2>. QED
      BY <2>1, <2>3 DEF Entries
  <1>6. /\ posted' \in Seq(Entries) /\ Len(posted') = Len(posted) /\ DOMAIN posted' = DOMAIN posted
        /\ posted'[u] = [posted[u] EXCEPT !.answers = Append(posted[u].answers, 200)]
        /\ \A v \in DOMAIN posted : v # u => posted'[v] = posted[v]
    BY <1>1, <1>2, <1>4, <1>5
  <1>7. /\ posted'[u].answers = Append(posted[u].answers, 200)
        /\ \A v \in DOMAIN posted : /\ posted'[v].post = posted[v].post
                                    /\ posted'[v].lost = posted[v].lost
    BY <1>4, <1>5, <1>6 DEF Entries
  <1>8. \A g : LatestOf(g)' = LatestOf(g)
    BY <1>6, <1>7, LatestKept
  <1>9. Kinds'
    BY <1>0, <1>1, <1>3, <1>6 DEF IInv, Kinds
  <1>10. AnswersDue'
    <2>1. SUFFICES ASSUME NEW v \in DOMAIN posted
                   PROVE  posted'[v].answers
                            = (IF Found(posted[v].post) THEN <<>> ELSE <<400>>) \o <<200>>
      BY <1>3, <1>6, <1>7 DEF AnswersDue
    <2>2. posted[v].answers
            = (IF Found(posted[v].post) THEN <<>> ELSE <<400>>)
                 \o (IF v = u THEN <<>> ELSE <<200>>)
      BY <1>0, <1>1 DEF IInv, AnswersDue
    <2>3. CASE v = u
      <3> DEFINE x == IF Found(posted[v].post) THEN <<>> ELSE <<400>>
      <3>1. x \in Seq({200, 400})
        <4>1. <<>> \in Seq({200, 400}) /\ <<400>> \in Seq({200, 400})
          OBVIOUS
        <4>. QED
          BY <4>1
      <3>. HIDE DEF x
      <3>2. x \o <<>> = x /\ Append(x, 200) = x \o <<200>>
        BY <3>1, ConcatEmptySeq, AppendIsConcat
      <3>. QED
        BY <1>7, <2>2, <2>3, <3>2 DEF x
    <2>4. CASE v # u
      BY <1>6, <2>2, <2>4
    <2>. QED
      BY <2>3, <2>4
  <1>11. OnePost' /\ Latest'
    BY <1>1, <1>6, <1>7, <1>8 DEF IInv, OnePost, Latest
  <1>12. AtWork' /\ Undisturbed' /\ NotAtWork'
    BY <1>1, <1>3, <1>6 DEF IInv, AtWork, Undisturbed, Writing, NotAtWork
  <1>13. Saved'
    <2>1. SUFFICES ASSUME NEW v \in DOMAIN posted, NEW g, g = FileOf(posted[v].post),
                          LatestOf(g) = v, ~posted[v].lost
                   PROVE  g \in DOMAIN disk /\ disk[g] = FileBytes(v, posted[v].post)
      BY <1>1, <1>6, <1>7, <1>8 DEF Saved
    <2>2. CASE v = u
      <3>1. g \in DOMAIN disk /\ PartOf(disk[g], v, posted[v].post)
               /\ RestOf(<<>>, disk[g], v, posted[v].post)
        BY <1>0, <1>1, <2>1, <2>2 DEF IInv, AtWork
      <3>2. posted[v].post \in Posts /\ v \in Nat /\ disk[g] \in Seq(Bytes)
        BY <3>1, EntryType DEF IInv, Kinds
      <3>. QED
        BY <3>1, <3>2, AllWritten
    <2>3. CASE v # u
      BY <1>0, <2>1, <2>3 DEF IInv, Saved
    <2>. QED
      BY <2>2, <2>3
  <1>14. OneProgram' /\ InstallsTheUpload'
    BY <1>0, <1>1, <1>6, <1>7, InstallsKept DEF IInv
  <1>. QED
    BY <1>9, <1>10, <1>11, <1>12, <1>13, <1>14 DEF IInv

(* An install leaves the folder and the posts alone. *)
LEMMA FolderKept ==
    ASSUME IInv, UNCHANGED <<disk, up, posted>>
    PROVE  AnswersDue' /\ OnePost' /\ Latest' /\ AtWork' /\ Saved'
  <1>1. \A g : LatestOf(g)' = LatestOf(g)
    BY LatestKept
  <1>2. AnswersDue'
    BY DEF IInv, AnswersDue
  <1>3. OnePost' /\ Latest'
    BY <1>1 DEF IInv, OnePost, Latest
  <1>4. AtWork'
    <2>1. SUFFICES ASSUME up.pc = "write", NEW r, r = posted[up.u].post, NEW f, f = FileOf(r)
                   PROVE  /\ up.u \in DOMAIN posted /\ LatestOf(f)' = up.u
                          /\ f \in DOMAIN disk /\ PartOf(disk[f], up.u, r)
                          /\ \/ RestOf(up.left, disk[f], up.u, r)
                             \/ up.left = <<>> /\ posted[up.u].lost
      BY DEF AtWork
    <2>. QED
      BY <1>1, <2>1 DEF IInv, AtWork
  <1>5. Saved'
    BY <1>1 DEF IInv, Saved
  <1>. QED
    BY <1>2, <1>3, <1>4, <1>5

(* The post f holds last is answered 200 only when its handler is done with  *)
(* it; then f is there and holds all of it.                                  *)
LEMMA SoundIsSaved ==
    ASSUME IInv, NEW f, LatestOf(f) # 0, f \in Files, NEW u, u = LatestOf(f),
           Sound(u)
    PROVE  f \in DOMAIN disk /\ disk[f] = ProgramOf(u)
  <1>1. u \in DOMAIN posted /\ FileOf(posted[u].post) = f
    BY DEF IInv, Latest
  <1>2. posted[u].post \in Posts /\ u \in Nat
    BY <1>1, EntryType DEF IInv
  <1>3. ~(u = up.u /\ up.pc # "poll")
    <2>1. SUFFICES ASSUME u = up.u, up.pc # "poll" PROVE FALSE
      OBVIOUS
    <2>2. posted[u].answers = <<>> \o <<>>
      BY <1>1, <2>1 DEF IInv, AnswersDue, Sound, Plain
    <2>3. <<>> \o <<>> = <<>> /\ <<>> # <<200>>
      BY ConcatEmptySeq
    <2>. QED
      BY <2>2, <2>3 DEF Sound
  <1>4. f \in DOMAIN disk /\ disk[f] = FileBytes(u, posted[u].post)
    BY <1>1, <1>3 DEF IInv, Saved, Sound
  <1>. QED
    BY <1>2, <1>4, PlainBytes DEF Sound, ProgramOf

(* What an install got is right if it is what one post wrote of the file,    *)
(* and the last one's program if nothing overlapped.                         *)
LEMMA Got ==
    ASSUME IInv, UNCHANGED <<disk, up, posted>>, NEW f \in Files, NEW bytes \in Seq(Bytes),
           installed' = Append(installed, Outcome(f, bytes)),
           bytes # <<>> => \E u \in DOMAIN posted :
                              FileOf(posted[u].post) = f /\ PartOf(bytes, u, posted[u].post),
           ~overlap => ~(up.pc = "write" /\ up.u = LatestOf(f)),
           ~overlap /\ LatestOf(f) = 0 => bytes = <<>>,
           ~overlap /\ LatestOf(f) # 0 /\ Sound(LatestOf(f)) => bytes = ProgramOf(LatestOf(f))
    PROVE  /\ installed' \in Seq(Results)
           /\ NotAtWork' /\ OneProgram' /\ InstallsTheUpload'
  <1> DEFINE o == [file |-> f, bytes |-> bytes, overlap |-> overlap, latest |-> LatestOf(f)]
  <1>1. installed' = Append(installed, o) /\ installed \in Seq(Results)
    BY DEF Outcome, IInv, Kinds
  <1>2. LatestOf(f) # 0 => LatestOf(f) \in DOMAIN posted
    BY DEF IInv, Latest
  <1>3. o \in Results
    <2>1. LatestOf(f) \in Nat
      BY <1>2 DEF IInv, Kinds
    <2>. QED
      BY <2>1 DEF Results, IInv, Kinds
  <1>4. /\ o.file = f /\ o.bytes = bytes /\ o.overlap = overlap /\ o.latest = LatestOf(f)
    OBVIOUS
  <1>. HIDE DEF o
  <1>5. /\ installed' \in Seq(Results)
        /\ DOMAIN installed' = DOMAIN installed \cup {Len(installed) + 1}
        /\ installed'[Len(installed) + 1] = o
        /\ \A n \in DOMAIN installed : installed'[n] = installed[n]
    BY <1>1, <1>3
  <1>6. NotAtWork'
    BY <1>2, <1>4, <1>5 DEF IInv, NotAtWork
  <1>7. OneProgram'
    <2>1. SUFFICES ASSUME NEW n \in DOMAIN installed', installed'[n].bytes # <<>>
                   PROVE  \E u \in DOMAIN posted :
                             /\ FileOf(posted[u].post) = installed'[n].file
                             /\ PartOf(installed'[n].bytes, u, posted[u].post)
      BY DEF OneProgram, PartOf
    <2>2. CASE n \in DOMAIN installed
      BY <1>5, <2>1, <2>2 DEF IInv, OneProgram, PartOf
    <2>3. CASE n = Len(installed) + 1
      BY <1>4, <1>5, <2>1, <2>3
    <2>. QED
      BY <1>5, <2>2, <2>3
  <1>8. InstallsTheUpload'
    <2>1. SUFFICES ASSUME NEW n \in DOMAIN installed', NEW i, i = installed'[n], ~i.overlap
                   PROVE  /\ i.latest = 0 => i.bytes = <<>>
                          /\ i.latest # 0 /\ Sound(i.latest) => i.bytes = ProgramOf(i.latest)
      BY DEF InstallsTheUpload, Sound, ProgramOf
    <2>2. CASE n \in DOMAIN installed
      BY <1>5, <2>1, <2>2 DEF IInv, InstallsTheUpload
    <2>3. CASE n = Len(installed) + 1
      BY <1>4, <1>5, <2>1, <2>3
    <2>. QED
      BY <1>5, <2>2, <2>3
  <1>. QED
    BY <1>5, <1>6, <1>7, <1>8

(* An install opens the file, or has nothing to open.                        *)
LEMMA OpenStep ==
    ASSUME IInv, NEW r \in Posts, OpenFile(FileOf(r))
    PROVE  IInv'
  <1>0. SUFFICES ASSUME NEW f, f = FileOf(r)
                 PROVE  IInv'
    OBVIOUS
  <1>1. /\ f \in Files /\ inst.pc = "idle" /\ UNCHANGED <<disk, up, posted>>
        /\ AnswersDue' /\ OnePost' /\ Latest' /\ AtWork' /\ Saved'
    BY <1>0, FileOfType, FolderKept DEF OpenFile
  <1>2. CASE f \in DOMAIN disk
    <2>1. /\ inst' = [pc |-> "opened", file |-> f, size |-> 0] /\ overlap' = Writing(f)
          /\ installed' = installed
      BY <1>0, <1>2 DEF OpenFile
    <2>2. Kinds'
      BY <1>1, <1>2, <2>1 DEF IInv, Kinds, Writing
    <2>3. Undisturbed'
      BY <1>1, <2>1 DEF Undisturbed, Writing
    <2>4. NotAtWork' /\ OneProgram' /\ InstallsTheUpload'
      BY <1>1, <2>1, InstallsKept DEF IInv, NotAtWork
    <2>. QED
      BY <1>1, <2>2, <2>3, <2>4 DEF IInv
  <1>3. CASE f \notin DOMAIN disk
    <2>1. /\ installed' = Append(installed, Outcome(f, <<>>)) /\ UNCHANGED <<inst, overlap>>
      BY <1>0, <1>3 DEF OpenFile
    <2>2. <<>> \in Seq(Bytes)
      OBVIOUS
    <2>3. ~(up.pc = "write" /\ up.u = LatestOf(f))
      <3>1. SUFFICES ASSUME up.pc = "write", up.u = LatestOf(f) PROVE FALSE
        OBVIOUS
      <3>2. up.u \in DOMAIN posted /\ FileOf(posted[up.u].post) \in DOMAIN disk
        BY <3>1 DEF IInv, AtWork
      <3>3. LatestOf(f) # 0
        BY <3>1, <3>2 DEF IInv, Kinds
      <3>4. FileOf(posted[LatestOf(f)].post) = f
        BY <1>1, <3>3 DEF IInv, Latest
      <3>. QED
        BY <1>3, <3>1, <3>2, <3>4
    <2>4. ~(LatestOf(f) # 0 /\ Sound(LatestOf(f)))
      BY <1>1, <1>3, <2>3, SoundIsSaved
    <2>5. installed' \in Seq(Results) /\ NotAtWork' /\ OneProgram' /\ InstallsTheUpload'
      BY <1>1, <2>1, <2>2, <2>3, <2>4, Got
    <2>6. Kinds' /\ Undisturbed'
      BY <1>1, <2>1, <2>5 DEF IInv, Kinds, Undisturbed
    <2>. QED
      BY <1>1, <2>5, <2>6 DEF IInv
  <1>. QED
    BY <1>2, <1>3

(* The size is that of the file as it is now.                                *)
LEMMA StatStep ==
    ASSUME IInv, StatFile
    PROVE  IInv'
  <1>1. /\ inst.pc = "opened"
        /\ inst' = [inst EXCEPT !.pc = "measured", !.size = Len(disk[inst.file])]
        /\ UNCHANGED <<disk, up, posted, overlap, installed>>
        /\ AnswersDue' /\ OnePost' /\ Latest' /\ AtWork' /\ Saved'
    BY FolderKept DEF StatFile
  <1>2. /\ inst \in [pc : {"idle", "opened", "measured"}, file : Files \cup {<<>>}, size : Nat]
        /\ inst.file \in DOMAIN disk /\ disk[inst.file] \in Seq(Bytes)
    BY <1>1 DEF IInv, Kinds
  <1>3. Len(disk[inst.file]) \in Nat
    BY <1>2
  <1>4. /\ inst' \in [pc : {"idle", "opened", "measured"}, file : Files \cup {<<>>}, size : Nat]
        /\ inst'.pc = "measured" /\ inst'.file = inst.file /\ inst'.size = Len(disk[inst.file])
    BY <1>1, <1>2, <1>3
  <1>5. Kinds'
    BY <1>1, <1>2, <1>4 DEF IInv, Kinds
  <1>6. Undisturbed'
    BY <1>1, <1>4 DEF IInv, Undisturbed, Writing
  <1>7. NotAtWork' /\ OneProgram' /\ InstallsTheUpload'
    BY <1>1, InstallsKept DEF IInv, NotAtWork
  <1>. QED
    BY <1>1, <1>5, <1>6, <1>7 DEF IInv

(* What is read is a part of one post, all of the last if nothing overlapped. *)
LEMMA ReadStep ==
    ASSUME IInv, ReadFile
    PROVE  IInv'
  <1>0. SUFFICES ASSUME NEW f, f = inst.file, NEW d, d = disk[f], NEW size, size = inst.size
                 PROVE  IInv'
    OBVIOUS
  <1> DEFINE k == Least(Len(d), size)
             part == SubSeq(d, 1, k)
             bytes == BufferOf(part, size)
  <1>1. /\ inst.pc = "measured" /\ inst' = Idle /\ overlap' = FALSE
        /\ UNCHANGED <<disk, up, posted>>
        /\ installed' = Append(installed, Outcome(f, bytes))
        /\ AnswersDue' /\ OnePost' /\ Latest' /\ AtWork' /\ Saved'
    BY <1>0, FolderKept DEF ReadFile
  <1>2. /\ f \in DOMAIN disk /\ f \in Files /\ d \in Seq(Bytes) /\ size \in Nat
    BY <1>0, <1>1 DEF IInv, Kinds
  <1>3. k \in 0 .. Len(d)
    BY <1>2 DEF Least
  <1>. HIDE DEF k
  <1>4. part \in Seq(Bytes) /\ Len(part) = k
    BY <1>2, <1>3, Pieces
  <1>. HIDE DEF part
  <1>5. bytes \in Seq(Bytes) /\ (bytes = <<>> \/ bytes = part)
    BY <1>4 DEF BufferOf
  <1>6. LatestOf(f) # 0
    BY <1>2 DEF IInv, OnePost
  <1>7. LatestOf(f) \in DOMAIN posted /\ FileOf(posted[LatestOf(f)].post) = f
    BY <1>2, <1>6 DEF IInv, Latest
  <1>8. bytes # <<>> => \E u \in DOMAIN posted :
                           FileOf(posted[u].post) = f /\ PartOf(bytes, u, posted[u].post)
    <2>1. PICK u \in DOMAIN posted :
             FileOf(posted[u].post) = f /\ PartOf(d, u, posted[u].post)
      BY <1>0, <1>2 DEF IInv, OnePost
    <2>2. posted[u].post \in Posts /\ u \in Nat
      BY EntryType DEF IInv
    <2>3. PartOf(part, u, posted[u].post)
      BY <1>2, <1>3, <2>1, <2>2, PartOfPart DEF part
    <2>. QED
      BY <1>5, <2>1, <2>3
  <1>9. ~overlap => ~(up.pc = "write" /\ up.u = LatestOf(f)) /\ size = Len(d)
    BY <1>0, <1>1, <1>7 DEF IInv, Undisturbed, Writing
  <1>10. ~overlap /\ Sound(LatestOf(f)) => bytes = ProgramOf(LatestOf(f))
    <2>1. SUFFICES ASSUME ~overlap, Sound(LatestOf(f)) PROVE bytes = ProgramOf(LatestOf(f))
      OBVIOUS
    <2>2. d = ProgramOf(LatestOf(f))
      BY <1>0, <1>2, <1>6, <1>9, <2>1, SoundIsSaved
    <2>3. k = Len(d)
      BY <1>2, <1>9, <2>1 DEF k, Least
    <2>4. part = d
      BY <1>2, <2>3, WholeSequence DEF part
    <2>5. bytes = part
      BY <1>2, <1>9, <2>1, <2>4 DEF BufferOf
    <2>. QED
      BY <2>2, <2>4, <2>5
  <1>. HIDE DEF bytes
  <1>11. installed' \in Seq(Results) /\ NotAtWork' /\ OneProgram' /\ InstallsTheUpload'
    BY <1>1, <1>2, <1>5, <1>6, <1>8, <1>9, <1>10, Got
  <1>12. Kinds' /\ Undisturbed'
    BY <1>1, <1>11 DEF IInv, Kinds, Undisturbed, Idle
  <1>. QED
    BY <1>1, <1>11, <1>12 DEF IInv

-----------------------------------------------------------------------------
(* The invariant holds at the start ...                                      *)
LEMMA InitInvariant == Init => IInv
  <1>1. SUFFICES ASSUME Init PROVE IInv
    OBVIOUS
  <1>2. /\ disk = [f \in {} |-> <<>>] /\ up = [pc |-> "poll", u |-> 0, left |-> <<>>]
        /\ posted = <<>> /\ inst = [pc |-> "idle", file |-> <<>>, size |-> 0]
        /\ overlap = FALSE /\ installed = <<>>
    BY <1>1 DEF Init
  <1>3. /\ <<>> \in Seq(Entries) /\ <<>> \in Seq(Results) /\ <<>> \in Seq(Bytes)
        /\ DOMAIN posted = {} /\ DOMAIN installed = {} /\ DOMAIN disk = {} /\ Len(posted) = 0
    BY <1>2
  <1>4. Kinds
    <2>1. up \in [pc : {"poll", "write", "dead"}, u : Nat, left : Seq(Bytes)]
      BY <1>2, <1>3
    <2>2. inst \in [pc : {"idle", "opened", "measured"}, file : Files \cup {<<>>}, size : Nat]
      BY <1>2
    <2>3. disk \in [DOMAIN disk -> Seq(Bytes)]
      BY <1>2
    <2>4. posted \in Seq(Entries) /\ installed \in Seq(Results)
      BY <1>2, <1>3
    <2>5. inst.pc = "idle" /\ up.u \in 0 .. Len(posted)
      BY <1>2, <1>3
    <2>. QED
      BY <1>2, <1>3, <2>1, <2>2, <2>3, <2>4, <2>5 DEF Kinds
  <1>5. \A f : LatestOf(f) = 0
    BY <1>3 DEF LatestOf
  <1>6. AnswersDue /\ OnePost /\ Latest /\ Saved /\ NotAtWork /\ OneProgram /\ InstallsTheUpload
    BY <1>3, <1>5 DEF AnswersDue, OnePost, Latest, Saved, NotAtWork, OneProgram, InstallsTheUpload
  <1>7. AtWork /\ Undisturbed
    BY <1>2 DEF AtWork, Undisturbed
  <1>. QED
    BY <1>4, <1>6, <1>7 DEF IInv

(* ... every step keeps it ...                                               *)
LEMMA NextInvariant == IInv /\ [Next]_vars => IInv'
  <1>1. SUFFICES ASSUME IInv, [Next]_vars PROVE IInv'
    OBVIOUS
  <1>2. CASE UNCHANGED vars
    <2>1. UNCHANGED <<disk, up, posted, inst, overlap, installed>>
      BY <1>2 DEF vars
    <2>2. AnswersDue' /\ OnePost' /\ Latest' /\ AtWork' /\ Saved'
      BY <1>1, <2>1, FolderKept
    <2>3. NotAtWork' /\ OneProgram' /\ InstallsTheUpload'
      BY <1>1, <2>1, InstallsKept DEF IInv, NotAtWork
    <2>4. Kinds' /\ Undisturbed'
      BY <1>1, <2>1 DEF IInv, Kinds, Undisturbed, Writing
    <2>. QED
      BY <2>2, <2>3, <2>4 DEF IInv
  <1>3. CASE Next
    BY <1>1, <1>3, StartStep, WriteStep, DieStep, FinishStep, OpenStep, StatStep, ReadStep
       DEF Next
  <1>. QED
    BY <1>1, <1>2, <1>3

(* ... and it always holds.                                                  *)
LEMMA Invariant == Spec => []IInv
  BY InitInvariant, NextInvariant, PTL DEF Spec

-----------------------------------------------------------------------------
(* Every variable holds a value of its kind: the names of files are made of  *)
(* ok_chars only, and every post is answered as is due (file_upload).        *)
THEOREM TypeCorrect == Spec => []TypeOK
  <1>1. IInv => TypeOK
    <2>1. SUFFICES ASSUME IInv PROVE TypeOK
      OBVIOUS
    <2>2. \A f \in DOMAIN disk : f \in Seq(OkChars) /\ LatestOf(f) # 0
      <3>1. DOMAIN disk \subseteq Files
        BY <2>1 DEF IInv, Kinds
      <3>. QED
        BY <2>1, <3>1, FileOfType DEF IInv, OnePost, Files
    <2>. QED
      BY <2>1, <2>2 DEF IInv, Kinds, AnswersDue, TypeOK
  <1>. QED
    BY <1>1, Invariant, PTL

(* The file of a post that was answered 200 holds the program byte by byte   *)
(* until another post replaces it (http_upload.c).                           *)
THEOREM UploadsAreSaved == Spec => []SavedAsSent
  <1>1. IInv => SavedAsSent
    <2>1. SUFFICES ASSUME IInv, NEW u \in DOMAIN posted, NEW f, f = FileOf(posted[u].post),
                          Sound(u), LatestOf(f) = u
                   PROVE  f \in DOMAIN disk /\ disk[f] = ProgramOf(u)
      BY DEF SavedAsSent
    <2>2. f \in Files /\ u # 0
      BY <2>1, EntryType DEF IInv, Kinds
    <2>. QED
      BY <2>1, <2>2, SoundIsSaved
  <1>. QED
    BY <1>1, Invariant, PTL

(* However uploads and installs overlap, an install sends the bytes one post *)
(* had written to the file (read_file_to_buffer).                            *)
THEOREM InstallsOneProgram == Spec => []OneProgram
  BY Invariant, PTL DEF IInv

(* An install that no upload of the file overlaps sends the whole program    *)
(* uploaded last (rt_req_install).                                           *)
THEOREM InstallsWhatWasUploaded == Spec => []InstallsTheUpload
  BY Invariant, PTL DEF IInv

=============================================================================
