------------------------- MODULE ModuleTrackerProofs ------------------------
(* Proofs about ModuleTracker, for every set of names and topics and every   *)
(* number of installs, events and restarts, whatever the reads of the link   *)
(* return.                                                                   *)
EXTENDS ModuleTracker, SequenceTheorems, WellFoundedInduction, TLAPS

Events   == {"pub", "sub", "unsub"}
Answers  == {"installed", "uninstalled"}
Messages == [kind : Events \cup Answers, inc : Nat, id : Nat, arg : Names \cup Topics]
Listing  == [inc : Nat, id : Nat, name : Names, topics : SUBSET Topics]
Logged   == [cmd : Commands, inc : Nat, name : Names \cup {Unknown}, topic : Topics \cup {"none"}]

(* The module a message, an entry of the list or an event is about. *)
Key(x) == [inc |-> x.inc, id |-> x.id]

Listed == {Key(modules[i]) : i \in DOMAIN modules}
OnWire == {Key(toBridge[i]) : i \in DOMAIN toBridge}
Bound  == live \cup Listed \cup OnWire

(* The modules that can still be heard of after message p. *)
HeardAfter(p) == live \cup {Key(toBridge[q]) : q \in {r \in DOMAIN toBridge : r > p}}

Announced(inc)   == \E j \in DOMAIN log : log[j].cmd = "module-inst" /\ log[j].inc = inc
Withdrawn(inc)   == \E j \in DOMAIN log : log[j].cmd = "module-uninst" /\ log[j].inc = inc
AnnouncedAs(inc, name) ==
    \E j \in DOMAIN log : log[j].cmd = "module-inst" /\ log[j].inc = inc /\ log[j].name = name

-----------------------------------------------------------------------------
(* The inductive invariant, part by part.                                    *)

(* Every variable holds a value of its kind; modules are numbered. *)
Kinds ==
    /\ names \in Seq(Names) /\ Len(names) <= MaxInstall
    /\ nextId \in Nat \ {0} /\ nextId <= Len(names) + 1
    /\ live \subseteq [inc : DOMAIN names, id : 1 .. nextId - 1]
    /\ rsubs \subseteq [inc : DOMAIN names, topic : Topics]
    /\ request \in [op : {"NONE", "INSTALL", "UNINSTALL"}, inc : Nat, answered : BOOLEAN]
    /\ toBridge \in Seq(Messages)
    /\ modules \in Seq(Listing)
    /\ subs \subseteq Topics /\ shared \subseteq Topics
    /\ log \in Seq(Logged)
    /\ crashed \in BOOLEAN /\ swallowed \in BOOLEAN
    /\ left \in [{"event", "restart"} -> Nat] /\ left.restart <= MaxRestart

(* What messages say. *)
Messaged ==
    \A i \in DOMAIN toBridge :
        /\ toBridge[i].kind \in Events => toBridge[i].arg \in Topics
        /\ toBridge[i].kind = "installed" => toBridge[i].arg = names[toBridge[i].inc]

(* No two modules are one, and none has two ids. *)
Numbered ==
    /\ \A x \in Bound : x.inc \in DOMAIN names
    /\ \A x, y \in Bound : x.inc = y.inc => x = y
    /\ \A x, y \in live : x.id = y.id => x = y
    /\ \A i \in DOMAIN log : log[i].inc \in DOMAIN names

(* There is one answer at most on its way, that of the request; nothing is   *)
(* known yet of a module whose install is not answered.                      *)
Requested ==
    /\ \A i, j \in DOMAIN toBridge :
          toBridge[i].kind \in Answers /\ toBridge[j].kind \in Answers => i = j
    /\ \A i \in DOMAIN toBridge : toBridge[i].kind \in Answers =>
          /\ request.op = (IF toBridge[i].kind = "installed" THEN "INSTALL" ELSE "UNINSTALL")
          /\ request.answered /\ request.inc = toBridge[i].inc
    /\ request.op = "NONE" => request = NoRequest
    /\ request.op = "INSTALL" =>
          /\ request.inc = Len(names)
          /\ \A i \in DOMAIN modules : modules[i].inc # Len(names)
          /\ ~Withdrawn(Len(names))

(* An id on its way after the answer about it is of the installed module,    *)
(* and none of an uninstalled one.                                           *)
InOrder ==
    \A p \in DOMAIN toBridge : toBridge[p].kind \in Answers =>
        \A x \in HeardAfter(p) : x.id = toBridge[p].id =>
            toBridge[p].kind = "installed" /\ x.inc = toBridge[p].inc

(* The list has the later modules first, each announced under its name and   *)
(* not taken back.                                                           *)
InList ==
    /\ \A i, j \in DOMAIN modules : i < j => modules[i].inc > modules[j].inc
    /\ \A i \in DOMAIN modules :
          /\ modules[i].name = names[modules[i].inc]
          /\ AnnouncedAs(modules[i].inc, modules[i].name) /\ ~Withdrawn(modules[i].inc)

(* Whatever can be heard of: no entry with its id is of a later module, and  *)
(* once it is announced it has one of its own.                               *)
Heard ==
    /\ \A i \in DOMAIN modules :
          /\ \A m \in live : modules[i].id = m.id => modules[i].inc <= m.inc
          /\ \A q \in DOMAIN toBridge :
                toBridge[q].kind # "installed" /\ modules[i].id = toBridge[q].id
                    => modules[i].inc <= toBridge[q].inc
    /\ \A m \in live : Announced(m.inc) => m \in Listed
    /\ \A q \in DOMAIN toBridge :
          toBridge[q].kind \in Events /\ Announced(toBridge[q].inc) => Key(toBridge[q]) \in Listed

Identity == Kinds /\ Messaged /\ Numbered /\ Requested /\ InOrder /\ InList /\ Heard

(* What has been published: only the name of an uninstalled module may be    *)
(* none.                                                                     *)
Named == \A i \in DOMAIN log : log[i].cmd # "module-uninst" => log[i].name \in Names

Histories == Named /\ ParentAnnounced /\ AttributedRight

(* As long as the runtime was not started again: ids are not reused ...      *)
IdsUnique ==
    ~Restarted =>
       /\ \A x \in Bound : x.id < nextId
       /\ \A x, y \in Bound : x.id = y.id => x = y

(* ... no event about a module is published before its install is answered,  *)
(* and pub-start once for each topic, which is in the module's list ...      *)
PubsListed ==
    /\ request.op = "INSTALL" => \A i \in DOMAIN log : IsChild(log[i]) => log[i].inc # Len(names)
    /\ \A i \in DOMAIN log, j \in DOMAIN modules :
          log[i].cmd = "pub-start" /\ log[i].inc = modules[j].inc
             => log[i].topic \in modules[j].topics
    /\ \A i, j \in DOMAIN log : log[i].cmd = "pub-start" /\ log[i] = log[j] => i = j

(* ... and, unless a read lost a message, the list and the open request tell *)
(* what is live.                                                             *)
ListTellsLive ==
    /\ request.op = "NONE" => Listed = live
    /\ request.op = "INSTALL" =>
          \E m \in live : /\ m.inc = request.inc /\ Listed = live \ {m}
                          /\ request.answered =>
                                \E i \in DOMAIN toBridge :
                                   toBridge[i].kind = "installed" /\ Key(toBridge[i]) = m
    /\ request.op = "UNINSTALL" =>
          \E i \in DOMAIN toBridge :
             /\ toBridge[i].kind = "uninstalled" /\ Key(toBridge[i]) \notin live
             /\ Listed = live \cup {Key(toBridge[i])}

OneRun ==
    /\ IdsUnique
    /\ ~Restarted => PubsListed
    /\ ~Restarted /\ ~crashed /\ ~swallowed => ListTellsLive

(* No two modules in the runtime have one name, and none has that of the     *)
(* module being uninstalled.                                                 *)
NamesDistinct ==
    /\ \A x, y \in live : names[x.inc] = names[y.inc] => x = y
    /\ request.op = "UNINSTALL" =>
          request.inc \in DOMAIN names /\ \A x \in live : names[x.inc] # names[request.inc]

(* A module being installed is in the runtime ...                            *)
OpenIsLive == request.op = "INSTALL" => \E m \in live : m.inc = request.inc

(* ... and so is each in the list, but for the one being uninstalled.        *)
ListWithin ==
    \A x \in Listed : x \in live \/ (request.op = "UNINSTALL" /\ x.inc = request.inc)

(* The last module event under a name was module-inst. *)
Showing(name) ==
    \E j \in DOMAIN log :
        /\ log[j].cmd = "module-inst" /\ log[j].name = name
        /\ \A k \in DOMAIN log : log[k].cmd = "module-uninst" /\ log[k].name = name => k < j

(* That of each module in the list, then, unless it was taken back for       *)
(* another.                                                                  *)
ListShowing == \A i \in DOMAIN modules : ~Misnamed(modules[i].name) => Showing(modules[i].name)

Seen ==
    /\ NamesDistinct
    /\ ~Restarted => OpenIsLive /\ ListShowing
    /\ ~Restarted /\ ~crashed => ListWithin
    /\ ParentSeen

(* A topic a module is subscribed to and no other was: the last message      *)
(* about it on its way is its subscription, or there is none and the bridge  *)
(* has it.                                                                   *)
IsAbout(m, kind, t) == m.kind = kind /\ m.arg = t

Passed(t) ==
    \/ \E p \in DOMAIN toBridge :
          /\ IsAbout(toBridge[p], "sub", t)
          /\ \A q \in DOMAIN toBridge : IsAbout(toBridge[q], "unsub", t) => q < p
    \/ t \in subs /\ \A q \in DOMAIN toBridge : ~IsAbout(toBridge[q], "unsub", t)

SubsPassed ==
    /\ \A s, r \in rsubs : s.topic = r.topic /\ s # r => s.topic \in shared
    /\ ~swallowed => \A s \in rsubs : s.topic \in shared \/ Passed(s.topic)

(* The inductive invariant. *)
IInv == Identity /\ Histories /\ OneRun /\ Seen /\ SubsPassed

-----------------------------------------------------------------------------
(* What the operators of ModuleTracker return.                               *)

(* Every nonempty set of numbers has a least one. *)
LEMMA LeastNumber ==
    ASSUME NEW T \in SUBSET Nat, T # {}
    PROVE  \E x \in T : \A y \in T : x <= y
  <1> DEFINE R == OpToRel(<, Nat)
  <1>1. IsWellFoundedOn(R, Nat)
    BY NatLessThanWellFounded
  <1>2. \A x, y \in Nat : x < y => <<x, y>> \in R
    BY DEF OpToRel
  <1>. HIDE DEF R
  <1>3. PICK x \in T : \A y \in T : ~(<<y, x>> \in R)
    BY <1>1, WFMin, Zenon
  <1>4. ASSUME NEW y \in T PROVE x <= y
    <2>1. x \in Nat /\ y \in Nat /\ ~(<<y, x>> \in R)
      BY <1>3
    <2>2. ~(y < x)
      BY <1>2, <2>1
    <2>. QED
      BY <2>1, <2>2
  <1>. QED
    BY <1>4

(* The first entry with an id ... *)
LEMMA FirstOf ==
    ASSUME modules \in Seq(Listing), NEW id, Known(id)
    PROVE  /\ First(id) \in DOMAIN modules /\ modules[First(id)].id = id
           /\ \A j \in DOMAIN modules : modules[j].id = id => First(id) <= j
  <1>1. Indices(id) \in SUBSET Nat /\ Indices(id) # {}
    BY DEF Known, Indices
  <1>2. \E i \in Indices(id) : \A j \in Indices(id) : i <= j
    BY <1>1, LeastNumber
  <1>3. First(id) \in Indices(id) /\ \A j \in Indices(id) : First(id) <= j
    BY <1>2 DEF First
  <1>. QED
    BY <1>3 DEF Indices

(* ... is that of the latest module with it. *)
LEMMA FirstIsLatest ==
    ASSUME modules \in Seq(Listing), InList, NEW p \in DOMAIN modules,
           \A j \in DOMAIN modules : modules[j].id = modules[p].id => modules[j].inc <= modules[p].inc
    PROVE  Known(modules[p].id) /\ First(modules[p].id) = p
  <1> DEFINE f == First(modules[p].id)
  <1>1. Known(modules[p].id)
    BY DEF Known, Indices
  <1>2. f \in DOMAIN modules /\ modules[f].id = modules[p].id /\ f <= p
    BY <1>1, FirstOf
  <1>. HIDE DEF f
  <1>3. modules[f].inc <= modules[p].inc /\ f \in Nat /\ p \in Nat
    BY <1>2
  <1>4. modules[f] \in Listing /\ modules[p] \in Listing
    BY <1>2
  <1>5. modules[f].inc \in Nat /\ modules[p].inc \in Nat
    BY <1>4 DEF Listing
  <1>6. f < p => modules[f].inc > modules[p].inc
    BY <1>2 DEF InList
  <1>7. f = p
    BY <1>2, <1>3, <1>5, <1>6
  <1>. QED
    BY <1>1, <1>7 DEF f

(* A sequence with a new first element, and one that lost an element. *)
LEMMA AddedFirst ==
    ASSUME NEW S, NEW s \in Seq(S), NEW e \in S, NEW t, t = <<e>> \o s
    PROVE  /\ t \in Seq(S) /\ DOMAIN t = 1 .. Len(s) + 1 /\ t[1] = e
           /\ \A i \in DOMAIN s : i + 1 \in DOMAIN t /\ t[i + 1] = s[i]
           /\ \A i \in DOMAIN t : i # 1 => i - 1 \in DOMAIN s /\ t[i] = s[i - 1]
  <1>1. <<e>> \in Seq(S) /\ Len(<<e>>) = 1
    OBVIOUS
  <1>2. t \in Seq(S) /\ Len(t) = Len(s) + 1
    BY <1>1, ConcatProperties
  <1>3. Len(s) \in Nat /\ DOMAIN s = 1 .. Len(s) /\ DOMAIN t = 1 .. Len(s) + 1
    BY <1>2
  <1>4. \A i \in 1 .. Len(s) + 1 : t[i] = IF i = 1 THEN e ELSE s[i - 1]
    BY <1>1, <1>3, ConcatProperties
  <1>. QED
    BY <1>2, <1>3, <1>4

(* A sequence without its element p. *)
LEMMA Removed ==
    ASSUME NEW S, NEW s \in Seq(S), NEW p \in DOMAIN s, NEW t, t = RemoveAt(s, p)
    PROVE  /\ t \in Seq(S)
           /\ \A i \in DOMAIN t : i \in 1 .. Len(s) - 1
           /\ \A i \in DOMAIN t : i < p => i \in DOMAIN s /\ t[i] = s[i]
           /\ \A i \in DOMAIN t : i >= p => i + 1 \in DOMAIN s /\ t[i] = s[i + 1]
           /\ \A i \in DOMAIN s : i < p => i \in DOMAIN t
           /\ \A i \in DOMAIN s : i > p => i - 1 \in DOMAIN t
  <1> DEFINE a == SubSeq(s, 1, p - 1)
             b == SubSeq(s, p + 1, Len(s))
  <1>1. t = a \o b /\ Len(s) \in Nat /\ p \in 1 .. Len(s) /\ DOMAIN s = 1 .. Len(s)
    BY DEF RemoveAt
  <1>2. /\ a \in Seq(S) /\ Len(a) = p - 1 /\ \A i \in 1 .. p - 1 : a[i] = s[i]
    BY <1>1
  <1>3. b \in Seq(S) /\ Len(b) = Len(s) - p
    BY <1>1
  <1>4. \A i \in 1 .. Len(s) - p : b[i] = s[p + i]
    BY <1>1
  <1>. HIDE DEF a, b
  <1>5. a \o b \in Seq(S) /\ Len(a \o b) = Len(a) + Len(b)
        /\ \A i \in 1 .. Len(a) + Len(b) : (a \o b)[i] = IF i <= Len(a) THEN a[i] ELSE b[i - Len(a)]
    BY <1>2, <1>3, ConcatProperties
  <1>6. p - 1 \in Nat /\ Len(s) - p \in Nat /\ (p - 1) + (Len(s) - p) = Len(s) - 1
    BY <1>1
  <1>7. t \in Seq(S) /\ Len(t) = Len(s) - 1
    BY <1>1, <1>2, <1>3, <1>5, <1>6
  <1>8. DOMAIN t = 1 .. Len(s) - 1
    BY <1>7
  <1>9. \A i \in 1 .. Len(s) - 1 : t[i] = IF i <= p - 1 THEN a[i] ELSE b[i - (p - 1)]
    BY <1>1, <1>2, <1>3, <1>5, <1>6
  <1>10. p \in Nat /\ p >= 1 /\ p <= Len(s)
    BY <1>1
  <1>11. ASSUME NEW i \in 1 .. Len(s) - 1, i < p PROVE i \in DOMAIN s /\ t[i] = s[i]
    <2>1. i \in 1 .. p - 1 /\ i \in 1 .. Len(s) /\ i <= p - 1
      BY <1>1, <1>10, <1>11
    <2>2. t[i] = a[i] /\ a[i] = s[i]
      BY <1>2, <1>9, <2>1
    <2>. QED
      BY <1>1, <2>1, <2>2
  <1>12. ASSUME NEW i \in 1 .. Len(s) - 1, i >= p PROVE i + 1 \in DOMAIN s /\ t[i] = s[i + 1]
    <2>1. i - (p - 1) \in 1 .. Len(s) - p /\ ~(i <= p - 1) /\ i + 1 \in 1 .. Len(s)
      BY <1>1, <1>10, <1>12
    <2>2. t[i] = b[i - (p - 1)] /\ b[i - (p - 1)] = s[p + (i - (p - 1))]
      BY <1>4, <1>9, <2>1
    <2>3. p + (i - (p - 1)) = i + 1
      BY <1>10
    <2>. QED
      BY <1>1, <2>1, <2>2, <2>3
  <1>13. \A i \in 1 .. Len(s) : (i < p => i \in 1 .. Len(s) - 1) /\ (i > p => i - 1 \in 1 .. Len(s) - 1)
    BY <1>1, <1>10
  <1>. QED
    BY <1>1, <1>7, <1>8, <1>11, <1>12, <1>13

(* A sequence with a new last element. *)
LEMMA AddedLast ==
    ASSUME NEW S, NEW s \in Seq(S), NEW e \in S, NEW t, t = Append(s, e)
    PROVE  /\ t \in Seq(S) /\ Len(s) \in Nat /\ DOMAIN s = 1 .. Len(s)
           /\ DOMAIN t = DOMAIN s \cup {Len(s) + 1} /\ Len(t) = Len(s) + 1
           /\ t[Len(s) + 1] = e /\ \A i \in DOMAIN s : t[i] = s[i]
  OBVIOUS

-----------------------------------------------------------------------------
(* How steps change what is on its way.                                      *)

(* The first k messages are gone, and perhaps some of the last. *)
Later(k) ==
    /\ k \in Nat /\ toBridge' \in Seq(Messages)
    /\ \A i \in DOMAIN toBridge' :
          i \in Nat \ {0} /\ i + k \in DOMAIN toBridge /\ toBridge'[i] = toBridge[i + k]

(* The bridge takes the first, and may lose some more. *)
LEMMA TakeLater ==
    ASSUME Kinds, NEW kind, Take(kind)
    PROVE  /\ 1 \in DOMAIN toBridge /\ Head(toBridge) = toBridge[1]
           /\ toBridge[1] \in Messages /\ toBridge[1].kind = kind
           /\ swallowed' \in BOOLEAN
           /\ \E k \in Nat \ {0} :
                 /\ Later(k)
                 /\ ~swallowed' => ~swallowed /\ k = 1 /\ \A i \in DOMAIN toBridge :
                                       i > 1 => i - 1 \in DOMAIN toBridge'
  <1>1. toBridge \in Seq(Messages) /\ toBridge # <<>> /\ swallowed \in BOOLEAN
    BY DEF Kinds, Take
  <1>2. 1 \in DOMAIN toBridge /\ Head(toBridge) = toBridge[1] /\ Len(toBridge) \in Nat
        /\ toBridge[1] \in Messages
    BY <1>1
  <1>3. PICK k \in 1 .. Burst : /\ k <= Len(toBridge)
                                /\ toBridge' = SubSeq(toBridge, k + 1, Len(toBridge))
                                /\ swallowed' = (swallowed \/ k > 1)
    BY DEF Take
  <1>4. k \in Nat \ {0} /\ k \in 1 .. Len(toBridge)
    BY <1>2, <1>3, TrackerAssumption
  <1>5. /\ toBridge' \in Seq(Messages) /\ Len(toBridge') = Len(toBridge) - k
        /\ \A i \in 1 .. Len(toBridge) - k : toBridge'[i] = toBridge[i + k]
    BY <1>1, <1>2, <1>3, <1>4
  <1>6. DOMAIN toBridge' = 1 .. Len(toBridge) - k /\ DOMAIN toBridge = 1 .. Len(toBridge)
    BY <1>1, <1>5
  <1>7. Later(k)
    BY <1>2, <1>4, <1>5, <1>6 DEF Later
  <1>8. ~swallowed' => ~swallowed /\ k = 1 /\ \A i \in DOMAIN toBridge :
                          i > 1 => i - 1 \in DOMAIN toBridge'
    <2>1. ~swallowed' => ~swallowed /\ ~(k > 1)
      BY <1>3
    <2>2. ~(k > 1) => k = 1
      BY <1>4
    <2>3. k = 1 => \A i \in DOMAIN toBridge : i > 1 => i - 1 \in DOMAIN toBridge'
      BY <1>2, <1>6
    <2>. QED
      BY <2>1, <2>2, <2>3
  <1>. QED
    BY <1>1, <1>2, <1>3, <1>4, <1>7, <1>8 DEF Take

(* What can still be heard of after message p. *)
LEMMA HeardOf ==
    ASSUME NEW p, NEW x
    PROVE  /\ x \in HeardAfter(p)
                 <=> x \in live \/ \E q \in DOMAIN toBridge : q > p /\ x = Key(toBridge[q])
  BY DEF HeardAfter

(* What is only shorter stays right. *)
LEMMA WireKept ==
    ASSUME Identity, NEW k, Later(k), live' \subseteq live, names' = names
    PROVE  /\ OnWire' \subseteq OnWire /\ Messaged' /\ InOrder'
           /\ \A i, j \in DOMAIN toBridge' :
                 toBridge'[i].kind \in Answers /\ toBridge'[j].kind \in Answers => i = j
  <1>1. k \in Nat /\ \A i \in DOMAIN toBridge' : /\ i \in Nat /\ i + k \in DOMAIN toBridge
                                                 /\ toBridge'[i] = toBridge[i + k]
    BY DEF Later
  <1>2. OnWire' \subseteq OnWire
    BY <1>1 DEF OnWire
  <1>3. Messaged'
    BY <1>1 DEF Identity, Messaged
  <1>4. InOrder'
    <2>1. SUFFICES ASSUME NEW p \in DOMAIN toBridge', toBridge'[p].kind \in Answers,
                          NEW x, x \in live' \/ \E q \in DOMAIN toBridge' : q > p /\ x = Key(toBridge'[q]),
                          x.id = toBridge'[p].id
                   PROVE  toBridge'[p].kind = "installed" /\ x.inc = toBridge'[p].inc
      BY DEF InOrder, HeardAfter
    <2>2. x \in HeardAfter(p + k)
      <3>1. CASE x \in live'
        BY <3>1, HeardOf
      <3>2. ASSUME NEW q \in DOMAIN toBridge', q > p, x = Key(toBridge'[q])
            PROVE  x \in HeardAfter(p + k)
        <4>1. q + k \in DOMAIN toBridge /\ x = Key(toBridge[q + k]) /\ q + k > p + k
          BY <1>1, <3>2
        <4>. QED
          BY <4>1, HeardOf
      <3>. QED
        BY <2>1, <3>1, <3>2
    <2>3. p + k \in DOMAIN toBridge /\ toBridge'[p] = toBridge[p + k]
      BY <1>1
    <2>. QED
      BY <2>1, <2>2, <2>3 DEF Identity, InOrder
  <1>5. \A i, j \in DOMAIN toBridge' :
           toBridge'[i].kind \in Answers /\ toBridge'[j].kind \in Answers => i = j
    <2>1. SUFFICES ASSUME NEW i \in DOMAIN toBridge', NEW j \in DOMAIN toBridge',
                          toBridge'[i].kind \in Answers, toBridge'[j].kind \in Answers
                   PROVE  i = j
      OBVIOUS
    <2>2. i + k = j + k
      BY <1>1, <2>1 DEF Identity, Requested
    <2>. QED
      BY <1>1, <2>2
  <1>. QED
    BY <1>2, <1>3, <1>4, <1>5

(* A module or the runtime says something. *)
LEMMA SendKeeps ==
    ASSUME Identity, NEW m \in live, NEW msg \in Messages, Key(msg) = m,
           toBridge' = Append(toBridge, msg), UNCHANGED <<names, modules, log>>,
           live' \subseteq live,
           msg.kind \in Events => msg.arg \in Topics,
           msg.kind = "installed" => msg.arg = names[msg.inc],
           msg.kind \in Answers => \A i \in DOMAIN toBridge : toBridge[i].kind \notin Answers,
           msg.kind = "uninstalled" => m \notin live'
    PROVE  /\ toBridge' \in Seq(Messages)
           /\ Messaged' /\ Numbered' /\ InOrder' /\ InList' /\ Heard'
           /\ \A i, j \in DOMAIN toBridge' :
                 toBridge'[i].kind \in Answers /\ toBridge'[j].kind \in Answers => i = j
           /\ \A i \in DOMAIN toBridge' : toBridge'[i].kind \in Answers =>
                 \/ i \in DOMAIN toBridge /\ toBridge'[i] = toBridge[i]
                 \/ toBridge'[i] = msg
  <1> DEFINE n == Len(toBridge) + 1
  <1>1. toBridge \in Seq(Messages)
    BY DEF Identity, Kinds
  <1>2. /\ toBridge' \in Seq(Messages) /\ DOMAIN toBridge = 1 .. Len(toBridge) /\ Len(toBridge) \in Nat
        /\ DOMAIN toBridge' = DOMAIN toBridge \cup {n} /\ toBridge'[n] = msg
        /\ \A i \in DOMAIN toBridge : toBridge'[i] = toBridge[i]
    BY <1>1, AddedLast
  <1>3. /\ n \in Nat /\ \A i \in DOMAIN toBridge : i \in Nat /\ i < n
    BY <1>2
  <1>. HIDE DEF n
  <1>4. msg.inc = m.inc /\ msg.id = m.id
    BY DEF Key
  <1>5. Messaged'
    BY <1>2 DEF Identity, Messaged
  <1>6. Listed' = Listed
    BY DEF Listed
  <1>7. Bound' \subseteq Bound
    BY <1>2, <1>6 DEF Bound, OnWire
  <1>8. Numbered'
    BY <1>7 DEF Identity, Numbered
  <1>9. InOrder'
    <2>1. SUFFICES ASSUME NEW p \in DOMAIN toBridge', toBridge'[p].kind \in Answers,
                          NEW x, x \in live' \/ \E q \in DOMAIN toBridge' : q > p /\ x = Key(toBridge'[q]),
                          x.id = toBridge'[p].id
                   PROVE  toBridge'[p].kind = "installed" /\ x.inc = toBridge'[p].inc
      BY DEF InOrder, HeardAfter
    <2>2. CASE p \in DOMAIN toBridge
      <3>1. x \in HeardAfter(p)
        BY <1>2, <2>1, <2>2, HeardOf
      <3>. QED
        BY <1>2, <2>1, <2>2, <3>1 DEF Identity, InOrder
    <2>3. CASE p = n
      <3>1. x \in live'
        BY <1>2, <1>3, <2>1, <2>3
      <3>2. x = m
        BY <1>2, <1>4, <2>1, <2>3, <3>1 DEF Identity, Numbered
      <3>3. msg.kind # "uninstalled"
        BY <3>1, <3>2
      <3>. QED
        BY <1>2, <1>4, <2>1, <2>3, <3>2, <3>3 DEF Answers
    <2>. QED
      BY <1>2, <2>2, <2>3
  <1>10. InList'
    BY DEF Identity, InList, AnnouncedAs, Withdrawn
  <1>11. \A inc : Announced(inc)' = Announced(inc)
    BY DEF Announced
  <1>12. Heard'
    <2>1. ASSUME NEW i \in DOMAIN modules, NEW x \in live, modules[i].id = x.id
          PROVE  modules[i].inc <= x.inc
      BY <2>1 DEF Identity, Heard
    <2>2. ASSUME NEW i \in DOMAIN modules, NEW q \in DOMAIN toBridge',
                 toBridge'[q].kind # "installed", modules[i].id = toBridge'[q].id
          PROVE  modules[i].inc <= toBridge'[q].inc
      <3>1. CASE q = n
        BY <1>2, <1>4, <2>1, <2>2, <3>1
      <3>2. CASE q \in DOMAIN toBridge
        BY <1>2, <2>2, <3>2 DEF Identity, Heard
      <3>. QED
        BY <1>2, <3>1, <3>2
    <2>3. ASSUME NEW x \in live', Announced(x.inc)' PROVE x \in Listed'
      BY <1>6, <1>11, <2>3 DEF Identity, Heard
    <2>4. ASSUME NEW q \in DOMAIN toBridge', toBridge'[q].kind \in Events, Announced(toBridge'[q].inc)
          PROVE  Key(toBridge'[q]) \in Listed
      <3>1. CASE q = n
        BY <1>2, <1>4, <2>4, <3>1 DEF Identity, Heard
      <3>2. CASE q \in DOMAIN toBridge
        BY <1>2, <2>4, <3>2 DEF Identity, Heard
      <3>. QED
        BY <1>2, <3>1, <3>2
    <2>. QED
      BY <1>6, <1>11, <2>1, <2>2, <2>3, <2>4 DEF Heard, Announced
  <1>13. \A i, j \in DOMAIN toBridge' :
            toBridge'[i].kind \in Answers /\ toBridge'[j].kind \in Answers => i = j
    BY <1>2 DEF Identity, Requested
  <1>. QED
    BY <1>2, <1>5, <1>8, <1>9, <1>10, <1>12, <1>13

-----------------------------------------------------------------------------
(* Each step keeps Identity.                                                 *)

(* A bound of the model is spent. *)
LEMMA Spent ==
    ASSUME Kinds, NEW b \in {"event", "restart"}, Spend(b)
    PROVE  left' \in [{"event", "restart"} -> Nat] /\ left'.restart <= MaxRestart
  <1>1. left \in [{"event", "restart"} -> Nat] /\ left.restart <= MaxRestart /\ MaxRestart \in Nat
    BY TrackerAssumption DEF Kinds
  <1>2. left[b] > 0 /\ left' = [left EXCEPT ![b] = left[b] - 1]
    BY DEF Spend
  <1>3. left[b] - 1 \in Nat /\ left[b] - 1 <= left[b]
    BY <1>1, <1>2
  <1>. QED
    BY <1>1, <1>2, <1>3

(* A new module is later than all that is known. *)
LEMMA InstallStep ==
    ASSUME Identity, NEW name \in Names, Install(name)
    PROVE  Identity'
  <1> DEFINE inc == Len(names) + 1
             m   == [inc |-> inc, id |-> nextId]
  <1>1. /\ request = NoRequest /\ Len(names) < MaxInstall /\ names' = Append(names, name)
        /\ live' = live \cup {m} /\ nextId' = nextId + 1
        /\ request' = [op |-> "INSTALL", inc |-> inc, answered |-> FALSE]
        /\ UNCHANGED <<rsubs, shared, toBridge, modules, subs, log, crashed, swallowed, left>>
    BY DEF Install, bridge
  <1>2. names \in Seq(Names) /\ Kinds
    BY DEF Identity, Kinds
  <1>3. /\ names' \in Seq(Names) /\ Len(names) \in Nat /\ DOMAIN names = 1 .. Len(names)
        /\ DOMAIN names' = DOMAIN names \cup {inc} /\ Len(names') = inc
        /\ \A i \in DOMAIN names : names'[i] = names[i]
    BY <1>1, <1>2, AddedLast
  <1>4. inc \in Nat /\ inc \notin DOMAIN names /\ inc >= 1 /\ \A i \in DOMAIN names : i \in Nat /\ i < inc
    BY <1>3
  <1>5. m.inc = inc /\ m.id = nextId /\ nextId \in Nat \ {0} /\ MaxInstall \in Nat
    BY <1>2, TrackerAssumption DEF Kinds
  <1>6. Kinds'
    <2>1. live' \subseteq [inc : DOMAIN names', id : 1 .. nextId' - 1]
      BY <1>1, <1>2, <1>3, <1>5 DEF Kinds
    <2>2. rsubs' \subseteq [inc : DOMAIN names', topic : Topics]
      BY <1>1, <1>2, <1>3 DEF Kinds
    <2>3. Len(names') <= MaxInstall /\ nextId' \in Nat \ {0} /\ nextId' <= Len(names') + 1
      BY <1>1, <1>2, <1>3, <1>5 DEF Kinds
    <2>4. request' \in [op : {"NONE", "INSTALL", "UNINSTALL"}, inc : Nat, answered : BOOLEAN]
      BY <1>1, <1>4
    <2>. QED
      BY <1>1, <1>2, <1>3, <2>1, <2>2, <2>3, <2>4 DEF Kinds
  <1>. HIDE DEF inc, m
  <1>7. \A x \in Bound : x.inc \in DOMAIN names
    BY DEF Identity, Numbered
  <1>8. Listed' = Listed /\ OnWire' = OnWire /\ Bound' = Bound \cup {m}
    BY <1>1 DEF Bound, Listed, OnWire
  <1>9. /\ \A i \in DOMAIN toBridge : toBridge[i].kind \notin Answers /\ toBridge[i].inc \in DOMAIN names
        /\ \A i \in DOMAIN modules : modules[i].inc \in DOMAIN names
    <2>1. \A i \in DOMAIN toBridge : toBridge[i].kind \notin Answers
      BY <1>1 DEF Identity, Requested, NoRequest
    <2>2. \A i \in DOMAIN toBridge : Key(toBridge[i]) \in Bound
      BY DEF Bound, OnWire
    <2>3. \A i \in DOMAIN modules : Key(modules[i]) \in Bound
      BY DEF Bound, Listed
    <2>. QED
      BY <1>7, <2>1, <2>2, <2>3 DEF Key
  <1>10. Messaged'
    BY <1>1, <1>3, <1>9 DEF Identity, Messaged
  <1>11. Numbered'
    <2>1. \A x \in live : x.id # nextId
      BY <1>2 DEF Kinds
    <2>. QED
      BY <1>1, <1>3, <1>4, <1>5, <1>7, <1>8, <2>1 DEF Identity, Numbered
  <1>12. \A i \in DOMAIN log : log[i].inc # inc
    BY <1>4 DEF Identity, Numbered
  <1>13. Requested'
    BY <1>1, <1>3, <1>4, <1>9, <1>12 DEF Requested, Withdrawn
  <1>14. InOrder'
    BY <1>1, <1>9 DEF InOrder
  <1>15. InList'
    BY <1>1, <1>3, <1>9 DEF Identity, InList, AnnouncedAs, Withdrawn
  <1>16. \A i : Announced(i)' = Announced(i)
    BY <1>1 DEF Announced
  <1>17. ~Announced(inc)
    BY <1>12 DEF Announced
  <1>18. Heard'
    <2>1. ASSUME NEW i \in DOMAIN modules, NEW x \in live', modules[i].id = x.id
          PROVE  modules[i].inc <= x.inc
      <3>1. CASE x \in live
        BY <2>1, <3>1 DEF Identity, Heard
      <3>2. CASE x = m
        BY <1>4, <1>5, <1>9, <3>2
      <3>. QED
        BY <1>1, <3>1, <3>2
    <2>2. ASSUME NEW x \in live', Announced(x.inc)' PROVE x \in Listed'
      BY <1>1, <1>5, <1>8, <1>16, <1>17, <2>2 DEF Identity, Heard
    <2>. QED
      BY <1>1, <1>8, <1>16, <2>1, <2>2 DEF Identity, Heard
  <1>. QED
    BY <1>6, <1>10, <1>11, <1>13, <1>14, <1>15, <1>18 DEF Identity

(* What a module that is live says. *)
LEMMA MessageType ==
    ASSUME Identity, NEW m \in live, NEW kind \in Events \cup Answers,
           NEW arg \in Names \cup Topics
    PROVE  /\ Message(kind, m, arg) \in Messages /\ Key(Message(kind, m, arg)) = m
           /\ Message(kind, m, arg).kind = kind /\ Message(kind, m, arg).arg = arg
           /\ Message(kind, m, arg).inc = m.inc /\ Message(kind, m, arg).id = m.id
           /\ m.inc \in DOMAIN names /\ m.inc \in Nat /\ names[m.inc] \in Names
  <1>1. live \subseteq [inc : DOMAIN names, id : 1 .. nextId - 1] /\ names \in Seq(Names)
    BY DEF Identity, Kinds
  <1>2. m \in [inc : DOMAIN names, id : 1 .. nextId - 1]
    BY <1>1
  <1>3. m.inc \in DOMAIN names /\ m.id \in Nat /\ m = [inc |-> m.inc, id |-> m.id]
    BY <1>2
  <1>4. m.inc \in Nat /\ names[m.inc] \in Names
    BY <1>1, <1>3
  <1>. QED
    BY <1>3, <1>4 DEF Message, Messages, Key

(* The runtime answers the install. *)
LEMMA AnswerStep ==
    ASSUME Identity, InstallAnswer
    PROVE  Identity'
  <1>1. PICK m \in live : /\ m.inc = request.inc
                          /\ toBridge' = Append(toBridge, Message("installed", m, names[m.inc]))
    BY DEF InstallAnswer
  <1>2. /\ request.op = "INSTALL" /\ ~request.answered
        /\ request' = [request EXCEPT !.answered = TRUE]
        /\ UNCHANGED <<live, names, nextId, rsubs, shared, modules, subs, log, crashed, swallowed, left>>
    BY DEF InstallAnswer, runtime, bridge
  <1>3. names[m.inc] \in Names
    BY MessageType DEF Events, Answers, Identity, Kinds
  <1> DEFINE msg == Message("installed", m, names[m.inc])
  <1>4. /\ msg \in Messages /\ Key(msg) = m /\ msg.kind = "installed" /\ msg.arg = names[m.inc]
        /\ msg.inc = m.inc
    BY <1>3, MessageType DEF Answers
  <1>. HIDE DEF msg
  <1>5. \A i \in DOMAIN toBridge : toBridge[i].kind \notin Answers
    BY <1>2 DEF Identity, Requested
  <1>6. /\ toBridge' \in Seq(Messages)
        /\ Messaged' /\ Numbered' /\ InOrder' /\ InList' /\ Heard'
        /\ \A i, j \in DOMAIN toBridge' :
              toBridge'[i].kind \in Answers /\ toBridge'[j].kind \in Answers => i = j
        /\ \A i \in DOMAIN toBridge' : toBridge'[i].kind \in Answers =>
              \/ i \in DOMAIN toBridge /\ toBridge'[i] = toBridge[i]
              \/ toBridge'[i] = msg
    <2>1. toBridge' = Append(toBridge, msg)
      BY <1>1 DEF msg
    <2>. QED
      BY <1>2, <1>4, <1>5, <2>1, SendKeeps DEF Events
  <1>7. request \in [op : {"NONE", "INSTALL", "UNINSTALL"}, inc : Nat, answered : BOOLEAN]
    BY DEF Identity, Kinds
  <1>8. /\ request' \in [op : {"NONE", "INSTALL", "UNINSTALL"}, inc : Nat, answered : BOOLEAN]
        /\ request'.op = "INSTALL" /\ request'.inc = request.inc /\ request'.answered
    BY <1>2, <1>7
  <1>9. Kinds'
    BY <1>2, <1>6, <1>8 DEF Identity, Kinds
  <1>10. Requested'
    BY <1>1, <1>2, <1>4, <1>5, <1>6, <1>8 DEF Identity, Requested, Withdrawn
  <1>. QED
    BY <1>6, <1>9, <1>10 DEF Identity

(* The runtime uninstalls a module and answers. *)
LEMMA UninstallStep ==
    ASSUME Identity, NEW m \in live, Uninstall(m)
    PROVE  Identity'
  <1> DEFINE msg == Message("uninstalled", m, names[m.inc])
  <1>1. /\ request = NoRequest /\ live' = live \ {m}
        /\ rsubs' = {s \in rsubs : s.inc # m.inc}
        /\ request' = [op |-> "UNINSTALL", inc |-> m.inc, answered |-> TRUE]
        /\ toBridge' = Append(toBridge, msg)
        /\ UNCHANGED <<names, nextId, shared, modules, subs, log, crashed, swallowed, left>>
    BY DEF Uninstall, bridge
  <1>2. names[m.inc] \in Names /\ m.inc \in Nat
    BY MessageType DEF Events, Answers, Identity, Kinds
  <1>3. /\ msg \in Messages /\ Key(msg) = m /\ msg.kind = "uninstalled" /\ msg.inc = m.inc
    BY <1>2, MessageType DEF Answers
  <1>. HIDE DEF msg
  <1>4. \A i \in DOMAIN toBridge : toBridge[i].kind \notin Answers
    BY <1>1 DEF Identity, Requested, NoRequest
  <1>5. /\ toBridge' \in Seq(Messages)
        /\ Messaged' /\ Numbered' /\ InOrder' /\ InList' /\ Heard'
        /\ \A i, j \in DOMAIN toBridge' :
              toBridge'[i].kind \in Answers /\ toBridge'[j].kind \in Answers => i = j
        /\ \A i \in DOMAIN toBridge' : toBridge'[i].kind \in Answers =>
              \/ i \in DOMAIN toBridge /\ toBridge'[i] = toBridge[i]
              \/ toBridge'[i] = msg
    BY <1>1, <1>3, <1>4, SendKeeps DEF Events
  <1>6. /\ request' \in [op : {"NONE", "INSTALL", "UNINSTALL"}, inc : Nat, answered : BOOLEAN]
        /\ request'.op = "UNINSTALL" /\ request'.inc = m.inc /\ request'.answered
    BY <1>1, <1>2
  <1>7. Kinds'
    BY <1>1, <1>5, <1>6 DEF Identity, Kinds
  <1>8. Requested'
    BY <1>1, <1>3, <1>4, <1>5, <1>6 DEF Requested
  <1>. QED
    BY <1>5, <1>7, <1>8 DEF Identity

(* A module publishes, subscribes or unsubscribes. *)
LEMMA ModuleStep ==
    ASSUME Identity, NEW m \in live, NEW topic \in Topics,
           ModulePublish(m, topic) \/ ModuleSubscribe(m, topic) \/ ModuleUnsubscribe(m, topic)
    PROVE  Identity'
  <1>1. PICK kind \in Events : toBridge' = Append(toBridge, Message(kind, m, topic))
    BY DEF ModulePublish, ModuleSubscribe, ModuleUnsubscribe, Events
  <1>2. UNCHANGED <<live, names, nextId, request, modules, subs, log, crashed, swallowed>>
    BY DEF ModulePublish, ModuleSubscribe, ModuleUnsubscribe, runtime, bridge
  <1> DEFINE msg == Message(kind, m, topic)
  <1>3. /\ msg \in Messages /\ Key(msg) = m /\ msg.kind = kind /\ msg.arg = topic
        /\ m.inc \in DOMAIN names /\ kind \notin Answers
    BY MessageType DEF Events, Answers
  <1>. HIDE DEF msg
  <1>4. toBridge' = Append(toBridge, msg)
    BY <1>1 DEF msg
  <1>5. /\ toBridge' \in Seq(Messages)
        /\ Messaged' /\ Numbered' /\ InOrder' /\ InList' /\ Heard'
        /\ \A i, j \in DOMAIN toBridge' :
              toBridge'[i].kind \in Answers /\ toBridge'[j].kind \in Answers => i = j
        /\ \A i \in DOMAIN toBridge' : toBridge'[i].kind \in Answers =>
              \/ i \in DOMAIN toBridge /\ toBridge'[i] = toBridge[i]
              \/ toBridge'[i] = msg
    BY <1>2, <1>3, <1>4, SendKeeps DEF Answers
  <1>6. left' \in [{"event", "restart"} -> Nat] /\ left'.restart <= MaxRestart
    BY Spent DEF Identity, ModulePublish, ModuleSubscribe, ModuleUnsubscribe
  <1>7. rsubs' \subseteq [inc : DOMAIN names, topic : Topics] /\ shared' \subseteq Topics
    <2>1. rsubs \subseteq [inc : DOMAIN names, topic : Topics] /\ shared \subseteq Topics
      BY DEF Identity, Kinds
    <2>2. [inc |-> m.inc, topic |-> topic] \in [inc : DOMAIN names, topic : Topics]
      BY <1>3
    <2>. QED
      BY <2>1, <2>2 DEF ModulePublish, ModuleSubscribe, ModuleUnsubscribe, runtime
  <1>8. Kinds'
    BY <1>2, <1>5, <1>6, <1>7 DEF Identity, Kinds
  <1>9. Requested'
    BY <1>2, <1>3, <1>5 DEF Identity, Requested, Withdrawn
  <1>. QED
    BY <1>5, <1>8, <1>9 DEF Identity

(* The runtime is started again: fewer modules and messages. *)
LEMMA RestartStep ==
    ASSUME Identity, RuntimeRestart
    PROVE  Identity' /\ Later(0)
  <1>1. /\ live' = {} /\ rsubs' = {} /\ nextId' = 1 /\ Spend("restart")
        /\ UNCHANGED <<names, shared, modules, subs, log, crashed, swallowed>>
    BY DEF RuntimeRestart, bridge
  <1>2. PICK k \in 0 .. Len(toBridge) :
           /\ toBridge' = SubSeq(toBridge, 1, k)
           /\ request' = request
              \/ /\ \A i \in 1 .. k : toBridge[i].kind \notin {"installed", "uninstalled"}
                 /\ request' = NoRequest
    BY DEF RuntimeRestart
  <1>3. toBridge \in Seq(Messages) /\ Len(toBridge) \in Nat /\ DOMAIN toBridge = 1 .. Len(toBridge)
    BY DEF Identity, Kinds
  <1>4. /\ toBridge' \in Seq(Messages) /\ Len(toBridge') = k
        /\ \A i \in 1 .. k : toBridge'[i] = toBridge[i]
    BY <1>2, <1>3
  <1>5. DOMAIN toBridge' = 1 .. k /\ \A i \in 1 .. k : i \in Nat \ {0} /\ i \in DOMAIN toBridge /\ i + 0 = i
    BY <1>2, <1>3, <1>4
  <1>6. Later(0)
    BY <1>4, <1>5 DEF Later
  <1>7. /\ OnWire' \subseteq OnWire /\ Messaged' /\ InOrder'
        /\ \A i, j \in DOMAIN toBridge' :
              toBridge'[i].kind \in Answers /\ toBridge'[j].kind \in Answers => i = j
    BY <1>1, <1>6, WireKept
  <1>8. Kinds'
    <2>1. left' \in [{"event", "restart"} -> Nat] /\ left'.restart <= MaxRestart
      BY <1>1, Spent DEF Identity
    <2>2. request' \in [op : {"NONE", "INSTALL", "UNINSTALL"}, inc : Nat, answered : BOOLEAN]
      <3>1. request' = request \/ request' = NoRequest
        BY <1>2
      <3>2. NoRequest \in [op : {"NONE", "INSTALL", "UNINSTALL"}, inc : Nat, answered : BOOLEAN]
        BY DEF NoRequest
      <3>. QED
        BY <3>1, <3>2 DEF Identity, Kinds
    <2>3. nextId' \in Nat \ {0} /\ nextId' <= Len(names') + 1
      <3>1. Len(names) \in Nat
        BY DEF Identity, Kinds
      <3>. QED
        BY <1>1, <3>1
    <2>. QED
      BY <1>1, <1>4, <2>1, <2>2, <2>3 DEF Identity, Kinds
  <1>9. Numbered'
    <2>1. Bound' \subseteq Bound
      BY <1>1, <1>7 DEF Bound, Listed
    <2>. QED
      BY <1>1, <2>1 DEF Identity, Numbered
  <1>10. Requested'
    BY <1>1, <1>2, <1>4, <1>5, <1>7 DEF Identity, Requested, Withdrawn, Answers, NoRequest
  <1>11. InList'
    BY <1>1 DEF Identity, InList, AnnouncedAs, Withdrawn
  <1>12. Heard'
    <2>1. Listed' = Listed
      BY <1>1 DEF Listed
    <2>2. \A q \in DOMAIN toBridge' : q \in DOMAIN toBridge /\ toBridge'[q] = toBridge[q]
      BY <1>4, <1>5
    <2>. QED
      BY <1>1, <2>1, <2>2 DEF Identity, Heard, Announced
  <1>. QED
    BY <1>6, <1>7, <1>8, <1>9, <1>10, <1>11, <1>12 DEF Identity

-----------------------------------------------------------------------------
(* The bridge handles an answer: none is left on its way.                    *)
LEMMA NoAnswerLeft ==
    ASSUME Identity, NEW k \in Nat \ {0}, Later(k), 1 \in DOMAIN toBridge,
           toBridge[1].kind \in Answers
    PROVE  \A i \in DOMAIN toBridge' : toBridge'[i].kind \notin Answers
  <1>1. SUFFICES ASSUME NEW i \in DOMAIN toBridge', toBridge'[i].kind \in Answers
                 PROVE  FALSE
    OBVIOUS
  <1>2. i + k \in DOMAIN toBridge /\ toBridge'[i] = toBridge[i + k] /\ i \in Nat \ {0}
    BY DEF Later
  <1>3. i + k = 1
    BY <1>1, <1>2 DEF Identity, Requested
  <1>. QED
    BY <1>2, <1>3

(* What is left on its way was behind the first message. *)
LEMMA BehindFirst ==
    ASSUME NEW k \in Nat \ {0}, Later(k), NEW q \in DOMAIN toBridge'
    PROVE  /\ Key(toBridge'[q]) \in HeardAfter(1)
           /\ \E r \in DOMAIN toBridge : toBridge'[q] = toBridge[r]
  <1>1. q + k \in DOMAIN toBridge /\ toBridge'[q] = toBridge[q + k] /\ q + k > 1
    BY DEF Later
  <1>. QED
    BY <1>1, HeardOf

(* The bridge handles the answer to an install. *)
LEMMA InstalledStep ==
    ASSUME Identity, HandleInstalled
    PROVE  Identity'
  <1>0. SUFFICES ASSUME NEW m, m = toBridge[1]
                 PROVE  Identity'
    OBVIOUS
  <1>1. Kinds /\ Take("installed") /\ request' = NoRequest
        /\ UNCHANGED <<live, names, nextId, rsubs, shared, subs, crashed, left>>
    BY DEF Identity, HandleInstalled, runtime
  <1>2. 1 \in DOMAIN toBridge /\ Head(toBridge) = m /\ m \in Messages /\ m.kind = "installed"
        /\ swallowed' \in BOOLEAN
    BY <1>0, <1>1, TakeLater
  <1>3. PICK k \in Nat \ {0} : Later(k)
    BY <1>1, TakeLater
  <1> DEFINE e == [inc |-> m.inc, id |-> m.id, name |-> m.arg, topics |-> {}]
             l == [cmd |-> "module-inst", inc |-> m.inc, name |-> m.arg, topic |-> "none"]
  <1>4. modules' = <<e>> \o modules /\ log' = Append(log, l)
    <2>1. NameRead(m, 50) = {m.arg}
      BY DEF NameRead
    <2>. QED
      BY <1>2, <2>1 DEF HandleInstalled, module_list_add, Entry
  <1>5. /\ m.inc \in Nat /\ m.id \in Nat /\ m.inc \in DOMAIN names
        /\ m.arg = names[m.inc] /\ m.arg \in Names
        /\ request.op = "INSTALL" /\ m.inc = Len(names) /\ Key(m) \in Bound
    <2>1. m.inc \in Nat /\ m.id \in Nat
      BY <1>2 DEF Messages
    <2>2. Key(m) \in Bound /\ Key(m).inc = m.inc
      BY <1>0, <1>2 DEF Bound, OnWire, Key
    <2>3. m.inc \in DOMAIN names
      BY <2>2 DEF Identity, Numbered
    <2>4. m.arg = names[m.inc]
      BY <1>0, <1>2 DEF Identity, Messaged
    <2>5. names[m.inc] \in Names
      BY <1>1, <2>3 DEF Kinds
    <2>6. request.op = "INSTALL" /\ request.inc = m.inc
      BY <1>0, <1>2 DEF Identity, Requested, Answers
    <2>. QED
      BY <2>1, <2>2, <2>3, <2>4, <2>5, <2>6 DEF Identity, Requested
  <1>6. e \in Listing /\ l \in Logged
    BY <1>5 DEF Listing, Logged, Commands
  <1>7. /\ e.inc = m.inc /\ e.id = m.id /\ e.name = m.arg
        /\ l.cmd = "module-inst" /\ l.inc = m.inc /\ l.name = m.arg
    OBVIOUS
  <1>. HIDE DEF e, l
  <1>8. /\ modules' \in Seq(Listing) /\ modules'[1] = e /\ 1 \in DOMAIN modules'
        /\ \A i \in DOMAIN modules : i + 1 \in DOMAIN modules' /\ modules'[i + 1] = modules[i]
        /\ \A i \in DOMAIN modules' :
              /\ i \in Nat
              /\ i # 1 => i - 1 \in DOMAIN modules /\ modules'[i] = modules[i - 1]
    <2>1. modules \in Seq(Listing) /\ Len(modules) \in Nat
      BY <1>1 DEF Kinds
    <2>2. /\ modules' \in Seq(Listing) /\ DOMAIN modules' = 1 .. Len(modules) + 1 /\ modules'[1] = e
          /\ \A i \in DOMAIN modules : i + 1 \in DOMAIN modules' /\ modules'[i + 1] = modules[i]
          /\ \A i \in DOMAIN modules' : i # 1 => i - 1 \in DOMAIN modules /\ modules'[i] = modules[i - 1]
      BY <1>4, <1>6, <2>1, AddedFirst
    <2>. QED
      BY <2>1, <2>2
  <1>9. /\ log' \in Seq(Logged) /\ DOMAIN log' = DOMAIN log \cup {Len(log) + 1}
        /\ log'[Len(log) + 1] = l /\ \A i \in DOMAIN log : log'[i] = log[i]
    BY <1>1, <1>4, <1>6, AddedLast DEF Kinds
  <1>10. /\ OnWire' \subseteq OnWire /\ Messaged' /\ InOrder'
         /\ \A i \in DOMAIN toBridge' : toBridge'[i].kind \notin Answers
    BY <1>0, <1>1, <1>2, <1>3, WireKept, NoAnswerLeft DEF Answers
  <1>11. Kinds'
    BY <1>1, <1>2, <1>3, <1>8, <1>9 DEF Kinds, Later, NoRequest
  <1>12. Listed' = Listed \cup {Key(m)}
    <2>1. Key(e) = Key(m)
      BY <1>7 DEF Key
    <2>2. Listed' \subseteq Listed \cup {Key(m)}
      BY <1>8, <2>1 DEF Listed
    <2>3. Listed \subseteq Listed'
      BY <1>8 DEF Listed
    <2>4. Key(m) \in Listed'
      BY <1>8, <2>1 DEF Listed
    <2>. QED
      BY <2>2, <2>3, <2>4
  <1>13. Numbered'
    <2>1. Bound' \subseteq Bound
      BY <1>1, <1>5, <1>10, <1>12 DEF Bound
    <2>. QED
      BY <1>1, <1>5, <1>7, <1>9, <2>1 DEF Identity, Numbered
  <1>14. Requested'
    BY <1>1, <1>10 DEF Requested, NoRequest
  <1>15. /\ \A i : Withdrawn(i)' = Withdrawn(i)
         /\ \A i : Announced(i)' <=> Announced(i) \/ i = m.inc
         /\ \A i, n : AnnouncedAs(i, n) => AnnouncedAs(i, n)'
         /\ AnnouncedAs(m.inc, m.arg)'
    BY <1>7, <1>9 DEF Withdrawn, Announced, AnnouncedAs
  <1>16. \A i \in DOMAIN modules : modules[i].inc \in Nat /\ modules[i].inc < m.inc
    <2>1. SUFFICES ASSUME NEW i \in DOMAIN modules
                   PROVE  modules[i].inc \in Nat /\ modules[i].inc < m.inc
      OBVIOUS
    <2>2. modules[i].inc # Len(names)
      BY <1>5 DEF Identity, Requested
    <2>3. Key(modules[i]) \in Bound /\ Key(modules[i]).inc = modules[i].inc
      BY DEF Bound, Listed, Key
    <2>4. modules[i].inc \in DOMAIN names
      BY <2>3 DEF Identity, Numbered
    <2>5. DOMAIN names = 1 .. Len(names) /\ Len(names) \in Nat
      BY <1>1 DEF Kinds
    <2>. QED
      BY <1>5, <2>2, <2>4, <2>5
  <1>17. InList'
    <2>1. ASSUME NEW i \in DOMAIN modules', NEW j \in DOMAIN modules', i < j
          PROVE  modules'[i].inc > modules'[j].inc
      <3>1. j # 1 /\ j - 1 \in DOMAIN modules /\ modules'[j] = modules[j - 1]
        BY <1>8, <2>1
      <3>2. CASE i = 1
        BY <1>5, <1>7, <1>8, <1>16, <3>1, <3>2
      <3>3. CASE i # 1
        <4>1. i - 1 \in DOMAIN modules /\ modules'[i] = modules[i - 1] /\ i - 1 < j - 1
          BY <1>8, <2>1, <3>3
        <4>. QED
          BY <3>1, <4>1 DEF Identity, InList
      <3>. QED
        BY <3>2, <3>3
    <2>2. ASSUME NEW i \in DOMAIN modules'
          PROVE  /\ modules'[i].name = names[modules'[i].inc]
                 /\ AnnouncedAs(modules[i].inc, modules[i].name)'
                 /\ ~Withdrawn(modules[i].inc)'
      <3>1. SUFFICES ASSUME NEW x, x = modules'[i]
                     PROVE  x.name = names[x.inc] /\ AnnouncedAs(x.inc, x.name)' /\ ~Withdrawn(x.inc)'
        BY DEF AnnouncedAs, Withdrawn
      <3>2. CASE i = 1
        BY <1>5, <1>7, <1>8, <1>15, <3>1, <3>2 DEF Identity, Requested
      <3>3. CASE i # 1
        BY <1>8, <1>15, <3>1, <3>3 DEF Identity, InList
      <3>. QED
        BY <3>2, <3>3
    <2>. QED
      BY <1>1, <2>1, <2>2 DEF InList, AnnouncedAs, Withdrawn
  <1>18. Heard'
    <2>1. \A x \in HeardAfter(1) : x.id = m.id => x.inc = m.inc
      BY <1>0, <1>2 DEF Identity, InOrder, Answers
    <2>2. ASSUME NEW i \in DOMAIN modules', NEW x \in live, modules'[i].id = x.id
          PROVE  modules'[i].inc <= x.inc
      <3>1. CASE i = 1
        <4>1. x \in HeardAfter(1)
          BY HeardOf
        <4>. QED
          BY <1>5, <1>7, <1>8, <2>1, <2>2, <3>1, <4>1
      <3>2. CASE i # 1
        BY <1>8, <2>2, <3>2 DEF Identity, Heard
      <3>. QED
        BY <3>1, <3>2
    <2>3. ASSUME NEW i \in DOMAIN modules', NEW q \in DOMAIN toBridge',
                 toBridge'[q].kind # "installed", modules'[i].id = toBridge'[q].id
          PROVE  modules'[i].inc <= toBridge'[q].inc
      <3>1. CASE i = 1
        <4>1. Key(toBridge'[q]) \in HeardAfter(1)
          BY <1>3, BehindFirst
        <4>2. Key(toBridge'[q]).id = toBridge'[q].id /\ Key(toBridge'[q]).inc = toBridge'[q].inc
          BY DEF Key
        <4>. QED
          BY <1>5, <1>7, <1>8, <2>1, <2>3, <3>1, <4>1, <4>2
      <3>2. CASE i # 1
        <4>1. PICK r \in DOMAIN toBridge : toBridge'[q] = toBridge[r]
          BY <1>3, BehindFirst
        <4>. QED
          BY <1>8, <2>3, <3>2, <4>1 DEF Identity, Heard
      <3>. QED
        BY <3>1, <3>2
    <2>4. ASSUME NEW x \in live, Announced(x.inc) \/ x.inc = m.inc
          PROVE  x \in Listed \cup {Key(m)}
      <3>1. CASE Announced(x.inc)
        BY <3>1 DEF Identity, Heard
      <3>2. CASE x.inc = m.inc
        <4>1. x \in Bound /\ Key(m).inc = m.inc
          BY DEF Bound, Key
        <4>. QED
          BY <1>5, <3>2, <4>1 DEF Identity, Numbered
      <3>. QED
        BY <2>4, <3>1, <3>2
    <2>5. ASSUME NEW q \in DOMAIN toBridge', toBridge'[q].kind \in Events,
                 NEW i, i = toBridge'[q].inc, Announced(i) \/ i = m.inc
          PROVE  Key(toBridge'[q]) \in Listed \cup {Key(m)}
      <3>1. PICK r \in DOMAIN toBridge : toBridge'[q] = toBridge[r]
        BY <1>3, BehindFirst
      <3>2. CASE Announced(i)
        BY <2>5, <3>1, <3>2 DEF Identity, Heard
      <3>3. CASE i = m.inc
        <4>1. Key(toBridge[r]) \in Bound /\ Key(toBridge[r]).inc = i /\ Key(m).inc = m.inc
          BY <2>5, <3>1 DEF Bound, OnWire, Key
        <4>2. Key(toBridge[r]) = Key(m)
          BY <1>5, <3>3, <4>1 DEF Identity, Numbered
        <4>. QED
          BY <3>1, <4>2
      <3>. QED
        BY <2>5, <3>2, <3>3
    <2>6. \A x \in live' : Announced(x.inc)' => x \in Listed'
      <3>1. SUFFICES ASSUME NEW x \in live, NEW i, i = x.inc, Announced(i)'
                     PROVE  x \in Listed'
        BY <1>1 DEF Announced
      <3>. QED
        BY <1>12, <1>15, <2>4, <3>1
    <2>7. \A q \in DOMAIN toBridge' :
             toBridge'[q].kind \in Events /\ Announced(toBridge[q].inc)' => Key(toBridge'[q]) \in Listed'
      <3>1. SUFFICES ASSUME NEW q \in DOMAIN toBridge', toBridge'[q].kind \in Events,
                            NEW i, i = toBridge'[q].inc, Announced(i)'
                     PROVE  Key(toBridge'[q]) \in Listed'
        BY DEF Announced
      <3>. QED
        BY <1>12, <1>15, <2>5, <3>1
    <2>. QED
      BY <1>1, <2>2, <2>3, <2>6, <2>7 DEF Heard, Announced
  <1>. QED
    BY <1>10, <1>11, <1>13, <1>14, <1>17, <1>18 DEF Identity

(* The list without the first entry that has the id. *)
LEMMA Deleted ==
    ASSUME modules \in Seq(Listing), NEW id, modules' = module_list_del_by_id(id)
    PROVE  /\ modules' \in Seq(Listing)
           /\ \A i \in DOMAIN modules' : \E o \in DOMAIN modules :
                 modules'[i] = modules[o] /\ ~(Known(id) /\ o = First(id))
           /\ \A i, j \in DOMAIN modules' : i < j => \E o, r \in DOMAIN modules :
                 o < r /\ modules'[i] = modules[o] /\ modules'[j] = modules[r]
           /\ \A o \in DOMAIN modules : ~(Known(id) /\ o = First(id)) =>
                 \E i \in DOMAIN modules' : modules'[i] = modules[o]
  <1>1. CASE ~Known(id)
    BY <1>1 DEF module_list_del_by_id
  <1>2. CASE Known(id)
    <2>1. SUFFICES ASSUME NEW p, p = First(id), NEW t, t = modules'
                   PROVE  /\ t \in Seq(Listing)
                          /\ \A i \in DOMAIN t : \E o \in DOMAIN modules : t[i] = modules[o] /\ o # p
                          /\ \A i, j \in DOMAIN t : i < j => \E o, r \in DOMAIN modules :
                                o < r /\ t[i] = modules[o] /\ t[j] = modules[r]
                          /\ \A o \in DOMAIN modules : o # p => \E i \in DOMAIN t : t[i] = modules[o]
      BY <1>2
    <2>2. p \in DOMAIN modules /\ t = RemoveAt(modules, p)
      BY <1>2, <2>1, FirstOf DEF module_list_del_by_id
    <2>3. /\ t \in Seq(Listing)
          /\ \A i \in DOMAIN t : i < p => i \in DOMAIN modules /\ t[i] = modules[i]
          /\ \A i \in DOMAIN t : i >= p => i + 1 \in DOMAIN modules /\ t[i] = modules[i + 1]
          /\ \A i \in DOMAIN modules : i < p => i \in DOMAIN t
          /\ \A i \in DOMAIN modules : i > p => i - 1 \in DOMAIN t
      BY <2>2, Removed
    <2>4. p \in Nat /\ (\A i \in DOMAIN t : i \in Nat) /\ (\A i \in DOMAIN modules : i \in Nat)
      BY <2>2, <2>3
    <2>5. ASSUME NEW i \in DOMAIN t PROVE \E o \in DOMAIN modules : t[i] = modules[o] /\ o # p
      <3>1. CASE i < p
        BY <2>3, <2>4, <3>1
      <3>2. CASE i >= p
        BY <2>3, <2>4, <3>2
      <3>. QED
        BY <2>4, <3>1, <3>2
    <2>6. ASSUME NEW i \in DOMAIN t, NEW j \in DOMAIN t, i < j
          PROVE  \E o, r \in DOMAIN modules : o < r /\ t[i] = modules[o] /\ t[j] = modules[r]
      <3>1. CASE j < p
        BY <2>3, <2>4, <2>6, <3>1
      <3>2. CASE i < p /\ j >= p
        BY <2>3, <2>4, <2>6, <3>2
      <3>3. CASE i >= p
        <4>1. j >= p /\ i + 1 < j + 1
          BY <2>4, <2>6, <3>3
        <4>2. /\ i + 1 \in DOMAIN modules /\ t[i] = modules[i + 1]
              /\ j + 1 \in DOMAIN modules /\ t[j] = modules[j + 1]
          BY <2>3, <3>3, <4>1
        <4>. QED
          BY <4>1, <4>2
      <3>. QED
        BY <2>4, <3>1, <3>2, <3>3
    <2>7. ASSUME NEW o \in DOMAIN modules, o # p PROVE \E i \in DOMAIN t : t[i] = modules[o]
      <3>1. CASE o < p
        BY <2>3, <2>4, <3>1
      <3>2. CASE o > p
        <4>1. o - 1 \in DOMAIN t /\ o - 1 >= p /\ (o - 1) + 1 = o
          BY <2>3, <2>4, <3>2
        <4>. QED
          BY <2>3, <4>1
      <3>. QED
        BY <2>4, <2>7, <3>1, <3>2
    <2>. QED
      BY <2>3, <2>5, <2>6, <2>7
  <1>. QED
    BY <1>1, <1>2

(* The bridge handles the answer to an uninstall. *)
LEMMA UninstalledStep ==
    ASSUME Identity, HandleUninstalled
    PROVE  Identity'
  <1>0. SUFFICES ASSUME NEW m, m = toBridge[1]
                 PROVE  Identity'
    OBVIOUS
  <1>1. Kinds /\ Take("uninstalled") /\ request' = NoRequest
        /\ UNCHANGED <<live, names, nextId, rsubs, shared, subs, left>>
    BY DEF Identity, HandleUninstalled, runtime
  <1>2. 1 \in DOMAIN toBridge /\ Head(toBridge) = m /\ m \in Messages /\ m.kind = "uninstalled"
        /\ swallowed' \in BOOLEAN
    BY <1>0, <1>1, TakeLater
  <1>3. PICK k \in Nat \ {0} : Later(k)
    BY <1>1, TakeLater
  <1>4. /\ OnWire' \subseteq OnWire /\ Messaged' /\ InOrder'
        /\ \A i \in DOMAIN toBridge' : toBridge'[i].kind \notin Answers
    BY <1>0, <1>1, <1>2, <1>3, WireKept, NoAnswerLeft DEF Answers
  <1>5. Requested'
    BY <1>1, <1>4 DEF Requested, NoRequest
  <1>6. m.inc \in DOMAIN names /\ m.inc \in Nat /\ Key(m) \in Bound
    <2>1. Key(m) \in Bound /\ Key(m).inc = m.inc
      BY <1>0, <1>2 DEF Bound, OnWire, Key
    <2>. QED
      BY <1>2, <2>1 DEF Identity, Numbered, Messages
  <1>7. CASE crashed' = TRUE /\ UNCHANGED <<modules, log>>
    <2>1. Kinds'
      BY <1>1, <1>2, <1>3, <1>7 DEF Kinds, Later, NoRequest
    <2>2. Numbered'
      <3>1. Bound' \subseteq Bound
        BY <1>1, <1>4, <1>7 DEF Bound, Listed
      <3>. QED
        BY <1>1, <1>7, <3>1 DEF Identity, Numbered
    <2>3. InList'
      BY <1>1, <1>7 DEF Identity, InList, AnnouncedAs, Withdrawn
    <2>4. Heard'
      <3>1. Listed' = Listed
        BY <1>7 DEF Listed
      <3>2. \A q \in DOMAIN toBridge' : \E r \in DOMAIN toBridge : toBridge'[q] = toBridge[r]
        BY <1>3, BehindFirst
      <3>. QED
        BY <1>1, <1>7, <3>1, <3>2 DEF Identity, Heard, Announced
    <2>. QED
      BY <1>4, <1>5, <2>1, <2>2, <2>3, <2>4 DEF Identity
  <1>8. ASSUME modules' = module_list_del_by_id(m.id), crashed' = crashed,
               NEW name \in NameRead(m, 0), log' = Append(log, Entry("module-uninst", m.inc, name, "none"))
        PROVE  Identity'
    <2> DEFINE l == Entry("module-uninst", m.inc, name, "none")
    <2>1. l \in Logged /\ l.cmd = "module-uninst" /\ l.inc = m.inc
      BY <1>6, <1>8 DEF Logged, Commands, Entry, NameRead
    <2>2. /\ log' \in Seq(Logged) /\ DOMAIN log' = DOMAIN log \cup {Len(log) + 1}
          /\ log'[Len(log) + 1] = l /\ \A i \in DOMAIN log : log'[i] = log[i]
      BY <1>1, <1>8, <2>1, AddedLast DEF Kinds
    <2>. HIDE DEF l
    <2>3. modules \in Seq(Listing)
      BY <1>1 DEF Kinds
    <2>4. /\ modules' \in Seq(Listing)
          /\ \A i \in DOMAIN modules' : \E o \in DOMAIN modules :
                modules'[i] = modules[o] /\ ~(Known(m.id) /\ o = First(m.id))
          /\ \A i, j \in DOMAIN modules' : i < j => \E o, r \in DOMAIN modules :
                o < r /\ modules'[i] = modules[o] /\ modules'[j] = modules[r]
          /\ \A o \in DOMAIN modules : ~(Known(m.id) /\ o = First(m.id)) =>
                \E i \in DOMAIN modules' : modules'[i] = modules[o]
      BY <1>8, <2>3, Deleted
    <2>5. \A o \in DOMAIN modules : modules[o].id # m.id => ~(Known(m.id) /\ o = First(m.id))
      BY <2>3, FirstOf
    <2>6. \A o \in DOMAIN modules : modules[o].inc = m.inc => Known(m.id) /\ o = First(m.id)
      <3>1. SUFFICES ASSUME NEW o \in DOMAIN modules, modules[o].inc = m.inc
                     PROVE  Known(m.id) /\ o = First(m.id)
        OBVIOUS
      <3>2. Key(modules[o]) \in Bound /\ Key(modules[o]).inc = m.inc /\ Key(m).inc = m.inc
        BY <3>1 DEF Bound, Listed, Key
      <3>3. Key(modules[o]) = Key(m)
        BY <1>6, <3>2 DEF Identity, Numbered
      <3>4. modules[o].id = m.id
        BY <3>3 DEF Key
      <3>5. \A j \in DOMAIN modules : modules[j].id = m.id => modules[j].inc <= m.inc
        BY <1>0, <1>2 DEF Identity, Heard
      <3>. QED
        BY <2>3, <3>1, <3>4, <3>5, FirstIsLatest DEF Identity
    <2>7. Kinds'
      BY <1>1, <1>2, <1>3, <1>8, <2>2, <2>4 DEF Kinds, Later, NoRequest
    <2>8. Listed' \subseteq Listed /\ \A x \in Listed : x.id # m.id => x \in Listed'
      <3>1. Listed' \subseteq Listed
        BY <2>4 DEF Listed
      <3>2. ASSUME NEW o \in DOMAIN modules, modules[o].id # m.id PROVE Key(modules[o]) \in Listed'
        BY <2>4, <2>5, <3>2 DEF Listed
      <3>3. ASSUME NEW x \in Listed, x.id # m.id PROVE x \in Listed'
        <4>1. PICK o \in DOMAIN modules : x = Key(modules[o])
          BY DEF Listed
        <4>2. x.id = modules[o].id
          BY <4>1 DEF Key
        <4>. QED
          BY <3>2, <3>3, <4>1, <4>2
      <3>. QED
        BY <3>1, <3>3
    <2>9. Numbered'
      <3>1. Bound' \subseteq Bound
        BY <1>1, <1>4, <2>8 DEF Bound
      <3>. QED
        BY <1>1, <1>6, <2>1, <2>2, <3>1 DEF Identity, Numbered
    <2>10. /\ \A i : Withdrawn(i)' <=> Withdrawn(i) \/ i = m.inc
           /\ \A i : Announced(i)' <=> Announced(i)
           /\ \A i, n : AnnouncedAs(i, n) => AnnouncedAs(i, n)'
      BY <2>1, <2>2 DEF Withdrawn, Announced, AnnouncedAs
    <2>11. InList'
      <3>1. ASSUME NEW i \in DOMAIN modules', NEW j \in DOMAIN modules', i < j
            PROVE  modules'[i].inc > modules'[j].inc
        BY <2>4, <3>1 DEF Identity, InList
      <3>2. ASSUME NEW i \in DOMAIN modules'
            PROVE  /\ modules'[i].name = names[modules'[i].inc]
                   /\ AnnouncedAs(modules[i].inc, modules[i].name)'
                   /\ ~Withdrawn(modules[i].inc)'
        <4>1. SUFFICES ASSUME NEW x, x = modules'[i]
                       PROVE  x.name = names[x.inc] /\ AnnouncedAs(x.inc, x.name)' /\ ~Withdrawn(x.inc)'
          BY DEF AnnouncedAs, Withdrawn
        <4>2. PICK o \in DOMAIN modules : x = modules[o] /\ ~(Known(m.id) /\ o = First(m.id))
          BY <2>4, <4>1
        <4>3. x.inc # m.inc
          BY <2>6, <4>2
        <4>. QED
          BY <2>10, <4>2, <4>3 DEF Identity, InList
      <3>. QED
        BY <1>1, <3>1, <3>2 DEF InList, AnnouncedAs, Withdrawn
    <2>12. Heard'
      <3>1. \A x \in HeardAfter(1) : x.id # m.id
        BY <1>0, <1>2 DEF Identity, InOrder, Answers
      <3>2. ASSUME NEW i \in DOMAIN modules', NEW x \in live, modules'[i].id = x.id
            PROVE  modules'[i].inc <= x.inc
        BY <2>4, <3>2 DEF Identity, Heard
      <3>3. ASSUME NEW i \in DOMAIN modules', NEW q \in DOMAIN toBridge',
                   toBridge'[q].kind # "installed", modules'[i].id = toBridge'[q].id
            PROVE  modules'[i].inc <= toBridge'[q].inc
        <4>1. PICK r \in DOMAIN toBridge : toBridge'[q] = toBridge[r]
          BY <1>3, BehindFirst
        <4>. QED
          BY <2>4, <3>3, <4>1 DEF Identity, Heard
      <3>4. \A x \in live' : Announced(x.inc)' => x \in Listed'
        <4>1. SUFFICES ASSUME NEW x \in live, NEW i, i = x.inc, Announced(i)'
                       PROVE  x \in Listed'
          BY <1>1 DEF Announced
        <4>2. x \in Listed /\ x.id # m.id
          BY <2>10, <3>1, <4>1, HeardOf DEF Identity, Heard
        <4>. QED
          BY <2>8, <4>2
      <3>5. \A q \in DOMAIN toBridge' :
               toBridge'[q].kind \in Events /\ Announced(toBridge[q].inc)' => Key(toBridge'[q]) \in Listed'
        <4>1. SUFFICES ASSUME NEW q \in DOMAIN toBridge', toBridge'[q].kind \in Events,
                              NEW i, i = toBridge'[q].inc, Announced(i)'
                       PROVE  Key(toBridge'[q]) \in Listed'
          BY DEF Announced
        <4>2. Key(toBridge'[q]) \in HeardAfter(1) /\ \E r \in DOMAIN toBridge : toBridge'[q] = toBridge[r]
          BY <1>3, BehindFirst
        <4>3. Key(toBridge'[q]) \in Listed /\ Key(toBridge'[q]).id # m.id
          BY <2>10, <3>1, <4>1, <4>2 DEF Identity, Heard
        <4>. QED
          BY <2>8, <4>3
      <3>. QED
        BY <1>1, <3>2, <3>3, <3>4, <3>5 DEF Heard, Announced
    <2>. QED
      BY <1>4, <1>5, <2>7, <2>9, <2>11, <2>12 DEF Identity
  <1>. QED
    BY <1>2, <1>7, <1>8 DEF HandleUninstalled

(* The event of a module: the list keeps its entries but for their topics... *)
SameEntries ==
    /\ modules' \in Seq(Listing) /\ DOMAIN modules' = DOMAIN modules
    /\ \A i \in DOMAIN modules : /\ modules'[i].inc = modules[i].inc
                                 /\ modules'[i].id = modules[i].id
                                 /\ modules'[i].name = modules[i].name
                                 /\ modules[i].topics \subseteq modules'[i].topics

(* ... and what is published, if anything, is about the entry found. *)
Reported(m) ==
    \/ log' = log
    \/ /\ Known(m.id)
       /\ \E l \in Logged :
             /\ log' = Append(log, l) /\ IsChild(l)
             /\ l.inc = m.inc /\ l.name = modules[First(m.id)].name /\ l.topic = m.arg
             /\ l.cmd = "pub-start" => /\ m.arg \notin modules[First(m.id)].topics
                                       /\ m.arg \in modules'[First(m.id)].topics

(* An entry of the list gets a topic. *)
LEMMA TopicAdded ==
    ASSUME modules \in Seq(Listing), NEW f \in DOMAIN modules, NEW t \in Topics,
           modules' = [modules EXCEPT ![f].topics = @ \cup {t}]
    PROVE  SameEntries /\ t \in modules'[f].topics
  <1> DEFINE e == [modules[f] EXCEPT !.topics = @ \cup {t}]
  <1>1. modules[f] \in Listing
    OBVIOUS
  <1>2. /\ e \in Listing /\ e.inc = modules[f].inc /\ e.id = modules[f].id
        /\ e.name = modules[f].name /\ e.topics = modules[f].topics \cup {t}
    BY <1>1 DEF Listing
  <1>3. modules' = [modules EXCEPT ![f] = e]
    OBVIOUS
  <1>. HIDE DEF e
  <1>4. /\ DOMAIN modules' = DOMAIN modules /\ modules'[f] = e
        /\ \A i \in DOMAIN modules : i # f => modules'[i] = modules[i]
    BY <1>3
  <1>5. modules' \in Seq(Listing)
    <2>1. Len(modules) \in Nat /\ modules \in [1 .. Len(modules) -> Listing]
      BY LenProperties
    <2>2. modules' \in [1 .. Len(modules) -> Listing]
      BY <1>2, <1>3, <2>1
    <2>. QED
      BY <2>1, <2>2, SeqDef
  <1>. QED
    BY <1>2, <1>4, <1>5 DEF SameEntries

(* What the bridge does with the event of a module. *)
LEMMA EventShape ==
    ASSUME Identity, HandleSub \/ HandleUnsub \/ HandlePub
    PROVE  /\ SameEntries /\ Reported(toBridge[1])
           /\ toBridge[1].inc \in DOMAIN names /\ toBridge[1].arg \in Topics
           /\ toBridge[1].kind \in Events
           /\ 1 \in DOMAIN toBridge /\ toBridge[1] \in Messages /\ swallowed' \in BOOLEAN
  <1>0. SUFFICES ASSUME NEW m, m = toBridge[1]
                 PROVE  /\ SameEntries /\ Reported(m) /\ m.inc \in DOMAIN names /\ m.arg \in Topics
                        /\ m.kind \in Events /\ 1 \in DOMAIN toBridge /\ m \in Messages
                        /\ swallowed' \in BOOLEAN
    OBVIOUS
  <1>1. PICK kind \in Events : Take(kind)
    BY DEF HandleSub, HandleUnsub, HandlePub, Events
  <1>2. modules \in Seq(Listing) /\ log \in Seq(Logged) /\ names \in Seq(Names)
    BY DEF Identity, Kinds
  <1>3. 1 \in DOMAIN toBridge /\ Head(toBridge) = m /\ m \in Messages /\ m.kind = kind
        /\ swallowed' \in BOOLEAN
    BY <1>0, <1>1, TakeLater DEF Identity
  <1>4. m.inc \in DOMAIN names /\ m.inc \in Nat /\ m.arg \in Topics
    <2>1. Key(m) \in Bound /\ Key(m).inc = m.inc
      BY <1>0, <1>3 DEF Bound, OnWire, Key
    <2>2. m.arg \in Topics
      BY <1>0, <1>3 DEF Identity, Messaged
    <2>. QED
      BY <1>3, <2>1, <2>2 DEF Identity, Numbered, Messages
  <1>5. SameEntries
    <2>1. CASE modules' = modules
      BY <1>2, <2>1 DEF SameEntries
    <2>2. CASE modules' = topic_list_check_and_add(m.id, m.arg)
      <3>1. CASE TopicIsNew(m.id, m.arg)
        <4>1. Known(m.id)
          BY <3>1 DEF TopicIsNew
        <4>2. First(m.id) \in DOMAIN modules
          BY <1>2, <4>1, FirstOf
        <4>. QED
          BY <1>2, <1>4, <2>2, <3>1, <4>2, TopicAdded DEF topic_list_check_and_add
      <3>2. CASE ~TopicIsNew(m.id, m.arg)
        BY <2>1, <2>2, <3>2 DEF topic_list_check_and_add
      <3>. QED
        BY <3>1, <3>2
    <2>. QED
      BY <1>3, <2>1, <2>2 DEF HandleSub, HandleUnsub, HandlePub
  <1>6. ASSUME HandlePub, TopicIsNew(m.id, m.arg)
        PROVE  m.arg \notin modules[First(m.id)].topics /\ m.arg \in modules'[First(m.id)].topics
    <2>1. Known(m.id) /\ m.arg \notin modules[First(m.id)].topics
      BY <1>6 DEF TopicIsNew
    <2>2. First(m.id) \in DOMAIN modules
      BY <1>2, <2>1, FirstOf
    <2>3. modules' = topic_list_check_and_add(m.id, m.arg)
      BY <1>3, <1>6 DEF HandlePub
    <2>. QED
      BY <1>2, <1>4, <1>6, <2>1, <2>2, <2>3, TopicAdded DEF topic_list_check_and_add
  <1>7. ASSUME NEW cmd \in {"pub-start", "sub-start", "sub-stop"},
               log' = mqtt_notify_pubsub_event(cmd, m),
               cmd = "pub-start" => HandlePub /\ TopicIsNew(m.id, m.arg)
        PROVE  Reported(m)
    <2>1. CASE ~Known(m.id)
      BY <1>7, <2>1 DEF mqtt_notify_pubsub_event, Reported
    <2>2. CASE Known(m.id)
      <3> DEFINE n == modules[First(m.id)].name
                 l == Entry(cmd, m.inc, n, m.arg)
      <3>1. n \in Names
        <4>1. modules[First(m.id)] \in Listing
          BY <1>2, <2>2, FirstOf
        <4>. QED
          BY <4>1 DEF Listing
      <3>2. log' = Append(log, l)
        BY <1>7, <2>2 DEF mqtt_notify_pubsub_event
      <3>. HIDE DEF n
      <3>3. l \in Logged /\ IsChild(l) /\ l.inc = m.inc /\ l.name = n /\ l.topic = m.arg /\ l.cmd = cmd
        BY <1>4, <3>1 DEF Logged, Entry, IsChild, Commands
      <3>. HIDE DEF l
      <3>. QED
        BY <1>6, <1>7, <2>2, <3>2, <3>3 DEF Reported, n
    <2>. QED
      BY <2>1, <2>2
  <1>8. Reported(m)
    <2>1. CASE log' = log
      BY <2>1 DEF Reported
    <2>. QED
      BY <1>3, <1>7, <2>1 DEF HandleSub, HandleUnsub, HandlePub
  <1>. QED
    BY <1>3, <1>4, <1>5, <1>8

(* What is known of the modules is the same after the event of one. *)
LEMMA EventKnows ==
    ASSUME Identity, SameEntries, Reported(toBridge[1])
    PROVE  /\ Listed' = Listed
           /\ \A i : Withdrawn(i)' = Withdrawn(i) /\ Announced(i)' = Announced(i)
           /\ \A i, n : AnnouncedAs(i, n)' = AnnouncedAs(i, n)
           /\ log' \in Seq(Logged)
           /\ \A i \in DOMAIN log' : \/ i \in DOMAIN log /\ log'[i] = log[i]
                                     \/ log'[i].inc = toBridge[1].inc /\ IsChild(log'[i])
  <1>0. SUFFICES ASSUME NEW m, m = toBridge[1]
                 PROVE  /\ Listed' = Listed
                        /\ \A i : Withdrawn(i)' = Withdrawn(i) /\ Announced(i)' = Announced(i)
                        /\ \A i, n : AnnouncedAs(i, n)' = AnnouncedAs(i, n)
                        /\ log' \in Seq(Logged)
                        /\ \A i \in DOMAIN log' : \/ i \in DOMAIN log /\ log'[i] = log[i]
                                                  \/ log'[i].inc = m.inc /\ IsChild(log'[i])
    OBVIOUS
  <1>1. Listed' = Listed
    <2>1. \A i \in DOMAIN modules : Key(modules'[i]) = Key(modules[i])
      BY DEF SameEntries, Key
    <2>. QED
      BY <2>1 DEF SameEntries, Listed
  <1>2. log \in Seq(Logged)
    BY DEF Identity, Kinds
  <1>3. CASE log' = log
    BY <1>1, <1>2, <1>3 DEF Withdrawn, Announced, AnnouncedAs
  <1>4. CASE log' # log
    <2>1. PICK l \in Logged : log' = Append(log, l) /\ IsChild(l) /\ l.inc = m.inc
      BY <1>0, <1>4 DEF Reported
    <2>2. /\ log' \in Seq(Logged) /\ DOMAIN log' = DOMAIN log \cup {Len(log) + 1}
          /\ log'[Len(log) + 1] = l /\ \A i \in DOMAIN log : log'[i] = log[i]
      BY <1>2, <2>1, AddedLast
    <2>3. l.cmd # "module-inst" /\ l.cmd # "module-uninst"
      BY <2>1 DEF IsChild
    <2>. QED
      BY <1>1, <2>1, <2>2, <2>3 DEF Withdrawn, Announced, AnnouncedAs
  <1>. QED
    BY <1>3, <1>4

(* The bridge handles the event of a module. *)
LEMMA EventStep ==
    ASSUME Identity, HandleSub \/ HandleUnsub \/ HandlePub
    PROVE  Identity'
  <1>0. SUFFICES ASSUME NEW m, m = toBridge[1]
                 PROVE  Identity'
    OBVIOUS
  <1>1. /\ SameEntries /\ Reported(m) /\ m.inc \in DOMAIN names /\ m.arg \in Topics
        /\ m.kind \in Events /\ 1 \in DOMAIN toBridge /\ m \in Messages
        /\ swallowed' \in BOOLEAN
    BY <1>0, EventShape
  <1>2. Kinds /\ UNCHANGED <<live, names, nextId, rsubs, shared, request, crashed, left>>
    BY DEF Identity, HandleSub, HandleUnsub, HandlePub, runtime
  <1>3. PICK k \in Nat \ {0} : Later(k)
    BY <1>2, TakeLater DEF HandleSub, HandleUnsub, HandlePub
  <1>4. /\ OnWire' \subseteq OnWire /\ Messaged' /\ InOrder'
        /\ \A i, j \in DOMAIN toBridge' :
              toBridge'[i].kind \in Answers /\ toBridge'[j].kind \in Answers => i = j
    BY <1>2, <1>3, WireKept
  <1>5. /\ Listed' = Listed
        /\ \A i : Withdrawn(i)' = Withdrawn(i) /\ Announced(i)' = Announced(i)
        /\ \A i, n : AnnouncedAs(i, n)' = AnnouncedAs(i, n)
        /\ log' \in Seq(Logged)
        /\ \A i \in DOMAIN log' : \/ i \in DOMAIN log /\ log'[i] = log[i]
                                  \/ log'[i].inc = m.inc /\ IsChild(log'[i])
    BY <1>0, <1>1, EventKnows
  <1>6. Kinds'
    <2>1. subs' \subseteq Topics
      <3>1. Head(toBridge) = m
        BY <1>0, <1>2, TakeLater DEF HandleSub, HandleUnsub, HandlePub
      <3>. QED
        BY <1>1, <1>2, <3>1 DEF HandleSub, HandleUnsub, HandlePub, Subscribed, Kinds
    <2>. QED
      BY <1>1, <1>2, <1>3, <1>5, <2>1 DEF Kinds, Later, SameEntries
  <1>7. Numbered'
    <2>1. Bound' \subseteq Bound
      BY <1>2, <1>4, <1>5 DEF Bound
    <2>2. \A i \in DOMAIN log' : log'[i].inc \in DOMAIN names
      BY <1>1, <1>5 DEF Identity, Numbered
    <2>. QED
      BY <1>2, <2>1, <2>2 DEF Identity, Numbered
  <1>8. \A q \in DOMAIN toBridge' : \E r \in DOMAIN toBridge : toBridge'[q] = toBridge[r]
    BY <1>3, BehindFirst
  <1>9. Requested'
    <2>1. \A i \in DOMAIN toBridge' : toBridge'[i].kind \in Answers =>
             /\ request.op = (IF toBridge'[i].kind = "installed" THEN "INSTALL" ELSE "UNINSTALL")
             /\ request.answered /\ request.inc = toBridge'[i].inc
      BY <1>8 DEF Identity, Requested
    <2>2. \A i \in DOMAIN modules : modules'[i].inc = modules[i].inc
      BY <1>1 DEF SameEntries
    <2>3. ~Withdrawn(Len(names)) => ~Withdrawn(Len(names))'
      BY <1>2, <1>5 DEF Withdrawn
    <2>. QED
      BY <1>1, <1>2, <1>4, <2>1, <2>2, <2>3 DEF Identity, Requested, SameEntries
  <1>10. InList'
    <2>1. \A i, j \in DOMAIN modules' : i < j => modules'[i].inc > modules'[j].inc
      BY <1>1 DEF Identity, InList, SameEntries
    <2>2. SUFFICES ASSUME NEW i \in DOMAIN modules', NEW x, x = modules'[i]
                   PROVE  x.name = names[x.inc] /\ AnnouncedAs(x.inc, x.name)' /\ ~Withdrawn(x.inc)'
      BY <1>2, <2>1 DEF InList, AnnouncedAs, Withdrawn
    <2>3. i \in DOMAIN modules /\ x.inc = modules[i].inc /\ x.name = modules[i].name
      BY <1>1, <2>2 DEF SameEntries
    <2>. QED
      BY <1>5, <2>3 DEF Identity, InList
  <1>11. Heard'
    <2>1. \A i \in DOMAIN modules' :
             /\ \A x \in live : modules'[i].id = x.id => modules'[i].inc <= x.inc
             /\ \A q \in DOMAIN toBridge' :
                   toBridge'[q].kind # "installed" /\ modules'[i].id = toBridge'[q].id
                       => modules'[i].inc <= toBridge'[q].inc
      BY <1>1, <1>8 DEF Identity, Heard, SameEntries
    <2>2. ASSUME NEW x \in live, NEW i, i = x.inc, Announced(i)'
          PROVE  x \in Listed'
      BY <1>5, <2>2 DEF Identity, Heard
    <2>3. ASSUME NEW q \in DOMAIN toBridge', toBridge'[q].kind \in Events,
                 NEW i, i = toBridge'[q].inc, Announced(i)'
          PROVE  Key(toBridge'[q]) \in Listed'
      BY <1>5, <1>8, <2>3 DEF Identity, Heard
    <2>. QED
      BY <1>2, <2>1, <2>2, <2>3 DEF Heard, Announced
  <1>. QED
    BY <1>4, <1>6, <1>7, <1>9, <1>10, <1>11 DEF Identity

-----------------------------------------------------------------------------
(* What is published stays right when names are only added ...               *)
LEMMA LogKept ==
    ASSUME Identity, Histories, log' = log, \A i \in DOMAIN names : names'[i] = names[i]
    PROVE  Histories'
  <1>1. \A i \in DOMAIN log : log[i].inc \in DOMAIN names
    BY DEF Identity, Numbered
  <1>2. Named' /\ ParentAnnounced'
    BY DEF Histories, Named, ParentAnnounced
  <1>3. AttributedRight'
    BY <1>1 DEF Histories, AttributedRight
  <1>. QED
    BY <1>2, <1>3 DEF Histories

(* ... and when an event is added that has its parent and its name. *)
LEMMA LogGrown ==
    ASSUME Identity, Histories, names' = names, NEW l \in Logged, log' = Append(log, l),
           l.cmd # "module-uninst" => l.name \in Names,
           IsChild(l) => \E j \in DOMAIN log : /\ log[j].cmd = "module-inst" /\ log[j].name = l.name
                                               /\ ~Withdrawn(log[j].inc),
           IsChild(l) /\ Announced(l.inc) => l.name = names[l.inc]
    PROVE  Histories'
  <1> DEFINE n == Len(log) + 1
  <1>1. log \in Seq(Logged)
    BY DEF Identity, Kinds
  <1>2. /\ DOMAIN log = 1 .. Len(log) /\ Len(log) \in Nat /\ DOMAIN log' = DOMAIN log \cup {n}
        /\ log'[n] = l /\ \A i \in DOMAIN log : log'[i] = log[i]
    BY <1>1, AddedLast
  <1>3. /\ n \in Nat /\ n \notin DOMAIN log
        /\ \A i \in DOMAIN log : i \in Nat /\ i < n /\ i \in 1 .. n
        /\ \A i \in DOMAIN log : \A j \in 1 .. i : j \in DOMAIN log
        /\ \A i \in DOMAIN log : \A j \in 1 .. i : \A k \in j .. i : k \in DOMAIN log
        /\ \A j \in DOMAIN log : \A k \in j .. n : k \in DOMAIN log \/ k = n
    BY <1>2
  <1>. HIDE DEF n
  <1>4. Named'
    BY <1>2 DEF Histories, Named
  <1>5. ParentAnnounced'
    <2>1. SUFFICES ASSUME NEW i \in DOMAIN log', IsChild(log'[i])
                   PROVE  \E j \in 1 .. i :
                             /\ log'[j].cmd = "module-inst" /\ log'[j].name = log'[i].name
                             /\ ~ \E k \in j .. i : /\ log'[k].cmd = "module-uninst"
                                                    /\ log'[k].inc = log'[j].inc
      BY DEF ParentAnnounced, IsChild
    <2>2. CASE i \in DOMAIN log
      <3>1. PICK j \in 1 .. i :
               /\ log[j].cmd = "module-inst" /\ log[j].name = log[i].name
               /\ ~ \E k \in j .. i : log[k].cmd = "module-uninst" /\ log[k].inc = log[j].inc
        BY <1>2, <2>1, <2>2 DEF Histories, ParentAnnounced
      <3>2. j \in DOMAIN log /\ \A k \in j .. i : k \in DOMAIN log
        BY <1>3, <2>2
      <3>. QED
        BY <1>2, <2>2, <3>1, <3>2
    <2>3. CASE i = n
      <3>1. PICK j \in DOMAIN log : /\ log[j].cmd = "module-inst" /\ log[j].name = l.name
                                    /\ ~Withdrawn(log[j].inc)
        BY <1>2, <2>1, <2>3
      <3>2. \A k \in j .. n : log'[k].cmd = "module-uninst" => log'[k].inc # log[j].inc
        BY <1>2, <1>3, <2>1, <2>3, <3>1 DEF Withdrawn, IsChild
      <3>. QED
        BY <1>2, <1>3, <2>3, <3>1, <3>2
    <2>. QED
      BY <1>2, <2>2, <2>3
  <1>6. AttributedRight'
    <2>1. SUFFICES ASSUME NEW i \in DOMAIN log', NEW j \in DOMAIN log', j < i,
                          log'[j].cmd = "module-inst", log'[j].inc = log'[i].inc, IsChild(log'[i])
                   PROVE  log'[i].name = names[log'[i].inc]
      BY DEF AttributedRight, IsChild
    <2>2. CASE i \in DOMAIN log
      <3>1. j \in DOMAIN log
        BY <1>2, <1>3, <2>1, <2>2
      <3>. QED
        BY <1>2, <2>1, <2>2, <3>1 DEF Histories, AttributedRight
    <2>3. CASE i = n
      <3>1. j \in DOMAIN log
        BY <1>2, <1>3, <2>1, <2>3
      <3>2. Announced(l.inc)
        BY <1>2, <2>1, <2>3, <3>1 DEF Announced
      <3>. QED
        BY <1>2, <2>1, <2>3, <3>2
    <2>. QED
      BY <1>2, <2>2, <2>3
  <1>. QED
    BY <1>4, <1>5, <1>6 DEF Histories

(* What is published about an event has its parent and its name. *)
LEMMA EventPublished ==
    ASSUME Identity, Histories, HandleSub \/ HandleUnsub \/ HandlePub
    PROVE  Histories'
  <1>0. SUFFICES ASSUME NEW m, m = toBridge[1]
                 PROVE  Histories'
    OBVIOUS
  <1>1. Reported(m) /\ 1 \in DOMAIN toBridge /\ m.kind \in Events
    BY <1>0, EventShape
  <1>2. names' = names
    BY DEF HandleSub, HandleUnsub, HandlePub, runtime
  <1>3. CASE log' = log
    BY <1>2, <1>3, LogKept
  <1>4. CASE log' # log
    <2>1. Known(m.id)
      BY <1>1, <1>4 DEF Reported
    <2> DEFINE f == First(m.id)
    <2>2. modules \in Seq(Listing)
      BY DEF Identity, Kinds
    <2>3. f \in DOMAIN modules /\ modules[f].id = m.id
      BY <2>1, <2>2, FirstOf
    <2>4. PICK l \in Logged : /\ log' = Append(log, l) /\ IsChild(l)
                              /\ l.inc = m.inc /\ l.name = modules[f].name
      BY <1>1, <1>4 DEF Reported
    <2>. HIDE DEF f
    <2>5. modules[f].name \in Names
      <3>1. modules[f] \in Listing
        BY <2>2, <2>3
      <3>. QED
        BY <3>1 DEF Listing
    <2>6. \E j \in DOMAIN log : /\ log[j].cmd = "module-inst" /\ log[j].name = l.name
                                /\ ~Withdrawn(log[j].inc)
      BY <2>3, <2>4 DEF Identity, InList, AnnouncedAs
    <2>7. ASSUME Announced(m.inc) PROVE modules[f].name = names[m.inc]
      <3>1. Key(m) \in Listed
        BY <1>0, <1>1, <2>7 DEF Identity, Heard
      <3>2. PICK p \in DOMAIN modules : Key(modules[p]) = Key(m)
        BY <3>1 DEF Listed
      <3>3. modules[p].inc = m.inc /\ modules[p].id = m.id
        BY <3>2 DEF Key
      <3>4. \A j \in DOMAIN modules : modules[j].id = m.id => modules[j].inc <= m.inc
        BY <1>0, <1>1 DEF Identity, Heard, Events
      <3>5. f = p
        BY <2>2, <3>3, <3>4, FirstIsLatest DEF Identity, f
      <3>. QED
        BY <3>3, <3>5 DEF Identity, InList
    <2>. QED
      BY <1>2, <2>4, <2>5, <2>6, <2>7, LogGrown
  <1>. QED
    BY <1>3, <1>4

(* What is published about an answer is about no topic. *)
LEMMA AnswerPublished ==
    ASSUME Identity, Histories, HandleInstalled \/ HandleUninstalled
    PROVE  Histories'
  <1>1. /\ names' = names /\ Kinds /\ 1 \in DOMAIN toBridge /\ Head(toBridge) = toBridge[1]
        /\ toBridge[1] \in Messages
    BY TakeLater DEF HandleInstalled, HandleUninstalled, runtime, Identity
  <1>2. SUFFICES ASSUME NEW m, m = toBridge[1]
                 PROVE  Histories'
    OBVIOUS
  <1>3. m.inc \in Nat
    BY <1>1, <1>2 DEF Messages
  <1>4. CASE log' = log
    BY <1>1, <1>4, LogKept
  <1>5. ASSUME HandleInstalled PROVE Histories'
    <2>1. m.kind = "installed"
      BY <1>1, <1>2, <1>5 DEF HandleInstalled, Take
    <2>2. Key(m) \in Bound /\ Key(m).inc = m.inc
      BY <1>1, <1>2 DEF Bound, OnWire, Key
    <2>3. m.arg \in Names
      <3>1. m.inc \in DOMAIN names /\ m.arg = names[m.inc]
        BY <1>1, <1>2, <2>1, <2>2 DEF Identity, Numbered, Messaged
      <3>. QED
        BY <1>1, <3>1 DEF Kinds
    <2> DEFINE l == Entry("module-inst", m.inc, m.arg, "none")
    <2>4. NameRead(m, 50) = {m.arg}
      BY DEF NameRead
    <2>5. log' = Append(log, l)
      BY <1>1, <1>2, <1>5, <2>4 DEF HandleInstalled
    <2>6. l \in Logged /\ ~IsChild(l) /\ l.name \in Names
      BY <1>3, <2>3 DEF Logged, Entry, Commands, IsChild
    <2>. HIDE DEF l
    <2>. QED
      BY <1>1, <2>5, <2>6, LogGrown
  <1>6. ASSUME HandleUninstalled, log' # log PROVE Histories'
    <2>1. PICK name \in NameRead(m, 0) : log' = Append(log, Entry("module-uninst", m.inc, name, "none"))
      BY <1>1, <1>2, <1>6 DEF HandleUninstalled
    <2> DEFINE l == Entry("module-uninst", m.inc, name, "none")
    <2>2. l \in Logged /\ ~IsChild(l) /\ l.cmd = "module-uninst"
      BY <1>3, <2>1 DEF Logged, Entry, Commands, IsChild, NameRead
    <2>3. log' = Append(log, l)
      BY <2>1
    <2>. HIDE DEF l
    <2>. QED
      BY <1>1, <2>2, <2>3, LogGrown
  <1>. QED
    BY <1>4, <1>5, <1>6

-----------------------------------------------------------------------------
(* Identity and Histories hold in every state.                               *)
LEMMA Begins ==
    Init => Identity /\ Histories
  <1> SUFFICES ASSUME Init PROVE Identity /\ Histories
    OBVIOUS
  <1>1. Kinds
    <2>1. NoRequest \in [op : {"NONE", "INSTALL", "UNINSTALL"}, inc : Nat, answered : BOOLEAN]
      BY DEF NoRequest
    <2>2. /\ [event |-> MaxEvent, restart |-> MaxRestart] \in [{"event", "restart"} -> Nat]
          /\ [event |-> MaxEvent, restart |-> MaxRestart].restart <= MaxRestart
      BY TrackerAssumption
    <2>3. /\ <<>> \in Seq(Names) /\ Len(<<>>) = 0 /\ 0 <= MaxInstall
          /\ <<>> \in Seq(Messages) /\ <<>> \in Seq(Listing) /\ <<>> \in Seq(Logged)
      BY TrackerAssumption
    <2>4. names \in Seq(Names) /\ Len(names) <= MaxInstall /\ nextId \in Nat \ {0} /\ nextId <= Len(names) + 1
      BY <2>3 DEF Init
    <2>5. left \in [{"event", "restart"} -> Nat] /\ left.restart <= MaxRestart
      BY <2>2 DEF Init
    <2>6. request \in [op : {"NONE", "INSTALL", "UNINSTALL"}, inc : Nat, answered : BOOLEAN]
      BY <2>1 DEF Init
    <2>7. toBridge \in Seq(Messages) /\ modules \in Seq(Listing) /\ log \in Seq(Logged)
      BY <2>3 DEF Init
    <2>. QED
      BY <2>4, <2>5, <2>6, <2>7 DEF Init, Kinds
  <1>2. Bound = {}
    BY DEF Init, Bound, Listed, OnWire
  <1>3. Messaged /\ Numbered /\ Requested /\ InOrder /\ InList /\ Heard
    BY <1>2 DEF Init, Messaged, Numbered, Requested, InOrder, InList, Heard, NoRequest
  <1>4. Histories
    BY DEF Init, Histories, Named, ParentAnnounced, AttributedRight
  <1>. QED
    BY <1>1, <1>3, <1>4 DEF Identity

(* Every step keeps them ... *)
LEMMA NextKeeps ==
    ASSUME Identity, Histories, Next
    PROVE  Identity' /\ Histories'
  <1>1. ASSUME NEW name \in Names, Install(name) PROVE Identity' /\ Histories'
    <2>1. names \in Seq(Names)
      BY DEF Identity, Kinds
    <2>2. log' = log /\ \A i \in DOMAIN names : names'[i] = names[i]
      BY <1>1, <2>1, AddedLast DEF Install, bridge
    <2>. QED
      BY <1>1, <2>2, InstallStep, LogKept
  <1>2. CASE InstallAnswer
    <2>1. names' = names /\ log' = log
      BY <1>2 DEF InstallAnswer, runtime, bridge
    <2>. QED
      BY <1>2, <2>1, AnswerStep, LogKept
  <1>3. ASSUME NEW m \in live, Uninstall(m) PROVE Identity' /\ Histories'
    <2>1. names' = names /\ log' = log
      BY <1>3 DEF Uninstall, runtime, bridge
    <2>. QED
      BY <1>3, <2>1, UninstallStep, LogKept
  <1>4. ASSUME NEW m \in live, NEW topic \in Topics,
               ModulePublish(m, topic) \/ ModuleSubscribe(m, topic) \/ ModuleUnsubscribe(m, topic)
        PROVE  Identity' /\ Histories'
    <2>1. names' = names /\ log' = log
      BY <1>4 DEF ModulePublish, ModuleSubscribe, ModuleUnsubscribe, runtime, bridge
    <2>. QED
      BY <1>4, <2>1, ModuleStep, LogKept
  <1>5. CASE RuntimeRestart
    <2>1. names' = names /\ log' = log
      BY <1>5 DEF RuntimeRestart, bridge
    <2>. QED
      BY <1>5, <2>1, RestartStep, LogKept
  <1>6. CASE HandleInstalled
    BY <1>6, InstalledStep, AnswerPublished
  <1>7. CASE HandleUninstalled
    BY <1>7, UninstalledStep, AnswerPublished
  <1>8. CASE HandleSub \/ HandleUnsub \/ HandlePub
    BY <1>8, EventStep, EventPublished
  <1>. QED
    BY <1>1, <1>2, <1>3, <1>4, <1>5, <1>6, <1>7, <1>8 DEF Next, Runtime, Bridge

(* ... and so does no step. *)
LEMMA Stutters ==
    ASSUME Identity, Histories, UNCHANGED vars
    PROVE  Identity' /\ Histories'
  <1>1. Identity'
    BY DEF vars, Identity, Kinds, Messaged, Numbered, Requested, InOrder, InList, Heard, Bound,
           Listed, OnWire, HeardAfter, Announced, Withdrawn, AnnouncedAs
  <1>2. Histories'
    BY DEF vars, Histories, Named, ParentAnnounced, AttributedRight
  <1>. QED
    BY <1>1, <1>2

-----------------------------------------------------------------------------
(* One run of the runtime.                                                   *)

(* What was not restarted after a step was not before it. *)
LEMMA NotRestarted ==
    ASSUME Identity, Next, ~Restarted'
    PROVE  ~Restarted /\ ~RuntimeRestart
  <1>1. left \in [{"event", "restart"} -> Nat] /\ left.restart <= MaxRestart /\ MaxRestart \in Nat
    BY TrackerAssumption DEF Identity, Kinds
  <1>2. left.restart \in Nat
    BY <1>1
  <1>3. ~RuntimeRestart
    <2>1. SUFFICES ASSUME RuntimeRestart PROVE FALSE
      OBVIOUS
    <2>2. left'.restart = left.restart - 1
      BY <1>1, <2>1 DEF RuntimeRestart, Spend
    <2>. QED
      BY <1>1, <1>2, <2>2 DEF Restarted
  <1>4. left'.restart = left.restart
    <2>1. CASE Spend("event")
      BY <1>1, <2>1 DEF Spend
    <2>2. CASE left' = left
      BY <2>2
    <2>. QED
      BY <1>3, <2>1, <2>2 DEF Next, Runtime, Bridge, Install, InstallAnswer, Uninstall, ModulePublish,
         ModuleSubscribe, ModuleUnsubscribe, HandleInstalled, HandleUninstalled, HandleSub,
         HandleUnsub, HandlePub
  <1>. QED
    BY <1>3, <1>4 DEF Restarted

(* A message about a live module is sent. *)
Sends(m, kind, arg) ==
    /\ toBridge' = Append(toBridge, Message(kind, m, arg))
    /\ live' \subseteq live
    /\ UNCHANGED <<names, nextId, modules, subs, log, crashed, swallowed>>

(* The steps of the runtime and the modules that send. *)
LEMMA Senders ==
    ASSUME NEW m
    PROVE  /\ Uninstall(m) => Sends(m, "uninstalled", names[m.inc])
           /\ \A t : /\ ModulePublish(m, t) => Sends(m, "pub", t)
                     /\ ModuleSubscribe(m, t) => Sends(m, "sub", t)
                     /\ ModuleUnsubscribe(m, t) => Sends(m, "unsub", t)
  BY DEF Uninstall, ModulePublish, ModuleSubscribe, ModuleUnsubscribe, Sends, runtime, bridge

(* The answer to an install is about the module installed last. *)
LEMMA AnswerSent ==
    ASSUME InstallAnswer
    PROVE  \E m \in live : m.inc = request.inc /\ Sends(m, "installed", names[m.inc])
  BY DEF InstallAnswer, Sends, runtime, bridge

(* What is on its way after a message is sent. *)
LEMMA Sent ==
    ASSUME Identity, NEW m \in live, NEW kind \in Events \cup Answers,
           NEW arg, arg \in Topics \/ arg = names[m.inc], Sends(m, kind, arg)
    PROVE  /\ DOMAIN toBridge = 1 .. Len(toBridge) /\ Len(toBridge) \in Nat
           /\ DOMAIN toBridge' = DOMAIN toBridge \cup {Len(toBridge) + 1}
           /\ \A i \in DOMAIN toBridge : toBridge'[i] = toBridge[i]
           /\ toBridge'[Len(toBridge) + 1].kind = kind /\ toBridge'[Len(toBridge) + 1].arg = arg
           /\ Key(toBridge'[Len(toBridge) + 1]) = m
           /\ Listed' = Listed /\ Bound' \subseteq Bound
  <1> DEFINE msg == Message(kind, m, arg)
  <1>1. names[m.inc] \in Names
    BY MessageType DEF Events, Answers, Identity, Kinds
  <1>2. msg \in Messages /\ Key(msg) = m /\ msg.kind = kind /\ msg.arg = arg
    BY <1>1, MessageType
  <1>3. toBridge' = Append(toBridge, msg)
    BY DEF Sends
  <1>. HIDE DEF msg
  <1>4. toBridge \in Seq(Messages)
    BY DEF Identity, Kinds
  <1>5. /\ DOMAIN toBridge = 1 .. Len(toBridge) /\ Len(toBridge) \in Nat
        /\ DOMAIN toBridge' = DOMAIN toBridge \cup {Len(toBridge) + 1}
        /\ \A i \in DOMAIN toBridge : toBridge'[i] = toBridge[i]
        /\ toBridge'[Len(toBridge) + 1] = msg
    BY <1>2, <1>3, <1>4, AddedLast
  <1>6. Listed' = Listed
    BY DEF Sends, Listed
  <1>7. OnWire' \subseteq OnWire \cup {m}
    BY <1>2, <1>5 DEF OnWire
  <1>. QED
    BY <1>2, <1>5, <1>6, <1>7 DEF Bound, Sends

(* The bridge handles a message: it only learns the module of that one. *)
LEMMA Learns ==
    ASSUME Identity, Bridge
    PROVE  /\ Bound' \subseteq Bound /\ nextId' = nextId /\ live' = live
           /\ \E kind : Take(kind)
  <1>1. PICK kind : Take(kind)
    BY DEF Bridge, HandleInstalled, HandleUninstalled, HandleSub, HandleUnsub, HandlePub
  <1>2. nextId' = nextId /\ live' = live /\ names' = names
    BY DEF Bridge, HandleInstalled, HandleUninstalled, HandleSub, HandleUnsub, HandlePub, runtime
  <1>3. OnWire' \subseteq OnWire /\ 1 \in DOMAIN toBridge /\ Head(toBridge) = toBridge[1]
    <2>1. PICK k \in Nat \ {0} : Later(k)
      BY <1>1, TakeLater DEF Identity
    <2>. QED
      BY <1>1, <1>2, <2>1, WireKept, TakeLater DEF Identity
  <1>4. modules \in Seq(Listing) /\ Key(toBridge[1]) \in OnWire
    BY <1>3 DEF Identity, Kinds, OnWire
  <1>5. Listed' \subseteq Listed \cup {Key(toBridge[1])}
    <2>1. SUFFICES ASSUME NEW m, m = toBridge[1] PROVE Listed' \subseteq Listed \cup {Key(m)}
      OBVIOUS
    <2>2. CASE HandleInstalled
      <3>1. \E e : modules' = <<e>> \o modules /\ Key(e) = Key(m)
        <4> DEFINE e == [inc |-> m.inc, id |-> m.id, name |-> m.arg, topics |-> {}]
        <4>1. modules' = <<e>> \o modules
          BY <1>3, <2>1, <2>2 DEF HandleInstalled, module_list_add
        <4>2. Key(e) = Key(m)
          BY DEF Key
        <4>. QED
          BY <4>1, <4>2
      <3>2. PICK e : modules' = <<e>> \o modules /\ Key(e) = Key(m)
        BY <3>1
      <3>. QED
        BY <1>4, <3>2 DEF Listed
    <2>3. CASE HandleUninstalled
      <3>1. modules' = modules \/ modules' = module_list_del_by_id(m.id)
        BY <1>3, <2>1, <2>3 DEF HandleUninstalled
      <3>. QED
        BY <1>4, <3>1, Deleted DEF Listed
    <2>4. CASE HandleSub \/ HandleUnsub \/ HandlePub
      BY <2>4, EventShape, EventKnows
    <2>. QED
      BY <2>2, <2>3, <2>4 DEF Bridge
  <1>. QED
    BY <1>1, <1>2, <1>3, <1>4, <1>5 DEF Bound

(* No step but a restart makes an id come again. *)
LEMMA IdsStayUnique ==
    ASSUME Identity, IdsUnique, Next
    PROVE  IdsUnique'
  <1>1. SUFFICES ASSUME ~Restarted'
                 PROVE  (\A x \in Bound : x.id < nextId)' /\ (\A x, y \in Bound : x.id = y.id => x = y)'
    BY DEF IdsUnique
  <1>2. ~Restarted /\ ~RuntimeRestart
    BY <1>1, NotRestarted
  <1>3. (\A x \in Bound : x.id < nextId) /\ \A x, y \in Bound : x.id = y.id => x = y
    BY <1>2 DEF IdsUnique
  <1>4. CASE Bound' \subseteq Bound /\ nextId' = nextId
    BY <1>3, <1>4
  <1>5. ASSUME NEW name \in Names, Install(name)
        PROVE  (\A x \in Bound : x.id < nextId)' /\ (\A x, y \in Bound : x.id = y.id => x = y)'
    <2> DEFINE m == [inc |-> Len(names) + 1, id |-> nextId]
    <2>1. Bound' = Bound \cup {m} /\ nextId' = nextId + 1
      BY <1>5 DEF Install, bridge, Bound, Listed, OnWire
    <2>2. m.id = nextId /\ nextId \in Nat
      BY DEF Identity, Kinds
    <2>3. \A x \in Bound : x.id \in Nat
      <3>1. \A x \in live : x.id \in Nat
        BY <2>2 DEF Identity, Kinds
      <3>2. \A i \in DOMAIN modules : Key(modules[i]).id \in Nat
        <4>1. \A i \in DOMAIN modules : modules[i] \in Listing
          BY DEF Identity, Kinds
        <4>. QED
          BY <4>1 DEF Listing, Key
      <3>3. \A i \in DOMAIN toBridge : Key(toBridge[i]).id \in Nat
        <4>1. \A i \in DOMAIN toBridge : toBridge[i] \in Messages
          BY DEF Identity, Kinds
        <4>. QED
          BY <4>1 DEF Messages, Key
      <3>. QED
        BY <3>1, <3>2, <3>3 DEF Bound, Listed, OnWire
    <2>. HIDE DEF m
    <2>. QED
      BY <1>3, <2>1, <2>2, <2>3
  <1>6. CASE InstallAnswer
    BY <1>4, <1>6, AnswerSent, Sent DEF Answers, Sends
  <1>7. ASSUME NEW m \in live, NEW topic \in Topics,
               ModulePublish(m, topic) \/ ModuleSubscribe(m, topic) \/ ModuleUnsubscribe(m, topic)
        PROVE  Bound' \subseteq Bound /\ nextId' = nextId
    BY <1>7, Senders, Sent DEF Events, Sends
  <1>8. ASSUME NEW m \in live, Uninstall(m)
        PROVE  Bound' \subseteq Bound /\ nextId' = nextId
    BY <1>8, Senders, Sent DEF Answers, Sends
  <1>9. CASE Bridge
    BY <1>4, <1>9, Learns
  <1>. QED
    BY <1>2, <1>4, <1>5, <1>6, <1>7, <1>8, <1>9 DEF Next, Runtime

(* The entry found is that of the module itself. *)
LEMMA FoundIsOwn ==
    ASSUME Identity, IdsUnique, ~Restarted, NEW m \in Messages, Key(m) \in Bound, Known(m.id)
    PROVE  /\ First(m.id) \in DOMAIN modules /\ modules[First(m.id)].inc = m.inc
           /\ \A j \in DOMAIN modules : modules[j].inc = m.inc => j = First(m.id)
  <1> DEFINE f == First(m.id)
  <1>1. modules \in Seq(Listing)
    BY DEF Identity, Kinds
  <1>2. f \in DOMAIN modules /\ modules[f].id = m.id
    BY <1>1, FirstOf
  <1>. HIDE DEF f
  <1>3. Key(modules[f]) = Key(m)
    <2>1. /\ Key(modules[f]) \in Bound
          /\ Key(modules[f]).id = modules[f].id /\ Key(m).id = m.id
      BY <1>2 DEF Bound, Listed, Key
    <2>. QED
      BY <1>2, <2>1 DEF IdsUnique
  <1>4. modules[f].inc = m.inc
    BY <1>3 DEF Key
  <1>5. ASSUME NEW j \in DOMAIN modules, modules[j].inc = m.inc PROVE j = f
    <2>1. j \in Nat /\ f \in Nat /\ modules[j] \in Listing
      BY <1>1, <1>2
    <2>2. m.inc \in Nat
      BY DEF Messages
    <2>3. ~(j < f) /\ ~(f < j)
      BY <1>2, <1>4, <1>5, <2>2 DEF Identity, InList
    <2>. QED
      BY <2>1, <2>3
  <1>. QED
    BY <1>2, <1>4, <1>5 DEF f

(* What pub-start was published for stays in the list. *)
LEMMA PubsStayListed ==
    ASSUME Identity, IdsUnique, PubsListed, Next, ~Restarted'
    PROVE  PubsListed'
  <1>1. ~Restarted /\ ~RuntimeRestart
    BY NotRestarted
  <1>2. CASE UNCHANGED <<log, modules>> /\ request'.op # "INSTALL"
    BY <1>2 DEF PubsListed
  <1>3. CASE UNCHANGED <<log, modules, names>> /\ request'.op = request.op
    BY <1>3 DEF PubsListed, IsChild
  <1>4. ASSUME NEW name \in Names, Install(name) PROVE PubsListed'
    <2>1. UNCHANGED <<log, modules>> /\ names' = Append(names, name)
      BY <1>4 DEF Install, bridge
    <2>2. names \in Seq(Names)
      BY DEF Identity, Kinds
    <2>3. Len(names') \notin DOMAIN names
      BY <2>1, <2>2, AddedLast
    <2>4. \A i \in DOMAIN log : log[i].inc # Len(names')
      BY <2>3 DEF Identity, Numbered
    <2>. QED
      BY <2>1, <2>4 DEF PubsListed
  <1>5. CASE InstallAnswer
    <2>1. request'.op = request.op
      BY <1>5 DEF InstallAnswer, Identity, Kinds
    <2>. QED
      BY <1>3, <1>5, <2>1 DEF InstallAnswer, runtime, bridge
  <1>6. ASSUME NEW m \in live, Uninstall(m) PROVE PubsListed'
    BY <1>2, <1>6 DEF Uninstall, bridge
  <1>7. ASSUME NEW m \in live, NEW topic \in Topics,
               ModulePublish(m, topic) \/ ModuleSubscribe(m, topic) \/ ModuleUnsubscribe(m, topic)
        PROVE  PubsListed'
    BY <1>3, <1>7 DEF ModulePublish, ModuleSubscribe, ModuleUnsubscribe, runtime, bridge
  <1>8. log \in Seq(Logged) /\ modules \in Seq(Listing)
    BY DEF Identity, Kinds
  <1>9. SUFFICES ASSUME NEW m, m = toBridge[1], Bridge PROVE PubsListed'
    BY <1>1, <1>4, <1>5, <1>6, <1>7 DEF Next, Runtime
  <1>10. /\ Head(toBridge) = m /\ 1 \in DOMAIN toBridge /\ m \in Messages /\ names' = names
         /\ Key(m) \in Bound
    <2>1. /\ Head(toBridge) = m /\ 1 \in DOMAIN toBridge /\ m \in Messages
      BY <1>9, Learns, TakeLater DEF Identity
    <2>2. Key(m) \in Bound
      BY <1>9, <2>1 DEF Bound, OnWire
    <2>. QED
      BY <1>9, <2>1, <2>2 DEF Bridge, HandleInstalled, HandleUninstalled, HandleSub, HandleUnsub,
         HandlePub, runtime
  <1>11. ASSUME NEW l \in Logged, log' = Append(log, l), l.cmd # "pub-start",
                request'.op # "INSTALL",
                \A j \in DOMAIN modules' : \/ \A i \in DOMAIN log : log[i].cmd = "pub-start"
                                                                     => log[i].inc # modules'[j].inc
                                           \/ \E o \in DOMAIN modules : modules'[j] = modules[o]
         PROVE  PubsListed'
    <2>1. /\ DOMAIN log' = DOMAIN log \cup {Len(log) + 1}
          /\ log'[Len(log) + 1] = l /\ \A i \in DOMAIN log : log'[i] = log[i]
      BY <1>8, <1>11, AddedLast
    <2>2. \A i \in DOMAIN log', j \in DOMAIN modules' :
             log'[i].cmd = "pub-start" /\ log'[i].inc = modules'[j].inc
                => log'[i].topic \in modules'[j].topics
      BY <1>11, <2>1 DEF PubsListed
    <2>3. \A i, j \in DOMAIN log' : log'[i].cmd = "pub-start" /\ log'[i] = log'[j] => i = j
      BY <1>11, <2>1 DEF PubsListed
    <2>. QED
      BY <1>11, <2>2, <2>3 DEF PubsListed
  <1>12. CASE HandleInstalled
    <2>1. m.kind = "installed" /\ request' = NoRequest
      BY <1>10, <1>12 DEF HandleInstalled, Take
    <2>2. request.op = "INSTALL" /\ m.inc = Len(names)
      BY <1>9, <1>10, <2>1 DEF Identity, Requested, Answers
    <2>3. m.arg \in Names /\ m.inc \in Nat
      <3>1. m.inc \in DOMAIN names /\ m.arg = names[m.inc]
        BY <1>9, <1>10, <2>1 DEF Identity, Numbered, Messaged, Key
      <3>. QED
        BY <1>10, <3>1 DEF Identity, Kinds, Messages
    <2> DEFINE e == [inc |-> m.inc, id |-> m.id, name |-> m.arg, topics |-> {}]
               l == Entry("module-inst", m.inc, m.arg, "none")
    <2>4. modules' = <<e>> \o modules /\ log' = Append(log, l)
      <3>1. NameRead(m, 50) = {m.arg}
        BY DEF NameRead
      <3>. QED
        BY <1>10, <1>12, <3>1 DEF HandleInstalled, module_list_add
    <2>5. e \in Listing /\ e.inc = m.inc
      BY <1>10, <2>3 DEF Listing, Messages
    <2>6. l \in Logged /\ l.cmd # "pub-start"
      BY <2>3 DEF Logged, Entry, Commands
    <2>. HIDE DEF e, l
    <2>7. \A j \in DOMAIN modules' : \/ modules'[j] = e
                                     \/ \E o \in DOMAIN modules : modules'[j] = modules[o]
      BY <1>8, <2>4, <2>5, AddedFirst
    <2>8. \A i \in DOMAIN log : log[i].cmd = "pub-start" => log[i].inc # e.inc
      BY <2>2, <2>5 DEF PubsListed, IsChild
    <2>. QED
      BY <1>11, <2>1, <2>4, <2>6, <2>7, <2>8 DEF NoRequest
  <1>13. CASE HandleUninstalled
    <2>1. request' = NoRequest
      BY <1>13 DEF HandleUninstalled
    <2>2. CASE UNCHANGED <<modules, log>>
      BY <1>2, <2>1, <2>2 DEF NoRequest
    <2>3. ASSUME modules' = module_list_del_by_id(m.id), NEW name \in NameRead(m, 0),
                 log' = Append(log, Entry("module-uninst", m.inc, name, "none"))
          PROVE  PubsListed'
      <3> DEFINE l == Entry("module-uninst", m.inc, name, "none")
      <3>1. l \in Logged /\ l.cmd # "pub-start"
        BY <1>10, <2>3 DEF Logged, Entry, Commands, NameRead, Messages
      <3>2. log' = Append(log, l)
        BY <2>3
      <3>. HIDE DEF l
      <3>3. \A j \in DOMAIN modules' : \E o \in DOMAIN modules : modules'[j] = modules[o]
        BY <1>8, <2>3, Deleted
      <3>. QED
        BY <1>11, <2>1, <3>1, <3>2, <3>3 DEF NoRequest
    <2>. QED
      BY <1>10, <1>13, <2>2, <2>3 DEF HandleUninstalled
  <1>14. CASE HandleSub \/ HandleUnsub \/ HandlePub
    <2>1. SameEntries /\ Reported(m)
      BY <1>9, <1>14, EventShape
    <2>2. request' = request
      BY <1>14 DEF HandleSub, HandleUnsub, HandlePub
    <2>3. CASE log' = log
      BY <1>10, <2>1, <2>2, <2>3 DEF PubsListed, SameEntries, IsChild
    <2>4. CASE log' # log
      <3> DEFINE f == First(m.id)
      <3>1. Known(m.id)
        BY <2>1, <2>4 DEF Reported
      <3>2. /\ f \in DOMAIN modules /\ modules[f].inc = m.inc
            /\ \A j \in DOMAIN modules : modules[j].inc = m.inc => j = f
        BY <1>1, <1>10, <3>1, FoundIsOwn
      <3>3. PICK l \in Logged :
               /\ log' = Append(log, l) /\ IsChild(l) /\ l.inc = m.inc /\ l.topic = m.arg
               /\ l.cmd = "pub-start" => m.arg \notin modules[f].topics /\ m.arg \in modules'[f].topics
        BY <2>1, <2>4 DEF Reported
      <3>. HIDE DEF f
      <3>4. /\ DOMAIN log' = DOMAIN log \cup {Len(log) + 1}
            /\ log'[Len(log) + 1] = l /\ \A i \in DOMAIN log : log'[i] = log[i]
        BY <1>8, <3>3, AddedLast
      <3>5. request.op = "INSTALL" => m.inc # Len(names)
        BY <3>2 DEF Identity, Requested
      <3>6. request'.op = "INSTALL" => \A i \in DOMAIN log' : IsChild(log'[i]) => log'[i].inc # Len(names')
        BY <1>10, <2>2, <3>3, <3>4, <3>5 DEF PubsListed
      <3>7. ASSUME NEW i \in DOMAIN log', NEW j \in DOMAIN modules', log'[i].cmd = "pub-start",
                   log'[i].inc = modules'[j].inc
            PROVE  log'[i].topic \in modules'[j].topics
        <4>1. /\ j \in DOMAIN modules /\ modules'[j].inc = modules[j].inc
              /\ modules[j].topics \subseteq modules'[j].topics
          BY <2>1 DEF SameEntries
        <4>2. CASE i \in DOMAIN log
          BY <3>4, <3>7, <4>1, <4>2 DEF PubsListed
        <4>3. CASE i = Len(log) + 1
          BY <3>2, <3>3, <3>4, <3>7, <4>1, <4>3
        <4>. QED
          BY <3>4, <4>2, <4>3
      <3>8. ASSUME l.cmd = "pub-start", NEW i \in DOMAIN log PROVE log[i] # l
        BY <3>2, <3>3, <3>8 DEF PubsListed
      <3>9. \A i, j \in DOMAIN log' : log'[i].cmd = "pub-start" /\ log'[i] = log'[j] => i = j
        BY <3>4, <3>8 DEF PubsListed
      <3>. QED
        BY <3>6, <3>7, <3>9 DEF PubsListed, IsChild
    <2>. QED
      BY <2>3, <2>4
  <1>. QED
    BY <1>9, <1>12, <1>13, <1>14 DEF Bridge

(* What is sent leaves the list alone, and what was on its way stays there.  *)
LEMMA SendTells ==
    ASSUME Identity, ListTellsLive, NEW m \in live, NEW kind \in Events \cup Answers,
           NEW arg, arg \in Topics \/ arg = names[m.inc], Sends(m, kind, arg)
    PROVE  /\ UNCHANGED <<live, request>> => ListTellsLive'
           /\ /\ request.op = "INSTALL" /\ m.inc = request.inc /\ kind = "installed" /\ live' = live
              /\ request'.op = "INSTALL" /\ request'.inc = request.inc
              => ListTellsLive'
           /\ /\ request.op = "NONE" /\ kind = "uninstalled" /\ live' = live \ {m}
              /\ request'.op = "UNINSTALL"
              => ListTellsLive'
  <1> DEFINE n == Len(toBridge) + 1
  <1>1. /\ DOMAIN toBridge' = DOMAIN toBridge \cup {n}
        /\ \A i \in DOMAIN toBridge : toBridge'[i] = toBridge[i]
        /\ toBridge'[n].kind = kind /\ Key(toBridge'[n]) = m
        /\ Listed' = Listed
    BY Sent
  <1>. HIDE DEF n
  <1>2. ASSUME UNCHANGED <<live, request>> PROVE ListTellsLive'
    <2>1. \A i \in DOMAIN toBridge : i \in DOMAIN toBridge' /\ toBridge'[i] = toBridge[i]
      BY <1>1
    <2>2. ASSUME request.op = "INSTALL"
          PROVE  \E x \in live : /\ x.inc = request.inc /\ Listed = live \ {x}
                                 /\ request.answered =>
                                       \E i \in DOMAIN toBridge' :
                                          toBridge'[i].kind = "installed" /\ Key(toBridge'[i]) = x
      BY <2>1, <2>2 DEF ListTellsLive
    <2>3. ASSUME request.op = "UNINSTALL"
          PROVE  \E i \in DOMAIN toBridge' :
                    /\ toBridge'[i].kind = "uninstalled" /\ Key(toBridge'[i]) \notin live
                    /\ Listed = live \cup {Key(toBridge'[i])}
      BY <2>1, <2>3 DEF ListTellsLive
    <2>. QED
      BY <1>1, <1>2, <2>2, <2>3 DEF ListTellsLive, Key
  <1>3. ASSUME request.op = "INSTALL", m.inc = request.inc, kind = "installed", live' = live,
               request'.op = "INSTALL", request'.inc = request.inc
        PROVE  ListTellsLive'
    <2>1. PICK x \in live : x.inc = request.inc /\ Listed = live \ {x}
      BY <1>3 DEF ListTellsLive
    <2>2. x = m
      BY <1>3, <2>1 DEF Identity, Numbered, Bound
    <2>. QED
      BY <1>1, <1>3, <2>1, <2>2 DEF ListTellsLive, Key
  <1>4. ASSUME request.op = "NONE", kind = "uninstalled", live' = live \ {m}, request'.op = "UNINSTALL"
        PROVE  ListTellsLive'
    <2>1. Listed = live /\ Listed' = live' \cup {m} /\ m \notin live'
      BY <1>1, <1>4 DEF ListTellsLive
    <2>. QED
      BY <1>1, <1>4, <2>1 DEF ListTellsLive, Key
  <1>. QED
    BY <1>2, <1>3, <1>4

(* The list without the module that was uninstalled. *)
LEMMA ListedLess ==
    ASSUME Identity, IdsUnique, ~Restarted, NEW m \in Messages, Key(m) \in Bound,
           modules' = module_list_del_by_id(m.id)
    PROVE  Listed' = Listed \ {Key(m)}
  <1>1. modules \in Seq(Listing)
    BY DEF Identity, Kinds
  <1>2. /\ \A i \in DOMAIN modules' : \E o \in DOMAIN modules :
              modules'[i] = modules[o] /\ ~(Known(m.id) /\ o = First(m.id))
        /\ \A o \in DOMAIN modules : ~(Known(m.id) /\ o = First(m.id)) =>
              \E i \in DOMAIN modules' : modules'[i] = modules[o]
    BY <1>1, Deleted
  <1>3. \A o \in DOMAIN modules : Key(modules[o]) = Key(m) <=> Known(m.id) /\ o = First(m.id)
    <2>1. SUFFICES ASSUME NEW o \in DOMAIN modules
                   PROVE  Key(modules[o]) = Key(m) <=> Known(m.id) /\ o = First(m.id)
      OBVIOUS
    <2>2. ASSUME Key(modules[o]) = Key(m) PROVE Known(m.id) /\ o = First(m.id)
      <3>1. modules[o].id = m.id /\ modules[o].inc = m.inc
        BY <2>2 DEF Key
      <3>2. Known(m.id)
        BY <3>1 DEF Known, Indices
      <3>. QED
        BY <3>1, <3>2, FoundIsOwn
    <2>3. ASSUME Known(m.id), o = First(m.id) PROVE Key(modules[o]) = Key(m)
      BY <1>1, <2>3, FirstOf, FoundIsOwn DEF Key
    <2>. QED
      BY <2>2, <2>3
  <1>4. ASSUME NEW x \in Listed' PROVE x \in Listed /\ x # Key(m)
    <2>1. PICK i \in DOMAIN modules' : x = Key(modules'[i])
      BY DEF Listed, Key
    <2>2. PICK o \in DOMAIN modules : modules'[i] = modules[o] /\ Key(modules[o]) # Key(m)
      BY <1>2, <1>3
    <2>. QED
      BY <2>1, <2>2 DEF Listed
  <1>5. ASSUME NEW x \in Listed, x # Key(m) PROVE x \in Listed'
    <2>1. PICK o \in DOMAIN modules : x = Key(modules[o])
      BY DEF Listed
    <2>2. PICK i \in DOMAIN modules' : modules'[i] = modules[o]
      BY <1>2, <1>3, <1>5, <2>1
    <2>. QED
      BY <2>1, <2>2 DEF Listed, Key
  <1>. QED
    BY <1>4, <1>5

(* The list with the module that was installed. *)
LEMMA ListedMore ==
    ASSUME Identity, NEW m, modules' = module_list_add(m, m.arg), m.arg \in Names,
           m.inc \in Nat, m.id \in Nat
    PROVE  Listed' = Listed \cup {Key(m)}
  <1> DEFINE e == [inc |-> m.inc, id |-> m.id, name |-> m.arg, topics |-> {}]
  <1>1. e \in Listing /\ Key(e) = Key(m) /\ modules' = <<e>> \o modules
    BY DEF Listing, Key, module_list_add
  <1>. HIDE DEF e
  <1>2. modules \in Seq(Listing)
    BY DEF Identity, Kinds
  <1>3. /\ 1 \in DOMAIN modules' /\ modules'[1] = e
        /\ \A i \in DOMAIN modules : i + 1 \in DOMAIN modules' /\ modules'[i + 1] = modules[i]
        /\ \A i \in DOMAIN modules' : i # 1 => i - 1 \in DOMAIN modules /\ modules'[i] = modules[i - 1]
    <2>1. /\ DOMAIN modules' = 1 .. Len(modules) + 1 /\ modules'[1] = e /\ Len(modules) \in Nat
          /\ \A i \in DOMAIN modules : i + 1 \in DOMAIN modules' /\ modules'[i + 1] = modules[i]
          /\ \A i \in DOMAIN modules' : i # 1 => i - 1 \in DOMAIN modules /\ modules'[i] = modules[i - 1]
      BY <1>1, <1>2, AddedFirst
    <2>. QED
      BY <2>1
  <1>4. Listed' \subseteq Listed \cup {Key(m)}
    BY <1>1, <1>3 DEF Listed
  <1>5. Listed \subseteq Listed'
    BY <1>3 DEF Listed
  <1>6. Key(m) \in Listed'
    BY <1>1, <1>3 DEF Listed
  <1>. QED
    BY <1>4, <1>5, <1>6

(* Every step that loses nothing keeps what the list tells. *)
LEMMA ListKeepsTelling ==
    ASSUME Identity, IdsUnique, ListTellsLive, Next, ~Restarted', ~crashed', ~swallowed'
    PROVE  ListTellsLive'
  <1>1. ~Restarted /\ ~RuntimeRestart
    BY NotRestarted
  <1>2. ASSUME NEW name \in Names, Install(name) PROVE ListTellsLive'
    <2> DEFINE inc == Len(names) + 1
               m   == [inc |-> inc, id |-> nextId]
    <2>1. /\ request.op = "NONE" /\ live' = live \cup {m}
          /\ request'.op = "INSTALL" /\ request'.inc = inc /\ ~request'.answered
          /\ UNCHANGED modules
      BY <1>2 DEF Install, bridge, NoRequest
    <2>2. m.inc = inc /\ inc \notin DOMAIN names
      BY DEF Identity, Kinds
    <2>. HIDE DEF m, inc
    <2>3. m \notin live
      BY <2>2 DEF Identity, Kinds
    <2>4. Listed' = live /\ m \in live' /\ live = live' \ {m}
      BY <2>1, <2>3 DEF ListTellsLive, Listed
    <2>. QED
      BY <2>1, <2>2, <2>4 DEF ListTellsLive
  <1>3. CASE InstallAnswer
    <2>1. PICK m \in live : m.inc = request.inc /\ Sends(m, "installed", names[m.inc])
      BY <1>3, AnswerSent
    <2>2. request.op = "INSTALL" /\ request'.op = "INSTALL" /\ request'.inc = request.inc /\ live' = live
      BY <1>3 DEF InstallAnswer, Identity, Kinds, runtime
    <2>. QED
      BY <2>1, <2>2, SendTells DEF Answers
  <1>4. ASSUME NEW m \in live, Uninstall(m) PROVE ListTellsLive'
    <2>1. request.op = "NONE" /\ live' = live \ {m} /\ request'.op = "UNINSTALL"
      BY <1>4 DEF Uninstall, NoRequest
    <2>. QED
      BY <1>4, <2>1, Senders, SendTells DEF Answers
  <1>5. ASSUME NEW m \in live, NEW topic \in Topics,
               ModulePublish(m, topic) \/ ModuleSubscribe(m, topic) \/ ModuleUnsubscribe(m, topic)
        PROVE  ListTellsLive'
    <2>1. UNCHANGED <<live, request>>
      BY <1>5 DEF ModulePublish, ModuleSubscribe, ModuleUnsubscribe, runtime
    <2>. QED
      BY <1>5, <2>1, Senders, SendTells DEF Events
  <1>6. SUFFICES ASSUME NEW m, m = toBridge[1], Bridge PROVE ListTellsLive'
    BY <1>1, <1>2, <1>3, <1>4, <1>5 DEF Next, Runtime
  <1>7. /\ Head(toBridge) = m /\ 1 \in DOMAIN toBridge /\ m \in Messages /\ live' = live
        /\ Key(m) \in Bound
        /\ Later(1) /\ \A i \in DOMAIN toBridge : i > 1 => i - 1 \in DOMAIN toBridge'
    <2>1. PICK kind : Take(kind)
      BY <1>6, Learns
    <2>2. /\ Head(toBridge) = m /\ 1 \in DOMAIN toBridge /\ m \in Messages
          /\ Later(1) /\ \A i \in DOMAIN toBridge : i > 1 => i - 1 \in DOMAIN toBridge'
      BY <1>6, <2>1, TakeLater DEF Identity
    <2>3. Key(m) \in Bound
      BY <1>6, <2>2 DEF Bound, OnWire
    <2>. QED
      BY <1>6, <2>2, <2>3, Learns
  <1>8. CASE HandleInstalled
    <2>1. m.kind = "installed" /\ request' = NoRequest /\ modules' = module_list_add(m, m.arg)
      BY <1>7, <1>8 DEF HandleInstalled, Take
    <2>2. request.op = "INSTALL" /\ m.inc = request.inc
      BY <1>6, <1>7, <2>1 DEF Identity, Requested, Answers
    <2>3. PICK x \in live : x.inc = request.inc /\ Listed = live \ {x}
      BY <2>2 DEF ListTellsLive
    <2>4. x = Key(m)
      <3>1. x \in Bound /\ Key(m).inc = m.inc
        BY DEF Bound, Key
      <3>. QED
        BY <1>7, <2>2, <2>3, <3>1 DEF Identity, Numbered
    <2>5. m.arg \in Names /\ m.inc \in Nat /\ m.id \in Nat
      <3>1. m.inc \in DOMAIN names /\ m.arg = names[m.inc]
        BY <1>6, <1>7, <2>1 DEF Identity, Numbered, Messaged, Key
      <3>. QED
        BY <1>7, <3>1 DEF Identity, Kinds, Messages
    <2>6. Listed' = live'
      BY <1>7, <2>1, <2>3, <2>4, <2>5, ListedMore
    <2>. QED
      BY <2>1, <2>6 DEF ListTellsLive, NoRequest
  <1>9. CASE HandleUninstalled
    <2>1. m.kind = "uninstalled" /\ request' = NoRequest /\ modules' = module_list_del_by_id(m.id)
      BY <1>7, <1>9 DEF HandleUninstalled, Take
    <2>2. request.op = "UNINSTALL"
      BY <1>6, <1>7, <2>1 DEF Identity, Requested, Answers
    <2>3. PICK i \in DOMAIN toBridge : /\ toBridge[i].kind = "uninstalled"
                                       /\ Key(toBridge[i]) \notin live
                                       /\ Listed = live \cup {Key(toBridge[i])}
      BY <2>2 DEF ListTellsLive
    <2>4. i = 1
      BY <1>6, <1>7, <2>1, <2>3 DEF Identity, Requested, Answers
    <2>5. Listed' = live'
      BY <1>1, <1>6, <1>7, <2>1, <2>3, <2>4, ListedLess
    <2>. QED
      BY <2>1, <2>5 DEF ListTellsLive, NoRequest
  <1>10. CASE HandleSub \/ HandleUnsub \/ HandlePub
    <2>1. m.kind \in Events /\ Listed' = Listed
      BY <1>6, <1>10, EventShape, EventKnows
    <2>2. request' = request
      BY <1>10 DEF HandleSub, HandleUnsub, HandlePub
    <2>3. ASSUME NEW i \in DOMAIN toBridge, toBridge[i].kind \in Answers
          PROVE  i - 1 \in DOMAIN toBridge' /\ toBridge'[i - 1] = toBridge[i]
      <3>1. i # 1 /\ i \in Nat \ {0}
        <4>1. i # 1
          BY <1>6, <2>1, <2>3 DEF Events, Answers
        <4>2. DOMAIN toBridge = 1 .. Len(toBridge)
          BY DEF Identity, Kinds
        <4>. QED
          BY <4>1, <4>2
      <3>2. i - 1 \in DOMAIN toBridge' /\ (i - 1) + 1 = i
        BY <1>7, <3>1
      <3>. QED
        BY <1>7, <3>2 DEF Later
    <2>4. \A i \in DOMAIN toBridge : toBridge[i].kind \in Answers =>
             \E j \in DOMAIN toBridge' : toBridge'[j] = toBridge[i]
      BY <2>3
    <2>5. request'.op = "NONE" => Listed' = live'
      BY <1>7, <2>1, <2>2 DEF ListTellsLive
    <2>6. ASSUME request'.op = "INSTALL"
          PROVE  \E x \in live' : /\ x.inc = request'.inc /\ Listed' = live' \ {x}
                                  /\ request'.answered =>
                                        \E i \in DOMAIN toBridge' :
                                           toBridge'[i].kind = "installed" /\ Key(toBridge'[i]) = x
      BY <1>7, <2>1, <2>2, <2>4, <2>6 DEF ListTellsLive, Answers
    <2>7. ASSUME request'.op = "UNINSTALL"
          PROVE  \E i \in DOMAIN toBridge' :
                    /\ toBridge'[i].kind = "uninstalled" /\ Key(toBridge'[i]) \notin live'
                    /\ Listed' = live' \cup {Key(toBridge'[i])}
      BY <1>7, <2>1, <2>2, <2>4, <2>7 DEF ListTellsLive, Answers
    <2>. QED
      BY <2>5, <2>6, <2>7 DEF ListTellsLive, Key
  <1>. QED
    BY <1>6, <1>8, <1>9, <1>10 DEF Bridge

-----------------------------------------------------------------------------
(* What an observer sees.                                                    *)

(* Every step keeps the names apart. *)
LEMMA NamesStayDistinct ==
    ASSUME Identity, NamesDistinct, Next
    PROVE  NamesDistinct'
  <1>1. live \subseteq [inc : DOMAIN names, id : 1 .. nextId - 1] /\ names \in Seq(Names)
    BY DEF Identity, Kinds
  <1>2. ASSUME NEW name \in Names, Install(name) PROVE NamesDistinct'
    <2> DEFINE m == [inc |-> Len(names) + 1, id |-> nextId]
    <2>1. /\ \A x \in live : names[x.inc] # name
          /\ live' = live \cup {m} /\ names' = Append(names, name) /\ request'.op = "INSTALL"
      BY <1>2 DEF Install
    <2>2. /\ \A i \in DOMAIN names : names'[i] = names[i]
          /\ names'[m.inc] = name
      BY <1>1, <2>1
    <2>3. \A x \in live : x.inc \in DOMAIN names
      BY <1>1
    <2>. HIDE DEF m
    <2>4. ASSUME NEW x \in live', NEW y \in live', names'[x.inc] = names'[y.inc] PROVE x = y
      <3>1. x \in live \/ x = m
        BY <2>1
      <3>2. y \in live \/ y = m
        BY <2>1
      <3>. QED
        BY <2>1, <2>2, <2>3, <2>4, <3>1, <3>2 DEF NamesDistinct
    <2>. QED
      BY <2>1, <2>4 DEF NamesDistinct
  <1>3. ASSUME NEW m \in live, Uninstall(m) PROVE NamesDistinct'
    <2>1. live' = live \ {m} /\ names' = names /\ request'.op = "UNINSTALL" /\ request'.inc = m.inc
      BY <1>3 DEF Uninstall
    <2>2. m.inc \in DOMAIN names
      BY <1>1, <1>3
    <2>. QED
      BY <2>1, <2>2 DEF NamesDistinct
  <1>4. CASE live' = live /\ names' = names /\ request' = request
    BY <1>4 DEF NamesDistinct
  <1>5. CASE live' = live /\ names' = names /\ request' = NoRequest
    BY <1>5 DEF NamesDistinct, NoRequest
  <1>6. CASE InstallAnswer
    <2>1. live' = live /\ names' = names /\ request.op = "INSTALL" /\ request'.op = request.op
      BY <1>6 DEF InstallAnswer, runtime, Identity, Kinds
    <2>. QED
      BY <2>1 DEF NamesDistinct
  <1>7. CASE RuntimeRestart
    <2>1. live' = {} /\ names' = names /\ (request' = request \/ request' = NoRequest)
      BY <1>7 DEF RuntimeRestart
    <2>. QED
      BY <2>1 DEF NamesDistinct, NoRequest
  <1>8. ASSUME NEW m \in live, NEW topic \in Topics,
               ModulePublish(m, topic) \/ ModuleSubscribe(m, topic) \/ ModuleUnsubscribe(m, topic)
        PROVE  NamesDistinct'
    BY <1>4, <1>8 DEF ModulePublish, ModuleSubscribe, ModuleUnsubscribe, runtime
  <1>9. CASE Bridge
    BY <1>4, <1>5, <1>9 DEF Bridge, HandleInstalled, HandleUninstalled, HandleSub, HandleUnsub,
       HandlePub, runtime
  <1>. QED
    BY <1>2, <1>3, <1>6, <1>7, <1>8, <1>9 DEF Next, Runtime

(* A module being installed stays in the runtime until it is answered. *)
LEMMA OpenStaysLive ==
    ASSUME Identity, OpenIsLive, Next, ~RuntimeRestart
    PROVE  OpenIsLive'
  <1>1. ASSUME NEW name \in Names, Install(name) PROVE OpenIsLive'
    <2> DEFINE m == [inc |-> Len(names) + 1, id |-> nextId]
    <2>1. m \in live' /\ request'.inc = m.inc
      BY <1>1 DEF Install
    <2>. HIDE DEF m
    <2>. QED
      BY <2>1 DEF OpenIsLive
  <1>2. CASE InstallAnswer
    <2>1. live' = live /\ request.op = "INSTALL" /\ request'.inc = request.inc
      BY <1>2 DEF InstallAnswer, runtime, Identity, Kinds
    <2>. QED
      BY <2>1 DEF OpenIsLive
  <1>3. ASSUME NEW m \in live, Uninstall(m) PROVE OpenIsLive'
    <2>1. request'.op = "UNINSTALL"
      BY <1>3 DEF Uninstall
    <2>. QED
      BY <2>1 DEF OpenIsLive
  <1>4. ASSUME NEW m \in live, NEW topic \in Topics,
               ModulePublish(m, topic) \/ ModuleSubscribe(m, topic) \/ ModuleUnsubscribe(m, topic)
        PROVE  OpenIsLive'
    BY <1>4 DEF ModulePublish, ModuleSubscribe, ModuleUnsubscribe, runtime, OpenIsLive
  <1>5. CASE Bridge
    <2>1. live' = live /\ (request' = request \/ request' = NoRequest)
      BY <1>5 DEF Bridge, HandleInstalled, HandleUninstalled, HandleSub, HandleUnsub, HandlePub, runtime
    <2>. QED
      BY <2>1 DEF OpenIsLive, NoRequest
  <1>. QED
    BY <1>1, <1>2, <1>3, <1>4, <1>5 DEF Next, Runtime

(* The message the bridge handles. *)
LEMMA Handled ==
    ASSUME Identity, Bridge, NEW m, m = toBridge[1]
    PROVE  /\ 1 \in DOMAIN toBridge /\ Head(toBridge) = m /\ m \in Messages
           /\ Key(m) \in Bound /\ m.inc \in DOMAIN names /\ Key(m).inc = m.inc
           /\ names' = names /\ live' = live
  <1>1. PICK kind : Take(kind)
    BY Learns
  <1>2. 1 \in DOMAIN toBridge /\ Head(toBridge) = m /\ m \in Messages
    BY <1>1, TakeLater DEF Identity
  <1>3. Key(m) \in Bound /\ Key(m).inc = m.inc
    BY <1>2 DEF Bound, OnWire, Key
  <1>4. names' = names /\ live' = live
    BY DEF Bridge, HandleInstalled, HandleUninstalled, HandleSub, HandleUnsub, HandlePub, runtime
  <1>. QED
    BY <1>2, <1>3, <1>4 DEF Identity, Numbered

(* The answer to the install names a module in the runtime, as listed. *)
LEMMA AnsweredLive ==
    ASSUME Identity, OpenIsLive, HandleInstalled, NEW m, m = toBridge[1]
    PROVE  /\ Key(m) \in live /\ m.arg = names[m.inc] /\ m.arg \in Names
           /\ modules' = module_list_add(m, m.arg)
           /\ log' = Append(log, Entry("module-inst", m.inc, m.arg, "none"))
           /\ Listed' = Listed \cup {Key(m)}
  <1>1. /\ 1 \in DOMAIN toBridge /\ Head(toBridge) = m /\ m \in Messages
        /\ Key(m) \in Bound /\ m.inc \in DOMAIN names /\ Key(m).inc = m.inc
    BY Handled DEF Bridge
  <1>2. m.kind = "installed" /\ modules' = module_list_add(m, m.arg)
    BY <1>1 DEF HandleInstalled, Take
  <1>3. m.arg = names[m.inc] /\ m.arg \in Names
    BY <1>1, <1>2 DEF Identity, Messaged, Kinds
  <1>4. request.op = "INSTALL" /\ request.inc = m.inc
    BY <1>1, <1>2 DEF Identity, Requested, Answers
  <1>5. PICK x \in live : x.inc = m.inc
    BY <1>4 DEF OpenIsLive
  <1>6. x \in Bound
    BY DEF Bound
  <1>7. x = Key(m)
    BY <1>1, <1>5, <1>6 DEF Identity, Numbered
  <1>8. NameRead(m, 50) = {m.arg}
    BY DEF NameRead
  <1>9. log' = Append(log, Entry("module-inst", m.inc, m.arg, "none"))
    BY <1>1, <1>8 DEF HandleInstalled
  <1>10. m.inc \in Nat /\ m.id \in Nat
    BY <1>1 DEF Messages
  <1>. QED
    BY <1>2, <1>3, <1>5, <1>7, <1>9, <1>10, ListedMore

(* Every step keeps the list within what is in the runtime. *)
LEMMA ListStaysWithin ==
    ASSUME Identity, IdsUnique, OpenIsLive, ListWithin, Next, ~Restarted, ~RuntimeRestart, ~crashed'
    PROVE  ListWithin'
  <1>1. CASE Listed' = Listed /\ live \subseteq live' /\ (request.op = "UNINSTALL" => request' = request)
    BY <1>1 DEF ListWithin
  <1>2. ASSUME NEW name \in Names, Install(name) PROVE ListWithin'
    <2>1. request.op = "NONE" /\ Listed' = Listed /\ live \subseteq live'
      BY <1>2 DEF Install, NoRequest, bridge, Listed
    <2>. QED
      BY <1>1, <2>1
  <1>3. CASE InstallAnswer
    <2>1. request.op = "INSTALL" /\ Listed' = Listed /\ live \subseteq live'
      BY <1>3 DEF InstallAnswer, runtime, bridge, Listed
    <2>. QED
      BY <1>1, <2>1
  <1>4. ASSUME NEW m \in live, Uninstall(m) PROVE ListWithin'
    <2>1. request.op = "NONE" /\ Listed' = Listed /\ live' = live \ {m}
          /\ request'.op = "UNINSTALL" /\ request'.inc = m.inc
      BY <1>4 DEF Uninstall, NoRequest, bridge, Listed
    <2>. QED
      BY <2>1 DEF ListWithin
  <1>5. ASSUME NEW m \in live, NEW topic \in Topics,
               ModulePublish(m, topic) \/ ModuleSubscribe(m, topic) \/ ModuleUnsubscribe(m, topic)
        PROVE  ListWithin'
    <2>1. request' = request /\ Listed' = Listed /\ live' = live
      BY <1>5 DEF ModulePublish, ModuleSubscribe, ModuleUnsubscribe, runtime, bridge, Listed
    <2>. QED
      BY <1>1, <2>1
  <1>6. CASE HandleSub \/ HandleUnsub \/ HandlePub
    <2>1. request' = request /\ live' = live
      BY <1>6 DEF HandleSub, HandleUnsub, HandlePub, runtime
    <2>2. Listed' = Listed
      BY <1>6, EventShape, EventKnows
    <2>. QED
      BY <1>1, <2>1, <2>2
  <1>7. CASE HandleInstalled
    <2>1. SUFFICES ASSUME NEW m, m = toBridge[1] PROVE ListWithin'
      OBVIOUS
    <2>2. Key(m) \in live /\ Listed' = Listed \cup {Key(m)}
      BY <1>7, <2>1, AnsweredLive
    <2>3. live' = live /\ m.kind = "installed" /\ 1 \in DOMAIN toBridge
      BY <1>7, <2>1, Handled DEF Bridge, HandleInstalled, Take
    <2>4. request.op = "INSTALL"
      BY <2>1, <2>3 DEF Identity, Requested, Answers
    <2>. QED
      BY <2>2, <2>3, <2>4 DEF ListWithin
  <1>8. CASE HandleUninstalled
    <2>1. SUFFICES ASSUME NEW m, m = toBridge[1] PROVE ListWithin'
      OBVIOUS
    <2>2. /\ 1 \in DOMAIN toBridge /\ Head(toBridge) = m /\ m \in Messages
          /\ Key(m) \in Bound /\ Key(m).inc = m.inc /\ live' = live
      BY <1>8, <2>1, Handled DEF Bridge
    <2>3. m.kind = "uninstalled" /\ modules' = module_list_del_by_id(m.id)
      BY <1>8, <2>2 DEF HandleUninstalled, Take
    <2>4. request.inc = m.inc
      BY <2>1, <2>2, <2>3 DEF Identity, Requested, Answers
    <2>5. Listed' = Listed \ {Key(m)}
      BY <2>2, <2>3, ListedLess
    <2>6. ASSUME NEW x \in Listed, x # Key(m) PROVE x \in live
      <3>1. x.inc # m.inc
        BY <2>2, <2>6 DEF Identity, Numbered, Bound
      <3>. QED
        BY <2>4, <2>6, <3>1 DEF ListWithin
    <2>. QED
      BY <2>2, <2>5, <2>6 DEF ListWithin
  <1>. QED
    BY <1>2, <1>3, <1>4, <1>5, <1>6, <1>7, <1>8 DEF Next, Runtime, Bridge

(* What is seen stays so when names are only added ...                       *)
LEMMA SeenKept ==
    ASSUME Identity, ParentSeen, ~Restarted, log' = log, \A i \in DOMAIN names : names'[i] = names[i]
    PROVE  /\ ParentSeen'
           /\ \A n : Misnamed(n)' = Misnamed(n) /\ Showing(n)' = Showing(n)
  <1>1. \A i \in DOMAIN log : log[i].inc \in DOMAIN names
    BY DEF Identity, Numbered
  <1>2. \A n : Misnamed(n)' = Misnamed(n)
    BY <1>1 DEF Misnamed
  <1>3. \A n : Showing(n)' = Showing(n)
    BY DEF Showing
  <1>4. \A i : ParentThere(i)' = ParentThere(i)
    BY DEF ParentThere
  <1>5. ParentSeen'
    <2>1. SUFFICES ASSUME NEW i \in DOMAIN log, IsChild(log[i]), NEW n, n = log[i].name, ~Misnamed(n)'
                   PROVE  ParentThere(i)'
      BY DEF ParentSeen, IsChild, Misnamed
    <2>. QED
      BY <1>2, <1>4, <2>1 DEF ParentSeen
  <1>. QED
    BY <1>2, <1>3, <1>5

(* ... and when an event is added below a parent that is seen. *)
LEMMA SeenGrown ==
    ASSUME Identity, ParentSeen, ~Restarted, names' = names, NEW l \in Logged, log' = Append(log, l),
           IsChild(l) /\ ~Misnamed(l.name) => Showing(l.name)
    PROVE  /\ ParentSeen'
           /\ \A n : Misnamed(n) => Misnamed(n)'
           /\ \A n : Showing(n) /\ ~(l.cmd = "module-uninst" /\ l.name = n) => Showing(n)'
           /\ l.cmd = "module-inst" => Showing(l.name)'
           /\ l.cmd = "module-uninst" /\ names[l.inc] # l.name => Misnamed(l.name)'
  <1> DEFINE e == Len(log) + 1
  <1>1. log \in Seq(Logged)
    BY DEF Identity, Kinds
  <1>2. /\ DOMAIN log = 1 .. Len(log) /\ Len(log) \in Nat /\ DOMAIN log' = DOMAIN log \cup {e}
        /\ log'[e] = l /\ \A i \in DOMAIN log : log'[i] = log[i]
    BY <1>1, AddedLast
  <1>3. /\ e \in Nat /\ e \notin DOMAIN log
        /\ \A i \in DOMAIN log : i \in Nat /\ i < e /\ i \in 1 .. e
        /\ \A i \in DOMAIN log : \A j \in 1 .. i : j \in DOMAIN log
        /\ \A i \in DOMAIN log : \A j \in 1 .. i : \A k \in j .. i : k \in DOMAIN log
        /\ \A j \in DOMAIN log : \A k \in j .. e : k \in DOMAIN log \/ k = e
    BY <1>2
  <1>. HIDE DEF e
  <1>4. ASSUME NEW n, Misnamed(n) PROVE Misnamed(n)'
    BY <1>2, <1>4 DEF Misnamed
  <1>5. ASSUME NEW n, Showing(n), ~(l.cmd = "module-uninst" /\ l.name = n) PROVE Showing(n)'
    <2>1. PICK j \in DOMAIN log :
             /\ log[j].cmd = "module-inst" /\ log[j].name = n
             /\ \A k \in DOMAIN log : log[k].cmd = "module-uninst" /\ log[k].name = n => k < j
      BY <1>5 DEF Showing
    <2>2. \A k \in DOMAIN log' : log'[k].cmd = "module-uninst" /\ log'[k].name = n => k < j
      BY <1>2, <1>5, <2>1
    <2>. QED
      BY <1>2, <2>1, <2>2 DEF Showing
  <1>6. ASSUME l.cmd = "module-inst" PROVE Showing(l.name)'
    <2>1. \A k \in DOMAIN log' : log'[k].cmd = "module-uninst" => k < e
      BY <1>2, <1>3, <1>6
    <2>. QED
      BY <1>2, <1>6, <2>1 DEF Showing
  <1>7. ASSUME l.cmd = "module-uninst", names[l.inc] # l.name PROVE Misnamed(l.name)'
    BY <1>2, <1>7 DEF Misnamed
  <1>8. ParentSeen'
    <2>1. SUFFICES ASSUME NEW i \in DOMAIN log', IsChild(log'[i]), NEW n, n = log'[i].name, ~Misnamed(n)'
                   PROVE  ParentThere(i)'
      BY DEF ParentSeen, IsChild, Misnamed
    <2>2. ~Misnamed(n)
      BY <1>4, <2>1
    <2>3. SUFFICES \E j \in 1 .. i :
                      /\ log'[j].cmd = "module-inst" /\ log'[j].name = n
                      /\ ~ \E k \in j .. i : log'[k].cmd = "module-uninst" /\ log'[k].name = n
      BY <2>1 DEF ParentThere
    <2>4. CASE i \in DOMAIN log
      <3>1. IsChild(log[i]) /\ log[i].name = n
        BY <1>2, <2>1, <2>4
      <3>2. ParentThere(i)
        BY <2>2, <2>4, <3>1 DEF ParentSeen
      <3>3. PICK j \in 1 .. i :
               /\ log[j].cmd = "module-inst" /\ log[j].name = n
               /\ ~ \E k \in j .. i : log[k].cmd = "module-uninst" /\ log[k].name = n
        BY <3>1, <3>2 DEF ParentThere
      <3>4. j \in DOMAIN log /\ \A k \in j .. i : k \in DOMAIN log
        BY <1>3, <2>4
      <3>. QED
        BY <1>2, <3>3, <3>4
    <2>5. CASE i = e
      <3>1. IsChild(l) /\ l.name = n
        BY <1>2, <2>1, <2>5
      <3>2. PICK j \in DOMAIN log :
               /\ log[j].cmd = "module-inst" /\ log[j].name = n
               /\ \A k \in DOMAIN log : log[k].cmd = "module-uninst" /\ log[k].name = n => k < j
        BY <2>2, <3>1 DEF Showing
      <3>3. j \in 1 .. e /\ log'[j].cmd = "module-inst" /\ log'[j].name = n
        BY <1>2, <1>3, <3>2
      <3>4. ASSUME NEW k \in j .. e, log'[k].cmd = "module-uninst", log'[k].name = n PROVE FALSE
        <4>1. k # e
          BY <1>2, <3>1, <3>4 DEF IsChild
        <4>2. k \in DOMAIN log
          BY <1>3, <3>2, <4>1
        <4>3. k < j
          BY <1>2, <3>2, <3>4, <4>2
        <4>4. j \in Nat /\ e \in Nat
          BY <1>3, <3>2
        <4>. QED
          BY <4>3, <4>4
      <3>. QED
        BY <2>5, <3>3, <3>4
    <2>. QED
      BY <1>2, <2>4, <2>5
  <1>. QED
    BY <1>4, <1>5, <1>6, <1>7, <1>8

(* The bridge's steps keep what is seen. *)
LEMMA EventSeen ==
    ASSUME Identity, ListShowing, ParentSeen, ~Restarted, HandleSub \/ HandleUnsub \/ HandlePub
    PROVE  ListShowing' /\ ParentSeen'
  <1>1. SUFFICES ASSUME NEW m, m = toBridge[1] PROVE ListShowing' /\ ParentSeen'
    OBVIOUS
  <1>2. SameEntries /\ Reported(m) /\ names' = names
    BY <1>1, EventShape, Handled DEF Bridge
  <1>3. ASSUME ParentSeen', \A n : Misnamed(n) => Misnamed(n)', \A n : Showing(n) => Showing(n)'
        PROVE  ListShowing' /\ ParentSeen'
    <2>1. SUFFICES ASSUME NEW i \in DOMAIN modules', NEW n, n = modules'[i].name, ~Misnamed(n)'
                   PROVE  Showing(n)'
      BY <1>3 DEF ListShowing, Misnamed, Showing
    <2>2. i \in DOMAIN modules /\ modules[i].name = n
      BY <1>2, <2>1 DEF SameEntries
    <2>. QED
      BY <1>3, <2>1, <2>2 DEF ListShowing
  <1>4. CASE log' = log
    BY <1>2, <1>3, <1>4, SeenKept
  <1>5. CASE log' # log
    <2>1. PICK l \in Logged : /\ log' = Append(log, l) /\ IsChild(l)
                              /\ Known(m.id) /\ l.name = modules[First(m.id)].name
      BY <1>2, <1>5 DEF Reported
    <2>2. First(m.id) \in DOMAIN modules
      BY <2>1, FirstOf DEF Identity, Kinds
    <2>3. ~Misnamed(l.name) => Showing(l.name)
      BY <2>1, <2>2 DEF ListShowing
    <2>4. l.cmd # "module-uninst"
      BY <2>1 DEF IsChild
    <2>. QED
      BY <1>2, <1>3, <2>1, <2>3, <2>4, SeenGrown
  <1>. QED
    BY <1>4, <1>5

(* A module that is announced is seen.                                       *)
LEMMA InstalledSeen ==
    ASSUME Identity, OpenIsLive, ListShowing, ParentSeen, ~Restarted, HandleInstalled
    PROVE  ListShowing' /\ ParentSeen'
  <1>1. SUFFICES ASSUME NEW m, m = toBridge[1] PROVE ListShowing' /\ ParentSeen'
    OBVIOUS
  <1> DEFINE l == Entry("module-inst", m.inc, m.arg, "none")
             e == [inc |-> m.inc, id |-> m.id, name |-> m.arg, topics |-> {}]
  <1>2. /\ m.arg \in Names /\ log' = Append(log, l) /\ modules' = module_list_add(m, m.arg)
    BY <1>1, AnsweredLive
  <1>3. m \in Messages /\ names' = names
    BY <1>1, Handled DEF Bridge
  <1>4. l \in Logged /\ ~IsChild(l) /\ l.cmd = "module-inst" /\ l.name = m.arg
    BY <1>2, <1>3 DEF Logged, Entry, Commands, IsChild, Messages
  <1>5. e \in Listing /\ e.name = m.arg /\ modules' = <<e>> \o modules
    BY <1>2, <1>3 DEF Listing, module_list_add, Messages
  <1>. HIDE DEF l, e
  <1>6. /\ ParentSeen' /\ Showing(m.arg)' /\ \A n : Misnamed(n) => Misnamed(n)'
        /\ \A n : Showing(n) => Showing(n)'
    BY <1>2, <1>3, <1>4, SeenGrown
  <1>7. ASSUME NEW i \in DOMAIN modules', NEW n, n = modules'[i].name, ~Misnamed(n)'
        PROVE  Showing(n)'
    <2>1. modules \in Seq(Listing)
      BY DEF Identity, Kinds
    <2>2. /\ modules'[1] = e
          /\ i # 1 => i - 1 \in DOMAIN modules /\ modules'[i] = modules[i - 1]
      BY <1>5, <1>7, <2>1, AddedFirst
    <2>3. CASE i = 1
      BY <1>5, <1>6, <1>7, <2>2, <2>3
    <2>4. CASE i # 1
      BY <1>6, <1>7, <2>2, <2>4 DEF ListShowing
    <2>. QED
      BY <2>3, <2>4
  <1>. QED
    BY <1>6, <1>7 DEF ListShowing, Misnamed, Showing

(* One that is uninstalled takes back its own name, or another that is       *)
(* misnamed then.                                                            *)
LEMMA UninstalledSeen ==
    ASSUME Identity, IdsUnique, NamesDistinct, ListWithin, ListShowing, ParentSeen, ~Restarted,
           HandleUninstalled
    PROVE  ListShowing' /\ ParentSeen'
  <1>1. SUFFICES ASSUME NEW m, m = toBridge[1] PROVE ListShowing' /\ ParentSeen'
    OBVIOUS
  <1>2. /\ 1 \in DOMAIN toBridge /\ Head(toBridge) = m /\ m \in Messages
        /\ Key(m) \in Bound /\ m.inc \in DOMAIN names /\ Key(m).inc = m.inc
        /\ names' = names
    BY <1>1, Handled DEF Bridge
  <1>3. CASE modules' = modules /\ log' = log
    <2>1. ParentSeen' /\ \A n : Misnamed(n)' = Misnamed(n) /\ Showing(n)' = Showing(n)
      BY <1>2, <1>3, SeenKept
    <2>2. ASSUME NEW i \in DOMAIN modules', NEW n, n = modules'[i].name, ~Misnamed(n)'
          PROVE  Showing(n)'
      BY <1>3, <2>1, <2>2 DEF ListShowing
    <2>. QED
      BY <2>1, <2>2 DEF ListShowing, Misnamed, Showing
  <1>4. ASSUME modules' = module_list_del_by_id(m.id), NEW name \in NameRead(m, 0),
               log' = Append(log, Entry("module-uninst", m.inc, name, "none"))
        PROVE  ListShowing' /\ ParentSeen'
    <2> DEFINE l == Entry("module-uninst", m.inc, name, "none")
    <2>1. /\ l \in Logged /\ ~IsChild(l) /\ l.cmd = "module-uninst" /\ l.name = name /\ l.inc = m.inc
      BY <1>2, <1>4 DEF Logged, Entry, Commands, IsChild, NameRead, Messages
    <2>2. log' = Append(log, l)
      BY <1>4
    <2>. HIDE DEF l
    <2>3. /\ ParentSeen' /\ \A n : Misnamed(n) => Misnamed(n)'
          /\ \A n : Showing(n) /\ n # name => Showing(n)'
          /\ names[m.inc] # name => Misnamed(name)'
      BY <1>2, <2>1, <2>2, SeenGrown
    <2>4. m.kind = "uninstalled"
      BY <1>2 DEF HandleUninstalled, Take
    <2>5. request.op = "UNINSTALL" /\ request.inc = m.inc
      BY <1>1, <1>2, <2>4 DEF Identity, Requested, Answers
    <2>6. Listed' = Listed \ {Key(m)}
      BY <1>2, <1>4, ListedLess
    <2>7. modules \in Seq(Listing)
      BY DEF Identity, Kinds
    <2>8. ASSUME NEW i \in DOMAIN modules', NEW n, n = modules'[i].name, ~Misnamed(n)'
          PROVE  Showing(n)'
      <3>1. PICK o \in DOMAIN modules : modules'[i] = modules[o]
        BY <1>4, <2>7, Deleted
      <3> DEFINE x == Key(modules[o])
      <3>2. x \in Listed /\ x \in Bound /\ x.inc = modules[o].inc
        BY DEF Listed, Bound, Key
      <3>3. x \in Listed'
        BY <2>8, <3>1 DEF Listed, Key
      <3>. HIDE DEF x
      <3>4. n = names[x.inc]
        BY <2>8, <3>1, <3>2 DEF Identity, InList
      <3>5. x.inc # m.inc
        BY <1>2, <2>6, <3>2, <3>3 DEF Identity, Numbered
      <3>6. x \in live
        BY <2>5, <3>2, <3>5 DEF ListWithin
      <3>7. n # names[m.inc]
        BY <2>5, <3>4, <3>6 DEF NamesDistinct
      <3>8. n # name
        BY <2>3, <2>8, <3>7
      <3>9. Showing(n)
        BY <2>3, <2>8, <3>1 DEF ListShowing
      <3>. QED
        BY <2>3, <3>8, <3>9
    <2>. QED
      BY <2>3, <2>8 DEF ListShowing, Misnamed, Showing
  <1>. QED
    BY <1>2, <1>3, <1>4 DEF HandleUninstalled

(* Every step keeps what an observer sees. *)
LEMMA SeenStays ==
    ASSUME Identity, IdsUnique, Seen, Next
    PROVE  Seen'
  <1>1. NamesDistinct'
    BY NamesStayDistinct DEF Seen
  <1>2. ~crashed
    BY DEF Next
  <1>3. SUFFICES ASSUME ~Restarted'
                 PROVE  OpenIsLive' /\ ListShowing' /\ ParentSeen' /\ (~crashed' => ListWithin')
    BY <1>1 DEF Seen, ParentSeen
  <1>4. ~Restarted /\ ~RuntimeRestart
    BY <1>3, NotRestarted
  <1>5. OpenIsLive /\ ListShowing /\ ParentSeen /\ ListWithin /\ NamesDistinct
    BY <1>2, <1>4 DEF Seen
  <1>6. OpenIsLive' /\ (~crashed' => ListWithin')
    BY <1>4, <1>5, OpenStaysLive, ListStaysWithin
  <1>7. ASSUME modules' = modules, log' = log, \A i \in DOMAIN names : names'[i] = names[i]
        PROVE  ListShowing' /\ ParentSeen'
    <2>1. ParentSeen' /\ \A n : Misnamed(n)' = Misnamed(n) /\ Showing(n)' = Showing(n)
      BY <1>4, <1>5, <1>7, SeenKept
    <2>2. ASSUME NEW i \in DOMAIN modules', NEW n, n = modules'[i].name, ~Misnamed(n)'
          PROVE  Showing(n)'
      BY <1>5, <1>7, <2>1, <2>2 DEF ListShowing
    <2>. QED
      BY <2>1, <2>2 DEF ListShowing, Misnamed, Showing
  <1>8. ASSUME NEW name \in Names, Install(name) PROVE ListShowing' /\ ParentSeen'
    <2>1. names \in Seq(Names)
      BY DEF Identity, Kinds
    <2>2. modules' = modules /\ log' = log /\ \A i \in DOMAIN names : names'[i] = names[i]
      BY <1>8, <2>1, AddedLast DEF Install, bridge
    <2>. QED
      BY <1>7, <2>2
  <1>9. ASSUME InstallAnswer PROVE ListShowing' /\ ParentSeen'
    BY <1>7, <1>9 DEF InstallAnswer, runtime, bridge
  <1>10. ASSUME NEW m \in live, Uninstall(m) PROVE ListShowing' /\ ParentSeen'
    BY <1>7, <1>10 DEF Uninstall, bridge
  <1>11. ASSUME NEW m \in live, NEW topic \in Topics,
                ModulePublish(m, topic) \/ ModuleSubscribe(m, topic) \/ ModuleUnsubscribe(m, topic)
         PROVE  ListShowing' /\ ParentSeen'
    BY <1>7, <1>11 DEF ModulePublish, ModuleSubscribe, ModuleUnsubscribe, runtime, bridge
  <1>12. ASSUME Bridge PROVE ListShowing' /\ ParentSeen'
    BY <1>4, <1>5, <1>12, EventSeen, InstalledSeen, UninstalledSeen DEF Bridge
  <1>13. ListShowing' /\ ParentSeen'
    BY <1>4, <1>8, <1>9, <1>10, <1>11, <1>12 DEF Next, Runtime
  <1>. QED
    BY <1>6, <1>13

-----------------------------------------------------------------------------
(* Subscriptions.                                                            *)

(* The order of the messages about a topic is kept by what the bridge does   *)
(* with the first.                                                           *)
LEMMA HandledPasses ==
    ASSUME Identity, Bridge, ~swallowed', NEW t, Passed(t)
    PROVE  Passed(t)'
  <1>1. SUFFICES ASSUME NEW m, m = toBridge[1]
                 PROVE  \/ \E p \in DOMAIN toBridge' :
                              /\ IsAbout(toBridge'[p], "sub", t)
                              /\ \A q \in DOMAIN toBridge' : IsAbout(toBridge'[q], "unsub", t) => q < p
                        \/ t \in subs' /\ \A q \in DOMAIN toBridge' : ~IsAbout(toBridge'[q], "unsub", t)
    BY DEF Passed, IsAbout
  <1>2. /\ Head(toBridge) = m /\ 1 \in DOMAIN toBridge
        /\ Later(1) /\ \A i \in DOMAIN toBridge : i > 1 => i - 1 \in DOMAIN toBridge'
    <2>1. PICK kind : Take(kind)
      BY Learns
    <2>. QED
      BY <1>1, <2>1, TakeLater DEF Identity
  <1>3. DOMAIN toBridge = 1 .. Len(toBridge) /\ Len(toBridge) \in Nat
    BY DEF Identity, Kinds
  <1>4. \A q \in DOMAIN toBridge' : /\ q \in Nat \ {0} /\ q + 1 \in DOMAIN toBridge
                                    /\ toBridge'[q] = toBridge[q + 1]
    BY <1>2 DEF Later
  <1>5. /\ IsAbout(m, "sub", t) => t \in subs'
        /\ ~IsAbout(m, "unsub", t) /\ t \in subs => t \in subs'
    BY <1>2 DEF Bridge, HandleInstalled, HandleUninstalled, HandleSub, HandleUnsub, HandlePub, Take,
       Subscribed, IsAbout
  <1>6. ASSUME NEW p \in DOMAIN toBridge, IsAbout(toBridge[p], "sub", t),
               \A q \in DOMAIN toBridge : IsAbout(toBridge[q], "unsub", t) => q < p
        PROVE  \/ \E r \in DOMAIN toBridge' :
                     /\ IsAbout(toBridge'[r], "sub", t)
                     /\ \A q \in DOMAIN toBridge' : IsAbout(toBridge'[q], "unsub", t) => q < r
               \/ t \in subs' /\ \A q \in DOMAIN toBridge' : ~IsAbout(toBridge'[q], "unsub", t)
    <2>1. CASE p = 1
      <3>1. \A q \in DOMAIN toBridge : ~IsAbout(toBridge[q], "unsub", t)
        BY <1>3, <1>6, <2>1
      <3>. QED
        BY <1>1, <1>4, <1>5, <1>6, <2>1, <3>1
    <2>2. CASE p # 1
      <3>1. p - 1 \in DOMAIN toBridge' /\ p - 1 \in Nat /\ p \in Nat /\ (p - 1) + 1 = p
        BY <1>2, <1>3, <2>2
      <3>2. IsAbout(toBridge'[p - 1], "sub", t)
        BY <1>4, <1>6, <3>1
      <3>3. \A q \in DOMAIN toBridge' : IsAbout(toBridge'[q], "unsub", t) => q < p - 1
        <4>1. SUFFICES ASSUME NEW q \in DOMAIN toBridge', IsAbout(toBridge'[q], "unsub", t)
                       PROVE  q < p - 1
          OBVIOUS
        <4>2. q + 1 < p
          BY <1>4, <1>6, <4>1
        <4>. QED
          BY <1>4, <3>1, <4>2
      <3>. QED
        BY <3>1, <3>2, <3>3
    <2>. QED
      BY <2>1, <2>2
  <1>7. ASSUME t \in subs, \A q \in DOMAIN toBridge : ~IsAbout(toBridge[q], "unsub", t)
        PROVE  t \in subs' /\ \A q \in DOMAIN toBridge' : ~IsAbout(toBridge'[q], "unsub", t)
    BY <1>1, <1>2, <1>4, <1>5, <1>7
  <1>. QED
    BY <1>6, <1>7 DEF Passed

(* A message that is sent keeps it too, unless it takes the topic back, and  *)
(* a subscription sent is one on its way.                                    *)
LEMMA SentPasses ==
    ASSUME Identity, NEW m \in live, NEW kind \in Events \cup Answers,
           NEW arg, arg \in Topics \/ arg = names[m.inc], Sends(m, kind, arg), NEW t,
           \/ Passed(t) /\ ~(kind = "unsub" /\ arg = t)
           \/ kind = "sub" /\ arg = t
    PROVE  Passed(t)'
  <1> DEFINE n == Len(toBridge) + 1
  <1>1. /\ DOMAIN toBridge = 1 .. Len(toBridge) /\ Len(toBridge) \in Nat
        /\ DOMAIN toBridge' = DOMAIN toBridge \cup {n}
        /\ \A i \in DOMAIN toBridge : toBridge'[i] = toBridge[i]
        /\ toBridge'[n].kind = kind /\ toBridge'[n].arg = arg
    BY Sent
  <1>2. \A i \in DOMAIN toBridge : i < n
    BY <1>1
  <1>. HIDE DEF n
  <1>3. SUFFICES \/ \E p \in DOMAIN toBridge' :
                       /\ IsAbout(toBridge'[p], "sub", t)
                       /\ \A q \in DOMAIN toBridge' : IsAbout(toBridge'[q], "unsub", t) => q < p
                 \/ t \in subs' /\ \A q \in DOMAIN toBridge' : ~IsAbout(toBridge'[q], "unsub", t)
    BY DEF Passed, IsAbout
  <1>4. CASE kind = "sub" /\ arg = t
    <2>1. IsAbout(toBridge'[n], "sub", t) /\ n \in DOMAIN toBridge'
      BY <1>1, <1>4 DEF IsAbout
    <2>2. \A q \in DOMAIN toBridge' : IsAbout(toBridge'[q], "unsub", t) => q < n
      BY <1>1, <1>2, <1>4 DEF IsAbout
    <2>. QED
      BY <2>1, <2>2
  <1>5. CASE Passed(t) /\ ~(kind = "unsub" /\ arg = t)
    <2>1. ~IsAbout(toBridge'[n], "unsub", t)
      BY <1>1, <1>5 DEF IsAbout
    <2>2. subs' = subs
      BY DEF Sends
    <2>. QED
      BY <1>1, <1>5, <2>1, <2>2 DEF Passed
  <1>. QED
    BY <1>4, <1>5

(* Every step keeps the subscriptions on their way or passed on. *)
LEMMA SubsStayPassed ==
    ASSUME Identity, SubsPassed, Next
    PROVE  SubsPassed'
  <1>1. rsubs \subseteq [inc : DOMAIN names, topic : Topics] /\ swallowed \in BOOLEAN
    BY DEF Identity, Kinds
  <1>2. CASE UNCHANGED <<rsubs, shared, toBridge, subs, swallowed>>
    BY <1>2 DEF SubsPassed, Passed
  <1>3. CASE RuntimeRestart
    BY <1>3 DEF RuntimeRestart, SubsPassed
  <1>4. ASSUME NEW m \in live, NEW kind \in Events \cup Answers, kind \notin {"sub", "unsub"},
               NEW arg, arg \in Topics \/ arg = names[m.inc], Sends(m, kind, arg),
               rsubs' \subseteq rsubs, shared' = shared
        PROVE  SubsPassed'
    <2>1. \A t : Passed(t) => Passed(t)'
      BY <1>4, SentPasses
    <2>2. swallowed' = swallowed
      BY <1>4 DEF Sends
    <2>. QED
      BY <1>4, <2>1, <2>2 DEF SubsPassed, Passed
  <1>5. CASE InstallAnswer
    <2>1. PICK m \in live : Sends(m, "installed", names[m.inc])
      BY <1>5, AnswerSent
    <2>. QED
      BY <1>4, <1>5, <2>1 DEF InstallAnswer, runtime, Answers
  <1>6. ASSUME NEW m \in live, Uninstall(m) PROVE SubsPassed'
    BY <1>4, <1>6, Senders DEF Uninstall, Answers
  <1>7. ASSUME NEW m \in live, NEW topic \in Topics, ModulePublish(m, topic) PROVE SubsPassed'
    BY <1>4, <1>7, Senders DEF ModulePublish, runtime, Events
  <1>8. ASSUME NEW m \in live, NEW topic \in Topics, ModuleSubscribe(m, topic) PROVE SubsPassed'
    <2> DEFINE n == [inc |-> m.inc, topic |-> topic]
    <2>1. /\ rsubs' = rsubs \cup {n} /\ Sends(m, "sub", topic) /\ swallowed' = swallowed
          /\ shared' = IF \E s \in rsubs : s.topic = topic /\ s.inc # m.inc
                       THEN shared \cup {topic} ELSE shared
      BY <1>8, Senders DEF ModuleSubscribe, bridge
    <2>2. n.inc = m.inc /\ n.topic = topic
      OBVIOUS
    <2>3. ASSUME NEW s \in rsubs, s.topic = topic, s # n PROVE topic \in shared'
      <3>1. s \in [inc : DOMAIN names, topic : Topics]
        BY <1>1
      <3>2. s.inc # m.inc
        BY <2>3, <3>1
      <3>. QED
        BY <2>1, <2>3, <3>2
    <2>. HIDE DEF n
    <2>4. shared \subseteq shared'
      BY <2>1
    <2>5. \A s, r \in rsubs' : s.topic = r.topic /\ s # r => s.topic \in shared'
      BY <2>1, <2>2, <2>3, <2>4 DEF SubsPassed
    <2>6. \A t : Passed(t) \/ t = topic => Passed(t)'
      BY <2>1, SentPasses DEF Events
    <2>7. ~swallowed' => \A s \in rsubs' : s.topic \in shared' \/ Passed(s.topic)'
      <3>1. SUFFICES ASSUME ~swallowed, NEW s \in rsubs', NEW t, t = s.topic
                     PROVE  t \in shared' \/ Passed(t)'
        BY <2>1 DEF Passed
      <3>. QED
        BY <2>1, <2>2, <2>4, <2>6, <3>1 DEF SubsPassed
    <2>. QED
      BY <2>5, <2>7 DEF SubsPassed, Passed
  <1>9. ASSUME NEW m \in live, NEW topic \in Topics, ModuleUnsubscribe(m, topic) PROVE SubsPassed'
    <2> DEFINE n == [inc |-> m.inc, topic |-> topic]
    <2>1. /\ rsubs' = rsubs \ {n} /\ n \in rsubs /\ Sends(m, "unsub", topic) /\ swallowed' = swallowed
          /\ shared' = shared
      BY <1>9, Senders DEF ModuleUnsubscribe, bridge
    <2>2. n.topic = topic
      OBVIOUS
    <2>. HIDE DEF n
    <2>3. \A s, r \in rsubs' : s.topic = r.topic /\ s # r => s.topic \in shared'
      BY <2>1 DEF SubsPassed
    <2>4. \A t : Passed(t) /\ t # topic => Passed(t)'
      BY <2>1, SentPasses DEF Events
    <2>5. ~swallowed' => \A s \in rsubs' : s.topic \in shared' \/ Passed(s.topic)'
      <3>1. SUFFICES ASSUME ~swallowed, NEW s \in rsubs', NEW t, t = s.topic
                     PROVE  t \in shared' \/ Passed(t)'
        BY <2>1 DEF Passed
      <3>2. CASE t = topic
        BY <2>1, <2>2, <3>1, <3>2 DEF SubsPassed
      <3>3. CASE t # topic
        BY <2>1, <2>4, <3>1, <3>3 DEF SubsPassed
      <3>. QED
        BY <3>2, <3>3
    <2>. QED
      BY <2>3, <2>5 DEF SubsPassed, Passed
  <1>10. CASE Bridge
    <2>1. UNCHANGED <<rsubs, shared>> /\ (~swallowed' => ~swallowed)
      <3>1. PICK kind : Take(kind)
        BY <1>10, Learns
      <3>2. ~swallowed' => ~swallowed
        BY <3>1, TakeLater DEF Identity
      <3>. QED
        BY <1>10, <3>2 DEF Bridge, HandleInstalled, HandleUninstalled, HandleSub, HandleUnsub,
           HandlePub, runtime
    <2>2. ~swallowed' => \A t : Passed(t) => Passed(t)'
      BY <1>10, HandledPasses
    <2>. QED
      BY <2>1, <2>2 DEF SubsPassed, Passed
  <1>11. ASSUME NEW name \in Names, Install(name) PROVE SubsPassed'
    BY <1>2, <1>11 DEF Install, bridge
  <1>. QED
    BY <1>3, <1>5, <1>6, <1>7, <1>8, <1>9, <1>10, <1>11 DEF Next, Runtime

(* Every step keeps what holds in one run of the runtime. *)
LEMMA OneRunStays ==
    ASSUME Identity, OneRun, Next
    PROVE  OneRun'
  <1>1. IdsUnique'
    BY IdsStayUnique DEF OneRun
  <1>2. ASSUME ~Restarted' PROVE PubsListed'
    BY <1>2, NotRestarted, PubsStayListed DEF OneRun
  <1>3. ASSUME ~Restarted', ~crashed', ~swallowed' PROVE ListTellsLive'
    <2>1. ~crashed
      BY DEF Next
    <2>2. ~swallowed
      <3>1. CASE swallowed' = swallowed
        BY <1>3, <3>1
      <3>2. CASE Bridge
        <4>1. PICK kind : Take(kind)
          BY <3>2, Learns
        <4>. QED
          BY <1>3, <4>1, TakeLater DEF Identity
      <3>. QED
        BY <3>1, <3>2 DEF Next, Runtime, Install, InstallAnswer, Uninstall, ModulePublish,
           ModuleSubscribe, ModuleUnsubscribe, RuntimeRestart, bridge
    <2>. QED
      BY <1>3, <2>1, <2>2, NotRestarted, ListKeepsTelling DEF OneRun
  <1>. QED
    BY <1>1, <1>2, <1>3 DEF OneRun

-----------------------------------------------------------------------------
(* The invariant holds in every state.                                       *)
LEMMA TrackerInvariant ==
    Spec => []IInv
  <1>1. Init => IInv
    <2>1. SUFFICES ASSUME Init PROVE IInv
      OBVIOUS
    <2>2. Identity /\ Histories
      BY <2>1, Begins
    <2>3. Bound = {} /\ Listed = {}
      BY <2>1 DEF Init, Bound, Listed, OnWire
    <2>4. OneRun
      BY <2>1, <2>3 DEF Init, OneRun, IdsUnique, PubsListed, ListTellsLive, NoRequest
    <2>5. SubsPassed
      BY <2>1 DEF Init, SubsPassed
    <2>6. Seen
      BY <2>1, <2>3 DEF Init, Seen, NamesDistinct, OpenIsLive, ListWithin, ListShowing, ParentSeen,
         NoRequest
    <2>. QED
      BY <2>2, <2>4, <2>5, <2>6 DEF IInv
  <1>2. IInv /\ [Next]_vars => IInv'
    <2>1. SUFFICES ASSUME IInv, [Next]_vars PROVE IInv'
      OBVIOUS
    <2>2. CASE Next
      BY <2>1, <2>2, NextKeeps, OneRunStays, SeenStays, SubsStayPassed DEF IInv, OneRun
    <2>3. CASE UNCHANGED vars
      <3>1. Identity' /\ Histories'
        BY <2>1, <2>3, Stutters DEF IInv
      <3>2. IdsUnique' /\ (~Restarted' => PubsListed')
        BY <2>1, <2>3 DEF IInv, OneRun, vars, IdsUnique, PubsListed, Restarted, Bound, Listed,
           OnWire, IsChild
      <3>3. ~Restarted' /\ ~crashed' /\ ~swallowed' => ListTellsLive'
        BY <2>1, <2>3 DEF IInv, OneRun, vars, ListTellsLive, Restarted, Listed, Key
      <3>4. SubsPassed'
        BY <2>1, <2>3 DEF IInv, vars, SubsPassed, Passed
      <3>5. NamesDistinct' /\ ParentSeen'
        BY <2>1, <2>3 DEF IInv, Seen, vars, NamesDistinct, ParentSeen, ParentThere, Misnamed, IsChild,
           Restarted
      <3>6. (~Restarted' => OpenIsLive' /\ ListShowing') /\ (~Restarted' /\ ~crashed' => ListWithin')
        BY <2>1, <2>3 DEF IInv, Seen, vars, OpenIsLive, ListShowing, ListWithin, Listed, Showing,
           Misnamed, Restarted
      <3>. QED
        BY <3>1, <3>2, <3>3, <3>4, <3>5, <3>6 DEF IInv, OneRun, Seen
    <2>. QED
      BY <2>1, <2>2, <2>3
  <1>. QED
    BY <1>1, <1>2, PTL DEF Spec

(* Every variable holds a value of its kind. *)
THEOREM TypeCorrect == Spec => []TypeOK
  <1>1. IInv => TypeOK
    <2>1. SUFFICES ASSUME Identity, Histories PROVE TypeOK
      BY DEF IInv
    <2>2. Kinds /\ Numbered /\ Named
      BY <2>1 DEF Identity, Histories
    <2>3. live \subseteq [inc : DOMAIN names, id : 1 .. MaxInstall]
      <3>1. 1 .. nextId - 1 \subseteq 1 .. MaxInstall
        BY <2>2, TrackerAssumption DEF Kinds
      <3>. QED
        BY <2>2, <3>1 DEF Kinds
    <2>4. ASSUME NEW i \in DOMAIN modules
          PROVE  /\ modules[i].inc \in DOMAIN names /\ modules[i].name \in Names
                 /\ modules[i].topics \subseteq Topics
      <3>1. modules[i] \in Listing
        BY <2>2 DEF Kinds
      <3>2. Key(modules[i]) \in Bound /\ Key(modules[i]).inc = modules[i].inc
        BY DEF Bound, Listed, Key
      <3>. QED
        BY <2>2, <3>1, <3>2 DEF Numbered, Listing
    <2>5. ASSUME NEW i \in DOMAIN log
          PROVE  /\ log[i].cmd \in Commands /\ log[i].inc \in DOMAIN names
                 /\ log[i].name \in (IF log[i].cmd = "module-uninst" THEN Names \cup {Unknown}
                                     ELSE Names)
      <3>1. log[i] \in Logged
        BY <2>2 DEF Kinds
      <3>. QED
        BY <2>2, <3>1 DEF Numbered, Named, Logged
    <2>. QED
      BY <2>2, <2>3, <2>4, <2>5 DEF TypeOK, Kinds
  <1>. QED
    BY <1>1, TrackerInvariant, PTL

(* An event about a topic comes under the name of a module that was          *)
(* announced and not uninstalled; an observer sees it below its parent as    *)
(* long as no module-uninst came under that name that was another's, and the *)
(* runtime was not started again.                                            *)
THEOREM NoChildWithoutParent == Spec => []ChildrenWithinParent
  <1>1. IInv => ChildrenWithinParent
    BY DEF IInv, Histories, Seen, ChildrenWithinParent
  <1>. QED
    BY <1>1, TrackerInvariant, PTL

(* An event about a topic of an announced module carries that module's name. *)
THEOREM NeverMisattributed == Spec => []AttributedRight
  BY TrackerInvariant, PTL DEF IInv, Histories

(* As long as the runtime was not started again, pub-start is published once *)
(* at most for a module and topic.                                           *)
THEOREM PubStartPublishedOnce == Spec => []PubStartOnce
  <1>1. IInv => PubStartOnce
    BY DEF IInv, OneRun, PubsListed, PubStartOnce
  <1>. QED
    BY <1>1, TrackerInvariant, PTL

(* With nothing on its way, nothing lost, no request open and no restart,    *)
(* the list holds exactly the modules that are in the runtime.               *)
THEOREM ListIsTheRuntimes == Spec => []ListMatchesRuntime
  <1>1. IInv => ListMatchesRuntime
    <2>1. SUFFICES ASSUME IInv, CaughtUp, request = NoRequest, ~Restarted
                   PROVE  {[inc |-> modules[i].inc, id |-> modules[i].id] : i \in DOMAIN modules} = live
      BY DEF ListMatchesRuntime
    <2>2. Listed = live
      BY <2>1 DEF IInv, OneRun, ListTellsLive, CaughtUp, NoRequest
    <2>. QED
      BY <2>2 DEF Listed, Key
  <1>. QED
    BY <1>1, TrackerInvariant, PTL

(* With nothing on its way and nothing lost, a topic a module is subscribed  *)
(* to and no other module was is subscribed to at the broker.                *)
THEOREM EverySubscriptionPassed == Spec => []SubscriptionsCovered
  <1>1. IInv => SubscriptionsCovered
    <2>1. SUFFICES ASSUME IInv, CaughtUp, NEW s \in rsubs
                   PROVE  s.topic \in subs \cup shared
      BY DEF SubscriptionsCovered
    <2>2. DOMAIN toBridge = {}
      BY <2>1 DEF CaughtUp
    <2>3. s.topic \in shared \/ Passed(s.topic)
      BY <2>1 DEF IInv, SubsPassed, CaughtUp
    <2>. QED
      BY <2>2, <2>3 DEF Passed
  <1>. QED
    BY <1>1, TrackerInvariant, PTL

=============================================================================
