------------------------------- MODULE Payload ------------------------------
(* What becomes of the contents of a message on its way from module to       *)
(* module: the attribute container a module publishes is walked through byte *)
(* by byte and turned into JSON (attr2json), goes over the broker as text,   *)
(* is parsed and turned into a container again (json2attr), and is handed to *)
(* a module, which may publish it in its turn through another bridge.        *)
EXTENDS Integers, Sequences, FiniteSets, SequencesExt

CONSTANTS
    Keys,         \* the keys of attributes, and of members of objects
    Containers,   \* what modules publish: sequences of attributes
    Objects,      \* the JSON objects other MQTT clients publish: sequences of members
    Injected,     \* the objects a text with a quote may make, put between quotes
    Doubles,      \* the integers a double holds: all up to 2^53, then every second, fourth, ...
    MaxLength,    \* the largest number the loop index of a byte array holds (65535)
    MaxHops,      \* how often the message is handed to a module
    NotFinite     \* NaN and the infinities

(* The contents of a string, or of a message that is no printed object, by   *)
(* what the parser makes of it: two Plain texts; text with a "quote", or     *)
(* with a backslash and no quote ("escape"), that begins with no JSON; text  *)
(* that begins with a "number", or another value that is no object; the text *)
(* of an "object".                                                           *)
Plain == {"plain", "other"}
Texts == Plain \cup {"quote", "escape", "number", "object"}

(* A value is a record whose one field names its kind.                       *)
Is(v, kind) == kind \in DOMAIN v
Nothing     == [nothing |-> 0]
null        == [null |-> 0]
Member(key, value) == [key |-> key, value |-> value]

Distance(m, n) == IF m <= n THEN n - m ELSE m - n
Nearest(n, d)  == d \in Doubles /\ \A e \in Doubles : Distance(n, d) <= Distance(n, e)

(* A double made of n: n itself, or the double nearest to it, either one of  *)
(* two that are equally near.                                                *)
Rounded(n) ==
    IF n \in Doubles \cup {NotFinite} THEN n ELSE CHOOSE d \in Doubles : Nearest(n, d)

(* What a module can put into a container, and a client into an object: a    *)
(* number too large for a double, too, which becomes an infinity.  The       *)
(* objects within, and the arrays within an array, are not looked into.      *)
Byte       == -128 .. 127
Integral   == [short : Int] \cup [int : Int] \cup [int64 : Int] \cup [byte : Int]
                 \cup [uint16 : Int]
Floating   == [float : Doubles \cup {NotFinite}] \cup [double : Doubles \cup {NotFinite}]
AttrValue  == Integral \cup Floating \cup [boolean : BOOLEAN] \cup [string : Texts]
                 \cup [bytearray : Seq(Byte)]
JsonPlain  == [number : Doubles] \cup [bool : BOOLEAN] \cup [string : Texts]
                 \cup [object : {<<>>}] \cup {null}
JsonValue  == JsonPlain \cup [number : {NotFinite}]
                 \cup [array : Seq(JsonPlain \cup [array : {<<>>}])]

DistinctKeys(c) == \A i, j \in DOMAIN c : c[i].key = c[j].key => i = j

ASSUME PayloadAssumption ==
    /\ Doubles \subseteq Int /\ -128 .. 255 \subseteq Doubles
    /\ MaxLength \in Nat /\ MaxHops \in Nat
    /\ NotFinite \notin Int /\ {"raw_str", "x"} \subseteq Keys
    /\ \A c \in Containers : c \in Seq([key : Keys, value : AttrValue]) /\ DistinctKeys(c)
    /\ Objects \cup Injected \subseteq Seq([key : Keys, value : JsonValue])

VARIABLES
    at,       \* where the message is
    msg,      \* at the broker: the text, a printed object or any other
    trail,    \* history: the containers modules published or were handed
    origin,   \* history: what a client published, if a client did
    starved   \* history: whether there was no memory to convert or print what was published

vars == <<at, msg, trail, origin, starved>>

-----------------------------------------------------------------------------
(* A container in memory (external): each attribute is the length of its     *)
(* key, the key, a type and a value.  A cell is a byte; the first one of a   *)
(* field holds what the field holds.                                         *)
IntWidth == [short |-> 2, int |-> 4, int64 |-> 8, byte |-> 1, uint16 |-> 2,
             float |-> 4, double |-> 8, boolean |-> 1]
Scalars  == DOMAIN IntWidth
Kinds    == Scalars \cup {"string", "bytearray"}
KindOf(v) == CHOOSE k \in Kinds : Is(v, k)

KeyLength  == 3      \* with the terminating zero
TextLength == 2

Field(v, n) == <<v>> \o [i \in 1 .. n - 1 |-> Nothing]

ValueCells(v) ==
    IF Is(v, "string")
    THEN Field([length |-> TextLength], 2) \o Field(v, TextLength)
    ELSE IF Is(v, "bytearray")
    THEN Field([length |-> Len(v.bytearray)], 4)
            \o [i \in DOMAIN v.bytearray |-> [item |-> v.bytearray[i]]]
    ELSE Field(v, IntWidth[KindOf(v)])

Cells(a) == Field([length |-> KeyLength], 2) \o Field([key |-> a.key], KeyLength)
                \o <<[type |-> KindOf(a.value)]>> \o ValueCells(a.value)

Memory(c) == FlattenSeq([i \in DOMAIN c |-> Cells(c[i])])

-----------------------------------------------------------------------------
(* attr2json.                                                                *)

(* What is read at p if it is taken for a field of this kind; elsewhere than *)
(* at the beginning of such a field, bytes that mean nothing.                *)
Read(mem, p, kind) ==
    IF p \in DOMAIN mem /\ Is(mem[p], kind) THEN mem[p][kind]
    ELSE IF kind \in {"key", "type", "string"} THEN "garbage"
    ELSE IF kind = "boolean" THEN FALSE ELSE 0

(* The items are read as char, whose sign depends on the build. *)
ItemRead(n, signed) == IF signed THEN n ELSE n % 256

(* The JSON value at p and the number of bytes p goes on by. *)
ValueAt(mem, p, type, signed) ==
    LET n == Read(mem, p, "length")
    IN  CASE type \in Scalars \ {"boolean"} ->
                [json |-> [number |-> Rounded(Read(mem, p, type))], size |-> IntWidth[type]]
          [] type = "boolean" ->
                [json |-> [bool |-> Read(mem, p, type)], size |-> 1]
          [] type = "string" ->
                [json |-> [string |-> Read(mem, p + 2, type)], size |-> 2 + n]
          [] type = "bytearray" ->
                [json |-> [array |-> [j \in 1 .. n |->
                               [number |-> ItemRead(Read(mem, p + 3 + j, "item"), signed)]]],
                 size |-> 4 + n]
          [] OTHER -> [json |-> null, size |-> 0]

(* Seeded fault: p is left at the length of the key, not after it. *)
FaultSkipKeyOnly(mem, p) == p + Read(mem, p, "length")

SkipKey(mem, p) == p + 2 + Read(mem, p, "length")

(* The loop over attr_num attributes. *)
Attr2Json(c, signed) ==
    LET mem == Memory(c)
        After[i \in 0 .. Len(c)] ==
            IF i = 0 THEN [p |-> 1, root |-> <<>>]
            ELSE LET p     == After[i - 1].p
                     type  == SkipKey(mem, p)
                     value == ValueAt(mem, type + 1, Read(mem, type, "type"), signed)
                 IN  [p |-> type + 1 + value.size,
                      root |-> Append(After[i - 1].root,
                                      Member(Read(mem, p + 2, "key"), value.json))]
    IN  After[Len(c)].root

(* The loop over the items of an array of more than MaxLength never ends. *)
Endless(c) ==
    \E i \in DOMAIN c : Is(c[i].value, "bytearray") /\ Len(c[i].value.bytearray) > MaxLength

(* Printing (external) makes null of a number that is not finite. *)
Printed(root) ==
    [i \in DOMAIN root |->
        IF root[i].value = [number |-> NotFinite] THEN Member(root[i].key, null) ELSE root[i]]

-----------------------------------------------------------------------------
(* json2attr.                                                                *)

(* Seeded fault: an item out of range is taken to the nearest end of it. *)
FaultSaturated(n) == IF n > 127 THEN 127 ELSE IF n < -128 THEN -128 ELSE n

(* Seeded fault: the number is kept as it is. *)
FaultNoCast(n) == n

(* The cast to int8_t: undefined beyond its range, where the compilers keep  *)
(* the low eight bits.                                                       *)
ToInt8(n) == ((n + 128) % 256) - 128

IsNumber(v) == Is(v, "number")

(* Seeded fault: items that are no numbers are skipped. *)
FaultAllNumbers(items) == SelectSeq(items, IsNumber)

(* The items before the first that is no number. *)
LeadingNumbers(items) ==
    SubSeq(items, 1, CHOOSE n \in 0 .. Len(items) :
                        /\ \A i \in 1 .. n : IsNumber(items[i])
                        /\ n = Len(items) \/ ~IsNumber(items[n + 1]))

(* The attribute made of a JSON value: none of null, an object, or an array  *)
(* that does not begin with a number.                                        *)
AttrOf(v) ==
    CASE IsNumber(v)     -> [double |-> v.number]
      [] Is(v, "bool")   -> [boolean |-> v.bool]
      [] Is(v, "string") -> v
      [] Is(v, "array")  ->
            LET bytes == LeadingNumbers(v.array)
            IN  IF bytes = <<>> THEN Nothing
                ELSE [bytearray |-> [i \in DOMAIN bytes |-> ToInt8(bytes[i].number)]]
      [] OTHER           -> Nothing

(* attr_container_set_* (external): the attribute replaces one of its key.   *)
Without(c, key) ==
    IF \E i \in DOMAIN c : c[i].key = key
    THEN RemoveAt(c, CHOOSE i \in DOMAIN c : c[i].key = key) ELSE c

SetAttr(c, a) == IF a.value = Nothing THEN c ELSE Append(Without(c, a.key), a)

(* Seeded fault: an array without a leading number is an error, too. *)
FaultNoNumberFails(v) == Is(v, "array") /\ LeadingNumbers(v.array) = <<>>

(* What makes json2attr give up and destroy the container: an empty array. *)
Fails(v) == Is(v, "array") /\ v.array = <<>>

Json2Attr(root) ==
    LET After[i \in 0 .. Len(root)] ==
            IF i = 0 THEN <<>>
            ELSE SetAttr(After[i - 1], Member(root[i].key, AttrOf(root[i].value)))
    IN  After[Len(root)]

-----------------------------------------------------------------------------
Init ==
    /\ at = "nowhere" /\ msg = Nothing
    /\ trail = <<>> /\ origin = Nothing /\ starved = FALSE

ModuleStarts(c) ==
    /\ at = "nowhere"
    /\ at' = "module" /\ trail' = <<c>>
    /\ UNCHANGED <<msg, origin, starved>>

ClientPublishes(m) ==
    /\ at = "nowhere"
    /\ at' = "broker" /\ msg' = m /\ origin' = m
    /\ UNCHANGED <<trail, starved>>

IsRaw(a)    == a.key = "raw_str" /\ Is(a.value, "string")
HasRaw(c)   == \E i \in DOMAIN c : IsRaw(c[i])
RawText(c)  == c[CHOOSE i \in DOMAIN c : IsRaw(c[i]) /\ \A j \in 1 .. i - 1 : ~IsRaw(c[j])].value.string

(* A module publishes the container; mqtt_process_runtime_event.  Of one     *)
(* with a string raw_str only that string is published, as it is.  Where     *)
(* there is no memory to convert or to print it, which the loop that never   *)
(* ends comes to as well, what is published are the bytes of the container   *)
(* up to the first zero, whatever text they make.                            *)
Publish ==
    /\ at = "module"
    /\ LET c == trail[Len(trail)]
       IN  \/ /\ ~Endless(c)
              /\ at' = "broker"
              /\ \E signed \in BOOLEAN :
                    LET root == Attr2Json(c, signed)
                    IN  msg' = IF HasRaw(root) THEN [text |-> RawText(root)]
                               ELSE [object |-> Printed(root)]
              /\ UNCHANGED starved
           \/ /\ Endless(c)
              /\ at' = "stuck"
              /\ UNCHANGED <<msg, starved>>
           \/ /\ at' = "broker" /\ starved' = TRUE
              /\ \E t \in Texts : msg' = [text |-> t]
    /\ UNCHANGED <<trail, origin>>

(* cJSON_Parse (external) is content with a value at the beginning.          *)
Parse(m) ==
    IF Is(m, "object") THEN m
    ELSE CASE m.text = "number" -> [number |-> 5]
           [] m.text = "object" -> [object |-> <<Member("x", [number |-> 5])>>]
           [] OTHER             -> Nothing

RawObject(t) == <<Member("raw_str", [string |-> t])>>

(* What is no JSON is put between quotes, as it is, and parsed again.  An    *)
(* escape in it is decoded, into any text, or is no escape, and the text is  *)
(* no JSON even then; a quote in it ends the string, and what comes after it *)
(* is taken for JSON, or is none.                                            *)
Wrapped(t) ==
    CASE t = "quote"  -> {Nothing} \cup {[object |-> o] : o \in Injected}
      [] t = "escape" -> {Nothing} \cup {[object |-> RawObject(u)] : u \in Texts}
      [] OTHER        -> {[object |-> RawObject(t)]}

ParseOrWrap(m) == IF Parse(m) = Nothing THEN Wrapped(m.text) ELSE {Parse(m)}

Convertible(root) == \A i \in DOMAIN root : ~Fails(root[i].value)

(* mqtt_ev_handler and rt_req_request: what cannot be parsed even then goes  *)
(* to the module as an event without a payload; what is no object, or cannot *)
(* be converted, goes nowhere.                                               *)
Forward ==
    /\ at = "broker" /\ Len(trail) < MaxHops
    /\ \E json \in ParseOrWrap(msg) :
          LET good == Is(json, "object") /\ Convertible(json.object)
          IN  CASE json = Nothing -> at' = "empty" /\ UNCHANGED trail
                [] good -> at' = "module" /\ trail' = Append(trail, Json2Attr(json.object))
                [] OTHER -> at' = "dropped" /\ UNCHANGED trail
    /\ UNCHANGED <<msg, origin, starved>>

Messages == {[object |-> o] : o \in Objects} \cup {[text |-> t] : t \in Texts}

Next ==
    \/ \E c \in Containers : ModuleStarts(c)
    \/ \E m \in Messages : ClientPublishes(m)
    \/ Publish
    \/ Forward

Spec == Init /\ [][Next]_vars

-----------------------------------------------------------------------------
(* Every variable holds a value of its kind; a container never has two       *)
(* attributes of one key, and what a module is handed holds no numbers but   *)
(* doubles and bytes.                                                        *)
TypeOK ==
    /\ at \in {"nowhere", "module", "broker", "stuck", "empty", "dropped"}
    /\ starved \in BOOLEAN
    /\ msg \in {Nothing} \/ Is(msg, "text") \/ Is(msg, "object")
    /\ \A n \in DOMAIN trail :
          /\ DistinctKeys(trail[n])
          /\ \A i \in DOMAIN trail[n] :
                LET v == trail[n][i].value
                IN  /\ KindOf(v) \in (IF n = 1 /\ origin = Nothing THEN Kinds
                                      ELSE {"double", "boolean", "string", "bytearray"})
                    /\ Is(v, "bytearray") =>
                          \A k \in DOMAIN v.bytearray : v.bytearray[k] \in Byte

Attrs(c)    == {c[i] : i \in DOMAIN c}
Content(v)  == v[KindOf(v)]
IsFinite(v) == ~(KindOf(v) \in {"float", "double"} /\ Content(v) = NotFinite)

(* Whether w is what a module should be handed where v was published: of a   *)
(* number no double is nearer to it.                                         *)
Same(v, w) ==
    IF KindOf(v) \in Scalars \ {"boolean"}
    THEN Is(w, "double") /\ (w.double = Content(v) \/ Nearest(Content(v), w.double))
    ELSE v = w

(* mqtt_publisher.c: the attributes a module sets "will create a json        *)
(* string"; each that JSON can express reaches the other module under its    *)
(* key and with its value, a number as the double nearest to it, and no      *)
(* other does, unless memory ran out.                                        *)
AttributesArrive ==
    origin = Nothing /\ Len(trail) > 1 /\ ~HasRaw(trail[1]) /\ ~starved =>
        LET sent == {a \in Attrs(trail[1]) : IsFinite(a.value)}
        IN  /\ {a.key : a \in sent} = {a.key : a \in Attrs(trail[2])}
            /\ \A a \in sent, b \in Attrs(trail[2]) : a.key = b.key => Same(a.value, b.value)

(* Whatever builds of the bridge a message passes, and as long as there is   *)
(* memory: where a module passes on what it was handed, its numbers, strings *)
(* and bytes do not change any more, however often it is passed on; only an  *)
(* infinity a client wrote is left out.  Of one with a raw_str only that     *)
(* remains, and does not change as long as it is plain text; what has an     *)
(* escape or a quote in it may change on every hop.                          *)
RelayedUnchanged ==
    \A n \in DOMAIN trail :
        (n > 1 \/ origin # Nothing) /\ n < Len(trail) /\ ~starved =>
            IF HasRaw(trail[n])
            THEN RawText(trail[n]) \in Plain =>
                    Attrs(trail[n + 1]) = {a \in Attrs(trail[n]) : IsRaw(a)}
            ELSE Attrs(trail[n + 1]) = {a \in Attrs(trail[n]) : IsFinite(a.value)}

(* The last member of its key. *)
Final(o, i) == \A j \in i + 1 .. Len(o) : o[j].key # o[i].key

(* The member is in the container with its value, if it is a number, a       *)
(* Boolean, a string or an array of bytes.                                   *)
ArrivedIn(m, c) ==
    LET v     == m.value
        In(w) == Member(m.key, w) \in Attrs(c)
    IN  /\ IsNumber(v) => In([double |-> v.number])
        /\ Is(v, "bool") => In([boolean |-> v.bool])
        /\ Is(v, "string") => In(v)
        /\ (/\ Is(v, "array")
            /\ \A k \in DOMAIN v.array : IsNumber(v.array[k]) /\ v.array[k].number \in Byte) =>
              In([bytearray |-> [k \in DOMAIN v.array |-> v.array[k].number]])

(* The bytes were sent: as the numbers an array begins with. *)
WereSent(a, o) ==
    \E i \in DOMAIN o :
        /\ o[i].key = a.key /\ Is(o[i].value, "array")
        /\ Len(a.value.bytearray) <= Len(o[i].value.array)
        /\ \A k \in DOMAIN a.value.bytearray : IsNumber(o[i].value.array[k])

(* mqtt_subscriber.c: JSON messages "are accessed according to the object    *)
(* attributes".  The last member of each key that is a number, a Boolean, a  *)
(* string or an array of bytes arrives, and no bytes the client did not      *)
(* send.                                                                     *)
MembersArrive ==
    Is(origin, "object") /\ trail # <<>> =>
        LET o == origin.object
        IN  /\ \A i \in DOMAIN o : Final(o, i) => ArrivedIn(o[i], trail[1])
            /\ \A a \in Attrs(trail[1]) : Is(a.value, "bytearray") => WereSent(a, o)

(* No message is lost on its way but one with an empty array, one whose text *)
(* begins with a JSON value that is no object, and one that is no JSON and   *)
(* has a quote or a backslash in it: one without a quote that is lost comes  *)
(* as an event without a payload.                                            *)
LostForAReason ==
    /\ at = "dropped" =>
          \/ Is(msg, "text") /\ msg.text \in {"number", "quote"}
          \/ Is(msg, "object") /\ \E i \in DOMAIN msg.object : msg.object[i].value = [array |-> <<>>]
    /\ at = "empty" => Is(msg, "text") /\ msg.text \in {"quote", "escape"}

=============================================================================
