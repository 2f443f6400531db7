----------------------------- MODULE PayloadMC ------------------------------
(* Payload for TLC: one or two attributes or members of every kind, with the *)
(* values at the ends of their ranges.                                       *)
EXTENDS Payload

(* Doubles in steps of two, four and eight beyond the first few hundred. *)
FewDoubles == (-128 .. 256) \cup {258, 260, 262, 264, 268, 272, -130, -132, -136, -144}

AttrKeys == {"x", "raw_str"}

SomeAttrs ==
    {[short |-> -7], [int |-> 200], [int64 |-> 257], [int64 |-> 270], [int64 |-> -133],
     [byte |-> -128], [uint16 |-> 256], [float |-> NotFinite], [double |-> 264], [boolean |-> FALSE],
     [bytearray |-> <<>>], [bytearray |-> <<-1, 127>>], [bytearray |-> <<0, -128, 5>>],
     [bytearray |-> <<1, 2, 3, 4>>]}
    \cup {[string |-> t] : t \in Texts}

SomeValues ==
    {[number |-> 5], [number |-> 256], [number |-> NotFinite], [bool |-> TRUE], [bool |-> FALSE], null,
     [object |-> <<>>], [string |-> "plain"], [string |-> "number"]}
    \cup {[array |-> a] : a \in {<<>>, <<null>>, <<[number |-> -128]>>,
             <<[number |-> 200], null, [number |-> 3]>>, <<null, [number |-> 3]>>}}

Pairs(S) == {<<a>> : a \in S} \cup {<<a, b>> : a, b \in S}

AllMembers(values) == {Member(k, v) : k \in AttrKeys, v \in values}

MemberLists == Pairs(AllMembers(SomeValues))

(* A string that ends early, further members, another raw_str. *)
InjectedLists ==
    {<<Member("raw_str", [string |-> "plain"])>> \o rest :
        rest \in {<<>>} \cup {<<Member("x", v)>> : v \in {[string |-> "other"], [array |-> <<>>]}}
                       \cup {<<Member("raw_str", [number |-> 5])>>}}
    \cup {<<Member("raw_str", [string |-> "quote"])>>}

Contained == {c \in Pairs(AllMembers(SomeAttrs)) : DistinctKeys(c)}

=============================================================================
