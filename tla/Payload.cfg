SPECIFICATION Spec
CONSTANTS
    Keys <- AttrKeys
    Containers <- Contained
    Objects <- MemberLists
    Injected <- InjectedLists
    Doubles <- FewDoubles
    MaxLength = 3
    MaxHops = 3
    NotFinite = NotFinite
CHECK_DEADLOCK FALSE
INVARIANTS TypeOK AttributesArrive RelayedUnchanged MembersArrive LostForAReason
