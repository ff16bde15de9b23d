SPECIFICATION Spec
CONSTANTS
    Clients = {c1, c2, c3}
    Slots = {s1, s2}
    FirstSlot = s1
    NoSlot = NoSlot
    Nobody = Nobody
    MaxReads = 4
INVARIANTS
    TypeOK
    SlotAccounting
    DataIntact
    NothingAfterClose
PROPERTIES
    Progress
    PoolSpec
