SPECIFICATION Spec
CONSTANTS
    Pages = {p1, p2, p3}
    NoPage = NoPage
    Users = {u1, u2, u3}
    Capacity = 2
    Policies = {"LRU", "FIFO"}
    Contents = {blank, a}
    Blank = blank
    IOErrors = TRUE
    MaxRestarts = 1
INVARIANTS
    TypeOK
    PinsAreHolders
    Coherence
PROPERTIES
    EvictionOrder
    PoolIsAPageStore
