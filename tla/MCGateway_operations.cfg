SPECIFICATION FairSpec
CONSTANTS
    n1 = n1
    n2 = n2
    b1 = b1
    b2 = b2
    Nodes = {n1}
    Keys = {k1, k2}
    Bodies = {b1, b2}
    Workers = {w1, w2}
    Prober = prober
    None = None
    Slots <- OneSlot
    SlotChoices <- OneChoice
    Needs <- MCNeeds
    Supports <- AllSupported
    Rejects <- NothingRejected
    SyncBodies = {b2}
    BootEnabled <- AllEnabled
    MaxFaults = 1
    MaxAdmin = 0
INVARIANTS RecordedRunIsReal FinalStateIsTrue
PROPERTIES ReservationsFitSlots CapacityIsReleased
