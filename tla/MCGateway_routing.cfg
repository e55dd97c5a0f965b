SPECIFICATION Spec
CONSTANTS
    n1 = n1
    n2 = n2
    b1 = b1
    b2 = b2
    Nodes = {n1, n2}
    Keys = {k1}
    Bodies = {b1, b2}
    Workers = {w1, w2}
    Prober = prober
    None = None
    Slots <- OneSlot
    SlotChoices <- OneOrTwo
    Needs <- MCNeeds
    Supports <- AllSupported
    Rejects <- RejectB2
    SyncBodies = {}
    BootEnabled <- AllEnabled
    MaxFaults = 1
    MaxAdmin = 1
SYMMETRY Interchangeable
INVARIANTS SingleExecution CallerSubmitsItsBody
