SPECIFICATION Spec
CONSTANTS
    n1 = n1
    n2 = n2
    b1 = b1
    b2 = b2
    Nodes = {n1}
    Keys = {k1}
    Bodies = {b1}
    Workers = {w1, w2}
    Prober = prober
    None = None
    Slots <- OneSlot
    SlotChoices <- OneChoice
    Needs <- MCNeeds
    Supports <- AllSupported
    Rejects <- NothingRejected
    SyncBodies = {}
    BootEnabled <- AllEnabled
    MaxFaults = 1
    MaxAdmin = 0
PROPERTIES TerminalIsFinal
