SPECIFICATION FairSpec
CONSTANTS
    c1 = c1
    c2 = c2
    c3 = c3
    i1 = i1
    i2 = i2
    Irqs = {i1, i2}
    IrqOrder <- const_Order
    Cpus = {c1, c2, c3}
    pci_bus = TRUE
    device_irqs = {i2}
    name_banned = {}
    OneShotModes = {FALSE, TRUE}
    MaxEvents = 3
    MaxCount = 1
    MaxCycles = 1
INVARIANTS
    TypeOK
    NoCountUnderflow
    OutdatedIsNoticed
    RescanHasReason
PROPERTIES
    HupServed
    StopsOnSignal
    BalancingResumes
