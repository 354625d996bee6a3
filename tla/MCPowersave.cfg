SPECIFICATION FairSpec
CONSTANTS
    numa_nodes <- const_nodes
    packages <- const_packages
    cache_domains <- const_caches
    cpus <- const_cpus
    Children <- const_Children
    Mask <- const_Mask
    CpuIds = {0, 1}
    banned_cpus = {}
    numa_avail = FALSE
    Unspecified = "node"
    Null = Null
    Irqs = {"eth", "disk", "timer"}
    Info <- const_Info
    Dbs <- const_Dbs
    power_thresh = 1
    PowersaveOff = off
    PowersaveCycle = 1
    CpuLoads = {0, 9}
    Deltas = {1}
    WordSize = 1024
INVARIANTS
    ListsConsistent
    LoopOnList
    PowersaveIdle
PROPERTIES
    ImplementsPlacement
    WaitingIrqsPlaced
