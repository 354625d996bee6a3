SPECIFICATION Spec
CONSTANTS
    numa_nodes <- const_nodes
    packages <- const_packages
    cache_domains <- const_caches
    cpus <- const_cpus
    Children <- const_Children
    Mask <- const_Mask
    CpuIds = {0, 1, 2, 3, 4}
    banned_cpus = {3, 4}
    numa_avail = TRUE
    Unspecified = "unspecified"
    Null = Null
    Irqs = {"eth", "disk", "usb", "gpu"}
    Info <- const_Info
    Dbs <- const_Dbs
    power_thresh = off
    PowersaveOff = off
    PowersaveCycle = 0
    CpuLoads = {0, 9}
    Deltas = {2}
    WordSize = 1024
INVARIANTS
    TypeOK
    LevelRespected
    PlacedDeep
    NodeHonoured
    SharesFit
    DonorsSound
PROPERTIES
    NeverToBanned
    HintHonoured
