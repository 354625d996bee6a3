SPECIFICATION Spec
CONSTANTS
    numa_nodes <- const_nodes
    packages <- const_packages
    cache_domains <- const_caches
    cpus <- const_cpus
    Children <- const_Children
    Mask <- const_Mask
    CpuIds = {0, 1, 2, 3}
    banned_cpus = {3}
    numa_avail = FALSE
    Unspecified = "node"
    Null = Null
    Irqs = {"disk"}
    Info <- const_Info
    Dbs <- const_Dbs
    power_thresh = off
    PowersaveOff = off
    PowersaveCycle = 0
    CpuLoads = {0, 9}
    Deltas = {1}
    WordSize = 1024
PROPERTIES
    NeverToBanned
