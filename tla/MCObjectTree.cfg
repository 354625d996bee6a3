SPECIFICATION ObjSpec
CONSTANTS
    CpuIds = {1, 2, 3, 4}
    ScanOrders <- const_ScanOrders
    PkgOf <- const_PkgOf
    CacheOf <- const_CacheOf
    NodeOf <- const_NodeOf
    NodeIds = {0}
    numa_avail = TRUE
    banned_cpus = {4}
    deepest_cache = 2
    NoSiblings = {}
    MaxHotplug = 2
    Irqs = {0, 1, 2, 3, 4}
    ProcFiles <- const_ProcFiles
    DeviceLists <- const_DeviceLists
    Outputs <- const_Outputs
    cl_banned_irqs = {2}
    module_banned = {1}
    name_banned = {3}
    global_hint_policy = "ignore"
INVARIANTS
    TreeCoversCpus
    StableScanIsExact
    AllKnown
    AdminObeyed
    InputForBalancer
