SPECIFICATION Spec
CONSTANTS
    Irqs = {0, 1, 2, 3, 4}
    ProcFiles <- const_ProcFiles
    DeviceLists <- const_DeviceLists
    Outputs <- const_Outputs
    cl_banned_irqs = {2}
    module_banned = {3}
    name_banned = {}
    global_hint_policy = "ignore"
    numa_avail = TRUE
    NodeIds = {0}
    NoNode = NoNode
INVARIANTS
    ModuleBansHonoured
