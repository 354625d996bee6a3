SPECIFICATION Spec
CONSTANTS
    i1 = i1
    i2 = i2
    i3 = i3
    n1 = n1
    c1 = c1
    NULL = NULL
    Junk = Junk
    NoList = NoList
    Irqs <- MCIrqs
    Nodes <- MCNodes
    Cpus <- MCCpus
    Cells <- MCCells
    Pick <- MCPick
INVARIANTS
    WellFormed
    NoDangling
    SortExact
PROPERTIES
    ImplementsLists
