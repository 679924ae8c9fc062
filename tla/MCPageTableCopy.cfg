SPECIFICATION Spec
CONSTANTS
    K = 2
    MaxCopies = 2
    MaxEdits = 1
    Physical <- MCPhysical
    Zero <- MCZero
    Root <- MCRoot
    KernelPuds <- MCPuds
    KernelPmds <- MCPmds
    KernelPtes <- MCPtes
    NoPage = NoPage
    Kernels <- MCKernels
INVARIANTS
    TypeOK
    LoopsTranslate
    ApartOrInSync
PROPERTIES
    OriginalKept
    WalksKeepMappings
