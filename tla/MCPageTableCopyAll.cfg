SPECIFICATION Spec
CONSTANTS
    K = 2
    MaxCopies = 2
    MaxEdits = 0
    Physical <- MCPhysical
    Zero <- MCZero
    Root <- MCRoot
    KernelPuds <- MCPuds
    KernelPmds <- MCPmds
    KernelPtes <- MCPtes
    NoPage = NoPage
    Kernels <- MCKernelsHigh
INVARIANT
    AllAddressIsMapped
