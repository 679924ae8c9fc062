\* Two VMs that run while the module comes and goes; frames 1 and 2 can be
\* merged and mapped by both.
CONSTANTS
    v1 = v1
    v2 = v2
    VM = {v1, v2}
    NoOwner = NoOwner
    Foreign = Foreign
    NumPfn = 3
    MaxPfn = 2
    Common = {}
SPECIFICATION LoadSpec
SYMMETRY VMSymmetry
CONSTRAINT FrameZeroKept
INVARIANTS LoadTypeOK SeenIsExclusive SeenIsUsed
PROPERTIES SeenImplementsIsolation
