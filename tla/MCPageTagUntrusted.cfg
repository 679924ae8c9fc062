\* The machine of MCPageTagInside, with a host that may map any frame.
CONSTANTS
    v1 = v1
    v2 = v2
    VM = {v1, v2}
    NoOwner = NoOwner
    Foreign = Foreign
    NumPfn = 3
    MaxPfn = 2
    Common = {}
SPECIFICATION UntrustedSpec
SYMMETRY VMSymmetry
INVARIANT DoubleMappingHindered
