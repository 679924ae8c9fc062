\* Every frame of the machine is below the limit of every handler: the whole
\* table logic, merges between frames 1 and 2 included, and frame 0.
CONSTANTS
    v1 = v1
    v2 = v2
    v3 = v3
    VM = {v1, v2, v3}
    NoOwner = NoOwner
    Foreign = Foreign
    NumPfn = 3
    MaxPfn = 2
    Common = {}
SPECIFICATION Spec
SYMMETRY VMSymmetry
INVARIANTS TypeOK PrivateIsExclusive MappedIsUsed TableBounds
PROPERTIES ImplementsIsolation HandoverUnmapped
