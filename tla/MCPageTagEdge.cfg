\* The edges of the table: frame 1 is common, frame 2 is Num_pfn2 itself, where
\* the KSM handler stops and the KVM handlers do not, frame 3 is beyond it.
CONSTANTS
    VM = {v1, v2}
    v1 = v1
    v2 = v2
    NoOwner = NoOwner
    Foreign = Foreign
    NumPfn = 2
    MaxPfn = 3
    Common = {1}
SPECIFICATION Spec
SYMMETRY VMSymmetry
INVARIANTS PrivateIsExclusive TableBounds
PROPERTIES ImplementsIsolation
