\* Three VMs, so that two finish while the third holds stale flags.
CONSTANTS
    v1 = v1
    v2 = v2
    v3 = v3
    Vcpu = {v1, v2, v3}
    VM = {v1, v2, v3}
    VmOf <- MCVmOf
    p1 = p1
    p2 = p2
    Frame = {p1, p2}
    NoOwner = NoOwner
    NoFrame = NoFrame
SPECIFICATION Spec
CONSTRAINT RepeatsBound
SYMMETRY Symmetry
INVARIANTS TypeOK SharedSettles UsedSettles OwnerSettles
PROPERTY RaceImplementsIsolation
