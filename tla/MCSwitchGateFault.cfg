\* A page fault handler that faults: two addresses, two levels.
CONSTANTS
    Cpu = {c1}
    Mm = {m1}
    Addr = {a1, a2}
    NoAddr = NoAddr
    NoMm = NoMm
    Fault = {"trap"}
    Depth = 2
SPECIFICATION Spec
INVARIANT HandlesItsOwnFault
