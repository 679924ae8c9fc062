\* Two CPUs in the gate at once, one handler each.
CONSTANTS
    Cpu = {c1, c2}
    Mm = {m1, m2}
    Addr = {a1}
    NoAddr = NoAddr
    NoMm = NoMm
    Fault = {"trap"}
    Depth = 1
SPECIFICATION Spec
SYMMETRY CpuSymmetry
INVARIANT ReturnsToNormalWorld
