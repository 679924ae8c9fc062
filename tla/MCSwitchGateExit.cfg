\* The exit gate of one CPU, one handler at a time.
CONSTANTS
    Cpu = {c1}
    Mm = {m1, m2}
    Addr = {a1}
    NoAddr = NoAddr
    NoMm = NoMm
    Fault = {"trap"}
    Depth = 1
SPECIFICATION Spec
INVARIANT MaskedInside
