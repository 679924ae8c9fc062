\* One CPU, two address spaces, three levels: gates nested in gates.
CONSTANTS
    Cpu = {c1}
    Mm = {m1, m2}
    Addr = {a1}
    NoAddr = NoAddr
    NoMm = NoMm
    Fault = {"trap", "user"}
    Depth = 3
SPECIFICATION FairSpec
INVARIANTS TypeOK OwnPageTable InterruptsKept BodyMasked
PROPERTY HandlersReturn
