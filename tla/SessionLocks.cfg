SPECIFICATION Spec
CONSTANTS
    p1 = p1
    p2 = p2
    t1 = t1
    t2 = t2
    t3 = t3
    t4 = t4
    Procs = {p1, p2}
    Threads = {t1, t2, t3, t4}
    Home <- TwoProcesses
    Sessions = {s1, s2}
    Directories = {d1, d2, d3}
    None = None
SYMMETRY Symmetry
INVARIANTS
    OneOwner
    OwnedStaysInPlace
    RegistriesExact
PROPERTY ImplementsTable
