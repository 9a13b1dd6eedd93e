SPECIFICATION Spec
CONSTANTS
    c1 = c1
    c2 = c2
    c3 = c3
    f1 = f1
    f2 = f2
    NoClient = NoClient
    NoValue = NoValue
    Torn = Torn
    Client = {c1, c2, c3}
    FP = {f1, f2}
    FPof <- MCFPof
    Value = {v1, v2}
    MaxEvents = 3
INVARIANTS TypeOK AckMeansToldAll ClientsAgree ClipboardOfActive
SYMMETRY Symmetry
CHECK_DEADLOCK FALSE
