SPECIFICATION MCSpec
CONSTANTS
    a = a
    b = b
    c = c
    Name = {a, b, c}
    Source <- MCSource
    Absent = Absent
    Order <- MCOrder
    Mode = {check, auto}
    auto = auto
    check = check
    Marker = Marker
    MaxPending = 1
INVARIANTS
    CleanIsCurrent
    ValidIsCurrent
    DependentsMatch
