CONSTANTS
    o1 = o1
    m1 = m1
    lib = lib
    room = room
    l1 = l1
    r1 = r1
    r2 = r2
    r3 = r3
    r4 = r4
    r5 = r5
    w1 = w1
    w2 = w2
    teacher = teacher
    Orders = {o1}
    Materials = {m1}
    Locations = {lib, room}
    Loans = {l1}
    Requests = {r1, r2, r3, r4, r5}
    Workers = {w1, w2}
    Library = lib
    Teacher = teacher
    AskedOfEach = 2
    TeacherOf <- MCTeacherOf
    Asked <- MCAsked
    MaxAsked = 2
    Limit = 2
    MaxStock = 1
    MaxVersion = 2
    Idle = Idle
    NoLoan = NoLoan
    NoPlace = NoPlace
SPECIFICATION Spec
SYMMETRY Symmetry
CHECK_DEADLOCK FALSE
INVARIANTS
    PreparedIffHolding
    OutcomeTold
PROPERTIES
    FinalIsFinal
    ImplementsLifecycle
