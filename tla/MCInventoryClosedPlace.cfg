CONSTANTS
    m1 = m1
    lib = lib
    room = room
    l1 = l1
    r1 = r1
    r2 = r2
    w1 = w1
    w2 = w2
    Materials = {m1}
    Locations = {lib, room}
    Library = lib
    Loans = {l1}
    Requests = {r1, r2}
    Workers = {w1, w2}
    Idle = Idle
    NoLoan = NoLoan
    MaxMove = 1
    MaxFund = 1
    OpeningCopies = 1
    Opening <- MCOpening
SPECIFICATION Spec
SYMMETRY Symmetry
CHECK_DEADLOCK FALSE
INVARIANTS
    StockAtActivePlaces
