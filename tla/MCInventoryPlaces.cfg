CONSTANTS
    m1 = m1
    lib = lib
    room = room
    l1 = l1
    r1 = r1
    r2 = r2
    w1 = w1
    w2 = w2
    Materials = {m1}
    Locations = {lib, room}
    Library = lib
    Loans = {l1}
    Requests = {r1, r2}
    Workers = {w1, w2}
    Idle = Idle
    NoLoan = NoLoan
    MaxMove = 2
    MaxFund = 2
    OpeningCopies = 2
    Opening <- MCOpening
SPECIFICATION Spec
SYMMETRY Symmetry
INVARIANTS
    PlansAccurate
    TypeOK
    ReservedOnShelf
    LedgerBalances
    StockTotalsFresh
    CopiesConserved
    ArchivedHasNothing
    LoansBalance
    EachRequestOnce
PROPERTIES
    OnlyReturnsReachClosedPlaces
    ClosedLoansFrozen
