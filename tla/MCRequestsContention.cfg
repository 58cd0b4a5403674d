CONSTANTS
    o1 = o1
    o2 = o2
    o3 = o3
    m1 = m1
    lib = lib
    l1 = l1
    l2 = l2
    r1 = r1
    r2 = r2
    r3 = r3
    r4 = r4
    w1 = w1
    w2 = w2
    teacher = teacher
    Orders = {o1, o2, o3}
    Materials = {m1}
    Locations = {lib}
    Loans = {l1, l2}
    Requests = {r1, r2, r3, r4}
    Workers = {w1, w2}
    Library = lib
    Teacher = teacher
    AskedOfEach = 2
    TeacherOf <- MCTeacherOf
    Asked <- MCAsked
    MaxAsked = 2
    Limit = 2
    MaxStock = 2
    MaxVersion = 2
    Idle = Idle
    NoLoan = NoLoan
    NoPlace = NoPlace
SPECIFICATION Spec
SYMMETRY Symmetry
CHECK_DEADLOCK FALSE
INVARIANTS
    TypeOK
    BooksBalance
    ReadyMeansWhole
    LoanCarriesOrder
    PromiseOnShelf
    EachCommandOnce
    LimitKept
