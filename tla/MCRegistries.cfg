CONSTANTS
    h1 = h1
    h2 = h2
    f1 = f1
    f2 = f2
    s1 = s1
    s2 = s2
    hand = hand
    one = one
    other = other
    teacher = teacher
    pupil = pupil
    depot = depot
    side = side
    Null = Null
    Hands = {h1, h2}
    Firsts = {f1, f2}
    Seconds = {s1, s2}
    Focus = {"curators", "rollover", "parts", "pair", "desk", "lessons", "cabinet", "phone", "covers", "gallery", "applies", "writers", "reader", "friends", "imports", "cards", "proposals", "orders", "purchases", "workbook", "planning", "signing", "shelving", "lenders", "retiring", "arrivals", "refresh", "fresh", "titles"}
    Teachers = {teacher}
    Asks = {one}
    Clerks = {hand}
    Resting = Null
    Nobody = Null
    NoClass = Null
    MaxYears = 1
    MaxClasses = 2
    MaxCohorts = 2
    MaxVersion = 2
    Pupils = {pupil}
    Depot = depot
    Rooms = {side}
    Statements = {one}
    Items = {other}
    Legacy = {}
    Porters = {h1, h2}
    Free = Null
    NoLoan = Null
    NoPupils = Null
    NoLine = Null
    Copies = 2
    MaxMove = 1
    MaxLoanVersion = 3
    MaxRowVersion = 2
    Hosts = {teacher}
    Guests = {}
    Visits = {f1, f2}
    Closures = {other}
    Forms = {}
    Callers = {h1, h2}
    Away = Null
    Unclaimed = Null
    NoHost = Null
    NoForm = Null
    MaxSegment = 2
    DayLength = 1
    MaxBookings = 1
    MaxVisitVersion = 2
    Staff = {teacher}
    Phones = {other}
    Invites = {one}
    Launches = {f1, f2}
    Doors = {h1, h2}
    Quiet = Null
    NoPhone = Null
    NoInvite = Null
    NoLaunch = Null
    Anyone = Null
    Images = {1, 2}
    Changes = {1, 2}
    PictureOf <- Twins
    Uploaders = {h1, h2}
    Off = Null
    NoImage = Null
    NoChange = Null
    Drafts = {one}
    KindOf <- Closing
    Applies = {1, 2}
    Tabs = {h1, h2}
    Asleep = Null
    NoEntry = Null
    NoApply = Null
    MaxRevision = 6
    Readers = {pupil}
    Chats = {side}
    Passes = {s1, s2}
    AppStarts = {other}
    Gates = {h1, h2}
    Shut = Null
    NoChat = Null
    NoReader = Null
    NoStart = Null
    KeptSessions = 1
    MaxEntry = 2
    MaxGrant = 2
    MaxCard = 3
    Books = {pupil}
    Imported = {pupil}
    Lendings = {other}
    OldLendings = {}
    Shelves = {depot}
    MainShelf = depot
    Members = {teacher}
    Wishes = {}
    Desks = {h1, h2}
    SourceLoans = {}
    Runs = {}
    Rested = Null
    Nowhere = Null
    NoBook = Null
    NoMember = Null
    NoLending = Null
    NoWish = Null
    NoSource = Null
    NoCall = Null
    MaxCopyVersion = 4
    MaxLendingVersion = 2
    MaxCardVersion = 1
    MaxEditionVersion = 2
    ImportRuns = {f1, f2}
    Importers = {h1, h2}
    Staging = TRUE
    Calm = Null
    NoImport = Null
    Isbns = {pupil}
    Adds = {f1, f2}
    Urls = {side}
    Editors = {h1, h2}
    Aside = Null
    NoIsbn = Null
    NoAdd = Null
    MaxNumber = 2
    MaxRecordVersion = 2
    Proposals = {one, other}
    ShapeOf <- Shapes
    Own = {one, other}
    Workbook = {}
    Underway = {}
    Works = {}
    Adoptable = {}
    Lines = {}
    Buyers = {h1, h2}
    Sought = 1
    ProposalLimit = 1
    Browsing = Null
    NoWork = Null
    NoReceipt = Null
    MaxDeal = 2
    Groups = {pupil}
    Resources = {one}
    Literary = {one}
    Planners = {hand}
    Unhurried = Null
    MaxPlan = 6
    MaxSession = 3
    SessionLimit = 2
    MaxAccess = 3
    CodeTime = 2
    LastMoment = 1
SPECIFICATION MCSpec
SYMMETRY Symmetry
CHECK_DEADLOCK FALSE
INVARIANTS
    TypesOK
    ClassLoansSound
    SchoolSound
    VisitsKept
    AccessKept
    FilesKept
    DraftsKept
    TitlesSound
PROPERTIES
    ClosedFrozen
    PastKept
