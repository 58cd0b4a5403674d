----------------------------- MODULE MCRegistries -----------------------------
(***************************************************************************)
(* Instances of the registries for TLC.  The components here share no      *)
(* state at the level they are modelled, so each behaviour runs one of     *)
(* them, the one focus names, and the others stay Null: one search visits  *)
(* the states of each instance, and never their product.                   *)
(***************************************************************************)
EXTENDS SchoolYear, ClassLoans, VisitSchedule, TeacherAccess, CoverStore, DraftApply,
        ReaderAccess, HostedImport, Catalogue, Acquisition, ProcurementPlan, SourceRefresh, TLC

CONSTANTS
    Focus,              \* the instances this run visits
    Null,               \* every model value for "none"
    Hands,              \* handlers that run at once
    Firsts, Seconds,    \* two ids each
    hand, one, other, teacher, pupil, depot, side

VARIABLES
    focus,
    material, location, holding, reserved, loan, ledger, totals, command, handler,
    fund, effects       \* of Inventory

titleVars ==
    <<material, location, holding, reserved, loan, ledger, totals, command, handler, fund, effects>>
shelfVars ==
    <<edition, book, lending, standing, tally, usable, member, wish, desk, mark, source, run>>
NoRefresh == mark = Null /\ source = Null /\ run = Null
Twins == <<1, 1>>
Pictures == <<1, 1, 2>>
Closing == one :> "close"
Shapes == one :> "literature" @@ other :> "manual"

(* two handlers, a teacher, two years of one cohort *)
Rollover == INSTANCE SchoolYear WITH
    Clerks <- Hands, MaxYears <- 2, MaxClasses <- 1, MaxCohorts <- 1
(* two statements for one class, a line of theirs and one from before the lines, two handlers *)
Pair == INSTANCE ClassLoans WITH
    Statements <- Firsts, Items <- {one, other}, Legacy <- {one}, MaxRowVersion <- 1
(* days of two lessons, a teacher, a guest and a class that is closed and opened *)
Lessons == INSTANCE VisitSchedule WITH
    Guests <- {other}, Visits <- {one}, Closures <- {}, Forms <- {pupil},
    Callers <- {hand}, MaxSegment <- 3, DayLength <- 2
(* two teachers who share a phone, codes that run out *)
Shared == INSTANCE TeacherAccess WITH
    Staff <- Firsts, Launches <- {one}, Doors <- {hand},
    MaxSession <- 2, SessionLimit <- 1, MaxAccess <- 2, CodeTime <- 1
(* two requests with different pictures, two handlers *)
Gallery == INSTANCE CoverStore WITH
    Changes <- {1, 2}, PictureOf <- [c \in {1, 2} |-> c]
(* two drafts of one class *)
Writers == INSTANCE DraftApply WITH
    Drafts <- {one, other}, Tabs <- {hand}, MaxRevision <- 3,
    KindOf <- [d \in {one, other} |-> IF d = one THEN "update" ELSE "close"]
(* two readers who share a chat, three sessions, two handlers *)
Friends == INSTANCE ReaderAccess WITH
    Readers <- Firsts, AppStarts <- {one}, MaxEntry <- 3, MaxCard <- 2
(* one proposal from the sending to the receipt of its copies *)
Orders == INSTANCE Acquisition WITH
    Proposals <- {one}, ShapeOf <- (one :> "catalog"), Own <- {one}, Works <- {pupil, depot},
    Adoptable <- {pupil}, Lines <- {side}, Buyers <- {hand}, Sought <- 2, MaxDeal <- 5
(* two proposals that were ordered, one line, two handlers *)
Purchases == INSTANCE Acquisition WITH
    Proposals <- Firsts, ShapeOf <- [r \in Firsts |-> "catalog"], Own <- {}, Underway <- Firsts,
    Works <- {pupil}, Lines <- {side}, Sought <- 2, MaxDeal <- 4
(* a workbook imported by two handlers *)
Workbooks == INSTANCE Acquisition WITH
    Own <- {}, Workbook <- {one, other}
(* a class, two handlers *)
SigningTwice == INSTANCE ProcurementPlan WITH
    Resources <- {}, Literary <- {}, Planners <- Hands, MaxPlan <- 4
(* two copies on two shelves, two handlers *)
Shelving == INSTANCE BookCopies WITH
    Books <- {one, other}, Imported <- {one}, Shelves <- {depot, side},
    MaxCopyVersion <- 3
(* two readers and one copy, which one of them asked for *)
Lenders == INSTANCE BookCopies WITH
    Members <- Firsts, Lendings <- Seconds, Wishes <- {one}
(* an edition and a reader that are archived and restored, two handlers *)
Retiring == INSTANCE BookCopies WITH
    MaxCardVersion <- 3, MaxEditionVersion <- 4
(* two copies that arrive, one of them lent or reserved *)
Arrivals == INSTANCE BookCopies WITH
    Books <- Firsts, Imported <- Firsts, Lendings <- {other, one}, OldLendings <- {one},
    MaxCopyVersion <- 3
(* a loan that arrived and is refreshed, two calls *)
Refresh == INSTANCE SourceRefresh WITH
    OldLendings <- Lendings, Desks <- {hand}, Runs <- Hands, SourceLoans <- {one},
    MaxCopyVersion <- 5
(* a loan of the source that is new here, two calls *)
Fresh == INSTANCE SourceRefresh WITH
    Lendings <- Seconds, Desks <- {hand}, Runs <- Hands, SourceLoans <- {one}, MaxCopyVersion <- 5
(* two titles at one place, one of each, two handlers *)
Titles == INSTANCE Inventory WITH
    Materials <- Firsts, Locations <- {depot}, Library <- depot, Loans <- {one},
    Requests <- Seconds, Workers <- Hands, Idle <- Null, MaxMove <- 1, MaxFund <- 1,
    Opening <- [Firsts \X {depot} -> {0, 1}]

(* What the instances above take for granted of the constants here. *)
ASSUME MCValues ==
    /\ {Nobody, NoLoan, NoLine, NoHost, NoForm, Unclaimed, Anyone, NoLaunch, NoReader,
        NoStart, NoChange, NoAdd} = {Null}
    /\ Null \notin Firsts \cup Seconds \cup {one, other, pupil, 1, 2}
    /\ one # other /\ other \notin Hosts /\ {1, 2} \subseteq Images
ASSUME MCSizes ==
    /\ IsFiniteSet(Firsts) /\ IsFiniteSet(Seconds) /\ Cardinality(Seconds) <= Copies /\ Copies > 0
ASSUME MCWriters == NoEntry \notin Writers!EntryType /\ Asleep \notin Writers!TabType

SchoolOff ==
    /\ year = Null
    /\ cohort = Null
    /\ classYear = Null
    /\ card = Null
    /\ ask = Null
    /\ owing = Null
    /\ clerk = Null
LoansOff ==
    /\ pupils = Null
    /\ room = Null
    /\ shelf = Null
    /\ promised = Null
    /\ statement = Null
    /\ item = Null
    /\ porter = Null
    /\ shelfLines = Null
    /\ itemLines = Null
VisitsOff ==
    /\ now = Null
    /\ taught = Null
    /\ cardOpen = Null
    /\ signed = Null
    /\ visit = Null
    /\ claim = Null
    /\ caller = Null
AccessOff ==
    /\ onStaff = Null
    /\ cred = Null
    /\ link = Null
    /\ invite = Null
    /\ session = Null
    /\ used = Null
    /\ door = Null
    /\ moment = Null
CoversOff ==
    /\ title = Null
    /\ cover = Null
    /\ object = Null
    /\ change = Null
    /\ uploader = Null
DraftsOff ==
    /\ draft = Null
    /\ sheet = Null
    /\ journal = Null
    /\ tab = Null
    /\ past = Null
ReadersOff ==
    /\ person = Null
    /\ secret = Null
    /\ grant = Null
    /\ pass = Null
    /\ chat = Null
    /\ entry = Null
    /\ seen = Null
    /\ gate = Null
ImportsOff ==
    /\ active = Null
    /\ attempt = Null
    /\ stored = Null
    /\ loaded = Null
    /\ importer = Null
    /\ minted = Null
    /\ stray = Null
CardsOff ==
    /\ record = Null
    /\ added = Null
    /\ editor = Null
DealsOff ==
    /\ proposal = Null
    /\ receipt = Null
    /\ timely = Null
    /\ spent = Null
    /\ adopted = Null
    /\ buyer = Null
PlansOff ==
    /\ plan = Null
    /\ intake = Null
    /\ listed = Null
    /\ demand = Null
    /\ literature = Null
    /\ snapshots = Null
    /\ planner = Null
CopiesOff ==
    /\ edition = Null
    /\ book = Null
    /\ lending = Null
    /\ standing = Null
    /\ tally = Null
    /\ usable = Null
    /\ member = Null
    /\ wish = Null
    /\ desk = Null
    /\ mark = Null
    /\ source = Null
    /\ run = Null
StockOff ==
    /\ material = Null
    /\ location = Null
    /\ holding = Null
    /\ reserved = Null
    /\ loan = Null
    /\ ledger = Null
    /\ totals = Null
    /\ command = Null
    /\ handler = Null
    /\ fund = Null
    /\ effects = Null

SchoolStarts ==
    \/ focus = "curators" /\ SchoolInit
    \/ focus = "rollover" /\ Rollover!SchoolInit
LoansStarts ==
    \/ focus = "parts" /\ LoansInit
    \/ focus = "pair" /\ Pair!LoansInit
VisitsStarts ==
    \/ focus = "desk" /\ VisitsInit
    \/ focus = "lessons" /\ Lessons!VisitsInit
AccessStarts ==
    \/ focus = "cabinet" /\ AccessInit
    \/ focus = "phone" /\ Shared!AccessInit
CoversStarts ==
    \/ focus = "covers" /\ CoverInit
    \/ focus = "gallery" /\ Gallery!CoverInit
DraftsStarts ==
    \/ focus = "applies" /\ DraftInit
    \/ focus = "writers" /\ Writers!DraftInit
ReadersStarts ==
    \/ focus = "reader" /\ ReaderInit
    \/ focus = "friends" /\ Friends!ReaderInit
ImportsStarts ==
    \/ focus = "imports" /\ ImportInit
CardsStarts ==
    \/ focus = "cards" /\ CatalogueInit
DealsStarts ==
    \/ focus = "proposals" /\ AcquisitionInit
    \/ focus = "orders" /\ Orders!AcquisitionInit
    \/ focus = "purchases" /\ Purchases!AcquisitionInit
    \/ focus = "workbook" /\ Workbooks!AcquisitionInit
PlansStarts ==
    \/ focus = "planning" /\ PlanInit
    \/ focus = "signing" /\ SigningTwice!PlanInit
CopiesStarts ==
    \/ focus = "shelving" /\ Shelving!CopiesInit /\ NoRefresh
    \/ focus = "lenders" /\ Lenders!CopiesInit /\ NoRefresh
    \/ focus = "retiring" /\ Retiring!CopiesInit /\ NoRefresh
    \/ focus = "arrivals" /\ Arrivals!CopiesInit /\ NoRefresh
    \/ focus = "refresh" /\ Refresh!RefreshInit
    \/ focus = "fresh" /\ Fresh!RefreshInit
StockStarts ==
    \/ focus = "titles" /\ Titles!Init

MCInit ==
    /\ focus \in Focus
    /\ IF focus \in {"curators", "rollover"} THEN SchoolStarts ELSE SchoolOff
    /\ IF focus \in {"parts", "pair"} THEN LoansStarts ELSE LoansOff
    /\ IF focus \in {"desk", "lessons"} THEN VisitsStarts ELSE VisitsOff
    /\ IF focus \in {"cabinet", "phone"} THEN AccessStarts ELSE AccessOff
    /\ IF focus \in {"covers", "gallery"} THEN CoversStarts ELSE CoversOff
    /\ IF focus \in {"applies", "writers"} THEN DraftsStarts ELSE DraftsOff
    /\ IF focus \in {"reader", "friends"} THEN ReadersStarts ELSE ReadersOff
    /\ IF focus \in {"imports"} THEN ImportsStarts ELSE ImportsOff
    /\ IF focus \in {"cards"} THEN CardsStarts ELSE CardsOff
    /\ IF focus \in {"proposals", "orders", "purchases", "workbook"} THEN DealsStarts ELSE DealsOff
    /\ IF focus \in {"planning", "signing"} THEN PlansStarts ELSE PlansOff
    /\ IF focus \in {"shelving", "lenders", "retiring", "arrivals", "refresh", "fresh"} THEN CopiesStarts ELSE CopiesOff
    /\ IF focus \in {"titles"} THEN StockStarts ELSE StockOff

SchoolStep ==
    /\ \/ focus = "curators" /\ SchoolNext
       \/ focus = "rollover" /\ Rollover!SchoolNext
    /\ UNCHANGED <<focus, loanVars, visitVars, accessVars, coverVars, applyVars, readerVars,
                   importVars, catalogueVars, acquisitionVars, planVars, shelfVars, titleVars>>
LoansStep ==
    /\ \/ focus = "parts" /\ LoansNext
       \/ focus = "pair" /\ Pair!LoansNext
    /\ UNCHANGED <<focus, schoolVars, visitVars, accessVars, coverVars, applyVars, readerVars,
                   importVars, catalogueVars, acquisitionVars, planVars, shelfVars, titleVars>>
VisitsStep ==
    /\ \/ focus = "desk" /\ VisitsNext
       \/ focus = "lessons" /\ Lessons!VisitsNext
    /\ UNCHANGED <<focus, schoolVars, loanVars, accessVars, coverVars, applyVars, readerVars,
                   importVars, catalogueVars, acquisitionVars, planVars, shelfVars, titleVars>>
AccessStep ==
    /\ \/ focus = "cabinet" /\ AccessNext
       \/ focus = "phone" /\ Shared!AccessNext
    /\ UNCHANGED <<focus, schoolVars, loanVars, visitVars, coverVars, applyVars, readerVars,
                   importVars, catalogueVars, acquisitionVars, planVars, shelfVars, titleVars>>
CoversStep ==
    /\ \/ focus = "covers" /\ CoverNext
       \/ focus = "gallery" /\ Gallery!CoverNext
    /\ UNCHANGED <<focus, schoolVars, loanVars, visitVars, accessVars, applyVars, readerVars,
                   importVars, catalogueVars, acquisitionVars, planVars, shelfVars, titleVars>>
DraftsStep ==
    /\ \/ focus = "applies" /\ DraftNext
       \/ focus = "writers" /\ Writers!DraftNext
    /\ UNCHANGED <<focus, schoolVars, loanVars, visitVars, accessVars, coverVars, readerVars,
                   importVars, catalogueVars, acquisitionVars, planVars, shelfVars, titleVars>>
ReadersStep ==
    /\ \/ focus = "reader" /\ ReaderNext
       \/ focus = "friends" /\ Friends!ReaderNext
    /\ UNCHANGED <<focus, schoolVars, loanVars, visitVars, accessVars, coverVars, applyVars,
                   importVars, catalogueVars, acquisitionVars, planVars, shelfVars, titleVars>>
ImportsStep ==
    /\ \/ focus = "imports" /\ ImportNext
    /\ UNCHANGED <<focus, schoolVars, loanVars, visitVars, accessVars, coverVars, applyVars,
                   readerVars, catalogueVars, acquisitionVars, planVars, shelfVars, titleVars>>
CardsStep ==
    /\ \/ focus = "cards" /\ CatalogueNext
    /\ UNCHANGED <<focus, schoolVars, loanVars, visitVars, accessVars, coverVars, applyVars,
                   readerVars, importVars, acquisitionVars, planVars, shelfVars, titleVars>>
DealsStep ==
    /\ \/ focus = "proposals" /\ AcquisitionNext
       \/ focus = "orders" /\ Orders!AcquisitionNext
       \/ focus = "purchases" /\ Purchases!AcquisitionNext
       \/ focus = "workbook" /\ Workbooks!AcquisitionNext
    /\ UNCHANGED <<focus, schoolVars, loanVars, visitVars, accessVars, coverVars, applyVars,
                   readerVars, importVars, catalogueVars, planVars, shelfVars, titleVars>>
PlansStep ==
    /\ \/ focus = "planning" /\ PlanNext
       \/ focus = "signing" /\ SigningTwice!PlanNext
    /\ UNCHANGED <<focus, schoolVars, loanVars, visitVars, accessVars, coverVars, applyVars,
                   readerVars, importVars, catalogueVars, acquisitionVars, shelfVars,
                   titleVars>>
CopiesStep ==
    /\ \/ focus = "shelving" /\ Shelving!CopiesNext /\ UNCHANGED refreshVars
       \/ focus = "lenders" /\ Lenders!CopiesNext /\ UNCHANGED refreshVars
       \/ focus = "retiring" /\ Retiring!CopiesNext /\ UNCHANGED refreshVars
       \/ focus = "arrivals" /\ Arrivals!CopiesNext /\ UNCHANGED refreshVars
       \/ focus = "refresh" /\ Refresh!RefreshNext
       \/ focus = "fresh" /\ Fresh!RefreshNext
    /\ UNCHANGED <<focus, schoolVars, loanVars, visitVars, accessVars, coverVars, applyVars,
                   readerVars, importVars, catalogueVars, acquisitionVars, planVars, titleVars>>
StockStep ==
    /\ \/ focus = "titles" /\ Titles!Next
    /\ UNCHANGED <<focus, schoolVars, loanVars, visitVars, accessVars, coverVars, applyVars,
                   readerVars, importVars, catalogueVars, acquisitionVars, planVars, shelfVars>>

MCNext ==
    \/ SchoolStep \/ LoansStep \/ VisitsStep \/ AccessStep \/ CoversStep
    \/ DraftsStep \/ ReadersStep \/ ImportsStep \/ CardsStep \/ DealsStep
    \/ PlansStep \/ CopiesStep \/ StockStep
MCVars == <<focus, schoolVars, loanVars, visitVars, accessVars, coverVars, applyVars,
            readerVars, importVars, catalogueVars, acquisitionVars, planVars, shelfVars,
            titleVars>>
MCSpec == MCInit /\ [][MCNext]_MCVars

-----------------------------------------------------------------------------
(* Every row and every plan of a handler has its shape. *)
TypesOK ==
    /\ focus = "curators" => SchoolTypeOK
    /\ focus = "rollover" => Rollover!SchoolTypeOK
    /\ focus = "parts" => LoansTypeOK
    /\ focus = "pair" => Pair!LoansTypeOK
    /\ focus = "desk" => VisitsTypeOK
    /\ focus = "lessons" => Lessons!VisitsTypeOK
    /\ focus = "cabinet" => AccessTypeOK
    /\ focus = "phone" => Shared!AccessTypeOK
    /\ focus = "covers" => CoverTypeOK
    /\ focus = "gallery" => Gallery!CoverTypeOK
    /\ focus = "applies" => DraftTypeOK
    /\ focus = "writers" => Writers!DraftTypeOK
    /\ focus = "reader" => ReaderTypeOK
    /\ focus = "friends" => Friends!ReaderTypeOK
    /\ focus = "imports" => ImportTypeOK
    /\ focus = "cards" => CatalogueTypeOK
    /\ focus = "proposals" => AcquisitionTypeOK
    /\ focus = "orders" => Orders!AcquisitionTypeOK
    /\ focus = "purchases" => Purchases!AcquisitionTypeOK
    /\ focus = "workbook" => Workbooks!AcquisitionTypeOK
    /\ focus = "planning" => PlanTypeOK
    /\ focus = "signing" => SigningTwice!PlanTypeOK
    /\ focus = "shelving" => Shelving!CopiesTypeOK
    /\ focus = "lenders" => Lenders!CopiesTypeOK
    /\ focus = "retiring" => Retiring!CopiesTypeOK
    /\ focus = "arrivals" => Arrivals!CopiesTypeOK
    /\ focus = "refresh" => Refresh!CopiesTypeOK /\ Refresh!RefreshTypeOK
    /\ focus = "fresh" => Fresh!CopiesTypeOK /\ Fresh!RefreshTypeOK
    /\ focus = "titles" => Titles!TypeOK

(* Copies are neither lost nor made, statements agree with their lines, and a
   closed class owes nothing, whatever handlers overlap (library-mutation-store.ts). *)
ClassLoansSound ==
    /\ focus = "parts" => LoansSound
    /\ focus = "pair" => Pair!LoansSound

(* No batch on a loan moves what a closed class or a closed statement holds
   (library-mutation-store.ts). *)
ClosedFrozen == [][
    /\ (focus = "parts") => FrozenStep
    /\ (focus = "pair") => Pair!FrozenStep]_MCVars

(* Years, classes, cohorts and curators keep to one another
   (academic-admin-store.ts, teacher-curator-request-store.ts), and a signed plan of
   purchases is its last snapshot (procurement-planning-store.ts). *)
SchoolSound ==
    /\ focus = "curators" => SchoolInOrder
    /\ focus = "rollover" => Rollover!SchoolInOrder
    /\ focus = "planning" => ProcurementSound
    /\ focus = "signing" => SigningTwice!ProcurementSound

(* What is over stays as it was (academic-admin-store.ts), and a card that was barred
   stays barred until the librarian opens it (reader-pin-auth.ts, reader-auth.ts);
   a card that literature adopted is not rewritten by the textbooks (library-mutation-store.ts),
   and neither is
   a proposal that was decided (acquisition-store.ts) or a signed plan
   (procurement-planning-store.ts). *)
PastKept == [][
    /\ (focus = "curators") => PastStep
    /\ (focus = "rollover") => Rollover!PastStep
    /\ (focus = "reader") => BarredStep
    /\ (focus = "friends") => Friends!BarredStep
    /\ (focus = "shelving") => Shelving!CirculationStep
    /\ (focus = "lenders") => Lenders!CirculationStep
    /\ (focus = "retiring") => Retiring!CirculationStep
    /\ (focus = "arrivals") => Arrivals!CirculationStep
    /\ (focus = "refresh") => Refresh!CirculationStep
    /\ (focus = "fresh") => Fresh!CirculationStep
    /\ (focus = "cards") => AdoptedStep
    /\ (focus = "proposals") => DecidedStep
    /\ (focus = "orders") => Orders!DecidedStep
    /\ (focus = "purchases") => Purchases!DecidedStep
    /\ (focus = "workbook") => Workbooks!DecidedStep
    /\ (focus = "planning") => SignedStep
    /\ (focus = "signing") => SigningTwice!SignedStep]_MCVars

(* No two visits overlap, nobody has too many to come, and no closed card is
   expected (visit-schedule-store.ts, visit-guest-store.ts). *)
VisitsKept ==
    /\ focus = "desk" => VisitsSound
    /\ focus = "lessons" => Lessons!VisitsSound

(* No session outlives the code, the access or the card it was opened with; what serves
   once serves once, a temporary code of a teacher but for calls that had begun before
   its use (visit-teacher-auth.ts, reader-pin-auth.ts). *)
AccessKept ==
    /\ focus = "cabinet" => AccessSound
    /\ focus = "phone" => Shared!AccessSound
    /\ focus = "reader" => ReadersSound
    /\ focus = "friends" => Friends!ReadersSound

(* Every cover in the bucket has its command, a completed change is one version and a
   failed one could not succeed (library-cover-mutation.ts); the plan of an import is kept
   while its run can go on, and the database has its rows when the run says so
   (d1-import-runtime.ts, and the routes of internal/library-import). *)
FilesKept ==
    /\ focus = "covers" => CoversSound
    /\ focus = "gallery" => Gallery!CoversSound
    /\ focus = "imports" => ImportSound

(* A draft that says applied was written whole, and a request that began to write
   holds its draft (draft-apply-store.ts, apps-script/LibrarianGateway.gs). *)
DraftsKept ==
    /\ focus = "applies" => DraftsSound
    /\ focus = "writers" => Writers!DraftsSound

(* Copies of each title are conserved, an archived title has none anywhere, and
   loans agree with their journal (library-mutation-store.ts); every copy of literature
   is where the counts say, with one reader at most, and a loan of the source is one
   loan here (library-copy-store.ts, literature-source-refresh.ts); cards keep their
   numbers and ISBNs apart (library-mutation-store.ts, library-editor.ts), and what proposals
   received is what the lines of receipts brought (acquisition-store.ts). *)
TitlesSound ==
    /\ focus = "cards" => CatalogueSound
    /\ focus = "proposals" => AcquisitionSound
    /\ focus = "orders" => Orders!AcquisitionSound
    /\ focus = "purchases" => Purchases!AcquisitionSound
    /\ focus = "workbook" => Workbooks!AcquisitionSound
    /\ focus = "shelving" => Shelving!CopiesSound
    /\ focus = "lenders" => Lenders!CopiesSound
    /\ focus = "retiring" => Retiring!CopiesSound
    /\ focus = "arrivals" => Arrivals!CopiesSound
    /\ focus = "refresh" => Refresh!RefreshSound
    /\ focus = "fresh" => Fresh!RefreshSound
    /\ focus = "titles" => Titles!CopiesConserved /\ Titles!ArchivedHasNothing /\ Titles!LoansBalance

Symmetry == Permutations(Hands) \cup Permutations(Firsts)
=============================================================================
