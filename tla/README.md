# A verification project for the library site

This directory holds TLA+ models of the library site's stores, the TLC
configurations that check them on small instances, and proofs checked by
TLAPS. The site is a Next.js application on Cloudflare Workers. Its state is one
D1 (SQLite) database; every store of `src/lib` is a set of handlers which read
rows over several awaits, decide, and then send **one atomic batch** of
statements whose `WHERE` clauses repeat the versions and quantities that were
read. Librarians, teachers' browsers, retries after a lost answer and the timer
of the worker run such handlers at the same time, so between a handler's reads
and its batch anything may happen. That is what the models are about.

To run: `tlc -config X.cfg M` for a row of the table of runs, `tlapm M.tla` for
the proofs of `SumTheorems`, `InventoryProofs`, `MaterialRequestsProofs`,
`TelegramOutboxProofs`, `RegistryProofs`, `AccessProofs`, `OutsideProofs` and
`MCRegistriesProofs` (from a minute to about ten each).

- [Components of the system](#components-of-the-system)
- [The modules](#the-modules)
- [Runs](#runs)
- [Fairness](#fairness)
- [Findings](#findings)
- [What is proved](#what-is-proved)
- [What is only model-checked, and what is not modelled](#what-is-only-model-checked-and-what-is-not-modelled)
- [What would come next](#what-would-come-next)

## Components of the system

Interaction is through the database: a component calls another one's statement
builders and puts them into its own batch (orders rebuild stock totals and queue
Telegram messages; visits queue messages), or reads its tables inside a guard
(the registry of places asks holdings and reservations). The only state outside
D1 is the object storage of covers and photos, Telegram, and the previous
storage in Google Sheets.

| component | state it keeps | operations | hard behaviour | correct when |
|---|---|---|---|---|
| **Stock mutations** `library-mutation-store.ts` | `holdings` (copies of a title at a place, version), journal `inventory_transactions/lines`, `material_stock_totals` | receive, count, transfer, write off, archive | absolute quantities written from earlier reads; archive against receipts; reservations guarded by triggers | no lost update (journal adds up), copies conserved, totals fresh, reserved copies stay, an archived title has nothing |
| **Teacher loans** (same file) | `loans`, `loan_items` | issue to a teacher, return in parts | whether a return closes the loan is decided from items read earlier; orders append to the same loan | closed iff settled, nothing returned twice, closed loans frozen |
| **Mutation commands** (same file and each store's copy) | `mutation_commands` | insert, complete, replay | the same request id in two handlers at once; a lost answer | one request, one effect |
| **Teachers' material requests** `teacher-material-request-store.ts` | `material_requests`, items, reservations, their loan | create, cancel, start review, reject, ready, issue, complete, release, hide | two librarians and a teacher on one order; two orders on one shelf; new status computed from earlier reads; a statement that skips rows | item sums match reservation rows, prepared iff copies are held, one loan per order, final is final, limit of live orders |
| **Location registry** `location-registry-store.ts` | `locations` | create, rename, close, reopen, delete | closing while a batch is about to put copies there | nothing stands at a closed place |
| **Class loans** `library-mutation-store.ts`, `class-loan-management-store.ts` | `class_loans` and items, their movements | issue to a class, return, adjust, link a legacy row, edit metadata | two issues that both want to open the class's only open loan; adjustment against return | one open loan per class and year, sums of movements, closed iff settled |
| **Catalogue of titles** `library-mutation-store.ts`, `textbook-catalog-store.ts` | `materials`, e-book links, search index | create (CAT-id = largest + 1, with retries), update by version, literature's own editor, activation of an imported edition | colliding allocations; three editors that write the same cards under different guards | numbers without gaps and one per request, ISBNs apart within a fund, no textbook edit rewrites an adopted card |
| **Telegram outbox** `telegram-outbox.ts`, `telegram-notifications.ts`, `telegram-delivery-runtime.ts` | `telegram_delivery_outbox`, `telegram_connections`, audit of disconnections, link tokens, webhook receipts | queue, drain (recover, select, claim, send, record), mute, disconnect, link, resume, menu refresh | drains at the same time, killed after sending, slower than their lease; rows and retries dated before they are committed; answers that arrive after the recipient left | order per recipient, duplicates only for a cause, silence after opting out, progress |
| **Visit schedule** `visit-schedule-store.ts`, `visit-guest-store.ts` | bookings, closures, hours | book, move, cancel, close a period | overlapping bookings from several browsers, a closure against a booking, a limit counted before the batch | no overlap, no booking inside a closure, limit kept |
| **Teacher access** `visit-teacher-auth.ts`, `visit-guest-auth.ts`, `librarian-telegram-auth.ts` | credentials, sessions, activation invites, rate limits | issue, rotate and import codes, sign in, activate by Telegram, protect a lost phone | activation after rotation or blocking; sessions that outlive their credential; one code used by overlapping calls, each with its own clock | a revoked credential has no live session, a code is used at most as allowed |
| **Reader accounts** `reader-pin-auth.ts`, `reader-auth.ts`, `reader-core.ts`, `reader-teacher-link.ts` | reader credentials, setup grants, invites, sessions, limits | begin sign-in, choose a PIN, redeem an invite, block | two sign-ins with one temporary code; failures counted at once | one open grant, one PIN per code, a barred card stays barred, no session outlives what it was opened with |
| **Reader community** `reader-community.ts`, `reader-messages.ts`, `reader-feed.ts`, `reader-proposals.ts`, `reader-notifications.ts` | threads, members, messages, blocks, digests and their outbox | invite, join, send, block, report, deliver digests | a block against a message being sent; delivery in two steps | nobody reads a thread left behind, one digest per day |
| **Academic years and classes** `academic-admin-store.ts` | years, class years, enrolment | create, edit, close, reopen, roll over | rollover while a class receives a loan or a teacher claims it | one active year, no class closed with open loans |
| **Curator requests, teacher registry** `teacher-curator-request-store.ts`, `teacher-registry-store.ts` | requests of teachers for classes, profiles | submit, cancel, decide; close and restore a profile | two teachers claim one class; a decision against a cancellation; a profile closed with live orders | one curator per class, blockers hold at the batch |
| **Covers** `library-cover-mutation.ts`, `cover-storage.ts`, `cover-cleanup.ts` | cover rows, objects in R2, their commands | replace, resume, clean up | a crash between the object and the batch; cleanup against a retry | every row has its object, no live object is cleaned |
| **Draft actions** `draft-store.ts`, `draft-apply-store.ts` | drafts with revision and status, apply metadata | edit, submit, cancel, approve, repeat, record the gateway's answer | the answer is lost, the script is stopped between two cells, people edit the sheet by hand | applied means written whole, a request that began to write keeps its draft |
| **Hosted import** `d1-import-runtime.ts`, `staging-import-api.ts` | one row per run, the plan in a bucket, a gate with a deadline | upload, preflight, commit, verify, clean up, reset | bucket and database share no transaction; repeats, cleanups and resets overlap | the database holds a plan iff its run says so, the plan of a run that can go on is kept |
| **Copies of literature** `library-copy-store.ts`, `librarika-import-store.ts`, `librarika-member-sync.ts` | one row per copy and per loan or reservation, beside the counts of the stock | activate, register, reserve, issue, return, move, archive; refresh from a newer snapshot of the source | one copy lent to two readers; a refresh in several batches that is stopped between them | counts equal copies, one claim per copy, a loan of the source is one loan here |
| **Acquisition and procurement** `acquisition-store.ts`, `procurement-planning-store.ts` | proposals, links to lines of receipts, plans with classes, books, needs and snapshots | send, decide, order, link a receipt, import; edit, prefill, sign, reopen | one line linked to two proposals; a plan signed from contents read piece by piece | no line counted twice, received within ordered, a signed plan is its last snapshot |
| **Reports and exports** | none (reads) | projections, Excel | – | – |
| **Assistant** `assistant-store.ts`, `assistant-actions.ts` | sessions, drafts of visits, calls | prepare, confirm, expire | a confirmation twice | it acts through the stores above |
| **Google Sheets gateway** | the sheets | a journal row per request, the cells of the class list | the script is killed at any step | the journal says how far the writing came |
| **Pages, routes, timer** `src/app`, `worker/index.ts` | none | HTTP, one tick per minute | – | – |

The list of hazards, each at its line and with the properties that watch it, is
in `PROJECT.json`.

## The modules

    Inventory            stock, teacher loans, commands      <- InventoryProofs, MCInventory,
                                                                MCRegistries
    MaterialRequests     orders, reservations, their loans   <- MaterialRequestsProofs,
      implements OrderLifecycle (what a teacher is told)        MCMaterialRequests
    TelegramOutbox       queue, drains, connections          <- TelegramOutboxProofs,
                                                                MCTelegramOutbox
    SumTheorems          sums over finite sets, least and    used by the modules of proofs except
                         largest numbers                        TelegramOutboxProofs

    SchoolYear           years, classes, curators            <- RegistryProofs
    ClassLoans           textbooks lent to classes           <- RegistryProofs
    VisitSchedule        visits and closures of the library  <- RegistryProofs
    Catalogue            cards and their three editors       <- RegistryProofs
    ProcurementPlan      the yearly plan and its signing     <- RegistryProofs
    Acquisition          proposals to buy, receipts          <- RegistryProofs
    TeacherAccess        codes, PINs, Telegram, sessions     <- AccessProofs
    ReaderAccess         the same for readers                <- AccessProofs
    CoverStore           covers: bucket and database         <- OutsideProofs
    DraftApply           drafts applied to the spreadsheet   <- OutsideProofs
    HostedImport         the one import of the library       <- OutsideProofs
    BookCopies           copies of literature, circulation   <- OutsideProofs
      SourceRefresh      extends it: loans refreshed         <- OutsideProofs
                         from the source

    MCRegistries         one run over these and the stock    <- MCRegistriesProofs

Common conventions. A handler is a **plan** (its reads and its refusals) and a
**commit** (its batch); `handler[w]` holds what worker `w` has read. A batch
whose guards fail leaves no trace, so the answer 409 and the death of the worker
are the same action `Drop`. Retries need no action of their own: any worker may
start any request id whose command is not completed, also one that another
worker is carrying out. Several reads of one handler are one step when
everything they return is compared again by the batch; where something is used
without being compared again (the items of a loan, the place of return), the
reads stay apart or the guard is left to the plan alone. Definitions marked
`mutant` are never used by the specifications: each is a plausible mistake in
one named definition, and `PROJECT.json` says which property notices it.

### Inventory

`holding` is `holdings`, `reserved` the active reservations of a shelf, `ledger`
the sum of the journal's lines, `totals` the row of `material_stock_totals`,
`loan` a teacher loan with its items, `command` the command table. `fund` and
`effects` are history: what receipts, counts and write-offs account for, and how
many batches a request id has committed.

| code | actions |
|---|---|
| `receiveStockDirect` | `PlanReceive`, `CommitReceive` |
| `adjustHoldingToActualCount` | `PlanCount`, `CommitCount` |
| `transferStockDirect` | `PlanTransfer`, `CommitTransfer` |
| `writeOffStockDirect` | `PlanWriteOff`, `CommitWriteOff` |
| `issueLoanToTeacher` | `PlanIssue`, `CommitIssue` |
| `returnLoanItems` | `ReadLoan` (the loan row), `PlanReturn` (its items and shelves), `CommitReturn` |
| `archiveMaterialDirect` | `PlanArchive`, `CommitArchive` |
| a refused batch, a killed worker | `Drop` |
| `readyMaterialRequest`, `releaseMaterialRequest`, `issueMaterialRequest` as the stock sees them | `Reserve`, `Release`, `IssueReserved` |
| `updateManagedLocation` | `CloseLocation`, `ReopenLocation` |

The triggers of `drizzle/0010` are the guard `ReservationGuard` of every batch
that lowers a shelf; `requireChanged` is the conjunction of the batch's guards.
The third key column of `holdings`, the condition of the copies, is dropped (no
handler compares it), and the rows of one title in one loan are added up.

### MaterialRequests and OrderLifecycle

One order with its items, its reservation rows added up by shelf, and the loan
it opens. Handlers `create`, `cancel`, `start_review`, `reject`, `ready`,
`issue`, `release` are planned and committed like above (`CommitTransition` is
the shared `transitionMaterialRequest`). `ChangeShelf`, `Return`,
`CloseLocation`, `ReopenLocation` are what the other stores may do in between,
under the guards `Inventory` gives them.

`OrderLifecycle` is the abstract specification: copies promised and handed over
per title and a stage none, open, prepared, served or refused. The mapping sums
reservation rows by title (`promised` = approved, `handed` = fulfilled) and
folds the eight statuses into the stages. That the store implements it is a
property of the run `requests_one_order`.

### TelegramOutbox

`row` is the outbox, `conn` the connection (with `left` for the audit event of
an explicit disconnection), `profile` the teacher's card, `drain[w]` what one
drain has read: its `now`, the list of rows it selected with the version of the
connection, the row it is sending and the answer. The rest is history: `copies`
(what Telegram has shown), `lapses` (leases taken back), `unheard` (deliveries
whose confirmation was lost), `rereads` (claims by a drain that had read the row
before another drain tried it), and of each drain the rows that were queued when it
read (`known`).

| code | actions |
|---|---|
| `queueTelegram...Statement` | `Enqueue` |
| `drainTelegramOutbox`: its `now`, recovery, selection, loop | `Start`, `Recover`, `Select`, `Claim`, `Skip`, `ClaimRefused` |
| `telegramSendMessage`, `telegramApiRequest` | `Send`, with the outcomes delivered, delivered and unheard, failed, 429, 400, 403 |
| the batches after the answer | `RecordSent`, `RecordFailure` |
| the clock that `new Date()` reads | `Tick` |
| end of the worker at any await | `Killed` |
| `updateTelegramPreferences` and the bot's buttons | `Mute`, `Unmute` |
| `disconnectTelegram`, the link, `/start` | `Disconnect`, `Relink`, `Resume` |
| `closeTeacher`, `restoreTeacher` | `CloseProfile`, `RestoreProfile` |

Every comparison of instants in the code is one of the model, with the instants
the code uses, which are seldom the present one:

- A row gets the `createdAt` its handler took before its reads, and is committed
  later: `Enqueue` dates it with any instant up to `clock`. Rows thus become visible
  out of the order of `next_attempt_at`, and one may be committed ahead of a message
  that is being sent.
- A drain takes `now` once, in `Start`; the recovery of leases and the reading of the
  queue are statements of their own later on (`Recover`, `Select`).
- A lease counts 45 s from that start, though the ten messages of a drain may each wait
  6 s, so it may lapse while its holder is at work.
- A retry is dated from the same start (`RecordFailure`), with the number of attempts
  the drain had *read*. For a drain that started later and still has the row in its list the
  retry is due at once: it claims the row again, and counts from its own old read.

So the code does not promise that one message of a recipient is in flight, nor that
a message committed late is waited for, nor that attempts stay below the maximum, and the
model shows all three. `InQueueOrder` and `AttemptsExplained` say what is left: a message
nobody has tried is overtaken only by one of a drain that read the queue before it
was there, and each attempt beyond the maximum has a lapsed lease or such an old read
behind it.

`LastInstant` ends the clock and stands for all instants from there on: for a drain that
starts then, every instant has passed (`Passed`), those beyond the bound
included. Every caller of the queue puts a fresh request id or version into the
dedupe key, so the `ON CONFLICT` branch is left out.

### The registries

These thirteen modules model the other stores, each in the same form: a plan and
a commit for a handler that reads before its batch, a single step for one whose
batch repeats everything it read. What each asks is the conjunction that its
comment explains, part by part.

| module | state | what must hold |
|---|---|---|
| `SchoolYear` `academic-admin-store.ts`, `teacher-curator-request-store.ts`, cards of `teacher-registry-store.ts` | years, cohorts, classes, cards, curator requests | `SchoolInOrder`: one running year, open classes in it and in an active cohort, closed classes owe nothing, one pending request per teacher. `PastStep`: closed years, graduated cohorts and decided requests stay |
| `ClassLoans` `library-mutation-store.ts` | a shelf per place, statements, their items and lines | `LoansSound`: copies conserved across partial returns and corrections, one open statement per class, closed iff everything came back. `FrozenStep`: what a closed class had stays |
| `VisitSchedule` `visit-schedule-store.ts`, `visit-guest-store.ts` | the clock, bookings and closures, `visit_slot_claims` | `VisitsSound`: everyone holds exactly the segments of the booking, the limit of visits to come, a closed card is expected by nobody |
| `TeacherAccess` `visit-teacher-auth.ts` | credentials, links to phones, invites, sessions | `AccessSound`: a live session has today's code and version, a launch opens one session, and a temporary code a second one only for a call that began before every call it let in |
| `ReaderAccess` `reader-pin-auth.ts`, `reader-auth.ts` | cards, credentials, grants, passes, chats, sessions, launches | `ReadersSound` (as above, one PIN per code, one open grant, few sessions) and `BarredStep`: only the librarian opens a barred card |
| `CoverStore` `library-cover-mutation.ts` | objects of the bucket, the cover row, durable plans of changes | `CoversSound`: every object has its command, a completed change is one version, a failed one could not succeed |
| `DraftApply` `draft-apply-store.ts`, `apps-script/*` | drafts, the sheet, the journal, requests under way | `DraftsSound`: applied means written whole, a request that began to write keeps its draft, the cohort closes last |
| `HostedImport` `d1-import-runtime.ts`, `internal/library-import` | gate, the row of the run, stored objects, loaded tables | `ImportSound`: rows iff the run says so, the plan of a live run is kept, any other object is owed by a call or left by one that died |
| `Catalogue` `library-mutation-store.ts`, `library-editor.ts` | cards with ISBN, fund, links | `CatalogueSound`: ISBNs apart, numbers in turn, a call that retries was beaten each time. `AdoptedStep` |
| `BookCopies` `library-copy-store.ts`, `literature-admin.ts`, triggers of `drizzle/0047` | one row per copy, per loan, per wish, and the counts | `CopiesSound`: counts equal copies, a copy is lent once, a wish is met by one loan. `CirculationStep`: what ended stays ended |
| `SourceRefresh` `literature-source-refresh.ts` | what each loan carries of the source, the receipts of a request's child commands | `RefreshSound`: one loan here per loan there, and a request that was stopped between two batches can go on |
| `Acquisition` `acquisition-store.ts` | proposals, lines of receipts, how much of a line each was given | `AcquisitionSound`: no line given twice, received adds up and stays within ordered. `DecidedStep` |
| `ProcurementPlan` `procurement-planning-store.ts`, triggers of `drizzle/0029` | plan, classes, books, needs, snapshots, a signing under way | `ProcurementSound`: a signed plan is its last snapshot although it was read piece by piece. `SignedStep` |

Points where a module stays closer to the code than to what one might expect:

- `VisitSchedule`: handlers keep the clock of their reading; the limit is counted
  before the batch and again inside it. A call lasts less than five minutes, so a
  batch that compares with the clock of its reading is at most one segment late
  (`Clocked`). Without that TLC finds, with four segments, a visit already past that
  is moved into the future beyond the limit.
- `TeacherAccess`: the use of a temporary code is no flag. The batch of a sign-in
  sets `code_expires_at` to the start of its own call, and every call compares that
  with its own start (`CodeStillOpen`), so one that began earlier and commits later
  passes. Plans carry that start (`since`), which is any instant up to the reading,
  and sessions have it as `created`; the oldest of them makes room. `OpenedOnce`
  says what is left of "one code, one session": a further session belongs to a call
  that had begun before every call that the code let in. For readers the batch
  clears the code (`reader-pin-auth.ts:152`), so there it is used once.
- `CoverStore`, `HostedImport`, `DraftApply`: two stores without a common
  transaction, one await per step, with crashes and errors between any two.
- `DraftApply`: `WritingHolds` is stated for requests whose calls do not overlap;
  a refusal before the journal row is remembered nowhere, so it fails without
  that (a hazard in `PROJECT.json`; `apps-script/README.md:31` says otherwise).
- `ReaderAccess`: disconnecting a reader's Telegram lifts a block, and a
  temporary code or grant survives blocking and unblocking.
- `BookCopies`: withdrawing a reserved copy leaves its reservation open;
  archiving and restoring an edition that was never activated publishes it
  without a card, and it can then never be activated.
- `Catalogue`: a textbook may share its ISBN with a book of literature
  (`tests/literature-admin.test.mjs:88`), but editing such a textbook is then
  refused for good, because the guard at `library-mutation-store.ts:912` compares
  all active cards even if the ISBN did not change; activation onto an existing
  textbook's card can leave two books of literature with one ISBN.
- `Acquisition`: the limit of proposals is counted before the batch only and may
  be exceeded by calls that overlap (`NothingMissed` says by how many), and rows of an
  imported workbook are not stopped by it at all; a partly
  received proposal ends by full receipt only; once a title is literature the
  librarian can decide nothing about its proposals, not even reject them; an
  order is dated when its call began, so a line posted meanwhile may serve it.
- `ProcurementPlan`: two signings of one version within one millisecond may leave
  a second, identical snapshot though the second caller is told of a conflict;
  open loans are asked about only while reading; prefilling inserts class by
  class and may be cut short by a signing.
- `HostedImport`: a reset leaves the object of the run behind (`stray`).

### MCRegistries

The registries share no state at the level at which they are modelled, so one run
checks them all: `focus`, chosen initially and never changed, names one of 29
instances, the variables of the others stay `Null`. The search visits the states
of each instance and never their product; each invariant is an implication per
focus. `MCRegistries` extends the modules for one instance and uses
`INSTANCE ... WITH` other constants for the rest: a focus exists for each case that the
bounds of another would not let happen (two years of a cohort, two readers who
share a chat, a picture shared by two changes). Where a store's safety is proved for all
constants, its instances stay as few as the mutants need; the stores that are only
checked have more of them. Of `Inventory` it has an instance with two titles at
one place, where the titles of one loan meet.

## Runs

| run | instance | distinct states | checks |
|---|---|---|---|
| `inventory_places` | 1 title, 2 places, 1 loan, 2 requests, 2 handlers, 2 copies | 84 528 | all invariants of Inventory, `ClosedLoansFrozen`, `OnlyReturnsReachClosedPlaces` |
| `inventory_closed_place` | 1 title, 2 places | violation | `StockAtActivePlaces` |
| `requests_contention` | 3 orders of a teacher who may have 2, 1 shelf of 2 copies, 4 requests, 2 handlers | 21 454 | sums, statuses, loans, promises, retries, the limit |
| `requests_one_order` | 1 order, 2 places, 5 requests, 2 handlers | 59 490 | `PreparedIffHolding`, `OutcomeTold`, `FinalIsFinal`, refinement of `OrderLifecycle` |
| `outbox_delivery` | 2 messages of 1 recipient, 2 drains, 1 fault, 2 attempts, 2 instants | 7.2 million | `InQueueOrder`, `DuplicatesExplained`, `AttemptsExplained` |
| `outbox_opt_out` | the same with up to 3 changes of the connection, 1 attempt | 3.4 million | `TypeOK`, `SilentAfterOptOut`, `SettledIsFinal` |
| `outbox_liveness` | the same with the profile closed and restored | 570 140 | `QueueMoves` |
| `outbox_blocked` | one drain, the profile closed, 3 instants | violation | `DeliverableMoves` |
| `outbox_start` | 3 versions of the connection, 3 instants | violation | `DisconnectRespected` |
| `registries` | 29 small instances, see below | 1.8 million | `TypesOK`, `ClassLoansSound`, `SchoolSound`, `VisitsKept`, `AccessKept`, `FilesKept`, `DraftsKept`, `TitlesSound`, `ClosedFrozen`, `PastKept` |
| `registries_curators` | 1 teacher, 1 request, 1 clerk | violation | `CuratorsActive` |
| `registries_covers` | 3 changes with 2 pictures, 2 uploaders | violation | `CurrentStored` |

**Bounds.** Two handlers are enough for every race of the code: a guard of a
batch compares what one handler read with what the others left, whoever they
were, and the third actor that some races need (an order, a place, a shelf) acts
through the single-step actions of the other stores. The numbers of requests
bound the batches in a behaviour: two for the stock (plus any number of steps of
orders and places), four or five for orders, which take at most four commands
from creation to a second handover. Two copies on a shelf allow a partial issue
and a partial return. `MaxFund`, `MaxMove`, `MaxStock`, `MaxVersion`,
`MaxProfile` and `MaxFaults` bound counters that the program leaves unbounded;
TELEGRAM_MAX_ATTEMPTS is 8 in the code and 2 or 1 in the runs, the CHECK of
`attempts` 20 and 3 to 5; both are constants of the model, and the runs reach
the maximum of the program, in `outbox_delivery` also the CHECK. Two instants
(`LastInstant` 1) give a row, a lease and a retry an instant before, at and after the
start of either drain, since the last one stands for all that follow.

In `registries` the properties are conjunctions over the foci: `TypesOK` of all type
invariants, `TitlesSound` of `CopiesSound`, `RefreshSound`, `CatalogueSound`,
`AcquisitionSound` and the stock of two titles, `FilesKept` of `CoversSound` and
`ImportSound`, `AccessKept` of both doors, `PastKept` of the six action properties
about what is over. Its instances:

| store | foci |
|---|---|
| school | `curators` (one clerk, two classes), `rollover` (two years of one cohort, two clerks) |
| class loans | `parts` (one statement in parts), `pair` (two statements, one line from before the lines) |
| visits | `desk` (two visits and a closure, two callers), `lessons` (a day of two lessons, a guest, a class that closes) |
| access | `cabinet` (one teacher, three sessions, two handlers, two instants), `phone` (two who share a phone, codes that run out); `reader`, `friends` (two readers, one chat) |
| files | `covers` (two changes with one picture; three, the third with another, in `registries_covers`), `gallery` (two pictures); `imports` (two runs, two handlers) |
| drafts | `applies` (one draft, two tabs), `writers` (two drafts of one class) |
| cards | `cards` (all editors, two new cards at once) |
| proposals | `proposals`, `orders`, `purchases` (one line, two proposals), `workbook` (imported twice) |
| plans | `planning`, `signing` (two signings at once) |
| copies | `shelving`, `lenders`, `retiring`, `arrivals`; `refresh`, `fresh` (two calls of one refresh) |
| stock | `titles` |

In `cabinet` a temporary code lasts two instants (`CodeTime`) and the clock has two
(`LastMoment` 1), the least with which a call begins before another one that uses
the code; in `phone` it lasts one, so it also runs out unused.

Versions, sessions, grants, segments and numbers of cards are bounded by the
`Max...` constants (2 to 6), each large enough for a change, a second one that
competes with it and a third that finds both done.

**Symmetry** permutes workers, requests, loans, orders and titles (the outbox:
workers only, as rows are ordered; the registries: the two handlers, and one
pair of ids) and is used in safety runs. `requests_one_order` uses it as well:
its properties are box-action properties without fairness. No liveness run uses
it.

`CHECK_DEADLOCK FALSE` stands where the instance runs out of requests, ids
or versions, which the system does not.

## Fairness

Only `TelegramOutbox` has liveness properties. `WF_vars(DrainStep(w))`: the
timer of `worker/index.ts` starts a drain every minute, and each statement or
request of a drain ends, the request after 6 s at the latest
(`TELEGRAM_API_TIMEOUT_MS`). `WF_vars(Tick)`: time passes. Nothing is assumed of recipients, librarians or of deliveries that
succeed. Drains may be killed or overtaken by their lease `MaxFaults` times; a
platform that kills every drain delivers nothing. Without fairness for orders
there is no liveness to state of them: they wait for people.

`QueueMoves` is therefore what the queue guarantees: a queued message is sent or
given up unless it or a queued message of the same recipient is at some moment
undeliverable. The stronger `DeliverableMoves` does not hold (see below). Both
presume that no row reaches the CHECK of `attempts`: a row whose drains are
killed twenty times can no longer be claimed, and ends each drain that tries.

## Findings

1. **A closed place can receive copies.** `returnLoanItems` asks for an active
   place of return only while reading (`library-mutation-store.ts:2719`); its
   batch does not ask again, unlike receipts, transfers and class loans. Run
   `inventory_closed_place`: plan a return, close the place, commit. What holds
   instead, `OnlyReturnsReachClosedPlaces`, is checked and proved.
2. **An undeliverable message blocks the deliverable ones behind it.** The
   `NOT EXISTS` over earlier rows (`telegram-notifications.ts:1003`) counts rows
   that the query will never select, such as a message for the teachers' cabinet
   of a librarian whose teacher profile was closed. Run `outbox_blocked`.
3. **A late 403 undoes an explicit disconnection.** `connectionFailureStatement`
   (`telegram-notifications.ts:2833`) names only the user, so `disabled` becomes
   `blocked`, which `/start` resumes whatever the audit log says. Run
   `outbox_start`.

4. **A closed card can get a class.** The approval of a curator request
   (`teacher-curator-request-store.ts:470`) does not ask whether the card of its
   teacher is still open, and closing a card counts classes, not requests. Run
   `registries_curators`.
5. **A shared picture can be deleted.** The cleanup after a failed change of a
   cover (`library-cover-mutation.ts:530`) reads that the cover is another one,
   then deletes the object; a second change with the same picture may have made it
   the cover in between. Run `registries_covers`; without shared pictures the
   object is always there (`StoredUnlessShared`).

Two further weaknesses are hazards without a run of their own; the properties say
what holds in their place, and their models reach them:

- `attempts` is compared with its maximum only after an answer, and as the drain
  had read it. A lapsed lease is taken back without asking, so a row whose drains
  die passes the maximum; and a retry is dated from the start of the drain that
  failed (`telegram-notifications.ts:1151`), which may be due already for a drain
  beside it, which then counts from its old read (`:1148`). `AttemptsExplained`
  says by how much. In the same way rows, dated before their batch, become visible
  out of order; `InQueueOrder` says what order is left.
- A temporary code of a teacher, one-time in `docs/TEACHER_PORTAL_UK.md:28` and in
  `tests/visit-teacher-auth-behavior.test.mjs:344`, opens two live sessions when a
  sign-in began before the one that used it and commits after it
  (`visit-teacher-auth.ts:257`, `:273`): the guard of the batch does not ask
  whether the code was used. `OpenedOnce` says which calls this is left to.

## What is proved

`InventoryProofs` proves, for any sets of titles, places, loans, requests and
workers and any bounds, from the assumptions named in `Inventory` (the library
is a place, bounds are naturals, `NoLoan` is no loan, opening stocks are
naturals):

| theorem of `InventoryProofs` | statement |
|---|---|
| `TypeCorrect` | `Spec => [](TypeOK /\ PlansKnown)` |
| `LedgerCorrect` | `Spec => []LedgerBalances` |
| `ReservationsKept` | `Spec => []ReservedOnShelf` |
| `RequestsOnce` | `Spec => []EachRequestOnce` |
| `LoansCorrect` | `Spec => []LoansBalance` |
| `ClosedLoansStay` | `Spec => ClosedLoansFrozen` |
| `ArchivedEmpty` | `Spec => []ArchivedHasNothing` |
| `TotalsCorrect` | `Spec => []StockTotalsFresh` |
| `ClosedPlacesGuarded` | `Spec => OnlyReturnsReachClosedPlaces` |
| `CopiesStayConserved` | `Spec => []CopiesConserved` |
| `PlansStayAccurate` | `Spec => []PlansAccurate` |

`TelegramOutboxProofs` proves every safety property of `TelegramOutbox`, for any
messages, recipients and finite number of drains and any maxima, from the
assumptions named there (finitely many rows, ids that are numbers, positive waits and leases,
`NoWorker` is no worker, `NoRow` no row):

| theorem of `TelegramOutboxProofs` | statement |
|---|---|
| `TypeCorrect` | `Spec => []TypeOK` |
| `SettledRowsStay` | `Spec => SettledIsFinal` |
| `OptOutRespected` | `Spec => []SilentAfterOptOut` |
| `SentInQueueOrder` | `Spec => []InQueueOrder` |
| `AttemptsBounded` | `Spec => []AttemptsExplained` |
| `DuplicatesHaveReasons` | `Spec => []DuplicatesExplained` |

`MaterialRequestsProofs` proves every property that the two runs of the orders
check, for any orders, titles, places, loans, requests and workers, from the
assumptions of `MaterialRequests` (finite sets, every order asks for something, bounds
are naturals, `NoLoan`, `NoPlace` and `Idle` are nothing else):

| theorem of `MaterialRequestsProofs` | statement |
|---|---|
| `RequestTypes` | `Spec => []TypeOK` |
| `LoanCarriesItsOrder` | `Spec => []LoanCarriesOrder` |
| `PromisesOnShelf` | `Spec => []PromiseOnShelf` |
| `LimitAlwaysKept` | `Spec => []LimitKept` |
| `CommandsCountOnce` | `Spec => []EachCommandOnce` |
| `BooksAlwaysBalance` | `Spec => []BooksBalance` |
| `PreparedOrdersHold` | `Spec => []PreparedIffHolding` |
| `ReadyIsWhole` | `Spec => []ReadyMeansWhole` |
| `OutcomesTold` | `Spec => []OutcomeTold` |
| `FinalForever` | `Spec => FinalIsFinal` |
| `StoreImplementsLifecycle` | `Spec => ImplementsLifecycle` |

Of the registries every safety property is proved. The proofs are in three modules; each theorem holds for any finite or
infinite sets of teachers, readers, classes, handlers and requests and for any maxima,
from the assumptions named in the components (bounds are naturals, the value of an
idle handler is no plan, what is added up or counted is finite: `VisitsFinite`,
`LoanTables`, `LegacyAssumption`, `AcquisitionTables`, `CopyFinite`):

| theorem | statement |
|---|---|
| `RegistryProofs.VisitsSafe`, `.VisitsApart` | `VisitsSpec => []VisitsSound`, `[]Apart` |
| `RegistryProofs.SchoolSafe`, `.SchoolPastStays` | `SchoolSpec => []SchoolInOrder`, `PastStaysPast` |
| `RegistryProofs.LoansSafe`, `.ClosedStaysFrozen` | `LoansSpec => []LoansSound`, `ClosedClassFrozen` |
| `RegistryProofs.CatalogueSafe`, `.AdoptedStays` | `CatalogueSpec => []CatalogueSound`, `[][AdoptedStep]` |
| `RegistryProofs.PlanSafe`, `.SignedStays` | `PlanSpec => []ProcurementSound`, `[][SignedStep]` |
| `RegistryProofs.AcquisitionSafe`, `.DecidedStays` | `AcquisitionSpec => []AcquisitionSound`, `[][DecidedStep]` |
| `AccessProofs.AccessSafe` | `AccessSpec => []AccessSound` |
| `AccessProofs.ReadersSafe`, `.BarredStays` | `ReaderSpec => []ReadersSound`, `[][BarredStep]` |
| `OutsideProofs.ImportSafe` | `ImportSpec => []ImportSound` |
| `OutsideProofs.CoversSafe` | `CoverSpec => []CoversSound` |
| `OutsideProofs.DraftsSafe` | `DraftSpec => []DraftsSound` |
| `OutsideProofs.CopiesSafe`, `.CirculationKept` | `CopiesSpec => []CopiesSound`, `[][CirculationStep]` |
| `OutsideProofs.RefreshSafe`, `.RefreshKept` | `RefreshSpec => []RefreshSound`, `[][CirculationStep]` |

with the type invariant of each (`VisitsTyped`, `SchoolTyped`, ...).

`MCRegistriesProofs` states the same of the composition that the run `registries` checks,
`MCSpec`: `SchoolStaysSound`, `ClassLoansStaySound`, `ClosedStayFrozen`, `VisitsStayKept`,
`AccessStaysKept`, `FilesStayKept` and `DraftsStayKept`, each for the property of the run
that it names.

**The argument for the stock.** Type correctness is not inductive alone: a batch writes what a
plan holds. `PlansKnown` says that every plan is well formed (it touches only
shelves of its titles, its quantities are of its titles, what is issued or
returned is not empty, a return names its loan) and that a return's plan is *true of its loan while the version it
carries is current*: the quantities still out are those it read, and it closes
the loan exactly if nothing else is out. The version guard then does what it is
there for: either the batch is refused, or the plan is true (`AccurateStays`,
`ReturnedLoan`). From this follow, in the order of the file, the journal (each
batch adds to the ledger the difference between the new quantity and the one it
compared), the reservations (the trigger and the guards on titles and places),
the commands, the loans with the strengthening `LoansRight` (unused loan ids are
blank, nothing is over-returned, closed iff settled), the emptiness of archived
titles (which needs `LoansRight`, because the batch of a return never looks at
the title's status: it relies on a title with a loan not being archived) and the
totals (a change of a summand lies in the titles whose row is rebuilt). Lemmas
about the shape of batches (`MoveStockEffect`, `LoanEffect`, `ReservationEffect`)
are proved once and cited by each of them.

**The argument for conservation** (`CopiesStayConserved`, `PlansStayAccurate`) adds the
assumption that places and loans are finite sets. The invariant to find is
`PlansBalanced`: a plan in progress is a double entry. The net of the copies its deltas put on shelves, and what it adds to the fund and
to a loan, cancel out, title by title, *before* anything is written. A batch that
passes its guards then moves each sum by a part of that entry. `PlansAccurate` is
the other half (`LoansRight`): what a return says of its loan is true while the
version it carries is current.

**Sums.** `SumTheorems` proves what both need of a sum over a finite set: that it
is an integer, additive, monotone, local, zero only if every part is, and that it
may be split by title. The induction over the set is done without a principle that takes
a predicate as a parameter: a failing subset is assumed, a least one is picked by
the well-foundedness of strict inclusion, an element is removed, contradiction.

**The argument for the outbox.** `RowSteps` says once what a step may do to a row
(nothing, it is queued, is taken back, is claimed, is tried again, ends),
`DrainSteps` and `WorkSteps` what it may do to a drain; each invariant is then a
case for each. Order is where a drain's old reads matter. When it reads, each row it
takes is first in line among those that are due and hence, since those not due yet are
later, before every queued row of the recipient (`FirstOfAll`). Afterwards the drain
only carries less of its list (`Keeps`), and a row keeps its place as long as nobody
has tried it (`UntriedBefore`, from `Tried`: whoever was sent or put back has an
attempt). `KnownQueued` keeps the dates of both from changing. Attempts: between the
claim and the answer the row has either one more attempt than the drain read, so that
the comparison with the maximum is about the row as it is, or the claim was counted in
`rereads` and has left one to spare (`HeldAttempts`). For duplicates, `Paid` charges every delivery and
every send under way to a lease taken back, a lost confirmation or, once, the
row itself, except while its holder is about to report a failure.

**The argument for the orders.** The invariant has three parts. Every order is
*sound* by itself (`Sound`): the quantities of its items are the sums of its
reservation rows (`Books`), its status is what those sums say, and its outcome is
told (`Told`). Every plan is *true while the version of its order is current*
(`PlanTrue`): the new status and quantities a handler computed are those that
the rows give. And loans nobody has used are blank, the others carry what their
order received. A commit then has a true plan, because its `WHERE` compares the
version, and one lemma per batch (`ReadySound`, `IssueSound`, `ReleaseSound`,
`StatusSound`) shows that a true plan leaves a sound order; sums enter only there.
That a status is right follows from facts about sums: nothing is left to hand out
iff every row is used up (`InAll`), a title is whole iff its rows add up. For the
refinement every batch is *exactly one* step of `OrderLifecycle` on the order it
names (`Moved`): creation is `Place`, review a stutter, refusal and cancellation
`Refuse`, preparation `Promise` (or a stutter if nothing new was reserved),
handing over `HandOver`, release `Withdraw`; all other steps stutter.

**The argument for the import.** `ImportInv` says of every call under way
(`HandlersFine`) what the row of the run and the bucket must be while it stands at
its point: a commit past its reading has the row it read or will be refused; a
cleanup that claimed its run is the only one that may remove the object; an id
that is being uploaded was minted and is no one else's (`IdsMinted`). An object
that is neither the plan of the run nor left behind is *owed*: the call that will
remove it is on its way. From this `LoadedByItsRun` follows from the guard inside
the batch of the commit, `PlanKept` from the claim that precedes every removal.

**The argument for visits.** That nobody is past the limit is inductive only together with
`CallsFine`: a handler that compares with its clock is at most one segment late. A
visit that it found in the future is then still among those that the batch counts,
except where the batch itself moves it.

**The argument for the school year.** `ClassesFine` says of the rows together what no row
says alone: an open class is of the running year and of an active cohort, two classes of a
cohort are of different years and not both open, only open classes owe. The rollover
needs all of it at once, since it closes one year and opens the next in one batch.

**The argument for class loans.** `LedgerFine` is the double entry: the journals explain
each shelf and each item, and shelves and items add up to the copies there are.
`RecordsFine` holds the statements, `PortersFine` what a handler is about to write: a return
that means to close its statement does so for good reason *while the statement has the version
that was read* (`VersionsTell`: a step that touches a statement or its items gives it another).
The sums are those of `SumTheorems`; lines from before the items are counted by `SumCounts`.

**The argument for cards.** `NewCardFine`: the number a call has chosen was the next one when
it read, so it is the next one still or is taken, and every number it has tried since is taken.
`AdoptedStays`: the guard on the fund inside each textbook batch is what keeps them
off an adopted card, whatever the handler read before.

**The argument for the plan.** Contents and signing share one counter, so `ContentVersion` names the
version of the *contents* (a signing counts once without changing them). What a handler that
signs has read so far is what there is *while that version is its own* (`SigningFine`). A
snapshot is then complete though it is read table by table.

**The argument for proposals.** A handler computes the new row of a proposal before its batch.
`DecisionFine` says that this row follows from the one in the table (`Follows`) *while the version
is still the one that was read*, so a batch that passes its guard writes a sound row. `Given`
keeps the sum of what the lines of receipts gave equal to what was received; the batch adds to
both, and takes no more of a line than is left of it when it runs. `LimitFine` charges every proposal past the
limit to a call that was under way: with those still under way there are never more than
the limit less one and one for each handler.

**The argument for the doors.** Versions name secrets: a code, a PIN, a grant belongs to the version
that set it (`CredFine`, `SecretsFine`, `GrantsFine`, `PassesFine`). What a handler checked is
today's while the version is (`DoorsFine`, `GatesFine`), so a session made by a batch is of
today's code. `code_expires_at` only goes down while a code is the same (`CredOnward`), and
`TempFine` says that a session opened by today's temporary code was created no earlier
than it; a later batch passes only if its call began before `code_expires_at`, hence before every
session there is (`OneByCode`). For readers the number of sessions has to be counted:
a batch that makes one first ends those beyond the `KeptSessions` newest (`EntriesFew`).

**The argument for covers.** A change that read an old version can never commit (`TooLate`), and one that
can never commit and whose picture is not the cover's has no part in it any more (`Lost`). A change
is called failed only if it is too late, an object is deleted only for a lost one, and
a handler about to commit has its picture stored or is too late. The last holds only
while pictures differ (`Distinct`), which is where finding 5 comes from.

**The argument for drafts.** A request belongs to one draft, whoever names it: the draft, a call or
the journal (`OwnersFine`). The journal marks a part before it is written and writes the cohort
after the class (`EntryFine`). While the calls of a request do not overlap, it holds its
draft as long as one is under way, and a refusal it brings is of a request that wrote nothing
(`TabFine`).

**The argument for copies of literature.** The sums are the heart: `StockCounted` says that each
shelf of the stock counts the copies that stand on it, and that all copies in the stock are those
on shelves and those on loans of this library. One copy changing moves both sides by the same amount (`OneCopyChanges`,
`OneLoanChanges`, `CountedMoves`), so a batch is right if it changes one copy, one loan and one count
together. That needs more of each copy than the property says: `CopyAgrees` (a copy says that it is out
exactly when one loan is open on it) and `OneClaim` (no two live rows on one copy). What a handler
carries from its reads is in `DeskFine`: the shelf it read is the copy's *while the version is its
own*, and a row it chose is new or of this copy and this reader. Two handlers never work on one
new row or one new copy (`DesksDiffer`). Activation counts the copies that are lent when it reads
and writes that number later, while its batch compares only how many copies there are; that is
right because until the edition is held no step opens or ends a loan of its copies (the third
part of `CopiesOnward`).

**The argument for the refresh.** A request of the source runs through batches of its own, one for
each child command, and may stop after any. `RequestFine` says what it has left so far: the loan issued for it is of its copy and its reader,
and nothing else will carry its id. `LeftAlone` adds the versions it expects, for a request nobody
interfered with, counting its own steps (`OwnSteps`); this is what makes its continuation find
the rows it left (`Resumable`). `RunFine` says of each call under way which
child command it may be about to write; `IssuesApart` keeps the loans of two requests apart. Every
batch of the refresh is a batch of the desk or none at all as far as copies go, so their
invariant carries over (`CopiesMove`).

**The argument for the composition.** A behaviour of `MCSpec` is one of the instance that its focus names
(`SchoolRun`, `LoansRun`, ...). The theorems of a component are taken through an instance of
the proof module with the constants of the focus, whose assumptions are shown to hold
(`RegistryOneHolds`, ...), and its definitions are shown equal to those of the instance that
`MCRegistries` has. `MCValues`, `MCSizes` and `MCWriters` say what this takes for granted of the
constants; TLC evaluates them in each run.

## What is only model-checked, and what is not modelled

- Of the run `registries`, `TitlesSound`, `PastKept` and `TypesOK` are only checked, for they speak of all instances
  at once. Every conjunct of theirs is a theorem about its component, for any constants (the
  table above). What is missing is the passage to the instances: six of the copies of
  literature and three of the proposals overlap in the constants they replace, so each would
  need a copy of the proofs of its own, and with so many definitions in sight the provers
  no longer find the steps.
- Liveness and `ENABLED` are out of the prover's reach, so the liveness
  properties of `TelegramOutbox` are model-checked only.
- The findings are counterexamples of TLC.

**Not modelled.** The modules cover less than a fifth of the lines of the
repository. What they leave out has, for the most part, no state that two actors
share:

- Pages and routes (`src/app`, about half of all lines: forms, tables, screens),
  which call the stores; the validation of inputs, which refuses before anything
  is read; the projections that turn rows into answers, exports, statements and
  reports; the declarations of the schema, of which the modules use keys, checks and
  triggers.
- The reader community (`reader-community.ts`, feeds, messages, clubs): each handler
  is one batch that repeats all its conditions, so there is nothing between a read and
  a write to interleave.
- The assistant: conversations around a language model; its actions call the
  stores above.
- Inside modelled stores: tracked copies and conditions of copies in the stock,
  orders from before reservations, hiding and reading of orders, creation,
  renaming and deletion of places and of cards of teachers, menu refreshes of the
  outbox with their own claim, reminders and their expiry, link tokens, wrong
  codes with their locks and rate limits, web sessions without a credential
  version, temporary photos, the kinds of drafts other than changing and closing a
  class, the import of snapshots of the source and its refresh of books and
  directories, the synchronisation of members, ratings and reviews, the hourly
  limit of the public form, notifications and audit rows except where a decision
  reads them.
- The planner that makes the plan of an import on a workstation, and writes of the
  librarian while its gate is open, which the configuration forbids.

Three hazards have no property: the pickup place of an order is asked about only
while reading (an order may be prepared for a place that was just closed), menu
refreshes are claimed in two places, and a refusal of the gateway that leaves no
journal row may be followed by a writing call of the same request. The first and the
last are known to be possible; `PROJECT.json` has their lines.

## What would come next

- `TypesOK`, `PastKept` and `TitlesSound` as theorems of the composition, with proofs of the
  copies of literature in a module small enough to be taken once for each instance.
- Menu refreshes in `TelegramOutbox`, and the pickup place in `MaterialRequests`
  together with the finding it would be.
- The compositions that today meet in one action each: class loans with the
  rollover (`owing` in `SchoolYear` is `Owes` in `ClassLoans`), copies of literature with
  `Inventory`, cards with visits and access.
