------------------------------ MODULE BookCopies ------------------------------
(***************************************************************************)
(* Copies of literature and their circulation, as library-copy-store.ts,   *)
(* literature-admin.ts and reader-profile-store.ts keep them, with the     *)
(* triggers of drizzle/0047: every copy of an edition is a row of its own, *)
(* every loan or reservation to a reader another, and beside them stand    *)
(* the counts of the stock tables, which the same batches must move.       *)
(*                                                                         *)
(* One edition.  It arrives from Librarika with its copies and their loans *)
(* unreconciled, and activation brings it into the stock at once.  A       *)
(* handler that moves a copy reads first and writes in one batch later;    *)
(* one whose batch repeats all it read is a single step.                   *)
(*                                                                         *)
(* Abstractions: a shelf is a place with a condition, each place has one;  *)
(* "reserved" stands for pending and reserved, "issued" for issued and     *)
(* overdue, which no statement here tells apart; the client's expected     *)
(* versions are those the handler reads, because any other is refused;     *)
(* commands and audit rows are those of the stock (see Inventory); the     *)
(* journal of movements, messages to readers and reviews are left out.     *)
(***************************************************************************)
EXTENDS Integers, FiniteSets, Functions

CONSTANTS
    Books,          \* copies (library_copies)
    Imported,       \* those of them that arrive from Librarika
    Lendings,       \* rows of reader_circulations
    OldLendings,    \* those of them that arrive from Librarika
    Shelves, MainShelf,     \* MainShelf is SOURCE_LOCATION
    Members,        \* cards of readers
    Wishes,         \* rows of reader_book_requests
    Desks,          \* concurrently running handler invocations
    Rested, Nowhere, NoBook, NoMember, NoLending, NoWish,   \* model values
    MaxCopyVersion, MaxLendingVersion, MaxCardVersion, MaxEditionVersion    \* bounds

ASSUME CopyBounds == {MaxCopyVersion, MaxLendingVersion, MaxCardVersion, MaxEditionVersion}
                     \subseteq Nat \ {0}
ASSUME CopyValues ==
    /\ Imported \subseteq Books /\ OldLendings \subseteq Lendings /\ MainShelf \in Shelves
    /\ Nowhere \notin Shelves /\ NoBook \notin Books /\ NoMember \notin Members
    /\ NoLending \notin Lendings /\ NoWish \notin Wishes
ASSUME CopyFinite == IsFiniteSet(Books) /\ IsFiniteSet(Lendings) /\ IsFiniteSet(Shelves)

VARIABLES
    edition,    \* row of library_editions
    book,       \* copy -> row of library_copies
    lending,    \* row of reader_circulations
    standing,   \* shelf -> quantity of the edition's material in holdings, 0 for no row
    tally,      \* row of material_stock_totals
    usable,     \* shelves at active places
    member,     \* card -> row of library_readers
    wish,       \* row of reader_book_requests
    desk        \* handler -> what it has read and is about to write

copyVars == <<edition, book, lending, standing, tally, usable, member, wish, desk>>

(* held: there is a material; twin: a textbook with this ISBN is in the catalogue *)
EditionType == [state : {"draft", "published", "archived"}, held : BOOLEAN, twin : BOOLEAN,
                ver : Nat]
BookType == [reg : {"none", "source", "registered"},
             at : {"unknown", "on_shelf", "on_loan", "withdrawn"},
             shelf : Shelves \cup {Nowhere}, ver : Nat]
LendingType == [status : {"none", "reserved", "issued", "returned", "cancelled"},
                of : Books \cup {NoBook}, by : Members \cup {NoMember}, native : BOOLEAN,
                ver : Nat]
WishType == [status : {"none", "requested", "ready", "fulfilled", "closed"},
             by : Members \cup {NoMember}, met : Lendings \cup {NoLending}]

DeskPlan ==
    [op : {"activate"}, ever : Nat, match : BOOLEAN, copies : Nat, lent : Nat]
    \cup [op : {"issue"}, book : Books, cver : Nat, shelf : Shelves, rest : Nat,
          by : Members, mver : Nat, row : Lendings, rver : Nat, for : Wishes \cup {NoWish}]
    \cup [op : {"return"}, book : Books, cver : Nat, row : Lendings, rver : Nat, shelf : Shelves]
    \cup [op : {"register"}, book : Books, ever : Nat, shelf : Shelves]
    \cup [op : {"move"}, book : Books, cver : Nat, shelf : Shelves, rest : Nat,
          to : Shelves \cup {Nowhere}]
    \cup [op : {"receive"}, shelf : Shelves, rest : Nat]

CopiesTypeOK ==
    /\ edition \in EditionType
    /\ book \in [Books -> BookType]
    /\ lending \in [Lendings -> LendingType]
    /\ standing \in [Shelves -> Nat]
    /\ tally \in [total : Nat, lent : Nat]
    /\ usable \in SUBSET Shelves
    /\ member \in [Members -> [on : BOOLEAN, ver : Nat]]
    /\ wish \in [Wishes -> WishType]
    /\ desk \in [Desks -> DeskPlan \cup {Rested}]

-----------------------------------------------------------------------------
(* What the statements ask, and the parts batches share *)

LiveOn(b) == {l \in Lendings : lending[l].of = b /\ lending[l].status \in {"reserved", "issued"}}
LiveBy(m) == {l \in Lendings : lending[l].by = m /\ lending[l].status \in {"reserved", "issued"}}
OpenOn(ls, b) == {l \in Lendings : ls[l].of = b /\ ls[l].status = "issued"}

OnShelf(bs, s) ==
    {b \in Books : bs[b].reg = "registered" /\ bs[b].at = "on_shelf" /\ bs[b].shelf = s}
Lent(ls) == Cardinality({l \in Lendings : ls[l].status = "issued" /\ ls[l].native})

(* rebuildReaderStock *)
TallyOf(st, ls) ==
    [total |-> SumFunctionOnSet(st, Shelves) + Lent(ls), lent |-> Lent(ls)]

(* copyInvariant *)
CopyAgrees(bs, ls, b) ==
    /\ bs[b].reg = "registered"
    /\ IF bs[b].at = "on_loan"
       THEN Cardinality({l \in OpenOn(ls, b) : ls[l].native}) = 1
       ELSE OpenOn(ls, b) = {}

(* the end of a batch: the guards of the triggers, and the totals *)
Written(bs, ls, st) ==
    /\ \A s \in Shelves : Cardinality(OnShelf(bs, s)) <= st[s]
    /\ book' = bs /\ lending' = ls /\ standing' = st
    /\ tally' = TallyOf(st, ls)

Onto(st, s) == [st EXCEPT ![s] = @ + 1]
(* the row of holdings is deleted when the handler read one copy, and else counted down *)
Leaves(st, s, rest) == IF rest = 1 THEN st[s] = 1 ELSE st[s] > 1
Less(st, s) == [st EXCEPT ![s] = @ - 1]

CopyAsRead(b, v) == book[b].ver = v
EditionAsRead(v) == edition.ver = v /\ edition.state # "archived"
NotPromised(b, l) == \A k \in LiveOn(b) \ {l} : lending[k].status # "reserved"
Shelved(b) == book[b].reg = "registered" /\ book[b].at = "on_shelf"

InPlans == {desk[d].row : d \in {e \in Desks : desk[e] # Rested /\ desk[e].op = "issue"}}
NewRow(l) == lending[l].status = "none" /\ l \notin InPlans

Reads(d, plan) ==
    /\ desk[d] = Rested
    /\ desk' = [desk EXCEPT ![d] = plan]
    /\ UNCHANGED <<edition, book, lending, standing, tally, usable, member, wish>>
Doing(d, op) == desk[d] # Rested /\ desk[d].op = op
Finish(d) == desk' = [desk EXCEPT ![d] = Rested]

-----------------------------------------------------------------------------
CopiesInit ==
    /\ \E twin \in BOOLEAN :
        edition = [state |-> "draft", held |-> FALSE, twin |-> twin, ver |-> 1]
    /\ \E of \in [OldLendings -> Imported], by \in [OldLendings -> Members],
          as \in [OldLendings -> {"issued", "reserved"}] :
        /\ \A k, l \in OldLendings : of[k] = of[l] => k = l
        /\ lending = [l \in Lendings |->
             IF l \in OldLendings
             THEN [status |-> as[l], of |-> of[l], by |-> by[l], native |-> FALSE, ver |-> 1]
             ELSE [status |-> "none", of |-> NoBook, by |-> NoMember, native |-> FALSE, ver |-> 0]]
        /\ book = [b \in Books |->
             IF b \in Imported
             THEN [reg |-> "source", shelf |-> Nowhere, ver |-> 1,
                   at |-> IF \E l \in OldLendings : of[l] = b /\ as[l] = "issued"
                          THEN "on_loan" ELSE "unknown"]
             ELSE [reg |-> "none", at |-> "unknown", shelf |-> Nowhere, ver |-> 0]]
    /\ standing = [s \in Shelves |-> 0]
    /\ tally = [total |-> 0, lent |-> 0]
    /\ usable = Shelves
    /\ \E on \in SUBSET Members : member = [m \in Members |-> [on |-> m \in on, ver |-> 1]]
    /\ wish = [w \in Wishes |-> [status |-> "none", by |-> NoMember, met |-> NoLending]]
    /\ desk = [d \in Desks |-> Rested]

(* activateImportedEdition *)
Waiting == {b \in Books : book[b].reg = "source"}
PlanActivateEdition(d, match) ==
    /\ edition.state = "draft" /\ ~edition.held
    /\ Waiting # {}
    /\ match => edition.twin
    /\ Reads(d, [op |-> "activate", ever |-> edition.ver, match |-> match,
                 copies |-> Cardinality(Waiting),
                 lent |-> Cardinality({b \in Waiting : OpenOn(lending, b) # {}})])
CommitActivateEdition(d) ==
    LET p == desk[d]
        st == [standing EXCEPT ![MainShelf] = @ + p.copies - p.lent]
        bs == [b \in Books |-> IF b \notin Waiting THEN book[b] ELSE
                 [reg |-> "registered", shelf |-> MainShelf, ver |-> book[b].ver + 1,
                  at |-> IF OpenOn(lending, b) # {} THEN "on_loan" ELSE "on_shelf"]]
        ls == [l \in Lendings |-> IF lending[l].of \notin Books \/ lending[l].native
                                  THEN lending[l]
                                  ELSE [lending[l] EXCEPT !.native = TRUE, !.ver = @ + 1]] IN
    /\ Doing(d, "activate")
    /\ edition.ver = p.ever /\ edition.state = "draft" /\ ~edition.held
    /\ \A b \in Books : book[b].reg # "registered"
    /\ IF p.match THEN edition.twin /\ \A s \in Shelves : standing[s] = 0 ELSE ~edition.twin
    /\ MainShelf \in usable
    /\ Cardinality(Waiting) = p.copies
    /\ Written(bs, ls, st)
    /\ tally' = [total |-> p.copies, lent |-> p.lent]
    /\ edition' = [edition EXCEPT !.held = TRUE, !.state = "published", !.ver = @ + 1]
    /\ Finish(d)
    /\ UNCHANGED <<usable, member, wish>>

(* issueReaderCopy: row is new, or a reservation of the reader *)
PlanIssueCopy(d, b, m, l, w) ==
    /\ Shelved(b) /\ edition.state # "archived"
    /\ standing[book[b].shelf] > 0
    /\ book[b].ver < MaxCopyVersion
    /\ \/ NewRow(l)
       \/ lending[l].status = "reserved" /\ lending[l].of = b /\ lending[l].by = m
    /\ Reads(d, [op |-> "issue", book |-> b, cver |-> book[b].ver, shelf |-> book[b].shelf,
                 rest |-> standing[book[b].shelf], by |-> m, mver |-> member[m].ver,
                 row |-> l, rver |-> lending[l].ver, for |-> w])
IssueRow(p) ==
    /\ NotPromised(p.book, p.row)
    /\ edition.state # "archived"
    /\ CopyAsRead(p.book, p.cver) /\ Shelved(p.book) /\ book[p.book].shelf \in usable
    /\ member[p.by].on /\ member[p.by].ver = p.mver
    /\ lending[p.row].ver = p.rver /\ lending[p.row].status \in {"none", "reserved"}
    /\ OpenOn(lending, p.book) = {}
IssueWish(p) ==
    IF p.for = NoWish THEN UNCHANGED wish ELSE
        /\ wish[p.for].status \in {"requested", "ready"} /\ wish[p.for].by = p.by
        /\ wish' = [wish EXCEPT ![p.for].status = "fulfilled", ![p.for].met = p.row]
IssueBatch(p) ==
    LET bs == [book EXCEPT ![p.book].at = "on_loan", ![p.book].ver = @ + 1]
        ls == [lending EXCEPT ![p.row] = [status |-> "issued", of |-> p.book, by |-> p.by,
                                          native |-> TRUE, ver |-> @.ver + 1]] IN
    /\ IssueRow(p) /\ IssueWish(p)
    /\ Leaves(standing, p.shelf, p.rest)
    /\ CopyAgrees(bs, ls, p.book)
    /\ Written(bs, ls, Less(standing, p.shelf))
    /\ UNCHANGED <<edition, usable, member>>
CommitIssueCopy(d) == Doing(d, "issue") /\ IssueBatch(desk[d]) /\ Finish(d)

(* returnReaderCopy *)
PlanReturnCopy(d, l, s) ==
    /\ lending[l].status = "issued" /\ lending[l].native
    /\ book[lending[l].of].ver < MaxCopyVersion
    /\ Reads(d, [op |-> "return", book |-> lending[l].of, cver |-> book[lending[l].of].ver,
                 row |-> l, rver |-> lending[l].ver, shelf |-> s])
ReturnBatch(p) ==
    LET bs == [book EXCEPT ![p.book].at = "on_shelf", ![p.book].shelf = p.shelf,
                           ![p.book].ver = @ + 1]
        ls == [lending EXCEPT ![p.row].status = "returned", ![p.row].ver = @ + 1] IN
    /\ lending[p.row].ver = p.rver /\ lending[p.row].status = "issued"
    /\ p.shelf \in usable
    /\ CopyAsRead(p.book, p.cver) /\ book[p.book].at = "on_loan"
    /\ CopyAgrees(bs, ls, p.book)
    /\ Written(bs, ls, Onto(standing, p.shelf))
    /\ UNCHANGED <<edition, usable, member, wish>>
CommitReturnCopy(d) == Doing(d, "return") /\ ReturnBatch(desk[d]) /\ Finish(d)

(* registerLibraryCopy *)
PlanRegister(d, b, s) ==
    /\ book[b].reg = "none"
    /\ \A e \in Desks : Doing(e, "register") => desk[e].book # b
    /\ edition.held /\ edition.state # "archived"
    /\ Reads(d, [op |-> "register", book |-> b, ever |-> edition.ver, shelf |-> s])
CommitRegister(d) ==
    LET p == desk[d]
        bs == [book EXCEPT ![p.book] = [reg |-> "registered", at |-> "on_shelf",
                                        shelf |-> p.shelf, ver |-> 1]] IN
    /\ Doing(d, "register")
    /\ EditionAsRead(p.ever)
    /\ p.shelf \in usable
    /\ CopyAgrees(bs, lending, p.book)
    /\ Written(bs, lending, Onto(standing, p.shelf))
    /\ Finish(d)
    /\ UNCHANGED <<edition, usable, member, wish>>

(* moveLibraryCopy: to another shelf, or out of the library (Nowhere) *)
PlanMoveCopy(d, b, s) ==
    /\ Shelved(b) /\ standing[book[b].shelf] > 0 /\ s # book[b].shelf
    /\ book[b].ver < MaxCopyVersion
    /\ Reads(d, [op |-> "move", book |-> b, cver |-> book[b].ver, shelf |-> book[b].shelf,
                 rest |-> standing[book[b].shelf], to |-> s])
CommitMoveCopy(d) ==
    LET p == desk[d]
        gone == p.to = Nowhere
        st == IF gone THEN standing ELSE Onto(standing, p.to)
        bs == [book EXCEPT ![p.book].at = IF gone THEN "withdrawn" ELSE "on_shelf",
                           ![p.book].shelf = IF gone THEN @ ELSE p.to,
                           ![p.book].ver = @ + 1] IN
    /\ Doing(d, "move")
    /\ gone \/ p.to \in usable
    /\ CopyAsRead(p.book, p.cver) /\ Shelved(p.book)
    /\ Leaves(st, p.shelf, p.rest)
    /\ CopyAgrees(bs, lending, p.book)
    /\ Written(bs, lending, Less(st, p.shelf))
    /\ Finish(d)
    /\ UNCHANGED <<edition, usable, member, wish>>

(* receiveStockDirect for the textbook of the same ISBN, while it is one *)
PlanReceiveTwin(d, s) ==
    /\ edition.twin /\ ~edition.held /\ standing[s] = 0
    /\ Reads(d, [op |-> "receive", shelf |-> s, rest |-> standing[s]])
StillTextbook == ~edition.held
CommitReceiveTwin(d) ==
    LET p == desk[d] IN
    /\ Doing(d, "receive")
    /\ StillTextbook
    /\ p.shelf \in usable /\ standing[p.shelf] = p.rest
    /\ Written(book, lending, Onto(standing, p.shelf))
    /\ Finish(d)
    /\ UNCHANGED <<edition, usable, member, wish>>

(* a batch that finds its guards false, or a handler that stops, writes nothing *)
Gone(d) ==
    /\ desk[d] # Rested
    /\ Finish(d)
    /\ UNCHANGED <<edition, book, lending, standing, tally, usable, member, wish>>

-----------------------------------------------------------------------------
(* Handlers whose batch repeats what they read *)

(* reserveLiteratureCopy *)
ReserveCopy(l, b, m) ==
    /\ NewRow(l) /\ Shelved(b) /\ LiveOn(b) = {}
    /\ edition.state # "archived" /\ member[m].on
    /\ lending' = [lending EXCEPT ![l] = [status |-> "reserved", of |-> b, by |-> m,
                                          native |-> TRUE, ver |-> 1]]
    /\ UNCHANGED <<edition, book, standing, tally, usable, member, wish, desk>>

(* cancelLiteratureReservation *)
CancelReserve(l) ==
    /\ lending[l].status = "reserved"
    /\ lending' = [lending EXCEPT ![l].status = "cancelled", ![l].ver = @ + 1]
    /\ UNCHANGED <<edition, book, standing, tally, usable, member, wish, desk>>

(* changeReaderDueDate *)
ChangeDue(l) ==
    /\ lending[l].status = "issued" /\ lending[l].native
    /\ lending[l].ver < MaxLendingVersion
    /\ lending' = [lending EXCEPT ![l].ver = @ + 1]
    /\ UNCHANGED <<edition, book, standing, tally, usable, member, wish, desk>>

(* archiveLiteratureRecord, of an edition and of a reader *)
NoneOut == \A b \in Books : LiveOn(b) = {}
ArchiveEdition(restore) ==
    /\ NoneOut
    /\ edition.ver < MaxEditionVersion
    /\ edition' = [edition EXCEPT !.state = IF restore THEN "published" ELSE "archived",
                                  !.ver = @ + 1]
    /\ UNCHANGED <<book, lending, standing, tally, usable, member, wish, desk>>
NoneBy(m) == LiveBy(m) = {}
ArchiveMember(m, restore) ==
    /\ NoneBy(m)
    /\ member[m].ver < MaxCardVersion
    /\ member' = [member EXCEPT ![m] = [on |-> restore, ver |-> @.ver + 1]]
    /\ UNCHANGED <<edition, book, lending, standing, tally, usable, wish, desk>>

(* saveLibraryEdition of an edition in the stock *)
SaveEdition(published) ==
    /\ edition.held /\ edition.state # "archived"
    /\ edition.ver < MaxEditionVersion
    /\ edition' = [edition EXCEPT !.state = IF published THEN "published" ELSE "draft",
                                  !.ver = @ + 1]
    /\ tally' = TallyOf(standing, lending)
    /\ UNCHANGED <<book, lending, standing, usable, member, wish, desk>>

(* requestReaderBook, cancelReaderBookRequest, setReaderRequestStatus *)
AskBook(w, m) ==
    /\ wish[w].status = "none" /\ edition.state = "published"
    /\ \A v \in Wishes : wish[v].by = m => wish[v].status \notin {"requested", "ready"}
    /\ wish' = [wish EXCEPT ![w].status = "requested", ![w].by = m]
    /\ UNCHANGED <<edition, book, lending, standing, tally, usable, member, desk>>
AnswerWish(w, to) ==
    /\ wish[w].status \in {"requested", "ready"} /\ wish[w].status # to
    /\ wish' = [wish EXCEPT ![w].status = to]
    /\ UNCHANGED <<edition, book, lending, standing, tally, usable, member, desk>>

(* updateManagedLocation and the trigger location_tracked_close_guard *)
Stays(s) == {b \in Books : book[b].reg = "registered" /\ book[b].at # "withdrawn"
                           /\ book[b].shelf = s}
ShutShelf(s) ==
    /\ s \in usable \ {MainShelf} /\ standing[s] = 0 /\ Stays(s) = {}
    /\ usable' = usable \ {s}
    /\ UNCHANGED <<edition, book, lending, standing, tally, member, wish, desk>>
OpenShelf(s) ==
    /\ s \notin usable
    /\ usable' = usable \cup {s}
    /\ UNCHANGED <<edition, book, lending, standing, tally, member, wish, desk>>

AtTheDesk ==
    \E d \in Desks :
        \/ \E match \in BOOLEAN : PlanActivateEdition(d, match)
        \/ \E b \in Books, m \in Members, l \in Lendings, w \in Wishes \cup {NoWish} :
              PlanIssueCopy(d, b, m, l, w)
        \/ \E l \in Lendings, s \in Shelves : PlanReturnCopy(d, l, s)
        \/ \E b \in Books, s \in Shelves : PlanRegister(d, b, s)
        \/ \E b \in Books, s \in Shelves \cup {Nowhere} : PlanMoveCopy(d, b, s)
        \/ \E s \in Shelves : PlanReceiveTwin(d, s)
        \/ CommitActivateEdition(d) \/ CommitIssueCopy(d) \/ CommitReturnCopy(d) \/ CommitRegister(d)
        \/ CommitMoveCopy(d) \/ CommitReceiveTwin(d)
        \/ Gone(d)

CopiesNext ==
    \/ AtTheDesk
    \/ \E l \in Lendings :
        \/ \E b \in Books, m \in Members : ReserveCopy(l, b, m)
        \/ CancelReserve(l) \/ ChangeDue(l)
    \/ \E b \in BOOLEAN : ArchiveEdition(b) \/ SaveEdition(b)
    \/ \E m \in Members, b \in BOOLEAN : ArchiveMember(m, b)
    \/ \E w \in Wishes :
        \/ \E m \in Members : AskBook(w, m)
        \/ \E to \in {"ready", "closed"} : AnswerWish(w, to)
    \/ \E s \in Shelves : ShutShelf(s) \/ OpenShelf(s)

CopiesSpec == CopiesInit /\ [][CopiesNext]_copyVars

-----------------------------------------------------------------------------
(* Properties *)

(* Once an edition is in the stock, every shelf is said to hold as many of *)
(* its copies as stand there, and the totals are of the shelves and the    *)
(* open loans: whichever batches passed between a handler's reading and    *)
(* its own.                                                                *)
ShelvesCounted ==
    edition.held =>
        /\ \A s \in Shelves : standing[s] = Cardinality(OnShelf(book, s))
        /\ tally = TallyOf(standing, lending)
        /\ tally.total = Cardinality({b \in Books : book[b].reg = "registered"
                                                    /\ book[b].at # "withdrawn"})

(* A copy is out on one loan exactly when it says so, to a reader who is   *)
(* not archived, and belongs to a place that is not closed; what was lent  *)
(* or reserved here is of an edition that is not archived; only one reader *)
(* at a time has a claim on a copy.                                        *)
LentOnce ==
    /\ \A b \in Books : book[b].reg = "registered" =>
        /\ CopyAgrees(book, lending, b)
        /\ book[b].at # "withdrawn" => book[b].shelf \in usable
        /\ Cardinality(LiveOn(b)) <= 1
    /\ \A l \in Lendings : lending[l].status \in {"reserved", "issued"} =>
        /\ edition.state # "archived"
        /\ l \notin OldLendings => member[lending[l].by].on

(* A wish that was met was met by a loan to the reader who had it, and by  *)
(* one loan; and no loan met two.                                          *)
WishesMet ==
    \A w \in Wishes : wish[w].status = "fulfilled" =>
        /\ lending[(wish[w].met)].by = wish[w].by
        /\ lending[(wish[w].met)].status \in {"issued", "returned"}
        /\ \A v \in Wishes \ {w} : wish[v].met # wish[w].met

CopiesSound == ShelvesCounted /\ LentOnce /\ WishesMet

(* What is over is never taken up again: a withdrawn copy does not come    *)
(* back, a loan that ended stays ended and keeps its reader and its copy,  *)
(* and a copy in the stock does not leave it otherwise.                    *)
CirculationStep ==
    /\ \A b \in Books :
        /\ book[b].reg = "registered" => book'[b].reg = "registered"
        /\ book[b].at = "withdrawn" => book'[b] = book[b]
    /\ \A l \in Lendings :
        /\ lending[l].status \in {"returned", "cancelled"} =>
               lending'[l].status = lending[l].status
        /\ lending[l].status # "none" => /\ lending'[l].by = lending[l].by
                                         /\ lending'[l].of = lending[l].of
=============================================================================
