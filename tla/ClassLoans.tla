------------------------------ MODULE ClassLoans ------------------------------
(***************************************************************************)
(* Textbooks lent to classes (src/lib/library-mutation-store.ts): a class  *)
(* has at most one open statement, to which later issues append items; an  *)
(* item is returned in parts, to any place, and the librarian may correct, *)
(* remove and restore it, which moves copies between the item and the      *)
(* shelf it came from.                                                     *)
(*                                                                         *)
(* As in Inventory a handler reads, then sends one atomic batch.  What it  *)
(* read is its plan; any other handler may commit in between.  Reads of    *)
(* one plan are taken together: every row read is compared again in the    *)
(* batch, or is protected by the version of the statement.                 *)
(*                                                                         *)
(* Abstractions: one title, whose shelf at a place is one row; an issue    *)
(* has one line; who answers for a statement, its dates and its notes are  *)
(* data that only refuse a request; every writer of an item raises the     *)
(* version of its statement, so that an item needs no version of its own.  *)
(***************************************************************************)
EXTENDS Integers, FiniteSets, Functions

CONSTANTS
    Pupils,         \* classes (class_years)
    Depot, Rooms,   \* places: the library, which cannot be closed, and others
    Statements,     \* ids of class loans (random UUIDs)
    Items,          \* ids of items and of the statement lines made with them
    Legacy,         \* items of an old statement, not yet linked to its lines
    Porters,        \* concurrently running handler invocations
    Free, NoLoan, NoPupils, NoLine,     \* model values
    Copies,         \* copies of the title
    MaxMove,        \* bound: copies one call may move
    MaxLoanVersion, \* bound: version of a statement
    MaxRowVersion   \* bound: version of a class, of a shelf that Carry moves

ASSUME LoanBounds == {Copies, MaxMove, MaxLoanVersion, MaxRowVersion} \subseteq Nat
ASSUME LoanValues == /\ Depot \notin Rooms /\ NoLoan \notin Statements
                     /\ NoPupils \notin Pupils /\ NoLine \notin Items
ASSUME LegacyAssumption == IsFiniteSet(Legacy) /\ Legacy \subseteq Items
                           /\ Cardinality(Legacy) <= Copies
ASSUME LoanTables == IsFiniteSet(Rooms) /\ IsFiniteSet(Items)

VARIABLES
    pupils,     \* class -> status and version of its row of class_years
    room,       \* place -> in use
    shelf,      \* place -> row of holdings
    promised,   \* place -> copies held by active reservations
    statement,  \* row of class_loans
    item,       \* row of class_loan_items, with the line it is linked to
    porter,     \* handler -> what it has read and is about to write
    shelfLines, \* place -> sum of quantity_delta of the journals' lines
    itemLines   \* item  -> sum of quantity_delta of its transaction lines

stockVars == <<pupils, room, shelf, promised, statement, item, shelfLines, itemLines>>
loanVars == <<stockVars, porter>>

Places == Rooms \cup {Depot}
NoShelf == [qty |-> 0, ver |-> 0]
Shelf(n, v) == IF n = 0 THEN NoShelf ELSE [qty |-> n, ver |-> v]
ShelfType == [qty : Nat, ver : Nat]
PupilsType == [status : {"active", "closed"}, ver : Nat]
StatementType == [status : {"none", "open", "closed"}, of : Pupils \cup {NoPupils}, ver : Nat]
ItemType == [life : {"none", "active", "removed"}, of : Statements \cup {NoLoan},
             from : Places, issued : Nat, returned : Nat, line : Items \cup {NoLine}]
NoItem == [life |-> "none", of |-> NoLoan, from |-> Depot, issued |-> 0, returned |-> 0,
           line |-> NoLine]

PorterPlan ==
    [op : {"issue"}, of : Pupils, pupilsVer : Nat, loan : Statements \cup {NoLoan},
     loanVer : Nat, place : Places, seen : ShelfType, n : Nat]
    \cup [op : {"return"}, loan : Statements, loanVer : Nat, back : [Items -> Nat],
          place : Places, seen : ShelfType, closes : BOOLEAN]
    \cup [op : {"adjust"}, item : Items, row : ItemType, next : ItemType, loanVer : Nat,
          seen : ShelfType]
    \cup [op : {"link"}, item : Items, line : Items, loanVer : Nat]

LoansTypeOK ==
    /\ pupils \in [Pupils -> PupilsType]
    /\ room \in [Places -> BOOLEAN]
    /\ shelf \in [Places -> ShelfType]
    /\ promised \in [Places -> Nat]
    /\ statement \in [Statements -> StatementType]
    /\ item \in [Items -> ItemType]
    /\ porter \in [Porters -> PorterPlan \cup {Free}]
    /\ shelfLines \in [Places -> Int]
    /\ itemLines \in [Items -> Int]

(* All copies are in the library, but for one on each item of a statement  *)
(* made before items were linked to lines.                                 *)
LoansInit ==
    LET left == Copies - Cardinality(Legacy)
        Kept(p) == IF p = Depot THEN left ELSE 0 IN
    /\ pupils = [c \in Pupils |-> [status |-> "active", ver |-> 1]]
    /\ room = [p \in Places |-> TRUE]
    /\ shelf = [p \in Places |-> Shelf(Kept(p), 1)]
    /\ promised = [p \in Places |-> 0]
    /\ \E c \in Pupils, s \in Statements :
        /\ statement = [l \in Statements |->
               IF l = s /\ Legacy # {} THEN [status |-> "open", of |-> c, ver |-> 1]
               ELSE [status |-> "none", of |-> NoPupils, ver |-> 0]]
        /\ item = [i \in Items |-> IF i \in Legacy
               THEN [NoItem EXCEPT !.life = "active", !.of = s, !.issued = 1]
               ELSE NoItem]
    /\ porter = [w \in Porters |-> Free]
    /\ shelfLines = [p \in Places |-> Kept(p)]
    /\ itemLines = [i \in Items |-> IF i \in Legacy THEN -1 ELSE 0]

-----------------------------------------------------------------------------
(* What the statements ask *)

Out(i) == IF item[i].life = "active" THEN item[i].issued - item[i].returned ELSE 0
ItemsOf(l) == {i \in Items : item[i].of = l /\ item[i].life = "active"}
OpenFor(c) == {l \in Statements : statement[l].status = "open" /\ statement[l].of = c}
Active(c) == pupils[c].status = "active"
Available(p) == shelf[p].qty - promised[p]
Linked(i) == item[i].line # NoLine
FreeLines(l) == {x \in Items : item[x].of = l /\ \A i \in Items : item[i].line # x}

PicksUp(w, p) ==
    /\ porter[w] = Free
    /\ porter' = [porter EXCEPT ![w] = p]
    /\ UNCHANGED stockVars
Delivers(w, op) ==
    /\ porter[w] # Free /\ porter[w].op = op
    /\ porter' = [porter EXCEPT ![w] = Free]
PutsDown(w) ==
    /\ porter[w] # Free
    /\ porter' = [porter EXCEPT ![w] = Free]
    /\ UNCHANGED stockVars

OpenStatement(l, v) == statement[l].status = "open"     \* mutant: version not compared
SameStatement(l, v) == statement[l].status = "open" /\ statement[l].ver = v

(* Writes the shelf row that was read, d copies more or fewer, and the     *)
(* line that says so; the reservation triggers watch the row.              *)
SameShelf(p, seen) == shelf[p] = seen
Move(p, seen, d) ==
    /\ SameShelf(p, seen)
    /\ d < 0 => seen.qty + d >= promised[p]
    /\ shelf' = [shelf EXCEPT ![p] = Shelf(seen.qty + d, seen.ver + 1)]
    /\ shelfLines' = [shelfLines EXCEPT ![p] = @ + d]

Bump(l) == statement' = [statement EXCEPT ![l].ver = @ + 1]

-----------------------------------------------------------------------------
(* issueLoanToClass *)

PlanIssue(w, c, p, n) ==
    /\ Active(c) /\ room[p] /\ Available(p) >= n
    /\ \E l \in IF OpenFor(c) = {} THEN {NoLoan} ELSE OpenFor(c) :
        LET v == IF l = NoLoan THEN 0 ELSE statement[l].ver IN
        /\ v < MaxLoanVersion                                       \* bound
        /\ PicksUp(w, [op |-> "issue", of |-> c, pupilsVer |-> pupils[c].ver, loan |-> l,
                     loanVer |-> v, place |-> p, seen |-> shelf[p], n |-> n])

(* A first issue relies on the unique index over the open statements of a  *)
(* class; an append matches the statement's version.                       *)
NoOtherOpen(c) == OpenFor(c) = {}
Receives(p, l) ==
    IF p.loan = NoLoan THEN statement[l].status = "none" /\ NoOtherOpen(p.of)
    ELSE l = p.loan /\ statement[l].of = p.of /\ SameStatement(l, p.loanVer)

CommitIssue(w) ==
    LET p == porter[w] IN
    /\ Delivers(w, "issue")
    /\ pupils[p.of] = [status |-> "active", ver |-> p.pupilsVer]
    /\ room[p.place]
    /\ \E l \in Statements, i \in Items :
        /\ Receives(p, l) /\ item[i].life = "none"
        /\ statement' = [statement EXCEPT ![l] =
               [status |-> "open", of |-> p.of, ver |-> p.loanVer + 1]]
        /\ item' = [item EXCEPT ![i] =
               [life |-> "active", of |-> l, from |-> p.place, issued |-> p.n,
                returned |-> 0, line |-> i]]
        /\ itemLines' = [itemLines EXCEPT ![i] = @ - p.n]
    /\ Move(p.place, p.seen, -p.n)
    /\ UNCHANGED <<pupils, room, promised>>

(* returnClassLoanItems, which also serves a class that is closed *)

PlanReturn(w, l, p) ==
    /\ statement[l].status = "open" /\ room[p]
    /\ statement[l].ver < MaxLoanVersion                            \* bound
    /\ \E back \in [Items -> 0..MaxMove] :
        /\ \A i \in Items : back[i] > 0 => i \in ItemsOf(l) /\ back[i] <= Out(i)
        /\ \E i \in Items : back[i] > 0
        /\ PicksUp(w, [op |-> "return", loan |-> l, loanVer |-> statement[l].ver,
                     back |-> back, place |-> p, seen |-> shelf[p],
                     closes |-> \A i \in ItemsOf(l) : Out(i) = back[i]])

CommitReturn(w) ==
    LET p == porter[w] IN
    /\ Delivers(w, "return")
    /\ SameStatement(p.loan, p.loanVer)
    /\ \A i \in Items : p.back[i] > 0 => i \in ItemsOf(p.loan) /\ p.back[i] <= Out(i)
    /\ room[p.place]
    /\ item' = [i \in Items |-> [item[i] EXCEPT !.returned = @ + p.back[i]]]
    /\ itemLines' = [i \in Items |-> itemLines[i] + p.back[i]]
    /\ Move(p.place, p.seen, SumFunction(p.back))
    /\ statement' = [statement EXCEPT ![p.loan] =
           [status |-> IF p.closes THEN "closed" ELSE "open", of |-> statement[p.loan].of,
            ver |-> p.loanVer + 1]]
    /\ UNCHANGED <<pupils, room, promised>>

(* adjustClassLoanItem: set_item_quantity, remove_item, restore_item.  The *)
(* batch asks again for the statement, the class and the item, but not     *)
(* whether the place of the item is still in use.                          *)

Owed(r) == IF r.life = "active" THEN r.issued - r.returned ELSE 0

Adjustments(r) ==
    IF r.life = "removed"
    THEN {[r EXCEPT !.life = "active", !.issued = n] : n \in 1..Copies}
    ELSE {[r EXCEPT !.issued = n] : n \in 1..Copies} \cup {[r EXCEPT !.life = "removed"]}

PlanAdjust(w, i) ==
    LET r == item[i]  l == r.of IN
    /\ r.life # "none" /\ Linked(i)
    /\ statement[l].status = "open" /\ Active(statement[l].of)
    /\ statement[l].ver < MaxLoanVersion                            \* bound
    /\ room[r.from]
    /\ \E next \in Adjustments(r) \ {r} :
        /\ next.issued >= r.returned
        /\ Owed(next) - Owed(r) \in (-MaxMove)..MaxMove             \* bound
        /\ Owed(next) > Owed(r) => Available(r.from) >= Owed(next) - Owed(r)
        /\ PicksUp(w, [op |-> "adjust", item |-> i, row |-> r, next |-> next,
                     loanVer |-> statement[l].ver, seen |-> shelf[r.from]])

SameItem(i, r) == item[i] = r
ClassAsRead(l) == TRUE                                  \* mutant: class not asked again
ClassStillActive(l) == Active(statement[l].of)

CommitAdjust(w) ==
    LET p == porter[w]  l == p.row.of  d == Owed(p.row) - Owed(p.next) IN
    /\ Delivers(w, "adjust")
    /\ SameStatement(l, p.loanVer) /\ ClassStillActive(l)
    /\ SameItem(p.item, p.row)
    /\ item' = [item EXCEPT ![p.item] = p.next]
    /\ itemLines' = [itemLines EXCEPT ![p.item] = @ + d]
    /\ IF d = 0 THEN UNCHANGED <<shelf, shelfLines>> ELSE Move(p.row.from, p.seen, d)
    /\ Bump(l)
    /\ UNCHANGED <<pupils, room, promised>>

(* linkLegacyClassLoanItem *)

PlanLink(w, i, x) ==
    LET l == item[i].of IN
    /\ item[i].life # "none" /\ ~Linked(i) /\ x \in FreeLines(l)
    /\ statement[l].status = "open" /\ Active(statement[l].of)
    /\ statement[l].ver < MaxLoanVersion                            \* bound
    /\ PicksUp(w, [op |-> "link", item |-> i, line |-> x, loanVer |-> statement[l].ver])

StillUnlinked(i, x, l) == ~Linked(i) /\ x \in FreeLines(l)

CommitLink(w) ==
    LET p == porter[w]  l == item[p.item].of IN
    /\ Delivers(w, "link")
    /\ SameStatement(l, p.loanVer) /\ ClassStillActive(l)
    /\ StillUnlinked(p.item, p.line, l)
    /\ item' = [item EXCEPT ![p.item].line = p.line]
    /\ Bump(l)
    /\ UNCHANGED <<pupils, room, shelf, promised, shelfLines, itemLines>>

(* updateClassLoanMetadata: only the version is of interest here, and the  *)
(* batch repeats everything that was read.                                 *)
UpdateMetadata(l) ==
    /\ statement[l].status = "open" /\ Active(statement[l].of)
    /\ statement[l].ver < MaxLoanVersion                            \* bound
    /\ Bump(l)
    /\ UNCHANGED <<pupils, room, shelf, promised, item, shelfLines, itemLines, porter>>

-----------------------------------------------------------------------------
(* What other stores do to the rows read here, each as its atomic batch *)

Owes(c) == \E l \in OpenFor(c), i \in Items : item[i].of = l /\ Out(i) > 0
OwesNothing(c) == ~Owes(c)

ClosePupils(c) ==
    /\ Active(c) /\ OwesNothing(c)
    /\ pupils[c].ver < MaxRowVersion                                \* bound
    /\ pupils' = [pupils EXCEPT ![c] = [status |-> "closed", ver |-> @.ver + 1]]
    /\ UNCHANGED <<room, shelf, promised, statement, item, shelfLines, itemLines, porter>>

ReopenPupils(c) ==
    /\ ~Active(c)
    /\ pupils[c].ver < MaxRowVersion                                \* bound
    /\ pupils' = [pupils EXCEPT ![c] = [status |-> "active", ver |-> @.ver + 1]]
    /\ UNCHANGED <<room, shelf, promised, statement, item, shelfLines, itemLines, porter>>

CloseRoom(p) ==
    /\ room[p] /\ shelf[p].qty = 0 /\ promised[p] = 0
    /\ room' = [room EXCEPT ![p] = FALSE]
    /\ UNCHANGED <<pupils, shelf, promised, statement, item, shelfLines, itemLines, porter>>

ReopenRoom(p) ==
    /\ ~room[p]
    /\ room' = [room EXCEPT ![p] = TRUE]
    /\ UNCHANGED <<pupils, shelf, promised, statement, item, shelfLines, itemLines, porter>>

Carry(p, q) ==
    /\ p # q /\ room[p] /\ room[q] /\ Available(p) > 0
    /\ shelf[p].ver < MaxRowVersion                                 \* bound
    /\ shelf' = [shelf EXCEPT ![p] = Shelf(@.qty - 1, @.ver + 1),
                              ![q] = Shelf(@.qty + 1, @.ver + 1)]
    /\ shelfLines' = [shelfLines EXCEPT ![p] = @ - 1, ![q] = @ + 1]
    /\ UNCHANGED <<pupils, room, promised, statement, item, itemLines, porter>>

Promise(p) ==
    /\ room[p] /\ Available(p) > 0
    /\ promised' = [promised EXCEPT ![p] = @ + 1]
    /\ UNCHANGED <<pupils, room, shelf, statement, item, shelfLines, itemLines, porter>>

WithdrawAnyway(p) ==            \* mutant: of a promise that is no longer held
    /\ promised' = [promised EXCEPT ![p] = @ - 1]
    /\ UNCHANGED <<pupils, room, shelf, statement, item, shelfLines, itemLines, porter>>
Withdraw(p) ==
    /\ promised[p] > 0
    /\ promised' = [promised EXCEPT ![p] = @ - 1]
    /\ UNCHANGED <<pupils, room, shelf, statement, item, shelfLines, itemLines, porter>>

Desk ==
    \E w \in Porters :
        \/ \E c \in Pupils, p \in Places, n \in 1..MaxMove : PlanIssue(w, c, p, n)
        \/ \E l \in Statements, p \in Places : PlanReturn(w, l, p)
        \/ \E i \in Items : PlanAdjust(w, i)
        \/ \E i, x \in Items : PlanLink(w, i, x)
        \/ CommitIssue(w) \/ CommitReturn(w) \/ CommitAdjust(w) \/ CommitLink(w)
        \/ PutsDown(w)

Others ==
    \/ \E l \in Statements : UpdateMetadata(l)
    \/ \E c \in Pupils : ClosePupils(c) \/ ReopenPupils(c)
    \/ \E p \in Rooms : CloseRoom(p) \/ ReopenRoom(p)
    \/ \E p, q \in Places : Carry(p, q)
    \/ \E p \in Places : Promise(p) \/ Withdraw(p)

LoansNext == Desk \/ Others
LoansSpec == LoansInit /\ [][LoansNext]_loanVars

-----------------------------------------------------------------------------
(* Properties *)

(* No copy is made or lost by issues, partial returns to other places,     *)
(* corrections, removals and restorations: the journals' lines explain     *)
(* every shelf and what is still out on every item, the copies add up, and *)
(* what is promised to orders stays on its shelf.                          *)
CopiesAccounted ==
    /\ \A p \in Places : shelfLines[p] = shelf[p].qty /\ promised[p] <= shelf[p].qty
    /\ \A i \in Items : itemLines[i] = -Out(i)
    /\ SumFunction([p \in Places |-> shelf[p].qty]) + SumFunction([i \in Items |-> Out(i)])
           = Copies

(* A class has one open statement; a statement closes only when everything *)
(* on it has come back; nothing comes back twice; an item and a line of    *)
(* the printed statement belong to each other and to one statement.        *)
StatementsSound ==
    /\ \A c \in Pupils : Cardinality(OpenFor(c)) <= 1
    /\ \A i \in Items : item[i].life # "none" =>
        /\ statement[item[i].of].status = "closed" => Out(i) = 0
        /\ item[i].returned <= item[i].issued
        /\ Linked(i) => item[item[i].line].of = item[i].of
    /\ \A i, j \in Items : Linked(i) /\ item[i].line = item[j].line => i = j

(* README.md:64: a class does not close while a class loan of it is out,   *)
(* whatever issue, correction or restoration is under way when it closes.  *)
ClosedClassOwesNothing == \A c \in Pupils : ~Active(c) => ~Owes(c)

(* The three together. *)
LoansSound == CopiesAccounted /\ StatementsSound /\ ClosedClassOwesNothing

(* The statement of a closed class is history until the class reopens.     *)
FrozenStep ==
    \A l \in Statements :
        statement[l].status # "none" /\ ~Active(statement[l].of) =>
            /\ statement'[l] = statement[l]
            /\ \A i \in Items : item[i].of = l => item'[i] = item[i]
ClosedClassFrozen == [][FrozenStep]_loanVars
=============================================================================
