------------------------------ MODULE Inventory ------------------------------
(***************************************************************************)
(* The stock of the school library as the D1 mutation store keeps it       *)
(* (src/lib/library-mutation-store.ts): shelves of copies (holdings), the  *)
(* journal of movements, teacher loans, active reservations, the derived   *)
(* stock totals, and the table of mutation commands that makes a repeated  *)
(* request harmless.                                                       *)
(*                                                                         *)
(* Every handler of that file runs in two parts.  It first reads, over     *)
(* several awaits, the rows it is about and refuses the request when they  *)
(* do not allow it; then it sends ONE atomic batch whose statements repeat *)
(* the rows' quantities and versions in their WHERE clauses.  A handler is *)
(* therefore modelled by an action that plans (Plan..., Read...) and one   *)
(* that commits the batch (Commit...), with any number of other handlers'  *)
(* steps between them.  A batch whose guards fail leaves no trace: the     *)
(* handler answers with a conflict, which is the action Drop, also taken   *)
(* when the worker dies before its batch.                                  *)
(*                                                                         *)
(* Abstractions: the shelf of a title is one row per location (the third   *)
(* key column, condition, is never compared by a handler); the rows of one *)
(* title in one teacher loan are added together; an input whose expected   *)
(* quantity differs from the stored one is refused without effect, so only *)
(* inputs that match what is read are enumerated.                          *)
(***************************************************************************)
EXTENDS Integers, FiniteSets, Functions

CONSTANTS
    Materials,      \* CAT-ids of titles
    Locations,      \* places of storage, service places excluded
    Library,        \* the place of type 'library', which cannot be closed
    Loans,          \* LOAN-ids (random UUIDs, never reused)
    Requests,       \* client request ids
    Workers,        \* concurrently running handler invocations
    Idle, NoLoan,   \* model values
    Opening,        \* shelves the catalogue may be loaded with
    MaxMove,        \* bound: copies one call may move
    MaxFund         \* bound: copies of one title

ASSUME LibraryAssumption == Library \in Locations
ASSUME BoundAssumption == MaxMove \in Nat /\ MaxFund \in Nat
ASSUME LoanAssumption == NoLoan \notin Loans
ASSUME FiniteAssumption == IsFiniteSet(Locations) /\ IsFiniteSet(Loans)

Slots == Materials \X Locations

ASSUME OpeningAssumption == Opening \subseteq [Slots -> Nat]

VARIABLES
    material,   \* title -> "active" | "archived"
    location,   \* place -> "active" | "inactive"
    holding,    \* slot  -> row of holdings: copies on the shelf and version
    reserved,   \* slot  -> copies held by active material reservations
    loan,       \* loan  -> teacher loan with its items
    ledger,     \* slot  -> sum of quantity_delta over the journal's lines
    totals,     \* title -> row of material_stock_totals
    command,    \* request id -> state of its row of mutation_commands
    handler     \* worker -> what it has read and is about to write

VARIABLES       \* history, not stored by the program
    fund,       \* title -> opening stock plus receipts, counts and write-offs
    effects     \* request id -> number of batches committed under it

stock == <<holding, reserved, loan, ledger, totals, fund>>
vars == <<material, location, stock, command, effects, handler>>

-----------------------------------------------------------------------------
(* Rows *)

NoRow == [qty |-> 0, ver |-> 0]
Row(n, v) == IF n = 0 THEN NoRow ELSE [qty |-> n, ver |-> v]
RowType == [qty : Nat, ver : Nat]

Zero == [m \in Materials |-> 0]
NewLoan == [status |-> "none", ver |-> 0, issued |-> Zero, returned |-> Zero]
LoanType == [status : {"none", "open", "closed"}, ver : Nat,
             issued : [Materials -> Nat], returned : [Materials -> Nat]]

Outstanding(l, m) == loan[l].issued[m] - loan[l].returned[m]
Settled(ln) == \A m \in Materials : ln.returned[m] = ln.issued[m]

TotalsOf(m, h, ln, rv) ==
    LET shelved == SumFunction([p \in Locations |-> h[<<m, p>>].qty])
        loaned  == SumFunction([l \in Loans |-> ln[l].issued[m] - ln[l].returned[m]])
    IN  [total |-> shelved + loaned, shelved |-> shelved, loaned |-> loaned,
         reserved |-> SumFunction([p \in Locations |-> rv[<<m, p>>]])]

RebuildBeforeWrites(ms) ==      \* mutant: the sums are taken too early
    totals' = [m \in Materials |-> IF m \in ms THEN TotalsOf(m, holding, loan, reserved)
                                               ELSE totals[m]]
RebuildStockTotals(ms) ==
    totals' = [m \in Materials |-> IF m \in ms THEN TotalsOf(m, holding', loan', reserved')
                                               ELSE totals[m]]

Ops == {"receive", "count", "transfer", "writeoff", "issue", "return", "archive"}
Plan == [op : Ops, stage : {"loan", "ready"}, req : Requests,
         mats : SUBSET Materials, touch : SUBSET Slots,
         seen : [Slots -> RowType], delta : [Slots -> Int],
         loan : Loans \cup {NoLoan}, loanVer : Nat,
         qty : [Materials -> Nat], given : [Materials -> Nat], closes : BOOLEAN]

TypeOK ==
    /\ material \in [Materials -> {"active", "archived"}]
    /\ location \in [Locations -> {"active", "inactive"}]
    /\ holding \in [Slots -> RowType]
    /\ reserved \in [Slots -> Nat]
    /\ loan \in [Loans -> LoanType]
    /\ ledger \in [Slots -> Int]
    /\ command \in [Requests -> {"absent", "completed"}]
    /\ effects \in [Requests -> Nat]
    /\ handler \in [Workers -> Plan \cup {Idle}]

Init ==
    /\ material = [m \in Materials |-> "active"]
    /\ location = [p \in Locations |-> "active"]
    /\ \E q \in Opening :
        /\ holding = [s \in Slots |-> Row(q[s], 1)]
        /\ ledger = q
        /\ fund = [m \in Materials |-> SumFunction([p \in Locations |-> q[<<m, p>>]])]
    /\ reserved = [s \in Slots |-> 0]
    /\ loan = [l \in Loans |-> NewLoan]
    /\ totals = [m \in Materials |-> TotalsOf(m, holding, loan, reserved)]
    /\ command = [r \in Requests |-> "absent"]
    /\ effects = [r \in Requests |-> 0]
    /\ handler = [w \in Workers |-> Idle]

-----------------------------------------------------------------------------
(* The read part of the handlers *)

AnyMaterials(ms) == TRUE        \* mutant: nobody asks
AnyPlaces(S) == TRUE            \* mutant: nobody asks
MaterialsActive(ms) == \A m \in ms : material[m] = "active"
PlacesActive(S) == \A s \in S : location[s[2]] = "active"
MaterialsOf(S) == {s[1] : s \in S}
Available(s) == holding[s].qty - reserved[s]

(* A handler starts with resolveMutationActor and replayCompletedCommand:  *)
(* a request whose command is completed is answered from it and reads      *)
(* nothing else.                                                           *)
Starts(w, r) == handler[w] = Idle /\ command[r] = "absent"

StockPlan(kind, r, S, d) ==
    [op |-> kind, stage |-> "ready", req |-> r, mats |-> MaterialsOf(S), touch |-> S,
     seen |-> [s \in Slots |-> IF s \in S THEN holding[s] ELSE NoRow],
     delta |-> [s \in Slots |-> IF s \in S THEN d[s] ELSE 0],
     loan |-> NoLoan, loanVer |-> 0, qty |-> Zero, given |-> Zero, closes |-> FALSE]

Plans(w, p) ==
    /\ handler' = [handler EXCEPT ![w] = p]
    /\ UNCHANGED <<material, location, stock, command, effects>>

Fits(m, d) == fund[m] + d <= MaxFund

PlanReceive(w, r) ==
    /\ Starts(w, r)
    /\ \E s \in Slots, n \in 1..MaxMove :
        /\ MaterialsActive({s[1]}) /\ PlacesActive({s})
        /\ Fits(s[1], n)
        /\ Plans(w, StockPlan("receive", r, {s}, [x \in {s} |-> n]))

PlanCount(w, r) ==
    /\ Starts(w, r)
    /\ \E s \in Slots, counted \in 0..MaxFund :
        /\ MaterialsActive({s[1]}) /\ PlacesActive({s})
        /\ counted >= reserved[s]
        /\ Fits(s[1], counted - holding[s].qty)
        /\ Plans(w, StockPlan("count", r, {s}, [x \in {s} |-> counted - holding[s].qty]))

Shift(m, from, to, n) ==
    [s \in {<<m, from>>, <<m, to>>} |-> IF s[2] = from THEN -n ELSE n]

PlanTransfer(w, r) ==
    /\ Starts(w, r)
    /\ \E m \in Materials, from, to \in Locations, n \in 1..MaxMove :
        /\ from # to
        /\ MaterialsActive({m}) /\ PlacesActive({<<m, from>>, <<m, to>>})
        /\ Available(<<m, from>>) >= n
        /\ Plans(w, StockPlan("transfer", r, {<<m, from>>, <<m, to>>}, Shift(m, from, to, n)))

PlanWriteOff(w, r) ==
    /\ Starts(w, r)
    /\ \E s \in Slots, n \in 1..MaxMove :
        /\ MaterialsActive({s[1]}) /\ PlacesActive({s})
        /\ Available(s) >= n
        /\ Plans(w, StockPlan("writeoff", r, {s}, [x \in {s} |-> -n]))

(* Where a basket of items, one place per title, takes or puts its copies. *)
Basket(at) == {<<m, at[m]>> : m \in DOMAIN at}
Quantities(n) == [m \in Materials |-> IF m \in DOMAIN n THEN n[m] ELSE 0]

PlanIssue(w, r) ==
    /\ Starts(w, r)
    /\ \E M \in (SUBSET Materials) \ {{}} : \E at \in [M -> Locations], n \in [M -> 1..MaxMove] :
        /\ MaterialsActive(M) /\ PlacesActive(Basket(at))
        /\ \A m \in M : Available(<<m, at[m]>>) >= n[m]
        /\ Plans(w, [StockPlan("issue", r, Basket(at), [s \in Basket(at) |-> -n[s[1]]])
                     EXCEPT !.qty = Quantities(n)])

(* returnLoanItems reads the loan's row before it reads the items, the     *)
(* place of return and the shelf rows, and decides from the items it read  *)
(* whether the loan will be closed.                                        *)
ReadLoan(w, r) ==
    /\ Starts(w, r)
    /\ \E l \in Loans :
        /\ loan[l].status = "open"
        /\ Plans(w, [StockPlan("return", r, {}, <<>>)
                     EXCEPT !.stage = "loan", !.loan = l, !.loanVer = loan[l].ver])

PlanReturn(w) ==
    /\ handler[w] # Idle
    /\ handler[w].op = "return" /\ handler[w].stage = "loan"
    /\ LET p == handler[w] IN
       \E M \in (SUBSET Materials) \ {{}} : \E at \in [M -> Locations], n \in [M -> 1..MaxMove] :
        /\ \A m \in M : n[m] <= Outstanding(p.loan, m)
        /\ PlacesActive(Basket(at))
        /\ Plans(w, [StockPlan("return", p.req, Basket(at), [s \in Basket(at) |-> n[s[1]]])
                     EXCEPT !.loan = p.loan, !.loanVer = p.loanVer,
                            !.qty = Quantities(n), !.given = loan[p.loan].returned,
                            !.closes = \A m \in Materials :
                                Quantities(n)[m] = Outstanding(p.loan, m)])

InUse(m) ==
    \/ \E p \in Locations : holding[<<m, p>>].qty > 0
    \/ \E l \in Loans : Outstanding(l, m) > 0
Reserved(m) == \E p \in Locations : reserved[<<m, p>>] > 0

PlanArchive(w, r) ==
    /\ Starts(w, r)
    /\ \E m \in Materials :
        /\ MaterialsActive({m}) /\ ~InUse(m) /\ ~Reserved(m)
        /\ Plans(w, [StockPlan("archive", r, {}, <<>>) EXCEPT !.mats = {m}])

(* The answer of a refused batch, or the loss of the worker before it. *)
Drop(w) ==
    /\ handler[w] # Idle
    /\ handler' = [handler EXCEPT ![w] = Idle]
    /\ UNCHANGED <<material, location, stock, command, effects>>

-----------------------------------------------------------------------------
(* The batch *)

After(p, s) == p.seen[s].qty + p.delta[s]

InsertCommandAgain(p) ==        \* mutant: no unique key
    /\ command' = [command EXCEPT ![p.req] = "completed"]
    /\ effects' = [effects EXCEPT ![p.req] = @ + 1]

(* INSERT INTO mutation_commands: its primary key is the request id.  The  *)
(* row is completed by the last statement of the same batch.               *)
InsertCommand(p) ==
    /\ command[p.req] = "absent"
    /\ command' = [command EXCEPT ![p.req] = "completed"]
    /\ effects' = [effects EXCEPT ![p.req] = @ + 1]

Ready(w, kind) ==
    /\ handler[w] # Idle
    /\ handler[w].op = kind /\ handler[w].stage = "ready"
    /\ InsertCommand(handler[w])
    /\ handler' = [handler EXCEPT ![w] = Idle]

(* INSERT, UPDATE or DELETE of the shelf rows, each matching the quantity  *)
(* and version that were read (an INSERT: that there is no such row).      *)
ShelvesAnyVersion(p) == TRUE    \* mutant: writes what it computed
ShelvesUnchanged(p) == \A s \in p.touch : holding[s] = p.seen[s]

(* The triggers holdings_reserved_update_guard and ..._delete_guard. *)
NoReservationGuard(p) == TRUE   \* mutant: no trigger
ReservationGuard(p) == \A s \in p.touch : After(p, s) >= reserved[s]

MoveStock(p) ==
    /\ ShelvesUnchanged(p)
    /\ ReservationGuard(p)
    /\ holding' = [s \in Slots |-> IF s \in p.touch THEN Row(After(p, s), p.seen[s].ver + 1)
                                                    ELSE holding[s]]
    /\ ledger' = [s \in Slots |-> IF s \in p.touch THEN ledger[s] + p.delta[s] ELSE ledger[s]]

RecordFund(p) ==
    fund' = [m \in Materials |->
        IF m \in p.mats THEN fund[m] + SumFunction([q \in Locations |-> p.delta[<<m, q>>]])
                        ELSE fund[m]]

CommitReceive(w) == LET p == handler[w] IN
    /\ Ready(w, "receive")
    /\ MaterialsActive(p.mats) /\ PlacesActive(p.touch)
    /\ MoveStock(p) /\ RecordFund(p)
    /\ UNCHANGED <<material, location, reserved, loan>>
    /\ RebuildStockTotals(p.mats)

(* Counting a shelf down to nothing deletes its row with a guard on the    *)
(* material only; the other three branches also require an active place.   *)
CommitCount(w) == LET p == handler[w] IN
    /\ Ready(w, "count")
    /\ MaterialsActive(p.mats)
    /\ \A s \in p.touch : (p.seen[s].qty > 0 /\ After(p, s) = 0) \/ PlacesActive({s})
    /\ MoveStock(p) /\ RecordFund(p)
    /\ UNCHANGED <<material, location, reserved, loan>>
    /\ RebuildStockTotals(p.mats)

CommitTransfer(w) == LET p == handler[w] IN
    /\ Ready(w, "transfer")
    /\ MaterialsActive(p.mats) /\ PlacesActive(p.touch)
    /\ MoveStock(p)
    /\ UNCHANGED <<material, location, reserved, loan, fund>>
    /\ RebuildStockTotals(p.mats)

CommitWriteOff(w) == LET p == handler[w] IN
    /\ Ready(w, "writeoff")
    /\ MaterialsActive(p.mats) /\ PlacesActive(p.touch)
    /\ MoveStock(p) /\ RecordFund(p)
    /\ UNCHANGED <<material, location, reserved, loan>>
    /\ RebuildStockTotals(p.mats)

CommitIssue(w) == LET p == handler[w] IN
    /\ Ready(w, "issue")
    /\ MaterialsActive(p.mats) /\ PlacesActive(p.touch)
    /\ MoveStock(p)
    /\ \E l \in Loans :
        /\ loan[l].status = "none"
        /\ loan' = [loan EXCEPT ![l] = [status |-> "open", ver |-> 1,
                                        issued |-> p.qty, returned |-> Zero]]
    /\ UNCHANGED <<material, location, reserved, fund>>
    /\ RebuildStockTotals(p.mats)

(* The batch of a return matches the items' and the loan's counters but    *)
(* does not ask again whether the title or the place of return is active.  *)
ItemsUnchanged(p) == \A m \in p.mats : loan[p.loan].returned[m] = p.given[m]
LoanStillOpen(p) == loan[p.loan].status = "open"     \* mutant: version not compared
LoanUnchanged(p) == loan[p.loan].status = "open" /\ loan[p.loan].ver = p.loanVer

CommitReturn(w) == LET p == handler[w] IN
    /\ Ready(w, "return")
    /\ ItemsUnchanged(p)
    /\ \A m \in p.mats : p.given[m] + p.qty[m] <= loan[p.loan].issued[m]
    /\ MoveStock(p)
    /\ LoanUnchanged(p)
    /\ loan' = [loan EXCEPT
          ![p.loan].status = IF p.closes THEN "closed" ELSE "open",
          ![p.loan].ver = p.loanVer + 1,
          ![p.loan].returned = [m \in Materials |->
                                    IF m \in p.mats THEN p.given[m] + p.qty[m] ELSE @[m]]]
    /\ UNCHANGED <<material, location, reserved, fund>>
    /\ RebuildStockTotals(p.mats)

(* The trigger materials_reserved_archive_guard refuses a reserved title. *)
CommitArchive(w) == LET p == handler[w] IN
    /\ Ready(w, "archive")
    /\ \A m \in p.mats : material[m] = "active" /\ ~InUse(m) /\ ~Reserved(m)
    /\ material' = [m \in Materials |-> IF m \in p.mats THEN "archived" ELSE material[m]]
    /\ UNCHANGED <<location, stock>>

-----------------------------------------------------------------------------
(* What the other stores do to the same tables, each as its atomic batch:  *)
(* the location registry opens and closes places, the teachers' material   *)
(* requests reserve, release and hand out copies.                          *)

(* updateManagedLocation: the guard of a closing is inside its UPDATE. *)
CloseLocation(p) ==
    /\ p # Library /\ location[p] = "active"
    /\ \A m \in Materials : holding[<<m, p>>].qty = 0 /\ reserved[<<m, p>>] = 0
    /\ location' = [location EXCEPT ![p] = "inactive"]
    /\ UNCHANGED <<material, stock, command, effects, handler>>

ReopenLocation(p) ==
    /\ location[p] = "inactive"
    /\ location' = [location EXCEPT ![p] = "active"]
    /\ UNCHANGED <<material, stock, command, effects, handler>>

(* readyMaterialRequest under the trigger ..._reservations_insert_guard. *)
Reserve(s, n) ==
    /\ MaterialsActive({s[1]}) /\ PlacesActive({s})
    /\ holding[s].qty >= reserved[s] + n
    /\ reserved' = [reserved EXCEPT ![s] = @ + n]
    /\ UNCHANGED <<material, location, holding, loan, ledger, fund, command, effects, handler>>
    /\ RebuildStockTotals({s[1]})

ReleaseUnchecked(s, n) ==       \* mutant: gives back more than is reserved
    /\ reserved' = [reserved EXCEPT ![s] = @ - n]
    /\ UNCHANGED <<material, location, holding, loan, ledger, fund, command, effects, handler>>
    /\ RebuildStockTotals({s[1]})
Release(s, n) ==
    /\ reserved[s] >= n
    /\ reserved' = [reserved EXCEPT ![s] = @ - n]
    /\ UNCHANGED <<material, location, holding, loan, ledger, fund, command, effects, handler>>
    /\ RebuildStockTotals({s[1]})

AnyLoan(l) == TRUE              \* mutant: appends to a closed loan
TakesMore(l) == loan[l].status \in {"none", "open"}

(* issueMaterialRequest: into a new loan, or appended to the open loan the *)
(* request already has, whose version it raises.                           *)
IssueReserved(s, n, l) ==
    /\ MaterialsActive({s[1]}) /\ PlacesActive({s})
    /\ reserved[s] >= n /\ holding[s].qty >= n
    /\ TakesMore(l)
    /\ reserved' = [reserved EXCEPT ![s] = @ - n]
    /\ holding' = [holding EXCEPT ![s] = Row(@.qty - n, @.ver + 1)]
    /\ ledger' = [ledger EXCEPT ![s] = @ - n]
    /\ loan' = [loan EXCEPT ![l].status = "open", ![l].ver = @ + 1,
                            ![l].issued[s[1]] = @ + n]
    /\ UNCHANGED <<material, location, fund, command, effects, handler>>
    /\ RebuildStockTotals({s[1]})

-----------------------------------------------------------------------------
Planning(w) ==
    \/ \E r \in Requests :
        \/ PlanReceive(w, r)
        \/ PlanCount(w, r)
        \/ PlanTransfer(w, r)
        \/ PlanWriteOff(w, r)
        \/ PlanIssue(w, r)
        \/ ReadLoan(w, r)
        \/ PlanArchive(w, r)
    \/ PlanReturn(w)

Committing(w) ==
    \/ CommitReceive(w)
    \/ CommitCount(w)
    \/ CommitTransfer(w)
    \/ CommitWriteOff(w)
    \/ CommitIssue(w)
    \/ CommitReturn(w)
    \/ CommitArchive(w)

OtherStores ==
    \/ \E p \in Locations : CloseLocation(p) \/ ReopenLocation(p)
    \/ \E s \in Slots, n \in 1..MaxMove :
        \/ Reserve(s, n)
        \/ Release(s, n)
        \/ \E l \in Loans : IssueReserved(s, n, l)

Next ==
    \/ \E w \in Workers : Planning(w) \/ Committing(w) \/ Drop(w)
    \/ OtherStores

Spec == Init /\ [][Next]_vars

-----------------------------------------------------------------------------
(* What a handler knows between its reads and its batch *)

PlanWellFormed(p) ==
    /\ \A s \in p.touch : s[1] \in p.mats
    /\ \A m \in Materials : p.qty[m] > 0 => m \in p.mats
    /\ p.op \in {"issue", "return"} /\ p.stage = "ready" =>
            p.mats # {} /\ \A m \in p.mats : p.qty[m] > 0
    /\ p.op = "return" => p.loan \in Loans

(* A return whose loan still has the version it read knows the loan: what  *)
(* it decided about closing is still true of the items, although it read   *)
(* the loan before the items.                                              *)
ReturnAccurate(p) ==
    /\ loan[p.loan].status # "none"
    /\ loan[p.loan].ver >= p.loanVer
    /\ p.stage = "ready" /\ LoanUnchanged(p) =>
            (p.closes <=> \A m \in Materials : p.qty[m] = Outstanding(p.loan, m))

PlansKnown ==
    \A w \in Workers : handler[w] # Idle =>
        /\ PlanWellFormed(handler[w])
        /\ handler[w].op = "return" => ReturnAccurate(handler[w])

UnusedLoansBlank == \A l \in Loans : loan[l].status = "none" => loan[l] = NewLoan

(* Every handler's plan is well formed and, while the version it carries   *)
(* is current, true of the loan it is about; unused loan ids hold nothing. *)
PlansAccurate == PlansKnown /\ UnusedLoansBlank

-----------------------------------------------------------------------------
(* Safety *)

(* Copies promised to a teacher's order are on the shelf they were         *)
(* promised from, whatever other handlers do between their reads and their *)
(* batches, and the title and the place stay usable.                       *)
ReservedOnShelf ==
    \A s \in Slots :
        /\ reserved[s] <= holding[s].qty
        /\ reserved[s] > 0 => material[s[1]] = "active" /\ location[s[2]] = "active"

(* The journal explains every shelf: although a batch writes the shelf's   *)
(* new quantity as an absolute number computed from an earlier read, no    *)
(* update is lost, so the lines of a slot add up to the copies on it.      *)
LedgerBalances == \A s \in Slots : ledger[s] = holding[s].qty

(* The published totals of a title always equal the sums they stand for:   *)
(* no handler of any store changes a summand without rebuilding its row.   *)
StockTotalsFresh == \A m \in Materials : totals[m] = TotalsOf(m, holding, loan, reserved)

(* Copies are neither made nor lost by transfers, issues and returns: on   *)
(* the shelves and with teachers there are exactly as many copies as the   *)
(* opening stock, receipts, counts and write-offs account for.             *)
CopiesConserved == \A m \in Materials : TotalsOf(m, holding, loan, reserved).total = fund[m]

(* A title removed from the catalogue has no copy anywhere: not on a       *)
(* shelf, not with a teacher, not reserved.                                *)
ArchivedHasNothing == \A m \in Materials : material[m] = "archived" => ~InUse(m) /\ ~Reserved(m)

(* A teacher loan is closed when, and only when, everything issued on it   *)
(* has come back, although the handler decides from items it read earlier  *)
(* and orders may add copies to the loan in between; nothing comes back    *)
(* twice.                                                                  *)
NeverOverReturned ==
    \A l \in Loans, m \in Materials : loan[l].returned[m] <= loan[l].issued[m]
LoanClosedIffSettled ==
    \A l \in Loans : loan[l].status # "none" => (loan[l].status = "closed" <=> Settled(loan[l]))
LoansBalance == NeverOverReturned /\ LoanClosedIffSettled

(* A request id stands for at most one change of the stock, and its        *)
(* command is completed exactly when that change was made: a lost answer   *)
(* and any number of retries, also concurrent ones, change nothing.        *)
EachRequestOnce ==
    \A r \in Requests : effects[r] = IF command[r] = "completed" THEN 1 ELSE 0

(* Every copy lies at a place that is in use: what the rollout checklist   *)
(* expects of holdings.  The batch of a return does not enforce it.        *)
StockAtActivePlaces ==
    \A s \in Slots : holding[s].qty > 0 => location[s[2]] = "active"

(* Only a return can put copies at a closed place; every other batch that  *)
(* adds copies to a shelf asks again whether its place is active.          *)
OnlyReturnsReachClosedPlaces ==
    [][\A s \in Slots :
        holding'[s].qty > holding[s].qty /\ location[s[2]] = "inactive"
            => \E w \in Workers : /\ handler[w] # Idle /\ handler[w].op = "return"
                                  /\ handler'[w] = Idle]_vars

(* A closed loan is history: no later return, order or retry changes it. *)
ClosedLoansFrozen == [][\A l \in Loans : loan[l].status = "closed" => loan'[l] = loan[l]]_vars

=============================================================================
