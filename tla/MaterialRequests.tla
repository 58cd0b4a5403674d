-------------------------- MODULE MaterialRequests --------------------------
(***************************************************************************)
(* Teachers' orders of textbooks (src/lib/teacher-material-request-store.ts):*)
(* a teacher places an order, the librarian reviews it, prepares copies by *)
(* reserving them on their shelves, hands reserved copies over into a      *)
(* teacher loan, or releases what was not collected.                       *)
(*                                                                         *)
(* A handler reads the order with its reservations, then the shelves and   *)
(* the loan it needs, and computes absolute new values; one atomic batch   *)
(* writes them if the order still has the version that was read and the    *)
(* shelves and the loan still have theirs (Plan... and Commit...; Drop is  *)
(* the answer 409 or the loss of the worker).  The reads of one handler    *)
(* are made in one step: everything they return is compared again by the   *)
(* batch, except the pickup place, which is read last.                     *)
(*                                                                         *)
(* Abstractions: an item of an order is its title; the reservation rows of *)
(* one order, title and place are added together, as the loan's rows of    *)
(* one title are; review notes, dates, events, notifications and the       *)
(* hiding of finished orders are left out.  Rows from before reservations  *)
(* existed (a prepared order that already has its loan) are not in Init,   *)
(* so the transition 'complete' is the issue of everything reserved.       *)
(* The other stores' effects on shelves, places and loans are the actions  *)
(* under "Other stores"; they are modelled in detail in Inventory.         *)
(***************************************************************************)
EXTENDS Integers, FiniteSets, Functions

CONSTANTS
    Orders, Materials, Locations, Loans, Requests, Workers,
    Library,            \* the place that cannot be closed
    TeacherOf,          \* order -> the teacher who would place it
    Asked,              \* order -> title -> copies it asks for
    MaxAsked,           \* MATERIAL_REQUEST_MAX_QUANTITY
    Limit,              \* ACTIVE_MATERIAL_REQUEST_LIMIT
    MaxStock,           \* bound: copies on one shelf
    MaxVersion,         \* bound: changes of one shelf by other stores
    Idle, NoLoan, NoPlace

Slots == Materials \X Locations

ASSUME AskedAssumption == MaxAsked \in Nat /\ Asked \in [Orders -> [Materials -> 0..MaxAsked]]
ASSUME EachOrderAsks == \A o \in Orders : \E m \in Materials : Asked[o][m] > 0
ASSUME LibraryAssumption == Library \in Locations
ASSUME BoundAssumption == Limit \in Nat /\ MaxStock \in Nat /\ MaxVersion \in Nat
ASSUME NoneAssumption == NoLoan \notin Loans /\ NoPlace \notin Locations
ASSUME FiniteAssumption ==
    IsFiniteSet(Orders) /\ IsFiniteSet(Materials) /\ IsFiniteSet(Locations) /\ IsFiniteSet(Requests)

VARIABLES
    order,      \* material_requests with their items
    rsv,        \* order -> slot -> its rows of material_request_reservations
    shelf,      \* slot -> row of holdings
    loan,       \* teacher loans
    location,   \* place -> "active" | "inactive"
    command,    \* request id -> state of its row of mutation_commands
    handler     \* worker -> what it has read and is about to write

orders == <<order, rsv>>
vars == <<order, rsv, shelf, loan, location, command, handler>>

-----------------------------------------------------------------------------
(* Rows *)

Nothing == [m \in Materials |-> 0]
NoCopies == [s \in Slots |-> 0]
NoRow == [qty |-> 0, ver |-> 0]
Row(n, v) == IF n = 0 THEN NoRow ELSE [qty |-> n, ver |-> v]
NoReservation == [reserved |-> 0, issued |-> 0, released |-> 0]
ReservationType == [reserved : Nat, issued : Nat, released : Nat]

Prepared == {"ready", "partially_ready"}
Waiting == {"submitted", "in_review"}
Final == {"completed", "rejected", "cancelled"}
Quantity == 0..MaxAsked

OrderType == [status : {"none"} \cup Waiting \cup Prepared \cup Final, ver : Nat,
              approved : [Materials -> Nat], fulfilled : [Materials -> Nat],
              loan : Loans \cup {NoLoan}, pickup : Locations \cup {NoPlace}]
LoanType == [status : {"none", "open", "closed"}, ver : Nat,
             issued : [Materials -> Nat], returned : [Materials -> Nat]]
Plan == [op : {"create", "cancel", "start_review", "reject", "ready", "issue", "release"},
         req : Requests, order : Orders, ver : Nat,
         rows : [Slots -> ReservationType], take : [Slots -> Nat],
         seen : [Slots -> [qty : Nat, ver : Nat]], expect : [Slots -> Nat],
         status : {"none"} \cup Waiting \cup Prepared \cup Final, approved : [Materials -> Nat],
         loan : Loans \cup {NoLoan}, loanVer : Nat, pickup : Locations \cup {NoPlace}]

ASSUME IdleAssumption == Idle \notin Plan

TypeOK ==
    /\ order \in [Orders -> OrderType]
    /\ rsv \in [Orders -> [Slots -> ReservationType]]
    /\ shelf \in [Slots -> [qty : Nat, ver : Nat]]
    /\ loan \in [Loans -> LoanType]
    /\ location \in [Locations -> {"active", "inactive"}]
    /\ command \in [Requests -> {"absent", "completed"}]
    /\ handler \in [Workers -> Plan \cup {Idle}]

Init ==
    /\ order = [o \in Orders |-> [status |-> "none", ver |-> 0, approved |-> Nothing,
                                  fulfilled |-> Nothing, loan |-> NoLoan, pickup |-> NoPlace]]
    /\ rsv = [o \in Orders |-> [s \in Slots |-> NoReservation]]
    /\ shelf = [s \in Slots |-> Row(MaxStock, 1)]
    /\ loan = [l \in Loans |-> [status |-> "none", ver |-> 0, issued |-> Nothing, returned |-> Nothing]]
    /\ location = [p \in Locations |-> "active"]
    /\ command = [r \in Requests |-> "absent"]
    /\ handler = [w \in Workers |-> Idle]

Remaining(o, s) == rsv[o][s].reserved - rsv[o][s].issued - rsv[o][s].released
ActiveTotal(o) == SumFunction([s \in Slots |-> Remaining(o, s)])
Held(s) == SumFunction([o \in Orders |-> Remaining(o, s)])
OfTitle(n) == [m \in Materials |-> SumFunction([p \in Locations |-> n[<<m, p>>]])]
TotalOf(n) == SumFunction(n)

Live(t) == {o \in Orders : TeacherOf[o] = t /\ order[o].status \in Waiting \cup Prepared}

(* countActiveMaterialRequests *)
WithinLimit(t) == Cardinality(Live(t)) < Limit

-----------------------------------------------------------------------------
(* The read part of the handlers *)

Starts(w, r) == handler[w] = Idle /\ command[r] = "absent"

Plans(w, p) ==
    /\ handler' = [handler EXCEPT ![w] = p]
    /\ UNCHANGED <<order, rsv, shelf, loan, location, command>>

PlanOf(kind, r, o, status) ==
    [op |-> kind, req |-> r, order |-> o, ver |-> order[o].ver, rows |-> rsv[o],
     take |-> NoCopies, seen |-> [s \in Slots |-> NoRow], expect |-> NoCopies,
     status |-> status, approved |-> order[o].approved,
     loan |-> NoLoan, loanVer |-> 0, pickup |-> order[o].pickup]

PlanCreate(w, r, o) ==
    /\ Starts(w, r)
    /\ order[o].status = "none"
    /\ WithinLimit(TeacherOf[o])
    /\ Plans(w, PlanOf("create", r, o, "submitted"))

CancellableAlways == Waiting \cup Prepared     \* mutant: also a prepared order
Cancellable == Waiting

(* cancelTeacherMaterialRequest and transitionMaterialRequest *)
PlanTransition(w, r, o) ==
    /\ Starts(w, r)
    /\ \/ order[o].status \in Cancellable /\ Plans(w, PlanOf("cancel", r, o, "cancelled"))
       \/ order[o].status = "submitted" /\ Plans(w, PlanOf("start_review", r, o, "in_review"))
       \/ order[o].status \in Waiting /\ Plans(w, PlanOf("reject", r, o, "rejected"))

WholeOrder(o, approved) == \A m \in Materials : approved[m] = Asked[o][m]
ReadyStatusAlways(o, approved) == "ready"       \* mutant: parts are not told apart
ReadyStatus(o, approved) == IF WholeOrder(o, approved) THEN "ready" ELSE "partially_ready"

Plus(a, b) == [m \in Materials |-> a[m] + b[m]]
Minus(a, b) == [m \in Materials |-> a[m] - b[m]]

(* Free copies of a slot. *)
Effective(s) == shelf[s].qty - Held(s)

(* The librarian raises the approved quantities of some titles, each from  *)
(* one place, and chooses where the order is collected; without a raise it *)
(* is a change of the pickup place or of the dates alone.                  *)
PlanReady(w, r, o) ==
    /\ Starts(w, r)
    /\ order[o].status \in Waiting \cup Prepared
    /\ \E M \in SUBSET Materials : \E from \in [M -> Locations], n \in [M -> 1..MaxAsked],
          pickup \in Locations :
        LET add == [s \in Slots |-> IF s[1] \in M /\ from[s[1]] = s[2] THEN n[s[1]] ELSE 0]
            approved == Plus(order[o].approved, OfTitle(add))
        IN  /\ \A m \in M : approved[m] <= Asked[o][m]
            /\ \E m \in Materials : approved[m] > 0
            /\ location[pickup] = "active"
            /\ \A s \in Slots : add[s] > 0 => location[s[2]] = "active" /\ add[s] <= Effective(s)
            /\ Plans(w, [PlanOf("ready", r, o, ReadyStatus(o, approved)) EXCEPT
                            !.take = add, !.approved = approved, !.pickup = pickup,
                            !.expect = [s \in Slots |-> IF add[s] > 0 THEN Effective(s) ELSE 0]])

(* Part of what the order still has reserved. *)
Portions(o) == {n \in [Slots -> Quantity] : /\ n # NoCopies
                                            /\ \A s \in Slots : n[s] <= Remaining(o, s)}

(* issueMaterialRequest; the action 'complete' is the largest portion. *)
PlanIssue(w, r, o) ==
    /\ Starts(w, r)
    /\ order[o].status \in Prepared
    /\ \E n \in Portions(o) :
        /\ \A s \in Slots : n[s] > 0 => shelf[s].ver >= 1 /\ shelf[s].qty >= n[s]
        /\ order[o].loan # NoLoan => loan[order[o].loan].status = "open"
        /\ Plans(w, [PlanOf("issue", r, o,
                        IF TotalOf(n) = ActiveTotal(o) THEN "completed"
                        ELSE ReadyStatus(o, order[o].approved)) EXCEPT
                        !.take = n,
                        !.seen = [s \in Slots |-> IF n[s] > 0 THEN shelf[s] ELSE NoRow],
                        !.loan = order[o].loan,
                        !.loanVer = IF order[o].loan = NoLoan THEN 0 ELSE loan[order[o].loan].ver])

ReleaseStatusAlone(o, n) ==     \* mutant: forgets what was handed over
    IF TotalOf(n) # ActiveTotal(o) THEN ReadyStatus(o, Minus(order[o].approved, OfTitle(n)))
    ELSE "cancelled"
ReleaseStatus(o, n) ==
    IF TotalOf(n) # ActiveTotal(o) THEN ReadyStatus(o, Minus(order[o].approved, OfTitle(n)))
    ELSE IF TotalOf(order[o].fulfilled) > 0 THEN "completed" ELSE "cancelled"

PlanRelease(w, r, o) ==
    /\ Starts(w, r)
    /\ order[o].status \in Prepared
    /\ \E n \in Portions(o) :
        Plans(w, [PlanOf("release", r, o, ReleaseStatus(o, n)) EXCEPT !.take = n])

Drop(w) ==
    /\ handler[w] # Idle
    /\ handler' = [handler EXCEPT ![w] = Idle]
    /\ UNCHANGED <<order, rsv, shelf, loan, location, command>>

-----------------------------------------------------------------------------
(* The batch *)

InsertCommandAgain(r) == command' = [command EXCEPT ![r] = "completed"]  \* mutant: no unique key
InsertCommand(r) == command[r] = "absent" /\ command' = [command EXCEPT ![r] = "completed"]

Begins(w, kind) ==
    /\ handler[w] # Idle /\ handler[w].op = kind
    /\ InsertCommand(handler[w].req)
    /\ handler' = [handler EXCEPT ![w] = Idle]

Taken(p) == {s \in Slots : p.take[s] > 0}

(* Every UPDATE of material_requests compares the version and the status. *)
StatusUnchanged(p, from) == order[p.order].status \in from     \* mutant: version not compared
NothingCompared(p, from) == TRUE                                \* mutant: writes what it computed
OrderUnchanged(p, from) == order[p.order].ver = p.ver /\ order[p.order].status \in from
RowsUnchanged(p) == \A s \in Taken(p) : rsv[p.order][s] = p.rows[s]

(* The trigger material_request_reservations_update_guard. *)
StillHeld(s, n) == shelf[s].ver > 0 /\ shelf[s].qty >= Held(s) - n

NoLimitInBatch(t) == TRUE       \* mutant: counted only before the batch
LimitInBatch(t) == WithinLimit(t)

(* INSERT ... SELECT with the count of the teacher's live orders inside. *)
CommitCreate(w) == LET o == handler[w].order IN
    /\ Begins(w, "create")
    /\ order[o].status = "none"
    /\ LimitInBatch(TeacherOf[o])
    /\ order' = [order EXCEPT ![o].status = "submitted", ![o].ver = 1]
    /\ UNCHANGED <<rsv, shelf, loan, location>>

CommitTransition(w) == LET p == handler[w]  o == p.order IN
    /\ \/ Begins(w, "cancel") /\ OrderUnchanged(p, Cancellable)
       \/ Begins(w, "start_review") /\ OrderUnchanged(p, {"submitted"})
       \/ Begins(w, "reject") /\ OrderUnchanged(p, Waiting)
    /\ order' = [order EXCEPT ![o].status = p.status, ![o].ver = @ + 1]
    /\ UNCHANGED <<rsv, shelf, loan, location>>

NotCompared(p, s) == shelf[s].ver > 0   \* mutant: what was free when it was read
(* The condition of the INSERT and the trigger ..._reservations_insert_guard. *)
StillFree(p, s) ==
    shelf[s].ver > 0 /\ Effective(s) = p.expect[s] /\ p.take[s] <= Effective(s)

(* INSERT of the reservations, each only if its shelf still has exactly    *)
(* the free copies the librarian saw, then of the items and the order.     *)
CommitReady(w) == LET p == handler[w]  o == p.order IN
    /\ Begins(w, "ready")
    /\ OrderUnchanged(p, Waiting \cup Prepared)
    /\ \A s \in Taken(p) : location[s[2]] = "active" /\ StillFree(p, s)
    /\ rsv' = [rsv EXCEPT ![o] = [s \in Slots |-> [rsv[o][s] EXCEPT !.reserved = @ + p.take[s]]]]
    /\ order' = [order EXCEPT ![o].status = p.status, ![o].ver = @ + 1,
                              ![o].approved = p.approved, ![o].pickup = p.pickup]
    /\ UNCHANGED <<shelf, loan, location>>

(* The UPDATE of an item is skipped, without refusing the batch, when it   *)
(* would hand over more than was approved.                                 *)
Fulfilled(item, n) ==
    [m \in Materials |-> IF item.fulfilled[m] + n[m] <= item.approved[m]
                         THEN item.fulfilled[m] + n[m] ELSE item.fulfilled[m]]

LoanAlwaysNew(p, l) == loan[l].status = "none"  \* mutant: each handover opens a loan
(* A new loan has version 1; an existing one must still be open and have   *)
(* the version that was read.                                              *)
LoanFor(p, l) ==
    IF p.loan = NoLoan THEN loan[l].status = "none"
    ELSE l = p.loan /\ loan[l].status = "open" /\ loan[l].ver = p.loanVer

CommitIssue(w) == LET p == handler[w]  o == p.order IN
    /\ Begins(w, "issue")
    /\ OrderUnchanged(p, Prepared) /\ RowsUnchanged(p)
    /\ \A s \in Taken(p) :
        location[s[2]] = "active" /\ StillHeld(s, p.take[s]) /\ shelf[s] = p.seen[s]
    /\ rsv' = [rsv EXCEPT ![o] = [s \in Slots |-> [rsv[o][s] EXCEPT !.issued = @ + p.take[s]]]]
    /\ shelf' = [s \in Slots |-> IF s \in Taken(p)
                                 THEN Row(p.seen[s].qty - p.take[s], p.seen[s].ver + 1)
                                 ELSE shelf[s]]
    /\ \E l \in Loans :
        /\ LoanFor(p, l)
        /\ loan' = [loan EXCEPT ![l].status = "open", ![l].ver = @ + 1,
                                ![l].issued = Plus(@, OfTitle(p.take))]
        /\ order' = [order EXCEPT ![o].status = p.status, ![o].ver = @ + 1, ![o].loan = l,
                                  ![o].fulfilled = Fulfilled(order[o], OfTitle(p.take))]
    /\ UNCHANGED location

ApprovedKept(item, n) == item.approved                  \* mutant: not lowered
ApprovedOfHanded(item, n) == Minus(item.fulfilled, n)   \* mutant: another column
(* As with Fulfilled, an item that would drop below what was handed over   *)
(* is left alone.                                                          *)
Approved(item, n) ==
    [m \in Materials |-> IF item.approved[m] - n[m] >= item.fulfilled[m]
                         THEN item.approved[m] - n[m] ELSE item.approved[m]]

CommitRelease(w) == LET p == handler[w]  o == p.order IN
    /\ Begins(w, "release")
    /\ OrderUnchanged(p, Prepared) /\ RowsUnchanged(p)
    /\ \A s \in Taken(p) : StillHeld(s, p.take[s])
    /\ rsv' = [rsv EXCEPT ![o] = [s \in Slots |-> [rsv[o][s] EXCEPT !.released = @ + p.take[s]]]]
    /\ order' = [order EXCEPT ![o].status = p.status, ![o].ver = @ + 1,
                              ![o].approved = Approved(order[o], OfTitle(p.take))]
    /\ UNCHANGED <<shelf, loan, location>>

-----------------------------------------------------------------------------
(* Other stores (modelled in detail in Inventory) *)

(* Receipts, counts, transfers, write-offs and issues: whatever they do to *)
(* a shelf, the triggers on holdings keep its reserved copies there.       *)
ChangeShelf(s, n) ==
    /\ n # shelf[s].qty /\ n >= Held(s)
    /\ shelf[s].ver < MaxVersion
    /\ shelf' = [shelf EXCEPT ![s] = Row(n, @.ver + 1)]
    /\ UNCHANGED <<order, rsv, loan, location, command, handler>>

(* returnLoanItems: copies of one title come back to a place. *)
Return(l, s, n) ==
    /\ loan[l].status = "open"
    /\ loan[l].returned[s[1]] + n <= loan[l].issued[s[1]]
    /\ shelf[s].qty + n <= MaxStock
    /\ shelf' = [shelf EXCEPT ![s] = Row(@.qty + n, @.ver + 1)]
    /\ LET back == [loan[l].returned EXCEPT ![s[1]] = @ + n] IN
       loan' = [loan EXCEPT ![l].returned = back, ![l].ver = @ + 1,
                            ![l].status = IF back = loan[l].issued THEN "closed" ELSE "open"]
    /\ UNCHANGED <<order, rsv, location, command, handler>>

(* updateManagedLocation *)
CloseLocation(p) ==
    /\ p # Library /\ location[p] = "active"
    /\ \A m \in Materials : shelf[<<m, p>>].qty = 0 /\ Held(<<m, p>>) = 0
    /\ \A o \in Orders : ~(order[o].pickup = p /\ order[o].status \in Prepared)
    /\ location' = [location EXCEPT ![p] = "inactive"]
    /\ UNCHANGED <<order, rsv, shelf, loan, command, handler>>

ReopenLocation(p) ==
    /\ location[p] = "inactive"
    /\ location' = [location EXCEPT ![p] = "active"]
    /\ UNCHANGED <<order, rsv, shelf, loan, command, handler>>

-----------------------------------------------------------------------------
Planning(w) == \E r \in Requests, o \in Orders :
    \/ PlanCreate(w, r, o)
    \/ PlanTransition(w, r, o)
    \/ PlanReady(w, r, o)
    \/ PlanIssue(w, r, o)
    \/ PlanRelease(w, r, o)

Committing(w) ==
    \/ CommitCreate(w)
    \/ CommitTransition(w)
    \/ CommitReady(w)
    \/ CommitIssue(w)
    \/ CommitRelease(w)

OtherStores ==
    \/ \E s \in Slots, n \in 0..MaxStock : ChangeShelf(s, n)
    \/ \E l \in Loans, s \in Slots, n \in 1..MaxStock : Return(l, s, n)
    \/ \E p \in Locations : CloseLocation(p) \/ ReopenLocation(p)

Next ==
    \/ \E w \in Workers : Planning(w) \/ Committing(w) \/ Drop(w)
    \/ OtherStores

Spec == Init /\ [][Next]_vars

-----------------------------------------------------------------------------
(* Safety *)

(* The quantities an order shows are the sums of its reservation rows:     *)
(* approved is what was reserved and not released, fulfilled is what was   *)
(* issued, although items and reservations are updated by separate         *)
(* statements, one of which skips rows instead of refusing them.           *)
BooksBalance ==
    \A o \in Orders :
        /\ \A s \in Slots : Remaining(o, s) >= 0
        /\ order[o].approved = OfTitle([s \in Slots |-> rsv[o][s].reserved - rsv[o][s].released])
        /\ order[o].fulfilled = OfTitle([s \in Slots |-> rsv[o][s].issued])

(* An order waits for collection exactly while copies are reserved for it: *)
(* no concurrent handover and release leave a prepared order with nothing  *)
(* to collect, or a finished or cancelled one that blocks copies.          *)
PreparedIffHolding ==
    \A o \in Orders : order[o].status \in Prepared <=> ActiveTotal(o) > 0

(* An order is shown as ready, rather than partially ready, exactly when   *)
(* everything asked for is approved.                                       *)
ReadyMeansWhole ==
    \A o \in Orders : order[o].status \in Prepared =>
        (order[o].status = "ready" <=> WholeOrder(o, order[o].approved))

(* A completed order handed something over on a loan; a cancelled or       *)
(* rejected one handed over nothing and has no loan.                       *)
OutcomeTold ==
    \A o \in Orders :
        /\ order[o].status = "completed" => TotalOf(order[o].fulfilled) > 0
        /\ order[o].status \in {"cancelled", "rejected"} => TotalOf(order[o].fulfilled) = 0
        /\ order[o].loan # NoLoan <=> TotalOf(order[o].fulfilled) > 0

(* All handovers of an order, however many there are and whatever comes    *)
(* back between them, are on the one loan the order names, and this loan   *)
(* holds nothing else.                                                     *)
LoanCarriesOrder ==
    /\ \A o \in Orders : order[o].loan # NoLoan =>
            loan[order[o].loan].issued = order[o].fulfilled
    /\ \A o1, o2 \in Orders : order[o1].loan = order[o2].loan => o1 = o2 \/ order[o1].loan = NoLoan

(* What is reserved is on its shelf, at a place that is open, for all      *)
(* orders together: two librarians cannot promise the same copy.           *)
PromiseOnShelf ==
    \A s \in Slots : Held(s) > 0 => Held(s) <= shelf[s].qty /\ location[s[2]] = "active"

(* A teacher never has more live orders than the limit, however many       *)
(* orders are sent at once.                                                *)
LimitKept == \A o \in Orders : Cardinality(Live(TeacherOf[o])) <= Limit

(* Each completed command changed exactly one order once: no retry or      *)
(* concurrent duplicate of a request is applied a second time.             *)
EachCommandOnce ==
    SumFunction([o \in Orders |-> order[o].ver])
        = Cardinality({r \in Requests : command[r] = "completed"})

(* A finished order is never changed again, and neither are its            *)
(* reservations.                                                           *)
FinalIsFinal ==
    [][\A o \in Orders : order[o].status \in Final => order'[o] = order[o] /\ rsv'[o] = rsv[o]]_vars

-----------------------------------------------------------------------------
(* The order as the teacher knows it *)

Stage == [o \in Orders |->
    CASE order[o].status = "none" -> "none"
      [] order[o].status \in Waiting -> "open"
      [] order[o].status \in Prepared -> "prepared"
      [] order[o].status = "completed" -> "served"
      [] OTHER -> "refused"]

Lifecycle == INSTANCE OrderLifecycle WITH
    stage <- Stage,
    promised <- [o \in Orders |-> order[o].approved],
    handed <- [o \in Orders |-> order[o].fulfilled]

(* The store keeps what OrderLifecycle promises: whatever is interleaved,  *)
(* promises only grow by preparing, shrink only to what was handed over,   *)
(* and an order ends served or refused when its last promise goes.         *)
ImplementsLifecycle == Lifecycle!Spec
=============================================================================
