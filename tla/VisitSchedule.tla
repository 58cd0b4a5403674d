----------------------------- MODULE VisitSchedule -----------------------------
(***************************************************************************)
(* Visits to the library: src/lib/visit-schedule-store.ts for teachers and *)
(* librarians, visit-guest-store.ts for guests.  Time is cut in segments   *)
(* of five minutes; a visit, or a closure of the library, claims the       *)
(* segments it covers, one row of visit_slot_claims each, and the primary  *)
(* key of that table is what keeps two of them apart.                      *)
(*                                                                         *)
(* A handler reads the clock and its rows, then sends one atomic batch     *)
(* that repeats what it read but keeps the clock of the reading.  Between  *)
(* the two at most one segment begins: a call is answered or lost within   *)
(* five minutes, which the code does not enforce but the limit rests on.   *)
(*                                                                         *)
(* Abstractions: Segments are the segments of the next ninety days, and    *)
(* which of them are opening hours is left to the caller; names, purposes  *)
(* and consents are data; the replay of a completed request id is modelled *)
(* in Inventory; sessions are modelled in TeacherAccess and are here only  *)
(* valid or not.                                                           *)
(***************************************************************************)
EXTENDS Integers, FiniteSets

CONSTANTS
    Hosts,          \* teachers with a card
    Guests,         \* guest owners
    Visits,         \* ids of bookings (random UUIDs)
    Closures,       \* ids of closures (random UUIDs)
    Forms,          \* classes a visit may be booked for
    Callers,        \* concurrently running handler invocations
    Away, Unclaimed, NoHost, NoForm,    \* model values
    MaxSegment,     \* bound: segments
    DayLength,      \* segments of one day
    MaxBookings,    \* VISIT_MAX_ACTIVE_BOOKINGS
    MaxVisitVersion \* bound: version of a booking or of a closure

ASSUME VisitBounds == {MaxSegment, DayLength, MaxBookings, MaxVisitVersion} \subseteq Nat \ {0}
ASSUME VisitValues ==
    /\ Hosts \cap Guests = {} /\ Visits \cap Closures = {}
    /\ Unclaimed \notin Visits \cup Closures /\ NoHost \notin Hosts \cup Guests
    /\ NoForm \notin Forms
ASSUME VisitsFinite == IsFiniteSet(Visits)

VARIABLES
    now,        \* the last segment that has begun
    taught,     \* active classes
    cardOpen,   \* teacher -> the card is open
    signed,     \* owner -> a session of theirs is valid
    visit,      \* row of visit_bookings or of visit_schedule_closures
    claim,      \* segment -> owner of its row of visit_slot_claims
    caller      \* handler -> what it has read and is about to write

visitVars == <<now, taught, cardOpen, signed, visit, claim, caller>>

Segments == 1..MaxSegment
Day(s) == (s + DayLength - 1) \div DayLength
Owners == Hosts \cup Guests
Claimants == Visits \cup Closures
(* intervals a caller may ask for: within one day *)
Intervals == {i \in Segments \X Segments : i[1] <= i[2] /\ Day(i[1]) = Day(i[2])}
Covered(i) == i[1]..i[2]

VisitType == [status : {"none", "active", "cancelled"}, owner : Owners \cup {NoHost},
              host : Hosts \cup {NoHost}, at : Intervals, ver : Nat]
Moments == 0..MaxSegment
CallerPlan ==
    [op : {"book"}, owner : Owners, host : Hosts, form : Forms \cup {NoForm},
     at : Intervals, read : Moments]
    \cup [op : {"move"}, visit : Visits, ver : Nat, form : Forms \cup {NoForm},
          at : Intervals, read : Moments]
    \cup [op : {"cancel"}, visit : Visits, ver : Nat, desk : BOOLEAN]
    \cup [op : {"shut"}, at : Intervals]
    \cup [op : {"unshut"}, visit : Closures, ver : Nat]

VisitsTypeOK ==
    /\ now \in Moments
    /\ taught \in SUBSET Forms
    /\ cardOpen \in [Hosts -> BOOLEAN]
    /\ signed \in [Owners -> BOOLEAN]
    /\ visit \in [Claimants -> VisitType]
    /\ claim \in [Segments -> Claimants \cup {Unclaimed}]
    /\ caller \in [Callers -> CallerPlan \cup {Away}]

VisitsInit ==
    /\ now = 0
    /\ taught = Forms
    /\ cardOpen = [h \in Hosts |-> TRUE]
    /\ signed = [o \in Owners |-> FALSE]
    /\ visit = [v \in Claimants |-> [status |-> "none", owner |-> NoHost, host |-> NoHost,
                                     at |-> <<1, 1>>, ver |-> 0]]
    /\ claim = [s \in Segments |-> Unclaimed]
    /\ caller = [w \in Callers |-> Away]

-----------------------------------------------------------------------------
(* What the statements ask *)

ActiveVisit(v, ver) == visit[v].status = "active" /\ visit[v].ver = ver
(* active bookings of an owner from the given day on *)
Upcoming(o, day) ==
    {v \in Visits : /\ visit[v].status = "active" /\ visit[v].owner = o
                    /\ Day(visit[v].at[1]) >= day}
LimitAsRead(o, day) == TRUE             \* mutant: the batch does not count again
UnderLimit(o, day) == Cardinality(Upcoming(o, day)) < MaxBookings
FormOk(f) == f = NoForm \/ f \in taught
MayAct(o) == signed[o] /\ (o \in Hosts => cardOpen[o])

(* The segments of the interval, once those of v are given up, are free:   *)
(* the primary key of visit_slot_claims.                                   *)
FreeFor(v, i) == \A s \in Covered(i) : claim[s] \in {Unclaimed, v}
Claims(v, i) == claim' = [s \in Segments |-> IF s \in Covered(i) THEN v
                                             ELSE IF claim[s] = v THEN Unclaimed ELSE claim[s]]
GivesUp(v) == claim' = [s \in Segments |-> IF claim[s] = v THEN Unclaimed ELSE claim[s]]

Booked(o, h, i, ver) == [status |-> "active", owner |-> o, host |-> h, at |-> i, ver |-> ver]
Withdrawn(r) == [status |-> "cancelled", owner |-> r.owner, host |-> r.host, at |-> r.at,
                 ver |-> r.ver + 1]

StartsCall(w, p) ==
    /\ caller[w] = Away
    /\ caller' = [caller EXCEPT ![w] = p]
    /\ UNCHANGED <<now, taught, cardOpen, signed, visit, claim>>
EndsCall(w, op) ==
    /\ caller[w] # Away /\ caller[w].op = op
    /\ caller' = [caller EXCEPT ![w] = Away]
    /\ UNCHANGED <<now, taught, cardOpen, signed>>
GiveUp(w) ==
    /\ caller[w] # Away
    /\ caller' = [caller EXCEPT ![w] = Away]
    /\ UNCHANGED <<now, taught, cardOpen, signed, visit, claim>>

-----------------------------------------------------------------------------
(* createVisitBooking and createGuestVisitBooking.  A teacher books for    *)
(* themself, a guest names a teacher.                                      *)

PlanBook(w, o, h, f, i) ==
    /\ MayAct(o) /\ cardOpen[h]
    /\ o \in Hosts => h = o
    /\ i[1] > now
    /\ FormOk(f)
    /\ UnderLimit(o, Day(now))
    /\ StartsCall(w, [op |-> "book", owner |-> o, host |-> h, form |-> f, at |-> i, read |-> now])

CommitBook(w) ==
    LET p == caller[w] IN
    /\ EndsCall(w, "book")
    /\ MayAct(p.owner) /\ cardOpen[p.host]
    /\ FormOk(p.form)
    /\ UnderLimit(p.owner, Day(p.read))
    /\ \E v \in Visits :
        /\ visit[v].status = "none"
        /\ FreeFor(v, p.at)
        /\ Claims(v, p.at)
        /\ visit' = [visit EXCEPT ![v] = Booked(p.owner, p.host, p.at, 1)]

(* updateOwnVisitBooking and updateGuestVisitBooking: the claims are given *)
(* up and made anew in the one batch.                                      *)

PlanMove(w, v, f, i) ==
    LET r == visit[v] IN
    /\ v \in Visits /\ r.status = "active" /\ MayAct(r.owner)
    /\ r.at[1] > now /\ i[1] > now
    /\ FormOk(f)
    /\ r.ver < MaxVisitVersion                                      \* bound
    /\ StartsCall(w, [op |-> "move", visit |-> v, ver |-> r.ver, form |-> f, at |-> i,
                 read |-> now])

CommitMove(w) ==
    LET p == caller[w]  r == visit[p.visit] IN
    /\ EndsCall(w, "move")
    /\ ActiveVisit(p.visit, p.ver) /\ MayAct(r.owner) /\ cardOpen[r.host]
    /\ r.at[1] > p.read
    /\ FormOk(p.form)
    /\ FreeFor(p.visit, p.at)
    /\ Claims(p.visit, p.at)
    /\ visit' = [visit EXCEPT ![p.visit] = Booked(r.owner, r.host, p.at, r.ver + 1)]

(* cancelBooking, for the owner or the librarian, cancelGuestVisitBooking: *)
(* the owner may not cancel a visit that has begun                         *)

PlanCancelVisit(w, v, desk) ==
    LET r == visit[v] IN
    /\ v \in Visits /\ r.status = "active"
    /\ ~desk => MayAct(r.owner) /\ r.at[1] > now
    /\ StartsCall(w, [op |-> "cancel", visit |-> v, ver |-> r.ver, desk |-> desk])

CommitCancelVisit(w) ==
    LET p == caller[w]  r == visit[p.visit] IN
    /\ EndsCall(w, "cancel")
    /\ ActiveVisit(p.visit, p.ver)
    /\ ~p.desk => MayAct(r.owner)
    /\ GivesUp(p.visit)
    /\ visit' = [visit EXCEPT ![p.visit] = Withdrawn(@)]

(* createVisitClosure and cancelVisitClosure *)

PlanShut(w, i) ==
    /\ Day(i[1]) >= Day(now)
    /\ StartsCall(w, [op |-> "shut", at |-> i])

CommitShut(w) ==
    LET p == caller[w] IN
    /\ EndsCall(w, "shut")
    /\ \E v \in Closures :
        /\ visit[v].status = "none"
        /\ FreeFor(v, p.at)
        /\ Claims(v, p.at)
        /\ visit' = [visit EXCEPT ![v] = Booked(NoHost, NoHost, p.at, 1)]

PlanUnshut(w, v) ==
    /\ v \in Closures /\ visit[v].status = "active"
    /\ StartsCall(w, [op |-> "unshut", visit |-> v, ver |-> visit[v].ver])

CommitUnshut(w) ==
    LET p == caller[w] IN
    /\ EndsCall(w, "unshut")
    /\ ActiveVisit(p.visit, p.ver)
    /\ GivesUp(p.visit)
    /\ visit' = [visit EXCEPT ![p.visit] = Withdrawn(@)]

-----------------------------------------------------------------------------
(* What the other stores and the clock do, each as its atomic batch *)

(* a handler that counts or compares with the clock it has read *)
Clocked(w) == caller[w] # Away /\ caller[w].op \in {"book", "move"}

Tick ==
    /\ now < MaxSegment                                             \* bound
    /\ \A w \in Callers : Clocked(w) => caller[w].read = now         \* no call lasts longer
    /\ now' = now + 1
    /\ UNCHANGED <<taught, cardOpen, signed, visit, claim, caller>>

(* closeTeacher and restoreTeacher: a card with visits to come stays open  *)
NoVisitsToCome(h) ==
    \A v \in Visits : visit[v].status = "active" /\ visit[v].host = h
                      => Day(visit[v].at[1]) < Day(now)

CloseHost(h) ==
    /\ cardOpen[h] /\ NoVisitsToCome(h)
    /\ cardOpen' = [cardOpen EXCEPT ![h] = FALSE]
    /\ signed' = [signed EXCEPT ![h] = FALSE]
    /\ UNCHANGED <<now, taught, visit, claim, caller>>

RestoreHost(h) ==
    /\ ~cardOpen[h]
    /\ cardOpen' = [cardOpen EXCEPT ![h] = TRUE]
    /\ UNCHANGED <<now, taught, signed, visit, claim, caller>>

SignIn(o) ==
    /\ ~signed[o] /\ (o \in Hosts => cardOpen[o])
    /\ signed' = [signed EXCEPT ![o] = TRUE]
    /\ UNCHANGED <<now, taught, cardOpen, visit, claim, caller>>

SignOut(o) ==
    /\ signed[o]
    /\ signed' = [signed EXCEPT ![o] = FALSE]
    /\ UNCHANGED <<now, taught, cardOpen, visit, claim, caller>>

TurnForm(f) ==
    /\ taught' = IF f \in taught THEN taught \ {f} ELSE taught \cup {f}
    /\ UNCHANGED <<now, cardOpen, signed, visit, claim, caller>>

Calls ==
    \E w \in Callers :
        \/ \E o \in Owners, h \in Hosts, f \in Forms \cup {NoForm}, i \in Intervals :
               PlanBook(w, o, h, f, i)
        \/ \E v \in Visits, f \in Forms \cup {NoForm}, i \in Intervals : PlanMove(w, v, f, i)
        \/ \E v \in Visits, desk \in BOOLEAN : PlanCancelVisit(w, v, desk)
        \/ \E i \in Intervals : PlanShut(w, i)
        \/ \E v \in Closures : PlanUnshut(w, v)
        \/ CommitBook(w) \/ CommitMove(w) \/ CommitCancelVisit(w)
        \/ CommitShut(w) \/ CommitUnshut(w) \/ GiveUp(w)

VisitsNext ==
    \/ Calls
    \/ Tick
    \/ \E h \in Hosts : CloseHost(h) \/ RestoreHost(h)
    \/ \E o \in Owners : SignIn(o) \/ SignOut(o)
    \/ \E f \in Forms : TurnForm(f)

VisitsSpec == VisitsInit /\ [][VisitsNext]_visitVars

-----------------------------------------------------------------------------
(* Properties *)

(* Every active booking and closure holds exactly its segments and nothing *)
(* else holds any, so that no two of them overlap.                         *)
NoOverlap ==
    \A v \in Claimants :
        {s \in Segments : claim[s] = v} =
            IF visit[v].status = "active" THEN Covered(visit[v].at) ELSE {}

(* Nobody has more visits to come than the limit, counted when it matters. *)
WithinLimit == \A o \in Owners : Cardinality(Upcoming(o, Day(now))) <= MaxBookings

(* A teacher whose card is closed is expected by nobody: no visit to come  *)
(* is theirs, and none that a guest booked names them.                     *)
NobodyExpected == \A h \in Hosts : ~cardOpen[h] => NoVisitsToCome(h)

VisitsSound == NoOverlap /\ WithinLimit /\ NobodyExpected
=============================================================================
