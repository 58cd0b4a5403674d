--------------------------- MODULE TelegramOutbox ---------------------------
(***************************************************************************)
(* The queue of Telegram messages (src/lib/telegram-outbox.ts and the      *)
(* drain of src/lib/telegram-notifications.ts).  A business transaction    *)
(* inserts a row; drains, started by a timer every minute and after every  *)
(* such request, look for due rows, claim each with a lease, send it and   *)
(* record the outcome.  Drains run at the same time, may be killed at any  *)
(* await, and may take longer than their leases; meanwhile recipients mute,*)
(* disconnect and reconnect, and teachers' profiles are closed.            *)
(*                                                                         *)
(* Time is a clock.  A handler takes createdAt before its reads, so a row  *)
(* is committed later than it is dated, and not in the order of the dates. *)
(* A drain takes `now` once, at its start, and everything it writes counts *)
(* from there: a lease (45 s, though its ten messages may each wait 6 s)   *)
(* may lapse while its holder is at work, and a retry may be due already   *)
(* for a drain that runs beside it and still has the row in its list.      *)
(* LastInstant bounds the clock and stands for all later instants: a drain *)
(* that starts there finds every instant passed.                           *)
(*                                                                         *)
(* Abstractions: the number of a row is its (random) id; both             *)
(* notification flags are one (the code only sets them together); a plain  *)
(* teacher whose card is closed is one whose rows cannot be delivered.     *)
(* Left out: menu refreshes with their own claim, withdrawn reminders and  *)
(* delivery at a later date, the replacement of a row with the same dedupe *)
(* key (every caller puts a fresh request id or version in the key),       *)
(* configuration switches.                                                 *)
(***************************************************************************)
EXTENDS Integers, FiniteSets

CONSTANTS
    Rows,           \* outbox rows, by their ids
    Users, Staff,   \* recipients, and those who are librarians
    Workers,        \* concurrently running drains
    Recipient,      \* row -> user
    Path,           \* row -> cabinet its link opens: "teacher" | "librarian"
    MaxAttempts,    \* TELEGRAM_MAX_ATTEMPTS
    MaxStored,      \* the CHECK of the column attempts
    LeaseTime,      \* TELEGRAM_DELIVERY_LEASE_SECONDS
    Backoffs,       \* waits before a retry: 5 s doubled, or what a 429 asks for
    LastInstant,    \* bound: the clock
    MaxVersion,     \* bound: version of one connection
    MaxProfile,     \* bound: version of one teacher profile
    MaxFaults,      \* bound: drains killed or slower than their lease
    Idle, NoRow, NoWorker

ASSUME RowAssumption == Rows \subseteq Nat \ {0} /\ IsFiniteSet(Rows)
ASSUME WorkerAssumption == IsFiniteSet(Workers) /\ NoWorker \notin Workers
ASSUME RecipientAssumption == Recipient \in [Rows -> Users] /\ Staff \subseteq Users
ASSUME PathAssumption == Path \in [Rows -> {"teacher", "librarian"}]
ASSUME BoundAssumption ==
    {MaxAttempts, MaxStored, MaxVersion, MaxProfile, MaxFaults} \subseteq Nat \ {0}
ASSUME TimeAssumption ==
    LeaseTime \in Nat \ {0} /\ Backoffs \subseteq Nat \ {0} /\ LastInstant \in Nat
ASSUME NoneAssumption == NoRow \notin Rows

VARIABLES
    row,        \* telegram_delivery_outbox
    conn,       \* telegram_connections
    profile,    \* teacher_profiles: user -> open or closed
    clock,      \* the present instant
    drain,      \* worker -> what its drain has read and is doing
    faults      \* drains killed or overtaken by their lease so far

VARIABLES       \* history, not stored by the program
    copies,     \* row -> messages Telegram delivered for it
    lapses,     \* row -> leases that were taken back
    unheard,    \* row -> deliveries whose confirmation was lost
    rereads     \* row -> claims after another drain's attempt at the row read

history == <<copies, lapses, unheard, rereads>>
vars == <<row, conn, profile, clock, drain, faults, history>>

-----------------------------------------------------------------------------
Queued == {"pending", "processing", "retry"}
Sendable == {"pending", "retry"}

(* since is next_attempt_at, lease is lease_expires_at. *)
RowType == [status : {"none", "sent", "dead"} \cup Queued, attempts : Nat, created : Nat,
            since : Nat, lease : Nat, holder : Workers \cup {NoWorker}]
ConnType == [status : {"active", "disabled", "blocked"}, notify : BOOLEAN,
             version : Nat, left : BOOLEAN]
Read == [row : Rows, since : Nat, attempts : Nat, version : Nat]
Outcome == {"none", "ok", "lost", "failed", "limited", "rejected", "blocked"}
(* known is history: the rows that were queued when the drain read them. *)
DrainType == [stage : {"started", "recovered", "claiming", "sending", "answered"}, now : Nat,
              known : SUBSET Rows, todo : SUBSET Read, doing : Read \cup {NoRow},
              outcome : Outcome]

(* A row carries a lease exactly while it is being sent: every statement   *)
(* that changes the status also sets or clears the lease.                  *)
TypeOK ==
    /\ row \in [Rows -> RowType]
    /\ conn \in [Users -> ConnType]
    /\ profile \in [Users -> [open : BOOLEAN, version : Nat]]
    /\ clock \in Nat /\ faults \in Nat
    /\ \A r \in Rows : (row[r].holder # NoWorker) <=> (row[r].status = "processing")
    /\ drain \in [Workers -> DrainType \cup {Idle}]
    /\ \A w \in Workers :
        drain[w] # Idle /\ drain[w].stage \in {"sending", "answered"} => drain[w].doing \in Read
    /\ copies \in [Rows -> Nat] /\ lapses \in [Rows -> Nat]
    /\ unheard \in [Rows -> Nat] /\ rereads \in [Rows -> Nat]

NewRow == [status |-> "none", attempts |-> 0, created |-> 0, since |-> 0, lease |-> 0,
           holder |-> NoWorker]
None == [r \in Rows |-> 0]

Init ==
    /\ row = [r \in Rows |-> NewRow]
    /\ conn = [u \in Users |-> [status |-> "active", notify |-> TRUE, version |-> 1, left |-> FALSE]]
    /\ profile = [u \in Users |-> [open |-> TRUE, version |-> 1]]
    /\ clock = 0 /\ faults = 0
    /\ drain = [w \in Workers |-> Idle]
    /\ copies = None /\ lapses = None /\ unheard = None /\ rereads = None

Listening(u) == conn[u].status = "active" /\ conn[u].notify
Suits(r) == IF Path[r] = "librarian" THEN Recipient[r] \in Staff ELSE profile[Recipient[r]].open
Eligible(r) == Listening(Recipient[r]) /\ Suits(r)

-----------------------------------------------------------------------------
Tick ==
    /\ clock < LastInstant
    /\ clock' = clock + 1
    /\ UNCHANGED <<row, conn, profile, drain, faults, history>>

Passed(t, now) == t <= now \/ now = LastInstant

(* The queue statements, part of a business transaction, dated by its      *)
(* handler: nothing is queued for a recipient who does not listen.         *)
Enqueue(r) ==
    /\ row[r].status = "none"
    /\ Listening(Recipient[r])
    /\ Path[r] = "librarian" => Recipient[r] \in Staff
    /\ \E createdAt \in 0..clock :
        row' = [row EXCEPT ![r].status = "pending", ![r].created = createdAt,
                           ![r].since = createdAt]
    /\ UNCHANGED <<conn, profile, clock, drain, faults, history>>

Working(w, r) ==
    /\ drain[w] # Idle
    /\ drain[w].stage \in {"sending", "answered"} /\ drain[w].doing.row = r
Attended(r) == row[r].holder # NoWorker /\ Working(row[r].holder, r)

-----------------------------------------------------------------------------
(* drainTelegramOutbox *)

Start(w) ==
    /\ drain[w] = Idle
    /\ drain' = [drain EXCEPT ![w] = [stage |-> "started", now |-> clock, known |-> {},
                                      todo |-> {}, doing |-> NoRow, outcome |-> "none"]]
    /\ UNCHANGED <<row, conn, profile, clock, faults, history>>

NoneLapsed(now) == {}   \* mutant: leases are never taken back
Lapsed(now) == {r \in Rows : row[r].status = "processing" /\ Passed(row[r].lease, now)}

(* Rows whose lease has lapsed are due again, from the drain's own start. *)
Recover(w) ==
    /\ drain[w] # Idle /\ drain[w].stage = "started"
    /\ LET now == drain[w].now
           back == Lapsed(now)
       IN  /\ faults' = faults + Cardinality({r \in back : Attended(r)})
           /\ faults' <= MaxFaults
           /\ row' = [r \in Rows |->
                         IF r \in back
                         THEN [row[r] EXCEPT !.status = "retry", !.since = now, !.lease = 0,
                                             !.holder = NoWorker]
                         ELSE row[r]]
           /\ lapses' = [r \in Rows |-> IF r \in back THEN lapses[r] + 1 ELSE lapses[r]]
    /\ drain' = [drain EXCEPT ![w].stage = "recovered"]
    /\ UNCHANGED <<conn, profile, clock, copies, unheard, rereads>>

Visible(r, now) == Passed(row[r].since, now)
(* next_attempt_at, then created_at, then id *)
Before(s, a, t, b) ==
    \/ s < t
    \/ s = t /\ (row[a].created < row[b].created \/ (row[a].created = row[b].created /\ a < b))
Precedes(a, b) == Before(row[a].since, a, row[b].since, b)

FirstToWait(r, now) ==  \* mutant: a row that is being sent holds nothing back
    ~\E e \in Rows : /\ Recipient[e] = Recipient[r] /\ row[e].status \in Sendable
                     /\ Visible(e, now) /\ Precedes(e, r)
(* No earlier due row of the recipient is queued, deliverable or not. *)
FirstInLine(r, now) ==
    ~\E e \in Rows : /\ Recipient[e] = Recipient[r] /\ row[e].status \in Queued
                     /\ Visible(e, now) /\ Precedes(e, r)

(* The loop goes on with the rows left, or the drain is over. *)
GoesOn(w, known, todo) ==
    drain' = [drain EXCEPT ![w] =
                 IF todo = {} THEN Idle
                 ELSE [stage |-> "claiming", now |-> drain[w].now, known |-> known,
                       todo |-> todo, doing |-> NoRow, outcome |-> "none"]]

Select(w) ==
    /\ drain[w] # Idle /\ drain[w].stage = "recovered"
    /\ LET now == drain[w].now
           found == {r \in Rows : /\ row[r].status \in Sendable /\ Visible(r, now)
                                  /\ Eligible(r) /\ FirstInLine(r, now)}
           list == {[row |-> r, since |-> row[r].since, attempts |-> row[r].attempts,
                     version |-> conn[Recipient[r]].version] : r \in found}
       IN  GoesOn(w, {r \in Rows : row[r].status \in Queued}, list)
    /\ UNCHANGED <<row, conn, profile, clock, faults, history>>

(* The rows are handled in the order they had when they were read. *)
Comes(x, todo) == \A y \in todo \ {x} : Before(x.since, x.row, y.since, y.row)

ClaimableAnyStatus(x, now) ==   \* mutant: the status is not compared
    /\ row[x.row].status \in Queued /\ Visible(x.row, now)
    /\ Listening(Recipient[x.row]) /\ conn[Recipient[x.row]].version = x.version
Claimable(x, now) ==
    /\ row[x.row].status \in Sendable /\ Visible(x.row, now)
    /\ Listening(Recipient[x.row]) /\ conn[Recipient[x.row]].version = x.version

Stop(w) == drain' = [drain EXCEPT ![w] = Idle]

Claim(w) ==
    /\ drain[w] # Idle /\ drain[w].stage = "claiming"
    /\ \E x \in drain[w].todo :
        /\ Comes(x, drain[w].todo)
        /\ Claimable(x, drain[w].now) /\ row[x.row].attempts < MaxStored
        /\ row' = [row EXCEPT ![x.row].status = "processing", ![x.row].attempts = @ + 1,
                              ![x.row].holder = w, ![x.row].lease = drain[w].now + LeaseTime]
        /\ rereads' = [rereads EXCEPT ![x.row] = IF x.attempts # row[x.row].attempts
                                                 THEN @ + 1 ELSE @]
        /\ drain' = [drain EXCEPT ![w].stage = "sending", ![w].doing = x,
                                  ![w].todo = @ \ {x}]
    /\ UNCHANGED <<conn, profile, clock, faults, copies, lapses, unheard>>

Skip(w) ==
    /\ drain[w] # Idle /\ drain[w].stage = "claiming"
    /\ \E x \in drain[w].todo :
        /\ Comes(x, drain[w].todo)
        /\ ~Claimable(x, drain[w].now)
        /\ GoesOn(w, drain[w].known, drain[w].todo \ {x})
    /\ UNCHANGED <<row, conn, profile, clock, faults, history>>

(* The CHECK of the column refuses the claim: the drain ends with an error. *)
ClaimRefused(w) ==
    /\ drain[w] # Idle /\ drain[w].stage = "claiming"
    /\ \E x \in drain[w].todo : /\ Comes(x, drain[w].todo) /\ Claimable(x, drain[w].now)
                               /\ row[x.row].attempts >= MaxStored
    /\ Stop(w)
    /\ UNCHANGED <<row, conn, profile, clock, faults, history>>

(* telegramApiRequest: delivered and confirmed; delivered, but the answer  *)
(* is lost or late; not delivered; 429; 400; 403.                          *)
Send(w) ==
    /\ drain[w] # Idle /\ drain[w].stage = "sending"
    /\ \E o \in Outcome \ {"none"} :
        LET r == drain[w].doing.row
        IN  /\ drain' = [drain EXCEPT ![w].stage = "answered", ![w].outcome = o]
            /\ copies' = [copies EXCEPT ![r] = IF o \in {"ok", "lost"} THEN @ + 1 ELSE @]
            /\ unheard' = [unheard EXCEPT ![r] = IF o = "lost" THEN @ + 1 ELSE @]
    /\ UNCHANGED <<row, conn, profile, clock, faults, lapses, rereads>>

HoldsAnything(w, r) == TRUE     \* mutant: the lease token is not compared
Holds(w, r) == row[r].status = "processing" /\ row[r].holder = w

PutKeepLease(r, status, since) ==    \* mutant: the lease is not cleared
    row' = [row EXCEPT ![r] = [@ EXCEPT !.status = status, !.since = since]]
Put(r, status, since) ==
    row' = [row EXCEPT ![r] = [@ EXCEPT !.status = status, !.since = since,
                                        !.holder = NoWorker, !.lease = 0]]

NeverGivesUp(x, o) == o \in {"rejected", "blocked"}     \* mutant: no maximum
GivesUp(x, o) == o \in {"rejected", "blocked"} \/ x.attempts + 1 >= MaxAttempts

RecordSent(w) ==
    /\ drain[w] # Idle /\ drain[w].stage = "answered" /\ drain[w].outcome = "ok"
    /\ LET r == drain[w].doing.row
       IN IF Holds(w, r) THEN Put(r, "sent", row[r].since) ELSE UNCHANGED row
    /\ GoesOn(w, drain[w].known, drain[w].todo)
    /\ UNCHANGED <<conn, profile, clock, faults, history>>

(* A retry is due a backoff after the start of this drain, and the count   *)
(* is the one it read: both may be behind what other drains have done.     *)
(* The statement about the connection names the user only: whatever state  *)
(* or chat the connection has by now, a 403 blocks it.                     *)
RecordFailure(w) ==
    /\ drain[w] # Idle /\ drain[w].stage = "answered" /\ drain[w].outcome # "ok"
    /\ LET x == drain[w].doing
           o == drain[w].outcome
       IN /\ IF ~Holds(w, x.row) THEN UNCHANGED row
             ELSE IF GivesUp(x, o) THEN Put(x.row, "dead", row[x.row].since)
             ELSE \E wait \in Backoffs : Put(x.row, "retry", drain[w].now + wait)
          /\ conn' = [conn EXCEPT ![Recipient[x.row]].status = IF o = "blocked" THEN "blocked" ELSE @]
          /\ GoesOn(w, drain[w].known, IF o = "limited" THEN {} ELSE drain[w].todo)
    /\ UNCHANGED <<profile, clock, faults, history>>

(* The platform ends the drain; a lease it holds stays in its row. *)
Killed(w) ==
    /\ drain[w] # Idle /\ faults < MaxFaults
    /\ faults' = faults + 1
    /\ Stop(w)
    /\ UNCHANGED <<row, conn, profile, clock, history>>

-----------------------------------------------------------------------------
(* Recipients and librarians *)

WithdrawWaiting(u) ==      \* mutant: leaves the row that is being sent
    row' = [r \in Rows |-> IF Recipient[r] = u /\ row[r].status \in Sendable
                           THEN [row[r] EXCEPT !.status = "dead"]
                           ELSE row[r]]
(* Both end every queued row of the recipient in the same batch. *)
Withdraw(u) ==
    row' = [r \in Rows |-> IF Recipient[r] = u /\ row[r].status \in Queued
                           THEN [row[r] EXCEPT !.status = "dead", !.holder = NoWorker,
                                               !.lease = 0]
                           ELSE row[r]]

Changes(u) == conn[u].version < MaxVersion

Mute(u) ==
    /\ Changes(u) /\ conn[u].status = "active"
    /\ conn' = [conn EXCEPT ![u].notify = FALSE, ![u].version = @ + 1]
    /\ Withdraw(u)
    /\ UNCHANGED <<profile, clock, drain, faults, history>>

Unmute(u) ==
    /\ Changes(u) /\ conn[u].status = "active"
    /\ conn' = [conn EXCEPT ![u].notify = TRUE, ![u].version = @ + 1]
    /\ UNCHANGED <<row, profile, clock, drain, faults, history>>

Disconnect(u) ==
    /\ Changes(u) /\ conn[u].status = "active"
    /\ conn' = [conn EXCEPT ![u].status = "disabled", ![u].version = @ + 1, ![u].left = TRUE]
    /\ Withdraw(u)
    /\ UNCHANGED <<profile, clock, drain, faults, history>>

(* A one-time link, of the same or of another Telegram account. *)
Relink(u) ==
    /\ Changes(u) /\ (u \in Staff \/ profile[u].open)
    /\ conn' = [conn EXCEPT ![u] = [status |-> "active", notify |-> TRUE,
                                    version |-> @.version + 1, left |-> FALSE]]
    /\ UNCHANGED <<row, profile, clock, drain, faults, history>>

(* The command /start; an explicit disconnection is left in the audit log. *)
Recoverable(u) == conn[u].status = "blocked" \/ (conn[u].status = "disabled" /\ ~conn[u].left)
Resume(u) ==
    /\ Changes(u) /\ (u \in Staff \/ profile[u].open)
    /\ Recoverable(u)
    /\ conn' = [conn EXCEPT ![u].status = "active", ![u].version = @ + 1]
    /\ UNCHANGED <<row, profile, clock, drain, faults, history>>

CloseProfile(u) ==
    /\ profile[u].open /\ profile[u].version < MaxProfile
    /\ profile' = [profile EXCEPT ![u] = [open |-> FALSE, version |-> @.version + 1]]
    /\ UNCHANGED <<row, conn, clock, drain, faults, history>>

RestoreProfile(u) ==
    /\ ~profile[u].open /\ profile[u].version < MaxProfile
    /\ profile' = [profile EXCEPT ![u] = [open |-> TRUE, version |-> @.version + 1]]
    /\ UNCHANGED <<row, conn, clock, drain, faults, history>>

-----------------------------------------------------------------------------
DrainStep(w) ==
    \/ Start(w) \/ Recover(w) \/ Select(w) \/ Claim(w) \/ Skip(w) \/ ClaimRefused(w)
    \/ Send(w) \/ RecordSent(w) \/ RecordFailure(w)

People(u) ==
    \/ Mute(u) \/ Unmute(u) \/ Disconnect(u) \/ Relink(u) \/ Resume(u)
    \/ CloseProfile(u) \/ RestoreProfile(u)

Next ==
    \/ Tick \/ \E r \in Rows : Enqueue(r)
    \/ \E w \in Workers : DrainStep(w) \/ Killed(w)
    \/ \E u \in Users : People(u)

(* The timer starts a drain every minute and every statement of a drain    *)
(* ends, with an answer or with the 6 s of the request; time passes.       *)
Fairness ==
    /\ WF_vars(Tick)
    /\ \A w \in Workers : WF_vars(DrainStep(w))

Spec == Init /\ [][Next]_vars /\ Fairness

-----------------------------------------------------------------------------
(* Safety *)

(* A recipient who muted or left receives nothing queued before: whatever  *)
(* a drain is doing with one of the rows, none of them is queued or comes  *)
(* back to the queue.                                                      *)
SilentAfterOptOut ==
    \A r \in Rows : row[r].status \in Queued =>
        conn[Recipient[r]].notify /\ conn[Recipient[r]].status # "disabled"

(* What a drain sends or is about to send comes, in the order of the       *)
(* queue, before every message of the recipient that still waits for its   *)
(* first attempt or is at it, unless that one was committed after the      *)
(* drain read the queue: of the messages nobody has tried, none overtakes  *)
(* an earlier one, nor is sent beside it, but for such a late commit.      *)
Carried(w) == drain[w].todo \cup {x \in {drain[w].doing} : x # NoRow}
Untried(r) == row[r].status = "pending" \/ (row[r].status = "processing" /\ row[r].attempts = 1)
InQueueOrder ==
    \A w \in Workers : drain[w] # Idle =>
        \A x \in Carried(w), r \in drain[w].known :
            Untried(r) /\ r # x.row /\ Recipient[r] = Recipient[x.row]
                => Before(x.since, x.row, row[r].since, r)

(* Telegram shows a message again only for a reason: a lease that lapsed,  *)
(* or a delivery whose confirmation was lost.  Two drains that found the   *)
(* same row never both send it.                                            *)
DuplicatesExplained == \A r \in Rows : copies[r] <= 1 + lapses[r] + unheard[r]

(* Failures and late answers do not keep a row alive: beyond the maximum   *)
(* it is tried again only after its lease lapsed, or by a drain that had   *)
(* read it before another drain's attempt.                                 *)
AttemptsExplained == \A r \in Rows : row[r].attempts <= MaxAttempts + lapses[r] + rereads[r]

(* A sent or dead row is final: no late answer, recovery or drain working  *)
(* from an earlier read changes it.                                        *)
SettledIsFinal ==
    [][\A r \in Rows : row[r].status \in {"sent", "dead"} => row'[r] = row[r]]_vars

(* Liveness *)

Ahead(r) == {e \in Rows : Recipient[e] = Recipient[r] /\ e # r /\ row[e].status \in Queued}

(* Every queued row is sent or given up unless it, or another queued row   *)
(* of its recipient, cannot be delivered at some moment: neither a lease   *)
(* left by a killed drain nor the order of the rows holds it for ever.     *)
QueueMoves ==
    \A r \in Rows : row[r].status \in Queued ~>
        row[r].status \notin Queued \/ \E e \in Ahead(r) \cup {r} : ~Eligible(e)

(* What the schedule promises: a message that may be delivered does not    *)
(* wait for one that may not.                                              *)
DeliverableMoves ==
    \A r \in Rows : row[r].status \in Queued ~> row[r].status \notin Queued \/ ~Eligible(r)

(* What a test says of /start: it respects an explicit disconnection. *)
DisconnectRespected == \A u \in Users : conn[u].left => conn[u].status # "active"

=============================================================================
