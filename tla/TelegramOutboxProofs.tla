------------------------ MODULE TelegramOutboxProofs ------------------------
(***************************************************************************)
(* Proofs that the safety properties of TelegramOutbox hold for any number *)
(* of messages, recipients and concurrent drains.                          *)
(***************************************************************************)
EXTENDS TelegramOutbox, FiniteSetTheorems, TLAPS

-----------------------------------------------------------------------------
(* What a step does to one row and to one drain *)

Leased(x) == (x.holder # NoWorker) <=> (x.status = "processing")

Becomes(r, st, at, cr, si, le, ho) ==
    row'[r] = [status |-> st, attempts |-> at, created |-> cr, since |-> si, lease |-> le,
               holder |-> ho]

Stays(r) == row'[r] = row[r]
IsQueued(r) ==
    /\ row[r].status = "none" /\ Listening(Recipient[r]) /\ conn' = conn
    /\ \E t \in Nat : Becomes(r, "pending", row[r].attempts, t, t, row[r].lease, row[r].holder)
TakenBack(r) ==
    /\ row[r].status = "processing" /\ lapses'[r] = lapses[r] + 1
    /\ \E t \in Nat : Becomes(r, "retry", row[r].attempts, row[r].created, t, 0, NoWorker)
ClaimedBy(w, x, r) ==
    /\ drain[w] # Idle /\ drain[w].stage = "claiming" /\ x \in drain[w].todo /\ x.row = r
    /\ Claimable(x, drain[w].now)
    /\ Becomes(r, "processing", row[r].attempts + 1, row[r].created, row[r].since,
               drain[w].now + LeaseTime, w)
    /\ rereads'[r] = IF x.attempts # row[r].attempts THEN rereads[r] + 1 ELSE rereads[r]
Claimed(r) == \E w \in Workers : \E x \in drain[w].todo : ClaimedBy(w, x, r)
Failing(w, r) ==
    /\ drain[w] # Idle /\ drain[w].stage = "answered" /\ drain[w].outcome # "ok"
    /\ drain[w].doing.row = r
Retries(w, r) ==
    Failing(w, r) /\ Holds(w, r) /\ drain[w].doing.attempts + 1 < MaxAttempts
PutBack(r) ==
    /\ row[r].status = "processing" /\ \E w \in Workers : Retries(w, r)
    /\ \E t \in Nat : Becomes(r, "retry", row[r].attempts, row[r].created, t, 0, NoWorker)
Ends(r) ==
    /\ row[r].status \in Queued
    /\ \E s \in {"sent", "dead"} :
        /\ s = "sent" => row[r].status = "processing"
        /\ Becomes(r, s, row[r].attempts, row[r].created, row[r].since, 0, NoWorker)

RowChange(r) == Stays(r) \/ IsQueued(r) \/ TakenBack(r) \/ Claimed(r) \/ PutBack(r) \/ Ends(r)

Recipients == \E u \in Users : People(u)
Timing == Tick \/ \E r \in Rows : Enqueue(r)
Draining == \E w \in Workers : DrainStep(w) \/ Killed(w)

LEMMA StepCases == ASSUME [Next]_vars PROVE Timing \/ Draining \/ Recipients \/ UNCHANGED vars
  BY DEF Next, Timing, Draining, Recipients

LEMMA WithdrawChange == ASSUME TypeOK, NEW u \in Users, Withdraw(u), NEW r \in Rows
                        PROVE  Stays(r) \/ Ends(r)
  BY DEF Withdraw, Stays, Ends, TypeOK, Becomes, RowType

LEMMA PutChange ==
  ASSUME TypeOK, NEW k \in Rows, NEW st \in {"sent", "dead", "retry"}, NEW si \in Nat,
         Put(k, st, si), NEW r \in Rows
  PROVE  Stays(r) \/ (r = k /\ Becomes(r, st, row[r].attempts, row[r].created, si, 0, NoWorker))
  <1>1. row \in [Rows -> RowType] /\ row[k] \in RowType
    BY DEF TypeOK
  <1>2. CASE r # k
    BY <1>1, <1>2 DEF Put, Stays
  <1>3. CASE r = k
    BY <1>1, <1>3 DEF Put, RowType, Becomes
  <1> QED
    BY <1>2, <1>3

(* What a claim does to its row and to its drain. *)
LEMMA ClaimDrain ==
  ASSUME TypeOK, NEW w \in Workers, Claim(w)
  PROVE  /\ drain[w] # Idle /\ drain[w].stage = "claiming"
         /\ drain'[w].stage = "sending"
         /\ drain'[w].now = drain[w].now /\ drain'[w].known = drain[w].known
         /\ drain'[w].doing \in drain[w].todo /\ Claimable(drain'[w].doing, drain[w].now)
         /\ drain'[w].todo \subseteq drain[w].todo
         /\ \A v \in Workers : v # w => drain'[v] = drain[v]
         /\ UNCHANGED <<copies, lapses, unheard>>
         /\ \A r \in Rows : IF r = drain'[w].doing.row THEN ClaimedBy(w, drain'[w].doing, r)
                            ELSE Stays(r) /\ rereads'[r] = rereads[r]
  <1>1. /\ drain \in [Workers -> DrainType \cup {Idle}] /\ drain[w] \in DrainType
        /\ row \in [Rows -> RowType] /\ rereads \in [Rows -> Nat]
    BY DEF Claim, TypeOK
  <1>2. PICK x \in drain[w].todo :
            /\ Claimable(x, drain[w].now)
            /\ row' = [row EXCEPT ![x.row].status = "processing", ![x.row].attempts = @ + 1,
                                  ![x.row].holder = w, ![x.row].lease = drain[w].now + LeaseTime]
            /\ rereads' = [rereads EXCEPT ![x.row] = IF x.attempts # row[x.row].attempts
                                                     THEN @ + 1 ELSE @]
            /\ drain' = [drain EXCEPT ![w].stage = "sending", ![w].doing = x,
                                      ![w].todo = @ \ {x}]
    BY DEF Claim
  <1>3. /\ drain'[w].doing = x /\ drain'[w].stage = "sending"
        /\ drain'[w].now = drain[w].now /\ drain'[w].known = drain[w].known
        /\ drain'[w].todo = drain[w].todo \ {x}
    BY <1>1, <1>2 DEF DrainType
  <1>4. \A v \in Workers : v # w => drain'[v] = drain[v]
    BY <1>1, <1>2
  <1>5. x \in Read /\ x.row \in Rows
    BY <1>1 DEF DrainType, Read
  <1>6. ASSUME NEW r \in Rows, r = x.row PROVE ClaimedBy(w, x, r)
    <2>1. row[r] \in RowType
      BY <1>1
    <2>2. Becomes(r, "processing", row[r].attempts + 1, row[r].created, row[r].since,
                  drain[w].now + LeaseTime, w)
      BY <1>1, <1>2, <1>6, <2>1 DEF RowType, Becomes
    <2>3. rereads'[r] = IF x.attempts # row[r].attempts THEN rereads[r] + 1 ELSE rereads[r]
      BY <1>1, <1>2, <1>6
    <2> QED
      BY <1>2, <1>6, <2>2, <2>3 DEF ClaimedBy, Claim
  <1>7. ASSUME NEW r \in Rows, r # x.row PROVE Stays(r) /\ rereads'[r] = rereads[r]
    BY <1>1, <1>2, <1>5, <1>7 DEF Stays
  <1> QED
    BY <1>1, <1>2, <1>3, <1>4, <1>6, <1>7 DEF Claim

LEMMA RowSteps == ASSUME TypeOK, [Next]_vars, NEW r \in Rows PROVE RowChange(r)
  <1>0. row \in [Rows -> RowType] /\ row[r] \in RowType
    BY DEF TypeOK
  <1>1. CASE Timing
    <2>1. CASE Tick
      BY <2>1 DEF Tick, RowChange, Stays
    <2>2. ASSUME NEW k \in Rows, Enqueue(k) PROVE RowChange(r)
      <3>1. PICK t \in 0..clock :
              row' = [row EXCEPT ![k].status = "pending", ![k].created = t, ![k].since = t]
        BY <2>2 DEF Enqueue
      <3>2. t \in Nat
        BY <3>1 DEF TypeOK
      <3>3. CASE r = k
        <4>1. Becomes(r, "pending", row[r].attempts, t, t, row[r].lease, row[r].holder)
          BY <1>0, <3>1, <3>3 DEF Becomes, RowType
        <4> QED
          BY <2>2, <3>2, <3>3, <4>1 DEF Enqueue, RowChange, IsQueued
      <3>4. CASE r # k
        BY <1>0, <3>1, <3>4 DEF RowChange, Stays
      <3> QED
        BY <3>3, <3>4
    <2> QED
      BY <1>1, <2>1, <2>2 DEF Timing
  <1>2. CASE Draining
    <2>1. PICK w \in Workers : DrainStep(w) \/ Killed(w)
      BY <1>2 DEF Draining
    <2>2. CASE Recover(w)
      <3> DEFINE now == drain[w].now
      <3>1. row' = [e \in Rows |-> IF e \in Lapsed(now)
                       THEN [row[e] EXCEPT !.status = "retry", !.since = now, !.lease = 0,
                                           !.holder = NoWorker]
                       ELSE row[e]]
            /\ lapses' = [e \in Rows |-> IF e \in Lapsed(now) THEN lapses[e] + 1 ELSE lapses[e]]
        BY <2>2 DEF Recover
      <3>2. now \in Nat
        BY <2>2 DEF Recover, TypeOK, DrainType
      <3> HIDE DEF now
      <3>3. CASE r \in Lapsed(now)
        <4>1. Becomes(r, "retry", row[r].attempts, row[r].created, now, 0, NoWorker)
          BY <1>0, <3>1, <3>3 DEF Becomes, RowType
        <4>2. row[r].status = "processing" /\ lapses'[r] = lapses[r] + 1
          BY <3>1, <3>3 DEF Lapsed
        <4> QED
          BY <3>2, <4>1, <4>2 DEF RowChange, TakenBack
      <3>4. CASE r \notin Lapsed(now)
        BY <3>1, <3>4 DEF RowChange, Stays
      <3> QED
        BY <3>3, <3>4
    <2>3. CASE Claim(w)
      BY <2>3, ClaimDrain DEF RowChange, Claimed
    <2>4. CASE RecordSent(w)
      <3> DEFINE k == drain[w].doing.row
      <3>1. k \in Rows /\ row[k].since \in Nat
        BY <2>4 DEF RecordSent, TypeOK, Read, RowType
      <3>2. CASE Holds(w, k)
        <4>1. Put(k, "sent", row[k].since)
          BY <2>4, <3>2 DEF RecordSent
        <4>3. CASE Stays(r)
          BY <4>3 DEF RowChange
        <4>4. CASE r = k /\ Becomes(r, "sent", row[r].attempts, row[r].created, row[k].since, 0,
                                    NoWorker)
          BY <3>2, <4>4 DEF Holds, RowChange, Ends, Queued
        <4> QED
          BY <3>1, <4>1, <4>3, <4>4, PutChange
      <3>3. CASE ~Holds(w, k)
        BY <2>4, <3>3 DEF RecordSent, RowChange, Stays
      <3> QED
        BY <3>2, <3>3
    <2>5. CASE RecordFailure(w)
      <3> DEFINE k == drain[w].doing.row
      <3>1. k \in Rows /\ row[k].since \in Nat /\ drain[w].doing.attempts \in Nat
            /\ drain[w].now \in Nat
        BY <2>5 DEF RecordFailure, TypeOK, Read, RowType, DrainType
      <3>2. CASE Holds(w, k) /\ GivesUp(drain[w].doing, drain[w].outcome)
        <4>1. Put(k, "dead", row[k].since)
          BY <2>5, <3>2 DEF RecordFailure
        <4>3. CASE Stays(r)
          BY <4>3 DEF RowChange
        <4>4. CASE r = k /\ Becomes(r, "dead", row[r].attempts, row[r].created, row[k].since, 0,
                                    NoWorker)
          BY <3>2, <4>4 DEF Holds, RowChange, Ends, Queued
        <4> QED
          BY <3>1, <4>1, <4>3, <4>4, PutChange
      <3>3. CASE Holds(w, k) /\ ~GivesUp(drain[w].doing, drain[w].outcome)
        <4>1. PICK wait \in Backoffs : Put(k, "retry", drain[w].now + wait)
          BY <2>5, <3>3 DEF RecordFailure
        <4>2. drain[w].now + wait \in Nat
          BY <3>1, <4>1, TimeAssumption
        <4>5. Retries(w, k)
          BY <2>5, <3>1, <3>3, BoundAssumption DEF RecordFailure, GivesUp, Retries, Failing
        <4>3. CASE Stays(r)
          BY <4>3 DEF RowChange
        <4>4. CASE r = k /\ Becomes(r, "retry", row[r].attempts, row[r].created,
                                    drain[w].now + wait, 0, NoWorker)
          BY <3>3, <4>2, <4>4, <4>5 DEF Holds, RowChange, PutBack
        <4> QED
          BY <3>1, <4>1, <4>2, <4>3, <4>4, PutChange
      <3>4. CASE ~Holds(w, k)
        BY <2>5, <3>4 DEF RecordFailure, RowChange, Stays
      <3> QED
        BY <3>2, <3>3, <3>4
    <2>6. CASE Start(w) \/ Select(w) \/ Skip(w) \/ ClaimRefused(w) \/ Send(w) \/ Killed(w)
      BY <2>6 DEF Start, Select, Skip, ClaimRefused, Send, Killed, RowChange, Stays
    <2> QED
      BY <2>1, <2>2, <2>3, <2>4, <2>5, <2>6 DEF DrainStep
  <1>3. CASE Recipients
    <2>1. PICK u \in Users : People(u)
      BY <1>3 DEF Recipients
    <2>2. CASE Withdraw(u)
      BY <2>2, WithdrawChange DEF RowChange
    <2>3. CASE row' = row
      BY <2>3 DEF RowChange, Stays
    <2> QED
      BY <2>1, <2>2, <2>3 DEF People, Mute, Unmute, Disconnect, Relink, Resume,
                              CloseProfile, RestoreProfile
  <1>4. CASE UNCHANGED vars
    BY <1>4 DEF vars, RowChange, Stays
  <1> QED
    BY <1>1, <1>2, <1>3, <1>4, StepCases

-----------------------------------------------------------------------------
(* The types *)

Queue == row \in [Rows -> RowType] /\ \A r \in Rows : Leased(row[r])

LEMMA BecomesTyped ==
  ASSUME NEW r \in Rows, NEW st \in {"none", "sent", "dead"} \cup Queued, NEW at \in Nat,
         NEW cr \in Nat, NEW si \in Nat, NEW le \in Nat, NEW ho \in Workers \cup {NoWorker},
         (ho # NoWorker) <=> (st = "processing"), Becomes(r, st, at, cr, si, le, ho)
  PROVE  row'[r] \in RowType /\ Leased(row'[r])
  BY DEF Becomes, RowType, Leased

LEMMA RowTyped == ASSUME TypeOK, [Next]_vars, NEW r \in Rows
                  PROVE  row'[r] \in RowType /\ Leased(row'[r])
  <1>1. /\ row[r] \in RowType
        /\ (row[r].holder # NoWorker) <=> (row[r].status = "processing")
    BY DEF TypeOK
  <1>2. /\ row[r].status \in {"none", "sent", "dead"} \cup Queued
        /\ row[r].attempts \in Nat /\ row[r].since \in Nat /\ row[r].created \in Nat
        /\ row[r].lease \in Nat /\ row[r].holder \in Workers \cup {NoWorker}
    BY <1>1 DEF RowType
  <1>3. {"pending", "processing", "retry"} \subseteq Queued /\ row[r].attempts + 1 \in Nat
    BY <1>2 DEF Queued
  <1>4. CASE Stays(r)
    BY <1>1, <1>4 DEF Stays, Leased
  <1>6. CASE IsQueued(r)
    <2>1. row[r].holder = NoWorker
      BY <1>1, <1>6 DEF IsQueued
    <2>2. PICK t \in Nat : Becomes(r, "pending", row[r].attempts, t, t, row[r].lease, NoWorker)
      BY <1>6, <2>1 DEF IsQueued
    <2> QED
      BY <1>1, <1>2, <1>3, <2>2 DEF Becomes, RowType, Leased
  <1>8. CASE TakenBack(r)
    <2>1. PICK t \in Nat : Becomes(r, "retry", row[r].attempts, row[r].created, t, 0, NoWorker)
      BY <1>8 DEF TakenBack
    <2> QED
      BY <1>2, <1>3, <2>1, BecomesTyped
  <1>9. CASE PutBack(r)
    <2>1. PICK t \in Nat : Becomes(r, "retry", row[r].attempts, row[r].created, t, 0, NoWorker)
      BY <1>9 DEF PutBack
    <2> QED
      BY <1>2, <1>3, <2>1, BecomesTyped
  <1>10. CASE Claimed(r)
    <2>1. PICK w \in Workers : \E x \in drain[w].todo : ClaimedBy(w, x, r)
      BY <1>10 DEF Claimed
    <2>2. Becomes(r, "processing", row[r].attempts + 1, row[r].created, row[r].since,
                  drain[w].now + LeaseTime, w)
      BY <2>1 DEF ClaimedBy
    <2>3. drain[w].now + LeaseTime \in Nat
      <3>1. drain[w] \in DrainType
        BY <2>1 DEF ClaimedBy, TypeOK
      <3> QED
        BY <3>1, TimeAssumption DEF DrainType
    <2> QED
      BY <1>2, <1>3, <2>2, <2>3, BecomesTyped, WorkerAssumption
  <1>11. CASE Ends(r)
    BY <1>1, <1>2, <1>3, <1>11, BecomesTyped DEF Ends
  <1> QED
    BY <1>4, <1>6, <1>8, <1>9, <1>10, <1>11, RowSteps DEF RowChange

LEMMA RowMap == ASSUME TypeOK, [Next]_vars PROVE row' = [r \in Rows |-> row'[r]]
  <1>1. row = [r \in Rows |-> row[r]]
    BY DEF TypeOK
  <1>2. CASE Timing
    BY <1>1, <1>2 DEF Timing, Tick, Enqueue
  <1>3. CASE Draining
    <2>1. PICK w \in Workers : DrainStep(w) \/ Killed(w)
      BY <1>3 DEF Draining
    <2> QED
      BY <1>1, <2>1 DEF DrainStep, Start, Recover, Select, Claim, Skip, ClaimRefused, Send,
                        RecordSent, RecordFailure, Killed, Put
  <1>4. CASE Recipients
    BY <1>1, <1>4 DEF Recipients, People, Mute, Unmute, Disconnect, Relink, Resume,
                      CloseProfile, RestoreProfile, Withdraw
  <1> QED
    BY <1>1, <1>2, <1>3, <1>4, StepCases DEF vars

LEMMA QueueStep == ASSUME TypeOK, [Next]_vars PROVE Queue'
  BY RowTyped, RowMap DEF Queue

Drains ==
    /\ drain \in [Workers -> DrainType \cup {Idle}]
    /\ \A w \in Workers :
        drain[w] # Idle /\ drain[w].stage \in {"sending", "answered"} => drain[w].doing \in Read
Others ==
    /\ conn \in [Users -> ConnType]
    /\ profile \in [Users -> [open : BOOLEAN, version : Nat]]
    /\ clock \in Nat /\ faults \in Nat
    /\ copies \in [Rows -> Nat] /\ lapses \in [Rows -> Nat]
    /\ unheard \in [Rows -> Nat] /\ rereads \in [Rows -> Nat]

LEMMA TypeParts == /\ TypeOK <=> Queue /\ Drains /\ Others
                   /\ TypeOK' <=> Queue' /\ Drains' /\ Others'
  BY DEF TypeOK, Queue, Leased, Drains, Others

LEMMA TypeTiming == ASSUME TypeOK, Timing PROVE TypeOK'
  <1>1. Queue /\ Drains /\ Others /\ [Next]_vars
    BY TypeParts DEF Timing, Next
  <1>2. UNCHANGED <<conn, profile, drain, faults, history>> /\ clock' \in {clock, clock + 1}
    BY DEF Timing, Tick, Enqueue
  <1>3. clock' \in Nat
    BY <1>1, <1>2 DEF Others
  <1>4. Drains'
    BY <1>1, <1>2 DEF Drains
  <1>5. Others'
    BY <1>1, <1>2, <1>3 DEF Others, history
  <1> QED
    BY <1>1, <1>4, <1>5, QueueStep, TypeParts

LEMMA TypeRecipients == ASSUME TypeOK, Recipients PROVE TypeOK'
  <1>0. [Next]_vars
    BY DEF Recipients, Next
  <1>1. Queue /\ Drains /\ Others
    BY TypeParts
  <1>2. PICK u \in Users : People(u)
    BY DEF Recipients
  <1>3. Drains'
    BY <1>1, <1>2 DEF Drains, People, Mute, Unmute, Disconnect, Relink, Resume, CloseProfile,
                RestoreProfile
  <1>4. conn' \in [Users -> ConnType]
    <2>1. conn \in [Users -> ConnType] /\ conn[u] \in ConnType /\ conn[u].version + 1 \in Nat
      BY <1>1 DEF Others, ConnType
    <2>2. CASE Mute(u)
      BY <2>1, <2>2 DEF Mute, ConnType
    <2>3. CASE Unmute(u)
      BY <2>1, <2>3 DEF Unmute, ConnType
    <2>4. CASE Disconnect(u)
      BY <2>1, <2>4 DEF Disconnect, ConnType
    <2>5. CASE Relink(u)
      BY <2>1, <2>5 DEF Relink, ConnType
    <2>6. CASE Resume(u)
      BY <2>1, <2>6 DEF Resume, ConnType
    <2>7. CASE conn' = conn
      BY <2>1, <2>7
    <2> QED
      BY <1>2, <2>2, <2>3, <2>4, <2>5, <2>6, <2>7 DEF People, CloseProfile, RestoreProfile
  <1>5. profile' \in [Users -> [open : BOOLEAN, version : Nat]]
    <2>1. profile \in [Users -> [open : BOOLEAN, version : Nat]] /\ profile[u].version + 1 \in Nat
      BY <1>1 DEF Others
    <2>2. CASE CloseProfile(u)
      BY <2>1, <2>2 DEF CloseProfile
    <2>3. CASE RestoreProfile(u)
      BY <2>1, <2>3 DEF RestoreProfile
    <2>4. CASE profile' = profile
      BY <2>1, <2>4
    <2> QED
      BY <1>2, <2>2, <2>3, <2>4 DEF People, Mute, Unmute, Disconnect, Relink, Resume
  <1>6. Others'
    BY <1>1, <1>2, <1>4, <1>5 DEF Others, history, People, Mute, Unmute, Disconnect, Relink,
                Resume, CloseProfile, RestoreProfile
  <1> QED
    BY <1>0, <1>1, <1>3, <1>6, QueueStep, TypeParts

(* The record of a drain that goes on with its list. *)
LEMMA GoesOnDrain ==
  ASSUME TypeOK, NEW w \in Workers, drain[w] # Idle, NEW K \in SUBSET Rows,
         NEW T \in SUBSET Read, GoesOn(w, K, T)
  PROVE  /\ drain' \in [Workers -> DrainType \cup {Idle}]
         /\ drain'[w] # Idle =>
                /\ drain'[w].stage = "claiming" /\ drain'[w].now = drain[w].now
                /\ drain'[w].known = K /\ drain'[w].todo = T /\ drain'[w].doing = NoRow
                /\ drain'[w].outcome = "none"
         /\ \A v \in Workers : v # w => drain'[v] = drain[v]
  <1> DEFINE y == [stage |-> "claiming", now |-> drain[w].now, known |-> K, todo |-> T,
                   doing |-> NoRow, outcome |-> "none"]
  <1>1. drain \in [Workers -> DrainType \cup {Idle}] /\ drain[w] \in DrainType
    BY DEF TypeOK
  <1>2. y \in DrainType
    BY <1>1 DEF DrainType, Outcome
  <1>3. drain' = [drain EXCEPT ![w] = IF T = {} THEN Idle ELSE y]
    BY DEF GoesOn
  <1>4. /\ y.stage = "claiming" /\ y.now = drain[w].now /\ y.known = K /\ y.todo = T
        /\ y.doing = NoRow /\ y.outcome = "none"
    OBVIOUS
  <1> HIDE DEF y
  <1> QED
    BY <1>1, <1>2, <1>3, <1>4

(* The list a drain reads. *)
LEMMA SelectDrain ==
  ASSUME TypeOK, NEW w \in Workers, Select(w)
  PROVE  /\ drain[w] # Idle /\ drain[w].now \in Nat /\ row' = row
         /\ \E K \in SUBSET Rows, T \in SUBSET Read :
                /\ GoesOn(w, K, T)
                /\ K = {r \in Rows : row[r].status \in Queued}
                /\ \A x \in T : /\ x.row \in Rows /\ x.since = row[x.row].since
                                /\ row[x.row].status \in Sendable
                                /\ Visible(x.row, drain[w].now)
                                /\ FirstInLine(x.row, drain[w].now)
  <1> DEFINE now == drain[w].now
             found == {r \in Rows : /\ row[r].status \in Sendable /\ Visible(r, now)
                                    /\ Eligible(r) /\ FirstInLine(r, now)}
             item(r) == [row |-> r, since |-> row[r].since, attempts |-> row[r].attempts,
                         version |-> conn[Recipient[r]].version]
             T == {item(r) : r \in found}
             K == {r \in Rows : row[r].status \in Queued}
  <1>1. drain[w] # Idle /\ drain[w] \in DrainType /\ now \in Nat /\ row' = row
    BY DEF Select, TypeOK, DrainType
  <1>2. GoesOn(w, K, T)
    BY DEF Select
  <1>3. ASSUME NEW r \in Rows PROVE item(r) \in Read /\ item(r).row = r /\ item(r).since = row[r].since
    <2>1. row[r].since \in Nat /\ row[r].attempts \in Nat /\ conn[Recipient[r]].version \in Nat
      BY RecipientAssumption DEF TypeOK, RowType, ConnType
    <2> QED
      BY <2>1 DEF Read
  <1>4. ASSUME NEW x \in T
        PROVE  /\ x \in Read /\ x.row \in Rows /\ x.since = row[x.row].since
               /\ row[x.row].status \in Sendable /\ Visible(x.row, now) /\ FirstInLine(x.row, now)
    <2>1. PICK r \in found : x = item(r)
      OBVIOUS
    <2>2. r \in Rows /\ row[r].status \in Sendable /\ Visible(r, now) /\ FirstInLine(r, now)
      BY <2>1
    <2>3. x \in Read /\ x.row = r /\ x.since = row[r].since
      BY <1>3, <2>1, <2>2
    <2> QED
      BY <2>2, <2>3
  <1> HIDE DEF T, K, now
  <1>5. T \in SUBSET Read /\ K \in SUBSET Rows
    BY <1>4 DEF K
  <1>6. \A x \in T : /\ x.row \in Rows /\ x.since = row[x.row].since
                     /\ row[x.row].status \in Sendable
                     /\ Visible(x.row, now) /\ FirstInLine(x.row, now)
    BY <1>4
  <1> QED
    BY <1>1, <1>2, <1>5, <1>6 DEF K, now

LEMMA SendDrain ==
  ASSUME TypeOK, NEW w \in Workers, Send(w)
  PROVE  /\ drain[w] # Idle /\ drain[w].stage = "sending"
         /\ drain'[w].stage = "answered" /\ drain'[w].doing = drain[w].doing
         /\ drain'[w].now = drain[w].now /\ drain'[w].known = drain[w].known
         /\ drain'[w].todo = drain[w].todo
         /\ drain[w].doing.row \in Rows
         /\ \A v \in Workers : v # w => drain'[v] = drain[v]
         /\ row' = row /\ lapses' = lapses /\ rereads' = rereads
         /\ drain'[w].outcome \in Outcome
         /\ \A r \in Rows :
                /\ r # drain[w].doing.row => copies'[r] = copies[r] /\ unheard'[r] = unheard[r]
                /\ r = drain[w].doing.row =>
                    /\ copies'[r] = IF drain'[w].outcome \in {"ok", "lost"}
                                     THEN copies[r] + 1 ELSE copies[r]
                    /\ unheard'[r] = IF drain'[w].outcome = "lost"
                                      THEN unheard[r] + 1 ELSE unheard[r]
  <1>1. /\ drain \in [Workers -> DrainType \cup {Idle}] /\ drain[w] \in DrainType
        /\ drain[w].doing.row \in Rows
        /\ copies \in [Rows -> Nat] /\ unheard \in [Rows -> Nat]
    BY DEF Send, TypeOK, Read
  <1>2. PICK o \in Outcome :
          LET r == drain[w].doing.row
          IN  /\ drain' = [drain EXCEPT ![w].stage = "answered", ![w].outcome = o]
              /\ copies' = [copies EXCEPT ![r] = IF o \in {"ok", "lost"} THEN @ + 1 ELSE @]
              /\ unheard' = [unheard EXCEPT ![r] = IF o = "lost" THEN @ + 1 ELSE @]
    BY DEF Send
  <1>3. /\ drain'[w].stage = "answered" /\ drain'[w].doing = drain[w].doing
        /\ drain'[w].outcome = o /\ drain'[w].now = drain[w].now
        /\ drain'[w].known = drain[w].known /\ drain'[w].todo = drain[w].todo
    BY <1>1, <1>2 DEF DrainType
  <1>4. \A v \in Workers : v # w => drain'[v] = drain[v]
    BY <1>1, <1>2
  <1> QED
    BY <1>1, <1>2, <1>3, <1>4 DEF Send

LEMMA TypeDraining == ASSUME TypeOK, Draining PROVE TypeOK'
  <1>1. Queue /\ Drains /\ Others /\ [Next]_vars
    BY TypeParts DEF Draining, Next
  <1>2. PICK w \in Workers : DrainStep(w) \/ Killed(w)
    BY DEF Draining
  <1>3. drain[w] # Idle => drain[w] \in DrainType
    BY <1>1 DEF Drains
  <1>4. ASSUME NEW K \in SUBSET Rows, NEW T \in SUBSET Read, drain[w] # Idle, GoesOn(w, K, T)
        PROVE  Drains'
    BY <1>1, <1>4, GoesOnDrain DEF Drains
  <1>a. Drains'
    <2>1. CASE Start(w)
      <3>2. [stage |-> "started", now |-> clock, known |-> {}, todo |-> {}, doing |-> NoRow,
             outcome |-> "none"] \in DrainType
        BY <1>1 DEF DrainType, Outcome, Others
      <3> QED
        BY <1>1, <2>1, <3>2 DEF Start, Drains
    <2>9. CASE Recover(w)
      <3>1. [drain[w] EXCEPT !.stage = "recovered"] \in DrainType
        BY <1>3, <2>9 DEF Recover, DrainType
      <3>2. drain' = [drain EXCEPT ![w] = [drain[w] EXCEPT !.stage = "recovered"]]
        BY <1>1, <2>9 DEF Recover, Drains
      <3>3. [drain[w] EXCEPT !.stage = "recovered"].stage = "recovered"
        BY <1>3, <2>9 DEF Recover, DrainType
      <3> QED
        BY <1>1, <2>9, <3>1, <3>2, <3>3 DEF Drains
    <2>2. CASE Select(w)
      BY <1>4, <2>2, SelectDrain
    <2>3. CASE Claim(w)
      <3>1. PICK x \in drain[w].todo :
                drain' = [drain EXCEPT ![w].stage = "sending", ![w].doing = x,
                                       ![w].todo = @ \ {x}]
        BY <2>3 DEF Claim
      <3>2. x \in Read
        BY <1>3, <2>3, <3>1 DEF Claim, DrainType
      <3> QED
        BY <1>1, <1>3, <2>3, <3>1, <3>2 DEF Claim, Drains, DrainType
    <2>4. CASE Skip(w)
      <3>1. PICK x \in drain[w].todo : GoesOn(w, drain[w].known, drain[w].todo \ {x})
        BY <2>4 DEF Skip
      <3>2. drain[w].known \in SUBSET Rows /\ drain[w].todo \ {x} \in SUBSET Read
        BY <1>3, <2>4 DEF Skip, DrainType
      <3> QED
        BY <1>4, <2>4, <3>1, <3>2 DEF Skip
    <2>5. CASE ClaimRefused(w) \/ Killed(w)
      BY <1>1, <2>5 DEF ClaimRefused, Killed, Stop, Drains
    <2>6. CASE Send(w)
      <3>1. PICK o \in Outcome :
                drain' = [drain EXCEPT ![w].stage = "answered", ![w].outcome = o]
        BY <2>6 DEF Send
      <3>2. [drain[w] EXCEPT !.stage = "answered", !.outcome = o] \in DrainType
        BY <1>3, <2>6 DEF Send, DrainType
      <3>3. drain' = [drain EXCEPT ![w] = [drain[w] EXCEPT !.stage = "answered", !.outcome = o]]
        BY <1>1, <3>1 DEF Drains
      <3>4. [drain[w] EXCEPT !.stage = "answered", !.outcome = o].doing \in Read
        BY <1>1, <1>3, <2>6 DEF Send, Drains, DrainType
      <3> QED
        BY <1>1, <2>6, <3>2, <3>3, <3>4 DEF Drains
    <2>7. CASE RecordSent(w)
      <3>1. drain[w].known \in SUBSET Rows /\ drain[w].todo \in SUBSET Read
        BY <1>3, <2>7 DEF RecordSent, DrainType
      <3> QED
        BY <1>4, <2>7, <3>1 DEF RecordSent
    <2>8. CASE RecordFailure(w)
      <3>1. drain[w].known \in SUBSET Rows /\ drain[w].todo \in SUBSET Read
        BY <1>3, <2>8 DEF RecordFailure, DrainType
      <3>2. PICK T \in {drain[w].todo, {}} : GoesOn(w, drain[w].known, T)
        BY <2>8 DEF RecordFailure
      <3> QED
        BY <1>4, <2>8, <3>1, <3>2 DEF RecordFailure
    <2> QED
      BY <1>2, <2>1, <2>2, <2>3, <2>4, <2>5, <2>6, <2>7, <2>8, <2>9 DEF DrainStep
  <1>b. Others'
    <2>1. CASE Recover(w)
      <3> DEFINE back == Lapsed(drain[w].now)
                 busy == {r \in back : Attended(r)}
      <3>1. faults' \in Nat
        <4>1. IsFiniteSet(busy)
          <5>1. busy \subseteq Rows
            BY DEF Lapsed
          <5> QED
            BY <5>1, RowAssumption, FS_Subset
        <4>2. Cardinality(busy) \in Nat
          BY <4>1, FS_CardinalityType
        <4>3. faults' = faults + Cardinality(busy)
          BY <2>1 DEF Recover
        <4> QED
          BY <1>1, <4>2, <4>3 DEF Others
      <3>2. lapses' \in [Rows -> Nat]
        <4>1. lapses' = [r \in Rows |-> IF r \in back THEN lapses[r] + 1 ELSE lapses[r]]
          BY <2>1 DEF Recover
        <4>2. lapses \in [Rows -> Nat]
          BY <1>1 DEF Others
        <4> QED
          BY <4>1, <4>2
      <3> QED
        BY <1>1, <2>1, <3>1, <3>2 DEF Recover, Others
    <2>2. CASE Send(w)
      <3>1. drain[w].doing.row \in Rows
        BY <1>1, <2>2 DEF Send, Drains, Read
      <3> QED
        BY <1>1, <2>2, <3>1 DEF Send, Others
    <2>3. CASE RecordFailure(w)
      <3>1. conn' \in [Users -> ConnType]
        BY <1>1, <2>3 DEF RecordFailure, Others, ConnType
      <3> QED
        BY <1>1, <2>3, <3>1 DEF RecordFailure, Others, history
    <2>4. CASE Killed(w)
      BY <1>1, <2>4 DEF Killed, Others, history
    <2>6. CASE Claim(w)
      <3>1. rereads' \in [Rows -> Nat]
        <4>1. PICK x \in drain[w].todo :
                rereads' = [rereads EXCEPT ![x.row] = IF x.attempts # row[x.row].attempts
                                                      THEN @ + 1 ELSE @]
          BY <2>6 DEF Claim
        <4>2. rereads \in [Rows -> Nat] /\ x.row \in Rows /\ rereads[x.row] + 1 \in Nat
          BY <1>1, <1>3, <2>6 DEF Others, Claim, DrainType, Read
        <4>3. PICK n \in Nat : rereads' = [rereads EXCEPT ![x.row] = n]
          BY <4>1, <4>2
        <4> QED
          BY <4>2, <4>3
      <3> QED
        BY <1>1, <2>6, <3>1 DEF Claim, Others
    <2>5. CASE UNCHANGED <<conn, profile, clock, faults, history>>
      BY <1>1, <2>5 DEF Others, history
    <2> QED
      BY <1>2, <2>1, <2>2, <2>3, <2>4, <2>5, <2>6 DEF DrainStep, Start, Select, Skip,
                                               ClaimRefused, RecordSent
  <1> QED
    BY <1>1, <1>a, <1>b, QueueStep, TypeParts

LEMMA TypeInit == ASSUME Init PROVE TypeOK
  BY DEF Init, TypeOK, NewRow, None, RowType, ConnType, Queued

LEMMA TypeStep == ASSUME TypeOK, [Next]_vars PROVE TypeOK'
  <1>1. CASE UNCHANGED vars
    BY <1>1 DEF vars, history, TypeOK
  <1> QED
    BY <1>1, StepCases, TypeTiming, TypeDraining, TypeRecipients

(* Every variable keeps its type, and a row carries a lease exactly while  *)
(* it is being sent: no statement about the outbox leaves one behind.      *)
THEOREM TypeCorrect == Spec => []TypeOK
  BY TypeInit, TypeStep, PTL DEF Spec

(* A sent or dead row is never changed again, whatever a slow drain, a     *)
(* recovery or an opt-out does later.                                      *)
THEOREM SettledRowsStay == Spec => SettledIsFinal
  <1>1. TypeOK /\ [Next]_vars
        => [\A r \in Rows : row[r].status \in {"sent", "dead"} => row'[r] = row[r]]_vars
    BY RowSteps DEF RowChange, Stays, IsQueued, TakenBack, Claimed,
                    ClaimedBy, Claimable, PutBack, Ends, Queued, Sendable
  <1> QED
    BY <1>1, TypeCorrect, PTL DEF Spec, SettledIsFinal

-----------------------------------------------------------------------------
(* Silence after an opt-out *)

Hears(u) == conn[u].notify /\ conn[u].status # "disabled"

LEMMA QueuedBefore ==
  ASSUME TypeOK, [Next]_vars, NEW r \in Rows, row'[r].status \in Queued
  PROVE  row[r].status \in Queued \/ (Listening(Recipient[r]) /\ conn' = conn)
  BY RowSteps DEF RowChange, Stays, IsQueued, TakenBack, Claimed,
                  ClaimedBy, Claimable, PutBack, Ends, Becomes, Queued, Sendable

LEMMA HearsStill ==
  ASSUME TypeOK, [Next]_vars, NEW u \in Users, Hears(u)
  PROVE  Hears(u)' \/ \A r \in Rows : Recipient[r] = u => row'[r].status \notin Queued
  <1>1. conn \in [Users -> ConnType] /\ row \in [Rows -> RowType] /\ conn[u] \in ConnType
    BY DEF TypeOK
  <1>2. CASE Timing \/ UNCHANGED vars
    BY <1>2 DEF Timing, Tick, Enqueue, vars, Hears
  <1>3. CASE Draining
    <2>1. PICK w \in Workers : DrainStep(w) \/ Killed(w)
      BY <1>3 DEF Draining
    <2>2. CASE RecordFailure(w)
      <3>1. Recipient[drain[w].doing.row] \in Users
        BY <2>2, RecipientAssumption DEF RecordFailure, TypeOK, Read
      <3> QED
        BY <1>1, <2>2, <3>1 DEF RecordFailure, Hears, ConnType
    <2>3. CASE conn' = conn
      BY <2>3 DEF Hears
    <2> QED
      BY <2>1, <2>2, <2>3 DEF DrainStep, Start, Recover, Select, Claim, Skip, ClaimRefused, Send,
                              RecordSent, Killed
  <1>4. CASE Recipients
    <2>1. PICK v \in Users : People(v)
      BY <1>4 DEF Recipients
    <2>2. CASE u # v
      BY <1>1, <2>1, <2>2 DEF People, Mute, Unmute, Disconnect, Relink, Resume, CloseProfile,
                              RestoreProfile, Hears
    <2>3. CASE u = v /\ (Mute(v) \/ Disconnect(v))
      <3>1. Withdraw(v)
        BY <2>3 DEF Mute, Disconnect
      <3> QED
        BY <1>1, <2>3, <3>1 DEF Withdraw, RowType, Queued
    <2>4. CASE u = v /\ (Unmute(v) \/ Relink(v) \/ Resume(v))
      BY <1>1, <2>4 DEF Unmute, Relink, Resume, Hears, ConnType
    <2>5. CASE CloseProfile(v) \/ RestoreProfile(v)
      BY <2>5 DEF CloseProfile, RestoreProfile, Hears
    <2> QED
      BY <2>1, <2>2, <2>3, <2>4, <2>5 DEF People
  <1> QED
    BY <1>2, <1>3, <1>4, StepCases

LEMMA SilentStep == ASSUME TypeOK, SilentAfterOptOut, [Next]_vars PROVE SilentAfterOptOut'
  <1> SUFFICES ASSUME NEW r \in Rows, row'[r].status \in Queued PROVE Hears(Recipient[r])'
    BY DEF SilentAfterOptOut, Hears
  <1>1. Recipient[r] \in Users
    BY RecipientAssumption
  <1>2. CASE row[r].status \in Queued
    BY <1>1, <1>2, HearsStill DEF SilentAfterOptOut, Hears
  <1>3. CASE Listening(Recipient[r]) /\ conn' = conn
    BY <1>3 DEF Listening, Hears
  <1> QED
    BY <1>2, <1>3, QueuedBefore

(* Nothing queued for a recipient who has muted or left: not by a drain    *)
(* that read the row before, nor by one that fails after.                  *)
THEOREM OptOutRespected == Spec => []SilentAfterOptOut
  <1>1. Init => SilentAfterOptOut
    BY RecipientAssumption DEF Init, SilentAfterOptOut, NewRow, Queued
  <1> QED
    BY <1>1, SilentStep, TypeCorrect, PTL DEF Spec


-----------------------------------------------------------------------------
(* The order of the queue.  A drain reads only rows that are first in line *)
(* among those that are due, so each comes before every other row of the   *)
(* recipient that is then queued.  Later a queued row keeps its place      *)
(* until its first attempt has failed: only then does it get a new instant.*)

Keeps(w) == drain[w] # Idle /\ drain'[w].known = drain[w].known /\ Carried(w)' \subseteq Carried(w)
Begins(w) == Carried(w)' = {} /\ drain'[w].known = {}

LEMMA OneDrain == ASSUME TypeOK, [Next]_vars, NEW w \in Workers, drain'[w] # drain[w]
                  PROVE  DrainStep(w) \/ Killed(w)
  <1>1. drain \in [Workers -> DrainType \cup {Idle}]
    BY DEF TypeOK
  <1>2. Draining
    BY StepCases DEF Timing, Tick, Enqueue, vars, Recipients, People, Mute, Unmute, Disconnect,
                     Relink, Resume, CloseProfile, RestoreProfile
  <1>3. PICK v \in Workers : DrainStep(v) \/ Killed(v)
    BY <1>2 DEF Draining
  <1>4. v = w
    <2>1. CASE Start(v) \/ Recover(v) \/ Claim(v) \/ ClaimRefused(v) \/ Send(v) \/ Killed(v)
      BY <1>1, <2>1 DEF Start, Recover, Claim, ClaimRefused, Send, Killed, Stop
    <2>2. CASE \E K, T : GoesOn(v, K, T)
      BY <1>1, <2>2 DEF GoesOn
    <2> QED
      BY <1>3, <2>1, <2>2 DEF DrainStep, Select, Skip, RecordSent, RecordFailure
  <1> QED
    BY <1>3, <1>4

(* A drain that has recorded an outcome, or skipped a row, carries less. *)
LEMMA GoesOnKeeps ==
  ASSUME TypeOK, NEW w \in Workers, drain[w] # Idle, drain'[w] # Idle,
         NEW T \in SUBSET drain[w].todo, GoesOn(w, drain[w].known, T)
  PROVE  Keeps(w)
  <1>1. drain[w] \in DrainType
    BY DEF TypeOK
  <1>2. drain[w].known \in SUBSET Rows /\ T \in SUBSET Read
    BY <1>1 DEF DrainType
  <1>3. drain'[w].known = drain[w].known /\ drain'[w].todo = T /\ drain'[w].doing = NoRow
    BY <1>2, GoesOnDrain
  <1> QED
    BY <1>3 DEF Keeps, Carried

LEMMA DrainSteps == ASSUME TypeOK, [Next]_vars, NEW w \in Workers, drain'[w] # Idle
                    PROVE  Keeps(w) \/ Begins(w) \/ Select(w)
  <1>1. drain \in [Workers -> DrainType \cup {Idle}]
    BY DEF TypeOK
  <1>2. CASE drain'[w] = drain[w]
    BY <1>2 DEF Keeps, Carried
  <1>3. CASE drain'[w] # drain[w]
    <2>2. DrainStep(w) \/ Killed(w)
      BY <1>3, OneDrain
    <2>4. drain[w] # Idle => drain[w] \in DrainType
      BY <1>1
    <2>5. CASE Start(w)
      <3>1. drain'[w].todo = {} /\ drain'[w].doing = NoRow /\ drain'[w].known = {}
        BY <1>1, <2>5 DEF Start
      <3> QED
        BY <3>1 DEF Begins, Carried
    <2>3. CASE Recover(w)
      <3>1. /\ drain'[w].todo = drain[w].todo /\ drain'[w].doing = drain[w].doing
            /\ drain'[w].known = drain[w].known
        BY <1>1, <2>4, <2>3 DEF Recover, DrainType
      <3> QED
        BY <2>3, <3>1 DEF Keeps, Carried, Recover
    <2>6. CASE Claim(w)
      BY <2>6, ClaimDrain DEF Keeps, Carried
    <2>7. CASE Skip(w)
      <3>1. PICK T \in SUBSET drain[w].todo : GoesOn(w, drain[w].known, T)
        BY <2>7 DEF Skip
      <3> QED
        BY <2>7, <3>1, GoesOnKeeps DEF Skip
    <2>8. CASE Send(w)
      BY <2>8, SendDrain DEF Keeps, Carried
    <2>9. CASE RecordSent(w)
      BY <2>9, GoesOnKeeps DEF RecordSent
    <2>10. CASE RecordFailure(w)
      <3>1. PICK T \in SUBSET drain[w].todo : GoesOn(w, drain[w].known, T)
        BY <2>10 DEF RecordFailure
      <3> QED
        BY <2>10, <3>1, GoesOnKeeps DEF RecordFailure
    <2>11. CASE ClaimRefused(w) \/ Killed(w)
      BY <1>1, <2>11 DEF ClaimRefused, Killed, Stop
    <2> QED
      BY <2>2, <2>3, <2>5, <2>6, <2>7, <2>8, <2>9, <2>10, <2>11 DEF DrainStep
  <1> QED
    BY <1>2, <1>3

(* A row that has been tried shows it. *)
Tried == \A r \in Rows : row[r].status \in {"processing", "retry"} => row[r].attempts >= 1

LEMMA ClaimedRow ==
  ASSUME NEW r \in Rows, Claimed(r)
  PROVE  /\ row[r].status \in Sendable /\ row'[r].status = "processing"
         /\ row'[r].attempts = row[r].attempts + 1
         /\ row'[r].created = row[r].created /\ row'[r].since = row[r].since
  <1>1. PICK w \in Workers : \E x \in drain[w].todo : ClaimedBy(w, x, r)
    BY DEF Claimed
  <1> QED
    BY <1>1 DEF ClaimedBy, Claimable, Becomes

LEMMA PutBackRow ==
  ASSUME NEW r \in Rows, TakenBack(r) \/ PutBack(r)
  PROVE  /\ row[r].status = "processing" /\ row'[r].status = "retry"
         /\ row'[r].attempts = row[r].attempts /\ row'[r].created = row[r].created
  <1>1. row[r].status = "processing"
    BY DEF TakenBack, PutBack
  <1>2. PICK t \in Nat : Becomes(r, "retry", row[r].attempts, row[r].created, t, 0, NoWorker)
    BY DEF TakenBack, PutBack
  <1> QED
    BY <1>1, <1>2 DEF Becomes

LEMMA EndedRow ==
  ASSUME NEW r \in Rows, Ends(r)
  PROVE  /\ row'[r].status \in {"sent", "dead"}
         /\ row'[r].attempts = row[r].attempts /\ row'[r].created = row[r].created
  <1>1. PICK s \in {"sent", "dead"} :
          Becomes(r, s, row[r].attempts, row[r].created, row[r].since, 0, NoWorker)
    BY DEF Ends
  <1> QED
    BY <1>1 DEF Becomes

LEMMA QueuedRow ==
  ASSUME NEW r \in Rows, IsQueued(r)
  PROVE  /\ row[r].status = "none" /\ row'[r].status = "pending"
         /\ row'[r].attempts = row[r].attempts
  <1>1. PICK t \in Nat :
          Becomes(r, "pending", row[r].attempts, t, t, row[r].lease, row[r].holder)
    BY DEF IsQueued
  <1> QED
    BY <1>1 DEF IsQueued, Becomes

LEMMA TriedStep == ASSUME TypeOK, Tried, [Next]_vars PROVE Tried'
  <1> SUFFICES ASSUME NEW r \in Rows, row'[r].status \in {"processing", "retry"}
               PROVE  row'[r].attempts >= 1
    BY DEF Tried
  <1>1. row[r].attempts \in Nat
    BY DEF TypeOK, RowType
  <1>2. CASE Stays(r)
    BY <1>2 DEF Stays, Tried
  <1>3. CASE TakenBack(r) \/ PutBack(r)
    BY <1>3, PutBackRow DEF Tried
  <1>4. CASE Claimed(r)
    BY <1>1, <1>4, ClaimedRow
  <1>5. ~IsQueued(r) /\ ~Ends(r)
    BY QueuedRow, EndedRow
  <1> QED
    BY <1>2, <1>3, <1>4, <1>5, RowSteps DEF RowChange

(* A row that is queued is never unqueued, and keeps its date. *)
LEMMA StaysQueued ==
  ASSUME TypeOK, [Next]_vars, NEW r \in Rows, row[r].status # "none"
  PROVE  row'[r].status # "none" /\ row'[r].created = row[r].created
  <1>1. CASE Stays(r)
    BY <1>1 DEF Stays
  <1>2. CASE TakenBack(r) \/ PutBack(r)
    BY <1>2, PutBackRow
  <1>3. CASE Claimed(r)
    BY <1>3, ClaimedRow
  <1>4. CASE Ends(r)
    BY <1>4, EndedRow
  <1>5. ~IsQueued(r)
    BY DEF IsQueued
  <1> QED
    BY <1>1, <1>2, <1>3, <1>4, <1>5, RowSteps DEF RowChange

(* Until its first attempt is over a row keeps its place in the queue. *)
LEMMA UntriedBefore ==
  ASSUME TypeOK, Tried, [Next]_vars, NEW r \in Rows, row[r].status # "none", Untried(r)'
  PROVE  Untried(r) /\ row'[r].since = row[r].since
  <1>1. CASE Stays(r)
    BY <1>1 DEF Stays, Untried
  <1>2. CASE Claimed(r)
    <2>1. row[r].attempts \in Nat
      BY DEF TypeOK, RowType
    <2>2. row[r].attempts = 0
      BY <1>2, <2>1, ClaimedRow DEF Untried
    <2>3. row[r].status = "pending"
      BY <1>2, <2>2, ClaimedRow DEF Tried, Sendable
    <2> QED
      BY <1>2, <2>3, ClaimedRow DEF Untried
  <1>3. ~TakenBack(r) /\ ~PutBack(r) /\ ~Ends(r)
    BY PutBackRow, EndedRow DEF Untried
  <1>4. ~IsQueued(r)
    BY DEF IsQueued
  <1> QED
    BY <1>1, <1>2, <1>3, <1>4, RowSteps DEF RowChange

KnownQueued ==
    \A w \in Workers : drain[w] # Idle =>
        /\ \A r \in drain[w].known : r \in Rows /\ row[r].status # "none"
        /\ \A x \in Carried(w) : x.row \in drain[w].known

(* What a drain carries when it has read the queue. *)
LEMMA ReadDrain ==
  ASSUME TypeOK, NEW w \in Workers, Select(w), drain'[w] # Idle
  PROVE  /\ drain[w] # Idle /\ drain[w].now \in Nat /\ row' = row
         /\ drain'[w].known = {r \in Rows : row[r].status \in Queued}
         /\ \A x \in Carried(w)' : /\ x.row \in Rows /\ x.since = row[x.row].since
                                   /\ row[x.row].status \in Sendable
                                   /\ Visible(x.row, drain[w].now)
                                   /\ FirstInLine(x.row, drain[w].now)
  <1>1. drain[w] # Idle /\ drain[w].now \in Nat /\ row' = row
    BY SelectDrain
  <1>2. PICK K \in SUBSET Rows, T \in SUBSET Read :
                /\ GoesOn(w, K, T)
                /\ K = {r \in Rows : row[r].status \in Queued}
                /\ \A x \in T : /\ x.row \in Rows /\ x.since = row[x.row].since
                                /\ row[x.row].status \in Sendable
                                /\ Visible(x.row, drain[w].now)
                                /\ FirstInLine(x.row, drain[w].now)
    BY SelectDrain
  <1>3. drain'[w].known = K /\ drain'[w].todo = T /\ drain'[w].doing = NoRow
    BY <1>1, <1>2, GoesOnDrain
  <1>4. Carried(w)' = T
    BY <1>3 DEF Carried
  <1> QED
    BY <1>1, <1>2, <1>3, <1>4

LEMMA KnownStep == ASSUME TypeOK, KnownQueued, [Next]_vars PROVE KnownQueued'
  <1> SUFFICES ASSUME NEW w \in Workers, drain'[w] # Idle
               PROVE  /\ \A r \in drain'[w].known : r \in Rows /\ row'[r].status # "none"
                      /\ \A x \in Carried(w)' : x.row \in drain'[w].known
    BY DEF KnownQueued
  <1>1. CASE Keeps(w)
    BY <1>1, StaysQueued DEF Keeps, KnownQueued
  <1>2. CASE Begins(w)
    BY <1>2 DEF Begins
  <1>3. CASE Select(w)
    BY <1>3, ReadDrain DEF Queued, Sendable
  <1> QED
    BY <1>1, <1>2, <1>3, DrainSteps

(* Of two queued rows one comes first: the ids decide at last. *)
LEMMA OneFirst ==
  ASSUME TypeOK, NEW a \in Rows, NEW b \in Rows, a # b, ~Precedes(b, a)
  PROVE  Precedes(a, b)
  <1>1. /\ row[a].since \in Nat /\ row[b].since \in Nat
        /\ row[a].created \in Nat /\ row[b].created \in Nat
    BY DEF TypeOK, RowType
  <1>2. a \in Nat /\ b \in Nat
    BY RowAssumption
  <1> QED
    BY <1>1, <1>2 DEF Precedes, Before

(* A row that a drain reads comes before every other one of the recipient  *)
(* that is queued, due or not.                                             *)
LEMMA FirstOfAll ==
  ASSUME TypeOK, NEW a \in Rows, NEW r \in Rows, NEW n \in Nat, a # r,
         Recipient[r] = Recipient[a], row[r].status \in Queued, Visible(a, n), FirstInLine(a, n)
  PROVE  Precedes(a, r)
  <1>1. CASE Visible(r, n)
    BY <1>1, OneFirst DEF FirstInLine
  <1>2. CASE ~Visible(r, n)
    <2>1. row[a].since \in Nat /\ row[r].since \in Nat
      BY DEF TypeOK, RowType
    <2>2. row[a].since < row[r].since
      BY <1>2, <2>1 DEF Visible, Passed
    <2> QED
      BY <2>2 DEF Precedes, Before
  <1> QED
    BY <1>1, <1>2

LEMMA OrderStep ==
  ASSUME TypeOK, Tried, KnownQueued, InQueueOrder, [Next]_vars PROVE InQueueOrder'
  <1> SUFFICES ASSUME NEW w \in Workers, drain'[w] # Idle, NEW x \in Carried(w)',
                      NEW r \in drain'[w].known, Untried(r)', r # x.row,
                      Recipient[r] = Recipient[x.row]
               PROVE  Before(x.since, x.row, row[r].since, r)'
    BY DEF InQueueOrder
  <1>1. CASE Keeps(w)
    <2>1. drain[w] # Idle /\ x \in Carried(w) /\ r \in drain[w].known
      BY <1>1 DEF Keeps
    <2>2. /\ r \in Rows /\ row[r].status # "none"
          /\ x.row \in Rows /\ row[x.row].status # "none"
      BY <2>1 DEF KnownQueued
    <2>3. Untried(r) /\ row'[r].since = row[r].since
      BY <2>2, UntriedBefore
    <2>4. row'[r].created = row[r].created /\ row'[x.row].created = row[x.row].created
      BY <2>2, StaysQueued
    <2>5. Before(x.since, x.row, row[r].since, r)
      BY <2>1, <2>3 DEF InQueueOrder
    <2> QED
      BY <2>3, <2>4, <2>5 DEF Before
  <1>2. CASE Begins(w)
    BY <1>2 DEF Begins
  <1>3. CASE Select(w)
    <2>1. /\ drain[w].now \in Nat /\ row' = row
          /\ r \in Rows /\ row[r].status \in Queued
          /\ x.row \in Rows /\ x.since = row[x.row].since
          /\ Visible(x.row, drain[w].now) /\ FirstInLine(x.row, drain[w].now)
      BY <1>3, ReadDrain
    <2>2. Precedes(x.row, r)
      BY <2>1, FirstOfAll
    <2> QED
      BY <2>1, <2>2 DEF Precedes, Before
  <1> QED
    BY <1>1, <1>2, <1>3, DrainSteps

(* However many drains run, each working from rows it read earlier, no     *)
(* message nobody has tried is overtaken by a later one, nor sent beside   *)
(* it, unless it was committed after the drain had read the queue.         *)
THEOREM SentInQueueOrder == Spec => []InQueueOrder
  <1>1. Init => Tried /\ KnownQueued /\ InQueueOrder
    BY DEF Init, Tried, KnownQueued, InQueueOrder, NewRow
  <1>2. TypeOK /\ (Tried /\ KnownQueued /\ InQueueOrder) /\ [Next]_vars
        => (Tried /\ KnownQueued /\ InQueueOrder)'
    BY TriedStep, KnownStep, OrderStep
  <1> QED
    BY <1>1, <1>2, TypeCorrect, PTL DEF Spec

-----------------------------------------------------------------------------
(* Attempts.  A drain gives a row up by the number of attempts it read.    *)
(* The row may have had more since then, when another drain tried it in    *)
(* between: that claim is one of the rereads, and pays for itself.         *)

Works(w) == drain[w] # Idle /\ drain[w].stage \in {"sending", "answered"}
Allowed(r) == MaxAttempts + lapses[r] + rereads[r]
HeldAttempts ==
    \A w \in Workers : Works(w) /\ Holds(w, drain[w].doing.row)
        => \/ row[drain[w].doing.row].attempts = drain[w].doing.attempts + 1
           \/ row[drain[w].doing.row].attempts + 1 <= Allowed(drain[w].doing.row)
AttemptsLeft ==
    \A r \in Rows :
        /\ row[r].status = "none" => row[r].attempts = 0
        /\ row[r].attempts <= Allowed(r)
        /\ row[r].status \in Sendable => row[r].attempts + 1 <= Allowed(r)
Counted == HeldAttempts /\ AttemptsLeft

(* A drain sends what it has just claimed or goes on with what it did. *)
LEMMA WorkSteps ==
  ASSUME TypeOK, [Next]_vars, NEW w \in Workers, Works(w)'
  PROVE  drain'[w] = drain[w] \/ Send(w) \/ Claim(w)
  <1>1. drain \in [Workers -> DrainType \cup {Idle}]
    BY DEF TypeOK
  <1>2. drain[w] # Idle => drain[w] \in DrainType
    BY <1>1
  <1> SUFFICES ASSUME drain'[w] # drain[w] PROVE Send(w) \/ Claim(w)
    OBVIOUS
  <1>3. ~Start(w) /\ ~Recover(w)
    <2>1. ASSUME Start(w) PROVE drain'[w].stage = "started"
      BY <1>1, <2>1 DEF Start
    <2>2. ASSUME Recover(w) PROVE drain'[w].stage = "recovered"
      BY <1>1, <1>2, <2>2 DEF Recover, DrainType
    <2> QED
      BY <2>1, <2>2 DEF Works
  <1>4. ASSUME NEW K, NEW T, drain[w] # Idle PROVE ~GoesOn(w, K, T)
    <2>1. ASSUME GoesOn(w, K, T) PROVE drain'[w] = Idle \/ drain'[w].stage = "claiming"
      BY <1>1, <2>1 DEF GoesOn
    <2> QED
      BY <2>1 DEF Works
  <1>5. ~ClaimRefused(w) /\ ~Killed(w)
    BY <1>1 DEF ClaimRefused, Killed, Stop, Works
  <1>6. ~Select(w) /\ ~Skip(w) /\ ~RecordSent(w) /\ ~RecordFailure(w)
    BY <1>4 DEF Select, Skip, RecordSent, RecordFailure
  <1> QED
    BY <1>3, <1>5, <1>6, OneDrain DEF DrainStep

LEMMA HistoryGrows ==
  ASSUME TypeOK, [Next]_vars, NEW r \in Rows
  PROVE  /\ lapses[r] \in Nat /\ lapses'[r] \in Nat /\ lapses'[r] >= lapses[r]
         /\ rereads[r] \in Nat /\ rereads'[r] \in Nat /\ rereads'[r] >= rereads[r]
  <1>1. lapses \in [Rows -> Nat] /\ rereads \in [Rows -> Nat]
    BY DEF TypeOK
  <1>2. CASE lapses' = lapses /\ rereads' = rereads
    BY <1>1, <1>2
  <1>3. CASE \E w \in Workers : Recover(w)
    <2>1. PICK w \in Workers : Recover(w)
      BY <1>3
    <2>2. /\ rereads' = rereads
          /\ lapses' = [e \in Rows |-> IF e \in Lapsed(drain[w].now) THEN lapses[e] + 1
                                       ELSE lapses[e]]
      BY <2>1 DEF Recover
    <2> QED
      BY <1>1, <2>2
  <1>4. CASE \E w \in Workers : Claim(w)
    <2>1. PICK w \in Workers : Claim(w)
      BY <1>4
    <2>2. lapses' = lapses /\ rereads'[r] \in {rereads[r], rereads[r] + 1}
      BY <2>1, ClaimDrain DEF ClaimedBy
    <2> QED
      BY <1>1, <2>2
  <1> QED
    BY <1>2, <1>3, <1>4, StepCases DEF Timing, Tick, Enqueue, vars, history, Recipients, People,
          Mute, Unmute, Disconnect, Relink, Resume, CloseProfile, RestoreProfile, Draining,
          DrainStep, Start, Select, Skip, ClaimRefused, Send, RecordSent, RecordFailure, Killed

LEMMA MoreAllowed ==
  ASSUME TypeOK, [Next]_vars, NEW r \in Rows
  PROVE  /\ Allowed(r) \in Nat /\ Allowed(r)' \in Nat /\ Allowed(r)' >= Allowed(r)
         /\ lapses'[r] = lapses[r] + 1 => Allowed(r)' >= Allowed(r) + 1
         /\ rereads'[r] = rereads[r] + 1 => Allowed(r)' >= Allowed(r) + 1
  <1>1. MaxAttempts \in Nat
    BY BoundAssumption
  <1> QED
    BY <1>1, HistoryGrows DEF Allowed

LEMMA HeldStep ==
  ASSUME TypeOK, HeldAttempts, AttemptsLeft, [Next]_vars PROVE HeldAttempts'
  <1> SUFFICES ASSUME NEW w \in Workers, Works(w)', Holds(w, drain[w].doing.row)',
                      NEW q \in Rows, q = drain'[w].doing.row
               PROVE  \/ row'[q].attempts = drain'[w].doing.attempts + 1
                      \/ row'[q].attempts + 1 <= Allowed(q)'
    <2>1. \A w \in Workers : Works(w)' => drain'[w].doing.row \in Rows
      BY TypeStep DEF TypeOK, Works, Read
    <2> QED
      BY <2>1 DEF HeldAttempts, Allowed
  <1>1. q \in Rows
    OBVIOUS
  <1>2. row'[q].status = "processing" /\ row'[q].holder = w
    BY DEF Holds
  <1>3. /\ Allowed(q) \in Nat /\ Allowed(q)' \in Nat /\ Allowed(q)' >= Allowed(q)
        /\ rereads'[q] = rereads[q] + 1 => Allowed(q)' >= Allowed(q) + 1
    BY <1>1, MoreAllowed
  <1>4. CASE Claim(w)
    <2>1. ClaimedBy(w, drain'[w].doing, q)
      BY <1>1, <1>4, ClaimDrain
    <2>2. /\ row[q].status \in Sendable /\ row'[q].attempts = row[q].attempts + 1
          /\ drain'[w].doing.attempts # row[q].attempts => rereads'[q] = rereads[q] + 1
      BY <2>1 DEF ClaimedBy, Claimable, Becomes
    <2>3. row[q].attempts \in Nat /\ row[q].attempts + 1 <= Allowed(q)
      BY <1>1, <2>2 DEF AttemptsLeft, TypeOK, RowType
    <2>4. CASE drain'[w].doing.attempts = row[q].attempts
      BY <2>2, <2>4
    <2>5. CASE drain'[w].doing.attempts # row[q].attempts
      BY <1>3, <2>2, <2>3, <2>5
    <2> QED
      BY <2>4, <2>5
  <1>5. CASE drain'[w] = drain[w] \/ Send(w)
    <2>1. Works(w) /\ drain'[w].doing = drain[w].doing
      BY <1>5, SendDrain DEF Works
    <2>2. ~Claimed(q)
      <3> SUFFICES ASSUME Claimed(q) PROVE FALSE
        OBVIOUS
      <3>1. PICK v \in Workers : \E x \in drain[v].todo : ClaimedBy(v, x, q)
        BY DEF Claimed
      <3>2. row'[q].holder = v /\ drain[v].stage = "claiming"
        BY <3>1 DEF ClaimedBy, Becomes
      <3> QED
        BY <1>2, <2>1, <3>2 DEF Works
    <2>3. ~IsQueued(q) /\ ~TakenBack(q) /\ ~PutBack(q) /\ ~Ends(q)
      BY <1>1, <1>2, QueuedRow, PutBackRow, EndedRow
    <2>4. row'[q] = row[q]
      BY <1>1, <2>2, <2>3, RowSteps DEF RowChange, Stays
    <2>5. Holds(w, q) /\ row[q].attempts \in Nat
      BY <1>1, <1>2, <2>4 DEF Holds, TypeOK, RowType
    <2>6. \/ row[q].attempts = drain[w].doing.attempts + 1
          \/ row[q].attempts + 1 <= Allowed(q)
      BY <2>1, <2>5 DEF HeldAttempts
    <2> QED
      BY <1>3, <2>1, <2>4, <2>5, <2>6
  <1> QED
    BY <1>4, <1>5, WorkSteps

LEMMA LeftStep ==
  ASSUME TypeOK, HeldAttempts, AttemptsLeft, [Next]_vars PROVE AttemptsLeft'
  <1> SUFFICES ASSUME NEW r \in Rows
               PROVE  /\ row'[r].status = "none" => row'[r].attempts = 0
                      /\ row'[r].attempts <= Allowed(r)'
                      /\ row'[r].status \in Sendable => row'[r].attempts + 1 <= Allowed(r)'
    BY DEF AttemptsLeft
  <1>1. /\ row[r].attempts \in Nat /\ MaxAttempts \in Nat \ {0}
        /\ Allowed(r) \in Nat /\ Allowed(r)' \in Nat /\ Allowed(r)' >= Allowed(r)
        /\ lapses'[r] = lapses[r] + 1 => Allowed(r)' >= Allowed(r) + 1
        /\ MaxAttempts <= Allowed(r)
    <2>1. MaxAttempts \in Nat \ {0} /\ lapses[r] \in Nat /\ rereads[r] \in Nat
      BY HistoryGrows, BoundAssumption
    <2>2. MaxAttempts <= Allowed(r)
      BY <2>1 DEF Allowed
    <2> QED
      BY <2>1, <2>2, MoreAllowed DEF TypeOK, RowType
  <1>2. /\ row[r].status = "none" => row[r].attempts = 0
        /\ row[r].attempts <= Allowed(r)
        /\ row[r].status \in Sendable => row[r].attempts + 1 <= Allowed(r)
    BY DEF AttemptsLeft
  <1>a. CASE Stays(r)
    BY <1>1, <1>2, <1>a DEF Stays
  <1>c. CASE IsQueued(r)
    BY <1>1, <1>2, <1>c, QueuedRow
  <1>e. CASE TakenBack(r)
    BY <1>1, <1>2, <1>e, PutBackRow DEF TakenBack
  <1>f. CASE Claimed(r)
    BY <1>1, <1>2, <1>f, ClaimedRow DEF Sendable
  <1>g. CASE PutBack(r)
    <2>1. PICK w \in Workers : Retries(w, r)
      BY <1>g DEF PutBack
    <2>2. /\ drain[w].doing.row = r /\ Works(w) /\ Holds(w, r)
          /\ drain[w].doing.attempts + 1 < MaxAttempts
      BY <2>1 DEF Retries, Failing, Works
    <2>3. \/ row[r].attempts = drain[w].doing.attempts + 1
          \/ row[r].attempts + 1 <= Allowed(r)
      BY <2>2 DEF HeldAttempts
    <2>4. row[r].attempts < MaxAttempts \/ row[r].attempts + 1 <= Allowed(r)
      BY <2>2, <2>3
    <2> QED
      BY <1>1, <1>g, <2>4, PutBackRow
  <1>h. CASE Ends(r)
    BY <1>1, <1>2, <1>h, EndedRow DEF Sendable
  <1> QED
    BY <1>a, <1>c, <1>e, <1>f, <1>g, <1>h, RowSteps DEF RowChange

(* Whatever fails, however late a drain answers, a row is tried again      *)
(* beyond the maximum only when its lease has lapsed, or by a drain that   *)
(* had read it before the attempt of another one.                          *)
THEOREM AttemptsBounded == Spec => []AttemptsExplained
  <1>1. Init => Counted
    BY BoundAssumption DEF Init, Counted, HeldAttempts, AttemptsLeft, Allowed, Works, NewRow,
                           None, Sendable
  <1>2. TypeOK /\ Counted /\ [Next]_vars => Counted'
    BY HeldStep, LeftStep DEF Counted
  <1>3. Counted => AttemptsExplained
    BY DEF Counted, AttemptsLeft, AttemptsExplained, Allowed
  <1> QED
    BY <1>1, <1>2, <1>3, TypeCorrect, PTL DEF Spec

-----------------------------------------------------------------------------
(* Duplicates                                                              *)
(*                                                                         *)
(* Every message delivered or on its way is paid for by a lease that was   *)
(* taken back, a lost confirmation or, once, by the row being settled or   *)
(* held by a drain that has not heard of a failure.                        *)

Sending(r) == {w \in Workers : drain[w] # Idle /\ drain[w].stage = "sending"
                                /\ drain[w].doing.row = r}
Free(r) == \/ row[r].status \in {"none", "pending", "retry"}
           \/ \E w \in Workers : Holds(w, r) /\ Failing(w, r)
Paid(r) == copies[r] + Cardinality(Sending(r))
               <= lapses[r] + unheard[r] + (IF Free(r) THEN 0 ELSE 1)

LEMMA SendingFinite ==
  ASSUME NEW r PROVE IsFiniteSet(Sending(r)) /\ Cardinality(Sending(r)) \in Nat
                     /\ Sending(r) \subseteq Workers
  <1>1. Sending(r) \subseteq Workers
    BY DEF Sending
  <1> QED
    BY <1>1, WorkerAssumption, FS_Subset, FS_CardinalityType

LEMMA SendingFiniteNext ==
  ASSUME NEW r PROVE IsFiniteSet(Sending(r)') /\ Cardinality(Sending(r)') \in Nat
                     /\ Sending(r)' \subseteq Workers
  <1>1. Sending(r)' \subseteq Workers
    BY DEF Sending
  <1> QED
    BY <1>1, WorkerAssumption, FS_Subset, FS_CardinalityType

LEMMA Counts ==
  ASSUME TypeOK, NEW r \in Rows
  PROVE  copies[r] \in Nat /\ lapses[r] \in Nat /\ unheard[r] \in Nat
  BY DEF TypeOK

LEMMA PaidKept ==
  ASSUME TypeOK, [Next]_vars, NEW r \in Rows, Paid(r),
         copies'[r] = copies[r], unheard'[r] = unheard[r], lapses'[r] >= lapses[r],
         Sending(r)' \subseteq Sending(r), Free(r)' => Free(r) \/ lapses'[r] = lapses[r] + 1
  PROVE  Paid(r)'
  <1> DEFINE S == Sending(r)
             T == Sending(r)'
  <1>1. Cardinality(T) <= Cardinality(S) /\ Cardinality(T) \in Nat /\ Cardinality(S) \in Nat
    BY SendingFinite, SendingFiniteNext, FS_Subset
  <1>2. /\ copies[r] \in Nat /\ lapses[r] \in Nat /\ unheard[r] \in Nat /\ lapses'[r] \in Nat
    BY Counts, HistoryGrows
  <1>3. copies[r] + Cardinality(S) <= lapses[r] + unheard[r] + (IF Free(r) THEN 0 ELSE 1)
    BY DEF Paid
  <1> HIDE DEF S, T
  <1>4. copies'[r] + Cardinality(T) <= lapses'[r] + unheard'[r] + (IF Free(r)' THEN 0 ELSE 1)
    <2>1. CASE Free(r)'
      BY <1>1, <1>2, <1>3, <2>1
    <2>2. CASE ~Free(r)'
      BY <1>1, <1>2, <1>3, <2>2
    <2> QED
      BY <2>1, <2>2
  <1> QED
    BY <1>4 DEF Paid, T

LEMMA FreeKept ==
  ASSUME TypeOK, [Next]_vars, NEW r \in Rows, Free(r)',
         \A w \in Workers : Failing(w, r)' => Failing(w, r)
  PROVE  Free(r) \/ lapses'[r] = lapses[r] + 1
  <1>1. row'[r].status \in {"none", "pending", "retry"}
        \/ \E w \in Workers : Holds(w, r)' /\ Failing(w, r)
    BY DEF Free
  <1>a. CASE Stays(r)
    BY <1>1, <1>a DEF Stays, Free, Holds
  <1>c. CASE IsQueued(r)
    BY <1>c DEF IsQueued, Free
  <1>d. CASE TakenBack(r)
    BY <1>d DEF TakenBack
  <1>e. CASE Claimed(r)
    BY <1>e, ClaimedRow DEF Free, Sendable
  <1>f. CASE PutBack(r)
    BY <1>f DEF PutBack, Retries, Free
  <1>g. CASE Ends(r)
    BY <1>1, <1>g, EndedRow DEF Holds
  <1> QED
    BY <1>a, <1>c, <1>d, <1>e, <1>f, <1>g, RowSteps DEF RowChange

LEMMA PaidClaim ==
  ASSUME TypeOK, [Next]_vars, NEW w \in Workers, Claim(w), NEW r \in Rows, Paid(r),
         drain'[w].doing.row = r
  PROVE  Paid(r)'
  <1> DEFINE S == Sending(r)
             T == Sending(r)'
  <1>1. /\ drain[w] # Idle /\ drain[w].stage = "claiming" /\ drain'[w].stage = "sending"
        /\ drain'[w].doing \in drain[w].todo /\ Claimable(drain'[w].doing, drain[w].now)
        /\ \A v \in Workers : v # w => drain'[v] = drain[v]
        /\ copies' = copies /\ lapses' = lapses /\ unheard' = unheard
        /\ ClaimedBy(w, drain'[w].doing, r)
    BY ClaimDrain
  <1>2. T \subseteq S \cup {w}
    BY <1>1 DEF Sending
  <1>3. Cardinality(T) <= Cardinality(S) + 1 /\ Cardinality(T) \in Nat /\ Cardinality(S) \in Nat
    <2>1. /\ IsFiniteSet(S \cup {w})
          /\ Cardinality(S \cup {w}) = IF w \in S THEN Cardinality(S) ELSE Cardinality(S) + 1
      BY SendingFinite, FS_AddElement
    <2>2. Cardinality(T) <= Cardinality(S \cup {w})
      BY <1>2, <2>1, FS_Subset
    <2>3. Cardinality(T) \in Nat /\ Cardinality(S) \in Nat
      BY SendingFinite, SendingFiniteNext
    <2> HIDE DEF S, T
    <2> QED
      BY <2>1, <2>2, <2>3
  <1>4. Free(r)
    BY <1>1 DEF Claimable, Sendable, Free
  <1>5. ~Free(r)'
    <2>3. row'[r].status = "processing" /\ row'[r].holder = w
      BY <1>1 DEF ClaimedBy, Becomes
    <2> QED
      BY <1>1, <2>3 DEF Free, Holds, Failing
  <1>6. copies[r] \in Nat /\ lapses[r] \in Nat /\ unheard[r] \in Nat
    BY Counts
  <1>7. copies[r] + Cardinality(S) <= lapses[r] + unheard[r] + 0
    BY <1>4 DEF Paid
  <1> HIDE DEF S, T
  <1>8. copies'[r] + Cardinality(T) <= lapses'[r] + unheard'[r] + 1
    BY <1>1, <1>3, <1>6, <1>7
  <1> QED
    BY <1>5, <1>8 DEF Paid, T

LEMMA PaidSend ==
  ASSUME TypeOK, [Next]_vars, NEW w \in Workers, Send(w), NEW r \in Rows, Paid(r),
         drain[w].doing.row = r
  PROVE  Paid(r)'
  <1> DEFINE S == Sending(r)
             T == Sending(r)'
             o == drain'[w].outcome
  <1>1. /\ drain[w] # Idle /\ drain[w].stage = "sending" /\ drain'[w].stage = "answered"
        /\ \A v \in Workers : v # w => drain'[v] = drain[v]
        /\ row' = row /\ lapses' = lapses
        /\ copies'[r] = IF o \in {"ok", "lost"} THEN copies[r] + 1 ELSE copies[r]
        /\ unheard'[r] = IF o = "lost" THEN unheard[r] + 1 ELSE unheard[r]
    BY SendDrain
  <1>2. w \in S /\ T = S \ {w}
    BY <1>1 DEF Sending
  <1>3. Cardinality(T) = Cardinality(S) - 1 /\ Cardinality(T) \in Nat /\ Cardinality(S) \in Nat
    BY <1>2, SendingFinite, SendingFiniteNext, FS_RemoveElement
  <1>4. o = "ok" => (Free(r)' => Free(r))
    BY <1>1 DEF Free, Holds, Failing
  <1>5. copies[r] \in Nat /\ lapses[r] \in Nat /\ unheard[r] \in Nat
    BY Counts
  <1>6. copies[r] + Cardinality(S) <= lapses[r] + unheard[r] + (IF Free(r) THEN 0 ELSE 1)
    BY DEF Paid
  <1> HIDE DEF S, T, o
  <1>7. copies'[r] + Cardinality(T) <= lapses'[r] + unheard'[r] + (IF Free(r)' THEN 0 ELSE 1)
    <2>1. CASE o = "ok"
      <3>1. copies'[r] = copies[r] + 1 /\ unheard'[r] = unheard[r] /\ lapses'[r] = lapses[r]
        BY <1>1, <2>1
      <3> QED
        BY <1>3, <1>4, <1>5, <1>6, <2>1, <3>1
    <2>2. CASE o = "lost"
      <3>1. copies'[r] = copies[r] + 1 /\ unheard'[r] = unheard[r] + 1 /\ lapses'[r] = lapses[r]
        BY <1>1, <2>2
      <3> QED
        BY <1>3, <1>5, <1>6, <3>1
    <2>3. CASE o \notin {"ok", "lost"}
      <3>1. copies'[r] = copies[r] /\ unheard'[r] = unheard[r] /\ lapses'[r] = lapses[r]
        BY <1>1, <2>3
      <3> QED
        BY <1>3, <1>5, <1>6, <3>1
    <2> QED
      BY <2>1, <2>2, <2>3
  <1> QED
    BY <1>7 DEF Paid, T

LEMMA HistoryKept ==
  ASSUME TypeOK, [Next]_vars, NEW r \in Rows,
         ~\E w \in Workers : Send(w) /\ drain[w].doing.row = r
  PROVE  copies'[r] = copies[r] /\ unheard'[r] = unheard[r]
  <1>1. CASE copies' = copies /\ unheard' = unheard
    BY <1>1
  <1>2. CASE \E w \in Workers : Send(w)
    BY <1>2, SendDrain
  <1> QED
    BY <1>1, <1>2, StepCases DEF Timing, Tick, Enqueue, vars, history, Recipients, People,
          Mute, Unmute, Disconnect, Relink, Resume, CloseProfile, RestoreProfile, Draining,
          DrainStep, Start, Recover, Select, Claim, Skip, ClaimRefused, RecordSent, RecordFailure,
          Killed

LEMMA PaidStep == ASSUME TypeOK, [Next]_vars, NEW r \in Rows, Paid(r) PROVE Paid(r)'
  <1>1. CASE \E w \in Workers : Claim(w) /\ drain'[w].doing.row = r
    BY <1>1, PaidClaim
  <1>2. CASE \E w \in Workers : Send(w) /\ drain[w].doing.row = r
    BY <1>2, PaidSend
  <1>3. CASE /\ ~\E w \in Workers : Claim(w) /\ drain'[w].doing.row = r
             /\ ~\E w \in Workers : Send(w) /\ drain[w].doing.row = r
    <2>1. Sending(r)' \subseteq Sending(r)
      <3> SUFFICES ASSUME NEW w \in Workers, w \in Sending(r)' PROVE w \in Sending(r)
        BY DEF Sending
      <3>1. drain'[w] # Idle /\ drain'[w].stage = "sending" /\ drain'[w].doing.row = r
        BY DEF Sending
      <3>2. drain'[w] = drain[w] \/ Send(w) \/ Claim(w)
        BY <3>1, WorkSteps DEF Works
      <3>3. ~Send(w)
        BY <3>1, SendDrain
      <3> QED
        BY <1>3, <3>1, <3>2, <3>3 DEF Sending
    <2>2. ASSUME NEW w \in Workers, Failing(w, r)' PROVE Failing(w, r)
      <3>1. drain'[w] # Idle /\ drain'[w].stage = "answered" /\ drain'[w].doing.row = r
        BY <2>2 DEF Failing
      <3>2. drain'[w] = drain[w] \/ Send(w) \/ Claim(w)
        BY <3>1, WorkSteps DEF Works
      <3>3. ~Claim(w)
        BY <3>1, ClaimDrain
      <3>4. ~Send(w)
        BY <1>3, <3>1, SendDrain
      <3> QED
        BY <2>2, <3>2, <3>3, <3>4 DEF Failing
    <2>3. Free(r)' => Free(r) \/ lapses'[r] = lapses[r] + 1
      BY <2>2, FreeKept
    <2> QED
      BY <1>3, <2>1, <2>3, HistoryKept, HistoryGrows, PaidKept
  <1> QED
    BY <1>1, <1>2, <1>3

(* A recipient sees a message again only after a lease lapsed or the       *)
(* confirmation of a delivery was lost.                                    *)
THEOREM DuplicatesHaveReasons == Spec => []DuplicatesExplained
  <1> DEFINE AllPaid == \A r \in Rows : Paid(r)
  <1>1. Init => AllPaid
    <2> SUFFICES ASSUME Init, NEW r \in Rows PROVE Paid(r)
      OBVIOUS
    <2>1. Sending(r) = {} /\ copies[r] = 0 /\ lapses[r] = 0 /\ unheard[r] = 0
      BY DEF Init, Sending, None
    <2>2. Cardinality(Sending(r)) = 0
      BY <2>1, FS_EmptySet
    <2> QED
      BY <2>1, <2>2 DEF Paid
  <1>2. TypeOK /\ AllPaid /\ [Next]_vars => AllPaid'
    BY PaidStep
  <1>3. TypeOK /\ AllPaid => DuplicatesExplained
    <2> SUFFICES ASSUME TypeOK, AllPaid, NEW r \in Rows
                 PROVE  copies[r] <= 1 + lapses[r] + unheard[r]
      BY DEF DuplicatesExplained
    <2>1. copies[r] \in Nat /\ lapses[r] \in Nat /\ unheard[r] \in Nat
          /\ Cardinality(Sending(r)) \in Nat
      BY Counts, SendingFinite
    <2>2. Paid(r)
      OBVIOUS
    <2> QED
      BY <2>1, <2>2 DEF Paid
  <1> QED
    BY <1>1, <1>2, <1>3, TypeCorrect, PTL DEF Spec

=============================================================================
