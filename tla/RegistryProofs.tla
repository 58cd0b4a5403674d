--------------------------- MODULE RegistryProofs ----------------------------
(***************************************************************************)
(* Proofs that the safety properties of VisitSchedule, SchoolYear,         *)
(* ClassLoans, Catalogue, ProcurementPlan and Acquisition hold for every   *)
(* value of their constants.  Each component has an inductive invariant, a *)
(* lemma per handler and, at the end of its part, its theorems.            *)
(***************************************************************************)
EXTENDS VisitSchedule, SchoolYear, ClassLoans, Catalogue, ProcurementPlan, Acquisition,
        SumTheorems, SequenceTheorems

-----------------------------------------------------------------------------
(* The inductive invariant.  A handler that compares with its clock is at  *)
(* most one segment late, so that a visit it found in the future has not   *)
(* left the day's count when the batch is written.                         *)

CallsFine == \A w \in Callers : Clocked(w) => caller[w].read <= now /\ now <= caller[w].read + 1
VisitsInv == VisitsTypeOK /\ VisitsSound /\ CallsFine

Held(v) == {s \in Segments : claim[s] = v}

-----------------------------------------------------------------------------
(* Days and counts *)

(* Days follow one another as segments do (kyivToday). *)
LEMMA DayMonotone ==
    ASSUME NEW s \in Nat, NEW t \in Nat, s <= t
    PROVE  Day(s) <= Day(t) /\ Day(s) \in Nat
<1>1. DayLength \in Nat /\ DayLength > 0
  BY VisitBounds
<1> DEFINE a == s + DayLength - 1
           b == t + DayLength - 1
<1>2. a \in Nat /\ b \in Nat /\ a <= b
  BY <1>1
<1>3. /\ a \div DayLength \in Nat /\ b \div DayLength \in Nat
      /\ (a \div DayLength) * DayLength <= a
      /\ b < (b \div DayLength) * DayLength + DayLength
  <2> HIDE DEF a, b
  <2> QED BY <1>1, <1>2
<1>4. \A p, q, d \in Nat : d > 0 /\ p > q => q * d + d <= p * d
  <2> SUFFICES ASSUME NEW p \in Nat, NEW q \in Nat, NEW d \in Nat, d > 0, p > q
               PROVE  q * d + d <= p * d
    OBVIOUS
  <2>1. p - q - 1 \in Nat
    OBVIOUS
  <2>2. (p - q - 1) * d >= 0
    BY <2>1
  <2>3. (p - q - 1) * d = p * d - q * d - d
    BY <2>1
  <2> QED BY <2>2, <2>3
<1>5. a \div DayLength <= b \div DayLength
  <2> SUFFICES ASSUME a \div DayLength > b \div DayLength PROVE FALSE
    BY <1>3
  <2> DEFINE p == a \div DayLength
             q == b \div DayLength
  <2>1. q * DayLength + DayLength <= p * DayLength
    BY <1>1, <1>3, <1>4
  <2> HIDE DEF a, b, p, q
  <2> QED BY <1>1, <1>2, <1>3, <2>1 DEF p, q
<1> QED BY <1>3, <1>5 DEF Day

(* A count of bookings is a number, and grows with the set counted. *)
LEMMA CountMonotone ==
    ASSUME NEW S \in SUBSET Visits, NEW T \in SUBSET S
    PROVE  Cardinality(T) \in Nat /\ Cardinality(S) \in Nat /\ Cardinality(T) <= Cardinality(S)
<1>1. IsFiniteSet(S) /\ IsFiniteSet(T)
  BY VisitsFinite, FS_Subset
<1> QED BY <1>1, FS_Subset, FS_CardinalityType

LEMMA CountOneMore ==
    ASSUME NEW S \in SUBSET Visits, NEW T \in SUBSET Visits, NEW v \in Visits, T \subseteq S \cup {v},
           Cardinality(S) < MaxBookings
    PROVE  Cardinality(T) <= MaxBookings
<1>1. IsFiniteSet(S)
  BY VisitsFinite, FS_Subset
<1>2. S \cup {v} \in SUBSET Visits /\ Cardinality(S) \in Nat
  BY CountMonotone
<1>3. Cardinality(S \cup {v}) <= Cardinality(S) + 1
  <2>1. Cardinality(S \cup {v}) = IF v \in S THEN Cardinality(S) ELSE Cardinality(S) + 1
    BY <1>1, FS_AddElement
  <2> QED BY <1>2, <2>1
<1>4. /\ Cardinality(T) \in Nat /\ Cardinality(S) \in Nat /\ Cardinality(S \cup {v}) \in Nat
      /\ Cardinality(T) <= Cardinality(S \cup {v})
  BY <1>2, CountMonotone
<1> QED BY <1>3, <1>4, VisitBounds

-----------------------------------------------------------------------------
(* Claims: the primary key of visit_slot_claims *)

LEMMA CoveredIsSegments ==
    ASSUME NEW i \in Intervals
    PROVE  Covered(i) \subseteq Segments /\ i[1] \in Nat /\ i[1] >= 1
BY VisitBounds DEF Intervals, Covered, Segments

(* A batch that moves the claims of v to free segments disturbs no other. *)
LEMMA ClaimsAlone ==
    ASSUME NEW v \in Claimants, NEW i \in Intervals, VisitsTypeOK, FreeFor(v, i), Claims(v, i)
    PROVE  /\ claim' \in [Segments -> Claimants \cup {Unclaimed}]
           /\ Held(v)' = Covered(i)
           /\ \A u \in Claimants : u # v => Held(u)' = Held(u)
<1>1. Unclaimed \notin Claimants /\ Covered(i) \subseteq Segments
  BY VisitValues, CoveredIsSegments DEF Claimants
<1>2. claim' = [s \in Segments |-> IF s \in Covered(i) THEN v
                                   ELSE IF claim[s] = v THEN Unclaimed ELSE claim[s]]
  BY DEF Claims
<1>3. claim \in [Segments -> Claimants \cup {Unclaimed}]
  BY DEF VisitsTypeOK
<1>4. Held(v)' = Covered(i)
  BY <1>1, <1>2 DEF Held
<1>5. ASSUME NEW u \in Claimants, u # v PROVE Held(u)' = Held(u)
  <2>1. \A s \in Covered(i) : claim[s] # u
    BY <1>1, <1>5 DEF FreeFor
  <2> QED BY <1>1, <1>2, <1>5, <2>1 DEF Held
<1> QED BY <1>2, <1>3, <1>4, <1>5

LEMMA GivesUpAlone ==
    ASSUME NEW v \in Claimants, VisitsTypeOK, GivesUp(v)
    PROVE  /\ claim' \in [Segments -> Claimants \cup {Unclaimed}]
           /\ Held(v)' = {}
           /\ \A u \in Claimants : u # v => Held(u)' = Held(u)
<1>1. Unclaimed \notin Claimants
  BY VisitValues DEF Claimants
<1> QED BY <1>1 DEF VisitsTypeOK, GivesUp, Held

(* The step of one row and its claims keeps the claims of all. *)
LEMMA OneRow ==
    ASSUME NEW v \in Claimants, VisitsTypeOK, NoOverlap, NEW r \in VisitType,
           visit' = [visit EXCEPT ![v] = r],
           Held(v)' = IF r.status = "active" THEN Covered(r.at) ELSE {},
           \A u \in Claimants : u # v => Held(u)' = Held(u)
    PROVE  NoOverlap' /\ visit' \in [Claimants -> VisitType]
<1>1. visit \in [Claimants -> VisitType]
  BY DEF VisitsTypeOK
<1>2. ASSUME NEW u \in Claimants
      PROVE  Held(u)' = IF visit'[u].status = "active" THEN Covered(visit'[u].at) ELSE {}
  <2>1. CASE u = v
    BY <1>1, <2>1
  <2>2. CASE u # v
    <3>1. visit'[u] = visit[u]
      BY <1>1, <2>2
    <3>2. Held(u) = IF visit[u].status = "active" THEN Covered(visit[u].at) ELSE {}
      BY DEF NoOverlap, Held
    <3> QED BY <2>2, <3>1, <3>2
  <2> QED BY <2>1, <2>2
<1> QED BY <1>1, <1>2 DEF NoOverlap, Held

-----------------------------------------------------------------------------
(* What a count of a day becomes *)

(* No row changes, days may go by, a card may be closed that expects nobody. *)
LEMMA DayGoes ==
    ASSUME VisitsInv, visit' = visit, now' = now \/ now' = now + 1,
           \A h \in Hosts : ~cardOpen'[h] => ~cardOpen[h] \/ NoVisitsToCome(h)
    PROVE  WithinLimit' /\ NobodyExpected'
<1>1. now \in Nat /\ now' \in Nat /\ now <= now'
  BY DEF VisitsInv, VisitsTypeOK, Moments
<1>2. Day(now) <= Day(now') /\ Day(now) \in Nat /\ Day(now') \in Nat
  BY <1>1, DayMonotone
<1>3. \A v \in Claimants : Day(visit[v].at[1]) \in Nat
  <2> SUFFICES ASSUME NEW v \in Claimants PROVE Day(visit[v].at[1]) \in Nat
    OBVIOUS
  <2>1. visit[v].at \in Intervals
    BY DEF VisitsInv, VisitsTypeOK, VisitType
  <2> QED BY <2>1, CoveredIsSegments, DayMonotone
<1>4. WithinLimit'
  <2> SUFFICES ASSUME NEW o \in Owners
               PROVE  Cardinality({v \in Visits : /\ visit[v].status = "active"
                                                  /\ visit[v].owner = o
                                                  /\ Day(visit[v].at[1]) >= Day(now')})
                        <= MaxBookings
    BY DEF WithinLimit, Upcoming, Day
  <2> DEFINE T == {v \in Visits : /\ visit[v].status = "active" /\ visit[v].owner = o
                                  /\ Day(visit[v].at[1]) >= Day(now')}
             S == Upcoming(o, Day(now))
  <2>1. S \in SUBSET Visits /\ T \in SUBSET S
    BY <1>2, <1>3 DEF Upcoming, Claimants
  <2>2. Cardinality(S) <= MaxBookings
    BY DEF VisitsInv, VisitsSound, WithinLimit
  <2>3. Cardinality(T) \in Nat /\ Cardinality(S) \in Nat /\ Cardinality(T) <= Cardinality(S)
    <3> HIDE DEF S, T
    <3> QED BY <2>1, CountMonotone
  <2> QED BY <2>2, <2>3, VisitBounds
<1>5. NobodyExpected'
  <2> SUFFICES ASSUME NEW h \in Hosts, ~cardOpen'[h], NEW v \in Visits,
                      visit[v].status = "active", visit[v].host = h
               PROVE  Day(visit[v].at[1]) < Day(now')
    BY DEF NobodyExpected, NoVisitsToCome, Day
  <2>1. Day(visit[v].at[1]) < Day(now)
    BY DEF VisitsInv, VisitsSound, NobodyExpected, NoVisitsToCome
  <2> QED BY <1>2, <1>3, <2>1 DEF Claimants
<1> QED BY <1>4, <1>5

(* A row is written: it is either one more where the batch has counted, or *)
(* one that was counted already, and it names an open card.                *)
CountedBefore(v, r) ==
    visit[v].status = "active" /\ visit[v].owner = r.owner /\ Day(visit[v].at[1]) >= Day(now)
RoomForMore(o) == Cardinality(Upcoming(o, Day(now))) < MaxBookings

LEMMA RowCounts ==
    ASSUME VisitsInv, NEW v \in Claimants, NEW r \in VisitType,
           visit' = [visit EXCEPT ![v] = r], now' = now, cardOpen' = cardOpen,
           r.status = "active" /\ v \in Visits =>
               /\ CountedBefore(v, r) \/ RoomForMore(r.owner)
               /\ \A h \in Hosts : r.host = h => cardOpen[h]
    PROVE  WithinLimit' /\ NobodyExpected'
<1>1. visit \in [Claimants -> VisitType]
  BY DEF VisitsInv, VisitsTypeOK
<1>2. \A u \in Claimants : visit'[u] = IF u = v THEN r ELSE visit[u]
  BY <1>1
<1>3. Visits \subseteq Claimants
  BY DEF Claimants
<1>4. WithinLimit'
  <2> SUFFICES ASSUME NEW o \in Owners PROVE (Cardinality(Upcoming(o, Day(now))) <= MaxBookings)'
    BY DEF WithinLimit
  <2> DEFINE S == Upcoming(o, Day(now))
             T == Upcoming(o, Day(now))'
  <2>1. S \in SUBSET Visits /\ T \in SUBSET Visits
    BY DEF Upcoming
  <2>2. Cardinality(S) <= MaxBookings
    BY DEF VisitsInv, VisitsSound, WithinLimit
  <2>3. CASE T \subseteq S
    <3> HIDE DEF S, T
    <3>1. Cardinality(T) \in Nat /\ Cardinality(S) \in Nat /\ Cardinality(T) <= Cardinality(S)
      BY <2>1, <2>3, CountMonotone
    <3>2. Cardinality(T) <= MaxBookings
      BY <2>2, <3>1, VisitBounds
    <3> QED BY <3>2 DEF T
  <2>4. CASE ~(T \subseteq S)
    <3>1. PICK u \in T : u \notin S
      BY <2>4
    <3>2. /\ u \in Visits /\ visit'[u].status = "active" /\ visit'[u].owner = o
          /\ Day(visit'[u].at[1]) >= Day(now)
      BY <3>1 DEF Upcoming, Day
    <3>3. u = v
      <4> SUFFICES ASSUME u # v PROVE FALSE
        OBVIOUS
      <4>1. visit'[u] = visit[u]
        BY <1>2, <1>3, <3>2
      <4> QED BY <3>1, <3>2, <4>1 DEF Upcoming
    <3>4. v \in Visits /\ r.status = "active" /\ r.owner = o
      BY <1>2, <3>2, <3>3
    <3>5. ~CountedBefore(v, r)
      BY <3>1, <3>3, <3>4 DEF CountedBefore, Upcoming
    <3>6. Cardinality(S) < MaxBookings
      BY <3>4, <3>5 DEF RoomForMore
    <3>7. T \subseteq S \cup {v}
      BY <1>2, <1>3 DEF Upcoming, Day
    <3>8. Cardinality(T) <= MaxBookings
      <4> HIDE DEF S, T
      <4> QED BY <2>1, <3>4, <3>6, <3>7, CountOneMore
    <3> QED BY <3>8
  <2> QED BY <2>3, <2>4
<1>5. NobodyExpected'
  <2> SUFFICES ASSUME NEW h \in Hosts, ~cardOpen[h], NEW u \in Visits,
                      visit'[u].status = "active", visit'[u].host = h
               PROVE  Day(visit'[u].at[1]) < Day(now)
    BY DEF NobodyExpected, NoVisitsToCome, Day
  <2>1. u # v
    BY <1>2, <1>3
  <2>2. visit'[u] = visit[u]
    BY <1>2, <1>3, <2>1
  <2> QED BY <2>2 DEF VisitsInv, VisitsSound, NobodyExpected, NoVisitsToCome
<1> QED BY <1>4, <1>5

-----------------------------------------------------------------------------
(* Handlers *)

LEMMA Starting ==
    ASSUME VisitsInv, NEW w \in Callers, NEW p \in CallerPlan, StartsCall(w, p),
           p.op \in {"book", "move"} => p.read = now
    PROVE  VisitsInv'
<1>1. /\ caller \in [Callers -> CallerPlan \cup {Away}]
      /\ caller' = [caller EXCEPT ![w] = p]
      /\ UNCHANGED <<now, taught, cardOpen, signed, visit, claim>>
  BY DEF VisitsInv, VisitsTypeOK, StartsCall
<1>2. VisitsTypeOK'
  <2>1. caller' \in [Callers -> CallerPlan \cup {Away}]
    BY <1>1
  <2> QED BY <1>1, <2>1 DEF VisitsInv, VisitsTypeOK
<1>3. NoOverlap'
  BY <1>1 DEF VisitsInv, VisitsSound, NoOverlap
<1>4. WithinLimit' /\ NobodyExpected'
  BY <1>1, DayGoes
<1>5. now \in Nat
  BY DEF VisitsInv, VisitsTypeOK, Moments
<1>6. CallsFine'
  <2> SUFFICES ASSUME NEW v \in Callers, Clocked(v)'
               PROVE  caller'[v].read <= now /\ now <= caller'[v].read + 1
    BY <1>1 DEF CallsFine
  <2>1. CASE v = w
    BY <1>1, <1>5, <2>1 DEF Clocked
  <2>2. CASE v # w
    BY <1>1, <2>2 DEF VisitsInv, CallsFine, Clocked
  <2> QED BY <2>1, <2>2
<1> QED BY <1>2, <1>3, <1>4, <1>6 DEF VisitsInv, VisitsSound

LEMMA Ending ==
    ASSUME VisitsInv, NEW w \in Callers, caller' = [caller EXCEPT ![w] = Away], now' = now
    PROVE  CallsFine' /\ caller' \in [Callers -> CallerPlan \cup {Away}]
<1>1. caller \in [Callers -> CallerPlan \cup {Away}]
  BY DEF VisitsInv, VisitsTypeOK
<1>2. CallsFine'
  <2> SUFFICES ASSUME NEW v \in Callers, Clocked(v)'
               PROVE  caller'[v].read <= now /\ now <= caller'[v].read + 1
    BY DEF CallsFine
  <2>1. v # w
    BY <1>1 DEF Clocked
  <2> QED BY <1>1, <2>1 DEF VisitsInv, CallsFine, Clocked
<1> QED BY <1>1, <1>2

(* What a handler that is about to write carries *)
LEMMA PlanFields ==
    ASSUME NEW p \in CallerPlan
    PROVE  /\ p.op = "book" =>
                 /\ p.owner \in Owners /\ p.host \in Hosts /\ p.at \in Intervals
                 /\ p.read \in Moments
           /\ p.op = "move" => p.visit \in Visits /\ p.at \in Intervals /\ p.read \in Moments
           /\ p.op = "cancel" => p.visit \in Visits
           /\ p.op = "shut" => p.at \in Intervals
           /\ p.op = "unshut" => p.visit \in Closures
BY DEF CallerPlan

(* One row written by the end of a call, with its claims. *)
LEMMA VisitRowWritten ==
    ASSUME VisitsInv, NEW w \in Callers, NEW op, EndsCall(w, op),
           NEW v \in Claimants, NEW r \in VisitType, visit' = [visit EXCEPT ![v] = r],
           claim' \in [Segments -> Claimants \cup {Unclaimed}],
           Held(v)' = IF r.status = "active" THEN Covered(r.at) ELSE {},
           \A u \in Claimants : u # v => Held(u)' = Held(u),
           r.status = "active" /\ v \in Visits =>
               /\ CountedBefore(v, r) \/ RoomForMore(r.owner)
               /\ \A h \in Hosts : r.host = h => cardOpen[h]
    PROVE  VisitsInv'
<1>1. /\ caller' = [caller EXCEPT ![w] = Away]
      /\ now' = now /\ cardOpen' = cardOpen /\ UNCHANGED <<taught, signed>>
  BY DEF EndsCall
<1>2. CallsFine' /\ caller' \in [Callers -> CallerPlan \cup {Away}]
  BY <1>1, Ending
<1>3. NoOverlap' /\ visit' \in [Claimants -> VisitType]
  <2>1. VisitsTypeOK /\ NoOverlap
    BY DEF VisitsInv, VisitsSound
  <2> QED BY <2>1, OneRow
<1>4. WithinLimit' /\ NobodyExpected'
  BY <1>1, RowCounts
<1>5. VisitsTypeOK'
  BY <1>1, <1>2, <1>3 DEF VisitsInv, VisitsTypeOK
<1> QED BY <1>2, <1>3, <1>4, <1>5 DEF VisitsInv, VisitsSound

-----------------------------------------------------------------------------
(* The batches *)

LEMMA BookKeeps ==
    ASSUME VisitsInv, NEW w \in Callers, CommitBook(w)
    PROVE  VisitsInv'
<1> DEFINE p == caller[w]
<1>1. p \in CallerPlan /\ p.op = "book" /\ EndsCall(w, "book")
  BY DEF VisitsInv, VisitsTypeOK, CommitBook, EndsCall
<1>2. p.owner \in Owners /\ p.host \in Hosts /\ p.at \in Intervals /\ p.read \in Moments
  BY <1>1, PlanFields
<1>3. PICK v \in Visits : /\ visit[v].status = "none"
                          /\ FreeFor(v, p.at)
                          /\ Claims(v, p.at)
                          /\ visit' = [visit EXCEPT ![v] = Booked(p.owner, p.host, p.at, 1)]
  BY DEF CommitBook
<1> DEFINE r == Booked(p.owner, p.host, p.at, 1)
<1>4. v \in Claimants /\ VisitsTypeOK
  BY DEF Claimants, VisitsInv
<1>5. /\ r \in VisitType /\ r.status = "active" /\ r.at = p.at
      /\ r.owner = p.owner /\ r.host = p.host
  BY <1>2 DEF Booked, VisitType
<1>6. /\ claim' \in [Segments -> Claimants \cup {Unclaimed}]
      /\ Held(v)' = Covered(p.at)
      /\ \A u \in Claimants : u # v => Held(u)' = Held(u)
  BY <1>2, <1>3, <1>4, ClaimsAlone
<1>7. RoomForMore(p.owner)
  <2>1. p.read \in Nat /\ now \in Nat /\ p.read <= now
    BY <1>1, <1>2 DEF VisitsInv, VisitsTypeOK, CallsFine, Clocked, Moments, EndsCall
  <2>2. Day(p.read) <= Day(now) /\ Day(p.read) \in Nat /\ Day(now) \in Nat
    BY <2>1, DayMonotone
  <2>3. \A u \in Visits : Day(visit[u].at[1]) \in Nat
    <3> SUFFICES ASSUME NEW u \in Visits PROVE Day(visit[u].at[1]) \in Nat
      OBVIOUS
    <3>1. visit[u].at \in Intervals
      BY DEF VisitsInv, VisitsTypeOK, VisitType, Claimants
    <3> QED BY <3>1, CoveredIsSegments, DayMonotone
  <2> DEFINE S == Upcoming(p.owner, Day(p.read))
             T == Upcoming(p.owner, Day(now))
  <2>4. S \in SUBSET Visits /\ T \in SUBSET S
    BY <2>2, <2>3 DEF Upcoming
  <2>5. Cardinality(S) < MaxBookings
    BY DEF CommitBook, UnderLimit
  <2>6. Cardinality(T) \in Nat /\ Cardinality(S) \in Nat /\ Cardinality(T) <= Cardinality(S)
    <3> HIDE DEF S, T
    <3> QED BY <2>4, CountMonotone
  <2>7. Cardinality(T) < MaxBookings
    <3> HIDE DEF S, T
    <3> QED BY <2>5, <2>6, VisitBounds
  <2> QED BY <2>7 DEF RoomForMore
<1>8. cardOpen[p.host]
  BY DEF CommitBook
<1> HIDE DEF r, p
<1> QED BY <1>1, <1>3, <1>4, <1>5, <1>6, <1>7, <1>8, VisitRowWritten DEF r

LEMMA MoveKeeps ==
    ASSUME VisitsInv, NEW w \in Callers, CommitMove(w)
    PROVE  VisitsInv'
<1> DEFINE p == caller[w]
<1>1. p \in CallerPlan /\ p.op = "move" /\ EndsCall(w, "move")
  BY DEF VisitsInv, VisitsTypeOK, CommitMove, EndsCall
<1>2. p.visit \in Visits /\ p.at \in Intervals /\ p.read \in Moments
  BY <1>1, PlanFields
<1>v. PICK v \in Visits : v = p.visit
  BY <1>2
<1> DEFINE r == Booked(visit[v].owner, visit[v].host, p.at, visit[v].ver + 1)
<1>3. /\ visit[v].status = "active" /\ visit[v].at[1] > p.read
      /\ cardOpen[visit[v].host] /\ FreeFor(v, p.at) /\ Claims(v, p.at)
      /\ visit' = [visit EXCEPT ![v] = r]
  BY <1>v DEF CommitMove, ActiveVisit
<1>4. v \in Claimants /\ VisitsTypeOK
  BY DEF Claimants, VisitsInv
<1>5. visit[v] \in VisitType
  BY <1>4 DEF VisitsTypeOK
<1>6. /\ r \in VisitType /\ r.status = "active" /\ r.at = p.at
      /\ r.owner = visit[v].owner /\ r.host = visit[v].host
  BY <1>2, <1>5 DEF Booked, VisitType
<1>7. /\ claim' \in [Segments -> Claimants \cup {Unclaimed}]
      /\ Held(v)' = Covered(p.at)
      /\ \A u \in Claimants : u # v => Held(u)' = Held(u)
  BY <1>2, <1>3, <1>4, ClaimsAlone
<1>8. CountedBefore(v, r)
  <2>1. p.read \in Nat /\ now \in Nat /\ now <= p.read + 1
    BY <1>1, <1>2 DEF VisitsInv, VisitsTypeOK, CallsFine, Clocked, Moments, EndsCall
  <2>2. visit[v].at[1] \in Nat /\ now <= visit[v].at[1]
    <3>1. visit[v].at \in Intervals
      BY <1>5 DEF VisitType
    <3>2. visit[v].at[1] \in Nat
      BY <3>1, CoveredIsSegments
    <3> QED BY <1>3, <2>1, <3>2
  <2>3. Day(visit[v].at[1]) >= Day(now)
    BY <2>1, <2>2, DayMonotone
  <2> QED BY <1>3, <1>6, <2>3 DEF CountedBefore
<1> HIDE DEF r, p
<1> QED BY <1>1, <1>3, <1>4, <1>6, <1>7, <1>8, VisitRowWritten

LEMMA WithdrawKeeps ==
    ASSUME VisitsInv, NEW w \in Callers, CommitCancelVisit(w) \/ CommitUnshut(w)
    PROVE  VisitsInv'
<1> DEFINE p == caller[w]
<1>1. PICK op \in {"cancel", "unshut"} : EndsCall(w, op)
  BY DEF CommitCancelVisit, CommitUnshut
<1>2. p \in CallerPlan /\ p.op = op
  BY <1>1 DEF VisitsInv, VisitsTypeOK, EndsCall
<1>3. VisitsTypeOK /\ p.visit \in Claimants
  BY <1>1, <1>2, PlanFields DEF Claimants, VisitsInv
<1>v. PICK v \in Claimants : v = p.visit
  BY <1>3
<1> DEFINE r == Withdrawn(visit[v])
<1>4. visit[v] \in VisitType /\ GivesUp(v) /\ visit' = [visit EXCEPT ![v] = r]
  BY <1>3, <1>v DEF VisitsTypeOK, CommitCancelVisit, CommitUnshut
<1>5. r \in VisitType /\ r.status = "cancelled"
  BY <1>4 DEF Withdrawn, VisitType
<1>6. /\ claim' \in [Segments -> Claimants \cup {Unclaimed}]
      /\ Held(v)' = {}
      /\ \A u \in Claimants : u # v => Held(u)' = Held(u)
  BY <1>3, <1>4, GivesUpAlone
<1> HIDE DEF r, p
<1> QED BY <1>1, <1>3, <1>4, <1>5, <1>6, VisitRowWritten

LEMMA ShutKeeps ==
    ASSUME VisitsInv, NEW w \in Callers, CommitShut(w)
    PROVE  VisitsInv'
<1> DEFINE p == caller[w]
           r == Booked(NoHost, NoHost, p.at, 1)
<1>1. p \in CallerPlan /\ p.op = "shut" /\ EndsCall(w, "shut")
  BY DEF VisitsInv, VisitsTypeOK, CommitShut, EndsCall
<1>2. p.at \in Intervals
  BY <1>1, PlanFields
<1>3. PICK v \in Closures : /\ FreeFor(v, p.at) /\ Claims(v, p.at)
                            /\ visit' = [visit EXCEPT ![v] = r]
  BY DEF CommitShut
<1>4. v \in Claimants /\ v \notin Visits /\ VisitsTypeOK
  BY VisitValues DEF Claimants, VisitsInv
<1>5. r \in VisitType /\ r.status = "active" /\ r.at = p.at
  BY <1>2 DEF Booked, VisitType
<1>6. /\ claim' \in [Segments -> Claimants \cup {Unclaimed}]
      /\ Held(v)' = Covered(p.at)
      /\ \A u \in Claimants : u # v => Held(u)' = Held(u)
  BY <1>2, <1>3, <1>4, ClaimsAlone
<1> HIDE DEF r, p
<1> QED BY <1>1, <1>3, <1>4, <1>5, <1>6, VisitRowWritten

LEMMA GiveUpKeeps ==
    ASSUME VisitsInv, NEW w \in Callers, GiveUp(w)
    PROVE  VisitsInv'
<1>1. /\ caller' = [caller EXCEPT ![w] = Away]
      /\ UNCHANGED <<now, taught, cardOpen, signed, visit, claim>>
  BY DEF GiveUp
<1>2. CallsFine' /\ caller' \in [Callers -> CallerPlan \cup {Away}]
  BY <1>1, Ending
<1>3. VisitsTypeOK' /\ NoOverlap'
  BY <1>1, <1>2 DEF VisitsInv, VisitsTypeOK, VisitsSound, NoOverlap
<1>4. WithinLimit' /\ NobodyExpected'
  BY <1>1, DayGoes
<1> QED BY <1>2, <1>3, <1>4 DEF VisitsInv, VisitsSound

-----------------------------------------------------------------------------
(* Every step keeps the invariant *)

LEMMA VisitsStart == VisitsInit => VisitsInv
<1> SUFFICES ASSUME VisitsInit PROVE VisitsInv
  OBVIOUS
<1>1. MaxSegment \in Nat \ {0} /\ DayLength \in Nat \ {0} /\ MaxBookings \in Nat \ {0}
  BY VisitBounds
<1>2. <<1, 1>> \in Intervals
  BY <1>1 DEF Intervals, Segments
<1>3. VisitsTypeOK
  <2>1. visit \in [Claimants -> VisitType]
    BY <1>2 DEF VisitsInit, VisitType
  <2>2. claim \in [Segments -> Claimants \cup {Unclaimed}]
    BY DEF VisitsInit
  <2>3. caller \in [Callers -> CallerPlan \cup {Away}]
    BY DEF VisitsInit
  <2> QED BY <1>1, <2>1, <2>2, <2>3 DEF VisitsInit, VisitsTypeOK, Moments
<1>4. \A v \in Claimants : visit[v].status = "none"
  BY DEF VisitsInit
<1>5. NoOverlap
  BY <1>4, VisitValues DEF NoOverlap, VisitsInit, Claimants
<1>6. WithinLimit
  <2> SUFFICES ASSUME NEW o \in Owners PROVE Cardinality(Upcoming(o, Day(now))) <= MaxBookings
    BY DEF WithinLimit
  <2>1. Upcoming(o, Day(now)) = {}
    BY <1>4 DEF Upcoming, Claimants
  <2>2. Cardinality(Upcoming(o, Day(now))) = 0
    BY <2>1, FS_EmptySet
  <2> QED BY <1>1, <2>2
<1>7. NobodyExpected
  BY <1>4 DEF NobodyExpected, NoVisitsToCome, Claimants
<1>8. CallsFine
  BY DEF CallsFine, Clocked, VisitsInit
<1> QED BY <1>3, <1>5, <1>6, <1>7, <1>8 DEF VisitsInv, VisitsSound

(* What the clock and the other stores do *)
LEMMA OthersKeep ==
    ASSUME VisitsInv,
           \/ Tick
           \/ \E h \in Hosts : CloseHost(h) \/ RestoreHost(h)
           \/ \E o \in Owners : SignIn(o) \/ SignOut(o)
           \/ \E f \in Forms : TurnForm(f)
    PROVE  VisitsInv'
<1>1. UNCHANGED <<visit, claim, caller>>
  BY DEF Tick, CloseHost, RestoreHost, SignIn, SignOut, TurnForm
<1>2. VisitsTypeOK'
  <2>1. now' \in Moments
    BY VisitBounds
       DEF VisitsInv, VisitsTypeOK, Moments, Tick, CloseHost, RestoreHost, SignIn, SignOut, TurnForm
  <2>2. taught' \in SUBSET Forms
    BY DEF VisitsInv, VisitsTypeOK, Tick, CloseHost, RestoreHost, SignIn, SignOut, TurnForm
  <2>3. cardOpen' \in [Hosts -> BOOLEAN]
    BY DEF VisitsInv, VisitsTypeOK, Tick, CloseHost, RestoreHost, SignIn, SignOut, TurnForm
  <2>4. signed' \in [Owners -> BOOLEAN]
    BY DEF VisitsInv, VisitsTypeOK, Tick, CloseHost, RestoreHost, SignIn, SignOut, TurnForm
  <2> QED BY <1>1, <2>1, <2>2, <2>3, <2>4 DEF VisitsInv, VisitsTypeOK
<1>3. NoOverlap'
  BY <1>1 DEF VisitsInv, VisitsSound, NoOverlap
<1>4. WithinLimit' /\ NobodyExpected'
  <2>1. now' = now \/ now' = now + 1
    BY DEF Tick, CloseHost, RestoreHost, SignIn, SignOut, TurnForm
  <2>2. \A h \in Hosts : ~cardOpen'[h] => ~cardOpen[h] \/ NoVisitsToCome(h)
    BY DEF VisitsInv, VisitsTypeOK, Tick, CloseHost, RestoreHost, SignIn, SignOut, TurnForm
  <2> QED BY <1>1, <2>1, <2>2, DayGoes
<1>5. CallsFine'
  <2> SUFFICES ASSUME NEW w \in Callers, Clocked(w)'
               PROVE  caller[w].read <= now' /\ now' <= caller[w].read + 1
    BY <1>1 DEF CallsFine
  <2>1. Clocked(w) /\ now \in Nat
    BY <1>1 DEF Clocked, VisitsInv, VisitsTypeOK, Moments
  <2>2. CASE now' = now
    BY <2>1, <2>2 DEF VisitsInv, CallsFine
  <2>3. CASE now' # now
    <3>1. now' = now + 1 /\ caller[w].read = now
      BY <2>1, <2>3 DEF Tick, CloseHost, RestoreHost, SignIn, SignOut, TurnForm
    <3> QED BY <2>1, <3>1
  <2> QED BY <2>2, <2>3
<1> QED BY <1>2, <1>3, <1>4, <1>5 DEF VisitsInv, VisitsSound

LEMMA CallsKeep ==
    ASSUME VisitsInv, Calls
    PROVE  VisitsInv'
<1>1. PICK w \in Callers :
        \/ \E o \in Owners, h \in Hosts, f \in Forms \cup {NoForm}, i \in Intervals :
               PlanBook(w, o, h, f, i)
        \/ \E v \in Visits, f \in Forms \cup {NoForm}, i \in Intervals : PlanMove(w, v, f, i)
        \/ \E v \in Visits, desk \in BOOLEAN : PlanCancelVisit(w, v, desk)
        \/ \E i \in Intervals : PlanShut(w, i)
        \/ \E v \in Closures : PlanUnshut(w, v)
        \/ CommitBook(w) \/ CommitMove(w) \/ CommitCancelVisit(w)
        \/ CommitShut(w) \/ CommitUnshut(w) \/ GiveUp(w)
  BY DEF Calls
<1>2. now \in Moments /\ visit \in [Claimants -> VisitType]
  BY DEF VisitsInv, VisitsTypeOK
<1>3. \A v \in Claimants : visit[v].ver \in Nat
  BY <1>2 DEF VisitType
<1>4. ASSUME NEW o \in Owners, NEW h \in Hosts, NEW f \in Forms \cup {NoForm},
             NEW i \in Intervals, PlanBook(w, o, h, f, i)
      PROVE  VisitsInv'
  <2> DEFINE p == [op |-> "book", owner |-> o, host |-> h, form |-> f, at |-> i, read |-> now]
  <2>1. p \in CallerPlan /\ p.read = now
    BY <1>2 DEF CallerPlan
  <2>2. StartsCall(w, p)
    BY <1>4 DEF PlanBook
  <2> QED BY <2>1, <2>2, Starting
<1>5. ASSUME NEW v \in Visits, NEW f \in Forms \cup {NoForm}, NEW i \in Intervals,
             PlanMove(w, v, f, i)
      PROVE  VisitsInv'
  <2> DEFINE p == [op |-> "move", visit |-> v, ver |-> visit[v].ver, form |-> f, at |-> i,
                   read |-> now]
  <2>1. p \in CallerPlan /\ p.read = now
    BY <1>2, <1>3 DEF CallerPlan, Claimants
  <2>2. StartsCall(w, p)
    BY <1>5 DEF PlanMove
  <2> QED BY <2>1, <2>2, Starting
<1>6. ASSUME NEW v \in Visits, NEW desk \in BOOLEAN, PlanCancelVisit(w, v, desk)
      PROVE  VisitsInv'
  <2> DEFINE p == [op |-> "cancel", visit |-> v, ver |-> visit[v].ver, desk |-> desk]
  <2>1. p \in CallerPlan /\ p.op = "cancel"
    BY <1>3 DEF CallerPlan, Claimants
  <2>2. StartsCall(w, p)
    BY <1>6 DEF PlanCancelVisit
  <2> QED BY <2>1, <2>2, Starting
<1>7. ASSUME NEW i \in Intervals, PlanShut(w, i) PROVE VisitsInv'
  <2> DEFINE p == [op |-> "shut", at |-> i]
  <2>1. p \in CallerPlan /\ p.op = "shut"
    BY DEF CallerPlan
  <2>2. StartsCall(w, p)
    BY <1>7 DEF PlanShut
  <2> QED BY <2>1, <2>2, Starting
<1>8. ASSUME NEW v \in Closures, PlanUnshut(w, v) PROVE VisitsInv'
  <2> DEFINE p == [op |-> "unshut", visit |-> v, ver |-> visit[v].ver]
  <2>1. p \in CallerPlan /\ p.op = "unshut"
    BY <1>3 DEF CallerPlan, Claimants
  <2>2. StartsCall(w, p)
    BY <1>8 DEF PlanUnshut
  <2> QED BY <2>1, <2>2, Starting
<1>9. CASE CommitBook(w) \/ CommitMove(w) \/ CommitCancelVisit(w)
           \/ CommitShut(w) \/ CommitUnshut(w) \/ GiveUp(w)
  BY <1>9, BookKeeps, MoveKeeps, WithdrawKeeps, ShutKeeps, GiveUpKeeps
<1> QED BY <1>1, <1>4, <1>5, <1>6, <1>7, <1>8, <1>9

LEMMA VisitsStepKeeps == VisitsInv /\ [VisitsNext]_visitVars => VisitsInv'
<1> SUFFICES ASSUME VisitsInv, [VisitsNext]_visitVars PROVE VisitsInv'
  OBVIOUS
<1>1. CASE Calls
  BY <1>1, CallsKeep
<1>2. CASE \/ Tick
           \/ \E h \in Hosts : CloseHost(h) \/ RestoreHost(h)
           \/ \E o \in Owners : SignIn(o) \/ SignOut(o)
           \/ \E f \in Forms : TurnForm(f)
  BY <1>2, OthersKeep
<1>3. CASE UNCHANGED visitVars
  <2>1. VisitsTypeOK' /\ NoOverlap' /\ CallsFine'
    BY <1>3 DEF visitVars, VisitsInv, VisitsTypeOK, VisitsSound, NoOverlap, CallsFine, Clocked
  <2>2. WithinLimit' /\ NobodyExpected'
    BY <1>3, DayGoes DEF visitVars
  <2> QED BY <2>1, <2>2 DEF VisitsInv, VisitsSound
<1> QED BY <1>1, <1>2, <1>3 DEF VisitsNext

(* Rows, claims and plans of handlers keep their shape                     *)
(* (visit-schedule-store.ts, visit-guest-store.ts).                        *)
THEOREM VisitsTyped == VisitsSpec => []VisitsTypeOK
<1>1. VisitsInv => VisitsTypeOK
  BY DEF VisitsInv
<1> QED BY <1>1, VisitsStart, VisitsStepKeeps, PTL DEF VisitsSpec

(* Bookings and closures hold exactly their own segments, nobody has more  *)
(* visits to come than the limit though the batch counts with the clock of *)
(* its reading, and no closed card is expected (createVisitBooking,        *)
(* updateOwnVisitBooking, closeTeacher).                                   *)
THEOREM VisitsSafe == VisitsSpec => []VisitsSound
<1>1. VisitsInv => VisitsSound
  BY DEF VisitsInv
<1> QED BY <1>1, VisitsStart, VisitsStepKeeps, PTL DEF VisitsSpec

(* Two active bookings or closures never share a segment: what the primary *)
(* key of visit_slot_claims is for.                                        *)
Apart == \A u, v \in Claimants :
            u # v /\ visit[u].status = "active" /\ visit[v].status = "active"
            => Covered(visit[u].at) \cap Covered(visit[v].at) = {}
THEOREM VisitsApart == VisitsSpec => []Apart
<1>1. VisitsSound => Apart
  <2> SUFFICES ASSUME VisitsSound, NEW u \in Claimants, NEW v \in Claimants, u # v,
                      visit[u].status = "active", visit[v].status = "active"
               PROVE  Covered(visit[u].at) \cap Covered(visit[v].at) = {}
    BY DEF Apart
  <2>1. /\ Covered(visit[u].at) = {s \in Segments : claim[s] = u}
        /\ Covered(visit[v].at) = {s \in Segments : claim[s] = v}
    BY DEF VisitsSound, NoOverlap
  <2> QED BY <2>1
<1> QED BY <1>1, VisitsSafe, PTL

-----------------------------------------------------------------------------
(* The school year: the inductive invariant                                *)

OneYear == \A y, z \in Years : year[y].status = "active" /\ year[z].status = "active" => y = z
OpenFine ==
    \A c \in Classes : Open(c) =>
        /\ year[c[1]].status = "active"
        /\ classYear[c].cohort \in Cohorts /\ cohort[classYear[c].cohort] = "active"
CohortsFine ==
    \A c, d \in Classes :
        /\ c # d /\ classYear[c].status # "none" /\ classYear[d].status # "none"
        /\ classYear[c].cohort = classYear[d].cohort
        => c[1] # d[1] /\ ~(Open(c) /\ Open(d))
DebtsFine == \A c \in owing : Open(c)
OnePending ==
    \A a, b \in Asks : (/\ ask[a].status = "submitted" /\ ask[b].status = "submitted"
                        /\ ask[a].teacher = ask[b].teacher /\ ask[a].teacher \in Teachers)
                       => a = b
ClassesKnown == \A c \in Classes : classYear[c].status # "none" => classYear[c].cohort \in Cohorts
ClerksFine == \A w \in Clerks : clerk[w] # Resting /\ clerk[w].op = "close"
                                => clerk[w].fate # "promote"

ClassesFine == OneYear /\ OpenFine /\ CohortsFine /\ DebtsFine /\ ClassesKnown
SchoolInv == SchoolTypeOK /\ ClassesFine /\ OnePending /\ ClerksFine

PastClasses ==
    /\ \A y \in Years : year[y].status = "closed" =>
        /\ year'[y] = year[y]
        /\ \A c \in InYear(y) : classYear'[c] = classYear[c]
    /\ \A k \in Cohorts : cohort[k] = "graduated" => cohort'[k] = "graduated"
    /\ \A c \in Classes : classYear[c].status # "none" =>
        classYear'[c].status # "none" /\ classYear'[c].cohort = classYear[c].cohort
PastAsks ==
    /\ \A a \in Asks : ask[a].status \notin {"none", "submitted"} => ask'[a] = ask[a]
    /\ \A a \in Asks : ask[a].status = "submitted" /\ ask'[a].status = "approved" =>
        Holds(classYear', ask[a].teacher) = {ask[a].wanted}

LEMMA OnePendingCounts == OnePending => \A t \in Teachers : Cardinality(Submitted(t)) <= 1
<1> SUFFICES ASSUME OnePending, NEW t \in Teachers PROVE Cardinality(Submitted(t)) <= 1
  OBVIOUS
<1>1. CASE Submitted(t) = {}
  <2>1. Cardinality(Submitted(t)) = 0
    BY <1>1, FS_EmptySet
  <2> QED BY <2>1
<1>2. CASE Submitted(t) # {}
  <2>1. PICK a : Submitted(t) = {a}
    BY <1>2 DEF OnePending, Submitted
  <2>2. Cardinality({a}) = 1
    BY FS_Singleton
  <2> QED BY <2>1, <2>2
<1> QED BY <1>1, <1>2

LEMMA SchoolOrdered == SchoolInv => SchoolInOrder
BY OnePendingCounts
   DEF SchoolInv, ClassesFine, OneYear, OpenFine, CohortsFine, DebtsFine, SchoolInOrder

LEMMA SchoolPast == PastClasses /\ PastAsks => PastStep
BY DEF PastClasses, PastAsks, PastStep

(* Rows *)
LEMMA ClassRow ==
    ASSUME SchoolInv, NEW c \in Classes
    PROVE  /\ classYear[c] \in ClassType /\ classYear[c].ver \in Nat
           /\ classYear[c].curator \in Curators /\ classYear[c].cohort \in Cohorts \cup {0}
           /\ classYear[c].status \in {"none", "active", "closed"}
           /\ c[1] \in Years
BY DEF SchoolInv, SchoolTypeOK, ClassType, Classes

LEMMA ClassShape ==
    ASSUME NEW s \in {"none", "active", "closed"}, NEW k \in Cohorts \cup {0},
           NEW t \in Curators, NEW v \in Nat
    PROVE  /\ Class(s, k, t, v) \in ClassType
           /\ Class(s, k, t, v).status = s /\ Class(s, k, t, v).cohort = k
           /\ Class(s, k, t, v).curator = t /\ Class(s, k, t, v).ver = v
BY DEF Class, ClassType

(* What handlers carry *)
LEMMA ClerkFields ==
    ASSUME NEW p \in ClerkPlan
    PROVE  /\ p.op = "year" => p.year \in Years /\ p.status \in {"draft", "active"}
           /\ p.op = "create" => p.class \in Classes /\ p.cohort \in Cohorts
                                 /\ p.curator \in Curators /\ p.fresh \in BOOLEAN /\ p.ver \in Nat
                                 /\ p.attempt \in 1..3
           /\ p.op = "update" => p.class \in Classes /\ p.curator \in Curators
           /\ p.op = "close" => p.class \in Classes /\ p.fate \in Fates
           /\ p.op = "reopen" => p.class \in Classes
           /\ p.op = "rollover" => /\ p.from \in Years /\ p.to \in Years
                                   /\ p.fromVer \in Nat /\ p.toVer \in Nat
                                   /\ p.fate \in [Classes -> Fates]
                                   /\ p.curator \in [Classes -> Curators]
           /\ p.op = "ask" => p.ask \in Asks /\ p.teacher \in Teachers /\ p.wanted \in Classes
                              /\ p.current \in Classes \cup {NoClass} /\ p.ver \in Nat
           /\ p.op \in {"cancel", "approve", "reject"} => p.ask \in Asks
BY DEF ClerkPlan

ClerksKept == clerk' = clerk \/ \E w \in Clerks : clerk' = [clerk EXCEPT ![w] = Resting]
LEMMA ClerksStay ==
    ASSUME SchoolInv, ClerksKept
    PROVE  ClerksFine' /\ clerk' \in [Clerks -> ClerkPlan \cup {Resting}]
<1>1. clerk \in [Clerks -> ClerkPlan \cup {Resting}]
  BY DEF SchoolInv, SchoolTypeOK
<1>2. \A w \in Clerks : clerk'[w] = clerk[w] \/ clerk'[w] = Resting
  BY <1>1 DEF ClerksKept
<1>3. clerk' \in [Clerks -> ClerkPlan \cup {Resting}]
  BY <1>1 DEF ClerksKept
<1> QED BY <1>2, <1>3 DEF SchoolInv, ClerksFine

(* Steps that only change what a handler is about to write *)
Rows == <<year, cohort, classYear, card, ask, owing>>

LEMMA YearRowsKept ==
    ASSUME SchoolInv, UNCHANGED Rows, ClerksFine', clerk' \in [Clerks -> ClerkPlan \cup {Resting}]
    PROVE  SchoolInv' /\ PastClasses /\ PastAsks
<1> USE DEF Rows
<1>1. SchoolTypeOK'
  BY DEF SchoolInv, SchoolTypeOK
<1>2. ClassesFine'
  BY DEF SchoolInv, ClassesFine, OneYear, OpenFine, CohortsFine, DebtsFine, ClassesKnown, Open
<1>3. OnePending'
  BY DEF SchoolInv, OnePending
<1>4. PastClasses
  BY DEF PastClasses, InYear
<1>5. PastAsks
  BY DEF PastAsks
<1> QED BY <1>1, <1>2, <1>3, <1>4, <1>5 DEF SchoolInv

LEMMA PlanMade ==
    ASSUME SchoolInv, NEW w \in Clerks, NEW p \in ClerkPlan, clerk' = [clerk EXCEPT ![w] = p],
           UNCHANGED Rows, p.op = "close" => p.fate # "promote"
    PROVE  SchoolInv' /\ PastClasses /\ PastAsks
<1>1. clerk \in [Clerks -> ClerkPlan \cup {Resting}]
  BY DEF SchoolInv, SchoolTypeOK
<1>2. clerk' \in [Clerks -> ClerkPlan \cup {Resting}]
  BY <1>1
<1>3. \A v \in Clerks : clerk'[v] = IF v = w THEN p ELSE clerk[v]
  BY <1>1
<1>4. ClerksFine'
  BY <1>3 DEF SchoolInv, ClerksFine
<1> QED BY <1>2, <1>4, YearRowsKept

LEMMA DropKeeps ==
    ASSUME SchoolInv, NEW w \in Clerks, Drop(w)
    PROVE  SchoolInv' /\ PastClasses /\ PastAsks
<1>1. ClerksKept /\ UNCHANGED Rows
  BY DEF Drop, ClerksKept, Rows
<1> QED BY <1>1, ClerksStay, YearRowsKept

LEMMA NumberRange ==
    ASSUME SchoolInv, NEW y \in Years
    PROVE  NextNumber(y) \in Nat \ {0} /\ \A c \in InYear(y) : c[2] < NextNumber(y)
<1> DEFINE S == {0} \cup {c[2] : c \in InYear(y)}
<1>1. MaxClasses \in Nat
  BY SchoolBounds
<1>2. \A c \in InYear(y) : c[2] \in 1..MaxClasses
  BY DEF InYear, Classes
<1>3. S \in SUBSET (0..MaxClasses) /\ S # {} /\ \A c \in InYear(y) : c[2] \in S
  BY <1>1, <1>2
<1>4. NextNumber(y) = 1 + Max(S)
  BY DEF NextNumber
<1> HIDE DEF S
<1>5. Max(S) \in S /\ \A n \in S : Max(S) >= n
  BY <1>1, <1>3, LargestOf
<1>6. Max(S) \in 0..MaxClasses
  BY <1>3, <1>5
<1>7. \A c \in InYear(y) : Max(S) >= c[2]
  BY <1>3, <1>5
<1> QED BY <1>1, <1>2, <1>4, <1>6, <1>7

LEMMA CohortRange == SchoolInv => NextCohort \in Nat \ {0}
<1> SUFFICES ASSUME SchoolInv PROVE NextCohort \in Nat \ {0}
  OBVIOUS
<1> DEFINE S == {0} \cup {k \in Cohorts : cohort[k] # "none"}
<1>1. MaxCohorts \in Nat
  BY SchoolBounds
<1>3. S \in SUBSET (0..MaxCohorts) /\ S # {}
  BY <1>1 DEF Cohorts
<1>4. NextCohort = 1 + Max(S)
  BY DEF NextCohort
<1> HIDE DEF S
<1>5. Max(S) \in S
  BY <1>1, <1>3, LargestOf
<1>6. Max(S) \in 0..MaxCohorts
  BY <1>3, <1>5
<1> QED BY <1>1, <1>4, <1>6

LEMMA CreationShape ==
    ASSUME SchoolInv, NEW y \in Years, NEW k \in Cohorts \cup {0}, NEW t \in Curators,
           NEW n \in 1..3, NEW v \in Nat,
           NextNumber(y) <= MaxClasses, k = 0 => NextCohort <= MaxCohorts
    PROVE  /\ [Creation(y, k, t, n) EXCEPT !.ver = v] \in ClerkPlan
           /\ [Creation(y, k, t, n) EXCEPT !.ver = v].op # "close"
<1> DEFINE c == <<y, NextNumber(y)>>  j == IF k = 0 THEN NextCohort ELSE k
<1>1. NextNumber(y) \in 1..MaxClasses
  BY NumberRange, SchoolBounds
<1>2. c \in Classes
  BY <1>1 DEF Classes
<1>3. j \in Cohorts
  BY CohortRange, SchoolBounds DEF Cohorts
<1>4. [Creation(y, k, t, n) EXCEPT !.ver = v]
        = [op |-> "create", class |-> c, cohort |-> j, fresh |-> (k = 0),
           ver |-> v, curator |-> t, attempt |-> n]
  BY DEF Creation
<1> HIDE DEF c, j
<1>5. [op |-> "create", class |-> c, cohort |-> j, fresh |-> (k = 0),
           ver |-> v, curator |-> t, attempt |-> n]
      \in [op : {"create"}, class : Classes, cohort : Cohorts, fresh : BOOLEAN,
          ver : Nat, curator : Curators, attempt : 1..3]
  BY <1>2, <1>3
<1>6. [Creation(y, k, t, n) EXCEPT !.ver = v] \in ClerkPlan
  BY <1>4, <1>5 DEF ClerkPlan
<1> QED BY <1>4, <1>6

LEMMA YearRow ==
    ASSUME SchoolInv, NEW y \in Years
    PROVE  year[y] \in YearType /\ year[y].ver \in Nat
           /\ year[y].status \in {"none", "draft", "active", "closed"}
BY DEF SchoolInv, SchoolTypeOK, YearType

LEMMA PlanYearKeeps ==
    ASSUME SchoolInv, NEW w \in Clerks, NEW y \in Years, PlanYear(w, y)
    PROVE  SchoolInv' /\ PastClasses /\ PastAsks
<1> DEFINE p == [op |-> "year", year |-> y, status |-> IF NoYears THEN "active" ELSE "draft"]
<1>1. p \in [op : {"year"}, year : Years, status : {"draft", "active"}]
  OBVIOUS
<1>2. p \in ClerkPlan /\ p.op # "close"
  BY <1>1 DEF ClerkPlan
<1>3. clerk' = [clerk EXCEPT ![w] = p] /\ UNCHANGED Rows
  BY DEF PlanYear, Plans, Rows
<1> HIDE DEF p
<1> QED BY <1>2, <1>3, PlanMade

LEMMA PlanCreateKeeps ==
    ASSUME SchoolInv, NEW w \in Clerks, NEW y \in Years, NEW k \in Cohorts \cup {0},
           NEW t \in Curators, PlanCreate(w, y, k, t)
    PROVE  SchoolInv' /\ PastClasses /\ PastAsks
<1> DEFINE p == Creation(y, k, t, 1)
<1>1. year[y].ver \in Nat
  BY YearRow
<1>2. [p EXCEPT !.ver = year[y].ver] = p
  BY DEF Creation
<1>3. NextNumber(y) <= MaxClasses /\ (k = 0 => NextCohort <= MaxCohorts)
      /\ clerk' = [clerk EXCEPT ![w] = p] /\ UNCHANGED Rows
  BY DEF PlanCreate, Plans, Rows
<1>4. p \in ClerkPlan /\ p.op # "close"
  <2>1. 1 \in 1..3
    OBVIOUS
  <2>2. [p EXCEPT !.ver = year[y].ver] \in ClerkPlan /\ [p EXCEPT !.ver = year[y].ver].op # "close"
    BY <1>1, <1>3, <2>1, CreationShape
  <2> HIDE DEF p
  <2> QED BY <1>2, <2>2
<1> HIDE DEF p
<1> QED BY <1>3, <1>4, PlanMade

LEMMA RetryKeeps ==
    ASSUME SchoolInv, NEW w \in Clerks, RetryCreate(w)
    PROVE  SchoolInv' /\ PastClasses /\ PastAsks
<1> DEFINE q == clerk[w]
<1>1. q \in ClerkPlan /\ q.op = "create"
  BY DEF RetryCreate, SchoolInv, SchoolTypeOK
<1>2. q.class \in Classes /\ q.cohort \in Cohorts /\ q.curator \in Curators
      /\ q.fresh \in BOOLEAN /\ q.ver \in Nat /\ q.attempt \in 1..3
  BY <1>1, ClerkFields
<1>3. PICK y \in Years : y = q.class[1]
  BY <1>2 DEF Classes
<1>4. PICK k \in Cohorts \cup {0} : k = IF q.fresh THEN 0 ELSE q.cohort
  BY <1>2
<1>5. PICK n \in 1..3 : n = q.attempt + 1
  BY <1>2 DEF RetryCreate
<1>6. PICK t \in Curators : t = q.curator
  BY <1>2
<1>7. PICK v \in Nat : v = q.ver
  BY <1>2
<1>8. k = 0 => q.fresh
  BY <1>2, <1>4, SchoolBounds DEF Cohorts
<1>9. NextNumber(y) <= MaxClasses /\ (k = 0 => NextCohort <= MaxCohorts)
  BY <1>3, <1>8 DEF RetryCreate
<1> DEFINE p == [Creation(y, k, t, n) EXCEPT !.ver = v]
<1>10. p \in ClerkPlan /\ p.op # "close"
  BY <1>9, CreationShape
<1>11. clerk' = [clerk EXCEPT ![w] = p] /\ UNCHANGED Rows
  BY <1>3, <1>4, <1>5, <1>6, <1>7 DEF RetryCreate, Rows
<1> HIDE DEF p, q
<1> QED BY <1>10, <1>11, PlanMade

LEMMA PlanUpdateKeeps ==
    ASSUME SchoolInv, NEW w \in Clerks, NEW c \in Classes, NEW t \in Curators, PlanUpdate(w, c, t)
    PROVE  SchoolInv' /\ PastClasses /\ PastAsks
<1> DEFINE p == [op |-> "update", class |-> c, ver |-> classYear[c].ver, curator |-> t]
<1>1. p \in [op : {"update"}, class : Classes, ver : Nat, curator : Curators]
  BY ClassRow
<1>2. p \in ClerkPlan /\ p.op # "close"
  BY <1>1 DEF ClerkPlan
<1>3. clerk' = [clerk EXCEPT ![w] = p] /\ UNCHANGED Rows
  BY DEF PlanUpdate, Plans, Rows
<1> HIDE DEF p
<1> QED BY <1>2, <1>3, PlanMade

LEMMA PlanCloseKeeps ==
    ASSUME SchoolInv, NEW w \in Clerks, NEW c \in Classes, NEW fate \in Fates \ {"promote"},
           PlanClose(w, c, fate)
    PROVE  SchoolInv' /\ PastClasses /\ PastAsks
<1> DEFINE p == [op |-> "close", class |-> c, ver |-> classYear[c].ver, fate |-> fate]
<1>1. p \in [op : {"close"}, class : Classes, ver : Nat, fate : Fates]
  BY ClassRow
<1>2. p \in ClerkPlan /\ p.fate # "promote"
  BY <1>1 DEF ClerkPlan
<1>3. clerk' = [clerk EXCEPT ![w] = p] /\ UNCHANGED Rows
  BY DEF PlanClose, Plans, Rows
<1> HIDE DEF p
<1> QED BY <1>2, <1>3, PlanMade

LEMMA PlanReopenKeeps ==
    ASSUME SchoolInv, NEW w \in Clerks, NEW c \in Classes, PlanReopen(w, c)
    PROVE  SchoolInv' /\ PastClasses /\ PastAsks
<1> DEFINE k == classYear[c].cohort
           p == [op |-> "reopen", class |-> c, ver |-> classYear[c].ver,
                 revive |-> (cohort[k] = "closed")]
<1>1. p \in [op : {"reopen"}, class : Classes, ver : Nat, revive : BOOLEAN]
  BY ClassRow
<1>2. p \in ClerkPlan /\ p.op # "close"
  BY <1>1 DEF ClerkPlan
<1>3. clerk' = [clerk EXCEPT ![w] = p] /\ UNCHANGED Rows
  BY DEF PlanReopen, Plans, Rows
<1> HIDE DEF p
<1> QED BY <1>2, <1>3, PlanMade

LEMMA PlanRolloverKeeps ==
    ASSUME SchoolInv, NEW w \in Clerks, NEW y \in Years, PlanRollover(w, y)
    PROVE  SchoolInv' /\ PastClasses /\ PastAsks
<1> DEFINE z == y + 1
           S == {c \in InYear(y) : Open(c)}
           Vers == [c \in Classes |-> classYear[c].ver]
<1>1. PICK fate \in [S -> Fates \ {"keep"}], t \in [S -> Curators] :
        clerk' = [clerk EXCEPT ![w] =
                    [op |-> "rollover", from |-> y, to |-> z,
                     fromVer |-> year[y].ver, toVer |-> year[z].ver, ver |-> Vers,
                     fate |-> [c \in Classes |-> IF c \in S THEN fate[c] ELSE "keep"],
                     curator |-> [c \in Classes |-> IF c \in S THEN t[c] ELSE Nobody]]]
  BY DEF PlanRollover, Plans
<1>2. z \in Years /\ UNCHANGED Rows
  BY DEF PlanRollover, Plans, Rows
<1>3. year[y].ver \in Nat /\ year[z].ver \in Nat
  BY <1>2, YearRow
<1>4. Vers \in [Classes -> Nat]
  BY ClassRow
<1> HIDE DEF S, Vers, z
<1> DEFINE F == [c \in Classes |-> IF c \in S THEN fate[c] ELSE "keep"]
           T == [c \in Classes |-> IF c \in S THEN t[c] ELSE Nobody]
           p == [op |-> "rollover", from |-> y, to |-> z,
                 fromVer |-> year[y].ver, toVer |-> year[z].ver, ver |-> Vers,
                 fate |-> F, curator |-> T]
<1>5. F \in [Classes -> Fates] /\ T \in [Classes -> Curators]
  BY DEF Fates, Curators
<1>6. clerk' = [clerk EXCEPT ![w] = p]
  BY <1>1
<1> HIDE DEF F, T
<1>7. p \in [op : {"rollover"}, from : Years, to : Years, fromVer : Nat, toVer : Nat,
          ver : [Classes -> Nat], fate : [Classes -> Fates], curator : [Classes -> Curators]]
  BY <1>2, <1>3, <1>4, <1>5
<1>8. p \in ClerkPlan /\ p.op # "close"
  BY <1>7 DEF ClerkPlan
<1> HIDE DEF p
<1> QED BY <1>2, <1>6, <1>8, PlanMade

LEMMA AskRow ==
    ASSUME SchoolInv, NEW a \in Asks
    PROVE  /\ ask[a] \in AskType /\ ask[a].ver \in Nat /\ ask[a].teacher \in Curators
           /\ ask[a].wanted \in Classes \cup {NoClass} /\ ask[a].current \in Classes \cup {NoClass}
BY DEF SchoolInv, SchoolTypeOK, AskType

LEMMA PlanAskKeeps ==
    ASSUME SchoolInv, NEW w \in Clerks, NEW a \in Asks, NEW t \in Teachers, NEW c \in Classes,
           PlanAsk(w, a, t, c)
    PROVE  SchoolInv' /\ PastClasses /\ PastAsks
<1>1. PICK cur \in Classes \cup {NoClass} :
        Plans(w, [op |-> "ask", ask |-> a, teacher |-> t, current |-> cur,
                  wanted |-> c, ver |-> ask[a].ver])
  BY DEF PlanAsk
<1> DEFINE p == [op |-> "ask", ask |-> a, teacher |-> t, current |-> cur,
                 wanted |-> c, ver |-> ask[a].ver]
<1>2. p \in [op : {"ask"}, ask : Asks, teacher : Teachers, current : Classes \cup {NoClass},
             wanted : Classes, ver : Nat]
  BY AskRow
<1>3. p \in ClerkPlan /\ p.op # "close"
  BY <1>2 DEF ClerkPlan
<1>4. clerk' = [clerk EXCEPT ![w] = p] /\ UNCHANGED Rows
  BY <1>1 DEF Plans, Rows
<1> HIDE DEF p
<1> QED BY <1>3, <1>4, PlanMade

LEMMA PlanAnswerKeeps ==
    ASSUME SchoolInv, NEW w \in Clerks, NEW a \in Asks, NEW op \in {"cancel", "approve", "reject"},
           Plans(w, [op |-> op, ask |-> a, ver |-> ask[a].ver])
    PROVE  SchoolInv' /\ PastClasses /\ PastAsks
<1> DEFINE p == [op |-> op, ask |-> a, ver |-> ask[a].ver]
<1>1. p \in [op : {"cancel", "approve", "reject"}, ask : Asks, ver : Nat]
  BY AskRow
<1>2. p \in ClerkPlan /\ p.op # "close"
  BY <1>1 DEF ClerkPlan
<1>3. clerk' = [clerk EXCEPT ![w] = p] /\ UNCHANGED Rows
  BY DEF Plans, Rows
<1> HIDE DEF p
<1> QED BY <1>2, <1>3, PlanMade

(* Steps that write rows *)
LEMMA AsksSame ==
    ASSUME SchoolInv, UNCHANGED ask
    PROVE  OnePending' /\ PastAsks
BY DEF SchoolInv, OnePending, PastAsks

LEMMA ClassesSame ==
    ASSUME SchoolInv, UNCHANGED <<year, cohort, classYear>>
    PROVE  /\ OneYear' /\ OpenFine' /\ CohortsFine' /\ ClassesKnown' /\ PastClasses
           /\ \A c \in Classes : Open(c)' <=> Open(c)
BY DEF SchoolInv, ClassesFine, OneYear, OpenFine, CohortsFine, ClassesKnown, PastClasses, Open, InYear

LEMMA Committed ==
    ASSUME SchoolInv, NEW w \in Clerks, NEW op, Commits(w, op)
    PROVE  /\ UNCHANGED <<card, owing>> /\ clerk[w] \in ClerkPlan /\ clerk[w].op = op
           /\ ClerksFine' /\ clerk' \in [Clerks -> ClerkPlan \cup {Resting}]
<1>1. clerk[w] \in ClerkPlan
  BY DEF SchoolInv, SchoolTypeOK, Commits
<1>2. ClerksKept
  BY DEF Commits, ClerksKept
<1> QED BY <1>1, <1>2, ClerksStay DEF Commits

LEMMA CommitYearKeeps ==
    ASSUME SchoolInv, NEW w \in Clerks, CommitYear(w)
    PROVE  SchoolInv' /\ PastClasses /\ PastAsks
<1> DEFINE p == clerk[w]
<1>1. /\ UNCHANGED <<card, owing, cohort, classYear, ask>> /\ p \in ClerkPlan /\ p.op = "year"
      /\ ClerksFine' /\ clerk' \in [Clerks -> ClerkPlan \cup {Resting}]
  BY Committed DEF CommitYear
<1>2. PICK y \in Years, s \in {"draft", "active"} : y = p.year /\ s = p.status
  BY <1>1, ClerkFields
<1>3. year[y].status = "none" /\ StillFirst(s)
      /\ year' = [year EXCEPT ![y] = [status |-> s, ver |-> 1]]
  BY <1>2 DEF CommitYear
<1> HIDE DEF p
<1>4. year \in [Years -> YearType]
  BY DEF SchoolInv, SchoolTypeOK
<1>5. [status |-> s, ver |-> 1] \in YearType
  BY DEF YearType
<1>6. year' \in [Years -> YearType]
  BY <1>3, <1>4, <1>5
<1>7. \A z \in Years : year'[z] = IF z = y THEN [status |-> s, ver |-> 1] ELSE year[z]
  BY <1>3, <1>4
<1>8. SchoolTypeOK'
  BY <1>1, <1>6 DEF SchoolInv, SchoolTypeOK
<1>9. OneYear'
  BY <1>3, <1>7 DEF OneYear, SchoolInv, ClassesFine, StillFirst, NoYears
<1>10. OpenFine'
  <2>1. \A c \in Classes : Open(c)' => Open(c) /\ c[1] # y
    BY <1>1, <1>3 DEF SchoolInv, ClassesFine, OpenFine, Open
  <2>2. \A c \in Classes : c[1] \in Years
    BY DEF Classes
  <2> QED BY <1>1, <1>7, <2>1, <2>2 DEF SchoolInv, ClassesFine, OpenFine
<1>11. CohortsFine' /\ DebtsFine' /\ ClassesKnown'
  BY <1>1 DEF SchoolInv, ClassesFine, CohortsFine, DebtsFine, ClassesKnown, Open
<1>12. PastClasses
  BY <1>1, <1>3, <1>7 DEF PastClasses
<1>13. OnePending' /\ PastAsks
  BY <1>1, AsksSame
<1> QED BY <1>1, <1>8, <1>9, <1>10, <1>11, <1>12, <1>13 DEF SchoolInv, ClassesFine

(* A class opened (created or reopened) in the running year, in a cohort   *)
(* that had no open class and no other class of that year                  *)
LEMMA ClassOpened ==
    ASSUME SchoolInv, NEW c \in Classes, NEW k \in Cohorts, NEW row \in ClassType,
           row.status = "active", row.cohort = k,
           ~Open(c), OpenIn(k) = {}, year[c[1]].status = "active",
           \A d \in Classes \ {c} : d[1] = c[1] /\ classYear[d].status # "none"
                                    => classYear[d].cohort # k,
           classYear[c].status # "none" => classYear[c].cohort = k,
           cohort[k] # "graduated",
           classYear' = [classYear EXCEPT ![c] = row],
           cohort' = [cohort EXCEPT ![k] = "active"],
           UNCHANGED <<year, card, ask, owing>>,
           ClerksFine', clerk' \in [Clerks -> ClerkPlan \cup {Resting}]
    PROVE  SchoolInv' /\ PastClasses /\ PastAsks
<1>1. /\ classYear \in [Classes -> ClassType]
      /\ cohort \in [Cohorts -> {"none", "active", "closed", "graduated"}]
  BY DEF SchoolInv, SchoolTypeOK
<1>2. /\ \A d \in Classes : classYear'[d] = IF d = c THEN row ELSE classYear[d]
      /\ classYear' \in [Classes -> ClassType]
  BY <1>1
<1>3. /\ \A j \in Cohorts : cohort'[j] = IF j = k THEN "active" ELSE cohort[j]
      /\ cohort' \in [Cohorts -> {"none", "active", "closed", "graduated"}]
  BY <1>1
<1>4. SchoolTypeOK'
  BY <1>2, <1>3 DEF SchoolInv, SchoolTypeOK
<1>5. OneYear'
  BY DEF SchoolInv, ClassesFine, OneYear
<1>6. \A d \in Classes : Open(d)' <=> d = c \/ Open(d)
  BY <1>2 DEF Open
<1>7. OpenFine'
  BY <1>2, <1>3, <1>6 DEF SchoolInv, ClassesFine, OpenFine
<1>8. CohortsFine'
  <2> SUFFICES ASSUME NEW a \in Classes, NEW b \in Classes, a # b,
                      classYear'[a].status # "none", classYear'[b].status # "none",
                      classYear'[a].cohort = classYear'[b].cohort
               PROVE  a[1] # b[1] /\ ~(Open(a)' /\ Open(b)')
    BY DEF CohortsFine
  <2>1. CASE a # c /\ b # c
    BY <2>1, <1>2, <1>6 DEF SchoolInv, ClassesFine, CohortsFine
  <2>2. CASE a = c
    <3>1. b # c /\ classYear[b].status # "none" /\ classYear[b].cohort = k
      BY <2>2, <1>2
    <3>2. ~Open(b)
      BY <3>1 DEF OpenIn
    <3> QED BY <2>2, <3>1, <3>2, <1>6
  <2>3. CASE b = c
    <3>1. a # c /\ classYear[a].status # "none" /\ classYear[a].cohort = k
      BY <2>3, <1>2
    <3>2. ~Open(a)
      BY <3>1 DEF OpenIn
    <3> QED BY <2>3, <3>1, <3>2, <1>6
  <2> QED BY <2>1, <2>2, <2>3
<1>9. DebtsFine'
  BY <1>6 DEF SchoolInv, SchoolTypeOK, ClassesFine, DebtsFine
<1>10. ClassesKnown'
  BY <1>2 DEF SchoolInv, ClassesFine, ClassesKnown
<1>11. PastClasses
  BY <1>2, <1>3 DEF PastClasses, InYear
<1>12. OnePending' /\ PastAsks
  BY AsksSame
<1> QED BY <1>4, <1>5, <1>7, <1>8, <1>9, <1>10, <1>11, <1>12 DEF SchoolInv, ClassesFine

LEMMA CommitCreateKeeps ==
    ASSUME SchoolInv, NEW w \in Clerks, CommitCreate(w)
    PROVE  SchoolInv' /\ PastClasses /\ PastAsks
<1> DEFINE p == clerk[w]
<1>1. /\ UNCHANGED <<card, owing, year, ask>> /\ p \in ClerkPlan /\ p.op = "create"
      /\ ClerksFine' /\ clerk' \in [Clerks -> ClerkPlan \cup {Resting}]
  BY Committed DEF CommitCreate
<1>2. PICK c \in Classes, k \in Cohorts, t \in Curators : c = p.class /\ k = p.cohort /\ t = p.curator
  BY <1>1, ClerkFields
<1>3. PICK row \in ClassType : row = Class("active", k, t, 1) /\ row.status = "active" /\ row.cohort = k
  BY ClassShape
<1>4. /\ ~IdTaken(p) /\ (p.fresh \/ cohort[k] = "active") /\ year[c[1]].status = "active"
      /\ CohortFree(k, c[1])
      /\ cohort' = [cohort EXCEPT ![k] = "active"]
      /\ classYear' = [classYear EXCEPT ![c] = row]
  BY <1>2, <1>3 DEF CommitCreate
<1>5. classYear[c].status = "none" /\ (p.fresh => cohort[k] = "none")
  BY <1>1, <1>2, <1>4, ClerkFields DEF IdTaken
<1>6. ~Open(c) /\ OpenIn(k) = {} /\ cohort[k] # "graduated"
  BY <1>4, <1>5 DEF CohortFree, Open
<1>7. \A d \in Classes \ {c} : d[1] = c[1] /\ classYear[d].status # "none" => classYear[d].cohort # k
  BY <1>4 DEF CohortFree, InYear
<1> HIDE DEF p
<1> QED BY <1>1, <1>3, <1>4, <1>5, <1>6, <1>7, ClassOpened

LEMMA CommitReopenKeeps ==
    ASSUME SchoolInv, NEW w \in Clerks, CommitReopen(w)
    PROVE  SchoolInv' /\ PastClasses /\ PastAsks
<1> DEFINE p == clerk[w]
<1>1. /\ UNCHANGED <<card, owing, year, ask>> /\ p \in ClerkPlan /\ p.op = "reopen"
      /\ ClerksFine' /\ clerk' \in [Clerks -> ClerkPlan \cup {Resting}]
  BY Committed DEF CommitReopen
<1>2. PICK c \in Classes : c = p.class
  BY <1>1, ClerkFields
<1>3. classYear[c].status = "closed" /\ year[c[1]].status = "active"
      /\ OpenIn(classYear[c].cohort) = {}
      /\ cohort[classYear[c].cohort] \in {"closed", "active"}
      /\ cohort' = [cohort EXCEPT ![classYear[c].cohort] = "active"]
      /\ classYear' = [classYear EXCEPT ![c] = Turned(@, "active")]
  BY <1>2 DEF CommitReopen
<1>4. PICK k \in Cohorts : k = classYear[c].cohort
  BY <1>3 DEF SchoolInv, ClassesFine, ClassesKnown
<1>5. classYear[c].curator \in Curators /\ classYear[c].ver + 1 \in Nat
  BY ClassRow
<1>6. PICK row \in ClassType : row = Class("active", k, classYear[c].curator, classYear[c].ver + 1)
                               /\ row.status = "active" /\ row.cohort = k
  BY <1>5, ClassShape
<1>7. classYear' = [classYear EXCEPT ![c] = row]
  BY <1>3, <1>4, <1>6 DEF Turned, SchoolInv, SchoolTypeOK
<1>8. ~Open(c)
  BY <1>3 DEF Open
<1>9. \A d \in Classes \ {c} : d[1] = c[1] /\ classYear[d].status # "none" => classYear[d].cohort # k
  BY <1>3, <1>4 DEF SchoolInv, ClassesFine, CohortsFine
<1>10. /\ year[c[1]].status = "active" /\ OpenIn(k) = {} /\ cohort[k] # "graduated"
       /\ cohort' = [cohort EXCEPT ![k] = "active"] /\ classYear[c].cohort = k
  BY <1>3, <1>4
<1>11. row.status = "active" /\ row.cohort = k
  BY <1>6
<1>12. UNCHANGED <<year, card, ask, owing>>
  BY <1>1
<1>13. ClerksFine' /\ clerk' \in [Clerks -> ClerkPlan \cup {Resting}]
  BY <1>1
<1> HIDE DEF p
<1> QED BY <1>7, <1>8, <1>9, <1>10, <1>11, <1>12, <1>13, ClassOpened, ZenonT(40)

(* A new curator for classes: nothing else of a class changes              *)
Recurated ==
    /\ classYear' \in [Classes -> ClassType]
    /\ \A c \in Classes : /\ classYear'[c].status = classYear[c].status
                          /\ classYear'[c].cohort = classYear[c].cohort
                          /\ ~Open(c) => classYear'[c] = classYear[c]

LEMMA RecuratedKeeps ==
    ASSUME SchoolInv, Recurated, UNCHANGED <<year, cohort, owing>>
    PROVE  ClassesFine' /\ PastClasses
<1>1. \A c \in Classes : Open(c)' <=> Open(c)
  BY DEF Recurated, Open
<1>2. ClassesFine'
  BY <1>1 DEF SchoolInv, SchoolTypeOK, ClassesFine, OneYear, OpenFine, CohortsFine, DebtsFine,
              ClassesKnown, Recurated
<1>3. \A y \in Years : year[y].status = "closed" => \A c \in InYear(y) : ~Open(c)
  BY DEF SchoolInv, ClassesFine, OpenFine, InYear
<1>4. PastClasses
  BY <1>3 DEF PastClasses, Recurated, InYear
<1> QED BY <1>2, <1>4

LEMMA CuratedShape ==
    ASSUME SchoolInv, NEW c \in Classes, NEW t \in Curators
    PROVE  /\ Curated(classYear[c], t) \in ClassType
           /\ Curated(classYear[c], t).status = classYear[c].status
           /\ Curated(classYear[c], t).cohort = classYear[c].cohort
           /\ Curated(classYear[c], t).curator = t
<1>1. /\ classYear[c].status \in {"none", "active", "closed"} /\ classYear[c].ver + 1 \in Nat
      /\ classYear[c].cohort \in Cohorts \cup {0}
  BY ClassRow
<1> QED BY <1>1, ClassShape DEF Curated

LEMMA CommitUpdateKeeps ==
    ASSUME SchoolInv, NEW w \in Clerks, CommitUpdate(w)
    PROVE  SchoolInv' /\ PastClasses /\ PastAsks
<1> DEFINE p == clerk[w]
<1>1. /\ UNCHANGED <<card, owing, year, cohort, ask>> /\ p \in ClerkPlan /\ p.op = "update"
      /\ ClerksFine' /\ clerk' \in [Clerks -> ClerkPlan \cup {Resting}]
  BY Committed DEF CommitUpdate
<1>2. PICK c \in Classes, t \in Curators : c = p.class /\ t = p.curator
  BY <1>1, ClerkFields
<1>3. Open(c) /\ classYear' = [classYear EXCEPT ![c] = Curated(@, t)]
  BY <1>2 DEF CommitUpdate
<1> HIDE DEF p
<1>4. classYear \in [Classes -> ClassType]
  BY DEF SchoolInv, SchoolTypeOK
<1>5. \A d \in Classes : classYear'[d] = IF d = c THEN Curated(classYear[c], t) ELSE classYear[d]
  BY <1>3, <1>4
<1>6. classYear' \in [Classes -> ClassType]
  BY <1>3, <1>4, CuratedShape
<1>7. Recurated
  BY <1>3, <1>5, <1>6, CuratedShape DEF Recurated
<1>8. SchoolTypeOK'
  BY <1>1, <1>6 DEF SchoolInv, SchoolTypeOK
<1> QED BY <1>1, <1>7, <1>8, RecuratedKeeps, AsksSame DEF SchoolInv

LEMMA CommitCloseKeeps ==
    ASSUME SchoolInv, NEW w \in Clerks, CommitClose(w)
    PROVE  SchoolInv' /\ PastClasses /\ PastAsks
<1> DEFINE p == clerk[w]
<1>1. /\ UNCHANGED <<card, owing, year, ask>> /\ p \in ClerkPlan /\ p.op = "close"
      /\ ClerksFine' /\ clerk' \in [Clerks -> ClerkPlan \cup {Resting}]
  BY Committed DEF CommitClose
<1>2. PICK c \in Classes, fate \in Fates \ {"promote"} : c = p.class /\ fate = p.fate
  <2>1. p # Resting
    BY DEF CommitClose, Commits
  <2>2. p.fate # "promote"
    BY <1>1, <2>1 DEF SchoolInv, ClerksFine
  <2> QED BY <1>1, <2>2, ClerkFields
<1>3. Open(c) /\ c \notin owing /\ classYear' = [classYear EXCEPT ![c] = Turned(@, "closed")]
  BY <1>2 DEF CommitClose, NotOwing
<1>4. PICK k \in Cohorts : k = classYear[c].cohort
  BY <1>3 DEF SchoolInv, ClassesFine, OpenFine
<1>5. \/ cohort' = cohort
      \/ /\ cohort[k] = "active" /\ OpenIn(k) = {c} /\ fate \in {"closed", "graduated"}
         /\ cohort' = [cohort EXCEPT ![k] = fate]
  BY <1>2, <1>4 DEF CommitClose, Fates
<1> HIDE DEF p
<1>6. classYear[c].curator \in Curators /\ classYear[c].ver + 1 \in Nat
  BY ClassRow
<1>7. PICK row \in ClassType : row = Class("closed", k, classYear[c].curator, classYear[c].ver + 1)
                               /\ row.status = "closed" /\ row.cohort = k
  BY <1>6, ClassShape
<1>8. /\ classYear \in [Classes -> ClassType]
      /\ cohort \in [Cohorts -> {"none", "active", "closed", "graduated"}]
  BY DEF SchoolInv, SchoolTypeOK
<1>9. classYear' = [classYear EXCEPT ![c] = row]
  BY <1>3, <1>4, <1>7, <1>8 DEF Turned
<1>10. /\ \A d \in Classes : classYear'[d] = IF d = c THEN row ELSE classYear[d]
       /\ classYear' \in [Classes -> ClassType]
  BY <1>8, <1>9
<1>11. /\ \A j \in Cohorts : cohort'[j] = cohort[j]
                             \/ (j = k /\ cohort[k] = "active" /\ OpenIn(k) = {c})
       /\ cohort' \in [Cohorts -> {"none", "active", "closed", "graduated"}]
  BY <1>5, <1>8
<1>12. SchoolTypeOK'
  BY <1>1, <1>10, <1>11 DEF SchoolInv, SchoolTypeOK
<1>13. \A d \in Classes : Open(d)' <=> d # c /\ Open(d)
  BY <1>10, <1>7 DEF Open
<1>14. OneYear' /\ DebtsFine' /\ ClassesKnown'
  BY <1>1, <1>3, <1>7, <1>10, <1>13
     DEF SchoolInv, SchoolTypeOK, ClassesFine, OneYear, DebtsFine, ClassesKnown
<1>15. OpenFine'
  <2> SUFFICES ASSUME NEW d \in Classes, Open(d)'
               PROVE  year'[d[1]].status = "active" /\ classYear'[d].cohort \in Cohorts
                      /\ cohort'[classYear'[d].cohort] = "active"
    BY DEF OpenFine
  <2>1. d # c /\ Open(d) /\ classYear'[d] = classYear[d]
    BY <1>10, <1>13
  <2>2. year[d[1]].status = "active" /\ classYear[d].cohort \in Cohorts
        /\ cohort[classYear[d].cohort] = "active"
    BY <2>1 DEF SchoolInv, ClassesFine, OpenFine
  <2>3. classYear[d].cohort = k => OpenIn(k) # {c}
    BY <2>1 DEF OpenIn
  <2> QED BY <1>1, <1>11, <2>1, <2>2, <2>3
<1>16. CohortsFine'
  BY <1>4, <1>7, <1>10, <1>13, <1>3 DEF SchoolInv, ClassesFine, CohortsFine, Open
<1>17. PastClasses
  <2>1. year[c[1]].status = "active"
    BY <1>3 DEF SchoolInv, ClassesFine, OpenFine
  <2> QED BY <1>1, <1>4, <1>7, <1>10, <1>11, <2>1 DEF PastClasses, InYear
<1>18. OnePending' /\ PastAsks
  BY <1>1, AsksSame
<1> QED BY <1>1, <1>12, <1>14, <1>15, <1>16, <1>17, <1>18 DEF SchoolInv, ClassesFine

(* The rollover *)

(* what a class is after it: a source closed, a class of the new year      *)
(* opened in the cohort of a promoted source, or as it was                 *)
Heir(p, c, d) == d \in Promoted(p) /\ Target(p, d) = c
RolledOver(p) ==
    \A c \in Classes :
        \/ c \in Sources(p) /\ classYear'[c] = Turned(classYear[c], "closed")
        \/ /\ c \notin Sources(p)
           /\ \E d \in Promoted(p) : Heir(p, c, d) /\ classYear'[c] = Class("active", classYear[d].cohort, p.curator[d], 1)
        \/ /\ c \notin Sources(p)
           /\ \A d \in Promoted(p) : ~Heir(p, c, d)
           /\ classYear'[c] = classYear[c]
CohortsTurned(p) ==
    \A k \in Cohorts :
        \/ \E c \in Sources(p) \ Promoted(p) : classYear[c].cohort = k /\ cohort'[k] = p.fate[c]
        \/ /\ \A c \in Sources(p) \ Promoted(p) : classYear[c].cohort # k
           /\ cohort'[k] = cohort[k]

LEMMA RolloverShape ==
    ASSUME NEW w \in Clerks, CommitRollover(w)
    PROVE  RolledOver(clerk[w]) /\ CohortsTurned(clerk[w])
<1> DEFINE p == clerk[w]  S == Sources(p)  P == Promoted(p)
<1>1. classYear' = [c \in Classes |->
           IF c \in S THEN Turned(classYear[c], "closed")
           ELSE IF \E d \in P : Target(p, d) = c
           THEN LET d == CHOOSE d \in P : Target(p, d) = c
                IN  Class("active", classYear[d].cohort, p.curator[d], 1)
           ELSE classYear[c]]
  BY DEF CommitRollover
<1>2. cohort' = [k \in Cohorts |->
           IF \E c \in S \ P : classYear[c].cohort = k
           THEN p.fate[CHOOSE c \in S \ P : classYear[c].cohort = k]
           ELSE cohort[k]]
  BY DEF CommitRollover
<1>3. RolledOver(p)
  <2> SUFFICES ASSUME NEW c \in Classes
      PROVE \/ c \in S /\ classYear'[c] = Turned(classYear[c], "closed")
            \/ /\ c \notin S
               /\ \E d \in P : Heir(p, c, d) /\ classYear'[c] = Class("active", classYear[d].cohort, p.curator[d], 1)
            \/ /\ c \notin S
               /\ \A d \in P : ~Heir(p, c, d)
               /\ classYear'[c] = classYear[c]
    BY DEF RolledOver
  <2> HIDE DEF S, P, p
  <2>1. CASE c \in S
    BY <1>1, <2>1
  <2>2. CASE c \notin S /\ \E d \in P : Target(p, d) = c
    <3> DEFINE d == CHOOSE d \in P : Target(p, d) = c
    <3>1. d \in P /\ Target(p, d) = c
      BY <2>2
    <3>2. classYear'[c] = Class("active", classYear[d].cohort, p.curator[d], 1)
      BY <1>1, <2>2
    <3> HIDE DEF d
    <3>3. Heir(p, c, d)
      BY <3>1 DEF Heir, P
    <3> QED BY <2>2, <3>1, <3>2, <3>3
  <2>3. CASE c \notin S /\ ~\E d \in P : Target(p, d) = c
    BY <1>1, <2>3 DEF Heir
  <2> QED BY <2>1, <2>2, <2>3
<1>4. CohortsTurned(p)
  <2> SUFFICES ASSUME NEW k \in Cohorts
      PROVE \/ \E c \in S \ P : classYear[c].cohort = k /\ cohort'[k] = p.fate[c]
            \/ (\A c \in S \ P : classYear[c].cohort # k) /\ cohort'[k] = cohort[k]
    BY DEF CohortsTurned
  <2> HIDE DEF S, P, p
  <2>1. CASE \E c \in S \ P : classYear[c].cohort = k
    <3> DEFINE c == CHOOSE c \in S \ P : classYear[c].cohort = k
    <3>1. c \in S \ P /\ classYear[c].cohort = k
      BY <2>1
    <3>2. cohort'[k] = p.fate[c]
      BY <1>2, <2>1
    <3> HIDE DEF c
    <3> QED BY <3>1, <3>2
  <2>2. CASE ~\E c \in S \ P : classYear[c].cohort = k
    BY <1>2, <2>2
  <2> QED BY <2>1, <2>2
<1> QED BY <1>3, <1>4

LEMMA CommitRolloverKeeps ==
    ASSUME SchoolInv, NEW w \in Clerks, CommitRollover(w)
    PROVE  SchoolInv' /\ PastClasses /\ PastAsks
<1> DEFINE p == clerk[w]  S == Sources(p)  P == Promoted(p)
<1>1. /\ UNCHANGED <<card, owing, ask>> /\ p \in ClerkPlan /\ p.op = "rollover"
      /\ ClerksFine' /\ clerk' \in [Clerks -> ClerkPlan \cup {Resting}]
  BY Committed DEF CommitRollover
<1>2. /\ p.from \in Years /\ p.to \in Years /\ p.fromVer \in Nat /\ p.toVer \in Nat
      /\ p.fate \in [Classes -> Fates] /\ p.curator \in [Classes -> Curators]
  BY <1>1, ClerkFields
<1>3. PICK from \in Years, to \in Years : from = p.from /\ to = p.to
  BY <1>2
<1>4. /\ \A c \in Classes : c[1] = to => classYear[c].status = "none"
      /\ \A c \in S : Open(c) /\ c \notin owing /\ cohort[classYear[c].cohort] = "active"
      /\ year[from].status = "active" /\ year[to].status = "draft"
      /\ \A c \in Classes : c[1] = from /\ Open(c) => c \in S
  BY <1>3 DEF CommitRollover, InYear, NotOwing, Open
<1>5. /\ year' = [year EXCEPT ![from] = [status |-> "closed", ver |-> p.fromVer + 1],
                              ![to] = [status |-> "active", ver |-> p.toVer + 1]]
      /\ classYear' \in [Classes -> {classYear'[c] : c \in Classes}]
      /\ cohort' \in [Cohorts -> {cohort'[k] : k \in Cohorts}]
  BY <1>3 DEF CommitRollover
<1>6. RolledOver(p) /\ CohortsTurned(p)
  BY RolloverShape
<1>7. /\ S \in SUBSET Classes /\ P \in SUBSET S
      /\ \A c \in S \ P : p.fate[c] \in {"closed", "graduated"}
  BY <1>2 DEF Sources, Promoted, Fates
<1>8. \A c \in Classes : \A d \in P : Heir(p, c, d) => c[1] = to
  BY <1>3 DEF Heir, Target
<1>9. year \in [Years -> YearType]
  BY DEF SchoolInv, SchoolTypeOK
<1>10. from # to
  BY <1>4
<1>11. \A c \in Classes : c[1] \in Years
  BY DEF Classes
<1>12. PICK fv \in Nat, tv \in Nat : fv = p.fromVer + 1 /\ tv = p.toVer + 1
  <2>1. p.fromVer + 1 \in Nat /\ p.toVer + 1 \in Nat
    BY <1>2
  <2> HIDE DEF p
  <2> QED BY <2>1
<1>13. /\ \A y \in Years : year'[y] = IF y = to THEN [status |-> "active", ver |-> tv]
                                      ELSE IF y = from THEN [status |-> "closed", ver |-> fv]
                                      ELSE year[y]
       /\ year' \in [Years -> YearType]
  <2>1. [status |-> "active", ver |-> tv] \in YearType /\ [status |-> "closed", ver |-> fv] \in YearType
    BY DEF YearType
  <2> QED BY <1>5, <1>9, <1>10, <1>12, <2>1
<1>14. \A c \in Classes : Open(c) <=> c \in S
  <2>1. \A c \in Classes : Open(c) => year[c[1]].status = "active"
    BY DEF SchoolInv, ClassesFine, OpenFine
  <2>2. \A y \in Years : year[y].status = "active" => y = from
    BY <1>4 DEF SchoolInv, ClassesFine, OneYear
  <2> QED BY <1>4, <1>7, <1>11, <2>1, <2>2
<1>15. \A c \in S : c[1] = from /\ classYear[c].cohort \in Cohorts
  BY <1>4, <1>7, <1>11 DEF SchoolInv, ClassesFine, OpenFine, OneYear
<1> HIDE DEF p, S, P
<1>16. \A c, d \in S : classYear[c].cohort = classYear[d].cohort => c = d
  BY <1>4, <1>7 DEF SchoolInv, ClassesFine, CohortsFine, Open
(* the three kinds of classes *)
<1>20. \A c \in S : /\ classYear'[c] \in ClassType /\ classYear'[c].status = "closed"
                    /\ classYear'[c].cohort = classYear[c].cohort
  <2> SUFFICES ASSUME NEW c \in S
               PROVE  /\ classYear'[c] \in ClassType /\ classYear'[c].status = "closed"
                      /\ classYear'[c].cohort = classYear[c].cohort
    OBVIOUS
  <2>1. classYear'[c] = Turned(classYear[c], "closed") /\ c \in Classes
    BY <1>6, <1>7 DEF RolledOver, S
  <2>2. classYear[c].cohort \in Cohorts \cup {0} /\ classYear[c].curator \in Curators
        /\ classYear[c].ver + 1 \in Nat
    BY <2>1, ClassRow
  <2>3. PICK k \in Cohorts \cup {0}, t \in Curators, v \in Nat :
            k = classYear[c].cohort /\ t = classYear[c].curator /\ v = classYear[c].ver + 1
    BY <2>2
  <2>4. classYear'[c] = Class("closed", k, t, v)
    BY <2>1, <2>3 DEF Turned
  <2>5. classYear'[c] \in ClassType /\ classYear'[c].status = "closed" /\ classYear'[c].cohort = k
    BY <2>3, <2>4, ClassShape
  <2> QED BY <2>3, <2>5
<1> DEFINE Made(c, d) == /\ d \in P /\ Heir(p, c, d) /\ c[1] = to /\ c \notin S
                         /\ classYear[c].status = "none"
                         /\ classYear'[c] \in ClassType /\ classYear'[c].status = "active"
                         /\ classYear'[c].cohort = classYear[d].cohort
<1>21. \A c \in Classes : c \in S \/ (\E d \in P : Made(c, d)) \/ (c \notin S /\ classYear'[c] = classYear[c])
  <2> SUFFICES ASSUME NEW c \in Classes, c \notin S, classYear'[c] # classYear[c]
               PROVE  \E d \in P : Made(c, d)
    OBVIOUS
  <2>1. PICK d \in P : Heir(p, c, d)
                       /\ classYear'[c] = Class("active", classYear[d].cohort, p.curator[d], 1)
    BY <1>6 DEF RolledOver, S, P
  <2>2. c[1] = to /\ classYear[c].status = "none"
    BY <1>4, <1>8, <2>1
  <2>3. d \in Classes /\ classYear[d].cohort \in Cohorts \cup {0} /\ p.curator[d] \in Curators
    BY <1>2, <1>7, ClassRow
  <2>4. /\ classYear'[c] \in ClassType /\ classYear'[c].status = "active"
        /\ classYear'[c].cohort = classYear[d].cohort
    BY <2>1, <2>3, ClassShape
  <2> QED BY <2>1, <2>2, <2>4
<1>22. \A c \in Classes : Open(c)' <=> \E d \in P : Made(c, d)
  BY <1>14, <1>20, <1>21 DEF Open
<1>23. \A k \in Cohorts : (\A c \in S \ P : classYear[c].cohort # k) => cohort'[k] = cohort[k]
  BY <1>6 DEF CohortsTurned, S, P
<1>24. \A k \in Cohorts : cohort'[k] = cohort[k]
            \/ (cohort[k] = "active" /\ cohort'[k] \in {"closed", "graduated"})
  BY <1>4, <1>6, <1>7 DEF CohortsTurned, S, P
<1>25. SchoolTypeOK'
  <2>1. \A c \in Classes : classYear'[c] \in ClassType
    BY <1>20, <1>21, ClassRow
  <2>2. classYear' \in [Classes -> ClassType]
    BY <1>5, <2>1
  <2>3. \A k \in Cohorts : cohort[k] \in {"none", "active", "closed", "graduated"}
    BY DEF SchoolInv, SchoolTypeOK
  <2>4. \A k \in Cohorts : cohort'[k] \in {"none", "active", "closed", "graduated"}
    BY <1>24, <2>3
  <2>5. cohort' \in [Cohorts -> {"none", "active", "closed", "graduated"}]
    BY <1>5, <2>4
  <2> QED BY <1>1, <1>13, <2>2, <2>5 DEF SchoolInv, SchoolTypeOK
<1>26. OneYear'
  BY <1>4, <1>13 DEF SchoolInv, ClassesFine, OneYear
<1>27. OpenFine'
  <2> SUFFICES ASSUME NEW c \in Classes, Open(c)'
               PROVE  year'[c[1]].status = "active" /\ classYear'[c].cohort \in Cohorts
                      /\ cohort'[classYear'[c].cohort] = "active"
    BY DEF OpenFine
  <2>1. PICK d \in P : Made(c, d)
    BY <1>22
  <2>2. year'[c[1]].status = "active"
    BY <1>13, <2>1
  <2>3. d \in S /\ classYear[d].cohort \in Cohorts /\ cohort[classYear[d].cohort] = "active"
    BY <1>4, <1>7, <1>15
  <2>4. \A e \in S \ P : classYear[e].cohort # classYear[d].cohort
    BY <1>16, <2>3
  <2>5. cohort'[classYear[d].cohort] = cohort[classYear[d].cohort]
    BY <1>23, <2>3, <2>4
  <2> QED BY <2>1, <2>2, <2>3, <2>5
<1>28. CohortsFine'
  <2> SUFFICES ASSUME NEW a \in Classes, NEW b \in Classes, a # b,
                      classYear'[a].status # "none", classYear'[b].status # "none",
                      classYear'[a].cohort = classYear'[b].cohort
               PROVE  a[1] # b[1] /\ ~(Open(a)' /\ Open(b)')
    BY DEF CohortsFine
  <2>1. CASE ~Open(a)' /\ ~Open(b)'
    <3>1. /\ classYear[a].status # "none" /\ classYear[a].cohort = classYear'[a].cohort
          /\ classYear[b].status # "none" /\ classYear[b].cohort = classYear'[b].cohort
      BY <2>1, <1>14, <1>20, <1>21, <1>22 DEF Open
    <3> QED BY <2>1, <3>1 DEF SchoolInv, ClassesFine, CohortsFine
  <2>2. CASE Open(a)' /\ Open(b)'
    <3>1. PICK d \in P : Made(a, d)
      BY <2>2, <1>22
    <3>2. PICK e \in P : Made(b, e)
      BY <2>2, <1>22
    <3>3. d = e
      BY <3>1, <3>2, <1>7, <1>16
    <3>4. a = b
      BY <3>1, <3>2, <3>3 DEF Heir
    <3> QED BY <3>4
  <2>3. CASE Open(a)' /\ ~Open(b)'
    <3>1. a[1] = to
      BY <2>3, <1>22
    <3>2. classYear[b].status # "none"
      BY <2>3, <1>14, <1>20, <1>21, <1>22 DEF Open
    <3>3. b[1] # to
      BY <3>2, <1>4
    <3> QED BY <2>3, <3>1, <3>3
  <2>4. CASE ~Open(a)' /\ Open(b)'
    <3>1. b[1] = to
      BY <2>4, <1>22
    <3>2. classYear[a].status # "none"
      BY <2>4, <1>14, <1>20, <1>21, <1>22 DEF Open
    <3>3. a[1] # to
      BY <3>2, <1>4
    <3> QED BY <2>4, <3>1, <3>3
  <2> QED BY <2>1, <2>2, <2>3, <2>4
<1>29. DebtsFine'
  BY <1>1, <1>4, <1>14 DEF SchoolInv, SchoolTypeOK, ClassesFine, DebtsFine
<1>30. ClassesKnown'
  BY <1>7, <1>15, <1>20, <1>21 DEF SchoolInv, ClassesFine, ClassesKnown
<1>31. PastClasses
  <2>1. \A y \in Years : year[y].status = "closed" => y # from /\ y # to /\ year'[y] = year[y]
    BY <1>4, <1>13
  <2>2. \A c \in Classes : c[1] # from /\ c[1] # to => classYear'[c] = classYear[c]
    BY <1>15, <1>21
  <2>3. \A c \in Classes : classYear[c].status # "none" =>
          classYear'[c].status # "none" /\ classYear'[c].cohort = classYear[c].cohort
    BY <1>20, <1>21
  <2> QED BY <1>24, <2>1, <2>2, <2>3 DEF PastClasses, InYear
<1>32. OnePending' /\ PastAsks
  BY <1>1, AsksSame
<1> QED BY <1>1, <1>25, <1>26, <1>27, <1>28, <1>29, <1>30, <1>31, <1>32 DEF SchoolInv, ClassesFine

(* Curator requests *)
LEMMA AskShape ==
    ASSUME NEW s \in {"none", "submitted", "approved", "rejected", "cancelled"}, NEW t \in Curators,
           NEW cur \in Classes \cup {NoClass}, NEW wanted \in Classes \cup {NoClass}, NEW v \in Nat
    PROVE  /\ Asked(s, t, cur, wanted, v) \in AskType /\ Asked(s, t, cur, wanted, v).status = s
           /\ Asked(s, t, cur, wanted, v).teacher = t
BY DEF Asked, AskType

LEMMA ResolvedShape ==
    ASSUME SchoolInv, NEW a \in Asks, NEW s \in {"approved", "rejected", "cancelled"}
    PROVE  /\ Resolved(ask[a], s) \in AskType /\ Resolved(ask[a], s).status = s
<1>1. PICK t \in Curators, cur \in Classes \cup {NoClass}, wanted \in Classes \cup {NoClass}, v \in Nat :
        t = ask[a].teacher /\ cur = ask[a].current /\ wanted = ask[a].wanted /\ v = ask[a].ver + 1
  <2>1. ask[a].ver + 1 \in Nat
    BY AskRow
  <2> QED BY <2>1, AskRow
<1>2. Resolved(ask[a], s) = Asked(s, t, cur, wanted, v)
  BY <1>1 DEF Resolved
<1> QED BY <1>2, AskShape

(* a request answered: it was pending, and no other row changes            *)
LEMMA Answered ==
    ASSUME SchoolInv, NEW a \in Asks, NEW s \in {"approved", "rejected", "cancelled"},
           ask[a].status = "submitted", ask' = [ask EXCEPT ![a] = Resolved(@, s)]
    PROVE  /\ OnePending' /\ ask' \in [Asks -> AskType]
           /\ \A b \in Asks : ask[b].status \notin {"none", "submitted"} => ask'[b] = ask[b]
           /\ \A b \in Asks : ask[b].status = "submitted" /\ ask'[b].status = "approved"
                              => b = a /\ s = "approved"
<1>1. ask \in [Asks -> AskType]
  BY DEF SchoolInv, SchoolTypeOK
<1>2. \A b \in Asks : ask'[b] = IF b = a THEN Resolved(ask[a], s) ELSE ask[b]
  BY <1>1
<1>3. ask' \in [Asks -> AskType]
  BY <1>1, ResolvedShape
<1>4. OnePending'
  <2>1. \A b \in Asks : ask'[b].status = "submitted" => ask'[b] = ask[b]
    BY <1>2, ResolvedShape
  <2> QED BY <2>1 DEF SchoolInv, OnePending
<1> QED BY <1>2, <1>3, <1>4, ResolvedShape

LEMMA CommitAskKeeps ==
    ASSUME SchoolInv, NEW w \in Clerks, CommitAsk(w)
    PROVE  SchoolInv' /\ PastClasses /\ PastAsks
<1> DEFINE p == clerk[w]
<1>1. /\ UNCHANGED <<card, owing, year, cohort, classYear>> /\ p \in ClerkPlan /\ p.op = "ask"
      /\ ClerksFine' /\ clerk' \in [Clerks -> ClerkPlan \cup {Resting}]
  BY Committed DEF CommitAsk
<1>2. PICK a \in Asks, t \in Teachers, c \in Classes, cur \in Classes \cup {NoClass}, v \in Nat :
        a = p.ask /\ t = p.teacher /\ c = p.wanted /\ cur = p.current /\ v = p.ver
  BY <1>1, ClerkFields
<1>3. /\ IF v = 0 THEN Submitted(t) = {} /\ ask[a].status = "none"
                  ELSE a \in Submitted(t) /\ ask[a].ver = v
      /\ ask' = [ask EXCEPT ![a] = Asked("submitted", t, cur, c, v + 1)]
  BY <1>2 DEF CommitAsk
<1> HIDE DEF p
<1>4. PICK row \in AskType : row = Asked("submitted", t, cur, c, v + 1)
                             /\ row.status = "submitted" /\ row.teacher = t
  <2>1. v + 1 \in Nat /\ t \in Curators
    BY DEF Curators
  <2> QED BY <2>1, AskShape
<1>5. ask \in [Asks -> AskType]
  BY DEF SchoolInv, SchoolTypeOK
<1>6. (\A b \in Asks : ask'[b] = IF b = a THEN row ELSE ask[b]) /\ ask' \in [Asks -> AskType]
  BY <1>3, <1>4, <1>5
<1>7. \A b \in Asks : b # a => ~(ask[b].status = "submitted" /\ ask[b].teacher = t)
  <2>1. CASE v = 0
    BY <2>1, <1>3 DEF Submitted
  <2>2. CASE v # 0
    BY <2>2, <1>3 DEF Submitted, SchoolInv, OnePending
  <2> QED BY <2>1, <2>2
<1>8. ask[a].status \in {"none", "submitted"}
  BY <1>3 DEF Submitted
<1>9. OnePending'
  BY <1>4, <1>6, <1>7 DEF SchoolInv, OnePending
<1>10. PastAsks
  BY <1>4, <1>6, <1>8 DEF PastAsks
<1>11. SchoolTypeOK'
  BY <1>1, <1>6 DEF SchoolInv, SchoolTypeOK
<1>12. DebtsFine'
  BY <1>1 DEF SchoolInv, ClassesFine, DebtsFine, Open
<1> QED BY <1>1, <1>9, <1>10, <1>11, <1>12, ClassesSame DEF SchoolInv, ClassesFine

LEMMA AnswerAskKeeps ==
    ASSUME SchoolInv, NEW a \in Asks, NEW s \in {"rejected", "cancelled"},
           ask[a].status = "submitted", ask' = [ask EXCEPT ![a] = Resolved(@, s)],
           UNCHANGED <<card, owing, year, cohort, classYear>>,
           ClerksFine', clerk' \in [Clerks -> ClerkPlan \cup {Resting}]
    PROVE  SchoolInv' /\ PastClasses /\ PastAsks
<1>1. /\ OnePending' /\ ask' \in [Asks -> AskType]
      /\ \A b \in Asks : ask[b].status \notin {"none", "submitted"} => ask'[b] = ask[b]
      /\ \A b \in Asks : ~(ask[b].status = "submitted" /\ ask'[b].status = "approved")
  BY Answered
<1>2. PastAsks
  BY <1>1 DEF PastAsks
<1>3. SchoolTypeOK'
  BY <1>1 DEF SchoolInv, SchoolTypeOK
<1>4. DebtsFine'
  BY DEF SchoolInv, ClassesFine, DebtsFine, Open
<1> QED BY <1>1, <1>2, <1>3, <1>4, ClassesSame DEF SchoolInv, ClassesFine

LEMMA CommitAnswerKeeps ==
    ASSUME SchoolInv, NEW w \in Clerks, CommitCancel(w) \/ CommitReject(w)
    PROVE  SchoolInv' /\ PastClasses /\ PastAsks
<1> DEFINE p == clerk[w]
<1>1. PICK op \in {"cancel", "reject"}, s \in {"rejected", "cancelled"} :
        /\ Commits(w, op) /\ Pending(p) /\ ask' = [ask EXCEPT ![p.ask] = Resolved(@, s)]
        /\ UNCHANGED <<year, cohort, classYear>>
  BY DEF CommitCancel, CommitReject
<1>2. /\ UNCHANGED <<card, owing>> /\ p \in ClerkPlan /\ p.op = op
      /\ ClerksFine' /\ clerk' \in [Clerks -> ClerkPlan \cup {Resting}]
  BY <1>1, Committed
<1>3. PICK a \in Asks : a = p.ask
  BY <1>2, ClerkFields
<1>4. ask[a].status = "submitted" /\ ask' = [ask EXCEPT ![a] = Resolved(@, s)]
  BY <1>1, <1>3 DEF Pending
<1> HIDE DEF p
<1> QED BY <1>1, <1>2, <1>4, AnswerAskKeeps

LEMMA SeatedIsRecurated ==
    ASSUME SchoolInv, NEW a \in Asks, classYear' = Seated(ask[a])
    PROVE  Recurated
<1> DEFINE r == ask[a]
<1>1. r.teacher \in Curators /\ Nobody \in Curators
  BY AskRow DEF Curators
<1>2. classYear' = [c \in Classes |->
        IF Open(c) /\ c = r.current /\ classYear[c].curator = r.teacher
        THEN Curated(classYear[c], Nobody)
        ELSE IF Open(c) /\ c = r.wanted /\ classYear[c].curator = Nobody
        THEN Curated(classYear[c], r.teacher)
        ELSE classYear[c]]
  BY DEF Seated
<1> HIDE DEF r
<1>3. \A c \in Classes : \/ classYear'[c] = classYear[c]
                         \/ Open(c) /\ classYear'[c] = Curated(classYear[c], Nobody)
                         \/ Open(c) /\ classYear'[c] = Curated(classYear[c], r.teacher)
  BY <1>2
<1>4. \A c \in Classes : classYear[c] \in ClassType
  BY ClassRow
<1>5. \A c \in Classes : classYear'[c] \in ClassType
  BY <1>1, <1>3, <1>4, CuratedShape
<1>6. classYear' \in [Classes -> ClassType]
  <2>1. DOMAIN classYear' = Classes /\ classYear' = [c \in Classes |-> classYear'[c]]
    BY <1>2
  <2> QED BY <1>5, <2>1
<1> QED BY <1>1, <1>3, <1>6, CuratedShape DEF Recurated

LEMMA CommitApproveKeeps ==
    ASSUME SchoolInv, NEW w \in Clerks, CommitApprove(w)
    PROVE  SchoolInv' /\ PastClasses /\ PastAsks
<1> DEFINE p == clerk[w]
<1>1. /\ UNCHANGED <<card, owing, year, cohort>> /\ p \in ClerkPlan /\ p.op = "approve"
      /\ ClerksFine' /\ clerk' \in [Clerks -> ClerkPlan \cup {Resting}]
  BY Committed DEF CommitApprove
<1>2. PICK a \in Asks : a = p.ask
  BY <1>1, ClerkFields
<1>3. /\ ask[a].status = "submitted" /\ FitsRequest(Seated(ask[a]), ask[a])
      /\ classYear' = Seated(ask[a]) /\ ask' = [ask EXCEPT ![a] = Resolved(@, "approved")]
  BY <1>2 DEF CommitApprove, Pending
<1> HIDE DEF p
<1>4. ClassesFine' /\ PastClasses /\ classYear' \in [Classes -> ClassType]
  BY <1>1, <1>3, SeatedIsRecurated, RecuratedKeeps DEF Recurated
<1>5. /\ OnePending' /\ ask' \in [Asks -> AskType]
      /\ \A b \in Asks : ask[b].status \notin {"none", "submitted"} => ask'[b] = ask[b]
      /\ \A b \in Asks : ask[b].status = "submitted" /\ ask'[b].status = "approved" => b = a
  BY <1>3, Answered
<1>6. Holds(classYear', ask[a].teacher) = {ask[a].wanted}
  BY <1>3 DEF FitsRequest
<1>7. PastAsks
  BY <1>5, <1>6 DEF PastAsks
<1>8. SchoolTypeOK'
  BY <1>1, <1>4, <1>5 DEF SchoolInv, SchoolTypeOK
<1> QED BY <1>1, <1>4, <1>5, <1>7, <1>8 DEF SchoolInv

(* Cards and loans *)
LEMMA CardKeeps ==
    ASSUME SchoolInv, NEW t \in Teachers, CloseCard(t) \/ RestoreCard(t)
    PROVE  SchoolInv' /\ PastClasses /\ PastAsks
<1>1. UNCHANGED <<year, cohort, classYear, ask, owing, clerk>> /\ card' \in [Teachers -> BOOLEAN]
  BY DEF CloseCard, RestoreCard, SchoolInv, SchoolTypeOK
<1>2. ClerksFine' /\ clerk' \in [Clerks -> ClerkPlan \cup {Resting}]
  BY <1>1, ClerksStay DEF ClerksKept
<1>3. SchoolTypeOK'
  BY <1>1 DEF SchoolInv, SchoolTypeOK
<1>4. DebtsFine'
  BY <1>1 DEF SchoolInv, ClassesFine, DebtsFine, Open
<1> QED BY <1>1, <1>2, <1>3, <1>4, ClassesSame, AsksSame DEF SchoolInv, ClassesFine

LEMMA DebtKeeps ==
    ASSUME SchoolInv, NEW c \in Classes, Borrow(c) \/ Settle(c)
    PROVE  SchoolInv' /\ PastClasses /\ PastAsks
<1>1. /\ UNCHANGED <<year, cohort, classYear, ask, card, clerk>> /\ owing' \in SUBSET Classes
      /\ \A d \in owing' : d \in owing \/ Open(d)
  BY DEF Borrow, Settle, SchoolInv, SchoolTypeOK
<1>2. ClerksFine' /\ clerk' \in [Clerks -> ClerkPlan \cup {Resting}]
  BY <1>1, ClerksStay DEF ClerksKept
<1>3. SchoolTypeOK'
  BY <1>1 DEF SchoolInv, SchoolTypeOK
<1>4. DebtsFine'
  BY <1>1 DEF SchoolInv, ClassesFine, DebtsFine, Open
<1> QED BY <1>1, <1>2, <1>3, <1>4, ClassesSame, AsksSame DEF SchoolInv, ClassesFine

(* Every step *)
LEMMA SchoolStart == SchoolInit => SchoolInv
<1> SUFFICES ASSUME SchoolInit PROVE SchoolInv
  OBVIOUS
<1>1. [status |-> "none", cohort |-> 0, curator |-> Nobody, ver |-> 0] \in ClassType
      /\ [status |-> "none", ver |-> 0] \in YearType
      /\ [status |-> "none", teacher |-> Nobody, current |-> NoClass,
          wanted |-> NoClass, ver |-> 0] \in AskType
  BY DEF ClassType, YearType, AskType, Curators
<1>2. SchoolTypeOK
  BY <1>1 DEF SchoolInit, SchoolTypeOK
<1>3. ClassesFine
  BY DEF SchoolInit, ClassesFine, OneYear, OpenFine, CohortsFine, DebtsFine, ClassesKnown, Open
<1>4. OnePending
  <2>1. \A a \in Asks : ask[a].status = "none"
    BY DEF SchoolInit
  <2> QED BY <2>1 DEF OnePending
<1>5. ClerksFine
  BY DEF SchoolInit, ClerksFine
<1> QED BY <1>2, <1>3, <1>4, <1>5 DEF SchoolInv

LEMMA OfficeKeeps ==
    ASSUME SchoolInv, Offices
    PROVE  SchoolInv' /\ PastClasses /\ PastAsks
<1>1. PICK w \in Clerks :
        \/ \E y \in Years : PlanYear(w, y)
        \/ \E y \in Years, k \in Cohorts \cup {0}, t \in Curators : PlanCreate(w, y, k, t)
        \/ \E c \in Classes, t \in Curators : PlanUpdate(w, c, t)
        \/ \E c \in Classes, fate \in Fates \ {"promote"} : PlanClose(w, c, fate)
        \/ \E c \in Classes : PlanReopen(w, c)
        \/ \E y \in Years : PlanRollover(w, y)
        \/ \E a \in Asks, t \in Teachers, c \in Classes : PlanAsk(w, a, t, c)
        \/ \E a \in Asks : PlanCancel(w, a)
        \/ \E a \in Asks, d \in {"approve", "reject"} : PlanDecide(w, a, d)
        \/ CommitYear(w) \/ CommitCreate(w) \/ RetryCreate(w) \/ CommitUpdate(w)
        \/ CommitClose(w) \/ CommitReopen(w) \/ CommitRollover(w)
        \/ CommitAsk(w) \/ CommitCancel(w) \/ CommitReject(w) \/ CommitApprove(w)
        \/ Drop(w)
  BY DEF Offices
<1>2. CASE \E y \in Years : PlanYear(w, y)
  BY <1>2, PlanYearKeeps
<1>3. CASE \E y \in Years, k \in Cohorts \cup {0}, t \in Curators : PlanCreate(w, y, k, t)
  BY <1>3, PlanCreateKeeps
<1>4. CASE \E c \in Classes, t \in Curators : PlanUpdate(w, c, t)
  BY <1>4, PlanUpdateKeeps
<1>5. CASE \E c \in Classes, fate \in Fates \ {"promote"} : PlanClose(w, c, fate)
  BY <1>5, PlanCloseKeeps
<1>6. CASE \E c \in Classes : PlanReopen(w, c)
  BY <1>6, PlanReopenKeeps
<1>7. CASE \E y \in Years : PlanRollover(w, y)
  BY <1>7, PlanRolloverKeeps
<1>8. CASE \E a \in Asks, t \in Teachers, c \in Classes : PlanAsk(w, a, t, c)
  BY <1>8, PlanAskKeeps
<1>9. CASE \/ \E a \in Asks : PlanCancel(w, a)
           \/ \E a \in Asks, d \in {"approve", "reject"} : PlanDecide(w, a, d)
  <2>1. PICK a \in Asks, op \in {"cancel", "approve", "reject"} :
          Plans(w, [op |-> op, ask |-> a, ver |-> ask[a].ver])
    BY <1>9 DEF PlanCancel, PlanDecide
  <2> QED BY <2>1, PlanAnswerKeeps
<1>10. CASE CommitYear(w)
  BY <1>10, CommitYearKeeps
<1>11. CASE CommitCreate(w)
  BY <1>11, CommitCreateKeeps
<1>12. CASE RetryCreate(w)
  BY <1>12, RetryKeeps
<1>13. CASE CommitUpdate(w)
  BY <1>13, CommitUpdateKeeps
<1>14. CASE CommitClose(w)
  BY <1>14, CommitCloseKeeps
<1>15. CASE CommitReopen(w)
  BY <1>15, CommitReopenKeeps
<1>16. CASE CommitRollover(w)
  BY <1>16, CommitRolloverKeeps
<1>17. CASE CommitAsk(w)
  BY <1>17, CommitAskKeeps
<1>18. CASE CommitCancel(w) \/ CommitReject(w)
  BY <1>18, CommitAnswerKeeps
<1>19. CASE CommitApprove(w)
  BY <1>19, CommitApproveKeeps
<1>20. CASE Drop(w)
  BY <1>20, DropKeeps
<1> QED BY <1>1, <1>2, <1>3, <1>4, <1>5, <1>6, <1>7, <1>8, <1>9, <1>10, <1>11, <1>12, <1>13,
           <1>14, <1>15, <1>16, <1>17, <1>18, <1>19, <1>20

LEMMA SchoolStepKeeps ==
    ASSUME SchoolInv, [SchoolNext]_schoolVars
    PROVE  SchoolInv' /\ (PastStep \/ UNCHANGED schoolVars)
<1>1. CASE Offices
  BY <1>1, OfficeKeeps, SchoolPast
<1>2. CASE \E t \in Teachers : CloseCard(t) \/ RestoreCard(t)
  BY <1>2, CardKeeps, SchoolPast
<1>3. CASE \E c \in Classes : Borrow(c) \/ Settle(c)
  BY <1>3, DebtKeeps, SchoolPast
<1>4. CASE UNCHANGED schoolVars
  <2>1. UNCHANGED Rows /\ UNCHANGED clerk
    BY <1>4 DEF schoolVars, Rows
  <2>2. ClerksFine' /\ clerk' \in [Clerks -> ClerkPlan \cup {Resting}]
    BY <2>1, ClerksStay DEF ClerksKept
  <2> QED BY <1>4, <2>1, <2>2, YearRowsKept
<1> QED BY <1>1, <1>2, <1>3, <1>4 DEF SchoolNext

LEMMA SchoolAlways == SchoolSpec => []SchoolInv
<1>1. SchoolInv /\ [SchoolNext]_schoolVars => SchoolInv'
  BY SchoolStepKeeps
<1> QED BY <1>1, SchoolStart, PTL DEF SchoolSpec

(* Every row of years, cohorts, classes, cards and curator requests, and   *)
(* whatever a handler is about to write, is of its type.                   *)
THEOREM SchoolTyped == SchoolSpec => []SchoolTypeOK
<1>1. SchoolInv => SchoolTypeOK
  BY DEF SchoolInv
<1> QED BY <1>1, SchoolAlways, PTL

(* At most one school year runs; an open class belongs to it and to an     *)
(* active cohort; a cohort has one open class and one class a year; a      *)
(* closed class owes nothing; a teacher has one request pending: whatever  *)
(* the handlers of academic-admin-store.ts and                             *)
(* teacher-curator-request-store.ts read before their batches.             *)
THEOREM SchoolSafe == SchoolSpec => []SchoolInOrder
BY SchoolAlways, SchoolOrdered, PTL

(* A closed year and its classes never change again, a graduated cohort    *)
(* stays graduated, a class keeps its cohort, a decided curator request is *)
(* not decided again, and an approval leaves its teacher with exactly the  *)
(* class asked for.                                                        *)
THEOREM SchoolPastStays == SchoolSpec => PastStaysPast
<1>1. SchoolInv /\ [SchoolNext]_schoolVars => [PastStep]_schoolVars
  BY SchoolStepKeeps
<1> QED BY <1>1, SchoolAlways, PTL DEF SchoolSpec, PastStaysPast

(* Ones over a part of a set count that part. *)
LEMMA SumCounts ==
    ASSUME NEW f, NEW S, IsFiniteSet(S), NEW L \in SUBSET S,
           \A x \in S : f[x] = IF x \in L THEN 1 ELSE 0
    PROVE  Sum(f, S) = Cardinality(L)
<1> DEFINE W == {T \in SUBSET S : Sum(f, T) # Cardinality(T \cap L)}
<1>1. SUFFICES ASSUME W # {} PROVE FALSE
  <2>1. S \notin W
    BY <1>1
  <2>2. S \cap L = L
    OBVIOUS
  <2> QED BY <2>1, <2>2
<1>2. {} \notin W /\ W \in SUBSET SUBSET S
  <2>1. {} \cap L = {} /\ Cardinality({}) = 0
    BY FS_EmptySet
  <2> QED BY <2>1, SumEmpty
<1>3. PICK T \in W : T # {} /\ Pick(T) \in T /\ IsFiniteSet(T) /\ Rest(T) \in SUBSET T /\ Rest(T) \notin W
  <2> HIDE DEF W
  <2> QED BY <1>1, <1>2, LeastWithout
<1>4. Sum(f, T) = f[Pick(T)] + Sum(f, Rest(T))
  BY <1>3, SumPick
<1>5. Rest(T) \in SUBSET S /\ Sum(f, Rest(T)) = Cardinality(Rest(T) \cap L)
  BY <1>3
<1>6. IsFiniteSet(T \cap L) /\ Cardinality(T \cap L) \in Nat
  BY <1>3, FS_Subset, FS_CardinalityType
<1>7. PICK e \in T : e = Pick(T)
  BY <1>3
<1>8. CASE e \in L
  <2>1. Rest(T) \cap L = (T \cap L) \ {e} /\ e \in T \cap L
    BY <1>7, <1>8 DEF Rest
  <2> DEFINE U == T \cap L
  <2> HIDE DEF U
  <2>2. Cardinality(U \ {e}) = Cardinality(U) - 1
    BY <1>6, <2>1, FS_RemoveElement DEF U
  <2>3. f[e] = 1
    BY <1>8, <1>3
  <2>4. Sum(f, Rest(T)) = Cardinality(U) - 1 /\ Cardinality(U) \in Nat /\ Sum(f, T) # Cardinality(U)
    <3>1. Rest(T) \cap L = U \ {e}
      BY <2>1 DEF U
    <3>2. Sum(f, Rest(T)) = Cardinality(U) - 1
      BY <1>5, <2>2, <3>1
    <3>3. Cardinality(U) \in Nat
      BY <1>6 DEF U
    <3>4. Sum(f, T) # Cardinality(U)
      <4>1. Sum(f, T) # Cardinality(T \cap L)
        BY <1>3
      <4> QED BY <4>1 DEF U
    <3> QED BY <3>2, <3>3, <3>4
  <2> QED BY <1>4, <1>7, <2>3, <2>4
<1>9. CASE e \notin L
  <2>1. Rest(T) \cap L = T \cap L
    BY <1>7, <1>9 DEF Rest
  <2>2. f[e] = 0
    BY <1>9, <1>3
  <2> QED BY <1>4, <1>5, <1>6, <1>7, <2>1, <2>2
<1> QED BY <1>8, <1>9

-----------------------------------------------------------------------------
(* Class loans: the inductive invariant                                    *)

Qtys == [p \in Places |-> shelf[p].qty]
Outs == [i \in Items |-> Out(i)]

ShelvesFine == \A p \in Places : shelfLines[p] = shelf[p].qty /\ promised[p] <= shelf[p].qty
LinesFine == \A i \in Items : itemLines[i] = -Out(i)
CopiesKept == Sum(Qtys, Places) + Sum(Outs, Items) = Copies

StatementsOwned == \A l \in Statements : statement[l].status # "none" => statement[l].of \in Pupils
OneOpen ==
    \A l, m \in Statements : (/\ statement[l].status = "open" /\ statement[m].status = "open"
                             /\ statement[l].of = statement[m].of) => l = m
ItemFine(i) ==
    IF item[i].life = "none" THEN item[i] = NoItem
    ELSE /\ item[i].of \in Statements /\ statement[item[i].of].status # "none"
         /\ item[i].returned <= item[i].issued
         /\ statement[item[i].of].status = "closed" => Out(i) = 0
         /\ Linked(i) => item[i].line \in Items /\ item[item[i].line].of = item[i].of
ItemsFine == \A i \in Items : ItemFine(i)
LinksFine == \A i, j \in Items : Linked(i) /\ item[i].line = item[j].line => i = j
DebtorsActive ==
    \A l \in Statements, i \in Items :
        statement[l].status = "open" /\ item[i].of = l /\ Out(i) > 0 => Active(statement[l].of)

(* what a handler is about to write: a return brings something back, and   *)
(* while its statement has the version read it closes it for good reason;  *)
(* a correction leaves an item its statement, place, line and returns      *)
ReturnFine(p) ==
    /\ \E i \in Items : p.back[i] > 0
    /\ statement[p.loan].status # "none" /\ p.loanVer <= statement[p.loan].ver
    /\ SameStatement(p.loan, p.loanVer) /\ p.closes => \A i \in ItemsOf(p.loan) : Out(i) = p.back[i]
AdjustFine(p) ==
    /\ p.row.life # "none" /\ p.next.life # "none" /\ p.row.returned <= p.next.issued
    /\ p.next.of = p.row.of /\ p.next.from = p.row.from
    /\ p.next.line = p.row.line /\ p.next.returned = p.row.returned
PorterFine(w) ==
    /\ porter[w].op = "return" => ReturnFine(porter[w])
    /\ porter[w].op = "adjust" => AdjustFine(porter[w])
    /\ porter[w].op = "link" => item[porter[w].item].life # "none"
PortersFine == \A w \in Porters : porter[w] # Free => PorterFine(w)

LedgerFine == ShelvesFine /\ LinesFine /\ CopiesKept
RecordsFine == StatementsOwned /\ OneOpen /\ ItemsFine /\ LinksFine /\ DebtorsActive
LoansInv == LoansTypeOK /\ LedgerFine /\ RecordsFine /\ PortersFine

(* A step gives every statement it touches a higher version; statements    *)
(* and items stay what they belong to.                                     *)
VersionsTell ==
    /\ \A l \in Statements : statement[l].status # "none" =>
        /\ statement'[l].status # "none" /\ statement'[l].of = statement[l].of
        /\ statement[l].ver <= statement'[l].ver
        /\ statement'[l].ver = statement[l].ver =>
             statement'[l] = statement[l]
             /\ \A i \in Items : item[i].of = l \/ item'[i].of = l => item'[i] = item[i]
    /\ \A i \in Items : item[i].life # "none" => item'[i].life # "none"

LEMMA LoansAccounted == LoansInv => CopiesAccounted
<1>1. SumFunction([p \in Places |-> shelf[p].qty]) = Sum(Qtys, Places)
  <2>1. DOMAIN Qtys = Places /\ Qtys = [p \in Places |-> shelf[p].qty]
    BY DEF Qtys
  <2> QED BY <2>1 DEF SumFunction, Sum
<1>2. SumFunction([i \in Items |-> Out(i)]) = Sum(Outs, Items)
  <2>1. DOMAIN Outs = Items /\ Outs = [i \in Items |-> Out(i)]
    BY DEF Outs
  <2> QED BY <2>1 DEF SumFunction, Sum
<1> QED BY <1>1, <1>2 DEF LoansInv, LedgerFine, ShelvesFine, LinesFine, CopiesKept, CopiesAccounted

LEMMA LoanRows ==
    ASSUME LoansTypeOK
    PROVE  /\ \A p \in Places : shelf[p] \in ShelfType /\ shelf[p].qty \in Nat /\ shelf[p].ver \in Nat
                                /\ promised[p] \in Nat /\ shelfLines[p] \in Int
           /\ \A l \in Statements : statement[l] \in StatementType /\ statement[l].ver \in Nat
                                    /\ statement[l].status \in {"none", "open", "closed"}
           /\ \A i \in Items : /\ item[i] \in ItemType /\ item[i].issued \in Nat
                               /\ item[i].returned \in Nat /\ item[i].from \in Places
                               /\ item[i].life \in {"none", "active", "removed"}
                               /\ item[i].line \in Items \cup {NoLine}
                               /\ item[i].of \in Statements \cup {NoLoan}
                               /\ itemLines[i] \in Int
BY DEF LoansTypeOK, ShelfType, StatementType, ItemType

LEMMA OutIsInt == LoansTypeOK => \A i \in Items : Out(i) \in Int
<1> SUFFICES ASSUME LoansTypeOK, NEW i \in Items PROVE Out(i) \in Int
  OBVIOUS
<1>1. item[i].issued \in Nat /\ item[i].returned \in Nat
  BY LoanRows
<1> QED BY <1>1 DEF Out

LEMMA OutIsNat == LoansTypeOK /\ ItemsFine => \A i \in Items : Out(i) \in Nat
<1> SUFFICES ASSUME LoansTypeOK, ItemsFine, NEW i \in Items PROVE Out(i) \in Nat
  OBVIOUS
<1>1. item[i].issued \in Nat /\ item[i].returned \in Nat
  BY LoanRows
<1>2. item[i].life # "none" => item[i].returned <= item[i].issued
  BY DEF ItemsFine, ItemFine
<1> QED BY <1>1, <1>2 DEF Out

LEMMA PlacesFinite == IsFiniteSet(Places) /\ IsFiniteSet(Items)
<1>1. IsFiniteSet({Depot})
  BY FS_Singleton
<1>2. IsFiniteSet(Rooms \cup {Depot})
  BY <1>1, LoanTables, FS_Union
<1> QED BY <1>2, LoanTables DEF Places

LEMMA LoansInOrder == LoansInv => LoansSound
<1> SUFFICES ASSUME LoansInv PROVE LoansSound
  OBVIOUS
<1>1. \A c \in Pupils : Cardinality(OpenFor(c)) <= 1
  <2> SUFFICES ASSUME NEW c \in Pupils PROVE Cardinality(OpenFor(c)) <= 1
    OBVIOUS
  <2>1. CASE OpenFor(c) = {}
    <3>1. Cardinality(OpenFor(c)) = 0
      BY <2>1, FS_EmptySet
    <3> QED BY <3>1
  <2>2. CASE OpenFor(c) # {}
    <3>1. PICK l : OpenFor(c) = {l}
      BY <2>2 DEF OpenFor, LoansInv, RecordsFine, OneOpen
    <3>2. Cardinality({l}) = 1
      BY FS_Singleton
    <3> QED BY <3>1, <3>2
  <2> QED BY <2>1, <2>2
<1>2. StatementsSound
  BY <1>1 DEF StatementsSound, LoansInv, RecordsFine, ItemsFine, ItemFine, LinksFine
<1>3. ClosedClassOwesNothing
  BY DEF ClosedClassOwesNothing, Owes, OpenFor, LoansInv, RecordsFine, DebtorsActive
<1> QED BY <1>2, <1>3, LoansAccounted DEF LoansSound

-----------------------------------------------------------------------------
(* What handlers carry *)
LEMMA PorterFields ==
    ASSUME NEW p \in PorterPlan
    PROVE  /\ p.op = "issue" => p.of \in Pupils /\ p.loan \in Statements \cup {NoLoan}
                                /\ p.loanVer \in Nat /\ p.place \in Places
                                /\ p.seen \in ShelfType /\ p.n \in Nat
           /\ p.op = "return" => p.loan \in Statements /\ p.loanVer \in Nat
                                 /\ p.back \in [Items -> Nat] /\ p.place \in Places
                                 /\ p.seen \in ShelfType /\ p.closes \in BOOLEAN
           /\ p.op = "adjust" => p.item \in Items /\ p.row \in ItemType /\ p.next \in ItemType
                                 /\ p.loanVer \in Nat /\ p.seen \in ShelfType
           /\ p.op = "link" => p.item \in Items /\ p.line \in Items /\ p.loanVer \in Nat
BY DEF PorterPlan

LEMMA ReturnStays ==
    ASSUME LoansTypeOK, LoansTypeOK', VersionsTell, NEW p \in PorterPlan, p.op = "return",
           ReturnFine(p)
    PROVE  ReturnFine(p)'
<1>1. p.loan \in Statements /\ p.loanVer \in Nat
  BY PorterFields
<1>2. PICK l \in Statements : l = p.loan
  BY <1>1
<1>3. PICK v \in Nat : v = p.loanVer
  BY <1>1
<1>4. /\ \E i \in Items : p.back[i] > 0
      /\ statement[l].status # "none" /\ v <= statement[l].ver
      /\ SameStatement(l, v) /\ p.closes => \A i \in ItemsOf(l) : Out(i) = p.back[i]
  BY <1>2, <1>3 DEF ReturnFine
<1>5. /\ statement'[l].status # "none" /\ statement[l].ver <= statement'[l].ver
      /\ statement'[l].ver = statement[l].ver =>
             statement'[l] = statement[l]
             /\ \A i \in Items : item[i].of = l \/ item'[i].of = l => item'[i] = item[i]
  BY <1>4 DEF VersionsTell
<1>6. statement[l].ver \in Nat /\ statement'[l].ver \in Nat
  BY DEF LoansTypeOK, StatementType
<1>7. v <= statement'[l].ver
  BY <1>4, <1>5, <1>6
<1>8. ASSUME SameStatement(l, v)', p.closes PROVE \A i \in ItemsOf(l)' : Out(i)' = p.back[i]
  <2>1. statement'[l].ver = v /\ statement'[l].status = "open"
    BY <1>8 DEF SameStatement
  <2>2. statement'[l].ver = statement[l].ver
    BY <1>4, <1>5, <1>6, <2>1
  <2>3. statement'[l] = statement[l]
        /\ \A i \in Items : item[i].of = l \/ item'[i].of = l => item'[i] = item[i]
    BY <1>5, <2>2
  <2>4. SameStatement(l, v)
    BY <2>1, <2>3 DEF SameStatement
  <2>5. ItemsOf(l)' = ItemsOf(l) /\ \A i \in ItemsOf(l) : Out(i)' = Out(i)
    BY <2>3 DEF ItemsOf, Out
  <2> QED BY <1>4, <1>8, <2>4, <2>5
<1> QED BY <1>2, <1>3, <1>4, <1>5, <1>7, <1>8 DEF ReturnFine

PortersKept == \A w \in Porters : porter'[w] = porter[w] \/ porter'[w] = Free

LEMMA PortersStay ==
    ASSUME LoansInv, LoansTypeOK', VersionsTell, PortersKept
    PROVE  PortersFine'
<1> SUFFICES ASSUME NEW w \in Porters, porter'[w] # Free PROVE PorterFine(w)'
  BY DEF PortersFine
<1>1. porter'[w] = porter[w] /\ porter[w] \in PorterPlan /\ PorterFine(w)
  BY DEF PortersKept, LoansInv, LoansTypeOK, PortersFine
<1>2. PICK p \in PorterPlan : p = porter[w]
  BY <1>1
<1>3. p.op = "return" => ReturnFine(p)'
  BY <1>1, <1>2, ReturnStays DEF LoansInv, PorterFine
<1>4. p.op = "adjust" => AdjustFine(p)
  BY <1>1, <1>2 DEF PorterFine
<1>5. p.op = "link" => item'[p.item].life # "none"
  BY <1>1, <1>2, PorterFields DEF PorterFine, VersionsTell
<1> QED BY <1>1, <1>2, <1>3, <1>4, <1>5 DEF PorterFine, AdjustFine

LEMMA Delivered ==
    ASSUME LoansInv, NEW w \in Porters, NEW op, Delivers(w, op)
    PROVE  /\ porter[w] \in PorterPlan /\ porter[w].op = op /\ PorterFine(w)
           /\ PortersKept /\ porter' \in [Porters -> PorterPlan \cup {Free}]
<1>1. porter \in [Porters -> PorterPlan \cup {Free}]
  BY DEF LoansInv, LoansTypeOK
<1> QED BY <1>1 DEF Delivers, LoansInv, PortersFine, PortersKept

-----------------------------------------------------------------------------
(* Copies *)

(* d copies more on a shelf and d fewer on the items *)
LEMMA Moved ==
    ASSUME LoansInv, NEW p \in Places, NEW seen \in ShelfType, NEW d \in Int, Move(p, seen, d),
           UNCHANGED promised, LinesFine', Sum(Outs', Items) = Sum(Outs, Items) - d
    PROVE  shelf' \in [Places -> ShelfType] /\ shelfLines' \in [Places -> Int] /\ LedgerFine'
<1>1. /\ shelf[p] = seen /\ (d < 0 => seen.qty + d >= promised[p])
      /\ shelf' = [shelf EXCEPT ![p] = Shelf(seen.qty + d, seen.ver + 1)]
      /\ shelfLines' = [shelfLines EXCEPT ![p] = @ + d]
  BY DEF Move, SameShelf
<1>2. /\ shelf \in [Places -> ShelfType] /\ shelfLines \in [Places -> Int]
      /\ LoansTypeOK /\ LedgerFine
  BY DEF LoansInv, LoansTypeOK
<1>3. PICK n \in Nat, v \in Nat : n = seen.qty /\ v = seen.ver
  BY DEF ShelfType
<1>4. n + d \in Nat /\ n = shelf[p].qty /\ promised[p] <= n + d
  <2>1. promised[p] \in Nat /\ promised[p] <= n
    BY <1>1, <1>2, <1>3, LoanRows DEF LedgerFine, ShelvesFine
  <2> QED BY <1>1, <1>3, <2>1
<1>5. PICK row \in ShelfType : row = Shelf(n + d, v + 1) /\ row.qty = n + d
  <2>1. Shelf(n + d, v + 1) \in ShelfType /\ Shelf(n + d, v + 1).qty = n + d
    BY <1>4 DEF Shelf, NoShelf, ShelfType
  <2> QED BY <2>1
<1>6. /\ \A q \in Places : shelf'[q] = IF q = p THEN row ELSE shelf[q]
      /\ \A q \in Places : shelfLines'[q] = IF q = p THEN shelfLines[q] + d ELSE shelfLines[q]
      /\ shelf' \in [Places -> ShelfType]
  BY <1>1, <1>2, <1>3, <1>5
<1>7. shelfLines' \in [Places -> Int]
  <2>1. shelfLines[p] + d \in Int
    BY <1>2
  <2> QED BY <1>1, <1>2, <2>1
<1>8. ShelvesFine'
  <2> SUFFICES ASSUME NEW q \in Places
               PROVE  shelfLines'[q] = shelf'[q].qty /\ promised'[q] <= shelf'[q].qty
    BY DEF ShelvesFine
  <2>1. shelfLines[q] = shelf[q].qty /\ promised[q] <= shelf[q].qty
    BY <1>2 DEF LedgerFine, ShelvesFine
  <2>2. CASE q = p
    BY <2>1, <2>2, <1>4, <1>5, <1>6
  <2>3. CASE q # p
    BY <2>1, <2>3, <1>6
  <2> QED BY <2>2, <2>3
<1>9. Sum(Qtys', Places) = Sum(Qtys, Places) + d
  <2>1. \A q \in Places : Qtys[q] = shelf[q].qty /\ Qtys'[q] = shelf'[q].qty
    BY DEF Qtys
  <2>2. \A q \in Places : Qtys[q] \in Int /\ Qtys'[q] \in Int
    BY <2>1, <1>4, <1>5, <1>6, <1>2, LoanRows
  <2>3. \A q \in Places : q # p => Qtys[q] = Qtys'[q]
    BY <2>1, <1>6
  <2>4. Sum(Qtys', Places) = Sum(Qtys, Places) + (Qtys'[p] - Qtys[p])
    BY <2>2, <2>3, PlacesFinite, SumChange
  <2>5. Qtys[p] = n /\ Qtys'[p] = n + d
    BY <2>1, <1>4, <1>5, <1>6
  <2>6. (n + d) - n = d
    OBVIOUS
  <2> QED BY <2>4, <2>5, <2>6
<1>10. CopiesKept'
  <2>1. Sum(Qtys, Places) + Sum(Outs, Items) = Copies
    BY <1>2 DEF LedgerFine, CopiesKept
  <2>2. Sum(Qtys, Places) \in Int
    <3>1. \A q \in Places : Qtys[q] \in Int
      BY <1>2, LoanRows DEF Qtys
    <3> QED BY <3>1, PlacesFinite, SumIsInt
  <2>3. Sum(Outs, Items) \in Int
    <3>1. \A i \in Items : Outs[i] \in Int
      BY <1>2, OutIsInt DEF Outs
    <3> QED BY <3>1, PlacesFinite, SumIsInt
  <2>4. Sum(Qtys', Places) + Sum(Outs', Items) = Copies
    BY <1>9, <2>1, <2>2, <2>3
  <2> QED BY <2>4 DEF CopiesKept
<1> QED BY <1>6, <1>7, <1>8, <1>10 DEF LedgerFine

(* one item written: what is out on it changes, and its lines say so *)
LEMMA OneItem ==
    ASSUME LoansInv, NEW i \in Items, NEW row \in ItemType, NEW d \in Int,
           item' = [item EXCEPT ![i] = row], itemLines' = [itemLines EXCEPT ![i] = @ + d],
           Owed(row) = Out(i) - d
    PROVE  /\ item' \in [Items -> ItemType] /\ itemLines' \in [Items -> Int] /\ LinesFine'
           /\ Sum(Outs', Items) = Sum(Outs, Items) - d
           /\ \A j \in Items : item'[j] = IF j = i THEN row ELSE item[j]
           /\ \A j \in Items : j # i => Out(j)' = Out(j)
           /\ Out(i)' = Owed(row)
<1>1. /\ item \in [Items -> ItemType] /\ itemLines \in [Items -> Int] /\ LoansTypeOK /\ LinesFine
  BY DEF LoansInv, LoansTypeOK, LedgerFine
<1>2. /\ \A j \in Items : item'[j] = IF j = i THEN row ELSE item[j]
      /\ \A j \in Items : itemLines'[j] = IF j = i THEN itemLines[j] + d ELSE itemLines[j]
      /\ item' \in [Items -> ItemType]
  BY <1>1
<1>3. itemLines' \in [Items -> Int]
  <2>1. itemLines[i] + d \in Int
    BY <1>1
  <2> QED BY <1>1, <2>1
<1>4. (\A j \in Items : j # i => Out(j)' = Out(j)) /\ Out(i)' = Owed(row)
  BY <1>2 DEF Out, Owed
<1>5. \A j \in Items : Out(j) \in Int /\ Out(j)' \in Int
  <2>1. \A j \in Items : Out(j) \in Int
    BY <1>1, OutIsInt
  <2>2. Out(i) - d \in Int
    BY <2>1
  <2> QED BY <1>4, <2>1, <2>2
<1>6. LinesFine'
  <2> SUFFICES ASSUME NEW j \in Items PROVE itemLines'[j] = -Out(j)'
    BY DEF LinesFine
  <2>1. itemLines[j] = -Out(j)
    BY <1>1 DEF LinesFine
  <2>2. CASE j # i
    BY <2>1, <2>2, <1>2, <1>4
  <2>3. CASE j = i
    <3>1. itemLines'[i] = -Out(i) + d
      BY <2>1, <2>3, <1>2
    <3>2. Out(i)' = Out(i) - d
      BY <1>4
    <3> QED BY <2>3, <3>1, <3>2, <1>5
  <2> QED BY <2>2, <2>3
<1>7. Sum(Outs', Items) = Sum(Outs, Items) - d
  <2>1. \A j \in Items : Outs[j] = Out(j) /\ Outs'[j] = Out(j)'
    BY DEF Outs
  <2>2. \A j \in Items : Outs[j] \in Int /\ Outs'[j] \in Int
    BY <2>1, <1>5
  <2>3. \A j \in Items : j # i => Outs[j] = Outs'[j]
    BY <2>1, <1>4
  <2>4. Sum(Outs', Items) = Sum(Outs, Items) + (Outs'[i] - Outs[i])
    BY <2>2, <2>3, PlacesFinite, SumChange
  <2>5. Outs'[i] = Out(i) - d /\ Outs[i] = Out(i)
    BY <2>1, <1>4
  <2>6. Sum(Outs, Items) \in Int
    BY <2>2, PlacesFinite, SumIsInt
  <2> QED BY <2>4, <2>5, <2>6, <1>5
<1> QED BY <1>2, <1>3, <1>4, <1>6, <1>7

-----------------------------------------------------------------------------
(* Statements and items *)

LEMMA Concluded ==
    ASSUME LoansInv, LoansTypeOK', LedgerFine', RecordsFine', VersionsTell, PortersKept
    PROVE  LoansInv'
BY PortersStay DEF LoansInv

LEMMA Unborn ==
    ASSUME LoansInv, NEW i \in Items, item[i].life = "none"
    PROVE  /\ item[i].of = NoLoan /\ item[i].line = NoLine /\ NoLoan \notin Statements
           /\ NoLine \notin Items /\ Out(i) = 0
           /\ \A j \in Items : item[j].line # i
<1>1. item[i] = NoItem
  BY DEF LoansInv, RecordsFine, ItemsFine, ItemFine
<1>2. item[i].of = NoLoan /\ item[i].line = NoLine
  BY <1>1 DEF NoItem
<1>3. NoLoan \notin Statements /\ NoLine \notin Items
  BY LoanValues
<1>4. ASSUME NEW j \in Items, item[j].line = i PROVE FALSE
  <2>1. item[j].life # "none"
    BY <1>3, <1>4 DEF LoansInv, RecordsFine, ItemsFine, ItemFine, NoItem
  <2>2. Linked(j)
    BY <1>3, <1>4 DEF Linked
  <2>3. item[j].of \in Statements /\ item[i].of = item[j].of
    BY <1>4, <2>1, <2>2 DEF LoansInv, RecordsFine, ItemsFine, ItemFine
  <2> QED BY <1>2, <1>3, <2>3
<1> QED BY <1>2, <1>3, <1>4 DEF Out

LEMMA Raised ==
    ASSUME LoansInv, NEW l \in Statements, Bump(l)
    PROVE  /\ statement' \in [Statements -> StatementType]
           /\ \A m \in Statements : m # l => statement'[m] = statement[m]
           /\ statement'[l].status = statement[l].status /\ statement'[l].of = statement[l].of
           /\ statement'[l].ver = statement[l].ver + 1 /\ statement[l].ver \in Nat
<1>1. statement \in [Statements -> StatementType]
  BY DEF LoansInv, LoansTypeOK
<1>2. statement'[l] = [statement[l] EXCEPT !.ver = @ + 1]
      /\ \A m \in Statements : m # l => statement'[m] = statement[m]
  BY <1>1 DEF Bump
<1>3. statement[l] \in StatementType /\ statement[l].ver \in Nat
  BY <1>1 DEF StatementType
<1>4. [statement[l] EXCEPT !.ver = @ + 1] \in StatementType
  BY <1>3 DEF StatementType
<1>5. statement' \in [Statements -> StatementType]
  BY <1>1, <1>4 DEF Bump
<1> QED BY <1>2, <1>3, <1>5 DEF StatementType

(* an item of an open statement of an active class corrected or linked *)
LEMMA Corrected ==
    ASSUME LoansInv, NEW l \in Statements, NEW i \in Items, NEW row \in ItemType,
           statement[l].status = "open", Active(statement[l].of), UNCHANGED pupils, Bump(l),
           \A j \in Items : item'[j] = IF j = i THEN row ELSE item[j],
           item[i].life # "none", item[i].of = l, row.life # "none", row.of = l,
           row.returned <= row.issued,
           row.line = item[i].line \/ row.line \in FreeLines(l)
    PROVE  RecordsFine' /\ VersionsTell /\ FrozenStep
<1>1. /\ \A m \in Statements : m # l => statement'[m] = statement[m]
      /\ statement'[l].status = "open" /\ statement'[l].of = statement[l].of
      /\ statement[l].ver \in Nat /\ statement'[l].ver = statement[l].ver + 1
  BY Raised
<1>2. StatementsOwned' /\ OneOpen'
  <2>1. \A m \in Statements : statement'[m].status = statement[m].status
                              /\ statement'[m].of = statement[m].of
    BY <1>1
  <2> QED BY <2>1 DEF LoansInv, RecordsFine, StatementsOwned, OneOpen
<1>3. \A j \in Items : item'[j].of = item[j].of
  BY DEF LoansInv
<1>4. LoansTypeOK /\ \A j \in Items : ItemFine(j)
  BY DEF LoansInv, RecordsFine, ItemsFine
<1>5. ItemsFine'
  <2> SUFFICES ASSUME NEW j \in Items PROVE ItemFine(j)'
    BY DEF ItemsFine
  <2>1. CASE j = i
    <3>1. item'[i] = row
      OBVIOUS
    <3>2. row.line # NoLine => row.line \in Items /\ item[row.line].of = l
      BY <1>4 DEF ItemFine, FreeLines, Linked
    <3> QED BY <2>1, <3>1, <3>2, <1>1, <1>3 DEF ItemFine, Linked
  <2>2. CASE j # i /\ item[j].life = "none"
    BY <2>2, <1>4 DEF ItemFine
  <2>3. CASE j # i /\ item[j].life # "none"
    <3>1. item'[j] = item[j] /\ ItemFine(j)
      BY <2>3, <1>4
    <3>2. /\ item[j].of \in Statements /\ statement[item[j].of].status # "none"
          /\ item[j].returned <= item[j].issued
          /\ statement[item[j].of].status = "closed" => Out(j) = 0
          /\ Linked(j) => item[j].line \in Items /\ item[item[j].line].of = item[j].of
      BY <2>3, <3>1 DEF ItemFine
    <3>3. statement'[item[j].of].status = statement[item[j].of].status
      BY <3>2, <1>1
    <3>4. Out(j)' = Out(j)
      BY <3>1 DEF Out
    <3>5. Linked(j)' => item[j].line \in Items /\ item'[item[j].line].of = item[j].of
      BY <3>1, <3>2, <1>3 DEF Linked
    <3> QED BY <2>3, <3>1, <3>2, <3>3, <3>4, <3>5 DEF ItemFine
  <2> QED BY <2>1, <2>2, <2>3
<1>6. LinksFine'
  <2>1. \A j \in Items : item[j].line # NoLine => \A k \in Items : item[k].line = item[j].line => j = k
    BY DEF LoansInv, RecordsFine, LinksFine, Linked
  <2>2. row.line # item[i].line => \A j \in Items : item[j].line # row.line
    BY DEF FreeLines
  <2> QED BY <2>1, <2>2 DEF LinksFine, Linked
<1>7. DebtorsActive'
  <2> SUFFICES ASSUME NEW m \in Statements, NEW j \in Items, statement'[m].status = "open",
                      item'[j].of = m, Out(j)' > 0
               PROVE  Active(statement[m].of)
    BY <1>1 DEF DebtorsActive, Active
  <2>1. CASE m = l
    BY <2>1
  <2>2. CASE m # l
    <3>1. j # i /\ item'[j] = item[j] /\ statement[m].status = "open"
      BY <2>2, <1>1
    <3>2. Out(j)' = Out(j)
      BY <3>1 DEF Out
    <3> QED BY <3>1, <3>2 DEF LoansInv, RecordsFine, DebtorsActive
  <2> QED BY <2>1, <2>2
<1>8. VersionsTell
  <2>1. \A m \in Statements : statement[m].status # "none" =>
          /\ statement'[m].status # "none" /\ statement'[m].of = statement[m].of
          /\ statement[m].ver <= statement'[m].ver
    <3>1. \A m \in Statements : statement[m].ver \in Nat
      BY <1>4, LoanRows
    <3> QED BY <1>1, <3>1
  <2>2. ASSUME NEW m \in Statements, statement'[m].ver = statement[m].ver
        PROVE  statement'[m] = statement[m]
               /\ \A j \in Items : item[j].of = m \/ item'[j].of = m => item'[j] = item[j]
    <3>1. m # l
      BY <2>2, <1>1
    <3> QED BY <3>1, <1>1, <1>3
  <2> QED BY <2>1, <2>2 DEF VersionsTell
<1>9. FrozenStep
  BY <1>1, <1>3 DEF FrozenStep
<1> QED BY <1>2, <1>5, <1>6, <1>7, <1>8, <1>9 DEF RecordsFine

LEMMA CommitAdjustKeeps ==
    ASSUME LoansInv, NEW w \in Porters, CommitAdjust(w)
    PROVE  LoansInv' /\ FrozenStep
<1> DEFINE p == porter[w]
<1>1. /\ p \in PorterPlan /\ p.op = "adjust" /\ PorterFine(w)
      /\ PortersKept /\ porter' \in [Porters -> PorterPlan \cup {Free}]
  BY Delivered DEF CommitAdjust
<1>2. PICK i \in Items, row \in ItemType, next \in ItemType, v \in Nat, seen \in ShelfType :
        i = p.item /\ row = p.row /\ next = p.next /\ v = p.loanVer /\ seen = p.seen
  BY <1>1, PorterFields
<1>3. /\ row.life # "none" /\ next.life # "none" /\ row.returned <= next.issued
      /\ next.of = row.of /\ next.from = row.from
      /\ next.line = row.line /\ next.returned = row.returned
  BY <1>1, <1>2 DEF PorterFine, AdjustFine
<1> DEFINE l == row.of  d == Owed(row) - Owed(next)
<1>4. /\ SameStatement(l, v) /\ ClassStillActive(l) /\ item[i] = row
      /\ item' = [item EXCEPT ![i] = next]
      /\ itemLines' = [itemLines EXCEPT ![i] = @ + d]
      /\ IF d = 0 THEN UNCHANGED <<shelf, shelfLines>> ELSE Move(row.from, seen, d)
      /\ Bump(l) /\ UNCHANGED <<pupils, room, promised>>
  BY <1>2 DEF CommitAdjust, SameItem
<1>5. LoansTypeOK /\ l \in Statements /\ row.from \in Places
  BY <1>3, <1>4, LoanRows DEF LoansInv, RecordsFine, ItemsFine, ItemFine
<1>6. Owed(row) = Out(i) /\ Owed(row) \in Int /\ Owed(next) \in Int
  <2>1. row.issued \in Nat /\ row.returned \in Nat /\ next.issued \in Nat /\ next.returned \in Nat
    BY DEF ItemType
  <2> QED BY <2>1, <1>4 DEF Owed, Out
<1>7. d \in Int /\ Owed(next) = Out(i) - d
  BY <1>6
<1> HIDE DEF p, d
<1>8. /\ item' \in [Items -> ItemType] /\ itemLines' \in [Items -> Int] /\ LinesFine'
      /\ Sum(Outs', Items) = Sum(Outs, Items) - d
      /\ \A j \in Items : item'[j] = IF j = i THEN next ELSE item[j]
  BY <1>4, <1>7, OneItem
<1>9. shelf' \in [Places -> ShelfType] /\ shelfLines' \in [Places -> Int] /\ LedgerFine'
  <2>1. CASE d # 0
    BY <2>1, <1>4, <1>5, <1>7, <1>8, Moved
  <2>2. CASE d = 0
    <3>1. UNCHANGED <<shelf, shelfLines, promised>> /\ Qtys' = Qtys
      BY <2>2, <1>4 DEF Qtys
    <3>2. Sum(Outs, Items) \in Int
      <4>1. \A j \in Items : Outs[j] \in Int
        BY <1>5, OutIsInt DEF Outs
      <4> QED BY <4>1, PlacesFinite, SumIsInt
    <3>3. Sum(Outs', Items) = Sum(Outs, Items)
      BY <2>2, <1>8, <3>2
    <3>4. ShelvesFine' /\ CopiesKept'
      BY <3>1, <3>3 DEF LoansInv, LedgerFine, ShelvesFine, CopiesKept
    <3> QED BY <3>1, <3>4, <1>8 DEF LoansInv, LoansTypeOK, LedgerFine
  <2> QED BY <2>1, <2>2
<1>10. statement' \in [Statements -> StatementType]
  BY <1>4, <1>5, Raised
<1>11. LoansTypeOK'
  BY <1>1, <1>4, <1>5, <1>8, <1>9, <1>10 DEF LoansTypeOK
<1>12. RecordsFine' /\ VersionsTell /\ FrozenStep
  <2>1. statement[l].status = "open" /\ Active(statement[l].of)
    BY <1>4 DEF SameStatement, ClassStillActive
  <2>2. next.returned <= next.issued /\ next.line = item[i].line
    BY <1>3, <1>4
  <2> HIDE DEF l
  <2>3. item[i].of = l /\ next.of = l /\ item[i].life # "none"
    BY <1>3, <1>4 DEF l
  <2> QED BY <1>3, <1>4, <1>5, <1>8, <2>1, <2>2, <2>3, Corrected
<1> QED BY <1>1, <1>9, <1>11, <1>12, Concluded

LEMMA CommitLinkKeeps ==
    ASSUME LoansInv, NEW w \in Porters, CommitLink(w)
    PROVE  LoansInv' /\ FrozenStep
<1> DEFINE p == porter[w]
<1>1. /\ p \in PorterPlan /\ p.op = "link" /\ PorterFine(w)
      /\ PortersKept /\ porter' \in [Porters -> PorterPlan \cup {Free}]
  BY Delivered DEF CommitLink
<1>2. PICK i \in Items, x \in Items, v \in Nat : i = p.item /\ x = p.line /\ v = p.loanVer
  BY <1>1, PorterFields
<1>3. item[i].life # "none"
  BY <1>1, <1>2 DEF PorterFine
<1>4. PICK l \in Statements : l = item[i].of
  BY <1>3 DEF LoansInv, RecordsFine, ItemsFine, ItemFine
<1>5. /\ SameStatement(l, v) /\ ClassStillActive(l) /\ ~Linked(i) /\ x \in FreeLines(l)
      /\ item' = [item EXCEPT ![i].line = x] /\ Bump(l)
      /\ UNCHANGED <<pupils, room, shelf, promised, shelfLines, itemLines>>
  BY <1>2, <1>4 DEF CommitLink, StillUnlinked
<1> HIDE DEF p
<1>6. LoansTypeOK /\ item \in [Items -> ItemType] /\ item[i] \in ItemType
  BY DEF LoansInv, LoansTypeOK
<1>7. PICK row \in ItemType : /\ row = [item[i] EXCEPT !.line = x] /\ row.line = x
                              /\ row.life = item[i].life /\ row.of = item[i].of
                              /\ row.issued = item[i].issued /\ row.returned = item[i].returned
  <2>1. [item[i] EXCEPT !.line = x] \in ItemType
    BY <1>6 DEF ItemType
  <2> QED BY <2>1, <1>6 DEF ItemType
<1>8. item' = [item EXCEPT ![i] = row]
  BY <1>5, <1>6, <1>7
<1>9. (\A j \in Items : item'[j] = IF j = i THEN row ELSE item[j]) /\ item' \in [Items -> ItemType]
  BY <1>6, <1>8
<1>10. \A j \in Items : Out(j)' = Out(j)
  BY <1>7, <1>9 DEF Out
<1>11. LedgerFine'
  <2>1. Outs' = Outs /\ Qtys' = Qtys
    BY <1>5, <1>10 DEF Outs, Qtys
  <2> QED BY <2>1, <1>5, <1>10 DEF LoansInv, LedgerFine, ShelvesFine, LinesFine, CopiesKept
<1>12. statement' \in [Statements -> StatementType]
  BY <1>5, Raised
<1>13. LoansTypeOK'
  BY <1>1, <1>5, <1>6, <1>9, <1>12 DEF LoansTypeOK
<1>14. RecordsFine' /\ VersionsTell /\ FrozenStep
  <2>1. statement[l].status = "open" /\ Active(statement[l].of)
    BY <1>5 DEF SameStatement, ClassStillActive
  <2>2. row.returned <= row.issued
    BY <1>3, <1>7 DEF LoansInv, RecordsFine, ItemsFine, ItemFine
  <2>3. item[i].of = l /\ row.of = l /\ row.life # "none" /\ row.line \in FreeLines(l)
    BY <1>3, <1>4, <1>5, <1>7
  <2>4. UNCHANGED pupils /\ Bump(l) /\ \A j \in Items : item'[j] = IF j = i THEN row ELSE item[j]
    BY <1>5, <1>9
  <2> QED BY <1>3, <2>1, <2>2, <2>3, <2>4, Corrected
<1> QED BY <1>1, <1>11, <1>13, <1>14, Concluded

(* copies of a statement brought back: some item's returns grow, by no     *)
(* more than is out on it                                                  *)
BroughtBack(l, back) ==
    /\ \A i \in Items : back[i] > 0 => i \in ItemsOf(l) /\ back[i] <= Out(i)
    /\ \A i \in Items : item'[i] = [item[i] EXCEPT !.returned = @ + back[i]]

LEMMA BackRows ==
    ASSUME LoansInv, NEW l \in Statements, NEW back \in [Items -> Nat], BroughtBack(l, back)
    PROVE  \A i \in Items :
             /\ item'[i] \in ItemType /\ item'[i].life = item[i].life /\ item'[i].of = item[i].of
             /\ item'[i].line = item[i].line /\ item'[i].issued = item[i].issued
             /\ Out(i)' = Out(i) - back[i]
             /\ back[i] = 0 => item'[i] = item[i]
             /\ item'[i].life # "none" => item'[i].returned <= item'[i].issued
             /\ item[i].of # l => item'[i] = item[i]
             /\ Out(i) \in Nat /\ Out(i)' <= Out(i)
<1> SUFFICES ASSUME NEW i \in Items
    PROVE  /\ item'[i] \in ItemType /\ item'[i].life = item[i].life /\ item'[i].of = item[i].of
           /\ item'[i].line = item[i].line /\ item'[i].issued = item[i].issued
           /\ Out(i)' = Out(i) - back[i]
           /\ back[i] = 0 => item'[i] = item[i]
           /\ item'[i].life # "none" => item'[i].returned <= item'[i].issued
           /\ item[i].of # l => item'[i] = item[i]
           /\ Out(i) \in Nat /\ Out(i)' <= Out(i)
  OBVIOUS
<1>1. item[i] \in ItemType /\ Out(i) \in Nat
  BY LoanRows, OutIsNat DEF LoansInv, RecordsFine
<1>2. PICK n \in Nat : n = back[i]
  OBVIOUS
<1>3. item'[i] = [item[i] EXCEPT !.returned = @ + n]
  BY <1>2 DEF BroughtBack
<1>4. PICK r \in Nat, m \in Nat : r = item[i].returned /\ m = item[i].issued
  BY <1>1 DEF ItemType
<1>5. /\ item'[i] \in ItemType /\ item'[i].life = item[i].life /\ item'[i].of = item[i].of
      /\ item'[i].line = item[i].line /\ item'[i].issued = m /\ item'[i].returned = r + n
      /\ n = 0 => item'[i] = item[i]
  BY <1>1, <1>3, <1>4 DEF ItemType
<1>6. n > 0 => item[i].of = l /\ item[i].life = "active" /\ n <= Out(i)
  BY <1>2 DEF BroughtBack, ItemsOf
<1>7. Out(i) = IF item[i].life = "active" THEN m - r ELSE 0
  BY <1>4 DEF Out
<1>8. Out(i)' = IF item[i].life = "active" THEN m - (r + n) ELSE 0
  BY <1>5 DEF Out
<1>9. Out(i)' = Out(i) - n
  BY <1>6, <1>7, <1>8
<1>10. item[i].life # "none" => r <= m
  BY <1>4 DEF LoansInv, RecordsFine, ItemsFine, ItemFine
<1>11. item[i].life # "none" => r + n <= m
  BY <1>6, <1>7, <1>10
<1> QED BY <1>1, <1>2, <1>4, <1>5, <1>6, <1>9, <1>11

LEMMA BackRecords ==
    ASSUME LoansInv, NEW l \in Statements, NEW back \in [Items -> Nat], NEW s \in {"open", "closed"},
           BroughtBack(l, back), \E i \in Items : back[i] > 0, UNCHANGED pupils,
           statement[l].status = "open",
           s = "closed" => \A i \in ItemsOf(l) : Out(i) = back[i],
           statement'[l].status = s, statement'[l].of = statement[l].of,
           statement'[l].ver = statement[l].ver + 1,
           \A m \in Statements : m # l => statement'[m] = statement[m]
    PROVE  RecordsFine' /\ VersionsTell /\ FrozenStep
<1> DEFINE Row(i) ==
             /\ item'[i].life = item[i].life /\ item'[i].of = item[i].of
             /\ item'[i].line = item[i].line
             /\ Out(i)' = Out(i) - back[i] /\ back[i] \in Nat
             /\ item'[i].life # "none" => item'[i].returned <= item'[i].issued
             /\ item[i].of # l => item'[i] = item[i]
             /\ Out(i) \in Nat /\ Out(i)' <= Out(i)
<1>1. \A i \in Items : Row(i)
  BY BackRows
<1>2. /\ StatementsOwned /\ OneOpen /\ LinksFine /\ DebtorsActive
      /\ \A i \in Items : ItemFine(i)
      /\ \A m \in Statements : statement[m].ver \in Nat
  BY LoanRows DEF LoansInv, RecordsFine, ItemsFine
<1>3. \A m \in Statements : /\ statement'[m].of = statement[m].of
                            /\ statement'[m].status # "none" <=> statement[m].status # "none"
                            /\ statement'[m].status = "open" => statement[m].status = "open"
  OBVIOUS
<1>4. StatementsOwned' /\ OneOpen'
  BY <1>2, <1>3 DEF StatementsOwned, OneOpen
<1>5. ItemsFine'
  <2> SUFFICES ASSUME NEW i \in Items PROVE ItemFine(i)'
    BY DEF ItemsFine
  <2>1. Row(i) /\ ItemFine(i)
    BY <1>1, <1>2
  <2>2. CASE item[i].life = "none"
    <3>1. item[i].of # l
      BY <2>2, Unborn
    <3> QED BY <2>1, <2>2, <3>1 DEF ItemFine
  <2>3. CASE item[i].life # "none"
    <3>1. /\ item[i].of \in Statements /\ statement[item[i].of].status # "none"
          /\ statement[item[i].of].status = "closed" => Out(i) = 0
          /\ Linked(i) => item[i].line \in Items /\ item[item[i].line].of = item[i].of
      BY <2>1, <2>3 DEF ItemFine
    <3>2. statement'[item[i].of].status # "none"
      BY <1>3, <3>1
    <3>3. ASSUME statement'[item[i].of].status = "closed" PROVE Out(i)' = 0
      <4>1. CASE item[i].of = l
        <5>1. Out(i) = back[i] \/ (Out(i) = 0 /\ item[i].life # "active")
          BY <3>3, <4>1 DEF ItemsOf, Out
        <5>2. item[i].life # "active" => Out(i)' = 0
          BY <2>1 DEF Out
        <5> QED BY <2>1, <5>1, <5>2
      <4>2. CASE item[i].of # l
        <5>1. Out(i) = 0
          BY <3>1, <3>3, <4>2
        <5>2. item'[i] = item[i]
          BY <2>1, <4>2
        <5> QED BY <5>1, <5>2 DEF Out
      <4> QED BY <4>1, <4>2
    <3>4. Linked(i)' => item'[i].line \in Items /\ item'[item'[i].line].of = item'[i].of
      BY <1>1, <2>1, <3>1 DEF Linked
    <3> QED BY <2>1, <2>3, <3>1, <3>2, <3>3, <3>4 DEF ItemFine
  <2> QED BY <2>2, <2>3
<1>6. LinksFine'
  BY <1>1, <1>2 DEF LinksFine, Linked
<1>7. DebtorsActive'
  <2> SUFFICES ASSUME NEW m \in Statements, NEW i \in Items, statement'[m].status = "open",
                      item'[i].of = m, Out(i)' > 0
               PROVE  Active(statement[m].of)
    BY <1>3 DEF DebtorsActive, Active
  <2>1. statement[m].status = "open" /\ item[i].of = m
    BY <1>1, <1>3
  <2>2. Out(i) > 0
    BY <1>1
  <2> QED BY <1>2, <2>1, <2>2 DEF DebtorsActive
<1>8. VersionsTell
  <2>1. \A m \in Statements : statement[m].ver <= statement'[m].ver
    BY <1>2
  <2>2. ASSUME NEW m \in Statements, statement'[m].ver = statement[m].ver
        PROVE  statement'[m] = statement[m]
               /\ \A i \in Items : item[i].of = m \/ item'[i].of = m => item'[i] = item[i]
    <3>1. m # l
      BY <2>2, <1>2
    <3> QED BY <3>1, <1>1
  <2>3. \A i \in Items : item[i].life # "none" => item'[i].life # "none"
    BY <1>1
  <2> HIDE DEF Row
  <2> QED BY <1>3, <2>1, <2>2, <2>3 DEF VersionsTell
<1>9. FrozenStep
  <2> SUFFICES ASSUME NEW m \in Statements, ~Active(statement[m].of)
               PROVE  statement'[m] = statement[m] /\ \A i \in Items : item[i].of = m => item'[i] = item[i]
    BY DEF FrozenStep
  <2>1. m # l
    <3>1. PICK i \in Items : back[i] > 0
      OBVIOUS
    <3>2. i \in ItemsOf(l) /\ back[i] <= Out(i) /\ Out(i) \in Nat
      BY <1>1, <3>1 DEF BroughtBack
    <3>3. Out(i) > 0 /\ item[i].of = l
      BY <3>1, <3>2, <1>1 DEF ItemsOf
    <3> QED BY <1>2, <3>3 DEF DebtorsActive
  <2> QED BY <1>1, <2>1
<1> QED BY <1>4, <1>5, <1>6, <1>7, <1>8, <1>9 DEF RecordsFine

LEMMA CommitReturnKeeps ==
    ASSUME LoansInv, NEW w \in Porters, CommitReturn(w)
    PROVE  LoansInv' /\ FrozenStep
<1> DEFINE p == porter[w]
<1>1. /\ p \in PorterPlan /\ p.op = "return" /\ PorterFine(w)
      /\ PortersKept /\ porter' \in [Porters -> PorterPlan \cup {Free}]
  BY Delivered DEF CommitReturn
<1>2. PICK l \in Statements, v \in Nat, back \in [Items -> Nat], q \in Places, seen \in ShelfType :
        l = p.loan /\ v = p.loanVer /\ back = p.back /\ q = p.place /\ seen = p.seen
  BY <1>1, PorterFields
<1>3. PICK s \in {"open", "closed"} : s = IF p.closes THEN "closed" ELSE "open"
  OBVIOUS
<1>4. /\ \E i \in Items : back[i] > 0
      /\ SameStatement(l, v) /\ p.closes => \A i \in ItemsOf(l) : Out(i) = back[i]
  BY <1>1, <1>2 DEF PorterFine, ReturnFine
<1>5. /\ SameStatement(l, v)
      /\ \A i \in Items : back[i] > 0 => i \in ItemsOf(l) /\ back[i] <= Out(i)
      /\ item' = [i \in Items |-> [item[i] EXCEPT !.returned = @ + back[i]]]
      /\ itemLines' = [i \in Items |-> itemLines[i] + back[i]]
      /\ Move(q, seen, SumFunction(back))
      /\ statement' = [statement EXCEPT ![l] = [status |-> s, of |-> statement[l].of, ver |-> v + 1]]
      /\ UNCHANGED <<pupils, room, promised>>
  BY <1>2, <1>3 DEF CommitReturn
<1>6. s = "closed" => \A i \in ItemsOf(l) : Out(i) = back[i]
  BY <1>3, <1>4, <1>5
<1> HIDE DEF p
<1>7. BroughtBack(l, back)
  BY <1>5 DEF BroughtBack
<1>8. \A i \in Items : /\ item'[i] \in ItemType /\ Out(i)' = Out(i) - back[i]
                       /\ Out(i) \in Nat /\ back[i] \in Nat
  BY <1>7, BackRows
<1>9. LoansTypeOK /\ statement \in [Statements -> StatementType]
      /\ \A i \in Items : itemLines[i] \in Int
  BY DEF LoansInv, LoansTypeOK
<1>10. item' \in [Items -> ItemType] /\ itemLines' \in [Items -> Int]
  <2>1. item' = [i \in Items |-> item'[i]] /\ \A i \in Items : item'[i] \in ItemType
    BY <1>5, <1>8
  <2>2. \A i \in Items : itemLines[i] + back[i] \in Int
    BY <1>9
  <2> QED BY <1>5, <2>1, <2>2
<1>11. LinesFine'
  <2> SUFFICES ASSUME NEW i \in Items PROVE itemLines'[i] = -Out(i)'
    BY DEF LinesFine
  <2>1. itemLines[i] = -Out(i)
    BY DEF LoansInv, LedgerFine, LinesFine
  <2>2. itemLines'[i] = itemLines[i] + back[i]
    BY <1>5
  <2> QED BY <2>1, <2>2, <1>8
<1>12. PICK d \in Nat : d = SumFunction(back) /\ d = Sum(back, Items)
  <2>1. DOMAIN back = Items
    OBVIOUS
  <2>2. SumFunction(back) = Sum(back, Items)
    BY <2>1 DEF SumFunction, Sum
  <2>3. Sum(back, Items) \in Nat
    BY PlacesFinite, SumIsNat
  <2> QED BY <2>2, <2>3
<1>13. Sum(Outs', Items) = Sum(Outs, Items) - d
  <2>1. \A i \in Items : Outs[i] \in Int /\ back[i] \in Int /\ Outs'[i] = Outs[i] - back[i]
    BY <1>8 DEF Outs
  <2> QED BY <2>1, <1>12, PlacesFinite, SumMinus
<1>14. Move(q, seen, d) /\ d \in Int
  BY <1>5, <1>12
<1>15. shelf' \in [Places -> ShelfType] /\ shelfLines' \in [Places -> Int] /\ LedgerFine'
  BY <1>5, <1>11, <1>13, <1>14, Moved
<1>16. PICK row \in StatementType :
         /\ row = [status |-> s, of |-> statement[l].of, ver |-> v + 1]
         /\ row.status = s /\ row.of = statement[l].of /\ row.ver = v + 1
  <2>1. [status |-> s, of |-> statement[l].of, ver |-> v + 1] \in StatementType
    BY <1>9 DEF StatementType
  <2> QED BY <2>1
<1>17. /\ \A m \in Statements : statement'[m] = IF m = l THEN row ELSE statement[m]
       /\ statement' \in [Statements -> StatementType]
  BY <1>5, <1>9, <1>16
<1>18. LoansTypeOK'
  BY <1>1, <1>5, <1>9, <1>10, <1>15, <1>17 DEF LoansTypeOK
<1>19. RecordsFine' /\ VersionsTell /\ FrozenStep
  <2>1. statement[l].status = "open" /\ statement[l].ver = v
    BY <1>5 DEF SameStatement
  <2>2. /\ statement'[l].status = s /\ statement'[l].of = statement[l].of
        /\ statement'[l].ver = statement[l].ver + 1
        /\ \A m \in Statements : m # l => statement'[m] = statement[m]
    BY <1>16, <1>17, <2>1
  <2> QED BY <1>4, <1>5, <1>6, <1>7, <2>1, <2>2, BackRecords
<1> QED BY <1>1, <1>15, <1>18, <1>19, Concluded

(* a new item put on a statement, its first or one more *)
LEMMA Received ==
    ASSUME LoansInv, NEW l \in Statements, NEW i \in Items, NEW c \in Pupils, NEW v \in Nat,
           NEW row \in ItemType, item[i].life = "none",
           row.life = "active", row.of = l, row.line = i, row.returned = 0,
           Active(c), UNCHANGED pupils,
           \/ statement[l].status = "none" /\ OpenFor(c) = {}
           \/ statement[l].status = "open" /\ statement[l].of = c /\ statement[l].ver = v,
           statement'[l].status = "open", statement'[l].of = c, statement'[l].ver = v + 1,
           \A m \in Statements : m # l => statement'[m] = statement[m],
           \A j \in Items : item'[j] = IF j = i THEN row ELSE item[j]
    PROVE  RecordsFine' /\ VersionsTell /\ FrozenStep
<1>1. /\ item[i].of = NoLoan /\ NoLoan \notin Statements /\ NoLine \notin Items
      /\ \A j \in Items : item[j].line # i
  BY Unborn
<1>2. /\ StatementsOwned /\ OneOpen /\ LinksFine /\ DebtorsActive /\ LoansTypeOK
      /\ \A j \in Items : ItemFine(j)
  BY DEF LoansInv, RecordsFine, ItemsFine
<1>3. StatementsOwned'
  BY <1>2 DEF StatementsOwned
<1>4. OneOpen'
  <2> SUFFICES ASSUME NEW m \in Statements, m # l, statement'[m].status = "open",
                      statement'[m].of = c
               PROVE  FALSE
    BY <1>2 DEF OneOpen
  <2>1. statement[m].status = "open" /\ statement[m].of = c
    OBVIOUS
  <2> QED BY <1>2, <2>1 DEF OneOpen, OpenFor
<1>5. ItemsFine'
  <2> SUFFICES ASSUME NEW j \in Items PROVE ItemFine(j)'
    BY DEF ItemsFine
  <2>1. CASE j = i
    <3>1. row.issued \in Nat /\ row.returned <= row.issued
      BY DEF ItemType
    <3> QED BY <2>1, <3>1, <1>1 DEF ItemFine, Linked
  <2>2. CASE j # i /\ item[j].life = "none"
    BY <2>2, <1>2 DEF ItemFine
  <2>3. CASE j # i /\ item[j].life # "none"
    <3>1. item'[j] = item[j]
      BY <2>3
    <3>2. /\ item[j].of \in Statements /\ statement[item[j].of].status # "none"
          /\ item[j].returned <= item[j].issued
          /\ statement[item[j].of].status = "closed" => Out(j) = 0
          /\ Linked(j) => item[j].line \in Items /\ item[item[j].line].of = item[j].of
      BY <2>3, <1>2 DEF ItemFine
    <3>3. /\ statement'[item[j].of].status # "none"
          /\ statement'[item[j].of].status = "closed" => statement[item[j].of].status = "closed"
      BY <3>2
    <3>4. Out(j)' = Out(j)
      BY <3>1 DEF Out
    <3>5. Linked(j)' => item[j].line \in Items /\ item'[item[j].line].of = item[j].of
      BY <1>1, <3>1, <3>2 DEF Linked
    <3> QED BY <2>3, <3>1, <3>2, <3>3, <3>4, <3>5 DEF ItemFine
  <2> QED BY <2>1, <2>2, <2>3
<1>6. LinksFine'
  BY <1>1, <1>2 DEF LinksFine, Linked
<1>7. DebtorsActive'
  <2> SUFFICES ASSUME NEW m \in Statements, NEW j \in Items, statement'[m].status = "open",
                      item'[j].of = m, Out(j)' > 0
               PROVE  Active(statement'[m].of)
    BY DEF DebtorsActive, Active
  <2>1. CASE m = l
    BY <2>1
  <2>2. CASE m # l
    <3>1. j # i /\ item'[j] = item[j] /\ statement'[m] = statement[m]
      BY <2>2
    <3>2. Out(j)' = Out(j)
      BY <3>1 DEF Out
    <3> QED BY <1>2, <3>1, <3>2 DEF DebtorsActive
  <2> QED BY <2>1, <2>2
<1>8. VersionsTell
  <2>1. \A m \in Statements : statement[m].ver \in Nat
    BY <1>2, LoanRows
  <2>2. ASSUME NEW m \in Statements, statement[m].status # "none"
        PROVE  /\ statement'[m].status # "none" /\ statement'[m].of = statement[m].of
               /\ statement[m].ver <= statement'[m].ver
    BY <2>1, <2>2
  <2>3. ASSUME NEW m \in Statements, statement[m].status # "none", statement'[m].ver = statement[m].ver
        PROVE  statement'[m] = statement[m]
               /\ \A j \in Items : item[j].of = m \/ item'[j].of = m => item'[j] = item[j]
    <3>1. m # l
      BY <2>1, <2>3
    <3> QED BY <3>1, <1>1
  <2>4. \A j \in Items : item[j].life # "none" => item'[j].life # "none"
    OBVIOUS
  <2> QED BY <2>2, <2>3, <2>4 DEF VersionsTell
<1>9. FrozenStep
  <2> SUFFICES ASSUME NEW m \in Statements, statement[m].status # "none", ~Active(statement[m].of)
               PROVE  statement'[m] = statement[m] /\ \A j \in Items : item[j].of = m => item'[j] = item[j]
    BY DEF FrozenStep
  <2>1. m # l
    OBVIOUS
  <2> QED BY <1>1, <2>1
<1> QED BY <1>3, <1>4, <1>5, <1>6, <1>7, <1>8, <1>9 DEF RecordsFine

LEMMA CommitIssueKeeps ==
    ASSUME LoansInv, NEW w \in Porters, CommitIssue(w)
    PROVE  LoansInv' /\ FrozenStep
<1> DEFINE p == porter[w]
<1>1. /\ p \in PorterPlan /\ p.op = "issue"
      /\ PortersKept /\ porter' \in [Porters -> PorterPlan \cup {Free}]
  BY Delivered DEF CommitIssue
<1>2. PICK c \in Pupils, v \in Nat, q \in Places, seen \in ShelfType, n \in Nat :
        c = p.of /\ v = p.loanVer /\ q = p.place /\ seen = p.seen /\ n = p.n
  BY <1>1, PorterFields
<1>3. PICK l \in Statements, i \in Items :
        /\ Receives(p, l) /\ item[i].life = "none"
        /\ statement' = [statement EXCEPT ![l] = [status |-> "open", of |-> c, ver |-> v + 1]]
        /\ item' = [item EXCEPT ![i] =
               [life |-> "active", of |-> l, from |-> q, issued |-> n, returned |-> 0, line |-> i]]
        /\ itemLines' = [itemLines EXCEPT ![i] = @ - n]
  BY <1>2 DEF CommitIssue
<1>4. pupils[c].status = "active" /\ Move(q, seen, -n) /\ UNCHANGED <<pupils, room, promised>>
  BY <1>2 DEF CommitIssue
<1>5. \/ statement[l].status = "none" /\ OpenFor(c) = {}
      \/ statement[l].status = "open" /\ statement[l].of = c /\ statement[l].ver = v
  BY <1>2, <1>3 DEF Receives, NoOtherOpen, SameStatement
<1> HIDE DEF p
<1>6. /\ LoansTypeOK /\ statement \in [Statements -> StatementType]
      /\ itemLines \in [Items -> Int]
  BY DEF LoansInv, LoansTypeOK
<1>7. PICK row \in ItemType :
        /\ row = [life |-> "active", of |-> l, from |-> q, issued |-> n, returned |-> 0, line |-> i]
        /\ row.life = "active" /\ row.of = l /\ row.line = i /\ row.returned = 0 /\ Owed(row) = n
  <2> DEFINE r == [life |-> "active", of |-> l, from |-> q, issued |-> n, returned |-> 0, line |-> i]
  <2>1. r \in ItemType
    BY DEF ItemType
  <2>2. Owed(r) = n - 0
    BY DEF Owed
  <2> QED BY <2>1, <2>2
<1>8. PICK d \in Int : d = -n
  OBVIOUS
<1>9. item' = [item EXCEPT ![i] = row] /\ itemLines' = [itemLines EXCEPT ![i] = @ + d]
  <2>1. itemLines[i] - n = itemLines[i] + d
    BY <1>6, <1>8
  <2> QED BY <1>3, <1>6, <1>7, <2>1
<1>10. Owed(row) = Out(i) - d
  <2>1. Out(i) = 0
    BY <1>3, Unborn
  <2> QED BY <1>7, <1>8, <2>1
<1>11. /\ item' \in [Items -> ItemType] /\ itemLines' \in [Items -> Int] /\ LinesFine'
       /\ Sum(Outs', Items) = Sum(Outs, Items) - d
       /\ \A j \in Items : item'[j] = IF j = i THEN row ELSE item[j]
  BY <1>9, <1>10, OneItem
<1>12. shelf' \in [Places -> ShelfType] /\ shelfLines' \in [Places -> Int] /\ LedgerFine'
  <2>1. Move(q, seen, d)
    BY <1>4, <1>8
  <2> QED BY <1>4, <1>11, <2>1, Moved
<1>13. PICK srow \in StatementType : /\ srow = [status |-> "open", of |-> c, ver |-> v + 1]
                                     /\ srow.status = "open" /\ srow.of = c /\ srow.ver = v + 1
  <2>1. [status |-> "open", of |-> c, ver |-> v + 1] \in StatementType
    BY DEF StatementType
  <2> QED BY <2>1
<1>14. /\ \A m \in Statements : statement'[m] = IF m = l THEN srow ELSE statement[m]
       /\ statement' \in [Statements -> StatementType]
  BY <1>3, <1>6, <1>13
<1>15. LoansTypeOK'
  BY <1>1, <1>4, <1>6, <1>11, <1>12, <1>14 DEF LoansTypeOK
<1>16. RecordsFine' /\ VersionsTell /\ FrozenStep
  <2>1. /\ statement'[l].status = "open" /\ statement'[l].of = c /\ statement'[l].ver = v + 1
        /\ \A m \in Statements : m # l => statement'[m] = statement[m]
    BY <1>13, <1>14
  <2>2. Active(c) /\ UNCHANGED pupils
    BY <1>4 DEF Active
  <2> QED BY <1>3, <1>5, <1>7, <1>11, <2>1, <2>2, Received
<1> QED BY <1>1, <1>12, <1>15, <1>16, Concluded

-----------------------------------------------------------------------------
(* Steps that leave statements and items alone *)

Paper == <<statement, item, itemLines>>

LEMMA PaperKept ==
    ASSUME LoansInv, UNCHANGED Paper,
           \A c \in Pupils : Active(c) => pupils'[c].status = "active"
                             \/ \A l \in Statements, i \in Items :
                                  ~(/\ statement[l].status = "open" /\ statement[l].of = c
                                    /\ item[i].of = l /\ Out(i) > 0)
    PROVE  RecordsFine' /\ VersionsTell /\ FrozenStep
           /\ LinesFine' /\ Sum(Outs', Items) = Sum(Outs, Items)
<1>1. UNCHANGED <<statement, item, itemLines>> /\ LoansTypeOK /\ RecordsFine /\ LinesFine
  BY DEF Paper, LoansInv, LedgerFine
<1>2. \A i \in Items : Out(i)' = Out(i)
  BY <1>1 DEF Out
<1>3. StatementsOwned' /\ OneOpen' /\ ItemsFine' /\ LinksFine'
  BY <1>1, <1>2 DEF RecordsFine, StatementsOwned, OneOpen, ItemsFine, ItemFine, LinksFine, Linked
<1>4. DebtorsActive'
  <2> SUFFICES ASSUME NEW m \in Statements, NEW j \in Items, statement[m].status = "open",
                      item[j].of = m, Out(j) > 0
               PROVE  pupils'[statement[m].of].status = "active"
    BY <1>1, <1>2 DEF DebtorsActive, Active
  <2>1. statement[m].of \in Pupils /\ Active(statement[m].of)
    BY <1>1 DEF RecordsFine, StatementsOwned, DebtorsActive
  <2> QED BY <2>1
<1>5. VersionsTell
  <2>1. \A m \in Statements : statement[m].ver \in Nat
    BY <1>1, LoanRows
  <2> QED BY <1>1, <2>1 DEF VersionsTell
<1>6. FrozenStep
  BY <1>1 DEF FrozenStep
<1>7. LinesFine' /\ Outs' = Outs
  BY <1>1, <1>2 DEF LinesFine, Outs
<1> QED BY <1>3, <1>4, <1>5, <1>6, <1>7 DEF RecordsFine

LEMMA PlanKeeps ==
    ASSUME LoansInv, NEW w \in Porters, NEW p \in PorterPlan, PicksUp(w, p),
           p.op = "return" => ReturnFine(p), p.op = "adjust" => AdjustFine(p),
           p.op = "link" => item[p.item].life # "none"
    PROVE  LoansInv' /\ FrozenStep
<1>1. porter' = [porter EXCEPT ![w] = p] /\ UNCHANGED stockVars
  BY DEF PicksUp
<1>2. UNCHANGED <<pupils, room, shelf, promised, statement, item, shelfLines, itemLines>>
  BY <1>1 DEF stockVars
<1>3. porter \in [Porters -> PorterPlan \cup {Free}]
  BY DEF LoansInv, LoansTypeOK
<1>4. /\ \A u \in Porters : porter'[u] = IF u = w THEN p ELSE porter[u]
      /\ porter' \in [Porters -> PorterPlan \cup {Free}]
  BY <1>1, <1>3
<1>5. LoansTypeOK'
  BY <1>2, <1>4 DEF LoansInv, LoansTypeOK
<1>6. LedgerFine' /\ RecordsFine' /\ FrozenStep
  BY <1>2 DEF LoansInv, LedgerFine, ShelvesFine, LinesFine, CopiesKept, RecordsFine,
     StatementsOwned, OneOpen, ItemsFine, ItemFine, LinksFine, DebtorsActive, Out, Linked, Active,
     Outs, Qtys, FrozenStep
<1>7. PortersFine'
  <2> SUFFICES ASSUME NEW u \in Porters, porter'[u] # Free PROVE PorterFine(u)'
    BY DEF PortersFine
  <2>1. CASE u = w
    <3>1. porter'[u] = p
      BY <2>1, <1>4
    <3> QED BY <3>1, <1>2 DEF PorterFine, ReturnFine, AdjustFine, SameStatement, ItemsOf, Out
  <2>2. CASE u # w
    <3>1. porter'[u] = porter[u] /\ PorterFine(u)
      BY <2>2, <1>4 DEF LoansInv, PortersFine
    <3> QED BY <3>1, <1>2 DEF PorterFine, ReturnFine, AdjustFine, SameStatement, ItemsOf, Out
  <2> QED BY <2>1, <2>2
<1> QED BY <1>5, <1>6, <1>7 DEF LoansInv

LEMMA PlanIssueKeeps ==
    ASSUME LoansInv, NEW w \in Porters, NEW c \in Pupils, NEW q \in Places, NEW n \in 1..MaxMove,
           PlanIssue(w, c, q, n)
    PROVE  LoansInv' /\ FrozenStep
<1>1. PICK l \in Statements \cup {NoLoan} :
        PicksUp(w, [op |-> "issue", of |-> c, pupilsVer |-> pupils[c].ver, loan |-> l,
                    loanVer |-> IF l = NoLoan THEN 0 ELSE statement[l].ver, place |-> q,
                    seen |-> shelf[q], n |-> n])
  BY DEF PlanIssue, OpenFor
<1>2. PICK v \in Nat : v = IF l = NoLoan THEN 0 ELSE statement[l].ver
  BY LoanRows DEF LoansInv
<1>3. pupils[c].ver \in Nat /\ shelf[q] \in ShelfType /\ n \in Nat
  BY LoanBounds DEF LoansInv, LoansTypeOK, PupilsType
<1> DEFINE p == [op |-> "issue", of |-> c, pupilsVer |-> pupils[c].ver, loan |-> l,
                 loanVer |-> v, place |-> q, seen |-> shelf[q], n |-> n]
<1>4. p \in [op : {"issue"}, of : Pupils, pupilsVer : Nat, loan : Statements \cup {NoLoan},
     loanVer : Nat, place : Places, seen : ShelfType, n : Nat]
  BY <1>3
<1>5. p \in PorterPlan /\ p.op = "issue" /\ PicksUp(w, p)
  BY <1>1, <1>2, <1>4 DEF PorterPlan
<1> HIDE DEF p
<1> QED BY <1>5, PlanKeeps

LEMMA PlanReturnKeeps ==
    ASSUME LoansInv, NEW w \in Porters, NEW l \in Statements, NEW q \in Places, PlanReturn(w, l, q)
    PROVE  LoansInv' /\ FrozenStep
<1>1. PICK back \in [Items -> 0..MaxMove] :
        /\ \E i \in Items : back[i] > 0
        /\ PicksUp(w, [op |-> "return", loan |-> l, loanVer |-> statement[l].ver,
                     back |-> back, place |-> q, seen |-> shelf[q],
                     closes |-> \A i \in ItemsOf(l) : Out(i) = back[i]])
  BY DEF PlanReturn
<1>2. PICK closes \in BOOLEAN : closes = (\A i \in ItemsOf(l) : Out(i) = back[i])
  OBVIOUS
<1>3. PICK v \in Nat : v = statement[l].ver
  BY LoanRows DEF LoansInv
<1>4. shelf[q] \in ShelfType /\ back \in [Items -> Nat]
  BY LoanBounds DEF LoansInv, LoansTypeOK
<1> DEFINE p == [op |-> "return", loan |-> l, loanVer |-> v, back |-> back, place |-> q,
                 seen |-> shelf[q], closes |-> closes]
<1>5. p \in [op : {"return"}, loan : Statements, loanVer : Nat, back : [Items -> Nat],
          place : Places, seen : ShelfType, closes : BOOLEAN]
  BY <1>4
<1>6. p \in PorterPlan /\ p.op = "return" /\ PicksUp(w, p)
  BY <1>1, <1>2, <1>3, <1>5 DEF PorterPlan
<1>7. ReturnFine(p)
  <2>1. statement[l].status # "none" /\ v <= statement[l].ver
    BY <1>3 DEF PlanReturn
  <2> QED BY <1>1, <1>2, <2>1 DEF ReturnFine
<1> HIDE DEF p
<1> QED BY <1>6, <1>7, PlanKeeps

LEMMA PlanAdjustKeeps ==
    ASSUME LoansInv, NEW w \in Porters, NEW i \in Items, PlanAdjust(w, i)
    PROVE  LoansInv' /\ FrozenStep
<1>1. PICK row \in ItemType : row = item[i]
  BY LoanRows DEF LoansInv
<1>2. PICK l \in Statements : l = row.of
  BY <1>1 DEF PlanAdjust, LoansInv, RecordsFine, ItemsFine, ItemFine
<1>3. PICK next \in Adjustments(row) :
        /\ next.issued >= row.returned
        /\ PicksUp(w, [op |-> "adjust", item |-> i, row |-> row, next |-> next,
                     loanVer |-> statement[l].ver, seen |-> shelf[row.from]])
  BY <1>1, <1>2 DEF PlanAdjust
<1>4. row.life # "none" /\ Copies \in Nat
  BY <1>1, LoanBounds DEF PlanAdjust
<1>5. next \in ItemType /\ next.life # "none" /\ next.of = row.of /\ next.from = row.from
      /\ next.line = row.line /\ next.returned = row.returned
  <2>1. CASE \E n \in 1..Copies : next = [row EXCEPT !.life = "active", !.issued = n]
    <3>1. PICK n \in 1..Copies : next = [row EXCEPT !.life = "active", !.issued = n]
      BY <2>1
    <3>2. row \in ItemType /\ n \in Nat
      BY <1>4
    <3> QED BY <3>1, <3>2 DEF ItemType
  <2>2. CASE \E n \in 1..Copies : next = [row EXCEPT !.issued = n]
    BY <2>2, <1>4 DEF ItemType
  <2>3. CASE next = [row EXCEPT !.life = "removed"]
    BY <2>3, <1>4 DEF ItemType
  <2> QED BY <2>1, <2>2, <2>3 DEF Adjustments
<1>6. row.returned <= next.issued
  BY <1>3, <1>5 DEF ItemType
<1>7. PICK v \in Nat : v = statement[l].ver
  BY LoanRows DEF LoansInv
<1>8. PICK seen \in ShelfType : seen = shelf[row.from]
  BY LoanRows DEF LoansInv, ItemType
<1> DEFINE p == [op |-> "adjust", item |-> i, row |-> row, next |-> next, loanVer |-> v,
                 seen |-> seen]
<1>9. p \in [op : {"adjust"}, item : Items, row : ItemType, next : ItemType, loanVer : Nat,
          seen : ShelfType]
  BY <1>5
<1>10. p \in PorterPlan /\ p.op = "adjust" /\ PicksUp(w, p)
  BY <1>3, <1>7, <1>8, <1>9 DEF PorterPlan
<1>11. AdjustFine(p)
  BY <1>4, <1>5, <1>6 DEF AdjustFine
<1> HIDE DEF p
<1> QED BY <1>10, <1>11, PlanKeeps

LEMMA PlanLinkKeeps ==
    ASSUME LoansInv, NEW w \in Porters, NEW i \in Items, NEW x \in Items, PlanLink(w, i, x)
    PROVE  LoansInv' /\ FrozenStep
<1>1. item[i].life # "none"
  BY DEF PlanLink
<1>2. PICK l \in Statements : l = item[i].of
  BY <1>1 DEF LoansInv, RecordsFine, ItemsFine, ItemFine
<1>3. PICK v \in Nat : v = statement[l].ver
  BY LoanRows DEF LoansInv
<1> DEFINE p == [op |-> "link", item |-> i, line |-> x, loanVer |-> v]
<1>4. p \in [op : {"link"}, item : Items, line : Items, loanVer : Nat]
  OBVIOUS
<1>5. p \in PorterPlan /\ p.op = "link" /\ PicksUp(w, p)
  BY <1>2, <1>3, <1>4 DEF PorterPlan, PlanLink
<1>6. item[p.item].life # "none"
  BY <1>1
<1> HIDE DEF p
<1> QED BY <1>5, <1>6, PlanKeeps

LEMMA PutsDownKeeps ==
    ASSUME LoansInv, UNCHANGED stockVars, PortersKept,
           porter' \in [Porters -> PorterPlan \cup {Free}]
    PROVE  LoansInv' /\ FrozenStep
<1>1. UNCHANGED <<pupils, room, shelf, promised, statement, item, shelfLines, itemLines>>
  BY DEF stockVars
<1>2. RecordsFine' /\ VersionsTell /\ FrozenStep /\ LinesFine' /\ Sum(Outs', Items) = Sum(Outs, Items)
  BY <1>1, PaperKept DEF Paper, Active
<1>3. LoansTypeOK'
  BY <1>1 DEF LoansInv, LoansTypeOK
<1>4. Qtys' = Qtys
  BY <1>1 DEF Qtys
<1>5. LedgerFine'
  BY <1>1, <1>2, <1>4 DEF LoansInv, LedgerFine, ShelvesFine, CopiesKept
<1> QED BY <1>2, <1>3, <1>5, Concluded

LEMMA MetadataKeeps ==
    ASSUME LoansInv, NEW l \in Statements, UpdateMetadata(l)
    PROVE  LoansInv' /\ FrozenStep
<1>1. /\ statement[l].status = "open" /\ Active(statement[l].of) /\ Bump(l)
      /\ UNCHANGED <<pupils, room, shelf, promised, item, shelfLines, itemLines, porter>>
  BY DEF UpdateMetadata
<1>2. /\ statement' \in [Statements -> StatementType]
      /\ \A m \in Statements : m # l => statement'[m] = statement[m]
      /\ statement'[l].status = "open" /\ statement'[l].of = statement[l].of
      /\ statement'[l].ver = statement[l].ver + 1 /\ statement[l].ver \in Nat
  BY <1>1, Raised
<1>3. LoansTypeOK' /\ PortersKept
  BY <1>1, <1>2 DEF LoansInv, LoansTypeOK, PortersKept
<1>4. LedgerFine'
  BY <1>1 DEF LoansInv, LedgerFine, ShelvesFine, LinesFine, CopiesKept, Outs, Qtys, Out
<1>5. \A m \in Statements : statement'[m].status = statement[m].status
                            /\ statement'[m].of = statement[m].of
  BY <1>1, <1>2
<1>6. StatementsOwned' /\ OneOpen' /\ LinksFine'
  BY <1>1, <1>5 DEF LoansInv, RecordsFine, StatementsOwned, OneOpen, LinksFine, Linked
<1>7. ItemsFine'
  <2>1. \A i \in Items : ItemFine(i)
    BY DEF LoansInv, RecordsFine, ItemsFine
  <2>2. ASSUME NEW i \in Items, item[i].life # "none"
        PROVE  item[i].of \in Statements /\ statement'[item[i].of].status = statement[item[i].of].status
    BY <2>1, <2>2, <1>5 DEF ItemFine
  <2> QED BY <2>1, <2>2, <1>1 DEF ItemsFine, ItemFine, Out, Linked
<1>8. DebtorsActive'
  BY <1>1, <1>5 DEF LoansInv, RecordsFine, DebtorsActive, Active, Out
<1>9. VersionsTell
  <2>1. \A m \in Statements : statement[m].ver \in Nat
    BY LoanRows DEF LoansInv
  <2>2. \A m \in Statements : statement[m].ver <= statement'[m].ver
    BY <1>2, <2>1
  <2>3. \A m \in Statements : statement'[m].ver = statement[m].ver => statement'[m] = statement[m]
    BY <1>2
  <2> QED BY <1>1, <1>5, <2>2, <2>3 DEF VersionsTell
<1>10. FrozenStep
  BY <1>1, <1>2 DEF FrozenStep
<1> QED BY <1>3, <1>4, <1>6, <1>7, <1>8, <1>9, <1>10, Concluded DEF RecordsFine

LEMMA PupilsKeep ==
    ASSUME LoansInv, NEW c \in Pupils, ClosePupils(c) \/ ReopenPupils(c)
    PROVE  LoansInv' /\ FrozenStep
<1>1. UNCHANGED <<room, shelf, promised, statement, item, shelfLines, itemLines, porter>>
  BY DEF ClosePupils, ReopenPupils
<1>2. pupils \in [Pupils -> PupilsType] /\ pupils[c].ver + 1 \in Nat
  BY DEF LoansInv, LoansTypeOK, PupilsType
<1>3. pupils' \in [Pupils -> PupilsType]
  <2>1. [status |-> "closed", ver |-> pupils[c].ver + 1] \in PupilsType
        /\ [status |-> "active", ver |-> pupils[c].ver + 1] \in PupilsType
    BY <1>2 DEF PupilsType
  <2> QED BY <1>2, <2>1 DEF ClosePupils, ReopenPupils
<1>4. ASSUME NEW b \in Pupils, Active(b)
      PROVE  pupils'[b].status = "active"
             \/ \A l \in Statements, i \in Items :
                  ~(/\ statement[l].status = "open" /\ statement[l].of = b
                    /\ item[i].of = l /\ Out(i) > 0)
  <2>1. CASE b # c
    BY <2>1, <1>2, <1>4 DEF ClosePupils, ReopenPupils, Active
  <2>2. CASE b = c
    <3>1. OwesNothing(c)
      BY <2>2, <1>4 DEF ClosePupils, ReopenPupils
    <3> QED BY <2>2, <3>1 DEF OwesNothing, Owes, OpenFor
  <2> QED BY <2>1, <2>2
<1>5. RecordsFine' /\ VersionsTell /\ FrozenStep /\ LinesFine' /\ Sum(Outs', Items) = Sum(Outs, Items)
  BY <1>1, <1>4, PaperKept DEF Paper
<1>6. LoansTypeOK' /\ PortersKept
  BY <1>1, <1>3 DEF LoansInv, LoansTypeOK, PortersKept
<1>7. LedgerFine'
  <2>1. Qtys' = Qtys
    BY <1>1 DEF Qtys
  <2> QED BY <1>1, <1>5, <2>1 DEF LoansInv, LedgerFine, ShelvesFine, CopiesKept
<1> QED BY <1>5, <1>6, <1>7, Concluded

LEMMA RoomKeeps ==
    ASSUME LoansInv, NEW p \in Rooms, CloseRoom(p) \/ ReopenRoom(p)
    PROVE  LoansInv' /\ FrozenStep
<1>1. /\ UNCHANGED <<pupils, shelf, promised, statement, item, shelfLines, itemLines, porter>>
      /\ room' \in [Places -> BOOLEAN]
  BY DEF CloseRoom, ReopenRoom, LoansInv, LoansTypeOK
<1>2. RecordsFine' /\ VersionsTell /\ FrozenStep /\ LinesFine' /\ Sum(Outs', Items) = Sum(Outs, Items)
  BY <1>1, PaperKept DEF Paper, Active
<1>3. LoansTypeOK' /\ PortersKept
  BY <1>1 DEF LoansInv, LoansTypeOK, PortersKept
<1>4. LedgerFine'
  <2>1. Qtys' = Qtys
    BY <1>1 DEF Qtys
  <2> QED BY <1>1, <1>2, <2>1 DEF LoansInv, LedgerFine, ShelvesFine, CopiesKept
<1> QED BY <1>2, <1>3, <1>4, Concluded

LEMMA PromiseKeeps ==
    ASSUME LoansInv, NEW p \in Places, Promise(p) \/ Withdraw(p)
    PROVE  LoansInv' /\ FrozenStep
<1>1. UNCHANGED <<pupils, room, shelf, statement, item, shelfLines, itemLines, porter>>
  BY DEF Promise, Withdraw
<1>2. PICK n \in Nat, q \in Nat : n = promised[p] /\ q = shelf[p].qty
  BY LoanRows DEF LoansInv
<1>3. PICK m \in Nat : promised' = [promised EXCEPT ![p] = m] /\ m <= q
  <2>1. promised \in [Places -> Nat] /\ n <= q
    BY <1>2 DEF LoansInv, LoansTypeOK, LedgerFine, ShelvesFine
  <2>2. CASE Promise(p)
    <3>1. promised' = [promised EXCEPT ![p] = n + 1] /\ q - n > 0
      BY <1>2, <2>2 DEF Promise, Available
    <3>2. n + 1 \in Nat /\ n + 1 <= q
      BY <3>1
    <3> QED BY <3>1, <3>2
  <2>3. CASE Withdraw(p)
    <3>1. promised' = [promised EXCEPT ![p] = n - 1] /\ n > 0
      BY <1>2, <2>3 DEF Withdraw
    <3>2. n - 1 \in Nat /\ n - 1 <= q
      BY <2>1, <3>1
    <3> QED BY <3>1, <3>2
  <2> QED BY <2>2, <2>3
<1>4. promised' \in [Places -> Nat] /\ \A r \in Places : promised'[r] = IF r = p THEN m ELSE promised[r]
  BY <1>3 DEF LoansInv, LoansTypeOK
<1>5. RecordsFine' /\ VersionsTell /\ FrozenStep /\ LinesFine' /\ Sum(Outs', Items) = Sum(Outs, Items)
  BY <1>1, PaperKept DEF Paper, Active
<1>6. LoansTypeOK' /\ PortersKept
  BY <1>1, <1>4 DEF LoansInv, LoansTypeOK, PortersKept
<1>7. LedgerFine'
  <2>1. Qtys' = Qtys
    BY <1>1 DEF Qtys
  <2>2. ShelvesFine'
    BY <1>1, <1>2, <1>3, <1>4 DEF LoansInv, LedgerFine, ShelvesFine
  <2> QED BY <1>5, <2>1, <2>2 DEF LoansInv, LedgerFine, CopiesKept
<1> QED BY <1>5, <1>6, <1>7, Concluded

LEMMA CarryKeeps ==
    ASSUME LoansInv, NEW p \in Places, NEW q \in Places, Carry(p, q)
    PROVE  LoansInv' /\ FrozenStep
<1>1. /\ p # q /\ Available(p) > 0
      /\ shelf' = [shelf EXCEPT ![p] = Shelf(shelf[p].qty - 1, shelf[p].ver + 1),
                                ![q] = Shelf(shelf[q].qty + 1, shelf[q].ver + 1)]
      /\ shelfLines' = [shelfLines EXCEPT ![p] = @ - 1, ![q] = @ + 1]
      /\ UNCHANGED <<pupils, room, promised, statement, item, itemLines, porter>>
  BY DEF Carry
<1>2. /\ LoansTypeOK /\ ShelvesFine /\ CopiesKept
      /\ shelf \in [Places -> ShelfType] /\ shelfLines \in [Places -> Int]
  BY DEF LoansInv, LoansTypeOK, LedgerFine
<1>3. PICK a \in Nat, b \in Nat, u \in Nat, v \in Nat, r \in Nat :
        a = shelf[p].qty /\ b = shelf[q].qty /\ u = shelf[p].ver /\ v = shelf[q].ver /\ r = promised[p]
  BY <1>2, LoanRows
<1>4. a - r > 0
  BY <1>1, <1>3 DEF Available
<1>5. PICK x \in ShelfType, y \in ShelfType :
        /\ x = Shelf(a - 1, u + 1) /\ x.qty = a - 1 /\ y = Shelf(b + 1, v + 1) /\ y.qty = b + 1
  <2>1. a - 1 \in Nat
    BY <1>4
  <2>2. Shelf(a - 1, u + 1) \in ShelfType /\ Shelf(a - 1, u + 1).qty = a - 1
    BY <2>1 DEF Shelf, NoShelf, ShelfType
  <2>3. Shelf(b + 1, v + 1) \in ShelfType /\ Shelf(b + 1, v + 1).qty = b + 1
    BY DEF Shelf, NoShelf, ShelfType
  <2> QED BY <2>2, <2>3
<1>6. /\ \A z \in Places : shelf'[z] = IF z = p THEN x ELSE IF z = q THEN y ELSE shelf[z]
      /\ shelf' \in [Places -> ShelfType]
  BY <1>1, <1>2, <1>3, <1>5
<1>7. /\ \A z \in Places : shelfLines'[z] = IF z = p THEN shelfLines[z] - 1
                                            ELSE IF z = q THEN shelfLines[z] + 1 ELSE shelfLines[z]
      /\ shelfLines' \in [Places -> Int]
  <2>1. shelfLines[p] - 1 \in Int /\ shelfLines[q] + 1 \in Int
    BY <1>2
  <2> QED BY <1>1, <1>2, <2>1
<1>8. ShelvesFine'
  <2> SUFFICES ASSUME NEW z \in Places
               PROVE  shelfLines'[z] = shelf'[z].qty /\ promised[z] <= shelf'[z].qty
    BY <1>1 DEF ShelvesFine
  <2>1. shelfLines[z] = shelf[z].qty /\ promised[z] <= shelf[z].qty /\ promised[z] \in Nat
    BY <1>2, LoanRows DEF ShelvesFine
  <2>2. CASE z = p
    <3>1. shelfLines'[z] = a - 1 /\ shelf'[z].qty = a - 1
      BY <2>1, <2>2, <1>3, <1>5, <1>6, <1>7
    <3> QED BY <2>2, <3>1, <1>3, <1>4
  <2>3. CASE z = q
    <3>1. shelfLines'[z] = b + 1 /\ shelf'[z].qty = b + 1 /\ promised[z] <= b
      BY <2>1, <2>3, <1>1, <1>3, <1>5, <1>6, <1>7
    <3> QED BY <2>1, <3>1
  <2>4. CASE z # p /\ z # q
    BY <2>1, <2>4, <1>6, <1>7
  <2> QED BY <2>2, <2>3, <2>4
<1>9. Sum(Qtys', Places) = Sum(Qtys, Places)
  <2> DEFINE f == [z \in Places |-> IF z = p THEN a - 1 ELSE shelf[z].qty]
  <2>1. /\ \A z \in Places : f[z] = IF z = p THEN a - 1 ELSE shelf[z].qty
        /\ \A z \in Places : Qtys[z] = shelf[z].qty
        /\ \A z \in Places : Qtys'[z] = shelf'[z].qty
    BY DEF Qtys
  <2>2. \A z \in Places : shelf[z].qty \in Int
    BY <1>2, LoanRows
  <2> HIDE DEF f
  <2>3. \A z \in Places : f[z] \in Int /\ Qtys[z] \in Int /\ Qtys'[z] \in Int
    BY <2>1, <2>2, <1>5, <1>6
  <2>4. Sum(f, Places) = Sum(Qtys, Places) + (f[p] - Qtys[p])
    <3>1. \A z \in Places : z # p => Qtys[z] = f[z]
      BY <2>1
    <3> QED BY <2>3, <3>1, PlacesFinite, SumChange
  <2>5. Sum(Qtys', Places) = Sum(f, Places) + (Qtys'[q] - f[q])
    <3>1. \A z \in Places : z # q => f[z] = Qtys'[z]
      BY <2>1, <1>5, <1>6
    <3> QED BY <2>3, <3>1, PlacesFinite, SumChange
  <2>6. f[p] = a - 1 /\ Qtys[p] = a /\ f[q] = b /\ Qtys'[q] = b + 1
    BY <2>1, <1>1, <1>3, <1>5, <1>6
  <2>7. Sum(Qtys, Places) \in Int
    BY <2>3, PlacesFinite, SumIsInt
  <2> QED BY <2>4, <2>5, <2>6, <2>7
<1>10. RecordsFine' /\ VersionsTell /\ FrozenStep /\ LinesFine' /\ Sum(Outs', Items) = Sum(Outs, Items)
  BY <1>1, PaperKept DEF Paper, Active
<1>11. LoansTypeOK' /\ PortersKept
  BY <1>1, <1>2, <1>6, <1>7 DEF LoansTypeOK, PortersKept
<1>12. LedgerFine'
  BY <1>2, <1>8, <1>9, <1>10 DEF LedgerFine, CopiesKept
<1> QED BY <1>10, <1>11, <1>12, Concluded

-----------------------------------------------------------------------------
(* The first state and every step *)

LEMMA LoansStart == LoansInit => LoansInv
<1> SUFFICES ASSUME LoansInit PROVE LoansInv
  OBVIOUS
<1>1. PICK k \in Nat : k = Cardinality(Legacy) /\ k <= Copies
  BY LegacyAssumption, FS_CardinalityType
<1>2. Legacy \subseteq Items /\ Copies \in Nat /\ NoLoan \notin Statements
  BY LegacyAssumption, LoanBounds, LoanValues
<1>3. PICK left \in Nat : left = Copies - k
  BY <1>1, <1>2
<1>4. /\ pupils = [c \in Pupils |-> [status |-> "active", ver |-> 1]]
      /\ room = [p \in Places |-> TRUE]
      /\ shelf = [p \in Places |-> Shelf(IF p = Depot THEN left ELSE 0, 1)]
      /\ promised = [p \in Places |-> 0]
      /\ porter = [w \in Porters |-> Free]
      /\ shelfLines = [p \in Places |-> IF p = Depot THEN left ELSE 0]
      /\ itemLines = [i \in Items |-> IF i \in Legacy THEN -1 ELSE 0]
  BY <1>1, <1>3 DEF LoansInit
<1>5. PICK c \in Pupils, s \in Statements :
        /\ statement = [l \in Statements |->
               IF l = s /\ Legacy # {} THEN [status |-> "open", of |-> c, ver |-> 1]
               ELSE [status |-> "none", of |-> NoPupils, ver |-> 0]]
        /\ item = [i \in Items |-> IF i \in Legacy
               THEN [NoItem EXCEPT !.life = "active", !.of = s, !.issued = 1]
               ELSE NoItem]
  BY DEF LoansInit
<1>6. PICK first \in StatementType, unwritten \in StatementType :
        /\ first = [status |-> "open", of |-> c, ver |-> 1]
        /\ first.status = "open" /\ first.of = c
        /\ unwritten = [status |-> "none", of |-> NoPupils, ver |-> 0] /\ unwritten.status = "none"
  <2>1. /\ [status |-> "open", of |-> c, ver |-> 1] \in StatementType
        /\ [status |-> "none", of |-> NoPupils, ver |-> 0] \in StatementType
    BY DEF StatementType
  <2> QED BY <2>1
<1>7. Depot \in Places
  BY DEF Places
<1>8. NoItem \in ItemType /\ NoItem.life = "none" /\ NoItem.line = NoLine
  BY <1>7 DEF NoItem, ItemType
<1>9. PICK old \in ItemType :
        /\ old = [NoItem EXCEPT !.life = "active", !.of = s, !.issued = 1]
        /\ old.life = "active" /\ old.of = s /\ old.issued = 1 /\ old.returned = 0
        /\ old.line = NoLine
  <2> DEFINE r == [NoItem EXCEPT !.life = "active", !.of = s, !.issued = 1]
  <2>1. NoItem.returned = 0
    BY DEF NoItem
  <2>2. r \in ItemType
    BY <1>8 DEF ItemType
  <2>3. /\ r.life = "active" /\ r.of = s /\ r.issued = 1
        /\ r.returned = NoItem.returned /\ r.line = NoItem.line
    BY <1>8 DEF ItemType
  <2> QED BY <1>8, <2>1, <2>2, <2>3
<1>10. /\ \A l \in Statements : statement[l] = IF l = s /\ Legacy # {} THEN first ELSE unwritten
       /\ \A i \in Items : item[i] = IF i \in Legacy THEN old ELSE NoItem
       /\ statement \in [Statements -> StatementType] /\ item \in [Items -> ItemType]
  BY <1>5, <1>6, <1>8, <1>9
<1>11. \A p \in Places : shelf[p] \in ShelfType /\ shelf[p].qty = IF p = Depot THEN left ELSE 0
  BY <1>4 DEF Shelf, NoShelf, ShelfType
<1>12. LoansTypeOK
  <2>1. shelf \in [Places -> ShelfType]
    BY <1>4, <1>11
  <2>2. pupils \in [Pupils -> PupilsType]
    BY <1>4 DEF PupilsType
  <2>3. shelfLines \in [Places -> Int] /\ itemLines \in [Items -> Int]
    BY <1>4
  <2> QED BY <1>4, <1>10, <2>1, <2>2, <2>3 DEF LoansTypeOK
<1>13. \A i \in Items : Out(i) = IF i \in Legacy THEN 1 ELSE 0
  <2> SUFFICES ASSUME NEW i \in Items PROVE Out(i) = IF i \in Legacy THEN 1 ELSE 0
    OBVIOUS
  <2>1. CASE i \in Legacy
    <3>1. item[i] = old
      BY <2>1, <1>10
    <3>2. Out(i) = 1 - 0
      BY <3>1, <1>9 DEF Out
    <3> QED BY <2>1, <3>2
  <2>2. CASE i \notin Legacy
    BY <2>2, <1>8, <1>10 DEF Out
  <2> QED BY <2>1, <2>2
<1>14. ShelvesFine
  BY <1>4, <1>11 DEF ShelvesFine
<1>15. LinesFine
  BY <1>4, <1>13 DEF LinesFine
<1>16. CopiesKept
  <2>1. Sum(Outs, Items) = k
    <3>1. \A i \in Items : Outs[i] = IF i \in Legacy THEN 1 ELSE 0
      BY <1>13 DEF Outs
    <3> QED BY <3>1, <1>1, <1>2, PlacesFinite, SumCounts
  <2>2. Sum(Qtys, Places) = left
    <3>1. \A p \in Places : Qtys[p] = IF p = Depot THEN left ELSE 0
      BY <1>11 DEF Qtys
    <3> DEFINE z == [p \in Places |-> 0]
    <3>2. Sum(z, Places) = 0
      <4>1. \A p \in Places : z[p] \in Nat /\ z[p] = 0
        OBVIOUS
      <4> HIDE DEF z
      <4> QED BY <4>1, PlacesFinite, SumBounds
    <3>3. Sum(Qtys, Places) = Sum(z, Places) + (Qtys[Depot] - z[Depot])
      <4>1. \A p \in Places : z[p] = 0
        OBVIOUS
      <4> HIDE DEF z
      <4>2. \A p \in Places : z[p] \in Int /\ Qtys[p] \in Int
        BY <3>1, <4>1
      <4>3. \A p \in Places : p # Depot => z[p] = Qtys[p]
        BY <3>1, <4>1
      <4> QED BY <1>7, <4>2, <4>3, PlacesFinite, SumChange
    <3>4. z[Depot] = 0 /\ Qtys[Depot] = left
      BY <1>7, <3>1
    <3> HIDE DEF z
    <3> QED BY <3>2, <3>3, <3>4
  <2> QED BY <2>1, <2>2, <1>1, <1>2, <1>3 DEF CopiesKept
<1>17. StatementsOwned /\ OneOpen /\ DebtorsActive
  <2>1. \A b \in Pupils : Active(b)
    BY <1>4 DEF Active
  <2> QED BY <1>6, <1>10, <2>1 DEF StatementsOwned, OneOpen, DebtorsActive
<1>18. ItemsFine
  <2> SUFFICES ASSUME NEW i \in Items PROVE ItemFine(i)
    BY DEF ItemsFine
  <2>1. CASE i \in Legacy
    <3>1. item[i] = old /\ statement[s] = first
      BY <2>1, <1>10
    <3> QED BY <3>1, <1>6, <1>9 DEF ItemFine, Linked
  <2>2. CASE i \notin Legacy
    BY <2>2, <1>8, <1>10 DEF ItemFine
  <2> QED BY <2>1, <2>2
<1>19. LinksFine
  BY <1>8, <1>9, <1>10 DEF LinksFine, Linked
<1>20. PortersFine
  BY <1>4 DEF PortersFine
<1> QED BY <1>12, <1>14, <1>15, <1>16, <1>17, <1>18, <1>19, <1>20 DEF LoansInv, LedgerFine, RecordsFine

LEMMA DeskKeeps ==
    ASSUME LoansInv, Desk
    PROVE  LoansInv' /\ FrozenStep
<1>1. PICK w \in Porters :
        \/ \E c \in Pupils, p \in Places, n \in 1..MaxMove : PlanIssue(w, c, p, n)
        \/ \E l \in Statements, p \in Places : PlanReturn(w, l, p)
        \/ \E i \in Items : PlanAdjust(w, i)
        \/ \E i, x \in Items : PlanLink(w, i, x)
        \/ CommitIssue(w) \/ CommitReturn(w) \/ CommitAdjust(w) \/ CommitLink(w)
        \/ PutsDown(w)
  BY DEF Desk
<1>2. CASE \E c \in Pupils, p \in Places, n \in 1..MaxMove : PlanIssue(w, c, p, n)
  BY <1>2, PlanIssueKeeps
<1>3. CASE \E l \in Statements, p \in Places : PlanReturn(w, l, p)
  BY <1>3, PlanReturnKeeps
<1>4. CASE \E i \in Items : PlanAdjust(w, i)
  BY <1>4, PlanAdjustKeeps
<1>5. CASE \E i, x \in Items : PlanLink(w, i, x)
  BY <1>5, PlanLinkKeeps
<1>6. CASE CommitIssue(w)
  BY <1>6, CommitIssueKeeps
<1>7. CASE CommitReturn(w)
  BY <1>7, CommitReturnKeeps
<1>8. CASE CommitAdjust(w)
  BY <1>8, CommitAdjustKeeps
<1>9. CASE CommitLink(w)
  BY <1>9, CommitLinkKeeps
<1>10. CASE PutsDown(w)
  <2>1. /\ UNCHANGED stockVars /\ PortersKept
        /\ porter' \in [Porters -> PorterPlan \cup {Free}]
    BY <1>10 DEF PutsDown, LoansInv, LoansTypeOK, PortersKept
  <2> QED BY <2>1, PutsDownKeeps
<1> QED BY <1>1, <1>2, <1>3, <1>4, <1>5, <1>6, <1>7, <1>8, <1>9, <1>10

LEMMA LoansStepKeeps ==
    ASSUME LoansInv, [LoansNext]_loanVars
    PROVE  LoansInv' /\ FrozenStep
<1>1. CASE Desk
  BY <1>1, DeskKeeps
<1>2. CASE \E l \in Statements : UpdateMetadata(l)
  BY <1>2, MetadataKeeps
<1>3. CASE \E c \in Pupils : ClosePupils(c) \/ ReopenPupils(c)
  BY <1>3, PupilsKeep
<1>4. CASE \E p \in Rooms : CloseRoom(p) \/ ReopenRoom(p)
  BY <1>4, RoomKeeps
<1>5. CASE \E p, q \in Places : Carry(p, q)
  BY <1>5, CarryKeeps
<1>6. CASE \E p \in Places : Promise(p) \/ Withdraw(p)
  BY <1>6, PromiseKeeps
<1>7. CASE UNCHANGED loanVars
  <2>1. /\ UNCHANGED stockVars /\ PortersKept
        /\ porter' \in [Porters -> PorterPlan \cup {Free}]
    BY <1>7 DEF loanVars, LoansInv, LoansTypeOK, PortersKept
  <2> QED BY <2>1, PutsDownKeeps
<1> QED BY <1>1, <1>2, <1>3, <1>4, <1>5, <1>6, <1>7 DEF LoansNext, Others

LEMMA LoansAlways == LoansSpec => []LoansInv
<1>1. LoansInv /\ [LoansNext]_loanVars => LoansInv'
  BY LoansStepKeeps
<1> QED BY <1>1, LoansStart, PTL DEF LoansSpec

(* Classes, places, shelves, statements, items, the journals' sums and     *)
(* what a handler is about to write are of their types.                    *)
THEOREM LoansTyped == LoansSpec => []LoansTypeOK
<1>1. LoansInv => LoansTypeOK
  BY DEF LoansInv
<1> QED BY <1>1, LoansAlways, PTL

(* No copy lent to a class is made or lost: the journals explain every     *)
(* shelf and item, the copies add up, promises stay on their shelves; one  *)
(* statement of a class is open and closes only when all is back; a closed *)
(* class owes nothing: for all calls of the class loan handlers of         *)
(* library-mutation-store.ts, whatever they read before their batches.     *)
THEOREM LoansSafe == LoansSpec => []LoansSound
BY LoansAlways, LoansInOrder, PTL

(* The statement of a closed class, and its items, do not change until the *)
(* class reopens, though a return serves closed classes too.               *)
THEOREM ClosedStaysFrozen == LoansSpec => ClosedClassFrozen
<1>1. LoansInv /\ [LoansNext]_loanVars => [FrozenStep]_loanVars
  BY LoansStepKeeps
<1> QED BY <1>1, LoansAlways, PTL DEF LoansSpec, ClosedClassFrozen

-----------------------------------------------------------------------------
(* The catalogue: the inductive invariant                                  *)

(* A call holds the largest number of when it read; a number it means to   *)
(* take was next then, so it can be next still or be taken.                *)
NewCardFine(p) ==
    /\ p.add \in Adds
    /\ p.from + p.tries <= Highest
    /\ p.at = "batch" => p.from + p.tries < p.number /\ p.number <= Highest + 1
CardChangeFine(p) ==
    /\ p.at = "batch" /\ p.number \in Taken /\ p.ver < MaxRecordVersion /\ p.tries = 0
    /\ p.call = "revise" => record[p.number].fund = "literature"
EditorFine(p) == IF p.call \in NewCalls THEN NewCardFine(p) ELSE CardChangeFine(p)
EditorsFine == \A w \in Editors : editor[w] # Aside => EditorFine(editor[w])

NumbersGiven ==
    /\ Taken = 1 .. Highest
    /\ \A r \in Adds : added[r] # 0 => added[r] \in Taken
    /\ \A n \in Taken : \E r \in Adds : added[r] = n /\ \A q \in Adds : added[q] = n => q = r

CatalogueInv == CatalogueTypeOK /\ EditorsFine /\ NumbersGiven /\ IsbnsApart

LEMMA CatalogueParts ==
  ASSUME CatalogueInv
  PROVE  /\ CatalogueTypeOK /\ EditorsFine /\ NumbersGiven /\ IsbnsApart
         /\ record \in [Numbers -> RecordType] /\ added \in [Adds -> 0 .. MaxNumber]
         /\ editor \in [Editors -> EditorPlan \cup {Aside}]
         /\ MaxNumber \in Nat /\ MaxRecordVersion \in Nat \ {0}
BY CatalogueAssumption DEF CatalogueInv, CatalogueTypeOK

LEMMA TopOf ==
  ASSUME NEW T \in SUBSET (1 .. MaxNumber),
         NEW h, h = CHOOSE n \in T \cup {0} : \A m \in T : m <= n
  PROVE  h \in T \cup {0} /\ h \in 0 .. MaxNumber /\ h \in Nat /\ \A m \in T : m <= h
<1>1. MaxNumber \in Nat
  BY CatalogueAssumption
<1>2. \E n \in T \cup {0} : \A m \in T : m <= n
  <2> DEFINE S == T \cup {0}
  <2>1. S \in SUBSET (0 .. MaxNumber) /\ S # {}
    BY <1>1
  <2>2. Max(S) \in S /\ \A y \in S : Max(S) >= y
    BY <1>1, <2>1, LargestOf
  <2>3. \A m \in T : m <= Max(S)
    BY <1>1, <2>1, <2>2
  <2> QED BY <2>2, <2>3
<1>3. h \in T \cup {0} /\ \A m \in T : m <= h
  BY <1>2
<1>4. h \in 0 .. MaxNumber
  <2>1. T \subseteq 0 .. MaxNumber /\ 0 \in 0 .. MaxNumber
    BY <1>1
  <2> QED BY <1>3, <2>1
<1>5. h \in Nat
  BY <1>1, <1>4
<1> QED BY <1>3, <1>4, <1>5

LEMMA HighestIs ==
  /\ Highest \in Taken \cup {0} /\ Highest \in 0 .. MaxNumber /\ Highest \in Nat
  /\ Taken \subseteq 1 .. MaxNumber /\ \A m \in Taken : m <= Highest
<1>1. Taken \in SUBSET (1 .. MaxNumber)
  BY DEF Taken, Numbers
<1> QED BY <1>1, TopOf DEF Highest
LEMMA HighestNext ==
  /\ Highest' \in Taken' \cup {0} /\ Highest' \in 0 .. MaxNumber /\ Highest' \in Nat
  /\ Taken' \subseteq 1 .. MaxNumber /\ \A m \in Taken' : m <= Highest'
<1>1. Taken' \in SUBSET (1 .. MaxNumber)
  BY DEF Taken, Numbers
<1> QED BY <1>1, TopOf DEF Highest

LEMMA RecordShape ==
  ASSUME NEW c \in RecordType
  PROVE  /\ c.status \in {"none", "active", "archived"} /\ c.isbn \in Isbns \cup {NoIsbn}
         /\ c.fund \in {"education", "literature"} /\ c.adopted \in BOOLEAN
         /\ c.ver \in 0 .. MaxRecordVersion /\ c.links \in SUBSET Urls
BY DEF RecordType

LEMMA PlanShape ==
  ASSUME NEW p \in EditorPlan
  PROVE  /\ p.call \in NewCalls \cup CardCalls /\ p.at \in {"number", "batch"}
         /\ p.add \in Adds \cup {NoAdd} /\ p.number \in 0 .. MaxNumber + 1
         /\ p.isbn \in Isbns \cup {NoIsbn} /\ p.links \in SUBSET Urls
         /\ p.ver \in 0 .. MaxRecordVersion /\ p.tries \in 0 .. 2 /\ p.from \in 0 .. MaxNumber
         /\ p.from \in Nat /\ p.tries \in Nat /\ p.number \in Nat
BY CatalogueAssumption DEF EditorPlan

LEMMA CatalogueStart == CatalogueInit => CatalogueInv
<1> SUFFICES ASSUME CatalogueInit PROVE CatalogueInv
  OBVIOUS
<1> USE DEF CatalogueInit
<1>1. NoRecord \in RecordType /\ NoRecord.status = "none"
  BY CatalogueAssumption DEF NoRecord, RecordType
<1>2. CatalogueTypeOK
  BY <1>1, CatalogueAssumption DEF CatalogueTypeOK
<1>3. Taken = {}
  BY <1>1 DEF Taken
<1>4. Highest = 0
  BY <1>3, HighestIs
<1>5. NumbersGiven /\ IsbnsApart /\ EditorsFine
  BY <1>3, <1>4 DEF NumbersGiven, IsbnsApart, EditorsFine
<1> QED BY <1>2, <1>5 DEF CatalogueInv

-----------------------------------------------------------------------------
(* Steps of one handler that write no card *)

(* What holds of a plan goes on holding while numbers grow and cards stay. *)
LEMMA EditorStays ==
  ASSUME NEW p \in EditorPlan, EditorFine(p), Taken \subseteq Taken', Highest <= Highest',
         \A n \in Taken : record[n].fund = "literature" => record'[n].fund = "literature"
  PROVE  EditorFine(p)'
<1>1. Highest \in Nat /\ Highest' \in Nat
  BY HighestIs, HighestNext
<1>2. p.from \in Nat /\ p.tries \in Nat /\ p.number \in Nat
  BY PlanShape
<1> QED BY <1>1, <1>2 DEF EditorFine, NewCardFine, CardChangeFine

LEMMA PlansOnly ==
  ASSUME CatalogueInv, NEW w \in Editors, NEW p \in EditorPlan \cup {Aside},
         editor' = [editor EXCEPT ![w] = p], record' = record, added' = added,
         p # Aside => EditorFine(p)
  PROVE  CatalogueInv'
<1>0. /\ CatalogueTypeOK /\ EditorsFine /\ NumbersGiven /\ IsbnsApart
      /\ editor \in [Editors -> EditorPlan \cup {Aside}]
  BY CatalogueParts
<1>1. /\ editor' \in [Editors -> EditorPlan \cup {Aside}] /\ editor'[w] = p
      /\ \A u \in Editors : u # w => editor'[u] = editor[u]
  BY <1>0
<1>2. CatalogueTypeOK'
  BY <1>0, <1>1 DEF CatalogueTypeOK
<1>3. Taken' = Taken
  BY DEF Taken
<1>4. Highest' = Highest
  BY <1>3 DEF Highest
<1>5. NumbersGiven' /\ IsbnsApart'
  BY <1>0, <1>3, <1>4 DEF NumbersGiven, IsbnsApart, ActiveCard
<1>6. EditorsFine'
  BY <1>0, <1>1, <1>3, <1>4 DEF EditorsFine, EditorFine, NewCardFine, CardChangeFine
<1> QED BY <1>2, <1>5, <1>6 DEF CatalogueInv

LEMMA PlanCardKeeps ==
  ASSUME CatalogueInv, NEW w \in Editors, NEW c \in NewCalls, NEW r \in Adds,
         NEW i \in Isbns \cup {NoIsbn}, PlanCard(w, c, r, i)
  PROVE  CatalogueInv'
<1>1. PICK h \in 0 .. MaxNumber : h = Highest
  BY HighestIs
<1>2. PICK p : p = [call |-> c, at |-> "number", add |-> r, number |-> 0, isbn |-> i,
                    links |-> {}, ver |-> 0, tries |-> 0, from |-> h]
  OBVIOUS
<1>3. /\ p \in EditorPlan /\ p.call = c /\ p.at = "number" /\ p.add = r /\ p.from = h
      /\ p.tries = 0
  BY <1>2, CatalogueAssumption DEF EditorPlan
<1>4. h \in Nat
  BY <1>1, CatalogueAssumption
<1>5. EditorFine(p)
  BY <1>1, <1>3, <1>4 DEF EditorFine, NewCardFine
<1>6. editor' = [editor EXCEPT ![w] = p] /\ record' = record /\ added' = added
  BY <1>1, <1>2 DEF PlanCard, Draws
<1> QED BY <1>3, <1>5, <1>6, PlansOnly

LEMMA ChangesCardKeeps ==
  ASSUME CatalogueInv, NEW w \in Editors, NEW c \in CardCalls, NEW n \in Numbers,
         NEW i \in Isbns \cup {NoIsbn}, NEW us \in SUBSET Urls, ActiveCard(n),
         c = "revise" => record[n].fund = "literature", ChangesCard(w, c, n, i, us)
  PROVE  CatalogueInv'
<1>1. record[n] \in RecordType /\ MaxNumber \in Nat /\ MaxRecordVersion \in Nat
  BY CatalogueParts
<1>2. PICK v \in 0 .. MaxRecordVersion : v = record[n].ver /\ v < MaxRecordVersion
  BY <1>1, RecordShape DEF ChangesCard
<1>3. PICK p : p = [call |-> c, at |-> "batch", add |-> NoAdd, number |-> n, isbn |-> i,
                    links |-> us, ver |-> v, tries |-> 0, from |-> 0]
  OBVIOUS
<1>4. n \in 0 .. MaxNumber + 1 /\ n \in Taken
  BY <1>1 DEF Numbers, Taken, ActiveCard
<1>5. /\ p \in EditorPlan /\ p.call = c /\ p.at = "batch" /\ p.number = n /\ p.ver = v
      /\ p.tries = 0
  BY <1>1, <1>3, <1>4 DEF EditorPlan
<1>6. EditorFine(p)
  BY <1>2, <1>4, <1>5 DEF EditorFine, CardChangeFine, CardCalls, NewCalls
<1>7. editor' = [editor EXCEPT ![w] = p] /\ record' = record /\ added' = added
  BY <1>2, <1>3 DEF ChangesCard, Draws
<1> QED BY <1>5, <1>6, <1>7, PlansOnly

LEMMA CardPlansKeep ==
  ASSUME CatalogueInv, NEW w \in Editors, NEW n \in Numbers,
         \/ \E i \in Isbns \cup {NoIsbn}, us \in SUBSET Urls : PlanEdit(w, n, i, us)
         \/ \E u \in Urls : PlanEbook(w, n, u)
         \/ \E i \in Isbns \cup {NoIsbn} : PlanRevise(w, n, i)
         \/ PlanLeave(w, n) \/ PlanAdopt(w, n)
  PROVE  CatalogueInv'
<1>1. record[n].isbn \in Isbns \cup {NoIsbn} /\ {} \in SUBSET Urls
  BY CatalogueParts, RecordShape
<1>2. \A u \in Urls : {u} \in SUBSET Urls
  OBVIOUS
<1>3. {"update", "link", "revise", "archive", "adopt"} \subseteq CardCalls
  BY DEF CardCalls
<1>4. ASSUME NEW i \in Isbns \cup {NoIsbn}, NEW us \in SUBSET Urls, PlanEdit(w, n, i, us)
      PROVE  CatalogueInv'
  BY <1>3, <1>4, ChangesCardKeeps DEF PlanEdit, Textbook
<1>5. ASSUME NEW u \in Urls, PlanEbook(w, n, u) PROVE CatalogueInv'
  BY <1>1, <1>2, <1>3, <1>5, ChangesCardKeeps DEF PlanEbook, Textbook
<1>6. ASSUME NEW i \in Isbns \cup {NoIsbn}, PlanRevise(w, n, i) PROVE CatalogueInv'
  BY <1>1, <1>3, <1>6, ChangesCardKeeps DEF PlanRevise, LiteratureCard
<1>7. ASSUME PlanLeave(w, n) \/ PlanAdopt(w, n) PROVE CatalogueInv'
  BY <1>1, <1>3, <1>7, ChangesCardKeeps DEF PlanLeave, PlanAdopt, Textbook
<1> QED BY <1>4, <1>5, <1>6, <1>7

LEMMA ReadMaximumKeeps ==
  ASSUME CatalogueInv, NEW w \in Editors, ReadMaximum(w)
  PROVE  CatalogueInv'
<1>1. PICK d \in EditorPlan : d = editor[w] /\ d.at = "number" /\ EditorFine(d)
  BY CatalogueParts DEF ReadMaximum, EditorsFine
<1>2. d.call \in NewCalls /\ NewCardFine(d)
  BY <1>1 DEF EditorFine, CardChangeFine
<1>3. PICK h \in 0 .. MaxNumber : h = Highest /\ h \in Nat
  BY HighestIs
<1>4. PICK k \in 0 .. MaxNumber + 1 : k = h + 1
  BY <1>3, CatalogueAssumption
<1>5. PICK p : p = [d EXCEPT !.number = k, !.at = "batch"]
  OBVIOUS
<1>6. /\ p \in EditorPlan /\ p.call = d.call /\ p.at = "batch" /\ p.add = d.add
      /\ p.from = d.from /\ p.tries = d.tries /\ p.number = k
  BY <1>5 DEF EditorPlan
<1>7. d.from \in Nat /\ d.tries \in Nat
  BY PlanShape
<1>8. EditorFine(p)
  BY <1>2, <1>3, <1>4, <1>6, <1>7 DEF EditorFine, NewCardFine
<1>9. editor' = [editor EXCEPT ![w] = p] /\ record' = record /\ added' = added
  <2>1. editor' = [editor EXCEPT ![w] = [editor[w] EXCEPT !.number = Highest + 1, !.at = "batch"]]
    BY CatalogueParts DEF ReadMaximum
  <2> QED BY <1>1, <1>3, <1>4, <1>5, <2>1 DEF ReadMaximum
<1> QED BY <1>6, <1>8, <1>9, PlansOnly

LEMMA TryAgainKeeps ==
  ASSUME CatalogueInv, NEW w \in Editors, TryAgain(w)
  PROVE  CatalogueInv'
<1>1. PICK d \in EditorPlan : d = editor[w] /\ d.call = "create" /\ d.at = "batch" /\ EditorFine(d)
  BY CatalogueParts DEF TryAgain, Editing, EditorsFine
<1>2. d.call \in NewCalls /\ NewCardFine(d)
  BY <1>1 DEF EditorFine, NewCalls
<1>3. d.number \in Taken /\ d.tries < 2
  BY <1>1 DEF TryAgain, NumberFree
<1>4. d.number <= Highest /\ Highest \in Nat
  BY <1>3, HighestIs
<1>5. d.from \in Nat /\ d.tries \in 0 .. 2 /\ d.number \in Nat
  BY PlanShape
<1>6. PICK t \in 0 .. 2 : t = d.tries + 1
  BY <1>3, <1>5
<1>7. PICK p : p = [d EXCEPT !.at = "number", !.tries = t]
  OBVIOUS
<1>8. /\ p \in EditorPlan /\ p.call = d.call /\ p.at = "number" /\ p.add = d.add
      /\ p.from = d.from /\ p.tries = t
  BY <1>7 DEF EditorPlan
<1>9. EditorFine(p)
  BY <1>1, <1>2, <1>4, <1>5, <1>6, <1>8 DEF EditorFine, NewCardFine
<1>10. editor' = [editor EXCEPT ![w] = p] /\ record' = record /\ added' = added
  <2>1. editor' = [editor EXCEPT ![w] = [editor[w] EXCEPT !.at = "number", !.tries = editor[w].tries + 1]]
    BY CatalogueParts DEF TryAgain
  <2> QED BY <1>1, <1>6, <1>7, <2>1 DEF TryAgain
<1> QED BY <1>8, <1>9, <1>10, PlansOnly

LEMMA PutDownKeeps ==
  ASSUME CatalogueInv, NEW w \in Editors, PutDown(w)
  PROVE  CatalogueInv'
BY PlansOnly DEF PutDown, PutAside

-----------------------------------------------------------------------------
(* Steps that write a card *)

(* The row a card is given agrees with every other active card. *)
Agrees(n, row) ==
    \A m \in Taken : m # n /\ ActiveCard(m) /\ row.status = "active"
                     /\ record[m].isbn = row.isbn /\ row.isbn # NoIsbn
                     => \/ record[m].fund # row.fund \/ record[m].adopted \/ row.adopted

LEMMA IsbnsStay ==
  ASSUME CatalogueInv, NEW n \in Numbers, NEW row \in RecordType, Agrees(n, row),
         record' = [record EXCEPT ![n] = row]
  PROVE  IsbnsApart'
<1>0. IsbnsApart /\ record \in [Numbers -> RecordType]
  BY CatalogueParts
<1>1. record'[n] = row /\ \A m \in Numbers : m # n => record'[m] = record[m]
  BY <1>0
<1>2. SUFFICES ASSUME NEW a \in Taken', NEW b \in Taken', a # b, ActiveCard(a)', ActiveCard(b)',
                      record'[a].isbn = record'[b].isbn, record'[a].isbn # NoIsbn
               PROVE  \/ record'[a].fund # record'[b].fund \/ record'[a].adopted
                      \/ record'[b].adopted
  BY DEF IsbnsApart
<1>3. a \in Numbers /\ b \in Numbers /\ record'[a].status = "active" /\ record'[b].status = "active"
  BY <1>2 DEF ActiveCard
<1>4. \A m \in Numbers : m # n /\ record'[m].status = "active" => m \in Taken /\ ActiveCard(m)
  BY <1>1 DEF Taken, ActiveCard
<1>5. CASE a = n
  BY <1>1, <1>2, <1>3, <1>4, <1>5 DEF Agrees
<1>6. CASE b = n
  BY <1>1, <1>2, <1>3, <1>4, <1>6 DEF Agrees
<1>7. CASE a # n /\ b # n
  BY <1>0, <1>1, <1>2, <1>3, <1>4, <1>7 DEF IsbnsApart
<1> QED BY <1>5, <1>6, <1>7

LEMMA EditorsStay ==
  ASSUME CatalogueInv, NEW w \in Editors, PutAside(w), Taken \subseteq Taken', Highest <= Highest',
         \A n \in Taken : record[n].fund = "literature" => record'[n].fund = "literature"
  PROVE  EditorsFine' /\ editor' \in [Editors -> EditorPlan \cup {Aside}]
<1>0. editor \in [Editors -> EditorPlan \cup {Aside}] /\ EditorsFine
  BY CatalogueParts
<1>1. /\ editor' \in [Editors -> EditorPlan \cup {Aside}] /\ editor'[w] = Aside
      /\ \A u \in Editors : u # w => editor'[u] = editor[u]
  BY <1>0 DEF PutAside
<1>2. ASSUME NEW u \in Editors, editor'[u] # Aside PROVE EditorFine(editor[u])'
  <2>1. PICK p \in EditorPlan : p = editor'[u] /\ p = editor[u] /\ p # Aside
    BY <1>1, <1>2
  <2>2. EditorFine(p)
    BY <1>0, <2>1 DEF EditorsFine
  <2>3. EditorFine(p)'
    BY <2>2, EditorStays
  <2> QED BY <2>1, <2>3
<1> QED BY <1>1, <1>2 DEF EditorsFine

LEMMA CardRewritten ==
  ASSUME CatalogueInv, NEW w \in Editors, NEW n \in Taken, NEW row \in RecordType,
         row.status # "none", record[n].fund = "literature" => row.fund = "literature",
         Agrees(n, row), record' = [record EXCEPT ![n] = row], PutAside(w), added' = added
  PROVE  CatalogueInv'
<1>0. /\ CatalogueTypeOK /\ NumbersGiven /\ record \in [Numbers -> RecordType]
      /\ n \in Numbers
  BY CatalogueParts DEF Taken
<1>1. /\ record' \in [Numbers -> RecordType] /\ record'[n] = row
      /\ \A m \in Numbers : m # n => record'[m] = record[m]
  BY <1>0
<1>2. Taken' = Taken
  BY <1>1 DEF Taken
<1>3. Highest' = Highest
  BY <1>2 DEF Highest
<1>4. IsbnsApart'
  BY <1>0, IsbnsStay
<1>5. NumbersGiven'
  BY <1>0, <1>2, <1>3 DEF NumbersGiven
<1>6. EditorsFine' /\ editor' \in [Editors -> EditorPlan \cup {Aside}]
  <2>1. \A m \in Taken : record[m].fund = "literature" => record'[m].fund = "literature"
    BY <1>1 DEF Taken
  <2>2. Highest <= Highest'
    BY <1>3, HighestIs
  <2> QED BY <1>2, <2>1, <2>2, EditorsStay
<1>7. CatalogueTypeOK'
  BY <1>0, <1>1, <1>6 DEF CatalogueTypeOK
<1> QED BY <1>4, <1>5, <1>6, <1>7 DEF CatalogueInv

LEMMA CommitCardKeeps ==
  ASSUME CatalogueInv, NEW w \in Editors, CommitCard(w)
  PROVE  CatalogueInv'
<1>0. /\ CatalogueTypeOK /\ NumbersGiven /\ record \in [Numbers -> RecordType]
      /\ added \in [Adds -> 0 .. MaxNumber] /\ MaxNumber \in Nat /\ MaxRecordVersion \in Nat \ {0}
  BY CatalogueParts
<1>1. PICK d \in EditorPlan : /\ d = editor[w] /\ d # Aside /\ d.call \in NewCalls
                              /\ d.at = "batch" /\ EditorFine(d)
  BY CatalogueParts DEF CommitCard, Editing, EditorsFine
<1>2. /\ d.add \in Adds /\ d.from + d.tries < d.number /\ d.number <= Highest + 1
      /\ d.from \in Nat /\ d.tries \in Nat /\ d.number \in Nat
      /\ d.isbn \in Isbns \cup {NoIsbn}
  BY <1>1, PlanShape DEF EditorFine, NewCardFine
<1>3. PICK n \in Numbers : n = d.number
  BY <1>1 DEF CommitCard
<1>4. added[d.add] = 0 /\ n \notin Taken
  BY <1>1, <1>3 DEF CommitCard, Granted, NumberFree
<1>5. PICK h \in 0 .. MaxNumber : h = Highest /\ h \in Nat /\ Taken = 1 .. h
  BY <1>0, HighestIs DEF NumbersGiven
<1>6. n = h + 1 /\ n \in Nat /\ n # 0
  BY <1>2, <1>3, <1>4, <1>5
<1>7. PICK f \in {"education", "literature"} :
          f = IF d.call = "create" THEN "education" ELSE "literature"
  OBVIOUS
<1>8. PICK row : row = [NoRecord EXCEPT !.status = "active", !.isbn = d.isbn, !.ver = 1, !.fund = f]
  OBVIOUS
<1>9. /\ row \in RecordType /\ row.status = "active" /\ row.isbn = d.isbn /\ row.fund = f
      /\ row.adopted = FALSE
  <2>1. 1 \in 0 .. MaxRecordVersion
    BY <1>0
  <2>2. row = [status |-> "active", isbn |-> d.isbn, fund |-> f, adopted |-> FALSE,
               ver |-> 1, links |-> {}]
    BY <1>8 DEF NoRecord
  <2> QED BY <1>2, <2>1, <2>2 DEF RecordType
<1>10. record' = [record EXCEPT ![n] = row] /\ added' = [added EXCEPT ![d.add] = n] /\ PutAside(w)
  BY <1>1, <1>3, <1>7, <1>8 DEF CommitCard
<1>11. /\ record' \in [Numbers -> RecordType] /\ record'[n] = row
       /\ \A m \in Numbers : m # n => record'[m] = record[m]
  BY <1>0, <1>9, <1>10
<1>12. Taken' = Taken \cup {n}
  BY <1>9, <1>11 DEF Taken
<1>13. Taken' = 1 .. n
  BY <1>5, <1>6, <1>12
<1>14. Highest' = n
  BY <1>6, <1>13, HighestNext
<1>15. /\ added' \in [Adds -> 0 .. MaxNumber] /\ added'[d.add] = n
       /\ \A r \in Adds : r # d.add => added'[r] = added[r]
  BY <1>0, <1>2, <1>10 DEF Numbers
<1>16. NumbersGiven'
  <2>1. \A r \in Adds : added'[r] # 0 => added'[r] \in Taken'
    BY <1>0, <1>12, <1>15 DEF NumbersGiven
  <2>2. ASSUME NEW m \in Taken'
        PROVE  \E r \in Adds : added'[r] = m /\ \A q \in Adds : added'[q] = m => q = r
    <3>1. CASE m = n
      <4>1. \A q \in Adds : added[q] # n
        BY <1>0, <1>4, <1>6 DEF NumbersGiven
      <4> QED BY <1>2, <1>15, <3>1, <4>1
    <3>2. CASE m # n
      <4>1. m \in Taken /\ m # 0
        BY <1>5, <1>12, <3>2
      <4>2. PICK r \in Adds : added[r] = m /\ \A q \in Adds : added[q] = m => q = r
        BY <1>0, <4>1 DEF NumbersGiven
      <4> QED BY <1>4, <1>15, <3>2, <4>1, <4>2
    <3> QED BY <3>1, <3>2
  <2> QED BY <1>13, <1>14, <2>1, <2>2 DEF NumbersGiven
<1>17. Agrees(n, row)
  <2>1. CASE d.call = "shelve"
    <3>1. f = "literature" /\ FreeAmongLiterature(d.isbn, 0)
      BY <1>1, <1>7, <2>1 DEF CommitCard, Granted
    <3>2. \A m \in Taken : m \in Numbers \ {0} /\ record[m].fund \in {"education", "literature"}
      BY <1>0, RecordShape DEF Taken, Numbers
    <3> QED BY <1>9, <3>1, <3>2 DEF Agrees, FreeAmongLiterature, LiteratureCard
  <2>2. CASE d.call # "shelve"
    <3>1. FreeIsbn(d.isbn, 0)
      BY <1>1, <2>2 DEF CommitCard, Granted
    <3>2. \A m \in Taken : m \in Numbers \ {0}
      BY <1>0 DEF Taken, Numbers
    <3> QED BY <1>9, <3>1, <3>2 DEF Agrees, FreeIsbn
  <2> QED BY <2>1, <2>2
<1>18. IsbnsApart'
  BY <1>9, <1>10, <1>17, IsbnsStay
<1>19. EditorsFine' /\ editor' \in [Editors -> EditorPlan \cup {Aside}]
  <2>1. \A m \in Taken : record[m].fund = "literature" => record'[m].fund = "literature"
    BY <1>4, <1>11 DEF Taken
  <2>2. Highest <= Highest' /\ Taken \subseteq Taken'
    BY <1>5, <1>6, <1>12, <1>14
  <2> QED BY <1>10, <2>1, <2>2, EditorsStay
<1>20. CatalogueTypeOK'
  BY <1>11, <1>15, <1>19 DEF CatalogueTypeOK
<1> QED BY <1>16, <1>18, <1>19, <1>20 DEF CatalogueInv

(* What every change of a card has in common. *)
LEMMA ChangeOf ==
  ASSUME CatalogueInv, NEW w \in Editors, NEW c \in CardCalls, Editing(w, c)
  PROVE  /\ editor[w] \in EditorPlan /\ editor[w].number \in Taken /\ editor[w].call = c
         /\ editor[w].ver \in 0 .. MaxRecordVersion /\ editor[w].ver < MaxRecordVersion
         /\ editor[w].isbn \in Isbns \cup {NoIsbn} /\ editor[w].links \in SUBSET Urls
         /\ c = "revise" => record[editor[w].number].fund = "literature"
         /\ record[editor[w].number] \in RecordType
<1>1. PICK d \in EditorPlan : d = editor[w] /\ d.call = c /\ EditorFine(d)
  BY CatalogueParts DEF Editing, EditorsFine
<1>2. CardChangeFine(d)
  BY <1>1 DEF EditorFine, NewCalls, CardCalls
<1> QED BY <1>1, <1>2, PlanShape, CatalogueParts DEF CardChangeFine, Taken

LEMMA CommitEditKeeps ==
  ASSUME CatalogueInv, NEW w \in Editors, CommitEdit(w)
  PROVE  CatalogueInv'
<1>1. PICK p \in EditorPlan : p = editor[w]
  BY CatalogueParts DEF CommitEdit, Editing
<1>2. PICK n \in Taken : n = p.number
  BY <1>1, ChangeOf DEF CommitEdit, CardCalls
<1>3. PICK d \in RecordType : d = record[n]
  BY <1>1, <1>2, ChangeOf DEF CommitEdit, CardCalls
<1>4. d.status = "active" /\ d.fund = "education" /\ d.ver < MaxRecordVersion /\ FreeIsbn(p.isbn, n)
  BY <1>1, <1>2, <1>3, ChangeOf DEF CommitEdit, CardCalls, Textbook, ActiveCard, SameVersion
<1>5. PICK v \in 0 .. MaxRecordVersion : v = d.ver + 1
  BY <1>4, RecordShape, CatalogueAssumption
<1>6. PICK row : row = [d EXCEPT !.isbn = p.isbn, !.links = p.links, !.ver = v]
  OBVIOUS
<1>7. row \in RecordType /\ row.status = "active" /\ row.isbn = p.isbn
  BY <1>4, <1>6, PlanShape DEF RecordType
<1>8. record' = [record EXCEPT ![n] = row] /\ PutAside(w) /\ added' = added
  BY <1>1, <1>2, <1>3, <1>5, <1>6 DEF CommitEdit, Rewrite
<1>9. Agrees(n, row)
  BY <1>4, <1>7 DEF Agrees, FreeIsbn, Taken
<1> QED BY <1>3, <1>4, <1>7, <1>8, <1>9, CardRewritten

LEMMA CommitEbookKeeps ==
  ASSUME CatalogueInv, NEW w \in Editors, CommitEbook(w)
  PROVE  CatalogueInv'
<1>1. PICK p \in EditorPlan : p = editor[w]
  BY CatalogueParts DEF CommitEbook, Editing
<1>2. PICK n \in Taken : n = p.number
  BY <1>1, ChangeOf DEF CommitEbook, CardCalls
<1>3. PICK d \in RecordType : d = record[n]
  BY <1>1, <1>2, ChangeOf DEF CommitEbook, CardCalls
<1>4. d.status = "active" /\ d.fund = "education" /\ d.ver < MaxRecordVersion
  BY <1>1, <1>2, <1>3, ChangeOf DEF CommitEbook, CardCalls, Textbook, ActiveCard, SameVersion
<1>5. PICK v \in 0 .. MaxRecordVersion : v = d.ver + 1
  BY <1>4, RecordShape, CatalogueAssumption
<1>6. PICK us \in SUBSET Urls : us = d.links \cup p.links
  BY RecordShape, PlanShape
<1>7. PICK row : row = [d EXCEPT !.links = us, !.ver = v]
  OBVIOUS
<1>8. /\ row \in RecordType /\ row.status = d.status /\ row.isbn = d.isbn /\ row.fund = d.fund
      /\ row.adopted = d.adopted
  BY <1>7 DEF RecordType
<1>9. record' = [record EXCEPT ![n] = row] /\ PutAside(w) /\ added' = added
  BY <1>1, <1>2, <1>3, <1>5, <1>6, <1>7 DEF CommitEbook, Rewrite
<1>10. Agrees(n, row)
  BY <1>3, <1>8, CatalogueParts DEF Agrees, IsbnsApart, ActiveCard, Taken
<1> QED BY <1>3, <1>4, <1>8, <1>9, <1>10, CardRewritten

LEMMA CommitReviseKeeps ==
  ASSUME CatalogueInv, NEW w \in Editors, CommitRevise(w)
  PROVE  CatalogueInv'
<1>1. PICK p \in EditorPlan : p = editor[w]
  BY CatalogueParts DEF CommitRevise, Editing
<1>2. PICK n \in Taken : n = p.number
  BY <1>1, ChangeOf DEF CommitRevise, CardCalls
<1>3. PICK d \in RecordType : d = record[n]
  BY <1>1, <1>2, ChangeOf DEF CommitRevise, CardCalls
<1>4. /\ d.status = "active" /\ d.fund = "literature" /\ d.ver < MaxRecordVersion
      /\ FreeAmongLiterature(p.isbn, n)
  BY <1>1, <1>2, <1>3, ChangeOf DEF CommitRevise, CardCalls, ActiveCard, SameVersion
<1>5. PICK v \in 0 .. MaxRecordVersion : v = d.ver + 1
  BY <1>4, RecordShape, CatalogueAssumption
<1>6. PICK row : row = [d EXCEPT !.isbn = p.isbn, !.ver = v]
  OBVIOUS
<1>7. row \in RecordType /\ row.status = "active" /\ row.isbn = p.isbn /\ row.fund = "literature"
  BY <1>4, <1>6, PlanShape DEF RecordType
<1>8. record' = [record EXCEPT ![n] = row] /\ PutAside(w) /\ added' = added
  BY <1>1, <1>2, <1>3, <1>5, <1>6 DEF CommitRevise, Rewrite
<1>9. \A m \in Taken : m \in Numbers /\ record[m].fund \in {"education", "literature"}
  BY CatalogueParts, RecordShape DEF Taken
<1>10. Agrees(n, row)
  BY <1>4, <1>7, <1>9 DEF Agrees, FreeAmongLiterature, LiteratureCard
<1> QED BY <1>3, <1>7, <1>8, <1>10, CardRewritten

LEMMA CommitLeaveKeeps ==
  ASSUME CatalogueInv, NEW w \in Editors, CommitLeave(w)
  PROVE  CatalogueInv'
<1>1. PICK n \in Taken : n = editor[w].number
  BY ChangeOf DEF CommitLeave, CardCalls
<1>2. PICK d \in RecordType : d = record[n]
  BY <1>1, ChangeOf DEF CommitLeave, CardCalls
<1>3. d.fund = "education" /\ d.ver < MaxRecordVersion
  BY <1>1, <1>2, ChangeOf DEF CommitLeave, CardCalls, Textbook, SameVersion
<1>4. PICK v \in 0 .. MaxRecordVersion : v = d.ver + 1
  BY <1>3, RecordShape, CatalogueAssumption
<1>5. PICK row : row = [d EXCEPT !.status = "archived", !.ver = v]
  OBVIOUS
<1>6. row \in RecordType /\ row.status = "archived"
  BY <1>5 DEF RecordType
<1>7. record' = [record EXCEPT ![n] = row] /\ PutAside(w) /\ added' = added
  BY <1>1, <1>2, <1>4, <1>5 DEF CommitLeave, Rewrite
<1>8. Agrees(n, row)
  BY <1>6 DEF Agrees
<1> QED BY <1>2, <1>3, <1>6, <1>7, <1>8, CardRewritten

LEMMA CommitAdoptKeeps ==
  ASSUME CatalogueInv, NEW w \in Editors, CommitAdopt(w)
  PROVE  CatalogueInv'
<1>1. PICK n \in Taken : n = editor[w].number
  BY ChangeOf DEF CommitAdopt, CardCalls
<1>2. PICK d \in RecordType : d = record[n]
  BY <1>1, ChangeOf DEF CommitAdopt, CardCalls
<1>3. d.status = "active"
  BY <1>1, <1>2 DEF CommitAdopt, Textbook, ActiveCard
<1>4. PICK row : row = [d EXCEPT !.fund = "literature", !.adopted = TRUE]
  OBVIOUS
<1>5. row \in RecordType /\ row.status = "active" /\ row.fund = "literature" /\ row.adopted
  BY <1>3, <1>4 DEF RecordType
<1>6. record' = [record EXCEPT ![n] = row] /\ PutAside(w) /\ added' = added
  BY <1>1, <1>2, <1>4 DEF CommitAdopt, Rewrite
<1>7. Agrees(n, row)
  BY <1>5 DEF Agrees
<1> QED BY <1>5, <1>6, <1>7, CardRewritten

LEMMA CatalogueStutters == CatalogueInv /\ UNCHANGED catalogueVars => CatalogueInv'
BY DEF catalogueVars, CatalogueInv, CatalogueTypeOK, EditorsFine, EditorFine, NewCardFine,
       CardChangeFine, NumbersGiven, IsbnsApart, Taken, Highest, ActiveCard

LEMMA CatalogueStep == CatalogueInv /\ [CatalogueNext]_catalogueVars => CatalogueInv'
<1> SUFFICES ASSUME CatalogueInv, CatalogueNext PROVE CatalogueInv'
  BY CatalogueStutters
<1>1. PICK w \in Editors :
      \/ \E c \in NewCalls, r \in Adds, i \in Isbns \cup {NoIsbn} : PlanCard(w, c, r, i)
      \/ \E n \in Numbers :
           \/ \E i \in Isbns \cup {NoIsbn}, us \in SUBSET Urls : PlanEdit(w, n, i, us)
           \/ \E u \in Urls : PlanEbook(w, n, u)
           \/ \E i \in Isbns \cup {NoIsbn} : PlanRevise(w, n, i)
           \/ PlanLeave(w, n) \/ PlanAdopt(w, n)
      \/ ReadMaximum(w) \/ CommitCard(w) \/ TryAgain(w)
      \/ CommitEdit(w) \/ CommitEbook(w) \/ CommitRevise(w) \/ CommitLeave(w)
      \/ CommitAdopt(w) \/ PutDown(w)
  BY DEF CatalogueNext
<1>2. ASSUME NEW c \in NewCalls, NEW r \in Adds, NEW i \in Isbns \cup {NoIsbn}, PlanCard(w, c, r, i)
      PROVE  CatalogueInv'
  BY <1>2, PlanCardKeeps
<1>3. ASSUME NEW n \in Numbers,
             \/ \E i \in Isbns \cup {NoIsbn}, us \in SUBSET Urls : PlanEdit(w, n, i, us)
             \/ \E u \in Urls : PlanEbook(w, n, u)
             \/ \E i \in Isbns \cup {NoIsbn} : PlanRevise(w, n, i)
             \/ PlanLeave(w, n) \/ PlanAdopt(w, n)
      PROVE  CatalogueInv'
  BY <1>3, CardPlansKeep
<1>4. CASE ReadMaximum(w) \/ TryAgain(w) \/ PutDown(w)
  BY <1>4, ReadMaximumKeeps, TryAgainKeeps, PutDownKeeps
<1>5. CASE CommitCard(w)
  BY <1>5, CommitCardKeeps
<1>6. CASE CommitEdit(w) \/ CommitEbook(w) \/ CommitRevise(w) \/ CommitLeave(w) \/ CommitAdopt(w)
  BY <1>6, CommitEditKeeps, CommitEbookKeeps, CommitReviseKeeps, CommitLeaveKeeps, CommitAdoptKeeps
<1> QED BY <1>1, <1>2, <1>3, <1>4, <1>5, <1>6

LEMMA CatalogueInvSound == CatalogueInv => CatalogueSound
<1> SUFFICES ASSUME CatalogueInv PROVE CatalogueSound
  OBVIOUS
<1>0. NumbersGiven /\ IsbnsApart /\ EditorsFine /\ editor \in [Editors -> EditorPlan \cup {Aside}]
  BY CatalogueParts
<1>1. ASSUME NEW n \in Taken PROVE Cardinality({r \in Adds : added[r] = n}) = 1
  <2>1. PICK r \in Adds : added[r] = n /\ \A q \in Adds : added[q] = n => q = r
    BY <1>0 DEF NumbersGiven
  <2>2. {q \in Adds : added[q] = n} = {r}
    BY <2>1
  <2> QED BY <2>2, FS_Singleton
<1>2. NumbersInTurn
  BY <1>0, <1>1 DEF NumbersInTurn, NumbersGiven
<1>3. BeatenEachTry
  <2> SUFFICES ASSUME NEW w \in Editors, editor[w] # Aside, editor[w].tries > 0
               PROVE  Highest >= editor[w].from + editor[w].tries
    BY DEF BeatenEachTry
  <2>1. PICK p \in EditorPlan : p = editor[w] /\ EditorFine(p) /\ p.tries > 0
    BY <1>0 DEF EditorsFine
  <2>2. p.from \in Nat /\ p.tries \in Nat /\ Highest \in Nat
    BY PlanShape, HighestIs
  <2>3. CASE p.call \in NewCalls
    BY <2>1, <2>2, <2>3 DEF EditorFine, NewCardFine
  <2>4. CASE p.call \notin NewCalls
    BY <2>1, <2>2, <2>4 DEF EditorFine, CardChangeFine
  <2> QED BY <2>1, <2>2, <2>3, <2>4
<1> QED BY <1>0, <1>2, <1>3 DEF CatalogueSound

LEMMA AdoptedCardsStay ==
  ASSUME CatalogueInv, [CatalogueNext]_catalogueVars
  PROVE  AdoptedStep
<1> SUFFICES ASSUME NEW n \in Numbers, LiteratureCard(n), record'[n] # record[n]
             PROVE  \E w \in Editors : Editing(w, "revise")
  BY DEF AdoptedStep
<1>1. record \in [Numbers -> RecordType] /\ n \in Taken
  BY CatalogueParts DEF LiteratureCard, ActiveCard, Taken
<1>2. record' # record
  OBVIOUS
<1>3. PICK w \in Editors : \/ CommitCard(w) \/ CommitEdit(w) \/ CommitEbook(w) \/ CommitRevise(w)
                           \/ CommitLeave(w) \/ CommitAdopt(w)
  <2>1. \A w \in Editors :
          /\ ~(\E c \in NewCalls, r \in Adds, i \in Isbns \cup {NoIsbn} : PlanCard(w, c, r, i))
          /\ ~ReadMaximum(w) /\ ~TryAgain(w) /\ ~PutDown(w)
    BY <1>2 DEF PlanCard, ReadMaximum, TryAgain, PutDown
  <2>2. \A w, c, m, i, us : ~ChangesCard(w, c, m, i, us)
    BY <1>2 DEF ChangesCard
  <2>3. \A w, m : /\ \A i, us : ~PlanEdit(w, m, i, us)
                  /\ \A u : ~PlanEbook(w, m, u)
                  /\ \A i : ~PlanRevise(w, m, i)
                  /\ ~PlanLeave(w, m) /\ ~PlanAdopt(w, m)
    BY <2>2 DEF PlanEdit, PlanEbook, PlanRevise, PlanLeave, PlanAdopt
  <2>4. CatalogueNext
    BY <1>2 DEF catalogueVars
  <2> QED BY <2>1, <2>3, <2>4 DEF CatalogueNext
<1>4. \A m, row : record' = [record EXCEPT ![m] = row] => m = n
  BY <1>1
<1>5. CASE CommitCard(w)
  BY <1>1, <1>4, <1>5 DEF CommitCard, NumberFree
<1>6. CASE CommitEdit(w) \/ CommitEbook(w) \/ CommitLeave(w) \/ CommitAdopt(w)
  <2>1. Textbook(editor[w].number) /\ \E row : record' = [record EXCEPT ![editor[w].number] = row]
    BY <1>6 DEF CommitEdit, CommitEbook, CommitLeave, CommitAdopt, Rewrite
  <2> QED BY <1>4, <2>1 DEF Textbook, LiteratureCard
<1>7. CASE CommitRevise(w)
  BY <1>7 DEF CommitRevise
<1> QED BY <1>3, <1>5, <1>6, <1>7

LEMMA CatalogueHolds == CatalogueSpec => []CatalogueInv
BY CatalogueStart, CatalogueStep, PTL DEF CatalogueSpec

(* The cards, the requests that made them and what editors are about to     *)
(* write keep their types: a number that is written is one of the catalogue.*)
THEOREM CatalogueTyped == CatalogueSpec => []CatalogueTypeOK
<1>1. CatalogueInv => CatalogueTypeOK
  BY DEF CatalogueInv
<1> QED BY <1>1, CatalogueHolds, PTL

(* Active cards of one kind do not share an ISBN, numbers are given without *)
(* a gap, each by one request, and whoever tries again was beaten each time.*)
THEOREM CatalogueSafe == CatalogueSpec => []CatalogueSound
BY CatalogueHolds, CatalogueInvSound, PTL

(* The textbooks' editor never rewrites a card that literature adopted.     *)
THEOREM AdoptedStays == CatalogueSpec => [][AdoptedStep]_catalogueVars
BY CatalogueHolds, AdoptedCardsStay, PTL DEF CatalogueSpec

-----------------------------------------------------------------------------
(* The plan of purchases: the inductive invariant                          *)

(* The version of what the plan holds: signing counts, and changes nothing. *)
ContentVersion == IF plan.status = "finalized" THEN plan.at[1] ELSE plan.ver
Confirmed == plan.sure /\ \A g \in Groups : intake[g] # "unknown"

(* A handler that signs has seen no later version than there is, and while *)
(* it is the same, what it read is what there is.                          *)
Unread(c) == IF c.step = "read" THEN c.left ELSE {}
SigningFine(c) ==
    /\ c.step \in {"begun", "read", "numbered"} =>
         c.at[1] <= ContentVersion /\ c.at[1] < MaxPlan /\ plan.status # "none"
    /\ c.step \in {"read", "numbered"} /\ c.at[1] = ContentVersion =>
         Confirmed /\ \A t \in Tables \ Unread(c) : c.what[t] = Drawn[t]
PlannersFine == \A b \in Planners : planner[b] # Unhurried => SigningFine(planner[b])

RowFine ==
    /\ plan.status = "finalized" => plan.at[1] + 1 = plan.ver
    /\ plan.status = "none" => plan.ver = 0

PlanInv ==
    /\ PlanTypeOK /\ RowFine /\ PlannersFine
    /\ SignedAsRead /\ NeedsStand

LEMMA RowTyped ==
  ASSUME plan \in PlanRow
  PROVE  /\ plan.status \in {"none", "draft", "finalized"} /\ plan.ver \in 0..MaxPlan
         /\ plan.sure \in BOOLEAN /\ plan.at \in Millis /\ plan.at[1] \in 0..MaxPlan
         /\ plan.ver \in Int /\ ContentVersion \in Int /\ MaxPlan \in Int
BY PlanBound DEF PlanRow, Millis, ContentVersion

LEMMA SigningTyped ==
  ASSUME NEW c \in Signing
  PROVE  /\ c.step \in {"begun", "read", "numbered", "prefill"}
         /\ c.step \in {"begun", "read", "numbered"} =>
              c.at \in Millis /\ c.at[1] \in Int /\ c.at[1] \in 0..MaxPlan
         /\ c.step = "read" => /\ c \in [step : {"read"}, at : Millis, what : Contents, left : SUBSET Tables]
                               /\ c.left \in SUBSET Tables
         /\ c.step = "numbered" => c \in [step : {"numbered"}, at : Millis, what : Contents,
                                          place : Nat \ {0}]
         /\ c.step = "prefill" => c \in [step : {"prefill"}, todo : SUBSET Groups]
         /\ c.step \in {"read", "numbered"} => c.what \in Contents
<1> USE DEF Signing
<1>1. CASE c \in [step : {"begun"}, at : Millis]
  BY <1>1, PlanBound DEF Millis
<1>2. CASE c \in [step : {"read"}, at : Millis, what : Contents, left : SUBSET Tables]
  BY <1>2, PlanBound DEF Millis
<1>3. CASE c \in [step : {"numbered"}, at : Millis, what : Contents, place : Nat \ {0}]
  BY <1>3, PlanBound DEF Millis
<1>4. CASE c \in [step : {"prefill"}, todo : SUBSET Groups]
  BY <1>4
<1> QED BY <1>1, <1>2, <1>3, <1>4

LEMMA PlanParts ==
  ASSUME PlanInv
  PROVE  /\ PlanTypeOK /\ RowFine /\ PlannersFine /\ SignedAsRead /\ NeedsStand
         /\ plan \in PlanRow /\ intake \in [Groups -> Counts] /\ listed \subseteq Resources
         /\ demand \subseteq Resources \X Groups /\ literature \subseteq Literary
         /\ snapshots \in Seq(Contents) /\ planner \in [Planners -> Signing \cup {Unhurried}]
BY DEF PlanInv, PlanTypeOK

LEMMA DrawnTyped ==
  ASSUME PlanTypeOK
  PROVE  /\ Drawn \in Contents /\ Drawn["classes"] = intake /\ Drawn["books"] = listed
         /\ Drawn["needs"] = demand
BY DEF PlanTypeOK, Drawn, Contents

LEMMA PlanStart == PlanInit => PlanInv
<1> SUFFICES ASSUME PlanInit PROVE PlanInv
  OBVIOUS
<1> USE DEF PlanInit
<1>1. plan \in PlanRow
  <2>1. <<0, 0>> \in Millis /\ 0 \in 0..MaxPlan
    BY PlanBound DEF Millis
  <2> QED BY <2>1 DEF PlanRow
<1>2. PlanTypeOK
  BY <1>1 DEF PlanTypeOK, Counts
<1>3. RowFine /\ PlannersFine /\ SignedAsRead
  BY DEF RowFine, PlannersFine, SignedAsRead
<1>4. NeedsStand
  BY DEF NeedsStand
<1> QED BY <1>2, <1>3, <1>4 DEF PlanInv

(* What a handler read stays what there is, or it will come too late. *)
LEMMA FineOnward ==
  ASSUME plan \in PlanRow, plan' \in PlanRow, ContentVersion <= ContentVersion',
         ContentVersion' = ContentVersion => Drawn' = Drawn /\ (Confirmed => Confirmed'),
         plan'.status # "none", NEW c \in Signing, SigningFine(c)
  PROVE  SigningFine(c)'
<1>1. ContentVersion \in Int
  BY RowTyped
<1>2. ContentVersion' \in Int
  BY PlanBound DEF PlanRow, Millis, ContentVersion
<1>3. c.step \in {"begun", "read", "numbered"} => c.at[1] \in Int
  BY SigningTyped
<1> QED BY <1>1, <1>2, <1>3 DEF SigningFine, Unread

LEMMA NeedsKept ==
  ASSUME NeedsStand, snapshots' = snapshots,
         \A x \in demand' : x[1] \in listed' /\ intake'[x[2]] # "absent"
  PROVE  NeedsStand'
BY DEF NeedsStand, Present

(* Every step that leaves a draft of a later version. *)
LEMMA DraftChanges ==
  ASSUME PlanInv, plan' \in PlanRow, plan'.status = "draft", ContentVersion < plan'.ver,
         intake' \in [Groups -> Counts], listed' \subseteq Resources,
         demand' \subseteq Resources \X Groups, literature' = literature, snapshots' = snapshots,
         \A x \in demand' : x[1] \in listed' /\ intake'[x[2]] # "absent",
         planner' \in [Planners -> Signing \cup {Unhurried}],
         \A b \in Planners : \/ planner'[b] = planner[b]
                             \/ planner'[b] = Unhurried
                             \/ planner'[b].step = "prefill"
  PROVE  PlanInv'
<1>0. /\ PlanTypeOK /\ PlannersFine /\ NeedsStand /\ plan \in PlanRow
      /\ planner \in [Planners -> Signing \cup {Unhurried}]
  BY PlanParts
<1>1. PlanTypeOK'
  BY <1>0 DEF PlanTypeOK
<1>2. RowFine' /\ SignedAsRead'
  BY DEF RowFine, SignedAsRead
<1>3. NeedsStand'
  BY <1>0, NeedsKept
<1>4. ContentVersion \in Int /\ ContentVersion' = plan'.ver /\ plan'.ver \in Int
  BY <1>0, RowTyped, PlanBound DEF ContentVersion, PlanRow
<1>5. ContentVersion <= ContentVersion' /\ ContentVersion' # ContentVersion
  BY <1>4
<1>6. PlannersFine'
  <2> SUFFICES ASSUME NEW b \in Planners, planner'[b] # Unhurried PROVE SigningFine(planner[b])'
    BY DEF PlannersFine
  <2>1. PICK c \in Signing : c = planner'[b]
    OBVIOUS
  <2>2. CASE c = planner[b]
    <3>1. SigningFine(c)
      BY <1>0, <2>1, <2>2 DEF PlannersFine
    <3>2. SigningFine(c)'
      BY <1>0, <1>5, <3>1, FineOnward
    <3> QED BY <2>1, <3>2
  <2>3. CASE c.step = "prefill"
    <3>1. SigningFine(c)'
      BY <2>3 DEF SigningFine
    <3> QED BY <2>1, <3>1
  <2> QED BY <2>1, <2>2, <2>3
<1> QED BY <1>1, <1>2, <1>3, <1>6 DEF PlanInv

(* Every step of a handler that only reads. *)
LEMMA HandlerReads ==
  ASSUME PlanInv, NEW b \in Planners, NEW c \in Signing \cup {Unhurried},
         PlannerAt(b, c), Hold, c # Unhurried => SigningFine(c)
  PROVE  PlanInv'
<1>0. /\ PlanTypeOK /\ PlannersFine /\ NeedsStand /\ SignedAsRead /\ RowFine
      /\ planner \in [Planners -> Signing \cup {Unhurried}]
  BY PlanParts
<1>1. planner' = [planner EXCEPT ![b] = c]
  BY DEF PlannerAt
<1>2. /\ planner' \in [Planners -> Signing \cup {Unhurried}] /\ planner'[b] = c
      /\ \A h \in Planners : h # b => planner'[h] = planner[h]
  BY <1>0, <1>1
<1>3. plan' = plan /\ intake' = intake /\ listed' = listed /\ demand' = demand
      /\ literature' = literature /\ snapshots' = snapshots
  BY DEF Hold
<1>4. PlanTypeOK' /\ RowFine'
  BY <1>0, <1>2, <1>3 DEF PlanTypeOK, RowFine
<1>5. SignedAsRead' /\ NeedsStand'
  BY <1>0, <1>3 DEF SignedAsRead, NeedsStand, Drawn, Present
<1>6. PlannersFine'
  <2> SUFFICES ASSUME NEW h \in Planners, planner'[h] # Unhurried PROVE SigningFine(planner[h])'
    BY DEF PlannersFine
  <2>1. PICK d \in Signing : d = planner'[h]
    BY <1>2
  <2>2. SigningFine(d)
    BY <1>0, <1>2, <2>1 DEF PlannersFine
  <2>3. SigningFine(d)'
    BY <1>3, <2>2 DEF SigningFine, ContentVersion, Confirmed, Drawn, Unread
  <2> QED BY <2>1, <2>3
<1> QED BY <1>4, <1>5, <1>6 DEF PlanInv

-----------------------------------------------------------------------------
(* The edits *)

LEMMA CountedIs ==
  ASSUME PlanInv, Draft, plan.ver < MaxPlan, NEW s \in BOOLEAN,
         plan' = Bumped \/ plan' = [Bumped EXCEPT !.sure = s]
  PROVE  plan' \in PlanRow /\ plan'.status = "draft" /\ ContentVersion < plan'.ver
<1>1. /\ plan \in PlanRow /\ plan.ver \in 0..MaxPlan /\ MaxPlan \in Int
  BY PlanParts, RowTyped
<1>2. plan.ver + 1 \in 0..MaxPlan
  BY <1>1
<1>3. PICK n \in 0..MaxPlan : n = plan.ver + 1
  BY <1>2
<1>4. Bumped = [plan EXCEPT !.ver = n]
  BY <1>3 DEF Bumped
<1>5. plan' \in PlanRow /\ plan'.status = plan.status /\ plan'.ver = n
  BY <1>1, <1>4 DEF PlanRow
<1>6. ContentVersion = plan.ver
  BY DEF Draft, ContentVersion
<1> QED BY <1>1, <1>3, <1>5, <1>6 DEF Draft

LEMMA EditKeeps ==
  ASSUME PlanInv, Edit
  PROVE  PlanInv'
<1>0. /\ PlanTypeOK /\ NeedsStand /\ intake \in [Groups -> Counts] /\ listed \subseteq Resources
      /\ demand \subseteq Resources \X Groups
      /\ planner \in [Planners -> Signing \cup {Unhurried}]
      /\ \A x \in demand : x[1] \in listed /\ intake[x[2]] # "absent"
  BY PlanParts DEF NeedsStand, Present
<1>1. ASSUME Counted, RestOfPlan, intake' \in [Groups -> Counts], listed' \subseteq Resources,
             demand' \subseteq Resources \X Groups,
             \A x \in demand' : x[1] \in listed' /\ intake'[x[2]] # "absent"
      PROVE  PlanInv'
  <2>1. plan' \in PlanRow /\ plan'.status = "draft" /\ ContentVersion < plan'.ver
    BY <1>1, CountedIs DEF Counted
  <2>2. literature' = literature /\ snapshots' = snapshots /\ planner' = planner
    BY <1>1 DEF RestOfPlan
  <2> QED BY <1>0, <1>1, <2>1, <2>2, DraftChanges
<1>2. ASSUME NEW g \in Groups, NEW n \in Counts, UpsertClass(g, n) PROVE PlanInv'
  <2>1. intake' \in [Groups -> Counts] /\ \A h \in Groups : intake'[h] # "absent" \/ intake[h] = "absent"
    BY <1>0, <1>2 DEF UpsertClass
  <2>2. \A x \in demand' : x[1] \in listed' /\ intake'[x[2]] # "absent"
    BY <1>0, <1>2, <2>1 DEF UpsertClass
  <2> QED BY <1>0, <1>1, <1>2, <2>1, <2>2 DEF UpsertClass
<1>3. ASSUME NEW g \in Groups, RemoveClass(g) PROVE PlanInv'
  <2>1. intake' \in [Groups -> Counts] /\ \A h \in Groups : h # g => intake'[h] = intake[h]
    BY <1>0, <1>3 DEF RemoveClass, Counts
  <2>2. demand' \subseteq demand /\ listed' = listed /\ \A x \in demand' : x[2] # g
    BY <1>0, <1>3 DEF RemoveClass
  <2>3. \A x \in demand' : x[1] \in listed' /\ intake'[x[2]] # "absent"
    BY <1>0, <2>1, <2>2
  <2> QED BY <1>0, <1>1, <1>3, <2>1, <2>2, <2>3 DEF RemoveClass
<1>4. ASSUME NEW r \in Resources, AddResource(r) PROVE PlanInv'
  <2>1. intake' = intake /\ demand' = demand /\ listed' = listed \cup {r}
    BY <1>4 DEF AddResource
  <2> QED BY <1>0, <1>1, <1>4, <2>1 DEF AddResource
<1>5. ASSUME NEW r \in Resources, RemoveResource(r) PROVE PlanInv'
  <2>1. intake' = intake /\ listed' = listed \ {r} /\ demand' \subseteq demand
        /\ \A x \in demand' : x[1] # r
    BY <1>0, <1>5 DEF RemoveResource
  <2> QED BY <1>0, <1>1, <1>5, <2>1 DEF RemoveResource
<1>6. ASSUME NEW r \in Resources, EditResource(r) PROVE PlanInv'
  <2>1. intake' = intake /\ demand' = demand /\ listed' = listed
    BY <1>6 DEF EditResource
  <2> QED BY <1>0, <1>1, <1>6, <2>1 DEF EditResource
<1>7. ASSUME NEW r \in Resources, NEW g \in Groups, AddAllocation(r, g) PROVE PlanInv'
  <2>1. intake' = intake /\ listed' = listed /\ demand' = demand \cup {<<r, g>>}
        /\ r \in listed /\ intake[g] # "absent"
    BY <1>7 DEF AddAllocation, Present
  <2> QED BY <1>0, <1>1, <1>7, <2>1 DEF AddAllocation
<1>8. ASSUME NEW r \in Resources, NEW g \in Groups, RemoveAllocation(r, g) PROVE PlanInv'
  <2>1. intake' = intake /\ listed' = listed /\ demand' \subseteq demand
    BY <1>8 DEF RemoveAllocation
  <2> QED BY <1>0, <1>1, <1>8, <2>1 DEF RemoveAllocation
<1>9. ASSUME NEW r \in Resources, NEW g \in Groups, NEW to \in Groups, MoveAllocation(r, g, to)
      PROVE  PlanInv'
  <2>1. intake' = intake /\ listed' = listed /\ demand' \subseteq demand \cup {<<r, to>>}
        /\ <<r, g>> \in demand /\ intake[to] # "absent"
    BY <1>9 DEF MoveAllocation, Present
  <2>2. r \in listed
    BY <1>0, <2>1
  <2> QED BY <1>0, <1>1, <1>9, <2>1, <2>2 DEF MoveAllocation
<1> QED BY <1>2, <1>3, <1>4, <1>5, <1>6, <1>7, <1>8, <1>9 DEF Edit

LEMMA UpdatePlanKeeps ==
  ASSUME PlanInv, NEW sure \in BOOLEAN, UpdatePlan(sure)
  PROVE  PlanInv'
<1>0. /\ intake \in [Groups -> Counts] /\ listed \subseteq Resources
      /\ demand \subseteq Resources \X Groups
      /\ planner \in [Planners -> Signing \cup {Unhurried}]
      /\ \A x \in demand : x[1] \in listed /\ intake[x[2]] # "absent"
  BY PlanParts DEF NeedsStand, Present
<1>1. plan' \in PlanRow /\ plan'.status = "draft" /\ ContentVersion < plan'.ver
  BY CountedIs DEF UpdatePlan
<1>2. /\ literature' = literature /\ snapshots' = snapshots /\ planner' = planner
      /\ intake' = intake /\ listed' = listed /\ demand' = demand
  BY DEF UpdatePlan, RestOfPlan
<1> QED BY <1>0, <1>1, <1>2, DraftChanges

LEMMA CreatePlanKeeps ==
  ASSUME PlanInv, CreatePlan \/ Reopen
  PROVE  PlanInv'
<1>0. /\ plan \in PlanRow /\ intake \in [Groups -> Counts] /\ listed \subseteq Resources
      /\ demand \subseteq Resources \X Groups
      /\ planner \in [Planners -> Signing \cup {Unhurried}] /\ RowFine
      /\ \A x \in demand : x[1] \in listed /\ intake[x[2]] # "absent"
  BY PlanParts DEF NeedsStand, Present
<1>1. plan.ver \in 0..MaxPlan /\ MaxPlan \in Int /\ 1 \in 0..MaxPlan /\ plan.at[1] \in Int
  BY <1>0, RowTyped, PlanBound
<1>2. plan' \in PlanRow /\ plan'.status = "draft" /\ ContentVersion < plan'.ver
  <2>1. CASE CreatePlan
    <3>1. plan' = [plan EXCEPT !.status = "draft", !.ver = 1] /\ plan.status = "none"
      BY <2>1 DEF CreatePlan
    <3>2. plan' \in PlanRow /\ plan'.status = "draft" /\ plan'.ver = 1
      BY <1>0, <1>1, <3>1 DEF PlanRow
    <3>3. ContentVersion = 0
      BY <1>0, <3>1 DEF RowFine, ContentVersion
    <3> QED BY <3>2, <3>3
  <2>2. CASE Reopen
    <3>1. PICK n \in 0..MaxPlan : n = plan.ver + 1
      BY <1>1, <2>2 DEF Reopen
    <3>2. <<0, 0>> \in Millis
      BY <1>1 DEF Millis
    <3>3. plan' = [plan EXCEPT !.ver = n, !.status = "draft", !.at = <<0, 0>>]
      BY <1>0, <2>2, <3>1 DEF Reopen, Bumped, PlanRow
    <3>4. plan' \in PlanRow /\ plan'.status = "draft" /\ plan'.ver = n
      BY <1>0, <3>2, <3>3 DEF PlanRow
    <3>5. ContentVersion = plan.at[1] /\ plan.at[1] + 1 = plan.ver
      BY <1>0, <2>2 DEF Reopen, ContentVersion, RowFine
    <3> QED BY <1>1, <3>1, <3>4, <3>5
  <2> QED BY <2>1, <2>2
<1>3. /\ literature' = literature /\ snapshots' = snapshots /\ planner' = planner
      /\ intake' = intake /\ listed' = listed /\ demand' = demand
  BY DEF CreatePlan, Reopen, RestOfPlan
<1> QED BY <1>0, <1>2, <1>3, DraftChanges

-----------------------------------------------------------------------------
(* The handlers of several steps *)

LEMMA BeginPrefillKeeps ==
  ASSUME PlanInv, NEW b \in Planners, BeginPrefill(b)
  PROVE  PlanInv'
<1>1. PICK c : c = [step |-> "prefill", todo |-> Groups]
  OBVIOUS
<1>2. c \in Signing /\ c.step = "prefill"
  BY <1>1 DEF Signing
<1>3. SigningFine(c)
  BY <1>2 DEF SigningFine
<1>4. PlannerAt(b, c) /\ Hold
  BY <1>1 DEF BeginPrefill
<1> QED BY <1>2, <1>3, <1>4, HandlerReads

LEMMA GiveUpPlanKeeps ==
  ASSUME PlanInv, NEW b \in Planners, GiveUpPlan(b)
  PROVE  PlanInv'
BY HandlerReads DEF GiveUpPlan

LEMMA PrefillOneKeeps ==
  ASSUME PlanInv, NEW b \in Planners, NEW g \in Groups, PrefillOne(b, g)
  PROVE  PlanInv'
<1>0. /\ planner \in [Planners -> Signing \cup {Unhurried}]
      /\ intake \in [Groups -> Counts] /\ listed \subseteq Resources
      /\ demand \subseteq Resources \X Groups
      /\ \A x \in demand : x[1] \in listed /\ intake[x[2]] # "absent"
  BY PlanParts DEF NeedsStand, Present
<1>1. planner[b] \in Signing /\ planner[b].step = "prefill"
  BY <1>0 DEF PrefillOne, PlannerDoes
<1>2. planner[b].todo \subseteq Groups
  BY <1>1, SigningTyped
<1>3. PICK c : c = IF planner[b].todo = {g} THEN Unhurried
                   ELSE [step |-> "prefill", todo |-> planner[b].todo \ {g}]
  OBVIOUS
<1>4. c \in Signing \cup {Unhurried} /\ (c = Unhurried \/ c.step = "prefill")
  BY <1>2, <1>3 DEF Signing
<1>5. PlannerAt(b, c)
  BY <1>3 DEF PrefillOne
<1>6. CASE Present(g)
  <2>1. Hold
    BY <1>6 DEF PrefillOne, Hold
  <2>2. c # Unhurried => SigningFine(c)
    BY <1>4 DEF SigningFine
  <2> QED BY <1>4, <1>5, <2>1, <2>2, HandlerReads
<1>7. CASE ~Present(g)
  <2>1. Counted /\ intake' = [intake EXCEPT ![g] = "unknown"]
    BY <1>7 DEF PrefillOne
  <2>2. plan' \in PlanRow /\ plan'.status = "draft" /\ ContentVersion < plan'.ver
    BY <2>1, CountedIs DEF Counted
  <2>3. /\ literature' = literature /\ snapshots' = snapshots /\ listed' = listed /\ demand' = demand
    BY DEF PrefillOne
  <2>4. intake' \in [Groups -> Counts] /\ \A h \in Groups : intake'[h] # "absent" \/ intake[h] = "absent"
    BY <1>0, <2>1 DEF Counts
  <2>5. \A x \in demand' : x[1] \in listed' /\ intake'[x[2]] # "absent"
    BY <1>0, <2>3, <2>4
  <2>6. /\ planner' \in [Planners -> Signing \cup {Unhurried}] /\ planner'[b] = c
        /\ \A h \in Planners : h # b => planner'[h] = planner[h]
    BY <1>0, <1>4, <1>5 DEF PlannerAt
  <2>7. \A h \in Planners : \/ planner'[h] = planner[h] \/ planner'[h] = Unhurried
                            \/ planner'[h].step = "prefill"
    BY <1>4, <2>6
  <2>8. listed' \subseteq Resources /\ demand' \subseteq Resources \X Groups
    BY <1>0, <2>3
  <2> QED BY <2>2, <2>3, <2>4, <2>5, <2>6, <2>7, <2>8, DraftChanges
<1> QED BY <1>6, <1>7

LEMMA BeginSigningKeeps ==
  ASSUME PlanInv, NEW b \in Planners, NEW k \in {0, 1}, BeginSigning(b, k)
  PROVE  PlanInv'
<1>1. plan \in PlanRow /\ plan.ver \in 0..MaxPlan /\ plan.ver \in Int
  BY PlanParts, RowTyped
<1>2. PICK c : c = [step |-> "begun", at |-> <<plan.ver, k>>]
  OBVIOUS
<1>3. c \in Signing /\ c.step = "begun" /\ c.at[1] = plan.ver
  BY <1>1, <1>2 DEF Signing, Millis
<1>4. PlannerAt(b, c) /\ Hold /\ Draft /\ plan.ver < MaxPlan
  BY <1>2 DEF BeginSigning
<1>5. SigningFine(c)
  BY <1>1, <1>3, <1>4 DEF SigningFine, Draft, ContentVersion
<1> QED BY <1>3, <1>4, <1>5, HandlerReads

LEMMA ReadRowKeeps ==
  ASSUME PlanInv, NEW b \in Planners, ReadRow(b)
  PROVE  PlanInv'
<1>1. /\ planner[b] \in Signing /\ planner[b].step = "begun" /\ planner[b].at \in Millis
  BY PlanParts, SigningTyped DEF ReadRow, PlannerDoes
<1>2. PICK c : c = [step |-> "read", at |-> planner[b].at, what |-> Nothing, left |-> Tables]
  OBVIOUS
<1>3. Nothing \in Contents
  BY DEF Nothing, Contents, Counts
<1>4. c \in Signing /\ c.step = "read" /\ c.at = planner[b].at /\ c.left = Tables
  BY <1>1, <1>2, <1>3 DEF Signing
<1>5. PlannerAt(b, c) /\ Hold
  BY <1>2 DEF ReadRow
<1>6. SigningFine(planner[b])
  BY PlanParts DEF PlannersFine, ReadRow, PlannerDoes
<1>7. Confirmed /\ plan.status = "draft"
  BY DEF ReadRow, Confirmed, Draft
<1>8. SigningFine(c)
  BY <1>1, <1>4, <1>6, <1>7 DEF SigningFine, Unread
<1> QED BY <1>4, <1>5, <1>8, HandlerReads

LEMMA ReadTableKeeps ==
  ASSUME PlanInv, NEW b \in Planners, NEW t \in Tables, ReadTable(b, t)
  PROVE  PlanInv'
<1>1. PICK d \in Signing : d = planner[b] /\ d.step = "read" /\ t \in d.left
  BY PlanParts DEF ReadTable, PlannerDoes
<1>2. d \in [step : {"read"}, at : Millis, what : Contents, left : SUBSET Tables]
  BY <1>1, SigningTyped
<1>3. Drawn \in Contents /\ d.what \in Contents
  BY <1>2, PlanParts, DrawnTyped
<1>4. PICK w : w = [d.what EXCEPT ![t] = Drawn[t]]
  OBVIOUS
<1>5. w \in Contents /\ w[t] = Drawn[t] /\ \A u \in Tables : u # t => w[u] = d.what[u]
  BY <1>3, <1>4 DEF Contents, Tables
<1>6. PICK c : c = [d EXCEPT !.what = w, !.left = d.left \ {t}]
  OBVIOUS
<1>7. /\ c \in [step : {"read"}, at : Millis, what : Contents, left : SUBSET Tables]
      /\ c.step = "read" /\ c.at = d.at /\ c.what = w /\ c.left = d.left \ {t}
  BY <1>2, <1>5, <1>6
<1>8. PlannerAt(b, c) /\ Hold
  BY <1>1, <1>2, <1>4, <1>6 DEF ReadTable
<1>9. SigningFine(d)
  BY <1>1, PlanParts DEF PlannersFine, ReadTable, PlannerDoes
<1>10. SigningFine(c)
  BY <1>1, <1>5, <1>7, <1>9 DEF SigningFine, Unread
<1>11. c \in Signing
  BY <1>7 DEF Signing
<1> QED BY <1>8, <1>10, <1>11, HandlerReads

LEMMA ReadSequenceKeeps ==
  ASSUME PlanInv, NEW b \in Planners, ReadSequence(b)
  PROVE  PlanInv'
<1>1. PICK d \in Signing : d = planner[b] /\ d.step = "read" /\ d.left = {}
  BY PlanParts DEF ReadSequence, PlannerDoes
<1>2. d \in [step : {"read"}, at : Millis, what : Contents, left : SUBSET Tables]
  BY <1>1, SigningTyped
<1>3. PICK n \in Nat \ {0} : n = Len(snapshots) + 1
  <2>1. Len(snapshots) \in Nat
    BY PlanParts
  <2> QED BY <2>1
<1>4. PICK c : c = [step |-> "numbered", at |-> d.at, what |-> d.what, place |-> n]
  OBVIOUS
<1>5. /\ c \in [step : {"numbered"}, at : Millis, what : Contents, place : Nat \ {0}]
      /\ c.step = "numbered" /\ c.at = d.at /\ c.what = d.what
  BY <1>2, <1>4
<1>6. PlannerAt(b, c) /\ Hold
  BY <1>1, <1>3, <1>4 DEF ReadSequence
<1>7. SigningFine(d)
  BY <1>1, PlanParts DEF PlannersFine, ReadSequence, PlannerDoes
<1>8. SigningFine(c)
  BY <1>1, <1>5, <1>7 DEF SigningFine, Unread
<1>9. c \in Signing
  BY <1>5 DEF Signing
<1> QED BY <1>6, <1>8, <1>9, HandlerReads

LEMMA BecomeLiteratureKeeps ==
  ASSUME PlanInv, NEW r \in Resources, BecomeLiterature(r)
  PROVE  PlanInv'
<1>0. /\ PlanTypeOK /\ RowFine /\ PlannersFine /\ SignedAsRead /\ NeedsStand
  BY PlanParts
<1>1. /\ plan' = plan /\ intake' = intake /\ listed' = listed /\ demand' = demand
      /\ snapshots' = snapshots /\ planner' = planner /\ literature' \subseteq Literary
  BY <1>0 DEF BecomeLiterature, PlanTypeOK
<1>2. PlanTypeOK' /\ RowFine'
  BY <1>0, <1>1 DEF PlanTypeOK, RowFine
<1>3. PlannersFine'
  BY <1>0, <1>1 DEF PlannersFine, SigningFine, ContentVersion, Confirmed, Drawn, Unread
<1>4. SignedAsRead' /\ NeedsStand'
  BY <1>0, <1>1 DEF SignedAsRead, NeedsStand, Drawn, Present
<1> QED BY <1>2, <1>3, <1>4 DEF PlanInv

(* What was read counts only while the plan holds it, so what a batch signs is *)
(* what there is, whether the batch signs it or finds it signed this moment.   *)
LEMMA CommitSigningKeeps ==
  ASSUME PlanInv, NEW b \in Planners, CommitSigning(b)
  PROVE  PlanInv'
<1>0. /\ PlanTypeOK /\ RowFine /\ PlannersFine /\ SignedAsRead /\ NeedsStand
      /\ plan \in PlanRow /\ planner \in [Planners -> Signing \cup {Unhurried}]
      /\ snapshots \in Seq(Contents)
  BY PlanParts
<1>1. PICK d \in Signing : d = planner[b] /\ d # Unhurried /\ d.step = "numbered"
  BY <1>0 DEF CommitSigning, PlannerDoes
<1>2. /\ d \in [step : {"numbered"}, at : Millis, what : Contents, place : Nat \ {0}]
      /\ d.at \in Millis /\ d.at[1] \in 0..MaxPlan /\ d.what \in Contents
  BY <1>1, SigningTyped
<1>3. SigningFine(d)
  BY <1>0, <1>1 DEF PlannersFine
<1>4. /\ intake' = intake /\ listed' = listed /\ demand' = demand /\ literature' = literature
      /\ snapshots' = Append(snapshots, d.what) /\ planner' = [planner EXCEPT ![b] = Unhurried]
      /\ plan'.status = "finalized" /\ plan'.at = d.at
  BY <1>1 DEF CommitSigning, PlannerAt
<1>5. plan' \in PlanRow /\ plan'.at[1] + 1 = plan'.ver /\ ContentVersion = d.at[1] /\ plan'.sure = plan.sure
      /\ plan.status # "none"
  <2>1. CASE Signable(b)
    <3>1. plan' = [Bumped EXCEPT !.status = "finalized", !.at = d.at] /\ plan.ver = d.at[1]
          /\ plan.status = "draft"
      BY <1>1, <2>1 DEF CommitSigning, Signable, Expected, Draft
    <3>2. d.at[1] < MaxPlan
      BY <1>1, <1>3 DEF SigningFine
    <3>3. PICK n \in 0..MaxPlan : n = plan.ver + 1
      BY <1>2, <3>1, <3>2, PlanBound
    <3>4. plan' = [plan EXCEPT !.ver = n, !.status = "finalized", !.at = d.at]
      BY <1>0, <3>1, <3>3 DEF Bumped, PlanRow
    <3>5. plan' \in PlanRow /\ plan'.ver = n /\ plan'.at = d.at /\ plan'.sure = plan.sure
      BY <1>0, <1>2, <3>4 DEF PlanRow
    <3>6. ContentVersion = d.at[1]
      BY <3>1 DEF ContentVersion
    <3> QED BY <3>1, <3>3, <3>5, <3>6
  <2>2. CASE ~Signable(b)
    <3>1. plan' = plan
      BY <2>2 DEF CommitSigning
    <3>2. plan.status = "finalized" /\ plan.at = d.at
      BY <1>4, <3>1
    <3> QED BY <1>0, <3>1, <3>2 DEF RowFine, ContentVersion
  <2> QED BY <2>1, <2>2
<1>6. ContentVersion' = ContentVersion
  BY <1>4, <1>5 DEF ContentVersion
<1>7. Confirmed /\ \A t \in Tables : d.what[t] = Drawn[t]
  BY <1>1, <1>3, <1>5 DEF SigningFine, Unread
<1>8. d.what = Drawn
  <2>1. /\ d.what \in Contents /\ Drawn \in Contents
    BY <1>0, <1>2, DrawnTyped
  <2>2. d.what["classes"] = Drawn["classes"] /\ d.what["books"] = Drawn["books"]
        /\ d.what["needs"] = Drawn["needs"]
    BY <1>7 DEF Tables
  <2> QED BY <2>1, <2>2 DEF Contents
<1>9. /\ snapshots' \in Seq(Contents) /\ Len(snapshots') = Len(snapshots) + 1
      /\ snapshots'[Len(snapshots) + 1] = Drawn
      /\ \A i \in 1..Len(snapshots) : snapshots'[i] = snapshots[i]
      /\ Len(snapshots) \in Nat /\ snapshots' # <<>>
  BY <1>0, <1>2, <1>4, <1>8
<1>10. PlanTypeOK'
  <2>1. planner' \in [Planners -> Signing \cup {Unhurried}]
    BY <1>0, <1>4
  <2> QED BY <1>0, <1>4, <1>5, <1>9, <2>1 DEF PlanTypeOK
<1>11. RowFine'
  BY <1>4, <1>5 DEF RowFine
<1>12. SignedAsRead'
  BY <1>4, <1>5, <1>7, <1>9 DEF SignedAsRead, Confirmed, Drawn
<1>13. NeedsStand'
  <2>1. \A x \in demand' : x[1] \in listed' /\ Present(x[2])'
    BY <1>0, <1>4 DEF NeedsStand, Present
  <2>2. ASSUME NEW i \in 1..Len(snapshots'), NEW x \in snapshots'[i].needs
        PROVE  x[1] \in snapshots'[i].books /\ snapshots'[i].classes[x[2]] # "absent"
    <3>1. CASE i = Len(snapshots) + 1
      BY <1>0, <1>9, <2>2, <3>1 DEF NeedsStand, Present, Drawn
    <3>2. CASE i # Len(snapshots) + 1
      <4>1. i \in 1..Len(snapshots)
        BY <1>9, <3>2
      <4> QED BY <1>0, <1>9, <2>2, <4>1 DEF NeedsStand
    <3> QED BY <3>1, <3>2
  <2> QED BY <2>1, <2>2 DEF NeedsStand
<1>14. PlannersFine'
  <2> SUFFICES ASSUME NEW h \in Planners, planner'[h] # Unhurried PROVE SigningFine(planner[h])'
    BY DEF PlannersFine
  <2>1. PICK c \in Signing : c = planner'[h] /\ c = planner[h] /\ c # Unhurried
    BY <1>0, <1>4
  <2>2. SigningFine(c)
    BY <1>0, <2>1 DEF PlannersFine
  <2>3. Drawn' = Drawn /\ (Confirmed => Confirmed')
    BY <1>4, <1>5 DEF Drawn, Confirmed
  <2>4. ContentVersion <= ContentVersion'
    BY <1>2, <1>5, <1>6
  <2>5. SigningFine(c)'
    BY <1>0, <1>4, <1>5, <2>2, <2>3, <2>4, FineOnward
  <2> QED BY <2>1, <2>5
<1> QED BY <1>10, <1>11, <1>12, <1>13, <1>14 DEF PlanInv

LEMMA PlanStutters == PlanInv /\ UNCHANGED planVars => PlanInv'
BY DEF planVars, PlanInv, PlanTypeOK, RowFine, PlannersFine, SigningFine, ContentVersion, Confirmed, Unread,
       SignedAsRead, NeedsStand, Drawn, Present

LEMMA PlanStep == PlanInv /\ [PlanNext]_planVars => PlanInv'
<1> SUFFICES ASSUME PlanInv, PlanNext PROVE PlanInv'
  BY PlanStutters
<1>1. CASE CreatePlan \/ Reopen
  BY <1>1, CreatePlanKeeps
<1>2. CASE Edit
  BY <1>2, EditKeeps
<1>3. CASE \E sure \in BOOLEAN : UpdatePlan(sure)
  BY <1>3, UpdatePlanKeeps
<1>4. ASSUME NEW b \in Planners, BeginPrefill(b) PROVE PlanInv'
  BY <1>4, BeginPrefillKeeps
<1>5. ASSUME NEW b \in Planners, NEW g \in Groups, PrefillOne(b, g) PROVE PlanInv'
  BY <1>5, PrefillOneKeeps
<1>6. ASSUME NEW b \in Planners, BeginSigning(b, 0) \/ BeginSigning(b, 1) PROVE PlanInv'
  BY <1>6, BeginSigningKeeps
<1>7. ASSUME NEW b \in Planners, ReadRow(b) PROVE PlanInv'
  BY <1>7, ReadRowKeeps
<1>8. ASSUME NEW b \in Planners, NEW t \in Tables, ReadTable(b, t) PROVE PlanInv'
  BY <1>8, ReadTableKeeps
<1>9. ASSUME NEW b \in Planners, ReadSequence(b) PROVE PlanInv'
  BY <1>9, ReadSequenceKeeps
<1>10. ASSUME NEW b \in Planners, CommitSigning(b) PROVE PlanInv'
  BY <1>10, CommitSigningKeeps
<1>11. ASSUME NEW b \in Planners, GiveUpPlan(b) PROVE PlanInv'
  BY <1>11, GiveUpPlanKeeps
<1>12. CASE \E r \in Resources : BecomeLiterature(r)
  BY <1>12, BecomeLiteratureKeeps
<1> QED BY <1>1, <1>2, <1>3, <1>4, <1>5, <1>6, <1>7, <1>8, <1>9, <1>10, <1>11, <1>12 DEF PlanNext

LEMMA PlanInvSound == PlanInv => ProcurementSound
BY DEF PlanInv, ProcurementSound

LEMMA PlanHolds == PlanSpec => []PlanInv
BY PlanStart, PlanStep, PTL DEF PlanSpec

(* The plan of a year's purchases, its contents and what its handlers have  *)
(* read keep their types: an expected version is one the plan has had.      *)
THEOREM PlanTyped == PlanSpec => []PlanTypeOK
<1>1. PlanInv => PlanTypeOK
  BY DEF PlanInv
<1> QED BY <1>1, PlanHolds, PTL

(* A signed plan is its last snapshot, whole and confirmed, and neither the *)
(* plan nor a snapshot needs more than it lists, whatever handlers edit,    *)
(* prefill and sign at once.                                                *)
THEOREM PlanSafe == PlanSpec => []ProcurementSound
BY PlanHolds, PlanInvSound, PTL

LEMMA SnapshotsGrow ==
  ASSUME PlanInv, NEW b \in Planners, CommitSigning(b)
  PROVE  SubSeq(snapshots', 1, Len(snapshots)) = snapshots
<1>1. snapshots \in Seq(Contents)
  BY PlanParts
<1>2. planner[b].what \in Contents
  BY PlanParts, SigningTyped DEF CommitSigning, PlannerDoes
<1>3. snapshots' = Append(snapshots, planner[b].what)
  BY DEF CommitSigning
<1>4. snapshots' = snapshots \o <<planner[b].what>> /\ <<planner[b].what>> \in Seq(Contents)
  BY <1>1, <1>2, <1>3
<1>5. CASE snapshots = <<>>
  BY <1>1, <1>3, <1>5, <1>4, SubSeqEmpty
<1>6. CASE snapshots # <<>>
  <2>1. Len(snapshots) \in 1..Len(snapshots) /\ 1 \in 1..Len(snapshots)
    BY <1>1, <1>6
  <2>2. SubSeq(snapshots \o <<planner[b].what>>, 1, Len(snapshots)) = SubSeq(snapshots, 1, Len(snapshots))
    BY <1>1, <1>4, <2>1, SubSeqOfConcat1
  <2>3. SubSeq(snapshots, 1, Len(snapshots)) = snapshots
    BY <1>1, SubSeqFull
  <2> QED BY <1>4, <2>2, <2>3
<1> QED BY <1>5, <1>6

LEMMA SignedMoves ==
  ASSUME PlanInv, [PlanNext]_planVars
  PROVE  SignedStep
<1>1. snapshots \in Seq(Contents) /\ SubSeq(snapshots, 1, Len(snapshots)) = snapshots
  BY PlanParts, SubSeqFull
<1>2. ASSUME snapshots' = snapshots, plan.status = "finalized" => content' = content,
             plan'.status = "finalized" => plan.status = "finalized"
      PROVE  SignedStep
  BY <1>1, <1>2 DEF SignedStep
<1>3. CASE UNCHANGED planVars
  BY <1>2, <1>3 DEF planVars, content
<1>4. plan \in PlanRow
  BY PlanParts
<1>5. ASSUME Counted PROVE plan'.status = "draft" /\ plan.status = "draft"
  <2>1. plan' = [plan EXCEPT !.ver = plan.ver + 1] /\ plan.status = "draft"
    BY <1>5 DEF Counted, Bumped, Draft
  <2> QED BY <1>4, <2>1 DEF PlanRow
<1>6. CASE CreatePlan \/ Reopen
  <2>1. plan'.status = "draft"
    BY <1>4, <1>6 DEF CreatePlan, Reopen, Bumped, PlanRow
  <2> QED BY <1>2, <1>6, <2>1 DEF CreatePlan, Reopen, RestOfPlan, content
<1>7. CASE Edit
  <2>1. Counted /\ RestOfPlan
    BY <1>7 DEF Edit, UpsertClass, RemoveClass, AddResource, RemoveResource, EditResource,
                AddAllocation, MoveAllocation, RemoveAllocation
  <2> QED BY <1>2, <1>5, <2>1 DEF RestOfPlan
<1>8. ASSUME NEW sure \in BOOLEAN, UpdatePlan(sure) PROVE SignedStep
  <2>1. plan'.status = "draft"
    BY <1>4, <1>8 DEF UpdatePlan, Bumped, Draft, PlanRow
  <2> QED BY <1>2, <1>8, <2>1 DEF UpdatePlan, RestOfPlan, content
<1>9. ASSUME Hold PROVE SignedStep
  BY <1>2, <1>9 DEF Hold, content
<1>10. ASSUME NEW b \in Planners, NEW g \in Groups, PrefillOne(b, g) PROVE SignedStep
  <2>1. CASE Present(g)
    BY <1>2, <1>10, <2>1 DEF PrefillOne, content
  <2>2. CASE ~Present(g)
    <3>1. Counted
      BY <1>10, <2>2 DEF PrefillOne
    <3> QED BY <1>2, <1>5, <1>10, <3>1 DEF PrefillOne
  <2> QED BY <2>1, <2>2
<1>11. ASSUME NEW b \in Planners, CommitSigning(b) PROVE SignedStep
  <2>1. content' = content
    BY <1>11 DEF CommitSigning, content
  <2>2. SubSeq(snapshots', 1, Len(snapshots)) = snapshots
    BY <1>11, SnapshotsGrow
  <2>3. plan.status # "finalized" /\ plan'.status = "finalized" => listed \cap literature = {}
    <3>1. CASE Signable(b)
      BY <3>1 DEF Signable
    <3>2. CASE ~Signable(b)
      BY <1>11, <3>2 DEF CommitSigning
    <3> QED BY <3>1, <3>2
  <2> QED BY <2>1, <2>2, <2>3 DEF SignedStep
<1>12. CASE \E r \in Resources : BecomeLiterature(r)
  BY <1>2, <1>12 DEF BecomeLiterature, content
<1>13. CASE \E b \in Planners :
              \/ BeginPrefill(b) \/ BeginSigning(b, 0) \/ BeginSigning(b, 1)
              \/ ReadRow(b) \/ (\E t \in Tables : ReadTable(b, t)) \/ ReadSequence(b) \/ GiveUpPlan(b)
  BY <1>9, <1>13 DEF BeginPrefill, BeginSigning, ReadRow, ReadTable, ReadSequence, GiveUpPlan
<1> QED BY <1>3, <1>6, <1>7, <1>8, <1>10, <1>11, <1>12, <1>13 DEF PlanNext

(* Nothing moves in a signed plan until it is reopened, snapshots stay as   *)
(* they were written, and no plan is signed while it lists literature.      *)
THEOREM SignedStays == PlanSpec => [][SignedStep]_planVars
BY PlanHolds, SignedMoves, PTL DEF PlanSpec

-----------------------------------------------------------------------------
(* The proposals to buy: the inductive invariant                            *)

(* A row by itself: what was received is within the order and the order     *)
(* within what was approved; nothing is ordered while it is considered.     *)
RowSound(r, p) ==
    /\ p.received <= p.ordered /\ p.ordered <= Ceiling(p)
    /\ p.status \in Considered => p.ordered = 0
    /\ p.status = "none" => p.ver = 0
    /\ ShapeOf[r] = "literature" => (p.received > 0 <=> p.status = "received")
    /\ p.status = "partially_received" => 0 < p.received /\ p.received < p.ordered
    /\ p.received > 0 => p.status \in {"partially_received", "received"}
RowsSound == \A r \in Proposals : RowSound(r, proposal[r])

(* What the lines of receipts gave to a proposal is what it received.       *)
GivenFor(r) == IF ShapeOf[r] = "literature" THEN 0 ELSE proposal[r].received
Given == \A r \in Proposals : SpentFor(r) = GivenFor(r)
BlankLines == \A l \in Lines : ~receipt[l].posted => receipt[l].amount = 0

(* A decision that is about to be written follows from the row that was     *)
(* read: it is of a proposal that waits, takes nothing back, and does not   *)
(* move to another title what has been received.                            *)
Follows(d, p) ==
    /\ p.status \in Unsettled
    /\ d.op = "cancel" => d.row.status = "cancelled"
    /\ d.row.received = p.received + (IF d.op = "receipt" THEN d.n ELSE 0)
       \/ (ShapeOf[d.of] = "literature" /\ d.op = "act")
    /\ d.row.work = p.work \/ p.received = 0
    /\ d.op = "order" => p.received = 0
    /\ d.op = "receipt" => d.row.work = p.work
DecisionFine(d) ==
    /\ d.row.ver > 0 /\ d.row.status # "none" /\ RowSound(d.of, d.row)
    /\ d.op = "receipt" => d.n > 0 /\ d.line \in Lines /\ ShapeOf[d.of] # "literature"
    /\ Stands(d.of) /\ d.row.ver - 1 <= proposal[d.of].ver
    /\ VersionRead(d.of, d.row) => Follows(d, proposal[d.of])
DealFine(d) ==
    /\ d.op = "send" => d.of \notin Workbook
    /\ d.op = "import" => d.of \in Workbook
    /\ d.op = "hide" => proposal[d.of].status \in Finished
    /\ d.op \in {"cancel", "act", "order", "receipt"} => DecisionFine(d)
DealsFine == \A b \in Buyers : buyer[b] # Browsing => DealFine(buyer[b])

(* Every proposal past the limit is due to a call that is still under way   *)
(* or was when the last one of the others ended.                            *)
OwnCalls == Own \ (Underway \cup Workbook)
Sending == {b \in Buyers : buyer[b] # Browsing /\ buyer[b].op = "send" /\ buyer[b].of \in Own}
LimitFine == Cardinality(Sent(OwnCalls)) + Cardinality(Sending) < ProposalLimit + Cardinality(Buyers)
HiddenDone == \A r \in Proposals : proposal[r].hidden => proposal[r].status \in Finished
OneImport == \A q, r \in Workbook : Stands(q) /\ Stands(r) => q = r

AcquisitionInv ==
    /\ AcquisitionTypeOK /\ RowsSound /\ Given /\ BlankLines /\ LinesCovered
    /\ DealsFine /\ LimitFine /\ HiddenDone /\ OneImport

-----------------------------------------------------------------------------
(* Rows, lines and sums *)

LEMMA ProposalIs ==
  ASSUME NEW p \in ProposalType
  PROVE  /\ p.status \in Unsettled \cup Finished \cup {"none"} /\ p.work \in Works \cup {NoWork}
         /\ p.approved \in 0..Sought /\ p.ordered \in 0..Sought /\ p.received \in 0..Sought
         /\ p.hidden \in BOOLEAN /\ p.shelved \in BOOLEAN /\ p.ver \in 0..MaxDeal
         /\ p.approved \in Nat /\ p.ordered \in Nat /\ p.received \in Nat /\ p.ver \in Nat
         /\ Sought \in Nat \ {0} /\ MaxDeal \in Nat \ {0} /\ Ceiling(p) \in 1..Sought
BY AcquisitionBounds DEF ProposalType, Ceiling

LEMMA SpentFacts ==
  ASSUME AcquisitionTypeOK
  PROVE  /\ \A l \in Lines : /\ SpentOn(l) \in Nat
                             /\ \A r \in Proposals : spent[<<r, l>>] <= SpentOn(l)
                             /\ SpentOn(l) = 0 <=> \A r \in Proposals : spent[<<r, l>>] = 0
         /\ \A r \in Proposals : /\ SpentFor(r) \in Nat
                                 /\ SpentFor(r) = 0 <=> \A l \in Lines : spent[<<r, l>>] = 0
<1>1. \A x \in Proposals \X Lines : spent[x] \in Nat
  BY AcquisitionBounds DEF AcquisitionTypeOK
<1>2. ASSUME NEW l \in Lines
      PROVE  /\ SpentOn(l) \in Nat
             /\ \A r \in Proposals : spent[<<r, l>>] <= SpentOn(l)
             /\ SpentOn(l) = 0 <=> \A r \in Proposals : spent[<<r, l>>] = 0
  <2> DEFINE f == [r \in Proposals |-> spent[<<r, l>>]]
  <2>1. \A r \in Proposals : f[r] \in Nat /\ f[r] = spent[<<r, l>>]
    BY <1>1
  <2>2. SpentOn(l) = Sum(f, Proposals)
    BY DEF SpentOn, Sum
  <2> HIDE DEF f
  <2>3. /\ Sum(f, Proposals) \in Nat
        /\ \A r \in Proposals : f[r] <= Sum(f, Proposals)
        /\ Sum(f, Proposals) = 0 <=> \A r \in Proposals : f[r] = 0
    BY <2>1, AcquisitionTables, SumBounds
  <2> QED BY <2>1, <2>2, <2>3
<1>3. ASSUME NEW r \in Proposals
      PROVE  /\ SpentFor(r) \in Nat
             /\ SpentFor(r) = 0 <=> \A l \in Lines : spent[<<r, l>>] = 0
  <2> DEFINE f == [l \in Lines |-> spent[<<r, l>>]]
  <2>1. \A l \in Lines : f[l] \in Nat /\ f[l] = spent[<<r, l>>]
    BY <1>1
  <2>2. SpentFor(r) = Sum(f, Lines)
    BY DEF SpentFor, Sum
  <2> HIDE DEF f
  <2>3. /\ Sum(f, Lines) \in Nat
        /\ Sum(f, Lines) = 0 <=> \A l \in Lines : f[l] = 0
    BY <2>1, AcquisitionTables, SumBounds
  <2> QED BY <2>1, <2>2, <2>3
<1> QED BY <1>2, <1>3

(* A receipt that is linked adds to one line and to one proposal. *)
LEMMA SpentAdds ==
  ASSUME AcquisitionTypeOK, NEW q \in Proposals, NEW k \in Lines, NEW n \in Nat,
         spent' = [spent EXCEPT ![<<q, k>>] = @ + n]
  PROVE  /\ \A l \in Lines : SpentOn(l)' = IF l = k THEN SpentOn(l) + n ELSE SpentOn(l)
         /\ \A r \in Proposals : SpentFor(r)' = IF r = q THEN SpentFor(r) + n ELSE SpentFor(r)
<1>1. /\ \A x \in Proposals \X Lines : spent[x] \in Nat
      /\ \A x \in Proposals \X Lines :
            spent'[x] = IF x = <<q, k>> THEN spent[x] + n ELSE spent[x]
  BY AcquisitionBounds DEF AcquisitionTypeOK
<1>2. ASSUME NEW l \in Lines
      PROVE  SpentOn(l)' = IF l = k THEN SpentOn(l) + n ELSE SpentOn(l)
  <2> DEFINE f == [r \in Proposals |-> spent[<<r, l>>]]
             g == [r \in Proposals |-> spent'[<<r, l>>]]
  <2>1. \A r \in Proposals : /\ f[r] \in Int /\ g[r] \in Int
                             /\ g[r] = IF r = q /\ l = k THEN f[r] + n ELSE f[r]
    BY <1>1
  <2>2. SpentOn(l) = Sum(f, Proposals) /\ SpentOn(l)' = Sum(g, Proposals)
    BY DEF SpentOn, Sum
  <2> HIDE DEF f, g
  <2>3. Sum(g, Proposals) = Sum(f, Proposals) + (g[q] - f[q])
    BY <2>1, AcquisitionTables, SumChange
  <2>4. Sum(f, Proposals) \in Int
    BY <2>1, AcquisitionTables, SumIsInt
  <2> QED BY <2>1, <2>2, <2>3, <2>4
<1>3. ASSUME NEW r \in Proposals
      PROVE  SpentFor(r)' = IF r = q THEN SpentFor(r) + n ELSE SpentFor(r)
  <2> DEFINE f == [l \in Lines |-> spent[<<r, l>>]]
             g == [l \in Lines |-> spent'[<<r, l>>]]
  <2>1. \A l \in Lines : /\ f[l] \in Int /\ g[l] \in Int
                         /\ g[l] = IF r = q /\ l = k THEN f[l] + n ELSE f[l]
    BY <1>1
  <2>2. SpentFor(r) = Sum(f, Lines) /\ SpentFor(r)' = Sum(g, Lines)
    BY DEF SpentFor, Sum
  <2> HIDE DEF f, g
  <2>3. Sum(g, Lines) = Sum(f, Lines) + (g[k] - f[k])
    BY <2>1, AcquisitionTables, SumChange
  <2>4. Sum(f, Lines) \in Int
    BY <2>1, AcquisitionTables, SumIsInt
  <2> QED BY <2>1, <2>2, <2>3, <2>4
<1> QED BY <1>2, <1>3

-----------------------------------------------------------------------------
(* What every step leaves true *)

LEMMA AcquisitionParts ==
  ASSUME AcquisitionInv
  PROVE  /\ AcquisitionTypeOK /\ RowsSound /\ Given /\ BlankLines /\ LinesCovered
         /\ DealsFine /\ LimitFine /\ HiddenDone /\ OneImport
         /\ proposal \in [Proposals -> ProposalType] /\ receipt \in [Lines -> ReceiptType]
         /\ timely \in [Proposals -> SUBSET Lines] /\ spent \in [Proposals \X Lines -> 0..Sought]
         /\ adopted \subseteq Works /\ buyer \in [Buyers -> Deal \cup {Browsing}]
BY DEF AcquisitionInv, AcquisitionTypeOK

(* Rows stay, versions grow and tell what was decided. *)
RowOnward(r) ==
    /\ Stands(r) => proposal'[r].status # "none"
    /\ proposal[r].ver <= proposal'[r].ver
    /\ proposal[r].status \in Finished \/ proposal[r].ver = proposal'[r].ver
         => Decision(proposal'[r]) = Decision(proposal[r])
RowsOnward == \A r \in Proposals : RowOnward(r)

LEMMA DealStays ==
  ASSUME AcquisitionTypeOK, proposal' \in [Proposals -> ProposalType], RowsOnward,
         NEW d \in Deal, DealFine(d)
  PROVE  DealFine(d)'
<1>1. d.of \in Proposals
  BY DEF Deal
<1> DEFINE p == proposal[d.of]
           q == proposal'[d.of]
<1>2. /\ p \in ProposalType /\ q \in ProposalType /\ p.ver \in Nat /\ q.ver \in Nat
      /\ p.status # "none" => q.status # "none"
      /\ p.ver <= q.ver
      /\ p.status \in Finished \/ p.ver = q.ver => Decision(q) = Decision(p)
  BY <1>1, ProposalIs DEF RowsOnward, RowOnward, Stands, AcquisitionTypeOK
<1>3. Decision(q) = Decision(p) => /\ q.status = p.status /\ q.received = p.received
                                   /\ q.work = p.work /\ q.ver = p.ver
  BY DEF Decision
<1>4. CASE d.op \in {"send", "import"}
  BY <1>4 DEF DealFine
<1>5. CASE d.op = "hide"
  BY <1>1, <1>2, <1>3, <1>5 DEF DealFine
<1>6. CASE d.op \in {"cancel", "act", "order", "receipt"}
  <2>1. DecisionFine(d)
    BY <1>6 DEF DealFine
  <2>2. d.row \in ProposalType
    BY <1>6 DEF Deal
  <2>3. d.row.ver \in Nat
    BY <2>2, ProposalIs
  <2>4. d.row.ver - 1 <= q.ver /\ q.status # "none"
    BY <1>2, <2>1, <2>3 DEF DecisionFine, Stands
  <2>5. q.ver = d.row.ver - 1 => Follows(d, q)
    <3> SUFFICES ASSUME q.ver = d.row.ver - 1 PROVE Follows(d, q)
      OBVIOUS
    <3>1. p.ver = q.ver
      BY <1>2, <2>1, <2>3 DEF DecisionFine
    <3>2. Follows(d, p)
      BY <2>1, <3>1 DEF DecisionFine, VersionRead
    <3>3. /\ q.status = p.status /\ q.received = p.received /\ q.work = p.work
      BY <1>2, <1>3, <3>1
    <3> QED BY <3>2, <3>3 DEF Follows
  <2>6. DecisionFine(d)'
    BY <2>1, <2>4, <2>5 DEF DecisionFine, VersionRead, Stands
  <2> QED BY <1>6, <2>6 DEF DealFine
<1>7. d.op \in {"send", "import", "hide", "cancel", "act", "order", "receipt"}
  BY DEF Deal
<1> QED BY <1>4, <1>5, <1>6, <1>7

(* What handlers carry stays fine if they put down what they carry.         *)
LEMMA DealsStay ==
  ASSUME AcquisitionInv, proposal' \in [Proposals -> ProposalType], RowsOnward,
         \A b \in Buyers : buyer'[b] \in {buyer[b], Browsing}
  PROVE  DealsFine'
<1>1. AcquisitionTypeOK
  BY AcquisitionParts
<1>2. \A c \in Deal : DealFine(c) => DealFine(c)'
  BY <1>1, DealStays
<1>3. ASSUME NEW b \in Buyers, NEW c, c = buyer'[b], c # Browsing
      PROVE  DealFine(c)'
  <2>1. c = buyer[b] /\ c \in Deal /\ DealFine(c)
    BY <1>3, AcquisitionParts DEF DealsFine
  <2> QED BY <1>2, <2>1
<1> QED BY Zenon, <1>3 DEF DealsFine, DealFine, DecisionFine

LEMMA SentFinite ==
  ASSUME NEW S \in SUBSET Proposals, NEW T \in SUBSET Buyers
  PROVE  /\ IsFiniteSet(S) /\ Cardinality(S) \in Nat /\ IsFiniteSet(T) /\ Cardinality(T) \in Nat
         /\ \A U \in SUBSET S : Cardinality(U) <= Cardinality(S)
         /\ \A V \in SUBSET T : Cardinality(V) <= Cardinality(T)
         /\ Cardinality(T) <= Cardinality(Buyers) /\ Cardinality(Buyers) \in Nat
<1>1. IsFiniteSet(S) /\ IsFiniteSet(T) /\ IsFiniteSet(Buyers)
  BY AcquisitionTables, FS_Subset
<1> QED BY <1>1, FS_CardinalityType, FS_Subset

LEMMA CallsAre ==
    /\ OwnCalls \subseteq Proposals /\ Own \subseteq Proposals /\ OwnCalls \subseteq Own
    /\ Sent(OwnCalls) \subseteq Proposals /\ Sent(OwnCalls)' \subseteq Proposals
    /\ Sent(Own) \subseteq Proposals /\ Sent(OwnCalls) \subseteq Sent(Own)
    /\ Sending \subseteq Buyers /\ Sending' \subseteq Buyers
BY AcquisitionValues DEF OwnCalls, Sent, Sending

LEMMA LimitStays ==
  ASSUME LimitFine, Sent(OwnCalls)' \subseteq Sent(OwnCalls), Sending' \subseteq Sending
  PROVE  LimitFine'
<1>1. /\ Cardinality(Sent(OwnCalls))' \in Nat /\ Cardinality(Sent(OwnCalls)) \in Nat
      /\ Cardinality(Sent(OwnCalls)') <= Cardinality(Sent(OwnCalls))
      /\ Cardinality(Sending') \in Nat /\ Cardinality(Sending) \in Nat
      /\ Cardinality(Sending') <= Cardinality(Sending) /\ Cardinality(Buyers) \in Nat
  BY CallsAre, SentFinite
<1> QED BY <1>1, AcquisitionBounds DEF LimitFine

LEMMA TablesStay ==
  ASSUME AcquisitionInv, UNCHANGED <<proposal, receipt, timely, spent>>
  PROVE  /\ RowsSound' /\ Given' /\ BlankLines' /\ LinesCovered' /\ HiddenDone' /\ OneImport'
         /\ RowsOnward /\ Sent(OwnCalls)' = Sent(OwnCalls)
         /\ proposal' \in [Proposals -> ProposalType] /\ receipt' \in [Lines -> ReceiptType]
         /\ timely' \in [Proposals -> SUBSET Lines] /\ spent' \in [Proposals \X Lines -> 0..Sought]
<1>1. /\ RowsSound' /\ Given' /\ BlankLines' /\ LinesCovered' /\ HiddenDone' /\ OneImport'
  BY AcquisitionParts DEF RowsSound, Given, GivenFor, SpentFor, BlankLines, LinesCovered, SpentOn,
     HiddenDone, OneImport, Stands
<1>2. Sent(OwnCalls)' = Sent(OwnCalls)
  BY DEF Sent
<1>3. RowsOnward
  <2> SUFFICES ASSUME NEW r \in Proposals PROVE RowOnward(r)
    BY DEF RowsOnward
  <2>1. proposal[r].ver \in Nat
    BY AcquisitionParts, ProposalIs
  <2> QED BY <2>1 DEF RowOnward, Stands
<1> QED BY <1>1, <1>2, <1>3, AcquisitionParts

(* A handler that sets out changes nothing but what it carries. *)
LEMMA DealIsMade ==
  ASSUME AcquisitionInv, NEW b \in Buyers, NEW d \in Deal, Intend(b, d), DealFine(d),
         d.op = "send" /\ d.of \in Own => Cardinality(Sent(Own)) < ProposalLimit
  PROVE  AcquisitionInv'
<1>1. /\ buyer[b] = Browsing /\ buyer' = [buyer EXCEPT ![b] = d]
      /\ UNCHANGED <<proposal, receipt, timely, spent>> /\ adopted' = adopted
  BY DEF Intend
<1>2. AcquisitionTypeOK'
  BY <1>1, AcquisitionParts, TablesStay DEF AcquisitionTypeOK
<1>3. DealsFine'
  <2>1. \A c : DealFine(c) <=> DealFine(c)'
    BY <1>1 DEF DealFine, DecisionFine, VersionRead, Stands, Follows
  <2>2. ASSUME NEW e \in Buyers, NEW c, c = buyer'[e], c # Browsing PROVE DealFine(c)'
    <3>1. CASE e = b
      BY <1>1, <2>1, <2>2, <3>1, AcquisitionParts
    <3>2. CASE e # b
      <4>1. c = buyer[e]
        BY <1>1, <2>2, <3>2, AcquisitionParts
      <4> QED BY <2>1, <2>2, <4>1, AcquisitionParts DEF DealsFine
    <3> QED BY <3>1, <3>2
  <2> QED BY Zenon, <2>2 DEF DealsFine, DealFine, DecisionFine
<1>4. LimitFine'
  <2>1. Sent(OwnCalls)' = Sent(OwnCalls)
    BY <1>1, TablesStay
  <2>2. CASE d.op = "send" /\ d.of \in Own
    <3>1. /\ Cardinality(Sent(OwnCalls)) <= Cardinality(Sent(Own))
          /\ Cardinality(Sent(OwnCalls)) \in Nat /\ Cardinality(Sent(Own)) \in Nat
      BY CallsAre, SentFinite
    <3>2. Cardinality(Sending') <= Cardinality(Buyers) /\ Cardinality(Sending') \in Nat
          /\ Cardinality(Buyers) \in Nat
      BY CallsAre, SentFinite
    <3> QED BY <2>1, <2>2, <3>1, <3>2, AcquisitionBounds DEF LimitFine
  <2>3. CASE ~(d.op = "send" /\ d.of \in Own)
    <3>1. Sending' \subseteq Sending
      BY <1>1, <2>3, AcquisitionParts DEF Sending
    <3> QED BY <2>1, <3>1, LimitStays, AcquisitionParts
  <2> QED BY <2>2, <2>3
<1> QED BY <1>1, <1>2, <1>3, <1>4, TablesStay DEF AcquisitionInv

LEMMA DealEnds ==
  ASSUME NEW b, Done(b), buyer \in [Buyers -> Deal \cup {Browsing}]
  PROVE  /\ buyer' \in [Buyers -> Deal \cup {Browsing}] /\ Sending' \subseteq Sending
         /\ \A c \in Buyers : buyer'[c] \in {buyer[c], Browsing}
         /\ b \in Buyers => b \notin Sending'
BY DEF Done, Sending

LEMMA AdoptKeeps ==
  ASSUME AcquisitionInv, UNCHANGED <<proposal, receipt, timely, spent>>, adopted' \subseteq Works,
         buyer' \in [Buyers -> Deal \cup {Browsing}], Sending' \subseteq Sending,
         \A c \in Buyers : buyer'[c] \in {buyer[c], Browsing}
  PROVE  AcquisitionInv'
<1>1. AcquisitionTypeOK'
  BY TablesStay DEF AcquisitionTypeOK
<1>2. DealsFine'
  BY TablesStay, DealsStay
<1>3. LimitFine'
  BY TablesStay, LimitStays, AcquisitionParts
<1> QED BY <1>1, <1>2, <1>3, TablesStay DEF AcquisitionInv

(* What is put out of sight is over, and nothing else changes. *)
Reshown ==
    /\ proposal' \in [Proposals -> ProposalType]
    /\ \A r \in Proposals : /\ Decision(proposal'[r]) = Decision(proposal[r])
                            /\ proposal'[r].hidden => proposal[r].status \in Finished
    /\ UNCHANGED <<receipt, timely, spent, adopted>>

LEMMA ReshownKeeps ==
  ASSUME AcquisitionInv, Reshown,
         buyer' \in [Buyers -> Deal \cup {Browsing}], Sending' \subseteq Sending,
         \A c \in Buyers : buyer'[c] \in {buyer[c], Browsing}
  PROVE  AcquisitionInv' /\ RowsOnward
<1>1. \A r \in Proposals :
         /\ proposal'[r].status = proposal[r].status /\ proposal'[r].approved = proposal[r].approved
         /\ proposal'[r].ordered = proposal[r].ordered /\ proposal'[r].received = proposal[r].received
         /\ proposal'[r].work = proposal[r].work /\ proposal'[r].ver = proposal[r].ver
  BY DEF Reshown, Decision
<1>2. RowsOnward
  <2> SUFFICES ASSUME NEW r \in Proposals PROVE RowOnward(r)
    BY DEF RowsOnward
  <2>1. proposal[r].ver \in Nat
    BY AcquisitionParts, ProposalIs
  <2> QED BY <1>1, <2>1 DEF RowOnward, Stands, Reshown
<1>3. AcquisitionTypeOK'
  BY AcquisitionParts DEF AcquisitionTypeOK, Reshown
<1>4. RowsSound' /\ Given' /\ BlankLines' /\ LinesCovered'
  <2>1. ASSUME NEW r \in Proposals PROVE RowSound(r, proposal'[r])
    <3>1. RowSound(r, proposal[r])
      BY AcquisitionParts DEF RowsSound
    <3> QED BY <1>1, <3>1 DEF RowSound, Ceiling
  <2>2. Given'
    BY <1>1, AcquisitionParts DEF Given, GivenFor, SpentFor, Reshown
  <2>3. BlankLines' /\ LinesCovered'
    BY <1>1, AcquisitionParts DEF BlankLines, LinesCovered, SpentOn, Reshown
  <2> QED BY <2>1, <2>2, <2>3 DEF RowsSound, RowSound, Ceiling
<1>5. HiddenDone' /\ OneImport'
  BY <1>1, AcquisitionParts, AcquisitionValues DEF HiddenDone, OneImport, Stands, Reshown
<1>6. DealsFine'
  BY <1>2, DealsStay DEF Reshown
<1>7. LimitFine'
  <2>1. Sent(OwnCalls)' \subseteq Sent(OwnCalls)
    BY <1>1, CallsAre DEF Sent
  <2> QED BY <2>1, LimitStays, AcquisitionParts
<1> QED BY <1>2, <1>3, <1>4, <1>5, <1>6, <1>7 DEF AcquisitionInv

LEMMA ShowKeeps ==
  ASSUME AcquisitionInv, NEW r \in Proposals, NEW row \in ProposalType, Show(r, row),
         Decision(row) = Decision(proposal[r]), row.hidden => proposal[r].status \in Finished
  PROVE  Reshown
<1>1. HiddenDone /\ proposal \in [Proposals -> ProposalType]
  BY AcquisitionParts
<1> QED BY <1>1 DEF Reshown, Show, HiddenDone

(* A proposal appears: nothing is ordered or received, and a call that      *)
(* sends puts down what it carried.                                         *)
LEMMA AppearKeeps ==
  ASSUME AcquisitionInv, NEW b \in Buyers, NEW r \in Proposals, NEW op \in {"send", "import"},
         buyer[b] # Browsing, buyer[b].op = op, buyer[b].of = r, ~Stands(r),
         op = "import" => NotImported(Workbook),
         Appear(r), Done(b), UNCHANGED <<receipt, timely, spent, adopted>>
  PROVE  AcquisitionInv' /\ DecidedStep
<1>1. PICK w \in Works \cup {NoWork} :
         /\ Educational(w)
         /\ proposal' = [proposal EXCEPT ![r] = Proposal("submitted", w, 0, 1)]
  BY DEF Appear
<1>2. PICK row : row = Proposal("submitted", w, 0, 1)
  OBVIOUS
<1>3. /\ row.status = "submitted" /\ row.work = w /\ row.approved = 0 /\ row.ordered = 0
      /\ row.received = 0 /\ row.hidden = FALSE /\ row.ver = 1 /\ row \in ProposalType
  BY <1>2, AcquisitionBounds DEF Proposal, ProposalType, Unsettled, Considered
<1>4. /\ proposal'[r] = row /\ proposal' \in [Proposals -> ProposalType]
      /\ \A q \in Proposals : q # r => proposal'[q] = proposal[q]
  BY <1>1, <1>2, <1>3, AcquisitionParts
<1>5. proposal[r].status = "none" /\ proposal[r].ver = 0 /\ proposal[r].received = 0
  <2>1. RowSound(r, proposal[r]) /\ proposal[r] \in ProposalType
    BY AcquisitionParts DEF RowsSound
  <2> QED BY <2>1, ProposalIs DEF RowSound, Stands
<1>6. DealFine(buyer[b]) /\ buyer[b] \in Deal
  BY AcquisitionParts DEF DealsFine
<1>7. RowsOnward
  <2> SUFFICES ASSUME NEW q \in Proposals PROVE RowOnward(q)
    BY DEF RowsOnward
  <2>1. proposal[q].ver \in Nat
    BY AcquisitionParts, ProposalIs
  <2>2. CASE q = r
    BY <1>3, <1>4, <1>5, <2>2 DEF RowOnward, Stands, Finished
  <2>3. CASE q # r
    BY <1>4, <2>1, <2>3 DEF RowOnward, Stands
  <2> QED BY <2>2, <2>3
<1>8. AcquisitionTypeOK'
  BY <1>4, DealEnds, AcquisitionParts DEF AcquisitionTypeOK
<1>9. RowsSound'
  <2> SUFFICES ASSUME NEW q \in Proposals PROVE RowSound(q, proposal'[q])
    BY DEF RowsSound, RowSound, Ceiling
  <2>1. CASE q = r
    BY <1>3, <1>4, <2>1, AcquisitionBounds DEF RowSound, Ceiling
  <2>2. CASE q # r
    BY <1>4, <2>2, AcquisitionParts DEF RowsSound
  <2> QED BY <2>1, <2>2
<1>10. Given' /\ BlankLines'
  <2>1. \A q \in Proposals : proposal'[q].received = proposal[q].received
    BY <1>3, <1>4, <1>5
  <2> QED BY <2>1, AcquisitionParts DEF Given, GivenFor, SpentFor, BlankLines
<1>11. LinesCovered'
  <2>1. \A l \in Lines : spent[<<r, l>>] = 0
    BY <1>5, AcquisitionParts, SpentFacts DEF Given, GivenFor
  <2> QED BY <1>4, <2>1, AcquisitionParts DEF LinesCovered, SpentOn
<1>12. HiddenDone'
  BY <1>3, <1>4, AcquisitionParts DEF HiddenDone
<1>13. OneImport'
  <2>1. CASE op = "import"
    BY <1>4, <2>1, AcquisitionValues DEF OneImport, NotImported, Stands
  <2>2. CASE op = "send"
    BY <1>4, <1>6, <2>2, AcquisitionParts, AcquisitionValues DEF DealFine, OneImport, Stands
  <2> QED BY <2>1, <2>2
<1>14. DealsFine'
  BY <1>4, <1>7, DealEnds, DealsStay, AcquisitionParts
<1>15. LimitFine'
  <2>1. CASE r \in OwnCalls
    <3>1. op = "send"
      BY <1>6, <2>1 DEF DealFine, OwnCalls
    <3>2. b \in Sending /\ Sending' \subseteq Sending \ {b}
      BY <2>1, <3>1, CallsAre, DealEnds, AcquisitionParts DEF Sending
    <3>3. Sent(OwnCalls)' \subseteq Sent(OwnCalls) \cup {r}
      BY <1>4, CallsAre DEF Sent
    <3>4. /\ Cardinality(Sent(OwnCalls) \cup {r}) <= Cardinality(Sent(OwnCalls)) + 1
          /\ Cardinality(Sent(OwnCalls)) \in Nat
      <4>1. IsFiniteSet(Sent(OwnCalls)) /\ Cardinality(Sent(OwnCalls)) \in Nat
        BY CallsAre, SentFinite
      <4>2. PICK S : S = Sent(OwnCalls)
        OBVIOUS
      <4>3. IsFiniteSet(S) /\ Cardinality(S) \in Nat
        BY <4>1, <4>2
      <4>4. Cardinality(S \cup {r}) = IF r \in S THEN Cardinality(S) ELSE Cardinality(S) + 1
        BY <4>3, FS_AddElement
      <4>5. Cardinality(S \cup {r}) <= Cardinality(S) + 1
        BY <4>3, <4>4
      <4> QED BY <4>2, <4>3, <4>5
    <3>5. /\ Cardinality(Sent(OwnCalls)') <= Cardinality(Sent(OwnCalls) \cup {r})
          /\ Cardinality(Sent(OwnCalls)') \in Nat /\ Cardinality(Sent(OwnCalls) \cup {r}) \in Nat
      <4>1. Sent(OwnCalls) \cup {r} \in SUBSET Proposals /\ Sent(OwnCalls)' \in SUBSET Proposals
        BY CallsAre
      <4> QED BY <3>3, <4>1, SentFinite
    <3>6. /\ Cardinality(Sending \ {b}) = Cardinality(Sending) - 1 /\ Cardinality(Sending) \in Nat
      <4>1. IsFiniteSet(Sending) /\ Cardinality(Sending) \in Nat
        BY CallsAre, SentFinite
      <4> QED BY <3>2, <4>1, FS_RemoveElement
    <3>7. /\ Cardinality(Sending') <= Cardinality(Sending \ {b}) /\ Cardinality(Sending') \in Nat
          /\ Cardinality(Buyers) \in Nat /\ Cardinality(Sending \ {b}) \in Nat
      <4>1. Sending \ {b} \in SUBSET Buyers /\ Sending' \in SUBSET Buyers
        BY CallsAre
      <4> QED BY <3>2, <4>1, SentFinite
    <3> QED BY <3>4, <3>5, <3>6, <3>7, AcquisitionBounds, AcquisitionParts DEF LimitFine
  <2>2. CASE r \notin OwnCalls
    <3>1. Sent(OwnCalls)' \subseteq Sent(OwnCalls)
      BY <1>4, <2>2, CallsAre DEF Sent
    <3> QED BY <3>1, DealEnds, LimitStays, AcquisitionParts
  <2> QED BY <2>1, <2>2
<1>16. DecidedStep
  <2>1. ASSUME NEW q \in Proposals
        PROVE  /\ proposal'[q].received >= proposal[q].received
               /\ proposal'[q].ver = proposal[q].ver \/ Educational(proposal'[q].work)
    <3>1. proposal[q].received \in Nat
      BY AcquisitionParts, ProposalIs
    <3>2. CASE q = r
      BY <1>1, <1>3, <1>4, <1>5, <3>2
    <3>3. CASE q # r
      BY <1>4, <3>1, <3>3
    <3> QED BY <3>2, <3>3
  <2>2. \A x \in Proposals \X Lines : spent'[x] >= spent[x]
    BY AcquisitionParts, AcquisitionBounds
  <2> QED BY <1>7, <2>1, <2>2 DEF DecidedStep, RowsOnward, RowOnward
<1> QED BY <1>8, <1>9, <1>10, <1>11, <1>12, <1>13, <1>14, <1>15, <1>16 DEF AcquisitionInv

(* A receipt of the stock: until now the line gave nothing to anyone.       *)
LEMMA PostKeeps ==
  ASSUME AcquisitionInv, NEW l \in Lines, NEW w \in Works, NEW n \in 1..Sought,
         NEW early \in SUBSET Proposals, Post(l, w, n, early)
  PROVE  AcquisitionInv' /\ RowsOnward
<1>1. /\ ~receipt[l].posted /\ UNCHANGED <<proposal, spent, adopted, buyer>>
      /\ receipt' = [receipt EXCEPT ![l] = [posted |-> TRUE, work |-> w, amount |-> n]]
      /\ \A r \in Proposals : timely[r] \subseteq timely'[r]
      /\ timely' \in [Proposals -> SUBSET Lines]
  BY AcquisitionParts DEF Post
<1>2. /\ receipt' \in [Lines -> ReceiptType] /\ receipt'[l].posted
      /\ receipt'[l].amount = n /\ n \in Nat
      /\ \A k \in Lines : k # l => receipt'[k] = receipt[k]
  <2>1. [posted |-> TRUE, work |-> w, amount |-> n] \in ReceiptType
    BY DEF ReceiptType
  <2> QED BY <1>1, <2>1, AcquisitionParts
<1>3. SpentOn(l) = 0 /\ \A r \in Proposals : spent[<<r, l>>] = 0
  <2>1. receipt[l].amount = 0
    BY <1>1, AcquisitionParts DEF BlankLines
  <2>2. SpentOn(l) <= 0
    BY <2>1, AcquisitionParts DEF LinesCovered
  <2> QED BY <2>2, SpentFacts, AcquisitionParts
<1>4. AcquisitionTypeOK'
  BY <1>1, <1>2, AcquisitionParts DEF AcquisitionTypeOK
<1>5. RowsOnward
  <2> SUFFICES ASSUME NEW r \in Proposals PROVE RowOnward(r)
    BY DEF RowsOnward
  <2>1. proposal[r].ver \in Nat
    BY AcquisitionParts, ProposalIs
  <2> QED BY <1>1, <2>1 DEF RowOnward, Stands
<1>6. RowsSound' /\ Given' /\ HiddenDone' /\ OneImport'
  BY <1>1, AcquisitionParts DEF RowsSound, Given, GivenFor, SpentFor, HiddenDone, OneImport, Stands
<1>7. BlankLines'
  BY <1>2, AcquisitionParts DEF BlankLines
<1>8. LinesCovered'
  <2>1. \A k \in Lines : SpentOn(k)' = SpentOn(k)
    BY <1>1 DEF SpentOn
  <2>2. \A k \in Lines : SpentOn(k)' <= receipt'[k].amount
    BY <1>2, <1>3, <2>1, AcquisitionParts DEF LinesCovered
  <2>3. \A r \in Proposals, k \in Lines :
           spent'[<<r, k>>] > 0 => receipt'[k].work = proposal'[r].work /\ k \in timely'[r]
    BY <1>1, <1>2, <1>3, AcquisitionParts DEF LinesCovered
  <2> QED BY <2>2, <2>3 DEF LinesCovered
<1>9. DealsFine'
  BY <1>1, <1>5, DealsStay, AcquisitionParts
<1>10. LimitFine'
  BY <1>1, AcquisitionParts, LimitStays DEF Sent, Sending
<1> QED BY <1>4, <1>5, <1>6, <1>7, <1>8, <1>9, <1>10 DEF AcquisitionInv

(* A decision is written: its row follows from the row of the version it    *)
(* read, and the line of a receipt still has what it takes.                 *)
LEMMA DecisionKeeps ==
  ASSUME AcquisitionInv, NEW b \in Buyers, CommitDecision(b)
  PROVE  /\ AcquisitionInv' /\ RowsOnward
         /\ \A r \in Proposals : /\ proposal'[r].received >= proposal[r].received
                                 /\ \/ proposal'[r].ver = proposal[r].ver
                                    \/ proposal'[r].status = "cancelled"
                                    \/ Educational(proposal'[r].work)
         /\ \A x \in Proposals \X Lines : spent'[x] >= spent[x]
<1>1. PICK d : d = buyer[b]
  OBVIOUS
<1>2. /\ d # Browsing /\ d \in Deal /\ d.op \in {"cancel", "act", "order", "receipt"}
      /\ VersionRead(d.of, d.row) /\ (d.op # "cancel" => Educational(d.row.work))
      /\ d.op = "receipt" => Serves(d.of, d.line, d.row.work, d.n)
      /\ proposal' = [proposal EXCEPT
             ![d.of] = [d.row EXCEPT !.hidden = proposal[d.of].hidden,
                                     !.shelved = proposal[d.of].shelved]]
      /\ d.op = "order" => \E meanwhile \in SUBSET (Posted \ d.before) :
              timely' = [timely EXCEPT ![d.of] = meanwhile]
      /\ d.op # "order" => UNCHANGED timely
      /\ d.op = "receipt" => spent' = [spent EXCEPT ![<<d.of, d.line>>] = @ + d.n]
      /\ d.op # "receipt" => spent' = spent
      /\ Done(b) /\ receipt' = receipt /\ adopted' = adopted
  BY <1>1, AcquisitionParts DEF CommitDecision
<1>3. PICK r \in Proposals : r = d.of
  BY <1>2 DEF Deal
<1>4. PICK p \in ProposalType : p = proposal[r]
  BY <1>3, AcquisitionParts
<1>5. PICK row \in ProposalType : row = d.row
  BY <1>2 DEF Deal
<1>6. PICK q : q = [row EXCEPT !.hidden = p.hidden, !.shelved = p.shelved]
  OBVIOUS
<1>7. /\ q.status = row.status /\ q.work = row.work /\ q.approved = row.approved
      /\ q.ordered = row.ordered /\ q.received = row.received /\ q.ver = row.ver
      /\ q.hidden = p.hidden /\ q \in ProposalType
  BY <1>6 DEF ProposalType
<1>8. /\ proposal'[r] = q /\ proposal' \in [Proposals -> ProposalType]
      /\ \A s \in Proposals : s # r => proposal'[s] = proposal[s]
  <2>1. proposal' = [proposal EXCEPT ![r] = q]
    BY <1>2, <1>3, <1>4, <1>5, <1>6
  <2> QED BY <1>7, <2>1, AcquisitionParts
<1>9. /\ row.ver > 0 /\ row.status # "none" /\ RowSound(r, row) /\ p.ver = row.ver - 1
      /\ p.status \in Unsettled
      /\ d.op = "cancel" => row.status = "cancelled"
      /\ row.received = p.received + (IF d.op = "receipt" THEN d.n ELSE 0)
         \/ (ShapeOf[r] = "literature" /\ d.op = "act")
      /\ row.work = p.work \/ p.received = 0
      /\ d.op = "order" => p.received = 0
      /\ d.op = "receipt" => /\ row.work = p.work /\ d.n > 0 /\ d.line \in Lines
                             /\ ShapeOf[r] # "literature" /\ d.n \in 0..Sought
  <2>1. DecisionFine(d)
    BY <1>1, <1>2, AcquisitionParts DEF DealsFine, DealFine
  <2>2. d.n \in 0..Sought
    BY <1>2 DEF Deal
  <2>3. Follows(d, p)
    BY <1>2, <1>3, <1>4, <2>1 DEF DecisionFine
  <2> QED BY <1>2, <1>3, <1>4, <1>5, <2>1, <2>2, <2>3 DEF DecisionFine, Follows, VersionRead
<1>10. /\ RowSound(r, p) /\ p.received \in Nat /\ row.received \in Nat /\ p.ver \in Nat
       /\ row.ver \in Nat /\ p.status # "none" /\ p.status \notin Finished
       /\ (d.op = "receipt" => d.n \in Nat) /\ Sought \in Nat
  <2>1. RowSound(r, p)
    BY <1>4, AcquisitionParts DEF RowsSound
  <2>2. p.status # "none" /\ p.status \notin Finished
    BY <1>9 DEF Unsettled, Considered, Finished
  <2> QED BY <1>4, <1>5, <1>9, <2>1, <2>2, ProposalIs, AcquisitionBounds
<1>11. /\ RowsOnward
       /\ \A s \in Proposals : /\ proposal'[s].received >= proposal[s].received
                               /\ \/ proposal'[s].ver = proposal[s].ver
                                  \/ proposal'[s].status = "cancelled"
                                  \/ Educational(proposal'[s].work)
  <2>1. ASSUME NEW s \in Proposals, s # r
        PROVE  /\ RowOnward(s) /\ proposal'[s].received >= proposal[s].received
               /\ proposal'[s].ver = proposal[s].ver
    <3>1. proposal[s].ver \in Nat /\ proposal[s].received \in Nat
      BY AcquisitionParts, ProposalIs
    <3> QED BY <1>8, <2>1, <3>1 DEF RowOnward, Stands
  <2>2. RowOnward(r)
    BY <1>4, <1>7, <1>8, <1>9, <1>10 DEF RowOnward, Stands
  <2>3. row.received >= p.received
    <3>1. ShapeOf[r] = "literature" => p.received = 0
      BY <1>9, <1>10 DEF RowSound, Unsettled, Considered
    <3> QED BY <1>9, <1>10, <3>1
  <2>4. row.status = "cancelled" \/ Educational(row.work)
    BY <1>2, <1>5, <1>9
  <2> QED BY <1>4, <1>7, <1>8, <2>1, <2>2, <2>3, <2>4 DEF RowsOnward
<1>12. /\ \A l \in Lines : SpentOn(l)' <= receipt'[l].amount
       /\ \A s \in Proposals :
            SpentFor(s)' = IF s = r /\ d.op = "receipt" THEN SpentFor(s) + d.n ELSE SpentFor(s)
       /\ spent' \in [Proposals \X Lines -> 0..Sought]
       /\ \A x \in Proposals \X Lines : spent'[x] >= spent[x]
       /\ \A s \in Proposals, l \in Lines :
            ~(d.op = "receipt" /\ s = r /\ l = d.line) => spent'[<<s, l>>] = spent[<<s, l>>]
  <2>0. \A x \in Proposals \X Lines : spent[x] \in Nat
    BY AcquisitionParts, AcquisitionBounds
  <2>1. CASE d.op # "receipt"
    <3>1. \A l \in Lines : SpentOn(l)' = SpentOn(l)
      BY <1>2, <2>1 DEF SpentOn
    <3>2. \A s \in Proposals : SpentFor(s)' = SpentFor(s)
      BY <1>2, <2>1 DEF SpentFor
    <3>3. spent' = spent /\ receipt' = receipt
      BY <1>2, <2>1
    <3> QED BY <2>0, <2>1, <3>1, <3>2, <3>3, AcquisitionParts DEF LinesCovered
  <2>2. CASE d.op = "receipt"
    <3>1. PICK k \in Lines : k = d.line
      BY <1>9, <2>2
    <3>2. PICK n \in Nat : n = d.n /\ n \in 0..Sought
      BY <1>9, <1>10, <2>2
    <3>3. spent' = [spent EXCEPT ![<<r, k>>] = @ + n]
      BY <1>2, <1>3, <2>2, <3>1, <3>2
    <3>4. /\ \A l \in Lines : SpentOn(l)' = IF l = k THEN SpentOn(l) + n ELSE SpentOn(l)
          /\ \A s \in Proposals : SpentFor(s)' = IF s = r THEN SpentFor(s) + n ELSE SpentFor(s)
      BY <3>3, SpentAdds, AcquisitionParts
    <3>5. SpentOn(k) + n <= receipt[k].amount
      BY <1>2, <2>2, <3>1, <3>2 DEF Serves
    <3>6. receipt[k].amount <= Sought /\ receipt[k].amount \in Nat
      BY AcquisitionParts, <1>10 DEF ReceiptType
    <3>7. spent[<<r, k>>] <= SpentOn(k) /\ SpentOn(k) \in Nat
      BY AcquisitionParts, SpentFacts
    <3>8. \A x \in Proposals \X Lines :
            spent'[x] = IF x = <<r, k>> THEN spent[x] + n ELSE spent[x]
      BY <3>3, AcquisitionParts
    <3>9. spent[<<r, k>>] + n \in 0..Sought
      BY <2>0, <3>2, <3>5, <3>6, <3>7, <1>10
    <3>10. spent' \in [Proposals \X Lines -> 0..Sought]
      BY <3>3, <3>9, AcquisitionParts
    <3>11. \A l \in Lines : SpentOn(l)' <= receipt'[l].amount
      BY <1>2, <3>4, <3>5, AcquisitionParts DEF LinesCovered
    <3>12. \A x \in Proposals \X Lines : spent'[x] >= spent[x]
      BY <2>0, <3>8
    <3> QED BY <2>2, <3>1, <3>2, <3>4, <3>8, <3>10, <3>11, <3>12
  <2> QED BY <2>1, <2>2
<1>13. timely' \in [Proposals -> SUBSET Lines]
       /\ \A s \in Proposals : ~(s = r /\ d.op = "order") => timely'[s] = timely[s]
  <2>1. Posted \subseteq Lines
    BY DEF Posted
  <2> QED BY <1>2, <1>3, <2>1, AcquisitionParts
<1>14. AcquisitionTypeOK'
  BY <1>2, <1>8, <1>12, <1>13, DealEnds, AcquisitionParts DEF AcquisitionTypeOK
<1>15. RowsSound'
  <2>1. RowSound(r, q)
    BY <1>7, <1>9 DEF RowSound, Ceiling
  <2>2. \A s \in Proposals : RowSound(s, proposal'[s])
    BY <1>8, <2>1, AcquisitionParts DEF RowsSound
  <2> QED BY <2>2 DEF RowsSound, RowSound, Ceiling
<1>16. Given'
  <2>1. SpentFor(r) = (IF ShapeOf[r] = "literature" THEN 0 ELSE p.received)
    BY <1>4, AcquisitionParts DEF Given, GivenFor
  <2>2. SpentFor(r)' = (IF ShapeOf[r] = "literature" THEN 0 ELSE q.received)
    BY <1>7, <1>9, <1>10, <1>12, <2>1
  <2> QED BY <1>8, <1>12, <2>2, AcquisitionParts DEF Given, GivenFor
<1>17. BlankLines'
  BY <1>2, AcquisitionParts DEF BlankLines
<1>18. LinesCovered'
  <2>1. ASSUME NEW s \in Proposals, NEW l \in Lines, spent'[<<s, l>>] > 0
        PROVE  receipt'[l].work = proposal'[s].work /\ l \in timely'[s]
    <3>1. CASE s # r
      <4>1. spent[<<s, l>>] > 0
        BY <1>12, <2>1, <3>1
      <4>2. receipt[l].work = proposal[s].work /\ l \in timely[s]
        BY <4>1, AcquisitionParts DEF LinesCovered
      <4>3. proposal'[s] = proposal[s] /\ timely'[s] = timely[s] /\ receipt'[l] = receipt[l]
        BY <1>2, <1>8, <1>13, <3>1
      <4> QED BY <4>2, <4>3
    <3>2. CASE s = r /\ d.op = "receipt" /\ l = d.line
      BY <1>2, <1>3, <1>5, <1>7, <1>8, <3>2 DEF Serves
    <3>3. CASE s = r /\ ~(d.op = "receipt" /\ l = d.line)
      <4>1. spent[<<r, l>>] > 0
        BY <1>12, <2>1, <3>3
      <4>2. receipt[l].work = p.work /\ l \in timely[r]
        BY <1>4, <4>1, AcquisitionParts DEF LinesCovered
      <4>3. SpentFor(r) # 0
        BY <4>1, SpentFacts, AcquisitionParts
      <4>4. p.received # 0
        BY <1>4, <4>3, AcquisitionParts DEF Given, GivenFor
      <4> QED BY <1>2, <1>7, <1>8, <1>9, <1>13, <3>3, <4>2, <4>4
    <3> QED BY <3>1, <3>2, <3>3
  <2> QED BY <1>12, <2>1 DEF LinesCovered
<1>19. HiddenDone' /\ OneImport'
  <2>1. ~p.hidden
    BY <1>4, <1>10, AcquisitionParts DEF HiddenDone
  <2>2. HiddenDone'
    BY <1>7, <1>8, <2>1, AcquisitionParts DEF HiddenDone
  <2>3. \A s \in Proposals : proposal'[s].status # "none" => proposal[s].status # "none"
    BY <1>4, <1>8, <1>10
  <2>4. OneImport'
    BY <2>3, AcquisitionParts, AcquisitionValues DEF OneImport, Stands
  <2> QED BY <2>2, <2>4
<1>20. DealsFine'
  BY <1>2, <1>8, <1>11, DealEnds, DealsStay, AcquisitionParts
<1>21. LimitFine'
  <2>1. Sent(OwnCalls)' \subseteq Sent(OwnCalls)
    BY <1>4, <1>8, <1>9, CallsAre DEF Sent
  <2> QED BY <1>2, <2>1, DealEnds, LimitStays, AcquisitionParts
<1> QED BY <1>11, <1>12, <1>14, <1>15, <1>16, <1>17, <1>18, <1>19, <1>20, <1>21 DEF AcquisitionInv

-----------------------------------------------------------------------------
(* What handlers set out to do *)

(* What is common to all decisions: the row they mean to write, but for its  *)
(* version.                                                                  *)
LEMMA TurnKeeps ==
  ASSUME AcquisitionInv, NEW b \in Buyers, NEW r \in Proposals,
         NEW op \in {"cancel", "act", "order", "receipt"}, NEW row \in ProposalType,
         NEW l \in Lines \cup {NoReceipt}, NEW n \in 0..Sought, Turning(b, r, op, row, l, n),
         proposal[r].status \in Unsettled, row.ver = proposal[r].ver, row.status # "none",
         RowSound(r, row),
         op = "cancel" => row.status = "cancelled",
         row.received = proposal[r].received + (IF op = "receipt" THEN n ELSE 0)
            \/ (ShapeOf[r] = "literature" /\ op = "act"),
         row.work = proposal[r].work \/ proposal[r].received = 0,
         op = "order" => proposal[r].received = 0,
         op = "receipt" => /\ row.work = proposal[r].work /\ n > 0 /\ l \in Lines
                           /\ ShapeOf[r] # "literature"
  PROVE  AcquisitionInv'
<1>1. PICK next : next = [row EXCEPT !.ver = @ + 1]
  OBVIOUS
<1>2. Stands(r) /\ row.ver < MaxDeal /\ row.ver \in Nat /\ MaxDeal \in Nat
  BY ProposalIs DEF Turning
<1>3. /\ next.status = row.status /\ next.work = row.work /\ next.approved = row.approved
      /\ next.ordered = row.ordered /\ next.received = row.received /\ next.ver = row.ver + 1
      /\ next \in ProposalType
  BY <1>1, <1>2 DEF ProposalType
<1> DEFINE d == [op |-> op, of |-> r, line |-> l, n |-> n,
                 before |-> IF op = "order" THEN Posted ELSE {}, row |-> next]
<1>4. d \in Deal
  BY <1>3 DEF Deal, Posted
<1>5. Intend(b, d)
  BY <1>1 DEF Turning
<1>6. /\ d.op = op /\ d.of = r /\ d.line = l /\ d.n = n /\ d.row = next
  OBVIOUS
<1> HIDE DEF d
<1>7. Follows(d, proposal[r])
  BY <1>3, <1>6 DEF Follows
<1>8. RowSound(r, next)
  BY <1>3 DEF RowSound, Ceiling
<1>9. DecisionFine(d)
  <2>1. next.ver > 0 /\ next.ver - 1 <= proposal[r].ver /\ next.status # "none"
    BY <1>2, <1>3
  <2> QED BY <1>2, <1>6, <1>7, <1>8, <2>1 DEF DecisionFine
<1>10. DealFine(d)
  BY <1>6, <1>9 DEF DealFine
<1> QED BY <1>4, <1>5, <1>6, <1>10, DealIsMade

LEMMA ActKeeps ==
  ASSUME AcquisitionInv, NEW b \in Buyers, NEW r \in Proposals,
         NEW op \in {"cancel", "act", "order"}, NEW row \in ProposalType,
         Turning(b, r, op, row, NoReceipt, 0),
         proposal[r].status \in Unsettled, row.ver = proposal[r].ver, row.status # "none",
         RowSound(r, row), op = "cancel" => row.status = "cancelled",
         row.received = proposal[r].received \/ (ShapeOf[r] = "literature" /\ op = "act"),
         row.work = proposal[r].work \/ proposal[r].received = 0,
         op = "order" => proposal[r].received = 0
  PROVE  AcquisitionInv'
<1>1. proposal[r] \in ProposalType
  BY AcquisitionParts
<1>2. 0 \in 0..Sought /\ proposal[r].received \in Nat
  BY <1>1, ProposalIs
<1>3. op \in {"cancel", "act", "order", "receipt"} /\ op # "receipt"
      /\ NoReceipt \in Lines \cup {NoReceipt}
  OBVIOUS
<1>4. row.received = proposal[r].received + (IF op = "receipt" THEN 0 ELSE 0)
         \/ (ShapeOf[r] = "literature" /\ op = "act")
  BY <1>2
<1> QED BY <1>2, <1>3, <1>4, TurnKeeps

LEMMA DealRowIs ==
  ASSUME AcquisitionInv, NEW r \in Proposals
  PROVE  /\ proposal[r] \in ProposalType /\ RowSound(r, proposal[r])
         /\ proposal[r].status \in Considered => proposal[r].ordered = 0 /\ proposal[r].received = 0
         /\ proposal[r].status \in Considered => proposal[r].status \in Unsettled
<1>1. proposal[r] \in ProposalType /\ RowSound(r, proposal[r])
  BY AcquisitionParts DEF RowsSound
<1> QED BY <1>1, ProposalIs DEF RowSound, Considered, Unsettled

(* Reviews, questions, plans and refusals change the status alone.           *)
LEMMA StatusKeeps ==
  ASSUME AcquisitionInv, NEW b \in Buyers, NEW r \in Proposals, NEW op \in {"cancel", "act"},
         NEW to \in Considered \cup {"rejected", "cancelled"},
         Turning(b, r, op, [proposal[r] EXCEPT !.status = to], NoReceipt, 0),
         proposal[r].status \in Unsettled, proposal[r].received = 0,
         op = "cancel" => to = "cancelled",
         to \in Considered => proposal[r].status \in Considered
  PROVE  AcquisitionInv'
<1>1. PICK p \in ProposalType : p = proposal[r] /\ RowSound(r, p)
  BY DealRowIs
<1>2. PICK row : row = [p EXCEPT !.status = to]
  OBVIOUS
<1>3. /\ row.status = to /\ row.work = p.work /\ row.approved = p.approved /\ row.ordered = p.ordered
      /\ row.received = p.received /\ row.ver = p.ver /\ row \in ProposalType
  BY <1>1, <1>2 DEF ProposalType, Unsettled, Finished
<1>4. RowSound(r, row) /\ to # "none"
  BY <1>1, <1>3, ProposalIs DEF RowSound, Ceiling, Considered
<1>5. Turning(b, r, op, row, NoReceipt, 0)
  BY <1>1, <1>2
<1>6. op \in {"cancel", "act", "order"} /\ op # "order"
  OBVIOUS
<1> QED BY <1>1, <1>3, <1>4, <1>5, <1>6, ActKeeps

LEMMA TurnedKeeps ==
  ASSUME AcquisitionInv, NEW b \in Buyers, NEW r \in Proposals,
         \/ StartReview(b, r) \/ AskMore(b, r) \/ Schedule(b, r) \/ TakeBack(b, r)
         \/ \E to \in {"rejected", "cancelled"} : Decline(b, r, to)
  PROVE  AcquisitionInv'
<1>1. RowSound(r, proposal[r]) /\ proposal[r].received \in Nat
  BY DealRowIs, ProposalIs
<1>2. proposal[r].status \in Unsettled \ {"partially_received"} => proposal[r].received = 0
  BY <1>1 DEF RowSound, Unsettled, Considered
<1>3. CASE StartReview(b, r)
  BY <1>2, <1>3, StatusKeeps DEF StartReview, Turn, Decide, Considered, Unsettled
<1>4. CASE AskMore(b, r)
  BY <1>2, <1>4, StatusKeeps DEF AskMore, Turn, Decide, Considered, Unsettled
<1>5. CASE Schedule(b, r)
  BY <1>2, <1>5, StatusKeeps DEF Schedule, Turn, Decide, Considered, Unsettled
<1>6. CASE TakeBack(b, r)
  BY <1>2, <1>6, StatusKeeps DEF TakeBack, Considered, Unsettled
<1>7. ASSUME NEW to \in {"rejected", "cancelled"}, Decline(b, r, to) PROVE AcquisitionInv'
  BY <1>2, <1>7, StatusKeeps DEF Decline, Turn, Decide, Considered, Unsettled
<1> QED BY <1>3, <1>4, <1>5, <1>6, <1>7

LEMMA AgreeKeeps ==
  ASSUME AcquisitionInv, NEW b \in Buyers, NEW r \in Proposals, NEW n \in 1..Sought, Agree(b, r, n)
  PROVE  AcquisitionInv'
<1>1. PICK p \in ProposalType : p = proposal[r] /\ RowSound(r, p)
  BY DealRowIs
<1>2. PICK row : row = [p EXCEPT !.status = "approved", !.approved = n]
  OBVIOUS
<1>3. /\ row.status = "approved" /\ row.work = p.work /\ row.approved = n /\ row.ordered = p.ordered
      /\ row.received = p.received /\ row.ver = p.ver /\ row \in ProposalType
  BY <1>1, <1>2, n \in 0..Sought, ProposalIs DEF ProposalType, Unsettled, Considered
<1>4. p.status \in Considered /\ p.status \in Unsettled /\ p.ordered = 0 /\ p.received = 0
  BY <1>1, DealRowIs DEF Agree, Considered, Unsettled
<1>5. RowSound(r, row)
  BY <1>3, <1>4 DEF RowSound, Ceiling
<1>6. Turning(b, r, "act", row, NoReceipt, 0)
  BY <1>1, <1>2 DEF Agree, Decide
<1> QED BY <1>1, <1>3, <1>4, <1>5, <1>6, ActKeeps

LEMMA OrderKeeps ==
  ASSUME AcquisitionInv, NEW b \in Buyers, NEW r \in Proposals, NEW n \in 1..Sought, Order(b, r, n)
  PROVE  AcquisitionInv'
<1>1. PICK p \in ProposalType : p = proposal[r] /\ RowSound(r, p)
  BY DealRowIs
<1>2. p.received = 0 /\ p.status \in Unsettled /\ p.received \in Nat
  BY <1>1, ProposalIs DEF Order, RowSound, Considered, Unsettled
<1>3. PICK to : to = IF p.received > 0 THEN "partially_received" ELSE "ordered"
  OBVIOUS
<1>4. PICK row : row = [p EXCEPT !.ordered = n, !.status = to]
  OBVIOUS
<1>5. to = "ordered" /\ n \in 0..Sought
  BY <1>2, <1>3
<1>6. /\ row.status = "ordered" /\ row.work = p.work /\ row.approved = p.approved /\ row.ordered = n
      /\ row.received = 0 /\ row.ver = p.ver /\ row \in ProposalType
  BY <1>1, <1>2, <1>4, <1>5 DEF ProposalType, Unsettled
<1>7. RowSound(r, row)
  BY <1>1, <1>6 DEF Order, RowSound, Ceiling, Considered
<1>8. Turning(b, r, "order", row, NoReceipt, 0)
  BY <1>1, <1>3, <1>4 DEF Order, Decide
<1> QED BY <1>1, <1>2, <1>6, <1>7, <1>8, ActKeeps

LEMMA LinkMaterialKeeps ==
  ASSUME AcquisitionInv, NEW b \in Buyers, NEW r \in Proposals, NEW w \in Works, LinkMaterial(b, r, w)
  PROVE  AcquisitionInv'
<1>1. PICK p \in ProposalType : p = proposal[r] /\ RowSound(r, p)
  BY DealRowIs
<1>2. PICK row : row = [p EXCEPT !.work = w]
  OBVIOUS
<1>3. /\ row.status = p.status /\ row.work = w /\ row.approved = p.approved /\ row.ordered = p.ordered
      /\ row.received = p.received /\ row.ver = p.ver /\ row \in ProposalType
  BY <1>1, <1>2 DEF ProposalType
<1>4. /\ p.status \in Unsettled /\ p.status # "none" /\ (w = p.work \/ p.received = 0)
      /\ p.received \in Nat
  BY <1>1, ProposalIs DEF LinkMaterial, Unsettled, Considered
<1>5. RowSound(r, row)
  BY <1>1, <1>3 DEF RowSound, Ceiling
<1>6. Turning(b, r, "act", row, NoReceipt, 0)
  BY <1>1, <1>2 DEF LinkMaterial, Decide
<1> QED BY <1>1, <1>3, <1>4, <1>5, <1>6, ActKeeps

LEMMA LinkReceiptKeeps ==
  ASSUME AcquisitionInv, NEW b \in Buyers, NEW r \in Proposals, NEW l \in Lines, NEW n \in 1..Sought,
         LinkReceipt(b, r, l, n)
  PROVE  AcquisitionInv'
<1>1. PICK p \in ProposalType : p = proposal[r] /\ RowSound(r, p)
  BY DealRowIs
<1>2. PICK to : to = IF p.received + n = p.ordered THEN "received" ELSE "partially_received"
  OBVIOUS
<1>3. PICK row : row = [p EXCEPT !.received = @ + n, !.status = to]
  OBVIOUS
<1>4. p.received + n <= p.ordered /\ p.ordered \in 0..Sought /\ p.received \in Nat /\ n \in Nat
      /\ n > 0 /\ Sought \in Nat /\ p.received + n \in 0..Sought
  BY <1>1, ProposalIs DEF LinkReceipt
<1>5. /\ row.status = to /\ row.work = p.work /\ row.approved = p.approved /\ row.ordered = p.ordered
      /\ row.received = p.received + n /\ row.ver = p.ver /\ row \in ProposalType
  BY <1>1, <1>2, <1>3, <1>4 DEF ProposalType, Unsettled, Finished
<1>6. /\ p.status \in Unsettled /\ to # "none" /\ ShapeOf[r] # "literature"
  BY <1>1, <1>2 DEF LinkReceipt, Unsettled, Considered
<1>7. RowSound(r, row)
  BY <1>1, <1>2, <1>4, <1>5, <1>6 DEF RowSound, Ceiling, Considered
<1>8. Turning(b, r, "receipt", row, l, n)
  BY <1>1, <1>2, <1>3 DEF LinkReceipt, Decide
<1> QED BY <1>1, <1>4, <1>5, <1>6, <1>7, <1>8, TurnKeeps

LEMMA ArrivedKeeps ==
  ASSUME AcquisitionInv, NEW b \in Buyers, NEW r \in Proposals, NEW n \in 1..Sought, Arrived(b, r, n)
  PROVE  AcquisitionInv'
<1>1. PICK p \in ProposalType : p = proposal[r] /\ RowSound(r, p)
  BY DealRowIs
<1>2. PICK m : m = IF n > p.ordered THEN n ELSE p.ordered
  OBVIOUS
<1>3. PICK row : row = [p EXCEPT !.status = "received", !.received = n, !.work = NoWork, !.ordered = m]
  OBVIOUS
<1>4. /\ row.status = "received" /\ row.work = NoWork /\ row.approved = p.approved /\ row.ordered = m
      /\ row.received = n /\ row.ver = p.ver /\ m \in 0..Sought
  BY <1>1, <1>2, <1>3, ProposalIs DEF ProposalType
<1>5. row \in ProposalType
  BY <1>1, <1>3, <1>4, n \in 0..Sought DEF ProposalType, Finished
<1>6. p.status \in Unsettled /\ ShapeOf[r] = "literature" /\ p.received = 0
  BY <1>1, ProposalIs DEF Arrived, RowSound, Considered, Unsettled
<1>7. RowSound(r, row)
  BY <1>1, <1>2, <1>4, <1>6, ProposalIs DEF Arrived, RowSound, Ceiling, Considered
<1>8. Turning(b, r, "act", row, NoReceipt, 0)
  BY <1>1, <1>2, <1>3 DEF Arrived, Decide
<1> QED BY <1>1, <1>4, <1>5, <1>6, <1>7, <1>8, ActKeeps

-----------------------------------------------------------------------------
(* Every step *)

LEMMA StillDecided ==
  ASSUME AcquisitionTypeOK, RowsOnward, UNCHANGED spent,
         \A r \in Proposals : proposal'[r].ver = proposal[r].ver
  PROVE  DecidedStep
<1>1. \A r \in Proposals : Decision(proposal'[r]) = Decision(proposal[r])
  BY DEF RowsOnward, RowOnward
<1>2. \A r \in Proposals : proposal'[r].received = proposal[r].received /\ proposal[r].received \in Nat
  BY <1>1, ProposalIs DEF Decision, AcquisitionTypeOK
<1>3. \A x \in Proposals \X Lines : spent'[x] >= spent[x]
  BY AcquisitionBounds DEF AcquisitionTypeOK
<1> QED BY <1>1, <1>2, <1>3 DEF DecidedStep

LEMMA AcquisitionPlans ==
  ASSUME AcquisitionInv, NEW b \in Buyers, NEW r \in Proposals,
         \/ PlanSend(b, r) \/ PlanImport(b, r) \/ TakeBack(b, r) \/ PlanHide(b, r)
         \/ ByTheLibrarian(b, r)
  PROVE  AcquisitionInv' /\ UNCHANGED <<proposal, receipt, timely, spent>>
<1>1. CASE PlanSend(b, r)
  <2>1. PICK d : d = [op |-> "send", of |-> r]
    OBVIOUS
  <2>2. d \in Deal /\ d.op = "send" /\ d.of = r /\ Intend(b, d) /\ DealFine(d)
    BY <1>1, <2>1 DEF PlanSend, Deal, DealFine
  <2> QED BY <1>1, <2>2, DealIsMade DEF PlanSend, Intend
<1>2. CASE PlanImport(b, r)
  <2>1. PICK d : d = [op |-> "import", of |-> r]
    OBVIOUS
  <2>2. d \in Deal /\ d.op = "import" /\ d.of = r /\ Intend(b, d) /\ DealFine(d)
    BY <1>2, <2>1 DEF PlanImport, Deal, DealFine
  <2> QED BY <2>2, DealIsMade DEF Intend
<1>3. CASE PlanHide(b, r)
  <2>1. PICK d : d = [op |-> "hide", of |-> r]
    OBVIOUS
  <2>2. d \in Deal /\ d.op = "hide" /\ d.of = r /\ Intend(b, d) /\ DealFine(d)
    BY <1>3, <2>1 DEF PlanHide, Deal, DealFine
  <2> QED BY <2>2, DealIsMade DEF Intend
<1>4. CASE TakeBack(b, r)
  BY <1>4, TurnedKeeps DEF TakeBack, Turning, Intend
<1>5. CASE ByTheLibrarian(b, r)
  <2>1. CASE \/ StartReview(b, r) \/ AskMore(b, r) \/ Schedule(b, r)
             \/ \E to \in {"rejected", "cancelled"} : Decline(b, r, to)
    BY <2>1, TurnedKeeps DEF StartReview, AskMore, Schedule, Decline, Turn, Decide, Turning, Intend
  <2>2. ASSUME NEW n \in 1..Sought, Agree(b, r, n) \/ Order(b, r, n) \/ Arrived(b, r, n)
        PROVE  AcquisitionInv' /\ UNCHANGED <<proposal, receipt, timely, spent>>
    BY <2>2, AgreeKeeps, OrderKeeps, ArrivedKeeps DEF Agree, Order, Arrived, Decide, Turning, Intend
  <2>3. ASSUME NEW w \in Works, LinkMaterial(b, r, w)
        PROVE  AcquisitionInv' /\ UNCHANGED <<proposal, receipt, timely, spent>>
    BY <2>3, LinkMaterialKeeps DEF LinkMaterial, Decide, Turning, Intend
  <2>4. ASSUME NEW l \in Lines, NEW n \in 1..Sought, LinkReceipt(b, r, l, n)
        PROVE  AcquisitionInv' /\ UNCHANGED <<proposal, receipt, timely, spent>>
    BY <2>4, LinkReceiptKeeps DEF LinkReceipt, Decide, Turning, Intend
  <2> QED BY <1>5, <2>1, <2>2, <2>3, <2>4 DEF ByTheLibrarian
<1> QED BY <1>1, <1>2, <1>3, <1>4, <1>5

LEMMA AcquisitionShows ==
  ASSUME AcquisitionInv,
         \/ \E b \in Buyers : CommitHide(b)
         \/ \E r \in Proposals : Unhide(r) \/ SetAside(r, TRUE) \/ SetAside(r, FALSE)
         \/ HideFinished
  PROVE  /\ Reshown /\ buyer' \in [Buyers -> Deal \cup {Browsing}] /\ Sending' \subseteq Sending
         /\ \A c \in Buyers : buyer'[c] \in {buyer[c], Browsing}
<1>1. /\ proposal \in [Proposals -> ProposalType] /\ buyer \in [Buyers -> Deal \cup {Browsing}]
      /\ HiddenDone
  BY AcquisitionParts
<1>2. ASSUME UNCHANGED buyer
      PROVE  /\ buyer' \in [Buyers -> Deal \cup {Browsing}] /\ Sending' \subseteq Sending
             /\ \A c \in Buyers : buyer'[c] \in {buyer[c], Browsing}
  BY <1>1, <1>2 DEF Sending
<1>3. ASSUME NEW r \in Proposals, NEW row, Show(r, row), NEW h \in BOOLEAN, NEW s \in BOOLEAN,
             row = [proposal[r] EXCEPT !.hidden = h] \/ row = [proposal[r] EXCEPT !.shelved = s],
             row.hidden => proposal[r].status \in Finished
      PROVE  Reshown
  <2>1. PICK p \in ProposalType : p = proposal[r]
    BY <1>1
  <2>2. row = [p EXCEPT !.hidden = h] \/ row = [p EXCEPT !.shelved = s]
    BY <1>3, <2>1
  <2>3. row \in ProposalType /\ Decision(row) = Decision(p)
    BY <2>2 DEF ProposalType, Decision
  <2> QED BY <1>3, <2>1, <2>3, ShowKeeps
<1>4. ASSUME NEW b \in Buyers, CommitHide(b)
      PROVE  /\ Reshown /\ buyer' \in [Buyers -> Deal \cup {Browsing}] /\ Sending' \subseteq Sending
             /\ \A c \in Buyers : buyer'[c] \in {buyer[c], Browsing}
  <2>1. PICK d : d = buyer[b]
    OBVIOUS
  <2>2. d # Browsing /\ d \in Deal /\ d.op = "hide" /\ d.of \in Proposals /\ Done(b)
    BY <1>1, <1>4, <2>1 DEF CommitHide, Deal
  <2>3. proposal[d.of].status \in Finished
    BY <2>1, <2>2, AcquisitionParts DEF DealsFine, DealFine
  <2>4. PICK r \in Proposals : r = d.of
    BY <2>2
  <2>5. PICK row : row = [proposal[r] EXCEPT !.hidden = TRUE]
    OBVIOUS
  <2>6. Show(r, row)
    BY <1>4, <2>1, <2>4, <2>5 DEF CommitHide
  <2>7. Reshown
    BY <1>3, <2>3, <2>4, <2>5, <2>6
  <2> QED BY <1>1, <2>2, <2>7, DealEnds
<1>5. ASSUME NEW r \in Proposals, Unhide(r) PROVE Reshown /\ UNCHANGED buyer
  <2>1. PICK row : row = [proposal[r] EXCEPT !.hidden = FALSE]
    OBVIOUS
  <2>2. PICK p \in ProposalType : p = proposal[r]
    BY <1>1
  <2>3. row.hidden = FALSE
    BY <2>1, <2>2 DEF ProposalType
  <2> QED BY <1>3, <1>5, <2>1, <2>3 DEF Unhide
<1>6. ASSUME NEW r \in Proposals, NEW v \in BOOLEAN, SetAside(r, v) PROVE Reshown /\ UNCHANGED buyer
  <2>1. PICK row : row = [proposal[r] EXCEPT !.shelved = v]
    OBVIOUS
  <2>2. PICK p \in ProposalType : p = proposal[r]
    BY <1>1
  <2>3. row.hidden = proposal[r].hidden
    BY <2>1, <2>2 DEF ProposalType
  <2>4. row.hidden => proposal[r].status \in Finished
    BY <1>1, <2>3 DEF HiddenDone
  <2> QED BY <1>3, <1>6, <2>1, <2>4 DEF SetAside
<1>7. ASSUME HideFinished PROVE Reshown /\ UNCHANGED buyer
  <2> DEFINE old == {r \in Proposals : proposal[r].status \in Finished /\ ~proposal[r].hidden}
  <2>1. proposal' = [r \in Proposals |-> IF r \in old THEN [proposal[r] EXCEPT !.hidden = TRUE]
                                         ELSE proposal[r]]
    BY <1>7 DEF HideFinished
  <2>2. ASSUME NEW r \in Proposals
        PROVE  /\ proposal'[r] \in ProposalType /\ Decision(proposal'[r]) = Decision(proposal[r])
               /\ proposal'[r].hidden => proposal[r].status \in Finished
    <3>1. PICK p \in ProposalType : p = proposal[r]
      BY <1>1
    <3>2. PICK row : row = [p EXCEPT !.hidden = TRUE]
      OBVIOUS
    <3>3. row \in ProposalType /\ Decision(row) = Decision(p)
      BY <3>2 DEF ProposalType, Decision
    <3>4. proposal'[r] = IF r \in old THEN row ELSE p
      BY <2>1, <3>1, <3>2
    <3> QED BY <1>1, <3>1, <3>3, <3>4 DEF HiddenDone
  <2>3. proposal' \in [Proposals -> ProposalType]
    BY <2>1, <2>2
  <2> QED BY <1>7, <2>2, <2>3 DEF Reshown, HideFinished
<1> QED BY <1>2, <1>4, <1>5, <1>6, <1>7

LEMMA AcquisitionStep ==
  ASSUME AcquisitionInv, [AcquisitionNext]_acquisitionVars
  PROVE  AcquisitionInv' /\ DecidedStep
<1>0. AcquisitionTypeOK
  BY AcquisitionParts
<1>1. ASSUME UNCHANGED <<proposal, receipt, timely, spent>> PROVE DecidedStep
  BY <1>0, <1>1, TablesStay, StillDecided
<1>2. CASE \E b \in Buyers, r \in Proposals :
              \/ PlanSend(b, r) \/ PlanImport(b, r) \/ TakeBack(b, r) \/ PlanHide(b, r)
              \/ ByTheLibrarian(b, r)
  BY <1>1, <1>2, AcquisitionPlans
<1>3. ASSUME NEW b \in Buyers, CommitSend(b) \/ CommitImport(b) PROVE AcquisitionInv' /\ DecidedStep
  <2>1. PICK d : d = buyer[b]
    OBVIOUS
  <2>2. d # Browsing /\ d \in Deal /\ d.op \in {"send", "import"} /\ d.of \in Proposals
    BY <1>3, <2>1, AcquisitionParts DEF CommitSend, CommitImport, Deal
  <2>3. PICK r \in Proposals : r = d.of
    BY <2>2
  <2>4. /\ ~Stands(r) /\ Appear(r) /\ Done(b) /\ UNCHANGED <<receipt, timely, spent, adopted>>
        /\ d.op = "import" => NotImported(Workbook)
    BY <1>3, <2>1, <2>3 DEF CommitSend, CommitImport
  <2> QED BY <2>1, <2>2, <2>3, <2>4, AppearKeeps
<1>4. ASSUME NEW b \in Buyers, CommitDecision(b) PROVE AcquisitionInv' /\ DecidedStep
  <2>1. /\ AcquisitionInv' /\ RowsOnward
        /\ \A r \in Proposals : /\ proposal'[r].received >= proposal[r].received
                                /\ \/ proposal'[r].ver = proposal[r].ver
                                   \/ proposal'[r].status = "cancelled"
                                   \/ Educational(proposal'[r].work)
        /\ \A x \in Proposals \X Lines : spent'[x] >= spent[x]
    BY <1>4, DecisionKeeps
  <2> QED BY <2>1 DEF DecidedStep, RowsOnward, RowOnward
<1>5. CASE \/ \E b \in Buyers : CommitHide(b)
           \/ \E r \in Proposals : Unhide(r) \/ SetAside(r, TRUE) \/ SetAside(r, FALSE)
           \/ HideFinished
  <2>1. /\ Reshown /\ buyer' \in [Buyers -> Deal \cup {Browsing}] /\ Sending' \subseteq Sending
        /\ \A c \in Buyers : buyer'[c] \in {buyer[c], Browsing}
    BY <1>5, AcquisitionShows
  <2>2. AcquisitionInv' /\ RowsOnward
    BY <2>1, ReshownKeeps
  <2>3. \A r \in Proposals : proposal'[r].ver = proposal[r].ver
    BY <2>1 DEF Reshown, Decision
  <2> QED BY <1>0, <2>1, <2>2, <2>3, StillDecided DEF Reshown
<1>6. ASSUME NEW b \in Buyers, DropDeal(b) PROVE AcquisitionInv' /\ DecidedStep
  <2>1. Done(b) /\ UNCHANGED <<proposal, receipt, timely, spent, adopted>>
    BY <1>6 DEF DropDeal
  <2>2. adopted' \subseteq Works
    BY <2>1, AcquisitionParts
  <2> QED BY <1>1, <2>1, <2>2, DealEnds, AdoptKeeps, AcquisitionParts
<1>7. ASSUME NEW l \in Lines, NEW w \in Works, NEW n \in 1..Sought, NEW early \in SUBSET Proposals,
             Post(l, w, n, early)
      PROVE  AcquisitionInv' /\ DecidedStep
  <2>1. AcquisitionInv' /\ RowsOnward /\ UNCHANGED spent /\ UNCHANGED proposal
    BY <1>7, PostKeeps DEF Post
  <2> QED BY <1>0, <2>1, StillDecided
<1>8. ASSUME NEW w \in Adoptable, Adopt(w) PROVE AcquisitionInv' /\ DecidedStep
  <2>1. /\ UNCHANGED <<proposal, receipt, timely, spent>> /\ buyer' = buyer
        /\ adopted' \subseteq Works
    BY <1>8, AcquisitionValues, AcquisitionParts DEF Adopt
  <2>2. /\ buyer' \in [Buyers -> Deal \cup {Browsing}] /\ Sending' \subseteq Sending
        /\ \A c \in Buyers : buyer'[c] \in {buyer[c], Browsing}
    BY <2>1, AcquisitionParts DEF Sending
  <2> QED BY <1>1, <2>1, <2>2, AdoptKeeps
<1>9. CASE UNCHANGED acquisitionVars
  <2>1. /\ UNCHANGED <<proposal, receipt, timely, spent>> /\ buyer' = buyer
        /\ adopted' \subseteq Works
    BY <1>9, AcquisitionParts DEF acquisitionVars
  <2>2. /\ buyer' \in [Buyers -> Deal \cup {Browsing}] /\ Sending' \subseteq Sending
        /\ \A c \in Buyers : buyer'[c] \in {buyer[c], Browsing}
    BY <2>1, AcquisitionParts DEF Sending
  <2> QED BY <1>1, <2>1, <2>2, AdoptKeeps
<1> QED BY <1>2, <1>3, <1>4, <1>5, <1>6, <1>7, <1>8, <1>9 DEF AcquisitionNext

LEMMA AcquisitionStart == AcquisitionInit => AcquisitionInv
<1> SUFFICES ASSUME AcquisitionInit PROVE AcquisitionInv
  OBVIOUS
<1>1. PICK work \in [Underway -> Works \cup {NoWork}] :
        proposal = [r \in Proposals |->
            IF r \in Underway THEN [Proposal("ordered", work[r], Sought, 3) EXCEPT !.ordered = Sought]
            ELSE Proposal("none", NoWork, 0, 0)]
  BY DEF AcquisitionInit
<1>2. Sought \in Nat \ {0} /\ (Underway # {} => 3 \in 0..MaxDeal) /\ 0 \in 0..MaxDeal
  BY AcquisitionBounds
<1>3. ASSUME NEW r \in Proposals
      PROVE  /\ proposal[r] \in ProposalType /\ RowSound(r, proposal[r]) /\ proposal[r].received = 0
             /\ ~proposal[r].hidden
             /\ r \notin Underway => proposal[r].status = "none"
  <2>1. CASE r \in Underway
    <3>1. proposal[r] = [Proposal("ordered", work[r], Sought, 3) EXCEPT !.ordered = Sought]
      BY <1>1, <2>1
    <3>2. proposal[r] = [status |-> "ordered", work |-> work[r], approved |-> Sought,
                         ordered |-> Sought, received |-> 0, hidden |-> FALSE, shelved |-> FALSE,
                         ver |-> 3]
      BY <3>1 DEF Proposal
    <3> QED BY <1>2, <2>1, <3>2 DEF ProposalType, Unsettled, Considered, RowSound, Ceiling
  <2>2. CASE r \notin Underway
    <3>1. proposal[r] = [status |-> "none", work |-> NoWork, approved |-> 0,
                         ordered |-> 0, received |-> 0, hidden |-> FALSE, shelved |-> FALSE,
                         ver |-> 0]
      BY <1>1, <2>2 DEF Proposal
    <3> QED BY <1>2, <2>2, <3>1 DEF ProposalType, Considered, RowSound, Ceiling
  <2> QED BY <2>1, <2>2
<1>4. /\ receipt = [l \in Lines |-> [posted |-> FALSE, work |-> NoWork, amount |-> 0]]
      /\ timely = [r \in Proposals |-> {}]
      /\ spent = [x \in Proposals \X Lines |-> 0]
      /\ adopted = {} /\ buyer = [b \in Buyers |-> Browsing]
  BY DEF AcquisitionInit
<1>5. AcquisitionTypeOK
  <2>1. proposal \in [Proposals -> ProposalType]
    BY <1>1, <1>3
  <2>2. receipt \in [Lines -> ReceiptType] /\ spent \in [Proposals \X Lines -> 0..Sought]
    BY <1>2, <1>4 DEF ReceiptType
  <2> QED BY <1>4, <2>1, <2>2 DEF AcquisitionTypeOK
<1>6. RowsSound /\ HiddenDone
  BY <1>3 DEF RowsSound, HiddenDone
<1>7. \A r \in Proposals, l \in Lines : spent[<<r, l>>] = 0
  BY <1>4
<1>8. Given
  BY <1>3, <1>5, <1>7, SpentFacts DEF Given, GivenFor
<1>9. LinesCovered /\ BlankLines
  <2>1. \A l \in Lines : receipt[l].amount = 0 /\ SpentOn(l) = 0
    BY <1>4, <1>5, <1>7, SpentFacts
  <2>2. ASSUME NEW r \in Proposals, NEW l \in Lines PROVE ~(spent[<<r, l>>] > 0)
    <3>1. spent[<<r, l>>] = 0
      BY <1>7
    <3> QED BY <3>1
  <2> QED BY <2>1, <2>2 DEF LinesCovered, BlankLines
<1>10. DealsFine
  BY <1>4 DEF DealsFine
<1>11. OneImport
  BY <1>3, AcquisitionValues DEF OneImport, Stands
<1>12. LimitFine
  <2>1. Sent(OwnCalls) = {} /\ Sending = {}
    BY <1>3, <1>4, CallsAre DEF Sent, Sending, OwnCalls, Unsettled, Considered
  <2>2. Cardinality(Buyers) \in Nat
    BY CallsAre, SentFinite
  <2> QED BY <2>1, <2>2, FS_EmptySet, AcquisitionBounds DEF LimitFine
<1> QED BY <1>5, <1>6, <1>8, <1>9, <1>10, <1>11, <1>12 DEF AcquisitionInv

LEMMA AcquisitionHolds == AcquisitionSpec => []AcquisitionInv
BY AcquisitionStart, AcquisitionStep, PTL DEF AcquisitionSpec

LEMMA AcquisitionInvSound == AcquisitionInv => AcquisitionSound
<1> SUFFICES ASSUME AcquisitionInv PROVE AcquisitionSound
  OBVIOUS
<1>1. ReceiptsAddUp
  <2> SUFFICES ASSUME NEW r \in Proposals
               PROVE  LET p == proposal[r] IN
                      /\ p.received <= p.ordered /\ p.ordered <= Ceiling(p)
                      /\ ShapeOf[r] # "literature" => p.received = SpentFor(r)
                      /\ ShapeOf[r] = "literature" =>
                           SpentFor(r) = 0 /\ (p.received > 0 <=> p.status = "received")
                      /\ p.status = "partially_received" => 0 < p.received /\ p.received < p.ordered
                      /\ p.received > 0 => p.status \in {"partially_received", "received"}
    BY DEF ReceiptsAddUp
  <2>1. RowSound(r, proposal[r]) /\ SpentFor(r) = GivenFor(r)
    BY AcquisitionParts DEF RowsSound, Given
  <2> QED BY <2>1 DEF RowSound, GivenFor
<1>2. NothingMissed
  <2>1. Cardinality({r \in Workbook : Stands(r)}) <= 1
    <3>1. PICK S : S = {r \in Workbook : Stands(r)}
      OBVIOUS
    <3>2. CASE S = {}
      BY <3>1, <3>2, FS_EmptySet
    <3>3. CASE S # {}
      <4>1. PICK r : r \in S
        BY <3>3
      <4>2. S = {r}
        BY <3>1, <4>1, AcquisitionParts DEF OneImport
      <4>3. Cardinality({r}) = 1
        BY FS_Singleton
      <4>4. Cardinality(S) = 1
        BY <4>2, <4>3
      <4> QED BY <3>1, <4>4
    <3> QED BY <3>2, <3>3
  <2>2. Cardinality(Sent(Own \ (Underway \cup Workbook))) < ProposalLimit + Cardinality(Buyers)
    <3>1. /\ Cardinality(Sent(OwnCalls)) \in Nat /\ Cardinality(Sending) \in Nat
          /\ Cardinality(Buyers) \in Nat
      BY CallsAre, SentFinite
    <3> QED BY <3>1, AcquisitionBounds, AcquisitionParts DEF LimitFine, OwnCalls
  <2> QED BY <2>1, <2>2, AcquisitionParts DEF NothingMissed, HiddenDone
<1> QED BY <1>1, <1>2, AcquisitionParts DEF AcquisitionSound

(* Proposals, lines of receipts and what handlers carry have their shape.   *)
THEOREM AcquisitionTyped == AcquisitionSpec => []AcquisitionTypeOK
<1>1. AcquisitionInv => AcquisitionTypeOK
  BY DEF AcquisitionInv
<1> QED BY <1>1, AcquisitionHolds, PTL

(* No line of a receipt is given twice, what a proposal received is what    *)
(* its lines brought and stays within the order, nothing that waits is out  *)
(* of sight, a workbook is imported once and the limit of a teacher is      *)
(* passed by overlapping calls only (acquisition-store.ts).                 *)
THEOREM AcquisitionSafe == AcquisitionSpec => []AcquisitionSound
BY AcquisitionHolds, AcquisitionInvSound, PTL

(* What was decided stays, and no receipt is taken back.                    *)
THEOREM DecidedStays == AcquisitionSpec => [][DecidedStep]_acquisitionVars
BY AcquisitionHolds, AcquisitionStep, PTL DEF AcquisitionSpec

=============================================================================
