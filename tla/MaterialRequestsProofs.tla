------------------------ MODULE MaterialRequestsProofs ------------------------
(***************************************************************************)
(* Proofs that the safety properties of MaterialRequests hold for any      *)
(* number of orders, titles, places, loans and handlers.                   *)
(***************************************************************************)
EXTENDS MaterialRequests, SumTheorems

Statuses == {"none"} \cup Waiting \cup Prepared \cup Final
Quantities == [Slots -> Nat]
Reservations == [Slots -> ReservationType]

-----------------------------------------------------------------------------
(* Sums over the places of a title and over all slots *)

InTitle(n, m) == Sum([p \in Locations |-> n[<<m, p>>]], Locations)
InAll(n) == Sum(n, Slots)

LEMMA SlotsFinite == IsFiniteSet(Slots)
BY FiniteAssumption, FS_Product DEF Slots

LEMMA TitleAt == ASSUME NEW n, NEW m \in Materials PROVE OfTitle(n)[m] = InTitle(n, m)
<1>1. DOMAIN [p \in Locations |-> n[<<m, p>>]] = Locations
  OBVIOUS
<1>2. QED
  BY <1>1 DEF OfTitle, InTitle, SumFunction, Sum

LEMMA TitleDomain == ASSUME NEW n PROVE OfTitle(n) = [m \in Materials |-> OfTitle(n)[m]]
BY DEF OfTitle

LEMMA TotalIs == ASSUME NEW n, DOMAIN n = Slots PROVE TotalOf(n) = InAll(n)
BY DEF TotalOf, InAll, SumFunction, Sum

LEMMA TotalOfTitles == ASSUME NEW n, DOMAIN n = Materials PROVE TotalOf(n) = Sum(n, Materials)
BY DEF TotalOf, SumFunction, Sum

(* What a title has at its places. *)
LEMMA TitleBounds ==
    ASSUME NEW n, \A s \in Slots : n[s] \in Nat, NEW m \in Materials
    PROVE  /\ InTitle(n, m) \in Nat
           /\ \A p \in Locations : n[<<m, p>>] <= InTitle(n, m)
           /\ InTitle(n, m) = 0 <=> \A p \in Locations : n[<<m, p>>] = 0
<1> DEFINE f == [p \in Locations |-> n[<<m, p>>]]
<1>1. \A p \in Locations : f[p] \in Nat /\ f[p] = n[<<m, p>>]
  BY DEF Slots
<1> HIDE DEF f
<1>2. /\ Sum(f, Locations) \in Nat
      /\ \A p \in Locations : f[p] <= Sum(f, Locations)
      /\ Sum(f, Locations) = 0 <=> \A p \in Locations : f[p] = 0
  BY <1>1, SumBounds, FiniteAssumption
<1>3. InTitle(n, m) = Sum(f, Locations)
  BY DEF InTitle, f
<1>4. QED
  BY <1>1, <1>2, <1>3

LEMMA TitlePlus ==
    ASSUME NEW a, NEW b, NEW c, NEW m \in Materials,
           \A s \in Slots : a[s] \in Int /\ b[s] \in Int /\ c[s] = a[s] + b[s]
    PROVE  /\ InTitle(a, m) \in Int /\ InTitle(b, m) \in Int
           /\ InTitle(c, m) = InTitle(a, m) + InTitle(b, m)
<1> DEFINE fa == [p \in Locations |-> a[<<m, p>>]]
           fb == [p \in Locations |-> b[<<m, p>>]]
           fc == [p \in Locations |-> c[<<m, p>>]]
<1>1. \A p \in Locations : fa[p] \in Int /\ fb[p] \in Int /\ fc[p] = fa[p] + fb[p]
  BY DEF Slots
<1> HIDE DEF fa, fb, fc
<1>2. Sum(fc, Locations) = Sum(fa, Locations) + Sum(fb, Locations)
  BY <1>1, SumPlus, FiniteAssumption
<1>3. Sum(fa, Locations) \in Int /\ Sum(fb, Locations) \in Int
  BY <1>1, SumIsInt, FiniteAssumption
<1>4. QED
  BY <1>2, <1>3 DEF InTitle, fa, fb, fc

LEMMA TitleMinus ==
    ASSUME NEW a, NEW b, NEW c, NEW m \in Materials,
           \A s \in Slots : a[s] \in Int /\ b[s] \in Int /\ c[s] = a[s] - b[s]
    PROVE  InTitle(c, m) = InTitle(a, m) - InTitle(b, m)
<1>1. \A s \in Slots : c[s] \in Int /\ b[s] \in Int /\ a[s] = c[s] + b[s]
  OBVIOUS
<1>2. InTitle(a, m) = InTitle(c, m) + InTitle(b, m) /\ InTitle(c, m) \in Int /\ InTitle(b, m) \in Int
  BY <1>1, TitlePlus
<1>3. QED
  BY <1>2

LEMMA TitleSame ==
    ASSUME NEW a, NEW b, NEW m \in Materials, \A s \in Slots : a[s] = b[s]
    PROVE  InTitle(a, m) = InTitle(b, m)
<1>1. [p \in Locations |-> a[<<m, p>>]] = [p \in Locations |-> b[<<m, p>>]]
  BY DEF Slots
<1>2. QED
  BY <1>1 DEF InTitle

(* Nothing in any title is nothing at all. *)
LEMMA AllBounds ==
    ASSUME NEW n, \A s \in Slots : n[s] \in Nat
    PROVE  /\ InAll(n) \in Nat
           /\ InAll(n) = 0 <=> \A s \in Slots : n[s] = 0
           /\ InAll(n) = 0 <=> \A m \in Materials : InTitle(n, m) = 0
<1>1. /\ InAll(n) \in Nat
      /\ InAll(n) = 0 <=> \A s \in Slots : n[s] = 0
  BY SumBounds, SlotsFinite DEF InAll
<1>2. (\A s \in Slots : n[s] = 0) <=> \A m \in Materials : \A p \in Locations : n[<<m, p>>] = 0
  BY DEF Slots
<1>3. \A m \in Materials : InTitle(n, m) = 0 <=> \A p \in Locations : n[<<m, p>>] = 0
  BY TitleBounds
<1>4. QED
  BY <1>1, <1>2, <1>3

-----------------------------------------------------------------------------
(* One order q, named o, and its reservations r *)

Rem(r, s) == r[s].reserved - r[s].issued - r[s].released
RemOf(r) == [s \in Slots |-> Rem(r, s)]
KeptOf(r) == [s \in Slots |-> r[s].reserved - r[s].released]
IssuedOf(r) == [s \in Slots |-> r[s].issued]
Active(r) == InAll(RemOf(r))
Handed(q) == \E m \in Materials : q.fulfilled[m] > 0
Whole(o, approved) == \A m \in Materials : approved[m] = Asked[o][m]

(* The items of the order are the sums of its reservations. *)
Books(o, q, r) ==
    /\ \A s \in Slots : Rem(r, s) >= 0
    /\ \A m \in Materials : /\ q.approved[m] = InTitle(KeptOf(r), m)
                             /\ q.fulfilled[m] = InTitle(IssuedOf(r), m)
                             /\ q.approved[m] <= Asked[o][m]
(* Its status tells what they hold. *)
Told(o, q, r) ==
    /\ q.status \in Prepared <=> Active(r) > 0
    /\ q.status \in Prepared => (q.status = "ready" <=> Whole(o, q.approved))
    /\ q.status = "completed" => Handed(q)
    /\ q.status \in {"cancelled", "rejected"} => ~Handed(q)
    /\ q.loan # NoLoan <=> Handed(q)
    /\ q.status \in {"none"} \cup Waiting => \A m \in Materials : q.approved[m] = 0
    /\ q.status = "none" => q.ver = 0
Sound(o, q, r) == Books(o, q, r) /\ Told(o, q, r)

LEMMA RsvFields ==
    ASSUME NEW r \in Reservations, NEW s \in Slots
    PROVE  /\ r[s] \in ReservationType
           /\ r[s].reserved \in Nat /\ r[s].issued \in Nat /\ r[s].released \in Nat
           /\ Rem(r, s) \in Int
           /\ RemOf(r)[s] = Rem(r, s)
           /\ KeptOf(r)[s] = r[s].reserved - r[s].released
           /\ IssuedOf(r)[s] = r[s].issued
           /\ KeptOf(r)[s] = IssuedOf(r)[s] + Rem(r, s)
<1>1. r[s] \in ReservationType
  BY DEF Reservations
<1>2. r[s].reserved \in Nat /\ r[s].issued \in Nat /\ r[s].released \in Nat
  BY <1>1 DEF ReservationType
<1>3. QED
  BY <1>1, <1>2 DEF Rem, RemOf, KeptOf, IssuedOf

LEMMA OrderFields ==
    ASSUME NEW q \in OrderType
    PROVE  /\ q.status \in Statuses /\ q.ver \in Nat
           /\ q.approved \in [Materials -> Nat] /\ q.fulfilled \in [Materials -> Nat]
           /\ q.loan \in Loans \cup {NoLoan} /\ q.pickup \in Locations \cup {NoPlace}
BY DEF OrderType, Statuses

LEMMA AskedIsNat == ASSUME NEW o \in Orders, NEW m \in Materials PROVE Asked[o][m] \in Nat
BY AskedAssumption

(* What is still reserved is what was approved and not handed over. *)
LEMMA BooksFacts ==
    ASSUME NEW o \in Orders, NEW q \in OrderType, NEW r \in Reservations, Books(o, q, r)
    PROVE  /\ \A s \in Slots : Rem(r, s) \in Nat /\ RemOf(r)[s] = Rem(r, s)
           /\ \A m \in Materials : /\ InTitle(RemOf(r), m) \in Nat
                                   /\ q.approved[m] = q.fulfilled[m] + InTitle(RemOf(r), m)
           /\ Active(r) \in Nat
           /\ Active(r) = 0 <=> \A s \in Slots : Rem(r, s) = 0
           /\ Active(r) = 0 <=> \A m \in Materials : q.approved[m] = q.fulfilled[m]
<1>1. \A s \in Slots : Rem(r, s) \in Nat /\ RemOf(r)[s] = Rem(r, s) /\ IssuedOf(r)[s] \in Nat
                        /\ KeptOf(r)[s] = IssuedOf(r)[s] + RemOf(r)[s]
  BY RsvFields DEF Books
<1>2. ASSUME NEW m \in Materials
      PROVE  InTitle(RemOf(r), m) \in Nat /\ q.approved[m] = q.fulfilled[m] + InTitle(RemOf(r), m)
  <2>1. InTitle(RemOf(r), m) \in Nat
    BY <1>1, TitleBounds
  <2>2. InTitle(KeptOf(r), m) = InTitle(IssuedOf(r), m) + InTitle(RemOf(r), m)
    BY <1>1, TitlePlus
  <2>3. QED
    BY <2>1, <2>2 DEF Books
<1>3. /\ Active(r) \in Nat
      /\ Active(r) = 0 <=> \A s \in Slots : RemOf(r)[s] = 0
      /\ Active(r) = 0 <=> \A m \in Materials : InTitle(RemOf(r), m) = 0
  BY <1>1, AllBounds DEF Active
<1>4. \A m \in Materials : q.fulfilled[m] \in Nat
  BY OrderFields
<1>5. \A m \in Materials : InTitle(RemOf(r), m) = 0 <=> q.approved[m] = q.fulfilled[m]
  BY <1>2, <1>4
<1>6. QED
  BY <1>1, <1>2, <1>3, <1>5

(* Preparing: reservations are added and the approved quantities raised. *)
LEMMA ReadySound ==
    ASSUME NEW o \in Orders, NEW q \in OrderType, NEW r \in Reservations, Sound(o, q, r),
           NEW n \in Quantities, NEW q2 \in OrderType, NEW r2 \in Reservations,
           \A s \in Slots : /\ r2[s].reserved = r[s].reserved + n[s]
                             /\ r2[s].issued = r[s].issued /\ r2[s].released = r[s].released,
           \A m \in Materials : /\ q2.approved[m] = q.approved[m] + InTitle(n, m)
                                 /\ q2.approved[m] <= Asked[o][m],
           \E m \in Materials : q2.approved[m] > 0,
           q.status \in Waiting \cup Prepared,
           q2.status = (IF Whole(o, q2.approved) THEN "ready" ELSE "partially_ready"),
           q2.fulfilled = q.fulfilled, q2.loan = q.loan
    PROVE  Sound(o, q2, r2)
<1>1. \A s \in Slots : /\ n[s] \in Nat /\ Rem(r, s) \in Nat /\ Rem(r2, s) = Rem(r, s) + n[s]
                       /\ KeptOf(r)[s] \in Int /\ KeptOf(r2)[s] = KeptOf(r)[s] + n[s]
                       /\ IssuedOf(r2)[s] = IssuedOf(r)[s]
  BY RsvFields DEF Rem, Quantities, Sound, Books
<1>2. ASSUME NEW m \in Materials
      PROVE  /\ q2.approved[m] = InTitle(KeptOf(r2), m)
             /\ q2.fulfilled[m] = InTitle(IssuedOf(r2), m)
  <2>1. InTitle(KeptOf(r2), m) = InTitle(KeptOf(r), m) + InTitle(n, m)
    BY <1>1, TitlePlus
  <2>2. InTitle(IssuedOf(r2), m) = InTitle(IssuedOf(r), m)
    BY <1>1, TitleSame
  <2>3. QED
    BY <2>1, <2>2 DEF Sound, Books
<1>3. Books(o, q2, r2)
  BY <1>1, <1>2 DEF Books
<1>4. Active(r2) > 0
  <2>1. /\ Active(r) \in Nat /\ Active(r2) \in Nat
        /\ Active(r) = 0 <=> \A s \in Slots : Rem(r, s) = 0
        /\ Active(r2) = 0 <=> \A s \in Slots : Rem(r2, s) = 0
        /\ Active(r2) = 0 <=> \A m \in Materials : q2.approved[m] = q2.fulfilled[m]
    BY <1>3, BooksFacts DEF Sound
  <2>2. CASE q.status \in Prepared
    BY <1>1, <2>1, <2>2 DEF Sound, Told
  <2>3. CASE q.status \in Waiting
    <3>1. \A m \in Materials : q.fulfilled[m] = 0
      <4>1. \A m \in Materials : /\ InTitle(RemOf(r), m) \in Nat /\ q.fulfilled[m] \in Nat
                                 /\ q.approved[m] = q.fulfilled[m] + InTitle(RemOf(r), m)
        BY BooksFacts, OrderFields DEF Sound
      <4>2. \A m \in Materials : q.approved[m] = 0
        BY <2>3 DEF Sound, Told
      <4>3. QED
        BY <4>1, <4>2
    <3>2. QED
      BY <2>1, <3>1
  <2>4. QED
    BY <2>2, <2>3
<1>5. q2.status \in Prepared /\ (q2.status = "ready" <=> Whole(o, q2.approved))
      /\ q2.status \notin {"none", "completed", "cancelled", "rejected"} \cup Waiting
  BY DEF Prepared, Waiting
<1>6. q2.loan # NoLoan <=> Handed(q2)
  BY DEF Sound, Told, Handed
<1>7. QED
  BY <1>3, <1>4, <1>5, <1>6 DEF Sound, Told

(* A portion n of what is still reserved. *)
LEMMA PortionFacts ==
    ASSUME NEW o \in Orders, NEW q \in OrderType, NEW r \in Reservations, Books(o, q, r),
           NEW n \in Quantities, \A s \in Slots : n[s] <= Rem(r, s)
    PROVE  /\ \A m \in Materials : /\ InTitle(n, m) \in Nat
                                   /\ InTitle(n, m) <= InTitle(RemOf(r), m)
                                   /\ q.fulfilled[m] + InTitle(n, m) <= q.approved[m]
           /\ InAll(n) \in Nat
           /\ InAll(n) = Active(r) <=> \A s \in Slots : n[s] = Rem(r, s)
<1>1. \A s \in Slots : n[s] \in Nat /\ Rem(r, s) \in Nat /\ RemOf(r)[s] = Rem(r, s)
  BY BooksFacts DEF Quantities
<1>2. ASSUME NEW m \in Materials
      PROVE  InTitle(n, m) \in Nat /\ InTitle(n, m) <= InTitle(RemOf(r), m)
  <2> DEFINE f == [p \in Locations |-> n[<<m, p>>]]
             g == [p \in Locations |-> RemOf(r)[<<m, p>>]]
  <2>1. \A p \in Locations : f[p] \in Int /\ g[p] \in Int /\ f[p] <= g[p]
    BY <1>1 DEF Slots
  <2> HIDE DEF f, g
  <2>2. Sum(f, Locations) <= Sum(g, Locations)
    BY <2>1, SumLeq, FiniteAssumption
  <2>3. InTitle(n, m) = Sum(f, Locations) /\ InTitle(RemOf(r), m) = Sum(g, Locations)
    BY DEF InTitle, f, g
  <2>4. QED
    BY <1>1, <2>2, <2>3, TitleBounds
<1>3. \A m \in Materials : q.fulfilled[m] + InTitle(n, m) <= q.approved[m]
  BY <1>2, BooksFacts, OrderFields
<1>4. InAll(n) \in Nat
  BY <1>1, AllBounds
<1>5. InAll(n) = Active(r) <=> \A s \in Slots : n[s] = RemOf(r)[s]
  BY <1>1, SlotsFinite, SumLeq DEF Active, InAll
<1>6. QED
  BY <1>1, <1>2, <1>3, <1>4, <1>5

(* Handing over: what is issued is added to what the order received. *)
LEMMA IssueSound ==
    ASSUME NEW o \in Orders, NEW q \in OrderType, NEW r \in Reservations, Sound(o, q, r),
           NEW n \in Quantities, NEW q2 \in OrderType, NEW r2 \in Reservations,
           \A s \in Slots : n[s] <= Rem(r, s), \E s \in Slots : n[s] > 0,
           \A s \in Slots : /\ r2[s].issued = r[s].issued + n[s]
                             /\ r2[s].reserved = r[s].reserved /\ r2[s].released = r[s].released,
           \A m \in Materials : q2.fulfilled[m] = q.fulfilled[m] + InTitle(n, m),
           q.status \in Prepared, q2.approved = q.approved, q2.loan # NoLoan,
           q2.status = (IF InAll(n) = Active(r) THEN "completed"
                        ELSE IF Whole(o, q.approved) THEN "ready" ELSE "partially_ready")
    PROVE  Sound(o, q2, r2)
<1>1. \A s \in Slots : /\ n[s] \in Nat /\ Rem(r, s) \in Nat /\ Rem(r2, s) = Rem(r, s) - n[s]
                       /\ IssuedOf(r)[s] \in Int /\ IssuedOf(r2)[s] = IssuedOf(r)[s] + n[s]
                       /\ KeptOf(r2)[s] = KeptOf(r)[s]
  BY RsvFields DEF Rem, Quantities, Sound, Books
<1>2. ASSUME NEW m \in Materials
      PROVE  /\ q2.approved[m] = InTitle(KeptOf(r2), m)
             /\ q2.fulfilled[m] = InTitle(IssuedOf(r2), m)
  <2>1. InTitle(IssuedOf(r2), m) = InTitle(IssuedOf(r), m) + InTitle(n, m)
    BY <1>1, TitlePlus
  <2>2. InTitle(KeptOf(r2), m) = InTitle(KeptOf(r), m)
    BY <1>1, TitleSame
  <2>3. QED
    BY <2>1, <2>2 DEF Sound, Books
<1>3. Books(o, q2, r2)
  BY <1>1, <1>2 DEF Sound, Books
<1>4. Handed(q2)
  <2>1. \A m \in Materials : InTitle(n, m) \in Nat /\ q.fulfilled[m] \in Nat
    BY PortionFacts, OrderFields DEF Sound
  <2>2. \E m \in Materials : InTitle(n, m) # 0
    BY <1>1, AllBounds
  <2>3. QED
    BY <2>1, <2>2 DEF Handed
<1>5. /\ Active(r2) \in Nat
      /\ Active(r2) = 0 <=> \A s \in Slots : Rem(r2, s) = 0
  BY <1>3, BooksFacts
<1>6. InAll(n) = Active(r) <=> Active(r2) = 0
  <2>1. InAll(n) = Active(r) <=> \A s \in Slots : n[s] = Rem(r, s)
    BY PortionFacts DEF Sound
  <2>2. (\A s \in Slots : n[s] = Rem(r, s)) <=> \A s \in Slots : Rem(r2, s) = 0
    BY <1>1
  <2>3. QED
    BY <1>5, <2>1, <2>2
<1>7. CASE InAll(n) = Active(r)
  BY <1>3, <1>4, <1>6, <1>7 DEF Sound, Told, Prepared, Waiting
<1>8. CASE InAll(n) # Active(r)
  <2>1. q2.status \in Prepared /\ (q2.status = "ready" <=> Whole(o, q2.approved))
        /\ q2.status \notin {"none", "completed", "cancelled", "rejected"} \cup Waiting
    BY <1>8 DEF Prepared, Waiting
  <2>2. Active(r2) > 0
    BY <1>5, <1>6, <1>8
  <2>3. QED
    BY <1>3, <1>4, <2>1, <2>2 DEF Sound, Told
<1>9. QED
  BY <1>7, <1>8

(* Releasing: reserved copies are given up and the approved quantities     *)
(* lowered.                                                                *)
LEMMA ReleaseSound ==
    ASSUME NEW o \in Orders, NEW q \in OrderType, NEW r \in Reservations, Sound(o, q, r),
           NEW n \in Quantities, NEW q2 \in OrderType, NEW r2 \in Reservations,
           \A s \in Slots : n[s] <= Rem(r, s),
           \A s \in Slots : /\ r2[s].released = r[s].released + n[s]
                             /\ r2[s].reserved = r[s].reserved /\ r2[s].issued = r[s].issued,
           \A m \in Materials : q2.approved[m] = q.approved[m] - InTitle(n, m),
           q.status \in Prepared, q2.fulfilled = q.fulfilled, q2.loan = q.loan,
           q2.status = (IF InAll(n) # Active(r)
                        THEN IF Whole(o, q2.approved) THEN "ready" ELSE "partially_ready"
                        ELSE IF Handed(q) THEN "completed" ELSE "cancelled")
    PROVE  Sound(o, q2, r2)
<1>1. \A s \in Slots : /\ n[s] \in Nat /\ Rem(r, s) \in Nat /\ Rem(r2, s) = Rem(r, s) - n[s]
                       /\ KeptOf(r)[s] \in Int /\ KeptOf(r2)[s] = KeptOf(r)[s] - n[s]
                       /\ IssuedOf(r2)[s] = IssuedOf(r)[s]
  BY RsvFields DEF Rem, Quantities, Sound, Books
<1>2. ASSUME NEW m \in Materials
      PROVE  /\ q2.approved[m] = InTitle(KeptOf(r2), m)
             /\ q2.fulfilled[m] = InTitle(IssuedOf(r2), m)
             /\ q2.approved[m] <= Asked[o][m]
  <2>1. InTitle(KeptOf(r2), m) = InTitle(KeptOf(r), m) - InTitle(n, m)
    BY <1>1, TitleMinus
  <2>2. InTitle(IssuedOf(r2), m) = InTitle(IssuedOf(r), m)
    BY <1>1, TitleSame
  <2>3. InTitle(n, m) \in Nat /\ q.approved[m] \in Nat /\ Asked[o][m] \in Nat
    BY PortionFacts, OrderFields, AskedIsNat DEF Sound
  <2>4. QED
    BY <2>1, <2>2, <2>3 DEF Sound, Books
<1>3. Books(o, q2, r2)
  BY <1>1, <1>2 DEF Sound, Books
<1>4. Handed(q2) <=> Handed(q)
  BY DEF Handed
<1>5. /\ Active(r2) \in Nat
      /\ Active(r2) = 0 <=> \A s \in Slots : Rem(r2, s) = 0
  BY <1>3, BooksFacts
<1>6. InAll(n) = Active(r) <=> Active(r2) = 0
  <2>1. InAll(n) = Active(r) <=> \A s \in Slots : n[s] = Rem(r, s)
    BY PortionFacts DEF Sound
  <2>2. (\A s \in Slots : n[s] = Rem(r, s)) <=> \A s \in Slots : Rem(r2, s) = 0
    BY <1>1
  <2>3. QED
    BY <1>5, <2>1, <2>2
<1>7. CASE InAll(n) = Active(r)
  BY <1>3, <1>4, <1>6, <1>7 DEF Sound, Told, Prepared, Waiting
<1>8. CASE InAll(n) # Active(r)
  <2>1. q2.status \in Prepared /\ (q2.status = "ready" <=> Whole(o, q2.approved))
        /\ q2.status \notin {"none", "completed", "cancelled", "rejected"} \cup Waiting
    BY <1>8 DEF Prepared, Waiting
  <2>2. Active(r2) > 0
    BY <1>5, <1>6, <1>8
  <2>3. QED
    BY <1>3, <1>4, <2>1, <2>2 DEF Sound, Told
<1>9. QED
  BY <1>7, <1>8

(* Placing, reviewing, rejecting and cancelling: nothing is reserved. *)
LEMMA StatusSound ==
    ASSUME NEW o \in Orders, NEW q \in OrderType, NEW r \in Reservations, Sound(o, q, r),
           NEW q2 \in OrderType,
           q.status \in {"none"} \cup Waiting, q2.status \in Waiting \cup {"rejected", "cancelled"},
           q2.approved = q.approved, q2.fulfilled = q.fulfilled, q2.loan = q.loan
    PROVE  Sound(o, q2, r)
<1>1. Books(o, q2, r)
  BY DEF Sound, Books
<1>2. \A m \in Materials : q.approved[m] = 0
  BY DEF Sound, Told
<1>3. ~Handed(q) /\ ~Handed(q2)
  <2>1. \A m \in Materials : /\ InTitle(RemOf(r), m) \in Nat /\ q.fulfilled[m] \in Nat
                             /\ q.approved[m] = q.fulfilled[m] + InTitle(RemOf(r), m)
    BY BooksFacts, OrderFields DEF Sound
  <2>2. \A m \in Materials : q.fulfilled[m] = 0
    BY <1>2, <2>1
  <2>3. QED
    BY <2>2 DEF Handed
<1>4. q.status \notin Prepared /\ q2.status \notin Prepared \cup {"completed", "none"}
  BY DEF Waiting, Prepared
<1>5. q2.loan # NoLoan <=> Handed(q2)
  BY DEF Sound, Told, Handed
<1>6. QED
  BY <1>1, <1>2, <1>3, <1>4, <1>5 DEF Sound, Told

-----------------------------------------------------------------------------
(* The inductive invariant *)

(* What a plan says whatever happened since it was made. *)
PlanFine(p) ==
    /\ p.op = "cancel" => p.status = "cancelled"
    /\ p.op = "start_review" => p.status = "in_review"
    /\ p.op = "reject" => p.status = "rejected"
    /\ p.op = "ready" =>
         /\ \A m \in Materials : p.approved[m] <= Asked[p.order][m]
         /\ \E m \in Materials : p.approved[m] > 0
         /\ p.status = (IF Whole(p.order, p.approved) THEN "ready" ELSE "partially_ready")
    /\ p.op = "issue" => \A s \in Slots : p.take[s] <= p.seen[s].qty
    /\ p.op \in {"issue", "release"} => \E s \in Slots : p.take[s] > 0

(* What it says of its order q with the reservations r it was made from. *)
ReadyTrue(p, q) == \A m \in Materials : p.approved[m] = q.approved[m] + InTitle(p.take, m)
IssueTrue(p, q, r) ==
    /\ \A s \in Slots : p.take[s] <= Rem(r, s)
    /\ p.loan = q.loan
    /\ p.status = (IF InAll(p.take) = Active(r) THEN "completed"
                   ELSE IF Whole(p.order, q.approved) THEN "ready" ELSE "partially_ready")
Lowered(q, n) == [m \in Materials |-> q.approved[m] - InTitle(n, m)]
ReleaseTrue(p, q, r) ==
    /\ \A s \in Slots : p.take[s] <= Rem(r, s)
    /\ p.status = (IF InAll(p.take) # Active(r)
                   THEN IF Whole(p.order, Lowered(q, p.take)) THEN "ready" ELSE "partially_ready"
                   ELSE IF Handed(q) THEN "completed" ELSE "cancelled")
PlanTrue(p, q, r) ==
    /\ p.op = "ready" => ReadyTrue(p, q)
    /\ p.op = "issue" => IssueTrue(p, q, r)
    /\ p.op = "release" => ReleaseTrue(p, q, r)

(* A plan is never newer than its order, and true while it is as new. *)
PlanKnown(p) ==
    /\ PlanFine(p)
    /\ p.ver <= order[p.order].ver
    /\ p.ver = order[p.order].ver => PlanTrue(p, order[p.order], rsv[p.order])
PlansKnown == \A w \in Workers : handler[w] # Idle => PlanKnown(handler[w])
OrdersSound == \A o \in Orders : Sound(o, order[o], rsv[o])
UnusedLoansBlank ==
    \A l \in Loans : loan[l].status = "none" =>
        /\ \A m \in Materials : loan[l].issued[m] = 0
        /\ \A o \in Orders : order[o].loan # l

IInv ==
    /\ TypeOK /\ OrdersSound /\ PlansKnown /\ UnusedLoansBlank
    /\ LoanCarriesOrder /\ PromiseOnShelf /\ LimitKept /\ EachCommandOnce

-----------------------------------------------------------------------------
(* What each batch does *)

LEMMA PlanFields ==
    ASSUME NEW p \in Plan
    PROVE  /\ p.req \in Requests /\ p.order \in Orders /\ p.ver \in Nat
           /\ p.rows \in [Slots -> ReservationType] /\ p.take \in Quantities
           /\ p.seen \in [Slots -> [qty : Nat, ver : Nat]] /\ p.expect \in Quantities
           /\ p.status \in Statuses /\ p.approved \in [Materials -> Nat]
           /\ p.loan \in Loans \cup {NoLoan} /\ p.loanVer \in Nat
           /\ p.pickup \in Locations \cup {NoPlace}
           /\ p.op \in {"create", "cancel", "start_review", "reject", "ready", "issue", "release"}
BY DEF Plan, Statuses, Quantities

(* The row of an order as each batch writes it. *)
MovedTo(q, st) == [q EXCEPT !.status = st, !.ver = @ + 1]
RaisedTo(q, st, a, k) == [q EXCEPT !.status = st, !.ver = @ + 1, !.approved = a, !.pickup = k]
IssuedTo(q, st, l, f) == [q EXCEPT !.status = st, !.ver = @ + 1, !.loan = l, !.fulfilled = f]
LoweredTo(q, st, a) == [q EXCEPT !.status = st, !.ver = @ + 1, !.approved = a]

(* Changing one field keeps a row a row. *)
LEMMA SetField ==
    ASSUME NEW q \in OrderType
    PROVE  /\ \A x \in Statuses : [q EXCEPT !.status = x] \in OrderType
           /\ \A x \in Nat : [q EXCEPT !.ver = x] \in OrderType
           /\ \A x \in [Materials -> Nat] : [q EXCEPT !.approved = x] \in OrderType
           /\ \A x \in [Materials -> Nat] : [q EXCEPT !.fulfilled = x] \in OrderType
           /\ \A x \in Loans \cup {NoLoan} : [q EXCEPT !.loan = x] \in OrderType
           /\ \A x \in Locations \cup {NoPlace} : [q EXCEPT !.pickup = x] \in OrderType
BY DEF OrderType, Statuses

LEMMA TransitionRow ==
    ASSUME NEW q \in OrderType, NEW st \in Statuses
    PROVE  LET x == MovedTo(q, st)
           IN  /\ x \in OrderType /\ x.status = st /\ x.ver = q.ver + 1
               /\ x.approved = q.approved /\ x.fulfilled = q.fulfilled
               /\ x.loan = q.loan /\ x.pickup = q.pickup
<1> DEFINE x == MovedTo(q, st)
           x1 == [q EXCEPT !.status = st]
           x2 == [x1 EXCEPT !.ver = q.ver + 1]
<1>1. x1 \in OrderType
  BY SetField
<1>2. q.ver + 1 \in Nat
  BY OrderFields
<1>3. x2 \in OrderType
  <2> HIDE DEF x1
  <2>1. QED
    BY <1>1, <1>2, SetField
<1>4. x = x2
  BY DEF OrderType, MovedTo
<1>5. /\ x.status = st /\ x.ver = q.ver + 1
      /\ x.approved = q.approved /\ x.fulfilled = q.fulfilled
      /\ x.loan = q.loan /\ x.pickup = q.pickup
  BY DEF OrderType, MovedTo
<1> HIDE DEF x2
<1>6. QED
  BY <1>3, <1>4, <1>5

LEMMA ReadyRow ==
    ASSUME NEW q \in OrderType, NEW st \in Statuses, NEW a \in [Materials -> Nat],
           NEW k \in Locations \cup {NoPlace}
    PROVE  LET x == RaisedTo(q, st, a, k)
           IN  /\ x \in OrderType /\ x.status = st /\ x.ver = q.ver + 1
               /\ x.approved = a /\ x.fulfilled = q.fulfilled /\ x.loan = q.loan
<1> DEFINE x == RaisedTo(q, st, a, k)
           x1 == MovedTo(q, st)
           x2 == [x1 EXCEPT !.approved = a]
           x3 == [x2 EXCEPT !.pickup = k]
<1>1. x1 \in OrderType
  BY TransitionRow
<1>2. x2 \in OrderType
  <2> HIDE DEF x1
  <2>1. QED
    BY <1>1, SetField
<1>3. x3 \in OrderType
  <2> HIDE DEF x2
  <2>1. QED
    BY <1>2, SetField
<1>4. x = x3
  BY DEF OrderType, RaisedTo, MovedTo
<1>5. /\ x.status = st /\ x.ver = q.ver + 1
      /\ x.approved = a /\ x.fulfilled = q.fulfilled /\ x.loan = q.loan
  BY DEF OrderType, RaisedTo, MovedTo
<1> HIDE DEF x3
<1>6. QED
  BY <1>3, <1>4, <1>5

LEMMA IssueRow ==
    ASSUME NEW q \in OrderType, NEW st \in Statuses, NEW l \in Loans, NEW f \in [Materials -> Nat]
    PROVE  LET x == IssuedTo(q, st, l, f)
           IN  /\ x \in OrderType /\ x.status = st /\ x.ver = q.ver + 1
               /\ x.approved = q.approved /\ x.fulfilled = f /\ x.loan = l
<1> DEFINE x == IssuedTo(q, st, l, f)
           x1 == MovedTo(q, st)
           x2 == [x1 EXCEPT !.loan = l]
           x3 == [x2 EXCEPT !.fulfilled = f]
<1>1. x1 \in OrderType
  BY TransitionRow
<1>2. x2 \in OrderType
  <2> HIDE DEF x1
  <2>1. QED
    BY <1>1, SetField
<1>3. x3 \in OrderType
  <2> HIDE DEF x2
  <2>1. QED
    BY <1>2, SetField
<1>4. x = x3
  BY DEF OrderType, IssuedTo, MovedTo
<1>5. /\ x.status = st /\ x.ver = q.ver + 1
      /\ x.approved = q.approved /\ x.fulfilled = f /\ x.loan = l
  BY DEF OrderType, IssuedTo, MovedTo
<1> HIDE DEF x3
<1>6. QED
  BY <1>3, <1>4, <1>5

LEMMA ReleaseRow ==
    ASSUME NEW q \in OrderType, NEW st \in Statuses, NEW a \in [Materials -> Nat]
    PROVE  LET x == LoweredTo(q, st, a)
           IN  /\ x \in OrderType /\ x.status = st /\ x.ver = q.ver + 1
               /\ x.approved = a /\ x.fulfilled = q.fulfilled /\ x.loan = q.loan
<1> DEFINE x == LoweredTo(q, st, a)
           x1 == MovedTo(q, st)
           x2 == [x1 EXCEPT !.approved = a]
<1>1. x1 \in OrderType
  BY TransitionRow
<1>2. x2 \in OrderType
  <2> HIDE DEF x1
  <2>1. QED
    BY <1>1, SetField
<1>3. x = x2
  BY DEF OrderType, LoweredTo, MovedTo
<1>4. /\ x.status = st /\ x.ver = q.ver + 1
      /\ x.approved = a /\ x.fulfilled = q.fulfilled /\ x.loan = q.loan
  BY DEF OrderType, LoweredTo, MovedTo
<1> HIDE DEF x2
<1>5. QED
  BY <1>2, <1>3, <1>4

(* A batch takes the order of its plan one version further, completes its  *)
(* command and touches nothing of the other orders.                        *)
Advances(w) ==
    /\ handler[w] # Idle
    /\ handler' = [handler EXCEPT ![w] = Idle]
    /\ command[handler[w].req] = "absent"
    /\ command' = [command EXCEPT ![handler[w].req] = "completed"]
    /\ order' \in [Orders -> OrderType] /\ rsv' \in [Orders -> Reservations]
    /\ \A x \in Orders : x # handler[w].order => order'[x] = order[x] /\ rsv'[x] = rsv[x]
    /\ order'[handler[w].order].ver = order[handler[w].order].ver + 1

LEMMA CreateEffect ==
    ASSUME TypeOK, OrdersSound, NEW w \in Workers, CommitCreate(w), NEW o, o = handler[w].order
    PROVE  /\ Advances(w) /\ handler[w].op = "create"
           /\ order[o].status = "none" /\ order'[o].status = "submitted"
           /\ order'[o].approved = order[o].approved /\ order'[o].fulfilled = order[o].fulfilled
           /\ order'[o].loan = order[o].loan /\ order'[o].pickup = order[o].pickup
           /\ WithinLimit(TeacherOf[o])
           /\ rsv' = rsv /\ shelf' = shelf /\ loan' = loan /\ location' = location
<1>1. handler[w] # Idle /\ handler[w].op = "create"
  BY DEF CommitCreate, Begins
<1>2. handler[w] \in Plan
  BY <1>1 DEF TypeOK
<1>3. o \in Orders /\ order[o] \in OrderType /\ order \in [Orders -> OrderType] /\ rsv' \in [Orders -> Reservations]
  BY <1>2, PlanFields DEF TypeOK, Reservations, CommitCreate
<1>4. order[o].ver = 0 /\ order[o].status = "none"
  BY <1>3 DEF OrdersSound, Sound, Told, CommitCreate
<1> DEFINE q2 == [order[o] EXCEPT !.status = "submitted", !.ver = 1]
<1>5. /\ q2 \in OrderType /\ q2.status = "submitted" /\ q2.ver = 1
      /\ q2.approved = order[o].approved /\ q2.fulfilled = order[o].fulfilled
      /\ q2.loan = order[o].loan /\ q2.pickup = order[o].pickup
  BY <1>3 DEF OrderType, Waiting
<1>6. order' = [order EXCEPT ![o] = q2]
  BY <1>3 DEF CommitCreate
<1> HIDE DEF q2
<1>7. order'[o] = q2 /\ order' \in [Orders -> OrderType]
      /\ \A x \in Orders : x # o => order'[x] = order[x]
  BY <1>3, <1>5, <1>6
<1>8. QED
  BY <1>1, <1>2, <1>3, <1>4, <1>5, <1>7, SMTT(20)
     DEF CommitCreate, Begins, InsertCommand, Advances, LimitInBatch

LEMMA TransitionEffect ==
    ASSUME TypeOK, NEW w \in Workers, CommitTransition(w), NEW o, o = handler[w].order
    PROVE  /\ Advances(w) /\ handler[w].op \in {"cancel", "start_review", "reject"}
           /\ order[o].ver = handler[w].ver
           /\ order[o].status \in Waiting /\ order'[o].status = handler[w].status
           /\ order'[o].approved = order[o].approved /\ order'[o].fulfilled = order[o].fulfilled
           /\ order'[o].loan = order[o].loan /\ order'[o].pickup = order[o].pickup
           /\ rsv' = rsv /\ shelf' = shelf /\ loan' = loan /\ location' = location
<1>1. handler[w] # Idle /\ handler[w].op \in {"cancel", "start_review", "reject"}
      /\ order[o].ver = handler[w].ver /\ order[o].status \in Waiting
  BY DEF CommitTransition, Begins, OrderUnchanged, Cancellable, Waiting
<1>2. handler[w] \in Plan
  BY <1>1 DEF TypeOK
<1>3. o \in Orders /\ order[o] \in OrderType /\ order \in [Orders -> OrderType] /\ rsv' \in [Orders -> Reservations]
  BY <1>2, PlanFields DEF TypeOK, Reservations, CommitTransition
<1> DEFINE q2 == MovedTo(order[o], handler[w].status)
<1>5. /\ q2 \in OrderType /\ q2.status = handler[w].status /\ q2.ver = order[o].ver + 1
      /\ q2.approved = order[o].approved /\ q2.fulfilled = order[o].fulfilled
      /\ q2.loan = order[o].loan /\ q2.pickup = order[o].pickup
  BY <1>2, <1>3, PlanFields, TransitionRow
<1>6. order' = [order EXCEPT ![o] = q2]
  BY <1>3 DEF CommitTransition, MovedTo
<1> HIDE DEF q2
<1>7. order'[o] = q2 /\ order' \in [Orders -> OrderType]
      /\ \A x \in Orders : x # o => order'[x] = order[x]
  BY <1>3, <1>5, <1>6
<1>8. QED
  BY <1>1, <1>2, <1>3, <1>5, <1>7 DEF CommitTransition, Begins, InsertCommand, Advances

LEMMA TakenSlots ==
    ASSUME NEW p \in Plan, NEW s \in Slots
    PROVE  /\ p.take[s] \in Nat /\ p.seen[s].qty \in Nat /\ p.seen[s].ver \in Nat
           /\ s \in Taken(p) <=> p.take[s] > 0
           /\ s \notin Taken(p) <=> p.take[s] = 0
<1>1. p.take[s] \in Nat
  BY PlanFields DEF Quantities
<1>2. p.seen[s] \in [qty : Nat, ver : Nat]
  BY PlanFields
<1>3. p.seen[s].qty \in Nat /\ p.seen[s].ver \in Nat
  BY <1>2
<1>4. QED
  BY <1>1, <1>3 DEF Taken

(* A row of reservations of which one column grows. *)
LEMMA Reserve ==
    ASSUME NEW r \in Reservations, NEW n \in Quantities
    PROVE  LET r2 == [s \in Slots |-> [r[s] EXCEPT !.reserved = @ + n[s]]]
           IN  /\ r2 \in Reservations
               /\ \A s \in Slots : /\ r2[s].reserved = r[s].reserved + n[s]
                                   /\ r2[s].issued = r[s].issued /\ r2[s].released = r[s].released
BY DEF Reservations, Quantities, ReservationType

LEMMA HandOut ==
    ASSUME NEW r \in Reservations, NEW n \in Quantities
    PROVE  LET r2 == [s \in Slots |-> [r[s] EXCEPT !.issued = @ + n[s]]]
           IN  /\ r2 \in Reservations
               /\ \A s \in Slots : /\ r2[s].issued = r[s].issued + n[s]
                                   /\ r2[s].reserved = r[s].reserved /\ r2[s].released = r[s].released
BY DEF Reservations, Quantities, ReservationType

LEMMA GiveUp ==
    ASSUME NEW r \in Reservations, NEW n \in Quantities
    PROVE  LET r2 == [s \in Slots |-> [r[s] EXCEPT !.released = @ + n[s]]]
           IN  /\ r2 \in Reservations
               /\ \A s \in Slots : /\ r2[s].released = r[s].released + n[s]
                                   /\ r2[s].reserved = r[s].reserved /\ r2[s].issued = r[s].issued
BY DEF Reservations, Quantities, ReservationType

LEMMA ReadyEffect ==
    ASSUME TypeOK, NEW w \in Workers, CommitReady(w), NEW o, o = handler[w].order
    PROVE  /\ Advances(w) /\ handler[w].op = "ready"
           /\ order[o].ver = handler[w].ver /\ order[o].status \in Waiting \cup Prepared
           /\ order'[o].status = handler[w].status /\ order'[o].approved = handler[w].approved
           /\ order'[o].fulfilled = order[o].fulfilled /\ order'[o].loan = order[o].loan
           /\ \A s \in Slots : /\ rsv'[o][s].reserved = rsv[o][s].reserved + handler[w].take[s]
                               /\ rsv'[o][s].issued = rsv[o][s].issued
                               /\ rsv'[o][s].released = rsv[o][s].released
           /\ \A s \in Taken(handler[w]) :
                location[s[2]] = "active" /\ handler[w].take[s] <= shelf[s].qty - Held(s)
           /\ shelf' = shelf /\ loan' = loan /\ location' = location
<1>1. handler[w] # Idle /\ handler[w].op = "ready"
      /\ order[o].ver = handler[w].ver /\ order[o].status \in Waiting \cup Prepared
  BY DEF CommitReady, Begins, OrderUnchanged
<1>2. handler[w] \in Plan
  BY <1>1 DEF TypeOK
<1>3. o \in Orders /\ order[o] \in OrderType /\ order \in [Orders -> OrderType]
      /\ rsv[o] \in Reservations /\ rsv \in [Orders -> Reservations] /\ handler[w].take \in Quantities
  BY <1>2, PlanFields DEF TypeOK, Reservations
<1> DEFINE q2 == RaisedTo(order[o], handler[w].status, handler[w].approved, handler[w].pickup)
           r2 == [s \in Slots |-> [rsv[o][s] EXCEPT !.reserved = @ + handler[w].take[s]]]
<1>4. /\ q2 \in OrderType /\ q2.status = handler[w].status /\ q2.ver = order[o].ver + 1
      /\ q2.approved = handler[w].approved /\ q2.fulfilled = order[o].fulfilled
      /\ q2.loan = order[o].loan
  <2>1. /\ handler[w].status \in Statuses /\ handler[w].approved \in [Materials -> Nat]
        /\ handler[w].pickup \in Locations \cup {NoPlace}
    BY <1>2, PlanFields
  <2>2. QED
    BY <1>3, <2>1, ReadyRow
<1>5. /\ r2 \in Reservations
      /\ \A s \in Slots : /\ r2[s].reserved = rsv[o][s].reserved + handler[w].take[s]
                          /\ r2[s].issued = rsv[o][s].issued /\ r2[s].released = rsv[o][s].released
  BY <1>3, Reserve
<1>6. order' = [order EXCEPT ![o] = q2] /\ rsv' = [rsv EXCEPT ![o] = r2]
  BY <1>3 DEF CommitReady, RaisedTo
<1> HIDE DEF q2, r2
<1>7. /\ order'[o] = q2 /\ order' \in [Orders -> OrderType]
      /\ rsv'[o] = r2 /\ rsv' \in [Orders -> Reservations]
      /\ \A x \in Orders : x # o => order'[x] = order[x] /\ rsv'[x] = rsv[x]
  BY <1>3, <1>4, <1>5, <1>6
<1>8. Advances(w)
  BY <1>1, <1>4, <1>7 DEF CommitReady, Begins, InsertCommand, Advances
<1>9. \A s \in Taken(handler[w]) :
        location[s[2]] = "active" /\ handler[w].take[s] <= shelf[s].qty - Held(s)
  BY DEF CommitReady, StillFree, Effective
<1>10. QED
  BY <1>1, <1>4, <1>5, <1>7, <1>8, <1>9 DEF CommitReady

LEMMA OfTitleType == ASSUME NEW n \in Quantities PROVE OfTitle(n) \in [Materials -> Nat]
<1>1. \A m \in Materials : OfTitle(n)[m] \in Nat
  BY TitleAt, TitleBounds DEF Quantities
<1>2. QED
  BY <1>1, TitleDomain

(* The row of a loan as a handover writes it. *)
LentTo(q, n) == [q EXCEPT !.status = "open", !.ver = @ + 1, !.issued = Plus(@, n)]

LEMMA LoanRow ==
    ASSUME NEW q \in LoanType, NEW n \in [Materials -> Nat]
    PROVE  /\ LentTo(q, n) \in LoanType /\ LentTo(q, n).status = "open"
           /\ LentTo(q, n).returned = q.returned
           /\ \A m \in Materials : LentTo(q, n).issued[m] = q.issued[m] + n[m]
           /\ LentTo(q, n).issued \in [Materials -> Nat]
<1> DEFINE x == LentTo(q, n)
           x1 == [q EXCEPT !.status = "open"]
           x2 == [x1 EXCEPT !.ver = q.ver + 1]
           x3 == [x2 EXCEPT !.issued = Plus(q.issued, n)]
<1>1. q.ver \in Nat /\ q.issued \in [Materials -> Nat]
  BY DEF LoanType
<1>2. Plus(q.issued, n) \in [Materials -> Nat] /\ q.ver + 1 \in Nat
      /\ \A m \in Materials : Plus(q.issued, n)[m] = q.issued[m] + n[m]
  BY <1>1 DEF Plus
<1>3. x1 \in LoanType
  BY DEF LoanType
<1>4. x2 \in LoanType
  <2> HIDE DEF x1
  <2>1. QED
    BY <1>2, <1>3 DEF LoanType
<1>5. x3 \in LoanType
  <2> HIDE DEF x2
  <2>1. QED
    BY <1>2, <1>4 DEF LoanType
<1>6. x = x3
  BY DEF LentTo, LoanType
<1>7. x.status = "open" /\ x.returned = q.returned /\ x.issued = Plus(q.issued, n)
  BY DEF LoanType, LentTo
<1> HIDE DEF x3
<1>8. QED
  BY <1>2, <1>5, <1>6, <1>7

LEMMA RowType ==
    ASSUME NEW n \in Nat, NEW v \in Nat
    PROVE  Row(n, v) \in [qty : Nat, ver : Nat] /\ Row(n, v).qty = n
BY DEF Row, NoRow

LEMMA IssueEffect ==
    ASSUME TypeOK, PlansKnown, NEW w \in Workers, CommitIssue(w), NEW o, o = handler[w].order
    PROVE  /\ Advances(w) /\ handler[w].op = "issue"
           /\ order[o].ver = handler[w].ver /\ order[o].status \in Prepared
           /\ order'[o].status = handler[w].status /\ order'[o].approved = order[o].approved
           /\ order'[o].fulfilled = Fulfilled(order[o], OfTitle(handler[w].take))
           /\ \A s \in Slots : /\ rsv'[o][s].issued = rsv[o][s].issued + handler[w].take[s]
                               /\ rsv'[o][s].reserved = rsv[o][s].reserved
                               /\ rsv'[o][s].released = rsv[o][s].released
           /\ \A s \in Taken(handler[w]) : location[s[2]] = "active"
           /\ shelf' \in [Slots -> [qty : Nat, ver : Nat]]
           /\ \A s \in Slots : shelf'[s].qty = shelf[s].qty - handler[w].take[s]
           /\ loan' \in [Loans -> LoanType]
           /\ \E l \in Loans :
                /\ order'[o].loan = l /\ LoanFor(handler[w], l)
                /\ loan'[l].status = "open"
                /\ \A m \in Materials :
                     loan'[l].issued[m] = loan[l].issued[m] + OfTitle(handler[w].take)[m]
                /\ loan'[l].issued \in [Materials -> Nat]
                /\ \A k \in Loans : k # l => loan'[k] = loan[k]
           /\ location' = location
<1>1. handler[w] # Idle /\ handler[w].op = "issue"
      /\ order[o].ver = handler[w].ver /\ order[o].status \in Prepared
  BY DEF CommitIssue, Begins, OrderUnchanged
<1>2. handler[w] \in Plan /\ PlanFine(handler[w])
  BY <1>1 DEF TypeOK, PlansKnown, PlanKnown
<1>3. o \in Orders /\ order[o] \in OrderType /\ order \in [Orders -> OrderType]
      /\ rsv[o] \in Reservations /\ rsv \in [Orders -> Reservations] /\ handler[w].take \in Quantities
      /\ handler[w].status \in Statuses
  BY <1>2, PlanFields DEF TypeOK, Reservations
<1>4. OfTitle(handler[w].take) \in [Materials -> Nat]
  BY <1>3, OfTitleType
<1> DEFINE f == Fulfilled(order[o], OfTitle(handler[w].take))
           r2 == [s \in Slots |-> [rsv[o][s] EXCEPT !.issued = @ + handler[w].take[s]]]
<1>5. f \in [Materials -> Nat]
  <2>1. order[o].fulfilled \in [Materials -> Nat]
    BY <1>3, OrderFields
  <2>2. QED
    BY <1>4, <2>1 DEF Fulfilled
<1>6. /\ r2 \in Reservations
      /\ \A s \in Slots : /\ r2[s].issued = rsv[o][s].issued + handler[w].take[s]
                          /\ r2[s].reserved = rsv[o][s].reserved /\ r2[s].released = rsv[o][s].released
  BY <1>3, HandOut
<1>7. \A s \in Taken(handler[w]) : location[s[2]] = "active" /\ shelf[s] = handler[w].seen[s]
  BY DEF CommitIssue
<1>8. /\ shelf' \in [Slots -> [qty : Nat, ver : Nat]]
      /\ \A s \in Slots : shelf'[s].qty = shelf[s].qty - handler[w].take[s]
  <2>1. shelf' = [s \in Slots |-> IF s \in Taken(handler[w])
                                  THEN Row(handler[w].seen[s].qty - handler[w].take[s], handler[w].seen[s].ver + 1)
                                  ELSE shelf[s]]
    BY DEF CommitIssue
  <2>2. ASSUME NEW s \in Slots
        PROVE  shelf'[s] \in [qty : Nat, ver : Nat] /\ shelf'[s].qty = shelf[s].qty - handler[w].take[s]
    <3>1. /\ handler[w].take[s] \in Nat /\ handler[w].seen[s].qty \in Nat /\ handler[w].seen[s].ver \in Nat
          /\ s \in Taken(handler[w]) <=> handler[w].take[s] > 0
          /\ s \notin Taken(handler[w]) <=> handler[w].take[s] = 0
      BY <1>2, TakenSlots
    <3>2. handler[w].take[s] <= handler[w].seen[s].qty
      BY <1>1, <1>2 DEF PlanFine
    <3>3. CASE s \in Taken(handler[w])
      <4>1. handler[w].seen[s].qty - handler[w].take[s] \in Nat /\ handler[w].seen[s].ver + 1 \in Nat
        BY <3>1, <3>2
      <4>2. shelf'[s] = Row(handler[w].seen[s].qty - handler[w].take[s], handler[w].seen[s].ver + 1)
        BY <2>1, <3>3
      <4>3. /\ Row(handler[w].seen[s].qty - handler[w].take[s], handler[w].seen[s].ver + 1)
                 \in [qty : Nat, ver : Nat]
            /\ Row(handler[w].seen[s].qty - handler[w].take[s], handler[w].seen[s].ver + 1).qty
                 = handler[w].seen[s].qty - handler[w].take[s]
        BY <4>1, RowType
      <4>4. shelf[s] = handler[w].seen[s]
        BY <1>7, <3>3
      <4>5. QED
        BY <4>2, <4>3, <4>4
    <3>4. CASE s \notin Taken(handler[w])
      <4>1. shelf'[s] = shelf[s] /\ shelf[s] \in [qty : Nat, ver : Nat]
        BY <2>1, <3>4 DEF TypeOK
      <4>2. QED
        BY <3>1, <3>4, <4>1
    <3>5. QED
      BY <3>3, <3>4
  <2>3. QED
    BY <2>1, <2>2
<1>9. PICK l \in Loans :
        /\ LoanFor(handler[w], l)
        /\ loan' = [loan EXCEPT ![l].status = "open", ![l].ver = @ + 1,
                                ![l].issued = Plus(@, OfTitle(handler[w].take))]
        /\ order' = [order EXCEPT ![o].status = handler[w].status, ![o].ver = @ + 1, ![o].loan = l,
                                  ![o].fulfilled = Fulfilled(order[o], OfTitle(handler[w].take))]
  BY DEF CommitIssue
<1> DEFINE q2 == IssuedTo(order[o], handler[w].status, l, f)
<1>10. /\ q2 \in OrderType /\ q2.status = handler[w].status /\ q2.ver = order[o].ver + 1
       /\ q2.approved = order[o].approved /\ q2.fulfilled = f /\ q2.loan = l
  <2> HIDE DEF f
  <2>1. QED
    BY <1>3, <1>5, IssueRow
<1>11. order' = [order EXCEPT ![o] = q2] /\ rsv' = [rsv EXCEPT ![o] = r2]
  <2>1. order' = [order EXCEPT ![o] = q2]
    BY <1>3, <1>9 DEF IssuedTo
  <2>2. rsv' = [rsv EXCEPT ![o] = r2]
    BY DEF CommitIssue
  <2>3. QED
    BY <2>1, <2>2
<1> HIDE DEF q2, r2
<1>12. /\ order'[o] = q2 /\ order' \in [Orders -> OrderType]
       /\ rsv'[o] = r2 /\ rsv' \in [Orders -> Reservations]
       /\ \A x \in Orders : x # o => order'[x] = order[x] /\ rsv'[x] = rsv[x]
  BY <1>3, <1>6, <1>10, <1>11
<1>13. Advances(w)
  BY <1>1, <1>10, <1>12 DEF CommitIssue, Begins, InsertCommand, Advances
<1> DEFINE k2 == LentTo(loan[l], OfTitle(handler[w].take))
<1>14. loan \in [Loans -> LoanType] /\ loan[l] \in LoanType
  BY DEF TypeOK
<1>15. /\ k2 \in LoanType /\ k2.status = "open" /\ k2.issued \in [Materials -> Nat]
       /\ \A m \in Materials : k2.issued[m] = loan[l].issued[m] + OfTitle(handler[w].take)[m]
  BY <1>4, <1>14, LoanRow
<1>16. loan' = [loan EXCEPT ![l] = k2]
  BY <1>9, <1>14 DEF LentTo
<1> HIDE DEF k2
<1>17. loan'[l] = k2 /\ loan' \in [Loans -> LoanType] /\ \A k \in Loans : k # l => loan'[k] = loan[k]
  BY <1>14, <1>15, <1>16
<1>18. location' = location
  BY DEF CommitIssue
<1>19. \A s \in Slots : /\ rsv'[o][s].issued = rsv[o][s].issued + handler[w].take[s]
                        /\ rsv'[o][s].reserved = rsv[o][s].reserved
                        /\ rsv'[o][s].released = rsv[o][s].released
  BY <1>6, <1>12
<1>20. /\ order'[o].loan = l /\ LoanFor(handler[w], l)
       /\ loan'[l].status = "open"
       /\ \A m \in Materials : loan'[l].issued[m] = loan[l].issued[m] + OfTitle(handler[w].take)[m]
       /\ loan'[l].issued \in [Materials -> Nat]
       /\ \A k \in Loans : k # l => loan'[k] = loan[k]
  BY <1>9, <1>10, <1>12, <1>15, <1>17
<1>21. order'[o].status = handler[w].status /\ order'[o].approved = order[o].approved
       /\ order'[o].fulfilled = f
  BY <1>10, <1>12
<1> HIDE DEF f
<1>22. \A s \in Taken(handler[w]) : location[s[2]] = "active"
  BY <1>7
<1>23. QED
  BY <1>1, <1>8, <1>13, <1>17, <1>18, <1>19, <1>20, <1>21, <1>22 DEF f

LEMMA ReleaseEffect ==
    ASSUME TypeOK, NEW w \in Workers, CommitRelease(w), NEW o, o = handler[w].order
    PROVE  /\ Advances(w) /\ handler[w].op = "release"
           /\ order[o].ver = handler[w].ver /\ order[o].status \in Prepared
           /\ order'[o].status = handler[w].status /\ order'[o].fulfilled = order[o].fulfilled
           /\ order'[o].approved = Approved(order[o], OfTitle(handler[w].take))
           /\ order'[o].loan = order[o].loan
           /\ \A s \in Slots : /\ rsv'[o][s].released = rsv[o][s].released + handler[w].take[s]
                               /\ rsv'[o][s].reserved = rsv[o][s].reserved
                               /\ rsv'[o][s].issued = rsv[o][s].issued
           /\ shelf' = shelf /\ loan' = loan /\ location' = location
<1>1. handler[w] # Idle /\ handler[w].op = "release"
      /\ order[o].ver = handler[w].ver /\ order[o].status \in Prepared
  BY DEF CommitRelease, Begins, OrderUnchanged
<1>2. handler[w] \in Plan
  BY <1>1 DEF TypeOK
<1>3. o \in Orders /\ order[o] \in OrderType /\ order \in [Orders -> OrderType]
      /\ rsv[o] \in Reservations /\ rsv \in [Orders -> Reservations] /\ handler[w].take \in Quantities
      /\ handler[w].status \in Statuses
  BY <1>2, PlanFields DEF TypeOK, Reservations
<1> DEFINE a == Approved(order[o], OfTitle(handler[w].take))
           r2 == [s \in Slots |-> [rsv[o][s] EXCEPT !.released = @ + handler[w].take[s]]]
<1>4. a \in [Materials -> Nat]
  <2>1. OfTitle(handler[w].take) \in [Materials -> Nat]
    BY <1>3, OfTitleType
  <2>2. order[o].fulfilled \in [Materials -> Nat] /\ order[o].approved \in [Materials -> Nat]
    BY <1>3, OrderFields
  <2>3. QED
    BY <2>1, <2>2 DEF Approved
<1>5. /\ r2 \in Reservations
      /\ \A s \in Slots : /\ r2[s].released = rsv[o][s].released + handler[w].take[s]
                          /\ r2[s].reserved = rsv[o][s].reserved /\ r2[s].issued = rsv[o][s].issued
  BY <1>3, GiveUp
<1> DEFINE q2 == LoweredTo(order[o], handler[w].status, a)
<1>6. /\ q2 \in OrderType /\ q2.status = handler[w].status /\ q2.ver = order[o].ver + 1
      /\ q2.approved = a /\ q2.fulfilled = order[o].fulfilled /\ q2.loan = order[o].loan
  <2> HIDE DEF a
  <2>1. QED
    BY <1>3, <1>4, ReleaseRow
<1>7. order' = [order EXCEPT ![o] = q2] /\ rsv' = [rsv EXCEPT ![o] = r2]
  BY <1>3 DEF CommitRelease, LoweredTo
<1> HIDE DEF q2, r2
<1>8. /\ order'[o] = q2 /\ order' \in [Orders -> OrderType]
      /\ rsv'[o] = r2 /\ rsv' \in [Orders -> Reservations]
      /\ \A x \in Orders : x # o => order'[x] = order[x] /\ rsv'[x] = rsv[x]
  BY <1>3, <1>5, <1>6, <1>7
<1>9. Advances(w)
  BY <1>1, <1>6, <1>8 DEF CommitRelease, Begins, InsertCommand, Advances
<1>10. shelf' = shelf /\ loan' = loan /\ location' = location
  BY DEF CommitRelease
<1>11. QED
  BY <1>1, <1>5, <1>6, <1>8, <1>9, <1>10

-----------------------------------------------------------------------------
(* Each batch leaves its order sound *)

LEMMA AnOrder ==
    ASSUME TypeOK, OrdersSound, NEW o \in Orders
    PROVE  order[o] \in OrderType /\ rsv[o] \in Reservations /\ Sound(o, order[o], rsv[o])
BY DEF TypeOK, OrdersSound, Reservations

LEMMA APlan ==
    ASSUME TypeOK, PlansKnown, NEW w \in Workers, handler[w] # Idle
    PROVE  /\ handler[w] \in Plan /\ handler[w].order \in Orders /\ PlanKnown(handler[w])
           /\ handler[w].take \in Quantities
BY PlanFields DEF TypeOK, PlansKnown

LEMMA CreateKeeps ==
    ASSUME TypeOK, OrdersSound, PlansKnown, NEW w \in Workers, CommitCreate(w)
    PROVE  Sound(handler[w].order, order'[handler[w].order], rsv'[handler[w].order])
<1> DEFINE o == handler[w].order
<1>1. /\ Advances(w) /\ order[o].status = "none" /\ order'[o].status = "submitted"
      /\ order'[o].approved = order[o].approved /\ order'[o].fulfilled = order[o].fulfilled
      /\ order'[o].loan = order[o].loan /\ rsv' = rsv
  BY CreateEffect
<1>2. o \in Orders
  BY <1>1, APlan DEF Advances
<1>3. order[o] \in OrderType /\ rsv[o] \in Reservations /\ Sound(o, order[o], rsv[o])
      /\ order'[o] \in OrderType
  BY <1>1, <1>2, AnOrder DEF Advances
<1> HIDE DEF o
<1>4. Sound(o, order'[o], rsv[o])
  BY <1>1, <1>2, <1>3, StatusSound DEF Waiting
<1>5. QED
  BY <1>1, <1>4 DEF o

LEMMA TransitionKeeps ==
    ASSUME TypeOK, OrdersSound, PlansKnown, NEW w \in Workers, CommitTransition(w)
    PROVE  /\ Sound(handler[w].order, order'[handler[w].order], rsv'[handler[w].order])
           /\ order'[handler[w].order].status \in {"in_review", "rejected", "cancelled"}
<1> DEFINE o == handler[w].order
<1>1. /\ Advances(w) /\ order[o].status \in Waiting /\ order'[o].status = handler[w].status
      /\ handler[w].op \in {"cancel", "start_review", "reject"}
      /\ order'[o].approved = order[o].approved /\ order'[o].fulfilled = order[o].fulfilled
      /\ order'[o].loan = order[o].loan /\ rsv' = rsv
  BY TransitionEffect
<1>2. o \in Orders /\ handler[w].status \in {"in_review", "rejected", "cancelled"}
  BY <1>1, APlan DEF Advances, PlanKnown, PlanFine
<1>3. order[o] \in OrderType /\ rsv[o] \in Reservations /\ Sound(o, order[o], rsv[o])
      /\ order'[o] \in OrderType
  BY <1>1, <1>2, AnOrder DEF Advances
<1>4. order'[o].status \in Waiting \cup {"rejected", "cancelled"}
  BY <1>1, <1>2 DEF Waiting
<1> HIDE DEF o
<1>5. Sound(o, order'[o], rsv[o])
  BY <1>1, <1>2, <1>3, <1>4, StatusSound
<1>6. QED
  BY <1>1, <1>2, <1>5 DEF o

LEMMA ReadyKeeps ==
    ASSUME TypeOK, OrdersSound, PlansKnown, NEW w \in Workers, CommitReady(w), NEW o, o = handler[w].order
    PROVE  /\ Sound(o, order'[o], rsv'[o])
           /\ order'[o].status \in {"ready", "partially_ready"}
           /\ \A m \in Materials :
                order'[o].approved[m] = order[o].approved[m] + InTitle(handler[w].take, m)
<1>1. /\ Advances(w) /\ handler[w].op = "ready"
      /\ order[o].ver = handler[w].ver /\ order[o].status \in Waiting \cup Prepared
      /\ order'[o].status = handler[w].status /\ order'[o].approved = handler[w].approved
      /\ order'[o].fulfilled = order[o].fulfilled /\ order'[o].loan = order[o].loan
      /\ \A s \in Slots : /\ rsv'[o][s].reserved = rsv[o][s].reserved + handler[w].take[s]
                          /\ rsv'[o][s].issued = rsv[o][s].issued
                          /\ rsv'[o][s].released = rsv[o][s].released
  BY ReadyEffect
<1>2. o \in Orders /\ handler[w].take \in Quantities /\ PlanKnown(handler[w])
  BY <1>1, APlan DEF Advances
<1>3. PlanFine(handler[w]) /\ ReadyTrue(handler[w], order[o])
  BY <1>1, <1>2 DEF PlanKnown, PlanTrue
<1>4. order[o] \in OrderType /\ rsv[o] \in Reservations /\ Sound(o, order[o], rsv[o])
      /\ order'[o] \in OrderType /\ rsv'[o] \in Reservations
  BY <1>1, <1>2, AnOrder DEF Advances
<1>5. /\ \A m \in Materials : /\ order'[o].approved[m] = order[o].approved[m] + InTitle(handler[w].take, m)
                              /\ order'[o].approved[m] <= Asked[o][m]
      /\ \E m \in Materials : order'[o].approved[m] > 0
      /\ order'[o].status = (IF Whole(o, order'[o].approved) THEN "ready" ELSE "partially_ready")
  BY <1>1, <1>3 DEF PlanFine, ReadyTrue
<1>6. Sound(o, order'[o], rsv'[o])
  <2> DEFINE q == order[o]
             q2 == order'[o]
             r == rsv[o]
             r2 == rsv'[o]
             n == handler[w].take
  <2>1. /\ n \in Quantities /\ q \in OrderType /\ r \in Reservations /\ Sound(o, q, r)
        /\ q2 \in OrderType /\ r2 \in Reservations
    BY <1>2, <1>4
  <2>2. \A s \in Slots : /\ r2[s].reserved = r[s].reserved + n[s]
                          /\ r2[s].issued = r[s].issued /\ r2[s].released = r[s].released
    BY <1>1
  <2>3. /\ \A m \in Materials : /\ q2.approved[m] = q.approved[m] + InTitle(n, m)
                                /\ q2.approved[m] <= Asked[o][m]
        /\ \E m \in Materials : q2.approved[m] > 0
    BY <1>5
  <2>4. /\ q.status \in Waiting \cup Prepared
        /\ q2.status = (IF Whole(o, q2.approved) THEN "ready" ELSE "partially_ready")
    BY <1>1, <1>5
  <2>5. q2.fulfilled = q.fulfilled /\ q2.loan = q.loan
    BY <1>1
  <2> HIDE DEF q, q2, r, r2, n
  <2>6. Sound(o, q2, r2)
    BY <1>2, <2>1, <2>2, <2>3, <2>4, <2>5, ReadySound
  <2>7. QED
    BY <2>6 DEF q2, r2
<1>7. QED
  BY <1>5, <1>6

LEMMA IssueKeeps ==
    ASSUME TypeOK, OrdersSound, PlansKnown, NEW w \in Workers, CommitIssue(w), NEW o, o = handler[w].order
    PROVE  /\ Sound(o, order'[o], rsv'[o])
           /\ handler[w].loan = order[o].loan
           /\ \A s \in Slots : handler[w].take[s] <= Rem(rsv[o], s)
           /\ \A m \in Materials :
                order'[o].fulfilled[m] = order[o].fulfilled[m] + OfTitle(handler[w].take)[m]
           /\ handler[w].status \in {"completed", "ready", "partially_ready"}
<1>1. /\ Advances(w) /\ handler[w].op = "issue"
      /\ order[o].ver = handler[w].ver /\ order[o].status \in Prepared
      /\ order'[o].status = handler[w].status /\ order'[o].approved = order[o].approved
      /\ order'[o].fulfilled = Fulfilled(order[o], OfTitle(handler[w].take))
      /\ \A s \in Slots : /\ rsv'[o][s].issued = rsv[o][s].issued + handler[w].take[s]
                          /\ rsv'[o][s].reserved = rsv[o][s].reserved
                          /\ rsv'[o][s].released = rsv[o][s].released
      /\ order'[o].loan \in Loans
  BY IssueEffect
<1>2. o \in Orders /\ handler[w].take \in Quantities /\ PlanKnown(handler[w])
  BY <1>1, APlan DEF Advances
<1>3. PlanFine(handler[w]) /\ IssueTrue(handler[w], order[o], rsv[o])
  BY <1>1, <1>2 DEF PlanKnown, PlanTrue
<1>4. order[o] \in OrderType /\ rsv[o] \in Reservations /\ Sound(o, order[o], rsv[o])
      /\ order'[o] \in OrderType /\ rsv'[o] \in Reservations
  BY <1>1, <1>2, AnOrder DEF Advances
<1>5. \A s \in Slots : handler[w].take[s] <= Rem(rsv[o], s)
  BY <1>3 DEF IssueTrue
<1>6. \A m \in Materials :
        /\ order[o].fulfilled[m] + InTitle(handler[w].take, m) <= order[o].approved[m]
        /\ OfTitle(handler[w].take)[m] = InTitle(handler[w].take, m)
  BY <1>2, <1>4, <1>5, PortionFacts, TitleAt DEF Sound
<1>7. \A m \in Materials :
        order'[o].fulfilled[m] = order[o].fulfilled[m] + OfTitle(handler[w].take)[m]
  BY <1>1, <1>6 DEF Fulfilled
<1>8. \A m \in Materials :
        order'[o].fulfilled[m] = order[o].fulfilled[m] + InTitle(handler[w].take, m)
  BY <1>6, <1>7
<1>9. \E s \in Slots : handler[w].take[s] > 0
  BY <1>1, <1>3 DEF PlanFine
<1>10. order'[o].loan # NoLoan
  BY <1>1, NoneAssumption
<1>11. handler[w].loan = order[o].loan
       /\ handler[w].status = (IF InAll(handler[w].take) = Active(rsv[o]) THEN "completed"
                               ELSE IF Whole(o, order[o].approved) THEN "ready" ELSE "partially_ready")
  BY <1>3 DEF IssueTrue
<1>12. Sound(o, order'[o], rsv'[o])
  <2> DEFINE q == order[o]
             q2 == order'[o]
             r == rsv[o]
             r2 == rsv'[o]
             n == handler[w].take
  <2>1. /\ n \in Quantities /\ q \in OrderType /\ r \in Reservations /\ Sound(o, q, r)
        /\ q2 \in OrderType /\ r2 \in Reservations
    BY <1>2, <1>4
  <2>2. /\ \A s \in Slots : /\ r2[s].issued = r[s].issued + n[s]
                             /\ r2[s].reserved = r[s].reserved /\ r2[s].released = r[s].released
        /\ \A s \in Slots : n[s] <= Rem(r, s)
        /\ \E s \in Slots : n[s] > 0
    BY <1>1, <1>5, <1>9
  <2>3. \A m \in Materials : q2.fulfilled[m] = q.fulfilled[m] + InTitle(n, m)
    BY <1>8
  <2>4. /\ q.status \in Prepared /\ q2.approved = q.approved /\ q2.loan # NoLoan
        /\ q2.status = (IF InAll(n) = Active(r) THEN "completed"
                        ELSE IF Whole(o, q.approved) THEN "ready" ELSE "partially_ready")
    BY <1>1, <1>10, <1>11
  <2> HIDE DEF q, q2, r, r2, n
  <2>5. Sound(o, q2, r2)
    BY <1>2, <2>1, <2>2, <2>3, <2>4, IssueSound
  <2>6. QED
    BY <2>5 DEF q2, r2
<1>13. QED
  BY <1>5, <1>7, <1>11, <1>12

LEMMA ReleaseKeeps ==
    ASSUME TypeOK, OrdersSound, PlansKnown, NEW w \in Workers, CommitRelease(w), NEW o, o = handler[w].order
    PROVE  /\ Sound(o, order'[o], rsv'[o])
           /\ \A s \in Slots : handler[w].take[s] <= Rem(rsv[o], s)
           /\ \A m \in Materials :
                order'[o].approved[m] = order[o].approved[m] - InTitle(handler[w].take, m)
           /\ handler[w].status \in {"completed", "cancelled", "ready", "partially_ready"}
<1>1. /\ Advances(w) /\ handler[w].op = "release"
      /\ order[o].ver = handler[w].ver /\ order[o].status \in Prepared
      /\ order'[o].status = handler[w].status /\ order'[o].fulfilled = order[o].fulfilled
      /\ order'[o].approved = Approved(order[o], OfTitle(handler[w].take))
      /\ order'[o].loan = order[o].loan
      /\ \A s \in Slots : /\ rsv'[o][s].released = rsv[o][s].released + handler[w].take[s]
                          /\ rsv'[o][s].reserved = rsv[o][s].reserved
                          /\ rsv'[o][s].issued = rsv[o][s].issued
  BY ReleaseEffect
<1>2. o \in Orders /\ handler[w].take \in Quantities /\ PlanKnown(handler[w])
  BY <1>1, APlan DEF Advances
<1>3. ReleaseTrue(handler[w], order[o], rsv[o])
  BY <1>1, <1>2 DEF PlanKnown, PlanTrue
<1>4. order[o] \in OrderType /\ rsv[o] \in Reservations /\ Sound(o, order[o], rsv[o])
      /\ order'[o] \in OrderType /\ rsv'[o] \in Reservations
  BY <1>1, <1>2, AnOrder DEF Advances
<1>5. \A s \in Slots : handler[w].take[s] <= Rem(rsv[o], s)
  BY <1>3 DEF ReleaseTrue
<1>6. \A m \in Materials :
        /\ InTitle(handler[w].take, m) \in Nat
        /\ order[o].fulfilled[m] \in Nat /\ order[o].approved[m] \in Nat
        /\ order[o].fulfilled[m] + InTitle(handler[w].take, m) <= order[o].approved[m]
        /\ OfTitle(handler[w].take)[m] = InTitle(handler[w].take, m)
  BY <1>2, <1>4, <1>5, PortionFacts, TitleAt, OrderFields DEF Sound
<1>7. \A m \in Materials :
        order'[o].approved[m] = order[o].approved[m] - InTitle(handler[w].take, m)
  <2>1. ASSUME NEW m \in Materials
        PROVE  order[o].approved[m] - OfTitle(handler[w].take)[m] >= order[o].fulfilled[m]
    BY <1>6
  <2>2. \A m \in Materials :
          order'[o].approved[m] = order[o].approved[m] - OfTitle(handler[w].take)[m]
    BY <1>1, <2>1 DEF Approved
  <2>3. QED
    BY <1>6, <2>2
<1>8. Whole(o, Lowered(order[o], handler[w].take)) <=> Whole(o, order'[o].approved)
  BY <1>7 DEF Whole, Lowered
<1>9. order'[o].status = (IF InAll(handler[w].take) # Active(rsv[o])
                          THEN IF Whole(o, order'[o].approved) THEN "ready" ELSE "partially_ready"
                          ELSE IF Handed(order[o]) THEN "completed" ELSE "cancelled")
  BY <1>1, <1>3, <1>8 DEF ReleaseTrue
<1>10. Sound(o, order'[o], rsv'[o])
  <2> DEFINE n == handler[w].take  q == order[o]  q2 == order'[o]  r == rsv[o]  r2 == rsv'[o]
  <2>1. /\ n \in Quantities /\ \A s \in Slots : n[s] <= Rem(r, s)
        /\ \A s \in Slots : /\ r2[s].released = r[s].released + n[s]
                             /\ r2[s].reserved = r[s].reserved /\ r2[s].issued = r[s].issued
        /\ \A m \in Materials : q2.approved[m] = q.approved[m] - InTitle(n, m)
        /\ q.status \in Prepared /\ q2.fulfilled = q.fulfilled /\ q2.loan = q.loan
        /\ q2.status = (IF InAll(n) # Active(r)
                        THEN IF Whole(o, q2.approved) THEN "ready" ELSE "partially_ready"
                        ELSE IF Handed(q) THEN "completed" ELSE "cancelled")
    BY <1>1, <1>2, <1>5, <1>7, <1>9
  <2>2. q \in OrderType /\ r \in Reservations /\ Sound(o, q, r) /\ q2 \in OrderType /\ r2 \in Reservations
    BY <1>4
  <2> HIDE DEF n, q, q2, r, r2
  <2>3. Sound(o, q2, r2)
    BY <1>2, <2>1, <2>2, ReleaseSound
  <2>4. QED
    BY <2>3 DEF q2, r2
<1>11. QED
  BY <1>1, <1>5, <1>7, <1>9, <1>10

-----------------------------------------------------------------------------
(* What a handler knows once it has read *)

Ops == {"create", "cancel", "start_review", "reject", "ready", "issue", "release"}

LEMMA SetPlan ==
    ASSUME NEW p \in Plan
    PROVE  /\ \A x \in Quantities : [p EXCEPT !.take = x] \in Plan
           /\ \A x \in Quantities : [p EXCEPT !.expect = x] \in Plan
           /\ \A x \in [Materials -> Nat] : [p EXCEPT !.approved = x] \in Plan
           /\ \A x \in Locations \cup {NoPlace} : [p EXCEPT !.pickup = x] \in Plan
           /\ \A x \in [Slots -> [qty : Nat, ver : Nat]] : [p EXCEPT !.seen = x] \in Plan
           /\ \A x \in Loans \cup {NoLoan} : [p EXCEPT !.loan = x] \in Plan
           /\ \A x \in Nat : [p EXCEPT !.loanVer = x] \in Plan
<1>1. \A x \in Quantities : [p EXCEPT !.take = x] \in Plan /\ [p EXCEPT !.expect = x] \in Plan
  BY DEF Plan, Quantities
<1>2. \A x \in [Materials -> Nat] : [p EXCEPT !.approved = x] \in Plan
  BY DEF Plan
<1>3. \A x \in Locations \cup {NoPlace} : [p EXCEPT !.pickup = x] \in Plan
  BY DEF Plan
<1>4. \A x \in [Slots -> [qty : Nat, ver : Nat]] : [p EXCEPT !.seen = x] \in Plan
  BY DEF Plan
<1>5. /\ \A x \in Loans \cup {NoLoan} : [p EXCEPT !.loan = x] \in Plan
      /\ \A x \in Nat : [p EXCEPT !.loanVer = x] \in Plan
  BY DEF Plan
<1>6. QED
  BY <1>1, <1>2, <1>3, <1>4, <1>5

LEMMA PlanOfType ==
    ASSUME TypeOK, NEW k \in Ops, NEW r \in Requests, NEW o \in Orders, NEW st \in Statuses
    PROVE  /\ PlanOf(k, r, o, st) \in Plan
           /\ PlanOf(k, r, o, st).op = k /\ PlanOf(k, r, o, st).status = st
           /\ PlanOf(k, r, o, st).order = o /\ PlanOf(k, r, o, st).ver = order[o].ver
<1>1. order[o] \in OrderType /\ rsv[o] \in [Slots -> ReservationType]
  BY DEF TypeOK
<1>2. order[o].ver \in Nat /\ order[o].approved \in [Materials -> Nat]
      /\ order[o].pickup \in Locations \cup {NoPlace}
  BY <1>1, OrderFields
<1>3. NoCopies \in [Slots -> Nat] /\ [s \in Slots |-> NoRow] \in [Slots -> [qty : Nat, ver : Nat]]
  BY DEF NoCopies, NoRow
<1>4. PlanOf(k, r, o, st) \in Plan
  BY <1>1, <1>2, <1>3 DEF PlanOf, Plan, Ops, Statuses
<1>5. QED
  BY <1>4 DEF PlanOf

Learns(w, p) ==
    /\ p \in Plan /\ handler' = [handler EXCEPT ![w] = p]
    /\ PlanFine(p) /\ p.ver = order[p.order].ver
    /\ PlanTrue(p, order[p.order], rsv[p.order])
    /\ order' = order /\ rsv' = rsv /\ shelf' = shelf /\ loan' = loan
    /\ location' = location /\ command' = command

LEMMA CreateLearns ==
    ASSUME TypeOK, NEW w \in Workers, NEW r \in Requests, NEW o \in Orders, PlanCreate(w, r, o)
    PROVE  \E p : Learns(w, p)
<1> DEFINE p == PlanOf("create", r, o, "submitted")
<1>1. p \in Plan /\ p.op = "create" /\ p.order = o /\ p.ver = order[o].ver
  BY PlanOfType DEF Ops, Statuses, Waiting
<1>2. Plans(w, p)
  BY DEF PlanCreate
<1> HIDE DEF p
<1>3. PlanFine(p) /\ PlanTrue(p, order[o], rsv[o])
  BY <1>1 DEF PlanFine, PlanTrue
<1>4. Learns(w, p)
  BY <1>1, <1>2, <1>3 DEF Plans, Learns
<1>5. QED
  BY <1>4

LEMMA TransitionLearns ==
    ASSUME TypeOK, NEW w \in Workers, NEW r \in Requests, NEW o \in Orders, PlanTransition(w, r, o)
    PROVE  \E p : Learns(w, p)
<1>1. PICK k \in {"cancel", "start_review", "reject"}, st \in {"cancelled", "in_review", "rejected"} :
        /\ Plans(w, PlanOf(k, r, o, st))
        /\ k = "cancel" => st = "cancelled"
        /\ k = "start_review" => st = "in_review"
        /\ k = "reject" => st = "rejected"
  BY DEF PlanTransition
<1> DEFINE p == PlanOf(k, r, o, st)
<1>2. p \in Plan /\ p.op = k /\ p.status = st /\ p.order = o /\ p.ver = order[o].ver
  BY PlanOfType DEF Ops, Statuses, Waiting, Final
<1> HIDE DEF p
<1>3. PlanFine(p) /\ PlanTrue(p, order[o], rsv[o])
  BY <1>1, <1>2 DEF PlanFine, PlanTrue
<1>4. Learns(w, p)
  BY <1>1, <1>2, <1>3 DEF Plans, Learns, p
<1>5. QED
  BY <1>4

(* The plan of a librarian who prepares. *)
Preparing(q, n, a, k, e) == [q EXCEPT !.take = n, !.approved = a, !.pickup = k, !.expect = e]

LEMMA PreparingType ==
    ASSUME NEW q \in Plan, NEW n \in Quantities, NEW a \in [Materials -> Nat],
           NEW k \in Locations \cup {NoPlace}, NEW e \in Quantities
    PROVE  LET x == Preparing(q, n, a, k, e)
           IN  /\ x \in Plan /\ x.take = n /\ x.approved = a /\ x.op = q.op
               /\ x.order = q.order /\ x.ver = q.ver /\ x.status = q.status
<1> DEFINE x == Preparing(q, n, a, k, e)
           x1 == [q EXCEPT !.take = n]
           x2 == [x1 EXCEPT !.approved = a]
           x3 == [x2 EXCEPT !.pickup = k]
           x4 == [x3 EXCEPT !.expect = e]
<1>1. x1 \in Plan
  BY SetPlan
<1>2. x2 \in Plan
  <2> HIDE DEF x1
  <2>1. QED
    BY <1>1, SetPlan
<1>3. x3 \in Plan
  <2> HIDE DEF x2
  <2>1. QED
    BY <1>2, SetPlan
<1>4. x4 \in Plan
  <2> HIDE DEF x3
  <2>1. QED
    BY <1>3, SetPlan
<1>5. x = x4
  BY DEF Preparing, Plan
<1>6. /\ x.take = n /\ x.approved = a /\ x.op = q.op
      /\ x.order = q.order /\ x.ver = q.ver /\ x.status = q.status
  BY DEF Preparing, Plan
<1> HIDE DEF x4
<1>7. QED
  BY <1>4, <1>5, <1>6

(* The plan of a librarian who hands over. *)
Handing(q, n, sn, l, v) == [q EXCEPT !.take = n, !.seen = sn, !.loan = l, !.loanVer = v]

LEMMA HandingType ==
    ASSUME NEW q \in Plan, NEW n \in Quantities, NEW sn \in [Slots -> [qty : Nat, ver : Nat]],
           NEW l \in Loans \cup {NoLoan}, NEW v \in Nat
    PROVE  LET x == Handing(q, n, sn, l, v)
           IN  /\ x \in Plan /\ x.take = n /\ x.seen = sn /\ x.loan = l /\ x.op = q.op
               /\ x.order = q.order /\ x.ver = q.ver /\ x.status = q.status
<1> DEFINE x == Handing(q, n, sn, l, v)
           x1 == [q EXCEPT !.take = n]
           x2 == [x1 EXCEPT !.seen = sn]
           x3 == [x2 EXCEPT !.loan = l]
           x4 == [x3 EXCEPT !.loanVer = v]
<1>1. x1 \in Plan
  BY SetPlan
<1>2. x2 \in Plan
  <2> HIDE DEF x1
  <2>1. QED
    BY <1>1, SetPlan
<1>3. x3 \in Plan
  <2> HIDE DEF x2
  <2>1. QED
    BY <1>2, SetPlan
<1>4. x4 \in Plan
  <2> HIDE DEF x3
  <2>1. QED
    BY <1>3, SetPlan
<1>5. x = x4
  BY DEF Handing, Plan
<1>6. /\ x.take = n /\ x.seen = sn /\ x.loan = l /\ x.op = q.op
      /\ x.order = q.order /\ x.ver = q.ver /\ x.status = q.status
  BY DEF Handing, Plan
<1> HIDE DEF x4
<1>7. QED
  BY <1>4, <1>5, <1>6

LEMMA TakingType ==
    ASSUME NEW q \in Plan, NEW n \in Quantities
    PROVE  LET x == [q EXCEPT !.take = n]
           IN  /\ x \in Plan /\ x.take = n /\ x.op = q.op
               /\ x.order = q.order /\ x.ver = q.ver /\ x.status = q.status
<1>1. [q EXCEPT !.take = n] \in Plan
  BY SetPlan
<1>2. LET x == [q EXCEPT !.take = n]
      IN  /\ x.take = n /\ x.op = q.op
          /\ x.order = q.order /\ x.ver = q.ver /\ x.status = q.status
  BY DEF Plan
<1>3. QED
  BY <1>1, <1>2

(* What is reserved at a slot, over all orders. *)
HeldIn(rs, s) == Sum([o \in Orders |-> Rem(rs[o], s)], Orders)

LEMMA HeldIs ==
    ASSUME NEW s \in Slots
    PROVE  Held(s) = HeldIn(rsv, s) /\ Held(s)' = HeldIn(rsv', s)
<1>1. DOMAIN [o \in Orders |-> Remaining(o, s)] = Orders
      /\ DOMAIN [o \in Orders |-> Remaining(o, s)'] = Orders
  OBVIOUS
<1>2. [o \in Orders |-> Remaining(o, s)] = [o \in Orders |-> Rem(rsv[o], s)]
      /\ [o \in Orders |-> Remaining(o, s)'] = [o \in Orders |-> Rem(rsv'[o], s)]
  BY DEF Remaining, Rem
<1>3. QED
  BY <1>1, <1>2 DEF Held, HeldIn, SumFunction, Sum

LEMMA HeldInInt ==
    ASSUME NEW rs \in [Orders -> Reservations], NEW s \in Slots
    PROVE  /\ HeldIn(rs, s) \in Int
           /\ \A o \in Orders : Rem(rs[o], s) \in Int
<1>1. \A o \in Orders : Rem(rs[o], s) \in Int
  BY RsvFields
<1>2. HeldIn(rs, s) \in Int
  BY <1>1, SumIsInt, FiniteAssumption DEF HeldIn
<1>3. QED
  BY <1>1, <1>2

LEMMA HeldInt == ASSUME TypeOK, NEW s \in Slots PROVE Held(s) \in Int /\ shelf[s].qty \in Nat
<1>1. rsv \in [Orders -> Reservations] /\ shelf[s] \in [qty : Nat, ver : Nat]
  BY DEF TypeOK, Reservations
<1>2. shelf[s].qty \in Nat
  BY <1>1
<1>3. Held(s) \in Int
  BY <1>1, HeldIs, HeldInInt
<1>4. QED
  BY <1>2, <1>3

LEMMA ReadyLearns ==
    ASSUME TypeOK, OrdersSound, NEW w \in Workers, NEW r \in Requests, NEW o \in Orders,
           PlanReady(w, r, o)
    PROVE  \E p : Learns(w, p)
<1> DEFINE Add(M, from, n) == [s \in Slots |-> IF s[1] \in M /\ from[s[1]] = s[2] THEN n[s[1]] ELSE 0]
           Sums(add) == Plus(order[o].approved, OfTitle(add))
           Expected(add) == [s \in Slots |-> IF add[s] > 0 THEN Effective(s) ELSE 0]
<1>1. PICK M \in SUBSET Materials :
        \E from \in [M -> Locations], n \in [M -> 1..MaxAsked], pickup \in Locations :
        LET add == Add(M, from, n)
            approved == Plus(order[o].approved, OfTitle(add))
        IN  /\ \A m \in M : approved[m] <= Asked[o][m]
            /\ \E m \in Materials : approved[m] > 0
            /\ location[pickup] = "active"
            /\ \A s \in Slots : add[s] > 0 => location[s[2]] = "active" /\ add[s] <= Effective(s)
            /\ Plans(w, [PlanOf("ready", r, o, ReadyStatus(o, approved)) EXCEPT
                            !.take = add, !.approved = approved, !.pickup = pickup,
                            !.expect = Expected(add)])
  BY Zenon DEF PlanReady
<1>1a. PICK from \in [M -> Locations], n \in [M -> 1..MaxAsked], pickup \in Locations :
        LET add == Add(M, from, n)
            approved == Plus(order[o].approved, OfTitle(add))
        IN  /\ \A m \in M : approved[m] <= Asked[o][m]
            /\ \E m \in Materials : approved[m] > 0
            /\ location[pickup] = "active"
            /\ \A s \in Slots : add[s] > 0 => location[s[2]] = "active" /\ add[s] <= Effective(s)
            /\ Plans(w, [PlanOf("ready", r, o, ReadyStatus(o, approved)) EXCEPT
                            !.take = add, !.approved = approved, !.pickup = pickup,
                            !.expect = Expected(add)])
  BY <1>1, Zenon
<1>2. /\ \A m \in M : Sums(Add(M, from, n))[m] <= Asked[o][m]
      /\ \E m \in Materials : Sums(Add(M, from, n))[m] > 0
      /\ \A s \in Slots : Add(M, from, n)[s] > 0 => Add(M, from, n)[s] <= Effective(s)
      /\ Plans(w, [PlanOf("ready", r, o, ReadyStatus(o, Sums(Add(M, from, n)))) EXCEPT
                     !.take = Add(M, from, n), !.approved = Sums(Add(M, from, n)), !.pickup = pickup,
                     !.expect = Expected(Add(M, from, n))])
  BY <1>1a
<1> DEFINE add == Add(M, from, n)
           a == Sums(add)
           e == Expected(add)
           st == ReadyStatus(o, a)
<1>3. add \in Quantities /\ \A s \in Slots : s[1] \notin M => add[s] = 0
  <2>1. \A m \in M : n[m] \in Nat
    BY AskedAssumption
  <2>2. QED
    BY <2>1 DEF Quantities
<1>4. order[o] \in OrderType /\ Sound(o, order[o], rsv[o])
  BY AnOrder
<1>5. order[o].approved \in [Materials -> Nat]
  BY <1>4, OrderFields
<1> HIDE DEF Add
<1>6. OfTitle(add) \in [Materials -> Nat] /\ \A m \in Materials : OfTitle(add)[m] = InTitle(add, m)
  <2> HIDE DEF add
  <2>1. QED
    BY <1>3, OfTitleType, TitleAt
<1>7. /\ a \in [Materials -> Nat]
      /\ \A m \in Materials : a[m] = order[o].approved[m] + InTitle(add, m)
  <2> HIDE DEF add
  <2>1. QED
    BY <1>5, <1>6 DEF Plus
<1>8. \A m \in Materials : a[m] <= Asked[o][m]
  <2> SUFFICES ASSUME NEW m \in Materials PROVE a[m] <= Asked[o][m]
    OBVIOUS
  <2>1. CASE m \in M
    BY <1>2, <2>1
  <2>2. CASE m \notin M
    <3>1. \A k \in Locations : <<m, k>> \in Slots /\ add[<<m, k>>] = 0
      BY <1>3, <2>2 DEF Slots
    <3>2. InTitle(add, m) = 0
      <4> HIDE DEF add
      <4>1. QED
        BY <1>3, <3>1, TitleBounds DEF Quantities
    <3>3. order[o].approved[m] <= Asked[o][m] /\ order[o].approved[m] \in Nat
      BY <1>4, <1>5 DEF Sound, Books
    <3>4. QED
      BY <1>7, <3>2, <3>3
  <2>3. QED
    BY <2>1, <2>2
<1>9. e \in Quantities
  <2>1. \A s \in Slots : Effective(s) \in Int
    BY HeldInt DEF Effective
  <2>2. \A s \in Slots : add[s] \in Nat /\ (add[s] > 0 => add[s] <= Effective(s))
    BY <1>2, <1>3 DEF Quantities
  <2> HIDE DEF add
  <2>3. QED
    BY <2>1, <2>2 DEF Quantities
<1>10. st = (IF Whole(o, a) THEN "ready" ELSE "partially_ready") /\ st \in Statuses
  BY DEF ReadyStatus, WholeOrder, Whole, Statuses, Prepared
<1> DEFINE q == PlanOf("ready", r, o, st)
           p == Preparing(q, add, a, pickup, e)
<1>11. Plans(w, p)
  BY <1>2 DEF Preparing
<1>12. \E m \in Materials : a[m] > 0
  BY <1>2
<1> HIDE DEF add, a, e, st, Sums, Expected
<1>13. q \in Plan /\ q.op = "ready" /\ q.order = o /\ q.ver = order[o].ver /\ q.status = st
  BY <1>10, PlanOfType DEF Ops
<1> HIDE DEF q
<1>14. /\ p \in Plan /\ p.take = add /\ p.approved = a /\ p.op = "ready"
       /\ p.order = o /\ p.ver = order[o].ver /\ p.status = st
  BY <1>3, <1>7, <1>9, <1>13, PreparingType
<1> HIDE DEF p
<1>15. PlanFine(p)
  BY <1>8, <1>10, <1>12, <1>14 DEF PlanFine
<1>16. PlanTrue(p, order[o], rsv[o])
  BY <1>7, <1>14 DEF PlanTrue, ReadyTrue
<1>17. Learns(w, p)
  BY <1>11, <1>14, <1>15, <1>16 DEF Plans, Learns
<1>18. QED
  BY <1>17

LEMMA ActiveIs ==
    ASSUME NEW o \in Orders
    PROVE  ActiveTotal(o) = Active(rsv[o]) /\ ActiveTotal(o)' = Active(rsv'[o])
<1>1. [s \in Slots |-> Remaining(o, s)] = RemOf(rsv[o])
      /\ [s \in Slots |-> Remaining(o, s)'] = RemOf(rsv'[o])
  BY DEF Remaining, RemOf, Rem
<1>2. DOMAIN RemOf(rsv[o]) = Slots /\ DOMAIN RemOf(rsv'[o]) = Slots
  BY DEF RemOf
<1>3. QED
  BY <1>1, <1>2 DEF ActiveTotal, Active, InAll, SumFunction, Sum

LEMMA PortionIs ==
    ASSUME TypeOK, NEW o \in Orders, NEW n \in Portions(o)
    PROVE  /\ n \in Quantities /\ \A s \in Slots : n[s] <= Rem(rsv[o], s)
           /\ \E s \in Slots : n[s] > 0
           /\ TotalOf(n) = InAll(n)
<1>1. n \in [Slots -> Quantity] /\ n # NoCopies /\ \A s \in Slots : n[s] <= Rem(rsv[o], s)
  BY DEF Portions, Remaining, Rem
<1>2. n \in Quantities
  BY <1>1, AskedAssumption DEF Quantity, Quantities
<1>3. \E s \in Slots : n[s] # 0
  BY <1>1 DEF NoCopies
<1>4. \A s \in Slots : n[s] \in Nat
  BY <1>2 DEF Quantities
<1>5. TotalOf(n) = InAll(n)
  BY <1>1, TotalIs
<1>6. QED
  BY <1>1, <1>2, <1>3, <1>4, <1>5

LEMMA IssueLearns ==
    ASSUME TypeOK, OrdersSound, NEW w \in Workers, NEW r \in Requests, NEW o \in Orders,
           PlanIssue(w, r, o)
    PROVE  \E p : Learns(w, p)
<1> DEFINE st(n) == IF TotalOf(n) = ActiveTotal(o) THEN "completed" ELSE ReadyStatus(o, order[o].approved)
           sn(n) == [s \in Slots |-> IF n[s] > 0 THEN shelf[s] ELSE NoRow]
           v == IF order[o].loan = NoLoan THEN 0 ELSE loan[order[o].loan].ver
<1>1. PICK n \in Portions(o) :
        /\ \A s \in Slots : n[s] > 0 => shelf[s].qty >= n[s]
        /\ Plans(w, [PlanOf("issue", r, o, st(n)) EXCEPT
                       !.take = n, !.seen = sn(n), !.loan = order[o].loan, !.loanVer = v])
  BY DEF PlanIssue
<1> DEFINE q == PlanOf("issue", r, o, st(n))
           p == Handing(q, n, sn(n), order[o].loan, v)
<1>2. /\ n \in Quantities /\ \A s \in Slots : n[s] <= Rem(rsv[o], s)
      /\ \E s \in Slots : n[s] > 0
      /\ TotalOf(n) = InAll(n) /\ ActiveTotal(o) = Active(rsv[o])
  BY PortionIs, ActiveIs
<1>3. order[o].loan \in Loans \cup {NoLoan}
  BY AnOrder, OrderFields
<1>4. v \in Nat
  <2>1. \A l \in Loans : loan[l] \in LoanType
    BY DEF TypeOK
  <2>2. \A l \in Loans : loan[l].ver \in Nat
    BY <2>1 DEF LoanType
  <2>3. QED
    BY <1>3, <2>2
<1>5. /\ sn(n) \in [Slots -> [qty : Nat, ver : Nat]]
      /\ \A s \in Slots : n[s] <= sn(n)[s].qty
  <2>1. shelf \in [Slots -> [qty : Nat, ver : Nat]] /\ NoRow \in [qty : Nat, ver : Nat] /\ NoRow.qty = 0
    BY DEF TypeOK, NoRow
  <2>2. \A s \in Slots : n[s] \in Nat /\ shelf[s].qty \in Nat
    BY <1>2, <2>1 DEF Quantities
  <2>3. QED
    BY <1>1, <2>1, <2>2
<1>6. st(n) = (IF InAll(n) = Active(rsv[o]) THEN "completed"
               ELSE IF Whole(o, order[o].approved) THEN "ready" ELSE "partially_ready")
      /\ st(n) \in Statuses
  BY <1>2 DEF ReadyStatus, WholeOrder, Whole, Statuses, Prepared, Final
<1>7. Plans(w, p)
  BY <1>1 DEF Handing
<1> HIDE DEF st, sn, v
<1>8. q \in Plan /\ q.op = "issue" /\ q.order = o /\ q.ver = order[o].ver /\ q.status = st(n)
  BY <1>6, PlanOfType DEF Ops
<1> HIDE DEF q
<1>9. /\ p \in Plan /\ p.take = n /\ p.seen = sn(n) /\ p.loan = order[o].loan /\ p.op = "issue"
      /\ p.order = o /\ p.ver = order[o].ver /\ p.status = st(n)
  <2> DEFINE l == order[o].loan  x == sn(n)
  <2>1. q \in Plan /\ n \in Quantities /\ x \in [Slots -> [qty : Nat, ver : Nat]]
        /\ l \in Loans \cup {NoLoan} /\ v \in Nat
    BY <1>2, <1>3, <1>4, <1>5, <1>8
  <2> HIDE DEF l, x
  <2>2. LET y == Handing(q, n, x, l, v)
        IN  /\ y \in Plan /\ y.take = n /\ y.seen = x /\ y.loan = l /\ y.op = q.op
            /\ y.order = q.order /\ y.ver = q.ver /\ y.status = q.status
    BY <2>1, HandingType
  <2>3. QED
    BY <1>8, <2>2 DEF l, x
<1> HIDE DEF p
<1>10. PlanFine(p)
  BY <1>2, <1>5, <1>9 DEF PlanFine
<1>11. PlanTrue(p, order[o], rsv[o])
  BY <1>2, <1>6, <1>9 DEF PlanTrue, IssueTrue
<1>12. Learns(w, p)
  BY <1>7, <1>9, <1>10, <1>11 DEF Plans, Learns
<1>13. QED
  BY <1>12

LEMMA HandedIs ==
    ASSUME NEW q \in OrderType
    PROVE  /\ TotalOf(q.fulfilled) > 0 <=> Handed(q)
           /\ TotalOf(q.fulfilled) = 0 <=> ~Handed(q)
<1>1. q.fulfilled \in [Materials -> Nat]
  BY OrderFields
<1>2. TotalOf(q.fulfilled) = Sum(q.fulfilled, Materials)
  BY <1>1, TotalOfTitles
<1>3. /\ Sum(q.fulfilled, Materials) \in Nat
      /\ Sum(q.fulfilled, Materials) = 0 <=> \A m \in Materials : q.fulfilled[m] = 0
  BY <1>1, SumBounds, FiniteAssumption
<1>4. Handed(q) <=> ~\A m \in Materials : q.fulfilled[m] = 0
  BY <1>1 DEF Handed
<1>5. QED
  BY <1>2, <1>3, <1>4

LEMMA ReleaseLearns ==
    ASSUME TypeOK, OrdersSound, NEW w \in Workers, NEW r \in Requests, NEW o \in Orders,
           PlanRelease(w, r, o)
    PROVE  \E p : Learns(w, p)
<1>1. PICK n \in Portions(o) : Plans(w, [PlanOf("release", r, o, ReleaseStatus(o, n)) EXCEPT !.take = n])
  BY DEF PlanRelease
<1> DEFINE st == ReleaseStatus(o, n)
           q == PlanOf("release", r, o, st)
           p == [q EXCEPT !.take = n]
<1>2. /\ n \in Quantities /\ \A s \in Slots : n[s] <= Rem(rsv[o], s)
      /\ \E s \in Slots : n[s] > 0
      /\ TotalOf(n) = InAll(n) /\ ActiveTotal(o) = Active(rsv[o])
  BY PortionIs, ActiveIs
<1>3. Minus(order[o].approved, OfTitle(n)) = Lowered(order[o], n)
  BY TitleAt DEF Minus, Lowered
<1>4. TotalOf(order[o].fulfilled) > 0 <=> Handed(order[o])
  BY AnOrder, HandedIs
<1>5. st = (IF InAll(n) # Active(rsv[o])
            THEN IF Whole(o, Lowered(order[o], n)) THEN "ready" ELSE "partially_ready"
            ELSE IF Handed(order[o]) THEN "completed" ELSE "cancelled")
  BY <1>2, <1>3, <1>4 DEF ReleaseStatus, ReadyStatus, WholeOrder, Whole
<1>6. st \in Statuses
  BY <1>5 DEF Statuses, Prepared, Final
<1>7. Plans(w, p)
  BY <1>1
<1> HIDE DEF st
<1>8. q \in Plan /\ q.op = "release" /\ q.order = o /\ q.ver = order[o].ver /\ q.status = st
  BY <1>6, PlanOfType DEF Ops
<1> HIDE DEF q
<1>9. /\ p \in Plan /\ p.take = n /\ p.op = "release"
      /\ p.order = o /\ p.ver = order[o].ver /\ p.status = st
  BY <1>2, <1>8, TakingType
<1> HIDE DEF p
<1>10. PlanFine(p)
  BY <1>2, <1>9 DEF PlanFine
<1>11. PlanTrue(p, order[o], rsv[o])
  BY <1>2, <1>5, <1>9 DEF PlanTrue, ReleaseTrue
<1>12. Learns(w, p)
  BY <1>7, <1>9, <1>10, <1>11 DEF Plans, Learns
<1>13. QED
  BY <1>12

LEMMA PlanningLearns ==
    ASSUME TypeOK, OrdersSound, NEW w \in Workers, Planning(w)
    PROVE  \E p : Learns(w, p)
<1>1. PICK r \in Requests, o \in Orders :
        PlanCreate(w, r, o) \/ PlanTransition(w, r, o) \/ PlanReady(w, r, o)
        \/ PlanIssue(w, r, o) \/ PlanRelease(w, r, o)
  BY DEF Planning
<1>2. QED
  BY <1>1, CreateLearns, TransitionLearns, ReadyLearns, IssueLearns, ReleaseLearns

-----------------------------------------------------------------------------
(* Every step preserves the invariant *)

LEMMA StepCases ==
    ASSUME TypeOK, OrdersSound, [Next]_vars
    PROVE  \/ \E w \in Workers : \E p : Learns(w, p)
           \/ \E w \in Workers : Committing(w)
           \/ \E w \in Workers : Drop(w)
           \/ \E s \in Slots, n \in 0..MaxStock : ChangeShelf(s, n)
           \/ \E l \in Loans, s \in Slots, n \in 1..MaxStock : Return(l, s, n)
           \/ \E k \in Locations : CloseLocation(k) \/ ReopenLocation(k)
           \/ UNCHANGED vars
BY PlanningLearns DEF Next, OtherStores

LEMMA BatchAdvances ==
    ASSUME TypeOK, OrdersSound, PlansKnown, NEW w \in Workers, Committing(w)
    PROVE  /\ Advances(w) /\ handler[w].order \in Orders /\ handler[w].req \in Requests
           /\ handler[w] \in Plan
           /\ Sound(handler[w].order, order'[handler[w].order], rsv'[handler[w].order])
<1>1. Advances(w)
  BY CreateEffect, TransitionEffect, ReadyEffect, IssueEffect, ReleaseEffect DEF Committing
<1>2. handler[w].order \in Orders /\ handler[w].req \in Requests /\ handler[w] \in Plan
  BY <1>1, APlan, PlanFields DEF Advances
<1>3. Sound(handler[w].order, order'[handler[w].order], rsv'[handler[w].order])
  BY CreateKeeps, TransitionKeeps, ReadyKeeps, IssueKeeps, ReleaseKeeps DEF Committing
<1>4. QED
  BY <1>1, <1>2, <1>3

LEMMA ReturnRow ==
    ASSUME NEW q \in LoanType, NEW m \in Materials, NEW n \in Nat
    PROVE  LET back == [q.returned EXCEPT ![m] = @ + n]
               x == [q EXCEPT !.returned = back, !.ver = @ + 1,
                              !.status = IF back = q.issued THEN "closed" ELSE "open"]
           IN  x \in LoanType /\ x.issued = q.issued /\ x.status \in {"open", "closed"}
<1> DEFINE back == [q.returned EXCEPT ![m] = @ + n]
           st == IF back = q.issued THEN "closed" ELSE "open"
           x == [q EXCEPT !.returned = back, !.ver = @ + 1, !.status = st]
           x1 == [q EXCEPT !.returned = back]
           x2 == [x1 EXCEPT !.ver = q.ver + 1]
           x3 == [x2 EXCEPT !.status = st]
<1>1. q.ver \in Nat /\ q.returned \in [Materials -> Nat]
  BY DEF LoanType
<1>2. back \in [Materials -> Nat] /\ q.ver + 1 \in Nat /\ st \in {"open", "closed"}
  BY <1>1
<1> HIDE DEF back, st
<1>3. x1 \in LoanType
  BY <1>2 DEF LoanType
<1>4. x2 \in LoanType
  <2> HIDE DEF x1
  <2>1. QED
    BY <1>2, <1>3 DEF LoanType
<1>5. x3 \in LoanType
  <2> HIDE DEF x2
  <2>1. QED
    BY <1>2, <1>4 DEF LoanType
<1>6. x = x3
  BY DEF LoanType
<1>7. x.issued = q.issued /\ x.status = st
  BY DEF LoanType
<1> HIDE DEF x3
<1>8. QED
  BY <1>2, <1>5, <1>6, <1>7 DEF back, st

LEMMA ReturnEffect ==
    ASSUME TypeOK, NEW l \in Loans, NEW s \in Slots, NEW n \in 1..MaxStock, Return(l, s, n)
    PROVE  /\ loan' \in [Loans -> LoanType]
           /\ loan[l].status = "open" /\ loan'[l].status \in {"open", "closed"}
           /\ loan'[l].issued = loan[l].issued
           /\ \A k \in Loans : k # l => loan'[k] = loan[k]
           /\ shelf' \in [Slots -> [qty : Nat, ver : Nat]]
           /\ \A x \in Slots : shelf'[x].qty >= shelf[x].qty
           /\ order' = order /\ rsv' = rsv /\ location' = location
           /\ command' = command /\ handler' = handler
<1>1. n \in Nat /\ s[1] \in Materials /\ loan[l] \in LoanType
      /\ shelf \in [Slots -> [qty : Nat, ver : Nat]] /\ shelf[s] \in [qty : Nat, ver : Nat]
  BY BoundAssumption DEF Slots, TypeOK
<1> DEFINE back == [loan[l].returned EXCEPT ![s[1]] = @ + n]
           x == [loan[l] EXCEPT !.returned = back, !.ver = @ + 1,
                                !.status = IF back = loan[l].issued THEN "closed" ELSE "open"]
<1>2. x \in LoanType /\ x.issued = loan[l].issued /\ x.status \in {"open", "closed"}
  BY <1>1, ReturnRow
<1>3. loan' = [loan EXCEPT ![l] = x]
  BY DEF Return, TypeOK
<1> HIDE DEF x
<1>4. loan'[l] = x /\ loan' \in [Loans -> LoanType] /\ \A k \in Loans : k # l => loan'[k] = loan[k]
  BY <1>2, <1>3 DEF TypeOK
<1>5. shelf' = [shelf EXCEPT ![s] = Row(shelf[s].qty + n, shelf[s].ver + 1)]
  BY DEF Return
<1>6. shelf[s].qty + n \in Nat /\ shelf[s].ver + 1 \in Nat /\ shelf[s].qty \in Nat
  BY <1>1
<1>7. /\ Row(shelf[s].qty + n, shelf[s].ver + 1) \in [qty : Nat, ver : Nat]
      /\ Row(shelf[s].qty + n, shelf[s].ver + 1).qty = shelf[s].qty + n
  BY <1>6, RowType
<1>8. shelf' \in [Slots -> [qty : Nat, ver : Nat]] /\ shelf'[s].qty = shelf[s].qty + n
      /\ \A y \in Slots : y # s => shelf'[y] = shelf[y]
  BY <1>1, <1>5, <1>7
<1>9. \A y \in Slots : shelf[y].qty \in Nat
  BY HeldInt
<1>10. \A y \in Slots : shelf'[y].qty >= shelf[y].qty
  BY <1>1, <1>6, <1>8, <1>9
<1>11. loan[l].status = "open" /\ order' = order /\ rsv' = rsv /\ location' = location
       /\ command' = command /\ handler' = handler
  BY DEF Return
<1>12. QED
  BY <1>2, <1>4, <1>8, <1>10, <1>11

LEMMA ChangeShelfEffect ==
    ASSUME TypeOK, NEW s \in Slots, NEW n \in 0..MaxStock, ChangeShelf(s, n)
    PROVE  /\ shelf' \in [Slots -> [qty : Nat, ver : Nat]]
           /\ shelf'[s].qty = n /\ n >= Held(s)
           /\ \A y \in Slots : y # s => shelf'[y] = shelf[y]
           /\ order' = order /\ rsv' = rsv /\ location' = location /\ loan' = loan
           /\ command' = command /\ handler' = handler
<1>1. n \in Nat /\ shelf \in [Slots -> [qty : Nat, ver : Nat]] /\ shelf[s] \in [qty : Nat, ver : Nat]
  BY BoundAssumption DEF TypeOK
<1>2. shelf' = [shelf EXCEPT ![s] = Row(n, shelf[s].ver + 1)]
  BY DEF ChangeShelf
<1>3. Row(n, shelf[s].ver + 1) \in [qty : Nat, ver : Nat] /\ Row(n, shelf[s].ver + 1).qty = n
  <2>1. shelf[s].ver + 1 \in Nat
    BY <1>1
  <2>2. QED
    BY <1>1, <2>1, RowType
<1>4. /\ shelf' \in [Slots -> [qty : Nat, ver : Nat]] /\ shelf'[s].qty = n
      /\ \A y \in Slots : y # s => shelf'[y] = shelf[y]
  BY <1>1, <1>2, <1>3
<1>5. QED
  BY <1>4 DEF ChangeShelf

LEMMA TypesKept ==
    ASSUME TypeOK, OrdersSound, PlansKnown, [Next]_vars
    PROVE  TypeOK'
<1>1. CASE \E w \in Workers : \E p : Learns(w, p)
  <2>1. PICK w \in Workers : \E p : Learns(w, p)
    BY <1>1
  <2>2. PICK p : Learns(w, p)
    BY <2>1
  <2>3. QED
    BY <2>2 DEF Learns, TypeOK
<1>2. CASE \E w \in Workers : Committing(w)
  <2>1. PICK w \in Workers : Committing(w)
    BY <1>2
  <2>2. Advances(w) /\ handler[w].req \in Requests
    BY <2>1, BatchAdvances
  <2>3. /\ order' \in [Orders -> OrderType] /\ rsv' \in [Orders -> [Slots -> ReservationType]]
        /\ command' \in [Requests -> {"absent", "completed"}]
        /\ handler' \in [Workers -> Plan \cup {Idle}]
    BY <2>2 DEF Advances, TypeOK, Reservations
  <2>4. location' = location
    BY <2>1, CreateEffect, TransitionEffect, ReadyEffect, IssueEffect, ReleaseEffect DEF Committing
  <2>5. shelf' \in [Slots -> [qty : Nat, ver : Nat]] /\ loan' \in [Loans -> LoanType]
    <3>1. CASE CommitIssue(w)
      BY <3>1, IssueEffect
    <3>2. CASE ~CommitIssue(w)
      <4>1. shelf' = shelf /\ loan' = loan
        BY <2>1, <3>2, CreateEffect, TransitionEffect, ReadyEffect, ReleaseEffect DEF Committing
      <4>2. QED
        BY <4>1 DEF TypeOK
    <3>3. QED
      BY <3>1, <3>2
  <2>6. QED
    BY <2>3, <2>4, <2>5 DEF TypeOK
<1>3. CASE \E w \in Workers : Drop(w)
  BY <1>3 DEF Drop, TypeOK
<1>4. CASE \E s \in Slots, n \in 0..MaxStock : ChangeShelf(s, n)
  BY <1>4, ChangeShelfEffect DEF TypeOK
<1>5. CASE \E l \in Loans, s \in Slots, n \in 1..MaxStock : Return(l, s, n)
  BY <1>5, ReturnEffect DEF TypeOK
<1>6. CASE \E k \in Locations : CloseLocation(k) \/ ReopenLocation(k)
  BY <1>6 DEF CloseLocation, ReopenLocation, TypeOK
<1>7. CASE UNCHANGED vars
  BY <1>7 DEF vars, TypeOK
<1>8. QED
  BY <1>1, <1>2, <1>3, <1>4, <1>5, <1>6, <1>7, StepCases

(* Steps that touch no order. *)
LEMMA Aside ==
    ASSUME TypeOK, OrdersSound, [Next]_vars, ~\E w \in Workers : Committing(w)
    PROVE  /\ order' = order /\ rsv' = rsv /\ command' = command
<1>1. ASSUME NEW w \in Workers, NEW p, Learns(w, p)
      PROVE  order' = order /\ rsv' = rsv /\ command' = command
  BY <1>1 DEF Learns
<1>2. QED
  BY <1>1, StepCases, ChangeShelfEffect, ReturnEffect DEF Drop, CloseLocation, ReopenLocation, vars

LEMMA OrdersKept ==
    ASSUME TypeOK, OrdersSound, PlansKnown, [Next]_vars
    PROVE  OrdersSound'
<1>1. CASE \E w \in Workers : Committing(w)
  <2>1. PICK w \in Workers : Committing(w)
    BY <1>1
  <2>2. Advances(w) /\ Sound(handler[w].order, order'[handler[w].order], rsv'[handler[w].order])
    BY <2>1, BatchAdvances
  <2>3. \A o \in Orders : Sound(o, order'[o], rsv'[o])
    BY <2>2 DEF Advances, OrdersSound
  <2>4. QED
    BY <2>3 DEF OrdersSound
<1>2. CASE ~\E w \in Workers : Committing(w)
  BY <1>2, Aside DEF OrdersSound
<1>3. QED
  BY <1>1, <1>2

LEMMA PlansKept ==
    ASSUME TypeOK, OrdersSound, PlansKnown, [Next]_vars
    PROVE  PlansKnown'
<1> SUFFICES ASSUME NEW v \in Workers, handler'[v] # Idle
             PROVE  /\ PlanFine(handler'[v])
                    /\ handler'[v].ver <= order'[handler'[v].order].ver
                    /\ handler'[v].ver = order'[handler'[v].order].ver =>
                         PlanTrue(handler'[v], order'[handler'[v].order], rsv'[handler'[v].order])
  BY DEF PlansKnown, PlanKnown
<1>1. CASE \E w \in Workers : Committing(w)
  <2>1. PICK w \in Workers : Committing(w)
    BY <1>1
  <2>2. Advances(w) /\ handler[w].order \in Orders
    BY <2>1, BatchAdvances
  <2>3. v # w /\ handler'[v] = handler[v]
    BY <2>2 DEF Advances, TypeOK
  <2> DEFINE o == handler[v].order
  <2>4. PlanKnown(handler[v]) /\ o \in Orders /\ handler[v].ver \in Nat /\ order[o].ver \in Nat
    <3>1. handler[v] # Idle
      BY <2>3
    <3>2. handler[v] \in Plan /\ o \in Orders /\ PlanKnown(handler[v])
      BY <3>1, APlan
    <3>3. QED
      BY <3>2, PlanFields, AnOrder, OrderFields
  <2>5. CASE o = handler[w].order
    BY <2>2, <2>3, <2>4, <2>5 DEF Advances, PlanKnown
  <2>6. CASE o # handler[w].order
    BY <2>2, <2>3, <2>4, <2>6 DEF Advances, PlanKnown
  <2>7. QED
    BY <2>5, <2>6
<1>2. CASE \E w \in Workers : \E p : Learns(w, p)
  <2>1. PICK w \in Workers : \E p : Learns(w, p)
    BY <1>2
  <2>2. PICK p : Learns(w, p)
    BY <2>1
  <2>3. CASE v = w
    <3>1. handler'[v] = p
      BY <2>2, <2>3 DEF Learns, TypeOK
    <3>2. order[p.order].ver \in Nat
      BY <2>2, PlanFields, AnOrder, OrderFields DEF Learns
    <3>3. QED
      BY <2>2, <3>1, <3>2 DEF Learns
  <2>4. CASE v # w
    <3>1. handler'[v] = handler[v] /\ order' = order /\ rsv' = rsv
      BY <2>2, <2>4 DEF Learns, TypeOK
    <3>2. QED
      BY <3>1 DEF PlansKnown, PlanKnown
  <2>5. QED
    BY <2>3, <2>4
<1>3. CASE /\ ~\E w \in Workers : Committing(w)
           /\ ~\E w \in Workers : \E p : Learns(w, p)
  <2>1. order' = order /\ rsv' = rsv
    BY <1>3, Aside
  <2>2. handler'[v] = handler[v]
    <3>1. ASSUME NEW w \in Workers, Drop(w) PROVE handler'[v] = handler[v]
      BY <3>1 DEF Drop, TypeOK
    <3>2. QED
      BY <1>3, <3>1, StepCases, ChangeShelfEffect, ReturnEffect DEF CloseLocation, ReopenLocation, vars
  <2>3. QED
    BY <2>1, <2>2 DEF PlansKnown, PlanKnown
<1>4. QED
  BY <1>1, <1>2, <1>3

LEMMA OnceKept ==
    ASSUME TypeOK, OrdersSound, PlansKnown, EachCommandOnce, [Next]_vars
    PROVE  EachCommandOnce'
<1> DEFINE Vers(os) == [o \in Orders |-> os[o].ver]
           Completed(c) == {r \in Requests : c[r] = "completed"}
<1>1. \A os : SumFunction(Vers(os)) = Sum(Vers(os), Orders)
  <2>1. \A os : DOMAIN Vers(os) = Orders
    OBVIOUS
  <2> HIDE DEF Vers
  <2>2. QED
    BY <2>1 DEF SumFunction, Sum
<1>2. EachCommandOnce <=> Sum(Vers(order), Orders) = Cardinality(Completed(command))
  BY <1>1 DEF EachCommandOnce
<1>3. EachCommandOnce' <=> Sum(Vers(order'), Orders) = Cardinality(Completed(command'))
  BY <1>1 DEF EachCommandOnce
<1>4. CASE \E w \in Workers : Committing(w)
  <2>1. PICK w \in Workers : Committing(w)
    BY <1>4
  <2>2. Advances(w) /\ handler[w].order \in Orders /\ handler[w].req \in Requests
    BY <2>1, BatchAdvances
  <2> DEFINE o == handler[w].order  r == handler[w].req
  <2>3. Sum(Vers(order'), Orders) = Sum(Vers(order), Orders) + 1
    <3>1. \A x \in Orders : order[x] \in OrderType /\ order'[x] \in OrderType
      BY <2>2 DEF TypeOK, Advances
    <3>2. \A x \in Orders : /\ Vers(order)[x] \in Int /\ Vers(order')[x] \in Int
                            /\ Vers(order)[x] = order[x].ver /\ Vers(order')[x] = order'[x].ver
      BY <3>1, OrderFields
    <3>3. \A x \in Orders : x # o => Vers(order)[x] = Vers(order')[x]
      BY <2>2 DEF Advances
    <3>4. Vers(order')[o] = Vers(order)[o] + 1
      BY <2>2 DEF Advances
    <3> HIDE DEF Vers
    <3>5. Sum(Vers(order'), Orders) = Sum(Vers(order), Orders) + (Vers(order')[o] - Vers(order)[o])
      BY <2>2, <3>2, <3>3, FiniteAssumption, SumChange
    <3>6. Vers(order')[o] - Vers(order)[o] = 1
      BY <2>2, <3>2, <3>4
    <3>7. QED
      BY <3>5, <3>6
  <2>4. Completed(command') = Completed(command) \cup {r} /\ r \notin Completed(command)
    BY <2>2 DEF Advances, TypeOK
  <2>5. IsFiniteSet(Completed(command))
    BY FS_Subset, FiniteAssumption
  <2> HIDE DEF Completed, Vers
  <2>6. Cardinality(Completed(command')) = Cardinality(Completed(command)) + 1
    BY <2>4, <2>5, FS_AddElement
  <2>7. QED
    BY <1>2, <1>3, <2>3, <2>6
<1>5. CASE ~\E w \in Workers : Committing(w)
  BY <1>5, Aside DEF EachCommandOnce
<1>6. QED
  BY <1>4, <1>5

LEMMA LimitStays ==
    ASSUME TypeOK, OrdersSound, PlansKnown, LimitKept, [Next]_vars
    PROVE  LimitKept'
<1> SUFFICES ASSUME NEW x \in Orders PROVE Cardinality(Live(TeacherOf[x])') <= Limit
  BY DEF LimitKept
<1> DEFINE t == TeacherOf[x]
<1>1. IsFiniteSet(Live(t)) /\ IsFiniteSet(Live(t)') /\ Cardinality(Live(t)) <= Limit
      /\ Cardinality(Live(t)) \in Nat /\ Cardinality(Live(t)') \in Nat
  <2>1. Live(t) \in SUBSET Orders /\ Live(t)' \in SUBSET Orders
    BY DEF Live
  <2>2. IsFiniteSet(Live(t)) /\ IsFiniteSet(Live(t)')
    BY <2>1, FS_Subset, FiniteAssumption
  <2>3. QED
    BY <2>2, FS_CardinalityType DEF LimitKept
<1>2. ASSUME Live(t)' \subseteq Live(t) PROVE Cardinality(Live(t)') <= Limit
  <2>1. Cardinality(Live(t)') <= Cardinality(Live(t))
    BY <1>1, <1>2, FS_Subset
  <2>2. QED
    BY <1>1, <2>1, BoundAssumption
<1>3. CASE \E w \in Workers : CommitCreate(w)
  <2>1. PICK w \in Workers : CommitCreate(w)
    BY <1>3
  <2> DEFINE o == handler[w].order
  <2>2. Advances(w) /\ order[o].status = "none" /\ WithinLimit(TeacherOf[o])
    BY <2>1, CreateEffect
  <2>3. o \in Orders
    BY <2>2, APlan DEF Advances
  <2>4. CASE TeacherOf[o] # t
    <3>1. Live(t)' \subseteq Live(t)
      BY <2>2, <2>4 DEF Live, Advances
    <3>2. QED
      BY <1>2, <3>1
  <2>5. CASE TeacherOf[o] = t
    <3>1. Live(t)' \subseteq Live(t) \cup {o}
      BY <2>2 DEF Live, Advances
    <3>2. Cardinality(Live(t)) < Limit
      BY <2>2, <2>5 DEF WithinLimit
    <3>3. IsFiniteSet(Live(t) \cup {o}) /\ Cardinality(Live(t) \cup {o}) <= Cardinality(Live(t)) + 1
          /\ Cardinality(Live(t) \cup {o}) \in Nat
      <4> DEFINE S == Live(t)
      <4>1. IsFiniteSet(S) /\ Cardinality(S) \in Nat
        BY <1>1
      <4> HIDE DEF S
      <4>2. /\ IsFiniteSet(S \cup {o})
            /\ Cardinality(S \cup {o}) = IF o \in S THEN Cardinality(S) ELSE Cardinality(S) + 1
        BY <4>1, FS_AddElement
      <4>3. Cardinality(S \cup {o}) \in Nat
        BY <4>2, FS_CardinalityType
      <4>4. QED
        BY <4>1, <4>2, <4>3 DEF S
    <3>4. Cardinality(Live(t)') <= Cardinality(Live(t) \cup {o})
      BY <3>1, <3>3, FS_Subset
    <3>5. QED
      BY <1>1, <3>2, <3>3, <3>4, BoundAssumption
  <2>6. QED
    BY <2>4, <2>5
<1>4. CASE \E w \in Workers : Committing(w) /\ ~CommitCreate(w)
  <2>1. PICK w \in Workers : Committing(w) /\ ~CommitCreate(w)
    BY <1>4
  <2> DEFINE o == handler[w].order
  <2>2. Advances(w) /\ o \in Orders
    BY <2>1, BatchAdvances
  <2>3. order[o].status \in Waiting \cup Prepared
    BY <2>1, TransitionEffect, ReadyEffect, IssueEffect, ReleaseEffect DEF Committing
  <2>4. Live(t)' \subseteq Live(t)
    BY <2>2, <2>3 DEF Live, Advances
  <2>5. QED
    BY <1>2, <2>4
<1>5. CASE ~\E w \in Workers : Committing(w)
  <2>1. Live(t)' = Live(t)
    BY <1>5, Aside DEF Live
  <2>2. QED
    BY <1>1, <2>1
<1>6. QED
  BY <1>3, <1>4, <1>5

(* A batch changes what is held at a slot by what its order changes there. *)
LEMMA HeldMoves ==
    ASSUME TypeOK, NEW w \in Workers, Advances(w), NEW o \in Orders, o = handler[w].order,
           NEW s \in Slots
    PROVE  /\ Held(s) \in Int /\ Rem(rsv[o], s) \in Int /\ Rem(rsv'[o], s) \in Int
           /\ Held(s)' = Held(s) + (Rem(rsv'[o], s) - Rem(rsv[o], s))
<1>1. rsv \in [Orders -> Reservations] /\ rsv' \in [Orders -> Reservations]
  BY DEF TypeOK, Reservations, Advances
<1>2. HeldIn(rsv, s) \in Int /\ \A x \in Orders : Rem(rsv[x], s) \in Int /\ Rem(rsv'[x], s) \in Int
  BY <1>1, HeldInInt
<1>3. \A x \in Orders : x # o => Rem(rsv[x], s) = Rem(rsv'[x], s)
  BY DEF Advances
<1> DEFINE f == [x \in Orders |-> Rem(rsv[x], s)]
           g == [x \in Orders |-> Rem(rsv'[x], s)]
<1>4. \A x \in Orders : /\ f[x] \in Int /\ g[x] \in Int /\ f[x] = Rem(rsv[x], s) /\ g[x] = Rem(rsv'[x], s)
                        /\ (x # o => f[x] = g[x])
  BY <1>2, <1>3
<1> HIDE DEF f, g
<1>5. Sum(g, Orders) = Sum(f, Orders) + (g[o] - f[o])
  BY <1>4, SumChange, FiniteAssumption
<1>6. HeldIn(rsv, s) = Sum(f, Orders) /\ HeldIn(rsv', s) = Sum(g, Orders)
  BY DEF HeldIn, f, g
<1>7. HeldIn(rsv', s) = HeldIn(rsv, s) + (Rem(rsv'[o], s) - Rem(rsv[o], s))
  BY <1>4, <1>5, <1>6
<1>8. QED
  BY <1>2, <1>7, HeldIs

LEMMA PromiseKept ==
    ASSUME TypeOK, OrdersSound, PlansKnown, PromiseOnShelf, [Next]_vars
    PROVE  PromiseOnShelf'
<1> SUFFICES ASSUME NEW s \in Slots, Held(s)' > 0
             PROVE  Held(s)' <= shelf'[s].qty /\ location'[s[2]] = "active"
  BY DEF PromiseOnShelf
<1>1. /\ Held(s) \in Int /\ shelf[s].qty \in Nat
      /\ Held(s) > 0 => Held(s) <= shelf[s].qty /\ location[s[2]] = "active"
  BY HeldInt DEF PromiseOnShelf
<1>2. CASE \E w \in Workers : Committing(w)
  <2>1. PICK w \in Workers : Committing(w)
    BY <1>2
  <2> DEFINE o == handler[w].order  n == handler[w].take[s]
  <2>2. Advances(w) /\ o \in Orders /\ handler[w] \in Plan
    BY <2>1, BatchAdvances
  <2>3. /\ Rem(rsv[o], s) \in Int /\ Rem(rsv'[o], s) \in Int
        /\ Held(s)' = Held(s) + (Rem(rsv'[o], s) - Rem(rsv[o], s))
    BY <2>2, HeldMoves
  <2>4. /\ n \in Nat /\ (s \in Taken(handler[w]) <=> n > 0) /\ (s \notin Taken(handler[w]) <=> n = 0)
    BY <2>2, TakenSlots
  <2>5. rsv[o] \in Reservations /\ rsv'[o] \in Reservations
    BY <2>2, AnOrder DEF Advances
  <2>6. /\ rsv[o][s].reserved \in Nat /\ rsv[o][s].issued \in Nat /\ rsv[o][s].released \in Nat
    BY <2>5, RsvFields
  <2>7. CASE CommitCreate(w) \/ CommitTransition(w)
    <3>1. rsv' = rsv /\ shelf' = shelf /\ location' = location
      BY <2>7, CreateEffect, TransitionEffect
    <3>2. Held(s)' = Held(s)
      BY <1>1, <2>3, <3>1
    <3>3. QED
      BY <1>1, <3>1, <3>2
  <2>8. CASE CommitReady(w)
    <3>1. /\ rsv'[o][s].reserved = rsv[o][s].reserved + n
          /\ rsv'[o][s].issued = rsv[o][s].issued /\ rsv'[o][s].released = rsv[o][s].released
          /\ s \in Taken(handler[w]) => location[s[2]] = "active" /\ n <= shelf[s].qty - Held(s)
          /\ shelf' = shelf /\ location' = location
      BY <2>8, ReadyEffect
    <3>2. Rem(rsv'[o], s) - Rem(rsv[o], s) = n
      BY <2>4, <2>6, <3>1 DEF Rem
    <3>3. Held(s)' = Held(s) + n
      BY <2>3, <3>2
    <3>4. CASE n = 0
      BY <1>1, <3>1, <3>3, <3>4
    <3>5. CASE n > 0
      BY <1>1, <2>4, <3>1, <3>3, <3>5
    <3>6. QED
      BY <2>4, <3>4, <3>5
  <2>9. CASE CommitIssue(w)
    <3>1. /\ rsv'[o][s].issued = rsv[o][s].issued + n
          /\ rsv'[o][s].reserved = rsv[o][s].reserved /\ rsv'[o][s].released = rsv[o][s].released
          /\ shelf'[s].qty = shelf[s].qty - n /\ location' = location
      BY <2>9, IssueEffect
    <3>2. Rem(rsv'[o], s) - Rem(rsv[o], s) = 0 - n
      BY <2>4, <2>6, <3>1 DEF Rem
    <3>3. Held(s)' = Held(s) - n
      BY <1>1, <2>3, <2>4, <3>2
    <3>4. QED
      BY <1>1, <2>4, <3>1, <3>3
  <2>10. CASE CommitRelease(w)
    <3>1. /\ rsv'[o][s].released = rsv[o][s].released + n
          /\ rsv'[o][s].reserved = rsv[o][s].reserved /\ rsv'[o][s].issued = rsv[o][s].issued
          /\ shelf' = shelf /\ location' = location
      BY <2>10, ReleaseEffect
    <3>2. Rem(rsv'[o], s) - Rem(rsv[o], s) = 0 - n
      BY <2>4, <2>6, <3>1 DEF Rem
    <3>3. Held(s)' = Held(s) - n
      BY <1>1, <2>3, <2>4, <3>2
    <3>4. QED
      BY <1>1, <2>4, <3>1, <3>3
  <2>11. QED
    BY <2>1, <2>7, <2>8, <2>9, <2>10 DEF Committing
<1>3. CASE ~\E w \in Workers : Committing(w)
  <2>1. Held(s)' = Held(s)
    BY <1>3, Aside, HeldIs
  <2>2. ASSUME NEW w \in Workers, NEW p, Learns(w, p)
        PROVE  shelf' = shelf /\ location' = location
    BY <2>2 DEF Learns
  <2>3. ASSUME NEW w \in Workers, Drop(w)
        PROVE  shelf' = shelf /\ location' = location
    BY <2>3 DEF Drop
  <2>4. ASSUME NEW x \in Slots, NEW n \in 0..MaxStock, ChangeShelf(x, n)
        PROVE  Held(s) <= shelf'[s].qty /\ location' = location
    <3>1. /\ shelf'[x].qty = n /\ n >= Held(x) /\ location' = location
          /\ \A y \in Slots : y # x => shelf'[y] = shelf[y]
      BY <2>4, ChangeShelfEffect
    <3>2. CASE s = x
      BY <1>1, <2>4, <3>1, <3>2
    <3>3. CASE s # x
      BY <1>1, <2>1, <3>1, <3>3
    <3>4. QED
      BY <3>2, <3>3
  <2>5. ASSUME NEW l \in Loans, NEW x \in Slots, NEW n \in 1..MaxStock, Return(l, x, n)
        PROVE  Held(s) <= shelf'[s].qty /\ location' = location
    <3>1. shelf'[s].qty >= shelf[s].qty /\ location' = location
          /\ shelf' \in [Slots -> [qty : Nat, ver : Nat]]
      BY <2>5, ReturnEffect
    <3>2. shelf'[s] \in [qty : Nat, ver : Nat]
      BY <3>1
    <3>3. shelf'[s].qty \in Nat
      BY <3>2
    <3>4. QED
      BY <1>1, <2>1, <3>1, <3>3
  <2>6. ASSUME NEW k \in Locations, CloseLocation(k)
        PROVE  shelf' = shelf /\ location'[s[2]] = location[s[2]]
    <3>1. s = <<s[1], s[2]>> /\ s[1] \in Materials /\ s[2] \in Locations
      BY DEF Slots
    <3>2. \A m \in Materials : Held(<<m, k>>) = 0
      BY <2>6 DEF CloseLocation
    <3>3. s[2] # k
      BY <1>1, <2>1, <3>1, <3>2
    <3>4. QED
      BY <2>6, <3>1, <3>3 DEF CloseLocation, TypeOK
  <2>7. ASSUME NEW k \in Locations, ReopenLocation(k)
        PROVE  shelf' = shelf /\ (location[s[2]] = "active" => location'[s[2]] = "active")
    BY <2>7 DEF ReopenLocation, TypeOK
  <2>8. CASE UNCHANGED vars
    BY <1>1, <2>1, <2>8 DEF vars
  <2>9. QED
    BY <1>1, <1>3, <2>1, <2>2, <2>3, <2>4, <2>5, <2>6, <2>7, <2>8, StepCases
<1>4. QED
  BY <1>2, <1>3

LEMMA LoansKept ==
    ASSUME TypeOK, OrdersSound, PlansKnown, UnusedLoansBlank, LoanCarriesOrder, [Next]_vars
    PROVE  UnusedLoansBlank' /\ LoanCarriesOrder'
<1>1. CASE \E w \in Workers : CommitIssue(w)
  <2>1. PICK w \in Workers : CommitIssue(w)
    BY <1>1
  <2> DEFINE o == handler[w].order
  <2>2. Advances(w) /\ o \in Orders
    BY <2>1, BatchAdvances DEF Committing
  <2>3. PICK l \in Loans :
          /\ order'[o].loan = l /\ LoanFor(handler[w], l)
          /\ loan'[l].status = "open"
          /\ \A m \in Materials : loan'[l].issued[m] = loan[l].issued[m] + OfTitle(handler[w].take)[m]
          /\ loan'[l].issued \in [Materials -> Nat]
          /\ \A k \in Loans : k # l => loan'[k] = loan[k]
    BY <2>1, IssueEffect
  <2>4. /\ handler[w].loan = order[o].loan
        /\ \A m \in Materials : order'[o].fulfilled[m] = order[o].fulfilled[m] + OfTitle(handler[w].take)[m]
    BY <2>1, IssueKeeps
  <2>5. /\ order[o] \in OrderType /\ order'[o] \in OrderType /\ Sound(o, order[o], rsv[o])
        /\ \A x \in Orders : x # o => order'[x] = order[x]
    BY <2>2, AnOrder DEF Advances
  <2>6. order'[o].fulfilled \in [Materials -> Nat] /\ order[o].fulfilled \in [Materials -> Nat]
    BY <2>5, OrderFields
  (* The loan carries exactly what the order had received. *)
  <2>7. /\ \A m \in Materials : loan[l].issued[m] = order[o].fulfilled[m]
        /\ \A x \in Orders : x # o => order[x].loan # l
    <3>1. CASE order[o].loan = NoLoan
      <4>1. loan[l].status = "none"
        BY <2>3, <2>4, <3>1 DEF LoanFor
      <4>2. \A m \in Materials : loan[l].issued[m] = 0
        BY <4>1 DEF UnusedLoansBlank
      <4>3. \A m \in Materials : order[o].fulfilled[m] = 0
        BY <2>5, <2>6, <3>1 DEF Sound, Told, Handed
      <4>4. QED
        BY <4>1, <4>2, <4>3 DEF UnusedLoansBlank
    <3>2. CASE order[o].loan # NoLoan
      <4>1. l = order[o].loan
        BY <2>3, <2>4, <3>2 DEF LoanFor
      <4>2. QED
        BY <2>2, <3>2, <4>1 DEF LoanCarriesOrder
    <3>3. QED
      BY <3>1, <3>2
  <2>8. loan'[l].issued = order'[o].fulfilled
    <3>1. \A m \in Materials : loan'[l].issued[m] = order'[o].fulfilled[m]
      BY <2>3, <2>4, <2>7
    <3>2. QED
      BY <2>3, <2>6, <3>1
  <2>9. UnusedLoansBlank'
    BY <2>3, <2>5, <2>7 DEF UnusedLoansBlank
  <2>10. LoanCarriesOrder'
    <3>1. \A x \in Orders : order'[x].loan # NoLoan => loan'[order'[x].loan].issued = order'[x].fulfilled
      <4> SUFFICES ASSUME NEW x \in Orders, order'[x].loan # NoLoan
                   PROVE  loan'[order'[x].loan].issued = order'[x].fulfilled
        OBVIOUS
      <4>1. CASE x = o
        BY <2>3, <2>8, <4>1
      <4>2. CASE x # o
        <5>1. order'[x] = order[x] /\ order[x].loan # l /\ order[x].loan \in Loans
          BY <2>5, <2>7, <4>2, AnOrder, OrderFields
        <5>2. loan'[order[x].loan] = loan[order[x].loan]
          BY <2>3, <5>1
        <5>3. QED
          BY <5>1, <5>2 DEF LoanCarriesOrder
      <4>3. QED
        BY <4>1, <4>2
    <3>2. \A x, y \in Orders : order'[x].loan = order'[y].loan => x = y \/ order'[x].loan = NoLoan
      BY <2>3, <2>5, <2>7 DEF LoanCarriesOrder
    <3>3. QED
      BY <3>1, <3>2 DEF LoanCarriesOrder
  <2>11. QED
    BY <2>9, <2>10
<1>2. CASE \E w \in Workers : Committing(w) /\ ~CommitIssue(w)
  <2>1. PICK w \in Workers : Committing(w) /\ ~CommitIssue(w)
    BY <1>2
  <2> DEFINE o == handler[w].order
  <2>2. Advances(w) /\ o \in Orders
    BY <2>1, BatchAdvances
  <2>3. order'[o].loan = order[o].loan /\ order'[o].fulfilled = order[o].fulfilled /\ loan' = loan
    BY <2>1, CreateEffect, TransitionEffect, ReadyEffect, ReleaseEffect DEF Committing
  <2>4. \A x \in Orders : order'[x].loan = order[x].loan /\ order'[x].fulfilled = order[x].fulfilled
    BY <2>2, <2>3 DEF Advances
  <2>5. QED
    BY <2>3, <2>4 DEF UnusedLoansBlank, LoanCarriesOrder
<1>3. CASE \E l \in Loans, s \in Slots, n \in 1..MaxStock : Return(l, s, n)
  <2>1. PICK l \in Loans : \E s \in Slots, n \in 1..MaxStock : Return(l, s, n)
    BY <1>3
  <2>2. /\ loan'[l].status # "none" /\ loan'[l].issued = loan[l].issued
        /\ \A k \in Loans : k # l => loan'[k] = loan[k]
        /\ order' = order
    BY <2>1, ReturnEffect
  <2>3. UnusedLoansBlank'
    BY <2>2 DEF UnusedLoansBlank
  <2>4. \A k \in Loans : loan'[k].issued = loan[k].issued
    BY <2>2
  <2>5. \A x \in Orders : order[x].loan # NoLoan => order[x].loan \in Loans
    BY AnOrder, OrderFields
  <2>6. LoanCarriesOrder'
    BY <2>2, <2>4, <2>5 DEF LoanCarriesOrder
  <2>7. QED
    BY <2>3, <2>6
<1>4. CASE /\ ~\E w \in Workers : Committing(w)
           /\ ~\E l \in Loans, s \in Slots, n \in 1..MaxStock : Return(l, s, n)
  <2>1. order' = order
    BY <1>4, Aside
  <2>2. loan' = loan
    <3>1. ASSUME NEW w \in Workers, NEW p, Learns(w, p) PROVE loan' = loan
      BY <3>1 DEF Learns
    <3>2. QED
      BY <1>4, <3>1, StepCases, ChangeShelfEffect DEF Drop, CloseLocation, ReopenLocation, vars
  <2>3. QED
    BY <2>1, <2>2 DEF UnusedLoansBlank, LoanCarriesOrder
<1>5. QED
  BY <1>1, <1>2, <1>3, <1>4

-----------------------------------------------------------------------------
(* The invariant *)

LEMMA AtFirst == Init => IInv
<1> SUFFICES ASSUME Init PROVE IInv
  OBVIOUS
<1>1. Nothing \in [Materials -> Nat] /\ \A m \in Materials : Nothing[m] = 0
  BY DEF Nothing
<1>2. TypeOK
  <2>1. order \in [Orders -> OrderType]
    BY <1>1 DEF Init, OrderType, Waiting, Prepared, Final
  <2>2. rsv \in [Orders -> [Slots -> ReservationType]]
    BY DEF Init, NoReservation, ReservationType
  <2>3. shelf \in [Slots -> [qty : Nat, ver : Nat]]
    <3>1. Row(MaxStock, 1) \in [qty : Nat, ver : Nat]
      BY BoundAssumption, RowType
    <3>2. QED
      BY <3>1 DEF Init
  <2>4. loan \in [Loans -> LoanType]
    BY <1>1 DEF Init, LoanType
  <2>5. QED
    BY <2>1, <2>2, <2>3, <2>4 DEF Init, TypeOK
<1>3. ASSUME NEW o \in Orders
      PROVE  /\ order[o] \in OrderType /\ rsv[o] \in Reservations
             /\ order[o].status = "none" /\ order[o].ver = 0 /\ order[o].loan = NoLoan
             /\ \A m \in Materials : order[o].approved[m] = 0 /\ order[o].fulfilled[m] = 0
             /\ \A s \in Slots : rsv[o][s] = NoReservation
  <2>1. order[o] \in OrderType /\ rsv[o] \in Reservations
    BY <1>2 DEF TypeOK, Reservations
  <2>2. order[o] = [status |-> "none", ver |-> 0, approved |-> Nothing,
                    fulfilled |-> Nothing, loan |-> NoLoan, pickup |-> NoPlace]
    BY DEF Init
  <2>3. QED
    BY <1>1, <2>1, <2>2 DEF Init
<1>4. OrdersSound
  <2> SUFFICES ASSUME NEW o \in Orders PROVE Sound(o, order[o], rsv[o])
    BY DEF OrdersSound
  <2>1. \A s \in Slots : /\ Rem(rsv[o], s) = 0 /\ RemOf(rsv[o])[s] = 0
                         /\ KeptOf(rsv[o])[s] = 0 /\ IssuedOf(rsv[o])[s] = 0
    BY <1>3 DEF Rem, RemOf, KeptOf, IssuedOf, NoReservation
  <2>2. \A m \in Materials : InTitle(KeptOf(rsv[o]), m) = 0 /\ InTitle(IssuedOf(rsv[o]), m) = 0
    <3>1. \A s \in Slots : KeptOf(rsv[o])[s] \in Nat /\ IssuedOf(rsv[o])[s] \in Nat
      BY <2>1
    <3>2. \A m \in Materials, p \in Locations : <<m, p>> \in Slots
      BY DEF Slots
    <3>3. QED
      BY <2>1, <3>1, <3>2, TitleBounds
  <2>3. Active(rsv[o]) = 0
    BY <2>1, AllBounds DEF Active
  <2>4. Books(o, order[o], rsv[o])
    BY <1>3, <2>1, <2>2, AskedIsNat DEF Books
  <2>5. ~Handed(order[o])
    BY <1>3 DEF Handed
  <2>6. Told(o, order[o], rsv[o])
    BY <1>3, <2>3, <2>5 DEF Told, Prepared, Waiting
  <2>7. QED
    BY <2>4, <2>6 DEF Sound
<1>5. PlansKnown
  BY DEF Init, PlansKnown
<1>6. UnusedLoansBlank /\ LoanCarriesOrder
  <2>1. \A l \in Loans : loan[l].status = "none" /\ loan[l].issued = Nothing
    BY DEF Init
  <2>2. QED
    BY <1>1, <1>3, <2>1, NoneAssumption DEF UnusedLoansBlank, LoanCarriesOrder
<1>7. PromiseOnShelf
  <2> SUFFICES ASSUME NEW s \in Slots PROVE Held(s) = 0
    BY DEF PromiseOnShelf
  <2> DEFINE f == [o \in Orders |-> Rem(rsv[o], s)]
  <2>1. \A o \in Orders : f[o] = 0
    BY <1>3 DEF Rem, NoReservation
  <2>2. Held(s) = Sum(f, Orders)
    BY HeldIs DEF HeldIn
  <2> HIDE DEF f
  <2>3. Sum(f, Orders) = 0
    BY <2>1, SumBounds, FiniteAssumption
  <2>4. QED
    BY <2>2, <2>3
<1>8. LimitKept
  <2>1. \A t : Live(t) = {}
    BY <1>3 DEF Live, Waiting, Prepared
  <2>2. Cardinality({}) = 0
    BY FS_EmptySet
  <2>3. QED
    BY <2>1, <2>2, BoundAssumption DEF LimitKept
<1>9. EachCommandOnce
  <2> DEFINE f == [o \in Orders |-> order[o].ver]
  <2>1. \A o \in Orders : f[o] = 0
    BY <1>3
  <2>2. SumFunction(f) = Sum(f, Orders)
    BY DEF SumFunction, Sum
  <2>3. {r \in Requests : command[r] = "completed"} = {}
    BY DEF Init
  <2>4. EachCommandOnce <=> SumFunction(f) = Cardinality({r \in Requests : command[r] = "completed"})
    BY DEF EachCommandOnce
  <2> HIDE DEF f
  <2>5. Sum(f, Orders) = 0
    BY <2>1, SumBounds, FiniteAssumption
  <2>6. QED
    BY <2>2, <2>3, <2>4, <2>5, FS_EmptySet
<1>10. QED
  BY <1>2, <1>4, <1>5, <1>6, <1>7, <1>8, <1>9 DEF IInv

LEMMA InAStep == IInv /\ [Next]_vars => IInv'
<1> SUFFICES ASSUME IInv, [Next]_vars PROVE IInv'
  OBVIOUS
<1>1. TypeOK' /\ OrdersSound' /\ PlansKnown'
  BY TypesKept, OrdersKept, PlansKept DEF IInv
<1>2. UnusedLoansBlank' /\ LoanCarriesOrder'
  BY LoansKept DEF IInv
<1>3. PromiseOnShelf' /\ LimitKept' /\ EachCommandOnce'
  BY PromiseKept, LimitStays, OnceKept DEF IInv
<1>4. QED
  BY <1>1, <1>2, <1>3 DEF IInv

LEMMA Always == Spec => []IInv
<1>1. Init => IInv
  BY AtFirst
<1>2. IInv /\ [Next]_vars => IInv'
  BY InAStep
<1>3. QED
  BY <1>1, <1>2, PTL DEF Spec

-----------------------------------------------------------------------------
(* What follows for the properties the runs check *)

(* Every table keeps rows of the right shape, whatever the handlers        *)
(* computed before: no stored quantity, reserved, issued, released or on a *)
(* shelf, ever becomes negative (teacher-material-request-store.ts).       *)
THEOREM RequestTypes == Spec => []TypeOK
<1>1. IInv => TypeOK
  BY DEF IInv
<1>2. QED
  BY <1>1, Always, PTL

(* The loan an order names carries exactly what the order received, and no *)
(* other order names it: issueMaterialRequest opens a loan once and every  *)
(* later handover appends to it under its version.                         *)
THEOREM LoanCarriesItsOrder == Spec => []LoanCarriesOrder
<1>1. IInv => LoanCarriesOrder
  BY DEF IInv
<1>2. QED
  BY <1>1, Always, PTL

(* Reserved copies of all orders together are on their shelf, at an open   *)
(* place, though every librarian counted the free copies before the batch: *)
(* the conditions inside the INSERT and the triggers on holdings and       *)
(* reservations suffice.                                                   *)
THEOREM PromisesOnShelf == Spec => []PromiseOnShelf
<1>1. IInv => PromiseOnShelf
  BY DEF IInv
<1>2. QED
  BY <1>1, Always, PTL

(* The count inside the INSERT keeps every teacher within the limit of     *)
(* live orders, however many create calls overlap.                         *)
THEOREM LimitAlwaysKept == Spec => []LimitKept
<1>1. IInv => LimitKept
  BY DEF IInv
<1>2. QED
  BY <1>1, Always, PTL

(* The changes of all orders are as many as the completed commands: the    *)
(* unique request id of mutation_commands makes retries harmless.          *)
THEOREM CommandsCountOnce == Spec => []EachCommandOnce
<1>1. IInv => EachCommandOnce
  BY DEF IInv
<1>2. QED
  BY <1>1, Always, PTL

LEMMA InvBooks == IInv => BooksBalance
<1> SUFFICES ASSUME IInv, NEW o \in Orders
             PROVE  /\ \A s \in Slots : Remaining(o, s) >= 0
                    /\ order[o].approved = OfTitle([s \in Slots |-> rsv[o][s].reserved - rsv[o][s].released])
                    /\ order[o].fulfilled = OfTitle([s \in Slots |-> rsv[o][s].issued])
  BY DEF BooksBalance
<1>1. order[o] \in OrderType /\ Books(o, order[o], rsv[o])
  BY AnOrder DEF IInv, Sound
<1>2. \A s \in Slots : Remaining(o, s) = Rem(rsv[o], s)
  BY DEF Remaining, Rem
<1>3. /\ order[o].approved = [m \in Materials |-> order[o].approved[m]]
      /\ order[o].fulfilled = [m \in Materials |-> order[o].fulfilled[m]]
  BY <1>1, OrderFields
<1>4. /\ \A m \in Materials : order[o].approved[m] = OfTitle(KeptOf(rsv[o]))[m]
      /\ \A m \in Materials : order[o].fulfilled[m] = OfTitle(IssuedOf(rsv[o]))[m]
  BY <1>1, TitleAt DEF Books
<1>5. order[o].approved = OfTitle(KeptOf(rsv[o])) /\ order[o].fulfilled = OfTitle(IssuedOf(rsv[o]))
  <2> DEFINE a == order[o].approved
             f == order[o].fulfilled
             k == KeptOf(rsv[o])
             i == IssuedOf(rsv[o])
  <2>1. a = [m \in Materials |-> a[m]] /\ f = [m \in Materials |-> f[m]]
    BY <1>3
  <2>2. OfTitle(k) = [m \in Materials |-> OfTitle(k)[m]] /\ OfTitle(i) = [m \in Materials |-> OfTitle(i)[m]]
    BY TitleDomain
  <2>3. (\A m \in Materials : a[m] = OfTitle(k)[m]) /\ (\A m \in Materials : f[m] = OfTitle(i)[m])
    BY <1>4
  <2> HIDE DEF a, f, k, i
  <2>4. a = OfTitle(k) /\ f = OfTitle(i)
    BY <2>1, <2>2, <2>3
  <2>5. QED
    BY <2>4 DEF a, f, k, i
<1>6. QED
  BY <1>1, <1>2, <1>5 DEF Books, KeptOf, IssuedOf

(* The quantities an order shows are the sums of its reservation rows,     *)
(* although items and reservations are written by separate statements of   *)
(* the batch, of which the one for items skips rows it finds wrong: under  *)
(* the version of the order it never has to skip one.                      *)
THEOREM BooksAlwaysBalance == Spec => []BooksBalance
BY InvBooks, Always, PTL

LEMMA InvHolding == IInv => PreparedIffHolding
<1> SUFFICES ASSUME IInv, NEW o \in Orders PROVE order[o].status \in Prepared <=> ActiveTotal(o) > 0
  BY DEF PreparedIffHolding
<1>1. Told(o, order[o], rsv[o])
  BY AnOrder DEF IInv, Sound
<1>2. QED
  BY <1>1, ActiveIs DEF Told

(* An order waits for collection exactly while copies are reserved for it, *)
(* whatever preparing, handing over and releasing overlapped.              *)
THEOREM PreparedOrdersHold == Spec => []PreparedIffHolding
BY InvHolding, Always, PTL

LEMMA InvWhole == IInv => ReadyMeansWhole
<1> SUFFICES ASSUME IInv, NEW o \in Orders, order[o].status \in Prepared
             PROVE  order[o].status = "ready" <=> WholeOrder(o, order[o].approved)
  BY DEF ReadyMeansWhole
<1>1. Told(o, order[o], rsv[o])
  BY AnOrder DEF IInv, Sound
<1>2. WholeOrder(o, order[o].approved) <=> Whole(o, order[o].approved)
  BY DEF Whole, WholeOrder
<1>3. QED
  BY <1>1, <1>2 DEF Told

(* "ready" and "partially_ready", which each of preparing, handing over    *)
(* and releasing computes anew before its batch, tell the truth.           *)
THEOREM ReadyIsWhole == Spec => []ReadyMeansWhole
BY InvWhole, Always, PTL

LEMMA InvOutcome == IInv => OutcomeTold
<1> SUFFICES ASSUME IInv, NEW o \in Orders
             PROVE  /\ order[o].status = "completed" => TotalOf(order[o].fulfilled) > 0
                    /\ order[o].status \in {"cancelled", "rejected"} => TotalOf(order[o].fulfilled) = 0
                    /\ order[o].loan # NoLoan <=> TotalOf(order[o].fulfilled) > 0
  BY DEF OutcomeTold
<1>1. order[o] \in OrderType /\ Told(o, order[o], rsv[o])
  BY AnOrder DEF IInv, Sound
<1>2. /\ TotalOf(order[o].fulfilled) > 0 <=> Handed(order[o])
      /\ TotalOf(order[o].fulfilled) = 0 <=> ~Handed(order[o])
  BY <1>1, HandedIs
<1>3. QED
  BY <1>1, <1>2 DEF Told

(* A completed order handed something over, a cancelled or rejected one    *)
(* nothing: the last release decides between them by what was fulfilled.   *)
THEOREM OutcomesTold == Spec => []OutcomeTold
BY InvOutcome, Always, PTL

LEMMA FinalStays ==
    ASSUME TypeOK, OrdersSound, PlansKnown, [Next]_vars, NEW o \in Orders, order[o].status \in Final
    PROVE  order'[o] = order[o] /\ rsv'[o] = rsv[o]
<1>1. CASE ~\E w \in Workers : Committing(w)
  BY <1>1, Aside
<1>2. CASE \E w \in Workers : Committing(w)
  <2>1. PICK w \in Workers : Committing(w)
    BY <1>2
  <2>2. Advances(w) /\ handler[w].order \in Orders
    BY <2>1, BatchAdvances
  <2>3. order[handler[w].order].status \in {"none"} \cup Waiting \cup Prepared
    BY <2>1, CreateEffect, TransitionEffect, ReadyEffect, IssueEffect, ReleaseEffect DEF Committing
  <2>4. o # handler[w].order
    BY <2>3 DEF Final, Waiting, Prepared
  <2>5. QED
    BY <2>2, <2>4 DEF Advances
<1>3. QED
  BY <1>1, <1>2

(* A finished order never changes again, although a handler that read it   *)
(* before may still be about to write.                                     *)
THEOREM FinalForever == Spec => FinalIsFinal
<1>1. IInv /\ [Next]_vars =>
        [\A o \in Orders : order[o].status \in Final => order'[o] = order[o] /\ rsv'[o] = rsv[o]]_vars
  BY FinalStays DEF IInv
<1>2. QED
  BY <1>1, Always, PTL DEF Spec, FinalIsFinal

-----------------------------------------------------------------------------
(* The store implements the lifecycle a teacher is promised *)

StageOf(st) ==
    CASE st = "none" -> "none"
      [] st \in Waiting -> "open"
      [] st \in Prepared -> "prepared"
      [] st = "completed" -> "served"
      [] OTHER -> "refused"
Promised == [o \in Orders |-> order[o].approved]
HandedOut == [o \in Orders |-> order[o].fulfilled]

LEMMA Stages ==
    /\ StageOf("none") = "none" /\ StageOf("completed") = "served"
    /\ \A st \in Waiting : StageOf(st) = "open"
    /\ \A st \in Prepared : StageOf(st) = "prepared"
    /\ \A st \in {"rejected", "cancelled"} : StageOf(st) = "refused"
BY DEF StageOf, Waiting, Prepared

LEMMA StageIs ==
    /\ Stage = [o \in Orders |-> StageOf(order[o].status)]
    /\ Stage' = [o \in Orders |-> StageOf(order'[o].status)]
BY DEF Stage, StageOf

(* A batch moves its order alone. *)
LEMMA OneMoves ==
    ASSUME NEW w \in Workers, Advances(w), NEW o \in Orders, o = handler[w].order
    PROVE  /\ Stage[o] = StageOf(order[o].status)
           /\ Promised[o] = order[o].approved /\ HandedOut[o] = order[o].fulfilled
           /\ Stage' = [Stage EXCEPT ![o] = StageOf(order'[o].status)]
           /\ Promised' = [Promised EXCEPT ![o] = order'[o].approved]
           /\ HandedOut' = [HandedOut EXCEPT ![o] = order'[o].fulfilled]
<1>1. \A x \in Orders : x # o => order'[x] = order[x]
  BY DEF Advances
<1>2. Stage[o] = StageOf(order[o].status)
  BY StageIs
<1>3. Promised[o] = order[o].approved /\ HandedOut[o] = order[o].fulfilled
  BY DEF Promised, HandedOut
<1>4. Stage' = [Stage EXCEPT ![o] = StageOf(order'[o].status)]
  <2> DEFINE f == [x \in Orders |-> StageOf(order[x].status)]
             g == [x \in Orders |-> StageOf(order'[x].status)]
  <2>1. \A x \in Orders : x # o => g[x] = f[x]
    BY <1>1
  <2>2. g[o] = StageOf(order'[o].status) /\ DOMAIN f = Orders /\ DOMAIN g = Orders
        /\ g = [x \in Orders |-> g[x]]
    OBVIOUS
  <2> HIDE DEF f, g
  <2>3. g = [f EXCEPT ![o] = StageOf(order'[o].status)]
    BY <2>1, <2>2
  <2>4. QED
    BY <2>3, StageIs DEF f, g
<1>5. Promised' = [Promised EXCEPT ![o] = order'[o].approved]
  BY <1>1 DEF Promised
<1>6. HandedOut' = [HandedOut EXCEPT ![o] = order'[o].fulfilled]
  BY <1>1 DEF HandedOut
<1>7. QED
  BY <1>2, <1>3, <1>4, <1>5, <1>6

LEMMA NoChange == ASSUME NEW f, NEW o \in DOMAIN f, f = [x \in DOMAIN f |-> f[x]]
                  PROVE  [f EXCEPT ![o] = f[o]] = f
OBVIOUS

LEMMA Shapes ==
    /\ Stage = [x \in DOMAIN Stage |-> Stage[x]] /\ DOMAIN Stage = Orders
    /\ Promised = [x \in DOMAIN Promised |-> Promised[x]] /\ DOMAIN Promised = Orders
    /\ HandedOut = [x \in DOMAIN HandedOut |-> HandedOut[x]] /\ DOMAIN HandedOut = Orders
BY DEF Stage, Promised, HandedOut

(* The quantities of a sound order are among those the lifecycle allows. *)
LEMMA WithinAsked ==
    ASSUME NEW o \in Orders, NEW q \in OrderType, NEW r \in Reservations, Sound(o, q, r)
    PROVE  /\ q.approved \in [Materials -> 0..MaxAsked] /\ q.fulfilled \in [Materials -> 0..MaxAsked]
           /\ \A m \in Materials : /\ q.fulfilled[m] <= q.approved[m] /\ q.approved[m] <= Asked[o][m]
                                   /\ q.fulfilled[m] \in Nat /\ q.approved[m] \in Nat
           /\ q.status \in Prepared <=> q.fulfilled # q.approved
<1>1. q.approved \in [Materials -> Nat] /\ q.fulfilled \in [Materials -> Nat]
  BY OrderFields
<1>2. ASSUME NEW m \in Materials
      PROVE  q.fulfilled[m] <= q.approved[m] /\ q.approved[m] <= Asked[o][m]
  <2>1. InTitle(RemOf(r), m) \in Nat /\ q.approved[m] = q.fulfilled[m] + InTitle(RemOf(r), m)
    BY BooksFacts DEF Sound
  <2>2. q.fulfilled[m] \in Nat
    BY <1>1
  <2>3. QED
    BY <2>1, <2>2 DEF Sound, Books
<1>3. ASSUME NEW m \in Materials PROVE q.approved[m] \in 0..MaxAsked /\ q.fulfilled[m] \in 0..MaxAsked
  <2>1. Asked[o][m] \in Nat /\ Asked[o][m] <= MaxAsked /\ MaxAsked \in Nat
    BY AskedAssumption
  <2>2. QED
    BY <1>1, <1>2, <2>1
<1>4. q.status \in Prepared <=> q.fulfilled # q.approved
  <2>1. /\ Active(r) \in Nat
        /\ Active(r) = 0 <=> \A m \in Materials : q.approved[m] = q.fulfilled[m]
    BY BooksFacts DEF Sound
  <2>2. q.fulfilled = q.approved <=> \A m \in Materials : q.approved[m] = q.fulfilled[m]
    BY <1>1
  <2>3. q.status \in Prepared <=> Active(r) > 0
    BY DEF Sound, Told
  <2>4. QED
    BY <2>1, <2>2, <2>3
<1>5. QED
  BY <1>1, <1>2, <1>3, <1>4

(* The lifecycle's actions, said of the store. *)
Moved(o, st, a, f) ==
    /\ Stage' = [Stage EXCEPT ![o] = st]
    /\ Promised' = [Promised EXCEPT ![o] = a]
    /\ HandedOut' = [HandedOut EXCEPT ![o] = f]

LEMMA IsPlace ==
    ASSUME NEW o \in Orders, Stage[o] = "none", Moved(o, "open", Promised[o], HandedOut[o])
    PROVE  Lifecycle!Place(o)
<1>1. Promised' = Promised /\ HandedOut' = HandedOut
  BY Shapes, NoChange DEF Moved
<1>2. QED
  BY <1>1 DEF Lifecycle!Place, Moved, Promised, HandedOut

LEMMA IsRefuse ==
    ASSUME NEW o \in Orders, Stage[o] = "open", Moved(o, "refused", Promised[o], HandedOut[o])
    PROVE  Lifecycle!Refuse(o)
<1>1. Promised' = Promised /\ HandedOut' = HandedOut
  BY Shapes, NoChange DEF Moved
<1>2. QED
  BY <1>1 DEF Lifecycle!Refuse, Moved, Promised, HandedOut

LEMMA IsPromise ==
    ASSUME NEW o \in Orders, NEW p, Stage[o] \in {"open", "prepared"},
           \A m \in Materials : Promised[o][m] <= p[m] /\ p[m] <= Asked[o][m],
           p # Promised[o], Moved(o, "prepared", p, HandedOut[o])
    PROVE  Lifecycle!Promise(o, p)
<1>1. HandedOut' = HandedOut
  BY Shapes, NoChange DEF Moved
<1>2. QED
  BY <1>1 DEF Lifecycle!Promise, Lifecycle!Within, Moved, Promised, HandedOut

LEMMA IsHandOver ==
    ASSUME NEW o \in Orders, NEW h, Stage[o] = "prepared",
           \A m \in Materials : HandedOut[o][m] <= h[m] /\ h[m] <= Promised[o][m],
           h # HandedOut[o],
           Moved(o, IF h = Promised[o] THEN "served" ELSE "prepared", Promised[o], h)
    PROVE  Lifecycle!HandOver(o, h)
<1>1. Promised' = Promised
  BY Shapes, NoChange DEF Moved
<1>2. QED
  BY <1>1 DEF Lifecycle!HandOver, Lifecycle!Within, Moved, Promised, HandedOut

LEMMA IsWithdraw ==
    ASSUME NEW o \in Orders, NEW p, Stage[o] = "prepared",
           \A m \in Materials : HandedOut[o][m] <= p[m] /\ p[m] <= Promised[o][m],
           p # Promised[o],
           Moved(o, IF p # HandedOut[o] THEN "prepared" ELSE IF p = Nothing THEN "refused" ELSE "served",
                 p, HandedOut[o])
    PROVE  Lifecycle!Withdraw(o, p)
<1>1. HandedOut' = HandedOut
  BY Shapes, NoChange DEF Moved
<1>2. Lifecycle!Nothing = Nothing
  BY DEF Lifecycle!Nothing, Nothing
<1>3. QED
  BY <1>1, <1>2 DEF Lifecycle!Withdraw, Lifecycle!Within, Moved, Promised, HandedOut

LEMMA IsStutter ==
    ASSUME NEW o \in Orders, Moved(o, Stage[o], Promised[o], HandedOut[o])
    PROVE  UNCHANGED Lifecycle!vars
<1>1. Stage' = Stage /\ Promised' = Promised /\ HandedOut' = HandedOut
  BY Shapes, NoChange DEF Moved
<1>2. QED
  BY <1>1 DEF Lifecycle!vars, Promised, HandedOut

LEMMA BatchMoves ==
    ASSUME TypeOK, OrdersSound, PlansKnown, NEW w \in Workers, Committing(w),
           NEW o, o = handler[w].order
    PROVE  /\ o \in Orders
           /\ Moved(o, StageOf(order'[o].status), order'[o].approved, order'[o].fulfilled)
           /\ Stage[o] = StageOf(order[o].status)
           /\ Promised[o] = order[o].approved /\ HandedOut[o] = order[o].fulfilled
           /\ order[o] \in OrderType /\ order'[o] \in OrderType
           /\ rsv[o] \in Reservations /\ rsv'[o] \in Reservations
           /\ Sound(o, order[o], rsv[o]) /\ Sound(o, order'[o], rsv'[o])
<1>1. Advances(w) /\ o \in Orders /\ Sound(o, order'[o], rsv'[o])
  BY BatchAdvances
<1>2. order'[o] \in OrderType /\ rsv'[o] \in Reservations
  BY <1>1 DEF Advances
<1>3. QED
  BY <1>1, <1>2, OneMoves, AnOrder DEF Moved

LEMMA CreateMaps ==
    ASSUME TypeOK, OrdersSound, PlansKnown, NEW w \in Workers, CommitCreate(w)
    PROVE  \E o \in Orders : Lifecycle!Place(o)
<1> DEFINE o == handler[w].order
<1>1. Committing(w)
  BY DEF Committing
<1>2. /\ order[o].status = "none" /\ order'[o].status = "submitted"
      /\ order'[o].approved = order[o].approved /\ order'[o].fulfilled = order[o].fulfilled
  BY CreateEffect
<1> HIDE DEF o
<1>3. /\ o \in Orders /\ Stage[o] = StageOf(order[o].status)
      /\ Moved(o, StageOf(order'[o].status), Promised[o], HandedOut[o])
  BY <1>1, <1>2, BatchMoves DEF o
<1>4. Stage[o] = "none" /\ StageOf(order'[o].status) = "open"
  BY <1>2, <1>3, Stages DEF Waiting
<1>5. QED
  BY <1>3, <1>4, IsPlace

LEMMA TransitionMaps ==
    ASSUME TypeOK, OrdersSound, PlansKnown, NEW w \in Workers, CommitTransition(w)
    PROVE  (\E o \in Orders : Lifecycle!Refuse(o)) \/ UNCHANGED Lifecycle!vars
<1> DEFINE o == handler[w].order
<1>1. Committing(w)
  BY DEF Committing
<1>2. /\ order[o].status \in Waiting /\ order'[o].status \in {"in_review", "rejected", "cancelled"}
      /\ order'[o].approved = order[o].approved /\ order'[o].fulfilled = order[o].fulfilled
  BY TransitionEffect, TransitionKeeps
<1> HIDE DEF o
<1>3. /\ o \in Orders /\ Stage[o] = StageOf(order[o].status)
      /\ Moved(o, StageOf(order'[o].status), Promised[o], HandedOut[o])
  BY <1>1, <1>2, BatchMoves DEF o
<1>4. Stage[o] = "open"
  BY <1>2, <1>3, Stages
<1>5. CASE order'[o].status = "in_review"
  <2>1. StageOf(order'[o].status) = "open"
    BY <1>5, Stages DEF Waiting
  <2>2. QED
    BY <1>3, <1>4, <2>1, IsStutter
<1>6. CASE order'[o].status \in {"rejected", "cancelled"}
  <2>1. StageOf(order'[o].status) = "refused"
    BY <1>6, Stages
  <2>2. QED
    BY <1>3, <1>4, <2>1, IsRefuse
<1>7. QED
  BY <1>2, <1>5, <1>6

LEMMA ReadyMaps ==
    ASSUME TypeOK, OrdersSound, PlansKnown, NEW w \in Workers, CommitReady(w),
           NEW o, o = handler[w].order, NEW p, p = order'[o].approved
    PROVE  \/ \E x \in Orders, q \in [Materials -> 0..MaxAsked] : Lifecycle!Promise(x, q)
           \/ UNCHANGED Lifecycle!vars
<1> DEFINE n == handler[w].take
<1>1. Committing(w) /\ n \in Quantities
  BY APlan, BatchAdvances DEF Committing, Begins, CommitReady
<1>2. /\ order[o].status \in Waiting \cup Prepared /\ order'[o].status \in {"ready", "partially_ready"}
      /\ order'[o].fulfilled = order[o].fulfilled
      /\ \A m \in Materials : p[m] = order[o].approved[m] + InTitle(n, m)
  BY ReadyEffect, ReadyKeeps
<1>3. /\ o \in Orders /\ Stage[o] = StageOf(order[o].status)
      /\ Promised[o] = order[o].approved
      /\ HandedOut[o] = order[o].fulfilled
      /\ Stage' = [Stage EXCEPT ![o] = StageOf(order'[o].status)]
      /\ Promised' = [Promised EXCEPT ![o] = p]
      /\ HandedOut' = [HandedOut EXCEPT ![o] = HandedOut[o]]
      /\ order[o] \in OrderType /\ order'[o] \in OrderType
      /\ rsv[o] \in Reservations /\ rsv'[o] \in Reservations
      /\ Sound(o, order[o], rsv[o]) /\ Sound(o, order'[o], rsv'[o])
  BY <1>1, <1>2, BatchMoves DEF Moved
<1>4. StageOf(order'[o].status) = "prepared" /\ order'[o].status \in Prepared
  BY <1>2, Stages DEF Prepared
<1>5. Stage[o] \in {"open", "prepared"} /\ (order[o].status \in Prepared => Stage[o] = "prepared")
  BY <1>2, <1>3, Stages
<1>6. \A m \in Materials : InTitle(n, m) \in Nat
  BY <1>1, TitleBounds DEF Quantities
<1>7. /\ p \in [Materials -> 0..MaxAsked]
      /\ \A m \in Materials : p[m] <= Asked[o][m]
      /\ order'[o].fulfilled # p
      /\ \A m \in Materials : order[o].approved[m] \in Nat
  BY <1>3, <1>4, WithinAsked
<1>8. \A m \in Materials : order[o].approved[m] <= p[m]
  BY <1>2, <1>6, <1>7
<1>9. p = order[o].approved => order[o].status \in Prepared
  BY <1>2, <1>3, <1>7, WithinAsked
<1>10. CASE p = Promised[o]
  <2>1. Moved(o, Stage[o], Promised[o], HandedOut[o])
    BY <1>3, <1>4, <1>5, <1>9, <1>10 DEF Moved
  <2>2. QED
    BY <1>3, <2>1, IsStutter
<1>11. CASE p # Promised[o]
  <2>1. Moved(o, "prepared", p, HandedOut[o])
    BY <1>3, <1>4 DEF Moved
  <2>2. Lifecycle!Promise(o, p)
    <3>1. \A m \in Materials : Promised[o][m] <= p[m] /\ p[m] <= Asked[o][m]
      BY <1>3, <1>7, <1>8
    <3>2. o \in Orders /\ Stage[o] \in {"open", "prepared"}
      BY <1>3, <1>5
    <3>3. QED
      BY <1>11, <2>1, <3>1, <3>2, IsPromise
  <2>3. QED
    BY <1>3, <1>7, <2>2
<1>12. QED
  BY <1>10, <1>11

LEMMA IssueMaps ==
    ASSUME TypeOK, OrdersSound, PlansKnown, NEW w \in Workers, CommitIssue(w),
           NEW o, o = handler[w].order, NEW h, h = order'[o].fulfilled
    PROVE  \E x \in Orders, q \in [Materials -> 0..MaxAsked] : Lifecycle!HandOver(x, q)
<1> DEFINE n == handler[w].take
<1>1. Committing(w) /\ n \in Quantities /\ PlanFine(handler[w]) /\ handler[w].op = "issue"
  BY APlan, BatchAdvances, IssueEffect DEF Committing, Begins, CommitIssue, PlanKnown
<1>2. /\ order[o].status \in Prepared
      /\ order'[o].status \in {"completed", "ready", "partially_ready"}
      /\ order'[o].approved = order[o].approved
      /\ \A m \in Materials : h[m] = order[o].fulfilled[m] + OfTitle(n)[m]
  BY IssueEffect, IssueKeeps
<1>3. /\ o \in Orders /\ Stage[o] = StageOf(order[o].status)
      /\ Promised[o] = order[o].approved /\ HandedOut[o] = order[o].fulfilled
      /\ Stage' = [Stage EXCEPT ![o] = StageOf(order'[o].status)]
      /\ Promised' = [Promised EXCEPT ![o] = Promised[o]]
      /\ HandedOut' = [HandedOut EXCEPT ![o] = h]
      /\ order[o] \in OrderType /\ order'[o] \in OrderType
      /\ rsv[o] \in Reservations /\ rsv'[o] \in Reservations
      /\ Sound(o, order[o], rsv[o]) /\ Sound(o, order'[o], rsv'[o])
  BY <1>1, <1>2, BatchMoves DEF Moved
<1>4. /\ h \in [Materials -> 0..MaxAsked]
      /\ \A m \in Materials : /\ h[m] <= order'[o].approved[m]
                              /\ h[m] \in Nat /\ order[o].fulfilled[m] \in Nat
      /\ order'[o].status \in Prepared <=> h # order'[o].approved
  BY <1>3, WithinAsked
<1>5. \A m \in Materials : OfTitle(n)[m] = InTitle(n, m) /\ InTitle(n, m) \in Nat
  BY <1>1, TitleAt, TitleBounds DEF Quantities
<1>6. \E m \in Materials : InTitle(n, m) # 0
  <2>1. \E s \in Slots : n[s] # 0
    BY <1>1 DEF PlanFine
  <2>2. QED
    BY <1>1, <2>1, AllBounds DEF Quantities
<1>7. /\ \A m \in Materials : HandedOut[o][m] <= h[m] /\ h[m] <= Promised[o][m]
      /\ h # HandedOut[o]
  <2> DEFINE f == order[o].fulfilled
             p == order[o].approved
  <2>1. /\ HandedOut[o] = f /\ Promised[o] = p
        /\ \A m \in Materials : h[m] <= p[m]
    BY <1>2, <1>3, <1>4
  <2>2. \A m \in Materials : /\ f[m] \in Nat /\ InTitle(n, m) \in Nat
                             /\ h[m] = f[m] + InTitle(n, m)
    BY <1>2, <1>4, <1>5
  <2> HIDE DEF f, p
  <2>3. \A m \in Materials : f[m] <= h[m]
    BY <2>2
  <2>4. h # f
    BY <1>6, <2>2
  <2>5. QED
    BY <2>1, <2>3, <2>4
<1>8. Stage[o] = "prepared"
  BY <1>2, <1>3, Stages
<1>9. StageOf(order'[o].status) = IF h = Promised[o] THEN "served" ELSE "prepared"
  <2>1. order'[o].status \in Prepared <=> h # Promised[o]
    BY <1>2, <1>3, <1>4
  <2>2. order'[o].status \notin Prepared => order'[o].status = "completed"
    BY <1>2 DEF Prepared
  <2>3. QED
    BY <2>1, <2>2, Stages
<1>10. Lifecycle!HandOver(o, h)
  <2>1. Moved(o, IF h = Promised[o] THEN "served" ELSE "prepared", Promised[o], h)
    BY <1>3, <1>9 DEF Moved
  <2>2. QED
    BY <1>3, <1>7, <1>8, <2>1, IsHandOver
<1>11. QED
  BY <1>3, <1>4, <1>10

LEMMA ReleaseMaps ==
    ASSUME TypeOK, OrdersSound, PlansKnown, NEW w \in Workers, CommitRelease(w),
           NEW o, o = handler[w].order, NEW p, p = order'[o].approved
    PROVE  \E x \in Orders, q \in [Materials -> 0..MaxAsked] : Lifecycle!Withdraw(x, q)
<1> DEFINE n == handler[w].take
<1>1. Committing(w) /\ n \in Quantities /\ PlanFine(handler[w]) /\ handler[w].op = "release"
  BY APlan, BatchAdvances, ReleaseEffect DEF Committing, Begins, CommitRelease, PlanKnown
<1>2. /\ order[o].status \in Prepared
      /\ order'[o].status \in {"completed", "cancelled", "ready", "partially_ready"}
      /\ order'[o].fulfilled = order[o].fulfilled
      /\ \A m \in Materials : p[m] = order[o].approved[m] - InTitle(n, m)
  BY ReleaseEffect, ReleaseKeeps
<1>3. /\ o \in Orders /\ Stage[o] = StageOf(order[o].status)
      /\ Promised[o] = order[o].approved /\ HandedOut[o] = order[o].fulfilled
      /\ Stage' = [Stage EXCEPT ![o] = StageOf(order'[o].status)]
      /\ Promised' = [Promised EXCEPT ![o] = p]
      /\ HandedOut' = [HandedOut EXCEPT ![o] = HandedOut[o]]
      /\ order[o] \in OrderType /\ order'[o] \in OrderType
      /\ rsv[o] \in Reservations /\ rsv'[o] \in Reservations
      /\ Sound(o, order[o], rsv[o]) /\ Sound(o, order'[o], rsv'[o])
  BY <1>1, <1>2, BatchMoves DEF Moved
<1>4. /\ p \in [Materials -> 0..MaxAsked]
      /\ \A m \in Materials : /\ order'[o].fulfilled[m] <= p[m]
                              /\ p[m] \in Nat /\ order[o].approved[m] \in Nat
                              /\ order[o].fulfilled[m] \in Nat
      /\ order'[o].status \in Prepared <=> order'[o].fulfilled # p
      /\ p = [m \in Materials |-> p[m]]
  BY <1>3, WithinAsked, OrderFields
<1>5. \A m \in Materials : InTitle(n, m) \in Nat
  BY <1>1, TitleBounds DEF Quantities
<1>6. \E m \in Materials : InTitle(n, m) # 0
  <2>1. \E s \in Slots : n[s] # 0
    BY <1>1 DEF PlanFine
  <2>2. QED
    BY <1>1, <2>1, AllBounds DEF Quantities
<1>7. /\ \A m \in Materials : HandedOut[o][m] <= p[m] /\ p[m] <= Promised[o][m]
      /\ p # Promised[o]
  <2>1. \A m \in Materials : HandedOut[o][m] <= p[m]
    BY <1>2, <1>3, <1>4
  <2>2. \A m \in Materials : p[m] <= order[o].approved[m]
    BY <1>2, <1>4, <1>5, SMTT(20)
  <2>3. \E m \in Materials : p[m] # order[o].approved[m]
    BY <1>2, <1>4, <1>5, <1>6, SMTT(20)
  <2>4. QED
    BY <1>3, <2>1, <2>2, <2>3
<1>8. Stage[o] = "prepared"
  BY <1>2, <1>3, Stages
<1>9. StageOf(order'[o].status) = IF p # HandedOut[o] THEN "prepared"
                                  ELSE IF p = Nothing THEN "refused" ELSE "served"
  <2>1. order'[o].status \in Prepared <=> p # HandedOut[o]
    BY <1>2, <1>3, <1>4
  <2>2. CASE p # HandedOut[o]
    BY <2>1, <2>2, Stages
  <2>3. CASE p = HandedOut[o]
    <3>1. order'[o].status \in {"completed", "cancelled"}
      BY <1>2, <2>1, <2>3 DEF Prepared
    <3>2. Handed(order'[o]) <=> p # Nothing
      <4>1. order'[o].fulfilled = p
        BY <1>2, <1>3, <2>3
      <4>2. p = Nothing <=> \A m \in Materials : p[m] = 0
        BY <1>4 DEF Nothing
      <4>3. (\A m \in Materials : p[m] = 0) <=> ~\E m \in Materials : p[m] > 0
        BY <1>4
      <4>4. QED
        BY <4>1, <4>2, <4>3 DEF Handed
    <3>3. order'[o].status = "completed" <=> Handed(order'[o])
      BY <1>3, <3>1 DEF Sound, Told
    <3>4. QED
      BY <2>3, <3>1, <3>2, <3>3, Stages
  <2>4. QED
    BY <2>2, <2>3
<1>10. Lifecycle!Withdraw(o, p)
  <2>1. Moved(o, IF p # HandedOut[o] THEN "prepared" ELSE IF p = Nothing THEN "refused" ELSE "served",
              p, HandedOut[o])
    BY <1>3, <1>9 DEF Moved
  <2>2. QED
    BY <1>3, <1>7, <1>8, <2>1, IsWithdraw
<1>11. QED
  BY <1>3, <1>4, <1>10

LEMMA InitMaps == Init => Lifecycle!Init
<1> SUFFICES ASSUME Init PROVE Lifecycle!Init
  OBVIOUS
<1>1. \A o \in Orders : /\ order[o].status = "none" /\ order[o].approved = Nothing
                        /\ order[o].fulfilled = Nothing
  BY DEF Init
<1>2. Stage = [o \in Orders |-> "none"]
  BY <1>1, StageIs, Stages
<1>3. QED
  BY <1>1, <1>2 DEF Lifecycle!Init, Lifecycle!Nothing, Nothing

LEMMA NextMaps ==
    ASSUME TypeOK, OrdersSound, PlansKnown, [Next]_vars
    PROVE  [Lifecycle!Next]_(Lifecycle!vars)
<1>1. CASE \E w \in Workers : Committing(w)
  <2>1. PICK w \in Workers : Committing(w)
    BY <1>1
  <2>2. CASE CommitCreate(w)
    BY <2>2, CreateMaps DEF Lifecycle!Next
  <2>3. CASE CommitTransition(w)
    BY <2>3, TransitionMaps DEF Lifecycle!Next
  <2>4. CASE CommitReady(w)
    BY <2>4, ReadyMaps DEF Lifecycle!Next
  <2>5. CASE CommitIssue(w)
    BY <2>5, IssueMaps DEF Lifecycle!Next
  <2>6. CASE CommitRelease(w)
    BY <2>6, ReleaseMaps DEF Lifecycle!Next
  <2>7. QED
    BY <2>1, <2>2, <2>3, <2>4, <2>5, <2>6 DEF Committing
<1>2. CASE ~\E w \in Workers : Committing(w)
  <2>1. order' = order
    BY <1>2, Aside
  <2>2. Stage' = Stage
    BY <2>1, StageIs
  <2>3. QED
    BY <2>1, <2>2 DEF Lifecycle!vars
<1>3. QED
  BY <1>1, <1>2

(* The order tables implement OrderLifecycle: each batch of the store is   *)
(* one step a teacher can be told of, or none, whatever is interleaved.    *)
THEOREM StoreImplementsLifecycle == Spec => ImplementsLifecycle
<1>1. Init => Lifecycle!Init
  BY InitMaps
<1>2. IInv /\ [Next]_vars => [Lifecycle!Next]_(Lifecycle!vars)
  BY NextMaps DEF IInv
<1>3. QED
  BY <1>1, <1>2, Always, PTL DEF Spec, ImplementsLifecycle, Lifecycle!Spec
===============================================================================
