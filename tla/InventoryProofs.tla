--------------------------- MODULE InventoryProofs ---------------------------
(***************************************************************************)
(* Proofs that the safety properties of Inventory hold for any number of   *)
(* titles, places, loans, requests and concurrently running handlers.  The *)
(* last part proves that the copies of a title, on the shelves and with    *)
(* the teachers, are exactly those its opening stock, receipts, counts and *)
(* write-offs account for: the quantities are sums over places and loans,  *)
(* and what a step does to one summand is lifted to the sums with the      *)
(* facts of SumTheorems.                                                   *)
(***************************************************************************)
EXTENDS Inventory, SumTheorems

-----------------------------------------------------------------------------
(* Plans *)

LEMMA RowTyped == \A n \in Nat, v \in Nat : Row(n, v) \in RowType /\ Row(n, v).qty = n
  BY DEF Row, RowType, NoRow

LEMMA StockPlanTyped ==
  ASSUME TypeOK, NEW kind \in Ops, NEW r \in Requests, NEW S \in SUBSET Slots,
         NEW d, \A s \in S : d[s] \in Int
  PROVE  StockPlan(kind, r, S, d) \in Plan
  <1>1. MaterialsOf(S) \in SUBSET Materials
    BY DEF MaterialsOf, Slots
  <1>2. [s \in Slots |-> IF s \in S THEN holding[s] ELSE NoRow] \in [Slots -> RowType]
    BY DEF TypeOK, NoRow, RowType
  <1>3. [s \in Slots |-> IF s \in S THEN d[s] ELSE 0] \in [Slots -> Int]
    OBVIOUS
  <1>4. Zero \in [Materials -> Nat]
    BY DEF Zero
  <1> QED
    BY <1>1, <1>2, <1>3, <1>4 DEF StockPlan, Plan

LEMMA BasketTyped ==
  ASSUME NEW M \in SUBSET Materials, NEW at \in [M -> Locations], NEW n \in [M -> 1..MaxMove]
  PROVE  /\ Basket(at) \in SUBSET Slots
         /\ \A s \in Basket(at) : s[1] \in M /\ n[s[1]] \in Nat /\ -n[s[1]] \in Int
         /\ MaterialsOf(Basket(at)) = M
         /\ Quantities(n) \in [Materials -> Nat]
         /\ \A m \in M : Quantities(n)[m] > 0
         /\ \A m \in Materials : Quantities(n)[m] > 0 => m \in M
  <1>1. Basket(at) = {<<m, at[m]>> : m \in M}
    BY DEF Basket
  <1>2. \A m \in M : <<m, at[m]>> \in Slots /\ <<m, at[m]>>[1] = m
    BY DEF Slots
  <1>3. Quantities(n) = [m \in Materials |-> IF m \in M THEN n[m] ELSE 0]
    BY DEF Quantities
  <1>4. \A m \in M : n[m] \in Nat /\ n[m] > 0 /\ -n[m] \in Int
    BY BoundAssumption
  <1>5. MaterialsOf(Basket(at)) = M
    <2>1. \A s \in Basket(at) : s[1] \in M
      BY <1>1, <1>2
    <2>2. ASSUME NEW m \in M  PROVE \E s \in Basket(at) : s[1] = m
      BY <1>1, <1>2
    <2> QED
      BY <2>1, <2>2 DEF MaterialsOf
  <1>6. /\ Quantities(n) \in [Materials -> Nat]
        /\ \A m \in M : Quantities(n)[m] > 0
        /\ \A m \in Materials : Quantities(n)[m] > 0 => m \in M
    BY <1>3, <1>4
  <1>7. Basket(at) \in SUBSET Slots /\ \A s \in Basket(at) : s[1] \in M
    BY <1>1, <1>2
  <1> QED
    BY <1>4, <1>5, <1>6, <1>7

(* Every read part of a handler leaves the tables alone and yields a plan  *)
(* that is well formed and, if it is a return's, true of its loan.         *)
Sound(p) == p # Idle => PlanWellFormed(p) /\ (p.op = "return" => ReturnAccurate(p))

LEMMA PlanningSound ==
  ASSUME TypeOK, PlansKnown, NEW w \in Workers, Planning(w) \/ Drop(w)
  PROVE  /\ UNCHANGED <<material, location, stock, command, effects>>
         /\ \E p \in Plan \cup {Idle} : handler' = [handler EXCEPT ![w] = p] /\ Sound(p)
  <1> USE DEF Plans
  <1>0. ASSUME NEW kind \in Ops \ {"issue", "return"}, NEW r \in Requests,
               NEW S \in SUBSET Slots, NEW d, \A s \in S : d[s] \in Int
        PROVE  StockPlan(kind, r, S, d) \in Plan /\ Sound(StockPlan(kind, r, S, d))
    <2>1. StockPlan(kind, r, S, d) \in Plan
      BY <1>0, StockPlanTyped
    <2>2. PlanWellFormed(StockPlan(kind, r, S, d)) /\ StockPlan(kind, r, S, d).op # "return"
      BY <1>0 DEF PlanWellFormed, StockPlan, Zero, MaterialsOf, Ops
    <2> QED
      BY <2>1, <2>2 DEF Sound
  <1>1. ASSUME NEW r \in Requests, PlanReceive(w, r)
        PROVE  \E p \in Plan : Plans(w, p) /\ Sound(p)
    <2>1. PICK s \in Slots, n \in 1..MaxMove : Plans(w, StockPlan("receive", r, {s}, [x \in {s} |-> n]))
      BY <1>1 DEF PlanReceive
    <2>2. \A x \in {s} : [y \in {s} |-> n][x] \in Int
      BY BoundAssumption
    <2> QED
      BY <1>0, <2>1, <2>2 DEF Ops
  <1>2. ASSUME NEW r \in Requests, PlanCount(w, r)
        PROVE  \E p \in Plan : Plans(w, p) /\ Sound(p)
    <2>1. PICK s \in Slots, c \in 0..MaxFund :
               Plans(w, StockPlan("count", r, {s}, [x \in {s} |-> c - holding[s].qty]))
      BY <1>2 DEF PlanCount
    <2>2. \A x \in {s} : [y \in {s} |-> c - holding[s].qty][x] \in Int
      BY BoundAssumption DEF TypeOK, RowType
    <2> QED
      BY <1>0, <2>1, <2>2 DEF Ops
  <1>3. ASSUME NEW r \in Requests, PlanTransfer(w, r)
        PROVE  \E p \in Plan : Plans(w, p) /\ Sound(p)
    <2>1. PICK m \in Materials, from, to \in Locations, n \in 1..MaxMove :
               Plans(w, StockPlan("transfer", r, {<<m, from>>, <<m, to>>}, Shift(m, from, to, n)))
      BY <1>3 DEF PlanTransfer
    <2> DEFINE S == {<<m, from>>, <<m, to>>}
    <2>2. S \in SUBSET Slots
      BY DEF Slots
    <2>3. \A s \in S : Shift(m, from, to, n)[s] \in Int
      BY BoundAssumption DEF Shift
    <2> QED
      BY <1>0, <2>1, <2>2, <2>3 DEF Ops
  <1>4. ASSUME NEW r \in Requests, PlanWriteOff(w, r)
        PROVE  \E p \in Plan : Plans(w, p) /\ Sound(p)
    <2>1. PICK s \in Slots, n \in 1..MaxMove : Plans(w, StockPlan("writeoff", r, {s}, [x \in {s} |-> -n]))
      BY <1>4 DEF PlanWriteOff
    <2>2. \A x \in {s} : [y \in {s} |-> -n][x] \in Int
      BY BoundAssumption
    <2> QED
      BY <1>0, <2>1, <2>2 DEF Ops
  <1>5. ASSUME NEW r \in Requests, PlanIssue(w, r)
        PROVE  \E p \in Plan : Plans(w, p) /\ Sound(p)
    <2>1. PICK M \in (SUBSET Materials) \ {{}} : \E at \in [M -> Locations], n \in [M -> 1..MaxMove] :
               Plans(w, [StockPlan("issue", r, Basket(at), [s \in Basket(at) |-> -n[s[1]]])
                         EXCEPT !.qty = Quantities(n)])
      BY <1>5 DEF PlanIssue
    <2>2. PICK at \in [M -> Locations], n \in [M -> 1..MaxMove] :
               Plans(w, [StockPlan("issue", r, Basket(at), [s \in Basket(at) |-> -n[s[1]]])
                         EXCEPT !.qty = Quantities(n)])
      BY <2>1
    <2> DEFINE b == StockPlan("issue", r, Basket(at), [s \in Basket(at) |-> -n[s[1]]])
               p == [b EXCEPT !.qty = Quantities(n)]
    <2>3. b \in Plan
      BY BasketTyped, StockPlanTyped DEF Ops
    <2>4. p \in Plan
      BY <2>3, BasketTyped DEF Plan
    <2>5. p.op = "issue" /\ p.mats = M /\ p.touch = Basket(at) /\ p.qty = Quantities(n)
      BY BasketTyped DEF StockPlan
    <2> HIDE DEF p
    <2>6. PlanWellFormed(p)
      <3>1. \A s \in p.touch : s[1] \in p.mats
        BY <2>5, BasketTyped
      <3>2. \A m \in Materials : p.qty[m] > 0 => m \in p.mats
        BY <2>5, BasketTyped
      <3>3. \A m \in M : p.qty[m] > 0
        BY <2>5, BasketTyped
      <3>4. M # {} /\ p.op # "return"
        BY <2>5
      <3> QED
        BY <2>5, <3>1, <3>2, <3>3, <3>4 DEF PlanWellFormed
    <2>7. Sound(p)
      BY <2>5, <2>6 DEF Sound
    <2> QED
      BY <2>2, <2>4, <2>7 DEF p
  <1>6. ASSUME NEW r \in Requests, ReadLoan(w, r)
        PROVE  \E p \in Plan : Plans(w, p) /\ Sound(p)
    <2>1. PICK l \in Loans :
            /\ loan[l].status = "open"
            /\ Plans(w, [StockPlan("return", r, {}, <<>>)
                         EXCEPT !.stage = "loan", !.loan = l, !.loanVer = loan[l].ver])
      BY <1>6 DEF ReadLoan
    <2> DEFINE b == StockPlan("return", r, {}, <<>>)
               p == [b EXCEPT !.stage = "loan", !.loan = l, !.loanVer = loan[l].ver]
    <2>2. b \in Plan
      BY StockPlanTyped DEF Ops
    <2>3. loan[l].ver \in Nat
      BY DEF TypeOK, LoanType
    <2>4. p \in Plan
      BY <2>2, <2>3 DEF Plan
    <2>5. /\ p.op = "return" /\ p.stage = "loan" /\ p.touch = {} /\ p.qty = Zero
          /\ p.loan = l /\ p.loanVer = loan[l].ver
      BY DEF StockPlan
    <2>6. PlanWellFormed(p)
      BY <2>5 DEF PlanWellFormed, Zero
    <2>7. ReturnAccurate(p)
      BY <2>1, <2>3, <2>5 DEF ReturnAccurate
    <2> QED
      BY <2>1, <2>4, <2>6, <2>7 DEF Sound
  <1>7. ASSUME PlanReturn(w)
        PROVE  \E p \in Plan : Plans(w, p) /\ Sound(p)
    <2> DEFINE q == handler[w]
    <2>1. /\ q \in Plan /\ q.stage = "loan"
          /\ PlanWellFormed(q)
          /\ q.op = "return" => ReturnAccurate(q)
      BY <1>7 DEF PlanReturn, TypeOK, PlansKnown
    <2>2. PICK M \in (SUBSET Materials) \ {{}} : \E at \in [M -> Locations], n \in [M -> 1..MaxMove] :
               Plans(w, [StockPlan("return", q.req, Basket(at), [s \in Basket(at) |-> n[s[1]]])
                     EXCEPT !.loan = q.loan, !.loanVer = q.loanVer,
                            !.qty = Quantities(n), !.given = loan[q.loan].returned,
                            !.closes = \A m \in Materials :
                                Quantities(n)[m] = Outstanding(q.loan, m)])
      BY <1>7 DEF PlanReturn
    <2>3. PICK at \in [M -> Locations], n \in [M -> 1..MaxMove] :
               Plans(w, [StockPlan("return", q.req, Basket(at), [s \in Basket(at) |-> n[s[1]]])
                     EXCEPT !.loan = q.loan, !.loanVer = q.loanVer,
                            !.qty = Quantities(n), !.given = loan[q.loan].returned,
                            !.closes = \A m \in Materials :
                                Quantities(n)[m] = Outstanding(q.loan, m)])
      BY <2>2
    <2> DEFINE b == StockPlan("return", q.req, Basket(at), [s \in Basket(at) |-> n[s[1]]])
               c == \A m \in Materials : Quantities(n)[m] = Outstanding(q.loan, m)
               p == [b EXCEPT !.loan = q.loan, !.loanVer = q.loanVer,
                              !.qty = Quantities(n), !.given = loan[q.loan].returned,
                              !.closes = c]
    <2>4. q.req \in Requests /\ q.loanVer \in Nat /\ q.op = "return"
      BY <1>7, <2>1 DEF Plan, PlanReturn
    <2>5. q.loan \in Loans /\ loan[q.loan].returned \in [Materials -> Nat]
      BY <2>1, <2>4 DEF PlanWellFormed, TypeOK, LoanType
    <2>6. b \in Plan
      <3>1. Basket(at) \in SUBSET Slots /\ \A s \in Basket(at) : [x \in Basket(at) |-> n[x[1]]][s] \in Int
        BY BasketTyped
      <3> QED
        BY <2>4, <3>1, StockPlanTyped DEF Ops
    <2>7. c \in BOOLEAN
      OBVIOUS
    <2> HIDE DEF c
    <2>8. p \in Plan
      BY <2>4, <2>5, <2>6, <2>7, BasketTyped DEF Plan
    <2>9. /\ p.op = "return" /\ p.stage = "ready" /\ p.mats = M /\ p.touch = Basket(at)
          /\ p.qty = Quantities(n) /\ p.loan = q.loan /\ p.loanVer = q.loanVer /\ p.closes = c
      BY BasketTyped DEF StockPlan
    <2> HIDE DEF p
    <2>10. PlanWellFormed(p)
      <3>1. \A s \in p.touch : s[1] \in p.mats
        BY <2>9, BasketTyped
      <3>2. \A m \in Materials : p.qty[m] > 0 => m \in p.mats
        BY <2>9, BasketTyped
      <3>3. \A m \in M : p.qty[m] > 0
        BY <2>9, BasketTyped
      <3>4. M # {}
        OBVIOUS
      <3> QED
        BY <2>5, <2>9, <3>1, <3>2, <3>3, <3>4 DEF PlanWellFormed
    <2>11. ReturnAccurate(p)
      BY <2>1, <2>4, <2>9 DEF ReturnAccurate, c
    <2> QED
      BY <2>3, <2>8, <2>9, <2>10, <2>11 DEF Sound, p, c
  <1>8. ASSUME NEW r \in Requests, PlanArchive(w, r)
        PROVE  \E p \in Plan : Plans(w, p) /\ Sound(p)
    <2>1. PICK m \in Materials :
               Plans(w, [StockPlan("archive", r, {}, <<>>) EXCEPT !.mats = {m}])
      BY <1>8 DEF PlanArchive
    <2> DEFINE b == StockPlan("archive", r, {}, <<>>)
               p == [b EXCEPT !.mats = {m}]
    <2>2. b \in Plan
      BY StockPlanTyped DEF Ops
    <2>3. p \in Plan
      BY <2>2 DEF Plan
    <2>4. p.op = "archive" /\ p.touch = {} /\ p.qty = Zero
      BY DEF StockPlan
    <2>5. Sound(p)
      BY <2>4 DEF Sound, PlanWellFormed, Zero
    <2> QED
      BY <2>1, <2>3, <2>5
  <1>9. CASE Drop(w)
    BY <1>9 DEF Drop, Sound
  <1> QED
    BY <1>1, <1>2, <1>3, <1>4, <1>5, <1>6, <1>7, <1>8, <1>9 DEF Planning

-----------------------------------------------------------------------------
(* Batches *)

(* What every batch does: it spends its request id and frees the handler,  *)
(* never touches reservations or places, and either moves stock along the  *)
(* plan or archives titles.                                                *)
LEMMA BatchShape ==
  ASSUME TypeOK, NEW w \in Workers, Committing(w)
  PROVE  /\ handler[w] \in Plan /\ handler[w] # Idle /\ handler[w].stage = "ready"
         /\ InsertCommand(handler[w])
         /\ handler' = [handler EXCEPT ![w] = Idle]
         /\ reserved' = reserved /\ location' = location
         /\ \/ CommitArchive(w)
            \/ MoveStock(handler[w]) /\ material' = material /\ RebuildStockTotals(handler[w].mats)
  <1>1. Ready(w, handler[w].op)
    BY DEF Committing, CommitReceive, CommitCount, CommitTransfer, CommitWriteOff,
           CommitIssue, CommitReturn, CommitArchive, Ready
  <1>2. handler[w] \in Plan
    BY <1>1 DEF Ready, TypeOK
  <1>3. reserved' = reserved /\ location' = location
    BY DEF Committing, CommitReceive, CommitCount, CommitTransfer, CommitWriteOff,
           CommitIssue, CommitReturn, CommitArchive, stock
  <1>4. \/ CommitArchive(w)
        \/ MoveStock(handler[w]) /\ material' = material /\ RebuildStockTotals(handler[w].mats)
    BY DEF Committing, CommitReceive, CommitCount, CommitTransfer, CommitWriteOff,
           CommitIssue, CommitReturn
  <1> QED
    BY <1>1, <1>2, <1>3, <1>4 DEF Ready

LEMMA MoveStockEffect ==
  ASSUME TypeOK, NEW p \in Plan, MoveStock(p)
  PROVE  /\ holding' \in [Slots -> RowType]
         /\ ledger' \in [Slots -> Int]
         /\ \A s \in p.touch : /\ holding'[s].qty = holding[s].qty + p.delta[s]
                               /\ ledger'[s] = ledger[s] + p.delta[s]
                               /\ reserved[s] <= holding'[s].qty
         /\ \A s \in Slots \ p.touch : holding'[s] = holding[s] /\ ledger'[s] = ledger[s]
  <1>1. /\ p.touch \in SUBSET Slots /\ p.delta \in [Slots -> Int]
        /\ p.seen \in [Slots -> RowType]
    BY DEF Plan
  <1>2. /\ holding \in [Slots -> RowType] /\ ledger \in [Slots -> Int]
        /\ reserved \in [Slots -> Nat]
    BY DEF TypeOK
  <1>3. ASSUME NEW s \in p.touch
        PROVE  /\ After(p, s) \in Nat /\ After(p, s) = holding[s].qty + p.delta[s]
               /\ After(p, s) >= reserved[s] /\ p.seen[s].ver + 1 \in Nat
    <2>1. p.seen[s] = holding[s] /\ After(p, s) >= reserved[s]
      BY DEF MoveStock, ShelvesUnchanged, ReservationGuard
    <2>2. s \in Slots /\ p.seen[s].qty \in Nat /\ p.seen[s].ver \in Nat /\ p.delta[s] \in Int
      BY <1>1 DEF RowType
    <2>3. reserved[s] \in Nat
      BY <1>2, <2>2
    <2> QED
      BY <2>1, <2>2, <2>3 DEF After
  <1>4. /\ holding' = [s \in Slots |-> IF s \in p.touch THEN Row(After(p, s), p.seen[s].ver + 1)
                                                        ELSE holding[s]]
        /\ ledger' = [s \in Slots |-> IF s \in p.touch THEN ledger[s] + p.delta[s] ELSE ledger[s]]
    BY DEF MoveStock
  <1>5. \A s \in p.touch : holding'[s] \in RowType /\ holding'[s].qty = After(p, s)
    BY <1>1, <1>3, <1>4, RowTyped
  <1>6. holding' \in [Slots -> RowType]
    BY <1>2, <1>4, <1>5
  <1>7. ledger' \in [Slots -> Int]
    BY <1>1, <1>2, <1>4
  <1> QED
    BY <1>1, <1>3, <1>4, <1>5, <1>6, <1>7

(* The batch of an issue opens a fresh loan, that of a return writes one   *)
(* open loan, and no other batch touches loans.                            *)
LEMMA LoanEffect ==
  ASSUME TypeOK, PlansKnown, NEW w \in Workers, Committing(w)
  PROVE  \/ CommitIssue(w) \/ CommitReturn(w) \/ loan' = loan
  BY DEF Committing, CommitReceive, CommitCount, CommitTransfer, CommitWriteOff, CommitArchive, stock

LEMMA ReturnedLoan ==
  ASSUME TypeOK, PlansKnown, NEW w \in Workers, CommitReturn(w)
  PROVE  LET p == handler[w] IN
         /\ p \in Plan /\ p.loan \in Loans /\ p.op = "return" /\ p.stage = "ready"
         /\ PlanWellFormed(p) /\ ReturnAccurate(p) /\ LoanUnchanged(p)
         /\ loan' \in [Loans -> LoanType]
         /\ loan'[p.loan].status = IF p.closes THEN "closed" ELSE "open"
         /\ loan'[p.loan].ver = loan[p.loan].ver + 1
         /\ loan'[p.loan].issued = loan[p.loan].issued
         /\ \A m \in Materials :
              /\ loan'[p.loan].returned[m] = loan[p.loan].returned[m] + p.qty[m]
              /\ loan'[p.loan].returned[m] <= loan[p.loan].issued[m]
                    \/ loan'[p.loan].returned[m] = loan[p.loan].returned[m]
         /\ \A l \in Loans \ {p.loan} : loan'[l] = loan[l]
  <1> DEFINE p == handler[w]
  <1>1. p \in Plan /\ p # Idle /\ p.op = "return" /\ p.stage = "ready"
    BY DEF CommitReturn, Ready, TypeOK
  <1>2. PlanWellFormed(p) /\ ReturnAccurate(p) /\ p.loan \in Loans
    BY <1>1 DEF PlansKnown, PlanWellFormed
  <1>3. /\ p.qty \in [Materials -> Nat] /\ p.given \in [Materials -> Nat]
        /\ p.loanVer \in Nat /\ p.closes \in BOOLEAN
    BY <1>1 DEF Plan
  <1>4. /\ ItemsUnchanged(p) /\ LoanUnchanged(p)
        /\ \A m \in p.mats : p.given[m] + p.qty[m] <= loan[p.loan].issued[m]
        /\ loan' = [loan EXCEPT
             ![p.loan].status = IF p.closes THEN "closed" ELSE "open",
             ![p.loan].ver = p.loanVer + 1,
             ![p.loan].returned = [m \in Materials |->
                                    IF m \in p.mats THEN p.given[m] + p.qty[m] ELSE @[m]]]
    BY DEF CommitReturn
  <1>5. loan \in [Loans -> LoanType] /\ loan[p.loan].returned \in [Materials -> Nat]
    BY <1>2 DEF TypeOK, LoanType
  <1> HIDE DEF p
  <1> DEFINE ret == [m \in Materials |-> IF m \in p.mats THEN p.given[m] + p.qty[m]
                                                         ELSE loan[p.loan].returned[m]]
             new == [loan[p.loan] EXCEPT !.status = IF p.closes THEN "closed" ELSE "open",
                                         !.ver = p.loanVer + 1, !.returned = ret]
  <1>6. loan' = [loan EXCEPT ![p.loan] = new]
    BY <1>2, <1>4, <1>5
  <1>7. ret \in [Materials -> Nat]
    BY <1>3, <1>5
  <1>8. ASSUME NEW m \in Materials
        PROVE  /\ ret[m] = loan[p.loan].returned[m] + p.qty[m]
               /\ ret[m] <= loan[p.loan].issued[m] \/ ret[m] = loan[p.loan].returned[m]
    <2>1. CASE m \in p.mats
      BY <1>4, <2>1 DEF ItemsUnchanged
    <2>2. CASE m \notin p.mats
      <3>1. p.qty[m] = 0
        BY <1>2, <1>3, <2>2 DEF PlanWellFormed
      <3> QED
        BY <1>5, <2>2, <3>1
    <2> QED
      BY <2>1, <2>2
  <1> HIDE DEF ret
  <1>9. /\ new \in LoanType /\ new.status = (IF p.closes THEN "closed" ELSE "open")
        /\ new.ver = p.loanVer + 1 /\ new.returned = ret /\ new.issued = loan[p.loan].issued
    <2>1. loan[p.loan] \in LoanType
      BY <1>2, <1>5
    <2>2. p.loanVer + 1 \in Nat
      BY <1>3
    <2>3. (IF p.closes THEN "closed" ELSE "open") \in {"none", "open", "closed"}
      OBVIOUS
    <2> QED
      BY <1>7, <2>1, <2>2, <2>3 DEF LoanType
  <1> HIDE DEF new
  <1>10. /\ loan' \in [Loans -> LoanType] /\ loan'[p.loan] = new
         /\ \A l \in Loans \ {p.loan} : loan'[l] = loan[l]
    BY <1>2, <1>5, <1>6, <1>9
  <1> QED
    BY <1>1, <1>2, <1>4, <1>8, <1>9, <1>10 DEF p, LoanUnchanged

LEMMA OpenedLoan ==
  ASSUME TypeOK, PlansKnown, NEW w \in Workers, CommitIssue(w)
  PROVE  /\ handler[w] \in Plan /\ PlanWellFormed(handler[w])
         /\ handler[w].op = "issue" /\ handler[w].stage = "ready"
         /\ \E l \in Loans :
              /\ loan[l].status = "none"
              /\ loan' = [loan EXCEPT ![l] = [status |-> "open", ver |-> 1,
                                        issued |-> handler[w].qty, returned |-> Zero]]
              /\ loan' \in [Loans -> LoanType]
  <1>1. handler[w] \in Plan /\ handler[w] # Idle /\ handler[w].op = "issue" /\ handler[w].stage = "ready"
    BY DEF CommitIssue, Ready, TypeOK
  <1>2. handler[w].qty \in [Materials -> Nat] /\ Zero \in [Materials -> Nat]
    BY <1>1 DEF Plan, Zero
  <1>3. [status |-> "open", ver |-> 1, issued |-> handler[w].qty, returned |-> Zero] \in LoanType
    BY <1>2 DEF LoanType
  <1>4. loan \in [Loans -> LoanType]
    BY DEF TypeOK
  <1>5. PlanWellFormed(handler[w])
    BY <1>1 DEF PlansKnown
  <1>6. PICK l \in Loans : /\ loan[l].status = "none"
              /\ loan' = [loan EXCEPT ![l] = [status |-> "open", ver |-> 1,
                                        issued |-> handler[w].qty, returned |-> Zero]]
    BY DEF CommitIssue
  <1> QED
    BY <1>1, <1>3, <1>4, <1>5, <1>6

(* A handed-out reservation leaves the shelf and joins one open loan. *)
LEMMA HandedOut ==
  ASSUME TypeOK, NEW s \in Slots, NEW n \in 1..MaxMove, NEW l \in Loans, IssueReserved(s, n, l)
  PROVE  /\ n \in Nat /\ n > 0
         /\ reserved' \in [Slots -> Nat] /\ holding' \in [Slots -> RowType]
         /\ ledger' \in [Slots -> Int] /\ loan' \in [Loans -> LoanType]
         /\ reserved'[s] = reserved[s] - n /\ holding'[s].qty = holding[s].qty - n
         /\ ledger'[s] = ledger[s] - n
         /\ \A t \in Slots \ {s} : /\ reserved'[t] = reserved[t] /\ holding'[t] = holding[t]
                                   /\ ledger'[t] = ledger[t]
         /\ loan[l].status \in {"none", "open"}
         /\ loan'[l].status = "open" /\ loan'[l].ver = loan[l].ver + 1
         /\ loan'[l].returned = loan[l].returned
         /\ loan'[l].issued[s[1]] = loan[l].issued[s[1]] + n
         /\ \A m \in Materials \ {s[1]} : loan'[l].issued[m] = loan[l].issued[m]
         /\ \A k \in Loans \ {l} : loan'[k] = loan[k]
  <1>1. n \in Nat /\ n > 0
    BY BoundAssumption
  <1>2. /\ reserved \in [Slots -> Nat] /\ holding \in [Slots -> RowType]
        /\ ledger \in [Slots -> Int] /\ loan \in [Loans -> LoanType]
    BY DEF TypeOK
  <1>3. /\ reserved[s] >= n /\ holding[s].qty >= n
        /\ loan[l].status \in {"none", "open"}
        /\ reserved' = [reserved EXCEPT ![s] = @ - n]
        /\ holding' = [holding EXCEPT ![s] = Row(@.qty - n, @.ver + 1)]
        /\ ledger' = [ledger EXCEPT ![s] = @ - n]
        /\ loan' = [loan EXCEPT ![l].status = "open", ![l].ver = @ + 1, ![l].issued[s[1]] = @ + n]
    BY DEF IssueReserved, TakesMore
  <1>4. holding[s].qty - n \in Nat /\ holding[s].ver + 1 \in Nat /\ reserved[s] - n \in Nat
    BY <1>1, <1>2, <1>3 DEF RowType
  <1>5. Row(holding[s].qty - n, holding[s].ver + 1) \in RowType
        /\ Row(holding[s].qty - n, holding[s].ver + 1).qty = holding[s].qty - n
    BY <1>4, RowTyped
  <1>6. /\ reserved' \in [Slots -> Nat] /\ ledger' \in [Slots -> Int]
        /\ reserved'[s] = reserved[s] - n /\ ledger'[s] = ledger[s] - n
        /\ \A t \in Slots \ {s} : reserved'[t] = reserved[t] /\ ledger'[t] = ledger[t]
    BY <1>1, <1>2, <1>3, <1>4
  <1>7. /\ holding' \in [Slots -> RowType] /\ holding'[s].qty = holding[s].qty - n
        /\ \A t \in Slots \ {s} : holding'[t] = holding[t]
    BY <1>2, <1>3, <1>5
  <1> DEFINE iss == [loan[l].issued EXCEPT ![s[1]] = @ + n]
             new == [loan[l] EXCEPT !.status = "open", !.ver = @ + 1, !.issued = iss]
  <1>8. loan' = [loan EXCEPT ![l] = new]
    BY <1>2, <1>3
  <1>9. s[1] \in Materials /\ loan[l] \in LoanType /\ loan[l].ver + 1 \in Nat
    BY <1>2 DEF Slots, LoanType
  <1>10. /\ iss \in [Materials -> Nat] /\ iss[s[1]] = loan[l].issued[s[1]] + n
         /\ \A m \in Materials \ {s[1]} : iss[m] = loan[l].issued[m]
    BY <1>1, <1>9 DEF LoanType
  <1> HIDE DEF iss
  <1>11. /\ new \in LoanType /\ new.status = "open" /\ new.ver = loan[l].ver + 1
         /\ new.returned = loan[l].returned /\ new.issued = iss
    BY <1>9, <1>10 DEF LoanType
  <1> HIDE DEF new
  <1>12. /\ loan' \in [Loans -> LoanType] /\ loan'[l] = new
         /\ \A k \in Loans \ {l} : loan'[k] = loan[k]
    BY <1>2, <1>8, <1>11
  <1> QED
    BY <1>1, <1>3, <1>6, <1>7, <1>10, <1>11, <1>12

-----------------------------------------------------------------------------
(* Type correctness *)

Reservation == \E s \in Slots, n \in 1..MaxMove : Reserve(s, n) \/ Release(s, n)
HandOut == \E s \in Slots, n \in 1..MaxMove, l \in Loans : IssueReserved(s, n, l)
Placement == \E p \in Locations : CloseLocation(p) \/ ReopenLocation(p)
Batch == \E w \in Workers : Committing(w)
Reading == \E w \in Workers : Planning(w) \/ Drop(w)

LEMMA StepCases ==
  ASSUME [Next]_vars
  PROVE  Reading \/ Batch \/ Placement \/ Reservation \/ HandOut \/ UNCHANGED vars
  BY DEF Next, OtherStores, Reading, Batch, Placement, Reservation, HandOut

LEMMA ReservationEffect ==
  ASSUME TypeOK, Reservation
  PROVE  /\ reserved' \in [Slots -> Nat]
         /\ UNCHANGED <<material, location, holding, loan, ledger, fund, command, effects, handler>>
         /\ \A s \in Slots : reserved'[s] > reserved[s] =>
                /\ reserved'[s] <= holding[s].qty
                /\ material[s[1]] = "active" /\ location[s[2]] = "active"
         /\ \E m \in Materials : /\ RebuildStockTotals({m})
                                 /\ \A s \in Slots : s[1] # m => reserved'[s] = reserved[s]
  <1>1. PICK s \in Slots, n \in 1..MaxMove : Reserve(s, n) \/ Release(s, n)
    BY DEF Reservation
  <1>2. reserved \in [Slots -> Nat] /\ n \in Nat /\ n > 0 /\ s[1] \in Materials
    BY BoundAssumption DEF TypeOK, Slots
  <1>3. CASE Reserve(s, n)
    <2>1. /\ reserved' = [reserved EXCEPT ![s] = @ + n] /\ RebuildStockTotals({s[1]})
          /\ holding[s].qty >= reserved[s] + n
          /\ material[s[1]] = "active" /\ location[s[2]] = "active"
          /\ UNCHANGED <<material, location, holding, loan, ledger, fund, command, effects, handler>>
      BY <1>3 DEF Reserve, MaterialsActive, PlacesActive
    <2>2. /\ reserved' \in [Slots -> Nat]
          /\ reserved'[s] = reserved[s] + n
          /\ \A t \in Slots : t # s => reserved'[t] = reserved[t]
      BY <1>2, <2>1
    <2>3. \A t \in Slots : reserved'[t] > reserved[t] =>
                /\ reserved'[t] <= holding[t].qty
                /\ material[t[1]] = "active" /\ location[t[2]] = "active"
      BY <1>2, <2>1, <2>2
    <2>4. \A t \in Slots : t[1] # s[1] => reserved'[t] = reserved[t]
      BY <2>2
    <2> QED
      BY <1>2, <2>1, <2>2, <2>3, <2>4
  <1>4. CASE Release(s, n)
    <2>1. /\ reserved' = [reserved EXCEPT ![s] = @ - n] /\ RebuildStockTotals({s[1]})
          /\ reserved[s] >= n
          /\ UNCHANGED <<material, location, holding, loan, ledger, fund, command, effects, handler>>
      BY <1>4 DEF Release
    <2>2. /\ reserved' \in [Slots -> Nat]
          /\ reserved'[s] = reserved[s] - n
          /\ \A t \in Slots : t # s => reserved'[t] = reserved[t]
      BY <1>2, <2>1
    <2>3. \A t \in Slots : reserved'[t] > reserved[t] =>
                /\ reserved'[t] <= holding[t].qty
                /\ material[t[1]] = "active" /\ location[t[2]] = "active"
      BY <1>2, <2>1, <2>2
    <2>4. \A t \in Slots : t[1] # s[1] => reserved'[t] = reserved[t]
      BY <2>2
    <2> QED
      BY <1>2, <2>1, <2>2, <2>3, <2>4
  <1> QED
    BY <1>1, <1>3, <1>4

LEMMA TypeInit == Init => TypeOK
  <1> SUFFICES ASSUME Init PROVE TypeOK
    OBVIOUS
  <1>1. PICK q \in Opening : holding = [s \in Slots |-> Row(q[s], 1)] /\ ledger = q
    BY DEF Init
  <1>2. q \in [Slots -> Nat]
    BY OpeningAssumption
  <1>3. holding \in [Slots -> RowType]
    BY <1>1, <1>2, RowTyped
  <1>4. ledger \in [Slots -> Int]
    BY <1>1, <1>2
  <1>5. loan \in [Loans -> LoanType]
    BY DEF Init, NewLoan, LoanType, Zero
  <1> QED
    BY <1>3, <1>4, <1>5 DEF Init, TypeOK

LEMMA TypeStep == TypeOK /\ PlansKnown /\ [Next]_vars => TypeOK'
  <1> SUFFICES ASSUME TypeOK, PlansKnown, [Next]_vars PROVE TypeOK'
    OBVIOUS
  <1>1. CASE Reading
    <2>1. PICK w \in Workers : Planning(w) \/ Drop(w)
      BY <1>1 DEF Reading
    <2>2. PICK p \in Plan \cup {Idle} : handler' = [handler EXCEPT ![w] = p]
      BY <2>1, PlanningSound
    <2>3. handler' \in [Workers -> Plan \cup {Idle}]
      BY <2>2 DEF TypeOK
    <2> QED
      BY <2>1, <2>3, PlanningSound DEF TypeOK, stock
  <1>2. CASE Batch
    <2>1. PICK w \in Workers : Committing(w)
      BY <1>2 DEF Batch
    <2>2. /\ handler[w] \in Plan /\ InsertCommand(handler[w])
          /\ handler' = [handler EXCEPT ![w] = Idle]
          /\ reserved' = reserved /\ location' = location
      BY <2>1, BatchShape
    <2>3. handler' \in [Workers -> Plan \cup {Idle}]
      BY <2>2 DEF TypeOK
    <2>4. /\ command' \in [Requests -> {"absent", "completed"}]
          /\ effects' \in [Requests -> Nat]
      BY <2>2 DEF InsertCommand, TypeOK, Plan
    <2>5. loan' \in [Loans -> LoanType]
      BY <2>1, LoanEffect, OpenedLoan, ReturnedLoan DEF TypeOK
    <2>6. /\ holding' \in [Slots -> RowType] /\ ledger' \in [Slots -> Int]
          /\ material' \in [Materials -> {"active", "archived"}]
      <3>1. CASE CommitArchive(w)
        BY <3>1 DEF CommitArchive, stock, TypeOK
      <3>2. CASE MoveStock(handler[w]) /\ material' = material
        BY <2>2, <3>2, MoveStockEffect DEF TypeOK
      <3> QED
        BY <2>1, <3>1, <3>2, BatchShape
    <2> QED
      BY <2>2, <2>3, <2>4, <2>5, <2>6 DEF TypeOK
  <1>3. CASE Placement
    BY <1>3 DEF Placement, CloseLocation, ReopenLocation, TypeOK, stock
  <1>4. CASE Reservation
    BY <1>4, ReservationEffect DEF TypeOK
  <1>5. CASE HandOut
    <2>1. PICK s \in Slots, n \in 1..MaxMove, l \in Loans : IssueReserved(s, n, l)
      BY <1>5 DEF HandOut
    <2>2. UNCHANGED <<material, location, fund, command, effects, handler>>
      BY <2>1 DEF IssueReserved
    <2> QED
      BY <2>1, <2>2, HandedOut DEF TypeOK
  <1>6. CASE UNCHANGED vars
    BY <1>6 DEF vars, stock, TypeOK
  <1> QED
    BY <1>1, <1>2, <1>3, <1>4, <1>5, <1>6, StepCases

-----------------------------------------------------------------------------
(* What handlers know stays true *)

(* A used loan is either untouched by a step or its version rises; a       *)
(* closed one is untouched.                                                *)
LoansAdvance ==
    \A l \in Loans : loan[l].status # "none" =>
        \/ loan'[l] = loan[l]
        \/ /\ loan[l].status = "open" /\ loan'[l].status # "none"
           /\ loan'[l].ver = loan[l].ver + 1

LEMMA LoansStep ==
  ASSUME TypeOK, PlansKnown, [Next]_vars
  PROVE  LoansAdvance
  <1>1. CASE Reading
    BY <1>1, PlanningSound DEF Reading, LoansAdvance, stock
  <1>2. CASE Batch
    <2>1. PICK w \in Workers : Committing(w)
      BY <1>2 DEF Batch
    <2>2. CASE CommitIssue(w)
      BY <2>2, OpenedLoan DEF LoansAdvance, TypeOK
    <2>3. CASE CommitReturn(w)
      <3>1. handler[w].loan \in Loans /\ loan[handler[w].loan].status = "open"
        BY <2>3, ReturnedLoan DEF LoanUnchanged
      <3>2. /\ loan'[handler[w].loan].status # "none"
            /\ loan'[handler[w].loan].ver = loan[handler[w].loan].ver + 1
            /\ \A l \in Loans \ {handler[w].loan} : loan'[l] = loan[l]
        BY <2>3, ReturnedLoan
      <3> QED
        BY <3>1, <3>2 DEF LoansAdvance
    <2> QED
      BY <2>1, <2>2, <2>3, LoanEffect DEF LoansAdvance
  <1>3. CASE Placement
    BY <1>3 DEF Placement, CloseLocation, ReopenLocation, LoansAdvance, stock
  <1>4. CASE Reservation
    BY <1>4, ReservationEffect DEF LoansAdvance
  <1>5. CASE HandOut
    <2>1. PICK s \in Slots, n \in 1..MaxMove, l \in Loans : IssueReserved(s, n, l)
      BY <1>5 DEF HandOut
    <2> QED
      BY <2>1, HandedOut DEF LoansAdvance
  <1>6. CASE UNCHANGED vars
    BY <1>6 DEF vars, stock, LoansAdvance
  <1> QED
    BY <1>1, <1>2, <1>3, <1>4, <1>5, <1>6, StepCases

LEMMA AccurateStays ==
  ASSUME TypeOK, TypeOK', LoansAdvance, NEW p \in Plan, PlanWellFormed(p),
         p.op = "return", ReturnAccurate(p)
  PROVE  ReturnAccurate(p)'
  <1>1. /\ p.loan \in Loans /\ p.loanVer \in Nat
        /\ loan[p.loan].status # "none" /\ loan[p.loan].ver >= p.loanVer
    BY DEF PlanWellFormed, ReturnAccurate, Plan
  <1>2. loan[p.loan].ver \in Nat
    BY <1>1 DEF TypeOK, LoanType
  <1>3. CASE loan'[p.loan] = loan[p.loan]
    BY <1>3 DEF ReturnAccurate, LoanUnchanged, Outstanding
  <1>4. CASE loan'[p.loan].status # "none" /\ loan'[p.loan].ver = loan[p.loan].ver + 1
    BY <1>1, <1>2, <1>4 DEF ReturnAccurate, LoanUnchanged
  <1> QED
    BY <1>1, <1>3, <1>4 DEF LoansAdvance

LEMMA PlansStep == TypeOK /\ PlansKnown /\ [Next]_vars => PlansKnown'
  <1> SUFFICES ASSUME TypeOK, PlansKnown, [Next]_vars, NEW w \in Workers, handler'[w] # Idle
               PROVE  PlanWellFormed(handler'[w])
                      /\ (handler'[w].op = "return" => ReturnAccurate(handler[w])')
    BY DEF PlansKnown, PlanWellFormed
  <1>0. TypeOK' /\ LoansAdvance
    BY TypeStep, LoansStep
  <1>1. CASE handler'[w] = handler[w]
    <2>1. PICK p \in Plan : p = handler[w]
      BY <1>1 DEF TypeOK
    <2>2. PlanWellFormed(p) /\ (p.op = "return" => ReturnAccurate(p))
      BY <1>1, <2>1 DEF PlansKnown
    <2>3. p.op = "return" => ReturnAccurate(p)'
      BY <1>0, <2>2, AccurateStays
    <2> QED
      BY <1>1, <2>1, <2>2, <2>3 DEF ReturnAccurate, LoanUnchanged, Outstanding
  <1>2. CASE handler'[w] # handler[w]
    <2>1. CASE Reading
      <3>1. PICK v \in Workers : Planning(v) \/ Drop(v)
        BY <2>1 DEF Reading
      <3>2. PICK p \in Plan \cup {Idle} : handler' = [handler EXCEPT ![v] = p] /\ Sound(p)
        BY <3>1, PlanningSound
      <3>3. v = w /\ handler'[w] = p
        BY <1>2, <3>2 DEF TypeOK
      <3>4. loan' = loan
        BY <3>1, PlanningSound DEF stock
      <3> QED
        BY <3>2, <3>3, <3>4 DEF Sound, ReturnAccurate, LoanUnchanged, Outstanding
    <2>2. CASE Batch
      <3>1. PICK v \in Workers : handler' = [handler EXCEPT ![v] = Idle]
        BY <2>2, BatchShape DEF Batch
      <3> QED
        BY <1>2, <3>1 DEF TypeOK
    <2>3. CASE Placement \/ Reservation \/ HandOut \/ UNCHANGED vars
      BY <1>2, <2>3 DEF Placement, Reservation, HandOut, CloseLocation, ReopenLocation,
                        Reserve, Release, IssueReserved, vars
    <2> QED
      BY <2>1, <2>2, <2>3, StepCases
  <1> QED
    BY <1>1, <1>2

LEMMA PlansInit == Init => PlansKnown
  BY DEF Init, PlansKnown

(* Every row, counter and plan has its type in every reachable state, and  *)
(* every plan is well formed and true of its loan while it is current.     *)
THEOREM TypeCorrect == Spec => [](TypeOK /\ PlansKnown)
  <1>1. Init => TypeOK /\ PlansKnown
    BY TypeInit, PlansInit
  <1>2. TypeOK /\ PlansKnown /\ [Next]_vars => (TypeOK /\ PlansKnown)'
    BY TypeStep, PlansStep
  <1> QED
    BY <1>1, <1>2, PTL DEF Spec

-----------------------------------------------------------------------------
(* Shelves, journal and reservations *)

LEMMA LedgerStep == TypeOK /\ PlansKnown /\ LedgerBalances /\ [Next]_vars => LedgerBalances'
  <1> SUFFICES ASSUME TypeOK, PlansKnown, LedgerBalances, [Next]_vars PROVE LedgerBalances'
    OBVIOUS
  <1>1. CASE Batch
    <2>1. PICK w \in Workers : Committing(w)
      BY <1>1 DEF Batch
    <2>2. CASE CommitArchive(w)
      BY <2>2 DEF CommitArchive, stock, LedgerBalances
    <2>3. CASE MoveStock(handler[w])
      <3>1. PICK p \in Plan : p = handler[w]
        BY <2>1, BatchShape
      <3>2. \A s \in Slots : \/ holding'[s] = holding[s] /\ ledger'[s] = ledger[s]
                             \/ /\ holding'[s].qty = holding[s].qty + p.delta[s]
                                /\ ledger'[s] = ledger[s] + p.delta[s]
        BY <2>3, <3>1, MoveStockEffect
      <3> QED
        BY <3>2 DEF LedgerBalances
    <2> QED
      BY <2>1, <2>2, <2>3, BatchShape
  <1>2. CASE HandOut
    <2>1. PICK s \in Slots, n \in 1..MaxMove, l \in Loans : IssueReserved(s, n, l)
      BY <1>2 DEF HandOut
    <2> QED
      BY <2>1, HandedOut DEF LedgerBalances
  <1>3. CASE Reading \/ Placement \/ Reservation \/ UNCHANGED vars
    <2>1. UNCHANGED <<holding, ledger>>
      BY <1>3, PlanningSound, ReservationEffect
         DEF Reading, Placement, CloseLocation, ReopenLocation, vars, stock
    <2> QED
      BY <2>1 DEF LedgerBalances
  <1> QED
    BY <1>1, <1>2, <1>3, StepCases

(* The journal explains every shelf in every reachable state. *)
THEOREM LedgerCorrect == Spec => []LedgerBalances
  <1>1. Init => LedgerBalances
    <2> SUFFICES ASSUME Init PROVE LedgerBalances
      OBVIOUS
    <2>1. PICK q \in Opening : holding = [s \in Slots |-> Row(q[s], 1)] /\ ledger = q
      BY DEF Init
    <2>2. q \in [Slots -> Nat]
      BY OpeningAssumption
    <2> QED
      BY <2>1, <2>2, RowTyped DEF LedgerBalances
  <1> QED
    BY <1>1, LedgerStep, TypeCorrect, PTL DEF Spec

LEMMA ReservedStep ==
  TypeOK /\ PlansKnown /\ ReservedOnShelf /\ [Next]_vars => ReservedOnShelf'
  <1> SUFFICES ASSUME TypeOK, PlansKnown, ReservedOnShelf, [Next]_vars, NEW s \in Slots
               PROVE  /\ reserved'[s] <= holding'[s].qty
                      /\ reserved'[s] > 0 => material'[s[1]] = "active" /\ location'[s[2]] = "active"
    BY DEF ReservedOnShelf
  <1>0. /\ reserved[s] \in Nat /\ holding[s].qty \in Nat /\ s[1] \in Materials /\ s[2] \in Locations
        /\ s = <<s[1], s[2]>>
        /\ reserved[s] <= holding[s].qty
        /\ reserved[s] > 0 => material[s[1]] = "active" /\ location[s[2]] = "active"
    BY DEF TypeOK, RowType, Slots, ReservedOnShelf
  <1>1. CASE Batch
    <2>1. PICK w \in Workers : Committing(w)
      BY <1>1 DEF Batch
    <2>2. reserved' = reserved /\ location' = location
      BY <2>1, BatchShape
    <2>3. CASE CommitArchive(w)
      <3>1. /\ holding' = holding
            /\ material' = [m \in Materials |-> IF m \in handler[w].mats THEN "archived" ELSE material[m]]
            /\ \A m \in handler[w].mats : ~Reserved(m)
        BY <2>3 DEF CommitArchive, stock
      <3>2. s[1] \in handler[w].mats => ~(reserved[s] > 0)
        BY <1>0, <3>1 DEF Reserved
      <3> QED
        BY <1>0, <2>2, <3>1, <3>2
    <2>4. CASE MoveStock(handler[w]) /\ material' = material
      <3>1. PICK p \in Plan : p = handler[w]
        BY <2>1, BatchShape
      <3>2. reserved[s] <= holding'[s].qty
        BY <1>0, <2>4, <3>1, MoveStockEffect
      <3> QED
        BY <1>0, <2>2, <2>4, <3>2
    <2> QED
      BY <2>1, <2>3, <2>4, BatchShape
  <1>2. CASE HandOut
    <2>1. PICK t \in Slots, n \in 1..MaxMove, l \in Loans : IssueReserved(t, n, l)
      BY <1>2 DEF HandOut
    <2>2. material' = material /\ location' = location
      BY <2>1 DEF IssueReserved
    <2>3. /\ n \in Nat /\ n > 0
          /\ s = t => reserved'[s] = reserved[s] - n /\ holding'[s].qty = holding[s].qty - n
          /\ s # t => reserved'[s] = reserved[s] /\ holding'[s] = holding[s]
      BY <2>1, HandedOut
    <2> QED
      BY <1>0, <2>2, <2>3
  <1>3. CASE Placement
    <2>1. PICK p \in Locations : CloseLocation(p) \/ ReopenLocation(p)
      BY <1>3 DEF Placement
    <2>2. CASE CloseLocation(p)
      <3>1. /\ UNCHANGED <<material, reserved, holding>>
            /\ location' = [location EXCEPT ![p] = "inactive"]
            /\ \A m \in Materials : reserved[<<m, p>>] = 0
        BY <2>2 DEF CloseLocation, stock
      <3>2. location'[s[2]] = location[s[2]] \/ reserved[s] = 0
        BY <1>0, <3>1 DEF TypeOK
      <3> QED
        BY <1>0, <3>1, <3>2
    <2>3. CASE ReopenLocation(p)
      BY <1>0, <2>3 DEF ReopenLocation, stock, TypeOK
    <2> QED
      BY <2>1, <2>2, <2>3
  <1>4. CASE Reservation
    <2>1. /\ UNCHANGED <<material, location, holding>> /\ reserved'[s] \in Nat
          /\ reserved'[s] > reserved[s] =>
                /\ reserved'[s] <= holding[s].qty
                /\ material[s[1]] = "active" /\ location[s[2]] = "active"
      BY <1>4, ReservationEffect
    <2> QED
      BY <1>0, <2>1
  <1>5. CASE Reading \/ UNCHANGED vars
    <2>1. UNCHANGED <<holding, reserved, material, location>>
      BY <1>5, PlanningSound DEF Reading, vars, stock
    <2> QED
      BY <1>0, <2>1
  <1> QED
    BY <1>1, <1>2, <1>3, <1>4, <1>5, StepCases

(* A promised copy stays on its shelf, at an open place, under an active   *)
(* title, for any number of concurrent handlers.                           *)
THEOREM ReservationsKept == Spec => []ReservedOnShelf
  <1>1. Init => ReservedOnShelf
    <2> SUFFICES ASSUME Init, NEW s \in Slots PROVE reserved[s] <= holding[s].qty /\ reserved[s] = 0
      BY DEF ReservedOnShelf
    <2>1. holding[s].qty \in Nat
      BY TypeInit DEF TypeOK, RowType
    <2> QED
      BY <2>1 DEF Init
  <1> QED
    BY <1>1, ReservedStep, TypeCorrect, PTL DEF Spec

-----------------------------------------------------------------------------
(* Requests *)

(* A request changes the stock at most once, and its command row tells. *)
THEOREM RequestsOnce == Spec => []EachRequestOnce
  <1>1. Init => EachRequestOnce
    BY DEF Init, EachRequestOnce
  <1>2. TypeOK /\ PlansKnown /\ EachRequestOnce /\ [Next]_vars => EachRequestOnce'
    <2> SUFFICES ASSUME TypeOK, PlansKnown, EachRequestOnce, [Next]_vars PROVE EachRequestOnce'
      OBVIOUS
    <2>1. CASE Batch
      <3>1. PICK p \in Plan : InsertCommand(p)
        BY <2>1, BatchShape DEF Batch
      <3> QED
        BY <3>1 DEF InsertCommand, EachRequestOnce, TypeOK, Plan
    <2>2. CASE Reading \/ Placement \/ Reservation \/ HandOut \/ UNCHANGED vars
      <3>1. UNCHANGED <<command, effects>>
        BY <2>2, PlanningSound, ReservationEffect
           DEF Reading, Placement, CloseLocation, ReopenLocation, HandOut, IssueReserved, vars
      <3> QED
        BY <3>1 DEF EachRequestOnce
    <2> QED
      BY <2>1, <2>2, StepCases
  <1> QED
    BY <1>1, <1>2, TypeCorrect, PTL DEF Spec

-----------------------------------------------------------------------------
(* Loans *)

LoansRight == UnusedLoansBlank /\ NeverOverReturned /\ LoanClosedIffSettled

(* The part of LoansRight that is about one loan. *)
LoanRight(ln) ==
    /\ ln.status = "none" => ln = NewLoan
    /\ \A m \in Materials : ln.returned[m] <= ln.issued[m]
    /\ ln.status # "none" => (ln.status = "closed" <=> Settled(ln))

LEMMA LoansRightByLoan == LoansRight <=> \A l \in Loans : LoanRight(loan[l])
  BY DEF LoansRight, UnusedLoansBlank, NeverOverReturned, LoanClosedIffSettled, LoanRight

LEMMA LoansRightStep == TypeOK /\ PlansKnown /\ LoansRight /\ [Next]_vars => LoansRight'
  <1> SUFFICES ASSUME TypeOK, PlansKnown, [Next]_vars, NEW k \in Loans, LoanRight(loan[k])
               PROVE  LoanRight(loan'[k])
    BY LoansRightByLoan DEF LoansRight, UnusedLoansBlank, NeverOverReturned,
                            LoanClosedIffSettled, LoanRight
  <1>0. /\ loan[k] \in LoanType
        /\ loan[k].issued \in [Materials -> Nat] /\ loan[k].returned \in [Materials -> Nat]
    BY DEF TypeOK, LoanType
  <1>1. CASE Batch
    <2>1. PICK w \in Workers : Committing(w)
      BY <1>1 DEF Batch
    <2>2. PICK p \in Plan : p = handler[w]
      BY <2>1, BatchShape
    <2>3. /\ p.qty \in [Materials -> Nat] /\ p.mats \in SUBSET Materials
      BY DEF Plan
    <2>4. CASE CommitIssue(w)
      <3>1. PICK l \in Loans :
              loan' = [loan EXCEPT ![l] = [status |-> "open", ver |-> 1,
                                           issued |-> p.qty, returned |-> Zero]]
        BY <2>2, <2>4, OpenedLoan
      <3>2. p.mats # {} /\ \A m \in p.mats : p.qty[m] > 0
        BY <2>2, <2>4, OpenedLoan DEF PlanWellFormed
      <3>3. CASE k = l
        <4>1. /\ loan'[k].status = "open" /\ loan'[k].issued = p.qty /\ loan'[k].returned = Zero
          BY <3>1, <3>3 DEF TypeOK
        <4>2. \A m \in Materials : Zero[m] = 0
          BY DEF Zero
        <4>3. ~Settled(loan'[k])
          BY <2>3, <3>2, <4>1, <4>2 DEF Settled
        <4> QED
          BY <2>3, <4>1, <4>2, <4>3 DEF LoanRight
      <3>4. CASE k # l
        BY <3>1, <3>4
      <3> QED
        BY <3>3, <3>4
    <2>5. CASE CommitReturn(w)
      <3>1. /\ p.loan \in Loans /\ p.stage = "ready"
            /\ ReturnAccurate(p) /\ LoanUnchanged(p)
            /\ loan'[p.loan].status = IF p.closes THEN "closed" ELSE "open"
            /\ loan'[p.loan].issued = loan[p.loan].issued
            /\ \A m \in Materials :
                 /\ loan'[p.loan].returned[m] = loan[p.loan].returned[m] + p.qty[m]
                 /\ loan'[p.loan].returned[m] <= loan[p.loan].issued[m]
                       \/ loan'[p.loan].returned[m] = loan[p.loan].returned[m]
            /\ \A l \in Loans \ {p.loan} : loan'[l] = loan[l]
        BY <2>2, <2>5, ReturnedLoan
      <3>2. CASE k = p.loan
        <4>1. \A m \in Materials : loan'[k].returned[m] <= loan'[k].issued[m]
          BY <3>1, <3>2 DEF LoanRight
        <4>2. p.closes <=> \A m \in Materials : p.qty[m] = loan[k].issued[m] - loan[k].returned[m]
          BY <3>1, <3>2 DEF ReturnAccurate, Outstanding
        <4>3. \A m \in Materials : p.qty[m] = loan[k].issued[m] - loan[k].returned[m]
                                   <=> loan'[k].returned[m] = loan'[k].issued[m]
          BY <1>0, <2>3, <3>1, <3>2
        <4>4. p.closes <=> Settled(loan'[k])
          BY <4>2, <4>3 DEF Settled
        <4>5. loan'[k].status = IF p.closes THEN "closed" ELSE "open"
          BY <3>1, <3>2
        <4> QED
          BY <4>1, <4>4, <4>5 DEF LoanRight
      <3>3. CASE k # p.loan
        BY <3>1, <3>3
      <3> QED
        BY <3>2, <3>3
    <2> QED
      BY <2>1, <2>4, <2>5, LoanEffect
  <1>2. CASE HandOut
    <2>1. PICK s \in Slots, n \in 1..MaxMove, l \in Loans : IssueReserved(s, n, l)
      BY <1>2 DEF HandOut
    <2>2. CASE k = l
      <3>1. /\ n \in Nat /\ n > 0 /\ s[1] \in Materials
            /\ loan'[k].status = "open"
            /\ loan'[k].returned = loan[k].returned
            /\ loan'[k].issued[s[1]] = loan[k].issued[s[1]] + n
            /\ \A m \in Materials \ {s[1]} : loan'[k].issued[m] = loan[k].issued[m]
        BY <2>1, <2>2, HandedOut DEF Slots
      <3>2. \A m \in Materials : loan'[k].returned[m] <= loan'[k].issued[m]
        BY <1>0, <3>1 DEF LoanRight
      <3>3. loan'[k].returned[s[1]] # loan'[k].issued[s[1]]
        BY <1>0, <3>1 DEF LoanRight
      <3> QED
        BY <3>1, <3>2, <3>3 DEF LoanRight, Settled
    <2>3. CASE k # l
      BY <2>1, <2>3, HandedOut
    <2> QED
      BY <2>2, <2>3
  <1>3. CASE Reading \/ Placement \/ Reservation \/ UNCHANGED vars
    <2>1. loan' = loan
      BY <1>3, PlanningSound, ReservationEffect
         DEF Reading, Placement, CloseLocation, ReopenLocation, vars, stock
    <2> QED
      BY <2>1
  <1> QED
    BY <1>1, <1>2, <1>3, StepCases

(* Nothing comes back twice, and a teacher loan is closed exactly when     *)
(* everything issued on it has come back.                                  *)
THEOREM LoansCorrect == Spec => []LoansBalance
  <1>1. Init => LoansRight
    <2> SUFFICES ASSUME Init, NEW l \in Loans PROVE LoanRight(loan[l])
      BY LoansRightByLoan
    <2>1. loan[l] = NewLoan
      BY DEF Init
    <2> QED
      BY <2>1 DEF LoanRight, NewLoan, Zero
  <1>2. LoansRight => LoansBalance
    BY DEF LoansRight, LoansBalance
  <1> QED
    BY <1>1, <1>2, LoansRightStep, TypeCorrect, PTL DEF Spec

(* A closed loan is never changed again. *)
THEOREM ClosedLoansStay == Spec => ClosedLoansFrozen
  <1>1. TypeOK /\ PlansKnown /\ [Next]_vars =>
            [\A l \in Loans : loan[l].status = "closed" => loan'[l] = loan[l]]_vars
    BY LoansStep DEF LoansAdvance
  <1> QED
    BY <1>1, TypeCorrect, PTL DEF Spec, ClosedLoansFrozen

-----------------------------------------------------------------------------
(* Archived titles *)

Empty(m) == ~InUse(m) /\ ~Reserved(m)

(* A batch that moves stock is about titles that were not archived with    *)
(* nothing left: they are active, or the return found copies outstanding.  *)
LEMMA MovedTitlesLive ==
  ASSUME TypeOK, PlansKnown, ArchivedHasNothing, NEW w \in Workers, Committing(w),
         ~CommitArchive(w), NEW m \in handler[w].mats
  PROVE  material[m] = "active"
  <1>1. handler[w] \in Plan /\ m \in Materials
    BY BatchShape DEF Plan
  <1>2. CASE CommitReturn(w)
    <2> DEFINE p == handler[w]
    <2>1. /\ p \in Plan /\ p.loan \in Loans /\ PlanWellFormed(p)
          /\ p.op = "return" /\ p.stage = "ready" /\ ItemsUnchanged(p)
          /\ p.given[m] + p.qty[m] <= loan[p.loan].issued[m]
      BY <1>2, ReturnedLoan DEF CommitReturn
    <2>2. /\ p.qty[m] > 0 /\ p.given[m] = loan[p.loan].returned[m]
          /\ p.qty[m] \in Nat /\ p.given[m] \in Nat
      BY <1>1, <2>1 DEF PlanWellFormed, ItemsUnchanged, Plan
    <2>3. loan[p.loan].issued[m] \in Nat
      BY <1>1, <2>1 DEF TypeOK, LoanType
    <2>4. Outstanding(p.loan, m) > 0
      BY <2>1, <2>2, <2>3 DEF Outstanding
    <2>5. InUse(m)
      BY <2>1, <2>4 DEF InUse
    <2> QED
      BY <1>1, <2>5 DEF ArchivedHasNothing, TypeOK
  <1>3. CASE ~CommitReturn(w)
    BY <1>3 DEF Committing, CommitReceive, CommitCount, CommitTransfer, CommitWriteOff,
                CommitIssue, MaterialsActive
  <1> QED
    BY <1>2, <1>3

(* Loans change only for the titles of the batch. *)
LEMMA LoanMaterials ==
  ASSUME TypeOK, PlansKnown, LoansRight, NEW w \in Workers, Committing(w),
         NEW m \in Materials \ handler[w].mats, NEW l \in Loans
  PROVE  loan'[l].issued[m] - loan'[l].returned[m] = Outstanding(l, m)
  <1>0. PICK p \in Plan : p = handler[w]
    BY BatchShape
  <1>1. p.qty[m] \in Nat /\ loan[l].issued[m] \in Nat /\ loan[l].returned[m] \in Nat
    BY DEF Plan, TypeOK, LoanType
  <1>2. CASE CommitIssue(w)
    <2>1. PICK k \in Loans :
            /\ loan[k].status = "none"
            /\ loan' = [loan EXCEPT ![k] = [status |-> "open", ver |-> 1,
                                            issued |-> p.qty, returned |-> Zero]]
      BY <1>0, <1>2, OpenedLoan
    <2>2. p.qty[m] = 0
      BY <1>0, <1>1, <1>2, OpenedLoan DEF PlanWellFormed
    <2>3. l = k => loan[l].issued[m] = 0 /\ loan[l].returned[m] = 0
      BY <2>1 DEF LoansRight, UnusedLoansBlank, NewLoan, Zero
    <2>4. l = k => loan'[l].issued[m] = 0 /\ loan'[l].returned[m] = 0
      BY <2>1, <2>2 DEF TypeOK, Zero
    <2>5. l # k => loan'[l] = loan[l]
      BY <2>1
    <2> QED
      BY <2>3, <2>4, <2>5 DEF Outstanding
  <1>3. CASE CommitReturn(w)
    <2>1. /\ PlanWellFormed(p) /\ p.loan \in Loans
          /\ loan'[p.loan].issued = loan[p.loan].issued
          /\ loan'[p.loan].returned[m] = loan[p.loan].returned[m] + p.qty[m]
          /\ \A k \in Loans \ {p.loan} : loan'[k] = loan[k]
      BY <1>0, <1>3, ReturnedLoan
    <2>2. p.qty[m] = 0
      BY <1>0, <1>1, <2>1 DEF PlanWellFormed
    <2>3. loan'[l].issued[m] = loan[l].issued[m] /\ loan'[l].returned[m] = loan[l].returned[m]
      BY <1>1, <2>1, <2>2
    <2> QED
      BY <2>3 DEF Outstanding
  <1>4. CASE loan' = loan
    BY <1>4 DEF Outstanding
  <1> QED
    BY <1>2, <1>3, <1>4, LoanEffect

LEMMA ShelfMaterials ==
  ASSUME TypeOK, PlansKnown, NEW w \in Workers, Committing(w),
         NEW m \in Materials \ handler[w].mats, NEW q \in Locations
  PROVE  holding'[<<m, q>>] = holding[<<m, q>>]
  <1>1. PICK p \in Plan : p = handler[w]
    BY BatchShape
  <1>2. <<m, q>> \in Slots /\ <<m, q>>[1] = m
    BY DEF Slots
  <1>3. <<m, q>> \notin p.touch
    BY <1>1, <1>2, BatchShape DEF PlansKnown, PlanWellFormed
  <1>4. CASE CommitArchive(w)
    BY <1>4 DEF CommitArchive, stock
  <1>5. CASE MoveStock(handler[w])
    BY <1>1, <1>2, <1>3, <1>5, MoveStockEffect
  <1> QED
    BY <1>4, <1>5, BatchShape

LEMMA ArchivedStep ==
  TypeOK /\ PlansKnown /\ LoansRight /\ ArchivedHasNothing /\ [Next]_vars => ArchivedHasNothing'
  <1> SUFFICES ASSUME TypeOK, PlansKnown, LoansRight, ArchivedHasNothing, [Next]_vars,
                      NEW m \in Materials, material'[m] = "archived"
               PROVE  /\ \A q \in Locations : ~(holding'[<<m, q>>].qty > 0) /\ ~(reserved'[<<m, q>>] > 0)
                      /\ \A l \in Loans : ~(loan'[l].issued[m] - loan'[l].returned[m] > 0)
    BY DEF ArchivedHasNothing, InUse, Reserved, Outstanding
  <1>0. material[m] = "archived" =>
          /\ \A q \in Locations : ~(holding[<<m, q>>].qty > 0) /\ ~(reserved[<<m, q>>] > 0)
          /\ \A l \in Loans : ~(Outstanding(l, m) > 0)
    BY DEF ArchivedHasNothing, InUse, Reserved
  <1>1. CASE Batch
    <2>1. PICK w \in Workers : Committing(w)
      BY <1>1 DEF Batch
    <2>2. reserved' = reserved
      BY <2>1, BatchShape
    <2>3. CASE CommitArchive(w)
      <3>1. /\ UNCHANGED <<holding, loan>>
            /\ material' = [k \in Materials |-> IF k \in handler[w].mats THEN "archived" ELSE material[k]]
            /\ \A k \in handler[w].mats : ~InUse(k) /\ ~Reserved(k)
        BY <2>3 DEF CommitArchive, stock
      <3>2. CASE m \in handler[w].mats
        BY <2>2, <3>1, <3>2 DEF InUse, Reserved, Outstanding
      <3>3. CASE m \notin handler[w].mats
        BY <1>0, <2>2, <3>1, <3>3 DEF Outstanding
      <3> QED
        BY <3>2, <3>3
    <2>4. CASE ~CommitArchive(w)
      <3>1. material' = material
        BY <2>1, <2>4, BatchShape
      <3>2. m \notin handler[w].mats
        BY <2>1, <2>4, <3>1, MovedTitlesLive
      <3>3. \A q \in Locations : holding'[<<m, q>>] = holding[<<m, q>>]
        BY <2>1, <3>2, ShelfMaterials
      <3>4. \A l \in Loans : loan'[l].issued[m] - loan'[l].returned[m] = Outstanding(l, m)
        BY <2>1, <3>2, LoanMaterials
      <3> QED
        BY <1>0, <2>2, <3>1, <3>3, <3>4
    <2> QED
      BY <2>3, <2>4
  <1>2. CASE HandOut
    <2>1. PICK s \in Slots, n \in 1..MaxMove, l \in Loans : IssueReserved(s, n, l)
      BY <1>2 DEF HandOut
    <2>2. material' = material /\ material[s[1]] = "active"
      BY <2>1 DEF IssueReserved, MaterialsActive
    <2>3. \A q \in Locations : <<m, q>> \in Slots \ {s}
      BY <2>2 DEF Slots
    <2>4. \A q \in Locations : /\ holding'[<<m, q>>] = holding[<<m, q>>]
                               /\ reserved'[<<m, q>>] = reserved[<<m, q>>]
      BY <2>1, <2>3, HandedOut
    <2>5. \A k \in Loans : loan'[k].issued[m] = loan[k].issued[m]
                           /\ loan'[k].returned = loan[k].returned
      BY <2>1, <2>2, HandedOut
    <2> QED
      BY <1>0, <2>2, <2>4, <2>5 DEF Outstanding
  <1>3. CASE Reservation
    <2>1. /\ UNCHANGED <<material, holding, loan>> /\ reserved' \in [Slots -> Nat]
          /\ \A s \in Slots : reserved'[s] > reserved[s] => material[s[1]] = "active"
      BY <1>3, ReservationEffect
    <2>2. \A q \in Locations : /\ <<m, q>> \in Slots /\ <<m, q>>[1] = m
                               /\ reserved[<<m, q>>] \in Nat /\ reserved'[<<m, q>>] \in Nat
      BY <2>1 DEF Slots, TypeOK
    <2>3. \A q \in Locations : ~(reserved'[<<m, q>>] > reserved[<<m, q>>])
      BY <2>1, <2>2
    <2> QED
      BY <1>0, <2>1, <2>2, <2>3 DEF Outstanding
  <1>4. CASE Reading \/ Placement \/ UNCHANGED vars
    <2>1. UNCHANGED <<material, holding, reserved, loan>>
      BY <1>4, PlanningSound DEF Reading, Placement, CloseLocation, ReopenLocation, vars, stock
    <2> QED
      BY <1>0, <2>1 DEF Outstanding
  <1> QED
    BY <1>1, <1>2, <1>3, <1>4, StepCases

(* A removed title has no copy on a shelf, with a teacher or in an order,  *)
(* although the batch of a return never looks at the title's status.       *)
THEOREM ArchivedEmpty == Spec => []ArchivedHasNothing
  <1>1. Init => ArchivedHasNothing
    BY DEF Init, ArchivedHasNothing
  <1>2. Init => LoansRight
    <2> SUFFICES ASSUME Init, NEW l \in Loans PROVE LoanRight(loan[l])
      BY LoansRightByLoan
    <2> QED
      BY DEF Init, LoanRight, NewLoan, Zero
  <1> QED
    BY <1>1, <1>2, LoansRightStep, ArchivedStep, TypeCorrect, PTL DEF Spec

-----------------------------------------------------------------------------
(* Stock totals *)

LEMMA SameSummands ==
  ASSUME NEW m, NEW h, NEW ln, NEW rv, NEW h2, NEW ln2, NEW rv2,
         \A q \in Locations : h[<<m, q>>] = h2[<<m, q>>] /\ rv[<<m, q>>] = rv2[<<m, q>>],
         \A l \in Loans : ln[l].issued[m] - ln[l].returned[m] = ln2[l].issued[m] - ln2[l].returned[m]
  PROVE  TotalsOf(m, h, ln, rv) = TotalsOf(m, h2, ln2, rv2)
  <1>1. [p \in Locations |-> h[<<m, p>>].qty] = [p \in Locations |-> h2[<<m, p>>].qty]
    OBVIOUS
  <1>2. [p \in Locations |-> rv[<<m, p>>]] = [p \in Locations |-> rv2[<<m, p>>]]
    OBVIOUS
  <1>3. [l \in Loans |-> ln[l].issued[m] - ln[l].returned[m]]
            = [l \in Loans |-> ln2[l].issued[m] - ln2[l].returned[m]]
    OBVIOUS
  <1> QED
    BY <1>1, <1>2, <1>3 DEF TotalsOf

LEMMA TotalsStep ==
  TypeOK /\ PlansKnown /\ LoansRight /\ StockTotalsFresh /\ [Next]_vars => StockTotalsFresh'
  <1> SUFFICES ASSUME TypeOK, PlansKnown, LoansRight, StockTotalsFresh, [Next]_vars,
                      NEW m \in Materials
               PROVE  totals'[m] = TotalsOf(m, holding', loan', reserved')
    BY DEF StockTotalsFresh, TotalsOf
  <1>0. totals[m] = TotalsOf(m, holding, loan, reserved)
    BY DEF StockTotalsFresh
  <1>1. ASSUME NEW ms \in SUBSET Materials, RebuildStockTotals(ms),
               m \notin ms => /\ \A q \in Locations : /\ holding'[<<m, q>>] = holding[<<m, q>>]
                                                      /\ reserved'[<<m, q>>] = reserved[<<m, q>>]
                              /\ \A l \in Loans : loan'[l].issued[m] - loan'[l].returned[m]
                                                    = loan[l].issued[m] - loan[l].returned[m]
        PROVE  totals'[m] = TotalsOf(m, holding', loan', reserved')
    <2>1. CASE m \in ms
      BY <1>1, <2>1 DEF RebuildStockTotals
    <2>2. CASE m \notin ms
      <3>1. totals'[m] = totals[m]
        BY <1>1, <2>2 DEF RebuildStockTotals
      <3>2. TotalsOf(m, holding', loan', reserved') = TotalsOf(m, holding, loan, reserved)
        BY <1>1, <2>2, SameSummands
      <3> QED
        BY <1>0, <3>1, <3>2
    <2> QED
      BY <2>1, <2>2
  <1>2. ASSUME UNCHANGED <<totals, holding, loan, reserved>>
        PROVE  totals'[m] = TotalsOf(m, holding', loan', reserved')
    BY <1>0, <1>2
  <1>3. CASE Batch
    <2>1. PICK w \in Workers : Committing(w)
      BY <1>3 DEF Batch
    <2>2. CASE CommitArchive(w)
      BY <1>2, <2>2 DEF CommitArchive, stock
    <2>3. CASE RebuildStockTotals(handler[w].mats)
      <3>1. handler[w].mats \in SUBSET Materials /\ reserved' = reserved
        BY <2>1, BatchShape DEF Plan
      <3>2. m \notin handler[w].mats =>
              /\ \A q \in Locations : holding'[<<m, q>>] = holding[<<m, q>>]
              /\ \A l \in Loans : loan'[l].issued[m] - loan'[l].returned[m] = Outstanding(l, m)
        BY <2>1, ShelfMaterials, LoanMaterials
      <3> QED
        BY <1>1, <2>3, <3>1, <3>2 DEF Outstanding
    <2> QED
      BY <2>1, <2>2, <2>3, BatchShape
  <1>4. CASE HandOut
    <2>1. PICK s \in Slots, n \in 1..MaxMove, l \in Loans : IssueReserved(s, n, l)
      BY <1>4 DEF HandOut
    <2>2. s[1] \in Materials /\ RebuildStockTotals({s[1]})
      BY <2>1 DEF IssueReserved, Slots
    <2>3. ASSUME m # s[1]
          PROVE  /\ \A q \in Locations : /\ holding'[<<m, q>>] = holding[<<m, q>>]
                                         /\ reserved'[<<m, q>>] = reserved[<<m, q>>]
                 /\ \A k \in Loans : loan'[k].issued[m] = loan[k].issued[m]
                                     /\ loan'[k].returned = loan[k].returned
      <3>1. \A q \in Locations : <<m, q>> \in Slots \ {s}
        BY <2>3 DEF Slots
      <3> QED
        BY <2>1, <2>3, <3>1, HandedOut
    <2> QED
      BY <1>1, <2>2, <2>3
  <1>5. CASE Reservation
    <2>1. /\ UNCHANGED <<holding, loan>>
          /\ \E k \in Materials : /\ RebuildStockTotals({k})
                                  /\ \A s \in Slots : s[1] # k => reserved'[s] = reserved[s]
      BY <1>5, ReservationEffect
    <2>2. PICK k \in Materials : /\ RebuildStockTotals({k})
                                 /\ \A s \in Slots : s[1] # k => reserved'[s] = reserved[s]
      BY <2>1
    <2>3. m # k => \A q \in Locations : reserved'[<<m, q>>] = reserved[<<m, q>>]
      BY <2>2 DEF Slots
    <2> QED
      BY <1>1, <2>1, <2>2, <2>3
  <1>6. CASE Reading \/ Placement \/ UNCHANGED vars
    <2>1. UNCHANGED <<totals, holding, loan, reserved>>
      BY <1>6, PlanningSound DEF Reading, Placement, CloseLocation, ReopenLocation, vars, stock
    <2> QED
      BY <1>2, <2>1
  <1> QED
    BY <1>3, <1>4, <1>5, <1>6, StepCases

(* The published totals are always those of the tables they summarise. *)
THEOREM TotalsCorrect == Spec => []StockTotalsFresh
  <1>1. Init => StockTotalsFresh
    BY DEF Init, StockTotalsFresh
  <1>2. Init => LoansRight
    <2> SUFFICES ASSUME Init, NEW l \in Loans PROVE LoanRight(loan[l])
      BY LoansRightByLoan
    <2> QED
      BY DEF Init, LoanRight, NewLoan, Zero
  <1> QED
    BY <1>1, <1>2, LoansRightStep, TotalsStep, TypeCorrect, PTL DEF Spec

-----------------------------------------------------------------------------
(* Closed places *)

LEMMA ClosedPlaceStep ==
  ASSUME TypeOK, PlansKnown, [Next]_vars, NEW s \in Slots,
         holding'[s].qty > holding[s].qty, location[s[2]] = "inactive"
  PROVE  \E w \in Workers : handler[w] # Idle /\ handler[w].op = "return" /\ handler'[w] = Idle
  <1>0. holding[s].qty \in Nat /\ s[2] \in Locations
    BY DEF TypeOK, RowType, Slots
  <1>1. CASE Batch
    <2>1. PICK w \in Workers : Committing(w)
      BY <1>1 DEF Batch
    <2>2. PICK p \in Plan : p = handler[w]
      BY <2>1, BatchShape
    <2>3. ~CommitArchive(w)
      BY <1>0 DEF CommitArchive, stock
    <2>4. MoveStock(p)
      BY <2>1, <2>2, <2>3, BatchShape
    <2>5. s \in p.touch
      BY <1>0, <2>4, MoveStockEffect
    <2>6. ~PlacesActive(p.touch) /\ ~PlacesActive({s})
      BY <2>5 DEF PlacesActive
    <2>7. ASSUME CommitCount(w) PROVE FALSE
      <3>1. p.seen[s].qty > 0 /\ After(p, s) = 0
        BY <2>2, <2>5, <2>6, <2>7 DEF CommitCount
      <3>2. holding[s] = p.seen[s] /\ holding'[s].qty = holding[s].qty + p.delta[s]
        BY <2>4, <2>5, MoveStockEffect DEF MoveStock, ShelvesUnchanged
      <3> QED
        BY <1>0, <3>1, <3>2 DEF After
    <2>8. CommitReturn(w)
      BY <2>1, <2>2, <2>3, <2>6, <2>7
         DEF Committing, CommitReceive, CommitTransfer, CommitWriteOff, CommitIssue
    <2> QED
      BY <2>1, <2>8, BatchShape DEF CommitReturn, Ready, TypeOK
  <1>2. CASE HandOut
    <2>1. PICK t \in Slots, n \in 1..MaxMove, l \in Loans : IssueReserved(t, n, l)
      BY <1>2 DEF HandOut
    <2>2. n \in Nat /\ (holding'[s].qty = holding[s].qty - n \/ holding'[s] = holding[s])
      BY <2>1, HandedOut
    <2> QED
      BY <1>0, <2>2
  <1>3. CASE Reading \/ Placement \/ Reservation \/ UNCHANGED vars
    <2>1. holding' = holding
      BY <1>3, PlanningSound, ReservationEffect
         DEF Reading, Placement, CloseLocation, ReopenLocation, vars, stock
    <2> QED
      BY <1>0, <2>1
  <1> QED
    BY <1>1, <1>2, <1>3, StepCases

(* Nothing but a return brings copies to a closed place. *)
THEOREM ClosedPlacesGuarded == Spec => OnlyReturnsReachClosedPlaces
  <1>1. TypeOK /\ PlansKnown /\ [Next]_vars =>
          [\A s \in Slots :
             holding'[s].qty > holding[s].qty /\ location[s[2]] = "inactive"
               => \E w \in Workers : /\ handler[w] # Idle /\ handler[w].op = "return"
                                     /\ handler'[w] = Idle]_vars
    BY ClosedPlaceStep
  <1> QED
    BY <1>1, TypeCorrect, PTL DEF Spec, OnlyReturnsReachClosedPlaces

-----------------------------------------------------------------------------
(* The copies of a title are conserved                                     *)

(* The copies of a title on the shelves and on loan, and what a plan adds  *)
(* to the shelves.                                                         *)
Shelved(h, m) == Sum([p \in Locations |-> h[<<m, p>>].qty], Locations)
Lent(ln, m) == Sum([l \in Loans |-> ln[l].issued[m] - ln[l].returned[m]], Loans)
Net(d, m) == Sum([p \in Locations |-> d[<<m, p>>]], Locations)

LEMMA TotalSplits ==
  ASSUME NEW m, NEW h, NEW ln, NEW rv
  PROVE  TotalsOf(m, h, ln, rv).total = Shelved(h, m) + Lent(ln, m)
  <1>1. /\ DOMAIN [p \in Locations |-> h[<<m, p>>].qty] = Locations
        /\ DOMAIN [l \in Loans |-> ln[l].issued[m] - ln[l].returned[m]] = Loans
    OBVIOUS
  <1> QED
    BY <1>1 DEF TotalsOf, Shelved, Lent, SumFunction, Sum

-----------------------------------------------------------------------------
(* Sums with one or two summands *)

LEMMA SumOfNone ==
  ASSUME NEW f, NEW S, IsFiniteSet(S), \A x \in S : f[x] = 0
  PROVE  Sum(f, S) = 0
  BY SumBounds

LEMMA SumOfOne ==
  ASSUME NEW f, NEW S, IsFiniteSet(S), NEW e \in S, f[e] \in Int,
         \A x \in S : x # e => f[x] = 0
  PROVE  Sum(f, S) = f[e]
  <1>1. Sum(f, S) = f[e] + Sum(f, S \ {e})
    <2>1. \A x \in S : f[x] \in Int
      OBVIOUS
    <2> QED
      BY <2>1, SumTake
  <1>2. IsFiniteSet(S \ {e}) /\ \A x \in S \ {e} : f[x] = 0
    BY FS_Subset
  <1>3. Sum(f, S \ {e}) = 0
    BY <1>2, SumOfNone
  <1> QED
    BY <1>1, <1>3

LEMMA SumOfTwo ==
  ASSUME NEW f, NEW S, IsFiniteSet(S), NEW a \in S, NEW b \in S, a # b,
         f[a] \in Int, f[b] \in Int, \A x \in S : x # a /\ x # b => f[x] = 0
  PROVE  Sum(f, S) = f[a] + f[b]
  <1>1. Sum(f, S) = f[a] + Sum(f, S \ {a})
    <2>1. \A x \in S : f[x] \in Int
      OBVIOUS
    <2> QED
      BY <2>1, SumTake
  <1>2. IsFiniteSet(S \ {a}) /\ b \in S \ {a} /\ \A x \in S \ {a} : x # b => f[x] = 0
    BY FS_Subset
  <1>3. Sum(f, S \ {a}) = f[b]
    BY <1>2, SumOfOne
  <1> QED
    BY <1>1, <1>3

-----------------------------------------------------------------------------
(* Plans *)

(* A plan says nothing of shelves it does not touch; what a transfer takes *)
(* it puts elsewhere, and an issue or a return moves between the shelves   *)
(* and the loan what the loan's row will say.                              *)
PlanBalanced(p) ==
  /\ \A s \in Slots \ p.touch : p.delta[s] = 0
  /\ p.op = "transfer" => \A m \in Materials : Net(p.delta, m) = 0
  /\ p.op = "issue" => \A m \in Materials : Net(p.delta, m) = -p.qty[m]
  /\ p.op = "return" /\ p.stage = "ready" => \A m \in Materials : Net(p.delta, m) = p.qty[m]
PlansBalanced == \A w \in Workers : handler[w] # Idle => PlanBalanced(handler[w])

LEMMA OneNet ==
  ASSUME NEW e, NEW m \in Materials, NEW q \in Locations, e[<<m, q>>] \in Int,
         \A p \in Locations : p # q => e[<<m, p>>] = 0
  PROVE  Net(e, m) = e[<<m, q>>]
  <1> DEFINE f == [p \in Locations |-> e[<<m, p>>]]
  <1>1. /\ f[q] \in Int /\ f[q] = e[<<m, q>>]
        /\ \A p \in Locations : p # q => f[p] = 0
    OBVIOUS
  <1>2. Net(e, m) = Sum(f, Locations)
    BY DEF Net
  <1> HIDE DEF f
  <1>3. Sum(f, Locations) = f[q]
    BY <1>1, SumOfOne, FiniteAssumption
  <1> QED
    BY <1>1, <1>2, <1>3

LEMMA OutsideNet ==
  ASSUME NEW e, NEW m \in Materials, \A p \in Locations : e[<<m, p>>] = 0
  PROVE  Net(e, m) = 0
  <1> DEFINE f == [p \in Locations |-> e[<<m, p>>]]
  <1>1. \A p \in Locations : f[p] = 0
    OBVIOUS
  <1>2. Net(e, m) = Sum(f, Locations)
    BY DEF Net
  <1> HIDE DEF f
  <1> QED
    BY <1>1, <1>2, SumOfNone, FiniteAssumption

LEMMA ShiftNet ==
  ASSUME NEW k \in Materials, NEW from \in Locations, NEW to \in Locations, from # to,
         NEW n \in 1..MaxMove, NEW m \in Materials, NEW e,
         \A s \in Slots : e[s] = IF s \in {<<k, from>>, <<k, to>>}
                                 THEN Shift(k, from, to, n)[s] ELSE 0
  PROVE  Net(e, m) = 0
  <1> DEFINE f == [p \in Locations |-> e[<<m, p>>]]
  <1>0. n \in Int
    BY BoundAssumption
  <1>1. /\ Shift(k, from, to, n)[<<k, from>>] = -n /\ Shift(k, from, to, n)[<<k, to>>] = n
    BY DEF Shift
  <1>2. Net(e, m) = Sum(f, Locations)
    BY DEF Net
  <1>3. CASE m = k
    <2>1. f[from] = -n /\ f[to] = n /\ \A p \in Locations : p # from /\ p # to => f[p] = 0
      BY <1>1, <1>3 DEF Slots
    <2> HIDE DEF f
    <2>2. f[from] \in Int /\ f[to] \in Int
      BY <1>0, <2>1
    <2>3. Sum(f, Locations) = f[from] + f[to]
      BY <2>1, <2>2, SumOfTwo, FiniteAssumption
    <2> QED
      BY <1>0, <1>2, <2>1, <2>3
  <1>4. CASE m # k
    <2>1. \A p \in Locations : f[p] = 0
      BY <1>4 DEF Slots
    <2> HIDE DEF f
    <2>2. Sum(f, Locations) = 0
      BY <2>1, SumOfNone, FiniteAssumption
    <2> QED
      BY <1>2, <2>2
  <1> QED
    BY <1>3, <1>4

(* What a handler writes when it plans. *)
Settles(w, p) == handler' = [handler EXCEPT ![w] = p] /\ PlanBalanced(p)

LEMMA StockBalanced ==
  ASSUME NEW w \in Workers, NEW kind \in {"receive", "count", "writeoff"}, NEW r,
         NEW S \in SUBSET Slots, NEW d, Plans(w, StockPlan(kind, r, S, d))
  PROVE  \E p : Settles(w, p)
  <1> DEFINE p == StockPlan(kind, r, S, d)
  <1>1. p.op = kind /\ p.touch = S /\ \A s \in Slots \ p.touch : p.delta[s] = 0
    BY DEF StockPlan
  <1>2. PlanBalanced(p)
    <2> HIDE DEF p
    <2> QED
      BY <1>1 DEF PlanBalanced
  <1> QED
    BY <1>2 DEF Settles, Plans

LEMMA TransferBalanced ==
  ASSUME NEW w \in Workers, NEW r \in Requests, PlanTransfer(w, r)
  PROVE  \E p : Settles(w, p)
  <1>1. PICK m \in Materials, from, to \in Locations, n \in 1..MaxMove :
          /\ from # to
          /\ Plans(w, StockPlan("transfer", r, {<<m, from>>, <<m, to>>}, Shift(m, from, to, n)))
    BY DEF PlanTransfer
  <1> DEFINE S == {<<m, from>>, <<m, to>>}
             p == StockPlan("transfer", r, S, Shift(m, from, to, n))
  <1>2. S \in SUBSET Slots
    BY DEF Slots
  <1>3. /\ p.op = "transfer" /\ \A s \in Slots \ p.touch : p.delta[s] = 0
        /\ \A s \in Slots : p.delta[s] = IF s \in S THEN Shift(m, from, to, n)[s] ELSE 0
    BY <1>2 DEF StockPlan
  <1>4. PlanBalanced(p)
    <2> HIDE DEF p
    <2>1. \A k \in Materials : Net(p.delta, k) = 0
      BY <1>1, <1>3, ShiftNet
    <2> QED
      BY <1>3, <2>1 DEF PlanBalanced
  <1> QED
    BY <1>1, <1>4 DEF Settles, Plans

LEMMA IssueBalanced ==
  ASSUME NEW w \in Workers, NEW r \in Requests, PlanIssue(w, r)
  PROVE  \E p : Settles(w, p)
  <1>1. PICK M \in (SUBSET Materials) \ {{}} : \E at \in [M -> Locations], n \in [M -> 1..MaxMove] :
             Plans(w, [StockPlan("issue", r, Basket(at), [s \in Basket(at) |-> -n[s[1]]])
                       EXCEPT !.qty = Quantities(n)])
    BY DEF PlanIssue
  <1>2. PICK at \in [M -> Locations], n \in [M -> 1..MaxMove] :
             Plans(w, [StockPlan("issue", r, Basket(at), [s \in Basket(at) |-> -n[s[1]]])
                       EXCEPT !.qty = Quantities(n)])
    BY <1>1
  <1> DEFINE d == [s \in Basket(at) |-> -n[s[1]]]
             e == [s \in Slots |-> IF s \in Basket(at) THEN d[s] ELSE 0]
             b == StockPlan("issue", r, Basket(at), d)
             p == [b EXCEPT !.qty = Quantities(n)]
  <1>3. Basket(at) \in SUBSET Slots /\ \A m \in M : n[m] \in Nat
    BY BasketTyped
  <1>4. p.op = "issue" /\ p.touch = Basket(at) /\ p.delta = e /\ p.qty = Quantities(n)
    BY DEF StockPlan
  <1>5. \A m \in M : d[<<m, at[m]>>] = -n[m] /\ d[<<m, at[m]>>] \in Int
    BY <1>3 DEF Basket
  <1>6. \A s \in Slots \ Basket(at) : e[s] = 0
    OBVIOUS
  <1>7. ASSUME NEW m \in Materials PROVE Net(e, m) = -Quantities(n)[m]
    <2>0. \A s \in Slots : e[s] = IF s \in Basket(at) THEN d[s] ELSE 0
      OBVIOUS
    <2>1. ASSUME NEW t \in Locations
          PROVE  e[<<m, t>>] = IF m \in M /\ t = at[m] THEN d[<<m, t>>] ELSE 0
      <3>1. <<m, t>> \in Slots
        BY DEF Slots
      <3>2. <<m, t>> \in Basket(at) <=> m \in M /\ t = at[m]
        BY DEF Basket
      <3> HIDE DEF d, e
      <3> QED
        BY <2>0, <3>1, <3>2
    <2> HIDE DEF d, e
    <2>2. Quantities(n)[m] = IF m \in M THEN n[m] ELSE 0
      BY DEF Quantities
    <2>3. CASE m \in M
      <3>1. at[m] \in Locations /\ e[<<m, at[m]>>] = d[<<m, at[m]>>]
            /\ \A t \in Locations : t # at[m] => e[<<m, t>>] = 0
        BY <2>1, <2>3
      <3>2. Net(e, m) = d[<<m, at[m]>>]
        BY <1>5, <2>3, <3>1, OneNet
      <3> QED
        BY <1>5, <2>2, <2>3, <3>2
    <2>4. CASE m \notin M
      BY <2>1, <2>2, <2>4, OutsideNet
    <2> QED
      BY <2>3, <2>4
  <1>8. PlanBalanced(p)
    <2> HIDE DEF p, e
    <2> QED
      BY <1>4, <1>6, <1>7 DEF PlanBalanced
  <1> QED
    BY <1>2, <1>8 DEF Settles, Plans

LEMMA ReturnBalanced ==
  ASSUME NEW w \in Workers, PlanReturn(w)
  PROVE  \E p : Settles(w, p)
  <1> DEFINE q == handler[w]
  <1>1. PICK M \in (SUBSET Materials) \ {{}} : \E at \in [M -> Locations], n \in [M -> 1..MaxMove] :
             Plans(w, [StockPlan("return", q.req, Basket(at), [s \in Basket(at) |-> n[s[1]]])
                   EXCEPT !.loan = q.loan, !.loanVer = q.loanVer,
                          !.qty = Quantities(n), !.given = loan[q.loan].returned,
                          !.closes = \A m \in Materials :
                              Quantities(n)[m] = Outstanding(q.loan, m)])
    BY DEF PlanReturn
  <1>2. PICK at \in [M -> Locations], n \in [M -> 1..MaxMove] :
             Plans(w, [StockPlan("return", q.req, Basket(at), [s \in Basket(at) |-> n[s[1]]])
                   EXCEPT !.loan = q.loan, !.loanVer = q.loanVer,
                          !.qty = Quantities(n), !.given = loan[q.loan].returned,
                          !.closes = \A m \in Materials :
                              Quantities(n)[m] = Outstanding(q.loan, m)])
    BY <1>1
  <1> DEFINE c == \A m \in Materials : Quantities(n)[m] = Outstanding(q.loan, m)
             d == [s \in Basket(at) |-> n[s[1]]]
             e == [s \in Slots |-> IF s \in Basket(at) THEN d[s] ELSE 0]
             b == StockPlan("return", q.req, Basket(at), d)
             p == [b EXCEPT !.loan = q.loan, !.loanVer = q.loanVer,
                            !.qty = Quantities(n), !.given = loan[q.loan].returned,
                            !.closes = c]
  <1>3. Basket(at) \in SUBSET Slots /\ \A m \in M : n[m] \in Nat
    BY BasketTyped
  <1> HIDE DEF c
  <1>4. p.op = "return" /\ p.touch = Basket(at) /\ p.delta = e /\ p.qty = Quantities(n)
    BY DEF StockPlan
  <1>5. \A m \in M : d[<<m, at[m]>>] = n[m] /\ d[<<m, at[m]>>] \in Int
    BY <1>3 DEF Basket
  <1>6. \A s \in Slots \ Basket(at) : e[s] = 0
    OBVIOUS
  <1>7. ASSUME NEW m \in Materials PROVE Net(e, m) = Quantities(n)[m]
    <2>0. \A s \in Slots : e[s] = IF s \in Basket(at) THEN d[s] ELSE 0
      OBVIOUS
    <2>1. ASSUME NEW t \in Locations
          PROVE  e[<<m, t>>] = IF m \in M /\ t = at[m] THEN d[<<m, t>>] ELSE 0
      <3>1. <<m, t>> \in Slots
        BY DEF Slots
      <3>2. <<m, t>> \in Basket(at) <=> m \in M /\ t = at[m]
        BY DEF Basket
      <3> HIDE DEF d, e
      <3> QED
        BY <2>0, <3>1, <3>2
    <2> HIDE DEF d, e
    <2>2. Quantities(n)[m] = IF m \in M THEN n[m] ELSE 0
      BY DEF Quantities
    <2>3. CASE m \in M
      <3>1. at[m] \in Locations /\ e[<<m, at[m]>>] = d[<<m, at[m]>>]
            /\ \A t \in Locations : t # at[m] => e[<<m, t>>] = 0
        BY <2>1, <2>3
      <3>2. Net(e, m) = d[<<m, at[m]>>]
        BY <1>5, <2>3, <3>1, OneNet
      <3> QED
        BY <1>5, <2>2, <2>3, <3>2
    <2>4. CASE m \notin M
      BY <2>1, <2>2, <2>4, OutsideNet
    <2> QED
      BY <2>3, <2>4
  <1>8. PlanBalanced(p)
    <2> HIDE DEF p, e
    <2> QED
      BY <1>4, <1>6, <1>7 DEF PlanBalanced
  <1> QED
    BY <1>2, <1>8 DEF Settles, Plans, c

LEMMA EmptyBalanced ==
  /\ \A w \in Workers, r \in Requests : ReadLoan(w, r) => \E p : Settles(w, p)
  /\ \A w \in Workers, r \in Requests : PlanArchive(w, r) => \E p : Settles(w, p)
  <1>1. ASSUME NEW w \in Workers, NEW r \in Requests, ReadLoan(w, r) PROVE \E p : Settles(w, p)
    <2>1. PICK l \in Loans :
            Plans(w, [StockPlan("return", r, {}, <<>>)
                      EXCEPT !.stage = "loan", !.loan = l, !.loanVer = loan[l].ver])
      BY <1>1 DEF ReadLoan
    <2> DEFINE p == [StockPlan("return", r, {}, <<>>)
                     EXCEPT !.stage = "loan", !.loan = l, !.loanVer = loan[l].ver]
    <2>2. p.op = "return" /\ p.stage = "loan" /\ p.touch = {} /\ \A s \in Slots : p.delta[s] = 0
      BY DEF StockPlan
    <2>3. PlanBalanced(p)
      <3> HIDE DEF p
      <3> QED
        BY <2>2 DEF PlanBalanced
    <2> QED
      BY <2>1, <2>3 DEF Settles, Plans
  <1>2. ASSUME NEW w \in Workers, NEW r \in Requests, PlanArchive(w, r) PROVE \E p : Settles(w, p)
    <2>1. PICK m \in Materials : Plans(w, [StockPlan("archive", r, {}, <<>>) EXCEPT !.mats = {m}])
      BY <1>2 DEF PlanArchive
    <2> DEFINE p == [StockPlan("archive", r, {}, <<>>) EXCEPT !.mats = {m}]
    <2>2. p.op = "archive" /\ p.touch = {} /\ \A s \in Slots : p.delta[s] = 0
      BY DEF StockPlan
    <2>3. PlanBalanced(p)
      <3> HIDE DEF p
      <3> QED
        BY <2>2 DEF PlanBalanced
    <2> QED
      BY <2>1, <2>3 DEF Settles, Plans
  <1> QED
    BY <1>1, <1>2

LEMMA PlanningBalanced ==
  ASSUME NEW w \in Workers, Planning(w)
  PROVE  \E p : Settles(w, p)
  <1>1. ASSUME NEW r \in Requests, PlanReceive(w, r) PROVE \E p : Settles(w, p)
    <2>1. PICK s \in Slots, n \in 1..MaxMove : Plans(w, StockPlan("receive", r, {s}, [x \in {s} |-> n]))
      BY <1>1 DEF PlanReceive
    <2> QED
      BY <2>1, StockBalanced
  <1>2. ASSUME NEW r \in Requests, PlanCount(w, r) PROVE \E p : Settles(w, p)
    <2>1. PICK s \in Slots, c \in 0..MaxFund :
               Plans(w, StockPlan("count", r, {s}, [x \in {s} |-> c - holding[s].qty]))
      BY <1>2 DEF PlanCount
    <2> QED
      BY <2>1, StockBalanced
  <1>3. ASSUME NEW r \in Requests, PlanWriteOff(w, r) PROVE \E p : Settles(w, p)
    <2>1. PICK s \in Slots, n \in 1..MaxMove : Plans(w, StockPlan("writeoff", r, {s}, [x \in {s} |-> -n]))
      BY <1>3 DEF PlanWriteOff
    <2> QED
      BY <2>1, StockBalanced
  <1> QED
    BY <1>1, <1>2, <1>3, TransferBalanced, IssueBalanced, ReturnBalanced, EmptyBalanced DEF Planning

LEMMA BalancedStep == TypeOK /\ PlansBalanced /\ [Next]_vars => PlansBalanced'
  <1> SUFFICES ASSUME TypeOK, PlansBalanced, [Next]_vars, NEW w \in Workers, handler'[w] # Idle
               PROVE  PlanBalanced(handler'[w])
    BY DEF PlansBalanced
  <1>1. CASE handler'[w] = handler[w]
    BY <1>1 DEF PlansBalanced
  <1>2. CASE handler'[w] # handler[w]
    <2>1. ASSUME NEW v \in Workers, Planning(v) PROVE PlanBalanced(handler'[w])
      <3>1. PICK p : Settles(v, p)
        BY <2>1, PlanningBalanced
      <3>2. v = w /\ handler'[w] = p
        BY <1>2, <3>1 DEF Settles, TypeOK
      <3> QED
        BY <3>1, <3>2 DEF Settles
    <2>2. ASSUME NEW v \in Workers, Drop(v) PROVE FALSE
      BY <1>2, <2>2 DEF Drop, TypeOK
    <2>3. CASE Batch
      <3>1. PICK v \in Workers : handler' = [handler EXCEPT ![v] = Idle]
        BY <2>3, BatchShape DEF Batch
      <3> QED
        BY <1>2, <3>1 DEF TypeOK
    <2>4. CASE Placement
      BY <1>2, <2>4 DEF Placement, CloseLocation, ReopenLocation
    <2>5. CASE Reservation
      BY <1>2, <2>5 DEF Reservation, Reserve, Release
    <2>6. CASE HandOut
      BY <1>2, <2>6 DEF HandOut, IssueReserved
    <2>7. CASE UNCHANGED vars
      BY <1>2, <2>7 DEF vars
    <2> QED
      BY <2>1, <2>2, <2>3, <2>4, <2>5, <2>6, <2>7, StepCases DEF Reading
  <1> QED
    BY <1>1, <1>2

-----------------------------------------------------------------------------
(* What the steps do to the sums *)

Shifted(h, h2, d, m) ==
  \A p \in Locations : d[<<m, p>>] \in Int /\ h2[<<m, p>>].qty = h[<<m, p>>].qty + d[<<m, p>>]

LEMMA ShelvedMoves ==
  ASSUME NEW h \in [Slots -> RowType], NEW h2 \in [Slots -> RowType], NEW d, NEW m \in Materials,
         Shifted(h, h2, d, m)
  PROVE  /\ Shelved(h, m) \in Int /\ Net(d, m) \in Int
         /\ Shelved(h2, m) = Shelved(h, m) + Net(d, m)
  <1> DEFINE f == [p \in Locations |-> h[<<m, p>>].qty]
             g == [p \in Locations |-> d[<<m, p>>]]
             k == [p \in Locations |-> h2[<<m, p>>].qty]
  <1>1. \A p \in Locations : f[p] \in Int /\ g[p] \in Int /\ k[p] = f[p] + g[p]
    BY DEF Slots, RowType, Shifted
  <1>2. Shelved(h, m) = Sum(f, Locations) /\ Net(d, m) = Sum(g, Locations) /\ Shelved(h2, m) = Sum(k, Locations)
    BY DEF Shelved, Net
  <1> HIDE DEF f, g, k
  <1>3. Sum(f, Locations) \in Int /\ Sum(g, Locations) \in Int
    BY <1>1, SumIsInt, FiniteAssumption
  <1>4. Sum(k, Locations) = Sum(f, Locations) + Sum(g, Locations)
    BY <1>1, SumPlus, FiniteAssumption
  <1> QED
    BY <1>2, <1>3, <1>4

LEMMA ShelvedSame ==
  ASSUME NEW h, NEW h2, NEW m, \A p \in Locations : h2[<<m, p>>].qty = h[<<m, p>>].qty
  PROVE  Shelved(h2, m) = Shelved(h, m)
  <1>1. [p \in Locations |-> h2[<<m, p>>].qty] = [p \in Locations |-> h[<<m, p>>].qty]
    OBVIOUS
  <1> QED
    BY <1>1 DEF Shelved

Owed(q, m) == q.issued[m] - q.returned[m]

LEMMA OwedInt ==
  ASSUME NEW q \in LoanType, NEW m \in Materials
  PROVE  Owed(q, m) \in Int
  BY DEF LoanType, Owed

LEMMA LentMoves ==
  ASSUME NEW ln \in [Loans -> LoanType], NEW ln2 \in [Loans -> LoanType], NEW l \in Loans,
         \A k \in Loans \ {l} : ln2[k] = ln[k], NEW m \in Materials
  PROVE  /\ Lent(ln, m) \in Int
         /\ Lent(ln2, m) = Lent(ln, m) + (Owed(ln2[l], m) - Owed(ln[l], m))
  <1> DEFINE f == [k \in Loans |-> ln[k].issued[m] - ln[k].returned[m]]
             g == [k \in Loans |-> ln2[k].issued[m] - ln2[k].returned[m]]
  <1>1. \A k \in Loans : f[k] = Owed(ln[k], m) /\ g[k] = Owed(ln2[k], m)
    BY DEF Owed
  <1>2. Lent(ln, m) = Sum(f, Loans) /\ Lent(ln2, m) = Sum(g, Loans)
    BY DEF Lent
  <1> HIDE DEF f, g
  <1>3. \A k \in Loans : f[k] \in Int /\ g[k] \in Int
    BY <1>1, OwedInt
  <1>4. \A k \in Loans : k # l => f[k] = g[k]
    BY <1>1
  <1>5. Sum(f, Loans) \in Int
    BY <1>3, SumIsInt, FiniteAssumption
  <1>6. Sum(g, Loans) = Sum(f, Loans) + (g[l] - f[l])
    BY <1>3, <1>4, SumChange, FiniteAssumption
  <1> QED
    BY <1>1, <1>2, <1>5, <1>6

(* Copies on the shelves and on loan. *)
Held(h, ln, m) == Shelved(h, m) + Lent(ln, m)
Conserved(m) == Held(holding, loan, m) = fund[m]

LEMMA ConservedByTitle == CopiesConserved <=> \A m \in Materials : Conserved(m)
  BY TotalSplits DEF CopiesConserved, Conserved, Held

(* A batch that moves stock adds its plan's net quantity to the shelves. *)
LEMMA MovedShelves ==
  ASSUME TypeOK, NEW p \in Plan, MoveStock(p), PlanBalanced(p), NEW m \in Materials
  PROVE  /\ Shelved(holding, m) \in Int /\ Net(p.delta, m) \in Int
         /\ Shelved(holding', m) = Shelved(holding, m) + Net(p.delta, m)
  <1>1. holding \in [Slots -> RowType] /\ holding' \in [Slots -> RowType] /\ p.delta \in [Slots -> Int]
    BY MoveStockEffect DEF TypeOK, Plan
  <1>2. \A s \in Slots : holding'[s].qty = holding[s].qty + p.delta[s]
    <2>1. \A s \in Slots : holding[s].qty \in Int
      BY <1>1 DEF RowType
    <2>2. \A s \in Slots \ p.touch : holding'[s] = holding[s] /\ p.delta[s] = 0
      BY MoveStockEffect DEF PlanBalanced
    <2>3. \A s \in p.touch : holding'[s].qty = holding[s].qty + p.delta[s]
      BY MoveStockEffect
    <2> QED
      BY <2>1, <2>2, <2>3
  <1>3. \A q \in Locations : /\ p.delta[<<m, q>>] \in Int
                             /\ holding'[<<m, q>>].qty = holding[<<m, q>>].qty + p.delta[<<m, q>>]
    BY <1>1, <1>2 DEF Slots
  <1> DEFINE h == holding
             h2 == holding'
             d == p.delta
  <1>4. h \in [Slots -> RowType] /\ h2 \in [Slots -> RowType]
    BY <1>1
  <1>5. Shifted(h, h2, d, m)
    BY <1>3 DEF Shifted
  <1> HIDE DEF h, h2, d
  <1>6. /\ Shelved(h, m) \in Int /\ Net(d, m) \in Int
        /\ Shelved(h2, m) = Shelved(h, m) + Net(d, m)
    BY <1>4, <1>5, ShelvedMoves
  <1> QED
    BY <1>6 DEF h, h2, d

(* The fund is told of what a receipt, a count or a write-off adds. *)
LEMMA FundMoves ==
  ASSUME TypeOK, NEW p \in Plan, PlanWellFormed(p), PlanBalanced(p), RecordFund(p), NEW m \in Materials,
         fund[m] \in Int
  PROVE  fund'[m] = fund[m] + Net(p.delta, m)
  <1>1. CASE m \in p.mats
    <2>1. DOMAIN [q \in Locations |-> p.delta[<<m, q>>]] = Locations
      OBVIOUS
    <2>2. SumFunction([q \in Locations |-> p.delta[<<m, q>>]]) = Net(p.delta, m)
      BY <2>1 DEF SumFunction, Net, Sum
    <2> QED
      BY <1>1, <2>2 DEF RecordFund
  <1>2. CASE m \notin p.mats
    <2>1. \A q \in Locations : p.delta[<<m, q>>] = 0
      BY <1>2 DEF PlanWellFormed, PlanBalanced, Slots
    <2>2. Net(p.delta, m) = 0
      BY <2>1, OutsideNet
    <2> QED
      BY <1>2, <2>2 DEF RecordFund
  <1> QED
    BY <1>1, <1>2

-----------------------------------------------------------------------------
(* Every step conserves *)

LEMMA IssueConserves ==
  ASSUME TypeOK, PlansKnown, PlansBalanced, UnusedLoansBlank, NEW w \in Workers, CommitIssue(w),
         NEW m \in Materials
  PROVE  Held(holding', loan', m) = Held(holding, loan, m)
  <1>1. PICK p \in Plan : p = handler[w]
    BY OpenedLoan
  <1>2. /\ PlanBalanced(p) /\ MoveStock(p) /\ p.op = "issue" /\ p.qty \in [Materials -> Nat]
    BY <1>1, OpenedLoan DEF CommitIssue, PlansBalanced, Ready, Plan
  <1>3. PICK l \in Loans :
          /\ loan[l].status = "none"
          /\ loan' = [loan EXCEPT ![l] = [status |-> "open", ver |-> 1,
                                          issued |-> p.qty, returned |-> Zero]]
          /\ loan' \in [Loans -> LoanType]
    BY <1>1, OpenedLoan
  <1>4. loan \in [Loans -> LoanType] /\ \A k \in Loans \ {l} : loan'[k] = loan[k]
    BY <1>3 DEF TypeOK
  <1>5. Owed(loan[l], m) = 0 /\ Owed(loan'[l], m) = p.qty[m] /\ p.qty[m] \in Nat
    BY <1>2, <1>3, <1>4 DEF UnusedLoansBlank, NewLoan, Zero, Owed
  <1> DEFINE a == loan
             b == loan'
  <1>6. a \in [Loans -> LoanType] /\ b \in [Loans -> LoanType] /\ \A k \in Loans \ {l} : b[k] = a[k]
    BY <1>3, <1>4
  <1>7. Owed(a[l], m) = 0 /\ Owed(b[l], m) = p.qty[m]
    BY <1>5
  <1>8. /\ Shelved(holding, m) \in Int /\ Net(p.delta, m) = -p.qty[m]
        /\ Shelved(holding', m) = Shelved(holding, m) + Net(p.delta, m)
    BY <1>2, MovedShelves DEF PlanBalanced
  <1> HIDE DEF a, b
  <1>9. Lent(a, m) \in Int /\ Lent(b, m) = Lent(a, m) + (Owed(b[l], m) - Owed(a[l], m))
    BY <1>6, LentMoves
  <1>10. Lent(b, m) = Lent(a, m) + p.qty[m]
    BY <1>5, <1>7, <1>9
  <1> QED
    BY <1>5, <1>8, <1>9, <1>10 DEF Held, a, b

LEMMA ReturnConserves ==
  ASSUME TypeOK, PlansKnown, PlansBalanced, NEW w \in Workers, CommitReturn(w), NEW m \in Materials
  PROVE  Held(holding', loan', m) = Held(holding, loan, m)
  <1>1. PICK p \in Plan : p = handler[w]
    BY ReturnedLoan
  <1>2. /\ PlanBalanced(p) /\ MoveStock(p) /\ p.op = "return" /\ p.stage = "ready"
        /\ p.qty \in [Materials -> Nat]
    BY <1>1 DEF CommitReturn, PlansBalanced, Ready, Plan
  <1>3. /\ p.loan \in Loans /\ loan' \in [Loans -> LoanType]
        /\ loan'[p.loan].issued = loan[p.loan].issued
        /\ loan'[p.loan].returned[m] = loan[p.loan].returned[m] + p.qty[m]
        /\ \A k \in Loans \ {p.loan} : loan'[k] = loan[k]
    BY <1>1, ReturnedLoan
  <1> DEFINE a == loan
             b == loan'
             l == p.loan
  <1>4. /\ a \in [Loans -> LoanType] /\ b \in [Loans -> LoanType] /\ l \in Loans
        /\ \A k \in Loans \ {l} : b[k] = a[k]
        /\ a[l] \in LoanType /\ p.qty[m] \in Nat
    BY <1>2, <1>3 DEF TypeOK
  <1>5. b[l].issued = a[l].issued /\ b[l].returned[m] = a[l].returned[m] + p.qty[m]
    BY <1>3
  <1>6. /\ Shelved(holding, m) \in Int /\ Net(p.delta, m) = p.qty[m]
        /\ Shelved(holding', m) = Shelved(holding, m) + Net(p.delta, m)
    BY <1>2, MovedShelves DEF PlanBalanced
  <1> HIDE DEF a, b, l
  <1>7. Lent(a, m) \in Int /\ Lent(b, m) = Lent(a, m) + (Owed(b[l], m) - Owed(a[l], m))
    BY <1>4, LentMoves
  <1>8. a[l].issued[m] \in Int /\ a[l].returned[m] \in Int
    BY <1>4 DEF LoanType
  <1>9. Owed(b[l], m) - Owed(a[l], m) = -p.qty[m]
    BY <1>4, <1>5, <1>8 DEF Owed
  <1>10. Lent(b, m) = Lent(a, m) - p.qty[m]
    BY <1>4, <1>7, <1>9
  <1> QED
    BY <1>4, <1>6, <1>7, <1>10 DEF Held, a, b

LEMMA HandOutConserves ==
  ASSUME TypeOK, NEW s \in Slots, NEW n \in 1..MaxMove, NEW l \in Loans, IssueReserved(s, n, l),
         NEW m \in Materials
  PROVE  Held(holding', loan', m) = Held(holding, loan, m)
  <1> DEFINE a == loan
             b == loan'
             h == holding
             h2 == holding'
  <1>1. /\ n \in Nat /\ h \in [Slots -> RowType] /\ h2 \in [Slots -> RowType]
        /\ a \in [Loans -> LoanType] /\ b \in [Loans -> LoanType]
        /\ h2[s].qty = h[s].qty - n /\ \A t \in Slots \ {s} : h2[t] = h[t]
        /\ b[l].returned = a[l].returned /\ b[l].issued[s[1]] = a[l].issued[s[1]] + n
        /\ \A k \in Materials \ {s[1]} : b[l].issued[k] = a[l].issued[k]
        /\ \A k \in Loans \ {l} : b[k] = a[k]
    BY HandedOut DEF TypeOK
  <1>2. s[1] \in Materials /\ s[2] \in Locations /\ s = <<s[1], s[2]>>
    BY DEF Slots
  <1> HIDE DEF a, b, h, h2
  <1>3. Lent(a, m) \in Int /\ Lent(b, m) = Lent(a, m) + (Owed(b[l], m) - Owed(a[l], m))
    BY <1>1, LentMoves
  <1>4. a[l].issued[m] \in Int /\ a[l].returned[m] \in Int
    BY <1>1 DEF LoanType
  <1>5. CASE m = s[1]
    <2> DEFINE d == [t \in Slots |-> IF t = s THEN -n ELSE 0]
    <2>1. Shifted(h, h2, d, m)
      <3>1. ASSUME NEW q \in Locations PROVE <<m, q>> \in Slots /\ h[<<m, q>>].qty \in Int
        BY <1>1 DEF Slots, RowType
      <3> QED
        BY <1>1, <3>1 DEF Shifted
    <2>2. d[<<m, s[2]>>] = -n /\ d[<<m, s[2]>>] \in Int /\ \A q \in Locations : q # s[2] => d[<<m, q>>] = 0
      BY <1>1, <1>2, <1>5 DEF Slots
    <2> HIDE DEF d
    <2>3. Shelved(h, m) \in Int /\ Shelved(h2, m) = Shelved(h, m) + Net(d, m)
      BY <1>1, <2>1, ShelvedMoves
    <2>4. Net(d, m) = -n
      BY <1>2, <2>2, OneNet
    <2>5. Owed(b[l], m) - Owed(a[l], m) = n
      BY <1>1, <1>4, <1>5 DEF Owed
    <2> QED
      BY <1>1, <1>3, <2>3, <2>4, <2>5 DEF Held, a, b, h, h2
  <1>6. CASE m # s[1]
    <2>1. \A q \in Locations : h2[<<m, q>>].qty = h[<<m, q>>].qty
      <3>1. \A q \in Locations : <<m, q>> \in Slots \ {s}
        BY <1>6 DEF Slots
      <3> QED
        BY <1>1, <3>1
    <2>2. Shelved(h2, m) = Shelved(h, m)
      BY <2>1, ShelvedSame
    <2>3. Owed(b[l], m) - Owed(a[l], m) = 0
      BY <1>1, <1>4, <1>6 DEF Owed
    <2>4. Lent(b, m) = Lent(a, m)
      BY <1>3, <2>3
    <2> QED
      BY <2>2, <2>4 DEF Held, a, b, h, h2
  <1> QED
    BY <1>5, <1>6

LEMMA LentInt ==
  ASSUME TypeOK, NEW m \in Materials
  PROVE  Lent(loan, m) \in Int
  <1> DEFINE a == loan
             f == [k \in Loans |-> a[k].issued[m] - a[k].returned[m]]
  <1>1. \A k \in Loans : f[k] \in Int
    BY DEF TypeOK, LoanType
  <1>2. Lent(a, m) = Sum(f, Loans)
    BY DEF Lent
  <1> HIDE DEF f, a
  <1>3. Lent(a, m) \in Int
    BY <1>1, <1>2, SumIsInt, FiniteAssumption
  <1> QED
    BY <1>3 DEF a

LEMMA CountConserves ==
  ASSUME TypeOK, PlansKnown, PlansBalanced, NEW w \in Workers, NEW m \in Materials, Conserved(m),
         CommitReceive(w) \/ CommitCount(w) \/ CommitWriteOff(w)
  PROVE  Conserved(m)'
  <1>1. Ready(w, handler[w].op) /\ MoveStock(handler[w]) /\ RecordFund(handler[w]) /\ loan' = loan
    BY DEF CommitReceive, CommitCount, CommitWriteOff, Ready
  <1>2. PICK p \in Plan : p = handler[w]
    BY <1>1 DEF Ready, TypeOK
  <1>3. PlanWellFormed(p) /\ PlanBalanced(p) /\ MoveStock(p) /\ RecordFund(p)
    BY <1>1, <1>2 DEF PlansKnown, PlansBalanced, Ready
  <1>4. /\ Shelved(holding, m) \in Int /\ Net(p.delta, m) \in Int
        /\ Shelved(holding', m) = Shelved(holding, m) + Net(p.delta, m)
    BY <1>3, MovedShelves
  <1>5. Lent(loan, m) \in Int /\ Lent(loan', m) = Lent(loan, m)
    BY <1>1, LentInt
  <1>6. fund[m] = Shelved(holding, m) + Lent(loan, m) /\ fund[m] \in Int
    BY <1>4, <1>5 DEF Conserved, Held
  <1>7. fund'[m] = fund[m] + Net(p.delta, m)
    BY <1>3, <1>6, FundMoves
  <1> QED
    BY <1>4, <1>5, <1>6, <1>7 DEF Conserved, Held

LEMMA TransferConserves ==
  ASSUME TypeOK, PlansKnown, PlansBalanced, NEW w \in Workers, NEW m \in Materials, CommitTransfer(w)
  PROVE  Held(holding', loan', m) = Held(holding, loan, m)
  <1>1. Ready(w, "transfer") /\ MoveStock(handler[w]) /\ loan' = loan
    BY DEF CommitTransfer
  <1>2. PICK p \in Plan : p = handler[w]
    BY <1>1 DEF Ready, TypeOK
  <1>3. PlanBalanced(p) /\ MoveStock(p) /\ p.op = "transfer"
    BY <1>1, <1>2 DEF PlansBalanced, Ready
  <1>4. Shelved(holding', m) = Shelved(holding, m)
    BY <1>3, MovedShelves DEF PlanBalanced
  <1> QED
    BY <1>1, <1>4 DEF Held

LEMMA ConservedStep ==
  TypeOK /\ PlansKnown /\ PlansBalanced /\ LoansRight /\ CopiesConserved /\ [Next]_vars
    => CopiesConserved'
  <1> SUFFICES ASSUME TypeOK, PlansKnown, PlansBalanced, LoansRight, [Next]_vars,
                      NEW m \in Materials, Conserved(m)
               PROVE  Conserved(m)'
    <2>1. CopiesConserved' <=> \A m \in Materials : Conserved(m)'
      BY ConservedByTitle, TotalSplits DEF CopiesConserved, Conserved, Held
    <2> QED
      BY <2>1, ConservedByTitle
  <1>1. CASE Batch
    <2>1. PICK w \in Workers : Committing(w)
      BY <1>1 DEF Batch
    <2>2. CASE CommitReceive(w) \/ CommitCount(w) \/ CommitWriteOff(w)
      BY <2>2, CountConserves
    <2>3. CASE CommitTransfer(w)
      BY <2>3, TransferConserves DEF Conserved, CommitTransfer
    <2>4. CASE CommitIssue(w)
      BY <2>4, IssueConserves DEF Conserved, CommitIssue, LoansRight
    <2>5. CASE CommitReturn(w)
      BY <2>5, ReturnConserves DEF Conserved, CommitReturn
    <2>6. CASE CommitArchive(w)
      BY <2>6 DEF Conserved, CommitArchive, stock
    <2> QED
      BY <2>1, <2>2, <2>3, <2>4, <2>5, <2>6 DEF Committing
  <1>2. CASE HandOut
    <2>1. PICK s \in Slots, n \in 1..MaxMove, l \in Loans : IssueReserved(s, n, l)
      BY <1>2 DEF HandOut
    <2> QED
      BY <2>1, HandOutConserves DEF Conserved, IssueReserved
  <1>3. CASE Reading \/ Placement \/ Reservation \/ UNCHANGED vars
    <2>1. UNCHANGED <<holding, loan, fund>>
      BY <1>3, PlanningSound, ReservationEffect
         DEF Reading, Placement, CloseLocation, ReopenLocation, vars, stock
    <2> QED
      BY <2>1 DEF Conserved
  <1> QED
    BY <1>1, <1>2, <1>3, StepCases

LEMMA ConservedInit == Init => CopiesConserved /\ PlansBalanced /\ LoansRight
  <1> SUFFICES ASSUME Init PROVE CopiesConserved /\ PlansBalanced /\ LoansRight
    OBVIOUS
  <1>1. PlansBalanced
    BY DEF Init, PlansBalanced
  <1>2. LoansRight
    <2> SUFFICES ASSUME NEW l \in Loans PROVE LoanRight(loan[l])
      BY LoansRightByLoan
    <2> QED
      BY DEF Init, LoanRight, NewLoan, Zero
  <1>3. ASSUME NEW m \in Materials PROVE Conserved(m)
    <2>1. PICK q \in Opening :
            /\ holding = [s \in Slots |-> Row(q[s], 1)]
            /\ fund = [k \in Materials |-> SumFunction([p \in Locations |-> q[<<k, p>>]])]
      BY DEF Init
    <2>2. q \in [Slots -> Nat]
      BY OpeningAssumption
    <2>3. \A p \in Locations : holding[<<m, p>>].qty = q[<<m, p>>]
      BY <2>1, <2>2, RowTyped DEF Slots
    <2>4. [p \in Locations |-> holding[<<m, p>>].qty] = [p \in Locations |-> q[<<m, p>>]]
      BY <2>3
    <2>5. fund[m] = Shelved(holding, m)
      <3>1. DOMAIN [p \in Locations |-> q[<<m, p>>]] = Locations
        OBVIOUS
      <3> QED
        BY <2>1, <2>4, <3>1 DEF Shelved, SumFunction, Sum
    <2>6. Lent(loan, m) = 0
      <3> DEFINE f == [l \in Loans |-> loan[l].issued[m] - loan[l].returned[m]]
      <3>1. \A l \in Loans : f[l] = 0
        BY DEF Init, NewLoan, Zero
      <3>2. Lent(loan, m) = Sum(f, Loans)
        BY DEF Lent
      <3> HIDE DEF f
      <3> QED
        BY <3>1, <3>2, SumOfNone, FiniteAssumption
    <2>7. Shelved(holding, m) \in Int
      <3> DEFINE f == [p \in Locations |-> holding[<<m, p>>].qty]
      <3>1. \A p \in Locations : f[p] \in Int
        BY <2>2, <2>3 DEF Slots
      <3>2. Shelved(holding, m) = Sum(f, Locations)
        BY DEF Shelved
      <3> HIDE DEF f
      <3> QED
        BY <3>1, <3>2, SumIsInt, FiniteAssumption
    <2> QED
      BY <2>5, <2>6, <2>7 DEF Conserved, Held
  <1> QED
    BY <1>1, <1>2, <1>3, ConservedByTitle

(* Copies are neither made nor lost by transfers, issues, returns and the  *)
(* handovers of orders: library-mutation-store.ts writes absolute numbers  *)
(* computed from an earlier read, and the versions and quantities in its   *)
(* WHERE clauses keep them true.                                           *)
THEOREM CopiesStayConserved == Spec => []CopiesConserved
  <1>1. Init => CopiesConserved /\ PlansBalanced /\ LoansRight
    BY ConservedInit
  <1>2. TypeOK /\ PlansKnown /\ (CopiesConserved /\ PlansBalanced /\ LoansRight) /\ [Next]_vars
          => (CopiesConserved /\ PlansBalanced /\ LoansRight)'
    BY ConservedStep, BalancedStep, LoansRightStep
  <1> QED
    BY <1>1, <1>2, TypeCorrect, PTL DEF Spec

(* What a handler knows between its reads and its batch stays true while   *)
(* the version it carries is current; a return that read the loan's row    *)
(* before its items still decides rightly whether the loan is closed.      *)
THEOREM PlansStayAccurate == Spec => []PlansAccurate
  <1>1. Init => LoansRight
    BY ConservedInit
  <1>2. PlansKnown /\ LoansRight => PlansAccurate
    BY DEF PlansAccurate, LoansRight
  <1> QED
    BY <1>1, <1>2, LoansRightStep, TypeCorrect, PTL DEF Spec
=============================================================================
