------------------------------ MODULE Acquisition ------------------------------
(***************************************************************************)
(* What teachers and pupils propose to buy, as src/lib/acquisition-store.ts*)
(* keeps it: proposals, the librarian's decisions about them, and the      *)
(* receipts of the stock that are counted towards them.                    *)
(*                                                                         *)
(* A handler reads the proposal first and writes in one atomic batch       *)
(* later.  The batch compares the version of the proposal and repeats the  *)
(* questions about other rows: the line of the receipt and whether the     *)
(* title became literature meanwhile.                                      *)
(*                                                                         *)
(* Abstractions: every proposal asks for as many copies (Sought); the limit*)
(* is that of one teacher, who sends all that Own names; dates are what    *)
(* they decide, the lines posted since the last order (timely), and a line *)
(* may be dated back.  Texts, events, audit rows and notifications, which  *)
(* are written in the same batch, are left out, and so is the hourly limit *)
(* of the public form, which only refuses.                                 *)
(***************************************************************************)
EXTENDS Integers, FiniteSets, Functions

CONSTANTS
    Proposals,      \* ids of proposals
    ShapeOf,        \* proposal -> "catalog", "manual" or "literature"
    Own,            \* proposals one teacher sends
    Workbook,       \* proposals an imported row becomes, one of them at a time
    Underway,       \* proposals ordered before the behaviour begins
    Works,          \* titles of the catalogue
    Adoptable,      \* those that may become literature
    Lines,          \* lines of receipts
    Buyers,         \* concurrently running handler invocations
    Sought,         \* copies a proposal asks for
    ProposalLimit,  \* active proposals of one teacher (50)
    Browsing, NoWork, NoReceipt,    \* model values
    MaxDeal         \* bound: version of a proposal

ASSUME AcquisitionBounds ==
    /\ {Sought, ProposalLimit, MaxDeal} \subseteq Nat \ {0}
    /\ Underway # {} => MaxDeal > 2
ASSUME AcquisitionValues ==
    /\ Own \cup Workbook \cup Underway \subseteq Proposals /\ Adoptable \subseteq Works
    /\ Workbook \cap Underway = {}
    /\ ShapeOf \in [Proposals -> {"catalog", "manual", "literature"}]
    /\ NoWork \notin Works /\ NoReceipt \notin Lines
ASSUME AcquisitionTables == IsFiniteSet(Proposals) /\ IsFiniteSet(Lines) /\ IsFiniteSet(Buyers)

VARIABLES
    proposal,       \* row of acquisition_requests
    receipt,        \* line -> line of a posted receipt of the stock
    timely,         \* proposal -> lines posted since its last order
    spent,          \* <<proposal, line>> -> row of acquisition_receipt_allocations
    adopted,        \* titles that literature took over
    buyer           \* handler -> what it has read and is about to write

acquisitionVars == <<proposal, receipt, timely, spent, adopted, buyer>>

Finished == {"received", "rejected", "cancelled"}
Considered == {"submitted", "in_review", "clarification", "approved", "planned"}
Unsettled == Considered \cup {"ordered", "partially_received"}

ProposalType ==
    [status : Unsettled \cup Finished \cup {"none"}, work : Works \cup {NoWork},
     approved : 0..Sought, ordered : 0..Sought, received : 0..Sought,
     hidden : BOOLEAN, shelved : BOOLEAN, ver : 0..MaxDeal]
ReceiptType == [posted : BOOLEAN, work : Works \cup {NoWork}, amount : 0..Sought]
Deal == [op : {"send", "import", "hide"}, of : Proposals]
        \cup [op : {"cancel", "act", "order", "receipt"}, of : Proposals, row : ProposalType,
              line : Lines \cup {NoReceipt}, n : 0..Sought, before : SUBSET Lines]

AcquisitionTypeOK ==
    /\ proposal \in [Proposals -> ProposalType]
    /\ receipt \in [Lines -> ReceiptType]
    /\ timely \in [Proposals -> SUBSET Lines]
    /\ spent \in [Proposals \X Lines -> 0..Sought]
    /\ adopted \subseteq Works
    /\ buyer \in [Buyers -> Deal \cup {Browsing}]

Proposal(status, work, approved, v) ==
    [status |-> status, work |-> work, approved |-> approved, ordered |-> 0,
     received |-> 0, hidden |-> FALSE, shelved |-> FALSE, ver |-> v]

AcquisitionInit ==
    /\ \E work \in [Underway -> Works \cup {NoWork}] :
         /\ \A r \in Underway : work[r] # NoWork <=> ShapeOf[r] = "catalog"
         /\ proposal = [r \in Proposals |->
                IF r \in Underway THEN [Proposal("ordered", work[r], Sought, 3)
                                       EXCEPT !.ordered = Sought]
                ELSE Proposal("none", NoWork, 0, 0)]
    /\ receipt = [l \in Lines |-> [posted |-> FALSE, work |-> NoWork, amount |-> 0]]
    /\ timely = [r \in Proposals |-> {}]
    /\ spent = [x \in Proposals \X Lines |-> 0]
    /\ adopted = {}
    /\ buyer = [b \in Buyers |-> Browsing]

-----------------------------------------------------------------------------
(* Questions *)

Stands(r) == proposal[r].status # "none"
Sent(S) == {r \in S : proposal[r].status \in Unsettled}
Ceiling(p) == IF p.approved = 0 THEN Sought ELSE p.approved
SpentOn(l) == SumFunctionOnSet([r \in Proposals |-> spent[<<r, l>>]], Proposals)
SpentFor(r) == SumFunctionOnSet([l \in Lines |-> spent[<<r, l>>]], Lines)
Posted == {l \in Lines : receipt[l].posted}
Educational(work) == work = NoWork \/ work \notin adopted
(* The line of a posted receipt of the title, not before the order, with n left. *)
Serves(r, l, work, n) ==
    /\ receipt[l].posted /\ receipt[l].work = work
    /\ l \in timely[r]
    /\ SpentOn(l) + n <= receipt[l].amount

Intend(b, d) ==
    /\ buyer[b] = Browsing
    /\ buyer' = [buyer EXCEPT ![b] = d]
    /\ UNCHANGED <<proposal, receipt, timely, spent, adopted>>
(* What a proposal is to become: the row, and the amount of a line it takes. *)
Turning(b, r, op, row, l, n) ==
    /\ Stands(r) /\ proposal[r].ver < MaxDeal
    /\ Intend(b, [op |-> op, of |-> r, line |-> l, n |-> n,
                  before |-> IF op = "order" THEN Posted ELSE {},
                  row |-> [row EXCEPT !.ver = @ + 1]])
Decide(b, r, op, row, l, n) == Educational(proposal[r].work) /\ Turning(b, r, op, row, l, n)
Turn(b, r, from, to) ==
    /\ proposal[r].status \in from
    /\ Decide(b, r, "act", [proposal[r] EXCEPT !.status = to], NoReceipt, 0)

-----------------------------------------------------------------------------
(* Proposals are sent *)

(* The limit is counted before the batch, and the batch does not repeat it. *)
PlanSend(b, r) ==
    /\ ~Stands(r) /\ r \notin Workbook
    /\ r \in Own => Cardinality(Sent(Own)) < ProposalLimit
    /\ Intend(b, [op |-> "send", of |-> r])
(* commitAcquisitionImport: the workbook was not imported as far as the handler sees. *)
PlanImport(b, r) ==
    /\ r \in Workbook
    /\ \A q \in Workbook : ~Stands(q)
    /\ Intend(b, [op |-> "import", of |-> r])
Appear(r) ==
    \E w \in Works \cup {NoWork} :
        /\ (w # NoWork) <=> (ShapeOf[r] = "catalog")
        /\ Educational(w)
        /\ proposal' = [proposal EXCEPT ![r] = Proposal("submitted", w, 0, 1)]
Done(b) == buyer' = [buyer EXCEPT ![b] = Browsing]
CommitSend(b) ==
    LET d == buyer[b] IN
    /\ d # Browsing /\ d.op = "send"
    /\ ~Stands(d.of)                    \* submission_key is unique
    /\ Appear(d.of) /\ Done(b)
    /\ UNCHANGED <<receipt, timely, spent, adopted>>
NotImported(S) == \A q \in S : ~Stands(q)
CommitImport(b) ==
    LET d == buyer[b] IN
    /\ d # Browsing /\ d.op = "import"
    /\ ~Stands(d.of) /\ NotImported(Workbook)
    /\ Appear(d.of) /\ Done(b)
    /\ UNCHANGED <<receipt, timely, spent, adopted>>

-----------------------------------------------------------------------------
(* What is decided about them: applyLibrarianAcquisitionAction *)

StartReview(b, r) == Turn(b, r, {"submitted", "clarification"}, "in_review")
AskMore(b, r) == Turn(b, r, {"submitted", "in_review", "approved", "planned"}, "clarification")
Schedule(b, r) == Turn(b, r, {"approved"}, "planned")
Decline(b, r, to) ==
    to \in {"rejected", "cancelled"} /\ Turn(b, r, Unsettled \ {"partially_received"}, to)
(* cancelTeacherAcquisitionRequest asks for nothing but the status and the version. *)
TakeBack(b, r) ==
    /\ r \in Own /\ proposal[r].status \in Considered
    /\ Turning(b, r, "cancel", [proposal[r] EXCEPT !.status = "cancelled"], NoReceipt, 0)
Agree(b, r, n) ==
    /\ proposal[r].status \in {"submitted", "in_review", "clarification"} /\ n > 0
    /\ Decide(b, r, "act", [proposal[r] EXCEPT !.status = "approved", !.approved = n], NoReceipt, 0)
Order(b, r, n) ==
    LET p == proposal[r] IN
    /\ p.status \in {"approved", "planned", "ordered"}
    /\ n > 0 /\ n <= Ceiling(p) /\ n >= p.received
    /\ Decide(b, r, "order",
              [p EXCEPT !.ordered = n,
                        !.status = IF p.received > 0 THEN "partially_received" ELSE "ordered"],
              NoReceipt, 0)
LinkMaterial(b, r, w) ==
    LET p == proposal[r] IN
    /\ ShapeOf[r] # "literature"
    /\ p.status \in {"approved", "planned", "ordered", "partially_received"}
    /\ Educational(w)
    /\ p.received > 0 => w = p.work
    /\ Decide(b, r, "act", [p EXCEPT !.work = w], NoReceipt, 0)
LinkReceipt(b, r, l, n) ==
    LET p == proposal[r] IN
    /\ ShapeOf[r] # "literature" /\ p.work # NoWork
    /\ p.status \in {"ordered", "partially_received"}
    /\ n > 0 /\ Serves(r, l, p.work, n) /\ p.received + n <= p.ordered
    /\ Decide(b, r, "receipt",
              [p EXCEPT !.received = @ + n,
                        !.status = IF p.received + n = p.ordered THEN "received"
                                   ELSE "partially_received"], l, n)
(* Literature arrives in another system, and the librarian says how much of it. *)
Arrived(b, r, n) ==
    LET p == proposal[r] IN
    /\ ShapeOf[r] = "literature"
    /\ p.status \in {"approved", "planned", "ordered", "partially_received"}
    /\ n > 0 /\ n <= Ceiling(p)
    /\ Decide(b, r, "act", [p EXCEPT !.status = "received", !.received = n, !.work = NoWork,
                                     !.ordered = IF n > @ THEN n ELSE @], NoReceipt, 0)

(* The batch: WHERE id = ? AND version = ?, the guard of the title and, for a     *)
(* receipt, a row whose line no longer serves is NULL and stops the batch.  The   *)
(* order is dated when its call began: a line posted meanwhile may serve it.      *)
VersionRead(r, row) == proposal[r].ver = row.ver - 1
CommitDecision(b) ==
    LET d == buyer[b] IN
    /\ d # Browsing /\ d.op \in {"cancel", "act", "order", "receipt"}
    /\ VersionRead(d.of, d.row)
    /\ d.op # "cancel" => Educational(d.row.work)
    /\ d.op = "receipt" => Serves(d.of, d.line, d.row.work, d.n)
    /\ proposal' = [proposal EXCEPT
           ![d.of] = [d.row EXCEPT !.hidden = proposal[d.of].hidden,
                                   !.shelved = proposal[d.of].shelved]]
    /\ IF d.op = "order"
       THEN \E meanwhile \in SUBSET (Posted \ d.before) :
              timely' = [timely EXCEPT ![d.of] = meanwhile]
       ELSE UNCHANGED timely
    /\ spent' = IF d.op = "receipt" THEN [spent EXCEPT ![<<d.of, d.line>>] = @ + d.n] ELSE spent
    /\ Done(b)
    /\ UNCHANGED <<receipt, adopted>>
(* A batch that does not go through writes nothing, and neither does a call that dies. *)
DropDeal(b) ==
    /\ buyer[b] # Browsing /\ Done(b)
    /\ UNCHANGED <<proposal, receipt, timely, spent, adopted>>

-----------------------------------------------------------------------------
(* What is put out of sight, and what comes from outside *)

Show(r, row) ==
    /\ proposal' = [proposal EXCEPT ![r] = row]
    /\ UNCHANGED <<receipt, timely, spent, adopted>>
(* setLibrarianAcquisitionVisibility asks for the status before its batch only. *)
PlanHide(b, r) ==
    /\ proposal[r].status \in Finished /\ ~proposal[r].hidden
    /\ Intend(b, [op |-> "hide", of |-> r])
CommitHide(b) ==
    LET d == buyer[b] IN
    /\ d # Browsing /\ d.op = "hide"
    /\ ~proposal[d.of].hidden
    /\ Show(d.of, [proposal[d.of] EXCEPT !.hidden = TRUE]) /\ Done(b)
Unhide(r) ==
    /\ proposal[r].hidden
    /\ Show(r, [proposal[r] EXCEPT !.hidden = FALSE]) /\ UNCHANGED buyer
HideFinished ==
    LET old == {r \in Proposals : proposal[r].status \in Finished /\ ~proposal[r].hidden} IN
    /\ old # {}
    /\ proposal' = [r \in Proposals |-> IF r \in old THEN [proposal[r] EXCEPT !.hidden = TRUE]
                                        ELSE proposal[r]]
    /\ UNCHANGED <<receipt, timely, spent, adopted, buyer>>
(* A teacher may put aside a proposal of any status. *)
SetAside(r, v) ==
    /\ Stands(r) /\ r \in Own /\ proposal[r].shelved # v
    /\ Show(r, [proposal[r] EXCEPT !.shelved = v]) /\ UNCHANGED buyer
(* external: a receipt of the stock; dated back it is too early for some orders *)
Post(l, w, n, early) ==
    /\ ~receipt[l].posted /\ n > 0
    /\ receipt' = [receipt EXCEPT ![l] = [posted |-> TRUE, work |-> w, amount |-> n]]
    /\ timely' = [r \in Proposals |-> IF Stands(r) /\ r \notin early THEN timely[r] \cup {l}
                                      ELSE timely[r]]
    /\ UNCHANGED <<proposal, spent, adopted, buyer>>
(* external: a title of the catalogue becomes literature *)
Adopt(w) ==
    /\ w \notin adopted
    /\ adopted' = adopted \cup {w}
    /\ UNCHANGED <<proposal, receipt, timely, spent, buyer>>

-----------------------------------------------------------------------------
ByTheLibrarian(b, r) ==
    \/ StartReview(b, r) \/ AskMore(b, r) \/ Schedule(b, r)
    \/ \E to \in {"rejected", "cancelled"} : Decline(b, r, to)
    \/ \E n \in 1..Sought : Agree(b, r, n) \/ Order(b, r, n) \/ Arrived(b, r, n)
    \/ \E w \in Works : LinkMaterial(b, r, w)
    \/ \E l \in Lines, n \in 1..Sought : LinkReceipt(b, r, l, n)
AcquisitionNext ==
    \/ \E b \in Buyers, r \in Proposals :
        \/ PlanSend(b, r) \/ PlanImport(b, r) \/ TakeBack(b, r) \/ PlanHide(b, r)
        \/ ByTheLibrarian(b, r)
    \/ \E b \in Buyers :
        CommitSend(b) \/ CommitImport(b) \/ CommitDecision(b) \/ CommitHide(b) \/ DropDeal(b)
    \/ \E r \in Proposals : Unhide(r) \/ SetAside(r, TRUE) \/ SetAside(r, FALSE)
    \/ HideFinished
    \/ \E l \in Lines, w \in Works, n \in 1..Sought, early \in SUBSET Proposals :
        Post(l, w, n, early)
    \/ \E w \in Adoptable : Adopt(w)

AcquisitionSpec == AcquisitionInit /\ [][AcquisitionNext]_acquisitionVars

-----------------------------------------------------------------------------
(* No line of a receipt is counted towards proposals for more than it brought,  *)
(* though two proposals may be linked to it at once, and only towards proposals *)
(* of its title that were ordered before it.                                    *)
LinesCovered ==
    /\ \A l \in Lines : SpentOn(l) <= receipt[l].amount
    /\ \A r \in Proposals, l \in Lines :
         spent[<<r, l>>] > 0 => receipt[l].work = proposal[r].work /\ l \in timely[r]
(* What a proposal says it received is what its lines brought, within its order,  *)
(* and its status tells how far it is; only literature is received without lines. *)
ReceiptsAddUp ==
    \A r \in Proposals :
        LET p == proposal[r] IN
        /\ p.received <= p.ordered /\ p.ordered <= Ceiling(p)
        /\ ShapeOf[r] # "literature" => p.received = SpentFor(r)
        /\ ShapeOf[r] = "literature" =>
             SpentFor(r) = 0 /\ (p.received > 0 <=> p.status = "received")
        /\ p.status = "partially_received" => 0 < p.received /\ p.received < p.ordered
        /\ p.received > 0 => p.status \in {"partially_received", "received"}
(* The librarian misses no proposal that still asks for a decision, a workbook is  *)
(* imported once, and a teacher's own calls exceed the limit by overlapping only.  *)
NothingMissed ==
    /\ \A r \in Proposals : proposal[r].hidden => proposal[r].status \in Finished
    /\ Cardinality({r \in Workbook : Stands(r)}) <= 1
    /\ Cardinality(Sent(Own \ (Underway \cup Workbook))) < ProposalLimit + Cardinality(Buyers)
AcquisitionSound == LinesCovered /\ ReceiptsAddUp /\ NothingMissed

(* What is over stays as it was decided, no receipt is taken back, and the librarian *)
(* decides nothing about a title that became literature while a handler was at work. *)
Decision(p) == [status |-> p.status, approved |-> p.approved, ordered |-> p.ordered,
                received |-> p.received, work |-> p.work, ver |-> p.ver]
DecidedStep ==
    /\ \A r \in Proposals :
         /\ proposal[r].status \in Finished => Decision(proposal'[r]) = Decision(proposal[r])
         /\ proposal'[r].received >= proposal[r].received
         /\ \/ proposal'[r].ver = proposal[r].ver \/ proposal'[r].status = "cancelled"
            \/ Educational(proposal'[r].work)
    /\ \A x \in Proposals \X Lines : spent'[x] >= spent[x]
=============================================================================
