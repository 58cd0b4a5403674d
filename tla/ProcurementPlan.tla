---------------------------- MODULE ProcurementPlan ----------------------------
(***************************************************************************)
(* The plan of a year's purchases, as src/lib/procurement-planning-store.ts*)
(* and the triggers of drizzle/0029_swift_surge.sql keep it: classes,      *)
(* books, what the classes need of them, and the snapshots that signing    *)
(* the plan leaves.                                                        *)
(*                                                                         *)
(* An edit is one statement, which a trigger refuses unless the plan is a  *)
(* draft and which another trigger counts in the version of the plan.      *)
(* Signing reads the row of the plan, its contents table by table and the  *)
(* number of snapshots, and then writes the status and a snapshot of what  *)
(* it read in one batch.                                                   *)
(*                                                                         *)
(* Abstractions: a class has few pupils or many, a book is listed or not,  *)
(* and other columns change the version only; there is one plan, because a *)
(* year has one and no statement joins two; loans that are still open      *)
(* refuse the signing when it reads them and are not asked in the batch    *)
(* (GiveUpPlan).  The moment a call begins is <<v, k>>, the version its    *)
(* caller had seen and one of two milliseconds: whoever saw a change calls *)
(* later than it, so only calls about one version share their moment.      *)
(***************************************************************************)
EXTENDS Integers, Sequences

CONSTANTS
    Groups,         \* names of classes
    Resources,      \* books a plan may list
    Literary,       \* those whose card literature may take over
    Planners,       \* concurrently running handler invocations
    Unhurried,      \* model value: a handler with nothing to do
    MaxPlan         \* bound: version of the plan

ASSUME PlanBound == MaxPlan \in Nat \ {0}
ASSUME PlanValues == Literary \subseteq Resources

VARIABLES
    plan,           \* row of procurement_plans
    intake,         \* class -> row of procurement_plan_classes
    listed,         \* books with a row of procurement_plan_resources
    demand,         \* <<book, class>> with a row of procurement_plan_allocations
    literature,     \* books that became literature
    snapshots,      \* rows of procurement_plan_snapshots, in their sequence
    planner         \* handler -> what it has read

planVars == <<plan, intake, listed, demand, literature, snapshots, planner>>
content == <<intake, listed, demand>>

Millis == (0..MaxPlan) \X {0, 1}
Counts == {"absent", "unknown", "few", "many"}
PlanRow == [status : {"none", "draft", "finalized"}, ver : 0..MaxPlan, sure : BOOLEAN,
            at : Millis]
Contents == [classes : [Groups -> Counts], books : SUBSET Resources,
             needs : SUBSET (Resources \X Groups)]
Tables == {"classes", "books", "needs"}
Signing == [step : {"begun"}, at : Millis]
           \cup [step : {"read"}, at : Millis, what : Contents, left : SUBSET Tables]
           \cup [step : {"numbered"}, at : Millis, what : Contents, place : Nat \ {0}]
           \cup [step : {"prefill"}, todo : SUBSET Groups]

PlanTypeOK ==
    /\ plan \in PlanRow
    /\ intake \in [Groups -> Counts]
    /\ listed \subseteq Resources
    /\ demand \subseteq Resources \X Groups
    /\ literature \subseteq Literary
    /\ snapshots \in Seq(Contents)
    /\ planner \in [Planners -> Signing \cup {Unhurried}]

PlanInit ==
    /\ plan = [status |-> "none", ver |-> 0, sure |-> FALSE, at |-> <<0, 0>>]
    /\ intake = [g \in Groups |-> "absent"]
    /\ listed = {} /\ demand = {} /\ literature = {}
    /\ snapshots = <<>>
    /\ planner = [b \in Planners |-> Unhurried]

-----------------------------------------------------------------------------
Drawn == [classes |-> intake, books |-> listed, needs |-> demand]
Nothing == [classes |-> [g \in Groups |-> "absent"], books |-> {}, needs |-> {}]
Present(g) == intake[g] # "absent"
Draft == plan.status = "draft"
Bumped == [plan EXCEPT !.ver = @ + 1]
(* The triggers: a statement on the contents wants a draft, and counts.  A cascade *)
(* may count more than once, but versions are only compared.                       *)
Counted == Draft /\ plan.ver < MaxPlan /\ plan' = Bumped
RestOfPlan == UNCHANGED <<literature, snapshots, planner>>

CreatePlan ==
    /\ plan.status = "none"
    /\ plan' = [plan EXCEPT !.status = "draft", !.ver = 1]
    /\ UNCHANGED <<intake, listed, demand>> /\ RestOfPlan
(* update_plan: the librarian confirms that the revision is over, or takes it back. *)
UpdatePlan(sure) ==
    /\ Draft /\ plan.ver < MaxPlan
    /\ plan' = [Bumped EXCEPT !.sure = sure]
    /\ UNCHANGED <<intake, listed, demand>> /\ RestOfPlan
Reopen ==
    /\ plan.status = "finalized" /\ plan.ver < MaxPlan
    /\ plan' = [Bumped EXCEPT !.status = "draft", !.at = <<0, 0>>]
    /\ UNCHANGED <<intake, listed, demand>> /\ RestOfPlan

UpsertClass(g, n) ==
    /\ Counted /\ n # "absent"
    /\ intake' = [intake EXCEPT ![g] = n]
    /\ UNCHANGED <<listed, demand>> /\ RestOfPlan
RemoveClass(g) ==
    /\ Counted /\ Present(g)
    /\ intake' = [intake EXCEPT ![g] = "absent"]
    /\ demand' = demand \ (Resources \X {g})            \* ON DELETE CASCADE
    /\ UNCHANGED listed /\ RestOfPlan
AddResource(r) ==
    /\ Counted /\ r \notin listed /\ r \notin literature
    /\ listed' = listed \cup {r}
    /\ UNCHANGED <<intake, demand>> /\ RestOfPlan
RemoveResource(r) ==
    /\ Counted /\ r \in listed
    /\ listed' = listed \ {r}
    /\ demand' = demand \ ({r} \X Groups)               \* ON DELETE CASCADE
    /\ UNCHANGED intake /\ RestOfPlan
(* Another column of a book, or of what a class needs of it. *)
EditResource(r) ==
    /\ Counted /\ r \in listed \ literature
    /\ UNCHANGED <<intake, listed, demand>> /\ RestOfPlan
AddAllocation(r, g) ==
    /\ Counted /\ r \in listed \ literature /\ Present(g)
    /\ <<r, g>> \notin demand
    /\ demand' = demand \cup {<<r, g>>}
    /\ UNCHANGED <<intake, listed>> /\ RestOfPlan
MoveAllocation(r, g, to) ==
    /\ Counted /\ <<r, g>> \in demand /\ r \notin literature
    /\ Present(to) /\ <<r, to>> \notin demand
    /\ demand' = (demand \ {<<r, g>>}) \cup {<<r, to>>}
    /\ UNCHANGED <<intake, listed>> /\ RestOfPlan
RemoveAllocation(r, g) ==
    /\ Counted /\ <<r, g>> \in demand
    /\ demand' = demand \ {<<r, g>>}
    /\ UNCHANGED <<intake, listed>> /\ RestOfPlan
Edit ==
    \/ \E g \in Groups : RemoveClass(g) \/ \E n \in Counts : UpsertClass(g, n)
    \/ \E r \in Resources :
        \/ AddResource(r) \/ RemoveResource(r) \/ EditResource(r)
        \/ \E g \in Groups :
            \/ AddAllocation(r, g) \/ RemoveAllocation(r, g)
            \/ \E to \in Groups : MoveAllocation(r, g, to)

-----------------------------------------------------------------------------
(* Handlers of several steps *)

PlannerAt(b, state) == planner' = [planner EXCEPT ![b] = state]
Hold == UNCHANGED <<plan, intake, listed, demand, literature, snapshots>>

(* prefillClasses: one INSERT OR IGNORE for each class of the school *)
BeginPrefill(b) ==
    /\ planner[b] = Unhurried /\ Draft
    /\ PlannerAt(b, [step |-> "prefill", todo |-> Groups]) /\ Hold
PlannerDoes(b, s) == planner[b] # Unhurried /\ planner[b].step = s
PrefillOne(b, g) ==
    /\ PlannerDoes(b, "prefill") /\ g \in planner[b].todo
    /\ PlannerAt(b, IF planner[b].todo = {g} THEN Unhurried
                ELSE [step |-> "prefill", todo |-> planner[b].todo \ {g}])
    /\ IF Present(g) THEN Draft /\ UNCHANGED <<plan, intake>>
       ELSE Counted /\ intake' = [intake EXCEPT ![g] = "unknown"]
    /\ UNCHANGED <<listed, demand, literature, snapshots>>

(* set_status: finalized.  The caller has seen the version as it is. *)
BeginSigning(b, k) ==
    /\ planner[b] = Unhurried /\ Draft /\ plan.ver < MaxPlan
    /\ listed \cap literature = {}
    /\ PlannerAt(b, [step |-> "begun", at |-> <<plan.ver, k>>]) /\ Hold
Expected(b) == planner[b].at[1]
ReadRow(b) ==
    /\ PlannerDoes(b, "begun")
    /\ Draft /\ plan.ver = Expected(b) /\ plan.sure
    /\ \A g \in Groups : intake[g] # "unknown"
    /\ PlannerAt(b, [step |-> "read", at |-> planner[b].at, what |-> Nothing, left |-> Tables])
    /\ Hold
(* Four queries at once; that of the books that are literature finds none *)
ReadTable(b, t) ==
    /\ PlannerDoes(b, "read") /\ t \in planner[b].left
    /\ PlannerAt(b, [planner[b] EXCEPT !.what[t] = Drawn[t], !.left = @ \ {t}]) /\ Hold
ReadSequence(b) ==
    /\ PlannerDoes(b, "read") /\ planner[b].left = {}
    /\ PlannerAt(b, [step |-> "numbered", at |-> planner[b].at, what |-> planner[b].what,
                 place |-> Len(snapshots) + 1]) /\ Hold
(* The UPDATE may match nothing; the trigger then refuses the snapshot unless the *)
(* plan is final since this very moment, and the sequence is unique.              *)
Signable(b) == Draft /\ plan.ver = Expected(b) /\ listed \cap literature = {}
CommitSigning(b) ==
    LET row == IF Signable(b) THEN [Bumped EXCEPT !.status = "finalized", !.at = planner[b].at]
               ELSE plan
    IN
    /\ PlannerDoes(b, "numbered")
    /\ row.status = "finalized" /\ row.at = planner[b].at
    /\ planner[b].place = Len(snapshots) + 1
    /\ plan' = row
    /\ snapshots' = Append(snapshots, planner[b].what)
    /\ PlannerAt(b, Unhurried)
    /\ UNCHANGED <<intake, listed, demand, literature>>
(* A check that fails, a batch that is refused, a call that dies *)
GiveUpPlan(b) == planner[b] # Unhurried /\ PlannerAt(b, Unhurried) /\ Hold

(* external: the activation of a title of literature takes over the card of a book *)
BecomeLiterature(r) ==
    /\ r \in Literary \ literature
    /\ literature' = literature \cup {r}
    /\ UNCHANGED <<plan, intake, listed, demand, snapshots, planner>>

PlanNext ==
    \/ CreatePlan \/ Reopen \/ Edit
    \/ \E sure \in BOOLEAN : UpdatePlan(sure)
    \/ \E b \in Planners :
        \/ BeginPrefill(b) \/ (\E g \in Groups : PrefillOne(b, g))
        \/ BeginSigning(b, 0) \/ BeginSigning(b, 1)
        \/ ReadRow(b) \/ (\E t \in Tables : ReadTable(b, t)) \/ ReadSequence(b) \/ CommitSigning(b)
        \/ GiveUpPlan(b)
    \/ \E r \in Resources : BecomeLiterature(r)
PlanSpec == PlanInit /\ [][PlanNext]_planVars

-----------------------------------------------------------------------------
(* A signed plan is its last snapshot, whole and confirmed, though the snapshot was *)
(* read before the batch that wrote it and piece by piece.                          *)
SignedAsRead ==
    plan.status = "finalized" =>
        /\ snapshots # <<>> /\ snapshots[Len(snapshots)] = Drawn
        /\ plan.sure
        /\ \A g \in Groups : intake[g] # "unknown"
(* What is needed is needed by a class of the plan, of a book of the plan, and no  *)
(* snapshot was taken of less than that.                                           *)
NeedsStand ==
    /\ \A x \in demand : x[1] \in listed /\ Present(x[2])
    /\ \A i \in 1..Len(snapshots) : \A x \in snapshots[i].needs :
         x[1] \in snapshots[i].books /\ snapshots[i].classes[x[2]] # "absent"
ProcurementSound == SignedAsRead /\ NeedsStand

(* Nothing moves in a signed plan until it is reopened, snapshots stay, and no plan *)
(* is signed while it lists literature.                                             *)
SignedStep ==
    /\ plan.status = "finalized" => content' = content
    /\ SubSeq(snapshots', 1, Len(snapshots)) = snapshots
    /\ plan.status # "finalized" /\ plan'.status = "finalized" => listed \cap literature = {}
=============================================================================
