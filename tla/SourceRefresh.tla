----------------------------- MODULE SourceRefresh -----------------------------
(***************************************************************************)
(* applyLiteratureSourceItem of literature-source-refresh.ts for a loan: a *)
(* row of a newer snapshot of Librarika becomes, in several batches with   *)
(* commands of their own, a loan here.  A call may stop after any of them, *)
(* and two calls may run at once; the next call of the same request starts *)
(* over and finds its way by the receipts ("exact receipts make a          *)
(* partially completed batch resumable").  Everything in BookCopies goes   *)
(* on meanwhile.                                                           *)
(*                                                                         *)
(* Abstractions: the fields of the snapshot's rows are the status wanted   *)
(* and which snapshot the row is of; the child commands read and write in  *)
(* one step, as their batches repeat all they read; the rows of books and  *)
(* of directories, whose steps are creations, are left out.                *)
(***************************************************************************)
EXTENDS BookCopies

CONSTANTS
    SourceLoans,            \* loans in the source (source_circulation_id)
    Runs,               \* concurrently running calls
    NoSource, NoCall    \* model values

ASSUME SourceValues == NoSource \notin SourceLoans

VARIABLES
    mark,       \* row of reader_circulations -> source id and snapshot it carries
    source,     \* source id -> the request for it, with the receipts of its children
    run         \* call -> the step it is at

refreshVars == <<mark, source, run>>

Wanted == {"issued", "returned", "reserved", "cancelled"}
MarkType == [src : SourceLoans \cup {NoSource}, row : {"none", "old", "new"}]
(* prior: the request knows an earlier row; rver, cver, mver: the versions *)
(* it expects; issue, back: what its children left; alone (for the         *)
(* properties): nobody else touched the copy or the loan since             *)
SourceType ==
    [want : Wanted, of : Books, by : Members, prior : BOOLEAN, rver : Nat, cver : Nat,
     mver : Nat, issue : Lendings \cup {NoLending}, back : BOOLEAN, done : BOOLEAN,
     alone : BOOLEAN]
RunType == [for : SourceLoans, then : {"history", "update", "issue", "return", "link", "complete"},
            row : Lendings \cup {NoLending}]

ASSUME RequestAssumption == NoCall \notin SourceType

RefreshTypeOK ==
    /\ mark \in [Lendings -> MarkType]
    /\ source \in [SourceLoans -> SourceType \cup {NoCall}]
    /\ run \in [Runs -> RunType \cup {Rested}]

RefreshInit ==
    /\ CopiesInit
    /\ \E id \in [OldLendings -> SourceLoans] :
        /\ \A k, l \in OldLendings : id[k] = id[l] => k = l
        /\ mark = [l \in Lendings |-> IF l \in OldLendings THEN [src |-> id[l], row |-> "old"]
                                      ELSE [src |-> NoSource, row |-> "none"]]
    /\ source = [x \in SourceLoans |-> NoCall]
    /\ run = [h \in Runs |-> Rested]

-----------------------------------------------------------------------------
Carries(x) == {l \in Lendings : mark[l].src = x}
Now(S) == CHOOSE l \in S : TRUE
Mine(x) == Carries(x) \cup ({source[x].issue} \ {NoLending})

(* the request is made: its command row, and the versions the client saw *)
Request(x, want, b, m) ==
    /\ source[x] = NoCall
    /\ book[b].reg = "registered"
    /\ \A l \in Carries(x) : lending[l].of = b /\ lending[l].by = m
    /\ source' = [source EXCEPT ![x] =
         [want |-> want, of |-> b, by |-> m, prior |-> Carries(x) # {},
          rver |-> IF Carries(x) = {} THEN 0 ELSE lending[Now(Carries(x))].ver,
          cver |-> book[b].ver, mver |-> member[m].ver,
          issue |-> NoLending, back |-> FALSE, done |-> FALSE, alone |-> TRUE]]
    /\ UNCHANGED <<copyVars, mark, run>>

(* where a call goes from what it reads *)
OwnSteps(x, l) ==
    LET c == source[x] IN
    IF c.issue # l THEN 0 ELSE IF c.back THEN 2 ELSE 1
AsExpected(x, l) ==
    LET c == source[x] IN
    /\ c.prior /\ mark[l].row = "old" /\ lending[l].native
    /\ lending[l].of = c.of /\ lending[l].by = c.by
    /\ lending[l].ver = c.rver + OwnSteps(x, l)
Way(x) ==
    LET c == source[x] l == Now(Carries(x)) lent == c.want \in {"issued", "returned"} IN
    IF Carries(x) = {} THEN
        IF c.prior THEN "refuse"
        ELSE IF c.want = "returned" THEN "history"
        ELSE IF lent THEN "issue" ELSE "refuse"
    ELSE IF mark[l].row = "new" THEN "complete"
    ELSE IF ~AsExpected(x, l) THEN "refuse"
    ELSE IF ~lent THEN IF lending[l].status = "reserved" THEN "update" ELSE "refuse"
    ELSE IF lending[l].status = "reserved" \/ c.issue = l THEN "issue" ELSE "refuse"

Begin(h, x) ==
    /\ run[h] = Rested
    /\ source[x] # NoCall /\ ~source[x].done
    /\ book[(source[x].of)].reg = "registered"
    /\ Way(x) # "refuse"
    /\ run' = [run EXCEPT ![h] = [for |-> x, then |-> Way(x),
                 row |-> IF Carries(x) = {} THEN NoLending ELSE Now(Carries(x))]]
    /\ UNCHANGED <<copyVars, mark, source>>

AtStep(h, step) == run[h] # Rested /\ run[h].then = step
Goes(h, step, l) == run' = [run EXCEPT ![h].then = step, ![h].row = l]

(* a loan that is over in the source becomes history *)
History(h) ==
    /\ AtStep(h, "history")
    /\ LET x == run[h].for c == source[x] IN
        /\ Carries(x) = {}
        /\ CopyAsRead(c.of, c.cver) /\ Shelved(c.of) /\ member[c.by].ver = c.mver
        /\ \E l \in Lendings :
            /\ NewRow(l)
            /\ lending' = [lending EXCEPT ![l] = [status |-> "returned", of |-> c.of, by |-> c.by,
                                                  native |-> TRUE, ver |-> 1]]
            /\ mark' = [mark EXCEPT ![l] = [src |-> x, row |-> "new"]]
            /\ Goes(h, "link", l)
    /\ UNCHANGED <<edition, book, standing, tally, usable, member, wish, desk, source>>

(* a reservation stays one, or is cancelled *)
Amend(h) ==
    /\ AtStep(h, "update")
    /\ LET c == source[(run[h].for)] l == run[h].row IN
        /\ lending[l].ver = c.rver /\ lending[l].status = "reserved"
        /\ lending' = [lending EXCEPT ![l].status = c.want, ![l].ver = @ + 1]
        /\ mark' = [mark EXCEPT ![l].row = "new"]
        /\ Goes(h, "link", l)
    /\ UNCHANGED <<edition, book, standing, tally, usable, member, wish, desk, source>>

(* the child commands, whose receipts answer when they were done before *)
Following(x) == IF source[x].want = "returned" THEN "return" ELSE "link"
IssuePlan(x, l) ==
    LET c == source[x] IN
    [book |-> c.of, cver |-> c.cver, shelf |-> book[c.of].shelf,
     rest |-> IF book[c.of].shelf = Nowhere THEN 0 ELSE standing[(book[c.of].shelf)],
     by |-> c.by, mver |-> c.mver, row |-> l, rver |-> lending[l].ver, for |-> NoWish]
IssueChild(h) ==
    LET x == run[h].for c == source[x] IN
    /\ AtStep(h, "issue") /\ c.issue = NoLending
    /\ \E l \in Lendings :
        /\ IF c.prior THEN l = run[h].row /\ lending[l].ver = c.rver ELSE NewRow(l)
        /\ IssueBatch(IssuePlan(x, l))
        /\ source' = [source EXCEPT ![x].issue = l]
        /\ Goes(h, Following(x), l)
    /\ UNCHANGED <<desk, mark>>
IssueAgain(h) ==
    /\ AtStep(h, "issue") /\ source[(run[h].for)].issue # NoLending
    /\ Goes(h, Following(run[h].for), source[(run[h].for)].issue)
    /\ UNCHANGED <<copyVars, mark, source>>

ReturnPlan(x, l) ==
    LET c == source[x] IN
    [book |-> c.of, cver |-> c.cver + 1, row |-> l, rver |-> c.rver + 1, shelf |-> MainShelf]
ReturnChild(h) ==
    LET x == run[h].for IN
    /\ AtStep(h, "return") /\ ~source[x].back
    /\ ReturnBatch(ReturnPlan(x, run[h].row))
    /\ source' = [source EXCEPT ![x].back = TRUE]
    /\ Goes(h, "link", run[h].row)
    /\ UNCHANGED <<desk, mark>>
ReturnAgain(h) ==
    /\ AtStep(h, "return") /\ source[(run[h].for)].back
    /\ Goes(h, "link", run[h].row)
    /\ UNCHANGED <<copyVars, mark, source>>

(* the loan gets the source id and the row, and the request its result *)
Link(h) ==
    LET x == run[h].for l == run[h].row IN
    /\ AtStep(h, "link")
    /\ mark[l].src \in {NoSource, x}
    /\ \A k \in Lendings \ {l} : mark[k].src # x
    /\ mark' = [mark EXCEPT ![l] = [src |-> x, row |-> "new"]]
    /\ Goes(h, "complete", l)
    /\ UNCHANGED <<copyVars, source>>
Complete(h) ==
    LET x == run[h].for IN
    /\ AtStep(h, "complete") /\ ~source[x].done
    /\ source' = [source EXCEPT ![x].done = TRUE]
    /\ run' = [run EXCEPT ![h] = Rested]
    /\ UNCHANGED <<copyVars, mark>>

(* a batch was refused, or the call stopped *)
Stop(h) ==
    /\ run[h] # Rested
    /\ run' = [run EXCEPT ![h] = Rested]
    /\ UNCHANGED <<copyVars, mark, source>>

(* someone else at work *)
Meddled(x) ==
    /\ source[x] # NoCall
    /\ \/ book'[(source[x].of)] # book[(source[x].of)]
       \/ \E l \in Mine(x) : lending'[l] # lending[l]
Elsewhere ==
    /\ CopiesNext
    /\ source' = [x \in SourceLoans |-> IF Meddled(x) THEN [source[x] EXCEPT !.alone = FALSE]
                                    ELSE source[x]]
    /\ UNCHANGED <<mark, run>>

RefreshNext ==
    \/ Elsewhere
    \/ \E x \in SourceLoans, want \in Wanted, b \in Books, m \in Members : Request(x, want, b, m)
    \/ \E h \in Runs :
        \/ \E x \in SourceLoans : Begin(h, x)
        \/ History(h) \/ Amend(h) \/ IssueChild(h) \/ IssueAgain(h)
        \/ ReturnChild(h) \/ ReturnAgain(h) \/ Link(h) \/ Complete(h) \/ Stop(h)

RefreshSpec == RefreshInit /\ [][RefreshNext]_<<copyVars, refreshVars>>

-----------------------------------------------------------------------------
(* Properties *)

(* A source loan is one loan here, however often its request was begun:    *)
(* the one that was issued for it; and a request that says completed left  *)
(* that loan with the row of the newer snapshot.                           *)
SourceOnce ==
    \A x \in SourceLoans :
        /\ Cardinality(Carries(x)) <= 1
        /\ source[x] # NoCall =>
            /\ source[x].issue # NoLending => Carries(x) \subseteq {source[x].issue}
            /\ source[x].done => \E l \in Carries(x) : mark[l].row = "new"

(* A request that wrote something and was stopped can go on when it is     *)
(* called again, as long as nobody else touched the copy or the loan.      *)
Resumable ==
    \A x \in SourceLoans : source[x] # NoCall =>
        LET c == source[x] IN
        /\ ~c.done /\ c.alone /\ (c.issue # NoLending \/ \E l \in Carries(x) : mark[l].row = "new")
             => Way(x) # "refuse"
        /\ c.alone /\ c.issue # NoLending /\ c.want = "returned" /\ ~c.back =>
             /\ CopyAsRead(c.of, c.cver + 1) /\ lending[c.issue].ver = c.rver + 1
             /\ lending[c.issue].status = "issued" /\ MainShelf \in usable

RefreshSound == CopiesSound /\ SourceOnce /\ Resumable
=============================================================================
