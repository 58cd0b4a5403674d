------------------------------ MODULE SchoolYear ------------------------------
(***************************************************************************)
(* School years, cohorts, the classes of a year and their curators, as     *)
(* src/lib/academic-admin-store.ts, teacher-curator-request-store.ts and   *)
(* the card handlers of teacher-registry-store.ts keep them.               *)
(*                                                                         *)
(* A handler reads its rows over several awaits and then sends one atomic  *)
(* batch that repeats most of what it read: it is an action that plans     *)
(* (Plan...) and one that commits (Commit...); a batch whose guards fail   *)
(* changes nothing and the handler gives up (Drop).  The card handlers     *)
(* repeat every condition in their batch and are single steps.             *)
(*                                                                         *)
(* Abstractions: names, grades, rooms, dates and notes of a class are data *)
(* no action looks at, so that any class may graduate; what a class owes   *)
(* the library is the module ClassLoans, here the set owing; the id of a   *)
(* class is its year and its number there, as CY-2025-001 says it.         *)
(***************************************************************************)
EXTENDS Integers, FiniteSets, FiniteSetsExt

CONSTANTS
    Teachers,       \* teachers with a card
    Asks,           \* curator requests (random UUIDs)
    Clerks,         \* concurrently running handler invocations
    Resting, Nobody, NoClass,   \* model values
    MaxYears,       \* bound: academic years
    MaxClasses,     \* bound: classes of one year
    MaxCohorts,     \* bound: cohorts
    MaxVersion      \* bound: version of a class or of a curator request

ASSUME SchoolBounds == {MaxYears, MaxClasses, MaxCohorts, MaxVersion} \subseteq Nat \ {0}
ASSUME SchoolValues == Nobody \notin Teachers /\ NoClass \notin Nat \X Nat

VARIABLES
    year,       \* year -> row of academic_years
    cohort,     \* cohort number -> status of its row of cohorts
    classYear,  \* class -> row of class_years
    card,       \* teacher -> the card is open
    ask,        \* row of teacher_curator_change_requests
    owing,      \* classes with copies still out on an open class loan
    clerk       \* handler -> what it has read and is about to write

schoolVars == <<year, cohort, classYear, card, ask, owing, clerk>>

Years == 1..MaxYears
Classes == Years \X (1..MaxClasses)
Cohorts == 1..MaxCohorts
Curators == Teachers \cup {Nobody}

YearType == [status : {"none", "draft", "active", "closed"}, ver : Nat]
ClassType == [status : {"none", "active", "closed"}, cohort : Cohorts \cup {0},
              curator : Curators, ver : Nat]
AskType == [status : {"none", "submitted", "approved", "rejected", "cancelled"},
            teacher : Curators, current : Classes \cup {NoClass},
            wanted : Classes \cup {NoClass}, ver : Nat]
Fates == {"keep", "promote", "closed", "graduated"}

ClerkPlan ==
    [op : {"year"}, year : Years, status : {"draft", "active"}]
    \cup [op : {"create"}, class : Classes, cohort : Cohorts, fresh : BOOLEAN,
          ver : Nat, curator : Curators, attempt : 1..3]
    \cup [op : {"update"}, class : Classes, ver : Nat, curator : Curators]
    \cup [op : {"close"}, class : Classes, ver : Nat, fate : Fates]
    \cup [op : {"reopen"}, class : Classes, ver : Nat, revive : BOOLEAN]
    \cup [op : {"rollover"}, from : Years, to : Years, fromVer : Nat, toVer : Nat,
          ver : [Classes -> Nat], fate : [Classes -> Fates], curator : [Classes -> Curators]]
    \cup [op : {"ask"}, ask : Asks, teacher : Teachers, current : Classes \cup {NoClass},
          wanted : Classes, ver : Nat]
    \cup [op : {"cancel", "approve", "reject"}, ask : Asks, ver : Nat]

SchoolTypeOK ==
    /\ year \in [Years -> YearType]
    /\ cohort \in [Cohorts -> {"none", "active", "closed", "graduated"}]
    /\ classYear \in [Classes -> ClassType]
    /\ card \in [Teachers -> BOOLEAN]
    /\ ask \in [Asks -> AskType]
    /\ owing \in SUBSET Classes
    /\ clerk \in [Clerks -> ClerkPlan \cup {Resting}]

SchoolInit ==
    /\ year = [y \in Years |-> [status |-> "none", ver |-> 0]]
    /\ cohort = [k \in Cohorts |-> "none"]
    /\ classYear = [c \in Classes |->
           [status |-> "none", cohort |-> 0, curator |-> Nobody, ver |-> 0]]
    /\ card = [t \in Teachers |-> TRUE]
    /\ ask = [a \in Asks |-> [status |-> "none", teacher |-> Nobody, current |-> NoClass,
                              wanted |-> NoClass, ver |-> 0]]
    /\ owing = {}
    /\ clerk = [w \in Clerks |-> Resting]

-----------------------------------------------------------------------------
(* What the statements ask *)

Open(c) == classYear[c].status = "active"
OpenOf(t) == {c \in Classes : Open(c) /\ classYear[c].curator = t}
OpenIn(k) == {c \in Classes : Open(c) /\ classYear[c].cohort = k}
InYear(y) == {c \in Classes : c[1] = y /\ classYear[c].status # "none"}
CuratorOk(t) == t = Nobody \/ (t \in Teachers /\ card[t])
CohortFree(k, y) == OpenIn(k) = {} /\ \A c \in InYear(y) : classYear[c].cohort # k
NotOwing(S) == S \cap owing = {}
At(c, v) == classYear[c].ver = v
NextNumber(y) == 1 + Max({0} \cup {c[2] : c \in InYear(y)})
NextCohort == 1 + Max({0} \cup {k \in Cohorts : cohort[k] # "none"})

Class(s, k, t, v) == [status |-> s, cohort |-> k, curator |-> t, ver |-> v]
Turned(r, s) == Class(s, r.cohort, r.curator, r.ver + 1)
Curated(r, t) == Class(r.status, r.cohort, t, r.ver + 1)

Plans(w, p) ==
    /\ clerk[w] = Resting
    /\ clerk' = [clerk EXCEPT ![w] = p]
    /\ UNCHANGED <<year, cohort, classYear, card, ask, owing>>
Commits(w, op) ==
    /\ clerk[w] # Resting /\ clerk[w].op = op
    /\ clerk' = [clerk EXCEPT ![w] = Resting]
    /\ UNCHANGED <<card, owing>>

Drop(w) ==
    /\ clerk[w] # Resting
    /\ clerk' = [clerk EXCEPT ![w] = Resting]
    /\ UNCHANGED <<year, cohort, classYear, card, ask, owing>>

-----------------------------------------------------------------------------
(* createAcademicYearDirect: the first year opens, the others are drafts *)

NoYears == \A y \in Years : year[y].status = "none"

PlanYear(w, y) ==
    /\ year[y].status = "none"
    /\ Plans(w, [op |-> "year", year |-> y,
                 status |-> IF NoYears THEN "active" ELSE "draft"])

FirstWhenRead(s) == TRUE        \* mutant: only the reading counted the years
StillFirst(s) == s = "draft" \/ NoYears

CommitYear(w) ==
    LET p == clerk[w] IN
    /\ Commits(w, "year")
    /\ year[p.year].status = "none"
    /\ StillFirst(p.status)
    /\ year' = [year EXCEPT ![p.year] = [status |-> p.status, ver |-> 1]]
    /\ UNCHANGED <<cohort, classYear, ask>>

-----------------------------------------------------------------------------
(* createClassYearDirect.  The class, and a new cohort, get the largest    *)
(* number plus one; a collision with a concurrent creation is the primary  *)
(* key's, and the handler allocates again, three attempts in all.          *)

Creation(y, k, t, n) ==
    [op |-> "create", class |-> <<y, NextNumber(y)>>,
     cohort |-> IF k = 0 THEN NextCohort ELSE k, fresh |-> (k = 0),
     ver |-> year[y].ver, curator |-> t, attempt |-> n]

PlanCreate(w, y, k, t) ==
    /\ year[y].status = "active"
    /\ CuratorOk(t)
    /\ k # 0 => cohort[k] = "active" /\ CohortFree(k, y)
    /\ NextNumber(y) <= MaxClasses                  \* bound
    /\ k = 0 => NextCohort <= MaxCohorts            \* bound
    /\ Plans(w, Creation(y, k, t, 1))

IdTaken(p) == classYear[p.class].status # "none" \/ (p.fresh /\ cohort[p.cohort] # "none")

CommitCreate(w) ==
    LET p == clerk[w]  y == p.class[1] IN
    /\ Commits(w, "create")
    /\ ~IdTaken(p)
    /\ p.fresh \/ cohort[p.cohort] = "active"
    /\ year[y].status = "active" /\ year[y].ver = p.ver
    /\ CuratorOk(p.curator)
    /\ CohortFree(p.cohort, y)
    /\ cohort' = [cohort EXCEPT ![p.cohort] = "active"]
    /\ classYear' = [classYear EXCEPT ![p.class] = Class("active", p.cohort, p.curator, 1)]
    /\ UNCHANGED <<year, ask>>

RetryCreate(w) ==
    LET p == clerk[w]  y == p.class[1] IN
    /\ p # Resting /\ p.op = "create" /\ IdTaken(p) /\ p.attempt < 3
    /\ NextNumber(y) <= MaxClasses /\ (p.fresh => NextCohort <= MaxCohorts)   \* bound
    /\ clerk' = [clerk EXCEPT ![w] =
           [Creation(y, IF p.fresh THEN 0 ELSE p.cohort, p.curator, p.attempt + 1)
               EXCEPT !.ver = p.ver]]
    /\ UNCHANGED <<year, cohort, classYear, card, ask, owing>>

(* updateClassYearDirect *)

PlanUpdate(w, c, t) ==
    /\ Open(c) /\ classYear[c].ver < MaxVersion
    /\ CuratorOk(t)
    /\ Plans(w, [op |-> "update", class |-> c, ver |-> classYear[c].ver, curator |-> t])

CommitUpdate(w) ==
    LET p == clerk[w] IN
    /\ Commits(w, "update")
    /\ Open(p.class) /\ At(p.class, p.ver)
    /\ CuratorOk(p.curator)
    /\ classYear' = [classYear EXCEPT ![p.class] = Curated(@, p.curator)]
    /\ UNCHANGED <<year, cohort, ask>>

(* closeClassYearDirect, which may close the cohort with the class *)

PlanClose(w, c, fate) ==
    LET k == classYear[c].cohort IN
    /\ Open(c) /\ classYear[c].ver < MaxVersion
    /\ c \notin owing
    /\ fate # "keep" => OpenIn(k) = {c} /\ cohort[k] = "active"
    /\ Plans(w, [op |-> "close", class |-> c, ver |-> classYear[c].ver, fate |-> fate])

CommitClose(w) ==
    LET p == clerk[w]  k == classYear[p.class].cohort IN
    /\ Commits(w, "close")
    /\ Open(p.class) /\ At(p.class, p.ver)
    /\ NotOwing({p.class})
    /\ classYear' = [classYear EXCEPT ![p.class] = Turned(@, "closed")]
    /\ IF p.fate = "keep"
       THEN cohort' = cohort
       ELSE /\ cohort[k] = "active" /\ OpenIn(k) = {p.class}
            /\ cohort' = [cohort EXCEPT ![k] = p.fate]
    /\ UNCHANGED <<year, ask>>

(* reopenClassYearDirect, which revives a cohort it has read as closed *)

PlanReopen(w, c) ==
    LET k == classYear[c].cohort IN
    /\ classYear[c].status = "closed" /\ classYear[c].ver < MaxVersion
    /\ year[c[1]].status = "active"
    /\ cohort[k] # "graduated"
    /\ OpenIn(k) = {}
    /\ CuratorOk(classYear[c].curator)
    /\ Plans(w, [op |-> "reopen", class |-> c, ver |-> classYear[c].ver,
                 revive |-> (cohort[k] = "closed")])

CommitReopen(w) ==
    LET p == clerk[w]  k == classYear[p.class].cohort IN
    /\ Commits(w, "reopen")
    /\ classYear[p.class].status = "closed" /\ At(p.class, p.ver)
    /\ year[p.class[1]].status = "active"
    /\ cohort[k] = IF p.revive THEN "closed" ELSE "active"
    /\ OpenIn(k) = {}
    /\ CuratorOk(classYear[p.class].curator)
    /\ cohort' = [cohort EXCEPT ![k] = "active"]
    /\ classYear' = [classYear EXCEPT ![p.class] = Turned(@, "active")]
    /\ UNCHANGED <<year, ask>>

-----------------------------------------------------------------------------
(* rolloverAcademicYearDirect: every open class of the source year is      *)
(* promoted, graduated or closed in one batch, and the years change over.  *)
(* The target year has no class, so that its numbers are free and the      *)
(* retry of the ids is never taken.                                        *)

PlanRollover(w, y) ==
    LET z == y + 1  S == {c \in InYear(y) : Open(c)} IN
    /\ z \in Years
    /\ year[y].status = "active" /\ year[z].status = "draft"
    /\ NotOwing(S)
    /\ InYear(z) = {}
    /\ \A c \in S : /\ cohort[classYear[c].cohort] = "active"
                    /\ OpenIn(classYear[c].cohort) \subseteq S
    /\ \E fate \in [S -> Fates \ {"keep"}], t \in [S -> Curators] :
        /\ \A c \in S : IF fate[c] = "promote" THEN CuratorOk(t[c]) ELSE t[c] = Nobody
        /\ Plans(w, [op |-> "rollover", from |-> y, to |-> z,
                     fromVer |-> year[y].ver, toVer |-> year[z].ver,
                     ver |-> [c \in Classes |-> classYear[c].ver],
                     fate |-> [c \in Classes |-> IF c \in S THEN fate[c] ELSE "keep"],
                     curator |-> [c \in Classes |-> IF c \in S THEN t[c] ELSE Nobody]])

Sources(p) == {c \in Classes : p.fate[c] # "keep"}
Promoted(p) == {c \in Classes : p.fate[c] = "promote"}
(* the class of the target year a promoted class becomes *)
Target(p, c) == <<p.to, Cardinality({d \in Promoted(p) : d[2] <= c[2]})>>

CommitRollover(w) ==
    LET p == clerk[w] IN
    /\ Commits(w, "rollover")
    /\ InYear(p.to) = {}
    /\ \A c \in Sources(p) :
        /\ Open(c) /\ At(c, p.ver[c]) /\ NotOwing({c})
        /\ cohort[classYear[c].cohort] = "active"
        /\ OpenIn(classYear[c].cohort) \subseteq Sources(p)
        /\ p.fate[c] = "promote" => CuratorOk(p.curator[c])
    /\ year[p.from] = [status |-> "active", ver |-> p.fromVer]
    /\ year[p.to] = [status |-> "draft", ver |-> p.toVer]
    /\ {c \in InYear(p.from) : Open(c)} \subseteq Sources(p)
    /\ \A y \in Years \ {p.from, p.to} : year[y].status # "active"
    /\ classYear' = [c \in Classes |->
           IF c \in Sources(p) THEN Turned(classYear[c], "closed")
           ELSE IF \E d \in Promoted(p) : Target(p, d) = c
           THEN LET d == CHOOSE d \in Promoted(p) : Target(p, d) = c
                IN  Class("active", classYear[d].cohort, p.curator[d], 1)
           ELSE classYear[c]]
    /\ cohort' = [k \in Cohorts |->
           IF \E c \in Sources(p) \ Promoted(p) : classYear[c].cohort = k
           THEN p.fate[CHOOSE c \in Sources(p) \ Promoted(p) : classYear[c].cohort = k]
           ELSE cohort[k]]
    /\ year' = [year EXCEPT ![p.from] = [status |-> "closed", ver |-> p.fromVer + 1],
                            ![p.to] = [status |-> "active", ver |-> p.toVer + 1]]
    /\ UNCHANGED ask

-----------------------------------------------------------------------------
(* submitTeacherCuratorRequest, cancelTeacherCuratorRequest and            *)
(* decideTeacherCuratorRequest.  A teacher acts in a session, which needs  *)
(* an open card.                                                           *)

Submitted(t) == {a \in Asks : ask[a].status = "submitted" /\ ask[a].teacher = t}
Asked(s, t, cur, wanted, v) ==
    [status |-> s, teacher |-> t, current |-> cur, wanted |-> wanted, ver |-> v]
Resolved(r, s) == Asked(s, r.teacher, r.current, r.wanted, r.ver + 1)

(* the class a teacher already has, or NoClass *)
CurrentIs(t, c) == OpenOf(t) = IF c = NoClass THEN {} ELSE {c}

PlanAsk(w, a, t, wanted) ==
    /\ card[t]
    /\ IF Submitted(t) = {} THEN ask[a].status = "none" ELSE a \in Submitted(t)
    /\ ask[a].ver < MaxVersion
    /\ Open(wanted) /\ classYear[wanted].curator = Nobody
    /\ \E cur \in Classes \cup {NoClass} :
        /\ CurrentIs(t, cur)
        /\ Plans(w, [op |-> "ask", ask |-> a, teacher |-> t, current |-> cur,
                     wanted |-> wanted, ver |-> ask[a].ver])

CommitAsk(w) ==
    LET p == clerk[w] IN
    /\ Commits(w, "ask")
    /\ card[p.teacher]
    /\ IF p.ver = 0 THEN Submitted(p.teacher) = {} /\ ask[p.ask].status = "none"
                    ELSE p.ask \in Submitted(p.teacher) /\ ask[p.ask].ver = p.ver
    /\ Open(p.wanted) /\ classYear[p.wanted].curator = Nobody
    /\ CurrentIs(p.teacher, p.current)
    /\ ask' = [ask EXCEPT ![p.ask] =
           Asked("submitted", p.teacher, p.current, p.wanted, p.ver + 1)]
    /\ UNCHANGED <<year, cohort, classYear>>

PlanCancel(w, a) ==
    /\ ask[a].status = "submitted" /\ card[ask[a].teacher]
    /\ Plans(w, [op |-> "cancel", ask |-> a, ver |-> ask[a].ver])

PendingAsRead(p) == TRUE        \* mutant: a decided request is decided again
Pending(p) == ask[p.ask].status = "submitted" /\ ask[p.ask].ver = p.ver

CommitCancel(w) ==
    LET p == clerk[w] IN
    /\ Commits(w, "cancel")
    /\ Pending(p) /\ card[ask[p.ask].teacher]
    /\ ask' = [ask EXCEPT ![p.ask] = Resolved(@, "cancelled")]
    /\ UNCHANGED <<year, cohort, classYear>>

PlanDecide(w, a, decision) ==
    LET r == ask[a] IN
    /\ r.status = "submitted"
    /\ decision = "approve" =>
        /\ Open(r.wanted) /\ classYear[r.wanted].curator = Nobody
        /\ CurrentIs(r.teacher, r.current)
    /\ Plans(w, [op |-> decision, ask |-> a, ver |-> r.ver])

CommitReject(w) ==
    LET p == clerk[w] IN
    /\ Commits(w, "reject")
    /\ Pending(p)
    /\ ask' = [ask EXCEPT ![p.ask] = Resolved(@, "rejected")]
    /\ UNCHANGED <<year, cohort, classYear>>

(* The two UPDATEs of the classes may match nothing; the UPDATE of the     *)
(* request then looks at what they left.                                   *)
Seated(r) ==
    [c \in Classes |->
        IF Open(c) /\ c = r.current /\ classYear[c].curator = r.teacher
        THEN Curated(classYear[c], Nobody)
        ELSE IF Open(c) /\ c = r.wanted /\ classYear[c].curator = Nobody
        THEN Curated(classYear[c], r.teacher)
        ELSE classYear[c]]

Holds(cs, t) == {c \in Classes : cs[c].status = "active" /\ cs[c].curator = t}
FitsRequest(cs, r) ==
    /\ Holds(cs, r.teacher) = {r.wanted}
    /\ r.current # NoClass => cs[r.current].status = "active" /\ cs[r.current].curator = Nobody

CommitApprove(w) ==
    LET p == clerk[w]  r == ask[p.ask] IN
    /\ Commits(w, "approve")
    /\ Pending(p)
    /\ FitsRequest(Seated(r), r)
    /\ \A c \in {r.wanted, r.current} \cap Classes : classYear[c].ver < MaxVersion  \* bound
    /\ classYear' = Seated(r)
    /\ ask' = [ask EXCEPT ![p.ask] = Resolved(@, "approved")]
    /\ UNCHANGED <<year, cohort>>

-----------------------------------------------------------------------------
(* closeTeacher and restoreTeacher, and the class loans as this part of    *)
(* the program sees them                                                   *)

CloseCard(t) ==
    /\ card[t] /\ OpenOf(t) = {}
    /\ card' = [card EXCEPT ![t] = FALSE]
    /\ UNCHANGED <<year, cohort, classYear, ask, owing, clerk>>

RestoreCard(t) ==
    /\ ~card[t]
    /\ card' = [card EXCEPT ![t] = TRUE]
    /\ UNCHANGED <<year, cohort, classYear, ask, owing, clerk>>

Borrow(c) ==
    /\ Open(c) /\ c \notin owing
    /\ owing' = owing \cup {c}
    /\ UNCHANGED <<year, cohort, classYear, card, ask, clerk>>

Settle(c) ==
    /\ c \in owing
    /\ owing' = owing \ {c}
    /\ UNCHANGED <<year, cohort, classYear, card, ask, clerk>>

Offices ==
    \E w \in Clerks :
        \/ \E y \in Years : PlanYear(w, y)
        \/ \E y \in Years, k \in Cohorts \cup {0}, t \in Curators : PlanCreate(w, y, k, t)
        \/ \E c \in Classes, t \in Curators : PlanUpdate(w, c, t)
        \/ \E c \in Classes, fate \in Fates \ {"promote"} : PlanClose(w, c, fate)
        \/ \E c \in Classes : PlanReopen(w, c)
        \/ \E y \in Years : PlanRollover(w, y)
        \/ \E a \in Asks, t \in Teachers, c \in Classes : PlanAsk(w, a, t, c)
        \/ \E a \in Asks : PlanCancel(w, a)
        \/ \E a \in Asks, d \in {"approve", "reject"} : PlanDecide(w, a, d)
        \/ CommitYear(w) \/ CommitCreate(w) \/ RetryCreate(w) \/ CommitUpdate(w)
        \/ CommitClose(w) \/ CommitReopen(w) \/ CommitRollover(w)
        \/ CommitAsk(w) \/ CommitCancel(w) \/ CommitReject(w) \/ CommitApprove(w)
        \/ Drop(w)

SchoolNext ==
    \/ Offices
    \/ \E t \in Teachers : CloseCard(t) \/ RestoreCard(t)
    \/ \E c \in Classes : Borrow(c) \/ Settle(c)

SchoolSpec == SchoolInit /\ [][SchoolNext]_schoolVars

-----------------------------------------------------------------------------
(* Properties *)

(* At most one school year runs; an open class belongs to the running year *)
(* and to an active cohort; a cohort has one open class and one class per  *)
(* year; a closed class owes nothing; a teacher has one request pending.   *)
SchoolInOrder ==
    /\ \A y, z \in Years : year[y].status = "active" /\ year[z].status = "active" => y = z
    /\ \A c \in Classes : Open(c) =>
        /\ year[c[1]].status = "active"
        /\ classYear[c].cohort \in Cohorts /\ cohort[classYear[c].cohort] = "active"
    /\ \A c, d \in Classes :
        /\ c # d /\ classYear[c].status # "none" /\ classYear[d].status # "none"
        /\ classYear[c].cohort = classYear[d].cohort
        => c[1] # d[1] /\ ~(Open(c) /\ Open(d))
    /\ \A c \in owing : Open(c)
    /\ \A t \in Teachers : Cardinality(Submitted(t)) <= 1

(* What is past stays: a closed year does not reopen and none of its       *)
(* classes changes, a graduated cohort stays graduated, a class never      *)
(* moves to another cohort, a decided curator request is not decided       *)
(* again, and an approval leaves its teacher with the class asked for and  *)
(* with no other.                                                          *)
PastStep ==
    /\ \A y \in Years : year[y].status = "closed" =>
        /\ year'[y] = year[y]
        /\ \A c \in InYear(y) : classYear'[c] = classYear[c]
    /\ \A k \in Cohorts : cohort[k] = "graduated" => cohort'[k] = "graduated"
    /\ \A c \in Classes : classYear[c].status # "none" =>
        classYear'[c].status # "none" /\ classYear'[c].cohort = classYear[c].cohort
    /\ \A a \in Asks : ask[a].status \notin {"none", "submitted"} => ask'[a] = ask[a]
    /\ \A a \in Asks : ask[a].status = "submitted" /\ ask'[a].status = "approved" =>
        Holds(classYear', ask[a].teacher) = {ask[a].wanted}
PastStaysPast == [][PastStep]_schoolVars

(* docs/TEACHER_REGISTRY_API_UK.md:33: a card is not closed while its      *)
(* teacher has a class.  So nobody whose card is closed curates an open    *)
(* class.                                                                  *)
CuratorsActive == \A c \in Classes : Open(c) => CuratorOk(classYear[c].curator)
=============================================================================
