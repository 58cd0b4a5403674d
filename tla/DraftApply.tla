------------------------------ MODULE DraftApply ------------------------------
(***************************************************************************)
(* Drafts of one class and their application to the spreadsheet:           *)
(* src/lib/draft-store.ts and draft-apply-store.ts keep the draft in D1,   *)
(* src/apps-script writes the spreadsheet.  The two share no transaction.  *)
(* A draft that is approved remembers the request it was approved with;    *)
(* the gateway keeps a journal row per request, which says how far its     *)
(* writing got, so that a repetition goes on from there.                   *)
(*                                                                         *)
(* An apply is one request of the site and its call of the gateway.  The   *)
(* site may stop waiting while the call is on its way or at work; the      *)
(* gateway runs one call at a time and may be killed at any step.  People  *)
(* edit the spreadsheet by hand meanwhile, without its lock.               *)
(*                                                                         *)
(* Abstractions: the drafts either change the class or close it with its   *)
(* cohort; rows do not move; the actor, the write target and the cover of  *)
(* a request stay as they were, so its fingerprint does too; a call that   *)
(* is refused for the time being (a busy lock, writing switched off) is    *)
(* one that gets lost, since either leaves the draft pending.              *)
(***************************************************************************)
EXTENDS Integers, FiniteSets, Sequences

CONSTANTS
    Drafts,
    KindOf,         \* draft -> "update" | "close"
    Applies,        \* request ids, given out in order
    Tabs,           \* applies that run at once
    Asleep, NoEntry, NoApply,   \* model values
    MaxRevision     \* bound on the revisions a person makes of a draft

ASSUME DraftAssumption ==
    /\ KindOf \in [Drafts -> {"update", "close"}]
    /\ Applies = 1..Cardinality(Applies) /\ NoApply \notin Applies
    /\ MaxRevision \in Nat

VARIABLES
    draft,      \* row of librarian_drafts
    sheet,      \* the class, its cohort, and whether the cohort has another class
    journal,    \* request -> its row of the journal sheet
    tab,        \* apply -> where it and its call are
    past        \* request -> ghost: what became of it

applyVars == <<draft, sheet, journal, tab, past>>

Parts == {"class", "cohort"}
Statuses == {"draft", "ready_for_review", "approved_pending_apply", "applied", "failed",
             "cancelled"}
ClassStates == {"open", "edited", "closed"}
Sheets == [class : ClassStates, cohort : {"open", "closed"}, sibling : BOOLEAN]
DraftType == [status : Statuses, rev : Nat, seen : ClassStates,
              request : Applies \cup {NoApply}]
EntryType == [draft : Drafts, state : {"prepared", "applying", "applied", "returned", "failed"},
              seen : ClassStates, before : Sheets, started : SUBSET Parts, written : SUBSET Parts]
Stages == {"sent", "check", "write", "confirm", "record", "answered"}
TabType == [at : Stages, draft : Drafts, request : Applies, rev : Nat, seen : ClassStates,
            reply : {"none", "applied", "returned", "failed"}, waits : BOOLEAN]

ASSUME DraftValues == NoEntry \notin EntryType /\ Asleep \notin TabType

DraftTypeOK ==
    /\ draft \in [Drafts -> DraftType]
    /\ sheet \in Sheets
    /\ journal \in [Applies -> EntryType \cup {NoEntry}]
    /\ tab \in [Tabs -> TabType \cup {Asleep}]
    /\ past \in [Applies -> [used : BOOLEAN, alone : BOOLEAN, released : BOOLEAN]]

DraftInit ==
    /\ draft = [d \in Drafts |-> [status |-> "draft", rev |-> 1, seen |-> "open",
                                  request |-> NoApply]]
    /\ sheet \in [class : {"open"}, cohort : {"open"}, sibling : BOOLEAN]
    /\ journal = [q \in Applies |-> NoEntry]
    /\ tab = [t \in Tabs |-> Asleep]
    /\ past = [q \in Applies |-> [used |-> FALSE, alone |-> TRUE, released |-> FALSE]]

-----------------------------------------------------------------------------
(* The draft: saveDraft and transitionDraft.  Each batch is guarded by the *)
(* status and the revision that were read, and aborts with its event       *)
(* otherwise, so that what was read before changes only the error.         *)

Revise(d, from, to) ==
    /\ draft[d].status \in from
    /\ draft[d].rev < MaxRevision
    /\ draft' = [draft EXCEPT ![d].status = to, ![d].rev = @ + 1]

SaveDraft(d) ==
    /\ draft[d].status = "draft" /\ draft[d].rev < MaxRevision
    /\ draft' = [draft EXCEPT ![d].seen = sheet.class, ![d].rev = @ + 1]
    /\ UNCHANGED <<sheet, journal, tab, past>>

SubmitDraft(d) ==
    /\ Revise(d, {"draft"}, "ready_for_review")
    /\ UNCHANGED <<sheet, journal, tab, past>>

CancelDraft(d) ==
    /\ Revise(d, {"draft", "ready_for_review"}, "cancelled")
    /\ UNCHANGED <<sheet, journal, tab, past>>

-----------------------------------------------------------------------------
(* beginDraftApply: a new request, or the one the draft was approved with. *)

CallsOf(q) == {t \in Tabs : tab[t] # Asleep /\ tab[t].request = q}
Sends(t, d, q, rev) ==
    tab' = [tab EXCEPT ![t] = [at |-> "sent", draft |-> d, request |-> q, rev |-> rev,
                               seen |-> draft[d].seen, reply |-> "none", waits |-> TRUE]]

Approve(t, d, q) ==
    /\ tab[t] = Asleep
    /\ ~past[q].used /\ \A p \in 1..(q - 1) : past[p].used
    /\ draft[d].status = "ready_for_review" /\ draft[d].rev < MaxRevision
    /\ draft' = [draft EXCEPT ![d].status = "approved_pending_apply", ![d].rev = @ + 1,
                              ![d].request = q]
    /\ Sends(t, d, q, draft[d].rev + 1)
    /\ past' = [past EXCEPT ![q].used = TRUE]
    /\ UNCHANGED <<sheet, journal>>

Replay(t, d) ==
    LET q == draft[d].request IN
    /\ tab[t] = Asleep
    /\ draft[d].status = "approved_pending_apply"
    /\ Sends(t, d, q, draft[d].rev)
    /\ past' = [past EXCEPT ![q].alone = @ /\ CallsOf(q) = {}]
    /\ UNCHANGED <<draft, sheet, journal>>

-----------------------------------------------------------------------------
(* applyGatewayDraft_, under the lock of the script *)

Entry(t) == journal[tab[t].request]
AtStage(t, stage) == tab[t] # Asleep /\ tab[t].at = stage
Working == {t \in Tabs : tab[t] # Asleep /\ tab[t].at \in {"check", "write", "confirm", "record"}}
PartsOf(d) == IF KindOf[d] = "close" THEN Parts ELSE {"class"}
After(d, p) == IF KindOf[d] = "close" THEN "closed" ELSE "edited"
NextPart(e) ==
    IF "class" \notin e.written THEN "class"
    ELSE IF PartsOf(e.draft) \subseteq e.written THEN "none" ELSE "cohort"
Part(t) == NextPart(Entry(t))

Stage(t, stage) == tab' = [tab EXCEPT ![t].at = stage]
(* the answer reaches the site only if it still waits *)
Answers(t, reply) ==
    tab' = [tab EXCEPT ![t] = IF @.waits THEN [@ EXCEPT !.at = "answered", !.reply = reply]
                              ELSE Asleep]
(* no answer, or one that tells the site to keep the draft pending *)
Fades(t) == tab' = [tab EXCEPT ![t] = Asleep]
Onward(e) == IF NextPart(e) = "none" THEN "record" ELSE "check"

(* what prepareClassYearUpdatePlan_ and prepareClassYearClosePlan_ refuse *)
Stale(t) ==
    LET d == tab[t].draft IN
    \/ sheet.class # tab[t].seen \/ sheet.class = "closed"
    \/ KindOf[d] = "close" /\ sheet.sibling

NewEntry(t) ==
    [draft |-> tab[t].draft, state |-> "prepared", seen |-> tab[t].seen, before |-> sheet,
     started |-> {}, written |-> {}]

Enter(t) ==
    LET q == tab[t].request  e == journal[q] IN
    /\ AtStage(t, "sent") /\ Working = {}
    /\ \/ /\ e = NoEntry /\ ~Stale(t)
          /\ journal' = [journal EXCEPT ![q] = NewEntry(t)]
          /\ Stage(t, "check")
       \/ /\ e = NoEntry /\ Stale(t)
          /\ Answers(t, "returned") /\ UNCHANGED journal
       \/ /\ e # NoEntry /\ e.state \in {"prepared", "applying"}
          /\ journal' = [journal EXCEPT ![q].state = "applying"]
          /\ IF \A p \in e.written : sheet[p] = After(e.draft, p)
             THEN Stage(t, Onward(e)) ELSE Fades(t)
       \/ /\ e # NoEntry /\ e.state \in {"applied", "returned", "failed"}
          /\ Answers(t, e.state) /\ UNCHANGED journal
    /\ UNCHANGED <<draft, sheet, past>>

(* preflightTransitionCells_ *)
Reconcilable(e, p) == sheet[p] \in {e.before[p], After(e.draft, p)}

(* the checks of a step before its mark *)
Clear(e, p) ==
    /\ Reconcilable(e, p)
    /\ IF p = "class" THEN p \in e.started \/ sheet.class = e.seen ELSE ~sheet.sibling

UntouchedCells(e) == e.written = {}     \* mutant: a mark alone does not count
(* hasAnyApplyJournalCheckpoint_ *)
Untouched(e) == e.started = {}

(* markApplyJournalWriteIntent_ *)
Check(t) ==
    LET p == Part(t) IN
    /\ AtStage(t, "check") /\ Clear(Entry(t), p)
    /\ journal' = [journal EXCEPT ![tab[t].request].state = "applying",
                                  ![tab[t].request].started = @ \cup {p}]
    /\ Stage(t, "write")
    /\ UNCHANGED <<draft, sheet, past>>

(* A refusal before the first mark is kept, and settles the draft: for     *)
(* changes when the class is not what it was, for good when a formula is   *)
(* found where cells are to be written.  After a mark the draft stays.     *)
RefusePart(t) ==
    LET q == tab[t].request IN
    /\ AtStage(t, "check")
    /\ \E verdict \in IF Clear(Entry(t), Part(t)) THEN {"failed"} ELSE {"returned"} :
          IF Untouched(Entry(t))
          THEN /\ journal' = [journal EXCEPT ![q].state = verdict]
               /\ Answers(t, verdict)
          ELSE /\ journal' = [journal EXCEPT ![q].state = "applying"]
               /\ Fades(t)
    /\ UNCHANGED <<draft, sheet, past>>

(* writeTransitionCells_ *)
Write(t) ==
    LET p == Part(t) IN
    /\ AtStage(t, "write")
    /\ IF Reconcilable(Entry(t), p)
       THEN /\ sheet' = [sheet EXCEPT ![p] = After(tab[t].draft, p)]
            /\ Stage(t, "confirm")
       ELSE Fades(t) /\ UNCHANGED sheet
    /\ UNCHANGED <<draft, journal, past>>

(* verifyReconciledCells_ and checkpointApplyJournal_ *)
Confirm(t) ==
    LET p == Part(t)  q == tab[t].request  e == [journal[q] EXCEPT !.written = @ \cup {p}] IN
    /\ AtStage(t, "confirm")
    /\ IF sheet[p] = After(tab[t].draft, p)
       THEN journal' = [journal EXCEPT ![q] = e] /\ Stage(t, Onward(e))
       ELSE Fades(t) /\ UNCHANGED journal
    /\ UNCHANGED <<draft, sheet, past>>

Record(t) ==
    /\ AtStage(t, "record")
    /\ journal' = [journal EXCEPT ![tab[t].request].state = "applied"]
    /\ Answers(t, "applied")
    /\ UNCHANGED <<draft, sheet, past>>

(* A call is lost or refused for the time being, or the script is stopped. *)
Lose(t) ==
    /\ tab[t] # Asleep
    /\ Fades(t)
    /\ UNCHANGED <<draft, sheet, journal, past>>

(* The site stops waiting, and its call goes on. *)
StopWaiting(t) ==
    /\ tab[t] # Asleep /\ tab[t].at # "answered" /\ tab[t].waits
    /\ tab' = [tab EXCEPT ![t].waits = FALSE]
    /\ UNCHANGED <<draft, sheet, journal, past>>

-----------------------------------------------------------------------------
(* completeDraftApply, failDraftApply, returnDraftApplyForChanges: what    *)
(* the draft becomes, if it still is as it was claimed.                    *)

SameClaim(t) ==
    LET d == draft[tab[t].draft] IN
    /\ d.request = tab[t].request /\ d.rev = tab[t].rev
    /\ d.status = "approved_pending_apply"

SettleDraft(t) ==
    LET d == tab[t].draft  reply == tab[t].reply IN
    /\ AtStage(t, "answered")
    /\ IF SameClaim(t)
       THEN /\ draft' = [draft EXCEPT
                   ![d].status = IF reply = "returned" THEN "draft" ELSE reply,
                   ![d].rev = @ + 1]
            /\ past' = [past EXCEPT ![tab[t].request].released = @ \/ reply # "applied"]
       ELSE UNCHANGED <<draft, past>>
    /\ Fades(t)
    /\ UNCHANGED <<sheet, journal>>

(* By hand: the class is changed while it is open, and other classes of    *)
(* the cohort come and go while the cohort is.                             *)
EditSheet ==
    /\ \/ /\ sheet.class # "closed"
          /\ sheet' = [sheet EXCEPT !.class = IF @ = "open" THEN "edited" ELSE "open"]
       \/ /\ sheet.cohort = "open"
          /\ sheet' = [sheet EXCEPT !.sibling = ~@]
    /\ UNCHANGED <<draft, journal, tab, past>>

DraftNext ==
    \/ \E d \in Drafts :
        \/ SaveDraft(d) \/ SubmitDraft(d) \/ CancelDraft(d)
        \/ \E t \in Tabs : Replay(t, d) \/ \E q \in Applies : Approve(t, d, q)
    \/ \E t \in Tabs :
        \/ Enter(t) \/ Check(t) \/ RefusePart(t) \/ Write(t) \/ Confirm(t) \/ Record(t)
        \/ Lose(t) \/ StopWaiting(t) \/ SettleDraft(t)
    \/ EditSheet

DraftSpec == DraftInit /\ [][DraftNext]_applyVars

-----------------------------------------------------------------------------
(* Properties *)

Journaled(q) == journal[q] # NoEntry
KeepsDraft(q) ==
    LET d == draft[journal[q].draft] IN
    d.request = q /\ d.status \in {"approved_pending_apply", "applied"}

(* A draft that is recorded as applied was written whole by the request it *)
(* names, and a class it closed is closed with its cohort.                 *)
AppliedWhole ==
    \A d \in Drafts : draft[d].status = "applied" =>
        LET e == journal[draft[d].request] IN
        /\ e # NoEntry /\ e.draft = d /\ e.state = "applied" /\ e.written = PartsOf(d)
        /\ KindOf[d] = "close" => sheet.class = "closed" /\ sheet.cohort = "closed"

(* apps-script/README.md:31: whatever was lost or stopped, a request that  *)
(* began to write still holds its draft, so that the repetition goes on    *)
(* and no other request writes it again.  Only for requests whose calls    *)
(* did not overlap: a refusal before the journal row is not remembered.    *)
WritingHolds ==
    \A q \in Applies :
        Journaled(q) /\ past[q].alone /\ ~Untouched(journal[q]) => KeepsDraft(q)

(* Nothing of a refused request is ever written, and of the others the     *)
(* parts are written in order. *)
RefusedIsBlank ==
    \A q \in Applies : Journaled(q) =>
        LET e == journal[q] IN
        /\ e.state \in {"returned", "failed"} => e.started = {}
        /\ e.written \subseteq e.started
        /\ "cohort" \in e.started => "class" \in e.written

(* No order of stops and repetitions, of two drafts of one class, closes a *)
(* cohort and leaves its class open. *)
CohortClosesLast == sheet.cohort = "closed" => sheet.class = "closed"

DraftsSound == AppliedWhole /\ WritingHolds /\ RefusedIsBlank /\ CohortClosesLast
=============================================================================
